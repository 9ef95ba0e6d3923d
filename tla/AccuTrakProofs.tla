---------------------------- MODULE AccuTrakProofs ----------------------------
(***************************************************************************)
(* The configuration and the patch manager, for any modules, configuration *)
(* files and link maps.                                                    *)
(*                                                                         *)
(* SettingsSane holds after any sequence of lines (ParseLineIsSane, and    *)
(* the completion of the settings, StartSettings); it remains so because   *)
(* only modules are added later (Enlarges).  Shape is the type invariant.  *)
(*                                                                         *)
(* ModulesInv says how far the loop over the configured modules has come   *)
(* with the module it is at, PassInv which passes of Patch there are.      *)
(*                                                                         *)
(* ReleasesCovered is not inductive: while Patch is under way it says      *)
(* nothing of the modules that are behind the loops.  CoverInv adds how    *)
(* far the first loop has come (FreeInv), that the loop over all modules   *)
(* leaves none unsettled (SettledInv), which is why it may skip a module   *)
(* by its mark (MarksInv), and that a module which makes blocks releases   *)
(* its own (OwnInv); TakenInv, whose routines the slots lead to.  The      *)
(* modules of a group are covered because they are done with (SeenInv,     *)
(* below).                                                                 *)
(*                                                                         *)
(* AllocationsTracked is about the entries of the settings: TrackInv says  *)
(* that a marked entry's module has been patched (PatchedInv), that all    *)
(* are marked when nothing is left to patch (FinishedInv), what the loop   *)
(* has behind it (WalkedInv), which modules are listed (ListedInv) and     *)
(* that between patches those that are listed are done with (SeenInv).     *)
(*                                                                         *)
(* RecordsNameModules relates slots and AccuTrak.rec by way of the         *)
(* entries: RecordInv says that an entry's routine carries its place in    *)
(* the list (NumberedInv), that it is patched only into the module of its  *)
(* name (RecordedInv), and how much of the list the file has (FileInv).    *)
(***************************************************************************)
EXTENDS AccuTrak, TLAPS, SequenceTheorems

\* For the induction over intervals.
Log == INSTANCE ConsolidatedLogProofs

-------------------------------------------------------------------------------
(* Settings *)

Fields ==
  {"mMode", "mModules", "mPatchAllUserModules", "self_contained", "patch_dlopen",
   "incremental_patch", "check_underrun", "check_access_freed", "fill_new", "flood_free",
   "patch_debug", "batch_mode", "back_trace_free", "mMinBlockSize", "mMaxBlockSize",
   "mAlignment", "mCheckFrequency", "mBackTraceDepth", "mMaxCachedBlocks",
   "mMaxDeferFreeBytes", "mpOutput", "mOutputLevel", "mActionType", "mEventList", "valid"}

Families == Modes \cup {"NULL"}
Entries == [mModuleName : STRING, routines : [family : Families, index : Nat], mPatched : BOOLEAN]

Formed(s) == DOMAIN s = Fields /\ s.mModules \in Seq(Entries)

\* SettingsSane, of any settings.
Sane(s) ==
  /\ s.mMinBlockSize \in Nat /\ s.mMaxBlockSize \in Nat /\ s.mMinBlockSize <= s.mMaxBlockSize
  /\ Aligned(s.mAlignment)
  /\ s.mBackTraceDepth \in 0 .. MaxStackDepth
  /\ Cacheable(s.mMaxCachedBlocks)
  /\ Deferrable(s.mMaxDeferFreeBytes)

FamilyOf(mode) == IF mode \in Modes THEN mode ELSE "NULL"

\* Every module has the routines of the mode.
Alike(s) == \A i \in DOMAIN s.mModules : s.mModules[i].routines.family = FamilyOf(s.mMode)

\* t is s with more modules, all with the routines of the mode if those of s have them.
Enlarges(t, s) ==
  /\ Formed(t)
  /\ \A f \in Fields \ {"mModules"} : t[f] = s[f]
  /\ Len(s.mModules) <= Len(t.mModules)
  /\ Alike(s) => Alike(t)

LEMMA SaneInitially ==
  Formed(DefaultSettings) /\ Sane(DefaultSettings) /\ DefaultSettings.mModules = <<>>
<1>1. 8 = 2 ^ 3 /\ 3 \in 0 .. 8
  BY SMT
<1>2. /\ DefaultSettings.mMinBlockSize = 0 /\ DefaultSettings.mMaxBlockSize = ULongMax
      /\ DefaultSettings.mAlignment = 8 /\ DefaultSettings.mBackTraceDepth = 0
      /\ DefaultSettings.mMaxCachedBlocks = 1024 /\ DefaultSettings.mMaxDeferFreeBytes = 0
      /\ DefaultSettings.mModules = <<>>
  BY DEF DefaultSettings
<1>3. DOMAIN DefaultSettings = Fields
  BY DEF DefaultSettings, Fields
<1>4. ULongMax \in Nat /\ MaxStackDepth \in Nat
  BY ConfigAssumption
<1>5. Formed(DefaultSettings)
  BY <1>2, <1>3 DEF Formed
<1>6. Sane(DefaultSettings)
  <2> DEFINE d == DefaultSettings
  <2>1. 0 <= ULongMax /\ 0 \in 0 .. MaxStackDepth /\ 1024 <= 1024 * 1024
    BY <1>4
  <2>2. d.mMinBlockSize \in Nat /\ d.mMaxBlockSize \in Nat /\ d.mMinBlockSize <= d.mMaxBlockSize
    BY <1>2, <1>4, <2>1
  <2>3. Aligned(d.mAlignment) /\ Deferrable(d.mMaxDeferFreeBytes)
    BY <1>1, <1>2 DEF Aligned, Deferrable
  <2>4. d.mBackTraceDepth \in 0 .. MaxStackDepth /\ Cacheable(d.mMaxCachedBlocks)
    <3> DEFINE top == 1024 * 1024
    <3>1. top \in Int /\ 1024 <= top
      OBVIOUS
    <3> HIDE DEF top
    <3>2. d.mMaxCachedBlocks = 1024
      BY <1>2
    <3> HIDE DEF d
    <3>3. d.mMaxCachedBlocks \in 32 .. top
      BY <3>1, <3>2
    <3>4. Cacheable(d.mMaxCachedBlocks)
      <4> DEFINE n == d.mMaxCachedBlocks
      <4>1. n \in 32 .. top
        BY <3>3
      <4> HIDE DEF n
      <4>2. Cacheable(n)
        BY <4>1, Zenon DEF Cacheable, top
      <4> QED
        BY <4>2 DEF n
    <3>5. d.mBackTraceDepth \in 0 .. MaxStackDepth
      BY <1>2, <2>1 DEF d
    <3> QED
      BY <3>4, <3>5
  <2> HIDE DEF d
  <2>5. Sane(d)
    BY <1>2, <2>2, <2>3, <2>4 DEF Sane, d
  <2> QED
    BY <2>5 DEF d
<1> QED
  BY <1>2, <1>5, <1>6

LEMMA RoutinesOfMode ==
  ASSUME NEW mode, NEW n \in Nat
  PROVE  /\ Routines(mode, n).family = FamilyOf(mode)
         /\ Routines(mode, n) \in [family : Families, index : Nat]
<1>1. MaxModulesToRecord \in Nat \ {0}
  BY ConfigAssumption
<1>2. CASE mode \in Modes
  <2> DEFINE index == IF mode # "record" THEN 0
                      ELSE IF n >= MaxModulesToRecord THEN MaxModulesToRecord - 1 ELSE n
  <2>1. index \in Nat
    BY <1>1
  <2>2. Routines(mode, n) = [family |-> mode, index |-> index]
    BY <1>2 DEF Routines
  <2>3. mode \in Families
    BY <1>2 DEF Families
  <2> HIDE DEF index
  <2> QED
    BY <1>2, <2>1, <2>2, <2>3 DEF FamilyOf
<1>3. CASE mode \notin Modes
  BY <1>3 DEF Routines, FamilyOf, NoRoutines, Families
<1> QED
  BY <1>2, <1>3

LEMMA EnlargesIsTransitive ==
  ASSUME NEW r, NEW s, NEW t, Formed(r), Enlarges(s, r), Enlarges(t, s)
  PROVE  Enlarges(t, r)
<1>1. Formed(r) /\ Formed(s) /\ Formed(t)
  BY DEF Enlarges
<1>2. Len(r.mModules) \in Nat /\ Len(s.mModules) \in Nat /\ Len(t.mModules) \in Nat
  BY <1>1 DEF Formed
<1> QED
  BY <1>1, <1>2 DEF Enlarges

LEMMA AddModuleEnlarges ==
  ASSUME NEW s, Formed(s), NEW name \in STRING
  PROVE  Enlarges(AddModule(s, name), s) /\ AddModule(s, name).mModules # <<>>
<1> DEFINE m == s.mModules
           e == [mModuleName |-> IF name = "exec" THEN BaseName[Exec] ELSE name,
                 routines |-> Routines(s.mMode, Len(m)), mPatched |-> FALSE]
           t == [s EXCEPT !.mModules = Append(m, e)]
<1>1. m \in Seq(Entries) /\ Len(m) \in Nat /\ DOMAIN s = Fields
  BY DEF Formed
<1>2. CASE Listed(s, name)
  <2>1. m # <<>>
    BY <1>2 DEF Listed
  <2> QED
    BY <1>1, <1>2, <2>1 DEF AddModule, Enlarges
<1>3. CASE ~Listed(s, name)
  <2>1. AddModule(s, name) = t
    BY <1>3 DEF AddModule
  <2>2. e \in Entries
    <3>1. BaseName[Exec] \in STRING
      BY ConfigAssumption
    <3>2. Routines(s.mMode, Len(m)) \in [family : Families, index : Nat]
      BY <1>1, RoutinesOfMode
    <3> QED
      BY <3>1, <3>2 DEF Entries
  <2>3. e.routines.family = FamilyOf(s.mMode)
    BY <1>1, RoutinesOfMode
  <2>4. /\ DOMAIN t = Fields /\ t.mModules = Append(m, e)
        /\ \A f \in Fields \ {"mModules"} : t[f] = s[f]
    <3> HIDE DEF m, e
    <3>1. "mModules" \in Fields
      BY DEF Fields
    <3> QED
      BY <1>1, <3>1
  <2> HIDE DEF t, e
  <2>5. /\ Append(m, e) \in Seq(Entries) /\ Len(Append(m, e)) = Len(m) + 1
        /\ \A i \in 1 .. Len(m) : Append(m, e)[i] = m[i]
        /\ Append(m, e)[Len(m) + 1] = e
    <3> HIDE DEF m
    <3> QED BY <1>1, <2>2
  <2>6. Alike(s) => Alike(t)
    <3>1. "mMode" \in Fields \ {"mModules"}
      BY DEF Fields
    <3>2. t.mMode = s.mMode
      BY <2>4, <3>1
    <3>3. SUFFICES ASSUME Alike(s), NEW i \in DOMAIN t.mModules
                   PROVE  t.mModules[i].routines.family = FamilyOf(s.mMode)
      BY <3>2 DEF Alike
    <3>4. i \in 1 .. Len(m) + 1
      BY <2>4, <2>5, <3>3
    <3>5. CASE i = Len(m) + 1
      BY <2>3, <2>4, <2>5, <3>5
    <3>6. CASE i # Len(m) + 1
      <4>1. i \in 1 .. Len(m) /\ i \in DOMAIN s.mModules
        BY <1>1, <3>4, <3>6
      <4> QED
        BY <2>4, <2>5, <3>3, <4>1 DEF Alike
    <3> QED
      BY <3>5, <3>6
  <2>7. Enlarges(t, s)
    BY <1>1, <2>4, <2>5, <2>6 DEF Enlarges, Formed
  <2>8. t.mModules # <<>>
    BY <1>1, <2>4, <2>5
  <2> QED
    BY <2>1, <2>7, <2>8
<1> QED
  BY <1>2, <1>3

\* The names are added one after the other.
LEMMA AddedOneByOne ==
  ASSUME NEW s, NEW names \in Seq(STRING)
  PROVE  \E f : /\ f[0] = s /\ AddModules(s, names) = f[Len(names)]
                /\ \A k \in 0 .. Len(names) - 1 : f[k + 1] = AddModule(f[k], names[k + 1])
<1> DEFINE n == Len(names)
           By(k, g) == g = [i \in 0 .. k |-> IF i = 0 THEN s ELSE AddModule(g[i - 1], names[i])]
<1>0. n \in Nat
  OBVIOUS
<1>1. \E g : By(n, g)
  <2> DEFINE P == {k \in 0 .. n : \E g : By(k, g)}
  <2>1. 0 \in P
    <3>1. By(0, [i \in 0 .. 0 |-> s])
      OBVIOUS
    <3> HIDE DEF By, n
    <3> QED
      BY <1>0, <3>1
  <2>2. ASSUME NEW k \in 0 .. n - 1, k \in P PROVE k + 1 \in P
    <3>1. PICK g : By(k, g)
      BY <2>2
    <3> DEFINE h == [i \in 0 .. k + 1 |-> IF i = k + 1 THEN AddModule(g[k], names[k + 1]) ELSE g[i]]
    <3> HIDE DEF n
    <3>2. By(k + 1, h)
      BY <1>0, <3>1
    <3> HIDE DEF By, h
    <3> QED
      BY <1>0, <3>2
  <2> HIDE DEF P, n
  <2>3. 0 .. n \subseteq P
    BY <1>0, <2>1, <2>2, Log!IntervalInduction
  <2>4. n \in P
    BY <1>0, <2>3
  <2> HIDE DEF By
  <2> QED
    BY <2>4 DEF P
<1> DEFINE f == CHOOSE g : By(n, g)
<1>2. By(n, f)
  <2> HIDE DEF By, n
  <2> QED BY <1>1
<1>3. AddModules(s, names) = f[n]
  BY DEF AddModules
<1> HIDE DEF f
<1>4. f[0] = s /\ \A k \in 0 .. n - 1 : f[k + 1] = AddModule(f[k], names[k + 1])
  <2> HIDE DEF n
  <2> QED BY <1>0, <1>2
<1> QED
  BY <1>3, <1>4

LEMMA AddModulesEnlarges ==
  ASSUME NEW s, Formed(s), NEW names \in Seq(STRING)
  PROVE  Enlarges(AddModules(s, names), s)
<1> DEFINE n == Len(names)
<1>0. n \in Nat /\ \A i \in 1 .. n : names[i] \in STRING
  OBVIOUS
<1>1. PICK f : /\ f[0] = s /\ AddModules(s, names) = f[n]
               /\ \A k \in 0 .. n - 1 : f[k + 1] = AddModule(f[k], names[k + 1])
  BY AddedOneByOne
<1> HIDE DEF n
<1> DEFINE P == {k \in 0 .. n : Enlarges(f[k], s)}
<1>4. 0 \in P
  <2>1. f[0] = s
    BY <1>1
  <2>2. Enlarges(s, s)
    BY DEF Enlarges, Formed
  <2> QED
    BY <1>0, <2>1, <2>2
<1>5. ASSUME NEW k \in 0 .. n - 1, k \in P PROVE k + 1 \in P
  <2>1. f[k + 1] = AddModule(f[k], names[k + 1]) /\ names[k + 1] \in STRING
    BY <1>0, <1>1
  <2>2. Enlarges(f[k], s) /\ Formed(f[k])
    BY <1>5 DEF Enlarges
  <2>3. Enlarges(f[k + 1], s)
    <3>1. Enlarges(f[k + 1], f[k])
      BY <2>1, <2>2, AddModuleEnlarges
    <3> QED
      BY <2>2, <3>1, EnlargesIsTransitive
  <2> QED
    BY <1>0, <2>3
<1>6. n \in P
  <2> HIDE DEF P
  <2>1. 0 .. n \subseteq P
    BY <1>0, <1>4, <1>5, Log!IntervalInduction
  <2> QED BY <1>0, <2>1
<1> QED
  BY <1>1, <1>6

\* So are the names of the modules of the application.
LEMMA AllAddedOneByOne ==
  ASSUME NEW s, NEW modules \in Seq(Libs)
  PROVE  \E f : /\ f[0] = s /\ AddAllModulesInCore(s, modules) = f[Len(modules)]
                /\ \A k \in 0 .. Len(modules) - 1 : f[k + 1] = AddModuleInCore(f[k], modules[k + 1])
<1> DEFINE n == Len(modules)
           By(k, g) == g = [i \in 0 .. k |-> IF i = 0 THEN s ELSE AddModuleInCore(g[i - 1], modules[i])]
<1>0. n \in Nat
  OBVIOUS
<1>1. \E g : By(n, g)
  <2> DEFINE P == {k \in 0 .. n : \E g : By(k, g)}
  <2>1. 0 \in P
    <3>1. By(0, [i \in 0 .. 0 |-> s])
      OBVIOUS
    <3> HIDE DEF By, n
    <3> QED
      BY <1>0, <3>1
  <2>2. ASSUME NEW k \in 0 .. n - 1, k \in P PROVE k + 1 \in P
    <3>1. PICK g : By(k, g)
      BY <2>2
    <3> DEFINE h == [i \in 0 .. k + 1 |-> IF i = k + 1 THEN AddModuleInCore(g[k], modules[k + 1]) ELSE g[i]]
    <3> HIDE DEF n
    <3>2. By(k + 1, h)
      BY <1>0, <3>1
    <3> HIDE DEF By, h
    <3> QED
      BY <1>0, <3>2
  <2> HIDE DEF P, n
  <2>3. 0 .. n \subseteq P
    BY <1>0, <2>1, <2>2, Log!IntervalInduction
  <2>4. n \in P
    BY <1>0, <2>3
  <2> HIDE DEF By
  <2> QED
    BY <2>4 DEF P
<1> DEFINE f == CHOOSE g : By(n, g)
<1>2. By(n, f)
  <2> HIDE DEF By, n
  <2> QED BY <1>1
<1>3. AddAllModulesInCore(s, modules) = f[n]
  BY DEF AddAllModulesInCore
<1> HIDE DEF f
<1>4. f[0] = s /\ \A k \in 0 .. n - 1 : f[k + 1] = AddModuleInCore(f[k], modules[k + 1])
  <2> HIDE DEF n
  <2> QED BY <1>0, <1>2
<1> QED
  BY <1>3, <1>4

LEMMA AddAllEnlarges ==
  ASSUME NEW s, Formed(s), NEW modules \in Seq(Libs), modules # <<>>, modules[1] = Exec
  PROVE  /\ Enlarges(AddAllModulesInCore(s, modules), s)
         /\ AddAllModulesInCore(s, modules).mModules # <<>>
<1> DEFINE n == Len(modules)
<1>0. n \in Nat \ {0} /\ \A i \in 1 .. n : modules[i] \in Libs /\ BaseName[modules[i]] \in STRING
  BY ConfigAssumption
<1>1. PICK f : /\ f[0] = s /\ AddAllModulesInCore(s, modules) = f[n]
               /\ \A k \in 0 .. n - 1 : f[k + 1] = AddModuleInCore(f[k], modules[k + 1])
  BY AllAddedOneByOne
<1> HIDE DEF n
<1> DEFINE P == {k \in 0 .. n : Enlarges(f[k], s) /\ (k > 0 => f[k].mModules # <<>>)}
<1>4. 0 \in P
  <2>1. f[0] = s
    BY <1>1
  <2>2. Enlarges(s, s)
    BY DEF Enlarges, Formed
  <2> QED
    BY <1>0, <2>1, <2>2
<1>5. ASSUME NEW k \in 0 .. n - 1, k \in P PROVE k + 1 \in P
  <2>1. f[k + 1] = AddModuleInCore(f[k], modules[k + 1]) /\ BaseName[modules[k + 1]] \in STRING
    BY <1>0, <1>1
  <2>2. Enlarges(f[k], s) /\ Formed(f[k])
    BY <1>5 DEF Enlarges
  <2>3. Enlarges(f[k + 1], f[k]) /\ (f[k + 1] = f[k] \/ f[k + 1].mModules # <<>>)
    <3>1. CASE Kind[modules[k + 1]] = "user"
      <4>1. f[k + 1] = AddModule(f[k], BaseName[modules[k + 1]])
        BY <2>1, <3>1 DEF AddModuleInCore
      <4> QED
        BY <2>1, <2>2, <4>1, AddModuleEnlarges
    <3>2. CASE Kind[modules[k + 1]] # "user"
      <4>1. f[k + 1] = f[k]
        BY <2>1, <3>2 DEF AddModuleInCore
      <4> QED
        BY <2>2, <4>1 DEF Enlarges, Formed
    <3> QED
      BY <3>1, <3>2
  <2>4. Enlarges(f[k + 1], s)
    BY <2>2, <2>3, EnlargesIsTransitive
  <2>5. f[k + 1].mModules # <<>>
    <3>1. CASE k = 0
      <4>1. f[k + 1] = AddModule(f[k], BaseName[Exec])
        BY <2>1, <3>1, ConfigAssumption DEF AddModuleInCore
      <4>2. BaseName[Exec] \in STRING
        BY ConfigAssumption
      <4> QED
        BY <2>2, <4>1, <4>2, AddModuleEnlarges
    <3>2. CASE k # 0
      <4>1. f[k].mModules # <<>>
        BY <1>0, <1>5, <3>2
      <4> QED
        BY <2>3, <4>1
    <3> QED
      BY <3>1, <3>2
  <2> QED
    BY <1>0, <2>4, <2>5
<1>6. n \in P
  <2> HIDE DEF P
  <2>1. 0 .. n \subseteq P
    BY <1>0, <1>4, <1>5, Log!IntervalInduction
  <2> QED BY <1>0, <2>1
<1> QED
  BY <1>0, <1>1, <1>6

-------------------------------------------------------------------------------
(* Lines *)

\* t is s with other values of some fields.
Sets(t, s, fields) == DOMAIN t = Fields /\ \A f \in Fields \ fields : t[f] = s[f]

\* Fields nothing is said about.
Plain == Flags \cup {"mPatchAllUserModules", "batch_mode", "mCheckFrequency", "mpOutput",
                    "mOutputLevel", "mActionType", "mEventList", "valid"}

LEMMA PlainIsPlain ==
  ASSUME NEW s, Formed(s), Sane(s), NEW t, Sets(t, s, Plain)
  PROVE  Formed(t) /\ Sane(t) /\ t.mModules = s.mModules /\ t.mMode = s.mMode
<1>1. {"mMode", "mModules", "mMinBlockSize", "mMaxBlockSize", "mAlignment", "mBackTraceDepth",
       "mMaxCachedBlocks", "mMaxDeferFreeBytes"} \subseteq Fields \ Plain
  BY DEF Fields, Plain, Flags
<1>2. /\ t.mMode = s.mMode /\ t.mModules = s.mModules
      /\ t.mMinBlockSize = s.mMinBlockSize /\ t.mMaxBlockSize = s.mMaxBlockSize
      /\ t.mAlignment = s.mAlignment /\ t.mBackTraceDepth = s.mBackTraceDepth
      /\ t.mMaxCachedBlocks = s.mMaxCachedBlocks /\ t.mMaxDeferFreeBytes = s.mMaxDeferFreeBytes
  BY <1>1 DEF Sets
<1>3. Formed(t)
  BY <1>2 DEF Formed, Sets
<1>4. Sane(t)
  BY <1>2 DEF Sane
<1> QED
  BY <1>2, <1>3, <1>4

LEMMA SetFlagIsPlain ==
  ASSUME NEW s, Formed(s), NEW key \in Plain, NEW val
  PROVE  Sets(SetFlag(s, key, val), s, Plain)
BY DEF SetFlag, Sets, Formed

LEMMA SetBatchModeIsPlain ==
  ASSUME NEW s, Formed(s), NEW val
  PROVE  Sets(SetBatchMode(s, val), s, Plain)
<1> DEFINE t == [[s EXCEPT !.batch_mode = TRUE] EXCEPT !.mpOutput = "NULL"]
<1>1. [s EXCEPT !.batch_mode = TRUE, !.mpOutput = "NULL"] = t
  BY Zenon
<1>2. Sets(t, s, Plain)
  BY DEF Sets, Formed, Plain
<1>3. Sets(SetFlag(s, "batch_mode", val), s, Plain)
  BY SetFlagIsPlain DEF Plain
<1> HIDE DEF t
<1> QED
  BY <1>1, <1>2, <1>3, Zenon DEF SetBatchMode

LEMMA SetOutputIsPlain ==
  ASSUME NEW s, Formed(s), NEW val
  PROVE  Sets(SetOutput(s, val), s, Plain)
<1> DEFINE t == [[s EXCEPT !.mpOutput = "NULL"] EXCEPT !.valid = FALSE]
           u == [s EXCEPT !.mpOutput = val]
<1>1. [s EXCEPT !.mpOutput = "NULL", !.valid = FALSE] = t
  BY Zenon
<1>2. Sets(t, s, Plain) /\ Sets(u, s, Plain) /\ Sets(s, s, Plain)
  BY DEF Sets, Formed, Plain
<1>3. CASE val = ""
  BY <1>2, <1>3 DEF SetOutput
<1>4. CASE val # "" /\ val = "cannot open"
  <2>1. SetOutput(s, val) = t
    BY <1>1, <1>4, Zenon DEF SetOutput
  <2> QED BY <1>2, <2>1
<1>5. CASE val # "" /\ val # "cannot open"
  <2>1. SetOutput(s, val) = u
    BY <1>5, Zenon DEF SetOutput
  <2> QED BY <1>2, <2>1
<1> QED
  BY <1>3, <1>4, <1>5

LEMMA EventsArePlain ==
  ASSUME NEW s, Formed(s), NEW val
  PROVE  /\ Sets(SetEventAction(s, val), s, Plain)
         /\ Sets(AddEvent(s, val), s, Plain)
         /\ Sets(SetMessageLevel(s, val), s, Plain)
         /\ Sets([s EXCEPT !.mCheckFrequency = val], s, Plain)
<1>1. Sets(SetEventAction(s, val), s, Plain)
  BY DEF SetEventAction, Sets, Formed, Plain
<1>2. Sets(AddEvent(s, val), s, Plain)
  BY DEF AddEvent, Sets, Formed, Plain
<1>3. Sets(SetMessageLevel(s, val), s, Plain)
  BY DEF SetMessageLevel, Sets, Formed, Plain
<1>4. Sets([s EXCEPT !.mCheckFrequency = val], s, Plain)
  BY DEF Sets, Formed, Plain
<1> QED
  BY <1>1, <1>2, <1>3, <1>4

\* The numbers are checked, or brought within their bounds, one by one.
LEMMA SetNumberIsSane ==
  ASSUME NEW s, Formed(s), Sane(s), NEW n \in Int,
         NEW t \in {SetMinBlockSize(s, n), SetMaxBlockSize(s, n), SetAlignment(s, n),
                    SetBackTraceDepth(s, n), SetMaxCachedBlocks(s, n), SetMaxDeferFreeBytes(s, n)}
  PROVE  Formed(t) /\ Sane(t) /\ t.mModules = s.mModules /\ t.mMode = s.mMode
<1>1. {"mMode", "mModules", "mMinBlockSize", "mMaxBlockSize", "mAlignment", "mBackTraceDepth",
       "mMaxCachedBlocks", "mMaxDeferFreeBytes"} \subseteq Fields
  BY DEF Fields
<1>2. ULongMax \in Nat /\ MaxStackDepth \in Nat /\ Unsigned(n) \in Nat
  BY ConfigAssumption DEF Unsigned
<1>3. CASE t = SetMinBlockSize(s, n)
  <2>1. CASE Unsigned(n) <= s.mMaxBlockSize
    <3>1. t = [s EXCEPT !.mMinBlockSize = Unsigned(n)]
      BY <1>3, <2>1 DEF SetMinBlockSize
    <3> QED
      BY <1>1, <1>2, <2>1, <3>1 DEF Formed, Sane
  <2>2. CASE ~(Unsigned(n) <= s.mMaxBlockSize)
    BY <1>3, <2>2 DEF SetMinBlockSize
  <2> QED
    BY <2>1, <2>2
<1>4. CASE t = SetMaxBlockSize(s, n)
  <2>1. CASE Unsigned(n) >= s.mMinBlockSize
    <3>1. t = [s EXCEPT !.mMaxBlockSize = Unsigned(n)]
      BY <1>4, <2>1 DEF SetMaxBlockSize
    <3> QED
      BY <1>1, <1>2, <2>1, <3>1 DEF Formed, Sane
  <2>2. CASE ~(Unsigned(n) >= s.mMinBlockSize)
    BY <1>4, <2>2 DEF SetMaxBlockSize
  <2> QED
    BY <2>1, <2>2
<1>5. CASE t = SetAlignment(s, n)
  <2>1. CASE n \in Alignments
    <3>1. t = [s EXCEPT !.mAlignment = n] /\ Aligned(n)
      BY <1>5, <2>1 DEF SetAlignment, Alignments, Aligned
    <3> QED
      BY <1>1, <3>1 DEF Formed, Sane
  <2>2. CASE n \notin Alignments
    BY <1>5, <2>2 DEF SetAlignment
  <2> QED
    BY <2>1, <2>2
<1>6. CASE t = SetBackTraceDepth(s, n)
  <2>1. CASE n > 0
    <3> DEFINE depth == IF n > MaxStackDepth THEN MaxStackDepth ELSE n
    <3>1. t = [s EXCEPT !.mBackTraceDepth = depth]
      BY <1>6, <2>1 DEF SetBackTraceDepth
    <3>2. depth \in 0 .. MaxStackDepth
      BY <1>2, <2>1
    <3> HIDE DEF depth
    <3> QED
      BY <1>1, <3>1, <3>2 DEF Formed, Sane
  <2>2. CASE ~(n > 0)
    BY <1>6, <2>2 DEF SetBackTraceDepth
  <2> QED
    BY <2>1, <2>2
<1>7. CASE t = SetMaxCachedBlocks(s, n)
  <2>1. CASE n >= 32 /\ n <= 1024 * 1024
    <3> DEFINE top == 1024 * 1024
    <3>1. t = [s EXCEPT !.mMaxCachedBlocks = n]
      BY <1>7, <2>1 DEF SetMaxCachedBlocks
    <3>2. top \in Int /\ 32 <= n /\ n <= top
      BY <2>1
    <3> HIDE DEF top
    <3>3. n \in 32 .. top
      BY <3>2
    <3>4. Cacheable(n)
      BY <3>3, Zenon DEF Cacheable, top
    <3> QED
      BY <1>1, <3>1, <3>4 DEF Formed, Sane
  <2>2. CASE ~(n >= 32 /\ n <= 1024 * 1024)
    BY <1>7, <2>2 DEF SetMaxCachedBlocks
  <2> QED
    BY <2>1, <2>2
<1>8. CASE t = SetMaxDeferFreeBytes(s, n)
  <2>1. CASE n >= 4096
    <3>1. t = [s EXCEPT !.mMaxDeferFreeBytes = n] /\ Deferrable(n)
      BY <1>8, <2>1 DEF SetMaxDeferFreeBytes, Deferrable
    <3> QED
      BY <1>1, <3>1 DEF Formed, Sane
  <2>2. CASE ~(n >= 4096)
    BY <1>8, <2>2 DEF SetMaxDeferFreeBytes
  <2> QED
    BY <2>1, <2>2
<1> QED
  BY <1>3, <1>4, <1>5, <1>6, <1>7, <1>8

LEMMA EnlargedIsSane ==
  ASSUME NEW s, Sane(s), NEW t, Enlarges(t, s)
  PROVE  Sane(t) /\ t.mMode = s.mMode
<1>1. {"mMode", "mMinBlockSize", "mMaxBlockSize", "mAlignment", "mBackTraceDepth",
       "mMaxCachedBlocks", "mMaxDeferFreeBytes"} \subseteq Fields \ {"mModules"}
  BY DEF Fields
<1>2. /\ t.mMode = s.mMode
      /\ t.mMinBlockSize = s.mMinBlockSize /\ t.mMaxBlockSize = s.mMaxBlockSize
      /\ t.mAlignment = s.mAlignment /\ t.mBackTraceDepth = s.mBackTraceDepth
      /\ t.mMaxCachedBlocks = s.mMaxCachedBlocks /\ t.mMaxDeferFreeBytes = s.mMaxDeferFreeBytes
  BY <1>1 DEF Enlarges
<1> QED
  BY <1>2 DEF Sane

LEMMA SetModulesIsSane ==
  ASSUME NEW s, Formed(s), Sane(s), NEW names \in Seq(STRING)
  PROVE  LET t == SetModules(s, names)
         IN  Formed(t) /\ Sane(t) /\ t.mMode = s.mMode /\ (Alike(s) => Alike(t))
<1>1. CASE names = <<"all">>
  <2>1. Sets([s EXCEPT !.mPatchAllUserModules = TRUE], s, Plain)
    BY DEF Sets, Formed, Plain
  <2> QED
    BY <1>1, <2>1, PlainIsPlain DEF SetModules, Alike
<1>2. CASE names # <<"all">> /\ s.mPatchAllUserModules
  BY <1>2 DEF SetModules
<1>3. CASE names # <<"all">> /\ ~s.mPatchAllUserModules
  <2>1. SetModules(s, names) = AddModules(s, names)
    BY <1>3 DEF SetModules
  <2>2. Enlarges(AddModules(s, names), s)
    BY AddModulesEnlarges
  <2> QED
    BY <2>1, <2>2, EnlargedIsSane DEF Enlarges
<1> QED
  BY <1>1, <1>2, <1>3

LEMMA SetModeIsSane ==
  ASSUME NEW s, Formed(s), Sane(s), NEW mode
  PROVE  LET t == SetMode(s, mode)
         IN  Formed(t) /\ Sane(t) /\ t.mModules = s.mModules
<1>1. Sets([s EXCEPT !.valid = FALSE], s, Plain)
  BY DEF Sets, Formed, Plain
<1>2. Formed([s EXCEPT !.mMode = mode]) /\ Sane([s EXCEPT !.mMode = mode])
        /\ [s EXCEPT !.mMode = mode].mModules = s.mModules
  BY DEF Formed, Sane, Fields
<1> QED
  BY <1>1, <1>2, PlainIsPlain DEF SetMode

\* What the value of a line is follows from its key.
LEMMA LineValues ==
  ASSUME NEW line \in Lines
  PROVE  /\ line.key \in NumberKeys => line.val \in Int
         /\ line.key = "modules" => line.val \in Seq(STRING)
<1>1. CASE line \in [key : NumberKeys, val : Int]
  BY <1>1 DEF NumberKeys
<1>2. CASE line \in [key : {"modules"}, val : Seq(STRING)]
  BY <1>2 DEF NumberKeys
<1>3. CASE line \in [key : {"event"}, val : [mType : STRING, mValue : Int]]
  BY <1>3 DEF NumberKeys
<1>4. CASE line \in [key : STRING \ (NumberKeys \cup {"modules", "event"}), val : STRING]
  BY <1>4
<1> QED
  BY <1>1, <1>2, <1>3, <1>4 DEF Lines

\* A line leaves the numbers sane.  Only modules= lists modules, with the routines of the mode
\* read so far, and only mode= changes the mode.
LEMMA ParseLineIsSane ==
  ASSUME NEW s, Formed(s), Sane(s), NEW line \in Lines
  PROVE  LET t == ParseLine(s, line)
         IN  /\ Formed(t) /\ Sane(t)
             /\ line.key # "modules" => t.mModules = s.mModules
             /\ line.key # "mode" => t.mMode = s.mMode
             /\ line.key # "mode" /\ Alike(s) => Alike(t)
<1> DEFINE t == ParseLine(s, line)
           key == line.key
           val == line.val
           Result(x) == /\ Formed(x) /\ Sane(x)
                        /\ key # "modules" => x.mModules = s.mModules
                        /\ key # "mode" => x.mMode = s.mMode
                        /\ key # "mode" /\ Alike(s) => Alike(x)
<1> HIDE DEF t, key, val
<1>1. ASSUME NEW x, Formed(x), Sane(x), x.mModules = s.mModules, x.mMode = s.mMode
      PROVE  Result(x)
  BY <1>1 DEF Alike
<1>2. ASSUME NEW x, Sets(x, s, Plain) PROVE Result(x)
  BY <1>1, <1>2, PlainIsPlain
<1>3. Result(s)
  BY <1>1
<1>4. /\ ~s.valid => t = s
      /\ s.valid /\ key \in Flags => t = SetFlag(s, key, val)
      /\ s.valid /\ key \notin Flags /\ key = "modules" => t = SetModules(s, val)
      /\ s.valid /\ key \notin Flags /\ key = "mode" => t = SetMode(s, val)
      /\ s.valid /\ key \in NumberKeys \ {"check_frequency"} =>
           t \in {SetMinBlockSize(s, val), SetMaxBlockSize(s, val), SetAlignment(s, val),
                  SetBackTraceDepth(s, val), SetMaxCachedBlocks(s, val),
                  SetMaxDeferFreeBytes(s, val)}
      /\ s.valid /\ key \notin Flags \cup {"modules", "mode"} \cup (NumberKeys \ {"check_frequency"}) =>
           t \in {[s EXCEPT !.mCheckFrequency = val], SetBatchMode(s, val), SetOutput(s, val),
                  SetEventAction(s, val), AddEvent(s, val), SetMessageLevel(s, val), s}
  BY DEF ParseLine, t, key, val, NumberKeys, Flags
<1>5. key \in NumberKeys => val \in Int
  BY LineValues DEF key, val
<1>6. key = "modules" => val \in Seq(STRING)
  BY LineValues DEF key, val
<1>7. CASE ~s.valid
  BY <1>3, <1>4, <1>7 DEF t
<1>8. CASE s.valid /\ key \in Flags
  <2>1. Sets(t, s, Plain)
    BY <1>4, <1>8, SetFlagIsPlain DEF Plain
  <2> QED
    BY <1>2, <2>1 DEF t, key
<1>9. CASE s.valid /\ key \notin Flags /\ key = "modules"
  BY <1>4, <1>6, <1>9, SetModulesIsSane DEF t, key
<1>10. CASE s.valid /\ key \notin Flags /\ key = "mode"
  BY <1>4, <1>10, SetModeIsSane DEF t, key
<1>11. CASE s.valid /\ key \in NumberKeys \ {"check_frequency"}
  <2>1. Result(t)
    BY <1>1, <1>4, <1>5, <1>11, SetNumberIsSane
  <2> QED
    BY <2>1 DEF t, key
<1>12. CASE s.valid /\ key \notin Flags \cup {"modules", "mode"} \cup (NumberKeys \ {"check_frequency"})
  <2> DEFINE u == [s EXCEPT !.mCheckFrequency = val]
  <2>2. /\ Sets(u, s, Plain)
        /\ Sets(SetBatchMode(s, val), s, Plain) /\ Sets(SetOutput(s, val), s, Plain)
        /\ Sets(SetEventAction(s, val), s, Plain) /\ Sets(AddEvent(s, val), s, Plain)
        /\ Sets(SetMessageLevel(s, val), s, Plain)
    BY SetBatchModeIsPlain, SetOutputIsPlain, EventsArePlain
  <2>3. t \in {u, SetBatchMode(s, val), SetOutput(s, val),
               SetEventAction(s, val), AddEvent(s, val), SetMessageLevel(s, val), s}
    BY <1>4, <1>12
  <2>1. Sets(t, s, Plain) \/ t = s
    <3> HIDE DEF u
    <3> QED BY <2>2, <2>3
  <2> QED
    BY <1>2, <1>3, <2>1 DEF t, key
<1> QED
  BY <1>7, <1>8, <1>9, <1>10, <1>11, <1>12

\* The lines are read one after the other.
LEMMA ParsedLineByLine ==
  ASSUME NEW file \in Seq(Lines)
  PROVE  /\ ParsedUpTo(file)[0] = DefaultSettings
         /\ \A i \in 1 .. Len(file) : ParsedUpTo(file)[i] = ParseLine(ParsedUpTo(file)[i - 1], file[i])
<1> DEFINE n == Len(file)
           By(k, g) == g = [i \in 0 .. k |-> IF i = 0 THEN DefaultSettings ELSE ParseLine(g[i - 1], file[i])]
<1>0. n \in Nat
  OBVIOUS
<1>1. \E g : By(n, g)
  <2> DEFINE P == {k \in 0 .. n : \E g : By(k, g)}
  <2>1. 0 \in P
    <3>1. By(0, [i \in 0 .. 0 |-> DefaultSettings])
      OBVIOUS
    <3> HIDE DEF By, n
    <3> QED
      BY <1>0, <3>1
  <2>2. ASSUME NEW k \in 0 .. n - 1, k \in P PROVE k + 1 \in P
    <3>1. PICK g : By(k, g)
      BY <2>2
    <3> DEFINE h == [i \in 0 .. k + 1 |-> IF i = k + 1 THEN ParseLine(g[k], file[k + 1]) ELSE g[i]]
    <3> HIDE DEF n
    <3>2. By(k + 1, h)
      BY <1>0, <3>1
    <3> HIDE DEF By, h
    <3> QED
      BY <1>0, <3>2
  <2> HIDE DEF P, n
  <2>3. 0 .. n \subseteq P
    BY <1>0, <2>1, <2>2, Log!IntervalInduction
  <2>4. n \in P
    BY <1>0, <2>3
  <2> HIDE DEF By
  <2> QED
    BY <2>4 DEF P
<1> DEFINE f == CHOOSE g : By(n, g)
<1>2. By(n, f)
  <2> HIDE DEF By, n
  <2> QED BY <1>1
<1>3. ParsedUpTo(file) = f
  BY DEF ParsedUpTo
<1> HIDE DEF f, n
<1>4. f[0] = DefaultSettings /\ \A i \in 1 .. n : f[i] = ParseLine(f[i - 1], file[i])
  BY <1>0, <1>2
<1> QED
  BY <1>3, <1>4 DEF n

\* Every file makes sane settings ...
LEMMA ParsedIsSane ==
  ASSUME NEW file \in Seq(Lines), NEW i \in 0 .. Len(file)
  PROVE  Formed(ParsedUpTo(file)[i]) /\ Sane(ParsedUpTo(file)[i])
<1> DEFINE n == Len(file)
           f == ParsedUpTo(file)
           P == {k \in 0 .. n : Formed(f[k]) /\ Sane(f[k])}
<1>0. n \in Nat /\ \A k \in 1 .. n : file[k] \in Lines
  OBVIOUS
<1>1. f[0] = DefaultSettings /\ \A k \in 1 .. n : f[k] = ParseLine(f[k - 1], file[k])
  BY ParsedLineByLine
<1> HIDE DEF n, f
<1>2. 0 \in P
  BY <1>0, <1>1, SaneInitially
<1>3. ASSUME NEW k \in 0 .. n - 1, k \in P PROVE k + 1 \in P
  <2>1. f[k + 1] = ParseLine(f[k], file[k + 1]) /\ file[k + 1] \in Lines
    BY <1>0, <1>1
  <2>2. Formed(f[k + 1]) /\ Sane(f[k + 1])
    BY <1>3, <2>1, ParseLineIsSane
  <2> QED
    BY <1>0, <2>2
<1>4. 0 .. n \subseteq P
  <2> HIDE DEF P
  <2> QED BY <1>0, <1>2, <1>3, Log!IntervalInduction
<1> QED
  BY <1>4 DEF n, f

\* ... and a file that has the mode first gives every module the routines of the mode.
LEMMA ParsedIsAlike ==
  ASSUME NEW file \in Seq(Lines), ModeComesFirst(file)
  PROVE  Alike(ParsedUpTo(file)[Len(file)])
<1> DEFINE n == Len(file)
           f == ParsedUpTo(file)
           P == {k \in 0 .. n : /\ Alike(f[k])
                                /\ f[k].mModules # <<>> => \E i \in 1 .. k : file[i].key = "modules"}
<1>0. n \in Nat /\ DOMAIN file = 1 .. n /\ \A k \in 1 .. n : file[k] \in Lines
  OBVIOUS
<1>1. f[0] = DefaultSettings /\ \A k \in 1 .. n : f[k] = ParseLine(f[k - 1], file[k])
  BY ParsedLineByLine
<1>2. \A k \in 0 .. n : Formed(f[k]) /\ Sane(f[k])
  BY ParsedIsSane
<1> HIDE DEF n, f
<1>3. 0 \in P
  <2>1. f[0].mModules = <<>>
    BY <1>1, SaneInitially
  <2>2. Alike(f[0])
    BY <2>1 DEF Alike
  <2> QED
    BY <1>0, <2>1, <2>2
<1>4. ASSUME NEW k \in 0 .. n - 1, k \in P PROVE k + 1 \in P
  <2> DEFINE line == file[k + 1]
             t == f[k + 1]
  <2>1. /\ k + 1 \in 1 .. n /\ k \in 0 .. n /\ line \in Lines
        /\ t = ParseLine(f[k], line)
    BY <1>0, <1>1
  <2>2. /\ Formed(t) /\ Sane(t)
        /\ line.key # "modules" => t.mModules = f[k].mModules
        /\ line.key # "mode" /\ Alike(f[k]) => Alike(t)
    <3> HIDE DEF line, t
    <3> QED BY <1>2, <2>1, ParseLineIsSane
  <2> HIDE DEF line, t
  <2>3. t.mModules # <<>> => \E i \in 1 .. k + 1 : file[i].key = "modules"
    BY <1>4, <2>1, <2>2 DEF line
  <2>4. Alike(t)
    <3>1. CASE line.key # "mode"
      BY <1>4, <2>2, <3>1
    <3>2. CASE line.key = "mode"
      <4>1. f[k].mModules = <<>>
        <5>1. SUFFICES ASSUME NEW i \in 1 .. k, file[i].key = "modules" PROVE FALSE
          BY <1>4
        <5>2. i \in DOMAIN file /\ k + 1 \in DOMAIN file /\ file[k + 1].key = "mode"
          BY <1>0, <2>1, <3>2 DEF line
        <5>3. k + 1 < i
          BY <5>1, <5>2 DEF ModeComesFirst
        <5> QED
          BY <5>3
      <4>2. t.mModules = <<>>
        BY <2>2, <3>2, <4>1
      <4> QED
        BY <4>2 DEF Alike
    <3> QED
      BY <3>1, <3>2
  <2> QED
    BY <1>0, <2>1, <2>3, <2>4 DEF t
<1>5. 0 .. n \subseteq P
  <2> HIDE DEF P
  <2> QED BY <1>0, <1>3, <1>4, Log!IntervalInduction
<1>6. n \in P
  BY <1>0, <1>5
<1> QED
  BY <1>6 DEF n, f

\* CheckConfigOptions changes nothing but routines that are missing.
LEMMA InstallMissingKeeps ==
  ASSUME NEW m \in Seq(Entries), NEW mode
  PROVE  LET r == InstallMissing(mode, m)
         IN  /\ r \in Seq(Entries) /\ Len(r) = Len(m)
             /\ (\A i \in DOMAIN m : m[i].routines.family = FamilyOf(mode))
                  => \A i \in DOMAIN r : r[i].routines.family = FamilyOf(mode)
<1> DEFINE N == Len(m)
           One(i) == IF m[i].routines = NoRoutines
                     THEN [m[i] EXCEPT !.routines = Routines(mode, i - 1)] ELSE m[i]
           r == InstallMissing(mode, m)
<1>0. N \in Nat /\ DOMAIN m = 1 .. N /\ \A i \in 1 .. N : m[i] \in Entries
  OBVIOUS
<1>1. r = [i \in 1 .. N |-> One(i)]
  BY <1>0 DEF InstallMissing
<1>2. ASSUME NEW i \in 1 .. N
      PROVE  /\ One(i) \in Entries
             /\ m[i].routines.family = FamilyOf(mode) => One(i).routines.family = FamilyOf(mode)
  <2>1. CASE m[i].routines = NoRoutines
    <3>1. i - 1 \in Nat /\ m[i] \in Entries
      BY <1>0
    <3>2. /\ Routines(mode, i - 1).family = FamilyOf(mode)
          /\ Routines(mode, i - 1) \in [family : Families, index : Nat]
      BY <3>1, RoutinesOfMode
    <3> DEFINE e == m[i]
               x == Routines(mode, i - 1)
    <3>3. One(i) = [e EXCEPT !.routines = x]
      BY <2>1
    <3> HIDE DEF One, e, x
    <3>4. e \in Entries /\ x \in [family : Families, index : Nat] /\ x.family = FamilyOf(mode)
      BY <3>1, <3>2 DEF e, x
    <3>5. [e EXCEPT !.routines = x] \in Entries /\ [e EXCEPT !.routines = x].routines = x
      BY <3>4 DEF Entries
    <3> QED
      BY <3>3, <3>4, <3>5
  <2>2. CASE m[i].routines # NoRoutines
    BY <1>0, <2>2
  <2> QED
    BY <2>1, <2>2
<1> HIDE DEF One, N, r
<1>3. r \in Seq(Entries) /\ Len(r) = N /\ DOMAIN r = 1 .. N
  BY <1>0, <1>1, <1>2
<1>4. ASSUME \A i \in DOMAIN m : m[i].routines.family = FamilyOf(mode), NEW i \in DOMAIN r
      PROVE  r[i].routines.family = FamilyOf(mode)
  BY <1>0, <1>1, <1>2, <1>3, <1>4
<1> QED
  BY <1>3, <1>4 DEF r, N

\* The settings AccuTrak starts with.
LEMMA StartSettings ==
  ASSUME NEW file \in Seq(Lines), NEW modules \in Seq(Libs), modules # <<>>, modules[1] = Exec,
         ParseConfigFile(file, modules).valid
  PROVE  LET s == ParseConfigFile(file, modules)
         IN  /\ Formed(s) /\ Sane(s)
             /\ s.mPatchAllUserModules => s.mModules # <<>>
             /\ ModeComesFirst(file) => Alike(s)
<1> DEFINE p == ParsedUpTo(file)[Len(file)]
           s == ParseConfigFile(file, modules)
           all == p.mPatchAllUserModules \/ (p.mModules = <<>> /\ p.mMode \in {"deadpage", "padding"})
           l == IF all THEN AddAllModulesInCore(p, modules) ELSE p
           m == InstallMissing(p.mMode, l.mModules)
<1>1. Formed(p) /\ Sane(p) /\ (ModeComesFirst(file) => Alike(p))
  BY ParsedIsSane, ParsedIsAlike
<1> HIDE DEF p
<1>2. s = [l EXCEPT !.mModules = m]
  <2>1. p.valid
    BY DEF ParseConfigFile, p
  <2> QED
    BY <2>1 DEF ParseConfigFile, CheckConfigOptions, p
<1>3. Enlarges(l, p) /\ (all => l.mModules # <<>>)
  <2>1. Enlarges(p, p)
    BY <1>1 DEF Enlarges, Formed
  <2>2. Enlarges(AddAllModulesInCore(p, modules), p) /\ AddAllModulesInCore(p, modules).mModules # <<>>
    BY <1>1, AddAllEnlarges
  <2> QED
    BY <2>1, <2>2
<1>4. Formed(l) /\ Sane(l) /\ l.mMode = p.mMode /\ (ModeComesFirst(file) => Alike(l))
        /\ l.mPatchAllUserModules = p.mPatchAllUserModules
  <2>1. "mPatchAllUserModules" \in Fields \ {"mModules"}
    BY DEF Fields
  <2> HIDE DEF l
  <2> QED
    BY <1>1, <1>3, <2>1, EnlargedIsSane DEF Enlarges
<1>5. p.mPatchAllUserModules => l.mModules # <<>>
  BY <1>3
<1> HIDE DEF l, s
<1>6. /\ m \in Seq(Entries) /\ Len(m) = Len(l.mModules)
      /\ ModeComesFirst(file) => \A i \in DOMAIN m : m[i].routines.family = FamilyOf(p.mMode)
  <2>1. l.mModules \in Seq(Entries)
    BY <1>4 DEF Formed
  <2>2. ModeComesFirst(file) => \A i \in DOMAIN l.mModules : l.mModules[i].routines.family = FamilyOf(p.mMode)
    BY <1>4 DEF Alike
  <2>3. /\ m \in Seq(Entries) /\ Len(m) = Len(l.mModules)
        /\ (\A i \in DOMAIN l.mModules : l.mModules[i].routines.family = FamilyOf(p.mMode))
             => \A i \in DOMAIN m : m[i].routines.family = FamilyOf(p.mMode)
    BY <2>1, InstallMissingKeeps
  <2> HIDE DEF m
  <2> QED
    BY <2>2, <2>3
<1> HIDE DEF m
<1>7. /\ DOMAIN s = Fields /\ s.mModules = m
      /\ \A f \in Fields \ {"mModules"} : s[f] = l[f]
  <2>1. "mModules" \in Fields
    BY DEF Fields
  <2> QED
    BY <1>2, <1>4, <2>1 DEF Formed
<1>8. {"mMode", "mPatchAllUserModules", "mMinBlockSize", "mMaxBlockSize", "mAlignment", "mBackTraceDepth",
       "mMaxCachedBlocks", "mMaxDeferFreeBytes"} \subseteq Fields \ {"mModules"}
  BY DEF Fields
<1>9. /\ s.mMode = p.mMode /\ s.mPatchAllUserModules = p.mPatchAllUserModules
      /\ s.mMinBlockSize = l.mMinBlockSize /\ s.mMaxBlockSize = l.mMaxBlockSize
      /\ s.mAlignment = l.mAlignment /\ s.mBackTraceDepth = l.mBackTraceDepth
      /\ s.mMaxCachedBlocks = l.mMaxCachedBlocks /\ s.mMaxDeferFreeBytes = l.mMaxDeferFreeBytes
  BY <1>4, <1>7, <1>8
<1>10. Formed(s) /\ Sane(s)
  BY <1>4, <1>6, <1>7, <1>9 DEF Formed, Sane
<1>11. s.mPatchAllUserModules => s.mModules # <<>>
  <2>1. l.mModules # <<>> => m # <<>>
    BY <1>4, <1>6 DEF Formed
  <2> QED
    BY <1>5, <1>7, <1>9, <2>1
<1>12. ModeComesFirst(file) => Alike(s)
  BY <1>6, <1>7, <1>9 DEF Alike
<1> QED
  BY <1>10, <1>11, <1>12 DEF s

-------------------------------------------------------------------------------
(* The link map *)

CoreFormed ==
  /\ core \in Seq(Libs) /\ core # <<>> /\ core[1] = Exec
  /\ \A i, j \in DOMAIN core : core[i] = core[j] => i = j

InLinkMap == {core[i] : i \in DOMAIN core}

LEMMA Appended ==
  ASSUME CoreFormed, NEW lib \in Libs, ~InCore(lib), core' = Append(core, lib)
  PROVE  CoreFormed' /\ InLinkMap' = InLinkMap \cup {lib}
<1> DEFINE n == Len(core)
<1>1. n \in Nat \ {0} /\ DOMAIN core = 1 .. n /\ \A i \in 1 .. n : core[i] \in Libs /\ core[i] # lib
  BY DEF CoreFormed, InCore
<1>2. /\ core' \in Seq(Libs) /\ Len(core') = n + 1 /\ core'[n + 1] = lib
      /\ \A i \in 1 .. n : core'[i] = core[i]
  BY <1>1 DEF CoreFormed
<1>3. DOMAIN core' = 1 .. n + 1 /\ core' # <<>> /\ core'[1] = Exec
  BY <1>1, <1>2 DEF CoreFormed
<1> HIDE DEF n
<1>4. \A i, j \in 1 .. n + 1 : core'[i] = core'[j] => i = j
  <2>1. \A i \in 1 .. n + 1 : i \in 1 .. n \/ i = n + 1
    BY <1>1
  <2> QED
    BY <1>1, <1>2, <2>1 DEF CoreFormed
<1>5. InLinkMap' = InLinkMap \cup {lib}
  <2>1. \A i \in 1 .. n : i \in 1 .. n + 1
    BY <1>1
  <2>2. n + 1 \in 1 .. n + 1 /\ \A i \in 1 .. n + 1 : i \in 1 .. n \/ i = n + 1
    BY <1>1
  <2> QED
    BY <1>1, <1>2, <1>3, <2>1, <2>2 DEF InLinkMap
<1> QED
  BY <1>2, <1>3, <1>4, <1>5 DEF CoreFormed

LEMMA Removed ==
  ASSUME CoreFormed, NEW k \in DOMAIN core, core[k] # Exec, core' = RemoveAt(core, k)
  PROVE  CoreFormed' /\ InLinkMap' = InLinkMap \ {core[k]}
<1> DEFINE n == Len(core)
           u == SubSeq(core, 1, k - 1)
           v == SubSeq(core, k + 1, n)
<1>1. /\ n \in Nat /\ DOMAIN core = 1 .. n /\ k \in 1 .. n /\ k # 1
      /\ \A i \in 1 .. n : core[i] \in Libs
  BY DEF CoreFormed
<1>2. core' = u \o v
  BY DEF RemoveAt
<1>3. u \in Seq(Libs) /\ Len(u) = k - 1 /\ \A j \in 1 .. k - 1 : u[j] = core[j]
  BY <1>1 DEF CoreFormed
<1>4. /\ v \in Seq(Libs) /\ Len(v) = n - k
      /\ \A j \in 1 .. n - k : v[j] = core[k + j]
  <2>1. k + 1 \in Int /\ n \in Int /\ \A j \in k + 1 .. n : core[j] \in Libs
    BY <1>1
  <2>2. /\ v \in Seq(Libs)
        /\ Len(v) = IF k + 1 <= n THEN n - (k + 1) + 1 ELSE 0
        /\ \A j \in 1 .. n - (k + 1) + 1 : v[j] = core[(k + 1) + j - 1]
    <3> HIDE DEF n
    <3> QED BY <2>1, SubSeqProperties DEF CoreFormed
  <2> HIDE DEF v, n
  <2>3. n - (k + 1) + 1 = n - k /\ \A j \in 1 .. n - k : (k + 1) + j - 1 = k + j
    BY <1>1
  <2>4. Len(v) = n - k
    BY <1>1, <2>2
  <2> QED
    BY <2>2, <2>3, <2>4
<1> HIDE DEF u, v, n
<1>5. /\ core' \in Seq(Libs) /\ Len(core') = (k - 1) + (n - k)
      /\ \A j \in 1 .. (k - 1) + (n - k) : core'[j] = IF j <= k - 1 THEN u[j] ELSE v[j - (k - 1)]
  BY <1>2, <1>3, <1>4, ConcatProperties
<1> DEFINE at(j) == IF j < k THEN j ELSE j + 1
<1>6. (k - 1) + (n - k) = n - 1
  BY <1>1
<1>7. ASSUME NEW j \in 1 .. n - 1
      PROVE  at(j) \in 1 .. n /\ at(j) # k /\ core'[j] = core[at(j)]
  <2>1. CASE j < k
    <3>1. j \in 1 .. k - 1 /\ j <= k - 1 /\ at(j) = j
      BY <1>1, <2>1
    <3>2. core'[j] = u[j]
      BY <1>5, <1>6, <3>1
    <3> QED
      BY <1>1, <1>3, <3>1, <3>2
  <2>2. CASE ~(j < k)
    <3>1. ~(j <= k - 1) /\ j - (k - 1) \in 1 .. n - k /\ k + (j - (k - 1)) = j + 1 /\ at(j) = j + 1
      BY <1>1, <2>2
    <3>2. core'[j] = v[j - (k - 1)]
      BY <1>5, <1>6, <3>1
    <3>3. v[j - (k - 1)] = core[j + 1]
      BY <1>4, <3>1
    <3> QED
      BY <1>1, <2>2, <3>1, <3>2, <3>3
  <2> QED
    BY <2>1, <2>2
<1>8. \A i, j \in 1 .. n - 1 : at(i) = at(j) => i = j
  BY <1>1
<1>9. ASSUME NEW i \in 1 .. n, i # k PROVE \E j \in 1 .. n - 1 : at(j) = i
  <2>1. CASE i < k
    BY <1>1, <2>1
  <2>2. CASE i > k
    <3>1. i - 1 \in 1 .. n - 1 /\ at(i - 1) = i
      BY <1>1, <2>2
    <3> QED BY <3>1
  <2> QED
    BY <1>1, <1>9, <2>1, <2>2
<1>10. at(1) = 1 /\ 1 \in 1 .. n - 1
  BY <1>1
<1> HIDE DEF at
<1>11. Len(core') = n - 1 /\ DOMAIN core' = 1 .. n - 1
  BY <1>5, <1>6
<1>12. core' # <<>> /\ core'[1] = Exec
  BY <1>7, <1>10, <1>11 DEF CoreFormed
<1>13. \A i, j \in DOMAIN core' : core'[i] = core'[j] => i = j
  BY <1>1, <1>7, <1>8, <1>11 DEF CoreFormed
<1>14. InLinkMap' = InLinkMap \ {core[k]}
  <2>1. ASSUME NEW j \in 1 .. n - 1 PROVE core'[j] \in InLinkMap \ {core[k]}
    BY <1>1, <1>7 DEF CoreFormed, InLinkMap
  <2>2. ASSUME NEW l \in InLinkMap, l # core[k] PROVE \E j \in 1 .. n - 1 : core'[j] = l
    <3>1. PICK i \in 1 .. n : l = core[i]
      BY <1>1 DEF InLinkMap
    <3>2. PICK j \in 1 .. n - 1 : at(j) = i
      BY <1>9, <2>2, <3>1
    <3> QED
      BY <1>7, <3>1, <3>2
  <2> QED
    BY <1>11, <2>1, <2>2 DEF InLinkMap
<1> QED
  BY <1>5, <1>12, <1>13, <1>14 DEF CoreFormed

-------------------------------------------------------------------------------
(* Where Patch is *)

PcFields == {"at", "i", "k", "m", "installed", "rc", "back", "by"}
Places == {"idle", "free", "dlopen", "check", "modules"}

PcFormed(p) ==
  /\ DOMAIN p = PcFields /\ p.at \in Places /\ p.back \in Places
  /\ p.i \in Nat \ {0} /\ p.k \in Nat \ {0} /\ p.m \in Nat \ {0}

\* Where a step that is not the return leads to.
At(p, at, i, k, m, back) ==
  PcFormed(p) /\ p.at = at /\ p.i = i /\ p.k = k /\ p.m = m /\ p.back = back /\ p.by = pc.by

LEMMA IdleFormed ==
  ASSUME NEW by
  PROVE  /\ PcFormed(Idle(by)) /\ Idle(by).at = "idle" /\ Idle(by).by = by
         /\ Idle(by).i = 1 /\ Idle(by).k = 1 /\ Idle(by).m = 1
BY DEF Idle, PcFormed, PcFields, Places

\* The slots of every module are patched to release blocks.
Catches(s) == ~s.self_contained /\ s.mMode # "record" /\ s.mModules # <<>>

LEMMA BeginPatchMoves ==
  ASSUME NEW mgr, NEW by, BeginPatch(mgr, by)
  PROVE  /\ PcFormed(pc') /\ pc'.i = 1 /\ pc'.k = 1 /\ pc'.m = 1 /\ pc'.by = by
         /\ pc'.at \in {"idle", "free", "dlopen", "check"}
         /\ pc'.at # "idle" => pc'.back = "check"
         /\ pc'.at = "free" => Catches(mgr)
         /\ pc'.at \in {"dlopen", "check"} => ~Catches(mgr)
<1> DEFINE place == IF mgr.self_contained THEN "check"
                    ELSE IF mgr.mMode # "record" /\ mgr.mModules # <<>> THEN "free"
                    ELSE IF mgr.patch_dlopen THEN "dlopen" ELSE "check"
<1>1. CASE pc' = Idle(by)
  BY <1>1, IdleFormed
<1>2. CASE pc' = [Idle(by) EXCEPT !.at = place, !.back = "check"]
  <2>1. pc' = [[Idle(by) EXCEPT !.at = place] EXCEPT !.back = "check"]
    BY <1>2, Zenon
  <2>2. /\ place \in {"free", "dlopen", "check"}
        /\ place = "free" => Catches(mgr)
        /\ place \in {"dlopen", "check"} => ~Catches(mgr)
    BY DEF Catches
  <2> DEFINE p == Idle(by)
  <2>3. DOMAIN p = PcFields /\ p.i = 1 /\ p.k = 1 /\ p.m = 1 /\ p.by = by
    BY IdleFormed DEF PcFormed
  <2> HIDE DEF place, p
  <2>4. /\ DOMAIN pc' = PcFields /\ pc'.at = place /\ pc'.back = "check"
        /\ pc'.i = 1 /\ pc'.k = 1 /\ pc'.m = 1 /\ pc'.by = by
    BY <2>1, <2>3 DEF p, PcFields
  <2> QED
    BY <2>2, <2>4 DEF PcFormed, Places
<1> QED
  BY <1>1, <1>2 DEF BeginPatch

LEMMA AdvanceMoves ==
  ASSUME PcFormed(pc), NEW after, after \in Places, Advance(after), Len(core) \in Nat
  PROVE  /\ pc.i < Len(core) => At(pc', pc.at, pc.i + 1, 1, pc.m, pc.back)
         /\ ~(pc.i < Len(core)) => At(pc', after, 1, 1, pc.m, pc.back)
<1>0. /\ DOMAIN pc = PcFields /\ pc.at \in Places /\ pc.back \in Places
      /\ pc.i \in Nat \ {0} /\ pc.k \in Nat \ {0} /\ pc.m \in Nat \ {0}
  BY DEF PcFormed
<1>1. CASE pc.i < Len(core)
  <2>1. pc' = [pc EXCEPT !.i = @ + 1, !.k = 1]
    BY <1>1 DEF Advance
  <2>2. pc' = [x \in DOMAIN pc |-> IF x = "i" THEN pc.i + 1 ELSE IF x = "k" THEN 1 ELSE pc[x]]
    BY <2>1, Zenon
  <2>3. /\ DOMAIN pc' = PcFields /\ pc'.at = pc.at /\ pc'.i = pc.i + 1 /\ pc'.k = 1 /\ pc'.m = pc.m
        /\ pc'.back = pc.back /\ pc'.by = pc.by
    BY <1>0, <2>2 DEF PcFields
  <2> QED
    BY <1>0, <1>1, <2>3 DEF At, PcFormed
<1>2. CASE ~(pc.i < Len(core))
  <2> DEFINE z == pc.installed \/ pc.at = "dlopen"
  <2>1. pc' = [pc EXCEPT !.at = after, !.i = 1, !.k = 1, !.installed = z]
    BY <1>2 DEF Advance
  <2> HIDE DEF z
  <2>2. pc' = [x \in DOMAIN pc |-> IF x = "at" THEN after ELSE IF x \in {"i", "k"} THEN 1
                                    ELSE IF x = "installed" THEN z ELSE pc[x]]
    BY <2>1, Zenon
  <2>3. /\ DOMAIN pc' = PcFields /\ pc'.at = after /\ pc'.i = 1 /\ pc'.k = 1 /\ pc'.m = pc.m
        /\ pc'.back = pc.back /\ pc'.by = pc.by
    BY <1>0, <2>2 DEF PcFields
  <2> QED
    BY <1>0, <1>2, <2>3 DEF At, PcFormed
<1> QED
  BY <1>1, <1>2

LEMMA NextSlotMoves ==
  ASSUME PcFormed(pc), pc' = [pc EXCEPT !.k = @ + 1]
  PROVE  At(pc', pc.at, pc.i, pc.k + 1, pc.m, pc.back)
<1>1. /\ DOMAIN pc' = PcFields /\ pc'.at = pc.at /\ pc'.i = pc.i /\ pc'.k = pc.k + 1 /\ pc'.m = pc.m
      /\ pc'.back = pc.back /\ pc'.by = pc.by
  BY DEF PcFormed, PcFields
<1> QED
  BY <1>1 DEF At, PcFormed

LEMMA ToModulesMoves ==
  ASSUME PcFormed(pc), pc' = [pc EXCEPT !.at = "modules"]
  PROVE  At(pc', "modules", pc.i, pc.k, pc.m, pc.back)
<1>1. /\ DOMAIN pc' = PcFields /\ pc'.at = "modules" /\ pc'.i = pc.i /\ pc'.k = pc.k /\ pc'.m = pc.m
      /\ pc'.back = pc.back /\ pc'.by = pc.by
  BY DEF PcFormed, PcFields
<1> QED
  BY <1>1 DEF At, PcFormed, Places

LEMMA SkipModuleMoves ==
  ASSUME PcFormed(pc), SkipModule
  PROVE  \/ At(pc', "dlopen", pc.i, pc.k, pc.m + 1, "modules")
         \/ At(pc', "modules", pc.i, pc.k, pc.m + 1, pc.back)
<1>0. /\ DOMAIN pc = PcFields /\ pc.at = "modules" /\ pc.back \in Places
      /\ pc.i \in Nat \ {0} /\ pc.k \in Nat \ {0} /\ pc.m \in Nat \ {0}
  BY DEF PcFormed, SkipModule, MoreModules
<1>1. CASE pc' = [pc EXCEPT !.m = @ + 1, !.rc = FALSE, !.at = "dlopen", !.back = "modules"]
  <2>1. pc' = [x \in DOMAIN pc |-> IF x = "m" THEN pc.m + 1 ELSE IF x = "rc" THEN FALSE
                                    ELSE IF x = "at" THEN "dlopen" ELSE IF x = "back" THEN "modules" ELSE pc[x]]
    BY <1>1, Zenon
  <2>2. /\ DOMAIN pc' = PcFields /\ pc'.at = "dlopen" /\ pc'.i = pc.i /\ pc'.k = pc.k /\ pc'.m = pc.m + 1
        /\ pc'.back = "modules" /\ pc'.by = pc.by
    BY <1>0, <2>1 DEF PcFields
  <2> QED
    BY <1>0, <2>2 DEF At, PcFormed, Places
<1>2. CASE pc' = [pc EXCEPT !.m = @ + 1, !.rc = @ /\ ~Due]
  <2> DEFINE z == pc.rc /\ ~Due
  <2>0. pc' = [pc EXCEPT !.m = @ + 1, !.rc = z]
    BY <1>2
  <2> HIDE DEF z
  <2>1. pc' = [x \in DOMAIN pc |-> IF x = "m" THEN pc.m + 1 ELSE IF x = "rc" THEN z ELSE pc[x]]
    BY <2>0, Zenon
  <2>2. /\ DOMAIN pc' = PcFields /\ pc'.at = "modules" /\ pc'.i = pc.i /\ pc'.k = pc.k /\ pc'.m = pc.m + 1
        /\ pc'.back = pc.back /\ pc'.by = pc.by
    BY <1>0, <2>1 DEF PcFields
  <2> QED
    BY <1>0, <2>2 DEF At, PcFormed, Places
<1> QED
  BY <1>1, <1>2 DEF SkipModule

LEMMA NextModuleMoves ==
  ASSUME PcFormed(pc), pc' = [pc EXCEPT !.k = 1, !.m = @ + 1]
  PROVE  At(pc', pc.at, pc.i, 1, pc.m + 1, pc.back)
<1>1. pc' = [x \in DOMAIN pc |-> IF x = "k" THEN 1 ELSE IF x = "m" THEN pc.m + 1 ELSE pc[x]]
  BY Zenon
<1>2. /\ DOMAIN pc' = PcFields /\ pc'.at = pc.at /\ pc'.i = pc.i /\ pc'.k = 1 /\ pc'.m = pc.m + 1
      /\ pc'.back = pc.back /\ pc'.by = pc.by
  BY <1>1 DEF PcFormed, PcFields
<1> QED
  BY <1>2 DEF At, PcFormed

-------------------------------------------------------------------------------
(* The shape of the state, and SettingsSane *)

SlotsFormed == DOMAIN slots = Libs /\ \A l \in Libs : DOMAIN slots[l] = Slots

LEMMA PatchedSlot ==
  ASSUME SlotsFormed, NEW lib, NEW slot, NEW routine, Patched(lib, slot, routine)
  PROVE  /\ SlotsFormed'
         /\ \A l \in Libs, s \in Slots :
              slots'[l][s] = IF l = lib /\ s = slot THEN routine ELSE slots[l][s]
<1>1. slots' = [slots EXCEPT ![lib] = [slots[lib] EXCEPT ![slot] = routine]]
  BY Zenon DEF Patched
<1> DEFINE x == [slots[lib] EXCEPT ![slot] = routine]
<1>2. /\ DOMAIN x = DOMAIN slots[lib]
      /\ \A s \in DOMAIN slots[lib] : x[s] = IF s = slot THEN routine ELSE slots[lib][s]
  OBVIOUS
<1>3. slots' = [slots EXCEPT ![lib] = x]
  BY <1>1
<1> HIDE DEF x
<1>4. DOMAIN slots' = Libs /\ \A l \in Libs : slots'[l] = IF l = lib THEN x ELSE slots[l]
  BY <1>3 DEF SlotsFormed
<1> QED
  BY <1>2, <1>4 DEF SlotsFormed

LEMMA MarkedPatched ==
  ASSUME Formed(gPatchMgr), NEW m \in 1 .. Len(gPatchMgr.mModules),
         gPatchMgr' = [gPatchMgr EXCEPT !.mModules[m].mPatched = TRUE]
  PROVE  /\ Enlarges(gPatchMgr', gPatchMgr)
         /\ Len(gPatchMgr'.mModules) = Len(gPatchMgr.mModules)
         /\ \A i \in 1 .. Len(gPatchMgr.mModules) :
              /\ gPatchMgr'.mModules[i].mModuleName = gPatchMgr.mModules[i].mModuleName
              /\ gPatchMgr'.mModules[i].routines = gPatchMgr.mModules[i].routines
              /\ i # m => gPatchMgr'.mModules[i] = gPatchMgr.mModules[i]
<1> DEFINE g == gPatchMgr
           old == g.mModules
           n == Len(old)
           e == old[m]
           marked == [e EXCEPT !.mPatched = TRUE]
           new == [old EXCEPT ![m] = marked]
<1>1. gPatchMgr' = [gPatchMgr EXCEPT !.mModules = [gPatchMgr.mModules EXCEPT
                                     ![m] = [gPatchMgr.mModules[m] EXCEPT !.mPatched = TRUE]]]
  BY Zenon
<1>2. gPatchMgr' = [g EXCEPT !.mModules = new]
  BY <1>1
<1>3. old \in Seq(Entries) /\ DOMAIN g = Fields
  BY DEF Formed
<1> HIDE DEF g, old
<1>4. n \in Nat /\ DOMAIN old = 1 .. n /\ m \in 1 .. n /\ \A i \in 1 .. n : old[i] \in Entries
  BY <1>3 DEF old, g
<1>5. e \in Entries
  BY <1>4
<1> HIDE DEF e
<1>6. marked \in Entries /\ marked.mModuleName = e.mModuleName /\ marked.routines = e.routines
  BY <1>5 DEF Entries
<1> HIDE DEF marked
<1>7. /\ new \in Seq(Entries) /\ Len(new) = n
      /\ \A i \in 1 .. n : new[i] = IF i = m THEN marked ELSE old[i]
  BY <1>3, <1>4, <1>6
<1> HIDE DEF new
<1>8. /\ DOMAIN gPatchMgr' = Fields /\ gPatchMgr'.mModules = new
      /\ \A f \in Fields \ {"mModules"} : gPatchMgr'[f] = g[f]
  <2>1. "mModules" \in Fields
    BY DEF Fields
  <2> QED
    BY <1>2, <1>3, <2>1
<1>9. \A i \in 1 .. n : /\ new[i].mModuleName = old[i].mModuleName /\ new[i].routines = old[i].routines
                        /\ i # m => new[i] = old[i]
  BY <1>6, <1>7 DEF e
<1>10. Alike(g) => Alike(gPatchMgr')
  <2>1. gPatchMgr'.mMode = g.mMode
    BY <1>8 DEF Fields
  <2>2. DOMAIN new = 1 .. n
    BY <1>4, <1>7
  <2>3. SUFFICES ASSUME Alike(g), NEW i \in DOMAIN gPatchMgr'.mModules
                 PROVE  gPatchMgr'.mModules[i].routines.family = FamilyOf(gPatchMgr'.mMode)
    BY DEF Alike
  <2>4. i \in 1 .. n /\ i \in DOMAIN old
    BY <1>4, <1>8, <2>2, <2>3
  <2>5. new[i].routines = old[i].routines
    BY <1>9, <2>4
  <2>6. old[i].routines.family = FamilyOf(g.mMode)
    BY <2>3, <2>4 DEF Alike, old
  <2> QED
    BY <1>8, <2>1, <2>5, <2>6
<1>11. Enlarges(gPatchMgr', g)
  <2>1. Formed(gPatchMgr')
    BY <1>7, <1>8 DEF Formed
  <2>2. Len(g.mModules) <= Len(gPatchMgr'.mModules)
    BY <1>4, <1>7, <1>8 DEF old
  <2> QED
    BY <1>8, <1>10, <2>1, <2>2 DEF Enlarges
<1> HIDE DEF n
<1> QED
  BY <1>7, <1>8, <1>9, <1>11 DEF g, old, n

SettingsFormed ==
  Started => /\ Formed(gPatchMgr) /\ Sane(gPatchMgr)
             /\ gPatchMgr.mPatchAllUserModules => gPatchMgr.mModules # <<>>

Shape ==
  /\ config \in ConfigFiles
  /\ CoreFormed
  /\ SlotsFormed
  /\ DOMAIN mPatchedList = Libs
  /\ PcFormed(pc)
  /\ pc.at # "idle" => Started
  /\ ~Started => \A l \in Libs, s \in Slots : slots[l][s] = Default
  /\ SettingsFormed

LEMMA FormedIsStarted ==
  ASSUME NEW s, Formed(s)
  PROVE  s # Off
<1>1. DOMAIN s = Fields /\ "valid" \in Fields
  BY DEF Formed, Fields
<1>2. "valid" \notin DOMAIN Off
  BY DEF Off
<1> QED
  BY <1>1, <1>2

LEMMA EnlargedSettings ==
  ASSUME SettingsFormed, Started, Enlarges(gPatchMgr', gPatchMgr)
  PROVE  SettingsFormed' /\ Started'
<1>1. Formed(gPatchMgr') /\ Sane(gPatchMgr')
  BY EnlargedIsSane DEF SettingsFormed, Enlarges
<1>2. gPatchMgr'.mPatchAllUserModules = gPatchMgr.mPatchAllUserModules
  BY DEF Enlarges, Fields
<1>3. gPatchMgr.mModules # <<>> => gPatchMgr'.mModules # <<>>
  BY DEF Enlarges, SettingsFormed, Formed
<1> QED
  BY <1>1, <1>2, <1>3, FormedIsStarted DEF SettingsFormed, Started

LEMMA ShapeInitially == Init => Shape
<1> SUFFICES ASSUME Init PROVE Shape
  OBVIOUS
<1>1. PICK c \in InitialCores : LoadedFirst(c)
  BY DEF Init
<1>2. CoreFormed
  BY <1>1, AccuTrakAssumption DEF LoadedFirst, CoreFormed
<1>3. SlotsFormed /\ DOMAIN mPatchedList = Libs /\ \A l \in Libs, s \in Slots : slots[l][s] = Default
  BY <1>1 DEF LoadedFirst, SlotsFormed
<1>4. PcFormed(pc) /\ pc.at = "idle" /\ ~Started
  BY <1>1, IdleFormed DEF LoadedFirst, Started
<1> QED
  BY <1>2, <1>3, <1>4 DEF Init, Shape, SettingsFormed

LEMMA StartKeepsShape ==
  ASSUME Shape, StartAccuTrak
  PROVE  Shape'
<1> DEFINE s == ParseConfigFile(config, core)
<1>1. UNCHANGED <<core, slots, mPatchedList, config>> /\ ~Started /\ pc.at = "idle"
  BY DEF StartAccuTrak, Event, Running
<1>2. CoreFormed' /\ SlotsFormed' /\ DOMAIN mPatchedList' = Libs /\ config' \in ConfigFiles
  BY <1>1 DEF Shape, CoreFormed, SlotsFormed
<1>3. CASE s.valid
  <2>1. gPatchMgr' = s /\ BeginPatch(s, "start")
    BY <1>3 DEF StartAccuTrak
  <2>2. /\ Formed(s) /\ Sane(s)
        /\ s.mPatchAllUserModules => s.mModules # <<>>
    <3>1. config \in Seq(Lines) /\ core \in Seq(Libs) /\ core # <<>> /\ core[1] = Exec
      BY AccuTrakAssumption DEF Shape, CoreFormed
    <3> QED
      BY <1>3, <3>1, StartSettings
  <2>3. PcFormed(pc')
    BY <2>1, BeginPatchMoves
  <2> HIDE DEF s
  <2>4. Started' /\ SettingsFormed'
    BY <2>1, <2>2, FormedIsStarted DEF Started, SettingsFormed
  <2> QED
    BY <1>2, <2>3, <2>4 DEF Shape
<1>4. CASE ~s.valid
  <2>1. UNCHANGED <<gPatchMgr, pc>>
    BY <1>4 DEF StartAccuTrak, StartFailed
  <2> QED
    BY <1>1, <1>2, <2>1 DEF Shape, SettingsFormed, Started
<1> QED
  BY <1>3, <1>4

LEMMA PatchMemRoutinesKeepsShape ==
  ASSUME Shape, PatchMemRoutines
  PROVE  Shape'
<1>1. /\ Started /\ BeginPatch(gPatchMgr, "api")
      /\ UNCHANGED <<core, slots, gPatchMgr, mPatchedList, config>>
  BY DEF PatchMemRoutines
<1>2. PcFormed(pc')
  BY <1>1, BeginPatchMoves
<1> QED
  BY <1>1, <1>2 DEF Shape, CoreFormed, SlotsFormed, SettingsFormed, Started

\* dlopen is intercepted only once AccuTrak has started.
LEMMA LoadCases ==
  ASSUME Shape, Load
  PROVE  \E lib \in Libs :
           /\ pc.at = "idle" /\ ~InCore(lib) /\ core' = Append(core, lib)
           /\ unseen' = unseen \cup {lib}
           /\ UNCHANGED <<slots, gPatchMgr, mPatchTried, mPatchedList, config, forgotten, reloaded>>
           /\ \/ Started /\ BeginPatch(gPatchMgr, "dlopen")
              \/ UNCHANGED pc
<1>1. PICK caller \in Libs, lib \in Closable : Dlopen(caller, lib) /\ unseen' = unseen \cup {lib}
  BY DEF Load
<1>2. slots[caller]["dlopen"] = Intercepted => Started
  <2>1. Default.family = "default" /\ Intercepted.family = "accutrak"
    BY DEF Default, Intercepted
  <2> QED
    BY <2>1 DEF Shape, Slots
<1>3. lib \in Libs
  BY AccuTrakAssumption
<1> QED
  BY <1>1, <1>2, <1>3 DEF Load, Dlopen, Running

LEMMA LoadKeepsShape ==
  ASSUME Shape, Load
  PROVE  Shape'
<1>1. PICK lib \in Libs :
           /\ pc.at = "idle" /\ ~InCore(lib) /\ core' = Append(core, lib)
           /\ UNCHANGED <<slots, gPatchMgr, mPatchedList, config>>
           /\ \/ Started /\ BeginPatch(gPatchMgr, "dlopen")
              \/ UNCHANGED pc
  BY LoadCases
<1>2. CoreFormed'
  BY <1>1, Appended DEF Shape
<1>3. PcFormed(pc') /\ (pc'.at # "idle" => Started)
  BY <1>1, BeginPatchMoves DEF Shape
<1> QED
  BY <1>1, <1>2, <1>3 DEF Shape, SlotsFormed, SettingsFormed, Started

\* The history of modules unloaded behind the patch manager's back.
Forgets(caller, lib) ==
  forgotten' = IF slots[caller]["dlclose"] # Intercepted THEN forgotten \cup {lib}
               ELSE {l \in forgotten \cup {lib} : \E i \in DOMAIN core' : BaseName[core'[i]] = BaseName[l]}

ResetSlots(lib) ==
  SlotsFormed' /\ \A l \in Libs, s \in Slots : slots'[l][s] = IF l = lib THEN Default ELSE slots[l][s]

\* What an unloaded module leaves behind.
LEMMA UnloadCases ==
  ASSUME Shape, Unload
  PROVE  \E caller \in Libs, lib \in InLinkMap \ {Exec} :
           /\ Dlclose(caller, lib) /\ CoreFormed' /\ InLinkMap' = InLinkMap \ {lib}
           /\ unseen' = unseen \ {lib}
           /\ Forgets(caller, lib)
           /\ ResetSlots(lib)
           /\ DOMAIN mPatchedList' = Libs
<1>1. PICK caller \in Libs, lib \in Closable :
           /\ Dlclose(caller, lib)
           /\ unseen' = unseen \ {lib}
           /\ Forgets(caller, lib)
  BY DEF Unload, Forgets
<1>2. lib # Exec /\ lib \in Libs
  BY AccuTrakAssumption
<1>3. PICK i \in DOMAIN core : core[i] = lib /\ core' = RemoveAt(core, i)
  BY <1>1 DEF Dlclose
<1>4. CoreFormed' /\ InLinkMap' = InLinkMap \ {lib} /\ lib \in InLinkMap
  BY <1>2, <1>3, Removed DEF Shape, InLinkMap
<1>5. slots' = [slots EXCEPT ![lib] = [s \in Slots |-> Default]]
  BY <1>1 DEF Dlclose
<1>6. ResetSlots(lib)
  BY <1>2, <1>5 DEF Shape, SlotsFormed, ResetSlots
<1>7. DOMAIN mPatchedList' = Libs
  BY <1>1 DEF Dlclose, ClearPatchStatus, Shape
<1> QED
  <2>1. lib \in InLinkMap \ {Exec}
    BY <1>2, <1>4
  <2> QED
    BY <1>1, <1>4, <1>6, <1>7, <2>1, Zenon

LEMMA UnloadKeepsShape ==
  ASSUME Shape, Unload
  PROVE  Shape'
<1>1. PICK caller \in Libs, lib \in InLinkMap \ {Exec} :
           /\ Dlclose(caller, lib) /\ CoreFormed' /\ ResetSlots(lib)
           /\ DOMAIN mPatchedList' = Libs
  BY UnloadCases
<1>2. UNCHANGED <<gPatchMgr, pc, config>>
  BY <1>1 DEF Dlclose, Unload
<1> QED
  BY <1>1, <1>2 DEF Shape, SettingsFormed, Started, ResetSlots

\* The orders of the slots.
LEMMA Orders ==
  /\ Len(FreeOrder) = 4 /\ Len(DlopenOrder) = 2 /\ Len(ModuleOrder) = 8
  /\ FreeOrder[1] = "free" /\ FreeOrder[2] = "realloc"
  /\ FreeOrder[3] = "delete" /\ FreeOrder[4] = "delete[]"
  /\ DlopenOrder[1] = "dlopen" /\ DlopenOrder[2] = "dlclose"
  /\ ModuleOrder[1] = "free" /\ ModuleOrder[2] = "realloc" /\ ModuleOrder[3] = "calloc"
  /\ ModuleOrder[4] = "malloc" /\ ModuleOrder[5] = "delete" /\ ModuleOrder[6] = "delete[]"
  /\ ModuleOrder[7] = "new" /\ ModuleOrder[8] = "new[]"
BY DEF FreeOrder, DlopenOrder, ModuleOrder

\* The two loops over the link map: a module is skipped, or its next slot is patched, or
\* its last one and the module is marked.
LoopStep(order, routine, mark, after) ==
  \/ /\ Advance(after)
     /\ UNCHANGED <<slots, mPatchedList>>
  \/ PatchNext(order, routine, mark, after)

LEMMA LoopKeepsShape ==
  ASSUME Shape, NEW order, NEW routine, NEW mark, NEW after \in Places,
         pc.at # "idle", LoopStep(order, routine, mark, after), UNCHANGED <<core, gPatchMgr, config>>
  PROVE  Shape'
<1>1. Len(core) \in Nat /\ PcFormed(pc) /\ SlotsFormed /\ DOMAIN mPatchedList = Libs /\ Started
  BY DEF Shape, CoreFormed
<1>2. Advance(after) => PcFormed(pc')
  BY <1>1, AdvanceMoves DEF At
<1>3. PcFormed(pc')
  BY <1>1, <1>2, NextSlotMoves DEF LoopStep, PatchNext, At
<1>4. SlotsFormed'
  BY <1>1, PatchedSlot DEF LoopStep, PatchNext, SlotsFormed
<1>5. DOMAIN mPatchedList' = Libs
  BY <1>1 DEF LoopStep, PatchNext
<1> QED
  BY <1>1, <1>3, <1>4, <1>5 DEF Shape, CoreFormed, SettingsFormed, Started

LEMMA FreeIsLoop ==
  ASSUME PatchCatchAllFree
  PROVE  LoopStep(FreeOrder, gPatchMgr.mModules[1].routines, "free", AfterFree)
BY DEF PatchCatchAllFree, LoopStep

LEMMA DlopenIsLoop ==
  ASSUME PatchDlopen
  PROVE  LoopStep(DlopenOrder, Intercepted, "dlopen", pc.back)
BY DEF PatchDlopen, LoopStep

\* What CheckNewModules makes of the settings.
LEMMA CheckedSettings ==
  ASSUME Shape, CheckNewModules
  PROVE  Started /\ Enlarges(gPatchMgr', gPatchMgr)
<1>1. Started /\ Formed(gPatchMgr)
  BY DEF CheckNewModules, Shape, SettingsFormed
<1>2. \/ gPatchMgr' = gPatchMgr
      \/ gPatchMgr' = AddAllModulesInCore(gPatchMgr, core)
  BY DEF CheckNewModules
<1>3. Enlarges(gPatchMgr, gPatchMgr)
  BY <1>1 DEF Enlarges, Formed
<1>4. Enlarges(AddAllModulesInCore(gPatchMgr, core), gPatchMgr)
  BY <1>1, AddAllEnlarges DEF Shape, CoreFormed
<1> QED
  BY <1>1, <1>2, <1>3, <1>4

LEMMA CheckNewModulesCases ==
  ASSUME CheckNewModules
  PROVE  /\ pc.at = "check"
         /\ UNCHANGED <<core, slots, mPatchTried, mPatchedList>>
         /\ pc' = Idle(pc.by) \/ pc' = [pc EXCEPT !.at = "modules"]
BY DEF CheckNewModules, Return

LEMMA CheckNewModulesKeepsShape ==
  ASSUME Shape, CheckNewModules, UNCHANGED config
  PROVE  Shape'
<1>1. Started' /\ SettingsFormed'
  BY CheckedSettings, EnlargedSettings DEF Shape
<1>2. UNCHANGED <<core, slots, mPatchedList>>
  BY CheckNewModulesCases
<1>3. PcFormed(pc')
  BY CheckNewModulesCases, IdleFormed, ToModulesMoves DEF Shape, At
<1> QED
  BY <1>1, <1>2, <1>3 DEF Shape, CoreFormed, SlotsFormed

LEMMA SkipModuleKeepsShape ==
  ASSUME Shape, SkipModule, UNCHANGED config
  PROVE  Shape'
<1>1. UNCHANGED <<core, slots, gPatchMgr, mPatchedList>> /\ pc.at = "modules"
  BY DEF SkipModule, MoreModules
<1>2. PcFormed(pc')
  BY SkipModuleMoves DEF Shape, At
<1> QED
  BY <1>1, <1>2 DEF Shape, CoreFormed, SlotsFormed, SettingsFormed, Started

\* A slot of a configured module is patched, and after the last one the module is marked.
LEMMA PatchModuleCases ==
  ASSUME Shape, PatchModule
  PROVE  /\ pc.at = "modules" /\ pc.m \in 1 .. Len(gPatchMgr.mModules)
         /\ Due /\ NameInCore(Current.mModuleName)
         /\ Patched(TargetOf(Current.mModuleName), ModuleOrder[pc.k], Current.routines)
         /\ UNCHANGED <<core, mPatchFinished, mPatchTried, mPatchedList>>
         /\ \/ pc.k < 8 /\ At(pc', "modules", pc.i, pc.k + 1, pc.m, pc.back) /\ UNCHANGED gPatchMgr
            \/ /\ ~(pc.k < 8) /\ At(pc', "modules", pc.i, 1, pc.m + 1, pc.back)
               /\ gPatchMgr' = [gPatchMgr EXCEPT !.mModules[pc.m].mPatched = TRUE]
<1>1. /\ pc.at = "modules" /\ pc.m <= Len(gPatchMgr.mModules) /\ PcFormed(pc)
      /\ Formed(gPatchMgr)
  BY DEF PatchModule, MoreModules, Shape, SettingsFormed
<1>2. pc.m \in 1 .. Len(gPatchMgr.mModules)
  BY <1>1 DEF PcFormed, Formed
<1>3. \/ pc.k < 8 /\ pc' = [pc EXCEPT !.k = @ + 1] /\ UNCHANGED gPatchMgr
      \/ /\ ~(pc.k < 8) /\ pc' = [pc EXCEPT !.k = 1, !.m = @ + 1]
         /\ gPatchMgr' = [gPatchMgr EXCEPT !.mModules[pc.m].mPatched = TRUE]
  BY Orders, Zenon DEF PatchModule
<1>4. \/ pc.k < 8 /\ At(pc', "modules", pc.i, pc.k + 1, pc.m, pc.back) /\ UNCHANGED gPatchMgr
      \/ /\ ~(pc.k < 8) /\ At(pc', "modules", pc.i, 1, pc.m + 1, pc.back)
         /\ gPatchMgr' = [gPatchMgr EXCEPT !.mModules[pc.m].mPatched = TRUE]
  BY <1>1, <1>3, NextSlotMoves, NextModuleMoves, Zenon
<1>5. /\ Due /\ NameInCore(Current.mModuleName)
      /\ Patched(TargetOf(Current.mModuleName), ModuleOrder[pc.k], Current.routines)
      /\ UNCHANGED <<core, mPatchFinished, mPatchTried, mPatchedList>>
  BY Zenon DEF PatchModule
<1> QED
  BY <1>1, <1>2, <1>4, <1>5, Zenon

\* Both ways the settings keep their modules.
LEMMA PatchModuleSettings ==
  ASSUME Shape, PatchModule
  PROVE  /\ Started /\ Enlarges(gPatchMgr', gPatchMgr)
         /\ Len(gPatchMgr'.mModules) = Len(gPatchMgr.mModules)
         /\ \A i \in 1 .. Len(gPatchMgr.mModules) :
              /\ gPatchMgr'.mModules[i].mModuleName = gPatchMgr.mModules[i].mModuleName
              /\ gPatchMgr'.mModules[i].routines = gPatchMgr.mModules[i].routines
              /\ i # pc.m => gPatchMgr'.mModules[i] = gPatchMgr.mModules[i]
<1>1. Started /\ Formed(gPatchMgr) /\ pc.m \in 1 .. Len(gPatchMgr.mModules)
  BY PatchModuleCases DEF Shape, SettingsFormed
<1>2. CASE UNCHANGED gPatchMgr
  BY <1>1, <1>2 DEF Enlarges, Formed
<1>3. CASE gPatchMgr' = [gPatchMgr EXCEPT !.mModules[pc.m].mPatched = TRUE]
  BY <1>1, <1>3, MarkedPatched
<1> QED
  BY <1>2, <1>3, PatchModuleCases

LEMMA PatchModuleKeepsShape ==
  ASSUME Shape, PatchModule, UNCHANGED config
  PROVE  Shape'
<1>1. Started' /\ SettingsFormed'
  BY PatchModuleSettings, EnlargedSettings DEF Shape
<1>2. UNCHANGED <<core, mPatchedList>>
  BY PatchModuleCases
<1>3. SlotsFormed'
  BY PatchModuleCases, PatchedSlot DEF Shape
<1>4. PcFormed(pc')
  BY PatchModuleCases DEF At
<1> QED
  BY <1>1, <1>2, <1>3, <1>4 DEF Shape, CoreFormed

LEMMA FinishPatchKeepsShape ==
  ASSUME Shape, FinishPatch, UNCHANGED config
  PROVE  Shape'
<1>1. UNCHANGED <<core, slots, gPatchMgr, mPatchedList>> /\ pc' = Idle(pc.by) /\ pc.at = "modules"
  BY DEF FinishPatch, Return
<1>2. PcFormed(pc') /\ pc'.at = "idle"
  BY <1>1, IdleFormed
<1> QED
  BY <1>1, <1>2 DEF Shape, CoreFormed, SlotsFormed, SettingsFormed, Started

LEMMA StepKeepsShape ==
  ASSUME Shape, [Next]_vars
  PROVE  Shape'
<1>1. CASE StartAccuTrak
  BY <1>1, StartKeepsShape
<1>2. CASE PatchMemRoutines
  BY <1>2, PatchMemRoutinesKeepsShape
<1>3. CASE Load
  BY <1>3, LoadKeepsShape
<1>4. CASE Unload
  BY <1>4, UnloadKeepsShape
<1>5. CASE PatchGoesOn
  <2>1. PatchStep /\ UNCHANGED config
    BY <1>5 DEF PatchGoesOn
  <2>2. CASE PatchCatchAllFree
    <3>1. UNCHANGED <<core, gPatchMgr>> /\ pc.at # "idle" /\ AfterFree \in Places
      BY <2>2 DEF PatchCatchAllFree, AfterFree, Places
    <3> QED
      BY <2>1, <2>2, <3>1, FreeIsLoop, LoopKeepsShape
  <2>3. CASE PatchDlopen
    <3>1. UNCHANGED <<core, gPatchMgr>> /\ pc.at # "idle" /\ pc.back \in Places
      BY <2>3 DEF PatchDlopen, Shape, PcFormed
    <3> QED
      BY <2>1, <2>3, <3>1, DlopenIsLoop, LoopKeepsShape
  <2> QED
    BY <2>1, <2>2, <2>3, CheckNewModulesKeepsShape, SkipModuleKeepsShape, PatchModuleKeepsShape,
       FinishPatchKeepsShape DEF PatchStep
<1>6. CASE UNCHANGED vars
  BY <1>6 DEF vars, patchVars, appVars, Shape, CoreFormed, SlotsFormed, SettingsFormed, Started
<1> QED
  BY <1>1, <1>2, <1>3, <1>4, <1>5, <1>6 DEF Next

\* The type invariant: slots, marks, link map, settings and the place of Patch are what the
\* code lets them be, and before the start nothing is patched.
THEOREM ShapeInvariant == Spec => []Shape
<1>1. Init => Shape
  BY ShapeInitially
<1>2. Shape /\ [Next]_vars => Shape'
  BY StepKeepsShape
<1> QED
  BY <1>1, <1>2, PTL DEF Spec

\* Whatever the file says and in whatever order, the replacement routines are given numbers
\* within the bounds they are written for.
THEOREM SettingsAreSane == Spec => []SettingsSane
<1>1. ASSUME Shape, Started PROVE Sane(gPatchMgr)
  BY <1>1 DEF Shape, SettingsFormed
<1>2. Shape => SettingsSane
  BY <1>1 DEF Sane, SettingsSane
<1> QED
  BY <1>2, ShapeInvariant, PTL

\* Files that choose the mode first: every module has the routines of the mode.
AlikeInv == Started /\ ModeComesFirst(config) => Alike(gPatchMgr)

LEMMA StepKeepsAlike ==
  ASSUME Shape, AlikeInv, [Next]_vars
  PROVE  AlikeInv'
<1>1. CASE UNCHANGED <<gPatchMgr, config>>
  BY <1>1 DEF AlikeInv, Started, ModeComesFirst, Alike
<1>2. CASE StartAccuTrak
  <2> DEFINE s == ParseConfigFile(config, core)
  <2>1. UNCHANGED config
    BY <1>2 DEF StartAccuTrak
  <2>2. CASE s.valid
    <3>1. config \in Seq(Lines) /\ core \in Seq(Libs) /\ core # <<>> /\ core[1] = Exec
      BY AccuTrakAssumption DEF Shape, CoreFormed
    <3>2. ModeComesFirst(config) => Alike(s)
      BY <2>2, <3>1, StartSettings
    <3>3. gPatchMgr' = s
      BY <1>2, <2>2 DEF StartAccuTrak
    <3> HIDE DEF s
    <3> QED
      BY <2>1, <3>2, <3>3 DEF AlikeInv, ModeComesFirst, Alike
  <2>3. CASE ~s.valid
    BY <1>1, <1>2, <2>1, <2>3 DEF StartAccuTrak, StartFailed
  <2> QED
    BY <2>2, <2>3
<1>3. CASE UNCHANGED config /\ Started /\ Enlarges(gPatchMgr', gPatchMgr)
  BY <1>3 DEF AlikeInv, ModeComesFirst, Enlarges
<1>4. CASE PatchGoesOn
  <2>1. PatchStep /\ UNCHANGED config
    BY <1>4 DEF PatchGoesOn
  <2>2. CASE CheckNewModules
    BY <1>3, <2>1, <2>2, CheckedSettings
  <2>3. CASE PatchModule
    BY <1>3, <2>1, <2>3, PatchModuleSettings
  <2>4. CASE PatchCatchAllFree \/ PatchDlopen \/ SkipModule \/ FinishPatch
    BY <1>1, <2>1, <2>4 DEF PatchCatchAllFree, PatchDlopen, SkipModule, FinishPatch
  <2> QED
    BY <2>1, <2>2, <2>3, <2>4 DEF PatchStep
<1>5. CASE PatchMemRoutines \/ Load \/ Unload
  BY <1>1, <1>5 DEF PatchMemRoutines, Load, Unload, Dlopen, Dlclose
<1>6. CASE UNCHANGED vars
  BY <1>1, <1>6 DEF vars, patchVars, appVars
<1> QED
  BY <1>2, <1>4, <1>5, <1>6 DEF Next

\* If the file chooses the mode before it lists modules, every module has the routines of the
\* mode, listed by the file, found at the start or by a dlopen long after it.
THEOREM ModesAreInstalled == Spec => []ModeInstalled
<1>1. Init => AlikeInv
  BY DEF Init, LoadedFirst, AlikeInv, Started
<1>2. Shape /\ AlikeInv /\ [Next]_vars => AlikeInv'
  BY StepKeepsAlike
<1>3. Routines(gPatchMgr.mMode, 0).family = FamilyOf(gPatchMgr.mMode)
  BY RoutinesOfMode
<1>4. AlikeInv => ModeInstalled
  BY <1>3 DEF AlikeInv, ModeInstalled, Alike
<1>5. Spec => []AlikeInv
  BY <1>1, <1>2, ShapeInvariant, PTL DEF Spec
<1> QED
  BY <1>4, <1>5, PTL

-------------------------------------------------------------------------------
(* How far the loop over the configured modules has come *)

MemSlots == ReleaseSlots \cup AllocSlots
Makers == {"malloc", "calloc", "new", "new[]"}

\* A slot that has been patched.
Taken(l, s) == slots[l][s].family # "default"

\* The module PatchFunction patches.
IsTarget(lib) == lib = TargetOf(Current.mModuleName)

\* How far the configured module at pc.m has come.
ModulesInv ==
  /\ pc.at \in {"check", "modules"} => pc.i = 1
  /\ pc.at = "check" => pc.k = 1
  /\ pc.at = "modules" => pc.k \in 1 .. 8
  /\ pc.at = "modules" /\ pc.k > 1 =>
       /\ pc.m <= Len(gPatchMgr.mModules)
       /\ Due /\ NameInCore(Current.mModuleName)
       /\ \A e \in Libs : e = TargetOf(Current.mModuleName) =>
            \A j \in 1 .. pc.k - 1 : Taken(e, ModuleOrder[j])

LEMMA SlotSets ==
  /\ ReleaseSlots \subseteq MemSlots /\ Makers \subseteq MemSlots /\ MemSlots \subseteq Slots
  /\ AllocSlots \subseteq MemSlots /\ AllocSlots = Makers \cup {"realloc"} /\ "realloc" \notin Makers
  /\ "dlopen" \notin MemSlots /\ "dlclose" \notin MemSlots
  /\ \A s \in AllocSlots : ReleasedBy(s) \subseteq ReleaseSlots
BY DEF ReleaseSlots, AllocSlots, Makers, MemSlots, Slots, ReleasedBy

\* A slot is patched with a routine of the mode.
LEMMA TakenByPatch ==
  ASSUME SlotsFormed, NEW lib, NEW slot \in MemSlots, NEW routine,
         Patched(lib, slot, routine), routine.family # "default"
  PROVE  /\ \A l \in Libs, s \in MemSlots : Taken(l, s)' <=> Taken(l, s) \/ (l = lib /\ s = slot)
         /\ \A l \in Libs, s \in MemSlots :
              slots'[l][s] = IF l = lib /\ s = slot THEN routine ELSE slots[l][s]
<1>1. \A l \in Libs, s \in Slots : slots'[l][s] = IF l = lib /\ s = slot THEN routine ELSE slots[l][s]
  BY PatchedSlot
<1> QED
  BY <1>1, SlotSets DEF Taken

\* A slot of another kind is.
LEMMA NotTakenByPatch ==
  ASSUME SlotsFormed, NEW lib, NEW slot \in {"dlopen", "dlclose"}, NEW routine,
         Patched(lib, slot, routine)
  PROVE  \A l \in Libs, s \in MemSlots : slots'[l][s] = slots[l][s] /\ (Taken(l, s)' <=> Taken(l, s))
<1>1. \A l \in Libs, s \in Slots : slots'[l][s] = IF l = lib /\ s = slot THEN routine ELSE slots[l][s]
  BY PatchedSlot
<1> QED
  BY <1>1, SlotSets DEF Taken

\* No routine that is patched into a slot is the default one.
LEMMA TakenStays ==
  ASSUME SlotsFormed, NEW lib, NEW slot, NEW routine, Patched(lib, slot, routine),
         routine.family # "default"
  PROVE  \A l \in Libs, s \in Slots : Taken(l, s) => Taken(l, s)'
BY PatchedSlot DEF Taken

\* The routines of a configured module.
LEMMA ConfiguredRoutine ==
  ASSUME NEW s, Formed(s), NEW m \in 1 .. Len(s.mModules)
  PROVE  s.mModules[m].routines.family \in Families /\ s.mModules[m].routines.family # "default"
<1>1. s.mModules \in Seq(Entries)
  BY DEF Formed
<1>2. s.mModules[m] \in Entries
  BY <1>1
<1>3. s.mModules[m].routines \in [family : Families, index : Nat]
  BY <1>2 DEF Entries
<1> QED
  BY <1>3 DEF Families, Modes

LEMMA BegunModules ==
  ASSUME NEW mgr, NEW by, BeginPatch(mgr, by)
  PROVE  ModulesInv'
<1>1. pc'.i = 1 /\ pc'.k = 1 /\ pc'.at \in {"idle", "free", "dlopen", "check"}
  BY BeginPatchMoves
<1> QED
  BY <1>1 DEF ModulesInv

LEMMA LoopKeepsModules ==
  ASSUME Shape, pc.at \in {"free", "dlopen"}, NEW order, NEW routine, NEW mark, NEW after \in Places,
         LoopStep(order, routine, mark, after)
  PROVE  ModulesInv'
<1>1. PcFormed(pc) /\ Len(core) \in Nat
  BY DEF Shape, CoreFormed
<1>2. CASE Advance(after)
  <2>1. \/ At(pc', pc.at, pc.i + 1, 1, pc.m, pc.back)
        \/ At(pc', after, 1, 1, pc.m, pc.back)
    BY <1>1, <1>2, AdvanceMoves
  <2>2. pc'.k = 1 /\ (pc'.at = pc.at \/ pc'.i = 1)
    BY <2>1 DEF At
  <2> QED
    BY <2>2 DEF ModulesInv
<1>3. CASE pc' = [pc EXCEPT !.k = @ + 1]
  <2>1. pc'.at = pc.at
    BY <1>1, <1>3, NextSlotMoves DEF At
  <2> QED
    BY <2>1 DEF ModulesInv
<1> QED
  BY <1>2, <1>3 DEF LoopStep, PatchNext

LEMMA PatchModuleStepKeepsModules ==
  ASSUME Shape, ModulesInv, PatchModule, NEW target, IsTarget(target), NEW slot, slot = ModuleOrder[pc.k]
  PROVE  ModulesInv'
<1>1. /\ pc.at = "modules" /\ pc.m \in 1 .. Len(gPatchMgr.mModules)
      /\ Due /\ NameInCore(Current.mModuleName)
      /\ target = TargetOf(Current.mModuleName) /\ Patched(target, slot, Current.routines)
      /\ UNCHANGED core
      /\ \/ pc.k < 8 /\ At(pc', "modules", pc.i, pc.k + 1, pc.m, pc.back) /\ UNCHANGED gPatchMgr
         \/ ~(pc.k < 8) /\ At(pc', "modules", pc.i, 1, pc.m + 1, pc.back)
  BY PatchModuleCases DEF IsTarget
<1>2. pc.k \in 1 .. 8 /\ pc.i = 1
  BY <1>1 DEF ModulesInv
<1>3. CASE pc.k < 8 /\ At(pc', "modules", pc.i, pc.k + 1, pc.m, pc.back) /\ UNCHANGED gPatchMgr
  <2>1. pc'.at = "modules" /\ pc'.i = 1 /\ pc'.k = pc.k + 1 /\ pc'.m = pc.m /\ pc'.k \in 1 .. 8
    BY <1>2, <1>3 DEF At
  <2>2. Current' = Current
    BY <1>3, <2>1 DEF Current
  <2>3. Due' /\ NameInCore(Current.mModuleName)' /\ TargetOf(Current.mModuleName)' = target
    BY <1>1, <1>3, <2>2 DEF Due, NameInCore, TargetOf
  <2>4. pc'.m <= Len(gPatchMgr'.mModules)
    BY <1>1, <1>3, <2>1
  <2>5. \A j \in 1 .. 8 : ModuleOrder[j] \in Slots
    BY Orders DEF Slots, ReleaseSlots, AllocSlots
  <2>6. \A l \in Libs, s \in Slots : slots'[l][s] = IF l = target /\ s = slot THEN Current.routines ELSE slots[l][s]
    BY <1>1, PatchedSlot DEF Shape
  <2>7. Current.routines.family # "default"
    BY <1>1, ConfiguredRoutine DEF Current, Shape, SettingsFormed
  <2>8. ASSUME target \in Libs, NEW j \in 1 .. pc'.k - 1 PROVE Taken(target, ModuleOrder[j])'
    <3>1. j \in 1 .. 8
      BY <1>2, <2>1
    <3>2. CASE j = pc.k
      <4>1. ModuleOrder[j] = slot /\ slot \in Slots
        BY <2>5, <3>1, <3>2
      <4>2. slots'[target][slot] = Current.routines
        BY <2>6, <2>8, <4>1
      <4> QED
        BY <2>7, <4>1, <4>2 DEF Taken
    <3>3. CASE j # pc.k
      <4>1. j \in 1 .. pc.k - 1 /\ pc.k > 1
        BY <1>2, <2>1, <3>3
      <4>2. Taken(target, ModuleOrder[j])
        BY <1>1, <2>8, <4>1 DEF ModulesInv
      <4>3. \A l \in Libs, s \in Slots : Taken(l, s) => Taken(l, s)'
        BY <2>6, <2>7 DEF Taken
      <4> QED
        BY <2>5, <2>8, <3>1, <4>2, <4>3
    <3> QED
      BY <3>2, <3>3
  <2> QED
    BY <2>1, <2>3, <2>4, <2>8 DEF ModulesInv
<1>4. CASE At(pc', "modules", pc.i, 1, pc.m + 1, pc.back)
  <2>1. pc'.at = "modules" /\ pc'.i = 1 /\ pc'.k = 1
    BY <1>2, <1>4 DEF At
  <2> QED
    BY <2>1 DEF ModulesInv
<1> QED
  BY <1>1, <1>3, <1>4

LEMMA PatchModuleKeepsModules ==
  ASSUME Shape, ModulesInv, PatchModule
  PROVE  ModulesInv'
BY PatchModuleStepKeepsModules DEF IsTarget

LEMMA PatchKeepsModules ==
  ASSUME Shape, ModulesInv, PatchStep
  PROVE  ModulesInv'
<1>1. CASE PatchCatchAllFree
  <2>1. pc.at = "free" /\ AfterFree \in Places
    BY <1>1 DEF PatchCatchAllFree, AfterFree, Places
  <2> QED
    BY <1>1, <2>1, FreeIsLoop, LoopKeepsModules
<1>2. CASE PatchDlopen
  <2>1. pc.at = "dlopen" /\ pc.back \in Places
    BY <1>2 DEF PatchDlopen, Shape, PcFormed
  <2> QED
    BY <1>2, <2>1, DlopenIsLoop, LoopKeepsModules
<1>3. CASE CheckNewModules
  <2>1. pc.i = 1 /\ pc.k = 1
    BY <1>3, CheckNewModulesCases DEF ModulesInv
  <2>2. pc'.at = "idle" \/ (pc'.at = "modules" /\ pc'.i = 1 /\ pc'.k = 1)
    BY <1>3, <2>1, CheckNewModulesCases, IdleFormed, ToModulesMoves DEF Shape, At
  <2> QED
    BY <2>2 DEF ModulesInv
<1>4. CASE SkipModule
  <2>1. pc.at = "modules" /\ (~Due \/ ~NameInCore(Current.mModuleName))
    BY <1>4 DEF SkipModule, MoreModules
  <2>2. pc.i = 1 /\ pc.k \in 1 .. 8 /\ ~(pc.k > 1)
    BY <2>1 DEF ModulesInv
  <2>3. pc.k = 1
    BY <2>2
  <2>4. \/ At(pc', "dlopen", 1, 1, pc.m + 1, "modules")
        \/ At(pc', "modules", 1, 1, pc.m + 1, pc.back)
    BY <1>4, <2>2, <2>3, SkipModuleMoves DEF Shape
  <2>5. pc'.at \in {"dlopen", "modules"} /\ pc'.i = 1 /\ pc'.k = 1
    BY <2>4 DEF At
  <2> QED
    BY <2>5 DEF ModulesInv
<1>5. CASE PatchModule
  BY <1>5, PatchModuleKeepsModules
<1>6. CASE FinishPatch
  <2>1. pc'.at = "idle"
    BY <1>6, IdleFormed DEF FinishPatch, Return
  <2> QED
    BY <2>1 DEF ModulesInv
<1> QED
  BY <1>1, <1>2, <1>3, <1>4, <1>5, <1>6 DEF PatchStep

LEMMA StepKeepsModules ==
  ASSUME Shape, ModulesInv, [Next]_vars
  PROVE  ModulesInv'
<1>1. CASE PatchGoesOn
  BY <1>1, PatchKeepsModules DEF PatchGoesOn
<1>2. CASE (\E mgr : \E by : BeginPatch(mgr, by)) \/ (pc.at = "idle" /\ UNCHANGED pc)
  <2>1. (\E mgr : \E by : BeginPatch(mgr, by)) => ModulesInv'
    BY BegunModules
  <2>2. pc.at = "idle" /\ UNCHANGED pc => ModulesInv'
    BY DEF ModulesInv
  <2> QED
    BY <1>2, <2>1, <2>2
<1>3. CASE StartAccuTrak
  <2>1. \/ BeginPatch(ParseConfigFile(config, core), "start")
        \/ pc.at = "idle" /\ UNCHANGED pc
    BY <1>3 DEF StartAccuTrak, Event, Running
  <2> QED
    BY <1>2, <2>1
<1>4. CASE PatchMemRoutines
  BY <1>2, <1>4 DEF PatchMemRoutines
<1>5. CASE Load
  BY <1>2, <1>5, LoadCases
<1>6. CASE Unload
  <2>1. pc.at = "idle" /\ UNCHANGED pc
    BY <1>6 DEF Unload, Dlclose, Running
  <2> QED
    BY <1>2, <2>1
<1>7. CASE UNCHANGED vars
  BY <1>7 DEF vars, patchVars, ModulesInv, Due, Current, NameInCore, TargetOf, Taken
<1> QED
  BY <1>1, <1>3, <1>4, <1>5, <1>6, <1>7 DEF Next

LEMMA ModulesInvariant == Spec => []ModulesInv
<1>1. Init => ModulesInv
  BY IdleFormed DEF Init, LoadedFirst, ModulesInv
<1>2. Shape /\ ModulesInv /\ [Next]_vars => ModulesInv'
  BY StepKeepsModules
<1> QED
  BY <1>1, <1>2, ShapeInvariant, PTL DEF Spec

-------------------------------------------------------------------------------
(* ReleasesCovered: its inductive invariant *)

\* A module that releases nothing by a default routine.
Covered(e) == \A r \in ReleaseSlots : Taken(e, r)

Catching == Started /\ Catches(gPatchMgr)

\* Settled by the loop over all modules.  A forgotten one may be another than was patched.
Settled(e) == Kind[e] # "system" => Covered(e) \/ e \in forgotten

\* A module that makes blocks also releases its own.
OwnInv ==
  \A l \in Libs, s \in AllocSlots :
    Taken(l, s) => (\A r \in ReleasedBy(s) : Taken(l, r)) /\ gPatchMgr.mModules # <<>>

\* The loop over the link map is past the module.
Behind(e) == \E j \in 1 .. pc.i - 1 : core[j] = e

\* How far the loop over all modules has come.
FreeInv ==
  pc.at = "free" =>
    /\ Catching
    /\ pc.i \in DOMAIN core /\ pc.k \in 1 .. 4 /\ pc.back = "check"
    /\ \A e \in Libs : e = core[pc.i] => \A j \in 1 .. pc.k - 1 : Taken(e, FreeOrder[j])
    /\ \A e \in Libs : Behind(e) => Settled(e)

DlopenInv ==
  pc.at = "dlopen" => pc.i \in DOMAIN core /\ pc.k \in 1 .. 2 /\ pc.back \in {"check", "modules"}

\* Behind the loop every module is settled.
SettledInv ==
  pc.at \in {"dlopen", "check", "modules"} /\ Catching => \A e \in InLinkMap : Settled(e)

\* Only settled modules are marked.
MarksInv ==
  \A e \in Libs : "free" \in mPatchedList[e] =>
    Started /\ gPatchMgr.incremental_patch /\ (Covered(e) \/ e \in forgotten)

\* Does any slot make blocks?  The loop over all modules takes realloc too soon to count.
Making == \E l \in Libs, s \in AllocSlots : Taken(l, s) /\ (s = "realloc" => pc.at # "free")

\* If so, no module other threads can be in releases by default.
ExposedInv == Catching /\ Making => \A e \in Exposed : Kind[e] # "system" => Covered(e)

CoverInv == OwnInv /\ FreeInv /\ DlopenInv /\ SettledInv /\ MarksInv /\ ExposedInv

LEMMA CoverInitially == Init => CoverInv
<1> SUFFICES ASSUME Init PROVE CoverInv
  OBVIOUS
<1>1. PICK c \in InitialCores : LoadedFirst(c)
  BY DEF Init
<1>2. ~Started /\ pc.at = "idle" /\ \A e \in Libs : mPatchedList[e] = {}
  BY <1>1, IdleFormed DEF LoadedFirst, Started
<1>3. \A l \in Libs, s \in Slots : ~Taken(l, s)
  BY <1>1 DEF LoadedFirst, Taken, Default
<1>4. \A l \in Libs, s \in AllocSlots : ~Taken(l, s)
  BY <1>3, SlotSets
<1> QED
  BY <1>2, <1>4 DEF CoverInv, OwnInv, FreeInv, DlopenInv, SettledInv, MarksInv,
     ExposedInv, Catching, Making

\* Patch begins with the loop over all modules, if the settings ask for it.
LEMMA BegunCover ==
  ASSUME NEW mgr, NEW by, BeginPatch(mgr, by), gPatchMgr' = mgr, Started', CoreFormed'
  PROVE  FreeInv' /\ DlopenInv' /\ SettledInv'
<1>1. /\ pc'.i = 1 /\ pc'.k = 1 /\ pc'.m = 1
      /\ pc'.at \in {"idle", "free", "dlopen", "check"}
      /\ pc'.at # "idle" => pc'.back = "check"
      /\ pc'.at = "free" => Catches(mgr)
      /\ pc'.at \in {"dlopen", "check"} => ~Catches(mgr)
  BY BeginPatchMoves
<1>2. 1 \in DOMAIN core' /\ Catching' = Catches(mgr)
  BY DEF CoreFormed, Catching, Catches
<1>3. FreeInv'
  <2>1. \A j \in 1 .. 1 - 1 : FALSE
    OBVIOUS
  <2>2. ASSUME NEW e \in Libs, pc'.at = "free" PROVE ~Behind(e)'
    BY <1>1, <2>1, <2>2 DEF Behind
  <2> QED
    BY <1>1, <1>2, <2>1, <2>2 DEF FreeInv
<1>4. DlopenInv'
  BY <1>1, <1>2 DEF DlopenInv
<1>5. SettledInv'
  BY <1>1, <1>2 DEF SettledInv
<1> QED
  BY <1>3, <1>4, <1>5

LEMMA StartKeepsCover ==
  ASSUME Shape, Shape', CoverInv, StartAccuTrak
  PROVE  CoverInv'
<1> DEFINE s == ParseConfigFile(config, core)
<1>1. /\ UNCHANGED <<core, slots, mPatchedList, mPatchTried, config, forgotten>>
      /\ ~Started /\ pc.at = "idle"
  BY DEF StartAccuTrak, Event, Running
<1>2. \A e \in Libs : "free" \notin mPatchedList[e]
  BY <1>1 DEF CoverInv, MarksInv
<1>3. \A l \in Libs, x \in AllocSlots : ~Taken(l, x)'
  BY <1>1, SlotSets DEF Shape, Taken, Default
<1>4. OwnInv' /\ ExposedInv' /\ MarksInv'
  BY <1>1, <1>2, <1>3 DEF OwnInv, ExposedInv, Making, MarksInv
<1>5. FreeInv' /\ DlopenInv' /\ SettledInv'
  <2>1. CASE s.valid
    <3>1. gPatchMgr' = s /\ BeginPatch(s, "start")
      BY <2>1 DEF StartAccuTrak
    <3>2. Formed(s)
      <4>1. config \in Seq(Lines) /\ core \in Seq(Libs) /\ core # <<>> /\ core[1] = Exec
        BY AccuTrakAssumption DEF Shape, CoreFormed
      <4> QED
        BY <2>1, <4>1, StartSettings
    <3> HIDE DEF s
    <3>3. Started'
      BY <3>1, <3>2, FormedIsStarted DEF Started
    <3> QED
      BY <3>1, <3>3, BegunCover DEF Shape
  <2>2. CASE ~s.valid
    <3>1. UNCHANGED <<gPatchMgr, pc>>
      BY <2>2 DEF StartAccuTrak, StartFailed
    <3> QED
      BY <1>1, <3>1 DEF FreeInv, DlopenInv, SettledInv
  <2> QED
    BY <2>1, <2>2
<1> QED
  BY <1>4, <1>5 DEF CoverInv

LEMMA PatchMemRoutinesKeepsCover ==
  ASSUME Shape, Shape', CoverInv, PatchMemRoutines
  PROVE  CoverInv'
<1>1. /\ Started /\ BeginPatch(gPatchMgr, "api")
      /\ UNCHANGED <<core, slots, gPatchMgr, mPatchedList, forgotten, unseen>>
  BY DEF PatchMemRoutines
<1>2. Started'
  BY <1>1 DEF Started
<1>3. FreeInv' /\ DlopenInv' /\ SettledInv'
  BY <1>1, <1>2, BegunCover DEF Shape
<1>4. pc.at = "idle"
  BY DEF PatchMemRoutines, Event, Running
<1>5. OwnInv' /\ MarksInv' /\ ExposedInv'
  BY <1>1, <1>4 DEF CoverInv, OwnInv, MarksInv, ExposedInv, Making, Taken, Covered, Exposed, Started,
     Catching, Catches
<1> QED
  BY <1>3, <1>5 DEF CoverInv

\* A module that is loaded is unseen at first.
LEMMA LoadKeepsCover ==
  ASSUME Shape, Shape', CoverInv, Load
  PROVE  CoverInv'
<1>1. PICK lib \in Libs :
           /\ pc.at = "idle" /\ ~InCore(lib) /\ core' = Append(core, lib)
           /\ unseen' = unseen \cup {lib}
           /\ UNCHANGED <<slots, gPatchMgr, mPatchTried, mPatchedList, config, forgotten, reloaded>>
           /\ \/ Started /\ BeginPatch(gPatchMgr, "dlopen")
              \/ UNCHANGED pc
  BY LoadCases
<1>2. InLinkMap' = InLinkMap \cup {lib}
  BY <1>1, Appended DEF Shape
<1>3. FreeInv' /\ DlopenInv' /\ SettledInv'
  <2>1. CASE Started /\ BeginPatch(gPatchMgr, "dlopen")
    <3>1. Started' /\ gPatchMgr' = gPatchMgr
      BY <1>1, <2>1 DEF Started
    <3> QED
      BY <2>1, <3>1, BegunCover DEF Shape
  <2>2. CASE UNCHANGED pc
    BY <1>1, <2>2 DEF FreeInv, DlopenInv, SettledInv
  <2> QED
    BY <1>1, <2>1, <2>2
<1>4. OwnInv' /\ MarksInv'
  BY <1>1 DEF CoverInv, OwnInv, MarksInv, Taken, Covered, Started
<1>5. ExposedInv'
  <2>1. Exposed' \subseteq Exposed
    BY <1>1, <1>2 DEF Exposed, InLinkMap
  <2>2. (Catching' <=> Catching) /\ slots' = slots
    BY <1>1 DEF Catching, Catches, Started
  <2> QED
    BY <1>1, <2>1, <2>2 DEF CoverInv, ExposedInv, Making, Taken, Covered
<1> QED
  BY <1>3, <1>4, <1>5 DEF CoverInv

\* A module that goes is forgotten unless its mark goes too.
LEMMA UnloadKeepsCover ==
  ASSUME Shape, Shape', CoverInv, Unload
  PROVE  CoverInv'
<1>1. PICK caller \in Libs, lib \in InLinkMap \ {Exec} :
           /\ Dlclose(caller, lib) /\ CoreFormed' /\ InLinkMap' = InLinkMap \ {lib}
           /\ unseen' = unseen \ {lib}
           /\ Forgets(caller, lib)
           /\ ResetSlots(lib)
  BY UnloadCases
<1>2. /\ UNCHANGED <<gPatchMgr, pc>> /\ pc.at = "idle"
      /\ mPatchedList' = IF slots[caller]["dlclose"] = Intercepted /\ gPatchMgr.incremental_patch
                         THEN ClearPatchStatus(core') ELSE mPatchedList
  BY <1>1 DEF Dlclose, Running
<1>3. /\ \A l \in Libs, s \in Slots : Taken(l, s)' <=> Taken(l, s) /\ l # lib
      /\ \A l \in Libs, s \in Slots : l # lib => slots'[l][s] = slots[l][s]
  BY <1>1 DEF ResetSlots, Taken, Default
<1>4. \A l \in Libs : l # lib /\ Covered(l) => Covered(l)'
  BY <1>3, SlotSets DEF Covered
<1>5. FreeInv' /\ DlopenInv' /\ SettledInv'
  BY <1>2 DEF FreeInv, DlopenInv, SettledInv
<1>7. OwnInv'
  <2>1. SUFFICES ASSUME NEW l \in Libs, NEW s \in AllocSlots, Taken(l, s)'
                 PROVE  (\A r \in ReleasedBy(s) : Taken(l, r)') /\ gPatchMgr'.mModules # <<>>
    BY DEF OwnInv
  <2>2. Taken(l, s) /\ l # lib
    BY <1>3, <2>1, SlotSets
  <2>3. \A r \in ReleasedBy(s) : Taken(l, r) /\ r \in Slots
    BY <2>2, SlotSets DEF CoverInv, OwnInv
  <2>4. gPatchMgr'.mModules # <<>>
    BY <1>2, <2>2 DEF CoverInv, OwnInv
  <2> QED
    BY <1>3, <2>2, <2>3, <2>4
<1>8. \A e \in InLinkMap' : e \in forgotten => e \in forgotten'
  <2>1. SUFFICES ASSUME NEW e \in InLinkMap', e \in forgotten PROVE e \in forgotten'
    OBVIOUS
  <2>2. \E i \in DOMAIN core' : BaseName[core'[i]] = BaseName[e]
    BY <2>1 DEF InLinkMap
  <2> QED
    BY <1>1, <2>1, <2>2 DEF Forgets
<1>9. MarksInv'
  <2>1. SUFFICES ASSUME NEW e \in Libs, "free" \in mPatchedList'[e]
                 PROVE  Started' /\ gPatchMgr'.incremental_patch /\ (Covered(e)' \/ e \in forgotten')
    BY DEF MarksInv
  <2>2. "free" \in mPatchedList[e]
    BY <1>2, <2>1 DEF ClearPatchStatus
  <2>3. Started /\ gPatchMgr.incremental_patch /\ (Covered(e) \/ e \in forgotten)
    BY <2>2 DEF CoverInv, MarksInv
  <2>4. Started' /\ gPatchMgr'.incremental_patch
    BY <1>2, <2>3 DEF Started
  <2>5. CASE slots[caller]["dlclose"] = Intercepted
    <3>1. mPatchedList' = ClearPatchStatus(core')
      BY <1>2, <2>3, <2>5
    <3>2. \E i \in DOMAIN core' : BaseName[core'[i]] = BaseName[e]
      BY <2>1, <3>1 DEF ClearPatchStatus
    <3>3. e \in forgotten \cup {lib} => e \in forgotten'
      BY <1>1, <2>5, <3>2 DEF Forgets
    <3> QED
      BY <1>4, <2>3, <2>4, <3>3
  <2>6. CASE slots[caller]["dlclose"] # Intercepted
    <3>1. forgotten' = forgotten \cup {lib}
      BY <1>1, <2>6 DEF Forgets
    <3> QED
      BY <1>4, <2>3, <2>4, <3>1
  <2> QED
    BY <2>5, <2>6
<1>10. ExposedInv'
  <2>1. Catching' <=> Catching
    BY <1>2 DEF Catching, Catches, Started
  <2>2. SUFFICES ASSUME Catching, Making', NEW e \in Exposed', Kind[e] # "system"
                 PROVE  Covered(e)'
    BY <2>1 DEF ExposedInv
  <2>3. e \in InLinkMap' /\ e \notin unseen' /\ e \notin forgotten'
    BY <2>2 DEF Exposed, InLinkMap
  <2>4. e \in InLinkMap /\ e # lib /\ e \notin unseen /\ e \notin forgotten
    BY <1>1, <1>8, <2>3
  <2>5. e \in Exposed /\ e \in Libs
    BY <2>4 DEF Exposed, InLinkMap, Shape, CoreFormed
  <2>6. Making
    BY <1>2, <1>3, <2>2, SlotSets DEF Making
  <2>7. Covered(e)
    BY <2>2, <2>5, <2>6 DEF CoverInv, ExposedInv
  <2> QED
    BY <1>4, <2>4, <2>5, <2>7
<1> QED
  BY <1>5, <1>7, <1>9, <1>10 DEF CoverInv

-------------------------------------------------------------------------------
(* The steps of Patch *)

\* More slots are patched.
Grows == \A l \in Libs, s \in MemSlots : Taken(l, s) => Taken(l, s)'

LEMMA CoveredGrows ==
  ASSUME Grows, UNCHANGED forgotten, NEW e \in Libs
  PROVE  (Covered(e) => Covered(e)') /\ (Settled(e) => Settled(e)')
BY SlotSets DEF Grows, Covered, Settled

\* The settings a step of Patch leaves.
LEMMA SettingsKept ==
  ASSUME Started, Started', Enlarges(gPatchMgr', gPatchMgr), Formed(gPatchMgr),
         gPatchMgr.mModules = <<>> => gPatchMgr'.mModules = <<>>
  PROVE  /\ Catching' <=> Catching
         /\ gPatchMgr'.incremental_patch = gPatchMgr.incremental_patch
         /\ gPatchMgr.mModules # <<>> => gPatchMgr'.mModules # <<>>
<1>1. /\ gPatchMgr'.self_contained = gPatchMgr.self_contained /\ gPatchMgr'.mMode = gPatchMgr.mMode
      /\ gPatchMgr'.incremental_patch = gPatchMgr.incremental_patch
  BY DEF Enlarges, Fields
<1>2. gPatchMgr.mModules # <<>> => gPatchMgr'.mModules # <<>>
  BY DEF Enlarges, Formed
<1> QED
  BY <1>1, <1>2 DEF Catching, Catches

LEMMA SameSettings ==
  ASSUME Shape, Shape', pc.at # "idle", UNCHANGED gPatchMgr
  PROVE  /\ Started /\ Started' /\ Enlarges(gPatchMgr', gPatchMgr) /\ Formed(gPatchMgr)
         /\ Catching' <=> Catching
<1>1. Started /\ Formed(gPatchMgr)
  BY DEF Shape, SettingsFormed
<1> QED
  BY <1>1 DEF Started, Enlarges, Formed, Catching, Catches

\* The loop over all modules goes on behind a module that is settled.
LEMMA FreeAdvances ==
  ASSUME Shape, Shape', CoverInv, pc.at = "free", Advance(AfterFree), Grows,
         UNCHANGED <<core, gPatchMgr, forgotten>>, NEW cur, cur = core[pc.i], Settled(cur)'
  PROVE  FreeInv' /\ DlopenInv' /\ SettledInv'
<1>1. /\ Catching /\ pc.i \in DOMAIN core /\ pc.back = "check"
      /\ \A e \in Libs : Behind(e) => Settled(e)
  BY DEF CoverInv, FreeInv
<1>2. /\ Len(core) \in Nat \ {0} /\ DOMAIN core = 1 .. Len(core)
      /\ \A j \in 1 .. Len(core) : core[j] \in Libs
  BY DEF Shape, CoreFormed
<1>3. Catching' /\ core' = core
  BY <1>1, SameSettings
<1>4. ASSUME NEW j \in 1 .. pc.i, NEW e, e = core[j] PROVE Settled(e)'
  <2>1. CASE j = pc.i
    BY <1>4, <2>1
  <2>2. CASE j # pc.i
    <3>1. j \in 1 .. pc.i - 1 /\ e \in Libs
      BY <1>1, <1>2, <1>4, <2>2
    <3>2. Behind(e)
      BY <1>4, <3>1 DEF Behind
    <3>3. Settled(e)
      BY <1>1, <3>1, <3>2
    <3> QED
      BY <3>1, <3>3, CoveredGrows
  <2> QED
    BY <2>1, <2>2
<1>5. PcFormed(pc) /\ AfterFree \in {"dlopen", "check"} /\ AfterFree \in Places
  BY DEF Shape, AfterFree, Places
<1>6. CASE pc.i < Len(core)
  <2>1. At(pc', "free", pc.i + 1, 1, pc.m, "check")
    BY <1>1, <1>2, <1>5, <1>6, AdvanceMoves
  <2>2. pc'.at = "free" /\ pc'.i = pc.i + 1 /\ pc'.k = 1 /\ pc'.back = "check"
    BY <2>1 DEF At
  <2>3. pc'.i \in DOMAIN core' /\ pc'.i - 1 = pc.i
    BY <1>1, <1>2, <1>3, <1>6, <2>2
  <2>4. \A e \in Libs : Behind(e)' => Settled(e)'
    BY <1>3, <1>4, <2>3 DEF Behind
  <2>5. \A j \in 1 .. pc'.k - 1 : FALSE
    BY <2>2
  <2>6. FreeInv'
    BY <1>3, <2>2, <2>3, <2>4, <2>5 DEF FreeInv
  <2> QED
    BY <2>2, <2>6 DEF DlopenInv, SettledInv
<1>7. CASE ~(pc.i < Len(core))
  <2>1. At(pc', AfterFree, 1, 1, pc.m, "check")
    BY <1>1, <1>2, <1>5, <1>7, AdvanceMoves
  <2>2. pc'.at \in {"dlopen", "check"} /\ pc'.i = 1 /\ pc'.k = 1 /\ pc'.back = "check"
    BY <1>5, <2>1 DEF At
  <2>3. 1 \in DOMAIN core' /\ pc.i = Len(core)
    BY <1>1, <1>2, <1>3, <1>7
  <2>4. \A e \in InLinkMap' : Settled(e)'
    BY <1>2, <1>3, <1>4, <2>3 DEF InLinkMap
  <2> QED
    BY <2>2, <2>3, <2>4 DEF FreeInv, DlopenInv, SettledInv
<1> QED
  BY <1>6, <1>7

\* What a step of the loop does to the module it is at.
LEMMA FreeCases ==
  ASSUME Shape, CoverInv, PatchCatchAllFree, NEW cur, cur = core[pc.i], NEW slot, slot = FreeOrder[pc.k],
         NEW routine, routine = gPatchMgr.mModules[1].routines
  PROVE  \/ /\ Advance(AfterFree) /\ UNCHANGED <<slots, mPatchedList>> /\ Settled(cur)
         \/ /\ Patched(cur, slot, routine) /\ pc.k < 4 /\ UNCHANGED mPatchedList
            /\ At(pc', "free", pc.i, pc.k + 1, pc.m, "check")
         \/ /\ Patched(cur, slot, routine) /\ pc.k = 4 /\ Advance(AfterFree)
            /\ mPatchedList' = IF gPatchMgr.incremental_patch
                               THEN [mPatchedList EXCEPT ![cur] = @ \cup {"free"}] ELSE mPatchedList
<1>1. pc.at = "free" /\ pc.i \in DOMAIN core /\ pc.k \in 1 .. 4 /\ pc.back = "check"
  BY DEF PatchCatchAllFree, CoverInv, FreeInv
<1>2. cur \in Libs
  BY <1>1 DEF Shape, CoreFormed
<1>3. CASE Skipped("free", {"system"}) /\ Advance(AfterFree) /\ UNCHANGED <<slots, mPatchedList>>
  <2>1. Settled(cur)
    BY <1>2, <1>3 DEF Skipped, Settled, CoverInv, MarksInv
  <2> QED
    BY <1>3, <2>1
<1>4. CASE PatchNext(FreeOrder, routine, "free", AfterFree)
  <2>1. Patched(cur, slot, routine)
    BY <1>4 DEF PatchNext
  <2>2. CASE pc.k < 4
    <3>1. pc' = [pc EXCEPT !.k = @ + 1] /\ UNCHANGED mPatchedList
      BY <1>4, <2>2, Orders DEF PatchNext
    <3>2. At(pc', "free", pc.i, pc.k + 1, pc.m, "check")
      BY <1>1, <3>1, NextSlotMoves DEF Shape
    <3> QED
      BY <2>1, <2>2, <3>1, <3>2
  <2>3. CASE pc.k = 4
    <3>1. /\ Advance(AfterFree)
          /\ mPatchedList' = IF gPatchMgr.incremental_patch
                             THEN [mPatchedList EXCEPT ![cur] = @ \cup {"free"}] ELSE mPatchedList
      BY <1>4, <2>3, Orders DEF PatchNext
    <3> QED
      BY <2>1, <2>3, <3>1
  <2> QED
    BY <1>1, <2>2, <2>3
<1> QED
  BY <1>3, <1>4 DEF PatchCatchAllFree

LEMMA UntouchedGrows ==
  ASSUME UNCHANGED slots
  PROVE  Grows /\ \A l \in Libs, s \in MemSlots : Taken(l, s)' <=> Taken(l, s)
BY DEF Grows, Taken

LEMMA FreeStepKeepsCover ==
  ASSUME Shape, Shape', CoverInv, PatchCatchAllFree, UNCHANGED <<config, forgotten, unseen>>,
         NEW cur, cur = core[pc.i], NEW slot, slot = FreeOrder[pc.k]
  PROVE  CoverInv'
<1> DEFINE routine == gPatchMgr.mModules[1].routines
<1>1. /\ pc.at = "free" /\ UNCHANGED <<core, gPatchMgr>>
      /\ Catching /\ pc.i \in DOMAIN core /\ pc.k \in 1 .. 4 /\ pc.back = "check"
      /\ \A e \in Libs : Behind(e) => Settled(e)
  BY DEF PatchCatchAllFree, CoverInv, FreeInv
<1>2. cur \in Libs /\ \A j \in 1 .. pc.k - 1 : Taken(cur, FreeOrder[j])
  BY <1>1 DEF Shape, CoreFormed, CoverInv, FreeInv
<1>3. /\ Started /\ Started' /\ Enlarges(gPatchMgr', gPatchMgr) /\ Formed(gPatchMgr)
      /\ Catching'
  BY <1>1, SameSettings
<1>4. routine.family # "default"
  <2>1. 1 \in 1 .. Len(gPatchMgr.mModules)
    BY <1>1, <1>3 DEF Catching, Catches, Formed
  <2> QED
    BY <1>3, <2>1, ConfiguredRoutine
<1>5. slot \in ReleaseSlots /\ slot \notin Makers
  BY <1>1, Orders DEF ReleaseSlots, Makers
<1>6. \/ /\ Advance(AfterFree) /\ UNCHANGED <<slots, mPatchedList>> /\ Settled(cur)
      \/ /\ Patched(cur, slot, routine) /\ pc.k < 4 /\ UNCHANGED mPatchedList
         /\ At(pc', "free", pc.i, pc.k + 1, pc.m, "check")
      \/ /\ Patched(cur, slot, routine) /\ pc.k = 4 /\ Advance(AfterFree)
         /\ mPatchedList' = IF gPatchMgr.incremental_patch
                            THEN [mPatchedList EXCEPT ![cur] = @ \cup {"free"}] ELSE mPatchedList
  BY FreeCases
<1> HIDE DEF routine
<1>7. /\ Grows
      /\ \A l \in Libs, s \in Makers : Taken(l, s)' => Taken(l, s)
      /\ Patched(cur, slot, routine) => Taken(cur, slot)'
  <2>0. slot \in MemSlots /\ SlotsFormed
    BY <1>5, SlotSets DEF Shape
  <2>1. CASE UNCHANGED slots /\ ~Patched(cur, slot, routine)
    BY <2>1, UntouchedGrows, SlotSets
  <2>2. CASE Patched(cur, slot, routine)
    <3>1. /\ \A l \in Libs, s \in MemSlots : Taken(l, s)' <=> Taken(l, s) \/ (l = cur /\ s = slot)
          /\ \A l \in Libs, s \in MemSlots :
              slots'[l][s] = IF l = cur /\ s = slot THEN routine ELSE slots[l][s]
      <4>1. routine.family # "default"
        BY <1>4 DEF routine
      <4> QED
        BY <2>0, <2>2, <4>1, TakenByPatch
    <3>2. Grows
      BY <3>1 DEF Grows
    <3>3. \A l \in Libs, s \in Makers : Taken(l, s)' => Taken(l, s)
      BY <1>5, <3>1, SlotSets
    <3> QED
      BY <1>2, <2>0, <3>1, <3>2, <3>3
  <2> QED
    BY <1>6, <2>1, <2>2
<1>8. \A l \in Libs : Taken(l, "realloc")' => Taken(l, "realloc") \/ (l = cur /\ Taken(cur, "free"))
  <2>1. SUFFICES ASSUME NEW l \in Libs, Taken(l, "realloc")', ~Taken(l, "realloc")
                 PROVE  l = cur /\ Taken(cur, "free")
    OBVIOUS
  <2>2. l = cur /\ slot = "realloc"
    <3>1. "realloc" \in Slots /\ SlotsFormed
      BY SlotSets DEF Shape, AllocSlots
    <3>2. Patched(cur, slot, routine)
      BY <1>6, <2>1 DEF Taken
    <3> QED
      BY <2>1, <3>1, <3>2, PatchedSlot DEF Taken
  <2>3. pc.k = 2
    <3>1. pc.k = 1 \/ pc.k = 2 \/ pc.k = 3 \/ pc.k = 4
      BY <1>1
    <3>2. FreeOrder[pc.k] = "realloc"
      BY <2>2
    <3> QED
      BY <3>1, <3>2, Orders
  <2> QED
    BY <1>2, <2>2, <2>3, Orders
<1>9. OwnInv'
  <2>1. SUFFICES ASSUME NEW l \in Libs, NEW s \in AllocSlots, Taken(l, s)'
                 PROVE  (\A r \in ReleasedBy(s) : Taken(l, r)') /\ gPatchMgr'.mModules # <<>>
    BY DEF OwnInv
  <2>2. CASE Taken(l, s)
    <3>1. (\A r \in ReleasedBy(s) : Taken(l, r) /\ r \in MemSlots) /\ gPatchMgr.mModules # <<>>
      BY <2>2, SlotSets DEF CoverInv, OwnInv
    <3> QED
      BY <1>1, <1>7, <3>1 DEF Grows
  <2>3. CASE ~Taken(l, s)
    <3>1. s = "realloc" /\ l = cur /\ Taken(cur, "free")
      BY <1>7, <1>8, <2>1, <2>3, SlotSets
    <3>2. Taken(cur, "free")' /\ ReleasedBy(s) = {"free", "realloc"}
      BY <1>2, <1>7, <3>1, SlotSets DEF Grows, ReleasedBy, ReleaseSlots
    <3> QED
      BY <1>1, <2>1, <3>1, <3>2 DEF Catching, Catches
  <2> QED
    BY <2>2, <2>3
<1>10. pc.k = 4 /\ Patched(cur, slot, routine) => Covered(cur)'
  <2>1. SUFFICES ASSUME pc.k = 4, Patched(cur, slot, routine), NEW r \in ReleaseSlots
                 PROVE  Taken(cur, r)'
    BY DEF Covered
  <2>2. r \in {"free", "realloc", "delete", "delete[]"} /\ r \in MemSlots
    BY SlotSets DEF ReleaseSlots
  <2>3. Taken(cur, "free") /\ Taken(cur, "realloc") /\ Taken(cur, "delete")
    BY <1>2, <2>1, Orders
  <2>4. Taken(cur, "delete[]")'
    BY <1>7, <2>1, Orders
  <2>5. Taken(cur, r) => Taken(cur, r)'
    BY <1>2, <1>7, <2>2 DEF Grows
  <2> QED
    BY <2>2, <2>3, <2>4, <2>5
<1>11. MarksInv'
  <2>1. SUFFICES ASSUME NEW e \in Libs, "free" \in mPatchedList'[e]
                 PROVE  Started' /\ gPatchMgr'.incremental_patch /\ (Covered(e)' \/ e \in forgotten')
    BY DEF MarksInv
  <2>2. CASE "free" \in mPatchedList[e]
    BY <1>1, <1>3, <1>7, <2>2, CoveredGrows DEF CoverInv, MarksInv
  <2>3. CASE "free" \notin mPatchedList[e]
    <3>1. pc.k = 4 /\ Patched(cur, slot, routine) /\ gPatchMgr.incremental_patch /\ e = cur
      BY <1>6, <2>1, <2>3 DEF Shape
    <3>2. Covered(e)'
      BY <1>10, <3>1
    <3> QED
      BY <1>1, <1>3, <3>1, <3>2
  <2> QED
    BY <2>2, <2>3
<1>12. FreeInv' /\ DlopenInv' /\ SettledInv'
  <2>1. CASE Advance(AfterFree) /\ Settled(cur)'
    BY <1>1, <1>7, <2>1, FreeAdvances
  <2>2. CASE /\ Patched(cur, slot, routine) /\ pc.k < 4
             /\ At(pc', "free", pc.i, pc.k + 1, pc.m, "check")
    <3>1. pc'.at = "free" /\ pc'.i = pc.i /\ pc'.k = pc.k + 1 /\ pc'.back = "check" /\ pc.k + 1 \in 1 .. 4
      BY <1>1, <2>2 DEF At
    <3>2. ASSUME NEW j \in 1 .. pc'.k - 1 PROVE Taken(cur, FreeOrder[j])'
      <4>1. CASE j = pc.k
        BY <1>7, <2>2, <4>1
      <4>2. CASE j # pc.k
        <5>1. j \in 1 .. pc.k - 1 /\ j \in 1 .. 4
          BY <1>1, <3>1, <4>2
        <5>2. FreeOrder[j] \in MemSlots
          BY <5>1, Orders DEF MemSlots, ReleaseSlots
        <5>3. Taken(cur, FreeOrder[j])
          BY <1>2, <5>1
        <5> QED
          BY <1>2, <1>7, <5>2, <5>3 DEF Grows
      <4> QED
        BY <4>1, <4>2
    <3>3. \A e \in Libs : Behind(e)' => Settled(e)'
      <4>1. \A e \in Libs : Behind(e)' => Behind(e)
        BY <1>1, <3>1 DEF Behind
      <4> QED
        BY <1>1, <1>7, <4>1, CoveredGrows
    <3>4. pc'.i \in DOMAIN core' /\ core'[pc'.i] = cur
      BY <1>1, <3>1
    <3>5. FreeInv'
      BY <1>3, <3>1, <3>2, <3>3, <3>4 DEF FreeInv
    <3> QED
      BY <3>1, <3>5 DEF DlopenInv, SettledInv
  <2>3. Settled(cur) => Settled(cur)'
    BY <1>2, <1>7, CoveredGrows
  <2>4. Covered(cur)' => Settled(cur)'
    BY DEF Settled
  <2> QED
    BY <1>6, <1>10, <2>1, <2>2, <2>3, <2>4
<1>13. ExposedInv'
  <2>1. SUFFICES ASSUME Making', NEW e \in Exposed', Kind[e] # "system"
                 PROVE  Covered(e)'
    BY DEF ExposedInv
  <2>2. e \in Exposed /\ e \in Libs /\ e \in InLinkMap /\ e \notin forgotten
    BY <1>1, <2>1 DEF Exposed, InLinkMap, Shape, CoreFormed
  <2>3. CASE pc'.at = "free"
    <3>1. Making
      BY <1>7, <2>1, <2>3, SlotSets DEF Making
    <3>2. Covered(e)
      BY <1>1, <2>1, <2>2, <3>1 DEF CoverInv, ExposedInv
    <3> QED
      BY <1>7, <2>2, <3>2, CoveredGrows
  <2>4. CASE pc'.at # "free"
    <3>1. pc'.at \in {"dlopen", "check"}
      <4>1. Advance(AfterFree)
        BY <1>6, <2>4 DEF At
      <4>2. AfterFree \in Places /\ AfterFree \in {"dlopen", "check"} /\ PcFormed(pc) /\ Len(core) \in Nat
        BY DEF AfterFree, Places, Shape, CoreFormed
      <4> QED
        BY <1>1, <2>4, <4>1, <4>2, AdvanceMoves DEF At
    <3>2. Settled(e)'
      BY <1>1, <1>3, <1>12, <2>2, <3>1 DEF SettledInv, InLinkMap
    <3> QED
      BY <2>1, <2>2, <3>2 DEF Settled
  <2> QED
    BY <2>3, <2>4
<1> QED
  BY <1>9, <1>11, <1>12, <1>13 DEF CoverInv

LEMMA FreeKeepsCover ==
  ASSUME Shape, Shape', CoverInv, PatchCatchAllFree, UNCHANGED <<config, forgotten, unseen>>
  PROVE  CoverInv'
BY FreeStepKeepsCover

-------------------------------------------------------------------------------
(* The steps behind the loop over all modules *)

\* What they all keep.
LEMMA BehindTheLoop ==
  ASSUME Shape, Shape', CoverInv, pc.at \in {"dlopen", "check", "modules"}, Grows,
         UNCHANGED <<core, forgotten>>, Started, Started', Enlarges(gPatchMgr', gPatchMgr),
         Catching' <=> Catching, gPatchMgr'.incremental_patch = gPatchMgr.incremental_patch,
         \A e \in Libs : "free" \in mPatchedList'[e] => "free" \in mPatchedList[e]
  PROVE  SettledInv' /\ MarksInv' /\ ExposedInv'
<1>2. ASSUME Catching', NEW e \in InLinkMap' PROVE e \in Libs /\ Settled(e)'
  <2>1. e \in InLinkMap /\ e \in Libs
    BY <1>2 DEF InLinkMap, Shape, CoreFormed
  <2>2. Settled(e)
    BY <1>2, <2>1 DEF CoverInv, SettledInv
  <2> QED
    BY <2>1, <2>2, CoveredGrows
<1>3. SettledInv'
  BY <1>2 DEF SettledInv
<1>4. MarksInv'
  BY CoveredGrows DEF CoverInv, MarksInv
<1>5. ExposedInv'
  <2>1. SUFFICES ASSUME Catching', NEW e \in Exposed', Kind[e] # "system"
                 PROVE  Covered(e)'
    BY DEF ExposedInv
  <2>2. e \in InLinkMap' /\ e \notin forgotten'
    BY <2>1 DEF Exposed, InLinkMap
  <2>3. Settled(e)'
    BY <1>2, <2>1, <2>2
  <2> QED
    BY <2>1, <2>2, <2>3 DEF Settled
<1> QED
  BY <1>3, <1>4, <1>5

SameSlots == \A l \in Libs, s \in MemSlots : slots'[l][s] = slots[l][s]

LEMMA OwnKept ==
  ASSUME OwnInv, SameSlots, gPatchMgr.mModules # <<>> => gPatchMgr'.mModules # <<>>
  PROVE  Grows /\ OwnInv'
<1>1. \A l \in Libs, s \in MemSlots : Taken(l, s)' <=> Taken(l, s)
  BY DEF SameSlots, Taken
<1>2. Grows
  BY <1>1 DEF Grows
<1>3. OwnInv'
  <2>1. SUFFICES ASSUME NEW l \in Libs, NEW s \in AllocSlots, Taken(l, s)'
                 PROVE  (\A r \in ReleasedBy(s) : Taken(l, r)') /\ gPatchMgr'.mModules # <<>>
    BY DEF OwnInv
  <2>2. Taken(l, s) /\ \A r \in ReleasedBy(s) : r \in MemSlots
    BY <1>1, <2>1, SlotSets
  <2> QED
    BY <1>1, <2>2 DEF OwnInv
<1> QED
  BY <1>2, <1>3

LEMMA DlopenKeepsCover ==
  ASSUME Shape, Shape', CoverInv, PatchDlopen, UNCHANGED forgotten
  PROVE  CoverInv'
<1>1. /\ pc.at = "dlopen" /\ UNCHANGED <<core, gPatchMgr>>
      /\ LoopStep(DlopenOrder, Intercepted, "dlopen", pc.back)
      /\ pc.i \in DOMAIN core /\ pc.k \in 1 .. 2 /\ pc.back \in {"check", "modules"}
  BY DlopenIsLoop DEF PatchDlopen, CoverInv, DlopenInv
<1>2. Started /\ Started' /\ Enlarges(gPatchMgr', gPatchMgr) /\ (Catching' <=> Catching)
  BY <1>1, SameSettings
<1>3. PcFormed(pc) /\ Len(core) \in Nat /\ DOMAIN core = 1 .. Len(core) /\ 1 \in DOMAIN core
      /\ pc.back \in Places
  BY <1>1 DEF Shape, CoreFormed, Places
<1>4. SameSlots
  <2>1. CASE UNCHANGED slots
    BY <2>1 DEF SameSlots
  <2>2. CASE Patched(core[pc.i], DlopenOrder[pc.k], Intercepted)
    <3>1. DlopenOrder[pc.k] \in {"dlopen", "dlclose"} /\ SlotsFormed
      BY <1>1, Orders DEF Shape
    <3> QED
      BY <2>2, <3>1, NotTakenByPatch DEF SameSlots
  <2> QED
    BY <1>1, <2>1, <2>2 DEF LoopStep, PatchNext
<1>5. Grows /\ OwnInv'
  BY <1>1, <1>4, OwnKept DEF CoverInv
<1>6. \A e \in Libs : "free" \in mPatchedList'[e] => "free" \in mPatchedList[e]
  <2>1. \/ mPatchedList' = mPatchedList
        \/ mPatchedList' = [mPatchedList EXCEPT ![core[pc.i]] = @ \cup {"dlopen"}]
    BY <1>1 DEF LoopStep, PatchNext
  <2> QED
    BY <2>1 DEF Shape
<1>7. SettledInv' /\ MarksInv' /\ ExposedInv'
  <2>1. /\ pc.at \in {"dlopen", "check", "modules"} /\ UNCHANGED <<core, forgotten>>
        /\ gPatchMgr'.incremental_patch = gPatchMgr.incremental_patch
    BY <1>1
  <2> QED
    BY <1>2, <1>5, <1>6, <2>1, BehindTheLoop
<1>8. \/ Advance(pc.back)
      \/ pc.k < 2 /\ pc' = [pc EXCEPT !.k = @ + 1]
  BY <1>1, Orders DEF LoopStep, PatchNext
<1>9. FreeInv' /\ DlopenInv'
  <2>1. CASE Advance(pc.back) /\ pc.i < Len(core)
    <3>1. At(pc', "dlopen", pc.i + 1, 1, pc.m, pc.back)
      BY <1>1, <1>3, <2>1, AdvanceMoves
    <3>2. pc'.at = "dlopen" /\ pc'.i = pc.i + 1 /\ pc'.k = 1 /\ pc'.back = pc.back
      BY <3>1 DEF At
    <3>3. pc'.i \in DOMAIN core'
      BY <1>1, <1>3, <2>1, <3>2
    <3> QED
      BY <1>1, <3>2, <3>3 DEF FreeInv, DlopenInv
  <2>2. CASE Advance(pc.back) /\ ~(pc.i < Len(core))
    <3>1. At(pc', pc.back, 1, 1, pc.m, pc.back)
      BY <1>1, <1>3, <2>2, AdvanceMoves
    <3>2. pc'.at \in {"check", "modules"} /\ pc'.i = 1 /\ pc'.k = 1
      BY <1>1, <3>1 DEF At
    <3> QED
      BY <3>2 DEF FreeInv, DlopenInv
  <2>3. CASE pc.k < 2 /\ pc' = [pc EXCEPT !.k = @ + 1]
    <3>1. At(pc', "dlopen", pc.i, pc.k + 1, pc.m, pc.back)
      BY <1>1, <1>3, <2>3, NextSlotMoves
    <3>2. pc'.at = "dlopen" /\ pc'.i = pc.i /\ pc'.k = pc.k + 1 /\ pc'.back = pc.back
      BY <3>1 DEF At
    <3> QED
      BY <1>1, <2>3, <3>2 DEF FreeInv, DlopenInv
  <2> QED
    BY <1>8, <2>1, <2>2, <2>3
<1> QED
  BY <1>5, <1>7, <1>9 DEF CoverInv

LEMMA CheckNewModulesKeepsCover ==
  ASSUME Shape, Shape', CoverInv, CheckNewModules, UNCHANGED forgotten
  PROVE  CoverInv'
<1>1. /\ pc.at = "check" /\ UNCHANGED <<core, slots, mPatchedList>>
      /\ pc' = Idle(pc.by) \/ pc' = [pc EXCEPT !.at = "modules"]
  BY CheckNewModulesCases
<1>2. Started /\ Enlarges(gPatchMgr', gPatchMgr) /\ Formed(gPatchMgr) /\ Started'
  BY CheckedSettings, EnlargedSettings DEF Shape, SettingsFormed
<1>3. gPatchMgr.mModules = <<>> => gPatchMgr'.mModules = <<>>
  <2>1. gPatchMgr.mModules = <<>> => ~gPatchMgr.mPatchAllUserModules
    BY <1>2 DEF Shape, SettingsFormed
  <2>2. ~gPatchMgr.mPatchAllUserModules => gPatchMgr' = gPatchMgr
    BY DEF CheckNewModules
  <2> QED
    BY <2>1, <2>2
<1>4. /\ Catching' <=> Catching
      /\ gPatchMgr'.incremental_patch = gPatchMgr.incremental_patch
      /\ gPatchMgr.mModules # <<>> => gPatchMgr'.mModules # <<>>
  BY <1>2, <1>3, SettingsKept
<1>5. Grows /\ OwnInv'
  BY <1>1, <1>4, OwnKept DEF CoverInv, SameSlots
<1>6. SettledInv' /\ MarksInv' /\ ExposedInv'
  BY <1>1, <1>2, <1>4, <1>5, BehindTheLoop
<1>7. FreeInv' /\ DlopenInv'
  <2>1. CASE pc' = Idle(pc.by)
    <3>1. pc'.at = "idle"
      BY <2>1, IdleFormed
    <3> QED
      BY <3>1 DEF FreeInv, DlopenInv
  <2>2. CASE pc' = [pc EXCEPT !.at = "modules"]
    <3>1. pc'.at = "modules"
      BY <2>2, ToModulesMoves DEF Shape, At
    <3> QED
      BY <3>1 DEF FreeInv, DlopenInv
  <2> QED
    BY <1>1, <2>1, <2>2
<1> QED
  BY <1>5, <1>6, <1>7 DEF CoverInv

LEMMA SkipModuleKeepsCover ==
  ASSUME Shape, Shape', CoverInv, ModulesInv, SkipModule, UNCHANGED forgotten
  PROVE  CoverInv'
<1>1. /\ pc.at = "modules" /\ UNCHANGED <<core, slots, gPatchMgr, mPatchedList>>
      /\ ~Due \/ ~NameInCore(Current.mModuleName)
  BY DEF SkipModule, MoreModules
<1>2. Started /\ Started' /\ Enlarges(gPatchMgr', gPatchMgr) /\ (Catching' <=> Catching)
  BY <1>1, SameSettings
<1>3. Grows /\ OwnInv'
  BY <1>1, OwnKept DEF CoverInv, SameSlots
<1>4. SettledInv' /\ MarksInv' /\ ExposedInv'
  BY <1>1, <1>2, <1>3, BehindTheLoop
<1>5. pc.i = 1 /\ pc.k \in 1 .. 8 /\ ~(pc.k > 1)
  BY <1>1 DEF ModulesInv
<1>6. pc.k = 1 /\ 1 \in DOMAIN core'
  BY <1>1, <1>5 DEF Shape, CoreFormed
<1>7. \/ At(pc', "dlopen", 1, 1, pc.m + 1, "modules")
      \/ At(pc', "modules", 1, 1, pc.m + 1, pc.back)
  BY <1>5, <1>6, SkipModuleMoves DEF Shape
<1>8. pc'.i = 1 /\ pc'.k = 1 /\ (pc'.at = "modules" \/ (pc'.at = "dlopen" /\ pc'.back = "modules"))
  BY <1>7 DEF At
<1>9. FreeInv' /\ DlopenInv'
  BY <1>6, <1>8 DEF FreeInv, DlopenInv
<1> QED
  BY <1>3, <1>4, <1>9 DEF CoverInv

\* The slots a block of a slot is released through come before it, or are the slot itself.
LEMMA ReleasedFirst ==
  ASSUME NEW k \in 1 .. 8, ModuleOrder[k] \in AllocSlots, NEW r \in ReleasedBy(ModuleOrder[k])
  PROVE  r = ModuleOrder[k] \/ \E j \in 1 .. k - 1 : ModuleOrder[j] = r
<1>1. CASE k \in {2, 3, 4}
  <2>1. r \in {"free", "realloc"}
    BY <1>1, Orders DEF ReleasedBy
  <2>2. 1 \in 1 .. k - 1 /\ (k = 2 \/ 2 \in 1 .. k - 1)
    BY <1>1
  <2> QED
    BY <2>1, <2>2, Orders
<1>2. CASE k = 7
  <2>1. r = "delete" /\ 5 \in 1 .. 7 - 1
    BY <1>2, Orders DEF ReleasedBy
  <2> QED
    BY <1>2, <2>1, Orders
<1>3. CASE k = 8
  <2>1. r = "delete[]" /\ 6 \in 1 .. 8 - 1
    BY <1>3, Orders DEF ReleasedBy
  <2> QED
    BY <1>3, <2>1, Orders
<1>4. CASE k \in {1, 5, 6}
  BY <1>4, Orders DEF AllocSlots
<1> QED
  BY <1>1, <1>2, <1>3, <1>4

LEMMA PatchModuleStepKeepsCover ==
  ASSUME Shape, Shape', CoverInv, ModulesInv, PatchModule, UNCHANGED forgotten,
         NEW target, IsTarget(target),
         NEW slot, slot = ModuleOrder[pc.k]
  PROVE  CoverInv'
<1> DEFINE routine == Current.routines
<1>1. /\ pc.at = "modules" /\ pc.m \in 1 .. Len(gPatchMgr.mModules)
      /\ Due /\ NameInCore(Current.mModuleName)
      /\ target = TargetOf(Current.mModuleName) /\ Patched(target, slot, routine)
      /\ UNCHANGED <<core, mPatchedList>>
      /\ \/ pc.k < 8 /\ At(pc', "modules", pc.i, pc.k + 1, pc.m, pc.back) /\ UNCHANGED gPatchMgr
         \/ ~(pc.k < 8) /\ At(pc', "modules", pc.i, 1, pc.m + 1, pc.back)
  BY PatchModuleCases DEF IsTarget
<1>2. /\ Started /\ Started' /\ Enlarges(gPatchMgr', gPatchMgr) /\ Formed(gPatchMgr)
      /\ Len(gPatchMgr'.mModules) = Len(gPatchMgr.mModules)
  BY PatchModuleSettings, EnlargedSettings DEF Shape, SettingsFormed
<1>3. Len(gPatchMgr.mModules) # 0 /\ gPatchMgr.mModules # <<>> /\ gPatchMgr'.mModules # <<>>
  BY <1>1, <1>2
<1>4. /\ Catching' <=> Catching
      /\ gPatchMgr'.incremental_patch = gPatchMgr.incremental_patch
  BY <1>2, <1>3, SettingsKept
<1>5. pc.k \in 1 .. 8 /\ pc.i = 1 /\ \A j \in 1 .. pc.k - 1 : target \in Libs => Taken(target, ModuleOrder[j])
  <2>1. pc.k \in 1 .. 8 /\ pc.i = 1
    BY <1>1 DEF ModulesInv
  <2>2. CASE pc.k > 1
    BY <1>1, <2>1, <2>2 DEF ModulesInv
  <2>3. CASE ~(pc.k > 1)
    BY <2>1, <2>3
  <2> QED
    BY <2>1, <2>2, <2>3
<1>6. \A j \in 1 .. 8 : ModuleOrder[j] \in MemSlots
  BY Orders DEF MemSlots, ReleaseSlots, AllocSlots
<1>7. routine.family # "default"
  BY <1>1, <1>2, ConfiguredRoutine DEF Current
<1> HIDE DEF routine
<1>8. /\ \A l \in Libs, s \in MemSlots : Taken(l, s)' <=> Taken(l, s) \/ (l = target /\ s = slot)
      /\ \A l \in Libs, s \in MemSlots :
           slots'[l][s] = IF l = target /\ s = slot THEN routine ELSE slots[l][s]
  <2>1. slot \in MemSlots /\ SlotsFormed /\ routine.family # "default"
    BY <1>5, <1>6, <1>7 DEF Shape
  <2>2. Patched(target, slot, routine)
    BY <1>1
  <2>3. \A l \in Libs, s \in Slots : slots'[l][s] = IF l = target /\ s = slot THEN routine ELSE slots[l][s]
    BY <2>1, <2>2, PatchedSlot
  <2>4. \A l \in Libs, s \in MemSlots : slots'[l][s] = IF l = target /\ s = slot THEN routine ELSE slots[l][s]
    BY <2>3, SlotSets
  <2> QED
    BY <2>1, <2>4 DEF Taken
<1>9. Grows
  BY <1>8 DEF Grows
<1>10. SettledInv' /\ MarksInv' /\ ExposedInv'
  BY <1>1, <1>2, <1>4, <1>9, BehindTheLoop
<1>11. OwnInv'
  <2>1. SUFFICES ASSUME NEW l \in Libs, NEW s \in AllocSlots, Taken(l, s)', NEW r \in ReleasedBy(s)
                 PROVE  Taken(l, r)'
    BY <1>3 DEF OwnInv
  <2>2. r \in MemSlots /\ s \in MemSlots
    BY SlotSets
  <2>3. CASE Taken(l, s)
    BY <1>8, <2>2, <2>3 DEF CoverInv, OwnInv
  <2>4. CASE l = target /\ s = slot
    <3>1. r = slot \/ \E j \in 1 .. pc.k - 1 : ModuleOrder[j] = r
      BY <1>5, <2>4, ReleasedFirst
    <3>2. r = slot \/ Taken(target, r)
      BY <1>5, <2>4, <3>1
    <3> QED
      BY <1>8, <2>1, <2>2, <2>4, <3>2
  <2> QED
    BY <1>8, <2>1, <2>2, <2>3, <2>4
<1>12. FreeInv' /\ DlopenInv'
  BY <1>1 DEF At, FreeInv, DlopenInv
<1> QED
  BY <1>10, <1>11, <1>12 DEF CoverInv

LEMMA PatchModuleKeepsCover ==
  ASSUME Shape, Shape', CoverInv, ModulesInv, PatchModule, UNCHANGED forgotten
  PROVE  CoverInv'
BY PatchModuleStepKeepsCover DEF IsTarget

LEMMA FinishPatchKeepsCover ==
  ASSUME Shape, Shape', CoverInv, FinishPatch, UNCHANGED forgotten
  PROVE  CoverInv'
<1>1. /\ pc.at = "modules" /\ UNCHANGED <<core, slots, gPatchMgr, mPatchedList>>
      /\ pc' = Idle(pc.by)
  BY DEF FinishPatch, Return
<1>2. Started /\ Started' /\ Enlarges(gPatchMgr', gPatchMgr) /\ (Catching' <=> Catching)
  BY <1>1, SameSettings
<1>3. Grows /\ OwnInv'
  BY <1>1, OwnKept DEF CoverInv, SameSlots
<1>4. SettledInv' /\ MarksInv' /\ ExposedInv'
  BY <1>1, <1>2, <1>3, BehindTheLoop
<1>5. FreeInv' /\ DlopenInv'
  BY <1>1, IdleFormed DEF FreeInv, DlopenInv
<1> QED
  BY <1>3, <1>4, <1>5 DEF CoverInv

\* The loop over all modules does not return.
LEMMA FreeGoesOn ==
  ASSUME Shape, CoverInv, PatchCatchAllFree
  PROVE  pc'.at # "idle"
<1>1. pc.at = "free" /\ PcFormed(pc) /\ Len(core) \in Nat
  BY DEF PatchCatchAllFree, Shape, CoreFormed
<1>2. AfterFree \in {"dlopen", "check"} /\ AfterFree \in Places
  BY DEF AfterFree, Places
<1>3. Advance(AfterFree) \/ pc' = [pc EXCEPT !.k = @ + 1]
  BY DEF PatchCatchAllFree, PatchNext
<1> QED
  BY <1>1, <1>2, <1>3, AdvanceMoves, NextSlotMoves DEF At

LEMMA StepKeepsCover ==
  ASSUME Shape, Shape', CoverInv, ModulesInv, [Next]_vars
  PROVE  CoverInv'
<1>1. CASE StartAccuTrak
  BY <1>1, StartKeepsCover
<1>2. CASE PatchMemRoutines
  BY <1>2, PatchMemRoutinesKeepsCover
<1>3. CASE Load
  BY <1>3, LoadKeepsCover
<1>4. CASE Unload
  BY <1>4, UnloadKeepsCover
<1>5. CASE PatchGoesOn
  <2>1. PatchStep /\ UNCHANGED <<config, forgotten>>
    BY <1>5 DEF PatchGoesOn
  <2>2. CASE PatchCatchAllFree
    <3>1. UNCHANGED unseen
      BY <1>5, <2>2, FreeGoesOn DEF PatchGoesOn
    <3> QED
      BY <2>1, <2>2, <3>1, FreeKeepsCover
  <2> QED
    BY <2>1, <2>2, DlopenKeepsCover, CheckNewModulesKeepsCover, SkipModuleKeepsCover,
       PatchModuleKeepsCover, FinishPatchKeepsCover DEF PatchStep
<1>6. CASE UNCHANGED vars
  BY <1>6 DEF vars, patchVars, appVars, CoverInv, OwnInv, FreeInv, DlopenInv, SettledInv,
     MarksInv, ExposedInv, Making, Started, Catching, Taken, Covered, Settled, Behind, Exposed, InLinkMap, Due, Current, NameInCore, TargetOf
<1> QED
  BY <1>1, <1>2, <1>3, <1>4, <1>5, <1>6 DEF Next

LEMMA CoverInvariant == Spec => []CoverInv
<1>1. Init => CoverInv
  BY CoverInitially
<1>2. Shape /\ Shape' /\ CoverInv /\ ModulesInv /\ [Next]_vars => CoverInv'
  BY StepKeepsCover
<1> QED
  BY <1>1, <1>2, ShapeInvariant, ModulesInvariant, PTL DEF Spec

-------------------------------------------------------------------------------
(* The entries of the settings *)

\* The number of the module at i, in a record mode routine.
NumberOf(i) == IF i - 1 >= MaxModulesToRecord THEN MaxModulesToRecord - 1 ELSE i - 1

NumberedAt(s, i) ==
  LET r == s.mModules[i].routines
  IN  r.family = "record" => s.mMode = "record" /\ r.index = NumberOf(i)

NewAt(s, i) == ~s.mModules[i].mPatched /\ NumberedAt(s, i)

\* Nothing has been patched yet.
Fresh(s) == \A i \in 1 .. Len(s.mModules) : NewAt(s, i)

\* t is s with new modules behind those there are.
Prolongs(t, s) ==
  /\ Formed(t) /\ t.mMode = s.mMode
  /\ Len(s.mModules) <= Len(t.mModules)
  /\ \A i \in 1 .. Len(s.mModules) : t.mModules[i] = s.mModules[i]
  /\ \A i \in 1 .. Len(t.mModules) : i <= Len(s.mModules) \/ NewAt(t, i)

LEMMA FormedModules ==
  ASSUME NEW s, Formed(s)
  PROVE  /\ s.mModules \in Seq(Entries) /\ Len(s.mModules) \in Nat
         /\ DOMAIN s.mModules = 1 .. Len(s.mModules)
         /\ \A i \in 1 .. Len(s.mModules) : s.mModules[i] \in Entries
BY DEF Formed

LEMMA ProlongsIsReflexive ==
  ASSUME NEW s, Formed(s)
  PROVE  Prolongs(s, s)
BY FormedModules DEF Prolongs

LEMMA ProlongsIsTransitive ==
  ASSUME NEW r, NEW s, NEW t, Formed(r), Prolongs(s, r), Prolongs(t, s)
  PROVE  Prolongs(t, r)
<1>1. Formed(s) /\ Formed(t) /\ t.mMode = r.mMode /\ s.mMode = t.mMode
  BY DEF Prolongs
<1>2. Len(r.mModules) \in Nat /\ Len(s.mModules) \in Nat /\ Len(t.mModules) \in Nat
  BY <1>1, FormedModules
<1>3. Len(r.mModules) <= Len(s.mModules) /\ Len(s.mModules) <= Len(t.mModules)
  BY DEF Prolongs
<1>4. ASSUME NEW i \in 1 .. Len(r.mModules) PROVE t.mModules[i] = r.mModules[i]
  <2>1. i \in 1 .. Len(s.mModules)
    BY <1>2, <1>3
  <2> QED
    BY <2>1 DEF Prolongs
<1>5. ASSUME NEW i \in 1 .. Len(t.mModules), ~(i <= Len(r.mModules)) PROVE NewAt(t, i)
  <2>1. CASE i <= Len(s.mModules)
    <3>1. i \in 1 .. Len(s.mModules)
      BY <1>2, <2>1
    <3>2. NewAt(s, i) /\ t.mModules[i] = s.mModules[i]
      BY <1>5, <3>1 DEF Prolongs
    <3> QED
      BY <1>1, <3>2 DEF NewAt, NumberedAt
  <2>2. CASE ~(i <= Len(s.mModules))
    BY <2>2 DEF Prolongs
  <2> QED
    BY <2>1, <2>2
<1> QED
  BY <1>1, <1>2, <1>3, <1>4, <1>5 DEF Prolongs

LEMMA ProlongedIsFresh ==
  ASSUME NEW s, Formed(s), NEW t, Prolongs(t, s), Fresh(s)
  PROVE  Fresh(t)
<1>1. ASSUME NEW i \in 1 .. Len(t.mModules) PROVE NewAt(t, i)
  <2>1. CASE i <= Len(s.mModules)
    <3>1. i \in 1 .. Len(s.mModules)
      BY <2>1, FormedModules DEF Prolongs
    <3>2. NewAt(s, i) /\ t.mModules[i] = s.mModules[i] /\ t.mMode = s.mMode
      BY <3>1 DEF Prolongs, Fresh
    <3> QED
      BY <3>2 DEF NewAt, NumberedAt
  <2>2. CASE ~(i <= Len(s.mModules))
    BY <2>2 DEF Prolongs
  <2> QED
    BY <2>1, <2>2
<1> QED
  BY <1>1 DEF Fresh

LEMMA ProlongedLists ==
  ASSUME NEW s, Formed(s), NEW t, Prolongs(t, s), NEW name, Listed(s, name)
  PROVE  Listed(t, name)
<1>1. PICK i \in 1 .. Len(s.mModules) : s.mModules[i].mModuleName = name
  BY FormedModules DEF Listed
<1>2. i \in DOMAIN t.mModules
  BY FormedModules DEF Prolongs
<1>3. t.mModules[i] = s.mModules[i]
  BY DEF Prolongs
<1> QED
  BY <1>1, <1>2, <1>3 DEF Listed

\* A record mode routine carries the number of its module.
LEMMA RoutinesNumbered ==
  ASSUME NEW mode, NEW i \in Nat \ {0}, Routines(mode, i - 1).family = "record"
  PROVE  mode = "record" /\ Routines(mode, i - 1).index = NumberOf(i)
<1>1. CASE mode \in Modes
  BY <1>1 DEF Routines, NumberOf
<1>2. CASE mode \notin Modes
  BY <1>2 DEF Routines, NoRoutines
<1> QED
  BY <1>1, <1>2

\* The name a module is listed by.
ListedName(name) == IF name = "exec" THEN BaseName[Exec] ELSE name

LEMMA AddModuleProlongs ==
  ASSUME NEW s, Formed(s), NEW name \in STRING
  PROVE  /\ Prolongs(AddModule(s, name), s)
         /\ Listed(AddModule(s, name), name) \/ Listed(AddModule(s, name), ListedName(name))
<1> DEFINE m == s.mModules
           e == [mModuleName |-> ListedName(name),
                 routines |-> Routines(s.mMode, Len(m)), mPatched |-> FALSE]
           t == [s EXCEPT !.mModules = Append(m, e)]
<1>1. m \in Seq(Entries) /\ Len(m) \in Nat /\ DOMAIN s = Fields
  BY DEF Formed
<1>2. CASE Listed(s, name)
  BY <1>2, ProlongsIsReflexive DEF AddModule
<1>3. CASE ~Listed(s, name)
  <2>1. AddModule(s, name) = t
    BY <1>3 DEF AddModule, ListedName
  <2>2. Formed(AddModule(s, name))
    BY AddModuleEnlarges DEF Enlarges
  <2>3. /\ e.mModuleName = ListedName(name) /\ e.routines = Routines(s.mMode, Len(m))
        /\ e.mPatched = FALSE
    OBVIOUS
  <2>4. t.mModules = Append(m, e) /\ t.mMode = s.mMode
    <3> HIDE DEF m, e
    <3> QED BY <1>1 DEF Fields
  <2>5. /\ Len(Append(m, e)) = Len(m) + 1 /\ DOMAIN Append(m, e) = 1 .. Len(m) + 1
        /\ \A i \in 1 .. Len(m) : Append(m, e)[i] = m[i]
        /\ Append(m, e)[Len(m) + 1] = e
    <3> HIDE DEF m, e
    <3> QED BY <1>1
  <2> HIDE DEF t, e
  <2>6. NewAt(t, Len(m) + 1)
    <3>1. Len(m) + 1 \in Nat \ {0} /\ (Len(m) + 1) - 1 = Len(m)
      BY <1>1
    <3>2. t.mModules[Len(m) + 1] = e
      BY <2>4, <2>5
    <3>3. e.routines.family = "record" => s.mMode = "record" /\ e.routines.index = NumberOf(Len(m) + 1)
      BY <2>3, <3>1, RoutinesNumbered
    <3> QED
      BY <2>3, <2>4, <3>2, <3>3 DEF NewAt, NumberedAt
  <2>7. ASSUME NEW i \in 1 .. Len(m) + 1 PROVE i <= Len(m) \/ i = Len(m) + 1
    BY <1>1
  <2>8. Prolongs(t, s)
    BY <1>1, <2>1, <2>2, <2>4, <2>5, <2>6, <2>7 DEF Prolongs
  <2>9. Listed(t, ListedName(name))
    BY <1>1, <2>3, <2>4, <2>5 DEF Listed
  <2> QED
    BY <2>1, <2>8, <2>9
<1> QED
  BY <1>2, <1>3

LEMMA AddModulesProlongs ==
  ASSUME NEW s, Formed(s), NEW names \in Seq(STRING)
  PROVE  Prolongs(AddModules(s, names), s)
<1> DEFINE n == Len(names)
<1>0. n \in Nat /\ \A i \in 1 .. n : names[i] \in STRING
  OBVIOUS
<1>1. PICK f : /\ f[0] = s /\ AddModules(s, names) = f[n]
               /\ \A k \in 0 .. n - 1 : f[k + 1] = AddModule(f[k], names[k + 1])
  BY AddedOneByOne
<1> DEFINE P == {k \in 0 .. n : Prolongs(f[k], s)}
<1> HIDE DEF n
<1>2. 0 \in P
  BY <1>0, <1>1, ProlongsIsReflexive
<1>3. ASSUME NEW k \in 0 .. n - 1, k \in P PROVE k + 1 \in P
  <2>1. f[k + 1] = AddModule(f[k], names[k + 1]) /\ names[k + 1] \in STRING
    BY <1>0, <1>1
  <2>2. Prolongs(f[k], s) /\ Formed(f[k])
    BY <1>3 DEF Prolongs
  <2>3. Prolongs(f[k + 1], f[k])
    BY <2>1, <2>2, AddModuleProlongs
  <2>4. Prolongs(f[k + 1], s)
    BY <2>2, <2>3, ProlongsIsTransitive
  <2> QED
    BY <1>0, <2>4
<1>4. 0 .. n \subseteq P
  <2> HIDE DEF P
  <2> QED BY <1>0, <1>2, <1>3, Log!IntervalInduction
<1> QED
  BY <1>0, <1>1, <1>4

\* No module but the executable has the name that stands for it.
NoneCalledExec == \A l \in Libs \ {Exec} : BaseName[l] # "exec"

\* The modules of the application that the settings list.
AllListed(s, modules) ==
  \A j \in 1 .. Len(modules) : Kind[modules[j]] = "user" => Listed(s, BaseName[modules[j]])

LEMMA AddAllProlongs ==
  ASSUME NEW s, Formed(s), NEW modules \in Seq(Libs)
  PROVE  LET t == AddAllModulesInCore(s, modules)
         IN  Prolongs(t, s) /\ (NoneCalledExec => AllListed(t, modules))
<1> DEFINE n == Len(modules)
<1>0. n \in Nat /\ \A i \in 1 .. n : modules[i] \in Libs /\ BaseName[modules[i]] \in STRING
  BY ConfigAssumption
<1>1. PICK f : /\ f[0] = s /\ AddAllModulesInCore(s, modules) = f[n]
               /\ \A k \in 0 .. n - 1 : f[k + 1] = AddModuleInCore(f[k], modules[k + 1])
  BY AllAddedOneByOne
<1> DEFINE Have(k) == \A j \in 1 .. k : Kind[modules[j]] = "user" => Listed(f[k], BaseName[modules[j]])
           P == {k \in 0 .. n : Prolongs(f[k], s) /\ (NoneCalledExec => Have(k))}
<1> HIDE DEF n
<1>2. 0 \in P
  BY <1>0, <1>1, ProlongsIsReflexive
<1>3. ASSUME NEW k \in 0 .. n - 1, k \in P PROVE k + 1 \in P
  <2> DEFINE l == modules[k + 1]
  <2>1. f[k + 1] = AddModuleInCore(f[k], l) /\ BaseName[l] \in STRING /\ l \in Libs
    BY <1>0, <1>1
  <2>2. Prolongs(f[k], s) /\ Formed(f[k])
    BY <1>3 DEF Prolongs
  <2> HIDE DEF l
  <2>3. /\ Prolongs(f[k + 1], f[k])
        /\ NoneCalledExec /\ Kind[l] = "user" => Listed(f[k + 1], BaseName[l])
    <3>1. CASE Kind[l] = "user"
      <4>1. f[k + 1] = AddModule(f[k], BaseName[l])
        BY <2>1, <3>1 DEF AddModuleInCore
      <4>2. /\ Prolongs(f[k + 1], f[k])
            /\ Listed(f[k + 1], BaseName[l]) \/ Listed(f[k + 1], ListedName(BaseName[l]))
        BY <2>1, <2>2, <4>1, AddModuleProlongs
      <4>3. NoneCalledExec => ListedName(BaseName[l]) = BaseName[l]
        BY <2>1 DEF ListedName, NoneCalledExec
      <4> QED
        BY <4>2, <4>3
    <3>2. CASE Kind[l] # "user"
      BY <2>1, <2>2, <3>2, ProlongsIsReflexive DEF AddModuleInCore
    <3> QED
      BY <3>1, <3>2
  <2>4. Prolongs(f[k + 1], s)
    BY <2>2, <2>3, ProlongsIsTransitive
  <2>5. ASSUME NoneCalledExec, NEW j \in 1 .. k + 1, Kind[modules[j]] = "user"
        PROVE  Listed(f[k + 1], BaseName[modules[j]])
    <3>1. CASE j = k + 1
      BY <2>3, <2>5, <3>1 DEF l
    <3>2. CASE j # k + 1
      <4>1. j \in 1 .. k
        BY <1>0, <3>2
      <4>2. Listed(f[k], BaseName[modules[j]])
        BY <1>3, <2>5, <4>1
      <4> QED
        BY <2>2, <2>3, <4>2, ProlongedLists
    <3> QED
      BY <3>1, <3>2
  <2>6. NoneCalledExec => Have(k + 1)
    BY <2>5
  <2> HIDE DEF Have
  <2> QED
    BY <1>0, <2>4, <2>6
<1>4. 0 .. n \subseteq P
  <2>1. n \in Nat
    BY <1>0
  <2> HIDE DEF P, Have
  <2> QED BY <1>2, <1>3, <2>1, Log!IntervalInduction
<1>5. n \in P
  BY <1>0, <1>4
<1> QED
  BY <1>1, <1>5 DEF AllListed, n

-------------------------------------------------------------------------------
(* The lines of the file *)

LEMMA ParseLineIsFresh ==
  ASSUME NEW s, Formed(s), Sane(s), Fresh(s), NEW line \in Lines
  PROVE  Fresh(ParseLine(s, line))
<1> DEFINE t == ParseLine(s, line)
<1>1. /\ line.key # "modules" => t.mModules = s.mModules
      /\ line.key # "mode" => t.mMode = s.mMode
  BY ParseLineIsSane
<1> HIDE DEF t
<1>2. CASE line.key \notin {"modules", "mode"}
  <2>1. t.mModules = s.mModules /\ t.mMode = s.mMode
    BY <1>1, <1>2
  <2> QED
    BY <2>1 DEF Fresh, NewAt, NumberedAt, t
<1>3. CASE line.key = "modules"
  <2>1. t = s \/ t = SetModules(s, line.val)
    BY <1>3 DEF t, ParseLine, Flags
  <2>2. t = s \/ t = AddModules(s, line.val) \/ t = [s EXCEPT !.mPatchAllUserModules = TRUE]
    BY <2>1 DEF SetModules
  <2>3. CASE t = AddModules(s, line.val)
    <3>1. line.val \in Seq(STRING)
      BY <1>3, LineValues
    <3>2. Prolongs(t, s)
      BY <2>3, <3>1, AddModulesProlongs
    <3> QED
      BY <3>2, ProlongedIsFresh DEF t
  <2>4. CASE t = [s EXCEPT !.mPatchAllUserModules = TRUE]
    <3>1. t.mModules = s.mModules /\ t.mMode = s.mMode
      BY <2>4 DEF Formed, Fields
    <3> QED
      BY <3>1 DEF Fresh, NewAt, NumberedAt, t
  <2> QED
    BY <2>2, <2>3, <2>4 DEF t
<1>4. CASE line.key = "mode"
  <2>1. t.mModules = s.mModules
    BY <1>1, <1>4
  <2>2. t = s \/ t = SetMode(s, line.val)
    BY <1>4 DEF t, ParseLine, Flags
  <2>3. t.mMode = s.mMode \/ s.mMode = "deadpage"
    BY <2>2 DEF SetMode, Formed, Fields
  <2>4. ASSUME NEW i \in 1 .. Len(s.mModules) PROVE NewAt(t, i)
    <3>1. NewAt(s, i)
      BY DEF Fresh
    <3> QED
      BY <2>1, <2>3, <3>1 DEF NewAt, NumberedAt
  <2> QED
    BY <2>1, <2>4 DEF Fresh, t
<1> QED
  BY <1>2, <1>3, <1>4

LEMMA ParsedIsFresh ==
  ASSUME NEW file \in Seq(Lines)
  PROVE  Fresh(ParsedUpTo(file)[Len(file)])
<1> DEFINE n == Len(file)
           f == ParsedUpTo(file)
           P == {k \in 0 .. n : Fresh(f[k])}
<1>0. n \in Nat /\ \A k \in 1 .. n : file[k] \in Lines
  OBVIOUS
<1>1. f[0] = DefaultSettings /\ \A k \in 1 .. n : f[k] = ParseLine(f[k - 1], file[k])
  BY ParsedLineByLine
<1>2. \A k \in 0 .. n : Formed(f[k]) /\ Sane(f[k])
  BY ParsedIsSane
<1> HIDE DEF n, f
<1>3. 0 \in P
  <2>1. f[0].mModules = <<>>
    BY <1>1, SaneInitially
  <2>2. Fresh(f[0])
    BY <2>1 DEF Fresh
  <2> QED
    BY <1>0, <2>2
<1>4. ASSUME NEW k \in 0 .. n - 1, k \in P PROVE k + 1 \in P
  <2>1. f[k + 1] = ParseLine(f[k], file[k + 1]) /\ file[k + 1] \in Lines /\ k \in 0 .. n
    BY <1>0, <1>1
  <2>2. Fresh(f[k + 1])
    BY <1>2, <1>4, <2>1, ParseLineIsFresh
  <2> QED
    BY <1>0, <2>2
<1>5. 0 .. n \subseteq P
  <2> HIDE DEF P
  <2> QED BY <1>0, <1>3, <1>4, Log!IntervalInduction
<1> QED
  BY <1>0, <1>5 DEF n, f

LEMMA InstallMissingIsFresh ==
  ASSUME NEW s, Formed(s), Fresh(s), NEW t, t.mMode = s.mMode,
         t.mModules = InstallMissing(s.mMode, s.mModules)
  PROVE  /\ Fresh(t)
         /\ \A name : Listed(s, name) => Listed(t, name)
<1> DEFINE m == s.mModules
           r == t.mModules
           N == Len(m)
<1>0. N \in Nat /\ DOMAIN m = 1 .. N /\ \A i \in 1 .. N : m[i] \in Entries
  BY FormedModules
<1>1. r = [i \in 1 .. N |-> IF m[i].routines = NoRoutines
                            THEN [m[i] EXCEPT !.routines = Routines(s.mMode, i - 1)] ELSE m[i]]
  BY <1>0 DEF InstallMissing
<1>2. Len(r) = N /\ DOMAIN r = 1 .. N
  <2> HIDE DEF N, m, r
  <2> QED BY <1>0, <1>1
<1>3. ASSUME NEW i \in 1 .. N
      PROVE  r[i].mModuleName = m[i].mModuleName /\ NewAt(t, i)
  <2>1. NewAt(s, i)
    BY DEF Fresh
  <2>2. CASE m[i].routines = NoRoutines
    <3> DEFINE e == m[i]
               x == Routines(s.mMode, i - 1)
    <3>1. r[i] = [e EXCEPT !.routines = x]
      BY <1>1, <2>2
    <3>2. e \in Entries
      BY <1>0
    <3>3. x.family = "record" => s.mMode = "record" /\ x.index = NumberOf(i)
      <4>1. i \in Nat \ {0}
        BY <1>0
      <4> QED
        BY <4>1, RoutinesNumbered
    <3>4. ~e.mPatched
      BY <2>1 DEF NewAt
    <3> HIDE DEF e, x
    <3>5. r[i].mModuleName = e.mModuleName /\ r[i].routines = x /\ ~r[i].mPatched
      BY <3>1, <3>2, <3>4 DEF Entries
    <3> QED
      BY <3>3, <3>5 DEF NewAt, NumberedAt, e
  <2>3. CASE m[i].routines # NoRoutines
    <3>1. r[i] = m[i]
      BY <1>1, <2>3
    <3> QED
      BY <2>1, <3>1 DEF NewAt, NumberedAt
  <2> QED
    BY <2>2, <2>3
<1>4. Fresh(t)
  BY <1>2, <1>3 DEF Fresh
<1>5. ASSUME NEW name, Listed(s, name) PROVE Listed(t, name)
  <2>1. PICK i \in 1 .. N : m[i].mModuleName = name
    BY <1>0, <1>5 DEF Listed
  <2> QED
    BY <1>2, <1>3, <2>1 DEF Listed
<1> QED
  BY <1>4, <1>5

\* The settings AccuTrak starts with: nothing is patched, every record mode routine has the
\* number of its module, and with modules=all every module of the application is listed.
LEMMA StartEntries ==
  ASSUME NEW file \in Seq(Lines), NEW modules \in Seq(Libs), ParseConfigFile(file, modules).valid
  PROVE  LET s == ParseConfigFile(file, modules)
         IN  /\ Fresh(s)
             /\ s.mPatchAllUserModules /\ NoneCalledExec => AllListed(s, modules)
<1> DEFINE p == ParsedUpTo(file)[Len(file)]
           s == ParseConfigFile(file, modules)
           all == p.mPatchAllUserModules \/ (p.mModules = <<>> /\ p.mMode \in {"deadpage", "padding"})
           l == IF all THEN AddAllModulesInCore(p, modules) ELSE p
           m == InstallMissing(p.mMode, l.mModules)
<1>1. Formed(p) /\ Fresh(p)
  BY ParsedIsSane, ParsedIsFresh
<1>2. s = [l EXCEPT !.mModules = m]
  <2>1. p.valid
    BY DEF ParseConfigFile
  <2> QED
    BY <2>1 DEF ParseConfigFile, CheckConfigOptions
<1> HIDE DEF p
<1>3. Prolongs(l, p) /\ (all /\ NoneCalledExec => AllListed(l, modules))
  <2>1. Prolongs(p, p)
    BY <1>1, ProlongsIsReflexive
  <2>2. LET t == AddAllModulesInCore(p, modules)
        IN  Prolongs(t, p) /\ (NoneCalledExec => AllListed(t, modules))
    BY <1>1, AddAllProlongs
  <2> QED
    BY <2>1, <2>2
<1>4. l.mPatchAllUserModules => all
  <2>1. CASE all
    BY <2>1
  <2>2. CASE ~all
    BY <2>2
  <2> QED
    BY <2>1, <2>2
<1> HIDE DEF s, l, all
<1>5. Formed(l) /\ Fresh(l) /\ l.mMode = p.mMode
  BY <1>1, <1>3, ProlongedIsFresh DEF Prolongs
<1> HIDE DEF m
<1>6. s.mMode = l.mMode /\ s.mModules = m /\ s.mPatchAllUserModules = l.mPatchAllUserModules
  BY <1>2, <1>5 DEF Formed, Fields
<1>7. s.mModules = InstallMissing(l.mMode, l.mModules)
  BY <1>5, <1>6 DEF m
<1>8. Fresh(s) /\ \A name : Listed(l, name) => Listed(s, name)
  BY <1>5, <1>6, <1>7, InstallMissingIsFresh
<1>9. s.mPatchAllUserModules /\ NoneCalledExec => AllListed(s, modules)
  BY <1>3, <1>4, <1>6, <1>8 DEF AllListed
<1> QED
  BY <1>8, <1>9 DEF s

-------------------------------------------------------------------------------
(* The passes of Patch *)

\* Patch is at the configured modules, or has left them to patch dlopen.
Walking == pc.at = "modules" \/ (pc.at = "dlopen" /\ pc.back = "modules")

\* The loops over the link map come first, with a mode that has a free of its own; the patch
\* at the start is the first one.
PassInv ==
  /\ mPatchTried => Started
  /\ pc.at # "idle" /\ ~Walking => pc.back = "check" /\ pc.m = 1
  /\ pc.at = "free" => Catching
  /\ pc.at # "idle" /\ pc.by = "start" => unseen = {} /\ ~mPatchTried

\* No slot is patched back.
TakenGrows == \A l \in Libs, s \in Slots : Taken(l, s) => Taken(l, s)'

\* Where the two loops over the link map lead.
LEMMA LoopMoves ==
  ASSUME Shape, NEW order, NEW routine, NEW mark, NEW after \in Places,
         LoopStep(order, routine, mark, after), routine.family # "default"
  PROVE  /\ pc'.at \in {pc.at, after} /\ pc'.m = pc.m /\ pc'.back = pc.back /\ pc'.by = pc.by
         /\ pc'.rc = pc.rc
         /\ TakenGrows
<1>1. PcFormed(pc) /\ Len(core) \in Nat
  BY DEF Shape, CoreFormed
<1>2. Advance(after) \/ pc' = [pc EXCEPT !.k = @ + 1]
  BY DEF LoopStep, PatchNext
<1>3. pc'.at \in {pc.at, after} /\ pc'.m = pc.m /\ pc'.back = pc.back /\ pc'.by = pc.by
  BY <1>1, <1>2, AdvanceMoves, NextSlotMoves DEF At
<1>4. pc'.rc = pc.rc
  <2>1. \/ pc' = [pc EXCEPT !.i = @ + 1, !.k = 1]
        \/ pc' = [pc EXCEPT !.at = after, !.i = 1, !.k = 1, !.installed = @ \/ pc.at = "dlopen"]
        \/ pc' = [pc EXCEPT !.k = @ + 1]
    BY <1>2 DEF Advance
  <2>2. "rc" \in DOMAIN pc
    BY <1>1 DEF PcFormed, PcFields
  <2> QED
    BY <2>1, <2>2
<1>5. TakenGrows
  <2>1. CASE UNCHANGED slots
    BY <2>1 DEF TakenGrows, Taken
  <2>2. CASE Patched(core[pc.i], order[pc.k], routine)
    BY <2>2, TakenStays DEF TakenGrows, Shape
  <2> QED
    BY <2>1, <2>2 DEF LoopStep, PatchNext
<1> QED
  BY <1>3, <1>4, <1>5

LEMMA FreeMoves ==
  ASSUME Shape, PassInv, PatchCatchAllFree
  PROVE  /\ pc.at = "free" /\ pc'.at \in {"free", "dlopen", "check"} /\ pc'.back = pc.back
         /\ pc'.m = pc.m /\ pc'.by = pc.by /\ pc'.rc = pc.rc /\ TakenGrows
         /\ UNCHANGED <<core, gPatchMgr, mPatchFinished, mPatchTried>>
<1>1. /\ pc.at = "free" /\ AfterFree \in Places \cap {"dlopen", "check"}
      /\ UNCHANGED <<core, gPatchMgr, mPatchFinished, mPatchTried>>
  BY DEF PatchCatchAllFree, AfterFree, Places
<1>2. gPatchMgr.mModules[1].routines.family # "default"
  <2>1. Formed(gPatchMgr) /\ gPatchMgr.mModules # <<>>
    BY <1>1 DEF Shape, SettingsFormed, PassInv, Catching, Catches
  <2>2. 1 \in 1 .. Len(gPatchMgr.mModules)
    BY <2>1 DEF Formed
  <2> QED
    BY <2>1, <2>2, ConfiguredRoutine
<1> QED
  BY <1>1, <1>2, FreeIsLoop, LoopMoves

LEMMA DlopenMoves ==
  ASSUME Shape, PassInv, PatchDlopen
  PROVE  /\ pc.at = "dlopen" /\ pc'.at \in {"dlopen", "check", "modules"} /\ pc'.back = pc.back
         /\ pc'.m = pc.m /\ pc'.by = pc.by /\ pc'.rc = pc.rc /\ TakenGrows
         /\ (Walking' <=> Walking)
         /\ UNCHANGED <<core, gPatchMgr, mPatchFinished, mPatchTried>>
<1>1. pc.at = "dlopen" /\ UNCHANGED <<core, gPatchMgr, mPatchFinished, mPatchTried>>
  BY DEF PatchDlopen
<1>2. pc.back \in {"check", "modules"} /\ pc.back \in Places
  BY <1>1 DEF PassInv, Walking, Places
<1>3. Intercepted.family # "default"
  BY DEF Intercepted
<1>4. /\ pc'.at \in {pc.at, pc.back} /\ pc'.m = pc.m /\ pc'.back = pc.back /\ pc'.by = pc.by
      /\ pc'.rc = pc.rc
      /\ TakenGrows
  BY <1>2, <1>3, DlopenIsLoop, LoopMoves
<1> QED
  BY <1>1, <1>2, <1>4 DEF Walking

LEMMA PassInitially == Init => PassInv
<1> SUFFICES ASSUME Init PROVE PassInv
  OBVIOUS
<1>1. PICK c \in InitialCores : LoadedFirst(c)
  BY DEF Init
<1> QED
  BY <1>1, IdleFormed DEF LoadedFirst, PassInv

LEMMA BegunPass ==
  ASSUME Shape', PassInv, pc.at = "idle", UNCHANGED mPatchTried,
         Started => Started', NEW by, NEW mgr, BeginPatch(mgr, by),
         pc'.at # "idle" => gPatchMgr' = mgr,
         pc'.at # "idle" /\ by = "start" => unseen' = {} /\ ~mPatchTried
  PROVE  PassInv'
<1>1. /\ pc'.m = 1 /\ pc'.by = by /\ pc'.at \in {"idle", "free", "dlopen", "check"}
      /\ pc'.at # "idle" => pc'.back = "check"
      /\ pc'.at = "free" => Catches(mgr)
  BY BeginPatchMoves
<1>2. pc'.at # "idle" => Started'
  BY DEF Shape
<1> QED
  BY <1>1, <1>2 DEF PassInv, Catching

LEMMA PatchKeepsPass ==
  ASSUME Shape, Shape', PassInv, PatchStep, pc'.at # "idle" => UNCHANGED unseen
  PROVE  PassInv'
<1>1. CASE PatchCatchAllFree
  <2>1. pc.back = "check" /\ pc.m = 1 /\ Catching
    BY <1>1 DEF PassInv, PatchCatchAllFree, Walking
  <2>2. (Catching' <=> Catching) /\ (Started' <=> Started)
    BY <1>1 DEF PatchCatchAllFree, Catching, Catches, Started
  <2> QED
    BY <1>1, <2>1, <2>2, FreeMoves DEF PassInv, Walking
<1>2. CASE PatchDlopen
  <2>1. Started' <=> Started
    BY <1>2 DEF PatchDlopen, Started
  <2> QED
    BY <1>2, <2>1, DlopenMoves DEF PassInv
<1>3. CASE CheckNewModules
  <2>1. Started' /\ pc.at = "check" /\ UNCHANGED mPatchTried
    BY <1>3, CheckedSettings, EnlargedSettings, CheckNewModulesCases DEF Shape
  <2>2. pc'.at = "idle" \/ (pc'.at = "modules" /\ pc'.by = pc.by)
    BY <1>3, CheckNewModulesCases, IdleFormed, ToModulesMoves DEF Shape, At
  <2> QED
    BY <2>1, <2>2 DEF PassInv, Walking
<1>4. CASE SkipModule
  <2>1. pc.at = "modules" /\ UNCHANGED <<gPatchMgr, mPatchTried>>
    BY <1>4 DEF SkipModule, MoreModules
  <2>2. /\ pc'.by = pc.by
        /\ pc'.at = "modules" \/ (pc'.at = "dlopen" /\ pc'.back = "modules")
    BY <1>4, SkipModuleMoves DEF At, Shape
  <2> QED
    BY <2>1, <2>2 DEF PassInv, Walking, Started
<1>5. CASE PatchModule
  <2>1. /\ pc.at = "modules" /\ UNCHANGED mPatchTried /\ Started'
        /\ pc'.at = "modules" /\ pc'.by = pc.by
    BY <1>5, PatchModuleCases DEF At, Shape
  <2> QED
    BY <2>1 DEF PassInv, Walking
<1>6. CASE FinishPatch
  <2>1. pc.at = "modules" /\ UNCHANGED gPatchMgr /\ pc'.at = "idle"
    BY <1>6, IdleFormed DEF FinishPatch, Return
  <2> QED
    BY <2>1 DEF PassInv, Shape, Started
<1> QED
  BY <1>1, <1>2, <1>3, <1>4, <1>5, <1>6 DEF PatchStep

LEMMA StepKeepsPass ==
  ASSUME Shape, Shape', PassInv, [Next]_vars
  PROVE  PassInv'
<1>1. CASE StartAccuTrak
  <2> DEFINE s == ParseConfigFile(config, core)
  <2>1. ~Started /\ pc.at = "idle" /\ UNCHANGED mPatchTried
    BY <1>1 DEF StartAccuTrak, Event, Running
  <2>2. CASE s.valid
    <3>1. gPatchMgr' = s /\ BeginPatch(s, "start") /\ unseen' = {}
      BY <1>1, <2>2 DEF StartAccuTrak
    <3> HIDE DEF s
    <3>2. ~mPatchTried
      BY <2>1 DEF PassInv
    <3> QED
      BY <2>1, <3>1, <3>2, BegunPass
  <2>3. CASE ~s.valid
    <3>1. UNCHANGED <<gPatchMgr, pc>>
      BY <1>1, <2>3 DEF StartAccuTrak, StartFailed
    <3> QED
      BY <2>1, <3>1 DEF PassInv, Started
  <2> QED
    BY <2>2, <2>3
<1>2. CASE PatchMemRoutines
  <2>1. pc.at = "idle" /\ UNCHANGED <<gPatchMgr, mPatchTried>> /\ BeginPatch(gPatchMgr, "api")
    BY <1>2 DEF PatchMemRoutines, Event, Running
  <2> QED
    BY <2>1, BegunPass DEF Started
<1>3. CASE Load
  <2>1. /\ pc.at = "idle" /\ UNCHANGED <<gPatchMgr, mPatchTried>>
        /\ BeginPatch(gPatchMgr, "dlopen") \/ UNCHANGED pc
    BY <1>3, LoadCases
  <2>2. CASE BeginPatch(gPatchMgr, "dlopen")
    BY <2>1, <2>2, BegunPass DEF Started
  <2>3. CASE UNCHANGED pc
    BY <2>1, <2>3 DEF PassInv, Started
  <2> QED
    BY <2>1, <2>2, <2>3
<1>4. CASE Unload
  <2>1. pc.at = "idle" /\ UNCHANGED <<gPatchMgr, mPatchTried, pc>>
    BY <1>4 DEF Unload, Dlclose, Running
  <2> QED
    BY <2>1 DEF PassInv, Started
<1>5. CASE PatchGoesOn
  <2>1. PatchStep /\ (pc'.at # "idle" => UNCHANGED unseen)
    BY <1>5 DEF PatchGoesOn
  <2> QED
    BY <2>1, PatchKeepsPass
<1>6. CASE UNCHANGED vars
  BY <1>6 DEF vars, patchVars, appVars, PassInv, Walking, Started, Catching, Catches
<1> QED
  BY <1>1, <1>2, <1>3, <1>4, <1>5, <1>6 DEF Next

LEMMA PassInvariant == Spec => []PassInv
<1>1. Init => PassInv
  BY PassInitially
<1>2. Shape /\ Shape' /\ PassInv /\ [Next]_vars => PassInv'
  BY StepKeepsPass
<1> QED
  BY <1>1, <1>2, ShapeInvariant, PTL DEF Spec

-------------------------------------------------------------------------------
(* AllocationsTracked: its inductive invariant *)

Tracked(l) == \A s \in MemSlots : Taken(l, s)

\* With an incremental patch a module that comes back is not patched again.
DoneWith(l) == Tracked(l) \/ (gPatchMgr.incremental_patch /\ l \in reloaded)

\* l is the configured module at i.
Names(l, i) == Unambiguous(l) /\ BaseName[l] = gPatchMgr.mModules[i].mModuleName

EntriesPatched(n) == \A j \in 1 .. n : gPatchMgr.mModules[j].mPatched

\* A module is marked only when its slots have been patched.
PatchedInv ==
  Started /\ gPatchMgr.incremental_patch =>
    \A i \in 1 .. Len(gPatchMgr.mModules) : gPatchMgr.mModules[i].mPatched =>
      \A l \in Libs : Names(l, i) => Tracked(l) \/ l \in reloaded

\* Nothing is left to patch only when every module is marked.
FinishedInv ==
  Started /\ gPatchMgr.incremental_patch /\ mPatchFinished => EntriesPatched(Len(gPatchMgr.mModules))

\* The configured modules the loop is past are done with.
WalkedInv ==
  Walking =>
    /\ pc.m <= Len(gPatchMgr.mModules) + 1
    /\ \A j \in 1 .. pc.m - 1 : \A l \in InLinkMap : Names(l, j) => DoneWith(l)
    /\ pc.rc /\ gPatchMgr.incremental_patch => EntriesPatched(pc.m - 1)

\* With modules=all every module of the application is listed that has been seen, if none
\* has the name that stands for the executable.
ListedInv ==
  NoneCalledExec /\ Started /\ gPatchMgr.mPatchAllUserModules =>
    \A l \in InLinkMap :
      Kind[l] = "user" /\ (l \notin unseen \/ (mPatchTried /\ Walking)) =>
        Listed(gPatchMgr, BaseName[l])

\* Between patches the modules that are listed are done with.
SeenInv ==
  mPatchTried /\ Running =>
    \A l \in InLinkMap \ unseen :
      Unambiguous(l) /\ Listed(gPatchMgr, BaseName[l]) => DoneWith(l)

TrackInv == PatchedInv /\ FinishedInv /\ WalkedInv /\ ListedInv /\ SeenInv

\* A module whose name is in core is there, and PatchFunction finds it.
LEMMA NamedLoaded ==
  ASSUME CoreFormed, NEW l \in Libs, Unambiguous(l), NameInCore(BaseName[l])
  PROVE  l \in InLinkMap /\ TargetOf(BaseName[l]) = l
<1> DEFINE n == BaseName[l]
           Q(j) == n \in PathContains[core[j]] /\ \A h \in 1 .. j - 1 : n \notin PathContains[core[h]]
<1>0. /\ Len(core) \in Nat /\ DOMAIN core = 1 .. Len(core) /\ 1 \in DOMAIN core /\ core[1] = Exec
      /\ \A j \in DOMAIN core : core[j] \in Libs
  BY DEF CoreFormed
<1>1. /\ \A k \in Libs : BaseName[k] \in PathContains[k]
      /\ PathContains[Exec] = {BaseName[Exec]}
      /\ \A k \in Libs \ {Exec} : BaseName[k] # BaseName[Exec]
  BY PatchAssumption
<1>2. l # Exec => \A k \in Libs : n \in PathContains[k] => k = l
  BY <1>1 DEF Unambiguous
<1>3. PICK i \in DOMAIN core : BaseName[core[i]] = n
  BY DEF NameInCore
<1>4. core[i] = l
  <2>1. CASE l = Exec
    BY <1>0, <1>1, <1>3, <2>1
  <2>2. CASE l # Exec
    BY <1>0, <1>1, <1>2, <1>3, <2>2
  <2> QED
    BY <2>1, <2>2
<1>5. Q(i)
  <2>1. n \in PathContains[core[i]]
    BY <1>1, <1>4
  <2>2. ASSUME NEW h \in 1 .. i - 1, n \in PathContains[core[h]] PROVE FALSE
    <3>1. h \in DOMAIN core /\ h # i
      BY <1>0, <2>2
    <3>2. CASE l = Exec
      BY <1>0, <1>4, <2>2, <3>2 DEF CoreFormed
    <3>3. CASE l # Exec
      <4>1. core[h] = core[i]
        BY <1>0, <1>2, <1>4, <2>2, <3>1, <3>3
      <4> QED
        BY <3>1, <4>1 DEF CoreFormed
    <3> QED
      BY <3>2, <3>3
  <2> QED
    BY <2>1, <2>2
<1> DEFINE c == CHOOSE j \in DOMAIN core : Q(j)
<1>6. c \in DOMAIN core /\ Q(c)
  <2> HIDE DEF Q
  <2> QED BY <1>5
<1>7. TargetOf(n) = core[c]
  BY DEF TargetOf
<1> HIDE DEF c
<1>8. core[c] = l
  <2>1. CASE l # Exec
    BY <1>0, <1>2, <1>6, <2>1
  <2>2. CASE l = Exec
    <3>1. n \in PathContains[core[1]]
      BY <1>0, <1>1, <2>2
    <3>2. 1 \notin 1 .. c - 1
      BY <1>6, <3>1
    <3>3. c = 1
      BY <1>0, <1>6, <3>2
    <3> QED
      BY <1>0, <2>2, <3>3
  <2> QED
    BY <2>1, <2>2
<1> QED
  BY <1>4, <1>7, <1>8 DEF InLinkMap

LEMMA DoneWithGrows ==
  ASSUME TakenGrows, UNCHANGED reloaded, NEW l \in Libs
  PROVE  /\ Tracked(l) => Tracked(l)'
         /\ gPatchMgr'.incremental_patch = gPatchMgr.incremental_patch /\ DoneWith(l) => DoneWith(l)'
<1>1. \A s \in MemSlots : s \in Slots
  BY SlotSets
<1>2. Tracked(l) => Tracked(l)'
  BY <1>1 DEF TakenGrows, Tracked
<1> QED
  BY <1>2 DEF DoneWith

LEMMA TrackInitially == Init => TrackInv
<1> SUFFICES ASSUME Init PROVE TrackInv
  OBVIOUS
<1>1. PICK c \in InitialCores : LoadedFirst(c)
  BY DEF Init
<1>2. ~Started /\ pc.at = "idle" /\ ~mPatchTried
  BY <1>1, IdleFormed DEF LoadedFirst, Started
<1> QED
  BY <1>2 DEF TrackInv, PatchedInv, FinishedInv, WalkedInv, ListedInv, SeenInv, Walking

LEMMA StartKeepsTrack ==
  ASSUME Shape, Shape', PassInv, TrackInv, StartAccuTrak
  PROVE  TrackInv'
<1> DEFINE s == ParseConfigFile(config, core)
<1>1. /\ UNCHANGED <<core, slots, mPatchTried, config, reloaded>>
      /\ ~Started /\ pc.at = "idle"
  BY DEF StartAccuTrak, Event, Running
<1>2. ~mPatchTried /\ ~mPatchTried'
  BY <1>1 DEF PassInv
<1>3. CASE s.valid
  <2>1. /\ gPatchMgr' = s /\ BeginPatch(s, "start") /\ unseen' = {}
        /\ mPatchFinished' = (s.mModules = <<>>)
    BY <1>3 DEF StartAccuTrak
  <2>2. Fresh(s) /\ (s.mPatchAllUserModules /\ NoneCalledExec => AllListed(s, core))
    <3>1. config \in Seq(Lines) /\ core \in Seq(Libs)
      BY AccuTrakAssumption DEF Shape, CoreFormed
    <3> QED
      BY <1>3, <3>1, StartEntries
  <2> HIDE DEF s
  <2>3. /\ pc'.m = 1 /\ pc'.at \in {"idle", "free", "dlopen", "check"}
        /\ pc'.at # "idle" => pc'.back = "check"
    BY <2>1, BeginPatchMoves
  <2>4. PatchedInv'
    BY <2>1, <2>2 DEF PatchedInv, Fresh, NewAt
  <2>5. FinishedInv'
    <3>1. mPatchFinished' => gPatchMgr'.mModules = <<>>
      BY <2>1
    <3>2. \A j \in 1 .. Len(<< >>) : FALSE
      OBVIOUS
    <3> QED
      BY <3>1, <3>2 DEF FinishedInv, EntriesPatched
  <2>6. ~Walking'
    BY <2>3 DEF Walking
  <2>7. ListedInv'
    <3>1. ASSUME NoneCalledExec, gPatchMgr'.mPatchAllUserModules, NEW l \in InLinkMap', Kind[l] = "user"
          PROVE  Listed(gPatchMgr', BaseName[l])
      <4>1. PICK j \in 1 .. Len(core) : core[j] = l
        BY <1>1, <3>1 DEF InLinkMap, Shape, CoreFormed
      <4> QED
        BY <2>1, <2>2, <3>1, <4>1 DEF AllListed
    <3> QED
      BY <3>1 DEF ListedInv
  <2> QED
    BY <1>2, <2>4, <2>5, <2>6, <2>7 DEF TrackInv, WalkedInv, SeenInv
<1>4. CASE ~s.valid
  <2>1. UNCHANGED <<gPatchMgr, pc>>
    BY <1>4 DEF StartAccuTrak, StartFailed
  <2>2. ~Started' /\ pc'.at = "idle"
    BY <1>1, <2>1 DEF Started
  <2> QED
    BY <1>2, <2>2 DEF TrackInv, PatchedInv, FinishedInv, WalkedInv, ListedInv, SeenInv, Walking
<1> QED
  BY <1>3, <1>4

\* The same slots, settings and modules unloaded.
LEMMA SameTrack ==
  ASSUME UNCHANGED <<slots, gPatchMgr, reloaded>>
  PROVE  /\ PatchedInv => PatchedInv'
         /\ \A l : DoneWith(l)' <=> DoneWith(l)
         /\ Started' <=> Started
BY DEF PatchedInv, DoneWith, Tracked, Taken, Started, Names

\* Patch begins, with a module more or the same ones.
LEMMA BegunTrack ==
  ASSUME Shape, Shape', TrackInv, pc.at = "idle",
         UNCHANGED <<slots, gPatchMgr, mPatchFinished, mPatchTried, reloaded>>,
         NEW by \in {"api", "dlopen"},
         (Started /\ BeginPatch(gPatchMgr, by)) \/ UNCHANGED pc,
         InLinkMap' \ unseen' \subseteq InLinkMap \ unseen
  PROVE  TrackInv'
<1>1. /\ PatchedInv' /\ (\A l : DoneWith(l)' <=> DoneWith(l)) /\ (Started' <=> Started)
  BY SameTrack DEF TrackInv
<1>2. pc'.at # "idle" => pc'.back = "check" /\ pc'.at \in {"free", "dlopen", "check"}
  BY BeginPatchMoves
<1>3. ~Walking'
  BY <1>2 DEF Walking
<1>4. FinishedInv'
  BY <1>1 DEF TrackInv, FinishedInv, EntriesPatched
<1>5. ListedInv'
  BY <1>1, <1>3 DEF TrackInv, ListedInv
<1>6. SeenInv'
  BY <1>1 DEF TrackInv, SeenInv, Running
<1> QED
  BY <1>1, <1>3, <1>4, <1>5, <1>6 DEF TrackInv, WalkedInv

LEMMA LoadKeepsTrack ==
  ASSUME Shape, Shape', TrackInv, Load, UNCHANGED mPatchFinished
  PROVE  TrackInv'
<1>1. PICK lib \in Libs :
           /\ pc.at = "idle" /\ ~InCore(lib) /\ core' = Append(core, lib)
           /\ unseen' = unseen \cup {lib}
           /\ UNCHANGED <<slots, gPatchMgr, mPatchTried, mPatchedList, config, forgotten, reloaded>>
           /\ \/ Started /\ BeginPatch(gPatchMgr, "dlopen")
              \/ UNCHANGED pc
  BY LoadCases
<1>2. InLinkMap' = InLinkMap \cup {lib}
  BY <1>1, Appended DEF Shape
<1>3. InLinkMap' \ unseen' \subseteq InLinkMap \ unseen
  BY <1>1, <1>2
<1> QED
  BY <1>1, <1>3, BegunTrack

LEMMA PatchMemRoutinesKeepsTrack ==
  ASSUME Shape, Shape', TrackInv, PatchMemRoutines
  PROVE  TrackInv'
<1>1. /\ Started /\ BeginPatch(gPatchMgr, "api") /\ pc.at = "idle"
      /\ UNCHANGED <<core, slots, gPatchMgr, mPatchFinished, mPatchTried, reloaded, unseen>>
  BY DEF PatchMemRoutines, Event, Running
<1>2. InLinkMap' \ unseen' \subseteq InLinkMap \ unseen
  BY <1>1 DEF InLinkMap
<1> QED
  BY <1>1, <1>2, BegunTrack

LEMMA UnloadKeepsTrack ==
  ASSUME Shape, Shape', TrackInv, Unload
  PROVE  TrackInv'
<1>1. PICK caller \in Libs, lib \in Closable :
           /\ Dlclose(caller, lib)
           /\ unseen' = unseen \ {lib} /\ reloaded' = reloaded \cup {lib}
  BY DEF Unload
<1>2. lib # Exec /\ lib \in Libs
  BY AccuTrakAssumption
<1>3. InLinkMap' = InLinkMap \ {lib}
  <2>1. PICK i \in DOMAIN core : core[i] = lib /\ core' = RemoveAt(core, i)
    BY <1>1 DEF Dlclose
  <2> QED
    BY <1>2, <2>1, Removed DEF Shape
<1>4. /\ slots' = [slots EXCEPT ![lib] = [s \in Slots |-> Default]]
      /\ UNCHANGED <<gPatchMgr, mPatchFinished, mPatchTried, pc>> /\ pc.at = "idle"
  BY <1>1 DEF Dlclose, Running
<1>5. ASSUME NEW l \in Libs, l # lib
      PROVE  (Tracked(l)' <=> Tracked(l)) /\ (l \in reloaded' <=> l \in reloaded)
  <2>1. slots'[l] = slots[l]
    BY <1>4, <1>5 DEF Shape, SlotsFormed
  <2> QED
    BY <1>1, <1>5, <2>1 DEF Tracked, Taken
<1>6. lib \in reloaded' /\ (Started' <=> Started) /\ ~Walking'
  BY <1>1, <1>4 DEF Started, Walking
<1>7. PatchedInv'
  <2>1. SUFFICES ASSUME Started, gPatchMgr.incremental_patch, NEW i \in 1 .. Len(gPatchMgr.mModules),
                        gPatchMgr.mModules[i].mPatched, NEW l \in Libs, Names(l, i)
                 PROVE  Tracked(l)' \/ l \in reloaded'
    BY <1>4, <1>6 DEF PatchedInv, Names
  <2>2. Tracked(l) \/ l \in reloaded
    BY <2>1 DEF TrackInv, PatchedInv
  <2> QED
    BY <1>5, <1>6, <2>2
<1>8. FinishedInv' /\ WalkedInv'
  BY <1>4, <1>6 DEF TrackInv, FinishedInv, WalkedInv, EntriesPatched
<1>9. \A l \in InLinkMap' : l \in InLinkMap /\ l \in Libs /\ l # lib /\ (l \in unseen' <=> l \in unseen)
  <2>1. \A l \in InLinkMap : l \in Libs
    BY DEF InLinkMap, Shape, CoreFormed
  <2>2. ASSUME NEW l \in InLinkMap' PROVE l \in InLinkMap /\ l # lib
    BY <1>3
  <2>3. \A l \in Libs : l # lib => (l \in unseen' <=> l \in unseen)
    BY <1>1
  <2> QED
    BY <2>1, <2>2, <2>3
<1>10. ListedInv'
  BY <1>4, <1>6, <1>9 DEF TrackInv, ListedInv
<1>11. SeenInv'
  BY <1>4, <1>5, <1>9 DEF TrackInv, SeenInv, Running, DoneWith
<1> QED
  BY <1>7, <1>8, <1>10, <1>11 DEF TrackInv

\* They leave the configured modules alone.
LEMMA LoopKeepsTrack ==
  ASSUME Shape, Shape', TrackInv, pc.at \in {"free", "dlopen"}, pc'.at # "idle",
         Walking' <=> Walking, pc'.m = pc.m, pc'.rc = pc.rc, TakenGrows,
         UNCHANGED <<core, gPatchMgr, mPatchFinished, mPatchTried, reloaded, unseen>>
  PROVE  TrackInv'
<1>1. \A l \in Libs : (Tracked(l) => Tracked(l)') /\ (DoneWith(l) => DoneWith(l)')
  BY DoneWithGrows
<1>2. /\ InLinkMap' = InLinkMap /\ (Started' <=> Started)
      /\ \A l \in InLinkMap : l \in Libs
  BY DEF InLinkMap, Started, Shape, CoreFormed
<1>3. PatchedInv'
  BY <1>1, <1>2 DEF TrackInv, PatchedInv, Names
<1>4. FinishedInv' /\ SeenInv'
  BY <1>2 DEF TrackInv, FinishedInv, SeenInv, Running, EntriesPatched
<1>5. WalkedInv'
  <2>1. CASE Walking
    <3>1. /\ pc.m <= Len(gPatchMgr.mModules) + 1
          /\ \A j \in 1 .. pc.m - 1 : \A l \in InLinkMap : Names(l, j) => DoneWith(l)
          /\ pc.rc /\ gPatchMgr.incremental_patch => EntriesPatched(pc.m - 1)
      BY <2>1 DEF TrackInv, WalkedInv
    <3>2. \A j \in 1 .. pc.m - 1 : \A l \in InLinkMap : Names(l, j) => DoneWith(l)'
      BY <1>1, <1>2, <3>1
    <3>3. (\A l, j : Names(l, j)' <=> Names(l, j)) /\ (\A n : EntriesPatched(n)' <=> EntriesPatched(n))
      BY DEF Names, EntriesPatched
    <3> QED
      BY <1>2, <3>1, <3>2, <3>3 DEF WalkedInv
  <2>2. CASE ~Walking
    BY <2>2 DEF WalkedInv
  <2> QED
    BY <2>1, <2>2
<1>6. ListedInv'
  BY <1>2 DEF TrackInv, ListedInv
<1> QED
  BY <1>3, <1>4, <1>5, <1>6 DEF TrackInv

LEMMA FreeKeepsTrack ==
  ASSUME Shape, Shape', PassInv, TrackInv, PatchCatchAllFree, UNCHANGED reloaded,
         pc'.at # "idle" => UNCHANGED unseen
  PROVE  TrackInv'
<1>1. /\ pc.at = "free" /\ pc'.at \notin {"idle", "modules"} /\ pc'.back = pc.back
      /\ pc'.m = pc.m /\ pc'.rc = pc.rc /\ TakenGrows
      /\ UNCHANGED <<core, gPatchMgr, mPatchFinished, mPatchTried>>
  BY FreeMoves
<1>2. ~Walking /\ ~Walking'
  BY <1>1 DEF PassInv, Walking
<1> QED
  BY <1>1, <1>2, LoopKeepsTrack

LEMMA DlopenKeepsTrack ==
  ASSUME Shape, Shape', PassInv, TrackInv, PatchDlopen, UNCHANGED reloaded,
         pc'.at # "idle" => UNCHANGED unseen
  PROVE  TrackInv'
<1>1. /\ pc.at = "dlopen" /\ pc'.at # "idle" /\ (Walking' <=> Walking)
      /\ pc'.m = pc.m /\ pc'.rc = pc.rc /\ TakenGrows
      /\ UNCHANGED <<core, gPatchMgr, mPatchFinished, mPatchTried>>
  BY DlopenMoves
<1> QED
  BY <1>1, LoopKeepsTrack

\* What CheckNewModules makes of the entries.
LEMMA CheckedEntries ==
  ASSUME Shape, CheckNewModules
  PROVE  /\ Prolongs(gPatchMgr', gPatchMgr)
         /\ gPatchMgr'.incremental_patch = gPatchMgr.incremental_patch
         /\ gPatchMgr'.mPatchAllUserModules = gPatchMgr.mPatchAllUserModules
         /\ mPatchTried /\ gPatchMgr.mPatchAllUserModules /\ NoneCalledExec => AllListed(gPatchMgr', core)
         /\ ~mPatchTried => UNCHANGED gPatchMgr
         /\ mPatchFinished' = Reopened(gPatchMgr')
<1>1. Formed(gPatchMgr) /\ core \in Seq(Libs) /\ Enlarges(gPatchMgr', gPatchMgr)
  BY CheckedSettings DEF Shape, SettingsFormed, CoreFormed
<1>2. /\ gPatchMgr'.incremental_patch = gPatchMgr.incremental_patch
      /\ gPatchMgr'.mPatchAllUserModules = gPatchMgr.mPatchAllUserModules
  BY <1>1 DEF Enlarges, Fields
<1>3. gPatchMgr' = IF mPatchTried /\ gPatchMgr.mPatchAllUserModules
                   THEN AddAllModulesInCore(gPatchMgr, core) ELSE gPatchMgr
  BY DEF CheckNewModules
<1>4. mPatchFinished' = Reopened(gPatchMgr')
  BY <1>3 DEF CheckNewModules
<1>5. LET t == AddAllModulesInCore(gPatchMgr, core)
      IN  Prolongs(t, gPatchMgr) /\ (NoneCalledExec => AllListed(t, core))
  BY <1>1, AddAllProlongs
<1>6. Prolongs(gPatchMgr, gPatchMgr)
  BY <1>1, ProlongsIsReflexive
<1> QED
  BY <1>2, <1>3, <1>4, <1>5, <1>6

LEMMA CheckNewModulesKeepsTrack ==
  ASSUME Shape, Shape', PassInv, TrackInv, CheckNewModules, UNCHANGED reloaded,
         unseen' = IF pc'.at = "idle" THEN StillUnseen ELSE unseen
  PROVE  TrackInv'
<1>1. /\ pc.at = "check" /\ UNCHANGED <<core, slots, mPatchTried>>
      /\ pc' = Idle(pc.by) \/ pc' = [pc EXCEPT !.at = "modules"]
  BY CheckNewModulesCases
<1>2. /\ Started /\ Started' /\ Formed(gPatchMgr) /\ Formed(gPatchMgr')
      /\ pc.back = "check" /\ pc.m = 1
      /\ pc.by = "start" => unseen = {} /\ ~mPatchTried
  <2>1. Started /\ Started' /\ Formed(gPatchMgr) /\ Formed(gPatchMgr')
    BY <1>1, CheckedSettings, EnlargedSettings DEF Shape, SettingsFormed
  <2> QED
    BY <1>1, <2>1 DEF PassInv, Walking
<1>3. /\ Prolongs(gPatchMgr', gPatchMgr)
      /\ gPatchMgr'.incremental_patch = gPatchMgr.incremental_patch
      /\ gPatchMgr'.mPatchAllUserModules = gPatchMgr.mPatchAllUserModules
      /\ mPatchTried /\ gPatchMgr.mPatchAllUserModules /\ NoneCalledExec => AllListed(gPatchMgr', core)
      /\ ~mPatchTried => UNCHANGED gPatchMgr
      /\ mPatchFinished' = Reopened(gPatchMgr')
  BY CheckedEntries
<1>4. \/ pc'.at = "modules" /\ pc'.m = 1 /\ pc'.by = pc.by
      \/ pc'.at = "idle"
  BY <1>1, <1>2, IdleFormed, ToModulesMoves DEF Shape, At
<1>5. InLinkMap' = InLinkMap /\ (\A l \in InLinkMap : l \in Libs)
        /\ \A l : (Tracked(l)' <=> Tracked(l)) /\ (DoneWith(l)' <=> DoneWith(l))
  BY <1>1, <1>3 DEF InLinkMap, Shape, CoreFormed, Tracked, DoneWith, Taken
<1>6. PatchedInv'
  <2>1. SUFFICES ASSUME gPatchMgr.incremental_patch, NEW i \in 1 .. Len(gPatchMgr'.mModules),
                        gPatchMgr'.mModules[i].mPatched, NEW l \in Libs, Names(l, i)'
                 PROVE  Tracked(l) \/ l \in reloaded
    BY <1>3, <1>5 DEF PatchedInv
  <2>2. i <= Len(gPatchMgr.mModules)
    BY <1>3, <2>1 DEF Prolongs, NewAt
  <2>3. i \in 1 .. Len(gPatchMgr.mModules)
    BY <1>2, <2>2, FormedModules
  <2>4. gPatchMgr'.mModules[i] = gPatchMgr.mModules[i]
    BY <1>3, <2>3 DEF Prolongs
  <2>5. gPatchMgr.mModules[i].mPatched /\ Names(l, i)
    BY <2>1, <2>4 DEF Names
  <2> QED
    BY <1>2, <2>1, <2>3, <2>5 DEF TrackInv, PatchedInv
<1>7. gPatchMgr.incremental_patch /\ mPatchFinished' =>
        \A j \in 1 .. Len(gPatchMgr'.mModules) : gPatchMgr'.mModules[j].mPatched
  <2>1. SUFFICES ASSUME gPatchMgr.incremental_patch, mPatchFinished',
                        NEW j \in 1 .. Len(gPatchMgr'.mModules)
                 PROVE  gPatchMgr'.mModules[j].mPatched
    OBVIOUS
  <2>2. mPatchFinished /\ Len(gPatchMgr'.mModules) = Len(gPatchMgr.mModules)
    BY <1>3, <2>1 DEF Reopened
  <2>3. gPatchMgr'.mModules[j] = gPatchMgr.mModules[j]
    BY <1>3, <2>2 DEF Prolongs
  <2> QED
    BY <1>2, <2>1, <2>2, <2>3 DEF TrackInv, FinishedInv, EntriesPatched
<1>8. FinishedInv'
  BY <1>2, <1>3, <1>7 DEF FinishedInv, EntriesPatched
<1>9. WalkedInv'
  <2>1. Len(gPatchMgr'.mModules) \in Nat
    BY <1>2, FormedModules
  <2>2. CASE pc'.at = "modules" /\ pc'.m = 1
    <3>1. \A j \in 1 .. pc'.m - 1 : FALSE
      BY <2>2
    <3> QED
      BY <2>1, <2>2, <3>1 DEF WalkedInv, EntriesPatched
  <2>3. CASE pc'.at = "idle"
    BY <2>3 DEF WalkedInv, Walking
  <2> QED
    BY <1>4, <2>2, <2>3
<1>10. ListedInv'
  <2>1. SUFFICES ASSUME NoneCalledExec, gPatchMgr.mPatchAllUserModules, NEW l \in InLinkMap,
                        Kind[l] = "user", l \notin unseen' \/ mPatchTried
                 PROVE  Listed(gPatchMgr', BaseName[l])
    BY <1>1, <1>3, <1>5 DEF ListedInv
  <2>2. CASE mPatchTried
    <3>1. PICK j \in 1 .. Len(core) : core[j] = l
      BY <2>1 DEF InLinkMap, Shape, CoreFormed
    <3> QED
      BY <1>3, <2>1, <2>2, <3>1 DEF AllListed
  <2>3. CASE ~mPatchTried
    <3>1. l \notin unseen
      BY <1>2, <2>1, <2>3 DEF StillUnseen
    <3> QED
      BY <1>2, <1>3, <2>1, <2>3, <3>1 DEF TrackInv, ListedInv
  <2> QED
    BY <2>2, <2>3
<1>11. SeenInv'
  <2>1. SUFFICES ASSUME pc'.at = "idle", NEW l \in InLinkMap, Unambiguous(l), Listed(gPatchMgr', BaseName[l])
                 PROVE  DoneWith(l)
    BY <1>5 DEF SeenInv, Running
  <2>2. Reopened(gPatchMgr') /\ gPatchMgr'.incremental_patch
    <3>1. pc' # [pc EXCEPT !.at = "modules"]
      BY <2>1, ToModulesMoves DEF Shape, At
    <3> QED
      BY <3>1 DEF CheckNewModules
  <2>3. PICK i \in 1 .. Len(gPatchMgr'.mModules) : gPatchMgr'.mModules[i].mModuleName = BaseName[l]
    BY <1>2, <2>1, FormedModules DEF Listed
  <2>4. gPatchMgr'.mModules[i].mPatched
    BY <1>3, <1>7, <2>2
  <2>5. Names(l, i)'
    BY <2>1, <2>3 DEF Names
  <2>6. Tracked(l)' \/ l \in reloaded'
    BY <1>2, <1>5, <1>6, <2>2, <2>4, <2>5 DEF PatchedInv
  <2> QED
    BY <1>3, <1>5, <2>2, <2>6 DEF DoneWith
<1> QED
  BY <1>6, <1>8, <1>9, <1>10, <1>11 DEF TrackInv

LEMMA MarkedIsPatched ==
  ASSUME Formed(gPatchMgr), NEW m \in 1 .. Len(gPatchMgr.mModules),
         gPatchMgr' = [gPatchMgr EXCEPT !.mModules[m].mPatched = TRUE]
  PROVE  gPatchMgr'.mModules[m].mPatched
<1> DEFINE old == gPatchMgr.mModules
           e == old[m]
           marked == [e EXCEPT !.mPatched = TRUE]
           new == [old EXCEPT ![m] = marked]
<1>1. gPatchMgr' = [gPatchMgr EXCEPT !.mModules = [gPatchMgr.mModules EXCEPT
                                     ![m] = [gPatchMgr.mModules[m] EXCEPT !.mPatched = TRUE]]]
  BY Zenon
<1>2. gPatchMgr' = [gPatchMgr EXCEPT !.mModules = new]
  BY <1>1
<1>3. e \in Entries /\ m \in DOMAIN old /\ "mModules" \in DOMAIN gPatchMgr
  BY FormedModules DEF Formed, Fields
<1> HIDE DEF e
<1>4. marked.mPatched
  BY <1>3 DEF Entries
<1> HIDE DEF marked
<1>5. new[m] = marked
  BY <1>3
<1> HIDE DEF new
<1>6. gPatchMgr'.mModules = new
  BY <1>2, <1>3
<1> QED
  BY <1>4, <1>5, <1>6

LEMMA SkipModuleReturns ==
  ASSUME PcFormed(pc), SkipModule
  PROVE  pc'.rc => pc.rc /\ ~Due
<1>1. "rc" \in DOMAIN pc
  BY DEF PcFormed, PcFields
<1>2. CASE pc' = [pc EXCEPT !.m = @ + 1, !.rc = FALSE, !.at = "dlopen", !.back = "modules"]
  BY <1>1, <1>2
<1>3. CASE pc' = [pc EXCEPT !.m = @ + 1, !.rc = @ /\ ~Due]
  <2>1. pc'.rc = (pc.rc /\ ~Due)
    BY <1>1, <1>3
  <2> QED
    BY <2>1
<1> QED
  BY <1>2, <1>3 DEF SkipModule

LEMMA SkipModuleKeepsTrack ==
  ASSUME Shape, Shape', TrackInv, SkipModule, UNCHANGED reloaded,
         pc'.at # "idle" => UNCHANGED unseen
  PROVE  TrackInv'
<1>1. /\ pc.at = "modules" /\ pc.m <= Len(gPatchMgr.mModules)
      /\ UNCHANGED <<core, slots, gPatchMgr, mPatchFinished, mPatchTried>>
      /\ ~Due \/ ~NameInCore(Current.mModuleName)
  BY DEF SkipModule, MoreModules
<1>2. /\ Started /\ Formed(gPatchMgr) /\ pc.m \in Nat \ {0} /\ Len(gPatchMgr.mModules) \in Nat
      /\ pc.m \in 1 .. Len(gPatchMgr.mModules) /\ PcFormed(pc)
  BY <1>1, FormedModules DEF Shape, SettingsFormed, PcFormed
<1>3. /\ pc'.m = pc.m + 1 /\ pc'.by = pc.by
      /\ pc'.at = "modules" \/ (pc'.at = "dlopen" /\ pc'.back = "modules")
  BY <1>2, SkipModuleMoves DEF At
<1>4. pc'.rc => pc.rc /\ ~Due
  BY <1>2, SkipModuleReturns
<1>5. Walking /\ Walking' /\ UNCHANGED unseen
  BY <1>1, <1>3 DEF Walking
<1>6. /\ PatchedInv' /\ (\A l : DoneWith(l)' <=> DoneWith(l)) /\ (Started' <=> Started)
  BY <1>1, SameTrack DEF TrackInv
<1>7. FinishedInv' /\ SeenInv' /\ ListedInv'
  <2>1. InLinkMap' = InLinkMap
    BY <1>1 DEF InLinkMap
  <2>2. FinishedInv' /\ SeenInv'
    BY <1>1, <1>3, <1>6 DEF TrackInv, FinishedInv, SeenInv, Running, EntriesPatched
  <2>3. ListedInv'
    BY <1>1, <1>5, <1>6, <2>1 DEF TrackInv, ListedInv
  <2> QED
    BY <2>2, <2>3
<1>8. ASSUME NEW l \in InLinkMap, Names(l, pc.m) PROVE DoneWith(l)
  <2>1. l \in Libs
    BY DEF InLinkMap, Shape, CoreFormed
  <2>2. CASE ~Due
    <3>1. gPatchMgr.mModules[pc.m].mPatched /\ gPatchMgr.incremental_patch
      BY <2>2 DEF Due, Current
    <3> QED
      BY <1>2, <1>8, <2>1, <3>1 DEF TrackInv, PatchedInv, DoneWith
  <2>3. CASE ~NameInCore(Current.mModuleName)
    BY <1>8, <2>3 DEF InLinkMap, NameInCore, Names, Current
  <2> QED
    BY <1>1, <2>2, <2>3
<1>9. WalkedInv'
  <2>1. /\ \A j \in 1 .. pc.m - 1 : \A l \in InLinkMap : Names(l, j) => DoneWith(l)
        /\ pc.rc /\ gPatchMgr.incremental_patch => EntriesPatched(pc.m - 1)
    BY <1>5 DEF TrackInv, WalkedInv
  <2>2. \A j \in 1 .. pc'.m - 1 : j \in 1 .. pc.m - 1 \/ j = pc.m
    BY <1>2, <1>3
  <2>3. ASSUME NEW j \in 1 .. pc'.m - 1, NEW l \in InLinkMap, Names(l, j) PROVE DoneWith(l)
    BY <1>8, <2>1, <2>2, <2>3
  <2>4. ASSUME pc'.rc, gPatchMgr.incremental_patch, NEW j \in 1 .. pc'.m - 1
        PROVE  gPatchMgr.mModules[j].mPatched
    <3>1. pc.rc /\ ~Due
      BY <1>4, <2>4
    <3> QED
      BY <2>1, <2>2, <2>4, <3>1 DEF EntriesPatched, Due, Current
  <2>5. pc'.m <= Len(gPatchMgr'.mModules) + 1
    BY <1>1, <1>2, <1>3
  <2>6. \A j \in 1 .. pc'.m - 1 : \A l \in InLinkMap' : Names(l, j)' => DoneWith(l)'
    BY <1>1, <1>6, <2>3 DEF InLinkMap, Names
  <2> QED
    BY <1>1, <2>4, <2>5, <2>6 DEF WalkedInv, EntriesPatched
<1> QED
  BY <1>6, <1>7, <1>9 DEF TrackInv

\* The module whose name the loop is at is the one that is patched.
LEMMA CurrentTarget ==
  ASSUME CoreFormed, NEW l \in Libs, Names(l, pc.m), NameInCore(Current.mModuleName)
  PROVE  l \in InLinkMap /\ IsTarget(l)
<1>1. BaseName[l] = Current.mModuleName /\ Unambiguous(l)
  BY DEF Names, Current
<1> QED
  BY <1>1, NamedLoaded DEF IsTarget

\* After the last slot every slot of the module leads to a routine of AccuTrak.
LEMMA PatchModuleCompletes ==
  ASSUME Shape, ModulesInv, PatchModule, ~(pc.k < 8), NEW l \in Libs, IsTarget(l)
  PROVE  Tracked(l)'
<1>1. /\ pc.at = "modules" /\ pc.m \in 1 .. Len(gPatchMgr.mModules)
      /\ Patched(l, ModuleOrder[pc.k], Current.routines)
  BY PatchModuleCases DEF IsTarget
<1>2. pc.k = 8 /\ \A j \in 1 .. 7 : Taken(l, ModuleOrder[j])
  <2>1. pc.k \in 1 .. 8
    BY <1>1 DEF ModulesInv
  <2>2. pc.k = 8 /\ pc.k > 1 /\ pc.k - 1 = 7
    BY <2>1
  <2> QED
    BY <1>1, <2>2 DEF ModulesInv, IsTarget
<1>3. Current.routines.family # "default"
  BY <1>1, ConfiguredRoutine DEF Current, Shape, SettingsFormed
<1>4. \A s \in Slots : slots'[l][s] = IF s = ModuleOrder[8] THEN Current.routines ELSE slots[l][s]
  BY <1>1, <1>2, PatchedSlot DEF Shape
<1>5. \A j \in 1 .. 8 : ModuleOrder[j] \in Slots
  BY Orders DEF Slots, ReleaseSlots, AllocSlots
<1>6. ASSUME NEW j \in 1 .. 8 PROVE Taken(l, ModuleOrder[j])'
  <2>1. CASE ModuleOrder[j] = ModuleOrder[8]
    <3>1. slots'[l][ModuleOrder[j]] = Current.routines
      BY <1>4, <1>5, <2>1
    <3> QED
      BY <1>3, <3>1 DEF Taken
  <2>2. CASE ModuleOrder[j] # ModuleOrder[8]
    <3>1. j \in 1 .. 7
      BY <2>2
    <3>2. slots'[l][ModuleOrder[j]] = slots[l][ModuleOrder[j]]
      BY <1>4, <1>5, <2>2
    <3> QED
      BY <1>2, <3>1, <3>2 DEF Taken
  <2> QED
    BY <2>1, <2>2
<1>7. \A s \in MemSlots : \E j \in 1 .. 8 : s = ModuleOrder[j]
  <2>1. /\ "free" = ModuleOrder[1] /\ "realloc" = ModuleOrder[2] /\ "calloc" = ModuleOrder[3]
        /\ "malloc" = ModuleOrder[4] /\ "delete" = ModuleOrder[5] /\ "delete[]" = ModuleOrder[6]
        /\ "new" = ModuleOrder[7] /\ "new[]" = ModuleOrder[8]
    BY Orders
  <2>2. /\ 1 \in 1 .. 8 /\ 2 \in 1 .. 8 /\ 3 \in 1 .. 8 /\ 4 \in 1 .. 8
        /\ 5 \in 1 .. 8 /\ 6 \in 1 .. 8 /\ 7 \in 1 .. 8 /\ 8 \in 1 .. 8
    OBVIOUS
  <2> QED
    BY <2>1, <2>2 DEF MemSlots, ReleaseSlots, AllocSlots
<1>8. \A s \in MemSlots : Taken(l, s)'
  <2>1. SUFFICES ASSUME NEW s \in MemSlots PROVE Taken(l, s)'
    OBVIOUS
  <2>2. PICK j \in 1 .. 8 : s = ModuleOrder[j]
    BY <1>7
  <2> QED
    BY <1>6, <2>2
<1> QED
  BY <1>8 DEF Tracked

LEMMA PatchModuleKeepsTrack ==
  ASSUME Shape, Shape', ModulesInv, TrackInv, PatchModule, UNCHANGED reloaded,
         pc'.at # "idle" => UNCHANGED unseen
  PROVE  TrackInv'
<1> DEFINE n == Len(gPatchMgr.mModules)
<1>1. /\ pc.at = "modules" /\ pc.m \in 1 .. n
      /\ Due /\ NameInCore(Current.mModuleName)
      /\ Patched(TargetOf(Current.mModuleName), ModuleOrder[pc.k], Current.routines)
      /\ UNCHANGED <<core, mPatchFinished, mPatchTried, mPatchedList>>
      /\ \/ pc.k < 8 /\ At(pc', "modules", pc.i, pc.k + 1, pc.m, pc.back) /\ UNCHANGED gPatchMgr
         \/ /\ ~(pc.k < 8) /\ At(pc', "modules", pc.i, 1, pc.m + 1, pc.back)
            /\ gPatchMgr' = [gPatchMgr EXCEPT !.mModules[pc.m].mPatched = TRUE]
  BY PatchModuleCases
<1>2. /\ Started /\ Started' /\ Formed(gPatchMgr) /\ Formed(gPatchMgr') /\ n \in Nat
      /\ Enlarges(gPatchMgr', gPatchMgr)
      /\ Len(gPatchMgr'.mModules) = n
      /\ \A i \in 1 .. n :
           /\ gPatchMgr'.mModules[i].mModuleName = gPatchMgr.mModules[i].mModuleName
           /\ i # pc.m => gPatchMgr'.mModules[i] = gPatchMgr.mModules[i]
  BY PatchModuleSettings, EnlargedSettings, FormedModules DEF Shape, SettingsFormed
<1>3. /\ gPatchMgr'.incremental_patch = gPatchMgr.incremental_patch
      /\ gPatchMgr'.mPatchAllUserModules = gPatchMgr.mPatchAllUserModules
  BY <1>2 DEF Enlarges, Fields
<1>4. TakenGrows
  <2>1. Current.routines.family # "default"
    BY <1>1, <1>2, ConfiguredRoutine DEF Current
  <2> QED
    BY <1>1, <2>1, TakenStays DEF TakenGrows, Shape
<1>5. \A l \in Libs : (Tracked(l) => Tracked(l)') /\ (DoneWith(l) => DoneWith(l)')
  BY <1>3, <1>4, DoneWithGrows
<1>6. /\ pc'.at = "modules" /\ Walking /\ Walking' /\ pc'.by = pc.by /\ UNCHANGED unseen
      /\ \/ pc'.m = pc.m /\ UNCHANGED gPatchMgr
         \/ pc'.m = pc.m + 1 /\ ~(pc.k < 8)
  BY <1>1 DEF Walking, At
<1>7. pc'.rc = pc.rc
  <2>1. pc' = [pc EXCEPT !.k = @ + 1] \/ pc' = [pc EXCEPT !.k = 1, !.m = @ + 1]
    BY DEF PatchModule
  <2>2. "rc" \in DOMAIN pc
    BY DEF Shape, PcFormed, PcFields
  <2> QED
    BY <2>1, <2>2
<1>8. InLinkMap' = InLinkMap /\ \A l \in InLinkMap : l \in Libs
  BY <1>1 DEF InLinkMap, Shape, CoreFormed
<1>9. \A l, i : i \in 1 .. n => (Names(l, i)' <=> Names(l, i))
  BY <1>2 DEF Names
<1>10. ASSUME ~(pc.k < 8), NEW l \in Libs, Names(l, pc.m) PROVE Tracked(l)'
  <2>1. IsTarget(l)
    BY <1>1, <1>10, CurrentTarget DEF Shape
  <2> QED
    BY <1>10, <2>1, PatchModuleCompletes
<1> HIDE DEF n
<1>11. PatchedInv'
  <2>1. SUFFICES ASSUME gPatchMgr.incremental_patch, NEW i \in 1 .. n,
                        gPatchMgr'.mModules[i].mPatched, NEW l \in Libs, Names(l, i)
                 PROVE  Tracked(l)' \/ l \in reloaded
    BY <1>2, <1>3, <1>9 DEF PatchedInv
  <2>2. CASE gPatchMgr.mModules[i].mPatched
    <3>1. Tracked(l) \/ l \in reloaded
      BY <1>2, <2>1, <2>2 DEF TrackInv, PatchedInv, n
    <3> QED
      BY <1>5, <3>1
  <2>3. CASE ~gPatchMgr.mModules[i].mPatched
    <3>1. i = pc.m /\ ~(pc.k < 8)
      BY <1>2, <1>6, <2>1, <2>3
    <3> QED
      BY <1>10, <2>1, <3>1
  <2> QED
    BY <2>2, <2>3
<1>12. \A i \in 1 .. n : gPatchMgr.mModules[i].mPatched => gPatchMgr'.mModules[i].mPatched
  <2>1. ASSUME ~(UNCHANGED gPatchMgr) PROVE gPatchMgr'.mModules[pc.m].mPatched
    <3>1. gPatchMgr' = [gPatchMgr EXCEPT !.mModules[pc.m].mPatched = TRUE]
      BY <1>1, <2>1
    <3> QED
      BY <1>1, <1>2, <3>1, MarkedIsPatched DEF n
  <2> QED
    BY <1>2, <2>1
<1>13. FinishedInv'
  BY <1>1, <1>2, <1>3, <1>12 DEF TrackInv, FinishedInv, EntriesPatched, n
<1>14. SeenInv'
  BY <1>6 DEF SeenInv, Running
<1>15. ListedInv'
  <2>1. ASSUME NEW name, Listed(gPatchMgr, name) PROVE Listed(gPatchMgr', name)
    <3>1. PICK i \in 1 .. n : gPatchMgr.mModules[i].mModuleName = name
      BY <1>2, <2>1, FormedModules DEF Listed, n
    <3>2. i \in DOMAIN gPatchMgr'.mModules
      BY <1>2, <3>1, FormedModules
    <3> QED
      BY <1>2, <3>1, <3>2 DEF Listed
  <2> QED
    BY <1>1, <1>2, <1>3, <1>6, <1>8, <2>1 DEF TrackInv, ListedInv
<1>16. WalkedInv'
  <2>1. /\ pc.m <= n + 1
        /\ \A j \in 1 .. pc.m - 1 : \A l \in InLinkMap : Names(l, j) => DoneWith(l)
        /\ pc.rc /\ gPatchMgr.incremental_patch => EntriesPatched(pc.m - 1)
    BY <1>6 DEF TrackInv, WalkedInv, n
  <2>2. /\ pc'.m - 1 <= n
        /\ \A j \in 1 .. pc'.m - 1 : /\ j \in 1 .. n
                                     /\ j \in 1 .. pc.m - 1 \/ (j = pc.m /\ ~(pc.k < 8))
    BY <1>1, <1>2, <1>6
  <2>3. ASSUME NEW j \in 1 .. pc'.m - 1, NEW l \in InLinkMap, Names(l, j) PROVE DoneWith(l)'
    <3>1. CASE j \in 1 .. pc.m - 1
      BY <1>5, <1>8, <2>1, <2>3, <3>1
    <3>2. CASE j = pc.m /\ ~(pc.k < 8)
      BY <1>8, <1>10, <2>3, <3>2 DEF DoneWith
    <3> QED
      BY <2>2, <3>1, <3>2
  <2>4. ASSUME pc'.rc, gPatchMgr.incremental_patch, NEW j \in 1 .. pc'.m - 1
        PROVE  gPatchMgr'.mModules[j].mPatched
    <3>1. CASE j \in 1 .. pc.m - 1
      BY <1>7, <1>12, <2>1, <2>2, <2>4, <3>1 DEF EntriesPatched
    <3>2. CASE j = pc.m /\ ~(pc.k < 8)
      <4>1. gPatchMgr' = [gPatchMgr EXCEPT !.mModules[pc.m].mPatched = TRUE]
        BY <1>1, <3>2
      <4> QED
        BY <1>1, <1>2, <3>2, <4>1, MarkedIsPatched DEF n
    <3> QED
      BY <2>2, <3>1, <3>2
  <2>5. pc'.m <= Len(gPatchMgr'.mModules) + 1
    BY <1>1, <1>2, <1>6
  <2>6. \A j \in 1 .. pc'.m - 1 : \A l \in InLinkMap' : Names(l, j)' => DoneWith(l)'
    BY <1>8, <1>9, <2>2, <2>3
  <2> QED
    BY <1>3, <2>4, <2>5, <2>6 DEF WalkedInv, EntriesPatched
<1> QED
  BY <1>11, <1>13, <1>14, <1>15, <1>16 DEF TrackInv

LEMMA FinishPatchKeepsTrack ==
  ASSUME Shape, Shape', PassInv, TrackInv, FinishPatch, UNCHANGED reloaded,
         unseen' = IF pc'.at = "idle" THEN StillUnseen ELSE unseen
  PROVE  TrackInv'
<1>1. /\ pc.at = "modules" /\ pc.m > Len(gPatchMgr.mModules)
      /\ UNCHANGED <<core, slots, gPatchMgr>> /\ pc' = Idle(pc.by)
      /\ mPatchFinished' = (mPatchFinished \/ pc.rc) /\ mPatchTried'
  BY DEF FinishPatch, Return
<1>2. /\ Started /\ Formed(gPatchMgr) /\ pc.m \in Nat \ {0} /\ Len(gPatchMgr.mModules) \in Nat
      /\ Walking /\ pc'.at = "idle" /\ unseen' = StillUnseen
  BY <1>1, FormedModules, IdleFormed DEF Shape, SettingsFormed, PcFormed, Walking
<1>3. /\ pc.m <= Len(gPatchMgr.mModules) + 1
      /\ \A j \in 1 .. pc.m - 1 : \A l \in InLinkMap : Names(l, j) => DoneWith(l)
      /\ pc.rc /\ gPatchMgr.incremental_patch => EntriesPatched(pc.m - 1)
  BY <1>2 DEF TrackInv, WalkedInv
<1>4. pc.m - 1 = Len(gPatchMgr.mModules)
  BY <1>1, <1>2, <1>3
<1>5. /\ PatchedInv' /\ (\A l : DoneWith(l)' <=> DoneWith(l)) /\ (Started' <=> Started)
  BY <1>1, SameTrack DEF TrackInv
<1>6. FinishedInv'
  <2>1. Started /\ gPatchMgr.incremental_patch /\ mPatchFinished' => EntriesPatched(Len(gPatchMgr.mModules))
    BY <1>1, <1>3, <1>4 DEF TrackInv, FinishedInv
  <2> QED
    BY <1>1, <1>5, <2>1 DEF FinishedInv, EntriesPatched
<1>7. WalkedInv'
  BY <1>2 DEF WalkedInv, Walking
<1>8. ASSUME NoneCalledExec, gPatchMgr.mPatchAllUserModules, NEW l \in InLinkMap, Kind[l] = "user",
             l \notin unseen'
      PROVE  Listed(gPatchMgr, BaseName[l])
  <2>1. mPatchTried \/ l \notin unseen
    BY <1>1, <1>2, <1>8 DEF StillUnseen, PassInv
  <2> QED
    BY <1>2, <1>8, <2>1 DEF TrackInv, ListedInv
<1>9. ListedInv'
  BY <1>1, <1>2, <1>8 DEF ListedInv, InLinkMap, Walking
<1>10. SeenInv'
  <2>1. ASSUME NEW l \in InLinkMap, Unambiguous(l), Listed(gPatchMgr, BaseName[l]) PROVE DoneWith(l)
    <3>1. PICK j \in 1 .. Len(gPatchMgr.mModules) : gPatchMgr.mModules[j].mModuleName = BaseName[l]
      BY <1>2, <2>1, FormedModules DEF Listed
    <3> QED
      BY <1>3, <1>4, <2>1, <3>1 DEF Names
  <2> QED
    BY <1>1, <1>5, <2>1 DEF SeenInv, InLinkMap
<1> QED
  BY <1>5, <1>6, <1>7, <1>9, <1>10 DEF TrackInv

LEMMA StepKeepsTrack ==
  ASSUME Shape, Shape', ModulesInv, PassInv, TrackInv, [Next]_vars
  PROVE  TrackInv'
<1>1. CASE StartAccuTrak
  BY <1>1, StartKeepsTrack
<1>2. CASE PatchMemRoutines
  BY <1>2, PatchMemRoutinesKeepsTrack
<1>3. CASE Load
  <2>1. UNCHANGED mPatchFinished
    BY <1>3 DEF Load, Dlopen
  <2> QED
    BY <1>3, <2>1, LoadKeepsTrack
<1>4. CASE Unload
  BY <1>4, UnloadKeepsTrack
<1>5. CASE PatchGoesOn
  <2>1. /\ PatchStep /\ UNCHANGED reloaded
        /\ unseen' = IF pc'.at = "idle" THEN StillUnseen ELSE unseen
    BY <1>5 DEF PatchGoesOn
  <2>2. pc'.at # "idle" => UNCHANGED unseen
    BY <2>1
  <2> QED
    BY <2>1, <2>2, FreeKeepsTrack, DlopenKeepsTrack, CheckNewModulesKeepsTrack, SkipModuleKeepsTrack,
       PatchModuleKeepsTrack, FinishPatchKeepsTrack DEF PatchStep
<1>6. CASE UNCHANGED vars
  BY <1>6 DEF vars, patchVars, appVars, TrackInv, PatchedInv, FinishedInv, WalkedInv, ListedInv, SeenInv,
     Tracked, DoneWith, Names, EntriesPatched, Walking, Taken, Started, InLinkMap, Running
<1> QED
  BY <1>1, <1>2, <1>3, <1>4, <1>5, <1>6 DEF Next

LEMMA TrackSuffices ==
  ASSUME NoneCalledExec, Shape, PassInv, TrackInv
  PROVE  AllocationsTracked
<1>1. SUFFICES ASSUME mPatchTried, Running, NEW l \in Wanted \ Missed, NEW s \in AllocSlots
               PROVE  slots[l][s].family # "default"
  BY DEF AllocationsTracked
<1>2. /\ l \in InLinkMap /\ Unambiguous(l) /\ l \notin unseen
      /\ gPatchMgr.incremental_patch => l \notin reloaded
      /\ \/ Listed(gPatchMgr, BaseName[l])
         \/ gPatchMgr.mPatchAllUserModules /\ Kind[l] = "user"
  BY <1>1 DEF Wanted, Missed, InLinkMap
<1>3. Started
  BY <1>1 DEF PassInv
<1>4. Listed(gPatchMgr, BaseName[l])
  BY <1>2, <1>3 DEF TrackInv, ListedInv
<1>5. DoneWith(l)
  BY <1>1, <1>2, <1>4 DEF TrackInv, SeenInv
<1> QED
  BY <1>2, <1>5, SlotSets DEF DoneWith, Tracked, Taken

LEMMA TrackInvariant == Spec => []TrackInv
<1>1. Init => TrackInv
  BY TrackInitially
<1>2. Shape /\ Shape' /\ ModulesInv /\ PassInv /\ TrackInv /\ [Next]_vars => TrackInv'
  BY StepKeepsTrack
<1> QED
  BY <1>1, <1>2, ShapeInvariant, ModulesInvariant, PassInvariant, PTL DEF Spec

\* If no shared object has the name that stands for the executable, then between patches every
\* allocating slot of every module that is to be tracked leads to a routine of AccuTrak, however
\* modules were loaded and unloaded before.
THEOREM AllocationsAreTracked ==
  ASSUME NoneCalledExec
  PROVE  Spec => []AllocationsTracked
<1>1. Shape /\ PassInv /\ TrackInv => AllocationsTracked
  BY TrackSuffices
<1> QED
  BY <1>1, ShapeInvariant, PassInvariant, TrackInvariant, PTL

-------------------------------------------------------------------------------
(* ReleasesCovered: what the slots lead to *)

\* Slots lead to the routines of the modules that are configured, and in a group only once
\* the loop over those has begun.
TakenInv ==
  \A l \in Libs, s \in MemSlots : Taken(l, s) =>
    /\ Started /\ gPatchMgr.mModules # <<>>
    /\ RoutinesAgree => slots[l][s].family = gPatchMgr.mModules[1].routines.family
    /\ gPatchMgr.self_contained => mPatchTried \/ Walking

\* Modules are only added to the settings.
KeepsRoutines ==
  /\ gPatchMgr'.mMode = gPatchMgr.mMode /\ gPatchMgr'.self_contained = gPatchMgr.self_contained
  /\ Len(gPatchMgr.mModules) <= Len(gPatchMgr'.mModules)
  /\ \A i \in 1 .. Len(gPatchMgr.mModules) :
       gPatchMgr'.mModules[i].routines = gPatchMgr.mModules[i].routines

LEMMA AgreedBefore ==
  ASSUME Formed(gPatchMgr), Formed(gPatchMgr'), KeepsRoutines
  PROVE  /\ RoutinesAgree' => RoutinesAgree
         /\ \A i \in 1 .. Len(gPatchMgr.mModules) :
              /\ gPatchMgr'.mModules # <<>>
              /\ RoutinesAgree' => gPatchMgr.mModules[i].routines.family = gPatchMgr'.mModules[1].routines.family
<1>1. /\ Len(gPatchMgr.mModules) \in Nat /\ DOMAIN gPatchMgr.mModules = 1 .. Len(gPatchMgr.mModules)
      /\ Len(gPatchMgr'.mModules) \in Nat /\ DOMAIN gPatchMgr'.mModules = 1 .. Len(gPatchMgr'.mModules)
  BY FormedModules
<1>2. ASSUME NEW i \in 1 .. Len(gPatchMgr.mModules)
      PROVE  /\ 1 \in 1 .. Len(gPatchMgr.mModules) /\ i \in DOMAIN gPatchMgr'.mModules
             /\ gPatchMgr'.mModules # <<>>
             /\ gPatchMgr'.mModules[i].routines = gPatchMgr.mModules[i].routines
             /\ gPatchMgr'.mModules[1].routines = gPatchMgr.mModules[1].routines
  BY <1>1 DEF KeepsRoutines
<1>3. ASSUME RoutinesAgree', NEW i \in 1 .. Len(gPatchMgr.mModules)
      PROVE  /\ gPatchMgr.mModules[i].routines.family = gPatchMgr.mModules[1].routines.family
             /\ gPatchMgr.mModules[i].routines.family = gPatchMgr'.mModules[1].routines.family
             /\ gPatchMgr.mMode = "record" /\ ~gPatchMgr.self_contained
                  => gPatchMgr.mModules[i].routines.family = "record"
  BY <1>2, <1>3 DEF RoutinesAgree, KeepsRoutines
<1> QED
  BY <1>1, <1>2, <1>3 DEF RoutinesAgree

\* A step that patches slots only with routines of configured modules.
LEMMA TakenKept ==
  ASSUME Shape, Shape', TakenInv, Started => Started' /\ KeepsRoutines,
         mPatchTried \/ Walking => (mPatchTried \/ Walking)',
         \A l \in Libs, s \in MemSlots : Taken(l, s)' =>
           \/ slots'[l][s] = slots[l][s]
           \/ /\ Started /\ (gPatchMgr.self_contained => Walking')
              /\ \E i \in 1 .. Len(gPatchMgr.mModules) : slots'[l][s] = gPatchMgr.mModules[i].routines
  PROVE  TakenInv'
<1>1. SUFFICES ASSUME NEW l \in Libs, NEW s \in MemSlots, Taken(l, s)'
               PROVE  /\ Started' /\ gPatchMgr'.mModules # <<>>
                      /\ RoutinesAgree' => slots'[l][s].family = gPatchMgr'.mModules[1].routines.family
                      /\ gPatchMgr'.self_contained => mPatchTried' \/ Walking'
  BY DEF TakenInv
<1>2. CASE slots'[l][s] = slots[l][s]
  <2>1. Taken(l, s)
    BY <1>1, <1>2 DEF Taken
  <2>2. /\ Started /\ gPatchMgr.mModules # <<>>
        /\ RoutinesAgree => slots[l][s].family = gPatchMgr.mModules[1].routines.family
        /\ gPatchMgr.self_contained => mPatchTried \/ Walking
    BY <2>1 DEF TakenInv
  <2>3. Started' /\ KeepsRoutines /\ Formed(gPatchMgr) /\ Formed(gPatchMgr')
    BY <2>2 DEF Shape, SettingsFormed
  <2>4. 1 \in 1 .. Len(gPatchMgr.mModules)
    BY <2>2, <2>3 DEF Formed
  <2>5. gPatchMgr'.mModules # <<>> /\ (RoutinesAgree' => RoutinesAgree)
    BY <2>3, <2>4, AgreedBefore
  <2>6. RoutinesAgree' => gPatchMgr.mModules[1].routines.family = gPatchMgr'.mModules[1].routines.family
    BY <2>3, <2>4, AgreedBefore
  <2> QED
    BY <1>2, <2>2, <2>3, <2>5, <2>6 DEF KeepsRoutines
<1>3. CASE /\ Started /\ (gPatchMgr.self_contained => Walking')
           /\ \E i \in 1 .. Len(gPatchMgr.mModules) : slots'[l][s] = gPatchMgr.mModules[i].routines
  <2>1. PICK i \in 1 .. Len(gPatchMgr.mModules) : slots'[l][s] = gPatchMgr.mModules[i].routines
    BY <1>3
  <2>2. Started' /\ KeepsRoutines /\ Formed(gPatchMgr) /\ Formed(gPatchMgr')
    BY <1>3 DEF Shape, SettingsFormed
  <2>3. /\ gPatchMgr'.mModules # <<>>
        /\ RoutinesAgree' => gPatchMgr.mModules[i].routines.family = gPatchMgr'.mModules[1].routines.family
    BY <2>2, AgreedBefore
  <2> QED
    BY <1>3, <2>1, <2>2, <2>3 DEF KeepsRoutines
<1> QED
  BY <1>1, <1>2, <1>3

LEMMA SameRoutines ==
  ASSUME UNCHANGED gPatchMgr, Started, Shape
  PROVE  KeepsRoutines
BY DEF KeepsRoutines, Shape, SettingsFormed, Formed

LEMMA PatchKeepsTaken ==
  ASSUME Shape, Shape', CoverInv, PassInv, TakenInv, PatchStep
  PROVE  TakenInv'
<1>0. Started /\ Started' /\ SlotsFormed
  <2>1. pc.at # "idle"
    BY DEF PatchStep, PatchCatchAllFree, PatchDlopen, CheckNewModules, SkipModule, MoreModules,
       PatchModule, FinishPatch
  <2>2. Started /\ SlotsFormed
    BY <2>1 DEF Shape
  <2>3. CASE UNCHANGED gPatchMgr
    BY <2>2, <2>3 DEF Started
  <2>4. CASE CheckNewModules \/ PatchModule
    BY <2>2, <2>4, CheckedSettings, PatchModuleSettings, EnlargedSettings DEF Shape
  <2> QED
    BY <2>2, <2>3, <2>4 DEF PatchStep, PatchCatchAllFree, PatchDlopen, SkipModule, FinishPatch
<1>1. CASE PatchCatchAllFree
  <2>1. /\ pc.at = "free" /\ Catching /\ UNCHANGED <<gPatchMgr, mPatchTried>>
        /\ \/ UNCHANGED slots
           \/ Patched(core[pc.i], FreeOrder[pc.k], gPatchMgr.mModules[1].routines)
    BY <1>1 DEF PatchCatchAllFree, PatchNext, PassInv
  <2>2. 1 \in 1 .. Len(gPatchMgr.mModules) /\ ~gPatchMgr.self_contained
    BY <1>0, <2>1 DEF Catching, Catches, Shape, SettingsFormed, Formed
  <2>3. ~Walking
    BY <2>1 DEF Walking
  <2>4. \A l \in Libs, s \in MemSlots :
          slots'[l][s] = slots[l][s] \/ slots'[l][s] = gPatchMgr.mModules[1].routines
    BY <1>0, <2>1, PatchedSlot, SlotSets
  <2> QED
    BY <1>0, <2>1, <2>2, <2>3, <2>4, SameRoutines, TakenKept
<1>2. CASE PatchDlopen
  <2>1. /\ pc.at = "dlopen" /\ UNCHANGED <<gPatchMgr, mPatchTried>> /\ (Walking' <=> Walking)
        /\ UNCHANGED slots \/ Patched(core[pc.i], DlopenOrder[pc.k], Intercepted)
    BY <1>2, DlopenMoves DEF PatchDlopen, PatchNext
  <2>2. pc.k = 1 \/ pc.k = 2
    BY <2>1 DEF CoverInv, DlopenInv
  <2>3. DlopenOrder[pc.k] \in {"dlopen", "dlclose"}
    BY <2>2, Orders
  <2>4. \A l \in Libs, s \in MemSlots : slots'[l][s] = slots[l][s]
    BY <1>0, <2>1, <2>3, NotTakenByPatch
  <2> QED
    BY <1>0, <2>1, <2>4, SameRoutines, TakenKept
<1>3. CASE CheckNewModules
  <2>1. pc.at = "check" /\ UNCHANGED <<slots, mPatchTried>>
    BY <1>3, CheckNewModulesCases
  <2>2. Prolongs(gPatchMgr', gPatchMgr) /\ Enlarges(gPatchMgr', gPatchMgr)
    BY <1>3, CheckedEntries, CheckedSettings
  <2>3. KeepsRoutines
    BY <2>2 DEF Prolongs, Enlarges, Fields, KeepsRoutines
  <2>4. ~Walking
    BY <2>1 DEF Walking
  <2> QED
    BY <1>0, <2>1, <2>3, <2>4, TakenKept
<1>4. CASE SkipModule
  <2>1. UNCHANGED <<slots, gPatchMgr, mPatchTried>>
    BY <1>4 DEF SkipModule
  <2>2. Walking'
    BY <1>4, SkipModuleMoves DEF Walking, At, Shape
  <2> QED
    BY <1>0, <2>1, <2>2, SameRoutines, TakenKept
<1>5. CASE PatchModule
  <2>1. /\ pc.m \in 1 .. Len(gPatchMgr.mModules) /\ pc'.at = "modules"
        /\ Patched(TargetOf(Current.mModuleName), ModuleOrder[pc.k], gPatchMgr.mModules[pc.m].routines)
    BY <1>5, PatchModuleCases DEF At, Current
  <2>2. KeepsRoutines
    BY <1>5, PatchModuleSettings DEF Enlarges, Fields, KeepsRoutines, Formed
  <2>3. Walking'
    BY <2>1 DEF Walking
  <2>4. \A l \in Libs, s \in MemSlots :
          slots'[l][s] = slots[l][s] \/ slots'[l][s] = gPatchMgr.mModules[pc.m].routines
    BY <1>0, <2>1, PatchedSlot, SlotSets
  <2> QED
    BY <1>0, <2>1, <2>2, <2>3, <2>4, TakenKept
<1>6. CASE FinishPatch
  <2>1. UNCHANGED <<slots, gPatchMgr>> /\ mPatchTried'
    BY <1>6 DEF FinishPatch
  <2> QED
    BY <1>0, <2>1, SameRoutines, TakenKept
<1> QED
  BY <1>1, <1>2, <1>3, <1>4, <1>5, <1>6 DEF PatchStep

LEMMA StepKeepsTaken ==
  ASSUME Shape, Shape', CoverInv, PassInv, TakenInv, [Next]_vars
  PROVE  TakenInv'
<1>1. CASE StartAccuTrak
  <2>1. UNCHANGED slots /\ ~Started
    BY <1>1 DEF StartAccuTrak
  <2>2. \A l \in Libs, s \in MemSlots : ~Taken(l, s)'
    BY <2>1, SlotSets DEF Shape, Taken, Default
  <2> QED
    BY <2>2 DEF TakenInv
<1>2. CASE /\ pc.at = "idle" /\ UNCHANGED <<gPatchMgr, mPatchTried>>
           /\ \A l \in Libs, s \in MemSlots : Taken(l, s)' => slots'[l][s] = slots[l][s]
  <2>1. ~Walking
    BY <1>2 DEF Walking
  <2>2. Started => Started'
    BY <1>2 DEF Started
  <2> QED
    BY <1>2, <2>1, <2>2, SameRoutines, TakenKept
<1>3. CASE PatchMemRoutines
  BY <1>2, <1>3 DEF PatchMemRoutines, Event, Running
<1>4. CASE Load
  BY <1>2, <1>4, LoadCases
<1>5. CASE Unload
  <2>1. pc.at = "idle" /\ UNCHANGED <<gPatchMgr, mPatchTried>>
    BY <1>5 DEF Unload, Dlclose, Running
  <2>2. PICK lib \in Libs : ResetSlots(lib)
    BY <1>5, UnloadCases DEF InLinkMap, Shape, CoreFormed
  <2>3. \A l \in Libs, s \in MemSlots : Taken(l, s)' => slots'[l][s] = slots[l][s]
    BY <2>2, SlotSets DEF ResetSlots, Taken, Default
  <2> QED
    BY <1>2, <2>1, <2>3
<1>6. CASE PatchGoesOn
  BY <1>6, PatchKeepsTaken DEF PatchGoesOn
<1>7. CASE UNCHANGED vars
  BY <1>7 DEF vars, patchVars, appVars, TakenInv, Taken, Started, RoutinesAgree, Walking
<1> QED
  BY <1>1, <1>3, <1>4, <1>5, <1>6, <1>7 DEF Next

LEMMA TakenInvariant == Spec => []TakenInv
<1>1. Init => TakenInv
  <2>1. ASSUME Init, NEW l \in Libs, NEW s \in MemSlots PROVE ~Taken(l, s)
    BY <2>1, SlotSets DEF Init, LoadedFirst, Taken, Default
  <2> QED
    BY <2>1 DEF TakenInv
<1>2. Shape /\ Shape' /\ CoverInv /\ PassInv /\ TakenInv /\ [Next]_vars => TakenInv'
  BY StepKeepsTaken
<1> QED
  BY <1>1, <1>2, ShapeInvariant, CoverInvariant, PassInvariant, PTL DEF Spec

\* A module that releases a block has a routine of AccuTrak in the slot: the one that makes it
\* has its own (OwnInv), in a group the other modules are done with when the loop is (SeenInv),
\* and otherwise the loop over all modules came before (ExposedInv).
LEMMA ReleaserTaken ==
  ASSUME Shape, CoverInv, PassInv, TrackInv, TakenInv, RoutinesAgree,
         NEW l \in InLinkMap, NEW s \in AllocSlots, slots[l][s].family \in Tracking,
         NEW d \in Releasers(l, s), NEW r \in ReleasedBy(s)
  PROVE  d \in Libs /\ Taken(d, r)
<1>1. l \in Libs /\ r \in ReleaseSlots /\ r \in MemSlots /\ s \in MemSlots /\ Taken(l, s)
  BY SlotSets DEF InLinkMap, Shape, CoreFormed, Tracking, Taken
<1>2. /\ Started /\ gPatchMgr.mModules # <<>> /\ Formed(gPatchMgr)
      /\ slots[l][s].family = gPatchMgr.mModules[1].routines.family
      /\ gPatchMgr.self_contained => mPatchTried \/ Walking
  BY <1>1 DEF TakenInv, Shape, SettingsFormed
<1>3. CASE d = l
  BY <1>1, <1>3 DEF CoverInv, OwnInv
<1>4. CASE gPatchMgr.self_contained /\ d \in Group
  <2>1. /\ Running /\ d \in InLinkMap \ unseen /\ Unambiguous(d) /\ Listed(gPatchMgr, BaseName[d])
        /\ gPatchMgr.incremental_patch => d \notin reloaded
    BY <1>4 DEF Group, Missed, InLinkMap
  <2>2. d \in Libs /\ mPatchTried
    BY <1>2, <1>4, <2>1 DEF InLinkMap, Shape, CoreFormed, Running, Walking
  <2>3. DoneWith(d)
    BY <2>1, <2>2 DEF TrackInv, SeenInv
  <2> QED
    BY <1>1, <2>1, <2>2, <2>3 DEF DoneWith, Tracked
<1>5. CASE ~gPatchMgr.self_contained /\ d \in Exposed /\ Kind[d] # "system" /\ (s = "realloc" => Running)
  <2>1. d \in Libs
    BY <1>5 DEF Exposed, Shape, CoreFormed
  <2>2. gPatchMgr.mMode # "record"
    <3>1. 1 \in DOMAIN gPatchMgr.mModules
      BY <1>2 DEF Formed
    <3> QED
      BY <1>2, <1>5, <3>1 DEF RoutinesAgree, Tracking
  <2>3. Catching /\ Making
    BY <1>1, <1>2, <1>5, <2>2 DEF Catching, Catches, Making, Running
  <2>4. Covered(d)
    BY <1>5, <2>3 DEF CoverInv, ExposedInv
  <2> QED
    BY <1>1, <2>1, <2>4 DEF Covered
<1> QED
  BY <1>3, <1>4, <1>5 DEF Releasers

LEMMA CoverSuffices ==
  ASSUME Shape, CoverInv, PassInv, TrackInv, TakenInv
  PROVE  ReleasesCovered
<1>1. SUFFICES ASSUME RoutinesAgree, NEW l \in InLinkMap, NEW s \in AllocSlots,
                      slots[l][s].family \in Tracking,
                      NEW d \in Releasers(l, s), NEW r \in ReleasedBy(s)
               PROVE  slots[d][r].family = slots[l][s].family
  BY DEF ReleasesCovered, InLinkMap
<1>2. d \in Libs /\ Taken(d, r)
  BY <1>1, ReleaserTaken
<1>3. l \in Libs /\ Taken(l, s) /\ s \in MemSlots /\ r \in MemSlots
  BY <1>1, SlotSets DEF InLinkMap, Shape, CoreFormed, Tracking, Taken
<1> QED
  BY <1>1, <1>2, <1>3 DEF TakenInv

\* For any modules, files and link maps: while a slot leads to an allocating routine, the
\* modules that may release its blocks, those of the group or all but the system's, do it with
\* routines that know them, as long as all modules have routines of one family.
THEOREM ReleasesAreCovered == Spec => []ReleasesCovered
<1>1. Shape /\ CoverInv /\ PassInv /\ TrackInv /\ TakenInv => ReleasesCovered
  BY CoverSuffices
<1> QED
  BY <1>1, ShapeInvariant, CoverInvariant, PassInvariant, TrackInvariant, TakenInvariant, PTL

-------------------------------------------------------------------------------
(* RecordsNameModules: its inductive invariant *)

NumberedInv == Started => \A i \in 1 .. Len(gPatchMgr.mModules) : NumberedAt(gPatchMgr, i)

\* A record mode routine in a slot of module l names l, unless its number is the shared one.
Numbers(l, r) ==
  r.index < MaxModulesToRecord - 1 /\ Unambiguous(l) =>
    r.index + 1 \in 1 .. Len(gPatchMgr.mModules) /\ Names(l, r.index + 1)

RecordedInv ==
  \A l \in Libs, s \in AllocSlots : slots[l][s].family = "record" =>
    Started /\ gPatchMgr.mMode = "record" /\ Numbers(l, slots[l][s])

\* The first n names in the file are those of the modules.
NamesFirst(n, file, mgr) ==
  \A i \in 1 .. n : i \in DOMAIN file /\ file[i] = mgr.mModules[i].mModuleName

\* The file names the modules there were when it was written, which are all of them whenever
\* the start or a dlopen has returned.
FileInv ==
  /\ ~Started => pc.by = "nobody" /\ mTotalModules = 0
  /\ Started => pc.by \in {"start", "api", "dlopen"}
  /\ Started /\ gPatchMgr.mMode = "record" =>
       /\ mTotalModules \in 0 .. Len(gPatchMgr.mModules)
       /\ ~infoFailed => NamesFirst(mTotalModules, infoFile, gPatchMgr)
       /\ pc.by = "start" \/ (pc.by = "dlopen" /\ Running) => mTotalModules = Len(gPatchMgr.mModules)

RecordInv == NumberedInv /\ RecordedInv /\ FileInv

fileVars == <<infoFile, mTotalModules, infoFailed>>

\* What PatchFunction finds by the name of a module in core has that name, or its path is
\* ambiguous.
LEMMA TargetNamed ==
  ASSUME CoreFormed, NEW name, NameInCore(name), NEW l \in Libs, l = TargetOf(name), Unambiguous(l)
  PROVE  BaseName[l] = name
<1> DEFINE Found(j) == name \in PathContains[core[j]]
           Q(j) == Found(j) /\ \A h \in 1 .. j - 1 : ~Found(h)
           S == {j \in DOMAIN core : Found(j)}
<1>0. /\ Len(core) \in Nat /\ DOMAIN core = 1 .. Len(core) /\ 1 \in DOMAIN core /\ core[1] = Exec
      /\ \A j \in DOMAIN core : core[j] \in Libs
  BY DEF CoreFormed
<1>1. /\ \A k \in Libs : BaseName[k] \in PathContains[k]
      /\ PathContains[Exec] = {BaseName[Exec]}
  BY PatchAssumption
<1>2. PICK i \in DOMAIN core : BaseName[core[i]] = name
  BY DEF NameInCore
<1>3. Found(i) /\ core[i] \in Libs
  BY <1>0, <1>1, <1>2
<1>4. PICK x \in S : \A y \in S : x <= y
  <2>1. S \in SUBSET Nat /\ S # {}
    BY <1>0, <1>3
  <2> HIDE DEF S
  <2> QED
    BY <2>1, Log!LeastNumber
<1>5. Q(x)
  <2>1. ASSUME NEW h \in 1 .. x - 1, Found(h) PROVE FALSE
    <3>1. h \in DOMAIN core /\ h < x
      BY <1>0
    <3>2. h \in S
      BY <2>1, <3>1
    <3> QED
      BY <1>0, <1>4, <3>1, <3>2
  <2> HIDE DEF Found
  <2> QED
    BY <2>1
<1> DEFINE c == CHOOSE j \in DOMAIN core : Q(j)
<1>6. c \in DOMAIN core /\ Q(c)
  <2> HIDE DEF Q
  <2> QED BY <1>5
<1>7. TargetOf(name) = core[c]
  BY DEF TargetOf
<1> HIDE DEF c
<1>8. CASE l = Exec
  BY <1>1, <1>6, <1>7, <1>8
<1>9. CASE l # Exec /\ core[i] # Exec
  BY <1>2, <1>3, <1>6, <1>7, <1>9 DEF Unambiguous
<1>10. CASE l # Exec /\ core[i] = Exec
  <2>1. Found(1)
    BY <1>0, <1>3, <1>10
  <2>2. 1 \notin 1 .. c - 1
    BY <1>6, <2>1
  <2>3. c = 1
    BY <1>0, <1>6, <2>2
  <2> QED
    BY <1>0, <1>7, <1>10, <2>3
<1> QED
  BY <1>8, <1>9, <1>10

\* Patch gives up at once only where there are private heaps.
LEMMA BegunIdle ==
  ASSUME NEW mgr, NEW by, BeginPatch(mgr, by), pc'.at = "idle"
  PROVE  mgr.mMode = "private_heap"
<1> DEFINE place == IF mgr.self_contained THEN "check"
                    ELSE IF mgr.mMode # "record" /\ mgr.mModules # <<>> THEN "free"
                    ELSE IF mgr.patch_dlopen THEN "dlopen" ELSE "check"
<1>1. CASE pc' = [Idle(by) EXCEPT !.at = place, !.back = "check"]
  <2>1. pc' = [[Idle(by) EXCEPT !.at = place] EXCEPT !.back = "check"]
    BY <1>1, Zenon
  <2>2. place # "idle"
    OBVIOUS
  <2> DEFINE p == Idle(by)
  <2>3. DOMAIN p = PcFields
    BY IdleFormed DEF PcFormed
  <2> HIDE DEF place, p
  <2>4. pc'.at = place
    BY <2>1, <2>3 DEF p, PcFields
  <2> QED
    BY <2>2, <2>4
<1> QED
  BY <1>1 DEF BeginPatch

LEMMA UpdatedFile ==
  ASSUME NEW mgr, Formed(mgr), mgr.mMode = "record", UpdateRecordInfoFile(mgr),
         mTotalModules \in 0 .. Len(mgr.mModules),
         ~infoFailed => NamesFirst(mTotalModules, infoFile, mgr)
  PROVE  /\ mTotalModules' = Len(mgr.mModules)
         /\ ~infoFailed' => NamesFirst(mTotalModules', infoFile', mgr)
<1>0. DOMAIN mgr.mModules = 1 .. Len(mgr.mModules)
  BY FormedModules
<1>1. CASE mTotalModules = Len(mgr.mModules)
  BY <1>1 DEF UpdateRecordInfoFile
<1>2. CASE mTotalModules # Len(mgr.mModules)
  <2>1. /\ mTotalModules' = Len(mgr.mModules)
        /\ \/ infoFile' = [i \in DOMAIN mgr.mModules |-> mgr.mModules[i].mModuleName]
           \/ infoFailed'
    BY <1>2 DEF UpdateRecordInfoFile
  <2>2. CASE infoFile' = [i \in DOMAIN mgr.mModules |-> mgr.mModules[i].mModuleName]
    BY <1>0, <2>1, <2>2 DEF NamesFirst
  <2> QED
    BY <2>1, <2>2
<1> QED
  BY <1>1, <1>2

LEMMA RecordInitially == Init => RecordInv
<1> SUFFICES ASSUME Init PROVE RecordInv
  OBVIOUS
<1>1. PICK c \in InitialCores : LoadedFirst(c)
  BY DEF Init
<1>2. /\ ~Started /\ pc.by = "nobody" /\ mTotalModules = 0
      /\ slots = [l \in Libs |-> [s \in Slots |-> Default]]
  BY <1>1, IdleFormed DEF LoadedFirst, Started
<1>3. \A l \in Libs, s \in AllocSlots : slots[l][s].family # "record"
  BY <1>2, SlotSets DEF Default
<1> QED
  BY <1>2, <1>3 DEF RecordInv, NumberedInv, RecordedInv, FileInv

LEMMA StartKeepsRecord ==
  ASSUME Shape, Shape', RecordInv, StartAccuTrak
  PROVE  RecordInv'
<1> DEFINE s == ParseConfigFile(config, core)
<1>1. UNCHANGED slots /\ ~Started /\ pc.at = "idle"
  BY DEF StartAccuTrak, Event, Running
<1>2. /\ mTotalModules = 0 /\ pc.by = "nobody"
      /\ \A l \in Libs, t \in AllocSlots : slots[l][t].family # "record"
  <2>1. \A l \in Libs, t \in AllocSlots : slots[l][t] = Default
    BY <1>1, SlotSets DEF Shape
  <2> QED
    BY <1>1, <2>1 DEF RecordInv, FileInv, Default
<1>3. RecordedInv'
  BY <1>1, <1>2 DEF RecordedInv
<1>4. CASE s.valid
  <2>1. gPatchMgr' = s /\ BeginPatch(s, "start") /\ UpdateRecordInfoFile(s)
    BY <1>4 DEF StartAccuTrak
  <2>2. Fresh(s) /\ Formed(s)
    <3>1. config \in Seq(Lines) /\ core \in Seq(Libs) /\ core # <<>> /\ core[1] = Exec
      BY AccuTrakAssumption DEF Shape, CoreFormed
    <3> QED
      BY <1>4, <3>1, StartEntries, StartSettings
  <2> HIDE DEF s
  <2>3. Started' /\ pc'.by = "start"
    BY <2>1, <2>2, BeginPatchMoves, FormedIsStarted DEF Started
  <2>4. NumberedInv'
    BY <2>1, <2>2 DEF NumberedInv, Fresh, NewAt
  <2>5. ASSUME s.mMode = "record"
        PROVE  /\ mTotalModules' = Len(s.mModules)
               /\ ~infoFailed' => NamesFirst(mTotalModules', infoFile', s)
    <3>1. mTotalModules \in 0 .. Len(s.mModules) /\ NamesFirst(mTotalModules, infoFile, s)
      BY <1>2, <2>2, FormedModules DEF NamesFirst
    <3> QED
      BY <2>1, <2>2, <2>5, <3>1, UpdatedFile
  <2>6. Len(s.mModules) \in Nat
    BY <2>2, FormedModules
  <2>7. FileInv'
    BY <2>1, <2>3, <2>5, <2>6 DEF FileInv
  <2> QED
    BY <1>3, <2>4, <2>7 DEF RecordInv
<1>5. CASE ~s.valid
  <2>1. UNCHANGED <<gPatchMgr, pc, fileVars>>
    BY <1>5 DEF StartAccuTrak, StartFailed, fileVars
  <2>2. ~Started'
    BY <1>1, <2>1 DEF Started
  <2> QED
    BY <1>2, <1>3, <2>1, <2>2 DEF RecordInv, NumberedInv, FileInv, fileVars
<1> QED
  BY <1>4, <1>5

\* Slots with other routines are of no interest.
LEMMA SameRecord ==
  ASSUME RecordInv, UNCHANGED gPatchMgr,
         \A l \in Libs, s \in AllocSlots :
           slots'[l][s] = slots[l][s] \/ slots'[l][s].family # "record"
  PROVE  NumberedInv' /\ RecordedInv' /\ (Started' <=> Started)
<1>1. (Started' <=> Started) /\ \A l, r : Numbers(l, r)' <=> Numbers(l, r)
  BY DEF Started, Numbers, Names
<1> QED
  BY <1>1 DEF RecordInv, NumberedInv, RecordedInv

\* Patch begins or does not, or goes on with the same modules.
LEMMA GoneOnRecord ==
  ASSUME RecordInv, UNCHANGED <<gPatchMgr, fileVars>>,
         \A l \in Libs, s \in AllocSlots :
           slots'[l][s] = slots[l][s] \/ slots'[l][s].family # "record",
         \/ UNCHANGED pc
         \/ Started /\ pc'.by = pc.by /\ pc'.at # "idle"
         \/ Started /\ pc'.by \in {"api", "dlopen"} /\ (pc'.at = "idle" => gPatchMgr.mMode # "record")
  PROVE  RecordInv'
<1>1. NumberedInv' /\ RecordedInv' /\ (Started' <=> Started)
  BY SameRecord
<1>2. FileInv'
  BY <1>1 DEF RecordInv, FileInv, fileVars, Running
<1> QED
  BY <1>1, <1>2 DEF RecordInv

LEMMA EventKeepsRecord ==
  ASSUME Shape, RecordInv, PatchMemRoutines \/ Load \/ Unload
  PROVE  RecordInv'
<1>1. CASE PatchMemRoutines
  <2>1. Started /\ BeginPatch(gPatchMgr, "api") /\ UNCHANGED <<slots, gPatchMgr, fileVars>>
    BY <1>1 DEF PatchMemRoutines, fileVars
  <2>2. pc'.by = "api" /\ (pc'.at = "idle" => gPatchMgr.mMode # "record")
    BY <2>1, BeginPatchMoves, BegunIdle
  <2> QED
    BY <2>1, <2>2, GoneOnRecord
<1>2. CASE Load
  <2>1. /\ UNCHANGED <<slots, gPatchMgr>>
        /\ (Started /\ BeginPatch(gPatchMgr, "dlopen")) \/ UNCHANGED pc
    BY <1>2, LoadCases
  <2>2. UNCHANGED fileVars
    BY <1>2 DEF Load, Dlopen, fileVars
  <2>3. BeginPatch(gPatchMgr, "dlopen") => pc'.by = "dlopen" /\ (pc'.at = "idle" => gPatchMgr.mMode # "record")
    BY BeginPatchMoves, BegunIdle
  <2> QED
    BY <2>1, <2>2, <2>3, GoneOnRecord
<1>3. CASE Unload
  <2>1. PICK caller \in Libs, lib \in InLinkMap \ {Exec} : Dlclose(caller, lib) /\ ResetSlots(lib)
    BY <1>3, UnloadCases
  <2>2. UNCHANGED <<gPatchMgr, fileVars, pc>>
    BY <2>1 DEF Dlclose, fileVars
  <2>3. \A l \in Libs, s \in AllocSlots : slots'[l][s] = slots[l][s] \/ slots'[l][s].family # "record"
    BY <2>1, SlotSets DEF ResetSlots, Default
  <2> QED
    BY <2>2, <2>3, GoneOnRecord
<1> QED
  BY <1>1, <1>2, <1>3

\* A slot is patched with a routine that does not record, or none is.
LEMMA OtherRoutine ==
  ASSUME Shape, NEW lib, NEW slot, NEW routine, routine.family # "record",
         Patched(lib, slot, routine) \/ UNCHANGED slots
  PROVE  \A l \in Libs, s \in AllocSlots : slots'[l][s] = slots[l][s] \/ slots'[l][s].family # "record"
<1>1. CASE Patched(lib, slot, routine)
  BY <1>1, PatchedSlot, SlotSets DEF Shape
<1> QED
  BY <1>1

\* The loops over the link map patch no routine that records.
LEMMA LoopKeepsRecord ==
  ASSUME Shape, Shape', PassInv, RecordInv, PatchCatchAllFree \/ PatchDlopen
  PROVE  RecordInv'
<1>1. CASE PatchCatchAllFree
  <2> DEFINE routine == gPatchMgr.mModules[1].routines
  <2>1. /\ Patched(core[pc.i], FreeOrder[pc.k], routine) \/ UNCHANGED slots
        /\ UNCHANGED <<gPatchMgr, fileVars>>
    BY <1>1 DEF PatchCatchAllFree, PatchNext, fileVars
  <2>2. pc.at = "free" /\ pc'.at # "idle" /\ pc'.by = pc.by
    BY <1>1, FreeMoves
  <2>3. Started /\ gPatchMgr.mMode # "record" /\ gPatchMgr.mModules # <<>>
    BY <2>2 DEF PassInv, Catching, Catches
  <2>4. routine.family # "record"
    <3>1. 1 \in 1 .. Len(gPatchMgr.mModules)
      BY <2>3 DEF Shape, SettingsFormed, Formed
    <3> QED
      BY <2>3, <3>1 DEF RecordInv, NumberedInv, NumberedAt
  <2> HIDE DEF routine
  <2>5. \A l \in Libs, s \in AllocSlots : slots'[l][s] = slots[l][s] \/ slots'[l][s].family # "record"
    BY <2>1, <2>4, OtherRoutine
  <2> QED
    BY <2>1, <2>2, <2>3, <2>5, GoneOnRecord
<1>2. CASE PatchDlopen
  <2>1. /\ Patched(core[pc.i], DlopenOrder[pc.k], Intercepted) \/ UNCHANGED slots
        /\ UNCHANGED <<gPatchMgr, fileVars>>
    BY <1>2 DEF PatchDlopen, PatchNext, fileVars
  <2>2. pc.at = "dlopen" /\ pc'.at # "idle" /\ pc'.by = pc.by
    BY <1>2, DlopenMoves
  <2>3. Intercepted.family # "record"
    BY DEF Intercepted
  <2>4. \A l \in Libs, s \in AllocSlots : slots'[l][s] = slots[l][s] \/ slots'[l][s].family # "record"
    BY <2>1, <2>3, OtherRoutine
  <2> QED
    BY <2>1, <2>2, <2>4, GoneOnRecord DEF Shape
<1> QED
  BY <1>1, <1>2

\* The settings t have the modules of s, in their places.
LEMMA KeptNumbers ==
  ASSUME NEW t, gPatchMgr' = t, Formed(gPatchMgr), Len(t.mModules) \in Nat,
         Len(gPatchMgr.mModules) <= Len(t.mModules),
         \A i \in 1 .. Len(gPatchMgr.mModules) : t.mModules[i].mModuleName = gPatchMgr.mModules[i].mModuleName
  PROVE  /\ \A l, r : Numbers(l, r) => Numbers(l, r)'
         /\ \A i \in 1 .. Len(gPatchMgr.mModules), l \in Libs : Names(l, i) => Names(l, i)'
         /\ \A n, file : n <= Len(gPatchMgr.mModules) /\ n \in Int /\ NamesFirst(n, file, gPatchMgr)
                           => NamesFirst(n, file, t)
<1>1. Len(gPatchMgr.mModules) \in Nat
  BY FormedModules
<1>2. \A i \in 1 .. Len(gPatchMgr.mModules) : \A l : Names(l, i) => Names(l, i)'
  BY DEF Names
<1>3. \A i \in 1 .. Len(gPatchMgr.mModules) : i \in 1 .. Len(t.mModules)
  BY <1>1
<1>4. ASSUME NEW l, NEW r, Numbers(l, r) PROVE Numbers(l, r)'
  BY <1>2, <1>3, <1>4 DEF Numbers
<1>5. ASSUME NEW n \in Int, NEW file, n <= Len(gPatchMgr.mModules), NamesFirst(n, file, gPatchMgr)
      PROVE  NamesFirst(n, file, t)
  <2>1. \A i \in 1 .. n : i \in 1 .. Len(gPatchMgr.mModules)
    BY <1>1, <1>5
  <2> QED
    BY <1>5, <2>1 DEF NamesFirst
<1> QED
  BY <1>2, <1>4, <1>5

\* The return of Patch, with the settings it leaves.
LEMMA ReturnKeepsFile ==
  ASSUME Formed(gPatchMgr'), Started', gPatchMgr'.mMode = "record" => Return(gPatchMgr'),
         pc'.at = "idle", pc'.by = pc.by, pc.by \in {"start", "api", "dlopen"},
         gPatchMgr'.mMode = "record" =>
           /\ mTotalModules \in 0 .. Len(gPatchMgr'.mModules)
           /\ ~infoFailed => NamesFirst(mTotalModules, infoFile, gPatchMgr')
           /\ pc.by = "start" => mTotalModules = Len(gPatchMgr'.mModules)
  PROVE  FileInv'
<1> DEFINE t == gPatchMgr'
<1>1. Len(t.mModules) \in Nat
  BY FormedModules
<1>2. ASSUME t.mMode = "record"
      PROVE  /\ mTotalModules' \in 0 .. Len(t.mModules)
             /\ ~infoFailed' => NamesFirst(mTotalModules', infoFile', t)
             /\ pc.by # "api" => mTotalModules' = Len(t.mModules)
  <2>1. CASE pc.by = "dlopen"
    <3>1. UpdateRecordInfoFile(t)
      BY <1>2, <2>1 DEF Return
    <3>2. /\ mTotalModules' = Len(t.mModules)
          /\ ~infoFailed' => NamesFirst(mTotalModules', infoFile', t)
      <4> HIDE DEF t
      <4>1. Formed(t)
        BY DEF t
      <4>2. mTotalModules \in 0 .. Len(t.mModules) /\ (~infoFailed => NamesFirst(mTotalModules, infoFile, t))
        BY <1>2 DEF t
      <4> QED
        BY <1>2, <3>1, <4>1, <4>2, UpdatedFile
    <3> QED
      BY <1>1, <3>2
  <2>2. CASE pc.by # "dlopen"
    <3>1. UNCHANGED <<infoFile, mTotalModules, infoFailed>>
      BY <1>2, <2>2 DEF Return
    <3> QED
      BY <1>2, <2>2, <3>1
  <2> QED
    BY <2>1, <2>2
<1> QED
  BY <1>2 DEF FileInv

LEMMA CheckNewModulesKeepsRecord ==
  ASSUME Shape, Shape', PassInv, RecordInv, CheckNewModules
  PROVE  RecordInv'
<1> DEFINE t == gPatchMgr'
<1>1. /\ pc.at = "check" /\ UNCHANGED slots
      /\ \/ pc' = Idle(pc.by) /\ Return(t)
         \/ pc' = [pc EXCEPT !.at = "modules"] /\ UNCHANGED fileVars
  BY DEF CheckNewModules, Return, fileVars
<1>2. Started /\ Started' /\ Formed(gPatchMgr) /\ Formed(t)
  BY CheckedSettings, EnlargedSettings DEF Shape, SettingsFormed
<1>3. Prolongs(t, gPatchMgr) /\ (~mPatchTried => UNCHANGED gPatchMgr)
  BY CheckedEntries
<1>4. pc.by = "start" => UNCHANGED gPatchMgr
  BY <1>1, <1>3 DEF PassInv
<1>5. Len(t.mModules) \in Nat /\ Len(gPatchMgr.mModules) \in Nat
  BY <1>2, FormedModules
<1>6. /\ t.mMode = gPatchMgr.mMode /\ Len(gPatchMgr.mModules) <= Len(t.mModules)
      /\ \A i \in 1 .. Len(gPatchMgr.mModules) : t.mModules[i] = gPatchMgr.mModules[i]
  BY <1>3 DEF Prolongs
<1>7. /\ \A l, r : Numbers(l, r) => Numbers(l, r)'
      /\ \A n, file : n <= Len(gPatchMgr.mModules) /\ n \in Int /\ NamesFirst(n, file, gPatchMgr)
                        => NamesFirst(n, file, t)
  BY <1>2, <1>5, <1>6, KeptNumbers
<1>8. NumberedInv'
  <2>1. ASSUME NEW i \in 1 .. Len(t.mModules) PROVE NumberedAt(t, i)
    <3>1. CASE i <= Len(gPatchMgr.mModules)
      <4>1. i \in 1 .. Len(gPatchMgr.mModules)
        BY <1>5, <3>1
      <4>2. NumberedAt(gPatchMgr, i)
        BY <1>2, <4>1 DEF RecordInv, NumberedInv
      <4> QED
        BY <1>6, <4>1, <4>2 DEF NumberedAt
    <3>2. CASE ~(i <= Len(gPatchMgr.mModules))
      BY <1>3, <3>2 DEF Prolongs, NewAt
    <3> QED
      BY <3>1, <3>2
  <2> QED
    BY <2>1 DEF NumberedInv
<1>9. RecordedInv'
  BY <1>1, <1>2, <1>6, <1>7 DEF RecordInv, RecordedInv
<1>10. /\ pc.by \in {"start", "api", "dlopen"}
       /\ t.mMode = "record" =>
            /\ mTotalModules \in 0 .. Len(t.mModules)
            /\ ~infoFailed => NamesFirst(mTotalModules, infoFile, t)
            /\ pc.by = "start" => mTotalModules = Len(t.mModules)
  <2>1. /\ pc.by \in {"start", "api", "dlopen"}
        /\ gPatchMgr.mMode = "record" =>
             /\ mTotalModules \in 0 .. Len(gPatchMgr.mModules)
             /\ ~infoFailed => NamesFirst(mTotalModules, infoFile, gPatchMgr)
             /\ pc.by = "start" => mTotalModules = Len(gPatchMgr.mModules)
    BY <1>2 DEF RecordInv, FileInv
  <2>2. ASSUME t.mMode = "record"
        PROVE  mTotalModules \in 0 .. Len(t.mModules) /\ mTotalModules \in Int
                 /\ mTotalModules <= Len(gPatchMgr.mModules)
    BY <1>5, <1>6, <2>1, <2>2
  <2> QED
    BY <1>4, <1>6, <1>7, <2>1, <2>2
<1>11. FileInv'
  <2>1. CASE pc' = Idle(pc.by) /\ Return(t)
    BY <1>2, <1>10, <2>1, IdleFormed, ReturnKeepsFile
  <2>2. CASE pc' = [pc EXCEPT !.at = "modules"] /\ UNCHANGED fileVars
    <3>1. pc'.at = "modules" /\ pc'.by = pc.by
      BY <2>2, ToModulesMoves DEF Shape, At
    <3> QED
      BY <1>2, <1>10, <2>2, <3>1 DEF FileInv, fileVars, Running
  <2> QED
    BY <1>1, <2>1, <2>2
<1> QED
  BY <1>8, <1>9, <1>11 DEF RecordInv

LEMMA SkipModuleKeepsRecord ==
  ASSUME Shape, RecordInv, SkipModule
  PROVE  RecordInv'
<1>1. UNCHANGED <<slots, gPatchMgr, fileVars>> /\ pc.at = "modules"
  BY DEF SkipModule, MoreModules, fileVars
<1>2. pc'.at # "idle" /\ pc'.by = pc.by
  BY SkipModuleMoves DEF Shape, At
<1> QED
  BY <1>1, <1>2, GoneOnRecord DEF Shape

\* The routine that is patched carries the number of the module it is patched into.
LEMMA PatchModuleKeepsRecord ==
  ASSUME Shape, Shape', RecordInv, PatchModule
  PROVE  RecordInv'
<1> DEFINE t == gPatchMgr'
           n == Len(gPatchMgr.mModules)
<1>1. /\ pc.at = "modules" /\ pc.m \in 1 .. n
      /\ NameInCore(Current.mModuleName)
      /\ Patched(TargetOf(Current.mModuleName), ModuleOrder[pc.k], Current.routines)
      /\ pc'.at = "modules" /\ pc'.by = pc.by
  BY PatchModuleCases DEF At
<1>2. /\ Started /\ Started' /\ Formed(gPatchMgr) /\ n \in Nat
      /\ Enlarges(t, gPatchMgr) /\ Len(t.mModules) = n
      /\ \A i \in 1 .. n : /\ t.mModules[i].mModuleName = gPatchMgr.mModules[i].mModuleName
                           /\ t.mModules[i].routines = gPatchMgr.mModules[i].routines
  BY PatchModuleSettings, EnlargedSettings, FormedModules DEF Shape, SettingsFormed
<1>3. t.mMode = gPatchMgr.mMode /\ UNCHANGED fileVars
  BY <1>2 DEF Enlarges, Fields, PatchModule, fileVars
<1>4. NumberedInv'
  BY <1>2, <1>3 DEF RecordInv, NumberedInv, NumberedAt
<1>5. /\ \A l, r : Numbers(l, r) => Numbers(l, r)'
      /\ \A k, file : k <= n /\ k \in Int /\ NamesFirst(k, file, gPatchMgr) => NamesFirst(k, file, t)
  BY <1>2, KeptNumbers
<1>6. ASSUME NEW l \in Libs, l = TargetOf(Current.mModuleName), Current.routines.family = "record"
      PROVE  gPatchMgr.mMode = "record" /\ Numbers(l, Current.routines)
  <2> DEFINE r == Current.routines
  <2>1. gPatchMgr.mMode = "record" /\ r.index = NumberOf(pc.m)
    BY <1>1, <1>2, <1>6 DEF RecordInv, NumberedInv, NumberedAt, Current
  <2>2. ASSUME r.index < MaxModulesToRecord - 1, Unambiguous(l)
        PROVE  r.index + 1 \in 1 .. n /\ Names(l, r.index + 1)
    <3>1. r.index + 1 = pc.m
      BY <1>1, <1>2, <2>1, <2>2, ConfigAssumption DEF NumberOf
    <3>2. BaseName[l] = Current.mModuleName
      BY <1>1, <1>6, <2>2, TargetNamed DEF Shape
    <3> QED
      BY <1>1, <2>2, <3>1, <3>2 DEF Names, Current
  <2> QED
    BY <2>1, <2>2 DEF Numbers
<1>7. RecordedInv'
  <2>1. SUFFICES ASSUME NEW l \in Libs, NEW s \in AllocSlots, slots'[l][s].family = "record"
                 PROVE  gPatchMgr.mMode = "record" /\ Numbers(l, slots'[l][s])
    BY <1>2, <1>3, <1>5 DEF RecordedInv
  <2>2. \/ slots'[l][s] = slots[l][s]
        \/ l = TargetOf(Current.mModuleName) /\ slots'[l][s] = Current.routines
    BY <1>1, PatchedSlot, SlotSets DEF Shape
  <2>3. CASE slots'[l][s] = slots[l][s]
    BY <2>1, <2>3 DEF RecordInv, RecordedInv
  <2>4. CASE l = TargetOf(Current.mModuleName) /\ slots'[l][s] = Current.routines
    BY <1>6, <2>1, <2>4
  <2> QED
    BY <2>2, <2>3, <2>4
<1>8. FileInv'
  <2>1. /\ pc.by \in {"start", "api", "dlopen"}
        /\ gPatchMgr.mMode = "record" =>
             /\ mTotalModules \in 0 .. n
             /\ ~infoFailed => NamesFirst(mTotalModules, infoFile, gPatchMgr)
             /\ pc.by = "start" => mTotalModules = n
    BY <1>2 DEF RecordInv, FileInv
  <2>2. gPatchMgr.mMode = "record" => mTotalModules \in Int /\ mTotalModules <= n
    BY <1>2, <2>1
  <2>3. gPatchMgr.mMode = "record" => (~infoFailed => NamesFirst(mTotalModules, infoFile, t))
    BY <1>5, <2>1, <2>2
  <2> QED
    BY <1>1, <1>2, <1>3, <2>1, <2>3 DEF FileInv, fileVars, Running
<1> QED
  BY <1>4, <1>7, <1>8 DEF RecordInv

LEMMA FinishPatchKeepsRecord ==
  ASSUME Shape, Shape', RecordInv, FinishPatch
  PROVE  RecordInv'
<1>1. /\ pc.at = "modules" /\ UNCHANGED <<slots, gPatchMgr>> /\ Return(gPatchMgr)
      /\ pc'.at = "idle" /\ pc'.by = pc.by
  BY IdleFormed DEF FinishPatch, Return
<1>2. Started /\ Formed(gPatchMgr)
  BY <1>1 DEF Shape, SettingsFormed
<1>3. NumberedInv' /\ RecordedInv' /\ Started'
  BY <1>1, <1>2, SameRecord
<1>4. FileInv'
  BY <1>1, <1>2, <1>3, ReturnKeepsFile DEF RecordInv, FileInv
<1> QED
  BY <1>3, <1>4 DEF RecordInv

LEMMA StepKeepsRecord ==
  ASSUME Shape, Shape', PassInv, RecordInv, [Next]_vars
  PROVE  RecordInv'
<1>1. CASE StartAccuTrak
  BY <1>1, StartKeepsRecord
<1>2. CASE PatchMemRoutines \/ Load \/ Unload
  BY <1>2, EventKeepsRecord
<1>3. CASE PatchGoesOn
  BY <1>3, LoopKeepsRecord, CheckNewModulesKeepsRecord, SkipModuleKeepsRecord, PatchModuleKeepsRecord,
     FinishPatchKeepsRecord DEF PatchGoesOn, PatchStep
<1>4. CASE UNCHANGED vars
  BY <1>4 DEF vars, patchVars, appVars, RecordInv, NumberedInv, RecordedInv, FileInv, Numbers, Names,
     Started, Running
<1> QED
  BY <1>1, <1>2, <1>3, <1>4 DEF Next

LEMMA RecordSuffices ==
  ASSUME Shape, RecordInv
  PROVE  RecordsNameModules
<1>1. SUFFICES ASSUME Running, pc.by # "api", ~infoFailed, NEW l \in InLinkMap, NEW s \in AllocSlots,
                      slots[l][s].family = "record", slots[l][s].index < MaxModulesToRecord - 1,
                      Unambiguous(l)
               PROVE  /\ slots[l][s].index + 1 \in DOMAIN infoFile
                      /\ infoFile[slots[l][s].index + 1] = BaseName[l]
  BY DEF RecordsNameModules, InLinkMap
<1>2. l \in Libs
  BY DEF InLinkMap, Shape, CoreFormed
<1>3. Started /\ gPatchMgr.mMode = "record" /\ Numbers(l, slots[l][s])
  BY <1>1, <1>2 DEF RecordInv, RecordedInv
<1>4. mTotalModules = Len(gPatchMgr.mModules) /\ NamesFirst(mTotalModules, infoFile, gPatchMgr)
  BY <1>1, <1>3 DEF RecordInv, FileInv
<1> QED
  BY <1>1, <1>3, <1>4 DEF Numbers, Names, NamesFirst

\* In record mode the number in every record names, in AccuTrak.rec as it stands when a dlopen
\* or the start has returned, the module that made the call: a routine is patched into the
\* module whose number it carries, numbers are never reassigned when modules are added, and the
\* file is rewritten whenever there are more of them.
THEOREM RecordsNameTheirModules == Spec => []RecordsNameModules
<1>1. Init => RecordInv
  BY RecordInitially
<1>2. Shape /\ Shape' /\ PassInv /\ RecordInv /\ [Next]_vars => RecordInv'
  BY StepKeepsRecord
<1>3. Shape /\ RecordInv => RecordsNameModules
  BY RecordSuffices
<1> QED
  BY <1>1, <1>2, <1>3, ShapeInvariant, PassInvariant, PTL DEF Spec
===============================================================================
