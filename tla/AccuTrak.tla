------------------------------- MODULE AccuTrak -------------------------------
(***************************************************************************)
(* AccuTrak in a process (src/src/AccuTrak.cpp): the library reads its     *)
(* configuration and patches the process when it is loaded, or, with       *)
(* AT_DELAY_START, when the application calls for it; the application      *)
(* loads and unloads modules and may ask for another patch.                *)
(***************************************************************************)
EXTENDS PatchManager

CONSTANTS
  ConfigFiles,   \* the configuration files there may be
  InitialCores,  \* the link maps of the process before AccuTrak starts
  Closable,      \* the modules the application loads and unloads
  MaxEvents      \* bound: calls of the application

ASSUME AccuTrakAssumption ==
  /\ ConfigFiles \subseteq Seq(Lines)
  /\ \A c \in InitialCores : /\ c \in Seq(Libs) /\ c # <<>> /\ c[1] = Exec
                             /\ \A i, j \in DOMAIN c : c[i] = c[j] => i = j
  /\ Closable \subseteq Libs \ {Exec}
  /\ MaxEvents \in Nat

VARIABLES
  config,    \* the configuration file
  process,   \* "running" or "crashed"
  events,    \* calls of the application so far
  unseen,    \* modules loaded since, or by the dlopen that made, the last Patch (history variable)
  forgotten, \* modules unloaded without the patch manager's knowledge (history variable)
  reloaded   \* modules that have been unloaded since they were first loaded (history variable)

appVars == <<config, process, events, unseen, forgotten, reloaded>>
vars == <<patchVars, appVars>>

Init ==
  /\ config \in ConfigFiles
  /\ \E c \in InitialCores : LoadedFirst(c)
  /\ process = "running"
  /\ events = 0
  /\ unseen = {} /\ forgotten = {} /\ reloaded = {}

\* An application call.
Event == process = "running" /\ Running /\ events < MaxEvents /\ events' = events + 1

\* The destructor of PatchManager asks for the file number of an output that may be NULL.
StartFailed(s) ==
  /\ process' = IF s.mpOutput = "NULL" THEN "crashed" ELSE process
  /\ UNCHANGED gPatchMgr

\* AT_StartAccuTrak, by AT_Initializer or the application.
StartAccuTrak ==
  /\ Event
  /\ ~Started
  /\ LET s == ParseConfigFile(config, core)
     IN  IF s.valid
         THEN /\ gPatchMgr' = s
              /\ mPatchFinished' = (s.mModules = <<>>)
              /\ UpdateRecordInfoFile(s)
              /\ BeginPatch(s, "start")
              /\ unseen' = {}
              /\ UNCHANGED process
         ELSE /\ StartFailed(s)
              /\ UNCHANGED <<unseen, mPatchFinished, infoFile, mTotalModules, infoFailed, pc>>
  /\ UNCHANGED <<core, slots, mPatchTried, mPatchedList, config, forgotten, reloaded>>

\* AT_PatchMemRoutines
PatchMemRoutines ==
  /\ Event
  /\ Started
  /\ BeginPatch(gPatchMgr, "api")
  /\ UNCHANGED <<core, slots, gPatchMgr, mPatchFinished, mPatchTried, mPatchedList, infoFile,
                 mTotalModules, infoFailed, config, process, unseen, forgotten, reloaded>>

Load ==
  /\ Event
  /\ \E caller \in Libs, lib \in Closable : Dlopen(caller, lib) /\ unseen' = unseen \cup {lib}
  /\ UNCHANGED <<config, process, forgotten, reloaded>>

\* An intercepted dlclose makes up for the ones before that were not.
Unload ==
  /\ Event
  /\ \E caller \in Libs, lib \in Closable :
       /\ Dlclose(caller, lib)
       /\ unseen' = unseen \ {lib}
       /\ reloaded' = reloaded \cup {lib}
       /\ forgotten' =
            IF slots[caller]["dlclose"] # Intercepted THEN forgotten \cup {lib}
            ELSE {l \in forgotten \cup {lib} :
                    \E i \in DOMAIN core' : BaseName[core'[i]] = BaseName[l]}
  /\ UNCHANGED <<config, process>>

\* The first patch that is tried does not look for new modules, though it may come long
\* after the start if private heaps failed then.
StillUnseen ==
  IF gPatchMgr.mPatchAllUserModules /\ ~mPatchTried /\ pc.by # "start" THEN unseen ELSE {}

PatchGoesOn ==
  /\ process = "running"
  /\ PatchStep
  /\ unseen' = IF pc'.at = "idle" THEN StillUnseen ELSE unseen
  /\ UNCHANGED <<config, process, events, forgotten, reloaded>>

Next == StartAccuTrak \/ PatchMemRoutines \/ Load \/ Unload \/ PatchGoesOn

Spec == Init /\ [][Next]_vars

-------------------------------------------------------------------------------
(* Properties *)

\* The modules other threads can be in: loaded, seen by the patch manager, not forgotten.
Exposed == {core[i] : i \in DOMAIN core} \ (unseen \cup forgotten)

\* Routines whose blocks the default routines cannot release.
Tracking == {"deadpage", "padding", "private_heap"}

\* The slots through which a block from another slot is released.
ReleasedBy(slot) ==
  CASE slot = "new"   -> {"delete"}
    [] slot = "new[]" -> {"delete[]"}
    [] OTHER          -> {"free", "realloc"}

\* No module's path contains the other's name.  (The executable is always the first.)
Unambiguous(l) ==
  l = Exec \/ \A k \in Libs \ {l, Exec} : /\ BaseName[l] \notin PathContains[k]
                                         /\ BaseName[k] \notin PathContains[l]

\* Loaded since the last patch, or, when patching is incremental, loaded again: a module is
\* not patched twice.
Missed == unseen \cup (IF gPatchMgr.incremental_patch THEN reloaded ELSE {})

\* The group of a self-contained configuration: "All malloc/free are within selected modules,
\* no one cross boudary" (DesignDoc.txt, line 79).  It is complete between patches.
Group ==
  {l \in {core[i] : i \in DOMAIN core} :
     Running /\ Unambiguous(l) /\ Listed(gPatchMgr, BaseName[l])} \ Missed

\* The modules that may release what module l makes with a slot.  Otherwise than in a group it
\* may be any module but the system's, which the code leaves alone; for the blocks realloc
\* makes, only between patches, since a patch takes realloc of one module before free of the
\* next.
Releasers(l, slot) ==
  {l} \cup
    IF gPatchMgr.self_contained THEN Group
    ELSE {e \in Exposed : Kind[e] # "system" /\ (slot = "realloc" => Running)}

\* All modules have routines of one family, and where no loop gives every module a free they
\* have that of the mode.  (Files that list modules before they choose the mode mix routines:
\* see ModeInstalled.)
RoutinesAgree ==
  \A i \in DOMAIN gPatchMgr.mModules :
    LET family == gPatchMgr.mModules[i].routines.family IN
    /\ family = gPatchMgr.mModules[1].routines.family
    /\ gPatchMgr.mMode = "record" /\ ~gPatchMgr.self_contained => family = "record"

\* While a slot of any module leads to an allocating routine, no thread releases its blocks
\* with a routine that does not know them, be it in that module or in another that may
\* release them; at every step of a patch, and however modules have come and gone.  (Left out
\* are modules that come and go by calls that are not intercepted; and the other modules of
\* a group while it is being patched.)
ReleasesCovered ==
  RoutinesAgree =>
    \A l \in {core[i] : i \in DOMAIN core} : \A s \in AllocSlots :
      slots[l][s].family \in Tracking =>
        \A d \in Releasers(l, s) : \A r \in ReleasedBy(s) :
          slots[d][r].family = slots[l][s].family

\* The modules whose allocations are to be tracked: those that are listed, and with
\* modules=all every module of the application.
Wanted ==
  {core[i] : i \in {j \in DOMAIN core :
     /\ Unambiguous(core[j])
     /\ \/ Listed(gPatchMgr, BaseName[core[j]])
        \/ /\ gPatchMgr.mPatchAllUserModules /\ ~gPatchMgr.self_contained
           /\ Kind[core[j]] = "user"}}

\* Between patches every module that is to be tracked is, even if it was loaded long after
\* the start; one that is loaded again only if patching is not incremental.
AllocationsTracked ==
  mPatchTried /\ Running =>
    \A l \in Wanted \ Missed :
      \A s \in AllocSlots : slots[l][s].family # "default"

\* The module numbers in the records of a process name the modules that made the calls:
\* AccuTrak.rec is up to date whenever a dlopen or the start has returned.  The last number
\* is shared by all the modules that are too many.
RecordsNameModules ==
  Running /\ pc.by # "api" /\ ~infoFailed =>
    \A l \in {core[i] : i \in DOMAIN core} : \A s \in AllocSlots :
      LET r == slots[l][s] IN
      r.family = "record" /\ r.index < MaxModulesToRecord - 1 /\ Unambiguous(l) =>
        r.index + 1 \in DOMAIN infoFile /\ infoFile[r.index + 1] = BaseName[l]

\* The alignments, cache sizes and amounts of deferred memory the replacement routines are
\* written for.
Aligned(n) == \E power \in 0 .. 8 : n = 2 ^ power
Cacheable(n) == n \in 32 .. 1024 * 1024
Deferrable(n) == n = 0 \/ n >= 4096

\* What the replacement routines are given is within the bounds they are written for,
\* whatever the file says and in whatever order.
SettingsSane ==
  Started => /\ gPatchMgr.mMinBlockSize <= gPatchMgr.mMaxBlockSize
             /\ Aligned(gPatchMgr.mAlignment)
             /\ gPatchMgr.mBackTraceDepth \in 0 .. MaxStackDepth
             /\ Cacheable(gPatchMgr.mMaxCachedBlocks)
             /\ Deferrable(gPatchMgr.mMaxDeferFreeBytes)

\* In the file the mode is chosen before modules are listed.
ModeComesFirst(file) ==
  \A i, j \in DOMAIN file : file[i].key = "modules" /\ file[j].key = "mode" => j < i

\* Every module gets the routines of the mode, however late it is found.  Only of files that
\* choose the mode first: a module that is "declared before mode is chosen" has "its
\* replacement routine [...] not installed yet" for ConfigParser.cpp (line 680), which leaves
\* it to CheckConfigOptions; but dead pages are the mode from the start, and it keeps theirs.
ModeInstalled ==
  Started /\ ModeComesFirst(config) =>
    \A i \in DOMAIN gPatchMgr.mModules :
      gPatchMgr.mModules[i].routines.family = Routines(gPatchMgr.mMode, 0).family
================================================================================
