----------------------------- MODULE PatchManager -----------------------------
(***************************************************************************)
(* The patch manager (src/src/PatchManager.cpp): it overwrites the slots   *)
(* through which the modules of a process call malloc, free and dlopen, at *)
(* start-up and again whenever an intercepted dlopen loads another module. *)
(*                                                                         *)
(* A step is one call of PatchFunction, so that the other threads of the   *)
(* application, which may call through any slot at any time, see every     *)
(* state between two of them.  One thread at a time loads or unloads       *)
(* modules or patches.                                                     *)
(***************************************************************************)
EXTENDS ConfigParser, FiniteSets, SequencesExt

CONSTANTS
  PathContains, \* the names each module's path contains, its base name included
  InfoFails     \* may AccuTrak.rec fail to open?

ASSUME PatchAssumption ==
  /\ \A l \in Libs : BaseName[l] \in PathContains[l] /\ BaseName[Exec] \in PathContains[l]
  /\ PathContains[Exec] = {BaseName[Exec]} \* the executable's path is empty
  /\ \A l \in Libs \ {Exec} : BaseName[l] # BaseName[Exec]
  /\ InfoFails \in BOOLEAN

\* The order in which the slots of a module are patched by each of the three loops.
FreeOrder == <<"free", "realloc", "delete", "delete[]">>
DlopenOrder == <<"dlopen", "dlclose">>
ModuleOrder == <<"free", "realloc", "calloc", "malloc", "delete", "delete[]", "new", "new[]">>

ReleaseSlots == {"free", "realloc", "delete", "delete[]"}
AllocSlots == {"malloc", "calloc", "realloc", "new", "new[]"}
Slots == ReleaseSlots \cup AllocSlots \cup {"dlopen", "dlclose"}

\* What a slot calls before it is patched, and what the dlopen slots call afterwards.
Default == [family |-> "default", index |-> 0]
Intercepted == [family |-> "accutrak", index |-> 0]

VARIABLES
  core,           \* the link map: the loaded modules, in its order
  slots,          \* the routine in each slot of each module
  gPatchMgr,      \* the settings, with mModules; Off before the start
  mPatchFinished,
  mPatchTried,
  mPatchedList,   \* the routines each module is marked as patched with
  infoFile,       \* the names in AccuTrak.rec
  mTotalModules,  \* of the header of AccuTrak.rec
  pc,             \* where Patch is, with its locals
  infoFailed      \* has AccuTrak.rec failed to open? (history variable)

patchVars == <<core, slots, gPatchMgr, mPatchFinished, mPatchTried, mPatchedList,
               infoFile, mTotalModules, pc, infoFailed>>

Off == [mMode |-> "off", mModules |-> <<>>]
Started == gPatchMgr # Off

\* at: the loop; i: the module of the link map it is at; k: the slot of that module;
\* m: the configured module; installed: lbDlopenInstalled; rc; back: where PatchDlopen
\* returns to; by: who called Patch.
Idle(by) == [at |-> "idle", i |-> 1, k |-> 1, m |-> 1, installed |-> FALSE, rc |-> TRUE,
             back |-> "idle", by |-> by]
Running == pc.at = "idle"

LoadedFirst(initial) ==
  /\ core = initial
  /\ slots = [l \in Libs |-> [s \in Slots |-> Default]]
  /\ gPatchMgr = Off
  /\ mPatchFinished = TRUE
  /\ mPatchTried = FALSE
  /\ mPatchedList = [l \in Libs |-> {}]
  /\ infoFile = <<>> /\ mTotalModules = 0
  /\ pc = Idle("nobody")
  /\ infoFailed = FALSE

-------------------------------------------------------------------------------
InCore(lib) == \E i \in DOMAIN core : core[i] = lib

\* GetModuleHandleInCore: by base name.
NameInCore(name) == \E i \in DOMAIN core : BaseName[core[i]] = name

\* PatchFunction looks for the first module whose path contains the name it is given,
\* whichever module its caller means.
TargetOf(name) ==
  core[CHOOSE i \in DOMAIN core :
         name \in PathContains[core[i]]
           /\ \A j \in 1 .. i - 1 : name \notin PathContains[core[j]]]

Patched(lib, slot, routine) == slots' = [slots EXCEPT ![lib][slot] = routine]

\* UpdateRecordInfoFile.  The count is set before the file is opened.
UpdateRecordInfoFile(mgr) ==
  IF mgr.mMode # "record" \/ mTotalModules = Len(mgr.mModules)
  THEN UNCHANGED <<infoFile, mTotalModules, infoFailed>>
  ELSE /\ mTotalModules' = Len(mgr.mModules)
       /\ \/ /\ infoFile' = [i \in DOMAIN mgr.mModules |-> mgr.mModules[i].mModuleName]
             /\ UNCHANGED infoFailed
          \/ /\ InfoFails
             /\ infoFailed' = TRUE
             /\ UNCHANGED infoFile

\* InitPrivateHeaps: only with a heap library that offers private heaps, which dlopen may
\* fail to find.
InitPrivateHeaps == BOOLEAN

\* Patch begins, by initializing the private heaps if the mode needs them.
\* Catch-all routines are those of the first configured module.
BeginPatch(mgr, by) ==
  \/ pc' = [Idle(by) EXCEPT !.at = IF mgr.self_contained THEN "check"
                                   ELSE IF mgr.mMode # "record" /\ mgr.mModules # <<>> THEN "free"
                                   ELSE IF mgr.patch_dlopen THEN "dlopen" ELSE "check",
                            !.back = "check"]
  \/ mgr.mMode = "private_heap" /\ FALSE \in InitPrivateHeaps /\ pc' = Idle(by)

-------------------------------------------------------------------------------
(* PatchCatchAllFree, PatchDlopen: loops over the modules in core *)

\* Is the module at the loop's position to be left alone?
Skipped(mark, kinds) ==
  \/ Kind[core[pc.i]] \in kinds
  \/ gPatchMgr.incremental_patch /\ mark \in mPatchedList[core[pc.i]]

\* The position moves on to the next module, or the loop ends.
Advance(after) ==
  pc' = IF pc.i < Len(core) THEN [pc EXCEPT !.i = @ + 1, !.k = 1]
        ELSE [pc EXCEPT !.at = after, !.i = 1, !.k = 1,
                        !.installed = @ \/ pc.at = "dlopen"]

\* The next slot of the module is patched; after the last one the module is marked.
PatchNext(order, routine, mark, after) ==
  /\ Patched(core[pc.i], order[pc.k], routine)
  /\ IF pc.k < Len(order)
     THEN pc' = [pc EXCEPT !.k = @ + 1] /\ UNCHANGED mPatchedList
     ELSE /\ Advance(after)
          /\ mPatchedList' = IF gPatchMgr.incremental_patch
                             THEN [mPatchedList EXCEPT ![core[pc.i]] = @ \cup {mark}]
                             ELSE mPatchedList

AfterFree == IF gPatchMgr.patch_dlopen THEN "dlopen" ELSE "check"

PatchCatchAllFree ==
  /\ pc.at = "free"
  /\ \/ /\ Skipped("free", {"system"})
        /\ Advance(AfterFree)
        /\ UNCHANGED <<slots, mPatchedList>>
     \/ /\ ~Skipped("free", {"system"})
        /\ PatchNext(FreeOrder, gPatchMgr.mModules[1].routines, "free", AfterFree)
  /\ UNCHANGED <<core, gPatchMgr, mPatchFinished, mPatchTried, infoFile, mTotalModules, infoFailed>>

PatchDlopen ==
  /\ pc.at = "dlopen"
  /\ \/ /\ Skipped("dlopen", {"usr", "system"})
        /\ Advance(pc.back)
        /\ UNCHANGED <<slots, mPatchedList>>
     \/ /\ ~Skipped("dlopen", {"usr", "system"})
        /\ PatchNext(DlopenOrder, Intercepted, "dlopen", pc.back)
  /\ UNCHANGED <<core, gPatchMgr, mPatchFinished, mPatchTried, infoFile, mTotalModules, infoFailed>>

-------------------------------------------------------------------------------
(* The modules that are configured *)

\* Bug: the information file is not brought up to date.
BugReturn(mgr) == pc' = Idle(pc.by) /\ UNCHANGED <<infoFile, mTotalModules, infoFailed>>

\* The return of Patch.  PostDlopen brings the information file up to date.
Return(mgr) ==
  /\ pc' = Idle(pc.by)
  /\ IF pc.by = "dlopen" THEN UpdateRecordInfoFile(mgr)
     ELSE UNCHANGED <<infoFile, mTotalModules, infoFailed>>

\* Bug: modules that are found later do not reopen the patching.
BugReopened(mgr) == mPatchFinished

\* mPatchFinished once the modules in core have been looked at again.
Reopened(mgr) == mPatchFinished /\ Len(mgr.mModules) = Len(gPatchMgr.mModules)

\* All user modules in core are listed anew if that was asked for and this is not the first
\* time; if nothing is left to patch, Patch returns.
CheckNewModules ==
  /\ pc.at = "check"
  /\ LET mgr == IF mPatchTried /\ gPatchMgr.mPatchAllUserModules
                THEN AddAllModulesInCore(gPatchMgr, core) ELSE gPatchMgr
     IN  /\ gPatchMgr' = mgr
         /\ mPatchFinished' = Reopened(mgr)
         /\ IF Reopened(mgr) /\ mgr.incremental_patch
            THEN Return(mgr)
            ELSE pc' = [pc EXCEPT !.at = "modules"] /\ UNCHANGED <<infoFile, mTotalModules, infoFailed>>
  /\ UNCHANGED <<core, slots, mPatchTried, mPatchedList>>

MoreModules == pc.at = "modules" /\ pc.m <= Len(gPatchMgr.mModules)
Current == gPatchMgr.mModules[pc.m]
Due == ~(Current.mPatched /\ gPatchMgr.incremental_patch)

\* A module already patched, or not in core: dlopen is patched so that it can be done later.
SkipModule ==
  /\ MoreModules
  /\ ~Due \/ ~NameInCore(Current.mModuleName)
  /\ IF Due /\ ~pc.installed /\ gPatchMgr.patch_dlopen
     THEN pc' = [pc EXCEPT !.m = @ + 1, !.rc = FALSE, !.at = "dlopen", !.back = "modules"]
     ELSE pc' = [pc EXCEPT !.m = @ + 1, !.rc = @ /\ ~Due]
  /\ UNCHANGED <<core, slots, gPatchMgr, mPatchFinished, mPatchTried, mPatchedList,
                 infoFile, mTotalModules, infoFailed>>

\* The next slot of a configured module.
PatchModule ==
  /\ MoreModules
  /\ Due /\ NameInCore(Current.mModuleName)
  /\ Patched(TargetOf(Current.mModuleName), ModuleOrder[pc.k], Current.routines)
  /\ IF pc.k < Len(ModuleOrder)
     THEN pc' = [pc EXCEPT !.k = @ + 1] /\ UNCHANGED gPatchMgr
     ELSE /\ pc' = [pc EXCEPT !.k = 1, !.m = @ + 1]
          /\ gPatchMgr' = [gPatchMgr EXCEPT !.mModules[pc.m].mPatched = TRUE]
  /\ UNCHANGED <<core, mPatchFinished, mPatchTried, mPatchedList, infoFile, mTotalModules, infoFailed>>

FinishPatch ==
  /\ pc.at = "modules" /\ pc.m > Len(gPatchMgr.mModules)
  /\ mPatchFinished' = (mPatchFinished \/ pc.rc)
  /\ mPatchTried' = TRUE
  /\ Return(gPatchMgr)
  /\ UNCHANGED <<core, slots, gPatchMgr, mPatchedList>>

PatchStep ==
  PatchCatchAllFree \/ PatchDlopen \/ CheckNewModules \/ SkipModule \/ PatchModule \/ FinishPatch

-------------------------------------------------------------------------------
(* Modules come and go *)

\* Bug: the marks stay.
BugClearPatchStatus(loaded) == mPatchedList

\* ClearPatchStatus: of the modules whose base name is not in core any more.
ClearPatchStatus(loaded) ==
  [l \in Libs |-> IF \E i \in DOMAIN loaded : BaseName[loaded[i]] = BaseName[l]
                  THEN mPatchedList[l] ELSE {}]

\* Does PostDlopen patch?
PatchesAfterDlopen == ~mPatchFinished \/ ~gPatchMgr.self_contained

\* A call of dlopen in module caller loads lib; it comes back patched if it was intercepted
\* (lib's constructors have run before).
Dlopen(caller, lib) ==
  /\ Running
  /\ InCore(caller) /\ ~InCore(lib)
  /\ core' = Append(core, lib)
  /\ IF slots[caller]["dlopen"] = Intercepted /\ PatchesAfterDlopen
     THEN BeginPatch(gPatchMgr, "dlopen")
     ELSE UNCHANGED pc
  /\ UNCHANGED <<slots, gPatchMgr, mPatchFinished, mPatchTried, mPatchedList,
                 infoFile, mTotalModules, infoFailed>>

\* dlclose: the module goes, with what has been patched into it.
Dlclose(caller, lib) ==
  /\ Running
  /\ InCore(caller) /\ InCore(lib) /\ caller # lib
  /\ \E i \in DOMAIN core : core[i] = lib /\ core' = RemoveAt(core, i)
  /\ slots' = [slots EXCEPT ![lib] = [s \in Slots |-> Default]]
  /\ mPatchedList' = IF slots[caller]["dlclose"] = Intercepted /\ gPatchMgr.incremental_patch
                     THEN ClearPatchStatus(core') ELSE mPatchedList
  /\ UNCHANGED <<gPatchMgr, mPatchFinished, mPatchTried, infoFile, mTotalModules, pc, infoFailed>>
===============================================================================
