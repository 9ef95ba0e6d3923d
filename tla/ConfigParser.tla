----------------------------- MODULE ConfigParser -----------------------------
(***************************************************************************)
(* The configuration file (src/src/ConfigParser.cpp): what the patch       *)
(* manager is set to after a file has been read line by line.              *)
(*                                                                         *)
(* A line is [key, val]; val is a number where the code calls atoi or      *)
(* atol, a string or a sequence of module names otherwise.  Lines that     *)
(* match no key, comments and values that are refused with a message only  *)
(* leave the settings as they are.  A mode that is misspelt leaves in      *)
(* lCurrentMode whatever the stack holds: it is a line with any mode.      *)
(***************************************************************************)
EXTENDS Integers, Sequences

CONSTANTS
  Libs,           \* the modules (executable and shared objects) there are
  Exec,           \* the executable
  BaseName,       \* GetBaseName of each module's path
  Kind,           \* "user", "usr" (under /usr/) or "system" (skipped everywhere)
  ULongMax,       \* ULONG_MAX
  MaxStackDepth,  \* MAX_STACK_DEPTH
  MaxModulesToRecord \* MAX_MODULES_TO_RECORD

ASSUME ConfigAssumption ==
  /\ Exec \in Libs /\ Kind \in [Libs -> {"user", "usr", "system"}] /\ Kind[Exec] = "user"
  /\ BaseName \in [Libs -> STRING]
  /\ ULongMax \in Nat /\ MaxStackDepth \in Nat /\ MaxModulesToRecord \in Nat \ {0}

\* The lines of a file.
NumberKeys == {"min_block_size", "max_block_size", "alignment", "check_frequency",
               "back_trace_depth", "max_cached_blocks", "max_defer_free_bytes"}
Lines ==
  [key : NumberKeys, val : Int]
    \cup [key : {"modules"}, val : Seq(STRING)]
    \cup [key : {"event"}, val : [mType : STRING, mValue : Int]]
    \cup [key : STRING \ (NumberKeys \cup {"modules", "event"}), val : STRING]

\* What InstallReplacementRoutines installs; none for a mode it does not know.
Modes == {"deadpage", "padding", "private_heap", "record"}
NoRoutines == [family |-> "NULL", index |-> 0]

\* The constructor of PatchManager.
DefaultSettings ==
  [ mMode |-> "deadpage", mModules |-> <<>>, mPatchAllUserModules |-> FALSE,
    self_contained |-> FALSE, patch_dlopen |-> TRUE, incremental_patch |-> TRUE,
    check_underrun |-> FALSE, check_access_freed |-> TRUE, fill_new |-> FALSE,
    flood_free |-> FALSE, patch_debug |-> FALSE, batch_mode |-> FALSE,
    back_trace_free |-> FALSE,
    mMinBlockSize |-> 0, mMaxBlockSize |-> ULongMax, mAlignment |-> 8,
    mCheckFrequency |-> -1, mBackTraceDepth |-> 0, mMaxCachedBlocks |-> 1024,
    mMaxDeferFreeBytes |-> 0, mpOutput |-> "stdout", mOutputLevel |-> "fatal",
    mActionType |-> "output", mEventList |-> <<>>, valid |-> TRUE ]

\* Options that are yes or no.
Flags == {"self_contained", "patch_dlopen", "incremental_patch", "check_underrun",
          "check_access_freed", "fill_new", "flood_free", "patch_debug", "back_trace_free"}

SetFlag(s, key, val) == IF val \in {"yes", "no"} THEN [s EXCEPT ![key] = val = "yes"] ELSE s

\* A long compared with an unsigned long is converted.
Unsigned(n) == n % (ULongMax + 1)

SetMinBlockSize(s, n) ==
  IF Unsigned(n) <= s.mMaxBlockSize THEN [s EXCEPT !.mMinBlockSize = Unsigned(n)] ELSE s

SetMaxBlockSize(s, n) ==
  IF Unsigned(n) >= s.mMinBlockSize THEN [s EXCEPT !.mMaxBlockSize = Unsigned(n)] ELSE s

\* Bug: one power too many.
BugAlignments == {2 ^ n : n \in 0 .. 9}

\* The alignments accepted.
Alignments == {2 ^ n : n \in 0 .. 8}

SetAlignment(s, n) == IF n \in Alignments THEN [s EXCEPT !.mAlignment = n] ELSE s

SetBackTraceDepth(s, n) ==
  IF n <= 0 THEN s
  ELSE [s EXCEPT !.mBackTraceDepth = IF n > MaxStackDepth THEN MaxStackDepth ELSE n]

SetMaxCachedBlocks(s, n) ==
  IF n >= 32 /\ n <= 1024 * 1024 THEN [s EXCEPT !.mMaxCachedBlocks = n] ELSE s

SetMaxDeferFreeBytes(s, n) ==
  IF n >= 4096 THEN [s EXCEPT !.mMaxDeferFreeBytes = n] ELSE s

-------------------------------------------------------------------------------
(* Modules and mode *)

\* InstallReplacementRoutines with the mode known so far.  A record mode routine carries
\* the number of its module.
Routines(mode, number) ==
  IF mode \notin Modes THEN NoRoutines
  ELSE [family |-> mode,
        index |-> IF mode # "record" THEN 0
                  ELSE IF number >= MaxModulesToRecord THEN MaxModulesToRecord - 1 ELSE number]

Listed(s, name) == \E i \in DOMAIN s.mModules : s.mModules[i].mModuleName = name

\* Bug: the routines are left to CheckConfigOptions.
BugAddModule(s, name) ==
  IF Listed(s, name) THEN s
  ELSE [s EXCEPT !.mModules =
          Append(@, [mModuleName |-> IF name = "exec" THEN BaseName[Exec] ELSE name,
                     routines |-> NoRoutines,
                     mPatched |-> FALSE])]

\* AddModule: "exec" stands for the executable, but duplicates are looked for before it is
\* replaced.
AddModule(s, name) ==
  IF Listed(s, name) THEN s
  ELSE [s EXCEPT !.mModules =
          Append(@, [mModuleName |-> IF name = "exec" THEN BaseName[Exec] ELSE name,
                     routines |-> Routines(s.mMode, Len(@)),
                     mPatched |-> FALSE])]

AddModules(s, names) ==
  LET upTo[i \in 0 .. Len(names)] == IF i = 0 THEN s ELSE AddModule(upTo[i - 1], names[i])
  IN  upTo[Len(names)]

SetModules(s, names) ==
  IF names = <<"all">> THEN [s EXCEPT !.mPatchAllUserModules = TRUE]
  ELSE IF s.mPatchAllUserModules THEN s
  ELSE AddModules(s, names)

\* A mode other than the default can be chosen once.
SetMode(s, mode) ==
  IF s.mMode # "deadpage" /\ s.mMode # mode THEN [s EXCEPT !.valid = FALSE]
  ELSE [s EXCEPT !.mMode = mode]

-------------------------------------------------------------------------------
(* Output and events *)

SetBatchMode(s, val) ==
  IF val = "yes" /\ s.mpOutput \in {"stdout", "stderr"}
  THEN [s EXCEPT !.batch_mode = TRUE, !.mpOutput = "NULL"]
  ELSE SetFlag(s, "batch_mode", val)

\* output=: a file that cannot be opened ends the parsing.
SetOutput(s, val) ==
  CASE val = ""          -> s
    [] val = "cannot open" -> [s EXCEPT !.mpOutput = "NULL", !.valid = FALSE]
    [] OTHER             -> [s EXCEPT !.mpOutput = val]

SetEventAction(s, val) == IF val \in {"output", "pause"} THEN [s EXCEPT !.mActionType = val] ELSE s

AddEvent(s, event) ==
  IF event.mType \in {"malloc", "malloc_around", "free", "free_around"}
  THEN [s EXCEPT !.mEventList = <<event>> \o @] ELSE s

SetMessageLevel(s, val) ==
  IF val \in {"none", "fatal", "error", "info", "all"} THEN [s EXCEPT !.mOutputLevel = val] ELSE s

-------------------------------------------------------------------------------
(* ParseConfigFile *)

\* One line of the file; after a fatal one the rest is not read.
ParseLine(s, line) ==
  IF ~s.valid THEN s ELSE
  CASE line.key \in Flags              -> SetFlag(s, line.key, line.val)
    [] line.key = "modules"            -> SetModules(s, line.val)
    [] line.key = "mode"               -> SetMode(s, line.val)
    [] line.key = "min_block_size"     -> SetMinBlockSize(s, line.val)
    [] line.key = "max_block_size"     -> SetMaxBlockSize(s, line.val)
    [] line.key = "alignment"          -> SetAlignment(s, line.val)
    [] line.key = "check_frequency"    -> [s EXCEPT !.mCheckFrequency = line.val]
    [] line.key = "back_trace_depth"   -> SetBackTraceDepth(s, line.val)
    [] line.key = "batch_mode"         -> SetBatchMode(s, line.val)
    [] line.key = "output"             -> SetOutput(s, line.val)
    [] line.key = "event_action"       -> SetEventAction(s, line.val)
    [] line.key = "event"              -> AddEvent(s, line.val)
    [] line.key = "max_cached_blocks"  -> SetMaxCachedBlocks(s, line.val)
    [] line.key = "max_defer_free_bytes" -> SetMaxDeferFreeBytes(s, line.val)
    [] line.key = "message_level"      -> SetMessageLevel(s, line.val)
    [] OTHER                           -> s

\* AddAllModulesInCore: the modules of the application, by base name.
AddModuleInCore(s, lib) == IF Kind[lib] = "user" THEN AddModule(s, BaseName[lib]) ELSE s

AddAllModulesInCore(s, core) ==
  LET upTo[i \in 0 .. Len(core)] == IF i = 0 THEN s ELSE AddModuleInCore(upTo[i - 1], core[i])
  IN  upTo[Len(core)]

\* CheckConfigOptions installs the routines of the modules that have none yet.
InstallMissing(mode, mModules) ==
  [i \in DOMAIN mModules |->
     IF mModules[i].routines = NoRoutines
     THEN [mModules[i] EXCEPT !.routines = Routines(mode, i - 1)]
     ELSE mModules[i]]

\* CheckConfigOptions
CheckConfigOptions(s, core) ==
  LET all == \/ s.mPatchAllUserModules
             \/ s.mModules = <<>> /\ s.mMode \in {"deadpage", "padding"}
      listed == IF all THEN AddAllModulesInCore(s, core) ELSE s
  IN  [listed EXCEPT !.mModules = InstallMissing(s.mMode, @)]

ParsedUpTo(file) ==
  LET upTo[i \in 0 .. Len(file)] ==
        IF i = 0 THEN DefaultSettings ELSE ParseLine(upTo[i - 1], file[i])
  IN  upTo

\* The settings made by a file; valid says whether the patch manager is initialized.
ParseConfigFile(file, core) ==
  LET s == ParsedUpTo(file)[Len(file)]
  IN  IF s.valid THEN CheckConfigOptions(s, core) ELSE s
===============================================================================
