------------------------------ MODULE LogPipeline ------------------------------
(***************************************************************************)
(* Recording an application (MallocLogger) and consolidating what it left  *)
(* behind (Consolidator): the log files of a process that has ended, in    *)
(* whatever order the directory lists them, are the consolidator's input,  *)
(* and the log it writes is what the replay tool relies on.  The viewer    *)
(* (LogViewer) lists the same files.                                       *)
(***************************************************************************)
EXTENDS MallocLogger, Consolidator, LogViewer

\* NULL in the application is NULL in its records.
ASSUME PipelineAssumption == NullPtr = Null

vars == <<loggerVars, consVars>>

Init == LoggerInit /\ ConsolidatorInit

\* The threads that have a file, in the order in which the directory lists the files.
LoggedThreads == {t \in Threads : files[t] # Null}
Listings ==
  {l \in [1 .. Cardinality(LoggedThreads) -> LoggedThreads] :
     \A i, j \in DOMAIN l : l[i] = l[j] => i = j}

Consolidate ==
  /\ process \in {"ended", "killed"}
  /\ LoggedThreads # {}
  /\ \E l \in Listings : LoadLogFiles([i \in DOMAIN l |-> files[l[i]]])
  /\ UNCHANGED loggerVars

Next ==
  \/ LoggerNext /\ UNCHANGED consVars
  \/ Consolidate
  \/ ConsolidatorNext /\ UNCHANGED loggerVars

\* The application may stop anywhere; the consolidator runs until it is finished.
Spec == Init /\ [][Next]_vars /\ WF_vars(ConsolidatorStep /\ UNCHANGED loggerVars)

-------------------------------------------------------------------------------
(* Properties *)

Numbers(records) == [k \in DOMAIN records |-> records[k].n]

\* The operations of a log file and of what its thread still has to log, in their order.
LogOf(t) ==
  Numbers(FileOf(t)) \o (IF tls[t] = Null THEN <<>> ELSE Numbers(tls[t].mBuffer))
    \o (IF pc[t] = "log" THEN <<made[t].n>> ELSE <<>>)

\* While the process runs and no file operation has failed, file, buffer and pending record
\* of the threads hold every logged operation once, each thread's in the order of its
\* operations and with time stamps that do not decrease: whatever the buffer's state when a
\* record does not fit, or when a thread exits and comes back.  Operations are missing only
\* if they were made by a thread without FileControl, after exit.
LogsComplete ==
  process = "running" /\ ~ioFailed =>
    /\ \A t \in Threads : \A i, j \in DOMAIN LogOf(t) : i < j => LogOf(t)[i] < LogOf(t)[j]
    /\ \A t1, t2 \in Threads : t1 # t2 =>
         {LogOf(t1)[i] : i \in DOMAIN LogOf(t1)} \cap {LogOf(t2)[i] : i \in DOMAIN LogOf(t2)} = {}
    /\ ~gProcessExitting =>
         \A n \in DOMAIN history : \E t \in Threads : \E i \in DOMAIN LogOf(t) : LogOf(t)[i] = n
    /\ \A t \in Threads : \A i, j \in DOMAIN FileOf(t) :
         i < j => FileOf(t)[i].mTimeStamp <= FileOf(t)[j].mTimeStamp

\* The log written is one the replay tool can rely on, whatever logs it was made from
\* (stamps that tie, releases logged late, records lost at exit), and mTotalRecords of its
\* header is the number of its operations.
OutputMatched ==
  phase = "done" => Matched(out) /\ totalRecords - 1 = Len(Operations(out))

\* Between an allocation and its release by another thread there is a time stamp, at
\* which the replay tool lets its threads meet.
OutputSeparated == phase \in {"merge", "mark", "done"} => CrossSeparated(out)

\* Operation n touches address a if it makes or releases a block there.
Touches(n, a) == history[n].block = a \/ history[n].old = a

\* A realloc for which there was no memory: its record does not tell it from one that took effect.
Failed(r) == r.mType = "realloc" /\ r.block = Null /\ r.mSize # 0

\* The first k records written show the operations on address a as they happened: all of
\* them up to the k-th record's, in their order, and no realloc among them that failed.
InOrderAt(a, k) ==
  LET shown == {j \in 1 .. k : Touches(merged[j].n, a)}
  IN  /\ \A i, j \in shown : i < j => merged[i].n < merged[j].n
      /\ {merged[j].n : j \in shown} = {n \in 1 .. merged[k].n : Touches(n, a)}
      /\ \A j \in shown \ {k} : ~Failed(merged[j])

\* Where the records of an address are in the order of the operations, every release is
\* paired with the allocation of the very block it released.
PairedTruly ==
  phase = "done" =>
    \A k \in DOMAIN merged :
      LET r == merged[k]
          m == Operations(out)[k].mMatchedMalloc
      IN  r.mType # "malloc" /\ r.old # Null /\ InOrderAt(r.old, k) =>
            m # 0 /\ merged[m].n = history[r.n].released

\* The viewer and the consolidator tell the same story: the consolidated log has the
\* operations that the viewer lists by time (the first MaxRecNum - 1 of them, and without
\* the releases of NULL), in that order, also where stamps tie and files are cut off; the
\* viewer's totals are those of its list.  (The run reaches the limit but has no more operations.)
ViewsAgree ==
  phase = "done" =>
    LET view == PreprocessAllRecords(logFiles)
        shown == SelectSeq(view, LAMBDA r : ~IsSkipped(r))
        totals == PrintStatsPerModule(logFiles)
    IN  /\ merged = SubSeq(shown, 1, Len(merged))
        /\ totalRecords < MaxRecNum => Len(merged) = Len(shown)
        /\ totals["malloc"] + totals["free"] + totals["realloc"] = Len(view)

\* Once the log files are accepted, the consolidator finishes.
Finishes == phase = "merge" ~> phase \in {"done", "failed"}
================================================================================
