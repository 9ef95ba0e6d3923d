------------------------------ MODULE MallocReplay ------------------------------
(***************************************************************************)
(* The replay tool as a whole (main in src/src/MallocReplay.cpp): the      *)
(* command line chooses one of its three modes, replaying a log (Replay)   *)
(* or analysing or printing it (LogAnalysis).                              *)
(***************************************************************************)
EXTENDS Replay, LogAnalysis

VARIABLE mode    \* gbPrintOnly and gbTimingAnalysis: replay, timing or print

toolVars == <<vars, analysisVars, mode>>

ToolInit ==
  /\ mode \in {"replay", "timing", "print"}
  /\ Init /\ AnalysisInit

\* Every mode leaves the loop at the end of its log or of what it was asked for.
ModeDone ==
  CASE mode = "replay" -> ctl = "done"
    [] mode = "timing" -> TimingFinished(log, script.gEndRecNo)
    [] mode = "print"  -> PrintFinished(log, script.gEndRecNo)

Replaying(A) == mode = "replay" /\ A /\ UNCHANGED <<analysisVars, mode>>
ReplayAll == Replaying(Next)
RunTiming == mode = "timing" /\ ~ModeDone /\ AnalyzeTiming(log) /\ UNCHANGED <<vars, mode>>
RunPrint == mode = "print" /\ ~ModeDone /\ PrintAll(log) /\ UNCHANGED <<vars, mode>>
Exit == mode # "replay" /\ ModeDone /\ UNCHANGED toolVars

ToolNext == ReplayAll \/ RunTiming \/ RunPrint \/ Exit

ToolFairness ==
  /\ WF_toolVars(Replaying(Controller)) /\ WF_toolVars(Replaying(Disk))
  /\ \A t \in Threads : WF_toolVars(Replaying(Worker(t)))
  /\ WF_toolVars(RunTiming) /\ WF_toolVars(RunPrint)

ToolSpec == ToolInit /\ [][ToolNext]_toolVars /\ ToolFairness

\* -t and -p report what the log says, record by record.
AnalysisExact ==
  /\ mode = "timing" => TimingExact(log)
  /\ mode = "print" => PrintExact(log)

\* Every mode comes to an end, on a log whose operations are matched: the analysis because
\* it finds every block it looks for, and the replay whatever the order of its threads,
\* unless it takes the last buffer again, loses the order to the disk thread to stop, or
\* crashes as it frees what is left.  A worker never waits for a block for ever.
Terminates == <>(ModeDone \/ again \/ StopLost \/ ctl = "crashed")

\* The tool goes "through all records" (line 1522), or "part of the records" (line 1732), once,
\* and ends: it processes no more of them than the "Log file says" (line 1778), frees "all
\* outstanding blocks before exit" (line 1889), and its "flag to all threads to exit now" (line
\* 1741) reaches them.  It does not when the last batch is smaller than a record, and what the
\* buffer held is replayed again; when the disk thread is reading as the order to stop comes;
\* and when a block larger than an entry is left in the shared table.
ReplayCompletes == mode = "replay" => <>(ctl = "done") /\ []EachRecordOnce
=================================================================================
