-------------------------------- MODULE LogViewer --------------------------------
(***************************************************************************)
(* The log viewer (src/src/MallocLogViewer.cpp): what it lists of the      *)
(* log files of a process, by thread, by time or as totals.  All records   *)
(* are of one module here, so the view by module is that by time.  Columns *)
(* and wording are left out.                                               *)
(***************************************************************************)
EXTENDS Integers, Sequences, FiniteSets

LOCAL INSTANCE SequencesExt

\* PrintOneThreadLogFile goes from record to record (GetNextRecord) and stops at a record
\* the end of the file cuts off.
PrintOneThreadLogFile(file) == SelectSeq(file, LAMBDA r : r.mType # "truncated")

\* Bug: a record goes before those with its time stamp.
BugInsert(records, r) ==
  LET earlier == Cardinality({k \in DOMAIN records : records[k].mTimeStamp < r.mTimeStamp})
  IN  InsertAt(records, earlier + 1, r)

\* gRecordsByModule, a multimap: a record goes behind those with its time stamp.
Insert(records, r) ==
  LET earlier == Cardinality({k \in DOMAIN records : records[k].mTimeStamp <= r.mTimeStamp})
  IN  InsertAt(records, earlier + 1, r)

\* The records of all files, file by file, in the order of their time stamps.
PreprocessAllRecords(logFiles) ==
  FoldLeft(Insert, <<>>, FlattenSeq([i \in DOMAIN logFiles |-> PrintOneThreadLogFile(logFiles[i])]))

\* PrintStatsPerModule counts the operations of every kind.
PrintStatsPerModule(logFiles) ==
  [kind \in {"malloc", "free", "realloc"} |->
     FoldLeft(LAMBDA n, file : n + Cardinality({k \in DOMAIN file : file[k].mType = kind}),
              0, logFiles)]
=================================================================================
