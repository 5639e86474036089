\* Crashes between any two file writes; every start resumes.
SPECIFICATION Spec
CONSTANTS
  Kinds = {k}
  Values = {v1, v2}
  Unset = Unset
  Tombstone = Tombstone
  MaxRecords = 4
  MaxCrashes = 2
  Starts = {"resume"}
  Faults = {}
INVARIANTS
  TypeOK SeqIsPosition CommittedIsDurable MarksMatchJournal
  OnlyCommittedRolledBack LiveIsHistory ReportedIsKept
PROPERTIES
  HistoryIsStable PublishedSpec
\* The log fills up and the crashes run out.
CHECK_DEADLOCK FALSE
