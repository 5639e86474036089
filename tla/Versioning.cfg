\* The process tank and its gauge; documents that never expire and documents
\* that do, restarts at any moment.
SPECIFICATION Spec
CONSTANTS
  Tanks = {process}
  Process = process
  StartAge = 1
  Ages = {0, 1}
  MaxTime = 2
  MaxRecords = 3
  MaxSnapshots = 2
INVARIANTS
  TypeOK NeverAhead PendingIsNewest RevisionInForce
PROPERTIES
  LedgerSpec RefusedForGood ConfirmedBySheet
