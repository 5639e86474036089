-------------------------- MODULE CommittedHistory --------------------------
(***************************************************************************)
(* What the journal promises whoever reads the committed history: a        *)
(* sequence of records that is only ever extended, and a set of positions  *)
(* that were rolled back, each a published record that is not itself a     *)
(* rollback, each rolled back once and for good.  Crashes are invisible.   *)
(***************************************************************************)
EXTENDS Naturals, Sequences

CONSTANT Tombstone   \* the kind of a record that is itself a rollback

VARIABLES
  log,      \* the published records
  dropped   \* positions of those that were rolled back

Init == log = <<>> /\ dropped = {}

\* A commit publishes at least one more record and leaves the others alone.
Publish ==
  /\ Len(log') > Len(log)
  /\ SubSeq(log', 1, Len(log)) = log
  /\ UNCHANGED dropped

\* A published record is rolled back; its position still holds it.
Drop(position) ==
  /\ position \in 1 .. Len(log)
  /\ log[position].kind # Tombstone
  /\ position \notin dropped
  /\ dropped' = dropped \cup {position}
  /\ UNCHANGED log

Next == Publish \/ \E position \in 1 .. Len(log) : Drop(position)

Spec == Init /\ [][Next]_<<log, dropped>>
=============================================================================
