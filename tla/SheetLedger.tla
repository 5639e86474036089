---------------------------- MODULE SheetLedger ----------------------------
(***************************************************************************)
(* What the books of versioned documents promise whoever holds a           *)
(* confirmation sheet: a subject has at most one sheet that is good.  It   *)
(* is good from its issue until it is used, replaced by the next one of    *)
(* its subject, too old, or the configuration is revised; nothing else     *)
(* takes it, and it is never good again.  Generations, and what rollbacks  *)
(* and restarts rebuild of them, are invisible.                            *)
(***************************************************************************)
EXTENDS Naturals

CONSTANT Subjects   \* what a sheet may vouch for

VARIABLES
  issued,     \* how many sheets this process has issued; they are numbered so
  good,       \* of each subject, the sheets that would be accepted
  time,       \* what the age of a sheet is counted in
  revision    \* number of the configuration

None == [subject \in Subjects |-> {}]

Init == issued = 0 /\ good = None /\ time = 0 /\ revision = 1

\* A new sheet is good, and the only good one of its subject.
Issue(subject) ==
  /\ issued' = issued + 1
  /\ good' = [good EXCEPT ![subject] = {issued'}]
  /\ UNCHANGED <<time, revision>>

\* The good sheet of a subject is used, by what it was meant for or in vain.
Use(subject) ==
  /\ good[subject] # {}
  /\ good' = [good EXCEPT ![subject] = {}]
  /\ UNCHANGED <<issued, time, revision>>

\* Time passes, and some sheets become too old.
Age ==
  /\ time' > time
  /\ DOMAIN good' = Subjects
  /\ \A subject \in Subjects : good'[subject] \subseteq good[subject]
  /\ UNCHANGED <<issued, revision>>

\* Sheets vouch for the plant as the old configuration had it.
Revise == revision' = revision + 1 /\ good' = None /\ UNCHANGED <<issued, time>>

\* The process ends, and its sheets with it.
StartOver == issued' = 0 /\ good' = None /\ time' = 0 /\ revision' >= 1

Next ==
  \/ \E subject \in Subjects : Issue(subject) \/ Use(subject)
  \/ Age
  \/ Revise
  \/ StartOver

Spec == Init /\ [][Next]_<<issued, good, time, revision>>
=============================================================================
