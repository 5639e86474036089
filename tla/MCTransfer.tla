----------------------------- MODULE MCTransfer -----------------------------
EXTENDS Transfer, TLC

\* Threads and pumps are interchangeable; there is no liveness to check.
Interchangeable == Permutations(Threads) \cup Permutations(Pumps)

\* The behaviours of Spec in which clients only persist, hand over and start.
SpecOfStarts ==
  /\ Init
  /\ [][\E t \in Threads :
          \/ PersistValves(t) \/ ChangeTank(t)
          \/ \E p \in Pumps, s \in DOMAIN sheets : StartPump(t, p, s)
          \/ Advance(t)]_vars
=============================================================================
