-------------------------- MODULE VersioningProofs --------------------------
(***************************************************************************)
(* Proofs about Versioning, for any tanks, ages and bounds.  All of it     *)
(* rests on one thing: within a process no request, and no rebuild, ever   *)
(* lowers a number of the registry.  So a document that named the registry *)
(* when it was issued stays covered by it, one that is stale stays stale,  *)
(* and the sheets of one subject carry ascending numbers.  A rollback does *)
(* not raise one either, so a sheet that is good survives it.              *)
(***************************************************************************)
EXTENDS Versioning, WellFoundedInduction, TLAPS

Revisions == [generation : Nat \ {0}, age : Nat]
Entries   == [marker : Markers, generation : Nat, value : Nat]

\* The registry, and the revision in force, which it covers.
Numbered ==
  /\ now \in Nat
  /\ registry \in [Markers -> Nat] /\ registry[Config] # 0
  /\ active \in Revisions /\ active.generation <= registry[Config]

\* The journal never names generation 0 of the configuration.
Logged ==
  /\ records \in Seq(Entries) /\ dropped \subseteq DOMAIN records
  /\ \A i \in DOMAIN records : records[i].marker = Config => records[i].generation # 0

\* Sheets of one subject ascend.
Ascending ==
  \A r, s \in DOMAIN sheets :
    r < s /\ sheets[r].marker = sheets[s].marker
      => sheets[r].generation < sheets[s].generation

Sheeted ==
  /\ sheets \in Seq(Documents) /\ spent \subseteq DOMAIN sheets
  /\ \A s \in DOMAIN sheets : Issued(sheets[s])
  /\ Ascending

Captured ==
  snapshots \in Seq(Documents) /\ \A s \in DOMAIN snapshots : Issued(snapshots[s])

Calibrated ==
  baselines \in [Tanks -> Documents] /\ \A t \in Tanks : Issued(baselines[t])

\* A sheet a gauge waits for is one of the book.
Gauged ==
  /\ confirmed \in [Tanks -> BOOLEAN] /\ pending \in [Tanks -> Nat]
  /\ \A t \in Tanks : pending[t] # 0 => pending[t] \in DOMAIN sheets
  /\ PendingIsNewest

\* The inductive invariant.
VersionInv == Numbered /\ Logged /\ Sheeted /\ Captured /\ Calibrated /\ Gauged

-----------------------------------------------------------------------------
(* Markers and maxima.                                                     *)

\* The markers of the registry, and that those of gauges are no others.
LEMMA MarkersDiffer ==
  /\ Config \in Markers /\ Persist \in Markers /\ Snapshot \in Markers
  /\ \A t \in Tanks : Gauge(t) \in Markers /\ Baseline(t) \in Markers
  /\ \A t \in Tanks : Gauge(t) # Config /\ Gauge(t) # Persist /\ Gauge(t) # Snapshot
  /\ \A t, u \in Tanks : Gauge(t) # Baseline(u) /\ (Gauge(t) = Gauge(u) => t = u)
  BY DEF Markers, Config, Persist, Snapshot, Gauge, Baseline

\* A set of positions that is not empty has a last one.
LEMMA LastPosition ==
  ASSUME NEW n \in Nat, NEW S, S \subseteq 1 .. n, S # {}
  PROVE  \E i \in S : \A j \in S : j <= i
<1> DEFINE T == {n - i : i \in S}
<1>1. T \subseteq Nat /\ T # {}
  <2>1. \A i \in S : i \in 1 .. n /\ n - i \in Nat
    BY SMT
  <2> QED
    BY <2>1
<1>2. PICK x \in T : \A y \in T : ~ (<<y, x>> \in OpToRel(<, Nat))
  <2> HIDE DEF T
  <2> QED
    BY <1>1, NatLessThanWellFounded, WFMin
<1>3. \A y \in T : ~ (y < x)
  BY <1>1, <1>2 DEF OpToRel
<1>4. PICK i \in S : x = n - i
  OBVIOUS
<1>5. \A j \in S : n - j \in T /\ ~ (n - j < n - i)
  BY <1>3, <1>4
<1> QED
  BY <1>5

\* What the projection knows of a marker is a record of that marker.
LEMMA NewestIsARecord ==
  ASSUME Logged, NEW marker, NEW gone, Known(marker, gone)
  PROVE  /\ Newest(marker, gone) \in Entries
         /\ marker = Config => Newest(marker, gone).generation # 0
<1> DEFINE S == Visible(marker, gone)
<1>1. S \subseteq 1 .. Len(records) /\ S # {} /\ Len(records) \in Nat
  BY DEF Logged, Visible, Known
<1>2. \E i \in S : \A j \in S : j <= i
  <2> HIDE DEF S
  <2> QED
    BY <1>1, LastPosition
<1>3. PICK i \in S : Newest(marker, gone) = records[i]
  BY <1>2 DEF Newest
<1>4. i \in DOMAIN records /\ records[i].marker = marker
  BY <1>3 DEF Visible
<1> QED
  BY <1>3, <1>4 DEF Logged

-----------------------------------------------------------------------------
(* The parts of requests.                                                  *)

\* No number of the registry falls.
Rises == registry' \in [Markers -> Nat] /\ \A m \in Markers : registry[m] <= registry'[m]

\* A bump raises the number of its marker by one and lowers none.
LEMMA BumpRises ==
  ASSUME Numbered, NEW marker \in Markers, Bump(marker)
  PROVE  /\ Rises /\ registry'[Config] # 0
         /\ registry'[marker] = registry[marker] + 1
         /\ \A m \in Markers : m # marker => registry'[m] = registry[m]
  BY MarkersDiffer DEF Numbered, Bump, Rises

\* The registry covers a document after the step.
StillIssued(d) == d.generation <= registry'[d.marker] /\ d.config <= registry'[Config]

\* A document that is covered stays so while the registry rises.
LEMMA CoverLasts ==
  ASSUME Numbered, Rises, NEW d \in Documents, Issued(d) PROVE StillIssued(d)
  BY MarkersDiffer DEF Numbered, Rises, Documents, Issued, StillIssued

\* A document that is covered and not accepted is never accepted later.
LEMMA StaleLasts ==
  ASSUME Numbered, Rises, now' \in Nat, now <= now',
         NEW d \in Documents, Issued(d), ~ Accepted(d)
  PROVE  ~ ( /\ d.config = registry'[Config]
             /\ d.generation = registry'[d.marker]
             /\ ~ (d.age > 0 /\ now' - d.issued > d.age) )
  BY MarkersDiffer
     DEF Numbered, Rises, Documents, Issued, Accepted, Current, Expired

\* A request that issues no sheet keeps the book in order.
LEMMA SheetsKept ==
  ASSUME Numbered, Sheeted, Rises, sheets' = sheets, spent' \subseteq DOMAIN sheets
  PROVE  Sheeted'
<1>1. \A s \in DOMAIN sheets : Issued(sheets[s])'
  BY CoverLasts DEF Sheeted, Issued, StillIssued
<1> QED
  BY <1>1 DEF Sheeted, Ascending

\* A new sheet carries the number of its marker, above all earlier ones.
LEMMA SheetIssued ==
  ASSUME Numbered, Sheeted, now' \in Nat, NEW marker \in Markers,
         Bump(marker), IssueSheet(marker)
  PROVE  /\ Sheeted'
         /\ Len(sheets') \in DOMAIN sheets' /\ Len(sheets') = Len(sheets) + 1
         /\ sheets'[Len(sheets')].marker = marker
         /\ sheets'[Len(sheets')].generation = registry'[marker]
         /\ \A s \in DOMAIN sheets : s \in DOMAIN sheets' /\ sheets'[s] = sheets[s]
<1> DEFINE d == Issue(marker, registry'[marker], registry'[Config], StartAge)
<1>1. Rises /\ registry'[Config] # 0 /\ registry'[marker] = registry[marker] + 1
  BY BumpRises
<1>2. d \in Documents /\ d.marker = marker /\ d.generation = registry'[marker]
       /\ d.config = registry'[Config]
  BY <1>1, AgesAssumption, MarkersDiffer DEF Issue, Documents, Rises
<1>3. sheets' = Append(sheets, d) /\ spent' = spent
  BY DEF IssueSheet
<1> HIDE DEF d
<1>4. /\ sheets' \in Seq(Documents) /\ Len(sheets') = Len(sheets) + 1
      /\ DOMAIN sheets = 1 .. Len(sheets) /\ DOMAIN sheets' = 1 .. Len(sheets')
      /\ Len(sheets) \in Nat
      /\ \A s \in DOMAIN sheets : sheets'[s] = sheets[s]
      /\ sheets'[Len(sheets')] = d
  BY <1>2, <1>3 DEF Sheeted
<1>5. \A s \in DOMAIN sheets : sheets[s] \in Documents
  BY DEF Sheeted
<1>6. \A s \in DOMAIN sheets : StillIssued(sheets[s])
  BY <1>1, <1>5, CoverLasts DEF Sheeted
<1>7. StillIssued(d)
  BY <1>1, <1>2, MarkersDiffer DEF StillIssued, Rises
<1>8. \A s \in DOMAIN sheets' : StillIssued(sheets'[s])
  BY <1>4, <1>6, <1>7
<1>9. Ascending'
  <2> SUFFICES ASSUME NEW r \in DOMAIN sheets', NEW s \in DOMAIN sheets', r < s,
                      sheets'[r].marker = sheets'[s].marker
               PROVE  sheets'[r].generation < sheets'[s].generation
    BY DEF Ascending
  <2>1. r \in DOMAIN sheets
    BY <1>4
  <2>2. CASE s \in DOMAIN sheets
    BY <2>1, <2>2, <1>4 DEF Sheeted, Ascending
  <2>3. CASE s = Len(sheets')
    <3>1. sheets[r].marker = marker /\ sheets[r].generation <= registry[marker]
      BY <2>1, <2>3, <1>2, <1>4 DEF Sheeted, Issued
    <3>2. registry[marker] \in Nat /\ sheets[r].generation \in Nat
      BY <2>1, <1>5 DEF Numbered, Documents
    <3> QED
      BY <2>1, <2>3, <3>1, <3>2, <1>1, <1>2, <1>4
  <2> QED
    BY <2>2, <2>3, <1>4
<1> QED
  BY <1>2, <1>3, <1>4, <1>8, <1>9 DEF Sheeted, Issued, StillIssued

\* The other books keep in order while the registry rises.
LEMMA SnapshotsKept ==
  ASSUME Numbered, Captured, Rises, snapshots' = snapshots PROVE Captured'
  BY CoverLasts DEF Captured, Issued, StillIssued

\* Baselines that a step does not touch stay covered.
LEMMA BaselinesKept ==
  ASSUME Numbered, Calibrated, Rises, baselines' = baselines PROVE Calibrated'
  BY CoverLasts DEF Calibrated, Issued, StillIssued

\* A record of a marker carries its number.
LEMMA RecordLogged ==
  ASSUME Logged, registry' \in [Markers -> Nat], registry'[Config] # 0,
         NEW marker \in Markers, NEW value \in Nat,
         Record(marker, value), dropped' = dropped
  PROVE  Logged'
<1> DEFINE e == [marker |-> marker, generation |-> registry'[marker], value |-> value]
<1>1. e \in Entries /\ (e.marker = Config => e.generation # 0)
  BY DEF Entries
<1>2. records' = Append(records, e)
  BY DEF Record
<1> HIDE DEF e
<1> QED
  BY <1>1, <1>2 DEF Logged

\* What a gauge waits for, if it does.
GaugeInv(t) ==
  pending[t] # 0 =>
    /\ pending[t] \in DOMAIN sheets /\ ~ confirmed[t]
    /\ sheets[pending[t]].marker = Gauge(t)
    /\ sheets[pending[t]].generation = registry[Gauge(t)]
    /\ pending[t] \in spent => ~ Accepted(sheets[pending[t]])

\* The invariant of the gauges, tank by tank.
LEMMA GaugedByTank ==
  Gauged <=> /\ confirmed \in [Tanks -> BOOLEAN] /\ pending \in [Tanks -> Nat]
             /\ \A t \in Tanks : GaugeInv(t)
  BY DEF Gauged, PendingIsNewest, GaugeInv

\* What every step of a process does: nothing is lowered, lost or reopened.
Onward ==
  /\ now' \in Nat /\ now <= now' /\ Rises /\ spent \subseteq spent'
  /\ \A s \in DOMAIN sheets : s \in DOMAIN sheets' /\ sheets'[s] = sheets[s]
  /\ \A s \in DOMAIN snapshots : s \in DOMAIN snapshots' /\ snapshots'[s] = snapshots[s]

\* A document that is refused once is refused from then on.
LEMMA RefusalLasts ==
  ASSUME Numbered, Onward, NEW d \in Documents, Issued(d), ~ Accepted(d)
  PROVE  ~ ( /\ d.config = registry'[Config]
             /\ d.generation = registry'[d.marker]
             /\ ~ (d.age > 0 /\ now' - d.issued > d.age) )
  BY StaleLasts DEF Onward

\* A gauge that no part of a step touches keeps waiting for the newest sheet.
LEMMA GaugeKept ==
  ASSUME Numbered, Sheeted, Onward, NEW t \in Tanks, GaugeInv(t),
         confirmed'[t] = confirmed[t], pending'[t] = pending[t],
         registry'[Gauge(t)] = registry[Gauge(t)],
         \A s \in spent' \ spent : pending[t] = s => ~ Accepted(sheets[s])
  PROVE  GaugeInv(t)'
<1> SUFFICES ASSUME pending[t] # 0
             PROVE  /\ pending[t] \in DOMAIN sheets' /\ ~ confirmed[t]
                    /\ sheets'[pending[t]].marker = Gauge(t)
                    /\ sheets'[pending[t]].generation = registry[Gauge(t)]
                    /\ pending[t] \in spent' => ~ Accepted(sheets[pending[t]])'
  BY DEF GaugeInv, Gauge
<1>1. pending[t] \in DOMAIN sheets /\ sheets'[pending[t]] = sheets[pending[t]]
       /\ pending[t] \in DOMAIN sheets'
  BY DEF GaugeInv, Onward
<1>2. ASSUME pending[t] \in spent' PROVE ~ Accepted(sheets[pending[t]])'
  <2> DEFINE d == sheets[pending[t]]
  <2>1. ~ Accepted(d) /\ d \in Documents /\ Issued(d)
    BY <1>1, <1>2 DEF GaugeInv, Sheeted
  <2>2. ~ ( /\ d.config = registry'[Config]
            /\ d.generation = registry'[d.marker]
            /\ ~ (d.age > 0 /\ now' - d.issued > d.age) )
    BY <2>1, RefusalLasts
  <2>3. sheets'[pending'[t]] = d
    BY <1>1
  <2> QED
    BY <2>2, <2>3 DEF Accepted, Current, Expired, Config
<1> QED
  BY <1>1, <1>2 DEF GaugeInv

-----------------------------------------------------------------------------
(* A rebuild, whatever registry it starts from.                            *)

\* Numbers only rise over what the rebuild found; the revision in force is one
\* that the registry covers, and so is every baseline.
LEMMA Rebuilt ==
  ASSUME Logged, NEW numbers \in [Markers -> Nat], numbers[Config] # 0,
         NEW revision \in Revisions, revision.generation <= numbers[Config],
         NEW gone, now' \in Nat, Rebuild(numbers, revision, gone)
  PROVE  /\ registry' \in [Markers -> Nat] /\ registry'[Config] # 0
         /\ \A m \in Markers : numbers[m] <= registry'[m]
         /\ active' \in Revisions /\ active'.generation <= registry'[Config]
         /\ Calibrated' /\ Gauged'
<1>1. \A m \in Markers : Known(m, gone) => Newest(m, gone) \in Entries
  BY NewestIsARecord
<1>2. Known(Config, gone) => Newest(Config, gone).generation # 0
  BY NewestIsARecord
<1>3. \A m \in Markers :
        /\ RestoredNumber(numbers[m], m, gone) \in Nat
        /\ numbers[m] <= RestoredNumber(numbers[m], m, gone)
        /\ Known(m, gone) =>
             Newest(m, gone).generation <= RestoredNumber(numbers[m], m, gone)
  BY <1>1 DEF RestoredNumber, Entries
<1>4. registry' = [m \in Markers |-> RestoredNumber(numbers[m], m, gone)]
  BY DEF Rebuild
<1>5. registry' \in [Markers -> Nat] /\ \A m \in Markers : numbers[m] <= registry'[m]
  BY <1>3, <1>4
<1>6. registry'[Config] \in Nat \ {0}
  BY <1>5, MarkersDiffer
<1>7. active' \in Revisions /\ active'.generation <= registry'[Config]
  <2>1. CASE Known(Config, gone)
    <3>1. active' = [generation |-> Newest(Config, gone).generation,
                     age |-> Newest(Config, gone).value]
      BY <2>1 DEF Rebuild, RestoredRevision
    <3> QED
      BY <2>1, <3>1, <1>1, <1>2, <1>3, <1>4, MarkersDiffer DEF Revisions, Entries
  <2>2. CASE ~ Known(Config, gone)
    <3>1. active' = revision
      BY <2>2 DEF Rebuild, RestoredRevision
    <3> QED
      BY <3>1, <1>5, <1>6, MarkersDiffer DEF Revisions
  <2> QED
    BY <2>1, <2>2
<1>8. Calibrated'
  <2>1. \A t \in Tanks : baselines'[t] \in Documents /\ StillIssued(baselines'[t])
    <3> SUFFICES ASSUME NEW t \in Tanks
                 PROVE  baselines'[t] \in Documents /\ StillIssued(baselines'[t])
      OBVIOUS
    <3>1. \E c \in {active'.generation, registry'[Config]}, a \in {active'.age, StartAge} :
            baselines'[t] = [marker |-> Baseline(t), generation |-> 0, config |-> c,
                             issued |-> now', age |-> a]
      BY DEF Rebuild, SeedBaseline, Issue
    <3> QED
      BY <3>1, <1>5, <1>6, <1>7, MarkersDiffer, AgesAssumption
         DEF Documents, Revisions, StillIssued
  <2>2. baselines' = [t \in Tanks |-> baselines'[t]]
    BY DEF Rebuild
  <2> QED
    BY <2>1, <2>2 DEF Calibrated, Issued, StillIssued
<1>9. Gauged'
  BY DEF Rebuild, Gauged, PendingIsNewest
<1> QED
  BY <1>5, <1>6, <1>7, <1>8, <1>9

-----------------------------------------------------------------------------
(* The steps.                                                              *)

\* The initial states satisfy the invariant.
LEMMA VersionInit == Init => VersionInv
<1> SUFFICES ASSUME Init PROVE VersionInv
  OBVIOUS
<1>1. Numbered
  BY MarkersDiffer, AgesAssumption
     DEF Init, Numbered, FirstNumbers, FirstRevision, Revisions
<1>2. Logged /\ Sheeted /\ Captured
  BY DEF Init, Logged, Sheeted, Captured, Ascending
<1>3. Calibrated
  BY MarkersDiffer, AgesAssumption
     DEF Init, Calibrated, Issued, Documents, FirstNumbers
<1>4. Gauged
  BY DEF Init, Gauged, PendingIsNewest
<1> QED
  BY <1>1, <1>2, <1>3, <1>4 DEF VersionInv

\* A sheet is issued: by a persist, and by the switch of a gauge.
LEMMA PersistStep ==
  ASSUME VersionInv, PersistValves PROVE VersionInv' /\ Onward
<1> USE DEF VersionInv
<1>1. /\ Bump(Persist) /\ IssueSheet(Persist) /\ Record(Persist, 0)
      /\ now' = now /\ dropped' = dropped /\ now' \in Nat
  BY DEF PersistValves, MayRecord, Numbered
<1>2. /\ Rises /\ registry'[Config] # 0
      /\ \A m \in Markers : m # Persist => registry'[m] = registry[m]
  BY <1>1, BumpRises, MarkersDiffer
<1>3. Sheeted' /\ \A s \in DOMAIN sheets : s \in DOMAIN sheets' /\ sheets'[s] = sheets[s]
  BY <1>1, SheetIssued, MarkersDiffer
<1>4. Onward
  BY <1>1, <1>2, <1>3 DEF Onward, PersistValves, IssueSheet, Numbered
<1>5. Numbered'
  BY <1>1, <1>2, MarkersDiffer DEF PersistValves, Numbered, Rises, Revisions
<1>6. Logged'
  BY <1>1, <1>2, RecordLogged, MarkersDiffer DEF Rises
<1>7. Captured' /\ Calibrated'
  BY <1>2, SnapshotsKept, BaselinesKept DEF PersistValves
<1>8. Gauged'
  <2>1. confirmed' = confirmed /\ pending' = pending /\ spent' = spent
    BY <1>1 DEF PersistValves, gauges, IssueSheet
  <2>2. \A t \in Tanks : registry'[Gauge(t)] = registry[Gauge(t)]
    BY <1>2, MarkersDiffer
  <2>3. \A t \in Tanks : GaugeInv(t)'
    BY <2>1, <2>2, <1>4, GaugeKept, GaugedByTank
  <2> QED
    BY <2>1, <2>3, GaugedByTank DEF Gauged, GaugeInv, PendingIsNewest
<1> QED
  BY <1>3, <1>4, <1>5, <1>6, <1>7, <1>8

\* The switch of a gauge issues the sheet that the gauge then waits for.
LEMMA SwitchStep ==
  ASSUME VersionInv, NEW t \in Tanks, SwitchGauge(t) PROVE VersionInv' /\ Onward
<1> USE DEF VersionInv
<1>1. /\ Bump(Gauge(t)) /\ IssueSheet(Gauge(t)) /\ Record(Gauge(t), 0)
      /\ now' = now /\ dropped' = dropped /\ now' \in Nat
      /\ Gauge(t) \in Markers /\ Gauge(t) # Config
  BY MarkersDiffer DEF SwitchGauge, MayRecord, Numbered
<1>2. /\ Rises /\ registry'[Config] # 0
      /\ \A m \in Markers : m # Gauge(t) => registry'[m] = registry[m]
  BY <1>1, BumpRises
<1>3. /\ Sheeted' /\ Len(sheets') \in DOMAIN sheets' /\ Len(sheets') = Len(sheets) + 1
      /\ sheets'[Len(sheets')].marker = Gauge(t)
      /\ sheets'[Len(sheets')].generation = registry'[Gauge(t)]
      /\ \A s \in DOMAIN sheets : s \in DOMAIN sheets' /\ sheets'[s] = sheets[s]
  BY <1>1, SheetIssued
<1>4. Onward
  BY <1>1, <1>2, <1>3 DEF Onward, SwitchGauge, IssueSheet, Numbered
<1>5. Numbered'
  BY <1>1, <1>2, MarkersDiffer DEF SwitchGauge, Numbered, Rises, Revisions
<1>6. Logged'
  BY <1>1, <1>2, RecordLogged DEF Rises
<1>7. Captured' /\ Calibrated'
  BY <1>2, SnapshotsKept, BaselinesKept DEF SwitchGauge
<1>8. Gauged'
  <2>1. /\ confirmed' = [confirmed EXCEPT ![t] = FALSE]
        /\ pending' = [pending EXCEPT ![t] = Len(sheets')]
        /\ spent' = spent
    BY <1>1 DEF SwitchGauge, IssueSheet
  <2>2. Len(sheets') \in Nat /\ Len(sheets') \notin spent
    BY <1>3 DEF Sheeted
  <2>3. confirmed' \in [Tanks -> BOOLEAN] /\ pending' \in [Tanks -> Nat]
    BY <2>1, <2>2 DEF Gauged
  <2>4. GaugeInv(t)'
    BY <2>1, <2>2, <1>3 DEF GaugeInv, Gauged, Gauge
  <2>5. ASSUME NEW u \in Tanks, u # t PROVE GaugeInv(u)'
    <3>1. confirmed'[u] = confirmed[u] /\ pending'[u] = pending[u]
      BY <2>1, <2>5 DEF Gauged
    <3>2. registry'[Gauge(u)] = registry[Gauge(u)]
      BY <2>5, <1>2, MarkersDiffer
    <3> QED
      BY <3>1, <3>2, <2>1, <1>4, GaugeKept, GaugedByTank
  <2> QED
    BY <2>3, <2>4, <2>5 DEF Gauged, GaugeInv, PendingIsNewest
<1> QED
  BY <1>3, <1>4, <1>5, <1>6, <1>7, <1>8

\* Nothing is bumped.
LEMMA StillRises == Numbered /\ registry' = registry => Rises
  BY DEF Numbered, Rises

\* A sheet is consumed: by a confirmation, in vain, or by a start.
LEMMA ConfirmStep ==
  ASSUME VersionInv, NEW t \in Tanks, NEW s \in DOMAIN sheets, ConfirmGauge(t, s)
  PROVE  VersionInv' /\ Onward
<1> USE DEF VersionInv
<1>1. /\ registry' = registry /\ Record(Gauge(t), 1) /\ now' = now /\ dropped' = dropped
      /\ sheets' = sheets /\ spent' = spent \cup {s} /\ snapshots' = snapshots
      /\ baselines' = baselines /\ active' = active
      /\ sheets[s].marker = Gauge(t) /\ pending[t] = s
      /\ confirmed' = [confirmed EXCEPT ![t] = TRUE]
      /\ pending' = [pending EXCEPT ![t] = 0]
  BY DEF ConfirmGauge, MayRecord, Consume, Awaiting
<1>2. Onward
  BY <1>1, StillRises DEF Onward, Numbered
<1>3. Numbered' /\ Captured' /\ Calibrated' /\ Sheeted'
  <2>1. Numbered'
    BY <1>1 DEF Numbered
  <2>2. Captured' /\ Calibrated'
    BY <1>1, <1>2, SnapshotsKept, BaselinesKept DEF Onward
  <2>3. Sheeted'
    BY <1>1, <1>2, SheetsKept DEF Onward, Sheeted
  <2> QED
    BY <2>1, <2>2, <2>3
<1>4. Logged'
  BY <1>1, RecordLogged, MarkersDiffer DEF Numbered
<1>5. Gauged'
  <2>1. confirmed' \in [Tanks -> BOOLEAN] /\ pending' \in [Tanks -> Nat]
    BY <1>1 DEF Gauged
  <2>2. GaugeInv(t)'
    BY <1>1 DEF GaugeInv, Gauged
  <2>3. ASSUME NEW u \in Tanks, u # t PROVE GaugeInv(u)'
    <3>1. confirmed'[u] = confirmed[u] /\ pending'[u] = pending[u]
      BY <1>1, <2>3 DEF Gauged
    <3>2. pending[u] # s
      <4>1. GaugeInv(u) /\ s # 0
        BY GaugedByTank DEF Sheeted
      <4> QED
        BY <4>1, <1>1, <2>3, MarkersDiffer DEF GaugeInv
    <3>3. \A r \in spent' \ spent : pending[u] = r => ~ Accepted(sheets[r])
      BY <3>2, <1>1
    <3>4. GaugeInv(u) /\ registry'[Gauge(u)] = registry[Gauge(u)]
      BY <1>1, GaugedByTank
    <3> QED
      BY <3>1, <3>3, <3>4, <1>2, GaugeKept
  <2> QED
    BY <2>1, <2>2, <2>3 DEF Gauged, GaugeInv, PendingIsNewest
<1> QED
  BY <1>2, <1>3, <1>4, <1>5

\* One that no gauge waits for, or that is not good, is consumed without more.
LEMMA ConsumeStep ==
  ASSUME VersionInv, NEW s \in DOMAIN sheets, Consume(s),
         \A t \in Tanks : pending[t] = s => ~ Accepted(sheets[s]),
         UNCHANGED <<now, registry, active, baselines, snapshots, gauges, journal>>
  PROVE  VersionInv' /\ Onward
<1> USE DEF VersionInv
<1>1. /\ registry' = registry /\ now' = now /\ records' = records /\ dropped' = dropped
      /\ sheets' = sheets /\ spent' = spent \cup {s} /\ snapshots' = snapshots
      /\ baselines' = baselines /\ active' = active
      /\ confirmed' = confirmed /\ pending' = pending
  BY DEF Consume, gauges, journal
<1>2. Onward
  BY <1>1, StillRises DEF Onward, Numbered
<1>3. Numbered' /\ Logged'
  BY <1>1 DEF Numbered, Logged
<1>4. Captured' /\ Calibrated'
  BY <1>1, <1>2, SnapshotsKept, BaselinesKept DEF Onward
<1>5. Sheeted'
  BY <1>1, <1>2, SheetsKept DEF Onward, Sheeted
<1>6. \A t \in Tanks : GaugeInv(t)'
  BY <1>1, <1>2, GaugeKept, GaugedByTank
<1> QED
  BY <1>1, <1>2, <1>3, <1>4, <1>5, <1>6, GaugedByTank
     DEF Gauged, GaugeInv, PendingIsNewest

\* A sheet that is used up in vain is not a good one that a gauge waits for.
LEMMA WasteStep ==
  ASSUME VersionInv, NEW s \in DOMAIN sheets, WasteSheet(s) PROVE VersionInv' /\ Onward
<1>1. ASSUME NEW t \in Tanks, pending[t] = s PROVE ~ Accepted(sheets[s])
  <2>1. sheets[s].marker = Gauge(t) /\ s \notin spent
    BY <1>1, GaugedByTank DEF VersionInv, GaugeInv, Sheeted, WasteSheet, Consume
  <2> QED
    BY <1>1, <2>1 DEF WasteSheet, Awaiting, AcceptedSheet
<1> QED
  BY <1>1, ConsumeStep DEF WasteSheet

\* The sheet of a start is one of a persist, which no gauge waits for.
LEMMA StartStep ==
  ASSUME VersionInv, NEW s \in DOMAIN sheets, StartPump(s) PROVE VersionInv' /\ Onward
<1>1. \A t \in Tanks : pending[t] # s
  BY GaugedByTank, MarkersDiffer DEF VersionInv, GaugeInv, Sheeted, StartPump
<1> QED
  BY <1>1, ConsumeStep DEF StartPump

\* The requests that leave sheets and gauges alone and bump a marker that is
\* not one of a gauge.
LEMMA BumpStep ==
  ASSUME VersionInv, NEW marker \in Markers, Bump(marker),
         \A t \in Tanks : Gauge(t) # marker,
         now' = now, UNCHANGED <<paper, gauges>>,
         \A s \in DOMAIN snapshots : s \in DOMAIN snapshots' /\ snapshots'[s] = snapshots[s]
  PROVE  Onward /\ registry'[Config] # 0 /\ Sheeted' /\ Gauged'
<1> USE DEF VersionInv
<1>1. /\ sheets' = sheets /\ spent' = spent
      /\ confirmed' = confirmed /\ pending' = pending
  BY DEF paper, gauges
<1>2. /\ Rises /\ registry'[Config] # 0
      /\ \A m \in Markers : m # marker => registry'[m] = registry[m]
  BY BumpRises
<1>3. Onward
  BY <1>1, <1>2 DEF Onward, Numbered
<1>4. Sheeted'
  BY <1>1, <1>2, SheetsKept DEF Sheeted
<1>5. \A t \in Tanks : registry'[Gauge(t)] = registry[Gauge(t)]
  BY <1>2, MarkersDiffer
<1>6. \A t \in Tanks : GaugeInv(t)'
  BY <1>1, <1>3, <1>5, GaugeKept, GaugedByTank
<1> QED
  BY <1>1, <1>2, <1>3, <1>4, <1>6, GaugedByTank DEF Gauged, GaugeInv, PendingIsNewest

\* A new baseline has the number of its tank.
LEMMA RecalibrateStep ==
  ASSUME VersionInv, NEW t \in Tanks, Recalibrate(t) PROVE VersionInv' /\ Onward
<1> USE DEF VersionInv
<1>1. /\ Baseline(t) \in Markers /\ Bump(Baseline(t)) /\ Record(Baseline(t), 0)
      /\ now' = now /\ dropped' = dropped /\ active' = active /\ snapshots' = snapshots
      /\ UNCHANGED <<paper, gauges>> /\ \A u \in Tanks : Gauge(u) # Baseline(t)
  BY MarkersDiffer DEF Recalibrate, MayRecord
<1>2. Onward /\ registry'[Config] # 0 /\ Sheeted' /\ Gauged'
  BY <1>1, BumpStep
<1>3. Numbered' /\ Captured'
  <2>1. Numbered'
    BY <1>1, <1>2, MarkersDiffer DEF Numbered, Onward, Rises, Revisions
  <2> QED
    BY <2>1, <1>1, <1>2, SnapshotsKept DEF Onward
<1>4. Logged'
  BY <1>1, <1>2, RecordLogged DEF Onward, Rises
<1>5. Calibrated'
  <2> DEFINE d == Issue(Baseline(t), registry'[Baseline(t)], registry'[Config], StartAge)
  <2>1. d \in Documents /\ StillIssued(d)
    BY <1>1, <1>2, MarkersDiffer, AgesAssumption
       DEF Issue, Documents, StillIssued, Onward, Rises
  <2>2. baselines' = [baselines EXCEPT ![t] = d]
    BY DEF Recalibrate
  <2> HIDE DEF d
  <2>3. \A u \in Tanks : StillIssued(baselines[u])
    BY <1>2, CoverLasts DEF Onward, Calibrated
  <2> QED
    BY <2>1, <2>2, <2>3 DEF Calibrated, Issued, StillIssued
<1> QED
  BY <1>2, <1>3, <1>4, <1>5

\* A revision is in force with the number it was bumped to.
LEMMA ReviseStep ==
  ASSUME VersionInv, NEW age \in Ages, ReviseConfig(age) PROVE VersionInv' /\ Onward
<1> USE DEF VersionInv
<1>1. /\ Config \in Markers /\ Bump(Config) /\ Record(Config, age) /\ age \in Nat
      /\ now' = now /\ dropped' = dropped /\ snapshots' = snapshots
      /\ baselines' = baselines /\ UNCHANGED <<paper, gauges>>
      /\ \A u \in Tanks : Gauge(u) # Config
      /\ active' = [generation |-> registry'[Config], age |-> age]
  BY MarkersDiffer, AgesAssumption DEF ReviseConfig, MayRecord, books
<1>2. Onward /\ registry'[Config] # 0 /\ Sheeted' /\ Gauged'
  BY <1>1, BumpStep
<1>3. Numbered'
  BY <1>1, <1>2 DEF Numbered, Onward, Rises, Revisions
<1>4. Captured' /\ Calibrated'
  BY <1>1, <1>2, SnapshotsKept, BaselinesKept DEF Onward
<1>5. Logged'
  BY <1>1, <1>2, RecordLogged DEF Onward, Rises
<1> QED
  BY <1>2, <1>3, <1>4, <1>5

\* A snapshot has its own number and that of the revision in force.
LEMMA CaptureStep ==
  ASSUME VersionInv, CaptureSnapshot PROVE VersionInv' /\ Onward
<1> USE DEF VersionInv
<1> DEFINE d == Issue(Snapshot, registry'[Snapshot], active.generation, active.age)
<1>1. /\ Snapshot \in Markers /\ Bump(Snapshot)
      /\ now' = now /\ records' = records /\ dropped' = dropped /\ active' = active
      /\ baselines' = baselines /\ UNCHANGED <<paper, gauges>>
      /\ \A u \in Tanks : Gauge(u) # Snapshot
      /\ snapshots' = Append(snapshots, d)
  BY MarkersDiffer DEF CaptureSnapshot, journal
<1>2. Rises /\ now' \in Nat
  BY <1>1, BumpRises DEF Numbered
<1>3. d \in Documents /\ StillIssued(d)
  BY <1>1, <1>2, MarkersDiffer
     DEF Issue, Documents, StillIssued, Rises, Numbered, Revisions
<1> HIDE DEF d
<1>4. /\ snapshots' \in Seq(Documents) /\ DOMAIN snapshots' = DOMAIN snapshots \cup {Len(snapshots')}
      /\ \A s \in DOMAIN snapshots : s \in DOMAIN snapshots' /\ snapshots'[s] = snapshots[s]
      /\ snapshots'[Len(snapshots')] = d
  BY <1>1, <1>3 DEF Captured
<1>5. Onward /\ registry'[Config] # 0 /\ Sheeted' /\ Gauged'
  BY <1>1, <1>4, BumpStep
<1>6. Captured'
  <2>1. \A s \in DOMAIN snapshots : StillIssued(snapshots[s])
    BY <1>2, CoverLasts DEF Captured
  <2> QED
    BY <2>1, <1>3, <1>4 DEF Captured, Issued, StillIssued
<1>7. Numbered' /\ Logged'
  BY <1>1, <1>2, <1>5, MarkersDiffer DEF Numbered, Logged, Rises, Revisions
<1>8. Calibrated'
  BY <1>1, <1>2, BaselinesKept
<1> QED
  BY <1>5, <1>6, <1>7, <1>8

\* Time only makes documents expire.
LEMMA PassTimeStep ==
  ASSUME VersionInv, PassTime PROVE VersionInv' /\ Onward
<1> USE DEF VersionInv
<1>1. /\ now' = now + 1 /\ registry' = registry /\ active' = active
      /\ sheets' = sheets /\ spent' = spent /\ snapshots' = snapshots
      /\ baselines' = baselines /\ confirmed' = confirmed /\ pending' = pending
      /\ records' = records /\ dropped' = dropped
  BY DEF PassTime, books, paper, gauges, journal
<1>2. Onward
  BY <1>1, StillRises DEF Onward, Numbered
<1>3. Numbered' /\ Logged'
  BY <1>1 DEF Numbered, Logged
<1>4. Captured' /\ Calibrated'
  BY <1>1, <1>2, SnapshotsKept, BaselinesKept DEF Onward
<1>5. Sheeted'
  BY <1>1, <1>2, SheetsKept DEF Onward, Sheeted
<1>6. \A t \in Tanks : GaugeInv(t)'
  BY <1>1, <1>2, GaugeKept, GaugedByTank
<1> QED
  BY <1>1, <1>2, <1>3, <1>4, <1>5, <1>6, GaugedByTank
     DEF Gauged, GaugeInv, PendingIsNewest

\* A rebuild on the registry of the running process.
LEMMA RollbackStep ==
  ASSUME VersionInv, NEW i \in DOMAIN records, Rollback(i) PROVE VersionInv' /\ Onward
<1> USE DEF VersionInv
<1>1. /\ dropped' = dropped \cup {i} /\ now' = now /\ now' \in Nat
      /\ sheets' = sheets /\ spent' = spent /\ snapshots' = snapshots
      /\ records' = records /\ Rebuild(registry, active, dropped')
  BY DEF Rollback, paper, Numbered
<1>2. /\ registry' \in [Markers -> Nat] /\ registry'[Config] # 0
      /\ \A m \in Markers : registry[m] <= registry'[m]
      /\ active' \in Revisions /\ active'.generation <= registry'[Config]
      /\ Calibrated' /\ Gauged'
  <2>1. /\ registry \in [Markers -> Nat] /\ registry[Config] # 0 /\ active \in Revisions
        /\ active.generation <= registry[Config]
    BY DEF Numbered
  <2> QED
    BY <1>1, <2>1, Rebuilt
<1>3. Onward
  BY <1>1, <1>2 DEF Onward, Rises, Numbered
<1>4. Sheeted' /\ Captured'
  BY <1>1, <1>3, SheetsKept, SnapshotsKept DEF Onward, Sheeted
<1>5. Numbered' /\ Logged'
  BY <1>1, <1>2 DEF Numbered, Logged
<1> QED
  BY <1>2, <1>3, <1>4, <1>5

\* A rebuild on a fresh registry, with empty books.
LEMMA RestartStep ==
  ASSUME VersionInv, Restart PROVE VersionInv'
<1> USE DEF VersionInv
<1>1. /\ now' = 0 /\ sheets' = <<>> /\ spent' = {} /\ snapshots' = <<>>
      /\ records' = records /\ dropped' = dropped
      /\ Rebuild(FirstNumbers, FirstRevision, dropped)
  BY DEF Restart, journal
<1>2. /\ registry' \in [Markers -> Nat] /\ registry'[Config] # 0
      /\ active' \in Revisions /\ active'.generation <= registry'[Config]
      /\ Calibrated' /\ Gauged'
  <2>1. /\ FirstNumbers \in [Markers -> Nat] /\ FirstNumbers[Config] = 1
        /\ FirstRevision \in Revisions /\ FirstRevision.generation = 1 /\ now' \in Nat
    BY <1>1, MarkersDiffer, AgesAssumption DEF FirstNumbers, FirstRevision, Revisions
  <2>2. FirstNumbers[Config] # 0 /\ FirstRevision.generation <= FirstNumbers[Config]
    BY <2>1
  <2> QED
    BY <1>1, <2>1, <2>2, Rebuilt
<1>3. Sheeted' /\ Captured'
  BY <1>1 DEF Sheeted, Captured, Ascending
<1>4. Numbered' /\ Logged'
  BY <1>1, <1>2 DEF Numbered, Logged
<1> QED
  BY <1>2, <1>3, <1>4

\* Every step keeps the invariant, and all but a restart lower nothing.
LEMMA VersionNext ==
  ASSUME VersionInv, Next PROVE VersionInv' /\ (Restart \/ Onward)
<1>1. CASE PassTime
  BY <1>1, PassTimeStep
<1>2. CASE PersistValves
  BY <1>2, PersistStep
<1>3. CASE \E t \in Tanks : SwitchGauge(t) \/ Recalibrate(t)
  BY <1>3, SwitchStep, RecalibrateStep
<1>4. CASE \E s \in DOMAIN sheets :
             (\E t \in Tanks : ConfirmGauge(t, s)) \/ WasteSheet(s) \/ StartPump(s)
  BY <1>4, ConfirmStep, WasteStep, StartStep
<1>5. CASE \E age \in Ages : ReviseConfig(age)
  BY <1>5, ReviseStep
<1>6. CASE CaptureSnapshot
  BY <1>6, CaptureStep
<1>7. CASE \E i \in DOMAIN records : Rollback(i)
  BY <1>7, RollbackStep
<1>8. CASE Restart
  BY <1>8, RestartStep
<1> QED
  BY <1>1, <1>2, <1>3, <1>4, <1>5, <1>6, <1>7, <1>8 DEF Next

\* A step that changes nothing keeps the invariant too.
LEMMA VersionStutter ==
  ASSUME VersionInv, UNCHANGED vars PROVE VersionInv'
<1>1. /\ now' = now /\ registry' = registry /\ active' = active
      /\ sheets' = sheets /\ spent' = spent /\ snapshots' = snapshots
      /\ baselines' = baselines /\ confirmed' = confirmed /\ pending' = pending
      /\ records' = records /\ dropped' = dropped
  BY DEF vars, books, paper, gauges, journal
<1>2. Numbered' /\ Logged'
  BY <1>1 DEF VersionInv, Numbered, Logged
<1>3. Sheeted' /\ Captured' /\ Calibrated'
  BY <1>1 DEF VersionInv, Sheeted, Captured, Calibrated, Ascending, Issued
<1>4. Gauged'
  BY <1>1 DEF VersionInv, Gauged, PendingIsNewest, Accepted, Current, Expired
<1> QED
  BY <1>2, <1>3, <1>4 DEF VersionInv

\* Every reachable state satisfies the invariant.
THEOREM VersionInvariant == Spec => []VersionInv
<1>1. VersionInv /\ [Next]_vars => VersionInv'
  BY VersionNext, VersionStutter
<1> QED
  BY VersionInit, <1>1, PTL DEF Spec

-----------------------------------------------------------------------------
(* What it implies.                                                        *)

\* The variables of Versioning hold what their comments say.
THEOREM VersionTypeCorrect == Spec => []TypeOK
<1>1. VersionInv => TypeOK
  BY DEF VersionInv, Numbered, Logged, Sheeted, Captured, Calibrated, Gauged,
         Revisions, Entries, TypeOK
<1> QED
  BY VersionInvariant, <1>1, PTL

\* GenerationRegistry.require never meets a number it did not hand out.
THEOREM NoUnknownGeneration == Spec => []NeverAhead
<1>1. VersionInv => NeverAhead
  BY DEF VersionInv, Sheeted, Captured, Calibrated, NeverAhead
<1> QED
  BY VersionInvariant, <1>1, PTL

\* Two sheets of one subject are never good at once: their numbers differ, and
\* a good one has the number of the registry.
LEMMA OneGood == ASSUME VersionInv PROVE OneGoodSheet
<1> SUFFICES ASSUME NEW r \in DOMAIN sheets, NEW s \in DOMAIN sheets,
                    AcceptedSheet(r), AcceptedSheet(s),
                    sheets[r].marker = sheets[s].marker
             PROVE  r = s
  BY DEF OneGoodSheet
<1>1. sheets[r].generation = sheets[s].generation /\ sheets[r].generation \in Nat
  <2>1. sheets[r] \in Documents
    BY DEF VersionInv, Sheeted
  <2>2. sheets[r].generation = sheets[s].generation
    BY DEF AcceptedSheet, Accepted, Current
  <2> QED
    BY <2>1, <2>2 DEF Documents
<1>2. ~ (r < s) /\ ~ (s < r)
  BY <1>1 DEF VersionInv, Sheeted, Ascending
<1>3. r \in Nat /\ s \in Nat
  BY DEF VersionInv, Sheeted
<1> QED
  BY <1>2, <1>3

\* So a start or a confirmation can be refused, but never find two papers good.
THEOREM OneSheetPerSubject == Spec => []OneGoodSheet
  BY VersionInvariant, OneGood, PTL

\* A level waits for the sheet of its newest gauge switch.
THEOREM WaitsForNewest == Spec => []PendingIsNewest
<1>1. VersionInv => PendingIsNewest
  BY DEF VersionInv, Gauged
<1> QED
  BY VersionInvariant, <1>1, PTL

\* A sheet that is refused stays refused while the process runs.
LEMMA SheetRefused ==
  ASSUME VersionInv, Onward, NEW s \in DOMAIN sheets, ~ AcceptedSheet(s)
  PROVE  ~ AcceptedSheet(s)'
<1> DEFINE d == sheets[s]
<1>1. d \in Documents /\ Issued(d) /\ sheets'[s] = d /\ spent \subseteq spent'
  BY DEF VersionInv, Sheeted, Onward
<1>2. CASE s \in spent
  BY <1>1, <1>2 DEF AcceptedSheet
<1>3. CASE ~ Accepted(d)
  <2>1. ~ ( /\ d.config = registry'[Config]
            /\ d.generation = registry'[d.marker]
            /\ ~ (d.age > 0 /\ now' - d.issued > d.age) )
    BY <1>1, <1>3, RefusalLasts DEF VersionInv
  <2> QED
    BY <2>1, <1>1 DEF AcceptedSheet, Accepted, Current, Expired, Config
<1> QED
  BY <1>2, <1>3 DEF AcceptedSheet

\* No rollback, and nothing else that a process does, revives a document.
THEOREM RefusedStaysRefused == Spec => RefusedForGood
<1> DEFINE Lasting ==
      /\ \A s \in DOMAIN sheets : ~ AcceptedSheet(s) => ~ AcceptedSheet(s)'
      /\ \A s \in DOMAIN snapshots : ~ Accepted(snapshots[s]) => ~ Accepted(snapshots[s])'
<1>1. ASSUME VersionInv, Onward PROVE Lasting
  <2>1. ASSUME NEW s \in DOMAIN sheets, ~ AcceptedSheet(s) PROVE ~ AcceptedSheet(s)'
    BY <1>1, <2>1, SheetRefused
  <2>2. ASSUME NEW s \in DOMAIN snapshots, ~ Accepted(snapshots[s])
        PROVE  ~ Accepted(snapshots[s])'
    <3> DEFINE d == snapshots[s]
    <3>1. d \in Documents /\ Issued(d) /\ snapshots'[s] = d
      BY <1>1 DEF VersionInv, Captured, Onward
    <3>2. ~ ( /\ d.config = registry'[Config]
              /\ d.generation = registry'[d.marker]
              /\ ~ (d.age > 0 /\ now' - d.issued > d.age) )
      BY <1>1, <2>2, <3>1, RefusalLasts DEF VersionInv
    <3> QED
      BY <3>1, <3>2 DEF Accepted, Current, Expired, Config
  <2> QED
    BY <2>1, <2>2
<1> HIDE DEF Lasting
<1>2. VersionInv /\ [Next]_vars => [Restart \/ Lasting]_vars
  BY <1>1, VersionNext
<1>3. Spec => [][Restart \/ Lasting]_vars
  BY VersionInvariant, <1>2, PTL DEF Spec
<1> QED
  BY <1>3 DEF RefusedForGood, Lasting

\* A gauge is confirmed by the sheet it waits for, or by a rebuild.
THEOREM ConfirmedOnlyBySheet == Spec => ConfirmedBySheet
<1> DEFINE BySheet ==
      \A t \in Tanks :
        ~ confirmed[t] /\ confirmed'[t] =>
          \/ Restart \/ dropped' # dropped
          \/ pending[t] # 0 /\ AcceptedSheet(pending[t])
<1>1. ASSUME VersionInv, Next PROVE BySheet
  <2> SUFFICES ASSUME NEW t \in Tanks, ~ confirmed[t], confirmed'[t], ~ Restart,
                      dropped' = dropped
               PROVE  pending[t] # 0 /\ AcceptedSheet(pending[t])
    OBVIOUS
  <2>1. confirmed' # confirmed /\ confirmed \in [Tanks -> BOOLEAN]
    BY <1>1 DEF VersionInv, Gauged
  <2>2. ASSUME NEW i \in DOMAIN records, Rollback(i) PROVE FALSE
    BY <2>2 DEF Rollback
  <2>3. ASSUME NEW u \in Tanks, SwitchGauge(u) PROVE FALSE
    BY <2>1, <2>3 DEF SwitchGauge
  <2>4. PICK u \in Tanks, s \in DOMAIN sheets : ConfirmGauge(u, s)
    BY <1>1, <2>1, <2>2, <2>3
       DEF Next, PassTime, PersistValves, Recalibrate, WasteSheet, StartPump,
           ReviseConfig, CaptureSnapshot, gauges
  <2>5. u = t
    BY <2>1, <2>4 DEF ConfirmGauge
  <2> QED
    BY <1>1, <2>4, <2>5 DEF ConfirmGauge, Awaiting, VersionInv, Sheeted
<1>2. VersionInv /\ [Next]_vars => [BySheet]_vars
  <2> HIDE DEF BySheet
  <2> QED
    BY <1>1
<1>3. Spec => [][BySheet]_vars
  <2> HIDE DEF BySheet
  <2> QED
    BY VersionInvariant, <1>2, PTL DEF Spec
<1> QED
  BY <1>3 DEF ConfirmedBySheet
-----------------------------------------------------------------------------
(* The revision in force.                                                  *)

\* What the projection knows of a marker is its last record that counts.
LEMMA NewestIsLast ==
  ASSUME Logged, NEW marker, NEW gone, NEW i \in Visible(marker, gone),
         \A j \in Visible(marker, gone) : j <= i
  PROVE  Known(marker, gone) /\ Newest(marker, gone) = records[i]
<1> DEFINE Last(k) == k \in Visible(marker, gone)
                        /\ \A j \in Visible(marker, gone) : j <= k
<1>1. Visible(marker, gone) \subseteq Nat
  BY DEF Visible, Logged
<1>2. \A k : Last(k) => k = i
  BY <1>1
<1>3. Last(CHOOSE k : Last(k))
  OBVIOUS
<1>4. (CHOOSE k : Last(k)) = i
  BY <1>2, <1>3
<1>5. (CHOOSE k \in Visible(marker, gone) : \A j \in Visible(marker, gone) : j <= k) = i
  BY <1>4
<1> QED
  BY <1>5 DEF Newest, Known

\* A record of another marker changes nothing for the configuration.
LEMMA OtherRecord ==
  ASSUME Logged, RevisionInForce, NEW marker, marker # Config, NEW value,
         Record(marker, value), dropped' = dropped, active' = active,
         registry'[Config] = registry[Config]
  PROVE  RevisionInForce'
<1>1. /\ Len(records) \in Nat /\ DOMAIN records = 1 .. Len(records)
      /\ DOMAIN records' = 1 .. Len(records) + 1
      /\ \A i \in DOMAIN records : records'[i] = records[i]
      /\ records'[Len(records) + 1].marker = marker
  BY DEF Record, Logged
<1>2. Visible(Config, dropped)' = Visible(Config, dropped)
  BY <1>1 DEF Visible, Config
<1>3. Known(Config, dropped)' = Known(Config, dropped)
  BY <1>2 DEF Known, Config
<1>4. Known(Config, dropped) => Newest(Config, dropped)' = Newest(Config, dropped)
  <2>1. Known(Config, dropped) => \E i \in Visible(Config, dropped) :
          \A j \in Visible(Config, dropped) : j <= i
    BY <1>1, LastPosition DEF Known, Visible
  <2>2. \A i \in Visible(Config, dropped) : records'[i] = records[i]
    BY <1>1 DEF Visible
  <2> QED
    BY <1>2, <2>1, <2>2 DEF Newest, Config
<1>5. \A i \in dropped : records'[i] = records[i]
  BY <1>1 DEF Logged
<1> QED
  BY <1>3, <1>4, <1>5 DEF RevisionInForce, Config

\* A revision is the newest record from then on.
LEMMA OwnRecord ==
  ASSUME VersionInv, NEW age \in Ages, ReviseConfig(age) PROVE RevisionInForce'
<1>1. /\ Record(Config, age) /\ dropped' = dropped /\ Logged
      /\ active' = [generation |-> registry'[Config], age |-> age]
  BY DEF ReviseConfig, MayRecord, VersionInv
<1>2. Logged'
  BY ReviseStep DEF VersionInv
<1> DEFINE i == Len(records) + 1
<1>3. /\ Len(records) \in Nat /\ DOMAIN records' = 1 .. i /\ dropped' \subseteq 1 .. Len(records)
      /\ records'[i] = [marker |-> Config, generation |-> registry'[Config], value |-> age]
  BY <1>1 DEF Record, Logged
<1>4. i \in Visible(Config, dropped)' /\ \A j \in Visible(Config, dropped)' : j <= i
  BY <1>3 DEF Visible, Config
<1>5. Newest(Config, dropped)' = records'[i]
  <2> DEFINE Last(k) == k \in Visible(Config, dropped)'
                          /\ \A j \in Visible(Config, dropped)' : j <= k
  <2>1. \A k : Last(k) => k = i
    BY <1>3, <1>4 DEF Visible, Config
  <2>2. (CHOOSE k : Last(k)) = i
    BY <1>4, <2>1
  <2>3. (CHOOSE k \in Visible(Config, dropped)' : \A j \in Visible(Config, dropped)' : j <= k) = i
    BY <2>2
  <2> QED
    BY <2>3 DEF Newest, Visible, Config
<1> QED
  BY <1>1, <1>3, <1>5 DEF RevisionInForce, Config

\* A rebuild puts the newest revision in force; where no revision was rolled
\* back, the registry had not passed it.
LEMMA RebuiltRevision ==
  ASSUME Logged, NEW numbers \in [Markers -> Nat],
         NEW revision, records' = records,
         Rebuild(numbers, revision, dropped'), dropped \subseteq dropped',
         ~ Known(Config, dropped') => revision.generation = numbers[Config]
                                       \/ \E i \in dropped' : records[i].marker = Config,
         Known(Config, dropped') /\ (\A i \in dropped' : records[i].marker # Config)
           => numbers[Config] <= Newest(Config, dropped').generation
  PROVE  RevisionInForce'
<1>1. registry'[Config] = RestoredNumber(numbers[Config], Config, dropped')
  BY MarkersDiffer DEF Rebuild
<1>2. /\ Known(Config, dropped)' = Known(Config, dropped')
      /\ Newest(Config, dropped)' = Newest(Config, dropped')
  BY DEF Known, Newest, Visible, Config
<1>3. active' = RestoredRevision(revision, dropped')
  BY DEF Rebuild
<1>4. CASE Known(Config, dropped')
  <2>1. /\ active'.generation = Newest(Config, dropped').generation
        /\ active'.age = Newest(Config, dropped').value
    BY <1>3, <1>4 DEF RestoredRevision
  <2>2. Newest(Config, dropped') \in Entries
    BY <1>4, NewestIsARecord
  <2>3. (\A i \in dropped' : records[i].marker # Config)
          => registry'[Config] = Newest(Config, dropped').generation
    BY <1>1, <1>4, <2>2, MarkersDiffer DEF RestoredNumber, Entries
  <2> QED
    BY <1>2, <2>1, <2>3 DEF RevisionInForce, Config
<1>5. CASE ~ Known(Config, dropped')
  <2>1. active' = revision /\ registry'[Config] = numbers[Config]
    BY <1>1, <1>3, <1>5 DEF RestoredRevision, RestoredNumber
  <2> QED
    BY <1>2, <1>5, <2>1 DEF RevisionInForce, Config
<1> QED
  BY <1>4, <1>5

\* A rollback rebuilds on the registry of the process.
LEMMA RollbackRevision ==
  ASSUME VersionInv, RevisionInForce, NEW i \in DOMAIN records, Rollback(i)
  PROVE  RevisionInForce'
<1>1. /\ dropped' = dropped \cup {i} /\ records' = records /\ Logged
      /\ Rebuild(registry, active, dropped') /\ registry \in [Markers -> Nat]
  BY DEF Rollback, VersionInv, Numbered
<1>2. ASSUME \A j \in dropped' : records[j].marker # Config
      PROVE  /\ Visible(Config, dropped) = Visible(Config, dropped')
             /\ active.generation = registry[Config]
  BY <1>1, <1>2 DEF Visible, RevisionInForce
<1>3. ASSUME \A j \in dropped' : records[j].marker # Config, Known(Config, dropped')
      PROVE  registry[Config] = Newest(Config, dropped').generation
  BY <1>2, <1>3 DEF Known, Newest, RevisionInForce
<1>4. registry[Config] \in Nat
  BY <1>1, MarkersDiffer
<1>5. ASSUME Known(Config, dropped'), \A j \in dropped' : records[j].marker # Config
      PROVE  registry[Config] <= Newest(Config, dropped').generation
  BY <1>3, <1>4, <1>5
<1>6. ASSUME ~ Known(Config, dropped')
      PROVE  active.generation = registry[Config] \/ \E j \in dropped' : records[j].marker = Config
  BY <1>2
<1> QED
  BY <1>1, <1>5, <1>6, RebuiltRevision

\* A restart rebuilds on the numbers of a process that has just started.
LEMMA RestartRevision ==
  ASSUME VersionInv, Restart PROVE RevisionInForce'
<1>1. /\ records' = records /\ dropped' = dropped /\ Logged
      /\ Rebuild(FirstNumbers, FirstRevision, dropped')
  BY DEF Restart, VersionInv, journal
<1>2. /\ FirstNumbers \in [Markers -> Nat] /\ FirstNumbers[Config] = 1
      /\ FirstRevision.generation = 1
  BY MarkersDiffer DEF FirstNumbers, FirstRevision
<1>3. Known(Config, dropped') => 1 <= Newest(Config, dropped').generation
  BY <1>1, NewestIsARecord DEF Entries
<1> QED
  BY <1>1, <1>2, <1>3, RebuiltRevision

\* The revision in force is the newest that counts, for any number of
\* revisions, rollbacks and restarts.
THEOREM NewestRevisionInForce == Spec => []RevisionInForce
<1>1. Init => RevisionInForce
  BY MarkersDiffer DEF Init, RevisionInForce, Known, Visible, FirstNumbers, FirstRevision
<1>2. ASSUME VersionInv, RevisionInForce, Next PROVE RevisionInForce'
  <2> USE DEF VersionInv
  <2>1. ASSUME NEW marker \in Markers, NEW value, marker # Config, dropped' = dropped,
               active' = active, Record(marker, value), Bump(marker) \/ registry' = registry
        PROVE  RevisionInForce'
    <3>1. registry'[Config] = registry[Config]
      BY <1>2, <2>1, BumpRises, MarkersDiffer
    <3> QED
      BY <1>2, <2>1, <3>1, OtherRecord
  <2>2. ASSUME records' = records, dropped' = dropped, active' = active,
               registry'[Config] = registry[Config]
        PROVE  RevisionInForce'
    BY <1>2, <2>2 DEF RevisionInForce, Known, Newest, Visible, Config
  <2>3. \A t \in Tanks : Baseline(t) # Config
    BY DEF Baseline, Config
  <2>4. CASE \/ PassTime
             \/ \E s \in DOMAIN sheets : WasteSheet(s) \/ StartPump(s)
    BY <2>2, <2>4 DEF PassTime, WasteSheet, StartPump, journal
  <2>5. CASE PersistValves
    BY <2>1, <2>5, MarkersDiffer DEF PersistValves, MayRecord, Persist, Config
  <2>6. ASSUME NEW t \in Tanks, SwitchGauge(t) \/ Recalibrate(t)
        PROVE  RevisionInForce'
    BY <2>1, <2>3, <2>6, MarkersDiffer DEF SwitchGauge, Recalibrate, MayRecord
  <2>7. ASSUME NEW s \in DOMAIN sheets, NEW t \in Tanks, ConfirmGauge(t, s)
        PROVE  RevisionInForce'
    BY <2>1, <2>7, MarkersDiffer DEF ConfirmGauge, MayRecord
  <2>8. CASE CaptureSnapshot
    <3>1. registry'[Config] = registry[Config]
      BY <1>2, <2>8, BumpRises, MarkersDiffer DEF CaptureSnapshot, Snapshot, Config
    <3> QED
      BY <2>2, <2>8, <3>1 DEF CaptureSnapshot, journal
  <2> QED
    BY <1>2, <2>4, <2>5, <2>6, <2>7, <2>8, OwnRecord, RollbackRevision, RestartRevision
       DEF Next
<1>3. VersionInv /\ RevisionInForce /\ [Next]_vars => RevisionInForce'
  <2>1. ASSUME RevisionInForce, UNCHANGED vars PROVE RevisionInForce'
    BY <2>1 DEF vars, journal, RevisionInForce, Known, Newest, Visible, Config
  <2> QED
    BY <1>2, <2>1
<1> QED
  BY <1>1, <1>3, VersionInvariant, PTL DEF Spec

-----------------------------------------------------------------------------
(* A rebuild inside a process finds nothing that the registry lacks.       *)

Counting == DOMAIN records \ dropped

\* The registry covers every record that counts, and those of one marker carry
\* ascending numbers, so that the newest is the highest.
Covered ==
  /\ \A i \in Counting : records[i].generation <= registry[records[i].marker]
  /\ \A i, j \in Counting :
       i < j /\ records[i].marker = records[j].marker
         => records[i].generation <= records[j].generation

\* The fields of a record.
LEMMA RecordFields ==
  ASSUME VersionInv, NEW i \in DOMAIN records
  PROVE  records[i].marker \in Markers /\ records[i].generation \in Nat
<1>1. records[i] \in Entries
  BY DEF VersionInv, Logged
<1> QED
  BY <1>1 DEF Entries

\* A request that appends nothing keeps that while the registry rises.
LEMMA CoveredKept ==
  ASSUME VersionInv, Covered, Rises, records' = records, dropped \subseteq dropped'
  PROVE  Covered'
<1>1. \A i \in DOMAIN records :
        /\ registry[records[i].marker] \in Nat /\ registry'[records[i].marker] \in Nat
        /\ registry[records[i].marker] <= registry'[records[i].marker]
        /\ records[i].generation \in Nat
  BY RecordFields DEF VersionInv, Numbered, Rises
<1>2. ASSUME NEW i \in Counting'
      PROVE  i \in Counting /\ records[i].generation <= registry'[records[i].marker]
  BY <1>1 DEF Counting, Covered
<1> QED
  BY <1>2 DEF Covered

\* A request that appends does: its record carries the number of the registry.
LEMMA CoveredByRecord ==
  ASSUME VersionInv, Covered, Rises, NEW marker \in Markers, NEW value \in Nat,
         Record(marker, value), dropped' = dropped
  PROVE  Covered'
<1> DEFINE e == [marker |-> marker, generation |-> registry'[marker], value |-> value]
           n == Len(records) + 1
<1>1. e \in Entries /\ e.marker = marker /\ e.generation = registry'[marker]
  BY DEF Entries, Rises
<1>2. records' = Append(records, e) /\ records \in Seq(Entries)
  BY DEF Record, VersionInv, Logged
<1> HIDE DEF e
<1>3. /\ DOMAIN records = 1 .. Len(records) /\ Len(records) \in Nat
      /\ DOMAIN records' = 1 .. n /\ records'[n] = e
      /\ \A i \in DOMAIN records : records'[i] = records[i] /\ records[i] \in Entries
  BY <1>1, <1>2
<1>4. \A i \in Counting' : i = n \/ i \in Counting
  BY <1>3 DEF Counting
<1>5. \A m \in Markers : registry[m] <= registry'[m] /\ registry'[m] \in Nat /\ registry[m] \in Nat
  BY DEF Rises, VersionInv, Numbered
<1>6. ASSUME NEW i \in Counting
      PROVE  /\ records'[i] = records[i] /\ i < n /\ i \in Nat
             /\ records[i].generation <= registry'[records[i].marker]
  <2>1. /\ records[i].marker \in Markers /\ records[i].generation \in Nat
        /\ records[i].generation <= registry[records[i].marker]
    BY <1>3, <1>6 DEF Counting, Covered, Entries
  <2> QED
    BY <1>3, <1>5, <1>6, <2>1 DEF Counting
<1>7. \A i \in Counting' : records'[i].generation <= registry'[records'[i].marker]
  BY <1>1, <1>3, <1>4, <1>5, <1>6
<1>8. ASSUME NEW i \in Counting', NEW j \in Counting', i < j,
             records'[i].marker = records'[j].marker
      PROVE  records'[i].generation <= records'[j].generation
  <2>1. i \in Counting
    BY <1>3, <1>4, <1>6, <1>8
  <2>2. CASE j \in Counting
    BY <1>6, <1>8, <2>1, <2>2 DEF Covered
  <2>3. CASE j = n
    BY <1>1, <1>3, <1>6, <1>8, <2>1, <2>3
  <2> QED
    BY <1>4, <2>2, <2>3
<1> QED
  BY <1>7, <1>8 DEF Covered

\* The newest record of a marker is one that counts and the highest of them.
LEMMA NewestIsHighest ==
  ASSUME VersionInv, Covered, NEW marker \in Markers, NEW gone, dropped \subseteq gone,
         Known(marker, gone)
  PROVE  \E i \in Visible(marker, gone) :
           /\ i \in Counting /\ Newest(marker, gone) = records[i]
           /\ \A j \in Visible(marker, gone) : records[j].generation <= records[i].generation
<1> DEFINE S == Visible(marker, gone)
<1>1. S \subseteq 1 .. Len(records) /\ S # {} /\ Len(records) \in Nat
  BY DEF VersionInv, Logged, Visible, Known
<1>2. PICK i \in S : \A j \in S : j <= i
  <2> HIDE DEF S
  <2> QED
    BY <1>1, LastPosition
<1>3. Newest(marker, gone) = records[i]
  BY <1>2, NewestIsLast DEF VersionInv
<1>4. \A j \in S : j \in Counting /\ records[j].marker = marker /\ j \in Nat
                    /\ records[j].generation \in Nat
  BY <1>1, RecordFields DEF Visible, Counting
<1>5. ASSUME NEW j \in S PROVE records[j].generation <= records[i].generation
  <2>1. j < i \/ j = i
    BY <1>2, <1>4
  <2> QED
    BY <1>4, <2>1 DEF Covered
<1> QED
  BY <1>2, <1>3, <1>4, <1>5

\* A rollback leaves the numbers of the registry alone.
LEMMA RollbackKeepsRegistry ==
  ASSUME VersionInv, Covered, NEW i \in DOMAIN records, Rollback(i)
  PROVE  registry' = registry
<1>1. /\ dropped \subseteq dropped' /\ Rebuild(registry, active, dropped')
      /\ registry \in [Markers -> Nat]
  BY DEF Rollback, VersionInv, Numbered
<1>2. ASSUME NEW m \in Markers PROVE RestoredNumber(registry[m], m, dropped') = registry[m]
  <2>1. CASE Known(m, dropped')
    <3>1. PICK j \in Visible(m, dropped') : j \in Counting /\ Newest(m, dropped') = records[j]
      BY <1>1, <2>1, NewestIsHighest
    <3>2. /\ records[j].generation <= registry[m] /\ records[j].generation \in Nat
          /\ registry[m] \in Nat
      BY <1>1, <3>1, RecordFields DEF Visible, Counting, Covered
    <3> QED
      BY <3>1, <3>2 DEF RestoredNumber
  <2>2. CASE ~ Known(m, dropped')
    BY <2>2 DEF RestoredNumber
  <2> QED
    BY <2>1, <2>2
<1> QED
  BY <1>1, <1>2 DEF Rebuild

\* A restart finds the newest number of every marker again.
LEMMA RestartCovers == ASSUME VersionInv, Covered, Restart PROVE Covered'
<1>1. /\ records' = records /\ dropped' = dropped
      /\ registry' = [m \in Markers |-> RestoredNumber(FirstNumbers[m], m, dropped)]
  BY DEF Restart, journal, Rebuild
<1>2. ASSUME NEW i \in Counting PROVE records[i].generation <= registry'[records[i].marker]
  <2> DEFINE m == records[i].marker
  <2>1. /\ m \in Markers /\ i \in Visible(m, dropped) /\ Known(m, dropped)
        /\ records[i].generation \in Nat
    BY RecordFields DEF Counting, Visible, Known
  <2>2. PICK j \in Visible(m, dropped) :
          /\ Newest(m, dropped) = records[j]
          /\ records[i].generation <= records[j].generation
    BY <2>1, NewestIsHighest
  <2>3. records[j].generation \in Nat /\ FirstNumbers[m] \in Nat
    BY <2>1, RecordFields DEF Visible, FirstNumbers
  <2>4. records[j].generation <= RestoredNumber(FirstNumbers[m], m, dropped)
    BY <2>1, <2>2, <2>3 DEF RestoredNumber
  <2> HIDE DEF m
  <2>5. registry'[m] = RestoredNumber(FirstNumbers[m], m, dropped)
    BY <1>1, <2>1
  <2>6. RestoredNumber(FirstNumbers[m], m, dropped) \in Nat
    BY <2>2, <2>3 DEF RestoredNumber
  <2> QED
    BY <2>1, <2>2, <2>3, <2>4, <2>5, <2>6 DEF m
<1> QED
  BY <1>1, <1>2 DEF Covered, Counting

\* Every step keeps the records covered.
LEMMA CoveredStep == ASSUME VersionInv, Covered, [Next]_vars PROVE Covered'
<1>1. CASE Restart
  BY <1>1, RestartCovers
<1>2. ASSUME Onward, records' = records, dropped \subseteq dropped' PROVE Covered'
  BY <1>2, CoveredKept DEF Onward
<1>3. ASSUME Onward, NEW marker \in Markers, NEW value \in Nat, Record(marker, value),
             dropped' = dropped
      PROVE  Covered'
  BY <1>3, CoveredByRecord DEF Onward
<1>4. CASE PersistValves
  BY <1>3, <1>4, PersistStep, MarkersDiffer DEF PersistValves, MayRecord
<1>5. ASSUME NEW t \in Tanks, SwitchGauge(t) PROVE Covered'
  BY <1>3, <1>5, SwitchStep, MarkersDiffer DEF SwitchGauge, MayRecord
<1>6. ASSUME NEW t \in Tanks, Recalibrate(t) PROVE Covered'
  BY <1>3, <1>6, RecalibrateStep, MarkersDiffer DEF Recalibrate, MayRecord
<1>7. ASSUME NEW t \in Tanks, NEW s \in DOMAIN sheets, ConfirmGauge(t, s) PROVE Covered'
  BY <1>3, <1>7, ConfirmStep, MarkersDiffer DEF ConfirmGauge, MayRecord
<1>8. ASSUME NEW age \in Ages, ReviseConfig(age) PROVE Covered'
  BY <1>3, <1>8, ReviseStep, MarkersDiffer, AgesAssumption DEF ReviseConfig, MayRecord
<1>9. ASSUME NEW i \in DOMAIN records, Rollback(i) PROVE Covered'
  BY <1>2, <1>9, RollbackStep DEF Rollback
<1>10. ASSUME NEW s \in DOMAIN sheets, WasteSheet(s) \/ StartPump(s) PROVE Covered'
  BY <1>2, <1>10, WasteStep, StartStep DEF WasteSheet, StartPump, journal
<1>11. CASE PassTime \/ CaptureSnapshot
  BY <1>2, <1>11, PassTimeStep, CaptureStep DEF PassTime, CaptureSnapshot, journal
<1>12. CASE UNCHANGED vars
  BY <1>12 DEF vars, journal, Covered, Counting
<1> QED
  BY <1>1, <1>4, <1>5, <1>6, <1>7, <1>8, <1>9, <1>10, <1>11, <1>12 DEF Next

\* The documents' invariant and that of the records.
LEMMA CoveredLayer == Spec => [](VersionInv /\ Covered)
<1>1. Init => VersionInv /\ Covered
  <2>1. Init => Covered
    BY DEF Init, Covered, Counting
  <2> QED
    BY <2>1, VersionInit
<1>2. VersionInv /\ Covered /\ [Next]_vars => VersionInv' /\ Covered'
  BY VersionNext, VersionStutter, CoveredStep
<1> QED
  BY <1>1, <1>2, PTL DEF Spec

\* A rollback may rebuild everything else: it changes no generation, so it
\* refuses no document that was good and accepts none that was not.
THEOREM RollbackChangesNoGeneration ==
  Spec => [][(\E i \in DOMAIN records : Rollback(i)) => registry' = registry]_vars
<1>1. VersionInv /\ Covered /\ [Next]_vars =>
        [(\E i \in DOMAIN records : Rollback(i)) => registry' = registry]_vars
  BY RollbackKeepsRegistry
<1> QED
  BY <1>1, CoveredLayer, PTL DEF Spec

-----------------------------------------------------------------------------
(* The books are a ledger of sheets.                                       *)

\* Which sheets are good, before a step and after it.
LEMMA GoodMembers ==
  /\ \A m \in Subjects : \A s :
       s \in goodSheets[m] <=>
         s \in DOMAIN sheets /\ sheets[s].marker = m /\ AcceptedSheet(s)
  /\ \A m \in Subjects : \A s :
       s \in goodSheets'[m] <=>
         s \in DOMAIN sheets' /\ sheets'[s].marker = m /\ AcceptedSheet(s)'
  /\ goodSheets = [m \in Subjects |-> goodSheets[m]]
  /\ goodSheets' = [m \in Subjects |-> goodSheets'[m]]
  BY DEF goodSheets, Subjects, Persist, Gauge

\* A step that touches no sheet, no number of its subject and no revision takes
\* none.
LEMMA GoodStays ==
  ASSUME sheets' = sheets, spent' = spent, now' = now,
         registry'[Config] = registry[Config],
         \A m \in Subjects : registry'[m] = registry[m]
  PROVE  goodSheets' = goodSheets
<1>1. ASSUME NEW m \in Subjects, NEW s \in DOMAIN sheets, sheets[s].marker = m
      PROVE  AcceptedSheet(s)' <=> AcceptedSheet(s)
  BY <1>1 DEF AcceptedSheet, Accepted, Current, Expired, Config
<1>2. \A m \in Subjects : \A s : s \in goodSheets'[m] <=> s \in goodSheets[m]
  BY <1>1, GoodMembers
<1>3. \A m \in Subjects : goodSheets'[m] = goodSheets[m]
  BY <1>2, GoodMembers
<1> QED
  BY <1>3, GoodMembers

\* A new sheet takes the place of the good one of its subject and leaves those
\* of others: it bumps no number they name.
LEMMA IssueStep ==
  ASSUME VersionInv, NEW marker \in Subjects, Bump(marker), IssueSheet(marker),
         now' = now
  PROVE  Ledger!Issue(marker)
<1> USE DEF VersionInv
<1>1. marker \in Markers /\ marker # Config /\ now' \in Nat
  BY MarkersDiffer DEF Subjects, Config, Persist, Numbered
<1>2. /\ registry'[marker] = registry[marker] + 1
      /\ \A m \in Markers : m # marker => registry'[m] = registry[m]
      /\ registry'[Config] = registry[Config]
  BY <1>1, BumpRises, MarkersDiffer
<1>3. /\ Len(sheets') = Len(sheets) + 1 /\ DOMAIN sheets' = DOMAIN sheets \cup {Len(sheets')}
      /\ Len(sheets') \notin DOMAIN sheets
      /\ \A s \in DOMAIN sheets : sheets'[s] = sheets[s]
      /\ sheets'[Len(sheets')] = [marker |-> marker, generation |-> registry'[marker],
           config |-> registry'[Config], issued |-> now', age |-> StartAge]
      /\ spent' = spent /\ spent \subseteq DOMAIN sheets
  BY DEF IssueSheet, Issue, Sheeted
<1>4. goodSheets'[marker] = {Len(sheets')}
  <2>1. ASSUME NEW s \in DOMAIN sheets, sheets[s].marker = marker
        PROVE  ~ AcceptedSheet(s)'
    <3>1. sheets[s].generation <= registry[marker] /\ sheets[s] \in Documents
      BY <2>1 DEF Sheeted, Issued
    <3>2. sheets[s].generation # registry'[marker]
      BY <3>1, <1>1, <1>2 DEF Documents, Numbered
    <3> QED
      BY <3>2, <2>1, <1>3 DEF AcceptedSheet, Accepted, Current
  <2>2. ASSUME NEW n, n = Len(sheets') PROVE sheets'[n].marker = marker /\ AcceptedSheet(n)'
    <3>1. n \notin spent' /\ sheets'[n].issued = now'
      BY <2>2, <1>3
    <3>2. ~ (sheets'[n].age > 0 /\ now' - sheets'[n].issued > sheets'[n].age)
      BY <2>2, <1>1, <1>3, AgesAssumption
    <3> QED
      BY <2>2, <3>1, <3>2, <1>3 DEF AcceptedSheet, Accepted, Current, Expired, Config
  <2> QED
    BY <2>1, <2>2, <1>3, GoodMembers
<1>5. ASSUME NEW m \in Subjects, m # marker PROVE goodSheets'[m] = goodSheets[m]
  <2>1. m \in Markers /\ registry'[m] = registry[m]
    BY <1>2, <1>5, MarkersDiffer DEF Subjects
  <2>2. ASSUME NEW s \in DOMAIN sheets, sheets[s].marker = m
        PROVE  AcceptedSheet(s)' <=> AcceptedSheet(s)
    BY <2>1, <2>2, <1>2, <1>3
       DEF AcceptedSheet, Accepted, Current, Expired, Config
  <2>3. \A s : s \in goodSheets'[m] <=> s \in goodSheets[m]
    BY <1>3, <1>5, <2>2, GoodMembers
  <2> QED
    BY <2>3, GoodMembers
<1>6. goodSheets' = [goodSheets EXCEPT ![marker] = {Len(sheets')}]
  BY <1>4, <1>5, GoodMembers
<1> QED
  BY <1>2, <1>3, <1>6 DEF Ledger!Issue

\* Consuming a good sheet uses up what its subject has; another one takes none.
LEMMA UseStep ==
  ASSUME VersionInv, NEW s \in DOMAIN sheets, Consume(s), now' = now, registry' = registry
  PROVE  Ledger!Next \/ UNCHANGED <<Len(sheets), goodSheets, now, registry[Config]>>
<1> DEFINE m == sheets[s].marker
<1>1. sheets' = sheets /\ spent' = spent \cup {s}
  BY DEF Consume
<1>2. \A r \in DOMAIN sheets : AcceptedSheet(r)' <=> AcceptedSheet(r) /\ r # s
  BY <1>1 DEF AcceptedSheet, Accepted, Current, Expired, Config
<1>3. \A k \in Subjects : \A r : r \in goodSheets'[k] <=> r \in goodSheets[k] /\ r # s
  BY <1>1, <1>2, GoodMembers
<1>4. CASE m \in Subjects /\ AcceptedSheet(s)
  <2>1. s \in goodSheets[m]
    BY <1>4, GoodMembers
  <2>2. \A r \in goodSheets[m] : r = s
    BY <1>4, OneGood, GoodMembers DEF OneGoodSheet
  <2>3. goodSheets'[m] = {}
    BY <1>3, <1>4, <2>2
  <2>4. ASSUME NEW k \in Subjects, k # m PROVE goodSheets'[k] = goodSheets[k]
    <3>1. s \notin goodSheets[k]
      BY <2>4, GoodMembers
    <3>2. \A r : r \in goodSheets'[k] <=> r \in goodSheets[k]
      BY <1>3, <3>1
    <3> QED
      BY <3>2, GoodMembers
  <2>5. goodSheets' = [goodSheets EXCEPT ![m] = {}]
    BY <2>3, <2>4, GoodMembers
  <2>6. Ledger!Use(m)
    BY <1>1, <2>1, <2>5 DEF Ledger!Use, Config
  <2> QED
    BY <1>4, <2>6 DEF Ledger!Next
<1>5. CASE ~ (m \in Subjects /\ AcceptedSheet(s))
  <2>1. \A k \in Subjects : s \notin goodSheets[k]
    BY <1>5, GoodMembers
  <2>2. \A k \in Subjects : \A r : r \in goodSheets'[k] <=> r \in goodSheets[k]
    BY <1>3, <2>1
  <2>3. goodSheets' = goodSheets
    BY <2>2, GoodMembers
  <2> QED
    BY <1>1, <2>3 DEF Config
<1> QED
  BY <1>4, <1>5

\* Age takes sheets and revives none.
LEMMA AgeStep == ASSUME VersionInv, PassTime PROVE Ledger!Age
<1>1. /\ sheets' = sheets /\ now' = now + 1 /\ now \in Nat /\ registry' = registry /\ Onward
  BY PassTimeStep DEF PassTime, books, paper, VersionInv, Numbered
<1>2. \A m \in Subjects : goodSheets'[m] \subseteq goodSheets[m]
  BY <1>1, SheetRefused, GoodMembers
<1>3. DOMAIN goodSheets' = Subjects
  BY GoodMembers
<1> QED
  BY <1>1, <1>2, <1>3 DEF Ledger!Age, Config

\* A revision takes every sheet: each names the configuration of its issue.
LEMMA ReviseTakesAll ==
  ASSUME VersionInv, NEW age \in Ages, ReviseConfig(age) PROVE Ledger!Revise
<1>1. sheets' = sheets /\ now' = now /\ Bump(Config)
  BY DEF ReviseConfig, MayRecord, books, paper
<1>2. registry'[Config] = registry[Config] + 1 /\ registry[Config] \in Nat
  BY <1>1, BumpRises, MarkersDiffer DEF VersionInv, Numbered
<1>3. ASSUME NEW s \in DOMAIN sheets PROVE ~ AcceptedSheet(s)'
  <2>1. sheets[s] \in Documents /\ Issued(sheets[s])
    BY <1>3 DEF VersionInv, Sheeted
  <2>2. sheets[s].config # registry'[Config]
    BY <1>2, <2>1 DEF Issued, Documents
  <2> QED
    BY <1>1, <2>2 DEF AcceptedSheet, Accepted, Current, Config
<1>4. \A m \in Subjects : goodSheets'[m] = {}
  BY <1>1, <1>3, GoodMembers
<1>5. goodSheets' = [m \in Subjects |-> {}]
  BY <1>4, GoodMembers
<1> QED
  BY <1>1, <1>2, <1>5 DEF Ledger!Revise, Ledger!None

\* A process starts without sheets.
LEMMA StartsWithoutSheets == ASSUME VersionInv, Restart PROVE Ledger!StartOver
<1>1. sheets' = <<>> /\ now' = 0
  BY DEF Restart
<1>2. registry'[Config] \in Nat /\ registry'[Config] # 0
  BY RestartStep, MarkersDiffer DEF VersionInv, Numbered
<1>3. goodSheets' = [m \in Subjects |-> {}]
  <2>1. \A m \in Subjects : goodSheets'[m] = {}
    BY <1>1, GoodMembers
  <2> QED
    BY <2>1, GoodMembers
<1>4. registry'[Config] >= 1
  BY <1>2
<1> QED
  BY <1>1, <1>3, <1>4 DEF Ledger!StartOver, Ledger!None

\* A calibration, a snapshot and a rollback change nothing the ledger has.
LEMMA QuietStep ==
  ASSUME VersionInv, Covered,
         \/ \E t \in Tanks : Recalibrate(t)
         \/ CaptureSnapshot
         \/ \E i \in DOMAIN records : Rollback(i)
  PROVE  UNCHANGED <<Len(sheets), goodSheets, now, registry[Config]>>
<1>1. sheets' = sheets /\ spent' = spent /\ now' = now
  BY DEF Recalibrate, CaptureSnapshot, Rollback, MayRecord, paper
<1>2. Config \in Markers /\ Subjects \subseteq Markers
  BY MarkersDiffer DEF Subjects
<1>3. ASSUME NEW m \in Subjects \cup {Config} PROVE registry'[m] = registry[m]
  <2>1. ASSUME NEW marker \in Markers, Bump(marker), marker # m PROVE registry'[m] = registry[m]
    <3>1. m \in Markers
      BY <1>2, <1>3
    <3> QED
      BY <2>1, <3>1, BumpRises DEF VersionInv
  <2>2. \A t \in Tanks : Baseline(t) \in Markers /\ Baseline(t) # m
    <3>1. \A t \in Tanks : Baseline(t) # Persist /\ Baseline(t) # Config
      BY DEF Baseline, Persist, Config
    <3>2. m = Persist \/ m = Config \/ \E u \in Tanks : m = Gauge(u)
      BY <1>3 DEF Subjects
    <3> QED
      BY <3>1, <3>2, MarkersDiffer
  <2>3. Snapshot \in Markers /\ Snapshot # m
    BY <1>3, MarkersDiffer DEF Subjects, Snapshot, Persist, Config
  <2> QED
    BY <2>1, <2>2, <2>3, RollbackKeepsRegistry DEF Recalibrate, CaptureSnapshot
<1>4. goodSheets' = goodSheets
  BY <1>1, <1>3, GoodStays
<1> QED
  BY <1>1, <1>3, <1>4 DEF Config

\* Sheets are single-use evidence of one subject each, good until used, replaced,
\* too old or revised away: the books, with their registry, revisions, rollbacks
\* and restarts, implement SheetLedger.
THEOREM BooksImplementLedger == Spec => LedgerSpec
<1>1. Init => Ledger!Init
  <2> SUFFICES ASSUME Init PROVE Ledger!Init
    OBVIOUS
  <2>1. sheets = <<>> /\ now = 0 /\ registry[Config] = 1
    BY MarkersDiffer DEF Init, FirstNumbers
  <2>2. goodSheets = [m \in Subjects |-> {}]
    BY <2>1 DEF goodSheets
  <2> QED
    BY <2>1, <2>2 DEF Ledger!Init, Ledger!None
<1>2. ASSUME VersionInv, Covered, Next
      PROVE  Ledger!Next \/ UNCHANGED <<Len(sheets), goodSheets, now, registry[Config]>>
  <2>1. CASE PersistValves
    <3>1. Persist \in Subjects /\ Ledger!Issue(Persist)
      BY <1>2, <2>1, IssueStep DEF PersistValves, MayRecord, Subjects
    <3> QED
      BY <3>1 DEF Ledger!Next
  <2>2. ASSUME NEW t \in Tanks, SwitchGauge(t) PROVE Ledger!Next
    <3>1. Gauge(t) \in Subjects /\ Ledger!Issue(Gauge(t))
      BY <1>2, <2>2, IssueStep DEF SwitchGauge, MayRecord, Subjects
    <3> QED
      BY <3>1 DEF Ledger!Next
  <2>3. ASSUME NEW s \in DOMAIN sheets,
               (\E t \in Tanks : ConfirmGauge(t, s)) \/ WasteSheet(s) \/ StartPump(s)
        PROVE  Ledger!Next \/ UNCHANGED <<Len(sheets), goodSheets, now, registry[Config]>>
    <3>1. Consume(s) /\ now' = now /\ registry' = registry
      BY <2>3 DEF ConfirmGauge, WasteSheet, StartPump, MayRecord
    <3> QED
      BY <1>2, <3>1, UseStep
  <2>4. CASE PassTime
    BY <1>2, <2>4, AgeStep DEF Ledger!Next
  <2>5. ASSUME NEW age \in Ages, ReviseConfig(age) PROVE Ledger!Next
    BY <1>2, <2>5, ReviseTakesAll DEF Ledger!Next
  <2>6. CASE Restart
    BY <1>2, <2>6, StartsWithoutSheets DEF Ledger!Next
  <2>7. CASE \/ \E t \in Tanks : Recalibrate(t)
             \/ CaptureSnapshot
             \/ \E i \in DOMAIN records : Rollback(i)
    BY <1>2, <2>7, QuietStep
  <2> QED
    BY <1>2, <2>1, <2>2, <2>3, <2>4, <2>5, <2>6, <2>7 DEF Next
<1>3. ASSUME UNCHANGED vars
      PROVE  UNCHANGED <<Len(sheets), goodSheets, now, registry[Config]>>
  <2>1. sheets' = sheets /\ spent' = spent /\ now' = now /\ registry' = registry
    BY <1>3 DEF vars, books, paper
  <2> QED
    BY <2>1, GoodStays DEF Config
<1>4. VersionInv /\ Covered /\ [Next]_vars
        => [Ledger!Next]_<<Len(sheets), goodSheets, now, registry[Config]>>
  BY <1>2, <1>3
<1> QED
  BY <1>1, <1>4, CoveredLayer, PTL DEF Spec, LedgerSpec, Ledger!Spec
=============================================================================
