# Verification of the tank farm control service

This directory holds TLA+ models of `src/tankfarm`, the control service of a
tank farm: it moves product from an old tank to a new one through a manifold of
valves and two pumps, watches level and blanket gas, latches interlocks, and
keeps a journal of everything it does from which a restart resumes.

The models are checked with TLC on small instances. The theorems of
`JournalProofs`, `JournalHistoryProofs`, `InterlockProofs`, `VersioningProofs`,
`JournalThreadsProofs`, `JournalThreadsKeptProofs`, `SetpointsProofs` and
`TransferProofs` are proved with TLAPS for every value of the constants.

## 1. Inventory

All line numbers are those of `PROJECT.json`, which maps every definition to the
code it stands for.

| Component | State | Operations | Talks to |
|---|---|---|---|
| Record journal (`journal/`) | in-memory stream, watermark, index of tombstones | append, commit, rollback, replay | the store on every append and commit; observers (the projection) |
| Store (`store/`) | `journal.jsonl`, `checkpoint.json`, `audit.jsonl` | append a line, replace a document, read | called by journal and audit log |
| State projection (`judgement/history.py`) | last value per field, counters, generations | apply a record, snapshot, rebuild | observer of the journal; source of every rebuild |
| Sequence machine and handover (`sequence/`, `tank/handoff.py`) | stage, three facts, history | check, advance, restore; open new, close old, retry | valves, journal |
| Valves (`valve/`) | position and durable mark of each valve | open, close, persist all | journal, registry, sheets |
| Pumps (`pump/`) | running flag | gated start, stop, stop all | gate, sequence, journal |
| Header and set points (`pump/setpoint.py`, `pump/arbiter.py`, `valve/header.py`) | set point of each pump and of the header, last writer | set, ramp | arbiter, journal |
| Sheets and generations (`versioning/`) | generation per scope and key; sheets, baselines, snapshots | bump, require, restore; issue, consume, record, capture | valves, level, configuration |
| Interlock engine (`interlock/`) | two latches | evaluate the rules, set, clear, restore | level, blanket, pumps, emergency valve |
| Emergency shutdown (`esd/`) | none of its own | trip, retrip, test, reset | engine, emergency valve, pumps |
| Level (`level/`) | reading, baseline, gauge, confirmation, pending sheet per tank | fill, draw, switch, confirm, recalibrate | sheets, baselines, journal |
| Blanket gas (`inert/`) | pressure, alarm, confirmation per tank | pressure, alarm, clear | vent valve, engine |
| Inlet (`inlet/`) | an open flag | open, fill, release | blanket, engine, valve, level |
| Configuration (`config/`) | revision in force | revise, restore | limits, window, registry |
| Batches (`judgement/batch.py`) | registrations by id | register, restore | configuration, journal |
| Facade (`console/wiring.py`) | all of the above | one method per request: acts, evaluates, commits | everything |
| Console (`console/`) | one thread per HTTP request, no lock | routes and handlers | the facade |
| Events and audit (`event/`, `audit/`) | subscribers, audit entries | publish, record | nothing in control reads them |

What makes the system correct, and what is hard about it:

* **Journal.** What was committed survives; what was not, or was rolled back,
  has no effect after a restart. Hard: every append writes memory, file and
  projection in turn, a commit writes memory and then the checkpoint, a rollback
  does all of it; a crash or an error of the file system falls between any two.
* **Transfer.** No pump runs before the valves are known to be where they have
  to be, and what was true of them at a check is still true at the start. Hard:
  the handover is a protocol over several requests, each of several records; the
  evidence can be invalidated between them; a thread can be overtaken by another.
* **Interlocks.** An alarm or a high level latches and stays latched until the
  plant is safe. Hard: latches are decided at the end of a request from state
  that other requests (gauge switch, new limits, operator release, restart)
  change without a decision.
* **Versions.** A document that is out of date is refused, and one that is not
  is accepted. Hard: rollback and restart rebuild numbers and documents.
* **Rollback.** `Services.rollback` appends a tombstone, resets every device,
  folds the remaining records again, sets the devices from that, and commits.
  Hard: it is a second way to get to every state of every part, it also folds
  what a request that was cut off had left in the journal, and nothing is
  evaluated after it.
* **Threads.** The server answers every request on a thread of its own and no
  part takes a lock. Hard: journal, checkpoint, registry, sheets and set points
  are all read, compared and written in separate steps.

## 2. The modules

Each component has a module, and every action of a module is one of the
granularities below; `PROJECT.json` maps each definition to its lines.

| Module | A step is | Threads | Crash, restart | Rollback |
|---|---|---|---|---|
| `Journal` | one file write | no | between any two writes | its own steps |
| `JournalThreads` | one access to shared state | yes | between any two | no |
| `Setpoints` | one access to shared state | yes | between any two | of another record |
| `Transfer` | one test of a shared value, one change of a device or one record | yes | between any two | of any record |
| `Interlock` | one request | no | between requests | of any record |
| `Versioning` | one request | no | between requests | of every record it knows |

### `Journal`, `CommittedHistory`

`stream`, `watermark`, `tombstones` and `projection` are memory; `journalFile`
and `checkpoint` are the files. A request appends (`AppendRecord`) and commits
(`Commit`); the two are separate actions because a request that is refused half
way leaves its records pending, and because a crash falls between them.
`POST /api/journal/commit` gives any target, so `Commit` does too. `Rollback` is
the part of `Services.rollback` up to its own commit and `FinishRollback` that
commit: a crash in between finds the tombstone in the file and the old
checkpoint. `Faults` makes an append or a checkpoint write raise: memory keeps
what was done before. The projection is a last-writer-wins field per record
kind plus the list of rollbacks and the counter; the two dozen fields of the
code differ only in which kind writes them. `Fold` is the loop that `project`
and `replay` share, over the places of the records they count: `UpTo` is the
break at the first record above the limit, `Kept` the skipping of those that are
rolled back.

`CommittedHistory` is the abstract promise: a log that only grows and a set of
dropped entries that only grows, each entry dropped once and only when it is
committed. `Journal!PublishedSpec` reads the log and the dropped entries off the
two *files* and is checked (and proved) as a refinement.

### `JournalThreads`

The journal again, without rollbacks and with several threads: `POST /api/batch`
and `POST /api/journal/commit`, each cut into its accesses to shared state. A
registration tests and enters the batch, takes a number (`len + 1`, read before
the append), appends to the stream, to the file and to the projection, and
commits. The commit of a registration takes the head of the stream; a commit
that was asked for by itself names any number up to the head or takes the head
(`Named`). It compares the watermark, sets it, reads it back, takes a
snapshot, and writes `checkpoint.json` by way of one temporary file whose name
every thread uses. `handle` says which file an open handle refers to by now: a
rename moves it, so a late writer may write into the checkpoint itself or into a
file that is gone. Two documents written over one another leave either the later
one or something that does not parse (`Torn`), and a process that finds that does
not start. `answers` and `races` are history variables.

### `Setpoints`

Set points and ramps on threads, one access at a time: read the pump, write it,
write the header through the arbiter, record the header (which is read again).
`newest` is what all header records of the file say, also those behind the last
checkpoint; `saved` is what the checkpoint says. A commit of any other request
(`OtherCommit`) and a rollback of any other record (`Rollback`) may come between
two steps. `overlaps` counts requests that met another one.

### `Transfer`

A request is a program: a sequence of steps (`Check`, `Enter`, `Move`, `Write`,
`Verify`, `Use`, `Energise`, ...) that `todo[t]` holds for each thread. A change
of a device is one step and the record of it the next (`Report` puts it in
front), so threads, failures and restarts fall between the two, as between
`valve.move_to` and `journal.append` in `ValveSwitcher._move`. The interpreter of
Python may also switch threads inside a step, which is left out. `AppendRecord`
is `JournalWriter.append`: the stream has the record, and either the line is
written and the projection follows, or (at most `MaxFailures` times) it raises,
and the rest of the request is dropped while its effects stay. `journal` is the
projection, `saved` the one in the checkpoint, which is what a restart finds, and
`stream` what *all* records say, which is what a rollback finds.

`level` is what the gauge of the process tank says: room, the limit, or nothing
while it is not confirmed. A fill or a draw moves it and ends with an evaluation
and a commit (`ChangeLevel`); a gauge switch, a confirmation and a revision of
the configuration change what it says, and commit without an evaluation
(`Reassess`). `POST /api/interlock/evaluate` evaluates without a commit. Requests
that the model tells apart only by whether they write, evaluate and commit are
`OtherPrograms`, the refused fill that leaves an uncommitted record among them.

`Rollback` takes back any record: its program is `UndoRecord` (the tombstone),
`Rebuild` (every device is set from `stream`; marks and sheets' evidence go) and
a commit. The model keeps no older records, so what the field of the rolled-back
one falls back to is left open (`Undoable`): any value of its kind, a stage or
generation up to the furthest that a record ever put in and a pump that a record
named (`past`). That is more than the code can do, never less. `undone` remembers
of which kinds rollbacks changed what the records say (and that one may have
changed what the gauge says), `jumped` that a rebuild moved the plant;
the properties that do not survive such a rollback name them. A configuration
that was rolled back stays in force until the process ends (`_restore_config`),
so after one `level` may be anything (`LevelsOf`).

Abstracted: of the valves only the two tank valves and the emergency valve; of
the two latches only overfill; `VerifySheet` may refuse for the reasons that
other modules model (baseline, blanket, configuration) and may find the sheet
expired. `vouching` is a history variable: the sheets since whose issue no valve
moved.

### `Interlock`

An action is a whole request. `EvaluateAndCommit`, `CommitOnly` and `Evaluate`
are the three ways requests end: with an evaluation of the rules and a commit,
with a commit only, and (`POST /api/interlock/evaluate`) with an evaluation only.
`saved` holds the values that can differ from memory between requests: the
latches after an evaluation without a commit and the inlet valve after
`FillNothing`, the refused fill. `journalled` is what the records say of them.
Levels and pressures are small integers; a fill or
draw is any amount. Tanks other than the process tank have a blanket and share
the vent, nothing else of theirs gates anything.

A rollback takes back a record of any kind: of a latch or the inlet valve
(`UndoLogged`), the level or its gauge (`UndoLevel`), a configuration
(`UndoConfig`), a pressure or an alarm (`UndoGas`), a pump, the emergency valve
or the vent (`UndoDevice`). The value it sets falls back to one of an older
record or to the seed; the model keeps no older records and allows any value of
the kind, which is more than the code can do. `Rebuild` then sets latches and
inlet from the journal, refreshes the blanket and commits; nothing is evaluated,
and `rolledBack` says so until the next evaluation.

### `Versioning`, `SheetLedger`

The generation registry, sheets, baselines and snapshots, gauge confirmations
and the revision in force; `records` keeps the committed records that carry a
generation, `dropped` those rolled back. `Rebuild` is `_apply_projection`, run by
`Rollback` on the live registry and by `Restart` on a fresh one; it restores the
newest revision that is left (`RestoredRevision`), or, when none is, leaves what
the process has. A document remembers its age limit when it is issued: sheets
and calibrated baselines the one the process was *started* with, snapshots and
rebuilt baselines the one in force, as in the code. `now` counts units of many
ticks, so that a request takes no time.

`SheetLedger` is what all of that promises whoever holds a confirmation sheet: a
set of good sheets for each subject, beside the time and the number of the
configuration. A sheet is good from its issue until it is used (`Use`, also in
vain), replaced by the next one of its subject (`Issue`), too old (`Age`) or the
configuration is revised (`Revise`); a new process starts without sheets
(`StartOver`). Nothing else takes one and nothing revives one: the generations of
other subjects, calibrations, snapshots and every rollback, that of a
configuration or of the issue itself included, are stutters of the ledger.
`Versioning!LedgerSpec` reads it off the books (`goodSheets`) and is checked and
proved as a refinement.

### How they fit together

The facade composes the parts: each request acts on devices, appends records,
may evaluate the latches, and commits. `Journal` shows what commit, rollback and
restart make of *records*; the other modules keep, of the journal, only what
their fields say (`saved`, `journalled`, `stream`, `newest`, `records`), and
their `Commit`, `Restart` and `Rebuild` do to those what `Journal` shows a commit,
a restart and a rollback do: a restart shows the state of the checkpoint
(`RestartShowsCheckpoint`), a rollback the last line of each kind in the whole
journal that still counts (`RollbackShowsJournal`). `Transfer` takes the verdict of baseline, gauge and
configuration as a possible refusal; `Versioning` says when they refuse.
`Interlock` takes a pump start as one request; `Transfer` has its steps.

## 3. The runs

| Run | States | Bounds | Shows |
|---|---|---|---|
| `JournalCrash` | 12,862 | 1 kind, 2 values, 4 records, 2 crashes | record numbers, committed records, rollbacks and reported watermarks survive crashes between any two writes; the live state is the history until a process ends; the files implement `CommittedHistory` |
| `JournalFaults` | 428,554 | 1 kind, 1 value, 4 records, 2 crashes; both writes may raise | a target is rolled back at most once in the file; a watermark never falls while a process is up |
| `JournalRolledBackReturns` | violation | as `JournalCrash` | finding 1 |
| `JournalThreads` | 11,998,779 | 2 threads, 2 batches, 3 records, 1 crash, commits of any target | see below |
| `Setpoints` | 401,564 | 2 threads, 2 pumps, targets 0 and 5, steps of 2, at most 2 of them, 1 overlap | see below |
| `Transfer` | 12,103,285 (pumps symmetric) | 1 thread, 2 pumps, 2 persists, 1 restart, 1 rollback of any record | see below |
| `TransferFailedPersist` | violation | 1 thread, 1 pump, 2 persists, 2 failed writes | finding 2 |
| `TransferTwoThreads` | violation | 2 threads, 1 pump, 2 persists | finding 3 |
| `Interlock` | 145,904 | 1 tank, levels 0..3 from 1, 2 limits, 2 windows, 2 pressures; rollbacks of any record, unbounded | see below |
| `InterlockVent` | violation | 2 tanks, levels 0..3 | finding 4 |
| `Versioning` | 1,219,121 | 1 tank, 3 records with generations, 2 snapshots, 3 points in time, ages 0 and 1 | see below |
| `VersioningBaseline` | violation | 2 records | finding 5 |

* **`JournalThreads`**: the state of a checkpoint names only batches that have a
  line in the file, however threads interleave; an answered registration has its
  line, and, unless two commits overlapped, is kept by checkpoint and watermark.
* **`Setpoints`**: a ramp that met no other request ends where its number of
  steps can lead it; between requests the header is journalled, saved and that of
  its last writer, across rollbacks and restarts; every ramp ends, also when two
  pull one pump in opposite directions.
* **`Transfer`**: a pump starts without a latch, at the end of the sequence, on a
  sheet that vouches for the positions the valves have at that moment, and alone
  unless the record of a stage was rolled back; it runs at the end of the
  sequence, with the same exception, and alone unless a rollback brought another
  one back. The new tank is open in the journal before the sequence calls the old
  one closed and before a handover, first or repeated, closes it; a pump is
  switched off, and the latch released, only behind a closed emergency valve.
  Between requests the checkpoint has the positions and the pumps; the stage, the
  generation and the level unless a record of that kind was rolled back; and the
  latch, unless an evaluation without a commit changed it: one that only memory
  has means that the level is at the limit, one that only the checkpoint has that
  the plant is safe.
* **`Interlock`**: an alarm on the process tank is latched whatever operators
  release, and after a rollback from the next evaluation on; a request that moves
  the level to the limit under a confirmed gauge ends latched, and when a
  rollback moved it the next request that evaluates does; a trip shuts the plant;
  no fill into an alarm; a latch falls only when the plant is safe, by a rollback
  or by a restart.
* **`Versioning`**: no document is ever ahead of the registry; a refused sheet
  or snapshot stays refused; the books are a `SheetLedger`, so one sheet per
  subject is good, none is ever revived, and none is lost but by use,
  replacement, age or a revision; a gauge is confirmed only
  by the sheet it waits for; the limits in force are those of the newest revision
  that was not rolled back.

Why the bounds are enough. In the journal the interesting cases are a rollback
of a rollback's neighbour, a second rollback after a crash, and an append after
a restart: three to four records and two crashes reach all of them, and
`JournalProofs` covers every number. In `JournalThreads` two threads make every
pair of steps meet; three records allow a third request after two that met, and
the crash may come at any step of it. In `Setpoints` the target 5 is beyond two
steps of 2 from 0 and within one from 4, upwards and downwards, so a ramp ends
short, exact and clamped. In `Transfer` the longest story is: persist, handover,
move a valve, persist again, start, restart or rollback, repeat; two generations,
one restart and one rollback, which may take back a record of any kind.
`StartsAlone` is about a pump that finds another one running: two pumps. The two
violation runs need one pump only; that of two threads takes the requests that
matter to it (`SpecOfStarts`: persist, hand over, start), whose behaviours are
all behaviours of `Spec`. In `Interlock` the second window leaves the lower
pressure out and both limits are within reach of the level, so a revision alone
can change what confirms and what is high, and a draw can end at a limit.
Restarts of `Interlock`, `Setpoints` and `Versioning` and the rollbacks of
`Interlock` are not bounded. A
mutant of the model, one for each property, shows that each property can fail
within these bounds.

Symmetry (`MCTransfer!Interchangeable`, of threads and of pumps) is used in
`Transfer` and `TransferTwoThreads`, which check safety only.

### Findings

Each is the counterexample of a violation run against a statement of the
repository; `PROJECT.json` quotes it.

1. A crash between the tombstone and the checkpoint of a rollback: the effect of
   the rolled back record is back after the restart, for good.
2. A persist that fails half way leaves its durable marks; with an older sheet a
   pump starts on positions the journal does not have.
3. Two concurrent starts consume the same single-use sheet.
4. Clearing the alarm of one tank closes the vent on a tank still in alarm.
5. After any rollback or restart a calibrated baseline is refused as stale,
   because the projection never records its generation.

### Disagreements no run shows

Three more statements of the repository are not what the code does. Each was met
while modelling; the properties are about the rest of what is said, and no run of
its own reports them.

* `src/tests/test_store_and_restore.py:58` (`test_restart_skips_uncommitted_tail_records`)
  and `journal/replay.py:40` say that a record above the watermark does not act
  after a restart. `Services.commit` saves the projection of *all* records beside
  the watermark, so it does whenever something was committed below the head,
  which `POST /api/journal/commit` with a `seq` allows: append (by a request that
  is refused half way), commit 0, end, resume. `Journal` has these steps
  (`AppendRecord`, `Commit`, `Crash`, `Resume`). `LiveIsHistory` compares live
  state and checkpoint with the history only where the watermark is at the head
  and only in the first process, so it does not speak about this case.
* `journal/watermark.py:9` says of the watermark: "Highest record sequence
  considered durable; never moves backwards". Under threads it does move back
  (`Compare` and `Advance` are two steps) and is ahead of the lines of the file
  (a number is taken before the line is written). `WatermarkNeverFalls` and
  `CommittedIsDurable` hold one request at a time, where `Journal` checks them;
  under threads `WatermarkAheadByThreads` proves how far ahead it can be.
* `judgement/batch.py:1` says that a batch "may be registered exactly once".
  Two overlapping registrations of it both pass the test, and a restart after
  overlapping commits can lose one that was answered, so that it is accepted
  again. `RegisteredOnce` is therefore checked by no run; `BatchRegisteredOnce`
  proves that these are the only ways (`Guarded`).

### Observations

What else the models show, with the property that is worded around it. No
statement of the repository was found that these contradict.

* Overlapping commits can leave a checkpoint without a registration that was
  answered, or a document that does not parse and stops the next start
  (`AnsweredIsKept` excepts them).
* A latch set by `POST /api/interlock/evaluate` is in no checkpoint and lost by a
  restart: after a gauge switch or a revision made the level high nothing else
  evaluates (`IdleIsSaved`, and `LatchReleasedSafely` excepts `Restart`). The
  latch of an alarm cannot be lost so.
* A refused fill leaves the inlet valve open and its record uncommitted
  (`Interlock!FillNothing`); a restart closes the valve again.
* A rollback evaluates nothing. Rolling back a latch record, or the record that
  cleared an alarm, leaves an alarm without its latch, and rolling back a draw or
  a revision a level at its limit without one, until the next request that
  evaluates (`rolledBack`).
* Rolling back the record of a stage leaves a running pump at an earlier stage;
  the sequence can then be gone through again and a second pump started beside it
  (`"stage" \in undone` in `RunsAtLastStage` and `StartsAlone`).
* A rollback brings to life what a request that was cut off had left in the
  journal, however unrelated the record: a pump counts as running, a second one
  beside it, a header set point no request was answered for (`jumped` in
  `Transfer`, `overlaps` in `Setpoints`).
* A revision that was the only one and is rolled back stays in force until the
  process ends, against what the journal says (`RevisionInForce` says nothing
  when no configuration record counts, `LevelsOf` allows for it).

## 4. Fairness and liveness

Requests come from operators who need not come, nothing retries on its own, and
no handler waits for another; so no fairness is assumed of arrivals, crashes,
restarts or rollbacks. Weak fairness is assumed of one thing: a thread of the
server that has a request goes on with it (`Setpoints!Fairness`), because the
operating system schedules it and no handler takes a lock or waits. Under it
`RampEnds` is checked: a ramp is the one handler with a loop whose length depends
on a value other threads write, and it ends because it gives up after a fixed
number of steps (its mutant, which does not count them, runs for ever).

Every other handler is a finite list of steps. Deadlock is checked in every
passing run except the journal ones, where a bound on records or crashes, or a
checkpoint that does not parse, ends the model (the `.cfg` says so).

## 5. What is proved

Every invariant, action property and refinement of the passing runs is proved for
every value of the constants that meets the assumptions its theorem names; only
the liveness property is not.

**`JournalProofs`** needs fewer assumptions the less a result rests on the files.
`WatermarkNeverFalls` needs none: whatever raises and however a process was
started. `OneTombstonePerTarget` holds when starts resume, whatever raises: the
index is marked before the tombstone is written, so a rollback that failed half
way is not tried again by the same process, and by the next one only when its
line is missing. With appends that do not raise (`WritesHold`) follow type
correctness, `SeqIsPosition`, `CommittedIsDurable`, `MarksMatchJournal` and
`ReportedIsKept`, and only with checkpoint writes that do not raise either
(`SavesHold`) `OnlyCommittedRolledBack` and `Spec => PublishedSpec`, the
refinement of `CommittedHistory`. `CommittedIsDurable` alone is not inductive:
that a committed record is in the file follows from stream and file being equal
while the process is up, which after a restart follows from the file being
numbered by position (so that the stable sort of `load` changes nothing). The
inductive invariant has layers: `OpenInv` (memory alone), `MarkedInv` (tombstones
in the file and marks), `FileInv` (the file is numbered by position, its
tombstones name earlier records, each once; while up, stream and marks are those
of the file), `MarkInv` (watermarks lie inside the file and never below what was
reported or saved), and `CommitInv` (targets of tombstones are committed).

**`JournalHistoryProofs`** is about what the loop over the records computes, for
journals of any length. `Fold` is a recursive function, so its definition can be
expanded; the induction over how far it has come is over *sets* of numbers
(`InductiveSet`, from the well-foundedness of `<` on the naturals), as the
induction theorems of the library, which take an operator, cannot be used.
`FoldShowsLast` is the main lemma: each field of the result is that of the last
record that counts and writes it. From it and `FoldOfAppend`:

* `LiveStateIsHistory`: until a process ends, what was projected record by record
  is what folding the journal again gives (`LiveInv`), and so, when the watermark
  is at the head, the history at the watermark, live and in the checkpoint; hence
  `NoEffectBeforeCrash`: until then a rolled back record has no effect, which
  finding 1 shows to end with a crash inside a rollback.
* `HistoryStays`: what was shown at a committed watermark is shown again until a
  record is rolled back, also when checkpoint writes raise; `HistoryShowsLast`
  says what that is.
* `RestartShowsCheckpoint`, `RollbackShowsJournal`: what the other modules take a
  restart and a rollback to do to the values they keep; `ShownWasJournalled`: no
  field ever has a value that no line of the file gave it.

**`JournalThreadsProofs`**, for any number of threads, batches and crashes and for
commits of any target: type correctness, that an answered registration has its
line, `CheckpointHasLines` and `WatermarkAheadByThreads`.
`Contained` says where each copy of a batch comes from: what registry, projection,
documents in the hands of threads and files say is in the file. The bound on the
watermark rests on `StreamInFile`: stream and file differ by exactly the threads
between the two appends; `Bounded` carries it through every copy of a number.
**`JournalThreadsKeptProofs`**, on top of it: `AnsweredIsKept`, and
`RegisteredOnce` where neither two registrations of the batch nor, before a
restart, two commits overlapped (`Guarded`). `Kept` follows a registration
through the step of the commit that serves it, as long as no two commits overlap;
`Once` says that a batch which was entered stays in registry or file, so that a
second one is refused.

**`SetpointsProofs`**: type correctness, `RampArrives`, `HeaderIsLastWriters`.
`OnWay` says where a ramp is after the steps it has used, as a closed formula
(`Way`), for any step size and number of steps, so no induction over the steps is
needed; `Passed` how far a value has come from pump to header to journal.

**`TransferProofs`**, in two layers. (1) Type correctness, with any threads,
failed writes, restarts and rollbacks of any records. (2) With one request at a
time (`OneThread`) and every line written (`MaxFailures = 0`), every property of
the `Transfer` run, `SheetUsedOnce` and `StartsOnWrittenPositions`, for any pumps,
persists, restarts and rollbacks: what findings 2 and 3 break is a failed write
and a second thread, and nothing else can. None of these is inductive, because a
start tests its evidence several steps before it uses it, and because between a
device and its record plant and projection differ. `RequestInv` therefore says
what is true at each step of each request (`Doing`): its form (`Form`), or a
record in front of it, and then the projection with that record applied (`ToBe`)
is what agrees with the plant (`Agrees`). The forms say which tests of a handover
or a start still hold (`Changing`, `Retrying`, `Starting`), that between requests
the checkpoint is the plant (`Settled`), and that a request which will stop or
release something still has its closing of the emergency valve behind it or in
front (`Stopping`, `Switching`). `Calm` covers, by its steps instead of its form,
any program that only moves level, latch and emergency valve, stops pumps and
commits at its end: trips, resets, fills. `Undoing` is the one form in which
`stream` and plant part. `Vouched` says why a current sheet is evidence: a valve
that moves loses its mark, and a persist that sets the marks again takes a new
generation. `StageInv` and `StreamInv` say of the checkpoint and of all records,
from which restart and rollback make the next plant, what they must say of stage
and pumps as long as no record of a stage was rolled back (`StageKept`).

**`InterlockProofs`**, for any tanks, limits, windows, pressures and rollbacks of
any records: type correctness, `AlarmIsLatched`,
`AlarmIsUnconfirmed`, `LatchReleasedSafely`, `NoFillInAlarm`, `HighLevelLatched`
and `TripShuts`. The invariant `AlarmInv` adds that the *saved* blanket latch is
set whenever the alarm is, or the checkpoint too dates from a rollback: a request
that evaluates without a commit can only set that latch while there is an alarm
whose own request has set and saved it, which is why a restart cannot lose it (as
it can lose the overfill latch).

**`VersioningProofs`**, for any tanks, ages and bounds: type correctness and every
property of the `Versioning` run, the refinement of `SheetLedger` included. The
argument for the documents is one fact:
within a process no step lowers a number of the registry (`Onward`), not even a
rebuild, because `restore` keeps the larger number. The invariant `VersionInv`
says that the registry covers the revision in force and every document (without
which a stale document could become current when the registry catches up), that
the sheets of one subject carry ascending numbers (which makes two good ones
impossible), that records never name configuration 0, and that a pending sheet is
in the book. A restart does lower numbers; it also empties the books, and the
baselines it rebuilds name only what it restored.

That a rebuild lowers nothing is half of what the ledger needs: one that *raised*
a number would refuse a sheet nobody replaced. `restore` takes the newest record
that counts, so the second invariant, `Covered`, says that the registry covers
the generation of every such record and that those of one marker ascend, whatever
is dropped, which makes the newest the highest (`NewestIsHighest`). A rollback
then finds nothing the registry lacks and leaves every number alone
(`RollbackChangesNoGeneration`); a restart re-establishes both parts from the
journal. `BooksImplementLedger` maps the steps one by one: an issue puts its
sheet in the place of its subject's (`IssueStep`), a consumption takes the one
good sheet its subject has or, of a stale one, nothing (`UseStep`, by
`OneSheetPerSubject`), a revision takes all (`ReviseTakesAll`, each names the
configuration of its issue), and the rest is quiet (`QuietStep`).

Only model-checked is `RampEnds`: liveness and `ENABLED` are outside what the
prover can do here. The type of the stream when appends raise is not stated at
all: numbers in the file may then repeat, and that there is an order for
`SetToSortSeq` to choose is an induction over permutations which no result needs.

No module declares a `RECURSIVE` operator.

## 6. Not modelled

* Event bus, audit log, tank summaries, capacity, read filters, parsing of
  requests and settings: nothing in control reads them.
* Which value a rolled-back record leaves behind, in `Interlock` and `Transfer`:
  they allow any value of its kind, so they have behaviours the code has not, and
  what they show holds of the code all the more. `Journal` and `Versioning` keep
  the records and are exact. `Setpoints` rolls back other records only, with what
  the rebuild does to header and pumps; the rollback of a header record is not
  modelled.
* Failed writes together with restarts in `Transfer` (`FaultsAssumption`): memory
  and file would have different lines, which `Journal` models.
* Several threads inside one step of `Transfer`, and several threads for its
  safety properties: without a lock they do not hold (finding 3).
* A torn last line of the journal. A torn checkpoint is in `JournalThreads`.
* A start without `--resume` on an existing journal: `Journal` has it (`Starts`),
  but no run uses it, because every promise of the journal is about starts that
  resume.
* A gauge sheet is one flag in `Interlock` (`pending`); a revision drops it, and
  expiry adds nothing the properties there tell apart. `Versioning` has it whole.
* Whether an operator can always finish a transfer (a handover refused between
  its stages cannot be repeated): that asks what is reachable from each state,
  which is no property of single behaviours.

## 7. What is left

1. `Journal` with blank starts, to say what such a start destroys.
2. The safety properties of `Transfer` under threads for requests that do not
   overlap, in the manner of `overlaps` and `races`.
3. The rollback of a header record in `Setpoints`.
4. Runs of their own for the three disagreements of section 3 that have none.
