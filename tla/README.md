# A formal model of the SCD41 driver

The driver in `src/SCD41.cpp` moves one typed operation at a time over an I2C
bus it does not own. It keeps a *belief* about the sensor (mode, identity,
settings, pressure source, samples) and gives the owner exactly one result per
request. The hard part is not any one step but what is left behind when
something ends early: a transfer whose effect is unknown, a deadline crossed by
a successful write, a cancelled command, a sensor that was swapped or power
cycled. This directory models that behaviour in TLA+, checks it with TLC, and
proves its safety properties with TLAPS.

## 1. Inventory

| Part (code) | State | Operations | Hard behaviour | Correct when |
|---|---|---|---|---|
| Operation slot (`begin` ... `end`, SCD41.cpp 142-383) | `_bound`, `_config`, `_active`, `_terminal`, `_nextGeneration` | begin, start, poll, tick, cancel, takeResult, end | every call at every moment; the generation wraps | one request at a time, one result each, every request ends |
| Admission (`_validateStart`, `_validateAdmission`) | none | start | depends on mode, verification, EEPROM doubt, settle gate | nothing is admitted on a stale belief |
| Poll loop and step functions (174-247, 879-1843) | phase, field index, next due instant | one iteration per phase | several breaks, budgets, deadlines | phases legal, the owner knows when to come back |
| Transfer (`_attemptTransfer`, 1910-2040) | last disposition, settle gate, health | one callback call | the callback contradicts itself, its clock runs backwards, it crosses the deadline | success is exact, doubt is kept, the sensor is never addressed while busy |
| Endings (`_finishOperation`, `_finishOperationFailure`) | outcome, effect | | the last transfer is not the only one that had an effect | no effect is hidden |
| Belief (2141-2227) | mode, evidence, epoch, identity, verified/dirty masks, source, sample | set by the steps | flags set one by one in many paths | what is claimed is true or in doubt |
| Health (2229-2294) | state and counters | record | none: it never steers | state follows the failures |
| Limits (`limits`, 415-530) | none | query | written apart from the phases | the callbacks suffice, and a deadline made of the waits does |
| Clock (2296-2311) | `_lastOwnerNowMs` and every instant the loop keeps | compare instants modulo 2^32 | wrap; an instant kept for too long | the same decisions as with instants that never wrap |
| Conversions, CRC (532-590, 2488-2499) | none | encode, decode, check | rounding, ranges written twice, damaged words | what is admitted reads back, damage is noticed |
| Transport adapters (`examples/common/I2cTransport.h`, `examples/idf/.../IdfI2cTransport.cpp`) | none | one transfer | what the platform can prove | never promises too much |
| Diagnostic workflow (`examples/common/DiagnosticWorkflow.h`) | step, request waited for, cycles | begin, start, accept result, stop | results of other requests, refused starts | counts its own results only, and ends |
| Command lines (`examples/01_basic_bringup_cli/main.cpp`, `examples/idf/basic/main/main.cpp`) | workflow, next request id | poll, take, service, obey one command | commands between the steps of a workflow; scans beside the driver | the workflow keeps the slot, deadlines suffice, the scan waits |
| Sensor (external) | mode, RAM, EEPROM, source, identity, busy time | executes commands | wakes without acknowledging, ignores commands in the wrong mode | |

Interactions: the owner calls the driver, the driver calls the transport
callback synchronously from inside `poll`, the callback reaches the sensor.
There are no threads: the class must be called by one owner at a time (both
command lines are one loop). The interleavings that matter are those of owner calls, of time, of what the bus
does and of what somebody does to the sensor.

## 2. Modules

| Module | Models |
|---|---|
| `SCD41Kinds` | kinds of operations and their classes, fields, waits, published callback limits |
| `SCD41Transfer` | how an answer of the callback becomes a trusted result (first half of `_attemptTransfer`) |
| `SCD41Sensor` | the sensor, as the test model and `docs/reference/scd41-protocol.md` describe it (external) |
| `SCD41Driver` | the class: one action per owner call and per iteration of the poll loop |
| `OperationSlot` | abstract specification: what an owner is promised about its requests |
| `SCD41Properties` | type invariant, safety, action and liveness properties, the refinement mapping |
| `MCDriver`, `MCTransfer` | small instances for TLC |
| `DistanceClock` | abstract specification: the driver's time as distances that never wrap |
| `SCD41Clock` | the same time as words that wrap; implements `DistanceClock` |
| `SCD41Words` | CRC-8, the three-byte word, conversions, encoding and decoding of the settings |
| `SCD41Adapters` | what the Wire and the ESP-IDF adapter make of the answers of their platforms |
| `DiagnosticWorkflow` | the members and methods of the workflow of both examples |
| `SCD41Cli` | the loop of both command lines: composes `SCD41Driver` and `DiagnosticWorkflow` |
| `MCWords`, `MCCli` | instances for TLC |
| `DriverTypeProofs` | proved: the inductive invariant of types, phases and time |
| `DriverSlotProofs` | proved: callback bounds, settle times, one attempt per poll, when a poll returns, the refinement of `OperationSlot` |
| `DriverBeliefProofs` | proved: the claims of the driver fit together and are of the present epoch |
| `DriverTruthProofs` | proved: the claims are true of the sensor |
| `DriverResultProofs` | proved: results hide no change of the sensor, and no unsaved setting goes unnoticed |
| `BusProofs` | proved: what the driver believes of an answer, what the adapters answer, and what becomes of a word |
| `SCD41CliProofs` | proved: the invariants of the driver under the owner's loop, and the workflow's |
| `SCD41ClockProofs` | proved: the refinement of `DistanceClock` |

Each module of proofs extends the one it builds on: types, then slot and belief
beside each other, then truth upon belief, then results upon truth; the loop
needs types, slot and belief.

`SCD41Properties` extends `SCD41Driver`, which extends the kinds, the transfer
and the sensor; `SCD41Cli` extends `SCD41Properties` and `DiagnosticWorkflow`, so
that the loop and the driver share the properties.

### How the code became actions

- **Calls of the owner** are `Begin`, `Start`, `Cancel`, `TakeResult`, `End`
  and `EnterPoll` (the head of `poll`). `tick` is `poll` with a budget of one.
  A refused call changes nothing and has no action; `Admissible` is
  `_validateAdmission`. `poll.on` marks a poll in progress; no call of the owner
  comes between its iterations, so the loop is atomic towards the owner while
  the properties still see each bus attempt.
- **Iterations of the loop**: `PollBreak`, `GateDefers`, `NotDue`, `WaitOver`,
  `CommandSettled`, `PersistShortcut`, `BudgetExhausted`, the sending actions
  (`Send`, `SendLast`, `SendFails`) and the reading ones (`HearSerial`,
  `IdentityConfirmed`, ..., `ReadFails`). The six step functions share their
  structure, so their sending phases are a table (`AttachLeg` ... `DiagnosticLeg`)
  of command, next phase, wait and field index. Each action contains everything
  the step does, `_finishOperation` included.
- **The transport callback** is one choice of an outcome from
  `EffectfulOutcomes` or `PlainOutcomes`: all results that `Normalise` can make
  of any raw answer, malformed ones included. A duration is chosen with it. What
  the sensor really did is chosen by `Reactions` among what the disposition
  leaves open.
- **Time.** The code compares instants only by their signed distance, so the
  model keeps distances to `_lastOwnerNowMs`. A distance of 0 stands for "reached",
  which also stands for an invalid gate. A completion clock that runs backwards
  leaves the driver's clock where it was; the real duration of that attempt is
  then unknown and taken as 0. A backward clock of the owner makes `poll` and
  `start` refuse and `cancel` use the last good time, which is the case `d = 0`.
- **Two checks of the code are dead** and are not in the model: the deadline
  check at the head of `_step` and the second spacing check of `_writeCommand`
  and `_readWords`. `InTime` (proved) is why for the first; for the second,
  nothing moves the gate between the two checks.
- **Words** are model values. A decoded value stands for its word: for every word
  a setting may hold, the decoding of 1/65535 steps of 175000 milli-degrees, of
  hPa to Pa and of a Boolean is injective, so comparing words and comparing
  values is the same.
- `truth` records what really happened (busy time, unsaved settings, interference,
  effects). No action of the driver reads it.

- **The clock** (`SCD41Clock`). Every word the loop decides by is there:
  the gate with its valid flag, the due instant, the deadline, the last accepted time,
  and the completion the callback reports of an attempt. Where
  `SCD41Driver` has phases, it has four: `IDLE`, `POWER_UP` (an ATTACH that is due
  `powerUpDelayMs` after its start), `WAIT` for the sensor and
  `WORK`. A completion that seems to lie before the start of its attempt fails the
  operation, and the sensor's time runs from the start. After any other, an attempt ends the operation, or leaves it waiting for the sensor, or
  at work: due as before or at once if the budget is used up, and after the sensor if the
  poll goes on and meets the gate. An operation can also end without an attempt,
  at the end of its wait or because the callback never started. `quiet` counts the time since the owner last
  polled. It is not in the code: it states the owner's contract.
- **The loop of the command lines** (`SCD41Cli`). `todo` lists the calls that are
  left of an iteration: poll, take the result, service the workflow, obey one
  command; a command can put further calls before the next iteration. The
  driver is used through the actions of `SCD41Driver` only. A call it refuses
  leaves it as it is, but uses up the request identity, as
  `startOperation` does. Each read of the clock is a choice of how far it is from
  the last time the driver has seen; the delay at the end of the loop puts a
  tick or more between two polls. The Arduino and the ESP-IDF example are the same loop.
- **The adapters** translate what the platform reports. `WireFacts` and `IdfFacts`
  say what can have happened on the bus when it reports that; `MCTransfer` hands
  the translated answer to the driver's `Normalise` and compares.

Some modules hold a *slip* next to a definition: the same definition with a
plausible mistake. No specification uses a slip; they show that each property
notices the mistake it is there for.

`truth.unsaved` is reset by `Begin`: the code drops the dirty mask there, and
`docs/integration/external-i2c-owner.md` (303-329) makes persistence across a new
binding the owner's business. `truth.disturbed` is set when somebody changes the
sensor behind the driver's back and cleared once ATTACH has sent its wake and so
relearns everything.

## 3. Runs

Common bounds: short settle time 1 tick, wake and reload 2, everything longer 4
(the order of the real 1 ms, 30 ms and 50 ms or more: a long wait can outlast the
short one and the power-up delay of a new ATTACH together, so only the gate
keeps the sensor from being addressed too early);
two setting words and an illegal one; the owner's clock advances by 0 or 1
between calls, a transfer takes 0 or 1; deadlines after 14 ticks, which lets every
operation finish, after 3, which ends a command in its wait or between its write
and its confirmation, and in some runs after 7, which does the same to ATTACH and to late
phases; one callback per poll unless noted; counters saturate at 1 unless noted.
Deadlock is checked in every run but `Words`, which ends where the values do.

| Run | Question | Checked |
|---|---|---|
| `Settings` | setting writes, self-test, recalibration, persist, reload and factory reset under every fault; sensors that hold an illegal word | `TypeOK`, `VerifiedIsTrue`, `DirtyCoversUnsaved`, `PersistHonest`, `EepromDoubtKept`, `EffectNotHidden`, `CallbacksWithinLimits`, `SettleRespected` |
| `Sources` | altitude against ambient pressure | `CompensationTrue` |
| `Modes` | all mode and measurement operations, any initial mode, power cycling, two callbacks per poll, two samples | `Coherent`, `ModeBeliefTrue`, `InTime`, `PhasesLegal`, `OneAttemptPerPoll` |
| `Identity` | replaced sensors, lax and strict bindings, samples, an epoch that advances three times and saturates | `IdentityTrue`, `StrictVariant`, `CurrentEpoch`, `NewSensorNewEpoch` |
| `Inspect` | whole-configuration reads, raw diagnostics, budgets 0 and 2, deadline 15, the least that lets all seven fields be read | `ConfigurationWhole`, `NextDueTellsWhen` |
| `Requests` | two request identities, two generations, offline threshold 2, fair owner | `ExactlyOnce` (refinement of `OperationSlot!Spec`), `EveryRequestEnds` (of `OperationSlot!FairSpec`) |
| `Cli` | the owner's loop with workflows, commands and cancellations in any order | `WorkflowOwnsSlot`, `WorkflowModeKept`, `BudgetSuffices`, `ScanWhenQuiet`, `WorkflowEnds`, `LoopIsFair` |
| `Clock` | instants that wrap against distances that do not | `ClockDoesNotWrap` (refinement of `DistanceClock!Spec`) |
| `Words` | every 16-bit word, every value up to 175000, damage of one or two bits or of a burst of eight | `CrcIsTheRemainder`, `DamageNoticed`, `RoundsToNearest`, `AdmittedReadsBack`, `RewriteKeepsWord` |
| `Transfer` | every raw answer of a callback, and every answer of the two adapters to what can have happened | `SuccessIsExact`, `DoubtIsKept`, `AdaptersPromiseNoMore`, `WakeSeesTheNack` |
| `WrongVariant` | a violation, see below | `AcknowledgedMeansCompleted` |
| `Readback` | a violation, see below | `VerifiedMeansIntended` |

The bounds are enough because each property relates at most two operations and
one interference; the runs are the full graphs, so any number of operations in
a row is covered. One field of each class (persistable, pressure source, ranged or not)
stands for the others, which the code treats alike through `_fieldFor`.

- `Clock`: half the range is 6 instead of 2^31, so every word wraps after 12
  ticks; attempts take 0 or 2, the sensor needs 1 or 3, together less than half
  the range as in the code (the longest wait is 10 s); a binding asks for a power-up
  delay of 1 or 4, so that the due instant of an ATTACH can lie before or behind
  its deadline, which is up to 5 ahead. A completion comes 0 or 2
  after the start of its attempt or any time before it that is not further away than half the range.
  The theorem below holds for every range.
- `Words`: no bound on the words. For damage, three words stand for all: the CRC
  is affine, so whether a change is noticed does not depend on the word (proved, see `BusProofs`).
- `Cli`: a tick is one round of the loop. The user asks for one cycle per
  workflow and, besides workflows, scans and bindings, for one kind of request, which
  changes the mode and so competes with the workflows. The sensor is an SCD41 or an
  SCD40. The bindings are lax, so that the SCD40 is attached too, and only the requests that need the
  other variant are refused. `Margin` (two ticks) stands for the 1000 ms the
  code adds to the limits: an operation of several transfers loses up to a round of the loop
  at each of them. Nobody replaces the sensor in this run: the
  workflow does not look at the sensor, only at results.

**Fairness** (`FairOwner`): a call of `poll` returns (weak fairness of the loop),
and the owner polls again and again with a clock that goes on and a budget that is not zero
(strong fairness, since other calls of the owner can come between). The code
runs only when it is polled, so this is the least that can be assumed, and it is
what `external-i2c-owner.md` asks of the owner (188-192). Nothing is assumed of
the bus or of the sensor: the deadline ends the request at the latest. In
`SCD41Cli` nothing is assumed but that the loop goes round (weak fairness of
`CliNext` as a whole, nothing of the user). There, `LoopIsFair` shows
that the loop is an owner as fair as `FairOwner` demands, and `WorkflowEnds`
follows for workflows.

**The owner's contract with the clock.** Signed differences order instants only
if they are less than half the range apart. `docs/integration/external-i2c-owner.md`
(188-192), `ASSUMPTIONS.md` (61) and `SCD41.h` (799-800) ask the owner to poll with a
monotonic clock, idle or not. `SCD41Clock` states how often that has to be: a call
whose clock seems to go on comes less than half the range (24.8 days) after
the last *poll*. `start` and `cancel` do not count, since only `poll` forgets an
elapsed gate: an owner that starts and never polls between would be refused
again when the gate seems to lie ahead.

### What the violations show

- `WrongVariant`. `SCD41.h:300` explains `ACKNOWLEDGED` as "Effectful bytes
  completed successfully". An ATTACH that meets an unsupported variant says
  `ACKNOWLEDGED` (`SCD41.cpp:1017`) whatever became of its wake and its stop; an
  idle sensor NACKs both.
- `Readback`. `SCD41.h:301` explains `VERIFIED` as "A later read/reconciliation
  verified the intended state". A SET that reads back another word ends FAILED
  with `VERIFIED` (`SCD41.cpp:1354`): the state is verified, and it is not the
  intended one.

## 4. Proofs

TLAPS proves the following for **all** values of the constants, under the named
assumptions `SettleAssumption` (execution times are positive), `ShortAssumption`
(no command needs less time than a plain read), `WordAssumption` (the words are
distinct), `DriverAssumption` (types of the remaining constants), for the
clock `ClockAssumption` (a power-up delay, and a transfer with the wait after it, stay within half the range), and
for the owner's loop `CliAssumption` (no transfer lasts longer than its timeout, no
binding asks for a longer power-up delay than the largest); the two more that its
deadlines need, `RoundsAssumption` and `ReinitAssumption`, are explained there.
`InputAssumption` only bounds what the run with the words tries.

**Types, phases, time** (`DriverTypeProofs`). The invariant is
`IInv == SlotOK /\ BusOK`. `TypeOK` alone is not inductive: the
step functions are tables over kinds, phases and field indices, and say nothing
of a pair outside them, so `PhasesLegal` has to be carried along; that in turn needs the
active kind to be a real one (`Asked`), and types of time need `InTime`.
`SlotOK` holds the variables that the end or the progress of an operation
changes and `BusOK` those that an attempt changes, so that each action disturbs few
conjuncts: lemmas `ProceedStep`, `FinishStep`, `FailureStep`, `QuietStep` and
`ExchangeStep` are proved once and each action cites them. From the invariant follow

- `Typing`: `Spec => []TypeOK`
- `PhasesAreLegal`: `Spec => []PhasesLegal`, the default branches of all step functions are dead
- `NothingAfterTime`: `Spec => []InTime`, nothing is done for an operation after its deadline

**Calls, gate, requests** (`DriverSlotProofs`). `CallsBefore` gives the number of
calls an operation of each kind has made when it comes to a phase and field
index. That it agrees with the tables of phases (`SendingCounts`,
`WaitingCounts`, `BeginningCounts`, and `Hear...Moves` for reads) and stays below the published limit
(`CallsAreBounded`) is arithmetic over the tables. The invariant is
`SlotInv == Counted /\ Paced /\ Settled`, inductive together with `IInv`: the
active operation has made exactly the calls of its phase; behind an attempt the
gate lies ahead of the poll; the sensor is never busy for longer than the gate is closed. Every
step is a `QuietMove` (an iteration without a call), a `CallMove` (one with a
call, at an open gate) or an `OwnerMove`, and that is all the theorems need:

- `CallbacksBounded`: `Spec => []CallbacksWithinLimits`
- `SensorSettles`: `Spec => SettleRespected`
- `OneAttempt`: `Spec => OneAttemptPerPoll`
- `RequestsExactlyOnce`: `Spec => ExactlyOnce`, the refinement of `OperationSlot!Spec`

`Settled` is where `ShortAssumption` is needed: after an effectful attempt whose
outcome is open the gate stays closed for the wait of the command, which must also
cover a sensor that did not take it.

- `DueTimeIsTold`: `Spec => NextDueTellsWhen`. The code leaves its loop
  after 32 transitions at the latest, and if that ever happened the owner would be told
  to come back at an instant that has passed. The invariant `Spinning` shows
  that it cannot: behind a wait that is over no second one is due, an attempt
  closes the gate, so a poll goes round three times at most.

**What the driver claims** (`DriverBeliefProofs`). The code keeps its claims in nine
fields which it sets one by one in many places. A belief is `Sound` when they
fit together; one lemma per operator (`SetModeFields`, `MarkFields`,
`AttachedFields`, ...) says what it does to them, and every action is shown to
make a `Sound` belief of a `Sound` one. `Coherent` alone is not
inductive: a word that an unattached driver reads would become a claim, so
`BeliefInv` also carries that an operation outside `Reconciling` runs
only while the driver is attached, and the epoch, sequence and variant parts
that `CurrentEpoch` and `StrictVariant` ask for.

- `ClaimsAreCoherent`: `Spec => []Coherent`
- `KnowledgeIsCurrent`: `Spec => []CurrentEpoch`, for any bound on the epochs
- `OnlyTheRightVariant`: `Spec => []StrictVariant`
- `AnotherSensorAnotherEpoch`: `Spec => NewSensorNewEpoch`

**That the claims are true** (`DriverTruthProofs`). A claim becomes true in the
middle of an operation, from answers given at different times. `OpTrue`
says what an operation has learnt when it is in a phase: the serial number it has heard is the
sensor's, a sensor that has answered for its variant is idle, a mode command
that is waited for has been obeyed, a pressure setting that reads back as
written is the source. Together with `ClaimsTrue`, `ModeTrue` (suspended
while a mode command is waited for) and `Dropped` (from its wake on ATTACH
claims nothing) it is inductive with `IInv` and `BeliefInv`. All of it is under
`~truth.disturbed`, as the properties are: nobody can know that a sensor has been
replaced before the next ATTACH.

- `ModeIsKnown`: `Spec => []ModeBeliefTrue`
- `VerifiedWordsAreTrue`: `Spec => []VerifiedIsTrue`
- `PressureSourceIsTrue`: `Spec => []CompensationTrue`
- `ReportedIdentityIsTrue`: `Spec => []IdentityTrue`

**Results and unsaved settings** (`DriverResultProofs`). A result is made in twenty
places from what the active operation has recorded, so the invariant is about
the record: `Owned` says that in every phase an operation that has changed the sensor
knows that it has tried and has an effect that tells (`Told`), and that READ_CONFIGURATION has completed
exactly the fields before its index.

- `NoChangeIsHidden`: `Spec => []EffectNotHidden`
- `ConfigurationIsWhole`: `Spec => []ConfigurationWhole`
- `NoSettingIsLostUnnoticed`: `Spec /\ []Undisturbed => []DirtyCoversUnsaved`
- `SavedMeansSaved`: `Spec /\ []Undisturbed => []PersistHonest`

The last two are about behaviours in which nobody replaces or power-cycles the sensor
(`Undisturbed`), and that hypothesis is needed: if the sensor is replaced between the read
and the write of a SET, and the new one holds another word, the driver writes
what it takes for no change and does not call the field dirty. `~truth.disturbed` at the moment
would not do instead, since the next ATTACH clears it. In the run `Settings`
nobody replaces the sensor. `SavedInv` adds that a sensor with unsaved settings is
one the driver has identified, so that no ATTACH or reset can take it for another
and drop what is dirty, and that once the command of a reload, a reset or a save
was sent nothing is unsaved.

**Answers of the bus** (`BusProofs`). One lemma per stage of `Normalise` (clock,
shape, exactness, failure) says what it may change; `NormaliseIsSound` puts them together.
`WireIsHonest` and `IdfIsHonest` go through what each platform can report.

- `SuccessIsWhatWasSent`, `NoDoubtIsDropped`, `AdaptersAreHonest`, `NackIsSeen`:
  `SuccessIsExact`, `DoubtIsKept`, `AdaptersPromiseNoMore` and `WakeSeesTheNack` are
  invariants of `MCTransfer!Spec`

**Words on the bus** (`BusProofs`). The model of the words is small: a word is sent, and
its frame is damaged at most once (`WordsInv`). The work is in what the functions compute, for all
65536 words and all values, without induction, since every recursion here has a fixed
number of steps (`ByteIsEightSteps`, `NumberIsASum`, `RemainderSteps`).

- The step of the register is linear, so what a damage leaves in it (`Syndrome`) does not
  depend on the word (`AcceptedDamage`). What a single bit leaves is a table of 24
  bytes, each one step after the one before (`EchoesFollow`) and all different, so
  that two bits cannot cancel (`PairsLeaveOnes`). A burst lies in two bytes; taken back step
  by step, the one half would have to come from below the register to meet the other
  (`BurstMeetsNothing`, `BurstsLeaveOnes`). The run damages three words; the theorem is for all.
- The division takes the sixteen places of the polynomial from the top down; each place is
  one step of the register as long as what follows is still below (`ReductionIsAShift`),
  so eight places are a byte (`ByteOfDivision`).
- The conversions are split into quotients and remainders (`WrittenOf`, `ReadOf`), after
  which everything is linear. The values range over `0 .. MaxInput` for any `MaxInput`.

The theorems, each an invariant of `MCWords!WordsSpec`:

- `ChecksumIsTheRemainder`: `CrcIsTheRemainder`
- `NoDamageIsBelieved`: `DamageNoticed`
- `PublishedIsNearest`: `RoundsToNearest`
- `AdmittedIsShown`: `AdmittedReadsBack`
- `ShownIsRewritten`: `RewriteKeepsWord`

**The owner's loop** (`SCD41CliProofs`). `CliSpec` is not an instance of `Spec`: its
deadlines are computed (`OperationBudget`), so they need not be in `Deadlines`. The lemmas
of the driver are stated for any deadline, and `OwnedStepKeeps` proves its invariants again for this owner.
`OwnerInv` adds where the loop can be while a workflow is active
(`Rounds`: no binding and no command is left from before) and what it waits for. That
no request of a workflow changes the mode holds because the seven kinds it asks for are
`Observing`; `IterationKeepsMode` goes through the iterations of the poll loop for them.

- `LoopInvariance`: `CliSpec => [](DriverInv /\ OwnerInv)`
- `WorkflowIsAlone`: `CliSpec => []WorkflowOwnsSlot`
- `StepsFitTheMode`: `CliSpec => []WorkflowModeKept`
- `ScanMeetsNoBusySensor`: `CliSpec => ScanWhenQuiet`

That a deadline made of the published limits is enough needs a budget: `BudgetInv` says that
what is left of the deadline covers the calls that are left, each with the
longest transfer and what a round of the loop can lose (`CallsLeft`), the waits that are left
(`WaitLeft`), and the way to the instant at which the next call is due (`Timely`). The calls
are known from `SlotInv`, which ties `callbacksUsed` to the phase. `WaitsFit` and `SendGap`
compare each wait of the step functions with what the tables of `limits` publish: only the
commands an operation begins with wait longer than a plain one, and all of
them and the short waits behind fit. A call uses up its share (`TimeAfterCall`), a round its own
(`EnterPollInTime`), and an iteration without a call neither. `Spinning` is needed
because a poll that gave up after 32 transitions would lose a round without a call.

- `DeadlinesAreEnough`: `CliSpec => []BudgetSuffices`

`BudgetSuffices` is about the deadline and not about the outcome, since an
expired request need not be called `TIMED_OUT`: a READ_CONFIGURATION with some fields ends
`PARTIAL`, one whose last effect is unknown ends `INDETERMINATE`. It says that no poll
of the loop can find the deadline over and that no call made now returns
at or after it, which are the two places where the code lets a deadline end an operation.
The run includes READ_CONFIGURATION, the request with the most calls.

It rests on two more assumptions. `ReinitAssumption`: a reinit does not take longer than the
power-up time that `limits` publishes for it (both are 30 ms, `SCD41.cpp:485`).
`RoundsAssumption`: the margin covers what is lost of the rounds, one before the
first call and one after each. With the 1000 ms of both examples that holds for polls
up to 67 ms apart with the 14 calls of READ_CONFIGURATION, and up to 143 ms
apart for operations of at most six calls. A round of the examples is one transfer of at most
50 ms and a delay of one tick of the scheduler; the scan, which takes longer, is made
only while there is no request. A long printout in each round would break the assumption, and
without it the property is false: TLC finds a poll after the deadline when `Advances` are
large against `Margin`.

**The clock** (`SCD41ClockProofs`). The invariant `ClockInv` says that the words are in
range, that the gate is less than half the range ahead or was reached since the
last poll, that the deadline is ahead by 1 to half the range, and that the due
instant (of a wait for power-up too) is near or was reached since the operation started. Under the owner's
contract it is inductive, and every comparison of words then equals one of distances:

- `InstantsStayNear`: `Spec => []ClockInv`
- `WrappingIsInvisible`: `Spec => ClockDoesNotWrap`, the refinement of `DistanceClock!Spec`

Only model-checked:

- `EepromDoubtKept`. Its second half speaks of the same sensor: one that was replaced
  has another EEPROM, and the code drops the doubt about the old one.
- Liveness: `EveryRequestEnds`, `WorkflowEnds`, `LoopIsFair`. The prover has no rule for
  fairness and `ENABLED`.

## 5. Not modelled

- Texts and detail codes of `Status`; totals and time stamps of health and results
  (the failure counter and the state are in): nothing in the code reads them.
- `transferTimeoutMs` as handed to the callback: a transfer takes as long as it takes.
- The class flags of `limits` (mode change, EEPROM wear): nothing depends on them.
- Floating-point conversions: TLA+ has no floating-point numbers, and nothing in the
  driver uses them.
- Parsing of command lines, printing, creation of the bus and of the ESP-IDF task: input and output.
- A sensor that is replaced while the command line runs (in the model of the
  driver it is replaced at any time).
- Host tools (`tools/`, `scripts/`), which are not part of the driver.

## 6. Plan

Done: the driver, its properties and their proofs; the wrapping clock and its refinement;
conversions, CRC and what is proved about them; the adapters; the workflow and the loop of
the command lines, with their proofs. Left:

- Totals and time stamps of health and results, if anything in the code comes to read them.
