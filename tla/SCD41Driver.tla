---------------------------- MODULE SCD41Driver ----------------------------
(***************************************************************************)
(* The SCD41 driver (src/SCD41.cpp): one typed operation at a time, moved  *)
(* forward by poll(), every step of which makes at most one attempt on the *)
(* I2C bus, and one retained terminal result.                              *)
(*                                                                         *)
(* Time.  The driver compares instants only by their distance to the       *)
(* present, so every instant is kept as its distance to _lastOwnerNowMs,   *)
(* the last time the owner showed the driver, and 0 stands for an instant  *)
(* that is reached.  poll.at is the distance of the driver's own clock,    *)
(* which runs ahead of the owner's inside a poll by the duration of the    *)
(* transfers.  A safety gate of 0 is an invalid or an elapsed one.         *)
(*                                                                         *)
(* poll() is a loop.  Its iterations are actions of their own, enabled     *)
(* only while poll.on; no call of the owner comes between them.            *)
(***************************************************************************)
EXTENDS SCD41Sensor, SCD41Transfer, Integers

CONSTANTS UsedKinds,           \* the operation kinds the owner asks for
          RequestIds,          \* the request identities the owner uses
          MaxGeneration,       \* stands for UINT32_MAX of _nextGeneration
          MaxEpoch,            \* stands for UINT32_MAX of _sensorEpoch
          MaxSequence,         \* stands for UINT32_MAX of _sampleSequence
          MaxFailures,         \* stands for UINT8_MAX of the consecutive failures
          Configs,             \* the configurations the owner binds with
          Deadlines,           \* deadline distances the owner chooses
          Advances,            \* how far the owner's clock moves between calls
          Durations,           \* how long a transfer can take
          Budgets,             \* callback budgets of a poll
          SensorStates,        \* the sensors the driver can be bound to
          Replacements         \* the sensors somebody can put in its place

\* The part of Config that steers the driver.
Configurations == [powerUpDelayMs : Nat, strictVariantCheck : BOOLEAN,
                   offlineThreshold : Nat]

ASSUME DriverAssumption ==
  /\ UsedKinds \subseteq Kinds
  /\ RequestIds \subseteq Nat \ {0}
  /\ {MaxGeneration, MaxEpoch, MaxSequence, MaxFailures} \subseteq Nat \ {0}
  /\ Configs \subseteq Configurations
  /\ Deadlines \subseteq Nat \ {0}
  /\ Advances \subseteq Nat
  /\ Durations \subseteq Nat
  /\ Budgets \subseteq Nat
  /\ SensorStates \cup Replacements \subseteq Sensors

VARIABLES
  bound,            \* _bound
  config,           \* _config
  belief,           \* what the driver claims about the sensor
  activeValid,      \* _activeValid
  active,           \* _active, and the serial number it has read so far
  terminalValid,    \* _terminalValid
  terminal,         \* _terminal
  nextGeneration,   \* _nextGeneration
  nextSafe,         \* _nextSafeCommandMs and _nextSafeCommandValid
  lastEffectful,    \* _lastTransferDisposition if _lastTransferWasEffectful
  health,           \* the part of _health that has a state: READY ... OFFLINE
  poll,             \* the locals of the poll in progress
  sensor,           \* the sensor itself
  truth             \* what really happened, for the properties only

driverVars == <<bound, config, belief, activeValid, active, terminalValid,
                terminal, nextGeneration, nextSafe, lastEffectful, health, poll>>
vars == <<driverVars, sensor, truth>>
-----------------------------------------------------------------------------
NoIdentity == [serial |-> NoSerial, variant |-> "UNKNOWN", epoch |-> 0,
               valid |-> FALSE]
NoSample == [valid |-> FALSE, epoch |-> 0, sequence |-> 0, mode |-> "UNKNOWN"]
NoId == [requestId |-> 0, generation |-> 0]

NoOperation ==
  [kind |-> NoKind, id |-> NoId, phase |-> "NONE", effect |-> "NONE",
   nextDue |-> 0, deadline |-> 0, index |-> 0, callbacksUsed |-> 0,
   attempted |-> FALSE, changed |-> FALSE, desired |-> NoWord,
   completed |-> {}, serial |-> NoSerial]

NoResult ==
  [kind |-> NoKind, id |-> NoId, outcome |-> "SUCCEEDED", effect |-> "NONE",
   reconciliationRequired |-> FALSE, mode |-> "UNKNOWN", epoch |-> 0,
   callbacksUsed |-> 0, completed |-> {}, desired |-> NoWord]

NotPolling == [on |-> FALSE, left |-> 0, used |-> 0, at |-> 0, spins |-> 0]

\* The defaults of Config, which end() falls back to.
DefaultConfig == [powerUpDelayMs |-> SettleMs["POWER_UP"],
                  strictVariantCheck |-> TRUE, offlineThreshold |-> 5]

\* The belief of a driver that knows nothing.
Ignorance(epoch) ==
  [attached |-> FALSE, reconciliationRequired |-> TRUE, mode |-> "UNKNOWN",
   evidence |-> "UNKNOWN", epoch |-> epoch, sampleSequence |-> 0,
   identity |-> NoIdentity, verified |-> {}, dirty |-> {},
   cached |-> [f \in Fields |-> NoWord], persistenceIndeterminate |-> FALSE,
   compensation |-> NoField, sample |-> NoSample]

Init ==
  /\ bound = FALSE /\ config = DefaultConfig
  /\ belief = Ignorance(0)
  /\ activeValid = FALSE /\ active = NoOperation
  /\ terminalValid = FALSE /\ terminal = NoResult
  /\ nextGeneration = 1
  /\ nextSafe = 0
  /\ lastEffectful = "NONE"
  /\ health = [state |-> "UNINIT", failures |-> 0]
  /\ poll = NotPolling
  /\ sensor \in SensorStates
  /\ truth = [busy |-> 0, unsaved |-> {}, disturbed |-> FALSE,
              acked |-> FALSE, altered |-> FALSE]
-----------------------------------------------------------------------------
(* Changes of the belief.                                                  *)

\* A slip the properties must notice: the counter does not saturate.
WrappingIncrement(n, max) == n + 1
Saturate(n, max) == IF n < max THEN n + 1 ELSE max

SetMode(b, mode, evidence) ==
  [b EXCEPT !.sampleSequence = IF b.mode = mode THEN @ ELSE 0,
            !.mode = mode, !.evidence = evidence]

\* A slip: the mode survives.
MarkKeepingMode(b) ==
  [b EXCEPT !.attached = FALSE, !.reconciliationRequired = TRUE, !.verified = {},
            !.compensation = NoField, !.sample = NoSample]
MarkReconciliationRequired(b) ==
  [SetMode(b, "UNKNOWN", "UNKNOWN") EXCEPT
     !.attached = FALSE, !.reconciliationRequired = TRUE, !.verified = {},
     !.compensation = NoField, !.sample = NoSample]

AdvanceSensorEpoch(b) ==
  [b EXCEPT !.epoch = Saturate(@, MaxEpoch), !.sampleSequence = 0,
            !.compensation = NoField, !.sample = NoSample]

ClearConfiguration(b) ==
  [b EXCEPT !.verified = {}, !.dirty = {}, !.persistenceIndeterminate = FALSE,
            !.cached = [f \in Fields |-> NoWord]]

\* A slip: a serial number once known is kept.
IdentifyVariantOnly(b, id) ==
  [b EXCEPT !.identity = [serial |-> IF b.identity.valid THEN @.serial ELSE id.serial,
                          variant |-> id.variant, epoch |-> b.epoch, valid |-> TRUE]]
\* A slip: an identity that is confirmed keeps the epoch it was first read in.
IdentifyKeepingEpoch(b, id) ==
  [b EXCEPT !.identity = [serial |-> id.serial, variant |-> id.variant,
                          epoch |-> IF b.identity.valid /\ b.identity.serial = id.serial
                                    THEN @.epoch ELSE b.epoch,
                          valid |-> TRUE]]
Identify(b, id) ==
  [b EXCEPT !.identity = [serial |-> id.serial, variant |-> id.variant,
                          epoch |-> b.epoch, valid |-> TRUE]]

\* A slip: the strict check is forgotten.
NeverUnsupported(id) == FALSE
Unsupported(id) == config.strictVariantCheck /\ id.variant # "SCD41"

Differs(b, id) == /\ b.identity.valid
                  /\ \/ b.identity.serial # id.serial
                     \/ b.identity.variant # id.variant

\* Another sensor, or one the driver may not use: nothing known survives.
Disown(b, id) ==
  MarkReconciliationRequired(ClearConfiguration(
    Identify(AdvanceSensorEpoch(b), id)))

\* The sensor answers as the one expected, in idle mode.
Reattach(b, id) ==
  [SetMode(Identify(b, id), "IDLE", "VERIFIED") EXCEPT
     !.attached = TRUE, !.reconciliationRequired = FALSE]

StoreSample(b) ==
  LET sequence == Saturate(b.sampleSequence, MaxSequence)
  IN [b EXCEPT !.sampleSequence = sequence,
               !.sample = [valid |-> TRUE, epoch |-> b.epoch,
                           sequence |-> sequence, mode |-> b.mode]]

ApplyReadValue(b, f, word) ==
  [b EXCEPT !.cached[f] = word, !.verified = @ \cup {f}]

ValidReturnedSetting(f, word) == ~(f \in RangedFields /\ word = BadWord)

EffectFromWake(disposition) ==
  CASE disposition = "COMPLETE"      -> "ACKNOWLEDGED"
    [] disposition = "INDETERMINATE" -> "UNKNOWN"
    [] OTHER                         -> "ATTEMPTED"

\* Passive health: it never steers the driver.
RecordTransfer(h, r, expectedNack) ==
  CASE expectedNack -> h
    [] ~expectedNack /\ r.code = "OK" -> [state |-> "READY", failures |-> 0]
    [] ~expectedNack /\ r.code # "OK" /\ r.disposition = "NOT_STARTED" -> h
    [] OTHER ->
         LET failures == Saturate(h.failures, MaxFailures)
         IN [state |-> IF /\ config.offlineThreshold # 0
                          /\ failures >= config.offlineThreshold
                       THEN "OFFLINE" ELSE "DEGRADED",
             failures |-> failures]
-----------------------------------------------------------------------------
(* The end of an operation.                                                *)

\* An acknowledged reload whose wait is over has discarded unsaved settings,
\* even when the operation ends without passing through the wait phase.
ReloadSettled(a, at) == /\ a.kind.op \in ResetOps
                        /\ a.phase = "WAIT_EXECUTION"
                        /\ a.effect = "ACKNOWLEDGED"
                        /\ at >= a.nextDue

FinishOperation(outcome, effect, b, a, at) ==
  /\ belief' = IF ReloadSettled(a, at) THEN [b EXCEPT !.dirty = {}] ELSE b
  /\ terminal' = [kind |-> a.kind, id |-> a.id, outcome |-> outcome,
                  effect |-> effect, mode |-> b.mode, epoch |-> b.epoch,
                  reconciliationRequired |-> b.reconciliationRequired,
                  callbacksUsed |-> a.callbacksUsed,
                  completed |-> a.completed, desired |-> a.desired]
  /\ terminalValid' = TRUE
  /\ activeValid' = FALSE /\ active' = NoOperation
  /\ poll' = NotPolling

\* A slip: only completed transfers count.
FailureEffectWithoutDoubt(expired, a, last) ==
  IF last = "COMPLETE" /\ expired THEN "ACKNOWLEDGED" ELSE a.effect
\* last is the disposition of the last transfer if that was effectful.
FailureEffect(expired, a, last) ==
  LET reported == CASE last = "INDETERMINATE" -> "UNKNOWN"
                    [] last = "NO_EFFECT" /\ a.effect = "NOT_ATTEMPTED" -> "ATTEMPTED"
                    [] last = "COMPLETE" /\ expired -> "ACKNOWLEDGED"
                    [] OTHER -> a.effect
  IN IF expired /\ a.attempted /\ reported = "NOT_ATTEMPTED" THEN "UNKNOWN"
     ELSE reported

\* A slip: a deadline leaves no doubt.
InDoubtIfReported(expired, a, last) == last = "INDETERMINATE"
\* Whether the sensor's state is in doubt after the failure.
InDoubt(expired, a, last) ==
  last = "INDETERMINATE" \/ (last = "COMPLETE" /\ expired)
    \/ (expired /\ a.attempted)

FinishOperationFailure(status, b, a, last, at) ==
  LET expired == status = "TIMEOUT"
      effect == FailureEffect(expired, a, last)
      eepromInDoubt == /\ a.kind.op \in {"PERSIST_SETTINGS", "FACTORY_RESET"}
                       /\ effect = "UNKNOWN" \/ (expired /\ a.attempted)
      outcome == IF a.kind.op = "READ_CONFIGURATION" /\ a.completed # {}
                 THEN "PARTIAL"
                 ELSE IF last = "INDETERMINATE" THEN "INDETERMINATE"
                 ELSE IF expired THEN "TIMED_OUT" ELSE "FAILED"
      known == IF InDoubt(expired, a, last) THEN MarkReconciliationRequired(b) ELSE b
  IN FinishOperation(outcome, effect,
                     [known EXCEPT !.persistenceIndeterminate =
                                     @ \/ eepromInDoubt],
                     a, at)
-----------------------------------------------------------------------------
(* Calls of the owner.                                                     *)

\* A slip: time stands still.
Frozen(t, d) == t
Elapse(t, d) == IF t > d THEN t - d ELSE 0

\* The owner's clock is d further: the gate and the sensor's business age.
Pass(d) == /\ nextSafe' = Elapse(nextSafe, d)
           /\ truth' = [truth EXCEPT !.busy = Elapse(@, d)]

Aged(a, d) == [a EXCEPT !.nextDue = Elapse(@, d), !.deadline = Elapse(@, d)]

\* The configurations begin() accepts.
ValidConfig(c) == c.powerUpDelayMs >= SettleMs["POWER_UP"]

\* A slip: begin() does not ask for a pending operation.
BeginAnyTime(c) ==
  /\ ValidConfig(c) /\ ~poll.on /\ ~terminalValid
  /\ bound' = TRUE /\ config' = c
  /\ belief' = Ignorance(belief.epoch)
  /\ active' = NoOperation /\ terminal' = NoResult
  /\ lastEffectful' = "NONE"
  /\ health' = [state |-> "READY", failures |-> 0]
  /\ UNCHANGED <<activeValid, terminalValid, nextGeneration, nextSafe, poll,
                 sensor, truth>>
Begin(c) ==
  /\ ValidConfig(c) /\ ~poll.on /\ ~activeValid /\ ~terminalValid
  /\ bound' = TRUE /\ config' = c
  /\ belief' = Ignorance(belief.epoch)
  /\ active' = NoOperation /\ terminal' = NoResult
  /\ lastEffectful' = "NONE"
  /\ health' = [state |-> "READY", failures |-> 0]
  /\ truth' = [truth EXCEPT !.unsaved = {}]
  /\ UNCHANGED <<activeValid, terminalValid, nextGeneration, nextSafe, poll,
                 sensor>>

Admissible(k) ==
  \/ k.op = "ATTACH"
  \/ /\ belief.attached
     /\ ~belief.reconciliationRequired /\ belief.mode # "UNKNOWN"
     /\ \/ k.op # "PERSIST_SETTINGS"
        \/ belief.persistenceIndeterminate
        \/ belief.dirty \subseteq belief.verified
     /\ \/ ~belief.identity.valid
        \/ belief.identity.variant \in {"SCD41", "SCD43"}
        \/ ~NeedsSingleShotVariant(k)
     /\ CASE belief.mode \in {"PERIODIC", "LOW_POWER_PERIODIC"} ->
               PeriodicAllowed(k)
          [] belief.mode = "POWER_DOWN" -> k.op = "WAKE_UP"
          [] OTHER -> k.op \notin {"FETCH_SAMPLE", "STOP_PERIODIC"}

\* A slip: FETCH_SAMPLE begins like the others.
FirstPhaseNoFetch(k) == IF k.op = "ATTACH" THEN "WAIT_POWER_UP" ELSE "SEND_COMMAND"
FirstPhase(k) == CASE k.op = "ATTACH"       -> "WAIT_POWER_UP"
                   [] k.op = "FETCH_SAMPLE" -> "SEND_READY_COMMAND"
                   [] OTHER                 -> "SEND_COMMAND"

\* A request that start() accepts d after the last time shown.
Startable(k, d) ==
  /\ bound /\ ~activeValid /\ ~terminalValid
  /\ nextSafe <= d
  /\ Admissible(k)

\* start(): an accepted request.  A refused one changes nothing.
Start(k, requestId, desired, deadline, d) ==
  /\ ~poll.on /\ Startable(k, d)
  /\ active' = [NoOperation EXCEPT
       !.kind = k, !.phase = FirstPhase(k), !.deadline = deadline,
       !.id = [requestId |-> requestId, generation |-> nextGeneration],
       !.nextDue = IF k.op = "ATTACH" THEN config.powerUpDelayMs ELSE 0,
       !.effect = IF IsEffectful(k) THEN "NOT_ATTEMPTED" ELSE "NONE",
       !.desired = IF k.op = "SET_SETTING" THEN desired ELSE NoWord]
  /\ activeValid' = TRUE
  /\ nextGeneration' = IF nextGeneration = MaxGeneration THEN 1
                       ELSE nextGeneration + 1
  /\ lastEffectful' = "NONE"
  /\ nextSafe' = 0
  /\ truth' = [truth EXCEPT !.busy = Elapse(@, d)]
  /\ UNCHANGED <<bound, config, belief, terminalValid, terminal, health, poll, sensor>>

\* cancel() by the owner of the operation; any other identity is refused.
Cancel(id, d) ==
  LET effect == IF active.callbacksUsed = 0
                THEN IF IsEffectful(active.kind) THEN "NOT_ATTEMPTED" ELSE "NONE"
                ELSE IF active.attempted /\ active.effect = "NOT_ATTEMPTED"
                THEN "UNKNOWN" ELSE active.effect
      b == IF active.callbacksUsed # 0 /\ active.attempted
           THEN MarkReconciliationRequired(belief) ELSE belief
      eeprom == /\ active.kind.op \in {"PERSIST_SETTINGS", "FACTORY_RESET"}
                /\ active.attempted
  IN /\ ~poll.on /\ activeValid /\ active.id = id
     /\ FinishOperation("CANCELLED", effect,
          [b EXCEPT !.persistenceIndeterminate = @ \/ eeprom], active, d)
     /\ Pass(d)
     /\ UNCHANGED <<bound, config, nextGeneration, lastEffectful, health, sensor>>

TakeResult(id) ==
  /\ ~poll.on /\ terminalValid /\ terminal.id = id
  /\ terminal' = NoResult /\ terminalValid' = FALSE
  /\ truth' = [truth EXCEPT !.acked = FALSE, !.altered = FALSE]
  /\ UNCHANGED <<bound, config, belief, activeValid, active, nextGeneration,
                 nextSafe, lastEffectful, health, poll, sensor>>

\* What end() leaves of the belief.
Unbind(b) ==
  [b EXCEPT !.attached = FALSE, !.reconciliationRequired = TRUE,
            !.mode = "UNKNOWN", !.evidence = "UNKNOWN",
            !.identity.valid = FALSE, !.verified = {},
            !.compensation = NoField, !.sample = NoSample]

End ==
  LET marked == IF active.callbacksUsed > 0
                THEN MarkReconciliationRequired(belief) ELSE belief
      eeprom == /\ active.kind.op \in {"PERSIST_SETTINGS", "FACTORY_RESET"}
                /\ active.attempted
      cancelled == [marked EXCEPT !.persistenceIndeterminate = @ \/ eeprom,
                                  !.dirty = IF ReloadSettled(active, 0)
                                            THEN {} ELSE @]
  IN /\ ~poll.on /\ bound
     /\ bound' = FALSE /\ config' = DefaultConfig
     /\ health' = [health EXCEPT !.state = "UNINIT"]
     /\ IF activeValid
        THEN /\ terminal' = [kind |-> active.kind, id |-> active.id,
                             outcome |-> "CANCELLED", effect |-> active.effect,
                             mode |-> cancelled.mode, epoch |-> cancelled.epoch,
                             reconciliationRequired |->
                               cancelled.reconciliationRequired,
                             callbacksUsed |-> active.callbacksUsed,
                             completed |-> active.completed,
                             desired |-> active.desired]
             /\ terminalValid' = TRUE
             /\ activeValid' = FALSE /\ active' = NoOperation
             /\ belief' = Unbind(cancelled)
        ELSE /\ belief' = Unbind(belief)
             /\ UNCHANGED <<terminal, terminalValid, activeValid, active>>
     /\ UNCHANGED <<nextGeneration, nextSafe, lastEffectful, poll, sensor, truth>>

\* poll() up to its loop.
EnterPoll(budget, d) ==
  /\ ~poll.on
  /\ Pass(d)
  /\ IF activeValid /\ active.deadline > d
     THEN /\ active' = Aged(active, d)
          /\ poll' = [NotPolling EXCEPT !.on = TRUE, !.left = budget]
          /\ UNCHANGED <<belief, activeValid, terminal, terminalValid>>
     ELSE IF activeValid
     THEN FinishOperationFailure("TIMEOUT", belief, active, lastEffectful, d)
     ELSE UNCHANGED <<belief, activeValid, active, terminal, terminalValid, poll>>
  /\ UNCHANGED <<bound, config, nextGeneration, lastEffectful, health, sensor>>
-----------------------------------------------------------------------------
(* The legs of an operation: what each sending phase puts on the bus, and  *)
(* the phase, the wait and the field index it leads to.                    *)

Query(command, phase, index) ==
  [command |-> command, effectful |-> FALSE, nack |-> FALSE, phase |-> phase,
   wait |-> SettleMs["SHORT"], index |-> index]

Order(command, nack, phase, wait, index) ==
  [command |-> command, effectful |-> TRUE, nack |-> nack, phase |-> phase,
   wait |-> wait, index |-> index]

AttachLeg(a) ==
  CASE a.phase = "SEND_WAKE" ->
         Order(Command("WAKE_UP"), TRUE, "WAIT_WAKE", SettleMs["POWER_UP"], 0)
    [] a.phase = "SEND_STOP" ->
         Order(Command("STOP_PERIODIC"), TRUE, "WAIT_STOP",
               SettleMs["STOP_PERIODIC"], 0)
    [] a.phase = "SEND_READ_COMMAND" ->
         Query(Command("GET_SERIAL"), "WAIT_EXECUTION", 0)
    [] a.phase = "SEND_VERIFY_COMMAND" ->
         Query(Command("GET_VARIANT"), "WAIT_EXECUTION", 1)

\* The field a read operation is at.
FieldRead(a) == IF a.kind.op = "READ_CONFIGURATION" THEN FieldOrder[a.index + 1]
                ELSE a.kind.field

ReadCommand(a) ==
  CASE a.kind.op = "READ_IDENTITY"       -> Command("GET_SERIAL")
    [] a.kind.op = "READ_SENSOR_VARIANT" -> Command("GET_VARIANT")
    [] a.kind.op = "READ_DATA_READY"     -> Command("GET_DATA_READY")
    [] OTHER                             -> GetCommand(FieldRead(a))

ReadLeg(a) ==
  IF a.phase = "SEND_COMMAND"
  THEN Query(ReadCommand(a), "WAIT_EXECUTION", a.index)
  ELSE Query(Command("GET_VARIANT"), "WAIT_EXECUTION", a.index)

\* Read the present word, write the wanted one if needed, read it back.
SettingLeg(a) ==
  CASE a.index = 0 -> Query(GetCommand(a.kind.field), "WAIT_EXECUTION", 0)
    [] a.index = 1 -> Order(SetCommand(a.kind.field, a.desired), FALSE,
                            "WAIT_EXECUTION", SettleMs["SHORT"], 2)
    [] OTHER       -> Query(GetCommand(a.kind.field), "WAIT_EXECUTION", 3)

ModeLeg(a) ==
  CASE a.phase = "SEND_COMMAND" ->
         Order(Command(a.kind.op), a.kind.op = "WAKE_UP", "WAIT_EXECUTION",
               ExecutionWait(a.kind), 0)
    [] a.phase = "SEND_READ_COMMAND" ->
         Query(Command("GET_SERIAL"), "WAIT_EXECUTION", 1)
    [] a.phase = "SEND_VERIFY_COMMAND" ->
         Query(Command("GET_VARIANT"), "WAIT_EXECUTION", 2)

MeasurementLeg(a) ==
  CASE a.phase = "SEND_COMMAND" ->
         Order(Command(a.kind.op), FALSE, "WAIT_EXECUTION",
               ExecutionWait(a.kind), 0)
    [] a.phase = "SEND_READY_COMMAND" ->
         Query(Command("GET_DATA_READY"), "READ_READY_RESPONSE", 0)
    [] a.phase = "SEND_READ_COMMAND" ->
         Query(Command("READ_MEASUREMENT"), "READ_RESPONSE", 0)

MaintenanceLeg(a) ==
  IF a.phase = "SEND_COMMAND"
  THEN Order(Command(a.kind.op), FALSE, "WAIT_EXECUTION", ExecutionWait(a.kind), 0)
  ELSE Query(Command(IF a.index = 0 THEN "GET_SERIAL" ELSE "GET_VARIANT"),
             "READ_VERIFY_RESPONSE", a.index)

DiagnosticLeg(a) ==
  Order(Command("DIAGNOSTIC"), FALSE, "WAIT_EXECUTION", SettleMs["SHORT"], 0)

Leg(a) == CASE a.kind.op = "ATTACH"              -> AttachLeg(a)
            [] a.kind.op \in MeasurementOps      -> MeasurementLeg(a)
            [] a.kind.op \in MaintenanceOps      -> MaintenanceLeg(a)
            [] a.kind.op \in DiagnosticOps       -> DiagnosticLeg(a)
            [] a.kind.op = "SET_SETTING"         -> SettingLeg(a)
            [] a.kind.op \in ModeOps             -> ModeLeg(a)
            [] a.kind.op \in ReadOps             -> ReadLeg(a)

SendPhases == {"SEND_WAKE", "SEND_STOP", "SEND_COMMAND", "SEND_READY_COMMAND",
               "SEND_READ_COMMAND", "SEND_VERIFY_COMMAND"}
WaitPhases == {"WAIT_POWER_UP", "WAIT_WAKE", "WAIT_STOP", "WAIT_EXECUTION"}
ReadPhases == {"READ_READY_RESPONSE", "READ_RESPONSE", "READ_VERIFY_RESPONSE",
               "READ_DEFERRED_RESULT"}
Phases == {"NONE"} \cup SendPhases \cup WaitPhases \cup ReadPhases
-----------------------------------------------------------------------------
(* One attempt on the bus.                                                 *)

\* A slip: ATTACH has the wait of its own kind.
FullWaitOfKind(a) == ExecutionWait(a.kind)
\* What the sensor needs after the effectful command of this phase.
FullWait(a) == IF a.kind.op # "ATTACH" THEN ExecutionWait(a.kind)
               ELSE IF a.phase = "SEND_WAKE" THEN SettleMs["POWER_UP"]
               ELSE SettleMs["STOP_PERIODIC"]

\* The driver's clock after the attempt.
Completed(r, dur) == IF r.clockValid THEN poll.at + dur ELSE poll.at

\* A slip: a late transfer is as good as one in time.
StatusIgnoringDeadline(nack, r, dur) ==
  IF ~r.clockValid \/ (r.code # "OK" /\ ~ExpectedNack(nack, r)) THEN "ERROR"
  ELSE "OK"
TransferStatus(nack, r, dur) ==
  IF ~r.clockValid \/ (r.code # "OK" /\ ~ExpectedNack(nack, r)) THEN "ERROR"
  ELSE IF Completed(r, dur) >= active.deadline THEN "TIMEOUT" ELSE "OK"

\* The operation after the attempt.
Attempted(effectful, r) ==
  LET begun == effectful /\ r.disposition # "NOT_STARTED"
  IN [active EXCEPT
        !.callbacksUsed = @ + 1,
        !.attempted = @ \/ begun,
        !.effect = IF begun /\ @ = "NOT_ATTEMPTED" THEN "ATTEMPTED" ELSE @]

\* A slip: only commands that change something close the gate.
GateAfterCommands(effectful, nack, r, dur) ==
  IF effectful /\ r.disposition # "NOT_STARTED"
  THEN Completed(r, dur) + FullWait(active) ELSE nextSafe
\* The safety gate: the sensor needs time whenever an attempt began, and its
\* full time whenever the command may run.
GateAfter(effectful, nack, r, dur) ==
  LET mayRun == \/ r.disposition \in {"COMPLETE", "INDETERMINATE"}
                \/ ExpectedNack(nack, r)
  IN IF r.disposition = "NOT_STARTED" THEN nextSafe
     ELSE Completed(r, dur) + IF effectful /\ mayRun THEN FullWait(active)
                              ELSE SettleMs["SHORT"]

\* Settings that are in RAM only because of this command, if it was taken.
Unsaved(c, s2) ==
  CASE c.name = "SET" -> truth.unsaved \cup
         (IF s2.ram = sensor.ram THEN {} ELSE {c.field} \cap PersistableFields)
    [] c.name \in {"PERSIST_SETTINGS", "REINIT", "FACTORY_RESET"} -> {}
    [] OTHER -> truth.unsaved

\* From its wake on, ATTACH has dropped every claim and learns all anew.
Relearns(nack, r, dur) ==
  active.phase = "SEND_WAKE" /\ TransferStatus(nack, r, dur) = "OK"

\* The attempt: the callback's outcome r, its duration, the sensor's reaction.
Exchange(c, effectful, nack, r, dur, react) ==
  LET need == IF react.took THEN ExecutionTime(c) ELSE SettleMs["SHORT"]
  IN /\ poll.left > 0
     /\ react \in Reactions(sensor, c, r)
     /\ nextSafe' = GateAfter(effectful, nack, r, dur)
     /\ lastEffectful' = IF effectful THEN r.disposition ELSE "NONE"
     /\ health' = RecordTransfer(health, r, ExpectedNack(nack, r))
     /\ sensor' = react.sensor
     /\ truth' = [truth EXCEPT
          !.busy = IF r.disposition = "NOT_STARTED" THEN @
                   ELSE Completed(r, dur) + need,
          !.unsaved = IF react.took THEN Unsaved(c, react.sensor) ELSE @,
          !.disturbed = @ /\ ~Relearns(nack, r, dur),
          !.acked = @ \/ (effectful /\ r.disposition = "COMPLETE"),
          !.altered = @ \/ (effectful /\ react.sensor # sensor)]
     /\ UNCHANGED <<bound, config, nextGeneration>>
-----------------------------------------------------------------------------
(* The iterations of the poll loop.                                        *)

MaxTransitions == 32

\* An iteration that leaves the operation active.
Proceed(a, b, at, left) ==
  /\ active' = a /\ belief' = b
  /\ poll' = IF left = 0 \/ a.nextDue > at \/ poll.spins + 1 = MaxTransitions
             THEN NotPolling
             ELSE [on |-> TRUE, left |-> left, at |-> at,
                   used |-> poll.used + (poll.left - left),
                   spins |-> poll.spins + 1]
  /\ UNCHANGED <<activeValid, terminalValid, terminal>>

Quiet == UNCHANGED <<bound, config, nextGeneration, nextSafe, lastEffectful,
                     health, sensor, truth>>

\* The sensor must settle and the phase is not due either.
PollBreak ==
  /\ poll.on /\ nextSafe > poll.at /\ active.nextDue > poll.at
  /\ poll' = NotPolling
  /\ UNCHANGED <<belief, activeValid, active, terminalValid, terminal>>
  /\ Quiet

\* A slip: the phase stays due although the gate is closed.
GateHolds ==
  /\ poll.on /\ nextSafe > poll.at /\ active.nextDue <= poll.at
  /\ Proceed(active, belief, poll.at, poll.left)
  /\ Quiet
\* The phase is due and the sensor must settle: the phase is put off.
GateDefers ==
  /\ poll.on /\ nextSafe > poll.at /\ active.nextDue <= poll.at
  /\ Proceed([active EXCEPT !.nextDue = nextSafe], belief, poll.at, poll.left)
  /\ Quiet

\* The step function of the operation runs.  Its own deadline check and the
\* second spacing check in _writeCommand and _readWords never fire here: a
\* poll begins before the deadline and a transfer that crosses it ends the
\* operation (InTime), and nothing moves the gate between the two checks.
Working == poll.on /\ nextSafe <= poll.at

\* Phases that look at nextDue before anything else.
Waiting(a) ==
  \/ a.phase \in WaitPhases
  \/ a.kind.op \in MeasurementOps
       /\ a.phase \in {"READ_READY_RESPONSE", "READ_RESPONSE"}
  \/ a.kind.op \in MaintenanceOps /\ a.phase = "READ_VERIFY_RESPONSE"

NotDue ==
  /\ Working /\ Waiting(active) /\ active.nextDue > poll.at
  /\ poll' = NotPolling
  /\ UNCHANGED <<belief, activeValid, active, terminalValid, terminal>>
  /\ Quiet

PhaseAfterExecution(a) ==
  CASE a.kind.op = "ATTACH" ->
         IF a.index = 0 THEN "READ_RESPONSE" ELSE "READ_VERIFY_RESPONSE"
    [] a.kind.op \in ReadOps ->
         IF a.kind.op = "READ_IDENTITY" /\ a.index = 1
         THEN "READ_VERIFY_RESPONSE" ELSE "READ_RESPONSE"
    [] a.kind.op = "SET_SETTING" ->
         IF a.index = 2 THEN "SEND_COMMAND" ELSE "READ_RESPONSE"
    [] a.kind.op = "WAKE_UP" ->
         <<"SEND_READ_COMMAND", "READ_RESPONSE", "READ_VERIFY_RESPONSE">>[a.index + 1]
    [] a.kind.op \in SingleShotOps -> "SEND_READY_COMMAND"
    [] a.kind.op \in {"SELF_TEST", "FORCED_RECALIBRATION"} -> "READ_DEFERRED_RESULT"
    [] a.kind.op \in ResetOps -> "SEND_VERIFY_COMMAND"
    [] a.kind.op \in DiagnosticOps -> "READ_RESPONSE"

PhaseAfterWait(a) ==
  CASE a.phase = "WAIT_POWER_UP"  -> "SEND_WAKE"
    [] a.phase = "WAIT_WAKE"      -> "SEND_STOP"
    [] a.phase = "WAIT_STOP"      -> "SEND_READ_COMMAND"
    [] a.phase = "WAIT_EXECUTION" -> PhaseAfterExecution(a)

\* Kinds that end with their wait.
EndsWithWait(k) ==
  k.op \in (ModeOps \ {"WAKE_UP"}) \cup {"PERSIST_SETTINGS"}

WaitIsOver == Working /\ active.phase \in WaitPhases /\ active.nextDue <= poll.at

\* A reload or reset has settled, even if the identity check fails.
WaitOver ==
  /\ WaitIsOver /\ ~EndsWithWait(active.kind)
  /\ Proceed([active EXCEPT !.phase = PhaseAfterWait(active)],
             IF active.kind.op \in ResetOps THEN [belief EXCEPT !.dirty = {}]
             ELSE belief,
             poll.at, poll.left)
  /\ Quiet

ModeAfter(k) == CASE k.op = "START_PERIODIC"           -> "PERIODIC"
                  [] k.op = "START_LOW_POWER_PERIODIC" -> "LOW_POWER_PERIODIC"
                  [] k.op = "STOP_PERIODIC"            -> "IDLE"
                  [] k.op = "POWER_DOWN"               -> "POWER_DOWN"

CommandSettled ==
  /\ WaitIsOver /\ EndsWithWait(active.kind)
  /\ FinishOperation("SUCCEEDED", "ACKNOWLEDGED",
       IF active.kind.op = "PERSIST_SETTINGS"
       THEN [belief EXCEPT !.dirty = {}, !.persistenceIndeterminate = FALSE]
       ELSE SetMode(belief, ModeAfter(active.kind), "ACKNOWLEDGED"),
       active, poll.at)
  /\ Quiet

\* PERSIST_SETTINGS that must not, or need not, write the EEPROM.
PersistNeedless(a, b) ==
  /\ a.kind.op = "PERSIST_SETTINGS" /\ a.phase = "SEND_COMMAND"
  /\ b.persistenceIndeterminate \/ b.dirty = {}

PersistShortcut ==
  /\ Working /\ PersistNeedless(active, belief)
  /\ IF belief.persistenceIndeterminate
     THEN FinishOperation("INDETERMINATE", "UNKNOWN", belief, active, poll.at)
     ELSE FinishOperation("SUCCEEDED", "NOT_ATTEMPTED", belief, active, poll.at)
  /\ Quiet

\* The phases that use the bus.
Transferring ==
  /\ Working /\ ~PersistNeedless(active, belief)
  /\ active.phase \in SendPhases \cup ReadPhases
  /\ Waiting(active) => active.nextDue <= poll.at

BudgetExhausted ==
  /\ Transferring /\ poll.left = 0
  /\ poll' = NotPolling
  /\ UNCHANGED <<belief, activeValid, active, terminalValid, terminal>>
  /\ Quiet
-----------------------------------------------------------------------------
(* Sending phases.                                                         *)

\* A slip: the field stays verified.
SettingWriteKeepsVerified(b, a) ==
  [b EXCEPT !.dirty = @ \cup ({a.kind.field} \cap PersistableFields)]
\* A slip: the pressure source stays claimed.
SettingWriteKeepsSource(b, a) ==
  [b EXCEPT !.verified = @ \ {a.kind.field}]
\* A setting write that may have reached the sensor takes the field's
\* verification, whatever the status of the transfer.
AfterSettingWrite(b, a) ==
  LET f == a.kind.field
  IN [b EXCEPT !.verified = @ \ {f},
               !.dirty = IF a.changed THEN @ \cup ({f} \cap PersistableFields)
                         ELSE @,
               !.compensation = IF f \in CompensationFields THEN NoField ELSE @]

\* A slip: only a completed write changes what is known.
AfterCompleteAttempt(b, a, leg, r) ==
  IF leg.command.name = "SET" /\ r.disposition = "COMPLETE"
  THEN AfterSettingWrite(b, a) ELSE b
AfterAttempt(b, a, leg, r) ==
  IF /\ leg.command.name = "SET"
     /\ r.disposition \in {"COMPLETE", "INDETERMINATE"}
  THEN AfterSettingWrite(b, a) ELSE b

\* Commands after which nothing managed can be trusted.
Reconciles(a) == \/ a.phase = "SEND_WAKE"
                 \/ a.kind.op \in ResetOps \cup DiagnosticOps \cup {"WAKE_UP"}

AfterSend(b, a, leg) ==
  LET known == IF leg.effectful /\ Reconciles(a)
               THEN MarkReconciliationRequired(b) ELSE b
  IN [known EXCEPT !.persistenceIndeterminate =
                     @ \/ (leg.effectful /\ a.kind.op = "FACTORY_RESET")]

\* A NACKed wake is no acknowledgement; the stop of ATTACH proves nothing more.
EffectAfterSend(a, leg, r) ==
  CASE ~leg.effectful \/ a.phase = "SEND_STOP" -> a.effect
    [] leg.effectful /\ leg.command.name = "WAKE_UP" -> EffectFromWake(r.disposition)
    [] OTHER -> "ACKNOWLEDGED"

AttemptedLeg(leg, r, dur) ==
  /\ Transferring /\ active.phase \in SendPhases
  /\ r \in IF leg.effectful THEN EffectfulOutcomes ELSE PlainOutcomes
  /\ \E react \in Reactions(sensor, leg.command, r) :
       Exchange(leg.command, leg.effectful, leg.nack, r, dur, react)

EndsWithSend(k) == k.op \in DiagnosticOps \ {"DIAGNOSTIC_READ_WORDS"}

Send(r, dur) ==
  LET leg == Leg(active)
      sent == Attempted(leg.effectful, r)
      at == Completed(r, dur)
  IN /\ AttemptedLeg(leg, r, dur)
     /\ TransferStatus(leg.nack, r, dur) = "OK"
     /\ ~EndsWithSend(active.kind)
     /\ Proceed([sent EXCEPT !.phase = leg.phase, !.index = leg.index,
                             !.nextDue = at + leg.wait,
                             !.effect = EffectAfterSend(sent, leg, r)],
                AfterSend(AfterAttempt(belief, active, leg, r), active, leg),
                at, poll.left - 1)

\* Diagnostic writes end with their acknowledgement, without a wait.
SendLast(r, dur) ==
  LET leg == Leg(active)
  IN /\ AttemptedLeg(leg, r, dur)
     /\ TransferStatus(leg.nack, r, dur) = "OK"
     /\ EndsWithSend(active.kind)
     /\ FinishOperation("SUCCEEDED", "ACKNOWLEDGED",
                        AfterSend(belief, active, leg),
                        Attempted(leg.effectful, r), Completed(r, dur))

SendFails(r, dur) ==
  LET leg == Leg(active)
      status == TransferStatus(leg.nack, r, dur)
  IN /\ AttemptedLeg(leg, r, dur)
     /\ status # "OK"
     /\ FinishOperationFailure(status, AfterAttempt(belief, active, leg, r),
                               Attempted(leg.effectful, r),
                               IF leg.effectful THEN r.disposition ELSE "NONE",
                               Completed(r, dur))
-----------------------------------------------------------------------------
(* Reading phases.                                                         *)

Exact == [code |-> "OK", disposition |-> "COMPLETE", clockValid |-> TRUE]

Heard == Attempted(FALSE, Exact)

\* An attempt to read, with its outcome.
AttemptedRead(r, dur) ==
  /\ Transferring /\ active.phase \in ReadPhases
  /\ r \in PlainOutcomes
  /\ \E react \in Reactions(sensor, ReadWords, r) :
       Exchange(ReadWords, FALSE, FALSE, r, dur, react)

\* A complete answer in time whose checksums are right.
Answered(dur) ==
  AttemptedRead(Exact, dur) /\ TransferStatus(FALSE, Exact, dur) = "OK"

\* The transfer failed, came too late, or a checksum is wrong.
ReadFails(r, dur) ==
  /\ AttemptedRead(r, dur)
  /\ LET status == TransferStatus(FALSE, r, dur)
     IN FinishOperationFailure(IF status = "OK" THEN "ERROR" ELSE status, belief,
                               Attempted(FALSE, r), "NONE", Completed(r, dur))

HearsSerial(a) ==
  \/ a.kind.op \in {"ATTACH", "READ_IDENTITY", "WAKE_UP"}
       /\ a.phase = "READ_RESPONSE"
  \/ a.kind.op \in ResetOps /\ a.phase = "READ_VERIFY_RESPONSE" /\ a.index = 0

\* A slip: the serial number is read once more.
HearSerialAgain(dur) ==
  /\ HearsSerial(active)
  /\ Answered(dur)
  /\ Proceed([Heard EXCEPT !.serial = sensor.serial,
                           !.phase = "SEND_VERIFY_COMMAND",
                           !.nextDue = poll.at + dur],
             belief, poll.at + dur, poll.left - 1)
HearSerial(dur) ==
  /\ HearsSerial(active)
  /\ Answered(dur)
  /\ Proceed([Heard EXCEPT !.serial = sensor.serial, !.index = 1,
                           !.phase = "SEND_VERIFY_COMMAND",
                           !.nextDue = poll.at + dur],
             belief, poll.at + dur, poll.left - 1)

HearsVariant(a) == a.phase = "READ_VERIFY_RESPONSE" /\ ~HearsSerial(a)

\* The identity that two reads have put together.
IdentityRead == [serial |-> active.serial, variant |-> sensor.variant]

Refused(id) == Unsupported(id) \/ (active.kind.op # "ATTACH" /\ Differs(belief, id))

RefusedEffect(k) == CASE k.op = "ATTACH"        -> "ACKNOWLEDGED"
                      [] k.op = "READ_IDENTITY" -> "NONE"
                      [] OTHER                  -> "UNKNOWN"

IdentityRefused(dur) ==
  /\ HearsVariant(active) /\ Refused(IdentityRead)
  /\ Answered(dur)
  /\ FinishOperation(IF active.kind.op \in ResetOps THEN "INDETERMINATE" ELSE "FAILED",
                     RefusedEffect(active.kind), Disown(belief, IdentityRead),
                     Heard, poll.at + dur)

\* A slip: ATTACH forgets what is dirty.
AttachedForgetting(b, id) == Reattach(AdvanceSensorEpoch(ClearConfiguration(b)), id)
\* A slip: the epoch does not advance.
AttachedSameEpoch(b, id) == Reattach(ClearConfiguration(b), id)
\* Reattachment after ATTACH keeps what is dirty on the same sensor only.
Attached(b, id) ==
  LET known == IF b.identity.valid /\ ~Differs(b, id)
               THEN [b EXCEPT !.verified = {}] ELSE ClearConfiguration(b)
  IN Reattach(AdvanceSensorEpoch(known), id)

\* A completed reset leaves nothing dirty and nothing in doubt.
ResetDone(b, id) ==
  Reattach([AdvanceSensorEpoch(b) EXCEPT
              !.verified = {}, !.dirty = {}, !.persistenceIndeterminate = FALSE],
           id)

ConfirmedEffect(k) == CASE k.op \in {"ATTACH", "WAKE_UP"} -> "VERIFIED"
                        [] k.op = "READ_IDENTITY"         -> "NONE"
                        [] OTHER                          -> "ACKNOWLEDGED"

IdentityConfirmed(dur) ==
  LET id == IdentityRead
  IN /\ HearsVariant(active) /\ ~Refused(id)
     /\ Answered(dur)
     /\ FinishOperation("SUCCEEDED", ConfirmedEffect(active.kind),
          CASE active.kind.op = "ATTACH"        -> Attached(belief, id)
            [] active.kind.op = "READ_IDENTITY" -> Identify(belief, id)
            [] active.kind.op = "WAKE_UP"       -> Reattach(belief, id)
            [] active.kind.op \in ResetOps      -> ResetDone(belief, id),
          Heard, poll.at + dur)

\* The variant alone: a changed one needs a new ATTACH.
VariantChanged(b, id) ==
  MarkReconciliationRequired(
    [ClearConfiguration(AdvanceSensorEpoch(b)) EXCEPT
       !.identity = [NoIdentity EXCEPT !.variant = id.variant,
                                       !.epoch = Saturate(b.epoch, MaxEpoch)]])

HearVariant(dur) ==
  LET id == [serial |-> belief.identity.serial, variant |-> sensor.variant]
  IN /\ active.kind.op = "READ_SENSOR_VARIANT" /\ active.phase = "READ_RESPONSE"
     /\ Answered(dur)
     /\ IF Unsupported(id) \/ Differs(belief, id)
        THEN FinishOperation("FAILED", "NONE", VariantChanged(belief, id), Heard,
                             poll.at + dur)
        ELSE FinishOperation("SUCCEEDED", "NONE",
                             [belief EXCEPT !.identity.variant = id.variant,
                                            !.identity.epoch = belief.epoch],
                             Heard, poll.at + dur)

\* Answers that only go into the result: data-ready, diagnostic words, and
\* the deferred verdict of a self-test or a recalibration.
HearAnswer(dur, verdict) ==
  /\ \/ active.kind.op \in {"READ_DATA_READY", "DIAGNOSTIC_READ_WORDS"}
          /\ active.phase = "READ_RESPONSE" /\ verdict
     \/ active.phase = "READ_DEFERRED_RESULT"
  /\ Answered(dur)
  /\ FinishOperation(IF verdict THEN "SUCCEEDED" ELSE "FAILED",
                     CASE active.kind.op = "READ_DATA_READY" -> "NONE"
                       [] active.kind.op = "DIAGNOSTIC_READ_WORDS" -> "ACKNOWLEDGED"
                       [] OTHER -> "VERIFIED",
                     belief, Heard, poll.at + dur)

Unverify(b, f) == [b EXCEPT !.verified = @ \ {f}]

\* A slip: the last field is forgotten.
LastFieldTooEarly == 5
LastFieldIndex == 6

\* A setting word that no sensor setting can have.
HearInvalidSetting(dur) ==
  LET f == FieldRead(active)
  IN /\ active.kind.op \in {"READ_SETTING", "READ_CONFIGURATION"}
     /\ active.phase = "READ_RESPONSE"
     /\ ~ValidReturnedSetting(f, sensor.ram[f])
     /\ Answered(dur)
     /\ FinishOperationFailure("ERROR", Unverify(belief, f), Heard, "NONE",
                               poll.at + dur)

HearSetting(dur) ==
  LET f == FieldRead(active)
      b == ApplyReadValue(belief, f, sensor.ram[f])
      whole == active.kind.op = "READ_CONFIGURATION"
      heard == IF whole THEN [Heard EXCEPT !.completed = @ \cup {f}] ELSE Heard
  IN /\ active.kind.op \in {"READ_SETTING", "READ_CONFIGURATION"}
     /\ active.phase = "READ_RESPONSE"
     /\ ValidReturnedSetting(f, sensor.ram[f])
     /\ Answered(dur)
     /\ IF whole /\ active.index < LastFieldIndex
        THEN Proceed([heard EXCEPT !.index = @ + 1, !.phase = "SEND_COMMAND",
                                   !.nextDue = poll.at + dur],
                     b, poll.at + dur, poll.left - 1)
        ELSE FinishOperation("SUCCEEDED", "NONE", b, heard, poll.at + dur)

\* The word before a setting write: whether there is anything to write.
HearPresentSetting(dur) ==
  LET f == active.kind.field
      word == sensor.ram[f]
      valid == ValidReturnedSetting(f, word)
      b == IF valid THEN ApplyReadValue(belief, f, word) ELSE Unverify(belief, f)
      changed == word # active.desired
      selectionRequired == f \in CompensationFields /\ belief.compensation # f
  IN /\ active.kind.op = "SET_SETTING" /\ active.index = 0
     /\ active.phase = "READ_RESPONSE"
     /\ Answered(dur)
     /\ IF changed \/ selectionRequired
        THEN Proceed([Heard EXCEPT !.changed = changed, !.index = 1,
                                   !.phase = "SEND_COMMAND",
                                   !.nextDue = poll.at + dur],
                     b, poll.at + dur, poll.left - 1)
        ELSE IF valid
        THEN FinishOperation("SUCCEEDED", "VERIFIED", b, Heard, poll.at + dur)
        ELSE FinishOperationFailure("ERROR", b, Heard, "NONE", poll.at + dur)

\* The word read back after a setting write.
HearWrittenSetting(dur) ==
  LET f == active.kind.field
      word == sensor.ram[f]
      read == ApplyReadValue(belief, f, word)
      b == IF f \in CompensationFields THEN [read EXCEPT !.compensation = f] ELSE read
  IN /\ active.kind.op = "SET_SETTING" /\ active.index = 3
     /\ active.phase = "READ_RESPONSE"
     /\ Answered(dur)
     /\ CASE ~ValidReturnedSetting(f, word) ->
               FinishOperation("FAILED", "ACKNOWLEDGED", Unverify(belief, f),
                               Heard, poll.at + dur)
          [] ValidReturnedSetting(f, word) /\ word # active.desired ->
               FinishOperation("FAILED", "VERIFIED", read, Heard, poll.at + dur)
          [] ValidReturnedSetting(f, word) /\ word = active.desired ->
               FinishOperation("SUCCEEDED", "VERIFIED", b, Heard, poll.at + dur)

HearReady(dur, ready) ==
  /\ active.kind.op \in MeasurementOps /\ active.phase = "READ_READY_RESPONSE"
  /\ Answered(dur)
  /\ IF ready
     THEN Proceed([Heard EXCEPT !.phase = "SEND_READ_COMMAND"], belief,
                  poll.at + dur, poll.left - 1)
     ELSE FinishOperation("NO_DATA", active.effect, belief, Heard, poll.at + dur)

HearSample(dur) ==
  /\ active.kind.op \in MeasurementOps /\ active.phase = "READ_RESPONSE"
  /\ Answered(dur)
  /\ FinishOperation("SUCCEEDED",
                     IF active.kind.op = "FETCH_SAMPLE" THEN "NONE" ELSE "VERIFIED",
                     StoreSample(belief), Heard, poll.at + dur)
-----------------------------------------------------------------------------
(* Somebody replaces or power-cycles the sensor behind the driver's back.  *)
Disturb(s2) ==
  /\ ~poll.on /\ s2 # sensor
  /\ sensor' = s2
  /\ truth' = [truth EXCEPT !.busy = 0, !.unsaved = {}, !.disturbed = TRUE]
  /\ UNCHANGED driverVars

LoopStep ==
  \/ PollBreak \/ GateDefers \/ NotDue \/ WaitOver \/ CommandSettled
  \/ PersistShortcut \/ BudgetExhausted
  \/ \E dur \in Durations :
       \/ \E r \in EffectfulOutcomes \cup PlainOutcomes :
            Send(r, dur) \/ SendLast(r, dur) \/ SendFails(r, dur) \/ ReadFails(r, dur)
       \/ HearSerial(dur) \/ IdentityRefused(dur) \/ IdentityConfirmed(dur)
       \/ HearVariant(dur) \/ HearInvalidSetting(dur) \/ HearSetting(dur)
       \/ HearPresentSetting(dur) \/ HearWrittenSetting(dur) \/ HearSample(dur)
       \/ \E verdict \in BOOLEAN : HearAnswer(dur, verdict) \/ HearReady(dur, verdict)

OwnerCall ==
  \/ End
  \/ \E c \in Configs : Begin(c)
  \/ TakeResult(terminal.id)
  \/ \E d \in Advances :
       \/ \E k \in UsedKinds, id \in RequestIds, deadline \in Deadlines :
            \E w \in IF k.op = "SET_SETTING" THEN Words ELSE {NoWord} :
              Start(k, id, w, deadline, d)
       \/ Cancel(active.id, d)
       \/ \E budget \in Budgets : EnterPoll(budget, d)

Next == OwnerCall \/ LoopStep \/ \E s2 \in Replacements : Disturb(s2)

Spec == Init /\ [][Next]_vars
=============================================================================
