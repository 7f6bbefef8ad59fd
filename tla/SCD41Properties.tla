-------------------------- MODULE SCD41Properties --------------------------
(***************************************************************************)
(* What the driver promises.  The properties compare three things: what    *)
(* the driver claims (belief, terminal), what it does (its attempts on the *)
(* bus) and what is true of the sensor (sensor, truth).                    *)
(***************************************************************************)
EXTENDS SCD41Driver

Identities == [serial : Serials \cup {NoSerial}, variant : Variants \cup {"UNKNOWN"},
               epoch : 0 .. MaxEpoch, valid : BOOLEAN]
Samples == [valid : BOOLEAN, epoch : 0 .. MaxEpoch, sequence : 0 .. MaxSequence,
            mode : Modes \cup {"UNKNOWN"}]
Beliefs ==
  [attached : BOOLEAN, reconciliationRequired : BOOLEAN,
   mode : Modes \cup {"UNKNOWN"},
   evidence : {"UNKNOWN", "ACKNOWLEDGED", "VERIFIED"},
   epoch : 0 .. MaxEpoch, sampleSequence : 0 .. MaxSequence,
   identity : Identities, verified : SUBSET Fields,
   dirty : SUBSET PersistableFields, cached : [Fields -> AnyWord \cup {NoWord}],
   persistenceIndeterminate : BOOLEAN,
   compensation : CompensationFields \cup {NoField}, sample : Samples]

Ids == [requestId : RequestIds \cup {0}, generation : 0 .. MaxGeneration]
Effects == {"NONE", "NOT_ATTEMPTED", "ATTEMPTED", "ACKNOWLEDGED", "VERIFIED",
            "UNKNOWN"}
Outcomes == {"SUCCEEDED", "NO_DATA", "PARTIAL", "FAILED", "TIMED_OUT", "CANCELLED",
             "INDETERMINATE"}
Operations ==
  [kind : Kinds \cup {NoKind}, id : Ids, phase : Phases, effect : Effects,
   nextDue : Nat, deadline : Nat, index : 0 .. 6, callbacksUsed : Nat,
   attempted : BOOLEAN, changed : BOOLEAN, desired : Words \cup {NoWord},
   completed : SUBSET Fields, serial : Serials \cup {NoSerial}]
OpResults ==
  [kind : Kinds \cup {NoKind}, id : Ids, outcome : Outcomes, effect : Effects,
   reconciliationRequired : BOOLEAN, mode : Modes \cup {"UNKNOWN"},
   epoch : 0 .. MaxEpoch, callbacksUsed : Nat, completed : SUBSET Fields,
   desired : Words \cup {NoWord}]
Truths == [busy : Nat, unsaved : SUBSET PersistableFields, disturbed : BOOLEAN,
           acked : BOOLEAN, altered : BOOLEAN]
Polls == [on : BOOLEAN, left : Nat, used : Nat, at : Nat,
          spins : 0 .. MaxTransitions - 1]

\* Every variable has its type.
TypeOK ==
  /\ config \in Configurations
  /\ bound \in BOOLEAN /\ activeValid \in BOOLEAN /\ terminalValid \in BOOLEAN
  /\ belief \in Beliefs
  /\ active \in Operations
  /\ terminal \in OpResults
  /\ nextGeneration \in 1 .. MaxGeneration
  /\ nextSafe \in Nat
  /\ lastEffectful \in Dispositions \cup {"NONE"}
  /\ health \in [state : {"UNINIT", "READY", "DEGRADED", "OFFLINE"},
                 failures : 0 .. MaxFailures]
  /\ poll \in Polls
  /\ sensor \in Sensors
  /\ truth \in Truths
-----------------------------------------------------------------------------
(* The claims of the driver.                                               *)

\* Kinds that run without knowing the sensor's state.
Reconciling == {"ATTACH", "WAKE_UP"} \cup ResetOps \cup DiagnosticOps

\* A driver that needs reconciliation claims nothing: no mode, no verified
\* field, no pressure source, no sample; and it needs it exactly when it is
\* not attached.  The flags live in nine places of the code, which set them
\* one by one (_markReconciliationRequired, begin, end, the verifications).
\* The last two conjuncts say which operations may run in between.
Coherent ==
  /\ belief.reconciliationRequired = ~belief.attached
  /\ belief.reconciliationRequired =>
       /\ belief.mode = "UNKNOWN"
       /\ belief.verified = {}
       /\ belief.compensation = NoField
       /\ ~belief.sample.valid
  /\ belief.attached => bound /\ belief.mode # "UNKNOWN"
  /\ activeValid => bound /\ ~terminalValid
  /\ activeValid /\ active.kind.op \notin Reconciling => belief.attached

\* Between operations an attached driver knows the sensor's mode, whatever
\* was lost, refused, cancelled or late before (unless somebody interfered).
ModeBeliefTrue ==
  ~activeValid /\ belief.attached /\ ~truth.disturbed => belief.mode = sensor.mode

\* A field the driver calls verified has the value it caches.
VerifiedIsTrue ==
  ~truth.disturbed =>
    \A f \in belief.verified : belief.cached[f] = sensor.ram[f]

\* The pressure source the driver claims is the one the sensor uses.
CompensationTrue ==
  belief.compensation # NoField /\ ~truth.disturbed =>
    belief.compensation = sensor.source

\* A setting that is in RAM only is dirty: it will not be lost unnoticed.
DirtyCoversUnsaved ==
  bound => truth.unsaved \subseteq belief.dirty

\* "Settings persisted" means that the EEPROM holds every setting written.
PersistHonest ==
  /\ terminalValid /\ bound /\ terminal.kind.op = "PERSIST_SETTINGS"
  /\ terminal.outcome = "SUCCEEDED"
  => truth.unsaved = {}

\* Doubt about the EEPROM is not lost: a save or a factory reset that changed
\* the sensor and did not succeed, however it ended (late, cancelled, by end(),
\* or by a read afterwards that failed), leaves persistenceIndeterminate, and
\* nothing but a verified reload or reset takes it back from the same sensor.
EepromDoubtKept ==
  [][/\ /\ terminalValid' /\ truth'.altered /\ terminal'.outcome # "SUCCEEDED"
        /\ terminal'.kind.op \in {"PERSIST_SETTINGS", "FACTORY_RESET"}
        => belief'.persistenceIndeterminate
     /\ /\ belief.persistenceIndeterminate /\ ~belief'.persistenceIndeterminate
        /\ belief.identity.valid /\ belief'.identity.valid
        /\ belief'.identity.serial = belief.identity.serial
        /\ belief'.identity.variant = belief.identity.variant
        => /\ terminalValid' /\ terminal'.outcome = "SUCCEEDED"
           /\ terminal'.kind.op \in ResetOps]_vars

\* If an operation has changed the sensor, its result says that it had or may
\* have had an effect.  Only a wake can take effect without any evidence; its
\* result then asks for reconciliation.
EffectNotHidden ==
  terminalValid /\ truth.altered =>
    \/ terminal.effect \in {"ACKNOWLEDGED", "VERIFIED", "UNKNOWN"}
    \/ terminal.effect = "ATTEMPTED" /\ terminal.kind.op \in {"ATTACH", "WAKE_UP"}
         /\ terminal.reconciliationRequired

\* READ_CONFIGURATION succeeds with all fields and is PARTIAL with some; any
\* other end, but for a cancellation, means that no field was read.
ConfigurationWhole ==
  terminalValid /\ terminal.kind.op = "READ_CONFIGURATION" =>
    CASE terminal.outcome = "SUCCEEDED" -> terminal.completed = Fields
      [] terminal.outcome = "PARTIAL"   -> terminal.completed \notin {{}, Fields}
      [] terminal.outcome = "CANCELLED" -> terminal.completed # Fields
      [] OTHER                          -> terminal.completed = {}

\* The identity an attached driver reports is the sensor's.
IdentityTrue ==
  belief.attached /\ ~truth.disturbed =>
    /\ belief.identity.valid
    /\ belief.identity.serial = sensor.serial
    /\ belief.identity.variant = sensor.variant

\* What an attached driver knows, it learnt in the present sensor epoch.
CurrentEpoch ==
  /\ belief.attached => belief.identity.valid /\ belief.identity.epoch = belief.epoch
  /\ belief.sample.valid => /\ belief.attached
                            /\ belief.sample.epoch = belief.epoch
                            /\ belief.sample.sequence > 0

\* With strictVariantCheck only an SCD41 is ever attached.
StrictVariant ==
  config.strictVariantCheck /\ belief.attached => belief.identity.variant = "SCD41"

\* Another sensor is never taken for the same: a new serial number or variant
\* comes with a new epoch (until the epoch counter is exhausted).
NewSensorNewEpoch ==
  [][\/ ~belief'.identity.valid
     \/ ~belief.identity.valid
     \/ belief'.identity.serial = belief.identity.serial
          /\ belief'.identity.variant = belief.identity.variant
     \/ belief'.epoch > belief.epoch
     \/ belief.epoch = MaxEpoch]_vars
-----------------------------------------------------------------------------
(* The steps of the driver.                                                *)

\* The phases each operation passes through, with the field index they have:
\* the default branches of the step functions are never reached.
AttachSteps ==
  {"WAIT_POWER_UP", "SEND_WAKE", "WAIT_WAKE", "SEND_STOP", "WAIT_STOP",
   "SEND_READ_COMMAND", "WAIT_EXECUTION", "READ_RESPONSE"} \X {0}
    \cup {"SEND_VERIFY_COMMAND", "WAIT_EXECUTION", "READ_VERIFY_RESPONSE"} \X {1}
ReadSteps == {"SEND_COMMAND", "WAIT_EXECUTION", "READ_RESPONSE"} \X {0}
IdentitySteps ==
  ReadSteps
    \cup {"SEND_VERIFY_COMMAND", "WAIT_EXECUTION", "READ_VERIFY_RESPONSE"} \X {1}
ConfigurationSteps ==
  {"SEND_COMMAND", "WAIT_EXECUTION", "READ_RESPONSE"} \X (0 .. 6)
SettingSteps ==
  {"SEND_COMMAND"} \X (0 .. 2) \cup {"WAIT_EXECUTION"} \X {0, 2, 3}
    \cup {"READ_RESPONSE"} \X {0, 3}
WakeSteps ==
  {"SEND_COMMAND", "SEND_READ_COMMAND"} \X {0}
    \cup {"WAIT_EXECUTION"} \X {0, 1, 2}
    \cup {"READ_RESPONSE", "SEND_VERIFY_COMMAND"} \X {1}
    \cup {"READ_VERIFY_RESPONSE"} \X {2}
CommandSteps == {"SEND_COMMAND", "WAIT_EXECUTION"} \X {0}
FetchSteps ==
  {"SEND_READY_COMMAND", "READ_READY_RESPONSE", "SEND_READ_COMMAND",
   "READ_RESPONSE"} \X {0}
ResetSteps ==
  CommandSteps \cup {"SEND_VERIFY_COMMAND", "READ_VERIFY_RESPONSE"} \X {0, 1}
DeferredSteps == CommandSteps \cup {"READ_DEFERRED_RESULT"} \X {0}

Reachable(k) ==
  CASE k.op = "ATTACH"             -> AttachSteps
    [] k.op = "READ_IDENTITY"      -> IdentitySteps
    [] k.op = "READ_CONFIGURATION" -> ConfigurationSteps
    [] k.op \in ({"READ_SENSOR_VARIANT", "READ_DATA_READY", "READ_SETTING"}
                   \cup DiagnosticOps) -> ReadSteps
    [] k.op = "SET_SETTING"        -> SettingSteps
    [] k.op = "WAKE_UP"            -> WakeSteps
    [] k.op \in (ModeOps \ {"WAKE_UP"}) \cup {"PERSIST_SETTINGS"} -> CommandSteps
    [] k.op = "FETCH_SAMPLE"       -> FetchSteps
    [] k.op \in SingleShotOps      -> CommandSteps \cup FetchSteps
    [] k.op \in ResetOps           -> ResetSteps
    [] k.op \in {"SELF_TEST", "FORCED_RECALIBRATION"} -> DeferredSteps

PhasesLegal == activeValid => <<active.phase, active.index>> \in Reachable(active.kind)

\* Inside the poll loop an operation is active and its deadline lies ahead:
\* nothing is done for an operation after its time.
InTime == poll.on => activeValid /\ poll.at < active.deadline

\* The published bound on the transport calls of an operation holds.
CallbacksWithinLimits ==
  /\ active.callbacksUsed <= MaxCallbacks(active.kind)
  /\ terminal.callbacksUsed <= MaxCallbacks(terminal.kind)

\* A step that calls the transport.
CallsTransport ==
  \/ activeValid' /\ active'.callbacksUsed > active.callbacksUsed
  \/ activeValid /\ ~activeValid' /\ terminal'.callbacksUsed > active.callbacksUsed

\* The sensor is left alone until it has finished with the command before,
\* across failures, cancellation, end() and a new binding.
SettleRespected == [][CallsTransport => poll.at >= truth.busy]_vars

\* A poll calls the transport at most once, whatever its budget.
OneAttemptPerPoll == [][CallsTransport => poll.used = 0]_vars

\* A poll that leaves the operation active has spent its budget, or the
\* instant it tells the owner to come back lies ahead: an owner that sleeps
\* until nextDueMs neither spins nor misses a step.
NextDueTellsWhen ==
  [][poll.on /\ ~poll'.on /\ activeValid' =>
       \/ active'.nextDue > poll.at
       \/ poll.left = 0
       \/ poll.left = 1 /\ active'.callbacksUsed > active.callbacksUsed]_vars
-----------------------------------------------------------------------------
(* The promise about requests.                                             *)

Slot == INSTANCE OperationSlot WITH
  MaxCalls <- 14,
  state <- IF terminalValid THEN "RESULT" ELSE IF activeValid THEN "ACTIVE" ELSE "IDLE",
  requestId <- IF terminalValid THEN terminal.id.requestId ELSE active.id.requestId,
  generation <- IF terminalValid THEN terminal.id.generation ELSE active.id.generation,
  next <- nextGeneration,
  calls <- IF terminalValid THEN terminal.callbacksUsed ELSE active.callbacksUsed,
  outcome <- IF terminalValid THEN terminal.outcome ELSE "NONE"

\* start(), poll(), cancel(), takeResult(), begin() and end() in any order
\* keep the promise: one request at a time and exactly one result for each.
ExactlyOnce == Slot!Spec

\* The owner keeps polling with a clock that goes on and a budget that is not
\* zero, and a call of poll() returns.
FairOwner ==
  /\ WF_vars(LoopStep)
  /\ SF_vars(\E d \in Advances \ {0}, budget \in Budgets \ {0} : EnterPoll(budget, d))

FairSpec == Spec /\ FairOwner

\* Then every request ends, whatever the transport and the sensor do: the
\* deadline ends it at the latest.
EveryRequestEnds == Slot!FairSpec
-----------------------------------------------------------------------------
(* What the comments on EffectState say; the code says something else.     *)

\* "ACKNOWLEDGED: effectful bytes completed successfully."
AcknowledgedMeansCompleted ==
  terminalValid /\ terminal.effect = "ACKNOWLEDGED" => truth.acked

\* "VERIFIED: a later read/reconciliation verified the intended state."
VerifiedMeansIntended ==
  /\ terminalValid /\ terminal.kind.op = "SET_SETTING"
  /\ terminal.effect = "VERIFIED"
  => sensor.ram[terminal.kind.field] = terminal.desired
=============================================================================
