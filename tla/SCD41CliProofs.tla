--------------------------- MODULE SCD41CliProofs ---------------------------
(***************************************************************************)
(* What the owner's loop and the driver promise together, for every user,  *)
(* bus and sensor: a workflow has the slot to itself, its requests never   *)
(* meet a mode they were not chosen for, a scan never meets a busy sensor, *)
(* and no request is lost to the deadline that was computed for it.        *)
(*                                                                         *)
(* The loop is no special case of SCD41Driver's owner: it computes its     *)
(* deadlines.  So the invariants of the driver are proved for it again,    *)
(* from the same steps.  The owner's own invariant says where the loop can *)
(* be while a workflow is active, which is what keeps a command or a new   *)
(* binding from coming in between; that no request of a workflow changes   *)
(* the mode is a property of the seven kinds it asks for (Observing).      *)
(*                                                                         *)
(* For the deadlines the invariant is a budget (BudgetInv): what is left   *)
(* of the deadline covers the calls that are left, each with the longest   *)
(* transfer and all that a round of the loop adds, and the waits that are  *)
(* left of those the driver publishes.                                     *)
(***************************************************************************)
EXTENDS SCD41Cli, DriverBeliefProofs, DriverSlotProofs

\* The kinds a workflow asks for: none of them changes the sensor's mode.
Observing == ReadOps \cup {"SELF_TEST", "FETCH_SAMPLE"}

\* A belief in the present mode, or one without claims.
ModeKept(b) == b.attached => belief.attached /\ b.mode = belief.mode
-----------------------------------------------------------------------------
(* Observing keeps the mode.                                               *)

\* Requests that observe are accepted by an attached driver only, and have
\* nothing to do with the ways a mode changes.
LEMMA ObservingKinds ==
  ASSUME NEW op \in Observing
  PROVE  op \notin Reconciling \cup ResetOps \cup DiagnosticOps \cup ModeOps
                     \cup {"SET_SETTING", "PERSIST_SETTINGS"}
  BY DEF Observing, ReadOps, Reconciling, ResetOps, DiagnosticOps, ModeOps

\* What an answer makes of the belief keeps the mode.
LEMMA AnswersKeepMode ==
  ASSUME belief \in Beliefs, NEW f \in Fields, NEW w, NEW id \in Readings, belief.attached
  PROVE  /\ ModeKept(belief) /\ ModeKept(StoreSample(belief))
         /\ ModeKept(ApplyReadValue(belief, f, w)) /\ ModeKept(Unverify(belief, f))
         /\ ModeKept(Identify(belief, id)) /\ ModeKept(Disown(belief, id))
<1>1. ModeKept(StoreSample(belief))
  BY SampleFields DEF ModeKept
<1>2. ModeKept(ApplyReadValue(belief, f, w)) /\ ModeKept(Unverify(belief, f))
  BY SettingFields DEF ModeKept
<1>3. ModeKept(Identify(belief, id))
  BY IdentifyFields DEF ModeKept
<1>4. ModeKept(Disown(belief, id))
  BY DisownFields DEF ModeKept
<1> QED BY <1>1, <1>2, <1>3, <1>4 DEF ModeKept

\* An operation that ends keeps the mode of the belief it leaves.
LEMMA FinishKeepsMode ==
  ASSUME NEW outcome, NEW effect, NEW b \in Beliefs, NEW a, NEW at,
         FinishOperation(outcome, effect, b, a, at), ModeKept(b)
  PROVE  ModeKept(belief')
  BY FinishBelief DEF SameClaims, ModeKept

\* So does one that fails, also when it leaves nothing known.
LEMMA FailureKeepsMode ==
  ASSUME NEW status, NEW b \in Beliefs, NEW a, NEW last, NEW at,
         FinishOperationFailure(status, b, a, last, at), ModeKept(b)
  PROVE  ModeKept(belief')
<1>1. Unclaimed(belief', b) \/ SameClaims(belief', b)
  BY FailureBelief
<1> QED BY <1>1 DEF SameClaims, Unclaimed, ModeKept

\* What holds whenever a request that observes runs.
LEMMA ObservingGiven ==
  ASSUME IInv, BeliefInv, activeValid, active.kind.op \in Observing
  PROVE  belief \in Beliefs /\ belief.attached /\ ModeKept(belief) /\ Standing(active)
<1>1. belief.attached
  BY ObservingKinds DEF BeliefInv
<1> QED BY <1>1, ActiveStands DEF IInv, SlotOK, ModeKept

\* The iterations without the bus.
LEMMA QuietKeepsMode ==
  ASSUME IInv, BeliefInv, activeValid, active.kind.op \in Observing,
         \/ PollBreak \/ GateDefers \/ NotDue \/ WaitOver \/ CommandSettled
         \/ PersistShortcut \/ BudgetExhausted
  PROVE  ModeKept(belief')
<1>1. ~CommandSettled /\ ~PersistShortcut
  BY ObservingKinds DEF CommandSettled, PersistShortcut, EndsWithWait, PersistNeedless
<1>2. UNCHANGED belief
  <2>1. CASE WaitOver
    BY <2>1, ObservingKinds DEF WaitOver, Proceed
  <2> QED
    BY <1>1, <2>1 DEF PollBreak, GateDefers, NotDue, BudgetExhausted, Proceed
<1> QED BY <1>2, ObservingGiven

\* A command is sent, or fails.
LEMMA SendKeepsMode ==
  ASSUME IInv, BeliefInv, activeValid, active.kind.op \in Observing,
         NEW r \in EffectfulOutcomes \cup PlainOutcomes, NEW dur \in Durations,
         Send(r, dur) \/ SendLast(r, dur) \/ SendFails(r, dur)
  PROVE  ModeKept(belief')
<1> DEFINE leg == Leg(active)
           b1 == AfterAttempt(belief, active, leg, r)
           b2 == AfterSend(b1, active, leg)
<1>1. /\ belief \in Beliefs /\ Sound(belief) /\ ModeKept(belief)
  BY ObservingGiven DEF BeliefInv
<1>2. b1 \in Beliefs
  BY <1>1, AttemptSound
<1>3. ModeKept(b1)
  BY <1>1, WrittenFields DEF AfterAttempt, ModeKept
<1>4. ~SendLast(r, dur)
  BY ObservingKinds DEF SendLast, EndsWithSend
<1> HIDE DEF b1
<1>5. CASE Send(r, dur)
  <2>1. belief' = b2
    BY <1>5 DEF Send, Proceed, b1
  <2>2. Unclaimed(b2, b1) \/ SameClaims(b2, b1)
    BY <1>2, SentFields
  <2> HIDE DEF b2
  <2> QED BY <1>3, <2>1, <2>2 DEF Unclaimed, SameClaims, ModeKept
<1>6. CASE SendFails(r, dur)
  <2>1. PICK status, a, last, at : FinishOperationFailure(status, b1, a, last, at)
    BY <1>6 DEF SendFails, b1
  <2> QED BY <1>2, <1>3, <2>1, FailureKeepsMode
<1> QED BY <1>4, <1>5, <1>6

\* An answer is heard, or fails to come.
LEMMA HearKeepsMode ==
  ASSUME IInv, BeliefInv, activeValid, active.kind.op \in Observing,
         NEW dur \in Durations,
         \/ \E r : ReadFails(r, dur)
         \/ HearSerial(dur) \/ HearSample(dur)
         \/ \E verdict \in BOOLEAN : HearAnswer(dur, verdict) \/ HearReady(dur, verdict)
  PROVE  ModeKept(belief')
<1>1. belief \in Beliefs /\ belief.attached /\ ModeKept(belief)
  BY ObservingGiven
<1>2. PICK f, id : f \in Fields /\ id \in Readings
  BY IdentityReadType DEF Fields
<1>3. ModeKept(StoreSample(belief)) /\ StoreSample(belief) \in Beliefs
  BY <1>1, <1>2, AnswersKeepMode, StoreSampleType
<1>4. CASE \E r : ReadFails(r, dur)
  <2>1. PICK status, a, last, at : FinishOperationFailure(status, belief, a, last, at)
    BY <1>4 DEF ReadFails
  <2> QED BY <1>1, <2>1, FailureKeepsMode
<1>5. CASE HearSample(dur)
  <2>1. PICK outcome, effect, a, at :
          FinishOperation(outcome, effect, StoreSample(belief), a, at)
    BY <1>5 DEF HearSample
  <2> QED BY <1>3, <2>1, FinishKeepsMode
<1>6. CASE \/ HearSerial(dur)
           \/ \E verdict \in BOOLEAN : HearAnswer(dur, verdict) \/ HearReady(dur, verdict)
  <2>1. \/ belief' = belief
        \/ \E outcome, effect, a, at : FinishOperation(outcome, effect, belief, a, at)
    BY <1>6 DEF HearSerial, HearAnswer, HearReady, Proceed
  <2> QED BY <1>1, <2>1, FinishKeepsMode
<1> QED BY <1>4, <1>5, <1>6

\* The identity or the variant is confirmed, or found to be another.
LEMMA IdentityKeepsMode ==
  ASSUME IInv, BeliefInv, activeValid, active.kind.op \in Observing,
         NEW dur \in Durations,
         IdentityRefused(dur) \/ IdentityConfirmed(dur) \/ HearVariant(dur)
  PROVE  ModeKept(belief')
<1> DEFINE id == IdentityRead
<1>1. belief \in Beliefs /\ belief.attached /\ ModeKept(belief) /\ Standing(active)
  BY ObservingGiven
<1>2. PICK f : f \in Fields
  BY DEF Fields
<1>3. /\ id \in Readings /\ ModeKept(Disown(belief, id)) /\ ModeKept(Identify(belief, id))
      /\ Disown(belief, id) \in Beliefs /\ Identify(belief, id) \in Beliefs
  BY <1>1, <1>2, IdentityReadType, AnswersKeepMode, IdentityTypes, IdentifyType
<1>4. CASE IdentityRefused(dur)
  <2>1. PICK outcome, effect, a, at :
          FinishOperation(outcome, effect, Disown(belief, id), a, at)
    BY <1>4 DEF IdentityRefused
  <2> QED BY <1>3, <2>1, FinishKeepsMode
<1>5. CASE IdentityConfirmed(dur)
  <2>1. active.kind.op = "READ_IDENTITY"
    BY <1>1, <1>5, HearsVariantKinds, ObservingKinds DEF IdentityConfirmed, Reconciling
  <2>2. PICK effect, a, at :
          FinishOperation("SUCCEEDED", effect, Identify(belief, id), a, at)
    BY <1>5, <2>1 DEF IdentityConfirmed, ResetOps
  <2> QED BY <1>3, <2>2, FinishKeepsMode
<1>6. CASE HearVariant(dur)
  <2> DEFINE v == [serial |-> belief.identity.serial, variant |-> sensor.variant]
             b == [belief EXCEPT !.identity.variant = v.variant,
                                 !.identity.epoch = belief.epoch]
             b2 == VariantChanged(belief, v)
  <2>1. \/ \E outcome, effect, a, at : FinishOperation(outcome, effect, b2, a, at)
        \/ \E outcome, effect, a, at : FinishOperation(outcome, effect, b, a, at)
    BY <1>6 DEF HearVariant
  <2>2. v.variant \in Variants
    BY DEF IInv, BusOK, Sensors
  <2>3. b2 \in Beliefs /\ ModeKept(b2)
    BY <1>1, <2>2, VariantChangedType, VariantChangedFields DEF ModeKept
  <2>4. b \in Beliefs /\ ModeKept(b)
    <3>1. ASSUME NEW x \in Variants, NEW e \in 0 .. MaxEpoch
          PROVE  LET c == [belief EXCEPT !.identity.variant = x, !.identity.epoch = e]
                 IN c \in Beliefs /\ c.attached = belief.attached /\ c.mode = belief.mode
      BY <1>1 DEF Beliefs, Identities
    <3>2. belief.epoch \in 0 .. MaxEpoch
      BY <1>1 DEF Beliefs
    <3> QED BY <1>1, <2>2, <3>1, <3>2 DEF ModeKept
  <2> HIDE DEF b, b2
  <2> QED BY <2>1, <2>3, <2>4, FinishKeepsMode
<1> QED BY <1>4, <1>5, <1>6

\* The word of a setting has been read.
LEMMA SettingKeepsMode ==
  ASSUME IInv, BeliefInv, activeValid, active.kind.op \in Observing,
         NEW dur \in Durations, HearInvalidSetting(dur) \/ HearSetting(dur)
  PROVE  ModeKept(belief')
<1> DEFINE f == FieldRead(active)
           b == ApplyReadValue(belief, f, sensor.ram[f])
<1>1. Answered(dur) /\ active.kind.op \in {"READ_SETTING", "READ_CONFIGURATION"}
  BY DEF HearInvalidSetting, HearSetting
<1>2. belief \in Beliefs /\ belief.attached /\ f \in Fields /\ sensor.ram[f] \in AnyWord
  BY <1>1, SettingGiven
<1>3. PICK id : id \in Readings
  BY IdentityReadType
<1>4. /\ b \in Beliefs /\ Unverify(belief, f) \in Beliefs
      /\ ModeKept(b) /\ ModeKept(Unverify(belief, f))
  BY <1>2, <1>3, SettingTypes, AnswersKeepMode
<1>5. \/ belief' = b
      \/ \E outcome, effect, a, at : FinishOperation(outcome, effect, b, a, at)
      \/ \E status, a, last, at :
           FinishOperationFailure(status, Unverify(belief, f), a, last, at)
  BY DEF HearInvalidSetting, HearSetting, Proceed
<1> HIDE DEF b
<1> QED BY <1>4, <1>5, FinishKeepsMode, FailureKeepsMode

\* No iteration for a request that observes changes the mode.
LEMMA IterationKeepsMode ==
  ASSUME IInv, BeliefInv, activeValid, active.kind.op \in Observing, LoopStep
  PROVE  ModeKept(belief')
<1>1. CASE \/ PollBreak \/ GateDefers \/ NotDue \/ WaitOver \/ CommandSettled
           \/ PersistShortcut \/ BudgetExhausted
  BY <1>1, QuietKeepsMode
<1>2. ASSUME NEW dur \in Durations, NEW r \in EffectfulOutcomes \cup PlainOutcomes,
             Send(r, dur) \/ SendLast(r, dur) \/ SendFails(r, dur) \/ ReadFails(r, dur)
      PROVE  ModeKept(belief')
  BY <1>2, SendKeepsMode, HearKeepsMode
<1>3. ASSUME NEW dur \in Durations,
             \/ HearSerial(dur) \/ IdentityRefused(dur) \/ IdentityConfirmed(dur)
             \/ HearVariant(dur) \/ HearInvalidSetting(dur) \/ HearSetting(dur)
             \/ HearPresentSetting(dur) \/ HearWrittenSetting(dur) \/ HearSample(dur)
             \/ \E verdict \in BOOLEAN :
                  HearAnswer(dur, verdict) \/ HearReady(dur, verdict)
      PROVE  ModeKept(belief')
  <2>1. ~HearPresentSetting(dur) /\ ~HearWrittenSetting(dur)
    BY ObservingKinds DEF HearPresentSetting, HearWrittenSetting
  <2> QED BY <1>3, <2>1, HearKeepsMode, IdentityKeepsMode, SettingKeepsMode
<1> QED BY <1>1, <1>2, <1>3 DEF LoopStep

\* Nor does a deadline that has passed ...
LEMMA EnterPollKeepsMode ==
  ASSUME IInv, NEW budget, NEW d, EnterPoll(budget, d)
  PROVE  ModeKept(belief')
<1>1. belief \in Beliefs /\ ModeKept(belief)
  BY DEF IInv, SlotOK, ModeKept
<1>2. \/ belief' = belief
      \/ FinishOperationFailure("TIMEOUT", belief, active, lastEffectful, d)
  BY DEF EnterPoll
<1> QED BY <1>1, <1>2, FailureKeepsMode

\* ... or a cancellation.
LEMMA CancelKeepsMode ==
  ASSUME IInv, NEW id, NEW d, Cancel(id, d)
  PROVE  ModeKept(belief')
<1> DEFINE b == IF active.callbacksUsed # 0 /\ active.attempted
                THEN MarkReconciliationRequired(belief) ELSE belief
<1>1. belief \in Beliefs /\ ModeKept(belief)
  BY DEF IInv, SlotOK, ModeKept
<1>2. b \in Beliefs /\ ModeKept(b)
  BY <1>1, MarkType, MarkFields DEF Unclaimed, ModeKept
<1>3. PICK effect, p :
        /\ FinishOperation("CANCELLED", effect, [b EXCEPT !.persistenceIndeterminate = p],
                           active, d)
        /\ p \in BOOLEAN
  <2>1. b.persistenceIndeterminate \in BOOLEAN
    BY <1>2 DEF Beliefs
  <2> HIDE DEF b
  <2> QED BY <2>1 DEF Cancel, b
<1> HIDE DEF b
<1> DEFINE b2 == [b EXCEPT !.persistenceIndeterminate = p]
<1>4. b2 \in Beliefs /\ b2.attached = b.attached /\ b2.mode = b.mode
  BY <1>2, <1>3 DEF Beliefs
<1>5. FinishOperation("CANCELLED", effect, b2, active, d)
  BY <1>3
<1> HIDE DEF b2
<1> QED BY <1>2, <1>4, <1>5, FinishKeepsMode DEF ModeKept
-----------------------------------------------------------------------------
(* The driver under this owner.                                            *)

DriverInv == IInv /\ SlotInv /\ BeliefInv

\* A step of the driver, with any deadline and a budget of one.
OwnedStep ==
  \/ [Next]_vars
  \/ \E k \in Kinds, id \in RequestIds, deadline \in Nat, d \in Advances :
       \E w \in IF k.op = "SET_SETTING" THEN Words ELSE {NoWord} :
         Start(k, id, w, deadline, d)
  \/ \E d \in Advances : EnterPoll(1, d)

\* The invariants of the driver do not depend on who its owner is.
LEMMA OwnedStepKeeps ==
  ASSUME DriverInv, OwnedStep
  PROVE  DriverInv'
<1>1. CASE [Next]_vars
  <2>1. IInv'
    <3>1. CASE Next
      BY <3>1, LoopInvariant, OwnerInvariant DEF Next, DriverInv
    <3>2. CASE UNCHANGED vars
      BY <3>2 DEF vars, driverVars, DriverInv, IInv, SlotOK, BusOK, PhasesLegal, InTime,
         Asked
    <3> QED BY <1>1, <3>1, <3>2
  <2>2. SlotInv' /\ BeliefInv'
    BY <1>1, SlotStep, NextClaims DEF DriverInv
  <2> QED BY <2>1, <2>2 DEF DriverInv
<1>2. ASSUME NEW k \in Kinds, NEW id \in RequestIds, NEW deadline \in Nat,
             NEW d \in Advances,
             NEW w \in IF k.op = "SET_SETTING" THEN Words ELSE {NoWord},
             Start(k, id, w, deadline, d)
      PROVE  DriverInv'
  <2>1. IInv'
    BY <1>2, StartStep DEF DriverInv
  <2>2. BeliefInv'
    BY <1>2, StartClaims DEF DriverInv
  <2>3. OwnerMove
    BY <1>2, StartMoves DEF DriverInv, SlotInv
  <2> QED BY <2>1, <2>2, <2>3, MovesKeepSlot DEF DriverInv
<1>3. ASSUME NEW d \in Advances, EnterPoll(1, d)
      PROVE  DriverInv'
  <2>1. IInv'
    BY <1>3, EnterPollStep DEF DriverInv
  <2>2. BeliefInv'
    BY <1>3, EnterPollClaims DEF DriverInv
  <2>3. OwnerMove
    BY <1>3, EnterPollMoves DEF DriverInv
  <2> QED BY <2>1, <2>2, <2>3, MovesKeepSlot DEF DriverInv
<1> QED BY <1>1, <1>2, <1>3 DEF OwnedStep

\* operationBudgetMs() is a deadline start() accepts.
LEMMA BudgetType ==
  ASSUME NEW k
  PROVE  OperationBudget(k) \in Nat
<1>1. \A n \in WaitNames : SettleMs[n] \in Nat
  BY WaitTypes
<1>2. ExecutionWait(k) \in Nat /\ PowerUpDelayMax \in Nat /\ TransferTimeout \in Nat
      /\ Margin \in Nat
  BY WaitTypes, CliAssumption
<1>3. MaxWaitMs(k, PowerUpDelayMax) \in Nat
  BY <1>1, <1>2 DEF MaxWaitMs, AttachWait, ConfigurationWait, WaitNames
<1>4. MaxCallbacks(k) \in Nat
  BY MaxCallbacksCases
<1> QED BY <1>2, <1>3, <1>4 DEF OperationBudget

\* startOperation() is a step of the driver or none.
LEMMA StartIsOwned ==
  ASSUME NEW k \in Kinds, nextRequestId \in RequestIds, NEW d \in Advances,
         NEW w \in IF k.op = "SET_SETTING" THEN Words ELSE {NoWord},
         StartOperation(k, w, d)
  PROVE  OwnedStep /\ nextRequestId' \in RequestIds
<1>1. CASE Startable(k, d)
  <2>1. Start(k, nextRequestId, w, OperationBudget(k), d)
    BY <1>1 DEF StartOperation
  <2>2. OperationBudget(k) \in Nat
    BY BudgetType
  <2> QED BY <2>1, <2>2, CliAssumption DEF StartOperation, OwnedStep
<1>2. CASE ~Startable(k, d)
  BY <1>2, CliAssumption DEF StartOperation, OwnedStep
<1> QED BY <1>1, <1>2
-----------------------------------------------------------------------------
(* The workflow.                                                           *)

Workflows ==
  [kind : WorkflowKinds \cup {"NONE"}, mode : Modes \cup {"UNKNOWN"}, id : Ids,
   operation : Kinds \cup {NoKind}, total : Nat, completed : Nat, passed : Nat,
   warnings : Nat, failed : Nat, waiting : BOOLEAN, finished : BOOLEAN,
   stopRequested : BOOLEAN]

\* The calls that can be left of an iteration while a workflow is active.
Rounds == {<< >>, <<"TAKE", "SERVICE", "COMMAND">>, <<"SERVICE", "COMMAND">>,
           <<"COMMAND">>, <<"SERVICE">>, <<"TAKE">>}

WorkflowOK(w) ==
  /\ w \in Workflows /\ ~w.finished
  /\ w.waiting => WorkflowActive(w) /\ w.operation.op \in Observing

OwnerInv ==
  /\ nextRequestId \in RequestIds
  /\ WorkflowOK(workflow)
  /\ WorkflowActive(workflow) => todo \in Rounds
  /\ WorkflowOwnsSlot /\ WorkflowModeKept

\* Whatever comes first in a round, a round is left.
LEMMA RoundGoesOn ==
  ASSUME todo \in Rounds, NEW call, At(call), Done
  PROVE  call \in {"TAKE", "SERVICE", "COMMAND"} /\ todo' \in Rounds
<1>1. \/ todo = <<"TAKE", "SERVICE", "COMMAND">> \/ todo = <<"SERVICE", "COMMAND">>
      \/ todo = <<"COMMAND">> \/ todo = <<"SERVICE">> \/ todo = <<"TAKE">>
  BY DEF At, Rounds
<1>2. /\ Tail(<<"TAKE", "SERVICE", "COMMAND">>) = <<"SERVICE", "COMMAND">>
      /\ Tail(<<"SERVICE", "COMMAND">>) = <<"COMMAND">>
      /\ Tail(<<"COMMAND">>) = << >> /\ Tail(<<"SERVICE">>) = << >>
      /\ Tail(<<"TAKE">>) = << >>
  OBVIOUS
<1>3. todo' \in Rounds
  BY <1>1, <1>2 DEF Done, Rounds
<1>4. Head(todo) \in {"TAKE", "SERVICE", "COMMAND"}
  BY <1>1
<1> QED BY <1>3, <1>4 DEF At

\* A cycle has a step.
LEMMA CycleLength ==
  ASSUME NEW kind \in WorkflowKinds, NEW mode
  PROVE  Len(CycleSteps(kind, mode)) \in Nat \ {0}
<1> DEFINE steps == CycleSteps(kind, mode)
<1>1. \/ \E a : steps = <<a>>
      \/ \E a, b, c : steps = <<a, b, c>>
      \/ \E a, b, c, d : steps = <<a, b, c, d>>
  BY DEF CycleSteps, WorkflowKinds
<1> HIDE DEF steps
<1>2. Len(steps) \in Nat \ {0}
  BY <1>1
<1> QED BY <1>2 DEF steps

\* The requests of a workflow observe.
LEMMA StepsObserve ==
  ASSUME NEW w \in Workflows, w.kind \in WorkflowKinds
  PROVE  OperationForStep(w) \in Kinds /\ OperationForStep(w).op \in Observing
<1> DEFINE steps == CycleSteps(w.kind, w.mode)
           Asked4 == {Kind("READ_DATA_READY"), Kind("READ_IDENTITY"),
                      Kind("READ_SENSOR_VARIANT"), Kind("READ_CONFIGURATION"),
                      Kind("SELF_TEST"), Kind("FETCH_SAMPLE"),
                      ReadSetting("AMBIENT_PRESSURE")}
<1>1. \/ steps = <<Kind("READ_DATA_READY")>>
      \/ steps = <<Kind("READ_IDENTITY"), Kind("READ_SENSOR_VARIANT"),
                   Kind("READ_CONFIGURATION"), Kind("SELF_TEST")>>
      \/ steps = <<Kind("READ_IDENTITY"), Kind("READ_CONFIGURATION"),
                   Kind("READ_SENSOR_VARIANT"), Kind("READ_DATA_READY")>>
      \/ steps = <<Kind("READ_DATA_READY"), Kind("FETCH_SAMPLE"),
                   ReadSetting("AMBIENT_PRESSURE")>>
  BY DEF CycleSteps, WorkflowKinds
<1> HIDE DEF steps
<1>2. /\ Len(steps) \in Nat \ {0}
      /\ \A i \in 1 .. Len(steps) : steps[i] \in Asked4
  <2>1. CASE steps = <<Kind("READ_DATA_READY")>>
    BY <2>1
  <2>2. CASE steps = <<Kind("READ_IDENTITY"), Kind("READ_SENSOR_VARIANT"),
                       Kind("READ_CONFIGURATION"), Kind("SELF_TEST")>>
    BY <2>2
  <2>3. CASE steps = <<Kind("READ_IDENTITY"), Kind("READ_CONFIGURATION"),
                       Kind("READ_SENSOR_VARIANT"), Kind("READ_DATA_READY")>>
    BY <2>3
  <2>4. CASE steps = <<Kind("READ_DATA_READY"), Kind("FETCH_SAMPLE"),
                       ReadSetting("AMBIENT_PRESSURE")>>
    BY <2>4
  <2> QED BY <1>1, <2>1, <2>2, <2>3, <2>4
<1>3. \A k \in Asked4 : k \in Kinds /\ k.op \in Observing
  BY DEF Kinds, Kind, ReadSetting, PlainOps, ReadOps, MaintenanceOps, MeasurementOps,
     Fields, Observing
<1>4. (w.completed % Len(steps)) + 1 \in 1 .. Len(steps)
  BY <1>2 DEF Workflows
<1>5. OperationForStep(w) = steps[(w.completed % Len(steps)) + 1]
  BY DEF OperationForStep, steps
<1> HIDE DEF Asked4
<1> QED BY <1>2, <1>3, <1>4, <1>5 DEF steps

\* A finished workflow is forgotten.
LEMMA NoWorkflowOK ==
  /\ NoWorkflow \in Workflows /\ WorkflowOK(NoWorkflow) /\ ~WorkflowActive(NoWorkflow)
  /\ NoWorkflow.waiting = FALSE /\ NoWorkflow.finished = FALSE
<1>1. NoKind.op = "NONE" /\ NoId \in Ids /\ NoId = NoWorkflow.id
  BY DriverAssumption DEF NoKind, Kind, NoId, Ids, NoWorkflow
<1>2. NoWorkflow \in Workflows
  BY <1>1 DEF NoWorkflow, Workflows
<1>3. ~NoWorkflow.finished /\ ~NoWorkflow.waiting /\ ~WorkflowActive(NoWorkflow)
  BY DEF NoWorkflow, WorkflowActive
<1>4. NoWorkflow.waiting = FALSE /\ NoWorkflow.finished = FALSE
  BY DEF NoWorkflow
<1> QED BY <1>2, <1>3, <1>4 DEF WorkflowOK

LEMMA ReportedFields ==
  ASSUME NEW w \in Workflows
  PROVE  /\ w.finished => Reported(w) = NoWorkflow
         /\ ~w.finished => Reported(w) = w
  BY DEF Reported

\* begin().
LEMMA BegunFields ==
  ASSUME NEW kind \in WorkflowKinds, NEW cycles \in Nat, NEW mode \in Modes
  PROVE  LET w == Begun(kind, cycles, mode)
         IN WorkflowOK(w) /\ ~w.waiting /\ w.mode = mode /\ WorkflowActive(w)
<1> DEFINE n == Len(CycleSteps(kind, mode))
           total == n * IF kind = "SELFCHECK" THEN 1 ELSE cycles
           Named(t) == [NoWorkflow EXCEPT !.kind = kind, !.mode = mode, !.total = t]
<1>1. total \in Nat
  BY CycleLength
<1>2. Begun(kind, cycles, mode) = Named(total)
  BY DEF Begun
<1>3. ASSUME NEW t \in Nat
      PROVE  /\ Named(t) \in Workflows /\ Named(t).waiting = FALSE
             /\ Named(t).finished = FALSE
             /\ Named(t).kind = kind /\ Named(t).mode = mode
  BY NoWorkflowOK DEF Workflows
<1> HIDE DEF total, Named
<1> DEFINE w == Named(total)
<1>4. /\ w \in Workflows /\ w.waiting = FALSE /\ w.finished = FALSE
      /\ w.kind = kind /\ w.mode = mode
  BY <1>1, <1>3
<1>5. kind # "NONE"
  BY DEF WorkflowKinds
<1> HIDE DEF w
<1>6. WorkflowOK(w) /\ ~w.waiting /\ w.mode = mode /\ WorkflowActive(w)
  BY <1>4, <1>5 DEF WorkflowOK, WorkflowActive
<1> QED BY <1>2, <1>6 DEF w

\* markStarted(): what the loop waits for is what it has asked for.
LEMMA StartedFields ==
  ASSUME NEW w, WorkflowOK(w), HasNext(w), NEW id \in Ids
  PROVE  LET k == OperationForStep(w)
             w2 == MarkStarted(w, id, k)
         IN /\ WorkflowOK(w2) /\ w2.waiting /\ w2.id = id /\ w2.operation = k
            /\ w2.mode = w.mode /\ w2.kind = w.kind
<1> DEFINE k == OperationForStep(w)
           Waits(i, o) == [w EXCEPT !.id = i, !.operation = o, !.waiting = TRUE]
<1>1. /\ w \in Workflows /\ WorkflowActive(w) /\ ~w.waiting /\ ~w.finished
      /\ w.kind \in WorkflowKinds
  BY DEF WorkflowOK, HasNext, WorkflowActive, Workflows
<1>2. k \in Kinds /\ k.op \in Observing
  BY <1>1, StepsObserve
<1>3. MarkStarted(w, id, k) = Waits(id, k)
  BY <1>1 DEF MarkStarted
<1>4. ASSUME NEW o \in Kinds, o.op \in Observing
      PROVE  LET w2 == Waits(id, o)
             IN /\ WorkflowOK(w2) /\ w2.waiting /\ w2.id = id /\ w2.operation = o
                /\ w2.mode = w.mode /\ w2.kind = w.kind
  <2> DEFINE w2 == Waits(id, o)
  <2>1. /\ w2 \in Workflows /\ w2.waiting = TRUE /\ w2.id = id /\ w2.operation = o
        /\ w2.mode = w.mode /\ w2.kind = w.kind /\ w2.finished = w.finished
    BY <1>1, <1>4 DEF Workflows
  <2> HIDE DEF w2
  <2>2. WorkflowOK(w2)
    BY <1>1, <1>4, <2>1 DEF WorkflowOK, WorkflowActive
  <2> QED BY <2>1, <2>2 DEF w2
<1> HIDE DEF k, Waits
<1>5. LET w2 == Waits(id, k)
      IN /\ WorkflowOK(w2) /\ w2.waiting /\ w2.id = id /\ w2.operation = k
         /\ w2.mode = w.mode /\ w2.kind = w.kind
  BY <1>2, <1>4
<1> QED BY <1>3, <1>5 DEF k

\* acceptResult(): a result that is accepted ends the wait.
LEMMA AcceptedFields ==
  ASSUME NEW w, WorkflowOK(w), NEW result, AcceptsResult(w, result)
  PROVE  LET w2 == Reported(AcceptResult(w, result))
         IN /\ WorkflowOK(w2) /\ ~w2.waiting
            /\ WorkflowActive(w2) => w2.mode = w.mode /\ WorkflowActive(w)
<1> DEFINE passes == result.outcome = "SUCCEEDED"
           warns == result.outcome = "NO_DATA" /\ result.kind.op = "FETCH_SAMPLE"
           done == w.stopRequested \/ w.completed + 1 >= w.total
           c == w.completed + 1
           p == IF passes THEN w.passed + 1 ELSE w.passed
           n == IF warns THEN w.warnings + 1 ELSE w.warnings
           f == IF passes \/ warns THEN w.failed ELSE w.failed + 1
           w2 == AcceptResult(w, result)
<1>1. w \in Workflows /\ WorkflowActive(w)
  BY DEF WorkflowOK, AcceptsResult
<1>2. w2 = [w EXCEPT !.waiting = FALSE, !.completed = c, !.passed = p,
                     !.warnings = n, !.failed = f, !.finished = done]
  BY DEF AcceptResult
<1>3. c \in Nat /\ p \in Nat /\ n \in Nat /\ f \in Nat
  BY <1>1 DEF Workflows
<1>4. done \in BOOLEAN
  <2> HIDE DEF c
  <2> QED BY <1>1 DEF Workflows
<1> HIDE DEF c, p, n, f, done, w2
<1>5. w2 \in Workflows /\ w2.waiting = FALSE /\ w2.mode = w.mode
  BY <1>1, <1>2, <1>3, <1>4 DEF Workflows
<1>6. CASE w2.finished
  <2>1. Reported(w2) = NoWorkflow
    BY <1>5, <1>6, ReportedFields
  <2> QED BY <2>1, NoWorkflowOK DEF w2
<1>7. CASE ~w2.finished
  <2>1. Reported(w2) = w2
    BY <1>5, <1>7, ReportedFields
  <2>2. WorkflowOK(w2)
    BY <1>5, <1>7 DEF WorkflowOK
  <2> QED BY <1>1, <1>5, <2>1, <2>2 DEF w2
<1> QED BY <1>6, <1>7

\* requestStop(): the request a workflow waits for stays its request.
LEMMA StoppedFields ==
  ASSUME NEW w, WorkflowOK(w)
  PROVE  LET w2 == Reported(RequestStop(w))
         IN /\ WorkflowOK(w2)
            /\ WorkflowActive(w2) =>
                 /\ WorkflowActive(w) /\ w.waiting /\ w2.waiting = w.waiting
                 /\ w2.id = w.id /\ w2.operation = w.operation /\ w2.mode = w.mode
<1> DEFINE Stops(e) == [w EXCEPT !.stopRequested = TRUE, !.finished = e]
<1>1. w \in Workflows /\ w.waiting \in BOOLEAN /\ ~w.finished
  BY DEF WorkflowOK, Workflows
<1>2. ASSUME NEW e \in BOOLEAN
      PROVE  /\ Stops(e) \in Workflows /\ Stops(e).finished = e
             /\ Stops(e).waiting = w.waiting /\ Stops(e).kind = w.kind
             /\ Stops(e).id = w.id /\ Stops(e).operation = w.operation
             /\ Stops(e).mode = w.mode
  BY <1>1 DEF Workflows
<1>3. CASE ~WorkflowActive(w)
  <2>1. Reported(RequestStop(w)) = w
    BY <1>1, <1>3, ReportedFields DEF RequestStop
  <2> QED BY <1>3, <2>1
<1>4. CASE WorkflowActive(w) /\ ~w.waiting
  <2>1. RequestStop(w) = Stops(TRUE)
    BY <1>1, <1>4 DEF RequestStop
  <2> HIDE DEF Stops
  <2>2. Stops(TRUE) \in Workflows /\ Stops(TRUE).finished = TRUE
    BY <1>2
  <2>3. Reported(RequestStop(w)) = NoWorkflow
    BY <2>1, <2>2, ReportedFields
  <2> QED BY <2>3, NoWorkflowOK
<1>5. CASE WorkflowActive(w) /\ w.waiting
  <2> DEFINE w2 == Stops(FALSE)
  <2>1. RequestStop(w) = w2
    BY <1>1, <1>5 DEF RequestStop
  <2> HIDE DEF Stops
  <2>2. /\ w2 \in Workflows /\ w2.finished = FALSE
        /\ w2.waiting = w.waiting /\ w2.kind = w.kind /\ w2.id = w.id
        /\ w2.operation = w.operation /\ w2.mode = w.mode
    BY <1>2
  <2> HIDE DEF w2
  <2>3. Reported(RequestStop(w)) = w2
    BY <2>1, <2>2, ReportedFields
  <2>4. WorkflowOK(w2)
    BY <1>5, <2>2 DEF WorkflowOK, WorkflowActive
  <2> QED BY <1>5, <2>2, <2>3, <2>4
<1> QED BY <1>3, <1>4, <1>5

\* markStartFailure(): a refused request ends the workflow.
LEMMA RefusedFields ==
  ASSUME NEW w, WorkflowOK(w), HasNext(w)
  PROVE  Reported(MarkStartFailure(w)) = NoWorkflow
  BY DEF HasNext, MarkStartFailure, Reported, WorkflowOK, Workflows
-----------------------------------------------------------------------------
(* The calls of the loop.                                                  *)

\* Most calls are out of the question while a workflow is active.
LEMMA InactiveStays ==
  ASSUME OwnerInv, ~WorkflowActive(workflow), UNCHANGED workflow,
         nextRequestId' \in RequestIds
  PROVE  OwnerInv'
<1>1. WorkflowOK(workflow') /\ ~WorkflowActive(workflow')
  BY DEF OwnerInv
<1> QED BY <1>1 DEF OwnerInv, WorkflowOwnsSlot, WorkflowModeKept

\* A call that comes to nothing.
LEMMA NothingHappens ==
  ASSUME OwnerInv, UNCHANGED <<vars, workflow, nextRequestId>>,
         WorkflowActive(workflow) => todo' \in Rounds
  PROVE  OwnerInv'
<1>1. UNCHANGED <<belief, activeValid, active, terminalValid, terminal>>
  BY DEF vars, driverVars
<1>2. /\ nextRequestId' \in RequestIds /\ WorkflowOK(workflow')
      /\ WorkflowActive(workflow') => todo' \in Rounds
  BY DEF OwnerInv
<1>3. WorkflowOwnsSlot'
  BY <1>1 DEF OwnerInv, WorkflowOwnsSlot, SlotIdle
<1>4. WorkflowModeKept'
  BY <1>1 DEF OwnerInv, WorkflowModeKept
<1> QED BY <1>2, <1>3, <1>4 DEF OwnerInv

\* The request a workflow waits for goes on or ends, and stays its request.
LEMMA RequestGoesOn ==
  ASSUME DriverInv, OwnerInv, NEW n \in {0, 1}, GoesOn(n) \/ Ends(n),
         nextRequestId' \in RequestIds, WorkflowOK(workflow'),
         WorkflowActive(workflow') =>
           /\ WorkflowActive(workflow) /\ workflow'.waiting = workflow.waiting
           /\ workflow'.id = workflow.id /\ workflow'.operation = workflow.operation
           /\ workflow'.mode = workflow.mode
           /\ todo' \in Rounds /\ ModeKept(belief')
  PROVE  OwnerInv'
<1>1. ~(activeValid /\ terminalValid)
  BY DEF DriverInv, SlotInv, Counted
<1>2. ASSUME WorkflowActive(workflow')
      PROVE  IF ~workflow'.waiting THEN SlotIdle'
             ELSE \/ activeValid' /\ active'.id = workflow'.id
                       /\ active'.kind = workflow'.operation
                  \/ terminalValid' /\ terminal'.id = workflow'.id
                       /\ terminal'.kind = workflow'.operation
  <2>1. CASE ~workflow.waiting
    BY <1>2, <2>1 DEF OwnerInv, WorkflowOwnsSlot, SlotIdle, GoesOn, Ends
  <2>2. CASE workflow.waiting
    <3>1. /\ workflow'.waiting
          /\ workflow'.id = workflow.id /\ workflow'.operation = workflow.operation
      BY <1>2, <2>2
    <3>2. \/ activeValid /\ active.id = workflow.id /\ active.kind = workflow.operation
          \/ terminalValid /\ terminal.id = workflow.id
               /\ terminal.kind = workflow.operation
      BY <1>2, <2>2 DEF OwnerInv, WorkflowOwnsSlot
    <3>3. CASE GoesOn(n)
      BY <3>1, <3>2, <3>3 DEF GoesOn
    <3>4. CASE Ends(n)
      BY <1>1, <3>1, <3>2, <3>4 DEF Ends
    <3> QED BY <3>3, <3>4
  <2> QED BY <2>1, <2>2
<1>3. WorkflowActive(workflow') /\ belief'.attached => belief'.mode = workflow'.mode
  BY DEF OwnerInv, WorkflowModeKept, ModeKept
<1>4. WorkflowOwnsSlot' /\ WorkflowModeKept'
  BY <1>2, <1>3 DEF WorkflowOwnsSlot, WorkflowModeKept
<1> QED BY <1>4 DEF OwnerInv

\* pollDriver(): the call, ...
LEMMA PollOwned ==
  ASSUME DriverInv, OwnerInv, Poll
  PROVE  OwnedStep /\ OwnerInv'
<1>1. PICK d \in Advances : EnterPoll(1, d)
  BY DEF Poll
<1>2. /\ UNCHANGED <<workflow, nextRequestId>>
      /\ todo' = <<"TAKE", "SERVICE", "COMMAND">> /\ todo' \in Rounds
  BY DEF Poll, Rounds
<1>3. GoesOn(0) \/ Ends(0)
  BY <1>1, EnterPollMoves DEF DriverInv
<1>4. ModeKept(belief')
  BY <1>1, EnterPollKeepsMode DEF DriverInv
<1>5. WorkflowOK(workflow') /\ nextRequestId' \in RequestIds
  BY <1>2 DEF OwnerInv
<1> QED BY <1>1, <1>2, <1>3, <1>4, <1>5, RequestGoesOn DEF OwnedStep

\* ... and its iterations: a request that observes keeps the mode.
LEMMA PollingOwned ==
  ASSUME DriverInv, OwnerInv, Polling
  PROVE  OwnedStep /\ OwnerInv'
<1>1. LoopStep /\ UNCHANGED <<workflow, nextRequestId, todo>>
  BY DEF Polling, cliVars
<1>2. WorkflowOK(workflow') /\ nextRequestId' \in RequestIds
  BY <1>1 DEF OwnerInv
<1>3. QuietMove \/ CallMove
  BY <1>1, LoopMoves DEF DriverInv
<1>4. PICK n \in {0, 1} : GoesOn(n) \/ Ends(n)
  BY <1>3 DEF QuietMove, CallMove
<1>5. activeValid /\ ~terminalValid
  BY <1>3 DEF QuietMove, CallMove, Calling, DriverInv, IInv, SlotOK, InTime, SlotInv,
              Counted
<1>6. ASSUME WorkflowActive(workflow)
      PROVE  ModeKept(belief') /\ todo' \in Rounds
  <2>1. active.kind.op \in Observing
    BY <1>5, <1>6 DEF OwnerInv, WorkflowOK, WorkflowOwnsSlot, SlotIdle
  <2> QED BY <1>1, <1>5, <1>6, <2>1, IterationKeepsMode DEF DriverInv, OwnerInv
<1>7. OwnerInv'
  BY <1>1, <1>2, <1>4, <1>6, RequestGoesOn
<1> QED BY <1>1, <1>7 DEF OwnedStep, Next

\* takeAndPrint(): a workflow that waits gets its own result.
LEMMA TakeOwned ==
  ASSUME DriverInv, OwnerInv, Take
  PROVE  OwnedStep /\ OwnerInv'
<1>1. At("TAKE") /\ Done /\ UNCHANGED nextRequestId /\ nextRequestId' \in RequestIds
  BY DEF Take, OwnerInv
<1>2. WorkflowActive(workflow) => todo' \in Rounds
  BY <1>1, RoundGoesOn DEF OwnerInv
<1>3. CASE ~terminalValid
  <2>1. UNCHANGED <<vars, workflow>>
    BY <1>3 DEF Take
  <2> QED BY <1>1, <1>2, <2>1, NothingHappens DEF OwnedStep
<1>4. CASE terminalValid /\ AcceptsResult(workflow, terminal)
  <2>1. TakeResult(terminal.id) /\ workflow' = Reported(AcceptResult(workflow, terminal))
    BY <1>4 DEF Take
  <2>2. /\ WorkflowOK(workflow') /\ ~workflow'.waiting
        /\ WorkflowActive(workflow') =>
             workflow'.mode = workflow.mode /\ WorkflowActive(workflow)
    BY <1>4, <2>1, AcceptedFields DEF OwnerInv
  <2>3. SlotIdle' /\ UNCHANGED belief
    BY <1>4, <2>1 DEF TakeResult, DriverInv, SlotInv, Counted, SlotIdle
  <2>4. WorkflowOwnsSlot'
    BY <2>2, <2>3 DEF WorkflowOwnsSlot
  <2>5. WorkflowModeKept'
    BY <2>2, <2>3 DEF OwnerInv, WorkflowModeKept
  <2>6. OwnerInv'
    BY <1>1, <1>2, <2>2, <2>4, <2>5 DEF OwnerInv
  <2> QED BY <2>1, <2>6 DEF OwnedStep, Next, OwnerCall
<1>5. CASE terminalValid /\ ~AcceptsResult(workflow, terminal)
  <2>1. TakeResult(terminal.id) /\ workflow' = Reported(workflow)
    BY <1>5 DEF Take, AcceptResult
  <2>2. UNCHANGED workflow
    BY <2>1, ReportedFields DEF OwnerInv, WorkflowOK
  <2>3. ~WorkflowActive(workflow)
    BY <1>5 DEF OwnerInv, WorkflowOwnsSlot, SlotIdle, AcceptsResult, DriverInv, SlotInv,
                Counted
  <2> QED BY <1>1, <2>1, <2>2, <2>3, InactiveStays DEF OwnedStep, Next, OwnerCall
<1> QED BY <1>3, <1>4, <1>5

\* serviceWorkflow(): a request is started, or ends the workflow.
LEMMA ServiceOwned ==
  ASSUME DriverInv, OwnerInv, NEW d \in Advances, Service(d)
  PROVE  OwnedStep /\ OwnerInv'
<1> DEFINE k == OperationForStep(workflow)
           id == [requestId |-> nextRequestId, generation |-> nextGeneration]
<1>1. At("SERVICE") /\ Done /\ nextRequestId \in RequestIds
  BY DEF Service, OwnerInv
<1>2. WorkflowActive(workflow) => todo' \in Rounds
  BY <1>1, RoundGoesOn DEF OwnerInv
<1>3. CASE ~(HasNext(workflow) /\ SlotIdle /\ nextSafe <= d)
  <2>1. UNCHANGED <<vars, workflow, nextRequestId>>
    BY <1>3 DEF Service
  <2> QED BY <1>2, <2>1, NothingHappens DEF OwnedStep
<1>4. CASE HasNext(workflow) /\ SlotIdle /\ nextSafe <= d
  <2>1. WorkflowOK(workflow) /\ WorkflowActive(workflow)
    BY <1>4 DEF OwnerInv, HasNext
  <2>2. k \in Kinds /\ k.op \in Observing
    BY <2>1, StepsObserve DEF WorkflowOK, WorkflowActive, Workflows
  <2>3. StartOperation(k, NoWord, d) /\ NoWord \in {NoWord}
    BY <1>4 DEF Service
  <2>4. k.op # "SET_SETTING"
    BY <2>2, ObservingKinds
  <2>5. OwnedStep /\ nextRequestId' \in RequestIds
    BY <1>1, <2>2, <2>3, <2>4, StartIsOwned
  <2>6. CASE Startable(k, d)
    <3>1. workflow' = MarkStarted(workflow, id, k)
      BY <1>4, <2>6 DEF Service
    <3>2. /\ activeValid' = TRUE /\ active'.kind = k /\ active'.id = id
          /\ UNCHANGED belief
      BY <2>3, <2>6, ZenonT(60) DEF StartOperation, Start, NoOperation
    <3>3. id \in Ids
      BY <1>1 DEF DriverInv, IInv, BusOK, Ids
    <3> HIDE DEF id
    <3>4. /\ WorkflowOK(workflow') /\ workflow'.waiting /\ workflow'.id = id
          /\ workflow'.operation = k /\ workflow'.mode = workflow.mode
      BY <1>4, <2>1, <3>1, <3>3, StartedFields
    <3> HIDE DEF k
    <3>5. WorkflowOwnsSlot'
      BY <3>2, <3>4 DEF WorkflowOwnsSlot
    <3>6. WorkflowModeKept'
      BY <2>1, <3>2, <3>4 DEF OwnerInv, WorkflowModeKept
    <3>7. OwnerInv'
      BY <1>2, <2>1, <2>5, <3>4, <3>5, <3>6 DEF OwnerInv
    <3> QED BY <2>5, <3>7
  <2>7. CASE ~Startable(k, d)
    <3>1. workflow' = NoWorkflow
      BY <1>4, <2>1, <2>7, RefusedFields DEF Service
    <3>2. WorkflowOK(workflow') /\ ~WorkflowActive(workflow')
      BY <3>1, NoWorkflowOK
    <3>3. OwnerInv'
      BY <2>5, <3>2 DEF OwnerInv, WorkflowOwnsSlot, WorkflowModeKept
    <3> QED BY <2>5, <3>3
  <2> QED BY <2>6, <2>7
<1> QED BY <1>3, <1>4

\* bindDriver(), end(), and the requests of startup: not in a round.
LEMMA BindingOwned ==
  ASSUME DriverInv, OwnerInv,
         Bind \/ Unbinding \/ \E d \in Advances : Attach(d) \/ Probe(d)
  PROVE  OwnedStep /\ OwnerInv'
<1>1. PICK call \in {"BIND", "END", "ATTACH", "PROBE"} : At(call) /\ Done
  BY DEF Bind, Unbinding, Attach, Probe
<1>2. ~WorkflowActive(workflow) /\ UNCHANGED workflow
  BY <1>1, RoundGoesOn DEF OwnerInv, Bind, Unbinding, Attach, Probe
<1>3. nextRequestId \in RequestIds
  BY DEF OwnerInv
<1>4. ASSUME NEW d \in Advances, NEW k \in Kinds, k.op # "SET_SETTING",
             StartOperation(k, NoWord, d)
      PROVE  OwnedStep /\ nextRequestId' \in RequestIds
  BY <1>3, <1>4, StartIsOwned
<1>5. Kind("ATTACH") \in Kinds /\ Kind("READ_IDENTITY") \in Kinds
  BY DEF Kinds, Kind, PlainOps, ReadOps
<1>6. ASSUME NEW d \in Advances, Attach(d) PROVE OwnedStep /\ OwnerInv'
  <2>1. OwnedStep /\ nextRequestId' \in RequestIds
    BY <1>4, <1>5, <1>6 DEF Attach, Kind
  <2> QED BY <1>2, <2>1, InactiveStays
<1>7. ASSUME NEW d \in Advances, Probe(d) PROVE OwnedStep /\ OwnerInv'
  <2>1. OwnedStep /\ nextRequestId' \in RequestIds
    BY <1>4, <1>5, <1>7 DEF Probe, Kind
  <2> QED BY <1>2, <2>1, InactiveStays
<1>8. CASE Bind \/ Unbinding
  <2>1. OwnedStep /\ UNCHANGED nextRequestId
    BY <1>8 DEF Bind, Unbinding, OwnedStep, Next, OwnerCall
  <2> QED BY <1>2, <1>3, <2>1, InactiveStays
<1> QED BY <1>6, <1>7, <1>8

\* cancel: the request of a workflow is cancelled, but stays its request.
LEMMA CancelOwned ==
  ASSUME DriverInv, OwnerInv, NEW d \in Advances, CancelCommand(d)
  PROVE  OwnedStep /\ OwnerInv'
<1>1. At("COMMAND") /\ UNCHANGED nextRequestId /\ workflow' = Reported(RequestStop(workflow))
  BY DEF CancelCommand
<1>2. /\ WorkflowOK(workflow')
      /\ WorkflowActive(workflow') =>
           /\ WorkflowActive(workflow) /\ workflow'.waiting = workflow.waiting
           /\ workflow'.id = workflow.id /\ workflow'.operation = workflow.operation
           /\ workflow'.mode = workflow.mode
  BY <1>1, StoppedFields DEF OwnerInv
<1>3. nextRequestId' \in RequestIds
  BY <1>1 DEF OwnerInv
<1>4. CASE activeValid /\ (WorkflowActive(workflow) => workflow.waiting)
  <2>1. Cancel(active.id, d) /\ todo' = <<"TAKE">> /\ todo' \in Rounds
    BY <1>4 DEF CancelCommand, Rounds
  <2>2. Ends(0)
    BY <2>1, CancelMoves DEF DriverInv
  <2>3. ModeKept(belief')
    BY <2>1, CancelKeepsMode DEF DriverInv
  <2>4. OwnerInv'
    BY <1>2, <1>3, <2>1, <2>2, <2>3, RequestGoesOn
  <2> QED BY <2>1, <2>4 DEF OwnedStep, Next, OwnerCall
<1>5. CASE ~(activeValid /\ (WorkflowActive(workflow) => workflow.waiting))
  <2>1. UNCHANGED vars /\ Done
    BY <1>5 DEF CancelCommand
  <2>2. GoesOn(0) /\ ModeKept(belief')
    BY <2>1, UnchangedGoesOn DEF vars, driverVars, DriverInv, ModeKept
  <2>3. WorkflowActive(workflow) => todo' \in Rounds
    BY <1>1, <2>1, RoundGoesOn DEF OwnerInv
  <2>4. OwnerInv'
    BY <1>2, <1>3, <2>2, <2>3, RequestGoesOn
  <2> QED BY <2>1, <2>4 DEF OwnedStep
<1> QED BY <1>4, <1>5

\* The other commands.
LEMMA CommandOwned ==
  ASSUME DriverInv, OwnerInv, ProcessCommand
  PROVE  OwnedStep /\ OwnerInv'
<1>1. At("COMMAND") /\ nextRequestId \in RequestIds
  BY DEF OwnerInv, ProcessCommand, NoCommand, BeginCommand, EndCommand, ProbeCommand, Obey,
         Scan, CancelCommand, Request, StartWorkflow
<1>2. CASE NoCommand
  <2>1. WorkflowActive(workflow) => todo' \in Rounds
    BY <1>1, <1>2, RoundGoesOn DEF OwnerInv, NoCommand
  <2> QED BY <1>2, <2>1, NothingHappens DEF NoCommand, OwnedStep
<1>3. CASE BeginCommand \/ EndCommand \/ ProbeCommand \/ \E d \in Advances : Scan(d)
  <2>1. ~WorkflowActive(workflow) /\ UNCHANGED <<vars, workflow, nextRequestId>>
    BY <1>3 DEF BeginCommand, EndCommand, ProbeCommand, Obey, Scan
  <2> QED BY <2>1, NothingHappens DEF OwnedStep
<1>4. ASSUME NEW d \in Advances, NEW k \in UsedKinds, Request(k, d)
      PROVE  OwnedStep /\ OwnerInv'
  <2>1. PICK w \in IF k.op = "SET_SETTING" THEN Words ELSE {NoWord} :
          StartOperation(k, w, d)
    BY <1>4 DEF Request
  <2>2. OwnedStep /\ nextRequestId' \in RequestIds
    BY <1>1, <2>1, StartIsOwned, DriverAssumption
  <2> QED BY <1>4, <2>2, InactiveStays DEF Request
<1>5. ASSUME NEW kind \in WorkflowKinds, NEW cycles \in Cycles, StartWorkflow(kind, cycles)
      PROVE  OwnedStep /\ OwnerInv'
  <2>1. /\ SlotIdle /\ UNCHANGED <<vars, nextRequestId>>
        /\ todo' = <<"SERVICE">> /\ todo' \in Rounds
        /\ workflow' = Begun(kind, cycles, belief.mode)
    BY <1>5 DEF StartWorkflow, Rounds
  <2>2. belief.mode \in Modes /\ cycles \in Nat
    BY <1>5, CliAssumption DEF StartWorkflow, CanBegin, Modes
  <2>3. /\ WorkflowOK(workflow') /\ ~workflow'.waiting
        /\ workflow'.mode = belief.mode
    BY <2>1, <2>2, BegunFields
  <2>4. SlotIdle' /\ UNCHANGED belief
    BY <2>1 DEF vars, driverVars, SlotIdle
  <2>5. WorkflowOwnsSlot' /\ WorkflowModeKept'
    BY <2>3, <2>4 DEF WorkflowOwnsSlot, WorkflowModeKept
  <2>6. OwnerInv'
    BY <1>1, <2>1, <2>3, <2>5 DEF OwnerInv
  <2> QED BY <2>1, <2>6 DEF OwnedStep
<1> QED BY <1>2, <1>3, <1>4, <1>5, CancelOwned DEF ProcessCommand

\* Every call of the loop is a step of the driver, and keeps the invariants.
LEMMA LoopKeeps ==
  ASSUME DriverInv, OwnerInv, [CliNext]_allVars
  PROVE  DriverInv' /\ OwnerInv'
<1>1. CASE UNCHANGED allVars
  <2>1. UNCHANGED <<vars, workflow, nextRequestId, todo>>
    BY <1>1 DEF allVars, cliVars
  <2>2. OwnerInv'
    BY <2>1, NothingHappens DEF OwnerInv
  <2> QED BY <2>1, <2>2, OwnedStepKeeps DEF OwnedStep
<1>2. CASE CliNext
  <2>1. OwnedStep /\ OwnerInv'
    BY <1>2, PollOwned, PollingOwned, TakeOwned, ServiceOwned, BindingOwned, CommandOwned
       DEF CliNext
  <2> QED BY <2>1, OwnedStepKeeps
<1> QED BY <1>1, <1>2

LEMMA LoopBegins ==
  ASSUME CliInit
  PROVE  DriverInv /\ OwnerInv
<1>1. DriverInv
  BY InitialInvariant, SlotBegins, InitialClaims DEF CliInit, DriverInv
<1>2. WorkflowOK(workflow) /\ ~WorkflowActive(workflow) /\ nextRequestId \in RequestIds
  BY NoWorkflowOK, CliAssumption DEF CliInit
<1> QED BY <1>1, <1>2 DEF OwnerInv, WorkflowOwnsSlot, WorkflowModeKept
-----------------------------------------------------------------------------
(* What follows.                                                           *)

\* The invariants of the driver hold under this owner too, with the deadlines
\* it computes from the published limits; and its own invariant holds.
THEOREM LoopInvariance == CliSpec => [](DriverInv /\ OwnerInv)
<1>1. CliInit => DriverInv /\ OwnerInv
  BY LoopBegins
<1>2. DriverInv /\ OwnerInv /\ [CliNext]_allVars => (DriverInv /\ OwnerInv)'
  BY LoopKeeps
<1> QED BY <1>1, <1>2, PTL DEF CliSpec

\* A workflow that is active has the slot to itself: it waits for exactly the
\* request or the result that is there, and for nothing while the slot is
\* empty, across cancellations, refused starts and passed deadlines.
THEOREM WorkflowIsAlone == CliSpec => []WorkflowOwnsSlot
<1>1. OwnerInv => WorkflowOwnsSlot
  BY DEF OwnerInv
<1> QED BY <1>1, LoopInvariance, PTL

\* No request of a workflow is refused for the sensor's mode: the seven kinds
\* it asks for leave the mode alone, and no other request comes in between.
THEOREM StepsFitTheMode == CliSpec => []WorkflowModeKept
<1>1. OwnerInv => WorkflowModeKept
  BY DEF OwnerInv
<1> QED BY <1>1, LoopInvariance, PTL

\* The bus is scanned only when the sensor has finished what it was told: the
\* gate the owner asks for outlasts the sensor's business.
THEOREM ScanMeetsNoBusySensor == CliSpec => ScanWhenQuiet
<1>1. DriverInv => [\A d \in Advances : Scan(d) => truth.busy <= d]_allVars
  <2>1. SUFFICES ASSUME DriverInv, NEW d \in Advances, Scan(d)
                 PROVE  truth.busy <= d
    OBVIOUS
  <2>2. nextSafe <= d /\ truth.busy <= nextSafe
    BY <2>1 DEF Scan, DriverInv, SlotInv, Settled
  <2>3. nextSafe \in Nat /\ truth.busy \in Nat /\ d \in Nat
    BY <2>1, DriverAssumption DEF DriverInv, IInv, BusOK, Truths
  <2> QED BY <2>2, <2>3
<1> QED BY <1>1, LoopInvariance, PTL DEF ScanWhenQuiet
-----------------------------------------------------------------------------
(* The deadlines the owner computes are enough.                            *)

\* By how much the owner's rounds may be longer than a tick.
Slack(k) == (Margin - 2) \div (MaxCallbacks(k) + 1)

\* The waits that are left of an operation after c calls ...
ShortLeft(k, c) == IF c + 1 < MaxCallbacks(k)
                   THEN (MaxCallbacks(k) - 1 - c) * SettleMs["SHORT"] ELSE 0
WaitLeft(k, c) ==
  IF c = 0 THEN MaxWaitMs(k, 0)
  ELSE IF k.op = "ATTACH" /\ c = 1 THEN SettleMs["STOP_PERIODIC"] + 3 * SettleMs["SHORT"]
  ELSE ShortLeft(k, c)
\* ... and the time it needs from the instant its next call is due: the calls
\* that are left, the waits and what is lost of the round after each call.
CallsLeft(k, c) == (MaxCallbacks(k) - c) * (Slack(k) + TransferTimeout)
TimeLeft(k, c) == CallsLeft(k, c) + WaitLeft(k, c) + 1

\* The instant of the next call.
Due == IF nextSafe > active.nextDue THEN nextSafe ELSE active.nextDue

\* The deadline leaves an operation the time it needs; one that is due is
\* served in the present poll or after a whole round.
Timely ==
  activeValid =>
    active.deadline >=
      TimeLeft(active.kind, active.callbacksUsed)
        + IF Due > 0 THEN Due + Slack(active.kind)
          ELSE IF poll.on THEN 0 ELSE 1 + Slack(active.kind)

BudgetInv ==
  /\ Timely /\ Spinning
  /\ poll.on => poll.at = 0 /\ poll.left = 1
  /\ bound => config \in Configs

\* One step of a product.
LEMMA OneFactorMore ==
  ASSUME NEW n \in Int, NEW m \in Int, NEW x \in Int, m = n + 1
  PROVE  m * x = n * x + x
OBVIOUS

\* The slack of all rounds together is within the margin.
LEMMA SlackFits ==
  ASSUME NEW k \in Kinds
  PROVE  /\ Slack(k) \in Nat
         /\ MaxCallbacks(k) * Slack(k) + Slack(k) + 2 <= Margin
         /\ \A d \in Advances \ {0} : d <= Slack(k) + 1
<1> DEFINE m == MaxCallbacks(k)
           x == (Margin - 2) \div (m + 1)
<1>1. m \in 1 .. 14 /\ Margin \in Nat /\ Margin >= 2
  BY MaxCallbacksCases, CliAssumption, RoundsAssumption
<1>2. ASSUME NEW d \in Advances PROVE d \in Nat /\ (m + 1) * (d - 1) + 2 <= Margin
  BY RoundsAssumption, DriverAssumption
<1> HIDE DEF m
<1>3. ASSUME NEW n \in 1 .. 14, m = n
      PROVE  /\ x \in Nat /\ m * x + x + 2 <= Margin
             /\ \A d \in Advances \ {0} : d <= x + 1
  <2>1. n = 1 \/ n = 2 \/ n = 3 \/ n = 4 \/ n = 5 \/ n = 6 \/ n = 7 \/ n = 8 \/ n = 9
        \/ n = 10 \/ n = 11 \/ n = 12 \/ n = 13 \/ n = 14
    OBVIOUS
  <2> QED BY <1>1, <1>2, <1>3, <2>1
<1> QED BY <1>1, <1>3 DEF Slack, m

\* MaxWaitMs, class by class.
LEMMA MaxWaitCases ==
  ASSUME NEW k, NEW p
  PROVE  LET short == SettleMs["SHORT"]
         IN /\ k.op = "ATTACH" => MaxWaitMs(k, p) = AttachWait(p)
            /\ k.op \in {"READ_IDENTITY", "FETCH_SAMPLE"} => MaxWaitMs(k, p) = 3 * short
            /\ k.op = "SET_SETTING" => MaxWaitMs(k, p) = 4 * short
            /\ k.op = "READ_CONFIGURATION" => MaxWaitMs(k, p) = 13 * short
            /\ k.op \in {"WAKE_UP", "REINIT"} =>
                 MaxWaitMs(k, p) = SettleMs["POWER_UP"] + 3 * short
            /\ k.op \in SingleShotOps \cup {"FACTORY_RESET"} =>
                 MaxWaitMs(k, p) = ExecutionWait(k) + 3 * short
            /\ k.op \notin {"ATTACH", "READ_IDENTITY", "FETCH_SAMPLE", "SET_SETTING",
                            "READ_CONFIGURATION", "WAKE_UP", "REINIT", "FACTORY_RESET"}
                              \cup SingleShotOps => MaxWaitMs(k, p) = ExecutionWait(k)
  BY DEF MaxWaitMs, ConfigurationWait, SingleShotOps

\* ExecutionWait of those whose bound is not made of it.
LEMMA ExecutionWaitCases ==
  ASSUME NEW k
  PROVE  /\ k.op \in {"READ_IDENTITY", "FETCH_SAMPLE", "SET_SETTING", "READ_CONFIGURATION"}
              => ExecutionWait(k) = SettleMs["SHORT"]
         /\ k.op = "WAKE_UP" => ExecutionWait(k) = SettleMs["POWER_UP"]
         /\ k.op = "REINIT" => ExecutionWait(k) = SettleMs["REINIT"]
  BY DEF ExecutionWait

\* What is left of the waits covers each of them, and what comes after it.
LEMMA WaitsFit ==
  ASSUME NEW k \in Kinds
  PROVE  /\ \A c \in Nat : WaitLeft(k, c) \in Nat
         /\ k.op # "ATTACH" => ExecutionWait(k) + WaitLeft(k, 1) <= WaitLeft(k, 0)
         /\ k.op = "ATTACH" =>
              /\ SettleMs["POWER_UP"] + WaitLeft(k, 1) <= WaitLeft(k, 0)
              /\ SettleMs["STOP_PERIODIC"] + WaitLeft(k, 2) <= WaitLeft(k, 1)
         /\ \A c \in Nat :
              c >= 1 /\ c + 2 <= MaxCallbacks(k) /\ ~(k.op = "ATTACH" /\ c = 1) =>
                SettleMs["SHORT"] + WaitLeft(k, c + 1) <= WaitLeft(k, c)
<1> DEFINE m == MaxCallbacks(k)
           S == SettleMs["SHORT"]
           U == SettleMs["POWER_UP"]
           T == SettleMs["STOP_PERIODIC"]
           E == ExecutionWait(k)
           W == MaxWaitMs(k, 0)
<1>1. S \in Nat /\ U \in Nat /\ T \in Nat /\ E \in Nat /\ m \in 1 .. 14 /\ S <= U
  BY WaitTypes, MaxCallbacksCases, ShortAssumption DEF WaitNames
<1>2. /\ W \in Nat
      /\ k.op = "ATTACH" => m = 6 /\ W = U + T + 3 * S
      /\ k.op # "ATTACH" => E + (IF m > 2 THEN (m - 2) * S ELSE 0) <= W
  <2>1. CASE k.op = "ATTACH"
    <3>1. W = AttachWait(0) /\ m = 6
      BY <2>1, MaxWaitCases, MaxCallbacksCases
    <3>2. AttachWait(0) = 0 + U + T + 3 * S
      BY DEF AttachWait
    <3> HIDE DEF W, m, E, S, U, T
    <3> QED BY <1>1, <2>1, <3>1, <3>2
  <2>2. CASE k.op \in {"READ_IDENTITY", "FETCH_SAMPLE"}
    <3>1. W = 3 * S /\ m = 4 /\ E = S
      BY <2>2, MaxWaitCases, MaxCallbacksCases, ExecutionWaitCases
    <3> HIDE DEF W, m, E, S
    <3> QED BY <1>1, <2>2, <3>1
  <2>3. CASE k.op = "SET_SETTING"
    <3>1. W = 4 * S /\ m = 5 /\ E = S
      BY <2>3, MaxWaitCases, MaxCallbacksCases, ExecutionWaitCases
    <3> HIDE DEF W, m, E, S
    <3> QED BY <1>1, <2>3, <3>1
  <2>4. CASE k.op = "READ_CONFIGURATION"
    <3>1. W = 13 * S /\ m = 14 /\ E = S
      BY <2>4, MaxWaitCases, MaxCallbacksCases, ExecutionWaitCases
    <3> HIDE DEF W, m, E, S
    <3> QED BY <1>1, <2>4, <3>1
  <2>5. CASE k.op \in {"WAKE_UP", "REINIT"}
    <3>1. W = U + 3 * S /\ m = 5
      BY <2>5, MaxWaitCases, MaxCallbacksCases DEF ResetOps
    <3>2. E = U \/ E = SettleMs["REINIT"]
      BY <2>5, ExecutionWaitCases
    <3>3. SettleMs["REINIT"] <= U /\ U <= U
      BY <1>1, ReinitAssumption
    <3> HIDE DEF W, m, E, U, S
    <3> QED BY <1>1, <2>5, <3>1, <3>2, <3>3
  <2>6. CASE k.op \in SingleShotOps \cup {"FACTORY_RESET"}
    <3>1. W = E + 3 * S
      BY <2>6, MaxWaitCases
    <3>2. m = 5 /\ k.op # "ATTACH"
      BY <2>6, MaxCallbacksCases DEF SingleShotOps, ResetOps
    <3> HIDE DEF W, m, E, S
    <3> QED BY <1>1, <2>6, <3>1, <3>2
  <2>7. CASE k.op \notin {"ATTACH", "READ_IDENTITY", "FETCH_SAMPLE", "SET_SETTING",
                          "READ_CONFIGURATION", "WAKE_UP", "REINIT", "FACTORY_RESET"}
                            \cup SingleShotOps
    <3>1. W = E /\ k.op # "ATTACH"
      BY <2>7, MaxWaitCases
    <3>2. m \in {1, 2}
      BY <2>7 DEF MaxCallbacks, ResetOps
    <3> HIDE DEF W, m, E, S
    <3> QED BY <1>1, <2>7, <3>1, <3>2
  <2> QED BY <2>1, <2>2, <2>3, <2>4, <2>5, <2>6, <2>7
<1>3. /\ WaitLeft(k, 0) = W
      /\ k.op = "ATTACH" => WaitLeft(k, 1) = T + 3 * S
      /\ \A c : c # 0 /\ ~(k.op = "ATTACH" /\ c = 1) => WaitLeft(k, c) = ShortLeft(k, c)
  BY DEF WaitLeft
<1>4. \A c \in Nat : ShortLeft(k, c) = IF c + 1 < m THEN (m - 1 - c) * S ELSE 0
  BY DEF ShortLeft
<1> HIDE DEF m, S, U, T, E, W
<1>5. ASSUME NEW c \in Nat PROVE ShortLeft(k, c) \in Nat
  <2>1. CASE c + 1 < m
    <3>1. m - 1 - c \in Nat
      BY <1>1, <2>1
    <3>2. \A n \in Nat : n * S \in Nat
      BY <1>1
    <3> QED BY <1>4, <2>1, <3>1, <3>2
  <2> QED BY <1>4, <2>1
<1>6. ASSUME NEW c \in Nat PROVE WaitLeft(k, c) \in Nat
  BY <1>1, <1>2, <1>3, <1>5
<1>7. ASSUME k.op # "ATTACH" PROVE E + WaitLeft(k, 1) <= WaitLeft(k, 0)
  <2>1. WaitLeft(k, 1) = IF m > 2 THEN (m - 2) * S ELSE 0
    <3>1. m - 1 - 1 = m - 2 /\ (1 + 1 < m <=> m > 2)
      BY <1>1
    <3> QED BY <1>3, <1>4, <1>7, <3>1
  <2> QED BY <1>2, <1>3, <1>7, <2>1
<1>8. ASSUME k.op = "ATTACH"
      PROVE  U + WaitLeft(k, 1) <= WaitLeft(k, 0) /\ T + WaitLeft(k, 2) <= WaitLeft(k, 1)
  <2>1. WaitLeft(k, 2) = 3 * S
    BY <1>1, <1>2, <1>3, <1>4, <1>8
  <2> QED BY <1>1, <1>2, <1>3, <1>8, <2>1
<1>9. ASSUME NEW c \in Nat, c >= 1, c + 2 <= m, ~(k.op = "ATTACH" /\ c = 1)
      PROVE  S + WaitLeft(k, c + 1) <= WaitLeft(k, c)
  <2>1. WaitLeft(k, c) = (m - 1 - c) * S
    BY <1>1, <1>3, <1>4, <1>9
  <2>2. WaitLeft(k, c + 1) = IF c + 2 < m THEN (m - 1 - (c + 1)) * S ELSE 0
    <3>1. c + 1 \in Nat /\ c + 1 # 0 /\ c + 1 # 1 /\ (c + 1) + 1 = c + 2
      BY <1>9
    <3> QED BY <1>3, <1>4, <3>1
  <2>3. (m - 1 - c) * S = (m - 1 - (c + 1)) * S + S
    BY <1>1, OneFactorMore
  <2>4. CASE c + 2 < m
    <3> DEFINE y == (m - 1 - (c + 1)) * S
    <3>1. y \in Int
      BY <1>1
    <3> HIDE DEF y
    <3> QED BY <1>1, <2>1, <2>2, <2>3, <2>4, <3>1 DEF y
  <2>5. CASE c + 2 = m
    <3>1. m - 1 - c = 1
      BY <1>1, <1>9, <2>5
    <3> QED BY <1>1, <2>1, <2>2, <2>5, <3>1
  <2> QED BY <1>1, <1>9, <2>4, <2>5
<1> QED BY <1>6, <1>7, <1>8, <1>9 DEF m, S, U, T, E

\* One call less is left.
LEMMA CallsAndTimes ==
  ASSUME NEW k \in Kinds, NEW c \in 0 .. MaxCallbacks(k)
  PROVE  /\ CallsLeft(k, c) \in Nat /\ TimeLeft(k, c) \in Nat \ {0}
         /\ c + 1 <= MaxCallbacks(k) =>
              CallsLeft(k, c) = CallsLeft(k, c + 1) + Slack(k) + TransferTimeout
<1> DEFINE m == MaxCallbacks(k)
           x == Slack(k) + TransferTimeout
<1>1. m \in 1 .. 14 /\ x \in Nat /\ Slack(k) \in Nat /\ TransferTimeout \in Nat
      /\ WaitLeft(k, c) \in Nat /\ c \in Nat
  BY MaxCallbacksCases, SlackFits, WaitsFit, CliAssumption
<1>2. \A n \in 0 .. m : CallsLeft(k, n) = (m - n) * x
  BY DEF CallsLeft
<1>3. \A n \in Nat : n * x \in Nat
  BY <1>1
<1> HIDE DEF m, x
<1>4. m - c \in Nat
  BY <1>1 DEF m
<1>5. CallsLeft(k, c) \in Nat
  BY <1>2, <1>3, <1>4 DEF m
<1>6. ASSUME c + 1 <= m PROVE CallsLeft(k, c) = CallsLeft(k, c + 1) + x
  <2>1. c + 1 \in 0 .. m
    BY <1>1, <1>6
  <2>2. m - c = (m - (c + 1)) + 1 /\ m - c \in Int /\ m - (c + 1) \in Int
    BY <1>1
  <2>3. (m - c) * x = (m - (c + 1)) * x + x
    BY <1>1, <2>2, OneFactorMore
  <2> QED BY <1>2, <2>1, <2>3 DEF m
<1>7. TimeLeft(k, c) \in Nat \ {0}
  BY <1>1, <1>5 DEF TimeLeft
<1>8. c + 1 <= m => CallsLeft(k, c) = CallsLeft(k, c + 1) + Slack(k) + TransferTimeout
  <2>1. ASSUME c + 1 <= m
        PROVE  CallsLeft(k, c) = CallsLeft(k, c + 1) + Slack(k) + TransferTimeout
    <3>1. CallsLeft(k, c + 1) \in Int
      <4>1. c + 1 \in 0 .. m /\ m - (c + 1) \in Nat
        BY <1>1, <2>1
      <4> QED BY <1>2, <1>3, <4>1 DEF m
    <3> QED BY <1>1, <1>6, <2>1, <3>1 DEF x
  <2> QED BY <2>1
<1> QED BY <1>5, <1>7, <1>8 DEF m

\* A deadline that leaves time for a call leaves time for what comes after it.
LEMMA TimeAfterCall ==
  ASSUME NEW k \in Kinds, NEW c \in Nat, c + 1 <= MaxCallbacks(k),
         NEW at \in Nat, at <= TransferTimeout, NEW gap \in Nat \ {0},
         gap + WaitLeft(k, c + 1) <= WaitLeft(k, c),
         NEW due \in Nat, due <= at + gap,
         NEW deadline \in Nat, deadline >= TimeLeft(k, c)
  PROVE  /\ deadline >= TimeLeft(k, c + 1) + due + Slack(k)
         /\ deadline >= TimeLeft(k, c + 1) + 1 + Slack(k)
         /\ at < deadline
<1>1. /\ CallsLeft(k, c) = CallsLeft(k, c + 1) + Slack(k) + TransferTimeout
      /\ CallsLeft(k, c + 1) \in Nat
  BY CallsAndTimes, MaxCallbacksCases
<1>2. /\ Slack(k) \in Nat /\ TransferTimeout \in Nat
      /\ WaitLeft(k, c) \in Nat /\ WaitLeft(k, c + 1) \in Nat
  BY SlackFits, WaitsFit, CliAssumption
<1> QED BY <1>1, <1>2 DEF TimeLeft

\* Behind a sending phase at least one call follows, but for the first of a
\* command; a phase that reads is not the first.
LEMMA CallsHere ==
  ASSUME NEW a, Standing(a), ~EndsWithSend(a.kind)
  PROVE  /\ a.phase \in SendPhases /\ Count(a) >= 1 /\ ~(a.kind.op = "ATTACH" /\ Count(a) = 1)
              => Count(a) + 2 <= MaxCallbacks(a.kind)
         /\ a.phase \in ReadPhases => Count(a) >= 1 /\ ~(a.kind.op = "ATTACH" /\ Count(a) = 1)
<1> DEFINE p == a.phase
           i == a.index
           k == a.kind
<1> USE MaxCallbacksCases DEF SendPhases, ReadPhases, Count
<1>0. k \in Kinds /\ i \in 0 .. 6 /\ <<p, i>> \in Reachable(k)
  BY DEF Standing
<1>1. CASE k.op = "ATTACH"
  <2>1. <<p, i>> \in AttachSteps /\ CallsBefore(k, p, i) = AttachCalls(p, i)
    BY <1>0, <1>1, ReachableCases DEF CallsBefore
  <2> QED BY <1>1, <2>1 DEF AttachSteps, AttachCalls
<1>2. CASE k.op \in ReadOps
  <2>1. CallsBefore(k, p, i) = ReadCalls(p, i) /\ k.op # "ATTACH"
    BY <1>2 DEF CallsBefore, ReadOps
  <2>2. CASE k.op = "READ_IDENTITY"
    <3>1. <<p, i>> \in IdentitySteps
      BY <1>0, <2>2, ReachableCases
    <3> QED BY <2>1, <2>2, <3>1 DEF IdentitySteps, ReadSteps, ReadCalls
  <2>3. CASE k.op = "READ_CONFIGURATION"
    <3>1. <<p, i>> \in ConfigurationSteps
      BY <1>0, <2>3, ReachableCases
    <3> QED BY <2>1, <2>3, <3>1 DEF ConfigurationSteps, ReadCalls
  <2>4. CASE k.op \in {"READ_SENSOR_VARIANT", "READ_DATA_READY", "READ_SETTING"}
    <3>1. <<p, i>> \in ReadSteps
      BY <1>0, <2>4, ReachableCases
    <3> QED BY <2>1, <2>4, <3>1 DEF ReadSteps, ReadCalls
  <2> QED BY <1>2, <2>2, <2>3, <2>4 DEF ReadOps
<1>3. CASE k.op = "SET_SETTING"
  <2>1. <<p, i>> \in SettingSteps /\ CallsBefore(k, p, i) = SettingCalls(p, i)
    BY <1>0, <1>3, ReachableCases DEF CallsBefore, ReadOps
  <2> QED BY <1>3, <2>1 DEF SettingSteps, SettingCalls
<1>4. CASE k.op \in ModeOps
  <2>1. CASE k.op = "WAKE_UP"
    <3>1. <<p, i>> \in WakeSteps /\ CallsBefore(k, p, i) = WakeCalls(p, i)
      BY <1>0, <2>1, ReachableCases DEF CallsBefore, ReadOps
    <3> QED BY <2>1, <3>1 DEF WakeSteps, WakeCalls
  <2>2. CASE k.op # "WAKE_UP"
    <3>1. <<p, i>> \in CommandSteps /\ CallsBefore(k, p, i) = CommandCalls(p, i)
      BY <1>0, <1>4, <2>2, ReachableCases
         DEF CallsBefore, ReadOps, ModeOps, SingleShotOps, ResetOps, EndsWithSend,
             DiagnosticOps
    <3> QED BY <3>1 DEF CommandSteps, CommandCalls
  <2> QED BY <2>1, <2>2
<1>5. CASE k.op \in MeasurementOps
  <2>1. CASE k.op = "FETCH_SAMPLE"
    <3>1. <<p, i>> \in FetchSteps /\ CallsBefore(k, p, i) = FetchCalls(p, i)
      BY <1>0, <2>1, ReachableCases DEF CallsBefore, ReadOps
    <3> QED BY <2>1, <3>1 DEF FetchSteps, FetchCalls
  <2>2. CASE k.op \in SingleShotOps
    <3>1. /\ <<p, i>> \in CommandSteps \cup FetchSteps /\ k.op # "ATTACH"
          /\ CallsBefore(k, p, i) = ShotCalls(p, i)
      BY <1>0, <2>2, ReachableCases DEF CallsBefore, ReadOps, SingleShotOps
    <3> QED BY <2>2, <3>1 DEF CommandSteps, FetchSteps, ShotCalls, CommandCalls, FetchCalls
  <2> QED BY <1>5, <2>1, <2>2 DEF MeasurementOps
<1>6. CASE k.op \in MaintenanceOps
  <2>1. CASE k.op \in ResetOps
    <3>1. /\ <<p, i>> \in ResetSteps /\ CallsBefore(k, p, i) = ResetCalls(p, i)
          /\ k.op # "ATTACH"
      BY <1>0, <2>1, ReachableCases DEF CallsBefore, ReadOps, SingleShotOps, ResetOps
    <3> QED BY <2>1, <3>1 DEF ResetSteps, CommandSteps, ResetCalls, CommandCalls
  <2>2. CASE k.op \notin ResetOps
    <3>1. CallsBefore(k, p, i) = CommandCalls(p, i) /\ k.op # "ATTACH"
      BY <1>6, <2>2
         DEF CallsBefore, ReadOps, MaintenanceOps, SingleShotOps, ResetOps,
             EndsWithSend, DiagnosticOps
    <3>2. \/ k.op = "PERSIST_SETTINGS" /\ <<p, i>> \in CommandSteps
          \/ /\ k.op \in {"SELF_TEST", "FORCED_RECALIBRATION"}
             /\ <<p, i>> \in DeferredSteps
      BY <1>0, <1>6, <2>2, ReachableCases DEF MaintenanceOps, ResetOps
    <3> QED BY <3>1, <3>2 DEF CommandSteps, DeferredSteps, CommandCalls
  <2> QED BY <2>1, <2>2
<1>7. CASE k.op \in DiagnosticOps
  <2>1. <<p, i>> \in ReadSteps /\ k.op # "ATTACH"
    BY <1>0, <1>7, ReachableCases DEF DiagnosticOps
  <2>2. CallsBefore(k, p, i) = CommandCalls(p, i)
    BY <1>7 DEF CallsBefore, ReadOps, DiagnosticOps, SingleShotOps, ResetOps
  <2> QED BY <2>1, <2>2 DEF ReadSteps, CommandCalls
<1> QED
  BY <1>0, <1>1, <1>2, <1>3, <1>4, <1>5, <1>6, <1>7, OpCases

\* How long a leg waits, and when that is longer than for a plain command.
LegLasting(a, leg) ==
  /\ leg.wait = IF leg.effectful THEN FullWait(a) ELSE SettleMs["SHORT"]
  /\ leg.effectful => \/ Count(a) = 0 \/ FullWait(a) = SettleMs["SHORT"]
                      \/ a.kind.op = "ATTACH" /\ Count(a) = 1
  /\ a.kind.op = "ATTACH" /\ Count(a) = 0 => FullWait(a) = SettleMs["POWER_UP"]
  /\ a.kind.op = "ATTACH" /\ Count(a) = 1 => FullWait(a) = SettleMs["STOP_PERIODIC"]

\* An operation waits for as long as the sensor needs for the command; only
\* the commands an operation begins with take longer than a plain one.
LEMMA LegLasts ==
  ASSUME NEW a, Standing(a), a.phase \in SendPhases
  PROVE  LegLasting(a, Leg(a))
<1> DEFINE k == a.kind
           p == a.phase
<1> USE DEF Query, Order, LegLasting
<1>0. k \in Kinds /\ <<p, a.index>> \in Reachable(k)
  BY DEF Standing
<1>1. CASE k.op = "ATTACH"
  <2>1. /\ <<p, a.index>> \in AttachSteps /\ Leg(a) = AttachLeg(a)
        /\ Count(a) = AttachCalls(p, a.index)
    BY <1>0, <1>1, ReachableCases, LegCases DEF Count, CallsBefore
  <2>2. CASE p = "SEND_WAKE"
    BY <1>1, <2>1, <2>2 DEF AttachLeg, FullWait, AttachCalls
  <2>3. CASE p = "SEND_STOP"
    BY <1>1, <2>1, <2>3 DEF AttachLeg, FullWait, AttachCalls
  <2>4. CASE p = "SEND_READ_COMMAND"
    BY <1>1, <2>1, <2>4 DEF AttachLeg, AttachCalls
  <2>5. CASE p = "SEND_VERIFY_COMMAND"
    BY <1>1, <2>1, <2>5 DEF AttachLeg, AttachCalls
  <2> QED BY <2>1, <2>2, <2>3, <2>4, <2>5 DEF AttachSteps, SendPhases
<1>2. CASE k.op \in ReadOps
  <2>1. Leg(a) = ReadLeg(a) /\ k.op # "ATTACH"
    BY <1>2, LegCases DEF ReadOps
  <2>2. Leg(a).effectful = FALSE /\ Leg(a).wait = SettleMs["SHORT"]
    BY <2>1 DEF ReadLeg
  <2> QED BY <2>1, <2>2
<1>3. CASE k.op = "SET_SETTING"
  <2>1. Leg(a) = SettingLeg(a) /\ FullWait(a) = SettleMs["SHORT"]
    BY <1>3, LegCases, TablesAgree DEF FullWait
  <2>2. Leg(a).wait = SettleMs["SHORT"]
    BY <2>1 DEF SettingLeg
  <2> QED BY <1>3, <2>1, <2>2
<1>4. CASE k.op \in ModeOps
  <2>1. Leg(a) = ModeLeg(a) /\ k.op # "ATTACH"
    BY <1>4, LegCases DEF ModeOps
  <2>2. FullWait(a) = ExecutionWait(k)
    BY <2>1 DEF FullWait
  <2>3. p \in {"SEND_COMMAND", "SEND_READ_COMMAND", "SEND_VERIFY_COMMAND"}
    BY <1>0, <1>4, ReachableCases DEF WakeSteps, CommandSteps, SendPhases
  <2>4. CASE p = "SEND_COMMAND"
    <3>1. Leg(a).effectful = TRUE /\ Leg(a).wait = ExecutionWait(k)
      BY <2>1, <2>4 DEF ModeLeg
    <3>2. Count(a) = 0
      BY <1>4, <2>4 DEF Count, CallsBefore, ReadOps, ModeOps, SingleShotOps, ResetOps,
         EndsWithSend, DiagnosticOps, WakeCalls, CommandCalls
    <3> QED BY <2>1, <2>2, <3>1, <3>2
  <2>5. CASE p # "SEND_COMMAND"
    <3>1. Leg(a).effectful = FALSE /\ Leg(a).wait = SettleMs["SHORT"]
      BY <2>1, <2>3, <2>5 DEF ModeLeg
    <3> QED BY <2>1, <3>1
  <2> QED BY <2>4, <2>5
<1>5. CASE k.op \in MeasurementOps
  <2>1. Leg(a) = MeasurementLeg(a) /\ k.op # "ATTACH"
    BY <1>5, LegCases DEF MeasurementOps, SingleShotOps
  <2>2. p \in {"SEND_COMMAND", "SEND_READY_COMMAND", "SEND_READ_COMMAND"}
        /\ (p = "SEND_COMMAND" => k.op \in SingleShotOps)
    BY <1>0, <1>5, ReachableCases
       DEF FetchSteps, CommandSteps, SendPhases, MeasurementOps
  <2>3. CASE p = "SEND_COMMAND"
    <3>1. /\ Leg(a).effectful = TRUE /\ Leg(a).wait = ExecutionWait(k)
          /\ FullWait(a) = ExecutionWait(k)
      BY <2>1, <2>3 DEF MeasurementLeg, FullWait
    <3>2. Count(a) = 0
      BY <2>2, <2>3 DEF Count, CallsBefore, ReadOps, SingleShotOps, ShotCalls, CommandCalls
    <3> QED BY <2>1, <3>1, <3>2
  <2>4. CASE p # "SEND_COMMAND"
    <3>1. Leg(a).effectful = FALSE /\ Leg(a).wait = SettleMs["SHORT"]
      BY <2>1, <2>2, <2>4 DEF MeasurementLeg
    <3> QED BY <2>1, <3>1
  <2> QED BY <2>3, <2>4
<1>6. CASE k.op \in MaintenanceOps
  <2>1. Leg(a) = MaintenanceLeg(a) /\ k.op # "ATTACH"
    BY <1>6, LegCases DEF MaintenanceOps
  <2>2. CASE p = "SEND_COMMAND"
    <3>1. /\ Leg(a).effectful = TRUE /\ Leg(a).wait = ExecutionWait(k)
          /\ FullWait(a) = ExecutionWait(k)
      BY <2>1, <2>2 DEF MaintenanceLeg, FullWait
    <3>2. Count(a) = 0
      BY <1>6, <2>2 DEF Count, CallsBefore, ReadOps, MaintenanceOps, SingleShotOps,
         ResetOps, EndsWithSend, DiagnosticOps, ResetCalls, CommandCalls
    <3> QED BY <2>1, <3>1, <3>2
  <2>3. CASE p # "SEND_COMMAND"
    <3>1. Leg(a).effectful = FALSE /\ Leg(a).wait = SettleMs["SHORT"]
      BY <2>1, <2>3 DEF MaintenanceLeg
    <3> QED BY <2>1, <3>1
  <2> QED BY <2>2, <2>3
<1>7. CASE k.op \in DiagnosticOps
  <2>1. Leg(a) = DiagnosticLeg(a) /\ FullWait(a) = SettleMs["SHORT"] /\ k.op # "ATTACH"
    BY <1>7, LegCases, TablesAgree DEF FullWait, DiagnosticOps
  <2> QED BY <2>1 DEF DiagnosticLeg
<1> QED
  BY <1>0, <1>1, <1>2, <1>3, <1>4, <1>5, <1>6, <1>7, OpCases

\* What is left of the waits covers the wait behind any command.
LEMMA SendGap ==
  ASSUME NEW a, Standing(a), a.phase \in SendPhases, ~EndsWithSend(a.kind)
  PROVE  Leg(a).wait + WaitLeft(a.kind, Count(a) + 1) <= WaitLeft(a.kind, Count(a))
<1> DEFINE k == a.kind
           S == SettleMs["SHORT"]
           g == Leg(a).wait
<1>1. k \in Kinds /\ LegLasting(a, Leg(a)) /\ k = a.kind
  BY LegLasts DEF Standing
<1> DEFINE c == Count(a)
<1>2. c \in Nat /\ c + 1 <= MaxCallbacks(k)
  BY CallsAreBounded, MaxCallbacksCases DEF Count
<1>3. /\ S \in Nat /\ S <= FullWait(a) /\ FullWait(a) \in Nat
      /\ g \in {FullWait(a), S}
      /\ g <= FullWait(a)
  BY <1>1, WaitTypes, ShortIsShort DEF LegLasting, WaitNames
<1>4. \A n \in Nat : WaitLeft(k, n) \in Nat
  BY <1>1, WaitsFit
<1>5. CASE k.op = "ATTACH" /\ c = 0
  <2>1. FullWait(a) = SettleMs["POWER_UP"]
    BY <1>1, <1>5 DEF LegLasting
  <2>2. SettleMs["POWER_UP"] + WaitLeft(k, 1) <= WaitLeft(k, 0)
    BY <1>1, <1>5, WaitsFit
  <2>3. WaitLeft(k, 1) \in Nat /\ WaitLeft(k, 0) \in Nat /\ c + 1 = 1
    BY <1>4, <1>5
  <2> HIDE DEF k, g, c
  <2> QED BY <1>3, <1>5, <2>1, <2>2, <2>3 DEF k, g, c
<1>6. CASE k.op = "ATTACH" /\ c = 1
  <2>1. FullWait(a) = SettleMs["STOP_PERIODIC"]
    BY <1>1, <1>6 DEF LegLasting
  <2>2. SettleMs["STOP_PERIODIC"] + WaitLeft(k, 2) <= WaitLeft(k, 1)
    BY <1>1, <1>6, WaitsFit
  <2>3. WaitLeft(k, 1) \in Nat /\ WaitLeft(k, 2) \in Nat /\ c + 1 = 2
    BY <1>4, <1>6
  <2> HIDE DEF k, g, c
  <2> QED BY <1>3, <1>6, <2>1, <2>2, <2>3 DEF k, g, c
<1>7. CASE k.op # "ATTACH" /\ c = 0
  <2>1. FullWait(a) = ExecutionWait(k)
    BY <1>7 DEF FullWait
  <2>2. ExecutionWait(k) + WaitLeft(k, 1) <= WaitLeft(k, 0)
    BY <1>1, <1>7, WaitsFit
  <2>3. WaitLeft(k, 1) \in Nat /\ WaitLeft(k, 0) \in Nat /\ c + 1 = 1
    BY <1>4, <1>7
  <2> HIDE DEF k, g, c
  <2> QED BY <1>3, <1>7, <2>1, <2>2, <2>3 DEF k, g, c
<1>8. CASE c # 0 /\ ~(k.op = "ATTACH" /\ c = 1)
  <2>1. g = S
    BY <1>1, <1>8 DEF LegLasting
  <2>2. c >= 1 /\ c + 2 <= MaxCallbacks(k)
    <3>1. c >= 1
      BY <1>2, <1>8
    <3> QED BY <1>8, <3>1, CallsHere
  <2>3. S + WaitLeft(k, c + 1) <= WaitLeft(k, c)
    BY <1>1, <1>2, <1>8, <2>2, WaitsFit
  <2> QED BY <2>1, <2>3
<1> QED BY <1>5, <1>6, <1>7, <1>8

-----------------------------------------------------------------------------
(* The iterations of a poll, in time.                                      *)

\* The operation ends.
OperationEnds == ~activeValid' /\ ~poll'.on
\* A step that keeps the promise.
StaysTimely == Timely' /\ (poll'.on => poll'.at = 0 /\ poll'.left = 1)

\* A request that has ended owes nothing to its deadline.
LEMMA EndsTimely ==
  ASSUME OperationEnds
  PROVE  StaysTimely
  BY DEF OperationEnds, StaysTimely, Timely

LEMMA FinishIsEnd ==
  ASSUME NEW outcome, NEW effect, NEW b, NEW a, NEW at,
         FinishOperation(outcome, effect, b, a, at)
  PROVE  OperationEnds
  BY DEF FinishOperation, NotPolling, OperationEnds

LEMMA FailureIsEnd ==
  ASSUME NEW status, NEW b, NEW a, NEW last, NEW at,
         FinishOperationFailure(status, b, a, last, at)
  PROVE  OperationEnds
<1>1. PICK outcome, effect, b2 : FinishOperation(outcome, effect, b2, a, at)
  BY DEF FinishOperationFailure
<1> QED BY <1>1, FinishIsEnd

\* What a poll knows of the operation.
LEMMA PollingFacts ==
  ASSUME DriverInv, BudgetInv, poll.on
  PROVE  LET k == active.kind
             c == active.callbacksUsed
         IN /\ activeValid /\ ~terminalValid /\ Standing(active) /\ k \in Kinds
            /\ c \in 0 .. MaxCallbacks(k) /\ c = Count(active)
            /\ active \in Operations /\ active.deadline \in Nat /\ active.nextDue \in Nat
            /\ nextSafe \in Nat /\ poll.at = 0 /\ poll.left = 1
            /\ active.deadline >= TimeLeft(k, c)
            /\ Slack(k) \in Nat /\ TimeLeft(k, c) \in Nat
<1> DEFINE k == active.kind
           c == active.callbacksUsed
<1>1. /\ activeValid /\ ~terminalValid /\ Standing(active) /\ c = Count(active)
      /\ active \in Operations /\ nextSafe \in Nat /\ poll.at = 0 /\ poll.left = 1
  BY ActiveStands DEF DriverInv, IInv, SlotOK, BusOK, InTime, SlotInv, Counted, BudgetInv
<1>2. k \in Kinds /\ c \in 0 .. MaxCallbacks(k)
  BY <1>1, CallsAreBounded DEF Count, Standing
<1>3. Slack(k) \in Nat /\ TimeLeft(k, c) \in Nat
  BY <1>2, SlackFits, CallsAndTimes
<1>4. active.deadline \in Nat /\ active.nextDue \in Nat
  BY <1>1 DEF Operations
<1>5. Due \in Nat
  BY <1>1, <1>4 DEF Due
<1>6. active.deadline >= TimeLeft(k, c)
              + IF Due > 0 THEN Due + Slack(k) ELSE 0
  BY <1>1 DEF BudgetInv, Timely
<1>7. active.deadline >= TimeLeft(k, c)
  <2> HIDE DEF k, c
  <2> QED BY <1>3, <1>4, <1>5, <1>6 DEF k, c
<1> QED BY <1>1, <1>2, <1>3, <1>4, <1>7

\* A call is made that leaves the operation active.
LEMMA CallKeepsTime ==
  ASSUME DriverInv, DriverInv', BudgetInv, poll.on, NEW a, NEW b, NEW at \in Nat,
         Proceed(a, b, at, poll.left - 1), a.kind = active.kind,
         a.deadline = active.deadline, a.callbacksUsed = active.callbacksUsed + 1,
         at <= TransferTimeout, NEW gap \in Nat \ {0},
         a.nextDue <= at + gap, nextSafe' <= at + gap,
         active.callbacksUsed + 1 <= MaxCallbacks(active.kind),
         gap + WaitLeft(active.kind, active.callbacksUsed + 1)
           <= WaitLeft(active.kind, active.callbacksUsed)
  PROVE  StaysTimely
<1> DEFINE k == active.kind
           c == active.callbacksUsed
<1>1. /\ activeValid /\ ~terminalValid /\ k \in Kinds /\ c \in Nat
      /\ poll.left - 1 = 0 /\ active.deadline \in Nat /\ active.deadline >= TimeLeft(k, c)
      /\ c \in 0 .. MaxCallbacks(k) /\ Slack(k) \in Nat
  BY PollingFacts
<1>2. /\ active' = a /\ activeValid' /\ ~terminalValid' /\ ~poll'.on
  BY <1>1 DEF Proceed, NotPolling
<1>3. a.nextDue \in Nat /\ nextSafe' \in Nat
  BY <1>2 DEF DriverInv, IInv, SlotOK, BusOK, Operations
<1>4. Due' \in Nat /\ Due' <= at + gap
  BY <1>2, <1>3 DEF Due
<1>5. /\ active.deadline >= TimeLeft(k, c + 1) + Due' + Slack(k)
      /\ active.deadline >= TimeLeft(k, c + 1) + 1 + Slack(k)
  BY <1>1, <1>4, TimeAfterCall
<1>6. TimeLeft(k, c + 1) \in Nat
  BY <1>1, CallsAndTimes
<1> HIDE DEF k, c
<1>7. a.deadline >= TimeLeft(k, c + 1) + IF Due' > 0 THEN Due' + Slack(k)
                                         ELSE 1 + Slack(k)
  BY <1>1, <1>4, <1>5, <1>6 DEF k, c
<1>8. Timely'
  BY <1>2, <1>7 DEF Timely, k, c
<1> QED BY <1>2, <1>8 DEF StaysTimely

\* A transfer takes no longer than its limit, and it is not one too many.
LEMMA TransferFits ==
  ASSUME DriverInv, BudgetInv, poll.on, active.phase \in SendPhases \cup ReadPhases,
         NEW r, NEW dur \in Durations
  PROVE  /\ Completed(r, dur) \in Nat /\ Completed(r, dur) <= TransferTimeout
         /\ active.callbacksUsed + 1 <= MaxCallbacks(active.kind)
<1> DEFINE k == active.kind
           c == active.callbacksUsed
<1>1. /\ k \in Kinds /\ c \in Nat /\ Standing(active) /\ c = Count(active)
      /\ c \in 0 .. MaxCallbacks(k) /\ poll.at = 0
  BY PollingFacts
<1>2. c + 1 <= MaxCallbacks(k)
  BY <1>1, CallsAreBounded DEF Count
<1>3. Completed(r, dur) \in Nat /\ Completed(r, dur) <= TransferTimeout
  BY <1>1, CliAssumption, DriverAssumption DEF Completed
<1> QED BY <1>2, <1>3

\* A command is sent and the operation goes on.
LEMMA SendInTime ==
  ASSUME DriverInv, DriverInv', BudgetInv,
         NEW r \in EffectfulOutcomes \cup PlainOutcomes, NEW dur \in Durations, Send(r, dur)
  PROVE  StaysTimely
<1> DEFINE leg == Leg(active)
           sent == Attempted(leg.effectful, r)
           at == Completed(r, dur)
           a == [sent EXCEPT !.phase = leg.phase, !.index = leg.index,
                             !.nextDue = at + leg.wait,
                             !.effect = EffectAfterSend(sent, leg, r)]
           gap == leg.wait
<1>1. /\ AttemptedLeg(leg, r, dur) /\ ~EndsWithSend(active.kind) /\ poll.on
      /\ \E b : Proceed(a, b, at, poll.left - 1)
  BY DEF Send, AttemptedLeg, Transferring, Working
<1>2. /\ active.phase \in SendPhases /\ nextSafe <= poll.at
      /\ r \in IF leg.effectful THEN EffectfulOutcomes ELSE PlainOutcomes
  BY <1>1 DEF AttemptedLeg, Transferring, Working
<1>3. /\ Standing(active) /\ active.callbacksUsed = Count(active)
      /\ nextSafe \in Nat /\ poll.at = 0
  BY <1>1, PollingFacts
<1>4. r \in Answers
  BY <1>1, AttemptedLegStep DEF DriverInv, IInv, AttemptedLeg
<1>5. leg.effectful \in BOOLEAN /\ gap \in Nat \ {0}
  BY <1>2, <1>3, LegType DEF LegOK
<1>6. /\ at \in Nat /\ at <= TransferTimeout
      /\ active.callbacksUsed + 1 <= MaxCallbacks(active.kind)
  BY <1>1, <1>2, TransferFits
<1>7. /\ sent \in Operations /\ sent.kind = active.kind
      /\ sent.deadline = active.deadline
      /\ sent.callbacksUsed = active.callbacksUsed + 1
  BY <1>4, <1>5, AttemptedType DEF DriverInv, IInv
<1>8. /\ a.kind = active.kind /\ a.deadline = active.deadline
      /\ a.callbacksUsed = active.callbacksUsed + 1 /\ a.nextDue = at + gap
  <2>1. \A o \in Operations : \A q, j, n, e :
          LET o2 == [o EXCEPT !.phase = q, !.index = j, !.nextDue = n, !.effect = e]
          IN /\ o2.kind = o.kind /\ o2.deadline = o.deadline /\ o2.nextDue = n
             /\ o2.callbacksUsed = o.callbacksUsed
    BY DEF Operations
  <2> HIDE DEF leg, sent, at
  <2> QED BY <1>7, <2>1
<1>9. nextSafe' <= at + gap
  <2>1. nextSafe' = GateAfter(leg.effectful, leg.nack, r, dur)
    BY <1>1 DEF AttemptedLeg, Exchange
  <2>2. LegLasting(active, leg)
    BY <1>2, <1>3, LegLasts
  <2>3. /\ SettleMs["SHORT"] \in Nat /\ FullWait(active) \in Nat
        /\ SettleMs["SHORT"] <= FullWait(active)
    BY WaitTypes, ShortIsShort DEF WaitNames
  <2>4. CASE r.disposition = "NOT_STARTED"
    <3>1. nextSafe' = nextSafe
      BY <2>1, <2>4 DEF GateAfter
    <3> HIDE DEF at, gap
    <3> QED BY <1>2, <1>3, <1>5, <1>6, <3>1
  <2>5. CASE r.disposition # "NOT_STARTED"
    <3>1. \/ nextSafe' = at + FullWait(active) /\ leg.effectful
          \/ nextSafe' = at + SettleMs["SHORT"]
      BY <2>1, <2>5 DEF GateAfter
    <3>2. SettleMs["SHORT"] <= gap /\ (leg.effectful => FullWait(active) = gap)
      BY <2>2, <2>3 DEF LegLasting
    <3> HIDE DEF at, gap
    <3> QED BY <1>5, <1>6, <2>3, <3>1, <3>2
  <2> QED BY <2>4, <2>5
<1>10. gap + WaitLeft(active.kind, active.callbacksUsed + 1)
         <= WaitLeft(active.kind, active.callbacksUsed)
  BY <1>1, <1>2, <1>3, SendGap
<1>11. at + gap <= at + gap
  <2> HIDE DEF at, gap
  <2> QED BY <1>5, <1>6
<1> HIDE DEF leg, sent, a, at, gap
<1> QED BY <1>1, <1>5, <1>6, <1>8, <1>9, <1>10, <1>11, CallKeepsTime

\* A command was sent, or not, and the operation ends.
LEMMA SendIsEnd ==
  ASSUME NEW r, NEW dur, SendLast(r, dur) \/ SendFails(r, dur) \/ ReadFails(r, dur)
  PROVE  OperationEnds
<1>1. CASE SendLast(r, dur)
  <2>1. \E effect, b, a, at : FinishOperation("SUCCEEDED", effect, b, a, at)
    BY <1>1 DEF SendLast
  <2> QED BY <2>1, FinishIsEnd
<1>2. CASE SendFails(r, dur) \/ ReadFails(r, dur)
  <2>1. \E status, b, a, last, at : FinishOperationFailure(status, b, a, last, at)
    BY <1>2 DEF SendFails, ReadFails
  <2> QED BY <2>1, FailureIsEnd
<1> QED BY <1>1, <1>2

\* An answer came, and the next command follows after the shortest wait.
LEMMA HeardInTime ==
  ASSUME DriverInv, DriverInv', BudgetInv, NEW dur \in Durations, Answered(dur),
         NEW a, NEW b, Proceed(a, b, poll.at + dur, poll.left - 1),
         a.kind = active.kind, a.deadline = active.deadline,
         a.callbacksUsed = active.callbacksUsed + 1, a.nextDue <= poll.at + dur,
         a.phase \in SendPhases, ~EndsWithSend(active.kind)
  PROVE  StaysTimely
<1> DEFINE c == active.callbacksUsed
           at == poll.at + dur
           gap == SettleMs["SHORT"]
<1>1. AttemptedRead(Exact, dur) /\ poll.on /\ active.phase \in ReadPhases
  BY DEF Answered, AttemptedRead, Transferring, Working
<1>2. /\ Standing(active) /\ c = Count(active) /\ c \in Nat /\ poll.at = 0
      /\ activeValid /\ ~terminalValid /\ active.kind \in Kinds
  BY <1>1, PollingFacts
<1>3. Completed(Exact, dur) = at
  BY DEF Completed, Exact
<1>4. /\ at \in Nat /\ at <= TransferTimeout /\ c + 1 <= MaxCallbacks(active.kind)
  BY <1>1, <1>3, TransferFits
<1>5. gap \in Nat \ {0}
  BY WaitTypes DEF WaitNames
<1>6. nextSafe' = at + gap
  <2>1. nextSafe' = GateAfter(FALSE, FALSE, Exact, dur)
    BY <1>1 DEF AttemptedRead, Exchange
  <2>2. Exact.disposition # "NOT_STARTED"
    BY DEF Exact
  <2> QED BY <1>3, <2>1, <2>2 DEF GateAfter
<1>7. c + 2 <= MaxCallbacks(active.kind)
  <2>1. active' = a /\ activeValid'
    BY <1>2 DEF Proceed
  <2>2. a.callbacksUsed = Count(a)
    BY <2>1 DEF DriverInv, SlotInv, Counted
  <2>3. Standing(a)
    BY <2>1 DEF DriverInv, IInv, SlotOK, PhasesLegal, Asked, Operations, Standing
  <2>4. CallsBefore(a.kind, a.phase, a.index) + 1 <= MaxCallbacks(a.kind)
    BY <2>3, CallsAreBounded
  <2>5. (c + 1) + 1 <= MaxCallbacks(active.kind)
    BY <2>2, <2>4 DEF Count
  <2>6. MaxCallbacks(active.kind) \in Nat
    BY MaxCallbacksCases
  <2> QED BY <1>2, <2>5, <2>6
<1>8. c >= 1 /\ ~(active.kind.op = "ATTACH" /\ c = 1)
  BY <1>1, <1>2, CallsHere
<1>9. gap + WaitLeft(active.kind, c + 1) <= WaitLeft(active.kind, c)
  BY <1>2, <1>7, <1>8, WaitsFit
<1>10. /\ a.nextDue <= at + gap /\ at + gap <= at + gap
  <2>1. a.nextDue \in Nat
    <3>1. active' = a /\ active' \in Operations
      BY <1>2 DEF Proceed, DriverInv, IInv, SlotOK
    <3> QED BY <3>1 DEF Operations
  <2> HIDE DEF at, gap
  <2>2. a.nextDue <= at
    BY DEF at
  <2> QED BY <1>4, <1>5, <2>1, <2>2
<1> HIDE DEF c, at, gap
<1>11. /\ Proceed(a, b, at, poll.left - 1) /\ a.callbacksUsed = active.callbacksUsed + 1
       /\ active.callbacksUsed + 1 <= MaxCallbacks(active.kind)
       /\ gap + WaitLeft(active.kind, active.callbacksUsed + 1)
            <= WaitLeft(active.kind, active.callbacksUsed)
  BY <1>4, <1>9 DEF c, at
<1> QED BY <1>1, <1>4, <1>5, <1>6, <1>10, <1>11, CallKeepsTime

\* The answers that end an operation.
LEMMA AnswersEnd ==
  ASSUME NEW dur,
         \/ IdentityRefused(dur) \/ IdentityConfirmed(dur) \/ HearVariant(dur)
         \/ HearInvalidSetting(dur) \/ HearWrittenSetting(dur) \/ HearSample(dur)
         \/ \E verdict \in BOOLEAN : HearAnswer(dur, verdict)
  PROVE  OperationEnds
<1>1. CASE IdentityRefused(dur)
  <2>1. PICK outcome \in {"INDETERMINATE", "FAILED"} :
          \E effect, b, a, at : FinishOperation(outcome, effect, b, a, at)
    BY <1>1 DEF IdentityRefused
  <2> QED BY <2>1, FinishIsEnd
<1>2. CASE IdentityConfirmed(dur)
  <2>1. \E effect, b, a, at : FinishOperation("SUCCEEDED", effect, b, a, at)
    BY <1>2 DEF IdentityConfirmed
  <2> QED BY <2>1, FinishIsEnd
<1>3. CASE HearVariant(dur)
  <2>1. PICK outcome \in {"SUCCEEDED", "FAILED"} :
          \E effect, b, a, at : FinishOperation(outcome, effect, b, a, at)
    BY <1>3 DEF HearVariant
  <2> QED BY <2>1, FinishIsEnd
<1>4. CASE HearInvalidSetting(dur)
  <2>1. \E b, a, last, at : FinishOperationFailure("ERROR", b, a, last, at)
    BY <1>4 DEF HearInvalidSetting
  <2> QED BY <2>1, FailureIsEnd
<1>5. CASE HearWrittenSetting(dur)
  <2> DEFINE f == active.kind.field
             word == sensor.ram[f]
             valid == ValidReturnedSetting(f, word)
             read == ApplyReadValue(belief, f, word)
             known == IF f \in CompensationFields
                      THEN [read EXCEPT !.compensation = f] ELSE read
  <2>1. CASE ~valid
    <3>1. FinishOperation("FAILED", "ACKNOWLEDGED", Unverify(belief, f), Heard,
                          poll.at + dur)
      BY <1>5, <2>1 DEF HearWrittenSetting
    <3> QED BY <3>1, FinishIsEnd
  <2>2. CASE valid /\ word # active.desired
    <3>1. FinishOperation("FAILED", "VERIFIED", read, Heard, poll.at + dur)
      BY <1>5, <2>2 DEF HearWrittenSetting
    <3> QED BY <3>1, FinishIsEnd
  <2>3. CASE valid /\ word = active.desired
    <3>1. FinishOperation("SUCCEEDED", "VERIFIED", known, Heard, poll.at + dur)
      BY <1>5, <2>3 DEF HearWrittenSetting
    <3> QED BY <3>1, FinishIsEnd
  <2> QED BY <2>1, <2>2, <2>3
<1>6. CASE HearSample(dur)
  <2>1. \E effect, b, a, at : FinishOperation("SUCCEEDED", effect, b, a, at)
    BY <1>6 DEF HearSample
  <2> QED BY <2>1, FinishIsEnd
<1>7. ASSUME NEW verdict \in BOOLEAN, HearAnswer(dur, verdict)
      PROVE  OperationEnds
  <2>1. PICK outcome \in {"SUCCEEDED", "FAILED"} :
          \E effect, b, a, at : FinishOperation(outcome, effect, b, a, at)
    BY <1>7 DEF HearAnswer
  <2> QED BY <2>1, FinishIsEnd
<1> QED BY <1>1, <1>2, <1>3, <1>4, <1>5, <1>6, <1>7

\* What an answer that does not end it leaves of the operation.
LEMMA MovedInTime ==
  ASSUME NEW o \in Operations, NEW q, NEW j, NEW n, NEW x, NEW c
  PROVE  /\ LET o2 == [o EXCEPT !.serial = x, !.index = j, !.phase = q, !.nextDue = n]
            IN o2.deadline = o.deadline /\ o2.nextDue = n
         /\ LET o2 == [o EXCEPT !.changed = c, !.index = j, !.phase = q, !.nextDue = n]
            IN o2.deadline = o.deadline /\ o2.nextDue = n
         /\ LET o2 == [o EXCEPT !.index = j, !.phase = q, !.nextDue = n]
            IN o2.deadline = o.deadline /\ o2.nextDue = n
         /\ LET o2 == [o EXCEPT !.phase = q]
            IN o2.deadline = o.deadline /\ o2.nextDue = o.nextDue
  BY DEF Operations

\* The serial number or the data-ready flag has been read.
LEMMA HearSerialInTime ==
  ASSUME DriverInv, DriverInv', BudgetInv, NEW dur \in Durations, HearSerial(dur)
  PROVE  StaysTimely
<1> DEFINE a == [Heard EXCEPT !.serial = sensor.serial, !.index = 1,
                              !.phase = "SEND_VERIFY_COMMAND",
                              !.nextDue = poll.at + dur]
<1>1. Answered(dur) /\ HearsSerial(active)
      /\ Proceed(a, belief, poll.at + dur, poll.left - 1)
  BY DEF HearSerial
<1>2. /\ Heard \in Operations /\ Heard.kind = active.kind
      /\ Heard.deadline = active.deadline
      /\ Heard.callbacksUsed = active.callbacksUsed + 1 /\ poll.at + dur \in Nat
  BY <1>1, AnswerCalls, AnsweredStep DEF DriverInv
<1>3. /\ a.kind = active.kind /\ a.phase = "SEND_VERIFY_COMMAND"
      /\ a.callbacksUsed = active.callbacksUsed + 1
      /\ a.deadline = active.deadline /\ a.nextDue = poll.at + dur
  <2> HIDE DEF Heard
  <2> QED BY <1>2, MovedOn, MovedInTime
<1>4. ~EndsWithSend(active.kind)
  BY <1>1 DEF HearsSerial, EndsWithSend, DiagnosticOps, ResetOps
<1>5. a.phase \in SendPhases /\ a.nextDue <= poll.at + dur
  BY <1>2, <1>3 DEF SendPhases
<1> HIDE DEF a
<1> QED BY <1>1, <1>3, <1>4, <1>5, HeardInTime

LEMMA HearReadyInTime ==
  ASSUME DriverInv, DriverInv', BudgetInv, NEW dur \in Durations,
         NEW ready \in BOOLEAN, HearReady(dur, ready)
  PROVE  StaysTimely
<1> DEFINE a == [Heard EXCEPT !.phase = "SEND_READ_COMMAND"]
<1>1. /\ Answered(dur) /\ active.kind.op \in MeasurementOps
      /\ active.phase = "READ_READY_RESPONSE"
  BY DEF HearReady
<1>2. /\ Heard \in Operations /\ Heard.kind = active.kind
      /\ Heard.deadline = active.deadline
      /\ Heard.callbacksUsed = active.callbacksUsed + 1 /\ poll.at + dur \in Nat
  BY <1>1, AnswerCalls, AnsweredStep DEF DriverInv
<1>3. CASE ready
  <2>1. Proceed(a, belief, poll.at + dur, poll.left - 1)
    BY <1>3 DEF HearReady
  <2>2. active.nextDue <= poll.at
    BY <1>1 DEF Answered, AttemptedRead, Transferring, Waiting
  <2>3. Heard.nextDue = active.nextDue
    BY DEF Heard, Attempted, DriverInv, IInv, SlotOK, Operations
  <2>4. /\ a.kind = active.kind /\ a.phase = "SEND_READ_COMMAND"
        /\ a.callbacksUsed = active.callbacksUsed + 1
        /\ a.deadline = active.deadline /\ a.nextDue = active.nextDue
    <3> HIDE DEF Heard
    <3> QED BY <1>2, <2>3, MovedOn, MovedInTime
  <2>5. ~EndsWithSend(active.kind)
    BY <1>1 DEF EndsWithSend, DiagnosticOps, MeasurementOps, SingleShotOps
  <2>6. a.phase \in SendPhases /\ a.nextDue <= poll.at + dur
    <3>1. poll.at \in Nat /\ active.nextDue \in Nat /\ dur \in Nat
      BY DriverAssumption DEF DriverInv, IInv, SlotOK, Operations, Polls
    <3>2. a.phase \in SendPhases
      BY <2>4 DEF SendPhases
    <3> HIDE DEF a
    <3> QED BY <2>2, <2>4, <3>1, <3>2
  <2> HIDE DEF a
  <2> QED BY <1>1, <2>1, <2>4, <2>5, <2>6, HeardInTime
<1>4. CASE ~ready
  <2>1. FinishOperation("NO_DATA", active.effect, belief, Heard, poll.at + dur)
    BY <1>4 DEF HearReady
  <2> QED BY <2>1, FinishIsEnd, EndsTimely
<1> QED BY <1>3, <1>4

\* A setting has been read.
LEMMA HearSettingInTime ==
  ASSUME DriverInv, DriverInv', BudgetInv, NEW dur \in Durations, HearSetting(dur)
  PROVE  StaysTimely
<1> DEFINE f == FieldRead(active)
           b == ApplyReadValue(belief, f, sensor.ram[f])
           whole == active.kind.op = "READ_CONFIGURATION"
           heard == IF whole THEN [Heard EXCEPT !.completed = @ \cup {f}] ELSE Heard
           a == [heard EXCEPT !.index = @ + 1, !.phase = "SEND_COMMAND",
                              !.nextDue = poll.at + dur]
<1>1. Answered(dur) /\ active.kind.op \in {"READ_SETTING", "READ_CONFIGURATION"}
  BY DEF HearSetting
<1>2. /\ Heard \in Operations /\ Heard.kind = active.kind
      /\ Heard.deadline = active.deadline /\ Heard.index = active.index
      /\ Heard.callbacksUsed = active.callbacksUsed + 1 /\ poll.at + dur \in Nat
      /\ Standing(active)
  BY <1>1, AnswerCalls, AnsweredStep DEF DriverInv
<1>3. CASE whole /\ active.index < LastFieldIndex
  <2>1. Proceed(a, b, poll.at + dur, poll.left - 1)
    BY <1>3 DEF HearSetting
  <2>2. f \in Fields
    BY <1>2, <1>3, FieldReadType
  <2>3. /\ heard.kind = active.kind /\ heard.deadline = active.deadline
        /\ heard.index = active.index
        /\ heard.callbacksUsed = active.callbacksUsed + 1 /\ heard \in Operations
    <3>1. ASSUME NEW g \in Fields
          PROVE  LET h == [Heard EXCEPT !.completed = @ \cup {g}]
                 IN /\ h.kind = Heard.kind /\ h.index = Heard.index
                    /\ h.deadline = Heard.deadline
                    /\ h.callbacksUsed = Heard.callbacksUsed /\ h \in Operations
      <4> HIDE DEF Heard
      <4> QED BY <1>2, <3>1 DEF Operations
    <3> HIDE DEF Heard, f
    <3> QED BY <1>2, <1>3, <2>2, <3>1
  <2>4. a = [heard EXCEPT !.index = active.index + 1, !.phase = "SEND_COMMAND",
                          !.nextDue = poll.at + dur]
    BY <2>3
  <2>5. /\ a.kind = active.kind /\ a.phase = "SEND_COMMAND"
        /\ a.callbacksUsed = active.callbacksUsed + 1
        /\ a.deadline = active.deadline /\ a.nextDue = poll.at + dur
    <3> HIDE DEF heard, a
    <3> QED BY <2>3, <2>4, MovedOn, MovedInTime
  <2> HIDE DEF a, b, heard, f
  <2>6. ~EndsWithSend(active.kind)
    BY <1>1 DEF EndsWithSend, DiagnosticOps
  <2>7. a.phase \in SendPhases /\ a.nextDue <= poll.at + dur
    BY <1>2, <2>5 DEF SendPhases
  <2> QED BY <1>1, <2>1, <2>5, <2>6, <2>7, HeardInTime
<1>4. CASE ~(whole /\ active.index < LastFieldIndex)
  <2>1. FinishOperation("SUCCEEDED", "NONE", b, heard, poll.at + dur)
    BY <1>4 DEF HearSetting
  <2> HIDE DEF heard, b
  <2> QED BY <2>1, FinishIsEnd, EndsTimely
<1> QED BY <1>3, <1>4

\* The word before a setting write has been read.
LEMMA HearPresentInTime ==
  ASSUME DriverInv, DriverInv', BudgetInv, NEW dur \in Durations, HearPresentSetting(dur)
  PROVE  StaysTimely
<1> DEFINE f == active.kind.field
           word == sensor.ram[f]
           valid == ValidReturnedSetting(f, word)
           b == IF valid THEN ApplyReadValue(belief, f, word) ELSE Unverify(belief, f)
           changed == word # active.desired
           selectionRequired == f \in CompensationFields /\ belief.compensation # f
           a == [Heard EXCEPT !.changed = changed, !.index = 1,
                              !.phase = "SEND_COMMAND", !.nextDue = poll.at + dur]
<1>1. Answered(dur) /\ active.kind.op = "SET_SETTING"
  BY DEF HearPresentSetting
<1>2. /\ Heard \in Operations /\ Heard.kind = active.kind
      /\ Heard.deadline = active.deadline
      /\ Heard.callbacksUsed = active.callbacksUsed + 1 /\ poll.at + dur \in Nat
  BY <1>1, AnswerCalls, AnsweredStep DEF DriverInv
<1>3. CASE changed \/ selectionRequired
  <2>1. Proceed(a, b, poll.at + dur, poll.left - 1)
    BY <1>3 DEF HearPresentSetting
  <2>2. /\ a.kind = active.kind /\ a.phase = "SEND_COMMAND"
        /\ a.callbacksUsed = active.callbacksUsed + 1
        /\ a.deadline = active.deadline /\ a.nextDue = poll.at + dur
    <3> HIDE DEF Heard, changed
    <3> QED BY <1>2, MovedOn, MovedInTime
  <2> HIDE DEF a, b
  <2>3. ~EndsWithSend(active.kind)
    BY <1>1 DEF EndsWithSend, DiagnosticOps
  <2>4. a.phase \in SendPhases /\ a.nextDue <= poll.at + dur
    BY <1>2, <2>2 DEF SendPhases
  <2> QED BY <1>1, <2>1, <2>2, <2>3, <2>4, HeardInTime
<1>4. CASE ~(changed \/ selectionRequired)
  <2>1. \/ FinishOperation("SUCCEEDED", "VERIFIED", b, Heard, poll.at + dur)
        \/ FinishOperationFailure("ERROR", b, Heard, "NONE", poll.at + dur)
    BY <1>4 DEF HearPresentSetting
  <2> HIDE DEF b
  <2> QED BY <2>1, FinishIsEnd, FailureIsEnd, EndsTimely
<1> QED BY <1>3, <1>4

\* An iteration without a call neither takes time nor moves the due instant.
LEMMA QuietInTime ==
  ASSUME DriverInv, BudgetInv,
         \/ PollBreak \/ GateDefers \/ NotDue \/ WaitOver \/ CommandSettled
         \/ PersistShortcut \/ BudgetExhausted
  PROVE  StaysTimely
<1> DEFINE k == active.kind
           c == active.callbacksUsed
<1>1. poll.on
  BY DEF PollBreak, GateDefers, NotDue, WaitOver, WaitIsOver, CommandSettled,
         PersistShortcut, BudgetExhausted, Transferring, Working
<1>2. /\ activeValid /\ ~terminalValid /\ active \in Operations
      /\ active.nextDue \in Nat /\ nextSafe \in Nat /\ poll.at = 0 /\ poll.left = 1
  BY <1>1, PollingFacts
<1>3. Timely
  BY DEF BudgetInv
<1>4. CASE PollBreak \/ NotDue
  <2>1. /\ UNCHANGED <<activeValid, active, terminalValid, terminal>>
        /\ UNCHANGED nextSafe /\ ~poll'.on /\ active.nextDue > 0
    <3>1. UNCHANGED <<activeValid, active, terminalValid, terminal>> /\ Quiet
      BY <1>4 DEF PollBreak, NotDue
    <3>2. poll' = NotPolling /\ active.nextDue > poll.at
      BY <1>4 DEF PollBreak, NotDue
    <3> QED BY <1>2, <3>1, <3>2 DEF Quiet, NotPolling
  <2>2. Due > 0 /\ Due' = Due
    BY <1>2, <2>1 DEF Due
  <2>3. Timely'
    BY <1>2, <1>3, <2>1, <2>2 DEF Timely
  <2> QED BY <1>2, <2>1, <2>3 DEF StaysTimely
<1>5. CASE GateDefers
  <2> DEFINE a == [active EXCEPT !.nextDue = nextSafe]
  <2>1. /\ Proceed(a, belief, poll.at, poll.left) /\ UNCHANGED nextSafe
        /\ nextSafe > 0 /\ active.nextDue <= 0
    BY <1>2, <1>5 DEF GateDefers, Quiet
  <2>2. /\ a.kind = k /\ a.callbacksUsed = c /\ a.deadline = active.deadline
        /\ a.nextDue = nextSafe
    BY <1>2 DEF Operations
  <2> HIDE DEF a
  <2>3. /\ active' = a /\ UNCHANGED <<activeValid, terminalValid, terminal>>
        /\ ~poll'.on
    BY <1>2, <2>1, <2>2 DEF Proceed, NotPolling
  <2>4. Due = nextSafe /\ Due' = nextSafe
    BY <1>2, <2>1, <2>2, <2>3 DEF Due
  <2>5. Timely'
    BY <1>2, <1>3, <2>1, <2>2, <2>3, <2>4 DEF Timely
  <2> QED BY <1>2, <2>3, <2>5 DEF StaysTimely
<1>6. CASE WaitOver
  <2> DEFINE a == [active EXCEPT !.phase = PhaseAfterWait(active)]
  <2>1. /\ nextSafe <= 0 /\ active.nextDue <= 0 /\ active.phase \in WaitPhases
        /\ UNCHANGED nextSafe
    BY <1>2, <1>6 DEF WaitOver, WaitIsOver, Working, Quiet
  <2>2. PICK b : Proceed(a, b, poll.at, poll.left)
    BY <1>6 DEF WaitOver
  <2>3. /\ a.kind = k /\ a.callbacksUsed = c /\ a.deadline = active.deadline
        /\ a.nextDue = active.nextDue
    BY <1>2 DEF Operations
  <2> HIDE DEF a
  <2>4. poll.spins + 1 # 32
    <3>1. poll.spins \in Nat /\ poll.spins <= 2
      BY <1>1 DEF BudgetInv, Spinning, DriverInv, IInv, SlotOK, Polls, MaxTransitions
    <3> QED BY <3>1
  <2>5. /\ active' = a /\ UNCHANGED <<activeValid, terminalValid, terminal>>
        /\ poll' = [on |-> TRUE, left |-> poll.left, at |-> poll.at,
                    used |-> poll.used + (poll.left - poll.left),
                    spins |-> poll.spins + 1]
    <3>1. ~(poll.left = 0 \/ a.nextDue > poll.at)
      BY <1>2, <2>1, <2>3
    <3> QED BY <2>2, <2>4, <3>1 DEF Proceed, MaxTransitions
  <2>6. poll'.on /\ poll'.at = 0 /\ poll'.left = 1
    BY <1>2, <2>5
  <2>7. Due <= 0 /\ Due' = Due
    BY <1>2, <2>1, <2>3, <2>5 DEF Due
  <2>8. Timely'
    BY <1>1, <1>2, <1>3, <2>3, <2>5, <2>6, <2>7 DEF Timely
  <2> QED BY <1>2, <2>5, <2>6, <2>8 DEF StaysTimely
<1>7. CASE CommandSettled
  <2>1. \E effect, b, a, at : FinishOperation("SUCCEEDED", effect, b, a, at)
    BY <1>7 DEF CommandSettled
  <2> QED BY <2>1, FinishIsEnd, EndsTimely
<1>8. CASE PersistShortcut
  <2>1. PICK outcome \in {"INDETERMINATE", "SUCCEEDED"} :
          \E effect, b, a, at : FinishOperation(outcome, effect, b, a, at)
    BY <1>8 DEF PersistShortcut
  <2> QED BY <2>1, FinishIsEnd, EndsTimely
<1>9. ~BudgetExhausted
  BY <1>2 DEF BudgetExhausted
<1> QED BY <1>4, <1>5, <1>6, <1>7, <1>8, <1>9

\* No iteration of a poll costs a request its deadline.
LEMMA LoopInTime ==
  ASSUME DriverInv, DriverInv', BudgetInv, LoopStep
  PROVE  StaysTimely
<1>1. CASE \/ PollBreak \/ GateDefers \/ NotDue \/ WaitOver \/ CommandSettled
           \/ PersistShortcut \/ BudgetExhausted
  BY <1>1, QuietInTime
<1>2. ASSUME NEW dur \in Durations, NEW r \in EffectfulOutcomes \cup PlainOutcomes,
             Send(r, dur) \/ SendLast(r, dur) \/ SendFails(r, dur) \/ ReadFails(r, dur)
      PROVE  StaysTimely
  BY <1>2, SendInTime, SendIsEnd, EndsTimely
<1>3. ASSUME NEW dur \in Durations,
             \/ HearSerial(dur) \/ IdentityRefused(dur) \/ IdentityConfirmed(dur)
             \/ HearVariant(dur) \/ HearInvalidSetting(dur) \/ HearSetting(dur)
             \/ HearPresentSetting(dur) \/ HearWrittenSetting(dur) \/ HearSample(dur)
             \/ \E verdict \in BOOLEAN : HearAnswer(dur, verdict) \/ HearReady(dur, verdict)
      PROVE  StaysTimely
  BY <1>3, AnswersEnd, EndsTimely, HearSerialInTime, HearSettingInTime,
     HearPresentInTime, HearReadyInTime
<1> QED BY <1>1, <1>2, <1>3 DEF LoopStep

\* What is known of the operation between polls: any round ends before the
\* deadline.
LEMMA BetweenPolls ==
  ASSUME DriverInv, BudgetInv, activeValid, ~poll.on
  PROVE  LET k == active.kind
             c == active.callbacksUsed
         IN /\ ~terminalValid /\ active \in Operations /\ nextSafe \in Nat
            /\ active.nextDue \in Nat /\ active.deadline \in Nat /\ Due \in Nat
            /\ Slack(k) \in Nat /\ TimeLeft(k, c) \in Nat \ {0}
            /\ \A d \in Advances \ {0} : d <= Slack(k) + 1
            /\ active.deadline >= TimeLeft(k, c)
                 + IF Due > 0 THEN Due + Slack(k) ELSE 1 + Slack(k)
            /\ \A d \in Advances : d < active.deadline
<1> DEFINE k == active.kind
           c == active.callbacksUsed
<1>1. /\ ~terminalValid /\ active \in Operations /\ nextSafe \in Nat
      /\ active.nextDue \in Nat /\ active.deadline \in Nat
      /\ Standing(active) /\ c = Count(active)
  BY ActiveStands DEF DriverInv, IInv, SlotOK, BusOK, SlotInv, Counted, Operations
<1>2. k \in Kinds /\ c \in 0 .. MaxCallbacks(k)
  BY <1>1, CallsAreBounded DEF Count, Standing
<1>3. /\ Slack(k) \in Nat /\ TimeLeft(k, c) \in Nat \ {0}
      /\ \A d \in Advances \ {0} : d <= Slack(k) + 1
  BY <1>2, SlackFits, CallsAndTimes
<1>4. Due \in Nat
  BY <1>1 DEF Due
<1>5. active.deadline >= TimeLeft(k, c) + IF Due > 0 THEN Due + Slack(k) ELSE 1 + Slack(k)
  BY DEF BudgetInv, Timely
<1>6. ASSUME NEW d \in Advances PROVE d < active.deadline
  <2>1. d = 0 \/ (d \in Nat /\ d <= Slack(k) + 1)
    BY <1>3, DriverAssumption
  <2> HIDE DEF k, c
  <2> QED BY <1>1, <1>3, <1>4, <1>5, <2>1
<1> QED BY <1>1, <1>3, <1>4, <1>5, <1>6

\* Between polls the owner's clock brings the due instant and the deadline
\* nearer together; a round that is due is not longer than the slack.
LEMMA EnterPollInTime ==
  ASSUME DriverInv, BudgetInv, NEW d \in Advances \ {0}, EnterPoll(1, d)
  PROVE  StaysTimely
<1> DEFINE k == active.kind
           c == active.callbacksUsed
<1>0. ~poll.on /\ UNCHANGED bound /\ nextSafe' = Elapse(nextSafe, d)
  BY DEF EnterPoll, Pass
<1>1. CASE ~activeValid
  BY <1>0, <1>1 DEF EnterPoll, StaysTimely, Timely, BudgetInv
<1>2. CASE activeValid
  <2>1. /\ ~terminalValid /\ active \in Operations /\ nextSafe \in Nat
        /\ active.nextDue \in Nat /\ active.deadline \in Nat
    BY <1>0, <1>2, BetweenPolls
  <2>3. Slack(k) \in Nat /\ TimeLeft(k, c) \in Nat \ {0} /\ d <= Slack(k) + 1
    BY <1>0, <1>2, BetweenPolls
  <2>4. d \in Nat /\ d > 0
    BY DriverAssumption
  <2>5. Due \in Nat
    BY <1>0, <1>2, BetweenPolls
  <2>6. active.deadline >= TimeLeft(k, c)
          + IF Due > 0 THEN Due + Slack(k) ELSE 1 + Slack(k)
    BY <1>0, <1>2, BetweenPolls
  <2>7. active.deadline > d
    BY <1>0, <1>2, <2>1, <2>4, BetweenPolls
  <2>8. /\ active' = Aged(active, d) /\ poll' = [NotPolling EXCEPT !.on = TRUE, !.left = 1]
        /\ UNCHANGED <<activeValid, terminalValid, terminal>>
    BY <1>2, <2>7 DEF EnterPoll
  <2>9. /\ active'.kind = k /\ active'.callbacksUsed = c
        /\ active'.nextDue = Elapse(active.nextDue, d)
        /\ active'.deadline = active.deadline - d
    <3>1. Elapse(active.deadline, d) = active.deadline - d
      BY <2>7 DEF Elapse
    <3> QED BY <2>1, <2>8, <3>1 DEF Aged, Operations
  <2>10. poll'.on /\ poll'.at = 0 /\ poll'.left = 1
    BY <2>8 DEF NotPolling
  <2>11. Due' = Elapse(Due, d)
    BY <1>0, <2>1, <2>4, <2>9 DEF Due, Elapse
  <2>12. Timely'
    <3>1. active'.deadline >= TimeLeft(k, c) + IF Due' > 0 THEN Due' + Slack(k) ELSE 0
      <4> HIDE DEF k, c
      <4>1. CASE Due > d
        <5>1. Due' = Due - d /\ Due' > 0
          BY <2>4, <2>5, <2>11, <4>1 DEF Elapse
        <5> QED BY <2>1, <2>3, <2>4, <2>5, <2>6, <2>9, <4>1, <5>1
      <4>2. CASE ~(Due > d)
        <5>1. Due' = 0
          BY <2>11, <4>2 DEF Elapse
        <5> QED BY <2>1, <2>3, <2>4, <2>5, <2>6, <2>9, <4>2, <5>1
      <4> QED BY <4>1, <4>2
    <3> QED BY <2>9, <2>10, <3>1 DEF Timely
  <2> QED BY <2>1, <2>8, <2>10, <2>12 DEF StaysTimely
<1> QED BY <1>1, <1>2

-----------------------------------------------------------------------------
(* The calls of the loop, in time.                                         *)

\* What MaxWaitMs publishes holds after any power-up delay up to the largest.
LEMMA PowerUpFits ==
  ASSUME NEW k \in Kinds, NEW p \in 0 .. PowerUpDelayMax
  PROVE  /\ MaxWaitMs(k, 0) \in Nat /\ MaxWaitMs(k, PowerUpDelayMax) \in Nat
         /\ MaxWaitMs(k, 0) + (IF k.op = "ATTACH" THEN p ELSE 0)
              <= MaxWaitMs(k, PowerUpDelayMax)
<1>1. /\ PowerUpDelayMax \in Nat /\ MaxWaitMs(k, 0) \in Nat
  <2>1. MaxWaitMs(k, 0) = WaitLeft(k, 0)
    BY DEF WaitLeft
  <2> QED BY <2>1, WaitsFit, CliAssumption
<1>2. CASE k.op = "ATTACH"
  <2>1. /\ MaxWaitMs(k, 0) = AttachWait(0)
        /\ MaxWaitMs(k, PowerUpDelayMax) = AttachWait(PowerUpDelayMax)
    BY <1>2, MaxWaitCases
  <2>2. /\ SettleMs["SHORT"] \in Nat /\ SettleMs["POWER_UP"] \in Nat
        /\ SettleMs["STOP_PERIODIC"] \in Nat
    BY WaitTypes DEF WaitNames
  <2>3. AttachWait(PowerUpDelayMax) = AttachWait(0) + PowerUpDelayMax
    BY <1>1, <2>2 DEF AttachWait
  <2> QED BY <1>1, <1>2, <2>1, <2>3
<1>3. CASE k.op # "ATTACH"
  <2>1. MaxWaitMs(k, 0) = MaxWaitMs(k, PowerUpDelayMax)
    BY <1>3 DEF MaxWaitMs
  <2> QED BY <1>1, <1>3, <2>1
<1> QED BY <1>2, <1>3

\* operationBudgetMs() leaves a new request the time it needs.
LEMMA StartInTime ==
  ASSUME DriverInv, BudgetInv, NEW k \in Kinds, NEW id, NEW w, NEW d,
         Start(k, id, w, OperationBudget(k), d)
  PROVE  StaysTimely
<1> DEFINE m == MaxCallbacks(k)
           s == Slack(k)
           t == TransferTimeout
           p == IF k.op = "ATTACH" THEN config.powerUpDelayMs ELSE 0
           w0 == MaxWaitMs(k, 0)
           w1 == MaxWaitMs(k, PowerUpDelayMax)
<1>1. /\ ~poll.on /\ bound /\ ~terminalValid /\ UNCHANGED <<terminalValid, terminal, poll>>
      /\ activeValid' = TRUE /\ nextSafe' = 0
      /\ active'.kind = k /\ active'.callbacksUsed = 0
      /\ active'.deadline = OperationBudget(k) /\ active'.nextDue = p
  BY DEF Start, Startable, NoOperation
<1>2. /\ p \in Nat /\ w0 \in Nat /\ w1 \in Nat /\ w0 + p <= w1
  <2>1. config.powerUpDelayMs \in 0 .. PowerUpDelayMax
    <3>1. config \in Configs
      BY <1>1 DEF BudgetInv
    <3> QED BY <3>1, CliAssumption, DriverAssumption DEF Configurations
  <2>2. CASE k.op = "ATTACH"
    BY <2>1, <2>2, PowerUpFits
  <2>3. CASE k.op # "ATTACH"
    BY <2>1, <2>3, PowerUpFits
  <2> QED BY <2>2, <2>3
<1>3. /\ m \in Nat /\ s \in Nat /\ t \in Nat /\ Margin \in Nat
      /\ m * s + s + 2 <= Margin /\ m * s \in Nat /\ m * t \in Nat
  BY MaxCallbacksCases, SlackFits, CliAssumption
<1>4. TimeLeft(k, 0) = m * s + m * t + w0 + 1
  <2>1. m - 0 = m /\ m * (s + t) = m * s + m * t
    BY <1>3
  <2> QED BY <2>1 DEF TimeLeft, CallsLeft, WaitLeft
<1>5. OperationBudget(k) = w1 + m * t + Margin
  BY DEF OperationBudget
<1>6. Due' = p
  BY <1>1, <1>2 DEF Due
<1> HIDE DEF m, s, t, p, w0, w1
<1>7. OperationBudget(k) >= TimeLeft(k, 0) + IF p > 0 THEN p + s ELSE 1 + s
  <2> DEFINE x == m * s
             y == m * t
  <2>1. x \in Nat /\ y \in Nat /\ x + s + 2 <= Margin
        /\ TimeLeft(k, 0) = x + y + w0 + 1 /\ OperationBudget(k) = w1 + y + Margin
    BY <1>3, <1>4, <1>5
  <2> HIDE DEF x, y
  <2> QED BY <1>2, <1>3, <2>1
<1>8. Timely'
  BY <1>1, <1>6, <1>7 DEF Timely, s
<1> QED BY <1>1, <1>8 DEF StaysTimely

\* The other calls of the loop.
LEMMA OtherCallsInTime ==
  ASSUME DriverInv, BudgetInv,
         \/ UNCHANGED vars \/ TakeResult(terminal.id) \/ End
         \/ (\E c \in Configs : Begin(c)) \/ \E id, d : Cancel(id, d)
  PROVE  StaysTimely
<1>1. CASE UNCHANGED vars
  <2>1. UNCHANGED <<activeValid, active, terminalValid, terminal, nextSafe, poll>>
    BY <1>1 DEF vars, driverVars
  <2> QED BY <2>1 DEF BudgetInv, StaysTimely, Timely, Due
<1>2. CASE TakeResult(terminal.id) \/ \E c \in Configs : Begin(c)
  <2>1. ~poll'.on /\ ~activeValid' /\ ~terminalValid'
    BY <1>2 DEF TakeResult, Begin, DriverInv, SlotInv, Counted
  <2> QED BY <2>1 DEF StaysTimely, Timely
<1>3. CASE End
  <2>1. ~poll'.on
    BY <1>3 DEF End
  <2>2. CASE activeValid
    <3>1. ~activeValid' /\ terminal'.outcome = "CANCELLED"
      BY <1>3, <2>2 DEF End
    <3> QED BY <2>1, <3>1, EndsTimely DEF OperationEnds
  <2>3. CASE ~activeValid
    <3>1. ~activeValid' /\ UNCHANGED <<terminal, terminalValid>>
      BY <1>3, <2>3 DEF End
    <3> QED BY <2>1, <3>1 DEF BudgetInv, StaysTimely, Timely
  <2> QED BY <2>2, <2>3
<1>4. ASSUME NEW id, NEW d, Cancel(id, d) PROVE StaysTimely
  <2>1. \E effect, b, a, at : FinishOperation("CANCELLED", effect, b, a, at)
    BY <1>4 DEF Cancel
  <2> QED BY <2>1, FinishIsEnd, EndsTimely
<1> QED BY <1>1, <1>2, <1>3, <1>4

\* What the loop does with the driver.
LoopCall ==
  \/ LoopStep
  \/ \E d \in Advances \ {0} : EnterPoll(1, d)
  \/ \E k \in Kinds, d \in Advances : \E w :
       Start(k, nextRequestId, w, OperationBudget(k), d)
  \/ TakeResult(terminal.id) \/ End \/ (\E c \in Configs : Begin(c))
  \/ (\E id, d : Cancel(id, d)) \/ UNCHANGED vars

\* Every call of the loop is one of these.
LEMMA LoopCalls ==
  ASSUME OwnerInv, [CliNext]_allVars
  PROVE  LoopCall
<1>1. ASSUME NEW k \in Kinds, NEW w, NEW d \in Advances, StartOperation(k, w, d)
      PROVE  LoopCall
  <2>1. Start(k, nextRequestId, w, OperationBudget(k), d) \/ UNCHANGED vars
    BY <1>1 DEF StartOperation
  <2> QED BY <2>1 DEF LoopCall
<1>2. CASE UNCHANGED allVars
  BY <1>2 DEF allVars, LoopCall
<1>3. CASE Poll \/ Polling \/ Take \/ Bind \/ Unbinding
  BY <1>3 DEF Poll, Polling, Take, Bind, Unbinding, LoopCall
<1>4. ASSUME NEW d \in Advances, Service(d) PROVE LoopCall
  <2>1. CASE HasNext(workflow) /\ SlotIdle /\ nextSafe <= d
    <3>1. StartOperation(OperationForStep(workflow), NoWord, d)
      BY <1>4, <2>1 DEF Service
    <3>2. OperationForStep(workflow) \in Kinds
      BY <2>1, StepsObserve DEF OwnerInv, HasNext, WorkflowOK, WorkflowActive, Workflows
    <3> QED BY <1>1, <3>1, <3>2
  <2>2. CASE ~(HasNext(workflow) /\ SlotIdle /\ nextSafe <= d)
    BY <1>4, <2>2 DEF Service, LoopCall
  <2> QED BY <2>1, <2>2
<1>5. ASSUME NEW d \in Advances, Attach(d) \/ Probe(d) PROVE LoopCall
  <2>1. Kind("ATTACH") \in Kinds /\ Kind("READ_IDENTITY") \in Kinds
    BY DEF Kinds, Kind, PlainOps, ReadOps
  <2> QED BY <1>1, <1>5, <2>1 DEF Attach, Probe
<1>6. CASE ProcessCommand
  <2>1. ASSUME NEW d \in Advances, NEW k \in UsedKinds, Request(k, d) PROVE LoopCall
    <3>1. k \in Kinds /\ \E w : StartOperation(k, w, d)
      BY <2>1, DriverAssumption DEF Request
    <3> QED BY <1>1, <3>1
  <2>2. ASSUME NEW d \in Advances, CancelCommand(d) PROVE LoopCall
    BY <2>2 DEF CancelCommand, LoopCall
  <2>3. CASE NoCommand \/ BeginCommand \/ EndCommand \/ ProbeCommand
               \/ \E d \in Advances : Scan(d)
    BY <2>3 DEF NoCommand, BeginCommand, EndCommand, ProbeCommand, Obey, Scan, LoopCall
  <2>4. CASE \E kind \in WorkflowKinds, cycles \in Cycles : StartWorkflow(kind, cycles)
    BY <2>4 DEF StartWorkflow, LoopCall
  <2> QED BY <1>6, <2>1, <2>2, <2>3, <2>4 DEF ProcessCommand
<1> QED BY <1>2, <1>3, <1>4, <1>5, <1>6 DEF CliNext

\* Only begin() and end() bind.
LEMMA LoopStaysBound ==
  ASSUME LoopStep
  PROVE  UNCHANGED <<bound, config>>
<1>1. CASE \/ PollBreak \/ GateDefers \/ NotDue \/ WaitOver \/ CommandSettled
           \/ PersistShortcut \/ BudgetExhausted
  <2>1. Quiet
    BY <1>1 DEF PollBreak, GateDefers, NotDue, WaitOver, CommandSettled, PersistShortcut,
       BudgetExhausted
  <2> QED BY <2>1 DEF Quiet
<1>2. ASSUME NEW leg, NEW r, NEW dur, AttemptedLeg(leg, r, dur)
      PROVE  UNCHANGED <<bound, config>>
  BY <1>2 DEF AttemptedLeg, Exchange
<1>3. ASSUME NEW r, NEW dur, AttemptedRead(r, dur)
      PROVE  UNCHANGED <<bound, config>>
  BY <1>3 DEF AttemptedRead, Exchange
<1>4. ASSUME NEW dur, NEW r,
             Send(r, dur) \/ SendLast(r, dur) \/ SendFails(r, dur) \/ ReadFails(r, dur)
      PROVE  UNCHANGED <<bound, config>>
  BY <1>2, <1>3, <1>4 DEF Send, SendLast, SendFails, ReadFails
<1>5. ASSUME NEW dur,
             \/ HearSerial(dur) \/ IdentityRefused(dur) \/ IdentityConfirmed(dur)
             \/ HearVariant(dur) \/ HearInvalidSetting(dur) \/ HearSetting(dur)
             \/ HearPresentSetting(dur) \/ HearWrittenSetting(dur) \/ HearSample(dur)
             \/ \E verdict \in BOOLEAN : HearAnswer(dur, verdict) \/ HearReady(dur, verdict)
      PROVE  UNCHANGED <<bound, config>>
  <2>1. Answered(dur)
    BY <1>5, Zenon DEF HearSerial, IdentityRefused, IdentityConfirmed, HearVariant,
       HearInvalidSetting, HearSetting, HearPresentSetting, HearWrittenSetting, HearSample,
       HearAnswer, HearReady
  <2> QED BY <1>3, <2>1 DEF Answered
<1> QED BY <1>1, <1>4, <1>5 DEF LoopStep

\* Every call of the loop keeps all requests in time.
LEMMA CallsInTime ==
  ASSUME DriverInv, DriverInv', BudgetInv, LoopCall
  PROVE  BudgetInv'
<1>1. CASE LoopStep
  <2>1. StaysTimely /\ UNCHANGED <<bound, config>>
    BY <1>1, LoopInTime, LoopStaysBound
  <2>2. Spinning'
    BY <1>1, NextTells DEF Next, DriverInv, BudgetInv
  <2> QED BY <2>1, <2>2 DEF StaysTimely, BudgetInv
<1>2. ASSUME NEW d \in Advances \ {0}, EnterPoll(1, d) PROVE BudgetInv'
  <2>1. StaysTimely /\ UNCHANGED <<bound, config>>
    BY <1>2, EnterPollInTime DEF EnterPoll
  <2>2. poll'.on => poll'.used = 0 /\ poll'.spins = 0
    <3>1. CASE activeValid /\ active.deadline > d
      <4>1. poll' = [NotPolling EXCEPT !.on = TRUE, !.left = 1]
        BY <1>2, <3>1 DEF EnterPoll
      <4> QED BY <4>1 DEF NotPolling
    <3>2. CASE activeValid /\ ~(active.deadline > d)
      <4>1. FinishOperationFailure("TIMEOUT", belief, active, lastEffectful, d)
        BY <1>2, <3>2 DEF EnterPoll
      <4>2. poll' = NotPolling
        BY <4>1 DEF FinishOperationFailure, FinishOperation
      <4> QED BY <4>2 DEF NotPolling
    <3>3. CASE ~activeValid
      BY <1>2, <3>3 DEF EnterPoll
    <3> QED BY <3>1, <3>2, <3>3
  <2>3. Spinning'
    BY <2>2 DEF Spinning
  <2> QED BY <2>1, <2>3 DEF StaysTimely, BudgetInv
<1>3. ASSUME NEW k \in Kinds, NEW d, NEW w,
             Start(k, nextRequestId, w, OperationBudget(k), d)
      PROVE  BudgetInv'
  <2>1. StaysTimely /\ UNCHANGED <<bound, config>> /\ ~poll'.on
    BY <1>3, StartInTime DEF Start
  <2> QED BY <2>1 DEF StaysTimely, BudgetInv, Spinning
<1>4. CASE \/ TakeResult(terminal.id) \/ End \/ (\E c \in Configs : Begin(c))
           \/ \E id, d : Cancel(id, d)
  <2>1. StaysTimely
    BY <1>4, OtherCallsInTime
  <2>2. ~poll'.on
    BY <1>4 DEF TakeResult, End, Begin, Cancel, FinishOperation, NotPolling
  <2>3. bound' => config' \in Configs
    BY <1>4 DEF TakeResult, End, Begin, Cancel, BudgetInv
  <2> QED BY <2>1, <2>2, <2>3 DEF StaysTimely, BudgetInv, Spinning
<1>5. CASE UNCHANGED vars
  <2>1. StaysTimely
    BY <1>5, OtherCallsInTime
  <2>2. UNCHANGED <<bound, config, poll, active>>
    BY <1>5 DEF vars, driverVars
  <2> QED BY <2>1, <2>2 DEF StaysTimely, BudgetInv, Spinning
<1> QED BY <1>1, <1>2, <1>3, <1>4, <1>5 DEF LoopCall

\* The time left covers every round between polls, and every call that is left.
LEMMA TimeRemains ==
  ASSUME DriverInv, BudgetInv
  PROVE  BudgetSuffices
<1>1. ASSUME activeValid, ~poll.on, NEW d \in Advances PROVE d < active.deadline
  BY <1>1, BetweenPolls
<1>2. ASSUME Transferring, NEW dur \in Durations PROVE poll.at + dur < active.deadline
  <2> DEFINE k == active.kind
             c == active.callbacksUsed
  <2>1. poll.on /\ active.phase \in SendPhases \cup ReadPhases
    BY <1>2 DEF Transferring, Working
  <2>2. /\ k \in Kinds /\ c \in 0 .. MaxCallbacks(k) /\ Standing(active)
        /\ c = Count(active) /\ c \in Nat /\ poll.at = 0
        /\ active.deadline \in Nat /\ active.deadline >= TimeLeft(k, c)
    BY <2>1, PollingFacts
  <2>3. c + 1 <= MaxCallbacks(k)
    BY <2>1, <2>2, CallsAreBounded DEF Count
  <2>4. /\ CallsLeft(k, c + 1) \in Nat /\ Slack(k) \in Nat
        /\ CallsLeft(k, c) = CallsLeft(k, c + 1) + Slack(k) + TransferTimeout
        /\ WaitLeft(k, c) \in Nat
    BY <2>2, <2>3, SlackFits, CallsAndTimes, WaitsFit
  <2>5. dur \in Nat /\ dur <= TransferTimeout /\ TransferTimeout \in Nat
    BY CliAssumption, DriverAssumption
  <2>6. TimeLeft(k, c) = CallsLeft(k, c) + WaitLeft(k, c) + 1
    BY DEF TimeLeft
  <2> HIDE DEF k, c
  <2>7. TimeLeft(k, c) > TransferTimeout
    BY <2>4, <2>5, <2>6
  <2> QED BY <2>2, <2>4, <2>5, <2>6, <2>7
<1> QED BY <1>1, <1>2, Zenon DEF BudgetSuffices

\* No request that the loop makes is lost to its deadline, whatever the sensor
\* and the bus answer and however long each transfer takes up to its limit: no poll
\* and no call of it ends at or after the deadline (_timeReached in poll(), _step()
\* and _attemptTransfer()), so none ends TIMED_OUT, PARTIAL or INDETERMINATE for it;
\* the published limits bound the calls and the waits, and the margin all that
\* the rounds of the loop add.
THEOREM DeadlinesAreEnough == CliSpec => []BudgetSuffices
<1>1. CliInit => BudgetInv
  BY DEF CliInit, Init, NotPolling, BudgetInv, Timely, Spinning
<1>2. DriverInv /\ OwnerInv /\ DriverInv' /\ BudgetInv /\ [CliNext]_allVars => BudgetInv'
  BY LoopCalls, CallsInTime
<1>3. DriverInv /\ BudgetInv => BudgetSuffices
  BY TimeRemains
<1> QED BY <1>1, <1>2, <1>3, LoopInvariance, PTL DEF CliSpec
=============================================================================
