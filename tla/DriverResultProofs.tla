-------------------------- MODULE DriverResultProofs --------------------------
(***************************************************************************)
(* What the owner may conclude from a result and from the dirty settings.  *)
(*                                                                         *)
(* First, what a result says of its operation: a command that has changed  *)
(* the sensor shows in the effect of the result, however the operation     *)
(* ended, and the outcome of READ_CONFIGURATION says whether all, some or  *)
(* none of the fields were read.  Results are made in twenty places, from  *)
(* what the active operation has recorded so far.  The invariant is about  *)
(* that record: Owned says that it is right in every phase, so that any of *)
(* those places may end the operation.                                     *)
(*                                                                         *)
(* Second, no setting is lost unnoticed: in a behaviour in which nobody    *)
(* replaces or power-cycles the sensor, every setting that the sensor      *)
(* holds in RAM only is dirty, and a PERSIST_SETTINGS that succeeds has    *)
(* saved them all.  Two arguments meet there.  A write that the sensor may *)
(* have taken makes its field dirty before anybody reads the answer; and   *)
(* whatever cleans the set comes after a command that the sensor is known  *)
(* to have taken, or after finding another sensor, which cannot be without *)
(* somebody's interference.                                                *)
(***************************************************************************)
EXTENDS DriverTruthProofs

\* An effect that does not hide a change of the sensor: only a wake has a
\* weaker one, and its result asks for reconciliation.
Told(op, effect, doubted) ==
  \/ effect \in {"ACKNOWLEDGED", "VERIFIED", "UNKNOWN"}
  \/ effect = "ATTEMPTED" /\ op \in {"ATTACH", "WAKE_UP"} /\ doubted

\* The fields that READ_CONFIGURATION has read when it comes to the next.
FieldsBefore(n) == {FieldOrder[j] : j \in 1 .. n}

\* The record of an active operation.
Owned(a, b, altered) ==
  /\ a.attempted => IsEffectful(a.kind)
  /\ IsEffectful(a.kind) => a.effect # "NONE"
  /\ altered => /\ a.attempted /\ a.callbacksUsed > 0
                /\ Told(a.kind.op, a.effect, b.reconciliationRequired)
  /\ a.kind.op = "ATTACH" /\ a.phase \notin {"WAIT_POWER_UP", "SEND_WAKE"}
       => Told(a.kind.op, a.effect, b.reconciliationRequired)
  /\ a.kind.op = "PERSIST_SETTINGS" /\ a.phase = "SEND_COMMAND" => ~a.attempted
  /\ a.kind.op = "READ_CONFIGURATION" => a.completed = FieldsBefore(a.index)

\* The outcome of READ_CONFIGURATION tells how many fields were read.
Whole(outcome, completed) ==
  /\ outcome = "SUCCEEDED" => completed = Fields
  /\ outcome = "PARTIAL" => completed \notin {{}, Fields}
  /\ outcome = "CANCELLED" => completed # Fields
  /\ outcome \notin {"SUCCEEDED", "PARTIAL", "CANCELLED"} => completed = {}

ResultInv ==
  /\ ~activeValid /\ ~terminalValid => ~truth.altered
  /\ activeValid => Owned(active, belief, truth.altered)
  /\ terminalValid /\ truth.altered
       => Told(terminal.kind.op, terminal.effect, terminal.reconciliationRequired)
  /\ terminalValid /\ terminal.kind.op = "READ_CONFIGURATION"
       => Whole(terminal.outcome, terminal.completed)
-----------------------------------------------------------------------------
(* The fields in their order.                                              *)

\* With all seven the configuration is whole, with fewer it is not.
LEMMA FieldsInOrder ==
  /\ FieldsBefore(0) = {}
  /\ FieldsBefore(7) = Fields
  /\ \A n \in 0 .. 6 : /\ FieldsBefore(n) # Fields
                       /\ FieldsBefore(n + 1) = FieldsBefore(n) \cup {FieldOrder[n + 1]}
<1>1. FieldsBefore(0) = {}
  BY DEF FieldsBefore
<1>2. FieldsBefore(7) = Fields
  <2>1. \A f : f \in FieldsBefore(7) <=> f \in {FieldOrder[1], FieldOrder[2],
          FieldOrder[3], FieldOrder[4], FieldOrder[5], FieldOrder[6], FieldOrder[7]}
    <3>1. \A j : j \in 1 .. 7 <=> j \in {1, 2, 3, 4, 5, 6, 7}
      OBVIOUS
    <3> QED BY <3>1, Zenon DEF FieldsBefore
  <2> QED BY <2>1 DEF FieldOrder, Fields
<1>3. ASSUME NEW n \in 0 .. 6
      PROVE  FieldsBefore(n) # Fields
  <2>1. \A j \in 1 .. 6 : FieldOrder[j] # "ASC_STANDARD_PERIOD"
    BY DEF FieldOrder
  <2>2. "ASC_STANDARD_PERIOD" \notin FieldsBefore(n)
    BY <2>1 DEF FieldsBefore
  <2> QED BY <2>2 DEF Fields
<1>4. ASSUME NEW n \in 0 .. 6
      PROVE  FieldsBefore(n + 1) = FieldsBefore(n) \cup {FieldOrder[n + 1]}
  <2>1. \A j : j \in 1 .. n + 1 <=> j \in 1 .. n \/ j = n + 1
    OBVIOUS
  <2> HIDE DEF FieldOrder
  <2> QED BY <2>1, Zenon DEF FieldsBefore
<1> QED BY <1>1, <1>2, <1>3, <1>4
-----------------------------------------------------------------------------
(* How an iteration can end.                                               *)

\* It leaves the operation active.
LEMMA ProceedResult ==
  ASSUME NEW a, NEW b, NEW at, NEW left, Proceed(a, b, at, left), activeValid,
         ~terminalValid, Owned(a, b, truth'.altered)
  PROVE  ResultInv'
<1>1. activeValid' /\ active' = a /\ belief' = b /\ ~terminalValid'
  BY DEF Proceed
<1> QED BY <1>1 DEF ResultInv

\* It makes a result.
LEMMA FinishResult ==
  ASSUME NEW outcome, NEW effect, NEW b, NEW a, NEW at,
         FinishOperation(outcome, effect, b, a, at),
         truth'.altered => Told(a.kind.op, effect, b.reconciliationRequired),
         a.kind.op = "READ_CONFIGURATION" => Whole(outcome, a.completed)
  PROVE  ResultInv'
<1>1. /\ ~activeValid' /\ terminalValid' /\ terminal'.kind = a.kind
      /\ terminal'.outcome = outcome /\ terminal'.effect = effect
      /\ terminal'.completed = a.completed
      /\ terminal'.reconciliationRequired = b.reconciliationRequired
  BY DEF FinishOperation
<1> QED BY <1>1 DEF ResultInv

\* The effect a failure reports.
LEMMA FailureEffects ==
  ASSUME NEW expired \in BOOLEAN, NEW a, NEW last
  PROVE  /\ last = "INDETERMINATE" => FailureEffect(expired, a, last) = "UNKNOWN"
         /\ last = "COMPLETE" /\ expired => FailureEffect(expired, a, last) = "ACKNOWLEDGED"
         /\ /\ last # "INDETERMINATE" /\ ~(last = "COMPLETE" /\ expired)
            /\ a.effect # "NOT_ATTEMPTED"
            => FailureEffect(expired, a, last) = a.effect
<1> DEFINE reported == CASE last = "INDETERMINATE" -> "UNKNOWN"
                         [] last = "NO_EFFECT" /\ a.effect = "NOT_ATTEMPTED" -> "ATTEMPTED"
                         [] last = "COMPLETE" /\ expired -> "ACKNOWLEDGED"
                         [] OTHER -> a.effect
<1>1. last = "INDETERMINATE" => reported = "UNKNOWN"
  BY Zenon
<1>2. last = "COMPLETE" /\ expired => reported = "ACKNOWLEDGED"
  <2>1. last = "COMPLETE" => last # "INDETERMINATE" /\ last # "NO_EFFECT"
    OBVIOUS
  <2> QED BY <2>1, Zenon
<1>3. /\ last # "INDETERMINATE" /\ ~(last = "COMPLETE" /\ expired)
      /\ a.effect # "NOT_ATTEMPTED"
      => reported = a.effect
  BY Zenon
<1>4. FailureEffect(expired, a, last) =
        IF expired /\ a.attempted /\ reported = "NOT_ATTEMPTED" THEN "UNKNOWN"
        ELSE reported
  BY Zenon DEF FailureEffect
<1> HIDE DEF reported
<1> QED BY <1>1, <1>2, <1>3, <1>4

\* It makes the result of a failure.
LEMMA FailureResult ==
  ASSUME NEW status, NEW b \in Beliefs, NEW a, NEW last, NEW at,
         FinishOperationFailure(status, b, a, last, at),
         truth'.altered =>
           \/ last = "INDETERMINATE" \/ (last = "COMPLETE" /\ status = "TIMEOUT")
           \/ Told(a.kind.op, a.effect, b.reconciliationRequired)
           \/ /\ a.effect = "ATTEMPTED" /\ a.kind.op \in {"ATTACH", "WAKE_UP"}
              /\ status = "TIMEOUT" /\ a.attempted,
         a.kind.op = "READ_CONFIGURATION" => a.completed # Fields
  PROVE  ResultInv'
<1> DEFINE expired == status = "TIMEOUT"
           effect == FailureEffect(expired, a, last)
           outcome == IF a.kind.op = "READ_CONFIGURATION" /\ a.completed # {}
                      THEN "PARTIAL"
                      ELSE IF last = "INDETERMINATE" THEN "INDETERMINATE"
                      ELSE IF expired THEN "TIMED_OUT" ELSE "FAILED"
           known == IF InDoubt(expired, a, last) THEN MarkReconciliationRequired(b) ELSE b
<1>1. PICK p :
        FinishOperation(outcome, effect,
                        [known EXCEPT !.persistenceIndeterminate = p], a, at)
  BY DEF FinishOperationFailure
<1>2. /\ known \in Beliefs
      /\ InDoubt(expired, a, last) => known.reconciliationRequired = TRUE
      /\ ~InDoubt(expired, a, last) => known = b
  BY MarkType, MarkFields DEF Unclaimed
<1> HIDE DEF known
<1>3. [known EXCEPT !.persistenceIndeterminate = p].reconciliationRequired =
        known.reconciliationRequired
  BY <1>2 DEF Beliefs
<1>4. /\ last = "INDETERMINATE" => effect = "UNKNOWN"
      /\ last = "COMPLETE" /\ expired => effect = "ACKNOWLEDGED"
      /\ /\ last # "INDETERMINATE" /\ ~(last = "COMPLETE" /\ expired)
         /\ a.effect # "NOT_ATTEMPTED"
         => effect = a.effect
  <2>1. expired \in BOOLEAN
    OBVIOUS
  <2> HIDE DEF expired
  <2> QED BY <2>1, FailureEffects
<1>5. truth'.altered => Told(a.kind.op, effect, known.reconciliationRequired)
  <2> HIDE DEF effect
  <2>1. CASE last = "INDETERMINATE" \/ (last = "COMPLETE" /\ expired)
    <3>1. effect \in {"UNKNOWN", "ACKNOWLEDGED"}
      BY <1>4, <2>1
    <3> QED BY <3>1 DEF Told
  <2>2. CASE /\ last # "INDETERMINATE" /\ ~(last = "COMPLETE" /\ expired)
             /\ Told(a.kind.op, a.effect, b.reconciliationRequired)
    <3>1. a.effect # "NOT_ATTEMPTED"
      BY <2>2 DEF Told
    <3>2. effect = a.effect
      BY <1>4, <2>2, <3>1
    <3>3. b.reconciliationRequired => known.reconciliationRequired
      BY <1>2
    <3> QED BY <2>2, <3>3, <3>2 DEF Told
  <2>3. CASE /\ last # "INDETERMINATE" /\ ~(last = "COMPLETE" /\ expired)
             /\ a.effect = "ATTEMPTED" /\ a.kind.op \in {"ATTACH", "WAKE_UP"}
             /\ status = "TIMEOUT" /\ a.attempted
    <3>1. effect = a.effect
      BY <1>4, <2>3
    <3>2. known.reconciliationRequired
      BY <1>2, <2>3 DEF InDoubt
    <3> QED BY <2>3, <3>1, <3>2 DEF Told
  <2> QED BY <2>1, <2>2, <2>3
<1>6. a.kind.op = "READ_CONFIGURATION" => Whole(outcome, a.completed)
  BY DEF Whole
<1> HIDE DEF effect, outcome
<1> QED BY <1>1, <1>3, <1>5, <1>6, FinishResult
-----------------------------------------------------------------------------
(* The record of the active operation.                                     *)

\* What holds while an operation is active.
LEMMA ResultGiven ==
  ASSUME IInv, BeliefInv, ResultInv, activeValid
  PROVE  /\ ~terminalValid /\ belief \in Beliefs /\ Standing(active)
         /\ Owned(active, belief, truth.altered)
         /\ belief.reconciliationRequired = ~belief.attached
<1>1. Standing(active)
  BY ActiveStands DEF IInv
<1> QED BY <1>1 DEF IInv, SlotOK, BeliefInv, Sound, ResultInv

\* A later phase inherits the record, unless it is one of the few that expect
\* more of it.
LEMMA KeptOwned ==
  ASSUME NEW a2, NEW a, a2.kind = a.kind, a2.effect = a.effect,
         a2.attempted = a.attempted, a.callbacksUsed > 0 => a2.callbacksUsed > 0,
         NEW b2, NEW b,
         a.kind.op \in {"ATTACH", "WAKE_UP"} /\ b.reconciliationRequired
           => b2.reconciliationRequired,
         a.kind.op = "ATTACH" /\ a.phase \in {"WAIT_POWER_UP", "SEND_WAKE"}
           => a2.phase \in {"WAIT_POWER_UP", "SEND_WAKE"},
         a.kind.op = "PERSIST_SETTINGS" /\ a2.phase = "SEND_COMMAND"
           => a.phase = "SEND_COMMAND",
         a.kind.op = "READ_CONFIGURATION" => a2.completed = FieldsBefore(a2.index),
         NEW altered, Owned(a, b, altered)
  PROVE  Owned(a2, b2, altered)
<1>1. \A e : Told(a.kind.op, e, b.reconciliationRequired)
               => Told(a.kind.op, e, b2.reconciliationRequired)
  BY DEF Told
<1> QED BY <1>1 DEF Owned

\* An operation that only reads has not changed the sensor.
LEMMA ReadersAlterNothing ==
  ASSUME NEW a, NEW b, NEW altered, Owned(a, b, altered), ~IsEffectful(a.kind)
  PROVE  ~altered
  BY DEF Owned

\* The record allows any end but a success of READ_CONFIGURATION.
LEMMA RecordTells ==
  ASSUME NEW a, a.index \in 0 .. 6, NEW b, NEW altered, Owned(a, b, altered)
  PROVE  /\ altered => Told(a.kind.op, a.effect, b.reconciliationRequired)
         /\ a.kind.op = "READ_CONFIGURATION" => a.completed # Fields
  BY FieldsInOrder DEF Owned
-----------------------------------------------------------------------------
(* The iterations without the bus.                                         *)

\* The poll returns, or the gate puts a phase off.
LEMMA ReturnResult ==
  ASSUME IInv, BeliefInv, ResultInv, PollBreak \/ GateDefers \/ NotDue \/ BudgetExhausted
  PROVE  ResultInv'
<1>1. truth' = truth /\ activeValid
  BY DEF Quiet, PollBreak, GateDefers, NotDue, BudgetExhausted, Transferring, Working,
     IInv, SlotOK, InTime
<1>2. CASE PollBreak \/ NotDue \/ BudgetExhausted
  <2>1. UNCHANGED <<belief, activeValid, active, terminalValid, terminal>>
    BY <1>2 DEF PollBreak, NotDue, BudgetExhausted
  <2> QED BY <1>1, <2>1 DEF ResultInv
<1>3. CASE GateDefers
  <2> DEFINE a == [active EXCEPT !.nextDue = nextSafe]
  <2>1. Proceed(a, belief, poll.at, poll.left)
    BY <1>3 DEF GateDefers
  <2>2. /\ a.kind = active.kind /\ a.phase = active.phase /\ a.index = active.index
        /\ a.effect = active.effect /\ a.attempted = active.attempted
        /\ a.completed = active.completed /\ a.callbacksUsed = active.callbacksUsed
    BY DEF IInv, SlotOK, Operations
  <2> HIDE DEF a
  <2>3. active.kind.op = "READ_CONFIGURATION" => a.completed = FieldsBefore(a.index)
    BY <1>1, <2>2, ResultGiven DEF Owned
  <2>4. Owned(a, belief, truth.altered)
    BY <1>1, <2>2, <2>3, ResultGiven, KeptOwned
  <2> QED BY <1>1, <2>1, <2>4, ResultGiven, ProceedResult
<1> QED BY <1>2, <1>3

\* A wait that does not end the operation.
LEMMA WaitOverResult ==
  ASSUME IInv, BeliefInv, ResultInv, WaitOver
  PROVE  ResultInv'
<1> DEFINE a == [active EXCEPT !.phase = PhaseAfterWait(active)]
           b == IF active.kind.op \in ResetOps THEN [belief EXCEPT !.dirty = {}]
                ELSE belief
<1>1. /\ Proceed(a, b, poll.at, poll.left) /\ truth' = truth
      /\ active.phase \in WaitPhases /\ activeValid /\ ~EndsWithWait(active.kind)
  BY DEF WaitOver, WaitIsOver, Working, Quiet, IInv, SlotOK, InTime
<1>2. /\ a.kind = active.kind /\ a.index = active.index
      /\ a.phase = PhaseAfterWait(active)
      /\ a.effect = active.effect /\ a.attempted = active.attempted
      /\ a.completed = active.completed /\ a.callbacksUsed = active.callbacksUsed
  BY DEF IInv, SlotOK, Operations
<1>3. active.kind.op \in {"ATTACH", "WAKE_UP"} => b = belief
  BY DEF ResetOps
<1>4. active.phase = "WAIT_POWER_UP" => PhaseAfterWait(active) = "SEND_WAKE"
  BY DEF PhaseAfterWait
<1> HIDE DEF a, b
<1>5. active.kind.op = "ATTACH" /\ active.phase \in {"WAIT_POWER_UP", "SEND_WAKE"}
        => a.phase \in {"WAIT_POWER_UP", "SEND_WAKE"}
  BY <1>1, <1>2, <1>4 DEF WaitPhases
<1>6. active.kind.op # "PERSIST_SETTINGS"
  BY <1>1 DEF EndsWithWait
<1>7. active.kind.op = "READ_CONFIGURATION" => a.completed = FieldsBefore(a.index)
  BY <1>1, <1>2, ResultGiven DEF Owned
<1>8. Owned(a, b, truth.altered)
  BY <1>1, <1>2, <1>3, <1>5, <1>6, <1>7, ResultGiven, KeptOwned
<1> QED BY <1>1, <1>8, ResultGiven, ProceedResult

\* A wait that ends the operation, and a save that is not needed: it has not
\* tried anything.
LEMMA SettledResult ==
  ASSUME IInv, BeliefInv, ResultInv, CommandSettled \/ PersistShortcut
  PROVE  ResultInv'
<1>1. /\ truth' = truth /\ activeValid
  BY DEF CommandSettled, PersistShortcut, PersistNeedless, WaitIsOver, Working, Quiet,
     WaitPhases, IInv, SlotOK, InTime
<1>2. active.kind.op # "READ_CONFIGURATION"
  BY DEF CommandSettled, PersistShortcut, PersistNeedless, EndsWithWait, ModeOps
<1>3. CASE CommandSettled
  <2>1. PICK b : FinishOperation("SUCCEEDED", "ACKNOWLEDGED", b, active, poll.at)
    BY <1>3 DEF CommandSettled
  <2>2. Told(active.kind.op, "ACKNOWLEDGED", b.reconciliationRequired)
    BY DEF Told
  <2> QED BY <1>2, <2>1, <2>2, FinishResult
<1>4. CASE PersistShortcut
  <2>1. \/ FinishOperation("INDETERMINATE", "UNKNOWN", belief, active, poll.at)
        \/ FinishOperation("SUCCEEDED", "NOT_ATTEMPTED", belief, active, poll.at)
    BY <1>4 DEF PersistShortcut
  <2>2. ~active.attempted
    BY <1>1, <1>4, ResultGiven DEF Owned, PersistShortcut, PersistNeedless
  <2>3. ~truth'.altered
    BY <1>1, <2>2, ResultGiven DEF Owned
  <2> QED BY <1>2, <2>1, <2>3, FinishResult
<1> QED BY <1>3, <1>4
-----------------------------------------------------------------------------
(* Reading phases.                                                         *)

\* What holds when an answer is heard.
LEMMA HeardGiven ==
  ASSUME IInv, BeliefInv, TruthInv, ResultInv, NEW dur \in Durations, Answered(dur)
  PROVE  /\ truth'.altered = truth.altered /\ activeValid /\ ~terminalValid
         /\ Standing(active) /\ active.phase \in ReadPhases
         /\ Owned(active, belief, truth.altered) /\ belief \in Beliefs
         /\ Heard \in Operations /\ Heard.kind = active.kind
         /\ Heard.phase = active.phase /\ Heard.index = active.index
         /\ Heard.completed = active.completed /\ Heard.attempted = active.attempted
         /\ Heard.effect = active.effect /\ Heard.callbacksUsed > 0
  BY AnswerKeeps, ResultGiven

\* An answer that ends the operation with an effect that tells, or one of an
\* operation that only reads.
LEMMA HeardFinishResult ==
  ASSUME IInv, BeliefInv, TruthInv, ResultInv, NEW dur \in Durations, Answered(dur),
         NEW outcome, NEW effect, NEW b, NEW a, NEW at,
         FinishOperation(outcome, effect, b, a, at), a.kind = active.kind,
         \/ effect \in {"ACKNOWLEDGED", "VERIFIED", "UNKNOWN"}
         \/ ~IsEffectful(active.kind),
         a.kind.op = "READ_CONFIGURATION" => Whole(outcome, a.completed)
  PROVE  ResultInv'
<1>1. truth'.altered => Told(a.kind.op, effect, b.reconciliationRequired)
  BY HeardGiven, ReadersAlterNothing DEF Told
<1> QED BY <1>1, FinishResult

\* One that ends it as a failure.
LEMMA HeardFailureResult ==
  ASSUME IInv, BeliefInv, TruthInv, ResultInv, NEW dur \in Durations, Answered(dur),
         NEW status, NEW b \in Beliefs, NEW last, NEW at,
         FinishOperationFailure(status, b, Heard, last, at),
         active.kind.op \notin {"ATTACH", "WAKE_UP"}
  PROVE  ResultInv'
<1>1. active.index \in 0 .. 6
  BY HeardGiven DEF Standing
<1>2. /\ truth.altered => Told(active.kind.op, active.effect, belief.reconciliationRequired)
      /\ active.kind.op = "READ_CONFIGURATION" => active.completed # Fields
  BY <1>1, HeardGiven, RecordTells
<1>3. truth'.altered => Told(Heard.kind.op, Heard.effect, b.reconciliationRequired)
  BY <1>2, HeardGiven DEF Told
<1>4. Heard.kind.op = "READ_CONFIGURATION" => Heard.completed # Fields
  BY <1>2, HeardGiven
<1> HIDE DEF Heard
<1> QED BY <1>3, <1>4, FailureResult

\* The transfer of an answer failed.
LEMMA ReadFailsResult ==
  ASSUME IInv, BeliefInv, TruthInv, ResultInv, NEW r, NEW dur \in Durations,
         ReadFails(r, dur)
  PROVE  ResultInv'
<1> DEFINE a == Attempted(FALSE, r)
<1>1. AttemptedRead(r, dur)
  BY DEF ReadFails
<1>2. PICK status : FinishOperationFailure(status, belief, a, "NONE", Completed(r, dur))
  BY DEF ReadFails
<1>3. /\ truth'.altered = truth.altered /\ activeValid /\ r \in Answers /\ SlotOK
  BY <1>1, ReadKeeps DEF IInv
<1>4. /\ a.kind = active.kind /\ a.effect = active.effect
      /\ a.completed = active.completed
  BY <1>3, AttemptFields
<1> HIDE DEF a
<1>5. /\ Owned(active, belief, truth.altered) /\ belief \in Beliefs
      /\ active.index \in 0 .. 6
  BY <1>3, ResultGiven DEF Standing
<1>6. /\ truth'.altered => Told(a.kind.op, a.effect, belief.reconciliationRequired)
      /\ a.kind.op = "READ_CONFIGURATION" => a.completed # Fields
  BY <1>3, <1>4, <1>5, RecordTells
<1> QED BY <1>2, <1>5, <1>6, FailureResult

\* Answers that leave the belief alone.
LEMMA HeardOnlyResult ==
  ASSUME IInv, BeliefInv, TruthInv, ResultInv, NEW dur \in Durations,
         \/ HearSerial(dur)
         \/ \E verdict \in BOOLEAN : HearAnswer(dur, verdict) \/ HearReady(dur, verdict)
  PROVE  ResultInv'
<1>1. Answered(dur)
  BY DEF HearSerial, HearAnswer, HearReady
<1>2. CASE HearSerial(dur)
  <2> DEFINE a == [Heard EXCEPT !.serial = sensor.serial, !.index = 1,
                                !.phase = "SEND_VERIFY_COMMAND",
                                !.nextDue = poll.at + dur]
  <2>1. Proceed(a, belief, poll.at + dur, poll.left - 1) /\ HearsSerial(active)
    BY <1>2 DEF HearSerial
  <2>2. /\ a.kind = Heard.kind /\ a.phase = "SEND_VERIFY_COMMAND"
        /\ a.effect = Heard.effect /\ a.attempted = Heard.attempted
        /\ a.callbacksUsed = Heard.callbacksUsed
    <3>1. Heard \in Operations
      BY <1>1, HeardGiven
    <3> HIDE DEF Heard
    <3> QED BY <3>1 DEF Operations
  <2> HIDE DEF a, Heard
  <2>3. /\ active.kind.op \notin {"READ_CONFIGURATION", "PERSIST_SETTINGS"}
    BY <2>1 DEF HearsSerial, ResetOps
  <2>4. active.phase \notin {"WAIT_POWER_UP", "SEND_WAKE"}
    BY <1>1, HeardGiven DEF ReadPhases
  <2>5. Owned(a, belief, truth.altered)
    BY <1>1, <2>2, <2>3, <2>4, HeardGiven, KeptOwned
  <2> QED BY <1>1, <2>1, <2>5, HeardGiven, ProceedResult
<1>3. ASSUME NEW verdict \in BOOLEAN, HearAnswer(dur, verdict)
      PROVE  ResultInv'
  <2> DEFINE effect == CASE active.kind.op = "READ_DATA_READY" -> "NONE"
                         [] active.kind.op = "DIAGNOSTIC_READ_WORDS" -> "ACKNOWLEDGED"
                         [] OTHER -> "VERIFIED"
  <2>1. PICK outcome, at : FinishOperation(outcome, effect, belief, Heard, at)
    BY <1>3, Zenon DEF HearAnswer
  <2>2. effect \in {"ACKNOWLEDGED", "VERIFIED"} \/ active.kind.op = "READ_DATA_READY"
    <3>1. CASE active.kind.op = "READ_DATA_READY"
      BY <3>1
    <3>2. CASE active.kind.op = "DIAGNOSTIC_READ_WORDS"
      <4>1. active.kind.op # "READ_DATA_READY"
        BY <3>2
      <4> QED BY <3>2, <4>1, Zenon
    <3>3. CASE active.kind.op \notin {"READ_DATA_READY", "DIAGNOSTIC_READ_WORDS"}
      BY <3>3, Zenon
    <3> QED BY <3>1, <3>2, <3>3
  <2> HIDE DEF effect
  <2>3. active.kind.op # "READ_CONFIGURATION"
    <3>1. active.phase = "READ_DEFERRED_RESULT" => active.kind.op # "READ_CONFIGURATION"
      BY <1>1, HeardGiven, ReachableCases DEF Standing, ConfigurationSteps
    <3> QED BY <1>3, <3>1 DEF HearAnswer
  <2>4. active.kind.op = "READ_DATA_READY" => ~IsEffectful(active.kind)
    BY DEF IsEffectful, ReadOps
  <2>5. Heard.kind = active.kind
    BY <1>1, HeardGiven
  <2> HIDE DEF Heard
  <2> QED BY <1>1, <2>1, <2>2, <2>3, <2>4, <2>5, HeardFinishResult
<1>4. ASSUME NEW ready \in BOOLEAN, HearReady(dur, ready)
      PROVE  ResultInv'
  <2> DEFINE a == [Heard EXCEPT !.phase = "SEND_READ_COMMAND"]
  <2>1. \/ Proceed(a, belief, poll.at + dur, poll.left - 1)
        \/ FinishOperation("NO_DATA", active.effect, belief, Heard, poll.at + dur)
    BY <1>4 DEF HearReady
  <2>2. active.kind.op \in MeasurementOps
    BY <1>4 DEF HearReady
  <2>3. /\ a.kind = Heard.kind /\ a.phase = "SEND_READ_COMMAND"
        /\ a.effect = Heard.effect /\ a.attempted = Heard.attempted
        /\ a.callbacksUsed = Heard.callbacksUsed
    <3>1. Heard \in Operations
      BY <1>1, HeardGiven
    <3> HIDE DEF Heard
    <3> QED BY <3>1 DEF Operations
  <2> HIDE DEF a, Heard
  <2>4. active.kind.op \notin {"READ_CONFIGURATION", "PERSIST_SETTINGS", "ATTACH"}
    BY <2>2 DEF MeasurementOps, SingleShotOps
  <2>5. Owned(a, belief, truth.altered)
    BY <1>1, <2>3, <2>4, HeardGiven, KeptOwned
  <2>6. Proceed(a, belief, poll.at + dur, poll.left - 1) => ResultInv'
    BY <1>1, <2>5, HeardGiven, ProceedResult
  <2>7. truth'.altered => Told(Heard.kind.op, active.effect, belief.reconciliationRequired)
    BY <1>1, HeardGiven DEF Owned
  <2>8. Heard.kind.op # "READ_CONFIGURATION"
    BY <1>1, <2>4, HeardGiven
  <2> QED BY <2>1, <2>6, <2>7, <2>8, FinishResult
<1> QED BY <1>2, <1>3, <1>4

\* The identity checks.
LEMMA IdentityResult ==
  ASSUME IInv, BeliefInv, TruthInv, ResultInv, NEW dur \in Durations,
         IdentityRefused(dur) \/ IdentityConfirmed(dur)
  PROVE  ResultInv'
<1>1. Answered(dur) /\ HearsVariant(active)
  BY DEF IdentityRefused, IdentityConfirmed
<1>2. active.kind.op \in {"ATTACH", "READ_IDENTITY", "WAKE_UP"} \cup ResetOps
  BY <1>1, HeardGiven, VariantAfterSerial
<1>3. PICK outcome, effect, b :
        /\ FinishOperation(outcome, effect, b, Heard, poll.at + dur)
        /\ effect \in {RefusedEffect(active.kind), ConfirmedEffect(active.kind)}
  BY DEF IdentityRefused, IdentityConfirmed
<1>4. CASE active.kind.op = "READ_IDENTITY"
  <2>1. ~IsEffectful(active.kind)
    BY <1>4 DEF IsEffectful, ReadOps
  <2>2. Heard.kind = active.kind /\ Heard.kind.op # "READ_CONFIGURATION"
    BY <1>1, <1>4, HeardGiven
  <2> HIDE DEF Heard
  <2> QED BY <1>1, <1>3, <2>1, <2>2, HeardFinishResult
<1>5. CASE active.kind.op # "READ_IDENTITY"
  <2>1. /\ RefusedEffect(active.kind) \in {"ACKNOWLEDGED", "UNKNOWN"}
        /\ ConfirmedEffect(active.kind) \in {"VERIFIED", "ACKNOWLEDGED"}
    <3>1. CASE active.kind.op = "ATTACH"
      BY <3>1, Zenon DEF RefusedEffect, ConfirmedEffect
    <3>2. CASE active.kind.op = "WAKE_UP"
      <4>1. active.kind.op # "ATTACH"
        BY <3>2
      <4> QED BY <1>5, <3>2, <4>1, Zenon DEF RefusedEffect, ConfirmedEffect
    <3>3. CASE active.kind.op \in ResetOps
      <4>1. active.kind.op # "ATTACH" /\ active.kind.op # "WAKE_UP"
        BY <3>3 DEF ResetOps
      <4> QED BY <1>5, <4>1, Zenon DEF RefusedEffect, ConfirmedEffect
    <3> QED BY <1>2, <1>5, <3>1, <3>2, <3>3
  <2>2. effect \in {"ACKNOWLEDGED", "VERIFIED", "UNKNOWN"}
    BY <1>3, <2>1
  <2>3. Heard.kind = active.kind /\ Heard.kind.op # "READ_CONFIGURATION"
    BY <1>1, <1>2, HeardGiven DEF ResetOps
  <2> HIDE DEF Heard
  <2> QED BY <1>1, <1>3, <2>2, <2>3, HeardFinishResult
<1> QED BY <1>4, <1>5

\* The variant alone, and a sample.
LEMMA VariantOrSampleResult ==
  ASSUME IInv, BeliefInv, TruthInv, ResultInv, NEW dur \in Durations,
         HearVariant(dur) \/ HearSample(dur)
  PROVE  ResultInv'
<1>1. Answered(dur)
  BY DEF HearVariant, HearSample
<1>2. /\ Heard.kind = active.kind /\ active.kind.op # "READ_CONFIGURATION"
      /\ active.kind.op # "FETCH_SAMPLE" /\ active.kind.op # "READ_SENSOR_VARIANT"
           => active.kind.op \in SingleShotOps
  BY <1>1, HeardGiven DEF HearVariant, HearSample, MeasurementOps, SingleShotOps
<1>3. active.kind.op \in {"FETCH_SAMPLE", "READ_SENSOR_VARIANT"} => ~IsEffectful(active.kind)
  BY DEF IsEffectful, ReadOps
<1>4. PICK outcome, effect, b :
        /\ FinishOperation(outcome, effect, b, Heard, poll.at + dur)
        /\ effect = "VERIFIED" \/ active.kind.op \in {"FETCH_SAMPLE", "READ_SENSOR_VARIANT"}
  <2>1. CASE HearVariant(dur)
    BY <2>1 DEF HearVariant
  <2>2. CASE HearSample(dur)
    BY <2>2 DEF HearSample
  <2> QED BY <2>1, <2>2
<1> HIDE DEF Heard
<1> QED BY <1>1, <1>2, <1>3, <1>4, HeardFinishResult

\* The next field, or the last.
LEMMA HearSettingResult ==
  ASSUME IInv, BeliefInv, TruthInv, ResultInv, NEW dur \in Durations,
         HearInvalidSetting(dur) \/ HearSetting(dur)
  PROVE  ResultInv'
<1> DEFINE f == FieldRead(active)
           b == ApplyReadValue(belief, f, sensor.ram[f])
           whole == active.kind.op = "READ_CONFIGURATION"
           heard == IF whole THEN [Heard EXCEPT !.completed = @ \cup {f}] ELSE Heard
           a == [heard EXCEPT !.index = @ + 1, !.phase = "SEND_COMMAND",
                              !.nextDue = poll.at + dur]
<1>1. /\ Answered(dur)
      /\ active.kind.op \in {"READ_SETTING", "READ_CONFIGURATION"}
  BY DEF HearInvalidSetting, HearSetting
<1>2. /\ belief \in Beliefs /\ f \in Fields /\ sensor.ram[f] \in AnyWord
  BY <1>1, SettingGiven
<1>3. ~IsEffectful(active.kind)
  BY <1>1 DEF IsEffectful, ReadOps
<1>4. /\ Heard \in Operations /\ Heard.kind = active.kind /\ Heard.index = active.index
      /\ Heard.completed = active.completed /\ Heard.attempted = active.attempted
      /\ Heard.effect = active.effect /\ Heard.callbacksUsed > 0
      /\ Owned(active, belief, truth.altered) /\ truth'.altered = truth.altered
      /\ activeValid /\ ~terminalValid /\ active.index \in 0 .. 6
  BY <1>1, HeardGiven DEF Standing
<1>5. CASE HearInvalidSetting(dur)
  <2>1. FinishOperationFailure("ERROR", Unverify(belief, f), Heard, "NONE",
                               poll.at + dur)
    BY <1>5 DEF HearInvalidSetting
  <2>2. Unverify(belief, f) \in Beliefs
    BY <1>2, SettingTypes
  <2> HIDE DEF f, b
  <2> QED BY <1>1, <2>1, <2>2, HeardFailureResult
<1>6. CASE HearSetting(dur)
  <2>1. IF whole /\ active.index < LastFieldIndex
        THEN Proceed(a, b, poll.at + dur, poll.left - 1)
        ELSE FinishOperation("SUCCEEDED", "NONE", b, heard, poll.at + dur)
    BY <1>6 DEF HearSetting
  <2>2. /\ heard.kind = active.kind
        /\ whole => heard.completed = active.completed \cup {f}
        /\ a.kind = active.kind /\ a.index = active.index + 1
        /\ a.phase = "SEND_COMMAND"
        /\ a.effect = active.effect /\ a.attempted = active.attempted
        /\ whole => a.completed = active.completed \cup {f}
    <3>1. ASSUME NEW h \in Operations, NEW c
          PROVE  LET h1 == [h EXCEPT !.completed = @ \cup {c}]
                     h2 == [h1 EXCEPT !.index = @ + 1, !.phase = "SEND_COMMAND",
                                      !.nextDue = poll.at + dur]
                     h3 == [h EXCEPT !.index = @ + 1, !.phase = "SEND_COMMAND",
                                     !.nextDue = poll.at + dur]
                 IN /\ h1.kind = h.kind /\ h1.completed = h.completed \cup {c}
                    /\ h2.kind = h.kind /\ h2.completed = h.completed \cup {c}
                    /\ h2.index = h.index + 1 /\ h2.effect = h.effect
                    /\ h2.attempted = h.attempted /\ h2.phase = "SEND_COMMAND"
                    /\ h3.kind = h.kind /\ h3.index = h.index + 1
                    /\ h3.effect = h.effect /\ h3.attempted = h.attempted
                    /\ h3.phase = "SEND_COMMAND"
      BY DEF Operations
    <3> HIDE DEF Heard, f
    <3>2. CASE whole
      BY <1>4, <3>1, <3>2
    <3>3. CASE ~whole
      BY <1>4, <3>1, <3>3
    <3> QED BY <3>2, <3>3
  <2>3. whole => active.completed \cup {f} = FieldsBefore(active.index + 1)
    <3>1. whole => f = FieldOrder[active.index + 1]
      BY DEF FieldRead
    <3>2. whole => active.completed = FieldsBefore(active.index)
      BY <1>4 DEF Owned
    <3> HIDE DEF f
    <3> QED BY <1>4, <3>1, <3>2, FieldsInOrder
  <2> HIDE DEF a, b, heard, f
  <2>4. CASE whole /\ active.index < LastFieldIndex
    <3>1. Owned(a, b, truth.altered)
      <4>1. ~active.attempted /\ ~truth.altered
        BY <1>3, <1>4 DEF Owned
      <4> QED BY <1>3, <2>2, <2>3, <2>4, <4>1 DEF Owned
    <3> QED BY <1>4, <2>1, <2>4, <3>1, ProceedResult
  <2>5. CASE ~(whole /\ active.index < LastFieldIndex)
    <3>1. whole => heard.completed = Fields
      <4>1. whole => active.index = 6
        BY <1>4, <2>5 DEF LastFieldIndex
      <4> QED BY <2>2, <2>3, <4>1, FieldsInOrder, SMTT(60)
    <3>2. whole => Whole("SUCCEEDED", heard.completed)
      BY <3>1 DEF Whole
    <3> QED BY <1>1, <1>3, <2>1, <2>2, <2>5, <3>2, HeardFinishResult
  <2> QED BY <2>4, <2>5
<1> QED BY <1>5, <1>6

\* The word before a setting write, and the word after it.
LEMMA HearWordResult ==
  ASSUME IInv, BeliefInv, TruthInv, ResultInv, NEW dur \in Durations,
         HearPresentSetting(dur) \/ HearWrittenSetting(dur)
  PROVE  ResultInv'
<1>1. Answered(dur) /\ active.kind.op = "SET_SETTING"
  BY DEF HearPresentSetting, HearWrittenSetting
<1>2. /\ Heard \in Operations /\ Heard.kind = active.kind
      /\ Heard.attempted = active.attempted
      /\ Heard.effect = active.effect /\ Heard.callbacksUsed > 0
      /\ Owned(active, belief, truth.altered) /\ truth'.altered = truth.altered
      /\ activeValid /\ ~terminalValid
  BY <1>1, HeardGiven
<1>3. CASE HearPresentSetting(dur)
  <2> DEFINE f == active.kind.field
             word == sensor.ram[f]
             b == IF ValidReturnedSetting(f, word) THEN ApplyReadValue(belief, f, word)
                  ELSE Unverify(belief, f)
             a == [Heard EXCEPT !.changed = word # active.desired, !.index = 1,
                                !.phase = "SEND_COMMAND", !.nextDue = poll.at + dur]
  <2>1. \/ Proceed(a, b, poll.at + dur, poll.left - 1)
        \/ FinishOperation("SUCCEEDED", "VERIFIED", b, Heard, poll.at + dur)
        \/ FinishOperationFailure("ERROR", b, Heard, "NONE", poll.at + dur)
    BY <1>3 DEF HearPresentSetting
  <2>2. b \in Beliefs
    <3>1. belief \in Beliefs /\ f \in Fields /\ word \in AnyWord
      BY <1>1, SettingGiven
    <3> QED BY <3>1, SettingTypes
  <2>3. /\ a.kind = Heard.kind /\ a.effect = Heard.effect
        /\ a.attempted = Heard.attempted /\ a.callbacksUsed = Heard.callbacksUsed
    <3>1. \A c : LET h == [Heard EXCEPT !.changed = c, !.index = 1,
                                        !.phase = "SEND_COMMAND",
                                        !.nextDue = poll.at + dur]
                 IN h.kind = Heard.kind /\ h.effect = Heard.effect
                    /\ h.attempted = Heard.attempted
                    /\ h.callbacksUsed = Heard.callbacksUsed
      <4> HIDE DEF Heard
      <4> QED BY <1>2 DEF Operations
    <3> QED BY <3>1
  <2> HIDE DEF a, b, f, word
  <2>4. Owned(a, b, truth.altered)
    BY <1>1, <1>2, <2>3, KeptOwned
  <2>5. Proceed(a, b, poll.at + dur, poll.left - 1) => ResultInv'
    BY <1>2, <2>4, ProceedResult
  <2>6. FinishOperation("SUCCEEDED", "VERIFIED", b, Heard, poll.at + dur) => ResultInv'
    BY <1>1, <1>2, HeardFinishResult
  <2>7. FinishOperationFailure("ERROR", b, Heard, "NONE", poll.at + dur) => ResultInv'
    BY <1>1, <2>2, HeardFailureResult
  <2> QED BY <2>1, <2>5, <2>6, <2>7
<1>4. CASE HearWrittenSetting(dur)
  <2> DEFINE f == active.kind.field
             word == sensor.ram[f]
  <2>1. PICK outcome, effect, b :
          /\ FinishOperation(outcome, effect, b, Heard, poll.at + dur)
          /\ effect \in {"ACKNOWLEDGED", "VERIFIED"}
    <3>1. CASE ~ValidReturnedSetting(f, word)
      BY <1>4, <3>1 DEF HearWrittenSetting
    <3>2. CASE ValidReturnedSetting(f, word) /\ word # active.desired
      BY <1>4, <3>2 DEF HearWrittenSetting
    <3>3. CASE ValidReturnedSetting(f, word) /\ word = active.desired
      BY <1>4, <3>3 DEF HearWrittenSetting
    <3> QED BY <3>1, <3>2, <3>3
  <2> QED BY <1>1, <1>2, <2>1, HeardFinishResult
<1> QED BY <1>3, <1>4
-----------------------------------------------------------------------------
(* Sending phases.                                                         *)

\* What an attempt adds to the record.
LEMMA AttemptRecord ==
  ASSUME SlotOK, NEW effectful \in BOOLEAN, NEW r
  PROVE  LET a == Attempted(effectful, r)
         IN /\ a.effect = IF /\ effectful /\ r.disposition # "NOT_STARTED"
                             /\ active.effect = "NOT_ATTEMPTED"
                          THEN "ATTEMPTED" ELSE active.effect
            /\ a.attempted <=> active.attempted
                               \/ (effectful /\ r.disposition # "NOT_STARTED")
<1> DEFINE begun == effectful /\ r.disposition # "NOT_STARTED"
           used == active.callbacksUsed + 1
           attempted == active.attempted \/ begun
           effect == IF begun /\ active.effect = "NOT_ATTEMPTED" THEN "ATTEMPTED"
                     ELSE active.effect
<1>1. Attempted(effectful, r) = [active EXCEPT !.callbacksUsed = used,
                                               !.attempted = attempted,
                                               !.effect = effect]
  BY DEF Attempted
<1>2. ASSUME NEW u, NEW t, NEW e
      PROVE  LET a == [active EXCEPT !.callbacksUsed = u, !.attempted = t, !.effect = e]
             IN a.attempted = t /\ a.effect = e
  BY DEF SlotOK, Operations
<1>3. /\ attempted <=> active.attempted
                       \/ (effectful /\ r.disposition # "NOT_STARTED")
      /\ effect = IF /\ effectful /\ r.disposition # "NOT_STARTED"
                     /\ active.effect = "NOT_ATTEMPTED"
                  THEN "ATTEMPTED" ELSE active.effect
  OBVIOUS
<1> HIDE DEF used, attempted, effect
<1> QED BY <1>1, <1>2, <1>3

\* The effect recorded after a success.
LEMMA SentEffects ==
  ASSUME NEW a, NEW leg, leg.effectful \in BOOLEAN, NEW r
  PROVE  LET e == EffectAfterSend(a, leg, r)
         IN /\ ~leg.effectful => e = a.effect
            /\ leg.effectful /\ a.phase = "SEND_STOP" /\ leg.command.name # "WAKE_UP"
                 => e = a.effect
            /\ leg.effectful /\ a.phase # "SEND_STOP" /\ leg.command.name = "WAKE_UP"
                 => e \in {"ACKNOWLEDGED", "UNKNOWN", "ATTEMPTED"}
            /\ leg.effectful /\ a.phase # "SEND_STOP" /\ leg.command.name # "WAKE_UP"
                 => e = "ACKNOWLEDGED"
<1>1. /\ ~leg.effectful => EffectAfterSend(a, leg, r) = a.effect
      /\ leg.effectful /\ a.phase = "SEND_STOP" /\ leg.command.name # "WAKE_UP"
           => EffectAfterSend(a, leg, r) = a.effect
  BY Zenon DEF EffectAfterSend
<1>2. leg.effectful /\ a.phase # "SEND_STOP" /\ leg.command.name = "WAKE_UP"
        => EffectAfterSend(a, leg, r) = EffectFromWake(r.disposition)
  BY Zenon DEF EffectAfterSend
<1>3. leg.effectful /\ a.phase # "SEND_STOP" /\ leg.command.name # "WAKE_UP"
        => EffectAfterSend(a, leg, r) = "ACKNOWLEDGED"
  BY Zenon DEF EffectAfterSend
<1>4. EffectFromWake(r.disposition) \in {"ACKNOWLEDGED", "UNKNOWN", "ATTEMPTED"}
  <2>1. CASE r.disposition = "COMPLETE"
    BY <2>1, Zenon DEF EffectFromWake
  <2>2. CASE r.disposition = "INDETERMINATE"
    <3>1. r.disposition # "COMPLETE"
      BY <2>2
    <3> QED BY <2>2, <3>1, Zenon DEF EffectFromWake
  <2>3. CASE r.disposition # "COMPLETE" /\ r.disposition # "INDETERMINATE"
    BY <2>3, Zenon DEF EffectFromWake
  <2> QED BY <2>1, <2>2, <2>3
<1> QED BY <1>1, <1>2, <1>3, <1>4

\* Only ATTACH stops the sensor in a phase of its own.
LEMMA OnlyAttachStops ==
  ASSUME NEW a, Standing(a), a.phase = "SEND_STOP"
  PROVE  a.kind.op = "ATTACH"
<1>1. a.kind \in Kinds
  BY DEF Standing
<1>2. a.kind.op # "ATTACH" =>
        Reachable(a.kind) \in {IdentitySteps, ConfigurationSteps, ReadSteps,
           SettingSteps, WakeSteps, CommandSteps, FetchSteps,
           CommandSteps \cup FetchSteps, ResetSteps, DeferredSteps}
  BY <1>1, OpCases, ReachableCases
     DEF ReadOps, MeasurementOps, MaintenanceOps, ResetOps, SingleShotOps, ModeOps
<1> QED
  BY <1>2 DEF Standing, IdentitySteps, ConfigurationSteps, ReadSteps, SettingSteps,
     WakeSteps, CommandSteps, FetchSteps, ResetSteps, DeferredSteps

\* A sensor only changes under a command that may have reached it.
LEMMA AttemptAlters ==
  ASSUME IInv, NEW r, NEW dur, AttemptedLeg(Leg(active), r, dur)
  PROVE  LET leg == Leg(active)
         IN truth'.altered /\ ~truth.altered =>
              /\ leg.effectful
              /\ \/ r.disposition \in {"COMPLETE", "INDETERMINATE"}
                 \/ Unanswered(leg.command, r)
<1> DEFINE leg == Leg(active)
           c == leg.command
<1>1. PICK react \in Reactions(sensor, c, r) :
        Exchange(c, leg.effectful, leg.nack, r, dur, react)
  BY DEF AttemptedLeg
<1>2. \A busy, unsaved, disturbed, acked, altered :
        [truth EXCEPT !.busy = busy, !.unsaved = unsaved, !.disturbed = disturbed,
                      !.acked = acked, !.altered = altered].altered = altered
  BY DEF IInv, BusOK, Truths
<1>3. \/ r.disposition \in {"COMPLETE", "INDETERMINATE"}
      \/ react.sensor = sensor
      \/ Unanswered(c, r)
  <2> HIDE DEF c
  <2> QED BY ReactionEnds
<1> HIDE DEF leg, c
<1>4. truth'.altered = (truth.altered \/ (leg.effectful /\ react.sensor # sensor))
  BY <1>1, <1>2 DEF Exchange
<1>5. truth'.altered /\ ~truth.altered => leg.effectful /\ react.sensor # sensor
  BY <1>4
<1> QED BY <1>3, <1>5 DEF leg, c

\* What holds before an attempt to send.
LEMMA SendGiven ==
  ASSUME IInv, BeliefInv, TruthInv, ResultInv,
         NEW r \in EffectfulOutcomes \cup PlainOutcomes, NEW dur \in Durations,
         AttemptedLeg(Leg(active), r, dur)
  PROVE  LET leg == Leg(active)
             sent == Attempted(leg.effectful, r)
             b1 == AfterAttempt(belief, active, leg, r)
         IN /\ activeValid /\ ~terminalValid /\ Standing(active)
            /\ active.phase \in SendPhases /\ leg.effectful \in BOOLEAN
            /\ leg.nack \in BOOLEAN
            /\ Owned(active, belief, truth.altered) /\ active.effect \in Effects
            /\ (leg.effectful /\ Ordering(active, leg))
                 \/ (~leg.effectful /\ Asking(active, leg))
            /\ sent \in Operations /\ sent.kind = active.kind
            /\ sent.phase = active.phase /\ sent.completed = active.completed
            /\ sent.callbacksUsed > 0
            /\ b1 \in Beliefs
            /\ b1.reconciliationRequired = belief.reconciliationRequired
<1> DEFINE leg == Leg(active)
           sent == Attempted(leg.effectful, r)
           b1 == AfterAttempt(belief, active, leg, r)
<1>1. /\ activeValid /\ Standing(active) /\ active.phase \in SendPhases
      /\ leg.effectful \in BOOLEAN /\ r \in Answers /\ belief \in Beliefs
      /\ (leg.effectful /\ Ordering(active, leg)) \/ (~leg.effectful /\ Asking(active, leg))
  BY SendKeeps
<1>2. leg.nack \in BOOLEAN
  BY AttemptedLegStep DEF LegOK
<1>3. /\ Owned(active, belief, truth.altered) /\ ~terminalValid
      /\ active.effect \in Effects /\ SlotOK
  BY <1>1, ResultGiven DEF IInv, SlotOK, Operations
<1>4. /\ sent \in Operations /\ sent.kind = active.kind
      /\ sent.phase = active.phase /\ sent.completed = active.completed
      /\ sent.callbacksUsed > 0
  BY <1>1, <1>3, AttemptedType, AttemptFields
<1>5. b1 \in Beliefs
  BY <1>1, AfterSendType
<1>6. b1.reconciliationRequired = belief.reconciliationRequired
  <2>1. AfterSettingWrite(belief, active).reconciliationRequired =
          belief.reconciliationRequired
    BY <1>1 DEF AfterSettingWrite, Beliefs
  <2> QED BY <2>1 DEF AfterAttempt
<1> HIDE DEF sent, b1, leg
<1> QED BY <1>1, <1>2, <1>3, <1>4, <1>5, <1>6 DEF sent, b1, leg

\* The operation that Send leaves, and what has become of its record.
LEMMA SentRecord ==
  ASSUME IInv, BeliefInv, TruthInv, ResultInv,
         NEW r \in EffectfulOutcomes \cup PlainOutcomes, NEW dur \in Durations,
         Send(r, dur)
  PROVE  \E a, at, left :
           LET leg == Leg(active)
               sent == Attempted(leg.effectful, r)
           IN /\ Proceed(a, AfterSend(AfterAttempt(belief, active, leg, r), active, leg),
                         at, left)
              /\ a.kind = active.kind /\ a.phase = leg.phase /\ a.index = leg.index
              /\ a.callbacksUsed > 0 /\ a.attempted = sent.attempted
              /\ a.completed = active.completed
              /\ a.effect = EffectAfterSend(sent, leg, r)
<1> DEFINE leg == Leg(active)
           sent == Attempted(leg.effectful, r)
           at == Completed(r, dur)
           e == EffectAfterSend(sent, leg, r)
           b == AfterSend(AfterAttempt(belief, active, leg, r), active, leg)
           a == [sent EXCEPT !.phase = leg.phase, !.index = leg.index,
                             !.nextDue = at + leg.wait, !.effect = e]
<1>1. AttemptedLeg(leg, r, dur) /\ Proceed(a, b, at, poll.left - 1)
  BY DEF Send
<1>2. /\ sent \in Operations /\ sent.kind = active.kind
      /\ sent.completed = active.completed /\ sent.callbacksUsed > 0
  BY <1>1, SendGiven
<1>3. /\ a.kind = sent.kind /\ a.completed = sent.completed
      /\ a.callbacksUsed = sent.callbacksUsed /\ a.attempted = sent.attempted
      /\ a.phase = leg.phase /\ a.index = leg.index /\ a.effect = e
  <2> HIDE DEF sent, leg, at, e
  <2> QED BY <1>2 DEF Operations
<1> HIDE DEF a, b, e, at, sent, leg
<1>4. /\ a.kind = active.kind /\ a.phase = leg.phase /\ a.index = leg.index
      /\ a.callbacksUsed > 0 /\ a.attempted = sent.attempted
      /\ a.completed = active.completed /\ a.effect = e
  BY <1>2, <1>3
<1> QED BY <1>1, <1>4 DEF b, e, sent, leg

\* The belief that Send leaves.
LEMMA SentDoubt ==
  ASSUME NEW b \in Beliefs, NEW a, NEW leg
  PROVE  LET b2 == AfterSend(b, a, leg)
         IN /\ leg.effectful /\ Reconciles(a) => b2.reconciliationRequired = TRUE
            /\ ~(leg.effectful /\ Reconciles(a))
                 => b2.reconciliationRequired = b.reconciliationRequired
<1> DEFINE b2 == AfterSend(b, a, leg)
<1>1. CASE leg.effectful /\ Reconciles(a)
  <2>1. Unclaimed(b2, b)
    BY <1>1, SentFields
  <2> HIDE DEF b2
  <2>2. b2.reconciliationRequired = TRUE
    BY <2>1 DEF Unclaimed
  <2> QED BY <1>1, <2>2 DEF b2
<1>2. CASE ~(leg.effectful /\ Reconciles(a))
  <2>1. SameClaims(b2, b)
    BY <1>2, SentFields
  <2> HIDE DEF b2
  <2>2. b2.reconciliationRequired = b.reconciliationRequired
    BY <2>1 DEF SameClaims
  <2> QED BY <1>2, <2>2 DEF b2
<1> QED BY <1>1, <1>2

\* The operation goes on with what it has sent.
LEMMA SendResult ==
  ASSUME IInv, BeliefInv, TruthInv, ResultInv,
         NEW r \in EffectfulOutcomes \cup PlainOutcomes, NEW dur \in Durations,
         Send(r, dur)
  PROVE  ResultInv'
<1> DEFINE leg == Leg(active)
           sent == Attempted(leg.effectful, r)
           b1 == AfterAttempt(belief, active, leg, r)
           b == AfterSend(b1, active, leg)
           op == active.kind.op
<1>1. AttemptedLeg(leg, r, dur) /\ TransferStatus(leg.nack, r, dur) = "OK"
  BY DEF Send
<1>2. /\ activeValid /\ ~terminalValid /\ Standing(active)
      /\ active.phase \in SendPhases /\ leg.effectful \in BOOLEAN
      /\ Owned(active, belief, truth.altered)
      /\ (leg.effectful /\ Ordering(active, leg)) \/ (~leg.effectful /\ Asking(active, leg))
      /\ sent.phase = active.phase
      /\ b1 \in Beliefs
      /\ b1.reconciliationRequired = belief.reconciliationRequired
  BY <1>1, SendGiven
<1>3. PICK a, at, left :
        /\ Proceed(a, b, at, left)
        /\ a.kind = active.kind /\ a.phase = leg.phase /\ a.index = leg.index
        /\ a.callbacksUsed > 0 /\ a.attempted = sent.attempted
        /\ a.completed = active.completed
        /\ a.effect = EffectAfterSend(sent, leg, r)
  BY SentRecord
<1>4. /\ sent.effect = IF /\ leg.effectful /\ r.disposition # "NOT_STARTED"
                          /\ active.effect = "NOT_ATTEMPTED"
                       THEN "ATTEMPTED" ELSE active.effect
      /\ sent.attempted <=> active.attempted
                            \/ (leg.effectful /\ r.disposition # "NOT_STARTED")
  <2>1. SlotOK
    BY DEF IInv
  <2> HIDE DEF leg
  <2> QED BY <1>2, <2>1, AttemptRecord
<1>5. truth'.altered /\ ~truth.altered => leg.effectful
  BY <1>1, AttemptAlters
<1>6. r.disposition # "NOT_STARTED"
  BY <1>1, OutcomeShape DEF TransferStatus, ExpectedNack
<1>7. /\ leg.effectful /\ Reconciles(active) => b.reconciliationRequired = TRUE
      /\ ~(leg.effectful /\ Reconciles(active))
           => b.reconciliationRequired = belief.reconciliationRequired
  <2> HIDE DEF leg, b1
  <2> QED BY <1>2, SentDoubt
<1>8. /\ ~leg.effectful => a.effect = sent.effect
      /\ leg.effectful /\ sent.phase = "SEND_STOP" /\ leg.command.name # "WAKE_UP"
           => a.effect = sent.effect
      /\ leg.effectful /\ sent.phase # "SEND_STOP" /\ leg.command.name = "WAKE_UP"
           => a.effect \in {"ACKNOWLEDGED", "UNKNOWN", "ATTEMPTED"}
      /\ leg.effectful /\ sent.phase # "SEND_STOP" /\ leg.command.name # "WAKE_UP"
           => a.effect = "ACKNOWLEDGED"
  <2> HIDE DEF leg, sent
  <2> QED BY <1>2, <1>3, SentEffects, SMTT(60)
<1>9. op = "READ_CONFIGURATION" => leg.index = active.index
  BY LegCases DEF ReadOps, ReadLeg, Query
<1> HIDE DEF leg, sent, b1, b
<1>10. Owned(a, b, truth'.altered)
  <2>1. CASE ~leg.effectful
    <3>1. truth'.altered => truth.altered
      BY <1>5, <2>1
    <3>2. op = "ATTACH" => active.phase \notin {"WAIT_POWER_UP", "SEND_WAKE"}
      BY <1>2, <2>1 DEF Asking, SendPhases
    <3>3. op # "PERSIST_SETTINGS"
      BY <1>2, <2>1
         DEF Asking, ResetOps, MeasurementOps, SingleShotOps, ReadOps
    <3>4. op = "READ_CONFIGURATION" => a.completed = FieldsBefore(a.index)
      BY <1>2, <1>3, <1>9 DEF Owned
    <3>5. a.effect = active.effect /\ (a.attempted <=> active.attempted)
      BY <1>3, <1>4, <1>8, <2>1
    <3>6. b.reconciliationRequired = belief.reconciliationRequired
      BY <1>7, <2>1
    <3> QED BY <1>2, <1>3, <3>1, <3>2, <3>3, <3>4, <3>5, <3>6 DEF Owned
  <2>2. CASE leg.effectful
    <3>1. Ordering(active, leg)
      BY <1>2, <2>2
    <3>2. IsEffectful(active.kind) /\ op # "READ_CONFIGURATION"
      BY <3>1 DEF Ordering, IsEffectful, ModeOps, SingleShotOps, MaintenanceOps,
         ResetOps, DiagnosticOps, ReadOps
    <3>3. a.attempted
      BY <1>3, <1>4, <1>6, <2>2
    <3>4. leg.phase # "SEND_COMMAND"
      BY <3>1 DEF Ordering
    <3>5. Told(op, a.effect, b.reconciliationRequired)
      <4>1. CASE active.phase = "SEND_STOP"
        <5>1. op = "ATTACH"
          BY <1>2, <4>1, OnlyAttachStops
        <5>2. leg.command.name # "WAKE_UP"
          BY <3>1, <4>1, <5>1
             DEF Ordering, Command, ModeOps, SingleShotOps, MaintenanceOps, ResetOps,
                 DiagnosticOps
        <5>3. Told(op, active.effect, belief.reconciliationRequired)
          BY <1>2, <4>1, <5>1 DEF Owned
        <5>4. a.effect = active.effect
          BY <1>2, <1>4, <1>8, <2>2, <4>1, <5>2, <5>3 DEF Told
        <5>5. belief.reconciliationRequired => b.reconciliationRequired
          BY <1>7
        <5> QED BY <5>3, <5>4, <5>5 DEF Told
      <4>2. CASE active.phase # "SEND_STOP" /\ leg.command.name = "WAKE_UP"
        <5>1. op = "WAKE_UP" \/ (op = "ATTACH" /\ active.phase = "SEND_WAKE")
          BY <3>1, <4>2
             DEF Ordering, Command, SetCommand, ModeOps, SingleShotOps, MaintenanceOps,
                 ResetOps, DiagnosticOps
        <5>2. b.reconciliationRequired = TRUE
          BY <1>7, <2>2, <5>1 DEF Reconciles
        <5> QED BY <1>2, <1>8, <2>2, <4>2, <5>1, <5>2 DEF Told
      <4>3. CASE active.phase # "SEND_STOP" /\ leg.command.name # "WAKE_UP"
        BY <1>2, <1>8, <2>2, <4>3 DEF Told
      <4> QED BY <4>1, <4>2, <4>3
    <3>6. a.effect # "NONE"
      BY <3>5 DEF Told
    <3> QED BY <1>3, <3>2, <3>3, <3>4, <3>5, <3>6 DEF Owned
  <2> QED BY <2>1, <2>2
<1> QED BY <1>2, <1>3, <1>10, ProceedResult

\* A diagnostic write that ends with its acknowledgement.
LEMMA SendLastResult ==
  ASSUME IInv, BeliefInv, TruthInv, ResultInv,
         NEW r \in EffectfulOutcomes \cup PlainOutcomes, NEW dur \in Durations,
         SendLast(r, dur)
  PROVE  ResultInv'
<1> DEFINE leg == Leg(active)
           sent == Attempted(leg.effectful, r)
           b == AfterSend(belief, active, leg)
<1>1. /\ AttemptedLeg(leg, r, dur) /\ active.kind.op \in DiagnosticOps
      /\ FinishOperation("SUCCEEDED", "ACKNOWLEDGED", b, sent, Completed(r, dur))
  BY DEF SendLast, EndsWithSend
<1>2. sent.kind = active.kind
  BY <1>1, SendGiven
<1> HIDE DEF leg, sent, b
<1>3. sent.kind.op # "READ_CONFIGURATION"
  BY <1>1, <1>2 DEF DiagnosticOps
<1>4. Told(sent.kind.op, "ACKNOWLEDGED", b.reconciliationRequired)
  BY DEF Told
<1> QED BY <1>1, <1>3, <1>4, FinishResult

\* The transfer failed or came too late: if the command has changed the sensor
\* nevertheless, its disposition or the expiry makes the effect tell.
LEMMA SendFailsResult ==
  ASSUME IInv, BeliefInv, TruthInv, ResultInv,
         NEW r \in EffectfulOutcomes \cup PlainOutcomes, NEW dur \in Durations,
         SendFails(r, dur)
  PROVE  ResultInv'
<1> DEFINE leg == Leg(active)
           sent == Attempted(leg.effectful, r)
           b1 == AfterAttempt(belief, active, leg, r)
           last == IF leg.effectful THEN r.disposition ELSE "NONE"
           status == TransferStatus(leg.nack, r, dur)
           op == active.kind.op
<1>1. /\ AttemptedLeg(leg, r, dur) /\ status # "OK"
      /\ FinishOperationFailure(status, b1, sent, last, Completed(r, dur))
  BY DEF SendFails
<1>2. /\ Standing(active) /\ leg.effectful \in BOOLEAN /\ leg.nack \in BOOLEAN
      /\ Owned(active, belief, truth.altered) /\ active.effect \in Effects
      /\ (leg.effectful /\ Ordering(active, leg)) \/ (~leg.effectful /\ Asking(active, leg))
      /\ sent.kind = active.kind /\ sent.completed = active.completed
      /\ b1 \in Beliefs
      /\ b1.reconciliationRequired = belief.reconciliationRequired
  BY <1>1, SendGiven
<1>3. /\ sent.effect = IF /\ leg.effectful /\ r.disposition # "NOT_STARTED"
                          /\ active.effect = "NOT_ATTEMPTED"
                       THEN "ATTEMPTED" ELSE active.effect
      /\ sent.attempted <=> active.attempted
                            \/ (leg.effectful /\ r.disposition # "NOT_STARTED")
  <2>1. SlotOK
    BY DEF IInv
  <2> HIDE DEF leg
  <2> QED BY <1>2, <2>1, AttemptRecord
<1>4. truth'.altered /\ ~truth.altered =>
        /\ leg.effectful
        /\ \/ r.disposition \in {"COMPLETE", "INDETERMINATE"}
           \/ Unanswered(leg.command, r)
  BY <1>1, AttemptAlters
<1>5. /\ r.disposition = "COMPLETE" => status = "TIMEOUT"
      /\ leg.nack /\ r.code = "NACK" /\ r.disposition = "NO_EFFECT"
           => status = "TIMEOUT"
  BY <1>1, <1>2, StatusMeans
<1>6. leg.effectful => last = r.disposition
  OBVIOUS
<1> HIDE DEF leg, sent, b1, last, status
<1>7. CASE truth'.altered /\ truth.altered
  <2>1. Told(op, active.effect, belief.reconciliationRequired)
    BY <1>2, <1>7 DEF Owned
  <2>2. sent.effect = active.effect
    BY <1>3, <2>1 DEF Told
  <2>3. Told(sent.kind.op, sent.effect, b1.reconciliationRequired)
    BY <1>2, <2>1, <2>2
  <2>4. sent.kind.op = "READ_CONFIGURATION" => sent.completed # Fields
    BY <1>2, RecordTells DEF Standing
  <2> QED BY <1>1, <1>2, <2>3, <2>4, FailureResult
<1>8. CASE truth'.altered /\ ~truth.altered
  <2>1. leg.effectful /\ Ordering(active, leg)
    BY <1>2, <1>4, <1>8
  <2>2. \/ last = "INDETERMINATE" \/ (last = "COMPLETE" /\ status = "TIMEOUT")
        \/ Told(sent.kind.op, sent.effect, b1.reconciliationRequired)
        \/ /\ sent.effect = "ATTEMPTED" /\ sent.kind.op \in {"ATTACH", "WAKE_UP"}
           /\ status = "TIMEOUT" /\ sent.attempted
    <3>1. CASE r.disposition \in {"COMPLETE", "INDETERMINATE"}
      BY <1>5, <1>6, <2>1, <3>1
    <3>2. CASE Unanswered(leg.command, r)
      <4>1. op \in {"ATTACH", "WAKE_UP"} /\ leg.nack = TRUE
        BY <2>1, <3>2
           DEF Unanswered, Ordering, Command, SetCommand, ModeOps, SingleShotOps,
               MaintenanceOps, ResetOps, DiagnosticOps
      <4>2. active.effect # "NONE"
        BY <1>2, <4>1 DEF Owned, IsEffectful, ReadOps
      <4>3. status = "TIMEOUT" /\ sent.attempted
        BY <1>3, <1>5, <2>1, <3>2, <4>1 DEF Unanswered
      <4>4. sent.effect \in {"ATTEMPTED", "ACKNOWLEDGED", "VERIFIED", "UNKNOWN"}
        BY <1>2, <1>3, <2>1, <3>2, <4>2 DEF Unanswered, Effects
      <4> QED BY <1>2, <4>1, <4>3, <4>4 DEF Told
    <3> QED BY <1>4, <1>8, <3>1, <3>2
  <2>3. sent.kind.op = "READ_CONFIGURATION" => sent.completed # Fields
    BY <1>2, RecordTells DEF Standing
  <2> QED BY <1>1, <1>2, <2>2, <2>3, FailureResult
<1>9. CASE ~truth'.altered
  <2>1. sent.kind.op = "READ_CONFIGURATION" => sent.completed # Fields
    BY <1>2, RecordTells DEF Standing
  <2> QED BY <1>1, <1>2, <1>9, <2>1, FailureResult
<1> QED BY <1>7, <1>8, <1>9

\* Whatever an iteration does.
LEMMA IterationResult ==
  ASSUME IInv, BeliefInv, TruthInv, ResultInv, LoopStep
  PROVE  ResultInv'
<1>1. CASE \/ PollBreak \/ GateDefers \/ NotDue \/ WaitOver \/ CommandSettled
           \/ PersistShortcut \/ BudgetExhausted
  BY <1>1, ReturnResult, WaitOverResult, SettledResult
<1>2. ASSUME NEW dur \in Durations, NEW r \in EffectfulOutcomes \cup PlainOutcomes,
             Send(r, dur) \/ SendLast(r, dur) \/ SendFails(r, dur) \/ ReadFails(r, dur)
      PROVE  ResultInv'
  BY <1>2, SendResult, SendLastResult, SendFailsResult, ReadFailsResult
<1>3. ASSUME NEW dur \in Durations,
             \/ HearSerial(dur) \/ IdentityRefused(dur) \/ IdentityConfirmed(dur)
             \/ HearVariant(dur) \/ HearInvalidSetting(dur) \/ HearSetting(dur)
             \/ HearPresentSetting(dur) \/ HearWrittenSetting(dur) \/ HearSample(dur)
             \/ \E verdict \in BOOLEAN :
                  HearAnswer(dur, verdict) \/ HearReady(dur, verdict)
      PROVE  ResultInv'
  BY <1>3, HeardOnlyResult, IdentityResult, VariantOrSampleResult, HearSettingResult,
     HearWordResult
<1> QED BY <1>1, <1>2, <1>3 DEF LoopStep
-----------------------------------------------------------------------------
(* The calls of the owner.                                                 *)

\* A binding that begins or ends: end() leaves the result of an operation it
\* finds, which tells what the operation has done so far.
LEMMA BindingResult ==
  ASSUME IInv, BeliefInv, ResultInv, End \/ \E c \in Configs : Begin(c)
  PROVE  ResultInv'
<1>1. CASE \E c \in Configs : Begin(c)
  <2>1. /\ ~activeValid /\ ~activeValid' /\ ~terminalValid /\ ~terminalValid'
        /\ truth'.altered = truth.altered
    BY <1>1 DEF Begin, IInv, BusOK, Truths
  <2> QED BY <2>1 DEF ResultInv
<1>2. CASE End /\ ~activeValid
  <2>1. UNCHANGED <<activeValid, terminalValid, terminal, truth>>
    BY <1>2 DEF End
  <2> QED BY <1>2, <2>1 DEF ResultInv
<1>3. CASE End /\ activeValid
  <2> DEFINE marked == IF active.callbacksUsed > 0
                       THEN MarkReconciliationRequired(belief) ELSE belief
  <2>1. PICK p, d :
          LET cancelled == [marked EXCEPT !.persistenceIndeterminate = p, !.dirty = d]
          IN /\ terminal'.kind = active.kind /\ terminal'.outcome = "CANCELLED"
             /\ terminal'.effect = active.effect
             /\ terminal'.completed = active.completed
             /\ terminal'.reconciliationRequired = cancelled.reconciliationRequired
             /\ ~activeValid' /\ terminalValid' /\ truth' = truth
    BY <1>3 DEF End
  <2>2. /\ marked \in Beliefs
        /\ active.callbacksUsed > 0 => marked.reconciliationRequired = TRUE
    BY <1>3, ResultGiven, MarkType, MarkFields DEF Unclaimed
  <2> HIDE DEF marked
  <2>3. [marked EXCEPT !.persistenceIndeterminate = p, !.dirty = d].reconciliationRequired
          = marked.reconciliationRequired
    BY <2>2 DEF Beliefs
  <2>4. /\ Owned(active, belief, truth.altered) /\ active.index \in 0 .. 6
    BY <1>3, ResultGiven DEF Standing
  <2>5. truth.altered =>
          Told(terminal'.kind.op, terminal'.effect, terminal'.reconciliationRequired)
    BY <2>1, <2>2, <2>3, <2>4 DEF Owned, Told
  <2>6. active.kind.op = "READ_CONFIGURATION" => Whole("CANCELLED", active.completed)
    BY <2>4, RecordTells DEF Whole
  <2> QED BY <2>1, <2>5, <2>6 DEF ResultInv
<1> QED BY <1>1, <1>2, <1>3

\* An operation that begins has a fresh record.
LEMMA StartResult ==
  ASSUME IInv, BeliefInv, ResultInv, NEW k \in UsedKinds, NEW id, NEW w, NEW deadline,
         NEW d, Start(k, id, w, deadline, d)
  PROVE  ResultInv'
<1>1. /\ activeValid' /\ ~terminalValid' /\ ~truth'.altered
  BY DEF Start, Startable, ResultInv, IInv, BusOK, Truths
<1>2. /\ active'.kind = k /\ active'.phase = FirstPhase(k) /\ active'.index = 0
      /\ active'.completed = {} /\ active'.attempted = FALSE
      /\ active'.effect = IF IsEffectful(k) THEN "NOT_ATTEMPTED" ELSE "NONE"
  BY DEF Start, NoOperation
<1>3. k.op = "ATTACH" => active'.phase = "WAIT_POWER_UP"
  BY <1>2 DEF FirstPhase
<1>4. Owned(active', belief', truth'.altered)
  BY <1>1, <1>2, <1>3, FieldsInOrder DEF Owned
<1> QED BY <1>1, <1>4 DEF ResultInv

\* A cancelled operation that has changed the sensor admits it.
LEMMA CancelResult ==
  ASSUME IInv, BeliefInv, ResultInv, NEW id, NEW d, Cancel(id, d)
  PROVE  ResultInv'
<1> DEFINE effect == IF active.callbacksUsed = 0
                     THEN IF IsEffectful(active.kind) THEN "NOT_ATTEMPTED" ELSE "NONE"
                     ELSE IF active.attempted /\ active.effect = "NOT_ATTEMPTED"
                     THEN "UNKNOWN" ELSE active.effect
           b == IF active.callbacksUsed # 0 /\ active.attempted
                THEN MarkReconciliationRequired(belief) ELSE belief
<1>1. activeValid /\ truth'.altered = truth.altered
  BY PassKeeps DEF Cancel
<1>2. PICK p : FinishOperation("CANCELLED", effect,
                               [b EXCEPT !.persistenceIndeterminate = p], active, d)
  BY DEF Cancel
<1>3. /\ Owned(active, belief, truth.altered) /\ active.index \in 0 .. 6
      /\ belief \in Beliefs
  BY <1>1, ResultGiven DEF Standing
<1>4. /\ b \in Beliefs
      /\ active.callbacksUsed # 0 /\ active.attempted => b.reconciliationRequired = TRUE
  BY <1>3, MarkType, MarkFields DEF Unclaimed
<1> HIDE DEF b
<1>5. [b EXCEPT !.persistenceIndeterminate = p].reconciliationRequired =
        b.reconciliationRequired
  BY <1>4 DEF Beliefs
<1>6. active.callbacksUsed > 0 => active.callbacksUsed # 0
  OBVIOUS
<1>7. truth'.altered => Told(active.kind.op, effect, b.reconciliationRequired)
  BY <1>1, <1>3, <1>4, <1>6 DEF Owned, Told
<1>8. active.kind.op = "READ_CONFIGURATION" => Whole("CANCELLED", active.completed)
  BY <1>3, RecordTells DEF Whole
<1> HIDE DEF effect
<1> QED BY <1>2, <1>5, <1>7, <1>8, FinishResult

\* So does one whose deadline has passed when poll() looks at it.
LEMMA EnterPollResult ==
  ASSUME IInv, BeliefInv, ResultInv, NEW budget, NEW d, EnterPoll(budget, d)
  PROVE  ResultInv'
<1>1. truth'.altered = truth.altered
  BY PassKeeps DEF EnterPoll
<1>2. CASE activeValid /\ active.deadline > d
  <2>1. /\ active' = Aged(active, d)
        /\ UNCHANGED <<belief, activeValid, terminal, terminalValid>>
    BY <1>2 DEF EnterPoll
  <2>2. /\ active'.kind = active.kind /\ active'.phase = active.phase
        /\ active'.index = active.index /\ active'.effect = active.effect
        /\ active'.attempted = active.attempted
        /\ active'.completed = active.completed
        /\ active'.callbacksUsed = active.callbacksUsed
    BY <2>1 DEF Aged, IInv, SlotOK, Operations
  <2>3. Owned(active', belief', truth'.altered)
    BY <1>1, <1>2, <2>1, <2>2 DEF ResultInv, Owned
  <2> QED BY <1>1, <1>2, <2>1, <2>3, ResultGiven DEF ResultInv
<1>3. CASE activeValid /\ ~(active.deadline > d)
  <2>1. FinishOperationFailure("TIMEOUT", belief, active, lastEffectful, d)
    BY <1>3 DEF EnterPoll
  <2>2. /\ belief \in Beliefs /\ active.index \in 0 .. 6
        /\ Owned(active, belief, truth.altered)
    BY <1>3, ResultGiven DEF Standing
  <2> QED BY <1>1, <2>1, <2>2, RecordTells, FailureResult
<1>4. CASE ~activeValid
  <2>1. UNCHANGED <<activeValid, terminal, terminalValid>>
    BY <1>4 DEF EnterPoll
  <2> QED BY <1>1, <1>4, <2>1 DEF ResultInv
<1> QED BY <1>2, <1>3, <1>4

\* No step of anybody makes a result that hides what was done.
LEMMA NextResult ==
  ASSUME IInv, BeliefInv, TruthInv, ResultInv, [Next]_vars
  PROVE  ResultInv'
<1>1. CASE LoopStep
  BY <1>1, IterationResult
<1>2. CASE End \/ \E c \in Configs : Begin(c)
  BY <1>2, BindingResult
<1>3. CASE TakeResult(terminal.id)
  <2>1. ~terminalValid' /\ UNCHANGED activeValid /\ terminalValid
    BY <1>3 DEF TakeResult
  <2>2. ~activeValid
    BY <2>1 DEF BeliefInv
  <2>3. truth'.altered = FALSE
    BY <1>3 DEF TakeResult, IInv, BusOK, Truths
  <2> QED BY <2>1, <2>2, <2>3 DEF ResultInv
<1>4. CASE \E s2 \in Replacements : Disturb(s2)
  <2>1. UNCHANGED <<belief, activeValid, active, terminalValid, terminal>>
    BY <1>4 DEF Disturb, driverVars
  <2>2. truth'.altered = truth.altered
    BY <1>4 DEF Disturb, IInv, BusOK, Truths
  <2> QED BY <2>1, <2>2 DEF ResultInv
<1>5. CASE UNCHANGED vars
  BY <1>5 DEF ResultInv, vars, driverVars
<1>6. ASSUME NEW k \in UsedKinds, NEW id, NEW w, NEW deadline, NEW d,
             Start(k, id, w, deadline, d)
      PROVE  ResultInv'
  BY <1>6, StartResult
<1>7. ASSUME NEW d, Cancel(active.id, d) \/ \E budget : EnterPoll(budget, d)
      PROVE  ResultInv'
  BY <1>7, CancelResult, EnterPollResult
<1> QED BY <1>1, <1>2, <1>3, <1>4, <1>5, <1>6, <1>7 DEF Next, OwnerCall

\* The invariant of the record and of the results made of it.
THEOREM ResultInvariance == Spec => []ResultInv
<1>1. Init => ResultInv
  <2>1. Init => activeValid = FALSE /\ terminalValid = FALSE
    BY DEF Init
  <2>2. Init => truth.altered = FALSE
    BY DEF Init
  <2> QED BY <2>1, <2>2 DEF ResultInv
<1>2. IInv /\ BeliefInv /\ TruthInv /\ ResultInv /\ [Next]_vars => ResultInv'
  BY NextResult
<1> QED BY <1>1, <1>2, Invariance, BeliefInvariance, TruthInvariance, PTL DEF Spec
-----------------------------------------------------------------------------
(* What follows.                                                           *)

\* A result never hides that the operation has changed the sensor, whether it
\* succeeded, failed, came too late or was cancelled, and however often its
\* transfers failed before: the effect says so, or a wake that nobody
\* acknowledged asks for reconciliation.
THEOREM NoChangeIsHidden == Spec => []EffectNotHidden
<1>1. ResultInv => EffectNotHidden
  BY DEF ResultInv, Told, EffectNotHidden
<1> QED BY <1>1, ResultInvariance, PTL

\* READ_CONFIGURATION succeeds with all seven fields and with no fewer, and its
\* failures tell none from some.
THEOREM ConfigurationIsWhole == Spec => []ConfigurationWhole
<1>1. ASSUME Whole(terminal.outcome, terminal.completed)
      PROVE  CASE terminal.outcome = "SUCCEEDED" -> terminal.completed = Fields
               [] terminal.outcome = "PARTIAL"   -> terminal.completed \notin {{}, Fields}
               [] terminal.outcome = "CANCELLED" -> terminal.completed # Fields
               [] OTHER                          -> terminal.completed = {}
  <2>1. CASE terminal.outcome = "SUCCEEDED"
    <3>1. terminal.outcome # "PARTIAL" /\ terminal.outcome # "CANCELLED"
      BY <2>1
    <3>2. terminal.completed = Fields
      BY <1>1, <2>1 DEF Whole
    <3> QED BY <2>1, <3>1, <3>2, Zenon
  <2>2. CASE terminal.outcome = "PARTIAL"
    <3>1. terminal.outcome # "SUCCEEDED" /\ terminal.outcome # "CANCELLED"
      BY <2>2
    <3>2. terminal.completed \notin {{}, Fields}
      BY <1>1, <2>2 DEF Whole
    <3> QED BY <2>2, <3>1, <3>2, Zenon
  <2>3. CASE terminal.outcome = "CANCELLED"
    <3>1. terminal.outcome # "SUCCEEDED" /\ terminal.outcome # "PARTIAL"
      BY <2>3
    <3>2. terminal.completed # Fields
      BY <1>1, <2>3 DEF Whole
    <3> QED BY <2>3, <3>1, <3>2, Zenon
  <2>4. CASE terminal.outcome \notin {"SUCCEEDED", "PARTIAL", "CANCELLED"}
    <3>1. terminal.completed = {}
      BY <1>1, <2>4 DEF Whole
    <3>2. /\ terminal.outcome # "SUCCEEDED" /\ terminal.outcome # "PARTIAL"
          /\ terminal.outcome # "CANCELLED"
      BY <2>4
    <3> QED BY <3>1, <3>2, Zenon
  <2> QED BY <2>1, <2>2, <2>3, <2>4, Zenon
<1>2. ResultInv => ConfigurationWhole
  <2>1. ResultInv /\ terminalValid /\ terminal.kind.op = "READ_CONFIGURATION"
          => Whole(terminal.outcome, terminal.completed)
    BY DEF ResultInv
  <2> QED BY <1>1, <2>1, Zenon DEF ConfigurationWhole
<1> QED BY <1>2, ResultInvariance, PTL
-----------------------------------------------------------------------------
(* No setting is lost unnoticed.                                           *)

Undisturbed == ~truth.disturbed

\* A belief that covers the unsaved settings of the sensor, and cannot take
\* that sensor for another.
Covers(b, unsaved, s) ==
  /\ unsaved \subseteq b.dirty
  /\ unsaved # {} => b.identity.valid /\ ~Unsupported(b.identity)
  /\ b.identity.valid => b.identity.serial = s.serial /\ b.identity.variant = s.variant

\* Once the command of a reload, a reset or a save has been sent, nothing is
\* unsaved; and a setting that needs no change has its word.
SavedSoFar(a, unsaved, s) ==
  /\ a.kind.op \in ResetOps \cup {"PERSIST_SETTINGS"} /\ a.phase # "SEND_COMMAND"
       => unsaved = {}
  /\ a.kind.op = "SET_SETTING" /\ a.index = 1 /\ ~a.changed
       => s.ram[a.kind.field] = a.desired

SavedInv ==
  /\ Undisturbed
  /\ bound => Covers(belief, truth.unsaved, sensor)
  /\ activeValid => SavedSoFar(active, truth.unsaved, sensor)
  /\ PersistHonest

\* What an iteration of the poll loop leaves.
LoopSaved ==
  /\ Covers(belief', truth'.unsaved, sensor')
  /\ activeValid' => SavedSoFar(active', truth'.unsaved, sensor')
  /\ PersistHonest'
-----------------------------------------------------------------------------
(* Beliefs that cover as much.                                             *)

\* A belief with the same identity and nothing less dirty covers as much.
LEMMA CoversMore ==
  ASSUME NEW b2, NEW b, b2.identity = b.identity, b.dirty \subseteq b2.dirty,
         NEW unsaved, NEW s, Covers(b, unsaved, s)
  PROVE  Covers(b2, unsaved, s)
  BY DEF Covers

\* Fewer settings are covered as well, and a sensor does not change its name.
LEMMA CoversFewer ==
  ASSUME NEW b, NEW u2, NEW u, u2 \subseteq u, NEW s2, NEW s,
         s2.serial = s.serial, s2.variant = s.variant, Covers(b, u, s)
  PROVE  Covers(b, u2, s2)
  BY DEF Covers

\* Where nothing is unsaved, only the identity counts.
LEMMA CoversNothing ==
  ASSUME NEW b, NEW s,
         b.identity.valid => b.identity.serial = s.serial
                             /\ b.identity.variant = s.variant
  PROVE  Covers(b, {}, s)
  BY DEF Covers

\* An iteration that leaves the operation active.
LEMMA ProceedSaved ==
  ASSUME NEW a, NEW b, NEW at, NEW left, Proceed(a, b, at, left), ~terminalValid,
         Covers(b, truth'.unsaved, sensor'), SavedSoFar(a, truth'.unsaved, sensor')
  PROVE  LoopSaved
<1>1. active' = a /\ belief' = b /\ ~terminalValid'
  BY DEF Proceed
<1>2. PersistHonest'
  BY <1>1 DEF PersistHonest
<1> QED BY <1>1, <1>2 DEF LoopSaved

\* One that ends it: a reload that has settled has discarded what was unsaved,
\* and a save that succeeds has saved it.
LEMMA FinishSaved ==
  ASSUME NEW outcome, NEW effect, NEW b \in Beliefs, NEW a, NEW at,
         FinishOperation(outcome, effect, b, a, at),
         Covers(b, truth'.unsaved, sensor'),
         ReloadSettled(a, at) => truth'.unsaved = {},
         a.kind.op = "PERSIST_SETTINGS" /\ outcome = "SUCCEEDED" => truth'.unsaved = {}
  PROVE  LoopSaved
<1>1. /\ ~activeValid' /\ belief'.identity = b.identity
      /\ belief'.dirty = IF ReloadSettled(a, at) THEN {} ELSE b.dirty
  BY FinishBelief DEF SameClaims
<1>2. Covers(belief', truth'.unsaved, sensor')
  BY <1>1 DEF Covers
<1>3. terminal'.kind = a.kind /\ terminal'.outcome = outcome
  BY DEF FinishOperation
<1>4. PersistHonest'
  BY <1>3 DEF PersistHonest
<1> QED BY <1>1, <1>2, <1>4 DEF LoopSaved

\* A failure is never a success.
LEMMA FailureSaved ==
  ASSUME NEW status, NEW b \in Beliefs, NEW a, NEW last, NEW at,
         FinishOperationFailure(status, b, a, last, at),
         Covers(b, truth'.unsaved, sensor'),
         ReloadSettled(a, at) => truth'.unsaved = {}
  PROVE  LoopSaved
<1>1. /\ ~activeValid' /\ belief'.identity = b.identity
      /\ belief'.dirty = IF ReloadSettled(a, at) THEN {} ELSE b.dirty
  BY FailureBelief DEF SameClaims, Unclaimed
<1>2. Covers(belief', truth'.unsaved, sensor')
  BY <1>1 DEF Covers
<1>3. terminal'.outcome # "SUCCEEDED"
  BY DEF FinishOperationFailure, FinishOperation
<1>4. PersistHonest'
  BY <1>3 DEF PersistHonest
<1> QED BY <1>1, <1>2, <1>4 DEF LoopSaved

\* What holds whenever the poll loop runs.
LEMMA LoopGiven ==
  ASSUME IInv, BeliefInv, SavedInv, activeValid
  PROVE  /\ bound /\ ~terminalValid /\ belief \in Beliefs /\ Standing(active)
         /\ Covers(belief, truth.unsaved, sensor)
         /\ SavedSoFar(active, truth.unsaved, sensor)
         /\ truth.disturbed = FALSE
         /\ active.kind.op \notin Reconciling => belief.attached
<1>1. Standing(active)
  BY ActiveStands DEF IInv
<1>2. truth.disturbed \in BOOLEAN
  BY DEF IInv, BusOK, Truths
<1> QED BY <1>1, <1>2 DEF IInv, SlotOK, BeliefInv, SavedInv, Undisturbed
-----------------------------------------------------------------------------
(* The iterations without the bus.                                         *)

\* The poll returns, or the gate puts a phase off.
LEMMA ReturnSaved ==
  ASSUME IInv, BeliefInv, SavedInv, PollBreak \/ GateDefers \/ NotDue \/ BudgetExhausted
  PROVE  LoopSaved
<1>1. UNCHANGED <<sensor, truth, bound>> /\ activeValid
  BY DEF Quiet, PollBreak, GateDefers, NotDue, BudgetExhausted, Transferring, Working,
     IInv, SlotOK, InTime
<1>2. CASE PollBreak \/ NotDue \/ BudgetExhausted
  <2>1. UNCHANGED <<belief, activeValid, active, terminalValid, terminal>>
    BY <1>2 DEF PollBreak, NotDue, BudgetExhausted
  <2>2. PersistHonest'
    BY <1>1, <2>1, LoopGiven DEF PersistHonest
  <2> QED BY <1>1, <2>1, <2>2, LoopGiven DEF LoopSaved
<1>3. CASE GateDefers
  <2> DEFINE a == [active EXCEPT !.nextDue = nextSafe]
  <2>1. Proceed(a, belief, poll.at, poll.left)
    BY <1>3 DEF GateDefers
  <2>2. /\ a.kind = active.kind /\ a.phase = active.phase /\ a.index = active.index
        /\ a.changed = active.changed /\ a.desired = active.desired
    BY DEF IInv, SlotOK, Operations
  <2> HIDE DEF a
  <2>3. SavedSoFar(a, truth.unsaved, sensor)
    BY <1>1, <2>2, LoopGiven DEF SavedSoFar
  <2> QED BY <1>1, <2>1, <2>3, LoopGiven, ProceedSaved
<1> QED BY <1>2, <1>3

\* A wait that does not end the operation: a reload that has settled is clean.
LEMMA WaitOverSaved ==
  ASSUME IInv, BeliefInv, SavedInv, WaitOver
  PROVE  LoopSaved
<1> DEFINE a == [active EXCEPT !.phase = PhaseAfterWait(active)]
           b == IF active.kind.op \in ResetOps THEN [belief EXCEPT !.dirty = {}]
                ELSE belief
<1>1. /\ Proceed(a, b, poll.at, poll.left) /\ UNCHANGED <<sensor, truth>>
      /\ active.phase \in WaitPhases /\ activeValid
  BY DEF WaitOver, WaitIsOver, Working, Quiet, IInv, SlotOK, InTime
<1>2. /\ a.kind = active.kind /\ a.index = active.index
      /\ a.changed = active.changed /\ a.desired = active.desired
  BY DEF IInv, SlotOK, Operations
<1>3. /\ b.identity = belief.identity
      /\ b.dirty = IF active.kind.op \in ResetOps THEN {} ELSE belief.dirty
  BY <1>1, LoopGiven, CleanFields DEF SameClaims
<1> HIDE DEF a, b
<1>4. active.phase # "SEND_COMMAND"
  BY <1>1 DEF WaitPhases
<1>5. Covers(b, truth.unsaved, sensor)
  BY <1>1, <1>3, <1>4, LoopGiven DEF Covers, SavedSoFar
<1>6. SavedSoFar(a, truth.unsaved, sensor)
  BY <1>1, <1>2, <1>4, LoopGiven DEF SavedSoFar
<1> QED BY <1>1, <1>5, <1>6, LoopGiven, ProceedSaved

\* A wait that ends the operation, and a save that is not needed.
LEMMA SettledSaved ==
  ASSUME IInv, BeliefInv, SavedInv, CommandSettled \/ PersistShortcut
  PROVE  LoopSaved
<1>1. /\ UNCHANGED <<sensor, truth>> /\ activeValid
      /\ active.phase = "SEND_COMMAND" \/ active.phase \in WaitPhases
  BY DEF CommandSettled, PersistShortcut, PersistNeedless, WaitIsOver, Working, Quiet,
     IInv, SlotOK, InTime
<1>2. CASE PersistShortcut
  <2>1. \/ FinishOperation("INDETERMINATE", "UNKNOWN", belief, active, poll.at)
        \/ /\ belief.dirty = {}
           /\ FinishOperation("SUCCEEDED", "NOT_ATTEMPTED", belief, active, poll.at)
    BY <1>2 DEF PersistShortcut, PersistNeedless
  <2>2. ~ReloadSettled(active, poll.at)
    BY <1>2 DEF PersistShortcut, PersistNeedless, ReloadSettled, ResetOps
  <2>3. belief.dirty = {} => truth.unsaved = {}
    BY <1>1, LoopGiven DEF Covers
  <2> QED BY <1>1, <2>1, <2>2, <2>3, LoopGiven, FinishSaved
<1>3. CASE CommandSettled /\ active.kind.op = "PERSIST_SETTINGS"
  <2> DEFINE b == [belief EXCEPT !.dirty = {}, !.persistenceIndeterminate = FALSE]
  <2>1. FinishOperation("SUCCEEDED", "ACKNOWLEDGED", b, active, poll.at)
    BY <1>3 DEF CommandSettled
  <2>2. b \in Beliefs /\ b.identity = belief.identity /\ b.dirty = {}
    BY <1>1, LoopGiven DEF Beliefs
  <2>3. truth.unsaved = {}
    BY <1>1, <1>3, LoopGiven DEF SavedSoFar, CommandSettled, WaitIsOver, WaitPhases
  <2> HIDE DEF b
  <2>4. Covers(b, truth.unsaved, sensor)
    BY <1>1, <2>2, <2>3, LoopGiven DEF Covers
  <2> QED BY <1>1, <2>1, <2>2, <2>3, <2>4, FinishSaved
<1>4. CASE CommandSettled /\ active.kind.op # "PERSIST_SETTINGS"
  <2> DEFINE b == SetMode(belief, ModeAfter(active.kind), "ACKNOWLEDGED")
  <2>1. FinishOperation("SUCCEEDED", "ACKNOWLEDGED", b, active, poll.at)
    BY <1>4 DEF CommandSettled
  <2>2. active.kind.op \in ModeOps \ {"WAKE_UP"}
    BY <1>4 DEF CommandSettled, EndsWithWait
  <2>3. b \in Beliefs
    BY <1>1, <2>2, LoopGiven, ModeAfterKnown, SetModeType
  <2>4. b.identity = belief.identity /\ b.dirty = belief.dirty
    BY <1>1, LoopGiven, SetModeFields
  <2> HIDE DEF b
  <2>5. Covers(b, truth.unsaved, sensor)
    BY <1>1, <2>4, LoopGiven, CoversMore
  <2>6. ~ReloadSettled(active, poll.at)
    BY <2>2 DEF ReloadSettled, ModeOps, ResetOps
  <2> QED BY <1>1, <1>4, <2>1, <2>3, <2>5, <2>6, FinishSaved
<1> QED BY <1>2, <1>3, <1>4
-----------------------------------------------------------------------------
(* Reading phases.                                                         *)

\* What holds when an answer is heard.
LEMMA ReadingGiven ==
  ASSUME IInv, BeliefInv, TruthInv, SavedInv, NEW r, NEW dur \in Durations,
         AttemptedRead(r, dur)
  PROVE  /\ sensor' = sensor /\ truth'.unsaved = truth.unsaved
         /\ activeValid /\ active.phase \in ReadPhases
         /\ active.kind.op # "PERSIST_SETTINGS"
         /\ active.kind.op \in ResetOps => truth.unsaved = {}
         /\ ClaimsTrue(belief, sensor) /\ OpTrue(active, sensor)
         /\ \A a, at : a.phase = active.phase => ~ReloadSettled(a, at)
<1>1. /\ sensor' = sensor /\ truth'.unsaved = truth.unsaved
      /\ activeValid /\ Standing(active) /\ active.phase \in ReadPhases
      /\ ~truth.disturbed => ClaimsTrue(belief, sensor) /\ OpTrue(active, sensor)
  BY ReadKeeps
<1>2. active.phase \notin {"SEND_COMMAND", "WAIT_EXECUTION"}
  BY <1>1 DEF ReadPhases
<1>3. active.kind.op # "PERSIST_SETTINGS"
  BY <1>1, <1>2, ReachableCases DEF Standing, CommandSteps
<1> QED
  BY <1>1, <1>2, <1>3, LoopGiven DEF SavedSoFar, ReloadSettled

\* An answer that ends the operation.
LEMMA HeardFinishSaved ==
  ASSUME IInv, BeliefInv, TruthInv, SavedInv, NEW dur \in Durations, Answered(dur),
         NEW outcome, NEW effect, NEW b \in Beliefs, NEW a, NEW at,
         FinishOperation(outcome, effect, b, a, at),
         a.kind = active.kind, a.phase = active.phase,
         Covers(b, truth.unsaved, sensor)
  PROVE  LoopSaved
<1>1. AttemptedRead(Exact, dur)
  BY DEF Answered
<1> QED BY <1>1, ReadingGiven, FinishSaved

\* One that ends it as a failure.
LEMMA HeardFailureSaved ==
  ASSUME IInv, BeliefInv, TruthInv, SavedInv, NEW r, NEW dur \in Durations,
         AttemptedRead(r, dur),
         NEW status, NEW b \in Beliefs, NEW a, NEW last, NEW at,
         FinishOperationFailure(status, b, a, last, at), a.phase = active.phase,
         Covers(b, truth.unsaved, sensor)
  PROVE  LoopSaved
  BY ReadingGiven, FailureSaved

\* The transfer of an answer failed.
LEMMA ReadFailsSaved ==
  ASSUME IInv, BeliefInv, TruthInv, SavedInv, NEW r, NEW dur \in Durations,
         ReadFails(r, dur)
  PROVE  LoopSaved
<1>1. AttemptedRead(r, dur)
  BY DEF ReadFails
<1>2. PICK status :
        FinishOperationFailure(status, belief, Attempted(FALSE, r), "NONE",
                               Completed(r, dur))
  BY DEF ReadFails
<1>3. Attempted(FALSE, r).phase = active.phase
  <2>1. r \in Answers /\ SlotOK
    BY <1>1, ReadKeeps DEF IInv
  <2> QED BY <2>1, AttemptFields
<1>4. belief \in Beliefs /\ Covers(belief, truth.unsaved, sensor)
  BY <1>1, ReadingGiven, LoopGiven
<1> QED BY <1>1, <1>2, <1>3, <1>4, HeardFailureSaved

\* Answers that leave the settings alone.
LEMMA HeardOnlySaved ==
  ASSUME IInv, BeliefInv, TruthInv, SavedInv, NEW dur \in Durations,
         \/ HearSerial(dur) \/ HearSample(dur)
         \/ \E verdict \in BOOLEAN : HearAnswer(dur, verdict) \/ HearReady(dur, verdict)
  PROVE  LoopSaved
<1>1. Answered(dur) /\ AttemptedRead(Exact, dur)
  BY DEF HearSerial, HearSample, HearAnswer, HearReady, Answered
<1>2. /\ sensor' = sensor /\ truth'.unsaved = truth.unsaved /\ activeValid
      /\ belief \in Beliefs /\ Covers(belief, truth.unsaved, sensor) /\ ~terminalValid
      /\ active.phase # "SEND_COMMAND" /\ SavedSoFar(active, truth.unsaved, sensor)
  BY <1>1, ReadingGiven, LoopGiven DEF ReadPhases
<1>3. /\ Heard \in Operations /\ Heard.kind = active.kind
      /\ Heard.phase = active.phase
  BY <1>1, AnswerKeeps
<1>4. CASE HearSerial(dur)
  <2> DEFINE a == [Heard EXCEPT !.serial = sensor.serial, !.index = 1,
                                !.phase = "SEND_VERIFY_COMMAND",
                                !.nextDue = poll.at + dur]
  <2>1. Proceed(a, belief, poll.at + dur, poll.left - 1) /\ HearsSerial(active)
    BY <1>4 DEF HearSerial
  <2>2. a.kind = Heard.kind
    <3> HIDE DEF Heard
    <3> QED BY <1>3 DEF Operations
  <2> HIDE DEF a
  <2>3. active.kind.op # "SET_SETTING"
    BY <2>1 DEF HearsSerial, ResetOps
  <2>4. SavedSoFar(a, truth.unsaved, sensor)
    BY <1>2, <1>3, <2>2, <2>3 DEF SavedSoFar
  <2> QED BY <1>2, <2>1, <2>4, ProceedSaved
<1>5. CASE HearSample(dur)
  <2> DEFINE b == StoreSample(belief)
  <2>1. PICK effect : FinishOperation("SUCCEEDED", effect, b, Heard, poll.at + dur)
    BY <1>5 DEF HearSample
  <2>2. b \in Beliefs /\ b.identity = belief.identity /\ b.dirty = belief.dirty
    BY <1>2, StoreSampleType, SampleFields
  <2> HIDE DEF b
  <2>3. Covers(b, truth.unsaved, sensor)
    BY <1>2, <2>2, CoversMore
  <2> QED BY <1>1, <1>3, <2>1, <2>2, <2>3, HeardFinishSaved
<1>6. ASSUME NEW verdict \in BOOLEAN, HearAnswer(dur, verdict)
      PROVE  LoopSaved
  <2>1. PICK outcome, effect, at :
          FinishOperation(outcome, effect, belief, Heard, at)
    BY <1>6 DEF HearAnswer
  <2> QED BY <1>1, <1>2, <1>3, <2>1, HeardFinishSaved
<1>7. ASSUME NEW ready \in BOOLEAN, HearReady(dur, ready)
      PROVE  LoopSaved
  <2> DEFINE a == [Heard EXCEPT !.phase = "SEND_READ_COMMAND"]
  <2>1. \/ Proceed(a, belief, poll.at + dur, poll.left - 1)
        \/ FinishOperation("NO_DATA", active.effect, belief, Heard, poll.at + dur)
    BY <1>7 DEF HearReady
  <2>2. a.kind = Heard.kind
    <3> HIDE DEF Heard
    <3> QED BY <1>3 DEF Operations
  <2> HIDE DEF a
  <2>3. active.kind.op \in MeasurementOps
    BY <1>7 DEF HearReady
  <2>4. SavedSoFar(a, truth.unsaved, sensor)
    BY <1>3, <2>2, <2>3 DEF SavedSoFar, MeasurementOps, SingleShotOps, ResetOps
  <2>5. Proceed(a, belief, poll.at + dur, poll.left - 1) => LoopSaved
    BY <1>2, <2>4, ProceedSaved
  <2> QED BY <1>1, <1>2, <1>3, <2>1, <2>5, HeardFinishSaved
<1> QED BY <1>4, <1>5, <1>6, <1>7

\* A disowned sensor's name is that which was read.
LEMMA DisownNames ==
  ASSUME NEW b \in Beliefs, NEW id \in Readings
  PROVE  LET b2 == Disown(b, id)
         IN b2.identity.serial = id.serial /\ b2.identity.variant = id.variant
<1>1. LET b2 == Disown(b, id)
      IN /\ b2.attached = FALSE /\ b2.reconciliationRequired = TRUE
         /\ b2.mode = "UNKNOWN" /\ b2.epoch = Saturate(b.epoch, MaxEpoch)
         /\ b2.verified = {} /\ b2.compensation = NoField
         /\ b2.sample.valid = FALSE /\ b2.dirty = {}
         /\ b2.identity.serial = id.serial /\ b2.identity.variant = id.variant
         /\ b2.identity.valid = TRUE
  BY DisownFields
<1> QED BY <1>1

\* The identity checks: the sensor is the one whose settings are dirty.
LEMMA IdentitySaved ==
  ASSUME IInv, BeliefInv, TruthInv, SavedInv, NEW dur \in Durations,
         IdentityRefused(dur) \/ IdentityConfirmed(dur)
  PROVE  LoopSaved
<1> DEFINE id == IdentityRead
<1>1. /\ Answered(dur) /\ AttemptedRead(Exact, dur) /\ HearsVariant(active)
      /\ id \in Readings
  BY IdentityReadType DEF IdentityRefused, IdentityConfirmed, Answered
<1>2. /\ activeValid /\ belief \in Beliefs
      /\ Covers(belief, truth.unsaved, sensor)
      /\ active.kind.op \in ResetOps => truth.unsaved = {}
      /\ OpTrue(active, sensor)
  BY <1>1, ReadingGiven, LoopGiven
<1>3. /\ Heard.kind = active.kind /\ Heard.phase = active.phase /\ Standing(active)
  BY <1>1, AnswerKeeps
<1>4. /\ SerialHeard(active) /\ active.phase = "READ_VERIFY_RESPONSE"
      /\ active.kind.op \in {"ATTACH", "READ_IDENTITY", "WAKE_UP"} \cup ResetOps
  BY <1>1, <1>3, VariantAfterSerial
<1>5. id.serial = sensor.serial /\ id.variant = sensor.variant
  BY <1>2, <1>4 DEF OpTrue, IdentityRead
<1> HIDE DEF id
<1>6. ~Differs(belief, id)
  BY <1>2, <1>5 DEF Covers, Differs
<1>7. truth.unsaved # {} => belief.identity.valid /\ ~Unsupported(id)
  BY <1>2, <1>5 DEF Covers, Unsupported
<1>8. CASE IdentityRefused(dur)
  <2> DEFINE b == Disown(belief, id)
  <2>1. PICK outcome, effect : FinishOperation(outcome, effect, b, Heard, poll.at + dur)
    BY <1>8 DEF IdentityRefused, id
  <2>2. truth.unsaved = {}
    BY <1>6, <1>7, <1>8 DEF IdentityRefused, Refused, id
  <2>3. /\ b \in Beliefs /\ b.identity.serial = id.serial
        /\ b.identity.variant = id.variant
    <3>1. belief \in Beliefs /\ id \in Readings
      BY <1>1, <1>2
    <3>2. b \in Beliefs
      BY <3>1, IdentityTypes
    <3> QED BY <3>1, <3>2, DisownNames
  <2> HIDE DEF b
  <2>4. Covers(b, truth.unsaved, sensor)
    BY <1>5, <2>2, <2>3, CoversNothing
  <2> QED BY <1>1, <1>3, <2>1, <2>3, <2>4, HeardFinishSaved
<1>9. CASE IdentityConfirmed(dur)
  <2> DEFINE b == CASE active.kind.op = "ATTACH" -> Attached(belief, id)
                    [] active.kind.op = "READ_IDENTITY" -> Identify(belief, id)
                    [] active.kind.op = "WAKE_UP" -> Reattach(belief, id)
                    [] active.kind.op \in ResetOps -> ResetDone(belief, id)
  <2>1. FinishOperation("SUCCEEDED", ConfirmedEffect(active.kind), b, Heard,
                        poll.at + dur)
    BY <1>9 DEF IdentityConfirmed, id
  <2>2. /\ active.kind.op = "ATTACH" => b = Attached(belief, id)
        /\ active.kind.op = "READ_IDENTITY" => b = Identify(belief, id)
        /\ active.kind.op = "WAKE_UP" => b = Reattach(belief, id)
        /\ active.kind.op \in ResetOps => b = ResetDone(belief, id)
    BY DEF ResetOps
  <2> HIDE DEF b
  <2>3. b \in Beliefs
    BY <1>1, <1>2, <1>4, <2>2, IdentityTypes, IdentifyType
  <2> DEFINE Named(b2) == /\ b2.identity.serial = id.serial
                          /\ b2.identity.variant = id.variant
                          /\ b2.identity.valid = TRUE
             Fits(b2) == Named(b2) /\ (truth.unsaved # {} => b2.dirty = belief.dirty)
  <2>4. Fits(b)
    <3>1. active.kind.op = "ATTACH" => Fits(Attached(belief, id))
      <4>1. truth.unsaved # {} => SameSensor(belief, id)
        BY <1>6, <1>7 DEF SameSensor
      <4> QED BY <1>1, <1>2, <4>1, AttachedFields
    <3>2. Fits(Identify(belief, id))
      BY <1>1, <1>2, IdentifyFields
    <3>3. Fits(Reattach(belief, id))
      BY <1>1, <1>2, ReattachFields
    <3>4. active.kind.op \in ResetOps => Fits(ResetDone(belief, id))
      BY <1>1, <1>2, ResetFields
    <3> HIDE DEF Fits
    <3> QED BY <1>4, <2>2, <3>1, <3>2, <3>3, <3>4
  <2>5. Covers(b, truth.unsaved, sensor)
    BY <1>2, <1>5, <1>7, <2>4 DEF Covers, Unsupported
  <2> QED BY <1>1, <1>3, <2>1, <2>3, <2>5, HeardFinishSaved
<1> QED BY <1>8, <1>9

\* The variant alone has been read.
LEMMA HearVariantSaved ==
  ASSUME IInv, BeliefInv, TruthInv, SavedInv, NEW dur \in Durations, HearVariant(dur)
  PROVE  LoopSaved
<1> DEFINE id == [serial |-> belief.identity.serial, variant |-> sensor.variant]
           b == [belief EXCEPT !.identity.variant = id.variant,
                               !.identity.epoch = belief.epoch]
<1>1. Answered(dur) /\ AttemptedRead(Exact, dur)
      /\ active.kind.op = "READ_SENSOR_VARIANT"
  BY DEF HearVariant, Answered
<1>2. /\ activeValid /\ belief \in Beliefs /\ Covers(belief, truth.unsaved, sensor)
      /\ belief.attached
  BY <1>1, ReadingGiven, LoopGiven DEF Reconciling, ResetOps, DiagnosticOps
<1>3. belief.identity.valid /\ ~Unsupported(belief.identity)
  BY <1>2 DEF BeliefInv, Sound
<1>4. /\ Heard.kind = active.kind /\ Heard.phase = active.phase
  BY <1>1, AnswerKeeps
<1>5. ~(Unsupported(id) \/ Differs(belief, id))
  BY <1>2, <1>3 DEF Unsupported, Differs, Covers
<1>6. FinishOperation("SUCCEEDED", "NONE", b, Heard, poll.at + dur)
  BY <1>5 DEF HearVariant
<1>7. /\ id.variant \in Variants /\ id.variant = sensor.variant
      /\ belief.epoch \in 0 .. MaxEpoch
  BY <1>2 DEF IInv, BusOK, Sensors, Beliefs
<1>8. ASSUME NEW v \in Variants, NEW e \in 0 .. MaxEpoch
      PROVE  LET b2 == [belief EXCEPT !.identity.variant = v, !.identity.epoch = e]
             IN /\ b2 \in Beliefs /\ b2.dirty = belief.dirty
                /\ b2.identity.variant = v
                /\ b2.identity.serial = belief.identity.serial
                /\ b2.identity.valid = belief.identity.valid
  BY <1>2 DEF Beliefs, Identities
<1>9. /\ b \in Beliefs /\ b.dirty = belief.dirty
      /\ b.identity.variant = sensor.variant
      /\ b.identity.serial = belief.identity.serial
      /\ b.identity.valid = belief.identity.valid
  BY <1>7, <1>8
<1> HIDE DEF b, id
<1>10. Covers(b, truth.unsaved, sensor)
  BY <1>2, <1>3, <1>9 DEF Covers, Unsupported
<1> QED BY <1>1, <1>4, <1>6, <1>9, <1>10, HeardFinishSaved

\* A word that is read changes neither the identity nor what is dirty.
LEMMA WordCovers ==
  ASSUME NEW b \in Beliefs, NEW f \in Fields, NEW w, NEW unsaved, NEW s,
         Covers(b, unsaved, s)
  PROVE  Covers(ApplyReadValue(b, f, w), unsaved, s) /\ Covers(Unverify(b, f), unsaved, s)
<1>1. /\ ApplyReadValue(b, f, w).identity = b.identity
      /\ ApplyReadValue(b, f, w).dirty = b.dirty
      /\ Unverify(b, f).identity = b.identity /\ Unverify(b, f).dirty = b.dirty
  BY SettingFields
<1> QED BY <1>1, CoversMore

\* A setting has been read.
LEMMA HearSettingSaved ==
  ASSUME IInv, BeliefInv, TruthInv, SavedInv, NEW dur \in Durations,
         HearInvalidSetting(dur) \/ HearSetting(dur)
  PROVE  LoopSaved
<1> DEFINE f == FieldRead(active)
           b == ApplyReadValue(belief, f, sensor.ram[f])
           heard == IF active.kind.op = "READ_CONFIGURATION"
                    THEN [Heard EXCEPT !.completed = @ \cup {f}] ELSE Heard
           a == [heard EXCEPT !.index = @ + 1, !.phase = "SEND_COMMAND",
                              !.nextDue = poll.at + dur]
<1>1. /\ Answered(dur) /\ AttemptedRead(Exact, dur)
      /\ active.kind.op \in {"READ_SETTING", "READ_CONFIGURATION"}
  BY DEF HearInvalidSetting, HearSetting, Answered
<1>2. /\ belief \in Beliefs /\ Sound(belief) /\ belief.attached
      /\ f \in Fields /\ sensor.ram[f] \in AnyWord
  BY <1>1, SettingGiven
<1>3. /\ sensor' = sensor /\ truth'.unsaved = truth.unsaved /\ activeValid
      /\ Covers(belief, truth.unsaved, sensor) /\ ~terminalValid
  BY <1>1, ReadingGiven, LoopGiven
<1>4. /\ b \in Beliefs /\ Unverify(belief, f) \in Beliefs
      /\ Covers(b, truth.unsaved, sensor)
      /\ Covers(Unverify(belief, f), truth.unsaved, sensor)
  BY <1>2, <1>3, WordRead, WordCovers
<1>5. /\ Heard \in Operations /\ Heard.kind = active.kind
      /\ Heard.phase = active.phase
  BY <1>1, AnswerKeeps
<1>6. /\ heard.kind = active.kind /\ heard.phase = active.phase
      /\ a.kind = active.kind
  <2>1. ASSUME NEW h \in Operations, NEW c
        PROVE  LET h1 == [h EXCEPT !.completed = @ \cup {c}]
                   h2 == [h1 EXCEPT !.index = @ + 1, !.phase = "SEND_COMMAND",
                                    !.nextDue = poll.at + dur]
                   h3 == [h EXCEPT !.index = @ + 1, !.phase = "SEND_COMMAND",
                                   !.nextDue = poll.at + dur]
               IN /\ h1.kind = h.kind /\ h1.phase = h.phase
                  /\ h2.kind = h.kind /\ h3.kind = h.kind
    BY DEF Operations
  <2> HIDE DEF Heard, f
  <2> QED BY <1>5, <2>1
<1>7. CASE HearInvalidSetting(dur)
  <2>1. FinishOperationFailure("ERROR", Unverify(belief, f), Heard, "NONE",
                               poll.at + dur)
    BY <1>7 DEF HearInvalidSetting
  <2> HIDE DEF f, b
  <2> QED BY <1>1, <1>4, <1>5, <2>1, HeardFailureSaved
<1>8. CASE HearSetting(dur)
  <2>1. \/ Proceed(a, b, poll.at + dur, poll.left - 1)
        \/ FinishOperation("SUCCEEDED", "NONE", b, heard, poll.at + dur)
    BY <1>8 DEF HearSetting
  <2> HIDE DEF a, b, heard, f
  <2>2. SavedSoFar(a, truth.unsaved, sensor)
    BY <1>1, <1>6 DEF SavedSoFar, ResetOps
  <2>3. Proceed(a, b, poll.at + dur, poll.left - 1) => LoopSaved
    BY <1>3, <1>4, <2>2, ProceedSaved
  <2> QED BY <1>1, <1>4, <1>6, <2>1, <2>3, HeardFinishSaved
<1> QED BY <1>7, <1>8

\* The word before a setting write has been read: if it need not change, the
\* sensor has it.
LEMMA HearPresentSaved ==
  ASSUME IInv, BeliefInv, TruthInv, SavedInv, NEW dur \in Durations,
         HearPresentSetting(dur)
  PROVE  LoopSaved
<1> DEFINE f == active.kind.field
           word == sensor.ram[f]
           b == IF ValidReturnedSetting(f, word) THEN ApplyReadValue(belief, f, word)
                ELSE Unverify(belief, f)
           a == [Heard EXCEPT !.changed = word # active.desired, !.index = 1,
                              !.phase = "SEND_COMMAND", !.nextDue = poll.at + dur]
<1>1. /\ Answered(dur) /\ AttemptedRead(Exact, dur) /\ active.kind.op = "SET_SETTING"
  BY DEF HearPresentSetting, Answered
<1>2. /\ belief \in Beliefs /\ Sound(belief) /\ belief.attached
      /\ f \in Fields /\ word \in AnyWord
  BY <1>1, SettingGiven
<1>3. /\ sensor' = sensor /\ truth'.unsaved = truth.unsaved /\ activeValid
      /\ Covers(belief, truth.unsaved, sensor) /\ ~terminalValid
  BY <1>1, ReadingGiven, LoopGiven
<1>4. b \in Beliefs /\ Covers(b, truth.unsaved, sensor)
  BY <1>2, <1>3, WordRead, WordCovers
<1>5. \/ Proceed(a, b, poll.at + dur, poll.left - 1)
      \/ FinishOperation("SUCCEEDED", "VERIFIED", b, Heard, poll.at + dur)
      \/ FinishOperationFailure("ERROR", b, Heard, "NONE", poll.at + dur)
  BY DEF HearPresentSetting
<1>6. /\ Heard \in Operations /\ Heard.kind = active.kind
      /\ Heard.phase = active.phase /\ Heard.desired = active.desired
  BY <1>1, AnswerKeeps
<1>7. /\ a.kind = active.kind /\ a.desired = active.desired
      /\ a.changed = (word # active.desired)
  <2>1. \A c : LET h == [Heard EXCEPT !.changed = c, !.index = 1,
                                      !.phase = "SEND_COMMAND",
                                      !.nextDue = poll.at + dur]
               IN h.kind = Heard.kind /\ h.desired = Heard.desired /\ h.changed = c
    <3> HIDE DEF Heard
    <3> QED BY <1>6 DEF Operations
  <2> QED BY <1>6, <2>1
<1> HIDE DEF a, b
<1>8. SavedSoFar(a, truth.unsaved, sensor)
  <2>1. ~a.changed => sensor.ram[a.kind.field] = a.desired
    BY <1>7
  <2> QED BY <1>1, <1>7, <2>1 DEF SavedSoFar, ResetOps
<1>9. Proceed(a, b, poll.at + dur, poll.left - 1) => LoopSaved
  BY <1>3, <1>4, <1>8, ProceedSaved
<1>10. FinishOperation("SUCCEEDED", "VERIFIED", b, Heard, poll.at + dur) => LoopSaved
  BY <1>1, <1>4, <1>6, HeardFinishSaved
<1>11. FinishOperationFailure("ERROR", b, Heard, "NONE", poll.at + dur) => LoopSaved
  BY <1>1, <1>4, <1>6, HeardFailureSaved
<1> QED BY <1>5, <1>9, <1>10, <1>11

\* The word after a setting write has been read.
LEMMA HearWrittenSaved ==
  ASSUME IInv, BeliefInv, TruthInv, SavedInv, NEW dur \in Durations,
         HearWrittenSetting(dur)
  PROVE  LoopSaved
<1> DEFINE f == active.kind.field
           word == sensor.ram[f]
           read == ApplyReadValue(belief, f, word)
           b == IF f \in CompensationFields THEN [read EXCEPT !.compensation = f]
                ELSE read
           un == Unverify(belief, f)
<1>1. /\ Answered(dur) /\ AttemptedRead(Exact, dur) /\ active.kind.op = "SET_SETTING"
  BY DEF HearWrittenSetting, Answered
<1>2. /\ belief \in Beliefs /\ Sound(belief) /\ belief.attached
      /\ f \in Fields /\ word \in AnyWord
  BY <1>1, SettingGiven
<1>3. activeValid /\ Covers(belief, truth.unsaved, sensor)
  BY <1>1, ReadingGiven, LoopGiven
<1>4. /\ read \in Beliefs /\ un \in Beliefs
      /\ Covers(read, truth.unsaved, sensor) /\ Covers(un, truth.unsaved, sensor)
  BY <1>2, <1>3, WordRead, WordCovers
<1>5. Heard.kind = active.kind /\ Heard.phase = active.phase
  BY <1>1, AnswerKeeps
<1> HIDE DEF read, un
<1>6. b \in Beliefs /\ b.identity = read.identity /\ b.dirty = read.dirty
  BY <1>4 DEF Beliefs
<1> HIDE DEF b
<1>7. Covers(b, truth.unsaved, sensor)
  BY <1>4, <1>6, CoversMore
<1>8. \/ FinishOperation("FAILED", "ACKNOWLEDGED", un, Heard, poll.at + dur)
      \/ FinishOperation("FAILED", "VERIFIED", read, Heard, poll.at + dur)
      \/ FinishOperation("SUCCEEDED", "VERIFIED", b, Heard, poll.at + dur)
  <2>1. CASE ~ValidReturnedSetting(f, word)
    BY <2>1 DEF HearWrittenSetting, un
  <2>2. CASE ValidReturnedSetting(f, word) /\ word # active.desired
    BY <2>2 DEF HearWrittenSetting, read
  <2>3. CASE ValidReturnedSetting(f, word) /\ word = active.desired
    BY <2>3 DEF HearWrittenSetting, read, b
  <2> QED BY <2>1, <2>2, <2>3
<1> QED BY <1>1, <1>4, <1>5, <1>6, <1>7, <1>8, HeardFinishSaved
-----------------------------------------------------------------------------
(* Sending phases.                                                         *)

\* A write leaves the identity, and makes its field dirty if the word changes.
LEMMA WrittenNames ==
  ASSUME NEW b \in Beliefs, NEW a
  PROVE  /\ AfterSettingWrite(b, a).identity = b.identity
         /\ AfterSettingWrite(b, a).dirty =
              IF a.changed THEN b.dirty \cup ({a.kind.field} \cap PersistableFields)
              ELSE b.dirty
  BY DEF AfterSettingWrite, Beliefs

\* Having sent leaves the identity and what is dirty.
LEMMA SentNames ==
  ASSUME NEW b \in Beliefs, NEW a, NEW leg
  PROVE  /\ AfterSend(b, a, leg).identity = b.identity
         /\ AfterSend(b, a, leg).dirty = b.dirty
<1> DEFINE b2 == AfterSend(b, a, leg)
<1>1. IF leg.effectful /\ Reconciles(a) THEN Unclaimed(b2, b) ELSE SameClaims(b2, b)
  BY SentFields
<1>2. b2.dirty = b.dirty
  BY SentFields
<1> HIDE DEF b2
<1>3. b2.identity = b.identity
  BY <1>1 DEF Unclaimed, SameClaims
<1> QED BY <1>2, <1>3 DEF b2

\* A setting is told its word at index 1 and at no other.
LEMMA SettingIndex ==
  ASSUME NEW a, a.kind.op = "SET_SETTING"
  PROVE  Leg(a).index \in {0, 2, 3}
<1>1. Leg(a) = SettingLeg(a)
  BY LegCases
<1>2. SettingLeg(a).index \in {0, 2, 3}
  <2>1. CASE a.index = 0
    BY <2>1 DEF SettingLeg, Query
  <2>2. CASE a.index = 1
    BY <2>2 DEF SettingLeg, Order
  <2>3. CASE a.index \notin {0, 1}
    BY <2>3, Zenon DEF SettingLeg, Query
  <2> QED BY <2>1, <2>2, <2>3
<1> QED BY <1>1, <1>2

\* Commands after which nothing is unsaved.
Saving == {"PERSIST_SETTINGS", "REINIT", "FACTORY_RESET"}

\* What an attempt leaves unsaved, and what it makes dirty first: only a write
\* that changes a word adds to the unsaved settings, and its operation knows.
LEMMA SendUnsaved ==
  ASSUME IInv, BeliefInv, TruthInv, SavedInv, NEW r \in EffectfulOutcomes \cup PlainOutcomes,
         NEW dur \in Durations, AttemptedLeg(Leg(active), r, dur)
  PROVE  LET leg == Leg(active)
             b == AfterAttempt(belief, active, leg, r)
         IN /\ activeValid /\ active.phase \in SendPhases /\ b \in Beliefs
            /\ Covers(b, truth'.unsaved, sensor')
            /\ leg.command.name # "SET" => truth'.unsaved \subseteq truth.unsaved
            /\ leg.command.name \in Saving /\ r.disposition = "COMPLETE"
                 => truth'.unsaved = {}
<1> DEFINE leg == Leg(active)
           c == leg.command
           b == AfterAttempt(belief, active, leg, r)
           f == active.kind.field
<1>1. /\ activeValid /\ Standing(active) /\ active.phase \in SendPhases
      /\ belief \in Beliefs
      /\ (leg.effectful /\ Ordering(active, leg)) \/ (~leg.effectful /\ Asking(active, leg))
  BY SendKeeps
<1>2. b \in Beliefs
  BY <1>1, AfterSendType
<1>3. /\ Covers(belief, truth.unsaved, sensor) /\ sensor \in Sensors
      /\ SavedSoFar(active, truth.unsaved, sensor)
      /\ active.kind.op \notin Reconciling => belief.attached
  BY <1>1, LoopGiven DEF IInv, BusOK
<1>4. PICK react \in Reactions(sensor, c, r) :
        Exchange(c, leg.effectful, leg.nack, r, dur, react)
  BY DEF AttemptedLeg
<1>5. /\ sensor' = react.sensor
      /\ truth'.unsaved = IF react.took THEN Unsaved(c, react.sensor) ELSE truth.unsaved
  <2>1. truth \in Truths
    BY DEF IInv, BusOK
  <2> HIDE DEF leg, c
  <2> QED BY <1>4, <2>1, ExchangeTruth
<1>6. \/ /\ react.took = TRUE /\ react.sensor \in After(sensor, c)
         /\ r.disposition \in {"COMPLETE", "INDETERMINATE"} \/ Unanswered(c, r)
      \/ /\ react.took = FALSE /\ react.sensor = sensor
         /\ r.disposition # "COMPLETE"
  <2>1. Reacted(sensor, c, r, react)
    BY <1>4, ReactionCases
  <2> QED BY <2>1 DEF Reacted
<1>7. sensor'.serial = sensor.serial /\ sensor'.variant = sensor.variant
  BY <1>3, <1>5, <1>6, AfterIdentity
<1>8. c.name # "SET" => b = belief
  BY DEF AfterAttempt
<1>9. c.name = "SET" /\ r.disposition \in {"COMPLETE", "INDETERMINATE"}
        => b = AfterSettingWrite(belief, active)
  BY DEF AfterAttempt
<1>10. c.name = "SET" =>
         /\ active.kind.op = "SET_SETTING" /\ active.index = 1
         /\ c = SetCommand(f, active.desired)
  BY <1>1 DEF Ordering, Asking, Command, Questions, ModeOps, SingleShotOps, MaintenanceOps
<1> HIDE DEF b, leg, c
<1>11. CASE c.name # "SET"
  <2>1. truth'.unsaved \subseteq truth.unsaved
    BY <1>5, <1>11 DEF Unsaved
  <2>2. c.name \in Saving /\ r.disposition = "COMPLETE" => truth'.unsaved = {}
    <3>1. c.name \in Saving => Unsaved(c, react.sensor) = {}
      BY <1>11 DEF Saving, Unsaved
    <3> QED BY <1>5, <1>6, <3>1
  <2>3. Covers(b, truth'.unsaved, sensor')
    BY <1>3, <1>7, <1>8, <1>11, <2>1, CoversFewer
  <2> QED BY <1>1, <1>2, <1>11, <2>1, <2>2, <2>3 DEF b, leg, c
<1>12. CASE c.name = "SET"
  <2>1. f \in Fields /\ active.desired \in Words
    BY <1>1, <1>10, <1>12, KindCases DEF Standing
  <2>2. /\ belief.identity.valid /\ ~Unsupported(belief.identity)
    <3>1. active.kind.op \notin Reconciling
      BY <1>10, <1>12 DEF Reconciling, ResetOps, DiagnosticOps
    <3> QED BY <1>3, <3>1 DEF BeliefInv, Sound
  <2>3. b.identity = belief.identity /\ belief.dirty \subseteq b.dirty
    <3>1. CASE r.disposition \in {"COMPLETE", "INDETERMINATE"}
      <4>1. b = AfterSettingWrite(belief, active)
        BY <1>9, <1>12, <3>1
      <4>2. /\ AfterSettingWrite(belief, active).identity = belief.identity
            /\ belief.dirty \subseteq AfterSettingWrite(belief, active).dirty
        BY <1>1, WrittenNames
      <4> QED BY <4>1, <4>2
    <3>2. CASE r.disposition \notin {"COMPLETE", "INDETERMINATE"}
      BY <3>2 DEF b, AfterAttempt
    <3> QED BY <3>1, <3>2
  <2>4. truth'.unsaved \subseteq b.dirty
    <3>1. CASE react.took = FALSE
      BY <1>3, <1>5, <2>3, <3>1 DEF Covers
    <3>2. CASE react.took = TRUE
      <4>1. b = AfterSettingWrite(belief, active)
        BY <1>6, <1>9, <1>12, <3>2 DEF Unanswered
      <4>2. truth'.unsaved = truth.unsaved \cup
              (IF react.sensor.ram = sensor.ram THEN {} ELSE {f} \cap PersistableFields)
        <5>1. c.field = f
          BY <1>10, <1>12 DEF SetCommand
        <5> QED BY <1>5, <1>12, <3>2, <5>1 DEF Unsaved
      <4>3. CASE active.changed
        <5>1. b.dirty = belief.dirty \cup ({f} \cap PersistableFields)
          BY <1>1, <4>1, <4>3, WrittenNames
        <5> QED BY <1>3, <4>2, <5>1 DEF Covers
      <4>4. CASE ~active.changed
        <5>1. sensor.ram[f] = active.desired
          BY <1>3, <1>10, <1>12, <4>4 DEF SavedSoFar
        <5>2. react.sensor.ram = sensor.ram
          <6>1. react.sensor \in After(sensor, SetCommand(f, active.desired))
            BY <1>6, <1>10, <1>12, <3>2
          <6> QED BY <1>3, <2>1, <5>1, <6>1, AfterSet
        <5> QED BY <1>3, <2>3, <4>2, <5>2 DEF Covers
      <4> QED BY <4>3, <4>4
    <3> QED BY <1>6, <3>1, <3>2
  <2>5. Covers(b, truth'.unsaved, sensor')
    BY <1>3, <1>7, <2>2, <2>3, <2>4 DEF Covers
  <2> QED BY <1>1, <1>2, <1>12, <2>5 DEF b, leg, c, Saving
<1> QED BY <1>11, <1>12

\* The operation goes on with what it has sent.
LEMMA SendSaved ==
  ASSUME IInv, BeliefInv, TruthInv, SavedInv, NEW r \in EffectfulOutcomes \cup PlainOutcomes,
         NEW dur \in Durations, Send(r, dur)
  PROVE  LoopSaved
<1> DEFINE leg == Leg(active)
           b1 == AfterAttempt(belief, active, leg, r)
           b == AfterSend(b1, active, leg)
<1>1. AttemptedLeg(leg, r, dur) /\ TransferStatus(leg.nack, r, dur) = "OK"
  BY DEF Send
<1>2. /\ activeValid /\ active.phase \in SendPhases /\ b1 \in Beliefs
      /\ Covers(b1, truth'.unsaved, sensor')
      /\ leg.command.name # "SET" => truth'.unsaved \subseteq truth.unsaved
      /\ leg.command.name \in Saving /\ r.disposition = "COMPLETE"
           => truth'.unsaved = {}
  BY <1>1, SendUnsaved
<1>3. /\ Standing(active) /\ leg.nack \in BOOLEAN
      /\ (leg.effectful /\ Ordering(active, leg)) \/ (~leg.effectful /\ Asking(active, leg))
  BY <1>1, SendKeeps, AttemptedLegStep DEF LegOK
<1>4. PICK a, at, left :
        /\ Proceed(a, b, at, left)
        /\ a.kind = active.kind /\ a.phase = leg.phase /\ a.index = leg.index
  BY SentOperation
<1>5. ~terminalValid /\ SavedSoFar(active, truth.unsaved, sensor)
  BY <1>2, LoopGiven
<1>6. Covers(b, truth'.unsaved, sensor')
  <2>1. b.identity = b1.identity /\ b.dirty = b1.dirty
    BY <1>2, SentNames
  <2> HIDE DEF b, b1
  <2> QED BY <1>2, <2>1, CoversMore
<1>7. active.kind.op \in ResetOps \cup {"PERSIST_SETTINGS"} /\ active.phase = "SEND_COMMAND"
        => leg.effectful
  <2>1. active.kind.op \in ResetOps \cup {"PERSIST_SETTINGS"} => leg = MaintenanceLeg(active)
    BY LegCases DEF ResetOps, MaintenanceOps
  <2> QED BY <2>1 DEF MaintenanceLeg, Order
<1>8. leg.nack = FALSE => r.disposition = "COMPLETE"
  BY <1>1, <1>3, StatusMeans
<1> HIDE DEF b, b1, leg
<1>9. SavedSoFar(a, truth'.unsaved, sensor')
  <2>1. CASE active.kind.op \in ResetOps \cup {"PERSIST_SETTINGS"}
    <3>1. truth'.unsaved = {}
      <4>1. CASE active.phase = "SEND_COMMAND"
        <5>1. leg.command = Command(active.kind.op) /\ leg.nack = FALSE
          BY <1>3, <1>7, <2>1, <4>1
             DEF Ordering, ResetOps, DiagnosticOps, MaintenanceOps
        <5>2. leg.command.name \in Saving
          BY <2>1, <5>1 DEF Command, ResetOps, Saving
        <5> QED BY <1>2, <1>8, <5>1, <5>2
      <4>2. CASE active.phase # "SEND_COMMAND"
        <5>1. truth.unsaved = {}
          BY <1>5, <2>1, <4>2 DEF SavedSoFar
        <5>2. leg.command.name # "SET"
          BY <1>3, <2>1, <4>2
             DEF Ordering, Asking, Questions, ResetOps, DiagnosticOps
        <5> QED BY <1>2, <5>1, <5>2
      <4> QED BY <4>1, <4>2
    <3> QED BY <1>4, <2>1, <3>1 DEF SavedSoFar, ResetOps
  <2>2. CASE active.kind.op = "SET_SETTING"
    <3>1. leg.index # 1
      BY <2>2, SettingIndex DEF leg
    <3> QED BY <1>4, <2>2, <3>1 DEF SavedSoFar, ResetOps
  <2>3. CASE active.kind.op \notin ResetOps \cup {"PERSIST_SETTINGS", "SET_SETTING"}
    BY <1>4, <2>3 DEF SavedSoFar
  <2> QED BY <2>1, <2>2, <2>3
<1> QED BY <1>4, <1>5, <1>6, <1>9, ProceedSaved

\* The last phase of the operation, or a failure: it reports no save.
LEMMA SendEndsSaved ==
  ASSUME IInv, BeliefInv, TruthInv, SavedInv, NEW r \in EffectfulOutcomes \cup PlainOutcomes,
         NEW dur \in Durations, SendLast(r, dur) \/ SendFails(r, dur)
  PROVE  LoopSaved
<1> DEFINE leg == Leg(active)
           b1 == AfterAttempt(belief, active, leg, r)
           sent == Attempted(leg.effectful, r)
<1>1. AttemptedLeg(leg, r, dur)
  BY DEF SendLast, SendFails
<1>2. /\ activeValid /\ active.phase \in SendPhases /\ b1 \in Beliefs
      /\ Covers(b1, truth'.unsaved, sensor') /\ belief \in Beliefs
  BY <1>1, SendUnsaved, SendKeeps
<1>3. sent.kind = active.kind /\ sent.phase = active.phase
  <2>1. r \in Answers /\ leg.effectful \in BOOLEAN /\ SlotOK
    BY <1>1, SendKeeps DEF IInv
  <2> QED BY <2>1, AttemptFields
<1>4. \A at : ~ReloadSettled(sent, at)
  BY <1>2, <1>3 DEF ReloadSettled, SendPhases
<1>5. CASE SendLast(r, dur)
  <2> DEFINE b == AfterSend(belief, active, leg)
  <2>1. /\ FinishOperation("SUCCEEDED", "ACKNOWLEDGED", b, sent, Completed(r, dur))
        /\ active.kind.op \in DiagnosticOps
    BY <1>5 DEF SendLast, EndsWithSend
  <2>2. b1 = belief
    <3>1. leg.command.name # "SET"
      BY <2>1, LegCases DEF DiagnosticLeg, Order, Command
    <3> QED BY <3>1 DEF AfterAttempt
  <2>3. b \in Beliefs /\ b.identity = belief.identity /\ b.dirty = belief.dirty
    <3>1. b \in Beliefs
      BY <1>2, AfterSendType
    <3>2. b.identity = belief.identity /\ b.dirty = belief.dirty
      BY <1>2, SentNames
    <3> QED BY <3>1, <3>2
  <2> HIDE DEF b, b1, sent
  <2>4. Covers(b, truth'.unsaved, sensor')
    BY <1>2, <2>2, <2>3, CoversMore
  <2>5. sent.kind.op # "PERSIST_SETTINGS"
    BY <1>3, <2>1 DEF DiagnosticOps
  <2> QED BY <1>4, <2>1, <2>3, <2>4, <2>5, FinishSaved
<1>6. CASE SendFails(r, dur)
  <2>1. PICK status, last :
          FinishOperationFailure(status, b1, sent, last, Completed(r, dur))
    BY <1>6 DEF SendFails
  <2> HIDE DEF b1, sent
  <2> QED BY <1>2, <1>4, <2>1, FailureSaved
<1> QED BY <1>5, <1>6

\* Whatever an iteration does.
LEMMA IterationSaved ==
  ASSUME IInv, BeliefInv, TruthInv, SavedInv, LoopStep
  PROVE  LoopSaved
<1>1. CASE \/ PollBreak \/ GateDefers \/ NotDue \/ WaitOver \/ CommandSettled
           \/ PersistShortcut \/ BudgetExhausted
  BY <1>1, ReturnSaved, WaitOverSaved, SettledSaved
<1>2. ASSUME NEW dur \in Durations, NEW r \in EffectfulOutcomes \cup PlainOutcomes,
             Send(r, dur) \/ SendLast(r, dur) \/ SendFails(r, dur) \/ ReadFails(r, dur)
      PROVE  LoopSaved
  BY <1>2, SendSaved, SendEndsSaved, ReadFailsSaved
<1>3. ASSUME NEW dur \in Durations,
             \/ HearSerial(dur) \/ IdentityRefused(dur) \/ IdentityConfirmed(dur)
             \/ HearVariant(dur) \/ HearInvalidSetting(dur) \/ HearSetting(dur)
             \/ HearPresentSetting(dur) \/ HearWrittenSetting(dur) \/ HearSample(dur)
             \/ \E verdict \in BOOLEAN :
                  HearAnswer(dur, verdict) \/ HearReady(dur, verdict)
      PROVE  LoopSaved
  BY <1>3, HeardOnlySaved, IdentitySaved, HearVariantSaved, HearSettingSaved,
     HearPresentSaved, HearWrittenSaved
<1> QED BY <1>1, <1>2, <1>3 DEF LoopStep
-----------------------------------------------------------------------------
(* The calls of the owner.                                                 *)

\* What an iteration or a call leaves, under the same configuration.
LEMMA KeptSaved ==
  ASSUME LoopSaved, Undisturbed', UNCHANGED config
  PROVE  SavedInv'
<1>1. Covers(belief, truth.unsaved, sensor)'
  BY DEF LoopSaved, Covers, Unsupported
<1>2. activeValid' => SavedSoFar(active, truth.unsaved, sensor)'
  BY DEF LoopSaved, SavedSoFar
<1> QED BY <1>1, <1>2 DEF LoopSaved, SavedInv

\* A binding starts without anything known to be unsaved, and an unbound driver
\* promises nothing.
LEMMA BindingSaved ==
  ASSUME End \/ \E c \in Configs : Begin(c), IInv, Undisturbed'
  PROVE  SavedInv'
<1>1. CASE End
  <2>1. ~bound' /\ ~activeValid'
    BY <1>1 DEF End
  <2> QED BY <2>1 DEF SavedInv, PersistHonest
<1>2. CASE \E c \in Configs : Begin(c)
  <2>1. /\ ~activeValid' /\ ~terminalValid' /\ ~belief'.identity.valid
        /\ truth'.unsaved = {}
    BY <1>2 DEF Begin, Ignorance, NoIdentity, IInv, BusOK, Truths
  <2>2. Covers(belief, truth.unsaved, sensor)'
    BY <2>1 DEF Covers
  <2> QED BY <2>1, <2>2 DEF SavedInv, PersistHonest
<1> QED BY <1>1, <1>2

\* An operation that begins has sent nothing and read nothing yet.
LEMMA StartSaved ==
  ASSUME IInv, BeliefInv, SavedInv, Undisturbed', NEW k \in UsedKinds, NEW id, NEW w,
         NEW deadline, NEW d, Start(k, id, w, deadline, d)
  PROVE  SavedInv'
<1>1. /\ UNCHANGED <<belief, sensor, config>> /\ bound
      /\ ~terminalValid' /\ truth'.unsaved = truth.unsaved
  BY DEF Start, Startable, IInv, BusOK, Truths
<1>2. active'.kind = k /\ active'.phase = FirstPhase(k) /\ active'.index = 0
  BY DEF Start, NoOperation
<1>3. k.op \in ResetOps \cup {"PERSIST_SETTINGS"} => active'.phase = "SEND_COMMAND"
  BY <1>2, Zenon DEF FirstPhase, ResetOps
<1>4. SavedSoFar(active', truth'.unsaved, sensor')
  BY <1>2, <1>3 DEF SavedSoFar
<1>5. Covers(belief', truth'.unsaved, sensor') /\ PersistHonest'
  BY <1>1 DEF SavedInv, PersistHonest
<1> QED BY <1>1, <1>4, <1>5, KeptSaved DEF LoopSaved

\* A reload that had settled when it is given up is clean, and so is the sensor.
LEMMA GivenUp ==
  ASSUME SavedInv, activeValid, NEW at, ReloadSettled(active, at)
  PROVE  truth.unsaved = {}
  BY DEF SavedInv, SavedSoFar, ReloadSettled

\* A cancelled operation has saved nothing.
LEMMA CancelSaved ==
  ASSUME IInv, BeliefInv, SavedInv, Undisturbed', NEW id, NEW d, Cancel(id, d)
  PROVE  SavedInv'
<1> DEFINE b == IF active.callbacksUsed # 0 /\ active.attempted
                THEN MarkReconciliationRequired(belief) ELSE belief
<1>1. /\ UNCHANGED <<sensor, config>> /\ activeValid /\ belief \in Beliefs
      /\ Covers(belief, truth.unsaved, sensor)
  BY DEF Cancel, IInv, SlotOK, BeliefInv, SavedInv
<1>2. truth'.unsaved = truth.unsaved
  BY PassKeeps DEF Cancel
<1>3. PICK effect, p :
        /\ FinishOperation("CANCELLED", effect, [b EXCEPT !.persistenceIndeterminate = p],
                           active, d)
        /\ p \in BOOLEAN
  <2>1. b \in Beliefs
    BY <1>1, MarkType
  <2>2. b.persistenceIndeterminate \in BOOLEAN
    BY <2>1 DEF Beliefs
  <2> HIDE DEF b
  <2> QED BY <2>2 DEF Cancel, b
<1>4. b \in Beliefs /\ b.identity = belief.identity /\ b.dirty = belief.dirty
  <2>1. /\ MarkReconciliationRequired(belief) \in Beliefs
        /\ MarkReconciliationRequired(belief).identity = belief.identity
        /\ MarkReconciliationRequired(belief).dirty = belief.dirty
    BY <1>1, MarkType, MarkFields DEF Unclaimed
  <2> QED BY <1>1, <2>1
<1> HIDE DEF b
<1> DEFINE b2 == [b EXCEPT !.persistenceIndeterminate = p]
<1>5. b2 \in Beliefs /\ b2.identity = b.identity /\ b2.dirty = b.dirty
  BY <1>3, <1>4 DEF Beliefs
<1>6. FinishOperation("CANCELLED", effect, b2, active, d)
  BY <1>3
<1> HIDE DEF b2
<1>7. Covers(b2, truth'.unsaved, sensor')
  BY <1>1, <1>2, <1>4, <1>5, CoversMore
<1>8. LoopSaved
  BY <1>1, <1>2, <1>5, <1>6, <1>7, GivenUp, FinishSaved
<1> QED BY <1>1, <1>8, KeptSaved

\* Nor has one whose deadline has passed.
LEMMA EnterPollSaved ==
  ASSUME IInv, BeliefInv, SavedInv, Undisturbed', NEW budget, NEW d,
         EnterPoll(budget, d)
  PROVE  SavedInv'
<1>1. UNCHANGED <<sensor, config, bound>> /\ belief \in Beliefs
  BY DEF EnterPoll, IInv, SlotOK
<1>2. truth'.unsaved = truth.unsaved
  BY PassKeeps DEF EnterPoll
<1>3. CASE activeValid /\ active.deadline > d
  <2>1. /\ active' = Aged(active, d)
        /\ UNCHANGED <<belief, activeValid, terminal, terminalValid>>
    BY <1>3 DEF EnterPoll
  <2>2. /\ active'.kind = active.kind /\ active'.phase = active.phase
        /\ active'.index = active.index /\ active'.desired = active.desired
        /\ active'.changed = active.changed
    BY <2>1 DEF Aged, IInv, SlotOK, Operations
  <2>3. SavedSoFar(active', truth'.unsaved, sensor')
    BY <1>1, <1>2, <1>3, <2>2 DEF SavedInv, SavedSoFar
  <2>4. Covers(belief', truth'.unsaved, sensor') /\ PersistHonest'
    BY <1>1, <1>2, <1>3, <2>1 DEF SavedInv, PersistHonest, BeliefInv
  <2> QED BY <1>1, <2>3, <2>4, KeptSaved DEF LoopSaved
<1>4. CASE activeValid /\ ~(active.deadline > d)
  <2>1. FinishOperationFailure("TIMEOUT", belief, active, lastEffectful, d)
    BY <1>4 DEF EnterPoll
  <2>2. Covers(belief, truth'.unsaved, sensor')
    BY <1>1, <1>2, <1>4 DEF SavedInv, BeliefInv
  <2>3. LoopSaved
    BY <1>1, <1>2, <1>4, <2>1, <2>2, GivenUp, FailureSaved
  <2> QED BY <1>1, <2>3, KeptSaved
<1>5. CASE ~activeValid
  <2>1. UNCHANGED <<belief, activeValid, terminal, terminalValid>>
    BY <1>5 DEF EnterPoll
  <2>2. bound => Covers(belief, truth.unsaved, sensor)'
    BY <1>1, <1>2, <2>1 DEF SavedInv, Covers, Unsupported
  <2>3. PersistHonest'
    BY <1>1, <1>2, <2>1 DEF SavedInv, PersistHonest
  <2> QED BY <1>1, <1>5, <2>1, <2>2, <2>3 DEF SavedInv
<1> QED BY <1>3, <1>4, <1>5

\* No step of anybody but the one who interferes loses a setting.
LEMMA NextSaved ==
  ASSUME IInv, BeliefInv, TruthInv, SavedInv, Undisturbed', [Next]_vars
  PROVE  SavedInv'
<1>1. CASE LoopStep
  <2>1. LoopSaved
    BY <1>1, IterationSaved
  <2>2. UNCHANGED config
    BY <1>1, IterationClaims DEF LoopClaims
  <2> QED BY <2>1, <2>2, KeptSaved
<1>2. CASE End \/ \E c \in Configs : Begin(c)
  BY <1>2, BindingSaved
<1>3. CASE TakeResult(terminal.id)
  <2>1. UNCHANGED <<bound, config, belief, activeValid, active, sensor>> /\ ~terminalValid'
    BY <1>3 DEF TakeResult
  <2>2. truth'.unsaved = truth.unsaved
    BY <1>3 DEF TakeResult, IInv, BusOK, Truths
  <2> QED BY <2>1, <2>2 DEF SavedInv, Covers, Unsupported, SavedSoFar, PersistHonest
<1>4. CASE \E s2 \in Replacements : Disturb(s2)
  <2>1. truth'.disturbed = TRUE
    BY <1>4 DEF Disturb, IInv, BusOK, Truths
  <2> QED BY <2>1 DEF Undisturbed
<1>5. CASE UNCHANGED vars
  BY <1>5 DEF SavedInv, Covers, Unsupported, SavedSoFar, PersistHonest, Undisturbed,
     vars, driverVars
<1>6. ASSUME NEW k \in UsedKinds, NEW id, NEW w, NEW deadline, NEW d,
             Start(k, id, w, deadline, d)
      PROVE  SavedInv'
  BY <1>6, StartSaved
<1>7. ASSUME NEW d, Cancel(active.id, d) \/ \E budget : EnterPoll(budget, d)
      PROVE  SavedInv'
  BY <1>7, CancelSaved, EnterPollSaved
<1> QED BY <1>1, <1>2, <1>3, <1>4, <1>5, <1>6, <1>7 DEF Next, OwnerCall

\* The invariant of the settings, while nobody interferes with the sensor.
THEOREM SavedInvariance == Spec /\ []Undisturbed => []SavedInv
<1>1. Init /\ Undisturbed => SavedInv
  BY DEF Init, SavedInv, PersistHonest
<1>2. IInv /\ BeliefInv /\ TruthInv /\ SavedInv /\ Undisturbed' /\ [Next]_vars
        => SavedInv'
  BY NextSaved
<1> QED BY <1>1, <1>2, Invariance, BeliefInvariance, TruthInvariance, PTL DEF Spec
-----------------------------------------------------------------------------
(* What follows.                                                           *)

\* A setting that would be lost with the power is dirty, at every instant: a
\* write counts as one before its answer comes, also when it fails or when its
\* operation is cancelled or late.
THEOREM NoSettingIsLostUnnoticed == Spec /\ []Undisturbed => []DirtyCoversUnsaved
<1>1. SavedInv => DirtyCoversUnsaved
  BY DEF SavedInv, Covers, DirtyCoversUnsaved
<1> QED BY <1>1, SavedInvariance, PTL

\* A PERSIST_SETTINGS that succeeds, also without having sent anything, leaves
\* nothing unsaved.
THEOREM SavedMeansSaved == Spec /\ []Undisturbed => []PersistHonest
<1>1. SavedInv => PersistHonest
  BY DEF SavedInv
<1> QED BY <1>1, SavedInvariance, PTL
=============================================================================
