-------------------------- MODULE SCD41ClockProofs --------------------------
(***************************************************************************)
(* That the wrapping clock of the driver decides as instants that never    *)
(* wrap would: SCD41Clock implements DistanceClock, for every range of the *)
(* clock and all durations that fit in half of it.                         *)
(***************************************************************************)
EXTENDS SCD41Clock, TLAPS

Words == /\ lastOwnerNow \in Instants /\ quiet \in 0 .. Half - 1
         /\ gateValid \in BOOLEAN /\ gate \in Instants
         /\ phase \in {"IDLE", "POWER_UP", "WAIT", "WORK"}
         /\ due \in Instants /\ deadline \in Instants

\* A gate that is kept lies less than half the range ahead, or was reached
\* after the last poll.
GateNear == gateValid => \/ Since(gate, lastOwnerNow) < Half
                         \/ Since(lastOwnerNow, gate) <= quiet

\* The deadline of an active operation is ahead.  So is what it waits for;
\* work that could not be done yet has been due since the start at most.
OperationNear ==
  phase # "IDLE" =>
    /\ Since(deadline, lastOwnerNow) \in 1 .. Half - 1
    /\ \/ Since(due, lastOwnerNow) < Half
       \/ /\ phase = "WORK"
          /\ Since(lastOwnerNow, due) + Since(deadline, lastOwnerNow) < Half

ClockInv == Words /\ GateNear /\ OperationNear
-----------------------------------------------------------------------------
LEMMA SinceType ==
  ASSUME NEW a \in Instants, NEW b \in Instants
  PROVE  /\ Since(a, b) \in Instants
         /\ Since(a, a) = 0
BY ClockAssumption DEF Since, Instants

LEMMA AfterType ==
  ASSUME NEW a \in Instants, NEW n \in 0 .. Half - 1
  PROVE  After(a, n) \in Instants /\ Since(After(a, n), a) = n
BY ClockAssumption DEF After, Since, Instants

\* A completion is reported usable, some time after the start, or before it.
LEMMA CompletionCases ==
  ASSUME NEW now \in Instants, NEW s \in Settles, NEW completed \in Completions(now)
  PROVE  \/ /\ CompletionValid(now, completed)
            /\ \E t \in TransferTimes : completed = After(now, t)
         \/ ~CompletionValid(now, completed)
<1>1. ASSUME NEW t \in TransferTimes, completed = After(now, t)
      PROVE  CompletionValid(now, completed)
  <2>1. t \in 0 .. Half - 1
    BY ClockAssumption
  <2> QED BY <1>1, <2>1, AfterType, ClockAssumption DEF CompletionValid
<1>2. ASSUME NEW b \in 1 .. Half, completed = Before(now, b)
      PROVE  ~CompletionValid(now, completed)
  BY <1>2, ClockAssumption DEF CompletionValid, Before, Since, Instants
<1> QED BY <1>1, <1>2 DEF Completions

\* The instant from which the sensor's time runs.
LEMMA AttemptEnds ==
  ASSUME NEW now \in Instants, NEW s \in Settles, NEW completed \in Completions(now)
  PROVE  \E t \in Nat :
           /\ t + s < Half
           /\ (IF CompletionValid(now, completed) THEN completed ELSE now) = After(now, t)
           /\ CompletionValid(now, completed) => t \in TransferTimes
<1>1. CASE CompletionValid(now, completed)
  <2>1. PICK t \in TransferTimes : completed = After(now, t)
    BY <1>1, CompletionCases
  <2> QED BY <1>1, <2>1, ClockAssumption
<1>2. CASE ~CompletionValid(now, completed)
  <2>1. 0 + s < Half /\ now = After(now, 0)
    BY ClockAssumption DEF After, Instants
  <2> QED BY <1>2, <2>1
<1> QED BY <1>1, <1>2
-----------------------------------------------------------------------------
(* The invariant.                                                          *)

LEMMA ClockInitial == Init => ClockInv
<1> SUFFICES ASSUME Init PROVE ClockInv
  OBVIOUS
<1>0. gateValid \in BOOLEAN /\ ~gateValid
  BY Zenon DEF Init
<1>1. Words
  BY <1>0, ClockAssumption DEF Init, Words, Instants
<1>2. GateNear
  BY <1>0 DEF GateNear
<1>3. OperationNear
  BY DEF Init, OperationNear
<1> QED BY <1>1, <1>2, <1>3 DEF ClockInv

\* The owner's time goes on, by a call that keeps the contract.
LEMMA GateStaysNear ==
  ASSUME ClockInv, NEW now \in Instants, Forward(now),
         gateValid' \in BOOLEAN, gateValid' => gateValid, gate' = gate,
         lastOwnerNow' = now,
         \/ quiet' = quiet + Since(now, lastOwnerNow)
         \/ quiet' = 0 /\ (gateValid' => ~TimeReached(now, gate))
  PROVE  quiet' \in 0 .. Half - 1 /\ GateNear'
BY ClockAssumption
   DEF ClockInv, Words, GateNear, Forward, Kept, TimeReached, Since, Instants

LEMMA StartKeepsInv ==
  ASSUME ClockInv, NEW now \in Instants, NEW last \in Instants,
         StartAccepted(now, last)
  PROVE  ClockInv'
<1>1. quiet' \in 0 .. Half - 1 /\ GateNear'
  BY GateStaysNear DEF StartAccepted, Accept, ClockInv, Words
<1>2. PICK p \in {"POWER_UP", "WORK"}, u \in Instants :
        Since(u, now) < Half /\ phase' = p /\ due' = u
  <2>1. CASE phase' = "WORK" /\ due' = now
    BY <2>1, SinceType, ClockAssumption
  <2>2. ASSUME NEW delay \in PowerUpDelays, phase' = "POWER_UP", due' = After(now, delay)
        PROVE  After(now, delay) \in Instants /\ Since(After(now, delay), now) < Half
    BY AfterType, ClockAssumption
  <2> QED BY <2>1, <2>2 DEF StartAccepted
<1>3. OperationNear'
  BY <1>2 DEF StartAccepted, Accept, OperationNear, DeadlineValid
<1> QED BY <1>1, <1>2, <1>3 DEF ClockInv, Words, StartAccepted, Accept

LEMMA CancelKeepsInv ==
  ASSUME ClockInv, NEW now \in Instants, Cancel(now)
  PROVE  ClockInv'
<1> DEFINE at == IF TimeReached(now, lastOwnerNow) THEN now ELSE lastOwnerNow
<1>1. at \in Instants /\ Forward(at)
  BY SinceType, ClockAssumption
     DEF Cancel, ClockInv, Words, Forward, Kept, TimeReached
<1>2. quiet' \in 0 .. Half - 1 /\ GateNear'
  BY <1>1, GateStaysNear DEF Cancel, Accept, ClockInv, Words
<1> QED
  BY <1>1, <1>2, ClockAssumption
     DEF ClockInv, Words, OperationNear, Cancel, Accept, Free, Instants

\* An accepted poll, as long as it leaves the sensor alone.
LEMMA PollKeepsGate ==
  ASSUME ClockInv, NEW now \in Instants, Forward(now), AcceptPoll(now), ClearGate(now)
  PROVE  /\ lastOwnerNow' \in Instants /\ quiet' \in 0 .. Half - 1
         /\ gateValid' \in BOOLEAN /\ gate' \in Instants /\ GateNear'
BY GateStaysNear DEF AcceptPoll, ClearGate, ClockInv, Words

LEMMA FreeKeepsInv ==
  ASSUME ClockInv, NEW now \in Instants, NEW a, Forward(now), AcceptPoll(now),
         ClearGate(now), Free(a)
  PROVE  ClockInv'
BY PollKeepsGate, ClockAssumption DEF ClockInv, Words, OperationNear, Free, Instants

LEMMA WaitKeepsInv ==
  ASSUME ClockInv, NEW now \in Instants, PollWaits(now)
  PROVE  ClockInv'
<1>1. OperationNear'
  BY ClockAssumption
     DEF ClockInv, Words, OperationNear, PollWaits, Active, Forward, AcceptPoll,
         Answer, TimeReached, Since, Instants
<1> QED
  BY <1>1, PollKeepsGate DEF ClockInv, Words, PollWaits, Active, Answer

LEMMA DeferKeepsInv ==
  ASSUME ClockInv, NEW now \in Instants, PollDefers(now)
  PROVE  ClockInv'
<1>1. OperationNear'
  BY ClockAssumption
     DEF ClockInv, Words, GateNear, OperationNear, PollDefers, Active, Forward, Kept,
         GateOpen, AcceptPoll, Answer, TimeReached, Since, Instants
<1> QED
  BY <1>1, PollKeepsGate DEF ClockInv, Words, PollDefers, Active, Answer

\* The deadline is still ahead, the due instant has passed since the start at most.
LEMMA DueStaysNear ==
  ASSUME ClockInv, NEW now \in Instants, phase # "IDLE", Forward(now),
         ~TimeReached(now, deadline)
  PROVE  /\ Since(deadline, now) \in 1 .. Half - 1
         /\ Since(due, now) < Half \/ Since(now, due) + Since(deadline, now) < Half
BY ClockAssumption
   DEF ClockInv, Words, OperationNear, Forward, TimeReached, Since, Instants

LEMMA StarveKeepsInv ==
  ASSUME ClockInv, NEW now \in Instants, PollStarves(now)
  PROVE  ClockInv'
<1>1. OperationNear'
  BY DueStaysNear DEF OperationNear, PollStarves, Active, AcceptPoll, Answer
<1> QED
  BY <1>1, PollKeepsGate DEF ClockInv, Words, PollStarves, Active, Answer

LEMMA AttemptKeepsInv ==
  ASSUME ClockInv, NEW now \in Instants, NEW s \in Settles,
         NEW completed \in Completions(now), PollAttempts(now, completed, s)
  PROVE  ClockInv'
<1> DEFINE end == IF CompletionValid(now, completed) THEN completed ELSE now
           safe == After(end, s)
<1>1. PICK t \in Nat : t + s < Half /\ end = After(now, t)
  BY AttemptEnds
<1>2. /\ end \in Instants /\ Since(end, now) < Half
      /\ safe \in Instants /\ Since(safe, now) < Half
  <2> HIDE DEF end
  <2> QED BY <1>1, ClockAssumption DEF After, Since, Instants
<1>3. GateNear' /\ quiet' \in 0 .. Half - 1
  BY <1>2, ClockAssumption DEF PollAttempts, AcceptPoll, GateNear
<1>4. /\ OperationNear' /\ phase' \in {"IDLE", "POWER_UP", "WAIT", "WORK"}
      /\ due' \in Instants /\ deadline' \in Instants
  <2>1. CASE \E a : Free(a)
    BY <2>1, ClockAssumption DEF Free, OperationNear, Instants
  <2>2. ASSUME NEW p \in {"WAIT", "WORK"}, NEW u \in {due, end, safe}, Answer(p, u),
               p = "WORK" \/ u # due \/ u = safe
        PROVE  /\ OperationNear' /\ phase' \in {"IDLE", "POWER_UP", "WAIT", "WORK"}
               /\ due' \in Instants /\ deadline' \in Instants
    <3>1. /\ Since(deadline, now) \in 1 .. Half - 1
          /\ Since(due, now) < Half \/ Since(now, due) + Since(deadline, now) < Half
      BY DueStaysNear DEF PollAttempts, Active
    <3> HIDE DEF end, safe
    <3> QED
      BY <1>2, <2>2, <3>1
         DEF PollAttempts, Answer, AcceptPoll, OperationNear, ClockInv, Words
  <2>3. \/ \E a : Free(a)
        \/ Answer("WAIT", safe)
        \/ \E u \in {due, end, safe} : Answer("WORK", u)
    BY DEF PollAttempts
  <2> QED BY <2>1, <2>2, <2>3
<1> QED
  BY <1>2, <1>3, <1>4 DEF ClockInv, Words, PollAttempts, AcceptPoll

LEMMA ClockStep == ClockInv /\ [Next]_clockVars => ClockInv'
<1> SUFFICES ASSUME ClockInv, [Next]_clockVars PROVE ClockInv'
  OBVIOUS
<1>1. ASSUME UNCHANGED <<lastOwnerNow, quiet, gateValid, gate, phase, due, deadline>>
      PROVE  ClockInv'
  BY <1>1 DEF ClockInv, Words, GateNear, OperationNear, Since, Instants
<1>2. CASE UNCHANGED clockVars
  BY <1>1, <1>2 DEF clockVars
<1>3. ASSUME NEW now \in Instants, NEW last \in Instants,
             \/ StartAccepted(now, last) \/ StartTooEarly(now, last)
             \/ StartBadDeadline(now, last) \/ StartBackwards(now, last)
      PROVE  ClockInv'
  BY <1>1, <1>3, StartKeepsInv DEF StartTooEarly, StartBadDeadline, StartBackwards, Refuse
<1>4. ASSUME NEW now \in Instants,
             PollIdle(now) \/ PollExpires(now) \/ PollConcludes(now)
      PROVE  ClockInv'
  BY <1>4, FreeKeepsInv DEF PollIdle, PollExpires, PollConcludes, Active
<1>5. ASSUME NEW now \in Instants,
             PollIdleBackwards(now) \/ PollBackwards(now)
      PROVE  ClockInv'
  BY <1>1, <1>5 DEF PollIdleBackwards, PollBackwards, Refuse
<1> QED
  BY <1>2, <1>3, <1>4, <1>5, CancelKeepsInv, WaitKeepsInv, DeferKeepsInv,
     StarveKeepsInv, AttemptKeepsInv DEF Next

\* The words of the driver's clock stay within half the range of the time
\* shown to it: the gate since the last poll, the deadline and the due instant
\* since the start, the end of ATTACH's power-up delay among them
\* (_nextSafeCommandMs, _active.deadlineMs, _active.nextDueMs).
THEOREM InstantsStayNear == Spec => []ClockInv
BY ClockInitial, ClockStep, PTL DEF Spec
-----------------------------------------------------------------------------
(* The refinement: each call is the call of DistanceClock of the same name. *)

LEMMA ClockInitMaps == Init => Unwrapped!Init
BY ClockAssumption DEF Init, Unwrapped!Init, Ahead, TimeReached, Since, Instants

LEMMA RefusalMaps ==
  ASSUME ClockInv, NEW a, Refuse(a)
  PROVE  Unwrapped!Refuse(a)
BY ClockAssumption
   DEF ClockInv, Words, Refuse, Unwrapped!Refuse, Ahead, TimeReached, Since, Instants

LEMMA StartRefusalsMap ==
  ASSUME ClockInv, NEW now \in Instants, NEW last \in Instants
  PROVE  /\ StartTooEarly(now, last) => Unwrapped!StartTooEarly(Since(now, lastOwnerNow))
         /\ StartBadDeadline(now, last) => Unwrapped!BadDeadline
         /\ StartBackwards(now, last) => Unwrapped!Backwards
<1>1. ASSUME StartTooEarly(now, last)
      PROVE  Unwrapped!StartTooEarly(Since(now, lastOwnerNow))
  <2>1. gateValid /\ Ahead(gate) > Since(now, lastOwnerNow)
    BY <1>1, ClockAssumption
       DEF ClockInv, Words, GateNear, StartTooEarly, Forward, Kept, GateOpen, Ahead,
           TimeReached, Since, Instants
  <2> QED BY <1>1, <2>1, RefusalMaps DEF StartTooEarly, Unwrapped!StartTooEarly
<1>2. ASSUME StartBadDeadline(now, last) PROVE Unwrapped!BadDeadline
  BY <1>2, RefusalMaps DEF StartBadDeadline, Unwrapped!BadDeadline
<1>3. ASSUME StartBackwards(now, last) PROVE Unwrapped!Backwards
  BY <1>3, RefusalMaps DEF StartBackwards, Unwrapped!Backwards
<1> QED BY <1>1, <1>2, <1>3

\* A cancellation comes at now or, if the clock ran backwards, at once.
LEMMA CancelMaps ==
  ASSUME ClockInv, NEW now \in Instants, Cancel(now)
  PROVE  \E d \in 0 .. Half - 1 : Unwrapped!Cancel(d)
<1> DEFINE at == IF TimeReached(now, lastOwnerNow) THEN now ELSE lastOwnerNow
<1>1. /\ at \in Instants /\ Forward(at)
      /\ Since(at, lastOwnerNow) \in 0 .. Half - 1
  BY ClockAssumption
     DEF Cancel, ClockInv, Words, Forward, Kept, TimeReached, Since, Instants
<1>2. lastOwnerNow' = at /\ UNCHANGED <<gateValid, gate>>
  BY DEF Cancel, Accept
<1>3. phase = "WAIT" =>
        (TimeReached(at, due) <=> Ahead(due) <= Since(at, lastOwnerNow))
  BY <1>1, ClockAssumption
     DEF ClockInv, Words, OperationNear, Cancel, Ahead, TimeReached, Since, Instants
<1>4. phase # "IDLE" /\ phase' = "IDLE" /\ told' = at
      /\ answer' = IF phase = "WAIT" /\ TimeReached(at, due)
                   THEN "CANCELLED_SETTLED" ELSE "CANCELLED"
  BY <1>2 DEF Cancel, Free
<1>5. (IF gateValid THEN Ahead(gate) ELSE 0)'
        = Unwrapped!Until(IF gateValid THEN Ahead(gate) ELSE 0, Since(at, lastOwnerNow))
  BY <1>1, <1>2, ClockAssumption
     DEF ClockInv, Words, GateNear, Forward, Kept, Unwrapped!Until, Ahead, TimeReached,
         Since, Instants
<1>6. Ahead(told)' = 0
  BY <1>1, <1>2, <1>4, ClockAssumption DEF Ahead, TimeReached, Since, Instants
<1>7. Unwrapped!Cancel(Since(at, lastOwnerNow))
  BY <1>3, <1>4, <1>5, <1>6 DEF Unwrapped!Cancel, Unwrapped!Free
<1> QED BY <1>1, <1>7

LEMMA ForwardDistance ==
  ASSUME ClockInv, NEW now \in Instants, Forward(now)
  PROVE  Since(now, lastOwnerNow) \in 0 .. Half - 1
BY ClockAssumption DEF ClockInv, Words, Forward, Kept, TimeReached, Since, Instants

\* The gate after the head of a poll.
LEMMA ClearedGateMaps ==
  ASSUME ClockInv, NEW now \in Instants, Forward(now), AcceptPoll(now), ClearGate(now)
  PROVE  (IF gateValid THEN Ahead(gate) ELSE 0)'
           = Unwrapped!Until(IF gateValid THEN Ahead(gate) ELSE 0, Since(now, lastOwnerNow))
BY ClockAssumption
   DEF ClockInv, Words, GateNear, Forward, Kept, AcceptPoll, ClearGate, Unwrapped!Until,
       Ahead, TimeReached, Since, Instants

LEMMA GateOpenMaps ==
  ASSUME ClockInv, NEW now \in Instants, Forward(now)
  PROVE  GateOpen(now) <=> (IF gateValid THEN Ahead(gate) ELSE 0) <= Since(now, lastOwnerNow)
BY ClockAssumption
   DEF ClockInv, Words, GateNear, Forward, Kept, GateOpen, Ahead, TimeReached, Since, Instants

\* What an active operation waits for, as it is seen from now.
LEMMA OperationMaps ==
  ASSUME ClockInv, phase # "IDLE", NEW now \in Instants, Forward(now)
  PROVE  /\ Ahead(deadline) \in 1 .. Half - 1 /\ Ahead(due) \in 0 .. Half - 1
         /\ TimeReached(now, deadline) <=> Ahead(deadline) <= Since(now, lastOwnerNow)
         /\ ~TimeReached(now, deadline) =>
              /\ Since(deadline, now) = Ahead(deadline) - Since(now, lastOwnerNow)
              /\ TimeReached(now, due) <=> Ahead(due) <= Since(now, lastOwnerNow)
              /\ ~TimeReached(now, due) =>
                   Since(due, now) = Ahead(due) - Since(now, lastOwnerNow)
BY ClockAssumption
   DEF ClockInv, Words, OperationNear, Forward, Kept, Ahead, TimeReached, Since, Instants

\* The instant told to the owner is the earlier one of the two.
LEMMA ToldMaps ==
  ASSUME NEW now \in Instants, NEW t \in Instants, NEW last \in Instants,
         Since(last, now) \in 1 .. Half - 1,
         Since(t, now) < Half \/ Since(now, t) + Since(last, now) < Half
  PROVE  LET ahead(u) == IF TimeReached(now, u) THEN 0 ELSE Since(u, now)
         IN /\ NextPollDue(t, last) \in Instants
            /\ ahead(NextPollDue(t, last))
                 = IF ahead(t) < ahead(last) THEN ahead(t) ELSE ahead(last)
BY ClockAssumption DEF NextPollDue, TimeReached, Since, Instants

\* What a start waits for, and names, as it is seen from the start.
LEMMA StartMaps ==
  ASSUME ClockInv, NEW now \in Instants, NEW last \in Instants,
         StartAccepted(now, last)
  PROVE  Unwrapped!StartAccepted(Since(now, lastOwnerNow), Since(last, now))
<1> DEFINE left == Since(last, now)
<1>1. /\ phase = "IDLE" /\ Forward(now) /\ GateOpen(now) /\ left \in 1 .. Half - 1
      /\ lastOwnerNow' = now /\ deadline' = last /\ answer' = "STARTED"
      /\ told' = NextPollDue(due', last) /\ UNCHANGED <<gateValid, gate>>
  BY DEF StartAccepted, Accept, DeadlineValid
<1>2. /\ (IF gateValid THEN Ahead(gate) ELSE 0) <= Since(now, lastOwnerNow)
      /\ (IF gateValid THEN Ahead(gate) ELSE 0)' = 0
  BY <1>1, GateOpenMaps DEF GateOpen, Ahead
<1>3. ~TimeReached(now, last)
  BY <1>1, ClockAssumption DEF TimeReached, Since, Instants
<1>4. ASSUME NEW p \in {"POWER_UP", "WORK"}, NEW t \in 0 .. Half - 1,
             NEW u \in Instants, Since(u, now) = t,
             (IF TimeReached(now, u) THEN 0 ELSE Since(u, now)) = t,
             phase' = p, due' = u,
             (p = "WORK" /\ t = 0) \/ (p = "POWER_UP" /\ t \in PowerUpDelays)
      PROVE  Unwrapped!StartAccepted(Since(now, lastOwnerNow), left)
  <2>1. /\ (IF phase = "IDLE" THEN 0 ELSE Ahead(due))' = t
        /\ (IF phase = "IDLE" THEN 0 ELSE Ahead(deadline))' = left
    BY <1>1, <1>3, <1>4 DEF Ahead
  <2>2. LET ahead(v) == IF TimeReached(now, v) THEN 0 ELSE Since(v, now)
        IN ahead(NextPollDue(u, last)) = IF t < left THEN t ELSE left
    <3>1. Since(last, now) \in 1 .. Half - 1 /\ Since(u, now) < Half
      BY <1>1, <1>4, ClockAssumption
    <3>2. LET ahead(v) == IF TimeReached(now, v) THEN 0 ELSE Since(v, now)
          IN ahead(NextPollDue(u, last)) = IF ahead(u) < ahead(last) THEN ahead(u) ELSE ahead(last)
      BY <3>1, ToldMaps
    <3> QED BY <1>3, <1>4, <3>2
  <2>3. Ahead(told)' = Unwrapped!Earlier(t, left)
    BY <1>1, <1>4, <2>2 DEF Ahead, Unwrapped!Earlier
  <2> HIDE DEF left
  <2>4. /\ phase = "IDLE" /\ answer' = "STARTED"
        /\ \/ phase' = "WORK" /\ t = 0
           \/ phase' = "POWER_UP" /\ t \in PowerUpDelays
    BY <1>1, <1>4
  <2> QED BY <1>2, <2>1, <2>3, <2>4 DEF Unwrapped!StartAccepted
<1>5. CASE phase' = "WORK" /\ due' = now
  <2>1. Since(now, now) = 0 /\ (IF TimeReached(now, now) THEN 0 ELSE Since(now, now)) = 0
    BY SinceType
  <2> QED BY <1>4, <1>5, <2>1, ClockAssumption
<1>6. ASSUME NEW delay \in PowerUpDelays, phase' = "POWER_UP", due' = After(now, delay)
      PROVE  Unwrapped!StartAccepted(Since(now, lastOwnerNow), left)
  <2>1. /\ delay \in 0 .. Half - 1 /\ After(now, delay) \in Instants
        /\ Since(After(now, delay), now) = delay
    BY AfterType, ClockAssumption
  <2>2. (IF TimeReached(now, After(now, delay)) THEN 0 ELSE Since(After(now, delay), now)) = delay
    BY <2>1, ClockAssumption DEF TimeReached, Since, Instants
  <2> QED BY <1>4, <1>6, <2>1, <2>2
<1> QED BY <1>5, <1>6 DEF StartAccepted

LEMMA FreeMaps ==
  ASSUME ClockInv, NEW now \in Instants, NEW a, Forward(now), AcceptPoll(now),
         ClearGate(now), Free(a)
  PROVE  Unwrapped!Free(Unwrapped!Until(IF gateValid THEN Ahead(gate) ELSE 0,
                                        Since(now, lastOwnerNow)), a)
<1>1. Ahead(told)' = 0
  BY ClockAssumption DEF AcceptPoll, Free, Ahead, TimeReached, Since, Instants
<1> QED BY <1>1, ClearedGateMaps DEF Free, Unwrapped!Free

LEMMA PollEndsMap ==
  ASSUME ClockInv, NEW now \in Instants
  PROVE  /\ PollIdle(now) => Unwrapped!PollIdle(Since(now, lastOwnerNow))
         /\ PollExpires(now) => Unwrapped!PollExpires(Since(now, lastOwnerNow))
         /\ PollIdleBackwards(now) => Unwrapped!PollIdle(0)
         /\ PollBackwards(now) => Unwrapped!Backwards
<1>1. ASSUME PollIdle(now) PROVE Unwrapped!PollIdle(Since(now, lastOwnerNow))
  BY <1>1, FreeMaps DEF PollIdle, Unwrapped!PollIdle
<1>2. ASSUME PollExpires(now) PROVE Unwrapped!PollExpires(Since(now, lastOwnerNow))
  BY <1>2, FreeMaps, OperationMaps DEF PollExpires, Unwrapped!PollExpires
<1>3. ASSUME PollIdleBackwards(now) PROVE Unwrapped!PollIdle(0)
  BY <1>3, ClockAssumption
     DEF ClockInv, Words, GateNear, PollIdleBackwards, Refuse, Unwrapped!PollIdle,
         Unwrapped!Free, Unwrapped!Until, Ahead, TimeReached, Since, Instants
<1>4. ASSUME PollBackwards(now) PROVE Unwrapped!Backwards
  <2>1. UNCHANGED <<lastOwnerNow, gateValid, gate, phase, due, deadline>>
    BY <1>4 DEF PollBackwards
  <2>2. /\ Since(deadline, lastOwnerNow) \in 1 .. Half - 1
        /\ \/ Since(due, lastOwnerNow) < Half
           \/ Since(lastOwnerNow, due) + Since(deadline, lastOwnerNow) < Half
    BY <1>4 DEF PollBackwards, ClockInv, OperationNear
  <2>3. Ahead(NextPollDue(due, deadline))
          = IF Ahead(due) < Ahead(deadline) THEN Ahead(due) ELSE Ahead(deadline)
    BY <2>2, ToldMaps DEF Ahead, ClockInv, Words
  <2>4. Ahead(told)' = Ahead(NextPollDue(due, deadline))
    BY <1>4, <2>1 DEF PollBackwards, Ahead
  <2>5. Ahead(due) \in Nat /\ Ahead(deadline) \in Nat
    BY ClockAssumption DEF ClockInv, Words, Ahead, Since, Instants
  <2>6. Ahead(told)' = Unwrapped!Earlier(Ahead(due), Ahead(deadline))
    BY <2>3, <2>4, <2>5 DEF Unwrapped!Earlier
  <2> QED
    BY <1>4, <2>1, <2>6 DEF PollBackwards, Unwrapped!Backwards, Ahead
<1> QED BY <1>1, <1>2, <1>3, <1>4

\* An operation that goes on in phase p, due at t.
LEMMA AnswerMaps ==
  ASSUME deadline \in Instants, NEW now \in Instants, NEW p, NEW t \in Instants,
         lastOwnerNow' = now, Answer(p, t), p # "IDLE",
         Since(deadline, now) \in 1 .. Half - 1,
         Since(t, now) < Half \/ Since(now, t) + Since(deadline, now) < Half
  PROVE  Unwrapped!Busy((IF gateValid THEN Ahead(gate) ELSE 0)', p,
                        IF TimeReached(now, t) THEN 0 ELSE Since(t, now),
                        Since(deadline, now))
<1> DEFINE u == IF TimeReached(now, t) THEN 0 ELSE Since(t, now)
           left == Since(deadline, now)
<1>1. deadline' = deadline /\ phase' = p /\ due' = t
      /\ answer' = "ACTIVE" /\ told' = NextPollDue(t, deadline)
  BY DEF Answer
<1>2. Ahead(due)' = u
  BY <1>1 DEF Ahead
<1>3. ~TimeReached(now, deadline)
  BY ClockAssumption DEF TimeReached, Since, Instants
<1>4. Ahead(deadline)' = left
  BY <1>1, <1>3 DEF Ahead
<1>5. Ahead(told)' = Unwrapped!Earlier(u, left)
  <2>1. LET ahead(v) == IF TimeReached(now, v) THEN 0 ELSE Since(v, now)
        IN ahead(NextPollDue(t, deadline)) = IF u < left THEN u ELSE left
    BY <1>3, ToldMaps
  <2> QED BY <1>1, <2>1 DEF Ahead, Unwrapped!Earlier
<1> QED BY <1>1, <1>2, <1>4, <1>5 DEF Unwrapped!Busy

LEMMA PollWaitsMaps ==
  ASSUME ClockInv, NEW now \in Instants, PollWaits(now)
  PROVE  Unwrapped!PollWaits(Since(now, lastOwnerNow))
<1> DEFINE d == Since(now, lastOwnerNow)
<1>1. phase \in {"POWER_UP", "WAIT", "WORK"} /\ Forward(now) /\ ~TimeReached(now, deadline)
      /\ ~TimeReached(now, due) /\ AcceptPoll(now) /\ ClearGate(now) /\ Answer(phase, due)
  BY DEF PollWaits, Active, ClockInv, Words
<1>2. /\ d \in Nat /\ Ahead(deadline) \in 1 .. Half - 1 /\ Ahead(due) \in 0 .. Half - 1
      /\ Ahead(deadline) > d /\ Ahead(due) > d
      /\ Since(deadline, now) = Ahead(deadline) - d
      /\ Since(due, now) = Ahead(due) - d
  BY <1>1, ForwardDistance, OperationMaps
<1>3. lastOwnerNow' = now /\ due \in Instants /\ deadline \in Instants
      /\ Since(deadline, now) \in 1 .. Half - 1 /\ Since(due, now) < Half
      /\ phase # "IDLE"
  BY <1>1, <1>2, ClockAssumption DEF AcceptPoll, ClockInv, Words
<1>4. Unwrapped!Busy((IF gateValid THEN Ahead(gate) ELSE 0)', phase,
                     IF TimeReached(now, due) THEN 0 ELSE Since(due, now),
                     Since(deadline, now))
  BY <1>1, <1>3, AnswerMaps
<1>5. Unwrapped!Busy(Unwrapped!Until(IF gateValid THEN Ahead(gate) ELSE 0, d),
                     phase, Ahead(due) - d, Ahead(deadline) - d)
  BY <1>1, <1>2, <1>4, ClearedGateMaps
<1> QED BY <1>1, <1>2, <1>5 DEF Unwrapped!PollWaits

LEMMA PollDefersMaps ==
  ASSUME ClockInv, NEW now \in Instants, PollDefers(now)
  PROVE  Unwrapped!PollDefers(Since(now, lastOwnerNow))
<1> DEFINE d == Since(now, lastOwnerNow)
<1>1. phase \in {"POWER_UP", "WAIT", "WORK"} /\ Forward(now) /\ ~TimeReached(now, deadline)
      /\ TimeReached(now, due) /\ ~GateOpen(now)
      /\ AcceptPoll(now) /\ ClearGate(now) /\ Answer(phase, gate)
  BY DEF PollDefers, Active, ClockInv, Words
<1>2. /\ d \in Nat /\ Ahead(deadline) \in 1 .. Half - 1
      /\ Ahead(deadline) > d /\ Ahead(due) <= d
      /\ Since(deadline, now) = Ahead(deadline) - d
  BY <1>1, ForwardDistance, OperationMaps
<1>3. gateValid /\ ~TimeReached(now, gate)
  BY <1>1 DEF GateOpen
<1>4. /\ Ahead(gate) \in Nat /\ Ahead(gate) > d
      /\ Since(gate, now) = Ahead(gate) - d /\ Since(gate, now) < Half
  BY <1>1, <1>3, ClockAssumption
     DEF ClockInv, Words, GateNear, Forward, Kept, Ahead, TimeReached, Since, Instants
<1>5. (IF gateValid THEN Ahead(gate) ELSE 0)' = Ahead(gate) - d
  BY <1>1, <1>3, <1>4, ClearedGateMaps DEF Unwrapped!Until
<1>6. Unwrapped!Busy(Ahead(gate) - d, phase, Ahead(gate) - d, Ahead(deadline) - d)
  <2>1. lastOwnerNow' = now /\ gate \in Instants /\ deadline \in Instants
        /\ Since(deadline, now) \in 1 .. Half - 1 /\ phase # "IDLE"
    BY <1>1, <1>2, ClockAssumption DEF AcceptPoll, ClockInv, Words
  <2>2. Unwrapped!Busy((IF gateValid THEN Ahead(gate) ELSE 0)', phase,
                       IF TimeReached(now, gate) THEN 0 ELSE Since(gate, now),
                       Since(deadline, now))
    BY <1>1, <1>4, <2>1, AnswerMaps
  <2> QED BY <1>2, <1>3, <1>4, <1>5, <2>2
<1> QED BY <1>1, <1>2, <1>3, <1>4, <1>6 DEF Unwrapped!PollDefers

LEMMA PollStarvesMaps ==
  ASSUME ClockInv, NEW now \in Instants, PollStarves(now)
  PROVE  Unwrapped!PollStarves(Since(now, lastOwnerNow))
<1> DEFINE d == Since(now, lastOwnerNow)
           g == IF gateValid THEN Ahead(gate) ELSE 0
<1>1. phase \in {"POWER_UP", "WAIT", "WORK"} /\ Forward(now) /\ ~TimeReached(now, deadline)
      /\ TimeReached(now, due) /\ GateOpen(now)
      /\ AcceptPoll(now) /\ ClearGate(now) /\ Answer("WORK", due)
  BY DEF PollStarves, Active, ClockInv, Words
<1>2. /\ d \in Nat /\ Ahead(deadline) \in 1 .. Half - 1
      /\ Ahead(deadline) > d /\ Ahead(due) <= d
      /\ Since(deadline, now) = Ahead(deadline) - d
  BY <1>1, ForwardDistance, OperationMaps
<1>3. g <= d
  BY <1>1, GateOpenMaps
<1>4. g \in Nat /\ g' = 0
  BY <1>1, <1>2, <1>3, ClearedGateMaps, ClockAssumption
     DEF Unwrapped!Until, Ahead, ClockInv, Words, Since, Instants
<1>5. Since(due, now) < Half \/ Since(now, due) + Since(deadline, now) < Half
  BY <1>1, DueStaysNear
<1>6. Unwrapped!Busy(0, "WORK", 0, Ahead(deadline) - d)
  <2>1. lastOwnerNow' = now /\ due \in Instants /\ deadline \in Instants
        /\ Since(deadline, now) \in 1 .. Half - 1
    BY <1>1, <1>2, ClockAssumption DEF AcceptPoll, ClockInv, Words
  <2>2. Unwrapped!Busy((IF gateValid THEN Ahead(gate) ELSE 0)', "WORK",
                       IF TimeReached(now, due) THEN 0 ELSE Since(due, now),
                       Since(deadline, now))
    BY <1>1, <1>5, <2>1, AnswerMaps
  <2> QED BY <1>1, <1>2, <1>4, <2>2
<1> QED BY <1>1, <1>2, <1>3, <1>6 DEF Unwrapped!PollStarves

LEMMA PollConcludesMaps ==
  ASSUME ClockInv, NEW now \in Instants, PollConcludes(now)
  PROVE  Unwrapped!PollConcludes(Since(now, lastOwnerNow))
<1> DEFINE d == Since(now, lastOwnerNow)
           g == IF gateValid THEN Ahead(gate) ELSE 0
<1>1. /\ phase # "IDLE" /\ Forward(now) /\ ~TimeReached(now, deadline)
      /\ TimeReached(now, due) /\ GateOpen(now)
      /\ AcceptPoll(now) /\ ClearGate(now) /\ Free("DONE")
  BY DEF PollConcludes, Active
<1>2. /\ d \in Nat /\ Ahead(deadline) \in Nat
      /\ Ahead(deadline) > d /\ Ahead(due) <= d /\ g <= d
  BY <1>1, ForwardDistance, OperationMaps, GateOpenMaps
<1>3. Unwrapped!Until(g, d) = 0
  BY <1>2, ClockAssumption
     DEF Unwrapped!Until, Ahead, ClockInv, Words, Since, Instants
<1>4. Unwrapped!Free(0, "DONE")
  BY <1>1, <1>3, FreeMaps
<1> QED BY <1>1, <1>2, <1>4 DEF Unwrapped!PollConcludes

LEMMA PollAttemptsMaps ==
  ASSUME ClockInv, NEW now \in Instants, NEW s \in Settles,
         NEW completed \in Completions(now), PollAttempts(now, completed, s)
  PROVE  \/ Unwrapped!PollAttemptsBackwards(Since(now, lastOwnerNow), s)
         \/ \E t \in TransferTimes : Unwrapped!PollAttempts(Since(now, lastOwnerNow), t, s)
<1> DEFINE d == Since(now, lastOwnerNow)
           valid == CompletionValid(now, completed)
           end == IF valid THEN completed ELSE now
           safe == After(end, s)
<1>1. phase # "IDLE" /\ Forward(now) /\ ~TimeReached(now, deadline)
      /\ TimeReached(now, due) /\ GateOpen(now) /\ lastOwnerNow' = now
      /\ gateValid' = TRUE /\ gate' = safe /\ deadline \in Instants
  BY DEF PollAttempts, Active, AcceptPoll, ClockInv, Words
<1>2. /\ d \in Nat /\ Ahead(deadline) \in 1 .. Half - 1
      /\ Ahead(deadline) > d /\ Ahead(due) <= d
      /\ Since(deadline, now) = Ahead(deadline) - d
      /\ (IF gateValid THEN Ahead(gate) ELSE 0) <= d
  BY <1>1, ForwardDistance, OperationMaps, GateOpenMaps
<1>3. PICK t \in Nat : t + s < Half /\ end = After(now, t) /\ (valid => t \in TransferTimes)
  BY AttemptEnds
<1>0. s \in Nat
  BY ClockAssumption
<1>4. /\ end \in Instants /\ Since(end, now) = t
      /\ (IF TimeReached(now, end) THEN 0 ELSE Since(end, now)) = t
      /\ safe \in Instants /\ Since(safe, now) = t + s
      /\ (IF TimeReached(now, safe) THEN 0 ELSE Since(safe, now)) = t + s
      /\ TimeReached(end, deadline) <=> Since(deadline, now) <= t
  <2> HIDE DEF end
  <2> QED BY <1>1, <1>2, <1>3, <1>0, ClockAssumption DEF After, TimeReached, Since, Instants
<1>5. (IF gateValid THEN Ahead(gate) ELSE 0)' = t + s
  BY <1>1, <1>4 DEF Ahead
<1>6. ASSUME NEW a, Free(a) PROVE Unwrapped!Free(t + s, a)
  <2>1. Ahead(told)' = 0
    BY <1>1, <1>6, ClockAssumption DEF Free, Ahead, TimeReached, Since, Instants
  <2> QED BY <1>5, <1>6, <2>1 DEF Free, Unwrapped!Free
<1>7. (IF phase = "IDLE" THEN 0 ELSE Ahead(deadline)) = Ahead(deadline)
      /\ (IF phase = "IDLE" THEN 0 ELSE Ahead(due)) = Ahead(due)
  BY <1>1
<1>8. CASE ~valid
  <2>1. Free("BAD_COMPLETION") /\ t = 0
    BY <1>3, <1>8, ClockAssumption DEF PollAttempts, After, Instants
  <2>2. Unwrapped!Free(s, "BAD_COMPLETION")
    BY <1>0, <1>6, <2>1
  <2> QED BY <1>1, <1>2, <1>7, <2>2 DEF Unwrapped!PollAttemptsBackwards
<1>9. CASE valid
  <2>1. ASSUME Free("DONE") \/ (TimeReached(end, deadline) /\ Free("EXPIRED"))
        PROVE  Unwrapped!PollAttempts(d, t, s)
    <3>1. \/ Unwrapped!Free(t + s, "DONE")
          \/ Ahead(deadline) - d <= t /\ Unwrapped!Free(t + s, "EXPIRED")
      BY <1>2, <1>4, <1>6, <2>1
    <3> QED BY <1>1, <1>2, <1>7, <3>1 DEF Unwrapped!PollAttempts
  <2>2. ASSUME NEW p \in {"WAIT", "WORK"}, NEW u \in {due, end, safe}, Answer(p, u),
               ~TimeReached(end, deadline), p = "WORK" \/ u = safe
        PROVE  Unwrapped!PollAttempts(d, t, s)
    <3> DEFINE v == IF TimeReached(now, u) THEN 0 ELSE Since(u, now)
    <3>1. /\ Since(deadline, now) \in 1 .. Half - 1
          /\ Since(due, now) < Half \/ Since(now, due) + Since(deadline, now) < Half
          /\ due \in Instants
      BY <1>1, DueStaysNear DEF ClockInv, Words
    <3>2. /\ u \in Instants
          /\ Since(u, now) < Half \/ Since(now, u) + Since(deadline, now) < Half
      <4> HIDE DEF end, safe
      <4> QED BY <1>3, <1>4, <1>0, <2>2, <3>1, ClockAssumption
    <3>3. v \in {0, t, t + s} /\ (u = safe => v = t + s)
      BY <1>1, <1>4, <2>2
    <3>4. Unwrapped!Busy((IF gateValid THEN Ahead(gate) ELSE 0)', p, v, Since(deadline, now))
      BY <1>1, <2>2, <3>1, <3>2, AnswerMaps
    <3>5. /\ Ahead(deadline) - d > t
          /\ Unwrapped!Busy(t + s, p, v, Ahead(deadline) - d)
      BY <1>2, <1>4, <1>5, <2>2, <3>1, <3>4
    <3> HIDE DEF v, d
    <3>6. CASE p = "WAIT"
      <4>1. Unwrapped!Busy(t + s, "WAIT", t + s, Ahead(deadline) - d)
        BY <2>2, <3>3, <3>5, <3>6
      <4> QED BY <1>1, <1>2, <1>7, <3>5, <4>1 DEF Unwrapped!PollAttempts
    <3>7. CASE p = "WORK"
      BY <1>1, <1>2, <1>7, <3>3, <3>5, <3>7 DEF Unwrapped!PollAttempts
    <3> QED BY <3>6, <3>7
  <2>3. \/ Free("DONE") \/ (TimeReached(end, deadline) /\ Free("EXPIRED"))
        \/ ~TimeReached(end, deadline) /\ Answer("WAIT", safe)
        \/ \E u \in {due, end, safe} : ~TimeReached(end, deadline) /\ Answer("WORK", u)
    BY <1>9 DEF PollAttempts
  <2>4. t \in TransferTimes
    BY <1>3, <1>9
  <2> HIDE DEF end, safe, valid
  <2>5. Unwrapped!PollAttempts(d, t, s)
    <3> HIDE DEF d
    <3>1. ASSUME ~TimeReached(end, deadline), Answer("WAIT", safe)
          PROVE  Unwrapped!PollAttempts(d, t, s)
      BY <2>2, <3>1
    <3>2. ASSUME NEW u \in {due, end, safe}, ~TimeReached(end, deadline), Answer("WORK", u)
          PROVE  Unwrapped!PollAttempts(d, t, s)
      BY <2>2, <3>2
    <3> QED BY <2>1, <2>3, <3>1, <3>2
  <2> QED BY <2>4, <2>5
<1> QED BY <1>8, <1>9

LEMMA StepMaps ==
  ClockInv /\ [Next]_clockVars => [Unwrapped!Next]_(Unwrapped!distanceVars)
<1> SUFFICES ASSUME ClockInv, [Next]_clockVars
             PROVE  Unwrapped!Next \/ UNCHANGED Unwrapped!distanceVars
  OBVIOUS
<1>1. CASE UNCHANGED clockVars
  BY <1>1 DEF clockVars, Unwrapped!distanceVars, Ahead
<1>2. ASSUME NEW now \in Instants, NEW last \in Instants,
             \/ StartAccepted(now, last) \/ StartTooEarly(now, last)
             \/ StartBadDeadline(now, last) \/ StartBackwards(now, last)
      PROVE  Unwrapped!Next
  <2>1. CASE StartAccepted(now, last)
    <3>1. Since(now, lastOwnerNow) \in 0 .. Half - 1 /\ Since(last, now) \in 1 .. Half - 1
      BY <2>1, ForwardDistance DEF StartAccepted, DeadlineValid
    <3> QED BY <2>1, <3>1, StartMaps DEF Unwrapped!Next
  <2>2. CASE StartTooEarly(now, last)
    <3>1. Since(now, lastOwnerNow) \in 0 .. Half - 1
      BY <2>2, ForwardDistance DEF StartTooEarly
    <3> QED BY <2>2, <3>1, StartRefusalsMap DEF Unwrapped!Next
  <2>3. CASE StartBadDeadline(now, last) \/ StartBackwards(now, last)
    BY <2>3, StartRefusalsMap DEF Unwrapped!Next
  <2> QED BY <1>2, <2>1, <2>2, <2>3
<1>3. ASSUME NEW now \in Instants, Cancel(now) PROVE Unwrapped!Next
  BY <1>3, CancelMaps DEF Unwrapped!Next
<1>4. ASSUME NEW now \in Instants, PollIdle(now) \/ PollExpires(now)
      PROVE  Unwrapped!Next
  <2>1. Since(now, lastOwnerNow) \in 0 .. Half - 1
    BY <1>4, ForwardDistance DEF PollIdle, PollExpires
  <2> QED BY <1>4, <2>1, PollEndsMap DEF Unwrapped!Next
<1>5. ASSUME NEW now \in Instants, PollIdleBackwards(now) \/ PollBackwards(now)
      PROVE  Unwrapped!Next
  BY <1>5, PollEndsMap, ClockAssumption DEF Unwrapped!Next
<1>6. ASSUME NEW now \in Instants,
             PollWaits(now) \/ PollDefers(now) \/ PollStarves(now) \/ PollConcludes(now)
      PROVE  Unwrapped!Next
  <2>1. Since(now, lastOwnerNow) \in 0 .. Half - 1
    BY <1>6, ForwardDistance DEF PollWaits, PollDefers, PollStarves, PollConcludes, Active
  <2> QED
    BY <1>6, <2>1, PollWaitsMaps, PollDefersMaps, PollStarvesMaps, PollConcludesMaps
       DEF Unwrapped!Next
<1>7. ASSUME NEW now \in Instants, NEW s \in Settles, NEW completed \in Completions(now),
             PollAttempts(now, completed, s)
      PROVE  Unwrapped!Next
  <2>1. Since(now, lastOwnerNow) \in 0 .. Half - 1
    BY <1>7, ForwardDistance DEF PollAttempts, Active
  <2> QED BY <1>7, <2>1, PollAttemptsMaps DEF Unwrapped!Next
<1> QED BY <1>1, <1>2, <1>3, <1>4, <1>5, <1>6, <1>7 DEF Next

\* However wide the clock is and whatever the transfers take, an owner that
\* polls once in half the clock's range need not know that it wraps: admission,
\* the settle gate, the power-up and later waits, the completion of an attempt,
\* expiry and cancellation (_timeReached, its callers and _attemptTransfer) are
\* those of DistanceClock.
THEOREM WrappingIsInvisible == Spec => ClockDoesNotWrap
<1>1. Spec => []ClockInv
  BY InstantsStayNear
<1>2. Init => Unwrapped!Init
  BY ClockInitMaps
<1>3. ClockInv /\ [Next]_clockVars => [Unwrapped!Next]_(Unwrapped!distanceVars)
  BY StepMaps
<1> QED BY <1>1, <1>2, <1>3, PTL DEF Spec, ClockDoesNotWrap, Unwrapped!Spec
=============================================================================
