----------------------------- MODULE SCD41Clock -----------------------------
(***************************************************************************)
(* The clock arithmetic of the driver: instants are words that wrap, and   *)
(* are compared by the sign of their difference (_timeReached).  The other *)
(* modules compute with distances; this one keeps the words by which the   *)
(* driver decides (the last call, the gate, the due instant, the deadline, *)
(* the completion of an attempt) and implements DistanceClock as long as   *)
(* the owner keeps the documented contract: less than half the range of    *)
(* the clock between two polls.                                            *)
(*                                                                         *)
(* Sums and differences modulo 2 * Half are written with a case, so that   *)
(* the provers can reason about them.                                      *)
(***************************************************************************)
EXTENDS Integers

CONSTANTS Half,            \* stands for 2^31
          PowerUpDelays,   \* powerUpDelayMs of the bindings
          TransferTimes,   \* how long an attempt on the bus can take
          Settles          \* how long the sensor can need afterwards

ASSUME ClockAssumption ==
  /\ Half \in Nat \ {0}
  /\ PowerUpDelays \subseteq 0 .. Half - 1
  /\ TransferTimes \subseteq Nat /\ Settles \subseteq 0 .. Half - 1
  /\ \A t \in TransferTimes, s \in Settles : t + s < Half

VARIABLES lastOwnerNow,  \* _lastOwnerNowMs
          quiet,         \* how long ago the owner polled: the contract only
          gateValid,     \* _nextSafeCommandValid
          gate,          \* _nextSafeCommandMs
          phase,         \* of the active operation: "IDLE", "POWER_UP",
                         \* "WAIT" for the sensor, or "WORK"
          due,           \* _active.nextDueMs
          deadline,      \* _active.deadlineMs
          answer,        \* what the last call answered
          told           \* nextDueMs, of poll() or of a snapshot

clockVars == <<lastOwnerNow, quiet, gateValid, gate, phase, due, deadline,
               answer, told>>

Instants == 0 .. 2 * Half - 1

\* a + n, a - n and a - b in uint32_t.
After(a, n) == IF a + n < 2 * Half THEN a + n ELSE a + n - 2 * Half
Before(a, n) == IF a >= n THEN a - n ELSE a - n + 2 * Half
Since(a, b) == IF a >= b THEN a - b ELSE a - b + 2 * Half

\* A slip: the words are compared, not their difference.
TimeReachedUnsigned(now, target) == now >= target
TimeReached(now, target) == Since(now, target) < Half

DeadlineValid(now, last) == Since(last, now) \in 1 .. Half - 1

\* An attempt that seems to end before it started has no usable time.
CompletionValid(started, completed) == Since(completed, started) < Half

\* The earlier of the due instant and the deadline.
NextPollDue(t, last) == IF TimeReached(t, last) THEN last ELSE t

\* The first call of the owner may come at any time; lastOwnerNow is that time.
Init ==
  /\ lastOwnerNow \in Instants /\ quiet = 0
  /\ gateValid = FALSE /\ gate = 0
  /\ phase = "IDLE" /\ due = 0 /\ deadline = 0
  /\ answer = "NONE" /\ told = lastOwnerNow

\* The owner's contract: the clock seems to go on only if it did.
Kept(now) == TimeReached(now, lastOwnerNow) =>
               quiet + Since(now, lastOwnerNow) < Half

Forward(now) == Kept(now) /\ TimeReached(now, lastOwnerNow)

Accept(now) == /\ lastOwnerNow' = now
               /\ quiet' = quiet + Since(now, lastOwnerNow)

Free(a) == /\ phase' = "IDLE" /\ due' = 0 /\ deadline' = 0
           /\ answer' = a /\ told' = lastOwnerNow'

Refuse(a) == /\ answer' = a /\ told' = lastOwnerNow
             /\ UNCHANGED <<lastOwnerNow, quiet, gateValid, gate, phase, due, deadline>>
-----------------------------------------------------------------------------
GateOpen(now) == gateValid => TimeReached(now, gate)

\* ATTACH is due when the sensor has had its power-up delay, the rest at once.
StartAccepted(now, last) ==
  /\ phase = "IDLE" /\ Forward(now) /\ DeadlineValid(now, last) /\ GateOpen(now)
  /\ Accept(now)
  /\ \/ phase' = "WORK" /\ due' = now
     \/ \E delay \in PowerUpDelays : phase' = "POWER_UP" /\ due' = After(now, delay)
  /\ deadline' = last
  /\ answer' = "STARTED" /\ told' = NextPollDue(due', last)
  /\ UNCHANGED <<gateValid, gate>>

StartTooEarly(now, last) ==
  /\ phase = "IDLE" /\ Forward(now) /\ DeadlineValid(now, last) /\ ~GateOpen(now)
  /\ Refuse("BUSY")

StartBadDeadline(now, last) ==
  phase = "IDLE" /\ ~DeadlineValid(now, last) /\ Refuse("BAD_DEADLINE")

StartBackwards(now, last) ==
  /\ phase = "IDLE" /\ DeadlineValid(now, last)
  /\ ~TimeReached(now, lastOwnerNow) /\ Refuse("BACKWARDS")

\* A backward clock is taken for the last one.
Cancel(now) ==
  LET at == IF TimeReached(now, lastOwnerNow) THEN now ELSE lastOwnerNow
  IN /\ phase # "IDLE" /\ Kept(now)
     /\ Accept(at)
     /\ Free(IF phase = "WAIT" /\ TimeReached(at, due)
             THEN "CANCELLED_SETTLED" ELSE "CANCELLED")
     /\ UNCHANGED <<gateValid, gate>>
-----------------------------------------------------------------------------
\* The head of poll(): the new time, and the gate that has elapsed.
AcceptPoll(now) == lastOwnerNow' = now /\ quiet' = 0
\* A slip: an elapsed gate is kept.
KeepGate(now) == UNCHANGED <<gateValid, gate>>
ClearGate(now) == /\ gateValid' = (gateValid /\ ~TimeReached(now, gate))
                  /\ UNCHANGED gate

PollIdle(now) ==
  /\ phase = "IDLE" /\ Forward(now)
  /\ AcceptPoll(now) /\ ClearGate(now) /\ Free("IDLE")

\* An idle driver ignores a backward clock without saying so.
PollIdleBackwards(now) ==
  phase = "IDLE" /\ ~TimeReached(now, lastOwnerNow) /\ Refuse("IDLE")

PollBackwards(now) ==
  /\ phase # "IDLE" /\ ~TimeReached(now, lastOwnerNow)
  /\ answer' = "BACKWARDS" /\ told' = NextPollDue(due, deadline)
  /\ UNCHANGED <<lastOwnerNow, quiet, gateValid, gate, phase, due, deadline>>

PollExpires(now) ==
  /\ phase # "IDLE" /\ Forward(now) /\ TimeReached(now, deadline)
  /\ AcceptPoll(now) /\ ClearGate(now) /\ Free("EXPIRED")

Active(now) == phase # "IDLE" /\ Forward(now) /\ ~TimeReached(now, deadline)

Answer(p, t) ==
  /\ phase' = p /\ due' = t /\ UNCHANGED deadline
  /\ answer' = "ACTIVE" /\ told' = NextPollDue(t, deadline)

PollWaits(now) ==
  /\ Active(now) /\ ~TimeReached(now, due)
  /\ AcceptPoll(now) /\ ClearGate(now) /\ Answer(phase, due)

PollDefers(now) ==
  /\ Active(now) /\ TimeReached(now, due) /\ ~GateOpen(now)
  /\ AcceptPoll(now) /\ ClearGate(now) /\ Answer(phase, gate)

PollStarves(now) ==
  /\ Active(now) /\ TimeReached(now, due) /\ GateOpen(now)
  /\ AcceptPoll(now) /\ ClearGate(now) /\ Answer("WORK", due)

\* The operation ends and the sensor is left alone: the wait for it is over, or
\* the attempt was never started, whatever its completion says.
PollConcludes(now) ==
  /\ Active(now) /\ TimeReached(now, due) /\ GateOpen(now)
  /\ AcceptPoll(now) /\ ClearGate(now) /\ Free("DONE")

\* The attempt is reported completed at an instant that may be unusable: then the
\* operation fails, and the sensor's time runs from the start of the attempt.
\* After a usable one follows the end of the operation, a wait for the sensor, or
\* more work: due as before or at once if the budget of this poll is used up,
\* after the sensor if the poll goes on.  Only a success that comes after the
\* deadline expires; a failure is told as one.
PollAttempts(now, completed, s) ==
  LET valid == CompletionValid(now, completed)
      end == IF valid THEN completed ELSE now
      safe == After(end, s)
  IN /\ Active(now) /\ TimeReached(now, due) /\ GateOpen(now)
     /\ AcceptPoll(now)
     /\ gateValid' = TRUE /\ gate' = safe
     /\ \/ ~valid /\ Free("BAD_COMPLETION")
        \/ valid /\ Free("DONE")
        \/ valid /\ TimeReached(end, deadline) /\ Free("EXPIRED")
        \/ valid /\ ~TimeReached(end, deadline) /\ Answer("WAIT", safe)
        \/ /\ valid /\ ~TimeReached(end, deadline)
           /\ \E u \in {due, end, safe} : Answer("WORK", u)

\* The callback's clock goes on by the time the attempt takes, or goes back.
Completions(now) ==
  {After(now, t) : t \in TransferTimes} \cup {Before(now, b) : b \in 1 .. Half}

Next ==
  \E now \in Instants :
    \/ \E last \in Instants :
         \/ StartAccepted(now, last) \/ StartTooEarly(now, last)
         \/ StartBadDeadline(now, last) \/ StartBackwards(now, last)
    \/ Cancel(now) \/ PollIdle(now) \/ PollIdleBackwards(now)
    \/ PollBackwards(now) \/ PollExpires(now) \/ PollWaits(now)
    \/ PollDefers(now) \/ PollStarves(now) \/ PollConcludes(now)
    \/ \E completed \in Completions(now), s \in Settles :
         PollAttempts(now, completed, s)

Spec == Init /\ [][Next]_clockVars
-----------------------------------------------------------------------------
\* How far an instant lies ahead of the last accepted call.
Ahead(t) == IF TimeReached(lastOwnerNow, t) THEN 0 ELSE Since(t, lastOwnerNow)

Unwrapped == INSTANCE DistanceClock WITH
  Reach <- Half - 1,
  gate <- IF gateValid THEN Ahead(gate) ELSE 0,
  due <- IF phase = "IDLE" THEN 0 ELSE Ahead(due),
  deadline <- IF phase = "IDLE" THEN 0 ELSE Ahead(deadline),
  told <- Ahead(told)

\* Under the owner's contract the wrapping words and their signed comparison
\* decide every call (admission, the settle gate, the power-up and later waits,
\* the completion of an attempt, expiry, the settled reload of a cancellation,
\* the instant for the next poll) as instants that never wrap would.
ClockDoesNotWrap == Unwrapped!Spec
=============================================================================
