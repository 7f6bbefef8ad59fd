---------------------------- MODULE DistanceClock ----------------------------
(***************************************************************************)
(* The time an owner may reason with: instants that never wrap, kept as    *)
(* distances to the last accepted call of the owner, where 0 stands for an *)
(* instant that is reached.  SCD41Driver computes with these distances.    *)
(***************************************************************************)
EXTENDS Naturals

CONSTANTS Reach,           \* the longest time between calls, and to a deadline
          PowerUpDelays,   \* how long the sensor is given before it is attached
          TransferTimes,   \* how long an attempt on the bus can take
          Settles          \* how long the sensor can need afterwards

VARIABLES gate,      \* until the sensor may be addressed
          phase,     \* "IDLE", "POWER_UP" or "WAIT" for the due instant, or "WORK"
          due,       \* until the phase is due
          deadline,  \* until the operation expires
          answer,    \* what the last call answered
          told       \* until the instant named for the next call

distanceVars == <<gate, phase, due, deadline, answer, told>>

Until(t, d) == IF t > d THEN t - d ELSE 0
Earlier(t, u) == IF t < u THEN t ELSE u

Init == /\ gate = 0 /\ phase = "IDLE" /\ due = 0 /\ deadline = 0
        /\ answer = "NONE" /\ told = 0

\* No operation is left in the slot; the sensor may still need time.
Free(g, a) == /\ gate' = g /\ phase' = "IDLE" /\ due' = 0 /\ deadline' = 0
              /\ answer' = a /\ told' = 0

Busy(g, p, t, last) ==
  /\ gate' = g /\ phase' = p /\ due' = t /\ deadline' = last
  /\ answer' = "ACTIVE" /\ told' = Earlier(t, last)

Refuse(a) == /\ answer' = a /\ told' = 0
             /\ UNCHANGED <<gate, phase, due, deadline>>

StartAccepted(d, last) ==
  /\ phase = "IDLE" /\ gate <= d
  /\ gate' = 0 /\ deadline' = last
  /\ \/ phase' = "WORK" /\ due' = 0
     \/ \E delay \in PowerUpDelays : phase' = "POWER_UP" /\ due' = delay
  /\ answer' = "STARTED" /\ told' = Earlier(due', last)

StartTooEarly(d) == phase = "IDLE" /\ gate > d /\ Refuse("BUSY")

\* A call whose clock is behind the last one, or whose deadline is not ahead.
Backwards == \/ phase # "IDLE" /\ answer' = "BACKWARDS" /\ told' = Earlier(due, deadline)
                  /\ UNCHANGED <<gate, phase, due, deadline>>
             \/ phase = "IDLE" /\ Refuse("BACKWARDS")
BadDeadline == phase = "IDLE" /\ Refuse("BAD_DEADLINE")

Cancel(d) ==
  /\ phase # "IDLE"
  /\ Free(Until(gate, d),
          IF phase = "WAIT" /\ due <= d THEN "CANCELLED_SETTLED" ELSE "CANCELLED")

PollIdle(d) == phase = "IDLE" /\ Free(Until(gate, d), "IDLE")
PollExpires(d) ==
  phase # "IDLE" /\ deadline <= d /\ Free(Until(gate, d), "EXPIRED")

\* Nothing to do yet.
PollWaits(d) ==
  /\ phase # "IDLE" /\ deadline > d /\ due > d
  /\ Busy(Until(gate, d), phase, due - d, deadline - d)

\* The phase is due, the sensor is not ready.
PollDefers(d) ==
  /\ phase # "IDLE" /\ deadline > d /\ due <= d /\ gate > d
  /\ Busy(gate - d, phase, gate - d, deadline - d)

\* The phase is due, the owner leaves no room for an attempt.
PollStarves(d) ==
  /\ phase # "IDLE" /\ deadline > d /\ due <= d /\ gate <= d
  /\ Busy(0, "WORK", 0, deadline - d)

\* The operation ends without another command for the sensor.
PollConcludes(d) ==
  /\ phase # "IDLE" /\ deadline > d /\ due <= d /\ gate <= d
  /\ Free(0, "DONE")

\* An attempt that takes t, after which the sensor needs s.
PollAttempts(d, t, s) ==
  /\ phase # "IDLE" /\ deadline > d /\ due <= d /\ gate <= d
  /\ \/ Free(t + s, "DONE")
     \/ deadline - d <= t /\ Free(t + s, "EXPIRED")
     \/ deadline - d > t /\ Busy(t + s, "WAIT", t + s, deadline - d)
     \/ /\ deadline - d > t
        /\ \E u \in {0, t, t + s} : Busy(t + s, "WORK", u, deadline - d)

\* An attempt reported to have ended before it started: its time is not known,
\* what the sensor needs is counted from the start.
PollAttemptsBackwards(d, s) ==
  /\ phase # "IDLE" /\ deadline > d /\ due <= d /\ gate <= d
  /\ Free(s, "BAD_COMPLETION")

Next ==
  \/ Backwards \/ BadDeadline
  \/ \E d \in 0 .. Reach :
       \/ \E last \in 1 .. Reach : StartAccepted(d, last)
       \/ StartTooEarly(d) \/ Cancel(d) \/ PollIdle(d) \/ PollExpires(d)
       \/ PollWaits(d) \/ PollDefers(d) \/ PollStarves(d) \/ PollConcludes(d)
       \/ \E s \in Settles :
            \/ PollAttemptsBackwards(d, s)
            \/ \E t \in TransferTimes : PollAttempts(d, t, s)

Spec == Init /\ [][Next]_distanceVars
=============================================================================
