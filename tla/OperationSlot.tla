---------------------------- MODULE OperationSlot ----------------------------
(***************************************************************************)
(* What the owner is promised about its requests, whatever the bus, the    *)
(* clock and the sensor do: the driver holds one request at a time; every  *)
(* admitted request gets an identity, a bounded number of calls of the     *)
(* transport and exactly one result; the result stays as it is until the   *)
(* owner has taken it, and nothing is admitted before.                     *)
(***************************************************************************)
EXTENDS Naturals

CONSTANTS RequestIds,     \* identities the owner may give a request
          MaxGeneration,  \* generations are 1 .. MaxGeneration, in a cycle
          MaxCalls,       \* calls of the transport for any operation
          Outcomes        \* the ways an operation can end

VARIABLES state,       \* "IDLE", "ACTIVE" or "RESULT"
          requestId, generation,   \* the identity of the request in the slot
          next,        \* the generation the next request gets
          calls,       \* calls of the transport for the request in the slot
          outcome      \* how it ended

slotVars == <<state, requestId, generation, next, calls, outcome>>

Init ==
  /\ state = "IDLE" /\ requestId = 0 /\ generation = 0
  /\ next = 1 /\ calls = 0 /\ outcome = "NONE"

Admit ==
  /\ state = "IDLE" /\ state' = "ACTIVE"
  /\ requestId' \in RequestIds /\ generation' = next
  /\ next' = IF next = MaxGeneration THEN 1 ELSE next + 1
  /\ UNCHANGED <<calls, outcome>>

\* A call of the transport that does not end the request.
Call ==
  /\ state = "ACTIVE" /\ calls < MaxCalls /\ calls' = calls + 1
  /\ UNCHANGED <<state, requestId, generation, next, outcome>>

\* The request ends, with its last call of the transport or without one.
Conclude ==
  /\ state = "ACTIVE" /\ state' = "RESULT"
  /\ calls' \in {calls, calls + 1} /\ calls' <= MaxCalls
  /\ outcome' \in Outcomes
  /\ UNCHANGED <<requestId, generation, next>>

Take ==
  /\ state = "RESULT" /\ state' = "IDLE"
  /\ requestId' = 0 /\ generation' = 0 /\ calls' = 0 /\ outcome' = "NONE"
  /\ UNCHANGED next

Next == Admit \/ Call \/ Conclude \/ Take

Spec == Init /\ [][Next]_slotVars

\* Every request ends; taking the result is up to the owner.
FairSpec == Spec /\ WF_slotVars(Conclude)
=============================================================================
