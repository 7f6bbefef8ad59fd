----------------------------- MODULE MCTransfer -----------------------------
(***************************************************************************)
(* Every answer a transfer callback can give, one after another, and what  *)
(* the driver makes of it: first any answer at all, of a callback nobody   *)
(* has seen, then the answers of the two adapters of this repository to    *)
(* what happened on the bus.                                               *)
(***************************************************************************)
EXTENDS SCD41Adapters

VARIABLES raw,        \* what the callback returned
          effectful,  \* whether the command changes the sensor
          result,     \* what the driver goes on with
          facts       \* what happened to a write; {} if that is not known

transferVars == <<raw, effectful, result, facts>>

Init == /\ raw \in RawResults /\ effectful \in BOOLEAN
        /\ result = Normalise(raw, effectful)
        /\ facts = {}

Answer(answer, e, f) == /\ raw' = answer /\ effectful' = e
                        /\ result' = Normalise(answer, e)
                        /\ facts' = f

Foreign == \E answer \in RawResults, e \in BOOLEAN : Answer(answer, e, {})

WireWrites == \E status \in WireStatuses, e \in BOOLEAN :
                \E f \in WireFacts(status) : Answer(WireWrite(status), e, {f})
WireReads == \E received \in WireReceived : Answer(WireRead(received), FALSE, {})

IdfWrites == \E error \in IdfErrors, e \in BOOLEAN :
               \E f \in IdfFacts(error) : Answer(IdfTransfer(error, TRUE), e, {f})
IdfReads == \E error \in IdfErrors : Answer(IdfTransfer(error, FALSE), FALSE, {})

Spec == Init /\ [][Foreign \/ WireWrites \/ WireReads \/ IdfWrites \/ IdfReads]_transferVars

\* Success is an exact transfer that the callback reported as one, and only
\* success is called complete: the phases may use either test.
SuccessIsExact ==
  /\ result.code = "OK" <=> result.disposition = "COMPLETE"
  /\ result.code = "OK" => /\ raw.code = "OK" /\ raw.disposition = "COMPLETE"
                           /\ raw.bytes = "ALL" /\ raw.clockValid

\* Doubt is never lost: "nothing was sent" and "it had no effect" are only
\* passed on, and never against the evidence of the byte count.
DoubtIsKept ==
  /\ result.disposition \in {"NOT_STARTED", "NO_EFFECT"} =>
       /\ raw.disposition = result.disposition
       /\ raw.bytes # "EXCESS"
       /\ effectful => raw.bytes # "ALL"
  /\ result.disposition = "NOT_STARTED" => raw.bytes = "NONE"
  /\ raw.disposition = "INDETERMINATE" => result.disposition = "INDETERMINATE"

\* The adapters promise no more than the platform can prove: a command that
\* the sensor took is never called without effect, one called complete was
\* taken, and the driver never has to repair an answer of theirs.
AdaptersPromiseNoMore ==
  \A f \in facts :
    /\ f.took => result.disposition \in {"COMPLETE", "INDETERMINATE"}
    /\ result.disposition = "COMPLETE" => f.took
    /\ ~result.protocolFailure

\* The driver goes on after a wake that nobody acknowledged, or it could
\* never wake a sensor; and only then: an error of the controller is no wake.
WakeSeesTheNack ==
  \A f \in facts : ExpectedNack(TRUE, result) <=> f.unacknowledged
=============================================================================
