--------------------------- MODULE SCD41Transfer ---------------------------
(***************************************************************************)
(* How the driver reads the answer of the application's transfer callback  *)
(* (the first half of _attemptTransfer).  The callback is foreign code: it *)
(* may return codes and dispositions outside their enumerations, byte      *)
(* counts that contradict the disposition, and a completion time before    *)
(* the attempt.  Normalise turns every such answer into one the protocol   *)
(* phases can rely on.                                                     *)
(***************************************************************************)
EXTENDS Naturals

Codes == {"OK", "NACK", "TIMEOUT", "BUS_ERROR", "SHORT_TRANSFER", "FAILED"}
Dispositions == {"NOT_STARTED", "NO_EFFECT", "COMPLETE", "INDETERMINATE"}

\* A value outside the enumeration.
Invalid == "INVALID"

\* Bytes transferred, compared with the bytes the request expected.
ByteCounts == {"NONE", "SOME", "ALL", "EXCESS"}

RawResults == [code : Codes \cup {Invalid},
               disposition : Dispositions \cup {Invalid},
               bytes : ByteCounts,
               clockValid : BOOLEAN]

Results == [code : Codes, disposition : Dispositions, protocolFailure : BOOLEAN,
            clockValid : BOOLEAN]

\* completedMs lies before the attempt: nothing the callback says is trusted
\* except that it never started.
AfterClock(r) ==
  IF r.clockValid THEN r
  ELSE [r EXCEPT !.code = "FAILED",
                 !.disposition = IF @ = "NOT_STARTED" THEN @ ELSE "INDETERMINATE"]

\* A slip: the byte count of an effect is not compared.
ExcessBytes(r, effectful) ==
  r.bytes = "EXCESS" \/ (r.disposition = "NOT_STARTED" /\ r.bytes # "NONE")
ContradictoryBytes(r, effectful) ==
  \/ r.bytes = "EXCESS"
  \/ r.disposition = "NOT_STARTED" /\ r.bytes # "NONE"
  \/ effectful /\ r.disposition = "NO_EFFECT" /\ r.bytes = "ALL"

Malformed(r, effectful) ==
  \/ r.code = Invalid
  \/ r.disposition = Invalid
  \/ ContradictoryBytes(r, effectful)

AfterShape(r, effectful) ==
  IF ~Malformed(r, effectful) THEN r
  ELSE [r EXCEPT !.code = "FAILED",
                 !.disposition = IF /\ @ = "NOT_STARTED"
                                    /\ ~ContradictoryBytes(r, effectful)
                                 THEN @ ELSE "INDETERMINATE"]

\* An OK that is not an exact transfer is a short one.
AfterExactness(r) ==
  IF r.code = "OK" /\ (r.disposition # "COMPLETE" \/ r.bytes # "ALL")
  THEN [r EXCEPT !.code = "SHORT_TRANSFER", !.disposition = "INDETERMINATE"]
  ELSE r

\* A slip: the claim of a failed transfer is believed.
FailureAsReported(r) == r
\* A failure that claims completion has an unknown effect.
AfterFailure(r) ==
  IF r.code # "OK" /\ r.disposition = "COMPLETE"
  THEN [r EXCEPT !.disposition = "INDETERMINATE"]
  ELSE r

Normalise(raw, effectful) ==
  LET clocked == AfterClock(raw)
      final == AfterFailure(AfterExactness(AfterShape(clocked, effectful)))
  IN [code |-> final.code,
      disposition |-> final.disposition,
      protocolFailure |-> Malformed(clocked, effectful),
      clockValid |-> raw.clockValid]
-----------------------------------------------------------------------------
\* What the phases distinguish: success, NACK, any other failure.
Class(r) == [code |-> IF r.code \in {"OK", "NACK"} THEN r.code ELSE "FAILED",
             disposition |-> r.disposition,
             clockValid |-> r.clockValid]

\* The sensor does not acknowledge a wake, nor a stop while it is idle.
ExpectedNack(nack, r) ==
  nack /\ r.code = "NACK" /\ r.disposition # "NOT_STARTED"

EffectfulOutcomes == {Class(Normalise(raw, TRUE)) : raw \in RawResults}
PlainOutcomes == {Class(Normalise(raw, FALSE)) : raw \in RawResults}
=============================================================================
