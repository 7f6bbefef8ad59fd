------------------------------- MODULE BusProofs -------------------------------
(***************************************************************************)
(* What is proved about what the bus brings.                               *)
(*                                                                         *)
(* Answers (MCTransfer): the driver believes a success only if it is an    *)
(* exact one and never gives up a doubt, whatever the callback answers;    *)
(* and the two adapters of this repository never claim more than the bus   *)
(* has shown.  The answers are finitely many and the run enumerates them;  *)
(* the lemmas say which stage of the normalisation is responsible for      *)
(* what.                                                                   *)
(*                                                                         *)
(* Words (MCWords): what the checksum notices, for every word and not for  *)
(* the samples of the run; that it is the sensor's polynomial division;    *)
(* that what is published is rounded, and that settings are read back as   *)
(* they were written.                                                      *)
(***************************************************************************)
EXTENDS MCTransfer, MCWords, TLAPS

LEMMA RawFields ==
  ASSUME NEW r \in RawResults
  PROVE  /\ r.code \in Codes \cup {Invalid} /\ r.disposition \in Dispositions \cup {Invalid}
         /\ r.bytes \in ByteCounts /\ r.clockValid \in BOOLEAN
  BY DEF RawResults

\* An answer with a bad completion time keeps its bytes and no claim but that
\* nothing was sent.
LEMMA ClockStage ==
  ASSUME NEW r \in RawResults
  PROVE  /\ AfterClock(r) \in RawResults
         /\ AfterClock(r).bytes = r.bytes
         /\ r.clockValid => AfterClock(r) = r
         /\ ~r.clockValid => /\ AfterClock(r).code = "FAILED"
                             /\ AfterClock(r).disposition \in {"NOT_STARTED", "INDETERMINATE"}
         /\ AfterClock(r).disposition = "NOT_STARTED" => r.disposition = "NOT_STARTED"
         /\ r.disposition = "INDETERMINATE" => AfterClock(r).disposition = "INDETERMINATE"
<1>1. CASE r.clockValid
  BY <1>1 DEF AfterClock
<1>2. CASE ~r.clockValid
  BY <1>2 DEF AfterClock, RawResults, Codes, Dispositions
<1> QED BY <1>1, <1>2

\* A malformed answer keeps no claim either.
LEMMA ShapeStage ==
  ASSUME NEW r \in RawResults, NEW e \in BOOLEAN
  PROVE  /\ AfterShape(r, e) \in [code : Codes, disposition : Dispositions,
                                  bytes : ByteCounts, clockValid : BOOLEAN]
         /\ AfterShape(r, e).bytes = r.bytes
         /\ ~Malformed(r, e) => AfterShape(r, e) = r
         /\ Malformed(r, e) => /\ AfterShape(r, e).code = "FAILED"
                               /\ AfterShape(r, e).disposition \in {"NOT_STARTED", "INDETERMINATE"}
         /\ AfterShape(r, e).disposition \in {"NOT_STARTED", "NO_EFFECT"} =>
              /\ r.disposition = AfterShape(r, e).disposition
              /\ ~ContradictoryBytes(r, e)
         /\ r.disposition = "INDETERMINATE" => AfterShape(r, e).disposition = "INDETERMINATE"
<1>1. CASE ~Malformed(r, e)
  BY <1>1 DEF AfterShape, Malformed, RawResults
<1>2. CASE Malformed(r, e)
  BY <1>2 DEF AfterShape, RawResults, Codes, Dispositions, Invalid
<1> QED BY <1>1, <1>2

\* What the exactness and the failure check leave: success and completion are
\* the same, and both are exact.
LEMMA ExactStage ==
  ASSUME NEW r \in [code : Codes, disposition : Dispositions,
                    bytes : ByteCounts, clockValid : BOOLEAN]
  PROVE  LET n == AfterFailure(AfterExactness(r))
         IN  /\ n \in [code : Codes, disposition : Dispositions,
                       bytes : ByteCounts, clockValid : BOOLEAN]
             /\ n.code = "OK" <=> n.disposition = "COMPLETE"
             /\ n.code = "OK" => n = r /\ r.bytes = "ALL"
             /\ n.disposition \in {"NOT_STARTED", "NO_EFFECT"} =>
                  r.disposition = n.disposition
             /\ r.disposition = "INDETERMINATE" => n.disposition = "INDETERMINATE"
<1>1. CASE r.code = "OK" /\ (r.disposition # "COMPLETE" \/ r.bytes # "ALL")
  BY <1>1 DEF AfterFailure, AfterExactness, Codes, Dispositions
<1>2. CASE r.code = "OK" /\ r.disposition = "COMPLETE" /\ r.bytes = "ALL"
  BY <1>2 DEF AfterFailure, AfterExactness
<1>3. CASE r.code # "OK"
  BY <1>3 DEF AfterFailure, AfterExactness, Codes, Dispositions
<1> QED BY <1>1, <1>2, <1>3

\* What the driver goes on with, related to what the callback returned.
Sound(r, e, n) ==
  /\ n \in Results
  /\ n.code = "OK" <=> n.disposition = "COMPLETE"
  /\ n.code = "OK" => /\ r.code = "OK" /\ r.disposition = "COMPLETE"
                      /\ r.bytes = "ALL" /\ r.clockValid
  /\ n.disposition \in {"NOT_STARTED", "NO_EFFECT"} =>
       r.disposition = n.disposition /\ ~ContradictoryBytes(r, e)
  /\ r.disposition = "INDETERMINATE" => n.disposition = "INDETERMINATE"

LEMMA NormaliseIsSound ==
  ASSUME NEW r \in RawResults, NEW e \in BOOLEAN
  PROVE  Sound(r, e, Normalise(r, e))
<1> DEFINE c == AfterClock(r)
           s == AfterShape(c, e)
           n == AfterFailure(AfterExactness(s))
<1>1. /\ c \in RawResults /\ c.bytes = r.bytes
      /\ r.clockValid => c = r
      /\ ~r.clockValid => c.code = "FAILED" /\ c.disposition \in {"NOT_STARTED", "INDETERMINATE"}
      /\ c.disposition = "NOT_STARTED" => r.disposition = "NOT_STARTED"
      /\ r.disposition = "INDETERMINATE" => c.disposition = "INDETERMINATE"
  BY ClockStage
<1>2. /\ s \in [code : Codes, disposition : Dispositions,
                bytes : ByteCounts, clockValid : BOOLEAN]
      /\ ~Malformed(c, e) => s = c
      /\ Malformed(c, e) => s.code = "FAILED"
      /\ s.bytes = c.bytes
      /\ s.disposition \in {"NOT_STARTED", "NO_EFFECT"} =>
           c.disposition = s.disposition /\ ~ContradictoryBytes(c, e)
      /\ c.disposition = "INDETERMINATE" => s.disposition = "INDETERMINATE"
  <2> HIDE DEF c
  <2> QED BY <1>1, ShapeStage
<1>3. /\ n \in [code : Codes, disposition : Dispositions,
                bytes : ByteCounts, clockValid : BOOLEAN]
      /\ n.code = "OK" <=> n.disposition = "COMPLETE"
      /\ n.code = "OK" => n = s /\ s.bytes = "ALL"
      /\ n.disposition \in {"NOT_STARTED", "NO_EFFECT"} => s.disposition = n.disposition
      /\ s.disposition = "INDETERMINATE" => n.disposition = "INDETERMINATE"
  <2> HIDE DEF c, s
  <2> QED BY <1>2, ExactStage
<1>4. Normalise(r, e) = [code |-> n.code, disposition |-> n.disposition,
                         protocolFailure |-> Malformed(c, e),
                         clockValid |-> r.clockValid]
  BY DEF Normalise
<1>5. Malformed(c, e) \in BOOLEAN /\ r.clockValid \in BOOLEAN
  BY RawFields DEF Malformed
<1>6. n.code = "OK" => /\ r.code = "OK" /\ r.disposition = "COMPLETE"
                       /\ r.bytes = "ALL" /\ r.clockValid
  <2> HIDE DEF c, s, n
  <2> SUFFICES ASSUME n.code = "OK"
               PROVE  /\ r.code = "OK" /\ r.disposition = "COMPLETE"
                      /\ r.bytes = "ALL" /\ r.clockValid
    OBVIOUS
  <2>1. s.code = "OK" /\ s.disposition = "COMPLETE" /\ s.bytes = "ALL"
    BY <1>3
  <2>2. s = c
    BY <1>2, <2>1
  <2>3. r.clockValid /\ c = r
    BY <1>1, <2>1, <2>2
  <2> QED BY <2>1, <2>2, <2>3
<1>7. n.disposition \in {"NOT_STARTED", "NO_EFFECT"} =>
        r.disposition = n.disposition /\ ~ContradictoryBytes(r, e)
  <2>1. SUFFICES ASSUME n.disposition \in {"NOT_STARTED", "NO_EFFECT"}
                 PROVE  r.disposition = n.disposition /\ ~ContradictoryBytes(r, e)
    OBVIOUS
  <2> HIDE DEF c, s, n
  <2>2. c.disposition = n.disposition /\ ~ContradictoryBytes(c, e)
    BY <1>2, <1>3, <2>1
  <2>3. r.disposition = n.disposition
    BY <1>1, <2>1, <2>2
  <2> QED BY <1>1, <2>2, <2>3 DEF ContradictoryBytes
<1>8. n.disposition = "INDETERMINATE" \/ r.disposition # "INDETERMINATE"
  <2> HIDE DEF c, s, n
  <2> QED BY <1>1, <1>2, <1>3
<1> DEFINE m == Normalise(r, e)
<1>9. /\ m \in Results /\ m.code = n.code /\ m.disposition = n.disposition
  <2> HIDE DEF c, s, n
  <2> QED BY <1>3, <1>4, <1>5 DEF Results
<1> HIDE DEF c, s, n, m
<1>10. Sound(r, e, m)
  BY <1>3, <1>6, <1>7, <1>8, <1>9 DEF Sound
<1> QED BY <1>10 DEF m
-----------------------------------------------------------------------------
(* The adapters.                                                           *)

\* An answer that claims nothing it does not show is passed on as it is.
LEMMA HonestAnswer ==
  ASSUME NEW code \in Codes, NEW disposition \in {"COMPLETE", "INDETERMINATE"},
         NEW bytes \in {"NONE", "SOME", "ALL"}, NEW e \in BOOLEAN,
         code = "OK" <=> disposition = "COMPLETE",
         code = "OK" => bytes = "ALL"
  PROVE  /\ Raw(code, disposition, bytes) \in RawResults
         /\ Normalise(Raw(code, disposition, bytes), e) =
              [code |-> code, disposition |-> disposition,
               protocolFailure |-> FALSE, clockValid |-> TRUE]
<1> DEFINE r == Raw(code, disposition, bytes)
<1>1. /\ r \in RawResults /\ r.clockValid = TRUE
      /\ r.code = code /\ r.disposition = disposition /\ r.bytes = bytes
  BY DEF Raw, RawResults, Codes, Dispositions, ByteCounts
<1> HIDE DEF r
<1>2. AfterClock(r) = r
  BY <1>1 DEF AfterClock
<1>3. Malformed(r, e) = FALSE
  BY <1>1 DEF Malformed, ContradictoryBytes, Codes, Invalid
<1>4. AfterShape(r, e) = r
  BY <1>3 DEF AfterShape
<1>5. AfterExactness(r) = r
  BY <1>1 DEF AfterExactness
<1>6. AfterFailure(r) = r
  BY <1>1 DEF AfterFailure
<1>7. Normalise(r, e) = [code |-> code, disposition |-> disposition,
                         protocolFailure |-> FALSE, clockValid |-> TRUE]
  BY <1>1, <1>2, <1>3, <1>4, <1>5, <1>6 DEF Normalise
<1> QED BY <1>1, <1>7 DEF r

\* What an answer to a write promises, against what happened on the bus.
Honest(answer, f) ==
  \A e \in BOOLEAN :
    LET n == Normalise(answer, e)
    IN  /\ f.took => n.disposition \in {"COMPLETE", "INDETERMINATE"}
        /\ n.disposition = "COMPLETE" => f.took
        /\ ~n.protocolFailure
        /\ ExpectedNack(TRUE, n) <=> f.unacknowledged

LEMMA PassedOn ==
  ASSUME NEW f \in Facts, NEW code \in Codes,
         NEW disposition \in {"COMPLETE", "INDETERMINATE"},
         code = "OK" <=> disposition = "COMPLETE",
         code = "OK" => f.took,
         code = "NACK" => f.unacknowledged,
         code # "NACK" => ~f.unacknowledged
  PROVE  LET answer == Raw(code, disposition, IF code = "OK" THEN "ALL" ELSE "NONE")
         IN  answer \in RawResults /\ Honest(answer, f)
<1> DEFINE answer == Raw(code, disposition, IF code = "OK" THEN "ALL" ELSE "NONE")
<1>1. ASSUME NEW e \in BOOLEAN
      PROVE  /\ answer \in RawResults
             /\ Normalise(answer, e) = [code |-> code, disposition |-> disposition,
                                       protocolFailure |-> FALSE, clockValid |-> TRUE]
  BY HonestAnswer
<1> HIDE DEF answer
<1>2. ASSUME NEW e \in BOOLEAN, NEW n, n = Normalise(answer, e)
      PROVE  /\ f.took => n.disposition \in {"COMPLETE", "INDETERMINATE"}
             /\ n.disposition = "COMPLETE" => f.took
             /\ ~n.protocolFailure
             /\ ExpectedNack(TRUE, n) <=> f.unacknowledged
  <2>1. n.code = code /\ n.disposition = disposition /\ n.protocolFailure = FALSE
    BY <1>1, <1>2
  <2>2. ExpectedNack(TRUE, n) <=> code = "NACK"
    BY <2>1 DEF ExpectedNack
  <2> QED BY <2>1, <2>2
<1>3. answer \in RawResults /\ Honest(answer, f)
  BY <1>1, <1>2, Zenon DEF Honest
<1> QED BY <1>3 DEF answer

LEMMA HonestSuccess ==
  ASSUME NEW f \in Facts, f.took, ~f.unacknowledged
  PROVE  /\ Raw("OK", "COMPLETE", "ALL") \in RawResults
         /\ Honest(Raw("OK", "COMPLETE", "ALL"), f)
  BY PassedOn DEF Codes

LEMMA HonestNack ==
  ASSUME NEW f \in Facts, f.unacknowledged
  PROVE  /\ Raw("NACK", "INDETERMINATE", "NONE") \in RawResults
         /\ Honest(Raw("NACK", "INDETERMINATE", "NONE"), f)
  BY PassedOn DEF Codes

LEMMA HonestFailure ==
  ASSUME NEW f \in Facts, ~f.unacknowledged, NEW code \in Codes \ {"OK", "NACK"}
  PROVE  /\ Raw(code, "INDETERMINATE", "NONE") \in RawResults
         /\ Honest(Raw(code, "INDETERMINATE", "NONE"), f)
  BY PassedOn

\* The Arduino adapter, status by status.
LEMMA WireIsHonest ==
  ASSUME NEW status \in WireStatuses, NEW f \in WireFacts(status)
  PROVE  /\ WireWrite(status) \in RawResults
         /\ f \in Facts /\ Honest(WireWrite(status), f)
<1>1. CASE status = "SUCCESS"
  <2>1. WireWrite(status) = Raw("OK", "COMPLETE", "ALL")
    BY <1>1, Zenon DEF WireWrite
  <2>2. WireFacts(status) = {g \in Facts : g.took /\ ~g.unacknowledged}
    BY <1>1, Zenon DEF WireFacts
  <2> QED BY <2>1, <2>2, HonestSuccess
<1>2. CASE status \in {"NACK_ADDRESS", "NACK_DATA"}
  <2>1. WireWrite(status) = Raw("NACK", "INDETERMINATE", "NONE")
    BY <1>2, Zenon DEF WireWrite
  <2>2. WireFacts(status) = {g \in Facts : g.unacknowledged}
    BY <1>2, Zenon DEF WireFacts
  <2> QED BY <2>1, <2>2, HonestNack
<1>3. CASE status \in {"SHORT_WRITE", "DATA_TOO_LONG"}
  <2>1. WireWrite(status) = Raw("SHORT_TRANSFER", "INDETERMINATE", "NONE")
    BY <1>3, Zenon DEF WireWrite
  <2>2. WireFacts(status) = {g \in Facts : ~g.took /\ ~g.unacknowledged}
    BY <1>3, Zenon DEF WireFacts
  <2> QED BY <2>1, <2>2, HonestFailure DEF Codes
<1>4. CASE status \in {"OTHER_ERROR", "TIMEOUT", "UNKNOWN"}
  <2>1. PICK code \in {"BUS_ERROR", "TIMEOUT", "FAILED"} :
          WireWrite(status) = Raw(code, "INDETERMINATE", "NONE")
    <3>1. CASE status = "OTHER_ERROR"
      BY <3>1, Zenon DEF WireWrite
    <3>2. CASE status = "TIMEOUT"
      BY <3>2, Zenon DEF WireWrite
    <3>3. CASE status = "UNKNOWN"
      BY <3>3, Zenon DEF WireWrite
    <3> QED BY <1>4, <3>1, <3>2, <3>3
  <2>2. WireFacts(status) = {g \in Facts : ~g.unacknowledged}
    BY <1>4, Zenon DEF WireFacts
  <2> QED BY <2>1, <2>2, HonestFailure DEF Codes
<1> QED BY <1>1, <1>2, <1>3, <1>4 DEF WireStatuses

\* The ESP-IDF adapter, error by error.
LEMMA IdfIsHonest ==
  ASSUME NEW error \in IdfErrors, NEW f \in IdfFacts(error)
  PROVE  /\ IdfTransfer(error, TRUE) \in RawResults
         /\ f \in Facts /\ Honest(IdfTransfer(error, TRUE), f)
<1>1. CASE error = "ESP_OK"
  <2>1. IdfTransfer(error, TRUE) = Raw("OK", "COMPLETE", "ALL")
    BY <1>1, Zenon DEF IdfTransfer
  <2>2. IdfFacts(error) = {g \in Facts : g.took /\ ~g.unacknowledged}
    BY <1>1, Zenon DEF IdfFacts
  <2> QED BY <2>1, <2>2, HonestSuccess
<1>2. CASE error = "ESP_ERR_INVALID_RESPONSE"
  <2>1. IdfTransfer(error, TRUE) = Raw("NACK", "INDETERMINATE", "NONE")
    BY <1>2, Zenon DEF IdfTransfer
  <2>2. IdfFacts(error) = {g \in Facts : g.unacknowledged}
    BY <1>2, Zenon DEF IdfFacts
  <2> QED BY <2>1, <2>2, HonestNack
<1>3. CASE error \in {"ESP_ERR_TIMEOUT", "OTHER"}
  <2>1. PICK code \in {"TIMEOUT", "BUS_ERROR"} :
          IdfTransfer(error, TRUE) = Raw(code, "INDETERMINATE", "NONE")
    <3>1. CASE error = "ESP_ERR_TIMEOUT"
      BY <3>1, Zenon DEF IdfTransfer
    <3>2. CASE error = "OTHER"
      BY <3>2, Zenon DEF IdfTransfer
    <3> QED BY <1>3, <3>1, <3>2
  <2>2. IdfFacts(error) = {g \in Facts : ~g.unacknowledged}
    BY <1>3, Zenon DEF IdfFacts
  <2> QED BY <2>1, <2>2, HonestFailure DEF Codes
<1> QED BY <1>1, <1>2, <1>3 DEF IdfErrors

LEMMA ReadAnswers ==
  /\ \A received \in WireReceived : WireRead(received) \in RawResults
  /\ \A error \in IdfErrors : IdfTransfer(error, FALSE) \in RawResults
<1>1. ASSUME NEW code \in Codes, NEW disposition \in Dispositions, NEW bytes \in ByteCounts
      PROVE  Raw(code, disposition, bytes) \in RawResults
  BY DEF Raw, RawResults
<1>2. ASSUME NEW received \in WireReceived
      PROVE  WireRead(received) \in RawResults
  <2>1. CASE received = "ALL"
    <3>1. WireRead(received) = Raw("OK", "COMPLETE", "ALL")
      BY <2>1, Zenon DEF WireRead
    <3> QED BY <1>1, <3>1 DEF Codes, Dispositions, ByteCounts
  <2>2. CASE received = "SOME"
    <3>1. WireRead(received) = Raw("SHORT_TRANSFER", "INDETERMINATE", "SOME")
      BY <2>2, Zenon DEF WireRead
    <3> QED BY <1>1, <3>1 DEF Codes, Dispositions, ByteCounts
  <2>3. CASE received = "NONE"
    <3>1. WireRead(received) = Raw("FAILED", "INDETERMINATE", "NONE")
      BY <2>3, Zenon DEF WireRead
    <3> QED BY <1>1, <3>1 DEF Codes, Dispositions, ByteCounts
  <2> QED BY <1>2, <2>1, <2>2, <2>3 DEF WireReceived
<1>3. ASSUME NEW error \in IdfErrors
      PROVE  IdfTransfer(error, FALSE) \in RawResults
  <2>1. CASE error = "ESP_OK"
    <3>1. IdfTransfer(error, FALSE) = Raw("OK", "COMPLETE", "ALL")
      BY <2>1, Zenon DEF IdfTransfer
    <3> QED BY <1>1, <3>1 DEF Codes, Dispositions, ByteCounts
  <2>2. CASE error = "ESP_ERR_INVALID_RESPONSE"
    <3>1. IdfTransfer(error, FALSE) = Raw("NACK", "NO_EFFECT", "NONE")
      BY <2>2, Zenon DEF IdfTransfer
    <3> QED BY <1>1, <3>1 DEF Codes, Dispositions, ByteCounts
  <2>3. CASE error = "ESP_ERR_TIMEOUT"
    <3>1. IdfTransfer(error, FALSE) = Raw("TIMEOUT", "INDETERMINATE", "NONE")
      BY <2>3, Zenon DEF IdfTransfer
    <3> QED BY <1>1, <3>1 DEF Codes, Dispositions, ByteCounts
  <2>4. CASE error = "OTHER"
    <3>1. IdfTransfer(error, FALSE) = Raw("BUS_ERROR", "INDETERMINATE", "NONE")
      BY <2>4, Zenon DEF IdfTransfer
    <3> QED BY <1>1, <3>1 DEF Codes, Dispositions, ByteCounts
  <2> QED BY <1>3, <2>1, <2>2, <2>3, <2>4 DEF IdfErrors
<1> QED BY <1>2, <1>3
-----------------------------------------------------------------------------
(* The theorems about the answers.  Each step answers anew, so the link    *)
(* between an answer and what the driver makes of it is all the invariant  *)
(* there is.                                                               *)

\* What the driver goes on with is made from an answer, and agrees with what
\* happened on the bus as far as that is known.
Answered ==
  /\ raw \in RawResults /\ effectful \in BOOLEAN
  /\ result = Normalise(raw, effectful)
  /\ \A f \in facts : f \in Facts /\ Honest(raw, f)

LEMMA AnswersAreAnswered ==
  ASSUME NEW answer \in RawResults, NEW e \in BOOLEAN, NEW known,
         \A f \in known : f \in Facts /\ Honest(answer, f),
         Answer(answer, e, known)
  PROVE  Answered'
BY DEF Answer, Answered

LEMMA ReadsAreAnswered ==
  ASSUME NEW answer \in RawResults, Answer(answer, FALSE, {})
  PROVE  Answered'
BY DEF Answer, Answered

LEMMA AnsweredStep ==
  ASSUME Answered, [Foreign \/ WireWrites \/ WireReads \/ IdfWrites \/ IdfReads]_transferVars
  PROVE  Answered'
<1>1. CASE Foreign
  BY <1>1, AnswersAreAnswered DEF Foreign
<1>2. CASE WireWrites
  <2>1. PICK status \in WireStatuses, e \in BOOLEAN :
          \E f \in WireFacts(status) : Answer(WireWrite(status), e, {f})
    BY <1>2 DEF WireWrites
  <2>2. PICK f \in WireFacts(status) : Answer(WireWrite(status), e, {f})
    BY <2>1
  <2> QED BY <2>2, WireIsHonest, AnswersAreAnswered
<1>3. CASE WireReads
  <2>1. PICK received \in WireReceived : Answer(WireRead(received), FALSE, {})
    BY <1>3 DEF WireReads
  <2>2. WireRead(received) \in RawResults
    BY ReadAnswers
  <2> QED BY <2>1, <2>2, ReadsAreAnswered
<1>4. CASE IdfWrites
  <2>1. PICK error \in IdfErrors, e \in BOOLEAN :
          \E f \in IdfFacts(error) : Answer(IdfTransfer(error, TRUE), e, {f})
    BY <1>4 DEF IdfWrites
  <2>2. PICK f \in IdfFacts(error) : Answer(IdfTransfer(error, TRUE), e, {f})
    BY <2>1
  <2> QED BY <2>2, IdfIsHonest, AnswersAreAnswered
<1>5. CASE IdfReads
  <2>1. PICK error \in IdfErrors : Answer(IdfTransfer(error, FALSE), FALSE, {})
    BY <1>5 DEF IdfReads
  <2>2. IdfTransfer(error, FALSE) \in RawResults
    BY ReadAnswers
  <2> QED BY <2>1, <2>2, ReadsAreAnswered
<1>6. CASE UNCHANGED transferVars
  BY <1>6 DEF transferVars, Answered
<1> QED BY <1>1, <1>2, <1>3, <1>4, <1>5, <1>6

\* The driver always goes on with an answer it has gone over, and with one of
\* an adapter that agrees with the bus.
THEOREM AnswersInvariance == Spec => []Answered
<1>1. Init => Answered
  BY DEF Init, Answered
<1>2. Answered /\ [Foreign \/ WireWrites \/ WireReads \/ IdfWrites \/ IdfReads]_transferVars
        => Answered'
  BY AnsweredStep
<1> QED BY <1>1, <1>2, PTL DEF Spec

\* No answer of a callback makes the driver take a transfer for a success that
\* was not reported as one, with every byte and a sane completion time.
THEOREM SuccessIsWhatWasSent == Spec => []SuccessIsExact
<1>1. Answered => SuccessIsExact
  BY NormaliseIsSound DEF Answered, Sound, SuccessIsExact
<1> QED BY <1>1, AnswersInvariance, PTL

\* No stage of the normalisation turns doubt into certainty.
THEOREM NoDoubtIsDropped == Spec => []DoubtIsKept
<1>1. Answered => DoubtIsKept
  <2> SUFFICES ASSUME Answered PROVE DoubtIsKept
    OBVIOUS
  <2>1. Sound(raw, effectful, result) /\ raw \in RawResults
    BY NormaliseIsSound DEF Answered
  <2>2. result.disposition \in {"NOT_STARTED", "NO_EFFECT"} =>
          /\ raw.disposition = result.disposition
          /\ ~ContradictoryBytes(raw, effectful)
    BY <2>1 DEF Sound
  <2>3. raw.bytes \in ByteCounts
    BY <2>1, RawFields
  <2>4. result.disposition = "NOT_STARTED" => raw.bytes = "NONE"
    BY <2>2 DEF ContradictoryBytes
  <2>5. raw.disposition = "INDETERMINATE" => result.disposition = "INDETERMINATE"
    BY <2>1 DEF Sound
  <2> QED BY <2>2, <2>3, <2>4, <2>5 DEF DoubtIsKept, ContradictoryBytes
<1> QED BY <1>1, AnswersInvariance, PTL

\* Neither adapter calls a command without effect that the sensor took, or
\* complete one that it did not take.
THEOREM AdaptersAreHonest == Spec => []AdaptersPromiseNoMore
<1>1. Answered => AdaptersPromiseNoMore
  BY DEF Answered, Honest, AdaptersPromiseNoMore
<1> QED BY <1>1, AnswersInvariance, PTL

\* Through either adapter the driver sees a wake that nobody acknowledged as
\* what it expects, and nothing else as that.
THEOREM NackIsSeen == Spec => []WakeSeesTheNack
<1>1. Answered => WakeSeesTheNack
  BY DEF Answered, Honest, WakeSeesTheNack
<1> QED BY <1>1, AnswersInvariance, PTL
-----------------------------------------------------------------------------
(* Values: what is published, and what is written and read back.           *)

\* A word has sixteen bits.
LEMMA WordRange ==
  ASSUME NEW word
  PROVE  word \in WordValues <=> word \in Nat /\ word <= 65535
<1>1. 2 ^ 16 = 65536
  OBVIOUS
<1> QED BY <1>1 DEF WordValues

\* A share of a full scale is off by half a unit at most.
LEMMA ShareIsNearest ==
  ASSUME NEW fraction \in Nat, NEW fifth \in Nat
  PROVE  Nearest(Share(fraction, fifth), fraction, fifth)
<1> DEFINE q == fraction \div 13107
           r == fraction % 13107
           w == q * fifth
           p == r * fifth
           s == (p + 6553) \div 13107
           t == (p + 6553) % 13107
           error == ((w + s) - w) * 13107 - p
<1>1. q \in Nat /\ r \in Nat
  OBVIOUS
<1>2. w \in Nat /\ p \in Nat
  <2> HIDE DEF q, r
  <2> QED BY <1>1
<1>3. Share(fraction, fifth) = w + s
  BY DEF Share
<1>4. error \in Int /\ -13107 <= 2 * error /\ 2 * error <= 13107
  <2> HIDE DEF w, p
  <2>1. s \in Int /\ t \in Int /\ 0 <= t /\ t <= 13106
    BY <1>2
  <2>2. p + 6553 = 13107 * s + t
    BY <1>2
  <2> HIDE DEF s, t
  <2> QED BY <1>2, <2>1, <2>2
<1>5. w + s \in Nat
  <2> HIDE DEF w, p
  <2> QED BY <1>2
<1>6. ShareError(w + s, fraction, fifth) = error
  <2> HIDE DEF s
  <2> QED BY <1>1, <1>2, <1>5 DEF ShareError
<1> HIDE DEF q, r, w, p, s, t, error
<1>7. ShareError(Share(fraction, fifth), fraction, fifth) = error
  <2> HIDE DEF Share, ShareError
  <2> QED BY <1>3, <1>6, Zenon
<1> QED BY <1>4, <1>7 DEF Nearest

\* An offset that is written, and one that is read, by the parts it is made of.
WrittenOf(milli, q, r, s, t) ==
  /\ 0 <= q /\ 0 <= r /\ r <= 34999 /\ milli = 35000 * q + r
  /\ 0 <= s /\ 0 <= t /\ t <= 34999 /\ 13107 * r + 17500 = 35000 * s + t
  /\ EncodedOffset(milli) = 13107 * q + s
ReadOf(word, q, r, s, t) ==
  /\ 0 <= q /\ 0 <= r /\ r <= 13106 /\ word = 13107 * q + r
  /\ 0 <= s /\ 0 <= t /\ t <= 13106 /\ 35000 * r + 6553 = 13107 * s + t
  /\ DecodedOffset(word) = 35000 * q + s

\* The quotients and remainders that EncodedOffset splits a value into.
LEMMA OffsetWritten ==
  ASSUME NEW milli \in Nat
  PROVE  \E q \in Int, r \in Int, s \in Int, t \in Int : WrittenOf(milli, q, r, s, t)
<1> DEFINE q == milli \div 35000
           r == milli % 35000
           p == r * 13107 + 17500
           s == p \div 35000
           t == p % 35000
<1>1. q \in Int /\ r \in Int /\ 0 <= q /\ 0 <= r /\ r <= 34999
  OBVIOUS
<1>2. milli = 35000 * q + r
  OBVIOUS
<1>3. p \in Nat /\ p = 13107 * r + 17500
  <2> HIDE DEF r
  <2> QED BY <1>1
<1>4. s \in Int /\ t \in Int /\ 0 <= s /\ 0 <= t /\ t <= 34999 /\ p = 35000 * s + t
  <2> HIDE DEF p
  <2>1. p = 35000 * s + t
    BY <1>3
  <2> QED BY <1>3, <2>1
<1>5. EncodedOffset(milli) = 13107 * q + s
  <2>1. EncodedOffset(milli) = q * 13107 + s
    BY DEF EncodedOffset
  <2> HIDE DEF q, s
  <2> QED BY <1>1, <1>4, <2>1
<1> HIDE DEF q, r, p, s, t
<1>6. WrittenOf(milli, q, r, s, t)
  BY <1>1, <1>2, <1>3, <1>4, <1>5 DEF WrittenOf
<1> QED BY <1>1, <1>4, <1>6

\* The same for DecodedOffset and a word.
LEMMA OffsetRead ==
  ASSUME NEW word \in Nat
  PROVE  \E q \in Int, r \in Int, s \in Int, t \in Int : ReadOf(word, q, r, s, t)
<1> DEFINE q == word \div 13107
           r == word % 13107
           p == r * 35000 + 6553
           s == p \div 13107
           t == p % 13107
<1>1. q \in Int /\ r \in Int /\ 0 <= q /\ 0 <= r /\ r <= 13106
  OBVIOUS
<1>2. word = 13107 * q + r
  OBVIOUS
<1>3. p \in Nat /\ p = 35000 * r + 6553
  <2> HIDE DEF r
  <2> QED BY <1>1
<1>4. s \in Int /\ t \in Int /\ 0 <= s /\ 0 <= t /\ t <= 13106 /\ p = 13107 * s + t
  <2> HIDE DEF p
  <2>1. p = 13107 * s + t
    BY <1>3
  <2> QED BY <1>3, <2>1
<1>5. DecodedOffset(word) = 35000 * q + s
  <2>1. DecodedOffset(word) = q * 35000 + s
    BY DEF DecodedOffset, Share
  <2> HIDE DEF q, s
  <2> QED BY <1>1, <1>4, <2>1
<1> HIDE DEF q, r, p, s, t
<1>6. ReadOf(word, q, r, s, t)
  BY <1>1, <1>2, <1>3, <1>4, <1>5 DEF ReadOf
<1> QED BY <1>1, <1>4, <1>6

\* An offset of up to 175 degrees is written as a word, and read back as it
\* was, but for a thousandth of a degree.
LEMMA OffsetReadsBack ==
  ASSUME NEW milli \in Nat, milli <= 175000
  PROVE  /\ EncodedOffset(milli) \in WordValues
         /\ DecodedOffset(EncodedOffset(milli)) - milli \in -1 .. 1
<1>1. PICK q \in Int, r \in Int, s \in Int, t \in Int : WrittenOf(milli, q, r, s, t)
  BY OffsetWritten
<1>2. PICK word \in Nat : word = EncodedOffset(milli) /\ word <= 65535
  BY <1>1 DEF WrittenOf
<1>3. PICK p \in Int, o \in Int, u \in Int, v \in Int : ReadOf(word, p, o, u, v)
  BY OffsetRead
<1>4. (35000 * p + u) - milli \in -1 .. 1
  BY <1>1, <1>2, <1>3 DEF WrittenOf, ReadOf
<1>5. DecodedOffset(word) = 35000 * p + u
  BY <1>3 DEF ReadOf
<1>6. word \in WordValues
  BY <1>2, WordRange
<1> QED BY <1>2, <1>4, <1>5, <1>6

\* Every word that shows an offset is the one that this offset is written as.
LEMMA OffsetIsRewritten ==
  ASSUME NEW word \in WordValues
  PROVE  /\ DecodedOffset(word) \in Nat /\ DecodedOffset(word) <= 175000
         /\ EncodedOffset(DecodedOffset(word)) = word
<1>1. word \in Nat /\ word <= 65535
  BY WordRange
<1>2. PICK p \in Int, o \in Int, u \in Int, v \in Int : ReadOf(word, p, o, u, v)
  BY <1>1, OffsetRead
<1>3. PICK milli \in Nat : milli = DecodedOffset(word) /\ milli <= 175000
  BY <1>1, <1>2 DEF ReadOf
<1>4. PICK q \in Int, r \in Int, s \in Int, t \in Int : WrittenOf(milli, q, r, s, t)
  BY OffsetWritten
<1>5. 13107 * q + s = word
  BY <1>2, <1>3, <1>4 DEF WrittenOf, ReadOf
<1>6. EncodedOffset(milli) = 13107 * q + s
  BY <1>4 DEF WrittenOf
<1> QED BY <1>3, <1>5, <1>6

\* Every setting is admitted, encoded, believed and shown by the case of its
\* field.
OtherFields == Fields \ {"TEMPERATURE_OFFSET", "AMBIENT_PRESSURE"}

\* An admitted value is written as a word that is believed and shows it.
LEMMA AdmittedIsReadBack ==
  ASSUME NEW f \in Fields, NEW value \in Nat, AdmittedValue(f, value),
         NEW word, word = EncodedSetting(f, value)
  PROVE  /\ word \in WordValues /\ ValidWord(f, word)
         /\ DecodedSetting(f, word) - value \in -Resolution(f) .. Resolution(f)
<1>1. CASE f = "TEMPERATURE_OFFSET"
  <2>1. value <= 175000
    BY <1>1, SMT DEF AdmittedValue
  <2>2. word = EncodedOffset(value)
    BY <1>1, SMT DEF EncodedSetting
  <2>3. ValidWord(f, word)
    BY <1>1, SMT DEF ValidWord, PeriodFields
  <2>4. DecodedSetting(f, word) = DecodedOffset(word)
    BY <1>1, SMT DEF DecodedSetting
  <2>5. Resolution(f) = 1
    BY <1>1, SMT DEF Resolution
  <2> QED BY <2>1, <2>2, <2>3, <2>4, <2>5, OffsetReadsBack, SMT
<1>2. CASE f = "AMBIENT_PRESSURE"
  <2>1. 70000 <= value /\ value <= 120000
    BY <1>2, SMT DEF AdmittedValue
  <2>2. word = value \div 100
    BY <1>2, SMT DEF EncodedSetting
  <2>3. word \in Nat /\ 700 <= word /\ word <= 1200
    BY <2>1, <2>2, SMT
  <2>4. ValidWord(f, word)
    BY <1>2, <2>3, SMT DEF ValidWord, PeriodFields
  <2>5. DecodedSetting(f, word) = 100 * word
    BY <1>2, SMT DEF DecodedSetting
  <2>6. Resolution(f) = 99
    BY <1>2, SMT DEF Resolution
  <2>7. 100 * word - value \in -99 .. 99
    BY <2>1, <2>2, SMT
  <2> QED BY <2>3, <2>4, <2>5, <2>6, <2>7, WordRange, SMT
<1>3. CASE f \in OtherFields
  <2>1. word = value
    BY <1>3, SMT DEF EncodedSetting, OtherFields
  <2>2. DecodedSetting(f, word) = word
    BY <1>3, SMT DEF DecodedSetting, OtherFields
  <2>3. Resolution(f) = 0
    BY <1>3, SMT DEF Resolution, OtherFields
  <2>4. ValidWord(f, value) /\ value <= 65535
    BY <1>3, SMT DEF AdmittedValue, ValidWord, MaxAltitude, PeriodFields, OtherFields, Fields
  <2> QED BY <2>1, <2>2, <2>3, <2>4, WordRange, SMT
<1> QED BY <1>1, <1>2, <1>3, SMT DEF OtherFields

\* A believed word shows a value that may be set, and that is written as it.
LEMMA ReadIsRewritten ==
  ASSUME NEW f \in Fields, NEW word \in WordValues, ValidWord(f, word),
         NEW value, value = DecodedSetting(f, word)
  PROVE  AdmittedValue(f, value) /\ EncodedSetting(f, value) = word
<1>0. word \in Nat /\ word <= 65535
  BY WordRange, SMT
<1>1. CASE f = "TEMPERATURE_OFFSET"
  <2>1. value = DecodedOffset(word)
    BY <1>1, SMT DEF DecodedSetting
  <2>2. value \in Nat /\ value <= 175000 /\ EncodedOffset(value) = word
    BY <2>1, OffsetIsRewritten, SMT
  <2>3. AdmittedValue(f, value)
    BY <1>1, <2>2, SMT DEF AdmittedValue, PeriodFields
  <2>4. EncodedSetting(f, value) = EncodedOffset(value)
    BY <1>1, SMT DEF EncodedSetting
  <2> QED BY <2>2, <2>3, <2>4, SMT
<1>2. CASE f = "AMBIENT_PRESSURE"
  <2>1. 700 <= word /\ word <= 1200
    BY <1>2, SMT DEF ValidWord
  <2>2. value = 100 * word
    BY <1>2, SMT DEF DecodedSetting
  <2>3. value \in Nat /\ 70000 <= value /\ value <= 120000 /\ value \div 100 = word
    BY <1>0, <2>1, <2>2, SMT
  <2>4. AdmittedValue(f, value)
    BY <1>2, <2>3, SMT DEF AdmittedValue, PeriodFields
  <2>5. EncodedSetting(f, value) = value \div 100
    BY <1>2, SMT DEF EncodedSetting
  <2> QED BY <2>3, <2>4, <2>5, SMT
<1>3. CASE f \in OtherFields
  <2>1. value = word
    BY <1>3, SMT DEF DecodedSetting, OtherFields
  <2>2. EncodedSetting(f, value) = value
    BY <1>3, SMT DEF EncodedSetting, OtherFields
  <2>3. AdmittedValue(f, word)
    BY <1>0, <1>3, SMT DEF AdmittedValue, ValidWord, MaxAltitude, PeriodFields, OtherFields
  <2> QED BY <2>1, <2>2, <2>3, SMT
<1> QED BY <1>1, <1>2, <1>3, SMT DEF OtherFields
-----------------------------------------------------------------------------
(* The shift register of the checksum.                                     *)

\* A byte is a set of places; eight steps of the register take one in.
ByteSets == SUBSET (0 .. 7)
Eight(x) ==
  CrcShift(CrcShift(CrcShift(CrcShift(CrcShift(CrcShift(CrcShift(CrcShift(x))))))))

\* Differences of bytes are bytes.
LEMMA XorSets ==
  ASSUME NEW p \in ByteSets, NEW q \in ByteSets
  PROVE  /\ Xor(p, q) \in ByteSets /\ Xor(p, q) = Xor(q, p)
         /\ Xor(p, q) = {} <=> p = q
         /\ Xor(p, {}) = p /\ Xor({}, p) = p
BY DEF Xor, ByteSets

\* Place by place, it is the polynomial division's step: every one moves up, and
\* a one that falls out subtracts the polynomial.
LEMMA ShiftPlaces ==
  ASSUME NEW x \in ByteSets
  PROVE  CrcShift(x) = {e \in 0 .. 7 : IF 7 \in x /\ e \in {0, 4, 5} THEN e - 1 \notin x
                                                                  ELSE e - 1 \in x}
<1>1. ShiftedLeft(x) = {e \in 0 .. 7 : e - 1 \in x}
  <2>1. ASSUME NEW e \in ShiftedLeft(x)
        PROVE  e \in 0 .. 7 /\ e - 1 \in x
    <3>1. PICK d \in x \ {7} : e = d + 1
      BY DEF ShiftedLeft
    <3>2. d \in 0 .. 7
      BY DEF ByteSets
    <3>3. e \in 0 .. 7 /\ e - 1 = d
      BY <3>1, <3>2
    <3> QED BY <3>1, <3>3
  <2>2. ASSUME NEW e \in 0 .. 7, e - 1 \in x
        PROVE  e \in ShiftedLeft(x)
    <3>1. e - 1 \in x \ {7} /\ e = (e - 1) + 1
      BY <2>2
    <3> QED BY <3>1, Zenon DEF ShiftedLeft
  <2> QED BY <2>1, <2>2
<1> HIDE DEF ShiftedLeft
<1>2. CASE 7 \in x
  <2>1. CrcShift(x) = Xor(ShiftedLeft(x), CrcPoly)
    BY <1>2 DEF CrcShift
  <2>2. Xor(ShiftedLeft(x), CrcPoly)
          = {e \in 0 .. 7 : IF e \in {0, 4, 5} THEN e - 1 \notin x ELSE e - 1 \in x}
    BY <1>1 DEF Xor, CrcPoly
  <2> QED BY <1>2, <2>1, <2>2
<1>3. CASE 7 \notin x
  BY <1>1, <1>3 DEF CrcShift
<1> QED BY <1>2, <1>3

\* The step keeps the register's eight places.
LEMMA ShiftSets ==
  ASSUME NEW x \in ByteSets
  PROVE  CrcShift(x) \in ByteSets
BY ShiftPlaces DEF ByteSets

\* What it makes of a difference is the difference of what it makes.
LEMMA ShiftIsLinear ==
  ASSUME NEW x \in ByteSets, NEW y \in ByteSets
  PROVE  CrcShift(Xor(x, y)) = Xor(CrcShift(x), CrcShift(y))
<1>1. /\ CrcShift(x) \in ByteSets /\ CrcShift(y) \in ByteSets
      /\ Xor(x, y) \in ByteSets /\ CrcShift(Xor(x, y)) \in ByteSets
      /\ Xor(CrcShift(x), CrcShift(y)) \in ByteSets
  BY XorSets, ShiftSets
<1>2. ASSUME NEW e \in 0 .. 7
      PROVE  e \in CrcShift(Xor(x, y)) <=> e \in Xor(CrcShift(x), CrcShift(y))
  BY <1>1, ShiftPlaces DEF Xor
<1> QED BY <1>1, <1>2 DEF ByteSets

\* It forgets nothing: only an empty register stays empty.
LEMMA ShiftKeepsOnes ==
  ASSUME NEW x \in ByteSets, CrcShift(x) = {}
  PROVE  x = {}
<1>1. 7 \notin x
  <2>1. 0 - 1 \notin x
    BY DEF ByteSets
  <2>2. ASSUME 7 \in x
        PROVE  0 \in CrcShift(x)
    BY <2>1, <2>2, ShiftPlaces
  <2> QED BY <2>2
<1>2. \A e \in 0 .. 7 : e - 1 \notin x
  BY <1>1, ShiftPlaces
<1>3. \A e \in 0 .. 6 : e \notin x
  BY <1>2
<1> QED BY <1>1, <1>3 DEF ByteSets

\* The same of eight steps.
LEMMA EightSets ==
  ASSUME NEW x \in ByteSets
  PROVE  Eight(x) \in ByteSets
BY ShiftSets DEF Eight

LEMMA EightIsLinear ==
  ASSUME NEW x \in ByteSets, NEW y \in ByteSets
  PROVE  Eight(Xor(x, y)) = Xor(Eight(x), Eight(y))
BY ShiftSets, ShiftIsLinear DEF Eight

LEMMA EightKeepsOnes ==
  ASSUME NEW x \in ByteSets, Eight(x) = {}
  PROVE  x = {}
BY ShiftSets, ShiftKeepsOnes DEF Eight

\* The recursion over the bits of a byte is eight steps.
LEMMA ByteIsEightSteps ==
  ASSUME NEW crc, NEW byte
  PROVE  CrcByte(crc, byte) = Eight(Xor(crc, byte))
<1> DEFINE x0 == Xor(crc, byte)
           x1 == CrcShift(x0)
           x2 == CrcShift(x1)
           x3 == CrcShift(x2)
           x4 == CrcShift(x3)
           x5 == CrcShift(x4)
           x6 == CrcShift(x5)
           x7 == CrcShift(x6)
           x8 == CrcShift(x7)
           F(f) == [bit \in 0 .. 8 |-> IF bit = 0 THEN x0 ELSE CrcShift(f[bit - 1])]
           h == [bit \in 0 .. 8 |-> IF bit = 0 THEN x0 ELSE IF bit = 1 THEN x1
                  ELSE IF bit = 2 THEN x2 ELSE IF bit = 3 THEN x3 ELSE IF bit = 4 THEN x4
                  ELSE IF bit = 5 THEN x5 ELSE IF bit = 6 THEN x6 ELSE IF bit = 7 THEN x7
                  ELSE x8]
           after == CHOOSE f : f = F(f)
<1>1. CrcByte(crc, byte) = after[8]
  BY DEF CrcByte
<1>2. h = F(h)
  <2>1. /\ x1 = CrcShift(x0) /\ x2 = CrcShift(x1) /\ x3 = CrcShift(x2) /\ x4 = CrcShift(x3)
        /\ x5 = CrcShift(x4) /\ x6 = CrcShift(x5) /\ x7 = CrcShift(x6) /\ x8 = CrcShift(x7)
    OBVIOUS
  <2> HIDE DEF x0, x1, x2, x3, x4, x5, x6, x7, x8
  <2> QED BY <2>1
<1>3. after = F(after)
  <2> HIDE DEF F, h
  <2> QED BY <1>2
<1>4. after[0] = x0 /\ \A bit \in 1 .. 8 : after[bit] = CrcShift(after[bit - 1])
  <2> HIDE DEF x0, after
  <2> QED BY <1>3
<1>5. after[8] = Eight(after[0])
  <2> HIDE DEF after, x0
  <2> QED BY <1>4 DEF Eight
<1> QED BY <1>1, <1>4, <1>5
-----------------------------------------------------------------------------
(* What single bits leave in the register.                                 *)

\* The number of a byte, as a sum.
Sum8(x) ==
  (IF 0 \in x THEN 1 ELSE 0) + (IF 1 \in x THEN 2 ELSE 0) + (IF 2 \in x THEN 4 ELSE 0)
    + (IF 3 \in x THEN 8 ELSE 0) + (IF 4 \in x THEN 16 ELSE 0) + (IF 5 \in x THEN 32 ELSE 0)
    + (IF 6 \in x THEN 64 ELSE 0) + (IF 7 \in x THEN 128 ELSE 0)

\* What is left in the register of a single one, 0 .. 23 places before the end.
Echoes ==
  <<{0}, {1}, {2},
    {3}, {4}, {5},
    {6}, {7}, {0, 4, 5},
    {1, 5, 6}, {2, 6, 7}, {0, 3, 4, 5, 7},
    {0, 1, 6}, {1, 2, 7}, {0, 2, 3, 4, 5},
    {1, 3, 4, 5, 6}, {2, 4, 5, 6, 7}, {0, 3, 4, 6, 7},
    {0, 1, 7}, {0, 1, 2, 4, 5}, {1, 2, 3, 5, 6},
    {2, 3, 4, 6, 7}, {0, 3, 7}, {0, 1, 5}>>
EchoNumbers ==
  <<1, 2, 4, 8, 16, 32, 64, 128, 49, 98, 196, 185,
    67, 134, 61, 122, 244, 217, 131, 55, 110, 220, 137, 35>>
Echo(n) == Echoes[n + 1]

\* The table holds bytes.
LEMMA EchoSets ==
  ASSUME NEW n \in 0 .. 23
  PROVE  Echo(n) \in ByteSets
BY DEF Echo, Echoes, ByteSets

\* A one in the last byte is left where it is.
LEMMA EchoesOfAByte ==
  ASSUME NEW n \in 0 .. 7
  PROVE  Echo(n) = {n}
BY DEF Echo, Echoes

\* Each entry is one step of the register after the one before.
LEMMA EchoesFollow ==
  ASSUME NEW n \in 0 .. 22
  PROVE  Echo(n + 1) = CrcShift(Echo(n))
<1>0. Echo(1) = CrcShift(Echo(0))
  BY EchoSets, ShiftPlaces DEF Echo, Echoes
<1>1. Echo(2) = CrcShift(Echo(1))
  BY EchoSets, ShiftPlaces DEF Echo, Echoes
<1>2. Echo(3) = CrcShift(Echo(2))
  BY EchoSets, ShiftPlaces DEF Echo, Echoes
<1>3. Echo(4) = CrcShift(Echo(3))
  BY EchoSets, ShiftPlaces DEF Echo, Echoes
<1>4. Echo(5) = CrcShift(Echo(4))
  BY EchoSets, ShiftPlaces DEF Echo, Echoes
<1>5. Echo(6) = CrcShift(Echo(5))
  BY EchoSets, ShiftPlaces DEF Echo, Echoes
<1>6. Echo(7) = CrcShift(Echo(6))
  BY EchoSets, ShiftPlaces DEF Echo, Echoes
<1>7. Echo(8) = CrcShift(Echo(7))
  BY EchoSets, ShiftPlaces DEF Echo, Echoes
<1>8. Echo(9) = CrcShift(Echo(8))
  BY EchoSets, ShiftPlaces DEF Echo, Echoes
<1>9. Echo(10) = CrcShift(Echo(9))
  BY EchoSets, ShiftPlaces DEF Echo, Echoes
<1>10. Echo(11) = CrcShift(Echo(10))
  BY EchoSets, ShiftPlaces DEF Echo, Echoes
<1>11. Echo(12) = CrcShift(Echo(11))
  BY EchoSets, ShiftPlaces DEF Echo, Echoes
<1>12. Echo(13) = CrcShift(Echo(12))
  BY EchoSets, ShiftPlaces DEF Echo, Echoes
<1>13. Echo(14) = CrcShift(Echo(13))
  BY EchoSets, ShiftPlaces DEF Echo, Echoes
<1>14. Echo(15) = CrcShift(Echo(14))
  BY EchoSets, ShiftPlaces DEF Echo, Echoes
<1>15. Echo(16) = CrcShift(Echo(15))
  BY EchoSets, ShiftPlaces DEF Echo, Echoes
<1>16. Echo(17) = CrcShift(Echo(16))
  BY EchoSets, ShiftPlaces DEF Echo, Echoes
<1>17. Echo(18) = CrcShift(Echo(17))
  BY EchoSets, ShiftPlaces DEF Echo, Echoes
<1>18. Echo(19) = CrcShift(Echo(18))
  BY EchoSets, ShiftPlaces DEF Echo, Echoes
<1>19. Echo(20) = CrcShift(Echo(19))
  BY EchoSets, ShiftPlaces DEF Echo, Echoes
<1>20. Echo(21) = CrcShift(Echo(20))
  BY EchoSets, ShiftPlaces DEF Echo, Echoes
<1>21. Echo(22) = CrcShift(Echo(21))
  BY EchoSets, ShiftPlaces DEF Echo, Echoes
<1>22. Echo(23) = CrcShift(Echo(22))
  BY EchoSets, ShiftPlaces DEF Echo, Echoes
<1> QED BY <1>0, <1>1, <1>2, <1>3, <1>4, <1>5, <1>6, <1>7, <1>8, <1>9, <1>10, <1>11, <1>12, <1>13,
           <1>14, <1>15, <1>16, <1>17, <1>18, <1>19, <1>20, <1>21, <1>22

\* Eight entries on, eight steps on.
LEMMA EchoesOfBytes ==
  ASSUME NEW n \in 0 .. 15
  PROVE  Echo(n + 8) = Eight(Echo(n))
<1>1. /\ Echo(n + 1) = CrcShift(Echo(n))
      /\ Echo(n + 2) = CrcShift(Echo(n + 1))
      /\ Echo(n + 3) = CrcShift(Echo(n + 2))
      /\ Echo(n + 4) = CrcShift(Echo(n + 3))
      /\ Echo(n + 5) = CrcShift(Echo(n + 4))
      /\ Echo(n + 6) = CrcShift(Echo(n + 5))
      /\ Echo(n + 7) = CrcShift(Echo(n + 6))
      /\ Echo(n + 8) = CrcShift(Echo(n + 7))
  <2>1. \A i \in 0 .. 7 : (n + i) \in 0 .. 22 /\ (n + i) + 1 = n + (i + 1)
    OBVIOUS
  <2>2. \A i \in 0 .. 7 : Echo(n + (i + 1)) = CrcShift(Echo(n + i))
    BY <2>1, EchoesFollow
  <2> QED BY <2>2
<1> QED BY <1>1 DEF Eight

\* The entries as numbers, to tell them apart.
LEMMA EchoesAdded ==
  ASSUME NEW n \in 0 .. 23
  PROVE  Sum8(Echo(n)) = EchoNumbers[n + 1]
BY DEF Sum8, Echo, Echoes, EchoNumbers

\* No two bits of a frame leave the same in the register.
LEMMA EchoesDiffer ==
  ASSUME NEW a \in 0 .. 23, NEW b \in 0 .. 23, Echo(a) = Echo(b)
  PROVE  a = b
<1>1. EchoNumbers[a + 1] = EchoNumbers[b + 1]
  BY EchoesAdded
<1> QED BY <1>1 DEF EchoNumbers
-----------------------------------------------------------------------------
(* Damage: the register is linear, so what is left depends on the damage   *)
(* alone.                                                                  *)

\* The damage that falls on one of the three bytes, and what the whole damage
\* leaves in the register.
PartOf(bits, i) == {b - 8 * (3 - i) : b \in bits \cap (8 * (3 - i) .. 8 * (3 - i) + 7)}
Syndrome(bits) ==
  Xor(Eight(Xor(Eight(PartOf(bits, 1)), PartOf(bits, 2))), PartOf(bits, 3))

\* Differences can be taken in any order.
LEMMA XorRegroups ==
  ASSUME NEW a \in ByteSets, NEW b \in ByteSets, NEW c \in ByteSets, NEW d \in ByteSets
  PROVE  /\ Xor(Xor(a, b), Xor(c, d)) = Xor(Xor(a, c), Xor(b, d))
         /\ Xor(a, Xor(b, c)) = Xor(Xor(a, b), c)
BY DEF Xor, ByteSets

LEMMA XorCancels ==
  ASSUME NEW a \in ByteSets, NEW b \in ByteSets, NEW c \in ByteSets, Xor(a, b) = Xor(a, c)
  PROVE  b = c
BY DEF Xor, ByteSets

\* The damage of a byte, place by place.
LEMMA PartMembers ==
  ASSUME NEW bits \in SUBSET (0 .. 23)
  PROVE  /\ PartOf(bits, 1) = {e \in 0 .. 7 : e + 16 \in bits}
         /\ PartOf(bits, 2) = {e \in 0 .. 7 : e + 8 \in bits}
         /\ PartOf(bits, 3) = {e \in 0 .. 7 : e \in bits}
         /\ \A i \in 1 .. 3 : PartOf(bits, i) \in ByteSets
<1>1. PartOf(bits, 1) = {e \in 0 .. 7 : e + 16 \in bits}
  <2>1. PartOf(bits, 1) = {b - 16 : b \in bits \cap (16 .. 23)}
    BY DEF PartOf
  <2> QED BY <2>1
<1>2. PartOf(bits, 2) = {e \in 0 .. 7 : e + 8 \in bits}
  <2>1. PartOf(bits, 2) = {b - 8 : b \in bits \cap (8 .. 15)}
    BY DEF PartOf
  <2> QED BY <2>1
<1>3. PartOf(bits, 3) = {e \in 0 .. 7 : e \in bits}
  <2>1. PartOf(bits, 3) = {b - 0 : b \in bits \cap (0 .. 7)}
    BY DEF PartOf
  <2> QED BY <2>1
<1>4. \A i \in 1 .. 3 : PartOf(bits, i) \in ByteSets
  <2> TAKE i \in 1 .. 3
  <2>1. i = 1 \/ i = 2 \/ i = 3
    OBVIOUS
  <2> QED BY <1>1, <1>2, <1>3, <2>1 DEF ByteSets
<1> QED BY <1>1, <1>2, <1>3, <1>4

\* The checksum is eight steps per byte.
LEMMA CrcOfFrame ==
  ASSUME NEW f
  PROVE  Crc8(f) = Eight(Xor(Eight(Xor(CrcInit, f[1])), f[2]))
BY ByteIsEightSteps DEF Crc8

\* A damage that is accepted leaves nothing in the register, whatever the word.
LEMMA AcceptedDamage ==
  ASSUME NEW f, f[1] \in ByteSets, f[2] \in ByteSets, f[3] \in ByteSets,
         AcceptsFrame(f), NEW bits \in SUBSET (0 .. 23), AcceptsFrame(Flipped(f, bits))
  PROVE  Syndrome(bits) = {}
<1> DEFINE d1 == PartOf(bits, 1)
           d2 == PartOf(bits, 2)
           d3 == PartOf(bits, 3)
           g == Flipped(f, bits)
           start == Xor(CrcInit, f[1])
           mid == Xor(Eight(start), f[2])
           shift == Xor(Eight(d1), d2)
<1>1. g[1] = Xor(f[1], d1) /\ g[2] = Xor(f[2], d2) /\ g[3] = Xor(f[3], d3)
  BY DEF Flipped, PartOf
<1>2. d1 \in ByteSets /\ d2 \in ByteSets /\ d3 \in ByteSets
  BY PartMembers
<1>3. CrcInit \in ByteSets
  BY DEF CrcInit, ByteSets
<1>4. start \in ByteSets /\ Eight(start) \in ByteSets /\ Eight(d1) \in ByteSets
  BY <1>2, <1>3, XorSets, EightSets
<1>5. mid \in ByteSets /\ shift \in ByteSets
  BY <1>2, <1>4, XorSets
<1>6. Eight(mid) \in ByteSets /\ Eight(shift) \in ByteSets
  BY <1>5, EightSets
<1>7. Eight(mid) = f[3]
  BY CrcOfFrame DEF AcceptsFrame
<1>8. Crc8(g) = Xor(f[3], d3)
  BY <1>1 DEF AcceptsFrame
<1>9. Crc8(g) = Xor(Eight(mid), Eight(shift))
  <2>1. Crc8(g) = Eight(Xor(Eight(Xor(CrcInit, g[1])), g[2]))
    BY CrcOfFrame
  <2> HIDE DEF g, d1, d2, d3
  <2>2. Xor(CrcInit, g[1]) = Xor(start, d1)
    BY <1>1, <1>2, <1>3, XorRegroups
  <2> HIDE DEF start
  <2>3. Eight(Xor(start, d1)) = Xor(Eight(start), Eight(d1))
    BY <1>2, <1>4, EightIsLinear
  <2>4. Xor(Eight(Xor(CrcInit, g[1])), g[2]) = Xor(mid, shift)
    BY <1>1, <1>2, <1>4, <2>2, <2>3, XorRegroups, SMTT(60)
  <2> HIDE DEF mid, shift
  <2> QED BY <1>5, <2>1, <2>4, EightIsLinear
<1> HIDE DEF g, mid, start, d1, d2, d3
<1>10. Eight(shift) = d3
  <2> HIDE DEF shift
  <2> QED BY <1>2, <1>6, <1>7, <1>8, <1>9, XorCancels
<1>11. Xor(Eight(shift), d3) = {}
  <2> HIDE DEF shift
  <2> QED BY <1>2, <1>6, <1>10, XorSets
<1> QED BY <1>11 DEF Syndrome, d1, d2, d3

\* One wrong bit leaves its echo, and two leave two that differ.
LEMMA SyndromeOfOne ==
  ASSUME NEW a \in 0 .. 23
  PROVE  Syndrome({a}) = Echo(a)
<1>0. {a} \in SUBSET (0 .. 23)
  OBVIOUS
<1>1. {} \in ByteSets /\ Eight({}) = {}
  <2>1. {} \in ByteSets /\ CrcShift({}) = {}
    BY DEF CrcShift, ShiftedLeft, ByteSets
  <2> QED BY <2>1 DEF Eight
<1>2. CASE a \in 0 .. 7
  <2>1. PartOf({a}, 1) = {} /\ PartOf({a}, 2) = {} /\ PartOf({a}, 3) = {a}
    BY <1>0, <1>2, PartMembers
  <2>2. Echo(a) = {a} /\ Echo(a) \in ByteSets
    BY <1>2, EchoesOfAByte, EchoSets
  <2>3. Xor({}, {}) = {} /\ Xor({}, {a}) = {a}
    BY <1>1, <2>2, XorSets
  <2> QED BY <1>1, <2>1, <2>2, <2>3 DEF Syndrome
<1>3. CASE a \in 8 .. 15
  <2>0. a - 8 \in 0 .. 7 /\ a - 8 \in 0 .. 15 /\ (a - 8) + 8 = a
    BY <1>3
  <2>1. PartOf({a}, 1) = {} /\ PartOf({a}, 2) = {a - 8} /\ PartOf({a}, 3) = {}
    BY <1>0, <1>3, PartMembers
  <2>2. Echo(a - 8) = {a - 8} /\ Echo(a) = Eight(Echo(a - 8))
    BY <2>0, EchoesOfAByte, EchoesOfBytes
  <2>3. {a - 8} \in ByteSets /\ Eight({a - 8}) \in ByteSets
    BY <2>0, EightSets DEF ByteSets
  <2>4. Xor({}, {a - 8}) = {a - 8} /\ Xor(Eight({a - 8}), {}) = Eight({a - 8})
    BY <1>1, <2>3, XorSets
  <2> QED BY <1>1, <2>1, <2>2, <2>4 DEF Syndrome
<1>4. CASE a \in 16 .. 23
  <2>0. /\ a - 16 \in 0 .. 7 /\ a - 16 \in 0 .. 15 /\ a - 8 \in 0 .. 15
        /\ (a - 16) + 8 = a - 8 /\ (a - 8) + 8 = a
    BY <1>4
  <2>1. PartOf({a}, 1) = {a - 16} /\ PartOf({a}, 2) = {} /\ PartOf({a}, 3) = {}
    BY <1>0, <1>4, PartMembers
  <2>2. Echo(a - 16) = {a - 16} /\ Echo(a - 8) = Eight(Echo(a - 16))
    BY <2>0, EchoesOfAByte, EchoesOfBytes
  <2>3. Echo(a) = Eight(Echo(a - 8))
    BY <2>0, EchoesOfBytes
  <2>4. {a - 16} \in ByteSets /\ Eight({a - 16}) \in ByteSets
    BY <2>0, EightSets DEF ByteSets
  <2>5. Eight(Eight({a - 16})) \in ByteSets
    BY <2>4, EightSets
  <2>6. /\ Xor(Eight({a - 16}), {}) = Eight({a - 16})
        /\ Xor(Eight(Eight({a - 16})), {}) = Eight(Eight({a - 16}))
    BY <1>1, <2>4, <2>5, XorSets
  <2> QED BY <2>1, <2>2, <2>3, <2>6 DEF Syndrome
<1> QED BY <1>2, <1>3, <1>4

\* What two damages leave together is the difference of what each leaves.
LEMMA SyndromeIsLinear ==
  ASSUME NEW p \in SUBSET (0 .. 23), NEW q \in SUBSET (0 .. 23)
  PROVE  /\ Xor(p, q) \in SUBSET (0 .. 23)
         /\ Syndrome(Xor(p, q)) = Xor(Syndrome(p), Syndrome(q))
<1>1. Xor(p, q) \in SUBSET (0 .. 23)
  BY DEF Xor
<1> DEFINE p1 == PartOf(p, 1)
           p2 == PartOf(p, 2)
           p3 == PartOf(p, 3)
           q1 == PartOf(q, 1)
           q2 == PartOf(q, 2)
           q3 == PartOf(q, 3)
<1>2. /\ p1 \in ByteSets /\ p2 \in ByteSets /\ p3 \in ByteSets
      /\ q1 \in ByteSets /\ q2 \in ByteSets /\ q3 \in ByteSets
  BY PartMembers
<1>3. /\ PartOf(Xor(p, q), 1) = Xor(p1, q1)
      /\ PartOf(Xor(p, q), 2) = Xor(p2, q2)
      /\ PartOf(Xor(p, q), 3) = Xor(p3, q3)
  BY DEF PartOf, Xor
<1> HIDE DEF p1, p2, p3, q1, q2, q3
<1>4. Eight(p1) \in ByteSets /\ Eight(q1) \in ByteSets
  BY <1>2, EightSets
<1>5. Eight(Xor(p1, q1)) = Xor(Eight(p1), Eight(q1))
  BY <1>2, EightIsLinear
<1> DEFINE x == Xor(Eight(p1), p2)
           y == Xor(Eight(q1), q2)
<1>6. x \in ByteSets /\ y \in ByteSets
  BY <1>2, <1>4, XorSets
<1>7. Xor(Xor(Eight(p1), Eight(q1)), Xor(p2, q2)) = Xor(x, y)
  BY <1>2, <1>4, XorRegroups
<1> HIDE DEF x, y
<1>8. Eight(x) \in ByteSets /\ Eight(y) \in ByteSets /\ Eight(Xor(x, y)) = Xor(Eight(x), Eight(y))
  BY <1>6, EightSets, EightIsLinear
<1>9. Syndrome(p) = Xor(Eight(x), p3) /\ Syndrome(q) = Xor(Eight(y), q3)
  BY DEF Syndrome, x, y, p1, p2, p3, q1, q2, q3
<1>10. Syndrome(Xor(p, q)) = Xor(Xor(Eight(x), Eight(y)), Xor(p3, q3))
  BY <1>3, <1>5, <1>7, <1>8 DEF Syndrome
<1>11. Xor(Xor(Eight(x), Eight(y)), Xor(p3, q3)) = Xor(Xor(Eight(x), p3), Xor(Eight(y), q3))
  BY <1>2, <1>8, XorRegroups
<1>12. Syndrome(Xor(p, q)) = Xor(Syndrome(p), Syndrome(q))
  BY <1>9, <1>10, <1>11, Zenon
<1> QED BY <1>1, <1>12

\* One or two damaged bits leave something.
LEMMA PairsLeaveOnes ==
  ASSUME NEW bits \in Pairs
  PROVE  bits \in SUBSET (0 .. 23) /\ Syndrome(bits) # {}
<1>1. PICK a \in 0 .. 23, b \in 0 .. 23 : bits = {a, b}
  BY SMTT(60) DEF Pairs, FrameBits
<1>2. bits \in SUBSET (0 .. 23)
  BY <1>1
<1>3. Echo(a) \in ByteSets /\ Echo(b) \in ByteSets
  BY EchoSets
<1>4. CASE a = b
  <2>1. Syndrome(bits) = Echo(a)
    BY <1>1, <1>4, SyndromeOfOne
  <2>2. Echo(a) # {}
    BY DEF Echo, Echoes
  <2> QED BY <1>2, <2>1, <2>2
<1>5. CASE a # b
  <2>1. bits = Xor({a}, {b}) /\ {a} \in SUBSET (0 .. 23) /\ {b} \in SUBSET (0 .. 23)
    BY <1>1, <1>5 DEF Xor
  <2>2. Syndrome(bits) = Xor(Echo(a), Echo(b))
    BY <2>1, SyndromeOfOne, SyndromeIsLinear
  <2>3. Echo(a) # Echo(b)
    BY <1>5, EchoesDiffer
  <2> QED BY <1>2, <1>3, <2>2, <2>3, XorSets
<1> QED BY <1>4, <1>5

\* A burst.  The upper part of it, in the byte that comes first, goes up eight
\* places at most and out at the top before anything could meet the lower part.
LEMMA ShiftGoesUp ==
  ASSUME NEW x \in ByteSets, NEW k \in 0 .. 6, \A e \in x : e <= k
  PROVE  (\A e \in CrcShift(x) : e <= k + 1) /\ 0 \notin CrcShift(x)
BY DEF CrcShift, ShiftedLeft, ByteSets

\* If what a step leaves starts at k, nothing fell out: it came from k - 1.
LEMMA ShiftCameFrom ==
  ASSUME NEW x \in ByteSets, NEW k \in 1 .. 7,
         \A e \in CrcShift(x) : k <= e, k \in CrcShift(x)
  PROVE  (\A e \in x : k - 1 <= e) /\ k - 1 \in x
<1>1. 7 \notin x
  <2>1. 0 \notin CrcShift(x)
    OBVIOUS
  <2>2. 0 - 1 \notin x
    BY DEF ByteSets
  <2> QED BY <2>1, <2>2, ShiftPlaces
<1>2. CrcShift(x) = {e + 1 : e \in x}
  BY <1>1 DEF CrcShift, ShiftedLeft
<1>3. \A e \in x : e \in Int /\ e + 1 \in CrcShift(x)
  BY <1>2 DEF ByteSets
<1>4. PICK e \in x : k = e + 1
  BY <1>2
<1> QED BY <1>3, <1>4

\* The lowest bit of the lower part is at j, the upper part below j.
Below(x, k) == \A e \in x : e <= k
From(x, k) == (\A e \in x : k <= e) /\ k \in x

\* The upper part of a burst, after eight steps, is not its lower part: taking
\* the steps back, the ones would have to come from below the register.
LEMMA BurstMeetsNothing ==
  ASSUME NEW j \in 1 .. 7, NEW x \in ByteSets, Below(x, j - 1), From(Eight(x), j)
  PROVE  FALSE
<1> DEFINE x1 == CrcShift(x)
           x2 == CrcShift(x1)
           x3 == CrcShift(x2)
           x4 == CrcShift(x3)
           x5 == CrcShift(x4)
           x6 == CrcShift(x5)
           x7 == CrcShift(x6)
           x8 == CrcShift(x7)
<1>0. /\ x1 = CrcShift(x) /\ x2 = CrcShift(x1) /\ x3 = CrcShift(x2) /\ x4 = CrcShift(x3)
      /\ x5 = CrcShift(x4) /\ x6 = CrcShift(x5) /\ x7 = CrcShift(x6) /\ x8 = CrcShift(x7)
      /\ x8 = Eight(x)
  BY DEF Eight
<1> HIDE DEF x1, x2, x3, x4, x5, x6, x7, x8
<1>1. /\ x1 \in ByteSets /\ x2 \in ByteSets /\ x3 \in ByteSets /\ x4 \in ByteSets
      /\ x5 \in ByteSets /\ x6 \in ByteSets /\ x7 \in ByteSets /\ x8 \in ByteSets
  BY <1>0, ShiftSets
<1>2. \A y \in ByteSets, k \in 0 .. 6 :
        Below(y, k) => Below(CrcShift(y), k + 1) /\ 0 \notin CrcShift(y)
  BY ShiftGoesUp DEF Below
<1>3. \A y \in ByteSets, k \in 1 .. 7 : From(CrcShift(y), k) => From(y, k - 1)
  BY ShiftCameFrom DEF From
<1>4. j <= 7 => Below(x1, j - 1 + 1) /\ 0 \notin x1
  <2>1. j <= 7 => j - 1 + 0 \in 0 .. 6 /\ (j - 1 + 0) + 1 = j - 1 + 1
    OBVIOUS
  <2> QED BY <1>0, <1>1, <1>2, <2>1
<1>5. j <= 6 => Below(x2, j - 1 + 2) /\ 0 \notin x2
  <2>1. j <= 6 => j - 1 + 1 \in 0 .. 6 /\ (j - 1 + 1) + 1 = j - 1 + 2
    OBVIOUS
  <2> QED BY <1>0, <1>1, <1>2, <2>1, <1>4
<1>6. j <= 5 => Below(x3, j - 1 + 3) /\ 0 \notin x3
  <2>1. j <= 5 => j - 1 + 2 \in 0 .. 6 /\ (j - 1 + 2) + 1 = j - 1 + 3
    OBVIOUS
  <2> QED BY <1>0, <1>1, <1>2, <2>1, <1>5
<1>7. j <= 4 => Below(x4, j - 1 + 4) /\ 0 \notin x4
  <2>1. j <= 4 => j - 1 + 3 \in 0 .. 6 /\ (j - 1 + 3) + 1 = j - 1 + 4
    OBVIOUS
  <2> QED BY <1>0, <1>1, <1>2, <2>1, <1>6
<1>8. j <= 3 => Below(x5, j - 1 + 5) /\ 0 \notin x5
  <2>1. j <= 3 => j - 1 + 4 \in 0 .. 6 /\ (j - 1 + 4) + 1 = j - 1 + 5
    OBVIOUS
  <2> QED BY <1>0, <1>1, <1>2, <2>1, <1>7
<1>9. j <= 2 => Below(x6, j - 1 + 6) /\ 0 \notin x6
  <2>1. j <= 2 => j - 1 + 5 \in 0 .. 6 /\ (j - 1 + 5) + 1 = j - 1 + 6
    OBVIOUS
  <2> QED BY <1>0, <1>1, <1>2, <2>1, <1>8
<1>10. j <= 1 => Below(x7, j - 1 + 7) /\ 0 \notin x7
  <2>1. j <= 1 => j - 1 + 6 \in 0 .. 6 /\ (j - 1 + 6) + 1 = j - 1 + 7
    OBVIOUS
  <2> QED BY <1>0, <1>1, <1>2, <2>1, <1>9
<1>11. 1 <= j => From(x7, j - 1)
  <2>1. 1 <= j => j - 0 \in 1 .. 7 /\ (j - 0) - 1 = j - 1
    OBVIOUS
  <2> QED BY <1>0, <1>1, <1>3, <2>1
<1>12. 2 <= j => From(x6, j - 2)
  <2>1. 2 <= j => j - 1 \in 1 .. 7 /\ (j - 1) - 1 = j - 2
    OBVIOUS
  <2> QED BY <1>0, <1>1, <1>3, <2>1, <1>11
<1>13. 3 <= j => From(x5, j - 3)
  <2>1. 3 <= j => j - 2 \in 1 .. 7 /\ (j - 2) - 1 = j - 3
    OBVIOUS
  <2> QED BY <1>0, <1>1, <1>3, <2>1, <1>12
<1>14. 4 <= j => From(x4, j - 4)
  <2>1. 4 <= j => j - 3 \in 1 .. 7 /\ (j - 3) - 1 = j - 4
    OBVIOUS
  <2> QED BY <1>0, <1>1, <1>3, <2>1, <1>13
<1>15. 5 <= j => From(x3, j - 5)
  <2>1. 5 <= j => j - 4 \in 1 .. 7 /\ (j - 4) - 1 = j - 5
    OBVIOUS
  <2> QED BY <1>0, <1>1, <1>3, <2>1, <1>14
<1>16. 6 <= j => From(x2, j - 6)
  <2>1. 6 <= j => j - 5 \in 1 .. 7 /\ (j - 5) - 1 = j - 6
    OBVIOUS
  <2> QED BY <1>0, <1>1, <1>3, <2>1, <1>15
<1>17. 7 <= j => From(x1, j - 7)
  <2>1. 7 <= j => j - 6 \in 1 .. 7 /\ (j - 6) - 1 = j - 7
    OBVIOUS
  <2> QED BY <1>0, <1>1, <1>3, <2>1, <1>16
<1>18. \A y, k : k = 0 /\ From(y, k) => 0 \in y
  BY DEF From
<1>19. CASE j = 1
  BY <1>19, <1>11, <1>10, <1>18
<1>20. CASE j = 2
  BY <1>20, <1>12, <1>9, <1>18
<1>21. CASE j = 3
  BY <1>21, <1>13, <1>8, <1>18
<1>22. CASE j = 4
  BY <1>22, <1>14, <1>7, <1>18
<1>23. CASE j = 5
  BY <1>23, <1>15, <1>6, <1>18
<1>24. CASE j = 6
  BY <1>24, <1>16, <1>5, <1>18
<1>25. CASE j = 7
  BY <1>25, <1>17, <1>4, <1>18
<1> QED BY <1>19, <1>20, <1>21, <1>22, <1>23, <1>24, <1>25

\* The same, with the case that the upper part is empty.
LEMMA PartsDiffer ==
  ASSUME NEW j \in 0 .. 7, NEW p \in ByteSets, NEW q \in ByteSets, Below(p, j - 1), From(q, j)
  PROVE  Eight(p) # q
<1>1. CASE j = 0
  <2>1. p = {} /\ q # {}
    BY <1>1 DEF Below, From, ByteSets
  <2>2. CrcShift({}) = {}
    BY DEF CrcShift, ShiftedLeft
  <2> QED BY <2>1, <2>2 DEF Eight
<1>2. CASE j \in 1 .. 7
  BY <1>2, BurstMeetsNothing
<1> QED BY <1>1, <1>2

\* A burst of at most eight bits leaves something: it lies in two bytes.
LEMMA BurstsLeaveOnes ==
  ASSUME NEW bits \in Bursts
  PROVE  bits \in SUBSET (0 .. 23) /\ Syndrome(bits) # {}
<1>1. PICK first \in 0 .. 23 :
        \E rest \in SUBSET (first + 1 .. BurstEnd(first)) : bits = {first} \cup rest
  BY DEF Bursts, FrameBits
<1>2. \A b \in bits : b \in 0 .. 23 /\ first <= b /\ b <= first + 7
  BY <1>1 DEF BurstEnd
<1>3. bits \in SUBSET (0 .. 23) /\ first \in bits
  BY <1>1, <1>2
<1> DEFINE p1 == PartOf(bits, 1)
           p2 == PartOf(bits, 2)
           p3 == PartOf(bits, 3)
<1>4. /\ p1 = {e \in 0 .. 7 : e + 16 \in bits}
      /\ p2 = {e \in 0 .. 7 : e + 8 \in bits}
      /\ p3 = {e \in 0 .. 7 : e \in bits}
      /\ p1 \in ByteSets /\ p2 \in ByteSets /\ p3 \in ByteSets
  BY <1>3, PartMembers
<1>5. Syndrome(bits) = Xor(Eight(Xor(Eight(p1), p2)), p3)
  BY DEF Syndrome
<1> HIDE DEF p1, p2, p3
<1>6. {} \in ByteSets /\ Eight({}) = {}
  <2>1. CrcShift({}) = {}
    BY DEF CrcShift, ShiftedLeft
  <2> QED BY <2>1 DEF Eight, ByteSets
<1>7. CASE first \in 16 .. 23
  <2>1. p2 = {} /\ p3 = {}
    BY <1>2, <1>4, <1>7
  <2>2. first - 16 \in p1
    BY <1>3, <1>4, <1>7
  <2>3. Eight(p1) \in ByteSets /\ Eight(p1) # {}
    BY <1>4, <2>2, EightSets, EightKeepsOnes
  <2>4. Eight(Eight(p1)) \in ByteSets /\ Eight(Eight(p1)) # {}
    BY <2>3, EightSets, EightKeepsOnes
  <2>5. Xor(Eight(p1), {}) = Eight(p1) /\ Xor(Eight(Eight(p1)), {}) = Eight(Eight(p1))
    BY <2>3, <2>4, XorSets
  <2> QED BY <1>3, <1>5, <2>1, <2>4, <2>5
<1>8. CASE first \in 8 .. 15
  <2>1. p3 = {}
    BY <1>2, <1>4, <1>8
  <2>2. Below(p1, (first - 8) - 1)
    BY <1>2, <1>4, <1>8 DEF Below
  <2>3. From(p2, first - 8)
    BY <1>2, <1>3, <1>4, <1>8 DEF From
  <2>4. first - 8 \in 0 .. 7
    BY <1>8
  <2>5. Eight(p1) \in ByteSets /\ Eight(p1) # p2
    BY <1>4, <2>2, <2>3, <2>4, EightSets, PartsDiffer
  <2>6. Xor(Eight(p1), p2) \in ByteSets /\ Xor(Eight(p1), p2) # {}
    BY <1>4, <2>5, XorSets
  <2>7. Eight(Xor(Eight(p1), p2)) \in ByteSets /\ Eight(Xor(Eight(p1), p2)) # {}
    BY <2>6, EightSets, EightKeepsOnes
  <2>8. Xor(Eight(Xor(Eight(p1), p2)), {}) = Eight(Xor(Eight(p1), p2))
    BY <2>7, XorSets
  <2> QED BY <1>3, <1>5, <2>1, <2>7, <2>8
<1>9. CASE first \in 0 .. 7
  <2>1. p1 = {}
    BY <1>2, <1>4, <1>9
  <2>2. Below(p2, first - 1)
    BY <1>2, <1>4, <1>9 DEF Below
  <2>3. From(p3, first)
    BY <1>2, <1>3, <1>4, <1>9 DEF From
  <2>4. Eight(p2) \in ByteSets /\ Eight(p2) # p3
    BY <1>4, <1>9, <2>2, <2>3, EightSets, PartsDiffer
  <2>5. Xor(Eight(p2), p3) # {}
    BY <1>4, <2>4, XorSets
  <2>6. Xor(Eight(p1), p2) = p2
    BY <1>4, <1>6, <2>1, XorSets
  <2> QED BY <1>3, <1>5, <2>5, <2>6
<1> QED BY <1>7, <1>8, <1>9

\* A frame that is sent is accepted, and its bytes are bytes.
LEMMA FrameParts ==
  ASSUME NEW word
  PROVE  LET f == Frame(word)
         IN /\ f[1] = Bits(word \div 256, 8) /\ f[2] = Bits(word % 256, 8)
            /\ f[1] \in ByteSets /\ f[2] \in ByteSets /\ f[3] \in ByteSets
            /\ AcceptsFrame(f)
<1> DEFINE f == Frame(word)
           a == Bits(word \div 256, 8)
           b == Bits(word % 256, 8)
           c == Crc8(<<a, b>>)
<1>1. a \in ByteSets /\ b \in ByteSets
  BY DEF Bits, ByteSets
<1>2. Bytes(word) = <<a, b>>
  BY DEF Bytes
<1>3. c \in ByteSets
  <2>1. c = Eight(Xor(Eight(Xor(CrcInit, a)), b))
    BY CrcOfFrame
  <2>2. CrcInit \in ByteSets
    BY DEF CrcInit, ByteSets
  <2> HIDE DEF a, b
  <2> QED BY <1>1, <2>1, <2>2, XorSets, EightSets
<1> HIDE DEF a, b
<1>4. f = Append(<<a, b>>, c)
  BY <1>2 DEF Frame
<1> HIDE DEF c
<1>5. f[1] = a /\ f[2] = b /\ f[3] = c
  <2>1. <<a, b>> \in Seq(ByteSets) /\ Len(<<a, b>>) = 2
    BY <1>1
  <2> QED BY <1>3, <1>4, <2>1
<1>6. AcceptsFrame(f)
  <2>1. Crc8(f) = c
    BY <1>5 DEF Crc8, c
  <2> QED BY <1>5, <2>1 DEF AcceptsFrame
<1> QED BY <1>1, <1>3, <1>5, <1>6 DEF a, b
-----------------------------------------------------------------------------
(* A word is its two bytes, and a byte its eight bits.                     *)

\* Powers as the provers need them.
LEMMA PowersOfTwo ==
  /\ 2 ^ 0 = 1 /\ 2 ^ 1 = 2 /\ 2 ^ 2 = 4 /\ 2 ^ 3 = 8
  /\ 2 ^ 4 = 16 /\ 2 ^ 5 = 32 /\ 2 ^ 6 = 64 /\ 2 ^ 7 = 128
OBVIOUS

\* The recursion that adds up a byte is that sum.
LEMMA NumberIsASum ==
  ASSUME NEW x
  PROVE  Number(x) = Sum8(x)
<1> DEFINE Term(e) == IF e \in x THEN 2 ^ e ELSE 0
           F(f) == [e \in 0 .. 8 |-> IF e = 0 THEN 0 ELSE f[e - 1] + IF e - 1 \in x THEN 2 ^ (e - 1) ELSE 0]
           n1 == 0 + Term(0)
           n2 == n1 + Term(1)
           n3 == n2 + Term(2)
           n4 == n3 + Term(3)
           n5 == n4 + Term(4)
           n6 == n5 + Term(5)
           n7 == n6 + Term(6)
           n8 == n7 + Term(7)
           h == [e \in 0 .. 8 |-> IF e = 0 THEN 0 ELSE IF e = 1 THEN n1
                  ELSE IF e = 2 THEN n2 ELSE IF e = 3 THEN n3 ELSE IF e = 4 THEN n4
                  ELSE IF e = 5 THEN n5 ELSE IF e = 6 THEN n6 ELSE IF e = 7 THEN n7
                  ELSE n8]
           below == CHOOSE f : f = F(f)
<1>1. Number(x) = below[8]
  BY DEF Number
<1>2. \A f : F(f) = [e \in 0 .. 8 |-> IF e = 0 THEN 0 ELSE f[e - 1] + Term(e - 1)]
  OBVIOUS
<1>3. h = [e \in 0 .. 8 |-> IF e = 0 THEN 0 ELSE h[e - 1] + Term(e - 1)]
  <2>1. /\ n1 = 0 + Term(0) /\ n2 = n1 + Term(1) /\ n3 = n2 + Term(2) /\ n4 = n3 + Term(3)
        /\ n5 = n4 + Term(4) /\ n6 = n5 + Term(5) /\ n7 = n6 + Term(6) /\ n8 = n7 + Term(7)
    OBVIOUS
  <2> HIDE DEF n1, n2, n3, n4, n5, n6, n7, n8, Term
  <2> QED BY <2>1
<1>4. below = F(below)
  <2> HIDE DEF F, h
  <2> QED BY <1>2, <1>3
<1>5. below[0] = 0 /\ \A e \in 1 .. 8 : below[e] = below[e - 1] + Term(e - 1)
  <2> HIDE DEF Term, below, F
  <2> QED BY <1>2, <1>4
<1>6. below[8] = 0 + Term(0) + Term(1) + Term(2) + Term(3) + Term(4) + Term(5) + Term(6) + Term(7)
  <2> HIDE DEF Term, below
  <2> QED BY <1>5
<1>7. /\ Term(0) = (IF 0 \in x THEN 1 ELSE 0) /\ Term(1) = (IF 1 \in x THEN 2 ELSE 0)
      /\ Term(2) = (IF 2 \in x THEN 4 ELSE 0) /\ Term(3) = (IF 3 \in x THEN 8 ELSE 0)
      /\ Term(4) = (IF 4 \in x THEN 16 ELSE 0) /\ Term(5) = (IF 5 \in x THEN 32 ELSE 0)
      /\ Term(6) = (IF 6 \in x THEN 64 ELSE 0) /\ Term(7) = (IF 7 \in x THEN 128 ELSE 0)
  BY PowersOfTwo
<1> HIDE DEF Term, below
<1> QED BY <1>1, <1>6, <1>7 DEF Sum8

\* A number of eight bits is the number of its bits.
LEMMA ByteIsItsBits ==
  ASSUME NEW n \in Nat, n <= 255
  PROVE  Number(Bits(n, 8)) = n
<1> DEFINE q1 == n \div 2
           q2 == n \div 4
           q3 == n \div 8
           q4 == n \div 16
           q5 == n \div 32
           q6 == n \div 64
           q7 == n \div 128
           x == Bits(n, 8)
<1>1. /\ 0 \in x <=> n % 2 = 1
      /\ 1 \in x <=> q1 % 2 = 1
      /\ 2 \in x <=> q2 % 2 = 1
      /\ 3 \in x <=> q3 % 2 = 1
      /\ 4 \in x <=> q4 % 2 = 1
      /\ 5 \in x <=> q5 % 2 = 1
      /\ 6 \in x <=> q6 % 2 = 1
      /\ 7 \in x <=> q7 % 2 = 1
  <2>1. n \div 1 = n
    OBVIOUS
  <2>2. \A e \in 0 .. 7 : e \in x <=> (n \div 2 ^ e) % 2 = 1
    BY DEF Bits
  <2> HIDE DEF x
  <2> QED BY <2>1, <2>2, PowersOfTwo
<1>2. /\ q1 = n \div 2 /\ q2 = n \div 4 /\ q3 = n \div 8 /\ q4 = n \div 16
      /\ q5 = n \div 32 /\ q6 = n \div 64 /\ q7 = n \div 128
  OBVIOUS
<1> HIDE DEF q1, q2, q3, q4, q5, q6, q7, x
<1>3. /\ q1 \in Nat /\ q2 \in Nat /\ q3 \in Nat /\ q4 \in Nat
      /\ q5 \in Nat /\ q6 \in Nat /\ q7 \in Nat /\ q7 <= 1
  BY <1>2
<1>4. /\ n = 2 * q1 + (n % 2) /\ q1 = 2 * q2 + (q1 % 2) /\ q2 = 2 * q3 + (q2 % 2)
      /\ q3 = 2 * q4 + (q3 % 2) /\ q4 = 2 * q5 + (q4 % 2) /\ q5 = 2 * q6 + (q5 % 2)
      /\ q6 = 2 * q7 + (q6 % 2)
  BY <1>2
<1>5. \A k \in Nat : k % 2 = 0 \/ k % 2 = 1
  OBVIOUS
<1>6. Number(x) = (n % 2) + 2 * (q1 % 2) + 4 * (q2 % 2) + 8 * (q3 % 2) + 16 * (q4 % 2)
                    + 32 * (q5 % 2) + 64 * (q6 % 2) + 128 * (q7 % 2)
  BY <1>1, <1>3, <1>5, NumberIsASum DEF Sum8
<1>7. q7 % 2 = q7
  BY <1>3
<1> QED BY <1>3, <1>4, <1>6, <1>7 DEF x

\* The receiver puts a word together as it was.
LEMMA WordIsItsBytes ==
  ASSUME NEW word \in WordValues
  PROVE  DecodedWord(Frame(word)) = word
<1>1. word \in Nat /\ word <= 65535
  BY WordRange
<1> DEFINE a == word \div 256
           b == word % 256
<1>2. a \in Nat /\ a <= 255 /\ b \in Nat /\ b <= 255 /\ word = 256 * a + b
  <2>1. word = 256 * a + b
    BY <1>1
  <2> QED BY <1>1, <2>1
<1> HIDE DEF a, b
<1>3. Number(Frame(word)[1]) = a /\ Number(Frame(word)[2]) = b
  BY <1>2, FrameParts, ByteIsItsBits DEF a, b
<1> QED BY <1>2, <1>3 DEF DecodedWord
-----------------------------------------------------------------------------
(* Polynomial division, from the highest place down.                       *)

\* The division takes the sixteen places from the highest down.
LEMMA RemainderSteps ==
  ASSUME NEW p
  PROVE  \E left : /\ left[16] = p
                   /\ \A n \in 0 .. 15 : left[n] = Reduced(left[n + 1], n)
                   /\ left[0] = Remainder(p)
<1> DEFINE F(f) == [n \in 0 .. 16 |-> IF n = 16 THEN p ELSE Reduced(f[n + 1], n)]
           x16 == p
           x15 == Reduced(x16, 15)
           x14 == Reduced(x15, 14)
           x13 == Reduced(x14, 13)
           x12 == Reduced(x13, 12)
           x11 == Reduced(x12, 11)
           x10 == Reduced(x11, 10)
           x9 == Reduced(x10, 9)
           x8 == Reduced(x9, 8)
           x7 == Reduced(x8, 7)
           x6 == Reduced(x7, 6)
           x5 == Reduced(x6, 5)
           x4 == Reduced(x5, 4)
           x3 == Reduced(x4, 3)
           x2 == Reduced(x3, 2)
           x1 == Reduced(x2, 1)
           x0 == Reduced(x1, 0)
           h == [n \in 0 .. 16 |->
                   IF n = 16 THEN x16 ELSE IF n = 15 THEN x15 ELSE IF n = 14 THEN x14 ELSE
                   IF n = 13 THEN x13 ELSE IF n = 12 THEN x12 ELSE IF n = 11 THEN x11 ELSE
                   IF n = 10 THEN x10 ELSE IF n = 9 THEN x9 ELSE IF n = 8 THEN x8 ELSE
                   IF n = 7 THEN x7 ELSE IF n = 6 THEN x6 ELSE IF n = 5 THEN x5 ELSE
                   IF n = 4 THEN x4 ELSE IF n = 3 THEN x3 ELSE IF n = 2 THEN x2 ELSE
                   IF n = 1 THEN x1 ELSE x0]
           left == CHOOSE f : f = F(f)
<1>1. Remainder(p) = left[0]
  BY DEF Remainder
<1>2. h = F(h)
  <2>1. /\ x16 = p
        /\ x15 = Reduced(x16, 15)
        /\ x14 = Reduced(x15, 14)
        /\ x13 = Reduced(x14, 13)
        /\ x12 = Reduced(x13, 12)
        /\ x11 = Reduced(x12, 11)
        /\ x10 = Reduced(x11, 10)
        /\ x9 = Reduced(x10, 9)
        /\ x8 = Reduced(x9, 8)
        /\ x7 = Reduced(x8, 7)
        /\ x6 = Reduced(x7, 6)
        /\ x5 = Reduced(x6, 5)
        /\ x4 = Reduced(x5, 4)
        /\ x3 = Reduced(x4, 3)
        /\ x2 = Reduced(x3, 2)
        /\ x1 = Reduced(x2, 1)
        /\ x0 = Reduced(x1, 0)
    OBVIOUS
  <2> HIDE DEF x0, x1, x2, x3, x4, x5, x6, x7, x8, x9, x10, x11, x12, x13, x14, x15, x16
  <2> QED BY <2>1
<1>3. left = F(left)
  <2> HIDE DEF F, h
  <2> QED BY <1>2
<1>4. left[16] = p /\ \A n \in 0 .. 15 : left[n] = Reduced(left[n + 1], n)
  <2> HIDE DEF left
  <2> QED BY <1>3
<1> HIDE DEF left
<1> QED BY <1>1, <1>4

\* A polynomial times a power of x has its exponents moved.
LEMMA TimesMembers ==
  ASSUME NEW x \in SUBSET Int, NEW n \in Int
  PROVE  /\ Times(x, n) \in SUBSET Int
         /\ \A e \in Int : e \in Times(x, n) <=> e - n \in x
<1>1. \A e \in Int : (e - n) + n = e
  OBVIOUS
<1>2. \A y \in x : y + n \in Int /\ (y + n) - n = y
  OBVIOUS
<1> QED BY <1>1, <1>2 DEF Times

\* A shift moves them by one, and drops the eighth.
LEMMA ShiftedMembers ==
  ASSUME NEW r \in ByteSets
  PROVE  /\ ShiftedLeft(r) \in ByteSets
         /\ \A e \in Int : e \in ShiftedLeft(r) <=> e # 8 /\ e - 1 \in r
<1>1. \A e \in r : e \in 0 .. 7
  BY DEF ByteSets
<1>2. \A e \in Int : e - 1 \in r => (e - 1) + 1 = e
  OBVIOUS
<1> QED BY <1>1, <1>2 DEF ShiftedLeft, ByteSets

\* A shift is a factor x, but for the place that is dropped.
LEMMA ShiftedTimes ==
  ASSUME NEW r \in ByteSets, NEW n \in 0 .. 15
  PROVE  /\ 7 \notin r => Times(r, n + 1) = Times(ShiftedLeft(r), n)
         /\ 7 \in r => Times(r, n + 1) = Times(ShiftedLeft(r), n) \cup {n + 8}
<1> DEFINE up == ShiftedLeft(r)
<1>1. r \in SUBSET Int /\ up \in SUBSET Int /\ \A e \in r : e \in 0 .. 7
  BY ShiftedMembers DEF ByteSets
<1>2. Times(r, n + 1) \in SUBSET Int /\ Times(up, n) \in SUBSET Int
  BY <1>1, TimesMembers
<1>3. \A e \in Int : e \in Times(r, n + 1) <=> e - (n + 1) \in r
  BY <1>1, TimesMembers
<1>4. \A e \in Int : e \in Times(up, n) <=> e - n \in up
  BY <1>1, TimesMembers
<1>5. \A e \in Int : e - n \in up <=> e # n + 8 /\ e - (n + 1) \in r
  <2> SUFFICES ASSUME NEW e \in Int
               PROVE  e - n \in up <=> e # n + 8 /\ e - (n + 1) \in r
    OBVIOUS
  <2>1. e - n \in Int /\ (e - n) - 1 = e - (n + 1) /\ (e - n = 8 <=> e = n + 8)
    OBVIOUS
  <2>2. e - n \in up <=> e - n # 8 /\ (e - n) - 1 \in r
    BY <2>1, ShiftedMembers
  <2> QED BY <2>1, <2>2
<1> HIDE DEF up
<1>6. \A e \in Int : e \in Times(r, n + 1) <=> e \in Times(up, n) \/ (e = n + 8 /\ 7 \in r)
  <2>1. (n + 8) - (n + 1) = 7 /\ n + 8 \in Int
    OBVIOUS
  <2> QED BY <1>3, <1>4, <1>5, <2>1
<1>7. n + 8 \in Int
  OBVIOUS
<1> QED BY <1>2, <1>6, <1>7 DEF up

\* One place of the division is one step of the register, if what follows in
\* the polynomial is still below.
LEMMA ReductionIsAShift ==
  ASSUME NEW r \in ByteSets, NEW n \in 0 .. 15, NEW low \in SUBSET Nat,
         \A e \in low : e < n + 8
  PROVE  Reduced(Xor(Times(r, n + 1), low), n) = Xor(Times(CrcShift(r), n), low)
<1>1. \A e \in r : e \in 0 .. 7
  BY DEF ByteSets
<1>2. n + 8 \in Xor(Times(r, n + 1), low) <=> 7 \in r
  BY <1>1 DEF Xor, Times
<1>3. CASE 7 \notin r
  <2>1. Times(r, n + 1) = Times(CrcShift(r), n)
    BY <1>3, ShiftedTimes DEF CrcShift
  <2> QED BY <1>2, <1>3, <2>1 DEF Reduced
<1>4. CASE 7 \in r
  <2>1. Xor(Times(r, n + 1), Times(Generator, n)) = Times(CrcShift(r), n)
    <3> DEFINE up == ShiftedLeft(r)
    <3>1. Times(r, n + 1) = Times(up, n) \cup {n + 8}
      BY <1>4, ShiftedTimes
    <3>2. Times(Generator, n) = Times(CrcPoly, n) \cup {n + 8}
      BY DEF Times, Generator, CrcPoly
    <3>3. up \in ByteSets /\ CrcPoly \in ByteSets
      BY <1>1 DEF ShiftedLeft, ByteSets, CrcPoly
    <3>4. CrcShift(r) = Xor(up, CrcPoly)
      BY <1>4 DEF CrcShift
    <3> HIDE DEF up
    <3>5. Times(Xor(up, CrcPoly), n) = Xor(Times(up, n), Times(CrcPoly, n))
      BY <3>3 DEF Times, Xor, ByteSets
    <3>6. n + 8 \notin Times(up, n) /\ n + 8 \notin Times(CrcPoly, n)
      BY <3>3 DEF Times, ByteSets
    <3> QED BY <3>1, <3>2, <3>4, <3>5, <3>6 DEF Xor
  <2>2. \A x, y, z : Xor(Xor(x, y), z) = Xor(Xor(x, z), y)
    BY DEF Xor
  <2>3. Reduced(Xor(Times(r, n + 1), low), n) = Xor(Xor(Times(r, n + 1), low), Times(Generator, n))
    BY <1>2, <1>4 DEF Reduced
  <2> QED BY <2>1, <2>2, <2>3
<1> QED BY <1>3, <1>4

\* Eight places of the division are the eight steps of a byte.
LEMMA ByteOfDivision ==
  ASSUME NEW left, \A n \in 0 .. 15 : left[n] = Reduced(left[n + 1], n),
         NEW k \in {0, 8}, NEW r \in ByteSets, NEW low \in SUBSET Nat, \A e \in low : e < k + 8,
         left[k + 8] = Xor(Times(r, k + 8), low)
  PROVE  left[k] = Xor(Times(Eight(r), k), low)
<1> DEFINE x1 == CrcShift(r)
           x2 == CrcShift(x1)
           x3 == CrcShift(x2)
           x4 == CrcShift(x3)
           x5 == CrcShift(x4)
           x6 == CrcShift(x5)
           x7 == CrcShift(x6)
           x8 == CrcShift(x7)
<1>0. /\ x1 = CrcShift(r) /\ x2 = CrcShift(x1) /\ x3 = CrcShift(x2) /\ x4 = CrcShift(x3)
      /\ x5 = CrcShift(x4) /\ x6 = CrcShift(x5) /\ x7 = CrcShift(x6) /\ x8 = CrcShift(x7)
      /\ x8 = Eight(r)
  BY DEF Eight
<1> HIDE DEF x1, x2, x3, x4, x5, x6, x7, x8
<1>1. /\ x1 \in ByteSets /\ x2 \in ByteSets /\ x3 \in ByteSets /\ x4 \in ByteSets
      /\ x5 \in ByteSets /\ x6 \in ByteSets /\ x7 \in ByteSets /\ x8 \in ByteSets
  BY <1>0, ShiftSets
<1>2. ASSUME NEW n \in 0 .. 15, k <= n, NEW y \in ByteSets,
             left[n + 1] = Xor(Times(y, n + 1), low)
      PROVE  left[n] = Xor(Times(CrcShift(y), n), low)
  <2>1. left[n] = Reduced(Xor(Times(y, n + 1), low), n)
    BY <1>2
  <2>2. \A e \in low : e < n + 8
    BY <1>2
  <2> QED BY <2>1, <2>2, ReductionIsAShift
<1>3. left[k + 7] = Xor(Times(x1, k + 7), low)
  <2>1. k + 7 \in 0 .. 15 /\ k <= k + 7 /\ (k + 7) + 1 = k + 8
    OBVIOUS
  <2>2. left[k + 7] = Xor(Times(CrcShift(r), k + 7), low)
    BY <1>1, <1>2, <2>1
  <2> QED BY <1>0, <2>2
<1>4. left[k + 6] = Xor(Times(x2, k + 6), low)
  <2>1. k + 6 \in 0 .. 15 /\ k <= k + 6 /\ (k + 6) + 1 = k + 7
    OBVIOUS
  <2>2. left[k + 6] = Xor(Times(CrcShift(x1), k + 6), low)
    BY <1>1, <1>2, <2>1, <1>3
  <2> QED BY <1>0, <2>2
<1>5. left[k + 5] = Xor(Times(x3, k + 5), low)
  <2>1. k + 5 \in 0 .. 15 /\ k <= k + 5 /\ (k + 5) + 1 = k + 6
    OBVIOUS
  <2>2. left[k + 5] = Xor(Times(CrcShift(x2), k + 5), low)
    BY <1>1, <1>2, <2>1, <1>4
  <2> QED BY <1>0, <2>2
<1>6. left[k + 4] = Xor(Times(x4, k + 4), low)
  <2>1. k + 4 \in 0 .. 15 /\ k <= k + 4 /\ (k + 4) + 1 = k + 5
    OBVIOUS
  <2>2. left[k + 4] = Xor(Times(CrcShift(x3), k + 4), low)
    BY <1>1, <1>2, <2>1, <1>5
  <2> QED BY <1>0, <2>2
<1>7. left[k + 3] = Xor(Times(x5, k + 3), low)
  <2>1. k + 3 \in 0 .. 15 /\ k <= k + 3 /\ (k + 3) + 1 = k + 4
    OBVIOUS
  <2>2. left[k + 3] = Xor(Times(CrcShift(x4), k + 3), low)
    BY <1>1, <1>2, <2>1, <1>6
  <2> QED BY <1>0, <2>2
<1>8. left[k + 2] = Xor(Times(x6, k + 2), low)
  <2>1. k + 2 \in 0 .. 15 /\ k <= k + 2 /\ (k + 2) + 1 = k + 3
    OBVIOUS
  <2>2. left[k + 2] = Xor(Times(CrcShift(x5), k + 2), low)
    BY <1>1, <1>2, <2>1, <1>7
  <2> QED BY <1>0, <2>2
<1>9. left[k + 1] = Xor(Times(x7, k + 1), low)
  <2>1. k + 1 \in 0 .. 15 /\ k <= k + 1 /\ (k + 1) + 1 = k + 2
    OBVIOUS
  <2>2. left[k + 1] = Xor(Times(CrcShift(x6), k + 1), low)
    BY <1>1, <1>2, <2>1, <1>8
  <2> QED BY <1>0, <2>2
<1>10. left[k + 0] = Xor(Times(x8, k + 0), low)
  <2>1. k + 0 \in 0 .. 15 /\ k <= k + 0 /\ (k + 0) + 1 = k + 1
    OBVIOUS
  <2>2. left[k + 0] = Xor(Times(CrcShift(x7), k + 0), low)
    BY <1>1, <1>2, <2>1, <1>9
  <2> QED BY <1>0, <2>2
<1> QED BY <1>0, <1>10

\* The powers of the first byte of a word.
LEMMA HighPowersOfTwo ==
  /\ 2 ^ 8 = 256 /\ 2 ^ 9 = 512 /\ 2 ^ 10 = 1024 /\ 2 ^ 11 = 2048
  /\ 2 ^ 12 = 4096 /\ 2 ^ 13 = 8192 /\ 2 ^ 14 = 16384 /\ 2 ^ 15 = 32768
OBVIOUS

\* The bits of a word are the bits of its two bytes.
LEMMA WordBits ==
  ASSUME NEW word \in WordValues
  PROVE  \A e \in 0 .. 7 :
           /\ e \in Bits(word, 16) <=> e \in Bits(word % 256, 8)
           /\ e + 8 \in Bits(word, 16) <=> e \in Bits(word \div 256, 8)
<1>1. word \in Nat
  BY WordRange
<1> DEFINE a == word \div 256
           b == word % 256
<1>2. a \in Nat /\ b \in Nat /\ b <= 255
  BY <1>1
<1>3. word = 256 * a + b
  BY <1>1
<1>4. /\ \A e \in 0 .. 7 : e \in Bits(word, 16) <=> (word \div 2 ^ e) % 2 = 1
      /\ \A e \in 0 .. 7 : e + 8 \in Bits(word, 16) <=> (word \div 2 ^ (e + 8)) % 2 = 1
      /\ \A e \in 0 .. 7 : e \in Bits(a, 8) <=> (a \div 2 ^ e) % 2 = 1
      /\ \A e \in 0 .. 7 : e \in Bits(b, 8) <=> (b \div 2 ^ e) % 2 = 1
  <2> HIDE DEF a, b
  <2> QED BY DEF Bits
<1> HIDE DEF a, b
<1>5. /\ word \div 256 = a \div 1 /\ word \div 512 = a \div 2 /\ word \div 1024 = a \div 4
      /\ word \div 2048 = a \div 8 /\ word \div 4096 = a \div 16 /\ word \div 8192 = a \div 32
      /\ word \div 16384 = a \div 64 /\ word \div 32768 = a \div 128
  BY <1>2, <1>3
<1>6. /\ (word \div 1) % 2 = (b \div 1) % 2 /\ (word \div 2) % 2 = (b \div 2) % 2
      /\ (word \div 4) % 2 = (b \div 4) % 2 /\ (word \div 8) % 2 = (b \div 8) % 2
      /\ (word \div 16) % 2 = (b \div 16) % 2 /\ (word \div 32) % 2 = (b \div 32) % 2
      /\ (word \div 64) % 2 = (b \div 64) % 2 /\ (word \div 128) % 2 = (b \div 128) % 2
  BY <1>2, <1>3, SMTT(60)
<1>7. \A e \in 0 .. 7 : (word \div 2 ^ e) % 2 = (b \div 2 ^ e) % 2
  <2> SUFFICES ASSUME NEW e \in 0 .. 7
               PROVE  (word \div 2 ^ e) % 2 = (b \div 2 ^ e) % 2
    OBVIOUS
  <2>8. e = 0 \/ e = 1 \/ e = 2 \/ e = 3 \/ e = 4 \/ e = 5 \/ e = 6 \/ e = 7
    OBVIOUS
  <2>c0. CASE e = 0
    BY <2>c0, <1>6, PowersOfTwo
  <2>c1. CASE e = 1
    BY <2>c1, <1>6, PowersOfTwo
  <2>c2. CASE e = 2
    BY <2>c2, <1>6, PowersOfTwo
  <2>c3. CASE e = 3
    BY <2>c3, <1>6, PowersOfTwo
  <2>c4. CASE e = 4
    BY <2>c4, <1>6, PowersOfTwo
  <2>c5. CASE e = 5
    BY <2>c5, <1>6, PowersOfTwo
  <2>c6. CASE e = 6
    BY <2>c6, <1>6, PowersOfTwo
  <2>c7. CASE e = 7
    BY <2>c7, <1>6, PowersOfTwo
  <2> QED BY <2>8, <2>c0, <2>c1, <2>c2, <2>c3, <2>c4, <2>c5, <2>c6, <2>c7
<1>8. \A e \in 0 .. 7 : word \div 2 ^ (e + 8) = a \div 2 ^ e
  <2> SUFFICES ASSUME NEW e \in 0 .. 7
               PROVE  word \div 2 ^ (e + 8) = a \div 2 ^ e
    OBVIOUS
  <2>8. e = 0 \/ e = 1 \/ e = 2 \/ e = 3 \/ e = 4 \/ e = 5 \/ e = 6 \/ e = 7
    OBVIOUS
  <2>c0. CASE e = 0
    BY <2>c0, <1>5, PowersOfTwo, HighPowersOfTwo
  <2>c1. CASE e = 1
    BY <2>c1, <1>5, PowersOfTwo, HighPowersOfTwo
  <2>c2. CASE e = 2
    BY <2>c2, <1>5, PowersOfTwo, HighPowersOfTwo
  <2>c3. CASE e = 3
    BY <2>c3, <1>5, PowersOfTwo, HighPowersOfTwo
  <2>c4. CASE e = 4
    BY <2>c4, <1>5, PowersOfTwo, HighPowersOfTwo
  <2>c5. CASE e = 5
    BY <2>c5, <1>5, PowersOfTwo, HighPowersOfTwo
  <2>c6. CASE e = 6
    BY <2>c6, <1>5, PowersOfTwo, HighPowersOfTwo
  <2>c7. CASE e = 7
    BY <2>c7, <1>5, PowersOfTwo, HighPowersOfTwo
  <2> QED BY <2>8, <2>c0, <2>c1, <2>c2, <2>c3, <2>c4, <2>c5, <2>c6, <2>c7
<1> QED BY <1>4, <1>7, <1>8 DEF a, b

\* The checksum that is sent is the remainder of the word's polynomial.
LEMMA CrcDivides ==
  ASSUME NEW word \in WordValues
  PROVE  Frame(word)[3] = Remainder(Times(Xor(Bits(word, 16), 8 .. 15), 8))
<1> DEFINE a == Frame(word)[1]
           b == Frame(word)[2]
           low == Times(b, 8)
           start == Xor(CrcInit, a)
           mid == Xor(Eight(start), b)
           p == Times(Xor(Bits(word, 16), 8 .. 15), 8)
<1>1. /\ a \in ByteSets /\ b \in ByteSets /\ Frame(word)[3] = Crc8(Frame(word))
      /\ a = Bits(word \div 256, 8) /\ b = Bits(word % 256, 8)
  BY FrameParts DEF AcceptsFrame
<1>2. Frame(word)[3] = Eight(mid)
  BY <1>1, CrcOfFrame
<1> HIDE DEF a, b
<1>3. start \in ByteSets
  <2>1. CrcInit \in ByteSets
    BY DEF CrcInit, ByteSets
  <2> QED BY <1>1, <2>1, XorSets
<1>4. Eight(start) \in ByteSets
  BY <1>3, EightSets
<1>5. mid \in ByteSets
  BY <1>1, <1>4, XorSets
<1>6. low \in SUBSET Nat /\ \A e \in low : e < 16
  BY <1>1 DEF Times, ByteSets
<1>7. p = Xor(Times(start, 16), low)
  <2>1. \A e \in 0 .. 7 : /\ (e \in Bits(word, 16) <=> e \in b)
                          /\ e + 8 \in Bits(word, 16) <=> e \in a
    BY <1>1, WordBits
  <2>2. Bits(word, 16) \in SUBSET (0 .. 15)
    BY DEF Bits
  <2> DEFINE q == Xor(Bits(word, 16), 8 .. 15)
  <2>3. q \in SUBSET (0 .. 15)
    BY <2>2 DEF Xor
  <2>4. \A e \in 0 .. 7 : /\ (e \in q <=> e \in b)
                          /\ e + 8 \in q <=> e \in start
    BY <2>1 DEF Xor, CrcInit
  <2> HIDE DEF q, start
  <2>5. p \in SUBSET Int /\ \A e \in Int : e \in p <=> e - 8 \in q
    BY <2>3, TimesMembers DEF q
  <2>6. Times(start, 16) \in SUBSET Int /\ \A e \in Int : e \in Times(start, 16) <=> e - 16 \in start
    BY <1>3, TimesMembers DEF ByteSets
  <2>7. low \in SUBSET Int /\ \A e \in Int : e \in low <=> e - 8 \in b
    BY <1>1, TimesMembers DEF ByteSets
  <2>8. \A e \in 0 .. 15 : e \in q <=> (e \in b \/ e - 8 \in start)
    <3> SUFFICES ASSUME NEW e \in 0 .. 15
                 PROVE  e \in q <=> (e \in b \/ e - 8 \in start)
      OBVIOUS
    <3>1. CASE e <= 7
      <4>1. e \in 0 .. 7 /\ e - 8 \notin 0 .. 7
        BY <3>1
      <4> QED BY <1>3, <2>4, <4>1 DEF ByteSets
    <3>2. CASE e >= 8
      <4>1. e - 8 \in 0 .. 7 /\ (e - 8) + 8 = e /\ e \notin 0 .. 7
        BY <3>2
      <4> QED BY <1>1, <2>4, <4>1 DEF ByteSets
    <3> QED BY <3>1, <3>2
  <2>9. \A e \in Int : e \in p <=> e \in Xor(Times(start, 16), low)
    <3> SUFFICES ASSUME NEW e \in Int
                 PROVE  e \in p <=> e \in Xor(Times(start, 16), low)
      OBVIOUS
    <3>1. (e - 8) - 8 = e - 16 /\ e - 8 \in Int
      OBVIOUS
    <3>2. e - 8 \in b => e - 16 \notin 0 .. 7
      BY <1>1 DEF ByteSets
    <3>3. e - 8 \in b \/ e - 16 \in start => e - 8 \in 0 .. 15
      BY <1>1, <1>3 DEF ByteSets
    <3>4. e - 8 \in q <=> (e - 8 \in b \/ e - 16 \in start)
      <4>1. CASE e - 8 \in 0 .. 15
        BY <2>8, <3>1, <4>1
      <4>2. CASE e - 8 \notin 0 .. 15
        BY <2>3, <3>3, <4>2
      <4> QED BY <4>1, <4>2
    <3>5. e - 8 \in b => e - 16 \notin start
      BY <1>3, <3>2 DEF ByteSets
    <3> HIDE DEF p, low
    <3> QED BY <2>5, <2>6, <2>7, <3>4, <3>5 DEF Xor
  <2> HIDE DEF p, low
  <2> QED BY <2>5, <2>6, <2>7, <2>9 DEF Xor
<1>8. PICK left : /\ left[16] = p
                  /\ \A n \in 0 .. 15 : left[n] = Reduced(left[n + 1], n)
                  /\ left[0] = Remainder(p)
  BY RemainderSteps
<1> HIDE DEF p, start, mid, low
<1>9. left[8] = Xor(Times(Eight(start), 8), low)
  BY <1>3, <1>6, <1>7, <1>8, ByteOfDivision
<1>10. left[8] = Xor(Times(mid, 8), {})
  <2>1. \A x, y \in ByteSets : Times(Xor(x, y), 8) = Xor(Times(x, 8), Times(y, 8))
    BY DEF Times, Xor, ByteSets
  <2>2. Times(mid, 8) = left[8]
    BY <1>1, <1>4, <1>9, <2>1 DEF mid, low
  <2> QED BY <2>2 DEF Xor
<1>11. left[0] = Xor(Times(Eight(mid), 0), {})
  BY <1>5, <1>8, <1>10, ByteOfDivision
<1>12. left[0] = Eight(mid)
  BY <1>5, <1>11, EightSets DEF Xor, Times, ByteSets
<1> QED BY <1>2, <1>8, <1>12 DEF p
-----------------------------------------------------------------------------
(* The theorems about the words.                                           *)

\* What the frame on the bus is, before and after its damage.
WordsInv ==
  /\ input \in 0 .. MaxInput
  /\ Sent => /\ input \in WordValues
             /\ Intact \/ \E bits \in Pairs \cup Bursts : frame = Flipped(Frame(input), bits)

\* No damage of the kinds that the checksum promises to notice is accepted,
\* for any word.
LEMMA DamageIsRefused ==
  ASSUME NEW word, NEW bits \in Pairs \cup Bursts
  PROVE  ~AcceptsFrame(Flipped(Frame(word), bits))
<1>1. bits \in SUBSET (0 .. 23) /\ Syndrome(bits) # {}
  BY PairsLeaveOnes, BurstsLeaveOnes
<1> DEFINE f == Frame(word)
<1>2. f[1] \in ByteSets /\ f[2] \in ByteSets /\ f[3] \in ByteSets /\ AcceptsFrame(f)
  BY FrameParts
<1> HIDE DEF f
<1>3. ~AcceptsFrame(Flipped(f, bits))
  BY <1>1, <1>2, AcceptedDamage
<1> QED BY <1>3 DEF f

\* A frame on the bus is that of its word, or one of its damaged ones: only an
\* intact one is damaged, and only once.
THEOREM WordsInvariance == WordsSpec => []WordsInv
<1>1. WordsInit => WordsInv
  BY DEF WordsInit, WordsInv, Sent
<1>2. WordsInv /\ [WordsNext]_wordVars => WordsInv'
  <2> SUFFICES ASSUME WordsInv, [WordsNext]_wordVars
               PROVE  WordsInv'
    OBVIOUS
  <2>1. CASE Send
    BY <2>1 DEF Send, WordsInv, Sent, Intact
  <2>2. CASE Damage
    BY <2>2 DEF Damage, WordsInv, Sent, Intact
  <2>3. CASE UNCHANGED wordVars
    BY <2>3 DEF wordVars, WordsInv, Sent, Intact
  <2> QED BY <2>1, <2>2, <2>3 DEF WordsNext
<1> QED BY <1>1, <1>2, PTL DEF WordsSpec

\* The checksum that the shift register of _crc8 works out is the remainder of
\* the sensor's generator polynomial, for every word.
THEOREM ChecksumIsTheRemainder == WordsSpec => []CrcIsTheRemainder
<1>1. WordsInv => CrcIsTheRemainder
  BY CrcDivides DEF WordsInv, CrcIsTheRemainder, Intact
<1> QED BY <1>1, WordsInvariance, PTL

\* _readWords accepts the frame of every word and decodes it to that word, and
\* refuses it after any damage of one bit, two bits or a burst.
THEOREM NoDamageIsBelieved == WordsSpec => []DamageNoticed
<1>1. WordsInv => DamageNoticed
  <2> SUFFICES ASSUME WordsInv, Sent
               PROVE  IF Intact THEN AcceptsFrame(frame) /\ DecodedWord(frame) = input
                      ELSE ~AcceptsFrame(frame)
    BY DEF DamageNoticed
  <2>1. CASE Intact
    <3>1. frame = Frame(input) /\ input \in WordValues
      BY <2>1 DEF WordsInv, Intact
    <3>2. AcceptsFrame(Frame(input))
      BY FrameParts
    <3> QED BY <2>1, <3>1, <3>2, WordIsItsBytes
  <2>2. CASE ~Intact
    <3>1. PICK bits \in Pairs \cup Bursts : frame = Flipped(Frame(input), bits)
      BY <2>2 DEF WordsInv
    <3> QED BY <2>2, <3>1, DamageIsRefused
  <2> QED BY <2>1, <2>2
<1> QED BY <1>1, WordsInvariance, PTL

\* What is published for any word is off by half a unit at most.
THEOREM PublishedIsNearest == WordsSpec => []RoundsToNearest
<1>1. RoundsToNearest
  <2> SUFFICES ASSUME input \in WordValues
               PROVE  /\ Nearest(TemperatureMilliC(input) + 45000, input, 35000)
                      /\ Nearest(HumidityMilliPercent(input), input, 20000)
                      /\ Nearest(DecodedOffset(input), input, 35000)
    BY DEF RoundsToNearest
  <2>1. input \in Nat
    BY WordRange
  <2>2. Nearest(Share(input, 35000), input, 35000) /\ Nearest(Share(input, 20000), input, 20000)
    BY <2>1, ShareIsNearest
  <2> DEFINE share == Share(input, 35000)
  <2>3. share \in Int
    BY <2>1 DEF Share
  <2>4. TemperatureMilliC(input) + 45000 = share
    <3>1. TemperatureMilliC(input) = share - 45000
      BY DEF TemperatureMilliC
    <3> HIDE DEF share
    <3> QED BY <2>3, <3>1, SMT
  <2> QED BY <2>2, <2>4 DEF HumidityMilliPercent, DecodedOffset
<1> QED BY <1>1, PTL

\* Every admitted value of every setting is written as a word that is believed
\* when it is read back, and that shows the value.
THEOREM AdmittedIsShown == WordsSpec => []AdmittedReadsBack
<1>1. WordsInv => AdmittedReadsBack
  <2> SUFFICES ASSUME WordsInv, NEW f \in Fields, AdmittedValue(f, input)
               PROVE  LET word == EncodedSetting(f, input)
                      IN /\ word \in WordValues /\ ValidWord(f, word)
                         /\ DecodedSetting(f, word) - input \in -Resolution(f) .. Resolution(f)
    BY DEF AdmittedReadsBack
  <2>1. input \in Nat
    BY InputAssumption DEF WordsInv
  <2> QED BY <2>1, AdmittedIsReadBack
<1> QED BY <1>1, WordsInvariance, PTL

\* Every believed word of every setting shows a value that is admitted, and
\* that is written as this word.
THEOREM ShownIsRewritten == WordsSpec => []RewriteKeepsWord
<1>1. RewriteKeepsWord
  BY ReadIsRewritten DEF RewriteKeepsWord
<1> QED BY <1>1, PTL
================================================================================
