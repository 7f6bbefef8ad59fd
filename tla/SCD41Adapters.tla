---------------------------- MODULE SCD41Adapters ----------------------------
(***************************************************************************)
(* The two transfer callbacks of the examples: wireTransfer over Arduino's *)
(* Wire and idfI2cTransfer over the ESP-IDF master driver.  They translate *)
(* what the platform reports into a code and a disposition.  The driver    *)
(* asks for a write or a read, never both at once, and its request is      *)
(* always well formed, so the parameter checks never refuse one.           *)
(***************************************************************************)
EXTENDS SCD41Transfer

\* What the platforms can report of a write and of a read.
WireStatuses == {"SHORT_WRITE", "SUCCESS", "DATA_TOO_LONG", "NACK_ADDRESS",
                 "NACK_DATA", "OTHER_ERROR", "TIMEOUT", "UNKNOWN"}
WireReceived == {"NONE", "SOME", "ALL"}
IdfErrors == {"ESP_OK", "ESP_ERR_INVALID_RESPONSE", "ESP_ERR_TIMEOUT", "OTHER"}

\* Both adapters take the completion time from the owner's clock.
Raw(code, disposition, bytes) ==
  [code |-> code, disposition |-> disposition, bytes |-> bytes, clockValid |-> TRUE]

\* A slip: the sensor is trusted to ignore what it does not acknowledge.
WireWriteNackProves(status) ==
  CASE status = "SUCCESS" -> Raw("OK", "COMPLETE", "ALL")
    [] status \in {"NACK_ADDRESS", "NACK_DATA"} -> Raw("NACK", "NO_EFFECT", "NONE")
    [] OTHER -> Raw("FAILED", "INDETERMINATE", "NONE")
WireWrite(status) ==
  CASE status = "SUCCESS" -> Raw("OK", "COMPLETE", "ALL")
    [] status \in {"NACK_ADDRESS", "NACK_DATA"} ->
         Raw("NACK", "INDETERMINATE", "NONE")
    [] status \in {"SHORT_WRITE", "DATA_TOO_LONG"} ->
         Raw("SHORT_TRANSFER", "INDETERMINATE", "NONE")
    [] status = "OTHER_ERROR" -> Raw("BUS_ERROR", "INDETERMINATE", "NONE")
    [] status = "TIMEOUT" -> Raw("TIMEOUT", "INDETERMINATE", "NONE")
    [] OTHER -> Raw("FAILED", "INDETERMINATE", "NONE")

WireRead(received) ==
  CASE received = "ALL"  -> Raw("OK", "COMPLETE", "ALL")
    [] received = "SOME" -> Raw("SHORT_TRANSFER", "INDETERMINATE", "SOME")
    [] OTHER             -> Raw("FAILED", "INDETERMINATE", "NONE")

\* A slip: every controller error looks like a missing acknowledgement.
IdfAnyErrorIsNack(error, write) ==
  IF error = "ESP_OK" THEN Raw("OK", "COMPLETE", "ALL")
  ELSE Raw("NACK", IF write THEN "INDETERMINATE" ELSE "NO_EFFECT", "NONE")
IdfTransfer(error, write) ==
  CASE error = "ESP_OK" -> Raw("OK", "COMPLETE", "ALL")
    [] error = "ESP_ERR_INVALID_RESPONSE" ->
         Raw("NACK", IF write THEN "INDETERMINATE" ELSE "NO_EFFECT", "NONE")
    [] error = "ESP_ERR_TIMEOUT" -> Raw("TIMEOUT", "INDETERMINATE", "NONE")
    [] OTHER -> Raw("BUS_ERROR", "INDETERMINATE", "NONE")
-----------------------------------------------------------------------------
(* What can have happened on the bus when the platform reports it: whether *)
(* the sensor took the whole command, and whether a byte went without its  *)
(* acknowledgement.  A sensor that wakes does so without one.              *)

Facts == [took : BOOLEAN, unacknowledged : BOOLEAN]

WireFacts(status) ==
  CASE status = "SUCCESS" -> {f \in Facts : f.took /\ ~f.unacknowledged}
    [] status \in {"NACK_ADDRESS", "NACK_DATA"} -> {f \in Facts : f.unacknowledged}
    [] status \in {"SHORT_WRITE", "DATA_TOO_LONG"} ->
         {f \in Facts : ~f.took /\ ~f.unacknowledged}
    [] OTHER -> {f \in Facts : ~f.unacknowledged}

IdfFacts(error) ==
  CASE error = "ESP_OK" -> {f \in Facts : f.took /\ ~f.unacknowledged}
    [] error = "ESP_ERR_INVALID_RESPONSE" -> {f \in Facts : f.unacknowledged}
    [] OTHER -> {f \in Facts : ~f.unacknowledged}
=============================================================================
