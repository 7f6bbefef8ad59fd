------------------------- MODULE DiagnosticWorkflow -------------------------
(***************************************************************************)
(* The sequencer of the command line's diagnostics (class                  *)
(* DiagnosticWorkflow): a number of cycles of requests, one at a time,     *)
(* each of which passes, warns or fails.  It has no clock and no driver;   *)
(* the operators below are its methods on the record of its members.       *)
(***************************************************************************)
EXTENDS SCD41Kinds

WorkflowKinds == {"STRESS", "STRESS_MIX", "SELFCHECK"}

NoWorkflow ==
  [kind |-> "NONE", mode |-> "UNKNOWN", id |-> [requestId |-> 0, generation |-> 0],
   operation |-> NoKind, total |-> 0, completed |-> 0, passed |-> 0,
   warnings |-> 0, failed |-> 0, waiting |-> FALSE, finished |-> FALSE,
   stopRequested |-> FALSE]

\* The requests of one cycle.
CycleSteps(kind, mode) ==
  CASE kind = "STRESS" -> <<Kind("READ_DATA_READY")>>
    [] kind = "SELFCHECK" ->
         <<Kind("READ_IDENTITY"), Kind("READ_SENSOR_VARIANT"),
           Kind("READ_CONFIGURATION"), Kind("SELF_TEST")>>
    [] kind = "STRESS_MIX" /\ mode = "IDLE" ->
         <<Kind("READ_IDENTITY"), Kind("READ_CONFIGURATION"),
           Kind("READ_SENSOR_VARIANT"), Kind("READ_DATA_READY")>>
    [] kind = "STRESS_MIX" /\ mode # "IDLE" ->
         <<Kind("READ_DATA_READY"), Kind("FETCH_SAMPLE"),
           ReadSetting("AMBIENT_PRESSURE")>>

OperationForStep(w) ==
  LET steps == CycleSteps(w.kind, w.mode)
  IN steps[(w.completed % Len(steps)) + 1]

WorkflowActive(w) == w.kind # "NONE" /\ ~w.finished

\* begin(): what is refused, and the workflow that is begun.
CanBegin(w, kind, mode) ==
  /\ ~WorkflowActive(w)
  /\ mode \in {"IDLE", "PERIODIC", "LOW_POWER_PERIODIC"}
  /\ kind = "SELFCHECK" => mode = "IDLE"

Begun(kind, cycles, mode) ==
  [NoWorkflow EXCEPT
     !.kind = kind, !.mode = mode,
     !.total = Len(CycleSteps(kind, mode)) * IF kind = "SELFCHECK" THEN 1 ELSE cycles]

HasNext(w) == WorkflowActive(w) /\ ~w.waiting /\ w.completed < w.total

MarkStarted(w, id, operation) ==
  IF WorkflowActive(w) /\ ~w.waiting /\ operation = OperationForStep(w)
  THEN [w EXCEPT !.id = id, !.operation = operation, !.waiting = TRUE]
  ELSE w

AcceptsResult(w, result) ==
  w.waiting /\ result.id = w.id /\ result.kind = w.operation

AcceptResult(w, result) ==
  LET passes == result.outcome = "SUCCEEDED"
      warns == result.outcome = "NO_DATA" /\ result.kind.op = "FETCH_SAMPLE"
  IN IF ~AcceptsResult(w, result) THEN w
     ELSE [w EXCEPT !.waiting = FALSE, !.completed = @ + 1,
                    !.passed = IF passes THEN @ + 1 ELSE @,
                    !.warnings = IF warns THEN @ + 1 ELSE @,
                    !.failed = IF passes \/ warns THEN @ ELSE @ + 1,
                    !.finished = w.stopRequested \/ w.completed + 1 >= w.total]

MarkStartFailure(w) ==
  IF WorkflowActive(w) /\ ~w.waiting
  THEN [w EXCEPT !.failed = @ + 1, !.finished = TRUE] ELSE w

RequestStop(w) ==
  IF WorkflowActive(w)
  THEN [w EXCEPT !.stopRequested = TRUE, !.finished = ~w.waiting] ELSE w
=============================================================================
