------------------------------ MODULE SCD41Cli ------------------------------
(***************************************************************************)
(* The owner: the command line of the Arduino and the ESP-IDF example.     *)
(* Both run the same loop in a single thread: poll with a budget of one,   *)
(* take the result, service the diagnostic workflow, obey one command.     *)
(*                                                                         *)
(* todo lists the calls that are left of the present iteration; the driver *)
(* is used through the actions of SCD41Driver only, and a call it refuses  *)
(* leaves it as it is.  A read of the clock is a choice of how far it is   *)
(* from the last time shown to the driver; at least a tick lies between    *)
(* two polls (the delay at the end of the loop).                           *)
(***************************************************************************)
EXTENDS SCD41Properties, DiagnosticWorkflow

CONSTANTS Cycles,             \* cycle counts the user asks a workflow for
          TransferTimeout,    \* transferTimeoutMs: the longest transfer
          PowerUpDelayMax,    \* POWER_UP_DELAY_MAX_MS
          Margin              \* what the owner adds to the published limits

ASSUME CliAssumption ==
  /\ Cycles \subseteq Nat \ {0}
  /\ {TransferTimeout, PowerUpDelayMax, Margin} \subseteq Nat
  /\ \A dur \in Durations : dur <= TransferTimeout
  /\ \A c \in Configs : c.powerUpDelayMs <= PowerUpDelayMax
  /\ 1 \in RequestIds

\* What the owner adds is enough for polls that come d apart: an operation can
\* lose all of a round but a tick before its first call and after each of them.
ASSUME RoundsAssumption ==
  /\ Margin >= 2
  /\ \A k \in Kinds, d \in Advances : (MaxCallbacks(k) + 1) * (d - 1) + 2 <= Margin

VARIABLES workflow,        \* diagnosticWorkflow
          nextRequestId,   \* nextRequestId
          todo             \* the calls that are left of this iteration

cliVars == <<workflow, nextRequestId, todo>>
allVars == <<vars, cliVars>>

\* setup(): without a bus nothing is bound.
CliInit ==
  /\ Init
  /\ workflow = NoWorkflow /\ nextRequestId = 1
  /\ todo \in {<<"BIND", "ATTACH">>, << >>}

At(call) == ~poll.on /\ todo # << >> /\ Head(todo) = call
Done == todo' = Tail(todo)
SlotIdle == ~activeValid /\ ~terminalValid

\* printWorkflowUpdate(): a finished workflow is summed up and forgotten.
Reported(w) == IF w.finished THEN NoWorkflow ELSE w

\* operationBudgetMs().
OperationBudget(k) ==
  MaxWaitMs(k, PowerUpDelayMax) + MaxCallbacks(k) * TransferTimeout + Margin

\* startOperation(): the identity is used up even if the driver refuses.
StartOperation(k, w, d) ==
  /\ nextRequestId' = IF nextRequestId + 1 \in RequestIds THEN nextRequestId + 1 ELSE 1
  /\ IF Startable(k, d)
     THEN Start(k, nextRequestId, w, OperationBudget(k), d)
     ELSE UNCHANGED vars
-----------------------------------------------------------------------------
(* The calls.                                                              *)

\* A slip: the driver is polled only while it has something to do.
PollWhenActive ==
  /\ ~poll.on /\ todo = << >>
  /\ IF activeValid THEN \E d \in Advances \ {0} : EnterPoll(1, d) ELSE UNCHANGED vars
  /\ todo' = <<"TAKE", "SERVICE", "COMMAND">>
  /\ UNCHANGED <<workflow, nextRequestId>>
\* pollDriver().
Poll ==
  /\ ~poll.on /\ todo = << >>
  /\ \E d \in Advances \ {0} : EnterPoll(1, d)
  /\ todo' = <<"TAKE", "SERVICE", "COMMAND">>
  /\ UNCHANGED <<workflow, nextRequestId>>

Polling == LoopStep /\ UNCHANGED cliVars

\* takeAndPrint(), if there is a result.
Take ==
  /\ At("TAKE") /\ Done
  /\ IF terminalValid
     THEN /\ TakeResult(terminal.id)
          /\ workflow' = Reported(AcceptResult(workflow, terminal))
     ELSE UNCHANGED <<vars, workflow>>
  /\ UNCHANGED nextRequestId

\* A slip: a refused request counts as started.
ServiceUnchecked(d) ==
  /\ At("SERVICE") /\ Done
  /\ IF HasNext(workflow) /\ SlotIdle /\ nextSafe <= d
     THEN LET k == OperationForStep(workflow)
          IN /\ StartOperation(k, NoWord, d)
             /\ workflow' = MarkStarted(workflow,
                  [requestId |-> nextRequestId, generation |-> nextGeneration], k)
     ELSE UNCHANGED <<vars, workflow, nextRequestId>>
\* serviceWorkflow().
Service(d) ==
  /\ At("SERVICE") /\ Done
  /\ IF HasNext(workflow) /\ SlotIdle /\ nextSafe <= d
     THEN LET k == OperationForStep(workflow)
          IN /\ StartOperation(k, NoWord, d)
             /\ workflow' =
                  IF Startable(k, d)
                  THEN MarkStarted(workflow, [requestId |-> nextRequestId,
                                              generation |-> nextGeneration], k)
                  ELSE Reported(MarkStartFailure(workflow))
     ELSE UNCHANGED <<vars, workflow, nextRequestId>>

\* bindDriver(); the slot is idle wherever it is called.
Bind ==
  /\ At("BIND") /\ Done
  /\ \E c \in Configs : Begin(c)
  /\ UNCHANGED <<workflow, nextRequestId>>

Unbinding ==
  /\ At("END") /\ Done
  /\ IF bound THEN End ELSE UNCHANGED vars
  /\ UNCHANGED <<workflow, nextRequestId>>

Attach(d) ==
  /\ At("ATTACH") /\ Done
  /\ StartOperation(Kind("ATTACH"), NoWord, d)
  /\ UNCHANGED workflow

Probe(d) ==
  /\ At("PROBE") /\ Done
  /\ StartOperation(Kind(IF belief.attached /\ ~belief.reconciliationRequired
                         THEN "READ_IDENTITY" ELSE "ATTACH"), NoWord, d)
  /\ UNCHANGED workflow
-----------------------------------------------------------------------------
(* processCommand().                                                       *)

\* No command, one that only prints, or one that is refused at once.
NoCommand == At("COMMAND") /\ Done /\ UNCHANGED <<vars, workflow, nextRequestId>>

\* While a workflow is active only cancelling and printing are allowed.
Obey(calls) ==
  /\ At("COMMAND") /\ ~WorkflowActive(workflow)
  /\ todo' = calls
  /\ UNCHANGED <<vars, workflow, nextRequestId>>

BeginCommand == Obey(<<"END", "TAKE", "BIND", "ATTACH">>)
EndCommand == Obey(<<"END", "TAKE">>)
ProbeCommand == Obey(IF bound THEN <<"PROBE">> ELSE <<"BIND", "PROBE">>)

\* A slip: the safety window is not asked for.
ScanAnyTime(d) ==
  /\ At("COMMAND") /\ Done /\ ~WorkflowActive(workflow)
  /\ SlotIdle
  /\ UNCHANGED <<vars, workflow, nextRequestId>>
\* The scan addresses every device on the bus, the sensor too.
Scan(d) ==
  /\ At("COMMAND") /\ Done /\ ~WorkflowActive(workflow)
  /\ SlotIdle /\ nextSafe <= d
  /\ UNCHANGED <<vars, workflow, nextRequestId>>

Request(k, d) ==
  /\ At("COMMAND") /\ Done /\ ~WorkflowActive(workflow)
  /\ \E w \in IF k.op = "SET_SETTING" THEN Words ELSE {NoWord} : StartOperation(k, w, d)
  /\ UNCHANGED workflow

CancelCommand(d) ==
  /\ At("COMMAND")
  /\ workflow' = Reported(RequestStop(workflow))
  /\ IF activeValid /\ (WorkflowActive(workflow) => workflow.waiting)
     THEN Cancel(active.id, d) /\ todo' = <<"TAKE">>
     ELSE UNCHANGED vars /\ Done
  /\ UNCHANGED nextRequestId

\* A slip: a workflow begins beside another request.
StartWorkflowBusy(kind, cycles) ==
  /\ At("COMMAND") /\ CanBegin(workflow, kind, belief.mode)
  /\ workflow' = Begun(kind, cycles, belief.mode)
  /\ todo' = <<"SERVICE">>
  /\ UNCHANGED <<vars, nextRequestId>>
\* startWorkflow().
StartWorkflow(kind, cycles) ==
  /\ At("COMMAND") /\ SlotIdle /\ CanBegin(workflow, kind, belief.mode)
  /\ workflow' = Begun(kind, cycles, belief.mode)
  /\ todo' = <<"SERVICE">>
  /\ UNCHANGED <<vars, nextRequestId>>

ProcessCommand ==
  \/ NoCommand \/ BeginCommand \/ EndCommand \/ ProbeCommand
  \/ \E d \in Advances :
       \/ Scan(d) \/ CancelCommand(d)
       \/ \E k \in UsedKinds : Request(k, d)
  \/ \E kind \in WorkflowKinds, cycles \in Cycles : StartWorkflow(kind, cycles)

CliNext ==
  \/ Poll \/ Polling \/ Take \/ Bind \/ Unbinding
  \/ \E d \in Advances : Service(d) \/ Attach(d) \/ Probe(d)
  \/ ProcessCommand

\* loop() goes round and round; nothing is assumed of the user.
CliSpec == CliInit /\ [][CliNext]_allVars /\ WF_allVars(CliNext)
-----------------------------------------------------------------------------
(* What the loop and the driver promise together.                          *)

\* A workflow that is active has the slot to itself: while it waits, its own
\* request or the result of it is there, and otherwise nothing is.  Neither
\* commands nor a refused start leave it waiting for a result that never
\* comes or make it count the result of another request.
WorkflowOwnsSlot ==
  WorkflowActive(workflow) =>
    IF ~workflow.waiting THEN SlotIdle
    ELSE \/ activeValid /\ active.id = workflow.id /\ active.kind = workflow.operation
         \/ terminalValid /\ terminal.id = workflow.id
              /\ terminal.kind = workflow.operation

\* No request of a workflow is refused for the sensor's mode: as long as the
\* driver knows the mode, it is the one the workflow's steps were chosen for.
WorkflowModeKept ==
  WorkflowActive(workflow) /\ belief.attached => belief.mode = workflow.mode

\* A deadline made of the published limits is enough: an owner that polls in
\* every tick never loses a request to it, whatever the transfers return and
\* whatever the result would be called (TIMED_OUT, PARTIAL, INDETERMINATE).
\* No poll finds the deadline over, and no call that is made now returns after it.
BudgetSuffices ==
  activeValid =>
    /\ ~poll.on => \A d \in Advances : d < active.deadline
    /\ Transferring => \A dur \in Durations : poll.at + dur < active.deadline

\* The bus is scanned only when the sensor can be addressed: it is not busy
\* with an earlier command, however that ended.
ScanWhenQuiet == [][\A d \in Advances : Scan(d) => truth.busy <= d]_allVars

\* Every workflow ends, on any bus and with any sensor.
WorkflowEnds == WorkflowActive(workflow) ~> ~WorkflowActive(workflow)

\* The loop is an owner as fair as the driver needs one (FairOwner).
LoopIsFair == FairOwner
=============================================================================
