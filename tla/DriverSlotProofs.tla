-------------------------- MODULE DriverSlotProofs --------------------------
(***************************************************************************)
(* The promise about requests, the bounds on the calls of the transport    *)
(* and the time the sensor gets, for every value of the constants.         *)
(*                                                                         *)
(* The number of calls an operation has made is a function of its phase    *)
(* (CallsBefore): that is what bounds them, and what the refinement of     *)
(* OperationSlot needs.  The gate is closed behind every attempt that      *)
(* leaves the operation active, and outlasts the sensor's business.        *)
(***************************************************************************)
EXTENDS DriverTypeProofs

\* The calls of the transport an operation has made when it comes to a phase.
ReadCalls(p, i) == IF p = "SEND_COMMAND" THEN 2 * i
                   ELSE IF p = "SEND_VERIFY_COMMAND" THEN 2 ELSE 2 * i + 1
AttachCalls(p, i) == IF p \in {"WAIT_POWER_UP", "SEND_WAKE"} THEN 0
                     ELSE IF p \in {"WAIT_WAKE", "SEND_STOP"} THEN 1
                     ELSE IF p \in {"WAIT_STOP", "SEND_READ_COMMAND"} THEN 2
                     ELSE IF p = "SEND_VERIFY_COMMAND" THEN 4 ELSE 2 * i + 3
SettingCalls(p, i) == IF i # 0 THEN i + 1 ELSE IF p = "SEND_COMMAND" THEN 0 ELSE 1
WakeCalls(p, i) == IF p = "SEND_COMMAND" THEN 0
                   ELSE IF i = 0 THEN 1
                   ELSE IF p = "SEND_VERIFY_COMMAND" THEN 3 ELSE 2 * i
CommandCalls(p, i) == IF p = "SEND_COMMAND" THEN 0 ELSE 1
FetchCalls(p, i) == IF p = "SEND_READY_COMMAND" THEN 0
                    ELSE IF p = "READ_READY_RESPONSE" THEN 1
                    ELSE IF p = "SEND_READ_COMMAND" THEN 2 ELSE 3
ShotCalls(p, i) == IF p \in {"SEND_COMMAND", "WAIT_EXECUTION"} THEN CommandCalls(p, i)
                   ELSE FetchCalls(p, i) + 1
ResetCalls(p, i) == IF p \in {"SEND_COMMAND", "WAIT_EXECUTION"} THEN CommandCalls(p, i)
                    ELSE IF p = "SEND_VERIFY_COMMAND" THEN 2 * i + 1 ELSE 2 * i + 2

CallsBefore(k, p, i) ==
  IF k.op = "ATTACH" THEN AttachCalls(p, i)
  ELSE IF k.op \in ReadOps THEN ReadCalls(p, i)
  ELSE IF k.op = "SET_SETTING" THEN SettingCalls(p, i)
  ELSE IF k.op = "WAKE_UP" THEN WakeCalls(p, i)
  ELSE IF k.op = "FETCH_SAMPLE" THEN FetchCalls(p, i)
  ELSE IF k.op \in SingleShotOps THEN ShotCalls(p, i)
  ELSE IF k.op \in ResetOps THEN ResetCalls(p, i)
  ELSE IF EndsWithSend(k) THEN 0
  ELSE CommandCalls(p, i)

\* MaxCallbacks, class by class.
LEMMA MaxCallbacksCases ==
  ASSUME NEW k
  PROVE  /\ k.op = "ATTACH" => MaxCallbacks(k) = 6
         /\ k.op \in {"READ_DATA_READY", "READ_SENSOR_VARIANT", "READ_SETTING",
                      "SELF_TEST", "FORCED_RECALIBRATION", "DIAGNOSTIC_READ_WORDS"}
              => MaxCallbacks(k) = 2
         /\ k.op \in {"READ_IDENTITY", "FETCH_SAMPLE"} => MaxCallbacks(k) = 4
         /\ k.op \in SingleShotOps \cup ResetOps \cup {"SET_SETTING", "WAKE_UP"}
              => MaxCallbacks(k) = 5
         /\ k.op = "READ_CONFIGURATION" => MaxCallbacks(k) = 14
         /\ MaxCallbacks(k) \in 1 .. 14
  BY DEF MaxCallbacks, SingleShotOps, ResetOps

\* No phase has made more calls than the published bound, and a phase that
\* calls the transport has made fewer.
LEMMA CallsAreBounded ==
  ASSUME NEW a, Standing(a)
  PROVE  LET n == CallsBefore(a.kind, a.phase, a.index)
         IN /\ n \in 0 .. MaxCallbacks(a.kind)
            /\ a.phase \in SendPhases \cup ReadPhases => n + 1 <= MaxCallbacks(a.kind)
<1> DEFINE p == a.phase
           i == a.index
           k == a.kind
           Bounded(n) == /\ n \in 0 .. MaxCallbacks(k)
                         /\ p \in SendPhases \cup ReadPhases
                              => n + 1 <= MaxCallbacks(k)
<1> USE MaxCallbacksCases DEF SendPhases, ReadPhases
<1>0. k \in Kinds /\ i \in 0 .. 6 /\ <<p, i>> \in Reachable(k)
  BY DEF Standing
<1>1. CASE k.op = "ATTACH"
  <2>1. <<p, i>> \in AttachSteps /\ CallsBefore(k, p, i) = AttachCalls(p, i)
    BY <1>0, <1>1, ReachableCases DEF CallsBefore
  <2> QED BY <1>1, <2>1 DEF AttachSteps, AttachCalls
<1>2. CASE k.op \in ReadOps
  <2>1. CallsBefore(k, p, i) = ReadCalls(p, i)
    BY <1>2 DEF CallsBefore, ReadOps
  <2>2. CASE k.op = "READ_IDENTITY"
    <3>1. <<p, i>> \in IdentitySteps
      BY <1>0, <2>2, ReachableCases
    <3> QED BY <2>1, <2>2, <3>1 DEF IdentitySteps, ReadSteps, ReadCalls
  <2>3. CASE k.op = "READ_CONFIGURATION"
    <3>1. <<p, i>> \in ConfigurationSteps
      BY <1>0, <2>3, ReachableCases
    <3> QED BY <2>1, <2>3, <3>1 DEF ConfigurationSteps, ReadCalls
  <2>4. CASE k.op \in {"READ_SENSOR_VARIANT", "READ_DATA_READY", "READ_SETTING"}
    <3>1. <<p, i>> \in ReadSteps
      BY <1>0, <2>4, ReachableCases
    <3> QED BY <2>1, <2>4, <3>1 DEF ReadSteps, ReadCalls
  <2> QED BY <1>2, <2>2, <2>3, <2>4 DEF ReadOps
<1>3. CASE k.op = "SET_SETTING"
  <2>1. <<p, i>> \in SettingSteps /\ CallsBefore(k, p, i) = SettingCalls(p, i)
    BY <1>0, <1>3, ReachableCases DEF CallsBefore, ReadOps
  <2> QED BY <1>3, <2>1 DEF SettingSteps, SettingCalls
<1>4. CASE k.op \in ModeOps
  <2>1. CASE k.op = "WAKE_UP"
    <3>1. <<p, i>> \in WakeSteps /\ CallsBefore(k, p, i) = WakeCalls(p, i)
      BY <1>0, <2>1, ReachableCases DEF CallsBefore, ReadOps
    <3> QED BY <2>1, <3>1 DEF WakeSteps, WakeCalls
  <2>2. CASE k.op # "WAKE_UP"
    <3>1. <<p, i>> \in CommandSteps /\ CallsBefore(k, p, i) = CommandCalls(p, i)
      BY <1>0, <1>4, <2>2, ReachableCases
         DEF CallsBefore, ReadOps, ModeOps, SingleShotOps, ResetOps, EndsWithSend,
             DiagnosticOps
    <3> QED BY <3>1 DEF CommandSteps, CommandCalls
  <2> QED BY <2>1, <2>2
<1>5. CASE k.op \in MeasurementOps
  <2>1. CASE k.op = "FETCH_SAMPLE"
    <3>1. <<p, i>> \in FetchSteps /\ CallsBefore(k, p, i) = FetchCalls(p, i)
      BY <1>0, <2>1, ReachableCases DEF CallsBefore, ReadOps
    <3> QED BY <2>1, <3>1 DEF FetchSteps, FetchCalls
  <2>2. CASE k.op \in SingleShotOps
    <3>1. /\ <<p, i>> \in CommandSteps \cup FetchSteps
          /\ CallsBefore(k, p, i) = ShotCalls(p, i)
      BY <1>0, <2>2, ReachableCases DEF CallsBefore, ReadOps, SingleShotOps
    <3> QED BY <2>2, <3>1 DEF CommandSteps, FetchSteps, ShotCalls, CommandCalls, FetchCalls
  <2> QED BY <1>5, <2>1, <2>2 DEF MeasurementOps
<1>6. CASE k.op \in MaintenanceOps
  <2>1. CASE k.op \in ResetOps
    <3>1. <<p, i>> \in ResetSteps /\ CallsBefore(k, p, i) = ResetCalls(p, i)
      BY <1>0, <2>1, ReachableCases DEF CallsBefore, ReadOps, SingleShotOps, ResetOps
    <3> QED BY <2>1, <3>1 DEF ResetSteps, CommandSteps, ResetCalls, CommandCalls
  <2>2. CASE k.op \notin ResetOps
    <3>1. CallsBefore(k, p, i) = CommandCalls(p, i)
      BY <1>6, <2>2
         DEF CallsBefore, ReadOps, MaintenanceOps, SingleShotOps, ResetOps,
             EndsWithSend, DiagnosticOps
    <3>2. \/ k.op = "PERSIST_SETTINGS" /\ <<p, i>> \in CommandSteps
          \/ /\ k.op \in {"SELF_TEST", "FORCED_RECALIBRATION"}
             /\ <<p, i>> \in DeferredSteps
      BY <1>0, <1>6, <2>2, ReachableCases DEF MaintenanceOps, ResetOps
    <3> QED BY <3>1, <3>2 DEF CommandSteps, DeferredSteps, CommandCalls
  <2> QED BY <2>1, <2>2
<1>7. CASE k.op \in DiagnosticOps
  <2>1. <<p, i>> \in ReadSteps
    BY <1>0, <1>7, ReachableCases
  <2>2. CallsBefore(k, p, i) = IF EndsWithSend(k) THEN 0 ELSE CommandCalls(p, i)
    BY <1>7 DEF CallsBefore, ReadOps, DiagnosticOps, SingleShotOps, ResetOps
  <2>3. ~EndsWithSend(k) => k.op = "DIAGNOSTIC_READ_WORDS"
    BY <1>7 DEF EndsWithSend
  <2> QED BY <2>1, <2>2, <2>3 DEF ReadSteps, CommandCalls
<1> QED
  BY <1>0, <1>1, <1>2, <1>3, <1>4, <1>5, <1>6, <1>7, OpCases

\* Sending leads to a phase with one more call, ...
LEMMA SendingCounts ==
  ASSUME NEW a, Standing(a), a.phase \in SendPhases, ~EndsWithSend(a.kind)
  PROVE  CallsBefore(a.kind, Leg(a).phase, Leg(a).index)
           = CallsBefore(a.kind, a.phase, a.index) + 1
<1> DEFINE p == a.phase
           i == a.index
           k == a.kind
<1> USE DEF SendPhases, Query, Order
<1>0. k \in Kinds /\ i \in 0 .. 6 /\ <<p, i>> \in Reachable(k)
  BY DEF Standing
<1>1. CASE k.op = "ATTACH"
  <2>1. <<p, i>> \in AttachSteps /\ Leg(a) = AttachLeg(a)
    BY <1>0, <1>1, ReachableCases, LegCases
  <2>2. \A q, j : CallsBefore(k, q, j) = AttachCalls(q, j)
    BY <1>1 DEF CallsBefore
  <2>3. CASE p = "SEND_WAKE"
    BY <2>1, <2>2, <2>3 DEF AttachLeg, AttachCalls
  <2>4. CASE p = "SEND_STOP"
    BY <2>1, <2>2, <2>4 DEF AttachLeg, AttachCalls
  <2>5. CASE p = "SEND_READ_COMMAND"
    BY <2>1, <2>2, <2>5 DEF AttachLeg, AttachCalls, AttachSteps
  <2>6. CASE p = "SEND_VERIFY_COMMAND"
    BY <2>1, <2>2, <2>6 DEF AttachLeg, AttachCalls
  <2> QED BY <2>1, <2>3, <2>4, <2>5, <2>6 DEF AttachSteps
<1>2. CASE k.op \in ReadOps
  <2>1. Leg(a) = ReadLeg(a) /\ \A q, j : CallsBefore(k, q, j) = ReadCalls(q, j)
    BY <1>2, LegCases DEF CallsBefore, ReadOps
  <2>2. <<p, i>> \in IdentitySteps \cup ConfigurationSteps \cup ReadSteps
    BY <1>0, <1>2, ReachableCases DEF ReadOps
  <2> QED
    BY <1>0, <2>1, <2>2
       DEF ReadLeg, ReadCalls, IdentitySteps, ConfigurationSteps, ReadSteps
<1>3. CASE k.op = "SET_SETTING"
  <2>1. Leg(a) = SettingLeg(a) /\ \A q, j : CallsBefore(k, q, j) = SettingCalls(q, j)
    BY <1>3, LegCases DEF CallsBefore, ReadOps
  <2>2. <<p, i>> \in SettingSteps
    BY <1>0, <1>3, ReachableCases
  <2> QED BY <2>1, <2>2 DEF SettingLeg, SettingCalls, SettingSteps
<1>4. CASE k.op \in ModeOps
  <2>1. Leg(a) = ModeLeg(a)
    BY <1>4, LegCases
  <2>2. CASE k.op = "WAKE_UP"
    <3>1. <<p, i>> \in WakeSteps /\ \A q, j : CallsBefore(k, q, j) = WakeCalls(q, j)
      BY <1>0, <2>2, ReachableCases DEF CallsBefore, ReadOps
    <3>2. CASE p = "SEND_COMMAND"
      BY <2>1, <3>1, <3>2 DEF ModeLeg, WakeCalls
    <3>3. CASE p = "SEND_READ_COMMAND"
      BY <2>1, <3>1, <3>3 DEF ModeLeg, WakeCalls, WakeSteps
    <3>4. CASE p = "SEND_VERIFY_COMMAND"
      BY <2>1, <3>1, <3>4 DEF ModeLeg, WakeCalls, WakeSteps
    <3> QED BY <3>1, <3>2, <3>3, <3>4 DEF WakeSteps
  <2>3. CASE k.op # "WAKE_UP"
    <3>1. <<p, i>> \in CommandSteps
      BY <1>0, <1>4, <2>3, ReachableCases
    <3>2. \A q, j : CallsBefore(k, q, j) = CommandCalls(q, j)
      BY <1>4, <2>3
         DEF CallsBefore, ReadOps, ModeOps, SingleShotOps, ResetOps, EndsWithSend,
             DiagnosticOps
    <3>3. p = "SEND_COMMAND"
      BY <3>1 DEF CommandSteps
    <3> QED BY <2>1, <3>2, <3>3 DEF ModeLeg, CommandCalls
  <2> QED BY <2>2, <2>3
<1>5. CASE k.op \in MeasurementOps
  <2>1. Leg(a) = MeasurementLeg(a)
    BY <1>5, LegCases
  <2>2. <<p, i>> \in CommandSteps \cup FetchSteps
    BY <1>0, <1>5, ReachableCases DEF MeasurementOps
  <2>3. CASE k.op = "FETCH_SAMPLE"
    <3>1. <<p, i>> \in FetchSteps /\ \A q, j : CallsBefore(k, q, j) = FetchCalls(q, j)
      BY <1>0, <2>3, ReachableCases DEF CallsBefore, ReadOps
    <3>2. CASE p = "SEND_READY_COMMAND"
      BY <2>1, <3>1, <3>2 DEF MeasurementLeg, FetchCalls
    <3>3. CASE p = "SEND_READ_COMMAND"
      BY <2>1, <3>1, <3>3 DEF MeasurementLeg, FetchCalls
    <3> QED BY <3>1, <3>2, <3>3 DEF FetchSteps
  <2>4. CASE k.op \in SingleShotOps
    <3>1. \A q, j : CallsBefore(k, q, j) = ShotCalls(q, j)
      BY <2>4 DEF CallsBefore, ReadOps, SingleShotOps
    <3>2. CASE p = "SEND_COMMAND"
      BY <2>1, <3>1, <3>2 DEF MeasurementLeg, ShotCalls, CommandCalls
    <3>3. CASE p = "SEND_READY_COMMAND"
      BY <2>1, <3>1, <3>3 DEF MeasurementLeg, ShotCalls, FetchCalls
    <3>4. CASE p = "SEND_READ_COMMAND"
      BY <2>1, <3>1, <3>4 DEF MeasurementLeg, ShotCalls, FetchCalls
    <3> QED BY <2>2, <3>2, <3>3, <3>4 DEF CommandSteps, FetchSteps
  <2> QED BY <1>5, <2>3, <2>4 DEF MeasurementOps
<1>6. CASE k.op \in MaintenanceOps
  <2>1. Leg(a) = MaintenanceLeg(a)
    BY <1>6, LegCases
  <2>2. CASE k.op \in ResetOps
    <3>1. <<p, i>> \in ResetSteps /\ \A q, j : CallsBefore(k, q, j) = ResetCalls(q, j)
      BY <1>0, <2>2, ReachableCases DEF CallsBefore, ReadOps, SingleShotOps, ResetOps
    <3> QED
      BY <2>1, <3>1 DEF MaintenanceLeg, ResetCalls, CommandCalls, ResetSteps, CommandSteps
  <2>3. CASE k.op \notin ResetOps
    <3>1. \A q, j : CallsBefore(k, q, j) = CommandCalls(q, j)
      BY <1>6, <2>3
         DEF CallsBefore, ReadOps, MaintenanceOps, SingleShotOps, ResetOps,
             EndsWithSend, DiagnosticOps
    <3>2. p = "SEND_COMMAND"
      BY <1>0, <1>6, <2>3, ReachableCases
         DEF MaintenanceOps, ResetOps, CommandSteps, DeferredSteps
    <3> QED BY <2>1, <3>1, <3>2 DEF MaintenanceLeg, CommandCalls
  <2> QED BY <2>2, <2>3
<1>7. CASE k.op \in DiagnosticOps
  <2>1. <<p, i>> \in ReadSteps /\ Leg(a) = DiagnosticLeg(a)
    BY <1>0, <1>7, ReachableCases, LegCases
  <2>2. \A q, j : CallsBefore(k, q, j) = CommandCalls(q, j)
    BY <1>7 DEF CallsBefore, ReadOps, DiagnosticOps, SingleShotOps, ResetOps
  <2> QED BY <2>1, <2>2 DEF DiagnosticLeg, CommandCalls, ReadSteps
<1> QED
  BY <1>0, <1>1, <1>2, <1>3, <1>4, <1>5, <1>6, <1>7, OpCases

\* ... waiting to one with as many, ...
LEMMA WaitingCounts ==
  ASSUME NEW a, Standing(a), a.phase \in WaitPhases, ~EndsWithWait(a.kind)
  PROVE  CallsBefore(a.kind, PhaseAfterWait(a), a.index)
           = CallsBefore(a.kind, a.phase, a.index)
<1> DEFINE p == a.phase
           i == a.index
           k == a.kind
           next == PhaseAfterWait(a)
<1> USE DEF WaitPhases
<1>0. k \in Kinds /\ i \in 0 .. 6 /\ <<p, i>> \in Reachable(k)
  BY DEF Standing
<1>1. CASE k.op = "ATTACH"
  <2>1. <<p, i>> \in AttachSteps /\ \A q, j : CallsBefore(k, q, j) = AttachCalls(q, j)
    BY <1>0, <1>1, ReachableCases DEF CallsBefore
  <2>2. CASE p = "WAIT_EXECUTION"
    <3>1. next \in {"READ_RESPONSE", "READ_VERIFY_RESPONSE"}
      BY <1>1, <2>2, AfterExecutionCases DEF PhaseAfterWait
    <3> QED BY <2>1, <2>2, <3>1 DEF AttachCalls
  <2>3. CASE p = "WAIT_POWER_UP"
    BY <2>1, <2>3 DEF PhaseAfterWait, AttachCalls
  <2>4. CASE p = "WAIT_WAKE"
    BY <2>1, <2>4 DEF PhaseAfterWait, AttachCalls
  <2>5. CASE p = "WAIT_STOP"
    BY <2>1, <2>5 DEF PhaseAfterWait, AttachCalls
  <2> QED BY <2>2, <2>3, <2>4, <2>5
<1>2. CASE k.op # "ATTACH"
  <2>1. Reachable(k) \in {IdentitySteps, ConfigurationSteps, ReadSteps, SettingSteps,
           WakeSteps, CommandSteps, FetchSteps, CommandSteps \cup FetchSteps,
           ResetSteps, DeferredSteps}
    BY <1>0, <1>2, OpCases, ReachableCases
       DEF ReadOps, MeasurementOps, MaintenanceOps, ResetOps, SingleShotOps
  <2>2. p = "WAIT_EXECUTION" /\ next = PhaseAfterExecution(a)
    BY <1>0, <2>1
       DEF PhaseAfterWait, IdentitySteps, ConfigurationSteps, ReadSteps, SettingSteps,
           WakeSteps, CommandSteps, FetchSteps, ResetSteps, DeferredSteps
  <2>3. CASE k.op \in ReadOps
    <3>1. \A q, j : CallsBefore(k, q, j) = ReadCalls(q, j)
      BY <2>3 DEF CallsBefore, ReadOps
    <3>2. next \in {"READ_RESPONSE", "READ_VERIFY_RESPONSE"}
      BY <2>2, <2>3, AfterExecutionCases
    <3> QED BY <2>2, <3>1, <3>2 DEF ReadCalls
  <2>4. CASE k.op = "SET_SETTING"
    <3>1. <<p, i>> \in SettingSteps /\ \A q, j : CallsBefore(k, q, j) = SettingCalls(q, j)
      BY <1>0, <2>4, ReachableCases DEF CallsBefore, ReadOps
    <3>2. next = IF i = 2 THEN "SEND_COMMAND" ELSE "READ_RESPONSE"
      BY <2>2, <2>4, AfterExecutionCases
    <3> QED BY <2>2, <3>1, <3>2 DEF SettingCalls, SettingSteps
  <2>5. CASE k.op = "WAKE_UP"
    <3>1. <<p, i>> \in WakeSteps /\ \A q, j : CallsBefore(k, q, j) = WakeCalls(q, j)
      BY <1>0, <2>5, ReachableCases DEF CallsBefore, ReadOps
    <3>2. next = <<"SEND_READ_COMMAND", "READ_RESPONSE",
                   "READ_VERIFY_RESPONSE">>[i + 1]
      BY <2>2, <2>5, AfterExecutionCases
    <3>3. i \in {0, 1, 2}
      BY <2>2, <3>1 DEF WakeSteps
    <3> QED BY <2>2, <3>1, <3>2, <3>3 DEF WakeCalls
  <2>6. CASE k.op \in SingleShotOps
    <3>1. \A q, j : CallsBefore(k, q, j) = ShotCalls(q, j)
      BY <2>6 DEF CallsBefore, ReadOps, SingleShotOps
    <3>2. next = "SEND_READY_COMMAND"
      BY <2>2, <2>6, AfterExecutionCases
    <3> QED BY <2>2, <3>1, <3>2 DEF ShotCalls, CommandCalls, FetchCalls
  <2>7. CASE k.op \in {"SELF_TEST", "FORCED_RECALIBRATION"}
    <3>1. \A q, j : CallsBefore(k, q, j) = CommandCalls(q, j)
      BY <2>7 DEF CallsBefore, ReadOps, SingleShotOps, ResetOps, EndsWithSend, DiagnosticOps
    <3>2. next = "READ_DEFERRED_RESULT"
      BY <2>2, <2>7, AfterExecutionCases
    <3> QED BY <2>2, <3>1, <3>2 DEF CommandCalls
  <2>8. CASE k.op \in ResetOps
    <3>1. <<p, i>> \in ResetSteps /\ \A q, j : CallsBefore(k, q, j) = ResetCalls(q, j)
      BY <1>0, <2>8, ReachableCases DEF CallsBefore, ReadOps, SingleShotOps, ResetOps
    <3>2. next = "SEND_VERIFY_COMMAND"
      BY <2>2, <2>8, AfterExecutionCases
    <3> QED BY <2>2, <3>1, <3>2 DEF ResetCalls, CommandCalls, ResetSteps, CommandSteps
  <2>9. CASE k.op \in DiagnosticOps
    <3>1. \A q, j : CallsBefore(k, q, j)
                      = IF EndsWithSend(k) THEN 0 ELSE CommandCalls(q, j)
      BY <2>9 DEF CallsBefore, ReadOps, DiagnosticOps, SingleShotOps, ResetOps
    <3>2. next = "READ_RESPONSE"
      BY <2>2, <2>9, AfterExecutionCases
    <3> QED BY <2>2, <3>1, <3>2 DEF CommandCalls
  <2>10. k.op # "FETCH_SAMPLE"
    BY <1>0, <2>2, ReachableCases DEF FetchSteps
  <2> QED
    BY <1>0, <1>2, <2>3, <2>4, <2>5, <2>6, <2>7, <2>8, <2>9, <2>10, OpCases
       DEF EndsWithWait, ModeOps, MaintenanceOps, MeasurementOps, ResetOps
<1> QED
  BY <1>1, <1>2

\* ... and so is an operation that begins.
LEMMA BeginningCounts ==
  ASSUME NEW k \in Kinds
  PROVE  CallsBefore(k, FirstPhase(k), 0) = 0
<1>1. FirstPhase(k) = IF k.op = "ATTACH" THEN "WAIT_POWER_UP"
                      ELSE IF k.op = "FETCH_SAMPLE" THEN "SEND_READY_COMMAND"
                      ELSE "SEND_COMMAND"
  BY DEF FirstPhase
<1> QED
  BY <1>1
     DEF CallsBefore, AttachCalls, ReadCalls, SettingCalls, WakeCalls, FetchCalls,
         ShotCalls, ResetCalls, CommandCalls, ReadOps, SingleShotOps, ResetOps,
         EndsWithSend, DiagnosticOps
-----------------------------------------------------------------------------
(* What a step does to the slot, the gate and the sensor's business.       *)

Count(a) == CallsBefore(a.kind, a.phase, a.index)

\* The slot holds an operation or a result, and counts the calls.
Counted ==
  /\ ~(activeValid /\ terminalValid)
  /\ ~activeValid => active = NoOperation
  /\ activeValid => active.callbacksUsed = Count(active)
  /\ terminal.callbacksUsed <= MaxCallbacks(terminal.kind)

\* A poll that has called the transport has closed the gate ...
Paced == poll.on /\ poll.used > 0 => nextSafe > poll.at
\* ... which stays closed for as long as the sensor is busy.
Settled == truth.busy <= nextSafe

SlotInv == Counted /\ Paced /\ Settled

\* The operation goes on with n calls more ...
GoesOn(n) ==
  /\ UNCHANGED <<activeValid, terminalValid, terminal, nextGeneration>>
  /\ ~activeValid => UNCHANGED active
  /\ active'.id = active.id /\ active'.kind = active.kind
  /\ active'.callbacksUsed = active.callbacksUsed + n
  /\ activeValid => Count(active') = Count(active) + n
\* ... or ends with n calls more.
Ends(n) ==
  /\ activeValid /\ ~activeValid' /\ terminalValid' /\ UNCHANGED nextGeneration
  /\ active' = NoOperation /\ terminal'.outcome \in Outcomes
  /\ terminal'.id = active.id /\ terminal'.kind = active.kind
  /\ terminal'.callbacksUsed = active.callbacksUsed + n

\* A phase that uses the bus is at work.
Calling == /\ activeValid /\ poll.on /\ nextSafe <= poll.at
           /\ active.phase \in SendPhases \cup ReadPhases

\* An iteration of the poll loop without and with a call of the transport.
QuietMove == /\ poll.on
             /\ GoesOn(0) \/ Ends(0)
             /\ UNCHANGED <<nextSafe, truth>>
             /\ poll'.on => poll'.used = poll.used /\ poll'.at = poll.at
CallMove == /\ Calling
            /\ GoesOn(1) \/ Ends(1)
            /\ poll'.on => nextSafe' > poll'.at
            /\ Settled => Settled'

\* The end of an operation.
LEMMA FinishEnds ==
  ASSUME IInv, activeValid, NEW outcome \in Outcomes, NEW effect, NEW b, NEW a, NEW at,
         NEW n \in {0, 1}, a.id = active.id, a.kind = active.kind,
         a.callbacksUsed = active.callbacksUsed + n, UNCHANGED nextGeneration,
         FinishOperation(outcome, effect, b, a, at)
  PROVE  Ends(n) /\ ~poll'.on
  BY DEF FinishOperation, Ends, NotPolling

\* The end of an operation that failed.
LEMMA FailureEnds ==
  ASSUME IInv, activeValid, NEW status, NEW b, NEW a, NEW last, NEW at,
         NEW n \in {0, 1}, a.id = active.id, a.kind = active.kind,
         a.callbacksUsed = active.callbacksUsed + n, UNCHANGED nextGeneration,
         FinishOperationFailure(status, b, a, last, at)
  PROVE  Ends(n) /\ ~poll'.on
<1>1. PICK outcome, effect, b2 :
        outcome \in Outcomes /\ FinishOperation(outcome, effect, b2, a, at)
  BY DEF FinishOperationFailure, Outcomes
<1> QED BY <1>1, FinishEnds

\* The iterations that leave the bus alone.
LEMMA ReturnMoves ==
  ASSUME IInv, PollBreak \/ NotDue \/ BudgetExhausted
  PROVE  QuietMove
<1>1. /\ UNCHANGED <<activeValid, active, terminalValid, terminal>> /\ Quiet
      /\ poll' = NotPolling /\ activeValid /\ active \in Operations /\ poll.on
  BY DEF PollBreak, NotDue, BudgetExhausted, Transferring, Working, IInv, SlotOK, InTime
<1>2. Count(active) \in Nat /\ Count(active') = Count(active)
  BY <1>1, ActiveStands, CallsAreBounded, MaxCallbacksCases DEF Count, IInv
<1>3. active.callbacksUsed \in Nat
  BY <1>1 DEF Operations
<1> QED
  BY <1>1, <1>2, <1>3 DEF Quiet, QuietMove, GoesOn, NotPolling

\* The gate puts the phase off.
LEMMA GateMoves ==
  ASSUME IInv, GateDefers
  PROVE  QuietMove
<1>1. active \in Operations /\ poll \in Polls /\ activeValid
  BY DEF IInv, SlotOK, InTime, GateDefers
<1>2. active' = [active EXCEPT !.nextDue = nextSafe]
  BY DEF GateDefers, Proceed
<1>3. /\ active'.id = active.id /\ active'.kind = active.kind
      /\ active'.phase = active.phase /\ active'.index = active.index
      /\ active'.callbacksUsed = active.callbacksUsed /\ active.callbacksUsed \in Nat
  BY <1>1, <1>2 DEF Operations
<1>4. GoesOn(0)
  <2>1. Count(active') = Count(active)
    BY <1>3 DEF Count
  <2>2. Count(active) + 0 = Count(active)
    <3>1. Count(active) \in Nat
      BY <1>1, ActiveStands, CallsAreBounded, MaxCallbacksCases DEF Count, IInv
    <3> QED BY <3>1
  <2> QED BY <1>1, <1>3, <2>1, <2>2 DEF GoesOn, GateDefers, Proceed, Quiet
<1>5. poll'.on => poll'.used = poll.used /\ poll'.at = poll.at
  BY <1>1 DEF GateDefers, Proceed, Polls, NotPolling
<1> QED BY <1>4, <1>5 DEF QuietMove, GateDefers, Quiet

\* A wait is over.
LEMMA WaitOverMoves ==
  ASSUME IInv, WaitOver
  PROVE  QuietMove
<1>1. active \in Operations /\ poll \in Polls /\ activeValid /\ Standing(active)
  BY ActiveStands DEF IInv, SlotOK, InTime, WaitOver, WaitIsOver, Working
<1>2. active' = [active EXCEPT !.phase = PhaseAfterWait(active)]
  BY DEF WaitOver, Proceed
<1>3. /\ active'.id = active.id /\ active'.kind = active.kind
      /\ active'.phase = PhaseAfterWait(active) /\ active'.index = active.index
      /\ active'.callbacksUsed = active.callbacksUsed /\ active.callbacksUsed \in Nat
  BY <1>1, <1>2 DEF Operations
<1>4. Count(active') = Count(active) /\ Count(active) \in Nat
  BY <1>1, <1>3, WaitingCounts, CallsAreBounded, MaxCallbacksCases
     DEF Count, WaitOver, WaitIsOver
<1>5. GoesOn(0)
  BY <1>1, <1>3, <1>4 DEF GoesOn, WaitOver, Proceed, Quiet
<1>6. poll'.on => poll'.used = poll.used /\ poll'.at = poll.at
  BY <1>1 DEF WaitOver, Proceed, Polls, NotPolling
<1> QED BY <1>5, <1>6 DEF QuietMove, WaitOver, WaitIsOver, Working, Quiet

\* An operation ends without a call.
LEMMA QuietEnds ==
  ASSUME IInv, CommandSettled \/ PersistShortcut
  PROVE  QuietMove
<1>1. active \in Operations /\ activeValid /\ poll.on
  BY DEF IInv, SlotOK, InTime, CommandSettled, WaitIsOver, PersistShortcut, Working
<1>2. active.callbacksUsed + 0 = active.callbacksUsed
  BY <1>1 DEF Operations
<1>3. PICK outcome, effect, b : outcome \in Outcomes /\
        FinishOperation(outcome, effect, b, active, poll.at)
  BY DEF CommandSettled, PersistShortcut, Outcomes
<1>4. Quiet
  BY DEF CommandSettled, PersistShortcut
<1>5. Ends(0) /\ ~poll'.on
  BY <1>1, <1>2, <1>3, <1>4, FinishEnds DEF Quiet
<1> QED BY <1>1, <1>4, <1>5 DEF QuietMove, Quiet
-----------------------------------------------------------------------------
(* The time the sensor gets.                                               *)

\* The table of waits by kind and the sensor's by command agree.
LEMMA TablesAgree ==
  ASSUME NEW k
  PROVE  /\ k.op \in SingleShotOps \cup MaintenanceOps \cup ModeOps
              => ExecutionTime(Command(k.op)) = ExecutionWait(k)
         /\ k.op \in DiagnosticOps \cup {"SET_SETTING"}
              => ExecutionWait(k) = SettleMs["SHORT"]
         /\ \A c : c.name \in {"SET", "GET", "DIAGNOSTIC", "GET_SERIAL", "GET_VARIANT",
                               "GET_DATA_READY", "READ_MEASUREMENT", "READ_WORDS"}
              => ExecutionTime(c) = SettleMs["SHORT"]
<1>1. ASSUME NEW op \in {"STOP_PERIODIC", "SINGLE_SHOT", "REINIT", "SELF_TEST",
                         "FACTORY_RESET"}, k.op = op
      PROVE  ExecutionTime(Command(op)) = SettleMs[op] /\ ExecutionWait(k) = SettleMs[op]
  BY <1>1 DEF ExecutionTime, ExecutionWait, Command, WaitNames
<1>2. ASSUME NEW op \in {"WAKE_UP", "SINGLE_SHOT_RHT_ONLY", "FORCED_RECALIBRATION",
                         "PERSIST_SETTINGS"}, k.op = op
      PROVE  ExecutionTime(Command(op)) = ExecutionWait(k)
  BY <1>2 DEF ExecutionTime, ExecutionWait, Command, WaitNames
<1>3. ASSUME NEW op \in {"START_PERIODIC", "START_LOW_POWER_PERIODIC", "POWER_DOWN"},
             k.op = op
      PROVE  ExecutionTime(Command(op)) = ExecutionWait(k)
  BY <1>3 DEF ExecutionTime, ExecutionWait, Command, WaitNames
<1>4. k.op \in SingleShotOps \cup MaintenanceOps \cup ModeOps
        => ExecutionTime(Command(k.op)) = ExecutionWait(k)
  BY <1>1, <1>2, <1>3 DEF SingleShotOps, MaintenanceOps, ModeOps
<1>5. k.op \in DiagnosticOps \cup {"SET_SETTING"} => ExecutionWait(k) = SettleMs["SHORT"]
  BY DEF ExecutionWait, DiagnosticOps
<1>6. \A c : c.name \in {"SET", "GET", "DIAGNOSTIC", "GET_SERIAL", "GET_VARIANT",
                         "GET_DATA_READY", "READ_MEASUREMENT", "READ_WORDS"}
        => ExecutionTime(c) = SettleMs["SHORT"]
  BY DEF ExecutionTime, WaitNames
<1> QED BY <1>4, <1>5, <1>6

LegTimed(a, leg) ==
  /\ leg.effectful => ExecutionTime(leg.command) = FullWait(a)
  /\ ~leg.effectful => ExecutionTime(leg.command) = SettleMs["SHORT"]
  /\ leg.command.name = "WAKE_UP" => leg.effectful /\ leg.nack

\* The gate closes for as long as the sensor needs for the command.
LEMMA LegTimes ==
  ASSUME NEW a, Standing(a), a.phase \in SendPhases
  PROVE  LegTimed(a, Leg(a))
<1> DEFINE k == a.kind
           p == a.phase
<1> USE DEF Query, Order, LegTimed
<1>0. k \in Kinds /\ <<p, a.index>> \in Reachable(k)
  BY DEF Standing
<1>1. ASSUME NEW c, c \in {Command("GET_SERIAL"), Command("GET_VARIANT"),
               Command("GET_DATA_READY"), Command("READ_MEASUREMENT"),
               Command("DIAGNOSTIC")}
             \/ (\E f : c = GetCommand(f)) \/ (\E f, w : c = SetCommand(f, w))
      PROVE  ExecutionTime(c) = SettleMs["SHORT"] /\ c.name # "WAKE_UP"
  <2>1. c.name \in {"SET", "GET", "DIAGNOSTIC", "GET_SERIAL", "GET_VARIANT",
                    "GET_DATA_READY", "READ_MEASUREMENT", "READ_WORDS"}
    BY <1>1 DEF Command, GetCommand, SetCommand
  <2>2. ExecutionTime(c) = SettleMs["SHORT"]
    BY <2>1, TablesAgree
  <2> QED BY <2>1, <2>2
<1>2. \A op : Command(op).name = op
  BY DEF Command
<1>3. CASE k.op = "ATTACH"
  <2>1. p \in {"SEND_WAKE", "SEND_STOP", "SEND_READ_COMMAND", "SEND_VERIFY_COMMAND"}
        /\ Leg(a) = AttachLeg(a)
    BY <1>0, <1>3, ReachableCases, LegCases DEF AttachSteps, SendPhases
  <2>2. CASE p = "SEND_WAKE"
    <3>1. ExecutionTime(Command("WAKE_UP")) = SettleMs["POWER_UP"]
      BY <1>2 DEF ExecutionTime, WaitNames
    <3> QED BY <1>3, <2>1, <2>2, <3>1 DEF AttachLeg, FullWait
  <2>3. CASE p = "SEND_STOP"
    <3>1. ExecutionTime(Command("STOP_PERIODIC")) = SettleMs["STOP_PERIODIC"]
      BY <1>2 DEF ExecutionTime, WaitNames
    <3> QED BY <1>2, <1>3, <2>1, <2>3, <3>1 DEF AttachLeg, FullWait
  <2>4. CASE p = "SEND_READ_COMMAND"
    BY <1>1, <2>1, <2>4 DEF AttachLeg
  <2>5. CASE p = "SEND_VERIFY_COMMAND"
    BY <1>1, <2>1, <2>5 DEF AttachLeg
  <2> QED BY <2>1, <2>2, <2>3, <2>4, <2>5
<1>4. CASE k.op \in ReadOps
  <2>1. ReadCommand(a) \in {Command("GET_SERIAL"), Command("GET_VARIANT"),
                            Command("GET_DATA_READY"), GetCommand(FieldRead(a))}
    BY DEF ReadCommand
  <2>2. Leg(a) = ReadLeg(a)
    BY <1>4, LegCases
  <2>3. Leg(a).command \in {Command("GET_VARIANT"), ReadCommand(a)}
        /\ Leg(a).effectful = FALSE
    BY <2>2 DEF ReadLeg
  <2>4. ExecutionTime(Leg(a).command) = SettleMs["SHORT"]
        /\ Leg(a).command.name # "WAKE_UP"
    BY <1>1, <2>1, <2>3
  <2> QED BY <2>3, <2>4
<1>5. CASE k.op = "SET_SETTING"
  <2>1. Leg(a) = SettingLeg(a) /\ FullWait(a) = SettleMs["SHORT"]
    BY <1>5, LegCases, TablesAgree DEF FullWait
  <2>2. \E c : /\ (c = GetCommand(k.field)) \/ (\E w : c = SetCommand(k.field, w))
               /\ Leg(a).command = c /\ Leg(a).effectful \in BOOLEAN
    BY <2>1 DEF SettingLeg
  <2> QED BY <1>1, <2>1, <2>2
<1>6. CASE k.op \in ModeOps
  <2>1. Leg(a) = ModeLeg(a) /\ k.op # "ATTACH"
    BY <1>6, LegCases DEF ModeOps
  <2>2. FullWait(a) = ExecutionTime(Command(k.op))
    BY <1>6, <2>1, TablesAgree DEF FullWait
  <2>3. p \in {"SEND_COMMAND", "SEND_READ_COMMAND", "SEND_VERIFY_COMMAND"}
    BY <1>0, <1>6, ReachableCases DEF WakeSteps, CommandSteps, SendPhases
  <2>4. CASE p = "SEND_COMMAND"
    <3>1. \A nack : LET leg == Order(Command(k.op), nack, "WAIT_EXECUTION",
                                     ExecutionWait(k), 0)
                    IN /\ leg.command = Command(k.op) /\ leg.effectful = TRUE
                       /\ leg.nack = nack
      OBVIOUS
    <3>2. Leg(a) = Order(Command(k.op), k.op = "WAKE_UP", "WAIT_EXECUTION",
                         ExecutionWait(k), 0)
      BY <2>1, <2>4 DEF ModeLeg
    <3>3. /\ Leg(a).command = Command(k.op) /\ Leg(a).effectful = TRUE
          /\ Leg(a).nack = (k.op = "WAKE_UP")
      <4> HIDE DEF Order
      <4> QED BY <3>1, <3>2
    <3> QED BY <1>2, <2>2, <3>3
  <2>5. CASE p = "SEND_READ_COMMAND"
    BY <1>1, <2>1, <2>5 DEF ModeLeg
  <2>6. CASE p = "SEND_VERIFY_COMMAND"
    BY <1>1, <2>1, <2>6 DEF ModeLeg
  <2> QED BY <2>3, <2>4, <2>5, <2>6
<1>7. CASE k.op \in MeasurementOps
  <2>1. Leg(a) = MeasurementLeg(a) /\ k.op # "ATTACH" /\ k.op # "WAKE_UP"
    BY <1>7, LegCases DEF MeasurementOps, SingleShotOps
  <2>2. p \in {"SEND_COMMAND", "SEND_READY_COMMAND", "SEND_READ_COMMAND"}
        /\ (p = "SEND_COMMAND" => k.op \in SingleShotOps)
    BY <1>0, <1>7, ReachableCases
       DEF FetchSteps, CommandSteps, SendPhases, MeasurementOps
  <2>3. CASE p = "SEND_COMMAND"
    <3>1. FullWait(a) = ExecutionTime(Command(k.op))
      BY <2>1, <2>2, <2>3, TablesAgree DEF FullWait
    <3> QED BY <1>2, <2>1, <2>3, <3>1 DEF MeasurementLeg
  <2>4. CASE p = "SEND_READY_COMMAND"
    BY <1>1, <2>1, <2>4 DEF MeasurementLeg
  <2>5. CASE p = "SEND_READ_COMMAND"
    BY <1>1, <2>1, <2>5 DEF MeasurementLeg
  <2> QED BY <2>2, <2>3, <2>4, <2>5
<1>8. CASE k.op \in MaintenanceOps
  <2>1. Leg(a) = MaintenanceLeg(a) /\ k.op # "ATTACH" /\ k.op # "WAKE_UP"
    BY <1>8, LegCases DEF MaintenanceOps
  <2>2. FullWait(a) = ExecutionTime(Command(k.op))
    BY <1>8, <2>1, TablesAgree DEF FullWait
  <2>3. CASE p = "SEND_COMMAND"
    BY <1>2, <2>1, <2>2, <2>3 DEF MaintenanceLeg
  <2>4. CASE p # "SEND_COMMAND"
    BY <1>1, <2>1, <2>4 DEF MaintenanceLeg
  <2> QED BY <2>3, <2>4
<1>9. CASE k.op \in DiagnosticOps
  <2>1. Leg(a) = DiagnosticLeg(a) /\ FullWait(a) = SettleMs["SHORT"]
    BY <1>9, LegCases, TablesAgree DEF FullWait, DiagnosticOps
  <2> QED BY <1>1, <2>1 DEF DiagnosticLeg
<1> QED
  BY <1>0, <1>3, <1>4, <1>5, <1>6, <1>7, <1>8, <1>9, OpCases

\* A success is a complete transfer.
LEMMA SuccessIsComplete ==
  ASSUME NEW r \in EffectfulOutcomes \cup PlainOutcomes, r.code = "OK"
  PROVE  r.disposition = "COMPLETE"
<1>1. PICK raw \in RawResults, e \in BOOLEAN : r = Class(Normalise(raw, e))
  BY DEF EffectfulOutcomes, PlainOutcomes
<1> DEFINE r3 == AfterExactness(AfterShape(AfterClock(raw), e))
<1>2. r.code = "OK" => Normalise(raw, e).code = "OK"
      /\ r.disposition = Normalise(raw, e).disposition
  BY <1>1 DEF Class
<1>3. Normalise(raw, e).code = AfterFailure(r3).code
      /\ Normalise(raw, e).disposition = AfterFailure(r3).disposition
  BY DEF Normalise
<1>4. ASSUME NEW x, AfterFailure(x).code = "OK"
      PROVE  x.code = "OK" /\ AfterFailure(x) = x
  BY <1>4 DEF AfterFailure
<1>5. ASSUME NEW x, AfterExactness(x).code = "OK"
      PROVE  AfterExactness(x).disposition = "COMPLETE"
  BY <1>5 DEF AfterExactness
<1> HIDE DEF r3
<1>6. r3.code = "OK" => r3.disposition = "COMPLETE"
  BY <1>5 DEF r3
<1> QED BY <1>2, <1>3, <1>4, <1>6

\* No effectful command takes less time than a plain one.
LEMMA ShortIsShort ==
  ASSUME NEW a
  PROVE  SettleMs["SHORT"] <= FullWait(a)
<1>1. PICK n \in WaitNames : ExecutionWait(a.kind) = SettleMs[n]
  BY DEF ExecutionWait, WaitNames
<1> QED BY <1>1, ShortAssumption DEF FullWait, WaitNames

\* The gate closes behind an attempt, for as long as the sensor is busy.
LEMMA AttemptCloses ==
  ASSUME IInv, NEW c, NEW effectful \in BOOLEAN, NEW nack \in BOOLEAN,
         NEW r \in Answers, NEW dur \in Durations, NEW react,
         Exchange(c, effectful, nack, r, dur, react),
         effectful => ExecutionTime(c) = FullWait(active),
         ~effectful => ExecutionTime(c) = SettleMs["SHORT"],
         c.name = "WAKE_UP" => effectful /\ nack
  PROVE  /\ Settled => Settled'
         /\ r.disposition # "NOT_STARTED" => nextSafe' > Completed(r, dur)
<1> DEFINE at == Completed(r, dur)
           short == SettleMs["SHORT"]
           full == FullWait(active)
           mayRun == \/ r.disposition \in {"COMPLETE", "INDETERMINATE"}
                     \/ ExpectedNack(nack, r)
           need == IF react.took THEN ExecutionTime(c) ELSE short
<1>1. at \in Nat /\ short \in Nat \ {0} /\ full \in Nat \ {0} /\ short <= full
  BY CompletedType, WaitTypes, ShortIsShort DEF IInv, WaitNames
<1>2. CASE r.disposition = "NOT_STARTED"
  <2>1. truth'.busy = truth.busy /\ nextSafe' = nextSafe
    BY <1>2 DEF Exchange, GateAfter, IInv, BusOK, Truths
  <2> QED BY <1>2, <2>1 DEF Settled
<1>3. CASE r.disposition # "NOT_STARTED"
  <2>1. truth'.busy = at + need
    BY <1>3 DEF Exchange, IInv, BusOK, Truths
  <2>2. nextSafe' = at + IF effectful /\ mayRun THEN full ELSE short
    BY <1>3 DEF Exchange, GateAfter
  <2>3. react.took /\ effectful => mayRun
    <3>1. react \in Reactions(sensor, c, r)
      BY DEF Exchange
    <3>2. ASSUME react.took
          PROVE  \/ r.disposition \in {"COMPLETE", "INDETERMINATE"}
                 \/ c.name = "WAKE_UP" /\ r.code = "NACK" /\ r.disposition = "NO_EFFECT"
      BY <3>1, <3>2 DEF Reactions
    <3> QED BY <3>2 DEF ExpectedNack
  <2>4. need <= IF effectful /\ mayRun THEN full ELSE short
    <3>1. CASE effectful
      <4>1. need = IF react.took THEN full ELSE short
        BY <3>1
      <4> HIDE DEF mayRun, need, full, short
      <4> QED BY <1>1, <2>3, <3>1, <4>1
    <3>2. CASE ~effectful
      <4>1. need = short
        BY <3>2
      <4> HIDE DEF mayRun, need, full, short
      <4> QED BY <1>1, <3>2, <4>1
    <3> QED BY <3>1, <3>2
  <2>5. need \in Nat
    BY <1>1, WaitTypes
  <2> HIDE DEF at, need, mayRun, full, short
  <2>6. Settled'
    BY <1>1, <2>1, <2>2, <2>4, <2>5 DEF Settled
  <2>7. nextSafe' > at
    BY <1>1, <2>2
  <2> QED BY <2>6, <2>7 DEF at
<1> QED BY <1>2, <1>3
-----------------------------------------------------------------------------
(* The iterations that use the bus.                                        *)

\* What an attempt to send adds.
LEMMA LegCalls ==
  ASSUME IInv, NEW r \in EffectfulOutcomes \cup PlainOutcomes, NEW dur \in Durations,
         AttemptedLeg(Leg(active), r, dur)
  PROVE  /\ Calling /\ Standing(active) /\ active.phase \in SendPhases
         /\ UNCHANGED nextGeneration
         /\ Settled => Settled'
         /\ TransferStatus(Leg(active).nack, r, dur) = "OK"
              => nextSafe' > Completed(r, dur)
         /\ LET a == Attempted(Leg(active).effectful, r)
            IN /\ a \in Operations
               /\ a.id = active.id /\ a.kind = active.kind
               /\ a.callbacksUsed = active.callbacksUsed + 1
<1> DEFINE leg == Leg(active)
<1>1. /\ r \in Answers /\ activeValid /\ poll.on /\ Standing(active)
      /\ LegOK(active, leg) /\ active.phase \in SendPhases
  BY AttemptedLegStep DEF AttemptedLeg
<1>2. PICK react : Exchange(leg.command, leg.effectful, leg.nack, r, dur, react)
  BY DEF AttemptedLeg
<1>3. leg.effectful \in BOOLEAN /\ leg.nack \in BOOLEAN
  BY <1>1 DEF LegOK
<1>4. LegTimed(active, leg)
  BY <1>1, LegTimes
<1> HIDE DEF leg
<1>5. /\ Settled => Settled'
      /\ r.disposition # "NOT_STARTED" => nextSafe' > Completed(r, dur)
  BY <1>1, <1>2, <1>3, <1>4, AttemptCloses DEF LegTimed
<1>6. TransferStatus(leg.nack, r, dur) = "OK" => r.disposition # "NOT_STARTED"
  BY SuccessIsComplete DEF TransferStatus, ExpectedNack
<1>7. Calling /\ UNCHANGED nextGeneration
  BY <1>1, <1>2 DEF Calling, AttemptedLeg, Transferring, Working, Exchange
<1>8. LET a == Attempted(leg.effectful, r)
      IN /\ a \in Operations /\ a.id = active.id /\ a.kind = active.kind
         /\ a.callbacksUsed = active.callbacksUsed + 1
  <2>1. Attempted(leg.effectful, r).id = active.id
    BY DEF Attempted, IInv, SlotOK, Operations
  <2> QED BY <1>1, <1>3, <2>1, AttemptedType DEF IInv
<1> QED BY <1>1, <1>5, <1>6, <1>7, <1>8 DEF leg

\* What an attempt to read adds.
LEMMA ReadCallsOnce ==
  ASSUME IInv, NEW r \in PlainOutcomes, NEW dur \in Durations, AttemptedRead(r, dur)
  PROVE  /\ Calling /\ Standing(active) /\ UNCHANGED nextGeneration
         /\ Settled => Settled'
         /\ r.disposition # "NOT_STARTED" => nextSafe' > Completed(r, dur)
         /\ LET a == Attempted(FALSE, r)
            IN /\ a \in Operations
               /\ a.id = active.id /\ a.kind = active.kind
               /\ a.callbacksUsed = active.callbacksUsed + 1
<1>1. r \in Answers /\ activeValid /\ poll.on /\ Standing(active)
  BY AttemptedReadStep
<1>2. PICK react : Exchange(ReadWords, FALSE, FALSE, r, dur, react)
  BY DEF AttemptedRead
<1>3. ReadWords.name = "READ_WORDS"
  BY DEF ReadWords, Command
<1>4. ExecutionTime(ReadWords) = SettleMs["SHORT"]
  BY <1>3, TablesAgree
<1>5. /\ Settled => Settled'
      /\ r.disposition # "NOT_STARTED" => nextSafe' > Completed(r, dur)
  BY <1>1, <1>2, <1>3, <1>4, AttemptCloses
<1>6. Calling /\ UNCHANGED nextGeneration
  BY <1>1, <1>2 DEF Calling, AttemptedRead, Transferring, Working, Exchange
<1>7. Attempted(FALSE, r).id = active.id
  BY DEF Attempted, IInv, SlotOK, Operations
<1> QED BY <1>1, <1>5, <1>6, <1>7, AttemptedType DEF IInv

\* A command was sent and the operation goes on.
LEMMA SendMoves ==
  ASSUME IInv, NEW r \in EffectfulOutcomes \cup PlainOutcomes, NEW dur \in Durations,
         Send(r, dur)
  PROVE  CallMove
<1> DEFINE leg == Leg(active)
           sent == Attempted(leg.effectful, r)
           at == Completed(r, dur)
           a == [sent EXCEPT !.phase = leg.phase, !.index = leg.index,
                             !.nextDue = at + leg.wait,
                             !.effect = EffectAfterSend(sent, leg, r)]
<1>1. /\ AttemptedLeg(leg, r, dur) /\ TransferStatus(leg.nack, r, dur) = "OK"
      /\ ~EndsWithSend(active.kind)
      /\ \E b : Proceed(a, b, at, poll.left - 1)
  BY DEF Send
<1>2. /\ Calling /\ Standing(active) /\ active.phase \in SendPhases
      /\ UNCHANGED nextGeneration /\ (Settled => Settled')
      /\ nextSafe' > at /\ sent \in Operations
      /\ sent.id = active.id /\ sent.kind = active.kind
      /\ sent.callbacksUsed = active.callbacksUsed + 1
  BY <1>1, LegCalls
<1>3. CallsBefore(active.kind, leg.phase, leg.index) = Count(active) + 1
  BY <1>1, <1>2, SendingCounts DEF Count
<1>4. /\ a.id = active.id /\ a.kind = active.kind
      /\ a.phase = leg.phase /\ a.index = leg.index
      /\ a.callbacksUsed = active.callbacksUsed + 1
  <2>1. \A o \in Operations : \A q, j, n, e :
          LET o2 == [o EXCEPT !.phase = q, !.index = j, !.nextDue = n, !.effect = e]
          IN /\ o2.id = o.id /\ o2.kind = o.kind /\ o2.phase = q /\ o2.index = j
             /\ o2.callbacksUsed = o.callbacksUsed
    BY DEF Operations
  <2> HIDE DEF leg, sent, at
  <2> QED BY <1>2, <2>1
<1> HIDE DEF leg, sent, a, at
<1>5. active' = a /\ UNCHANGED <<activeValid, terminalValid, terminal>>
      /\ (poll'.on => poll'.at = at)
  BY <1>1 DEF Proceed, NotPolling
<1>6. Count(active') = Count(active) + 1
  BY <1>3, <1>4, <1>5 DEF Count
<1>7. GoesOn(1)
  BY <1>2, <1>4, <1>5, <1>6 DEF GoesOn, Calling
<1> QED BY <1>2, <1>5, <1>7 DEF CallMove

\* A command was sent, or not, and the operation ends.
LEMMA SendEnds ==
  ASSUME IInv, NEW r \in EffectfulOutcomes \cup PlainOutcomes, NEW dur \in Durations,
         SendLast(r, dur) \/ SendFails(r, dur)
  PROVE  CallMove
<1> DEFINE a == Attempted(Leg(active).effectful, r)
<1>1. AttemptedLeg(Leg(active), r, dur)
  BY DEF SendLast, SendFails
<1>2. /\ Calling /\ UNCHANGED nextGeneration /\ (Settled => Settled')
      /\ a.id = active.id /\ a.kind = active.kind
      /\ a.callbacksUsed = active.callbacksUsed + 1
  BY <1>1, LegCalls
<1>3. Ends(1) /\ ~poll'.on
  <2>1. CASE SendLast(r, dur)
    <3>1. PICK b, at : FinishOperation("SUCCEEDED", "ACKNOWLEDGED", b, a, at)
      BY <2>1 DEF SendLast
    <3>2. "SUCCEEDED" \in Outcomes
      BY DEF Outcomes
    <3> HIDE DEF a
    <3> QED BY <1>2, <3>1, <3>2, FinishEnds DEF Calling
  <2>2. CASE SendFails(r, dur)
    <3>1. PICK status, b, last, at : FinishOperationFailure(status, b, a, last, at)
      BY <2>2 DEF SendFails
    <3> HIDE DEF a
    <3> QED BY <1>2, <3>1, FailureEnds DEF Calling
  <2> QED BY <2>1, <2>2
<1> QED BY <1>2, <1>3 DEF CallMove

\* An answer was not read, or not in time, or is damaged.
LEMMA ReadFailsMoves ==
  ASSUME IInv, NEW r, NEW dur \in Durations, ReadFails(r, dur)
  PROVE  CallMove
<1> DEFINE a == Attempted(FALSE, r)
<1>1. AttemptedRead(r, dur) /\ r \in PlainOutcomes
  BY DEF ReadFails, AttemptedRead
<1>2. /\ Calling /\ UNCHANGED nextGeneration /\ (Settled => Settled')
      /\ a.id = active.id /\ a.kind = active.kind
      /\ a.callbacksUsed = active.callbacksUsed + 1
  BY <1>1, ReadCallsOnce
<1>3. PICK status, b, at : FinishOperationFailure(status, b, a, "NONE", at)
  BY DEF ReadFails
<1> HIDE DEF a
<1>4. Ends(1) /\ ~poll'.on
  BY <1>2, <1>3, FailureEnds DEF Calling
<1> QED BY <1>2, <1>4 DEF CallMove

\* An answer in time is an attempt that succeeded.
LEMMA AnswerCalls ==
  ASSUME IInv, NEW dur \in Durations, Answered(dur)
  PROVE  /\ Calling /\ Standing(active) /\ UNCHANGED nextGeneration
         /\ Settled => Settled'
         /\ nextSafe' > poll.at + dur
         /\ Heard \in Operations
         /\ Heard.id = active.id /\ Heard.kind = active.kind
         /\ Heard.phase = active.phase /\ Heard.index = active.index
         /\ Heard.callbacksUsed = active.callbacksUsed + 1
<1>1. AttemptedRead(Exact, dur) /\ Exact \in PlainOutcomes
  BY DEF Answered, AttemptedRead
<1>2. Exact.disposition = "COMPLETE" /\ Completed(Exact, dur) = poll.at + dur
  BY DEF Exact, Completed
<1>3. Heard.phase = active.phase /\ Heard.index = active.index
  BY AnsweredStep
<1> QED BY <1>1, <1>2, <1>3, ReadCallsOnce DEF Heard

\* An answer came and the operation goes on, with one call more.
LEMMA HeardGoesOn ==
  ASSUME IInv, NEW dur \in Durations, Answered(dur), NEW a, NEW b,
         a.id = active.id, a.kind = active.kind,
         a.callbacksUsed = active.callbacksUsed + 1,
         Count(a) = Count(active) + 1,
         Proceed(a, b, poll.at + dur, poll.left - 1)
  PROVE  CallMove
<1>1. Calling /\ UNCHANGED nextGeneration /\ (Settled => Settled')
      /\ nextSafe' > poll.at + dur
  BY AnswerCalls
<1>2. active' = a /\ UNCHANGED <<activeValid, terminalValid, terminal>>
      /\ (poll'.on => poll'.at = poll.at + dur)
  BY DEF Proceed, NotPolling
<1>3. GoesOn(1)
  BY <1>1, <1>2 DEF GoesOn, Calling
<1> QED BY <1>1, <1>2, <1>3 DEF CallMove

\* An answer came and the operation ends.
LEMMA HeardEnds ==
  ASSUME IInv, NEW dur \in Durations, Answered(dur), NEW a, NEW b, NEW at,
         a.id = active.id, a.kind = active.kind,
         a.callbacksUsed = active.callbacksUsed + 1,
         \/ \E outcome \in Outcomes : \E effect : FinishOperation(outcome, effect, b, a, at)
         \/ \E status, last : FinishOperationFailure(status, b, a, last, at)
  PROVE  CallMove
<1>1. Calling /\ UNCHANGED nextGeneration /\ (Settled => Settled')
  BY AnswerCalls
<1>2. Ends(1) /\ ~poll'.on
  BY <1>1, FinishEnds, FailureEnds DEF Calling
<1> QED BY <1>1, <1>2 DEF CallMove

\* An operation that has heard something moves to another phase.
LEMMA MovedOn ==
  ASSUME NEW o \in Operations, NEW q, NEW j, NEW n, NEW x, NEW c
  PROVE  /\ LET o2 == [o EXCEPT !.serial = x, !.index = j, !.phase = q, !.nextDue = n]
            IN /\ o2.id = o.id /\ o2.kind = o.kind /\ o2.phase = q /\ o2.index = j
               /\ o2.callbacksUsed = o.callbacksUsed
         /\ LET o2 == [o EXCEPT !.changed = c, !.index = j, !.phase = q, !.nextDue = n]
            IN /\ o2.id = o.id /\ o2.kind = o.kind /\ o2.phase = q /\ o2.index = j
               /\ o2.callbacksUsed = o.callbacksUsed
         /\ LET o2 == [o EXCEPT !.index = j, !.phase = q, !.nextDue = n]
            IN /\ o2.id = o.id /\ o2.kind = o.kind /\ o2.phase = q /\ o2.index = j
               /\ o2.callbacksUsed = o.callbacksUsed
         /\ LET o2 == [o EXCEPT !.phase = q]
            IN /\ o2.id = o.id /\ o2.kind = o.kind /\ o2.phase = q
               /\ o2.index = o.index /\ o2.callbacksUsed = o.callbacksUsed
  BY DEF Operations

\* The serial number has been read.
LEMMA HearSerialMoves ==
  ASSUME IInv, NEW dur \in Durations, HearSerial(dur)
  PROVE  CallMove
<1> DEFINE a == [Heard EXCEPT !.serial = sensor.serial, !.index = 1,
                              !.phase = "SEND_VERIFY_COMMAND",
                              !.nextDue = poll.at + dur]
           k == active.kind
<1>1. Answered(dur) /\ HearsSerial(active)
      /\ Proceed(a, belief, poll.at + dur, poll.left - 1)
  BY DEF HearSerial
<1>2. /\ Standing(active) /\ Heard \in Operations
      /\ Heard.id = active.id /\ Heard.kind = active.kind
      /\ Heard.callbacksUsed = active.callbacksUsed + 1
  BY <1>1, AnswerCalls
<1>3. /\ a.id = active.id /\ a.kind = k
      /\ a.phase = "SEND_VERIFY_COMMAND" /\ a.index = 1
      /\ a.callbacksUsed = active.callbacksUsed + 1
  <2> HIDE DEF Heard
  <2> QED BY <1>2, MovedOn
<1>4. CallsBefore(k, "SEND_VERIFY_COMMAND", 1)
        = CallsBefore(k, active.phase, active.index) + 1
  <2>1. <<active.phase, active.index>> \in Reachable(k)
    BY <1>2 DEF Standing
  <2>2. CASE k.op = "ATTACH" /\ active.phase = "READ_RESPONSE"
    <3>1. active.index = 0
      BY <2>1, <2>2, ReachableCases DEF AttachSteps
    <3> QED BY <2>2, <3>1 DEF CallsBefore, AttachCalls
  <2>3. CASE k.op = "READ_IDENTITY" /\ active.phase = "READ_RESPONSE"
    <3>1. active.index = 0
      BY <2>1, <2>3, ReachableCases DEF IdentitySteps, ReadSteps
    <3> QED BY <2>3, <3>1 DEF CallsBefore, ReadOps, ReadCalls
  <2>4. CASE k.op = "WAKE_UP" /\ active.phase = "READ_RESPONSE"
    <3>1. active.index = 1
      BY <2>1, <2>4, ReachableCases DEF WakeSteps
    <3> QED BY <2>4, <3>1 DEF CallsBefore, ReadOps, WakeCalls
  <2>5. CASE /\ k.op \in ResetOps /\ active.phase = "READ_VERIFY_RESPONSE"
             /\ active.index = 0
    BY <2>5 DEF CallsBefore, ReadOps, SingleShotOps, ResetOps, ResetCalls, CommandCalls
  <2> QED BY <1>1, <2>2, <2>3, <2>4, <2>5 DEF HearsSerial
<1> HIDE DEF a
<1>5. Count(a) = Count(active) + 1
  BY <1>3, <1>4 DEF Count
<1> QED BY <1>1, <1>3, <1>5, HeardGoesOn

\* The identity is confirmed or refused, the variant, an answer or a sample
\* has been read, or the word read back after a setting write.
LEMMA HearLastMoves ==
  ASSUME IInv, NEW dur \in Durations,
         \/ IdentityRefused(dur) \/ IdentityConfirmed(dur) \/ HearVariant(dur)
         \/ HearInvalidSetting(dur) \/ HearWrittenSetting(dur) \/ HearSample(dur)
         \/ \E verdict \in BOOLEAN : HearAnswer(dur, verdict)
  PROVE  CallMove
<1>1. /\ Answered(dur)
      /\ \E b, at : \/ \E outcome \in Outcomes : \E effect :
                         FinishOperation(outcome, effect, b, Heard, at)
                    \/ \E status, last :
                         FinishOperationFailure(status, b, Heard, last, at)
  <2>1. {"SUCCEEDED", "FAILED", "INDETERMINATE"} \subseteq Outcomes
    BY DEF Outcomes
  <2>2. CASE IdentityRefused(dur)
    BY <2>1, <2>2 DEF IdentityRefused
  <2>3. CASE IdentityConfirmed(dur)
    BY <2>1, <2>3 DEF IdentityConfirmed
  <2>4. CASE HearVariant(dur)
    BY <2>1, <2>4 DEF HearVariant
  <2>5. CASE HearInvalidSetting(dur)
    BY <2>5 DEF HearInvalidSetting
  <2>6. CASE HearWrittenSetting(dur)
    <3> DEFINE f == active.kind.field
               word == sensor.ram[f]
               valid == ValidReturnedSetting(f, word)
               read == ApplyReadValue(belief, f, word)
               known == IF f \in CompensationFields
                        THEN [read EXCEPT !.compensation = f] ELSE read
    <3>1. CASE ~valid
      <4>1. FinishOperation("FAILED", "ACKNOWLEDGED", Unverify(belief, f), Heard,
                            poll.at + dur)
        BY <2>6, <3>1 DEF HearWrittenSetting
      <4> QED BY <2>1, <2>6, <4>1 DEF HearWrittenSetting
    <3>2. CASE valid /\ word # active.desired
      <4>1. FinishOperation("FAILED", "VERIFIED", read, Heard, poll.at + dur)
        BY <2>6, <3>2 DEF HearWrittenSetting
      <4> QED BY <2>1, <2>6, <4>1 DEF HearWrittenSetting
    <3>3. CASE valid /\ word = active.desired
      <4>1. FinishOperation("SUCCEEDED", "VERIFIED", known, Heard, poll.at + dur)
        BY <2>6, <3>3 DEF HearWrittenSetting
      <4> QED BY <2>1, <2>6, <4>1 DEF HearWrittenSetting
    <3> QED BY <3>1, <3>2, <3>3
  <2>7. CASE HearSample(dur)
    BY <2>1, <2>7 DEF HearSample
  <2>8. CASE \E verdict \in BOOLEAN : HearAnswer(dur, verdict)
    BY <2>1, <2>8 DEF HearAnswer
  <2> QED BY <2>2, <2>3, <2>4, <2>5, <2>6, <2>7, <2>8
<1>2. /\ Heard.id = active.id /\ Heard.kind = active.kind
      /\ Heard.callbacksUsed = active.callbacksUsed + 1
  BY <1>1, AnswerCalls
<1> QED BY <1>1, <1>2, HeardEnds

\* A setting has been read.
LEMMA HearSettingMoves ==
  ASSUME IInv, NEW dur \in Durations, HearSetting(dur)
  PROVE  CallMove
<1> DEFINE f == FieldRead(active)
           b == ApplyReadValue(belief, f, sensor.ram[f])
           whole == active.kind.op = "READ_CONFIGURATION"
           heard == IF whole THEN [Heard EXCEPT !.completed = @ \cup {f}] ELSE Heard
           a == [heard EXCEPT !.index = @ + 1, !.phase = "SEND_COMMAND",
                              !.nextDue = poll.at + dur]
<1>1. Answered(dur) /\ active.phase = "READ_RESPONSE"
  BY DEF HearSetting
<1>2. /\ Standing(active) /\ Heard \in Operations
      /\ Heard.id = active.id /\ Heard.kind = active.kind
      /\ Heard.index = active.index
      /\ Heard.callbacksUsed = active.callbacksUsed + 1
  BY <1>1, AnswerCalls
<1>3. /\ heard.id = active.id /\ heard.kind = active.kind /\ heard.index = active.index
      /\ heard.callbacksUsed = active.callbacksUsed + 1
      /\ heard \in Operations
  <2>1. f \in Fields \/ ~whole
    BY <1>2, FieldReadType
  <2>2. ASSUME NEW g \in Fields
        PROVE  LET h == [Heard EXCEPT !.completed = @ \cup {g}]
               IN /\ h.id = Heard.id /\ h.kind = Heard.kind /\ h.index = Heard.index
                  /\ h.callbacksUsed = Heard.callbacksUsed /\ h \in Operations
    <3> HIDE DEF Heard
    <3> QED BY <1>2, <2>2 DEF Operations
  <2> HIDE DEF Heard, f
  <2> QED BY <1>2, <2>1, <2>2
<1>4. CASE whole /\ active.index < LastFieldIndex
  <2>1. Proceed(a, b, poll.at + dur, poll.left - 1)
    BY <1>4 DEF HearSetting
  <2>2. /\ a.id = active.id /\ a.kind = active.kind
        /\ a.phase = "SEND_COMMAND" /\ a.index = active.index + 1
        /\ a.callbacksUsed = active.callbacksUsed + 1
    <3>1. a = [heard EXCEPT !.index = active.index + 1, !.phase = "SEND_COMMAND",
                            !.nextDue = poll.at + dur]
      BY <1>3
    <3> HIDE DEF heard, a
    <3> QED BY <1>3, <3>1, MovedOn
  <2> HIDE DEF a, b, heard, f
  <2>3. Count(a) = Count(active) + 1
    <3>1. /\ Count(a) = ReadCalls("SEND_COMMAND", active.index + 1)
          /\ Count(active) = ReadCalls("READ_RESPONSE", active.index)
      BY <1>1, <1>4, <2>2 DEF Count, CallsBefore, ReadOps
    <3> QED BY <1>2, <3>1 DEF ReadCalls, Standing
  <2> QED BY <1>1, <2>1, <2>2, <2>3, HeardGoesOn
<1>5. CASE ~(whole /\ active.index < LastFieldIndex)
  <2>1. FinishOperation("SUCCEEDED", "NONE", b, heard, poll.at + dur)
    BY <1>5 DEF HearSetting
  <2>2. "SUCCEEDED" \in Outcomes
    BY DEF Outcomes
  <2> HIDE DEF heard, b
  <2> QED BY <1>1, <1>3, <2>1, <2>2, HeardEnds
<1> QED BY <1>4, <1>5

\* The word before a setting write has been read.
LEMMA HearPresentSettingMoves ==
  ASSUME IInv, NEW dur \in Durations, HearPresentSetting(dur)
  PROVE  CallMove
<1> DEFINE f == active.kind.field
           word == sensor.ram[f]
           valid == ValidReturnedSetting(f, word)
           b == IF valid THEN ApplyReadValue(belief, f, word) ELSE Unverify(belief, f)
           changed == word # active.desired
           selectionRequired == f \in CompensationFields /\ belief.compensation # f
           a == [Heard EXCEPT !.changed = changed, !.index = 1,
                              !.phase = "SEND_COMMAND", !.nextDue = poll.at + dur]
<1>1. /\ Answered(dur) /\ active.kind.op = "SET_SETTING"
      /\ active.phase = "READ_RESPONSE" /\ active.index = 0
  BY DEF HearPresentSetting
<1>2. /\ Heard \in Operations
      /\ Heard.id = active.id /\ Heard.kind = active.kind
      /\ Heard.callbacksUsed = active.callbacksUsed + 1
  BY <1>1, AnswerCalls
<1>3. CASE changed \/ selectionRequired
  <2>1. Proceed(a, b, poll.at + dur, poll.left - 1)
    BY <1>3 DEF HearPresentSetting
  <2>2. /\ a.id = active.id /\ a.kind = active.kind
        /\ a.phase = "SEND_COMMAND" /\ a.index = 1
        /\ a.callbacksUsed = active.callbacksUsed + 1
    <3> HIDE DEF Heard, changed
    <3> QED BY <1>2, MovedOn
  <2> HIDE DEF a, b
  <2>3. Count(a) = Count(active) + 1
    BY <1>1, <2>2 DEF Count, CallsBefore, ReadOps, SettingCalls
  <2> QED BY <1>1, <2>1, <2>2, <2>3, HeardGoesOn
<1>4. CASE ~(changed \/ selectionRequired)
  <2>1. \/ FinishOperation("SUCCEEDED", "VERIFIED", b, Heard, poll.at + dur)
        \/ FinishOperationFailure("ERROR", b, Heard, "NONE", poll.at + dur)
    BY <1>4 DEF HearPresentSetting
  <2>2. "SUCCEEDED" \in Outcomes
    BY DEF Outcomes
  <2> HIDE DEF b
  <2> QED BY <1>1, <1>2, <2>1, <2>2, HeardEnds
<1> QED BY <1>3, <1>4

\* The data-ready flag has been read.
LEMMA HearReadyMoves ==
  ASSUME IInv, NEW dur \in Durations, NEW ready \in BOOLEAN, HearReady(dur, ready)
  PROVE  CallMove
<1> DEFINE a == [Heard EXCEPT !.phase = "SEND_READ_COMMAND"]
           k == active.kind
<1>1. /\ Answered(dur) /\ k.op \in MeasurementOps
      /\ active.phase = "READ_READY_RESPONSE"
  BY DEF HearReady
<1>2. /\ Heard \in Operations
      /\ Heard.id = active.id /\ Heard.kind = active.kind
      /\ Heard.callbacksUsed = active.callbacksUsed + 1
  BY <1>1, AnswerCalls
<1>3. CASE ready
  <2>1. Proceed(a, belief, poll.at + dur, poll.left - 1)
    BY <1>3 DEF HearReady
  <2>2. /\ a.id = active.id /\ a.kind = active.kind /\ a.phase = "SEND_READ_COMMAND"
        /\ a.callbacksUsed = active.callbacksUsed + 1
    <3> HIDE DEF Heard
    <3> QED BY <1>2, MovedOn
  <2> HIDE DEF a
  <2>3. \A i, j : CallsBefore(k, "SEND_READ_COMMAND", i)
                    = CallsBefore(k, "READ_READY_RESPONSE", j) + 1
    BY <1>1 DEF CallsBefore, MeasurementOps, SingleShotOps, ReadOps, FetchCalls, ShotCalls
  <2>4. Count(a) = Count(active) + 1
    BY <1>1, <2>2, <2>3 DEF Count
  <2> QED BY <1>1, <2>1, <2>2, <2>4, HeardGoesOn
<1>4. CASE ~ready
  <2>1. FinishOperation("NO_DATA", active.effect, belief, Heard, poll.at + dur)
    BY <1>4 DEF HearReady
  <2>2. "NO_DATA" \in Outcomes
    BY DEF Outcomes
  <2> QED BY <1>1, <1>2, <2>1, <2>2, HeardEnds
<1> QED BY <1>3, <1>4

\* An iteration of the poll loop calls the transport once or leaves it alone.
LEMMA LoopMoves ==
  ASSUME IInv, LoopStep
  PROVE  QuietMove \/ CallMove
<1>1. CASE PollBreak \/ GateDefers \/ NotDue \/ WaitOver \/ CommandSettled
             \/ PersistShortcut \/ BudgetExhausted
  BY <1>1, ReturnMoves, GateMoves, WaitOverMoves, QuietEnds
<1>2. ASSUME NEW dur \in Durations, NEW r \in EffectfulOutcomes \cup PlainOutcomes,
             Send(r, dur) \/ SendLast(r, dur) \/ SendFails(r, dur) \/ ReadFails(r, dur)
      PROVE  CallMove
  BY <1>2, SendMoves, SendEnds, ReadFailsMoves
<1>3. ASSUME NEW dur \in Durations,
             \/ HearSerial(dur) \/ IdentityRefused(dur) \/ IdentityConfirmed(dur)
             \/ HearVariant(dur) \/ HearInvalidSetting(dur) \/ HearSetting(dur)
             \/ HearPresentSetting(dur) \/ HearWrittenSetting(dur) \/ HearSample(dur)
             \/ \E verdict \in BOOLEAN : HearAnswer(dur, verdict) \/ HearReady(dur, verdict)
      PROVE  CallMove
  BY <1>3, HearSerialMoves, HearLastMoves, HearSettingMoves, HearPresentSettingMoves,
     HearReadyMoves
<1> QED BY <1>1, <1>2, <1>3 DEF LoopStep

-----------------------------------------------------------------------------
(* The calls of the owner.                                                 *)

\* The slot is empty and stays so, but for what it held.
StaysEmpty == /\ ~activeValid /\ ~terminalValid /\ ~activeValid' /\ ~terminalValid'
              /\ active' = NoOperation /\ terminal' = NoResult /\ UNCHANGED nextGeneration
\* An operation begins.
Admits ==
  /\ ~activeValid /\ ~terminalValid /\ activeValid' /\ ~terminalValid'
  /\ UNCHANGED terminal
  /\ active'.id.requestId \in RequestIds /\ active'.id.generation = nextGeneration
  /\ nextGeneration' = IF nextGeneration = MaxGeneration THEN 1 ELSE nextGeneration + 1
  /\ active'.callbacksUsed = 0 /\ Count(active') = 0
\* The result is taken.
Takes == /\ terminalValid /\ ~terminalValid' /\ terminal' = NoResult
         /\ UNCHANGED <<activeValid, active, nextGeneration>>

SlotMove == GoesOn(0) \/ Ends(0) \/ StaysEmpty \/ Admits \/ Takes

\* A call of the owner or a replaced sensor: no call of the transport.
OwnerMove == /\ SlotMove
             /\ poll'.on => poll'.used = 0
             /\ Settled => Settled'

\* What leaves the operation alone goes on with it.
LEMMA UnchangedGoesOn ==
  ASSUME IInv, UNCHANGED <<activeValid, active, terminalValid, terminal, nextGeneration>>
  PROVE  GoesOn(0)
<1>1. active.callbacksUsed \in Nat
  BY DEF IInv, SlotOK, Operations
<1>2. activeValid => Count(active) \in Nat
  BY ActiveStands, CallsAreBounded, MaxCallbacksCases DEF Count, IInv
<1>3. Count(active') = Count(active)
  BY DEF Count
<1> QED BY <1>1, <1>2, <1>3 DEF GoesOn

\* The clock of the owner ages the gate and the sensor's business alike.
LEMMA PassSettles ==
  ASSUME IInv, NEW d \in Nat, Pass(d)
  PROVE  Settled => Settled'
<1>1. truth.busy \in Nat /\ nextSafe \in Nat /\ truth'.busy = Elapse(truth.busy, d)
      /\ nextSafe' = Elapse(nextSafe, d)
  BY DEF Pass, IInv, BusOK, Truths
<1> QED BY <1>1 DEF Settled, Elapse

\* start().
LEMMA StartMoves ==
  ASSUME IInv, Counted, NEW k \in Kinds, NEW id \in RequestIds, NEW deadline, NEW w,
         NEW d \in Advances, Start(k, id, w, deadline, d)
  PROVE  OwnerMove
<1>1. k \in Kinds /\ d \in Nat
  BY DriverAssumption
<1>2. /\ ~activeValid /\ ~terminalValid /\ ~poll.on /\ nextSafe <= d
      /\ activeValid' = TRUE /\ nextSafe' = 0
      /\ truth' = [truth EXCEPT !.busy = Elapse(@, d)]
      /\ nextGeneration' = IF nextGeneration = MaxGeneration THEN 1
                           ELSE nextGeneration + 1
      /\ UNCHANGED <<terminalValid, terminal, poll>>
  BY DEF Start, Startable
<1>3. /\ active'.kind = k /\ active'.phase = FirstPhase(k) /\ active'.index = 0
      /\ active'.callbacksUsed = 0
      /\ active'.id = [requestId |-> id, generation |-> nextGeneration]
  BY DEF Start, NoOperation
<1>4. Count(active') = 0
  BY <1>1, <1>3, BeginningCounts DEF Count
<1>5. Admits
  BY <1>2, <1>3, <1>4 DEF Admits
<1>6. Settled => Settled'
  <2>1. truth.busy \in Nat /\ nextSafe \in Nat /\ truth'.busy = Elapse(truth.busy, d)
    BY <1>2 DEF IInv, BusOK, Truths
  <2> QED BY <1>1, <1>2, <2>1 DEF Settled, Elapse
<1> QED BY <1>2, <1>5, <1>6 DEF OwnerMove, SlotMove

\* cancel().
LEMMA CancelMoves ==
  ASSUME IInv, NEW id, NEW d \in Advances, Cancel(id, d)
  PROVE  OwnerMove /\ Ends(0)
<1>1. d \in Nat /\ activeValid /\ UNCHANGED nextGeneration /\ Pass(d)
  BY DriverAssumption DEF Cancel
<1>2. \E effect, b : FinishOperation("CANCELLED", effect, b, active, d)
  BY DEF Cancel
<1>3. "CANCELLED" \in Outcomes /\ active.callbacksUsed + 0 = active.callbacksUsed
  BY DEF Outcomes, IInv, SlotOK, Operations
<1>4. Ends(0) /\ ~poll'.on
  BY <1>1, <1>2, <1>3, FinishEnds
<1>5. Settled => Settled'
  BY <1>1, PassSettles
<1> QED BY <1>4, <1>5 DEF OwnerMove, SlotMove

\* end().
LEMMA EndMoves ==
  ASSUME IInv, End
  PROVE  OwnerMove
<1>1. ~poll'.on /\ UNCHANGED <<nextGeneration, nextSafe, truth>>
  BY DEF End
<1>2. CASE activeValid
  <2>1. /\ ~activeValid' /\ terminalValid' /\ active' = NoOperation
        /\ terminal'.outcome = "CANCELLED" /\ terminal'.id = active.id
        /\ terminal'.kind = active.kind
        /\ terminal'.callbacksUsed = active.callbacksUsed
    BY <1>2 DEF End
  <2>2. active.callbacksUsed + 0 = active.callbacksUsed
    BY DEF IInv, SlotOK, Operations
  <2>3. Ends(0)
    BY <1>1, <1>2, <2>1, <2>2 DEF Ends, Outcomes
  <2> QED BY <1>1, <2>3 DEF OwnerMove, SlotMove, Settled
<1>3. CASE ~activeValid
  <2>1. GoesOn(0)
    BY <1>1, <1>3, UnchangedGoesOn DEF End
  <2> QED BY <1>1, <2>1 DEF OwnerMove, SlotMove, Settled
<1> QED BY <1>2, <1>3

\* begin() and takeResult(), and somebody who replaces the sensor.
LEMMA OtherOwnerMoves ==
  ASSUME IInv, Counted,
         \/ \E c \in Configs : Begin(c)
         \/ TakeResult(terminal.id)
         \/ \E s2 \in Replacements : Disturb(s2)
  PROVE  OwnerMove
<1>1. CASE \E c \in Configs : Begin(c)
  <2>1. /\ ~activeValid /\ ~terminalValid /\ ~poll.on
        /\ active' = NoOperation /\ terminal' = NoResult
        /\ truth' = [truth EXCEPT !.unsaved = {}]
        /\ UNCHANGED <<activeValid, terminalValid, nextGeneration, nextSafe, poll>>
    BY <1>1 DEF Begin
  <2>2. truth'.busy = truth.busy
    BY <2>1 DEF IInv, BusOK, Truths
  <2> QED BY <2>1, <2>2 DEF OwnerMove, SlotMove, StaysEmpty, Settled
<1>2. CASE TakeResult(terminal.id)
  <2>1. truth'.busy = truth.busy
    BY <1>2 DEF TakeResult, IInv, BusOK, Truths
  <2> QED BY <1>2, <2>1 DEF TakeResult, OwnerMove, SlotMove, Takes, Settled
<1>3. CASE \E s2 \in Replacements : Disturb(s2)
  <2>1. UNCHANGED driverVars /\ ~poll.on
        /\ truth' = [truth EXCEPT !.busy = 0, !.unsaved = {}, !.disturbed = TRUE]
    BY <1>3 DEF Disturb
  <2>2. truth'.busy = 0 /\ nextSafe \in Nat
    BY <2>1 DEF IInv, BusOK, Truths
  <2>3. GoesOn(0)
    BY <2>1, UnchangedGoesOn DEF driverVars
  <2> QED BY <2>1, <2>2, <2>3 DEF OwnerMove, SlotMove, Settled, driverVars
<1> QED BY <1>1, <1>2, <1>3

\* poll() up to its loop.
LEMMA EnterPollMoves ==
  ASSUME IInv, NEW budget, NEW d \in Advances, EnterPoll(budget, d)
  PROVE  OwnerMove /\ (GoesOn(0) \/ Ends(0))
<1>1. d \in Nat /\ Pass(d) /\ UNCHANGED nextGeneration /\ ~poll.on
  BY DriverAssumption DEF EnterPoll
<1>2. Settled => Settled'
  BY <1>1, PassSettles
<1>3. active \in Operations
  BY DEF IInv, SlotOK
<1>4. CASE activeValid /\ active.deadline > d
  <2>1. /\ UNCHANGED <<activeValid, terminal, terminalValid>>
        /\ active' = Aged(active, d)
        /\ poll' = [NotPolling EXCEPT !.on = TRUE, !.left = budget]
    BY <1>4 DEF EnterPoll
  <2>2. /\ active'.id = active.id /\ active'.kind = active.kind
        /\ active'.phase = active.phase /\ active'.index = active.index
        /\ active'.callbacksUsed = active.callbacksUsed /\ active.callbacksUsed \in Nat
    BY <1>3, <2>1 DEF Aged, Operations
  <2>3. Count(active') = Count(active) /\ Count(active) \in Nat
    BY <1>4, <2>2, ActiveStands, CallsAreBounded, MaxCallbacksCases DEF Count, IInv
  <2>4. GoesOn(0)
    BY <1>1, <1>4, <2>1, <2>2, <2>3 DEF GoesOn
  <2> QED BY <1>2, <2>1, <2>4 DEF OwnerMove, SlotMove, NotPolling
<1>5. CASE activeValid /\ ~(active.deadline > d)
  <2>1. FinishOperationFailure("TIMEOUT", belief, active, lastEffectful, d)
    BY <1>5 DEF EnterPoll
  <2>2. active.callbacksUsed + 0 = active.callbacksUsed
    BY <1>3 DEF Operations
  <2>3. Ends(0) /\ ~poll'.on
    BY <1>1, <1>5, <2>1, <2>2, FailureEnds
  <2> QED BY <1>2, <2>3 DEF OwnerMove, SlotMove
<1>6. CASE ~activeValid
  <2>1. UNCHANGED <<activeValid, active, terminal, terminalValid, poll>>
    BY <1>6 DEF EnterPoll
  <2>2. GoesOn(0)
    BY <1>1, <2>1, UnchangedGoesOn
  <2> QED BY <1>1, <1>2, <2>1, <2>2 DEF OwnerMove, SlotMove
<1> QED BY <1>4, <1>5, <1>6

LEMMA OwnerMoves ==
  ASSUME IInv, Counted, OwnerCall \/ \E s2 \in Replacements : Disturb(s2)
  PROVE  OwnerMove
<1>1. ASSUME NEW d \in Advances, NEW k \in UsedKinds, NEW id \in RequestIds,
             NEW deadline \in Deadlines,
             NEW w \in IF k.op = "SET_SETTING" THEN Words ELSE {NoWord},
             Start(k, id, w, deadline, d)
      PROVE  OwnerMove
  BY <1>1, StartMoves, DriverAssumption
<1>2. ASSUME NEW d \in Advances, Cancel(active.id, d) PROVE OwnerMove
  BY <1>2, CancelMoves
<1>3. ASSUME NEW d \in Advances, NEW budget \in Budgets, EnterPoll(budget, d)
      PROVE  OwnerMove
  BY <1>3, EnterPollMoves
<1> QED BY <1>1, <1>2, <1>3, EndMoves, OtherOwnerMoves DEF OwnerCall
-----------------------------------------------------------------------------
(* The invariant and what follows from it.                                 *)

\* Every step of the driver is a move.
LEMMA StepMoves ==
  ASSUME IInv, SlotInv, [Next]_vars
  PROVE  QuietMove \/ CallMove \/ OwnerMove \/ UNCHANGED vars
  BY LoopMoves, OwnerMoves DEF Next, SlotInv

\* A call of the transport is one of at most MaxCallbacks.
LEMMA OneMoreFits ==
  ASSUME IInv, Counted, Calling
  PROVE  active.callbacksUsed + 1 <= MaxCallbacks(active.kind)
  BY ActiveStands, CallsAreBounded DEF Calling, Counted, Count, IInv

LEMMA ActiveFits ==
  ASSUME IInv, Counted, activeValid
  PROVE  active.callbacksUsed <= MaxCallbacks(active.kind)
  BY ActiveStands, CallsAreBounded, MaxCallbacksCases DEF Counted, Count, IInv

LEMMA EmptyFits ==
  /\ NoOperation.callbacksUsed = 0 /\ NoOperation.id = NoId /\ NoOperation.kind = NoKind
  /\ NoResult.callbacksUsed = 0 /\ NoResult.id = NoId /\ NoResult.kind = NoKind
  /\ NoResult.callbacksUsed <= MaxCallbacks(NoResult.kind)
  BY MaxCallbacksCases DEF NoOperation, NoResult

LEMMA CountedStep ==
  ASSUME IInv, SlotInv, QuietMove \/ CallMove \/ OwnerMove
  PROVE  Counted'
<1>1. ASSUME NEW n \in {0, 1}, GoesOn(n) PROVE Counted'
  <2>1. /\ ~(activeValid' /\ terminalValid')
        /\ ~activeValid' => active' = NoOperation
        /\ terminal'.callbacksUsed <= MaxCallbacks(terminal'.kind)
    BY <1>1 DEF GoesOn, SlotInv, Counted
  <2>2. activeValid' => active'.callbacksUsed = Count(active')
    BY <1>1 DEF GoesOn, SlotInv, Counted
  <2> QED BY <2>1, <2>2 DEF Counted, Count
<1>2. CASE Ends(0)
  <2>1. active.callbacksUsed + 0 <= MaxCallbacks(active.kind)
    BY <1>2, ActiveFits DEF Ends, SlotInv, IInv, SlotOK, Operations
  <2> QED BY <1>2, <2>1 DEF Ends, Counted
<1>3. CASE Calling /\ Ends(1)
  BY <1>3, OneMoreFits DEF Ends, Counted, SlotInv
<1>4. CASE StaysEmpty
  BY <1>4, EmptyFits DEF StaysEmpty, Counted
<1>5. CASE Admits
  BY <1>5 DEF Admits, Counted, SlotInv, Count
<1>6. CASE Takes
  BY <1>6, EmptyFits DEF Takes, Counted, SlotInv
<1> QED
  BY <1>1, <1>2, <1>3, <1>4, <1>5, <1>6
     DEF QuietMove, CallMove, OwnerMove, SlotMove

LEMMA MovesKeepSlot ==
  ASSUME IInv, SlotInv, QuietMove \/ CallMove \/ OwnerMove \/ UNCHANGED vars
  PROVE  SlotInv'
<1>1. CASE UNCHANGED vars
  BY <1>1 DEF vars, driverVars, SlotInv, Counted, Paced, Settled, Count
<1>2. CASE QuietMove
  <2>1. Paced'
    BY <1>2 DEF QuietMove, SlotInv, Paced
  <2>2. Settled'
    BY <1>2 DEF QuietMove, SlotInv, Settled
  <2> QED BY <1>2, <2>1, <2>2, CountedStep DEF SlotInv
<1>3. CASE CallMove
  BY <1>3, CountedStep DEF CallMove, SlotInv, Paced
<1>4. CASE OwnerMove
  BY <1>4, CountedStep DEF OwnerMove, SlotInv, Paced
<1> QED BY <1>1, <1>2, <1>3, <1>4

LEMMA SlotStep ==
  ASSUME IInv, SlotInv, [Next]_vars
  PROVE  SlotInv'
  BY StepMoves, MovesKeepSlot

LEMMA SlotBegins ==
  ASSUME Init
  PROVE  SlotInv
<1>1. Counted
  BY EmptyFits DEF Init, Counted
<1> QED BY <1>1 DEF Init, SlotInv, Paced, Settled, NotPolling

\* The slot, the gate and the sensor's business stay in step, for ever.
LEMMA SlotInvariance == Spec => []SlotInv
<1>1. Init => SlotInv
  BY SlotBegins
<1>2. IInv /\ SlotInv /\ [Next]_vars => SlotInv'
  BY SlotStep
<1> QED BY <1>1, <1>2, Invariance, PTL DEF Spec

\* No operation calls the transport more often than the limits say: the
\* number of its calls is bounded by the phases it can come to.
THEOREM CallbacksBounded == Spec => []CallbacksWithinLimits
<1>1. IInv /\ SlotInv => CallbacksWithinLimits
  BY ActiveFits, EmptyFits, MaxCallbacksCases
     DEF SlotInv, Counted, CallbacksWithinLimits
<1> QED BY <1>1, Invariance, SlotInvariance, PTL

\* Only an iteration of the poll loop at a phase that uses the bus calls it.
LEMMA OnlyCallsCall ==
  ASSUME IInv, SlotInv, [Next]_vars, CallsTransport
  PROVE  Calling
<1>1. active.callbacksUsed \in Nat
  BY DEF IInv, SlotOK, Operations
<1>2. ~(UNCHANGED vars)
  BY <1>1 DEF vars, driverVars, CallsTransport
<1>3. ~GoesOn(0) /\ ~Ends(0)
  BY <1>1 DEF GoesOn, Ends, CallsTransport
<1>4. ~StaysEmpty /\ ~Takes
  BY <1>1 DEF StaysEmpty, Takes, CallsTransport
<1>5. ~Admits
  BY <1>1 DEF Admits, CallsTransport
<1> QED
  BY <1>2, <1>3, <1>4, <1>5, StepMoves DEF QuietMove, CallMove, OwnerMove, SlotMove

\* The sensor is left alone until it has finished with the command before,
\* across failures, cancellation, end() and a new binding: the gate that
\* stays closed behind an attempt outlasts what the sensor is busy with.
THEOREM SensorSettles == Spec => SettleRespected
<1>1. IInv /\ SlotInv /\ [Next]_vars => [CallsTransport => poll.at >= truth.busy]_vars
  <2>1. SUFFICES ASSUME IInv, SlotInv, [Next]_vars, CallsTransport
                 PROVE  poll.at >= truth.busy
    OBVIOUS
  <2>2. nextSafe <= poll.at /\ truth.busy <= nextSafe
    BY <2>1, OnlyCallsCall DEF Calling, SlotInv, Settled
  <2>3. nextSafe \in Nat /\ truth.busy \in Nat /\ poll.at \in Nat
    BY <2>1 DEF IInv, SlotOK, BusOK, Truths, Polls
  <2> QED BY <2>2, <2>3
<1> QED BY <1>1, Invariance, SlotInvariance, PTL DEF Spec, SettleRespected

\* A poll calls the transport at most once, whatever its budget: an attempt
\* closes the gate for longer than the poll goes on.
THEOREM OneAttempt == Spec => OneAttemptPerPoll
<1>1. IInv /\ SlotInv /\ [Next]_vars => [CallsTransport => poll.used = 0]_vars
  <2>1. SUFFICES ASSUME IInv, SlotInv, [Next]_vars, CallsTransport
                 PROVE  poll.used = 0
    OBVIOUS
  <2>2. poll.on /\ nextSafe <= poll.at
    BY <2>1, OnlyCallsCall DEF Calling
  <2>3. nextSafe \in Nat /\ poll.used \in Nat /\ poll.at \in Nat
    BY <2>1 DEF IInv, SlotOK, BusOK, Truths, Polls
  <2> QED BY <2>1, <2>2, <2>3 DEF SlotInv, Paced
<1> QED BY <1>1, Invariance, SlotInvariance, PTL DEF Spec, OneAttemptPerPoll

\* The driver keeps the promise about requests: one at a time, each with its
\* own identity, a bounded number of calls and exactly one result.
THEOREM RequestsExactlyOnce == Spec => ExactlyOnce
<1> USE DEF Slot!slotVars
<1>1. Init => Slot!Init
  BY EmptyFits DEF Init, Slot!Init, NoOperation, NoId
<1>2. IInv /\ SlotInv /\ [Next]_vars => [Slot!Next]_(Slot!slotVars)
  <2>1. SUFFICES ASSUME IInv, SlotInv, [Next]_vars
                 PROVE  [Slot!Next]_(Slot!slotVars)
    OBVIOUS
  <2>2. /\ ~(activeValid /\ terminalValid) /\ active.callbacksUsed \in Nat
        /\ ~activeValid => active = NoOperation
    BY <2>1 DEF IInv, SlotOK, Operations, SlotInv, Counted
  <2>3. CASE UNCHANGED vars \/ GoesOn(0)
    BY <2>2, <2>3 DEF vars, driverVars, GoesOn
  <2>4. CASE Calling /\ GoesOn(1)
    <3>1. active.callbacksUsed + 1 <= 14
      BY <2>1, <2>4, <2>2, OneMoreFits, MaxCallbacksCases DEF SlotInv
    <3>2. Slot!Call
      BY <2>2, <2>4, <3>1 DEF Calling, GoesOn, Slot!Call
    <3> QED BY <3>2 DEF Slot!Next
  <2>5. CASE Ends(0) \/ (Calling /\ Ends(1))
    <3>1. terminal'.callbacksUsed \in {active.callbacksUsed, active.callbacksUsed + 1}
      BY <2>2, <2>5 DEF Ends
    <3>2. terminal'.callbacksUsed <= 14
      BY <2>1, <2>5, <2>2, ActiveFits, OneMoreFits, MaxCallbacksCases DEF Ends, SlotInv
    <3>3. Slot!Conclude
      BY <2>2, <2>5, <3>1, <3>2 DEF Ends, Slot!Conclude
    <3> QED BY <3>3 DEF Slot!Next
  <2>6. CASE StaysEmpty
    BY <2>2, <2>6 DEF StaysEmpty
  <2>7. CASE Admits
    <3>1. Slot!Admit
      BY <2>2, <2>7, EmptyFits DEF Admits, Slot!Admit
    <3> QED BY <3>1 DEF Slot!Next
  <2>8. CASE Takes
    <3>1. active = NoOperation
      BY <2>2, <2>8 DEF Takes
    <3>2. Slot!Take
      BY <2>2, <2>8, <3>1, EmptyFits DEF Takes, Slot!Take, NoId
    <3> QED BY <3>2 DEF Slot!Next
  <2> QED
    BY <2>1, <2>3, <2>4, <2>5, <2>6, <2>7, <2>8, StepMoves
       DEF QuietMove, CallMove, OwnerMove, SlotMove
<1> QED
  BY <1>1, <1>2, Invariance, SlotInvariance, PTL DEF Spec, ExactlyOnce, Slot!Spec
-----------------------------------------------------------------------------
(* When a poll returns.                                                    *)

\* Behind WaitOver no other wait is due, and behind an attempt the gate is
\* closed: a poll goes round three times at most, and the bound of 32
\* transitions is never what ends it.
Spinning ==
  poll.on => /\ poll.spins <= 2
             /\ poll.used = 0 => /\ poll.spins <= 1
                                 /\ poll.spins = 1 => active.phase \notin WaitPhases

\* If this step makes a poll return, the owner knows when to come back.
TellsWhen ==
  poll.on /\ ~poll'.on /\ activeValid' =>
    \/ active'.nextDue > poll.at
    \/ poll.left = 0
    \/ poll.left = 1 /\ active'.callbacksUsed > active.callbacksUsed

\* An iteration that ends the operation, and one that calls the transport and
\* leaves it active.
EndsPoll == ~activeValid' /\ ~poll'.on
KeepsPolling ==
  \E a, b : \E at \in Nat : at >= poll.at /\ Proceed(a, b, at, poll.left - 1)

\* What the iterations with a call look like.
LEMMA CallShapes ==
  ASSUME IInv, NEW dur \in Durations,
         \/ \E r \in EffectfulOutcomes \cup PlainOutcomes :
              Send(r, dur) \/ SendLast(r, dur) \/ SendFails(r, dur) \/ ReadFails(r, dur)
         \/ HearSerial(dur) \/ IdentityRefused(dur) \/ IdentityConfirmed(dur)
         \/ HearVariant(dur) \/ HearInvalidSetting(dur) \/ HearSetting(dur)
         \/ HearPresentSetting(dur) \/ HearWrittenSetting(dur) \/ HearSample(dur)
         \/ \E verdict \in BOOLEAN : HearAnswer(dur, verdict) \/ HearReady(dur, verdict)
  PROVE  (EndsPoll \/ KeepsPolling) /\ CallMove
<1>1. ASSUME NEW outcome, NEW effect, NEW b, NEW a, NEW at,
             FinishOperation(outcome, effect, b, a, at)
      PROVE  EndsPoll
  BY <1>1 DEF FinishOperation, NotPolling, EndsPoll
<1>2. ASSUME NEW status, NEW b, NEW a, NEW last, NEW at,
             FinishOperationFailure(status, b, a, last, at)
      PROVE  EndsPoll
  BY <1>1, <1>2 DEF FinishOperationFailure
<1>3. ASSUME NEW a, NEW b, Answered(dur), Proceed(a, b, poll.at + dur, poll.left - 1)
      PROVE  KeepsPolling
  <2>1. poll.at + dur \in Nat /\ poll.at + dur >= poll.at
    BY DriverAssumption DEF IInv, SlotOK, Polls
  <2> QED BY <1>3, <2>1 DEF KeepsPolling
<1>4. ASSUME NEW r \in EffectfulOutcomes \cup PlainOutcomes,
             Send(r, dur) \/ SendLast(r, dur) \/ SendFails(r, dur) \/ ReadFails(r, dur)
      PROVE  (EndsPoll \/ KeepsPolling) /\ CallMove
  <2>1. Completed(r, dur) \in Nat /\ Completed(r, dur) >= poll.at
    BY CompletedType DEF IInv
  <2>2. CASE Send(r, dur)
    <3>1. PICK a, b : Proceed(a, b, Completed(r, dur), poll.left - 1)
      BY <2>2 DEF Send
    <3> QED BY <2>1, <2>2, <3>1, SendMoves DEF KeepsPolling
  <2>3. CASE SendLast(r, dur) \/ SendFails(r, dur) \/ ReadFails(r, dur)
    <3>1. EndsPoll
      BY <1>1, <1>2, <2>3 DEF SendLast, SendFails, ReadFails
    <3> QED BY <2>3, <3>1, SendEnds, ReadFailsMoves
  <2> QED BY <1>4, <2>2, <2>3
<1>5. CASE \/ IdentityRefused(dur) \/ IdentityConfirmed(dur) \/ HearVariant(dur)
           \/ HearInvalidSetting(dur) \/ HearWrittenSetting(dur) \/ HearSample(dur)
           \/ \E verdict \in BOOLEAN : HearAnswer(dur, verdict)
  <2>1. CallMove
    BY <1>5, HearLastMoves
  <2>2. CASE IdentityRefused(dur) \/ IdentityConfirmed(dur)
    BY <1>1, <2>1, <2>2 DEF IdentityRefused, IdentityConfirmed
  <2>3. CASE HearVariant(dur) \/ HearInvalidSetting(dur) \/ HearSample(dur)
    BY <1>1, <1>2, <2>1, <2>3 DEF HearVariant, HearInvalidSetting, HearSample
  <2>4. CASE HearWrittenSetting(dur)
    <3> DEFINE f == active.kind.field
               word == sensor.ram[f]
    <3>1. CASE ~ValidReturnedSetting(f, word)
      BY <1>1, <2>1, <2>4, <3>1 DEF HearWrittenSetting
    <3>2. CASE ValidReturnedSetting(f, word) /\ word # active.desired
      BY <1>1, <2>1, <2>4, <3>2 DEF HearWrittenSetting
    <3>3. CASE ValidReturnedSetting(f, word) /\ word = active.desired
      BY <1>1, <2>1, <2>4, <3>3 DEF HearWrittenSetting
    <3> QED BY <3>1, <3>2, <3>3
  <2>5. ASSUME NEW verdict \in BOOLEAN, HearAnswer(dur, verdict)
        PROVE  EndsPoll
    BY <1>1, <2>5, Zenon DEF HearAnswer
  <2> QED BY <1>5, <2>1, <2>2, <2>3, <2>4, <2>5
<1>6. CASE HearSerial(dur) \/ HearSetting(dur) \/ HearPresentSetting(dur)
  <2>1. CallMove
    BY <1>6, HearSerialMoves, HearSettingMoves, HearPresentSettingMoves
  <2>2. CASE HearSerial(dur)
    BY <1>3, <2>1, <2>2 DEF HearSerial
  <2>3. CASE HearSetting(dur)
    BY <1>1, <1>3, <2>1, <2>3 DEF HearSetting
  <2>4. CASE HearPresentSetting(dur)
    BY <1>1, <1>2, <1>3, <2>1, <2>4 DEF HearPresentSetting
  <2> QED BY <1>6, <2>1, <2>2, <2>3, <2>4
<1>7. ASSUME NEW ready \in BOOLEAN, HearReady(dur, ready)
      PROVE  (EndsPoll \/ KeepsPolling) /\ CallMove
  BY <1>1, <1>3, <1>7, HearReadyMoves DEF HearReady
<1> QED BY <1>4, <1>5, <1>6, <1>7

\* An iteration with a call: the budget is what ends the poll, or the next due
\* instant lies ahead.
LEMMA CallTells ==
  ASSUME IInv, IInv', SlotInv, Spinning, CallMove, EndsPoll \/ KeepsPolling
  PROVE  Spinning' /\ TellsWhen
<1>1. CASE EndsPoll
  BY <1>1 DEF EndsPoll, Spinning, TellsWhen
<1>2. CASE KeepsPolling
  <2>1. PICK a, b : \E at \in Nat : at >= poll.at /\ Proceed(a, b, at, poll.left - 1)
    BY <1>2 DEF KeepsPolling
  <2>2. PICK at \in Nat : at >= poll.at /\ Proceed(a, b, at, poll.left - 1)
    BY <2>1
  <2>3. /\ poll.on /\ poll.at \in Nat /\ poll.left \in Nat /\ poll.used \in Nat
        /\ poll.spins \in Nat /\ nextSafe \in Nat /\ activeValid
    BY DEF CallMove, Calling, IInv, SlotOK, BusOK, Polls, MaxTransitions
  <2>4. poll.used = 0 /\ poll.spins <= 1
    BY <2>3 DEF CallMove, Calling, SlotInv, Paced, Spinning
  <2>5. activeValid' => active'.callbacksUsed = active.callbacksUsed + 1
    BY DEF CallMove, GoesOn, Ends
  <2>6. active.callbacksUsed \in Nat
    BY DEF IInv, SlotOK, Operations
  <2>7. /\ active' = a
        /\ poll' = IF poll.left - 1 = 0 \/ a.nextDue > at \/ poll.spins + 1 = 32
                   THEN NotPolling
                   ELSE [on |-> TRUE, left |-> poll.left - 1, at |-> at,
                         used |-> poll.used + (poll.left - (poll.left - 1)),
                         spins |-> poll.spins + 1]
    BY <2>2 DEF Proceed, MaxTransitions
  <2>8. CASE poll.left - 1 = 0 \/ a.nextDue > at
    <3>1. ~poll'.on
      BY <2>7, <2>8 DEF NotPolling
    <3>2. poll.left = 1 \/ active'.nextDue > poll.at
      <4>1. CASE poll.left - 1 = 0
        BY <2>3, <4>1
      <4>2. CASE a.nextDue > at
        <5>1. a.nextDue \in Nat
          BY <2>7 DEF IInv, SlotOK, Operations
        <5> QED BY <2>2, <2>3, <2>7, <4>2, <5>1
      <4> QED BY <2>8, <4>1, <4>2
    <3> QED BY <2>5, <2>6, <3>1, <3>2 DEF Spinning, TellsWhen
  <2>9. CASE ~(poll.left - 1 = 0 \/ a.nextDue > at)
    <3>1. poll.spins + 1 # 32 /\ poll.spins + 1 <= 2
      BY <2>3, <2>4
    <3>2. poll'.on /\ poll'.used = 1 /\ poll'.spins = poll.spins + 1
      BY <2>3, <2>4, <2>7, <2>9, <3>1
    <3> QED BY <3>1, <3>2 DEF Spinning, TellsWhen
  <2> QED BY <2>8, <2>9
<1> QED BY <1>1, <1>2

\* A wait that is over leads to a phase that is none.
LEMMA WaitsDoNotFollow ==
  ASSUME NEW a, Standing(a), a.phase \in WaitPhases, ~EndsWithWait(a.kind)
  PROVE  PhaseAfterWait(a) \notin WaitPhases
<1> DEFINE next == PhaseAfterWait(a)
<1> USE DEF WaitPhases
<1>1. CASE a.phase \in {"WAIT_POWER_UP", "WAIT_WAKE", "WAIT_STOP"}
  <2>1. next \in {"SEND_WAKE", "SEND_STOP", "SEND_READ_COMMAND"}
    BY <1>1 DEF PhaseAfterWait
  <2> QED BY <2>1
<1>2. CASE a.phase = "WAIT_EXECUTION"
  <2>1. next = PhaseAfterExecution(a)
    BY <1>2 DEF PhaseAfterWait
  <2>2. a.kind \in Kinds
    BY DEF Standing
  <2>3. \/ a.kind.op \in {"ATTACH", "SET_SETTING", "WAKE_UP", "SELF_TEST",
                          "FORCED_RECALIBRATION", "FETCH_SAMPLE"}
        \/ a.kind.op \in ReadOps \cup SingleShotOps \cup ResetOps \cup DiagnosticOps
    BY <2>2, OpCases DEF EndsWithWait, MeasurementOps, MaintenanceOps, ModeOps, ResetOps
  <2>4. CASE a.kind.op = "FETCH_SAMPLE"
    BY <1>2, <2>4, ReachableCases DEF Standing, FetchSteps
  <2>5. CASE a.kind.op = "WAKE_UP"
    <3>1. a.index \in {0, 1, 2}
      BY <1>2, <2>5, ReachableCases DEF Standing, WakeSteps
    <3>2. next \in {"SEND_READ_COMMAND", "READ_RESPONSE", "READ_VERIFY_RESPONSE"}
      BY <2>1, <2>5, <3>1, AfterExecutionCases
    <3> QED BY <3>2
  <2>6. CASE a.kind.op \in {"ATTACH", "SET_SETTING", "SELF_TEST", "FORCED_RECALIBRATION"}
    <3>1. next \in {"READ_RESPONSE", "READ_VERIFY_RESPONSE", "SEND_COMMAND",
                    "READ_DEFERRED_RESULT"}
      BY <2>1, <2>6, AfterExecutionCases
    <3> QED BY <3>1
  <2>7. CASE a.kind.op \in ReadOps \cup SingleShotOps \cup ResetOps \cup DiagnosticOps
    <3>1. next \in {"READ_RESPONSE", "READ_VERIFY_RESPONSE", "SEND_READY_COMMAND",
                    "SEND_VERIFY_COMMAND"}
      BY <2>1, <2>7, AfterExecutionCases
    <3> QED BY <3>1
  <2> QED BY <2>3, <2>4, <2>5, <2>6, <2>7
<1> QED BY <1>1, <1>2

\* An iteration without a call.
LEMMA QuietTells ==
  ASSUME IInv, SlotInv, Spinning,
         \/ PollBreak \/ GateDefers \/ NotDue \/ WaitOver \/ CommandSettled
         \/ PersistShortcut \/ BudgetExhausted
  PROVE  Spinning' /\ TellsWhen
<1>1. CASE PollBreak \/ NotDue \/ BudgetExhausted
  <2>1. ~poll'.on /\ UNCHANGED active /\ (active.nextDue > poll.at \/ poll.left = 0)
    BY <1>1 DEF PollBreak, NotDue, BudgetExhausted, NotPolling
  <2> QED BY <2>1 DEF Spinning, TellsWhen
<1>2. CASE CommandSettled \/ PersistShortcut
  <2>1. ~poll'.on /\ ~activeValid'
    BY <1>2 DEF CommandSettled, PersistShortcut, FinishOperation, NotPolling
  <2> QED BY <2>1 DEF Spinning, TellsWhen
<1>3. CASE GateDefers
  <2> DEFINE a == [active EXCEPT !.nextDue = nextSafe]
  <2>1. Proceed(a, belief, poll.at, poll.left) /\ nextSafe > poll.at
    BY <1>3 DEF GateDefers
  <2>2. a.nextDue = nextSafe
    BY DEF IInv, SlotOK, Operations
  <2> HIDE DEF a
  <2>3. ~poll'.on /\ active' = a
    BY <2>1, <2>2 DEF Proceed, NotPolling
  <2> QED BY <2>1, <2>2, <2>3 DEF Spinning, TellsWhen
<1>4. CASE WaitOver
  <2> DEFINE a == [active EXCEPT !.phase = PhaseAfterWait(active)]
  <2>1. /\ poll.on /\ nextSafe <= poll.at /\ active.phase \in WaitPhases
        /\ ~EndsWithWait(active.kind)
    BY <1>4 DEF WaitOver, WaitIsOver, Working
  <2>2. PICK b : Proceed(a, b, poll.at, poll.left)
    BY <1>4 DEF WaitOver
  <2>3. /\ poll.at \in Nat /\ poll.left \in Nat /\ poll.used \in Nat
        /\ poll.spins \in Nat /\ nextSafe \in Nat
    BY DEF IInv, SlotOK, BusOK, Polls, MaxTransitions
  <2>4. poll.used = 0 /\ poll.spins = 0
    BY <2>1, <2>3 DEF SlotInv, Paced, Spinning
  <2>5. a.phase \notin WaitPhases
    <3>1. Standing(active)
      BY <2>1, ActiveStands DEF IInv, SlotOK, InTime
    <3>2. a.phase = PhaseAfterWait(active)
      BY DEF IInv, SlotOK, Operations
    <3> HIDE DEF a
    <3> QED BY <2>1, <3>1, <3>2, WaitsDoNotFollow
  <2> HIDE DEF a
  <2>6. /\ active' = a
        /\ poll' = IF poll.left = 0 \/ a.nextDue > poll.at \/ poll.spins + 1 = 32
                   THEN NotPolling
                   ELSE [on |-> TRUE, left |-> poll.left, at |-> poll.at,
                         used |-> poll.used + (poll.left - poll.left),
                         spins |-> poll.spins + 1]
    BY <2>2 DEF Proceed, MaxTransitions
  <2>7. CASE poll.left = 0 \/ a.nextDue > poll.at
    <3>1. ~poll'.on
      BY <2>6, <2>7 DEF NotPolling
    <3> QED BY <2>6, <2>7, <3>1 DEF Spinning, TellsWhen
  <2>8. CASE ~(poll.left = 0 \/ a.nextDue > poll.at)
    <3>1. poll'.on /\ poll'.spins = 1
      BY <2>4, <2>6, <2>8
    <3> QED BY <2>5, <2>6, <3>1 DEF Spinning, TellsWhen
  <2> QED BY <2>7, <2>8
<1> QED BY <1>1, <1>2, <1>3, <1>4

\* No call of the owner is made inside a poll, and each poll starts counting
\* anew.
LEMMA OwnerTells ==
  ASSUME IInv, OwnerCall \/ \E s2 \in Replacements : Disturb(s2)
  PROVE  Spinning' /\ TellsWhen
<1>1. ASSUME NEW budget, NEW d, EnterPoll(budget, d)
      PROVE  /\ ~poll.on
             /\ ~poll'.on \/ (poll'.used = 0 /\ poll'.spins = 0)
  <2>1. CASE activeValid /\ active.deadline > d
    BY <1>1, <2>1 DEF EnterPoll, NotPolling
  <2>2. CASE activeValid /\ ~(active.deadline > d)
    <3>1. ~poll.on /\ FinishOperationFailure("TIMEOUT", belief, active, lastEffectful, d)
      BY <1>1, <2>2 DEF EnterPoll
    <3>2. PICK outcome, effect, b : FinishOperation(outcome, effect, b, active, d)
      BY <3>1 DEF FinishOperationFailure
    <3> QED BY <3>1, <3>2 DEF FinishOperation, NotPolling
  <2>3. CASE ~activeValid
    BY <1>1, <2>3 DEF EnterPoll
  <2> QED BY <2>1, <2>2, <2>3
<1>2. ASSUME NEW id, NEW d, Cancel(id, d)
      PROVE  ~poll.on /\ ~poll'.on
  BY <1>2 DEF Cancel, FinishOperation, NotPolling
<1>3. ASSUME NEW k, NEW id, NEW w, NEW deadline, NEW d, Start(k, id, w, deadline, d)
      PROVE  ~poll.on /\ ~poll'.on
  BY <1>3 DEF Start
<1>4. CASE End \/ (\E c \in Configs : Begin(c)) \/ TakeResult(terminal.id)
           \/ \E s2 \in Replacements : Disturb(s2)
  <2>1. ~poll.on /\ ~poll'.on
    BY <1>4 DEF End, Begin, TakeResult, Disturb, driverVars
  <2> QED BY <2>1 DEF Spinning, TellsWhen
<1>5. ~poll.on /\ (~poll'.on \/ (poll'.used = 0 /\ poll'.spins = 0)) => Spinning' /\ TellsWhen
  BY DEF Spinning, TellsWhen
<1> QED BY <1>1, <1>2, <1>3, <1>4, <1>5 DEF OwnerCall

LEMMA NextTells ==
  ASSUME IInv, IInv', SlotInv, Spinning, [Next]_vars
  PROVE  Spinning' /\ TellsWhen
<1>1. CASE UNCHANGED vars
  BY <1>1 DEF vars, driverVars, Spinning, TellsWhen
<1>2. CASE LoopStep
  BY <1>2, QuietTells, CallShapes, CallTells DEF LoopStep
<1> QED BY <1>1, <1>2, OwnerTells DEF Next

\* A poll that leaves the operation active has spent its budget, or the
\* instant it tells the owner to come back lies ahead: the loop is never left
\* for going round too often.
THEOREM DueTimeIsTold == Spec => NextDueTellsWhen
<1>1. Init => Spinning
  BY DEF Init, Spinning, NotPolling
<1>2. IInv /\ IInv' /\ SlotInv /\ Spinning /\ [Next]_vars => Spinning' /\ [TellsWhen]_vars
  BY NextTells
<1> QED
  BY <1>1, <1>2, Invariance, SlotInvariance, PTL DEF Spec, NextDueTellsWhen, TellsWhen
=============================================================================
