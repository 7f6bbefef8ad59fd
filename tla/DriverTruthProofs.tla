-------------------------- MODULE DriverTruthProofs --------------------------
(***************************************************************************)
(* What the driver claims about the sensor is true, until somebody         *)
(* replaces or power-cycles the sensor behind its back: the identity, the  *)
(* words of the verified settings, the pressure source and, whenever no    *)
(* mode command is under way, the mode.                                    *)
(*                                                                         *)
(* The claims are true because every command that may have changed the     *)
(* sensor withdraws what it may have changed, however its transfer ended,  *)
(* and because a new claim rests on answers that belong together: OpTrue   *)
(* says what an operation has learnt when it comes to a phase.             *)
(***************************************************************************)
EXTENDS DriverBeliefProofs

\* The phases in which an operation knows the serial number ...
SerialHeard(a) ==
  \/ a.kind.op \in {"ATTACH", "READ_IDENTITY"} \cup ResetOps /\ a.index = 1
  \/ a.kind.op = "WAKE_UP" /\ (a.index = 2 \/ a.phase = "SEND_VERIFY_COMMAND")

\* ... waits for the mode command it has sent ...
ModeWait(a) == a.kind.op \in ModeOps \ {"WAKE_UP"} /\ a.phase = "WAIT_EXECUTION"

\* ... or has written the setting.
Written(a) == a.kind.op = "SET_SETTING" /\ a.index \in {2, 3}

\* What an operation has learnt of the sensor.  Only an idle sensor answers
\* the question for its variant.
OpTrue(a, s) ==
  /\ SerialHeard(a) => /\ a.serial = s.serial
                       /\ a.phase # "SEND_VERIFY_COMMAND" => s.mode = "IDLE"
  /\ ModeWait(a) => s.mode = ModeAfter(a.kind)
  /\ /\ Written(a) /\ a.kind.field \in CompensationFields
     /\ s.ram[a.kind.field] = a.desired
     => s.source = a.kind.field

\* The claims of a belief, and the mode, are those of a sensor.
ClaimsTrue(b, s) ==
  /\ b.attached => b.identity.serial = s.serial /\ b.identity.variant = s.variant
  /\ \A f \in b.verified : b.cached[f] = s.ram[f]
  /\ b.compensation # NoField => b.compensation = s.source

ModeTrue(b, s) == b.attached => b.mode = s.mode

\* An operation that has changed something knows that it tried.
Tried(a) == /\ a.attempted => a.callbacksUsed > 0
            /\ ModeWait(a) => a.attempted

\* From its wake on ATTACH has dropped every claim.
Dropped(a, b) == /\ a.kind.op = "ATTACH"
                 /\ a.phase \notin {"WAIT_POWER_UP", "SEND_WAKE"}
                 => ~b.attached

TruthInv ==
  /\ activeValid => Tried(active) /\ Dropped(active, belief)
  /\ ~truth.disturbed =>
       /\ ClaimsTrue(belief, sensor)
       /\ activeValid => OpTrue(active, sensor)
       /\ (activeValid /\ ModeWait(active)) \/ ModeTrue(belief, sensor)
-----------------------------------------------------------------------------
(* What the transport's answers and the sensor's reactions can be.         *)

\* A transfer is complete exactly when it succeeded, in order of time; and a
\* NACK comes with a valid clock.
LEMMA OutcomeShape ==
  ASSUME NEW r \in EffectfulOutcomes \cup PlainOutcomes
  PROVE  /\ r.code = "OK" => r.disposition = "COMPLETE"
         /\ r.disposition = "COMPLETE" => r.code = "OK"
         /\ r.code \in {"OK", "NACK"} => r.clockValid
<1>1. PICK raw \in RawResults, e \in BOOLEAN : r = Class(Normalise(raw, e))
  BY DEF EffectfulOutcomes, PlainOutcomes
<1> DEFINE r1 == AfterClock(raw)
           r2 == AfterShape(r1, e)
           r3 == AfterExactness(r2)
           r4 == AfterFailure(r3)
<1>2. /\ r.disposition = r4.disposition /\ r.clockValid = raw.clockValid
      /\ r.code = IF r4.code \in {"OK", "NACK"} THEN r4.code ELSE "FAILED"
  BY <1>1 DEF Class, Normalise
<1>3. /\ raw.code \in Codes \cup {Invalid}
      /\ raw.disposition \in Dispositions \cup {Invalid}
  BY DEF RawResults
<1>4. /\ r1.code \in Codes \cup {Invalid} /\ r1.bytes = raw.bytes
      /\ ~raw.clockValid => r1.code = "FAILED"
  BY <1>3 DEF AfterClock, Codes, RawResults
<1>5. /\ r2.code \in Codes \cup {Invalid} /\ r2.bytes = raw.bytes
      /\ ~raw.clockValid => r2.code = "FAILED"
  <2>1. r1 \in [code : Codes \cup {Invalid}, disposition : Dispositions \cup {Invalid},
                bytes : ByteCounts, clockValid : BOOLEAN]
    BY DEF AfterClock, RawResults, Codes, Dispositions
  <2> HIDE DEF r1
  <2> QED BY <1>4, <2>1 DEF AfterShape, Codes
<1>6. r2 \in [code : Codes \cup {Invalid}, disposition : Dispositions \cup {Invalid},
              bytes : ByteCounts, clockValid : BOOLEAN]
  <2>1. r1 \in [code : Codes \cup {Invalid}, disposition : Dispositions \cup {Invalid},
                bytes : ByteCounts, clockValid : BOOLEAN]
    BY DEF AfterClock, RawResults, Codes, Dispositions
  <2> HIDE DEF r1
  <2> QED BY <2>1 DEF AfterShape, Codes, Dispositions
<1> HIDE DEF r1, r2
<1>7. /\ r3 \in [code : Codes \cup {Invalid}, disposition : Dispositions \cup {Invalid},
                 bytes : ByteCounts, clockValid : BOOLEAN]
      /\ r3.code = "OK" => r3.disposition = "COMPLETE"
      /\ ~raw.clockValid => r3.code = "FAILED"
  BY <1>5, <1>6 DEF AfterExactness, Codes, Dispositions
<1> HIDE DEF r3
<1>8. /\ r4.code = r3.code
      /\ r4.code = "OK" => r4.disposition = "COMPLETE"
      /\ r4.disposition = "COMPLETE" => r4.code = "OK"
      /\ ~raw.clockValid => r4.code = "FAILED"
  BY <1>7 DEF AfterFailure
<1> HIDE DEF r4
<1> QED BY <1>2, <1>8

\* Commands that only ask.
Questions == {"GET_SERIAL", "GET_VARIANT", "GET_DATA_READY", "READ_MEASUREMENT",
              "GET", "READ_WORDS"}

\* A wake that the sensor does not acknowledge.
Unanswered(c, r) ==
  c.name = "WAKE_UP" /\ r.code = "NACK" /\ r.disposition = "NO_EFFECT"

\* What a reaction may be: the command is taken and the sensor changes as it
\* does, or it is not taken and the sensor stays.
Reacted(s, c, r, react) ==
  \/ /\ react.took = TRUE /\ react.sensor \in After(s, c) /\ Accepts(s, c)
     /\ r.disposition \in {"COMPLETE", "INDETERMINATE"} \/ Unanswered(c, r)
  \/ /\ react.took = FALSE /\ react.sensor = s
     /\ r.disposition # "COMPLETE"

\* A sensor that reacts has taken the command or has not noticed it.
LEMMA ReactionCases ==
  ASSUME NEW s, NEW c, NEW r, NEW react \in Reactions(s, c, r)
  PROVE  Reacted(s, c, r, react)
<1> DEFINE mayTake == /\ Accepts(s, c)
                      /\ \/ r.disposition \in {"COMPLETE", "INDETERMINATE"}
                         \/ /\ c.name = "WAKE_UP"
                            /\ r.code = "NACK"
                            /\ r.disposition = "NO_EFFECT"
           taken == IF mayTake THEN {[took |-> TRUE, sensor |-> s2] : s2 \in After(s, c)}
                               ELSE {}
           refused == IF r.disposition = "COMPLETE" THEN {}
                      ELSE {[took |-> FALSE, sensor |-> s]}
<1>1. react \in taken \cup refused
  BY DEF Reactions
<1>2. CASE react \in taken
  BY <1>2 DEF Unanswered, Reacted
<1>3. CASE react \in refused
  BY <1>3 DEF Reacted
<1> QED BY <1>1, <1>2, <1>3

\* What is left of the sensor after a reaction.
LEMMA ReactionEnds ==
  ASSUME NEW s, NEW c, NEW r, NEW react \in Reactions(s, c, r)
  PROVE  /\ react.sensor = s \/ react.sensor \in After(s, c)
         /\ r.disposition = "COMPLETE" => react.sensor \in After(s, c)
         /\ \/ r.disposition \in {"COMPLETE", "INDETERMINATE"}
            \/ react.sensor = s
            \/ Unanswered(c, r)
<1>1. Reacted(s, c, r, react)
  BY ReactionCases
<1> QED BY <1>1 DEF Reacted

\* A question changes nothing.
LEMMA AfterQuestion ==
  ASSUME NEW s, NEW c, c.name \in Questions
  PROVE  After(s, c) = {s}
  BY DEF After, Questions

\* No command changes who the sensor is.
LEMMA AfterIdentity ==
  ASSUME NEW s \in Sensors, NEW c, NEW s2 \in After(s, c)
  PROVE  s2.serial = s.serial /\ s2.variant = s.variant
  BY DEF After, Sensors

\* What the commands of the mode operations change.
LEMMA AfterMode ==
  ASSUME NEW s \in Sensors, NEW c, NEW k, k.op \in ModeOps, c = Command(k.op),
         NEW s2 \in After(s, c)
  PROVE  /\ s2.ram = s.ram /\ s2.source = s.source
         /\ k.op # "WAKE_UP" => s2.mode = ModeAfter(k)
  BY DEF After, Command, Sensors, ModeAfter, ModeOps

\* What a setting write changes: the word with its source, or nothing.
LEMMA AfterSet ==
  ASSUME NEW s \in Sensors, NEW f \in Fields, NEW w \in Words,
         NEW s2 \in After(s, SetCommand(f, w))
  PROVE  /\ s2.mode = s.mode
         /\ \A g \in Fields \ {f} : s2.ram[g] = s.ram[g]
         /\ f \notin CompensationFields => s2.source = s.source
         /\ s2.ram[f] = w /\ f \in CompensationFields => s2.source = f
         /\ s.ram[f] = w => s2.ram = s.ram
<1> DEFINE c == SetCommand(f, w)
           t == [s EXCEPT !.ram[f] = w,
                          !.source = IF f \in CompensationFields THEN f ELSE @]
<1>1. c.name = "SET" /\ c.field = f /\ c.word = w
  BY DEF SetCommand
<1>2. s2 = t \/ (s2 = s /\ s.ram[f] # w)
  <2>1. s2 \in {t} \cup (IF s.ram[f] = w THEN {} ELSE {s})
    BY <1>1 DEF After
  <2> QED BY <2>1
<1>3. /\ t.mode = s.mode /\ \A g \in Fields \ {f} : t.ram[g] = s.ram[g]
      /\ f \notin CompensationFields => t.source = s.source
      /\ f \in CompensationFields => t.source = f
      /\ s.ram[f] = w => t.ram = s.ram
  BY DEF Sensors
<1> HIDE DEF t
<1> QED BY <1>2, <1>3

\* The other commands leave the runtime settings and the mode alone.
LEMMA AfterOther ==
  ASSUME NEW s \in Sensors, NEW c,
         c.name \in SingleShotOps \cup {"SELF_TEST", "FORCED_RECALIBRATION",
                                       "PERSIST_SETTINGS"},
         NEW s2 \in After(s, c)
  PROVE  s2.mode = s.mode /\ s2.ram = s.ram /\ s2.source = s.source
<1>1. CASE c.name = "PERSIST_SETTINGS"
  BY <1>1 DEF After, Sensors
<1>2. CASE c.name # "PERSIST_SETTINGS"
  BY <1>2 DEF After, SingleShotOps
<1> QED BY <1>1, <1>2
-----------------------------------------------------------------------------
(* What the sending phases put on the bus.                                 *)

\* The commands that change something, and where they lead.
Ordering(a, leg) ==
  \/ /\ a.kind.op = "ATTACH" /\ a.phase = "SEND_WAKE"
     /\ leg.command = Command("WAKE_UP") /\ leg.nack = TRUE
     /\ leg.phase = "WAIT_WAKE" /\ leg.index = 0
  \/ /\ a.kind.op = "ATTACH" /\ a.phase = "SEND_STOP"
     /\ leg.command = Command("STOP_PERIODIC")
     /\ leg.phase = "WAIT_STOP" /\ leg.index = 0
  \/ /\ a.kind.op = "SET_SETTING" /\ a.index = 1
     /\ leg.command = SetCommand(a.kind.field, a.desired) /\ leg.nack = FALSE
     /\ leg.phase = "WAIT_EXECUTION" /\ leg.index = 2
  \/ /\ a.kind.op \in ModeOps \cup SingleShotOps \cup MaintenanceOps
     /\ a.phase = "SEND_COMMAND" /\ leg.command = Command(a.kind.op)
     /\ a.kind.op = "WAKE_UP" => leg.nack = TRUE
     /\ a.kind.op # "WAKE_UP" => leg.nack = FALSE
     /\ leg.phase = "WAIT_EXECUTION" /\ leg.index = 0
  \/ /\ a.kind.op \in DiagnosticOps /\ leg.command = Command("DIAGNOSTIC")
     /\ leg.phase = "WAIT_EXECUTION" /\ leg.index = 0

\* The questions: that for the variant comes when the serial number is known.
Asking(a, leg) ==
  /\ leg.command.name \in Questions \ {"READ_WORDS"} /\ leg.nack = FALSE
  /\ a.kind.op = "ATTACH" => a.phase # "SEND_WAKE"
  /\ \/ /\ a.kind.op \in {"ATTACH", "READ_IDENTITY"} \cup ResetOps
        /\ leg.index = 1 => a.index = 1 /\ leg.command = Command("GET_VARIANT")
     \/ /\ a.kind.op = "WAKE_UP" /\ leg.phase = "WAIT_EXECUTION"
        /\ leg.index = 2 => /\ a.phase = "SEND_VERIFY_COMMAND"
                            /\ leg.command = Command("GET_VARIANT")
     \/ a.kind.op = "SET_SETTING" /\ (leg.index = 0 \/ a.index = 2)
     \/ a.kind.op \in MeasurementOps \cup (ReadOps \ {"READ_IDENTITY"})

LEMMA LegPurpose ==
  ASSUME NEW a, Standing(a), a.phase \in SendPhases
  PROVE  LET leg == Leg(a)
         IN (leg.effectful /\ Ordering(a, leg)) \/ (~leg.effectful /\ Asking(a, leg))
<1> DEFINE leg == Leg(a)
           p == a.phase
           i == a.index
<1> USE DEF Command, Query, Order, SendPhases
<1>1. CASE a.kind.op = "ATTACH"
  <2>1. leg = AttachLeg(a) /\ Reachable(a.kind) = AttachSteps
    BY <1>1, LegCases, ReachableCases
  <2>2. \/ p \in {"SEND_WAKE", "SEND_STOP"} \/ p = "SEND_READ_COMMAND"
        \/ p = "SEND_VERIFY_COMMAND" /\ i = 1
    BY <2>1 DEF Standing, AttachSteps
  <2>3. CASE p = "SEND_WAKE"
    <3>1. leg = Order(Command("WAKE_UP"), TRUE, "WAIT_WAKE", SettleMs["POWER_UP"], 0)
      BY <2>1, <2>3 DEF AttachLeg
    <3> QED BY <1>1, <2>3, <3>1 DEF Ordering
  <2>4. CASE p = "SEND_STOP"
    <3>1. leg = Order(Command("STOP_PERIODIC"), TRUE, "WAIT_STOP",
                      SettleMs["STOP_PERIODIC"], 0)
      BY <2>1, <2>4 DEF AttachLeg
    <3> QED BY <1>1, <2>4, <3>1 DEF Ordering
  <2>5. CASE p = "SEND_READ_COMMAND"
    <3>1. leg = Query(Command("GET_SERIAL"), "WAIT_EXECUTION", 0)
      BY <2>1, <2>5 DEF AttachLeg
    <3> QED BY <1>1, <2>5, <3>1 DEF Asking, Questions
  <2>6. CASE p = "SEND_VERIFY_COMMAND" /\ i = 1
    <3>1. leg = Query(Command("GET_VARIANT"), "WAIT_EXECUTION", 1)
      BY <2>1, <2>6 DEF AttachLeg
    <3> QED BY <1>1, <2>6, <3>1 DEF Asking, Questions
  <2> QED BY <2>2, <2>3, <2>4, <2>5, <2>6
<1>2. CASE a.kind.op \in MeasurementOps
  <2>1. leg = MeasurementLeg(a)
    BY <1>2, LegCases
  <2>2. Reachable(a.kind) \in {FetchSteps, CommandSteps \cup FetchSteps}
    BY <1>2, ReachableCases DEF MeasurementOps
  <2>3. \/ p \in {"SEND_READY_COMMAND", "SEND_READ_COMMAND"}
        \/ p = "SEND_COMMAND" /\ a.kind.op \in SingleShotOps
    BY <1>2, <2>2, ReachableCases DEF Standing, CommandSteps, FetchSteps, MeasurementOps
  <2>4. CASE p = "SEND_READY_COMMAND"
    <3>1. leg = Query(Command("GET_DATA_READY"), "READ_READY_RESPONSE", 0)
      BY <2>1, <2>4 DEF MeasurementLeg
    <3> QED BY <1>2, <2>4, <3>1 DEF Asking, Questions, MeasurementOps, SingleShotOps
  <2>5. CASE p = "SEND_READ_COMMAND"
    <3>1. leg = Query(Command("READ_MEASUREMENT"), "READ_RESPONSE", 0)
      BY <2>1, <2>5 DEF MeasurementLeg
    <3> QED BY <1>2, <2>5, <3>1 DEF Asking, Questions, MeasurementOps, SingleShotOps
  <2>6. CASE p = "SEND_COMMAND" /\ a.kind.op \in SingleShotOps
    <3>1. leg = Order(Command(a.kind.op), FALSE, "WAIT_EXECUTION",
                      ExecutionWait(a.kind), 0)
      BY <2>1, <2>6 DEF MeasurementLeg
    <3>2. a.kind.op # "WAKE_UP"
      BY <2>6 DEF SingleShotOps
    <3> QED BY <2>6, <3>1, <3>2 DEF Ordering
  <2> QED BY <2>3, <2>4, <2>5, <2>6
<1>3. CASE a.kind.op \in MaintenanceOps
  <2>1. leg = MaintenanceLeg(a)
    BY <1>3, LegCases
  <2>2. \/ a.kind.op \in ResetOps /\ Reachable(a.kind) = ResetSteps
        \/ Reachable(a.kind) \in {CommandSteps, DeferredSteps}
    BY <1>3, ReachableCases DEF MaintenanceOps, ResetOps
  <2>3. \/ p = "SEND_COMMAND"
        \/ p = "SEND_VERIFY_COMMAND" /\ i \in {0, 1} /\ a.kind.op \in ResetOps
    BY <2>2 DEF Standing, CommandSteps, ResetSteps, DeferredSteps
  <2>4. CASE p = "SEND_COMMAND"
    <3>1. leg = Order(Command(a.kind.op), FALSE, "WAIT_EXECUTION",
                      ExecutionWait(a.kind), 0)
      BY <2>1, <2>4 DEF MaintenanceLeg
    <3>2. a.kind.op # "WAKE_UP"
      BY <1>3 DEF MaintenanceOps
    <3> QED BY <1>3, <2>4, <3>1, <3>2 DEF Ordering
  <2>5. CASE p = "SEND_VERIFY_COMMAND" /\ i \in {0, 1} /\ a.kind.op \in ResetOps
    <3>1. leg = Query(Command(IF i = 0 THEN "GET_SERIAL" ELSE "GET_VARIANT"),
                      "READ_VERIFY_RESPONSE", i)
      BY <2>1, <2>5 DEF MaintenanceLeg
    <3>2. a.kind.op # "ATTACH"
      BY <1>3 DEF MaintenanceOps
    <3> QED BY <2>5, <3>1, <3>2 DEF Asking, Questions
  <2> QED BY <2>3, <2>4, <2>5
<1>4. CASE a.kind.op \in DiagnosticOps
  <2>1. leg = DiagnosticLeg(a)
    BY <1>4, LegCases
  <2> QED BY <1>4, <2>1 DEF DiagnosticLeg, Ordering
<1>5. CASE a.kind.op = "SET_SETTING"
  <2>1. leg = SettingLeg(a) /\ Reachable(a.kind) = SettingSteps
    BY <1>5, LegCases, ReachableCases
  <2>2. i \in {0, 1, 2}
    BY <2>1 DEF Standing, SettingSteps
  <2>3. CASE i = 0
    <3>1. leg = Query(GetCommand(a.kind.field), "WAIT_EXECUTION", 0)
      BY <2>1, <2>3 DEF SettingLeg
    <3> QED BY <1>5, <2>3, <3>1 DEF Asking, Questions, GetCommand
  <2>4. CASE i = 1
    <3>1. leg = Order(SetCommand(a.kind.field, a.desired), FALSE,
                      "WAIT_EXECUTION", SettleMs["SHORT"], 2)
      BY <2>1, <2>4 DEF SettingLeg
    <3> QED BY <1>5, <2>4, <3>1 DEF Ordering
  <2>5. CASE i = 2
    <3>1. leg = Query(GetCommand(a.kind.field), "WAIT_EXECUTION", 3)
      BY <2>1, <2>5 DEF SettingLeg
    <3> QED BY <1>5, <2>5, <3>1 DEF Asking, Questions, GetCommand
  <2> QED BY <2>2, <2>3, <2>4, <2>5
<1>6. CASE a.kind.op \in ModeOps
  <2>1. leg = ModeLeg(a)
    BY <1>6, LegCases
  <2>2. \/ a.kind.op = "WAKE_UP" /\ Reachable(a.kind) = WakeSteps
        \/ Reachable(a.kind) = CommandSteps
    BY <1>6, ReachableCases
  <2>3. \/ p = "SEND_COMMAND"
        \/ /\ p \in {"SEND_READ_COMMAND", "SEND_VERIFY_COMMAND"}
           /\ a.kind.op = "WAKE_UP"
    BY <2>2 DEF Standing, CommandSteps, WakeSteps
  <2>4. CASE p = "SEND_READ_COMMAND" /\ a.kind.op = "WAKE_UP"
    <3>1. leg = Query(Command("GET_SERIAL"), "WAIT_EXECUTION", 1)
      BY <2>1, <2>4 DEF ModeLeg
    <3> QED BY <2>4, <3>1 DEF Asking, Questions
  <2>5. CASE p = "SEND_VERIFY_COMMAND" /\ a.kind.op = "WAKE_UP"
    <3>1. leg = Query(Command("GET_VARIANT"), "WAIT_EXECUTION", 2)
      BY <2>1, <2>5 DEF ModeLeg
    <3> QED BY <2>5, <3>1 DEF Asking, Questions
  <2>6. CASE p = "SEND_COMMAND"
    <3>1. leg = Order(Command(a.kind.op), a.kind.op = "WAKE_UP", "WAIT_EXECUTION",
                      ExecutionWait(a.kind), 0)
      BY <2>1, <2>6 DEF ModeLeg
    <3>2. CASE a.kind.op = "WAKE_UP"
      <4>1. (a.kind.op = "WAKE_UP") = TRUE
        BY <3>2
      <4>2. leg = Order(Command(a.kind.op), TRUE, "WAIT_EXECUTION",
                        ExecutionWait(a.kind), 0)
        BY <3>1, <4>1
      <4> QED BY <1>6, <2>6, <3>2, <4>2 DEF Ordering
    <3>3. CASE a.kind.op # "WAKE_UP"
      <4>1. (a.kind.op = "WAKE_UP") = FALSE
        BY <3>3
      <4>2. leg = Order(Command(a.kind.op), FALSE, "WAIT_EXECUTION",
                        ExecutionWait(a.kind), 0)
        BY <3>1, <4>1
      <4> QED BY <1>6, <2>6, <3>3, <4>2 DEF Ordering
    <3> QED BY <3>2, <3>3
  <2> QED BY <2>3, <2>4, <2>5, <2>6
<1>7. CASE a.kind.op \in ReadOps
  <2>1. leg = ReadLeg(a)
    BY <1>7, LegCases
  <2>2. ReadCommand(a).name \in {"GET_SERIAL", "GET_VARIANT", "GET_DATA_READY", "GET"}
    BY DEF ReadCommand, GetCommand
  <2>3. a.kind.op = "READ_IDENTITY" =>
          (p = "SEND_COMMAND" /\ i = 0) \/ (p = "SEND_VERIFY_COMMAND" /\ i = 1)
    BY ReachableCases DEF Standing, IdentitySteps, ReadSteps
  <2>4. CASE p = "SEND_COMMAND"
    <3>1. leg = Query(ReadCommand(a), "WAIT_EXECUTION", i)
      BY <2>1, <2>4 DEF ReadLeg
    <3> QED BY <1>7, <2>2, <2>3, <2>4, <3>1 DEF Asking, Questions, ReadOps
  <2>5. CASE p # "SEND_COMMAND"
    <3>1. leg = Query(Command("GET_VARIANT"), "WAIT_EXECUTION", i)
      BY <2>1, <2>5 DEF ReadLeg
    <3> QED BY <1>7, <2>3, <2>5, <3>1 DEF Asking, Questions, ReadOps
  <2> QED BY <2>4, <2>5
<1> QED BY <1>1, <1>2, <1>3, <1>4, <1>5, <1>6, <1>7, OpCases DEF Standing
-----------------------------------------------------------------------------
(* Claims that are kept, withdrawn or made.                                *)

\* A belief without claims is true of every sensor.
LEMMA UnclaimedTrue ==
  ASSUME NEW b, b.attached = FALSE, b.verified = {}, b.compensation = NoField, NEW s
  PROVE  ClaimsTrue(b, s) /\ ModeTrue(b, s)
  BY DEF ClaimsTrue, ModeTrue

\* The same claims are as true.
LEMMA SameTrue ==
  ASSUME NEW b2, NEW b, SameClaims(b2, b), NEW s
  PROVE  /\ ClaimsTrue(b, s) => ClaimsTrue(b2, s)
         /\ ModeTrue(b, s) => ModeTrue(b2, s)
  BY DEF SameClaims, ClaimsTrue, ModeTrue

\* An operation that stands where it stood knows what it knew.
LEMMA SameStanding ==
  ASSUME NEW a2, NEW a, a2.kind = a.kind, a2.phase = a.phase, a2.index = a.index,
         a2.serial = a.serial, a2.desired = a.desired, a2.attempted = a.attempted,
         a2.callbacksUsed = a.callbacksUsed
  PROVE  /\ Tried(a) => Tried(a2)
         /\ \A b : Dropped(a, b) => Dropped(a2, b)
         /\ \A s : OpTrue(a, s) => OpTrue(a2, s)
         /\ ModeWait(a2) = ModeWait(a)
  BY DEF Tried, Dropped, OpTrue, ModeWait, SerialHeard, Written

\* An iteration that leaves the operation active.
LEMMA ProceedTruth ==
  ASSUME NEW a, NEW b, NEW at, NEW left, Proceed(a, b, at, left),
         Tried(a), Dropped(a, b),
         ~truth'.disturbed => /\ ClaimsTrue(b, sensor') /\ OpTrue(a, sensor')
                              /\ ModeWait(a) \/ ModeTrue(b, sensor'),
         activeValid
  PROVE  TruthInv'
  BY DEF TruthInv, Proceed

\* A step that leaves no operation active.
LEMMA IdleTruth ==
  ASSUME ~activeValid',
         ~truth'.disturbed => ClaimsTrue(belief', sensor') /\ ModeTrue(belief', sensor')
  PROVE  TruthInv'
  BY DEF TruthInv

\* An iteration that ends the operation.
LEMMA FinishTruth ==
  ASSUME NEW outcome, NEW effect, NEW b \in Beliefs, NEW a, NEW at,
         FinishOperation(outcome, effect, b, a, at),
         ~truth'.disturbed => ClaimsTrue(b, sensor') /\ ModeTrue(b, sensor')
  PROVE  TruthInv'
  BY FinishBelief, SameTrue, IdleTruth

\* One that fails it: either the claims are withdrawn, or they were true.
LEMMA FailureTruth ==
  ASSUME NEW status, NEW b \in Beliefs, NEW a, NEW last, NEW at,
         FinishOperationFailure(status, b, a, last, at),
         ~truth'.disturbed /\ ~InDoubt(status = "TIMEOUT", a, last)
           => ClaimsTrue(b, sensor') /\ ModeTrue(b, sensor')
  PROVE  TruthInv'
<1>1. CASE InDoubt(status = "TIMEOUT", a, last)
  <2>1. Unclaimed(belief', b) /\ ~activeValid'
    BY <1>1, FailureBelief
  <2> QED BY <2>1, UnclaimedTrue, IdleTruth DEF Unclaimed
<1>2. CASE ~InDoubt(status = "TIMEOUT", a, last)
  <2>1. SameClaims(belief', b) /\ ~activeValid'
    BY <1>2, FailureBelief
  <2> QED BY <1>2, <2>1, SameTrue, IdleTruth
<1> QED BY <1>1, <1>2
-----------------------------------------------------------------------------
(* The iterations without the bus.                                         *)

\* The poll returns, or the gate puts a phase off.
LEMMA ReturnTruth ==
  ASSUME IInv, TruthInv, PollBreak \/ GateDefers \/ NotDue \/ BudgetExhausted
  PROVE  TruthInv'
<1>1. UNCHANGED <<sensor, truth>>
  BY DEF Quiet, PollBreak, GateDefers, NotDue, BudgetExhausted
<1>2. CASE PollBreak \/ NotDue \/ BudgetExhausted
  <2>1. UNCHANGED <<belief, activeValid, active>>
    BY <1>2 DEF PollBreak, NotDue, BudgetExhausted
  <2> QED BY <1>1, <2>1 DEF TruthInv
<1>3. CASE GateDefers
  <2> DEFINE a == [active EXCEPT !.nextDue = nextSafe]
  <2>1. Proceed(a, belief, poll.at, poll.left) /\ activeValid
    BY <1>3 DEF GateDefers, IInv, SlotOK, InTime
  <2>2. /\ a.kind = active.kind /\ a.phase = active.phase /\ a.index = active.index
        /\ a.serial = active.serial /\ a.desired = active.desired
        /\ a.attempted = active.attempted /\ a.callbacksUsed = active.callbacksUsed
    BY DEF IInv, SlotOK, Operations
  <2> HIDE DEF a
  <2>3. /\ Tried(a) /\ Dropped(a, belief)
        /\ ~truth.disturbed => OpTrue(a, sensor)
        /\ ModeWait(a) = ModeWait(active)
    BY <2>1, <2>2, SameStanding DEF TruthInv
  <2> QED BY <1>1, <2>1, <2>3, ProceedTruth DEF TruthInv
<1> QED BY <1>2, <1>3

\* A wait that does not end the operation leaves what it knows.
LEMMA WaitOverTruth ==
  ASSUME IInv, TruthInv, WaitOver
  PROVE  TruthInv'
<1> DEFINE a == [active EXCEPT !.phase = PhaseAfterWait(active)]
           b == IF active.kind.op \in ResetOps THEN [belief EXCEPT !.dirty = {}]
                ELSE belief
<1>1. /\ Proceed(a, b, poll.at, poll.left) /\ UNCHANGED <<sensor, truth>>
      /\ active.phase \in WaitPhases /\ ~EndsWithWait(active.kind) /\ activeValid
      /\ belief \in Beliefs
  BY DEF WaitOver, WaitIsOver, Working, Quiet, IInv, SlotOK, InTime
<1>2. /\ a.kind = active.kind /\ a.phase = PhaseAfterWait(active)
      /\ a.index = active.index /\ a.serial = active.serial
      /\ a.desired = active.desired /\ a.attempted = active.attempted
      /\ a.callbacksUsed = active.callbacksUsed
  BY DEF IInv, SlotOK, Operations
<1>3. SameClaims(b, belief)
  BY <1>1, CleanFields DEF SameClaims
<1> HIDE DEF a, b
<1>4. ~ModeWait(active) /\ ~ModeWait(a)
  BY <1>1, <1>2 DEF ModeWait, EndsWithWait
<1>5. active.kind.op = "WAKE_UP" => a.phase # "SEND_VERIFY_COMMAND"
  <2>1. Standing(active)
    BY <1>1, ActiveStands DEF IInv
  <2>2. active.kind.op = "WAKE_UP" =>
          active.index \in {0, 1, 2} /\ active.phase = "WAIT_EXECUTION"
    BY <1>1, <2>1, ReachableCases DEF Standing, WakeSteps, WaitPhases
  <2>3. active.phase = "WAIT_EXECUTION" => a.phase = PhaseAfterExecution(active)
    BY <1>2 DEF PhaseAfterWait
  <2> QED BY <2>2, <2>3, AfterExecutionCases
<1>6. ~truth.disturbed => OpTrue(a, sensor)
  BY <1>1, <1>2, <1>5 DEF TruthInv, OpTrue, SerialHeard, ModeWait, Written, WaitPhases,
     EndsWithWait
<1>7. Dropped(a, b)
  <2>1. active.phase = "WAIT_POWER_UP" => a.phase = "SEND_WAKE"
    BY <1>2 DEF PhaseAfterWait
  <2> QED BY <1>1, <1>2, <1>3, <2>1 DEF TruthInv, Dropped, WaitPhases, SameClaims
<1>8. Tried(a)
  BY <1>1, <1>2, <1>4 DEF TruthInv, Tried
<1> QED BY <1>1, <1>3, <1>4, <1>6, <1>7, <1>8, SameTrue, ProceedTruth DEF TruthInv

\* The wait is over and with it the operation: a mode command has taken its
\* effect.
LEMMA SettledTruth ==
  ASSUME IInv, TruthInv, CommandSettled \/ PersistShortcut
  PROVE  TruthInv'
<1>1. UNCHANGED <<sensor, truth>> /\ activeValid /\ belief \in Beliefs
  BY DEF CommandSettled, PersistShortcut, WaitIsOver, Working, Quiet, IInv, SlotOK, InTime
<1>2. CASE PersistShortcut
  <2>1. PICK outcome, effect :
          FinishOperation(outcome, effect, belief, active, poll.at)
    BY <1>2 DEF PersistShortcut
  <2>2. ~ModeWait(active)
    BY <1>2 DEF PersistShortcut, PersistNeedless, ModeWait
  <2> QED BY <1>1, <2>1, <2>2, FinishTruth DEF TruthInv
<1>3. CASE CommandSettled /\ active.kind.op = "PERSIST_SETTINGS"
  <2> DEFINE b == [belief EXCEPT !.dirty = {}, !.persistenceIndeterminate = FALSE]
  <2>1. FinishOperation("SUCCEEDED", "ACKNOWLEDGED", b, active, poll.at)
    BY <1>3 DEF CommandSettled
  <2>2. b \in Beliefs /\ SameClaims(b, belief)
    BY <1>1 DEF SameClaims, Beliefs
  <2>3. ~ModeWait(active)
    BY <1>3 DEF ModeWait, ModeOps
  <2> HIDE DEF b
  <2> QED BY <1>1, <2>1, <2>2, <2>3, SameTrue, FinishTruth DEF TruthInv
<1>4. CASE CommandSettled /\ active.kind.op # "PERSIST_SETTINGS"
  <2> DEFINE b == SetMode(belief, ModeAfter(active.kind), "ACKNOWLEDGED")
  <2>1. FinishOperation("SUCCEEDED", "ACKNOWLEDGED", b, active, poll.at)
    BY <1>4 DEF CommandSettled
  <2>2. active.kind.op \in ModeOps \ {"WAKE_UP"} /\ active.phase = "WAIT_EXECUTION"
    <3>1. Standing(active)
      BY <1>1, ActiveStands DEF IInv
    <3> QED BY <1>4, <3>1, ReachableCases
            DEF CommandSettled, WaitIsOver, EndsWithWait, Standing, CommandSteps, WaitPhases
  <2>3. b \in Beliefs
    BY <1>1, <2>2, ModeAfterKnown, SetModeType
  <2>4. /\ b.attached = belief.attached /\ b.mode = ModeAfter(active.kind)
        /\ b.identity = belief.identity /\ b.verified = belief.verified
        /\ b.cached = belief.cached /\ b.compensation = belief.compensation
    BY <1>1, SetModeFields
  <2> HIDE DEF b
  <2>5. ~truth.disturbed => ClaimsTrue(b, sensor) /\ ModeTrue(b, sensor)
    BY <1>1, <2>2, <2>4 DEF TruthInv, ClaimsTrue, ModeTrue, OpTrue, ModeWait
  <2> QED BY <1>1, <2>1, <2>3, <2>5, FinishTruth
<1> QED BY <1>2, <1>3, <1>4
-----------------------------------------------------------------------------
(* Reading phases.                                                         *)

\* An attempt adds itself to the operation, and nothing else it knows.
LEMMA AttemptFields ==
  ASSUME SlotOK, NEW effectful \in BOOLEAN, NEW r \in Answers
  PROVE  LET a == Attempted(effectful, r)
         IN /\ a.kind = active.kind /\ a.phase = active.phase
            /\ a.index = active.index /\ a.serial = active.serial
            /\ a.desired = active.desired /\ a.changed = active.changed
            /\ a.completed = active.completed
            /\ a.callbacksUsed > 0
            /\ active.attempted => a.attempted
            /\ effectful /\ r.disposition # "NOT_STARTED" => a.attempted
            /\ ~effectful => /\ a.attempted = active.attempted
                             /\ a.effect = active.effect
            /\ effectful /\ r.disposition # "NOT_STARTED" =>
                 a.effect = IF active.effect = "NOT_ATTEMPTED" THEN "ATTEMPTED"
                            ELSE active.effect
<1> DEFINE begun == effectful /\ r.disposition # "NOT_STARTED"
           used == active.callbacksUsed + 1
           attempted == active.attempted \/ begun
           effect == IF begun /\ active.effect = "NOT_ATTEMPTED" THEN "ATTEMPTED"
                     ELSE active.effect
<1>1. Attempted(effectful, r) = [active EXCEPT !.callbacksUsed = used,
                                               !.attempted = attempted,
                                               !.effect = effect]
  BY DEF Attempted
<1>2. ASSUME NEW t, NEW e
      PROVE  LET a == [active EXCEPT !.callbacksUsed = used, !.attempted = t,
                                     !.effect = e]
             IN /\ a.kind = active.kind /\ a.phase = active.phase
                /\ a.index = active.index /\ a.serial = active.serial
                /\ a.desired = active.desired /\ a.changed = active.changed
                /\ a.completed = active.completed
                /\ a.callbacksUsed = used /\ a.attempted = t /\ a.effect = e
  BY DEF SlotOK, Operations
<1>3. used > 0
  BY DEF SlotOK, Operations
<1>4. /\ active.attempted => attempted
      /\ effectful /\ r.disposition # "NOT_STARTED" => attempted
      /\ ~effectful => attempted = active.attempted
  BY DEF SlotOK, Operations
<1>5. /\ ~effectful => effect = active.effect
      /\ effectful /\ r.disposition # "NOT_STARTED" =>
           effect = IF active.effect = "NOT_ATTEMPTED" THEN "ATTEMPTED"
                    ELSE active.effect
  OBVIOUS
<1> HIDE DEF used, attempted, effect
<1> QED BY <1>1, <1>2, <1>3, <1>4, <1>5

\* Reading leaves the sensor as it is, and what is known of it.
LEMMA ReadKeeps ==
  ASSUME IInv, TruthInv, NEW r, NEW dur \in Durations, AttemptedRead(r, dur)
  PROVE  /\ sensor' = sensor /\ truth'.disturbed = truth.disturbed
         /\ truth'.unsaved = truth.unsaved /\ truth'.altered = truth.altered
         /\ activeValid /\ Standing(active) /\ active.phase \in ReadPhases
         /\ r \in Answers
         /\ Tried(active) /\ Dropped(active, belief)
         /\ ~truth.disturbed => /\ ClaimsTrue(belief, sensor)
                                /\ ModeTrue(belief, sensor)
                                /\ OpTrue(active, sensor)
<1>1. r \in PlainOutcomes /\ active.phase \in ReadPhases
  BY DEF AttemptedRead
<1>2. activeValid /\ Standing(active) /\ r \in Answers
  BY <1>1, AttemptedReadStep
<1>3. PICK react \in Reactions(sensor, ReadWords, r) :
        Exchange(ReadWords, FALSE, FALSE, r, dur, react)
  BY DEF AttemptedRead
<1>4. ReadWords.name = "READ_WORDS"
  BY DEF ReadWords, Command
<1>5. sensor' = sensor /\ react.sensor = sensor
  <2>1. After(sensor, ReadWords) = {sensor}
    BY <1>4, AfterQuestion DEF Questions
  <2>2. react.sensor = sensor \/ react.sensor \in After(sensor, ReadWords)
    BY <1>3, ReactionEnds
  <2>3. sensor' = react.sensor
    BY <1>3 DEF Exchange
  <2> QED BY <2>1, <2>2, <2>3
<1>6. ~Relearns(FALSE, r, dur)
  BY <1>1 DEF Relearns, ReadPhases
<1>7. \A s2 : Unsaved(ReadWords, s2) = truth.unsaved
  BY <1>4 DEF Unsaved
<1>8. truth \in Truths
  BY DEF IInv, BusOK
<1>9. /\ truth'.disturbed = (truth.disturbed /\ ~Relearns(FALSE, r, dur))
      /\ truth'.unsaved = IF react.took THEN Unsaved(ReadWords, react.sensor)
                          ELSE truth.unsaved
      /\ truth'.altered = (truth.altered \/ (FALSE /\ react.sensor # sensor))
  BY <1>3, <1>8, ExchangeTruth
<1>10. truth.disturbed \in BOOLEAN /\ truth.altered \in BOOLEAN
  BY DEF IInv, BusOK, Truths
<1>11. truth'.disturbed = truth.disturbed /\ truth'.altered = truth.altered
       /\ truth'.unsaved = truth.unsaved
  BY <1>6, <1>7, <1>9, <1>10
<1>12. ~ModeWait(active)
  BY <1>1 DEF ModeWait, ReadPhases
<1> QED BY <1>1, <1>2, <1>5, <1>11, <1>12 DEF TruthInv

\* What an answer adds to the operation.
LEMMA AnswerKeeps ==
  ASSUME IInv, TruthInv, NEW dur \in Durations, Answered(dur)
  PROVE  /\ sensor' = sensor /\ truth'.disturbed = truth.disturbed
         /\ truth'.unsaved = truth.unsaved /\ truth'.altered = truth.altered
         /\ activeValid /\ Standing(active) /\ active.phase \in ReadPhases
         /\ Tried(active) /\ Dropped(active, belief)
         /\ ~truth.disturbed => /\ ClaimsTrue(belief, sensor)
                                /\ ModeTrue(belief, sensor)
                                /\ OpTrue(active, sensor)
         /\ Heard \in Operations /\ Heard.kind = active.kind
         /\ Heard.phase = active.phase /\ Heard.index = active.index
         /\ Heard.serial = active.serial /\ Heard.desired = active.desired
         /\ Heard.changed = active.changed /\ Heard.completed = active.completed
         /\ Heard.attempted = active.attempted /\ Heard.effect = active.effect
         /\ Heard.callbacksUsed > 0 /\ belief \in Beliefs
<1>1. AttemptedRead(Exact, dur) /\ Exact \in PlainOutcomes
  BY DEF Answered, AttemptedRead
<1>2. Exact \in Answers
  BY <1>1, AnswersType
<1>3. Heard \in Operations
  BY AnsweredStep
<1>4. SlotOK /\ belief \in Beliefs
  BY DEF IInv, SlotOK
<1> QED BY <1>1, <1>2, <1>3, <1>4, ReadKeeps, AttemptFields DEF Heard

\* An answer that ends the operation with claims that are true.
LEMMA HeardFinishTruth ==
  ASSUME IInv, TruthInv, NEW dur \in Durations, Answered(dur),
         NEW outcome, NEW effect, NEW b \in Beliefs, NEW a, NEW at,
         FinishOperation(outcome, effect, b, a, at),
         /\ ~truth.disturbed /\ ClaimsTrue(belief, sensor) /\ ModeTrue(belief, sensor)
            /\ OpTrue(active, sensor)
         => ClaimsTrue(b, sensor) /\ ModeTrue(b, sensor)
  PROVE  TruthInv'
  BY AnswerKeeps, FinishTruth

\* One that ends it as a failure.
LEMMA HeardFailureTruth ==
  ASSUME IInv, TruthInv, NEW dur \in Durations, Answered(dur),
         NEW status, NEW b \in Beliefs, NEW a, NEW last, NEW at,
         FinishOperationFailure(status, b, a, last, at),
         /\ ~truth.disturbed /\ ClaimsTrue(belief, sensor) /\ ModeTrue(belief, sensor)
            /\ OpTrue(active, sensor)
         => ClaimsTrue(b, sensor) /\ ModeTrue(b, sensor)
  PROVE  TruthInv'
  BY AnswerKeeps, FailureTruth

\* The transfer of an answer failed.
LEMMA ReadFailsTruth ==
  ASSUME IInv, TruthInv, NEW r, NEW dur \in Durations, ReadFails(r, dur)
  PROVE  TruthInv'
<1>1. AttemptedRead(r, dur) /\ belief \in Beliefs
  BY DEF ReadFails, IInv, SlotOK
<1>2. PICK status :
        FinishOperationFailure(status, belief, Attempted(FALSE, r), "NONE",
                               Completed(r, dur))
  BY DEF ReadFails
<1> QED BY <1>1, <1>2, ReadKeeps, FailureTruth

\* Answers that leave the claims alone.
LEMMA HeardOnlyTruth ==
  ASSUME IInv, TruthInv, NEW dur \in Durations,
         \/ HearSerial(dur)
         \/ \E verdict \in BOOLEAN : HearAnswer(dur, verdict) \/ HearReady(dur, verdict)
  PROVE  TruthInv'
<1>1. Answered(dur) /\ activeValid
  BY AnswerKeeps DEF HearSerial, HearAnswer, HearReady
<1>2. CASE HearSerial(dur)
  <2> DEFINE a == [Heard EXCEPT !.serial = sensor.serial, !.index = 1,
                                !.phase = "SEND_VERIFY_COMMAND",
                                !.nextDue = poll.at + dur]
  <2>1. Proceed(a, belief, poll.at + dur, poll.left - 1) /\ HearsSerial(active)
    BY <1>2 DEF HearSerial
  <2>2. /\ a.kind = Heard.kind /\ a.phase = "SEND_VERIFY_COMMAND" /\ a.index = 1
        /\ a.serial = sensor.serial /\ a.attempted = Heard.attempted
        /\ a.callbacksUsed = Heard.callbacksUsed
    <3>1. Heard \in Operations
      BY <1>1, AnswerKeeps
    <3> HIDE DEF Heard
    <3> QED BY <3>1 DEF Operations
  <2> HIDE DEF a
  <2>3. a.kind = active.kind /\ a.callbacksUsed > 0
    BY <1>1, <2>2, AnswerKeeps
  <2>4. active.kind.op # "SET_SETTING"
    BY <2>1 DEF HearsSerial, ResetOps
  <2>5. Tried(a) /\ ~ModeWait(a)
    BY <2>2, <2>3 DEF Tried, ModeWait
  <2>6. Dropped(a, belief)
    <3>1. Dropped(active, belief) /\ active.phase \in ReadPhases
      BY <1>1, AnswerKeeps
    <3> QED BY <2>3, <3>1 DEF Dropped, ReadPhases
  <2>7. OpTrue(a, sensor)
    BY <2>2, <2>3, <2>4, <2>5 DEF OpTrue, Written
  <2> QED BY <1>1, <2>1, <2>5, <2>6, <2>7, AnswerKeeps, ProceedTruth
<1>3. ASSUME NEW verdict \in BOOLEAN, HearAnswer(dur, verdict)
      PROVE  TruthInv'
  <2>1. PICK outcome, effect, at :
          FinishOperation(outcome, effect, belief, Heard, at)
    BY <1>3 DEF HearAnswer
  <2>2. belief \in Beliefs
    BY DEF IInv, SlotOK
  <2> QED BY <1>1, <2>1, <2>2, HeardFinishTruth
<1>4. ASSUME NEW ready \in BOOLEAN, HearReady(dur, ready)
      PROVE  TruthInv'
  <2> DEFINE a == [Heard EXCEPT !.phase = "SEND_READ_COMMAND"]
  <2>1. \/ Proceed(a, belief, poll.at + dur, poll.left - 1)
        \/ FinishOperation("NO_DATA", active.effect, belief, Heard, poll.at + dur)
    BY <1>4 DEF HearReady
  <2>2. active.kind.op \in MeasurementOps
    BY <1>4 DEF HearReady
  <2>3. /\ a.kind = Heard.kind /\ a.phase = "SEND_READ_COMMAND"
        /\ a.callbacksUsed = Heard.callbacksUsed
    <3>1. Heard \in Operations
      BY <1>1, AnswerKeeps
    <3> HIDE DEF Heard
    <3> QED BY <3>1 DEF Operations
  <2> HIDE DEF a
  <2>4. a.kind = active.kind /\ a.callbacksUsed > 0 /\ belief \in Beliefs
    BY <1>1, <2>3, AnswerKeeps
  <2>5. /\ Tried(a) /\ ~ModeWait(a) /\ Dropped(a, belief) /\ OpTrue(a, sensor)
    BY <2>2, <2>3, <2>4
       DEF Tried, ModeWait, Dropped, OpTrue, SerialHeard, Written, MeasurementOps,
           SingleShotOps, ResetOps
  <2>6. Proceed(a, belief, poll.at + dur, poll.left - 1) => TruthInv'
    BY <1>1, <2>5, AnswerKeeps, ProceedTruth
  <2> QED BY <1>1, <2>1, <2>4, <2>6, HeardFinishTruth
<1> QED BY <1>2, <1>3, <1>4

\* The phases in which the variant is heard are those that know the serial.
LEMMA VariantAfterSerial ==
  ASSUME Standing(active), HearsVariant(active)
  PROVE  /\ SerialHeard(active) /\ active.phase = "READ_VERIFY_RESPONSE"
         /\ active.kind.op \in {"ATTACH", "READ_IDENTITY", "WAKE_UP"} \cup ResetOps
<1>1. active.kind.op \in {"ATTACH", "READ_IDENTITY", "WAKE_UP"} \cup ResetOps
  BY HearsVariantKinds
<1>2. active.phase = "READ_VERIFY_RESPONSE" /\ ~HearsSerial(active)
  BY DEF HearsVariant
<1>3. CASE active.kind.op = "ATTACH"
  BY <1>2, <1>3, ReachableCases DEF Standing, AttachSteps, SerialHeard
<1>4. CASE active.kind.op = "READ_IDENTITY"
  BY <1>2, <1>4, ReachableCases DEF Standing, IdentitySteps, ReadSteps, SerialHeard
<1>5. CASE active.kind.op = "WAKE_UP"
  BY <1>2, <1>5, ReachableCases DEF Standing, WakeSteps, SerialHeard
<1>6. CASE active.kind.op \in ResetOps
  BY <1>2, <1>6, ReachableCases
     DEF Standing, ResetSteps, CommandSteps, SerialHeard, HearsSerial
<1> QED BY <1>1, <1>2, <1>3, <1>4, <1>5, <1>6

\* The identity checks: what two reads have put together is the sensor's.
LEMMA IdentityTruth ==
  ASSUME IInv, BeliefInv, TruthInv, NEW dur \in Durations,
         IdentityRefused(dur) \/ IdentityConfirmed(dur)
  PROVE  TruthInv'
<1> DEFINE id == IdentityRead
<1>1. /\ Answered(dur) /\ HearsVariant(active) /\ id \in Readings
      /\ belief \in Beliefs
  BY IdentityReadType, AnswerKeeps DEF IdentityRefused, IdentityConfirmed
<1>2. /\ SerialHeard(active) /\ active.phase = "READ_VERIFY_RESPONSE"
      /\ active.kind.op \in {"ATTACH", "READ_IDENTITY", "WAKE_UP"} \cup ResetOps
  BY <1>1, AnswerKeeps, VariantAfterSerial
<1>3. OpTrue(active, sensor) =>
        id.serial = sensor.serial /\ id.variant = sensor.variant /\ sensor.mode = "IDLE"
  BY <1>2 DEF OpTrue, IdentityRead
<1> HIDE DEF id
<1>4. CASE IdentityRefused(dur)
  <2>1. PICK outcome, effect :
          FinishOperation(outcome, effect, Disown(belief, id), Heard, poll.at + dur)
    BY <1>4 DEF IdentityRefused, id
  <2>2. Disown(belief, id) \in Beliefs
    BY <1>1, IdentityTypes
  <2>3. \A s : ClaimsTrue(Disown(belief, id), s) /\ ModeTrue(Disown(belief, id), s)
    BY <1>1, DisownFields, UnclaimedTrue
  <2> QED BY <1>1, <2>1, <2>2, <2>3, HeardFinishTruth
<1>5. CASE IdentityConfirmed(dur)
  <2> DEFINE b == CASE active.kind.op = "ATTACH" -> Attached(belief, id)
                    [] active.kind.op = "READ_IDENTITY" -> Identify(belief, id)
                    [] active.kind.op = "WAKE_UP" -> Reattach(belief, id)
                    [] active.kind.op \in ResetOps -> ResetDone(belief, id)
  <2>1. FinishOperation("SUCCEEDED", ConfirmedEffect(active.kind), b, Heard,
                        poll.at + dur)
    BY <1>5 DEF IdentityConfirmed, id
  <2>2. /\ active.kind.op = "ATTACH" => b = Attached(belief, id)
        /\ active.kind.op = "READ_IDENTITY" => b = Identify(belief, id)
        /\ active.kind.op = "WAKE_UP" => b = Reattach(belief, id)
        /\ active.kind.op \in ResetOps => b = ResetDone(belief, id)
    BY DEF ResetOps
  <2> HIDE DEF b
  <2>3. b \in Beliefs
    BY <1>1, <1>2, <2>2, IdentityTypes, IdentifyType
  <2> DEFINE Fits(b2) ==
        /\ b2.identity.serial = id.serial /\ b2.identity.variant = id.variant
        /\ b2.mode = "IDLE" \/ (b2.mode = belief.mode /\ b2.attached = belief.attached)
        /\ b2.verified = {}
             \/ (b2.verified = belief.verified /\ b2.cached = belief.cached)
        /\ b2.compensation = NoField \/ b2.compensation = belief.compensation
  <2>4. Fits(b)
    <3>1. Fits(Attached(belief, id))
      BY <1>1, AttachedFields, ZenonT(60)
    <3>2. Fits(Identify(belief, id))
      BY <1>1, IdentifyFields, ZenonT(60)
    <3>3. Fits(Reattach(belief, id))
      BY <1>1, ReattachFields
    <3>4. Fits(ResetDone(belief, id))
      BY <1>1, ResetFields, ZenonT(60)
    <3> HIDE DEF Fits
    <3> QED BY <1>2, <2>2, <3>1, <3>2, <3>3, <3>4
  <2>5. ClaimsTrue(belief, sensor) /\ ModeTrue(belief, sensor) /\ OpTrue(active, sensor)
          => ClaimsTrue(b, sensor) /\ ModeTrue(b, sensor)
    BY <1>3, <2>4 DEF ClaimsTrue, ModeTrue
  <2> QED BY <1>1, <2>1, <2>3, <2>5, HeardFinishTruth
<1> QED BY <1>4, <1>5

\* The variant has been read.
LEMMA HearVariantTruth ==
  ASSUME IInv, BeliefInv, TruthInv, NEW dur \in Durations, HearVariant(dur)
  PROVE  TruthInv'
<1> DEFINE id == [serial |-> belief.identity.serial, variant |-> sensor.variant]
           b == [belief EXCEPT !.identity.variant = id.variant,
                               !.identity.epoch = belief.epoch]
<1>1. /\ Answered(dur) /\ belief \in Beliefs /\ id.variant \in Variants
  BY AnswerKeeps DEF HearVariant, IInv, BusOK, Sensors
<1>2. CASE Unsupported(id) \/ Differs(belief, id)
  <2> DEFINE b2 == VariantChanged(belief, id)
  <2>1. FinishOperation("FAILED", "NONE", b2, Heard, poll.at + dur)
    BY <1>2 DEF HearVariant
  <2>2. b2 \in Beliefs
    BY <1>1, VariantChangedType DEF IInv, BusOK, Sensors
  <2>3. b2.attached = FALSE /\ b2.verified = {} /\ b2.compensation = NoField
    BY <1>1, VariantChangedFields
  <2> HIDE DEF b2
  <2> QED BY <1>1, <2>1, <2>2, <2>3, UnclaimedTrue, HeardFinishTruth
<1>3. CASE ~(Unsupported(id) \/ Differs(belief, id))
  <2>1. FinishOperation("SUCCEEDED", "NONE", b, Heard, poll.at + dur)
    BY <1>3 DEF HearVariant
  <2>2. ASSUME NEW v \in Variants, NEW e \in 0 .. MaxEpoch
        PROVE  LET b2 == [belief EXCEPT !.identity.variant = v, !.identity.epoch = e]
               IN /\ b2 \in Beliefs /\ b2.identity.variant = v
                  /\ b2.identity.serial = belief.identity.serial
                  /\ b2.attached = belief.attached /\ b2.mode = belief.mode
                  /\ b2.verified = belief.verified /\ b2.cached = belief.cached
                  /\ b2.compensation = belief.compensation
    BY <1>1 DEF Beliefs, Identities
  <2>3. belief.epoch \in 0 .. MaxEpoch
    BY <1>1 DEF Beliefs
  <2>4. /\ b \in Beliefs /\ b.identity.variant = id.variant
        /\ b.identity.serial = belief.identity.serial
        /\ b.attached = belief.attached /\ b.mode = belief.mode
        /\ b.verified = belief.verified /\ b.cached = belief.cached
        /\ b.compensation = belief.compensation
    BY <1>1, <2>2, <2>3
  <2> HIDE DEF b
  <2>5. ClaimsTrue(belief, sensor) /\ ModeTrue(belief, sensor)
          => ClaimsTrue(b, sensor) /\ ModeTrue(b, sensor)
    BY <2>4 DEF ClaimsTrue, ModeTrue
  <2> QED BY <1>1, <2>1, <2>4, <2>5, HeardFinishTruth
<1> QED BY <1>2, <1>3

\* A sample has been read.
LEMMA HearSampleTruth ==
  ASSUME IInv, TruthInv, NEW dur \in Durations, HearSample(dur)
  PROVE  TruthInv'
<1> DEFINE b == StoreSample(belief)
<1>1. /\ Answered(dur) /\ belief \in Beliefs
  BY AnswerKeeps DEF HearSample
<1>2. PICK effect : FinishOperation("SUCCEEDED", effect, b, Heard, poll.at + dur)
  BY DEF HearSample
<1>3. /\ b \in Beliefs /\ b.identity = belief.identity
      /\ b.attached = belief.attached /\ b.mode = belief.mode
      /\ b.verified = belief.verified /\ b.cached = belief.cached
      /\ b.compensation = belief.compensation
  BY <1>1, SampleFields, StoreSampleType
<1> HIDE DEF b
<1>4. ClaimsTrue(belief, sensor) /\ ModeTrue(belief, sensor)
        => ClaimsTrue(b, sensor) /\ ModeTrue(b, sensor)
  BY <1>3 DEF ClaimsTrue, ModeTrue
<1> QED BY <1>1, <1>2, <1>3, <1>4, HeardFinishTruth

\* A word that is read is the sensor's; one that is not verified is no claim.
LEMMA WordTrue ==
  ASSUME NEW b \in Beliefs, NEW s, NEW f \in Fields, ClaimsTrue(b, s), ModeTrue(b, s)
  PROVE  /\ ClaimsTrue(ApplyReadValue(b, f, s.ram[f]), s)
         /\ ModeTrue(ApplyReadValue(b, f, s.ram[f]), s)
         /\ ClaimsTrue(Unverify(b, f), s) /\ ModeTrue(Unverify(b, f), s)
<1>1. b.verified \subseteq Fields
  BY DEF Beliefs
<1>2. LET b2 == ApplyReadValue(b, f, s.ram[f])
      IN ClaimsTrue(b2, s) /\ ModeTrue(b2, s)
  <2> DEFINE b2 == ApplyReadValue(b, f, s.ram[f])
  <2>1. /\ b2.verified = b.verified \cup {f} /\ b2.cached[f] = s.ram[f]
        /\ \A g \in Fields \ {f} : b2.cached[g] = b.cached[g]
        /\ b2.attached = b.attached /\ b2.mode = b.mode
        /\ b2.identity = b.identity /\ b2.compensation = b.compensation
    BY SettingFields
  <2> HIDE DEF b2
  <2>2. ClaimsTrue(b2, s) /\ ModeTrue(b2, s)
    BY <1>1, <2>1 DEF ClaimsTrue, ModeTrue
  <2> QED BY <2>2 DEF b2
<1>3. LET b2 == Unverify(b, f)
      IN ClaimsTrue(b2, s) /\ ModeTrue(b2, s)
  <2> DEFINE b2 == Unverify(b, f)
  <2>1. /\ b2.verified = b.verified \ {f} /\ b2.cached = b.cached
        /\ b2.attached = b.attached /\ b2.mode = b.mode
        /\ b2.identity = b.identity /\ b2.compensation = b.compensation
    BY SettingFields
  <2> HIDE DEF b2
  <2>2. ClaimsTrue(b2, s) /\ ModeTrue(b2, s)
    BY <2>1 DEF ClaimsTrue, ModeTrue
  <2> QED BY <2>2 DEF b2
<1> QED BY <1>2, <1>3

\* A setting has been read.
LEMMA HearSettingTruth ==
  ASSUME IInv, BeliefInv, TruthInv, NEW dur \in Durations,
         HearInvalidSetting(dur) \/ HearSetting(dur)
  PROVE  TruthInv'
<1> DEFINE f == FieldRead(active)
           b == ApplyReadValue(belief, f, sensor.ram[f])
           heard == IF active.kind.op = "READ_CONFIGURATION"
                    THEN [Heard EXCEPT !.completed = @ \cup {f}] ELSE Heard
           a == [heard EXCEPT !.index = @ + 1, !.phase = "SEND_COMMAND",
                              !.nextDue = poll.at + dur]
<1>1. Answered(dur) /\ active.kind.op \in {"READ_SETTING", "READ_CONFIGURATION"}
  BY DEF HearInvalidSetting, HearSetting
<1>2. /\ belief \in Beliefs /\ Sound(belief) /\ belief.attached
      /\ f \in Fields /\ sensor.ram[f] \in AnyWord
  BY <1>1, SettingGiven
<1>3. b \in Beliefs /\ Unverify(belief, f) \in Beliefs
  BY <1>2, WordRead
<1>4. ClaimsTrue(belief, sensor) /\ ModeTrue(belief, sensor)
        => /\ ClaimsTrue(b, sensor) /\ ModeTrue(b, sensor)
           /\ ClaimsTrue(Unverify(belief, f), sensor)
           /\ ModeTrue(Unverify(belief, f), sensor)
  BY <1>2, WordTrue
<1>5. CASE HearInvalidSetting(dur)
  <2>1. FinishOperationFailure("ERROR", Unverify(belief, f), Heard, "NONE",
                               poll.at + dur)
    BY <1>5 DEF HearInvalidSetting
  <2> HIDE DEF f, b
  <2> QED BY <1>1, <1>3, <1>4, <2>1, HeardFailureTruth
<1>6. CASE HearSetting(dur)
  <2>1. \/ Proceed(a, b, poll.at + dur, poll.left - 1)
        \/ FinishOperation("SUCCEEDED", "NONE", b, heard, poll.at + dur)
    BY <1>6 DEF HearSetting
  <2>2. /\ a.kind = Heard.kind /\ a.phase = "SEND_COMMAND"
        /\ a.callbacksUsed = Heard.callbacksUsed
    <3>1. ASSUME NEW h \in Operations, NEW c
          PROVE  LET h1 == [h EXCEPT !.completed = @ \cup {c}]
                     h2 == [h1 EXCEPT !.index = @ + 1, !.phase = "SEND_COMMAND",
                                      !.nextDue = poll.at + dur]
                     h3 == [h EXCEPT !.index = @ + 1, !.phase = "SEND_COMMAND",
                                     !.nextDue = poll.at + dur]
                 IN /\ h2.kind = h.kind /\ h2.phase = "SEND_COMMAND"
                    /\ h2.callbacksUsed = h.callbacksUsed
                    /\ h3.kind = h.kind /\ h3.phase = "SEND_COMMAND"
                    /\ h3.callbacksUsed = h.callbacksUsed
      BY DEF Operations
    <3>2. Heard \in Operations
      BY <1>1, AnswerKeeps
    <3> HIDE DEF Heard, f
    <3> QED BY <3>1, <3>2
  <2> HIDE DEF a, b, heard
  <2>3. a.kind = active.kind /\ a.callbacksUsed > 0
    BY <1>1, <2>2, AnswerKeeps
  <2>4. Tried(a) /\ ~ModeWait(a) /\ Dropped(a, b) /\ OpTrue(a, sensor)
    BY <1>1, <2>2, <2>3
       DEF Tried, ModeWait, Dropped, OpTrue, SerialHeard, Written, ResetOps
  <2>5. Proceed(a, b, poll.at + dur, poll.left - 1) => TruthInv'
    BY <1>1, <1>4, <2>4, AnswerKeeps, ProceedTruth
  <2> QED BY <1>1, <1>3, <1>4, <2>1, <2>5, HeardFinishTruth
<1> QED BY <1>5, <1>6

\* The word before a setting write has been read.
LEMMA HearPresentTruth ==
  ASSUME IInv, BeliefInv, TruthInv, NEW dur \in Durations, HearPresentSetting(dur)
  PROVE  TruthInv'
<1> DEFINE f == active.kind.field
           word == sensor.ram[f]
           b == IF ValidReturnedSetting(f, word) THEN ApplyReadValue(belief, f, word)
                ELSE Unverify(belief, f)
           a == [Heard EXCEPT !.changed = word # active.desired, !.index = 1,
                              !.phase = "SEND_COMMAND", !.nextDue = poll.at + dur]
<1>1. Answered(dur) /\ active.kind.op = "SET_SETTING"
  BY DEF HearPresentSetting
<1>2. /\ belief \in Beliefs /\ Sound(belief) /\ belief.attached
      /\ f \in Fields /\ word \in AnyWord
  BY <1>1, SettingGiven
<1>3. b \in Beliefs
  BY <1>2, WordRead
<1>4. ClaimsTrue(belief, sensor) /\ ModeTrue(belief, sensor)
        => ClaimsTrue(b, sensor) /\ ModeTrue(b, sensor)
  BY <1>2, WordTrue
<1>5. \/ Proceed(a, b, poll.at + dur, poll.left - 1)
      \/ FinishOperation("SUCCEEDED", "VERIFIED", b, Heard, poll.at + dur)
      \/ FinishOperationFailure("ERROR", b, Heard, "NONE", poll.at + dur)
  BY DEF HearPresentSetting
<1>6. /\ a.kind = Heard.kind /\ a.index = 1 /\ a.phase = "SEND_COMMAND"
      /\ a.callbacksUsed = Heard.callbacksUsed
  <2>1. \A c : LET h == [Heard EXCEPT !.changed = c, !.index = 1,
                                      !.phase = "SEND_COMMAND",
                                      !.nextDue = poll.at + dur]
               IN /\ h.kind = Heard.kind /\ h.index = 1 /\ h.phase = "SEND_COMMAND"
                  /\ h.callbacksUsed = Heard.callbacksUsed
    <3>1. Heard \in Operations
      BY <1>1, AnswerKeeps
    <3> HIDE DEF Heard
    <3> QED BY <3>1 DEF Operations
  <2> QED BY <2>1
<1> HIDE DEF a, b
<1>7. a.kind = active.kind /\ a.callbacksUsed > 0
  BY <1>1, <1>6, AnswerKeeps
<1>8. Tried(a) /\ ~ModeWait(a) /\ Dropped(a, b) /\ OpTrue(a, sensor)
  BY <1>1, <1>6, <1>7
     DEF Tried, ModeWait, Dropped, OpTrue, SerialHeard, Written, ResetOps, ModeOps
<1>9. Proceed(a, b, poll.at + dur, poll.left - 1) => TruthInv'
  BY <1>1, <1>4, <1>8, AnswerKeeps, ProceedTruth
<1>10. FinishOperation("SUCCEEDED", "VERIFIED", b, Heard, poll.at + dur) => TruthInv'
  BY <1>1, <1>3, <1>4, HeardFinishTruth
<1>11. FinishOperationFailure("ERROR", b, Heard, "NONE", poll.at + dur) => TruthInv'
  BY <1>1, <1>3, <1>4, HeardFailureTruth
<1> QED BY <1>5, <1>9, <1>10, <1>11

\* The word after a setting write has been read: the source is claimed only
\* when the word that selects it has arrived.
LEMMA HearWrittenTruth ==
  ASSUME IInv, BeliefInv, TruthInv, NEW dur \in Durations, HearWrittenSetting(dur)
  PROVE  TruthInv'
<1> DEFINE f == active.kind.field
           word == sensor.ram[f]
           read == ApplyReadValue(belief, f, word)
           b == IF f \in CompensationFields THEN [read EXCEPT !.compensation = f]
                ELSE read
           un == Unverify(belief, f)
<1>1. Answered(dur) /\ active.kind.op = "SET_SETTING" /\ active.index = 3
  BY DEF HearWrittenSetting
<1>2. /\ belief \in Beliefs /\ Sound(belief) /\ belief.attached
      /\ f \in Fields /\ word \in AnyWord
  BY <1>1, SettingGiven
<1>3. read \in Beliefs /\ un \in Beliefs
  BY <1>2, WordRead
<1>4. ClaimsTrue(belief, sensor) /\ ModeTrue(belief, sensor)
        => /\ ClaimsTrue(read, sensor) /\ ModeTrue(read, sensor)
           /\ ClaimsTrue(un, sensor) /\ ModeTrue(un, sensor)
  BY <1>2, WordTrue
<1> HIDE DEF read, un
<1>5. /\ b \in Beliefs
      /\ f \in CompensationFields => b.compensation = f
      /\ f \notin CompensationFields => b.compensation = read.compensation
      /\ b.attached = read.attached /\ b.mode = read.mode /\ b.identity = read.identity
      /\ b.verified = read.verified /\ b.cached = read.cached
  BY <1>3 DEF Beliefs
<1> HIDE DEF b
<1>6. /\ word = active.desired /\ OpTrue(active, sensor)
      /\ ClaimsTrue(read, sensor) /\ ModeTrue(read, sensor)
      => ClaimsTrue(b, sensor) /\ ModeTrue(b, sensor)
  BY <1>1, <1>5 DEF ClaimsTrue, ModeTrue, OpTrue, Written
<1>7. CASE ~ValidReturnedSetting(f, word)
  <2>1. FinishOperation("FAILED", "ACKNOWLEDGED", un, Heard, poll.at + dur)
    BY <1>7 DEF HearWrittenSetting, un
  <2> QED BY <1>1, <1>3, <1>4, <2>1, HeardFinishTruth
<1>8. CASE ValidReturnedSetting(f, word) /\ word # active.desired
  <2>1. FinishOperation("FAILED", "VERIFIED", read, Heard, poll.at + dur)
    BY <1>8 DEF HearWrittenSetting, read
  <2> QED BY <1>1, <1>3, <1>4, <2>1, HeardFinishTruth
<1>9. CASE ValidReturnedSetting(f, word) /\ word = active.desired
  <2>1. FinishOperation("SUCCEEDED", "VERIFIED", b, Heard, poll.at + dur)
    BY <1>9 DEF HearWrittenSetting, read, b
  <2> QED BY <1>1, <1>4, <1>5, <1>6, <1>9, <2>1, HeardFinishTruth
<1> QED BY <1>7, <1>8, <1>9
-----------------------------------------------------------------------------
(* Sending phases.                                                         *)

\* Only ATTACH sends a wake before it knows the sensor.
LEMMA OnlyAttachWakes ==
  ASSUME NEW a, Standing(a), a.phase = "SEND_WAKE"
  PROVE  a.kind.op = "ATTACH"
<1>1. a.kind \in Kinds
  BY DEF Standing
<1>2. a.kind.op # "ATTACH" =>
        Reachable(a.kind) \in {IdentitySteps, ConfigurationSteps, ReadSteps,
           SettingSteps, WakeSteps, CommandSteps, FetchSteps,
           CommandSteps \cup FetchSteps, ResetSteps, DeferredSteps}
  BY <1>1, OpCases, ReachableCases
     DEF ReadOps, MeasurementOps, MaintenanceOps, ResetOps, SingleShotOps, ModeOps
<1> QED
  BY <1>2 DEF Standing, IdentitySteps, ConfigurationSteps, ReadSteps, SettingSteps,
     WakeSteps, CommandSteps, FetchSteps, ResetSteps, DeferredSteps

\* An attempt to send: what holds before it, and what it can change.
LEMMA SendKeeps ==
  ASSUME IInv, TruthInv, NEW r \in EffectfulOutcomes \cup PlainOutcomes,
         NEW dur \in Durations, AttemptedLeg(Leg(active), r, dur)
  PROVE  LET leg == Leg(active)
         IN /\ activeValid /\ Standing(active) /\ active.phase \in SendPhases
            /\ belief \in Beliefs /\ r \in Answers /\ leg.effectful \in BOOLEAN
            /\ Tried(active) /\ Dropped(active, belief)
            /\ ~truth.disturbed => /\ ClaimsTrue(belief, sensor)
                                   /\ ModeTrue(belief, sensor)
                                   /\ OpTrue(active, sensor)
            /\ (leg.effectful /\ Ordering(active, leg))
                 \/ (~leg.effectful /\ Asking(active, leg))
            /\ truth'.disturbed =
                 (truth.disturbed /\ ~Relearns(leg.nack, r, dur))
<1> DEFINE leg == Leg(active)
<1>1. /\ activeValid /\ Standing(active) /\ r \in Answers /\ LegOK(active, leg)
      /\ active.phase \in SendPhases /\ belief \in Beliefs
  BY AttemptedLegStep DEF AttemptedLeg, IInv, SlotOK
<1>2. (leg.effectful /\ Ordering(active, leg)) \/ (~leg.effectful /\ Asking(active, leg))
  BY <1>1, LegPurpose
<1>3. ~ModeWait(active)
  BY <1>1 DEF ModeWait, SendPhases
<1>4. PICK react : Exchange(leg.command, leg.effectful, leg.nack, r, dur, react)
  BY DEF AttemptedLeg
<1>5. truth'.disturbed = (truth.disturbed /\ ~Relearns(leg.nack, r, dur))
  <2>1. truth \in Truths
    BY DEF IInv, BusOK
  <2> HIDE DEF leg
  <2> QED BY <1>4, <2>1, ExchangeTruth
<1>6. leg.effectful \in BOOLEAN
  BY <1>1 DEF LegOK
<1> QED BY <1>1, <1>2, <1>3, <1>5, <1>6 DEF TruthInv

\* A question changes nothing, and only an idle sensor answers that for the
\* variant.
LEMMA QuestionKeeps ==
  ASSUME IInv, TruthInv, NEW r \in EffectfulOutcomes \cup PlainOutcomes,
         NEW dur \in Durations, AttemptedLeg(Leg(active), r, dur),
         ~Leg(active).effectful
  PROVE  /\ sensor' = sensor /\ truth'.disturbed = truth.disturbed
         /\ r.code = "OK" /\ Leg(active).command = Command("GET_VARIANT")
              => sensor.mode = "IDLE"
<1> DEFINE leg == Leg(active)
<1>1. Asking(active, leg) /\ Standing(active)
  BY SendKeeps
<1>2. PICK react \in Reactions(sensor, leg.command, r) :
        Exchange(leg.command, leg.effectful, leg.nack, r, dur, react)
  BY DEF AttemptedLeg
<1>3. sensor' = react.sensor
  BY <1>2 DEF Exchange
<1>4. After(sensor, leg.command) = {sensor}
  BY <1>1, AfterQuestion DEF Asking
<1>5. sensor' = sensor
  <2>1. react.sensor = sensor \/ react.sensor \in After(sensor, leg.command)
    BY <1>2, ReactionEnds
  <2> HIDE DEF leg
  <2> QED BY <1>3, <1>4, <2>1
<1>6. truth'.disturbed = truth.disturbed
  <2>1. ~Relearns(leg.nack, r, dur)
    BY <1>1, OnlyAttachWakes DEF Asking, Relearns
  <2>2. truth'.disturbed = (truth.disturbed /\ ~Relearns(leg.nack, r, dur))
    BY SendKeeps
  <2>3. truth.disturbed \in BOOLEAN
    BY DEF IInv, BusOK, Truths
  <2> QED BY <2>1, <2>2, <2>3
<1>7. ASSUME r.code = "OK", leg.command = Command("GET_VARIANT")
      PROVE  sensor.mode = "IDLE"
  <2>1. Accepts(sensor, leg.command)
    BY <1>2, <1>7, OutcomeShape, ReactionCases DEF Reacted
  <2>2. leg.command.name = "GET_VARIANT" /\ leg.command.field = NoField
    BY <1>7 DEF Command
  <2>3. sensor.mode \in Modes
    BY DEF IInv, BusOK, Sensors
  <2>4. NoField # "AMBIENT_PRESSURE"
    BY DEF NoField
  <2> HIDE DEF leg
  <2> QED BY <2>1, <2>2, <2>3, <2>4 DEF Accepts, Modes
<1> QED BY <1>5, <1>6, <1>7

\* A command that changes something: the sensor that took it, or the same.
LEMMA OrderChanges ==
  ASSUME IInv, TruthInv, NEW r \in EffectfulOutcomes \cup PlainOutcomes,
         NEW dur \in Durations, AttemptedLeg(Leg(active), r, dur),
         Leg(active).effectful
  PROVE  LET c == Leg(active).command
         IN /\ sensor' = sensor \/ sensor' \in After(sensor, c)
            /\ r.disposition = "COMPLETE" => sensor' \in After(sensor, c)
            /\ \/ r.disposition \in {"COMPLETE", "INDETERMINATE"}
               \/ sensor' = sensor
               \/ Unanswered(c, r)
<1> DEFINE leg == Leg(active)
<1>1. PICK react \in Reactions(sensor, leg.command, r) :
        Exchange(leg.command, leg.effectful, leg.nack, r, dur, react)
  BY DEF AttemptedLeg
<1>2. sensor' = react.sensor
  BY <1>1 DEF Exchange
<1> QED BY <1>1, <1>2, ReactionEnds

\* The status of a transfer: without a tolerated NACK only a complete one is
\* good, and a complete one, or a tolerated NACK, is only bad when it is late.
LEMMA StatusMeans ==
  ASSUME NEW nack \in BOOLEAN, NEW r \in EffectfulOutcomes \cup PlainOutcomes, NEW dur
  PROVE  LET status == TransferStatus(nack, r, dur)
         IN /\ status = "OK" /\ ~nack
                 => r.code = "OK" /\ r.disposition = "COMPLETE"
            /\ r.disposition = "COMPLETE" /\ status # "OK" => status = "TIMEOUT"
            /\ nack /\ r.code = "NACK" /\ r.disposition = "NO_EFFECT" /\ status # "OK"
                 => status = "TIMEOUT"
  BY OutcomeShape DEF TransferStatus, ExpectedNack

\* A setting write that may have reached the sensor withdraws what it may have
\* changed.
LEMMA WrittenTrue ==
  ASSUME NEW b \in Beliefs, NEW s \in Sensors, NEW a, a.kind.field \in Fields,
         a.desired \in Words, ClaimsTrue(b, s), ModeTrue(b, s),
         NEW s2 \in After(s, SetCommand(a.kind.field, a.desired))
  PROVE  LET b2 == AfterSettingWrite(b, a)
         IN ClaimsTrue(b2, s2) /\ ModeTrue(b2, s2)
<1> DEFINE f == a.kind.field
           b2 == AfterSettingWrite(b, a)
<1>1. /\ b2.verified = b.verified \ {f} /\ b2.cached = b.cached
      /\ b2.compensation = IF f \in CompensationFields THEN NoField ELSE b.compensation
      /\ b2.attached = b.attached /\ b2.mode = b.mode /\ b2.identity = b.identity
  BY WrittenFields
<1>2. /\ s2.mode = s.mode
      /\ \A g \in Fields \ {f} : s2.ram[g] = s.ram[g]
      /\ f \notin CompensationFields => s2.source = s.source
      /\ s2.serial = s.serial /\ s2.variant = s.variant
  BY AfterSet, AfterIdentity
<1>3. b.verified \subseteq Fields
  BY DEF Beliefs
<1> HIDE DEF b2
<1>4. ClaimsTrue(b2, s2) /\ ModeTrue(b2, s2)
  BY <1>1, <1>2, <1>3 DEF ClaimsTrue, ModeTrue
<1> QED BY <1>4 DEF b2

\* The operation after a successful attempt to send.
LEMMA SentOperation ==
  ASSUME IInv, TruthInv, NEW r \in EffectfulOutcomes \cup PlainOutcomes,
         NEW dur \in Durations, Send(r, dur)
  PROVE  \E a, at, left :
           LET leg == Leg(active)
           IN /\ Proceed(a, AfterSend(AfterAttempt(belief, active, leg, r), active, leg),
                         at, left)
              /\ a.kind = active.kind /\ a.phase = leg.phase /\ a.index = leg.index
              /\ a.serial = active.serial /\ a.desired = active.desired
              /\ a.callbacksUsed > 0
              /\ leg.effectful /\ r.disposition # "NOT_STARTED" => a.attempted
<1> DEFINE leg == Leg(active)
           sent == Attempted(leg.effectful, r)
           at == Completed(r, dur)
           a == [sent EXCEPT !.phase = leg.phase, !.index = leg.index,
                             !.nextDue = at + leg.wait,
                             !.effect = EffectAfterSend(sent, leg, r)]
<1>1. AttemptedLeg(leg, r, dur)
  BY DEF Send
<1>2. leg.effectful \in BOOLEAN /\ r \in Answers /\ SlotOK
  BY <1>1, SendKeeps DEF IInv
<1>3. /\ sent \in Operations
      /\ sent.kind = active.kind /\ sent.serial = active.serial
      /\ sent.desired = active.desired /\ sent.callbacksUsed > 0
      /\ leg.effectful /\ r.disposition # "NOT_STARTED" => sent.attempted
  BY <1>2, AttemptedType, AttemptFields
<1>4. /\ a.kind = sent.kind /\ a.serial = sent.serial /\ a.desired = sent.desired
      /\ a.callbacksUsed = sent.callbacksUsed /\ a.attempted = sent.attempted
      /\ a.phase = leg.phase /\ a.index = leg.index
  <2> HIDE DEF sent, leg, at
  <2> QED BY <1>3 DEF Operations
<1>5. Proceed(a, AfterSend(AfterAttempt(belief, active, leg, r), active, leg),
              at, poll.left - 1)
  BY DEF Send
<1> HIDE DEF a, at, sent, leg
<1>6. /\ a.kind = active.kind /\ a.phase = leg.phase /\ a.index = leg.index
      /\ a.serial = active.serial /\ a.desired = active.desired
      /\ a.callbacksUsed > 0
      /\ leg.effectful /\ r.disposition # "NOT_STARTED" => a.attempted
  BY <1>3, <1>4
<1> QED BY <1>5, <1>6 DEF leg

\* A question has been sent.
LEMMA QuestionTruth ==
  ASSUME IInv, TruthInv, NEW r \in EffectfulOutcomes \cup PlainOutcomes,
         NEW dur \in Durations, Send(r, dur), ~Leg(active).effectful
  PROVE  TruthInv'
<1> DEFINE leg == Leg(active)
<1>1. AttemptedLeg(leg, r, dur) /\ TransferStatus(leg.nack, r, dur) = "OK"
  BY DEF Send
<1>2. /\ activeValid /\ Standing(active) /\ active.phase \in SendPhases
      /\ belief \in Beliefs /\ Dropped(active, belief)
      /\ ~truth.disturbed => /\ ClaimsTrue(belief, sensor)
                             /\ ModeTrue(belief, sensor) /\ OpTrue(active, sensor)
      /\ Asking(active, leg)
  BY <1>1, SendKeeps
<1>3. /\ sensor' = sensor /\ truth'.disturbed = truth.disturbed
      /\ r.code = "OK" /\ leg.command = Command("GET_VARIANT") => sensor.mode = "IDLE"
  BY <1>1, QuestionKeeps
<1>4. r.code = "OK"
  BY <1>1, <1>2, StatusMeans DEF Asking
<1>5. PICK a, at, left :
        /\ Proceed(a, AfterSend(AfterAttempt(belief, active, leg, r), active, leg),
                   at, left)
        /\ a.kind = active.kind /\ a.phase = leg.phase /\ a.index = leg.index
        /\ a.serial = active.serial /\ a.desired = active.desired
        /\ a.callbacksUsed > 0
  BY SentOperation
<1> DEFINE b == AfterSend(AfterAttempt(belief, active, leg, r), active, leg)
<1>6. SameClaims(b, belief)
  <2>1. AfterAttempt(belief, active, leg, r) = belief
    BY <1>2 DEF Asking, Questions, AfterAttempt
  <2> QED BY <1>2, <2>1, SentFields
<1> HIDE DEF b
<1>7. ~ModeWait(a)
  BY <1>2, <1>5
     DEF ModeWait, Asking, ModeOps, ReadOps, MeasurementOps, SingleShotOps, ResetOps
<1>8. Tried(a)
  BY <1>5, <1>7 DEF Tried
<1>9. Dropped(a, b)
  <2>1. active.kind.op = "ATTACH" => ~belief.attached
    BY <1>2 DEF Asking, Dropped, SendPhases
  <2> QED BY <1>5, <1>6, <2>1 DEF Dropped, SameClaims
<1> HIDE DEF leg
<1>10. OpTrue(active, sensor) => OpTrue(a, sensor)
  <2> SUFFICES ASSUME OpTrue(active, sensor) PROVE OpTrue(a, sensor)
    OBVIOUS
  <2>1. CASE active.kind.op \in {"ATTACH", "READ_IDENTITY"} \cup ResetOps
    <3>1. leg.index = 1 => active.index = 1 /\ leg.command = Command("GET_VARIANT")
      BY <1>2, <2>1 DEF Asking, ResetOps, MeasurementOps, SingleShotOps, ReadOps
    <3>2. SerialHeard(a) => SerialHeard(active) /\ sensor.mode = "IDLE"
      BY <1>3, <1>4, <1>5, <2>1, <3>1 DEF SerialHeard, ResetOps
    <3>3. ~Written(a)
      BY <1>5, <2>1 DEF Written, ResetOps
    <3> QED BY <1>5, <1>7, <3>2, <3>3 DEF OpTrue
  <2>2. CASE active.kind.op = "WAKE_UP"
    <3>1. /\ leg.phase = "WAIT_EXECUTION"
          /\ leg.index = 2 => /\ active.phase = "SEND_VERIFY_COMMAND"
                              /\ leg.command = Command("GET_VARIANT")
      BY <1>2, <2>2 DEF Asking, ResetOps, MeasurementOps, SingleShotOps, ReadOps
    <3>2. SerialHeard(a) => SerialHeard(active) /\ sensor.mode = "IDLE"
      BY <1>3, <1>4, <1>5, <2>2, <3>1 DEF SerialHeard, ResetOps
    <3>3. ~Written(a)
      BY <1>5, <2>2 DEF Written
    <3> QED BY <1>5, <1>7, <3>2, <3>3 DEF OpTrue
  <2>3. CASE active.kind.op = "SET_SETTING"
    <3>1. leg.index = 0 \/ active.index = 2
      BY <1>2, <2>3 DEF Asking, ResetOps, MeasurementOps, SingleShotOps, ReadOps
    <3>2. ~SerialHeard(a) /\ (Written(a) => Written(active))
      BY <1>5, <2>3, <3>1 DEF SerialHeard, ResetOps, Written
    <3> QED BY <1>5, <1>7, <3>2 DEF OpTrue
  <2>4. CASE active.kind.op \in MeasurementOps \cup (ReadOps \ {"READ_IDENTITY"})
    <3>1. ~SerialHeard(a) /\ ~Written(a)
      BY <1>5, <2>4
         DEF SerialHeard, Written, ResetOps, MeasurementOps, SingleShotOps, ReadOps
    <3> QED BY <1>7, <3>1 DEF OpTrue
  <2> QED BY <1>2, <2>1, <2>2, <2>3, <2>4 DEF Asking
<1>11. ~truth'.disturbed =>
         /\ ClaimsTrue(b, sensor') /\ OpTrue(a, sensor')
         /\ ModeWait(a) \/ ModeTrue(b, sensor')
  BY <1>2, <1>3, <1>6, <1>10, SameTrue
<1>12. Proceed(a, b, at, left)
  BY <1>5 DEF b
<1> QED BY <1>2, <1>8, <1>9, <1>11, <1>12, ProceedTruth

\* A command that changes something has been sent: what it may have changed is
\* claimed no more, and the mode it leads to is waited for.
LEMMA OrderTruth ==
  ASSUME IInv, BeliefInv, TruthInv, NEW r \in EffectfulOutcomes \cup PlainOutcomes,
         NEW dur \in Durations, Send(r, dur), Leg(active).effectful
  PROVE  TruthInv'
<1> DEFINE leg == Leg(active)
           b1 == AfterAttempt(belief, active, leg, r)
           b == AfterSend(b1, active, leg)
<1>1. AttemptedLeg(leg, r, dur) /\ TransferStatus(leg.nack, r, dur) = "OK"
  BY DEF Send
<1>2. /\ activeValid /\ Standing(active) /\ active.phase \in SendPhases
      /\ belief \in Beliefs /\ Dropped(active, belief)
      /\ ~truth.disturbed => /\ ClaimsTrue(belief, sensor)
                             /\ ModeTrue(belief, sensor) /\ OpTrue(active, sensor)
      /\ Ordering(active, leg)
  BY <1>1, SendKeeps
<1>3. sensor' = sensor \/ sensor' \in After(sensor, leg.command)
  BY <1>1, OrderChanges
<1>4. r.disposition = "COMPLETE" => sensor' \in After(sensor, leg.command)
  BY <1>1, OrderChanges
<1>5. leg.nack = FALSE => r.disposition = "COMPLETE"
  BY <1>1, StatusMeans
<1>6. PICK a, at, left :
        /\ Proceed(a, b, at, left)
        /\ a.kind = active.kind /\ a.phase = leg.phase /\ a.index = leg.index
        /\ a.serial = active.serial /\ a.desired = active.desired
        /\ a.callbacksUsed > 0
        /\ leg.effectful /\ r.disposition # "NOT_STARTED" => a.attempted
  BY SentOperation
<1>7. b1 \in Beliefs
  BY <1>2, AfterSendType
<1>8. IF Reconciles(active) THEN Unclaimed(b, b1) ELSE SameClaims(b, b1)
  BY <1>7, SentFields
<1>9. active.phase # "SEND_WAKE" /\ ~truth'.disturbed => ~truth.disturbed
  BY <1>1, SendKeeps DEF Relearns
<1>10. sensor \in Sensors /\ Sound(belief)
  BY DEF IInv, BusOK, BeliefInv
<1>11. /\ leg.command.name # "SET" => b1 = belief
       /\ leg.effectful
  BY DEF AfterAttempt
<1> HIDE DEF leg, b, b1
<1>12. CASE Reconciles(active)
  <2>1. ClaimsTrue(b, sensor') /\ ModeTrue(b, sensor') /\ b.attached = FALSE
    BY <1>8, <1>12, UnclaimedTrue DEF Unclaimed
  <2>2. active.kind.op \in {"ATTACH", "WAKE_UP"} \cup ResetOps \cup DiagnosticOps
    BY <1>2, <1>12, OnlyAttachWakes DEF Reconciles
  <2>3. leg.index = 0 /\ leg.phase # "SEND_VERIFY_COMMAND"
    BY <1>2, <2>2 DEF Ordering, ResetOps, DiagnosticOps
  <2>4. ~ModeWait(a) /\ OpTrue(a, sensor') /\ Dropped(a, b)
    BY <1>6, <2>1, <2>2, <2>3
       DEF ModeWait, OpTrue, SerialHeard, Written, Dropped, ResetOps, DiagnosticOps,
           ModeOps
  <2>5. Tried(a)
    BY <1>6, <2>4 DEF Tried
  <2> QED BY <1>2, <1>6, <2>1, <2>4, <2>5, ProceedTruth
<1>13. CASE ~Reconciles(active)
  <2>1. SameClaims(b, b1) /\ active.phase # "SEND_WAKE"
    BY <1>8, <1>13 DEF Reconciles
  <2>2. CASE active.kind.op = "ATTACH"
    <3>1. /\ active.phase = "SEND_STOP" /\ leg.phase = "WAIT_STOP" /\ leg.index = 0
          /\ leg.command.name = "STOP_PERIODIC"
      BY <1>2, <2>1, <2>2
         DEF Ordering, Command, ResetOps, DiagnosticOps, ModeOps, SingleShotOps,
             MaintenanceOps
    <3>2. belief.attached = FALSE /\ belief.verified = {} /\ belief.compensation = NoField
      BY <1>2, <1>10, <2>2, <3>1 DEF Dropped, Sound, Beliefs
    <3>3. b.attached = FALSE /\ b.verified = {} /\ b.compensation = NoField
      BY <1>11, <2>1, <3>1, <3>2 DEF SameClaims
    <3>4. ~ModeWait(a) /\ OpTrue(a, sensor') /\ Dropped(a, b)
      BY <1>6, <2>2, <3>1, <3>3
         DEF ModeWait, OpTrue, SerialHeard, Written, Dropped, ResetOps, ModeOps
    <3>5. Tried(a)
      BY <1>6, <3>4 DEF Tried
    <3> QED BY <1>2, <1>6, <3>3, <3>4, <3>5, UnclaimedTrue, ProceedTruth
  <2>3. CASE active.kind.op = "SET_SETTING"
    <3> DEFINE f == active.kind.field
    <3>1. /\ leg.command = SetCommand(f, active.desired) /\ leg.nack = FALSE
          /\ leg.phase = "WAIT_EXECUTION" /\ leg.index = 2
      BY <1>2, <2>3
         DEF Ordering, ResetOps, DiagnosticOps, ModeOps, SingleShotOps, MaintenanceOps
    <3>2. f \in Fields /\ active.desired \in Words
      BY <1>2, <2>3, KindCases DEF Standing
    <3>3. r.disposition = "COMPLETE" /\ sensor' \in After(sensor, SetCommand(f, active.desired))
      BY <1>4, <1>5, <3>1
    <3>4. b1 = AfterSettingWrite(belief, active)
      <4>1. leg.command.name = "SET"
        BY <3>1 DEF SetCommand
      <4> QED BY <3>3, <4>1 DEF AfterAttempt, b1
    <3>5. ~truth'.disturbed => ClaimsTrue(b, sensor') /\ ModeTrue(b, sensor')
      BY <1>2, <1>9, <1>10, <2>1, <3>2, <3>3, <3>4, WrittenTrue, SameTrue
    <3>6. sensor'.ram[f] = active.desired /\ f \in CompensationFields
            => sensor'.source = f
      BY <1>10, <3>2, <3>3, AfterSet
    <3>7. ~ModeWait(a) /\ OpTrue(a, sensor') /\ Dropped(a, b)
      BY <1>6, <2>3, <3>1, <3>6
         DEF ModeWait, OpTrue, SerialHeard, Written, Dropped, ResetOps, ModeOps
    <3>8. Tried(a)
      BY <1>6, <3>7 DEF Tried
    <3> QED BY <1>2, <1>6, <3>5, <3>7, <3>8, ProceedTruth
  <2>4. CASE active.kind.op \in ModeOps \cup SingleShotOps \cup MaintenanceOps
    <3>1. /\ leg.command = Command(active.kind.op) /\ leg.nack = FALSE
          /\ leg.phase = "WAIT_EXECUTION" /\ leg.index = 0
      BY <1>2, <1>13, <2>4
         DEF Ordering, Reconciles, ResetOps, DiagnosticOps, ModeOps, SingleShotOps,
             MaintenanceOps
    <3>2. r.disposition = "COMPLETE" /\ sensor' \in After(sensor, Command(active.kind.op))
      BY <1>4, <1>5, <3>1
    <3>3. SameClaims(b, belief)
      <4>1. leg.command.name = active.kind.op
        BY <3>1 DEF Command
      <4>2. active.kind.op # "SET"
        BY <2>4 DEF ModeOps, SingleShotOps, MaintenanceOps
      <4> QED BY <1>11, <2>1, <4>1, <4>2
    <3>4. sensor'.serial = sensor.serial /\ sensor'.variant = sensor.variant
      BY <1>10, <3>2, AfterIdentity
    <3>5. ~Written(a) /\ ~SerialHeard(a) /\ Dropped(a, b) /\ a.attempted
      <4>1. a.attempted
        BY <1>6, <1>11, <3>2
      <4>2. ~Written(a) /\ Dropped(a, b)
        BY <1>6, <2>4
           DEF Written, Dropped, ResetOps, ModeOps, SingleShotOps, MaintenanceOps
      <4>3. ~SerialHeard(a)
        BY <1>6, <2>4, <3>1
           DEF SerialHeard, ResetOps, ModeOps, SingleShotOps, MaintenanceOps
      <4> QED BY <4>1, <4>2, <4>3
    <3>6. Tried(a)
      BY <1>6, <3>5 DEF Tried
    <3>7. CASE active.kind.op \in ModeOps
      <4>1. active.kind.op # "WAKE_UP"
        BY <1>13 DEF Reconciles
      <4>2. /\ sensor'.ram = sensor.ram /\ sensor'.source = sensor.source
            /\ sensor'.mode = ModeAfter(active.kind)
        BY <1>10, <3>2, <3>7, <4>1, AfterMode
      <4>3. ClaimsTrue(belief, sensor) => ClaimsTrue(b, sensor')
        BY <3>3, <3>4, <4>2 DEF ClaimsTrue, SameClaims
      <4>4. ModeWait(a) /\ OpTrue(a, sensor')
        BY <1>6, <3>1, <3>5, <3>7, <4>1, <4>2 DEF ModeWait, OpTrue
      <4> QED BY <1>2, <1>6, <1>9, <2>1, <3>5, <3>6, <4>3, <4>4, ProceedTruth
    <3>8. CASE active.kind.op \notin ModeOps
      <4>1. active.kind.op \in SingleShotOps \cup {"SELF_TEST", "FORCED_RECALIBRATION",
                                                  "PERSIST_SETTINGS"}
        BY <1>13, <2>4, <3>8 DEF Reconciles, MaintenanceOps, ResetOps
      <4>2. /\ sensor'.ram = sensor.ram /\ sensor'.source = sensor.source
            /\ sensor'.mode = sensor.mode
        <5>1. Command(active.kind.op).name = active.kind.op
          BY DEF Command
        <5> QED BY <1>10, <3>2, <4>1, <5>1, AfterOther
      <4>3. /\ ClaimsTrue(belief, sensor) => ClaimsTrue(b, sensor')
            /\ ModeTrue(belief, sensor) => ModeTrue(b, sensor')
        BY <3>3, <3>4, <4>2 DEF ClaimsTrue, ModeTrue, SameClaims
      <4>4. OpTrue(a, sensor')
        BY <1>6, <3>5, <3>8 DEF ModeWait, OpTrue
      <4> QED BY <1>2, <1>6, <1>9, <2>1, <3>5, <3>6, <4>3, <4>4, ProceedTruth
    <3> QED BY <3>7, <3>8
  <2> QED BY <1>2, <1>13, <2>2, <2>3, <2>4 DEF Ordering, Reconciles
<1> QED BY <1>12, <1>13

\* A diagnostic command has been acknowledged: nothing is claimed any more.
LEMMA SendLastTruth ==
  ASSUME IInv, BeliefInv, TruthInv, NEW r \in EffectfulOutcomes \cup PlainOutcomes,
         NEW dur \in Durations, SendLast(r, dur)
  PROVE  TruthInv'
<1> DEFINE leg == Leg(active)
           b == AfterSend(belief, active, leg)
<1>1. /\ AttemptedLeg(leg, r, dur) /\ EndsWithSend(active.kind)
      /\ FinishOperation("SUCCEEDED", "ACKNOWLEDGED", b, Attempted(leg.effectful, r),
                         Completed(r, dur))
  BY DEF SendLast
<1>2. belief \in Beliefs
  BY <1>1, SendKeeps
<1>3. active.kind.op \in DiagnosticOps
  BY <1>1 DEF EndsWithSend
<1>4. leg.effectful /\ Reconciles(active)
  BY <1>3, LegCases DEF DiagnosticLeg, Order, Reconciles
<1>5. Unclaimed(b, belief) /\ b \in Beliefs
  BY <1>2, <1>4, SentFields, AfterSendType
<1> HIDE DEF b, leg
<1> QED BY <1>1, <1>5, UnclaimedTrue, FinishTruth DEF Unclaimed

\* An attempt to send has failed.  Unless the driver doubts what the sensor is
\* in, the sensor has not taken the command; a command that it has taken, or a
\* wake it need not acknowledge, can only fail by being late.
LEMMA SilentFailure ==
  ASSUME IInv, BeliefInv, TruthInv, NEW r \in EffectfulOutcomes \cup PlainOutcomes,
         NEW dur \in Durations, SendFails(r, dur)
  PROVE  LET leg == Leg(active)
             status == TransferStatus(leg.nack, r, dur)
             last == IF leg.effectful THEN r.disposition ELSE "NONE"
         IN /\ truth'.disturbed = truth.disturbed
            /\ \/ InDoubt(status = "TIMEOUT", Attempted(leg.effectful, r), last)
               \/ /\ sensor' = sensor
                  /\ AfterAttempt(belief, active, leg, r) = belief
<1> DEFINE leg == Leg(active)
           sent == Attempted(leg.effectful, r)
           status == TransferStatus(leg.nack, r, dur)
           last == IF leg.effectful THEN r.disposition ELSE "NONE"
<1>1. AttemptedLeg(leg, r, dur) /\ status # "OK"
  BY DEF SendFails
<1>2. /\ leg.effectful \in BOOLEAN /\ r \in Answers /\ SlotOK /\ Standing(active)
      /\ (leg.effectful /\ Ordering(active, leg)) \/ (~leg.effectful /\ Asking(active, leg))
  BY <1>1, SendKeeps DEF IInv
<1>3. truth'.disturbed = truth.disturbed
  <2>1. truth'.disturbed = (truth.disturbed /\ ~Relearns(leg.nack, r, dur))
    BY <1>1, SendKeeps
  <2>2. ~Relearns(leg.nack, r, dur)
    BY <1>1 DEF Relearns
  <2>3. truth.disturbed \in BOOLEAN
    BY DEF IInv, BusOK, Truths
  <2> QED BY <2>1, <2>2, <2>3
<1>4. CASE ~leg.effectful
  <2>1. sensor' = sensor
    BY <1>1, <1>4, QuestionKeeps
  <2>2. AfterAttempt(belief, active, leg, r) = belief
    BY <1>2, <1>4 DEF Asking, Questions, AfterAttempt
  <2> QED BY <1>3, <2>1, <2>2
<1>5. CASE leg.effectful
  <2>1. last = r.disposition
    BY <1>5
  <2>2. CASE r.disposition = "INDETERMINATE"
    BY <1>3, <2>1, <2>2 DEF InDoubt
  <2>3. CASE r.disposition = "COMPLETE"
    <3>1. leg.nack \in BOOLEAN
      BY <1>1, AttemptedLegStep DEF LegOK
    <3>2. status = "TIMEOUT"
      BY <1>1, <2>3, <3>1, StatusMeans
    <3>3. InDoubt(status = "TIMEOUT", sent, last)
      BY <2>1, <2>3, <3>2 DEF InDoubt
    <3> QED BY <1>3, <3>3
  <2>4. CASE r.disposition \notin {"COMPLETE", "INDETERMINATE"} /\ sensor' = sensor
    <3>1. AfterAttempt(belief, active, leg, r) = belief
      BY <2>4 DEF AfterAttempt
    <3> QED BY <1>3, <2>4, <3>1
  <2>5. CASE Unanswered(leg.command, r)
    <3>1. leg.nack = TRUE
      BY <1>2, <1>5, <2>5
         DEF Ordering, Unanswered, Command, SetCommand, ModeOps, SingleShotOps,
             MaintenanceOps
    <3>2. status = "TIMEOUT"
      BY <1>1, <2>5, <3>1, StatusMeans DEF Unanswered
    <3>3. sent.attempted
      BY <1>2, <1>5, <2>5, AttemptFields DEF Unanswered
    <3>4. InDoubt(status = "TIMEOUT", sent, last)
      BY <3>2, <3>3 DEF InDoubt
    <3> QED BY <1>3, <3>4
  <2> QED BY <1>1, <1>5, <2>2, <2>3, <2>4, <2>5, OrderChanges
<1> QED BY <1>2, <1>4, <1>5

\* So its failure leaves no claim that is not true.
LEMMA SendFailsTruth ==
  ASSUME IInv, BeliefInv, TruthInv, NEW r \in EffectfulOutcomes \cup PlainOutcomes,
         NEW dur \in Durations, SendFails(r, dur)
  PROVE  TruthInv'
<1> DEFINE leg == Leg(active)
           sent == Attempted(leg.effectful, r)
           status == TransferStatus(leg.nack, r, dur)
           last == IF leg.effectful THEN r.disposition ELSE "NONE"
           b == AfterAttempt(belief, active, leg, r)
<1>1. AttemptedLeg(leg, r, dur)
  BY DEF SendFails
<1>2. FinishOperationFailure(status, b, sent, last, Completed(r, dur))
  BY DEF SendFails
<1>3. /\ truth'.disturbed = truth.disturbed
      /\ InDoubt(status = "TIMEOUT", sent, last) \/ (sensor' = sensor /\ b = belief)
  BY SilentFailure
<1>4. /\ ~truth.disturbed => ClaimsTrue(belief, sensor) /\ ModeTrue(belief, sensor)
      /\ b \in Beliefs
  BY <1>1, SendKeeps, AfterSendType
<1> HIDE DEF leg, sent, status, last, b
<1> QED BY <1>2, <1>3, <1>4, FailureTruth
-----------------------------------------------------------------------------
(* Every step.                                                             *)

\* No iteration of the poll loop makes a claim false.
LEMMA IterationTruth ==
  ASSUME IInv, BeliefInv, TruthInv, LoopStep
  PROVE  TruthInv'
<1>1. CASE \/ PollBreak \/ GateDefers \/ NotDue \/ WaitOver \/ CommandSettled
           \/ PersistShortcut \/ BudgetExhausted
  BY <1>1, ReturnTruth, WaitOverTruth, SettledTruth
<1>2. ASSUME NEW dur \in Durations, NEW r \in EffectfulOutcomes \cup PlainOutcomes,
             Send(r, dur) \/ SendLast(r, dur) \/ SendFails(r, dur) \/ ReadFails(r, dur)
      PROVE  TruthInv'
  BY <1>2, QuestionTruth, OrderTruth, SendLastTruth, SendFailsTruth, ReadFailsTruth
<1>3. ASSUME NEW dur \in Durations,
             \/ HearSerial(dur) \/ IdentityRefused(dur) \/ IdentityConfirmed(dur)
             \/ HearVariant(dur) \/ HearInvalidSetting(dur) \/ HearSetting(dur)
             \/ HearPresentSetting(dur) \/ HearWrittenSetting(dur) \/ HearSample(dur)
             \/ \E verdict \in BOOLEAN :
                  HearAnswer(dur, verdict) \/ HearReady(dur, verdict)
      PROVE  TruthInv'
  BY <1>3, HeardOnlyTruth, IdentityTruth, HearVariantTruth, HearSettingTruth,
     HearPresentTruth, HearWrittenTruth, HearSampleTruth
<1> QED BY <1>1, <1>2, <1>3 DEF LoopStep

\* The owner's clock disturbs nothing.
LEMMA PassKeeps ==
  ASSUME IInv, NEW d, Pass(d)
  PROVE  truth'.disturbed = truth.disturbed /\ truth'.unsaved = truth.unsaved
         /\ truth'.altered = truth.altered
  BY DEF Pass, IInv, BusOK, Truths

\* begin() and end() claim nothing.
LEMMA BindingTruth ==
  ASSUME IInv, BeliefInv, End \/ \E c \in Configs : Begin(c)
  PROVE  TruthInv'
<1>1. ~activeValid'
  BY DEF End, Begin
<1>2. belief'.attached = FALSE /\ belief'.verified = {} /\ belief'.compensation = NoField
  <2>1. CASE \E c \in Configs : Begin(c)
    BY <2>1 DEF Begin, Ignorance
  <2>2. CASE End
    <3>1. ~bound' /\ BeliefInv'
      BY <2>2, BindingClaims DEF End
    <3> QED BY <3>1 DEF BeliefInv, Sound
  <2> QED BY <2>1, <2>2
<1> QED BY <1>1, <1>2, UnclaimedTrue, IdleTruth

\* An operation that begins has done nothing yet.
LEMMA StartTruth ==
  ASSUME IInv, TruthInv, NEW k \in UsedKinds, NEW id, NEW w, NEW deadline, NEW d,
         Start(k, id, w, deadline, d)
  PROVE  TruthInv'
<1>1. UNCHANGED <<belief, sensor>> /\ ~activeValid
  BY DEF Start, Startable
<1>2. truth'.disturbed = truth.disturbed
  BY DEF Start, IInv, BusOK, Truths
<1>3. /\ active'.kind = k /\ active'.phase = FirstPhase(k) /\ active'.index = 0
      /\ active'.attempted = FALSE
  BY DEF Start, NoOperation
<1>4. /\ active'.phase = "WAIT_POWER_UP" \/ active'.kind.op # "ATTACH"
      /\ active'.phase \notin {"WAIT_EXECUTION", "SEND_VERIFY_COMMAND"}
  BY <1>3 DEF FirstPhase
<1>5. Tried(active') /\ Dropped(active', belief') /\ OpTrue(active', sensor')
  BY <1>3, <1>4 DEF Tried, Dropped, OpTrue, SerialHeard, ModeWait, Written
<1>6. ~truth.disturbed => ClaimsTrue(belief, sensor) /\ ModeTrue(belief, sensor)
  BY <1>1 DEF TruthInv
<1> QED BY <1>1, <1>2, <1>5, <1>6 DEF TruthInv

\* A cancelled operation that may have changed something has its claims
\* withdrawn.
LEMMA CancelTruth ==
  ASSUME IInv, TruthInv, NEW id, NEW d, Cancel(id, d)
  PROVE  TruthInv'
<1> DEFINE doubted == active.callbacksUsed # 0 /\ active.attempted
           b == IF doubted THEN MarkReconciliationRequired(belief) ELSE belief
<1>1. sensor' = sensor /\ activeValid /\ belief \in Beliefs
  BY DEF Cancel, IInv, SlotOK
<1>2. truth'.disturbed = truth.disturbed
  BY PassKeeps DEF Cancel
<1>3. PICK effect, p :
        FinishOperation("CANCELLED", effect, [b EXCEPT !.persistenceIndeterminate = p],
                        active, d)
  BY DEF Cancel
<1>4. /\ b \in Beliefs
      /\ doubted => b.attached = FALSE /\ b.verified = {} /\ b.compensation = NoField
      /\ ~doubted => b = belief
  BY <1>1, MarkType, MarkFields DEF Unclaimed
<1> HIDE DEF b
<1>5. SameClaims(belief', b) /\ ~activeValid'
  <2> DEFINE b2 == [b EXCEPT !.persistenceIndeterminate = p]
  <2>1. SameClaims(b2, b)
    BY <1>4, DoubtFields
  <2>2. /\ ~activeValid'
        /\ belief' = IF ReloadSettled(active, d) THEN [b2 EXCEPT !.dirty = {}] ELSE b2
    BY <1>3 DEF FinishOperation
  <2>3. SameClaims([b2 EXCEPT !.dirty = {}], b)
    BY <1>4 DEF SameClaims, Beliefs
  <2> HIDE DEF b2
  <2> QED BY <2>1, <2>2, <2>3
<1>6. ~truth.disturbed => ClaimsTrue(b, sensor) /\ ModeTrue(b, sensor)
  <2>1. CASE doubted
    BY <1>4, <2>1, UnclaimedTrue
  <2>2. CASE ~doubted
    <3>1. active.callbacksUsed > 0 => active.callbacksUsed # 0
      BY DEF IInv, SlotOK, Operations
    <3>2. ~ModeWait(active)
      BY <1>1, <2>2, <3>1 DEF TruthInv, Tried
    <3> QED BY <1>1, <1>4, <2>2, <3>2 DEF TruthInv
  <2> QED BY <2>1, <2>2
<1> QED BY <1>1, <1>2, <1>5, <1>6, SameTrue, IdleTruth

\* So has one whose deadline has passed.
LEMMA EnterPollTruth ==
  ASSUME IInv, TruthInv, NEW budget, NEW d, EnterPoll(budget, d)
  PROVE  TruthInv'
<1>1. sensor' = sensor /\ belief \in Beliefs
  BY DEF EnterPoll, IInv, SlotOK
<1>2. truth'.disturbed = truth.disturbed
  BY PassKeeps DEF EnterPoll
<1>3. CASE activeValid /\ active.deadline > d
  <2>1. active' = Aged(active, d) /\ UNCHANGED <<belief, activeValid>>
    BY <1>3 DEF EnterPoll
  <2>2. /\ active'.kind = active.kind /\ active'.phase = active.phase
        /\ active'.index = active.index /\ active'.serial = active.serial
        /\ active'.desired = active.desired /\ active'.attempted = active.attempted
        /\ active'.callbacksUsed = active.callbacksUsed
    BY <2>1 DEF Aged, IInv, SlotOK, Operations
  <2>3. /\ Tried(active) => Tried(active')
        /\ Dropped(active, belief) => Dropped(active', belief)
        /\ OpTrue(active, sensor) => OpTrue(active', sensor)
        /\ ModeWait(active') = ModeWait(active)
    BY <2>2, SameStanding
  <2> QED BY <1>1, <1>2, <1>3, <2>1, <2>3 DEF TruthInv
<1>4. CASE activeValid /\ ~(active.deadline > d)
  <2>1. FinishOperationFailure("TIMEOUT", belief, active, lastEffectful, d)
    BY <1>4 DEF EnterPoll
  <2>2. ~InDoubt("TIMEOUT" = "TIMEOUT", active, lastEffectful) => ~active.attempted
    BY DEF InDoubt
  <2>3. ~active.attempted => ~ModeWait(active)
    BY <1>4 DEF TruthInv, Tried
  <2>4. ~truth'.disturbed /\ ~InDoubt("TIMEOUT" = "TIMEOUT", active, lastEffectful)
          => ClaimsTrue(belief, sensor') /\ ModeTrue(belief, sensor')
    BY <1>1, <1>2, <2>2, <2>3 DEF TruthInv
  <2> QED BY <1>1, <2>1, <2>4, FailureTruth
<1>5. CASE ~activeValid
  <2>1. UNCHANGED <<belief, activeValid, active>>
    BY <1>5 DEF EnterPoll
  <2> QED BY <1>1, <1>2, <1>5, <2>1 DEF TruthInv
<1> QED BY <1>3, <1>4, <1>5

\* No step of anybody makes a claim false.
LEMMA NextTruth ==
  ASSUME IInv, BeliefInv, TruthInv, [Next]_vars
  PROVE  TruthInv'
<1>1. CASE LoopStep
  BY <1>1, IterationTruth
<1>2. CASE End \/ \E c \in Configs : Begin(c)
  BY <1>2, BindingTruth
<1>3. CASE TakeResult(terminal.id)
  <2>1. UNCHANGED <<belief, activeValid, active, sensor>>
    BY <1>3 DEF TakeResult
  <2>2. truth'.disturbed = truth.disturbed
    BY <1>3 DEF TakeResult, IInv, BusOK, Truths
  <2> QED BY <2>1, <2>2 DEF TruthInv
<1>4. CASE \E s2 \in Replacements : Disturb(s2)
  <2>1. UNCHANGED <<belief, activeValid, active>>
    BY <1>4 DEF Disturb, driverVars
  <2>2. truth'.disturbed = TRUE
    BY <1>4 DEF Disturb, IInv, BusOK, Truths
  <2> QED BY <2>1, <2>2 DEF TruthInv
<1>5. CASE UNCHANGED vars
  BY <1>5 DEF TruthInv, vars, driverVars
<1>6. ASSUME NEW k \in UsedKinds, NEW id, NEW w, NEW deadline, NEW d,
             Start(k, id, w, deadline, d)
      PROVE  TruthInv'
  BY <1>6, StartTruth
<1>7. ASSUME NEW d, Cancel(active.id, d) \/ \E budget : EnterPoll(budget, d)
      PROVE  TruthInv'
  BY <1>7, CancelTruth, EnterPollTruth
<1> QED BY <1>1, <1>2, <1>3, <1>4, <1>5, <1>6, <1>7 DEF Next, OwnerCall

\* The invariant of the truth.
THEOREM TruthInvariance == Spec => []TruthInv
<1>1. Init => TruthInv
  <2>1. Init => ~activeValid /\ belief.attached = FALSE /\ belief.verified = {}
                /\ belief.compensation = NoField
    BY DEF Init, Ignorance
  <2> QED BY <2>1, UnclaimedTrue DEF TruthInv
<1>2. IInv /\ BeliefInv /\ TruthInv /\ [Next]_vars => TruthInv'
  BY NextTruth
<1> QED BY <1>1, <1>2, Invariance, BeliefInvariance, PTL DEF Spec
-----------------------------------------------------------------------------
(* What follows.                                                           *)

\* Between operations an attached driver knows the sensor's mode, whatever
\* was lost, refused, cancelled or late before, unless somebody interfered.
THEOREM ModeIsKnown == Spec => []ModeBeliefTrue
<1>1. TruthInv => ModeBeliefTrue
  BY DEF TruthInv, ModeBeliefTrue, ModeTrue
<1> QED BY <1>1, TruthInvariance, PTL

\* A field the driver calls verified has the value it caches, at every instant
\* of every operation: a write takes the verification before its answer comes.
THEOREM VerifiedWordsAreTrue == Spec => []VerifiedIsTrue
<1>1. TruthInv => VerifiedIsTrue
  BY DEF TruthInv, VerifiedIsTrue, ClaimsTrue
<1> QED BY <1>1, TruthInvariance, PTL

\* The pressure source the driver claims is the one the sensor uses: writing
\* either source withdraws the claim, and only the word read back renews it.
THEOREM PressureSourceIsTrue == Spec => []CompensationTrue
<1>1. TruthInv => CompensationTrue
  BY DEF TruthInv, CompensationTrue, ClaimsTrue
<1> QED BY <1>1, TruthInvariance, PTL

\* The identity an attached driver reports is the sensor's: the two answers an
\* identity is put together from come from the same sensor.
THEOREM ReportedIdentityIsTrue == Spec => []IdentityTrue
<1>1. TruthInv /\ BeliefInv => IdentityTrue
  BY DEF TruthInv, BeliefInv, Sound, IdentityTrue, ClaimsTrue
<1> QED BY <1>1, TruthInvariance, BeliefInvariance, PTL
=============================================================================
