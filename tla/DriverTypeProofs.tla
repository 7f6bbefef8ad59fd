-------------------------- MODULE DriverTypeProofs --------------------------
(***************************************************************************)
(* The inductive invariant of the driver: every variable has its type, an  *)
(* operation is in a phase its step function handles, and the poll loop    *)
(* only runs for an operation that is in time.  The three need each other: *)
(* the step functions are tables over phases, and say nothing of a phase   *)
(* outside them.                                                           *)
(***************************************************************************)
EXTENDS SCD41Properties, TLAPS

\* What an active operation asks for.
Asked == activeValid => /\ active.kind \in Kinds
                        /\ active.kind.op = "SET_SETTING" => active.desired \in Words

\* The variables that the end or the progress of an operation changes ...
SlotOK ==
  /\ activeValid \in BOOLEAN /\ terminalValid \in BOOLEAN
  /\ belief \in Beliefs
  /\ active \in Operations
  /\ terminal \in OpResults
  /\ poll \in Polls
  /\ PhasesLegal /\ InTime /\ Asked

\* ... and those that an attempt on the bus changes.
BusOK ==
  /\ bound \in BOOLEAN /\ config \in Configurations
  /\ nextGeneration \in 1 .. MaxGeneration
  /\ nextSafe \in Nat
  /\ lastEffectful \in Dispositions \cup {"NONE"}
  /\ health \in [state : {"UNINIT", "READY", "DEGRADED", "OFFLINE"},
                 failures : 0 .. MaxFailures]
  /\ sensor \in Sensors
  /\ truth \in Truths

IInv == SlotOK /\ BusOK

\* The answers of the transport as the phases see them.
Answers == [code : {"OK", "NACK", "FAILED"}, disposition : Dispositions,
            clockValid : BOOLEAN]
-----------------------------------------------------------------------------
(* The belief.                                                             *)

\* A saturating counter stays in its range.
LEMMA SaturateType ==
  ASSUME NEW max \in Nat, NEW n \in 0 .. max
  PROVE  Saturate(n, max) \in 0 .. max
  BY DEF Saturate

\* _setMode keeps the type of the belief.
LEMMA SetModeType ==
  ASSUME NEW b \in Beliefs, NEW m \in Modes \cup {"UNKNOWN"},
         NEW e \in {"UNKNOWN", "ACKNOWLEDGED", "VERIFIED"}
  PROVE  SetMode(b, m, e) \in Beliefs
<1>1. (IF b.mode = m THEN b.sampleSequence ELSE 0) \in 0 .. MaxSequence
  BY DriverAssumption DEF Beliefs
<1>2. \A n \in 0 .. MaxSequence :
        [b EXCEPT !.sampleSequence = n, !.mode = m, !.evidence = e] \in Beliefs
  BY DEF Beliefs
<1> QED
  BY <1>1, <1>2 DEF SetMode

\* So does _markReconciliationRequired.
LEMMA MarkType ==
  ASSUME NEW b \in Beliefs
  PROVE  MarkReconciliationRequired(b) \in Beliefs
<1>1. SetMode(b, "UNKNOWN", "UNKNOWN") \in Beliefs
  BY SetModeType
<1>2. NoSample \in Samples
  BY DriverAssumption DEF NoSample, Samples
<1> QED
  BY <1>1, <1>2 DEF MarkReconciliationRequired, Beliefs

\* So does _advanceSensorEpoch.
LEMMA AdvanceType ==
  ASSUME NEW b \in Beliefs
  PROVE  AdvanceSensorEpoch(b) \in Beliefs
<1>1. Saturate(b.epoch, MaxEpoch) \in 0 .. MaxEpoch
  BY SaturateType, DriverAssumption DEF Beliefs
<1>2. NoSample \in Samples /\ 0 \in 0 .. MaxSequence
  BY DriverAssumption DEF NoSample, Samples
<1> QED
  BY <1>1, <1>2 DEF AdvanceSensorEpoch, Beliefs

\* So does emptying the configuration snapshot.
LEMMA ClearType ==
  ASSUME NEW b \in Beliefs
  PROVE  ClearConfiguration(b) \in Beliefs
  BY DEF ClearConfiguration, Beliefs

\* An identity that reads have put together.
Readings == [serial : Serials \cup {NoSerial}, variant : Variants]

\* Taking over an identity keeps the type of the belief.
LEMMA IdentifyType ==
  ASSUME NEW b \in Beliefs, NEW id \in Readings
  PROVE  Identify(b, id) \in Beliefs
  BY DEF Identify, Beliefs, Identities, Readings

\* The four ways an identity check ends keep the type of the belief.
LEMMA IdentityTypes ==
  ASSUME NEW b \in Beliefs, NEW id \in Readings
  PROVE  /\ Disown(b, id) \in Beliefs
         /\ Reattach(b, id) \in Beliefs
         /\ Attached(b, id) \in Beliefs
         /\ ResetDone(b, id) \in Beliefs
<1>1. Disown(b, id) \in Beliefs
  BY AdvanceType, IdentifyType, ClearType, MarkType DEF Disown
<1>2. \A b2 \in Beliefs : Reattach(b2, id) \in Beliefs
  <2> TAKE b2 \in Beliefs
  <2>1. SetMode(Identify(b2, id), "IDLE", "VERIFIED") \in Beliefs
    BY IdentifyType, SetModeType DEF Modes
  <2> QED
    BY <2>1 DEF Reattach, Beliefs
<1>3. [b EXCEPT !.verified = {}] \in Beliefs
  BY DEF Beliefs
<1>4. Attached(b, id) \in Beliefs
  BY <1>2, <1>3, ClearType, AdvanceType DEF Attached
<1>5. [AdvanceSensorEpoch(b) EXCEPT !.verified = {}, !.dirty = {},
                                    !.persistenceIndeterminate = FALSE] \in Beliefs
  BY AdvanceType DEF Beliefs
<1> QED
  BY <1>1, <1>2, <1>4, <1>5 DEF ResetDone

\* So does a changed variant.
LEMMA VariantChangedType ==
  ASSUME NEW b \in Beliefs, NEW id, id.variant \in Variants
  PROVE  VariantChanged(b, id) \in Beliefs
<1>1. Saturate(b.epoch, MaxEpoch) \in 0 .. MaxEpoch
  BY SaturateType, DriverAssumption DEF Beliefs
<1>2. [NoIdentity EXCEPT !.variant = id.variant,
                         !.epoch = Saturate(b.epoch, MaxEpoch)] \in Identities
  BY <1>1 DEF NoIdentity, Identities
<1>3. ClearConfiguration(AdvanceSensorEpoch(b)) \in Beliefs
  BY AdvanceType, ClearType
<1>4. \A b2 \in Beliefs, i \in Identities : [b2 EXCEPT !.identity = i] \in Beliefs
  BY DEF Beliefs
<1> QED
  BY <1>2, <1>3, <1>4, MarkType DEF VariantChanged

\* A new sample keeps the type of the belief.
LEMMA StoreSampleType ==
  ASSUME NEW b \in Beliefs
  PROVE  StoreSample(b) \in Beliefs
<1> DEFINE n == Saturate(b.sampleSequence, MaxSequence)
           s == [valid |-> TRUE, epoch |-> b.epoch, sequence |-> n, mode |-> b.mode]
<1>1. n \in 0 .. MaxSequence
  BY SaturateType, DriverAssumption DEF Beliefs
<1>2. s \in Samples
  BY <1>1 DEF Samples, Beliefs
<1>3. \A m \in 0 .. MaxSequence, t \in Samples :
        [b EXCEPT !.sampleSequence = m, !.sample = t] \in Beliefs
  BY DEF Beliefs
<1> QED
  BY <1>1, <1>2, <1>3 DEF StoreSample

\* So does the word of a setting, read or written.
LEMMA SettingTypes ==
  ASSUME NEW b \in Beliefs, NEW f \in Fields, NEW w \in AnyWord
  PROVE  /\ ApplyReadValue(b, f, w) \in Beliefs
         /\ Unverify(b, f) \in Beliefs
<1>1. ApplyReadValue(b, f, w) \in Beliefs
  BY DEF ApplyReadValue, Beliefs
<1>2. Unverify(b, f) \in Beliefs
  BY DEF Unverify, Beliefs
<1> QED
  BY <1>1, <1>2

\* So does the doubt about a setting that may have been written.
LEMMA SettingWriteType ==
  ASSUME NEW b \in Beliefs, NEW a
  PROVE  AfterSettingWrite(b, a) \in Beliefs
<1> DEFINE f == a.kind.field
<1>1. \A v \in SUBSET Fields, d \in SUBSET PersistableFields,
         c \in CompensationFields \cup {NoField} :
        [b EXCEPT !.verified = v, !.dirty = d, !.compensation = c] \in Beliefs
  BY DEF Beliefs
<1>2. b.verified \ {f} \in SUBSET Fields
  BY DEF Beliefs
<1>3. (IF a.changed THEN b.dirty \cup ({f} \cap PersistableFields) ELSE b.dirty)
        \in SUBSET PersistableFields
  BY DEF Beliefs
<1>4. (IF f \in CompensationFields THEN NoField ELSE b.compensation)
        \in CompensationFields \cup {NoField}
  BY DEF Beliefs
<1> QED
  BY <1>1, <1>2, <1>3, <1>4 DEF AfterSettingWrite
-----------------------------------------------------------------------------
(* The transport and the sensor.                                           *)

\* Normalise returns values of the enumerations whatever the callback did.
LEMMA NormaliseType ==
  ASSUME NEW raw \in RawResults, NEW effectful \in BOOLEAN
  PROVE  Normalise(raw, effectful) \in Results
<1> DEFINE r1 == AfterClock(raw)
           r2 == AfterShape(r1, effectful)
           r3 == AfterExactness(r2)
           r4 == AfterFailure(r3)
           Clean == [code : Codes, disposition : Dispositions, bytes : ByteCounts,
                     clockValid : BOOLEAN]
<1>1. r1 \in RawResults
  BY DEF AfterClock, RawResults, Codes, Dispositions
<1>2. r2 \in Clean
  <2>1. CASE ~Malformed(r1, effectful)
    BY <1>1, <2>1 DEF AfterShape, Malformed, RawResults
  <2>2. CASE Malformed(r1, effectful)
    <3>1. (IF r1.disposition = "NOT_STARTED" /\ ~ContradictoryBytes(r1, effectful)
           THEN r1.disposition ELSE "INDETERMINATE") \in Dispositions
      BY DEF Dispositions
    <3>2. \A d \in Dispositions : [r1 EXCEPT !.code = "FAILED", !.disposition = d] \in Clean
      BY <1>1 DEF RawResults, Codes
    <3> QED
      BY <2>2, <3>1, <3>2 DEF AfterShape
  <2> QED
    BY <2>1, <2>2
<1>3. r3 \in Clean
  BY <1>2 DEF AfterExactness, Codes, Dispositions
<1>4. r4 \in Clean
  BY <1>3 DEF AfterFailure, Dispositions
<1>5. raw.clockValid \in BOOLEAN /\ Malformed(r1, effectful) \in BOOLEAN
  BY DEF RawResults, Malformed, ContradictoryBytes
<1> QED
  BY <1>4, <1>5 DEF Normalise, Results

\* So the phases see one of three codes and a disposition.
LEMMA AnswersType ==
  ASSUME NEW r \in EffectfulOutcomes \cup PlainOutcomes
  PROVE  r \in Answers
<1>1. PICK raw \in RawResults, e \in BOOLEAN : r = Class(Normalise(raw, e))
  BY DEF EffectfulOutcomes, PlainOutcomes
<1> QED
  BY <1>1, NormaliseType DEF Class, Answers, Results

\* A setting command is about a field and carries a valid word.
Sendable(c) == c.name = "SET" => c.field \in Fields /\ c.word \in Words

\* The sensor stays a sensor.
LEMMA ReactionType ==
  ASSUME NEW s \in Sensors, NEW c, Sendable(c), NEW r,
         NEW react \in Reactions(s, c, r)
  PROVE  react.sensor \in Sensors /\ react.took \in BOOLEAN
<1>1. ASSUME NEW s2 \in After(s, c) PROVE s2 \in Sensors
  <2>1. \A m \in Modes : [s EXCEPT !.mode = m] \in Sensors
    BY DEF Sensors
  <2>2. CASE c.name \in {"WAKE_UP", "STOP_PERIODIC"}
    BY <1>1, <2>1, <2>2 DEF After, Modes
  <2>3. CASE c.name \in {"START_PERIODIC", "START_LOW_POWER_PERIODIC", "POWER_DOWN"}
    BY <1>1, <2>1, <2>3 DEF After, Modes
  <2>4. CASE c.name = "SET"
    <3>1. [s EXCEPT !.ram[c.field] = c.word,
                    !.source = IF c.field \in CompensationFields
                               THEN c.field ELSE @] \in Sensors
      BY <2>4 DEF Sensors, Sendable, AnyWord
    <3> QED
      BY <1>1, <2>4, <3>1 DEF After
  <2>5. CASE c.name = "PERSIST_SETTINGS"
    <3>1. [f \in Fields |-> IF f \in PersistableFields THEN s.ram[f] ELSE s.rom[f]]
            \in [Fields -> AnyWord]
      BY DEF Sensors
    <3> QED
      BY <1>1, <2>5, <3>1 DEF After, Sensors
  <2>6. CASE c.name = "REINIT"
    BY <1>1, <2>6 DEF After, Sensors, Modes, CompensationFields
  <2>7. CASE c.name = "FACTORY_RESET"
    <3>1. [f \in Fields |-> DefaultWord] \in [Fields -> AnyWord]
      BY WordAssumption DEF AnyWord
    <3> QED
      BY <1>1, <2>7, <3>1 DEF After, Sensors, Modes, CompensationFields
  <2>8. CASE c.name = "DIAGNOSTIC"
    <3>1. \A w \in Words : [s EXCEPT !.ram["SENSOR_ALTITUDE"] = w] \in Sensors
      BY DEF Sensors, AnyWord, Fields
    <3> QED
      BY <1>1, <2>1, <2>8, <3>1 DEF After
  <2>9. CASE c.name \notin {"WAKE_UP", "STOP_PERIODIC", "START_PERIODIC",
                            "START_LOW_POWER_PERIODIC", "POWER_DOWN", "SET",
                            "PERSIST_SETTINGS", "REINIT", "FACTORY_RESET",
                            "DIAGNOSTIC"}
    BY <1>1, <2>9 DEF After
  <2> QED
    BY <2>2, <2>3, <2>4, <2>5, <2>6, <2>7, <2>8, <2>9
<1> DEFINE taken == {[took |-> TRUE, sensor |-> s2] : s2 \in After(s, c)}
<1>2. react \in taken \cup {[took |-> FALSE, sensor |-> s]}
  BY DEF Reactions
<1>3. CASE react \in taken
  <2>1. PICK s2 \in After(s, c) : react = [took |-> TRUE, sensor |-> s2]
    BY <1>3
  <2> QED
    BY <1>1, <2>1
<1>4. CASE react = [took |-> FALSE, sensor |-> s]
  BY <1>4
<1> QED
  BY <1>2, <1>3, <1>4

\* Every wait is a positive number of ticks.
LEMMA WaitTypes ==
  /\ \A n \in WaitNames : SettleMs[n] \in Nat \ {0}
  /\ \A k : ExecutionWait(k) \in Nat \ {0}
  /\ \A a : FullWait(a) \in Nat \ {0}
  /\ \A c : ExecutionTime(c) \in Nat \ {0}
<1>1. \A n \in WaitNames : SettleMs[n] \in Nat \ {0}
  BY SettleAssumption
<1>2. ASSUME NEW k PROVE ExecutionWait(k) \in Nat \ {0}
  BY <1>1 DEF ExecutionWait, WaitNames
<1>3. ASSUME NEW a PROVE FullWait(a) \in Nat \ {0}
  BY <1>1, <1>2 DEF FullWait, WaitNames
<1>4. ASSUME NEW c PROVE ExecutionTime(c) \in Nat \ {0}
  BY <1>1 DEF ExecutionTime, WaitNames
<1> QED
  BY <1>1, <1>2, <1>3, <1>4
-----------------------------------------------------------------------------
(* The tables over kinds and phases.                                       *)

\* The operations, and those that have a field.
LEMMA KindCases ==
  ASSUME NEW k \in Kinds
  PROVE  /\ k.op \in PlainOps \cup {"READ_SETTING", "SET_SETTING"}
         /\ k.op \in {"READ_SETTING", "SET_SETTING"} <=> k.field \in Fields
         /\ k.field \in Fields \cup {NoField}
<1>1. CASE k \in {Kind(op) : op \in PlainOps}
  <2>1. PICK op \in PlainOps : k = Kind(op)
    BY <1>1
  <2> QED
    BY <2>1 DEF Kind, PlainOps, ReadOps, MeasurementOps, SingleShotOps, ModeOps,
       MaintenanceOps, DiagnosticOps, NoField, Fields
<1>2. CASE k \in {ReadSetting(f) : f \in Fields}
  BY <1>2 DEF ReadSetting
<1>3. CASE k \in {SetSetting(f) : f \in Fields}
  BY <1>3 DEF SetSetting
<1> QED
  BY <1>1, <1>2, <1>3 DEF Kinds

\* The step function that serves a kind.
LEMMA OpCases ==
  ASSUME NEW k \in Kinds
  PROVE  \/ k.op = "ATTACH" \/ k.op \in MeasurementOps \/ k.op \in MaintenanceOps
         \/ k.op \in DiagnosticOps \/ k.op = "SET_SETTING" \/ k.op \in ModeOps
         \/ k.op \in ReadOps
  BY KindCases DEF PlainOps, ReadOps

\* The operation can go on from where it is.
Standing(a) == /\ a.kind \in Kinds /\ a.index \in 0 .. 6
               /\ a.kind.op = "SET_SETTING" => a.desired \in Words
               /\ <<a.phase, a.index>> \in Reachable(a.kind)

\* Reachable, class by class.
LEMMA ReachableCases ==
  ASSUME NEW k
  PROVE  /\ k.op = "ATTACH" => Reachable(k) = AttachSteps
         /\ k.op = "READ_IDENTITY" => Reachable(k) = IdentitySteps
         /\ k.op = "READ_CONFIGURATION" => Reachable(k) = ConfigurationSteps
         /\ k.op \in {"READ_SENSOR_VARIANT", "READ_DATA_READY", "READ_SETTING"}
                       \cup DiagnosticOps => Reachable(k) = ReadSteps
         /\ k.op = "SET_SETTING" => Reachable(k) = SettingSteps
         /\ k.op = "WAKE_UP" => Reachable(k) = WakeSteps
         /\ k.op \in (ModeOps \ {"WAKE_UP"}) \cup {"PERSIST_SETTINGS"}
              => Reachable(k) = CommandSteps
         /\ k.op = "FETCH_SAMPLE" => Reachable(k) = FetchSteps
         /\ k.op \in SingleShotOps => Reachable(k) = CommandSteps \cup FetchSteps
         /\ k.op \in ResetOps => Reachable(k) = ResetSteps
         /\ k.op \in {"SELF_TEST", "FORCED_RECALIBRATION"}
              => Reachable(k) = DeferredSteps
  BY DEF Reachable, SingleShotOps, DiagnosticOps, ModeOps, ResetOps

\* Leg, class by class.
LEMMA LegCases ==
  ASSUME NEW a
  PROVE  /\ a.kind.op = "ATTACH" => Leg(a) = AttachLeg(a)
         /\ a.kind.op \in MeasurementOps => Leg(a) = MeasurementLeg(a)
         /\ a.kind.op \in MaintenanceOps => Leg(a) = MaintenanceLeg(a)
         /\ a.kind.op \in DiagnosticOps => Leg(a) = DiagnosticLeg(a)
         /\ a.kind.op = "SET_SETTING" => Leg(a) = SettingLeg(a)
         /\ a.kind.op \in ModeOps => Leg(a) = ModeLeg(a)
         /\ a.kind.op \in ReadOps => Leg(a) = ReadLeg(a)
  BY DEF Leg, MeasurementOps, SingleShotOps, MaintenanceOps, DiagnosticOps, ModeOps,
     ReadOps

LegOK(a, leg) ==
  /\ leg.effectful \in BOOLEAN /\ leg.nack \in BOOLEAN
  /\ leg.phase \in Phases /\ leg.index \in 0 .. 6 /\ leg.wait \in Nat \ {0}
  /\ <<leg.phase, leg.index>> \in Reachable(a.kind)
  /\ Sendable(leg.command)

\* Every sending phase an operation can be in leads to a phase it can be in.
LEMMA LegType ==
  ASSUME NEW a, Standing(a), a.phase \in SendPhases
  PROVE  LegOK(a, Leg(a))
<1> DEFINE p == a.phase
           i == a.index
<1> USE DEF LegOK, Sendable, Command, Query, Order, Phases, WaitPhases, ReadPhases,
            SendPhases
<1>0. /\ SettleMs["SHORT"] \in Nat \ {0} /\ SettleMs["POWER_UP"] \in Nat \ {0}
      /\ SettleMs["STOP_PERIODIC"] \in Nat \ {0}
      /\ ExecutionWait(a.kind) \in Nat \ {0}
  BY WaitTypes DEF WaitNames
<1>1. CASE a.kind.op = "ATTACH"
  <2>1. Leg(a) = AttachLeg(a) /\ Reachable(a.kind) = AttachSteps
    BY <1>1, LegCases, ReachableCases
  <2>2. p \in {"SEND_WAKE", "SEND_STOP", "SEND_READ_COMMAND", "SEND_VERIFY_COMMAND"}
    BY <2>1 DEF Standing, AttachSteps
  <2>3. CASE p = "SEND_WAKE"
    <3>1. Leg(a) = Order(Command("WAKE_UP"), TRUE, "WAIT_WAKE", SettleMs["POWER_UP"], 0)
      BY <2>1, <2>3 DEF AttachLeg
    <3> QED
      BY <1>0, <2>1, <3>1 DEF AttachSteps
  <2>4. CASE p = "SEND_STOP"
    <3>1. Leg(a) = Order(Command("STOP_PERIODIC"), TRUE, "WAIT_STOP",
                       SettleMs["STOP_PERIODIC"], 0)
      BY <2>1, <2>4 DEF AttachLeg
    <3> QED
      BY <1>0, <2>1, <3>1 DEF AttachSteps
  <2>5. CASE p = "SEND_READ_COMMAND"
    <3>1. Leg(a) = Query(Command("GET_SERIAL"), "WAIT_EXECUTION", 0)
      BY <2>1, <2>5 DEF AttachLeg
    <3> QED
      BY <1>0, <2>1, <3>1 DEF AttachSteps
  <2>6. CASE p = "SEND_VERIFY_COMMAND"
    <3>1. Leg(a) = Query(Command("GET_VARIANT"), "WAIT_EXECUTION", 1)
      BY <2>1, <2>6 DEF AttachLeg
    <3> QED
      BY <1>0, <2>1, <3>1 DEF AttachSteps
  <2> QED
    BY <2>2, <2>3, <2>4, <2>5, <2>6
<1>2. CASE a.kind.op \in MeasurementOps
  <2>1. Leg(a) = MeasurementLeg(a)
    BY <1>2, LegCases
  <2>2. Reachable(a.kind) \in {FetchSteps, CommandSteps \cup FetchSteps}
    BY <1>2, ReachableCases DEF MeasurementOps
  <2>3. \/ p \in {"SEND_READY_COMMAND", "SEND_READ_COMMAND"}
        \/ p = "SEND_COMMAND" /\ Reachable(a.kind) = CommandSteps \cup FetchSteps
    BY <2>2 DEF Standing, CommandSteps, FetchSteps
  <2>4. CASE p = "SEND_READY_COMMAND"
    <3>1. Leg(a) = Query(Command("GET_DATA_READY"), "READ_READY_RESPONSE", 0)
      BY <2>1, <2>4 DEF MeasurementLeg
    <3> QED
      BY <1>0, <2>2, <3>1 DEF FetchSteps
  <2>5. CASE p = "SEND_READ_COMMAND"
    <3>1. Leg(a) = Query(Command("READ_MEASUREMENT"), "READ_RESPONSE", 0)
      BY <2>1, <2>5 DEF MeasurementLeg
    <3> QED
      BY <1>0, <2>2, <3>1 DEF FetchSteps
  <2>6. CASE p = "SEND_COMMAND"
    <3>1. Leg(a) = Order(Command(a.kind.op), FALSE, "WAIT_EXECUTION",
                         ExecutionWait(a.kind), 0)
      BY <2>1, <2>6 DEF MeasurementLeg
    <3> QED
      BY <1>0, <1>2, <2>3, <2>6, <3>1 DEF CommandSteps, MeasurementOps, SingleShotOps
  <2> QED
    BY <2>3, <2>4, <2>5, <2>6
<1>3. CASE a.kind.op \in MaintenanceOps
  <2>1. Leg(a) = MaintenanceLeg(a)
    BY <1>3, LegCases
  <2>2. \/ a.kind.op \in ResetOps /\ Reachable(a.kind) = ResetSteps
        \/ Reachable(a.kind) \in {CommandSteps, DeferredSteps}
    BY <1>3, ReachableCases DEF MaintenanceOps, ResetOps
  <2>3. \/ p = "SEND_COMMAND"
        \/ p = "SEND_VERIFY_COMMAND" /\ i \in {0, 1} /\ Reachable(a.kind) = ResetSteps
    BY <2>2 DEF Standing, CommandSteps, ResetSteps, DeferredSteps
  <2> QED
    BY <1>0, <1>3, <2>1, <2>2, <2>3
       DEF MaintenanceLeg, CommandSteps, ResetSteps, DeferredSteps, MaintenanceOps
<1>4. CASE a.kind.op \in DiagnosticOps
  <2>1. Leg(a) = DiagnosticLeg(a) /\ Reachable(a.kind) = ReadSteps
    BY <1>4, LegCases, ReachableCases
  <2> QED
    BY <1>0, <2>1 DEF DiagnosticLeg, ReadSteps
<1>5. CASE a.kind.op = "SET_SETTING"
  <2>1. Leg(a) = SettingLeg(a) /\ Reachable(a.kind) = SettingSteps
    BY <1>5, LegCases, ReachableCases
  <2>2. a.kind.field \in Fields /\ a.desired \in Words
    BY <1>5, KindCases DEF Standing
  <2> QED
    BY <1>0, <2>1, <2>2 DEF SettingLeg, SettingSteps, GetCommand, SetCommand
<1>6. CASE a.kind.op \in ModeOps
  <2>1. Leg(a) = ModeLeg(a)
    BY <1>6, LegCases
  <2>2. \/ a.kind.op = "WAKE_UP" /\ Reachable(a.kind) = WakeSteps
        \/ Reachable(a.kind) = CommandSteps
    BY <1>6, ReachableCases
  <2>3. \/ p = "SEND_COMMAND"
        \/ /\ p \in {"SEND_READ_COMMAND", "SEND_VERIFY_COMMAND"}
           /\ Reachable(a.kind) = WakeSteps
    BY <2>2 DEF Standing, CommandSteps, WakeSteps
  <2>4. CASE p = "SEND_READ_COMMAND"
    <3>1. Leg(a) = Query(Command("GET_SERIAL"), "WAIT_EXECUTION", 1)
      BY <2>1, <2>4 DEF ModeLeg
    <3> QED
      BY <1>0, <2>3, <2>4, <3>1 DEF WakeSteps
  <2>5. CASE p = "SEND_VERIFY_COMMAND"
    <3>1. Leg(a) = Query(Command("GET_VARIANT"), "WAIT_EXECUTION", 2)
      BY <2>1, <2>5 DEF ModeLeg
    <3> QED
      BY <1>0, <2>3, <2>5, <3>1 DEF WakeSteps
  <2>6. CASE p = "SEND_COMMAND"
    <3>1. Leg(a) = Order(Command(a.kind.op), a.kind.op = "WAKE_UP", "WAIT_EXECUTION",
                         ExecutionWait(a.kind), 0)
      BY <2>1, <2>6 DEF ModeLeg
    <3> QED
      BY <1>0, <1>6, <2>2, <3>1 DEF CommandSteps, WakeSteps, ModeOps
  <2> QED
    BY <2>3, <2>4, <2>5, <2>6
<1>7. CASE a.kind.op \in ReadOps
  <2>1. Leg(a) = ReadLeg(a)
    BY <1>7, LegCases
  <2>2. Reachable(a.kind) \in {IdentitySteps, ConfigurationSteps, ReadSteps}
    BY <1>7, ReachableCases DEF ReadOps
  <2>3. \/ p = "SEND_COMMAND" /\ <<"WAIT_EXECUTION", i>> \in Reachable(a.kind)
        \/ /\ p = "SEND_VERIFY_COMMAND" /\ i = 1
           /\ Reachable(a.kind) = IdentitySteps
    BY <2>2 DEF Standing, IdentitySteps, ConfigurationSteps, ReadSteps
  <2>4. ReadCommand(a).name # "SET"
    BY DEF ReadCommand, GetCommand
  <2> QED
    BY <1>0, <2>1, <2>3, <2>4 DEF ReadLeg, IdentitySteps, Standing
<1> QED
  BY <1>1, <1>2, <1>3, <1>4, <1>5, <1>6, <1>7, OpCases DEF Standing

\* PhaseAfterExecution, class by class.
LEMMA AfterExecutionCases ==
  ASSUME NEW a
  PROVE  /\ a.kind.op = "ATTACH" => PhaseAfterExecution(a) =
              IF a.index = 0 THEN "READ_RESPONSE" ELSE "READ_VERIFY_RESPONSE"
         /\ a.kind.op \in ReadOps => PhaseAfterExecution(a) =
              IF a.kind.op = "READ_IDENTITY" /\ a.index = 1
              THEN "READ_VERIFY_RESPONSE" ELSE "READ_RESPONSE"
         /\ a.kind.op = "SET_SETTING" => PhaseAfterExecution(a) =
              IF a.index = 2 THEN "SEND_COMMAND" ELSE "READ_RESPONSE"
         /\ a.kind.op = "WAKE_UP" => PhaseAfterExecution(a) =
              <<"SEND_READ_COMMAND", "READ_RESPONSE",
                "READ_VERIFY_RESPONSE">>[a.index + 1]
         /\ a.kind.op \in SingleShotOps => PhaseAfterExecution(a) = "SEND_READY_COMMAND"
         /\ a.kind.op \in {"SELF_TEST", "FORCED_RECALIBRATION"}
              => PhaseAfterExecution(a) = "READ_DEFERRED_RESULT"
         /\ a.kind.op \in ResetOps => PhaseAfterExecution(a) = "SEND_VERIFY_COMMAND"
         /\ a.kind.op \in DiagnosticOps => PhaseAfterExecution(a) = "READ_RESPONSE"
  BY DEF PhaseAfterExecution, ReadOps, SingleShotOps, ResetOps, DiagnosticOps

\* Every wait leads to a phase the operation can be in.
LEMMA PhaseAfterWaitType ==
  ASSUME NEW a, Standing(a), a.phase \in WaitPhases, ~EndsWithWait(a.kind)
  PROVE  /\ PhaseAfterWait(a) \in Phases
         /\ <<PhaseAfterWait(a), a.index>> \in Reachable(a.kind)
<1> DEFINE next == PhaseAfterWait(a)
<1> USE DEF Phases, WaitPhases, SendPhases, ReadPhases
<1>1. CASE a.kind.op = "ATTACH"
  <2>1. Reachable(a.kind) = AttachSteps
    BY <1>1, ReachableCases
  <2>2. CASE a.phase = "WAIT_EXECUTION"
    <3>1. next = IF a.index = 0 THEN "READ_RESPONSE" ELSE "READ_VERIFY_RESPONSE"
      BY <1>1, <2>2, AfterExecutionCases DEF PhaseAfterWait
    <3>2. a.index \in {0, 1}
      BY <2>1, <2>2 DEF Standing, AttachSteps
    <3> QED
      BY <2>1, <3>1, <3>2 DEF AttachSteps
  <2>3. CASE a.phase \in {"WAIT_POWER_UP", "WAIT_WAKE", "WAIT_STOP"}
    <3>1. next \in {"SEND_WAKE", "SEND_STOP", "SEND_READ_COMMAND"}
      BY <2>3 DEF PhaseAfterWait
    <3>2. a.index = 0
      BY <2>1, <2>3 DEF Standing, AttachSteps
    <3> QED
      BY <2>1, <3>1, <3>2 DEF AttachSteps
  <2> QED
    BY <2>2, <2>3
<1>2. CASE a.kind.op # "ATTACH"
  <2>0. a.kind \in Kinds
    BY DEF Standing
  <2>1. a.phase = "WAIT_EXECUTION" /\ next = PhaseAfterExecution(a)
    <3>1. Reachable(a.kind) \in {IdentitySteps, ConfigurationSteps, ReadSteps,
             SettingSteps, WakeSteps, CommandSteps, FetchSteps,
             CommandSteps \cup FetchSteps, ResetSteps, DeferredSteps}
      BY <1>2, <2>0, OpCases, ReachableCases
         DEF ReadOps, MeasurementOps, MaintenanceOps, ResetOps, SingleShotOps
    <3>2. a.phase = "WAIT_EXECUTION"
      BY <3>1 DEF Standing, IdentitySteps, ConfigurationSteps, ReadSteps, SettingSteps,
         WakeSteps, CommandSteps, FetchSteps, ResetSteps, DeferredSteps
    <3> QED
      BY <3>2 DEF PhaseAfterWait
  <2>2. CASE a.kind.op \in ReadOps
    <3>1. next = IF a.kind.op = "READ_IDENTITY" /\ a.index = 1
                 THEN "READ_VERIFY_RESPONSE" ELSE "READ_RESPONSE"
      BY <2>1, <2>2, AfterExecutionCases
    <3>2. \/ a.kind.op = "READ_IDENTITY" /\ Reachable(a.kind) = IdentitySteps
          \/ a.kind.op # "READ_IDENTITY"
               /\ Reachable(a.kind) \in {ConfigurationSteps, ReadSteps}
      BY <2>2, ReachableCases DEF ReadOps
    <3> QED
      BY <2>1, <3>1, <3>2
         DEF Standing, IdentitySteps, ConfigurationSteps, ReadSteps
  <2>3. CASE a.kind.op = "SET_SETTING"
    <3>1. next = IF a.index = 2 THEN "SEND_COMMAND" ELSE "READ_RESPONSE"
      BY <2>1, <2>3, AfterExecutionCases
    <3> QED
      BY <2>1, <2>3, <3>1, ReachableCases DEF Standing, SettingSteps
  <2>4. CASE a.kind.op = "WAKE_UP"
    <3>1. next = <<"SEND_READ_COMMAND", "READ_RESPONSE",
                   "READ_VERIFY_RESPONSE">>[a.index + 1]
      BY <2>1, <2>4, AfterExecutionCases
    <3>2. Reachable(a.kind) = WakeSteps /\ a.index \in {0, 1, 2}
      BY <2>1, <2>4, ReachableCases DEF Standing, WakeSteps
    <3> QED
      BY <3>1, <3>2 DEF WakeSteps
  <2>5. CASE a.kind.op \in MeasurementOps
    <3>1. a.kind.op # "FETCH_SAMPLE"
      BY <2>1, ReachableCases DEF Standing, FetchSteps
    <3>2. next = "SEND_READY_COMMAND"
      BY <2>1, <2>5, <3>1, AfterExecutionCases DEF MeasurementOps
    <3> QED
      BY <2>1, <2>5, <3>1, <3>2, ReachableCases
         DEF Standing, MeasurementOps, FetchSteps, CommandSteps
  <2>6. CASE a.kind.op \in {"SELF_TEST", "FORCED_RECALIBRATION"}
    <3>1. next = "READ_DEFERRED_RESULT"
      BY <2>1, <2>6, AfterExecutionCases
    <3> QED
      BY <2>1, <2>6, <3>1, ReachableCases DEF Standing, DeferredSteps, CommandSteps
  <2>7. CASE a.kind.op \in ResetOps
    <3>1. next = "SEND_VERIFY_COMMAND"
      BY <2>1, <2>7, AfterExecutionCases
    <3> QED
      BY <2>1, <2>7, <3>1, ReachableCases DEF Standing, ResetSteps, CommandSteps
  <2>8. CASE a.kind.op \in DiagnosticOps
    <3>1. next = "READ_RESPONSE"
      BY <2>1, <2>8, AfterExecutionCases
    <3> QED
      BY <2>1, <2>8, <3>1, ReachableCases DEF Standing, ReadSteps
  <2> QED
    BY <1>2, <2>0, <2>2, <2>3, <2>4, <2>5, <2>6, <2>7, <2>8, OpCases
       DEF EndsWithWait, ModeOps, MaintenanceOps, ResetOps
<1> QED
  BY <1>1, <1>2
-----------------------------------------------------------------------------
(* The building blocks of the steps.                                       *)

\* The empty operation and the empty result are of their types.
LEMMA EmptyTypes ==
  /\ NoOperation \in Operations
  /\ NoResult \in OpResults
  /\ NotPolling \in Polls
  /\ \A e \in 0 .. MaxEpoch : Ignorance(e) \in Beliefs
  /\ DefaultConfig \in Configurations
<1>1. NoId \in Ids /\ 0 \in 0 .. MaxEpoch /\ 0 \in 0 .. MaxSequence
  BY DriverAssumption DEF NoId, Ids
<1>2. NoOperation \in Operations
  BY <1>1 DEF NoOperation, Operations, Phases, Effects
<1>3. NoResult \in OpResults
  BY <1>1 DEF NoResult, OpResults, Effects, Outcomes
<1>4. NotPolling \in Polls
  BY DEF NotPolling, Polls, MaxTransitions
<1>5. NoIdentity \in Identities /\ NoSample \in Samples
  BY <1>1 DEF NoIdentity, Identities, NoSample, Samples
<1>6. ASSUME NEW e \in 0 .. MaxEpoch PROVE Ignorance(e) \in Beliefs
  BY <1>1, <1>5 DEF Ignorance, Beliefs
<1>7. DefaultConfig \in Configurations
  BY WaitTypes DEF WaitNames, DefaultConfig, Configurations
<1> QED
  BY <1>2, <1>3, <1>4, <1>6, <1>7

\* An active operation can go on from where it is.
LEMMA ActiveStands ==
  ASSUME SlotOK, activeValid
  PROVE  Standing(active)
  BY DEF SlotOK, Standing, PhasesLegal, Asked, Operations

\* An iteration of the poll loop that leaves the operation active.
LEMMA ProceedStep ==
  ASSUME SlotOK, poll.on,
         NEW a \in Operations, NEW b \in Beliefs, NEW at \in Nat, NEW left \in Nat,
         left <= poll.left, a.kind = active.kind, a.desired = active.desired,
         <<a.phase, a.index>> \in Reachable(a.kind), at < a.deadline,
         Proceed(a, b, at, left)
  PROVE  SlotOK'
<1>1. activeValid
  BY DEF SlotOK, InTime
<1>2. poll' \in Polls
  <2>1. NotPolling \in Polls
    BY DEF NotPolling, Polls, MaxTransitions
  <2>2. ASSUME poll.spins + 1 # MaxTransitions
        PROVE  [on |-> TRUE, left |-> left, at |-> at,
                used |-> poll.used + (poll.left - left),
                spins |-> poll.spins + 1] \in Polls
    <3>1. poll.used \in Nat /\ poll.left \in Nat /\ poll.spins \in 0 .. 31
      BY DEF SlotOK, Polls, MaxTransitions
    <3>2. poll.used + (poll.left - left) \in Nat /\ poll.spins + 1 \in 0 .. 31
      BY <2>2, <3>1 DEF MaxTransitions
    <3> QED
      BY <3>2 DEF Polls, MaxTransitions
  <2> QED
    BY <2>1, <2>2 DEF Proceed
<1>3. poll'.on => poll'.at < active'.deadline
  BY DEF Proceed, NotPolling
<1>4. PhasesLegal' /\ InTime' /\ Asked'
  BY <1>1, <1>3 DEF Proceed, PhasesLegal, InTime, Asked, SlotOK
<1> QED
  BY <1>2, <1>4 DEF Proceed, SlotOK

\* The end of an operation.
LEMMA FinishStep ==
  ASSUME SlotOK, NEW outcome \in Outcomes, NEW effect \in Effects,
         NEW b \in Beliefs, NEW a \in Operations, NEW at,
         FinishOperation(outcome, effect, b, a, at)
  PROVE  SlotOK'
<1>1. belief' \in Beliefs
  BY DEF FinishOperation, Beliefs
<1>2. terminal' \in OpResults
  BY DEF FinishOperation, OpResults, Operations, Beliefs
<1>3. active' \in Operations
  BY EmptyTypes DEF FinishOperation
<1>4. poll' \in Polls
  BY DEF FinishOperation, NotPolling, Polls, MaxTransitions
<1>5. PhasesLegal' /\ InTime' /\ Asked'
  BY DEF FinishOperation, NotPolling, PhasesLegal, InTime, Asked
<1> QED
  BY <1>1, <1>2, <1>3, <1>4, <1>5 DEF FinishOperation, SlotOK

\* The end of an operation that failed.
LEMMA FailureStep ==
  ASSUME SlotOK, NEW status, NEW b \in Beliefs, NEW a \in Operations, NEW last, NEW at,
         FinishOperationFailure(status, b, a, last, at)
  PROVE  SlotOK'
<1> DEFINE expired == status = "TIMEOUT"
           effect == FailureEffect(expired, a, last)
           eepromInDoubt == /\ a.kind.op \in {"PERSIST_SETTINGS", "FACTORY_RESET"}
                            /\ effect = "UNKNOWN" \/ (expired /\ a.attempted)
           outcome == IF a.kind.op = "READ_CONFIGURATION" /\ a.completed # {}
                      THEN "PARTIAL"
                      ELSE IF last = "INDETERMINATE" THEN "INDETERMINATE"
                      ELSE IF expired THEN "TIMED_OUT" ELSE "FAILED"
           known == IF InDoubt(expired, a, last) THEN MarkReconciliationRequired(b) ELSE b
           b2 == [known EXCEPT !.persistenceIndeterminate = @ \/ eepromInDoubt]
<1>1. effect \in Effects
  BY DEF FailureEffect, Effects, Operations
<1>2. outcome \in Outcomes
  BY DEF Outcomes
<1>3. known \in Beliefs
  BY MarkType
<1>4. b2 \in Beliefs
  <2>1. \A p \in BOOLEAN : [known EXCEPT !.persistenceIndeterminate = p] \in Beliefs
    BY <1>3 DEF Beliefs
  <2>2. (known.persistenceIndeterminate \/ eepromInDoubt) \in BOOLEAN
    OBVIOUS
  <2> QED
    BY <2>1, <2>2
<1>5. FinishOperation(outcome, effect, b2, a, at)
  BY DEF FinishOperationFailure
<1> QED
  BY <1>1, <1>2, <1>4, <1>5, FinishStep

\* What an attempt adds to the operation.
LEMMA AttemptedType ==
  ASSUME SlotOK, NEW effectful \in BOOLEAN, NEW r \in Answers
  PROVE  LET a == Attempted(effectful, r)
         IN /\ a \in Operations
            /\ a.kind = active.kind /\ a.desired = active.desired
            /\ a.phase = active.phase /\ a.index = active.index
            /\ a.deadline = active.deadline /\ a.nextDue = active.nextDue
            /\ a.callbacksUsed = active.callbacksUsed + 1
<1> DEFINE begun == effectful /\ r.disposition # "NOT_STARTED"
           used == active.callbacksUsed + 1
           attempted == active.attempted \/ begun
           effect == IF begun /\ active.effect = "NOT_ATTEMPTED" THEN "ATTEMPTED"
                     ELSE active.effect
           Same(a, n) ==
             /\ a \in Operations
             /\ a.kind = active.kind /\ a.desired = active.desired
             /\ a.phase = active.phase /\ a.index = active.index
             /\ a.deadline = active.deadline /\ a.nextDue = active.nextDue
             /\ a.callbacksUsed = n
<1>1. ASSUME NEW n \in Nat, NEW t \in BOOLEAN, NEW e \in Effects
      PROVE  Same([active EXCEPT !.callbacksUsed = n, !.attempted = t, !.effect = e], n)
  BY DEF SlotOK, Operations
<1>2. used \in Nat /\ attempted \in BOOLEAN /\ effect \in Effects
  BY DEF SlotOK, Operations, Effects
<1>3. Attempted(effectful, r) = [active EXCEPT !.callbacksUsed = used,
                                               !.attempted = attempted,
                                               !.effect = effect]
  BY DEF Attempted
<1>4. Same(Attempted(effectful, r), used)
  <2> HIDE DEF Same, used, attempted, effect
  <2> QED
    BY <1>1, <1>2, <1>3, ZenonT(60)
<1> QED
  BY <1>4

\* The driver's clock does not run backwards in an attempt.
LEMMA CompletedType ==
  ASSUME SlotOK, NEW r, NEW dur \in Durations
  PROVE  Completed(r, dur) \in Nat /\ Completed(r, dur) >= poll.at /\ poll.at \in Nat
  BY DriverAssumption DEF SlotOK, Polls, Completed

\* An iteration without the bus.
LEMMA QuietStep ==
  ASSUME BusOK, Quiet
  PROVE  BusOK'
  BY DEF BusOK, Quiet

\* An attempt on the bus.
LEMMA ExchangeStep ==
  ASSUME SlotOK, BusOK, NEW c, Sendable(c), NEW effectful \in BOOLEAN,
         NEW nack \in BOOLEAN, NEW r \in Answers, NEW dur \in Durations, NEW react,
         Exchange(c, effectful, nack, r, dur, react)
  PROVE  BusOK'
<1>1. react.sensor \in Sensors /\ react.took \in BOOLEAN /\ sensor' = react.sensor
  BY ReactionType DEF BusOK, Exchange
<1>2. Completed(r, dur) \in Nat
  BY CompletedType
<1>3. nextSafe' \in Nat
  <2>1. SettleMs["SHORT"] \in Nat /\ FullWait(active) \in Nat
    BY WaitTypes DEF WaitNames
  <2> QED
    BY <1>2, <2>1 DEF Exchange, GateAfter, BusOK
<1>4. health' \in [state : {"UNINIT", "READY", "DEGRADED", "OFFLINE"},
                   failures : 0 .. MaxFailures]
  <2>1. 0 \in 0 .. MaxFailures
        /\ Saturate(health.failures, MaxFailures) \in 0 .. MaxFailures
    BY SaturateType, DriverAssumption DEF BusOK
  <2>2. health' = RecordTransfer(health, r, ExpectedNack(nack, r))
    BY DEF Exchange
  <2> QED
    BY <2>1, <2>2 DEF RecordTransfer, BusOK
<1>5. lastEffectful' \in Dispositions \cup {"NONE"}
  BY DEF Exchange, Answers
<1>6. truth' \in Truths
  <2> DEFINE busy == IF r.disposition = "NOT_STARTED" THEN truth.busy
                     ELSE Completed(r, dur) + IF react.took THEN ExecutionTime(c)
                                              ELSE SettleMs["SHORT"]
             unsaved == IF react.took THEN Unsaved(c, react.sensor) ELSE truth.unsaved
             disturbed == truth.disturbed /\ ~Relearns(nack, r, dur)
             acked == truth.acked \/ (effectful /\ r.disposition = "COMPLETE")
             altered == truth.altered \/ (effectful /\ react.sensor # sensor)
  <2>1. \A n \in Nat, u \in SUBSET PersistableFields, d, k, l \in BOOLEAN :
          [truth EXCEPT !.busy = n, !.unsaved = u, !.disturbed = d, !.acked = k,
                        !.altered = l] \in Truths
    BY DEF BusOK, Truths
  <2>2. unsaved \in SUBSET PersistableFields
    BY DEF Unsaved, BusOK, Truths
  <2>3. ExecutionTime(c) \in Nat /\ SettleMs["SHORT"] \in Nat
    BY WaitTypes DEF WaitNames
  <2>4. busy \in Nat
    BY <1>2, <2>3 DEF BusOK, Truths
  <2>5. disturbed \in BOOLEAN /\ acked \in BOOLEAN /\ altered \in BOOLEAN
    OBVIOUS
  <2>6. truth' =
          [truth EXCEPT !.busy = busy, !.unsaved = unsaved, !.disturbed = disturbed,
                        !.acked = acked, !.altered = altered]
    BY DEF Exchange
  <2> HIDE DEF busy, unsaved, disturbed, acked, altered
  <2> QED
    BY <2>1, <2>2, <2>4, <2>5, <2>6, Zenon
<1> QED
  BY <1>1, <1>3, <1>4, <1>5, <1>6 DEF Exchange, BusOK
-----------------------------------------------------------------------------
(* The steps of the poll loop that leave the bus alone.                    *)

\* What an exchange records of the sensor's true state, field by field.
LEMMA ExchangeTruth ==
  ASSUME truth \in Truths, NEW c, NEW effectful, NEW nack, NEW r, NEW dur, NEW react,
         Exchange(c, effectful, nack, r, dur, react)
  PROVE  /\ sensor' = react.sensor
         /\ truth'.unsaved = IF react.took THEN Unsaved(c, react.sensor) ELSE truth.unsaved
         /\ truth'.disturbed = (truth.disturbed /\ ~Relearns(nack, r, dur))
         /\ truth'.altered = (truth.altered \/ (effectful /\ react.sensor # sensor))
<1> DEFINE busy == IF r.disposition = "NOT_STARTED" THEN truth.busy
                   ELSE Completed(r, dur) + IF react.took THEN ExecutionTime(c)
                                            ELSE SettleMs["SHORT"]
           unsaved == IF react.took THEN Unsaved(c, react.sensor) ELSE truth.unsaved
           disturbed == truth.disturbed /\ ~Relearns(nack, r, dur)
           acked == truth.acked \/ (effectful /\ r.disposition = "COMPLETE")
           altered == truth.altered \/ (effectful /\ react.sensor # sensor)
<1>1. /\ sensor' = react.sensor
      /\ truth' = [truth EXCEPT !.busy = busy, !.unsaved = unsaved,
                                !.disturbed = disturbed, !.acked = acked,
                                !.altered = altered]
  BY DEF Exchange
<1>2. \A n, u, d, k, l :
        LET t == [truth EXCEPT !.busy = n, !.unsaved = u, !.disturbed = d,
                               !.acked = k, !.altered = l]
        IN t.unsaved = u /\ t.disturbed = d /\ t.altered = l
  BY DEF Truths
<1> HIDE DEF busy, unsaved, disturbed, acked, altered
<1>3. truth'.unsaved = unsaved /\ truth'.disturbed = disturbed /\ truth'.altered = altered
  BY <1>1, <1>2
<1> USE DEF unsaved, disturbed, altered
<1> QED BY <1>1, <1>3, Zenon

\* The poll returns and nothing else happens.
LEMMA ReturnStep ==
  ASSUME IInv, PollBreak \/ NotDue \/ BudgetExhausted
  PROVE  IInv'
<1>1. BusOK'
  BY QuietStep DEF IInv, PollBreak, NotDue, BudgetExhausted
<1>2. poll' = NotPolling /\ UNCHANGED <<belief, activeValid, active, terminalValid,
                                         terminal>>
  BY DEF PollBreak, NotDue, BudgetExhausted
<1>3. poll' \in Polls /\ ~poll'.on
  BY <1>2, EmptyTypes DEF NotPolling
<1> QED
  BY <1>1, <1>2, <1>3 DEF IInv, SlotOK, PhasesLegal, InTime, Asked

\* The safety gate puts the phase off.
LEMMA GateStep ==
  ASSUME IInv, GateDefers
  PROVE  IInv'
<1> DEFINE a == [active EXCEPT !.nextDue = nextSafe]
<1>1. BusOK'
  BY QuietStep DEF IInv, GateDefers
<1>2. poll.on /\ activeValid /\ Proceed(a, belief, poll.at, poll.left)
  BY DEF GateDefers, IInv, SlotOK, InTime
<1>3. /\ a \in Operations /\ a.kind = active.kind /\ a.desired = active.desired
      /\ a.phase = active.phase /\ a.index = active.index
      /\ a.deadline = active.deadline
  BY DEF IInv, SlotOK, BusOK, Operations
<1>4. /\ belief \in Beliefs /\ poll.at \in Nat /\ poll.left \in Nat
      /\ poll.at < a.deadline
  BY <1>2, <1>3 DEF IInv, SlotOK, Polls, InTime
<1>5. <<a.phase, a.index>> \in Reachable(a.kind)
  BY <1>2, <1>3, ActiveStands DEF IInv, Standing
<1>6. SlotOK'
  <2> HIDE DEF a
  <2>1. SlotOK /\ poll.left <= poll.left
    BY <1>4 DEF IInv
  <2> QED
    BY <1>2, <1>3, <1>4, <1>5, <2>1, ProceedStep
<1> QED
  BY <1>1, <1>6 DEF IInv

\* A wait is over.
LEMMA WaitOverStep ==
  ASSUME IInv, WaitOver
  PROVE  IInv'
<1> DEFINE a == [active EXCEPT !.phase = PhaseAfterWait(active)]
           b == IF active.kind.op \in ResetOps THEN [belief EXCEPT !.dirty = {}]
                ELSE belief
<1>1. BusOK'
  BY QuietStep DEF IInv, WaitOver
<1>2. poll.on /\ activeValid /\ Proceed(a, b, poll.at, poll.left)
  BY DEF WaitOver, WaitIsOver, Working, IInv, SlotOK, InTime
<1>3. /\ PhaseAfterWait(active) \in Phases
      /\ <<PhaseAfterWait(active), active.index>> \in Reachable(active.kind)
  BY <1>2, ActiveStands, PhaseAfterWaitType DEF WaitOver, WaitIsOver, IInv
<1>4. /\ a \in Operations /\ a.kind = active.kind /\ a.desired = active.desired
      /\ a.phase = PhaseAfterWait(active) /\ a.index = active.index
      /\ a.deadline = active.deadline
  BY <1>3 DEF IInv, SlotOK, Operations
<1>5. /\ b \in Beliefs /\ poll.at \in Nat /\ poll.left \in Nat
      /\ poll.at < a.deadline
  BY <1>2, <1>4 DEF IInv, SlotOK, Polls, InTime, Beliefs
<1>6. SlotOK'
  <2> HIDE DEF a, b
  <2>1. SlotOK /\ poll.left <= poll.left
    BY <1>5 DEF IInv
  <2> QED
    BY <1>2, <1>3, <1>4, <1>5, <2>1, ProceedStep
<1> QED
  BY <1>1, <1>6 DEF IInv

\* A command that ends with its wait leaves the sensor in a mode.
LEMMA ModeAfterType ==
  ASSUME NEW k, k.op \in ModeOps \ {"WAKE_UP"}
  PROVE  ModeAfter(k) \in Modes
<1>1. CASE k.op = "START_PERIODIC"
  BY <1>1 DEF ModeAfter, Modes
<1>2. CASE k.op = "START_LOW_POWER_PERIODIC"
  BY <1>2 DEF ModeAfter, Modes
<1>3. CASE k.op = "STOP_PERIODIC"
  BY <1>3 DEF ModeAfter, Modes
<1>4. CASE k.op = "POWER_DOWN"
  BY <1>4 DEF ModeAfter, Modes
<1> QED
  BY <1>1, <1>2, <1>3, <1>4 DEF ModeOps

\* It does.
LEMMA CommandSettledStep ==
  ASSUME IInv, CommandSettled
  PROVE  IInv'
<1> DEFINE b == IF active.kind.op = "PERSIST_SETTINGS"
                THEN [belief EXCEPT !.dirty = {}, !.persistenceIndeterminate = FALSE]
                ELSE SetMode(belief, ModeAfter(active.kind), "ACKNOWLEDGED")
<1>1. BusOK'
  BY QuietStep DEF IInv, CommandSettled
<1>2. b \in Beliefs
  <2>1. CASE active.kind.op = "PERSIST_SETTINGS"
    BY <2>1 DEF IInv, SlotOK, Beliefs
  <2>2. CASE active.kind.op # "PERSIST_SETTINGS"
    BY <2>2, ModeAfterType, SetModeType DEF CommandSettled, EndsWithWait, IInv, SlotOK
  <2> QED
    BY <2>1, <2>2
<1>3. FinishOperation("SUCCEEDED", "ACKNOWLEDGED", b, active, poll.at)
  BY DEF CommandSettled
<1>4. SlotOK'
  BY <1>2, <1>3, FinishStep DEF IInv, SlotOK, Outcomes, Effects
<1> QED
  BY <1>1, <1>4 DEF IInv

\* PERSIST_SETTINGS ends without writing.
LEMMA PersistShortcutStep ==
  ASSUME IInv, PersistShortcut
  PROVE  IInv'
<1>1. BusOK'
  BY QuietStep DEF IInv, PersistShortcut
<1>2. SlotOK'
  BY FinishStep DEF PersistShortcut, IInv, SlotOK, Outcomes, Effects
<1> QED
  BY <1>1, <1>2 DEF IInv
-----------------------------------------------------------------------------
(* The sending steps.                                                      *)

\* An attempt to send, whatever comes of it.
LEMMA AttemptedLegStep ==
  ASSUME IInv, NEW r \in EffectfulOutcomes \cup PlainOutcomes, NEW dur \in Durations,
         AttemptedLeg(Leg(active), r, dur)
  PROVE  /\ BusOK' /\ r \in Answers
         /\ poll.on /\ activeValid /\ poll.left > 0
         /\ Standing(active) /\ LegOK(active, Leg(active))
<1>1. poll.on /\ activeValid /\ active.phase \in SendPhases
  BY DEF AttemptedLeg, Transferring, Working, IInv, SlotOK, InTime
<1>2. Standing(active) /\ LegOK(active, Leg(active))
  BY <1>1, ActiveStands, LegType DEF IInv
<1>3. r \in Answers
  BY AnswersType
<1>4. PICK react : Exchange(Leg(active).command, Leg(active).effectful,
                            Leg(active).nack, r, dur, react)
  BY DEF AttemptedLeg
<1>5. BusOK'
  BY <1>2, <1>3, <1>4, ExchangeStep DEF LegOK, IInv
<1>6. poll.left > 0
  BY <1>4 DEF Exchange
<1> QED
  BY <1>1, <1>2, <1>3, <1>5, <1>6

\* What a sent command does to the belief.
LEMMA AfterSendType ==
  ASSUME NEW b \in Beliefs, NEW a, NEW leg, NEW r
  PROVE  /\ AfterAttempt(b, a, leg, r) \in Beliefs
         /\ AfterSend(b, a, leg) \in Beliefs
<1>1. AfterAttempt(b, a, leg, r) \in Beliefs
  BY SettingWriteType DEF AfterAttempt
<1> DEFINE known == IF leg.effectful /\ Reconciles(a)
                    THEN MarkReconciliationRequired(b) ELSE b
           doubt == known.persistenceIndeterminate
                      \/ (leg.effectful /\ a.kind.op = "FACTORY_RESET")
<1>2. known \in Beliefs
  BY MarkType
<1>3. \A p \in BOOLEAN : [known EXCEPT !.persistenceIndeterminate = p] \in Beliefs
  BY <1>2 DEF Beliefs
<1>4. doubt \in BOOLEAN
  OBVIOUS
<1>5. AfterSend(b, a, leg) = [known EXCEPT !.persistenceIndeterminate = doubt]
  BY DEF AfterSend
<1> QED
  BY <1>1, <1>3, <1>4, <1>5

\* A command was sent and the operation goes on.
LEMMA SendStep ==
  ASSUME IInv, NEW r \in EffectfulOutcomes \cup PlainOutcomes, NEW dur \in Durations,
         Send(r, dur)
  PROVE  IInv'
<1> DEFINE leg == Leg(active)
           sent == Attempted(leg.effectful, r)
           at == Completed(r, dur)
           effect == EffectAfterSend(sent, leg, r)
           a == [sent EXCEPT !.phase = leg.phase, !.index = leg.index,
                             !.nextDue = at + leg.wait, !.effect = effect]
           b == AfterSend(AfterAttempt(belief, active, leg, r), active, leg)
<1>1. AttemptedLeg(leg, r, dur) /\ TransferStatus(leg.nack, r, dur) = "OK"
      /\ Proceed(a, b, at, poll.left - 1)
  BY DEF Send
<1>2. /\ BusOK' /\ r \in Answers /\ poll.on /\ activeValid /\ poll.left > 0
      /\ Standing(active) /\ LegOK(active, leg)
  BY <1>1, AttemptedLegStep
<1>3. /\ sent \in Operations /\ sent.kind = active.kind
      /\ sent.desired = active.desired /\ sent.deadline = active.deadline
  BY <1>2, AttemptedType DEF IInv, LegOK
<1>4. at \in Nat /\ at < active.deadline
  <2>1. at \in Nat
    BY CompletedType DEF IInv
  <2>2. active.deadline \in Nat
    BY DEF IInv, SlotOK, Operations
  <2>3. ~(at >= active.deadline)
    BY <1>1 DEF TransferStatus
  <2> QED
    BY <2>1, <2>2, <2>3
<1>5. effect \in Effects
  BY <1>3 DEF EffectAfterSend, EffectFromWake, Effects, Operations
<1>6. /\ a \in Operations /\ a.kind = active.kind /\ a.desired = active.desired
      /\ a.phase = leg.phase /\ a.index = leg.index /\ a.deadline = active.deadline
  <2>1. at + leg.wait \in Nat /\ leg.phase \in Phases /\ leg.index \in 0 .. 6
    BY <1>2, <1>4 DEF LegOK
  <2> HIDE DEF leg, sent, at, effect
  <2> QED
    BY <1>3, <1>5, <2>1 DEF Operations
<1>7. b \in Beliefs
  BY AfterSendType DEF IInv, SlotOK
<1>8. SlotOK'
  <2>1. SlotOK /\ poll.left - 1 \in Nat /\ poll.left - 1 <= poll.left
        /\ <<leg.phase, leg.index>> \in Reachable(active.kind)
    BY <1>2 DEF IInv, SlotOK, Polls, LegOK
  <2> HIDE DEF a, b, leg, at
  <2> QED
    BY <1>1, <1>2, <1>4, <1>6, <1>7, <2>1, ProceedStep
<1> QED
  BY <1>2, <1>8 DEF IInv

\* A diagnostic command was sent and the operation ends.
LEMMA SendLastStep ==
  ASSUME IInv, NEW r \in EffectfulOutcomes \cup PlainOutcomes, NEW dur \in Durations,
         SendLast(r, dur)
  PROVE  IInv'
<1> DEFINE leg == Leg(active)
<1>1. AttemptedLeg(leg, r, dur)
  BY DEF SendLast
<1>2. BusOK' /\ r \in Answers /\ LegOK(active, leg)
  BY <1>1, AttemptedLegStep
<1>3. Attempted(leg.effectful, r) \in Operations
  BY <1>2, AttemptedType DEF IInv, LegOK
<1>4. AfterSend(belief, active, leg) \in Beliefs
  BY AfterSendType DEF IInv, SlotOK
<1>5. FinishOperation("SUCCEEDED", "ACKNOWLEDGED", AfterSend(belief, active, leg),
                      Attempted(leg.effectful, r), Completed(r, dur))
  BY DEF SendLast
<1>6. SlotOK'
  BY <1>3, <1>4, <1>5, FinishStep DEF IInv, Outcomes, Effects
<1> QED
  BY <1>2, <1>6 DEF IInv

\* A command was not sent, or too late, and the operation ends.
LEMMA SendFailsStep ==
  ASSUME IInv, NEW r \in EffectfulOutcomes \cup PlainOutcomes, NEW dur \in Durations,
         SendFails(r, dur)
  PROVE  IInv'
<1> DEFINE leg == Leg(active)
<1>1. AttemptedLeg(leg, r, dur)
  BY DEF SendFails
<1>2. BusOK' /\ r \in Answers /\ LegOK(active, leg)
  BY <1>1, AttemptedLegStep
<1>3. Attempted(leg.effectful, r) \in Operations
  BY <1>2, AttemptedType DEF IInv, LegOK
<1>4. AfterAttempt(belief, active, leg, r) \in Beliefs
  BY AfterSendType DEF IInv, SlotOK
<1>5. FinishOperationFailure(TransferStatus(leg.nack, r, dur),
                             AfterAttempt(belief, active, leg, r),
                             Attempted(leg.effectful, r),
                             IF leg.effectful THEN r.disposition ELSE "NONE",
                             Completed(r, dur))
  BY DEF SendFails
<1>6. SlotOK'
  BY <1>3, <1>4, <1>5, FailureStep DEF IInv
<1> QED
  BY <1>2, <1>6 DEF IInv
-----------------------------------------------------------------------------
(* The reading steps.                                                      *)

\* An attempt to read, whatever comes of it.
LEMMA AttemptedReadStep ==
  ASSUME IInv, NEW r \in PlainOutcomes, NEW dur \in Durations, AttemptedRead(r, dur)
  PROVE  /\ BusOK' /\ r \in Answers
         /\ poll.on /\ activeValid /\ poll.left > 0
         /\ Standing(active)
<1>1. poll.on /\ activeValid
  BY DEF AttemptedRead, Transferring, Working, IInv, SlotOK, InTime
<1>2. r \in Answers
  BY AnswersType
<1>3. PICK react : Exchange(ReadWords, FALSE, FALSE, r, dur, react)
  BY DEF AttemptedRead
<1>4. Sendable(ReadWords)
  BY DEF Sendable, ReadWords, Command
<1>5. BusOK'
  BY <1>2, <1>3, <1>4, ExchangeStep DEF IInv
<1>6. poll.left > 0 /\ Standing(active)
  BY <1>1, <1>3, ActiveStands DEF Exchange, IInv
<1> QED
  BY <1>1, <1>2, <1>5, <1>6

\* The transfer of an answer failed.
LEMMA ReadFailsStep ==
  ASSUME IInv, NEW r, NEW dur \in Durations, ReadFails(r, dur)
  PROVE  IInv'
<1>1. r \in PlainOutcomes /\ AttemptedRead(r, dur)
  BY DEF ReadFails, AttemptedRead
<1>2. BusOK' /\ r \in Answers
  BY <1>1, AttemptedReadStep
<1>3. Attempted(FALSE, r) \in Operations
  BY <1>2, AttemptedType DEF IInv
<1>4. SlotOK'
  BY <1>3, FailureStep DEF ReadFails, IInv, SlotOK
<1> QED
  BY <1>2, <1>4 DEF IInv

\* An answer came in time.
LEMMA AnsweredStep ==
  ASSUME IInv, NEW dur \in Durations, Answered(dur)
  PROVE  /\ BusOK'
         /\ poll.on /\ activeValid /\ poll.left > 0 /\ Standing(active)
         /\ poll.at + dur \in Nat /\ poll.at + dur < active.deadline
         /\ Heard \in Operations
         /\ Heard.kind = active.kind /\ Heard.desired = active.desired
         /\ Heard.phase = active.phase /\ Heard.index = active.index
         /\ Heard.deadline = active.deadline
<1>1. Exact \in PlainOutcomes /\ AttemptedRead(Exact, dur)
  BY DEF Answered, AttemptedRead
<1>2. /\ BusOK' /\ Exact \in Answers
      /\ poll.on /\ activeValid /\ poll.left > 0 /\ Standing(active)
  BY <1>1, AttemptedReadStep
<1>3. /\ Heard \in Operations
      /\ Heard.kind = active.kind /\ Heard.desired = active.desired
      /\ Heard.phase = active.phase /\ Heard.index = active.index
      /\ Heard.deadline = active.deadline
  BY <1>2, AttemptedType DEF Heard, IInv
<1>4. Completed(Exact, dur) = poll.at + dur
  BY DEF Completed, Exact
<1>5. poll.at + dur \in Nat
  BY <1>4, CompletedType DEF IInv
<1>6. poll.at + dur < active.deadline
  <2>1. ~(poll.at + dur >= active.deadline)
    BY <1>4 DEF Answered, TransferStatus
  <2> QED
    BY <1>5, <2>1 DEF IInv, SlotOK, Operations
<1> QED
  BY <1>2, <1>3, <1>5, <1>6

\* An answer came and the operation goes on.
LEMMA HeardProceed ==
  ASSUME IInv, NEW dur \in Durations, Answered(dur),
         NEW a \in Operations, NEW b \in Beliefs,
         a.kind = active.kind, a.desired = active.desired,
         a.deadline = active.deadline,
         <<a.phase, a.index>> \in Reachable(active.kind),
         Proceed(a, b, poll.at + dur, poll.left - 1)
  PROVE  IInv'
<1>1. /\ BusOK' /\ poll.on /\ poll.left > 0
      /\ poll.at + dur \in Nat /\ poll.at + dur < active.deadline
  BY AnsweredStep
<1>2. SlotOK /\ poll.left - 1 \in Nat /\ poll.left - 1 <= poll.left
  BY <1>1 DEF IInv, SlotOK, Polls
<1>3. SlotOK'
  BY <1>1, <1>2, ProceedStep
<1> QED
  BY <1>1, <1>3 DEF IInv

\* An answer came and the operation ends.
LEMMA HeardFinish ==
  ASSUME IInv, NEW dur \in Durations, Answered(dur),
         NEW outcome \in Outcomes, NEW effect \in Effects, NEW b \in Beliefs,
         NEW a \in Operations, NEW at, FinishOperation(outcome, effect, b, a, at)
  PROVE  IInv'
  BY AnsweredStep, FinishStep DEF IInv

\* An answer came that ends the operation as a failure.
LEMMA HeardFailure ==
  ASSUME IInv, NEW dur \in Durations, Answered(dur), NEW b \in Beliefs,
         NEW at, FinishOperationFailure("ERROR", b, Heard, "NONE", at)
  PROVE  IInv'
  BY AnsweredStep, FailureStep DEF IInv

\* The serial number has been read.
LEMMA HearSerialStep ==
  ASSUME IInv, NEW dur \in Durations, HearSerial(dur)
  PROVE  IInv'
<1> DEFINE a == [Heard EXCEPT !.serial = sensor.serial, !.index = 1,
                              !.phase = "SEND_VERIFY_COMMAND",
                              !.nextDue = poll.at + dur]
<1>1. Answered(dur) /\ Proceed(a, belief, poll.at + dur, poll.left - 1)
      /\ HearsSerial(active)
  BY DEF HearSerial
<1>2. /\ Heard \in Operations /\ poll.at + dur \in Nat /\ Standing(active)
      /\ Heard.kind = active.kind /\ Heard.desired = active.desired
      /\ Heard.deadline = active.deadline
  BY <1>1, AnsweredStep
<1>3. sensor.serial \in Serials
  BY DEF IInv, BusOK, Sensors
<1>4. /\ a \in Operations /\ a.kind = active.kind /\ a.desired = active.desired
      /\ a.deadline = active.deadline /\ a.index = 1
      /\ a.phase = "SEND_VERIFY_COMMAND"
  <2> DEFINE Moved(s, i, p, n) == [Heard EXCEPT !.serial = s, !.index = i,
                                                !.phase = p, !.nextDue = n]
  <2>1. Heard \in Operations
    BY <1>2
  <2>2. "SEND_VERIFY_COMMAND" \in Phases /\ 1 \in 0 .. 6
    BY DEF Phases, SendPhases
  <2>3. a = Moved(sensor.serial, 1, "SEND_VERIFY_COMMAND", poll.at + dur)
    OBVIOUS
  <2>4. ASSUME NEW s \in Serials, NEW i \in 0 .. 6, NEW p \in Phases, NEW n \in Nat
        PROVE  /\ Moved(s, i, p, n) \in Operations
               /\ Moved(s, i, p, n).kind = Heard.kind
               /\ Moved(s, i, p, n).desired = Heard.desired
               /\ Moved(s, i, p, n).deadline = Heard.deadline
               /\ Moved(s, i, p, n).index = i
               /\ Moved(s, i, p, n).phase = p
    <3> HIDE DEF Heard
    <3> QED
      BY <2>1 DEF Operations
  <2> HIDE DEF a, Moved, Heard
  <2> QED
    BY <1>2, <1>3, <2>2, <2>3, <2>4
<1>5. <<a.phase, a.index>> \in Reachable(active.kind)
  <2>1. Reachable(active.kind) \in {AttachSteps, IdentitySteps, WakeSteps, ResetSteps}
    BY <1>1, ReachableCases DEF HearsSerial
  <2> QED
    BY <1>4, <2>1 DEF AttachSteps, IdentitySteps, WakeSteps, ResetSteps
<1> HIDE DEF a
<1>6. belief \in Beliefs
  BY DEF IInv, SlotOK
<1> QED
  BY <1>1, <1>4, <1>5, <1>6, HeardProceed

\* Only four kinds of operation read the variant to verify an identity.
LEMMA HearsVariantKinds ==
  ASSUME Standing(active), HearsVariant(active)
  PROVE  active.kind.op \in {"ATTACH", "READ_IDENTITY", "WAKE_UP"} \cup ResetOps
<1>1. active.kind \in Kinds /\ active.phase = "READ_VERIFY_RESPONSE"
  BY DEF Standing, HearsVariant
<1>2. SUFFICES ASSUME active.kind.op \notin {"ATTACH", "READ_IDENTITY", "WAKE_UP"}
                                              \cup ResetOps
               PROVE  FALSE
  OBVIOUS
<1>3. Reachable(active.kind) \in {ConfigurationSteps, ReadSteps, SettingSteps,
                                  CommandSteps, FetchSteps,
                                  CommandSteps \cup FetchSteps, DeferredSteps}
  BY <1>1, <1>2, OpCases, ReachableCases
     DEF ReadOps, MeasurementOps, MaintenanceOps, ResetOps
<1> QED
  BY <1>1, <1>3 DEF Standing, ConfigurationSteps, ReadSteps, SettingSteps,
     CommandSteps, FetchSteps, DeferredSteps

\* The identity that two reads put together has its type.
LEMMA IdentityReadType ==
  ASSUME IInv
  PROVE  IdentityRead \in Readings
  BY DEF IInv, SlotOK, BusOK, IdentityRead, Readings, Operations, Sensors

\* The identity is not the one expected.
LEMMA IdentityRefusedStep ==
  ASSUME IInv, NEW dur \in Durations, IdentityRefused(dur)
  PROVE  IInv'
<1>1. Disown(belief, IdentityRead) \in Beliefs
  BY IdentityReadType, IdentityTypes DEF IInv, SlotOK
<1>2. Answered(dur) /\ Heard \in Operations
  BY AnsweredStep DEF IdentityRefused
<1>3. RefusedEffect(active.kind) \in Effects
  BY DEF RefusedEffect, Effects
<1>4. \E outcome \in Outcomes :
        FinishOperation(outcome, RefusedEffect(active.kind),
                        Disown(belief, IdentityRead), Heard, poll.at + dur)
  BY DEF IdentityRefused, Outcomes
<1> QED
  BY <1>1, <1>2, <1>3, <1>4, HeardFinish

\* The identity is confirmed.
LEMMA IdentityConfirmedStep ==
  ASSUME IInv, NEW dur \in Durations, IdentityConfirmed(dur)
  PROVE  IInv'
<1> DEFINE b == CASE active.kind.op = "ATTACH" -> Attached(belief, IdentityRead)
                  [] active.kind.op = "READ_IDENTITY" -> Identify(belief, IdentityRead)
                  [] active.kind.op = "WAKE_UP" -> Reattach(belief, IdentityRead)
                  [] active.kind.op \in ResetOps -> ResetDone(belief, IdentityRead)
<1>1. /\ Answered(dur) /\ HearsVariant(active)
      /\ FinishOperation("SUCCEEDED", ConfirmedEffect(active.kind), b, Heard,
                         poll.at + dur)
  BY DEF IdentityConfirmed
<1>2. Heard \in Operations /\ Standing(active)
  BY <1>1, AnsweredStep
<1>3. b \in Beliefs
  <2>1. /\ Attached(belief, IdentityRead) \in Beliefs
        /\ Identify(belief, IdentityRead) \in Beliefs
        /\ Reattach(belief, IdentityRead) \in Beliefs
        /\ ResetDone(belief, IdentityRead) \in Beliefs
    BY IdentityReadType, IdentityTypes, IdentifyType DEF IInv, SlotOK
  <2>2. CASE active.kind.op = "ATTACH"
    BY <2>1, <2>2
  <2>3. CASE active.kind.op = "READ_IDENTITY"
    BY <2>1, <2>3
  <2>4. CASE active.kind.op = "WAKE_UP"
    BY <2>1, <2>4
  <2>5. CASE active.kind.op \in ResetOps
    BY <2>1, <2>5 DEF ResetOps
  <2> QED
    BY <1>1, <1>2, <2>2, <2>3, <2>4, <2>5, HearsVariantKinds
<1>4. ConfirmedEffect(active.kind) \in Effects /\ "SUCCEEDED" \in Outcomes
  BY DEF ConfirmedEffect, Effects, Outcomes
<1> HIDE DEF b
<1> QED
  BY <1>1, <1>2, <1>3, <1>4, HeardFinish
\* The variant has been read.
LEMMA HearVariantStep ==
  ASSUME IInv, NEW dur \in Durations, HearVariant(dur)
  PROVE  IInv'
<1> DEFINE id == [serial |-> belief.identity.serial, variant |-> sensor.variant]
           b == [belief EXCEPT !.identity.variant = id.variant,
                               !.identity.epoch = belief.epoch]
<1>1. Answered(dur) /\ Heard \in Operations
  BY AnsweredStep DEF HearVariant
<1>2. belief \in Beliefs /\ sensor.variant \in Variants
  BY DEF IInv, SlotOK, BusOK, Sensors
<1>3. VariantChanged(belief, id) \in Beliefs
  BY <1>2, VariantChangedType
<1>4. b \in Beliefs
  <2>1. ASSUME NEW v \in Variants, NEW e \in 0 .. MaxEpoch
        PROVE  [belief EXCEPT !.identity.variant = v, !.identity.epoch = e] \in Beliefs
    BY <1>2 DEF Beliefs, Identities
  <2>2. belief.epoch \in 0 .. MaxEpoch
    BY <1>2 DEF Beliefs
  <2> QED
    BY <1>2, <2>1, <2>2
<1>5. \/ FinishOperation("FAILED", "NONE", VariantChanged(belief, id), Heard,
                         poll.at + dur)
      \/ FinishOperation("SUCCEEDED", "NONE", b, Heard, poll.at + dur)
  BY DEF HearVariant
<1>6. {"FAILED", "SUCCEEDED"} \subseteq Outcomes /\ "NONE" \in Effects
  BY DEF Outcomes, Effects
<1> HIDE DEF b, id
<1> QED
  BY <1>1, <1>3, <1>4, <1>5, <1>6, HeardFinish

\* An answer that only goes into the result.
LEMMA HearAnswerStep ==
  ASSUME IInv, NEW dur \in Durations, NEW verdict \in BOOLEAN,
         HearAnswer(dur, verdict)
  PROVE  IInv'
<1> DEFINE outcome == IF verdict THEN "SUCCEEDED" ELSE "FAILED"
           effect == CASE active.kind.op = "READ_DATA_READY" -> "NONE"
                       [] active.kind.op = "DIAGNOSTIC_READ_WORDS" -> "ACKNOWLEDGED"
                       [] OTHER -> "VERIFIED"
<1>1. Answered(dur) /\ Heard \in Operations
  BY AnsweredStep DEF HearAnswer
<1>2. outcome \in Outcomes /\ effect \in Effects /\ belief \in Beliefs
  BY DEF Outcomes, Effects, IInv, SlotOK
<1>3. FinishOperation(outcome, effect, belief, Heard, poll.at + dur)
  BY DEF HearAnswer
<1> HIDE DEF outcome, effect
<1> QED
  BY <1>1, <1>2, <1>3, HeardFinish

\* The field a reading operation is at is a field.
LEMMA FieldReadType ==
  ASSUME NEW a, Standing(a), a.kind.op \in {"READ_SETTING", "READ_CONFIGURATION"}
  PROVE  FieldRead(a) \in Fields
<1>1. a.kind \in Kinds /\ a.index \in 0 .. 6
  BY DEF Standing
<1>2. \A i \in 0 .. 6 : FieldOrder[i + 1] \in Fields
  BY DEF FieldOrder, Fields
<1> QED
  BY <1>1, <1>2, KindCases DEF FieldRead

\* A setting has been read.
LEMMA HearSettingStep ==
  ASSUME IInv, NEW dur \in Durations, HearInvalidSetting(dur) \/ HearSetting(dur)
  PROVE  IInv'
<1> DEFINE f == FieldRead(active)
           w == sensor.ram[f]
           b == ApplyReadValue(belief, f, w)
           whole == active.kind.op = "READ_CONFIGURATION"
           heard == IF whole THEN [Heard EXCEPT !.completed = @ \cup {f}] ELSE Heard
           a == [heard EXCEPT !.index = @ + 1, !.phase = "SEND_COMMAND",
                              !.nextDue = poll.at + dur]
<1>1. /\ Answered(dur) /\ active.kind.op \in {"READ_SETTING", "READ_CONFIGURATION"}
      /\ active.phase = "READ_RESPONSE"
  BY DEF HearInvalidSetting, HearSetting
<1>2. /\ Heard \in Operations /\ poll.at + dur \in Nat /\ Standing(active)
      /\ Heard.kind = active.kind /\ Heard.desired = active.desired
      /\ Heard.index = active.index /\ Heard.deadline = active.deadline
  BY <1>1, AnsweredStep
<1>3. belief \in Beliefs /\ f \in Fields /\ w \in AnyWord
  BY <1>1, <1>2, FieldReadType DEF IInv, SlotOK, BusOK, Sensors
<1>4. b \in Beliefs /\ Unverify(belief, f) \in Beliefs
  BY <1>3, SettingTypes
<1>5. /\ heard \in Operations /\ heard.kind = active.kind
      /\ heard.desired = active.desired /\ heard.index = active.index
      /\ heard.deadline = active.deadline
  <2>1. ASSUME NEW h \in Operations, NEW g \in Fields
        PROVE  LET h2 == [h EXCEPT !.completed = @ \cup {g}]
               IN /\ h2 \in Operations /\ h2.kind = h.kind /\ h2.desired = h.desired
                  /\ h2.index = h.index /\ h2.deadline = h.deadline
    BY DEF Operations
  <2> HIDE DEF Heard, f
  <2> QED
    BY <1>2, <1>3, <2>1
<1>6. CASE HearInvalidSetting(dur)
  <2>1. FinishOperationFailure("ERROR", Unverify(belief, f), Heard, "NONE",
                               poll.at + dur)
    BY <1>6 DEF HearInvalidSetting
  <2> HIDE DEF f
  <2> QED
    BY <1>1, <1>4, <2>1, HeardFailure
<1>7. CASE HearSetting(dur)
  <2>1. CASE whole /\ active.index < LastFieldIndex
    <3>1. Proceed(a, b, poll.at + dur, poll.left - 1)
      BY <1>7, <2>1 DEF HearSetting
    <3>2. active.index \in 0 .. 6 /\ active.index < 6
      BY <1>2, <2>1 DEF Standing, LastFieldIndex
    <3>3. /\ a \in Operations /\ a.kind = active.kind /\ a.desired = active.desired
          /\ a.deadline = active.deadline /\ a.index = active.index + 1
          /\ a.phase = "SEND_COMMAND"
      <4> DEFINE Moved(h, i, p, n) == [h EXCEPT !.index = i, !.phase = p,
                                                !.nextDue = n]
      <4>1. ASSUME NEW h \in Operations, NEW i \in 0 .. 6, NEW p \in Phases,
                   NEW n \in Nat
            PROVE  /\ Moved(h, i, p, n) \in Operations
                   /\ Moved(h, i, p, n).kind = h.kind
                   /\ Moved(h, i, p, n).desired = h.desired
                   /\ Moved(h, i, p, n).deadline = h.deadline
                   /\ Moved(h, i, p, n).index = i
                   /\ Moved(h, i, p, n).phase = p
        BY DEF Operations
      <4>2. "SEND_COMMAND" \in Phases /\ heard.index + 1 \in 0 .. 6
        BY <1>5, <3>2 DEF Phases, SendPhases
      <4> DEFINE due == poll.at + dur
                 next == heard.index + 1
      <4>3. a = Moved(heard, next, "SEND_COMMAND", due) /\ due \in Nat
        BY <1>2
      <4>4. next = active.index + 1 /\ next \in 0 .. 6
        BY <1>5, <4>2
      <4> HIDE DEF a, Moved, heard, due, next
      <4> QED
        BY <1>5, <4>1, <4>2, <4>3, <4>4
    <3>4. <<a.phase, a.index>> \in Reachable(active.kind)
      <4>1. Reachable(active.kind) = ConfigurationSteps
        BY <2>1, ReachableCases
      <4>2. active.index + 1 \in 0 .. 6
        BY <3>2
      <4> HIDE DEF a
      <4> QED
        BY <3>3, <4>1, <4>2 DEF ConfigurationSteps
    <3> HIDE DEF a, b
    <3> QED
      BY <1>1, <1>4, <3>1, <3>3, <3>4, HeardProceed
  <2>2. CASE ~(whole /\ active.index < LastFieldIndex)
    <3>1. FinishOperation("SUCCEEDED", "NONE", b, heard, poll.at + dur)
      BY <1>7, <2>2 DEF HearSetting
    <3>2. "SUCCEEDED" \in Outcomes /\ "NONE" \in Effects
      BY DEF Outcomes, Effects
    <3> HIDE DEF heard, b
    <3> QED
      BY <1>1, <1>4, <1>5, <3>1, <3>2, HeardFinish
  <2> QED
    BY <2>1, <2>2
<1> QED
  BY <1>6, <1>7

\* The word before a setting write has been read.
LEMMA HearPresentSettingStep ==
  ASSUME IInv, NEW dur \in Durations, HearPresentSetting(dur)
  PROVE  IInv'
<1> DEFINE f == active.kind.field
           word == sensor.ram[f]
           valid == ValidReturnedSetting(f, word)
           b == IF valid THEN ApplyReadValue(belief, f, word) ELSE Unverify(belief, f)
           changed == word # active.desired
           a == [Heard EXCEPT !.changed = changed, !.index = 1,
                              !.phase = "SEND_COMMAND", !.nextDue = poll.at + dur]
<1>1. Answered(dur) /\ active.kind.op = "SET_SETTING"
  BY DEF HearPresentSetting
<1>2. /\ Heard \in Operations /\ poll.at + dur \in Nat /\ Standing(active)
      /\ Heard.kind = active.kind /\ Heard.desired = active.desired
      /\ Heard.deadline = active.deadline
  BY <1>1, AnsweredStep
<1>3. b \in Beliefs
  <2>1. f \in Fields /\ belief \in Beliefs /\ word \in AnyWord
    BY <1>1, <1>2, KindCases DEF Standing, IInv, SlotOK, BusOK, Sensors
  <2> QED
    BY <2>1, SettingTypes
<1>4. /\ a \in Operations /\ a.kind = active.kind /\ a.desired = active.desired
      /\ a.deadline = active.deadline /\ a.index = 1 /\ a.phase = "SEND_COMMAND"
  <2> DEFINE Moved(c, i, p, n) == [Heard EXCEPT !.changed = c, !.index = i,
                                                !.phase = p, !.nextDue = n]
  <2>1. Heard \in Operations
    BY <1>2
  <2>2. changed \in BOOLEAN /\ "SEND_COMMAND" \in Phases /\ 1 \in 0 .. 6
    BY DEF Phases, SendPhases
  <2> HIDE DEF changed
  <2>3. a = Moved(changed, 1, "SEND_COMMAND", poll.at + dur)
    OBVIOUS
  <2>4. ASSUME NEW c \in BOOLEAN, NEW i \in 0 .. 6, NEW p \in Phases, NEW n \in Nat
        PROVE  /\ Moved(c, i, p, n) \in Operations
               /\ Moved(c, i, p, n).kind = Heard.kind
               /\ Moved(c, i, p, n).desired = Heard.desired
               /\ Moved(c, i, p, n).deadline = Heard.deadline
               /\ Moved(c, i, p, n).index = i
               /\ Moved(c, i, p, n).phase = p
    <3> HIDE DEF Heard
    <3> QED
      BY <2>1 DEF Operations
  <2> HIDE DEF a, Moved, Heard
  <2> QED
    BY <1>2, <2>2, <2>3, <2>4
<1>5. <<a.phase, a.index>> \in Reachable(active.kind)
  <2>1. Reachable(active.kind) = SettingSteps
    BY <1>1, ReachableCases
  <2> HIDE DEF a
  <2> QED
    BY <1>4, <2>1 DEF SettingSteps
<1>6. \/ Proceed(a, b, poll.at + dur, poll.left - 1)
      \/ FinishOperation("SUCCEEDED", "VERIFIED", b, Heard, poll.at + dur)
      \/ FinishOperationFailure("ERROR", b, Heard, "NONE", poll.at + dur)
  BY DEF HearPresentSetting
<1>7. "SUCCEEDED" \in Outcomes /\ "VERIFIED" \in Effects
  BY DEF Outcomes, Effects
<1> HIDE DEF a, b
<1> QED
  BY <1>1, <1>2, <1>3, <1>4, <1>5, <1>6, <1>7, HeardProceed, HeardFinish, HeardFailure

\* The word read back after a setting write has been read.
LEMMA HearWrittenSettingStep ==
  ASSUME IInv, NEW dur \in Durations, HearWrittenSetting(dur)
  PROVE  IInv'
<1> DEFINE f == active.kind.field
           word == sensor.ram[f]
           read == ApplyReadValue(belief, f, word)
           b == IF f \in CompensationFields THEN [read EXCEPT !.compensation = f]
                ELSE read
<1>1. Answered(dur) /\ active.kind.op = "SET_SETTING"
  BY DEF HearWrittenSetting
<1>2. Heard \in Operations /\ Standing(active)
  BY <1>1, AnsweredStep
<1>3. read \in Beliefs /\ Unverify(belief, f) \in Beliefs
  <2>1. f \in Fields /\ belief \in Beliefs /\ word \in AnyWord
    BY <1>1, <1>2, KindCases DEF Standing, IInv, SlotOK, BusOK, Sensors
  <2> QED
    BY <2>1, SettingTypes
<1>4. b \in Beliefs
  <2>1. ASSUME NEW b2 \in Beliefs, NEW g \in CompensationFields
        PROVE  [b2 EXCEPT !.compensation = g] \in Beliefs
    BY DEF Beliefs
  <2> QED
    BY <1>3, <2>1
<1>5. \/ FinishOperation("FAILED", "ACKNOWLEDGED", Unverify(belief, f), Heard,
                         poll.at + dur)
      \/ FinishOperation("FAILED", "VERIFIED", read, Heard, poll.at + dur)
      \/ FinishOperation("SUCCEEDED", "VERIFIED", b, Heard, poll.at + dur)
  <2>1. CASE ~ValidReturnedSetting(f, word)
    BY <2>1 DEF HearWrittenSetting
  <2>2. CASE ValidReturnedSetting(f, word) /\ word # active.desired
    BY <2>2 DEF HearWrittenSetting
  <2>3. CASE ValidReturnedSetting(f, word) /\ word = active.desired
    BY <2>3 DEF HearWrittenSetting
  <2> QED
    BY <2>1, <2>2, <2>3
<1>6. {"FAILED", "SUCCEEDED"} \subseteq Outcomes
      /\ {"ACKNOWLEDGED", "VERIFIED"} \subseteq Effects
  BY DEF Outcomes, Effects
<1> HIDE DEF f, read, b
<1> QED
  BY <1>1, <1>2, <1>3, <1>4, <1>5, <1>6, HeardFinish

\* The data-ready flag has been read.
LEMMA HearReadyStep ==
  ASSUME IInv, NEW dur \in Durations, NEW ready \in BOOLEAN, HearReady(dur, ready)
  PROVE  IInv'
<1> DEFINE a == [Heard EXCEPT !.phase = "SEND_READ_COMMAND"]
<1>1. /\ Answered(dur) /\ active.kind.op \in MeasurementOps
      /\ active.phase = "READ_READY_RESPONSE"
  BY DEF HearReady
<1>2. /\ Heard \in Operations /\ Standing(active)
      /\ Heard.kind = active.kind /\ Heard.desired = active.desired
      /\ Heard.deadline = active.deadline /\ Heard.index = active.index
  BY <1>1, AnsweredStep
<1>3. belief \in Beliefs /\ active.effect \in Effects
  BY DEF IInv, SlotOK, Operations
<1>4. /\ a \in Operations /\ a.kind = active.kind /\ a.desired = active.desired
      /\ a.deadline = active.deadline /\ a.index = active.index
      /\ a.phase = "SEND_READ_COMMAND"
  <2>1. ASSUME NEW h \in Operations
        PROVE  LET h2 == [h EXCEPT !.phase = "SEND_READ_COMMAND"]
               IN /\ h2 \in Operations /\ h2.kind = h.kind /\ h2.desired = h.desired
                  /\ h2.deadline = h.deadline /\ h2.index = h.index
                  /\ h2.phase = "SEND_READ_COMMAND"
    BY DEF Operations, Phases, SendPhases
  <2> HIDE DEF Heard
  <2> QED
    BY <1>2, <2>1
<1>5. <<a.phase, a.index>> \in Reachable(active.kind)
  <2>1. Reachable(active.kind) \in {FetchSteps, CommandSteps \cup FetchSteps}
    BY <1>1, ReachableCases DEF MeasurementOps
  <2>2. active.index = 0
    BY <1>1, <1>2, <2>1 DEF Standing, FetchSteps, CommandSteps
  <2> HIDE DEF a
  <2> QED
    BY <1>4, <2>1, <2>2 DEF FetchSteps
<1>6. \/ Proceed(a, belief, poll.at + dur, poll.left - 1)
      \/ FinishOperation("NO_DATA", active.effect, belief, Heard, poll.at + dur)
  BY DEF HearReady
<1>7. "NO_DATA" \in Outcomes
  BY DEF Outcomes
<1> HIDE DEF a
<1> QED
  BY <1>1, <1>2, <1>3, <1>4, <1>5, <1>6, <1>7, HeardProceed, HeardFinish

\* A sample has been read.
LEMMA HearSampleStep ==
  ASSUME IInv, NEW dur \in Durations, HearSample(dur)
  PROVE  IInv'
<1> DEFINE effect == IF active.kind.op = "FETCH_SAMPLE" THEN "NONE" ELSE "VERIFIED"
<1>1. /\ Answered(dur)
      /\ FinishOperation("SUCCEEDED", effect, StoreSample(belief), Heard, poll.at + dur)
  BY DEF HearSample
<1>2. Heard \in Operations
  BY <1>1, AnsweredStep
<1>3. /\ StoreSample(belief) \in Beliefs /\ effect \in Effects
      /\ "SUCCEEDED" \in Outcomes
  BY StoreSampleType DEF IInv, SlotOK, Effects, Outcomes
<1> HIDE DEF effect
<1> QED
  BY <1>1, <1>2, <1>3, HeardFinish
-----------------------------------------------------------------------------
(* The calls of the owner.                                                 *)

\* Time passes down to nought.
LEMMA ElapseType ==
  ASSUME NEW t \in Nat, NEW d \in Nat
  PROVE  Elapse(t, d) \in Nat
  BY DEF Elapse

\* The clock of the owner moves.
LEMMA PassStep ==
  ASSUME BusOK, NEW d \in Nat, Pass(d)
  PROVE  nextSafe' \in Nat /\ truth' \in Truths
<1>1. nextSafe \in Nat /\ truth.busy \in Nat
  BY DEF BusOK, Truths
<1>2. Elapse(nextSafe, d) \in Nat /\ Elapse(truth.busy, d) \in Nat
  BY <1>1, ElapseType
<1>3. \A n \in Nat : [truth EXCEPT !.busy = n] \in Truths
  BY DEF BusOK, Truths
<1> QED
  BY <1>2, <1>3 DEF Pass

\* begin().
LEMMA BeginStep ==
  ASSUME IInv, NEW c \in Configs, Begin(c)
  PROVE  IInv'
<1>1. belief' \in Beliefs
  BY EmptyTypes DEF Begin, IInv, SlotOK, Beliefs
<1>2. truth' \in Truths
  BY DEF Begin, IInv, BusOK, Truths
<1>3. BusOK'
  BY <1>2, DriverAssumption DEF Begin, IInv, BusOK, Dispositions
<1>4. SlotOK'
  BY <1>1, EmptyTypes DEF Begin, IInv, SlotOK, PhasesLegal, InTime, Asked
<1> QED
  BY <1>3, <1>4 DEF IInv

\* What end() leaves is a belief.
LEMMA UnbindType ==
  ASSUME NEW b \in Beliefs
  PROVE  Unbind(b) \in Beliefs
<1>1. NoSample \in Samples
  BY DriverAssumption DEF NoSample, Samples
<1>2. [b EXCEPT !.identity.valid = FALSE] \in Beliefs
  BY DEF Beliefs, Identities
<1> QED
  BY <1>1, <1>2 DEF Unbind, Beliefs, Identities

\* end().
LEMMA EndStep ==
  ASSUME IInv, End
  PROVE  IInv'
<1> DEFINE marked == IF active.callbacksUsed > 0
                     THEN MarkReconciliationRequired(belief) ELSE belief
           eeprom == /\ active.kind.op \in {"PERSIST_SETTINGS", "FACTORY_RESET"}
                     /\ active.attempted
           doubt == marked.persistenceIndeterminate \/ eeprom
           dirty == IF ReloadSettled(active, 0) THEN {} ELSE marked.dirty
           cancelled == [marked EXCEPT !.persistenceIndeterminate = doubt,
                                       !.dirty = dirty]
<1>1. belief \in Beliefs /\ active \in Operations
  BY DEF IInv, SlotOK
<1>2. cancelled \in Beliefs
  <2>1. marked \in Beliefs
    BY <1>1, MarkType
  <2>2. doubt \in BOOLEAN /\ dirty \in SUBSET PersistableFields
    BY <2>1 DEF Beliefs
  <2>3. \A m \in Beliefs, p \in BOOLEAN, d \in SUBSET PersistableFields :
          [m EXCEPT !.persistenceIndeterminate = p, !.dirty = d] \in Beliefs
    BY DEF Beliefs
  <2> HIDE DEF marked, doubt, dirty
  <2> QED
    BY <2>1, <2>2, <2>3
<1>3. /\ ~poll.on /\ bound' = FALSE /\ config' = DefaultConfig
      /\ health' = [health EXCEPT !.state = "UNINIT"]
      /\ UNCHANGED <<nextGeneration, nextSafe, lastEffectful, poll, sensor, truth>>
  BY DEF End
<1>4. BusOK'
  BY <1>3, EmptyTypes DEF IInv, BusOK
<1>5. CASE activeValid
  <2>1. /\ terminal' = [kind |-> active.kind, id |-> active.id,
                        outcome |-> "CANCELLED", effect |-> active.effect,
                        mode |-> cancelled.mode, epoch |-> cancelled.epoch,
                        reconciliationRequired |-> cancelled.reconciliationRequired,
                        callbacksUsed |-> active.callbacksUsed,
                        completed |-> active.completed, desired |-> active.desired]
        /\ terminalValid' = TRUE /\ activeValid' = FALSE /\ active' = NoOperation
        /\ belief' = Unbind(cancelled)
    BY <1>5 DEF End
  <2> HIDE DEF cancelled
  <2>2. terminal' \in OpResults
    BY <1>1, <1>2, <2>1 DEF OpResults, Operations, Beliefs, Outcomes
  <2>3. SlotOK'
    BY <1>2, <1>3, <2>1, <2>2, UnbindType, EmptyTypes
       DEF IInv, SlotOK, PhasesLegal, InTime, Asked
  <2> QED
    BY <1>4, <2>3 DEF IInv
<1>6. CASE ~activeValid
  <2>1. /\ belief' = Unbind(belief)
        /\ UNCHANGED <<terminal, terminalValid, activeValid, active>>
    BY <1>6 DEF End
  <2>2. SlotOK'
    BY <1>1, <1>3, <1>6, <2>1, UnbindType
       DEF IInv, SlotOK, PhasesLegal, InTime, Asked
  <2> QED
    BY <1>4, <2>2 DEF IInv
<1> QED
  BY <1>5, <1>6

\* takeResult().
LEMMA TakeResultStep ==
  ASSUME IInv, NEW id, TakeResult(id)
  PROVE  IInv'
<1>1. truth' \in Truths
  BY DEF TakeResult, IInv, BusOK, Truths
<1>2. BusOK'
  BY <1>1 DEF TakeResult, IInv, BusOK
<1>3. SlotOK'
  BY EmptyTypes DEF TakeResult, IInv, SlotOK, PhasesLegal, InTime, Asked
<1> QED
  BY <1>2, <1>3 DEF IInv

\* Every operation begins in a phase its step function handles.
LEMMA FirstPhaseType ==
  ASSUME NEW k \in Kinds
  PROVE  FirstPhase(k) \in Phases /\ <<FirstPhase(k), 0>> \in Reachable(k)
<1>1. FirstPhase(k) \in Phases
  BY DEF FirstPhase, Phases, SendPhases, WaitPhases
<1>2. CASE k.op = "ATTACH"
  BY <1>1, <1>2, ReachableCases DEF FirstPhase, AttachSteps
<1>3. CASE k.op = "FETCH_SAMPLE"
  BY <1>1, <1>3, ReachableCases DEF FirstPhase, FetchSteps
<1>4. CASE k.op \notin {"ATTACH", "FETCH_SAMPLE"}
  <2>1. FirstPhase(k) = "SEND_COMMAND"
    BY <1>4 DEF FirstPhase
  <2>2. Reachable(k) \in {IdentitySteps, ConfigurationSteps, ReadSteps, SettingSteps,
                          WakeSteps, CommandSteps, CommandSteps \cup FetchSteps,
                          ResetSteps, DeferredSteps}
    BY <1>4, OpCases, ReachableCases
       DEF ReadOps, MeasurementOps, MaintenanceOps, ResetOps, SingleShotOps
  <2> QED
    BY <1>1, <2>1, <2>2 DEF IdentitySteps, ConfigurationSteps, ReadSteps, SettingSteps,
       WakeSteps, CommandSteps, ResetSteps, DeferredSteps
<1> QED
  BY <1>1, <1>2, <1>3, <1>4

\* start().
LEMMA StartStep ==
  ASSUME IInv, NEW k \in Kinds, NEW id \in RequestIds, NEW deadline \in Nat,
         NEW w \in IF k.op = "SET_SETTING" THEN Words ELSE {NoWord},
         NEW d \in Advances, Start(k, id, w, deadline, d)
  PROVE  IInv'
<1> DEFINE ident == [requestId |-> id, generation |-> nextGeneration]
           due == IF k.op = "ATTACH" THEN config.powerUpDelayMs ELSE 0
           effect == IF IsEffectful(k) THEN "NOT_ATTEMPTED" ELSE "NONE"
           desired == IF k.op = "SET_SETTING" THEN w ELSE NoWord
           Asking(ph, i, n, e, x) ==
             [NoOperation EXCEPT !.kind = k, !.phase = ph, !.deadline = deadline,
                                 !.id = i, !.nextDue = n, !.effect = e, !.desired = x]
<1>1. k \in Kinds /\ d \in Nat /\ deadline \in Nat
  BY DriverAssumption
<1>2. FirstPhase(k) \in Phases /\ <<FirstPhase(k), 0>> \in Reachable(k)
  BY <1>1, FirstPhaseType
<1>3. /\ ident \in Ids /\ due \in Nat /\ effect \in Effects
      /\ desired \in Words \cup {NoWord}
      /\ k.op = "SET_SETTING" => desired \in Words
  BY DriverAssumption DEF Ids, Effects, IInv, BusOK, Configurations
<1>4. active' = Asking(FirstPhase(k), ident, due, effect, desired)
  BY DEF Start
<1>5. ASSUME NEW ph \in Phases, NEW i \in Ids, NEW n \in Nat, NEW e \in Effects,
             NEW x \in Words \cup {NoWord}
      PROVE  /\ Asking(ph, i, n, e, x) \in Operations
             /\ Asking(ph, i, n, e, x).kind = k /\ Asking(ph, i, n, e, x).phase = ph
             /\ Asking(ph, i, n, e, x).index = 0
             /\ Asking(ph, i, n, e, x).desired = x
  BY <1>1, EmptyTypes DEF Operations, NoOperation
<1> HIDE DEF Asking, ident, due, effect, desired
<1>6. /\ active' \in Operations /\ active'.kind = k /\ active'.phase = FirstPhase(k)
      /\ active'.index = 0 /\ active'.desired = desired
  BY <1>2, <1>3, <1>4, <1>5
<1>7. /\ activeValid' = TRUE /\ ~poll.on
      /\ UNCHANGED <<bound, config, belief, terminalValid, terminal, health, poll, sensor>>
  BY DEF Start
<1>8. SlotOK'
  BY <1>1, <1>2, <1>3, <1>6, <1>7 DEF IInv, SlotOK, PhasesLegal, InTime, Asked
<1>9. BusOK'
  <2>1. nextGeneration' \in 1 .. MaxGeneration
    BY DriverAssumption DEF Start, IInv, BusOK
  <2>2. truth' \in Truths
    <3>1. Elapse(truth.busy, d) \in Nat
      BY <1>1, ElapseType DEF IInv, BusOK, Truths
    <3>2. \A n \in Nat : [truth EXCEPT !.busy = n] \in Truths
      BY DEF IInv, BusOK, Truths
    <3> QED
      BY <3>1, <3>2 DEF Start
  <2>3. nextSafe' = 0 /\ lastEffectful' = "NONE"
    BY DEF Start
  <2> QED
    BY <1>7, <2>1, <2>2, <2>3 DEF IInv, BusOK
<1> QED
  BY <1>8, <1>9 DEF IInv

\* cancel().
LEMMA CancelStep ==
  ASSUME IInv, NEW id, NEW d \in Advances, Cancel(id, d)
  PROVE  IInv'
<1> DEFINE effect == IF active.callbacksUsed = 0
                     THEN IF IsEffectful(active.kind) THEN "NOT_ATTEMPTED" ELSE "NONE"
                     ELSE IF active.attempted /\ active.effect = "NOT_ATTEMPTED"
                     THEN "UNKNOWN" ELSE active.effect
           b == IF active.callbacksUsed # 0 /\ active.attempted
                THEN MarkReconciliationRequired(belief) ELSE belief
           eeprom == /\ active.kind.op \in {"PERSIST_SETTINGS", "FACTORY_RESET"}
                     /\ active.attempted
           doubt == b.persistenceIndeterminate \/ eeprom
           known == [b EXCEPT !.persistenceIndeterminate = doubt]
<1>1. FinishOperation("CANCELLED", effect, known, active, d) /\ Pass(d)
      /\ UNCHANGED <<bound, config, nextGeneration, lastEffectful, health, sensor>>
  BY DEF Cancel
<1>2. effect \in Effects /\ active \in Operations /\ "CANCELLED" \in Outcomes
  BY DEF Effects, Outcomes, IInv, SlotOK, Operations
<1>3. known \in Beliefs
  <2>1. b \in Beliefs /\ doubt \in BOOLEAN
    BY MarkType DEF IInv, SlotOK
  <2>2. \A m \in Beliefs, p \in BOOLEAN :
          [m EXCEPT !.persistenceIndeterminate = p] \in Beliefs
    BY DEF Beliefs
  <2> HIDE DEF b, doubt
  <2> QED
    BY <2>1, <2>2
<1>4. SlotOK'
  <2> HIDE DEF effect, known
  <2> QED
    BY <1>1, <1>2, <1>3, FinishStep DEF IInv
<1>5. BusOK'
  <2>1. nextSafe' \in Nat /\ truth' \in Truths
    BY <1>1, PassStep, DriverAssumption DEF IInv
  <2> QED
    BY <1>1, <2>1 DEF IInv, BusOK
<1> QED
  BY <1>4, <1>5 DEF IInv

\* poll() up to its loop.
LEMMA EnterPollStep ==
  ASSUME IInv, NEW budget \in Nat, NEW d \in Advances, EnterPoll(budget, d)
  PROVE  IInv'
<1>1. d \in Nat /\ budget \in Nat
  BY DriverAssumption
<1>2. BusOK'
  <2>1. nextSafe' \in Nat /\ truth' \in Truths
    BY <1>1, PassStep DEF IInv, EnterPoll
  <2> QED
    BY <2>1 DEF EnterPoll, IInv, BusOK
<1>3. CASE activeValid /\ active.deadline > d
  <2>1. /\ active' = Aged(active, d)
        /\ poll' = [NotPolling EXCEPT !.on = TRUE, !.left = budget]
        /\ UNCHANGED <<belief, activeValid, terminal, terminalValid>>
    BY <1>3 DEF EnterPoll
  <2>2. active \in Operations /\ active.nextDue \in Nat /\ active.deadline \in Nat
    BY DEF IInv, SlotOK, Operations
  <2>3. /\ active' \in Operations /\ active'.kind = active.kind
        /\ active'.phase = active.phase /\ active'.index = active.index
        /\ active'.desired = active.desired
        /\ active'.deadline = Elapse(active.deadline, d)
    <3>1. Elapse(active.nextDue, d) \in Nat /\ Elapse(active.deadline, d) \in Nat
      BY <1>1, <2>2, ElapseType
    <3> DEFINE Older(n, m) == [active EXCEPT !.nextDue = n, !.deadline = m]
    <3>2. active' = Older(Elapse(active.nextDue, d), Elapse(active.deadline, d))
      BY <2>1 DEF Aged
    <3>3. ASSUME NEW n \in Nat, NEW m \in Nat
          PROVE  /\ Older(n, m) \in Operations /\ Older(n, m).kind = active.kind
                 /\ Older(n, m).phase = active.phase
                 /\ Older(n, m).index = active.index
                 /\ Older(n, m).desired = active.desired
                 /\ Older(n, m).deadline = m
      BY <2>2 DEF Operations
    <3> HIDE DEF Older
    <3> QED
      BY <3>1, <3>2, <3>3
  <2>4. poll' \in Polls /\ poll'.at = 0
    <3>1. poll' = [on |-> TRUE, left |-> budget, used |-> 0, at |-> 0, spins |-> 0]
      BY <2>1 DEF NotPolling
    <3> QED
      BY <1>1, <3>1 DEF Polls, MaxTransitions
  <2>5. 0 < Elapse(active.deadline, d)
    BY <1>1, <1>3, <2>2 DEF Elapse
  <2>6. SlotOK'
    BY <1>3, <2>1, <2>3, <2>4, <2>5 DEF IInv, SlotOK, PhasesLegal, InTime, Asked
  <2> QED
    BY <1>2, <2>6 DEF IInv
<1>4. CASE activeValid /\ ~(active.deadline > d)
  <2>1. FinishOperationFailure("TIMEOUT", belief, active, lastEffectful, d)
    BY <1>4 DEF EnterPoll
  <2>2. SlotOK'
    BY <2>1, FailureStep DEF IInv, SlotOK
  <2> QED
    BY <1>2, <2>2 DEF IInv
<1>5. CASE ~activeValid
  <2>1. UNCHANGED <<belief, activeValid, active, terminal, terminalValid, poll>>
    BY <1>5 DEF EnterPoll
  <2>2. SlotOK'
    BY <2>1 DEF IInv, SlotOK, PhasesLegal, InTime, Asked
  <2> QED
    BY <1>2, <2>2 DEF IInv
<1> QED
  BY <1>3, <1>4, <1>5
-----------------------------------------------------------------------------
(* The invariant.                                                          *)

\* It holds at first.
LEMMA InitialInvariant ==
  ASSUME Init
  PROVE  IInv
<1>1. belief \in Beliefs
  BY EmptyTypes, DriverAssumption DEF Init
<1>2. SlotOK
  BY <1>1, EmptyTypes DEF Init, SlotOK, PhasesLegal, InTime, Asked, NotPolling
<1>3. BusOK
  <2>1. sensor \in Sensors /\ nextGeneration \in 1 .. MaxGeneration
    BY DriverAssumption DEF Init
  <2>2. /\ health \in [state : {"UNINIT", "READY", "DEGRADED", "OFFLINE"},
                       failures : 0 .. MaxFailures]
        /\ truth \in Truths
    BY DriverAssumption DEF Init, Truths
  <2> QED
    BY <2>1, <2>2, EmptyTypes DEF Init, BusOK
<1> QED
  BY <1>2, <1>3 DEF IInv

\* An iteration of the poll loop keeps it.
LEMMA LoopInvariant ==
  ASSUME IInv, LoopStep
  PROVE  IInv'
<1>1. CASE PollBreak \/ NotDue \/ BudgetExhausted
  BY <1>1, ReturnStep
<1>2. CASE GateDefers \/ WaitOver \/ CommandSettled \/ PersistShortcut
  BY <1>2, GateStep, WaitOverStep, CommandSettledStep, PersistShortcutStep
<1>3. ASSUME NEW dur \in Durations, NEW r \in EffectfulOutcomes \cup PlainOutcomes,
             Send(r, dur) \/ SendLast(r, dur) \/ SendFails(r, dur) \/ ReadFails(r, dur)
      PROVE  IInv'
  BY <1>3, SendStep, SendLastStep, SendFailsStep, ReadFailsStep
<1>4. ASSUME NEW dur \in Durations,
             \/ HearSerial(dur) \/ IdentityRefused(dur) \/ IdentityConfirmed(dur)
             \/ HearVariant(dur) \/ HearInvalidSetting(dur) \/ HearSetting(dur)
             \/ HearPresentSetting(dur) \/ HearWrittenSetting(dur) \/ HearSample(dur)
      PROVE  IInv'
  BY <1>4, HearSerialStep, IdentityRefusedStep, IdentityConfirmedStep, HearVariantStep,
     HearSettingStep, HearPresentSettingStep, HearWrittenSettingStep, HearSampleStep
<1>5. ASSUME NEW dur \in Durations, NEW verdict \in BOOLEAN,
             HearAnswer(dur, verdict) \/ HearReady(dur, verdict)
      PROVE  IInv'
  BY <1>5, HearAnswerStep, HearReadyStep
<1> QED
  BY <1>1, <1>2, <1>3, <1>4, <1>5 DEF LoopStep

\* So do the calls of the owner, and whoever replaces the sensor.
LEMMA OwnerInvariant ==
  ASSUME IInv, OwnerCall \/ \E s2 \in Replacements : Disturb(s2)
  PROVE  IInv'
<1>1. CASE End \/ TakeResult(terminal.id) \/ \E c \in Configs : Begin(c)
  BY <1>1, BeginStep, EndStep, TakeResultStep
<1>2. ASSUME NEW d \in Advances, NEW k \in UsedKinds, NEW id \in RequestIds,
             NEW deadline \in Deadlines,
             NEW w \in IF k.op = "SET_SETTING" THEN Words ELSE {NoWord},
             Start(k, id, w, deadline, d)
      PROVE  IInv'
  BY <1>2, StartStep, DriverAssumption
<1>3. ASSUME NEW d \in Advances, Cancel(active.id, d)
      PROVE  IInv'
  BY <1>3, CancelStep
<1>4. ASSUME NEW d \in Advances, NEW budget \in Budgets, EnterPoll(budget, d)
      PROVE  IInv'
  BY <1>4, EnterPollStep, DriverAssumption
<1>5. ASSUME NEW s2 \in Replacements, Disturb(s2)
      PROVE  IInv'
  <2>1. sensor' \in Sensors
    BY <1>5, DriverAssumption DEF Disturb
  <2>2. truth' \in Truths
    BY <1>5 DEF Disturb, IInv, BusOK, Truths
  <2> QED
    BY <1>5, <2>1, <2>2
       DEF Disturb, driverVars, IInv, SlotOK, BusOK, PhasesLegal, InTime, Asked
<1> QED
  BY <1>1, <1>2, <1>3, <1>4, <1>5 DEF OwnerCall

\* The invariant is inductive: it is an invariant of the driver.
THEOREM Invariance == Spec => []IInv
<1>1. Init => IInv
  BY InitialInvariant
<1>2. IInv /\ [Next]_vars => IInv'
  <2>1. CASE Next
    BY <2>1, LoopInvariant, OwnerInvariant DEF Next
  <2>2. CASE UNCHANGED vars
    BY <2>2 DEF vars, driverVars, IInv, SlotOK, BusOK, PhasesLegal, InTime, Asked
  <2> QED
    BY <2>1, <2>2
<1> QED
  BY <1>1, <1>2, PTL DEF Spec

\* Every variable of the driver keeps its type, for any execution times, any
\* sets of words, sensors and requests, and any bound of the counters: every
\* enumeration, counter and flag of the class stays in its range.
THEOREM Typing == Spec => []TypeOK
<1>1. IInv => TypeOK
  BY DEF IInv, SlotOK, BusOK, TypeOK
<1> QED
  BY <1>1, Invariance, PTL

\* No operation is ever in a phase its step function does not handle: the
\* default branches of _stepAttach ... _stepDiagnostic are dead code.
THEOREM PhasesAreLegal == Spec => []PhasesLegal
<1>1. IInv => PhasesLegal
  BY DEF IInv, SlotOK
<1> QED
  BY <1>1, Invariance, PTL

\* The poll loop does nothing for an operation whose deadline has passed,
\* however long the transfers before took.
THEOREM NothingAfterTime == Spec => []InTime
<1>1. IInv => InTime
  BY DEF IInv, SlotOK
<1> QED
  BY <1>1, Invariance, PTL
=============================================================================
