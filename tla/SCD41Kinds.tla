----------------------------- MODULE SCD41Kinds -----------------------------
(***************************************************************************)
(* The vocabulary of the SCD41 driver: configuration fields, operation     *)
(* kinds and their classes, the sensor waits and the published limits.     *)
(*                                                                         *)
(* The seven READ_<field> and the seven SET_<field> kinds differ only in   *)
(* the field, so a kind is a record [op, field]; every other kind has the  *)
(* field "NONE", which is what _fieldFor returns for it.                   *)
(***************************************************************************)
EXTENDS Naturals, Sequences

CONSTANT SettleMs    \* the sensor's execution times, a function on WaitNames

WaitNames == {"SHORT", "POWER_UP", "STOP_PERIODIC", "SINGLE_SHOT",
              "SINGLE_SHOT_RHT", "REINIT", "SELF_TEST", "FRC", "PERSIST",
              "FACTORY_RESET"}

ASSUME SettleAssumption == SettleMs \in [WaitNames -> Nat \ {0}]

\* No command needs less time than a plain read or write.
ASSUME ShortAssumption == \A n \in WaitNames : SettleMs["SHORT"] <= SettleMs[n]

\* limits() publishes the power-up time for a reinit: the two are the same.
ASSUME ReinitAssumption == SettleMs["REINIT"] <= SettleMs["POWER_UP"]

\* The order in which READ_CONFIGURATION reads the fields.
FieldOrder == <<"TEMPERATURE_OFFSET", "SENSOR_ALTITUDE", "AMBIENT_PRESSURE",
                "ASC_ENABLED", "ASC_TARGET", "ASC_INITIAL_PERIOD",
                "ASC_STANDARD_PERIOD">>

Fields == {"TEMPERATURE_OFFSET", "SENSOR_ALTITUDE", "AMBIENT_PRESSURE",
           "ASC_ENABLED", "ASC_TARGET", "ASC_INITIAL_PERIOD",
           "ASC_STANDARD_PERIOD"}

NoField == "NONE"

\* Ambient pressure is a runtime override that persist_settings leaves out.
PersistableFields == Fields \ {"AMBIENT_PRESSURE"}

\* Setting one of these also selects the sensor's pressure source.
CompensationFields == {"SENSOR_ALTITUDE", "AMBIENT_PRESSURE"}

\* Fields whose words have a range or step that a response can miss.
RangedFields == Fields \ {"TEMPERATURE_OFFSET", "ASC_TARGET"}

PeriodFields == {"ASC_INITIAL_PERIOD", "ASC_STANDARD_PERIOD"}
-----------------------------------------------------------------------------
Kind(op) == [op |-> op, field |-> NoField]
ReadSetting(f) == [op |-> "READ_SETTING", field |-> f]
SetSetting(f) == [op |-> "SET_SETTING", field |-> f]
NoKind == Kind("NONE")

ReadOps == {"READ_IDENTITY", "READ_SENSOR_VARIANT", "READ_DATA_READY",
            "READ_SETTING", "READ_CONFIGURATION"}
SingleShotOps == {"SINGLE_SHOT", "SINGLE_SHOT_RHT_ONLY"}
MeasurementOps == SingleShotOps \cup {"FETCH_SAMPLE"}
ModeOps == {"START_PERIODIC", "START_LOW_POWER_PERIODIC", "STOP_PERIODIC",
            "POWER_DOWN", "WAKE_UP"}
MaintenanceOps == {"REINIT", "SELF_TEST", "FORCED_RECALIBRATION",
                   "PERSIST_SETTINGS", "FACTORY_RESET"}
DiagnosticOps == {"DIAGNOSTIC_READ_WORDS", "DIAGNOSTIC_WRITE_COMMAND",
                  "DIAGNOSTIC_WRITE_WORD"}
ResetOps == {"REINIT", "FACTORY_RESET"}

PlainOps == {"ATTACH"} \cup (ReadOps \ {"READ_SETTING"}) \cup MeasurementOps
              \cup ModeOps \cup MaintenanceOps \cup DiagnosticOps

Kinds == {Kind(op) : op \in PlainOps}
           \cup {ReadSetting(f) : f \in Fields}
           \cup {SetSetting(f) : f \in Fields}

IsEffectful(k) == k.op \notin ReadOps \cup {"FETCH_SAMPLE"}

PeriodicAllowed(k) ==
  \/ k.op \in {"READ_DATA_READY", "FETCH_SAMPLE", "STOP_PERIODIC"}
  \/ k.field = "AMBIENT_PRESSURE"

\* Kinds that _validateAdmission refuses for a variant other than SCD41/SCD43.
NeedsSingleShotVariant(k) ==
  \/ k.op \in SingleShotOps \cup {"READ_CONFIGURATION", "POWER_DOWN", "WAKE_UP"}
  \/ k.field \in PeriodFields

\* The wait the sensor needs after the effectful command of a kind.
ExecutionWait(k) ==
  SettleMs[CASE k.op = "STOP_PERIODIC"        -> "STOP_PERIODIC"
             [] k.op = "SINGLE_SHOT"          -> "SINGLE_SHOT"
             [] k.op = "SINGLE_SHOT_RHT_ONLY" -> "SINGLE_SHOT_RHT"
             [] k.op = "WAKE_UP"              -> "POWER_UP"
             [] k.op = "REINIT"               -> "REINIT"
             [] k.op = "SELF_TEST"            -> "SELF_TEST"
             [] k.op = "FORCED_RECALIBRATION" -> "FRC"
             [] k.op = "PERSIST_SETTINGS"     -> "PERSIST"
             [] k.op = "FACTORY_RESET"        -> "FACTORY_RESET"
             [] OTHER                         -> "SHORT"]

AttachWait(powerUpDelay) ==
  powerUpDelay + SettleMs["POWER_UP"] + SettleMs["STOP_PERIODIC"] + 3 * SettleMs["SHORT"]

\* A slip: a wait for each of the seven fields, and none between them.
ConfigurationWaitPerField == 7 * SettleMs["SHORT"]
ConfigurationWait == 13 * SettleMs["SHORT"]

\* The published bound on the waits of one operation, after the largest
\* power-up delay.
MaxWaitMs(k, powerUpDelay) ==
  LET short == SettleMs["SHORT"]
  IN CASE k.op = "ATTACH" -> AttachWait(powerUpDelay)
       [] k.op \in {"READ_IDENTITY", "FETCH_SAMPLE"} -> 3 * short
       [] k.op = "SET_SETTING" -> 4 * short
       [] k.op = "READ_CONFIGURATION" -> ConfigurationWait
       [] k.op \in {"WAKE_UP", "REINIT"} -> SettleMs["POWER_UP"] + 3 * short
       [] k.op \in SingleShotOps \cup {"FACTORY_RESET"} -> ExecutionWait(k) + 3 * short
       [] OTHER -> ExecutionWait(k)

\* The published bound on the transport attempts of one operation.
MaxCallbacks(k) ==
  CASE k.op = "ATTACH" -> 6
    [] k.op \in {"READ_DATA_READY", "READ_SENSOR_VARIANT", "READ_SETTING",
                 "SELF_TEST", "FORCED_RECALIBRATION",
                 "DIAGNOSTIC_READ_WORDS"} -> 2
    [] k.op \in {"READ_IDENTITY", "FETCH_SAMPLE"} -> 4
    [] k.op \in SingleShotOps \cup ResetOps
                  \cup {"SET_SETTING", "WAKE_UP"} -> 5
    [] k.op = "READ_CONFIGURATION" -> 14
    [] OTHER -> 1
=============================================================================
