------------------------------ MODULE MCDriver ------------------------------
(***************************************************************************)
(* Small instances of the driver for TLC.  One tick is the short settle    *)
(* time, waking and reloading take two, everything longer four: the gate   *)
(* must tell them apart, and a long wait must be able to outlast the short *)
(* one and the power-up delay of a new ATTACH together.  Each set of kinds *)
(* is one question about the driver.                                       *)
(***************************************************************************)
EXTENDS SCD41Properties

CONSTANTS w0, w1, wBad, wNone, s1, s2, sNone

MCSettle == [n \in WaitNames |-> IF n = "SHORT" THEN 1
                                  ELSE IF n \in {"POWER_UP", "REINIT"} THEN 2 ELSE 4]

\* A sensor as delivered; one that holds a word no setting can have.
Factory == [mode |-> "IDLE", ram |-> [f \in Fields |-> w0],
            rom |-> [f \in Fields |-> w0], source |-> "SENSOR_ALTITUDE",
            serial |-> s1, variant |-> "SCD41"]
InMode(m) == [Factory EXCEPT !.mode = m]
Holding(f, w) == [Factory EXCEPT !.ram[f] = w]
Other(serial, variant) == [Factory EXCEPT !.serial = serial, !.variant = variant]

Bound(strict, threshold) == [powerUpDelayMs |-> 2, strictVariantCheck |-> strict,
                             offlineThreshold |-> threshold]
Lax == {Bound(FALSE, 0)}
Strict == {Bound(TRUE, 0)}
LaxOrStrict == Lax \cup Strict
Watchful == {Bound(FALSE, 2)}

Delivered == {Factory}
Doubtful == {Factory, Holding("SENSOR_ALTITUDE", wBad)}
PowerCycled == {InMode("IDLE"), InMode("POWER_DOWN")}
AnyMode == {InMode(m) : m \in Modes}
Twins == {Factory, Other(s2, "SCD41"), Other(s2, "SCD40"), Other(s1, "SCD40")}

SettingKinds == {Kind(op) : op \in {"ATTACH"} \cup MaintenanceOps}
                  \cup {SetSetting("SENSOR_ALTITUDE")}
SourceKinds == {Kind("ATTACH"), SetSetting("SENSOR_ALTITUDE"),
                SetSetting("AMBIENT_PRESSURE"), ReadSetting("SENSOR_ALTITUDE")}
ModeKinds == {Kind(op) : op \in {"ATTACH", "READ_DATA_READY"} \cup ModeOps
                                  \cup MeasurementOps}
IdentityKinds == {Kind(op) : op \in {"ATTACH", "READ_IDENTITY", "REINIT",
                                     "READ_SENSOR_VARIANT", "WAKE_UP",
                                     "SINGLE_SHOT"}}
InspectKinds == {Kind(op) : op \in {"ATTACH", "READ_CONFIGURATION"} \cup DiagnosticOps}
RequestKinds == {Kind("ATTACH"), Kind("READ_DATA_READY"), Kind("STOP_PERIODIC"),
                 Kind("START_PERIODIC")}
=============================================================================
