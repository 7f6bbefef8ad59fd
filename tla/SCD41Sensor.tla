---------------------------- MODULE SCD41Sensor ----------------------------
(***************************************************************************)
(* The physical SCD4x sensor, as the driver's test model and protocol      *)
(* reference use it: an operating mode, the runtime value of every         *)
(* setting, the EEPROM copy, the selected pressure source and an identity. *)
(* The sensor is not code of this repository; it is here so that what the  *)
(* driver believes can be compared with what is true.                      *)
(***************************************************************************)
EXTENDS SCD41Kinds

CONSTANTS Words,        \* setting words that are valid for every field
          DefaultWord,  \* the factory value of every field
          BadWord,      \* a word no ranged field may hold
          NoWord,       \* no word
          Serials, Variants, NoSerial

ASSUME WordAssumption == /\ DefaultWord \in Words
                         /\ BadWord \notin Words
                         /\ NoWord \notin Words \cup {BadWord}

Modes == {"IDLE", "PERIODIC", "LOW_POWER_PERIODIC", "POWER_DOWN"}
AnyWord == Words \cup {BadWord}

Sensors == [mode : Modes, ram : [Fields -> AnyWord], rom : [Fields -> AnyWord],
            source : CompensationFields, serial : Serials, variant : Variants]

Command(name) == [name |-> name, field |-> NoField, word |-> NoWord]
GetCommand(f) == [name |-> "GET", field |-> f, word |-> NoWord]
ReadWords == Command("READ_WORDS")
SetCommand(f, w) == [name |-> "SET", field |-> f, word |-> w]

\* Commands the sensor acts on in its present mode; it ignores the others.
Accepts(s, c) ==
  CASE s.mode = "POWER_DOWN" -> c.name = "WAKE_UP"
    [] s.mode \in {"PERIODIC", "LOW_POWER_PERIODIC"} ->
         \/ c.name \in {"STOP_PERIODIC", "GET_DATA_READY", "READ_MEASUREMENT",
                        "READ_WORDS"}
         \/ c.field = "AMBIENT_PRESSURE"
    [] OTHER -> TRUE

\* The states the sensor can be in after executing a command.  A new word can
\* be acknowledged and yet not be taken over; a diagnostic command can do
\* anything to the mode and to one setting.
After(s, c) ==
  CASE c.name \in {"WAKE_UP", "STOP_PERIODIC"} -> {[s EXCEPT !.mode = "IDLE"]}
    [] c.name = "START_PERIODIC" -> {[s EXCEPT !.mode = "PERIODIC"]}
    [] c.name = "START_LOW_POWER_PERIODIC" ->
         {[s EXCEPT !.mode = "LOW_POWER_PERIODIC"]}
    [] c.name = "POWER_DOWN" -> {[s EXCEPT !.mode = "POWER_DOWN"]}
    [] c.name = "SET" ->
         {[s EXCEPT !.ram[c.field] = c.word,
                    !.source = IF c.field \in CompensationFields
                               THEN c.field ELSE @]}
           \cup (IF s.ram[c.field] = c.word THEN {} ELSE {s})
    [] c.name = "PERSIST_SETTINGS" ->
         {[s EXCEPT !.rom = [f \in Fields |-> IF f \in PersistableFields
                                              THEN s.ram[f] ELSE s.rom[f]]]}
    [] c.name = "REINIT" ->
         {[s EXCEPT !.mode = "IDLE", !.ram = s.rom,
                    !.source = "SENSOR_ALTITUDE"]}
    [] c.name = "FACTORY_RESET" ->
         {[s EXCEPT !.mode = "IDLE", !.source = "SENSOR_ALTITUDE",
                    !.ram = [f \in Fields |-> DefaultWord],
                    !.rom = [f \in Fields |-> DefaultWord]]}
    [] c.name = "DIAGNOSTIC" ->
         {s} \cup {[s EXCEPT !.mode = m] : m \in Modes}
             \cup {[s EXCEPT !.ram["SENSOR_ALTITUDE"] = w] : w \in Words}
    [] OTHER -> {s}

\* How long the sensor is busy with a command.
ExecutionTime(c) ==
  SettleMs[CASE c.name = "WAKE_UP"              -> "POWER_UP"
             [] c.name \in WaitNames            -> c.name
             [] c.name = "FORCED_RECALIBRATION" -> "FRC"
             [] c.name = "SINGLE_SHOT_RHT_ONLY" -> "SINGLE_SHOT_RHT"
             [] c.name = "PERSIST_SETTINGS"     -> "PERSIST"
             [] OTHER                           -> "SHORT"]

\* What can really have happened to a command whose transfer was reported as
\* outcome r: whether the sensor took it, and the sensor afterwards.  The
\* disposition is the adapter's promise; the wake command is the exception,
\* the sensor wakes without acknowledging it.
Reactions(s, c, r) ==
  LET mayTake == /\ Accepts(s, c)
                 /\ \/ r.disposition \in {"COMPLETE", "INDETERMINATE"}
                    \/ /\ c.name = "WAKE_UP"
                       /\ r.code = "NACK"
                       /\ r.disposition = "NO_EFFECT"
      taken == IF mayTake THEN {[took |-> TRUE, sensor |-> s2] : s2 \in After(s, c)}
                          ELSE {}
      refused == IF r.disposition = "COMPLETE" THEN {}
                 ELSE {[took |-> FALSE, sensor |-> s]}
  IN taken \cup refused
=============================================================================
