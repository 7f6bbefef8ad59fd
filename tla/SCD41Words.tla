----------------------------- MODULE SCD41Words -----------------------------
(***************************************************************************)
(* The words on the bus: their checksum, and what they stand for.  The     *)
(* other modules take a word for a model value; here it is a number, from  *)
(* the owner's request through the bytes on the bus and back.              *)
(*                                                                         *)
(* The code computes scaled values in 64 bits.  65535 and 175000 (100000)  *)
(* share the factor five, and whole multiples of the divisor are split     *)
(* off, so that no number here leaves the 32 bits of TLC; the quotient is  *)
(* the same.                                                               *)
(***************************************************************************)
EXTENDS SCD41Kinds, Integers

WordValues == 0 .. 2 ^ 16 - 1

\* A byte or a word as the set of the places of its ones.
Bits(n, width) == {e \in 0 .. width - 1 : (n \div 2 ^ e) % 2 = 1}
\* The number that a byte stands for.
Number(byte) ==
  LET below[e \in 0 .. 8] ==
        IF e = 0 THEN 0 ELSE below[e - 1] + IF e - 1 \in byte THEN 2 ^ (e - 1) ELSE 0
  IN below[8]
Xor(p, q) == (p \ q) \cup (q \ p)
-----------------------------------------------------------------------------
(* CRC-8.                                                                  *)

CrcPoly == {5, 4, 0}    \* 0x31
CrcInit == 0 .. 7       \* 0xFF

ShiftedLeft(byte) == {e + 1 : e \in byte \ {7}}
CrcShift(crc) == IF 7 \in crc THEN Xor(ShiftedLeft(crc), CrcPoly) ELSE ShiftedLeft(crc)

\* The remainder after the eight bits of one byte.
CrcByte(crc, byte) ==
  LET after[bit \in 0 .. 8] == IF bit = 0 THEN Xor(crc, byte) ELSE CrcShift(after[bit - 1])
  IN after[8]

\* A slip: the second byte of the word is not covered.
CrcFirstByte(bytes) == CrcByte(CrcInit, bytes[1])
\* A slip: the remainder starts at zero.
CrcFromZero(bytes) == CrcByte(CrcByte({}, bytes[1]), bytes[2])
Crc8(bytes) == CrcByte(CrcByte(CrcInit, bytes[1]), bytes[2])

\* A word as it is sent and received: two bytes and their checksum.
Bytes(word) == <<Bits(word \div 256, 8), Bits(word % 256, 8)>>
Frame(word) == Append(Bytes(word), Crc8(Bytes(word)))

AcceptsFrame(frame) == Crc8(frame) = frame[3]
DecodedWord(frame) == 256 * Number(frame[1]) + Number(frame[2])
-----------------------------------------------------------------------------
(* Fixed-point values.                                                     *)

\* Of a full scale of 5 * fifth, the part raw / 65535, to the nearest unit.
Share(raw, fifth) ==
  LET whole == raw \div 13107
  IN whole * fifth + ((raw % 13107) * fifth + 6553) \div 13107

TemperatureMilliC(raw) == Share(raw, 35000) - 45000
HumidityMilliPercent(raw) == Share(raw, 20000)

\* A slip: the word is rounded down.
EncodedOffsetDown(milli) ==
  (milli \div 35000) * 13107 + ((milli % 35000) * 13107) \div 35000
EncodedOffset(milli) ==
  (milli \div 35000) * 13107 + ((milli % 35000) * 13107 + 17500) \div 35000

\* A slip: the quotient is not rounded.
DecodedOffsetDown(raw) ==
  (raw \div 13107) * 35000 + ((raw % 13107) * 35000) \div 13107
DecodedOffset(raw) == Share(raw, 35000)
-----------------------------------------------------------------------------
(* Settings.                                                               *)

MaxAltitude == 3000

\* A slip: a period of any number of hours is admitted.
AdmittedAnyPeriod(f, value) ==
  /\ f = "TEMPERATURE_OFFSET" => value <= 175000
  /\ f = "SENSOR_ALTITUDE"    => value <= MaxAltitude
  /\ f = "AMBIENT_PRESSURE"   => 70000 <= value /\ value <= 120000
  /\ f = "ASC_ENABLED"        => value <= 1
  /\ f = "ASC_TARGET"         => value <= 65535
  /\ f \in PeriodFields       => value <= 65532
\* The values (not negative) that a SET request may carry.
AdmittedValue(f, value) ==
  /\ f = "TEMPERATURE_OFFSET" => value <= 175000
  /\ f = "SENSOR_ALTITUDE"    => value <= MaxAltitude
  /\ f = "AMBIENT_PRESSURE"   => 70000 <= value /\ value <= 120000
  /\ f = "ASC_ENABLED"        => value <= 1
  /\ f = "ASC_TARGET"         => value <= 65535
  /\ f \in PeriodFields       => value <= 65532 /\ value % 4 = 0

\* The word a SET request writes.
EncodedSetting(f, value) ==
  CASE f = "TEMPERATURE_OFFSET" -> EncodedOffset(value)
    [] f = "AMBIENT_PRESSURE"   -> value \div 100
    [] OTHER                    -> value

\* The words that are believed when they are read.
ValidWord(f, word) ==
  /\ f = "SENSOR_ALTITUDE"  => word <= MaxAltitude
  /\ f = "AMBIENT_PRESSURE" => 700 <= word /\ word <= 1200
  /\ f = "ASC_ENABLED"      => word <= 1
  /\ f \in PeriodFields     => word % 4 = 0

\* What the configuration shows for a word.
DecodedSetting(f, word) ==
  CASE f = "TEMPERATURE_OFFSET" -> DecodedOffset(word)
    [] f = "AMBIENT_PRESSURE"   -> 100 * word
    [] OTHER                    -> word
=============================================================================
