------------------------------- MODULE MCWords -------------------------------
(***************************************************************************)
(* Every word and every value a setting can be asked to have, and words    *)
(* that are damaged on their way.                                          *)
(***************************************************************************)
EXTENDS SCD41Words

CONSTANTS MaxInput,      \* the largest value a request is tried with
          SampleWords    \* words whose frames are damaged

ASSUME InputAssumption == MaxInput \in Nat /\ SampleWords \subseteq WordValues

MCSettle == [n \in WaitNames |-> 1]

VARIABLES input,   \* a word, or the value of a request
          frame    \* the three bytes that arrive; none before they are sent

wordVars == <<input, frame>>

WordsInit == input \in 0 .. MaxInput /\ frame = << >>

Sent == frame # << >>
Intact == Sent /\ frame = Frame(input)

Send == /\ ~Sent /\ input \in WordValues
        /\ frame' = Frame(input)
        /\ UNCHANGED input

\* Damage that a checksum of eight bits can promise to notice: one or two
\* bits, or a burst of at most eight.  Bit 23 is the first on the bus.
FrameBits == 0 .. 23
BurstEnd(first) == IF first + 7 > 23 THEN 23 ELSE first + 7
Bursts == UNION {{{first} \cup rest : rest \in SUBSET (first + 1 .. BurstEnd(first))} :
                   first \in FrameBits}
Pairs == {{a, b} : a, b \in FrameBits}

Flipped(f, bits) ==
  [i \in 1 .. 3 |-> Xor(f[i], {b - 8 * (3 - i) : b \in bits \cap (8 * (3 - i) .. 8 * (3 - i) + 7)})]

Damage == /\ input \in SampleWords /\ Intact
          /\ \E bits \in Pairs \cup Bursts : frame' = Flipped(frame, bits)
          /\ UNCHANGED input

WordsNext == Send \/ Damage
WordsSpec == WordsInit /\ [][WordsNext]_wordVars
-----------------------------------------------------------------------------
(* Polynomials over two elements, as sets of exponents.                    *)

Times(p, n) == {e + n : e \in p}
Generator == {8, 5, 4, 0}

\* The remainder of a polynomial of degree below 24.
Reduced(p, n) == IF n + 8 \in p THEN Xor(p, Times(Generator, n)) ELSE p
Remainder(p) ==
  LET left[n \in 0 .. 16] == IF n = 16 THEN p ELSE Reduced(left[n + 1], n)
  IN left[0]

\* The checksum sent with a word is the remainder that the sensor's protocol
\* names: the word, its first byte inverted, times x^8, modulo the generator
\* polynomial (_crc8 works it out byte by byte in a shift register).
CrcIsTheRemainder ==
  Intact => frame[3] = Remainder(Times(Xor(Bits(input, 16), 8 .. 15), 8))

\* A word that arrives changed is refused (_readWords), whatever was changed;
\* one that arrives as it was sent is accepted and decoded.
DamageNoticed ==
  Sent => IF Intact THEN AcceptsFrame(frame) /\ DecodedWord(frame) = input
          ELSE ~AcceptsFrame(frame)

\* How far a number is from the exact share of full scale, in 13107ths.
ShareError(units, raw, fifth) ==
  (units - (raw \div 13107) * fifth) * 13107 - (raw % 13107) * fifth

\* Published values are the nearest ones: half a unit off at most.
Nearest(units, raw, fifth) ==
  LET twice == 2 * ShareError(units, raw, fifth)
  IN -13107 <= twice /\ twice <= 13107

\* The temperature, humidity and offset that are published for a word are
\* within half a unit of the share of full scale that the word stands for
\* (convertTemperatureMilliC and its like round instead of cutting off).
RoundsToNearest ==
  ~Sent /\ input \in WordValues =>
    /\ Nearest(TemperatureMilliC(input) + 45000, input, 35000)
    /\ Nearest(HumidityMilliPercent(input), input, 20000)
    /\ Nearest(DecodedOffset(input), input, 35000)

\* A value the driver admits is written as a word that the driver believes
\* when it reads it back, and that shows the value, up to the resolution of
\* the word: no admitted SET fails on a sensor that does as it is told.
Resolution(f) == CASE f = "TEMPERATURE_OFFSET" -> 1
                   [] f = "AMBIENT_PRESSURE"   -> 99
                   [] OTHER                    -> 0
AdmittedReadsBack ==
  ~Sent => \A f \in Fields : AdmittedValue(f, input) =>
    LET word == EncodedSetting(f, input)
    IN /\ word \in WordValues /\ ValidWord(f, word)
       /\ DecodedSetting(f, word) - input \in -Resolution(f) .. Resolution(f)

\* A setting that was read and is set again writes the word it was read
\* from: comparing words and comparing values is the same, and nothing wears
\* the EEPROM.
RewriteKeepsWord ==
  ~Sent /\ input \in WordValues => \A f \in Fields : ValidWord(f, input) =>
    /\ AdmittedValue(f, DecodedSetting(f, input))
    /\ EncodedSetting(f, DecodedSetting(f, input)) = input
=============================================================================
