---------------------------- MODULE BoardProofs ----------------------------
(***************************************************************************)
(* What holds of the parts of the board for all values of their constants. *)
(*                                                                         *)
(* TimeBase, for every width of the counters and every speed of the timer: *)
(* it implements Clock, so what micros() returns is the time at one        *)
(* instant of the call, across every wrap of the timer and of the count of *)
(* overflows; millis() returns the milliseconds of the overflows counted,  *)
(* and delay() waits as long as asked.                                     *)
(*                                                                         *)
(* Tone, for all pins, pitches, durations and widths of the toggle count,  *)
(* as long as sketches let a timed tone end before they start it again:    *)
(* noTone() silences its pin, calls for other pins leave a tone alone, and *)
(* a tone has the pitch and the duration asked for.                        *)
(*                                                                         *)
(* Servo, for every number of servos, every set of pins, limits, widths    *)
(* and angles, and calls at any time: pulses last as long as asked, frames *)
(* no less than the refresh interval, and read() gives back what write()   *)
(* set.                                                                    *)
(*                                                                         *)
(* And the board they are on, with the USB bridge: its types.              *)
(***************************************************************************)
EXTENDS MCBoard, UsbSerialProofs

-----------------------------------------------------------------------------
(***** the time base: millis(), micros(), delay() *****)

\* What the proof uses of the constants.
LEMMA TimeConstants ==
  /\ TOP \in Nat /\ TOP >= 4 /\ TICK_US \in Nat \ {0} /\ LONG \in Nat \ {0}
  /\ MaxLate \in Nat /\ MaxLate <= TOP - 2
<1>1. /\ TOP \in Nat /\ TOP >= 4 /\ TICK_US \in Nat \ {0} /\ MS \in Nat \ {0}
      /\ MaxLate \in Nat /\ MaxLate <= TOP - 2
  BY UnitAssumption, LateAssumption
<1>2. (TOP + MaxLate) * TICK_US \in Nat  BY <1>1
<1> QED  BY <1>1, <1>2, WidthAssumption

(***** the value of micros() *****)

\* It is a value of an unsigned long.
LEMMA MicrosType ==
  ASSUME NEW c \in Nat, NEW k \in Nat
  PROVE  Micros(c, k) \in 0..(LONG - 1)
<1>1. (c * TOP + k) * TICK_US \in Nat  BY TimeConstants
<1> QED  BY <1>1, TimeConstants DEF Micros

\* A tick later it is one tick more, also where the timer wraps.
LEMMA MicrosTick ==
  ASSUME NEW c \in Nat, NEW k \in Nat
  PROVE  /\ Micros(c, k + 1) = (Micros(c, k) + TICK_US) % LONG
         /\ k = TOP - 1 => Micros(c + 1, 0) = (Micros(c, k) + TICK_US) % LONG
<1> DEFINE x == (c * TOP + k) * TICK_US
<1>1. x \in Int /\ TICK_US \in Int  BY TimeConstants
<1>2. (c * TOP + (k + 1)) * TICK_US = x + TICK_US  BY TimeConstants
<1>3. k = TOP - 1 => ((c + 1) * TOP + 0) * TICK_US = x + TICK_US  BY TimeConstants
<1> HIDE DEF x
<1>4. ((x % LONG) + TICK_US) % LONG = (x + TICK_US) % LONG  BY <1>1, TimeConstants, ModSum
<1> QED  BY <1>2, <1>3, <1>4 DEF Micros, x

\* The count of overflows may wrap at the width of a long.
LEMMA MicrosWrap ==
  ASSUME NEW c \in 0..(LONG - 1), NEW k \in Nat
  PROVE  Micros((c + 1) % LONG, k) = Micros(c + 1, k)
<1>1. CASE c + 1 < LONG
  <2>1. (c + 1) % LONG = c + 1  BY <1>1, TimeConstants
  <2> QED  BY <2>1
<1>2. CASE c + 1 = LONG
  <2>1. (c + 1) % LONG = 0
    <3>1. (1 * LONG + 0) % LONG = 0  BY TimeConstants, ModUnique
    <3> QED  BY <1>2, <3>1, TimeConstants
  <2>2. k * TICK_US \in Int /\ TOP * TICK_US \in Int  BY TimeConstants
  <2>3. (0 * TOP + k) * TICK_US = k * TICK_US  BY TimeConstants
  <2>4. ((c + 1) * TOP + k) * TICK_US = k * TICK_US + (TOP * TICK_US) * LONG  BY <1>2, TimeConstants
  <2>5. (k * TICK_US + (TOP * TICK_US) * LONG) % LONG = (k * TICK_US) % LONG
    BY <2>2, TimeConstants, ModMultiple
  <2> QED  BY <2>1, <2>3, <2>4, <2>5 DEF Micros
<1> QED  BY <1>1, <1>2, TimeConstants
-----------------------------------------------------------------------------
(***** the invariant *****)

\* An overflow is taken long before the next one; a masked call has a tick at
\* most, and the count it read is still the count.
ClockInv ==
  /\ TCNT0 \in 0..(TOP - 1) /\ TOV0 \in BOOLEAN /\ t \in 0..(TOP - 1) /\ gap \in Nat
  /\ overflow_count \in 0..(LONG - 1)
  /\ TOV0 => TCNT0 <= MaxLate
  /\ timePc \in {"readTimer", "testFlag"} => m = overflow_count
  /\ timePc = "testFlag" /\ gap = 0 => t = TCNT0

\* It holds after reset.
LEMMA ClockInit == ASSUME TimeInit PROVE ClockInv
<1>1. 0 \in 0..(TOP - 1) /\ 0 \in 0..(LONG - 1) /\ 0 \in Nat  BY TimeConstants
<1>2. timePc = "idle" /\ TOV0 = FALSE /\ m = 0 /\ overflow_count = 0  BY DEF TimeInit
<1> QED  BY <1>1, <1>2 DEF TimeInit, ClockInv

\* Every step keeps it.
LEMMA ClockStep == ASSUME ClockInv, [TimeNext]_timeVars PROVE ClockInv'
<1> USE TimeConstants DEF ClockInv, hardware, counters, reading, delaying, Masked
<1>1. CASE UNCHANGED timeVars  BY <1>1 DEF timeVars
<1>2. CASE Tick
  <2>1. TCNT0' = IF TCNT0 = TOP - 1 THEN 0 ELSE TCNT0 + 1
    <3>1. CASE TCNT0 = TOP - 1
      <4>1. (1 * TOP + 0) % TOP = 0  BY ModUnique
      <4> QED  BY <1>2, <3>1, <4>1 DEF Tick
    <3>2. CASE TCNT0 # TOP - 1
      <4>1. (TCNT0 + 1) % TOP = TCNT0 + 1  BY <3>2
      <4> QED  BY <1>2, <3>2, <4>1 DEF Tick
    <3> QED  BY <3>1, <3>2
  <2> QED  BY <1>2, <2>1 DEF Tick
<1>3. CASE Overflow
  <2>1. (overflow_count + 1) % LONG \in 0..(LONG - 1)  OBVIOUS
  <2> QED  BY <1>3, <2>1 DEF Overflow
<1>4. CASE MillisCall \/ MillisReturn  BY <1>4 DEF MillisCall, MillisReturn
<1>5. CASE MicrosCall \/ DelayCall \/ DelayPoll  BY <1>5 DEF MicrosCall, DelayCall, DelayPoll, MicrosBegin
<1>6. CASE MicrosReadTimer  BY <1>6 DEF MicrosReadTimer
<1>7. CASE MicrosReturn  BY <1>7 DEF MicrosReturn
<1> QED  BY <1>1, <1>2, <1>3, <1>4, <1>5, <1>6, <1>7 DEF TimeNext, Sketch
-----------------------------------------------------------------------------
(***** the refinement *****)

\* The reading that a call will return.
Seen == IF timePc = "testFlag" THEN Micros(m + Carry, t) ELSE -1

\* Time and readings, where the overflow is counted, are values of a long.
LEMMA Values ==
  ASSUME ClockInv
  PROVE  /\ Now \in 0..(LONG - 1)
         /\ timePc = "testFlag" => Seen \in 0..(LONG - 1)
<1>1. overflow_count \in Nat /\ TCNT0 \in Nat /\ t \in Nat  BY TimeConstants DEF ClockInv
<1>2. Now \in 0..(LONG - 1)
  <2>1. overflow_count + (IF TOV0 THEN 1 ELSE 0) \in Nat  BY <1>1
  <2> QED  BY <2>1, <1>1, MicrosType DEF Now
<1>3. ASSUME timePc = "testFlag" PROVE Seen \in 0..(LONG - 1)
  <2>1. m + Carry \in Nat  BY <1>1, <1>3 DEF ClockInv, Carry
  <2> QED  BY <2>1, <1>1, <1>3, MicrosType DEF Seen
<1> QED  BY <1>2, <1>3

\* A tick advances the clock by one tick, where the timer wraps too, and
\* changes no reading: the flag cannot be set with t short of the top.
LEMMA TickAdvances ==
  ASSUME ClockInv, Tick
  PROVE  Now' = (Now + TICK_US) % LONG /\ Seen' = Seen
<1> DEFINE c == overflow_count + IF TOV0 THEN 1 ELSE 0
<1>1. overflow_count \in Nat /\ TCNT0 \in 0..(TOP - 1) /\ c \in Nat
  BY TimeConstants DEF ClockInv
<1>2. UNCHANGED <<overflow_count, timePc, m, t>>  BY DEF Tick, counters, reading
<1>3. CASE TCNT0 = TOP - 1
  <2>1. (1 * TOP + 0) % TOP = 0  BY TimeConstants, ModUnique
  <2>2. TCNT0' = 0 /\ TOV0' = TRUE /\ TOV0 = FALSE
    <3>1. TCNT0 + 1 = 1 * TOP + 0  BY <1>3, TimeConstants
    <3>2. TCNT0' = 0  BY <2>1, <3>1 DEF Tick
    <3>3. TOV0 = FALSE  BY <1>3, TimeConstants DEF ClockInv
    <3> QED  BY <3>2, <3>3 DEF Tick
  <2>3. Now' = Micros(c + 1, 0)  BY <2>2, <1>2, <1>1 DEF Now
  <2>4. Micros(c + 1, 0) = (Micros(c, TCNT0) + TICK_US) % LONG
    BY <1>1, <1>3, MicrosTick
  <2>5. timePc = "testFlag" => t = TOP - 1
    BY <1>3, TimeConstants DEF Tick, Masked, ClockInv
  <2>6. timePc = "testFlag" => Carry = 0 /\ Carry' = 0
    BY <2>5, <1>2, TimeConstants DEF Carry
  <2> QED  BY <2>3, <2>4, <2>6, <1>2 DEF Now, Seen
<1>4. CASE TCNT0 # TOP - 1
  <2>1. (TCNT0 + 1) % TOP = TCNT0 + 1  BY <1>4, <1>1, TimeConstants
  <2>2. TCNT0' = TCNT0 + 1 /\ TOV0' = TOV0
    BY <2>1, <1>1, TimeConstants DEF Tick, ClockInv
  <2>3. Now' = Micros(c, TCNT0 + 1)  BY <2>2, <1>2 DEF Now
  <2>4. Micros(c, TCNT0 + 1) = (Micros(c, TCNT0) + TICK_US) % LONG
    BY <1>1, MicrosTick
  <2> QED  BY <2>2, <2>3, <2>4, <1>2 DEF Now, Seen, Carry
<1> QED  BY <1>3, <1>4

\* The interrupt moves the overflow from the flag to the count: no time passes.
LEMMA OverflowStutters ==
  ASSUME ClockInv, Overflow
  PROVE  Now' = Now /\ Seen' = Seen
<1>1. overflow_count \in 0..(LONG - 1) /\ TCNT0 \in Nat  BY DEF ClockInv
<1>2. /\ TOV0 = TRUE /\ TOV0' = FALSE /\ TCNT0' = TCNT0 /\ timePc' = timePc
      /\ overflow_count' = (overflow_count + 1) % LONG /\ timePc # "testFlag"
  BY DEF Overflow, ClockInv, Masked, reading
<1>3. (overflow_count + 1) % LONG \in Int /\ overflow_count + 1 \in Int  BY <1>1, TimeConstants
<1>4. Now' = Micros((overflow_count + 1) % LONG, TCNT0)  BY <1>2, <1>3 DEF Now
<1>5. Now = Micros(overflow_count + 1, TCNT0)  BY <1>2 DEF Now
<1> QED  BY <1>1, <1>2, <1>4, <1>5, MicrosWrap DEF Seen

\* Reading the timer fixes the reading at the present time.
LEMMA ReadTimerReads ==
  ASSUME ClockInv, MicrosReadTimer
  PROVE  Seen = -1 /\ Seen' = Now /\ Now' = Now
<1>1. /\ timePc = "readTimer" /\ timePc' = "testFlag" /\ t' = TCNT0
      /\ UNCHANGED <<TCNT0, TOV0, overflow_count, m>>
  BY DEF MicrosReadTimer, hardware, counters
<1>2. m = overflow_count /\ (TOV0 => TCNT0 < TOP - 1)
  BY <1>1, TimeConstants DEF ClockInv
<1>3. Carry' = IF TOV0 THEN 1 ELSE 0  BY <1>1, <1>2 DEF Carry
<1> QED  BY <1>1, <1>2, <1>3 DEF Seen, Now

\* micros(): every step maps to a step of the clock or leaves it alone.
LEMMA StepMaps ==
  ASSUME ClockInv, [TimeNext]_timeVars
  PROVE  [Real!Next]_<<Now, Seen>>
<1> USE DEF hardware, counters, reading
<1>1. CASE UNCHANGED timeVars  BY <1>1 DEF timeVars, Now, Seen, Carry
<1>2. CASE Tick  BY <1>2, TickAdvances DEF Real!Next, Real!Advance, Seen
<1>3. CASE Overflow  BY <1>3, OverflowStutters
<1>4. CASE MillisCall \/ MillisReturn  BY <1>4 DEF MillisCall, MillisReturn, Now, Seen
<1>5. CASE MicrosCall \/ DelayCall \/ DelayPoll
  BY <1>5 DEF MicrosCall, DelayCall, DelayPoll, MicrosBegin, Now, Seen
<1>6. CASE MicrosReadTimer
  BY <1>6, ReadTimerReads DEF Real!Next, Real!Read, Seen
<1>7. CASE MicrosReturn
  <2>1. timePc = "testFlag" /\ timePc' = "idle" /\ UNCHANGED <<hardware, counters>>
    BY <1>7 DEF MicrosReturn
  <2>2. Now' = Now /\ Seen' = -1  BY <2>1 DEF Now, Seen
  <2>3. Seen # -1  BY <2>1, Values, TimeConstants
  <2> QED  BY <2>2, <2>3 DEF Real!Next, Real!Return, Seen
<1> QED  BY <1>1, <1>2, <1>3, <1>4, <1>5, <1>6, <1>7 DEF TimeNext, Sketch

\* micros() is right: for every width of its counters and every speed of the
\* timer, and whenever the overflow interrupt runs within its delay, it
\* returns the time at one instant of the call (wiring.c, micros()).
THEOREM MicrosIsAClock == TimeSpec => ImplementsClock
<1>1. ASSUME TimeInit PROVE Real!Init
  <2>1. Now = Micros(0, 0)  BY <1>1 DEF TimeInit, Now
  <2>2. Micros(0, 0) = 0
    <3>1. (0 * TOP + 0) * TICK_US = 0  BY TimeConstants
    <3>2. 0 % LONG = 0  BY TimeConstants
    <3> QED  BY <3>1, <3>2 DEF Micros
  <2> QED  BY <1>1, <2>1, <2>2 DEF TimeInit, Real!Init
<1>2. TimeInit => ClockInv  BY ClockInit
<1>3. ClockInv /\ [TimeNext]_timeVars => ClockInv'  BY ClockStep
<1>4. ClockInv /\ [TimeNext]_timeVars => [Real!Next]_<<Now, Seen>>  BY StepMaps
<1>5. Seen = IF timePc = "testFlag" THEN Micros(m + Carry, t) ELSE -1  BY DEF Seen
<1> QED  BY <1>1, <1>2, <1>3, <1>4, <1>5, PTL DEF TimeSpec, ImplementsClock, Real!Spec, Seen
-----------------------------------------------------------------------------
(***** types *****)

\* What the units of a millisecond and of an overflow have to do with each other.
LEMMA Units ==
  /\ MS \in Nat \ {0} /\ FR \in Nat \ {0} /\ TOP * TICK_US \in Nat
  /\ FRACT_MAX \in Nat \ {0} /\ FRACT_MAX * FR = MS
  /\ MILLIS_INC \in Nat /\ FRACT_INC \in Nat /\ FRACT_INC < FRACT_MAX
  /\ MILLIS_INC * MS + FRACT_INC * FR = TOP * TICK_US
<1> DEFINE O == TOP * TICK_US
           r == O % MS
<1>1. MS \in Nat \ {0} /\ FR \in Nat \ {0} /\ MS % FR = 0 /\ O \in Nat
  BY UnitAssumption
<1>2. r % FR = 0  BY UnitAssumption DEF MICROSECONDS_PER_TIMER0_OVERFLOW
<1>3. MILLIS_INC = O \div MS /\ FRACT_INC = r \div FR /\ FRACT_MAX = MS \div FR
  BY DEF MILLIS_INC, FRACT_INC, FRACT_MAX, MICROSECONDS_PER_TIMER0_OVERFLOW
<1>4. r \in Nat /\ r < MS /\ (O \div MS) * MS + r = O /\ O \div MS \in Nat  BY <1>1
<1> HIDE DEF O, r
<1>5. (r \div FR) * FR = r /\ r \div FR \in Nat  BY <1>1, <1>2, <1>4
<1>6. (MS \div FR) * FR = MS /\ MS \div FR \in Nat  BY <1>1
<1>7. MS \div FR # 0
  <2>1. 0 * FR = 0  BY <1>1
  <2> QED  BY <1>1, <1>6, <2>1
<1>8. r \div FR < MS \div FR
  <2> DEFINE a == r \div FR
             b == MS \div FR
  <2>1. a \in Nat /\ b \in Nat /\ a * FR < b * FR  BY <1>1, <1>4, <1>5, <1>6
  <2> HIDE DEF a, b
  <2>2. ~(b <= a)
    <3> SUFFICES ASSUME b <= a PROVE FALSE  OBVIOUS
    <3> DEFINE e == a - b
    <3>1. e \in Nat /\ a = b + e  BY <2>1
    <3> HIDE DEF e
    <3>2. a * FR = b * FR + e * FR /\ e * FR \in Nat /\ b * FR \in Nat  BY <1>1, <2>1, <3>1
    <3> QED  BY <2>1, <3>2
  <2> QED  BY <2>1, <2>2 DEF a, b
<1> QED  BY <1>1, <1>3, <1>4, <1>5, <1>6, <1>7, <1>8 DEF O

\* The milliseconds and the fraction, an overflow later.
LEMMA Carried ==
  ASSUME fract \in 0..(FRACT_MAX - 1), millis \in 0..(LONG - 1), Overflow
  PROVE  /\ fract' \in 0..(FRACT_MAX - 1) /\ millis' \in 0..(LONG - 1)
         /\ \E c \in Nat : /\ millis' = c % LONG
                           /\ c * MS + fract' * FR = millis * MS + fract * FR + TOP * TICK_US
<1> DEFINE f == fract + FRACT_INC
           d == IF f >= FRACT_MAX THEN 1 ELSE 0
           c == millis + MILLIS_INC + d
<1>1. /\ fract' = IF f >= FRACT_MAX THEN f - FRACT_MAX ELSE f
      /\ millis' = c % LONG
  BY DEF Overflow
<1>2. c \in Nat /\ d \in Nat /\ fract \in Nat /\ millis \in Nat  BY Units
<1>3. fract' = fract + FRACT_INC - d * FRACT_MAX  BY <1>1, Units
<1>4. fract' \in 0..(FRACT_MAX - 1)  BY <1>1, Units
<1>5. millis' \in 0..(LONG - 1)  BY <1>1, <1>2, TimeConstants
<1>6. c = millis + MILLIS_INC + d  OBVIOUS
<1> HIDE DEF d, f, c
<1>7. c * MS + fract' * FR = millis * MS + fract * FR + TOP * TICK_US
  <2>1. c * MS = millis * MS + MILLIS_INC * MS + d * MS  BY <1>2, <1>6, Units
  <2>2. fract' * FR = fract * FR + FRACT_INC * FR - d * (FRACT_MAX * FR)  BY <1>2, <1>3, Units
  <2>3. /\ d * MS \in Int /\ millis * MS \in Int /\ fract * FR \in Int
        /\ MILLIS_INC * MS \in Int /\ FRACT_INC * FR \in Int
    BY <1>2, Units
  <2> QED  BY <2>1, <2>2, <2>3, Units
<1> QED  BY <1>1, <1>2, <1>4, <1>5, <1>7

\* While delay() runs it has a millisecond left.
Delaying ==
  /\ IF asked > 0 THEN caller # "sketch" /\ ms > 0 ELSE caller = "sketch" /\ ms = 0
  /\ caller = "start" => timePc \in {"readTimer", "testFlag"}
  /\ timePc = "readHigh" => asked = 0

LEMMA TimeTypes == ASSUME TimeInit PROVE TimeTypeOK /\ Delaying
<1>1. /\ 0 \in 0..(TOP - 1) /\ 0 \in 0..(LONG - 1) /\ 0 \in 0..(FRACT_MAX - 1)
      /\ 0 \in 0..(WORD - 1) /\ 0 \in 0..MaxGap
  BY TimeConstants, Units, WidthAssumption, LateAssumption
<1>2. /\ TCNT0 = 0 /\ TOV0 = FALSE /\ overflow_count = 0 /\ millis = 0 /\ fract = 0
      /\ timePc = "idle" /\ m = 0 /\ t = 0 /\ gap = 0
      /\ caller = "sketch" /\ ms = 0 /\ start = 0 /\ asked = 0 /\ waited = 0
  BY DEF TimeInit
<1>3. 0 \in 0..0 /\ 0 \in Nat /\ ~(0 > 0)  OBVIOUS
<1> HIDE DEF TimeInit
<1> QED  BY <1>1, <1>2, <1>3 DEF TimeTypeOK, Delaying

LEMMA TimeTypesStep ==
  ASSUME TimeTypeOK, Delaying, [TimeNext]_timeVars
  PROVE  TimeTypeOK' /\ Delaying'
<1> USE DEF hardware, counters, reading, delaying
<1>1. /\ WORD \in Nat \ {0} /\ BYTES \in Nat \ {0} /\ BYTES <= LONG /\ MaxGap \in Nat \ {0}
      /\ \A d \in Delays : d \in Nat /\ d > 0
  BY WidthAssumption, LateAssumption, DelayAssumption, TimeConstants
<1>2. CASE UNCHANGED timeVars  BY <1>2 DEF timeVars, TimeTypeOK, Delaying
<1>3. CASE Tick
  <2>1. TCNT0' \in 0..(TOP - 1) /\ TOV0' \in BOOLEAN  BY <1>3, TimeConstants DEF Tick, TimeTypeOK
  <2>2. gap' \in 0..MaxGap  BY <1>1, <1>3 DEF Tick, TimeTypeOK
  <2>3. waited' \in Nat
    <3>1. asked \in Nat  BY <1>1 DEF TimeTypeOK
    <3>2. asked * MS \in Nat /\ (2 * MaxGap + 1) * TICK_US \in Nat  BY <1>1, <3>1, Units, TimeConstants
    <3>3. waited + TICK_US \in Nat  BY TimeConstants DEF TimeTypeOK
    <3>4. Saturate(waited + TICK_US) \in Nat  BY <3>2, <3>3 DEF Saturate, Slack
    <3> QED  BY <1>3, <3>4 DEF Tick
  <2> QED  BY <1>3, <2>1, <2>2, <2>3 DEF Tick, TimeTypeOK, Delaying
<1>4. CASE Overflow
  <2>1. fract' \in 0..(FRACT_MAX - 1) /\ millis' \in 0..(LONG - 1)
    BY <1>4, Carried DEF TimeTypeOK
  <2>2. overflow_count' \in 0..(LONG - 1)  BY <1>4, TimeConstants DEF Overflow, TimeTypeOK
  <2> QED  BY <1>4, <2>1, <2>2 DEF Overflow, TimeTypeOK, Delaying
<1>5. CASE MillisCall
  <2>1. m' \in 0..(LONG - 1)  BY <1>1, <1>5, TimeConstants DEF MillisCall, TimeTypeOK
  <2> QED  BY <1>5, <2>1 DEF MillisCall, TimeTypeOK, Delaying
<1>6. CASE MillisReturn
  BY <1>1, <1>6, TimeConstants DEF MillisReturn, TimeTypeOK, Delaying
<1>7. CASE MicrosCall
  BY <1>1, <1>7 DEF MicrosCall, MicrosBegin, TimeTypeOK, Delaying
<1>8. CASE DelayPoll
  BY <1>1, <1>8 DEF DelayPoll, MicrosBegin, TimeTypeOK, Delaying
<1>9. CASE DelayCall
  <2>1. PICK d \in Delays : asked' = d /\ ms' = d  BY <1>9 DEF DelayCall
  <2>2. /\ timePc' = "readTimer" /\ m' = overflow_count /\ gap' = 0 /\ caller' = "start" /\ waited' = 0
        /\ UNCHANGED <<hardware, counters, t, start>>
    BY <1>9 DEF DelayCall, MicrosBegin
  <2>3. d \in Nat /\ d > 0 /\ d \in 0..d  BY <1>1
  <2> QED  BY <1>1, <2>1, <2>2, <2>3 DEF TimeTypeOK, Delaying
<1>10. CASE MicrosReadTimer
  BY <1>10 DEF MicrosReadTimer, TimeTypeOK, Delaying
<1>11. CASE MicrosReturn
  <2> DEFINE us == Micros(m + Carry, t)
  <2>1. /\ timePc = "testFlag" /\ timePc' = "idle" /\ m' = 0 /\ t' = 0
        /\ UNCHANGED <<hardware, counters>>
    BY <1>11 DEF MicrosReturn
  <2>2. us \in Int
    <3>1. m + Carry \in Nat /\ t \in Nat  BY TimeConstants DEF TimeTypeOK, Carry
    <3>2. Micros(m + Carry, t) \in 0..(LONG - 1)  BY <3>1, MicrosType
    <3> QED  BY <3>2, TimeConstants
  <2>3. 0 \in 0..(LONG - 1) /\ 0 \in 0..(TOP - 1) /\ 0 \in 0..(WORD - 1)  BY <1>1, TimeConstants
  <2>4. CASE caller = "sketch" /\ gap' = 0 /\ UNCHANGED <<delaying, waited>>
    BY <1>1, <2>1, <2>3, <2>4 DEF TimeTypeOK, Delaying
  <2>5. CASE /\ caller = "start" /\ start' = us % WORD /\ caller' = "poll"
             /\ UNCHANGED <<gap, ms, asked, waited>>
    <3>1. us % WORD \in 0..(WORD - 1)  BY <1>1, <2>2
    <3> QED  BY <2>1, <2>3, <2>5, <3>1 DEF TimeTypeOK, Delaying
  <2>6. CASE /\ caller = "poll" /\ DelayStep(us)
             /\ IF ms' = 0
                THEN caller' = "sketch" /\ asked' = 0 /\ gap' = 0 /\ waited' = 0
                ELSE UNCHANGED <<caller, asked, gap, waited>>
    <3>1. start' \in 0..(WORD - 1)
      <4>1. (start + MS) % WORD \in 0..(WORD - 1)  BY <1>1, Units DEF TimeTypeOK
      <4> QED  BY <2>3, <2>6, <4>1 DEF DelayStep, TimeTypeOK
    <3>2. asked \in Nat /\ ms \in 0..asked  BY <1>1 DEF TimeTypeOK
    <3>3. asked > 0 /\ ms > 0  BY <2>6, <3>2 DEF Delaying
    <3>4. ms' = ms - 1 \/ ms' = ms  BY <2>6 DEF DelayStep
    <3>5. ms' \in 0..asked  BY <3>2, <3>3, <3>4
    <3>6. CASE ms' = 0
      <4>1. caller' = "sketch" /\ asked' = 0 /\ gap' = 0 /\ waited' = 0  BY <2>6, <3>6
      <4>2. 0 \in 0..0 /\ 0 \in 0..MaxGap /\ ~(0 > 0)  BY <1>1
      <4> QED  BY <2>1, <2>3, <3>1, <3>6, <4>1, <4>2 DEF TimeTypeOK, Delaying
    <3>7. CASE ms' # 0
      <4>1. UNCHANGED <<caller, asked, gap, waited>>  BY <2>6, <3>7
      <4>2. ms' > 0  BY <3>2, <3>5, <3>7
      <4> QED  BY <2>1, <2>3, <2>6, <3>1, <3>3, <3>5, <4>1, <4>2 DEF TimeTypeOK, Delaying
    <3> QED  BY <3>6, <3>7
  <2> QED  BY <1>11, <2>4, <2>5, <2>6 DEF MicrosReturn
<1> QED
  BY <1>2, <1>3, <1>4, <1>5, <1>6, <1>7, <1>8, <1>9, <1>10, <1>11 DEF TimeNext, Sketch

\* The counters keep their widths, and delay() never counts below 0.
THEOREM TimesTyped == TimeSpec => []TimeTypeOK
<1> QED  BY TimeTypes, TimeTypesStep, PTL DEF TimeSpec
-----------------------------------------------------------------------------
(***** millis() *****)

\* Milliseconds and fraction are the overflows counted, but for whole turns of a long:
\* both sides lose some when they wrap.
Counting ==
  /\ timePc = "readHigh" => m = millis % BYTES
  /\ \E k \in Int : millis * MS + fract * FR = overflow_count * (TOP * TICK_US) + k * LONG

LEMMA CountingStep ==
  ASSUME TimeTypeOK, Counting, [TimeNext]_timeVars
  PROVE  Counting'
<1> USE DEF hardware, counters, reading
<1>1. PICK k \in Int : millis * MS + fract * FR = overflow_count * (TOP * TICK_US) + k * LONG
  BY DEF Counting
<1>2. CASE Overflow
  <2>1. PICK c \in Nat : /\ millis' = c % LONG
                         /\ c * MS + fract' * FR = millis * MS + fract * FR + TOP * TICK_US
    BY <1>2, Carried DEF TimeTypeOK
  <2>2. /\ overflow_count' = (overflow_count + 1) % LONG /\ timePc' # "readHigh"
        /\ overflow_count \in Nat /\ fract' \in Nat
    BY <1>2, Carried, TimeConstants, Units DEF Overflow, Masked, TimeTypeOK
  <2> DEFINE n  == overflow_count + 1
             a  == c \div LONG
             b  == n \div LONG
             O  == TOP * TICK_US
             c1 == c % LONG
             n1 == n % LONG
  <2>3. /\ a \in Int /\ b \in Int /\ c1 \in Int /\ n1 \in Int
        /\ c = a * LONG + c1 /\ n = b * LONG + n1
    BY <2>1, <2>2, TimeConstants
  <2>4. c * MS + fract' * FR = n * O + k * LONG
    <3>1. n * O = overflow_count * O + O  BY <2>2, Units
    <3>2. overflow_count * O \in Int /\ k * LONG \in Int /\ O \in Int  BY <2>2, Units, TimeConstants
    <3> QED  BY <1>1, <2>1, <3>1, <3>2
  <2> HIDE DEF n, a, b, c1, n1, O
  <2>5. O \in Int /\ MS \in Int /\ LONG \in Int /\ FR \in Int  BY Units, TimeConstants DEF O
  <2>6. c * MS = c1 * MS + (a * MS) * LONG  BY <2>3, <2>5
  <2>7. n * O = n1 * O + (b * O) * LONG  BY <2>3, <2>5
  <2>8. c1 * MS + fract' * FR = n1 * O + (k + b * O - a * MS) * LONG
    <3>1. (k + b * O - a * MS) * LONG = k * LONG + (b * O) * LONG - (a * MS) * LONG
      BY <2>3, <2>5
    <3>2. /\ k * LONG \in Int /\ (b * O) * LONG \in Int /\ (a * MS) * LONG \in Int
          /\ c1 * MS \in Int /\ n1 * O \in Int /\ fract' * FR \in Int
      BY <2>2, <2>3, <2>5
    <3> QED  BY <2>4, <2>6, <2>7, <3>1, <3>2
  <2>9. k + b * O - a * MS \in Int  BY <2>3, <2>5
  <2>10. millis' = c1 /\ overflow_count' = n1  BY <2>1, <2>2 DEF c1, n1, n
  <2>11. millis' * MS + fract' * FR = overflow_count' * O + (k + b * O - a * MS) * LONG
    BY <2>8, <2>10
  <2> QED  BY <2>2, <2>9, <2>11 DEF Counting, O
<1>3. CASE ~Overflow
  <2>1. UNCHANGED counters
    BY <1>3 DEF TimeNext, Sketch, timeVars, Tick, MillisCall, MillisReturn, MicrosCall, MicrosBegin,
                MicrosReadTimer, MicrosReturn, DelayCall, DelayPoll
  <2>2. timePc' = "readHigh" => m' = millis' % BYTES
    BY <1>3, <2>1 DEF Counting, TimeNext, Sketch, timeVars, Tick, MillisCall, MillisReturn, MicrosCall,
                      MicrosBegin, MicrosReadTimer, MicrosReturn, DelayCall, DelayPoll
  <2> QED  BY <1>1, <2>1, <2>2 DEF Counting
<1> QED  BY <1>2, <1>3

\* millis() and micros() never drift apart: what millis() returns is less than a
\* millisecond, an overflow and the interrupt's delay behind the time, across every wrap.
THEOREM MillisIsCurrent == TimeSpec => MillisCurrent
<1> DEFINE Behind  == (Now - MillisResult * MS) % LONG
           Current == timePc = "readHigh" /\ timePc' = "idle" =>
                        Behind < MS + MICROSECONDS_PER_TIMER0_OVERFLOW + MaxLate * TICK_US
<1>1. TimeInit => Counting
  <2> SUFFICES ASSUME TimeInit PROVE Counting  OBVIOUS
  <2>1. millis = 0 /\ fract = 0 /\ overflow_count = 0 /\ timePc = "idle"  BY DEF TimeInit
  <2>2. 0 * MS + 0 * FR = 0 * (TOP * TICK_US) + 0 * LONG  BY Units, TimeConstants
  <2> QED  BY <2>1, <2>2 DEF Counting
<1>2. ASSUME TimeTypeOK, ClockInv, Counting, timePc = "readHigh"
      PROVE  Behind < MS + MICROSECONDS_PER_TIMER0_OVERFLOW + MaxLate * TICK_US
  <2>1. MillisResult = millis
    <3>1. m = millis % BYTES /\ millis \in Nat /\ BYTES \in Nat \ {0}
      BY <1>2, WidthAssumption, TimeConstants DEF Counting, TimeTypeOK
    <3> QED  BY <3>1 DEF MillisResult
  <2>2. PICK k \in Int : millis * MS + fract * FR = overflow_count * (TOP * TICK_US) + k * LONG
    BY <1>2 DEF Counting
  <2> DEFINE o == IF TOV0 THEN 1 ELSE 0
             x == ((overflow_count + o) * TOP + TCNT0) * TICK_US
             O == TOP * TICK_US
             r == fract * FR + o * O + TCNT0 * TICK_US
  <2>3. o \in Nat /\ TCNT0 \in Nat /\ fract \in Nat /\ overflow_count \in Nat /\ millis \in Nat
    BY <1>2, TimeConstants, Units DEF TimeTypeOK
  <2>4. x = overflow_count * O + o * O + TCNT0 * TICK_US
    <3> HIDE DEF o
    <3> QED  BY <2>3, TimeConstants
  <2>5. fract * FR \in Nat /\ fract * FR < MS
    <3> DEFINE e == FRACT_MAX - fract
    <3>1. e \in Nat /\ e # 0 /\ FRACT_MAX = fract + e  BY <1>2, Units DEF TimeTypeOK
    <3> HIDE DEF e
    <3>2. FRACT_MAX * FR = fract * FR + e * FR  BY <2>3, <3>1, Units
    <3>3. e * FR \in Nat /\ e * FR # 0  BY <3>1, Units
    <3>4. fract * FR \in Nat  BY <2>3, Units
    <3> QED  BY <3>2, <3>3, <3>4, Units
  <2>6. /\ o * O + TCNT0 * TICK_US \in Nat /\ MaxLate * TICK_US \in Nat /\ O \in Nat
        /\ o * O + TCNT0 * TICK_US <= O + MaxLate * TICK_US
    <3>1. \A a, b \in Nat : a <= b => a * TICK_US \in Nat /\ b * TICK_US \in Nat /\ a * TICK_US <= b * TICK_US
      <4> TAKE a, b \in Nat
      <4> HAVE a <= b
      <4> DEFINE e == b - a
      <4>1. e \in Nat /\ b = a + e  OBVIOUS
      <4> HIDE DEF e
      <4>2. b * TICK_US = a * TICK_US + e * TICK_US  BY <4>1, TimeConstants
      <4>3. e * TICK_US \in Nat /\ a * TICK_US \in Nat  BY <4>1, TimeConstants
      <4> QED  BY <4>2, <4>3
    <3>2. TOP \in Nat /\ MaxLate \in Nat  BY TimeConstants
    <3>3. CASE TOV0
      <4>1. TCNT0 <= MaxLate /\ o = 1  BY <1>2, <3>3 DEF ClockInv
      <4>2. TCNT0 * TICK_US \in Nat /\ MaxLate * TICK_US \in Nat /\ TCNT0 * TICK_US <= MaxLate * TICK_US
        BY <2>3, <3>1, <3>2, <4>1
      <4> HIDE DEF o
      <4> QED  BY <4>1, <4>2, Units
    <3>4. CASE ~TOV0
      <4>1. TCNT0 <= TOP /\ o = 0  BY <1>2, <3>4, TimeConstants DEF ClockInv
      <4>2. /\ TCNT0 * TICK_US \in Nat /\ TCNT0 * TICK_US <= TOP * TICK_US /\ MaxLate * TICK_US \in Nat
        BY <2>3, <3>1, <3>2, <4>1
      <4> HIDE DEF o
      <4> QED  BY <4>1, <4>2, Units
    <3> QED  BY <3>3, <3>4
  <2>7. LONG > MS + O + MaxLate * TICK_US
    <3>1. (TOP + MaxLate) * TICK_US = O + MaxLate * TICK_US  BY TimeConstants
    <3>2. LONG > MS + (TOP + MaxLate) * TICK_US  BY WidthAssumption
    <3> HIDE DEF O
    <3> QED  BY <2>6, <3>1, <3>2, Units
  <2>8. x - millis * MS = r + (-k) * LONG
    <3>1. /\ overflow_count * O \in Int /\ millis * MS \in Int /\ fract * FR \in Int
          /\ o * O + TCNT0 * TICK_US \in Int /\ k * LONG \in Int /\ (-k) * LONG = -(k * LONG)
      BY <2>3, <2>5, <2>6, Units, TimeConstants
    <3>2. millis * MS + fract * FR = overflow_count * O + k * LONG  BY <2>2
    <3>3. o * O \in Int /\ TCNT0 * TICK_US \in Int  BY <2>3, Units, TimeConstants
    <3> DEFINE oc == overflow_count * O
               mm == millis * MS
               ff == fract * FR
               oo == o * O
               tt == TCNT0 * TICK_US
               kk == k * LONG
               nk == (-k) * LONG
    <3>4. /\ oc \in Int /\ mm \in Int /\ ff \in Int /\ oo \in Int /\ tt \in Int /\ kk \in Int
          /\ nk = -kk /\ mm + ff = oc + kk /\ x = oc + oo + tt
      BY <2>4, <3>1, <3>2, <3>3
    <3> HIDE DEF oc, mm, ff, oo, tt, kk, nk, x
    <3>5. x - mm = ff + oo + tt + nk  BY <3>4
    <3> QED  BY <3>5 DEF oc, mm, ff, oo, tt, kk, nk
  <2>9. r \in Nat /\ r < MS + O + MaxLate * TICK_US
    <3>1. o * O \in Int /\ TCNT0 * TICK_US \in Int  BY <2>3, Units, TimeConstants
    <3> HIDE DEF o, O
    <3> QED  BY <2>5, <2>6, <3>1, Units DEF r
  <2>10. r \in 0..(LONG - 1) /\ x \in Int /\ millis * MS \in Int /\ r \in Int
    <3>1. overflow_count * O \in Int /\ o * O \in Int /\ TCNT0 * TICK_US \in Int /\ millis * MS \in Int
      BY <2>3, Units, TimeConstants
    <3>2. x \in Int
      <4> HIDE DEF o, x, O
      <4> QED  BY <2>4, <3>1
    <3> HIDE DEF o, x, O, r
    <3> QED  BY <2>6, <2>7, <2>9, <3>1, <3>2, Units, TimeConstants
  <2>11. Now = x % LONG  BY DEF Now, Micros
  <2> HIDE DEF x, r, o
  <2>12. ((x % LONG) + (-(millis * MS))) % LONG = (x + (-(millis * MS))) % LONG
    <3>1. -(millis * MS) \in Int  BY <2>10
    <3> QED  BY <2>10, <3>1, TimeConstants, ModSum
  <2>13. Behind = (x - millis * MS) % LONG
    <3>1. x % LONG \in Int  BY <2>10, TimeConstants
    <3>2. /\ Now - MillisResult * MS = (x % LONG) + (-(millis * MS))
          /\ x - millis * MS = x + (-(millis * MS))
      BY <2>1, <2>10, <2>11, <3>1
    <3> QED  BY <2>12, <3>2
  <2>14. (r + (-k) * LONG) % LONG = r
    <3>1. -k \in Int  OBVIOUS
    <3>2. (r + (-k) * LONG) % LONG = r % LONG  BY <2>10, <3>1, TimeConstants, ModMultiple
    <3>3. (0 * LONG + r) % LONG = r  BY <2>10, TimeConstants, ModUnique
    <3>4. 0 * LONG + r = r  BY <2>10, TimeConstants
    <3> QED  BY <3>2, <3>3, <3>4
  <2>15. Behind = r  BY <2>8, <2>13, <2>14
  <2> QED  BY <2>9, <2>15 DEF MICROSECONDS_PER_TIMER0_OVERFLOW
<1>3. TimeTypeOK /\ ClockInv /\ Counting /\ [TimeNext]_timeVars => [Current]_timeVars
  BY <1>2
<1> HIDE DEF Current
<1>4. TimeSpec => [][Current]_timeVars
  BY <1>1, <1>3, TimesTyped, CountingStep, ClockInit, ClockStep, PTL DEF TimeSpec
<1> QED  BY <1>4 DEF Current, MillisCurrent
-----------------------------------------------------------------------------
(***** delay() *****)

\* How long the reading that a call will return has been past, at most e.
Fresh(e) ==
  timePc = "testFlag" =>
    \E d \in 0..e : d <= gap * TICK_US /\ \E k \in Int : Now = Seen + d + k * LONG

\* The time that delay() has not counted down yet, if it read its start after S.
Elapsed(S) == waited - S - (asked - ms) * MS

\* start is the time of the last millisecond counted, in 16 bits; the poll before left less
\* than a millisecond.
Polled(S) ==
  /\ Elapsed(S) >= 0
  /\ \E k \in Int : Now = start + Elapsed(S) + k * WORD
  /\ Elapsed(S) - gap * TICK_US < MS + IF timePc = "idle" THEN 0 ELSE MaxGap * TICK_US
  /\ Fresh(Elapsed(S))

Lasting ==
  asked > 0 =>
    /\ Masked => gap <= 1
    /\ IF caller = "start" THEN ms = asked /\ waited = gap * TICK_US /\ Fresh(waited)
                           ELSE \E S \in 0..TICK_US : Polled(S)

LEMMA DelayUnits ==
  /\ MaxGap \in Nat /\ MaxGap * TICK_US \in Nat /\ TICK_US <= MaxGap * TICK_US
  /\ Slack = 2 * (MaxGap * TICK_US) + TICK_US
  /\ WORD \in Nat \ {0} /\ \E c \in Nat : LONG = c * WORD
<1>1. MaxGap \in Nat \ {0} /\ WORD \in Nat \ {0} /\ LONG % WORD = 0
  BY LateAssumption, WidthAssumption
<1>2. LONG = (LONG \div WORD) * WORD /\ LONG \div WORD \in Nat  BY <1>1, TimeConstants
<1>3. Slack = 2 * (MaxGap * TICK_US) + TICK_US  BY <1>1, TimeConstants DEF Slack
<1>4. MaxGap * TICK_US \in Nat /\ TICK_US <= MaxGap * TICK_US
  <2> DEFINE k == MaxGap - 1
  <2>1. k \in Nat /\ MaxGap = k + 1  BY <1>1
  <2> HIDE DEF k
  <2>2. MaxGap * TICK_US = k * TICK_US + TICK_US /\ k * TICK_US \in Nat  BY <2>1, TimeConstants
  <2> QED  BY <2>2, TimeConstants
<1> QED  BY <1>1, <1>2, <1>3, <1>4

\* A tick ages the reading.
LEMMA FreshTick ==
  ASSUME ClockInv, Tick, asked > 0, gap \in Nat, NEW e \in Nat, Fresh(e)
  PROVE  /\ \E k \in Int : Now' = Now + TICK_US + k * LONG
         /\ timePc' = "testFlag" =>
              \E d \in 0..(e + TICK_US) :
                d <= gap' * TICK_US /\ \E k \in Int : Now' = Seen' + d + k * LONG
         /\ gap' = gap + 1 /\ gap' * TICK_US = gap * TICK_US + TICK_US
<1>1. Now' = (Now + TICK_US) % LONG /\ Seen' = Seen /\ Now \in Int
  BY TickAdvances, Values, TimeConstants
<1>2. PICK k \in Int : Now' = Now + TICK_US + k * LONG
  <2> DEFINE x == Now + TICK_US
             q == -(x \div LONG)
  <2>1. x \in Int  BY <1>1, TimeConstants
  <2> HIDE DEF x
  <2>2. q \in Int /\ x % LONG = x + q * LONG  BY <2>1, TimeConstants
  <2> QED  BY <1>1, <2>2 DEF x
<1>3. gap' = gap + 1 /\ gap' * TICK_US = gap * TICK_US + TICK_US
  <2>1. gap' = gap + 1  BY DEF Tick
  <2> QED  BY <2>1, TimeConstants
<1>4. ASSUME timePc' = "testFlag"
      PROVE  \E d \in 0..(e + TICK_US) :
               d <= gap' * TICK_US /\ \E j \in Int : Now' = Seen' + d + j * LONG
  <2>1. timePc = "testFlag"  BY <1>4 DEF Tick, reading
  <2>2. PICK d \in 0..e : d <= gap * TICK_US /\ \E j \in Int : Now = Seen + d + j * LONG
    BY <2>1 DEF Fresh
  <2>3. PICK j \in Int : Now = Seen + d + j * LONG  BY <2>2
  <2>4. d + TICK_US \in 0..(e + TICK_US) /\ d + TICK_US <= gap' * TICK_US
    <3>1. gap * TICK_US \in Nat  BY TimeConstants
    <3> QED  BY <1>3, <2>2, <3>1, TimeConstants
  <2>5. Now' = Seen' + (d + TICK_US) + (j + k) * LONG /\ j + k \in Int
    <3>1. Seen \in Int  BY <2>1, Values, TimeConstants
    <3>2. (j + k) * LONG = j * LONG + k * LONG /\ j * LONG \in Int /\ k * LONG \in Int
      BY TimeConstants
    <3> QED  BY <1>1, <1>2, <2>3, <3>1, <3>2, TimeConstants
  <2> QED  BY <2>4, <2>5
<1> QED  BY <1>2, <1>3, <1>4

\* What the counts of delay() have in common.
LEMMA Counted ==
  ASSUME TimeTypeOK, Delaying, asked > 0
  PROVE  /\ asked \in Nat /\ ms \in Nat /\ ms > 0 /\ ms <= asked /\ asked * MS \in Nat
         /\ (asked - ms) * MS \in Nat /\ (asked - ms) * MS + MS <= asked * MS
         /\ (asked - (ms - 1)) * MS = (asked - ms) * MS + MS
         /\ waited \in Nat /\ gap \in Nat /\ gap * TICK_US \in Nat
<1>1. asked \in Nat /\ ms \in Nat /\ ms > 0 /\ ms <= asked /\ waited \in Nat /\ gap \in Nat
  BY DelayAssumption, LateAssumption DEF TimeTypeOK, Delaying
<1> DEFINE j == asked - ms
           r == ms - 1
<1>2. j \in Nat /\ r \in Nat /\ asked = j + r + 1 /\ asked - (ms - 1) = j + 1  BY <1>1
<1> HIDE DEF j, r
<1>3. /\ j * MS \in Nat /\ r * MS \in Nat /\ asked * MS = j * MS + r * MS + MS
      /\ (j + 1) * MS = j * MS + MS
  BY <1>2, Units
<1>4. gap * TICK_US \in Nat  BY <1>1, TimeConstants
<1> QED  BY <1>1, <1>2, <1>3, <1>4, Units DEF j

\* Time passes in delay(), and is not yet as late as the model stops counting.
LEMMA LastingTick ==
  ASSUME TimeTypeOK, Delaying, ClockInv, Lasting, asked > 0, Tick
  PROVE  Lasting'
<1> DEFINE G == MaxGap * TICK_US
           g == gap * TICK_US
           A == asked * MS
           J == (asked - ms) * MS
           O == (IF timePc = "idle" THEN 0 ELSE G)
<1>1. /\ asked \in Nat /\ A \in Nat /\ J \in Nat /\ J + MS <= A /\ waited \in Nat
      /\ gap \in Nat /\ g \in Nat /\ G \in Nat /\ TICK_US <= G /\ MS \in Nat \ {0} /\ TICK_US \in Nat
      /\ Slack = 2 * G + TICK_US
  BY Counted, DelayUnits, Units, TimeConstants
<1>2. /\ UNCHANGED <<timePc, caller, asked, ms, start>>
      /\ waited' = Saturate(waited + TICK_US)
      /\ gap' = gap + 1 /\ gap' * TICK_US = g + TICK_US
      /\ gap < IF Masked THEN 1 ELSE MaxGap
  <2>1. gap' * TICK_US = g + TICK_US  BY <1>1, TimeConstants DEF Tick
  <2> QED  BY <2>1 DEF Tick, reading, delaying
<1>3. Masked' => gap' <= 1  BY <1>1, <1>2 DEF Masked
<1>4. waited + TICK_US <= A + Slack => waited' = waited + TICK_US
  <2> DEFINE w == waited + TICK_US
             B == A + Slack
  <2>1. w \in Nat /\ B \in Nat  BY <1>1
  <2>2. Saturate(w) = IF w > B THEN B ELSE w  BY DEF Saturate
  <2> HIDE DEF w, B
  <2>3. w <= B => Saturate(w) = w  BY <2>1, <2>2
  <2> QED  BY <1>2, <2>3 DEF w, B
<1>5. CASE caller = "start"
  <2>1. ms = asked /\ waited = g /\ Fresh(waited) /\ Masked  BY <1>5 DEF Lasting, Delaying, Masked
  <2>2. gap = 0 /\ g = 0  BY <1>1, <1>2, <2>1, TimeConstants
  <2> HIDE DEF G, g, A
  <2>3. waited' = waited + TICK_US  BY <1>1, <1>4, <2>1, <2>2
  <2>4. waited' = gap' * TICK_US  BY <1>2, <2>1, <2>3 DEF g
  <2>5. timePc' = "testFlag" =>
          \E d \in 0..(waited + TICK_US) :
            d <= gap' * TICK_US /\ \E k \in Int : Now' = Seen' + d + k * LONG
    BY <1>1, <2>1, FreshTick
  <2>6. Fresh(waited)'  BY <2>3, <2>5 DEF Fresh
  <2> QED  BY <1>2, <1>3, <1>5, <2>1, <2>4, <2>6 DEF Lasting
<1>6. CASE caller # "start"
  <2>1. PICK S \in 0..TICK_US : Polled(S)  BY <1>6 DEF Lasting
  <2> DEFINE e == Elapsed(S)
  <2>2. e = waited - S - J  BY DEF Elapsed
  <2>3. e \in Nat /\ e - g < MS + O /\ Fresh(e)  BY <1>1, <2>1, <2>2 DEF Polled
  <2>4. PICK k \in Int : Now = start + e + k * WORD  BY <2>1 DEF Polled
  <2>5. /\ \E i \in Int : Now' = Now + TICK_US + i * LONG
        /\ timePc' = "testFlag" =>
              \E d \in 0..(e + TICK_US) :
                d <= gap' * TICK_US /\ \E i \in Int : Now' = Seen' + d + i * LONG
    <3> HIDE DEF e
    <3> QED  BY <1>1, <2>3, FreshTick
  <2>6. waited + TICK_US <= A + Slack
    <3>1. timePc = "idle" => g + TICK_US <= G
      <4> SUFFICES ASSUME timePc = "idle" PROVE g + TICK_US <= G  OBVIOUS
      <4> DEFINE r == MaxGap - (gap + 1)
      <4>1. r \in Nat /\ MaxGap = gap + 1 + r  BY <1>1, <1>2, DelayUnits DEF Masked
      <4> HIDE DEF r
      <4>2. G = g + TICK_US + r * TICK_US /\ r * TICK_US \in Nat  BY <1>1, <4>1, TimeConstants
      <4> QED  BY <1>1, <4>2
    <3>2. timePc # "idle" => g = 0
      <4>1. timePc # "idle" => Masked  BY DEF TimeTypeOK, Masked
      <4> QED  BY <1>1, <1>2, <4>1, TimeConstants
    <3>3. waited = e + S + J  BY <1>1, <2>2
    <3> HIDE DEF G, g, A, J, e
    <3>4. CASE timePc = "idle"  BY <1>1, <2>3, <3>1, <3>3, <3>4
    <3>5. CASE timePc # "idle"  BY <1>1, <2>3, <3>2, <3>3, <3>5
    <3> QED  BY <3>4, <3>5
  <2>7. waited' = waited + TICK_US  BY <1>4, <2>6
  <2>8. Elapsed(S)' = e + TICK_US  BY <1>1, <1>2, <2>2, <2>7 DEF Elapsed
  <2>9. \E i \in Int : Now' = start' + Elapsed(S)' + i * WORD
    <3>1. PICK i \in Int : Now' = Now + TICK_US + i * LONG  BY <2>5
    <3>2. PICK c \in Nat : LONG = c * WORD  BY DelayUnits
    <3>3. (k + i * c) * WORD = k * WORD + i * LONG /\ k + i * c \in Int
          /\ k * WORD \in Int /\ i * LONG \in Int
      BY <3>2, DelayUnits
    <3>4. start \in Int  BY DelayUnits DEF TimeTypeOK
    <3> HIDE DEF e
    <3>5. Now' = start + (e + TICK_US) + (k + i * c) * WORD
      BY <1>1, <2>3, <2>4, <3>1, <3>3, <3>4
    <3> QED  BY <1>2, <2>8, <3>3, <3>5
  <2>10. Elapsed(S)' - gap' * TICK_US < MS + IF timePc' = "idle" THEN 0 ELSE MaxGap * TICK_US
    <3> HIDE DEF e, g
    <3> QED  BY <1>1, <1>2, <2>3, <2>8
  <2>11. Fresh(Elapsed(S))'  BY <2>5, <2>8 DEF Fresh
  <2>12. Elapsed(S)' >= 0
    <3> HIDE DEF e
    <3> QED  BY <1>1, <2>3, <2>8
  <2>13. Polled(S)'  BY <2>9, <2>10, <2>11, <2>12 DEF Polled
  <2> QED  BY <1>2, <1>3, <1>6, <2>13 DEF Lasting
<1> QED  BY <1>5, <1>6

\* What a poll of delay() finds: the time since the last millisecond counted, as it was
\* when the timer was read.
LEMMA PollReads ==
  ASSUME TimeTypeOK, Delaying, ClockInv, asked > 0, timePc = "testFlag", gap <= 1,
         NEW S \in 0..TICK_US, Polled(S),
         MS + (MaxGap + 1) * TICK_US <= WORD
  PROVE  /\ Elapsed(S) \in Nat
         /\ \E d \in Nat :
              /\ d <= gap * TICK_US /\ d <= Elapsed(S)
              /\ ((Micros(m + Carry, t) % WORD) - start) % WORD = Elapsed(S) - d
<1> DEFINE e  == Elapsed(S)
           us == Micros(m + Carry, t)
           G  == MaxGap * TICK_US
           g  == gap * TICK_US
           J  == (asked - ms) * MS
<1>1. /\ J \in Nat /\ waited \in Nat /\ g \in Nat /\ G \in Nat /\ WORD \in Nat \ {0}
      /\ MS \in Nat /\ TICK_US \in Nat /\ g <= TICK_US
  <2>1. gap = 0 \/ gap = 1  BY LateAssumption DEF TimeTypeOK
  <2>2. gap * TICK_US <= TICK_US  BY <2>1, TimeConstants
  <2> QED  BY <2>2, Counted, DelayUnits, Units, TimeConstants
<1>2. e = waited - S - J  BY DEF Elapsed
<1>3. e \in Nat /\ e - g < MS + G  BY <1>1, <1>2 DEF Polled
<1>4. PICK k \in Int : Now = start + e + k * WORD  BY DEF Polled
<1>5. PICK d \in 0..e : d <= g /\ \E j \in Int : Now = Seen + d + j * LONG
  BY DEF Polled, Fresh
<1>6. PICK j \in Int : Now = Seen + d + j * LONG  BY <1>5
<1>7. Seen = us /\ us \in Int  BY Values, TimeConstants DEF Seen
<1>8. PICK c \in Nat : LONG = c * WORD  BY DelayUnits
<1>9. start \in 0..(WORD - 1)  BY DEF TimeTypeOK
<1> HIDE DEF e, us, g, G
<1> DEFINE n == e - d
<1>10. n \in Nat /\ n < WORD /\ d \in Nat /\ d <= e
  <2>1. (MaxGap + 1) * TICK_US = G + TICK_US
    BY DelayUnits, TimeConstants DEF G
  <2> QED  BY <1>1, <1>3, <1>5, <2>1
<1>11. us - start = n + (k - j * c) * WORD /\ k - j * c \in Int
  <2>1. (k - j * c) * WORD = k * WORD - j * LONG /\ k * WORD \in Int /\ j * LONG \in Int
    BY <1>1, <1>8
  <2>2. k - j * c \in Int  BY <1>8
  <2> DEFINE A == k * WORD
             B == j * LONG
             C == (k - j * c) * WORD
  <2>3. C = A - B /\ A \in Int /\ B \in Int  BY <2>1
  <2>4. Now = start + e + A /\ Now = us + d + B  BY <1>4, <1>6, <1>7
  <2>5. us \in Int /\ start \in Int /\ e \in Int /\ d \in Int  BY <1>3, <1>7, <1>9, <1>10
  <2> HIDE DEF A, B, C
  <2>6. us - start = n + C  BY <2>3, <2>4, <2>5
  <2> QED  BY <2>2, <2>6 DEF C
<1> HIDE DEF n
<1> DEFINE q == k - j * c
<1>12. ((us % WORD) + (-start)) % WORD = (us + (-start)) % WORD
  <2>1. -start \in Int  BY <1>1, <1>9
  <2> QED  BY <1>1, <1>7, <2>1, ModSum
<1>13. (n + q * WORD) % WORD = n
  <2> HIDE DEF q
  <2>1. n \in Int /\ q \in Int  BY <1>10, <1>11 DEF q
  <2>2. (n + q * WORD) % WORD = n % WORD  BY <1>1, <2>1, ModMultiple
  <2>3. n % WORD = n  BY <1>1, <1>10
  <2> QED  BY <2>2, <2>3
<1>14. ((us % WORD) - start) % WORD = n
  <2>1. us % WORD \in Int  BY <1>1, <1>7
  <2>2. (us % WORD) - start = (us % WORD) + (-start) /\ us - start = us + (-start)
    BY <1>7, <1>9, <2>1
  <2> QED  BY <1>11, <1>12, <1>13, <2>2
<1>15. d <= g  BY <1>5
<1> QED  BY <1>3, <1>10, <1>14, <1>15 DEF e, us, g, n

\* micros() returns to delay(): a millisecond is counted exactly when one has passed.
LEMMA LastingReturn ==
  ASSUME TimeTypeOK, Delaying, ClockInv, Lasting, asked > 0, MicrosReturn,
         MaxGap * TICK_US <= MS, MS + (MaxGap + 1) * TICK_US <= WORD
  PROVE  /\ Lasting'
         /\ ms' < ms /\ caller = "poll" =>
              /\ (asked - ms') * MS <= waited
              /\ waited < (asked - ms') * MS + Slack
<1> DEFINE us == Micros(m + Carry, t)
           G  == MaxGap * TICK_US
           g  == gap * TICK_US
           J  == (asked - ms) * MS
<1>1. /\ timePc = "testFlag" /\ timePc' = "idle" /\ Now' = Now
      /\ caller # "sketch" /\ gap <= 1
  <2>1. Masked  BY DEF MicrosReturn, Masked
  <2>2. timePc = "testFlag" /\ timePc' = "idle" /\ UNCHANGED <<TCNT0, TOV0, overflow_count>>
    BY DEF MicrosReturn, hardware, counters
  <2> QED  BY <2>1, <2>2 DEF Lasting, Delaying, Now
<1>2. /\ asked \in Nat /\ ms \in Nat /\ ms > 0 /\ J \in Nat /\ waited \in Nat
      /\ (asked - (ms - 1)) * MS = J + MS
      /\ gap \in Nat /\ g \in Nat /\ G \in Nat /\ TICK_US <= G /\ WORD \in Nat \ {0}
      /\ MS \in Nat \ {0} /\ TICK_US \in Nat /\ Slack = 2 * G + TICK_US /\ G <= MS
  BY Counted, DelayUnits, Units, TimeConstants
<1>3. g <= TICK_US
  <2>1. gap = 0 \/ gap = 1  BY <1>1, <1>2
  <2>2. gap * TICK_US <= TICK_US  BY <2>1, TimeConstants
  <2> QED  BY <2>2
<1>4. us \in Int /\ Seen = us  BY <1>1, Values, TimeConstants DEF Seen
<1>5. ~Masked' /\ timePc' # "testFlag"  BY <1>1 DEF Masked
<1> HIDE DEF us
<1>6. CASE caller = "start"
  <2>1. /\ start' = us % WORD /\ caller' = "poll" /\ UNCHANGED <<gap, ms, asked, waited>>
    BY <1>6 DEF MicrosReturn, us
  <2>2. ms = asked /\ waited = g /\ Fresh(waited)  BY <1>6 DEF Lasting
  <2>3. PICK d \in 0..waited : \E k \in Int : Now = us + d + k * LONG
    BY <1>1, <1>4, <2>2 DEF Fresh
  <2>4. PICK k \in Int : Now = us + d + k * LONG  BY <2>3
  <2>5. PICK c \in Nat : LONG = c * WORD  BY DelayUnits
  <2> DEFINE q == us \div WORD
  <2>6. PICK S \in 0..TICK_US : S = waited - d  BY <1>2, <1>3, <2>2
  <2>7. Elapsed(S)' = d
    <3>1. (asked - ms) * MS = 0
      <4>1. asked - ms = 0  BY <1>2, <2>2
      <4>2. 0 * MS = 0  BY Units
      <4> QED  BY <4>1, <4>2
    <3>2. Elapsed(S)' = waited - S - (asked - ms) * MS  BY <2>1 DEF Elapsed
    <3> QED  BY <1>2, <2>6, <3>1, <3>2
  <2>8. \E i \in Int : Now' = start' + Elapsed(S)' + i * WORD
    <3>1. us = q * WORD + (us % WORD) /\ q \in Int /\ us % WORD \in Int  BY <1>2, <1>4
    <3> HIDE DEF q
    <3>2. (q + k * c) * WORD = q * WORD + k * LONG /\ q + k * c \in Int
          /\ q * WORD \in Int /\ k * LONG \in Int
      BY <1>2, <2>5, <3>1
    <3>3. Now = (us % WORD) + d + (q + k * c) * WORD  BY <1>4, <2>4, <3>1, <3>2
    <3> QED  BY <1>1, <2>1, <2>7, <3>2, <3>3
  <2>9. gap' * TICK_US = g  BY <2>1
  <2>10. Elapsed(S)' >= 0 /\ Elapsed(S)' - gap' * TICK_US < MS + 0
    <3> HIDE DEF g
    <3> QED  BY <1>2, <2>2, <2>7, <2>9
  <2>11. Polled(S)'  BY <1>1, <1>5, <2>8, <2>10 DEF Polled, Fresh
  <2>12. Lasting'  BY <1>5, <2>1, <2>11 DEF Lasting
  <2> QED  BY <1>6, <2>12
<1>7. CASE caller = "poll"
  <2>1. PICK S \in 0..TICK_US : Polled(S)  BY <1>7 DEF Lasting
  <2> DEFINE e == Elapsed(S)
  <2>2. e = waited - S - J /\ e \in Nat  BY <1>1, <2>1, PollReads DEF Elapsed
  <2>3. PICK d \in Nat : d <= g /\ d <= e /\ ((us % WORD) - start) % WORD = e - d
    BY <1>1, <2>1, PollReads DEF us
  <2>4. e - g < MS + G  BY <1>1, <2>1 DEF Polled
  <2>5. PICK k \in Int : Now = start + e + k * WORD  BY <2>1 DEF Polled
  <2>6. start \in 0..(WORD - 1)  BY DEF TimeTypeOK
  <2>7. DelayStep(us)  BY <1>7 DEF MicrosReturn, us
  <2> HIDE DEF e, g, G
  <2>8. CASE e - d >= MS
    <3>1. ms' = ms - 1 /\ (ms' # 0 => start' = (start + MS) % WORD)
      BY <2>3, <2>7, <2>8 DEF DelayStep
    <3>2. (asked - ms') * MS = J + MS  BY <1>2, <3>1
    <3> HIDE DEF J
    <3>3. J + MS <= waited /\ waited < J + MS + Slack
      BY <1>2, <1>3, <2>2, <2>3, <2>4, <2>8
    <3>4. Lasting'
      <4>1. CASE ms' = 0
        <5>1. asked' = 0  BY <1>7, <4>1 DEF MicrosReturn
        <5> QED  BY <5>1 DEF Lasting
      <4>2. CASE ms' # 0
        <5>1. caller' = "poll" /\ UNCHANGED <<asked, gap, waited>>
          BY <1>7, <4>2 DEF MicrosReturn
        <5>2. Elapsed(S)' = e - MS
          <6>1. Elapsed(S)' = waited - S - (J + MS)  BY <3>2, <5>1 DEF Elapsed
          <6> QED  BY <1>2, <2>2, <6>1
        <5>3. gap' * TICK_US = g  BY <5>1 DEF g
        <5>4. Elapsed(S)' >= 0 /\ Elapsed(S)' - gap' * TICK_US < MS + 0
          BY <1>2, <2>2, <2>3, <2>4, <2>8, <5>2, <5>3
        <5>5. \E i \in Int : Now' = start' + Elapsed(S)' + i * WORD
          <6> DEFINE x == start + MS
                     q == x \div WORD
          <6>1. x \in Int  BY <1>2, <2>6
          <6>2. x = q * WORD + (x % WORD) /\ q \in Int /\ x % WORD \in Int  BY <1>2, <6>1
          <6>3. start' = x % WORD  BY <3>1, <4>2
          <6> HIDE DEF q
          <6>4. (q + k) * WORD = q * WORD + k * WORD /\ q + k \in Int
                /\ q * WORD \in Int /\ k * WORD \in Int
            BY <1>2, <6>2
          <6>5. start + e + k * WORD = start' + (e - MS) + (q + k) * WORD
            BY <1>2, <2>2, <2>6, <6>2, <6>3, <6>4
          <6> QED  BY <1>1, <2>5, <5>2, <6>4, <6>5
        <5>6. Polled(S)'  BY <1>1, <1>5, <5>4, <5>5 DEF Polled, Fresh
        <5> QED  BY <1>5, <5>1, <5>6 DEF Lasting
      <4> QED  BY <4>1, <4>2
    <3> QED  BY <3>2, <3>3, <3>4
  <2>9. CASE ~(e - d >= MS)
    <3>1. ms' = ms /\ ms' # 0 /\ start' = start  BY <1>2, <2>3, <2>7, <2>9 DEF DelayStep
    <3>2. caller' = "poll" /\ UNCHANGED <<asked, gap, waited>>
      BY <1>7, <3>1 DEF MicrosReturn
    <3>3. Elapsed(S)' = e  BY <3>1, <3>2 DEF Elapsed, e
    <3>4. gap' * TICK_US = g  BY <3>2 DEF g
    <3>5. Elapsed(S)' >= 0 /\ Elapsed(S)' - gap' * TICK_US < MS + 0
      BY <1>2, <2>2, <2>3, <2>9, <3>3, <3>4
    <3>6. \E i \in Int : Now' = start' + Elapsed(S)' + i * WORD  BY <1>1, <2>5, <3>1, <3>3
    <3>7. Polled(S)'  BY <1>1, <1>5, <3>5, <3>6 DEF Polled, Fresh
    <3>8. Lasting'  BY <1>5, <3>2, <3>7 DEF Lasting
    <3> QED  BY <1>2, <3>1, <3>8
  <2> QED  BY <2>8, <2>9
<1> QED  BY <1>1, <1>6, <1>7 DEF TimeTypeOK

LEMMA LastingStep ==
  ASSUME TimeTypeOK, Delaying, ClockInv, Lasting, [TimeNext]_timeVars,
         MaxGap * TICK_US <= MS, MS + (MaxGap + 1) * TICK_US <= WORD
  PROVE  Lasting'
<1> USE DEF hardware, counters, reading, delaying
<1>1. ASSUME asked = 0, asked' = 0 PROVE Lasting'  BY <1>1 DEF Lasting
<1>2. asked \in Nat  BY DelayAssumption DEF TimeTypeOK
<1>3. CASE UNCHANGED timeVars
  BY <1>3 DEF timeVars, Lasting, Masked, Fresh, Polled, Elapsed, Now, Seen, Carry
<1>4. CASE Tick
  <2>1. asked = 0 => asked' = 0  BY <1>4 DEF Tick
  <2> QED  BY <1>1, <1>2, <1>4, <2>1, LastingTick
<1>5. CASE Overflow
  <2>1. /\ UNCHANGED <<timePc, gap, caller, ms, asked, start, waited>> /\ Now' = Now /\ Seen' = Seen
    BY <1>5, OverflowStutters DEF Overflow
  <2> QED  BY <2>1 DEF Lasting, Masked, Fresh, Polled, Elapsed
<1>6. CASE MillisCall \/ MillisReturn \/ MicrosCall
  <2>1. asked = 0 /\ asked' = 0
    BY <1>2, <1>6 DEF MillisCall, MillisReturn, MicrosCall, Delaying
  <2> QED  BY <1>1, <2>1
<1>7. CASE DelayCall
  <2>1. /\ caller' = "start" /\ ms' = asked' /\ waited' = 0 /\ gap' = 0 /\ timePc' = "readTimer"
    BY <1>7 DEF DelayCall, MicrosBegin
  <2>2. 0 = 0 * TICK_US  BY TimeConstants
  <2> QED  BY <2>1, <2>2 DEF Lasting, Fresh
<1>8. CASE DelayPoll
  <2>1. /\ timePc = "idle" /\ caller = "poll" /\ gap' = 0 /\ timePc' = "readTimer" /\ Now' = Now
        /\ UNCHANGED <<caller, ms, asked, start, waited>>
    BY <1>8 DEF DelayPoll, MicrosBegin, Now
  <2>2. asked > 0  BY <1>2, <2>1 DEF Delaying
  <2>3. PICK S \in 0..TICK_US : Polled(S)  BY <2>1, <2>2 DEF Lasting
  <2>4. Elapsed(S)' = Elapsed(S)  BY <2>1 DEF Elapsed
  <2>5. Elapsed(S)' - gap' * TICK_US < MS + MaxGap * TICK_US
    <3> DEFINE e == Elapsed(S)
               J == (asked - ms) * MS
               G == MaxGap * TICK_US
               g == gap * TICK_US
    <3>1. e = waited - S - J /\ e - g < MS + 0  BY <2>1, <2>3 DEF Elapsed, Polled
    <3>2. /\ J \in Nat /\ waited \in Nat /\ g \in Nat /\ G \in Nat /\ MS \in Nat /\ TICK_US \in Nat
      BY <2>2, Counted, DelayUnits, Units, TimeConstants
    <3>3. g <= G
      <4> DEFINE r == MaxGap - gap
      <4>1. r \in Nat /\ gap \in Nat /\ MaxGap = gap + r  BY DelayUnits DEF TimeTypeOK
      <4> HIDE DEF r
      <4>2. G = g + r * TICK_US /\ r * TICK_US \in Nat  BY <4>1, TimeConstants
      <4> QED  BY <3>2, <4>2
    <3> HIDE DEF J, G, g
    <3>4. e \in Int /\ e < MS + G  BY <3>1, <3>2, <3>3
    <3> HIDE DEF e
    <3>5. gap' * TICK_US = 0  BY <2>1, TimeConstants
    <3>6. e - gap' * TICK_US < MS + G  BY <3>2, <3>4, <3>5
    <3> QED  BY <2>4, <3>6 DEF e, G
  <2>6. \E i \in Int : Now' = start' + Elapsed(S)' + i * WORD  BY <2>1, <2>3, <2>4 DEF Polled
  <2>7. Polled(S)'  BY <2>1, <2>3, <2>4, <2>5, <2>6 DEF Polled, Fresh
  <2> QED  BY <2>1, <2>7 DEF Lasting
<1>9. CASE MicrosReadTimer
  <2>1. /\ timePc = "readTimer" /\ timePc' = "testFlag" /\ Seen' = Now /\ Now' = Now /\ Now \in Int
        /\ UNCHANGED <<gap, caller, ms, asked, start, waited>>
    BY <1>9, ReadTimerReads, Values, TimeConstants DEF MicrosReadTimer
  <2>2. CASE asked = 0  BY <1>1, <2>1, <2>2
  <2>3. CASE asked > 0
    <3>1. waited \in Nat /\ gap * TICK_US \in Nat  BY <2>3, Counted
    <3>2. Now' = Seen' + 0 + 0 * LONG  BY <2>1, TimeConstants
    <3>3. ASSUME NEW e \in Nat
          PROVE  \E d \in 0..e : d <= gap' * TICK_US /\ \E k \in Int : Now' = Seen' + d + k * LONG
      <4>1. 0 \in 0..e /\ 0 <= gap' * TICK_US /\ 0 \in Int  BY <2>1, <3>1
      <4> QED  BY <3>2, <4>1
    <3>4. CASE caller = "start"
      <4>1. ms = asked /\ waited = gap * TICK_US /\ (Masked => gap <= 1)
        BY <2>3, <3>4 DEF Lasting
      <4>2. Fresh(waited)'  BY <2>1, <3>1, <3>3 DEF Fresh
      <4> QED  BY <2>1, <3>4, <4>1, <4>2 DEF Lasting, Masked
    <3>5. CASE caller # "start"
      <4>1. PICK S \in 0..TICK_US : Polled(S)  BY <2>3, <3>5 DEF Lasting
      <4>2. Elapsed(S)' = Elapsed(S) /\ Elapsed(S) \in Nat
        <5>1. Elapsed(S) \in Int
          <6>1. (asked - ms) * MS \in Nat  BY <2>3, Counted
          <6> QED  BY <3>1, <6>1, TimeConstants DEF Elapsed
        <5>2. Elapsed(S)' = Elapsed(S)  BY <2>1 DEF Elapsed
        <5> QED  BY <4>1, <5>1, <5>2 DEF Polled
      <4>3. Fresh(Elapsed(S))'  BY <3>3, <4>2 DEF Fresh
      <4>4. Polled(S)'  BY <2>1, <4>1, <4>2, <4>3 DEF Polled
      <4>5. Masked => gap <= 1  BY <2>3 DEF Lasting
      <4> QED  BY <2>1, <3>5, <4>4, <4>5 DEF Lasting, Masked
    <3> QED  BY <3>4, <3>5
  <2> QED  BY <1>2, <2>2, <2>3
<1>10. CASE MicrosReturn
  <2>1. asked = 0 => asked' = 0  BY <1>2, <1>10 DEF MicrosReturn, Delaying
  <2> QED  BY <1>1, <1>2, <1>10, <2>1, LastingReturn
<1> QED  BY <1>3, <1>4, <1>5, <1>6, <1>7, <1>8, <1>9, <1>10 DEF TimeNext, Sketch

\* delay() never counts down early, and is never more than two polls behind, for every
\* delay, if it polls at least once in a millisecond and its 16 bits hold a millisecond
\* and what passes between two polls.
THEOREM DelaysExact ==
  ASSUME MaxGap * TICK_US <= MS, MS + (MaxGap + 1) * TICK_US <= WORD
  PROVE  TimeSpec => DelayExact
<1> DEFINE Exact == ms' < ms /\ caller = "poll" =>
                      LET due == (asked - ms') * MS
                      IN  due <= waited /\ waited < due + Slack
<1>1. TimeInit => Lasting  BY DEF TimeInit, Lasting
<1>2. ASSUME TimeTypeOK, Delaying, ClockInv, Lasting, [TimeNext]_timeVars PROVE [Exact]_timeVars
  <2>1. ms \in Nat /\ asked \in Nat  BY <1>2, DelayAssumption DEF TimeTypeOK
  <2>2. CASE MicrosReturn
    <3>1. caller = "poll" => asked > 0  BY <1>2, <2>1 DEF Delaying
    <3> QED  BY <1>2, <2>2, <3>1, LastingReturn
  <2>3. CASE ~MicrosReturn
    <3>1. ms' = ms \/ caller = "sketch"
      BY <1>2, <2>1, <2>3
      DEF TimeNext, Sketch, timeVars, delaying, Delaying, Tick, Overflow, MillisCall, MillisReturn,
          MicrosCall, MicrosReadTimer, DelayCall, DelayPoll
    <3> QED  BY <2>1, <3>1
  <2> QED  BY <2>2, <2>3
<1>3. TimeTypeOK /\ Delaying /\ ClockInv /\ Lasting /\ [TimeNext]_timeVars =>
        TimeTypeOK' /\ Delaying' /\ ClockInv' /\ Lasting'
  BY TimeTypesStep, ClockStep, LastingStep
<1>4. TimeInit => TimeTypeOK /\ Delaying /\ ClockInv  BY TimeTypes, ClockInit
<1> HIDE DEF Exact
<1>5. TimeSpec => [][Exact]_timeVars  BY <1>1, <1>2, <1>3, <1>4, PTL DEF TimeSpec
<1> QED  BY <1>5 DEF Exact, DelayExact
-----------------------------------------------------------------------------
(***** Tone *****)

\* Where tone() has not yet, and where it has, made the timer its pin's.
Setting == {"setPrescale", "setCompare", "countLow", "countHigh", "enable"}

\* What toggle_count holds when only the low part of the new count is stored.
Stored == (Forever \div COUNT_LOW) * COUNT_LOW + (ToggleCount(freq, dur) % COUNT_LOW)

\* The interrupt toggles the pin that holds the timer, except while noTone()
\* is about to stop it.
Owner == /\ tone_pin # NOBODY => timer2_pin = tone_pin \/ tonePc = "setTimer"
         /\ ocie => tone_pin # NOBODY \/ tonePc = "disable"

\* What the sketch relies on between two of its stores.
Place == /\ tonePc \in Setting \cup {"setTimer"} => tone_pin = arg /\ arg # NOBODY
         /\ tonePc = "setTimer" => ~ocie
         /\ tonePc = "begin" => arg # NOBODY
         /\ tonePc = "disable" => tone_pin = NOBODY
         /\ tonePc = "write" => tone_pin # arg
         /\ tonePc \in {"disable", "write"} => arg # NOBODY
         /\ tonePc = "idle" => arg = NOBODY

\* A tone that is changed while it plays had no duration, and does not end
\* before the new count is in place.
Endless == ocie /\ tone_pin = arg /\ tone_pin # NOBODY =>
             /\ tonePc \in {"begin", "setPrescale", "setCompare", "countLow"} => toggle_count = Forever
             /\ tonePc = "countHigh" => toggle_count = Stored
             /\ tonePc \in Setting \cup {"begin"} => ToggleCount(freq, dur) > 0

Args == freq \in Nat /\ dur \in Nat

ToneInv == Args /\ Owner /\ Place /\ Endless
-----------------------------------------------------------------------------
\* The count fits a long, and promises no more toggles than the duration.
LEMMA ToggleCountRange ==
  ASSUME NEW f \in Nat, NEW d \in Nat
  PROVE  /\ ToggleCount(f, d) \in 0..(COUNT_MOD - 1)
         /\ d = 0 => ToggleCount(f, d) = Forever
         /\ d > 0 => ToggleCount(f, d) * 1000 <= 2 * f * d
<1> DEFINE a == (2 * f) % UINT
           b == (a * d) % PRODUCT_MOD
           e == 2 * f * d
<1>1. COUNT_MOD \in Nat \ {0} /\ PRODUCT_MOD \in Nat \ {0} /\ PRODUCT_MOD <= 500 * COUNT_MOD
  BY CountAssumption
<1>2. a \in Nat /\ a <= 2 * f  BY DEF UINT
<1>3. ToggleCount(f, d) = IF d > 0 THEN b \div 1000 ELSE Forever  BY DEF ToggleCount
<1> HIDE DEF a
<1>4. a * d \in Nat /\ a * d <= e /\ e \in Nat
  <2>1. a * d <= (2 * f) * d  BY <1>2
  <2> QED  BY <1>2, <2>1
<1>5. b \in 0..(PRODUCT_MOD - 1) /\ b <= a * d  BY <1>1, <1>4
<1> HIDE DEF b, e
<1>6. b \div 1000 \in 0..(COUNT_MOD - 1) /\ (b \div 1000) * 1000 <= b  BY <1>1, <1>5
<1>7. (b \div 1000) * 1000 <= e  BY <1>1, <1>2, <1>4, <1>5, <1>6
<1> QED  BY <1>1, <1>3, <1>6, <1>7 DEF Forever, e

\* A count without end is not zero, and does not count down.
LEMMA ForeverNegative == Forever # 0 /\ ~Positive(Forever)
BY CountAssumption DEF Forever, Positive

\* Nor is the half-stored one.
LEMMA StoredNegative ==
  ASSUME Args
  PROVE  Stored # 0 /\ ~Positive(Stored)
<1> DEFINE k == Forever \div COUNT_LOW
           r == Forever % COUNT_LOW
           x == ToggleCount(freq, dur) % COUNT_LOW
<1>1. COUNT_LOW \in Nat \ {0} /\ COUNT_MOD \in Nat \ {0} /\ Forever \in Nat  BY CountAssumption DEF Forever
<1>2. k \in Nat /\ r \in 0..(COUNT_LOW - 1) /\ Forever = k * COUNT_LOW + r  BY <1>1
<1>3. x \in 0..(COUNT_LOW - 1)
  <2>1. ToggleCount(freq, dur) \in Nat  BY <1>1, ToggleCountRange DEF Args
  <2> QED  BY <1>1, <2>1
<1>4. Stored = k * COUNT_LOW + x  BY DEF Stored
<1> HIDE DEF k, r, x
<1>5. k * COUNT_LOW \in Nat  BY <1>1, <1>2
<1>6. Stored = Forever - r + x  BY <1>1, <1>2, <1>3, <1>4, <1>5
<1>7. Stored > Forever - COUNT_LOW  BY <1>1, <1>2, <1>3, <1>6
<1> QED  BY <1>6, <1>7, <1>1, <1>2, <1>3, CountAssumption DEF Forever, Positive

\* The initial state satisfies the invariant.
LEMMA InitHolds == ASSUME ToneInit PROVE ToneInv
BY PinAssumption DEF ToneInit, ToneInv, Args, Owner, Place, Endless, Setting

\* The interrupt keeps it.
LEMMA CompareHolds ==
  ASSUME ToneInv, Compare
  PROVE  ToneInv'
<1>1. UNCHANGED <<timer2_pin, tonePc, arg, freq, dur>> /\ Args' /\ ocie
  BY DEF Compare, toneCall, ToneInv, Args
<1>2. UNCHANGED Stored  BY <1>1 DEF Stored
<1>3. Args  BY DEF ToneInv
<1>4. CASE toggle_count = 0
  <2>1. tone_pin' = NOBODY /\ ocie' = FALSE  BY <1>4 DEF Compare, DisableTimer
  <2>2. tonePc \notin Setting \cup {"setTimer"}
    BY <1>1, <1>3, <1>4, ForeverNegative, StoredNegative DEF Compare, ToneInv, Place, Endless, Setting
  <2>3. Owner' /\ Place'  BY <1>1, <2>1, <2>2 DEF ToneInv, Owner, Place
  <2> QED  BY <1>1, <2>1, <2>3 DEF ToneInv, Endless
<1>5. CASE toggle_count # 0
  <2>1. UNCHANGED <<tone_pin, ocie>>  BY <1>5 DEF Compare, timer2
  <2>2. toggle_count' = IF Positive(toggle_count) THEN toggle_count - 1 ELSE toggle_count
    BY <1>5 DEF Compare
  <2>3. Owner' /\ Place'  BY <1>1, <2>1 DEF ToneInv, Owner, Place, Setting
  <2>4. Endless'
    BY <1>1, <1>2, <1>3, <2>1, <2>2, ForeverNegative, StoredNegative DEF ToneInv, Endless, Setting
  <2> QED  BY <1>1, <2>3, <2>4 DEF ToneInv
<1> QED  BY <1>4, <1>5

\* So do tone() and noTone().
LEMMA SketchHolds ==
  ASSUME ToneInv, Retrigger = FALSE, ToneCall \/ NoToneCall \/ ToneSketch
  PROVE  ToneInv'
<1>1. /\ Args /\ Owner /\ Place /\ Endless
      /\ (\A p \in Pins : p # NOBODY) /\ Forever # 0
  BY PinAssumption, ForeverNegative DEF ToneInv, NOBODY
<1> SUFFICES Args' /\ Owner' /\ Place' /\ Endless'  BY DEF ToneInv
<1> USE <1>1 DEF Args, Owner, Place, Endless, Setting, Goto, ToneReturn, toneCall, timer2
<1>2. CASE ToneCall
  <2>1. PICK p \in Pins, tn \in Tones :
          /\ Retrigger \/ tone_pin # p \/ (toggle_count = Forever /\ ToggleCount(tn[1], tn[2]) > 0)
          /\ arg' = p /\ freq' = tn[1] /\ dur' = tn[2]
    BY <1>2 DEF ToneCall
  <2>2. Args'
    <3>1. tn[1] \in Nat /\ tn[2] \in Nat  BY ToneAssumption
    <3> QED  BY <2>1, <3>1, Zenon DEF Args
  <2>3. tonePc' = "begin" /\ UNCHANGED <<tone_pin, timer2_pin, toggle_count, ocie>>  BY <1>2 DEF ToneCall
  <2>4. tonePc = "idle"  BY <1>2 DEF ToneCall
  <2>5. Owner' /\ Place'  BY <2>1, <2>3, <2>4
  <2>6. Endless'  BY <2>1, <2>3
  <2> QED  BY <2>2, <2>5, <2>6
<1>3. CASE ToneBegin  BY <1>3 DEF ToneBegin
<1>4. CASE ToneSetTimer  BY <1>4 DEF ToneSetTimer
<1>5. CASE ToneSetPrescale  BY <1>5 DEF ToneSetPrescale
<1>6. CASE ToneSetCompare  BY <1>6 DEF ToneSetCompare
<1>7. CASE ToneCountLow  BY <1>7 DEF ToneCountLow, Stored
<1>8. CASE ToneCountHigh  BY <1>8 DEF ToneCountHigh
<1>9. CASE ToneEnable  BY <1>9 DEF ToneEnable
<1>10. CASE NoToneCall  BY <1>10 DEF NoToneCall
<1>11. CASE NoToneDisable  BY <1>11 DEF NoToneDisable, DisableTimer
<1>12. CASE NoToneWrite  BY <1>12 DEF NoToneWrite
<1> QED  BY <1>2, <1>3, <1>4, <1>5, <1>6, <1>7, <1>8, <1>9, <1>10, <1>11, <1>12 DEF ToneSketch
-----------------------------------------------------------------------------
\* The invariant holds as long as sketches do not restart a timed tone.
LEMMA InvariantHolds == Retrigger = FALSE => (ToneSpec => []ToneInv)
<1> SUFFICES ASSUME Retrigger = FALSE PROVE ToneSpec => []ToneInv
  OBVIOUS
<1>1. ToneInit => ToneInv  BY InitHolds
<1>2. ToneInv /\ [ToneNext]_toneVars => ToneInv'
  <2>1. CASE UNCHANGED toneVars
    BY <2>1 DEF toneVars, toneCall, timer2, ToneInv, Args, Owner, Place, Endless, Stored
  <2>2. CASE ToneNext  BY <2>2, CompareHolds, SketchHolds DEF ToneNext
  <2> QED  BY <2>1, <2>2
<1> QED  BY <1>1, <1>2, PTL DEF ToneSpec

\* When noTone(p) returns nothing toggles p any more, whatever the interrupt
\* did meanwhile.
THEOREM NoToneSilences == Retrigger = FALSE => (ToneSpec => NoToneStops)
<1> SUFFICES ASSUME Retrigger = FALSE PROVE ToneSpec => NoToneStops
  OBVIOUS
<1> DEFINE A == tonePc = "write" /\ tonePc' = "idle" => ~(ocie' /\ timer2_pin' = arg)
<1>1. ToneInv /\ [ToneNext]_toneVars => [A]_toneVars
  <2> SUFFICES ASSUME ToneInv, ToneNext, tonePc = "write", tonePc' = "idle" PROVE ~(ocie' /\ timer2_pin' = arg)
    OBVIOUS
  <2>1. NoToneWrite
    BY DEF ToneNext, ToneSketch, Compare, ToneCall, NoToneCall, ToneBegin, ToneSetTimer, ToneSetPrescale,
           ToneSetCompare, ToneCountLow, ToneCountHigh, ToneEnable, NoToneDisable
  <2> QED  BY <2>1 DEF NoToneWrite, timer2, ToneInv, Owner, Place
<1> QED  BY <1>1, InvariantHolds, PTL DEF ToneSpec, NoToneStops
-----------------------------------------------------------------------------
\* Dividing twice is dividing by the product.
LEMMA HalfOfQuotient ==
  ASSUME NEW a \in Nat, NEW b \in Nat \ {0}
  PROVE  (a \div b) \div 2 = a \div (2 * b)
<1> DEFINE q == a \div b
           r == a % b
           h == q \div 2
           i == q % 2
<1>1. q \in Nat /\ r \in 0..(b - 1) /\ a = q * b + r  OBVIOUS
<1> HIDE DEF q, r
<1>2. h \in Nat /\ i \in 0..1 /\ q = h * 2 + i  BY <1>1
<1> HIDE DEF h, i
<1> DEFINE s == i * b + r
<1>3. s \in 0..(2 * b - 1)
  <2>1. CASE i = 0  BY <1>1, <2>1
  <2>2. CASE i = 1  BY <1>1, <2>2
  <2> QED  BY <1>2, <2>1, <2>2
<1>4. a = h * (2 * b) + s
  <2>1. (h * 2 + i) * b = h * (2 * b) + i * b  BY <1>1, <1>2
  <2>2. q * b = h * (2 * b) + i * b  BY <1>2, <2>1
  <2> QED  BY <1>1, <1>2, <2>2
<1> HIDE DEF s
<1>5. (h * (2 * b) + s) \div (2 * b) = h
  <2>1. 2 * b \in Nat \ {0}  OBVIOUS
  <2> QED  BY <1>2, <1>3, <2>1, DivUnique
<1> QED  BY <1>4, <1>5 DEF h, q

\* What tone() computes for a pitch in the timer's reach: a prescaler, and a compare value
\* that fits its register, for a period short by at most one part in 37.
InReach(f) == f \in Nat \ {0} /\ Half(f) > 0 /\ Half(f) < 257 * 1024

LEMMA PrescalerFits ==
  ASSUME NEW f \in Nat, InReach(f)
  PROVE  LET p == Prescaler(f) real == ((Ocr(f, p) % 256) + 1) * p
         IN  /\ p \in Prescalers
             /\ real <= Half(f)
             /\ (Half(f) - real) * 37 <= Half(f)
<1> DEFINE h == Half(f)
           fits == {p \in Prescalers : Ocr(f, p) <= 255}
           p == Prescaler(f)
<1>0. F_CPU \in Nat  BY ClockAssumption
<1>1. h \in Nat \ {0} /\ h < 257 * 1024
  <2>1. Half(f) \in Int
    <3>1. 2 * f \in Nat \ {0} /\ F_CPU \in Nat  BY <1>0 DEF InReach
    <3> QED  BY <3>1 DEF Half
  <2> QED  BY <2>1 DEF InReach
<1>2. \A q \in Prescalers : Ocr(f, q) = (h \div q) - 1
  <2>1. (F_CPU \div f) \div 2 = h
    <3>1. f \in Nat \ {0} /\ F_CPU \in Nat  BY <1>0 DEF InReach
    <3> QED  BY <3>1, HalfOfQuotient DEF Half
  <2> QED  BY <2>1 DEF Ocr
<1> HIDE DEF h
<1>3. 1024 \in fits
  <2>1. h \div 1024 <= 256  BY <1>1
  <2> QED  BY <1>1, <1>2, <2>1 DEF Prescalers
<1>4. p \in fits /\ \A q \in fits : p <= q
  <2>1. \E u \in fits : \A q \in fits : u <= q
    <3> DEFINE least(u) == u \in fits /\ \A q \in fits : u <= q
    <3>1. \A q \in fits : q \in {1, 8, 32, 64, 128, 256, 1024}  BY DEF Prescalers
    <3> HIDE DEF fits
    <3>2. least(1) \/ least(8) \/ least(32) \/ least(64) \/ least(128) \/ least(256) \/ least(1024)
      BY <1>3, <3>1
    <3> QED  BY <3>2
  <2>2. fits # {}  BY <1>3
  <2>3. p = CHOOSE u \in fits : \A q \in fits : u <= q  BY <2>2 DEF Prescaler
  <2> HIDE DEF fits, p
  <2> QED  BY <2>1, <2>3
<1>5. p \in Prescalers  BY <1>4
<1>6. h \div p <= 256
  <2>1. Ocr(f, p) <= 255 /\ Ocr(f, p) = (h \div p) - 1  BY <1>2, <1>4
  <2> HIDE DEF p
  <2>2. h \div p \in Int  BY <1>1, <1>5 DEF Prescalers
  <2> QED  BY <2>1, <2>2
<1>7. ASSUME NEW q \in Prescalers, q < p PROVE h \div q > 256
  <2>1. q \notin fits  BY <1>4, <1>5, <1>7 DEF Prescalers
  <2>2. ~(h \div q - 1 <= 255)  BY <1>2, <2>1
  <2>3. h \div q \in Int  BY <1>1 DEF Prescalers
  <2> QED  BY <2>2, <2>3
<1> DEFINE k == h \div p
<1>8. k \in 1..256 /\ k * p <= h /\ (h - k * p) * 37 <= h
  <2> HIDE DEF p
  <2>1. CASE p = 1  BY <1>1, <1>6, <2>1
  <2>2. CASE p = 8
    <3>1. h \div 1 > 256  BY <1>7, <2>2 DEF Prescalers
    <3> QED  BY <1>1, <1>6, <2>2, <3>1
  <2>3. CASE p = 32
    <3>1. h \div 8 > 256  BY <1>7, <2>3 DEF Prescalers
    <3> QED  BY <1>1, <1>6, <2>3, <3>1
  <2>4. CASE p = 64
    <3>1. h \div 32 > 256  BY <1>7, <2>4 DEF Prescalers
    <3> QED  BY <1>1, <1>6, <2>4, <3>1
  <2>5. CASE p = 128
    <3>1. h \div 64 > 256  BY <1>7, <2>5 DEF Prescalers
    <3> QED  BY <1>1, <1>6, <2>5, <3>1
  <2>6. CASE p = 256
    <3>1. h \div 128 > 256  BY <1>7, <2>6 DEF Prescalers
    <3> QED  BY <1>1, <1>6, <2>6, <3>1
  <2>7. CASE p = 1024
    <3>1. h \div 256 > 256  BY <1>7, <2>7 DEF Prescalers
    <3> QED  BY <1>1, <1>6, <2>7, <3>1
  <2> QED  BY <1>5, <2>1, <2>2, <2>3, <2>4, <2>5, <2>6, <2>7 DEF Prescalers
<1>9. Ocr(f, p) % 256 = k - 1
  <2>1. Ocr(f, p) = k - 1  BY <1>2, <1>5
  <2> HIDE DEF k, p
  <2> QED  BY <1>8, <2>1
<1>10. ((Ocr(f, p) % 256) + 1) * p = k * p
  <2> HIDE DEF k, p
  <2> QED  BY <1>8, <1>9
<1> HIDE DEF k, p
<1> QED  BY <1>5, <1>8, <1>10 DEF h, p

\* Whatever the pitch, the prescaler is one of the timer's.
LEMMA PrescalerType ==
  ASSUME NEW f
  PROVE  Prescaler(f) \in Prescalers
<1> DEFINE fits == {p \in Prescalers : Ocr(f, p) <= 255}
           least(u) == u \in fits /\ \A q \in fits : u <= q
<1>1. CASE fits = {}  BY <1>1 DEF Prescaler, Prescalers
<1>2. CASE fits # {}
  <2>1. \E u \in fits : \A q \in fits : u <= q
    <3>1. \A q \in fits : q \in {1, 8, 32, 64, 128, 256, 1024}  BY DEF Prescalers
    <3> HIDE DEF fits
    <3>2. least(1) \/ least(8) \/ least(32) \/ least(64) \/ least(128) \/ least(256) \/ least(1024)
      BY <1>2, <3>1
    <3> QED  BY <3>2
  <2>2. Prescaler(f) = CHOOSE u \in fits : \A q \in fits : u <= q  BY <1>2 DEF Prescaler
  <2>3. Prescaler(f) \in fits
    <3> HIDE DEF fits
    <3> QED  BY <2>1, <2>2
  <2> QED  BY <2>3
<1> QED  BY <1>1, <1>2

\* The compare value is stored in a byte.
LEMMA OcrType ==
  ASSUME NEW f \in Nat \ {0}
  PROVE  Ocr(f, Prescaler(f)) % 256 \in Ocrs
<1> DEFINE p == Prescaler(f)
<1>1. p \in Nat \ {0}  BY PrescalerType DEF Prescalers
<1> HIDE DEF p
<1>2. F_CPU \div f \in Int  BY ClockAssumption
<1>3. (F_CPU \div f) \div 2 \in Int  BY <1>2
<1>4. Ocr(f, p) \in Int  BY <1>1, <1>3 DEF Ocr
<1> QED  BY <1>4 DEF p, Ocrs

\* A long put together from parts of two.
LEMMA Parts ==
  ASSUME NEW x \in 0..(COUNT_MOD - 1), NEW y \in 0..(COUNT_MOD - 1)
  PROVE  LET z == (x \div COUNT_LOW) * COUNT_LOW + (y % COUNT_LOW)
         IN  /\ z \in 0..(COUNT_MOD - 1)
             /\ z % COUNT_LOW = y % COUNT_LOW
             /\ x % COUNT_LOW = y % COUNT_LOW => z = x
<1> DEFINE l == COUNT_LOW
           k == x \div l
           r == x % l
           s == y % l
           u == COUNT_MOD \div l
<1>1. l \in Nat \ {0} /\ COUNT_MOD \in Nat \ {0} /\ COUNT_MOD % l = 0  BY CountAssumption
<1>2. k \in Nat /\ r \in 0..(l - 1) /\ x = k * l + r  BY <1>1
<1>3. s \in 0..(l - 1)  BY <1>1
<1>4. u \in Nat /\ COUNT_MOD = u * l  BY <1>1
<1> DEFINE z == k * l + s
<1> HIDE DEF k, r, s, u
<1>5. z \in 0..(COUNT_MOD - 1)
  <2>1. k * l < u * l  BY <1>1, <1>2, <1>4
  <2>2. k < u
    <3> SUFFICES ASSUME k >= u PROVE FALSE  BY <1>2, <1>4
    <3>1. k * l >= u * l  BY <1>1, <1>2, <1>4
    <3> QED  BY <1>1, <1>2, <1>4, <2>1, <3>1
  <2>3. (k + 1) * l <= u * l  BY <1>1, <1>2, <1>4, <2>2
  <2>4. (k + 1) * l = k * l + l /\ k * l \in Nat  BY <1>1, <1>2
  <2> QED  BY <1>1, <1>3, <1>4, <2>3, <2>4
<1>6. z % l = s  BY <1>1, <1>2, <1>3, ModUnique
<1>7. r = s => z = x  BY <1>2
<1> QED  BY <1>5, <1>6, <1>7 DEF k, r, s
-----------------------------------------------------------------------------
\* The sketch's arguments are a tone's while tone() is under way.
Asked == tonePc \in Setting \cup {"begin", "setTimer"} => arg \in Pins /\ freq \in Nat \ {0} /\ dur \in Nat

\* The types are kept, with any sketch.
LEMMA TypesKept ==
  ASSUME ToneTypeOK, Asked, [ToneNext]_toneVars
  PROVE  ToneTypeOK' /\ Asked'
<1>0. 1 \in Prescalers /\ 64 \in Prescalers /\ 0 \in Ocrs /\ 0 < UINT  BY DEF Prescalers, Ocrs, UINT
<1>1. CASE UNCHANGED toneVars
  BY <1>1 DEF ToneTypeOK, Asked, toneVars, toneCall, timer2
<1>2. CASE Compare
  <2>1. UNCHANGED <<timer2_pin, tonePc, arg, freq, dur, playing>> /\ timer2_pin \in Pins
    BY <1>2 DEF Compare, toneCall, ToneTypeOK
  <2>2. \/ UNCHANGED <<tone_pin, ocie, ctc, prescale, OCR2A>>
        \/ /\ tone_pin' = NOBODY /\ ocie' = FALSE /\ ctc' = FALSE /\ prescale' = 64 /\ OCR2A' = 0
    BY <1>2 DEF Compare, DisableTimer, timer2
  <2>3. level' \in [Pins -> {0, 1}]
    <3>1. level \in [Pins -> {0, 1}]  BY DEF ToneTypeOK
    <3>2. \/ level' = [level EXCEPT ![timer2_pin] = 1 - @]
          \/ level' = [q \in Pins |-> IF q = tone_pin THEN 0 ELSE level[q]]
      BY <1>2 DEF Compare, Low
    <3>3. level[timer2_pin] \in {0, 1} /\ 1 - level[timer2_pin] \in {0, 1}  BY <2>1, <3>1
    <3> QED  BY <3>1, <3>2, <3>3
  <2>4. toggle_count' \in 0..(COUNT_MOD - 1)
    <3>1. toggle_count \in 0..(COUNT_MOD - 1)  BY DEF ToneTypeOK
    <3>2. toggle_count' = toggle_count
            \/ (Positive(toggle_count) /\ toggle_count' = toggle_count - 1)
      BY <1>2 DEF Compare
    <3> QED  BY <3>1, <3>2, CountAssumption DEF Positive
  <2> QED  BY <1>0, <2>1, <2>2, <2>3, <2>4 DEF ToneTypeOK, Asked
<1> USE DEF Setting, Goto, ToneReturn, toneCall, timer2
<1>3. CASE ToneCall
  <2>1. PICK p \in Pins, tn \in Tones : arg' = p /\ freq' = tn[1] /\ dur' = tn[2]
    BY <1>3 DEF ToneCall
  <2>2. freq' < UINT /\ freq' \in Nat \ {0} /\ dur' \in Nat
    <3>1. tn \in Nat \X Nat /\ 0 < tn[1] /\ tn[1] < UINT  BY ToneAssumption
    <3> QED  BY <2>1, <3>1
  <2>3. /\ UNCHANGED <<tone_pin, timer2_pin, toggle_count, ocie, ctc, prescale, OCR2A, level, playing>>
        /\ tonePc' = "begin"
    BY <1>3 DEF ToneCall
  <2> QED  BY <2>1, <2>2, <2>3 DEF ToneTypeOK, Asked
<1>4. CASE ToneBegin  BY <1>0, <1>4 DEF ToneBegin, ToneTypeOK, Asked
<1>5. CASE ToneSetTimer
  <2>1. arg \in Pins  BY <1>5 DEF ToneSetTimer, Asked
  <2> QED  BY <1>5, <1>0, <2>1 DEF ToneSetTimer, ToneTypeOK, Asked
<1>6. CASE ToneSetPrescale  BY <1>6, PrescalerType DEF ToneSetPrescale, ToneTypeOK, Asked
<1>7. CASE ToneSetCompare  BY <1>7, OcrType DEF ToneSetCompare, ToneTypeOK, Asked
<1>8. CASE ToneCountLow \/ ToneCountHigh
  <2>1. freq \in Nat /\ dur \in Nat  BY <1>8 DEF ToneCountLow, ToneCountHigh, Asked
  <2>2. ToggleCount(freq, dur) \in 0..(COUNT_MOD - 1)  BY <2>1, ToggleCountRange
  <2>3. toggle_count \in 0..(COUNT_MOD - 1)  BY DEF ToneTypeOK
  <2>4. toggle_count' \in 0..(COUNT_MOD - 1)
    BY <1>8, <2>2, <2>3, Parts DEF ToneCountLow, ToneCountHigh
  <2> QED  BY <1>8, <2>4 DEF ToneCountLow, ToneCountHigh, ToneTypeOK, Asked
<1>9. CASE ToneEnable  BY <1>0, <1>9 DEF ToneEnable, ToneTypeOK, Asked
<1>10. CASE NoToneCall  BY <1>10 DEF NoToneCall, ToneTypeOK, Asked
<1>11. CASE NoToneDisable
  BY <1>11, <1>0 DEF NoToneDisable, DisableTimer, ToneTypeOK, Asked
<1>12. CASE NoToneWrite
  <2>1. level' \in [Pins -> {0, 1}]  BY <1>12 DEF NoToneWrite, Low, ToneTypeOK
  <2> QED  BY <1>0, <1>12, <2>1 DEF NoToneWrite, ToneTypeOK, Asked
<1> QED
  BY <1>1, <1>2, <1>3, <1>4, <1>5, <1>6, <1>7, <1>8, <1>9, <1>10, <1>11, <1>12
  DEF ToneNext, ToneSketch

\* They hold after power-up.
LEMMA TypesInit == ASSUME ToneInit PROVE ToneTypeOK /\ Asked
<1>1. 64 \in Prescalers /\ 0 \in Ocrs /\ 0 < UINT  BY DEF Prescalers, Ocrs, UINT
<1>2. 0 \in 0..(COUNT_MOD - 1)  BY CountAssumption
<1>3. level \in [Pins -> {0, 1}] /\ playing \in Nat \X Nat  BY DEF ToneInit
<1> QED  BY <1>1, <1>2, <1>3 DEF ToneInit, ToneTypeOK, Asked, Setting

\* Every variable keeps the type of its C declaration, also while a long is stored in two
\* parts and for pitches no prescaler reaches.
THEOREM TonesTyped == ToneSpec => []ToneTypeOK
<1>1. ToneInit => ToneTypeOK /\ Asked  BY TypesInit
<1>2. (ToneTypeOK /\ Asked) /\ [ToneNext]_toneVars => (ToneTypeOK /\ Asked)'  BY TypesKept
<1> QED  BY <1>1, <1>2, PTL DEF ToneSpec

\* A call of tone() or noTone() for another pin leaves a tone its pin, pitch and count.
THEOREM TonesApart == Retrigger = FALSE => (ToneSpec => TonesDoNotMix)
<1> SUFFICES ASSUME Retrigger = FALSE PROVE ToneSpec => TonesDoNotMix
  OBVIOUS
<1> DEFINE A == ocie /\ tone_pin # NOBODY /\ (\E a \in {arg, arg'} : a \notin {NOBODY, tone_pin}) =>
                  \/ /\ UNCHANGED <<tone_pin, timer2_pin, timer2>>
                     /\ \/ UNCHANGED toggle_count
                        \/ toggle_count' = toggle_count - 1 /\ level'[timer2_pin] # level[timer2_pin]
                  \/ toggle_count = 0 /\ toggle_count' = 0 /\ tone_pin' = NOBODY /\ ~ocie'
<1>1. ToneTypeOK /\ ToneInv /\ [ToneNext]_toneVars => [A]_toneVars
  <2> SUFFICES ASSUME ToneTypeOK, ToneInv, ToneNext PROVE A
    OBVIOUS
  <2> USE DEF ToneInv, Owner, Place, Setting, Goto, ToneReturn, timer2, toneCall
  <2>1. CASE Compare
    <3>1. CASE toggle_count # 0
      <4>1. level'[timer2_pin] = 1 - level[timer2_pin] /\ level[timer2_pin] \in {0, 1}
        BY <2>1, <3>1 DEF Compare, ToneTypeOK
      <4>2. level'[timer2_pin] # level[timer2_pin]  BY <4>1
      <4> QED  BY <2>1, <3>1, <4>2 DEF Compare
    <3>2. CASE toggle_count = 0  BY <2>1, <3>2 DEF Compare, DisableTimer
    <3> QED  BY <3>1, <3>2
  <2>2. CASE ToneCall  BY <2>2 DEF ToneCall
  <2>3. CASE ToneBegin  BY <2>3 DEF ToneBegin
  <2>4. CASE ToneSetTimer \/ ToneSetPrescale \/ ToneSetCompare \/ ToneCountLow \/ ToneCountHigh \/ ToneEnable
    BY <2>4 DEF ToneSetTimer, ToneSetPrescale, ToneSetCompare, ToneCountLow, ToneCountHigh, ToneEnable
  <2>5. CASE NoToneCall  BY <2>5 DEF NoToneCall
  <2>6. CASE NoToneDisable \/ NoToneWrite  BY <2>6 DEF NoToneDisable, NoToneWrite
  <2> QED  BY <2>1, <2>2, <2>3, <2>4, <2>5, <2>6 DEF ToneNext, ToneSketch
<1> QED  BY <1>1, TonesTyped, InvariantHolds, PTL DEF ToneSpec, TonesDoNotMix
-----------------------------------------------------------------------------
\* The pitches asked for are ones some prescaler reaches: at 16 MHz those from 31 Hz.  Below,
\* the compare value is cut to a byte and another pitch is played.
Audible == \A tn \in Tones : InReach(tn[1])

\* No more toggles are left than the duration asks for.
CountsFor(f, d) == IF d = 0 THEN toggle_count = Forever ELSE toggle_count * 1000 <= 2 * f * d

\* The timer plays pitch f for duration d.
Plays(f, d) == /\ InReach(f) /\ d \in Nat
               /\ ctc /\ prescale = Prescaler(f) /\ OCR2A = Ocr(f, Prescaler(f)) % 256
               /\ CountsFor(f, d)

\* The timer plays for the pin that has it, except while tone() sets it.
Playing == tone_pin # NOBODY /\ tonePc \notin Setting \cup {"setTimer"} =>
             ocie /\ Plays(playing[1], playing[2])

\* What tone() has set so far.
Set == /\ tonePc \in Setting \cup {"begin", "setTimer"} => InReach(freq)
       /\ tonePc \in Setting => ctc
       /\ tonePc \in Setting \ {"setPrescale"} => prescale = Prescaler(freq)
       /\ tonePc \in {"countLow", "countHigh", "enable"} => OCR2A = Ocr(freq, Prescaler(freq)) % 256
       /\ tonePc = "countHigh" =>
            toggle_count % COUNT_LOW = ToggleCount(freq, dur) % COUNT_LOW
       /\ tonePc = "enable" => CountsFor(freq, dur)

\* Only the pin that plays is high, and the one noTone() is about to make low.
Quiet == /\ \A p \in Pins : \/ level[p] = 0 \/ p = tone_pin
                            \/ tonePc \in {"disable", "write"} /\ p = arg
         /\ tonePc = "disable" /\ ocie => timer2_pin = arg

PlayInv == ToneTypeOK /\ Asked /\ ToneInv /\ Playing /\ Set /\ Quiet

\* A toggle leaves no more of them.
LEMMA ToggleCounts ==
  ASSUME ToneTypeOK, NEW f \in Nat, NEW d \in Nat, CountsFor(f, d),
         toggle_count' = IF Positive(toggle_count) THEN toggle_count - 1 ELSE toggle_count
  PROVE  CountsFor(f, d)'
<1>1. toggle_count \in Nat  BY CountAssumption DEF ToneTypeOK
<1>2. toggle_count = Forever => toggle_count' = Forever  BY ForeverNegative
<1>3. CASE d = 0  BY <1>2, <1>3 DEF CountsFor
<1>4. CASE d # 0
  <2> DEFINE e == 2 * f * d
  <2>1. e \in Nat /\ toggle_count * 1000 <= e  BY <1>4 DEF CountsFor
  <2> HIDE DEF e
  <2>2. toggle_count' * 1000 <= e  BY <1>1, <2>1
  <2> QED  BY <1>4, <2>2 DEF CountsFor, e
<1> QED  BY <1>3, <1>4

\* The interrupt plays on, or ends the tone.
LEMMA CompareKeeps ==
  ASSUME PlayInv, Compare
  PROVE  Playing' /\ Set' /\ Quiet'
<1>1. /\ UNCHANGED <<timer2_pin, tonePc, arg, freq, dur, playing>> /\ ocie
      /\ ToneTypeOK /\ ToneInv /\ Args /\ Owner /\ Place /\ Endless
      /\ Playing /\ Set /\ Quiet
  BY DEF Compare, toneCall, PlayInv, ToneInv
<1>2. level \in [Pins -> {0, 1}] /\ timer2_pin \in Pins  BY <1>1 DEF ToneTypeOK
<1>3. tonePc \in Setting =>
        /\ toggle_count # 0
        /\ tonePc # "enable" => ~Positive(toggle_count)
  BY <1>1, ForeverNegative, StoredNegative DEF Compare, Place, Endless, Setting
<1>4. CASE toggle_count = 0
  <2>1. tone_pin' = NOBODY /\ ocie' = FALSE /\ Low(tone_pin)
    BY <1>4 DEF Compare, DisableTimer
  <2>2. tonePc \notin Setting \cup {"setTimer"}  BY <1>1, <1>3, <1>4 DEF Place
  <2>3. Playing'  BY <2>1 DEF Playing
  <2>4. Set'
    BY <1>1, <2>2 DEF Set, Setting
  <2>5. Quiet'  BY <1>1, <1>2, <2>1 DEF Quiet, Low
  <2> QED  BY <2>3, <2>4, <2>5
<1>5. CASE toggle_count # 0
  <2>1. /\ UNCHANGED <<tone_pin, ocie, ctc, prescale, OCR2A>>
        /\ level' = [level EXCEPT ![timer2_pin] = 1 - @]
        /\ toggle_count' = IF Positive(toggle_count) THEN toggle_count - 1 ELSE toggle_count
    BY <1>5 DEF Compare, timer2
  <2>2. Playing'
    <3> SUFFICES ASSUME tone_pin # NOBODY, tonePc \notin Setting \cup {"setTimer"}
                 PROVE  Plays(playing[1], playing[2])'
      BY <1>1, <2>1 DEF Playing
    <3>1. Plays(playing[1], playing[2])  BY <1>1 DEF Playing
    <3>2. playing[1] \in Nat /\ playing[2] \in Nat /\ CountsFor(playing[1], playing[2])
      BY <3>1 DEF Plays, InReach
    <3>3. CountsFor(playing[1], playing[2])'  BY <1>1, <2>1, <3>2, ToggleCounts DEF CountsFor
    <3> QED  BY <1>1, <2>1, <3>1, <3>3 DEF Plays
  <2>3. Set'
    <3>1. tonePc = "countHigh" => toggle_count' = toggle_count  BY <1>3, <2>1 DEF Setting
    <3>2. tonePc = "enable" => CountsFor(freq, dur)'
      <4> SUFFICES ASSUME tonePc = "enable" PROVE CountsFor(freq, dur)'  OBVIOUS
      <4>1. freq \in Nat /\ dur \in Nat /\ CountsFor(freq, dur)  BY <1>1 DEF Args, Set
      <4> QED  BY <1>1, <2>1, <4>1, ToggleCounts DEF CountsFor
    <3>3. UNCHANGED ToggleCount(freq, dur) /\ UNCHANGED Prescaler(freq)
          /\ UNCHANGED Ocr(freq, Prescaler(freq)) /\ UNCHANGED InReach(freq)
      BY <1>1
    <3> QED  BY <1>1, <2>1, <3>1, <3>2, <3>3 DEF Set
  <2>4. Quiet'
    <3>1. tone_pin = timer2_pin \/ tonePc = "disable"  BY <1>1 DEF Owner, Place
    <3>2. tonePc = "disable" => timer2_pin = arg  BY <1>1 DEF Quiet
    <3> QED  BY <1>1, <1>2, <2>1, <3>1, <3>2 DEF Quiet
  <2> QED  BY <2>2, <2>3, <2>4
<1> QED  BY <1>4, <1>5

\* So do tone() and noTone().
LEMMA SketchKeeps ==
  ASSUME PlayInv, Audible, ToneCall \/ NoToneCall \/ ToneSketch
  PROVE  Playing' /\ Set' /\ Quiet'
<1>1. /\ ToneTypeOK /\ Asked /\ Args /\ Owner /\ Place /\ Playing /\ Set /\ Quiet
      /\ \A p \in Pins : p # NOBODY
  BY PinAssumption DEF PlayInv, ToneInv, NOBODY
<1>2. UNCHANGED <<toggle_count, ctc, prescale, OCR2A, playing>>
        => UNCHANGED Plays(playing[1], playing[2])
  BY DEF Plays, CountsFor
<1>3. UNCHANGED <<freq, dur>> =>
        /\ UNCHANGED ToggleCount(freq, dur) /\ UNCHANGED Prescaler(freq)
        /\ UNCHANGED Ocr(freq, Prescaler(freq)) /\ UNCHANGED InReach(freq)
  OBVIOUS
<1>4. UNCHANGED <<freq, dur, toggle_count>> => UNCHANGED CountsFor(freq, dur)  BY DEF CountsFor
<1> USE <1>1 DEF Place, Goto, ToneReturn, toneCall, timer2
<1>5. CASE ToneCall
  <2>1. PICK p \in Pins, tn \in Tones : arg' = p /\ freq' = tn[1] /\ dur' = tn[2]
    BY <1>5 DEF ToneCall
  <2>2. InReach(freq)'
    <3>1. InReach(tn[1])  BY DEF Audible
    <3> QED  BY <2>1, <3>1 DEF InReach, Half
  <2>3. /\ tonePc = "idle" /\ tonePc' = "begin"
        /\ UNCHANGED <<tone_pin, timer2_pin, toggle_count, ocie, ctc, prescale, OCR2A, level, playing>>
    BY <1>5 DEF ToneCall
  <2>4. Playing'  BY <1>2, <2>3 DEF Playing, Setting
  <2>5. Set'  BY <2>2, <2>3 DEF Set, Setting
  <2>6. Quiet'  BY <2>3 DEF Quiet
  <2> QED  BY <2>4, <2>5, <2>6
<1>6. CASE ToneBegin
  <2>1. /\ tonePc = "begin"
        /\ UNCHANGED <<timer2_pin, toggle_count, ocie, ctc, prescale, OCR2A, level, playing>>
    BY <1>6 DEF ToneBegin
  <2>2. Playing'  BY <1>2, <1>6, <2>1 DEF ToneBegin, Playing, Setting
  <2>3. Set'  BY <1>3, <1>6, <2>1 DEF ToneBegin, Set, Playing, Plays, Setting
  <2>4. Quiet'  BY <1>6, <2>1 DEF ToneBegin, Quiet
  <2> QED  BY <2>2, <2>3, <2>4
<1>7. CASE ToneSetTimer
  BY <1>3, <1>7 DEF ToneSetTimer, Playing, Set, Quiet, Setting
<1>8. CASE ToneSetPrescale
  BY <1>3, <1>8 DEF ToneSetPrescale, Playing, Set, Quiet, Setting
<1>9. CASE ToneSetCompare
  BY <1>3, <1>9 DEF ToneSetCompare, Playing, Set, Quiet, Setting
<1>10. CASE ToneCountLow \/ ToneCountHigh
  <2>1. /\ UNCHANGED <<tone_pin, timer2_pin, ocie, ctc, prescale, OCR2A, level, freq, dur, arg, playing>>
        /\ tonePc \in {"countLow", "countHigh"} /\ tonePc' \in {"countHigh", "enable"}
    BY <1>10 DEF ToneCountLow, ToneCountHigh
  <2>2. freq \in Nat /\ dur \in Nat /\ toggle_count \in 0..(COUNT_MOD - 1)
    BY DEF Args, ToneTypeOK
  <2> DEFINE new == ToggleCount(freq, dur)
  <2>3. new \in 0..(COUNT_MOD - 1)
    <3>1. \A f, d \in Nat : ToggleCount(f, d) \in 0..(COUNT_MOD - 1)  BY ToggleCountRange
    <3> QED  BY <2>2, <3>1
  <2>4. tonePc' = "countHigh" => toggle_count' % COUNT_LOW = ToggleCount(freq', dur') % COUNT_LOW
    BY <1>10, <2>1, <2>2, <2>3, Parts DEF ToneCountLow, ToneCountHigh
  <2>5. tonePc' = "enable" => toggle_count' = new
    <3> SUFFICES ASSUME tonePc' = "enable" PROVE toggle_count' = new  OBVIOUS
    <3>1. /\ toggle_count' = (new \div COUNT_LOW) * COUNT_LOW + (toggle_count % COUNT_LOW)
          /\ toggle_count % COUNT_LOW = new % COUNT_LOW
      BY <1>10 DEF ToneCountLow, ToneCountHigh, Set
    <3> QED  BY <2>2, <2>3, <3>1, Parts
  <2>6. tonePc' = "enable" => CountsFor(freq, dur)'
    BY <2>1, <2>2, <2>5, ToggleCountRange DEF CountsFor
  <2>7. Playing'  BY <2>1 DEF Playing, Setting
  <2>8. Set'  BY <1>3, <2>1, <2>4, <2>6 DEF Set, Setting
  <2>9. Quiet'  BY <2>1 DEF Quiet
  <2> QED  BY <2>7, <2>8, <2>9
<1>11. CASE ToneEnable
  <2>1. /\ tonePc = "enable" /\ tonePc' = "idle" /\ ocie' /\ playing' = <<freq, dur>>
        /\ UNCHANGED <<tone_pin, timer2_pin, toggle_count, ctc, prescale, OCR2A, level>>
    BY <1>11 DEF ToneEnable
  <2>2. Plays(freq, dur)  BY <2>1 DEF Plays, Set, Args, Setting
  <2>3. playing'[1] = freq /\ playing'[2] = dur  BY <2>1
  <2>4. Plays(playing[1], playing[2])'  BY <2>1, <2>2, <2>3 DEF Plays, CountsFor
  <2>5. Playing'  BY <2>1, <2>4 DEF Playing
  <2>6. Set'  BY <2>1 DEF Set, Setting
  <2>7. Quiet'  BY <2>1 DEF Quiet
  <2> QED  BY <2>5, <2>6, <2>7
<1>12. CASE NoToneCall
  <2>1. PICK p \in Pins : /\ arg' = p
                          /\ IF tone_pin = p THEN tone_pin' = NOBODY /\ tonePc' = "disable"
                                             ELSE tone_pin' = tone_pin /\ tonePc' = "write"
    BY <1>12 DEF NoToneCall
  <2>2. /\ tonePc = "idle"
        /\ UNCHANGED <<timer2_pin, toggle_count, ocie, ctc, prescale, OCR2A, level, playing>>
    BY <1>12 DEF NoToneCall
  <2>3. Playing'  BY <1>2, <2>1, <2>2 DEF Playing, Setting
  <2>4. Set'  BY <2>1, <2>2 DEF Set, Setting
  <2>5. Quiet'  BY <2>1, <2>2 DEF Quiet, Owner
  <2> QED  BY <2>3, <2>4, <2>5
<1>13. CASE NoToneDisable
  <2>1. /\ tonePc = "disable" /\ tonePc' = "write" /\ ocie' = FALSE /\ tone_pin = NOBODY
        /\ UNCHANGED <<tone_pin, level, arg>>
    BY <1>13 DEF NoToneDisable, DisableTimer
  <2> QED  BY <2>1 DEF Playing, Set, Quiet, Setting
<1>14. CASE NoToneWrite
  <2>1. /\ tonePc = "write" /\ tonePc' = "idle" /\ Low(arg)
        /\ UNCHANGED <<tone_pin, timer2_pin, toggle_count, ocie, ctc, prescale, OCR2A, playing>>
    BY <1>14 DEF NoToneWrite
  <2>2. Playing'  BY <1>2, <2>1 DEF Playing, Setting
  <2>3. Set'  BY <2>1 DEF Set, Setting
  <2>4. Quiet'  BY <2>1 DEF Quiet, Low
  <2> QED  BY <2>2, <2>3, <2>4
<1> QED
  BY <1>5, <1>6, <1>7, <1>8, <1>9, <1>10, <1>11, <1>12, <1>13, <1>14 DEF ToneSketch

\* Between calls the timer plays what tone() last asked for, on the pin that has it, or
\* nothing: the pitch is the prescaler's best, the count never more than the duration's,
\* and every other pin is low.
THEOREM TonesAsAsked == ASSUME Retrigger = FALSE, Audible PROVE ToneSpec => []ToneAsAsked
<1>1. ToneInit => PlayInv
  <2>1. ToneInit => ToneTypeOK /\ Asked  BY TypesInit
  <2>2. ToneInit => ToneInv  BY InitHolds
  <2>3. ToneInit => Playing /\ Set /\ Quiet  BY DEF ToneInit, Playing, Set, Quiet, Setting
  <2> QED  BY <2>1, <2>2, <2>3 DEF PlayInv
<1>2. PlayInv /\ [ToneNext]_toneVars => PlayInv'
  <2> SUFFICES ASSUME PlayInv, [ToneNext]_toneVars PROVE PlayInv'  OBVIOUS
  <2>1. ToneTypeOK' /\ Asked'  BY TypesKept DEF PlayInv
  <2>2. CASE UNCHANGED toneVars
    BY <2>2
    DEF toneVars, toneCall, timer2, PlayInv, ToneTypeOK, Asked, ToneInv, Args, Owner, Place, Endless,
        Stored, Playing, Set, Quiet, Plays, CountsFor
  <2>3. CASE ToneNext
    <3>1. ToneInv'  BY <2>3, CompareHolds, SketchHolds DEF ToneNext, PlayInv
    <3>2. Playing' /\ Set' /\ Quiet'  BY <2>3, CompareKeeps, SketchKeeps DEF ToneNext
    <3> QED  BY <2>1, <3>1, <3>2 DEF PlayInv
  <2> QED  BY <2>2, <2>3
<1>3. PlayInv => ToneAsAsked
  <2> SUFFICES ASSUME PlayInv, tonePc = "idle" PROVE ToneAsAsked  BY DEF ToneAsAsked
  <2>1. ocie <=> tone_pin # NOBODY  BY DEF PlayInv, Playing, ToneInv, Owner, Setting
  <2>2. \A p \in Pins : p # tone_pin => level[p] = 0  BY DEF PlayInv, Quiet
  <2> DEFINE f == playing[1]
             d == playing[2]
             real == (OCR2A + 1) * prescale
  <2>3. ASSUME ocie
        PROVE  /\ timer2_pin = tone_pin /\ ctc
               /\ real <= Half(f) /\ (Half(f) - real) * 37 <= Half(f)
               /\ IF d = 0 THEN toggle_count = Forever ELSE toggle_count * 1000 <= 2 * f * d
    <3>1. Plays(f, d)  BY <2>1, <2>3 DEF PlayInv, Playing, Setting
    <3>2. timer2_pin = tone_pin  BY <2>1, <2>3 DEF PlayInv, ToneInv, Owner
    <3>3. /\ prescale = Prescaler(f) /\ OCR2A = Ocr(f, Prescaler(f)) % 256
          /\ f \in Nat /\ InReach(f) /\ ctc /\ CountsFor(f, d)
      BY <3>1 DEF Plays, InReach
    <3> HIDE DEF f, d
    <3>4. real <= Half(f) /\ (Half(f) - real) * 37 <= Half(f)  BY <3>3, PrescalerFits
    <3> QED  BY <3>2, <3>3, <3>4 DEF CountsFor
  <2> QED  BY <2>1, <2>2, <2>3 DEF ToneAsAsked
<1> QED  BY <1>1, <1>2, <1>3, PTL DEF ToneSpec
-----------------------------------------------------------------------------
(***** Servo *****)

\* What an int8_t holds, and what a pulse can last in ticks.
Bytes8 == -128..127
Shortest == 68
Longest  == 5820

\* An int8_t keeps what it can hold.
LEMMA Int8Range ==
  ASSUME NEW n \in Int
  PROVE  Int8(n) \in Bytes8 /\ (n \in Bytes8 => Int8(n) = n)
BY DEF Int8, Bytes8

\* The limits are kept in steps of 4, rounded towards the default.
LEMMA Quarter ==
  ASSUME NEW n \in Int
  PROVE  /\ Truncate(n, 4) \in Int
         /\ n >= -515 /\ n <= 511 => Truncate(n, 4) \in Bytes8
         /\ n - 4 * Truncate(n, 4) \in -3..3
<1> DEFINE now == Truncate(n, 4)
<1>1. CASE n >= 0
  <2>1. now = n \div 4  BY <1>1 DEF Truncate
  <2> QED  BY <1>1, <2>1 DEF Bytes8
<1>2. CASE n < 0
  <2> DEFINE dist == -n
  <2>1. dist \in Nat /\ n = -dist  BY <1>2
  <2>2. now = -(dist \div 4)  BY <1>2 DEF Truncate
  <2> HIDE DEF dist, now
  <2>3. now \in Int /\ n - 4 * now \in -3..3  BY <2>1, <2>2
  <2>4. dist <= 515 => dist \div 4 <= 128  BY <2>1
  <2> QED  BY <2>1, <2>2, <2>3, <2>4 DEF Bytes8, now
<1> QED  BY <1>1, <1>2

\* A pulse is shorter than a turn of the timer.
LEMMA TimerSize ==
  /\ TIMER \in Nat \ {0} /\ Longest < TIMER
  /\ Shortest \in Nat /\ Longest \in Nat /\ 0 < Shortest
BY DEF TIMER, Shortest, Longest

\* The difference of two readings of the timer.
LEMMA Behind ==
  ASSUME NEW x \in 0..(TIMER - 1), NEW y \in 0..(TIMER - 1)
  PROVE  (y - x) % TIMER = IF y >= x THEN y - x ELSE y - x + TIMER
<1>1. TIMER \in Nat \ {0}  BY TimerSize
<1>2. CASE y >= x
  <2>1. y - x \in 0..(TIMER - 1) /\ 0 * TIMER + (y - x) = y - x  BY <1>1, <1>2
  <2>2. (0 * TIMER + (y - x)) % TIMER = y - x  BY <1>1, <2>1, ModUnique
  <2> QED  BY <1>2, <2>1, <2>2
<1>3. CASE ~(y >= x)
  <2>1. y - x + TIMER \in 0..(TIMER - 1) /\ (-1) * TIMER + (y - x + TIMER) = y - x  BY <1>1, <1>3
  <2>2. ((-1) * TIMER + (y - x + TIMER)) % TIMER = y - x + TIMER  BY <1>1, <2>1, ModUnique
  <2> QED  BY <1>3, <2>1, <2>2
<1> QED  BY <1>2, <1>3

\* The timer d ticks on.
LEMMA Ahead ==
  ASSUME NEW x \in 0..(TIMER - 1), NEW d \in Nat
  PROVE  /\ (x + d) % TIMER \in 0..(TIMER - 1)
         /\ d <= TIMER => (x + d) % TIMER = IF x + d < TIMER THEN x + d ELSE x + d - TIMER
<1>1. TIMER \in Nat \ {0}  BY TimerSize
<1>2. ASSUME d <= TIMER
      PROVE  (x + d) % TIMER = IF x + d < TIMER THEN x + d ELSE x + d - TIMER
  <2> DEFINE y == x + d
  <2>1. y \in 0..(2 * TIMER - 1)  BY <1>1, <1>2
  <2> HIDE DEF y
  <2>2. y % TIMER = IF y < TIMER THEN y ELSE y - TIMER  BY <1>1, <2>1, ModAround
  <2> QED  BY <1>1, <2>1, <2>2 DEF y
<1> QED  BY <1>1, <1>2
-----------------------------------------------------------------------------
\* No two servos in use have the same pin.
Pinned == \A s \in Servos : isActive[s] =>
            /\ nbr[s] \in ServoPins
            /\ \A o \in Servos : isActive[o] /\ nbr[o] = nbr[s] => o = s

\* The timer's registers and the limits as Servo keeps them; the pulses are within what
\* an int8_t can widen or narrow them to.
Kept == /\ ServoTypeOK /\ Pinned
        /\ ticks \in [Servos -> Shortest..Longest]
        /\ limits \in [Servos -> Int \X Int] /\ angle \in [Servos -> Int]

\* The limits a servo works with.
LeastWidths    == 36..1056
GreatestWidths == 1892..2912

LEMMA Limited ==
  ASSUME Kept, NEW s \in Servos
  PROVE  SERVO_MIN(s) \in LeastWidths /\ SERVO_MAX(s) \in GreatestWidths
<1>1. min[s] \in Bytes8 /\ max[s] \in Bytes8  BY DEF Kept, ServoTypeOK, Bytes8
<1> QED
  BY <1>1 DEF SERVO_MIN, SERVO_MAX, MIN_PULSE_WIDTH, MAX_PULSE_WIDTH, Bytes8, LeastWidths,
              GreatestWidths

\* A width is cut to them, and to the longest and the shortest pulse.
LEMMA WidthLimited ==
  ASSUME Kept, NEW s \in Servos, NEW us \in Int
  PROVE  /\ WidthTicks(s, us) = 2 * (Clamp(us, SERVO_MIN(s), SERVO_MAX(s)) - 2)
         /\ WidthTicks(s, us) \in Shortest..Longest
<1> DEFINE c  == Clamp(us, SERVO_MIN(s), SERVO_MAX(s))
           lo == SERVO_MIN(s)
           hi == SERVO_MAX(s)
<1>1. c \in 36..2912
  <2>1. lo \in LeastWidths /\ hi \in GreatestWidths  BY Limited
  <2>2. c = IF us < lo THEN lo ELSE IF us > hi THEN hi ELSE us  BY DEF Clamp
  <2> HIDE DEF lo, hi, c
  <2> QED  BY <2>1, <2>2 DEF LeastWidths, GreatestWidths
<1>2. WidthTicks(s, us) = usToTicks(c - 2) % TIMER  BY DEF WidthTicks, TRIM_DURATION
<1> HIDE DEF c
<1>3. usToTicks(c - 2) = 2 * (c - 2)  BY <1>1 DEF usToTicks
<1>4. (2 * (c - 2)) % TIMER = 2 * (c - 2)  BY <1>1 DEF TIMER
<1>5. WidthTicks(s, us) = 2 * (c - 2)  BY <1>2, <1>3, <1>4
<1>6. 2 * (c - 2) \in Shortest..Longest  BY <1>1 DEF Shortest, Longest
<1>7. WidthTicks(s, us) \in Shortest..Longest  BY <1>5, <1>6
<1> HIDE DEF Shortest, Longest
<1> QED  BY <1>5, <1>7 DEF c

\* The match is ahead of the timer, or just here.
LEMMA MatchAhead ==
  ASSUME TCNT1 \in 0..(TIMER - 1), OCR1A \in 0..(TIMER - 1), NEW u \in UntilMatch
  PROVE  /\ u \in Nat
         /\ (TCNT1 + u) % TIMER = OCR1A
         /\ TCNT1 # OCR1A => u = (OCR1A - TCNT1) % TIMER /\ u \in 1..(TIMER - 1)
<1>1. TIMER \in Nat \ {0}  BY TimerSize
<1>2. CASE TCNT1 = OCR1A
  <2>1. u = 0 \/ u = TIMER  BY <1>2 DEF UntilMatch
  <2>2. u \in Nat /\ u <= TIMER  BY <1>1, <2>1
  <2>3. (TCNT1 + u) % TIMER = IF TCNT1 + u < TIMER THEN TCNT1 + u ELSE TCNT1 + u - TIMER
    BY <2>2, Ahead
  <2> QED  BY <1>1, <1>2, <2>1, <2>2, <2>3
<1>3. CASE TCNT1 # OCR1A
  <2>1. u = (OCR1A - TCNT1) % TIMER  BY <1>3 DEF UntilMatch
  <2>2. u = IF OCR1A >= TCNT1 THEN OCR1A - TCNT1 ELSE OCR1A - TCNT1 + TIMER  BY <2>1, Behind
  <2>3. u \in 1..(TIMER - 1)  BY <1>1, <1>3, <2>2
  <2>4. (TCNT1 + u) % TIMER = IF TCNT1 + u < TIMER THEN TCNT1 + u ELSE TCNT1 + u - TIMER
    BY <1>1, <2>3, Ahead
  <2>5. (TCNT1 + u) % TIMER = OCR1A  BY <1>1, <2>2, <2>4
  <2> QED  BY <2>1, <2>3, <2>5
<1> QED  BY <1>2, <1>3

\* Where handle_interrupts() sets the next match.
LEMMA WaitType ==
  ASSUME NEW now \in 0..(TIMER - 1)
  PROVE  WaitUntil(now) \in 0..(TIMER - 1) /\ Refresh \in Nat /\ Refresh < TIMER
<1>1. Refresh \in Nat /\ Refresh < TIMER
  <2>1. usToTicks(REFRESH_INTERVAL) = 2 * REFRESH_INTERVAL
    BY ServoAssumption DEF usToTicks
  <2> QED  BY <2>1, ServoAssumption DEF Refresh
<1>2. (now + 4) % TIMER \in 0..(TIMER - 1)  BY Ahead
<1> QED  BY <1>1, <1>2, TimerSize DEF WaitUntil

\* Time passes on the pins that are high.
LEMMA AfterType ==
  ASSUME Kept, NEW d \in Nat
  PROVE  After(d) \in [ServoPins -> Nat \cup {-1}]
<1>1. high \in [ServoPins -> Nat \cup {-1}]  BY DEF Kept, ServoTypeOK
<1>2. ASSUME NEW p \in ServoPins
      PROVE  (IF high[p] < 0 \/ p \in cut THEN high[p] ELSE high[p] + d) \in Nat \cup {-1}
  BY <1>1
<1> QED  BY <1>2 DEF After

\* A pulse step keeps the types.
LEMMA PulseKept ==
  ASSUME Kept, NEW d \in Nat, Pulse(d)
  PROVE  Kept'
<1> DEFINE now    == IF Channel < 0 THEN 0 ELSE (TCNT1 + d) % TIMER
           next == Channel + 1
<1>1. ServoTypeOK /\ TIMER \in Nat \ {0}  BY TimerSize DEF Kept
<1>2. /\ TCNT1' = now /\ frame' = (IF Channel < 0 THEN 0 ELSE frame + d)
      /\ \/ next \in Servos /\ OCR1A' = (now + ticks[next]) % TIMER /\ Channel' = next
         \/ OCR1A' = WaitUntil(now) /\ Channel' = -1
      /\ UNCHANGED <<OCIE1A, nbr, isActive, ticks, min, max, limits, angle, calls>>
  BY DEF Pulse, servoState
<1>3. now \in 0..(TIMER - 1)
  <2>1. (TCNT1 + d) % TIMER \in 0..(TIMER - 1)  BY <1>1, Ahead DEF ServoTypeOK
  <2> QED  BY <1>1, <2>1
<1> HIDE DEF now
<1>4. OCR1A' \in 0..(TIMER - 1) /\ Channel' \in Servos \cup {-1}
  <2>1. next \in Servos => (now + ticks[next]) % TIMER \in 0..(TIMER - 1)
    <3> SUFFICES ASSUME next \in Servos PROVE (now + ticks[next]) % TIMER \in 0..(TIMER - 1)  OBVIOUS
    <3>1. ticks[next] \in Nat  BY <1>1 DEF ServoTypeOK
    <3> QED  BY <1>3, <3>1, Ahead
  <2> QED  BY <1>2, <1>3, <2>1, WaitType
<1>5. frame' \in Nat  BY <1>1, <1>2 DEF ServoTypeOK
<1>6. want' \in 0..(TIMER - 1)
  <2>1. \/ want' = 0
        \/ next \in Servos /\ want' = ticks[next]
    BY DEF Pulse
  <2> QED  BY <1>1, <2>1 DEF ServoTypeOK
<1>7. cut' \subseteq ServoPins  BY <1>1 DEF Pulse, ServoTypeOK
<1>8. high' \in [ServoPins -> Nat \cup {-1}]
  <2> DEFINE off == IF Channel >= 0 /\ isActive[Channel] THEN {nbr[Channel]} ELSE {}
             on  == IF next \in Servos /\ isActive[next] THEN {nbr[next]} ELSE {}
  <2>1. high' = [p \in ServoPins |-> IF p \in on THEN 0 ELSE IF p \in off THEN -1 ELSE After(d)[p]]
    BY DEF Pulse
  <2>2. After(d) \in [ServoPins -> Nat \cup {-1}]  BY AfterType
  <2> HIDE DEF off, on
  <2> QED  BY <2>1, <2>2
<1>9. ticks \in [Servos -> Shortest..Longest] /\ limits \in [Servos -> Int \X Int]
      /\ angle \in [Servos -> Int] /\ Pinned' = Pinned
  BY <1>2 DEF Kept, Pinned
<1> QED  BY <1>1, <1>2, <1>3, <1>4, <1>5, <1>6, <1>7, <1>8, <1>9 DEF Kept, ServoTypeOK

\* A call comes before the next match.
LEMMA Waits ==
  ASSUME Kept, NEW q \in Quanta, Wait(q)
  PROVE  /\ q \in Nat /\ calls' \in 0..MaxCalls
         /\ OCIE1A /\ TCNT1 # OCR1A =>
              /\ (OCR1A - ((TCNT1 + q) % TIMER)) % TIMER = ((OCR1A - TCNT1) % TIMER) - q
              /\ q < (OCR1A - TCNT1) % TIMER
              /\ (TCNT1 + q) % TIMER # OCR1A
         /\ ~(OCIE1A /\ TCNT1 # OCR1A) => q = 0
<1>1. TIMER \in Nat \ {0} /\ TCNT1 \in 0..(TIMER - 1) /\ OCR1A \in 0..(TIMER - 1)
  BY TimerSize DEF Kept, ServoTypeOK
<1>2. q \in Nat  BY ServoAssumption
<1>3. calls' \in 0..MaxCalls  BY ServoAssumption DEF Wait, Kept, ServoTypeOK
<1>4. ~(OCIE1A /\ TCNT1 # OCR1A) => q = 0  BY <1>2 DEF Wait
<1>5. ASSUME OCIE1A, TCNT1 # OCR1A
      PROVE  /\ (OCR1A - ((TCNT1 + q) % TIMER)) % TIMER = ((OCR1A - TCNT1) % TIMER) - q
             /\ q < (OCR1A - TCNT1) % TIMER
             /\ (TCNT1 + q) % TIMER # OCR1A
  <2> DEFINE u == (OCR1A - TCNT1) % TIMER
             x == (TCNT1 + q) % TIMER
  <2>1. u = IF OCR1A >= TCNT1 THEN OCR1A - TCNT1 ELSE OCR1A - TCNT1 + TIMER  BY <1>1, Behind
  <2>2. q <= (OCR1A - TCNT1 - 1) % TIMER  BY <1>5 DEF Wait
  <2>3. (OCR1A - TCNT1 - 1) % TIMER = u - 1
    <3>1. u - 1 \in 0..(TIMER - 1)  BY <1>1, <1>5, <2>1
    <3>2. \/ OCR1A - TCNT1 - 1 = 0 * TIMER + (u - 1)
          \/ OCR1A - TCNT1 - 1 = (-1) * TIMER + (u - 1)
      BY <1>1, <2>1
    <3> HIDE DEF u
    <3> QED  BY <1>1, <3>1, <3>2, ModUnique
  <2>4. q < u /\ u \in 1..(TIMER - 1)  BY <1>1, <1>2, <1>5, <2>1, <2>2, <2>3
  <2>5. x = IF TCNT1 + q < TIMER THEN TCNT1 + q ELSE TCNT1 + q - TIMER
    <3>1. q <= TIMER  BY <1>1, <1>2, <2>4
    <3> QED  BY <1>1, <1>2, <3>1, Ahead
  <2>6. x \in 0..(TIMER - 1)  BY <1>1, <1>2, Ahead
  <2>7. (OCR1A - x) % TIMER = IF OCR1A >= x THEN OCR1A - x ELSE OCR1A - x + TIMER
    BY <1>1, <2>6, Behind
  <2> HIDE DEF u, x
  <2>8. (OCR1A - x) % TIMER = u - q /\ x # OCR1A
    BY <1>1, <1>2, <2>1, <2>4, <2>5, <2>6, <2>7
  <2> QED  BY <2>4, <2>8 DEF u, x
<1> QED  BY <1>2, <1>3, <1>4, <1>5

\* The timer runs on during a call.
LEMMA Passes ==
  ASSUME Kept, NEW q \in Nat, Pass(q)
  PROVE  /\ TCNT1' \in 0..(TIMER - 1) /\ frame' \in Nat
         /\ UNCHANGED <<OCR1A, OCIE1A, Channel>>
<1>1. (TCNT1 + q) % TIMER \in 0..(TIMER - 1)  BY Ahead DEF Kept, ServoTypeOK
<1> QED  BY <1>1 DEF Pass, Kept, ServoTypeOK
-----------------------------------------------------------------------------
LEMMA KeptInit == ServoInit => Kept
<1> SUFFICES ASSUME ServoInit PROVE Kept  OBVIOUS
<1>1. TIMER \in Nat \ {0} /\ Longest < TIMER  BY TimerSize
<1>2. usToTicks(DEFAULT_PULSE_WIDTH) = 3000
  BY DEF usToTicks, DEFAULT_PULSE_WIDTH
<1>3. 3000 \in 0..(TIMER - 1) /\ 3000 \in Shortest..Longest  BY <1>1 DEF Shortest, Longest
<1>4. Channel \in Servos  BY ServoAssumption DEF ServoInit, Servos
<1>5. calls \in 0..MaxCalls  BY ServoAssumption DEF ServoInit
<1>6. /\ ticks \in [Servos -> Shortest..Longest] /\ ticks \in [Servos -> 0..(TIMER - 1)]
  BY <1>2, <1>3 DEF ServoInit
<1>7. MIN_PULSE_WIDTH \in Int /\ MAX_PULSE_WIDTH \in Int
  BY DEF MIN_PULSE_WIDTH, MAX_PULSE_WIDTH
<1>8. limits \in [Servos -> Int \X Int] /\ angle \in [Servos -> Int]  BY <1>7 DEF ServoInit
<1>9. Pinned  BY DEF ServoInit, Pinned
<1>10. /\ min \in [Servos -> -128..127] /\ max \in [Servos -> -128..127]
       /\ high \in [ServoPins -> Nat \cup {-1}] /\ nbr \in [Servos -> ServoPins \cup {0}]
       /\ isActive \in [Servos -> BOOLEAN]
  BY DEF ServoInit
<1>11. /\ TCNT1 = 0 /\ OCR1A = 0 /\ want = 0 /\ OCIE1A = FALSE /\ cut = {} /\ frame = 0
  BY DEF ServoInit
<1>12. 0 \in 0..(TIMER - 1)  BY <1>1
<1> HIDE DEF ServoInit
<1> QED  BY <1>4, <1>5, <1>6, <1>8, <1>9, <1>10, <1>11, <1>12 DEF Kept, ServoTypeOK

\* What positioning a servo leaves.
LEMMA Positioned ==
  ASSUME Kept, NEW q \in Quanta, NEW s \in Servos, OCIE1A, Wait(q), Pass(q), high' = After(q),
         UNCHANGED <<nbr, isActive, min, max, limits, cut, want>>,
         NEW us \in Int, ticks' = [ticks EXCEPT ![s] = WidthTicks(s, us)],
         NEW a \in Int, angle' = [angle EXCEPT ![s] = a]
  PROVE  Kept'
<1>1. TIMER \in Nat \ {0} /\ Longest < TIMER /\ q \in Nat /\ calls' \in 0..MaxCalls
  BY TimerSize, Waits
<1>2. TCNT1' \in 0..(TIMER - 1) /\ frame' \in Nat /\ UNCHANGED <<OCR1A, OCIE1A, Channel>>
  BY <1>1, Passes
<1>3. high' \in [ServoPins -> Nat \cup {-1}]  BY <1>1, AfterType
<1>4. WidthTicks(s, us) \in Shortest..Longest  BY WidthLimited
<1>5. Shortest..Longest \subseteq 0..(TIMER - 1)  BY <1>1 DEF Shortest, Longest
<1>6. ticks' \in [Servos -> Shortest..Longest]  BY <1>4 DEF Kept
<1>7. ticks' \in [Servos -> 0..(TIMER - 1)]  BY <1>5, <1>6
<1>8. angle' \in [Servos -> Int]  BY DEF Kept
<1> QED  BY <1>1, <1>2, <1>3, <1>6, <1>7, <1>8 DEF Kept, ServoTypeOK, Pinned

\* The angle write() keeps, and the width it asks for.
LEMMA Angled180 ==
  ASSUME Kept, NEW s \in Servos, NEW a \in Int
  PROVE  /\ Clamp(a, 0, 180) \in 0..180
         /\ Map(Clamp(a, 0, 180), 0, 180, SERVO_MIN(s), SERVO_MAX(s)) \in Int
<1> DEFINE b == Clamp(a, 0, 180)
<1>1. b \in 0..180  BY DEF Clamp
<1>2. SERVO_MIN(s) \in LeastWidths /\ SERVO_MAX(s) \in GreatestWidths  BY Limited
<1> HIDE DEF b
<1> DEFINE lo == SERVO_MIN(s)
           hi == SERVO_MAX(s)
           n  == (b - 0) * (hi - lo)
<1>3. n \in Int
  <2>1. lo \in Int /\ hi \in Int
    <3>1. lo \in LeastWidths /\ hi \in GreatestWidths  BY <1>2
    <3> HIDE DEF lo, hi
    <3> QED  BY <3>1 DEF LeastWidths, GreatestWidths
  <2>2. b - 0 \in Int  BY <1>1
  <2> HIDE DEF lo, hi
  <2>3. hi - lo \in Int  BY <2>1
  <2> QED  BY <2>2, <2>3
<1> HIDE DEF n
<1>4. Truncate(n, 180 - 0) \in Int  BY <1>3 DEF Truncate
<1>5. Map(b, 0, 180, SERVO_MIN(s), SERVO_MAX(s)) = Truncate(n, 180 - 0) + SERVO_MIN(s)
  BY DEF Map, n
<1>6. Truncate(n, 180 - 0) + SERVO_MIN(s) \in Int
  <2> DEFINE k == SERVO_MIN(s)
  <2>1. k \in Int
    <3>1. k \in LeastWidths  BY <1>2
    <3> HIDE DEF k
    <3> QED  BY <3>1 DEF LeastWidths
  <2> HIDE DEF k
  <2>2. Truncate(n, 180 - 0) + k \in Int  BY <1>4, <2>1
  <2> QED  BY <2>2 DEF k
<1> QED  BY <1>1, <1>5, <1>6, Zenon DEF b

LEMMA KeptStep == Kept /\ [ServoNext]_servoVars => Kept'
<1> SUFFICES ASSUME Kept, [ServoNext]_servoVars PROVE Kept'  OBVIOUS
<1>1. CASE Interrupt
  <2>1. PICK late \in Lates, u \in UntilMatch : Pulse(u + late)  BY <1>1 DEF Interrupt
  <2>2. u \in Nat  BY MatchAhead DEF Kept, ServoTypeOK
  <2>3. u + late \in Nat  BY <2>2, ServoAssumption
  <2> QED  BY <2>1, <2>3, PulseKept
<1>2. CASE ServoAttach
  <2>1. PICK q \in Quanta, s \in Servos, p \in ServoPins, l \in Limits :
          /\ Wait(q) /\ Attach(s, p, l[1], l[2])
          /\ \A o \in Servos \ {s} : isActive[o] => nbr[o] # p
          /\ IF isTimerActive
             THEN Pass(q)
             ELSE TCNT1' = 0 /\ OCIE1A' = TRUE /\ frame' = 0 /\ UNCHANGED <<OCR1A, Channel>>
          /\ high' = After(q)
          /\ cut' = IF isActive[s] /\ nbr[s] # p /\ high[nbr[s]] >= 0 THEN cut \cup {nbr[s]} ELSE cut
          /\ want' = want
    BY <1>2 DEF ServoAttach
  <2>2. TIMER \in Nat \ {0} /\ q \in Nat /\ calls' \in 0..MaxCalls  BY <2>1, TimerSize, Waits
  <2>3. /\ TCNT1' \in 0..(TIMER - 1) /\ frame' \in Nat /\ UNCHANGED <<OCR1A, Channel>>
        /\ OCIE1A' \in BOOLEAN
    <3>1. CASE isTimerActive
      <4>1. Pass(q)  BY <2>1, <3>1
      <4> QED  BY <2>2, <4>1, Passes DEF Kept, ServoTypeOK
    <3>2. CASE ~isTimerActive
      <4>1. TCNT1' = 0 /\ OCIE1A' = TRUE /\ frame' = 0 /\ UNCHANGED <<OCR1A, Channel>>
        BY <2>1, <3>2
      <4> QED  BY <2>2, <4>1
    <3> QED  BY <3>1, <3>2
  <2>4. high' \in [ServoPins -> Nat \cup {-1}]  BY <2>1, <2>2, AfterType
  <2>5. cut' \subseteq ServoPins
    BY <2>1 DEF Kept, ServoTypeOK, Pinned
  <2>6. l[1] \in Int /\ l[2] \in Int /\ l \in Int \X Int /\ l = <<l[1], l[2]>>
    BY PulseAssumption
  <2>7. /\ Int8(Truncate(MIN_PULSE_WIDTH - l[1], 4)) \in Bytes8
        /\ Int8(Truncate(MAX_PULSE_WIDTH - l[2], 4)) \in Bytes8
    <3>1. MIN_PULSE_WIDTH - l[1] \in Int /\ MAX_PULSE_WIDTH - l[2] \in Int
      BY <2>6 DEF MIN_PULSE_WIDTH, MAX_PULSE_WIDTH
    <3> QED  BY <3>1, Quarter, Int8Range
  <2>8. /\ min' \in [Servos -> Bytes8] /\ max' \in [Servos -> Bytes8]
        /\ nbr' \in [Servos -> ServoPins \cup {0}] /\ isActive' \in [Servos -> BOOLEAN]
    BY <2>1, <2>7 DEF Attach, Kept, ServoTypeOK, Bytes8
  <2>9. limits' \in [Servos -> Int \X Int] /\ angle' \in [Servos -> Int] /\ ticks' = ticks
    BY <2>1, <2>6 DEF Attach, Kept
  <2>10. Pinned'
    <3>1. \A o \in Servos : /\ isActive'[o] = (IF o = s THEN TRUE ELSE isActive[o])
                            /\ nbr'[o] = (IF o = s THEN p ELSE nbr[o])
      BY <2>1 DEF Attach, Kept, ServoTypeOK
    <3>2. \A o \in Servos \ {s} : isActive[o] => nbr[o] # p  BY <2>1
    <3> QED  BY <3>1, <3>2 DEF Kept, Pinned
  <2> QED  BY <2>1, <2>2, <2>3, <2>4, <2>5, <2>8, <2>9, <2>10 DEF Kept, ServoTypeOK, Bytes8
<1>3. CASE ServoDetach
  <2>1. PICK q \in Quanta, s \in Servos :
          /\ Wait(q) /\ isActive[s] /\ isActive' = [isActive EXCEPT ![s] = FALSE] /\ Pass(q)
          /\ high' = After(q)
          /\ cut' = IF high[nbr[s]] >= 0 THEN cut \cup {nbr[s]} ELSE cut
          /\ UNCHANGED <<nbr, ticks, min, max, limits, angle, want>>
    BY <1>3 DEF ServoDetach
  <2>2. q \in Nat /\ calls' \in 0..MaxCalls  BY <2>1, Waits
  <2>3. TCNT1' \in 0..(TIMER - 1) /\ frame' \in Nat /\ UNCHANGED <<OCR1A, OCIE1A, Channel>>
    BY <2>1, <2>2, Passes
  <2>4. high' \in [ServoPins -> Nat \cup {-1}]  BY <2>1, <2>2, AfterType
  <2>5. cut' \subseteq ServoPins  BY <2>1 DEF Kept, ServoTypeOK, Pinned
  <2>6. Pinned'
    <3>1. \A o \in Servos : isActive'[o] => isActive[o]  BY <2>1 DEF Kept, ServoTypeOK
    <3> QED  BY <2>1, <3>1 DEF Kept, Pinned
  <2> QED  BY <2>1, <2>2, <2>3, <2>4, <2>5, <2>6 DEF Kept, ServoTypeOK
<1>4. CASE ServoWrite
  <2>1. PICK q \in Quanta, s \in Servos :
          /\ OCIE1A /\ Wait(q) /\ Pass(q) /\ high' = After(q)
          /\ UNCHANGED <<nbr, isActive, min, max, limits, cut, want>>
          /\ \/ \E us \in Widths : /\ ticks' = [ticks EXCEPT ![s] = WidthTicks(s, us)]
                                   /\ angle' = [angle EXCEPT ![s] = -1]
             \/ \E a \in Angles :
                  /\ angle' = [angle EXCEPT ![s] = Clamp(a, 0, 180)]
                  /\ ticks' = [ticks EXCEPT ![s] =
                       WidthTicks(s, Map(angle'[s], 0, 180, SERVO_MIN(s), SERVO_MAX(s)))]
    BY <1>4 DEF ServoWrite
  <2>2. CASE \E us \in Widths : /\ ticks' = [ticks EXCEPT ![s] = WidthTicks(s, us)]
                                /\ angle' = [angle EXCEPT ![s] = -1]
    <3>1. PICK us \in Widths : /\ ticks' = [ticks EXCEPT ![s] = WidthTicks(s, us)]
                               /\ angle' = [angle EXCEPT ![s] = -1]
      BY <2>2
    <3>2. us \in Int /\ -1 \in Int  BY PulseAssumption
    <3> QED  BY <2>1, <3>1, <3>2, Positioned
  <2>3. ASSUME NEW a \in Angles, angle' = [angle EXCEPT ![s] = Clamp(a, 0, 180)],
               ticks' = [ticks EXCEPT ![s] =
                           WidthTicks(s, Map(angle'[s], 0, 180, SERVO_MIN(s), SERVO_MAX(s)))]
        PROVE  Kept'
    <3> DEFINE b == Clamp(a, 0, 180)
               w == Map(b, 0, 180, SERVO_MIN(s), SERVO_MAX(s))
    <3>1. a \in Int  BY PulseAssumption
    <3>2. b \in Int /\ w \in Int  BY <3>1, Angled180
    <3>3. angle'[s] = b  BY <2>3 DEF Kept
    <3>4. ticks' = [ticks EXCEPT ![s] = WidthTicks(s, w)] /\ angle' = [angle EXCEPT ![s] = b]
      BY <2>3, <3>3
    <3> HIDE DEF w, b
    <3> QED  BY <2>1, <3>2, <3>4, Positioned
  <2> QED  BY <2>1, <2>2, <2>3
<1>5. CASE UNCHANGED servoVars
  BY <1>5 DEF Kept, ServoTypeOK, Pinned, servoVars, timer1, servoState, pinState
<1> QED  BY <1>1, <1>2, <1>3, <1>4, <1>5 DEF ServoNext

LEMMA Keeping == ServoSpec => []Kept
<1> QED  BY KeptInit, KeptStep, PTL DEF ServoSpec

\* The registers and the calls keep their types.
THEOREM ServosTyped == ServoSpec => []ServoTypeOK
<1>1. Kept => ServoTypeOK  BY DEF Kept
<1> QED  BY <1>1, Keeping, PTL
-----------------------------------------------------------------------------
(***************************************************************************)
(* Pulses.  A pin that is high, and was not given up, is that of the servo *)
(* being pulsed, and the match that ends the pulse is as far ahead as the  *)
(* pulse has still to last: neither a call nor the timer's wrapping        *)
(* changes that.                                                           *)
(***************************************************************************)
Pulsing ==
  \A p \in ServoPins \ cut : high[p] >= 0 =>
    /\ OCIE1A /\ TCNT1 # OCR1A
    /\ Channel \in Servos /\ isActive[Channel] /\ nbr[Channel] = p
    /\ high[p] + ((OCR1A - TCNT1) % TIMER) = want
    /\ want \in Shortest..Longest

\* A match set d ticks ahead is d ticks ahead.
LEMMA SetAhead ==
  ASSUME NEW now \in 0..(TIMER - 1), NEW d \in Nat, 0 < d, d < TIMER
  PROVE  /\ (now + d) % TIMER # now
         /\ (((now + d) % TIMER) - now) % TIMER = d
<1> DEFINE x == (now + d) % TIMER
<1>1. TIMER \in Nat \ {0}  BY TimerSize
<1>2. x \in 0..(TIMER - 1) /\ x = IF now + d < TIMER THEN now + d ELSE now + d - TIMER
  BY <1>1, Ahead
<1> HIDE DEF x
<1>3. (x - now) % TIMER = IF x >= now THEN x - now ELSE x - now + TIMER  BY <1>1, <1>2, Behind
<1>4. x # now /\ (x - now) % TIMER = d  BY <1>1, <1>2, <1>3
<1> QED  BY <1>4 DEF x

\* A call leaves the pulse in progress as it is.
LEMMA CallPulsing ==
  ASSUME Kept, Pulsing, NEW q \in Quanta, Wait(q), high' = After(q), want' = want,
         cut \subseteq cut', isTimerActive => Pass(q),
         \A s \in Servos : isActive[s] /\ high[nbr[s]] >= 0 /\ nbr[s] \notin cut' =>
                             isActive'[s] /\ nbr'[s] = nbr[s]
  PROVE  /\ Pulsing'
         /\ \A p \in ServoPins : high[p] >= 0 => high'[p] >= 0
<1>1. q \in Nat /\ high \in [ServoPins -> Nat \cup {-1}]  BY Waits DEF Kept, ServoTypeOK
<1>2. \A p \in ServoPins : high'[p] = IF high[p] < 0 \/ p \in cut THEN high[p] ELSE high[p] + q
  BY DEF After
<1>3. \A p \in ServoPins : high[p] >= 0 => high'[p] >= 0
  <2> TAKE p \in ServoPins
  <2>1. high[p] \in Nat \cup {-1}  BY <1>1
  <2> QED  BY <1>1, <1>2, <2>1
<1>4. ASSUME NEW p \in ServoPins, p \notin cut', high'[p] >= 0
      PROVE  /\ OCIE1A' /\ TCNT1' # OCR1A'
             /\ Channel' \in Servos /\ isActive'[Channel'] /\ nbr'[Channel'] = p
             /\ high'[p] + ((OCR1A' - TCNT1') % TIMER) = want'
             /\ want' \in Shortest..Longest
  <2>1. p \notin cut /\ high[p] \in Nat /\ high'[p] = high[p] + q
    <3>1. high[p] \in Nat \cup {-1} /\ p \notin cut  BY <1>1, <1>4
    <3> QED  BY <1>1, <1>2, <1>4, <3>1
  <2>2. /\ OCIE1A /\ TCNT1 # OCR1A
        /\ Channel \in Servos /\ isActive[Channel] /\ nbr[Channel] = p
        /\ high[p] + ((OCR1A - TCNT1) % TIMER) = want
        /\ want \in Shortest..Longest
    BY <2>1 DEF Pulsing
  <2>3. isTimerActive  BY <2>2 DEF isTimerActive
  <2>4. TCNT1' = (TCNT1 + q) % TIMER /\ UNCHANGED <<OCR1A, OCIE1A, Channel>>
    BY <2>3 DEF Pass
  <2>5. /\ (OCR1A - ((TCNT1 + q) % TIMER)) % TIMER = ((OCR1A - TCNT1) % TIMER) - q
        /\ (TCNT1 + q) % TIMER # OCR1A
    BY <2>2, Waits
  <2>6. isActive'[Channel] /\ nbr'[Channel] = p  BY <1>4, <2>1, <2>2
  <2>7. high'[p] + ((OCR1A' - TCNT1') % TIMER) = want'
    <3> DEFINE u == (OCR1A - TCNT1) % TIMER
    <3>1. u \in Int /\ (OCR1A' - TCNT1') % TIMER = u - q
      BY <2>4, <2>5, TimerSize DEF Kept, ServoTypeOK
    <3>2. high[p] + u = want  BY <2>2
    <3> HIDE DEF u
    <3> QED  BY <1>1, <2>1, <3>1, <3>2
  <2> QED  BY <2>2, <2>4, <2>5, <2>6, <2>7
<1> QED  BY <1>3, <1>4 DEF Pulsing

\* The interrupt ends the pulse in progress and starts the next.
LEMMA InterruptPulsing ==
  ASSUME Kept, Pulsing, NEW d \in Nat, Pulse(d)
  PROVE  /\ Pulsing'
         /\ \A p \in ServoPins \ cut : high[p] >= 0 /\ high'[p] = -1 =>
              /\ Channel \in Servos /\ TCNT1' = (TCNT1 + d) % TIMER
<1> DEFINE now    == IF Channel < 0 THEN 0 ELSE (TCNT1 + d) % TIMER
           off  == IF Channel >= 0 /\ isActive[Channel] THEN {nbr[Channel]} ELSE {}
           next == Channel + 1
           on   == IF next \in Servos /\ isActive[next] THEN {nbr[next]} ELSE {}
<1>1. /\ OCIE1A /\ OCIE1A' = OCIE1A /\ TCNT1' = now
      /\ \/ next \in Servos /\ OCR1A' = (now + ticks[next]) % TIMER /\ Channel' = next
         \/ next \notin Servos /\ OCR1A' = WaitUntil(now) /\ Channel' = -1
      /\ high' = [p \in ServoPins |-> IF p \in on THEN 0 ELSE IF p \in off THEN -1 ELSE After(d)[p]]
      /\ cut' = cut \ (on \cup off)
      /\ want' = (IF on # {} THEN ticks[next] ELSE 0)
      /\ nbr' = nbr /\ isActive' = isActive
  BY DEF Pulse, servoState
<1>2. now \in 0..(TIMER - 1)
  <2>1. (TCNT1 + d) % TIMER \in 0..(TIMER - 1)  BY Ahead DEF Kept, ServoTypeOK
  <2> QED  BY <2>1, TimerSize
<1>3. ASSUME NEW p \in ServoPins, p \notin cut, high[p] >= 0
      PROVE  Channel \in Servos /\ isActive[Channel] /\ nbr[Channel] = p /\ p \in off /\ now = (TCNT1 + d) % TIMER
  <2>1. Channel \in Servos /\ isActive[Channel] /\ nbr[Channel] = p  BY <1>3 DEF Pulsing
  <2>2. Channel >= 0 /\ ~(Channel < 0)  BY <2>1, ServoAssumption DEF Servos
  <2> QED  BY <2>1, <2>2
<1>4. ASSUME NEW p \in ServoPins, p \notin cut', high'[p] >= 0
      PROVE  p \in on
  <2>1. CASE p \in off /\ p \notin on
    BY <1>1, <1>4, <2>1
  <2>2. CASE p \notin off /\ p \notin on
    <3>1. p \notin cut /\ high'[p] = After(d)[p]  BY <1>1, <1>4, <2>2
    <3>2. After(d)[p] = IF high[p] < 0 \/ p \in cut THEN high[p] ELSE high[p] + d  BY DEF After
    <3>3. high[p] \in Nat \cup {-1}  BY DEF Kept, ServoTypeOK
    <3>4. high[p] >= 0  BY <1>4, <3>1, <3>2, <3>3
    <3> QED  BY <1>3, <2>2, <3>1, <3>4
  <2> QED  BY <2>1, <2>2
<1> HIDE DEF now
<1>5. ASSUME NEW p \in ServoPins, p \in on
      PROVE  /\ OCIE1A' /\ TCNT1' # OCR1A'
             /\ Channel' \in Servos /\ isActive'[Channel'] /\ nbr'[Channel'] = p
             /\ high'[p] + ((OCR1A' - TCNT1') % TIMER) = want'
             /\ want' \in Shortest..Longest
  <2>1. next \in Servos /\ isActive[next] /\ nbr[next] = p /\ on # {}  BY <1>5
  <2>2. /\ OCR1A' = (now + ticks[next]) % TIMER /\ Channel' = next
        /\ want' = ticks[next] /\ high'[p] = 0
    BY <1>1, <1>5, <2>1
  <2>3. ticks[next] \in Shortest..Longest  BY <2>1 DEF Kept
  <2> HIDE DEF next, on, off
  <2> DEFINE k == ticks[next]
  <2>4. k \in Nat /\ 0 < k /\ k < TIMER  BY <2>3, TimerSize
  <2> HIDE DEF k
  <2>5. (now + k) % TIMER # now /\ (((now + k) % TIMER) - now) % TIMER = k  BY <1>2, <2>4, SetAhead
  <2>6. TCNT1' = now /\ OCR1A' = (now + k) % TIMER /\ want' = k  BY <1>1, <2>2 DEF k
  <2>7. high'[p] + ((OCR1A' - TCNT1') % TIMER) = want'
    <3>1. (OCR1A' - TCNT1') % TIMER = k  BY <2>5, <2>6
    <3> QED  BY <2>2, <2>4, <2>6, <3>1
  <2> QED  BY <1>1, <2>1, <2>2, <2>3, <2>5, <2>6, <2>7 DEF k
<1>6. Pulsing'  BY <1>4, <1>5 DEF Pulsing
<1> QED  BY <1>1, <1>3, <1>6

\* The calls, as CallPulsing takes them.
LEMMA Calls ==
  ASSUME Kept, Pulsing, ServoAttach \/ ServoDetach \/ ServoWrite
  PROVE  /\ Pulsing'
         /\ \A p \in ServoPins : high[p] >= 0 => high'[p] >= 0
<1>1. CASE ServoAttach
  <2>1. PICK q \in Quanta, s \in Servos, p \in ServoPins, l \in Limits :
          /\ Wait(q) /\ Attach(s, p, l[1], l[2])
          /\ isTimerActive => Pass(q)
          /\ high' = After(q)
          /\ cut' = IF isActive[s] /\ nbr[s] # p /\ high[nbr[s]] >= 0 THEN cut \cup {nbr[s]} ELSE cut
          /\ want' = want
    BY <1>1 DEF ServoAttach
  <2>2. nbr' = [nbr EXCEPT ![s] = p] /\ isActive' = [isActive EXCEPT ![s] = TRUE]
    BY <2>1 DEF Attach
  <2>3. \A o \in Servos : isActive[o] /\ high[nbr[o]] >= 0 /\ nbr[o] \notin cut' =>
                             isActive'[o] /\ nbr'[o] = nbr[o]
    BY <2>1, <2>2 DEF Kept, ServoTypeOK
  <2> QED  BY <2>1, <2>3, CallPulsing
<1>2. CASE ServoDetach
  <2>1. PICK q \in Quanta, s \in Servos :
          /\ Wait(q) /\ isActive' = [isActive EXCEPT ![s] = FALSE] /\ Pass(q)
          /\ high' = After(q)
          /\ cut' = IF high[nbr[s]] >= 0 THEN cut \cup {nbr[s]} ELSE cut
          /\ nbr' = nbr /\ want' = want
    BY <1>2 DEF ServoDetach
  <2>2. \A o \in Servos : isActive[o] /\ high[nbr[o]] >= 0 /\ nbr[o] \notin cut' =>
                             isActive'[o] /\ nbr'[o] = nbr[o]
    BY <2>1 DEF Kept, ServoTypeOK
  <2> QED  BY <2>1, <2>2, CallPulsing
<1>3. CASE ServoWrite
  <2>1. PICK q \in Quanta : /\ Wait(q) /\ Pass(q) /\ high' = After(q)
                            /\ UNCHANGED <<nbr, isActive, cut, want>>
    BY <1>3 DEF ServoWrite
  <2> QED  BY <2>1, CallPulsing
<1> QED  BY <1>1, <1>2, <1>3

LEMMA PulsingStep == Kept /\ Pulsing /\ [ServoNext]_servoVars => Pulsing'
<1> SUFFICES ASSUME Kept, Pulsing, [ServoNext]_servoVars PROVE Pulsing'  OBVIOUS
<1>1. CASE Interrupt
  <2>1. PICK late \in Lates, u \in UntilMatch : Pulse(u + late)  BY <1>1 DEF Interrupt
  <2>2. u \in Nat  BY MatchAhead DEF Kept, ServoTypeOK
  <2>3. u + late \in Nat  BY <2>2, ServoAssumption
  <2> QED  BY <2>1, <2>3, InterruptPulsing
<1>2. CASE UNCHANGED servoVars
  BY <1>2 DEF Pulsing, servoVars, timer1, servoState, pinState
<1> QED  BY <1>1, <1>2, Calls DEF ServoNext

\* A pulse that no detach() or attach() cut short lasts as long as was asked for when it
\* began, plus the interrupt's delay.  The model measures it with the timer, so a delay
\* is less than what the timer's turn leaves over the longest pulse: 29 ms.
THEOREM PulsesExact ==
  ASSUME \A late \in Lates : late < TIMER - Longest
  PROVE  ServoSpec => PulseExact
<1> DEFINE Exact == \A p \in ServoPins \ cut :
                      high[p] >= 0 /\ high'[p] = -1 =>
                        high[p] + ((TCNT1' - TCNT1) % TIMER) - want \in Lates
<1>1. ASSUME Kept, Pulsing, [ServoNext]_servoVars PROVE [Exact]_servoVars
  <2>1. CASE Interrupt
    <3>1. PICK late \in Lates, u \in UntilMatch : Pulse(u + late)  BY <2>1 DEF Interrupt
    <3>2. u \in Nat /\ (TCNT1 # OCR1A => u = (OCR1A - TCNT1) % TIMER)
      BY <1>1, MatchAhead DEF Kept, ServoTypeOK
    <3>3. late \in Nat /\ u + late \in Nat /\ late < TIMER - Longest  BY <3>2, ServoAssumption
    <3>4. ASSUME NEW p \in ServoPins \ cut, high[p] >= 0, high'[p] = -1
          PROVE  high[p] + ((TCNT1' - TCNT1) % TIMER) - want \in Lates
      <4>1. /\ TCNT1 # OCR1A /\ high[p] + ((OCR1A - TCNT1) % TIMER) = want
            /\ want \in Shortest..Longest
        BY <1>1, <3>4 DEF Pulsing
      <4>2. high[p] \in Nat /\ high[p] + u = want
        <5>1. high[p] \in Nat \cup {-1}  BY <1>1 DEF Kept, ServoTypeOK
        <5> QED  BY <3>2, <3>4, <4>1, <5>1
      <4>3. u + late < TIMER /\ want \in Int  BY <3>2, <3>3, <4>1, <4>2, TimerSize
      <4>4. Channel \in Servos /\ TCNT1' = (TCNT1 + (u + late)) % TIMER
        BY <1>1, <3>1, <3>3, <3>4, InterruptPulsing
      <4> DEFINE d == u + late
                 dist == (TCNT1' - TCNT1) % TIMER
      <4>5. dist = d
        <5>1. TCNT1 \in 0..(TIMER - 1)  BY <1>1 DEF Kept, ServoTypeOK
        <5>2. CASE d = 0
          <6>1. TCNT1' = TCNT1
            <7>1. TCNT1' = TCNT1 + d  BY <4>4, <5>1, <5>2, Ahead, TimerSize
            <7> QED  BY <5>1, <5>2, <7>1, TimerSize
          <6> QED  BY <5>1, <5>2, <6>1, Behind, TimerSize
        <5>3. CASE d # 0
          <6>1. d \in Nat /\ 0 < d /\ d < TIMER  BY <3>3, <4>3, <5>3
          <6> HIDE DEF d
          <6>2. (((TCNT1 + d) % TIMER) - TCNT1) % TIMER = d  BY <5>1, <6>1, SetAhead
          <6>3. TCNT1' = (TCNT1 + d) % TIMER  BY <4>4 DEF d
          <6> QED  BY <6>2, <6>3
        <5> QED  BY <5>2, <5>3
      <4> HIDE DEF dist
      <4>6. high[p] + dist - want = late  BY <3>2, <3>3, <4>2, <4>3, <4>5
      <4> QED  BY <4>6 DEF dist
    <3> QED  BY <3>4
  <2>2. CASE ServoAttach \/ ServoDetach \/ ServoWrite
    <3>1. \A p \in ServoPins : high[p] >= 0 => high'[p] >= 0  BY <1>1, <2>2, Calls
    <3> QED  BY <3>1
  <2>3. CASE UNCHANGED servoVars  BY <2>3
  <2> QED  BY <1>1, <2>1, <2>2, <2>3 DEF ServoNext
<1>2. ServoInit => Pulsing  BY DEF ServoInit, Pulsing
<1>3. ServoSpec => []Pulsing  BY <1>2, PulsingStep, Keeping, PTL DEF ServoSpec
<1>4. ServoSpec => [][Exact]_servoVars  BY <1>1, <1>3, Keeping, PTL DEF ServoSpec
<1> QED  BY <1>4 DEF PulseExact
-----------------------------------------------------------------------------
(***************************************************************************)
(* Frames.  While all servos' pulses and the interrupts' delays fit into a *)
(* turn of the timer, the match for one servo is no later than the servos  *)
(* up to it need, so the last one's leaves room for the wait; and until    *)
(* the interval is over the timer shows how long the frame has lasted.     *)
(***************************************************************************)

\* The widest pulse under an upper limit, as the int8_t keeps it.
Widest(hi) ==
  2 * (MAX_PULSE_WIDTH - Int8(Truncate(MAX_PULSE_WIDTH - hi, 4)) * 4 - TRIM_DURATION)

\* No pulse is longer than T; with a delay it takes M.
Narrow(T) == \A s \in Servos : ticks[s] <= T /\ 2 * (SERVO_MAX(s) - TRIM_DURATION) <= T

Framed(L, M) ==
  /\ frame >= Refresh \/ TCNT1 = frame
  /\ IF Channel = -1 THEN Refresh <= OCR1A ELSE OCR1A + L <= (Channel + 1) * M

LEMMA NarrowInit ==
  ASSUME ServoInit, NEW T \in Nat, Widest(MAX_PULSE_WIDTH) <= T
  PROVE  Narrow(T)
<1>1. Int8(Truncate(MAX_PULSE_WIDTH - MAX_PULSE_WIDTH, 4)) = 0
  BY DEF Int8, Truncate, MAX_PULSE_WIDTH
<1>2. Widest(MAX_PULSE_WIDTH) = 4796
  BY <1>1 DEF Widest, MAX_PULSE_WIDTH, TRIM_DURATION
<1>3. ASSUME NEW s \in Servos PROVE ticks[s] = 3000 /\ SERVO_MAX(s) = 2400
  BY DEF ServoInit, SERVO_MAX, MAX_PULSE_WIDTH, usToTicks, DEFAULT_PULSE_WIDTH
<1>4. ASSUME NEW s \in Servos PROVE ticks[s] <= T /\ 2 * (SERVO_MAX(s) - TRIM_DURATION) <= T
  BY <1>2, <1>3 DEF TRIM_DURATION
<1> QED  BY <1>4 DEF Narrow

LEMMA NarrowStep ==
  ASSUME Kept, NEW T \in Nat, Narrow(T), [ServoNext]_servoVars,
         \A l \in Limits : Widest(l[2]) <= T
  PROVE  Narrow(T)'
<1>1. CASE Interrupt
  <2>1. UNCHANGED <<ticks, max>>  BY <1>1 DEF Interrupt, Pulse, servoState
  <2> QED  BY <2>1 DEF Narrow, SERVO_MAX
<1>2. CASE ServoAttach
  <2>1. PICK s \in Servos, l \in Limits :
          /\ ticks' = ticks
          /\ max' = [max EXCEPT ![s] = Int8(Truncate(MAX_PULSE_WIDTH - l[2], 4))]
    BY <1>2 DEF ServoAttach, Attach
  <2>2. ASSUME NEW o \in Servos
        PROVE  ticks'[o] <= T /\ 2 * (SERVO_MAX(o)' - TRIM_DURATION) <= T
    <3>1. CASE o = s
      <4>1. max'[o] = Int8(Truncate(MAX_PULSE_WIDTH - l[2], 4))
        BY <2>1, <3>1 DEF Kept, ServoTypeOK
      <4>2. 2 * (SERVO_MAX(o)' - TRIM_DURATION) = Widest(l[2])
        BY <4>1 DEF SERVO_MAX, Widest
      <4> QED  BY <2>1, <4>2 DEF Narrow
    <3>2. CASE o # s
      <4>1. max'[o] = max[o]  BY <2>1, <3>2 DEF Kept, ServoTypeOK
      <4> QED  BY <2>1, <4>1 DEF Narrow, SERVO_MAX
    <3> QED  BY <3>1, <3>2
  <2> QED  BY <2>2 DEF Narrow
<1>3. CASE ServoDetach
  <2>1. UNCHANGED <<ticks, max>>  BY <1>3 DEF ServoDetach
  <2> QED  BY <2>1 DEF Narrow, SERVO_MAX
<1>4. CASE ServoWrite
  <2>1. PICK s \in Servos : /\ max' = max
                            /\ \E us \in Int : ticks' = [ticks EXCEPT ![s] = WidthTicks(s, us)]
    <3>1. PICK s \in Servos :
            /\ max' = max
            /\ \/ \E us \in Widths : ticks' = [ticks EXCEPT ![s] = WidthTicks(s, us)]
               \/ \E a \in Angles :
                    /\ angle' = [angle EXCEPT ![s] = Clamp(a, 0, 180)]
                    /\ ticks' = [ticks EXCEPT ![s] =
                         WidthTicks(s, Map(angle'[s], 0, 180, SERVO_MIN(s), SERVO_MAX(s)))]
      BY <1>4 DEF ServoWrite
    <3>2. \A us \in Widths : us \in Int  BY PulseAssumption
    <3>3. ASSUME NEW a \in Angles, angle' = [angle EXCEPT ![s] = Clamp(a, 0, 180)]
          PROVE  Map(angle'[s], 0, 180, SERVO_MIN(s), SERVO_MAX(s)) \in Int
      <4>1. a \in Int /\ angle'[s] = Clamp(a, 0, 180)  BY <3>3, PulseAssumption DEF Kept
      <4> QED  BY <4>1, Angled180
    <3> QED  BY <3>1, <3>2, <3>3
  <2>2. PICK us \in Int : ticks' = [ticks EXCEPT ![s] = WidthTicks(s, us)]  BY <2>1
  <2>3. WidthTicks(s, us) <= T
    <3> DEFINE c == Clamp(us, SERVO_MIN(s), SERVO_MAX(s))
               w == WidthTicks(s, us)
    <3>1. w = 2 * (c - 2) /\ c <= SERVO_MAX(s) /\ c \in Int /\ SERVO_MAX(s) \in Int
      <4> DEFINE lo == SERVO_MIN(s)
                 hi == SERVO_MAX(s)
      <4>1. lo \in LeastWidths /\ hi \in GreatestWidths /\ w = 2 * (c - 2)
        BY Limited, WidthLimited
      <4>2. c = IF us < lo THEN lo ELSE IF us > hi THEN hi ELSE us  BY DEF Clamp
      <4> HIDE DEF lo, hi, c, w
      <4>3. lo \in Int /\ hi \in Int /\ lo <= hi
        BY <4>1 DEF LeastWidths, GreatestWidths
      <4>4. c <= hi /\ c \in Int  BY <4>2, <4>3
      <4> QED  BY <4>1, <4>3, <4>4 DEF hi
    <3>2. 2 * (SERVO_MAX(s) - 2) <= T  BY DEF Narrow, TRIM_DURATION
    <3> HIDE DEF c, w
    <3>3. w <= T  BY <3>1, <3>2
    <3> QED  BY <3>3 DEF w
  <2>4. \A o \in Servos : ticks'[o] = IF o = s THEN WidthTicks(s, us) ELSE ticks[o]
    BY <2>2 DEF Kept
  <2>5. \A o \in Servos : SERVO_MAX(o)' = SERVO_MAX(o)  BY <2>1 DEF SERVO_MAX
  <2>6. \A o \in Servos : ticks'[o] <= T  BY <2>3, <2>4 DEF Narrow
  <2> QED  BY <2>5, <2>6 DEF Narrow
<1>5. CASE UNCHANGED servoVars
  <2>1. UNCHANGED <<ticks, max>>  BY <1>5 DEF servoVars, servoState
  <2> QED  BY <2>1 DEF Narrow, SERVO_MAX
<1> QED  BY <1>1, <1>2, <1>3, <1>4, <1>5 DEF ServoNext

\* Fewer servos need no more time.
LEMMA Room ==
  ASSUME NEW M \in Nat, NEW c \in Nat, c <= NSERVOS
  PROVE  c * M \in Nat /\ NSERVOS * M \in Nat /\ c * M <= NSERVOS * M
<1> DEFINE k == NSERVOS - c
<1>1. k \in Nat /\ NSERVOS = c + k /\ NSERVOS \in Nat  BY ServoAssumption
<1> HIDE DEF k
<1>2. k * M \in Nat /\ c * M \in Nat  BY <1>1
<1>3. NSERVOS * M = c * M + k * M  BY <1>1
<1> QED  BY <1>2, <1>3

\* The time of an interrupt.
LEMMA FramedPulse ==
  ASSUME Kept, NEW L \in Nat, NEW T \in Nat, Narrow(T), Framed(L, T + L),
         NSERVOS * (T + L) + 4 < TIMER,
         NEW late \in Nat, late <= L, NEW u \in UntilMatch, Pulse(u + late)
  PROVE  Framed(L, T + L)'
<1> DEFINE M    == T + L
           d    == u + late
           now    == IF Channel < 0 THEN 0 ELSE (TCNT1 + d) % TIMER
           next == Channel + 1
<1>1. /\ TCNT1' = now /\ frame' = (IF Channel < 0 THEN 0 ELSE frame + d)
      /\ \/ next \in Servos /\ OCR1A' = (now + ticks[next]) % TIMER /\ Channel' = next
         \/ next \notin Servos /\ OCR1A' = WaitUntil(now) /\ Channel' = -1
  BY DEF Pulse
<1>2. /\ TIMER \in Nat /\ TCNT1 \in 0..(TIMER - 1) /\ OCR1A \in 0..(TIMER - 1)
      /\ Channel \in Servos \cup {-1} /\ frame \in Nat /\ Refresh \in Nat /\ Refresh < TIMER
  <2>1. 0 \in 0..(TIMER - 1)  BY TimerSize
  <2> QED  BY <2>1, TimerSize, WaitType DEF Kept, ServoTypeOK
<1>3. u \in Nat /\ u <= TIMER /\ (TCNT1 + u) % TIMER = OCR1A
  BY <1>2, MatchAhead DEF UntilMatch
<1>4. M \in Nat /\ NSERVOS \in Nat \ {0}  BY ServoAssumption
<1>5. \A c \in Servos : c \in Nat /\ c + 1 \in Nat /\ c + 1 <= NSERVOS  BY <1>4 DEF Servos
<1>6. NSERVOS * M + 4 < TIMER  OBVIOUS
<1> HIDE DEF M, now
<1>7. ASSUME Channel # -1
      PROVE  /\ now = OCR1A + late /\ now <= (Channel + 1) * M
             /\ frame' >= Refresh \/ now = frame'
             /\ (Channel + 1) * M \in Nat /\ (Channel + 1) * M <= NSERVOS * M
  <2>1. Channel \in Servos /\ Channel \in Nat /\ ~(Channel < 0) /\ Channel + 1 <= NSERVOS
    BY <1>2, <1>5, <1>7
  <2> DEFINE B == (Channel + 1) * M
             N == NSERVOS * M
  <2>2. OCR1A + L <= B  BY <1>7 DEF Framed, M
  <2>3. B \in Nat /\ N \in Nat /\ B <= N  BY <1>4, <2>1, Room
  <2> HIDE DEF B, N
  <2>4. N + 4 < TIMER  BY <1>6 DEF N
  <2>5. TCNT1 + u = OCR1A \/ TCNT1 + u = OCR1A + TIMER
    <3>1. (TCNT1 + u) % TIMER = IF TCNT1 + u < TIMER THEN TCNT1 + u ELSE TCNT1 + u - TIMER
      BY <1>2, <1>3, Ahead
    <3> QED  BY <1>2, <1>3, <3>1
  <2>6. OCR1A + late < TIMER  BY <1>2, <2>2, <2>3, <2>4
  <2>7. now = (TCNT1 + d) % TIMER  BY <2>1 DEF now
  <2>8. (TCNT1 + d) % TIMER = OCR1A + late
    <3>1. (OCR1A + late) % TIMER = OCR1A + late
      <4>1. late <= TIMER  BY <1>2, <2>6
      <4> QED  BY <1>2, <2>6, <4>1, Ahead
    <3>2. CASE TCNT1 + u = OCR1A
      <4>1. TCNT1 + d = OCR1A + late  BY <1>2, <1>3, <3>2
      <4> QED  BY <3>1, <4>1
    <3>3. CASE TCNT1 + u = OCR1A + TIMER
      <4> DEFINE y == OCR1A + late
      <4>1. TCNT1 + d = y + 1 * TIMER /\ y \in Int  BY <1>2, <1>3, <3>3
      <4> HIDE DEF y
      <4>2. (y + 1 * TIMER) % TIMER = y % TIMER
        <5>1. \A z, k \in Int : (z + k * TIMER) % TIMER = z % TIMER  BY TimerSize, ModMultiple
        <5> QED  BY <4>1, <5>1
      <4> QED  BY <3>1, <4>1, <4>2 DEF y
    <3> QED  BY <2>5, <3>2, <3>3
  <2>9. now = OCR1A + late /\ now <= B  BY <1>2, <2>2, <2>3, <2>7, <2>8
  <2>10. frame' = frame + d  BY <1>1, <2>1
  <2>11. frame' >= Refresh \/ now = frame'
    <3>1. frame >= Refresh \/ TCNT1 = frame  BY DEF Framed
    <3>2. CASE frame >= Refresh  BY <1>2, <1>3, <2>10, <3>2
    <3>3. CASE TCNT1 = frame /\ TCNT1 + u = OCR1A  BY <1>2, <1>3, <2>9, <2>10, <3>3
    <3>4. CASE TCNT1 = frame /\ TCNT1 + u = OCR1A + TIMER
      BY <1>2, <1>3, <2>9, <2>10, <3>4
    <3> QED  BY <2>5, <3>1, <3>2, <3>3, <3>4
  <2> QED  BY <2>3, <2>9, <2>11 DEF B, N
<1>8. ASSUME Channel = -1 PROVE now = 0 /\ frame' = 0  BY <1>1, <1>8 DEF now
<1>9. now \in Nat /\ next \in Nat /\ now <= next * M /\ next * M <= NSERVOS * M /\ next * M \in Nat
  <2>1. CASE Channel = -1
    <3>1. next = 0 /\ now = 0  BY <1>8, <2>1
    <3>2. 0 * M = 0 /\ 0 * M <= NSERVOS * M  BY <1>4, Room
    <3> QED  BY <3>1, <3>2
  <2>2. CASE Channel # -1
    <3>1. Channel \in Nat  BY <1>2, <1>5, <2>2
    <3> QED  BY <1>2, <1>7, <2>2, <3>1
  <2> QED  BY <2>1, <2>2
<1>10. frame' >= Refresh \/ TCNT1' = frame'  BY <1>1, <1>7, <1>8
<1> DEFINE N == NSERVOS * M
           B == next * M
<1>11. now \in Nat /\ N \in Nat /\ N + 4 < TIMER /\ B \in Nat /\ now <= B /\ B <= N  BY <1>4, <1>6, <1>9, Room
<1>12. CASE next \in Servos /\ OCR1A' = (now + ticks[next]) % TIMER /\ Channel' = next
  <2>1. next + 1 \in Nat /\ next + 1 <= NSERVOS /\ Channel' # -1  BY <1>5, <1>9, <1>12
  <2>2. (next + 1) * M \in Nat /\ (next + 1) * M <= N  BY <1>4, <2>1, Room
  <2>3. ticks[next] <= T /\ ticks[next] \in Nat
    BY <1>12 DEF Narrow, Kept, ServoTypeOK
  <2> DEFINE k == ticks[next]
             C == (next + 1) * M
  <2>4. C = B + M  BY <1>4, <1>9
  <2> HIDE DEF B, N, C, k
  <2>5. k \in Nat /\ k <= T /\ C \in Nat /\ C <= N  BY <2>2, <2>3 DEF k, C
  <2>6. now + k + L <= C  BY <1>9, <1>11, <2>4, <2>5 DEF M
  <2>7. now + k < TIMER  BY <1>2, <1>11, <2>5, <2>6
  <2>11. k <= TIMER /\ now \in 0..(TIMER - 1)  BY <1>2, <1>11, <2>5, <2>7
  <2>8. (now + k) % TIMER = now + k  BY <2>5, <2>7, <2>11, Ahead
  <2>9. OCR1A' + L <= C  BY <1>12, <2>6, <2>8 DEF k
  <2>10. OCR1A' + L <= (Channel' + 1) * M  BY <1>12, <2>9 DEF C
  <2> QED  BY <1>10, <2>1, <2>10 DEF Framed, M, Refresh
<1>13. CASE next \notin Servos /\ OCR1A' = WaitUntil(now) /\ Channel' = -1
  <2> HIDE DEF B, N
  <2>1. now \in 0..(TIMER - 1) /\ now + 4 < TIMER /\ 4 <= TIMER  BY <1>2, <1>9, <1>11
  <2>2. (now + 4) % TIMER = now + 4  BY <2>1, Ahead
  <2>3. Refresh <= OCR1A'  BY <1>2, <1>13, <2>1, <2>2 DEF WaitUntil
  <2> QED  BY <1>10, <1>13, <2>3 DEF Framed, Refresh
<1> QED  BY <1>1, <1>12, <1>13

\* The time of a call.
LEMMA FramedCall ==
  ASSUME Kept, NEW L \in Nat, NEW M \in Nat, Framed(L, M), NEW q \in Quanta, Wait(q), Pass(q)
  PROVE  Framed(L, M)'
<1>1. /\ TIMER \in Nat /\ TCNT1 \in 0..(TIMER - 1) /\ OCR1A \in 0..(TIMER - 1)
      /\ frame \in Nat /\ Refresh \in Nat /\ Refresh < TIMER
  <2>1. 0 \in 0..(TIMER - 1)  BY TimerSize
  <2> QED  BY <2>1, TimerSize, WaitType DEF Kept, ServoTypeOK
<1>2. q \in Nat /\ q <= TIMER
  <2>1. (OCR1A - TCNT1) % TIMER \in 0..(TIMER - 1)  BY <1>1, TimerSize
  <2>2. q \in Nat /\ (q = 0 \/ q < (OCR1A - TCNT1) % TIMER)  BY Waits
  <2> HIDE DEF TIMER
  <2> DEFINE u == (OCR1A - TCNT1) % TIMER
  <2> HIDE DEF u
  <2>3. u \in 0..(TIMER - 1) /\ (q = 0 \/ q < u)  BY <2>1, <2>2 DEF u
  <2> QED  BY <1>1, <2>2, <2>3
<1>3. (TCNT1 + q) % TIMER = IF TCNT1 + q < TIMER THEN TCNT1 + q ELSE TCNT1 + q - TIMER
  BY <1>1, <1>2, Ahead
<1>4. TCNT1' = (TCNT1 + q) % TIMER /\ frame' = frame + q /\ UNCHANGED <<OCR1A, Channel>>
  BY DEF Pass
<1>5. frame' >= Refresh \/ TCNT1' = frame'
  <2>1. frame >= Refresh \/ TCNT1 = frame  BY DEF Framed
  <2>2. CASE frame >= Refresh  BY <1>1, <1>2, <1>4, <2>2
  <2>3. CASE TCNT1 = frame  BY <1>1, <1>2, <1>3, <1>4, <2>3
  <2> QED  BY <2>1, <2>2, <2>3
<1> QED  BY <1>4, <1>5 DEF Framed, Refresh

\* The wait after the last servo ends no sooner than the refresh interval after the
\* frame began, for as many servos as have room: with the default limits and delays of
\* up to 0.3 ms, all 12 of a timer.
THEOREM FramesKept ==
  ASSUME NEW T \in Nat, NEW L \in Nat,
         \A late \in Lates : late <= L,
         Widest(MAX_PULSE_WIDTH) <= T, \A l \in Limits : Widest(l[2]) <= T,
         NSERVOS * (T + L) + 4 < TIMER
  PROVE  ServoSpec => []FrameKept
<1> DEFINE Inv == Narrow(T) /\ Framed(L, T + L)
<1>1. ServoInit => Inv
  <2> SUFFICES ASSUME ServoInit PROVE Inv  OBVIOUS
  <2>1. Channel = 0 /\ TCNT1 = frame /\ OCR1A = 0  BY DEF ServoInit
  <2>2. 0 + L <= (0 + 1) * (T + L)  OBVIOUS
  <2>3. Framed(L, T + L)  BY <2>1, <2>2 DEF Framed
  <2> QED  BY <2>3, NarrowInit
<1>2. Kept /\ Inv /\ [ServoNext]_servoVars => Inv'
  <2> SUFFICES ASSUME Kept, Inv, [ServoNext]_servoVars PROVE Inv'  OBVIOUS
  <2>1. Narrow(T)'  BY NarrowStep
  <2>2. CASE Interrupt
    <3>1. PICK late \in Lates, u \in UntilMatch : Pulse(u + late)  BY <2>2 DEF Interrupt
    <3>2. late \in Nat /\ late <= L  BY ServoAssumption
    <3> QED  BY <2>1, <3>1, <3>2, FramedPulse
  <2>3. CASE ServoAttach
    <3>1. PICK q \in Quanta :
            /\ Wait(q)
            /\ IF isTimerActive
               THEN Pass(q)
               ELSE TCNT1' = 0 /\ OCIE1A' = TRUE /\ frame' = 0 /\ UNCHANGED <<OCR1A, Channel>>
      BY <2>3 DEF ServoAttach
    <3>2. CASE isTimerActive  BY <2>1, <3>1, <3>2, FramedCall
    <3>3. CASE ~isTimerActive
      <4>1. TCNT1' = frame' /\ UNCHANGED <<OCR1A, Channel>>  BY <3>1, <3>3
      <4> QED  BY <2>1, <4>1 DEF Framed, Refresh
    <3> QED  BY <3>2, <3>3
  <2>4. CASE ServoDetach \/ ServoWrite
    <3>1. PICK q \in Quanta : Wait(q) /\ Pass(q)  BY <2>4 DEF ServoDetach, ServoWrite
    <3> QED  BY <2>1, <3>1, FramedCall
  <2>5. CASE UNCHANGED servoVars
    <3>1. UNCHANGED <<TCNT1, frame, OCR1A, Channel>>  BY <2>5 DEF servoVars, timer1
    <3> QED  BY <2>1, <3>1 DEF Framed, Refresh
  <2> QED  BY <2>2, <2>3, <2>4, <2>5 DEF ServoNext
<1>3. Kept /\ Inv => FrameKept
  <2> SUFFICES ASSUME Kept, Inv, Channel = -1, NEW u \in UntilMatch
               PROVE  frame + u >= Refresh
    BY DEF FrameKept
  <2>1. /\ TCNT1 \in 0..(TIMER - 1) /\ OCR1A \in 0..(TIMER - 1) /\ frame \in Nat /\ Refresh \in Nat
        /\ TIMER \in Nat
    <3>1. 0 \in 0..(TIMER - 1)  BY TimerSize
    <3> QED  BY <3>1, TimerSize, WaitType DEF Kept, ServoTypeOK
  <2>2. u \in Nat /\ (TCNT1 + u) % TIMER = OCR1A /\ u <= TIMER
    BY <2>1, MatchAhead DEF UntilMatch
  <2>3. Refresh <= OCR1A /\ (frame >= Refresh \/ TCNT1 = frame)  BY DEF Framed
  <2>4. (TCNT1 + u) % TIMER = IF TCNT1 + u < TIMER THEN TCNT1 + u ELSE TCNT1 + u - TIMER
    BY <2>1, <2>2, Ahead
  <2>5. OCR1A <= TCNT1 + u  BY <2>1, <2>2, <2>4
  <2> QED  BY <2>1, <2>2, <2>3, <2>5
<1> HIDE DEF Inv
<1> QED  BY <1>1, <1>2, <1>3, Keeping, PTL DEF ServoSpec
-----------------------------------------------------------------------------
(***************************************************************************)
(* Angles.  map() rounds down on the way to a width and back, and read()   *)
(* adds 1 before it maps back: while the range is wider than 180           *)
(* microseconds, which an int8_t cannot help, that gives the angle.        *)
(***************************************************************************)
Angled ==
  \A s \in Servos :
    /\ min[s] = Int8(Truncate(MIN_PULSE_WIDTH - limits[s][1], 4))
    /\ max[s] = Int8(Truncate(MAX_PULSE_WIDTH - limits[s][2], 4))
    /\ angle[s] \in -1..180
    /\ angle[s] >= 0 =>
         ticks[s] = WidthTicks(s, Map(angle[s], 0, 180, SERVO_MIN(s), SERVO_MAX(s)))

LEMMA AngledInit == ServoInit => Angled
<1> SUFFICES ASSUME ServoInit, NEW s \in Servos
             PROVE  /\ min[s] = Int8(Truncate(MIN_PULSE_WIDTH - limits[s][1], 4))
                    /\ max[s] = Int8(Truncate(MAX_PULSE_WIDTH - limits[s][2], 4))
                    /\ angle[s] = -1
  BY DEF Angled
<1>1. min[s] = 0 /\ max[s] = 0 /\ angle[s] = -1
      /\ limits[s][1] = MIN_PULSE_WIDTH /\ limits[s][2] = MAX_PULSE_WIDTH
  BY DEF ServoInit
<1>2. Int8(Truncate(MIN_PULSE_WIDTH - MIN_PULSE_WIDTH, 4)) = 0
  BY DEF MIN_PULSE_WIDTH, Int8, Truncate
<1>3. Int8(Truncate(MAX_PULSE_WIDTH - MAX_PULSE_WIDTH, 4)) = 0
  BY DEF MAX_PULSE_WIDTH, Int8, Truncate
<1> QED  BY <1>1, <1>2, <1>3

LEMMA AngledStep == Kept /\ Angled /\ [ServoNext]_servoVars => Angled'
<1> SUFFICES ASSUME Kept, Angled, [ServoNext]_servoVars PROVE Angled'  OBVIOUS
<1>1. ASSUME UNCHANGED <<min, max, limits, angle, ticks>> PROVE Angled'
  <2>1. \A s \in Servos : /\ SERVO_MIN(s)' = SERVO_MIN(s)
                                     /\ SERVO_MAX(s)' = SERVO_MAX(s)
    BY <1>1 DEF SERVO_MIN, SERVO_MAX
  <2> QED  BY <1>1 DEF Angled, WidthTicks, SERVO_MIN, SERVO_MAX
<1>2. CASE Interrupt  BY <1>1, <1>2 DEF Interrupt, Pulse, servoState
<1>3. CASE ServoDetach  BY <1>1, <1>3 DEF ServoDetach
<1>4. CASE UNCHANGED servoVars  BY <1>1, <1>4 DEF servoVars, servoState
<1>5. CASE ServoAttach
  <2>1. PICK s \in Servos, l \in Limits :
          /\ min' = [min EXCEPT ![s] = Int8(Truncate(MIN_PULSE_WIDTH - l[1], 4))]
          /\ max' = [max EXCEPT ![s] = Int8(Truncate(MAX_PULSE_WIDTH - l[2], 4))]
          /\ limits' = [limits EXCEPT ![s] = <<l[1], l[2]>>]
          /\ angle' = [angle EXCEPT ![s] = -1]
          /\ ticks' = ticks
    <3>1. PICK s \in Servos, p \in ServoPins, l \in Limits : Attach(s, p, l[1], l[2])
      BY <1>5, Zenon DEF ServoAttach
    <3> QED  BY <3>1, Zenon DEF Attach
  <2>2. ASSUME NEW o \in Servos
        PROVE  /\ min'[o] = Int8(Truncate(MIN_PULSE_WIDTH - limits'[o][1], 4))
               /\ max'[o] = Int8(Truncate(MAX_PULSE_WIDTH - limits'[o][2], 4))
               /\ angle'[o] \in -1..180
               /\ angle'[o] >= 0 =>
                    ticks'[o] = WidthTicks(o, Map(angle[o], 0, 180, SERVO_MIN(o), SERVO_MAX(o)))'
    <3>1. CASE o = s
      <4>1. /\ min'[o] = Int8(Truncate(MIN_PULSE_WIDTH - l[1], 4))
            /\ max'[o] = Int8(Truncate(MAX_PULSE_WIDTH - l[2], 4))
            /\ limits'[o] = <<l[1], l[2]>> /\ angle'[o] = -1
        BY <2>1, <3>1 DEF Kept, ServoTypeOK
      <4> QED  BY <4>1
    <3>2. CASE o # s
      <4>1. /\ min'[o] = min[o] /\ max'[o] = max[o] /\ limits'[o] = limits[o]
            /\ angle'[o] = angle[o] /\ ticks'[o] = ticks[o]
        BY <2>1, <3>2 DEF Kept, ServoTypeOK
      <4>2. SERVO_MIN(o)' = SERVO_MIN(o) /\ SERVO_MAX(o)' = SERVO_MAX(o)
        BY <4>1 DEF SERVO_MIN, SERVO_MAX
      <4> QED  BY <4>1, <4>2 DEF Angled, WidthTicks
    <3> QED  BY <3>1, <3>2
  <2> QED  BY <2>2 DEF Angled
<1>6. CASE ServoWrite
  <2>1. PICK s \in Servos :
          /\ UNCHANGED <<min, max, limits>>
          /\ \/ \E us \in Widths : /\ ticks' = [ticks EXCEPT ![s] = WidthTicks(s, us)]
                                   /\ angle' = [angle EXCEPT ![s] = -1]
             \/ \E a \in Angles :
                  /\ angle' = [angle EXCEPT ![s] = Clamp(a, 0, 180)]
                  /\ ticks' = [ticks EXCEPT ![s] =
                       WidthTicks(s, Map(angle'[s], 0, 180, SERVO_MIN(s), SERVO_MAX(s)))]
    BY <1>6 DEF ServoWrite
  <2>2. \A o \in Servos : SERVO_MIN(o)' = SERVO_MIN(o) /\ SERVO_MAX(o)' = SERVO_MAX(o)
    BY <2>1 DEF SERVO_MIN, SERVO_MAX
  <2>3. \A o \in Servos \ {s} : angle'[o] = angle[o] /\ ticks'[o] = ticks[o]
    BY <2>1 DEF Kept
  <2>4. /\ angle'[s] \in -1..180
        /\ angle'[s] >= 0 =>
             ticks'[s] = WidthTicks(s, Map(angle'[s], 0, 180, SERVO_MIN(s), SERVO_MAX(s)))
    <3>1. CASE \E us \in Widths : angle' = [angle EXCEPT ![s] = -1]
      <4>1. angle'[s] = -1  BY <3>1 DEF Kept
      <4> QED  BY <4>1
    <3>2. CASE \E a \in Angles :
                 /\ angle' = [angle EXCEPT ![s] = Clamp(a, 0, 180)]
                 /\ ticks' = [ticks EXCEPT ![s] =
                      WidthTicks(s, Map(angle'[s], 0, 180, SERVO_MIN(s), SERVO_MAX(s)))]
      <4>1. PICK a \in Angles :
              /\ angle' = [angle EXCEPT ![s] = Clamp(a, 0, 180)]
              /\ ticks' = [ticks EXCEPT ![s] =
                   WidthTicks(s, Map(angle'[s], 0, 180, SERVO_MIN(s), SERVO_MAX(s)))]
        BY <3>2
      <4>2. a \in Int /\ Clamp(a, 0, 180) \in 0..180  BY PulseAssumption, Angled180
      <4>3. angle'[s] = Clamp(a, 0, 180)  BY <4>1 DEF Kept
      <4>4. ticks'[s] = WidthTicks(s, Map(angle'[s], 0, 180, SERVO_MIN(s), SERVO_MAX(s)))
        BY <4>1 DEF Kept
      <4> QED  BY <4>2, <4>3, <4>4
    <3> QED  BY <2>1, <3>1, <3>2
  <2>5. ASSUME NEW o \in Servos
        PROVE  /\ min'[o] = Int8(Truncate(MIN_PULSE_WIDTH - limits'[o][1], 4))
               /\ max'[o] = Int8(Truncate(MAX_PULSE_WIDTH - limits'[o][2], 4))
               /\ angle'[o] \in -1..180
               /\ angle'[o] >= 0 =>
                    ticks'[o] = WidthTicks(o, Map(angle[o], 0, 180, SERVO_MIN(o), SERVO_MAX(o)))'
    <3>1. CASE o = s  BY <2>1, <2>2, <2>4, <3>1 DEF Angled, WidthTicks
    <3>2. CASE o # s  BY <2>1, <2>2, <2>3, <3>2 DEF Angled, WidthTicks
    <3> QED  BY <3>1, <3>2
  <2> QED  BY <2>5 DEF Angled
<1> QED  BY <1>2, <1>3, <1>4, <1>5, <1>6 DEF ServoNext

\* map() from an angle to a width above the least, and back from the width after it.
Degrees == 0..180
Wider   == {R \in Nat : R > 180}

There(a, R) == (a * R) \div 180
Back(x, R)  == ((x + 1) * 180) \div R

LEMMA RoundTrip ==
  ASSUME NEW a \in Degrees, NEW R \in Wider
  PROVE  There(a, R) \in 0..R /\ Back(There(a, R), R) = a
<1> DEFINE y == a * R
           x == y \div 180
           r == y % 180
<1>0. a \in 0..180 /\ R \in Nat /\ R > 180  BY DEF Degrees, Wider
<1>1. y \in Nat  BY <1>0
<1>2. y <= 180 * R
  <2> DEFINE k == 180 - a
  <2>1. k \in Nat /\ a = 180 - k  BY <1>0
  <2> HIDE DEF k
  <2>2. y = 180 * R - k * R /\ k * R \in Nat  BY <1>0, <2>1
  <2> HIDE DEF y
  <2> QED  BY <1>0, <1>1, <2>2
<1> HIDE DEF y
<1>3. x \in Nat /\ r \in Nat /\ r < 180 /\ y = x * 180 + r  BY <1>1
<1> HIDE DEF x, r
<1>4. x <= R  BY <1>0, <1>1, <1>2, <1>3
<1> DEFINE e == 180 - r
<1>5. (x + 1) * 180 = y + e /\ e \in Nat /\ e < R  BY <1>0, <1>1, <1>3
<1> HIDE DEF e
<1>6. e \in 0..(R - 1) /\ a \in Int /\ R \in Nat \ {0}  BY <1>0, <1>5
<1>7. (a * R + e) \div R = a  BY <1>6, DivUnique
<1>8. ((x + 1) * 180) \div R = a  BY <1>5, <1>7 DEF y
<1>9. There(a, R) = x  BY DEF There, x, y
<1> QED  BY <1>0, <1>3, <1>4, <1>8, <1>9 DEF Back

\* With limits that an int8_t can hold in units of 4 microseconds, read() gives back the
\* angle that write() kept, and the pulse is within 3 microseconds of the limits.
THEOREM AnglesKept == ServoSpec => []AngleKept
<1>1. Kept /\ Angled => AngleKept
  <2> SUFFICES ASSUME Kept, Angled, NEW s \in Servos, angle[s] >= 0, Fit(limits[s])
               PROVE  /\ read(s) = angle[s]
                      /\ readMicroseconds(s) \in (limits[s][1] - 3)..(limits[s][2] + 3)
    BY DEF AngleKept
  <2> DEFINE a  == angle[s]
             lo == SERVO_MIN(s)
             hi == SERVO_MAX(s)
             R  == hi - lo
             x  == There(a, R)
  <2>1. lo \in LeastWidths /\ hi \in GreatestWidths  BY Limited
  <2>2. a \in 0..180  BY DEF Angled
  <2>3. ticks[s] = WidthTicks(s, Map(a, 0, 180, lo, hi))  BY DEF Angled
  <2> HIDE DEF lo, hi, a
  <2>4. lo \in Nat /\ hi \in Nat /\ 36 <= lo /\ hi <= 2912 /\ R \in Nat /\ R > 180
    <3>1. lo \in 36..1056 /\ hi \in 1892..2912  BY <2>1 DEF LeastWidths, GreatestWidths
    <3>2. /\ lo \in Nat /\ hi \in Nat /\ 36 <= lo /\ hi <= 2912
          /\ hi - lo \in Nat /\ hi - lo > 180
      BY <3>1
    <3> QED  BY <3>2
  <2> HIDE DEF R
  <2>5. x \in 0..R /\ Back(x, R) = a
    <3>1. a \in Degrees /\ R \in Wider  BY <2>2, <2>4 DEF Degrees, Wider
    <3> QED  BY <3>1, RoundTrip
  <2>6. Map(a, 0, 180, lo, hi) = x + lo
    <3> DEFINE y == a * R
    <3>1. a \in Nat  BY <2>2
    <3>2. y \in Nat  BY <2>4, <3>1
    <3>3. (a - 0) * (hi - lo) = y  BY <3>1 DEF R
    <3>4. 180 - 0 = 180  OBVIOUS
    <3>5. Map(a, 0, 180, lo, hi) = Truncate(y, 180) + lo  BY <3>3, <3>4 DEF Map
    <3>6. x = y \div 180  BY DEF x, There
    <3> HIDE DEF y, x
    <3>7. Truncate(y, 180) = y \div 180  BY <3>2 DEF Truncate
    <3> QED  BY <3>5, <3>6, <3>7
  <2> HIDE DEF x
  <2> DEFINE us == x + lo
  <2>7. us \in Int /\ lo <= us /\ us <= hi /\ 36 <= us /\ us <= 2912
    BY <2>4, <2>5 DEF R
  <2> HIDE DEF us
  <2>8. ticks[s] = 2 * (us - 2)
    <3>1. Clamp(us, lo, hi) = us  BY <2>4, <2>7 DEF Clamp
    <3>2. ticks[s] = WidthTicks(s, us)  BY <2>3, <2>6 DEF us
    <3>3. WidthTicks(s, us) = 2 * (Clamp(us, lo, hi) - 2)  BY <2>7, WidthLimited DEF lo, hi
    <3> QED  BY <3>1, <3>2, <3>3
  <2>9. readMicroseconds(s) = us
    <3> DEFINE n == 2 * (us - 2)
    <3>1. n \in Nat /\ n <= 5820 /\ n * 8 = 16 * (us - 2)  BY <2>7
    <3> HIDE DEF n
    <3>2. n % TIMER = n /\ (n * 8) % TIMER = n * 8  BY <3>1 DEF TIMER
    <3>3. (n * 8) \div 16 = us - 2  BY <2>7, <3>1
    <3>4. ticksToUs(n) = us - 2  BY <3>2, <3>3 DEF ticksToUs
    <3> QED  BY <2>7, <2>8, <3>4 DEF readMicroseconds, TRIM_DURATION, n
  <2>10. read(s) = a
    <3>1. read(s) = Map(us + 1, lo, hi, 0, 180)  BY <2>9 DEF read, lo, hi
    <3>2. us + 1 - lo = x + 1 /\ (x + 1) * 180 >= 0  BY <2>4, <2>5 DEF us
    <3>3. Map(us + 1, lo, hi, 0, 180) = ((x + 1) * 180) \div R + 0
      <4> DEFINE z == (x + 1) * 180
      <4>1. (us + 1 - lo) * (180 - 0) = z  BY <3>2
      <4>2. Map(us + 1, lo, hi, 0, 180) = Truncate(z, R) + 0
        <5> DEFINE w == (us + 1 - lo) * (180 - 0)
        <5>1. Map(us + 1, lo, hi, 0, 180) = Truncate(w, hi - lo) + 0  BY <2>4, <2>7 DEF Map
        <5>2. w = z  BY <4>1
        <5> HIDE DEF w, z
        <5> QED  BY <5>1, <5>2 DEF R
      <4>3. z >= 0  BY <3>2
      <4> HIDE DEF z
      <4>4. Truncate(z, R) = z \div R  BY <4>3 DEF Truncate
      <4> QED  BY <4>2, <4>4 DEF z
    <3>4. Map(us + 1, lo, hi, 0, 180) = a + 0  BY <2>5, <3>3 DEF Back
    <3> QED  BY <2>2, <3>1, <3>4
  <2>11. us \in (limits[s][1] - 3)..(limits[s][2] + 3)
    <3> DEFINE l == limits[s][1]
               h == limits[s][2]
               dist == MIN_PULSE_WIDTH - l
               n == MAX_PULSE_WIDTH - h
    <3>1. l \in Int /\ h \in Int  BY DEF Kept
    <3>2. l >= 33 /\ l <= 1059 /\ h >= 1889 /\ h <= 2915
      <4>1. l \in (544 - 511)..(544 + 515) /\ h \in (2400 - 511)..(2400 + 515)
        BY DEF Fit, MIN_PULSE_WIDTH, MAX_PULSE_WIDTH
      <4> HIDE DEF l, h
      <4> QED  BY <3>1, <4>1
    <3>3. min[s] = Int8(Truncate(dist, 4)) /\ max[s] = Int8(Truncate(n, 4))  BY DEF Angled
    <3>4. lo = 544 - min[s] * 4 /\ hi = 2400 - max[s] * 4 /\ dist = 544 - l /\ n = 2400 - h
      BY DEF lo, hi, SERVO_MIN, SERVO_MAX, MIN_PULSE_WIDTH, MAX_PULSE_WIDTH
    <3> HIDE DEF l, h, dist, n
    <3>5. dist \in Int /\ -515 <= dist /\ dist <= 511 /\ n \in Int /\ -515 <= n /\ n <= 511
      BY <3>1, <3>2, <3>4
    <3> DEFINE i == Truncate(dist, 4)
               j == Truncate(n, 4)
    <3>6. i \in Int /\ j \in Int /\ min[s] = i /\ max[s] = j
          /\ dist - 4 * i \in -3..3 /\ n - 4 * j \in -3..3
      BY <3>3, <3>5, Quarter, Int8Range
    <3> HIDE DEF i, j
    <3>7. l - 3 <= lo /\ hi <= h + 3  BY <3>1, <3>4, <3>5, <3>6
    <3> QED  BY <2>4, <2>7, <3>1, <3>7 DEF l, h
  <2> QED  BY <2>9, <2>10, <2>11 DEF a
<1> QED  BY <1>1, AngledInit, AngledStep, Keeping, PTL DEF ServoSpec
-----------------------------------------------------------------------------
(***** the board *****)

\* The part that runs takes a step of its own, and the others stand still.
LEMMA TimeApart == TimeStep => TimeNext /\ UNCHANGED <<toneVars, servoVars, bridgeVars>>
<1> QED  BY DEF TimeStep, OnTime, TimeNext, Sketch

LEMMA ToneApart == ToneStep => ToneNext /\ UNCHANGED <<timeVars, servoVars, bridgeVars>>
<1> QED  BY DEF ToneStep, OnTone, ToneNext, ToneSketch

LEMMA ServoApart == ServoStep => ServoNext /\ UNCHANGED <<timeVars, toneVars, bridgeVars>>
<1> QED  BY DEF ServoStep, OnServo, ServoNext

LEMMA BridgeApart == BridgeStep => BridgeNext /\ UNCHANGED <<timeVars, toneVars, servoVars>>
<1> QED  BY DEF BridgeStep, OnBridge, BridgeNext, Main

\* A step of the board is a step, or a stutter, of each part.
LEMMA StepOfEach ==
  [BoardNext]_boardVars => /\ [TimeNext]_timeVars /\ [ToneNext]_toneVars
                           /\ [ServoNext]_servoVars /\ [BridgeNext]_bridgeVars
<1>1. UNCHANGED boardVars => UNCHANGED <<timeVars, toneVars, servoVars, bridgeVars>>
  BY DEF boardVars
<1> QED  BY <1>1, TimeApart, ToneApart, ServoApart, BridgeApart DEF BoardNext

\* The board implements the safety of each of its parts, so what is proved above of a
\* part holds of it on the board: they share no variable (wiring.c, Tone.cpp, Servo.cpp
\* and the bridge's firmware use a timer each).
THEOREM BoardRunsEach ==
  BoardSpec => /\ TimeInit /\ [][TimeNext]_timeVars
               /\ ToneInit /\ [][ToneNext]_toneVars
               /\ ServoInit /\ [][ServoNext]_servoVars
               /\ BridgeInit /\ [][BridgeNext]_bridgeVars
<1>1. BoardInit => TimeInit /\ ToneInit /\ ServoInit /\ BridgeInit  BY DEF BoardInit
<1> QED  BY <1>1, StepOfEach, PTL DEF BoardSpec

\* Whatever part runs, every variable of the board keeps the type of its C declaration.
THEOREM BoardTyped == BoardSpec => []BoardTypeOK
<1> DEFINE Typed == /\ TimeTypeOK /\ Delaying
                    /\ ToneTypeOK /\ Asked
                    /\ Kept
                    /\ BridgeTypeOK
<1>1. BoardInit => Typed
  BY TimeTypes, TypesInit, KeptInit, TypeHolds DEF BoardInit
<1>2. Typed /\ [BoardNext]_boardVars => Typed'
  <2> SUFFICES ASSUME Typed, [BoardNext]_boardVars PROVE Typed'  OBVIOUS
  <2>1. /\ [TimeNext]_timeVars /\ [ToneNext]_toneVars
        /\ [ServoNext]_servoVars /\ [BridgeNext]_bridgeVars
    BY StepOfEach
  <2>2. TimeTypeOK' /\ Delaying'  BY <2>1, TimeTypesStep
  <2>3. ToneTypeOK' /\ Asked'  BY <2>1, TypesKept
  <2>4. Kept'  BY <2>1, KeptStep
  <2>5. BridgeTypeOK'  BY <2>1, TypeHolds
  <2> QED  BY <2>2, <2>3, <2>4, <2>5
<1>3. Typed => BoardTypeOK  BY DEF Kept, BoardTypeOK
<1> QED  BY <1>1, <1>2, <1>3, PTL DEF BoardSpec
=============================================================================
