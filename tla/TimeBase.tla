----------------------------- MODULE TimeBase ------------------------------
(***************************************************************************)
(* cores/arduino/wiring.c: timer 0 and the time functions built on it.     *)
(* The hardware counts TCNT0 up and sets the flag TOV0 when it wraps; the  *)
(* overflow interrupt, delayed while interrupts are off, keeps the count   *)
(* of overflows and the milliseconds.  micros() and millis() read several  *)
(* bytes of that state with interrupts off, while the hardware counts on;  *)
(* delay() polls micros() and compares 16-bit differences.                 *)
(*                                                                         *)
(* The widths and units are constants, so that a small instance wraps as   *)
(* the real one does after 71 minutes (micros) and 50 days (millis).       *)
(***************************************************************************)
EXTENDS Integers

CONSTANTS TOP,        \* ticks per overflow: 256
          TICK_US,    \* microseconds per tick: 64 / clockCyclesPerMicrosecond()
          MS,         \* microseconds per millisecond: 1000
          FR,         \* microseconds per unit of timer0_fract: 8
          LONG, WORD, \* values of unsigned long and uint16_t: 2^32, 2^16
          BYTES,      \* values of the low part of a long, read by itself
          MaxLate,    \* ticks for which the overflow interrupt may be delayed
          MaxGap,     \* ticks that pass between two polls of delay()
          Delays      \* arguments of delay(), in milliseconds

VARIABLES TCNT0, TOV0,                  \* the timer and its overflow flag
          overflow_count, millis, fract,
          timePc,     \* where the sketch is in millis() or micros()
          m, t,       \* their registers (0 when dead)
          gap,        \* ticks since the call, or the poll, began
          caller,     \* who called micros(): the sketch, or delay() at one of its two places
          ms, start,  \* delay()'s variables
          asked,      \* delay()'s argument, 0 outside delay()
          waited      \* the time since delay() was called

hardware == <<TCNT0, TOV0>>
counters == <<overflow_count, millis, fract>>
reading  == <<timePc, m, t>>
delaying == <<caller, ms, start, asked>>
timeVars == <<hardware, counters, reading, gap, delaying, waited>>
-----------------------------------------------------------------------------
MICROSECONDS_PER_TIMER0_OVERFLOW == TOP * TICK_US
MILLIS_INC == MICROSECONDS_PER_TIMER0_OVERFLOW \div MS
FRACT_INC  == (MICROSECONDS_PER_TIMER0_OVERFLOW % MS) \div FR
FRACT_MAX  == MS \div FR

ASSUME UnitAssumption ==
    /\ TOP \in Nat /\ TOP >= 4 /\ TICK_US \in Nat \ {0} /\ FR \in Nat \ {0}
    /\ MS \in Nat \ {0} /\ MS % FR = 0
    \* "this doesn't lose precision", for the clock speeds it cares about
    /\ (MICROSECONDS_PER_TIMER0_OVERFLOW % MS) % FR = 0
ASSUME WidthAssumption ==
    /\ LONG \in Nat /\ WORD \in Nat \ {0} /\ BYTES \in 1..LONG
    /\ LONG % WORD = 0 /\ LONG % BYTES = 0
    /\ LONG > MS + (TOP + MaxLate) * TICK_US
ASSUME LateAssumption == MaxLate \in 1..(TOP - 2) /\ MaxGap \in Nat \ {0}
ASSUME DelayAssumption == Delays \subseteq Nat \ {0}

\* The value micros() computes from an overflow count and a timer value.
Micros(count, ticks) == ((count * TOP + ticks) * TICK_US) % LONG

TimeInit == /\ TCNT0 = 0 /\ TOV0 = FALSE
            /\ overflow_count = 0 /\ millis = 0 /\ fract = 0
            /\ timePc = "idle" /\ m = 0 /\ t = 0
            /\ gap = 0
            /\ caller = "sketch" /\ ms = 0 /\ start = 0
            /\ asked = 0 /\ waited = 0
-----------------------------------------------------------------------------
MaskedMutant == FALSE   \* mutant: no cli()

\* Between these points of a call interrupts are off.
Masked == timePc \in {"readTimer", "testFlag", "readHigh"}

\* How far behind its milliseconds delay() may be: two polls and the first.
Slack == (2 * MaxGap + 1) * TICK_US

\* The time of a delay() is counted up to where it is late.
Saturate(w) == IF w > asked * MS + Slack THEN asked * MS + Slack ELSE w

\* The hardware counts.  The environment lets the overflow interrupt run
\* before MaxLate more ticks, and delay() poll once in MaxGap ticks; the
\* masked sections are shorter than a tick.
Tick == /\ TOV0 => TCNT0 < MaxLate
        /\ gap < IF Masked THEN 1 ELSE MaxGap
        /\ TCNT0' = (TCNT0 + 1) % TOP
        /\ TOV0' = (TOV0 \/ TCNT0' = 0)
        /\ gap' = IF timePc = "idle" /\ asked = 0 THEN 0 ELSE gap + 1
        /\ waited' = IF asked > 0 THEN Saturate(waited + TICK_US) ELSE 0
        /\ UNCHANGED <<counters, reading, delaying>>

\* Mutant: the milliseconds carry one overflow too late.
OverflowMutant ==
    /\ TOV0 /\ ~Masked
    /\ TOV0' = FALSE
    /\ LET f == fract + FRACT_INC IN
         /\ fract' = IF f > FRACT_MAX THEN f - FRACT_MAX ELSE f
         /\ millis' = (millis + MILLIS_INC + IF f > FRACT_MAX THEN 1 ELSE 0) % LONG
    /\ overflow_count' = (overflow_count + 1) % LONG
    /\ UNCHANGED <<TCNT0, reading, gap, delaying, waited>>

\* SIGNAL(TIMER0_OVF_vect); entering it clears the flag.
Overflow ==
    /\ TOV0 /\ ~Masked
    /\ TOV0' = FALSE
    /\ LET f == fract + FRACT_INC IN
         /\ fract' = IF f >= FRACT_MAX THEN f - FRACT_MAX ELSE f
         /\ millis' = (millis + MILLIS_INC + IF f >= FRACT_MAX THEN 1 ELSE 0) % LONG
    /\ overflow_count' = (overflow_count + 1) % LONG
    /\ UNCHANGED <<TCNT0, reading, gap, delaying, waited>>
-----------------------------------------------------------------------------
\* millis(): a long is read in parts, with interrupts off.
MillisCall == /\ timePc = "idle" /\ asked = 0
              /\ m' = millis % BYTES
              /\ timePc' = "readHigh"
              /\ UNCHANGED <<hardware, counters, t, gap, delaying, waited>>

MillisResult == (millis \div BYTES) * BYTES + m

MillisReturn == /\ timePc = "readHigh"
                /\ m' = 0 /\ gap' = 0
                /\ timePc' = "idle"
                /\ UNCHANGED <<hardware, counters, t, delaying, waited>>

\* micros(): cli() and the read of timer0_overflow_count.
MicrosBegin == /\ m' = overflow_count
               /\ timePc' = "readTimer"
               /\ gap' = 0
               /\ UNCHANGED <<hardware, counters, t>>

MicrosCall == /\ timePc = "idle" /\ asked = 0
              /\ MicrosBegin
              /\ UNCHANGED <<delaying, waited>>

MicrosReadTimer == /\ timePc = "readTimer"
                   /\ t' = TCNT0
                   /\ timePc' = "testFlag"
                   /\ UNCHANGED <<hardware, counters, m, gap, delaying, waited>>

CarryMutant == IF TOV0 THEN 1 ELSE 0   \* mutant: without "t < 255"

\* The overflow that interrupts being off kept out of m, unless it came
\* after t was read.
Carry == IF TOV0 /\ t < TOP - 1 THEN 1 ELSE 0

\* Mutant: a difference of bytes.
DelayStepByte(us) ==
    LET due == (us - start) % BYTES >= MS
    IN  /\ ms' = IF due THEN ms - 1 ELSE ms
        /\ start' = IF due THEN (start + MS) % BYTES ELSE start

\* Mutant: without "start += 1000".
DelayStepEarly(us) ==
    /\ ms' = IF ((us % WORD) - start) % WORD >= MS THEN ms - 1 ELSE ms
    /\ start' = IF ms' = 0 THEN 0 ELSE start

\* One turn of delay()'s loop, given what micros() returned; start is dead
\* after the last.
DelayStep(us) ==
    LET due == ((us % WORD) - start) % WORD >= MS
    IN  /\ ms' = IF due THEN ms - 1 ELSE ms
        /\ start' = IF ms' = 0 THEN 0 ELSE IF due THEN (start + MS) % WORD ELSE start

\* The flag is read and micros() returns, to the sketch or to delay().
MicrosReturn ==
    LET us == Micros(m + Carry, t) IN
    /\ timePc = "testFlag"
    /\ timePc' = "idle" /\ m' = 0 /\ t' = 0
    /\ \/ /\ caller = "sketch"
          /\ gap' = 0
          /\ UNCHANGED <<delaying, waited>>
       \/ /\ caller = "start"
          /\ start' = us % WORD
          /\ caller' = "poll"
          /\ UNCHANGED <<gap, ms, asked, waited>>
       \/ /\ caller = "poll"
          /\ DelayStep(us)
          /\ IF ms' = 0
             THEN caller' = "sketch" /\ asked' = 0 /\ gap' = 0 /\ waited' = 0
             ELSE UNCHANGED <<caller, asked, gap, waited>>
    /\ UNCHANGED <<hardware, counters>>
-----------------------------------------------------------------------------
\* delay(d) starts by reading micros(), then polls it until ms is 0.
DelayCall == /\ timePc = "idle" /\ asked = 0
             /\ \E d \in Delays : asked' = d /\ ms' = d
             /\ caller' = "start"
             /\ waited' = 0
             /\ MicrosBegin
             /\ UNCHANGED start

DelayPoll == /\ timePc = "idle" /\ caller = "poll"
             /\ MicrosBegin
             /\ UNCHANGED <<delaying, waited>>

Sketch == MillisReturn \/ MicrosReadTimer \/ MicrosReturn \/ DelayPoll

TimeNext == Tick \/ Overflow \/ Sketch \/ MillisCall \/ MicrosCall \/ DelayCall

\* The timer runs, a call of the sketch goes on, and the interrupt, which is
\* pending whenever interrupts come back on, is taken then.
TimeFairness == /\ WF_timeVars(Tick)
                /\ SF_timeVars(Overflow)
                /\ WF_timeVars(Sketch)

TimeSpec == TimeInit /\ [][TimeNext]_timeVars /\ TimeFairness
-----------------------------------------------------------------------------
TimeTypeOK ==
    /\ TCNT0 \in 0..(TOP - 1) /\ TOV0 \in BOOLEAN
    /\ overflow_count \in 0..(LONG - 1) /\ millis \in 0..(LONG - 1)
    /\ fract \in 0..(FRACT_MAX - 1)
    /\ timePc \in {"idle", "readTimer", "testFlag", "readHigh"}
    /\ m \in 0..(LONG - 1) /\ t \in 0..(TOP - 1)
    /\ gap \in 0..MaxGap
    /\ caller \in {"sketch", "start", "poll"}
    /\ asked \in Delays \cup {0} /\ ms \in 0..asked
    /\ start \in 0..(WORD - 1) /\ waited \in Nat

\* The time since reset, modulo the width of a long: the overflows counted,
\* the one not counted yet, and the timer.
Now == Micros(overflow_count + IF TOV0 THEN 1 ELSE 0, TCNT0)

\* micros() returns the time at one instant of the call, whatever the
\* hardware and the interrupt do during it: the value it is going to return
\* is fixed when it reads TCNT0.
Real == INSTANCE Clock WITH
          time <- Now,
          seen <- IF timePc = "testFlag" THEN Micros(m + Carry, t) ELSE -1

ImplementsClock == Real!Spec

\* millis() and micros() never drift apart: what millis() returns is behind
\* the time by less than a millisecond, an overflow and the interrupt's delay,
\* across every wrap of either.
MillisCurrent ==
    [][timePc = "readHigh" /\ timePc' = "idle" =>
         (Now - MillisResult * MS) % LONG
            < MS + MICROSECONDS_PER_TIMER0_OVERFLOW + MaxLate * TICK_US]_timeVars

\* delay() counts down a millisecond only when one has passed, and at most two
\* polls late: it never returns early, and it does not run behind.
DelayExact ==
    [][ms' < ms /\ caller = "poll" =>
         LET due == (asked - ms') * MS
         IN  due <= waited /\ waited < due + Slack]_timeVars

\* Every delay() returns, across the wraps of its 16-bit difference.
DelayReturns == asked > 0 ~> asked = 0
=============================================================================
