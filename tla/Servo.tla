------------------------------- MODULE Servo -------------------------------
(***************************************************************************)
(* libraries/Servo/Servo.cpp: the servos of one 16-bit timer.  The compare *)
(* interrupt ends one servo's pulse and starts the next one's; after the   *)
(* last it waits for the rest of the refresh interval and sets the timer   *)
(* back to 0.  The sketch attaches, detaches and positions servos between. *)
(*                                                                         *)
(* Time passes in jumps: to the interrupt that the timer's next match with *)
(* OCR1A raises, which runs some ticks late, or to a call of the sketch    *)
(* before it.  Microseconds are the real ones; a tick is half of one.      *)
(***************************************************************************)
EXTENDS Integers, FiniteSets

CONSTANTS NSERVOS,           \* servos the sketch has: ServoCount
          REFRESH_INTERVAL,  \* 20000 for 12 servos
          ServoPins,         \* pins sketches attach them to
          Limits,            \* <<min, max>> they pass to attach()
          Angles, Widths,    \* what they pass to write() and writeMicroseconds()
          Quanta,            \* ticks after an interrupt at which they make a call
          Lates,             \* ticks by which the interrupt may be late
          MaxCalls           \* calls after the first attach()

MIN_PULSE_WIDTH     == 544
MAX_PULSE_WIDTH     == 2400
DEFAULT_PULSE_WIDTH == 1500
TRIM_DURATION       == 2
TIMER               == 65536    \* values of TCNT1, and of an unsigned int

Servos == 0..(NSERVOS - 1)

ASSUME ServoAssumption == /\ NSERVOS \in Nat \ {0} /\ MaxCalls \in Nat
                          /\ REFRESH_INTERVAL \in Nat /\ 2 * REFRESH_INTERVAL < TIMER
                          /\ Lates \subseteq Nat /\ Quanta \subseteq Nat
ASSUME PulseAssumption == /\ ServoPins \subseteq Nat /\ Limits \subseteq Int \X Int
                          /\ Widths \subseteq Int /\ Angles \subseteq Int
                          /\ \A a \in Angles : a < MIN_PULSE_WIDTH   \* write() takes these as angles

VARIABLES TCNT1, OCR1A, OCIE1A,
          Channel,              \* the servo being pulsed, -1 while waiting
          nbr, isActive,        \* servos[].Pin
          ticks,                \* servos[].ticks
          min, max,             \* the limits as Servo keeps them
          limits,               \* and as attach() was given them
          angle,                \* last angle set under these limits, -1 if none
          high,                 \* how long each pin has been high, -1 if low
          cut,                  \* pins given up by their servo while high
          want,                 \* ticks asked for when the pulse in progress began
          frame,                \* time since the timer was last set to 0
          calls

timer1     == <<TCNT1, OCR1A, OCIE1A, Channel, frame>>
servoState == <<nbr, isActive, ticks, min, max, limits, angle>>
pinState   == <<high, cut, want>>
servoVars  == <<timer1, servoState, pinState, calls>>
-----------------------------------------------------------------------------
usToTicks(us) == (16 * us) \div 8
ticksToUs(n)  == (((n % TIMER) * 8) % TIMER) \div 16

Refresh == usToTicks(REFRESH_INTERVAL)

\* C's division, which truncates, and the width of an int8_t.
Truncate(a, b) == IF a >= 0 THEN a \div b ELSE -((-a) \div b)
Int8(n) == ((n + 128) % 256) - 128

\* map(), for a value inside its range.
Map(x, lo, hi, toLo, toHi) == Truncate((x - lo) * (toHi - toLo), hi - lo) + toLo

SERVO_MIN(s) == MIN_PULSE_WIDTH - min[s] * 4
SERVO_MAX(s) == MAX_PULSE_WIDTH - max[s] * 4

Clamp(x, lo, hi) == IF x < lo THEN lo ELSE IF x > hi THEN hi ELSE x

ServoInit == /\ TCNT1 = 0 /\ OCR1A = 0 /\ OCIE1A = FALSE
             /\ Channel = 0 /\ frame = 0
             /\ nbr = [s \in Servos |-> 0]
             /\ isActive = [s \in Servos |-> FALSE]
             /\ ticks = [s \in Servos |-> usToTicks(DEFAULT_PULSE_WIDTH)]
             /\ min = [s \in Servos |-> 0] /\ max = [s \in Servos |-> 0]
             /\ limits = [s \in Servos |-> <<MIN_PULSE_WIDTH, MAX_PULSE_WIDTH>>]
             /\ angle = [s \in Servos |-> -1]
             /\ high = [p \in ServoPins |-> -1] /\ cut = {} /\ want = 0
             /\ calls = 0
-----------------------------------------------------------------------------
\* Ticks until the timer matches OCR1A.  If it is there already, a match just
\* after TCNT1 was written is lost until the timer comes round.
UntilMatch == IF TCNT1 = OCR1A THEN {0, TIMER} ELSE {(OCR1A - TCNT1) % TIMER}

\* The pins after d ticks.  How long a pin that was given up stays high is
\* nobody's pulse.
After(d) == [p \in ServoPins |-> IF high[p] < 0 \/ p \in cut THEN high[p] ELSE high[p] + d]

WaitUntilMutant(t) == (t + 4) % TIMER   \* mutant: no refresh interval

\* Where the wait for the next frame ends.
WaitUntil(t) == IF t < Refresh + 4 THEN Refresh ELSE (t + 4) % TIMER

\* handle_interrupts(), d ticks from now.
Pulse(d) ==
    LET t    == IF Channel < 0 THEN 0 ELSE (TCNT1 + d) % TIMER
        off  == IF Channel >= 0 /\ isActive[Channel] THEN {nbr[Channel]} ELSE {}
        next == Channel + 1
        on   == IF next \in Servos /\ isActive[next] THEN {nbr[next]} ELSE {}
    IN  /\ OCIE1A
        /\ TCNT1' = t
        /\ frame' = IF Channel < 0 THEN 0 ELSE frame + d
        /\ \/ /\ next \in Servos
              /\ OCR1A' = (t + ticks[next]) % TIMER
              /\ Channel' = next
           \/ /\ next \notin Servos
              /\ OCR1A' = WaitUntil(t)
              /\ Channel' = -1
        /\ high' = [p \in ServoPins |-> IF p \in on THEN 0
                                        ELSE IF p \in off THEN -1 ELSE After(d)[p]]
        /\ cut' = cut \ (on \cup off)
        /\ want' = IF on # {} THEN ticks[next] ELSE 0
        /\ UNCHANGED <<OCIE1A, servoState, calls>>

Interrupt == \E late \in Lates : \E u \in UntilMatch : Pulse(u + late)
-----------------------------------------------------------------------------
\* A call of the sketch, q ticks from now and before the next match.
Wait(q) == /\ calls < MaxCalls
           /\ calls' = calls + 1
           /\ q <= IF OCIE1A /\ TCNT1 # OCR1A THEN (OCR1A - TCNT1 - 1) % TIMER ELSE 0

isTimerActiveMutant == FALSE   \* mutant: every attach() starts the timer anew

isTimerActive == \E s \in Servos : isActive[s]

Pass(q) == TCNT1' = (TCNT1 + q) % TIMER /\ frame' = frame + q /\ UNCHANGED <<OCR1A, OCIE1A, Channel>>

\* attach(pin, min, max), with initISR() if no servo is active.
Attach(s, p, lo, hi) ==
    /\ nbr' = [nbr EXCEPT ![s] = p]
    /\ min' = [min EXCEPT ![s] = Int8(Truncate(MIN_PULSE_WIDTH - lo, 4))]
    /\ max' = [max EXCEPT ![s] = Int8(Truncate(MAX_PULSE_WIDTH - hi, 4))]
    /\ limits' = [limits EXCEPT ![s] = <<lo, hi>>]
    /\ angle' = [angle EXCEPT ![s] = -1]
    /\ isActive' = [isActive EXCEPT ![s] = TRUE]
    /\ UNCHANGED ticks

ServoAttach ==
    \E q \in Quanta, s \in Servos, p \in ServoPins, l \in Limits :
      /\ Wait(q)
      /\ \A o \in Servos \ {s} : isActive[o] => nbr[o] # p
      /\ Attach(s, p, l[1], l[2])
      /\ IF isTimerActive
         THEN Pass(q)
         ELSE TCNT1' = 0 /\ OCIE1A' = TRUE /\ frame' = 0 /\ UNCHANGED <<OCR1A, Channel>>
      /\ high' = After(q)
      /\ cut' = IF isActive[s] /\ nbr[s] # p /\ high[nbr[s]] >= 0 THEN cut \cup {nbr[s]} ELSE cut
      /\ UNCHANGED want

\* detach(); finISR() does nothing.
ServoDetach ==
    \E q \in Quanta, s \in Servos :
      /\ Wait(q)
      /\ isActive[s]
      /\ isActive' = [isActive EXCEPT ![s] = FALSE]
      /\ Pass(q)
      /\ high' = After(q)
      /\ cut' = IF high[nbr[s]] >= 0 THEN cut \cup {nbr[s]} ELSE cut
      /\ UNCHANGED <<nbr, ticks, min, max, limits, angle, want>>

WidthTicks(s, us) == usToTicks(Clamp(us, SERVO_MIN(s), SERVO_MAX(s)) - TRIM_DURATION) % TIMER

\* writeMicroseconds(), and write() with an angle.
ServoWrite ==
    \E q \in Quanta, s \in Servos :
      /\ OCIE1A   \* sketches attach a servo before they position any
      /\ Wait(q)
      /\ \/ \E us \in Widths :
              /\ ticks' = [ticks EXCEPT ![s] = WidthTicks(s, us)]
              /\ angle' = [angle EXCEPT ![s] = -1]
         \/ \E a \in Angles :
              /\ angle' = [angle EXCEPT ![s] = Clamp(a, 0, 180)]
              /\ ticks' = [ticks EXCEPT ![s] =
                             WidthTicks(s, Map(angle'[s], 0, 180, SERVO_MIN(s), SERVO_MAX(s)))]
      /\ Pass(q)
      /\ high' = After(q)
      /\ UNCHANGED <<nbr, isActive, min, max, limits, cut, want>>

readMicroseconds(s) == ticksToUs(ticks[s]) + TRIM_DURATION
readMutant(s) == Map(readMicroseconds(s), SERVO_MIN(s), SERVO_MAX(s), 0, 180)   \* mutant: no "+ 1"

read(s) == Map(readMicroseconds(s) + 1, SERVO_MIN(s), SERVO_MAX(s), 0, 180)

ServoNext == Interrupt \/ ServoAttach \/ ServoDetach \/ ServoWrite

ServoSpec == ServoInit /\ [][ServoNext]_servoVars
-----------------------------------------------------------------------------
ServoTypeOK ==
    /\ TCNT1 \in 0..(TIMER - 1) /\ OCR1A \in 0..(TIMER - 1) /\ OCIE1A \in BOOLEAN
    /\ Channel \in Servos \cup {-1}
    /\ nbr \in [Servos -> ServoPins \cup {0}] /\ isActive \in [Servos -> BOOLEAN]
    /\ ticks \in [Servos -> 0..(TIMER - 1)] /\ want \in 0..(TIMER - 1)
    /\ min \in [Servos -> -128..127] /\ max \in [Servos -> -128..127]
    /\ high \in [ServoPins -> Nat \cup {-1}] /\ cut \subseteq ServoPins
    /\ frame \in Nat /\ calls \in 0..MaxCalls

\* A pulse that no detach() or attach() cut short lasts as long as was asked
\* for when it began, plus the interrupt's delay, whatever the sketch calls
\* meanwhile.
PulseExact ==
    [][\A p \in ServoPins \ cut :
         high[p] >= 0 /\ high'[p] = -1 =>
           high[p] + ((TCNT1' - TCNT1) % TIMER) - want \in Lates]_servoVars

\* "minimum time to refresh servos": the wait after the last servo ends no
\* sooner than the refresh interval after the frame began.
FrameKept == OCIE1A /\ Channel = -1 => \A u \in UntilMatch : frame + u >= Refresh

\* "ensure the next OCR1A not missed": the wait is no longer than the interval.
MatchNotMissed == OCIE1A /\ Channel = -1 => \A u \in UntilMatch : u <= Refresh

\* With limits that an int8_t can hold in units of 4 microseconds, read() gives
\* back the angle written, or the end of the range it was cut to, and the pulse
\* is within 3 microseconds of the limits.
Fit(l) == /\ l[1] \in (MIN_PULSE_WIDTH - 511)..(MIN_PULSE_WIDTH + 515)
          /\ l[2] \in (MAX_PULSE_WIDTH - 511)..(MAX_PULSE_WIDTH + 515)

AngleKept ==
    \A s \in Servos : angle[s] >= 0 /\ Fit(limits[s]) =>
      /\ read(s) = angle[s]
      /\ readMicroseconds(s) \in (limits[s][1] - 3)..(limits[s][2] + 3)
=============================================================================
