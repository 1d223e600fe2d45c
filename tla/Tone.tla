------------------------------- MODULE Tone --------------------------------
(***************************************************************************)
(* cores/arduino/Tone.cpp on timer 2, the only timer it uses: tone() and   *)
(* noTone() in the sketch, and the compare interrupt that toggles the pin, *)
(* counts the toggles and calls noTone() itself when none are left.  The   *)
(* sketch changes tone_pins, the timer's registers and the long count with *)
(* interrupts on, so its calls are split at those stores.                  *)
(***************************************************************************)
EXTENDS Integers

CONSTANTS Pins,        \* output pins sketches use, below NOBODY
          Tones,       \* <<frequency, duration>> sketches ask for
          F_CPU,       \* the clock, in Hz
          COUNT_MOD,   \* values of a long, negative from half of it: 2^32
          COUNT_LOW,   \* of which this many are stored first
          PRODUCT_MOD, \* values of an unsigned long: 2^32
          Retrigger    \* sketches restart a timed tone before it has ended

NOBODY == 255          \* tone_pins[0] when no tone plays
UINT == 65536          \* values of an unsigned int
Forever == COUNT_MOD - 1    \* toggle_count = -1

ASSUME PinAssumption == Pins \subseteq 0..(NOBODY - 1) /\ Retrigger \in BOOLEAN
ASSUME ToneAssumption == \A tn \in Tones : tn \in Nat \X Nat /\ 0 < tn[1] /\ tn[1] < UINT
ASSUME ClockAssumption == F_CPU \in Nat
ASSUME CountAssumption == /\ COUNT_MOD \in Nat /\ COUNT_MOD % COUNT_LOW = 0
                          /\ COUNT_LOW \in 1..(COUNT_MOD \div 2)   \* the sign is stored last
                          /\ PRODUCT_MOD \in Nat \ {0} /\ PRODUCT_MOD <= 500 * COUNT_MOD

VARIABLES tone_pin,             \* tone_pins[0]
          timer2_pin,           \* timer2_pin_port and timer2_pin_mask
          toggle_count,         \* timer2_toggle_count
          ocie,                 \* OCIE2A: the compare interrupt is on
          ctc,                  \* the timer counts to OCR2A, as tone() needs
          prescale, OCR2A,
          level,                \* what each pin drives
          tonePc, arg,          \* where the sketch is in a call, and its pin
          freq, dur,            \* tone()'s other arguments
          playing               \* the arguments of the tone() that took effect last

timer2   == <<ocie, ctc, prescale, OCR2A>>
toneCall == <<arg, freq, dur>>
toneVars == <<tone_pin, timer2_pin, toggle_count, timer2, level, tonePc, toneCall, playing>>
-----------------------------------------------------------------------------
\* The value tone() computes for OCR2A with a prescaler.
Ocr(f, p) == (((F_CPU \div f) \div 2) \div p) - 1

Prescalers == {1, 8, 32, 64, 128, 256, 1024}

Ocrs == 0..255   \* what OCR2A holds

\* The first prescaler with which the value fits eight bits, or the last.
Prescaler(f) ==
    LET fits == {p \in Prescalers : Ocr(f, p) <= 255}
    IN  IF fits = {} THEN 1024 ELSE CHOOSE p \in fits : \A q \in fits : p <= q

\* 2 * frequency is an unsigned int, and its product with duration an unsigned long.
ToggleCount(f, d) ==
    IF d > 0 THEN ((((2 * f) % UINT) * d) % PRODUCT_MOD) \div 1000 ELSE Forever

PositiveMutant(n) == n \in 2..((COUNT_MOD \div 2) - 1)   \* mutant: the last toggle is not counted

Positive(n) == n \in 1..((COUNT_MOD \div 2) - 1)

ToneInit == /\ tone_pin = NOBODY /\ timer2_pin \in Pins
            /\ toggle_count = 0
            /\ ocie = FALSE /\ ctc = FALSE /\ prescale = 64 /\ OCR2A = 0
            /\ level = [p \in Pins |-> 0]
            /\ tonePc = "idle" /\ arg = NOBODY /\ freq = 0 /\ dur = 0
            /\ playing = <<0, 0>>
-----------------------------------------------------------------------------
\* Mutant: the interrupt stays on.
DisableTimerMutant == ocie' = ocie /\ ctc' = FALSE /\ prescale' = 64 /\ OCR2A' = 0

\* disableTimer(2): the interrupt off, and the timer back to PWM.
DisableTimer == ocie' = FALSE /\ ctc' = FALSE /\ prescale' = 64 /\ OCR2A' = 0

Low(p) == level' = [q \in Pins |-> IF q = p THEN 0 ELSE level[q]]

CompareMutant ==   \* mutant: the end of a tone leaves tone_pins[0] alone
    /\ ocie
    /\ tonePc = "enable" => toggle_count = ToggleCount(freq, dur)
    /\ IF toggle_count # 0
       THEN /\ level' = [level EXCEPT ![timer2_pin] = 1 - @]
            /\ toggle_count' = IF Positive(toggle_count) THEN toggle_count - 1 ELSE toggle_count
            /\ UNCHANGED <<tone_pin, timer2>>
       ELSE /\ DisableTimer
            /\ Low(timer2_pin)
            /\ UNCHANGED <<tone_pin, toggle_count>>
    /\ UNCHANGED <<timer2_pin, tonePc, toneCall, playing>>

\* ISR(TIMER2_COMPA_vect), with the noTone(tone_pins[0]) that ends a tone.
\* A digitalWrite() to NOBODY reaches none of the pins.  The compares are too
\* far apart for two of them between the last two stores of tone().
Compare ==
    /\ ocie
    /\ tonePc = "enable" => toggle_count = ToggleCount(freq, dur)
    /\ IF toggle_count # 0
       THEN /\ level' = [level EXCEPT ![timer2_pin] = 1 - @]
            /\ toggle_count' = IF Positive(toggle_count) THEN toggle_count - 1 ELSE toggle_count
            /\ UNCHANGED <<tone_pin, timer2>>
       ELSE /\ tone_pin' = NOBODY
            /\ DisableTimer
            /\ Low(tone_pin)
            /\ UNCHANGED toggle_count
    /\ UNCHANGED <<timer2_pin, tonePc, toneCall, playing>>
-----------------------------------------------------------------------------
Goto(pc) == tonePc' = pc

ToneCall == /\ tonePc = "idle"
            /\ \E p \in Pins, tn \in Tones :
                 /\ \/ Retrigger
                    \/ tone_pin # p
                    \/ toggle_count = Forever /\ ToggleCount(tn[1], tn[2]) > 0
                 /\ arg' = p /\ freq' = tn[1] /\ dur' = tn[2]
            /\ Goto("begin")
            /\ UNCHANGED <<tone_pin, timer2_pin, toggle_count, timer2, level, playing>>

\* Back to the sketch.
ToneReturn == Goto("idle") /\ arg' = NOBODY /\ freq' = 0 /\ dur' = 0

\* Mutant: a tone() that finds another pin on the timer goes on as for its own.
ToneBeginMutant ==
    /\ tonePc = "begin"
    /\ IF tone_pin = NOBODY THEN tone_pin' = arg /\ Goto("setTimer") ELSE Goto("countLow") /\ UNCHANGED tone_pin
    /\ UNCHANGED <<timer2_pin, toggle_count, timer2, toneCall, level, playing>>

\* toneBegin(): the pin has the timer, or takes it, or another pin has it.
ToneBegin ==
    /\ tonePc = "begin"
    /\ \/ /\ tone_pin = arg
          /\ Goto("setPrescale")
          /\ UNCHANGED <<tone_pin, toneCall>>
       \/ /\ tone_pin = NOBODY
          /\ tone_pin' = arg
          /\ Goto("setTimer")
          /\ UNCHANGED toneCall
       \/ /\ tone_pin \notin {arg, NOBODY}
          /\ ToneReturn
          /\ UNCHANGED tone_pin
    /\ UNCHANGED <<timer2_pin, toggle_count, timer2, level, playing>>

ToneSetTimer == /\ tonePc = "setTimer"
                /\ ctc' = TRUE /\ prescale' = 1
                /\ timer2_pin' = arg
                /\ Goto("setPrescale")
                /\ UNCHANGED <<tone_pin, toggle_count, ocie, OCR2A, level, toneCall, playing>>

ToneSetPrescale == /\ tonePc = "setPrescale"
                   /\ prescale' = Prescaler(freq)
                   /\ Goto("setCompare")
                   /\ UNCHANGED <<tone_pin, timer2_pin, toggle_count, ocie, ctc, OCR2A, level,
                                  toneCall, playing>>

ToneSetCompare == /\ tonePc = "setCompare"
                  /\ OCR2A' = Ocr(freq, Prescaler(freq)) % 256
                  /\ Goto("countLow")
                  /\ UNCHANGED <<tone_pin, timer2_pin, toggle_count, ocie, ctc, prescale, level,
                                 toneCall, playing>>

\* The two parts of the long, with the interrupt running in between.
ToneCountLow == /\ tonePc = "countLow"
                /\ toggle_count' = (toggle_count \div COUNT_LOW) * COUNT_LOW
                                     + (ToggleCount(freq, dur) % COUNT_LOW)
                /\ Goto("countHigh")
                /\ UNCHANGED <<tone_pin, timer2_pin, timer2, level, toneCall, playing>>

ToneCountHigh == /\ tonePc = "countHigh"
                 /\ toggle_count' = (ToggleCount(freq, dur) \div COUNT_LOW) * COUNT_LOW
                                      + (toggle_count % COUNT_LOW)
                 /\ Goto("enable")
                 /\ UNCHANGED <<tone_pin, timer2_pin, timer2, level, toneCall, playing>>

ToneEnable == /\ tonePc = "enable"
              /\ ocie' = TRUE
              /\ playing' = <<freq, dur>>
              /\ ToneReturn
              /\ UNCHANGED <<tone_pin, timer2_pin, toggle_count, ctc, prescale, OCR2A, level>>
-----------------------------------------------------------------------------
\* noTone(p): the pin gives the timer up, the timer stops, the pin goes low.
NoToneCall == /\ tonePc = "idle"
              /\ \E p \in Pins :
                   /\ arg' = p
                   /\ IF tone_pin = p
                      THEN tone_pin' = NOBODY /\ Goto("disable")
                      ELSE tone_pin' = tone_pin /\ Goto("write")
              /\ UNCHANGED <<timer2_pin, toggle_count, timer2, level, freq, dur, playing>>

NoToneDisable == /\ tonePc = "disable"
                 /\ DisableTimer
                 /\ Goto("write")
                 /\ UNCHANGED <<tone_pin, timer2_pin, toggle_count, level, toneCall, playing>>

NoToneWrite == /\ tonePc = "write"
               /\ Low(arg)
               /\ ToneReturn
               /\ UNCHANGED <<tone_pin, timer2_pin, toggle_count, timer2, playing>>

ToneSketch == \/ ToneBegin \/ ToneSetTimer \/ ToneSetPrescale \/ ToneSetCompare
              \/ ToneCountLow \/ ToneCountHigh \/ ToneEnable
              \/ NoToneDisable \/ NoToneWrite

ToneNext == Compare \/ ToneCall \/ NoToneCall \/ ToneSketch

\* The timer reaches OCR2A again and again, and a call of the sketch goes on.
ToneFairness == WF_toneVars(Compare) /\ WF_toneVars(ToneSketch)

ToneSpec == ToneInit /\ [][ToneNext]_toneVars /\ ToneFairness
-----------------------------------------------------------------------------
ToneTypeOK ==
    /\ tone_pin \in Pins \cup {NOBODY} /\ timer2_pin \in Pins
    /\ toggle_count \in 0..(COUNT_MOD - 1)
    /\ ocie \in BOOLEAN /\ ctc \in BOOLEAN
    /\ prescale \in Prescalers /\ OCR2A \in Ocrs
    /\ level \in [Pins -> {0, 1}]
    /\ tonePc \in {"idle", "begin", "setTimer", "setPrescale", "setCompare", "countLow",
                   "countHigh", "enable", "disable", "write"}
    /\ arg \in Pins \cup {NOBODY} /\ freq \in Nat /\ freq < UINT /\ dur \in Nat
    /\ playing \in Nat \X Nat

\* Between calls, the timer is in use exactly when a pin holds it, and what it
\* plays is what tone() last asked for: on that pin, at a pitch too high by at
\* most one part in 37, half a semitone, for no more toggles than its duration.
\* A pin that plays nothing is low.
Half(f) == F_CPU \div (2 * f)

ToneAsAsked ==
    tonePc = "idle" =>
      /\ ocie <=> tone_pin # NOBODY
      /\ ocie => LET f == playing[1] d == playing[2] real == (OCR2A + 1) * prescale IN
                   /\ timer2_pin = tone_pin /\ ctc
                   /\ real <= Half(f) /\ (Half(f) - real) * 37 <= Half(f)
                   /\ IF d = 0 THEN toggle_count = Forever
                      ELSE toggle_count * 1000 <= 2 * f * d
      /\ \A p \in Pins : p # tone_pin => level[p] = 0

\* When noTone(p) returns, nothing toggles p any more.
NoToneStops ==
    [][tonePc = "write" /\ tonePc' = "idle" => ~(ocie' /\ timer2_pin' = arg)]_toneVars

\* During a call for another pin, a tone keeps its pin, pitch and count, except that each
\* toggle of its own takes one of the count, and that it ends when none are left.
TonesDoNotMix ==
    [][ocie /\ tone_pin # NOBODY /\ (\E a \in {arg, arg'} : a \notin {NOBODY, tone_pin}) =>
         \/ /\ UNCHANGED <<tone_pin, timer2_pin, timer2>>
            /\ \/ UNCHANGED toggle_count
               \/ toggle_count' = toggle_count - 1 /\ level'[timer2_pin] # level[timer2_pin]
         \/ toggle_count = 0 /\ toggle_count' = 0 /\ tone_pin' = NOBODY /\ ~ocie']_toneVars

\* A tone with a duration ends, whatever the sketch calls for other pins.
ToneEnds == ocie /\ playing[2] > 0 ~> ~ocie \/ playing[2] = 0
=============================================================================
