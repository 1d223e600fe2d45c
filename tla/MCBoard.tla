------------------------------ MODULE MCBoard ------------------------------
(***************************************************************************)
(* The parts of the board with an interrupt of their own: the time base on *)
(* timer 0, Tone on timer 2, Servo on timer 1 and, on the second chip, the *)
(* USB bridge.  They share nothing, so a board that runs all of them does  *)
(* what each does alone: the initial state picks the part that runs, and   *)
(* the others stay in theirs.                                              *)
(***************************************************************************)
EXTENDS TimeBase, Tone, Servo, UsbSerial

VARIABLE uses

boardVars == <<timeVars, toneVars, servoVars, bridgeVars, uses>>

BoardInit == /\ TimeInit /\ ToneInit /\ ServoInit /\ BridgeInit
             /\ uses \in {"time", "tone", "servo", "bridge"}
             /\ uses # "tone" => timer2_pin = CHOOSE p \in Pins : TRUE

OnTime(A)   == uses = "time" /\ A /\ UNCHANGED <<toneVars, servoVars, bridgeVars, uses>>
OnTone(A)   == uses = "tone" /\ A /\ UNCHANGED <<timeVars, servoVars, bridgeVars, uses>>
OnServo(A)  == uses = "servo" /\ A /\ UNCHANGED <<timeVars, toneVars, bridgeVars, uses>>
OnBridge(A) == uses = "bridge" /\ A /\ UNCHANGED <<timeVars, toneVars, servoVars, uses>>

TimeStep == \/ OnTime(Tick) \/ OnTime(Overflow)
            \/ OnTime(MillisCall) \/ OnTime(MillisReturn)
            \/ OnTime(MicrosCall) \/ OnTime(MicrosReadTimer) \/ OnTime(MicrosReturn)
            \/ OnTime(DelayCall) \/ OnTime(DelayPoll)

ToneStep == \/ OnTone(Compare)
            \/ OnTone(ToneCall) \/ OnTone(ToneBegin) \/ OnTone(ToneSetTimer)
            \/ OnTone(ToneSetPrescale) \/ OnTone(ToneSetCompare)
            \/ OnTone(ToneCountLow) \/ OnTone(ToneCountHigh) \/ OnTone(ToneEnable)
            \/ OnTone(NoToneCall) \/ OnTone(NoToneDisable) \/ OnTone(NoToneWrite)

ServoStep == \/ OnServo(Interrupt)
             \/ OnServo(ServoAttach) \/ OnServo(ServoDetach) \/ OnServo(ServoWrite)

BridgeStep == \/ \E c \in Byte : OnBridge(Receive(c))
              \/ OnBridge(Expire) \/ OnBridge(Usb)
              \/ OnBridge(MainReceive) \/ OnBridge(MainCount) \/ OnBridge(MainTest)
              \/ OnBridge(MainTake) \/ OnBridge(MainDrop) \/ OnBridge(MainLoad)

BoardNext == TimeStep \/ ToneStep \/ ServoStep \/ BridgeStep

\* The fairness of each part, for the one that runs.
BoardFairness == /\ WF_boardVars(OnTime(Tick))
                 /\ SF_boardVars(OnTime(Overflow))
                 /\ WF_boardVars(OnTime(Sketch))
                 /\ WF_boardVars(OnTone(Compare))
                 /\ WF_boardVars(OnTone(ToneSketch))
                 /\ WF_boardVars(OnBridge(Main))
                 /\ WF_boardVars(OnBridge(Expire))

BoardSpec == BoardInit /\ [][BoardNext]_boardVars /\ BoardFairness

\* The variables of every part have the types of their C declarations.
BoardTypeOK == TimeTypeOK /\ ToneTypeOK /\ ServoTypeOK /\ BridgeTypeOK

\* Prescalers change at 31250, 3906, 976, 488, 244 and 122 Hz; 31 is the lowest
\* pitch, 30418 the one that is rounded most, and (31, 1) is too short for one toggle;
\* (5000, 2) overflows the unsigned long of COUNT_MOD's scale.
SomeTones == ({31, 122, 440, 977, 30418, 31249, 31250, 65535} \X {0})
               \cup {<<31, 1>>, <<2000, 1>>, <<3000, 1>>, <<2000, 2>>, <<5000, 2>>}

SomeLimits == {<<544, 2400>>, <<1000, 2000>>}
=============================================================================
