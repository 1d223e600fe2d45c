-------------------------------- MODULE Pipe --------------------------------
(***************************************************************************)
(* What each direction of the USB to serial bridge promises: bytes leave   *)
(* it in the order they went in, each once, and all of them sooner or      *)
(* later, until more go in than it has room for.  From then on nothing is  *)
(* promised.  A byte that leaves while nobody takes it is lost.  UsbSerial *)
(* implements one pipe per direction.                                      *)
(***************************************************************************)
EXTENDS Integers, Sequences

CONSTANTS Byte,      \* values of a byte
          Room       \* bytes a pipe can hold

VARIABLES q,         \* bytes on their way, oldest first
          out,       \* the byte that came out last, -1 before the first
          overrun,   \* more went in than there was room for
          taken      \* whether there is someone who takes what comes out

pipe == <<q, out, overrun, taken>>

PipeInit == q = <<>> /\ out = -1 /\ overrun = FALSE /\ taken \in BOOLEAN

Put(c) == Len(q) < Room /\ q' = Append(q, c) /\ UNCHANGED <<out, overrun, taken>>

Get == /\ ~overrun /\ q # <<>> /\ q' = Tail(q)
       /\ out' = IF taken THEN Head(q) ELSE out
       /\ UNCHANGED <<overrun, taken>>

Turn == taken' = ~taken /\ UNCHANGED <<q, out, overrun>>

Overrun == overrun' /\ (~overrun => Len(q) = Room)

PipeNext == (\E c \in Byte : Put(c)) \/ Get \/ Turn \/ Overrun

PipeSpec == PipeInit /\ [][PipeNext]_pipe /\ WF_pipe(Get)
=============================================================================
