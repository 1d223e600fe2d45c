------------------------------- MODULE MCWire -------------------------------
EXTENDS Wire

\* One master, one slave, and an address nobody answers.
OneMaster == <<{2, 3}, {}>>
LongAndPair == <<3, 2>>

\* Two masters of one slave.
TwoMasters == <<{3}, {3}, {}>>

\* Each node is the other's master and slave.
EachOther == <<{2}, {1}>>

\* Node 2 calls another device, whose address loses to its own when node 1 sends it.
LowTarget == <<{2}, {3}>>

OneByte == [n \in Node |-> 1]
=============================================================================
