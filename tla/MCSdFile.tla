------------------------------ MODULE MCSdFile ------------------------------
EXTENDS SdFile

CONSTANTS a, b
Names == {a, b}
Symmetry == Permutations(Names)

NoFlags == [write |-> FALSE, creat |-> FALSE, sync |-> FALSE, append |-> FALSE, trunc |-> FALSE]
FILE_READ  == NoFlags
FILE_WRITE == [NoFlags EXCEPT !.write = TRUE, !.creat = TRUE, !.sync = TRUE]
O_RDWR     == [NoFlags EXCEPT !.write = TRUE, !.creat = TRUE]
O_APPEND   == [O_RDWR EXCEPT !.append = TRUE]

CleanModes == {FILE_READ, [O_APPEND EXCEPT !.trunc = TRUE]}
CrashModes == {FILE_WRITE, O_APPEND}
PlainMode  == {O_RDWR}
SDMode     == {FILE_WRITE}
=============================================================================
