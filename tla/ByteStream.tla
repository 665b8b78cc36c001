----------------------------- MODULE ByteStream -----------------------------
(***************************************************************************)
(* What CipherMemoryStrategyI promises: the bytes written come out once,   *)
(* in the order they went in, and a read returns as many of the requested  *)
(* bytes as there are.  A byte is identified by its position in the order  *)
(* of writing (1 is the first byte ever written): the buffer never looks   *)
(* at the value of a byte.                                                 *)
(***************************************************************************)
EXTENDS Integers, Sequences

CONSTANT MaxBytes       \* bound: bytes written in one behaviour

VARIABLES
    stream,             \* bytes written and not read yet
    written,            \* number of bytes ever written
    result              \* what the last call returned

streamVars == <<stream, written, result>>

StreamInit ==
    /\ stream = <<>>
    /\ written = 0
    /\ result = <<>>

StreamWrite(n) ==
    /\ written + n <= MaxBytes
    /\ stream' = stream \o [i \in 1 .. n |-> written + i]
    /\ written' = written + n
    /\ result' = <<>>

StreamRead(n) ==
    LET got == IF n < Len(stream) THEN n ELSE Len(stream)
    IN  /\ result' = SubSeq(stream, 1, got)
        /\ stream' = SubSeq(stream, got + 1, Len(stream))
        /\ UNCHANGED written

StreamReadAll == StreamRead(Len(stream))

StreamNext ==
    \/ \E n \in 0 .. MaxBytes : StreamWrite(n) \/ StreamRead(n)
    \/ StreamReadAll

StreamSpec == StreamInit /\ [][StreamNext]_streamVars
=============================================================================
