-------------------------------- MODULE Bio --------------------------------
(***************************************************************************)
(* BioObject and FileBio (bio.cpp) over the BIO wrappers of                *)
(* openssl_wrap.cpp.  A byte is known by its position in the order of      *)
(* writing; Newlines are the positions that hold a line feed.  The loops   *)
(* of the flush calls are modelled step by step, one BIO call a step.      *)
(***************************************************************************)
EXTENDS Integers, Sequences

CONSTANTS
    MaxBytes,       \* bound: bytes written in one behaviour
    Newlines,
    BuffSize        \* size of the buffer of a flush (2048 in the code)

BioAssumption ==
    /\ MaxBytes \in Nat /\ Newlines \subseteq 1 .. MaxBytes
    /\ BuffSize \in Nat /\ BuffSize > 1

VARIABLES
    type,           \* "MEM", or a FileBio opened to "READ" or to "WRITE"
    content,        \* bytes in the BIO
    written,        \* number of bytes ever put into it
    phase,          \* "idle", or the loop a caller is in: "gets", "read"
    output,         \* what the loop has collected
    result,         \* what the last flush returned
    exception,      \* whether the last call threw
    shortfall       \* bytes of the last write that did not arrive

vars == <<type, content, written, phase, output, result, exception, shortfall>>

Positions(n) == [i \in 1 .. n |-> written + i]
-----------------------------------------------------------------------------
(* OpenSSL: bytes that one BIO_gets() or BIO_read() takes.  A read may     *)
(* fail on a file, and always does if the file was opened for writing.     *)
NextLine ==
    LET ends == {i \in 1 .. Len(content) : content[i] \in Newlines
                                            \/ i = BuffSize - 1 \/ i = Len(content)}
    IN  IF content = <<>> THEN 0 ELSE CHOOSE i \in ends : \A j \in ends : i <= j

BioGets ==
    (IF type = "WRITE" THEN {} ELSE {NextLine})
        \union (IF type = "MEM" THEN {} ELSE {0, -1})

(* An empty memory BIO answers -1, a file at its end 0. *)
BioRead ==
    (IF type = "WRITE" THEN {}
     ELSE IF content = <<>> THEN {IF type = "MEM" THEN -1 ELSE 0}
     ELSE {IF Len(content) < BuffSize THEN Len(content) ELSE BuffSize})
        \union (IF type = "MEM" THEN {} ELSE {-1})

(* Bytes that arrive of n: a file may take none *)
BioWrite(n) == CASE type = "MEM"   -> {n}
                 [] type = "WRITE" -> {0, n}
                 [] type = "READ"  -> {0}
-----------------------------------------------------------------------------
(* A new BioObject(MEM), or a FileBio of a file that can be opened *)
Init ==
    /\ type \in {"MEM", "READ", "WRITE"}
    /\ content = IF type = "READ" THEN [i \in 1 .. MaxBytes |-> i] ELSE <<>>
    /\ written = Len(content)
    /\ phase = "idle" /\ output = <<>> /\ result = <<>>
    /\ exception = FALSE /\ shortfall = 0

(* write(std::string) of n characters: BIO_puts() stops at the first NUL   *)
(* (nul characters precede it), and its count is not looked at.            *)
WriteString(n, nul) ==
    /\ phase = "idle" /\ written + n <= MaxBytes
    /\ LET given == IF nul < n THEN nul ELSE n
       IN  \E arrived \in BioWrite(given) :
             /\ content' = content \o Positions(arrived)
             /\ written' = written + arrived
             /\ shortfall' = n - arrived
    /\ exception' = FALSE /\ result' = <<>>
    /\ UNCHANGED <<type, phase, output>>

(* mutation: the count of BIO_write() is not looked at *)
WriteVectorUnchecked(n) ==
    /\ phase = "idle" /\ written + n <= MaxBytes
    /\ \E arrived \in BioWrite(n) :
            /\ content' = content \o Positions(arrived)
            /\ written' = written + arrived
            /\ shortfall' = n - arrived
    /\ exception' = FALSE /\ result' = <<>>
    /\ UNCHANGED <<type, phase, output>>

(* write(std::vector): a count below the size throws.  So does a memory    *)
(* BIO's -1 for a null pointer, which an empty vector may hand to it.      *)
WriteVector(n) ==
    /\ phase = "idle" /\ written + n <= MaxBytes
    /\ \E arrived \in BioWrite(n) :
            /\ content' = content \o Positions(arrived)
            /\ written' = written + arrived
            /\ shortfall' = n - arrived
            /\ exception' \in IF n = 0 /\ type = "MEM" THEN BOOLEAN ELSE {arrived < n}
    /\ result' = <<>>
    /\ UNCHANGED <<type, phase, output>>

CallFlush(loop) ==
    /\ phase = "idle"
    /\ phase' = loop /\ output' = <<>> /\ result' = <<>>
    /\ exception' = FALSE /\ shortfall' = 0
    /\ UNCHANGED <<type, content, written>>

FlushToString == CallFlush("gets")
FlushToVector == CallFlush("read")

Take(count) ==
    /\ output' = output \o SubSeq(content, 1, count)
    /\ content' = SubSeq(content, count + 1, Len(content))

(* One turn of flushToString(): a negative count throws at last, and what  *)
(* was read is lost; 0 ends the loop.                                      *)
FlushToStringStep ==
    /\ phase = "gets"
    /\ \E count \in BioGets :
        \/ /\ count < 0
           /\ exception' = TRUE /\ phase' = "idle" /\ output' = <<>>
           /\ UNCHANGED <<content, result>>
        \/ /\ count = 0
           /\ result' = output /\ phase' = "idle" /\ output' = <<>>
           /\ UNCHANGED <<content, exception>>
        \/ /\ count > 0
           /\ Take(count)
           /\ UNCHANGED <<phase, result, exception>>
    /\ UNCHANGED <<type, written, shortfall>>

(* One turn of flushToVector(): any count that is not positive is the end, *)
(* _BIO_read() leaves the temporary buffer with just the bytes it read.    *)
FlushToVectorStep ==
    /\ phase = "read"
    /\ \E count \in BioRead :
        \/ /\ count <= 0
           /\ result' = output /\ phase' = "idle" /\ output' = <<>>
           /\ UNCHANGED content
        \/ /\ count > 0
           /\ Take(count)
           /\ UNCHANGED <<phase, result>>
    /\ UNCHANGED <<type, written, exception, shortfall>>

Next ==
    \/ \E n, nul \in 0 .. MaxBytes : WriteString(n, nul)
    \/ \E n \in 0 .. MaxBytes : WriteVector(n)
    \/ FlushToString \/ FlushToVector
    \/ FlushToStringStep \/ FlushToVectorStep

(* A flush that was called runs on: its loop waits for nothing. *)
Spec == /\ Init /\ [][Next]_vars
        /\ WF_vars(FlushToStringStep) /\ WF_vars(FlushToVectorStep)
-----------------------------------------------------------------------------
(* Bytes are positions that were written; a loop is only left idle. *)
TypeOK ==
    /\ type \in {"MEM", "READ", "WRITE"}
    /\ content \in Seq(1 .. MaxBytes) /\ written \in 0 .. MaxBytes
    /\ phase \in {"idle", "gets", "read"}
    /\ output \in Seq(1 .. MaxBytes) /\ result \in Seq(1 .. MaxBytes)
    /\ exception \in BOOLEAN /\ shortfall \in 0 .. MaxBytes
    /\ phase = "idle" => output = <<>>

(* A flush that was called returns or throws: every turn of its loop takes *)
(* a byte or ends it.                                                      *)
FlushTerminates == phase \in {"gets", "read"} ~> phase = "idle"

(* A write(std::vector) that returned has put all of its bytes into the    *)
(* BIO (a write(std::string) may return although they did not arrive).     *)
VectorWritesArrive ==
    [][\A n \in 1 .. MaxBytes :
            WriteVector(n) /\ ~exception' => written' = written + n]_vars

(* A flush of a memory BIO, of either kind, leaves no byte behind. *)
FlushTakesAll ==
    [][type = "MEM" /\ phase # "idle" /\ phase' = "idle" => content' = <<>>]_vars

(* A memory BIO is a queue of bytes: what goes in comes out once and in    *)
(* order.                                                                  *)
Queue == INSTANCE ByteStream WITH
    stream <- IF type = "MEM" THEN output \o content ELSE <<>>,
    written <- IF type = "MEM" THEN written ELSE 0,
    result <- IF type = "MEM" THEN result ELSE <<>>

RefinesByteStream == Queue!StreamSpec
=============================================================================
