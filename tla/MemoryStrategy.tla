--------------------------- MODULE MemoryStrategy ---------------------------
(***************************************************************************)
(* QueueOfVectorsMemoryStrategy (symmetric_memory.cpp): the output buffer  *)
(* of a cipher, a deque of vectors with a byte count kept beside it.       *)
(* Bytes are identified by their position in the order of writing.         *)
(***************************************************************************)
EXTENDS Integers, Sequences, FiniteSetsExt, SequencesExt

CONSTANTS
    MaxBytes,       \* bound: bytes written in one behaviour
    MaxBlocks,      \* bound: vectors held by the queue
    MaxRequest      \* bound: size asked of one read()

MemoryAssumption ==
    MaxBytes \in Nat /\ MaxBlocks \in Nat /\ MaxRequest \in Nat

VARIABLES
    queue,              \* _queue
    totalBytesStored,   \* _totalBytesStored
    written,            \* history: number of bytes ever written
    result              \* what the last call returned

vars == <<queue, totalBytesStored, written, result>>

Init ==
    /\ queue = <<>>
    /\ totalBytesStored = 0
    /\ written = 0
    /\ result = <<>>

Contents == FlattenSeq(queue)

(* write(chunk): an empty chunk is queued as well *)
Write(n) ==
    /\ written + n <= MaxBytes
    /\ Len(queue) < MaxBlocks
    /\ totalBytesStored' = totalBytesStored + n
    /\ queue' = Append(queue, [i \in 1 .. n |-> written + i])
    /\ written' = written + n
    /\ result' = <<>>

(* readAll(): one block is moved out, several are concatenated *)
ReadAllOneBlock ==
    /\ Len(queue) = 1
    /\ result' = Head(queue)
    /\ queue' = <<>>
    /\ totalBytesStored' = 0

ReadAllBlocks ==
    /\ Len(queue) # 1
    /\ result' = Contents
    /\ queue' = <<>>
    /\ totalBytesStored' = totalBytesStored - Len(Contents)

ReadAll ==
    /\ ReadAllOneBlock \/ ReadAllBlocks
    /\ UNCHANGED written

ReadEmptyQueue ==
    /\ queue = <<>>
    /\ result' = <<>>
    /\ UNCHANGED <<queue, totalBytesStored>>

(* _readCompleteBlock() as the answer of read() *)
ReadCompleteBlock(requested) ==
    /\ queue # <<>>
    /\ Len(Head(queue)) = requested
    /\ result' = Head(queue)
    /\ queue' = Tail(queue)
    /\ totalBytesStored' = totalBytesStored - Len(Head(queue))

(* mutation: erase() takes one byte more, which is never delivered *)
ErasedOneMore(block, n) ==
    IF n = 0 THEN block ELSE SubSeq(block, n + 2, Len(block))

(* _readPartialBlock(): its first n bytes leave the front block, which stays *)
Erased(block, n) == SubSeq(block, n + 1, Len(block))

ReadPartialBlock(requested) ==
    /\ queue # <<>>
    /\ Len(Head(queue)) > requested
    /\ result' = SubSeq(Head(queue), 1, requested)
    /\ queue' = [queue EXCEPT ![1] = Erased(@, requested)]
    /\ totalBytesStored' = totalBytesStored - requested

ReadOnlyBlock(requested) ==
    /\ Len(queue) = 1
    /\ Len(Head(queue)) < requested
    /\ ReadAllOneBlock

(* How many blocks the loop of read() pops: the front block goes while it  *)
(* is no larger than what is still missing.                                *)
CompleteBlocks(requested) ==
    Max({k \in 0 .. Len(queue) :
            Len(FlattenSeq(SubSeq(queue, 1, k))) <= requested})

ReadAcrossBlocks(requested) ==
    LET k       == CompleteBlocks(requested)
        whole   == FlattenSeq(SubSeq(queue, 1, k))
        rest    == SubSeq(queue, k + 1, Len(queue))
        missing == requested - Len(whole)
    IN  /\ Len(queue) > 1
        /\ Len(Head(queue)) < requested
        /\ \/ /\ missing > 0 /\ rest # <<>>
              /\ result' = whole \o SubSeq(Head(rest), 1, missing)
              /\ queue' = [rest EXCEPT ![1] = Erased(@, missing)]
              /\ totalBytesStored' = totalBytesStored - Len(whole) - missing
           \/ /\ missing = 0 \/ rest = <<>>
              /\ result' = whole
              /\ queue' = rest
              /\ totalBytesStored' = totalBytesStored - Len(whole)

Read(requested) ==
    /\ \/ ReadEmptyQueue
       \/ ReadCompleteBlock(requested)
       \/ ReadPartialBlock(requested)
       \/ ReadOnlyBlock(requested)
       \/ ReadAcrossBlocks(requested)
    /\ UNCHANGED written

Next ==
    \/ \E n \in 0 .. MaxBytes : Write(n)
    \/ \E n \in 0 .. MaxRequest : Read(n)
    \/ ReadAll

Spec == Init /\ [][Next]_vars
-----------------------------------------------------------------------------
(* The queue holds blocks of byte positions, the count is a size_t. *)
TypeOK ==
    /\ queue \in Seq(Seq(1 .. MaxBytes))
    /\ totalBytesStored \in 0 .. MaxBytes
    /\ written \in 0 .. MaxBytes
    /\ result \in Seq(1 .. MaxBytes)

(* _totalBytesStored is exactly the number of bytes in the queue, after    *)
(* any mix of whole, partial and cross-block reads: the claim behind the   *)
(* assert() that closes readAll() and behind the reserve() of read().      *)
TotalBytesStoredExact == totalBytesStored = Len(Contents)

(* Whatever the block boundaries and the sizes read, the strategy is a     *)
(* first-in first-out byte stream: nothing lost, repeated or reordered.    *)
Stream == INSTANCE ByteStream WITH stream <- Contents
RefinesByteStream == Stream!StreamSpec

(* A read of n bytes is the stream's read of n bytes, whichever branch of  *)
(* read() serves it: it is short only when the buffer runs dry.            *)
ReadsAreStreamReads ==
    [][\A n \in 0 .. MaxRequest : Read(n) => Stream!StreamRead(n)]_vars
=============================================================================
