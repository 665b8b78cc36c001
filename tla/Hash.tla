-------------------------------- MODULE Hash --------------------------------
(***************************************************************************)
(* The incremental Hash object and the one-shot functions of hash.cpp.     *)
(* Messages are sequences of chunks; a digest is known by the algorithm,   *)
(* the input it covers and its length.  OpenSSL may fail any EVP call.     *)
(***************************************************************************)
EXTENDS Naturals, Sequences

CONSTANTS
    Chunks,             \* pieces of a message
    MaxChunks           \* bound: chunks offered to one object

HashAssumption == MaxChunks \in Nat

VARIABLES
    digestType,         \* "none" before the construction
    digestCtx,          \* input absorbed by the EVP_MD_CTX
    finalised,          \* whether EVP_DigestFinal_ex() has been called on it
    finalDigestValue,   \* the cached digest: <<>> while the vector is empty
    offered,            \* chunks whose update() returned normally
    calls,              \* calls of update() made so far
    asked,              \* algorithm and message the caller wants the digest of
    result,             \* what the last call returned: <<>> or <<digest>>
    failedFinal         \* whether EVP_DigestFinal_ex() has ever failed

vars == <<digestType, digestCtx, finalised, finalDigestValue, offered, calls,
          asked, result, failedFinal>>

DigestTypes == {"SHA1", "SHA256", "SHA384", "SHA512",
                "SHA3_256", "SHA3_384", "SHA3_512"}

(* OpenSSL: EVP_MD_size() *)
MDSize == [SHA1 |-> 20, SHA256 |-> 32, SHA384 |-> 48, SHA512 |-> 64,
           SHA3_256 |-> 32, SHA3_384 |-> 48, SHA3_512 |-> 64]

LengthInBytes(t) ==
    CASE t = "SHA1" -> 160 \div 8
      [] t \in {"SHA256", "SHA3_256"} -> 256 \div 8
      [] t \in {"SHA384", "SHA3_384"} -> 384 \div 8
      [] t \in {"SHA512", "SHA3_512"} -> 512 \div 8

(* The value of a vector that was resized and never written to *)
Zeros(t) == [alg |-> "zeros", input |-> <<>>, length |-> LengthInBytes(t)]

Digest(t, input) == [alg |-> t, input |-> input, length |-> LengthInBytes(t)]

Init ==
    /\ digestType = "none" /\ digestCtx = <<>> /\ finalised = FALSE
    /\ finalDigestValue = <<>> /\ offered = <<>> /\ calls = 0
    /\ asked = <<>> /\ result = <<>> /\ failedFinal = FALSE

(* The factories Hash::sha1() ... Hash::sha3_512() and fromDigestType():    *)
(* DigestTypes::NONE and a failing EVP_DigestInit_ex() throw.              *)
Construct(t) ==
    /\ digestType = "none"
    /\ \/ t \in DigestTypes /\ digestType' = t
       \/ UNCHANGED digestType
    /\ UNCHANGED <<digestCtx, finalised, finalDigestValue, offered, calls,
                   asked, result, failedFinal>>

(* mutation: update() does not look at the cached digest *)
UpdateUnguarded(c) ==
    /\ digestType # "none" /\ calls < MaxChunks
    /\ calls' = calls + 1 /\ result' = <<>>
    /\ \/ digestCtx' = Append(digestCtx, c) /\ offered' = Append(offered, c)
       \/ UNCHANGED <<digestCtx, offered>>
    /\ UNCHANGED <<digestType, finalised, finalDigestValue, asked, failedFinal>>

(* update(): throws once a digest is cached, or when OpenSSL fails.  The   *)
(* three overloads end in the same call.                                   *)
Update(c) ==
    /\ digestType # "none" /\ calls < MaxChunks
    /\ calls' = calls + 1 /\ result' = <<>>
    /\ \/ /\ finalDigestValue = <<>>
          /\ digestCtx' = Append(digestCtx, c) /\ offered' = Append(offered, c)
       \/ UNCHANGED <<digestCtx, offered>>
    /\ UNCHANGED <<digestType, finalised, finalDigestValue, asked, failedFinal>>

(* digest(): the vector gets its size before EVP_DigestFinal_ex() fills it *)
DigestValue ==
    \/ /\ finalDigestValue # <<>>
       /\ result' = finalDigestValue
       /\ UNCHANGED <<finalDigestValue, failedFinal, finalised>>
    \/ /\ finalDigestValue = <<>>
       /\ finalDigestValue' = <<Digest(digestType, digestCtx)>>
       /\ result' = finalDigestValue' /\ finalised' = TRUE
       /\ UNCHANGED failedFinal
    \/ /\ finalDigestValue = <<>>
       /\ finalDigestValue' = <<Zeros(digestType)>>
       /\ result' = <<>> /\ failedFinal' = TRUE /\ finalised' = TRUE

CallDigest ==
    /\ digestType # "none"
    /\ DigestValue
    /\ asked' = <<digestType, offered>>
    /\ UNCHANGED <<digestType, digestCtx, offered, calls>>

(* sha1(message) ... sha3_512(message): a temporary object, one update(),  *)
(* digest(); an exception of any of them is passed on.                     *)
OneShot(t, message) ==
    /\ asked' = <<t, message>>
    /\ result' \in {<<>>, <<Digest(t, message)>>}
    /\ UNCHANGED <<digestType, digestCtx, finalised, finalDigestValue, offered,
                   calls, failedFinal>>

Messages == {<<c>> : c \in Chunks} \union {<<c, d>> : c, d \in Chunks}

Next ==
    \/ \E t \in DigestTypes \union {"NONE"} : Construct(t)
    \/ \E c \in Chunks : Update(c)
    \/ CallDigest
    \/ \E t \in DigestTypes, m \in Messages : OneShot(t, m)

Spec == Init /\ [][Next]_vars
-----------------------------------------------------------------------------
Streams == UNION {[1 .. n -> Chunks] : n \in 0 .. MaxChunks}

(* The members hold what their C++ types and uses allow; in particular the *)
(* digest vector has the size that EVP_DigestFinal_ex() writes.            *)
TypeOK ==
    /\ digestType \in DigestTypes \union {"none"}
    /\ digestCtx \in Streams /\ offered \in Streams
    /\ finalised \in BOOLEAN /\ failedFinal \in BOOLEAN
    /\ calls \in 0 .. MaxChunks
    /\ \A i \in DOMAIN finalDigestValue :
            finalDigestValue[i].length = MDSize[digestType]

(* A digest that is returned is that of the algorithm the caller named,    *)
(* over exactly the chunks whose update() returned normally, provided no   *)
(* EVP_DigestFinal_ex() has failed: no chunk is lost behind the cache, and *)
(* none that was refused is covered.                                       *)
DigestCoversInput ==
    result # <<>> /\ ~failedFinal =>
        result = <<[alg |-> asked[1], input |-> asked[2], length |-> MDSize[asked[1]]]>>

(* What every call of digest() returns on an object is the same value,     *)
(* whatever calls of update() are tried in between.                        *)
DigestIsStable ==
    [][finalDigestValue # <<>> => finalDigestValue' = finalDigestValue]_vars
=============================================================================
