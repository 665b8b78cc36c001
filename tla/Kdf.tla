-------------------------------- MODULE Kdf --------------------------------
(***************************************************************************)
(* PBKDF2 and X963KDF (kdf.cpp): value objects with a pimpl, copied and    *)
(* moved by their callers.  A derived key is known by everything it is     *)
(* computed from.  Integers have Width bits (32 in the code).              *)
(***************************************************************************)
EXTENDS Integers, FiniteSets

CONSTANTS
    Objects, Hashes,
    Inputs,             \* password, length and salt of one call
    Width,              \* of uint32_t and int
    Iterations,         \* the iteration counts callers choose
    MaxKeys             \* bound: different results of deriveKey()

KdfAssumption ==
    /\ Width \in Nat \ {0}
    /\ Iterations \subseteq 0 .. 2 ^ Width - 1
    /\ MaxKeys \in Nat

IntMax == 2 ^ (Width - 1) - 1

VARIABLES
    impl,       \* _impl of every object: Null or the members of its Impl
    given,      \* parameters of the constructor the object's value comes from
    keys        \* what calls of deriveKey() have returned

vars == <<impl, given, keys>>

Parameters ==
    [kind : {"PBKDF2"}, hash : Hashes \union {"NONE"}, iterations : Iterations]
        \union [kind : {"X963"}, hash : Hashes \union {"NONE"}, iterations : {0}]

(* An empty unique_ptr, and the value of an object that was moved from *)
Null == [kind |-> "null", hash |-> "NONE", iterations |-> 0]

(* The conversion from uint32_t to the int of PKCS5_PBKDF2_HMAC() *)
ToInt(n) == IF n <= IntMax THEN n ELSE n - 2 ^ Width

(* OpenSSL: the loop always runs once and then up to iter *)
Rounds(iter) == IF iter < 1 THEN 1 ELSE iter

Init ==
    /\ impl = [o \in Objects |-> Null]
    /\ given = [o \in Objects |-> Null]
    /\ keys = {}

Construct(o, p) ==
    /\ impl[o] = Null
    /\ impl' = [impl EXCEPT ![o] = p]
    /\ given' = [given EXCEPT ![o] = p]
    /\ UNCHANGED keys

(* Impl::deriveKey() of both classes; the digest has been found *)
DerivedKey(p, input) ==
    [kind |-> p.kind, hash |-> p.hash, input |-> input,
     rounds |-> IF p.kind = "PBKDF2" THEN Rounds(ToInt(p.iterations)) ELSE 0]

(* deriveKey(): _getMDPtrFromDigestType() throws for NONE, and any OpenSSL *)
(* failure throws; the object itself does not change.                      *)
DeriveKey(o, input) ==
    /\ impl[o] # Null /\ Cardinality(keys) < MaxKeys
    /\ \/ /\ impl[o].hash # "NONE"
          /\ keys' = keys \union
                {[params |-> given[o], input |-> input, key |-> DerivedKey(impl[o], input)]}
       \/ UNCHANGED keys
    /\ UNCHANGED <<impl, given>>

SameClass(o, p) == impl[o] # Null => impl[o].kind = impl[p].kind

(* Copy constructor and copy assignment, also of an object to itself: the  *)
(* new Impl is complete before the old one is released.                    *)
Copy(o, p) ==
    /\ impl[p] # Null /\ SameClass(o, p)
    /\ impl' = [impl EXCEPT ![o] = impl[p]]
    /\ given' = [given EXCEPT ![o] = given[p]]
    /\ UNCHANGED keys

(* mutation: the assignment releases its own Impl first *)
MoveReleasesFirst(o, p) ==
    /\ impl[p] # Null /\ SameClass(o, p)
    /\ impl' = [impl EXCEPT ![o] = IF o = p THEN Null ELSE impl[p], ![p] = Null]
    /\ given' = IF o = p THEN given ELSE [given EXCEPT ![o] = given[p], ![p] = Null]
    /\ UNCHANGED keys

(* Move constructor and move assignment: the source is left with a null    *)
(* _impl, unless it is the target as well.                                 *)
Move(o, p) ==
    /\ impl[p] # Null /\ SameClass(o, p)
    /\ impl' = IF o = p THEN impl ELSE [impl EXCEPT ![o] = impl[p], ![p] = Null]
    /\ given' = IF o = p THEN given ELSE [given EXCEPT ![o] = given[p], ![p] = Null]
    /\ UNCHANGED keys

Next ==
    \/ \E o \in Objects, p \in Parameters : Construct(o, p)
    \/ \E o \in Objects, i \in Inputs : DeriveKey(o, i)
    \/ \E o, p \in Objects : Copy(o, p) \/ Move(o, p)

Spec == Init /\ [][Next]_vars
-----------------------------------------------------------------------------
(* Every object either owns an Impl or has been moved from, and an object  *)
(* whose caller may still use it is never left without one: no sequence of *)
(* copies and (self-)moves leads deriveKey() to a null _impl.              *)
TypeOK ==
    /\ impl \in [Objects -> Parameters \union {Null}]
    /\ \A o \in Objects : (impl[o] = Null) <=> (given[o] = Null)

InRange(p) == p.kind = "PBKDF2" => p.iterations \in 1 .. IntMax

(* Two calls of deriveKey() agree exactly if class, hash, iteration count  *)
(* and input agree, through whatever copies and moves the objects came:    *)
(* both sides of a protocol derive the same key, and no parameter is lost. *)
(* For counts an int holds and that are not 0.                             *)
SameKeyIffSameParameters ==
    \A k, l \in keys : InRange(k.params) /\ InRange(l.params) =>
        ((k.key = l.key) <=> (k.params = l.params /\ k.input = l.input))
=============================================================================
