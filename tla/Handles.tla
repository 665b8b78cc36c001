------------------------------ MODULE Handles ------------------------------
(***************************************************************************)
(* Ownership of OpenSSL's objects: the smart pointers of openssl_wrap.h,   *)
(* the functions that pass objects between them, and the caller's copies   *)
(* of certificates, keys and revocation lists.  A function is the sequence *)
(* of its steps that make, hand over, point to or use an object; every one *)
(* that calls OpenSSL may fail, and the exception then unwinds the locals. *)
(* A second thread may meanwhile copy and destroy handles of its own.      *)
(***************************************************************************)
EXTENDS Naturals, Sequences, SequencesExt, FiniteSets

CONSTANTS
    Certs, Crls, Keys,  \* native objects that the caller loads
    KeyOf,              \* the key inside a certificate
    Slots,              \* the caller's variables
    Blocks,             \* control blocks of shared pointers
    MaxCalls            \* bound: library calls

Null == "null"
Locals == {"store", "stack", "ctx", "crlStack", "keyCtx", "label", "buffer",
           "r", "s", "sig", "ecKey", "pkey", "name", "req", "mctx"}
Natives == Certs \union Crls \union Keys \union Locals
Counted == Natives \union Blocks

(* Objects of different kinds are different ones, and there are blocks     *)
(* enough for every variable to have its own.                              *)
HandlesAssumption ==
    /\ KeyOf \in [Certs -> Keys]
    /\ \A S \in {Certs, Crls, Keys, Slots, Blocks} : IsFiniteSet(S)
    /\ Cardinality(Blocks) = Cardinality(Slots)
    /\ Certs \intersect (Crls \union Keys \union Locals \union Blocks) = {}
    /\ Crls \intersect (Keys \union Locals \union Blocks) = {}
    /\ Keys \intersect (Locals \union Blocks) = {} /\ Locals \intersect Blocks = {}
    /\ Null \notin Counted /\ MaxCalls \in Nat

VARIABLES
    refs,       \* reference count of every object, 0 for one that is not there
    holds,      \* objects of which an object has a counted reference
    points,     \* objects that an object points to and does not own
    slots,      \* control block of every variable of the caller
    scope,      \* objects that the local unique pointers own, oldest first
    todo,       \* steps left of the running function
    arguments,  \* variables of the caller the running function reads
    dropping,   \* references that are being given back
    faults,     \* what went wrong
    calls       \* number of calls so far

vars == <<refs, holds, points, slots, scope, todo, arguments, dropping, faults, calls>>
heap == <<refs, holds, points>>
-----------------------------------------------------------------------------
(* Steps of a function *)
New(o)       == [op |-> "new", obj |-> o, of |-> {}]    \* a local owns a new object
Declare(o)   == [op |-> "declare", obj |-> o, of |-> {}]    \* a local that is null
Assign(o)    == [op |-> "assign", obj |-> o, of |-> {}] \* a new object for it
Generate(o)  == [op |-> "generate", obj |-> o, of |-> {}]   \* an output argument
Parts(o, of) == [op |-> "parts", obj |-> o, of |-> of]  \* objects made inside of o
Ref(o)       == [op |-> "ref", obj |-> o, of |-> {}]    \* a local gets a reference
Take(o, of)  == [op |-> "take", obj |-> o, of |-> of]   \* o gets references
Point(o, of) == [op |-> "point", obj |-> o, of |-> of]  \* o gets bare pointers
Give(o, of)  == [op |-> "give", obj |-> o, of |-> of]   \* o gets what locals own
Use(o)       == [op |-> "use", obj |-> o, of |-> {}]
Leave        == [op |-> "leave", obj |-> Null, of |-> {}]   \* the newest local ends
Return(o)    == [op |-> "return", obj |-> o, of |-> {}] \* o moves to the caller

(* mutation: the stack of revocation lists ends with its if statement *)
VerifyInnerScope(leaf, trusted, intermediates, crls) ==
    <<New("store"), Take("store", trusted), New("stack"), Point("stack", intermediates),
      New("ctx"), Point("ctx", {"store", leaf, "stack"}), Use("ctx")>>
    \o (IF crls = {} THEN <<>>
        ELSE <<New("crlStack"), Point("crlStack", crls), Point("ctx", {"crlStack"}), Leave>>)
    \o <<Use("ctx")>>

(* X509Certificate::verify(), with buildStackFromContainer() *)
Verify(leaf, trusted, intermediates, crls) ==
    <<New("store"), Take("store", trusted), New("stack"), Point("stack", intermediates),
      New("ctx"), Point("ctx", {"store", leaf, "stack"}), Use("ctx"), Declare("crlStack")>>
    \o (IF crls = {} THEN <<>>
        ELSE <<Assign("crlStack"), Point("crlStack", crls), Point("ctx", {"crlStack"})>>)
    \o <<Use("ctx")>>

(* X509Certificate::getPublicKey() *)
GetPublicKey(cert) == <<Use(cert), Ref(KeyOf[cert]), Return(KeyOf[cert])>>

(* RSASpec::generate() and ECCSpec::generate(), with _EVP_PKEY_keygen() *)
GenerateKey == <<New("keyCtx"), Use("keyCtx"), Generate("pkey"), Return("pkey")>>

(* AsymmetricPublicKey::fromECPoint() *)
FromECPoint == <<New("ecKey"), Use("ecKey"), New("pkey"), Take("pkey", {"ecKey"}),
                 Return("pkey")>>

(* encrypt() of RSAEncryptionPublicKeyCtx, with                            *)
(* OAEPPadding::prepareOpenSSLContext() and its copy of the label          *)
EncryptOAEP(key) ==
    <<New("keyCtx"), Take("keyCtx", {key}), Declare("label"), Use("keyCtx"),
      Assign("label"), Give("keyCtx", {"label"}), Leave, Use("keyCtx"),
      New("buffer"), Use("keyCtx")>>

(* _Asn1ECSignatureToIEEE1363EcSignature() *)
ToIEEE1363 == <<New("sig"), Parts("sig", {"r", "s"}), Use("r"), Use("s")>>

(* _IEEE1363EcSignatureToAsn1ECSignature(), with _ECDSA_SIG_set0() and the *)
(* guarded buffer of _i2d_ECDSA_SIG()                                      *)
FromIEEE1363 == <<New("r"), New("s"), New("sig"), Give("sig", {"r", "s"}), Use("sig"),
                  New("buffer")>>

(* CertificateSigningRequest::CertificateSigningRequest() *)
MakeCsr(key) ==
    <<New("req"), New("name"), Use("name"), Use("req"), Take("req", {key}),
      New("mctx"), Take("mctx", {key}), Use("req"), Return("req")>>
-----------------------------------------------------------------------------
Init ==
    /\ refs = [o \in Counted |-> 0]
    /\ holds = [o \in Counted |-> {}] /\ points = [o \in Counted |-> {}]
    /\ slots = [s \in Slots |-> Null]
    /\ scope = <<>> /\ todo = <<>> /\ arguments = {} /\ dropping = <<>>
    /\ faults = {} /\ calls = 0

Native(slot) == CHOOSE o \in holds[slots[slot]] : TRUE
HandlesOf(kind) == {s \in Slots : slots[s] # Null /\ Native(s) \in kind}
FreeBlock == CHOOSE b \in Blocks : refs[b] = 0
(* Counts with a reference more, and locals that own nothing any more *)
Plus(set) == [o \in Counted |-> IF o \in set THEN refs[o] + 1 ELSE refs[o]]
Released(seq, set) == [i \in 1..Len(seq) |-> IF seq[i] \in set THEN Null ELSE seq[i]]

(* The handle of a unique pointer that becomes a shared pointer of slot s *)
Handle(s, o) ==
    /\ refs' = [refs EXCEPT ![FreeBlock] = 1]
    /\ holds' = [holds EXCEPT ![FreeBlock] = {o}]
    /\ slots' = [slots EXCEPT ![s] = FreeBlock]

(* fromPEM(), readPrivateKeyFromPEM() and the like: a certificate has its  *)
(* key with it                                                             *)
Load(s, o) ==
    /\ calls < MaxCalls /\ dropping = <<>> /\ slots[s] = Null /\ refs[o] = 0
    /\ o \in Certs => refs[KeyOf[o]] = 0
    /\ LET parts == IF o \in Certs THEN {KeyOf[o]} ELSE {}
       IN  /\ refs' = [Plus({o} \union parts) EXCEPT ![FreeBlock] = 1]
           /\ holds' = [holds EXCEPT ![FreeBlock] = {o}, ![o] = parts]
    /\ slots' = [slots EXCEPT ![s] = FreeBlock]
    /\ calls' = calls + 1
    /\ UNCHANGED <<points, scope, todo, arguments, dropping, faults>>

(* A copy of a certificate, key, revocation list or request *)
Copy(s, from) ==
    /\ dropping = <<>> /\ slots[s] = Null /\ slots[from] # Null
    /\ slots' = [slots EXCEPT ![s] = slots[from]]
    /\ refs' = Plus({slots[from]})
    /\ UNCHANGED <<holds, points, scope, todo, arguments, dropping, faults, calls>>

(* The end of a variable, in this thread or in another one: the running    *)
(* function's arguments stay                                               *)
Destroy(s) ==
    /\ dropping = <<>> /\ slots[s] # Null /\ s \notin arguments
    /\ dropping' = <<slots[s]>>
    /\ slots' = [slots EXCEPT ![s] = Null]
    /\ UNCHANGED <<heap, scope, todo, arguments, faults, calls>>

(* A reference goes back: SSLDeleter and shared_ptr call the free function, *)
(* which ends the object with the last reference and then drops its own     *)
Drop(o) ==
    LET ends == refs[o] <= 1
    IN  /\ faults' = IF refs[o] = 0 THEN faults \union {"double free"} ELSE faults
        /\ refs' = [refs EXCEPT ![o] = IF ends THEN 0 ELSE @ - 1]
        /\ holds' = IF ends THEN [holds EXCEPT ![o] = {}] ELSE holds
        /\ points' = IF ends THEN [points EXCEPT ![o] = {}] ELSE points
        /\ dropping' = Tail(dropping) \o (IF ends THEN SetToSeq(holds[o]) ELSE <<>>)

DropNext ==
    /\ dropping # <<>> /\ Drop(Head(dropping))
    /\ UNCHANGED <<slots, scope, todo, arguments, calls>>
-----------------------------------------------------------------------------
(* A call starts when the one before has ended.  The name of a new object  *)
(* is free: of a generated key or request there is one at a time.          *)
Idle == scope = <<>> /\ todo = <<>> /\ dropping = <<>>
Call(steps, args) ==
    /\ calls < MaxCalls /\ Idle /\ arguments = {}
    /\ \A i \in 1..Len(steps) :
          steps[i].op \in {"new", "assign", "generate"} => refs[steps[i].obj] = 0
    /\ todo' = steps /\ arguments' = args /\ calls' = calls + 1
    /\ UNCHANGED <<heap, slots, scope, dropping, faults>>

(* verify() of a certificate with a context of one trusted and maybe one   *)
(* intermediate certificate and a revocation list                          *)
CallVerify ==
    \E leaf, root \in HandlesOf(Certs), lists \in SUBSET HandlesOf(Crls),
       between \in SUBSET HandlesOf(Certs) :
        Call(Verify(Native(leaf), {Native(root)}, {Native(s) : s \in between},
                    {Native(s) : s \in lists}),
             {leaf, root} \union lists \union between)

CallWithCertificate == \E c \in HandlesOf(Certs) : Call(GetPublicKey(Native(c)), {c})

CallWithKey ==
    \E k \in HandlesOf(Keys \union {"pkey"}) :
        \/ Call(EncryptOAEP(Native(k)), {k})
        \/ Call(MakeCsr(Native(k)), {k})

CallAlone ==
    \/ Call(GenerateKey, {})
    \/ Call(FromECPoint, {})
    \/ Call(ToIEEE1363, {})
    \/ Call(FromIEEE1363, {})

(* What a call into OpenSSL with these objects may look at *)
OneMore(set) == set \union UNION {holds[o] \union points[o] : o \in set}
Reach(set) == OneMore(OneMore(OneMore(set)))
Touched(set) ==
    IF \A o \in Reach(set) : refs[o] > 0 THEN faults ELSE faults \union {"use after free"}

Step == Head(todo)
Running == todo # <<>> /\ dropping = <<>>
Done == todo' = Tail(todo) /\ UNCHANGED <<slots, arguments, calls>>

(* One step of the function when OpenSSL's part of it succeeds *)
StepNew ==
    /\ Running /\ Step.op = "new" /\ Done
    /\ refs' = Plus({Step.obj}) /\ scope' = Append(scope, Step.obj)
    /\ UNCHANGED <<holds, points, dropping, faults>>

StepDeclare ==
    /\ Running /\ Step.op = "declare" /\ Done
    /\ scope' = Append(scope, Null)
    /\ UNCHANGED <<heap, dropping, faults>>

StepAssign ==
    /\ Running /\ Step.op = "assign" /\ Done
    /\ refs' = Plus({Step.obj}) /\ scope' = [scope EXCEPT ![Len(scope)] = Step.obj]
    /\ UNCHANGED <<holds, points, dropping, faults>>

StepRef ==
    /\ Running /\ Step.op = "ref" /\ Done
    /\ refs' = Plus({Step.obj}) /\ scope' = Append(scope, Step.obj)
    /\ faults' = Touched({Step.obj})
    /\ UNCHANGED <<holds, points, dropping>>

StepParts ==
    /\ Running /\ Step.op = "parts" /\ Done
    /\ refs' = Plus(Step.of) /\ holds' = [holds EXCEPT ![Step.obj] = @ \union Step.of]
    /\ UNCHANGED <<points, scope, dropping, faults>>

StepTake ==
    /\ Running /\ Step.op = "take" /\ Done
    /\ refs' = Plus(Step.of \ holds[Step.obj])
    /\ holds' = [holds EXCEPT ![Step.obj] = @ \union Step.of]
    /\ faults' = Touched({Step.obj} \union Step.of)
    /\ UNCHANGED <<points, scope, dropping>>

StepPoint ==
    /\ Running /\ Step.op = "point" /\ Done
    /\ points' = [points EXCEPT ![Step.obj] = @ \union Step.of]
    /\ faults' = Touched({Step.obj} \union Step.of)
    /\ UNCHANGED <<refs, holds, scope, dropping>>

(* release(): the reference of the local becomes that of the object *)
StepGive ==
    /\ Running /\ Step.op = "give" /\ Done
    /\ holds' = [holds EXCEPT ![Step.obj] = @ \union Step.of]
    /\ scope' = Released(scope, Step.of)
    /\ faults' = Touched({Step.obj} \union Step.of)
    /\ UNCHANGED <<refs, points, dropping>>

StepUse ==
    /\ Running /\ Step.op = "use" /\ Done
    /\ faults' = Touched({Step.obj})
    /\ UNCHANGED <<heap, scope, dropping>>

Owned(o) == IF o = Null THEN <<>> ELSE <<o>>

StepLeave ==
    /\ Running /\ Step.op = "leave" /\ Done
    /\ dropping' = Owned(Last(scope)) /\ scope' = Front(scope)
    /\ UNCHANGED <<heap, faults>>

StepReturn(s) ==
    /\ Running /\ Step.op = "return" /\ slots[s] = Null
    /\ Handle(s, Step.obj)
    /\ scope' = Released(scope, {Step.obj}) /\ todo' = Tail(todo)
    /\ UNCHANGED <<points, arguments, dropping, faults, calls>>

(* A caller that has no variable for the result lets it go *)
StepDiscard ==
    /\ Running /\ Step.op = "return" /\ \A s \in Slots : slots[s] # Null
    /\ todo' = Tail(todo)
    /\ UNCHANGED <<heap, slots, scope, arguments, dropping, faults, calls>>

(* _EVP_PKEY_keygen() *)
StepGenerate ==
    /\ Running /\ Step.op = "generate" /\ Done
    /\ refs' = Plus({Step.obj}) /\ scope' = Append(scope, Step.obj)
    /\ UNCHANGED <<holds, points, dropping, faults>>

(* _EVP_PKEY_keygen() fails with a key in its output argument: it is freed *)
(* before the exception goes on                                            *)
GenerateFails ==
    /\ Running /\ Step.op = "generate"
    /\ todo' = <<>> /\ refs' = Plus({Step.obj}) /\ dropping' = <<Step.obj>>
    /\ UNCHANGED <<holds, points, slots, scope, arguments, faults, calls>>

(* A checked call fails before it changed anything: the exception.         *)
(* ECDSA_SIG_set0() cannot fail for numbers that are not null, which its   *)
(* caller has checked, so that a failing give is the one of the label.     *)
StepFails ==
    /\ Running
    /\ \/ Step.op \in {"new", "assign", "generate", "ref", "take", "point", "use"}
       \/ Step.op = "give" /\ Step.of = {"label"}
    /\ todo' = <<>>
    /\ UNCHANGED <<heap, slots, scope, arguments, dropping, faults, calls>>

(* After the last step, or an exception: the newest local ends first *)
Unwind ==
    /\ todo = <<>> /\ dropping = <<>> /\ scope # <<>>
    /\ dropping' = Owned(Last(scope)) /\ scope' = Front(scope)
    /\ UNCHANGED <<heap, slots, todo, arguments, faults, calls>>

CallEnds ==
    /\ Idle /\ arguments # {}
    /\ arguments' = {}
    /\ UNCHANGED <<heap, slots, scope, todo, dropping, faults, calls>>

(* The program ends when all its variables have ended *)
Finished ==
    /\ Idle /\ arguments = {} /\ calls = MaxCalls /\ \A s \in Slots : slots[s] = Null
    /\ UNCHANGED vars
-----------------------------------------------------------------------------
Next ==
    \/ \E s \in Slots, o \in Certs \union Crls \union Keys : Load(s, o)
    \/ \E s, t \in Slots : Copy(s, t)
    \/ \E s \in Slots : Destroy(s)
    \/ DropNext
    \/ CallVerify
    \/ CallWithCertificate
    \/ CallWithKey
    \/ CallAlone
    \/ StepNew
    \/ StepDeclare
    \/ StepAssign
    \/ StepRef
    \/ StepParts
    \/ StepTake
    \/ StepPoint
    \/ StepGive
    \/ StepUse
    \/ StepLeave
    \/ \E s \in Slots : StepReturn(s)
    \/ StepDiscard
    \/ StepGenerate
    \/ GenerateFails
    \/ StepFails
    \/ Unwind
    \/ CallEnds
    \/ Finished

Spec == Init /\ [][Next]_vars
-----------------------------------------------------------------------------
(* Handles are control blocks that are there, and locals own locals or the *)
(* key of a certificate                                                    *)
TypeOK ==
    /\ refs \in [Counted -> Nat]
    /\ \A s \in Slots : slots[s] # Null => refs[slots[s]] > 0
    /\ ToSet(scope) \subseteq Locals \union Keys \union {Null}
    /\ calls <= MaxCalls

Occurrences(seq, o) == Cardinality({i \in 1..Len(seq) : seq[i] = o})

(* Every reference count is the number of owners, which are variables of   *)
(* the caller, objects with a reference, locals, and references on their   *)
(* way back: none is taken without an owner or handed over without the     *)
(* count, on no path through a function.                                   *)
CountsAreRight ==
    LET holding == {p \in Counted : holds[p] # {}}
    IN  \A o \in Counted :
            refs[o] = Cardinality({s \in Slots : slots[s] = o})
                      + Cardinality({p \in holding : o \in holds[p]})
                      + Occurrences(scope, o) + Occurrences(dropping, o)

(* No function uses an object after its end or ends it twice, whichever of *)
(* its calls fails and whatever handles another thread gives up meanwhile  *)
MemoryIsSafe == faults = {}

(* Between two calls every object that is there belongs to a handle of the *)
(* caller: no call leaves anything behind, failed or not.                  *)
NothingLeaks ==
    Idle =>
        \A o \in Counted :
            refs[o] > 0 => o \in Reach({slots[s] : s \in Slots} \ {Null})
=============================================================================
