---------------------------- MODULE ECIESBuilder ----------------------------
(***************************************************************************)
(* ECIESCtxBuilder (ecies.cpp): one builder object, its setters and its    *)
(* two build methods called in any order, any number of times.  A build    *)
(* first completes the parameters: the defaults it fills in are stored in  *)
(* the builder, also by a build that then throws.                          *)
(***************************************************************************)
EXTENDS MacImpl

CONSTANTS
    KeySizes,       \* key sizes the caller sets; 0 is "not set"
    MaxBuilds       \* bound: contexts built by one builder

ECIESBuilderAssumption == KeySizes \subseteq Nat /\ MaxBuilds \in Nat

Mode == {"Encryption", "Decryption"}
DefaultMacKeySize == 64             \* the digest size of SHA512
DefaultSymmetricKeySize == 32       \* AES-256

VARIABLES
    params,         \* the members of ECIESCtxBuilder::Impl
    caller,         \* history: what the caller last passed to each setter
    asked,          \* history: the directions contexts were asked for
    built           \* history: the contexts built, in order

vars == <<params, caller, asked, built>>

(* A factory is not set, the caller's own, or a default; the default       *)
(* cipher factory makes encryptors or decryptors.                          *)
NotSet == [kdf |-> "none", macFactory |-> "none", macKeySize |-> 0,
           cipherFactory |-> "none", symmetricKeySize |-> 0]

Init ==
    /\ params = NotSet
    /\ caller = NotSet
    /\ asked = {}
    /\ built = <<>>

(* The setters overwrite a member; null objects and size 0 unset it. *)
Set(member, value) ==
    /\ params' = [params EXCEPT ![member] = value]
    /\ caller' = [caller EXCEPT ![member] = value]
    /\ UNCHANGED <<asked, built>>

SetKDF(kdf) == Set("kdf", kdf)
SetMacFactoryFunction(func) == Set("macFactory", func)
SetMacKeySize(size) == Set("macKeySize", size)
SetSymmetricCipherFactoryFunction(func) == Set("cipherFactory", func)
SetSymmetricCipherKeySize(size) == Set("symmetricKeySize", size)

(* checkForRequiredParameters(mode), in the order of its statements *)
SetDefaultKdf(p) == [p EXCEPT !.kdf = IF @ = "none" THEN "default" ELSE @]

MacUnchecked(p) == TRUE     \* mutation: incomplete MAC parameters pass

MacComplete(p) == (p.macFactory # "none") <=> (p.macKeySize # 0)

SetDefaultMac(p) ==
    IF p.macFactory # "none" /\ p.macKeySize # 0 THEN p
    ELSE [p EXCEPT !.macFactory = "default", !.macKeySize = DefaultMacKeySize]

CipherComplete(p) == (p.cipherFactory # "none") <=> (p.symmetricKeySize # 0)

SetDefaultSymmetricCipherFactoryFunction(p, mode) ==
    IF p.cipherFactory # "none" /\ p.symmetricKeySize # 0 THEN p
    ELSE [p EXCEPT !.cipherFactory = mode, !.symmetricKeySize = DefaultSymmetricKeySize]

CheckOk(p) == MacComplete(p) /\ CipherComplete(p)

CheckedParameters(p, mode) ==
    CASE ~MacComplete(p) -> SetDefaultKdf(p)
      [] MacComplete(p) /\ ~CipherComplete(p) -> SetDefaultMac(SetDefaultKdf(p))
      [] CheckOk(p) ->
            SetDefaultSymmetricCipherFactoryFunction(SetDefaultMac(SetDefaultKdf(p)), mode)

(* The constructor of a context: the factories are run on the derived key; *)
(* the default ones accept what HMAC and AES-256 accept.                   *)
ContextOk(p) ==
    /\ p.macFactory = "default" => MacKeyOk("HMAC", p.macKeySize, 0)
    /\ p.cipherFactory \in Mode => p.symmetricKeySize = DefaultSymmetricKeySize

(* buildEncryptionCtx / buildDecryptionCtx *)
Build(mode) ==
    LET p == CheckedParameters(params, mode)
    IN  /\ Len(built) < MaxBuilds
        /\ CheckOk(params) /\ ContextOk(p)
        /\ params' = p
        /\ asked' = asked \cup {mode}
        /\ built' = Append(built, [mode |-> mode, params |-> p])
        /\ UNCHANGED caller

(* The check throws, or the constructor does (keysThrow: the key agreement *)
(* fails, for instance on keys of different curves).                       *)
BuildThrows(mode, keysThrow) ==
    LET p == CheckedParameters(params, mode)
    IN  /\ ~CheckOk(params) \/ ~ContextOk(p) \/ keysThrow
        /\ params' = p
        /\ asked' = asked \cup {mode}
        /\ UNCHANGED <<caller, built>>

Next ==
    \/ \E f \in {"none", "custom"} :
            \/ SetKDF(f)
            \/ SetMacFactoryFunction(f)
            \/ SetSymmetricCipherFactoryFunction(f)
    \/ \E size \in KeySizes : SetMacKeySize(size) \/ SetSymmetricCipherKeySize(size)
    \/ \E mode \in Mode : Build(mode)
    \/ \E mode \in Mode, keysThrow \in BOOLEAN : BuildThrows(mode, keysThrow)

Spec == Init /\ [][Next]_vars
-----------------------------------------------------------------------------
Parameters ==
    [kdf : {"none", "default", "custom"},
     macFactory : {"none", "default", "custom"}, macKeySize : Nat,
     cipherFactory : {"none", "custom"} \cup Mode, symmetricKeySize : Nat]

(* The builder and every context it built hold parameters of their types:  *)
(* a default is stored where the code looks for it.                        *)
TypeOK ==
    /\ params \in Parameters /\ caller \in Parameters
    /\ asked \subseteq Mode
    /\ built \in Seq([mode : Mode, params : Parameters])

(* Completing the parameters only fills gaps: what the caller set last     *)
(* stays in the builder, through failed and successful builds.             *)
CallerSettingsKept ==
    \A member \in DOMAIN caller :
        caller[member] # NotSet[member] => params[member] = caller[member]

(* No context exists without a complete set of parameters, and one with a  *)
(* default cipher has a key of that cipher's size.                         *)
BuiltContextsComplete ==
    \A i \in DOMAIN built : LET p == built[i].params IN
        /\ "none" \notin {p.kdf, p.macFactory, p.cipherFactory}
        /\ p.macKeySize > 0 /\ p.symmetricKeySize > 0
        /\ p.cipherFactory # "custom" => p.symmetricKeySize = DefaultSymmetricKeySize

Fits(context) == context.params.cipherFactory \in {"custom", context.mode}

(* As long as a builder is asked for contexts of one direction only, its   *)
(* default cipher works in that direction, whatever failed in between.     *)
OneDirectionBuildsFit ==
    \A mode \in Mode : asked \subseteq {mode} => \A i \in DOMAIN built : Fits(built[i])

(* "Default: If no function is set the default value is AES-CBC" and       *)
(* "An ECIES decryption context, which can be used for decryption": the    *)
(* default cipher of every context works in the direction of the context.  *)
DefaultCipherFitsContext == \A i \in DOMAIN built : Fits(built[i])
=============================================================================
