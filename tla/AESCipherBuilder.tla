-------------------------- MODULE AESCipherBuilder --------------------------
(***************************************************************************)
(* AESCipherBuilder (symmetric_crypto.cpp): one builder object whose       *)
(* setters and build methods are called in any order, any number of times. *)
(***************************************************************************)
EXTENDS AESCipherImpl, Sequences

CONSTANTS
    IVLengths,      \* lengths of the IVs the caller passes to setIV()
    TagLengths,     \* lengths the caller passes to setAuthTagLength()
    MaxBuilds       \* bound: ciphers built by one builder

BuilderAssumption ==
    IVLengths \subseteq Nat /\ TagLengths \subseteq Nat /\ MaxBuilds \in Nat

VARIABLES
    mode,           \* _mode, fixed by the constructor
    keySizeOk,      \* _secretKey has the size that _keySize asks for
    iv,             \* _iv
    padding,        \* _padding
    authTagLength,  \* _authTagLength
    randomIVs,      \* number of IVs drawn from cryptoRandomBytes()
    built           \* history: the ciphers built, in order

settings == <<iv, padding, authTagLength>>
vars == <<mode, keySizeOk, settings, randomIVs, built>>

(* An IV is its length and where it comes from: the caller's own (0) or    *)
(* the n-th random draw, two draws being different.                        *)
IV(len, draw) == [len |-> len, draw |-> draw]
NoIV == IV(0, 0)

Init ==
    /\ mode \in SymmetricCipherMode
    /\ keySizeOk \in BOOLEAN
    /\ iv = NoIV
    /\ padding = "PKCS"
    /\ authTagLength = DefaultAuthTagLength
    /\ randomIVs = 0
    /\ built = <<>>

SetIV(len) ==
    /\ iv' = IV(len, 0)
    /\ UNCHANGED <<mode, keySizeOk, padding, authTagLength, randomIVs, built>>

SetPadding(p) ==
    /\ padding' = p
    /\ UNCHANGED <<mode, keySizeOk, iv, authTagLength, randomIVs, built>>

SetAuthTagLength(len) ==
    /\ authTagLength' = len
    /\ UNCHANGED <<mode, keySizeOk, iv, padding, randomIVs, built>>

(* The AESCipher constructor either throws or yields a cipher. *)
Construct(operation, theIV, authenticated) ==
    /\ Len(built) < MaxBuilds
    /\ ConstructorOk(mode, keySizeOk, theIV.len)
    /\ built' = Append(built, [operation |-> operation, iv |-> theIV,
                               padding |-> padding, authenticated |-> authenticated,
                               authTagLength |-> authTagLength])

(* mutation: the generated IV is kept in the builder *)
EncryptorIVKept(authenticated) ==
    LET theIV == IF iv.len = 0 THEN IV(getDefaultIVLength(mode), randomIVs + 1) ELSE iv
    IN  /\ randomIVs' = IF iv.len = 0 THEN randomIVs + 1 ELSE randomIVs
        /\ iv' = theIV
        /\ Construct("Encryption", theIV, authenticated)
        /\ UNCHANGED <<padding, authTagLength>>

(* The common part of the two methods that build an encryptor: without an  *)
(* IV of the caller, a new one is drawn, used once and not kept.           *)
BuildForEncryption(authenticated) ==
    LET newIV == IV(getDefaultIVLength(mode), randomIVs + 1)
    IN  /\ \/ /\ iv.len = 0
              /\ randomIVs' = randomIVs + 1
              /\ Construct("Encryption", newIV, authenticated)
           \/ /\ iv.len # 0
              /\ UNCHANGED randomIVs
              /\ Construct("Encryption", iv, authenticated)
        /\ UNCHANGED settings

BuildEncryptor ==
    /\ ~isAuthenticatedCipherMode(mode)
    /\ BuildForEncryption(FALSE)
    /\ UNCHANGED <<mode, keySizeOk>>

BuildDecryptor ==
    /\ ~isAuthenticatedCipherMode(mode)
    /\ Construct("Decryption", iv, FALSE)
    /\ UNCHANGED <<mode, keySizeOk, settings, randomIVs>>

BuildAuthenticatedEncryptor ==
    /\ isAuthenticatedCipherMode(mode)
    /\ BuildForEncryption(TRUE)
    /\ UNCHANGED <<mode, keySizeOk>>

BuildAuthenticatedDecryptor ==
    /\ isAuthenticatedCipherMode(mode)
    /\ authTagLength = DefaultAuthTagLength
    /\ Construct("Decryption", iv, TRUE)
    /\ UNCHANGED <<mode, keySizeOk, settings, randomIVs>>

Next ==
    \/ \E len \in IVLengths : SetIV(len)
    \/ \E p \in SymmetricCipherPadding : SetPadding(p)
    \/ \E len \in TagLengths : SetAuthTagLength(len)
    \/ BuildEncryptor \/ BuildDecryptor
    \/ BuildAuthenticatedEncryptor \/ BuildAuthenticatedDecryptor

Spec == Init /\ [][Next]_vars
-----------------------------------------------------------------------------
IVs == [len : Nat, draw : Nat]

(* The builder and every cipher it built keep the types of their members:  *)
(* build methods hand the settings to the constructor in the right places. *)
TypeOK ==
    /\ mode \in SymmetricCipherMode /\ keySizeOk \in BOOLEAN
    /\ iv \in IVs /\ padding \in SymmetricCipherPadding
    /\ authTagLength \in Nat /\ randomIVs \in Nat
    /\ built \in Seq([operation : Operation, iv : IVs,
                      padding : SymmetricCipherPadding, authenticated : BOOLEAN,
                      authTagLength : Nat])

(* An IV the library generated is used by one cipher only, however often   *)
(* one builder is asked to build ("always create a new IV").               *)
GeneratedIVUsedOnce ==
    \A i, j \in DOMAIN built :
        (i # j /\ built[i].iv.draw # 0) => built[i].iv # built[j].iv

(* Every cipher that exists has a key and an IV its mode can run with, is  *)
(* authenticated exactly when its mode is, and a decryptor never runs with *)
(* an IV the caller did not choose or a tag length it would ignore.        *)
BuiltCiphersAreLegal ==
    \A i \in DOMAIN built : LET c == built[i] IN
        /\ keySizeOk
        /\ c.iv.len > 0 /\ (mode # "GCM" => c.iv.len = 16)
        /\ c.authenticated <=> mode = "GCM"
        /\ c.operation = "Decryption" =>
              /\ c.iv.draw = 0
              /\ c.authenticated => c.authTagLength = DefaultAuthTagLength
=============================================================================
