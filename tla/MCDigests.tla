----------------------------- MODULE MCDigests -----------------------------
(***************************************************************************)
(* Model checking of message digests, message authentication and key       *)
(* derivation.  A behaviour exercises one part, the others keep an initial *)
(* state: Mac, Hash and Kdf.  All bounds are in the cfg.                   *)
(***************************************************************************)
EXTENDS Mac

CONSTANTS
    Chunks, MaxChunks,                              \* Hash
    Objects, Hashes, Inputs, Width, Iterations, MaxKeys     \* Kdf

VARIABLES
    part,           \* the component this behaviour exercises
    hDigestType, hDigestCtx, hFinalised, hFinalDigestValue, hOffered, hCalls,
    hAsked, hResult, hFailedFinal,
    kImpl, kGiven, kKeys

hashVars == <<hDigestType, hDigestCtx, hFinalised, hFinalDigestValue, hOffered,
              hCalls, hAsked, hResult, hFailedFinal>>
kdfVars == <<kImpl, kGiven, kKeys>>
mcvars == <<part, vars, hashVars, kdfVars>>

HashObject == INSTANCE Hash WITH
    digestType <- hDigestType, digestCtx <- hDigestCtx, finalised <- hFinalised,
    finalDigestValue <- hFinalDigestValue, offered <- hOffered, calls <- hCalls,
    asked <- hAsked, result <- hResult, failedFinal <- hFailedFinal

Derivation == INSTANCE Kdf WITH
    impl <- kImpl, given <- kGiven, keys <- kKeys

ASSUME DigestsAssumption == HashObject!HashAssumption /\ Derivation!KdfAssumption

MCInit ==
    /\ part \in {"mac", "hash", "kdf"}
    /\ Init
    /\ part = "mac" \/ mac = NewMac(CHOOSE key \in Keys : TRUE)
    /\ HashObject!Init
    /\ Derivation!Init

MCNext ==
    \/ part = "mac" /\ Next /\ UNCHANGED <<part, hashVars, kdfVars>>
    \/ part = "hash" /\ HashObject!Next /\ UNCHANGED <<part, vars, kdfVars>>
    \/ part = "kdf" /\ Derivation!Next /\ UNCHANGED <<part, vars, hashVars>>

MCSpec == MCInit /\ [][MCNext]_mcvars
-----------------------------------------------------------------------------
(* A digest covers all input the object took before the digest was asked   *)
(* for, in order, and none that was refused; what digest() has returned it *)
(* returns again, whatever calls of update() are tried in between.         *)
DigestsAreRight ==
    /\ [](HashObject!TypeOK /\ HashObject!DigestCoversInput)
    /\ HashObject!DigestIsStable

(* Two objects derive the same key exactly if they were given the same     *)
(* parameters and input, also after being copied and moved, an object to   *)
(* itself included.                                                        *)
DerivedKeysAreRight ==
    /\ Derivation!TypeOK
    /\ Derivation!SameKeyIffSameParameters
=============================================================================
