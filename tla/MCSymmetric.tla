---------------------------- MODULE MCSymmetric ----------------------------
(***************************************************************************)
(* Model checking of the symmetric ciphers.  A behaviour exercises one     *)
(* part, the others keep an initial state: AESCipher, AESCipherBuilder and *)
(* MemoryStrategy.  All sizes and bounds are in the cfgs.                  *)
(***************************************************************************)
EXTENDS AESCipher

CONSTANTS
    BuilderTagLengths, MaxBuilds,       \* AESCipherBuilder
    MaxBytes, MaxBlocks, MaxRequest     \* MemoryStrategy

VARIABLES
    part,           \* the component this behaviour exercises
    bMode, bKeySizeOk, bIv, bPadding, bAuthTagLength, bRandomIVs, bBuilt,
    mQueue, mTotalBytesStored, mWritten, mResult

builderVars == <<bMode, bKeySizeOk, bIv, bPadding, bAuthTagLength, bRandomIVs, bBuilt>>
memoryVars == <<mQueue, mTotalBytesStored, mWritten, mResult>>
mcvars == <<part, vars, builderVars, memoryVars>>

Builder == INSTANCE AESCipherBuilder WITH
    TagLengths <- BuilderTagLengths,
    mode <- bMode, keySizeOk <- bKeySizeOk, iv <- bIv, padding <- bPadding,
    authTagLength <- bAuthTagLength, randomIVs <- bRandomIVs, built <- bBuilt

Memory == INSTANCE MemoryStrategy WITH
    queue <- mQueue, totalBytesStored <- mTotalBytesStored,
    written <- mWritten, result <- mResult

ASSUME SymmetricAssumption == Builder!BuilderAssumption /\ Memory!MemoryAssumption

MCInit ==
    /\ part \in {"cipher", "builder", "memory"}
    /\ Init
    /\ part = "cipher" \/ cipher = NewCipher("CBC", "Encryption", "PKCS", 16, 16, FALSE)
    /\ Builder!Init
    /\ part = "builder" \/ (bMode = "CBC" /\ bKeySizeOk)
    /\ Memory!Init

MCNext ==
    \/ part = "cipher" /\ Next /\ UNCHANGED <<part, builderVars, memoryVars>>
    \/ part = "builder" /\ Builder!Next /\ UNCHANGED <<part, vars, memoryVars>>
    \/ part = "memory" /\ Memory!Next /\ UNCHANGED <<part, vars, builderVars>>

MCSpec == MCInit /\ [][MCNext]_mcvars
-----------------------------------------------------------------------------
(* However often a builder is used, no two ciphers start from one          *)
(* generated initialisation vector, and every cipher that any order of     *)
(* setters and builds makes has the vector and the tag length its mode     *)
(* needs.                                                                  *)
BuiltCiphersAreSound ==
    /\ Builder!TypeOK
    /\ Builder!GeneratedIVUsedOnce
    /\ Builder!BuiltCiphersAreLegal

(* The queue of blocks behaves as one stream of bytes: reads deliver every *)
(* byte once and in order, whatever the sizes of writes and requests, as   *)
(* many as asked while there are so many, and totalBytesStored is the      *)
(* number of bytes in the queue.                                           *)
RefinesByteStream ==
    /\ [](Memory!TypeOK /\ Memory!TotalBytesStoredExact)
    /\ Memory!RefinesByteStream
    /\ Memory!ReadsAreStreamReads
=============================================================================
