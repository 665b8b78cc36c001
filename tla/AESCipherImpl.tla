--------------------------- MODULE AESCipherImpl ---------------------------
(***************************************************************************)
(* AESCipher::Impl (symmetric_crypto.cpp) as an object: a record of its    *)
(* members and, for each method, the condition under which it returns      *)
(* instead of throwing and the object it leaves behind.                    *)
(*                                                                         *)
(* A cipher maps its input stream to an output stream byte by byte, so     *)
(* data is abstracted to lengths: evp.nIn bytes went in, evp.nOut came     *)
(* out, `buffered' of them wait in the memory strategy (a FIFO byte        *)
(* stream, see MemoryStrategy).  evp.mismatch says that something fed to a *)
(* decryptor (key, IV, associated data or ciphertext) is not what the      *)
(* encrypting peer used or produced.                                       *)
(***************************************************************************)
EXTENDS Integers

CONSTANT IntMax         \* std::numeric_limits<int>::max()

BlockSize == 16
EVP_MAX_BLOCK_LENGTH == 32
DefaultAuthTagLength == 16
MaxTagLength == 16      \* the longest tag EVP_CTRL_GCM_{SET,GET}_TAG accept

ASSUME IntMaxAssumption == IntMax \in Nat /\ IntMax > EVP_MAX_BLOCK_LENGTH

SymmetricCipherMode == {"GCM", "CBC", "CTR"}
Operation == {"Encryption", "Decryption"}
SymmetricCipherPadding == {"PKCS", "NO"}

isAuthenticatedCipherMode(mode) == mode = "GCM"

getDefaultIVLength(mode) == IF mode = "GCM" THEN 12 ELSE 16

(* Length of the ciphertext of a plaintext of n bytes. *)
CipherLength(mode, padding, n) ==
    IF mode = "CBC" /\ padding = "PKCS" THEN (n - (n % BlockSize)) + BlockSize ELSE n

(* An authentication tag: its length and, when it is one that GCM computed *)
(* with the right key and IV, how much ciphertext and associated data it   *)
(* covers.  "zeros" is the content of a freshly resized vector.            *)
Tag(len, kind, data, aad) == [len |-> len, kind |-> kind, data |-> data, aad |-> aad]
TagKinds == {"genuine", "zeros", "other"}
NoTag == Tag(0, "other", 0, 0)
-----------------------------------------------------------------------------
(* The OpenSSL EVP cipher context, as AESCipher::Impl uses it. *)

EVP_CipherInit_ex(mode, mismatch) ==
    [ivLen |-> getDefaultIVLength(mode), aad |-> 0, nIn |-> 0, nOut |-> 0,
     mismatch |-> mismatch, final |-> "open"]

EVP_CTRL_GCM_SET_IVLEN(evp, len) == [evp EXCEPT !.ivLen = len]

(* Bytes that EVP_CipherUpdate keeps back after n bytes of input: the      *)
(* incomplete block and, when padding has to be removed, the last block.   *)
HeldBack(c, n) ==
    IF c.mode # "CBC" THEN 0
    ELSE IF /\ c.operation = "Decryption" /\ c.padding = "PKCS"
            /\ n > 0 /\ n % BlockSize = 0
         THEN BlockSize
         ELSE n % BlockSize

(* After its final call a GCM context has no IV and refuses everything. *)
EVP_Ready(c) == c.evp.final # "done"

EVP_CipherUpdate(c, n, genuine) ==
    [c.evp EXCEPT !.nIn = @ + n,
                  !.nOut = (c.evp.nIn + n) - HeldBack(c, c.evp.nIn + n),
                  !.mismatch = @ \/ ~genuine]

(* The length of the associated data travels in an int, here as its bit    *)
(* pattern: above IntMax it is negative, which GCM refuses.                *)
ToInt(n) == n % (2 * (IntMax + 1))

EVP_CipherUpdateAAD(c, n, genuine) ==
    [c.evp EXCEPT !.aad = @ + ToInt(n), !.mismatch = @ \/ ~genuine]

(* GCM recomputes its hash from a state that a first failed comparison     *)
(* has already altered, so only the first comparison can succeed.          *)
TagMatches(c) ==
    /\ c.evp.final = "open" /\ ~c.evp.mismatch
    /\ c.authTag.kind = "genuine"
    /\ c.authTag.data = c.evp.nIn /\ c.authTag.aad = c.evp.aad

(* pad is the number of padding bytes found in the last block of a padded  *)
(* decryption, 0 when the padding is malformed.                            *)
EVP_CipherFinalOk(c, pad) ==
    CASE c.mode = "CTR" -> TRUE
      [] c.mode = "GCM" -> c.operation = "Encryption" \/ TagMatches(c)
      [] c.mode = "CBC" ->
            \/ c.padding = "NO" /\ c.evp.nIn % BlockSize = 0
            \/ c.padding = "PKCS" /\ c.operation = "Encryption"
            \/ /\ c.padding = "PKCS" /\ c.operation = "Decryption"
               /\ c.evp.nIn > 0 /\ c.evp.nIn % BlockSize = 0 /\ pad > 0

FinalOutput(c, pad) ==
    IF c.mode # "CBC" \/ c.padding = "NO" THEN 0
    ELSE IF c.operation = "Encryption" THEN BlockSize ELSE BlockSize - pad
-----------------------------------------------------------------------------
(* AESCipher::Impl::Impl: the constructor throws on a bad key or IV size.  *)
(* The context is initialised once to learn the sizes, reset, and          *)
(* initialised again with key and IV.                                      *)
ConstructorOk(mode, keySizeOk, ivLen) ==
    /\ keySizeOk
    /\ IF mode = "GCM" THEN ivLen > 0 ELSE ivLen = getDefaultIVLength(mode)

ContextOf(mode, ivLen, mismatch) ==
    LET probe == EVP_CipherInit_ex(mode, mismatch)
        sized == IF mode = "GCM" THEN EVP_CTRL_GCM_SET_IVLEN(probe, ivLen) ELSE probe
    IN  \* EVP_CIPHER_CTX_reset(sized) forgets the context
        EVP_CipherInit_ex(mode, sized.mismatch)

NewCipher(mode, operation, padding, ivLen, authTagLength, mismatch) ==
    [mode |-> mode, operation |-> operation, padding |-> padding, ivLen |-> ivLen,
     requestedAuthTagLength |-> authTagLength, authTag |-> NoTag,
     isFinished |-> FALSE, isUpdated |-> FALSE,
     buffered |-> 0, evp |-> ContextOf(mode, ivLen, mismatch)]

(* update(message) *)
UpdateOk(c, n) ==
    /\ ~c.isFinished
    /\ n <= IntMax - EVP_MAX_BLOCK_LENGTH
    /\ n > 0 => EVP_Ready(c)

(* mutation: a chunk replaces what is still buffered *)
UpdatedOverwriting(c, n, genuine) ==
    LET evp == EVP_CipherUpdate(c, n, genuine)
    IN  IF n = 0 THEN c
        ELSE [c EXCEPT !.evp = evp, !.buffered = evp.nOut - c.evp.nOut,
                       !.isUpdated = TRUE]

(* mutation: _isUpdated is never set *)
UpdatedUnmarked(c, n, genuine) ==
    LET evp == EVP_CipherUpdate(c, n, genuine)
    IN  [c EXCEPT !.evp = evp, !.buffered = @ + (evp.nOut - c.evp.nOut)]

Updated(c, n, genuine) ==
    LET evp == EVP_CipherUpdate(c, n, genuine)
    IN  IF n = 0 THEN c     \* returns before _isUpdated is set
        ELSE [c EXCEPT !.evp = evp,
                       !.buffered = @ + (evp.nOut - c.evp.nOut),
                       !.isUpdated = TRUE]

(* addAssociatedData(associatedData).  GCM's own refusal behind the guard  *)
(* is left out: it refuses once data has gone in, and _isUpdated is set    *)
(* then.                                                                   *)
AddAssociatedDataOk(c, n) ==
    /\ ~c.isUpdated /\ ~c.isFinished
    /\ EVP_Ready(c) /\ ToInt(n) <= IntMax

AssociatedDataAdded(c, n, genuine) ==
    [c EXCEPT !.evp = EVP_CipherUpdateAAD(c, n, genuine)]

(* An empty vector without storage: EVP_CipherUpdate with neither input    *)
(* nor output is GCM's final call.  A decryptor has no tag yet, or one     *)
(* that failed already, and throws; an encryptor is closed.                *)
AddNullOk(c) == c.operation = "Encryption" /\ AddAssociatedDataOk(c, 0)
NullAdded(c) == [c EXCEPT !.evp.final = "done"]

(* read(length) and readAll(): how much the memory strategy hands out *)
ReadSize(c, n) == IF n < c.buffered THEN n ELSE c.buffered
ReadFrom(c, n) == [c EXCEPT !.buffered = @ - ReadSize(c, n)]

(* setAuthTag(authTag): accepted at any time *)
AuthTagSet(c, tag) == [c EXCEPT !.authTag = tag]

(* finish(): up to EVP_CipherFinal_ex nothing has changed *)
FinishReachesFinal(c) ==
    /\ ~c.isFinished
    /\ (isAuthenticatedCipherMode(c.mode) /\ c.operation = "Decryption")
            => c.authTag.len \in 1 .. MaxTagLength

(* mutation: the result of EVP_CipherFinal_ex is not checked *)
FinalUnchecked(c, pad) == EVP_Ready(c)

FinalSucceeds(c, pad) == EVP_Ready(c) /\ EVP_CipherFinalOk(c, pad)

ComputesTag(c) == c.mode = "GCM" /\ c.operation = "Encryption"

TagAvailable(c) == ComputesTag(c) => c.requestedAuthTagLength \in 1 .. MaxTagLength

FinishOk(c, pad) == FinishReachesFinal(c) /\ FinalSucceeds(c, pad) /\ TagAvailable(c)

(* finish() throws from EVP_CipherFinal_ex: only the EVP context remembers *)
FinishFailed(c) ==
    [c EXCEPT !.evp.final =
        IF c.mode = "GCM" /\ EVP_Ready(c) THEN "failed" ELSE @]

(* finish() throws from EVP_CTRL_GCM_GET_TAG: the tag is resized already *)
TagResized(c) ==
    Tag(c.requestedAuthTagLength, IF c.authTag.len = 0 THEN "zeros" ELSE "other", 0, 0)

FinishWithoutTag(c) ==
    [c EXCEPT !.evp.final = "done", !.authTag = TagResized(c)]

(* mutation: only the last chunk is returned *)
FinishReturnsLastChunk(c, pad) == FinalOutput(c, pad)

FinishReturns(c, pad) == c.buffered + FinalOutput(c, pad)

(* mutation: the tag always has the default length *)
FinishedDefaultTag(c, pad) ==
    [c EXCEPT !.evp.final = "done",
              !.evp.nOut = @ + FinalOutput(c, pad),
              !.authTag = IF ComputesTag(c)
                          THEN Tag(DefaultAuthTagLength, "genuine", c.evp.nIn, c.evp.aad)
                          ELSE @,
              !.buffered = 0,
              !.isFinished = TRUE]

Finished(c, pad) ==
    [c EXCEPT !.evp.final = "done",
              !.evp.nOut = @ + FinalOutput(c, pad),
              !.authTag = IF ComputesTag(c)
                          THEN Tag(c.requestedAuthTagLength, "genuine", c.evp.nIn, c.evp.aad)
                          ELSE @,
              !.buffered = 0,
              !.isFinished = TRUE]
=============================================================================
