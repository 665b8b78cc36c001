# A TLA+ verification project for MoCOCrW

MoCOCrW is a C++ library that wraps OpenSSL 1.1.1: X.509 certificates and their
verification, a small certificate authority, symmetric and asymmetric
cryptography, MACs, hashes, key derivation and ECIES. This directory holds TLA+
models of its parts, TLC configurations that check them on small instances, and
TLAPS proofs of the main properties for every value of the constants.
`PROJECT.json` maps each definition to the source lines it models.

## The system

The library is passive: it starts no threads, keeps nothing on disk, and every
state change happens inside a call of its user. What makes it hard is *call
sequences*: objects fed in chunks of any size, calls in an order nobody tested,
calls that throw half-way and leave the object behind in some state, builders
that are reused, counters and lengths at the end of their integer type, OpenSSL
contexts and engines whose own state changes under the wrapper's flags, and
native objects shared by handles that callers copy and destroy at any time.

| component | source | state | operations | what makes it correct |
|---|---|---|---|---|
| cipher output buffer | `symmetric_memory` | queue of blocks, byte count | write, read, readAll | a FIFO byte stream, count exact |
| AES cipher | `symmetric_crypto` | EVP context, buffer, tag, two flags | update, addAssociatedData, read, readAll, setAuthTag, finish | nothing lost, decryption inverts encryption, GCM releases authentic data |
| AES builder | `symmetric_crypto` | IV, padding, tag length | setters, four builds | generated IVs used once, legal ciphers only |
| HMAC, CMAC | `mac` | context, result, finished flag | update, finish, verify | value covers the message, verdict right |
| hash | `hash` | context, cached digest | update, digest, one-shot functions | a digest covers the input and never changes |
| key derivation | `kdf` | parameters behind a pimpl | deriveKey, copy, move | equal keys mean equal parameters |
| ECIES contexts | `ecies` | cipher, MAC, salt, tag, flags | update, finish, getMAC, setMAC | the sender's plaintext or nothing |
| ECIES builder | `ecies` | KDF, factories, key sizes | setters, two builds | defaults fill gaps only, contexts complete and of the right direction |
| certificate authority | `ca` | signing parameters, next serial, root, key | createRootCertificate, constructor, signCSR | serials consecutive and in range, certificates verify |
| signing parameters, extensions | `sign_params`, `extension`, `key_usage`, `basic_constraints`, `subject_key_identifier` | extensions by NID, validity, digest, start | builder setters, the extension part of signing | the certificate says what was set last |
| signing requests | `csr` | an X509_REQ | construct, to and from PEM and DER, verify | what verifies was made by the holder of its key |
| names | `distinguished_name` | attribute list, order flag | build, compare, convert | round trip, equality |
| certificates, CRLs | `x509`, `crl` | verification context; serial number | setters, verify, getters, loaders | the contract of `x509.h` 302-327; exact serials |
| asymmetric contexts | `asymmetric_crypto_ctx`, `padding_mode` | key, shared padding, hash, format | construct, copy, encrypt, decrypt, sign, verify | exact size limits, what verifies was signed |
| keys | `key` | an EVP_PKEY | generate, getKeySpec, points, PEM with password | specs, points and passwords keep their meaning |
| ASN.1 time | `asn1time` | a time | +, -, comparison, conversions | exact or an exception |
| BIO objects | `bio` | an OpenSSL BIO | write, flushToString, flushToVector | a queue of bytes, loops end |
| PEM chains | `format_utils.h`, `x509`, `crl` | position in a text | split, reformat, load | nothing of a list of PEMs lost, order kept, loops end |
| utilities | `util`, `stack_utils.h` | none | toHex, fromHex | round trip |
| HSM engine | `hsm` | reference counts, path and PIN of the engine | construct, load keys, destroy | a live object has a running engine, the last one releases it |
| OpenSSL wrapper | `openssl_wrap`, `openssl_lib`, `cppc` | OpenSSL's error queue | one per OpenSSL function | failures become exceptions |
| ownership | `openssl_wrap.h`, `stack_utils.h` | smart pointers to native objects | functions that make, lend, hand over, release | nothing used after its end, nothing leaked |

How they interact: a cipher writes its output into a memory strategy; the AES
builder makes ciphers; an ECIES context owns a cipher and a MAC made by the
factories its builder chose; the certificate authority verifies what it signs
through `X509Certificate::verify`, counts time in `Asn1Time`, and takes names,
keys and parameters from requests and builders; everything is read and written
through BIOs, and calls OpenSSL through the wrapper, which turns error codes into
exceptions and raw pointers into handles.

The hazards that follow from this, each at its line and with the properties
that would notice it, are listed in `PROJECT.json` under `hazards`.

## Modules

| module | models | composed from |
|---|---|---|
| `ByteStream` | what `CipherMemoryStrategyI` and a memory BIO promise: an abstract FIFO stream | |
| `MemoryStrategy` | `QueueOfVectorsMemoryStrategy`, one action per branch of `read()` | implements `ByteStream` |
| `AESCipherImpl` | `AESCipher::Impl` and the EVP context as an object: operators on a record | |
| `AESCipher` | one cipher of any mode used in any order, opposite a peer | `AESCipherImpl` |
| `AESCipherBuilder` | one `AESCipherBuilder` used in any order | `AESCipherImpl` |
| `MacImpl`, `Mac` | `HMAC::Impl` / `CMAC::Impl` as an object; one used in any order | |
| `Hash` | one `Hash` object, and the one-shot functions | |
| `Kdf` | `PBKDF2` and `X963KDF` objects that are copied and moved | |
| `ECIES` | an encryption and a decryption context with an unreliable channel between | `MacImpl` |
| `ECIESBuilder` | one `ECIESCtxBuilder` used in any order | `MacImpl` |
| `CertificateAuthority` | root creation, construction and `signCSR` while time passes | |
| `SigningParameters` | the builders, the extensions and their way through OpenSSL's configuration strings | |
| `Csr` | requests made, written, altered on the way, read and verified | |
| `DistinguishedName` | two names, their builders, equality, and the way to an X509_NAME and back | |
| `SerialNumber` | setting and the three getters of a serial number | |
| `X509Verification` | `VerificationContext`, `verify()` and the flags it derives, CRLs | |
| `RSAEncryption` | both encryption contexts, with paddings as shared objects | |
| `Signatures` | RSA, ECDSA and EdDSA signature contexts | |
| `AsymmetricKey` | key generation, specifications, EC points, PEM with passwords | |
| `Asn1Time` | the time class and the time functions of the wrapper | |
| `HexCodec` | `toHex()`, `fromHex()` and what it uses of `strtoul()` | |
| `Bio` | `BioObject`, one BIO call of its loops a step | implements `ByteStream` |
| `PemChain` | `splitPEMChain()`, one turn of its loop a step, and the loaders | |
| `OpenSSLWrapper` | every wrapper as the sequence of its calls and return checks | |
| `Handles` | the smart pointers and eight functions as sequences of steps that may fail, beside a second thread | |
| `HsmEngine` | engine objects that share one external engine | |
| `MC*` | instances for TLC | the modules above |
| `*Proofs` | theorems and proofs | |

**State and actions.** The variables of a module are the members of the C++
object, under their names without the leading underscore, plus history
variables (what the caller gave and got) that the properties need. There is one
action per method, and one per way a method can throw *and still change
something*; a call that throws and changes nothing is a stuttering step. An
object that occurs inside another one is a record, and its methods are pairs of
operators: the condition under which the method returns (`UpdateOk`) and the
object it leaves behind (`Updated`). Where a method loops over calls that can
fail in between (`Bio`, `PemChain`, `Handles`, `OpenSSLWrapper`, `HsmEngine`),
one call or one turn of the loop is a step.

**Abstractions.**
* `AESCipher` counts bytes. A cipher maps its input stream to its output
  stream, so lengths decide what can be lost; whether what a decryptor is fed is
  the peer's is one flag (`evp.mismatch`), and a tag is a record of what it
  covers. OpenSSL behaviour that is modelled from how the code uses it:
  CBC holds back the incomplete block and, before padding is removed, the last
  one; a GCM context can be finished once, refuses everything afterwards, and
  after a failed comparison of tags never accepts another one; `EVP_CipherUpdate`
  without input and output is a final call (`AddNullAssociatedData`, an empty
  vector without storage given to `addAssociatedData()`).
* `MemoryStrategy` and `Bio` name a byte by its position in the order of writing.
* `Mac`, `Hash`, `Kdf`, `Signatures` and `ECIES` treat a MAC value, a digest, a
  key or a signature as a term of what it is computed from, and `ECIES` a
  ciphertext as units bound to key and position. Key agreement is abstracted to
  its outcome. Only raw ECDSA signatures are bytes, since their leading zeros
  matter.
* `CertificateAuthority` keeps of verification the signature, the CA flag, the
  two validities and one Boolean for names and extensions, chosen per request;
  `X509Verification` models verification itself.
* `X509Verification` fixes a small tree of certificates and CRLs; the state is
  the context a caller fills. OpenSSL's chain building is external.
* `Asn1Time`, `SerialNumber`, `Kdf` and `RSAEncryption` keep the widths of the
  integers as constants, scaled down in the runs.
* `PemChain` reads a text of four tokens: the two markers, white space, the rest;
  a dash occurs in the markers only. Of what stands between the lines of the
  markers OpenSSL's base64 decoder takes the part in front of the first dash.
* `Handles` keeps who owns and who points to a native object, not its content.

## Runs

Components whose state spaces are independent share a run: a variable `part`,
chosen in the initial state, says which one a behaviour exercises, and the others
keep an initial state. The state space is the sum of the parts, not their
product, and each part's invariants are checked in all of its states.

| run | parts | checks | shows |
|---|---|---|---|
| `symmetric` | `AESCipher`, `AESCipherBuilder`, `MemoryStrategy` | `OutputIsRight`, `FinishedDecryptionIsAuthentic`, `RoundTrip`, `TagCoversOutput`, `AssociatedDataPrecedesData`, `BuiltCiphersAreSound`, `RefinesByteStream` | chunking, early and failed `finish()`, retries, replaced tags and reused builders do no harm |
| `digests` | `Mac`, `Hash`, `Kdf` | `ResultCoversMessage`, `VerdictIsRight`, `DigestsAreRight`, `DerivedKeysAreRight` | also after calls that threw, copies and moves |
| `ecies` | `ECIES`, `ECIESBuilder` | `ReleasedIsSenders`, `MacCoversCiphertext`, `RejectionIsFinal`, `GenuineMessageAccepted`, `BuiltContextsAreSound` | "If the verification fails no plaintext is returned" (`ecies.h` 172); failed builds leave a usable builder |
| `issuing` | `CertificateAuthority`, `SigningParameters`, `Csr`, `DistinguishedName`, `SerialNumber` | `TypeOK`, `SerialsConsecutive`, `SerialsInRange`, `IssuedVerifiesThroughout`, `CertificateIsAsAsked`, `RequestsProveTheirKey`, `NamesSurviveEncoding`, `SerialNumbersAreExact` | two checks cover a whole validity; nothing set is lost on the way into a certificate |
| `x509_verification` | `X509Verification` | `AcceptedMeetsContract`, `ContractIsAccepted`, `ContextIsSound` | `verify()` accepts exactly what its contract says of the leaf's lists, and enforcing flags only restrict |
| `asymmetric` | `RSAEncryption`, `Signatures`, `AsymmetricKey` | `SizeCheckIsExact`, `DecryptInvertsEncrypt`, `SignaturesAreSound`, `KeysKeepTheirMeaning` | sizes at every limit, defaults of both sides, short numbers, odd passwords |
| `encodings` | `Asn1Time`, `HexCodec`, `Bio`, `PemChain` | `TimesAreExact`, `HexMeansItsBytes`, `BioKeepsBytes`, `LoopsEnd`, `ChainsAreLoadedWhole` | conversions are exact or throw, loops end whatever they are given, a list of PEMs is loaded whole |
| `openssl` | `OpenSSLWrapper`, `Handles`, `HsmEngine` | `ReturnChecksAreRight`, `OwnershipIsSound`, `EngineIsSharedSoundly` | a failure at any call is reported and leaves neither dangling nor leaked objects, and every reference has an owner |
| `aes_aad_overflow` | | `AllAssociatedDataAuthenticated`, violated | a `size_t` narrowed to `int` |
| `aes_gcm_iv_length` | | `ConfiguredIVIsUsed`, violated | the reset in the constructor drops the IV length |
| `ecies_builder_reuse` | | `DefaultCipherFitsContext`, violated | a default factory is reused for the other direction |
| `x509_revoked_intermediate` | | `NoRevokedCertificateInChain`, violated | a revoked intermediate below a trusted root is accepted: lists of CAs are only consulted if asked for |

A property of a run is often a conjunction of named parts that say one thing
about one component; the parts are defined and explained in the component's
module, its type invariant among them. Every property of a passing run has a
mutant in `PROJECT.json`, a plausible bug in the code it speaks about, under
which TLC finds it violated; the mutated forms stand beside the originals in the
modules, marked "mutation".

**Bounds.**
* `symmetric`: chunks of 0, 15, 16, 17 and 32 bytes around the block size, up to
  33 bytes in all; tag lengths 0, 12, 16 and 17 on both sides of what OpenSSL
  accepts; IVs of 0, 12 and 16 bytes; `IntMax` scaled down to 63. Three builds
  are two after a change of settings. The buffer takes 6 bytes in up to 4 blocks,
  empty ones included, with reads shorter than, equal to and longer than what is
  stored: each branch of `read()` is taken on each side of its comparison.
* `digests`: messages of three bytes in chunks of up to two, two keys; three
  updates before, between and after two digests; integers of four bits with the
  iteration counts at both ends of both ranges.
* `ecies`: two units of plaintext, four units fed to the receiver (the
  ciphertext and as much again), two keys, salts absent or present; two builds.
* `issuing`: `LongMax` scaled down to 3 so that a CA runs out of serials within
  three certificates; validities of -1, 0, 1 and 3 seconds against roots that
  begin and end before, inside and after them; names of up to two attributes,
  the same one twice included; serials of one to four bytes on both sides of
  `long` and `unsigned long`; three settings, so that an extension is replaced
  behind another one.
* `x509_verification`: a root, two intermediates and a leaf, with current,
  outdated, forged and future lists, verification at the first instant, within
  and at the end of their validities (which is outside of them), and every context
  over them.
* `asymmetric`: RSA keys that leave a padding no room, just none and one that does
  not fill its last byte, message sizes on both sides of every limit, of `int` and
  of the wrap-around of `size_t`; a curve whose order does not fill its last byte;
  passwords that are empty, hold a NUL, or exceed OpenSSL's buffer.
* `encodings`: all times and durations with a day of 4 seconds and integers of
  few bits, narrower and wider than the ranges they are compared with; all strings
  of up to four characters of an alphabet with prefix, sign, space and NUL; 8
  bytes with lines shorter and longer than the buffer; all texts of 7 tokens.
* `openssl`: every wrapper; two certificates, a list and two keys in
  three variables over four calls; three engine objects and five constructor
  calls.
The theorems lift these bounds for the modules they are about.

**Fairness.** A library does nothing until it is called, so fairness is assumed
of nothing but the inside of a call: the turns of the two flush loops of
`BioObject` and the turns of `splitPEMChain()` and the loaders. They wait for
nothing outside (a memory BIO and a file answer at once, and a text is in memory),
so once entered they go on. Under this `LoopsEnd` says that they end. No caller is
assumed ever to call again. Only `issuing` switches off deadlock checking: there
the clock is bounded, a CA whose requests are all refused really stops, and so
does a builder whose bounded settings are used up.

## Findings

The four violated runs show disagreements between code and documentation;
`PROJECT.json` quotes the lines. `AllAssociatedDataAuthenticated` holds for pieces
of associated data that fit into an `int` (proved, see below) and fails for longer
ones.

The properties of the passing runs are worded so that they hold where the code
is right; the places where the model shows the code to do something else than a
doc, a comment or a test says, besides the four runs, are:

* `openssl_wrap.cpp` 105: the settings of a curve and its encoding are checked
  with the policy that accepts 0, with which OpenSSL reports failures here
  (`openssl_wrap.h` 344 promises an exception). `FailureIsReported` leaves
  them out.
* `openssl_wrap.cpp` 547: a private key saved under a password with a NUL, or
  longer than the buffer of OpenSSL's default callback, cannot be read back with
  it (`test_key.cpp` 240). `PasswordOpens` excludes these passwords.
* `openssl_wrap.cpp` 1069: `getSerialNumberBinary()` throws for serial number
  zero, whose number of bytes is 0 (`x509.h` 113).
* `asn1time.cpp` 115: a difference involving times before 1900 cannot be added
  back, since `ASN1_TIME_adj()` refuses the sum (`asn1time.h` 81).
* `padding_mode.cpp` 207: `messageSize * 8` wraps around, so `checkMessageSize()`
  answers yes for sizes of 2^61 bytes and beyond; `encrypt()` itself refuses such
  sizes before.
* `asymmetric_crypto_ctx.cpp` 259: the `std::runtime_error` that refuses
  `DigestTypes::NONE` in a padding escapes `encrypt()`, which documents
  `MoCOCrWException` (`asymmetric_crypto_ctx.h` 46).
* `bio.cpp` 89: a flush that OpenSSL interrupts leaves bytes in the buffer it is
  documented to empty (`bio.h` 56).
* `hash.cpp` 176: after a `digest()` whose final call failed, the next one returns
  zeros (`test_hash.cpp` 466).
* `kdf.cpp` 42: an iteration count beyond `int` becomes negative, with which
  OpenSSL runs one iteration (`kdf.h` 60). `SameKeyIffSameParameters` speaks
  of counts that fit.
* `distinguished_name.cpp` 75: "This should never have a size other than 1", but a
  builder may set an attribute several times, and the reader keeps the first.
* `format_utils.h` 74: an element without an end marker swallows the next one,
  and the result is returned as one PEM (`format_utils.h` 40). The loaders then
  read the first content of it alone: of a begin marker, c1, a begin marker, c2 and
  an end marker they make one object of c1, and c2 is lost without an error
  (`x509.h` 350, `crl.h` 116). `LoadedIsTheChain` says what is loaded of every
  element, and promises the whole text for lists of PEMs only.
* `x509.cpp` 110: reformatting takes the character before the end marker for a
  line feed without looking; where there is none, content is lost.
* `key.cpp` 232: `ECCSpec::generate()` throws `MoCOCrWException`, `RSASpec`'s
  `OpenSSLException` (`key.h` 221).
* `distinguished_name.cpp` 117: two ordered names are compared by order, any other
  pair by attribute, so equality is not transitive; `EqualNamesEncodeAlike` compares
  names of one kind.
* `hsm.cpp` 31: an object overwrites the path and the PIN that another one has set
  in the engine they share, and a constructor that fails leaves its own there
  (`settings` of `HsmEngine`). Nothing is documented about it.
* `util.cpp` 52: `strtoul()` takes white space and signs, so " f", "+f" and "-1"
  are bytes (`util.h` 42).

## Proofs

Each `*Proofs` module extends the module of a run and proves what that run checks.
The theorems are of the form `Spec => []P`, for a component or, where the property
combines parts, for `MCSpec`, the specification TLC runs: a lemma `PartsRun`
shows that a behaviour of `MCSpec` is a behaviour of every part, so the invariants
are proved of the parts. All bounds are constants that the cfgs give values to;
the theorems hold for all values that satisfy the named assumptions, which TLC
evaluates on each run (sizes are natural numbers, `IntMax` exceeds a block, salts
do not contain ciphertext, limits are ordered as in the code, certificates and
CRLs are finitely many, native objects of different kinds are different, the order
of a curve fits into the bytes of its keys).
Besides the invariants there are step properties derived from them and two
refinements: `MemoryStrategy` and `Bio` implement `ByteStream`.

Where a fact needs induction over data it is proved by the principle of the least
number, which `LeastNumber` derives from the well-foundedness of `<`: operators
that recur over a number or a sequence are recursive functions, lemmas of the
`StepsExist` kind show that such a function exists, and the least position at
which a claim fails leads to a contradiction.

* `SymmetricProofs`.
  *Ciphers*: the properties need two more facts to be inductive: a tag called
  genuine is the peer's (`GenuineTagIsPeers`), and a cipher that took input is
  marked as updated (`UpdatedIsMarked`). The arithmetic of blocks sits in lemmas
  (`HeldBackBound`, `OutputGrows`, `TotalOutput`). Two theorems carry the
  hypothesis `AadFits`, each piece of associated data fits into an `int`: the
  finding shows it is needed.
  *Builder* (`BuiltCiphersSound`): draws of random IVs are numbered, and the
  invariant `BuilderIInv` adds that no cipher has a later draw than the last one and
  that the IV kept in the builder is never a draw but the caller's own.
  *Buffer* (`QueueOfBlocksIsStream`): the queue of blocks implements `ByteStream`
  (`QueueIsStream`), its count is exact (`CountExact`) and a read of n bytes
  returns what the stream returns for n (`ReadsExact`), for any number of bytes
  and blocks. The invariant adds that no more bytes are stored than were written.
  The core lemmas: flattening distributes over concatenation (`FlattenConcat`),
  and every branch of `read()` splits the contents into what it returns and what
  it leaves (`ReadDelivers`); for the loop over whole blocks this uses that the
  number of blocks it pops is the greatest that fits (`MaxLemma`). A request
  larger than all that can be written maps to the stream's read of everything.
* `DigestsProofs`.
  *MACs*: the invariant adds `AbsorbedIsFed`: what the context absorbed is what
  the caller passed to successful `update()` calls.
  *Hash* (`DigestsRight`): `HashIInv`, the context holds what was offered to it,
  and the cached digest is the one of that input (or zeros after a failed final
  call, see Findings).
  *Key derivation* (`DerivedKeysRight`): `KdfIInv`, an object keeps the parameters
  its first owner gave, through copies and moves, and every key is the derivation
  from them.
* `ECIESProofs`.
  *Contexts*: the invariant describes what the sender's context and MAC hold
  (`SenderState`), what the receiver's cipher and MAC have been fed and when they
  may differ (`ReceiverState`), and where MAC values come from (`MacOrigin`). The
  core lemma is `VerifiedIsSenders`: a verification that succeeds compared with
  the sender's value, so the receiver holds the sender's ciphertext.
  *Builder* (`BuiltContextsSound`): the builder keeps what was set, and a default
  factory is only there for a direction that was asked for; `CheckFillsGaps`
  shows that the checks before a build replace nothing that was set.
* `IssuingProofs`.
  *Certificate authority*: the inductive invariant is `TypeOK`, the three
  properties and `NothingIssuedEarly` (without a CA nothing is issued). The core
  lemmas: while a serial is accepted the counter cannot wrap
  (`IncrementedNoWrap`), and validity at both ends implies validity between
  (`EndsSuffice`).
  *Parameters* (`CertificatesAsAsked`): `ParameterIInv`, every member of the
  builder is the value of the last setter of its kind; for the extensions the
  work is in what their configuration strings mean once OpenSSL has read them
  (`ConfOfKeyUsage`, `ConfOfBasicConstraints`).
  *Requests* (`RequestsProve`): `RequestIInv`, every request, in memory or on the
  way, is of a known subject with a signature some key made, `verify()` accepts the
  valid ones and refuses the others, and making one never fails; `ValidIsMade` says
  when such a request is valid.
  *Serial numbers* (`SerialsExact`): `SerialIInv`, the last answer is about the
  serial in the certificate; `DigitsMean` shows that the digits of a number, in any
  radix and however many, mean the number.
  *Names* (`NamesSurvive`): `NameIInv`, an X509_NAME that was filled without an
  error holds the entries of its source, and what was read is what it holds. The
  core lemmas: the entries are the attributes with a value (`AddedElements`), the
  first entry of a kind has the value the name's accessor returns
  (`EntriesKeepValues`), and names with equal tuples are written alike
  (`TuplesDecide`), where a missing attribute and an empty one count the same.
* `X509VerificationProofs`: for every hierarchy of certificates and all lists of
  revocations, an accepted certificate meets the documented contract
  (`ContractMet`) and one that meets it is accepted (`ContractSuffices`). The
  invariant adds `VerdictIsOfContext`: a verdict is the one the context it was
  computed from gives. The work is in relating the chain that is built step by
  step to the existence of a path (`PathLemma`), the latest CRL of an issuer to
  the CRLs that were put in, and the anchors to the trusted certificates
  (`AnchorLemma`).
* `AsymmetricProofs`.
  *RSA encryption*: for all key, digest and message sizes and all assignments to
  shared paddings, the size check of `encrypt()` passes exactly what OpenSSL takes
  (complete for moduli of whole bytes, `CheckIsComplete`), because the `INT_MAX`
  guard keeps the multiplication by 8 from wrapping (`NoWrap`); and a ciphertext
  is decrypted by matching contexts only. The invariant adds that a ciphertext
  records the configuration it was made with (`CiphertextOK`).
  *Signatures* (`SignaturesSound`): `SignatureIInv`, a signature on record was
  made by a context with the settings it names (`MadeByContext`). The work is in
  the raw format: zeros in front of a number do not change what is read
  (`PaddingIsRead`), the two halves have the size of the key (`KeySizeIs`), so the
  numbers come back (`RawIsRead`). It assumes that the order of a curve fits into
  the key's bytes (`OrdersFit`); TLC also checks that these sizes are the ones of
  the powers of the radix (`SizesAgree`).
  *Keys* (`KeysKeepMeaning`): `KeyIInv`, a point is the one of the key it was taken
  from, with the length its form has; a PEM is of a key and under the password it was
  written with; and reading one succeeds exactly if the password opens it.
* `EncodingsProofs`.
  *Times*: sums, differences, comparisons and conversions are exact or exceptions,
  whatever the length of a day and the limits of the five integer types. Each
  property follows from a lemma on its operator; the work is in `SplitIsExact`
  (days and seconds of a truncated division add up, for both signs) and
  `GuardsAreSlack` (where the sum is a time OpenSSL can make, neither overflow
  guard of `operator+` fires, so the guards refuse nothing valid).
  *Hex* (`HexMeansBytes`): `HexIInv`, the result of a call is what `fromHex()`
  makes of its argument; the lemmas are about strings and byte vectors of any length.
  *BIOs* (`BioIsQueue`): what the caller has and what the BIO holds, in this
  order, are the bytes of the stream, so every BIO call is a read, a write or a
  stuttering step of `ByteStream`.
  *PEM chains* (`ChainsLoadedWhole`), for texts and lines of any length: the invariant
  says that the elements split off so far are, white space aside, the text up to the
  position, that the position is behind an end marker, that no element has a second
  end marker, nor a second begin marker if the text is a list of PEMs
  (`NestedIsNoList`), and that the objects loaded so far have the first contents of
  the first elements; these are the whole elements where there is no second begin
  marker (`FirstContentIs`). A refusal is then one of a text that is no list of PEMs.
  White space is dropped piece by piece (`NoSpace` flattens a sequence of pieces), so
  that dropping it distributes over concatenation, by an induction over the positions of a text
  (`TextInduction`); this also shows that reformatting a certificate into lines of
  any length keeps its contents.
* `OpenSSLProofs`.
  *Wrapper* (`ReturnChecksRight`): `WrapperIInv`, what a wrapper still has to call is a
  part of its row in the table of wrappers (`GoodRow`), and a wrapper whose call failed
  is over. That every row's policies fit the way OpenSSL reports failures is shown
  row by row.
  *Engine* (`EngineShared`): `EngineIInv`, the engine's functional references are as many as
  the live objects, its structural ones as many as the objects that hold one and the
  live ones together, and the engine runs exactly while there is a functional one.
  `SettingsIInv` adds that an object that is past a command has left a value in the
  engine, its own or a later one.
  *Ownership* (`OwnershipSound`), for any finite sets of objects and variables and
  any number of calls. `OwnershipIsSound` is not inductive: whether a function may
  use an object depends on what it did before and on who else owns the object.
  `HandlesIInv` adds three things. Every count is the number of owners
  (`HandlesCounts`). Only certain kinds have references of certain kinds
  (`HandlesShape` with `MayHold`), so that nothing owns itself by a detour and what is
  left between two calls hangs on a variable. And the rest of the running function is
  safe (`HandlesRun`): there is a set of objects that its locals, its arguments and
  each other keep alive, which contains everything that is pointed to, and in which
  the steps that are left find what they need. That the steps of a function are safe
  one after the other (`Safely`) does not depend on the state, so it is shown once per
  function, frame by frame (`VerifyIsSafe`, `EncryptOAEPIsSafe`, ...); `RunGoesOn` shows
  that what another thread does with its handles leaves it true, because an object
  with a reference on its way back and an owner is counted twice. The assumptions are
  that objects of different kinds are different and that there are control blocks
  enough for all variables.

Every invariant and every action property that a passing run checks is proved. Only
model-checked are `LoopsEnd` (liveness under fairness, which the prover does not reach)
and the four violated properties, which are false.

## Not modelled

* Cryptographic strength: keys, MACs, digests, signatures and ciphertexts are
  symbolic.
* `openssl_lib.cpp` and `openssl_lib.h` forward each call to OpenSSL so that tests
  can mock it.
* Accessors that return what OpenSSL parsed (dates, issuer and subject of a
  certificate, update times of a CRL), and the formats of PEM and DER themselves.
* `FileBio` beyond opening a file, and the contents of files.
* Allocation failures.
* The message of an `OpenSSLException`. Nothing empties OpenSSL's error queue before
  a call (`openssl_wrap.cpp` 46), so it may be the one of an earlier error.
* Plaintext read with `read()` before `finish()` has checked the tag: the
  interface offers it on purpose. A copied certificate authority issues the same
  serials as its original: that is left to its owner.
* The setters of salts and keys of the ECIES builder, which store a value that no
  check reads.

## Plan

Done: every component is modelled at least in part, and the invariants and action
properties that the runs check are proved.

Next: the composition of `CertificateAuthority` with `X509Verification` and
`SigningParameters` in one state.
