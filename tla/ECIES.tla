------------------------------- MODULE ECIES -------------------------------
(***************************************************************************)
(* ECIESEncryptionCtx and ECIESDecryptionCtx (ecies.cpp): one sender and   *)
(* one receiver whose contexts were built for the same or for different    *)
(* derived keys and MAC salts.  Between them anything may happen to        *)
(* ciphertext and MAC value.  Each context owns a symmetric cipher         *)
(* (SymmetricCipherI, whichever its factory made) and a MAC (MacImpl).     *)
(*                                                                         *)
(* A ciphertext is a sequence of units, each tied to the key and to its    *)
(* place in the message, closed by the padding.  A MAC value cannot be     *)
(* made without its key: what the receiver is given is the sender's value  *)
(* or a value that matches nothing.                                        *)
(***************************************************************************)
EXTENDS MacImpl, SequencesExt

CONSTANTS
    Bytes,          \* abstract plaintext bytes
    Keys,           \* abstract outcomes of key agreement and key derivation
    NoKey,          \* marks a unit that no key of Keys produced
    Pad,            \* stands for the padding of the last block
    MacSalts,       \* MAC salts, sequences of foreign units
    MaxPlain,       \* bound: plaintext bytes
    MaxFed,         \* bound: units fed to the receiver
    MaxChunk        \* bound: bytes or units in one update()

Unit(key, pos, byte) == [key |-> key, pos |-> pos, byte |-> byte]

Units == [key : Keys \cup {NoKey}, pos : Nat, byte : Bytes \cup {Pad}]

(* Units that are not the sender's ciphertext: bytes of a salt, noise. *)
Foreign == {Unit(NoKey, 0, byte) : byte \in Bytes}

ASSUME ECIESAssumption ==
    /\ MaxPlain \in Nat /\ MaxFed \in Nat /\ MaxChunk \in Nat
    /\ MacSalts \subseteq Seq(Foreign)
    /\ NoKey \notin Keys /\ Pad \notin Bytes

Forged == MacValue(NoKey, <<>>)     \* a value for setMAC() that matches nothing

VARIABLES
    enc,            \* ECIESEncryptionCtx::Impl
    dec,            \* ECIESDecryptionCtx::Impl
    plain,          \* history: what the sender passed to update()
    sent,           \* history: the ciphertext finish() gave the sender
    fed,            \* history: the ciphertext that update() accepted from the receiver
    released,       \* history: the plaintext finish() gave the receiver
    rejected        \* history: a MAC verification of the receiver has failed

vars == <<enc, dec, plain, sent, fed, released, rejected>>
-----------------------------------------------------------------------------
(* SymmetricCipherI as the contexts use it: update() collects the input,   *)
(* finish() gives the whole output.                                        *)
Encrypt(key, text) ==
    [i \in 1 .. Len(text) + 1 |->
        Unit(key, i, IF i <= Len(text) THEN text[i] ELSE Pad)]

Decrypt(text) == [i \in 1 .. Len(text) - 1 |-> text[i].byte]

(* Input that is not a ciphertext of the key: finish() fails on the        *)
(* padding or, when that happens to fit, returns noise.                    *)
IsCiphertext(key, text) == text # <<>> /\ text = Encrypt(key, Decrypt(text))
-----------------------------------------------------------------------------
(* The members of both contexts; createKeysAndInstantiateMacAndSymCipher   *)
(* gives MAC and cipher their parts of the derived key material.           *)
NewContext(key, macSalt) ==
    [key |-> key, macSalt |-> macSalt, input |-> <<>>, mac |-> NewMac(key),
     macValue |-> NoMac, macIsSet |-> FALSE, isFinished |-> FALSE]

Init ==
    /\ \E key \in Keys, salt \in MacSalts : enc = NewContext(key, salt)
    /\ \E key \in Keys, salt \in MacSalts : dec = NewContext(key, salt)
    /\ plain = <<>> /\ sent = <<>> /\ fed = <<>> /\ released = <<>>
    /\ rejected = FALSE

(* ECIESEncryptionCtx::update *)
EncUpdate(message) ==
    /\ Len(plain) + Len(message) <= MaxPlain
    /\ ~enc.isFinished
    /\ enc' = [enc EXCEPT !.input = @ \o message]
    /\ plain' = plain \o message
    /\ UNCHANGED <<dec, sent, fed, released, rejected>>

(* ECIESEncryptionCtx::finish: encrypt, then authenticate the ciphertext   *)
(* followed by the salt.                                                   *)
EncMacSaltFirst(ciphertext) ==     \* mutation: the salt is prepended
    MacFinished(MacUpdated(MacUpdated(enc.mac, enc.macSalt), ciphertext))

EncMac(ciphertext) ==
    MacFinished(MacUpdated(MacUpdated(enc.mac, ciphertext), enc.macSalt))

EncFinish ==
    LET ciphertext == Encrypt(enc.key, enc.input)
        mac        == EncMac(ciphertext)
    IN  /\ ~enc.isFinished
        /\ enc' = [enc EXCEPT !.mac = mac, !.macValue = mac.result, !.isFinished = TRUE]
        /\ sent' = ciphertext
        /\ UNCHANGED <<dec, plain, fed, released, rejected>>

(* ECIESDecryptionCtx::update: the cipher is fed first, then the MAC.      *)
(* After a failed finish() the MAC refuses, the cipher has been fed.       *)
DecUpdate(message) ==
    /\ Len(dec.input) + Len(message) <= MaxFed
    /\ ~dec.isFinished
    /\ \/ /\ MacUpdateOk(dec.mac)
          /\ dec' = [dec EXCEPT !.input = @ \o message,
                                !.mac = MacUpdated(@, message)]
          /\ fed' = fed \o message
       \/ /\ ~MacUpdateOk(dec.mac)
          /\ dec' = [dec EXCEPT !.input = @ \o message]
          /\ UNCHANGED fed
    /\ UNCHANGED <<enc, plain, sent, released, rejected>>

(* ECIESDecryptionCtx::setMAC *)
DecSetMAC(value) ==
    /\ dec' = [dec EXCEPT !.macValue = value, !.macIsSet = TRUE]
    /\ UNCHANGED <<enc, plain, sent, fed, released, rejected>>

(* ECIESDecryptionCtx::finish: salt, MAC, verification and only then the   *)
(* end of the decryption.                                                  *)
DecMacWithoutSalt == MacFinished(dec.mac)     \* mutation: the salt is forgotten

DecMac == MacFinished(MacUpdated(dec.mac, dec.macSalt))

DecVerifyAgain == ~dec.isFinished /\ dec.macIsSet   \* mutation: a used MAC is used again

DecReachesVerify == ~dec.isFinished /\ dec.macIsSet /\ MacUpdateOk(dec.mac)

DecUnverified == DecReachesVerify     \* mutation: verify() is not called

DecVerifies == DecReachesVerify /\ MacVerifyOk(DecMac, dec.macValue)

DecFinish(noise) ==
    /\ DecVerifies
    /\ released' = IF IsCiphertext(dec.key, dec.input) THEN Decrypt(dec.input) ELSE noise
    /\ dec' = [dec EXCEPT !.mac = DecMac, !.isFinished = TRUE]
    /\ UNCHANGED <<enc, plain, sent, fed, rejected>>

(* The verification throws: the MAC is finished, the context is not. *)
DecFinishRejects ==
    /\ DecReachesVerify
    /\ ~MacVerifyOk(DecMac, dec.macValue)
    /\ dec' = [dec EXCEPT !.mac = DecMac]
    /\ rejected' = TRUE
    /\ UNCHANGED <<enc, plain, sent, fed, released>>

(* The cipher throws on its padding, after the verification. *)
DecFinishCipherThrows ==
    /\ DecVerifies
    /\ ~IsCiphertext(dec.key, dec.input)
    /\ dec' = [dec EXCEPT !.mac = DecMac]
    /\ UNCHANGED <<enc, plain, sent, fed, released, rejected>>

(* What can reach the receiver: the sender's units in any order and number *)
(* and foreign ones; the sender's MAC value or a wrong one.                *)
Deliverable == Range(sent) \cup Foreign
Offered == {Forged} \cup IF enc.isFinished THEN {enc.macValue} ELSE {}

Next ==
    \/ \E message \in SeqOf(Bytes, MaxChunk) : EncUpdate(message)
    \/ EncFinish
    \/ \E message \in SeqOf(Deliverable, MaxChunk) : DecUpdate(message)
    \/ \E value \in Offered : DecSetMAC(value)
    \/ \E noise \in SeqOf(Bytes, 1) : DecFinish(noise)
    \/ DecFinishRejects
    \/ DecFinishCipherThrows

Spec == Init /\ [][Next]_vars
-----------------------------------------------------------------------------
MacValues == [key : Keys, message : Seq(Units)]

Contexts(Inputs) ==
    [key : Keys, macSalt : MacSalts, input : Seq(Inputs),
     mac : [key : Keys, absorbed : Seq(Units), isFinished : BOOLEAN,
            result : MacValues \cup {NoMac}],
     macValue : MacValues \cup {NoMac, Forged}, macIsSet : BOOLEAN, isFinished : BOOLEAN]

(* Both contexts keep the types of their members: in particular a MAC only *)
(* ever absorbs ciphertext and salt, and a cipher of the sender plaintext. *)
TypeOK ==
    /\ enc \in Contexts(Bytes) /\ dec \in Contexts(Units)
    /\ plain \in Seq(Bytes) /\ released \in Seq(Bytes \cup {Pad})
    /\ sent \in Seq(Units) /\ fed \in Seq(Units)
    /\ rejected \in BOOLEAN

SameParameters == enc.key = dec.key /\ enc.macSalt = dec.macSalt

(* finish() of a receiver that shares the sender's keys and salt releases  *)
(* the sender's whole plaintext or nothing: no prefix, no reordering, no   *)
(* extension, however ciphertext and MAC values were tampered with and     *)
(* whatever calls failed before ("If the verification fails no plaintext   *)
(* is returned").  A receiver with other keys releases nothing.            *)
ReleasedIsSenders ==
    dec.isFinished =>
        /\ enc.isFinished /\ enc.key = dec.key
        /\ SameParameters => released = plain

(* The MAC value of the sender covers exactly the ciphertext that finish() *)
(* returned, followed by the salt, and that is all of the plaintext.       *)
MacCoversCiphertext ==
    enc.isFinished =>
        /\ enc.macValue = MacValue(enc.key, sent \o enc.macSalt)
        /\ sent = Encrypt(enc.key, plain)

(* Once a verification has failed the context never releases anything,     *)
(* not even after setMAC() with the right value.                           *)
RejectionIsFinal == rejected => ~dec.isFinished

(* A receiver that was fed the sender's ciphertext, in any chunks, and was *)
(* given the sender's MAC value passes the verification, and the cipher    *)
(* recognises its input.                                                   *)
GenuineMessageAccepted ==
    (/\ enc.isFinished /\ SameParameters /\ fed = sent
     /\ dec.macIsSet /\ dec.macValue = enc.macValue
     /\ ~dec.isFinished /\ ~dec.mac.isFinished)
        => DecVerifies /\ IsCiphertext(dec.key, dec.input)
=============================================================================
