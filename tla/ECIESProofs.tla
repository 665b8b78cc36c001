---------------------------- MODULE ECIESProofs ----------------------------
(***************************************************************************)
(* Proofs about ECIES: the contexts for every set of bytes, keys and       *)
(* salts, messages of any length and any interference with ciphertext and  *)
(* MAC, then the builder for any number of builds.                         *)
(***************************************************************************)
EXTENDS MCECIES, SequenceTheorems, TLAPS

MacObject ==
    [key : Keys, absorbed : Seq(Units), isFinished : BOOLEAN,
     result : MacValues \cup {NoMac}]

(* The sender's MAC is untouched until finish(). *)
SenderState ==
    /\ enc.input = plain /\ enc.mac.key = enc.key
    /\ ~enc.isFinished =>
          enc.mac.absorbed = <<>> /\ ~enc.mac.isFinished /\ sent = <<>>

(* Until it is finished the receiver's MAC has absorbed what the cipher    *)
(* has been fed; a verification, failed or not, finishes it for good.      *)
ReceiverState ==
    /\ dec.mac.key = dec.key
    /\ ~dec.mac.isFinished => dec.mac.absorbed = fed /\ dec.input = fed
    /\ dec.isFinished => dec.mac.isFinished
    /\ rejected => dec.mac.isFinished

(* The receiver only ever holds the sender's MAC value or a wrong one. *)
MacOrigin ==
    dec.macIsSet => \/ dec.macValue = Forged
                    \/ enc.isFinished /\ dec.macValue = enc.macValue

(* The inductive invariant. *)
IInv ==
    /\ TypeOK
    /\ SenderState /\ MacCoversCiphertext
    /\ ReceiverState /\ MacOrigin
    /\ ReleasedIsSenders /\ RejectionIsFinal
-----------------------------------------------------------------------------
(* A chunk of bounded length is a sequence.                                *)
LEMMA BoundedSeqIsSeq ==
    ASSUME NEW S, NEW n \in Nat, NEW s \in SeqOf(S, n)
    PROVE  s \in Seq(S)
BY DEF SeqOf

(* A MAC salt is a sequence of units, like a ciphertext.                   *)
LEMMA SaltType ==
    ASSUME NEW salt \in MacSalts
    PROVE  salt \in Seq(Units)
<1>1. salt \in Seq(Foreign)
  BY ECIESAssumption
<1>2. Foreign \subseteq Units
  BY DEF Foreign, Unit, Units
<1> QED
  BY <1>1, <1>2, SeqMonotonic

(* Encryption makes a well-formed ciphertext that decryption inverts. *)
LEMMA EncryptDecrypt ==
    ASSUME NEW key \in Keys, NEW text \in Seq(Bytes)
    PROVE  /\ Encrypt(key, text) \in Seq(Units)
           /\ Encrypt(key, text) # <<>>
           /\ Decrypt(Encrypt(key, text)) = text
           /\ IsCiphertext(key, Encrypt(key, text))
<1> DEFINE c == Encrypt(key, text)
<1>1. Len(text) \in Nat /\ \A i \in 1 .. Len(text) : text[i] \in Bytes
  OBVIOUS
<1>2. \A i \in 1 .. Len(text) + 1 :
        Unit(key, i, IF i <= Len(text) THEN text[i] ELSE Pad) \in Units
  BY <1>1 DEF Unit, Units
<1>3. c \in [1 .. Len(text) + 1 -> Units]
  BY <1>2 DEF Encrypt
<1>4. c \in Seq(Units) /\ Len(c) = Len(text) + 1
  <2>1. Len(text) + 1 \in Nat
    BY <1>1
  <2> HIDE DEF c
  <2> QED
    BY <1>3, <2>1
<1>5. c # <<>>
  <2>1. Len(<<>>) = 0
    OBVIOUS
  <2> HIDE DEF c
  <2> QED
    BY <1>1, <1>4, <2>1
<1>6. Decrypt(c) = text
  <2>1. Decrypt(c) = [i \in 1 .. Len(text) |-> c[i].byte]
    <3>1. Len(c) - 1 = Len(text)
      BY <1>1, <1>4
    <3> QED
      BY <3>1 DEF Decrypt
  <2>2. \A i \in 1 .. Len(text) : c[i].byte = text[i]
    BY <1>1 DEF Encrypt, Unit
  <2>3. Decrypt(c) = [i \in 1 .. Len(text) |-> text[i]]
    BY <2>1, <2>2
  <2>4. text = [i \in 1 .. Len(text) |-> text[i]]
    OBVIOUS
  <2> QED
    BY <2>3, <2>4
<1> QED
  BY <1>4, <1>5, <1>6 DEF IsCiphertext

(* Different keys or messages have different MAC values. *)
LEMMA MacValueInjective ==
    ASSUME NEW k, NEW k2, NEW m, NEW m2, MacValue(k, m) = MacValue(k2, m2)
    PROVE  k = k2 /\ m = m2
<1>1. MacValue(k, m).key = k /\ MacValue(k2, m2).key = k2
  BY DEF MacValue
<1>2. MacValue(k, m).message = m /\ MacValue(k2, m2).message = m2
  BY DEF MacValue
<1> QED
  BY <1>1, <1>2

(* Finishing a MAC gives the value of what it has absorbed. *)
LEMMA FinishedMac ==
    ASSUME NEW m \in MacObject, NEW a \in Seq(Units)
    PROVE  /\ MacFinished(MacUpdated(m, a)) \in MacObject
           /\ MacFinished(MacUpdated(m, a)).isFinished
           /\ MacFinished(MacUpdated(m, a)).key = m.key
           /\ MacFinished(MacUpdated(m, a)).result = MacValue(m.key, m.absorbed \o a)
           /\ MacUpdated(m, a) \in MacObject
           /\ MacUpdated(m, a).key = m.key
           /\ MacUpdated(m, a).absorbed = m.absorbed \o a
           /\ MacUpdated(m, a).isFinished = m.isFinished
<1>1. m.absorbed \o a \in Seq(Units) /\ m.key \in Keys
  BY DEF MacObject
<1>2. MacValue(m.key, m.absorbed \o a) \in MacValues
  BY <1>1 DEF MacValue, MacValues
<1>3. /\ MacUpdated(m, a) = [m EXCEPT !.absorbed = m.absorbed \o a]
      /\ MacUpdated(m, a) \in MacObject
      /\ MacUpdated(m, a).key = m.key
      /\ MacUpdated(m, a).absorbed = m.absorbed \o a
      /\ MacUpdated(m, a).isFinished = m.isFinished
  BY <1>1 DEF MacUpdated, MacObject
<1> HIDE DEF MacUpdated
<1>4. MacFinished(MacUpdated(m, a)) =
        [MacUpdated(m, a) EXCEPT !.result = MacValue(m.key, m.absorbed \o a),
                                 !.isFinished = TRUE]
  BY <1>3 DEF MacFinished
<1>5. /\ MacFinished(MacUpdated(m, a)) \in MacObject
      /\ MacFinished(MacUpdated(m, a)).isFinished
      /\ MacFinished(MacUpdated(m, a)).key = m.key
      /\ MacFinished(MacUpdated(m, a)).result = MacValue(m.key, m.absorbed \o a)
  BY <1>2, <1>3, <1>4 DEF MacObject
<1> QED
  BY <1>3, <1>5

(* The constructors give every member its type.                            *)
LEMMA NewContextType ==
    ASSUME NEW key \in Keys, NEW salt \in MacSalts, NEW Inputs
    PROVE  NewContext(key, salt) \in Contexts(Inputs)
BY DEF NewContext, NewMac, NoMac, Contexts

(* Two fresh contexts satisfy the invariant.                               *)
LEMMA InitInv == Init => IInv
<1> SUFFICES ASSUME Init PROVE IInv
  OBVIOUS
<1>1. PICK key \in Keys, salt \in MacSalts : enc = NewContext(key, salt)
  BY DEF Init
<1>2. PICK key2 \in Keys, salt2 \in MacSalts : dec = NewContext(key2, salt2)
  BY DEF Init
<1>3. TypeOK
  <2>1. enc \in Contexts(Bytes)
    BY <1>1, NewContextType
  <2>2. dec \in Contexts(Units)
    BY <1>2, NewContextType
  <2>3. \A S : <<>> \in Seq(S)
    BY EmptySeq
  <2>4. /\ plain \in Seq(Bytes) /\ released \in Seq(Bytes \cup {Pad})
        /\ sent \in Seq(Units) /\ fed \in Seq(Units) /\ rejected \in BOOLEAN
    BY <2>3 DEF Init
  <2> QED
    BY <2>1, <2>2, <2>4 DEF TypeOK
<1>4. /\ enc.input = <<>> /\ enc.mac.key = enc.key /\ ~enc.isFinished
      /\ enc.mac.absorbed = <<>> /\ ~enc.mac.isFinished
  BY <1>1 DEF NewContext, NewMac
<1>5. /\ dec.input = <<>> /\ dec.mac.key = dec.key /\ ~dec.isFinished /\ ~dec.macIsSet
      /\ dec.mac.absorbed = <<>> /\ ~dec.mac.isFinished
  BY <1>2 DEF NewContext, NewMac
<1> QED
  BY <1>3, <1>4, <1>5 DEF Init, IInv, SenderState, MacCoversCiphertext, ReceiverState,
     MacOrigin, ReleasedIsSenders, RejectionIsFinal

(* The types of the parts of both contexts. *)
LEMMA Parts ==
    ASSUME TypeOK
    PROVE  /\ enc.key \in Keys /\ enc.macSalt \in Seq(Units) /\ enc.input \in Seq(Bytes)
           /\ enc.mac \in MacObject
           /\ dec.key \in Keys /\ dec.macSalt \in Seq(Units) /\ dec.input \in Seq(Units)
           /\ dec.mac \in MacObject
BY SaltType DEF TypeOK, Contexts, MacObject

(* ECIESEncryptionCtx::update preserves the invariant.                     *)
LEMMA EncUpdateInv ==
    ASSUME IInv, NEW message \in Seq(Bytes), EncUpdate(message)
    PROVE  IInv'
<1>1. /\ enc' = [enc EXCEPT !.input = enc.input \o message] /\ ~enc.isFinished
      /\ plain' = plain \o message /\ UNCHANGED <<dec, sent, fed, released, rejected>>
  BY DEF EncUpdate
<1>2. enc.input \o message \in Seq(Bytes) /\ plain \o message \in Seq(Bytes)
  BY Parts DEF IInv, TypeOK
<1>3. /\ enc' \in Contexts(Bytes) /\ enc'.input = enc.input \o message
      /\ enc'.mac = enc.mac /\ enc'.key = enc.key /\ enc'.macSalt = enc.macSalt
      /\ enc'.macValue = enc.macValue /\ enc'.isFinished = enc.isFinished
  BY <1>1, <1>2 DEF IInv, TypeOK, Contexts
<1>4. TypeOK'
  BY <1>1, <1>2, <1>3 DEF IInv, TypeOK
<1>5. SenderState' /\ MacCoversCiphertext'
  BY <1>1, <1>3 DEF IInv, SenderState, MacCoversCiphertext
<1>6. ReceiverState' /\ MacOrigin' /\ RejectionIsFinal'
  BY <1>1, <1>3 DEF IInv, ReceiverState, MacOrigin, RejectionIsFinal
<1>7. ReleasedIsSenders'
  BY <1>1, <1>3 DEF IInv, ReleasedIsSenders
<1> QED
  BY <1>4, <1>5, <1>6, <1>7 DEF IInv

(* ECIESEncryptionCtx::finish preserves the invariant.                     *)
LEMMA EncFinishInv ==
    ASSUME IInv, EncFinish
    PROVE  IInv'
<1> DEFINE c == Encrypt(enc.key, enc.input)
           m == EncMac(c)
<1>1. /\ enc' = [enc EXCEPT !.mac = m, !.macValue = m.result, !.isFinished = TRUE]
      /\ ~enc.isFinished /\ sent' = c
      /\ UNCHANGED <<dec, plain, fed, released, rejected>>
  BY DEF EncFinish
<1>2. /\ enc.key \in Keys /\ enc.macSalt \in Seq(Units) /\ enc.input \in Seq(Bytes)
      /\ enc.mac \in MacObject /\ enc.mac.absorbed = <<>> /\ enc.mac.key = enc.key
      /\ enc.input = plain
  BY <1>1, Parts DEF IInv, SenderState
<1>3. c \in Seq(Units)
  BY <1>2, EncryptDecrypt
<1>4. /\ m \in MacObject /\ m.key = enc.key
      /\ m.result = MacValue(enc.key, c \o enc.macSalt)
  <2> HIDE DEF c
  <2> DEFINE u == MacUpdated(enc.mac, c)
  <2>1. /\ u \in MacObject /\ u.key = enc.key /\ u.absorbed = <<>> \o c
    BY <1>2, <1>3, FinishedMac, ZenonT(30)
  <2>2. u.absorbed = c
    BY <1>3, <2>1, ConcatEmptySeq
  <2>3. m = MacFinished(MacUpdated(u, enc.macSalt))
    BY DEF EncMac
  <2> HIDE DEF u, m
  <2> QED
    BY <1>2, <2>1, <2>2, <2>3, FinishedMac
<1> HIDE DEF c, m
<1>5. MacValue(enc.key, c \o enc.macSalt) \in MacValues
  BY <1>2, <1>3 DEF MacValue, MacValues
<1>6. /\ enc' \in Contexts(Bytes) /\ enc'.isFinished /\ enc'.input = enc.input
      /\ enc'.mac = m /\ enc'.key = enc.key /\ enc'.macSalt = enc.macSalt
      /\ enc'.macValue = MacValue(enc.key, c \o enc.macSalt)
  BY <1>1, <1>4, <1>5 DEF IInv, TypeOK, Contexts, MacObject
<1>7. TypeOK'
  BY <1>1, <1>3, <1>6 DEF IInv, TypeOK
<1>8. SenderState' /\ MacCoversCiphertext'
  BY <1>1, <1>2, <1>4, <1>6 DEF IInv, SenderState, MacCoversCiphertext, c
<1>9. ReceiverState' /\ MacOrigin' /\ RejectionIsFinal'
  BY <1>1 DEF IInv, ReceiverState, MacOrigin, RejectionIsFinal
<1>10. ReleasedIsSenders'
  BY <1>1 DEF IInv, ReleasedIsSenders
<1> QED
  BY <1>7, <1>8, <1>9, <1>10 DEF IInv
-----------------------------------------------------------------------------
(* The receiver. *)

(* ECIESDecryptionCtx::update preserves the invariant, also after a failed *)
(* finish().                                                               *)
LEMMA DecUpdateInv ==
    ASSUME IInv, NEW message \in Seq(Units), DecUpdate(message)
    PROVE  IInv'
<1>1. /\ ~dec.isFinished /\ UNCHANGED <<enc, plain, sent, released, rejected>>
  BY DEF DecUpdate
<1>2. /\ dec.mac \in MacObject /\ dec.input \o message \in Seq(Units)
      /\ fed \o message \in Seq(Units)
  BY Parts DEF IInv, TypeOK
<1>3. PICK m \in MacObject :
        /\ dec' = [dec EXCEPT !.input = dec.input \o message, !.mac = m]
        /\ m.key = dec.mac.key /\ m.isFinished = dec.mac.isFinished
        /\ IF dec.mac.isFinished THEN fed' = fed
           ELSE fed' = fed \o message /\ m.absorbed = dec.mac.absorbed \o message
  <2>1. CASE ~dec.mac.isFinished
    <3>1. dec' = [dec EXCEPT !.input = dec.input \o message,
                             !.mac = MacUpdated(dec.mac, message)]
      BY <2>1 DEF DecUpdate, MacUpdateOk
    <3>2. fed' = fed \o message
      BY <2>1 DEF DecUpdate, MacUpdateOk
    <3>3. /\ MacUpdated(dec.mac, message) \in MacObject
          /\ MacUpdated(dec.mac, message).key = dec.mac.key
          /\ MacUpdated(dec.mac, message).absorbed = dec.mac.absorbed \o message
          /\ MacUpdated(dec.mac, message).isFinished = dec.mac.isFinished
      BY <1>2, FinishedMac
    <3> HIDE DEF MacUpdated
    <3> QED
      BY <2>1, <3>1, <3>2, <3>3
  <2>2. CASE dec.mac.isFinished
    <3>1. dec' = [dec EXCEPT !.input = dec.input \o message] /\ fed' = fed
      BY <2>2 DEF DecUpdate, MacUpdateOk
    <3>2. dec' = [dec EXCEPT !.input = dec.input \o message, !.mac = dec.mac]
      BY <3>1 DEF IInv, TypeOK, Contexts
    <3> QED
      BY <1>2, <2>2, <3>1, <3>2
  <2> QED
    BY <2>1, <2>2
<1>4. /\ dec' \in Contexts(Units) /\ dec'.input = dec.input \o message
      /\ dec'.mac = m /\ dec'.key = dec.key /\ dec'.macSalt = dec.macSalt
      /\ dec'.macValue = dec.macValue /\ dec'.macIsSet = dec.macIsSet
      /\ dec'.isFinished = dec.isFinished
  BY <1>2, <1>3 DEF IInv, TypeOK, Contexts, MacObject
<1>5. TypeOK'
  <2>1. fed' \in Seq(Units)
    BY <1>2, <1>3 DEF IInv, TypeOK
  <2> QED
    BY <1>1, <1>4, <2>1 DEF IInv, TypeOK
<1>6. SenderState' /\ MacCoversCiphertext'
  BY <1>1 DEF IInv, SenderState, MacCoversCiphertext
<1>7. ReceiverState'
  BY <1>1, <1>3, <1>4 DEF IInv, ReceiverState
<1>8. MacOrigin' /\ RejectionIsFinal' /\ ReleasedIsSenders'
  BY <1>1, <1>4 DEF IInv, MacOrigin, RejectionIsFinal, ReleasedIsSenders
<1> QED
  BY <1>5, <1>6, <1>7, <1>8 DEF IInv

(* ECIESDecryptionCtx::setMAC preserves the invariant.                     *)
LEMMA DecSetMACInv ==
    ASSUME IInv, NEW value \in Offered, DecSetMAC(value)
    PROVE  IInv'
<1>1. value = Forged \/ (enc.isFinished /\ value = enc.macValue)
  BY DEF Offered
<1>2. value \in MacValues \cup {NoMac, Forged}
  BY <1>1 DEF IInv, TypeOK, Contexts
<1>3. /\ dec' = [dec EXCEPT !.macValue = value, !.macIsSet = TRUE]
      /\ UNCHANGED <<enc, plain, sent, fed, released, rejected>>
  BY DEF DecSetMAC
<1>4. /\ dec' \in Contexts(Units) /\ dec'.input = dec.input
      /\ dec'.mac = dec.mac /\ dec'.key = dec.key /\ dec'.macSalt = dec.macSalt
      /\ dec'.macValue = value /\ dec'.macIsSet /\ dec'.isFinished = dec.isFinished
  BY <1>2, <1>3 DEF IInv, TypeOK, Contexts
<1>5. TypeOK' /\ SenderState' /\ MacCoversCiphertext'
  BY <1>3, <1>4 DEF IInv, TypeOK, SenderState, MacCoversCiphertext
<1>6. ReceiverState' /\ MacOrigin' /\ RejectionIsFinal'
  BY <1>1, <1>3, <1>4 DEF IInv, ReceiverState, MacOrigin, RejectionIsFinal
<1>7. ReleasedIsSenders'
  BY <1>3, <1>4 DEF IInv, ReleasedIsSenders, SameParameters
<1> QED
  BY <1>5, <1>6, <1>7 DEF IInv

(* The MAC of the receiver's finish(). *)
LEMMA DecMacValue ==
    ASSUME IInv, DecReachesVerify
    PROVE  /\ ~dec.isFinished /\ dec.macIsSet /\ ~dec.mac.isFinished
           /\ dec.input = fed /\ fed \in Seq(Units)
           /\ DecMac \in MacObject /\ DecMac.isFinished /\ DecMac.key = dec.key
           /\ DecMac.result = MacValue(dec.key, fed \o dec.macSalt)
<1>1. ~dec.isFinished /\ dec.macIsSet /\ ~dec.mac.isFinished
  BY DEF DecReachesVerify, MacUpdateOk
<1>2. dec.mac.absorbed = fed /\ dec.input = fed /\ dec.mac.key = dec.key
  BY <1>1 DEF IInv, ReceiverState
<1>3. dec.mac \in MacObject /\ dec.macSalt \in Seq(Units) /\ fed \in Seq(Units)
  BY Parts DEF IInv, TypeOK
<1>4. /\ DecMac \in MacObject /\ DecMac.isFinished /\ DecMac.key = dec.mac.key
      /\ DecMac.result = MacValue(dec.mac.key, dec.mac.absorbed \o dec.macSalt)
  BY <1>3, FinishedMac DEF DecMac
<1> QED
  BY <1>1, <1>2, <1>3, <1>4

(* A verification that succeeds has been given the sender's value, so the  *)
(* receiver holds the sender's ciphertext.                                 *)
LEMMA VerifiedIsSenders ==
    ASSUME IInv, DecVerifies
    PROVE  /\ enc.isFinished /\ enc.key = dec.key
           /\ SameParameters => /\ IsCiphertext(dec.key, dec.input)
                                /\ Decrypt(dec.input) = plain
<1>1. DecReachesVerify /\ DecMac.isFinished /\ MacVerifyOk(DecMac, dec.macValue)
  BY DecMacValue DEF DecVerifies
<1>2. dec.macValue = MacValue(dec.key, fed \o dec.macSalt)
  BY <1>1, DecMacValue DEF MacVerifyOk, MacVerified
<1>3. dec.macIsSet /\ dec.key \in Keys /\ enc.key \in Keys /\ enc.macSalt \in Seq(Units)
  BY <1>1, DecMacValue, Parts DEF IInv
<1>4. dec.macValue # Forged
  BY <1>2, <1>3, ECIESAssumption DEF MacValue, Forged
<1>5. enc.isFinished /\ dec.macValue = MacValue(enc.key, sent \o enc.macSalt)
      /\ sent = Encrypt(enc.key, plain)
  BY <1>3, <1>4 DEF IInv, MacOrigin, MacCoversCiphertext
<1>6. enc.key = dec.key /\ fed \o dec.macSalt = sent \o enc.macSalt
  <2> DEFINE ours == fed \o dec.macSalt
             theirs == sent \o enc.macSalt
  <2>1. MacValue(dec.key, ours) = MacValue(enc.key, theirs)
    BY <1>2, <1>5
  <2> HIDE DEF ours, theirs
  <2>2. dec.key = enc.key /\ ours = theirs
    BY <2>1, MacValueInjective
  <2> QED
    BY <2>2 DEF ours, theirs
<1>7. ASSUME SameParameters
      PROVE  IsCiphertext(dec.key, dec.input) /\ Decrypt(dec.input) = plain
  <2>1. fed \in Seq(Units) /\ sent \in Seq(Units) /\ plain \in Seq(Bytes)
    BY DEF IInv, TypeOK
  <2>2. fed = sent
    BY <1>3, <1>6, <1>7, <2>1, ConcatSimplifications DEF SameParameters
  <2>3. dec.input = Encrypt(dec.key, plain)
    BY <1>1, <1>5, <1>6, <2>2, DecMacValue
  <2> QED
    BY <1>3, <2>1, <2>3, EncryptDecrypt
<1> QED
  BY <1>5, <1>6, <1>7

(* An ECIESDecryptionCtx::finish that returns preserves the invariant.     *)
LEMMA DecFinishInv ==
    ASSUME IInv, NEW noise \in Seq(Bytes), DecFinish(noise)
    PROVE  IInv'
<1>1. /\ DecVerifies /\ DecReachesVerify
      /\ dec' = [dec EXCEPT !.mac = DecMac, !.isFinished = TRUE]
      /\ UNCHANGED <<enc, plain, sent, fed, rejected>>
  BY DEF DecFinish, DecVerifies
<1>2. /\ ~dec.mac.isFinished /\ DecMac \in MacObject /\ DecMac.isFinished
      /\ DecMac.key = dec.key
  BY <1>1, DecMacValue
<1>3. /\ dec' \in Contexts(Units) /\ dec'.input = dec.input /\ dec'.mac = DecMac
      /\ dec'.key = dec.key /\ dec'.macSalt = dec.macSalt /\ dec'.isFinished
      /\ dec'.macValue = dec.macValue /\ dec'.macIsSet = dec.macIsSet
  BY <1>1, <1>2 DEF IInv, TypeOK, Contexts, MacObject
<1>4. TypeOK'
  <2>1. released' \in Seq(Bytes \cup {Pad})
    <3>1. CASE IsCiphertext(dec.key, dec.input)
      <4>1. dec.input \in Seq(Units) /\ dec.input # <<>>
        BY <3>1, Parts DEF IInv, IsCiphertext
      <4>2. Len(dec.input) - 1 \in Nat
        BY <4>1, EmptySeq
      <4>3. \A i \in 1 .. Len(dec.input) - 1 : dec.input[i].byte \in Bytes \cup {Pad}
        <5>1. \A i \in 1 .. Len(dec.input) - 1 : dec.input[i] \in Units
          BY <4>1, <4>2, ElementOfSeq
        <5>2. \A u \in Units : u.byte \in Bytes \cup {Pad}
          BY DEF Units
        <5> QED
          BY <5>1, <5>2
      <4>4. Decrypt(dec.input) \in Seq(Bytes \cup {Pad})
        BY <4>2, <4>3 DEF Decrypt
      <4> QED
        BY <3>1, <4>4 DEF DecFinish
    <3>2. CASE ~IsCiphertext(dec.key, dec.input)
      <4>1. noise \in Seq(Bytes \cup {Pad})
        BY SeqMonotonic
      <4> QED
        BY <3>2, <4>1 DEF DecFinish
    <3> QED
      BY <3>1, <3>2
  <2> QED
    BY <1>1, <1>3, <2>1 DEF IInv, TypeOK
<1>5. SenderState' /\ MacCoversCiphertext'
  BY <1>1 DEF IInv, SenderState, MacCoversCiphertext
<1>6. ReceiverState' /\ MacOrigin' /\ RejectionIsFinal'
  BY <1>1, <1>2, <1>3 DEF IInv, ReceiverState, MacOrigin, RejectionIsFinal
<1>7. ReleasedIsSenders'
  <2>1. /\ enc.isFinished /\ enc.key = dec.key
        /\ SameParameters => IsCiphertext(dec.key, dec.input) /\ Decrypt(dec.input) = plain
    BY <1>1, VerifiedIsSenders
  <2>2. SameParameters => released' = plain
    BY <2>1 DEF DecFinish
  <2>3. SameParameters' = SameParameters
    BY <1>1, <1>3 DEF SameParameters
  <2> QED
    BY <1>1, <1>3, <2>1, <2>2, <2>3 DEF ReleasedIsSenders
<1> QED
  BY <1>4, <1>5, <1>6, <1>7 DEF IInv

(* A finish() that throws after the MAC was used, whichever check failed.  *)
LEMMA DecThrowsInv ==
    ASSUME IInv, DecReachesVerify, dec' = [dec EXCEPT !.mac = DecMac],
           rejected' \in BOOLEAN, UNCHANGED <<enc, plain, sent, fed, released>>
    PROVE  IInv'
<1>1. /\ ~dec.isFinished /\ DecMac \in MacObject /\ DecMac.isFinished
      /\ DecMac.key = dec.key
  BY DecMacValue
<1>2. /\ dec' \in Contexts(Units) /\ dec'.input = dec.input /\ dec'.mac = DecMac
      /\ dec'.key = dec.key /\ dec'.macSalt = dec.macSalt
      /\ dec'.isFinished = dec.isFinished
      /\ dec'.macValue = dec.macValue /\ dec'.macIsSet = dec.macIsSet
  BY <1>1 DEF IInv, TypeOK, Contexts, MacObject
<1>3. TypeOK'
  BY <1>2 DEF IInv, TypeOK
<1>4. SenderState' /\ MacCoversCiphertext'
  BY DEF IInv, SenderState, MacCoversCiphertext
<1>5. ReceiverState' /\ MacOrigin'
  BY <1>1, <1>2 DEF IInv, ReceiverState, MacOrigin
<1>6. ReleasedIsSenders' /\ RejectionIsFinal'
  BY <1>1, <1>2 DEF ReleasedIsSenders, RejectionIsFinal
<1> QED
  BY <1>3, <1>4, <1>5, <1>6 DEF IInv

(* Every step preserves the invariant.                                     *)
LEMMA NextInv == IInv /\ [Next]_vars => IInv'
<1> SUFFICES ASSUME IInv, [Next]_vars PROVE IInv'
  OBVIOUS
<1>1. ASSUME NEW message \in SeqOf(Bytes, MaxChunk), EncUpdate(message) PROVE IInv'
  <2>1. message \in Seq(Bytes)
    BY BoundedSeqIsSeq, ECIESAssumption
  <2> QED
    BY <1>1, <2>1, EncUpdateInv
<1>2. CASE EncFinish
  BY <1>2, EncFinishInv
<1>3. ASSUME NEW message \in SeqOf(Deliverable, MaxChunk), DecUpdate(message) PROVE IInv'
  <2>1. Deliverable \subseteq Units
    <3>1. sent \in Seq(Units)
      BY DEF IInv, TypeOK
    <3>2. Range(sent) \subseteq Units
      BY <3>1 DEF Range
    <3>3. Foreign \subseteq Units
      BY DEF Foreign, Unit, Units
    <3> QED
      BY <3>2, <3>3 DEF Deliverable
  <2>2. message \in Seq(Deliverable)
    BY BoundedSeqIsSeq, ECIESAssumption
  <2>3. message \in Seq(Units)
    BY <2>1, <2>2, SeqMonotonic
  <2> QED
    BY <1>3, <2>3, DecUpdateInv
<1>4. ASSUME NEW value \in Offered, DecSetMAC(value) PROVE IInv'
  BY <1>4, DecSetMACInv
<1>5. ASSUME NEW noise \in SeqOf(Bytes, 1), DecFinish(noise) PROVE IInv'
  <2>1. noise \in Seq(Bytes)
    BY BoundedSeqIsSeq
  <2> QED
    BY <1>5, <2>1, DecFinishInv
<1>6. CASE DecFinishRejects
  BY <1>6, DecThrowsInv DEF DecFinishRejects
<1>7. CASE DecFinishCipherThrows
  <2>1. rejected' \in BOOLEAN
    BY <1>7 DEF DecFinishCipherThrows, IInv, TypeOK
  <2> QED
    BY <1>7, <2>1, DecThrowsInv DEF DecFinishCipherThrows, DecVerifies
<1>8. CASE UNCHANGED vars
  BY <1>8 DEF vars, IInv, TypeOK, SenderState, MacCoversCiphertext, ReceiverState,
     MacOrigin, ReleasedIsSenders, RejectionIsFinal, SameParameters
<1> QED
  BY <1>1, <1>2, <1>3, <1>4, <1>5, <1>6, <1>7, <1>8 DEF Next
-----------------------------------------------------------------------------
(* Every reachable state satisfies the inductive invariant. *)
THEOREM Invariance == Spec => []IInv
BY InitInv, NextInv, PTL DEF Spec

(* ECIESDecryptionCtx::finish releases the sender's plaintext or nothing,  *)
(* whatever is done to ciphertext and MAC and whatever failed before.      *)
THEOREM OnlySendersPlaintext == Spec => []ReleasedIsSenders
BY Invariance, PTL DEF IInv

(* The sender's MAC value covers all ciphertext and the salt.              *)
THEOREM MacCoversAll == Spec => []MacCoversCiphertext
BY Invariance, PTL DEF IInv

(* After a failed verification a context never releases anything.          *)
THEOREM RejectionsAreFinal == Spec => []RejectionIsFinal
BY Invariance, PTL DEF IInv

(* The sender's own message and MAC value pass the receiver's checks.      *)
THEOREM GenuineIsAccepted == Spec => []GenuineMessageAccepted
<1>1. IInv => GenuineMessageAccepted
  <2> SUFFICES ASSUME IInv, enc.isFinished, SameParameters, fed = sent, dec.macIsSet,
                      dec.macValue = enc.macValue, ~dec.isFinished, ~dec.mac.isFinished
               PROVE  DecVerifies /\ IsCiphertext(dec.key, dec.input)
    BY DEF GenuineMessageAccepted
  <2>1. DecReachesVerify
    BY DEF DecReachesVerify, MacUpdateOk
  <2>2. DecMac.isFinished /\ DecMac.result = MacValue(dec.key, fed \o dec.macSalt)
    BY <2>1, DecMacValue
  <2>3. DecMac.result = dec.macValue
    BY <2>2 DEF IInv, MacCoversCiphertext, SameParameters
  <2>4. DecVerifies
    BY <2>1, <2>2, <2>3 DEF DecVerifies, MacVerifyOk, MacVerified
  <2> QED
    BY <2>4, VerifiedIsSenders
<1> QED
  BY <1>1, Invariance, PTL
-----------------------------------------------------------------------------
(***************************************************************************)
(* The builder.  The inductive invariant adds that a default cipher in the *)
(* builder works in a direction a context was asked for.                   *)
(***************************************************************************)

Members == {"kdf", "macFactory", "macKeySize", "cipherFactory", "symmetricKeySize"}

BuilderIInv ==
    /\ Builder!TypeOK
    /\ Builder!CallerSettingsKept
    /\ bParams.cipherFactory \in {"none", "custom"} \cup bAsked
    /\ Builder!BuiltContextsComplete
    /\ Builder!OneDirectionBuildsFit

(* q has every member that is set in p. *)
Fills(q, p) == \A m \in Members : p[m] # Builder!NotSet[m] => q[m] = p[m]

(* checkForRequiredParameters() keeps the types, overwrites nothing that   *)
(* is set, and the only cipher it can put in is one of its own direction.  *)
LEMMA CheckFillsGaps ==
    ASSUME NEW p \in Builder!Parameters, NEW mode \in Builder!Mode
    PROVE  LET q == Builder!CheckedParameters(p, mode) IN
           /\ q \in Builder!Parameters
           /\ Fills(q, p)
           /\ q.cipherFactory \in {p.cipherFactory, mode}
           /\ Builder!CheckOk(p) =>
                /\ q.kdf # "none" /\ q.macFactory # "none" /\ q.cipherFactory # "none"
                /\ q.macKeySize # 0 /\ q.symmetricKeySize # 0
  <1> DEFINE k == Builder!SetDefaultKdf(p)
             a == Builder!SetDefaultMac(k)
             c == Builder!SetDefaultSymmetricCipherFactoryFunction(a, mode)
  <1>1. /\ k \in Builder!Parameters
        /\ k.kdf = IF p.kdf = "none" THEN "default" ELSE p.kdf
        /\ k.macFactory = p.macFactory /\ k.macKeySize = p.macKeySize
        /\ k.cipherFactory = p.cipherFactory /\ k.symmetricKeySize = p.symmetricKeySize
    BY DEF Builder!SetDefaultKdf, Builder!Parameters
  <1> HIDE DEF k
  <1>2. ASSUME Builder!MacComplete(p)
        PROVE  /\ a \in Builder!Parameters
               /\ a.kdf = k.kdf /\ a.macFactory # "none" /\ a.macKeySize # 0
               /\ p.macFactory # "none" =>
                    a.macFactory = p.macFactory /\ a.macKeySize = p.macKeySize
               /\ p.macKeySize # 0 =>
                    a.macFactory = p.macFactory /\ a.macKeySize = p.macKeySize
               /\ a.cipherFactory = p.cipherFactory /\ a.symmetricKeySize = p.symmetricKeySize
    <2>1. CASE p.macFactory # "none" /\ p.macKeySize # 0
      BY <1>1, <2>1 DEF Builder!SetDefaultMac
    <2>2. CASE p.macFactory = "none" /\ p.macKeySize = 0
      <3>1. a = [k EXCEPT !.macFactory = "default", !.macKeySize = 64]
        BY <1>1, <2>2 DEF Builder!SetDefaultMac, Builder!DefaultMacKeySize
      <3> HIDE DEF a
      <3>2. /\ a \in Builder!Parameters /\ a.kdf = k.kdf
            /\ a.macFactory = "default" /\ a.macKeySize = 64
            /\ a.cipherFactory = k.cipherFactory /\ a.symmetricKeySize = k.symmetricKeySize
        BY <1>1, <3>1 DEF Builder!Parameters
      <3> QED
        BY <1>1, <2>2, <3>2
    <2> QED
      BY <1>2, <2>1, <2>2 DEF Builder!MacComplete
  <1> HIDE DEF a
  <1>3. ASSUME Builder!MacComplete(p), Builder!CipherComplete(p)
        PROVE  /\ c \in Builder!Parameters
               /\ c.kdf = a.kdf /\ c.macFactory = a.macFactory /\ c.macKeySize = a.macKeySize
               /\ c.cipherFactory # "none" /\ c.symmetricKeySize # 0
               /\ c.cipherFactory \in {p.cipherFactory, mode}
               /\ p.cipherFactory # "none" => c.cipherFactory = p.cipherFactory
               /\ p.symmetricKeySize # 0 => c.symmetricKeySize = p.symmetricKeySize
    <2>0. a \in Builder!Parameters /\ a.cipherFactory = p.cipherFactory
          /\ a.symmetricKeySize = p.symmetricKeySize
      BY <1>2, <1>3
    <2>1. CASE p.cipherFactory # "none" /\ p.symmetricKeySize # 0
      BY <2>0, <2>1 DEF Builder!SetDefaultSymmetricCipherFactoryFunction
    <2>2. CASE p.cipherFactory = "none" /\ p.symmetricKeySize = 0
      <3>1. c = [a EXCEPT !.cipherFactory = mode, !.symmetricKeySize = 32]
        BY <2>0, <2>2 DEF Builder!SetDefaultSymmetricCipherFactoryFunction,
                          Builder!DefaultSymmetricKeySize
      <3> HIDE DEF c
      <3>2. /\ c \in Builder!Parameters /\ c.kdf = a.kdf
            /\ c.macFactory = a.macFactory /\ c.macKeySize = a.macKeySize
            /\ c.cipherFactory = mode /\ c.symmetricKeySize = 32
        BY <2>0, <3>1 DEF Builder!Parameters
      <3> QED
        BY <2>2, <3>2 DEF Builder!Mode
    <2> QED
      BY <1>3, <2>1, <2>2 DEF Builder!CipherComplete
  <1> HIDE DEF c
  <1> DEFINE q == Builder!CheckedParameters(p, mode)
  <1>4. CASE ~Builder!MacComplete(p)
    <2>1. q = k
      BY <1>4 DEF Builder!CheckedParameters, Builder!CheckOk, k
    <2> HIDE DEF q
    <2> QED
      BY <1>1, <1>4, <2>1 DEF Fills, Members, Builder!NotSet, Builder!CheckOk, q
  <1>5. CASE Builder!MacComplete(p) /\ ~Builder!CipherComplete(p)
    <2>1. q = a
      BY <1>5 DEF Builder!CheckedParameters, Builder!CheckOk, k, a
    <2> HIDE DEF q
    <2> QED
      BY <1>1, <1>2, <1>5, <2>1 DEF Fills, Members, Builder!NotSet, Builder!CheckOk, q
  <1>6. CASE Builder!CheckOk(p)
    <2>1. Builder!MacComplete(p) /\ Builder!CipherComplete(p)
      BY <1>6 DEF Builder!CheckOk
    <2>2. q = c
      BY <1>6, <2>1 DEF Builder!CheckedParameters, Builder!CheckOk, k, a, c
    <2>3. k.kdf # "none"
      BY <1>1
    <2> HIDE DEF q
    <2> QED
      BY <1>1, <1>2, <1>3, <2>1, <2>2, <2>3 DEF Fills, Members, Builder!NotSet, q
  <1> QED
    BY <1>4, <1>5, <1>6 DEF Builder!CheckOk

(* Completing the parameters, in a build that returns and in one that      *)
(* throws, keeps what the caller set.                                      *)
LEMMA CheckKeepsCaller ==
    ASSUME BuilderIInv, NEW mode \in Builder!Mode,
           bParams' = Builder!CheckedParameters(bParams, mode),
           bAsked' = bAsked \cup {mode}, bCaller' = bCaller
    PROVE  /\ bParams' \in Builder!Parameters
           /\ bAsked' \subseteq Builder!Mode
           /\ Builder!CallerSettingsKept'
           /\ bParams'.cipherFactory \in {"none", "custom"} \cup bAsked'
  <1>1. /\ bParams \in Builder!Parameters /\ bCaller \in Builder!Parameters
        /\ bAsked \subseteq Builder!Mode
    BY DEF BuilderIInv, Builder!TypeOK
  <1>2. /\ bParams' \in Builder!Parameters /\ Fills(bParams', bParams)
        /\ bParams'.cipherFactory \in {bParams.cipherFactory, mode}
    BY <1>1, CheckFillsGaps
  <1>3. DOMAIN bCaller = Members
    BY <1>1 DEF Builder!Parameters, Members
  <1>4. Builder!CallerSettingsKept'
    BY <1>2, <1>3 DEF BuilderIInv, Builder!CallerSettingsKept, Fills
  <1> QED
    BY <1>1, <1>2, <1>4 DEF BuilderIInv

(* A build that returns keeps the invariant. *)
LEMMA BuildKeeps ==
    ASSUME BuilderIInv, NEW mode \in Builder!Mode, Builder!Build(mode)
    PROVE  BuilderIInv'
  <1> DEFINE p == Builder!CheckedParameters(bParams, mode)
             b == [mode |-> mode, params |-> p]
             Built == [mode : Builder!Mode, params : Builder!Parameters]
  <1>1. /\ Builder!CheckOk(bParams) /\ Builder!ContextOk(p) /\ bParams' = p
        /\ bAsked' = bAsked \cup {mode} /\ bBuilt' = Append(bBuilt, b) /\ bCaller' = bCaller
    BY DEF Builder!Build
  <1>2. /\ bParams \in Builder!Parameters /\ bCaller \in Builder!Parameters
        /\ bBuilt \in Seq(Built)
    BY DEF BuilderIInv, Builder!TypeOK
  <1>3. /\ p \in Builder!Parameters /\ bAsked' \subseteq Builder!Mode
        /\ Builder!CallerSettingsKept'
        /\ p.cipherFactory \in {"none", "custom"} \cup bAsked'
    BY <1>1, CheckKeepsCaller
  <1>4. /\ p.kdf # "none" /\ p.macFactory # "none" /\ p.cipherFactory # "none"
        /\ p.macKeySize # 0 /\ p.symmetricKeySize # 0
    BY <1>1, <1>2, CheckFillsGaps
  <1>5. p.cipherFactory # "custom" => p.symmetricKeySize = Builder!DefaultSymmetricKeySize
    BY <1>1, <1>3, <1>4 DEF Builder!ContextOk, Builder!Parameters
  <1>6. b \in Built /\ b.mode = mode /\ b.params = p
    BY <1>3
  <1> HIDE DEF p, b, Built
  <1>7. /\ bBuilt' \in Seq(Built) /\ DOMAIN bBuilt = 1 .. Len(bBuilt)
        /\ DOMAIN bBuilt' = 1 .. Len(bBuilt) + 1 /\ Len(bBuilt) \in Nat
        /\ \A i \in 1 .. Len(bBuilt) : bBuilt'[i] = bBuilt[i]
        /\ bBuilt'[Len(bBuilt) + 1] = b
    BY <1>1, <1>2, <1>6, AppendProperties
  <1>8. \A i \in DOMAIN bBuilt' : \/ i \in DOMAIN bBuilt /\ bBuilt'[i] = bBuilt[i]
                                  \/ bBuilt'[i] = b
    BY <1>7
  <1>9. Builder!TypeOK'
    BY <1>1, <1>2, <1>3, <1>7 DEF Builder!TypeOK, Built
  <1>10. Builder!BuiltContextsComplete'
    <2>1. p.macKeySize > 0 /\ p.symmetricKeySize > 0
      BY <1>3, <1>4 DEF Builder!Parameters
    <2> QED
      BY <1>4, <1>5, <1>6, <1>8, <2>1 DEF BuilderIInv, Builder!BuiltContextsComplete
  <1>11. Builder!OneDirectionBuildsFit'
    <2> SUFFICES ASSUME NEW d \in Builder!Mode, bAsked' \subseteq {d}, NEW i \in DOMAIN bBuilt'
                 PROVE  Builder!Fits(bBuilt'[i])
      BY DEF Builder!OneDirectionBuildsFit
    <2>1. bAsked \subseteq {d} /\ mode = d
      BY <1>1
    <2>2. CASE i \in DOMAIN bBuilt /\ bBuilt'[i] = bBuilt[i]
      BY <2>1, <2>2 DEF BuilderIInv, Builder!OneDirectionBuildsFit
    <2>3. CASE bBuilt'[i] = b
      BY <1>3, <1>4, <1>6, <2>1, <2>3 DEF Builder!Fits
    <2> QED
      BY <1>8, <2>2, <2>3
  <1> QED
    BY <1>1, <1>3, <1>9, <1>10, <1>11 DEF BuilderIInv

(* A setter keeps the invariant. *)
LEMMA SetKeeps ==
    ASSUME BuilderIInv, NEW member \in Members, NEW value, Builder!Set(member, value),
           member = "kdf" => value \in {"none", "custom"},
           member = "macFactory" => value \in {"none", "custom"},
           member = "cipherFactory" => value \in {"none", "custom"},
           member \in {"macKeySize", "symmetricKeySize"} => value \in Nat
    PROVE  BuilderIInv'
  <1>1. /\ bParams' = [bParams EXCEPT ![member] = value]
        /\ bCaller' = [bCaller EXCEPT ![member] = value]
        /\ UNCHANGED <<bAsked, bBuilt>>
    BY DEF Builder!Set
  <1>2. /\ bParams \in Builder!Parameters /\ bCaller \in Builder!Parameters
        /\ bAsked \subseteq Builder!Mode
    BY DEF BuilderIInv, Builder!TypeOK
  <1>3. /\ DOMAIN bParams = Members /\ DOMAIN bCaller = Members /\ DOMAIN bCaller' = Members
    BY <1>1, <1>2 DEF Builder!Parameters, Members
  <1>4. /\ bParams'[member] = value /\ bCaller'[member] = value
        /\ \A m \in Members \ {member} : bParams'[m] = bParams[m] /\ bCaller'[m] = bCaller[m]
    BY <1>1, <1>3
  <1>5. bParams' \in Builder!Parameters /\ bCaller' \in Builder!Parameters
    BY <1>1, <1>2 DEF Builder!Parameters, Members
  <1>6. Builder!CallerSettingsKept'
    <2> SUFFICES ASSUME NEW m \in Members, bCaller'[m] # Builder!NotSet[m]
                 PROVE  bParams'[m] = bCaller'[m]
      BY <1>3 DEF Builder!CallerSettingsKept
    <2> QED
      BY <1>3, <1>4 DEF BuilderIInv, Builder!CallerSettingsKept
  <1>7. bParams'.cipherFactory \in {"none", "custom"} \cup bAsked'
    <2>1. CASE member = "cipherFactory"
      BY <1>4, <2>1
    <2>2. CASE member # "cipherFactory"
      <3>1. bParams'.cipherFactory = bParams.cipherFactory
        BY <1>4, <2>2 DEF Members
      <3> QED
        BY <1>1, <3>1 DEF BuilderIInv
    <2> QED
      BY <2>1, <2>2
  <1> QED
    BY <1>1, <1>5, <1>6, <1>7 DEF BuilderIInv, Builder!TypeOK, Builder!BuiltContextsComplete,
                                  Builder!OneDirectionBuildsFit

(* The builder's invariant is inductive. *)
LEMMA BuilderInvariance == Builder!Spec => []BuilderIInv
  <1>1. Builder!Init => BuilderIInv
    <2> SUFFICES ASSUME Builder!Init PROVE BuilderIInv
      OBVIOUS
    <2>1. bBuilt = <<>> /\ DOMAIN bBuilt = {}
          /\ bBuilt \in Seq([mode : Builder!Mode, params : Builder!Parameters])
      BY EmptySeq DEF Builder!Init
    <2>2. bParams \in Builder!Parameters /\ bCaller = bParams /\ bAsked = {}
          /\ bParams.cipherFactory = "none"
      BY DEF Builder!Init, Builder!NotSet, Builder!Parameters
    <2> QED
      BY <2>1, <2>2 DEF BuilderIInv, Builder!TypeOK, Builder!CallerSettingsKept,
                        Builder!BuiltContextsComplete, Builder!OneDirectionBuildsFit
  <1>2. BuilderIInv /\ [Builder!Next]_(Builder!vars) => BuilderIInv'
    <2> SUFFICES ASSUME BuilderIInv, [Builder!Next]_(Builder!vars) PROVE BuilderIInv'
      OBVIOUS
    <2>1. ASSUME NEW f \in {"none", "custom"},
                 \/ Builder!SetKDF(f)
                 \/ Builder!SetMacFactoryFunction(f)
                 \/ Builder!SetSymmetricCipherFactoryFunction(f)
          PROVE  BuilderIInv'
      <3>1. PICK m \in {"kdf", "macFactory", "cipherFactory"} : Builder!Set(m, f)
        BY <2>1 DEF Builder!SetKDF, Builder!SetMacFactoryFunction,
                    Builder!SetSymmetricCipherFactoryFunction
      <3> QED
        BY <3>1, SetKeeps DEF Members
    <2>2. ASSUME NEW size \in KeySizes,
                 Builder!SetMacKeySize(size) \/ Builder!SetSymmetricCipherKeySize(size)
          PROVE  BuilderIInv'
      <3>1. size \in Nat
        BY BuilderSizesAssumption DEF Builder!ECIESBuilderAssumption
      <3>2. PICK m \in {"macKeySize", "symmetricKeySize"} : Builder!Set(m, size)
        BY <2>2 DEF Builder!SetMacKeySize, Builder!SetSymmetricCipherKeySize
      <3> QED
        BY <3>1, <3>2, SetKeeps DEF Members
    <2>3. ASSUME NEW mode \in Builder!Mode, Builder!Build(mode) PROVE BuilderIInv'
      BY <2>3, BuildKeeps
    <2>4. ASSUME NEW mode \in Builder!Mode, NEW keysThrow \in BOOLEAN,
                 Builder!BuildThrows(mode, keysThrow)
          PROVE  BuilderIInv'
      <3>1. /\ bParams' = Builder!CheckedParameters(bParams, mode)
            /\ bAsked' = bAsked \cup {mode} /\ UNCHANGED <<bCaller, bBuilt>>
        BY <2>4 DEF Builder!BuildThrows
      <3>2. /\ bParams' \in Builder!Parameters
            /\ bAsked' \subseteq Builder!Mode
            /\ Builder!CallerSettingsKept'
            /\ bParams'.cipherFactory \in {"none", "custom"} \cup bAsked'
        BY <3>1, CheckKeepsCaller
      <3>3. Builder!OneDirectionBuildsFit'
        BY <3>1 DEF BuilderIInv, Builder!OneDirectionBuildsFit
      <3>4. Builder!BuiltContextsComplete' /\ Builder!TypeOK'
        BY <3>1, <3>2 DEF BuilderIInv, Builder!BuiltContextsComplete, Builder!TypeOK
      <3> QED
        BY <3>2, <3>3, <3>4 DEF BuilderIInv
    <2>5. CASE UNCHANGED Builder!vars
      BY <2>5 DEF Builder!vars, BuilderIInv, Builder!TypeOK, Builder!CallerSettingsKept,
                  Builder!BuiltContextsComplete, Builder!OneDirectionBuildsFit
    <2> QED
      BY <2>1, <2>2, <2>3, <2>4, <2>5 DEF Builder!Next
  <1> QED
    BY <1>1, <1>2, PTL DEF Builder!Spec
-----------------------------------------------------------------------------
(* A behaviour of the whole is one of the contexts and one of the builder. *)
LEMMA PartsRun == MCSpec => Spec /\ Builder!Spec
  <1>1. MCInit => Init /\ Builder!Init
    BY DEF MCInit
  <1>2. [MCNext]_mcvars => [Next]_vars
    BY DEF MCNext, mcvars
  <1>3. [MCNext]_mcvars => [Builder!Next]_(Builder!vars)
    BY DEF MCNext, mcvars, builderVars, Builder!vars
  <1> QED
    BY <1>1, <1>2, <1>3, PTL DEF MCSpec, Spec, Builder!Spec

(* ECIESCtxBuilder: what the caller set is what the contexts use, no       *)
(* context is built without one of its functions, and a builder that is    *)
(* asked for contexts of one direction gives each the cipher of that       *)
(* direction, through any order of setters and of builds, failed or not.   *)
THEOREM BuiltContextsSound == MCSpec => []BuiltContextsAreSound
  <1>1. BuilderIInv => BuiltContextsAreSound
    BY DEF BuilderIInv, BuiltContextsAreSound
  <1> QED
    BY <1>1, PartsRun, BuilderInvariance, PTL
=============================================================================
