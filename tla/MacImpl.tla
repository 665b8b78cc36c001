------------------------------ MODULE MacImpl ------------------------------
(***************************************************************************)
(* HMAC::Impl and CMAC::Impl (mac.cpp), which differ in the key they       *)
(* accept only, as an object: a record of the members and, per method, the *)
(* condition under which it returns and the object it leaves behind.       *)
(* Messages are sequences of abstract bytes; a MAC value is the pair of    *)
(* key and message it authenticates, i.e. two messages or keys never share *)
(* a MAC value.                                                            *)
(***************************************************************************)
EXTENDS Sequences, Integers

(* HMAC refuses an empty key, CMAC a key that is not the cipher's size. *)
MacKeyOk(kind, keyLen, cipherKeyLen) ==
    \/ kind = "HMAC" /\ keyLen > 0
    \/ kind = "CMAC" /\ keyLen = cipherKeyLen

(* The value HMAC_Final or CMAC_Final computes *)
MacValue(key, message) == [key |-> key, message |-> message]
NoMac == <<>>

NewMac(key) ==
    [key |-> key, absorbed |-> <<>>, isFinished |-> FALSE, result |-> NoMac]

MacUpdateOk(m) == ~m.isFinished

(* mutation: only the last chunk is authenticated *)
MacUpdatedLastChunk(m, message) == [m EXCEPT !.absorbed = message]

MacUpdated(m, message) == [m EXCEPT !.absorbed = @ \o message]

MacFinishOk(m) == ~m.isFinished

MacFinished(m) ==
    [m EXCEPT !.result = MacValue(m.key, m.absorbed), !.isFinished = TRUE]

(* mutation: verify() does not finish first *)
MacNotFinished(m) == m

(* verify(): finishes first when needed, then compares; when it throws,    *)
(* the object stays finished.                                              *)
MacVerified(m) == IF m.isFinished THEN m ELSE MacFinished(m)
MacVerifyOk(m, value) == MacVerified(m).result = value
=============================================================================
