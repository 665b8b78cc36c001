-------------------------------- MODULE Mac --------------------------------
(***************************************************************************)
(* One HMAC or CMAC object (mac.cpp) used in any order, its MAC value then *)
(* checked by verify() against values of any origin.  The constructor has  *)
(* accepted the key.  Calls that throw and change nothing are stuttering   *)
(* steps; a verify() that throws may have finished the object and is an    *)
(* action.                                                                 *)
(***************************************************************************)
EXTENDS MacImpl, SequencesExt

CONSTANTS
    Bytes,          \* abstract message bytes
    Keys,           \* abstract keys
    MaxChunk,       \* bound: bytes in one update()
    MaxMessage      \* bound: bytes in one message

ASSUME MacAssumption == MaxChunk \in Nat /\ MaxMessage \in Nat

VARIABLES
    mac,            \* the MAC object
    fed,            \* history: the message given by the caller
    checked,        \* history: the value the last verify() was given
    verdict         \* its outcome: "none", "accepted", "rejected"

vars == <<mac, fed, checked, verdict>>

Init ==
    /\ \E key \in Keys : mac = NewMac(key)
    /\ fed = <<>>
    /\ checked = NoMac
    /\ verdict = "none"

Update(message) ==
    /\ Len(fed) + Len(message) <= MaxMessage
    /\ MacUpdateOk(mac)
    /\ mac' = MacUpdated(mac, message)
    /\ fed' = fed \o message
    /\ UNCHANGED <<checked, verdict>>

Finish ==
    /\ MacFinishOk(mac)
    /\ mac' = MacFinished(mac)
    /\ UNCHANGED <<fed, checked, verdict>>

Verify(value) ==
    /\ mac' = MacVerified(mac)
    /\ checked' = value
    /\ verdict' = IF MacVerifyOk(mac, value) THEN "accepted" ELSE "rejected"
    /\ UNCHANGED fed

Next ==
    \/ \E message \in SeqOf(Bytes, MaxChunk) : Update(message)
    \/ Finish
    \/ \E key \in Keys, message \in SeqOf(Bytes, MaxMessage) :
            Verify(MacValue(key, message))

Spec == Init /\ [][Next]_vars
-----------------------------------------------------------------------------
MacValues == [key : Keys, message : Seq(Bytes)]

(* The MAC object keeps its type: what it has absorbed is a flat sequence  *)
(* of bytes and its result, once there, is a MAC under one of the keys.    *)
TypeOK ==
    /\ mac \in [key : Keys, absorbed : Seq(Bytes), isFinished : BOOLEAN,
                result : MacValues \cup {NoMac}]
    /\ fed \in Seq(Bytes)
    /\ checked \in MacValues \cup {NoMac}
    /\ verdict \in {"none", "accepted", "rejected"}

(* A MAC value covers every chunk the caller managed to pass to update(),  *)
(* in order, and nothing else, whether finish() or verify() computed it.   *)
ResultCoversMessage ==
    mac.isFinished => mac.result = MacValue(mac.key, fed)

(* verify() accepts a value exactly when it is the MAC of the message, and *)
(* its verdict cannot be outdated by a later update().                     *)
VerdictIsRight ==
    verdict # "none" =>
        (verdict = "accepted" <=> checked = MacValue(mac.key, fed))
=============================================================================
