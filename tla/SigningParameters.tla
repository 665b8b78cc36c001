------------------------- MODULE SigningParameters -------------------------
(***************************************************************************)
(* CertificateSigningParameters with its builder (sign_params.h), the      *)
(* certificate extensions it carries (extension.h, key_usage.h,            *)
(* basic_constraints.h, subject_key_identifier.h) and their way through    *)
(* OpenSSL's configuration strings into a certificate (_signCertificate()  *)
(* of ca.cpp).  A string is the sequence of its comma separated words.     *)
(***************************************************************************)
EXTENDS Integers, Sequences, SequencesExt

CONSTANTS
    Usages,         \* the key usages that callers set, of the nine
    PathLengths,
    Validities, Digests,
    Times,          \* start times that callers set, and times of the clock
    MaxSettings     \* bound: calls of the setters of the builder

(* The usages that KeyUsageExtension has a flag for *)
AllUsages ==
    {"decipherOnly", "encipherOnly", "cRLSign", "keyCertSign", "keyAgreement",
     "dataEncipherment", "keyEncipherment", "nonRepudiation", "digitalSignature"}

ParametersAssumption ==
    /\ Usages \subseteq AllUsages
    /\ Validities \subseteq Int /\ Times \subseteq Int
    /\ MaxSettings \in Nat

Unset == "unset"

VARIABLES
    usages,         \* flags of the KeyUsageExtension::Builder
    extensions,     \* _extensions: what every NID has, <<>> for nothing
    validity, digest,   \* _certificateValidity and _digestType
    notBefore,      \* _notBefore, boost::optional: a sequence of at most one
    settings,       \* the setter calls so far, in order
    certificate     \* what the last signing made (<<>>: nothing, or it threw)

vars == <<usages, extensions, validity, digest, notBefore, settings, certificate>>

ExtensionNIDs == {"BasicConstraints", "KeyUsage", "SubjectKeyIdentifier"}

KeyUsage(set) == [nid |-> "KeyUsage", usages |-> set]
BasicConstraints(ca, pathlength) ==
    [nid |-> "BasicConstraints", ca |-> ca, pathlength |-> pathlength]
SubjectKeyIdentifier == [nid |-> "SubjectKeyIdentifier"]

(* KeyUsageExtension::getConfigurationString(): a word for every flag *)
Word(usage, set) == IF usage \in set THEN <<usage>> ELSE <<>>

KeyUsageConfiguration(set) ==
    <<"critical">> \o Word("decipherOnly", set) \o Word("encipherOnly", set)
        \o Word("cRLSign", set) \o Word("keyCertSign", set)
        \o Word("keyAgreement", set) \o Word("dataEncipherment", set)
        \o Word("keyEncipherment", set) \o Word("nonRepudiation", set)
        \o Word("digitalSignature", set)

(* BasicConstraintsExtension::getConfigurationString() *)
BasicConstraintsConfiguration(e) ==
    IF e.ca THEN <<"critical", "CA:TRUE", e.pathlength>> ELSE <<"critical", "CA:FALSE">>

ConfigurationString(e) ==
    CASE e.nid = "KeyUsage"             -> KeyUsageConfiguration(e.usages)
      [] e.nid = "BasicConstraints"     -> BasicConstraintsConfiguration(e)
      [] e.nid = "SubjectKeyIdentifier" -> <<"hash">>

(* OpenSSL: X509V3_EXT_conf_nid() takes the word critical off if another   *)
(* one follows, and fails for a usage it does not know.                    *)
Critical(conf) == Len(conf) > 1 /\ conf[1] = "critical"

Conf(nid, conf) ==
    LET words == IF Critical(conf) THEN Tail(conf) ELSE conf
    IN  CASE nid = "KeyUsage" ->
               IF "critical" \in ToSet(words) THEN {}
               ELSE {[nid |-> nid, critical |-> Critical(conf), usages |-> ToSet(words)]}
          [] nid = "BasicConstraints" ->
               {[nid |-> nid, critical |-> Critical(conf), ca |-> words[1] = "CA:TRUE",
                 pathlength |-> IF Len(words) = 2 THEN words[2] ELSE Unset]}
          [] nid = "SubjectKeyIdentifier" ->
               {[nid |-> nid, critical |-> Critical(conf)]}
-----------------------------------------------------------------------------
(* Builder(): _certificateValidity and _digestType have no initial value,  *)
(* and so have any.                                                        *)
Init ==
    /\ usages = {}
    /\ extensions = [nid \in ExtensionNIDs |-> <<>>]
    /\ validity \in Validities /\ digest \in Digests /\ notBefore = <<>>
    /\ settings = <<>> /\ certificate = <<>>

Setting(kind, value) ==
    /\ Len(settings) < MaxSettings
    /\ settings' = Append(settings, [kind |-> kind, value |-> value])
    /\ certificate' = <<>>

(* A setter of the KeyUsageExtension::Builder *)
SetUsage(u) ==
    /\ usages' = usages \union {u}
    /\ UNCHANGED <<extensions, validity, digest, notBefore, settings, certificate>>

(* mutation: an extension that is there is kept *)
AddExtensionOnce(e) ==
    /\ Setting(e.nid, e)
    /\ extensions' = IF extensions[e.nid] = <<>> THEN [extensions EXCEPT ![e.nid] = <<e>>]
                     ELSE extensions
    /\ UNCHANGED <<usages, validity, digest, notBefore>>

(* addExtension(), by value and by shared pointer *)
AddExtension(e) ==
    /\ Setting(e.nid, e)
    /\ extensions' = [extensions EXCEPT ![e.nid] = <<e>>]
    /\ UNCHANGED <<usages, validity, digest, notBefore>>

(* certificateValidity(), digestType() and notBeforeAsn1() of the builder *)
SetValidity(v) ==
    /\ Setting("validity", v) /\ validity' = v
    /\ UNCHANGED <<usages, extensions, digest, notBefore>>

SetDigest(d) ==
    /\ Setting("digest", d) /\ digest' = d
    /\ UNCHANGED <<usages, extensions, validity, notBefore>>

SetNotBefore(t) ==
    /\ Setting("notBefore", t) /\ notBefore' = <<t>>
    /\ UNCHANGED <<usages, extensions, validity, digest>>

(* notBeforeAsn1() of the parameters: one second before now by default *)
NotBeforeAsn1(now) == IF notBefore # <<>> THEN notBefore[1] ELSE now - 1

BuildExtension(nid) ==
    IF extensions[nid] = <<>> THEN {} ELSE Conf(nid, ConfigurationString(extensions[nid][1]))

(* buildExtension() throws for the first extension OpenSSL cannot make *)
AllBuilt == \A nid \in ExtensionNIDs : extensions[nid] # <<>> => BuildExtension(nid) # {}

(* build() and _signCertificate(): an exception leaves no certificate *)
Sign(now) ==
    /\ AllBuilt
    /\ certificate' = <<[clock |-> now, digest |-> digest,
                         notBefore |-> NotBeforeAsn1(now),
                         notAfter |-> NotBeforeAsn1(now) + validity,
                         extensions |-> UNION {BuildExtension(nid) : nid \in ExtensionNIDs}]>>
    /\ UNCHANGED <<usages, extensions, validity, digest, notBefore, settings>>

Next ==
    \/ \E u \in Usages : SetUsage(u)
    \/ AddExtension(KeyUsage(usages))
    \/ \E ca \in BOOLEAN, p \in PathLengths : AddExtension(BasicConstraints(ca, p))
    \/ AddExtension(SubjectKeyIdentifier)
    \/ \E v \in Validities : SetValidity(v)
    \/ \E d \in Digests : SetDigest(d)
    \/ \E t \in Times : SetNotBefore(t)
    \/ \E now \in Times : Sign(now)

Spec == Init /\ [][Next]_vars
-----------------------------------------------------------------------------
(* The members have their types, and an extension stands under its NID *)
TypeOK ==
    /\ usages \subseteq Usages
    /\ \A nid \in ExtensionNIDs : extensions[nid] # <<>> => extensions[nid][1].nid = nid
    /\ validity \in Validities /\ digest \in Digests
    /\ notBefore \in {<<>>} \union {<<t>> : t \in Times}
    /\ Len(settings) <= MaxSettings

(* What the caller set last of a kind: at most one value *)
LastSet(kind) ==
    LET calls == {i \in DOMAIN settings : settings[i].kind = kind}
    IN  {settings[i].value : i \in {n \in calls : \A m \in calls : m <= n}}

(* A certificate that is signed carries, for every kind of extension, what *)
(* the last extension of that kind said: all usages of the key and no      *)
(* other, marked critical, and a path length only for a CA.  An extension  *)
(* that cannot be built (a key usage without any usage) ends the signing   *)
(* and is not left out.                                                    *)
CertificateSaysWhatWasAsked ==
    certificate # <<>> =>
        LET carried == certificate[1].extensions
        IN  /\ \A e \in LastSet("KeyUsage") :
                  [nid |-> "KeyUsage", critical |-> TRUE, usages |-> e.usages] \in carried
            /\ \A e \in LastSet("BasicConstraints") :
                  \E c \in carried : /\ c.nid = "BasicConstraints"
                                     /\ c.critical /\ c.ca = e.ca
                                     /\ e.ca => c.pathlength = e.pathlength
            /\ \A e \in LastSet("SubjectKeyIdentifier") :
                  \E c \in carried : c.nid = "SubjectKeyIdentifier"
            /\ \A c \in carried : LastSet(c.nid) # {}

(* The start, the length of the validity and the digest are those set last *)
(* whatever was set in between, and the start is a second before the clock *)
(* if none was set.  Without a call of certificateValidity() or            *)
(* digestType() the certificate is signed with values nobody chose.        *)
SettingsAreUsed ==
    certificate # <<>> =>
        LET c == certificate[1]
        IN  /\ LastSet("notBefore") \in {{}, {c.notBefore}}
            /\ LastSet("notBefore") = {} => c.notBefore = c.clock - 1
            /\ LastSet("validity") \in {{}, {c.notAfter - c.notBefore}}
            /\ LastSet("digest") \in {{}, {c.digest}}
=============================================================================
