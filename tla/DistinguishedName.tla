------------------------- MODULE DistinguishedName -------------------------
(***************************************************************************)
(* DistinguishedName and its two builders: what a name keeps, when two     *)
(* names are equal, and the way to an X509_NAME and back.  An attribute    *)
(* value is a sequence of characters; the properties need its length.      *)
(***************************************************************************)
EXTENDS Naturals, Sequences, SequencesExt

CONSTANTS
    Slots,              \* names being built
    NIDs, Values,       \* attributes that callers set
    MaxAttributes       \* bound: calls of setters on one builder

(* Attributes in the order populateX509Name() adds them *)
FixedOrder ==
    <<"CommonName", "CountryName", "LocalityName", "StateOrProvinceName",
      "OrganizationalUnitName", "OrganizationName", "Pkcs9EmailAddress",
      "SerialNumber", "GivenName", "UserId", "Title">>

NameAssumption ==
    /\ NIDs \subseteq ToSet(FixedOrder) /\ MaxAttributes \in Nat
    /\ \A v \in Values : Len(v) \in Nat

VARIABLES
    dn,         \* _customAttributeOrderFlag and _attributes of every name
    name,       \* X509_NAME that populateX509Name() filled last
    source,     \* the name it was filled from (empty sequence: none, or it failed)
    loaded,     \* what fromX509Name() made of it (empty sequence: not called)
    exception   \* whether the last call threw

vars == <<dn, name, source, loaded, exception>>

Attribute(nid, value) == [id |-> nid, name |-> value]

(* _getAttributeByNID(): the last occurrence, as a sequence of at most one *)
GetAttributeByNID(d, nid) ==
    LET found == {i \in DOMAIN d.attributes : d.attributes[i].id = nid}
    IN  IF found = {} THEN <<>>
        ELSE <<d.attributes[CHOOSE i \in found : \A j \in found : j <= i]>>

(* The accessors commonName() ... title(): an empty string if not set *)
GetAttributeByNIDAsString(d, nid) ==
    LET a == GetAttributeByNID(d, nid) IN IF a = <<>> THEN <<>> ELSE a[1].name

(* mutation: the tuple lacks the country *)
CreateTupleWithoutCountry(d) ==
    [nid \in ToSet(FixedOrder) \ {"CountryName"} |-> GetAttributeByNIDAsString(d, nid)]

CreateTuple(d) ==
    [nid \in ToSet(FixedOrder) |-> GetAttributeByNIDAsString(d, nid)]

(* operator== *)
Equal(d, e) ==
    IF d.custom /\ e.custom THEN d.attributes = e.attributes
    ELSE CreateTuple(d) = CreateTuple(e)

(* OpenSSL: a country name has two characters.  The length limits of the   *)
(* other attributes are left out.                                          *)
EntryAccepted(a) == a.id = "CountryName" => Len(a.name) = 2

(* _addString() skips an attribute that is missing or empty. *)
AddString(x509, attribute) ==
    IF attribute = <<>> \/ attribute[1].name = <<>> THEN x509
    ELSE Append(x509, attribute[1])

(* The attributes that populateX509Name() passes to it, in their order *)
Offered(d) ==
    IF d.custom THEN [i \in 1 .. Len(d.attributes) |-> <<d.attributes[i]>>]
    ELSE [i \in 1 .. Len(FixedOrder) |-> GetAttributeByNID(d, FixedOrder[i])]

Added(offered) ==
    LET upTo[i \in 0 .. Len(offered)] ==
            IF i = 0 THEN <<>> ELSE AddString(upTo[i - 1], offered[i])
    IN  upTo[Len(offered)]

Entries(d) == Added(Offered(d))

(* _getEntryByNIDAsString(): all indices are looked up, the first is taken *)
Indices(x509, nid) == {i \in 1 .. Len(x509) : x509[i].id = nid}

EntryByNIDAsString(x509, nid) ==
    LET indices == Indices(x509, nid)
    IN  IF indices = {} THEN <<>>
        ELSE x509[CHOOSE i \in indices : \A j \in indices : i <= j].name

(* fromX509Name(): the default builder, with every attribute set *)
FromX509Name(x509) ==
    [custom |-> FALSE,
     attributes |-> [i \in 1 .. Len(FixedOrder) |->
         Attribute(FixedOrder[i], EntryByNIDAsString(x509, FixedOrder[i]))]]
-----------------------------------------------------------------------------
(* Builder() or CustomOrderBuilder() *)
Init ==
    /\ dn \in [Slots -> {[custom |-> c, attributes |-> <<>>] : c \in BOOLEAN}]
    /\ name = <<>> /\ source = <<>> /\ loaded = <<>> /\ exception = FALSE

(* A setter of the builder: nothing is replaced, the value is appended *)
SetAttribute(s, nid, value) ==
    /\ Len(dn[s].attributes) < MaxAttributes
    /\ LET refused == nid = "CountryName" /\ Len(value) > 2
       IN  /\ exception' = refused
           /\ dn' = IF refused THEN dn
                    ELSE [dn EXCEPT ![s].attributes = Append(@, Attribute(nid, value))]
    /\ UNCHANGED <<name, source, loaded>>

(* populateX509Name(): the first entry OpenSSL refuses ends it, and leaves *)
(* the entries before it in the X509_NAME.                                 *)
PopulateX509Name(s) ==
    LET entries == Entries(dn[s])
        bad     == {i \in 1 .. Len(entries) : ~EntryAccepted(entries[i])}
    IN  /\ exception' = (bad # {})
        /\ name' = IF bad = {} THEN entries
                   ELSE SubSeq(entries, 1, (CHOOSE i \in bad : \A j \in bad : i <= j) - 1)
        /\ source' = (IF bad = {} THEN <<dn[s]>> ELSE <<>>) /\ loaded' = <<>>
        /\ UNCHANGED dn

(* The owner of a complete X509_NAME reads it: getSubjectDistinguishedName *)
(* and its like                                                            *)
LoadX509Name ==
    /\ source # <<>>
    /\ exception' = FALSE
    /\ loaded' = <<FromX509Name(name)>>
    /\ UNCHANGED <<dn, name, source>>

Next ==
    \/ \E s \in Slots, nid \in NIDs, v \in Values : SetAttribute(s, nid, v)
    \/ \E s \in Slots : PopulateX509Name(s)
    \/ LoadX509Name

Spec == Init /\ [][Next]_vars
-----------------------------------------------------------------------------
(* Every name keeps at most the attributes that were set, and no country   *)
(* of more than two characters; an X509_NAME has no empty entry.           *)
TypeOK ==
    /\ \A s \in Slots :
        /\ dn[s].custom \in BOOLEAN /\ Len(dn[s].attributes) <= MaxAttributes
        /\ \A i \in DOMAIN dn[s].attributes :
            LET a == dn[s].attributes[i]
            IN  a.id \in NIDs /\ (a.id = "CountryName" => Len(a.name) <= 2)
    /\ \A i \in DOMAIN name : name[i].name # <<>>
    /\ exception \in BOOLEAN

SetOnce(d) ==
    \A i, j \in DOMAIN d.attributes :
        d.attributes[i].id = d.attributes[j].id => i = j

(* A name that is written to a certificate or request and read back is     *)
(* equal to the original, for the default builder whatever was set twice,  *)
(* for the custom order if nothing was.                                    *)
RoundTrip ==
    loaded # <<>> /\ (~source[1].custom \/ SetOnce(source[1])) =>
        Equal(loaded[1], source[1])

(* Equal names of one kind give the same X509_NAME, in which OpenSSL's     *)
(* comparison sees no difference either: operator== never calls two names  *)
(* equal that certificates tell apart.                                     *)
EqualNamesEncodeAlike ==
    \A s, t \in Slots :
        dn[s].custom = dn[t].custom /\ Equal(dn[s], dn[t]) =>
            Entries(dn[s]) = Entries(dn[t])
=============================================================================
