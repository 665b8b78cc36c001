------------------------------ MODULE PemChain ------------------------------
(***************************************************************************)
(* Reading PEM text: splitPEMChain() (format_utils.h), the reformatting of *)
(* a certificate and fromPEM() (x509.cpp), and loadPEMChain() and          *)
(* loadCrlPEMChain() over them.  Text is a sequence of tokens: the begin   *)
(* marker "B", the end marker "E", a line feed "n" for all white space and *)
(* "x" for everything else but a dash, which is in the markers only.  A    *)
(* position counts from 0 as in std::string.                               *)
(***************************************************************************)
EXTENDS Naturals, Sequences, SequencesExt

CONSTANTS
    MaxLength,      \* bound: tokens of a text
    LineLength,     \* characters of a reformatted line (64 in the code)
    SizeMod         \* size_t is an integer modulo SizeMod

PemAssumption ==
    /\ MaxLength \in Nat /\ LineLength \in Nat \ {0}
    /\ SizeMod \in Nat /\ SizeMod > 4 * MaxLength

VARIABLES
    kind,           \* the call: "certificates", "crls" or a "single" fromPEM()
    text,           \* its argument
    pos, pemList,   \* of splitPEMChain(); index is Len(pemList)
    loaded,         \* contents of the objects that were read
    outcome         \* "split", then "load", then "returned" or "threw"

vars == <<kind, text, pos, pemList, loaded, outcome>>

Tokens == {"B", "E", "n", "x"}
Npos == SizeMod - 1
Plus(a, b) == (a + b) % SizeMod
Minus(a, b) == (a + SizeMod - b) % SizeMod

(* std::string: find() and find_first_not_of() from a position, substr() *)
First(found) == IF found = {} THEN Npos ELSE CHOOSE i \in found : \A j \in found : i <= j

Find(s, token, from) == First({i \in 0 .. Len(s) - 1 : i >= from /\ s[i + 1] = token})

FindNoSpace(s, from) == First({i \in 0 .. Len(s) - 1 : i >= from /\ s[i + 1] # "n"})

Substr(s, from, count) ==
    SubSeq(s, from + 1, IF from + count > Len(s) THEN Len(s) ELSE from + count)

(* What the copies of the code that skip white space leave of s *)
NoSpace(s) ==
    FlattenSeq([i \in 1 .. Len(s) |-> IF s[i] = "n" THEN <<>> ELSE <<s[i]>>])

(* find_last_not_of() and the erase() after it *)
TrimRight(s) ==
    SubSeq(s, 1, CHOOSE n \in 0 .. Len(s) : /\ n > 0 => s[n] # "n"
                                            /\ \A i \in n + 1 .. Len(s) : s[i] = "n")
-----------------------------------------------------------------------------
Throw == outcome' = "threw" /\ UNCHANGED <<pos, pemList>>

(* mutation: the loop goes on over white space at the end *)
TailIsSpaceLoops == UNCHANGED outcome

(* The break: nothing but white space follows the last element *)
TailIsSpace == outcome' = "load"

(* pos for the next turn of the loop: behind the end marker *)
NextPos(end) == end + 1

OnlySpace(from, to) == \A i \in from + 1 .. to : text[i] = "n"

(* One turn of the loop of splitPEMChain() *)
SplitStep ==
    /\ outcome = "split" /\ pos < Len(text)
    /\ \E begin \in {Find(text, "B", pos)} :
       \E body  \in {FindNoSpace(text, begin + 1)} :
       \E end   \in {Find(text, "E", body)} :
       \E pem   \in {TrimRight(Substr(text, body, end - body))} :
           \/ /\ begin = Npos
              /\ IF FindNoSpace(text, pos) # Npos THEN Throw
                 ELSE TailIsSpace /\ UNCHANGED <<pos, pemList>>
           \/ /\ begin # Npos
              /\ ~OnlySpace(pos, begin) \/ end = Npos
              /\ Throw
           \/ /\ begin # Npos /\ OnlySpace(pos, begin) /\ end # Npos
              /\ IF pem = <<>> THEN Throw
                 ELSE /\ pemList' = Append(pemList, <<"B", "n">> \o pem \o <<"n", "E">>)
                      /\ pos' = NextPos(end)
                      /\ UNCHANGED outcome
    /\ UNCHANGED <<kind, text, loaded>>

(* The loop ends at the end of the text *)
SplitEnd ==
    /\ outcome = "split" /\ pos >= Len(text)
    /\ outcome' = "load"
    /\ UNCHANGED <<kind, text, pos, pemList, loaded>>
-----------------------------------------------------------------------------
(* A line feed after every LineLength characters, except the last *)
SplitLines(base64) ==
    FlattenSeq([i \in 1 .. Len(base64) |->
        IF i % LineLength = 0 /\ i < Len(base64) THEN <<base64[i], "n">>
        ELSE <<base64[i]>>])

(* mutation: the content starts one character late *)
ReformatPEMCertificateLate(pem) ==
    LET endBeginMarker == Plus(Find(pem, "B", 0), 1)
        startEndMarker == Find(pem, "E", endBeginMarker)
        base64 == NoSpace(Substr(pem, endBeginMarker + 2,
                                 Minus(Minus(startEndMarker, endBeginMarker), 3)))
    IN  IF startEndMarker = Npos THEN pem
        ELSE Substr(pem, 0, endBeginMarker) \o <<"n">> \o SplitLines(base64)
                \o <<"n">> \o Substr(pem, startEndMarker, Len(pem))

(* reformatPEMCertificate(): the end of a begin marker that is not there   *)
(* is computed from npos, and never is npos itself; the character before   *)
(* the end marker is taken for a line feed and left out.                   *)
ReformatPEMCertificate(pem) ==
    LET endBeginMarker == Plus(Find(pem, "B", 0), 1)
        startEndMarker == Find(pem, "E", endBeginMarker)
        base64 == NoSpace(Substr(pem, endBeginMarker,
                                 Minus(Minus(startEndMarker, endBeginMarker), 1)))
    IN  IF endBeginMarker = Npos \/ startEndMarker = Npos THEN pem
        ELSE Substr(pem, 0, endBeginMarker) \o <<"n">> \o SplitLines(base64)
                \o <<"n">> \o Substr(pem, startEndMarker, Len(pem))

(* OpenSSL: PEM_read_bio_X509() and PEM_read_bio_X509_CRL() skip to the    *)
(* first line that starts with the begin marker and ends in a marker, and  *)
(* read up to the first line that starts with the end marker; both lines   *)
(* must hold nothing else.  A begin marker between them is data.           *)
StartsLine(s, i) == i = 1 \/ s[i - 1] = "n"

EndsLine(s, i) == i = Len(s) \/ s[i + 1] = "n"

BeginsPem(s, i) ==
    /\ s[i] = "B" /\ StartsLine(s, i)
    /\ \E j \in i .. Len(s) : /\ EndsLine(s, j) /\ s[j] # "x"
                              /\ \A k \in i .. j - 1 : ~EndsLine(s, k)

(* The base64 decoder takes the first dash for the end of the data *)
UpToMarker(s) ==
    SubSeq(s, 1, CHOOSE n \in 0 .. Len(s) : /\ \A i \in 1 .. n : s[i] = "x"
                                            /\ n < Len(s) => s[n + 1] # "x")

ReadPem(s) ==
    LET begins == {i \in 1 .. Len(s) : BeginsPem(s, i)}
        begin  == CHOOSE i \in begins : \A j \in begins : i <= j
        ends   == {i \in begin + 1 .. Len(s) : s[i] = "E" /\ StartsLine(s, i)}
        end    == CHOOSE i \in ends : \A j \in ends : i <= j
        content == UpToMarker(NoSpace(SubSeq(s, begin + 1, end - 1)))
    IN  IF \/ begins = {} \/ ends = {}
           \/ ~EndsLine(s, begin) \/ ~EndsLine(s, end) \/ content = <<>>
        THEN {} ELSE {content}

(* fromPEM() of the two classes; the content may still be refused *)
FromPEM(pem) == ReadPem(IF kind = "crls" THEN pem ELSE ReformatPEMCertificate(pem))

(* The std::transform() of the two loaders, one element a step *)
LoadStep ==
    /\ outcome = "load" /\ Len(loaded) < Len(pemList)
    /\ UNCHANGED <<kind, text, pos, pemList>>
    /\ \/ outcome' = "threw" /\ UNCHANGED loaded
       \/ /\ \E content \in FromPEM(pemList[Len(loaded) + 1]) :
                loaded' = Append(loaded, content)
          /\ UNCHANGED outcome

LoadEnd ==
    /\ outcome = "load" /\ Len(loaded) = Len(pemList)
    /\ outcome' = "returned"
    /\ UNCHANGED <<kind, text, pos, pemList, loaded>>

(* A call of loadPEMChain(), of loadCrlPEMChain() or of fromPEM() *)
Init ==
    /\ kind \in {"certificates", "crls", "single"}
    /\ \E n \in 0 .. MaxLength : text \in [1 .. n -> Tokens]
    /\ pos = 0 /\ loaded = <<>>
    /\ IF kind = "single" THEN pemList = <<text>> /\ outcome = "load"
       ELSE pemList = <<>> /\ outcome = "split"

Done == outcome \in {"returned", "threw"} /\ UNCHANGED vars

Next == SplitStep \/ SplitEnd \/ LoadStep \/ LoadEnd \/ Done

(* The loops run on, there is nothing they wait for *)
Spec == Init /\ [][Next]_vars /\ WF_vars(SplitStep \/ SplitEnd \/ LoadStep \/ LoadEnd)
-----------------------------------------------------------------------------
(* The members have their types: a position is never beyond the text, and  *)
(* every element starts and ends with its marker on a line of its own.     *)
TypeOK ==
    /\ pos \in 0 .. Len(text)
    /\ Len(loaded) <= Len(pemList)
    /\ kind # "single" => \A i \in DOMAIN pemList :
        /\ Len(pemList[i]) > 4
        /\ SubSeq(pemList[i], 1, 2) = <<"B", "n">>
        /\ SubSeq(pemList[i], Len(pemList[i]) - 1, Len(pemList[i])) = <<"n", "E">>

(* Every call comes to an end, whatever text it is given *)
Terminates == <>(outcome \in {"returned", "threw"})

(* Reference: the text is a list of PEMs, (B x+ E)* between white space *)
IsListOfPEMs(s) ==
    LET t == NoSpace(s)
    IN  /\ \A i \in DOMAIN t : (t[i] = "B") <=> (i = 1 \/ t[i - 1] = "E")
        /\ \A i \in DOMAIN t : t[i] = "E" => t[i - 1] = "x"
        /\ t # <<>> => Last(t) = "E"

(* Of a text that was split, nothing but white space is lost, and nothing  *)
(* changes its place: the elements are in the order of the chain.          *)
SplitKeepsContent ==
    kind # "single" /\ outcome \in {"load", "returned"} =>
        NoSpace(FlattenSeq(pemList)) = NoSpace(text)

(* A list of PEMs is never refused by splitPEMChain(), with or without     *)
(* line feeds around the markers.                                          *)
ListsAreSplit ==
    kind # "single" /\ IsListOfPEMs(text) /\ outcome = "threw" =>
        pos >= Len(text) \/ OnlySpace(pos, Len(text))

(* Reference: t starts with a marker, and c stands between it and the next *)
IsFirstContent(c, t) ==
    /\ c # <<>> /\ ToSet(c) = {"x"}
    /\ c = SubSeq(t, 2, Len(c) + 1) /\ t[Len(c) + 2] \in {"B", "E"}

(* A loader returns one object for every element, with the first content   *)
(* of that element, and of a list of PEMs all there is, in order: the      *)
(* reformatting, which drops a character, never drops one that counts      *)
(* after splitPEMChain() has put in its line feeds.                        *)
LoadedIsTheChain ==
    kind # "single" /\ outcome = "returned" =>
        /\ Len(loaded) = Len(pemList)
        /\ \A i \in DOMAIN loaded : IsFirstContent(loaded[i], NoSpace(pemList[i]))
        /\ IsListOfPEMs(text) =>
              FlattenSeq([i \in DOMAIN loaded |-> <<"B">> \o loaded[i] \o <<"E">>])
                  = NoSpace(text)
=============================================================================
