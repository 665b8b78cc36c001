------------------------------ MODULE HexCodec ------------------------------
(***************************************************************************)
(* utility::toHex() and utility::fromHex() (util.cpp).  fromHex() cuts its *)
(* string into pairs of characters and gives every pair to strtoul(), which *)
(* also knows spaces, signs and the end of a C string.                     *)
(***************************************************************************)
EXTENDS Integers, Sequences, SequencesExt

CONSTANTS
    Alphabet,       \* characters of the strings that are parsed
    Octets,         \* bytes of the data that are formatted
    MaxLength       \* bound: characters of a string, and octets of data

HexAssumption == Octets \subseteq 0..255 /\ MaxLength \in Nat

NUL == "NUL"

ULongMod == 65536   \* stands for the width of unsigned long: a multiple of 256

VARIABLES
    input,          \* argument of the call
    call,           \* "fromHex", or "toHex" whose result goes to fromHex()
    result          \* how the call ended, and the bytes it returned

vars == <<input, call, result>>

Lower == <<"0", "1", "2", "3", "4", "5", "6", "7",
           "8", "9", "a", "b", "c", "d", "e", "f">>
Upper == <<"A", "B", "C", "D", "E", "F">>

DigitValue ==
    [c \in ToSet(Lower) \union ToSet(Upper) |->
        CHOOSE v \in 0..15 : Lower[v + 1] = c \/ (v > 9 /\ Upper[v - 9] = c)]

IsDigit(c) == c \in DOMAIN DigitValue

(* toHex(): two digits for every byte, filled with zeros *)
ToHex(data) ==
    [i \in 1..(2 * Len(data)) |->
        LET byte == data[(i + 1) \div 2]
        IN  Lower[IF i % 2 = 1 THEN (byte \div 16) + 1 ELSE (byte % 16) + 1]]
-----------------------------------------------------------------------------
(* The part of a string that c_str() shows to a C function *)
CString(s) == LET nuls == {i \in 1..Len(s) : s[i] = NUL}
              IN  IF nuls = {} THEN s ELSE SubSeq(s, 1, Min(nuls) - 1)

(* C library: strtoul() to base 16 of at most two characters, where no 0x  *)
(* can come before a digit: spaces, a sign, digits.                        *)
Spaces(s) == IF s # <<>> /\ s[1] = " " THEN IF Len(s) > 1 /\ s[2] = " " THEN 2 ELSE 1 ELSE 0
Sign(s) == IF Len(s) > Spaces(s) /\ s[Spaces(s) + 1] \in {"+", "-"} THEN 1 ELSE 0
FirstDigit(s) == Spaces(s) + Sign(s) + 1

(* Number of characters used, 0 if there was no digit *)
StrtoulEnd(s) ==
    LET first == FirstDigit(s)
    IN  IF Len(s) < first \/ ~IsDigit(s[first]) THEN 0
        ELSE IF Len(s) > first /\ IsDigit(s[first + 1]) THEN first + 1 ELSE first

Magnitude(s) ==
    LET first == FirstDigit(s)
    IN  IF StrtoulEnd(s) = 0 THEN 0
        ELSE IF StrtoulEnd(s) = first THEN DigitValue[s[first]]
        ELSE 16 * DigitValue[s[first]] + DigitValue[s[first + 1]]

(* A minus sign negates modulo the width of unsigned long *)
StrtoulValue(s) ==
    IF Sign(s) = 1 /\ s[Spaces(s) + 1] = "-" THEN (ULongMod - Magnitude(s)) % ULongMod
    ELSE Magnitude(s)

(* (uint8_t)strtoul(...) *)
Byte(chunk) == StrtoulValue(CString(chunk)) % 256

(* rfind("0x") == 0: the last 0x of the string is its beginning *)
StartPos(s) ==
    LET At(i) == s[i] = "0" /\ s[i + 1] = "x"
        found == {i \in 1..(Len(s) - 1) : At(i)}
    IN  IF 1 \in found /\ \A i \in found : i = 1 THEN 3 ELSE 1

(* substr(i, 2) of every round of the loop *)
Chunks(s) ==
    LET start == StartPos(s)
        n == (Len(s) - start + 2) \div 2
    IN  [k \in 1..n |-> SubSeq(s, start + 2 * (k - 1),
                               LET last == start + 2 * k - 1
                               IN  IF last < Len(s) THEN last ELSE Len(s))]

(* mutation: only the beginning of the pair is looked at *)
EntireChunkIsValidPrefix(chunk) == CString(chunk) # <<>> /\ StrtoulEnd(CString(chunk)) > 0

(* *encodedByte.c_str() is not the end, and *endptr is *)
EntireChunkIsValid(chunk) ==
    CString(chunk) # <<>> /\ StrtoulEnd(CString(chunk)) = Len(CString(chunk))

(* fromHex(): the bytes, or MoCOCrWException *)
FromHex(s) ==
    IF \A k \in 1..Len(Chunks(s)) : EntireChunkIsValid(Chunks(s)[k])
    THEN [end |-> "returned",
          bytes |-> [k \in 1..Len(Chunks(s)) |-> Byte(Chunks(s)[k])]]
    ELSE [end |-> "MoCOCrWException", bytes |-> <<>>]
-----------------------------------------------------------------------------
Init ==
    /\ \/ call = "fromHex" /\ input \in BoundedSeq(Alphabet, MaxLength)
       \/ call = "toHex" /\ input \in BoundedSeq(Octets, MaxLength)
    /\ result = [end |-> "none", bytes |-> <<>>]

Parse ==
    /\ call = "fromHex" /\ result.end = "none"
    /\ result' = FromHex(input)
    /\ UNCHANGED <<input, call>>

FormatAndParse ==
    /\ call = "toHex" /\ result.end = "none"
    /\ result' = FromHex(ToHex(input))
    /\ UNCHANGED <<input, call>>

(* One call is the whole behaviour *)
Done == result.end # "none" /\ UNCHANGED vars

Next == Parse \/ FormatAndParse \/ Done

Spec == Init /\ [][Next]_vars
-----------------------------------------------------------------------------
(* A call returns bytes or throws *)
TypeOK ==
    /\ call \in {"fromHex", "toHex"}
    /\ result.end \in {"none", "returned", "MoCOCrWException"}
    /\ Len(result.bytes) <= MaxLength /\ ToSet(result.bytes) \subseteq 0..255

(* Reading back what toHex() wrote gives the data *)
RoundTrip ==
    call = "toHex" /\ result.end # "none" =>
        result = [end |-> "returned", bytes |-> input]

(* A string of hexadecimal digits, and what it means: its digits in pairs  *)
(* from the left, the last one alone if their number is odd                *)
Digits(s) == IF Len(s) > 1 /\ s[1] = "0" /\ s[2] = "x" THEN SubSeq(s, 3, Len(s)) ELSE s
IsHexString(s) == \A i \in 1..Len(Digits(s)) : IsDigit(Digits(s)[i])
Meaning(s) ==
    LET d == Digits(s)
    IN  [k \in 1..((Len(d) + 1) \div 2) |->
            IF 2 * k <= Len(d) THEN 16 * DigitValue[d[2 * k - 1]] + DigitValue[d[2 * k]]
            ELSE DigitValue[d[2 * k - 1]]]

(* A string of digits, in either case and with 0x before them or not, is   *)
(* taken and means its bytes; a string with a letter that is no digit is   *)
(* refused wherever the letter stands.                                     *)
DigitsMeanBytes ==
    call = "fromHex" /\ result.end # "none" =>
        /\ IsHexString(input) => result = [end |-> "returned", bytes |-> Meaning(input)]
        /\ (\E i \in 1..Len(Digits(input)) :
                ~IsDigit(Digits(input)[i]) /\ Digits(input)[i] \notin {" ", "+", "-", NUL})
           => result.end = "MoCOCrWException"
=============================================================================
