---------------------------- MODULE SerialNumber ----------------------------
(***************************************************************************)
(* The serial number of a certificate (openssl_wrap.cpp, x509.cpp): set as *)
(* an unsigned 64 bit integer by the certificate authority, or any integer *)
(* in a certificate that is read, and returned as an integer, as a decimal *)
(* string and as bytes.                                                    *)
(***************************************************************************)
EXTENDS Integers, Sequences, SequencesExt

CONSTANTS
    LongMax,        \* numeric_limits<long>::max()
    Radix,          \* values of a byte
    Serials         \* serial numbers of certificates that are read

SerialAssumption ==
    /\ LongMax \in Nat \ {0} /\ Radix \in Nat \ {0, 1}
    /\ Serials \subseteq Int

UInt64 == 0..(2 * LongMax + 1)

VARIABLES
    serial,         \* number in the certificate
    given,          \* number the serial was set from, -1 if none was
    answer          \* what the last call returned

vars == <<serial, given, answer>>

NoAnswer == [call |-> "none", end |-> "none", value |-> 0, bytes |-> <<>>]
Answer(call, value, bytes) == [call |-> call, end |-> "returned", value |-> value, bytes |-> bytes]
Throws(call) == [call |-> call, end |-> "OpenSSLException", value |-> 0, bytes |-> <<>>]

Magnitude(n) == IF n < 0 THEN -n ELSE n

(* What is left of a number without its last 0, 1, ... digits *)
Leading(n, radix) ==
    LET cut[j \in 0..n] == IF j = 0 THEN n ELSE cut[j - 1] \div radix
    IN  cut

NumDigits(n, radix) ==
    CHOOSE k \in 0..n : /\ Leading(n, radix)[k] = 0
                        /\ \A j \in 0..n : Leading(n, radix)[j] = 0 => k <= j

(* Digits of a number, the most significant first, none for zero *)
Digits(n, radix) ==
    [i \in 1..NumDigits(n, radix) |->
        Leading(n, radix)[NumDigits(n, radix) - i] % radix]

(* OpenSSL: BN_num_bytes() counts the bytes of the magnitude, none for     *)
(* zero, BN_bn2bin() writes them, and BN_bn2dec() gives a sign and at      *)
(* least one digit.                                                        *)
Bn2bin(n) == Digits(Magnitude(n), Radix)
NumBytes(n) == Len(Bn2bin(n))
Bn2dec(n) ==
    [sign   |-> IF n < 0 THEN -1 ELSE 1,
     digits |-> IF n = 0 THEN <<0>> ELSE Digits(Magnitude(n), 10)]

(* OpensslCallIsPositive *)
IsPositive(rv) == rv > 0
-----------------------------------------------------------------------------
(* A certificate that was read *)
Init == serial \in Serials /\ given = -1 /\ answer = NoAnswer

(* _X509_set_serialNumber(): zero is stored, the calls check what OpenSSL  *)
(* returned and not the number                                             *)
SetSerialNumber(n) ==
    \/ /\ n > LongMax
       /\ answer' = Throws("set") /\ UNCHANGED <<serial, given>>
    \/ /\ n <= LongMax
       /\ serial' = n /\ given' = n /\ answer' = Answer("set", 0, <<>>)

(* mutation: the largest long is out of the range *)
Asn1IntegerToInt64BelowMax(n) ==
    IF n >= LongMax \/ n < 0 THEN Throws("int") ELSE Answer("int", n, <<>>)

(* Asn1IntegerToInt64() *)
Asn1IntegerToInt64(n) ==
    IF n > LongMax \/ n < 0 THEN Throws("int") ELSE Answer("int", n, <<>>)

(* Asn1IntegerToBinary(): both counts are checked to be positive *)
Asn1IntegerToBinary(n) ==
    IF ~IsPositive(NumBytes(n)) THEN Throws("bin") ELSE Answer("bin", 0, Bn2bin(n))

GetSerialNumber ==
    answer' = Asn1IntegerToInt64(serial) /\ UNCHANGED <<serial, given>>

(* getSerialNumberDecimal(), Asn1IntegerToString() *)
GetSerialNumberDecimal ==
    /\ answer' = Answer("dec", Bn2dec(serial).sign, Bn2dec(serial).digits)
    /\ UNCHANGED <<serial, given>>

GetSerialNumberBinary ==
    answer' = Asn1IntegerToBinary(serial) /\ UNCHANGED <<serial, given>>

Next ==
    \/ \E n \in UInt64 : SetSerialNumber(n)
    \/ GetSerialNumber
    \/ GetSerialNumberDecimal
    \/ GetSerialNumberBinary

Spec == Init /\ [][Next]_vars
-----------------------------------------------------------------------------
(* The integer a caller gets is an unsigned 64 bit integer, and bytes are  *)
(* bytes                                                                   *)
TypeOK ==
    /\ serial \in Serials \union UInt64
    /\ given \in UInt64 \union {-1}
    /\ answer.call \in {"int", "bin"} => answer.value \in UInt64
    /\ answer.call = "bin" => ToSet(answer.bytes) \subseteq 0..(Radix - 1)
    /\ answer.call = "dec" => answer.value \in {-1, 1} /\ ToSet(answer.bytes) \subseteq 0..9

(* Digits read as a number, the most significant first *)
Value(digits, radix) ==
    LET upTo[i \in 0..Len(digits)] == IF i = 0 THEN 0 ELSE upTo[i - 1] * radix + digits[i]
    IN  upTo[Len(digits)]

(* No call invents a number: what was set is what is in the certificate,   *)
(* an integer is returned only if it is the serial, the decimal string     *)
(* means it with its sign, and the bytes are the shortest that mean its    *)
(* magnitude.  A number outside of the range is refused and not folded     *)
(* into it.                                                                *)
AnswersAreTheSerial ==
    /\ given >= 0 => serial = given
    /\ answer.call = "int" /\ answer.end = "returned" => answer.value = serial
    /\ answer.call = "bin" /\ answer.end = "returned" =>
          Value(answer.bytes, Radix) = Magnitude(serial) /\ answer.bytes[1] # 0
    /\ answer.call = "dec" => answer.value * Value(answer.bytes, 10) = serial

(* What the certificate authority could set, every certificate returns as  *)
(* an integer                                                              *)
SetSerialsAreReturned ==
    given >= 0 /\ answer.call = "int" => answer.end = "returned"
=============================================================================
