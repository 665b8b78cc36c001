------------------------------ MODULE Asn1Time ------------------------------
(***************************************************************************)
(* Asn1Time (asn1time.cpp) and the time functions of openssl_wrap.cpp.     *)
(* An ASN1_TIME is its distance from the epoch in seconds.  OpenSSL only   *)
(* speaks of days and seconds, both of type int: ASN1_TIME_diff() splits a *)
(* distance, ASN1_TIME_adj() adds one to the epoch, from the year 1900 on. *)
(***************************************************************************)
EXTENDS Integers

CONSTANTS
    Day,                    \* seconds of a day
    IntMax, Int64Max,       \* limits of int and of int64_t
    MinTime, MaxTime,       \* the years 0000 and 9999
    AdjMin,                 \* the year 1900, the first ASN1_TIME_adj() yields
    TimeTMin, TimeTMax,     \* limits of time_t
    TimePointMin, TimePointMax,  \* limits of system_clock::time_point
    Samples,                \* bound: durations that are tried
    Exception               \* the outcome of an operator that throws

IntMin == -IntMax - 1
Int64Min == -Int64Max - 1

(* A difference of two ASN1_TIMEs in days is an int, and a number of days  *)
(* that is an int is an int64_t in seconds.                                *)
ASSUME TimeAssumption ==
    /\ Day \in Nat \ {0} /\ IntMax \in Nat /\ Int64Max \in Nat
    /\ MinTime \in Int /\ MaxTime \in Int /\ AdjMin \in Int
    /\ MinTime <= AdjMin /\ AdjMin <= 0 /\ 0 < MaxTime
    /\ MaxTime - MinTime < Day * IntMax
    /\ Day * (IntMax + 2) <= Int64Max
    /\ TimeTMin \in Int /\ TimeTMax \in Int /\ TimeTMin <= 0 /\ 0 <= TimeTMax
    /\ TimePointMin \in Int /\ TimePointMax \in Int
    /\ TimePointMin <= 0 /\ 0 <= TimePointMax
    /\ Samples \subseteq Int64Min .. Int64Max
    /\ Exception \notin Int

AsnTimes == MinTime .. MaxTime

VARIABLES
    time,       \* the Asn1Time the caller holds
    result      \* the last operation: operands and outcome

vars == <<time, result>>
-----------------------------------------------------------------------------
(* OpenSSL's (and C++'s) division truncates towards zero. *)
TruncDays(s) == IF s >= 0 THEN s \div Day ELSE -((-s) \div Day)
TruncSeconds(s) == s - Day * TruncDays(s)

(* ASN1_TIME_diff(): days and seconds never have opposite signs *)
DiffDays(from, to) == TruncDays(to - from)
DiffSeconds(from, to) == TruncSeconds(to - from)

(* ASN1_TIME_adj(0, days, seconds) *)
Adjusted(days, seconds) ==
    LET t == Day * days + seconds
    IN  IF t \in AdjMin .. MaxTime THEN t ELSE Exception
-----------------------------------------------------------------------------
(* Asn1Time - Asn1Time *)
Difference(a, b) == Day * DiffDays(b, a) + DiffSeconds(b, a)

DurationTooLarge(d) == Day * IntMax < d \/ Day * IntMin > d

DaysOverflow(days, durationDays) ==
    \/ days > 0 /\ durationDays > IntMax - days
    \/ days < 0 /\ durationDays < IntMin - days

(* mutation: without the overflow check the sum of the days wraps around *)
Wrapped(n) == ((n + IntMax + 1) % (2 * IntMax + 2)) - IntMax - 1
PlusUnguarded(t, d) ==
    Adjusted(Wrapped(DiffDays(0, t) + Wrapped(TruncDays(d))),
             DiffSeconds(0, t) + TruncSeconds(d))

(* Asn1Time + Seconds *)
Plus(t, d) ==
    IF DurationTooLarge(d) \/ DaysOverflow(DiffDays(0, t), TruncDays(d))
    THEN Exception
    ELSE Adjusted(DiffDays(0, t) + TruncDays(d),
                  DiffSeconds(0, t) + TruncSeconds(d))

(* -1 * d; the least int64_t has no negative and wraps around to itself *)
Negated(d) == IF d = Int64Min THEN Int64Min ELSE -d

(* Asn1Time - Seconds *)
Minus(t, d) == Plus(t, Negated(d))

(* compare(): a time_t may lie outside the range of ASN1_TIME *)
Compare(asn1Time, timeT) ==
    LET days    == DiffDays(asn1Time, timeT)
        seconds == DiffSeconds(asn1Time, timeT)
    IN  CASE timeT > MaxTime -> "Lesser"
          [] timeT < MinTime -> "Greater"
          [] OTHER -> IF days < 0 \/ seconds < 0 THEN "Greater"
                      ELSE IF days > 0 \/ seconds > 0 THEN "Lesser"
                      ELSE "Equal"

(* checkAsn1TimeFitsIntoLimits() *)
FitsIntoLimits(t, minValue, maxValue) ==
    /\ Compare(t, minValue) # "Lesser"
    /\ Compare(t, maxValue) # "Greater"

(* secondsDiffToEpoch() *)
SecondsDiffToEpoch(t) == Day * DiffDays(0, t) + DiffSeconds(0, t)

(* _asn1TimeToTimePoint(), _asn1TimeToTimeT() *)
ToTimePoint(t) ==
    IF FitsIntoLimits(t, TimePointMin, TimePointMax)
    THEN SecondsDiffToEpoch(t) ELSE Exception
ToTimeT(t) ==
    IF FitsIntoLimits(t, TimeTMin, TimeTMax)
    THEN SecondsDiffToEpoch(t) ELSE Exception
-----------------------------------------------------------------------------
(* fromString() of any time; min() and max() are such strings *)
Init ==
    /\ time \in AsnTimes
    /\ result = [op |-> "none"]

FromTimeT(t) ==
    /\ time' = t
    /\ result' = [op |-> "none"]

(* t = t + d and t = t - d; t is kept if the operator throws *)
AddDuration(d) ==
    /\ result' = [op |-> "plus", from |-> time, d |-> d, got |-> Plus(time, d)]
    /\ time' = IF Plus(time, d) = Exception THEN time ELSE Plus(time, d)

SubtractDuration(d) ==
    /\ result' = [op |-> "minus", from |-> time, d |-> d, got |-> Minus(time, d)]
    /\ time' = IF Minus(time, d) = Exception THEN time ELSE Minus(time, d)

(* The difference to another time, and that time plus the difference *)
SubtractTime(rhs) ==
    /\ result' = [op |-> "difference", from |-> rhs, d |-> Difference(time, rhs),
                  got |-> Plus(rhs, Difference(time, rhs))]
    /\ UNCHANGED time

Convert ==
    /\ result' = [op |-> "convert", timePoint |-> ToTimePoint(time),
                  timeT |-> ToTimeT(time)]
    /\ UNCHANGED time

Next ==
    \/ \E t \in AsnTimes \intersect (TimeTMin .. TimeTMax) : FromTimeT(t)
    \/ \E d \in Samples : AddDuration(d)
    \/ \E d \in Samples : SubtractDuration(d)
    \/ \E t \in AsnTimes : SubtractTime(t)
    \/ Convert

Spec == Init /\ [][Next]_vars
-----------------------------------------------------------------------------
(* Whatever is added, an Asn1Time stays in the range of ASN1_TIME. *)
TypeOK ==
    /\ time \in AsnTimes
    /\ result.op \in {"none", "plus", "minus", "difference", "convert"}

(* operator+ is exact: the sum, or an exception just when the sum lies     *)
(* outside the years 1900 to 9999, for every int64_t duration; the split   *)
(* in days and seconds never shows.                                        *)
PlusIsExact ==
    result.op = "plus" =>
        result.got = IF result.from + result.d \in AdjMin .. MaxTime
                     THEN result.from + result.d ELSE Exception

(* operator- likewise, although -1 * d overflows for the least int64_t.    *)
MinusIsExact ==
    result.op = "minus" =>
        result.got = IF result.from - result.d \in AdjMin .. MaxTime
                     THEN result.from - result.d ELSE Exception

(* rhs + (this - rhs) = this, for every pair of times of which this is not *)
(* before the year 1900.                                                   *)
DifferenceAddsBack ==
    result.op = "difference" /\ time >= AdjMin => result.got = time

(* toTimePoint() and toTimeT() give the time itself or throw just when it  *)
(* is out of the bounds of the target type.                                *)
ConversionsAreExact ==
    result.op = "convert" =>
        /\ result.timePoint = IF time \in TimePointMin .. TimePointMax
                              THEN time ELSE Exception
        /\ result.timeT = IF time \in TimeTMin .. TimeTMax
                          THEN time ELSE Exception

(* An Asn1Time stays in the range of ASN1_TIME, and sums, differences and  *)
(* conversions are those of the integers, or an exception.                 *)
TimesAreExact ==
    /\ TypeOK
    /\ PlusIsExact /\ MinusIsExact
    /\ DifferenceAddsBack
    /\ ConversionsAreExact
=============================================================================
