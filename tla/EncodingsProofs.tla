-------------------------- MODULE EncodingsProofs ---------------------------
(***************************************************************************)
(* The conversions at the border of the library.  The detour of Asn1Time   *)
(* over days and seconds of type int is exact for every length of a day    *)
(* and every width of the integers; hexadecimal strings of any length mean *)
(* their bytes; a memory BIO is a queue of bytes for every size of the     *)
(* buffer of a flush; a chain of PEMs of any length is split and loaded    *)
(* whole and in order.                                                     *)
(***************************************************************************)
EXTENDS MCEncodings, SequenceTheorems, WellFoundedInduction, TLAPS


(* Division by the length of a day yields a quotient and a remainder that  *)
(* is smaller than a day.                                                  *)
LEMMA DivisionByDay ==
    ASSUME NEW n \in Nat
    PROVE  /\ n \div Day \in Nat
           /\ Day * (n \div Day) <= n
           /\ n < Day * (n \div Day) + Day
  <1>1. Day \in Nat /\ Day > 0
    BY TimeAssumption
  <1>2. n = Day * (n \div Day) + (n % Day) /\ n % Day \in 0 .. (Day - 1)
    BY <1>1, SMTT(30)
  <1>3. n \div Day \in Int
    BY <1>1
  <1>4. n \div Day >= 0
    BY <1>1, SMTT(30)
  <1> QED
    BY <1>1, <1>2, <1>3, <1>4

(* The split of a distance: its days and seconds add up to it, the seconds *)
(* are less than a day, and neither part has the opposite sign.            *)
LEMMA SplitIsExact ==
    ASSUME NEW s \in Int
    PROVE  /\ TruncDays(s) \in Int /\ TruncSeconds(s) \in Int
           /\ Day * TruncDays(s) + TruncSeconds(s) = s
           /\ s >= 0 => TruncDays(s) >= 0 /\ TruncSeconds(s) >= 0
                        /\ TruncSeconds(s) < Day
           /\ s <= 0 => TruncDays(s) <= 0 /\ TruncSeconds(s) <= 0
                        /\ TruncSeconds(s) > -Day
  <1>1. Day \in Nat /\ Day > 0
    BY TimeAssumption
  <1>2. CASE s >= 0
    <2>1. s \div Day \in Nat /\ Day * (s \div Day) <= s /\ s < Day * (s \div Day) + Day
      BY <1>2, DivisionByDay
    <2>2. TruncDays(s) = s \div Day
      BY <1>2 DEF TruncDays
    <2>3. s = 0 => s \div Day = 0
      BY <1>1, <2>1
    <2> QED
      BY <1>1, <1>2, <2>1, <2>2, <2>3 DEF TruncSeconds
  <1>3. CASE s < 0
    <2> DEFINE q == (-s) \div Day
    <2>1. q \in Nat /\ Day * q <= -s /\ -s < Day * q + Day
      BY <1>3, DivisionByDay
    <2>2. TruncDays(s) = -q
      BY <1>3 DEF TruncDays
    <2>3. Day * (-q) = -(Day * q)
      BY <1>1, <2>1
    <2> HIDE DEF q
    <2> QED
      BY <1>1, <1>3, <2>1, <2>2, <2>3 DEF TruncSeconds
  <1> QED
    BY <1>2, <1>3

(* A duration that leads from one time to another passes both guards of    *)
(* operator+.                                                              *)
LEMMA GuardsAreSlack ==
    ASSUME NEW t \in AsnTimes, NEW d \in Int,
           t + d \in AdjMin .. MaxTime
    PROVE  /\ ~DurationTooLarge(d)
           /\ ~DaysOverflow(DiffDays(0, t), TruncDays(d))
  <1> DEFINE a == TruncDays(t)
             b == TruncDays(d)
  <1>0. /\ Day \in Nat /\ Day > 0 /\ IntMax \in Nat /\ IntMin = -IntMax - 1
        /\ MinTime \in Int /\ MaxTime \in Int /\ AdjMin \in Int
        /\ MinTime <= AdjMin /\ AdjMin <= 0 /\ 0 < MaxTime
        /\ MaxTime - MinTime < Day * IntMax
        /\ t \in Int /\ t >= MinTime /\ t <= MaxTime
        /\ t + d >= AdjMin /\ t + d <= MaxTime
    BY TimeAssumption DEF AsnTimes, IntMin
  <1>1. d <= MaxTime - MinTime /\ -d <= MaxTime - MinTime
    BY <1>0
  <1>2. Day * IntMin = -(Day * IntMax) - Day
    BY <1>0
  <1>3. ~DurationTooLarge(d)
    BY <1>0, <1>1, <1>2 DEF DurationTooLarge
  <1>4. /\ a \in Int /\ b \in Int
        /\ t >= 0 => a >= 0 /\ Day * a <= t
        /\ t <= 0 => a <= 0 /\ t <= Day * a
        /\ d >= 0 => b >= 0 /\ Day * b <= d
        /\ d <= 0 => b <= 0 /\ d <= Day * b
    <2>1. /\ a \in Int /\ TruncSeconds(t) \in Int
          /\ Day * a + TruncSeconds(t) = t
          /\ t >= 0 => a >= 0 /\ TruncSeconds(t) >= 0
          /\ t <= 0 => a <= 0 /\ TruncSeconds(t) <= 0
      BY <1>0, SplitIsExact
    <2>2. /\ b \in Int /\ TruncSeconds(d) \in Int
          /\ Day * b + TruncSeconds(d) = d
          /\ d >= 0 => b >= 0 /\ TruncSeconds(d) >= 0
          /\ d <= 0 => b <= 0 /\ TruncSeconds(d) <= 0
      BY <1>0, SplitIsExact
    <2>3. Day * a \in Int /\ Day * b \in Int
      BY <1>0, <2>1, <2>2
    <2> HIDE DEF a, b
    <2> QED
      BY <1>0, <2>1, <2>2, <2>3
  <1>5. DiffDays(0, t) = a
    BY <1>0 DEF DiffDays
  <1> HIDE DEF a, b
  <1>6. ASSUME a > 0, b > IntMax - a PROVE FALSE
    <2>1. t >= 0 /\ Day * a <= t
      BY <1>0, <1>4, <1>6
    <2>2. a < IntMax
      BY <1>0, <1>4, <2>1
    <2>3. d >= 0 /\ Day * b <= d
      BY <1>0, <1>4, <1>6, <2>2
    <2>4. Day * (a + b) <= t + d
      BY <1>0, <1>4, <2>1, <2>3
    <2>5. Day * IntMax < Day * (a + b)
      BY <1>0, <1>4, <1>6
    <2>6. Day * IntMax \in Int /\ Day * (a + b) \in Int
      BY <1>0, <1>4
    <2> QED
      BY <1>0, <2>4, <2>5, <2>6
  <1>7. ASSUME a < 0, b < IntMin - a PROVE FALSE
    <2>1. t <= 0 /\ t <= Day * a
      BY <1>0, <1>4, <1>7
    <2>2. -a < IntMax
      BY <1>0, <1>4, <2>1
    <2>3. d <= 0 /\ d <= Day * b
      BY <1>0, <1>4, <1>7, <2>2
    <2>4. t + d <= Day * (a + b)
      BY <1>0, <1>4, <2>1, <2>3
    <2>5. Day * (a + b) < -(Day * IntMax)
      BY <1>0, <1>4, <1>7
    <2>6. Day * IntMax \in Int /\ Day * (a + b) \in Int
      BY <1>0, <1>4
    <2> QED
      BY <1>0, <2>4, <2>5, <2>6
  <1>8. ~DaysOverflow(a, b)
    BY <1>6, <1>7 DEF DaysOverflow
  <1>9. ~DaysOverflow(DiffDays(0, t), TruncDays(d))
    BY <1>5, <1>8 DEF b
  <1> QED
    BY <1>3, <1>9

(* operator+ yields the sum, or an exception just when the sum is out of   *)
(* the years 1900 to 9999.                                                 *)
LEMMA PlusLemma ==
    ASSUME NEW t \in AsnTimes, NEW d \in Int
    PROVE  Plus(t, d) = IF t + d \in AdjMin .. MaxTime THEN t + d ELSE Exception
  <1>0. Day \in Nat /\ t \in Int
    BY TimeAssumption DEF AsnTimes
  <1>1. /\ TruncDays(t) \in Int /\ TruncSeconds(t) \in Int
        /\ Day * TruncDays(t) + TruncSeconds(t) = t
        /\ TruncDays(d) \in Int /\ TruncSeconds(d) \in Int
        /\ Day * TruncDays(d) + TruncSeconds(d) = d
    BY <1>0, SplitIsExact
  <1>2. Day * (TruncDays(t) + TruncDays(d)) + (TruncSeconds(t) + TruncSeconds(d))
          = t + d
    <2> DEFINE a == TruncDays(t)
               b == TruncDays(d)
               x == TruncSeconds(t)
               y == TruncSeconds(d)
    <2>1. /\ a \in Int /\ b \in Int /\ x \in Int /\ y \in Int
          /\ Day * a + x = t /\ Day * b + y = d
      BY <1>1
    <2>2. Day * a \in Int /\ Day * b \in Int
      BY <1>0, <2>1
    <2>3. Day * (a + b) = Day * a + Day * b
      <3> HIDE DEF a, b, x, y
      <3> QED
        BY <1>0, <2>1
    <2>4. Day * (a + b) + (x + y) = t + d
      <3> HIDE DEF a, b, x, y
      <3> QED
        BY <1>0, <2>1, <2>2, <2>3
    <2> QED
      BY <2>4
  <1>3. DiffDays(0, t) = TruncDays(t) /\ DiffSeconds(0, t) = TruncSeconds(t)
    BY <1>0 DEF DiffDays, DiffSeconds
  <1>4. Adjusted(DiffDays(0, t) + TruncDays(d), DiffSeconds(0, t) + TruncSeconds(d))
          = IF t + d \in AdjMin .. MaxTime THEN t + d ELSE Exception
    BY <1>2, <1>3 DEF Adjusted
  <1>5. CASE t + d \in AdjMin .. MaxTime
    BY <1>4, <1>5, GuardsAreSlack DEF Plus
  <1>6. CASE t + d \notin AdjMin .. MaxTime
    BY <1>4, <1>6 DEF Plus
  <1> QED
    BY <1>5, <1>6

(* A difference of two times is exact. *)
LEMMA DifferenceLemma ==
    ASSUME NEW a \in AsnTimes, NEW b \in AsnTimes
    PROVE  Difference(a, b) = a - b
  <1>1. a - b \in Int
    BY TimeAssumption DEF AsnTimes
  <1> QED
    BY <1>1, SplitIsExact DEF Difference, DiffDays, DiffSeconds

(* compare() is right about any time_t, inside the range of ASN1_TIME or   *)
(* outside of it.                                                          *)
LEMMA CompareLemma ==
    ASSUME NEW t \in AsnTimes, NEW timeT \in Int
    PROVE  /\ (Compare(t, timeT) = "Lesser") <=> t < timeT
           /\ (Compare(t, timeT) = "Greater") <=> t > timeT
  <1>0. /\ t \in Int /\ MinTime \in Int /\ MaxTime \in Int /\ Day \in Nat /\ Day > 0
        /\ MinTime <= t /\ t <= MaxTime
    BY TimeAssumption DEF AsnTimes
  <1> DEFINE s == timeT - t
  <1>1. /\ TruncDays(s) \in Int /\ TruncSeconds(s) \in Int
        /\ Day * TruncDays(s) + TruncSeconds(s) = s
        /\ s >= 0 => TruncDays(s) >= 0 /\ TruncSeconds(s) >= 0
        /\ s <= 0 => TruncDays(s) <= 0 /\ TruncSeconds(s) <= 0
    <2>1. s \in Int
      BY <1>0
    <2> HIDE DEF s
    <2> QED
      BY <2>1, SplitIsExact
  <1>2. DiffDays(t, timeT) = TruncDays(s) /\ DiffSeconds(t, timeT) = TruncSeconds(s)
    BY DEF DiffDays, DiffSeconds
  <1>3. TruncDays(s) = 0 /\ TruncSeconds(s) = 0 => s = 0
    <2>1. Day * 0 = 0
      BY <1>0
    <2> HIDE DEF s
    <2> QED
      BY <1>1, <2>1
  <1>4. s \in Int /\ (s < 0 <=> t > timeT) /\ (s > 0 <=> t < timeT)
    BY <1>0
  <1> HIDE DEF s
  <1>5. CASE timeT > MaxTime
    BY <1>0, <1>5 DEF Compare
  <1>6. CASE timeT < MinTime
    BY <1>0, <1>6 DEF Compare
  <1>7. CASE ~(timeT > MaxTime) /\ ~(timeT < MinTime)
    <2>1. Compare(t, timeT) =
            IF TruncDays(s) < 0 \/ TruncSeconds(s) < 0 THEN "Greater"
            ELSE IF TruncDays(s) > 0 \/ TruncSeconds(s) > 0 THEN "Lesser"
            ELSE "Equal"
      BY <1>2, <1>7 DEF Compare
    <2> QED
      BY <2>1, <1>1, <1>3, <1>4
  <1> QED
    BY <1>5, <1>6, <1>7

(* A time fits the limits of a type just when it lies between them, and    *)
(* its conversion is the time itself.                                      *)
LEMMA ConversionLemma ==
    ASSUME NEW t \in AsnTimes, NEW low \in Int, NEW high \in Int
    PROVE  /\ FitsIntoLimits(t, low, high) <=> t \in low .. high
           /\ SecondsDiffToEpoch(t) = t
  <1>1. t \in Int
    BY TimeAssumption DEF AsnTimes
  <1>2. FitsIntoLimits(t, low, high) <=> ~(t < low) /\ ~(t > high)
    BY CompareLemma DEF FitsIntoLimits
  <1>3. SecondsDiffToEpoch(t) = t
    <2>1. Day * TruncDays(t) + TruncSeconds(t) = t
      BY <1>1, SplitIsExact
    <2> QED
      BY <1>1, <2>1 DEF SecondsDiffToEpoch, DiffDays, DiffSeconds
  <1> QED
    BY <1>1, <1>2, <1>3

(* The inductive invariant: what the operations promise, all together. *)
IInv == TypeOK /\ PlusIsExact /\ MinusIsExact /\ DifferenceAddsBack
        /\ ConversionsAreExact

(* Every Asn1Time that a string describes satisfies the invariant. *)
LEMMA InitInv == Init => IInv
BY DEF Init, IInv, TypeOK, PlusIsExact, MinusIsExact, DifferenceAddsBack,
       ConversionsAreExact

(* Every operation preserves the invariant. *)
LEMMA NextInv == IInv /\ [Next]_vars => IInv'
  <1> SUFFICES ASSUME IInv, [Next]_vars PROVE IInv'
    OBVIOUS
  <1> USE DEF PlusIsExact, MinusIsExact, DifferenceAddsBack, ConversionsAreExact
  <1>0. /\ time \in AsnTimes /\ time \in Int /\ Int64Max \in Nat
        /\ MinTime \in Int /\ MaxTime \in Int /\ AdjMin \in Int /\ MinTime <= AdjMin
        /\ Samples \subseteq Int64Min .. Int64Max /\ Int64Min = -Int64Max - 1
        /\ Day * (IntMax + 2) <= Int64Max /\ Exception \notin Int
    BY TimeAssumption DEF IInv, TypeOK, AsnTimes, Int64Min
  <1>a. AdjMin .. MaxTime \subseteq AsnTimes
    BY <1>0 DEF AsnTimes
  <1>1. ASSUME NEW t \in AsnTimes, FromTimeT(t) PROVE IInv'
    BY <1>1 DEF IInv, TypeOK, FromTimeT
  <1>2. ASSUME NEW d \in Samples, AddDuration(d) PROVE IInv'
    <2>1. d \in Int
      BY <1>0
    <2>2. Plus(time, d) = IF time + d \in AdjMin .. MaxTime THEN time + d ELSE Exception
      BY <1>0, <2>1, PlusLemma
    <2>3. time' \in AsnTimes
      BY <1>0, <1>a, <1>2, <2>2 DEF AddDuration
    <2> QED
      BY <1>2, <2>2, <2>3 DEF IInv, TypeOK, AddDuration
  <1>3. ASSUME NEW d \in Samples, SubtractDuration(d) PROVE IInv'
    <2>1. d \in Int /\ Negated(d) \in Int /\ Int64Min \in Int
      BY <1>0 DEF Negated
    <2>2. Plus(time, Negated(d)) = IF time + Negated(d) \in AdjMin .. MaxTime
                                   THEN time + Negated(d) ELSE Exception
      BY <1>0, <2>1, PlusLemma
    <2>3. Minus(time, d) = IF time - d \in AdjMin .. MaxTime
                           THEN time - d ELSE Exception
      <3>1. CASE d # Int64Min
        BY <1>0, <2>1, <2>2, <3>1 DEF Minus, Negated
      <3>2. CASE d = Int64Min
        <4>1. MaxTime - MinTime < Int64Max
          <5>1. Day * (IntMax + 2) = Day * IntMax + 2 * Day /\ Day * IntMax \in Int
            BY TimeAssumption
          <5> QED
            BY <1>0, <5>1, TimeAssumption
        <4>2. MinTime <= time /\ time <= MaxTime
          BY <1>0 DEF AsnTimes
        <4>3. time + Int64Min \notin AdjMin .. MaxTime
          BY <1>0, <4>1, <4>2
        <4>4. time - Int64Min \notin AdjMin .. MaxTime
          BY <1>0, <4>1, <4>2
        <4> QED
          BY <2>2, <3>2, <4>3, <4>4 DEF Minus, Negated
      <3> QED
        BY <3>1, <3>2
    <2>4. time' \in AsnTimes
      BY <1>0, <1>a, <1>3, <2>3 DEF SubtractDuration
    <2> QED
      BY <1>3, <2>3, <2>4 DEF IInv, TypeOK, SubtractDuration
  <1>4. ASSUME NEW t \in AsnTimes, SubtractTime(t) PROVE IInv'
    <2>1. Difference(time, t) = time - t /\ t \in Int
      BY <1>0, DifferenceLemma DEF AsnTimes
    <2>2. t + (time - t) = time
      BY <1>0, <2>1
    <2>3. Plus(t, time - t) = IF time \in AdjMin .. MaxTime THEN time ELSE Exception
      BY <1>0, <2>1, <2>2, PlusLemma
    <2>4. time >= AdjMin => time \in AdjMin .. MaxTime
      BY <1>0 DEF AsnTimes
    <2> QED
      BY <1>0, <1>4, <2>1, <2>3, <2>4 DEF IInv, TypeOK, SubtractTime
  <1>5. CASE Convert
    <2>1. /\ ToTimePoint(time) = IF time \in TimePointMin .. TimePointMax
                                 THEN time ELSE Exception
          /\ ToTimeT(time) = IF time \in TimeTMin .. TimeTMax
                             THEN time ELSE Exception
      BY <1>0, ConversionLemma, TimeAssumption DEF ToTimePoint, ToTimeT
    <2> QED
      BY <1>0, <1>5, <2>1 DEF IInv, TypeOK, Convert
  <1>6. CASE UNCHANGED vars
    BY <1>6 DEF IInv, TypeOK, vars
  <1> QED
    BY <1>1, <1>2, <1>3, <1>4, <1>5, <1>6 DEF Next

(* For every length of a day and every width of the integers: operator+ is *)
(* exact.                                                                  *)
THEOREM PlusExact == Spec => []PlusIsExact
  <1>1. IInv => PlusIsExact
    BY DEF IInv
  <1> QED
    BY <1>1, InitInv, NextInv, PTL DEF Spec

(* operator- of a duration is exact, the least int64_t included. *)
THEOREM MinusExact == Spec => []MinusIsExact
  <1>1. IInv => MinusIsExact
    BY DEF IInv
  <1> QED
    BY <1>1, InitInv, NextInv, PTL DEF Spec

(* A difference added back gives the time, from the year 1900 on. *)
THEOREM DifferenceInverse == Spec => []DifferenceAddsBack
  <1>1. IInv => DifferenceAddsBack
    BY DEF IInv
  <1> QED
    BY <1>1, InitInv, NextInv, PTL DEF Spec

(* The conversions to time_point and time_t are exact or throw. *)
THEOREM ConversionsExact == Spec => []ConversionsAreExact
  <1>1. IInv => ConversionsAreExact
    BY DEF IInv
  <1> QED
    BY <1>1, InitInv, NextInv, PTL DEF Spec

(* An Asn1Time never leaves the range of ASN1_TIME. *)
THEOREM TypeCorrect == Spec => []TypeOK
  <1>1. IInv => TypeOK
    BY DEF IInv
  <1> QED
    BY <1>1, InitInv, NextInv, PTL DEF Spec

(* All that Asn1Time promises, in one.                                     *)
THEOREM TimesExact == Spec => []TimesAreExact
BY TypeCorrect, PlusExact, MinusExact, DifferenceInverse, ConversionsExact, PTL
   DEF TimesAreExact
-----------------------------------------------------------------------------
Less == {ss \in Nat \X Nat : ss[1] < ss[2]}

(* A set of naturals that is not empty has a least element. *)
LEMMA LeastNumber ==
    ASSUME NEW T \in SUBSET Nat, T # {}
    PROVE  \E x \in T : \A y \in T : x <= y
  <1>1. IsWellFoundedOn(Less, Nat)
    BY NatLessThanWellFounded DEF OpToRel, Less
  <1>2. PICK x \in T : \A y \in T : <<y, x>> \notin Less
    <2>1. T \subseteq Nat
      OBVIOUS
    <2> QED
      BY <1>1, <2>1, WFMin
  <1>3. ASSUME NEW y \in T PROVE x <= y
    <2>1. x \in Nat /\ y \in Nat
      OBVIOUS
    <2>2. <<y, x>> \in Nat \X Nat /\ <<y, x>>[1] = y /\ <<y, x>>[2] = x
      BY <2>1
    <2>3. ~(y < x)
      BY <1>2, <2>2 DEF Less
    <2> QED
      BY <2>1, <2>3
  <1> QED
    BY <1>3
-----------------------------------------------------------------------------
(***************************************************************************)
(* Hexadecimal strings of any length.                                      *)
(***************************************************************************)

(* A digit stands for a number below 16, and strtoul() takes none of the   *)
(* characters it treats in their own way for one.                          *)
LEMMA DigitLemma ==
    ASSUME NEW c, Hex!IsDigit(c)
    PROVE  /\ Hex!DigitValue[c] \in 0 .. 15
           /\ c # " " /\ c # "+" /\ c # "-" /\ c # "x" /\ c # Hex!NUL
  <1>1. c \in {"0", "1", "2", "3", "4", "5", "6", "7", "8", "9", "a", "b", "c", "d", "e", "f",
               "A", "B", "C", "D", "E", "F"}
    BY DEF Hex!IsDigit, Hex!DigitValue, Hex!ToSet, Hex!Lower, Hex!Upper
  <1>2. \E v \in 0 .. 15 : Hex!Lower[v + 1] = c \/ (v > 9 /\ Hex!Upper[v - 9] = c)
    BY <1>1 DEF Hex!Lower, Hex!Upper
  <1>3. Hex!DigitValue[c] = CHOOSE v \in 0 .. 15 : Hex!Lower[v + 1] = c \/ (v > 9 /\ Hex!Upper[v - 9] = c)
    BY DEF Hex!IsDigit, Hex!DigitValue
  <1>4. Hex!DigitValue[c] \in 0 .. 15
    BY <1>2, <1>3
  <1> QED
    BY <1>1, <1>4 DEF Hex!NUL

(* The digits toHex() writes are read as what they stand for. *)
LEMMA LowerLemma ==
    ASSUME NEW v \in 0 .. 15
    PROVE  Hex!IsDigit(Hex!Lower[v + 1]) /\ Hex!DigitValue[Hex!Lower[v + 1]] = v
  <1> DEFINE c == Hex!Lower[v + 1]
  <1>1. v + 1 \in 1 .. 16 /\ Hex!IsDigit(c)
    BY DEF Hex!IsDigit, Hex!DigitValue, Hex!ToSet, Hex!Lower, Hex!Upper
  <1>2. ASSUME NEW w \in 0 .. 15, Hex!Lower[w + 1] = c \/ (w > 9 /\ Hex!Upper[w - 9] = c)
        PROVE  w = v
    BY <1>2 DEF Hex!Lower, Hex!Upper
  <1>3. Hex!DigitValue[c] = CHOOSE w \in 0 .. 15 : Hex!Lower[w + 1] = c \/ (w > 9 /\ Hex!Upper[w - 9] = c)
    BY <1>1 DEF Hex!IsDigit, Hex!DigitValue
  <1> HIDE DEF c
  <1>4. \E w \in 0 .. 15 : Hex!Lower[w + 1] = c \/ (w > 9 /\ Hex!Upper[w - 9] = c)
    BY DEF c
  <1> QED
    BY <1>1, <1>2, <1>3, <1>4 DEF c

(* Digits come after at most two spaces and a sign. *)
LEMMA FirstDigitRange ==
    ASSUME NEW s
    PROVE  Hex!Sign(s) \in {0, 1} /\ Hex!FirstDigit(s) \in 1 .. 4
  <1>1. Hex!Spaces(s) = 0 \/ Hex!Spaces(s) = 1 \/ Hex!Spaces(s) = 2
    BY Zenon DEF Hex!Spaces
  <1>2. Hex!Sign(s) = 0 \/ Hex!Sign(s) = 1
    BY Zenon DEF Hex!Sign
  <1> QED
    BY <1>1, <1>2 DEF Hex!FirstDigit

(* strtoul() of one character uses it if it is a digit. *)
LEMMA StrtoulOne ==
    ASSUME NEW a
    PROVE  /\ Hex!IsDigit(a) => /\ Hex!StrtoulEnd(<<a>>) = 1
                                /\ Hex!StrtoulValue(<<a>>) = Hex!DigitValue[a]
           /\ ~Hex!IsDigit(a) => Hex!StrtoulEnd(<<a>>) = 0
  <1> DEFINE s == <<a>>
  <1>0. s # <<>> /\ Len(s) = 1 /\ s[1] = a
    OBVIOUS
  <1> HIDE DEF s
  <1>1. CASE Hex!IsDigit(a)
    <2>1. a # " " /\ a # "+" /\ a # "-"
      BY <1>1, DigitLemma
    <2>2. Hex!Spaces(s) = 0
      BY <1>0, <2>1 DEF Hex!Spaces
    <2>3. Hex!Sign(s) = 0
      <3>1. Hex!Spaces(s) + 1 = 1 /\ s[Hex!Spaces(s) + 1] = a
        BY <1>0, <2>2
      <3> QED
        BY <2>1, <3>1 DEF Hex!Sign
    <2>4. Hex!FirstDigit(s) = 1
      BY <2>2, <2>3 DEF Hex!FirstDigit
    <2>5. Hex!StrtoulEnd(s) = 1
      BY <1>0, <1>1, <2>4 DEF Hex!StrtoulEnd
    <2>6. Hex!StrtoulValue(s) = Hex!DigitValue[a]
      BY <1>0, <2>3, <2>4, <2>5 DEF Hex!StrtoulValue, Hex!Magnitude
    <2> QED
      BY <1>1, <2>5, <2>6 DEF s
  <1>2. CASE ~Hex!IsDigit(a)
    <2>1. Hex!FirstDigit(s) \in 1 .. 4
      BY FirstDigitRange
    <2>2. Hex!StrtoulEnd(s) = 0
      BY <1>0, <1>2, <2>1 DEF Hex!StrtoulEnd
    <2> QED
      BY <1>2, <2>2 DEF s
  <1> QED
    BY <1>1, <1>2

(* strtoul() of two characters uses both if they are digits, and never a   *)
(* letter that is none.                                                    *)
LEMMA StrtoulTwo ==
    ASSUME NEW a, NEW b
    PROVE  /\ Hex!IsDigit(a) /\ Hex!IsDigit(b) =>
                /\ Hex!StrtoulEnd(<<a, b>>) = 2
                /\ Hex!StrtoulValue(<<a, b>>) = 16 * Hex!DigitValue[a] + Hex!DigitValue[b]
           /\ ~Hex!IsDigit(a) /\ a \notin {" ", "+", "-"} => Hex!StrtoulEnd(<<a, b>>) # 2
           /\ ~Hex!IsDigit(b) => Hex!StrtoulEnd(<<a, b>>) # 2
  <1> DEFINE s == <<a, b>>
  <1>0. s # <<>> /\ Len(s) = 2 /\ s[1] = a /\ s[2] = b
    OBVIOUS
  <1> HIDE DEF s
  <1>1. ASSUME a \notin {" ", "+", "-"} PROVE Hex!FirstDigit(s) = 1 /\ Hex!Sign(s) = 0
    <2>2. Hex!Spaces(s) = 0
      BY <1>0, <1>1 DEF Hex!Spaces
    <2>3. Hex!Sign(s) = 0
      <3>1. Hex!Spaces(s) + 1 = 1 /\ s[Hex!Spaces(s) + 1] = a
        BY <1>0, <2>2
      <3> QED
        BY <1>1, <3>1 DEF Hex!Sign
    <2> QED
      BY <2>2, <2>3 DEF Hex!FirstDigit
  <1>2. ASSUME Hex!IsDigit(a), Hex!IsDigit(b)
        PROVE  /\ Hex!StrtoulEnd(s) = 2
               /\ Hex!StrtoulValue(s) = 16 * Hex!DigitValue[a] + Hex!DigitValue[b]
    <2>1. a # " " /\ a # "+" /\ a # "-"
      BY <1>2, DigitLemma
    <2>2. Hex!FirstDigit(s) = 1 /\ Hex!Sign(s) = 0
      BY <1>1, <2>1
    <2>3. Hex!StrtoulEnd(s) = 2
      BY <1>0, <1>2, <2>2 DEF Hex!StrtoulEnd
    <2>4. Hex!StrtoulValue(s) = 16 * Hex!DigitValue[a] + Hex!DigitValue[b]
      BY <1>0, <2>2, <2>3 DEF Hex!StrtoulValue, Hex!Magnitude
    <2> QED
      BY <2>3, <2>4
  <1>3. ASSUME ~Hex!IsDigit(a), a \notin {" ", "+", "-"} PROVE Hex!StrtoulEnd(s) # 2
    <2>1. Hex!FirstDigit(s) = 1 /\ s[Hex!FirstDigit(s)] = a
      BY <1>0, <1>1, <1>3
    <2>2. Hex!StrtoulEnd(s) = 0
      BY <1>3, <2>1 DEF Hex!StrtoulEnd
    <2> QED
      BY <2>2
  <1>4. ASSUME ~Hex!IsDigit(b) PROVE Hex!StrtoulEnd(s) # 2
    <2>1. Hex!FirstDigit(s) \in 1 .. 4
      BY FirstDigitRange
    <2> QED
      BY <1>0, <1>4, <2>1 DEF Hex!StrtoulEnd
  <1> QED
    BY <1>2, <1>3, <1>4 DEF s

(* c_str() of one or two characters ends at the first NUL. *)
LEMMA CStringLemma ==
    /\ \A a : Hex!CString(<<a>>) = IF a = Hex!NUL THEN <<>> ELSE <<a>>
    /\ \A a, b : Hex!CString(<<a, b>>) = IF a = Hex!NUL THEN <<>>
                                         ELSE IF b = Hex!NUL THEN <<a>> ELSE <<a, b>>
  <1>1. ASSUME NEW s, NEW n \in Nat, Len(s) = n, NEW k \in 1 .. n, s[k] = Hex!NUL,
               \A j \in 1 .. n : j < k => s[j] # Hex!NUL
        PROVE  Hex!CString(s) = SubSeq(s, 1, k - 1)
    <2> DEFINE nuls == {i \in 1 .. Len(s) : s[i] = Hex!NUL}
    <2>1. k \in nuls /\ k \in Nat /\ \A j \in nuls : k <= j /\ j \in Nat
      BY <1>1
    <2>2. Hex!CString(s) = IF nuls = {} THEN s ELSE SubSeq(s, 1, Hex!Min(nuls) - 1)
      BY DEF Hex!CString
    <2> HIDE DEF nuls
    <2> DEFINE m == Hex!Min(nuls)
    <2>3. m \in nuls /\ \A j \in nuls : m <= j
      BY <2>1 DEF Hex!Min
    <2> HIDE DEF m
    <2>4. m \in Nat /\ m <= k /\ k <= m
      BY <2>1, <2>3
    <2>5. m = k
      BY <2>1, <2>4
    <2> QED
      BY <2>1, <2>2, <2>5 DEF m
  <1>2. ASSUME NEW s, \A j \in 1 .. Len(s) : s[j] # Hex!NUL PROVE Hex!CString(s) = s
    <2>1. {i \in 1 .. Len(s) : s[i] = Hex!NUL} = {}
      BY <1>2
    <2> QED
      BY <2>1 DEF Hex!CString
  <1>3. ASSUME NEW a PROVE Hex!CString(<<a>>) = IF a = Hex!NUL THEN <<>> ELSE <<a>>
    <2> DEFINE s == <<a>>
    <2>1. Len(s) = 1 /\ s[1] = a /\ SubSeq(s, 1, 1 - 1) = <<>>
      OBVIOUS
    <2>2. CASE a = Hex!NUL
      <3> HIDE DEF s
      <3>1. 1 \in Nat /\ 1 \in 1 .. 1 /\ \A j \in 1 .. 1 : j < 1 => s[j] # Hex!NUL
        OBVIOUS
      <3>2. Hex!CString(s) = SubSeq(s, 1, 1 - 1)
        BY <1>1, <2>1, <2>2, <3>1, Zenon
      <3> QED
        BY <2>1, <2>2, <3>2 DEF s
    <2>3. CASE a # Hex!NUL
      <3>1. \A j \in 1 .. Len(s) : s[j] # Hex!NUL
        BY <2>1, <2>3
      <3> QED
        BY <1>2, <2>3, <3>1
    <2> QED
      BY <2>2, <2>3
  <1>4. ASSUME NEW a, NEW b
        PROVE  Hex!CString(<<a, b>>) = IF a = Hex!NUL THEN <<>>
                                       ELSE IF b = Hex!NUL THEN <<a>> ELSE <<a, b>>
    <2> DEFINE s == <<a, b>>
    <2>1. /\ Len(s) = 2 /\ s[1] = a /\ s[2] = b
          /\ SubSeq(s, 1, 1 - 1) = <<>> /\ SubSeq(s, 1, 2 - 1) = <<a>>
      <3>1. Len(s) = 2 /\ s[1] = a /\ s[2] = b
        OBVIOUS
      <3> HIDE DEF s
      <3>2. SubSeq(s, 1, 1 - 1) = <<>>
        BY SubSeqEmpty
      <3>3. SubSeq(s, 1, 1) = <<a>>
        <4> DEFINE x == SubSeq(s, 1, 1)
        <4>1. \A i \in 1 .. 1 : s[i] \in {a}
          BY <3>1
        <4>2. x \in Seq({a}) /\ Len(x) = 1
          BY <4>1, SubSeqProperties
        <4>3. x[1] = a
          BY <4>2, ElementOfSeq
        <4> HIDE DEF x
        <4>4. x = <<a>>
          BY <4>2, <4>3
        <4> QED
          BY <4>4 DEF x
      <3> QED
        BY <3>1, <3>2, <3>3
    <2>2. CASE a = Hex!NUL
      <3> HIDE DEF s
      <3>1. 2 \in Nat /\ 1 \in 1 .. 2 /\ \A j \in 1 .. 2 : j < 1 => s[j] # Hex!NUL
        OBVIOUS
      <3>2. Hex!CString(s) = SubSeq(s, 1, 1 - 1)
        BY <1>1, <2>1, <2>2, <3>1, Zenon
      <3> QED
        BY <2>1, <2>2, <3>2 DEF s
    <2>3. CASE a # Hex!NUL /\ b = Hex!NUL
      <3> HIDE DEF s
      <3>1. 2 \in Nat /\ 2 \in 1 .. 2 /\ \A j \in 1 .. 2 : j < 2 => s[j] # Hex!NUL
        BY <2>1, <2>3
      <3>2. Hex!CString(s) = SubSeq(s, 1, 2 - 1)
        BY <1>1, <2>1, <2>3, <3>1, Zenon
      <3> QED
        BY <2>1, <2>3, <3>2 DEF s
    <2>4. CASE a # Hex!NUL /\ b # Hex!NUL
      <3>1. \A j \in 1 .. Len(s) : s[j] # Hex!NUL
        BY <2>1, <2>4
      <3> QED
        BY <1>2, <2>4, <3>1
    <2> QED
      BY <2>2, <2>3, <2>4
  <1> QED
    BY <1>3, <1>4

(* A chunk of digits is valid and means its byte. *)
LEMMA DigitChunk ==
    /\ \A a : Hex!IsDigit(a) =>
            Hex!EntireChunkIsValid(<<a>>) /\ Hex!Byte(<<a>>) = Hex!DigitValue[a]
    /\ \A a, b : Hex!IsDigit(a) /\ Hex!IsDigit(b) =>
            /\ Hex!EntireChunkIsValid(<<a, b>>)
            /\ Hex!Byte(<<a, b>>) = 16 * Hex!DigitValue[a] + Hex!DigitValue[b]
  <1>1. ASSUME NEW a, Hex!IsDigit(a)
        PROVE  Hex!EntireChunkIsValid(<<a>>) /\ Hex!Byte(<<a>>) = Hex!DigitValue[a]
    <2>1. Hex!DigitValue[a] \in 0 .. 15 /\ a # Hex!NUL
      BY <1>1, DigitLemma
    <2>2. Hex!CString(<<a>>) = <<a>>
      BY <2>1, CStringLemma
    <2>3. Hex!StrtoulEnd(<<a>>) = 1 /\ Hex!StrtoulValue(<<a>>) = Hex!DigitValue[a]
      BY <1>1, StrtoulOne
    <2>4. Hex!EntireChunkIsValid(<<a>>)
      <3>1. <<a>> # <<>> /\ Len(<<a>>) = 1
        OBVIOUS
      <3> QED
        BY <2>2, <2>3, <3>1, Zenon DEF Hex!EntireChunkIsValid
    <2>5. Hex!DigitValue[a] % 256 = Hex!DigitValue[a]
      BY <2>1
    <2> QED
      BY <2>2, <2>3, <2>4, <2>5 DEF Hex!Byte
  <1>2. ASSUME NEW a, NEW b, Hex!IsDigit(a), Hex!IsDigit(b)
        PROVE  /\ Hex!EntireChunkIsValid(<<a, b>>)
               /\ Hex!Byte(<<a, b>>) = 16 * Hex!DigitValue[a] + Hex!DigitValue[b]
    <2> DEFINE v == 16 * Hex!DigitValue[a] + Hex!DigitValue[b]
    <2>1. /\ Hex!DigitValue[a] \in 0 .. 15 /\ a # Hex!NUL
          /\ Hex!DigitValue[b] \in 0 .. 15 /\ b # Hex!NUL
      BY <1>2, DigitLemma
    <2>2. Hex!CString(<<a, b>>) = <<a, b>>
      BY <2>1, CStringLemma
    <2>3. Hex!StrtoulEnd(<<a, b>>) = 2 /\ Hex!StrtoulValue(<<a, b>>) = v
      BY <1>2, StrtoulTwo
    <2>4. Hex!EntireChunkIsValid(<<a, b>>)
      <3>1. <<a, b>> # <<>> /\ Len(<<a, b>>) = 2
        OBVIOUS
      <3> QED
        BY <2>2, <2>3, <3>1, Zenon DEF Hex!EntireChunkIsValid
    <2>5. v % 256 = v
      BY <2>1
    <2> HIDE DEF v
    <2> QED
      BY <2>2, <2>3, <2>4, <2>5 DEF Hex!Byte, v
  <1> QED
    BY <1>1, <1>2

NoDigit(c) == ~Hex!IsDigit(c) /\ c \notin {" ", "+", "-", Hex!NUL}

(* A chunk with a letter that is no digit is refused wherever the letter   *)
(* stands.                                                                 *)
LEMMA BadChunk ==
    /\ \A a : NoDigit(a) => ~Hex!EntireChunkIsValid(<<a>>)
    /\ \A a, b : NoDigit(a) \/ NoDigit(b) => ~Hex!EntireChunkIsValid(<<a, b>>)
  <1>1. ASSUME NEW a, NoDigit(a)
        PROVE  ~Hex!EntireChunkIsValid(<<a>>)
    <2>1. Hex!CString(<<a>>) = <<a>> /\ Hex!StrtoulEnd(<<a>>) = 0
      BY <1>1, CStringLemma, StrtoulOne DEF NoDigit
    <2> QED
      BY <2>1 DEF Hex!EntireChunkIsValid
  <1>2. ASSUME NEW a, NEW b, NoDigit(a) \/ NoDigit(b)
        PROVE  ~Hex!EntireChunkIsValid(<<a, b>>)
    <2>1. CASE a = Hex!NUL
      <3>1. Hex!CString(<<a, b>>) = <<>>
        BY <2>1, CStringLemma
      <3> QED
        BY <3>1 DEF Hex!EntireChunkIsValid
    <2>2. CASE a # Hex!NUL /\ b = Hex!NUL
      <3>1. NoDigit(a)
        BY <1>2, <2>2 DEF NoDigit
      <3>2. Hex!CString(<<a, b>>) = <<a>>
        BY <2>2, CStringLemma
      <3>3. Hex!StrtoulEnd(<<a>>) = 0
        BY <3>1, StrtoulOne DEF NoDigit
      <3> QED
        BY <3>2, <3>3 DEF Hex!EntireChunkIsValid
    <2>3. CASE a # Hex!NUL /\ b # Hex!NUL
      <3>1. Hex!CString(<<a, b>>) = <<a, b>>
        BY <2>3, CStringLemma
      <3>2. Hex!StrtoulEnd(<<a, b>>) # 2
        BY <1>2, StrtoulTwo DEF NoDigit
      <3> QED
        BY <3>1, <3>2 DEF Hex!EntireChunkIsValid
    <2> QED
      BY <2>1, <2>2, <2>3
  <1> QED
    BY <1>1, <1>2

(* What is kept of the result of strtoul() is a byte. *)
LEMMA ByteLemma ==
    ASSUME NEW chunk
    PROVE  Hex!Byte(chunk) \in 0 .. 255
  <1> DEFINE s == Hex!CString(chunk)
             first == Hex!FirstDigit(s)
  <1>1. first \in 1 .. 4 /\ first # 0
    BY FirstDigitRange
  <1>2. Hex!Magnitude(s) \in 0 .. 255
    <2>1. CASE Hex!StrtoulEnd(s) = 0
      BY <2>1 DEF Hex!Magnitude
    <2>2. CASE Hex!StrtoulEnd(s) # 0 /\ Hex!StrtoulEnd(s) = first
      <3>1. Hex!IsDigit(s[first])
        BY <2>2 DEF Hex!StrtoulEnd
      <3>2. Hex!DigitValue[s[first]] \in 0 .. 15
        BY <3>1, DigitLemma
      <3> QED
        BY <2>2, <3>2 DEF Hex!Magnitude
    <2>3. CASE Hex!StrtoulEnd(s) # 0 /\ Hex!StrtoulEnd(s) # first
      <3>1. Hex!IsDigit(s[first]) /\ Hex!IsDigit(s[first + 1])
        BY <2>3 DEF Hex!StrtoulEnd
      <3>2. Hex!DigitValue[s[first]] \in 0 .. 15 /\ Hex!DigitValue[s[first + 1]] \in 0 .. 15
        BY <3>1, DigitLemma
      <3> QED
        BY <2>3, <3>2 DEF Hex!Magnitude
    <2> QED
      BY <2>1, <2>2, <2>3
  <1> HIDE DEF s
  <1>3. Hex!StrtoulValue(s) \in Nat
    BY <1>2 DEF Hex!StrtoulValue, Hex!ULongMod
  <1> QED
    BY <1>3 DEF Hex!Byte, s

(* The characters of a chunk that starts at position p *)
ChunkAt(s, p) == IF p + 1 <= Len(s) THEN <<s[p], s[p + 1]>> ELSE <<s[p]>>

(* substr(i, 2) has two characters, or the last one of the string. *)
LEMMA SubstrLemma ==
    ASSUME NEW S, NEW s \in Seq(S), NEW p \in 1 .. Len(s)
    PROVE  SubSeq(s, p, IF p + 1 < Len(s) THEN p + 1 ELSE Len(s)) = ChunkAt(s, p)
  <1>0. Len(s) \in Nat /\ p \in Nat /\ \A i \in 1 .. Len(s) : s[i] \in S
    BY LenProperties, ElementOfSeq
  <1>1. CASE p + 1 <= Len(s)
    <2> DEFINE x == SubSeq(s, p, p + 1)
    <2>1. (IF p + 1 < Len(s) THEN p + 1 ELSE Len(s)) = p + 1
      BY <1>0, <1>1
    <2>2. \A i \in p .. p + 1 : s[i] \in S
      BY <1>0, <1>1
    <2>3. x \in Seq(S) /\ Len(x) = 2 /\ \A i \in 1 .. 2 : x[i] = s[p + i - 1]
      <3>1. p \in Int /\ p + 1 \in Int /\ p <= p + 1 /\ (p + 1) - p + 1 = 2
        BY <1>0
      <3>2. /\ x \in Seq(S) /\ Len(x) = IF p <= p + 1 THEN (p + 1) - p + 1 ELSE 0
            /\ \A i \in 1 .. (p + 1) - p + 1 : x[i] = s[p + i - 1]
        BY <2>2, <3>1, SubSeqProperties
      <3> QED
        BY <3>1, <3>2
    <2>4. x[1] = s[p] /\ x[2] = s[p + 1]
      <3>1. p + 1 - 1 = p /\ p + 2 - 1 = p + 1 /\ 1 \in 1 .. 2 /\ 2 \in 1 .. 2
        BY <1>0
      <3> HIDE DEF x
      <3> QED
        BY <2>3, <3>1
    <2> HIDE DEF x
    <2>5. x = <<s[p], s[p + 1]>>
      BY <2>3, <2>4
    <2> QED
      BY <1>1, <2>1, <2>5 DEF x, ChunkAt
  <1>2. CASE ~(p + 1 <= Len(s))
    <2> DEFINE x == SubSeq(s, p, p)
    <2>1. (IF p + 1 < Len(s) THEN p + 1 ELSE Len(s)) = p
      BY <1>0, <1>2
    <2>2. \A i \in p .. p : s[i] \in {s[p]}
      BY <1>0
    <2>3. x \in Seq({s[p]}) /\ Len(x) = 1
      BY <1>0, <2>2, SubSeqProperties
    <2>4. x[1] = s[p]
      BY <2>3, ElementOfSeq
    <2> HIDE DEF x
    <2>5. x = <<s[p]>>
      BY <2>3, <2>4
    <2> QED
      BY <1>2, <2>1, <2>5 DEF x, ChunkAt
  <1> QED
    BY <1>1, <1>2

(* The prefix is the first two characters, or there is none. *)
LEMMA StartPosRange ==
    ASSUME NEW S, NEW s \in Seq(S)
    PROVE  /\ Hex!StartPos(s) \in {1, 3} /\ Hex!StartPos(s) <= Len(s) + 1
           /\ Hex!StartPos(s) = 3 => Len(s) > 1 /\ s[1] = "0" /\ s[2] = "x"
           /\ /\ Len(s) > 1 /\ s[1] = "0" /\ s[2] = "x"
              /\ \A i \in 3 .. Len(s) : s[i] # "x"
              => Hex!StartPos(s) = 3
  <1>0. Len(s) \in Nat
    BY LenProperties
  <1> DEFINE found == {i \in 1 .. (Len(s) - 1) : s[i] = "0" /\ s[i + 1] = "x"}
  <1>1. Hex!StartPos(s) = IF 1 \in found /\ \A i \in found : i = 1 THEN 3 ELSE 1
    BY DEF Hex!StartPos
  <1>2. 1 \in found <=> Len(s) > 1 /\ s[1] = "0" /\ s[2] = "x"
    BY <1>0
  <1>3. ASSUME \A i \in 3 .. Len(s) : s[i] # "x", NEW i \in found PROVE i = 1
    BY <1>0, <1>3
  <1> HIDE DEF found
  <1> QED
    BY <1>0, <1>1, <1>2, <1>3

Count(s) == (Len(s) - Hex!StartPos(s) + 2) \div 2

(* The loop of fromHex() looks at every character behind the prefix, in    *)
(* pairs.                                                                  *)
LEMMA ChunksLemma ==
    ASSUME NEW S, NEW s \in Seq(S)
    PROVE  /\ Count(s) \in Nat /\ Count(s) <= Len(s) /\ Len(Hex!Chunks(s)) = Count(s)
           /\ \A k \in 1 .. Count(s) :
                /\ Hex!StartPos(s) + 2 * (k - 1) \in Hex!StartPos(s) .. Len(s)
                /\ Hex!Chunks(s)[k] = ChunkAt(s, Hex!StartPos(s) + 2 * (k - 1))
           /\ \A i \in Hex!StartPos(s) .. Len(s) : \E k \in 1 .. Count(s) :
                i = Hex!StartPos(s) + 2 * (k - 1) \/ i = Hex!StartPos(s) + 2 * (k - 1) + 1
  <1> DEFINE start == Hex!StartPos(s)
             n == (Len(s) - start + 2) \div 2
  <1>0. Len(s) \in Nat /\ start \in Nat /\ start <= Len(s) + 1 /\ start > 0
    BY LenProperties, StartPosRange
  <1> HIDE DEF start
  <1>1. n \in Nat /\ n <= Len(s) /\ 2 * n <= Len(s) - start + 2 /\ Len(s) - start + 1 <= 2 * n
    BY <1>0
  <1>2. Hex!Chunks(s) = [k \in 1 .. n |-> SubSeq(s, start + 2 * (k - 1),
                                IF start + 2 * k - 1 < Len(s) THEN start + 2 * k - 1 ELSE Len(s))]
    BY DEF Hex!Chunks, start
  <1> HIDE DEF n
  <1>3. Len(Hex!Chunks(s)) = n
    BY <1>1, <1>2
  <1>4. ASSUME NEW k \in 1 .. n
        PROVE  start + 2 * (k - 1) \in start .. Len(s)
               /\ Hex!Chunks(s)[k] = ChunkAt(s, start + 2 * (k - 1))
    <2> DEFINE p == start + 2 * (k - 1)
    <2>1. p \in 1 .. Len(s) /\ p \in start .. Len(s) /\ start + 2 * k - 1 = p + 1
      BY <1>0, <1>1
    <2>2. Hex!Chunks(s)[k] = SubSeq(s, p, IF start + 2 * k - 1 < Len(s) THEN start + 2 * k - 1 ELSE Len(s))
      BY <1>2
    <2> HIDE DEF p
    <2>3. Hex!Chunks(s)[k] = SubSeq(s, p, IF p + 1 < Len(s) THEN p + 1 ELSE Len(s))
      BY <2>1, <2>2
    <2> QED
      BY <2>1, <2>3, SubstrLemma DEF p
  <1>5. ASSUME NEW i \in start .. Len(s)
        PROVE  \E k \in 1 .. n : i = start + 2 * (k - 1) \/ i = start + 2 * (k - 1) + 1
    <2> DEFINE k == (i - start) \div 2 + 1
    <2>1. i \in Int /\ start <= i /\ i <= Len(s)
      BY <1>0
    <2>2. k \in Nat /\ (i = start + 2 * (k - 1) \/ i = start + 2 * (k - 1) + 1)
      BY <1>0, <2>1
    <2> HIDE DEF k
    <2>3. k \in 1 .. n
      BY <1>0, <1>1, <2>1, <2>2
    <2> QED
      BY <2>2, <2>3
  <1> QED
    BY <1>1, <1>3, <1>4, <1>5 DEF Count, start, n

(* The value of the chunk at position p, if it has digits only *)
ValueAt(s, p) ==
    IF p + 1 <= Len(s) THEN 16 * Hex!DigitValue[s[p]] + Hex!DigitValue[s[p + 1]]
    ELSE Hex!DigitValue[s[p]]

(* A string of digits is taken for its bytes. *)
LEMMA FromHexDigits ==
    ASSUME NEW S, NEW s \in Seq(S),
           \A i \in Hex!StartPos(s) .. Len(s) : Hex!IsDigit(s[i])
    PROVE  Hex!FromHex(s) =
                [end |-> "returned",
                 bytes |-> [k \in 1 .. Count(s) |-> ValueAt(s, Hex!StartPos(s) + 2 * (k - 1))]]
  <1> DEFINE At(k) == Hex!StartPos(s) + 2 * (k - 1)
  <1>1. /\ Count(s) \in Nat /\ Len(Hex!Chunks(s)) = Count(s)
        /\ \A k \in 1 .. Count(s) : /\ At(k) \in Hex!StartPos(s) .. Len(s)
                                    /\ Hex!Chunks(s)[k] = ChunkAt(s, At(k))
    BY ChunksLemma
  <1>2. Len(s) \in Nat /\ Hex!StartPos(s) \in Nat
    BY LenProperties, StartPosRange
  <1> HIDE DEF At
  <1>3. ASSUME NEW k \in 1 .. Count(s)
        PROVE  /\ Hex!EntireChunkIsValid(Hex!Chunks(s)[k])
               /\ Hex!Byte(Hex!Chunks(s)[k]) = ValueAt(s, At(k))
    <2>0. At(k) \in Hex!StartPos(s) .. Len(s) /\ Hex!Chunks(s)[k] = ChunkAt(s, At(k))
      BY <1>1
    <2>1. Hex!IsDigit(s[At(k)])
      BY <2>0
    <2>2. CASE At(k) + 1 <= Len(s)
      <3>1. At(k) + 1 \in Hex!StartPos(s) .. Len(s)
        BY <1>2, <2>0, <2>2
      <3>2. Hex!IsDigit(s[At(k) + 1])
        BY <3>1
      <3>3. Hex!Chunks(s)[k] = <<s[At(k)], s[At(k) + 1]>>
        BY <2>0, <2>2 DEF ChunkAt
      <3>4. ValueAt(s, At(k)) = 16 * Hex!DigitValue[s[At(k)]] + Hex!DigitValue[s[At(k) + 1]]
        BY <2>2 DEF ValueAt
      <3> QED
        BY <2>1, <3>2, <3>3, <3>4, DigitChunk, Zenon
    <2>3. CASE ~(At(k) + 1 <= Len(s))
      <3>1. Hex!Chunks(s)[k] = <<s[At(k)]>> /\ ValueAt(s, At(k)) = Hex!DigitValue[s[At(k)]]
        BY <2>0, <2>3 DEF ChunkAt, ValueAt
      <3> QED
        BY <2>1, <3>1, DigitChunk, Zenon
    <2> QED
      BY <2>2, <2>3
  <1>4. [k \in 1 .. Len(Hex!Chunks(s)) |-> Hex!Byte(Hex!Chunks(s)[k])]
            = [k \in 1 .. Count(s) |-> ValueAt(s, At(k))]
    BY <1>1, <1>3
  <1>5. \A k \in 1 .. Len(Hex!Chunks(s)) : Hex!EntireChunkIsValid(Hex!Chunks(s)[k])
    BY <1>1, <1>3
  <1> QED
    BY <1>4, <1>5 DEF Hex!FromHex, At

(* A string with a letter that is no digit is refused. *)
LEMMA FromHexRefuses ==
    ASSUME NEW S, NEW s \in Seq(S), NEW i \in Hex!StartPos(s) .. Len(s), NoDigit(s[i])
    PROVE  Hex!FromHex(s).end = "MoCOCrWException"
  <1> DEFINE At(k) == Hex!StartPos(s) + 2 * (k - 1)
  <1>1. /\ Count(s) \in Nat /\ Len(Hex!Chunks(s)) = Count(s)
        /\ \A k \in 1 .. Count(s) : /\ At(k) \in Hex!StartPos(s) .. Len(s)
                                    /\ Hex!Chunks(s)[k] = ChunkAt(s, At(k))
        /\ \E k \in 1 .. Count(s) : i = At(k) \/ i = At(k) + 1
    BY ChunksLemma
  <1>2. Len(s) \in Nat /\ Hex!StartPos(s) \in Nat
    BY LenProperties, StartPosRange
  <1> HIDE DEF At
  <1>3. PICK k \in 1 .. Count(s) : i = At(k) \/ i = At(k) + 1
    BY <1>1
  <1>4. At(k) \in Hex!StartPos(s) .. Len(s) /\ Hex!Chunks(s)[k] = ChunkAt(s, At(k))
    BY <1>1
  <1>5. ~Hex!EntireChunkIsValid(Hex!Chunks(s)[k])
    <2>1. CASE At(k) + 1 <= Len(s)
      <3>1. Hex!Chunks(s)[k] = <<s[At(k)], s[At(k) + 1]>>
        BY <1>4, <2>1 DEF ChunkAt
      <3> QED
        BY <1>3, <3>1, BadChunk, Zenon
    <2>2. CASE ~(At(k) + 1 <= Len(s))
      <3>1. Hex!Chunks(s)[k] = <<s[At(k)]>>
        BY <1>4, <2>2 DEF ChunkAt
      <3>2. i = At(k)
        BY <1>2, <1>3, <1>4, <2>2
      <3> QED
        BY <3>1, <3>2, BadChunk, Zenon
    <2> QED
      BY <2>1, <2>2
  <1> QED
    BY <1>1, <1>5 DEF Hex!FromHex

(* A function on the first naturals is a sequence. *)
LEMMA FunctionIsSeq ==
    ASSUME NEW S, NEW n \in Nat, NEW f \in [1 .. n -> S]
    PROVE  f \in Seq(S) /\ Len(f) = n
  <1>1. f \in Seq(S)
    BY SeqDef
  <1>2. DOMAIN f = 1 .. n /\ DOMAIN f = 1 .. Len(f) /\ Len(f) \in Nat
    BY <1>1, LenProperties
  <1> QED
    BY <1>1, <1>2

(* fromHex() returns bytes, not more than the string has characters, or    *)
(* throws.                                                                 *)
LEMMA FromHexType ==
    ASSUME NEW S, NEW s \in Seq(S)
    PROVE  /\ Hex!FromHex(s).end \in {"returned", "MoCOCrWException"}
           /\ Hex!FromHex(s).bytes \in Seq(0 .. 255)
           /\ Len(Hex!FromHex(s).bytes) <= Len(s)
  <1> DEFINE n == Len(Hex!Chunks(s))
             bytes == [k \in 1 .. n |-> Hex!Byte(Hex!Chunks(s)[k])]
  <1>1. n \in Nat /\ n <= Len(s) /\ Len(s) \in Nat
    BY ChunksLemma, LenProperties
  <1>2. bytes \in [1 .. n -> 0 .. 255]
    BY ByteLemma
  <1>3. bytes \in Seq(0 .. 255) /\ Len(bytes) = n
    <2> HIDE DEF bytes, n
    <2> QED
      BY <1>1, <1>2, FunctionIsSeq
  <1>4. <<>> \in Seq(0 .. 255) /\ Len(<<>>) = 0
    BY EmptySeq
  <1>5. \/ Hex!FromHex(s) = [end |-> "returned", bytes |-> bytes]
        \/ Hex!FromHex(s) = [end |-> "MoCOCrWException", bytes |-> <<>>]
    BY DEF Hex!FromHex
  <1> HIDE DEF bytes, n
  <1>6. CASE Hex!FromHex(s) = [end |-> "returned", bytes |-> bytes]
    BY <1>1, <1>3, <1>6
  <1>7. CASE Hex!FromHex(s) = [end |-> "MoCOCrWException", bytes |-> <<>>]
    BY <1>1, <1>4, <1>7
  <1> QED
    BY <1>5, <1>6, <1>7

(* fromHex() of a string that is meant to be hexadecimal: it starts behind *)
(* the 0x, if there is one.                                                *)
LEMMA DigitsLemma ==
    ASSUME NEW S, NEW s \in Seq(S)
    PROVE  LET start == IF Len(s) > 1 /\ s[1] = "0" /\ s[2] = "x" THEN 3 ELSE 1
           IN  /\ start <= Len(s) + 1
               /\ Hex!Digits(s) \in Seq(S)
               /\ Len(Hex!Digits(s)) = Len(s) - start + 1
               /\ \A i \in 1 .. Len(Hex!Digits(s)) : Hex!Digits(s)[i] = s[i + start - 1]
               /\ Hex!IsHexString(s) => Hex!StartPos(s) = start
               /\ Hex!StartPos(s) = start \/ (Hex!StartPos(s) = 1 /\ start = 3)
  <1> DEFINE start == IF Len(s) > 1 /\ s[1] = "0" /\ s[2] = "x" THEN 3 ELSE 1
  <1>0. Len(s) \in Nat /\ \A i \in 1 .. Len(s) : s[i] \in S
    BY LenProperties, ElementOfSeq
  <1>1. CASE start = 3
    <2>1. Len(s) > 1 /\ s[1] = "0" /\ s[2] = "x" /\ start <= Len(s) + 1
      BY <1>0, <1>1
    <2> DEFINE d == SubSeq(s, 3, Len(s))
    <2>2. Hex!Digits(s) = d
      BY <2>1 DEF Hex!Digits
    <2>3. /\ d \in Seq(S) /\ Len(d) = IF 3 <= Len(s) THEN Len(s) - 3 + 1 ELSE 0
          /\ \A i \in 1 .. Len(s) - 3 + 1 : d[i] = s[3 + i - 1]
      <3>1. \A i \in 3 .. Len(s) : s[i] \in S
        BY <1>0
      <3> QED
        BY <1>0, <3>1, SubSeqProperties
    <2> HIDE DEF d
    <2>4. Len(d) = Len(s) - 3 + 1 /\ \A i \in 1 .. Len(d) : d[i] = s[i + 3 - 1]
      <3>a. Len(s) > 1 /\ Len(d) = IF 3 <= Len(s) THEN Len(s) - 3 + 1 ELSE 0
        BY <2>1, <2>3, Zenon
      <3>b. \A l \in Nat : l > 1 => (IF 3 <= l THEN l - 3 + 1 ELSE 0) = l - 3 + 1
        OBVIOUS
      <3>1. Len(d) = Len(s) - 3 + 1
        BY <1>0, <3>a, <3>b, Zenon
      <3>2. ASSUME NEW i \in 1 .. Len(d) PROVE d[i] = s[i + 3 - 1]
        <4>1. i \in 1 .. Len(s) - 3 + 1 /\ 3 + i - 1 = i + 3 - 1
          BY <1>0, <3>1
        <4>2. d[i] = s[3 + i - 1]
          BY <2>3, <4>1
        <4> QED
          BY <4>1, <4>2
      <3> QED
        BY <3>1, <3>2
    <2>5. ASSUME Hex!IsHexString(s) PROVE Hex!StartPos(s) = 3
      <3>1. ASSUME NEW i \in 3 .. Len(s) PROVE s[i] # "x"
        <4>1. i - 2 \in 1 .. Len(d) /\ d[i - 2] = s[i]
          BY <1>0, <2>4
        <4>2. Hex!IsDigit(s[i])
          BY <2>2, <2>5, <4>1 DEF Hex!IsHexString
        <4> QED
          BY <4>2, DigitLemma
      <3> QED
        BY <2>1, <3>1, StartPosRange
    <2>6. Hex!StartPos(s) = 3 \/ Hex!StartPos(s) = 1
      BY StartPosRange
    <2> QED
      BY <1>1, <2>1, <2>2, <2>3, <2>4, <2>5, <2>6
  <1>2. CASE start = 1
    <2>1. ~(Len(s) > 1 /\ s[1] = "0" /\ s[2] = "x") /\ start <= Len(s) + 1
      BY <1>0, <1>2
    <2>2. Hex!Digits(s) = s
      BY <2>1 DEF Hex!Digits
    <2>3. Hex!StartPos(s) = 1
      BY <2>1, StartPosRange
    <2>4. Len(s) = Len(s) - 1 + 1 /\ \A i \in 1 .. Len(s) : i + 1 - 1 = i
      BY <1>0
    <2> QED
      BY <1>2, <2>1, <2>2, <2>3, <2>4
  <1>3. start = 1 \/ start = 3
    OBVIOUS
  <1> QED
    BY <1>1, <1>2, <1>3

(* What fromHex() promises, for every string *)
LEMMA FromHexMeans ==
    ASSUME NEW S, NEW s \in Seq(S)
    PROVE  /\ Hex!IsHexString(s) =>
                Hex!FromHex(s) = [end |-> "returned", bytes |-> Hex!Meaning(s)]
           /\ (\E i \in 1 .. Len(Hex!Digits(s)) : NoDigit(Hex!Digits(s)[i])) =>
                Hex!FromHex(s).end = "MoCOCrWException"
  <1> DEFINE start == IF Len(s) > 1 /\ s[1] = "0" /\ s[2] = "x" THEN 3 ELSE 1
             d == Hex!Digits(s)
  <1>0. Len(s) \in Nat /\ (start = 1 \/ start = 3)
    BY LenProperties
  <1>1. /\ start <= Len(s) + 1 /\ d \in Seq(S) /\ Len(d) = Len(s) - start + 1
        /\ \A i \in 1 .. Len(d) : d[i] = s[i + start - 1]
        /\ Hex!IsHexString(s) => Hex!StartPos(s) = start
        /\ Hex!StartPos(s) = start \/ (Hex!StartPos(s) = 1 /\ start = 3)
    BY DigitsLemma
  <1>a. start = 3 => s[2] = "x" /\ Len(s) > 1
    OBVIOUS
  <1> HIDE DEF start, d
  <1>2. ASSUME Hex!IsHexString(s)
        PROVE  Hex!FromHex(s) = [end |-> "returned", bytes |-> Hex!Meaning(s)]
    <2>1. ASSUME NEW i \in Hex!StartPos(s) .. Len(s) PROVE Hex!IsDigit(s[i])
      <3>1. i - start + 1 \in 1 .. Len(d) /\ (i - start + 1) + start - 1 = i
        BY <1>0, <1>1, <1>2
      <3>2. d[i - start + 1] = s[(i - start + 1) + start - 1]
        BY <1>1, <3>1
      <3>3. d[i - start + 1] = s[i]
        BY <3>1, <3>2
      <3> QED
        BY <1>2, <3>1, <3>3 DEF Hex!IsHexString, d
    <2>2. Hex!FromHex(s) = [end |-> "returned",
                bytes |-> [k \in 1 .. Count(s) |-> ValueAt(s, Hex!StartPos(s) + 2 * (k - 1))]]
      BY <2>1, FromHexDigits
    <2>3. Count(s) = (Len(d) + 1) \div 2 /\ Hex!StartPos(s) = start
      BY <1>0, <1>1, <1>2 DEF Count
    <2>4. ASSUME NEW k \in 1 .. Count(s)
          PROVE  ValueAt(s, start + 2 * (k - 1)) =
                    IF 2 * k <= Len(d) THEN 16 * Hex!DigitValue[d[2 * k - 1]] + Hex!DigitValue[d[2 * k]]
                    ELSE Hex!DigitValue[d[2 * k - 1]]
      <3>1. 2 * k - 1 \in 1 .. Len(d) /\ (2 * k - 1) + start - 1 = start + 2 * (k - 1)
        BY <1>0, <1>1, <2>3
      <3>2. d[2 * k - 1] = s[start + 2 * (k - 1)]
        <4>1. d[2 * k - 1] = s[(2 * k - 1) + start - 1]
          BY <1>1, <3>1
        <4> QED
          BY <3>1, <4>1
      <3>3. 2 * k <= Len(d) <=> (start + 2 * (k - 1)) + 1 <= Len(s)
        BY <1>0, <1>1, <2>3, SMTT(30)
      <3>4. ASSUME 2 * k <= Len(d) PROVE d[2 * k] = s[(start + 2 * (k - 1)) + 1]
        <4>1. 2 * k \in 1 .. Len(d) /\ 2 * k + start - 1 = (start + 2 * (k - 1)) + 1
          BY <1>0, <1>1, <2>3, <3>4
        <4>2. d[2 * k] = s[2 * k + start - 1]
          BY <1>1, <4>1
        <4> QED
          BY <4>1, <4>2
      <3> QED
        BY <3>2, <3>3, <3>4 DEF ValueAt
    <2>5. [k \in 1 .. Count(s) |-> ValueAt(s, start + 2 * (k - 1))] = Hex!Meaning(s)
      BY <2>3, <2>4 DEF Hex!Meaning, d
    <2> QED
      BY <2>2, <2>3, <2>5
  <1>3. ASSUME NEW i \in 1 .. Len(d), NoDigit(d[i])
        PROVE  Hex!FromHex(s).end = "MoCOCrWException"
    <2>1. CASE Hex!StartPos(s) = start
      <3>1. i + start - 1 \in Hex!StartPos(s) .. Len(s)
        BY <1>0, <1>1, <2>1
      <3>2. NoDigit(s[i + start - 1])
        BY <1>1, <1>3
      <3> QED
        BY <3>1, <3>2, FromHexRefuses
    <2>2. CASE Hex!StartPos(s) = 1 /\ start = 3
      <3>1. s[2] = "x" /\ 2 \in Hex!StartPos(s) .. Len(s)
        BY <1>0, <1>a, <2>2
      <3>2. NoDigit(s[2])
        <4>1. ~Hex!IsDigit("x")
          BY DigitLemma
        <4> QED
          BY <3>1, <4>1 DEF NoDigit, Hex!NUL
      <3> QED
        BY <3>1, <3>2, FromHexRefuses
    <2> QED
      BY <1>1, <2>1, <2>2
  <1> QED
    BY <1>2, <1>3 DEF d

(* The two digits of a byte *)
LEMMA Nibbles ==
    ASSUME NEW b \in 0 .. 255
    PROVE  b \div 16 \in 0 .. 15 /\ b % 16 \in 0 .. 15 /\ 16 * (b \div 16) + (b % 16) = b
OBVIOUS

(* toHex() writes two digits for every byte, and they mean the byte. *)
LEMMA ToHexLemma ==
    ASSUME NEW data \in Seq(0 .. 255)
    PROVE  /\ Hex!ToHex(data) \in Seq(DOMAIN Hex!DigitValue)
           /\ Hex!FromHex(Hex!ToHex(data)) = [end |-> "returned", bytes |-> data]
  <1> DEFINE s == Hex!ToHex(data)
             n == 2 * Len(data)
             Nibble(i) == IF i % 2 = 1 THEN data[(i + 1) \div 2] \div 16 ELSE data[(i + 1) \div 2] % 16
  <1>0. Len(data) \in Nat /\ n \in Nat /\ \A j \in 1 .. Len(data) : data[j] \in 0 .. 255
    BY LenProperties, ElementOfSeq
  <1>1. ASSUME NEW i \in 1 .. n PROVE Nibble(i) \in 0 .. 15
    <2>1. (i + 1) \div 2 \in 1 .. Len(data)
      BY <1>0
    <2>2. data[(i + 1) \div 2] \in 0 .. 255
      BY <1>0, <2>1
    <2>3. /\ data[(i + 1) \div 2] \div 16 \in 0 .. 15
          /\ data[(i + 1) \div 2] % 16 \in 0 .. 15
      BY <2>2, Nibbles
    <2> QED
      BY <2>3, Zenon
  <1>2. s = [i \in 1 .. n |-> Hex!Lower[Nibble(i) + 1]]
    BY DEF Hex!ToHex
  <1>3. \A v \in 0 .. 15 : Hex!Lower[v + 1] \in DOMAIN Hex!DigitValue
    BY LowerLemma DEF Hex!IsDigit
  <1> HIDE DEF s, n, Nibble
  <1>4. s \in [1 .. n -> DOMAIN Hex!DigitValue]
    BY <1>1, <1>2, <1>3
  <1>5. s \in Seq(DOMAIN Hex!DigitValue) /\ Len(s) = n
    BY <1>0, <1>4, FunctionIsSeq
  <1>6. ASSUME NEW i \in 1 .. n
        PROVE  Hex!IsDigit(s[i]) /\ Hex!DigitValue[s[i]] = Nibble(i)
    <2>1. s[i] = Hex!Lower[Nibble(i) + 1]
      BY <1>2
    <2> QED
      BY <1>1, <2>1, LowerLemma
  <1>7. Hex!StartPos(s) = 1
    <2>1. \A i \in 1 .. n : s[i] # "x"
      BY <1>6, DigitLemma
    <2>2. Hex!StartPos(s) \in {1, 3} /\ (Hex!StartPos(s) = 3 => Len(s) > 1 /\ s[2] = "x")
      BY <1>5, StartPosRange
    <2> QED
      BY <1>0, <1>5, <2>1, <2>2
  <1>8. Count(s) = Len(data)
    BY <1>0, <1>5, <1>7 DEF Count, n
  <1>9. Hex!FromHex(s) = [end |-> "returned",
            bytes |-> [k \in 1 .. Count(s) |-> ValueAt(s, Hex!StartPos(s) + 2 * (k - 1))]]
    BY <1>5, <1>6, <1>7, FromHexDigits
  <1>10. ASSUME NEW k \in 1 .. Len(data)
         PROVE  ValueAt(s, 1 + 2 * (k - 1)) = data[k]
    <2> DEFINE p == 1 + 2 * (k - 1)
    <2>1. /\ p \in 1 .. n /\ p + 1 \in 1 .. n /\ p + 1 <= Len(s)
          /\ (p + 1) \div 2 = k /\ ((p + 1) + 1) \div 2 = k
          /\ p % 2 = 1 /\ (p + 1) % 2 = 0
      BY <1>0, <1>5 DEF n
    <2> HIDE DEF p
    <2>2. Hex!DigitValue[s[p]] = data[k] \div 16 /\ Hex!DigitValue[s[p + 1]] = data[k] % 16
      <3>1. Nibble(p) = data[k] \div 16 /\ Nibble(p + 1) = data[k] % 16
        <4>1. (p + 1) % 2 # 1
          BY <2>1
        <4> QED
          BY <2>1, <4>1, Zenon DEF Nibble
      <3> QED
        BY <1>6, <2>1, <3>1, Zenon
    <2>3. ValueAt(s, p) = 16 * (data[k] \div 16) + (data[k] % 16)
      BY <2>1, <2>2 DEF ValueAt
    <2>4. data[k] \in 0 .. 255
      BY <1>0
    <2> QED
      BY <2>3, <2>4, Nibbles DEF p
  <1>11. [k \in 1 .. Count(s) |-> ValueAt(s, Hex!StartPos(s) + 2 * (k - 1))] = data
    <2>1. data = [k \in 1 .. Len(data) |-> data[k]]
      BY <1>0, LenProperties
    <2>2. [k \in 1 .. Len(data) |-> ValueAt(s, 1 + 2 * (k - 1))] = [k \in 1 .. Len(data) |-> data[k]]
      BY <1>10
    <2> QED
      BY <1>7, <1>8, <2>1, <2>2
  <1> QED
    BY <1>5, <1>9, <1>11 DEF s

(* A call has its argument, and its result once it is done. *)
HexIInv ==
    /\ \/ hCall = "fromHex" /\ hInput \in Seq(Alphabet)
       \/ hCall = "toHex" /\ hInput \in Seq(Octets)
    /\ Len(hInput) <= HexLength
    /\ \/ hResult = [end |-> "none", bytes |-> <<>>]
       \/ hCall = "fromHex" /\ hResult = Hex!FromHex(hInput)
       \/ hCall = "toHex" /\ hResult = Hex!FromHex(Hex!ToHex(hInput))

(* The result of a call is that of fromHex() for its argument. *)
LEMMA HexInvariance == Hex!Spec => []HexIInv
  <1>0. HexLength \in Nat
    BY EncodingsAssumption DEF Hex!HexAssumption
  <1>1. Hex!Init => HexIInv
    <2>1. ASSUME NEW S, NEW q \in Hex!BoundedSeq(S, HexLength)
          PROVE  q \in Seq(S) /\ Len(q) <= HexLength
      <3>1. PICK m \in 0 .. HexLength : q \in [1 .. m -> S]
        BY DEF Hex!BoundedSeq, Hex!SeqOf
      <3>2. m \in Nat /\ m <= HexLength
        BY <1>0
      <3> QED
        BY <3>1, <3>2, FunctionIsSeq
    <2> QED
      BY <2>1 DEF Hex!Init, HexIInv
  <1>2. HexIInv /\ [Hex!Next]_(Hex!vars) => HexIInv'
    <2> SUFFICES ASSUME HexIInv, [Hex!Next]_(Hex!vars) PROVE HexIInv'
      OBVIOUS
    <2>1. CASE Hex!Parse
      BY <2>1 DEF HexIInv, Hex!Parse
    <2>2. CASE Hex!FormatAndParse
      BY <2>2 DEF HexIInv, Hex!FormatAndParse
    <2>3. CASE UNCHANGED Hex!vars
      BY <2>3 DEF HexIInv, Hex!vars
    <2> QED
      BY <2>1, <2>2, <2>3 DEF Hex!Next, Hex!Done
  <1> QED
    BY <1>1, <1>2, PTL DEF Hex!Spec

(* That is enough for what the conversions promise. *)
LEMMA HexIInvSuffices == HexIInv => HexMeansItsBytes
  <1> SUFFICES ASSUME HexIInv PROVE HexMeansItsBytes
    OBVIOUS
  <1>0. HexLength \in Nat /\ Octets \subseteq 0 .. 255
    BY EncodingsAssumption DEF Hex!HexAssumption
  <1>s. ASSUME NEW b \in Seq(0 .. 255) PROVE Hex!ToSet(b) \subseteq 0 .. 255
    <2>1. DOMAIN b = 1 .. Len(b) /\ \A i \in 1 .. Len(b) : b[i] \in 0 .. 255
      BY <1>s, ElementOfSeq, LenProperties
    <2>2. \A x \in Hex!ToSet(b) : \E i \in DOMAIN b : x = b[i]
      BY DEF Hex!ToSet
    <2> SUFFICES ASSUME NEW x \in Hex!ToSet(b) PROVE x \in 0 .. 255
      BY Zenon
    <2>3. PICK i \in DOMAIN b : x = b[i]
      BY <2>2
    <2>4. i \in 1 .. Len(b)
      BY <2>1, <2>3
    <2> QED
      BY <2>1, <2>3, <2>4
  <1>1. CASE hResult = [end |-> "none", bytes |-> <<>>]
    <2>1. <<>> \in Seq(0 .. 255) /\ Len(<<>>) = 0
      BY EmptySeq
    <2>a. Hex!ToSet(hResult.bytes) \subseteq 0 .. 255 /\ Len(hResult.bytes) <= HexLength
      <3>1. hResult.bytes \in Seq(0 .. 255)
        BY <1>0, <1>1, <2>1
      <3>2. Len(hResult.bytes) <= HexLength
        BY <1>0, <1>1, <2>1
      <3> QED
        BY <1>s, <3>1, <3>2, Zenon
    <2>2. Hex!TypeOK
      BY <1>1, <2>a DEF Hex!TypeOK, HexIInv
    <2> QED
      BY <1>1, <2>2 DEF HexMeansItsBytes, Hex!RoundTrip, Hex!DigitsMeanBytes
  <1>2. CASE hCall = "fromHex" /\ hResult = Hex!FromHex(hInput)
    <2>1. hInput \in Seq(Alphabet) /\ Len(hInput) \in Nat /\ Len(hInput) <= HexLength
      BY <1>2, LenProperties DEF HexIInv
    <2>2. /\ hResult.end \in {"returned", "MoCOCrWException"}
          /\ hResult.bytes \in Seq(0 .. 255) /\ Len(hResult.bytes) <= Len(hInput)
          /\ Len(hResult.bytes) \in Nat
      BY <1>2, <2>1, FromHexType, LenProperties
    <2>a. Hex!ToSet(hResult.bytes) \subseteq 0 .. 255 /\ Len(hResult.bytes) <= HexLength
      <3>1. hResult.bytes \in Seq(0 .. 255)
        BY <1>0, <2>1, <2>2
      <3>2. Len(hResult.bytes) <= HexLength
        BY <1>0, <2>1, <2>2
      <3> QED
        BY <1>s, <3>1, <3>2, Zenon
    <2>3. Hex!TypeOK
      BY <1>2, <2>2, <2>a DEF Hex!TypeOK
    <2>4. Hex!DigitsMeanBytes
      BY <1>2, <2>1, FromHexMeans DEF Hex!DigitsMeanBytes, NoDigit
    <2> QED
      BY <1>2, <2>3, <2>4 DEF HexMeansItsBytes, Hex!RoundTrip
  <1>3. CASE hCall = "toHex" /\ hResult = Hex!FromHex(Hex!ToHex(hInput))
    <2>1. hInput \in Seq(Octets) /\ Len(hInput) \in Nat /\ Len(hInput) <= HexLength
      BY <1>3, LenProperties DEF HexIInv
    <2>2. hInput \in Seq(0 .. 255)
      BY <1>0, <2>1, SeqMonotonic, ZenonT(30)
    <2>3. hResult = [end |-> "returned", bytes |-> hInput]
      BY <1>3, <2>2, ToHexLemma
    <2>a. Hex!ToSet(hResult.bytes) \subseteq 0 .. 255 /\ Len(hResult.bytes) <= HexLength
      <3>1. hResult.bytes \in Seq(0 .. 255)
        BY <1>0, <2>1, <2>2, <2>3
      <3>2. Len(hResult.bytes) <= HexLength
        BY <1>0, <2>1, <2>2, <2>3
      <3> QED
        BY <1>s, <3>1, <3>2, Zenon
    <2>4. Hex!TypeOK
      BY <1>3, <2>3, <2>a DEF Hex!TypeOK
    <2> QED
      BY <1>3, <2>3, <2>4 DEF HexMeansItsBytes, Hex!RoundTrip, Hex!DigitsMeanBytes
  <1> QED
    BY <1>1, <1>2, <1>3 DEF HexIInv
-----------------------------------------------------------------------------
(***************************************************************************)
(* The memory BIO.  What the loop has collected followed by what is still  *)
(* in the BIO is the queue of bytes.                                       *)
(***************************************************************************)
Byte == 1 .. MaxBytes

(* The constants of Bio *)
LEMMA BioConstants ==
    /\ MaxBytes \in Nat /\ BuffSize \in Nat /\ BuffSize > 1
BY EncodingsAssumption DEF BioObject!BioAssumption

(* BIO_gets() returns at least one byte of a memory BIO that has any, and  *)
(* never more than there are.                                              *)
LEMMA LineLengthIs ==
    ASSUME BioObject!TypeOK
    PROVE  /\ BioObject!NextLine \in 0 .. Len(bContent)
           /\ BioObject!NextLine = 0 => bContent = <<>>
  <1>1. bContent \in Seq(Byte) /\ Len(bContent) \in Nat
    BY LenProperties DEF BioObject!TypeOK, Byte
  <1>2. CASE bContent = <<>>
    BY <1>1, <1>2 DEF BioObject!NextLine
  <1>3. CASE bContent # <<>>
    <2> DEFINE ends == {i \in 1 .. Len(bContent) : bContent[i] \in Newlines
                                    \/ i = BuffSize - 1 \/ i = Len(bContent)}
    <2>1. Len(bContent) # 0
      BY <1>1, <1>3
    <2>2. Len(bContent) \in ends /\ ends \in SUBSET Nat
      BY <1>1, <2>1
    <2>3. \E i \in ends : \A j \in ends : i <= j
      <3> HIDE DEF ends
      <3> QED
        BY <2>2, LeastNumber
    <2>4. BioObject!NextLine = CHOOSE i \in ends : \A j \in ends : i <= j
      BY <1>3 DEF BioObject!NextLine
    <2>5. BioObject!NextLine \in ends
      <3> HIDE DEF ends
      <3> QED
        BY <2>3, <2>4
    <2> QED
      BY <1>1, <2>5
  <1> QED
    BY <1>2, <1>3

(* What is cut off in front of the content, and the rest, are the content. *)
LEMMA Cut ==
    ASSUME NEW S, NEW s \in Seq(S), NEW n \in 0 .. Len(s)
    PROVE  /\ SubSeq(s, 1, n) \in Seq(S) /\ SubSeq(s, n + 1, Len(s)) \in Seq(S)
           /\ SubSeq(s, 1, n) \o SubSeq(s, n + 1, Len(s)) = s
  <1>1. Len(s) \in Nat /\ \A i \in 1 .. Len(s) : s[i] \in S
    BY LenProperties, ElementOfSeq
  <1>2. SubSeq(s, 1, n) \in Seq(S)
    BY <1>1, SubSeqProperties
  <1>3. SubSeq(s, n + 1, Len(s)) \in Seq(S)
    BY <1>1, SubSeqProperties
  <1>4. SubSeq(s, 1, n) \o SubSeq(s, n + 1, Len(s)) = SubSeq(s, 1, Len(s))
    <2>1. 1 \in 1 .. Len(s) + 1 /\ n \in (1 - 1) .. Len(s) /\ Len(s) \in n .. Len(s)
      BY <1>1
    <2> QED
      BY <2>1, ConcatAdjacentSubSeq, Zenon
  <1> QED
    BY <1>2, <1>3, <1>4, SubSeqFull

(* A turn of a loop moves bytes from the BIO to the caller. *)
LEMMA TakeMoves ==
    ASSUME BioObject!TypeOK, NEW count \in 0 .. Len(bContent), BioObject!Take(count)
    PROVE  /\ bOutput' \in Seq(Byte) /\ bContent' \in Seq(Byte)
           /\ bOutput' \o bContent' = bOutput \o bContent
  <1>1. bContent \in Seq(Byte) /\ bOutput \in Seq(Byte)
    BY DEF BioObject!TypeOK, Byte
  <1> DEFINE front == SubSeq(bContent, 1, count)
             back == SubSeq(bContent, count + 1, Len(bContent))
  <1>2. front \in Seq(Byte) /\ back \in Seq(Byte) /\ front \o back = bContent
    BY <1>1, Cut
  <1>3. bOutput' = bOutput \o front /\ bContent' = back
    BY DEF BioObject!Take
  <1> HIDE DEF front, back
  <1>4. (bOutput \o front) \o back = bOutput \o (front \o back)
    <2>1. \A s1, s2, s3 \in Seq(Byte) : (s1 \o s2) \o s3 = s1 \o (s2 \o s3)
      BY ConcatAssociative
    <2> QED
      BY <1>1, <1>2, <2>1, Zenon
  <1> QED
    BY <1>1, <1>2, <1>3, <1>4, ConcatProperties

(* A write appends bytes that were not written before. *)
LEMMA PositionsAreBytes ==
    ASSUME BioObject!TypeOK, NEW n \in 0 .. MaxBytes, bWritten + n <= MaxBytes
    PROVE  /\ BioObject!Positions(n) \in Seq(Byte)
           /\ bContent \o BioObject!Positions(n) \in Seq(Byte)
           /\ bWritten + n \in 0 .. MaxBytes
  <1>1. bWritten \in 0 .. MaxBytes /\ n \in Nat /\ MaxBytes \in Nat /\ bContent \in Seq(Byte)
    BY BioConstants DEF BioObject!TypeOK, Byte
  <1>2. BioObject!Positions(n) \in [1 .. n -> Byte]
    BY <1>1 DEF BioObject!Positions, Byte
  <1>3. BioObject!Positions(n) \in Seq(Byte)
    BY <1>1, <1>2, SeqDef
  <1> QED
    BY <1>1, <1>3, ConcatProperties

(* A step keeps the types, and for a memory BIO it is one of the queue. *)
LEMMA BioWriteStep ==
    ASSUME BioObject!TypeOK, NEW n \in 0 .. MaxBytes,
           NEW k \in 0 .. n, bWritten + k <= MaxBytes, bPhase = "idle",
           bContent' = bContent \o BioObject!Positions(k), bWritten' = bWritten + k,
           bShortfall' = n - k, bException' \in BOOLEAN, bResult' = <<>>,
           UNCHANGED <<bType, bPhase, bOutput>>
    PROVE  BioObject!TypeOK' /\ [BioObject!Queue!StreamNext]_(BioObject!Queue!streamVars)
  <1>1. k \in 0 .. MaxBytes /\ n - k \in 0 .. MaxBytes
    BY BioConstants
  <1>2. /\ BioObject!Positions(k) \in Seq(Byte)
        /\ bContent \o BioObject!Positions(k) \in Seq(Byte)
        /\ bWritten + k \in 0 .. MaxBytes
    BY <1>1, PositionsAreBytes
  <1>3. BioObject!TypeOK'
    BY <1>1, <1>2, EmptySeq DEF BioObject!TypeOK, Byte
  <1>4. CASE bType = "MEM"
    <2>1. bOutput = <<>> /\ bContent \in Seq(Byte)
      BY DEF BioObject!TypeOK, Byte
    <2>2. bOutput \o bContent = bContent /\ bOutput' \o bContent' = bContent'
      BY <1>2, <2>1, ConcatEmptySeq
    <2>3. BioObject!Queue!StreamWrite(k)
      BY <1>4, <2>2 DEF BioObject!Queue!StreamWrite, BioObject!Positions
    <2> QED
      BY <1>1, <1>3, <2>3 DEF BioObject!Queue!StreamNext
  <1>5. CASE bType # "MEM"
    BY <1>3, <1>5 DEF BioObject!Queue!streamVars
  <1> QED
    BY <1>4, <1>5

(* A write(std::string) or a write(std::vector) puts a number of bytes in  *)
(* that is not above what it was given.                                    *)
LEMMA BioWriteIs ==
    ASSUME BioObject!TypeOK, NEW n \in 0 .. MaxBytes, NEW k \in BioObject!BioWrite(n)
    PROVE  k \in 0 .. n
BY BioConstants DEF BioObject!BioWrite, BioObject!TypeOK

(* Every write appends to the queue the bytes that arrived. *)
LEMMA BioWrites ==
    ASSUME BioObject!TypeOK, NEW n \in 0 .. MaxBytes,
           BioObject!WriteVector(n) \/ \E nul \in 0 .. MaxBytes : BioObject!WriteString(n, nul)
    PROVE  BioObject!TypeOK' /\ [BioObject!Queue!StreamNext]_(BioObject!Queue!streamVars)
  <1>0. n \in Nat /\ MaxBytes \in Nat /\ bWritten \in Nat
    BY BioConstants DEF BioObject!TypeOK
  <1>1. CASE BioObject!WriteVector(n)
    <2>1. PICK k \in BioObject!BioWrite(n) :
             /\ bContent' = bContent \o BioObject!Positions(k)
             /\ bWritten' = bWritten + k
             /\ bShortfall' = n - k
             /\ bException' \in IF n = 0 /\ bType = "MEM" THEN BOOLEAN ELSE {k < n}
      BY <1>1 DEF BioObject!WriteVector
    <2>2. k \in 0 .. n
      BY BioWriteIs
    <2>3. bWritten + k <= MaxBytes /\ bException' \in BOOLEAN
      <3>1. bWritten + k <= MaxBytes
        BY <1>0, <1>1, <2>2 DEF BioObject!WriteVector
      <3>2. (k < n) \in BOOLEAN
        BY <1>0, <2>2
      <3>3. bException' \in BOOLEAN
        BY <2>1, <3>2, Zenon
      <3> QED
        BY <3>1, <3>3
    <2> QED
      BY <1>1, <2>1, <2>2, <2>3, BioWriteStep DEF BioObject!WriteVector
  <1>2. CASE \E nul \in 0 .. MaxBytes : BioObject!WriteString(n, nul)
    <2>0. PICK nul \in 0 .. MaxBytes : BioObject!WriteString(n, nul)
      BY <1>2
    <2> DEFINE given == IF nul < n THEN nul ELSE n
    <2>1. given \in 0 .. MaxBytes /\ given \in 0 .. n
      BY <1>0
    <2>2. PICK k \in BioObject!BioWrite(given) :
             /\ bContent' = bContent \o BioObject!Positions(k)
             /\ bWritten' = bWritten + k
             /\ bShortfall' = n - k
      BY <2>0 DEF BioObject!WriteString
    <2> HIDE DEF given
    <2>3. k \in 0 .. n
      <3>1. k \in 0 .. given
        BY <2>1, BioWriteIs
      <3> QED
        BY <1>0, <2>1, <3>1
    <2>4. bWritten + k <= MaxBytes /\ bException' \in BOOLEAN
      <3>1. bWritten + k <= MaxBytes
        BY <1>0, <2>0, <2>3 DEF BioObject!WriteString
      <3>2. bException' \in BOOLEAN
        BY <2>0, Zenon DEF BioObject!WriteString
      <3> QED
        BY <3>1, <3>2
    <2> QED
      BY <2>0, <2>2, <2>3, <2>4, BioWriteStep DEF BioObject!WriteString
  <1> QED
    BY <1>1, <1>2

(* A call of a flush takes no byte yet. *)
LEMMA BioCalls ==
    ASSUME BioObject!TypeOK, BioObject!FlushToString \/ BioObject!FlushToVector
    PROVE  BioObject!TypeOK' /\ [BioObject!Queue!StreamNext]_(BioObject!Queue!streamVars)
  <1>1. PICK loop \in {"gets", "read"} : BioObject!CallFlush(loop)
    BY DEF BioObject!FlushToString, BioObject!FlushToVector
  <1>2. BioObject!TypeOK'
    <2>1. bException' \in BOOLEAN
      BY <1>1, Zenon DEF BioObject!CallFlush
    <2>2. <<>> \in Seq(Byte) /\ 0 \in 0 .. MaxBytes
      BY BioConstants, EmptySeq
    <2> QED
      BY <1>1, <2>1, <2>2 DEF BioObject!TypeOK, BioObject!CallFlush, Byte
  <1>3. CASE bType = "MEM"
    <2>1. /\ bOutput = <<>> /\ bOutput' = <<>> /\ bContent' = bContent /\ bContent \in Seq(Byte)
          /\ bWritten \in 0 .. MaxBytes /\ bWritten' = bWritten /\ bResult' = <<>> /\ bType' = "MEM"
      BY <1>1, <1>3 DEF BioObject!TypeOK, BioObject!CallFlush, Byte
    <2>2. <<>> \o bContent = bContent /\ Len(bContent) \in Nat
      BY <2>1, ConcatEmptySeq, LenProperties
    <2>3. SubSeq(bContent, 1, 0) = <<>> /\ SubSeq(bContent, 1, Len(bContent)) = bContent
      BY <2>1, <2>2, SubSeqEmpty, SubSeqFull
    <2>4. (IF 0 < Len(bContent) THEN 0 ELSE Len(bContent)) = 0 /\ 0 + 1 = 1
      BY <2>2
    <2>5. BioObject!Queue!StreamRead(0)
      BY <1>3, <2>1, <2>2, <2>3, <2>4 DEF BioObject!Queue!StreamRead
    <2>6. 0 \in 0 .. MaxBytes
      BY BioConstants
    <2> QED
      BY <1>2, <2>5, <2>6 DEF BioObject!Queue!StreamNext
  <1>4. CASE bType # "MEM"
    BY <1>1, <1>2, <1>4 DEF BioObject!Queue!streamVars, BioObject!CallFlush
  <1> QED
    BY <1>3, <1>4

(* The end of a flush takes all that was there when it was called. *)
LEMMA BioLoopEnds ==
    ASSUME BioObject!TypeOK, bResult' \in {bOutput, bResult}, bPhase' = "idle",
           bOutput' = <<>>, bException' \in BOOLEAN,
           UNCHANGED <<bType, bContent, bWritten, bShortfall>>,
           bType = "MEM" => bContent = <<>> /\ bResult' = bOutput
    PROVE  /\ BioObject!TypeOK'
           /\ [BioObject!Queue!StreamNext]_(BioObject!Queue!streamVars)
  <1>1. BioObject!TypeOK'
    BY EmptySeq DEF BioObject!TypeOK
  <1>2. CASE bType = "MEM"
    <2>1. bOutput \in Seq(Byte)
      BY DEF BioObject!TypeOK, Byte
    <2>2. bOutput \o <<>> = bOutput /\ <<>> \o <<>> = <<>> /\ Len(bOutput) \in Nat
      BY <2>1, ConcatEmptySeq, LenProperties, EmptySeq
    <2>3. SubSeq(bOutput, 1, Len(bOutput)) = bOutput
      BY <2>1, SubSeqFull
    <2>4. SubSeq(bOutput, Len(bOutput) + 1, Len(bOutput)) = <<>>
      BY <2>2, SubSeqEmpty
    <2>5. BioObject!Queue!StreamRead(Len(bOutput))
      BY <1>2, <2>2, <2>3, <2>4 DEF BioObject!Queue!StreamRead
    <2>6. BioObject!Queue!StreamReadAll
      BY <1>2, <2>2, <2>5 DEF BioObject!Queue!StreamReadAll
    <2> QED
      BY <1>1, <2>6 DEF BioObject!Queue!StreamNext
  <1>3. CASE bType # "MEM"
    BY <1>1, <1>3 DEF BioObject!Queue!streamVars
  <1> QED
    BY <1>2, <1>3

(* A turn that takes bytes changes nothing of the queue. *)
LEMMA BioTurn ==
    ASSUME BioObject!TypeOK, NEW count \in 0 .. Len(bContent), BioObject!Take(count),
           bPhase # "idle", UNCHANGED <<bType, bWritten, bPhase, bResult, bException, bShortfall>>
    PROVE  /\ BioObject!TypeOK'
           /\ [BioObject!Queue!StreamNext]_(BioObject!Queue!streamVars)
  <1>1. /\ bOutput' \in Seq(Byte) /\ bContent' \in Seq(Byte)
        /\ bOutput' \o bContent' = bOutput \o bContent
    BY TakeMoves
  <1>2. BioObject!TypeOK'
    BY <1>1 DEF BioObject!TypeOK, Byte
  <1>3. UNCHANGED BioObject!Queue!streamVars
    BY <1>1 DEF BioObject!Queue!streamVars
  <1> QED
    BY <1>2, <1>3

(* The loops of the flush calls.  A memory BIO answers BIO_gets() with 0   *)
(* and BIO_read() with -1 only when it is empty.                           *)
LEMMA BioStrings ==
    ASSUME BioObject!TypeOK, BioObject!FlushToStringStep
    PROVE  /\ BioObject!TypeOK'
           /\ [BioObject!Queue!StreamNext]_(BioObject!Queue!streamVars)
  <1>1. BioObject!NextLine \in 0 .. Len(bContent) /\ (BioObject!NextLine = 0 => bContent = <<>>)
    BY LineLengthIs
  <1>2. Len(bContent) \in Nat
    BY LenProperties DEF BioObject!TypeOK
  <1>3. PICK count \in BioObject!BioGets :
        \/ /\ count < 0
           /\ bException' = TRUE /\ bPhase' = "idle" /\ bOutput' = <<>>
           /\ UNCHANGED <<bContent, bResult>>
        \/ /\ count = 0
           /\ bResult' = bOutput /\ bPhase' = "idle" /\ bOutput' = <<>>
           /\ UNCHANGED <<bContent, bException>>
        \/ /\ count > 0
           /\ BioObject!Take(count)
           /\ UNCHANGED <<bPhase, bResult, bException>>
    BY DEF BioObject!FlushToStringStep
  <1>4. /\ bPhase = "gets" /\ UNCHANGED <<bType, bWritten, bShortfall>>
        /\ bException \in BOOLEAN
    BY DEF BioObject!FlushToStringStep, BioObject!TypeOK
  <1>5. count \in {BioObject!NextLine, 0, -1} /\ (bType = "MEM" => count = BioObject!NextLine)
    BY DEF BioObject!BioGets
  <1>6. CASE count < 0
    <2>1. bType # "MEM"
      BY <1>1, <1>2, <1>5, <1>6
    <2>2. bException' \in BOOLEAN
      <3>1. bException' = TRUE
        BY <1>3, <1>5, <1>6, <1>1, <1>2
      <3> QED
        BY <3>1, Zenon
    <2>3. bPhase' = "idle" /\ bOutput' = <<>> /\ UNCHANGED <<bContent, bResult>>
      BY <1>1, <1>2, <1>3, <1>5, <1>6
    <2> QED
      BY <1>4, <2>1, <2>2, <2>3, BioLoopEnds
  <1>7. CASE count = 0
    BY <1>1, <1>3, <1>4, <1>5, <1>7, BioLoopEnds
  <1>8. CASE count > 0
    <2>1. count \in 0 .. Len(bContent)
      BY <1>1, <1>2, <1>5, <1>8
    <2>2. BioObject!Take(count) /\ UNCHANGED <<bPhase, bResult, bException>>
      BY <1>3, <1>8, <2>1, <1>2
    <2> QED
      BY <1>4, <2>1, <2>2, BioTurn
  <1> QED
    BY <1>1, <1>2, <1>5, <1>6, <1>7, <1>8

(* The loop of flushToVector() ends a memory BIO's flush with all of it. *)
LEMMA BioVectors ==
    ASSUME BioObject!TypeOK, BioObject!FlushToVectorStep
    PROVE  /\ BioObject!TypeOK'
           /\ [BioObject!Queue!StreamNext]_(BioObject!Queue!streamVars)
  <1>1. Len(bContent) \in Nat /\ BuffSize \in Nat /\ BuffSize > 1
    BY LenProperties, BioConstants DEF BioObject!TypeOK
  <1>2. PICK count \in BioObject!BioRead :
        \/ /\ count <= 0
           /\ bResult' = bOutput /\ bPhase' = "idle" /\ bOutput' = <<>>
           /\ UNCHANGED bContent
        \/ /\ count > 0
           /\ BioObject!Take(count)
           /\ UNCHANGED <<bPhase, bResult>>
    BY DEF BioObject!FlushToVectorStep
  <1>3. /\ bPhase = "read" /\ UNCHANGED <<bType, bWritten, bException, bShortfall>>
        /\ bException \in BOOLEAN
    BY DEF BioObject!FlushToVectorStep, BioObject!TypeOK
  <1>4. /\ count \in Int /\ (count > 0 => count \in 0 .. Len(bContent))
        /\ bType = "MEM" /\ count <= 0 => bContent = <<>>
    <2>1. bContent # <<>> => Len(bContent) > 0
      BY <1>1 DEF BioObject!TypeOK
    <2> QED
      BY <1>1, <2>1 DEF BioObject!BioRead
  <1>5. CASE count <= 0
    BY <1>2, <1>3, <1>4, <1>5, BioLoopEnds
  <1>6. CASE count > 0
    BY <1>2, <1>3, <1>4, <1>6, BioTurn
  <1> QED
    BY <1>4, <1>5, <1>6

(* BioObject over every behaviour: its types hold, and a memory BIO is the *)
(* abstract queue of bytes.                                                *)
LEMMA BioStep ==
    BioObject!TypeOK /\ [BioObject!Next]_(BioObject!vars) =>
        /\ BioObject!TypeOK'
        /\ [BioObject!Queue!StreamNext]_(BioObject!Queue!streamVars)
  <1> SUFFICES ASSUME BioObject!TypeOK, [BioObject!Next]_(BioObject!vars)
               PROVE  /\ BioObject!TypeOK'
                      /\ [BioObject!Queue!StreamNext]_(BioObject!Queue!streamVars)
    OBVIOUS
  <1>1. CASE UNCHANGED BioObject!vars
    BY <1>1 DEF BioObject!vars, BioObject!TypeOK, BioObject!Queue!streamVars
  <1> QED
    BY <1>1, BioWrites, BioCalls, BioStrings, BioVectors DEF BioObject!Next

(* A new memory BIO is an empty queue. *)
LEMMA BioStart == BioObject!Init => BioObject!TypeOK /\ BioObject!Queue!StreamInit
  <1> SUFFICES ASSUME BioObject!Init PROVE BioObject!TypeOK /\ BioObject!Queue!StreamInit
    OBVIOUS
  <1>0. MaxBytes \in Nat /\ <<>> \in Seq(Byte)
    BY BioConstants, EmptySeq
  <1>1. bContent \in Seq(Byte) /\ Len(bContent) \in 0 .. MaxBytes
    <2>1. CASE bType = "READ"
      <3>1. bContent \in [1 .. MaxBytes -> Byte]
        BY <2>1 DEF BioObject!Init, Byte
      <3>2. bContent \in Seq(Byte)
        BY <1>0, <3>1, SeqDef
      <3> QED
        BY <1>0, <3>1, <3>2
    <2>2. CASE bType # "READ"
      BY <1>0, <2>2 DEF BioObject!Init
    <2> QED
      BY <2>1, <2>2
  <1>2. bException \in BOOLEAN
    BY Zenon DEF BioObject!Init
  <1>3. BioObject!TypeOK
    BY <1>0, <1>1, <1>2 DEF BioObject!Init, BioObject!TypeOK, Byte
  <1>4. BioObject!Queue!StreamInit
    <2>1. <<>> \o <<>> = <<>> /\ Len(<<>>) = 0
      BY <1>0, ConcatEmptySeq
    <2> QED
      BY <2>1 DEF BioObject!Init, BioObject!Queue!StreamInit
  <1> QED
    BY <1>3, <1>4

(* A write(std::vector) that returns without an exception has put all of   *)
(* its bytes in: fewer would have thrown.                                  *)
LEMMA VectorArrives ==
    BioObject!TypeOK =>
        \A n \in 1 .. MaxBytes :
            BioObject!WriteVector(n) /\ ~bException' => bWritten' = bWritten + n
  <1> SUFFICES ASSUME BioObject!TypeOK, NEW n \in 1 .. MaxBytes,
                      BioObject!WriteVector(n), ~bException'
               PROVE  bWritten' = bWritten + n
    OBVIOUS
  <1>0. n \in 0 .. MaxBytes /\ n \in Nat
    BY BioConstants
  <1>n. n # 0
    BY <1>0
  <1>1. PICK k \in BioObject!BioWrite(n) : bWritten' = bWritten + k /\ bException' = (k < n)
    <2>1. PICK k \in BioObject!BioWrite(n) :
             /\ bWritten' = bWritten + k
             /\ bException' \in IF n = 0 /\ bType = "MEM" THEN BOOLEAN ELSE {k < n}
      BY DEF BioObject!WriteVector
    <2>2. bException' = (k < n)
      BY <1>n, <2>1, Zenon
    <2> QED
      BY <2>1, <2>2
  <1>2. k \in 0 .. n
    BY <1>0, BioWriteIs
  <1>3. ~(k < n)
    BY <1>1, Zenon
  <1> QED
    BY <1>0, <1>1, <1>2, <1>3

(* A loop over a memory BIO is left only when the BIO is empty. *)
LEMMA LoopEmpties ==
    BioObject!TypeOK /\ [BioObject!Next]_(BioObject!vars) =>
        (bType = "MEM" /\ bPhase # "idle" /\ bPhase' = "idle" => bContent' = <<>>)
  <1> SUFFICES ASSUME BioObject!TypeOK, [BioObject!Next]_(BioObject!vars),
                      bType = "MEM", bPhase # "idle", bPhase' = "idle"
               PROVE  bContent' = <<>>
    OBVIOUS
  <1>0. Len(bContent) \in Nat /\ BuffSize \in Nat /\ BuffSize > 1
    BY LenProperties, BioConstants DEF BioObject!TypeOK
  <1>1. BioObject!FlushToStringStep \/ BioObject!FlushToVectorStep
    BY DEF BioObject!Next, BioObject!vars, BioObject!WriteString, BioObject!WriteVector,
           BioObject!FlushToString, BioObject!FlushToVector, BioObject!CallFlush
  <1>2. CASE BioObject!FlushToStringStep
    <2>1. BioObject!NextLine \in 0 .. Len(bContent)
          /\ (BioObject!NextLine = 0 => bContent = <<>>)
      BY LineLengthIs
    <2>2. BioObject!BioGets = {BioObject!NextLine}
      BY DEF BioObject!BioGets
    <2>3. BioObject!NextLine = 0 /\ bContent' = bContent
      BY <1>0, <1>2, <2>1, <2>2 DEF BioObject!FlushToStringStep
    <2> QED
      BY <2>1, <2>3
  <1>3. CASE BioObject!FlushToVectorStep
    <2>1. PICK count \in BioObject!BioRead : count <= 0 /\ bContent' = bContent
      BY <1>3 DEF BioObject!FlushToVectorStep
    <2>2. bContent # <<>> => Len(bContent) > 0
      BY <1>0 DEF BioObject!TypeOK
    <2> QED
      BY <1>0, <2>1, <2>2 DEF BioObject!BioRead
  <1> QED
    BY <1>1, <1>2, <1>3

-----------------------------------------------------------------------------
(***************************************************************************)
(* PEM chains.  Lists of texts first: FlattenSeq() of the community        *)
(* modules, and the texts without white space that are defined with it.    *)
(***************************************************************************)

(* f[i] is the contents of the first i texts of q *)
TextPrefixes(f, q, n) ==
    /\ f \in [0 .. n -> Seq(Pem!Tokens)]
    /\ f[0] = <<>>
    /\ \A i \in 1 .. n : f[i] = f[i - 1] \o q[i]

(* The contents of the first texts can be computed one by one. *)
LEMMA PrefixesExist ==
    ASSUME NEW q \in Seq(Seq(Pem!Tokens))
    PROVE  \E f : TextPrefixes(f, q, Len(q))
  <1> DEFINE Without == {m \in Nat : m <= Len(q) /\ ~ \E f : TextPrefixes(f, q, m)}
  <1>1. Len(q) \in Nat
    BY LenProperties
  <1>2. Without = {}
    <2> SUFFICES ASSUME Without # {} PROVE FALSE
      OBVIOUS
    <2>1. PICK m \in Without : \A k \in Without : m <= k
      BY LeastNumber
    <2>2. m # 0
      <3>1. TextPrefixes([i \in 0 .. 0 |-> <<>>], q, 0)
        <4>1. <<>> \in Seq(Pem!Tokens)
          BY EmptySeq
        <4> QED
          BY <4>1 DEF TextPrefixes
      <3> QED
        BY <3>1
    <2>3. m - 1 \in Nat /\ m - 1 \notin Without
      <3>1. m \in Nat /\ m - 1 \in Nat /\ ~(m <= m - 1)
        BY <2>2
      <3> HIDE DEF Without
      <3> QED
        BY <2>1, <3>1
    <2>4. PICK f : TextPrefixes(f, q, m - 1)
      BY <1>1, <2>3
    <2> DEFINE g == [i \in 0 .. m |-> IF i = m THEN f[m - 1] \o q[m] ELSE f[i]]
    <2>5. TextPrefixes(g, q, m)
      <3>1. m \in 1 .. Len(q) /\ m - 1 \in 0 .. m - 1
        BY <1>1, <2>2, <2>3
      <3>2. q[m] \in Seq(Pem!Tokens)
        BY <3>1, ElementOfSeq
      <3>3. \A i \in 0 .. m - 1 : f[i] \in Seq(Pem!Tokens)
        BY <2>4 DEF TextPrefixes
      <3>4. f[m - 1] \o q[m] \in Seq(Pem!Tokens)
        BY <3>1, <3>2, <3>3, ConcatProperties
      <3>5. g \in [0 .. m -> Seq(Pem!Tokens)]
        <4> SUFFICES ASSUME NEW i \in 0 .. m
                     PROVE  (IF i = m THEN f[m - 1] \o q[m] ELSE f[i]) \in Seq(Pem!Tokens)
          OBVIOUS
        <4>1. i # m => i \in 0 .. m - 1
          BY <2>3
        <4> QED
          BY <3>3, <3>4, <4>1
      <3>6. g[0] = <<>>
        BY <2>2, <2>3, <2>4 DEF TextPrefixes
      <3>7. ASSUME NEW i \in 1 .. m PROVE g[i] = g[i - 1] \o q[i]
        <4>1. i - 1 \in 0 .. m /\ i - 1 # m /\ g[i - 1] = f[i - 1]
          BY <2>3
        <4>0. i \in 0 .. m /\ g[i] = IF i = m THEN f[m - 1] \o q[m] ELSE f[i]
          BY <2>3
        <4>2. CASE i = m
          <5>1. g[i] = f[i - 1] \o q[i]
            BY <4>0, <4>2
          <5> HIDE DEF g
          <5> QED
            BY <4>1, <5>1
        <4>3. CASE i # m
          <5>1. i \in 1 .. m - 1
            BY <2>3, <4>3
          <5>2. f[i] = f[i - 1] \o q[i]
            BY <2>4, <5>1 DEF TextPrefixes
          <5>3. g[i] = f[i]
            BY <4>0, <4>3
          <5> HIDE DEF g
          <5> QED
            BY <4>1, <5>2, <5>3
        <4> QED
          BY <4>2, <4>3
      <3> QED
        BY <3>5, <3>6, <3>7 DEF TextPrefixes
    <2> QED
      BY <2>5
  <1> QED
    BY <1>1, <1>2

(* FlattenSeq of the community modules is the contents of all texts. *)
LEMMA FlattenIsPrefix ==
    ASSUME NEW q \in Seq(Seq(Pem!Tokens)), NEW f, TextPrefixes(f, q, Len(q))
    PROVE  Pem!FlattenSeq(q) = f[Len(q)] /\ Pem!FlattenSeq(q) \in Seq(Pem!Tokens)
  <1>1. Len(q) \in Nat
    BY LenProperties
  <1>2. f[Len(q)] \in Seq(Pem!Tokens)
    BY <1>1 DEF TextPrefixes
  <1>3. CASE Len(q) = 0
    <2>1. q = <<>>
      BY <1>3
    <2> QED
      BY <1>2, <1>3, <2>1 DEF Pem!FlattenSeq, TextPrefixes
  <1>4. CASE Len(q) # 0
    <2> DEFINE Fix(h) == h = [i \in 1 .. Len(q) |->
                                 IF i = 1 THEN q[i] ELSE h[i - 1] \o q[i]]
               up     == [i \in 1 .. Len(q) |-> f[i]]
    <2>1. q[1] \in Seq(Pem!Tokens)
      BY <1>1, <1>4, ElementOfSeq
    <2>2. Fix(up)
      <3>1. ASSUME NEW i \in 1 .. Len(q)
            PROVE  f[i] = IF i = 1 THEN q[i] ELSE up[i - 1] \o q[i]
        <4>1. f[i] = f[i - 1] \o q[i]
          BY DEF TextPrefixes
        <4>2. CASE i = 1
          <5>1. i - 1 = 0 /\ f[0] = <<>>
            BY <4>2 DEF TextPrefixes
          <5>2. f[i] = <<>> \o q[1]
            BY <4>1, <4>2, <5>1
          <5> QED
            BY <2>1, <4>2, <5>2, ConcatEmptySeq
        <4>3. CASE i # 1
          <5>1. i - 1 \in 1 .. Len(q)
            BY <1>1, <4>3
          <5> QED
            BY <4>1, <4>3, <5>1
        <4> QED
          BY <4>2, <4>3
      <3> QED
        BY <3>1
    <2> DEFINE flatten == CHOOSE h : Fix(h)
    <2>3. Fix(flatten)
      BY <2>2
    <2>4. Pem!FlattenSeq(q) = flatten[Len(q)]
      BY <1>4 DEF Pem!FlattenSeq
    <2> HIDE DEF Fix, flatten
    <2> DEFINE h == flatten
    <2>5. h = [i \in 1 .. Len(q) |-> IF i = 1 THEN q[i] ELSE h[i - 1] \o q[i]]
      BY <2>3 DEF Fix
    <2> DEFINE Differ == {i \in Nat : i \in 1 .. Len(q) /\ h[i] # f[i]}
    <2>6. Differ = {}
      <3> SUFFICES ASSUME Differ # {} PROVE FALSE
        OBVIOUS
      <3>1. PICK i \in Differ : \A j \in Differ : i <= j
        BY LeastNumber
      <3>2. f[i] = f[i - 1] \o q[i]
        BY DEF TextPrefixes
      <3>3. i # 1
        <4> SUFFICES ASSUME i = 1 PROVE FALSE
          OBVIOUS
        <4>1. i - 1 = 0 /\ f[0] = <<>>
          BY DEF TextPrefixes
        <4>2. f[1] = <<>> \o q[1]
          BY <3>2, <4>1
        <4>3. f[1] = q[1]
          BY <2>1, <4>2, ConcatEmptySeq
        <4>4. h[1] = q[1]
          <5>1. 1 \in 1 .. Len(q)
            BY <1>1, <1>4
          <5> HIDE DEF h
          <5> QED
            BY <2>5, <5>1
        <4> QED
          BY <4>3, <4>4
      <3>4. i - 1 \in Nat /\ i - 1 \in 1 .. Len(q) /\ i - 1 \notin Differ
        <4>1. i \in Nat /\ i - 1 \in Nat /\ ~(i <= i - 1) /\ i - 1 \in 1 .. Len(q)
          BY <1>1, <3>3
        <4> HIDE DEF Differ
        <4> QED
          BY <3>1, <4>1
      <3>5. h[i - 1] = f[i - 1]
        BY <3>4
      <3>6. h[i] = h[i - 1] \o q[i]
        <4> HIDE DEF h
        <4> QED
          BY <2>5, <3>3
      <3> QED
        BY <3>2, <3>5, <3>6
    <2>7. Len(q) \in 1 .. Len(q)
      BY <1>1, <1>4
    <2>8. h[Len(q)] = f[Len(q)]
      BY <1>1, <2>6, <2>7
    <2> QED
      BY <1>2, <2>4, <2>8
  <1> QED
    BY <1>3, <1>4

(* Concatenation of texts is associative. *)
LEMMA Associative ==
    \A a, b, c \in Seq(Pem!Tokens) : (a \o b) \o c = a \o (b \o c)
  BY ConcatAssociative

(* The contents of two lists in a row are their contents in a row. *)
LEMMA FlattenConcat ==
    ASSUME NEW q \in Seq(Seq(Pem!Tokens)), NEW r \in Seq(Seq(Pem!Tokens))
    PROVE  /\ q \o r \in Seq(Seq(Pem!Tokens))
           /\ Pem!FlattenSeq(q) \in Seq(Pem!Tokens) /\ Pem!FlattenSeq(r) \in Seq(Pem!Tokens)
           /\ Pem!FlattenSeq(q \o r) = Pem!FlattenSeq(q) \o Pem!FlattenSeq(r)
  <1>1. PICK f : TextPrefixes(f, q, Len(q))
    BY PrefixesExist
  <1>2. PICK g : TextPrefixes(g, r, Len(r))
    BY PrefixesExist
  <1>3. Pem!FlattenSeq(q) = f[Len(q)] /\ Pem!FlattenSeq(q) \in Seq(Pem!Tokens)
    BY <1>1, FlattenIsPrefix
  <1>4. Pem!FlattenSeq(r) = g[Len(r)] /\ Pem!FlattenSeq(r) \in Seq(Pem!Tokens)
    BY <1>2, FlattenIsPrefix
  <1>5. Len(q) \in Nat /\ Len(r) \in Nat
    BY LenProperties
  <1> DEFINE n == Len(q) + Len(r)
             F == Pem!FlattenSeq(q)
             h == [i \in 0 .. n |->
                      IF i <= Len(q) THEN f[i] ELSE F \o g[i - Len(q)]]
  <1>6. /\ q \o r \in Seq(Seq(Pem!Tokens))
        /\ Len(q \o r) = n
        /\ \A i \in 1 .. n : (q \o r)[i] = IF i <= Len(q) THEN q[i] ELSE r[i - Len(q)]
    BY ConcatProperties
  <1> HIDE DEF F
  <1>f. F \in Seq(Pem!Tokens) /\ F = f[Len(q)]
    BY <1>3 DEF F
  <1>7. h \in [0 .. n -> Seq(Pem!Tokens)]
    <2> SUFFICES ASSUME NEW i \in 0 .. n
                 PROVE  (IF i <= Len(q) THEN f[i] ELSE F \o g[i - Len(q)]) \in Seq(Pem!Tokens)
      OBVIOUS
    <2>1. CASE i <= Len(q)
      <3>1. i \in 0 .. Len(q)
        BY <1>5, <2>1
      <3> QED
        BY <1>1, <2>1, <3>1 DEF TextPrefixes
    <2>2. CASE ~(i <= Len(q))
      <3>1. i - Len(q) \in 0 .. Len(r)
        BY <1>5, <2>2
      <3>2. g[i - Len(q)] \in Seq(Pem!Tokens)
        BY <1>2, <3>1 DEF TextPrefixes
      <3> QED
        BY <1>f, <2>2, <3>2, ConcatProperties
    <2> QED
      BY <2>1, <2>2
  <1>8. h[0] = <<>>
    BY <1>1, <1>5 DEF TextPrefixes
  <1>9. ASSUME NEW i \in 1 .. n PROVE h[i] = h[i - 1] \o (q \o r)[i]
    <2>1. /\ i \in Int /\ i \in 0 .. n /\ i - 1 \in 0 .. n
          /\ h[i] = IF i <= Len(q) THEN f[i] ELSE F \o g[i - Len(q)]
          /\ h[i - 1] = IF i - 1 <= Len(q) THEN f[i - 1] ELSE F \o g[i - 1 - Len(q)]
          /\ (q \o r)[i] = IF i <= Len(q) THEN q[i] ELSE r[i - Len(q)]
      BY <1>5, <1>6
    <2> HIDE DEF h
    <2>2. CASE i <= Len(q)
      <3>1. i \in 1 .. Len(q) /\ i - 1 <= Len(q)
        BY <1>5, <2>1, <2>2
      <3>2. f[i] = f[i - 1] \o q[i]
        BY <1>1, <3>1 DEF TextPrefixes
      <3> QED
        BY <2>1, <2>2, <3>1, <3>2
    <2>3. CASE ~(i <= Len(q))
      <3> DEFINE j == i - Len(q)
      <3>1. j \in 1 .. Len(r) /\ j - 1 \in 0 .. Len(r) /\ i - 1 - Len(q) = j - 1
        BY <1>5, <2>1, <2>3
      <3>2. g[j] = g[j - 1] \o r[j] /\ g[j - 1] \in Seq(Pem!Tokens)
        BY <1>2, <3>1 DEF TextPrefixes
      <3>3. r[j] \in Seq(Pem!Tokens)
        BY <3>1, ElementOfSeq
      <3>4. F \o g[j] = (F \o g[j - 1]) \o r[j]
        <4> HIDE DEF j
        <4>2. (F \o g[j - 1]) \o r[j] = F \o (g[j - 1] \o r[j])
          BY <1>f, <3>2, <3>3, Associative, Zenon
        <4> QED
          BY <3>2, <4>2, Zenon
      <3>5. h[i - 1] = F \o g[j - 1]
        <4>1. CASE i - 1 <= Len(q)
          <5>1. i - 1 = Len(q) /\ j - 1 = 0
            BY <1>5, <2>1, <2>3, <4>1
          <5>2. g[0] = <<>>
            BY <1>2 DEF TextPrefixes
          <5>3. h[i - 1] = F
            BY <1>f, <2>1, <4>1, <5>1
          <5>4. F \o <<>> = F
            BY <1>f, ConcatEmptySeq
          <5> QED
            BY <5>1, <5>2, <5>3, <5>4
        <4>2. CASE ~(i - 1 <= Len(q))
          BY <2>1, <3>1, <4>2
        <4> QED
          BY <4>1, <4>2
      <3>6. h[i] = F \o g[j] /\ (q \o r)[i] = r[j]
        BY <2>1, <2>3
      <3> QED
        BY <3>4, <3>5, <3>6
    <2> QED
      BY <2>2, <2>3
  <1>10. TextPrefixes(h, q \o r, n)
    <2> HIDE DEF h, n
    <2> QED
      BY <1>7, <1>8, <1>9 DEF TextPrefixes
  <1>11. Pem!FlattenSeq(q \o r) = h[n]
    <2> HIDE DEF h, n
    <2> QED
      BY <1>6, <1>10, FlattenIsPrefix
  <1>12. h[n] = F \o Pem!FlattenSeq(r)
    <2>1. n \in 0 .. n /\ n - Len(q) = Len(r) /\ (n <= Len(q) => Len(r) = 0 /\ n = Len(q))
      BY <1>5
    <2>2. h[n] = IF n <= Len(q) THEN f[n] ELSE F \o g[n - Len(q)]
      BY <2>1
    <2> HIDE DEF h, n
    <2>3. CASE n <= Len(q)
      <3>1. Pem!FlattenSeq(r) = <<>>
        BY <1>2, <1>4, <2>1, <2>3 DEF TextPrefixes
      <3>2. h[n] = F
        BY <1>f, <2>1, <2>2, <2>3
      <3> QED
        BY <1>f, <3>1, <3>2, ConcatEmptySeq
    <2>4. CASE ~(n <= Len(q))
      BY <1>4, <2>1, <2>2, <2>4
    <2> QED
      BY <2>3, <2>4
  <1> QED
    BY <1>3, <1>4, <1>6, <1>11, <1>12 DEF F

(* Induction over a text: what holds of the empty text, and of a text with *)
(* one more token when it held before, holds of every text.                *)
LEMMA TextInduction ==
    ASSUME NEW Good, <<>> \in Good,
           \A s \in Seq(Pem!Tokens), c \in Pem!Tokens : s \in Good => s \o <<c>> \in Good
    PROVE  \A s \in Seq(Pem!Tokens) : s \in Good
  <1> DEFINE Bad == {n \in Nat : \E s \in Seq(Pem!Tokens) : Len(s) = n /\ s \notin Good}
  <1>1. Bad = {}
    <2> SUFFICES ASSUME Bad # {} PROVE FALSE
      OBVIOUS
    <2>1. PICK n \in Bad : \A k \in Bad : n <= k
      BY LeastNumber
    <2>2. PICK s \in Seq(Pem!Tokens) : Len(s) = n /\ s \notin Good
      BY <2>1
    <2>3. s # <<>>
      BY <2>2
    <2>4. PICK r \in Seq(Pem!Tokens), c \in Pem!Tokens : s = Append(r, c)
      BY <2>3, SequenceEmptyOrAppend
    <2>5. s = r \o <<c>> /\ Len(s) = Len(r) + 1 /\ Len(r) \in Nat
      BY <2>4, AppendIsConcat, AppendProperties, LenProperties
    <2>6. r \notin Good
      BY <2>2, <2>5
    <2>7. Len(r) \in Bad
      BY <2>5, <2>6
    <2>8. n <= Len(r) /\ n = Len(r) + 1
      <3> HIDE DEF Bad
      <3> QED
        BY <2>1, <2>2, <2>5, <2>7
    <2> QED
      BY <2>5, <2>8
  <1>2. ASSUME NEW s \in Seq(Pem!Tokens) PROVE s \in Good
    <2>1. Len(s) \in Nat /\ Len(s) \notin Bad
      BY <1>1, LenProperties
    <2> QED
      BY <2>1
  <1> QED
    BY <1>2

(* A list of one text is that text. *)
LEMMA FlattenSmall ==
    /\ Pem!FlattenSeq(<<>>) = <<>>
    /\ \A e \in Seq(Pem!Tokens) : Pem!FlattenSeq(<<e>>) = e
  <1>1. Pem!FlattenSeq(<<>>) = <<>>
    BY DEF Pem!FlattenSeq
  <1>2. ASSUME NEW e \in Seq(Pem!Tokens) PROVE Pem!FlattenSeq(<<e>>) = e
    <2> DEFINE q == <<e>>
               f == [i \in 0 .. 1 |-> IF i = 0 THEN <<>> ELSE e]
    <2>1. q \in Seq(Seq(Pem!Tokens)) /\ Len(q) = 1 /\ q[1] = e
      OBVIOUS
    <2>2. <<>> \in Seq(Pem!Tokens) /\ <<>> \o e = e
      BY EmptySeq, ConcatEmptySeq
    <2>3. f \in [0 .. 1 -> Seq(Pem!Tokens)] /\ f[0] = <<>> /\ f[1] = e
      BY <2>2
    <2>4. ASSUME NEW i \in 1 .. 1 PROVE f[i] = f[i - 1] \o q[i]
      <3>1. i = 1 /\ i - 1 = 0
        OBVIOUS
      <3> HIDE DEF f, q
      <3> QED
        BY <2>1, <2>2, <2>3, <3>1
    <2> HIDE DEF f, q
    <2>5. TextPrefixes(f, q, Len(q))
      BY <2>1, <2>3, <2>4 DEF TextPrefixes
    <2>6. Pem!FlattenSeq(q) = f[Len(q)]
      BY <2>1, <2>5, FlattenIsPrefix
    <2> QED
      BY <2>1, <2>3, <2>6 DEF q
  <1> QED
    BY <1>1, <1>2

(* One more text comes behind the others. *)
LEMMA FlattenAppend ==
    ASSUME NEW q \in Seq(Seq(Pem!Tokens)), NEW e \in Seq(Pem!Tokens)
    PROVE  /\ Append(q, e) \in Seq(Seq(Pem!Tokens))
           /\ Pem!FlattenSeq(q) \in Seq(Pem!Tokens)
           /\ Pem!FlattenSeq(Append(q, e)) = Pem!FlattenSeq(q) \o e
  <1>1. Append(q, e) = q \o <<e>> /\ Append(q, e) \in Seq(Seq(Pem!Tokens))
    BY AppendIsConcat, AppendProperties
  <1>2. <<e>> \in Seq(Seq(Pem!Tokens))
    OBVIOUS
  <1>3. Pem!FlattenSeq(q \o <<e>>) = Pem!FlattenSeq(q) \o Pem!FlattenSeq(<<e>>)
        /\ Pem!FlattenSeq(q) \in Seq(Pem!Tokens)
    BY <1>2, FlattenConcat
  <1> QED
    BY <1>1, <1>3, FlattenSmall

-----------------------------------------------------------------------------
(* What every token of s leaves when white space is taken out *)
Spaceless(s) == [i \in 1 .. Len(s) |-> IF s[i] = "n" THEN <<>> ELSE <<s[i]>>]

(* Taking out white space is done token by token. *)
LEMMA SpacelessIs ==
    ASSUME NEW s \in Seq(Pem!Tokens)
    PROVE  /\ Spaceless(s) \in Seq(Seq(Pem!Tokens))
           /\ Len(Spaceless(s)) = Len(s)
           /\ \A i \in 1 .. Len(s) :
                Spaceless(s)[i] = IF s[i] = "n" THEN <<>> ELSE <<s[i]>>
           /\ Pem!NoSpace(s) = Pem!FlattenSeq(Spaceless(s))
           /\ Pem!NoSpace(s) \in Seq(Pem!Tokens)
  <1>1. Len(s) \in Nat /\ \A i \in 1 .. Len(s) : s[i] \in Pem!Tokens
    BY LenProperties, ElementOfSeq
  <1>2. \A i \in 1 .. Len(s) :
            (IF s[i] = "n" THEN <<>> ELSE <<s[i]>>) \in Seq(Pem!Tokens)
    <2>1. <<>> \in Seq(Pem!Tokens)
      BY EmptySeq
    <2> QED
      BY <1>1, <2>1
  <1>3. Spaceless(s) \in [1 .. Len(s) -> Seq(Pem!Tokens)]
    BY <1>1, <1>2 DEF Spaceless
  <1>4. Spaceless(s) \in Seq(Seq(Pem!Tokens)) /\ Len(Spaceless(s)) = Len(s)
    BY <1>1, <1>3
  <1>5. \A i \in 1 .. Len(s) :
            Spaceless(s)[i] = IF s[i] = "n" THEN <<>> ELSE <<s[i]>>
    BY DEF Spaceless
  <1>6. Pem!NoSpace(s) = Pem!FlattenSeq(Spaceless(s))
    BY DEF Pem!NoSpace, Spaceless
  <1>7. Pem!FlattenSeq(Spaceless(s)) \in Seq(Pem!Tokens)
    BY <1>4, FlattenConcat
  <1> QED
    BY <1>4, <1>5, <1>6, <1>7

(* White space can be taken out of two texts before they are joined. *)
LEMMA NoSpaceConcat ==
    ASSUME NEW s \in Seq(Pem!Tokens), NEW t \in Seq(Pem!Tokens)
    PROVE  /\ Pem!NoSpace(s \o t) = Pem!NoSpace(s) \o Pem!NoSpace(t)
           /\ Pem!NoSpace(s) \in Seq(Pem!Tokens) /\ Pem!NoSpace(t) \in Seq(Pem!Tokens)
  <1>1. /\ s \o t \in Seq(Pem!Tokens) /\ Len(s \o t) = Len(s) + Len(t)
        /\ \A i \in 1 .. Len(s) + Len(t) :
              (s \o t)[i] = IF i <= Len(s) THEN s[i] ELSE t[i - Len(s)]
    BY ConcatProperties
  <1>2. /\ Spaceless(s) \in Seq(Seq(Pem!Tokens)) /\ Len(Spaceless(s)) = Len(s)
        /\ \A i \in 1 .. Len(s) :
              Spaceless(s)[i] = IF s[i] = "n" THEN <<>> ELSE <<s[i]>>
        /\ Pem!NoSpace(s) = Pem!FlattenSeq(Spaceless(s))
        /\ Pem!NoSpace(s) \in Seq(Pem!Tokens)
    BY SpacelessIs
  <1>3. /\ Spaceless(t) \in Seq(Seq(Pem!Tokens)) /\ Len(Spaceless(t)) = Len(t)
        /\ \A i \in 1 .. Len(t) :
              Spaceless(t)[i] = IF t[i] = "n" THEN <<>> ELSE <<t[i]>>
        /\ Pem!NoSpace(t) = Pem!FlattenSeq(Spaceless(t))
        /\ Pem!NoSpace(t) \in Seq(Pem!Tokens)
    BY SpacelessIs
  <1>4. /\ Spaceless(s \o t) \in Seq(Seq(Pem!Tokens))
        /\ Len(Spaceless(s \o t)) = Len(s) + Len(t)
        /\ \A i \in 1 .. Len(s) + Len(t) :
              Spaceless(s \o t)[i] = IF (s \o t)[i] = "n" THEN <<>> ELSE <<(s \o t)[i]>>
        /\ Pem!NoSpace(s \o t) = Pem!FlattenSeq(Spaceless(s \o t))
    BY <1>1, SpacelessIs
  <1>5. /\ Spaceless(s) \o Spaceless(t) \in Seq(Seq(Pem!Tokens))
        /\ Len(Spaceless(s) \o Spaceless(t)) = Len(s) + Len(t)
        /\ \A i \in 1 .. Len(s) + Len(t) :
              (Spaceless(s) \o Spaceless(t))[i] =
                  IF i <= Len(s) THEN Spaceless(s)[i] ELSE Spaceless(t)[i - Len(s)]
    <2> DEFINE a == Spaceless(s)
               b == Spaceless(t)
    <2>1. a \in Seq(Seq(Pem!Tokens)) /\ b \in Seq(Seq(Pem!Tokens))
          /\ Len(a) = Len(s) /\ Len(b) = Len(t)
      BY <1>2, <1>3
    <2> HIDE DEF a, b
    <2>2. /\ a \o b \in Seq(Seq(Pem!Tokens))
          /\ Len(a \o b) = Len(a) + Len(b)
          /\ \A i \in 1 .. Len(a) + Len(b) :
                (a \o b)[i] = IF i <= Len(a) THEN a[i] ELSE b[i - Len(a)]
      BY <2>1, ConcatProperties
    <2>3. /\ a \o b \in Seq(Seq(Pem!Tokens))
          /\ Len(a \o b) = Len(s) + Len(t)
          /\ \A i \in 1 .. Len(s) + Len(t) :
                (a \o b)[i] = IF i <= Len(s) THEN a[i] ELSE b[i - Len(s)]
      BY <2>1, <2>2, Zenon
    <2> QED
      BY <2>3 DEF a, b
  <1>6. Len(s) \in Nat /\ Len(t) \in Nat
    BY LenProperties
  <1>7. ASSUME NEW i \in 1 .. Len(s) + Len(t)
        PROVE  Spaceless(s \o t)[i] = (Spaceless(s) \o Spaceless(t))[i]
    <2>1. CASE i <= Len(s)
      <3>1. i \in 1 .. Len(s)
        BY <1>6, <2>1
      <3> QED
        BY <1>1, <1>2, <1>4, <1>5, <2>1, <3>1
    <2>2. CASE ~(i <= Len(s))
      <3> DEFINE j == i - Len(s)
      <3>1. j \in 1 .. Len(t)
        BY <1>6, <2>2
      <3>2. (s \o t)[i] = t[j] /\ (Spaceless(s) \o Spaceless(t))[i] = Spaceless(t)[j]
        BY <1>1, <1>5, <2>2
      <3> HIDE DEF j
      <3> QED
        BY <1>3, <1>4, <3>1, <3>2
    <2> QED
      BY <2>1, <2>2
  <1>8. Spaceless(s \o t) = Spaceless(s) \o Spaceless(t)
    BY <1>4, <1>5, <1>7, SeqEqual
  <1>9. Pem!FlattenSeq(Spaceless(s) \o Spaceless(t))
            = Pem!FlattenSeq(Spaceless(s)) \o Pem!FlattenSeq(Spaceless(t))
    BY <1>2, <1>3, FlattenConcat
  <1> QED
    BY <1>2, <1>3, <1>4, <1>8, <1>9

(* Taking white space out of a single token, and of nothing. *)
LEMMA NoSpaceSmall ==
    /\ Pem!NoSpace(<<>>) = <<>>
    /\ \A c \in Pem!Tokens : Pem!NoSpace(<<c>>) = IF c = "n" THEN <<>> ELSE <<c>>
  <1>1. Pem!NoSpace(<<>>) = <<>>
    <2>1. <<>> \in Seq(Pem!Tokens)
      BY EmptySeq
    <2>2. Spaceless(<<>>) \in Seq(Seq(Pem!Tokens)) /\ Len(Spaceless(<<>>)) = 0
          /\ Pem!NoSpace(<<>>) = Pem!FlattenSeq(Spaceless(<<>>))
      BY <2>1, SpacelessIs
    <2>3. Spaceless(<<>>) = <<>>
      BY <2>2, EmptySeq
    <2> QED
      BY <2>2, <2>3, FlattenSmall
  <1>2. ASSUME NEW c \in Pem!Tokens
        PROVE  Pem!NoSpace(<<c>>) = IF c = "n" THEN <<>> ELSE <<c>>
    <2> DEFINE s == <<c>>
               e == IF c = "n" THEN <<>> ELSE <<c>>
    <2>1. s \in Seq(Pem!Tokens) /\ Len(s) = 1 /\ s[1] = c
      OBVIOUS
    <2>2. e \in Seq(Pem!Tokens)
      <3>1. <<>> \in Seq(Pem!Tokens)
        BY EmptySeq
      <3> QED
        BY <3>1
    <2>3. /\ Spaceless(s) \in Seq(Seq(Pem!Tokens)) /\ Len(Spaceless(s)) = Len(s)
          /\ \A i \in 1 .. Len(s) :
                Spaceless(s)[i] = IF s[i] = "n" THEN <<>> ELSE <<s[i]>>
          /\ Pem!NoSpace(s) = Pem!FlattenSeq(Spaceless(s))
      BY <2>1, SpacelessIs
    <2>4. Spaceless(s)[1] = e
      <3> HIDE DEF s
      <3> QED
        BY <2>1, <2>3
    <2> HIDE DEF s, e
    <2>5. Spaceless(s) = <<e>>
      <3>1. <<e>> \in Seq(Seq(Pem!Tokens)) /\ Len(<<e>>) = 1 /\ <<e>>[1] = e
        BY <2>2
      <3>2. \A i \in 1 .. Len(Spaceless(s)) : Spaceless(s)[i] = <<e>>[i]
        BY <2>1, <2>3, <2>4, <3>1
      <3> QED
        BY <2>1, <2>3, <3>1, <3>2, SeqEqual
    <2>6. Pem!NoSpace(s) = e
      BY <2>2, <2>3, <2>5, FlattenSmall
    <2> QED
      BY <2>6 DEF s, e
  <1> QED
    BY <1>1, <1>2

(* A token occurs in a text *)
Occurs(c, s) == \E i \in 1 .. Len(s) : s[i] = c

(* A token occurs in two texts in a row when it occurs in one of them. *)
LEMMA OccursConcat ==
    ASSUME NEW s \in Seq(Pem!Tokens), NEW t \in Seq(Pem!Tokens), NEW c
    PROVE  Occurs(c, s \o t) <=> Occurs(c, s) \/ Occurs(c, t)
  <1>1. /\ Len(s \o t) = Len(s) + Len(t)
        /\ \A i \in 1 .. Len(s) + Len(t) :
              (s \o t)[i] = IF i <= Len(s) THEN s[i] ELSE t[i - Len(s)]
    BY ConcatProperties
  <1>2. Len(s) \in Nat /\ Len(t) \in Nat
    BY LenProperties
  <1>3. ASSUME Occurs(c, s \o t) PROVE Occurs(c, s) \/ Occurs(c, t)
    <2>1. PICK i \in 1 .. Len(s) + Len(t) : (s \o t)[i] = c
      BY <1>1, <1>3 DEF Occurs
    <2>2. i <= Len(s) => i \in 1 .. Len(s) /\ s[i] = c
      BY <1>1, <1>2, <2>1
    <2>3. ~(i <= Len(s)) => i - Len(s) \in 1 .. Len(t) /\ t[i - Len(s)] = c
      BY <1>1, <1>2, <2>1
    <2> QED
      BY <2>2, <2>3 DEF Occurs
  <1>4. ASSUME Occurs(c, s) PROVE Occurs(c, s \o t)
    <2>1. PICK i \in 1 .. Len(s) : s[i] = c
      BY <1>4 DEF Occurs
    <2>2. i \in 1 .. Len(s) + Len(t) /\ i <= Len(s)
      BY <1>2
    <2>3. (s \o t)[i] = c
      BY <1>1, <2>1, <2>2
    <2> QED
      BY <1>1, <2>2, <2>3 DEF Occurs
  <1>5. ASSUME Occurs(c, t) PROVE Occurs(c, s \o t)
    <2>1. PICK j \in 1 .. Len(t) : t[j] = c
      BY <1>5 DEF Occurs
    <2> DEFINE i == j + Len(s)
    <2>2. i \in 1 .. Len(s) + Len(t) /\ ~(i <= Len(s)) /\ i - Len(s) = j
      BY <1>2
    <2> HIDE DEF i
    <2>3. (s \o t)[i] = c
      BY <1>1, <2>1, <2>2
    <2> QED
      BY <1>1, <2>2, <2>3 DEF Occurs
  <1> QED
    BY <1>3, <1>4, <1>5

(* What occurs in the smallest texts *)
LEMMA OccursSmall ==
    \A c, d : /\ ~Occurs(c, <<>>)
              /\ Occurs(c, <<d>>) <=> c = d
  <1>1. \A c : ~Occurs(c, <<>>)
    <2>1. Len(<<>>) = 0
      OBVIOUS
    <2> QED
      BY <2>1 DEF Occurs
  <1>2. ASSUME NEW c, NEW d PROVE Occurs(c, <<d>>) <=> c = d
    <2>1. Len(<<d>>) = 1 /\ <<d>>[1] = d
      OBVIOUS
    <2>2. 1 \in 1 .. 1 /\ \A i \in 1 .. 1 : i = 1
      OBVIOUS
    <2> QED
      BY <2>1, <2>2 DEF Occurs
  <1> QED
    BY <1>1, <1>2

(* Taking out white space takes out nothing else, and all of it. *)
LEMMA NoSpaceElements ==
    \A s \in Seq(Pem!Tokens) :
        /\ ~Occurs("n", Pem!NoSpace(s))
        /\ \A c \in Pem!Tokens \ {"n"} : Occurs(c, Pem!NoSpace(s)) <=> Occurs(c, s)
  <1> DEFINE Good == {s \in Seq(Pem!Tokens) :
                        /\ ~Occurs("n", Pem!NoSpace(s))
                        /\ \A c \in Pem!Tokens \ {"n"} :
                              Occurs(c, Pem!NoSpace(s)) <=> Occurs(c, s)}
  <1>1. <<>> \in Good
    <2>1. <<>> \in Seq(Pem!Tokens)
      BY EmptySeq
    <2> QED
      BY <2>1, NoSpaceSmall, OccursSmall, Zenon
  <1>2. ASSUME NEW s \in Seq(Pem!Tokens), NEW d \in Pem!Tokens, s \in Good
        PROVE  s \o <<d>> \in Good
    <2>1. <<d>> \in Seq(Pem!Tokens)
      OBVIOUS
    <2>2. /\ s \o <<d>> \in Seq(Pem!Tokens)
          /\ Pem!NoSpace(s \o <<d>>) = Pem!NoSpace(s) \o Pem!NoSpace(<<d>>)
          /\ Pem!NoSpace(s) \in Seq(Pem!Tokens) /\ Pem!NoSpace(<<d>>) \in Seq(Pem!Tokens)
      BY <2>1, NoSpaceConcat, ConcatProperties
    <2>3. ASSUME NEW c
          PROVE  /\ Occurs(c, s \o <<d>>) <=> Occurs(c, s) \/ c = d
                 /\ Occurs(c, Pem!NoSpace(s \o <<d>>))
                        <=> Occurs(c, Pem!NoSpace(s)) \/ Occurs(c, Pem!NoSpace(<<d>>))
      <3>1. Occurs(c, s \o <<d>>) <=> Occurs(c, s) \/ Occurs(c, <<d>>)
        BY <2>1, OccursConcat
      <3>2. Occurs(c, Pem!NoSpace(s) \o Pem!NoSpace(<<d>>))
                        <=> Occurs(c, Pem!NoSpace(s)) \/ Occurs(c, Pem!NoSpace(<<d>>))
        BY <2>2, OccursConcat
      <3> QED
        BY <2>2, <3>1, <3>2, OccursSmall
    <2>4. \A c : Occurs(c, Pem!NoSpace(<<d>>)) <=> c = d /\ d # "n"
      <3>1. CASE d = "n"
        <4>1. Pem!NoSpace(<<d>>) = <<>>
          BY <3>1, NoSpaceSmall
        <4> QED
          BY <3>1, <4>1, OccursSmall
      <3>2. CASE d # "n"
        <4>1. Pem!NoSpace(<<d>>) = <<d>>
          BY <3>2, NoSpaceSmall
        <4> QED
          BY <3>2, <4>1, OccursSmall
      <3> QED
        BY <3>1, <3>2
    <2> QED
      BY <1>2, <2>2, <2>3, <2>4, Zenon
  <1>3. \A s \in Seq(Pem!Tokens) : s \in Good
    <2> HIDE DEF Good
    <2> QED
      BY <1>1, <1>2, TextInduction
  <1> QED
    BY <1>3, Zenon

(* Nothing is left when there is nothing but white space, and only then. *)
LEMMA NoSpaceEmpty ==
    ASSUME NEW s \in Seq(Pem!Tokens)
    PROVE  Pem!NoSpace(s) = <<>> <=> \A i \in 1 .. Len(s) : s[i] = "n"
  <1>1. Pem!NoSpace(s) \in Seq(Pem!Tokens) /\ \A i \in 1 .. Len(s) : s[i] \in Pem!Tokens
    BY SpacelessIs, ElementOfSeq
  <1>2. ASSUME Pem!NoSpace(s) = <<>>, NEW i \in 1 .. Len(s), s[i] # "n" PROVE FALSE
    <2>1. Occurs(s[i], s) /\ s[i] \in Pem!Tokens \ {"n"}
      BY <1>1, <1>2 DEF Occurs
    <2>2. Occurs(s[i], Pem!NoSpace(s))
      BY <2>1, NoSpaceElements
    <2> QED
      BY <1>2, <2>2, OccursSmall
  <1>3. ASSUME \A i \in 1 .. Len(s) : s[i] = "n", Pem!NoSpace(s) # <<>> PROVE FALSE
    <2> DEFINE t == Pem!NoSpace(s)
    <2>1. 1 \in 1 .. Len(t) /\ t[1] \in Pem!Tokens
      <3>1. t \in Seq(Pem!Tokens) /\ t # <<>>
        BY <1>1, <1>3
      <3> HIDE DEF t
      <3>2. Len(t) \in Nat \ {0}
        BY <3>1, EmptySeq
      <3>3. 1 \in 1 .. Len(t)
        BY <3>2
      <3> QED
        BY <3>1, <3>3, ElementOfSeq
    <2>2. Occurs(t[1], t)
      BY <2>1 DEF Occurs
    <2>3. t[1] # "n" /\ Occurs(t[1], s)
      BY <2>1, <2>2, NoSpaceElements
    <2> HIDE DEF t
    <2> QED
      BY <1>3, <2>3 DEF Occurs
  <1> QED
    BY <1>2, <1>3

(* Where there is no white space, taking it out changes nothing. *)
LEMMA NoSpaceSame ==
    \A s \in Seq(Pem!Tokens) : ~Occurs("n", s) => Pem!NoSpace(s) = s
  <1> DEFINE Good == {s \in Seq(Pem!Tokens) : ~Occurs("n", s) => Pem!NoSpace(s) = s}
  <1>1. <<>> \in Good
    <2>1. <<>> \in Seq(Pem!Tokens)
      BY EmptySeq
    <2> QED
      BY <2>1, NoSpaceSmall
  <1>2. ASSUME NEW s \in Seq(Pem!Tokens), NEW d \in Pem!Tokens, s \in Good
        PROVE  s \o <<d>> \in Good
    <2>1. <<d>> \in Seq(Pem!Tokens)
      OBVIOUS
    <2>2. /\ s \o <<d>> \in Seq(Pem!Tokens)
          /\ Pem!NoSpace(s \o <<d>>) = Pem!NoSpace(s) \o Pem!NoSpace(<<d>>)
      BY <2>1, NoSpaceConcat, ConcatProperties
    <2>3. Occurs("n", s \o <<d>>) <=> Occurs("n", s) \/ "n" = d
      <3>1. Occurs("n", s \o <<d>>) <=> Occurs("n", s) \/ Occurs("n", <<d>>)
        BY <2>1, OccursConcat
      <3> QED
        BY <3>1, OccursSmall
    <2>4. d # "n" => Pem!NoSpace(<<d>>) = <<d>>
      BY NoSpaceSmall
    <2>5. (~Occurs("n", s) => Pem!NoSpace(s) = s)
      BY <1>2
    <2> QED
      BY <2>2, <2>3, <2>4, <2>5
  <1>3. \A s \in Seq(Pem!Tokens) : s \in Good
    <2> HIDE DEF Good
    <2> QED
      BY <1>1, <1>2, TextInduction
  <1> QED
    BY <1>3

(* Texts that leave one token each leave those tokens. *)
LEMMA NoSpaceOfList ==
    ASSUME NEW q \in Seq(Seq(Pem!Tokens)), NEW b \in Seq(Pem!Tokens), Len(q) = Len(b),
           \A i \in 1 .. Len(b) : Pem!NoSpace(q[i]) = <<b[i]>>
    PROVE  Pem!NoSpace(Pem!FlattenSeq(q)) = b
  <1> DEFINE Left(k) == Pem!NoSpace(Pem!FlattenSeq(SubSeq(q, 1, k)))
             Bad == {k \in Nat : k <= Len(b) /\ Left(k) # SubSeq(b, 1, k)}
  <1>0. Len(b) \in Nat
    BY LenProperties
  <1>1. Bad = {}
    <2> SUFFICES ASSUME Bad # {} PROVE FALSE
      OBVIOUS
    <2>1. PICK k \in Bad : \A j \in Bad : k <= j
      BY LeastNumber
    <2>2. k \in Nat /\ k <= Len(b) /\ Left(k) # SubSeq(b, 1, k)
      BY <2>1
    <2>3. CASE k = 0
      <3>1. SubSeq(q, 1, 0) = <<>> /\ SubSeq(b, 1, 0) = <<>>
        BY SubSeqEmpty
      <3>2. Left(k) = <<>>
        BY <2>3, <3>1, FlattenSmall, NoSpaceSmall
      <3> QED
        BY <2>2, <2>3, <3>1, <3>2
    <2>4. CASE k # 0
      <3>1. k \in 1 .. Len(b) /\ k \in 1 .. Len(q) /\ 1 \in 1 .. Len(b) /\ k \in 1 .. k
            /\ k - 1 \in Nat /\ k - 1 <= Len(b) /\ ~(k <= k - 1)
        BY <1>0, <2>2, <2>4
      <3>2. k - 1 \notin Bad
        <4> HIDE DEF Bad
        <4> QED
          BY <2>1, <3>1
      <3>3. Left(k - 1) = SubSeq(b, 1, k - 1)
        BY <3>1, <3>2
      <3>4. SubSeq(b, 1, k) = SubSeq(b, 1, k - 1) \o <<b[k]>>
        BY <1>0, <3>1, SubSeqRecursiveSecond
      <3>5. SubSeq(q, 1, k) = SubSeq(q, 1, k - 1) \o <<q[k]>>
        BY <1>0, <3>1, SubSeqRecursiveSecond
      <3>6. SubSeq(q, 1, k - 1) \in Seq(Seq(Pem!Tokens)) /\ q[k] \in Seq(Pem!Tokens)
        <4>1. \A i \in 1 .. Len(q) : q[i] \in Seq(Pem!Tokens)
          BY ElementOfSeq
        <4>2. \A i \in 1 .. k - 1 : q[i] \in Seq(Pem!Tokens)
          BY <1>0, <3>1, <4>1
        <4>3. 1 \in Int /\ k - 1 \in Int
          BY <3>1
        <4> QED
          BY <3>1, <4>1, <4>2, <4>3, SubSeqProperties
      <3> DEFINE r == SubSeq(q, 1, k - 1)
                 e == q[k]
      <3> HIDE DEF r, e
      <3>7. r \in Seq(Seq(Pem!Tokens)) /\ e \in Seq(Pem!Tokens)
        BY <3>6 DEF r, e
      <3>8. Pem!FlattenSeq(r) \in Seq(Pem!Tokens)
            /\ Pem!FlattenSeq(Append(r, e)) = Pem!FlattenSeq(r) \o e
            /\ Append(r, e) = r \o <<e>>
        BY <3>7, FlattenAppend, AppendIsConcat
      <3>9. Pem!NoSpace(Pem!FlattenSeq(r) \o e) = Pem!NoSpace(Pem!FlattenSeq(r)) \o Pem!NoSpace(e)
        BY <3>7, <3>8, NoSpaceConcat
      <3>10. Pem!NoSpace(e) = <<b[k]>> /\ Pem!NoSpace(Pem!FlattenSeq(r)) = SubSeq(b, 1, k - 1)
        BY <3>1, <3>3 DEF r, e
      <3>11. Left(k) = Pem!NoSpace(Pem!FlattenSeq(r \o <<e>>))
        BY <3>5 DEF r, e
      <3> QED
        BY <2>2, <3>4, <3>8, <3>9, <3>10, <3>11
    <2> QED
      BY <2>3, <2>4
  <1>2. Left(Len(b)) = SubSeq(b, 1, Len(b))
    <2>1. Len(b) \in Nat /\ Len(b) <= Len(b) /\ Len(b) \notin Bad
      BY <1>0, <1>1, SMTT(30)
    <2> QED
      BY <2>1
  <1>3. SubSeq(b, 1, Len(b)) = b /\ SubSeq(q, 1, Len(q)) = q
    BY SubSeqFull
  <1> QED
    BY <1>2, <1>3

(* What the text leaves between two positions, without white space *)
Piece(s, a, b) == Pem!NoSpace(SubSeq(s, a + 1, b))

(* The tokens between two positions of a text *)
LEMMA SliceIs ==
    ASSUME NEW s \in Seq(Pem!Tokens), NEW a \in 0 .. Len(s), NEW b \in a .. Len(s)
    PROVE  /\ SubSeq(s, a + 1, b) \in Seq(Pem!Tokens)
           /\ Len(SubSeq(s, a + 1, b)) = b - a
           /\ \A i \in 1 .. b - a : SubSeq(s, a + 1, b)[i] = s[a + i]
  <1>1. Len(s) \in Nat /\ \A i \in 1 .. Len(s) : s[i] \in Pem!Tokens
    BY LenProperties, ElementOfSeq
  <1>2. a + 1 \in Int /\ b \in Int /\ a \in Nat /\ b \in Nat /\ a <= b /\ b <= Len(s)
    BY <1>1
  <1>3. \A i \in a + 1 .. b : s[i] \in Pem!Tokens
    BY <1>1, <1>2
  <1>4. /\ SubSeq(s, a + 1, b) \in Seq(Pem!Tokens)
        /\ Len(SubSeq(s, a + 1, b)) = IF a + 1 <= b THEN b - (a + 1) + 1 ELSE 0
        /\ \A i \in 1 .. b - (a + 1) + 1 : SubSeq(s, a + 1, b)[i] = s[a + 1 + i - 1]
    BY <1>2, <1>3, SubSeqProperties
  <1>5. (IF a + 1 <= b THEN b - (a + 1) + 1 ELSE 0) = b - a /\ b - (a + 1) + 1 = b - a
    BY <1>2
  <1>6. \A i \in 1 .. b - a : a + 1 + i - 1 = a + i
    BY <1>2
  <1> QED
    BY <1>4, <1>5, <1>6

(* A piece is the piece up to a position and the piece behind it. *)
LEMMA PieceSplit ==
    ASSUME NEW s \in Seq(Pem!Tokens), NEW a \in 0 .. Len(s), NEW b \in a .. Len(s),
           NEW c \in b .. Len(s)
    PROVE  /\ Piece(s, a, c) = Piece(s, a, b) \o Piece(s, b, c)
           /\ Piece(s, a, b) \in Seq(Pem!Tokens) /\ Piece(s, b, c) \in Seq(Pem!Tokens)
  <1>0. Len(s) \in Nat
    BY LenProperties
  <1>1. SubSeq(s, a + 1, b) \o SubSeq(s, b + 1, c) = SubSeq(s, a + 1, c)
    <2>1. a + 1 \in 1 .. Len(s) + 1 /\ b \in (a + 1) - 1 .. Len(s) /\ c \in b .. Len(s)
      BY <1>0
    <2> QED
      BY <2>1, ConcatAdjacentSubSeq
  <1>2. b \in 0 .. Len(s)
    BY <1>0
  <1>3. SubSeq(s, a + 1, b) \in Seq(Pem!Tokens) /\ SubSeq(s, b + 1, c) \in Seq(Pem!Tokens)
    BY <1>2, SliceIs
  <1> QED
    BY <1>1, <1>3, NoSpaceConcat DEF Piece

(* The piece of a single token *)
LEMMA PieceOne ==
    ASSUME NEW s \in Seq(Pem!Tokens), NEW a \in 0 .. Len(s) - 1
    PROVE  Piece(s, a, a + 1) = IF s[a + 1] = "n" THEN <<>> ELSE <<s[a + 1]>>
  <1>0. Len(s) \in Nat
    BY LenProperties
  <1>1. a \in 0 .. Len(s) /\ a + 1 \in a .. Len(s) /\ (a + 1) - a = 1 /\ a + 1 \in 1 .. Len(s)
    BY <1>0
  <1> DEFINE t == SubSeq(s, a + 1, a + 1)
             c == s[a + 1]
  <1>2. /\ t \in Seq(Pem!Tokens) /\ Len(t) = 1
        /\ \A i \in 1 .. 1 : t[i] = s[a + i]
    BY <1>1, SliceIs
  <1>3. t[1] = c /\ c \in Pem!Tokens
    BY <1>1, <1>2, ElementOfSeq
  <1> HIDE DEF t, c
  <1>4. t = <<c>>
    BY <1>2, <1>3
  <1>5. Pem!NoSpace(<<c>>) = IF c = "n" THEN <<>> ELSE <<c>>
    BY <1>3, NoSpaceSmall
  <1> QED
    BY <1>4, <1>5 DEF Piece, t, c

(* A piece is empty when there is nothing but white space in its place. *)
LEMMA PieceEmpty ==
    ASSUME NEW s \in Seq(Pem!Tokens), NEW a \in 0 .. Len(s), NEW b \in a .. Len(s)
    PROVE  Piece(s, a, b) = <<>> <=> \A i \in a + 1 .. b : s[i] = "n"
  <1>0. Len(s) \in Nat /\ a \in Nat /\ b \in Nat
    BY LenProperties
  <1> DEFINE t == SubSeq(s, a + 1, b)
  <1>1. /\ t \in Seq(Pem!Tokens) /\ Len(t) = b - a
        /\ \A i \in 1 .. b - a : t[i] = s[a + i]
    BY SliceIs
  <1> HIDE DEF t
  <1>2. Pem!NoSpace(t) = <<>> <=> \A i \in 1 .. b - a : t[i] = "n"
    BY <1>1, NoSpaceEmpty
  <1>3. ASSUME \A i \in 1 .. b - a : t[i] = "n", NEW i \in a + 1 .. b PROVE s[i] = "n"
    <2>1. i - a \in 1 .. b - a /\ a + (i - a) = i
      BY <1>0
    <2> QED
      BY <1>1, <1>3, <2>1
  <1>4. ASSUME \A i \in a + 1 .. b : s[i] = "n", NEW i \in 1 .. b - a PROVE t[i] = "n"
    <2>1. a + i \in a + 1 .. b
      BY <1>0
    <2> QED
      BY <1>1, <1>4, <2>1
  <1> QED
    BY <1>2, <1>3, <1>4 DEF Piece, t

(* What occurs in a piece occurs in its place. *)
LEMMA PieceOccurs ==
    ASSUME NEW s \in Seq(Pem!Tokens), NEW a \in 0 .. Len(s), NEW b \in a .. Len(s),
           NEW c \in Pem!Tokens \ {"n"}
    PROVE  Occurs(c, Piece(s, a, b)) => \E i \in a + 1 .. b : s[i] = c
  <1>0. Len(s) \in Nat /\ a \in Nat /\ b \in Nat
    BY LenProperties
  <1> SUFFICES ASSUME Occurs(c, Piece(s, a, b)) PROVE \E i \in a + 1 .. b : s[i] = c
    OBVIOUS
  <1> DEFINE t == SubSeq(s, a + 1, b)
  <1>1. /\ t \in Seq(Pem!Tokens) /\ Len(t) = b - a
        /\ \A i \in 1 .. b - a : t[i] = s[a + i]
    BY SliceIs
  <1>2. Occurs(c, Pem!NoSpace(t))
    BY DEF Piece
  <1> HIDE DEF t
  <1>3. Occurs(c, t)
    BY <1>1, <1>2, NoSpaceElements
  <1>4. PICK i \in 1 .. b - a : t[i] = c
    BY <1>1, <1>3 DEF Occurs
  <1>5. a + i \in a + 1 .. b /\ s[a + i] = c
    BY <1>0, <1>1, <1>4
  <1> QED
    BY <1>5

(* What stands in a place occurs in its piece. *)
LEMMA PieceKeeps ==
    ASSUME NEW s \in Seq(Pem!Tokens), NEW a \in 0 .. Len(s), NEW b \in a .. Len(s),
           NEW c \in Pem!Tokens \ {"n"}, NEW i \in a + 1 .. b, s[i] = c
    PROVE  Occurs(c, Piece(s, a, b))
  <1>0. Len(s) \in Nat /\ a \in Nat /\ b \in Nat
    BY LenProperties
  <1> DEFINE t == SubSeq(s, a + 1, b)
  <1>1. /\ t \in Seq(Pem!Tokens) /\ Len(t) = b - a
        /\ \A j \in 1 .. b - a : t[j] = s[a + j]
    BY SliceIs
  <1>2. i - a \in 1 .. b - a /\ a + (i - a) = i
    BY <1>0
  <1> HIDE DEF t
  <1>3. Occurs(c, t)
    BY <1>1, <1>2 DEF Occurs
  <1>4. Occurs(c, Pem!NoSpace(t))
    BY <1>1, <1>3, NoSpaceElements
  <1> QED
    BY <1>4 DEF Piece, t

-----------------------------------------------------------------------------
(* The first token of something that is not empty occurs in it. *)
LEMMA FirstOccurs ==
    ASSUME NEW s \in Seq(Pem!Tokens), s # <<>>
    PROVE  /\ Len(s) \in Nat /\ Len(s) >= 1 /\ 1 \in 1 .. Len(s) /\ Len(s) \in 1 .. Len(s)
           /\ Occurs(s[1], s) /\ s[1] \in Pem!Tokens
           /\ Occurs(s[Len(s)], s) /\ s[Len(s)] \in Pem!Tokens
  <1>1. Len(s) \in Nat \ {0}
    BY EmptySeq
  <1>2. 1 \in 1 .. Len(s) /\ Len(s) \in 1 .. Len(s)
    BY <1>1
  <1> QED
    BY <1>1, <1>2, ElementOfSeq DEF Occurs

(* npos is beyond every position of a text and of an element of its list. *)
LEMMA NposIsBeyond ==
    /\ PemLength \in Nat /\ Pem!Npos \in Int /\ Pem!Npos >= 4 * PemLength
    /\ LineLength \in Nat \ {0} /\ SizeMod \in Nat /\ SizeMod >= 1
    /\ Pem!Npos = SizeMod - 1
  <1>1. /\ PemLength \in Nat /\ LineLength \in Nat \ {0}
        /\ SizeMod \in Nat /\ SizeMod > 4 * PemLength
    BY EncodingsAssumption DEF Pem!PemAssumption
  <1> QED
    BY <1>1 DEF Pem!Npos

(* The first of some positions *)
LEMMA FirstIs ==
    ASSUME NEW found \in SUBSET Nat
    PROVE  /\ found = {} => Pem!First(found) = Pem!Npos
           /\ found # {} => /\ Pem!First(found) \in found
                            /\ \A j \in found : Pem!First(found) <= j
  <1>1. ASSUME found # {}
        PROVE  Pem!First(found) \in found /\ \A j \in found : Pem!First(found) <= j
    <2>1. \E i \in found : \A j \in found : i <= j
      BY <1>1, LeastNumber
    <2>2. Pem!First(found) = CHOOSE i \in found : \A j \in found : i <= j
      BY <1>1 DEF Pem!First
    <2> QED
      BY <2>1, <2>2
  <1> QED
    BY <1>1 DEF Pem!First

(* std::string::find() of a token *)
LEMMA FindIs ==
    ASSUME NEW s \in Seq(Pem!Tokens), Len(s) <= Pem!Npos, NEW c, NEW from \in Nat
    PROVE  \/ /\ Pem!Find(s, c, from) = Pem!Npos
              /\ \A i \in from + 1 .. Len(s) : s[i] # c
           \/ /\ Pem!Find(s, c, from) # Pem!Npos
              /\ Pem!Find(s, c, from) \in from .. Len(s) - 1
              /\ s[Pem!Find(s, c, from) + 1] = c
              /\ \A i \in from + 1 .. Pem!Find(s, c, from) : s[i] # c
  <1>0. Len(s) \in Nat /\ Pem!Npos \in Int
    BY LenProperties, NposIsBeyond
  <1> DEFINE found == {i \in 0 .. Len(s) - 1 : i >= from /\ s[i + 1] = c}
             f == Pem!Find(s, c, from)
  <1>1. f = Pem!First(found)
    BY DEF Pem!Find
  <1>2. found \in SUBSET Nat
    BY <1>0
  <1>3. CASE found = {}
    <2>1. f = Pem!Npos
      <3> HIDE DEF found
      <3> QED
        BY <1>1, <1>2, <1>3, FirstIs
    <2>2. ASSUME NEW i \in from + 1 .. Len(s) PROVE s[i] # c
      <3>1. i - 1 \in 0 .. Len(s) - 1 /\ i - 1 >= from /\ (i - 1) + 1 = i
        BY <1>0
      <3>2. i - 1 \notin found
        BY <1>3
      <3> QED
        BY <3>1, <3>2
    <2> QED
      BY <2>1, <2>2
  <1>4. CASE found # {}
    <2>1. f \in found /\ \A j \in found : f <= j
      <3> HIDE DEF found
      <3> QED
        BY <1>1, <1>2, <1>4, FirstIs
    <2>2. f \in 0 .. Len(s) - 1 /\ f >= from /\ s[f + 1] = c
      BY <2>1
    <2>3. f # Pem!Npos /\ f \in from .. Len(s) - 1
      BY <1>0, <2>2
    <2>4. ASSUME NEW i \in from + 1 .. f, s[i] = c PROVE FALSE
      <3>1. i - 1 \in 0 .. Len(s) - 1 /\ i - 1 >= from /\ (i - 1) + 1 = i /\ ~(f <= i - 1)
        BY <1>0, <2>2
      <3>2. i - 1 \in found
        BY <2>4, <3>1
      <3> HIDE DEF found
      <3> QED
        BY <2>1, <3>1, <3>2
    <2> QED
      BY <2>2, <2>3, <2>4
  <1> QED
    BY <1>3, <1>4

(* std::string::find_first_not_of() of white space *)
LEMMA FindNoSpaceIs ==
    ASSUME NEW s \in Seq(Pem!Tokens), Len(s) <= Pem!Npos, NEW from \in Nat
    PROVE  \/ /\ Pem!FindNoSpace(s, from) = Pem!Npos
              /\ \A i \in from + 1 .. Len(s) : s[i] = "n"
           \/ /\ Pem!FindNoSpace(s, from) # Pem!Npos
              /\ Pem!FindNoSpace(s, from) \in from .. Len(s) - 1
              /\ s[Pem!FindNoSpace(s, from) + 1] # "n"
              /\ \A i \in from + 1 .. Pem!FindNoSpace(s, from) : s[i] = "n"
  <1>0. Len(s) \in Nat /\ Pem!Npos \in Int
    BY LenProperties, NposIsBeyond
  <1> DEFINE found == {i \in 0 .. Len(s) - 1 : i >= from /\ s[i + 1] # "n"}
             f == Pem!FindNoSpace(s, from)
  <1>1. f = Pem!First(found)
    BY DEF Pem!FindNoSpace
  <1>2. found \in SUBSET Nat
    BY <1>0
  <1>3. CASE found = {}
    <2>1. f = Pem!Npos
      <3> HIDE DEF found
      <3> QED
        BY <1>1, <1>2, <1>3, FirstIs
    <2>2. ASSUME NEW i \in from + 1 .. Len(s) PROVE s[i] = "n"
      <3>1. i - 1 \in 0 .. Len(s) - 1 /\ i - 1 >= from /\ (i - 1) + 1 = i
        BY <1>0
      <3>2. i - 1 \notin found
        BY <1>3
      <3> QED
        BY <3>1, <3>2
    <2> QED
      BY <2>1, <2>2
  <1>4. CASE found # {}
    <2>1. f \in found /\ \A j \in found : f <= j
      <3> HIDE DEF found
      <3> QED
        BY <1>1, <1>2, <1>4, FirstIs
    <2>2. f \in 0 .. Len(s) - 1 /\ f >= from /\ s[f + 1] # "n"
      BY <2>1
    <2>3. f # Pem!Npos /\ f \in from .. Len(s) - 1
      BY <1>0, <2>2
    <2>4. ASSUME NEW i \in from + 1 .. f, s[i] # "n" PROVE FALSE
      <3>1. i - 1 \in 0 .. Len(s) - 1 /\ i - 1 >= from /\ (i - 1) + 1 = i /\ ~(f <= i - 1)
        BY <1>0, <2>2
      <3>2. i - 1 \in found
        BY <2>4, <3>1
      <3> HIDE DEF found
      <3> QED
        BY <2>1, <3>1, <3>2
    <2> QED
      BY <2>2, <2>3, <2>4
  <1> QED
    BY <1>3, <1>4

(* find_last_not_of() of white space, and the erase() behind it *)
LEMMA TrimRightIs ==
    ASSUME NEW s \in Seq(Pem!Tokens)
    PROVE  \E n \in 0 .. Len(s) :
              /\ Pem!TrimRight(s) = SubSeq(s, 1, n)
              /\ \A i \in n + 1 .. Len(s) : s[i] = "n"
  <1>0. Len(s) \in Nat
    BY LenProperties
  <1> DEFINE LastKept(n) == /\ n > 0 => s[n] # "n"
                            /\ \A i \in n + 1 .. Len(s) : s[i] = "n"
             Blank == {n \in Nat : n <= Len(s) /\ \A i \in n + 1 .. Len(s) : s[i] = "n"}
  <1>1. Len(s) \in Blank
    BY <1>0
  <1>2. PICK n \in Blank : \A k \in Blank : n <= k
    BY <1>1, LeastNumber
  <1>3. n \in 0 .. Len(s) /\ \A i \in n + 1 .. Len(s) : s[i] = "n"
    BY <1>0, <1>2
  <1>4. ASSUME n > 0, s[n] = "n" PROVE FALSE
    <2>1. n - 1 \in Nat /\ n - 1 <= Len(s) /\ ~(n <= n - 1)
      BY <1>0, <1>3, <1>4
    <2>2. \A i \in (n - 1) + 1 .. Len(s) : i = n \/ i \in n + 1 .. Len(s)
      BY <1>0, <1>3
    <2>3. \A i \in (n - 1) + 1 .. Len(s) : s[i] = "n"
      BY <1>3, <1>4, <2>2
    <2>4. n - 1 \in Blank
      BY <2>1, <2>3
    <2> HIDE DEF Blank
    <2> QED
      BY <1>2, <2>1, <2>4
  <1>5. n \in 0 .. Len(s) /\ LastKept(n)
    BY <1>3, <1>4
  <1> DEFINE m == CHOOSE k \in 0 .. Len(s) : LastKept(k)
  <1>6. m \in 0 .. Len(s) /\ LastKept(m)
    <2> HIDE DEF LastKept
    <2> QED
      BY <1>5
  <1>7. Pem!TrimRight(s) = SubSeq(s, 1, m)
    BY DEF Pem!TrimRight
  <1> HIDE DEF m
  <1> QED
    BY <1>6, <1>7

(* An element of the list that splitPEMChain() makes of the body m *)
Element(m) == <<"B", "n">> \o m \o <<"n", "E">>

(* Every kind of token is one. *)
LEMMA TokensAre ==
    "B" \in Pem!Tokens /\ "E" \in Pem!Tokens /\ "n" \in Pem!Tokens /\ "x" \in Pem!Tokens
BY DEF Pem!Tokens

(* Two tokens in a row *)
LEMMA PairIs ==
    ASSUME NEW c \in Pem!Tokens, NEW d \in Pem!Tokens
    PROVE  <<c>> \o <<d>> = <<c, d>>
  <1> DEFINE a == <<c>>
             b == <<d>>
             v == <<c, d>>
  <1>1. /\ a \in Seq(Pem!Tokens) /\ Len(a) = 1 /\ a[1] = c
        /\ b \in Seq(Pem!Tokens) /\ Len(b) = 1 /\ b[1] = d
        /\ v \in Seq(Pem!Tokens) /\ Len(v) = 2 /\ v[1] = c /\ v[2] = d
    OBVIOUS
  <1> HIDE DEF a, b, v
  <1>2. /\ a \o b \in Seq(Pem!Tokens) /\ Len(a \o b) = Len(a) + Len(b)
        /\ \A i \in 1 .. Len(a) + Len(b) :
              (a \o b)[i] = IF i <= Len(a) THEN a[i] ELSE b[i - Len(a)]
    BY <1>1, ConcatProperties
  <1>3. Len(a \o b) = 2 /\ (a \o b)[1] = c /\ (a \o b)[2] = d
    BY <1>1, <1>2
  <1>4. \A i \in 1 .. Len(a \o b) : (a \o b)[i] = v[i]
    BY <1>1, <1>3
  <1>5. a \o b = v
    BY <1>1, <1>2, <1>3, <1>4, SeqEqual
  <1> QED
    BY <1>5 DEF a, b, v

(* The tokens of an element *)
LEMMA ElementIs ==
    ASSUME NEW m \in Seq(Pem!Tokens)
    PROVE  /\ Element(m) \in Seq(Pem!Tokens)
           /\ Len(m) \in Nat /\ Len(Element(m)) = Len(m) + 4
           /\ Element(m)[1] = "B" /\ Element(m)[2] = "n"
           /\ Element(m)[Len(m) + 3] = "n" /\ Element(m)[Len(m) + 4] = "E"
           /\ \A i \in 1 .. Len(m) : Element(m)[i + 2] = m[i]
  <1>1. <<"B", "n">> \in Seq(Pem!Tokens) /\ <<"n", "E">> \in Seq(Pem!Tokens)
    BY TokensAre
  <1> DEFINE h == <<"B", "n">>
             t == <<"n", "E">>
  <1>2. /\ Len(h) = 2 /\ h[1] = "B" /\ h[2] = "n"
        /\ Len(t) = 2 /\ t[1] = "n" /\ t[2] = "E"
    OBVIOUS
  <1>3. h \in Seq(Pem!Tokens) /\ t \in Seq(Pem!Tokens)
    BY <1>1
  <1>4. Element(m) = (h \o m) \o t
    BY DEF Element
  <1> HIDE DEF h, t
  <1>5. /\ h \o m \in Seq(Pem!Tokens) /\ Len(h \o m) = 2 + Len(m) /\ Len(m) \in Nat
        /\ \A i \in 1 .. 2 + Len(m) : (h \o m)[i] = IF i <= 2 THEN h[i] ELSE m[i - 2]
    <2>1. /\ h \o m \in Seq(Pem!Tokens) /\ Len(h \o m) = Len(h) + Len(m)
          /\ \A i \in 1 .. Len(h) + Len(m) :
                (h \o m)[i] = IF i <= Len(h) THEN h[i] ELSE m[i - Len(h)]
      BY <1>3, ConcatProperties
    <2>2. Len(m) \in Nat
      BY LenProperties
    <2> QED
      BY <1>2, <2>1, <2>2, Zenon
  <1> DEFINE u == h \o m
  <1> HIDE DEF u
  <1>6. /\ u \in Seq(Pem!Tokens) /\ Len(u) = 2 + Len(m)
        /\ \A i \in 1 .. 2 + Len(m) : u[i] = IF i <= 2 THEN h[i] ELSE m[i - 2]
    BY <1>5 DEF u
  <1>7. /\ u \o t \in Seq(Pem!Tokens) /\ Len(u \o t) = (2 + Len(m)) + 2
        /\ \A i \in 1 .. (2 + Len(m)) + 2 :
              (u \o t)[i] = IF i <= 2 + Len(m) THEN u[i] ELSE t[i - (2 + Len(m))]
    <2>1. /\ u \o t \in Seq(Pem!Tokens) /\ Len(u \o t) = Len(u) + Len(t)
          /\ \A i \in 1 .. Len(u) + Len(t) :
              (u \o t)[i] = IF i <= Len(u) THEN u[i] ELSE t[i - Len(u)]
      BY <1>3, <1>6, ConcatProperties
    <2> QED
      BY <1>2, <1>6, <2>1
  <1>8. Element(m) = u \o t
    BY <1>4 DEF u
  <1>9. u[1] = "B" /\ u[2] = "n" /\ \A i \in 1 .. Len(m) : u[i + 2] = m[i]
    BY <1>2, <1>5, <1>6
  <1>10. (u \o t)[1] = u[1] /\ (u \o t)[2] = u[2]
         /\ \A i \in 1 .. Len(m) : (u \o t)[i + 2] = u[i + 2]
    BY <1>5, <1>7, SMTT(30)
  <1>11. (u \o t)[Len(m) + 3] = t[1] /\ (u \o t)[Len(m) + 4] = t[2]
    BY <1>5, <1>7
  <1>12. (2 + Len(m)) + 2 = Len(m) + 4
    BY <1>5
  <1> QED
    BY <1>2, <1>5, <1>7, <1>8, <1>9, <1>10, <1>11, <1>12

(* The body of an element, and what the element leaves without white space *)
LEMMA ElementLeaves ==
    ASSUME NEW m \in Seq(Pem!Tokens)
    PROVE  /\ Pem!NoSpace(m) \in Seq(Pem!Tokens)
           /\ Pem!NoSpace(Element(m)) = <<"B">> \o Pem!NoSpace(m) \o <<"E">>
           /\ Pem!NoSpace(SubSeq(Element(m), 2, Len(Element(m)) - 1)) = Pem!NoSpace(m)
           /\ Pem!NoSpace(SubSeq(Element(m), 2, Len(Element(m)) - 2)) = Pem!NoSpace(m)
  <1> DEFINE e == Element(m)
             k == Len(m)
  <1>1. /\ e \in Seq(Pem!Tokens) /\ k \in Nat /\ Len(e) = k + 4
        /\ e[1] = "B" /\ e[2] = "n" /\ e[k + 3] = "n" /\ e[k + 4] = "E"
        /\ \A i \in 1 .. k : e[i + 2] = m[i]
    BY ElementIs
  <1> HIDE DEF e
  <1>2. SubSeq(e, 3, k + 2) = m
    <2>1. 2 \in 0 .. Len(e) /\ k + 2 \in 2 .. Len(e) /\ (k + 2) - 2 = k /\ 2 + 1 = 3
      BY <1>1
    <2>2. /\ SubSeq(e, 2 + 1, k + 2) \in Seq(Pem!Tokens)
          /\ Len(SubSeq(e, 2 + 1, k + 2)) = k
          /\ \A i \in 1 .. k : SubSeq(e, 2 + 1, k + 2)[i] = e[2 + i]
      BY <1>1, <2>1, SliceIs
    <2>3. \A i \in 1 .. k : SubSeq(e, 3, k + 2)[i] = m[i]
      BY <1>1, <2>1, <2>2
    <2> QED
      BY <1>1, <2>1, <2>2, <2>3, SeqEqual
  <1>3. Piece(e, 2, k + 2) = Pem!NoSpace(m) /\ Pem!NoSpace(m) \in Seq(Pem!Tokens)
    <2>1. 2 + 1 = 3
      OBVIOUS
    <2> QED
      BY <1>2, <2>1, SpacelessIs DEF Piece
  <1>4. /\ Piece(e, 0, 1) = <<"B">> /\ Piece(e, 1, 2) = <<>>
        /\ Piece(e, k + 2, k + 3) = <<>> /\ Piece(e, k + 3, k + 4) = <<"E">>
    <2>1. /\ 0 \in 0 .. Len(e) - 1 /\ 1 \in 0 .. Len(e) - 1
          /\ k + 2 \in 0 .. Len(e) - 1 /\ k + 3 \in 0 .. Len(e) - 1
          /\ 0 + 1 = 1 /\ 1 + 1 = 2 /\ (k + 2) + 1 = k + 3 /\ (k + 3) + 1 = k + 4
      BY <1>1
    <2>2. \A a \in 0 .. Len(e) - 1 :
            Piece(e, a, a + 1) = IF e[a + 1] = "n" THEN <<>> ELSE <<e[a + 1]>>
      BY <1>1, PieceOne
    <2> QED
      BY <1>1, <2>1, <2>2
  <1>5. \A a, b, c \in 0 .. k + 4 : a <= b /\ b <= c =>
            Piece(e, a, c) = Piece(e, a, b) \o Piece(e, b, c)
    <2> SUFFICES ASSUME NEW a \in 0 .. k + 4, NEW b \in 0 .. k + 4, NEW c \in 0 .. k + 4,
                        a <= b, b <= c
                 PROVE  Piece(e, a, c) = Piece(e, a, b) \o Piece(e, b, c)
      OBVIOUS
    <2>1. a \in 0 .. Len(e) /\ b \in a .. Len(e) /\ c \in b .. Len(e)
      BY <1>1
    <2> QED
      BY <1>1, <2>1, PieceSplit
  <1> DEFINE P == Pem!NoSpace(m)
  <1> HIDE DEF P
  <1>p. P \in Seq(Pem!Tokens) /\ Piece(e, 2, k + 2) = P
        /\ P \o <<>> = P /\ <<>> \o P = P
        /\ <<"B">> \in Seq(Pem!Tokens)
        /\ <<"E">> \in Seq(Pem!Tokens)
    <2>1. P \in Seq(Pem!Tokens) /\ Piece(e, 2, k + 2) = P
      BY <1>3 DEF P
    <2> QED
      BY <2>1, ConcatEmptySeq, TokensAre
  <1>6. /\ 0 \in 0 .. k + 4 /\ 1 \in 0 .. k + 4 /\ 2 \in 0 .. k + 4 /\ k + 2 \in 0 .. k + 4
        /\ k + 3 \in 0 .. k + 4 /\ k + 4 \in 0 .. k + 4
        /\ 0 <= 1 /\ 1 <= 2 /\ 2 <= k + 2 /\ k + 2 <= k + 3 /\ k + 3 <= k + 4
        /\ 1 <= k + 2 /\ 1 <= k + 3 /\ 1 <= k + 4
    BY <1>1
  <1>s. /\ Piece(e, 1, k + 2) = Piece(e, 1, 2) \o Piece(e, 2, k + 2)
        /\ Piece(e, 1, k + 3) = Piece(e, 1, k + 2) \o Piece(e, k + 2, k + 3)
        /\ Piece(e, 1, k + 4) = Piece(e, 1, k + 3) \o Piece(e, k + 3, k + 4)
        /\ Piece(e, 0, k + 4) = Piece(e, 0, 1) \o Piece(e, 1, k + 4)
    <2>1. Piece(e, 1, k + 2) = Piece(e, 1, 2) \o Piece(e, 2, k + 2)
      BY <1>5, <1>6, ZenonT(30)
    <2>2. Piece(e, 1, k + 3) = Piece(e, 1, k + 2) \o Piece(e, k + 2, k + 3)
      BY <1>5, <1>6, ZenonT(30)
    <2>3. Piece(e, 1, k + 4) = Piece(e, 1, k + 3) \o Piece(e, k + 3, k + 4)
      BY <1>5, <1>6, ZenonT(30)
    <2>4. Piece(e, 0, k + 4) = Piece(e, 0, 1) \o Piece(e, 1, k + 4)
      BY <1>5, <1>6, ZenonT(30)
    <2> QED
      BY <2>1, <2>2, <2>3, <2>4
  <1>7. Piece(e, 1, k + 2) = P
    BY <1>4, <1>s, <1>p, Zenon
  <1>8. Piece(e, 1, k + 3) = P
    BY <1>4, <1>s, <1>7, <1>p, Zenon
  <1>9. Piece(e, 1, k + 4) = P \o <<"E">>
    BY <1>4, <1>s, <1>8, Zenon
  <1>10. Piece(e, 0, k + 4) = <<"B">> \o (P \o <<"E">>)
    BY <1>4, <1>s, <1>9, Zenon
  <1>11. <<"B">> \o (P \o <<"E">>) = (<<"B">> \o P) \o <<"E">>
    BY <1>p, ConcatAssociative
  <1>12. Piece(e, 0, k + 4) = Pem!NoSpace(e)
    <2>1. SubSeq(e, 0 + 1, k + 4) = e
      BY <1>1, SubSeqFull
    <2> QED
      BY <2>1 DEF Piece
  <1>13. /\ Pem!NoSpace(SubSeq(e, 2, Len(e) - 1)) = P
         /\ Pem!NoSpace(SubSeq(e, 2, Len(e) - 2)) = P
    <2>1. Len(e) - 1 = k + 3 /\ Len(e) - 2 = k + 2 /\ 1 + 1 = 2
      BY <1>1
    <2> QED
      BY <1>7, <1>8, <2>1 DEF Piece
  <1> QED
    BY <1>3, <1>10, <1>11, <1>12, <1>13 DEF e, P

(* The part of a content in front of the first marker *)
LEMMA UpToMarkerIs ==
    ASSUME NEW s \in Seq(Pem!Tokens)
    PROVE  \E n \in 0 .. Len(s) :
              /\ Pem!UpToMarker(s) = SubSeq(s, 1, n)
              /\ \A i \in 1 .. n : s[i] = "x"
              /\ n < Len(s) => s[n + 1] # "x"
  <1>0. Len(s) \in Nat
    BY LenProperties
  <1> DEFINE IsEnd(n) == (\A i \in 1 .. n : s[i] = "x") /\ (n < Len(s) => s[n + 1] # "x")
             Stops == {n \in Nat : n <= Len(s) /\ (n < Len(s) => s[n + 1] # "x")}
  <1>1. Len(s) \in Stops
    BY <1>0
  <1>2. PICK n \in Stops : \A k \in Stops : n <= k
    BY <1>1, LeastNumber
  <1>3. n \in 0 .. Len(s) /\ (n < Len(s) => s[n + 1] # "x")
    BY <1>0, <1>2
  <1>4. ASSUME NEW i \in 1 .. n, s[i] # "x" PROVE FALSE
    <2>1. i - 1 \in Nat /\ i - 1 <= Len(s) /\ ~(n <= i - 1) /\ (i - 1) + 1 = i
      BY <1>0, <1>3
    <2>2. i - 1 \in Stops
      BY <1>4, <2>1
    <2> HIDE DEF Stops
    <2> QED
      BY <1>2, <2>1, <2>2
  <1>5. n \in 0 .. Len(s) /\ IsEnd(n)
    BY <1>3, <1>4
  <1> DEFINE m == CHOOSE k \in 0 .. Len(s) : IsEnd(k)
  <1>6. m \in 0 .. Len(s) /\ IsEnd(m)
    <2> HIDE DEF IsEnd
    <2> QED
      BY <1>5
  <1>7. Pem!UpToMarker(s) = SubSeq(s, 1, m)
    BY DEF Pem!UpToMarker
  <1> HIDE DEF m
  <1> QED
    BY <1>6, <1>7

(* OpenSSL reads from an element without another end marker the start of   *)
(* the body it was made of, up to a marker, or refuses it.                 *)
LEMMA ReadPemIs ==
    ASSUME NEW m \in Seq(Pem!Tokens), ~Occurs("E", m)
    PROVE  \A c \in Pem!ReadPem(Element(m)) :
              c = Pem!UpToMarker(Pem!NoSpace(m)) /\ c # <<>>
  <1> DEFINE e == Element(m)
             k == Len(m)
             begins == {i \in 1 .. Len(e) : Pem!BeginsPem(e, i)}
             begin  == CHOOSE i \in begins : \A j \in begins : i <= j
             ends   == {i \in begin + 1 .. Len(e) : e[i] = "E" /\ Pem!StartsLine(e, i)}
             end    == CHOOSE i \in ends : \A j \in ends : i <= j
             content == Pem!UpToMarker(Pem!NoSpace(SubSeq(e, begin + 1, end - 1)))
  <1>1. /\ e \in Seq(Pem!Tokens) /\ k \in Nat /\ Len(e) = k + 4
        /\ e[1] = "B" /\ e[2] = "n" /\ e[k + 3] = "n" /\ e[k + 4] = "E"
        /\ \A i \in 1 .. k : e[i + 2] = m[i]
    BY ElementIs
  <1>0. Pem!ReadPem(e) = IF \/ begins = {} \/ ends = {}
                            \/ ~Pem!EndsLine(e, begin) \/ ~Pem!EndsLine(e, end)
                            \/ content = <<>>
                         THEN {} ELSE {content}
    BY DEF Pem!ReadPem
  <1>2. Pem!NoSpace(SubSeq(e, 2, Len(e) - 1)) = Pem!NoSpace(m)
    BY ElementLeaves
  <1> HIDE DEF e
  <1>3. 1 \in begins /\ begins \subseteq 1 .. Len(e)
    <2>1. 1 \in 1 .. Len(e) /\ 1 + 1 = 2 /\ \A i \in 1 .. 1 - 1 : FALSE
      BY <1>1
    <2>2. Pem!StartsLine(e, 1) /\ Pem!EndsLine(e, 1)
      BY <1>1, <2>1 DEF Pem!StartsLine, Pem!EndsLine
    <2>3. Pem!BeginsPem(e, 1)
      BY <1>1, <2>1, <2>2 DEF Pem!BeginsPem
    <2> QED
      BY <2>1, <2>3
  <1>4. begin = 1
    <2>1. 1 \in begins /\ \A j \in begins : 1 <= j
      BY <1>1, <1>3
    <2>2. begin \in begins /\ \A j \in begins : begin <= j
      <3> HIDE DEF begins
      <3> QED
        BY <2>1
    <2>3. begin \in Int
      BY <1>1, <1>3, <2>2
    <2> HIDE DEF begins, begin
    <2> QED
      BY <2>1, <2>2, <2>3
  <1>5. \A i \in 2 .. Len(e) : e[i] = "E" => i = Len(e)
    <2> SUFFICES ASSUME NEW i \in 2 .. Len(e), e[i] = "E", i # Len(e) PROVE FALSE
      OBVIOUS
    <2>1. i # 2 /\ i # k + 3
      BY <1>1
    <2>2. i - 2 \in 1 .. k /\ (i - 2) + 2 = i
      BY <1>1, <2>1
    <2>3. m[i - 2] = "E"
      BY <1>1, <2>2
    <2> QED
      BY <2>2, <2>3 DEF Occurs
  <1>6. ends = {Len(e)}
    <2> HIDE DEF begin
    <2>1. ends \subseteq {Len(e)}
      BY <1>4, <1>5
    <2>2. Len(e) \in begin + 1 .. Len(e) /\ e[Len(e)] = "E" /\ e[Len(e) - 1] = "n"
      <3>1. Len(e) - 1 = k + 3 /\ 1 + 1 = 2 /\ Len(e) \in 2 .. Len(e)
        BY <1>1
      <3> QED
        BY <1>1, <1>4, <3>1
    <2>3. Len(e) \in ends
      BY <2>2 DEF Pem!StartsLine
    <2> QED
      BY <2>1, <2>3
  <1>7. end = Len(e)
    <2> HIDE DEF ends
    <2>1. Len(e) \in ends /\ \A j \in ends : Len(e) <= j
      BY <1>1, <1>6
    <2>2. end \in ends
      BY <2>1
    <2> QED
      BY <1>6, <2>2
  <1>8. content = Pem!UpToMarker(Pem!NoSpace(m))
    <2>1. 1 + 1 = 2
      OBVIOUS
    <2> HIDE DEF begin, end
    <2> QED
      BY <1>2, <1>4, <1>7, <2>1
  <1> HIDE DEF begins, begin, ends, end, content
  <1> QED
    BY <1>0, <1>8 DEF e

(* What is read up to a marker is the first content of the element, and    *)
(* the whole body when there is no begin marker in it.                     *)
LEMMA FirstContentIs ==
    ASSUME NEW m \in Seq(Pem!Tokens), ~Occurs("E", m), NEW c,
           c = Pem!UpToMarker(Pem!NoSpace(m)), c # <<>>
    PROVE  /\ c \in Seq(Pem!Tokens)
           /\ Pem!IsFirstContent(c, Pem!NoSpace(Element(m)))
           /\ ~Occurs("B", m) => c = Pem!NoSpace(m)
  <1> DEFINE s == Pem!NoSpace(m)
             t == Pem!NoSpace(Element(m))
             b == <<"B">>
             e == <<"E">>
  <1>1. s \in Seq(Pem!Tokens) /\ ~Occurs("n", s) /\ ~Occurs("E", s)
        /\ (Occurs("B", s) <=> Occurs("B", m)) /\ t = (b \o s) \o e
    BY SpacelessIs, NoSpaceElements, TokensAre, ElementLeaves
  <1>2. /\ b \in Seq(Pem!Tokens) /\ Len(b) = 1 /\ b[1] = "B"
        /\ e \in Seq(Pem!Tokens) /\ Len(e) = 1 /\ e[1] = "E"
    BY TokensAre
  <1>3. c = Pem!UpToMarker(s)
    OBVIOUS
  <1> HIDE DEF s, t, b, e
  <1>4. PICK n \in 0 .. Len(s) : /\ Pem!UpToMarker(s) = SubSeq(s, 1, n)
                                 /\ \A i \in 1 .. n : s[i] = "x"
                                 /\ n < Len(s) => s[n + 1] # "x"
    BY <1>1, UpToMarkerIs
  <1>5. /\ Len(s) \in Nat /\ n \in Nat /\ n <= Len(s)
        /\ \A i \in 1 .. Len(s) : s[i] \in Pem!Tokens
    <2>1. Len(s) \in Nat /\ \A i \in 1 .. Len(s) : s[i] \in Pem!Tokens
      BY <1>1, LenProperties, ElementOfSeq
    <2> QED
      BY <2>1
  <1>6. c \in Seq(Pem!Tokens) /\ Len(c) = n /\ \A i \in 1 .. n : c[i] = s[i]
    <2>1. 0 \in 0 .. Len(s) /\ n \in 0 .. Len(s) /\ 0 + 1 = 1 /\ n - 0 = n
          /\ \A i \in 1 .. n : 0 + i = i
      BY <1>5
    <2>2. /\ SubSeq(s, 0 + 1, n) \in Seq(Pem!Tokens)
          /\ Len(SubSeq(s, 0 + 1, n)) = n - 0
          /\ \A i \in 1 .. n - 0 : SubSeq(s, 0 + 1, n)[i] = s[0 + i]
      BY <1>1, <2>1, SliceIs
    <2> QED
      BY <1>3, <1>4, <2>1, <2>2
  <1>7. n >= 1
    BY <1>6, FirstOccurs
  <1>8. ASSUME n < Len(s) PROVE n + 1 \in 1 .. Len(s) /\ s[n + 1] = "B"
    <2>1. n + 1 \in 1 .. Len(s)
      BY <1>5, <1>8
    <2>2. Occurs(s[n + 1], s) /\ s[n + 1] \in Pem!Tokens
      BY <1>5, <2>1 DEF Occurs
    <2> QED
      BY <1>1, <1>4, <1>8, <2>1, <2>2 DEF Pem!Tokens
  <1>9. /\ t \in Seq(Pem!Tokens) /\ Len(t) = Len(s) + 2
        /\ \A i \in 1 .. Len(s) : t[i + 1] = s[i]
        /\ t[Len(s) + 2] = "E"
    <2> DEFINE u == b \o s
    <2>1. /\ u \in Seq(Pem!Tokens) /\ Len(u) = Len(b) + Len(s)
          /\ \A i \in 1 .. Len(b) + Len(s) : u[i] = IF i <= Len(b) THEN b[i] ELSE s[i - Len(b)]
      BY <1>1, <1>2, ConcatProperties
    <2>2. t = u \o e
      BY <1>1
    <2> HIDE DEF u
    <2>3. /\ t \in Seq(Pem!Tokens) /\ Len(t) = Len(u) + Len(e)
          /\ \A i \in 1 .. Len(u) + Len(e) : t[i] = IF i <= Len(u) THEN u[i] ELSE e[i - Len(u)]
      <3>1. /\ u \o e \in Seq(Pem!Tokens) /\ Len(u \o e) = Len(u) + Len(e)
            /\ \A i \in 1 .. Len(u) + Len(e) :
                  (u \o e)[i] = IF i <= Len(u) THEN u[i] ELSE e[i - Len(u)]
        <4>1. u \in Seq(Pem!Tokens) /\ e \in Seq(Pem!Tokens)
          BY <1>2, <2>1
        <4> QED
          BY <4>1, ConcatProperties
      <3> QED
        BY <2>2, <3>1, Zenon
    <2>4. Len(u) = Len(s) + 1 /\ Len(t) = Len(s) + 2
      BY <1>2, <1>5, <2>1, <2>3
    <2>5. t[Len(s) + 2] = "E"
      <3>1. Len(s) + 2 \in 1 .. Len(u) + Len(e) /\ ~(Len(s) + 2 <= Len(u))
            /\ (Len(s) + 2) - Len(u) = 1
        BY <1>2, <1>5, <2>4
      <3> QED
        BY <1>2, <2>3, <3>1
    <2>6. ASSUME NEW i \in 1 .. Len(s) PROVE t[i + 1] = s[i]
      <3>1. /\ i + 1 \in 1 .. Len(u) + Len(e) /\ i + 1 <= Len(u)
            /\ i + 1 \in 1 .. Len(b) + Len(s) /\ ~(i + 1 <= Len(b)) /\ (i + 1) - Len(b) = i
        BY <1>2, <1>5, <2>4
      <3> QED
        BY <2>1, <2>3, <3>1
    <2> QED
      BY <2>3, <2>4, <2>5, <2>6
  <1>10. SubSeq(t, 2, n + 1) = c
    <2>1. /\ 1 \in 0 .. Len(t) /\ n + 1 \in 1 .. Len(t) /\ 1 + 1 = 2 /\ (n + 1) - 1 = n
          /\ \A i \in 1 .. n : 1 + i = i + 1 /\ i \in 1 .. Len(s)
      BY <1>5, <1>9
    <2>2. /\ SubSeq(t, 1 + 1, n + 1) \in Seq(Pem!Tokens)
          /\ Len(SubSeq(t, 1 + 1, n + 1)) = (n + 1) - 1
          /\ \A i \in 1 .. (n + 1) - 1 : SubSeq(t, 1 + 1, n + 1)[i] = t[1 + i]
      BY <1>9, <2>1, SliceIs
    <2> DEFINE d == SubSeq(t, 2, n + 1)
    <2>3. d \in Seq(Pem!Tokens) /\ Len(d) = n /\ \A i \in 1 .. n : d[i] = t[1 + i]
      BY <2>1, <2>2
    <2> HIDE DEF d
    <2>4. ASSUME NEW i \in 1 .. n PROVE d[i] = c[i]
      <3>1. d[i] = t[i + 1] /\ i \in 1 .. Len(s)
        BY <2>1, <2>3
      <3> QED
        BY <1>6, <1>9, <3>1
    <2>5. d = c
      BY <1>6, <2>3, <2>4, SeqEqual
    <2> QED
      BY <2>5 DEF d
  <1>11. t[n + 2] \in {"B", "E"}
    <2>1. CASE n < Len(s)
      <3>1. t[(n + 1) + 1] = "B" /\ (n + 1) + 1 = n + 2
        BY <1>5, <1>8, <1>9, <2>1
      <3> QED
        BY <3>1
    <2>2. CASE n = Len(s)
      BY <1>9, <2>2
    <2> QED
      BY <1>5, <2>1, <2>2
  <1>12. Pem!ToSet(c) = {"x"}
    <2>1. DOMAIN c = 1 .. n /\ 1 \in 1 .. n /\ \A i \in 1 .. n : c[i] = "x"
      BY <1>4, <1>5, <1>6, <1>7, LenProperties
    <2>2. Pem!ToSet(c) = {c[i] : i \in DOMAIN c}
      BY DEF Pem!ToSet
    <2> QED
      BY <2>1, <2>2
  <1>13. Pem!IsFirstContent(c, t)
    BY <1>6, <1>10, <1>11, <1>12 DEF Pem!IsFirstContent
  <1>14. ASSUME ~Occurs("B", m) PROVE c = s
    <2>1. n = Len(s)
      BY <1>1, <1>5, <1>8, <1>14 DEF Occurs
    <2> QED
      BY <1>1, <1>3, <1>4, <2>1, SubSeqFull
  <1> QED
    BY <1>6, <1>13, <1>14 DEF s, t

(* The lines of a content without white space hold that content. *)
LEMMA SplitLinesIs ==
    ASSUME NEW b \in Seq(Pem!Tokens), ~Occurs("n", b)
    PROVE  Pem!SplitLines(b) \in Seq(Pem!Tokens) /\ Pem!NoSpace(Pem!SplitLines(b)) = b
  <1> DEFINE q == [i \in 1 .. Len(b) |->
                      IF i % LineLength = 0 /\ i < Len(b) THEN <<b[i], "n">> ELSE <<b[i]>>]
  <1>1. Len(b) \in Nat /\ \A i \in 1 .. Len(b) : b[i] \in Pem!Tokens /\ b[i] # "n"
    BY LenProperties, ElementOfSeq DEF Occurs
  <1>2. \A c \in Pem!Tokens : <<c, "n">> \in Seq(Pem!Tokens) /\ <<c>> \in Seq(Pem!Tokens)
    BY TokensAre
  <1>3. q \in [1 .. Len(b) -> Seq(Pem!Tokens)]
    BY <1>1, <1>2
  <1>4. q \in Seq(Seq(Pem!Tokens)) /\ Len(q) = Len(b)
    BY <1>1, <1>3
  <1>5. \A c \in Pem!Tokens : c # "n" => Pem!NoSpace(<<c, "n">>) = <<c>>
    <2> SUFFICES ASSUME NEW c \in Pem!Tokens, c # "n" PROVE Pem!NoSpace(<<c, "n">>) = <<c>>
      OBVIOUS
    <2>1. <<c>> \in Seq(Pem!Tokens) /\ <<"n">> \in Seq(Pem!Tokens)
      BY TokensAre
    <2>2. <<c, "n">> = <<c>> \o <<"n">>
      BY PairIs, TokensAre
    <2>3. Pem!NoSpace(<<c>> \o <<"n">>) = Pem!NoSpace(<<c>>) \o Pem!NoSpace(<<"n">>)
      BY <2>1, NoSpaceConcat
    <2>4. Pem!NoSpace(<<c>>) = <<c>> /\ Pem!NoSpace(<<"n">>) = <<>>
      BY NoSpaceSmall, TokensAre
    <2>5. <<c>> \o <<>> = <<c>>
      BY <2>1, ConcatEmptySeq
    <2> QED
      BY <2>2, <2>3, <2>4, <2>5
  <1>6. ASSUME NEW i \in 1 .. Len(b) PROVE Pem!NoSpace(q[i]) = <<b[i]>>
    <2>1. q[i] = <<b[i], "n">> \/ q[i] = <<b[i]>>
      OBVIOUS
    <2> HIDE DEF q
    <2>2. Pem!NoSpace(<<b[i], "n">>) = <<b[i]>> /\ Pem!NoSpace(<<b[i]>>) = <<b[i]>>
      BY <1>1, <1>5, NoSpaceSmall
    <2> QED
      BY <2>1, <2>2
  <1>7. Pem!SplitLines(b) = Pem!FlattenSeq(q)
    BY DEF Pem!SplitLines
  <1> HIDE DEF q
  <1>8. Pem!FlattenSeq(q) \in Seq(Pem!Tokens)
    BY <1>4, FlattenConcat
  <1> QED
    BY <1>4, <1>6, <1>7, <1>8, NoSpaceOfList

(* reformatPEMCertificate() of an element without another end marker is    *)
(* the element with its body in lines: the character it drops before the   *)
(* end marker is the line feed that splitPEMChain() has put there.         *)
LEMMA ReformatIs ==
    ASSUME NEW m \in Seq(Pem!Tokens), ~Occurs("E", m), m # <<>>, Len(m) + 2 <= PemLength
    PROVE  Pem!ReformatPEMCertificate(Element(m)) = Element(Pem!SplitLines(Pem!NoSpace(m)))
  <1> DEFINE e == Element(m)
             k == Len(m)
  <1>1. /\ e \in Seq(Pem!Tokens) /\ k \in Nat /\ Len(e) = k + 4
        /\ e[1] = "B" /\ e[2] = "n" /\ e[k + 3] = "n" /\ e[k + 4] = "E"
        /\ \A i \in 1 .. k : e[i + 2] = m[i]
    BY ElementIs
  <1>2. k >= 1
    BY FirstOccurs
  <1>3. Pem!NoSpace(SubSeq(e, 2, Len(e) - 2)) = Pem!NoSpace(m) /\ Pem!NoSpace(m) \in Seq(Pem!Tokens)
    BY ElementLeaves
  <1> DEFINE N == Pem!Npos
             b == Pem!NoSpace(m)
             endBeginMarker == Pem!Plus(Pem!Find(e, "B", 0), 1)
             startEndMarker == Pem!Find(e, "E", endBeginMarker)
             base64 == Pem!NoSpace(Pem!Substr(e, endBeginMarker,
                                 Pem!Minus(Pem!Minus(startEndMarker, endBeginMarker), 1)))
  <1>0. Pem!ReformatPEMCertificate(e) =
            IF endBeginMarker = N \/ startEndMarker = N THEN e
            ELSE Pem!Substr(e, 0, endBeginMarker) \o <<"n">> \o Pem!SplitLines(base64)
                    \o <<"n">> \o Pem!Substr(e, startEndMarker, Len(e))
    BY DEF Pem!ReformatPEMCertificate
  <1> HIDE DEF e, k, N
  <1>4. /\ N \in Int /\ N = SizeMod - 1 /\ SizeMod \in Nat /\ N >= 12 /\ N >= k + 8
        /\ Len(e) <= N
    <2>1. /\ PemLength \in Nat /\ N \in Int /\ N >= 4 * PemLength /\ SizeMod \in Nat
          /\ N = SizeMod - 1 /\ k + 2 <= PemLength
      BY NposIsBeyond DEF N, k
    <2> QED
      BY <1>1, <1>2, <2>1
  <1>5. Pem!Find(e, "B", 0) = 0
    <2> DEFINE f == Pem!Find(e, "B", 0)
    <2>1. \/ \A i \in 0 + 1 .. Len(e) : e[i] # "B"
          \/ f \in 0 .. Len(e) - 1 /\ \A i \in 0 + 1 .. f : e[i] # "B"
      <3>1. 0 \in Nat /\ Len(e) <= Pem!Npos
        BY <1>4 DEF N
      <3> QED
        BY <1>1, <3>1, FindIs
    <2> HIDE DEF f
    <2>2. f = 0
      BY <1>1, <2>1
    <2> QED
      BY <2>2 DEF f
  <1>6. endBeginMarker = 1
    BY <1>4, <1>5 DEF Pem!Plus
  <1> HIDE DEF endBeginMarker
  <1>7. startEndMarker = k + 3 /\ startEndMarker # N
    <2> DEFINE f == Pem!Find(e, "E", 1)
    <2>1. \/ \A i \in 1 + 1 .. Len(e) : e[i] # "E"
          \/ f \in 1 .. Len(e) - 1 /\ e[f + 1] = "E"
      <3>1. 1 \in Nat /\ Len(e) <= Pem!Npos
        BY <1>4 DEF N
      <3> QED
        BY <1>1, <3>1, FindIs, SMTT(30)
    <2> HIDE DEF f
    <2>2. f \in 1 .. Len(e) - 1 /\ e[f + 1] = "E"
      <3>1. Len(e) \in 1 + 1 .. Len(e) /\ e[Len(e)] = "E"
        BY <1>1
      <3> QED
        BY <2>1, <3>1
    <2>3. f = k + 3
      <3> SUFFICES ASSUME f # k + 3 PROVE FALSE
        OBVIOUS
      <3>1. f + 1 # 2 /\ f + 1 # k + 3
        BY <1>1, <2>2
      <3>2. f - 1 \in 1 .. k /\ (f - 1) + 2 = f + 1
        BY <1>1, <2>2, <3>1
      <3>3. m[f - 1] = "E"
        BY <1>1, <2>2, <3>2
      <3> QED
        BY <3>2, <3>3 DEF Occurs, k
    <2>4. startEndMarker = f
      BY <1>6 DEF f
    <2> QED
      BY <1>1, <1>4, <2>3, <2>4
  <1> HIDE DEF startEndMarker
  <1>8. base64 = b
    <2>1. Pem!Minus(k + 3, 1) = k + 2
      <3>1. (k + 3) + SizeMod - 1 = (k + 2) + SizeMod /\ k + 2 \in Nat /\ k + 2 < SizeMod
        BY <1>1, <1>4
      <3> QED
        BY <1>4, <3>1, SMTT(30) DEF Pem!Minus
    <2>2. Pem!Minus(k + 2, 1) = k + 1
      <3>1. (k + 2) + SizeMod - 1 = (k + 1) + SizeMod /\ k + 1 \in Nat /\ k + 1 < SizeMod
        BY <1>1, <1>4
      <3> QED
        BY <1>4, <3>1, SMTT(30) DEF Pem!Minus
    <2>3. Pem!Substr(e, 1, k + 1) = SubSeq(e, 2, Len(e) - 2)
      <3>1. ~(1 + (k + 1) > Len(e)) /\ 1 + (k + 1) = Len(e) - 2 /\ 1 + 1 = 2
        BY <1>1
      <3> QED
        BY <3>1 DEF Pem!Substr
    <2>4. base64 = Pem!NoSpace(Pem!Substr(e, 1, k + 1))
      BY <1>6, <1>7, <2>1, <2>2
    <2> QED
      BY <1>3, <2>3, <2>4
  <1>9. Pem!Substr(e, 0, 1) = <<"B">>
    <2>1. ~(0 + 1 > Len(e)) /\ 0 + 1 = 1 /\ 0 \in 0 .. Len(e) /\ 0 + 1 \in 0 .. Len(e)
      BY <1>1
    <2>2. /\ SubSeq(e, 0 + 1, 0 + 1) \in Seq(Pem!Tokens) /\ Len(SubSeq(e, 0 + 1, 0 + 1)) = 1
          /\ SubSeq(e, 0 + 1, 0 + 1)[1] = "B"
      BY <1>1, <2>1, SliceIs
    <2>3. Pem!Substr(e, 0, 1) = SubSeq(e, 0 + 1, 0 + 1)
      BY <2>1 DEF Pem!Substr
    <2> QED
      BY <2>2, <2>3
  <1>10. Pem!Substr(e, k + 3, Len(e)) = <<"E">>
    <2>1. /\ (k + 3) + Len(e) > Len(e) /\ k + 3 \in 0 .. Len(e) /\ Len(e) \in k + 3 .. Len(e)
          /\ Len(e) - (k + 3) = 1 /\ (k + 3) + 1 = k + 4
      BY <1>1
    <2>2. /\ SubSeq(e, (k + 3) + 1, Len(e)) \in Seq(Pem!Tokens)
          /\ Len(SubSeq(e, (k + 3) + 1, Len(e))) = 1
          /\ SubSeq(e, (k + 3) + 1, Len(e))[1] = "E"
      BY <1>1, <2>1, SliceIs
    <2>3. Pem!Substr(e, k + 3, Len(e)) = SubSeq(e, (k + 3) + 1, Len(e))
      BY <2>1 DEF Pem!Substr
    <2> DEFINE t == SubSeq(e, (k + 3) + 1, Len(e))
    <2> HIDE DEF t
    <2>4. t \in Seq(Pem!Tokens) /\ Len(t) = 1 /\ t[1] = "E"
      BY <2>2 DEF t
    <2>5. t = <<"E">>
      BY <2>4
    <2> QED
      BY <2>3, <2>5 DEF t
  <1>11. endBeginMarker # N
    BY <1>4, <1>6
  <1> DEFINE L == Pem!SplitLines(b)
  <1> HIDE DEF base64
  <1>12. Pem!ReformatPEMCertificate(e) = (((<<"B">> \o <<"n">>) \o L) \o <<"n">>) \o <<"E">>
    BY <1>0, <1>6, <1>7, <1>8, <1>9, <1>10, <1>11
  <1>13. L \in Seq(Pem!Tokens)
    <2>1. b \in Seq(Pem!Tokens) /\ ~Occurs("n", b)
      BY <1>3, NoSpaceElements
    <2> HIDE DEF b
    <2> QED
      BY <2>1, SplitLinesIs
  <1> HIDE DEF L, b
  <1>14. (((<<"B">> \o <<"n">>) \o L) \o <<"n">>) \o <<"E">> = Element(L)
    <2>1. <<"B">> \o <<"n">> = <<"B", "n">> /\ <<"n">> \o <<"E">> = <<"n", "E">>
      BY PairIs, TokensAre
    <2>2. <<"B", "n">> \in Seq(Pem!Tokens) /\ <<"n">> \in Seq(Pem!Tokens)
          /\ <<"E">> \in Seq(Pem!Tokens)
      BY TokensAre
    <2>3. <<"B", "n">> \o L \in Seq(Pem!Tokens)
      BY <1>13, <2>2, ConcatProperties
    <2>4. ((<<"B", "n">> \o L) \o <<"n">>) \o <<"E">> = (<<"B", "n">> \o L) \o (<<"n">> \o <<"E">>)
      BY <2>2, <2>3, ConcatAssociative
    <2> QED
      BY <2>1, <2>4 DEF Element
  <1> QED
    BY <1>12, <1>14 DEF e, L, b

(* What a text leaves up to its end is what is left of all of it. *)
LEMMA PieceWhole ==
    ASSUME NEW s \in Seq(Pem!Tokens)
    PROVE  Piece(s, 0, Len(s)) = Pem!NoSpace(s)
  <1>1. SubSeq(s, 0 + 1, Len(s)) = s
    BY SubSeqFull
  <1> QED
    BY <1>1 DEF Piece

(* The token on either side of the place where two texts are joined *)
LEMMA JoinIs ==
    ASSUME NEW s \in Seq(Pem!Tokens), NEW t \in Seq(Pem!Tokens)
    PROVE  /\ s \o t \in Seq(Pem!Tokens) /\ Len(s \o t) = Len(s) + Len(t)
           /\ Len(s) \in Nat /\ Len(t) \in Nat
           /\ s # <<>> => Len(s) >= 1 /\ (s \o t)[Len(s)] = s[Len(s)]
           /\ t # <<>> => /\ Len(t) >= 1 /\ (s \o t)[Len(s) + 1] = t[1]
                          /\ (s \o t)[Len(s) + Len(t)] = t[Len(t)]
  <1>1. /\ s \o t \in Seq(Pem!Tokens) /\ Len(s \o t) = Len(s) + Len(t)
        /\ \A i \in 1 .. Len(s) + Len(t) :
              (s \o t)[i] = IF i <= Len(s) THEN s[i] ELSE t[i - Len(s)]
    BY ConcatProperties
  <1>2. Len(s) \in Nat /\ Len(t) \in Nat
    BY LenProperties
  <1>3. (s # <<>> => Len(s) >= 1) /\ (t # <<>> => Len(t) >= 1)
    BY FirstOccurs
  <1>4. ASSUME s # <<>> PROVE (s \o t)[Len(s)] = s[Len(s)]
    <2>1. Len(s) \in 1 .. Len(s) + Len(t) /\ Len(s) <= Len(s)
      BY <1>2, <1>3, <1>4
    <2> QED
      BY <1>1, <2>1
  <1>5. ASSUME t # <<>> PROVE (s \o t)[Len(s) + 1] = t[1] /\ (s \o t)[Len(s) + Len(t)] = t[Len(t)]
    <2>1. /\ Len(s) + 1 \in 1 .. Len(s) + Len(t) /\ ~(Len(s) + 1 <= Len(s))
          /\ (Len(s) + 1) - Len(s) = 1
          /\ Len(s) + Len(t) \in 1 .. Len(s) + Len(t) /\ ~(Len(s) + Len(t) <= Len(s))
          /\ (Len(s) + Len(t)) - Len(s) = Len(t)
      BY <1>2, <1>3, <1>5
    <2> QED
      BY <1>1, <2>1
  <1> QED
    BY <1>1, <1>2, <1>3, <1>4, <1>5

(* Where a position of a text is the end of an element or the start of the *)
(* text, a list of PEMs goes on with a begin marker.                       *)
LEMMA ListGoesOn ==
    ASSUME NEW s \in Seq(Pem!Tokens), Pem!IsListOfPEMs(s), NEW a \in 0 .. Len(s),
           a = 0 \/ s[a] = "E", NEW b \in a .. Len(s), Piece(s, a, b) # <<>>
    PROVE  \E i \in a + 1 .. b : s[i] = "B"
  <1>0. Len(s) \in Nat /\ a \in Nat /\ b \in Nat
    BY LenProperties
  <1> DEFINE t == Pem!NoSpace(s)
             P == Piece(s, 0, a)
             Q == Piece(s, a, b)
             R == Piece(s, b, Len(s))
  <1>1. t = P \o (Q \o R) /\ P \in Seq(Pem!Tokens) /\ Q \in Seq(Pem!Tokens) /\ R \in Seq(Pem!Tokens)
    <2>1. 0 \in 0 .. Len(s) /\ a \in 0 .. Len(s) /\ b \in a .. Len(s) /\ b \in 0 .. Len(s)
          /\ Len(s) \in a .. Len(s) /\ Len(s) \in b .. Len(s)
      BY <1>0
    <2>2. Piece(s, 0, Len(s)) = Piece(s, 0, a) \o Piece(s, a, Len(s))
          /\ Piece(s, 0, a) \in Seq(Pem!Tokens)
      BY <2>1, PieceSplit
    <2>3. Piece(s, a, Len(s)) = Piece(s, a, b) \o Piece(s, b, Len(s))
          /\ Piece(s, a, b) \in Seq(Pem!Tokens) /\ Piece(s, b, Len(s)) \in Seq(Pem!Tokens)
      BY <2>1, PieceSplit
    <2> QED
      BY <2>2, <2>3, PieceWhole
  <1>2. P = <<>> \/ P[Len(P)] = "E"
    <2> SUFFICES ASSUME P # <<>> PROVE P[Len(P)] = "E"
      OBVIOUS
    <2>1. a # 0
      <3> SUFFICES ASSUME a = 0 PROVE FALSE
        OBVIOUS
      <3>1. \A i \in 0 + 1 .. 0 : s[i] = "n"
        OBVIOUS
      <3>2. 0 \in 0 .. Len(s) /\ 0 \in 0 .. 0
        BY <1>0
      <3> QED
        BY <3>1, <3>2, PieceEmpty
    <2>2. a - 1 \in 0 .. Len(s) - 1 /\ a - 1 \in 0 .. Len(s) /\ (a - 1) + 1 = a
          /\ a \in a - 1 .. Len(s) /\ 0 \in 0 .. Len(s)
      BY <1>0, <2>1
    <2>3. Piece(s, a - 1, a) = <<"E">>
      <3>1. s[a] = "E"
        BY <2>1
      <3>2. Piece(s, a - 1, (a - 1) + 1) = <<s[(a - 1) + 1]>>
        BY <2>2, <3>1, PieceOne
      <3> QED
        BY <2>2, <3>1, <3>2
    <2>4. P = Piece(s, 0, a - 1) \o <<"E">> /\ Piece(s, 0, a - 1) \in Seq(Pem!Tokens)
      <3>1. P = Piece(s, 0, a - 1) \o Piece(s, a - 1, a) /\ Piece(s, 0, a - 1) \in Seq(Pem!Tokens)
        BY <2>2, PieceSplit
      <3> QED
        BY <2>3, <3>1
    <2>5. <<"E">> \in Seq(Pem!Tokens) /\ <<"E">> # <<>> /\ Len(<<"E">>) = 1 /\ <<"E">>[1] = "E"
      BY TokensAre
    <2> DEFINE u == Piece(s, 0, a - 1)
               w == <<"E">>
    <2> HIDE DEF P, u, w
    <2>6. P = u \o w /\ u \in Seq(Pem!Tokens) /\ w \in Seq(Pem!Tokens) /\ w # <<>>
          /\ Len(w) = 1 /\ w[1] = "E"
      BY <2>4, <2>5 DEF u, w
    <2>7. Len(u \o w) = Len(u) + Len(w) /\ (u \o w)[Len(u) + Len(w)] = w[Len(w)]
      BY <2>6, JoinIs
    <2> QED
      BY <2>6, <2>7
  <1> HIDE DEF P, Q, R
  <1>q. Q # <<>>
    BY DEF Q
  <1> DEFINE V == Q \o R
  <1>3. V \in Seq(Pem!Tokens) /\ V # <<>> /\ V[1] = Q[1]
    <2>1. Q # <<>> /\ Len(Q) >= 1 /\ Len(Q) \in Nat
      BY <1>1, <1>q, FirstOccurs
    <2>2. /\ Q \o R \in Seq(Pem!Tokens) /\ Len(Q \o R) = Len(Q) + Len(R) /\ Len(R) \in Nat
          /\ \A i \in 1 .. Len(Q) + Len(R) :
                (Q \o R)[i] = IF i <= Len(Q) THEN Q[i] ELSE R[i - Len(Q)]
      BY <1>1, ConcatProperties, LenProperties
    <2>3. 1 \in 1 .. Len(Q) + Len(R) /\ 1 <= Len(Q) /\ Len(V) >= 1
      BY <2>1, <2>2
    <2>4. V # <<>>
      BY <2>3
    <2> QED
      BY <2>2, <2>3, <2>4
  <1> HIDE DEF V
  <1>4. t = P \o V /\ Len(P) \in Nat /\ t[Len(P) + 1] = V[1]
        /\ (P # <<>> => Len(P) >= 1 /\ t[Len(P)] = P[Len(P)]) /\ t \in Seq(Pem!Tokens)
        /\ Len(t) = Len(P) + Len(V) /\ Len(V) >= 1 /\ Len(V) \in Nat
    <2>1. t = P \o V
      BY <1>1 DEF V
    <2> HIDE DEF t
    <2> QED
      BY <1>1, <1>3, <2>1, JoinIs
  <1>5. \A i \in DOMAIN t : (t[i] = "B") <=> (i = 1 \/ t[i - 1] = "E")
    BY DEF Pem!IsListOfPEMs
  <1> HIDE DEF t
  <1>6. t[Len(P) + 1] = "B"
    <2>1. Len(P) + 1 \in 1 .. Len(t) /\ (Len(P) + 1) - 1 = Len(P)
      BY <1>4
    <2>2. Len(P) + 1 \in DOMAIN t
      BY <1>4, <2>1, LenProperties
    <2>3. P = <<>> => Len(P) + 1 = 1
      OBVIOUS
    <2> QED
      BY <1>2, <1>4, <1>5, <2>1, <2>2, <2>3
  <1>7. Occurs("B", Q)
    <2>1. Q[1] = "B"
      BY <1>3, <1>4, <1>6
    <2> QED
      BY <1>1, <1>q, <2>1, FirstOccurs
  <1> QED
    BY <1>7, PieceOccurs, TokensAre DEF Q

(* In a list of PEMs an end marker comes behind every begin marker, and    *)
(* not directly behind it.                                                 *)
LEMMA ListIsClosed ==
    ASSUME NEW s \in Seq(Pem!Tokens), Pem!IsListOfPEMs(s), NEW a \in 0 .. Len(s) - 1,
           s[a + 1] = "B"
    PROVE  /\ \E i \in a + 2 .. Len(s) : s[i] = "E"
           /\ \A b \in a + 1 .. Len(s) - 1 :
                s[b + 1] = "E" => Piece(s, a + 1, b) # <<>>
  <1>0. Len(s) \in Nat /\ a \in Nat
    BY LenProperties
  <1> DEFINE t == Pem!NoSpace(s)
             P == Piece(s, 0, a + 1)
  <1>1. /\ 0 \in 0 .. Len(s) /\ a \in 0 .. Len(s) /\ a + 1 \in a .. Len(s)
        /\ a + 1 \in 0 .. Len(s) /\ Len(s) \in a + 1 .. Len(s) /\ (a + 1) + 1 = a + 2
    BY <1>0
  <1>2. P \in Seq(Pem!Tokens) /\ P # <<>> /\ P[Len(P)] = "B"
    <2>1. Piece(s, a, a + 1) = <<"B">>
      BY PieceOne
    <2>2. P = Piece(s, 0, a) \o Piece(s, a, a + 1) /\ Piece(s, 0, a) \in Seq(Pem!Tokens)
      BY <1>1, PieceSplit
    <2> DEFINE u == Piece(s, 0, a)
               w == <<"B">>
    <2>3. w \in Seq(Pem!Tokens) /\ w # <<>> /\ Len(w) = 1 /\ w[1] = "B"
      BY TokensAre
    <2>4. P = u \o w /\ u \in Seq(Pem!Tokens)
      BY <2>1, <2>2
    <2> HIDE DEF P, u, w
    <2>5. /\ u \o w \in Seq(Pem!Tokens) /\ Len(u \o w) = Len(u) + Len(w) /\ Len(u) \in Nat
          /\ (u \o w)[Len(u) + Len(w)] = w[Len(w)]
      BY <2>3, <2>4, JoinIs
    <2>6. Len(P) >= 1
      BY <2>3, <2>4, <2>5
    <2>7. P # <<>>
      BY <2>6
    <2> QED
      BY <2>3, <2>4, <2>5, <2>7
  <1>3. t \in Seq(Pem!Tokens)
    BY SpacelessIs
  <1>4. ASSUME \A i \in a + 2 .. Len(s) : s[i] # "E" PROVE FALSE
    <2> DEFINE R == Piece(s, a + 1, Len(s))
    <2>1. t = P \o R /\ R \in Seq(Pem!Tokens)
      <3>1. Piece(s, 0, Len(s)) = P \o R /\ R \in Seq(Pem!Tokens)
        BY <1>1, PieceSplit
      <3> QED
        BY <3>1, PieceWhole
    <2>2. ~Occurs("E", R)
      <3>1. Occurs("E", R) => \E i \in (a + 1) + 1 .. Len(s) : s[i] = "E"
        BY <1>1, TokensAre, PieceOccurs
      <3> QED
        BY <1>1, <1>4, <3>1
    <2>3. t # <<>> => t[Len(t)] = "E"
      BY DEF Pem!IsListOfPEMs, Pem!Last
    <2> HIDE DEF P, R, t
    <2>4. CASE R = <<>>
      <3>1. t = P
        BY <1>2, <2>1, <2>4, ConcatEmptySeq
      <3> QED
        BY <1>2, <2>3, <3>1
    <2>5. CASE R # <<>>
      <3>1. Len(P \o R) = Len(P) + Len(R) /\ (P \o R)[Len(P) + Len(R)] = R[Len(R)]
            /\ Len(P) \in Nat /\ Len(R) \in Nat /\ Len(R) >= 1
        BY <1>2, <2>1, <2>5, JoinIs
      <3>2. t # <<>>
        <4>1. Len(t) >= 1
          BY <2>1, <3>1
        <4> QED
          BY <4>1
      <3>3. R[Len(R)] = "E"
        BY <2>1, <2>3, <3>1, <3>2
      <3>4. Occurs(R[Len(R)], R)
        BY <2>1, <2>5, FirstOccurs
      <3> QED
        BY <2>2, <3>3, <3>4
    <2> QED
      BY <2>4, <2>5
  <1>5. ASSUME NEW b \in a + 1 .. Len(s) - 1, s[b + 1] = "E", Piece(s, a + 1, b) = <<>>
        PROVE  FALSE
    <2>1. /\ b \in 0 .. Len(s) - 1 /\ b \in a + 1 .. Len(s) /\ b \in 0 .. Len(s)
          /\ b + 1 \in b .. Len(s) /\ b + 1 \in 0 .. Len(s) /\ Len(s) \in b + 1 .. Len(s)
          /\ Len(s) \in b .. Len(s)
      BY <1>0
    <2> DEFINE R == Piece(s, b + 1, Len(s))
               w == <<"E">>
    <2>2. Piece(s, b, b + 1) = w
      BY <1>5, <2>1, PieceOne
    <2>3. Piece(s, 0, b) = P
      <3>1. Piece(s, 0, b) = P \o Piece(s, a + 1, b)
        BY <1>1, <2>1, PieceSplit
      <3> HIDE DEF P
      <3> QED
        BY <1>2, <1>5, <3>1, ConcatEmptySeq
    <2>4. t = P \o (w \o R) /\ R \in Seq(Pem!Tokens)
      <3>1. Piece(s, 0, Len(s)) = Piece(s, 0, b) \o Piece(s, b, Len(s))
        BY <1>1, <2>1, PieceSplit
      <3>2. Piece(s, b, Len(s)) = Piece(s, b, b + 1) \o R /\ R \in Seq(Pem!Tokens)
        BY <2>1, PieceSplit
      <3> QED
        BY <2>2, <2>3, <3>1, <3>2, PieceWhole
    <2>5. w \in Seq(Pem!Tokens) /\ w # <<>> /\ Len(w) = 1 /\ w[1] = "E"
      BY TokensAre
    <2>6. \A i \in DOMAIN t : t[i] = "E" => t[i - 1] = "x"
      BY DEF Pem!IsListOfPEMs
    <2> DEFINE V == w \o R
    <2> HIDE DEF P, R, t, w
    <2>7. V \in Seq(Pem!Tokens) /\ V # <<>> /\ V[1] = "E"
      <3>1. /\ w \o R \in Seq(Pem!Tokens) /\ Len(w \o R) = Len(w) + Len(R)
            /\ (w \o R)[Len(w)] = w[Len(w)] /\ Len(R) \in Nat
        BY <2>4, <2>5, JoinIs
      <3>2. Len(w \o R) >= 1
        BY <2>5, <3>1
      <3>3. w \o R # <<>>
        BY <3>2
      <3> QED
        BY <2>5, <3>1, <3>3
    <2> HIDE DEF V
    <2>8. /\ Len(t) = Len(P) + Len(V) /\ Len(P) \in Nat /\ Len(V) \in Nat /\ Len(V) >= 1
          /\ t[Len(P)] = P[Len(P)] /\ t[Len(P) + 1] = V[1] /\ Len(P) >= 1
      <3>1. t = P \o V
        BY <2>4 DEF V
      <3> QED
        BY <1>2, <2>7, <3>1, JoinIs
    <2>9. Len(P) + 1 \in DOMAIN t /\ (Len(P) + 1) - 1 = Len(P)
      <3>1. Len(P) + 1 \in 1 .. Len(t) /\ (Len(P) + 1) - 1 = Len(P)
        BY <2>8
      <3> QED
        BY <1>3, <3>1, LenProperties
    <2> QED
      BY <1>2, <2>6, <2>7, <2>8, <2>9
  <1> QED
    BY <1>4, <1>5

(* A text with a begin marker behind another one and no end marker between *)
(* the two is no list of PEMs.                                             *)
LEMMA NestedIsNoList ==
    ASSUME NEW s \in Seq(Pem!Tokens), NEW a \in 0 .. Len(s) - 1, s[a + 1] = "B",
           NEW q \in a + 1 .. Len(s) - 1, s[q + 1] = "B",
           \A i \in a + 2 .. q : s[i] # "E"
    PROVE  ~Pem!IsListOfPEMs(s)
  <1> SUFFICES ASSUME Pem!IsListOfPEMs(s) PROVE FALSE
    OBVIOUS
  <1>0. Len(s) \in Nat /\ a \in Nat /\ q \in Nat
    BY LenProperties
  <1> DEFINE t == Pem!NoSpace(s)
             A == Piece(s, 0, a)
             M == Piece(s, a + 1, q)
             R == Piece(s, q + 1, Len(s))
             w == <<"B">>
  <1>1. /\ 0 \in 0 .. Len(s) /\ a \in 0 .. Len(s) /\ a + 1 \in a .. Len(s) /\ q \in a .. Len(s)
        /\ a + 1 \in 0 .. Len(s) /\ q \in a + 1 .. Len(s) /\ q \in 0 .. Len(s)
        /\ q \in 0 .. Len(s) - 1 /\ q + 1 \in q .. Len(s) /\ q + 1 \in 0 .. Len(s)
        /\ Len(s) \in q .. Len(s) /\ Len(s) \in q + 1 .. Len(s) /\ (a + 1) + 1 = a + 2
    BY <1>0
  <1>2. w \in Seq(Pem!Tokens) /\ w # <<>> /\ Len(w) = 1 /\ w[1] = "B"
    BY TokensAre
  <1>3. Piece(s, a, a + 1) = w /\ Piece(s, q, q + 1) = w
    BY <1>1, PieceOne
  <1>4. /\ t = Piece(s, 0, q) \o (w \o R) /\ Piece(s, 0, q) = A \o (w \o M)
        /\ A \in Seq(Pem!Tokens) /\ M \in Seq(Pem!Tokens) /\ R \in Seq(Pem!Tokens)
    <2>1. Piece(s, 0, Len(s)) = Piece(s, 0, q) \o Piece(s, q, Len(s))
      BY <1>1, PieceSplit
    <2>2. Piece(s, q, Len(s)) = Piece(s, q, q + 1) \o R /\ R \in Seq(Pem!Tokens)
      BY <1>1, PieceSplit
    <2>3. Piece(s, 0, q) = A \o Piece(s, a, q) /\ A \in Seq(Pem!Tokens)
      BY <1>1, PieceSplit
    <2>4. Piece(s, a, q) = Piece(s, a, a + 1) \o M /\ M \in Seq(Pem!Tokens)
      BY <1>1, PieceSplit
    <2>5. Piece(s, 0, Len(s)) = t
      BY PieceWhole
    <2> QED
      BY <1>3, <2>1, <2>2, <2>3, <2>4, <2>5
  <1>5. ~Occurs("E", M)
    <2>1. Occurs("E", M) => \E i \in (a + 1) + 1 .. q : s[i] = "E"
      BY <1>1, TokensAre, PieceOccurs
    <2> QED
      BY <1>1, <2>1
  <1>6. \A i \in DOMAIN t : t[i] = "B" => i = 1 \/ t[i - 1] = "E"
    BY DEF Pem!IsListOfPEMs
  <1> DEFINE U == w \o M
             P == A \o U
             V == w \o R
  <1>7. t = P \o V /\ t \in Seq(Pem!Tokens)
    BY <1>4, SpacelessIs
  <1> HIDE DEF t, A, M, R, w
  <1>8. /\ U \in Seq(Pem!Tokens) /\ U # <<>> /\ Len(U) \in Nat /\ Len(U) >= 1
        /\ U[Len(U)] # "E"
    <2>1. /\ U \in Seq(Pem!Tokens) /\ Len(U) = Len(w) + Len(M) /\ Len(M) \in Nat
          /\ U[Len(w)] = w[Len(w)]
          /\ M # <<>> => Len(M) >= 1 /\ U[Len(w) + Len(M)] = M[Len(M)]
      BY <1>2, <1>4, JoinIs
    <2> HIDE DEF U
    <2>2. Len(U) >= 1 /\ Len(U) \in Nat
      BY <1>2, <2>1
    <2>3. U # <<>>
      BY <2>2
    <2>4. CASE M = <<>>
      <3>1. Len(M) = 0
        BY <2>4
      <3>2. Len(U) = 1
        BY <1>2, <2>1, <3>1
      <3> QED
        BY <1>2, <2>1, <2>2, <2>3, <3>2
    <2>5. CASE M # <<>>
      <3>1. Occurs(M[Len(M)], M)
        BY <1>4, <2>5, FirstOccurs
      <3>2. U[Len(U)] = M[Len(M)]
        BY <2>1, <2>5
      <3> QED
        BY <1>5, <2>1, <2>2, <2>3, <3>1, <3>2
    <2> QED
      BY <2>4, <2>5
  <1> HIDE DEF U
  <1>9. /\ P \in Seq(Pem!Tokens) /\ P # <<>> /\ Len(P) \in Nat /\ Len(P) >= 1
        /\ P[Len(P)] # "E"
    <2>1. /\ P \in Seq(Pem!Tokens) /\ Len(P) = Len(A) + Len(U) /\ Len(A) \in Nat
          /\ P[Len(A) + Len(U)] = U[Len(U)]
      BY <1>4, <1>8, JoinIs
    <2> HIDE DEF P
    <2>2. Len(P) >= 1 /\ Len(P) \in Nat
      BY <1>8, <2>1
    <2>3. P # <<>>
      BY <2>2
    <2> QED
      BY <1>8, <2>1, <2>2, <2>3
  <1>10. V \in Seq(Pem!Tokens) /\ V # <<>> /\ V[1] = "B"
    <2>1. /\ V \in Seq(Pem!Tokens) /\ Len(V) = Len(w) + Len(R) /\ Len(R) \in Nat
          /\ V[Len(w)] = w[Len(w)]
      BY <1>2, <1>4, JoinIs
    <2> HIDE DEF V
    <2>2. Len(V) >= 1
      BY <1>2, <2>1
    <2>3. V # <<>>
      BY <2>2
    <2> QED
      BY <1>2, <2>1, <2>3
  <1> HIDE DEF P, V
  <1>11. /\ Len(t) = Len(P) + Len(V) /\ Len(V) \in Nat /\ Len(V) >= 1
         /\ t[Len(P)] = P[Len(P)] /\ t[Len(P) + 1] = V[1]
    BY <1>7, <1>9, <1>10, JoinIs
  <1>12. /\ Len(P) + 1 \in DOMAIN t /\ (Len(P) + 1) - 1 = Len(P) /\ Len(P) + 1 # 1
    <2>1. /\ Len(P) + 1 \in 1 .. Len(t) /\ (Len(P) + 1) - 1 = Len(P) /\ Len(P) + 1 # 1
      BY <1>9, <1>11
    <2> QED
      BY <1>7, <2>1, LenProperties
  <1> QED
    BY <1>6, <1>9, <1>10, <1>11, <1>12

(***************************************************************************)
(* The inductive invariant of a loader: what was split so far, without     *)
(* white space, is the text up to the position; the position is behind an  *)
(* end marker; every element has a body without another end marker, and    *)
(* without another begin marker if the text is a list of PEMs; what was    *)
(* read so far are the first contents of the first elements, and in a list *)
(* of PEMs all of them; a refusal with text left means that the text is no *)
(* list of PEMs.                                                           *)
(***************************************************************************)
ProperBody(m) == m # <<>> /\ ~Occurs("E", m) /\ Len(m) + 2 <= PemLength

IsElement(e) ==
    \E m \in Seq(Pem!Tokens) :
        ProperBody(m) /\ e = Element(m) /\ (Pem!IsListOfPEMs(pText) => ~Occurs("B", m))

InMarkers(list) == [i \in DOMAIN list |-> <<"B">> \o list[i] \o <<"E">>]

SplitInv ==
    /\ pPemList \in Seq(Seq(Pem!Tokens))
    /\ \A i \in 1 .. Len(pPemList) : IsElement(pPemList[i])
    /\ pPos = 0 \/ pText[pPos] = "E"
    /\ Pem!NoSpace(Pem!FlattenSeq(pPemList)) = Piece(pText, 0, pPos)
    /\ pOutcome = "threw" /\ Piece(pText, pPos, Len(pText)) # <<>> => ~Pem!IsListOfPEMs(pText)

LoadInv ==
    /\ pLoaded \in Seq(Seq(Pem!Tokens)) /\ Len(pLoaded) <= Len(pPemList)
    /\ pOutcome = "split" => pLoaded = <<>>
    /\ pOutcome \in {"load", "returned"} => Piece(pText, pPos, Len(pText)) = <<>>
    /\ pOutcome = "returned" => Len(pLoaded) = Len(pPemList)
    /\ \A i \in 1 .. Len(pLoaded) :
          Pem!IsFirstContent(pLoaded[i], Pem!NoSpace(pPemList[i]))
    /\ Pem!IsListOfPEMs(pText) =>
          Pem!FlattenSeq(InMarkers(pLoaded))
              = Pem!NoSpace(Pem!FlattenSeq(SubSeq(pPemList, 1, Len(pLoaded))))

SingleInv ==
    /\ pPos = 0 /\ Len(pPemList) = 1 /\ pOutcome # "split"
    /\ pLoaded = <<>> \/ \E c : pLoaded = <<c>>

PemIInv ==
    /\ pText \in Seq(Pem!Tokens) /\ Len(pText) <= PemLength
    /\ pOutcome \in {"split", "load", "returned", "threw"}
    /\ pPos \in 0 .. Len(pText)
    /\ pKind = "single" => SingleInv
    /\ pKind # "single" => SplitInv /\ LoadInv

(* Wrapping one more content *)
LEMMA InMarkersAppend ==
    ASSUME NEW list \in Seq(Seq(Pem!Tokens)), NEW c \in Seq(Pem!Tokens)
    PROVE  /\ InMarkers(list) \in Seq(Seq(Pem!Tokens))
           /\ <<"B">> \o c \o <<"E">> \in Seq(Pem!Tokens)
           /\ InMarkers(Append(list, c)) = Append(InMarkers(list), <<"B">> \o c \o <<"E">>)
  <1> DEFINE Wrap(e) == <<"B">> \o e \o <<"E">>
  <1>1. ASSUME NEW e \in Seq(Pem!Tokens) PROVE Wrap(e) \in Seq(Pem!Tokens)
    <2>1. <<"B">> \in Seq(Pem!Tokens) /\ <<"E">> \in Seq(Pem!Tokens)
      BY TokensAre
    <2>2. <<"B">> \o e \in Seq(Pem!Tokens)
      BY <2>1, ConcatProperties
    <2> QED
      BY <2>1, <2>2, ConcatProperties
  <1>2. ASSUME NEW q \in Seq(Seq(Pem!Tokens))
        PROVE  /\ InMarkers(q) \in Seq(Seq(Pem!Tokens)) /\ Len(InMarkers(q)) = Len(q)
               /\ \A i \in 1 .. Len(q) : InMarkers(q)[i] = Wrap(q[i])
    <2>1. DOMAIN q = 1 .. Len(q) /\ Len(q) \in Nat /\ \A i \in 1 .. Len(q) : q[i] \in Seq(Pem!Tokens)
      BY LenProperties, ElementOfSeq
    <2>2. \A i \in 1 .. Len(q) : Wrap(q[i]) \in Seq(Pem!Tokens)
      BY <1>1, <2>1
    <2>3. InMarkers(q) = [i \in 1 .. Len(q) |-> Wrap(q[i])]
      BY <2>1 DEF InMarkers
    <2> HIDE DEF Wrap
    <2>4. InMarkers(q) \in [1 .. Len(q) -> Seq(Pem!Tokens)]
      BY <2>2, <2>3
    <2>5. \A i \in 1 .. Len(q) : InMarkers(q)[i] = Wrap(q[i])
      BY <2>3
    <2>6. InMarkers(q) \in Seq(Seq(Pem!Tokens)) /\ Len(InMarkers(q)) = Len(q)
      <3> DEFINE w == InMarkers(q)
                 k == Len(q)
      <3>1. w \in [1 .. k -> Seq(Pem!Tokens)] /\ k \in Nat
        BY <2>1, <2>4
      <3> HIDE DEF w, k
      <3>2. w \in Seq(Seq(Pem!Tokens)) /\ Len(w) = k
        BY <3>1
      <3> QED
        BY <3>2 DEF w, k
    <2> QED
      BY <2>5, <2>6
  <1> HIDE DEF Wrap
  <1>3. /\ Append(list, c) \in Seq(Seq(Pem!Tokens)) /\ Len(Append(list, c)) = Len(list) + 1
        /\ \A i \in 1 .. Len(list) : Append(list, c)[i] = list[i]
        /\ Append(list, c)[Len(list) + 1] = c /\ Len(list) \in Nat
    BY AppendProperties, LenProperties
  <1>4. /\ InMarkers(list) \in Seq(Seq(Pem!Tokens)) /\ Len(InMarkers(list)) = Len(list)
        /\ \A i \in 1 .. Len(list) : InMarkers(list)[i] = Wrap(list[i])
    BY <1>2
  <1>5. /\ InMarkers(Append(list, c)) \in Seq(Seq(Pem!Tokens))
        /\ Len(InMarkers(Append(list, c))) = Len(list) + 1
        /\ \A i \in 1 .. Len(list) + 1 : InMarkers(Append(list, c))[i] = Wrap(Append(list, c)[i])
    BY <1>2, <1>3
  <1> DEFINE w == InMarkers(list)
             d == Wrap(c)
  <1>6. w \in Seq(Seq(Pem!Tokens)) /\ Len(w) = Len(list) /\ d \in Seq(Pem!Tokens)
    BY <1>1, <1>4
  <1> HIDE DEF w, d
  <1>7. /\ Append(w, d) \in Seq(Seq(Pem!Tokens)) /\ Len(Append(w, d)) = Len(list) + 1
        /\ \A i \in 1 .. Len(list) : Append(w, d)[i] = w[i]
        /\ Append(w, d)[Len(list) + 1] = d
    BY <1>6, AppendProperties
  <1>8. ASSUME NEW i \in 1 .. Len(list) + 1 PROVE InMarkers(Append(list, c))[i] = Append(w, d)[i]
    <2>1. CASE i = Len(list) + 1
      BY <1>3, <1>5, <1>7, <2>1 DEF d
    <2>2. CASE i # Len(list) + 1
      <3>1. i \in 1 .. Len(list)
        BY <1>3, <2>2
      <3> QED
        BY <1>3, <1>4, <1>5, <1>7, <3>1 DEF w
    <2> QED
      BY <2>1, <2>2
  <1>9. InMarkers(Append(list, c)) = Append(w, d)
    BY <1>5, <1>7, <1>8, SeqEqual
  <1> QED
    BY <1>1, <1>4, <1>9 DEF w, d, Wrap

(* An initial state satisfies the invariant. *)
LEMMA PemStart == Pem!Init => PemIInv
  <1> SUFFICES ASSUME Pem!Init PROVE PemIInv
    OBVIOUS
  <1>1. PICK n \in 0 .. PemLength : pText \in [1 .. n -> Pem!Tokens]
    BY DEF Pem!Init
  <1>2. PemLength \in Nat
    BY NposIsBeyond
  <1>3. pText \in Seq(Pem!Tokens) /\ Len(pText) = n /\ n \in Nat
    BY <1>1, <1>2
  <1>4. pPos = 0 /\ pLoaded = <<>> /\ pKind \in {"certificates", "crls", "single"}
    BY DEF Pem!Init
  <1>5. pPos \in 0 .. Len(pText) /\ Len(pText) <= PemLength
    BY <1>2, <1>3, <1>4
  <1>6. CASE pKind = "single"
    <2>1. pPemList = <<pText>> /\ pOutcome = "load"
      BY <1>6 DEF Pem!Init
    <2>2. Len(pPemList) = 1
      BY <2>1
    <2> QED
      BY <1>3, <1>4, <1>5, <1>6, <2>1, <2>2 DEF PemIInv, SingleInv
  <1>7. CASE pKind # "single"
    <2>1. pPemList = <<>> /\ pOutcome = "split"
      BY <1>7 DEF Pem!Init
    <2>2. <<>> \in Seq(Seq(Pem!Tokens)) /\ Len(<<>>) = 0
      BY EmptySeq
    <2>3. Piece(pText, 0, 0) = <<>>
      <3>1. 0 \in 0 .. Len(pText) /\ 0 \in 0 .. 0 /\ \A i \in 0 + 1 .. 0 : pText[i] = "n"
        BY <1>3
      <3> QED
        BY <1>3, <3>1, PieceEmpty
    <2>4. Pem!NoSpace(Pem!FlattenSeq(<<>>)) = <<>>
      BY FlattenSmall, NoSpaceSmall
    <2>5. SplitInv
      BY <1>4, <2>1, <2>2, <2>3, <2>4 DEF SplitInv
    <2>6. InMarkers(<<>>) = <<>>
      BY DEF InMarkers
    <2>7. SubSeq(pPemList, 1, Len(pLoaded)) = <<>>
      <3>1. Len(pLoaded) = 0
        BY <1>4, <2>2
      <3>2. SubSeq(pPemList, 1, 0) = <<>>
        BY SubSeqEmpty
      <3> QED
        BY <3>1, <3>2
    <2>8. Pem!FlattenSeq(InMarkers(pLoaded))
             = Pem!NoSpace(Pem!FlattenSeq(SubSeq(pPemList, 1, Len(pLoaded))))
      BY <1>4, <2>4, <2>6, <2>7, FlattenSmall, Zenon
    <2>9. LoadInv
      <3>1. pLoaded \in Seq(Seq(Pem!Tokens)) /\ Len(pLoaded) <= Len(pPemList)
            /\ \A i \in 1 .. Len(pLoaded) : FALSE
        BY <1>4, <2>1, <2>2
      <3> QED
        BY <1>4, <2>1, <2>8, <3>1 DEF LoadInv
    <2> QED
      BY <1>3, <1>5, <1>7, <2>1, <2>5, <2>9 DEF PemIInv
  <1> QED
    BY <1>6, <1>7

(* The places of the markers in a turn of the loop of splitPEMChain() *)
FoundBegin == Pem!Find(pText, "B", pPos)
FoundBody == Pem!FindNoSpace(pText, FoundBegin + 1)
FoundEnd == Pem!Find(pText, "E", FoundBody)
FoundPem == Pem!TrimRight(Pem!Substr(pText, FoundBody, FoundEnd - FoundBody))

(* The ways out of a turn of the loop *)
LEMMA SplitCases ==
    ASSUME Pem!SplitStep
    PROVE  /\ pOutcome = "split" /\ pPos < Len(pText)
           /\ UNCHANGED <<pKind, pText, pLoaded>>
           /\ \/ /\ FoundBegin = Pem!Npos
                 /\ \/ Pem!FindNoSpace(pText, pPos) # Pem!Npos /\ pOutcome' = "threw"
                    \/ Pem!FindNoSpace(pText, pPos) = Pem!Npos /\ pOutcome' = "load"
                 /\ UNCHANGED <<pPos, pPemList>>
              \/ /\ FoundBegin # Pem!Npos
                 /\ ~Pem!OnlySpace(pPos, FoundBegin) \/ FoundEnd = Pem!Npos
                 /\ pOutcome' = "threw" /\ UNCHANGED <<pPos, pPemList>>
              \/ /\ FoundBegin # Pem!Npos /\ Pem!OnlySpace(pPos, FoundBegin)
                 /\ FoundEnd # Pem!Npos
                 /\ \/ FoundPem = <<>> /\ pOutcome' = "threw" /\ UNCHANGED <<pPos, pPemList>>
                    \/ /\ FoundPem # <<>> /\ pPemList' = Append(pPemList, Element(FoundPem))
                       /\ pPos' = FoundEnd + 1 /\ pOutcome' = pOutcome
  <1>1. pOutcome = "split" /\ pPos < Len(pText) /\ UNCHANGED <<pKind, pText, pLoaded>>
    BY DEF Pem!SplitStep
  <1> DEFINE Turn(begin, body, end, pem) ==
           \/ /\ begin = Pem!Npos
              /\ IF Pem!FindNoSpace(pText, pPos) # Pem!Npos THEN Pem!Throw
                 ELSE Pem!TailIsSpace /\ UNCHANGED <<pPos, pPemList>>
           \/ /\ begin # Pem!Npos
              /\ ~Pem!OnlySpace(pPos, begin) \/ end = Pem!Npos
              /\ Pem!Throw
           \/ /\ begin # Pem!Npos /\ Pem!OnlySpace(pPos, begin) /\ end # Pem!Npos
              /\ IF pem = <<>> THEN Pem!Throw
                 ELSE /\ pPemList' = Append(pPemList, <<"B", "n">> \o pem \o <<"n", "E">>)
                      /\ pPos' = Pem!NextPos(end)
                      /\ UNCHANGED pOutcome
  <1>2. \E begin \in {Pem!Find(pText, "B", pPos)} :
        \E body  \in {Pem!FindNoSpace(pText, begin + 1)} :
        \E end   \in {Pem!Find(pText, "E", body)} :
        \E pem   \in {Pem!TrimRight(Pem!Substr(pText, body, end - body))} :
            Turn(begin, body, end, pem)
    BY Zenon DEF Pem!SplitStep
  <1>3. Turn(FoundBegin, FoundBody, FoundEnd, FoundPem)
    <2> HIDE DEF Turn
    <2> QED
      BY <1>2, Zenon DEF FoundBegin, FoundBody, FoundEnd, FoundPem
  <1> QED
    BY <1>1, <1>3, Zenon DEF Pem!Throw, Pem!TailIsSpace, Pem!NextPos, Element

(* A text is shorter than npos. *)
LEMMA TextIsShort ==
    ASSUME PemIInv
    PROVE  /\ pText \in Seq(Pem!Tokens) /\ Len(pText) \in Nat /\ Len(pText) <= Pem!Npos
           /\ Len(pText) <= PemLength /\ PemLength \in Nat
           /\ pPos \in Nat /\ pPos <= Len(pText) /\ pPos \in 0 .. Len(pText)
  <1>1. pText \in Seq(Pem!Tokens) /\ Len(pText) <= PemLength /\ pPos \in 0 .. Len(pText)
    BY DEF PemIInv
  <1>2. Len(pText) \in Nat
    BY <1>1, LenProperties
  <1>3. PemLength \in Nat /\ Pem!Npos \in Int /\ Pem!Npos >= 4 * PemLength
    BY NposIsBeyond
  <1>4. 4 * PemLength >= PemLength
    BY <1>3
  <1> QED
    BY <1>1, <1>2, <1>3, <1>4

(* What the searches of a turn find *)
LEMMA BeginIs ==
    ASSUME PemIInv
    PROVE  /\ FoundBegin = Pem!Npos => \A i \in pPos + 1 .. Len(pText) : pText[i] # "B"
           /\ FoundBegin # Pem!Npos => /\ FoundBegin \in pPos .. Len(pText) - 1
                                       /\ pText[FoundBegin + 1] = "B"
                                       /\ \A i \in pPos + 1 .. FoundBegin : pText[i] # "B"
  BY TextIsShort, FindIs DEF FoundBegin

(* Without an end marker behind the body there is none behind the begin    *)
(* marker.                                                                 *)
LEMMA NoEndIs ==
    ASSUME PemIInv, FoundBegin # Pem!Npos, FoundEnd = Pem!Npos
    PROVE  \A i \in FoundBegin + 2 .. Len(pText) : pText[i] # "E"
  <1> DEFINE s == pText
             begin == FoundBegin
             body == FoundBody
  <1>1. s \in Seq(Pem!Tokens) /\ Len(s) \in Nat /\ Len(s) <= Pem!Npos /\ pPos \in Nat
    BY TextIsShort
  <1>2. begin \in pPos .. Len(s) - 1
    BY BeginIs
  <1>3. begin \in Nat /\ begin + 1 \in Nat /\ (begin + 1) + 1 = begin + 2
    <2> HIDE DEF begin
    <2> QED
      BY <1>1, <1>2
  <1>4. \/ \A i \in (begin + 1) + 1 .. Len(s) : s[i] = "n"
        \/ body \in begin + 1 .. Len(s) - 1 /\ \A i \in (begin + 1) + 1 .. body : s[i] = "n"
    <2>1. body = Pem!FindNoSpace(s, begin + 1)
      BY DEF FoundBody
    <2> HIDE DEF begin, body, s
    <2> QED
      BY <1>1, <1>3, <2>1, FindNoSpaceIs
  <1>5. CASE \A i \in (begin + 1) + 1 .. Len(s) : s[i] = "n"
    <2>1. \A i \in begin + 2 .. Len(s) : s[i] = "n"
      BY <1>3, <1>5
    <2> QED
      BY <2>1
  <1>6. CASE body \in begin + 1 .. Len(s) - 1 /\ \A i \in (begin + 1) + 1 .. body : s[i] = "n"
    <2> HIDE DEF begin, body, s
    <2>1. body \in Nat /\ body <= Len(s) - 1
      BY <1>1, <1>3, <1>6
    <2>2. \A i \in body + 1 .. Len(s) : s[i] # "E"
      <3>1. Pem!Find(s, "E", body) = Pem!Npos
        BY DEF FoundEnd, s, body
      <3> QED
        BY <1>1, <2>1, <3>1, FindIs
    <2>3. ASSUME NEW i \in begin + 2 .. Len(s) PROVE s[i] # "E"
      <3>1. i \in (begin + 1) + 1 .. body \/ i \in body + 1 .. Len(s)
        BY <1>1, <1>3, <2>1
      <3> QED
        BY <1>6, <2>2, <3>1
    <2> QED
      BY <2>3 DEF s, begin
  <1> QED
    BY <1>4, <1>5, <1>6

(* With an end marker, the element holds what is between the markers. *)
LEMMA EndIs ==
    ASSUME PemIInv, FoundBegin # Pem!Npos, FoundEnd # Pem!Npos
    PROVE  /\ FoundEnd \in FoundBegin + 1 .. Len(pText) - 1
           /\ pText[FoundEnd + 1] = "E"
           /\ FoundPem \in Seq(Pem!Tokens) /\ ~Occurs("E", FoundPem)
           /\ Len(FoundPem) + 2 <= PemLength
           /\ Pem!NoSpace(FoundPem) = Piece(pText, FoundBegin + 1, FoundEnd)
  <1> DEFINE s == pText
             begin == FoundBegin
             body == FoundBody
             end == FoundEnd
  <1>1. /\ s \in Seq(Pem!Tokens) /\ Len(s) \in Nat /\ Len(s) <= Pem!Npos /\ pPos \in Nat
        /\ Len(s) <= PemLength /\ PemLength \in Nat /\ Pem!Npos \in Int
    BY TextIsShort, NposIsBeyond
  <1>2. begin \in pPos .. Len(s) - 1
    BY BeginIs
  <1>3. body = Pem!FindNoSpace(s, begin + 1) /\ end = Pem!Find(s, "E", body) /\ end # Pem!Npos
        /\ FoundPem = Pem!TrimRight(Pem!Substr(s, body, end - body))
    BY DEF FoundBody, FoundEnd, FoundPem
  <1> SUFFICES /\ end \in begin + 1 .. Len(s) - 1
               /\ s[end + 1] = "E"
               /\ FoundPem \in Seq(Pem!Tokens) /\ ~Occurs("E", FoundPem)
               /\ Len(FoundPem) + 2 <= PemLength
               /\ Pem!NoSpace(FoundPem) = Piece(s, begin + 1, end)
    OBVIOUS
  <1> HIDE DEF s, begin, body, end
  <1>4. begin \in Nat /\ begin + 1 \in Nat /\ begin + 1 \in 0 .. Len(s)
    BY <1>1, <1>2
  <1>5. \/ body = Pem!Npos
        \/ body \in begin + 1 .. Len(s) - 1 /\ \A i \in (begin + 1) + 1 .. body : s[i] = "n"
    BY <1>1, <1>3, <1>4, FindNoSpaceIs
  <1>6. body \in Nat
    BY <1>1, <1>4, <1>5
  <1>7. /\ end \in body .. Len(s) - 1 /\ s[end + 1] = "E"
        /\ \A i \in body + 1 .. end : s[i] # "E"
    BY <1>1, <1>3, <1>6, FindIs
  <1>8. body # Pem!Npos
    BY <1>1, <1>6, <1>7
  <1>9. /\ body \in begin + 1 .. Len(s) - 1 /\ \A i \in (begin + 1) + 1 .. body : s[i] = "n"
    BY <1>5, <1>8
  <1>10. /\ end \in Nat /\ body <= end /\ end + 1 <= Len(s) /\ end \in body .. Len(s)
         /\ body \in 0 .. Len(s) /\ body \in begin + 1 .. Len(s) /\ end \in begin + 1 .. Len(s) - 1
         /\ body >= 1 /\ end \in 0 .. Len(s)
    BY <1>1, <1>4, <1>6, <1>7, <1>9
  <1> DEFINE u == SubSeq(s, body + 1, end)
  <1>11. Pem!Substr(s, body, end - body) = u
    <2>1. body + (end - body) = end /\ ~(end > Len(s))
      BY <1>1, <1>6, <1>10
    <2> QED
      BY <2>1 DEF Pem!Substr
  <1>12. /\ u \in Seq(Pem!Tokens) /\ Len(u) = end - body
         /\ \A i \in 1 .. end - body : u[i] = s[body + i]
    BY <1>1, <1>10, SliceIs
  <1>13. Pem!NoSpace(u) = Piece(s, body, end)
    BY DEF Piece
  <1> HIDE DEF u
  <1>14. PICK n \in 0 .. Len(u) : /\ Pem!TrimRight(u) = SubSeq(u, 1, n)
                                  /\ \A i \in n + 1 .. Len(u) : u[i] = "n"
    BY <1>12, TrimRightIs
  <1>15. n \in Nat /\ n <= end - body /\ Len(u) \in Nat /\ n \in 0 .. Len(u)
         /\ Len(u) \in n .. Len(u) /\ 0 \in 0 .. Len(u) /\ 0 + 1 = 1 /\ n - 0 = n
    BY <1>6, <1>10, <1>12
  <1> DEFINE p == FoundPem
  <1>16. /\ p = SubSeq(u, 1, n) /\ p \in Seq(Pem!Tokens) /\ Len(p) = n
         /\ \A i \in 1 .. n : p[i] = u[0 + i]
    <2>1. p = SubSeq(u, 1, n)
      BY <1>3, <1>11, <1>14
    <2>2. /\ SubSeq(u, 0 + 1, n) \in Seq(Pem!Tokens) /\ Len(SubSeq(u, 0 + 1, n)) = n - 0
          /\ \A i \in 1 .. n - 0 : SubSeq(u, 0 + 1, n)[i] = u[0 + i]
      BY <1>12, <1>15, SliceIs
    <2> HIDE DEF p
    <2> QED
      BY <1>15, <2>1, <2>2
  <1>17. Pem!NoSpace(p) = Pem!NoSpace(u)
    <2>1. Piece(u, n, Len(u)) = <<>>
      BY <1>12, <1>14, <1>15, PieceEmpty
    <2>2. Piece(u, 0, Len(u)) = Piece(u, 0, n) \o Piece(u, n, Len(u))
          /\ Piece(u, 0, n) \in Seq(Pem!Tokens)
      BY <1>12, <1>15, PieceSplit
    <2>3. Piece(u, 0, n) = Pem!NoSpace(p)
      BY <1>15, <1>16 DEF Piece
    <2>4. Piece(u, 0, Len(u)) = Pem!NoSpace(u)
      BY <1>12, PieceWhole
    <2> QED
      BY <2>1, <2>2, <2>3, <2>4, ConcatEmptySeq
  <1> HIDE DEF p
  <1>18. ~Occurs("E", p)
    <2> SUFFICES ASSUME NEW i \in 1 .. Len(p), p[i] = "E" PROVE FALSE
      BY DEF Occurs
    <2>1. i \in 1 .. n /\ 0 + i = i /\ i \in 1 .. end - body /\ body + i \in body + 1 .. end
      BY <1>6, <1>10, <1>15, <1>16
    <2>2. s[body + i] = "E"
      BY <1>12, <1>16, <2>1
    <2> QED
      BY <1>7, <2>1, <2>2
  <1>19. Piece(s, begin + 1, end) = Piece(s, body, end)
    <2>1. Piece(s, begin + 1, body) = <<>>
      BY <1>1, <1>4, <1>9, <1>10, PieceEmpty
    <2>2. Piece(s, begin + 1, end) = Piece(s, begin + 1, body) \o Piece(s, body, end)
          /\ Piece(s, body, end) \in Seq(Pem!Tokens)
      BY <1>1, <1>4, <1>10, PieceSplit
    <2> QED
      BY <2>1, <2>2, ConcatEmptySeq
  <1>20. Len(p) + 2 <= PemLength
    BY <1>1, <1>6, <1>10, <1>15, <1>16
  <1> QED
    BY <1>7, <1>10, <1>13, <1>16, <1>17, <1>18, <1>19, <1>20 DEF p

(* A refusal keeps the invariant when the text is refused for a reason. *)
LEMMA RefusalKeeps ==
    ASSUME PemIInv, pKind # "single", UNCHANGED <<pKind, pText, pLoaded, pPos, pPemList>>,
           pOutcome' = "threw",
           Piece(pText, pPos, Len(pText)) # <<>> => ~Pem!IsListOfPEMs(pText)
    PROVE  PemIInv'
  <1>1. SplitInv'
    BY DEF PemIInv, SplitInv, IsElement
  <1>2. LoadInv'
    BY DEF PemIInv, LoadInv
  <1> QED
    BY <1>1, <1>2 DEF PemIInv

(* A turn of the loop keeps the invariant. *)
LEMMA SplitStepKeeps ==
    ASSUME PemIInv, Pem!SplitStep
    PROVE  PemIInv'
  <1>0. /\ pText \in Seq(Pem!Tokens) /\ Len(pText) \in Nat /\ pPos \in Nat
        /\ pPos \in 0 .. Len(pText) /\ Len(pText) \in pPos .. Len(pText)
        /\ Len(pText) <= PemLength /\ Len(pText) <= Pem!Npos
    <2>1. /\ pText \in Seq(Pem!Tokens) /\ Len(pText) \in Nat /\ pPos \in Nat
          /\ pPos \in 0 .. Len(pText) /\ Len(pText) <= PemLength /\ Len(pText) <= Pem!Npos
      BY TextIsShort
    <2> QED
      BY <2>1
  <1>1. pOutcome = "split" /\ pKind # "single" /\ SplitInv /\ LoadInv
        /\ UNCHANGED <<pKind, pText, pLoaded>>
    BY SplitCases DEF PemIInv, SingleInv
  <1>2. pPos = 0 \/ pText[pPos] = "E"
    BY <1>1 DEF SplitInv
  <1>3. CASE FoundBegin = Pem!Npos /\ pOutcome' = "threw" /\ UNCHANGED <<pPos, pPemList>>
    <2>1. ASSUME Piece(pText, pPos, Len(pText)) # <<>>, Pem!IsListOfPEMs(pText) PROVE FALSE
      <3>1. \E i \in pPos + 1 .. Len(pText) : pText[i] = "B"
        BY <1>0, <1>2, <2>1, ListGoesOn
      <3> QED
        BY <1>3, <3>1, BeginIs
    <2> QED
      BY <1>1, <1>3, <2>1, RefusalKeeps
  <1>4. CASE /\ Pem!FindNoSpace(pText, pPos) = Pem!Npos /\ pOutcome' = "load"
             /\ UNCHANGED <<pPos, pPemList>>
    <2>1. \A i \in pPos + 1 .. Len(pText) : pText[i] = "n"
      BY <1>0, <1>4, FindNoSpaceIs
    <2>2. Piece(pText, pPos, Len(pText)) = <<>>
      BY <1>0, <2>1, PieceEmpty
    <2>3. SplitInv'
      BY <1>1, <1>4 DEF SplitInv, IsElement
    <2>4. LoadInv'
      BY <1>1, <1>4, <2>2 DEF LoadInv
    <2> QED
      BY <1>1, <1>4, <2>3, <2>4 DEF PemIInv
  <1>5. CASE /\ FoundBegin # Pem!Npos /\ ~Pem!OnlySpace(pPos, FoundBegin)
             /\ pOutcome' = "threw" /\ UNCHANGED <<pPos, pPemList>>
    <2>1. /\ FoundBegin \in pPos .. Len(pText) - 1
          /\ \A i \in pPos + 1 .. FoundBegin : pText[i] # "B"
      BY <1>5, BeginIs
    <2>2. FoundBegin \in pPos .. Len(pText)
      BY <1>0, <2>1
    <2>3. Piece(pText, pPos, FoundBegin) # <<>>
      BY <1>0, <1>5, <2>2, PieceEmpty DEF Pem!OnlySpace
    <2>4. ~Pem!IsListOfPEMs(pText)
      BY <1>0, <1>2, <2>1, <2>2, <2>3, ListGoesOn
    <2> QED
      BY <1>1, <1>5, <2>4, RefusalKeeps
  <1>6. CASE /\ FoundBegin # Pem!Npos /\ FoundEnd = Pem!Npos
             /\ pOutcome' = "threw" /\ UNCHANGED <<pPos, pPemList>>
    <2>1. FoundBegin \in pPos .. Len(pText) - 1 /\ pText[FoundBegin + 1] = "B"
      BY <1>6, BeginIs
    <2>2. FoundBegin \in 0 .. Len(pText) - 1
      BY <1>0, <2>1
    <2>3. \A i \in FoundBegin + 2 .. Len(pText) : pText[i] # "E"
      BY <1>6, NoEndIs
    <2>4. ~Pem!IsListOfPEMs(pText)
      BY <1>0, <2>1, <2>2, <2>3, ListIsClosed
    <2> QED
      BY <1>1, <1>6, <2>4, RefusalKeeps
  <1> DEFINE begin == FoundBegin
             end == FoundEnd
             p == FoundPem
  <1>7. ASSUME begin # Pem!Npos, Pem!OnlySpace(pPos, begin), end # Pem!Npos
        PROVE  /\ begin \in pPos .. Len(pText) - 1 /\ pText[begin + 1] = "B"
               /\ end \in begin + 1 .. Len(pText) - 1 /\ pText[end + 1] = "E"
               /\ p \in Seq(Pem!Tokens) /\ ~Occurs("E", p) /\ Len(p) + 2 <= PemLength
               /\ Pem!NoSpace(p) = Piece(pText, begin + 1, end)
               /\ Piece(pText, pPos, begin) = <<>> /\ begin \in Nat /\ end \in Nat
    <2>1. begin \in pPos .. Len(pText) - 1 /\ pText[begin + 1] = "B"
      BY <1>7, BeginIs
    <2>2. /\ end \in begin + 1 .. Len(pText) - 1 /\ pText[end + 1] = "E"
          /\ p \in Seq(Pem!Tokens) /\ ~Occurs("E", p) /\ Len(p) + 2 <= PemLength
          /\ Pem!NoSpace(p) = Piece(pText, begin + 1, end)
      BY <1>7, EndIs
    <2>3. begin \in pPos .. Len(pText) /\ begin \in Nat /\ end \in Nat
      <3> HIDE DEF begin, end
      <3> QED
        BY <1>0, <2>1, <2>2
    <2>4. Piece(pText, pPos, begin) = <<>>
      BY <1>0, <1>7, <2>3, PieceEmpty DEF Pem!OnlySpace
    <2> QED
      BY <2>1, <2>2, <2>3, <2>4
  <1>8. CASE /\ begin # Pem!Npos /\ Pem!OnlySpace(pPos, begin) /\ end # Pem!Npos
             /\ p = <<>> /\ pOutcome' = "threw" /\ UNCHANGED <<pPos, pPemList>>
    <2>1. Piece(pText, begin + 1, end) = <<>>
      BY <1>7, <1>8, NoSpaceSmall
    <2>2. begin \in 0 .. Len(pText) - 1
      <3> HIDE DEF begin, end
      <3> QED
        BY <1>0, <1>7, <1>8
    <2>3. ~Pem!IsListOfPEMs(pText)
      BY <1>0, <1>7, <1>8, <2>1, <2>2, ListIsClosed
    <2> QED
      BY <1>1, <1>8, <2>3, RefusalKeeps
  <1>9. CASE /\ begin # Pem!Npos /\ Pem!OnlySpace(pPos, begin) /\ end # Pem!Npos
             /\ p # <<>> /\ pPemList' = Append(pPemList, Element(p))
             /\ pPos' = end + 1 /\ pOutcome' = pOutcome
    <2>1. /\ begin \in pPos .. Len(pText) - 1 /\ pText[begin + 1] = "B"
          /\ end \in begin + 1 .. Len(pText) - 1 /\ pText[end + 1] = "E"
          /\ p \in Seq(Pem!Tokens) /\ ProperBody(p)
          /\ Pem!NoSpace(p) = Piece(pText, begin + 1, end)
          /\ Piece(pText, pPos, begin) = <<>> /\ begin \in Nat /\ end \in Nat
      BY <1>7, <1>9 DEF ProperBody
    <2> HIDE DEF begin, end, p
    <2>2. /\ begin \in 0 .. Len(pText) - 1 /\ end \in 0 .. Len(pText) - 1
          /\ begin \in 0 .. Len(pText) /\ begin + 1 \in 0 .. Len(pText)
          /\ end \in 0 .. Len(pText) /\ end + 1 \in 0 .. Len(pText) /\ 0 \in 0 .. Len(pText)
          /\ begin \in pPos .. Len(pText) /\ begin + 1 \in begin .. Len(pText)
          /\ end \in begin + 1 .. Len(pText) /\ end + 1 \in end .. Len(pText)
          /\ end + 1 \in begin + 1 .. Len(pText) /\ end + 1 \in begin .. Len(pText)
          /\ end + 1 \in pPos .. Len(pText)
      BY <1>0, <2>1
    <2>3. /\ pPemList \in Seq(Seq(Pem!Tokens))
          /\ \A i \in 1 .. Len(pPemList) : IsElement(pPemList[i])
          /\ Pem!NoSpace(Pem!FlattenSeq(pPemList)) = Piece(pText, 0, pPos)
      BY <1>1 DEF SplitInv
    <2>4. Element(p) \in Seq(Pem!Tokens)
      BY <2>1, ElementIs
    <2>5. /\ pPemList' \in Seq(Seq(Pem!Tokens)) /\ Len(pPemList) \in Nat
          /\ Len(pPemList') = Len(pPemList) + 1
          /\ \A i \in 1 .. Len(pPemList) : pPemList'[i] = pPemList[i]
          /\ pPemList'[Len(pPemList) + 1] = Element(p)
      BY <1>9, <2>3, <2>4, AppendProperties, LenProperties
    <2>e. IsElement(Element(p))
      <3>1. ASSUME Occurs("B", p) PROVE ~Pem!IsListOfPEMs(pText)
        <4>1. Occurs("B", Piece(pText, begin + 1, end))
          BY <2>1, <3>1, NoSpaceElements, TokensAre
        <4>2. PICK j \in (begin + 1) + 1 .. end : pText[j] = "B"
          BY <1>0, <2>2, <4>1, PieceOccurs, TokensAre
        <4>3. ~Occurs("E", Piece(pText, begin + 1, end))
          BY <2>1, NoSpaceElements, TokensAre DEF ProperBody
        <4>4. \A i \in (begin + 1) + 1 .. end : pText[i] # "E"
          BY <1>0, <2>2, <4>3, PieceKeeps, TokensAre
        <4>5. /\ j - 1 \in begin + 1 .. Len(pText) - 1 /\ (j - 1) + 1 = j
              /\ \A i \in begin + 2 .. j - 1 : i \in (begin + 1) + 1 .. end
          BY <1>0, <2>1, <4>2
        <4>6. \A i \in begin + 2 .. j - 1 : pText[i] # "E"
          BY <4>4, <4>5
        <4>7. pText[(j - 1) + 1] = "B"
          BY <4>2, <4>5
        <4> QED
          BY <1>0, <2>1, <2>2, <4>5, <4>6, <4>7, NestedIsNoList
      <3> QED
        BY <2>1, <3>1 DEF IsElement
    <2>6. ASSUME NEW i \in 1 .. Len(pPemList') PROVE IsElement(pPemList'[i])
      <3>1. i \in 1 .. Len(pPemList) \/ i = Len(pPemList) + 1
        BY <2>5
      <3> QED
        BY <2>3, <2>5, <2>e, <3>1
    <2>7. Piece(pText, 0, end + 1)
             = Piece(pText, 0, pPos) \o ((<<"B">> \o Pem!NoSpace(p)) \o <<"E">>)
      <3> DEFINE A == Piece(pText, 0, pPos)
                 P == Pem!NoSpace(p)
      <3>1. A \in Seq(Pem!Tokens) /\ P \in Seq(Pem!Tokens)
            /\ <<"B">> \in Seq(Pem!Tokens) /\ <<"E">> \in Seq(Pem!Tokens)
        BY <1>0, <2>1, <2>2, PieceSplit, ElementLeaves, TokensAre
      <3>2. Piece(pText, begin, begin + 1) = <<"B">> /\ Piece(pText, end, end + 1) = <<"E">>
        BY <1>0, <2>1, <2>2, PieceOne
      <3>3. Piece(pText, 0, end + 1) = A \o Piece(pText, pPos, end + 1)
        BY <1>0, <2>2, PieceSplit
      <3>4. /\ Piece(pText, pPos, end + 1) = Piece(pText, pPos, begin) \o Piece(pText, begin, end + 1)
            /\ Piece(pText, begin, end + 1) \in Seq(Pem!Tokens)
        BY <1>0, <2>2, PieceSplit
      <3>5. Piece(pText, begin, end + 1)
                = Piece(pText, begin, begin + 1) \o Piece(pText, begin + 1, end + 1)
        BY <1>0, <2>2, PieceSplit
      <3>6. Piece(pText, begin + 1, end + 1)
                = Piece(pText, begin + 1, end) \o Piece(pText, end, end + 1)
        BY <1>0, <2>2, PieceSplit
      <3>7. Piece(pText, pPos, end + 1) = Piece(pText, begin, end + 1)
        <4>1. <<>> \o Piece(pText, begin, end + 1) = Piece(pText, begin, end + 1)
          BY <3>4, ConcatEmptySeq
        <4> QED
          BY <2>1, <3>4, <4>1, Zenon
      <3>8. Piece(pText, begin, end + 1) = <<"B">> \o (P \o <<"E">>)
        BY <2>1, <3>2, <3>5, <3>6, Zenon
      <3> HIDE DEF A, P
      <3>9. <<"B">> \o (P \o <<"E">>) = (<<"B">> \o P) \o <<"E">>
        BY <3>1, ConcatAssociative
      <3>10. Piece(pText, 0, end + 1) = A \o ((<<"B">> \o P) \o <<"E">>)
        BY <3>3, <3>7, <3>8, <3>9, Zenon
      <3> QED
        BY <3>10, Zenon DEF A, P
    <2>8. Pem!NoSpace(Pem!FlattenSeq(pPemList')) = Piece(pText, 0, end + 1)
      <3> DEFINE F == Pem!FlattenSeq(pPemList)
                 e == Element(p)
      <3>1. F \in Seq(Pem!Tokens) /\ Pem!FlattenSeq(pPemList') = F \o e
        BY <1>9, <2>3, <2>4, FlattenAppend
      <3>2. Pem!NoSpace(F \o e) = Pem!NoSpace(F) \o Pem!NoSpace(e)
        <4> HIDE DEF F
        <4> QED
          BY <2>4, <3>1, NoSpaceConcat
      <3>3. Pem!NoSpace(e) = <<"B">> \o Pem!NoSpace(p) \o <<"E">>
        BY <2>1, ElementLeaves
      <3> QED
        BY <2>3, <2>7, <3>1, <3>2, <3>3, Zenon
    <2>9. SplitInv'
      <3>1. pText'[pPos'] = "E" /\ pOutcome' # "threw"
        BY <1>1, <1>9, <2>1
      <3>2. Pem!NoSpace(Pem!FlattenSeq(pPemList')) = Piece(pText', 0, pPos')
        BY <1>1, <1>9, <2>8
      <3>3. (\A i \in 1 .. Len(pPemList) : IsElement(pPemList[i]))'
        BY <1>1, <2>6 DEF IsElement
      <3> QED
        BY <2>5, <3>1, <3>2, <3>3 DEF SplitInv
    <2>10. LoadInv'
      <3>1. pLoaded' = <<>> /\ Len(<<>>) = 0 /\ <<>> \in Seq(Seq(Pem!Tokens))
        BY <1>1, EmptySeq DEF LoadInv
      <3>2. InMarkers(<<>>) = <<>>
        BY DEF InMarkers
      <3>3. SubSeq(pPemList', 1, Len(pLoaded')) = <<>>
        <4>1. SubSeq(pPemList', 1, 0) = <<>>
          BY SubSeqEmpty
        <4> QED
          BY <3>1, <4>1
      <3>4. Pem!NoSpace(Pem!FlattenSeq(<<>>)) = <<>> /\ Pem!FlattenSeq(<<>>) = <<>>
        BY FlattenSmall, NoSpaceSmall
      <3>5. Pem!FlattenSeq(InMarkers(pLoaded'))
               = Pem!NoSpace(Pem!FlattenSeq(SubSeq(pPemList', 1, Len(pLoaded'))))
        BY <3>1, <3>2, <3>3, <3>4, Zenon
      <3>6. Len(pLoaded') <= Len(pPemList') /\ pLoaded' \in Seq(Seq(Pem!Tokens))
            /\ \A i \in 1 .. Len(pLoaded') : FALSE
        BY <2>5, <3>1
      <3> QED
        BY <1>1, <1>9, <3>1, <3>5, <3>6 DEF LoadInv
    <2>11. pPos' \in 0 .. Len(pText')
      BY <1>1, <1>9, <2>2
    <2> QED
      BY <1>0, <1>1, <1>9, <2>9, <2>10, <2>11 DEF PemIInv
  <1> QED
    BY <1>3, <1>4, <1>5, <1>6, <1>8, <1>9, SplitCases

(* fromPEM() of a proper element reads its first content, or refuses it. *)
LEMMA FromPEMIs ==
    ASSUME NEW m \in Seq(Pem!Tokens), ProperBody(m)
    PROVE  \A c \in Pem!FromPEM(Element(m)) :
              c = Pem!UpToMarker(Pem!NoSpace(m)) /\ c # <<>>
  <1>1. CASE pKind = "crls"
    <2>1. Pem!FromPEM(Element(m)) = Pem!ReadPem(Element(m))
      BY <1>1 DEF Pem!FromPEM
    <2> QED
      BY <2>1, ReadPemIs DEF ProperBody
  <1>2. CASE pKind # "crls"
    <2> DEFINE b == Pem!NoSpace(m)
               lines == Pem!SplitLines(b)
    <2>1. Pem!FromPEM(Element(m)) = Pem!ReadPem(Element(lines))
      BY <1>2, ReformatIs DEF Pem!FromPEM, ProperBody
    <2>2. b \in Seq(Pem!Tokens) /\ ~Occurs("n", b) /\ ~Occurs("E", b)
      BY SpacelessIs, NoSpaceElements, TokensAre DEF ProperBody
    <2>3. lines \in Seq(Pem!Tokens) /\ Pem!NoSpace(lines) = b
      <3> HIDE DEF b
      <3> QED
        BY <2>2, SplitLinesIs
    <2> HIDE DEF lines
    <2>4. ~Occurs("E", lines)
      <3>1. Occurs("E", Pem!NoSpace(lines)) <=> Occurs("E", lines)
        BY <2>3, NoSpaceElements, TokensAre
      <3> QED
        BY <2>2, <2>3, <3>1
    <2>5. \A c \in Pem!ReadPem(Element(lines)) :
              c = Pem!UpToMarker(Pem!NoSpace(lines)) /\ c # <<>>
      BY <2>3, <2>4, ReadPemIs
    <2> QED
      BY <2>1, <2>3, <2>5
  <1> QED
    BY <1>1, <1>2

(* Reading one more element keeps the invariant. *)
LEMMA LoadStepKeeps ==
    ASSUME PemIInv, Pem!LoadStep
    PROVE  PemIInv'
  <1>0. pOutcome = "load" /\ Len(pLoaded) < Len(pPemList)
        /\ UNCHANGED <<pKind, pText, pPos, pPemList>>
    BY DEF Pem!LoadStep
  <1>1. CASE pKind = "single"
    <2>1. SingleInv
      BY <1>1 DEF PemIInv
    <2>2. pLoaded = <<>>
      <3>1. ASSUME NEW c, pLoaded = <<c>> PROVE FALSE
        <4>1. Len(<<c>>) = 1
          OBVIOUS
        <4> QED
          BY <1>0, <2>1, <3>1, <4>1 DEF SingleInv
      <3> QED
        BY <2>1, <3>1 DEF SingleInv
    <2>3. pLoaded' = pLoaded \/ \E c : pLoaded' = <<c>>
      <3>1. pLoaded' = pLoaded \/ \E c : pLoaded' = Append(pLoaded, c)
        BY Zenon DEF Pem!LoadStep
      <3>2. \A c : Append(<<>>, c) = <<c>>
        OBVIOUS
      <3> QED
        BY <2>2, <3>1, <3>2
    <2>4. pOutcome' \in {"load", "threw"}
      BY <1>0 DEF Pem!LoadStep
    <2>5. SingleInv'
      BY <1>0, <2>1, <2>2, <2>3, <2>4 DEF SingleInv
    <2> QED
      BY <1>0, <1>1, <2>4, <2>5 DEF PemIInv
  <1>2. CASE pKind # "single"
    <2>0. SplitInv /\ LoadInv
      BY <1>2 DEF PemIInv
    <2>1. CASE pOutcome' = "threw" /\ UNCHANGED pLoaded
      <3>1. Piece(pText, pPos, Len(pText)) = <<>>
        BY <1>0, <2>0 DEF LoadInv
      <3> QED
        BY <1>0, <1>2, <2>1, <3>1, RefusalKeeps
    <2>2. CASE /\ \E content \in Pem!FromPEM(pPemList[Len(pLoaded) + 1]) :
                     pLoaded' = Append(pLoaded, content)
               /\ UNCHANGED pOutcome
      <3> DEFINE k == Len(pLoaded)
                 A == SubSeq(pPemList, 1, k)
      <3>1. /\ pPemList \in Seq(Seq(Pem!Tokens)) /\ Len(pPemList) \in Nat
            /\ pLoaded \in Seq(Seq(Pem!Tokens)) /\ k \in Nat
            /\ k + 1 \in 1 .. Len(pPemList) /\ k + 1 \in 1 .. k + 1
            /\ \A i \in 1 .. k : Pem!IsFirstContent(pLoaded[i], Pem!NoSpace(pPemList[i]))
            /\ Pem!IsListOfPEMs(pText) =>
                  Pem!FlattenSeq(InMarkers(pLoaded)) = Pem!NoSpace(Pem!FlattenSeq(A))
        <4>1. /\ pPemList \in Seq(Seq(Pem!Tokens)) /\ pLoaded \in Seq(Seq(Pem!Tokens))
              /\ \A i \in 1 .. k : Pem!IsFirstContent(pLoaded[i], Pem!NoSpace(pPemList[i]))
              /\ Pem!IsListOfPEMs(pText) =>
                    Pem!FlattenSeq(InMarkers(pLoaded)) = Pem!NoSpace(Pem!FlattenSeq(A))
          BY <2>0 DEF SplitInv, LoadInv
        <4>2. Len(pPemList) \in Nat /\ k \in Nat
          BY <4>1, LenProperties
        <4>3. k + 1 \in 1 .. Len(pPemList) /\ k + 1 \in 1 .. k + 1
          BY <1>0, <4>2
        <4> QED
          BY <4>1, <4>2, <4>3
      <3>2. PICK m \in Seq(Pem!Tokens) :
                    /\ ProperBody(m) /\ pPemList[k + 1] = Element(m)
                    /\ Pem!IsListOfPEMs(pText) => ~Occurs("B", m)
        BY <2>0, <3>1 DEF SplitInv, IsElement
      <3>3. PICK c \in Pem!FromPEM(Element(m)) : pLoaded' = Append(pLoaded, c)
        BY <2>2, <3>2
      <3>c. c = Pem!UpToMarker(Pem!NoSpace(m)) /\ c # <<>>
        BY <3>2, <3>3, FromPEMIs
      <3>4. /\ c \in Seq(Pem!Tokens) /\ Element(m) \in Seq(Pem!Tokens)
            /\ Pem!IsFirstContent(c, Pem!NoSpace(Element(m)))
            /\ Pem!IsListOfPEMs(pText) =>
                  Pem!NoSpace(Element(m)) = <<"B">> \o c \o <<"E">>
        <4>1. /\ c \in Seq(Pem!Tokens) /\ Pem!IsFirstContent(c, Pem!NoSpace(Element(m)))
              /\ ~Occurs("B", m) => c = Pem!NoSpace(m)
          BY <3>2, <3>c, FirstContentIs DEF ProperBody
        <4>2. /\ Element(m) \in Seq(Pem!Tokens)
              /\ Pem!NoSpace(Element(m)) = <<"B">> \o Pem!NoSpace(m) \o <<"E">>
          BY ElementLeaves, ElementIs
        <4> QED
          BY <3>2, <4>1, <4>2
      <3>5. /\ pLoaded' \in Seq(Seq(Pem!Tokens)) /\ Len(pLoaded') = k + 1
            /\ \A i \in 1 .. k : pLoaded'[i] = pLoaded[i]
            /\ pLoaded'[k + 1] = c
        BY <3>1, <3>3, <3>4, AppendProperties
      <3>f. ASSUME NEW i \in 1 .. k + 1
            PROVE  Pem!IsFirstContent(pLoaded'[i], Pem!NoSpace(pPemList[i]))
        <4>1. i \in 1 .. k \/ i = k + 1
          BY <3>1
        <4> QED
          BY <3>1, <3>2, <3>4, <3>5, <4>1
      <3>6. SubSeq(pPemList, 1, k + 1) = Append(A, Element(m)) /\ A \in Seq(Seq(Pem!Tokens))
        <4>1. SubSeq(pPemList, 1, k + 1) = SubSeq(pPemList, 1, (k + 1) - 1) \o <<pPemList[k + 1]>>
          <5>1. 1 \in 1 .. Len(pPemList)
            BY <3>1
          <5> QED
            BY <3>1, <5>1, SubSeqRecursiveSecond
        <4>2. (k + 1) - 1 = k
          BY <3>1
        <4>3. A \in Seq(Seq(Pem!Tokens))
          <5>1. \A i \in 1 .. Len(pPemList) : pPemList[i] \in Seq(Pem!Tokens)
            BY <3>1, ElementOfSeq
          <5>2. \A i \in 1 .. k : pPemList[i] \in Seq(Pem!Tokens)
            BY <3>1, <5>1
          <5>3. 1 \in Int /\ k \in Int
            BY <3>1
          <5> QED
            BY <5>2, <5>3, SubSeqProperties
        <4>4. SubSeq(pPemList, 1, k + 1) = A \o <<Element(m)>>
          BY <3>2, <4>1, <4>2
        <4> HIDE DEF A
        <4>5. Append(A, Element(m)) = A \o <<Element(m)>>
          BY <3>4, <4>3, AppendIsConcat
        <4> QED
          BY <4>3, <4>4, <4>5
      <3> HIDE DEF A, k
      <3>7. Pem!FlattenSeq(InMarkers(pLoaded'))
               = Pem!FlattenSeq(InMarkers(pLoaded)) \o (<<"B">> \o c \o <<"E">>)
        <4>1. /\ InMarkers(pLoaded) \in Seq(Seq(Pem!Tokens))
              /\ <<"B">> \o c \o <<"E">> \in Seq(Pem!Tokens)
              /\ InMarkers(Append(pLoaded, c)) = Append(InMarkers(pLoaded), <<"B">> \o c \o <<"E">>)
          BY <3>1, <3>4, InMarkersAppend
        <4> DEFINE w == InMarkers(pLoaded)
                   d == <<"B">> \o c \o <<"E">>
        <4> HIDE DEF w, d
        <4>2. Pem!FlattenSeq(Append(w, d)) = Pem!FlattenSeq(w) \o d
          BY <4>1, FlattenAppend DEF w, d
        <4> QED
          BY <3>3, <4>1, <4>2 DEF w, d
      <3>8. ASSUME Pem!IsListOfPEMs(pText)
            PROVE  Pem!NoSpace(Pem!FlattenSeq(Append(A, Element(m))))
                      = Pem!NoSpace(Pem!FlattenSeq(A)) \o (<<"B">> \o c \o <<"E">>)
        <4>1. Pem!FlattenSeq(A) \in Seq(Pem!Tokens)
              /\ Pem!FlattenSeq(Append(A, Element(m))) = Pem!FlattenSeq(A) \o Element(m)
          BY <3>4, <3>6, FlattenAppend
        <4>2. Pem!NoSpace(Pem!FlattenSeq(A) \o Element(m))
                 = Pem!NoSpace(Pem!FlattenSeq(A)) \o Pem!NoSpace(Element(m))
          BY <3>4, <4>1, NoSpaceConcat
        <4> QED
          BY <3>4, <3>8, <4>1, <4>2, Zenon
      <3>9. ASSUME Pem!IsListOfPEMs(pText)
            PROVE  Pem!FlattenSeq(InMarkers(pLoaded'))
                      = Pem!NoSpace(Pem!FlattenSeq(SubSeq(pPemList', 1, Len(pLoaded'))))
        <4>1. SubSeq(pPemList', 1, Len(pLoaded')) = Append(A, Element(m))
          BY <1>0, <3>5, <3>6
        <4> QED
          BY <3>1, <3>7, <3>8, <3>9, <4>1, Zenon
      <3>10. SplitInv'
        BY <1>0, <2>0, <2>2 DEF SplitInv, IsElement
      <3>11. LoadInv'
        <4>1. Len(pLoaded') <= Len(pPemList')
          BY <1>0, <3>1, <3>5
        <4>2. \A i \in 1 .. Len(pLoaded') :
                 Pem!IsFirstContent(pLoaded'[i], Pem!NoSpace(pPemList'[i]))
          BY <1>0, <3>5, <3>f
        <4>3. Pem!IsListOfPEMs(pText') =>
                 Pem!FlattenSeq(InMarkers(pLoaded'))
                    = Pem!NoSpace(Pem!FlattenSeq(SubSeq(pPemList', 1, Len(pLoaded'))))
          BY <1>0, <3>9
        <4> QED
          BY <1>0, <2>0, <2>2, <3>5, <4>1, <4>2, <4>3 DEF LoadInv
      <3> QED
        BY <1>0, <1>2, <2>2, <3>10, <3>11 DEF PemIInv
    <2> QED
      BY <2>1, <2>2 DEF Pem!LoadStep
  <1> QED
    BY <1>1, <1>2

(* Every step keeps the invariant. *)
LEMMA PemStep == PemIInv /\ [Pem!Next]_(Pem!vars) => PemIInv'
  <1> SUFFICES ASSUME PemIInv, [Pem!Next]_(Pem!vars) PROVE PemIInv'
    OBVIOUS
  <1>1. CASE UNCHANGED Pem!vars
    <2>1. pKind' = pKind /\ pText' = pText /\ pPos' = pPos /\ pPemList' = pPemList
          /\ pLoaded' = pLoaded /\ pOutcome' = pOutcome
      BY <1>1 DEF Pem!vars
    <2>2. (SingleInv => SingleInv') /\ (SplitInv => SplitInv') /\ (LoadInv => LoadInv')
      <3>1. SingleInv => SingleInv'
        BY <2>1 DEF SingleInv
      <3>2. SplitInv => SplitInv'
        BY <2>1 DEF SplitInv, IsElement
      <3>3. LoadInv => LoadInv'
        BY <2>1 DEF LoadInv
      <3> QED
        BY <3>1, <3>2, <3>3
    <2> QED
      BY <2>1, <2>2 DEF PemIInv
  <1>2. CASE Pem!SplitEnd
    <2>1. pOutcome = "split" /\ pPos >= Len(pText) /\ pOutcome' = "load"
          /\ UNCHANGED <<pKind, pText, pPos, pPemList, pLoaded>>
      BY <1>2 DEF Pem!SplitEnd
    <2>2. pKind # "single" /\ SplitInv /\ LoadInv
      BY <2>1 DEF PemIInv, SingleInv
    <2>3. Piece(pText, pPos, Len(pText)) = <<>>
      <3>1. /\ pText \in Seq(Pem!Tokens) /\ Len(pText) \in Nat
            /\ pPos \in Nat /\ pPos <= Len(pText) /\ pPos \in 0 .. Len(pText)
        BY TextIsShort
      <3>2. Len(pText) \in pPos .. Len(pText) /\ \A i \in pPos + 1 .. Len(pText) : FALSE
        BY <2>1, <3>1
      <3> QED
        BY <3>1, <3>2, PieceEmpty
    <2>4. SplitInv'
      BY <2>1, <2>2 DEF SplitInv, IsElement
    <2>5. LoadInv'
      BY <2>1, <2>2, <2>3 DEF LoadInv
    <2> QED
      BY <2>1, <2>2, <2>4, <2>5 DEF PemIInv
  <1>3. CASE Pem!LoadEnd
    <2>1. pOutcome = "load" /\ Len(pLoaded) = Len(pPemList) /\ pOutcome' = "returned"
          /\ UNCHANGED <<pKind, pText, pPos, pPemList, pLoaded>>
      BY <1>3 DEF Pem!LoadEnd
    <2>2. SingleInv => SingleInv'
      BY <2>1 DEF SingleInv
    <2>3. SplitInv => SplitInv'
      BY <2>1 DEF SplitInv, IsElement
    <2>4. LoadInv => LoadInv'
      BY <2>1 DEF LoadInv
    <2> QED
      BY <2>1, <2>2, <2>3, <2>4 DEF PemIInv
  <1>4. CASE Pem!Done
    BY <1>1, <1>4 DEF Pem!Done
  <1> QED
    BY <1>1, <1>2, <1>3, <1>4, SplitStepKeeps, LoadStepKeeps DEF Pem!Next

(* The invariant holds in every behaviour of the loaders. *)
LEMMA PemInvariance == Pem!Init /\ [][Pem!Next]_(Pem!vars) => []PemIInv
BY PemStart, PemStep, PTL

(* The invariant implies what the run checks. *)
LEMMA PemIInvSuffices == PemIInv => ChainsAreLoadedWhole
  <1> SUFFICES ASSUME PemIInv PROVE ChainsAreLoadedWhole
    OBVIOUS
  <1>0. /\ pText \in Seq(Pem!Tokens) /\ Len(pText) \in Nat
        /\ pPos \in Nat /\ pPos <= Len(pText) /\ pPos \in 0 .. Len(pText)
    BY TextIsShort
  <1>s. 0 \in 0 .. Len(pText) /\ Len(pText) \in pPos .. Len(pText)
    BY <1>0
  <1>1. Pem!TypeOK
    <2>1. CASE pKind = "single"
      <3>1. Len(pPemList) = 1 /\ (pLoaded = <<>> \/ \E c : pLoaded = <<c>>)
        BY <2>1 DEF PemIInv, SingleInv
      <3>2. Len(<<>>) = 0 /\ \A c : Len(<<c>>) = 1
        OBVIOUS
      <3>3. Len(pLoaded) \in {0, 1}
        <4>1. CASE pLoaded = <<>>
          BY <3>2, <4>1
        <4>2. ASSUME NEW c, pLoaded = <<c>> PROVE Len(pLoaded) \in {0, 1}
          BY <3>2, <4>2, Zenon
        <4> QED
          BY <3>1, <4>1, <4>2
      <3>4. Len(pLoaded) <= Len(pPemList)
        <4> DEFINE a == Len(pLoaded)
                   b == Len(pPemList)
        <4>1. b = 1 /\ a \in {0, 1}
          BY <3>1, <3>3, Zenon
        <4> HIDE DEF a, b
        <4>2. a <= b
          BY <4>1
        <4> QED
          BY <4>2 DEF a, b
      <3> QED
        BY <1>0, <2>1, <3>4 DEF Pem!TypeOK
    <2>2. CASE pKind # "single"
      <3>1. SplitInv /\ LoadInv
        BY <2>2 DEF PemIInv
      <3>2. pPemList \in Seq(Seq(Pem!Tokens)) /\ DOMAIN pPemList = 1 .. Len(pPemList)
        BY <3>1, LenProperties DEF SplitInv
      <3>3. ASSUME NEW i \in DOMAIN pPemList
            PROVE  /\ Len(pPemList[i]) > 4
                   /\ SubSeq(pPemList[i], 1, 2) = <<"B", "n">>
                   /\ SubSeq(pPemList[i], Len(pPemList[i]) - 1, Len(pPemList[i])) = <<"n", "E">>
        <4>1. PICK m \in Seq(Pem!Tokens) : ProperBody(m) /\ pPemList[i] = Element(m)
          BY <3>1, <3>2 DEF SplitInv, IsElement
        <4> DEFINE e == Element(m)
                   k == Len(m)
        <4>2. /\ e \in Seq(Pem!Tokens) /\ k \in Nat /\ Len(e) = k + 4 /\ e[1] = "B"
              /\ e[2] = "n" /\ e[k + 3] = "n" /\ e[k + 4] = "E"
          BY ElementIs
        <4>3. k >= 1
          BY <4>1, FirstOccurs DEF ProperBody
        <4> HIDE DEF e, k
        <4>4. SubSeq(e, 1, 2) = <<"B", "n">>
          <5> DEFINE u == SubSeq(e, 0 + 1, 2)
          <5>1. 0 \in 0 .. Len(e) /\ 2 \in 0 .. Len(e) /\ 2 - 0 = 2
            BY <4>2
          <5>2. u \in Seq(Pem!Tokens) /\ Len(u) = 2 /\ \A j \in 1 .. 2 : u[j] = e[0 + j]
            BY <4>2, <5>1, SliceIs
          <5> HIDE DEF u
          <5>3. u[1] = "B" /\ u[2] = "n"
            BY <4>2, <5>2
          <5>4. u = <<"B", "n">>
            BY <5>2, <5>3
          <5> QED
            BY <5>4 DEF u
        <4>5. SubSeq(e, Len(e) - 1, Len(e)) = <<"n", "E">>
          <5> DEFINE u == SubSeq(e, (k + 2) + 1, k + 4)
          <5>1. /\ k + 2 \in 0 .. Len(e) /\ k + 4 \in k + 2 .. Len(e) /\ (k + 4) - (k + 2) = 2
                /\ (k + 2) + 1 = k + 3 /\ (k + 2) + 2 = k + 4 /\ Len(e) - 1 = k + 3
            BY <4>2
          <5>2. u \in Seq(Pem!Tokens) /\ Len(u) = 2 /\ \A j \in 1 .. 2 : u[j] = e[(k + 2) + j]
            BY <4>2, <5>1, SliceIs
          <5> HIDE DEF u
          <5>3. u[1] = "n" /\ u[2] = "E"
            BY <4>2, <5>1, <5>2
          <5>4. u = <<"n", "E">>
            BY <5>2, <5>3
          <5> QED
            BY <4>2, <5>1, <5>4 DEF u
        <4>6. Len(e) > 4
          BY <4>2, <4>3
        <4> QED
          BY <4>1, <4>4, <4>5, <4>6 DEF e
      <3> QED
        BY <1>0, <3>1, <3>3 DEF Pem!TypeOK, LoadInv
    <2> QED
      BY <2>1, <2>2
  <1>2. ASSUME pKind # "single", pOutcome \in {"load", "returned"}
        PROVE  Pem!NoSpace(Pem!FlattenSeq(pPemList)) = Pem!NoSpace(pText)
    <2>1. /\ Pem!NoSpace(Pem!FlattenSeq(pPemList)) = Piece(pText, 0, pPos)
          /\ Piece(pText, pPos, Len(pText)) = <<>>
      BY <1>2 DEF PemIInv, SplitInv, LoadInv
    <2>2. Piece(pText, 0, Len(pText)) = Piece(pText, 0, pPos) \o Piece(pText, pPos, Len(pText))
          /\ Piece(pText, 0, pPos) \in Seq(Pem!Tokens)
      BY <1>0, <1>s, PieceSplit
    <2>3. Piece(pText, 0, pPos) \o <<>> = Piece(pText, 0, pPos)
      BY <2>2, ConcatEmptySeq
    <2>4. Piece(pText, 0, Len(pText)) = Pem!NoSpace(pText)
      BY <1>0, PieceWhole
    <2> QED
      BY <2>1, <2>2, <2>3, <2>4, Zenon
  <1>3. Pem!SplitKeepsContent
    BY <1>2 DEF Pem!SplitKeepsContent
  <1>4. Pem!ListsAreSplit
    <2> SUFFICES ASSUME pKind # "single", Pem!IsListOfPEMs(pText), pOutcome = "threw"
                 PROVE  Pem!OnlySpace(pPos, Len(pText))
      BY DEF Pem!ListsAreSplit
    <2>1. Piece(pText, pPos, Len(pText)) = <<>>
      BY DEF PemIInv, SplitInv
    <2> QED
      BY <1>0, <1>s, <2>1, PieceEmpty DEF Pem!OnlySpace
  <1>5. Pem!LoadedIsTheChain
    <2> SUFFICES ASSUME pKind # "single", pOutcome = "returned"
                 PROVE  /\ Len(pLoaded) = Len(pPemList)
                        /\ \A i \in DOMAIN pLoaded :
                              Pem!IsFirstContent(pLoaded[i], Pem!NoSpace(pPemList[i]))
                        /\ Pem!IsListOfPEMs(pText) =>
                              Pem!FlattenSeq(InMarkers(pLoaded)) = Pem!NoSpace(pText)
      BY DEF Pem!LoadedIsTheChain, InMarkers
    <2>1. /\ Len(pLoaded) = Len(pPemList) /\ pPemList \in Seq(Seq(Pem!Tokens))
          /\ pLoaded \in Seq(Seq(Pem!Tokens))
          /\ \A i \in 1 .. Len(pLoaded) :
                Pem!IsFirstContent(pLoaded[i], Pem!NoSpace(pPemList[i]))
          /\ Pem!IsListOfPEMs(pText) =>
                Pem!FlattenSeq(InMarkers(pLoaded))
                    = Pem!NoSpace(Pem!FlattenSeq(SubSeq(pPemList, 1, Len(pLoaded))))
      BY DEF PemIInv, SplitInv, LoadInv
    <2>2. SubSeq(pPemList, 1, Len(pPemList)) = pPemList /\ DOMAIN pLoaded = 1 .. Len(pLoaded)
      BY <2>1, SubSeqFull, LenProperties
    <2>3. Pem!IsListOfPEMs(pText) => Pem!FlattenSeq(InMarkers(pLoaded)) = Pem!NoSpace(pText)
      BY <1>2, <2>1, <2>2
    <2> QED
      BY <2>1, <2>2, <2>3
  <1> QED
    BY <1>1, <1>3, <1>4, <1>5 DEF ChainsAreLoadedWhole

-----------------------------------------------------------------------------
(* A behaviour of the run is one of every part. *)
LEMMA PartsRun ==
    MCSpec => /\ Hex!Spec
              /\ BioObject!Init /\ [][BioObject!Next]_(BioObject!vars)
              /\ Pem!Init /\ [][Pem!Next]_(Pem!vars)
  <1>1. MCInit => BioObject!Init
    BY DEF MCInit
  <1>2. MCInit => Hex!Init
    <2>1. <<>> \in Hex!BoundedSeq(Octets, HexLength)
      <3>1. <<>> \in [1 .. 0 -> Octets] /\ 0 \in 0 .. HexLength
        BY EncodingsAssumption DEF Hex!HexAssumption
      <3> QED
        BY <3>1 DEF Hex!BoundedSeq, Hex!SeqOf
    <2> QED
      BY <2>1 DEF MCInit, Hex!Init
  <1>3. [MCNext]_mcvars => [BioObject!Next]_(BioObject!vars)
    BY DEF MCNext, mcvars, bioVars, BioObject!vars, Bio, PemText
  <1>4. [MCNext]_mcvars => [Hex!Next]_(Hex!vars)
    BY DEF MCNext, mcvars, hexVars, Hex!vars, Bio, PemText
  <1>5. MCInit => Pem!Init
    <2> SUFFICES ASSUME MCInit, part # "pem" PROVE Pem!Init
      BY DEF MCInit
    <2>1. pKind = "single" /\ pText = <<>> /\ pPos = 0 /\ pPemList = <<pText>>
          /\ pLoaded = <<>> /\ pOutcome = "load"
      BY DEF MCInit
    <2>2. <<>> \in [1 .. 0 -> Pem!Tokens] /\ 0 \in 0 .. PemLength
      BY NposIsBeyond
    <2> QED
      BY <2>1, <2>2 DEF Pem!Init
  <1>6. [MCNext]_mcvars => [Pem!Next]_(Pem!vars)
    BY DEF MCNext, mcvars, pemVars, Pem!vars, Bio, PemText
  <1> QED
    BY <1>1, <1>2, <1>3, <1>4, <1>5, <1>6, PTL DEF MCSpec, Hex!Spec

(* toHex() and fromHex() of data and strings of any length: reading back   *)
(* gives the data, a string of digits means its bytes, and a letter that   *)
(* is no digit is refused wherever it stands.                              *)
THEOREM HexMeansBytes == MCSpec => []HexMeansItsBytes
BY PartsRun, HexInvariance, HexIInvSuffices, PTL

(* A memory BIO is a queue of bytes: what goes in comes out once and in    *)
(* order, a flush of either kind takes all there is, and a                 *)
(* write(std::vector) that returned has put all of its bytes in - for      *)
(* every size of the buffer and every place of the line feeds.             *)
THEOREM BioIsQueue == MCSpec => BioKeepsBytes
  <1>1. BioObject!Init /\ [][BioObject!Next]_(BioObject!vars) => []BioObject!TypeOK
    BY BioStart, BioStep, PTL
  <1>2. BioObject!TypeOK /\ [BioObject!Next]_(BioObject!vars) =>
            [\A n \in 1 .. MaxBytes :
                BioObject!WriteVector(n) /\ ~bException' => bWritten' = bWritten + n]_(BioObject!vars)
    BY VectorArrives
  <1>3. []BioObject!TypeOK /\ [][BioObject!Next]_(BioObject!vars) => BioObject!VectorWritesArrive
    BY <1>2, PTL DEF BioObject!VectorWritesArrive
  <1>4. BioObject!TypeOK /\ [BioObject!Next]_(BioObject!vars) =>
            [bType = "MEM" /\ bPhase # "idle" /\ bPhase' = "idle" => bContent' = <<>>]_(BioObject!vars)
    BY LoopEmpties
  <1>5. []BioObject!TypeOK /\ [][BioObject!Next]_(BioObject!vars) => BioObject!FlushTakesAll
    BY <1>4, PTL DEF BioObject!FlushTakesAll
  <1>6. BioObject!Init /\ []BioObject!TypeOK /\ [][BioObject!Next]_(BioObject!vars)
            => BioObject!RefinesByteStream
    BY BioStart, BioStep, PTL DEF BioObject!RefinesByteStream, BioObject!Queue!StreamSpec
  <1> QED
    BY <1>1, <1>3, <1>5, <1>6, PartsRun DEF BioKeepsBytes

(* loadPEMChain() and loadCrlPEMChain() of a text of any length: no        *)
(* position beyond the text, no list of PEMs refused, nothing but white    *)
(* space lost by the splitting, one object for every element with the      *)
(* first content of that element, and all contents in order if the text is *)
(* a list of PEMs - for every length of a reformatted line.                *)
THEOREM ChainsLoadedWhole == MCSpec => []ChainsAreLoadedWhole
BY PartsRun, PemInvariance, PemIInvSuffices, PTL
=============================================================================
