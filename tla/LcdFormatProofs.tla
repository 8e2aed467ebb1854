--------------------------- MODULE LcdFormatProofs ---------------------------
(***************************************************************************)
(* Proofs about LcdFormat for every int: how much room the conversions     *)
(* take, and for which numbers they agree with printf.                     *)
(***************************************************************************)
EXTENDS LcdFormat, SequenceTheorems, WellFoundedInduction, TLAPS

\* Induction, with a set in the place of a predicate.
LEMMA Induction ==
  ASSUME NEW T \in SUBSET Nat, 0 \in T, \A n \in T : n + 1 \in T
  PROVE  T = Nat
<1>1. SUFFICES ASSUME Nat \ T # {}
               PROVE  FALSE
  OBVIOUS
<1>2. PICK m \in Nat \ T : \A j \in Nat \ T : <<j, m>> \notin OpToRel(<, Nat)
  <2> DEFINE R == OpToRel(<, Nat)
             U == Nat \ T
  <2>1. IsWellFoundedOn(R, Nat) /\ U \subseteq Nat /\ U # {}
    BY <1>1, NatLessThanWellFounded
  <2> HIDE DEF R, U
  <2>2. \E m \in U : \A j \in U : ~(<<j, m>> \in R)
    BY <2>1, WFMin
  <2>3. QED
    BY <2>2 DEF R, U
<1>3. m # 0 /\ m - 1 \in Nat
  OBVIOUS
<1>4. \A j \in Nat \ T : ~(j < m)
  BY <1>2 DEF OpToRel
<1>5. m - 1 \in T
  BY <1>3, <1>4
<1>6. QED
  BY <1>3, <1>5

-----------------------------------------------------------------------------
\* Division.

LEMMA IntMax == INT_MAX \in Nat /\ INT_MAX < Power(10) - 1
<1>1. INT_MAX \in Nat
  BY SMT DEF INT_MAX
<1>2. INT_MAX < Power(10) - 1
  BY SMT DEF INT_MAX, Power
<1>3. QED
  BY <1>1, <1>2

\* As far as an int's digits go.
LEMMA Powers ==
  /\ Power(0) = 1 /\ Power(1) = 10 /\ Power(2) = 100 /\ Power(3) = 1000 /\ Power(4) = 10000
  /\ \A n \in 0 .. 10 : Power(n) \in Nat \ {0}
  /\ \A n \in 0 .. 9 : Power(n + 1) = 10 * Power(n)
<1> DEFINE p == [n \in 0 .. 10 |-> 10 ^ n]
<1>1. 10 ^ 0 = 1 /\ 10 ^ 1 = 10 /\ 10 ^ 2 = 100 /\ 10 ^ 3 = 1000 /\ 10 ^ 4 = 10000
  BY SMT
<1>2. 10 ^ 5 = 100000 /\ 10 ^ 6 = 1000000 /\ 10 ^ 7 = 10000000
  BY SMT
<1>3. 10 ^ 8 = 100000000 /\ 10 ^ 9 = 1000000000 /\ 10 ^ 10 = 10000000000
  BY SMT
<1>4. \A n \in 0 .. 10 : p[n] = Power(n)
  BY DEF Power
<1>5. /\ p[0] = 1 /\ p[1] = 10 /\ p[2] = 100 /\ p[3] = 1000 /\ p[4] = 10000
      /\ p[5] = 100000 /\ p[6] = 1000000 /\ p[7] = 10000000
      /\ p[8] = 100000000 /\ p[9] = 1000000000 /\ p[10] = 10000000000
  BY SMT, <1>1, <1>2, <1>3
<1> HIDE DEF p
<1>6. \A n \in 0 .. 10 : p[n] \in Nat \ {0}
  BY SMT, <1>5
<1>7. \A n \in 0 .. 9 : p[n + 1] = 10 * p[n]
  BY SMT, <1>5
<1>8. \A n \in 0 .. 10 : Power(n) \in Nat \ {0}
  BY <1>4, <1>6
<1>9. ASSUME NEW n \in 0 .. 9
      PROVE  Power(n + 1) = 10 * Power(n)
  <2>1. n \in 0 .. 10 /\ n + 1 \in 0 .. 10
    OBVIOUS
  <2>2. Power(n + 1) = p[n + 1] /\ Power(n) = p[n]
    BY <1>4, <2>1
  <2>3. QED
    BY <1>7, <2>2
<1>10. Power(0) = 1 /\ Power(1) = 10 /\ Power(2) = 100 /\ Power(3) = 1000 /\ Power(4) = 10000
  BY <1>1 DEF Power
<1>11. QED
  BY <1>8, <1>9, <1>10

\* C's division brings every number nearer to 0.
LEMMA QuotientSmaller ==
  /\ \A x \in Int : Quotient(x) \in Int /\ Remainder(x) \in -9 .. 9
  /\ \A n \in Nat : \A x \in -(n + 1) .. n + 1 : Quotient(x) \in -n .. n
  /\ \A x \in int : Quotient(x) \in int
  /\ \A x \in Int : Quotient(x) = 0 <=> x \in -9 .. 9
  /\ \A x \in Nat : Quotient(x) = x \div 10 /\ Remainder(x) = x % 10
  /\ \A x \in Int : Abs(Quotient(x)) = Abs(x) \div 10
<1>1. \A x \in Nat : Quotient(x) = x \div 10 /\ Remainder(x) = x % 10
  BY DEF Quotient, Remainder
<1>2. \A x \in Int : Quotient(x) \in Int /\ Remainder(x) \in -9 .. 9
  BY DEF Quotient, Remainder
<1>3. \A x \in Int : Quotient(x) = 0 <=> x \in -9 .. 9
  BY DEF Quotient
<1>4. \A n \in Nat : \A x \in -(n + 1) .. n + 1 : Quotient(x) \in -n .. n
  BY DEF Quotient
<1>5. \A x \in int : Quotient(x) \in int
  BY IntMax DEF Quotient, int
<1>6. \A x \in Int : Abs(Quotient(x)) = Abs(x) \div 10
  BY DEF Quotient, Abs
<1>7. QED
  BY <1>1, <1>2, <1>3, <1>4, <1>5, <1>6

-----------------------------------------------------------------------------
\* intToStr is the function its definition describes.

Digitwise(f, x) == (IF Quotient(x) = 0 THEN <<>> ELSE f[Quotient(x)]) \o <<Zero + Remainder(x)>>

LEMMA DigitwiseUpTo ==
  ASSUME NEW n \in Nat
  PROVE  \E f : f = [x \in -n .. n |-> Digitwise(f, x)]
<1> DEFINE T == {k \in Nat : \E f : f = [x \in -k .. k |-> Digitwise(f, x)]}
<1>1. 0 \in T
  <2> DEFINE f == [x \in -0 .. 0 |-> Digitwise(<<>>, x)]
  <2>1. \A x \in -0 .. 0 : Quotient(x) = 0
    BY QuotientSmaller
  <2>2. \A x \in -0 .. 0 : Digitwise(f, x) = Digitwise(<<>>, x)
    <3> HIDE DEF f
    <3>1. QED
      BY <2>1 DEF Digitwise
  <2>3. f = [x \in -0 .. 0 |-> Digitwise(f, x)]
    BY <2>2
  <2>4. QED
    BY <2>3
<1>2. ASSUME NEW k \in T
      PROVE  k + 1 \in T
  <2>1. PICK g : g = [x \in -k .. k |-> Digitwise(g, x)]
    OBVIOUS
  <2> DEFINE f == [x \in -(k + 1) .. k + 1 |-> Digitwise(g, x)]
  <2>2. \A x \in -(k + 1) .. k + 1 : Quotient(x) \in -k .. k
    BY QuotientSmaller
  <2>3. \A q \in -k .. k : f[q] = g[q]
    <3>1. TAKE q \in -k .. k
    <3>2. q \in -(k + 1) .. k + 1
      OBVIOUS
    <3>3. f[q] = Digitwise(g, q)
      BY <3>2
    <3>4. g[q] = Digitwise(g, q)
      BY <2>1
    <3>5. QED
      BY <3>3, <3>4
  <2>4. \A x \in -(k + 1) .. k + 1 : Digitwise(f, x) = Digitwise(g, x)
    <3> HIDE DEF f
    <3>1. QED
      BY <2>2, <2>3 DEF Digitwise
  <2>5. f = [x \in -(k + 1) .. k + 1 |-> Digitwise(f, x)]
    BY <2>4
  <2>6. \E h : h = [x \in -(k + 1) .. k + 1 |-> Digitwise(h, x)]
    BY <2>5
  <2>7. QED
    BY <2>6
<1>3. T = Nat
  <2> HIDE DEF T
  <2>1. T \in SUBSET Nat
    BY DEF T
  <2>2. QED
    BY <1>1, <1>2, <2>1, Induction
<1>4. QED
  BY <1>3

LEMMA IntToStrDef == intToStr = [x \in int |-> Digitwise(intToStr, x)]
<1>1. INT_MAX + 1 \in Nat /\ int \subseteq -(INT_MAX + 1) .. INT_MAX + 1
  BY IntMax DEF int
<1>2. PICK g : g = [x \in -(INT_MAX + 1) .. INT_MAX + 1 |-> Digitwise(g, x)]
  BY <1>1, DigitwiseUpTo
<1> DEFINE f == [x \in int |-> g[x]]
<1>3. \A x \in int : f[x] = Digitwise(g, x)
  BY <1>1, <1>2
<1>4. \A x \in int : Digitwise(g, x) = Digitwise(f, x)
  <2>1. \A x \in int : Quotient(x) \in int
    BY QuotientSmaller
  <2>2. \A q \in int : f[q] = g[q]
    OBVIOUS
  <2> HIDE DEF f
  <2>3. QED
    BY <2>1, <2>2 DEF Digitwise
<1>5. f = [x \in int |-> Digitwise(f, x)]
  BY <1>3, <1>4
<1>6. \E h : h = [x \in int |-> Digitwise(h, x)]
  BY <1>5
<1>7. QED
  BY <1>6 DEF intToStr, Digitwise

LEMMA IntToStrStep ==
  ASSUME NEW x \in int
  PROVE  intToStr[x] = (IF Quotient(x) = 0 THEN <<>> ELSE intToStr[Quotient(x)])
                       \o <<Zero + Remainder(x)>>
<1>1. [z \in int |-> Digitwise(intToStr, z)][x] = Digitwise(intToStr, x)
  OBVIOUS
<1>2. intToStr[x] = Digitwise(intToStr, x)
  BY <1>1, IntToStrDef
<1>3. QED
  BY <1>2 DEF Digitwise

-----------------------------------------------------------------------------
\* The length of a number, and of what intToStr makes of it.

LEMMA FitsShorter ==
  ASSUME NEW n \in 1 .. 9, NEW a \in Nat, Fits(a, n + 1)
  PROVE  a \div 10 \in Nat \ {0} /\ Fits(a \div 10, n)
<1>1. n \in 0 .. 9 /\ n \in 0 .. 10 /\ n - 1 \in 0 .. 9 /\ n - 1 \in 0 .. 10
  OBVIOUS
<1>2. Power(n + 1) = 10 * Power(n) /\ Power(n) \in Nat \ {0} /\ Power(n - 1) \in Nat \ {0}
  BY <1>1, Powers
<1>3. Power((n - 1) + 1) = 10 * Power(n - 1)
  BY <1>1, Powers
<1>4. (n - 1) + 1 = n /\ (n + 1) - 1 = n /\ n + 1 # 1
  OBVIOUS
<1>5. Power(n) = 10 * Power(n - 1)
  BY <1>3, <1>4
<1>6. a < Power(n + 1) /\ a >= Power(n)
  BY <1>4 DEF Fits
<1>7. ASSUME NEW p \in Nat \ {0}, NEW q \in Nat \ {0}, p = 10 * q, a < 10 * p, a >= p
      PROVE  a \div 10 \in Nat \ {0} /\ a \div 10 < p /\ a \div 10 >= q
  BY <1>7
<1>8. a \div 10 \in Nat \ {0} /\ a \div 10 < Power(n) /\ a \div 10 >= Power(n - 1)
  BY <1>2, <1>5, <1>6, <1>7
<1>9. QED
  BY <1>8 DEF Fits

LEMMA LengthFits ==
  ASSUME NEW a \in Nat, a < Power(10)
  PROVE  Length(a) \in 1 .. 10 /\ Fits(a, Length(a))
<1> DEFINE T == {k \in Nat : k <= 9 /\ a < Power(k + 1) => \E n \in 1 .. 10 : Fits(a, n)}
<1>1. 0 \in T
  <2>1. a < Power(1) => Fits(a, 1)
    BY DEF Fits
  <2>2. QED
    BY <2>1, 0 + 1 = 1, 1 \in 1 .. 10
<1>2. ASSUME NEW k \in T
      PROVE  k + 1 \in T
  <2>1. SUFFICES ASSUME k + 1 <= 9, a < Power((k + 1) + 1)
                 PROVE  \E n \in 1 .. 10 : Fits(a, n)
    OBVIOUS
  <2>2. CASE a < Power(k + 1)
    BY <2>1, <2>2
  <2>3. CASE ~(a < Power(k + 1))
    <3>1. k + 1 \in 0 .. 10 /\ (k + 1) + 1 \in 1 .. 10 /\ ((k + 1) + 1) - 1 = k + 1
      BY <2>1
    <3>2. Power(k + 1) \in Nat
      BY <3>1, Powers
    <3>3. a >= Power(k + 1)
      BY <2>3, <3>2
    <3>4. Fits(a, (k + 1) + 1)
      BY <2>1, <3>1, <3>3 DEF Fits
    <3>5. QED
      BY <3>1, <3>4
  <2>4. QED
    BY <2>2, <2>3
<1>3. T = Nat
  <2> HIDE DEF T
  <2>1. T \in SUBSET Nat
    BY DEF T
  <2>2. QED
    BY <1>1, <1>2, <2>1, Induction
<1>4. 9 \in T
  BY <1>3
<1>5. \E n \in 1 .. 10 : Fits(a, n)
  BY <1>4, 9 + 1 = 10
<1>6. QED
  BY <1>5 DEF Length, Fits

LEMMA AbsInt == \A x \in int : Abs(x) \in Nat /\ Abs(x) < Power(10)
<1>1. Power(10) \in Nat
  BY Powers
<1>2. QED
  BY <1>1, IntMax DEF int, Abs

\* A byte for each digit; below '0' for the digits of a negative number.
DigitCodes == 39 .. 57

LEMMA IntToStrLength ==
  ASSUME NEW n \in 1 .. 10, NEW x \in int, Fits(Abs(x), n)
  PROVE  intToStr[x] \in Seq(DigitCodes) /\ Len(intToStr[x]) = n
<1> DEFINE Holds(k) == \A z \in int : Fits(Abs(z), k + 1) =>
                         intToStr[z] \in Seq(DigitCodes) /\ Len(intToStr[z]) = k + 1
           T == {k \in Nat : k <= 9 => Holds(k)}
<1>1. \A z \in int : /\ z \in Int /\ Quotient(z) \in int
                     /\ Abs(z) \in Nat /\ Abs(Quotient(z)) = Abs(z) \div 10
                     /\ <<Zero + Remainder(z)>> \in Seq(DigitCodes)
                     /\ Len(<<Zero + Remainder(z)>>) = 1
  <2>1. TAKE z \in int
  <2>2. z \in Int
    BY IntMax DEF int
  <2>3. /\ Quotient(z) \in int /\ Abs(z) \in Nat
        /\ Remainder(z) \in -9 .. 9 /\ Abs(Quotient(z)) = Abs(z) \div 10
    BY <2>2, QuotientSmaller, AbsInt
  <2>4. Zero + Remainder(z) \in DigitCodes
    BY <2>3 DEF Zero, DigitCodes
  <2>5. QED
    BY <2>2, <2>3, <2>4
<1>2. 0 \in T
  <2>1. SUFFICES ASSUME NEW z \in int, Fits(Abs(z), 0 + 1)
                 PROVE  intToStr[z] \in Seq(DigitCodes) /\ Len(intToStr[z]) = 0 + 1
    OBVIOUS
  <2>2. Abs(z) < 10
    BY <2>1, Powers, 0 + 1 = 1 DEF Fits
  <2>3. Quotient(z) = 0
    BY <1>1, <2>2, QuotientSmaller DEF Abs
  <2>4. intToStr[z] = <<>> \o <<Zero + Remainder(z)>>
    BY <2>3, IntToStrStep
  <2>5. intToStr[z] = <<Zero + Remainder(z)>>
    BY <1>1, <2>4, ConcatEmptySeq
  <2>6. QED
    BY <1>1, <2>5
<1>3. ASSUME NEW k \in T
      PROVE  k + 1 \in T
  <2>1. SUFFICES ASSUME k + 1 <= 9, NEW z \in int, Fits(Abs(z), (k + 1) + 1)
                 PROVE  intToStr[z] \in Seq(DigitCodes) /\ Len(intToStr[z]) = (k + 1) + 1
    OBVIOUS
  <2>2. k + 1 \in 1 .. 9 /\ k \in Nat
    BY <2>1
  <2> DEFINE q == Quotient(z)
  <2>3. Abs(q) # 0 /\ Fits(Abs(q), k + 1)
    BY <1>1, <2>1, <2>2, FitsShorter
  <2>4. q # 0
    BY <2>3 DEF Abs
  <2>5. intToStr[q] \in Seq(DigitCodes) /\ Len(intToStr[q]) = k + 1
    <3>1. Holds(k)
      BY <2>2
    <3>2. q \in int
      BY <1>1
    <3> HIDE DEF q
    <3>3. QED
      BY <2>3, <3>1, <3>2
  <2>6. intToStr[z] = intToStr[q] \o <<Zero + Remainder(z)>>
    BY <2>4, IntToStrStep
  <2> DEFINE d == <<Zero + Remainder(z)>>
  <2>7. d \in Seq(DigitCodes) /\ Len(d) = 1 /\ intToStr[z] = intToStr[q] \o d
    BY <1>1, <2>6
  <2> HIDE DEF q, d
  <2>8. ASSUME NEW s \in Seq(DigitCodes), NEW t \in Seq(DigitCodes)
        PROVE  s \o t \in Seq(DigitCodes) /\ Len(s \o t) = Len(s) + Len(t)
    BY <2>8, ConcatProperties
  <2>9. QED
    BY <2>2, <2>5, <2>7, <2>8
<1>4. T = Nat
  <2> HIDE DEF T
  <2>1. T \in SUBSET Nat
    BY DEF T
  <2>2. QED
    BY <1>2, <1>3, <2>1, Induction
<1>5. n - 1 \in Nat /\ n - 1 <= 9 /\ (n - 1) + 1 = n
  OBVIOUS
<1>6. Holds(n - 1)
  <2> HIDE DEF Holds
  <2>1. QED
    BY <1>4, <1>5
<1>7. QED
  BY <1>5, <1>6

-----------------------------------------------------------------------------
\* The digits of a number.

LEMMA DigitShift ==
  /\ \A n \in 0 .. 10 : \A a \in Nat : Digit(a, n) \in DigitCodes
  /\ \A a \in Nat : Digit(a, 0) = Zero + (a % 10)
  /\ \A n \in 0 .. 9 : \A a \in Nat : Digit(a, n + 1) = Digit(a \div 10, n)
<1>1. ASSUME NEW a \in Nat, NEW p \in Nat \ {0}
      PROVE  (a \div p) % 10 \in 0 .. 9
  <2>1. a \div p \in Int
    OBVIOUS
  <2>2. QED
    BY <2>1
<1>2. \A n \in 0 .. 10 : \A a \in Nat : Digit(a, n) \in DigitCodes
  <2>1. TAKE n \in 0 .. 10
  <2>2. TAKE a \in Nat
  <2>3. (a \div Power(n)) % 10 \in 0 .. 9
    BY <1>1, Powers
  <2>4. QED
    BY <2>3 DEF Digit, DigitCodes, Zero
<1>3. \A a \in Nat : Digit(a, 0) = Zero + (a % 10)
  <2>1. TAKE a \in Nat
  <2>2. a \div 1 = a
    OBVIOUS
  <2>3. QED
    BY <2>2, Powers DEF Digit
<1>4. ASSUME NEW a \in Nat, NEW p \in Nat \ {0}
      PROVE  a \div (10 * p) = (a \div 10) \div p
  OBVIOUS
<1>5. \A n \in 0 .. 9 : \A a \in Nat : Digit(a, n + 1) = Digit(a \div 10, n)
  <2>1. TAKE n \in 0 .. 9
  <2>2. TAKE a \in Nat
  <2>3. Power(n + 1) = 10 * Power(n) /\ Power(n) \in Nat \ {0}
    BY Powers
  <2>4. a \div Power(n + 1) = (a \div 10) \div Power(n)
    BY <1>4, <2>3
  <2>5. QED
    BY <2>4 DEF Digit
<1>6. QED
  BY <1>2, <1>3, <1>5

LEMMA DigitsSeq ==
  ASSUME NEW n \in 0 .. 11, NEW a \in Nat
  PROVE  /\ Digits(a, n) \in Seq(DigitCodes) /\ Len(Digits(a, n)) = n
         /\ \A i \in 1 .. n : Digits(a, n)[i] = Digit(a, n - i)
<1>1. \A i \in 1 .. n : n - i \in 0 .. 10
  OBVIOUS
<1>2. \A i \in 1 .. n : Digit(a, n - i) \in DigitCodes
  BY <1>1, DigitShift
<1>3. Digits(a, n) \in [1 .. n -> DigitCodes]
  BY <1>2 DEF Digits
<1>4. QED
  BY <1>3 DEF Digits

LEMMA DigitsShorter ==
  ASSUME NEW n \in 0 .. 10, NEW a \in Nat
  PROVE  Digits(a, n + 1) = Digits(a \div 10, n) \o <<Zero + (a % 10)>>
<1> DEFINE s == Digits(a, n + 1)
           t == Digits(a \div 10, n)
           d == <<Zero + (a % 10)>>
<1>1. a \div 10 \in Nat /\ n + 1 \in 0 .. 11 /\ n \in 0 .. 11
  OBVIOUS
<1>2. /\ s \in Seq(DigitCodes) /\ Len(s) = n + 1
      /\ \A i \in 1 .. n + 1 : s[i] = Digit(a, n + 1 - i)
  <2> DEFINE m == n + 1
  <2>1. m \in 0 .. 11
    BY <1>1
  <2> HIDE DEF m
  <2>2. /\ Digits(a, m) \in Seq(DigitCodes) /\ Len(Digits(a, m)) = m
        /\ \A i \in 1 .. m : Digits(a, m)[i] = Digit(a, m - i)
    BY <2>1, DigitsSeq
  <2>3. QED
    BY <2>2 DEF m
<1>3. /\ t \in Seq(DigitCodes) /\ Len(t) = n
      /\ \A i \in 1 .. n : t[i] = Digit(a \div 10, n - i)
  BY <1>1, DigitsSeq
<1>4. Digit(a, 0) = Zero + (a % 10) /\ Digit(a, 0) \in DigitCodes
  BY DigitShift
<1>5. d \in Seq(DigitCodes) /\ Len(d) = 1 /\ d[1] = Digit(a, 0)
  BY <1>4
<1>6. \A i \in 1 .. n : s[i] = t[i]
  <2>1. TAKE i \in 1 .. n
  <2>2. n - i \in 0 .. 9 /\ (n - i) + 1 = n + 1 - i /\ i \in 1 .. n + 1
    OBVIOUS
  <2>3. Digit(a, (n - i) + 1) = Digit(a \div 10, n - i)
    BY <2>2, DigitShift
  <2> HIDE DEF s, t
  <2>4. QED
    BY <1>2, <1>3, <2>2, <2>3
<1>7. s[n + 1] = d[1]
  <2>1. n + 1 \in 1 .. n + 1 /\ n + 1 - (n + 1) = 0
    OBVIOUS
  <2> HIDE DEF s, d
  <2>2. QED
    BY <1>2, <1>5, <2>1
<1> HIDE DEF s, t, d
<1>8. /\ t \o d \in Seq(DigitCodes) /\ Len(t \o d) = n + 1
      /\ \A i \in 1 .. n + 1 : (t \o d)[i] = IF i <= n THEN t[i] ELSE d[i - n]
  <2>1. ASSUME NEW S, NEW u \in Seq(S), NEW v \in Seq(S)
        PROVE  /\ u \o v \in Seq(S) /\ Len(u \o v) = Len(u) + Len(v)
               /\ \A i \in 1 .. Len(u) + Len(v) :
                    (u \o v)[i] = IF i <= Len(u) THEN u[i] ELSE v[i - Len(u)]
    BY ConcatProperties
  <2>2. /\ t \o d \in Seq(DigitCodes) /\ Len(t \o d) = Len(t) + Len(d)
        /\ \A i \in 1 .. Len(t) + Len(d) :
             (t \o d)[i] = IF i <= Len(t) THEN t[i] ELSE d[i - Len(t)]
    BY <1>3, <1>5, <2>1
  <2>3. QED
    BY <1>3, <1>5, <2>2
<1>9. \A i \in 1 .. n + 1 : s[i] = (t \o d)[i]
  <2>1. TAKE i \in 1 .. n + 1
  <2>2. CASE i <= n
    BY <1>6, <1>8, <2>2
  <2>3. CASE i = n + 1
    BY <1>7, <1>8, <2>3
  <2>4. i <= n \/ i = n + 1
    OBVIOUS
  <2>5. QED
    BY <2>2, <2>3, <2>4
<1>10. s = t \o d
  BY <1>2, <1>8, <1>9, SeqEqual
<1>11. QED
  BY <1>10 DEF s, t, d

LEMMA IntToStrDigits ==
  ASSUME NEW n \in 1 .. 10, NEW x \in 0 .. INT_MAX, Fits(x, n)
  PROVE  intToStr[x] = Digits(x, n)
<1> DEFINE Holds(k) == \A z \in 0 .. INT_MAX : Fits(z, k + 1) => intToStr[z] = Digits(z, k + 1)
           T == {k \in Nat : k <= 9 => Holds(k)}
<1>1. \A z \in 0 .. INT_MAX :
        /\ z \in Nat /\ z \in int /\ z \div 10 \in 0 .. INT_MAX
        /\ Quotient(z) = z \div 10 /\ Remainder(z) = z % 10
  <2>1. TAKE z \in 0 .. INT_MAX
  <2>2. z \in Nat /\ z \in int /\ z \div 10 \in 0 .. INT_MAX
    BY IntMax DEF int
  <2>3. QED
    BY <2>2, QuotientSmaller
<1>2. 0 \in T
  <2>1. SUFFICES ASSUME NEW z \in 0 .. INT_MAX, Fits(z, 0 + 1)
                 PROVE  intToStr[z] = Digits(z, 0 + 1)
    OBVIOUS
  <2>2. z < 10
    BY <2>1, Powers, 0 + 1 = 1 DEF Fits
  <2>3. z \div 10 = 0 /\ 0 \in 0 .. 10 /\ z \in Nat
    BY <1>1, <2>2
  <2>4. intToStr[z] = <<>> \o <<Zero + (z % 10)>>
    BY <1>1, <2>3, IntToStrStep
  <2>5. Digits(z, 0 + 1) = Digits(z \div 10, 0) \o <<Zero + (z % 10)>>
    BY <2>3, DigitsShorter
  <2>6. Digits(z \div 10, 0) = <<>>
    <3>1. Digits(z \div 10, 0) \in Seq(DigitCodes) /\ Len(Digits(z \div 10, 0)) = 0
      BY <2>3, DigitsSeq
    <3>2. QED
      BY <3>1, EmptySeq
  <2>7. QED
    BY <2>4, <2>5, <2>6
<1>3. ASSUME NEW k \in T
      PROVE  k + 1 \in T
  <2>1. SUFFICES ASSUME k + 1 <= 9, NEW z \in 0 .. INT_MAX, Fits(z, (k + 1) + 1)
                 PROVE  intToStr[z] = Digits(z, (k + 1) + 1)
    OBVIOUS
  <2>2. k + 1 \in 1 .. 9 /\ k + 1 \in 0 .. 10
    BY <2>1
  <2>3. z \div 10 # 0 /\ Fits(z \div 10, k + 1)
    BY <1>1, <2>1, <2>2, FitsShorter
  <2>4. intToStr[z \div 10] = Digits(z \div 10, k + 1)
    <3>1. Holds(k)
      BY <2>2
    <3>2. QED
      BY <1>1, <2>3, <3>1
  <2>5. intToStr[z] = intToStr[z \div 10] \o <<Zero + (z % 10)>>
    BY <1>1, <2>3, IntToStrStep
  <2>6. Digits(z, (k + 1) + 1) = Digits(z \div 10, k + 1) \o <<Zero + (z % 10)>>
    BY <1>1, <2>2, DigitsShorter
  <2>7. QED
    BY <2>4, <2>5, <2>6
<1>4. T = Nat
  <2> HIDE DEF T
  <2>1. T \in SUBSET Nat
    BY DEF T
  <2>2. QED
    BY <1>2, <1>3, <2>1, Induction
<1>5. n - 1 \in Nat /\ n - 1 <= 9 /\ (n - 1) + 1 = n
  OBVIOUS
<1>6. Holds(n - 1)
  <2> HIDE DEF Holds
  <2>1. QED
    BY <1>4, <1>5
<1>7. QED
  BY <1>5, <1>6

LEMMA DecimalDigits ==
  ASSUME NEW n \in 1 .. 10, NEW x \in 0 .. INT_MAX, Fits(x, n)
  PROVE  Digits(x, n) = Decimal(x)
<1>1. x \in Nat /\ x < Power(10)
  <2>1. x \in int /\ x \in Nat /\ Abs(x) = x
    BY IntMax DEF int, Abs
  <2>2. QED
    BY <2>1, AbsInt
<1>2. Length(x) \in 1 .. 10 /\ Fits(x, Length(x))
  BY <1>1, LengthFits
<1>3. intToStr[x] = Digits(x, n) /\ intToStr[x] = Digits(x, Length(x))
  BY <1>2, IntToStrDigits
<1>4. QED
  BY <1>3 DEF Decimal

-----------------------------------------------------------------------------
\* doubleToStr.

LEMMA DigitZero ==
  ASSUME NEW j \in 0 .. 4, NEW k \in j .. 4, NEW a \in Nat, a < Power(j)
  PROVE  Digit(a, k) = Zero
<1>1. Power(0) = 1 /\ Power(1) = 10 /\ Power(2) = 100 /\ Power(3) = 1000 /\ Power(4) = 10000
  BY Powers
<1>2. j = 0 \/ j = 1 \/ j = 2 \/ j = 3 \/ j = 4
  OBVIOUS
<1>3. k = 0 \/ k = 1 \/ k = 2 \/ k = 3 \/ k = 4
  OBVIOUS
<1>4. a < Power(k) /\ Power(k) \in Nat \ {0}
  BY <1>1, <1>2, <1>3
<1>5. ASSUME NEW p \in Nat \ {0}, a < p
      PROVE  a \div p = 0
  BY <1>5
<1>6. a \div Power(k) = 0
  BY <1>4, <1>5
<1>7. QED
  BY <1>6 DEF Digit, Zero

LEMMA DigitOfThousands ==
  ASSUME NEW a \in Nat
  PROVE  /\ \A k \in 0 .. 7 : Digit(a, k + 3) = Digit(a \div 1000, k)
         /\ \A k \in 0 .. 2 : Digit(a, k) = Digit(a % 1000, k)
<1>1. a \div 10 \in Nat /\ (a \div 10) \div 10 \in Nat /\ a \div 1000 \in Nat
      /\ ((a \div 10) \div 10) \div 10 = a \div 1000
  OBVIOUS
<1>2. ASSUME NEW k \in 0 .. 7
      PROVE  Digit(a, k + 3) = Digit(a \div 1000, k)
  <2>1. k + 2 \in 0 .. 9 /\ k + 1 \in 0 .. 9 /\ k \in 0 .. 9
        /\ (k + 2) + 1 = k + 3 /\ (k + 1) + 1 = k + 2
    OBVIOUS
  <2>2. Digit(a, (k + 2) + 1) = Digit(a \div 10, k + 2)
    BY <2>1, DigitShift
  <2>3. Digit(a \div 10, (k + 1) + 1) = Digit((a \div 10) \div 10, k + 1)
    BY <1>1, <2>1, DigitShift
  <2>4. Digit((a \div 10) \div 10, k + 1) = Digit(a \div 1000, k)
    BY <1>1, <2>1, DigitShift
  <2>5. QED
    BY <2>1, <2>2, <2>3, <2>4
<1>3. ASSUME NEW k \in 0 .. 2
      PROVE  Digit(a, k) = Digit(a % 1000, k)
  <2>1. Power(0) = 1 /\ Power(1) = 10 /\ Power(2) = 100
    BY Powers
  <2>2. (a \div 1) % 10 = ((a % 1000) \div 1) % 10
    OBVIOUS
  <2>3. (a \div 10) % 10 = ((a % 1000) \div 10) % 10
    OBVIOUS
  <2>4. (a \div 100) % 10 = ((a % 1000) \div 100) % 10
    OBVIOUS
  <2>5. k = 0 \/ k = 1 \/ k = 2
    OBVIOUS
  <2>6. (a \div Power(k)) % 10 = ((a % 1000) \div Power(k)) % 10
    BY <2>1, <2>2, <2>3, <2>4, <2>5
  <2>7. QED
    BY <2>6 DEF Digit
<1>4. QED
  BY <1>2, <1>3

LEMMA FitsThousands ==
  ASSUME NEW n \in 5 .. 10, NEW a \in Nat, Fits(a, n)
  PROVE  Fits(a \div 1000, n - 3)
<1>1. a \div 10 \in Nat /\ (a \div 10) \div 10 \in Nat
      /\ ((a \div 10) \div 10) \div 10 = a \div 1000
  OBVIOUS
<1>2. n - 1 \in 1 .. 9 /\ n - 2 \in 1 .. 9 /\ n - 3 \in 1 .. 9
      /\ (n - 1) + 1 = n /\ (n - 2) + 1 = n - 1 /\ (n - 3) + 1 = n - 2
  OBVIOUS
<1>3. Fits(a \div 10, n - 1)
  BY <1>2, FitsShorter
<1>4. Fits((a \div 10) \div 10, n - 2)
  BY <1>1, <1>2, <1>3, FitsShorter
<1>5. Fits(((a \div 10) \div 10) \div 10, n - 3)
  BY <1>1, <1>2, <1>4, FitsShorter
<1>6. QED
  BY <1>1, <1>5

\* Padded to four digits or more, a number is a sequence of digits still.
LEMMA Padded ==
  ASSUME NEW n \in 1 .. 10, NEW m \in 4 .. 10, m = IF n < 4 THEN 4 ELSE n,
         NEW a \in Nat, a < Power(n)
  PROVE  Zeros(4 - n) \o Digits(a, n) = Digits(a, m)
<1> DEFINE z == Zeros(4 - n)
           d == Digits(a, n)
           t == Digits(a, m)
<1>1. n \in 0 .. 11 /\ m \in 0 .. 11
  OBVIOUS
<1>2. z \in Seq(DigitCodes) /\ Len(z) = m - n /\ \A i \in 1 .. m - n : z[i] = Zero
  <2>1. Zero \in DigitCodes
    BY DEF Zero, DigitCodes
  <2>2. m - n \in Nat /\ 1 .. 4 - n = 1 .. m - n
    OBVIOUS
  <2>3. z = [i \in 1 .. m - n |-> Zero]
    BY <2>2 DEF Zeros
  <2> HIDE DEF z
  <2>4. QED
    BY <2>1, <2>2, <2>3
<1>3. d \in Seq(DigitCodes) /\ Len(d) = n /\ \A i \in 1 .. n : d[i] = Digit(a, n - i)
  BY <1>1, DigitsSeq
<1>4. t \in Seq(DigitCodes) /\ Len(t) = m /\ \A i \in 1 .. m : t[i] = Digit(a, m - i)
  BY <1>1, DigitsSeq
<1> HIDE DEF z, d, t
<1>5. ASSUME NEW S, NEW u \in Seq(S), NEW v \in Seq(S)
      PROVE  /\ u \o v \in Seq(S) /\ Len(u \o v) = Len(u) + Len(v)
             /\ \A i \in 1 .. Len(u) + Len(v) :
                  (u \o v)[i] = IF i <= Len(u) THEN u[i] ELSE v[i - Len(u)]
  BY ConcatProperties
<1>6. /\ z \o d \in Seq(DigitCodes) /\ Len(z \o d) = Len(z) + Len(d)
      /\ \A i \in 1 .. Len(z) + Len(d) :
           (z \o d)[i] = IF i <= Len(z) THEN z[i] ELSE d[i - Len(z)]
  BY <1>2, <1>3, <1>5
<1>7. Len(z) + Len(d) = m
  BY <1>2, <1>3
<1>8. \A i \in 1 .. m : t[i] = (z \o d)[i]
  <2>1. TAKE i \in 1 .. m
  <2>2. (z \o d)[i] = IF i <= m - n THEN z[i] ELSE d[i - (m - n)]
    BY <1>2, <1>6, <1>7
  <2>3. CASE i <= m - n
    <3>1. n \in 0 .. 4 /\ m - i \in n .. 4
      BY <2>3
    <3>2. Digit(a, m - i) = Zero
      BY <3>1, DigitZero
    <3>3. i \in 1 .. m - n
      BY <2>3
    <3>4. QED
      BY <1>2, <1>4, <2>2, <2>3, <3>2, <3>3
  <2>4. CASE ~(i <= m - n)
    <3>1. i - (m - n) \in 1 .. n /\ n - (i - (m - n)) = m - i
      BY <2>4
    <3>2. QED
      BY <1>3, <1>4, <2>2, <2>4, <3>1
  <2>5. QED
    BY <2>3, <2>4
<1>9. t = z \o d
  BY <1>4, <1>6, <1>7, <1>8, SeqEqual
<1>10. QED
  BY <1>9 DEF z, d, t

LEMMA Concatenation ==
  ASSUME NEW u \in Seq(DigitCodes), NEW v \in Seq(DigitCodes)
  PROVE  u \o v \in Seq(DigitCodes) /\ Len(u \o v) = Len(u) + Len(v)
BY ConcatProperties

\* The four digits or more of doubleToStr, before and after the point.
LEMMA Pointed ==
  ASSUME NEW m \in 4 .. 10, NEW t \in Seq(DigitCodes), Len(t) = m
  PROVE  /\ SubSeq(t, 1, m - 3) \in Seq(DigitCodes) /\ Len(SubSeq(t, 1, m - 3)) = m - 3
         /\ \A i \in 1 .. m - 3 : SubSeq(t, 1, m - 3)[i] = t[i]
         /\ SubSeq(t, m - 2, m) \in Seq(DigitCodes) /\ Len(SubSeq(t, m - 2, m)) = 3
         /\ \A i \in 1 .. 3 : SubSeq(t, m - 2, m)[i] = t[m - 3 + i]
<1> DEFINE p == SubSeq(t, 1, m - 3)
           q == SubSeq(t, m - 2, m)
<1>1. \A i \in 1 .. m : t[i] \in DigitCodes
  OBVIOUS
<1>2. p \in Seq(DigitCodes) /\ Len(p) = m - 3 /\ \A i \in 1 .. m - 3 : p[i] = t[i]
  <2>1. 1 \in Int /\ m - 3 \in Int /\ 1 <= m - 3 /\ \A i \in 1 .. m - 3 : t[i] \in DigitCodes
    BY <1>1
  <2>2. /\ SubSeq(t, 1, m - 3) \in Seq(DigitCodes) /\ Len(SubSeq(t, 1, m - 3)) = (m - 3) - 1 + 1
        /\ \A i \in 1 .. (m - 3) - 1 + 1 : SubSeq(t, 1, m - 3)[i] = t[1 + i - 1]
    BY <2>1, SubSeqProperties
  <2>3. (m - 3) - 1 + 1 = m - 3 /\ \A i \in 1 .. m - 3 : 1 + i - 1 = i
    OBVIOUS
  <2>4. QED
    BY <2>2, <2>3
<1>3. q \in Seq(DigitCodes) /\ Len(q) = 3 /\ \A i \in 1 .. 3 : q[i] = t[m - 3 + i]
  <2> DEFINE l == m - 2
  <2>1. l \in Int /\ m \in Int /\ l <= m /\ (\A i \in l .. m : t[i] \in DigitCodes)
        /\ m - l + 1 = 3 /\ \A i \in 1 .. 3 : l + i - 1 = m - 3 + i
    BY <1>1
  <2> HIDE DEF l
  <2>2. /\ SubSeq(t, l, m) \in Seq(DigitCodes) /\ Len(SubSeq(t, l, m)) = m - l + 1
        /\ \A i \in 1 .. m - l + 1 : SubSeq(t, l, m)[i] = t[l + i - 1]
    BY <2>1, SubSeqProperties
  <2>3. q = SubSeq(t, l, m)
    BY DEF l
  <2>4. QED
    BY <2>1, <2>2, <2>3
<1>4. QED
  BY <1>2, <1>3

LEMMA PointBetween ==
  ASSUME NEW m \in 4 .. 10, NEW p \in Seq(DigitCodes), Len(p) = m - 3,
         NEW q \in Seq(DigitCodes), Len(q) = 3
  PROVE  p \o <<Point>> \o q \in Seq(DigitCodes) /\ Len(p \o <<Point>> \o q) = m + 1
<1> DEFINE o == <<Point>>
<1>1. o \in Seq(DigitCodes) /\ Len(o) = 1
  BY DEF Point, DigitCodes
<1> HIDE DEF o
<1>2. p \o o \in Seq(DigitCodes) /\ Len(p \o o) = Len(p) + Len(o)
  BY <1>1, Concatenation, Zenon
<1>3. (p \o o) \o q \in Seq(DigitCodes) /\ Len((p \o o) \o q) = Len(p \o o) + Len(q)
  BY <1>2, Concatenation, Zenon
<1>4. Len((p \o o) \o q) = m + 1
  BY <1>1, <1>2, <1>3
<1>5. QED
  BY <1>3, <1>4 DEF o

LEMMA DoubleToStrLength ==
  ASSUME NEW n \in 1 .. 10, NEW x \in int, Fits(Abs(x), n)
  PROVE  /\ doubleToStr(x) \in Seq(DigitCodes)
         /\ Len(doubleToStr(x)) = IF n < 4 THEN 5 ELSE n + 1
<1> DEFINE m == IF n < 4 THEN 4 ELSE n
           z == Zeros(4 - n)
           t == Zeros(4 - Len(intToStr[x])) \o intToStr[x]
<1>1. intToStr[x] \in Seq(DigitCodes) /\ Len(intToStr[x]) = n
  BY IntToStrLength
<1>2. z \in Seq(DigitCodes) /\ Len(z) = m - n
  <2>1. Zero \in DigitCodes
    BY DEF Zero, DigitCodes
  <2>2. m - n \in Nat /\ 1 .. 4 - n = 1 .. m - n
    OBVIOUS
  <2>3. z = [i \in 1 .. m - n |-> Zero]
    BY <2>2 DEF Zeros
  <2> HIDE DEF z
  <2>4. QED
    BY <2>1, <2>2, <2>3
<1>3. m \in 4 .. 10 /\ m - n \in Nat /\ m - n + n = m
  OBVIOUS
<1>4. t = z \o intToStr[x]
  BY <1>1
<1>5. doubleToStr(x) = SubSeq(t, 1, Len(t) - 3) \o <<Point>> \o SubSeq(t, Len(t) - 2, Len(t))
  BY DEF doubleToStr
<1> HIDE DEF t, z
<1>6. t \in Seq(DigitCodes) /\ Len(t) = m
  <2>1. t \in Seq(DigitCodes) /\ Len(t) = Len(z) + Len(intToStr[x])
    BY <1>1, <1>2, <1>4, Concatenation, Zenon
  <2>2. QED
    BY <1>1, <1>2, <1>3, <2>1
<1>7. doubleToStr(x) = SubSeq(t, 1, m - 3) \o <<Point>> \o SubSeq(t, m - 2, m)
  BY <1>5, <1>6
<1>8. doubleToStr(x) \in Seq(DigitCodes) /\ Len(doubleToStr(x)) = m + 1
  <2> DEFINE p == SubSeq(t, 1, m - 3)
             q == SubSeq(t, m - 2, m)
  <2>1. doubleToStr(x) = p \o <<Point>> \o q
    BY <1>7
  <2>2. p = SubSeq(t, 1, m - 3) /\ q = SubSeq(t, m - 2, m)
    OBVIOUS
  <2> HIDE DEF m, p, q
  <2>3. m \in 4 .. 10
    BY <1>3
  <2>4. p \in Seq(DigitCodes) /\ Len(p) = m - 3 /\ q \in Seq(DigitCodes) /\ Len(q) = 3
    BY <1>6, <2>2, <2>3, Pointed
  <2>5. p \o <<Point>> \o q \in Seq(DigitCodes) /\ Len(p \o <<Point>> \o q) = m + 1
    BY <2>3, <2>4, PointBetween
  <2>6. QED
    BY <2>1, <2>5
<1>9. QED
  BY <1>8

\* What %.3f prints for the thousands a \div 1000, and the rest.
LEMMA ThousandsDigits ==
  ASSUME NEW n \in 1 .. 10, NEW a \in Nat, a <= INT_MAX + 1, Fits(a, n)
  PROVE  /\ a \div 1000 \in 0 .. INT_MAX /\ a % 1000 \in Nat
         /\ Decimal(a \div 1000) = Digits(a \div 1000, (IF n < 4 THEN 4 ELSE n) - 3)
<1>1. a \div 1000 \in 0 .. INT_MAX /\ a % 1000 \in Nat
  BY IntMax
<1>2. CASE n <= 4
  <2>1. Power(1) = 10 /\ Power(2) = 100 /\ Power(3) = 1000 /\ Power(4) = 10000
    BY Powers
  <2>2. a < 10000
    <3>1. n = 1 \/ n = 2 \/ n = 3 \/ n = 4
      BY <1>2
    <3>2. a < Power(n)
      BY DEF Fits
    <3>3. QED
      BY <2>1, <3>1, <3>2
  <2>3. Fits(a \div 1000, 1)
    BY <2>1, <2>2 DEF Fits
  <2>4. (IF n < 4 THEN 4 ELSE n) - 3 = 1 /\ 1 \in 1 .. 10
    BY <1>2
  <2>5. QED
    BY <1>1, <2>3, <2>4, DecimalDigits
<1>3. CASE n > 4
  <2>1. n \in 5 .. 10 /\ n - 3 \in 1 .. 10 /\ (IF n < 4 THEN 4 ELSE n) = n
    BY <1>3
  <2>2. Fits(a \div 1000, n - 3)
    BY <2>1, FitsThousands
  <2>3. QED
    BY <1>1, <2>1, <2>2, DecimalDigits
<1>4. QED
  BY <1>2, <1>3

LEMMA DoubleToStrDigits ==
  ASSUME NEW x \in 0 .. INT_MAX
  PROVE  doubleToStr(x) = Decimal(x \div 1000) \o <<Point>> \o Digits(x % 1000, 3)
<1>1. x \in Nat /\ x \in int /\ Abs(x) = x
  BY IntMax DEF int, Abs
<1>2. PICK n \in 1 .. 10 : Fits(x, n)
  BY <1>1, AbsInt, LengthFits
<1> DEFINE m == IF n < 4 THEN 4 ELSE n
           t == Digits(x, m)
<1>3. m \in 4 .. 10 /\ m - 3 \in 0 .. 11 /\ m \in 0 .. 11 /\ 3 \in 0 .. 11
  OBVIOUS
<1>4. intToStr[x] = Digits(x, n) /\ Len(intToStr[x]) = n
  BY <1>1, <1>2, IntToStrDigits, IntToStrLength
<1>5. Zeros(4 - Len(intToStr[x])) \o intToStr[x] = t
  <2>1. x < Power(n)
    BY <1>2 DEF Fits
  <2>2. QED
    BY <1>1, <1>3, <1>4, <2>1, Padded
<1>6. t \in Seq(DigitCodes) /\ Len(t) = m /\ \A i \in 1 .. m : t[i] = Digit(x, m - i)
  <2> HIDE DEF m
  <2>1. QED
    BY <1>1, <1>3, DigitsSeq
<1> HIDE DEF t
<1> DEFINE p == SubSeq(t, 1, m - 3)
           q == SubSeq(t, m - 2, m)
<1>7. doubleToStr(x) = p \o <<Point>> \o q
  BY <1>5, <1>6 DEF doubleToStr
<1>8. /\ p \in Seq(DigitCodes) /\ Len(p) = m - 3 /\ \A i \in 1 .. m - 3 : p[i] = t[i]
      /\ q \in Seq(DigitCodes) /\ Len(q) = 3 /\ \A i \in 1 .. 3 : q[i] = t[m - 3 + i]
  <2>1. m \in 4 .. 10 /\ t \in Seq(DigitCodes) /\ Len(t) = m
    BY <1>3, <1>6
  <2> HIDE DEF m
  <2>2. QED
    BY <2>1, Pointed, Zenon
<1> HIDE DEF p, q
<1>9. x <= INT_MAX + 1
  BY IntMax
<1>10. /\ x \div 1000 \in 0 .. INT_MAX /\ x \div 1000 \in Nat /\ x % 1000 \in Nat
       /\ Decimal(x \div 1000) = Digits(x \div 1000, m - 3)
  BY <1>1, <1>2, <1>9, ThousandsDigits
<1> DEFINE th == x \div 1000
           rest == x % 1000
<1> HIDE DEF m, th, rest
<1>11. th \in Nat /\ rest \in Nat
  BY <1>10 DEF th, rest
<1>12. p = Digits(th, m - 3)
  <2> DEFINE u == Digits(th, m - 3)
  <2>1. /\ u \in Seq(DigitCodes) /\ Len(u) = m - 3
        /\ \A i \in 1 .. m - 3 : u[i] = Digit(th, (m - 3) - i)
    <3> DEFINE k == m - 3
    <3>1. k \in 0 .. 11
      BY <1>3
    <3> HIDE DEF k
    <3>2. /\ Digits(th, k) \in Seq(DigitCodes) /\ Len(Digits(th, k)) = k
          /\ \A i \in 1 .. k : Digits(th, k)[i] = Digit(th, k - i)
      BY <1>11, <3>1, DigitsSeq, Zenon
    <3>3. QED
      BY <3>2 DEF k
  <2>2. \A i \in 1 .. m - 3 : p[i] = u[i]
    <3>1. TAKE i \in 1 .. m - 3
    <3>2. (m - 3) - i \in 0 .. 7 /\ ((m - 3) - i) + 3 = m - i /\ i \in 1 .. m
      BY <1>3
    <3>3. Digit(x, ((m - 3) - i) + 3) = Digit(th, (m - 3) - i)
      BY <1>1, <3>2, DigitOfThousands DEF th
    <3> HIDE DEF u
    <3>4. QED
      BY <1>6, <1>8, <2>1, <3>2, <3>3
  <2> HIDE DEF u
  <2>3. p = u
    BY <1>8, <2>1, <2>2, SeqEqual
  <2>4. QED
    BY <2>3 DEF u
<1>13. q = Digits(rest, 3)
  <2> DEFINE u == Digits(rest, 3)
  <2>1. /\ u \in Seq(DigitCodes) /\ Len(u) = 3
        /\ \A i \in 1 .. 3 : u[i] = Digit(rest, 3 - i)
    BY <1>3, <1>11, DigitsSeq, Zenon
  <2>2. \A i \in 1 .. 3 : q[i] = u[i]
    <3>1. TAKE i \in 1 .. 3
    <3>2. 3 - i \in 0 .. 2 /\ m - 3 + i \in 1 .. m /\ m - (m - 3 + i) = 3 - i
      BY <1>3
    <3>3. Digit(x, 3 - i) = Digit(rest, 3 - i)
      BY <1>1, <3>2, DigitOfThousands DEF rest
    <3> DEFINE l == m - 3 + i
    <3>4. l \in 1 .. m /\ m - l = 3 - i /\ q[i] = t[l]
      BY <1>8, <3>2
    <3> HIDE DEF l, u
    <3>5. t[l] = Digit(x, 3 - i)
      BY <1>6, <3>4
    <3>6. u[i] = Digit(rest, 3 - i)
      BY <2>1
    <3>7. QED
      BY <3>3, <3>4, <3>5, <3>6
  <2> HIDE DEF u
  <2>3. q = u
    BY <1>8, <2>1, <2>2, SeqEqual
  <2>4. QED
    BY <2>3 DEF u
<1>14. QED
  BY <1>7, <1>10, <1>12, <1>13 DEF th, rest

-----------------------------------------------------------------------------
\* What the conversions make of any int.

LEMMA IntFits ==
  ASSUME NEW x \in int
  PROVE  \E n \in 1 .. 10 : Fits(Abs(x), n)
BY AbsInt, LengthFits

\* tempBuf[20] of intToStr and doubleToStr: no int takes more than ten characters
\* of it, or eleven with the point, and each of them is a byte other than 0.
THEOREM BuffersSuffice ==
  \A x \in int : /\ intToStr[x] \in Seq(DigitCodes) /\ Len(intToStr[x]) \in 1 .. 10
                 /\ doubleToStr(x) \in Seq(DigitCodes) /\ Len(doubleToStr(x)) \in 5 .. 11
<1>1. TAKE x \in int
<1>2. PICK n \in 1 .. 10 : Fits(Abs(x), n)
  BY IntFits
<1>3. intToStr[x] \in Seq(DigitCodes) /\ Len(intToStr[x]) = n
  BY <1>2, IntToStrLength
<1>4. doubleToStr(x) \in Seq(DigitCodes) /\ Len(doubleToStr(x)) = IF n < 4 THEN 5 ELSE n + 1
  BY <1>2, DoubleToStrLength
<1>5. QED
  BY <1>3, <1>4

LEMMA ItemTexts ==
  ASSUME NEW x
  PROVE  /\ Converted(Dec(x)) = intToStr[x] /\ Converted(Fix(x)) = doubleToStr(x)
         /\ Standard(Dec(x)) = Sign(x) \o Decimal(Abs(x))
         /\ Standard(Fix(x)) = Sign(x) \o Decimal(Abs(x) \div 1000) \o <<Point>>
                               \o Digits(Abs(x) % 1000, 3)
BY DEF Converted, Standard, Dec, Fix, Double

LEMMA SignSeq ==
  ASSUME NEW x \in int
  PROVE  /\ Sign(x) \in Seq(DigitCodes) /\ Len(Sign(x)) = IF x < 0 THEN 1 ELSE 0
         /\ x >= 0 => Sign(x) = <<>> /\ x \in 0 .. INT_MAX /\ Abs(x) = x
<1>1. Minus \in DigitCodes
  BY DEF Minus, DigitCodes
<1>2. x \in Int /\ x <= INT_MAX
  BY IntMax DEF int
<1>3. CASE x < 0
  BY <1>1, <1>2, <1>3 DEF Sign
<1>4. CASE x >= 0
  BY <1>2, <1>4 DEF Sign, Abs
<1>5. QED
  BY <1>2, <1>3, <1>4

\* Of a %d, LCD_printf makes what printf does exactly if the number is not negative.
THEOREM DecimalAsPrintf ==
  \A x \in int : Converted(Dec(x)) = Standard(Dec(x)) <=> x >= 0
<1>1. TAKE x \in int
<1> DEFINE g == Sign(x)
           d == Decimal(Abs(x))
<1>2. /\ Abs(x) \in Nat /\ x \in Int
      /\ Length(Abs(x)) \in 1 .. 10 /\ Fits(Abs(x), Length(Abs(x)))
  BY AbsInt, LengthFits, IntMax DEF int
<1>3. d \in Seq(DigitCodes) /\ Len(d) = Length(Abs(x))
  <2> DEFINE n == Length(Abs(x))
  <2>1. n \in 0 .. 11
    BY <1>2
  <2> HIDE DEF n
  <2>2. Digits(Abs(x), n) \in Seq(DigitCodes) /\ Len(Digits(Abs(x), n)) = n
    BY <1>2, <2>1, DigitsSeq
  <2>3. QED
    BY <2>2 DEF Decimal, n
<1>4. /\ g \in Seq(DigitCodes) /\ Len(g) = IF x < 0 THEN 1 ELSE 0
      /\ x >= 0 => g = <<>> /\ x \in 0 .. INT_MAX /\ Abs(x) = x
  BY SignSeq
<1>5. Converted(Dec(x)) = intToStr[x] /\ Standard(Dec(x)) = g \o d
  BY ItemTexts
<1>6. CASE x >= 0
  <2>1. intToStr[x] = d
    BY <1>2, <1>4, <1>6, IntToStrDigits DEF Decimal
  <2> HIDE DEF g, d
  <2>2. <<>> \o d = d
    BY <1>3, ConcatEmptySeq
  <2>3. QED
    BY <1>4, <1>5, <1>6, <2>1, <2>2
<1>7. CASE x < 0
  <2>1. Len(intToStr[x]) = Len(d)
    BY <1>2, <1>3, IntToStrLength
  <2> HIDE DEF g, d
  <2>2. Len(g \o d) = Len(g) + Len(d)
    BY <1>3, <1>4, Concatenation, Zenon
  <2>3. Len(d) \in Nat
    BY <1>2, <1>3
  <2>4. intToStr[x] # g \o d
    BY <1>4, <1>7, <2>1, <2>2, <2>3
  <2>5. ~(x >= 0)
    BY <1>2, <1>7
  <2>6. QED
    BY <1>5, <2>4, <2>5
<1>8. QED
  BY <1>2, <1>6, <1>7

\* Of a %f that gets an int of thousandths, which is what doubleToStr takes (the
\* README's float or double it does not), LCD_printf makes what printf("%.3f") does
\* of the number meant exactly if it is not negative.
THEOREM FixedAsPrintf ==
  \A x \in int : Converted(Fix(x)) = Standard(Fix(x)) <=> x >= 0
<1>1. TAKE x \in int
<1> DEFINE g == Sign(x)
           d == Decimal(Abs(x) \div 1000)
           o == <<Point>>
           r == Digits(Abs(x) % 1000, 3)
<1>2. Abs(x) \in Nat /\ x \in Int /\ Abs(x) <= INT_MAX + 1
  BY AbsInt, IntMax DEF int, Abs
<1>3. PICK n \in 1 .. 10 : Fits(Abs(x), n)
  BY IntFits
<1> DEFINE m == IF n < 4 THEN 4 ELSE n
<1>4. m \in 4 .. 10
  OBVIOUS
<1>5. /\ Abs(x) \div 1000 \in Nat /\ Abs(x) % 1000 \in Nat
      /\ d = Digits(Abs(x) \div 1000, m - 3)
  <2>1. /\ Abs(x) \div 1000 \in 0 .. INT_MAX /\ Abs(x) % 1000 \in Nat
        /\ Decimal(Abs(x) \div 1000) = Digits(Abs(x) \div 1000, (IF n < 4 THEN 4 ELSE n) - 3)
    BY <1>2, <1>3, ThousandsDigits
  <2>2. QED
    BY <2>1, IntMax
<1>6. d \in Seq(DigitCodes) /\ Len(d) = m - 3
  <2> DEFINE k == m - 3
             y == Abs(x) \div 1000
  <2>1. k \in 0 .. 11 /\ y \in Nat
    BY <1>4, <1>5
  <2>2. d = Digits(y, k)
    BY <1>5
  <2> HIDE DEF k, y, d
  <2>3. d \in Seq(DigitCodes) /\ Len(d) = k
    BY <2>1, <2>2, DigitsSeq, Zenon
  <2>4. QED
    BY <2>3 DEF k
<1>7. r \in Seq(DigitCodes) /\ Len(r) = 3
  <2> DEFINE y == Abs(x) % 1000
  <2>1. 3 \in 0 .. 11 /\ y \in Nat
    BY <1>5
  <2>2. r = Digits(y, 3)
    OBVIOUS
  <2> HIDE DEF y, r
  <2>3. QED
    BY <2>1, <2>2, DigitsSeq, Zenon
<1>8. /\ g \in Seq(DigitCodes) /\ Len(g) = IF x < 0 THEN 1 ELSE 0
      /\ x >= 0 => g = <<>> /\ x \in 0 .. INT_MAX /\ Abs(x) = x
  BY SignSeq
<1>9. o \in Seq(DigitCodes) /\ Len(o) = 1
  BY DEF Point, DigitCodes
<1>10. Converted(Fix(x)) = doubleToStr(x) /\ Standard(Fix(x)) = ((g \o d) \o o) \o r
  BY ItemTexts
<1>11. Len(doubleToStr(x)) = m + 1
  <2>1. Len(doubleToStr(x)) = IF n < 4 THEN 5 ELSE n + 1
    BY <1>3, DoubleToStrLength
  <2>2. QED
    BY <2>1
<1>12. CASE x >= 0
  <2>1. doubleToStr(x) = (d \o o) \o r
    <3>1. x \in 0 .. INT_MAX /\ Abs(x) = x
      BY <1>8, <1>12
    <3>2. doubleToStr(x) = Decimal(x \div 1000) \o <<Point>> \o Digits(x % 1000, 3)
      BY <3>1, DoubleToStrDigits
    <3>3. QED
      BY <3>1, <3>2
  <2> HIDE DEF g, d, o, r
  <2>2. <<>> \o d = d
    BY <1>6, ConcatEmptySeq
  <2>3. QED
    BY <1>8, <1>10, <1>12, <2>1, <2>2
<1>13. CASE x < 0
  <2> HIDE DEF g, d, o, r, m
  <2>1. g \o d \in Seq(DigitCodes) /\ Len(g \o d) = Len(g) + Len(d)
    BY <1>6, <1>8, Concatenation, Zenon
  <2>2. (g \o d) \o o \in Seq(DigitCodes) /\ Len((g \o d) \o o) = Len(g \o d) + Len(o)
    BY <1>9, <2>1, Concatenation, Zenon
  <2>3. Len(((g \o d) \o o) \o r) = Len((g \o d) \o o) + Len(r)
    BY <1>7, <2>2, Concatenation, Zenon
  <2>4. Len(((g \o d) \o o) \o r) = m + 2
    BY <1>4, <1>6, <1>7, <1>8, <1>9, <1>13, <2>1, <2>2, <2>3
  <2>5. doubleToStr(x) # ((g \o d) \o o) \o r
    BY <1>4, <1>11, <2>4
  <2>6. ~(x >= 0)
    BY <1>2, <1>13
  <2>7. QED
    BY <1>10, <2>5, <2>6
<1>14. QED
  BY <1>2, <1>12, <1>13

-----------------------------------------------------------------------------
\* LCD_printf.

\* What it is asked to show: characters, strings and numbers that are not negative,
\* those of a %f given as an int of thousandths.
NotNegative(items) ==
  \A n \in 1 .. Len(items) :
    \/ items[n].kind \in {"c", "s"}
    \/ items[n].kind \in {"d", "f"} /\ items[n].arg \in 0 .. INT_MAX
       /\ (items[n].kind = "f" => items[n].value = items[n].arg)

LEMMA ItemAsPrintf ==
  ASSUME NEW item, \/ item.kind \in {"c", "s"}
                   \/ item.kind \in {"d", "f"} /\ item.arg \in 0 .. INT_MAX
                      /\ (item.kind = "f" => item.value = item.arg)
  PROVE  Converted(item) = Standard(item)
<1>1. CASE item.kind \in {"c", "s"}
  BY <1>1 DEF Converted, Standard
<1>2. ASSUME item.kind \in {"d", "f"}, item.arg \in 0 .. INT_MAX,
             item.kind = "f" => item.value = item.arg
      PROVE  Converted(item) = Standard(item)
  <2> DEFINE x == item.arg
  <2>1. x \in int /\ x >= 0
    BY <1>2, IntMax DEF int
  <2>2. Converted(Dec(x)) = Standard(Dec(x)) /\ Converted(Fix(x)) = Standard(Fix(x))
    BY <2>1, DecimalAsPrintf, FixedAsPrintf
  <2>3. CASE item.kind = "d"
    <3>1. Converted(item) = Converted(Dec(x)) /\ Standard(item) = Standard(Dec(x))
      BY <2>3 DEF Converted, Standard, Dec
    <3>2. QED
      BY <2>2, <3>1
  <2>4. CASE item.kind = "f"
    <3>1. Converted(item) = Converted(Fix(x)) /\ Standard(item) = Standard(Fix(x))
      BY <1>2, <2>4 DEF Converted, Standard, Fix, Double
    <3>2. QED
      BY <2>2, <3>1
  <2>5. QED
    BY <1>2, <2>3, <2>4
<1>3. QED
  BY <1>1, <1>2

\* Of characters, strings and numbers that are not negative, those of a %f given as
\* an int of thousandths, LCD_printf makes what printf does, item by item.
THEOREM PrintfAsPrintf ==
  ASSUME NEW items, Len(items) \in Nat, NotNegative(items)
  PROVE  LCD_printf(items) = printf(items)
<1> DEFINE C(t, n) == IF n = 0 THEN <<>> ELSE t[n - 1] \o Converted(items[n])
           S(t, n) == IF n = 0 THEN <<>> ELSE t[n - 1] \o Standard(items[n])
           N == Len(items)
           c == CHOOSE t : t = [n \in 0 .. N |-> C(t, n)]
           s == CHOOSE t : t = [n \in 0 .. N |-> S(t, n)]
<1>1. \A n \in 1 .. N : Converted(items[n]) = Standard(items[n])
  BY ItemAsPrintf DEF NotNegative
<1>2. \A t : \A n \in 0 .. N : C(t, n) = S(t, n)
  <2>1. TAKE t
  <2>2. TAKE n \in 0 .. N
  <2>3. n = 0 \/ n \in 1 .. N
    OBVIOUS
  <2>4. QED
    BY <1>1, <2>3
<1>3. \A t : [n \in 0 .. N |-> C(t, n)] = [n \in 0 .. N |-> S(t, n)]
  <2> HIDE DEF C, S, N
  <2>1. QED
    BY <1>2
<1>4. c = s
  <2> HIDE DEF C, S, N
  <2>1. QED
    BY <1>3
<1>5. LCD_printf(items) = c[N] /\ printf(items) = s[N]
  BY DEF LCD_printf, printf
<1>6. QED
  BY <1>4, <1>5

\* The items of a format, and the most that each takes of text[].
Items(items) ==
  \A n \in 1 .. Len(items) :
    \/ items[n].kind = "c" /\ items[n].arg \in 1 .. 255
    \/ items[n].kind = "s" /\ items[n].arg \in Seq(1 .. 255)
    \/ items[n].kind \in {"d", "f"} /\ items[n].arg \in int
Room(item) ==
  CASE item.kind = "c" -> 1
    [] item.kind = "s" -> Len(item.arg)
    [] item.kind = "d" -> 10
    [] item.kind = "f" -> 11

LEMMA ItemRoom ==
  ASSUME NEW items, Items(items), NEW n \in 1 .. Len(items)
  PROVE  /\ Converted(items[n]) \in Seq(1 .. 255)
         /\ Room(items[n]) \in Nat /\ Len(Converted(items[n])) <= Room(items[n])
<1> DEFINE item == items[n]
<1>1. /\ \/ item.kind = "c" /\ item.arg \in 1 .. 255
         \/ item.kind = "s" /\ item.arg \in Seq(1 .. 255)
         \/ item.kind \in {"d", "f"} /\ item.arg \in int
  BY DEF Items
<1> HIDE DEF item
<1>2. CASE item.kind = "c" /\ item.arg \in 1 .. 255
  <2>1. Converted(item) = <<item.arg>> /\ Room(item) = 1
    BY <1>2 DEF Converted, Room
  <2>2. QED
    BY <1>2, <2>1 DEF item
<1>3. CASE item.kind = "s" /\ item.arg \in Seq(1 .. 255)
  <2>1. Converted(item) = item.arg /\ Room(item) = Len(item.arg)
    BY <1>3 DEF Converted, Room
  <2>2. QED
    BY <1>3, <2>1, LenProperties DEF item
<1>4. ASSUME item.kind \in {"d", "f"}, item.arg \in int
      PROVE  /\ Converted(item) \in Seq(1 .. 255)
             /\ Room(item) \in Nat /\ Len(Converted(item)) <= Room(item)
  <2>1. \A w \in Seq(DigitCodes) : w \in Seq(1 .. 255)
    <3> DEFINE B == 1 .. 255
    <3>1. DigitCodes \subseteq B
      BY DEF DigitCodes
    <3> HIDE DEF B
    <3>2. \A w \in Seq(DigitCodes) : w \in Seq(B)
      BY <3>1, SeqMonotonic, Zenon
    <3>3. QED
      BY <3>2 DEF B
  <2>2. CASE item.kind = "d"
    <3>1. Converted(item) = intToStr[item.arg] /\ Room(item) = 10
      BY <2>2 DEF Converted, Room
    <3>2. intToStr[item.arg] \in Seq(DigitCodes) /\ Len(intToStr[item.arg]) \in 1 .. 10
      BY <1>4, BuffersSuffice
    <3> DEFINE w == intToStr[item.arg]
    <3>3. w \in Seq(DigitCodes) /\ Len(w) \in 1 .. 10 /\ Converted(item) = w
      BY <3>1, <3>2
    <3> HIDE DEF w
    <3>4. Room(item) \in Nat /\ Len(w) <= Room(item)
      <4>1. Room(item) = 10
        BY <3>1
      <4>2. \A l \in 1 .. 10 : l <= 10
        OBVIOUS
      <4>3. Len(w) <= 10
        BY <3>3, <4>2, Zenon
      <4>4. QED
        BY <4>1, <4>3
    <3>5. QED
      BY <2>1, <3>3, <3>4, Zenon
  <2>3. CASE item.kind = "f"
    <3>1. Converted(item) = doubleToStr(item.arg) /\ Room(item) = 11
      BY <2>3 DEF Converted, Room
    <3>2. doubleToStr(item.arg) \in Seq(DigitCodes) /\ Len(doubleToStr(item.arg)) \in 5 .. 11
      BY <1>4, BuffersSuffice
    <3> DEFINE w == doubleToStr(item.arg)
    <3>3. w \in Seq(DigitCodes) /\ Len(w) \in 5 .. 11 /\ Converted(item) = w
      BY <3>1, <3>2
    <3> HIDE DEF w
    <3>4. Room(item) \in Nat /\ Len(w) <= Room(item)
      <4>1. Room(item) = 11
        BY <3>1
      <4>2. \A l \in 5 .. 11 : l <= 11
        OBVIOUS
      <4>3. Len(w) <= 11
        BY <3>3, <4>2, Zenon
      <4>4. QED
        BY <4>1, <4>3
    <3>5. QED
      BY <2>1, <3>3, <3>4, Zenon
  <2>4. QED
    BY <1>4, <2>2, <2>3
<1>5. QED
  BY <1>1, <1>2, <1>3, <1>4 DEF item

\* The loop of LCD_printf, turn by turn.
LEMMA PrintfLoop ==
  ASSUME NEW items, Len(items) \in Nat
  PROVE  \E t : /\ t[0] = <<>> /\ LCD_printf(items) = t[Len(items)]
                /\ \A n \in 1 .. Len(items) : t[n] = t[n - 1] \o Converted(items[n])
<1> DEFINE N == Len(items)
           C(t, n) == IF n = 0 THEN <<>> ELSE t[n - 1] \o Converted(items[n])
           T == {k \in Nat : \E t : t = [n \in 0 .. k |-> C(t, n)]}
<1>1. 0 \in T
  <2> DEFINE t == [n \in 0 .. 0 |-> <<>>]
  <2>1. t = [n \in 0 .. 0 |-> C(t, n)]
    OBVIOUS
  <2>2. QED
    BY <2>1
<1>2. ASSUME NEW k \in T
      PROVE  k + 1 \in T
  <2>1. PICK g : g = [n \in 0 .. k |-> C(g, n)]
    OBVIOUS
  <2> DEFINE f == [n \in 0 .. k + 1 |-> C(g, n)]
  <2>2. \A n \in 0 .. k : f[n] = g[n]
    <3>1. TAKE n \in 0 .. k
    <3>2. n \in 0 .. k + 1
      OBVIOUS
    <3>3. f[n] = C(g, n)
      BY <3>2
    <3>4. g[n] = C(g, n)
      BY <2>1
    <3>5. QED
      BY <3>3, <3>4
  <2>3. \A n \in 0 .. k + 1 : C(f, n) = C(g, n)
    <3>1. TAKE n \in 0 .. k + 1
    <3>2. n = 0 \/ n - 1 \in 0 .. k
      OBVIOUS
    <3> HIDE DEF f
    <3>3. QED
      BY <2>2, <3>2
  <2>4. f = [n \in 0 .. k + 1 |-> C(f, n)]
    BY <2>3
  <2>5. \E t : t = [n \in 0 .. k + 1 |-> C(t, n)]
    BY <2>4
  <2>6. QED
    BY <2>5
<1>3. T = Nat
  <2> HIDE DEF T
  <2>1. T \in SUBSET Nat
    BY DEF T
  <2>2. QED
    BY <1>1, <1>2, <2>1, Induction
<1>4. \E t : t = [n \in 0 .. N |-> C(t, n)]
  BY <1>3
<1> DEFINE c == CHOOSE t : t = [n \in 0 .. N |-> C(t, n)]
<1>5. LCD_printf(items) = c[N]
  BY DEF LCD_printf
<1>6. c = [n \in 0 .. N |-> C(c, n)]
  BY <1>4
<1> HIDE DEF c
<1>7. c[0] = <<>> /\ \A n \in 1 .. N : c[n] = c[n - 1] \o Converted(items[n])
  <2>1. \A n \in 0 .. N : c[n] = C(c, n)
    <3> HIDE DEF C
    <3>1. QED
      BY <1>6
  <2>2. 0 \in 0 .. N /\ \A n \in 1 .. N : n \in 0 .. N /\ n # 0
    OBVIOUS
  <2>3. QED
    BY <2>1, <2>2
<1>8. QED
  BY <1>5, <1>7

\* text[50] of LCD_printf: a caller whose items take less than that, reckoned with
\* ten characters for a %d and eleven for a %f, never overruns it, and no 0 ends
\* its text before the end.  sum is the room taken by the first items.
THEOREM TextFits ==
  ASSUME NEW items, Len(items) \in Nat, Items(items),
         NEW sum \in [0 .. Len(items) -> Nat], sum[0] = 0, sum[Len(items)] < 50,
         \A n \in 1 .. Len(items) : sum[n] = sum[n - 1] + Room(items[n])
  PROVE  LCD_printf(items) \in Seq(1 .. 255) /\ Len(LCD_printf(items)) < 50
<1> DEFINE N == Len(items)
<1>1. PICK t : /\ t[0] = <<>> /\ LCD_printf(items) = t[N]
               /\ \A n \in 1 .. N : t[n] = t[n - 1] \o Converted(items[n])
  BY PrintfLoop
<1> DEFINE Holds(k) == t[k] \in Seq(1 .. 255) /\ Len(t[k]) <= sum[k]
           T == {k \in Nat : k <= N => Holds(k)}
<1>2. 0 \in T
  <2>1. <<>> \in Seq(1 .. 255) /\ Len(<<>>) = 0
    BY EmptySeq
  <2>2. Holds(0)
    BY <1>1, <2>1
  <2>3. QED
    BY <2>2
<1>3. ASSUME NEW k \in T
      PROVE  k + 1 \in T
  <2>1. SUFFICES ASSUME k + 1 <= N
                 PROVE  Holds(k + 1)
    OBVIOUS
  <2>2. k + 1 \in 1 .. N /\ (k + 1) - 1 = k /\ k \in 0 .. N
    BY <2>1
  <2>3. t[k] \in Seq(1 .. 255) /\ Len(t[k]) <= sum[k]
    BY <2>2
  <2> DEFINE d == Converted(items[k + 1])
             r == Room(items[k + 1])
  <2>4. d \in Seq(1 .. 255) /\ r \in Nat /\ Len(d) <= r
    BY <2>2, ItemRoom
  <2>5. t[k + 1] = t[k] \o d /\ sum[k + 1] = sum[k] + r /\ sum[k] \in Nat
    BY <1>1, <2>2
  <2> HIDE DEF d, r
  <2>6. t[k] \o d \in Seq(1 .. 255) /\ Len(t[k] \o d) = Len(t[k]) + Len(d)
    BY <2>3, <2>4, ConcatProperties
  <2>7. Len(t[k]) \in Nat /\ Len(d) \in Nat
    BY <2>3, <2>4, LenProperties
  <2>8. QED
    BY <2>3, <2>4, <2>5, <2>6, <2>7
<1>4. T = Nat
  <2> HIDE DEF T
  <2>1. T \in SUBSET Nat
    BY DEF T
  <2>2. QED
    BY <1>2, <1>3, <2>1, Induction
<1>5. Holds(N)
  <2> HIDE DEF Holds
  <2>1. QED
    BY <1>4
<1>6. Len(t[N]) \in Nat /\ sum[N] \in Nat
  BY <1>5, LenProperties
<1>7. QED
  BY <1>1, <1>5, <1>6
=============================================================================
