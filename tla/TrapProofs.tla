------------------------------ MODULE TrapProofs ------------------------------
(****************************************************************************)
(* The machine traps of a hart, for every byte width, memory, register      *)
(* file, platform and set of faulting addresses: a trap never shows, the    *)
(* hart stops only for exceptions of its own firmware, and machine          *)
(* privilege stays in the guarded window.                                   *)
(****************************************************************************)
EXTENDS TrapHandling, TLAPS

------------------------------------------------------------------------------
(* Powers and digits. *)

\* Small powers of Base, and that all of them are positive.
LEMMA PowersUp ==
    /\ Base ^ 1 = Base
    /\ Base ^ 2 = Base * Base
    /\ \A n \in 0 .. XBytes : Base ^ n \in Nat /\ Base ^ n > 0
<1>1. Base \in Nat /\ Base > 1
  BY TrapAssumption
<1>2. \A n \in 0 .. 7 : Base ^ (n + 1) = Base * Base ^ n
  BY TrapAssumption DEF XBytes
<1>3. Base ^ 0 = 1
  BY TrapAssumption
<1>b. /\ Base ^ 1 = Base * Base ^ 0 /\ Base ^ 2 = Base * Base ^ 1 /\ Base ^ 3 = Base * Base ^ 2
      /\ Base ^ 4 = Base * Base ^ 3 /\ Base ^ 5 = Base * Base ^ 4 /\ Base ^ 6 = Base * Base ^ 5
      /\ Base ^ 7 = Base * Base ^ 6 /\ Base ^ 8 = Base * Base ^ 7
  <2>1. /\ 0 + 1 = 1 /\ 1 + 1 = 2 /\ 2 + 1 = 3 /\ 3 + 1 = 4 /\ 4 + 1 = 5 /\ 5 + 1 = 6 /\ 6 + 1 = 7 /\ 7 + 1 = 8
        /\ 0 \in 0 .. 7 /\ 1 \in 0 .. 7 /\ 2 \in 0 .. 7 /\ 3 \in 0 .. 7 /\ 4 \in 0 .. 7 /\ 5 \in 0 .. 7
        /\ 6 \in 0 .. 7 /\ 7 \in 0 .. 7
    OBVIOUS
  <2> QED
    BY <1>2, <2>1, Zenon
<1> DEFINE B == Base
<1>4. \A p \in Nat : p > 0 => B * p \in Nat /\ B * p > 0
  <2>1. B \in Nat /\ B > 1
    BY <1>1
  <2> HIDE DEF B
  <2> QED
    BY <2>1, Z3
<1>5. \A n \in 0 .. 8 : Base ^ n \in Nat /\ Base ^ n > 0
  <2>1. 1 \in Nat /\ 1 > 0
    OBVIOUS
  <2>2. Base ^ 0 \in Nat /\ Base ^ 0 > 0
    BY <1>3, <2>1
  <2>3. Base ^ 1 \in Nat /\ Base ^ 1 > 0
    BY <1>b, <1>4, <2>2, Zenon
  <2>4. Base ^ 2 \in Nat /\ Base ^ 2 > 0
    BY <1>b, <1>4, <2>3, Zenon
  <2>5. Base ^ 3 \in Nat /\ Base ^ 3 > 0
    BY <1>b, <1>4, <2>4, Zenon
  <2>6. Base ^ 4 \in Nat /\ Base ^ 4 > 0
    BY <1>b, <1>4, <2>5, Zenon
  <2>7. Base ^ 5 \in Nat /\ Base ^ 5 > 0
    BY <1>b, <1>4, <2>6, Zenon
  <2>8. Base ^ 6 \in Nat /\ Base ^ 6 > 0
    BY <1>b, <1>4, <2>7, Zenon
  <2>9. Base ^ 7 \in Nat /\ Base ^ 7 > 0
    BY <1>b, <1>4, <2>8, Zenon
  <2>10. Base ^ 8 \in Nat /\ Base ^ 8 > 0
    BY <1>b, <1>4, <2>9, Zenon
  <2>11. SUFFICES ASSUME NEW n \in 0 .. 8
                  PROVE  Base ^ n \in Nat /\ Base ^ n > 0
    OBVIOUS
  <2>12. n = 0 \/ n = 1 \/ n = 2 \/ n = 3 \/ n = 4 \/ n = 5 \/ n = 6 \/ n = 7 \/ n = 8
    BY <2>11
  <2> QED
    BY <2>12, <2>2, <2>3, <2>4, <2>5, <2>6, <2>7, <2>8, <2>9, <2>10, Zenon
<1>6. Base ^ 1 = Base
  BY <1>b, <1>3, <1>1
<1>7. Base ^ 2 = Base * Base
  BY <1>b, <1>6
<1> QED
  BY <1>5, <1>6, <1>7 DEF XBytes

\* Appending a digit below.
LEMMA AppendDigit ==
    ASSUME NEW v \in Nat, NEW d \in 0 .. Base - 1, NEW n \in 0 .. XBytes - 1, v < Base ^ n
    PROVE  /\ v * Base + d \in 0 .. Base ^ (n + 1) - 1
           /\ Digit(v * Base + d, 0) = d
           /\ \A k \in 0 .. XBytes - 1 : Digit(v * Base + d, k + 1) = Digit(v, k)
<1> DEFINE B == Base
<1>1. B \in Nat /\ B > 1
  BY TrapAssumption
<1> DEFINE P == Base ^ n
<1>2. P \in Nat /\ P > 0
  BY PowersUp DEF XBytes
<1>3. Base ^ (n + 1) = B * P
  BY TrapAssumption DEF XBytes
<1>4. v * B + d \in 0 .. B * P - 1
  <2>1. v < P /\ d \in 0 .. B - 1
    OBVIOUS
  <2> HIDE DEF B, P
  <2>2. v + 1 <= P
    BY <2>1, <1>2
  <2>3. (v + 1) * B <= P * B
    BY <2>2, <1>1, <1>2, Z3
  <2>4. (v + 1) * B = v * B + B /\ P * B = B * P /\ v * B \in Nat /\ B * P \in Nat
    BY <1>1, <1>2, Z3
  <2> QED
    BY <2>1, <2>3, <2>4, <1>1
<1>5. Digit(v * Base + d, 0) = d
  <2>1. ((v * B + d) \div 1) % B = d
    <3>1. d \in 0 .. B - 1
      OBVIOUS
    <3> HIDE DEF B
    <3>2. v * B \in Nat
      BY <1>1, Z3
    <3>3. (v * B + d) \div 1 = v * B + d
      BY <3>1, <3>2, <1>1
    <3>4. (v * B + d) % B = d
      BY <3>1, <1>1, Z3
    <3> QED
      BY <3>3, <3>4
  <2> QED
    BY <2>1, TrapAssumption DEF Digit
<1>6. ASSUME NEW k \in 0 .. XBytes - 1
      PROVE  Digit(v * Base + d, k + 1) = Digit(v, k)
  <2> DEFINE Q == Base ^ k
  <2>1. Q \in Nat /\ Q > 0
    BY PowersUp DEF XBytes
  <2>2. Base ^ (k + 1) = B * Q
    BY TrapAssumption DEF XBytes
  <2>3. (v * B + d) \div (B * Q) = v \div Q
    <3>1. d \in 0 .. B - 1
      OBVIOUS
    <3> HIDE DEF B, Q
    <3> DEFINE q == v \div Q
               r == v % Q
    <3>2. q \in Nat /\ r \in 0 .. Q - 1 /\ v = q * Q + r
      BY <2>1, Z3
    <3> HIDE DEF q, r
    <3>3. v * B = q * (B * Q) + r * B
      BY <3>2, <1>1, <2>1, Z3
    <3>4. r * B + d \in 0 .. B * Q - 1
      <4>1. (r + 1) * B <= Q * B
        BY <3>2, <1>1, <2>1, Z3
      <4>2. (r + 1) * B = r * B + B /\ Q * B = B * Q /\ r * B \in Nat /\ B * Q \in Nat
        BY <3>2, <1>1, <2>1, Z3
      <4> QED
        BY <4>1, <4>2, <3>1, <1>1
    <3>5. \A m \in Nat, s \in Nat : m > 0 /\ s < m => (q * m + s) \div m = q
      BY <3>2, Z3
    <3>6. B * Q \in Nat /\ B * Q > 0
      BY <1>1, <2>1, Z3
    <3>7. v * B + d = q * (B * Q) + (r * B + d)
      <4>1. q * (B * Q) \in Nat /\ r * B \in Nat
        BY <3>2, <1>1, <2>1, Z3
      <4> QED
        BY <3>3, <4>1, <3>1, <1>1
    <3>8. (v * B + d) \div (B * Q) = q
      BY <3>4, <3>5, <3>6, <3>7
    <3> QED
      BY <3>8 DEF q
  <2> QED
    BY <2>2, <2>3 DEF Digit
<1> QED
  BY <1>3, <1>4, <1>5, <1>6

\* A power divides the larger ones.
LEMMA PowersDivide ==
    ASSUME NEW i \in 0 .. XBytes, NEW j \in 0 .. XBytes, i <= j
    PROVE  \E m \in Nat : m > 0 /\ Base ^ j = m * Base ^ i
<1> DEFINE P(n) == i <= n => \E m \in Nat : m > 0 /\ Base ^ n = m * Base ^ i
<1>0. Base ^ i \in Nat /\ i \in 0 .. 8 /\ Base \in Nat /\ Base > 1
  BY PowersUp, TrapAssumption DEF XBytes
<1>1. \A n \in 0 .. 8 : i = n => P(n)
  <2>1. SUFFICES ASSUME NEW n \in 0 .. 8, i = n
                 PROVE  \E m \in Nat : m > 0 /\ Base ^ n = m * Base ^ i
    OBVIOUS
  <2>2. Base ^ n = 1 * Base ^ i
    BY <1>0, <2>1
  <2> QED
    BY <2>2
<1>2. \A n \in 0 .. 7 : P(n) => P(n + 1)
  <2>1. SUFFICES ASSUME NEW n \in 0 .. 7, P(n), i <= n + 1, i # n + 1
                 PROVE  \E m \in Nat : m > 0 /\ Base ^ (n + 1) = m * Base ^ i
    BY <1>1
  <2>2. i <= n
    BY <1>0, <2>1
  <2>3. PICK m \in Nat : m > 0 /\ Base ^ n = m * Base ^ i
    BY <2>1, <2>2
  <2>4. Base ^ (n + 1) = Base * Base ^ n
    BY TrapAssumption DEF XBytes
  <2>5. Base * (m * Base ^ i) = (Base * m) * Base ^ i /\ Base * m \in Nat /\ Base * m > 0
    <3> DEFINE b == Base
               q == Base ^ i
    <3>1. b \in Nat /\ b > 1 /\ q \in Nat
      BY <1>0
    <3> HIDE DEF b, q
    <3>2. b * (m * q) = (b * m) * q /\ b * m \in Nat /\ b * m > 0
      BY <3>1, <2>3, Z3
    <3> QED
      BY <3>2 DEF b, q
  <2>6. Base ^ (n + 1) = (Base * m) * Base ^ i
    BY <2>3, <2>4, <2>5
  <2> QED
    BY <2>5, <2>6, Zenon
<1>3. P(0)
  BY <1>0, <1>1
<1> HIDE DEF P
<1>4. P(1)
  <2>1. P(0 + 1)
    BY <1>2, <1>3
  <2> QED
    BY <2>1
<1>5. P(2)
  <2>1. P(1 + 1)
    BY <1>2, <1>4
  <2> QED
    BY <2>1
<1>6. P(3)
  <2>1. P(2 + 1)
    BY <1>2, <1>5
  <2> QED
    BY <2>1
<1>7. P(4)
  <2>1. P(3 + 1)
    BY <1>2, <1>6
  <2> QED
    BY <2>1
<1>8. P(5)
  <2>1. P(4 + 1)
    BY <1>2, <1>7
  <2> QED
    BY <2>1
<1>9. P(6)
  <2>1. P(5 + 1)
    BY <1>2, <1>8
  <2> QED
    BY <2>1
<1>10. P(7)
  <2>1. P(6 + 1)
    BY <1>2, <1>9
  <2> QED
    BY <2>1
<1>11. P(8)
  <2>1. P(7 + 1)
    BY <1>2, <1>10
  <2> QED
    BY <2>1
<1>12. j = 0 \/ j = 1 \/ j = 2 \/ j = 3 \/ j = 4 \/ j = 5 \/ j = 6 \/ j = 7 \/ j = 8
  BY DEF XBytes
<1>13. P(j)
  BY <1>12, <1>3, <1>4, <1>5, <1>6, <1>7, <1>8, <1>9, <1>10, <1>11, Zenon
<1> QED
  BY <1>13 DEF P

\* A digit is one.
LEMMA DigitIsOne ==
    ASSUME NEW v \in Int, NEW i \in 0 .. XBytes
    PROVE  Digit(v, i) \in 0 .. Base - 1
<1> DEFINE B == Base
           Q == Base ^ i
<1>1. B \in Nat /\ B > 1 /\ Q \in Nat /\ Q > 0
  BY TrapAssumption, PowersUp
<1> HIDE DEF B, Q
<1>2. v \div Q \in Int
  BY <1>1, Z3
<1>3. (v \div Q) % B \in 0 .. B - 1
  BY <1>1, <1>2, Z3
<1> QED
  BY <1>3 DEF Digit, B, Q

\* Sign and zero extension, digit by digit (ValueKind::extend).
LEMMA ExtendDigits ==
    ASSUME NEW kind \in Kinds, NEW raw \in Nat, raw < Base ^ kind.width
    PROVE  LET w == kind.width
               fill == IF kind.signed /\ 2 * Digit(raw, w - 1) >= Base THEN Base - 1 ELSE 0
           IN  /\ Extend(kind, raw) \in Int
               /\ \A i \in 0 .. XBytes - 1 :
                     Digit(Extend(kind, raw), i) = IF i < w THEN Digit(raw, i) ELSE fill
<1> DEFINE w == kind.width
           B == Base
           T == Base ^ w
           W == Word
<1>1. w \in {1, 2, 4, 8} /\ kind.signed \in BOOLEAN
  BY DEF Kinds
<1>2. B \in Nat /\ B > 1 /\ B % 2 = 0
  BY TrapAssumption
<1>3. w \in 0 .. XBytes /\ w - 1 \in 0 .. XBytes - 1
  BY <1>1 DEF XBytes
<1>4. T \in Nat /\ T > 0 /\ W \in Nat
  BY <1>3, PowersUp DEF Word, XBytes
<1>5. ASSUME NEW i \in 0 .. XBytes - 1, i < w
      PROVE  Digit(raw + W - T, i) = Digit(raw, i)
  <2>0. i + 1 \in 0 .. XBytes /\ i + 1 <= w /\ i + 1 <= XBytes /\ XBytes \in 0 .. XBytes /\ w <= XBytes
    BY <1>3, <1>5 DEF XBytes
  <2>1. PICK m2 \in Nat : m2 > 0 /\ T = m2 * Base ^ (i + 1)
    BY <2>0, <1>3, PowersDivide
  <2>2. PICK m3 \in Nat : m3 > 0 /\ W = m3 * T
    BY <2>0, <1>3, PowersDivide DEF Word
  <2> DEFINE Q == Base ^ i
  <2>3. Base ^ (i + 1) = B * Q
    BY TrapAssumption
  <2>4. Q \in Nat /\ Q > 0
    BY PowersUp DEF XBytes
  <2>4a. raw < T
    OBVIOUS
  <2>5. T = m2 * (B * Q) /\ W = m3 * T
    BY <2>1, <2>2, <2>3
  <2> HIDE DEF B, Q, T, W
  <2> DEFINE c == (m3 - 1) * m2
             q == raw \div Q
             r == raw % Q
  <2>6. c \in Nat
    BY <2>1, <2>2, Z3
  <2>7. q \in Nat /\ r \in 0 .. Q - 1 /\ raw = q * Q + r
    BY <2>4, Z3
  <2>8. W - T = (c * B) * Q
    <3>1. W - T = (m3 - 1) * T
      BY <2>5, <1>4, <2>2, Z3
    <3>2. (m3 - 1) * (m2 * (B * Q)) = (((m3 - 1) * m2) * B) * Q
      BY <2>1, <2>2, <1>2, <2>4, Z3
    <3> QED
      BY <3>1, <3>2, <2>5
  <2> HIDE DEF c, q, r
  <2>9. raw + W - T = (q + c * B) * Q + r
    <3>0. c * B \in Nat
      BY <2>6, <1>2, Z3
    <3> DEFINE e == c * B
    <3> HIDE DEF e
    <3>1. e \in Nat
      BY <3>0 DEF e
    <3>2. (q + e) * Q + r = q * Q + e * Q + r /\ q * Q \in Nat /\ e * Q \in Nat
      BY <3>1, <2>4, <2>7, Z3
    <3>3. W - T = e * Q
      BY <2>8 DEF e
    <3>4. raw + W - T = (q + e) * Q + r
      BY <3>2, <3>3, <2>7, <1>4
    <3> QED
      BY <3>4 DEF e
  <2>10. q + c * B \in Nat
    BY <2>6, <2>7, <1>2, Z3
  <2>11. \A n \in Nat : (n * Q + r) \div Q = n
    BY <2>4, <2>7, Z3
  <2>12. (raw + W - T) \div Q = q + c * B
    BY <2>9, <2>10, <2>11
  <2>13. (q + c * B) % B = q % B
    <3> DEFINE q1 == q \div B
               r1 == q % B
    <3>1. q1 \in Nat /\ r1 \in 0 .. B - 1 /\ q = q1 * B + r1
      BY <2>7, <1>2, Z3
    <3> HIDE DEF q1, r1
    <3>2. q + c * B = (q1 + c) * B + r1
      BY <3>1, <2>6, <1>2, Z3
    <3>3. q1 + c \in Nat
      BY <3>1, <2>6
    <3> DEFINE n == q1 + c
    <3> HIDE DEF n
    <3>4. (n * B + r1) % B = r1
      <4>1. n \in Nat /\ r1 \in 0 .. B - 1
        BY <3>1, <3>3 DEF n
      <4>2. B \in Nat /\ B > 1
        BY <1>2
      <4> QED
        BY <4>1, <4>2, Z3
    <3>5. (q + c * B) % B = r1
      BY <3>2, <3>4 DEF n
    <3> QED
      BY <3>5 DEF r1
  <2> QED
    BY <2>12, <2>13 DEF Digit, q, B, Q
<1>6. ASSUME NEW i \in 0 .. XBytes - 1, i >= w
      PROVE  Digit(raw, i) = 0 /\ Digit(raw + W - T, i) = B - 1
  <2>0. i \in 0 .. XBytes /\ i + 1 \in 0 .. XBytes /\ i + 1 <= XBytes /\ XBytes \in 0 .. XBytes
    BY <1>3, <1>6 DEF XBytes
  <2> DEFINE Q == Base ^ i
  <2>1. Q \in Nat /\ Q > 0
    BY <2>0, PowersUp
  <2>2. PICK m \in Nat : m > 0 /\ W = m * Base ^ (i + 1)
    BY <2>0, PowersDivide DEF Word
  <2>3. PICK n \in Nat : n > 0 /\ Q = n * T
    BY <2>0, <1>3, <1>6, PowersDivide
  <2>4. Base ^ (i + 1) = B * Q
    BY TrapAssumption
  <2>5. W = m * (B * Q) /\ Q = n * T /\ raw < T
    BY <2>2, <2>3, <2>4
  <2> HIDE DEF B, Q, T, W
  <2>6. T <= Q
    BY <2>3, <2>5, <1>4, Z3
  <2>7. raw < Q
    BY <2>5, <2>6, <2>1, <1>4
  <2>8. raw \div Q = 0
    BY <2>7, <2>1, Z3
  <2>9. 0 % B = 0
    BY <1>2, Z3
  <2> DEFINE e == m * B
             s == raw + Q - T
  <2>10. e \in Nat /\ e > 0
    BY <2>2, <1>2, Z3
  <2>11. s \in 0 .. Q - 1
    BY <2>5, <2>6, <2>1, <1>4
  <2>12. W = e * Q
    BY <2>5, <2>2, <1>2, <2>1, Z3
  <2>13. e % B = 0 /\ (e - 1) % B = B - 1
    BY <2>2, <1>2, <2>10, Z3
  <2> HIDE DEF e
  <2>14. e * Q = (e - 1) * Q + Q /\ (e - 1) * Q \in Nat
    BY <2>10, <2>1, Z3
  <2>15. raw + W - T = (e - 1) * Q + s
    BY <2>12, <2>14, <2>1, <1>4, <2>11
  <2> HIDE DEF s
  <2>16. ((e - 1) * Q + s) \div Q = e - 1
    BY <2>10, <2>11, <2>1, Z3
  <2> QED
    BY <2>8, <2>9, <2>13, <2>15, <2>16 DEF Digit, B, Q
<1>7. (2 * raw >= T) <=> (2 * Digit(raw, w - 1) >= B)
  <2> DEFINE Q == Base ^ (w - 1)
  <2>1. Q \in Nat /\ Q > 0
    BY <1>3, PowersUp DEF XBytes
  <2>2. T = B * Q
    <3>1. Base ^ ((w - 1) + 1) = B * Q
      BY <1>3, TrapAssumption
    <3> QED
      BY <3>1, <1>1
  <2>3. raw < T
    OBVIOUS
  <2> HIDE DEF B, Q, T
  <2> DEFINE q == raw \div Q
             r == raw % Q
  <2>4. q \in Nat /\ r \in 0 .. Q - 1 /\ raw = q * Q + r
    BY <2>1, Z3
  <2> HIDE DEF q, r
  <2>5. q < B
    BY <2>2, <2>3, <2>4, <2>1, <1>2, Z3
  <2>6. q % B = q
    BY <2>5, <2>4, <1>2, Z3
  <2>7. ASSUME 2 * q >= B
        PROVE  2 * raw >= T
    BY <2>7, <2>2, <2>4, <2>1, <1>2, Z3
  <2>8. ASSUME 2 * q < B
        PROVE  2 * raw < T
    <3>1. 2 * q <= B - 2
      BY <2>8, <2>4, <1>2, Z3
    <3>2. (2 * q) * Q <= (B - 2) * Q
      BY <3>1, <2>4, <2>1, <1>2, Z3
    <3>3. (B - 2) * Q = B * Q - 2 * Q /\ (2 * q) * Q = 2 * (q * Q) /\ q * Q \in Nat /\ B * Q \in Nat
      BY <2>4, <2>1, <1>2, Z3
    <3> QED
      BY <3>2, <3>3, <2>1, <2>2, <2>4
  <2> QED
    BY <2>6, <2>7, <2>8, <2>4, <1>2, <1>4 DEF Digit, q, B, Q
<1> DEFINE neg == kind.signed /\ 2 * raw >= T
<1>8. Extend(kind, raw) = IF neg THEN raw + W - T ELSE raw
  BY DEF Extend
<1>9. Extend(kind, raw) \in Int
  BY <1>8, <1>4
<1>10. ASSUME NEW i \in 0 .. XBytes - 1
       PROVE  Digit(Extend(kind, raw), i)
                = IF i < w THEN Digit(raw, i)
                  ELSE IF kind.signed /\ 2 * Digit(raw, w - 1) >= B THEN B - 1 ELSE 0
  <2>1. CASE i < w
    <3>1. Digit(raw + W - T, i) = Digit(raw, i)
      BY <1>5, <2>1
    <3>2. Digit(Extend(kind, raw), i) = Digit(raw, i)
      BY <1>8, <3>1, Zenon
    <3> QED
      BY <2>1, <3>2, Zenon
  <2>2. CASE ~(i < w)
    <3>1. Digit(raw, i) = 0 /\ Digit(raw + W - T, i) = B - 1
      <4>1. i >= w
        BY <2>2, <1>3 DEF XBytes
      <4> QED
        BY <1>6, <4>1
    <3>2. Digit(Extend(kind, raw), i) = IF neg THEN B - 1 ELSE 0
      BY <1>8, <3>1, Zenon
    <3>3. neg <=> (kind.signed /\ 2 * Digit(raw, w - 1) >= B)
      BY <1>7, Zenon
    <3> QED
      BY <2>2, <3>2, <3>3, Zenon
  <2> QED
    BY <2>1, <2>2
<1> QED
  BY <1>9, <1>10

------------------------------------------------------------------------------
(* Guarded accesses. *)

\* The widths a ValueKind has.
LEMMA KindFacts ==
    ASSUME NEW k \in Kinds
    PROVE  k.width \in {1, 2, 4, 8} /\ k.signed \in BOOLEAN
  BY DEF Kinds

\* What an instruction is made of.
LEMMA InsnFacts ==
    ASSUME NEW n \in Insns
    PROVE  /\ n.kind \in Kinds /\ n.kind.width \in {1, 2, 4, 8} /\ n.kind.signed \in BOOLEAN
           /\ n.reg \in Regs /\ n.len \in {2, 4}
           /\ n.op \in {"load", "store", "time", "othercsr", "other"}
           /\ n.op # "other" => n.len = 4
           /\ n.op \in {"load", "store"} => n.reg \in {0, 8}
<1>1. ByteKind \in Kinds
  BY DEF ByteKind, Kinds
<1>2. /\ n.kind \in Kinds
      /\ n.reg \in Regs /\ n.len \in {2, 4}
      /\ n.op \in {"load", "store", "time", "othercsr", "other"}
      /\ n.op # "other" => n.len = 4
      /\ n.op \in {"load", "store"} => n.reg \in {0, 8}
  BY <1>1 DEF Insns, Loads, Stores, CsrReads, Others, Regs
<1> QED
  BY <1>2, KindFacts

\* What a trap of the lower context is, by its cause.
LEMMA TrappingFacts ==
    ASSUME NEW t \in Trappings
    PROVE  /\ t \in Traps
           /\ t.cause # 0 /\ (t.cause < Irq \/ t.cause \in {MSOFT, MTIMER, MEXT})
           /\ t.cause \in {LOAD_MISALIGNED, LOAD_FAULT} => t.insn.op \in {"load", "other"}
           /\ t.cause \in {STORE_MISALIGNED, STORE_FAULT} => t.insn.op \in {"store", "other"}
           /\ t.cause = ILLEGAL_INSTRUCTION => t.insn.op \in {"time", "othercsr", "other"}
           /\ t.cause \in {LOAD_MISALIGNED, STORE_MISALIGNED} => t.tval = 1
           /\ t.cause = ECALL_FROM_S => t.origin = "S"
<1> DEFINE Of(causes, tvals, insns, bads, xonlys, pages) ==
            [cause : causes, tval : tvals, insn : insns, origin : {"U", "S"}, bad : bads, xonly : xonlys, page : pages]
           Fetched(sets) == {b \in sets : b \cap DataAddrs = {}}
<1>1. \/ t \in Of({LOAD_MISALIGNED}, {1}, Loads, FaultSets, {{}}, BOOLEAN)
      \/ t \in Of({LOAD_MISALIGNED}, {1}, Loads, {{}}, XonlySets, {TRUE})
      \/ t \in Of({STORE_MISALIGNED}, {1}, Stores, FaultSets, {{}}, BOOLEAN)
      \/ t \in Of({ILLEGAL_INSTRUCTION}, {0, 1}, CsrReads \cup Others, Fetched(FaultSets), {{}}, BOOLEAN)
      \/ t \in Of({ILLEGAL_INSTRUCTION}, {0, 1}, CsrReads \cup Others, {{}}, Fetched(XonlySets), {TRUE})
      \/ t \in Of({LOAD_FAULT}, {1}, Loads, {{}}, {{}}, {FALSE})
      \/ t \in Of({STORE_FAULT}, {1}, Stores, {{}}, {{}}, {FALSE})
      \/ t \in Of({LOAD_MISALIGNED, STORE_MISALIGNED, LOAD_FAULT, STORE_FAULT, LOAD_PAGE, MSOFT, MTIMER, MEXT},
             {1}, Others, {{}}, {{}}, {FALSE})
      \/ t \in Of({ECALL_FROM_S}, {0}, Others, {{}}, {{}}, {FALSE}) /\ t.origin = "S"
  BY Zenon DEF Trappings
<1>2. Loads \subseteq Insns /\ Stores \subseteq Insns /\ CsrReads \subseteq Insns /\ Others \subseteq Insns
  BY DEF Insns
<1>3. /\ \A n \in Loads : n.op = "load"
      /\ \A n \in Stores : n.op = "store"
      /\ \A n \in CsrReads : n.op \in {"time", "othercsr"}
      /\ \A n \in Others : n.op = "other"
  BY DEF Loads, Stores, CsrReads, Others
<1>4. /\ FaultSets \subseteq SUBSET Int /\ XonlySets \subseteq SUBSET Int /\ {{}} \subseteq SUBSET Int
      /\ Fetched(FaultSets) \subseteq SUBSET Int /\ Fetched(XonlySets) \subseteq SUBSET Int
  BY TrapAssumption
<1> HIDE DEF Of, Fetched
<1>9. /\ t \in Traps
      /\ \/ t.cause \in {LOAD_MISALIGNED} /\ t.tval \in {1} /\ t.insn \in Loads
         \/ t.cause \in {STORE_MISALIGNED} /\ t.tval \in {1} /\ t.insn \in Stores
         \/ t.cause \in {ILLEGAL_INSTRUCTION} /\ t.insn \in CsrReads \cup Others
         \/ t.cause \in {LOAD_FAULT} /\ t.insn \in Loads
         \/ t.cause \in {STORE_FAULT} /\ t.insn \in Stores
         \/ /\ t.cause \in {LOAD_MISALIGNED, STORE_MISALIGNED, LOAD_FAULT, STORE_FAULT, LOAD_PAGE, MSOFT, MTIMER, MEXT}
            /\ t.tval \in {1} /\ t.insn \in Others
         \/ t.cause \in {ECALL_FROM_S} /\ t.insn \in Others /\ t.origin = "S"
  <2>1. CASE t \in Of({LOAD_MISALIGNED}, {1}, Loads, FaultSets, {{}}, BOOLEAN)
    <3>0. t \in Of({LOAD_MISALIGNED}, {1}, Loads, SUBSET Int, SUBSET Int, BOOLEAN)
      BY <1>4, <2>1 DEF Of
    <3>1. t \in Traps /\ t.cause \in {LOAD_MISALIGNED} /\ t.tval \in {1} /\ t.insn \in Loads
      BY <3>0, <1>2 DEF Of, Traps, Causes, Irq, MSOFT, MTIMER, MEXT, LOAD_MISALIGNED, LOAD_FAULT,
           STORE_MISALIGNED, STORE_FAULT, ILLEGAL_INSTRUCTION, ECALL_FROM_S, LOAD_PAGE
    <3> QED
      BY <3>1, Zenon
  <2>2. CASE t \in Of({LOAD_MISALIGNED}, {1}, Loads, {{}}, XonlySets, {TRUE})
    <3>0. t \in Of({LOAD_MISALIGNED}, {1}, Loads, SUBSET Int, SUBSET Int, BOOLEAN)
      BY <1>4, <2>2 DEF Of
    <3>1. t \in Traps /\ t.cause \in {LOAD_MISALIGNED} /\ t.tval \in {1} /\ t.insn \in Loads
      BY <3>0, <1>2 DEF Of, Traps, Causes, Irq, MSOFT, MTIMER, MEXT, LOAD_MISALIGNED, LOAD_FAULT,
           STORE_MISALIGNED, STORE_FAULT, ILLEGAL_INSTRUCTION, ECALL_FROM_S, LOAD_PAGE
    <3> QED
      BY <3>1, Zenon
  <2>3. CASE t \in Of({STORE_MISALIGNED}, {1}, Stores, FaultSets, {{}}, BOOLEAN)
    <3>0. t \in Of({STORE_MISALIGNED}, {1}, Stores, SUBSET Int, SUBSET Int, BOOLEAN)
      BY <1>4, <2>3 DEF Of
    <3>1. t \in Traps /\ t.cause \in {STORE_MISALIGNED} /\ t.tval \in {1} /\ t.insn \in Stores
      BY <3>0, <1>2 DEF Of, Traps, Causes, Irq, MSOFT, MTIMER, MEXT, LOAD_MISALIGNED, LOAD_FAULT,
           STORE_MISALIGNED, STORE_FAULT, ILLEGAL_INSTRUCTION, ECALL_FROM_S, LOAD_PAGE
    <3> QED
      BY <3>1, Zenon
  <2>4. CASE t \in Of({ILLEGAL_INSTRUCTION}, {0, 1}, CsrReads \cup Others, Fetched(FaultSets), {{}}, BOOLEAN)
    <3>0. t \in Of({ILLEGAL_INSTRUCTION}, {0, 1}, CsrReads \cup Others, SUBSET Int, SUBSET Int, BOOLEAN)
      BY <1>4, <2>4 DEF Of
    <3>1. t \in Traps /\ t.cause \in {ILLEGAL_INSTRUCTION} /\ t.insn \in CsrReads \cup Others
      BY <3>0, <1>2 DEF Of, Traps, Causes, Irq, MSOFT, MTIMER, MEXT, LOAD_MISALIGNED, LOAD_FAULT,
           STORE_MISALIGNED, STORE_FAULT, ILLEGAL_INSTRUCTION, ECALL_FROM_S, LOAD_PAGE
    <3> QED
      BY <3>1, Zenon
  <2>5. CASE t \in Of({ILLEGAL_INSTRUCTION}, {0, 1}, CsrReads \cup Others, {{}}, Fetched(XonlySets), {TRUE})
    <3>0. t \in Of({ILLEGAL_INSTRUCTION}, {0, 1}, CsrReads \cup Others, SUBSET Int, SUBSET Int, BOOLEAN)
      BY <1>4, <2>5 DEF Of
    <3>1. t \in Traps /\ t.cause \in {ILLEGAL_INSTRUCTION} /\ t.insn \in CsrReads \cup Others
      BY <3>0, <1>2 DEF Of, Traps, Causes, Irq, MSOFT, MTIMER, MEXT, LOAD_MISALIGNED, LOAD_FAULT,
           STORE_MISALIGNED, STORE_FAULT, ILLEGAL_INSTRUCTION, ECALL_FROM_S, LOAD_PAGE
    <3> QED
      BY <3>1, Zenon
  <2>6. CASE t \in Of({LOAD_FAULT}, {1}, Loads, {{}}, {{}}, {FALSE})
    <3>0. t \in Of({LOAD_FAULT}, {1}, Loads, SUBSET Int, SUBSET Int, BOOLEAN)
      BY <1>4, <2>6 DEF Of
    <3>1. t \in Traps /\ t.cause \in {LOAD_FAULT} /\ t.insn \in Loads
      BY <3>0, <1>2 DEF Of, Traps, Causes, Irq, MSOFT, MTIMER, MEXT, LOAD_MISALIGNED, LOAD_FAULT,
           STORE_MISALIGNED, STORE_FAULT, ILLEGAL_INSTRUCTION, ECALL_FROM_S, LOAD_PAGE
    <3> QED
      BY <3>1, Zenon
  <2>7. CASE t \in Of({STORE_FAULT}, {1}, Stores, {{}}, {{}}, {FALSE})
    <3>0. t \in Of({STORE_FAULT}, {1}, Stores, SUBSET Int, SUBSET Int, BOOLEAN)
      BY <1>4, <2>7 DEF Of
    <3>1. t \in Traps /\ t.cause \in {STORE_FAULT} /\ t.insn \in Stores
      BY <3>0, <1>2 DEF Of, Traps, Causes, Irq, MSOFT, MTIMER, MEXT, LOAD_MISALIGNED, LOAD_FAULT,
           STORE_MISALIGNED, STORE_FAULT, ILLEGAL_INSTRUCTION, ECALL_FROM_S, LOAD_PAGE
    <3> QED
      BY <3>1, Zenon
  <2>8. CASE t \in Of({LOAD_MISALIGNED, STORE_MISALIGNED, LOAD_FAULT, STORE_FAULT, LOAD_PAGE, MSOFT, MTIMER, MEXT},
             {1}, Others, {{}}, {{}}, {FALSE})
    <3>0. t \in Of({LOAD_MISALIGNED, STORE_MISALIGNED, LOAD_FAULT, STORE_FAULT, LOAD_PAGE, MSOFT, MTIMER, MEXT},
             {1}, Others, SUBSET Int, SUBSET Int, BOOLEAN)
      BY <1>4, <2>8 DEF Of
    <3>1. t \in Traps /\ t.cause \in {LOAD_MISALIGNED, STORE_MISALIGNED, LOAD_FAULT, STORE_FAULT, LOAD_PAGE, MSOFT, MTIMER, MEXT} /\ t.tval \in {1} /\ t.insn \in Others
      BY <3>0, <1>2 DEF Of, Traps, Causes, Irq, MSOFT, MTIMER, MEXT, LOAD_MISALIGNED, LOAD_FAULT,
           STORE_MISALIGNED, STORE_FAULT, ILLEGAL_INSTRUCTION, ECALL_FROM_S, LOAD_PAGE
    <3> QED
      BY <3>1, Zenon
  <2>9. CASE t \in Of({ECALL_FROM_S}, {0}, Others, {{}}, {{}}, {FALSE}) /\ t.origin = "S"
    <3>0. t \in Of({ECALL_FROM_S}, {0}, Others, SUBSET Int, SUBSET Int, BOOLEAN)
      BY <1>4, <2>9 DEF Of
    <3>1. t \in Traps /\ t.cause \in {ECALL_FROM_S} /\ t.insn \in Others
      BY <3>0, <1>2 DEF Of, Traps, Causes, Irq, MSOFT, MTIMER, MEXT, LOAD_MISALIGNED, LOAD_FAULT,
           STORE_MISALIGNED, STORE_FAULT, ILLEGAL_INSTRUCTION, ECALL_FROM_S, LOAD_PAGE
    <3> QED
      BY <3>1, <2>9, Zenon
  <2> QED
    BY <1>1, <2>1, <2>2, <2>3, <2>4, <2>5, <2>6, <2>7, <2>8, <2>9, Zenon
<1> QED
  BY <1>3, <1>9 DEF Irq, MSOFT, MTIMER, MEXT, LOAD_MISALIGNED, LOAD_FAULT, STORE_MISALIGNED, STORE_FAULT,
     ILLEGAL_INSTRUCTION, ECALL_FROM_S, LOAD_PAGE

\* The exceptions a guarded instruction can raise.
LEMMA GuardFaults == GuardFault \in {0, ILLEGAL_INSTRUCTION, LOAD_FAULT, LOAD_PAGE, STORE_FAULT, STORE_PAGE}
  BY DEF GuardFault, FaultUnder

\* At the guarded instruction the window is open.
LEMMA WindowIsOpen ==
    ASSUME TrapTypeOK, OnCourse, at = "access"
    PROVE  GuardFault = WindowFault
<1>1. HomeStatus \in Statuses
  BY DEF HomeStatus, LowerStatus, Statuses, TrapTypeOK, Ghosts
<1>2. csr.mstatus = [HomeStatus EXCEPT !.mprv = TRUE, !.mxr = TRUE]
  BY DEF OnCourse, ControlHolds
<1>3. csr.mstatus.mxr = TRUE
  BY <1>1, <1>2 DEF Statuses
<1> QED
  BY <1>3 DEF GuardFault, WindowFault

\* An exception in M-mode leaves the CSRs well-typed.
LEMMA MachineFaultTypes ==
    ASSUME TrapTypeOK, NEW cause \in Int, NEW tval \in Int, NEW pc \in Int, MachineFault(cause, tval, pc)
    PROVE  csr' \in CsrFiles
<1>1. csr \in CsrFiles /\ csr.mstatus \in Statuses
  BY DEF TrapTypeOK, CsrFiles
<1>2. [csr.mstatus EXCEPT !.mpp = "M"] \in Statuses
  BY <1>1 DEF Statuses
<1>3. csr' = [csr EXCEPT !.mepc = pc, !.mcause = cause, !.mtval = tval, !.mstatus = [csr.mstatus EXCEPT !.mpp = "M"]]
  BY <1>1 DEF MachineFault, CsrFiles
<1> QED
  BY <1>1, <1>2, <1>3 DEF CsrFiles

\* A step that leaves the access where it is leaves its data where they are.
LEMMA DataIsStable ==
    ASSUME DataHolds, low' = low, trap' = trap, Home' = Home, Closed' <=> Closed,
           fw'.record.trapped <=> fw.record.trapped, fw'.guard.addr = fw.guard.addr, fw'.guard.data = fw.guard.data,
           fw'.frame = fw.frame, fw'.i = fw.i, fw'.data = fw.data
    PROVE  DataHolds'
<1>1. HoldsHighest(fw.data, fw.i)' <=> HoldsHighest(fw.data, fw.i)
  BY DEF HoldsHighest
<1>2. LowestStored(IF Closed /\ ~fw.record.trapped THEN fw.i + 1 ELSE fw.i)'
      <=> LowestStored(IF Closed /\ ~fw.record.trapped THEN fw.i + 1 ELSE fw.i)
  BY DEF LowestStored
<1>3. NoRedirect' <=> NoRedirect
  BY DEF NoRedirect
<1> QED
  BY <1>1, <1>2, <1>3 DEF DataHolds

\* csrw mscratch and the address of the guarded instruction.
LEMMA PublishRecordKeeps ==
    ASSUME TrapInv, ~trap.stray, PublishRecord
    PROVE  TrapInv'
<1>1. TrapTypeOK /\ OnCourse
  BY DEF TrapInv
<1>2. at = "publish" /\ at' = "window" /\ plat' = plat /\ low' = low /\ trap' = trap
  BY <1>1 DEF PublishRecord, OnCourse, ControlHolds, Window, Places, TrapTypeOK, Firmwares, Guards, Returns
<1>3. TrapTypeOK'
  BY <1>1 DEF TrapTypeOK, PublishRecord, CsrFiles, Firmwares, Records, Guards, Statuses
<1>4. fw'.guard.what = fw.guard.what /\ fw'.guard.addr = fw.guard.addr /\ fw'.guard.ret = fw.guard.ret
      /\ fw'.guard.prev = fw.guard.prev /\ fw'.guard.data = fw.guard.data /\ fw'.record.mask = fw.record.mask
      /\ fw'.phase = fw.phase /\ fw'.sstc = fw.sstc /\ fw'.frame = fw.frame /\ fw'.facts = fw.facts
      /\ fw'.insn = fw.insn /\ fw'.i = fw.i /\ fw'.data = fw.data
  BY <1>1 DEF PublishRecord, TrapTypeOK, Firmwares, Records, Guards
<1>5. Home' = Home /\ HomeStatus' = HomeStatus /\ WindowFault' = WindowFault /\ Home \in Returns /\ Home = fw.guard.ret
  BY <1>1, <1>2, <1>4 DEF Home, HomeStatus, WindowFault, FaultUnder, Window, Returns, OnCourse, Places
<1>6. Places'
  BY <1>1, <1>2, <1>4 DEF OnCourse, Places, Window, Emulating, Returns, BootPlaces
<1>7. ControlHolds'
  BY <1>1, <1>2, <1>4, <1>5 DEF OnCourse, ControlHolds, PublishRecord, TrapTypeOK, Firmwares, CsrFiles, Guards, Statuses, Window, Returns
<1>8. PhaseHolds'
  BY <1>1, <1>2, <1>4, <1>5 DEF OnCourse, PhaseHolds
<1>9. GuardHolds'
  BY <1>1, <1>2, <1>4, <1>5 DEF OnCourse, GuardHolds
<1>10. RecordHolds'
  BY <1>1, <1>2, <1>4, <1>5 DEF OnCourse, RecordHolds, PublishRecord, TrapTypeOK, Firmwares, Records, Closed, Returns
<1>11. FactsHold'
  BY <1>1, <1>2, <1>4, <1>5 DEF OnCourse, FactsHold, Returns
<1>12. DataHolds'
  <2>1. (fw'.record.trapped <=> fw.record.trapped) /\ (Closed' <=> Closed)
    BY <1>1, <1>2, <1>5 DEF PublishRecord, TrapTypeOK, Firmwares, Records, Closed, Returns
  <2> QED
    BY <1>1, <1>2, <1>4, <1>5, <2>1, DataIsStable DEF OnCourse
<1>13. OutcomeHolds'
  BY <1>2 DEF OutcomeHolds, TrapsAreTransparent, Returns
<1> QED
  BY <1>1, <1>2, <1>3, <1>6, <1>7, <1>8, <1>9, <1>10, <1>11, <1>12, <1>13
  DEF TrapInv, OnCourse, StopsForStraysOnly, LowerCannotStop, StrayStops, Returns

\* MPRV is set, and the old mstatus kept.
LEMMA OpenWindowKeeps ==
    ASSUME TrapInv, ~trap.stray, OpenWindow
    PROVE  TrapInv'
<1>1. TrapTypeOK /\ OnCourse
  BY DEF TrapInv
<1>2. at = "window" /\ at' = "access" /\ plat' = plat /\ low' = low /\ trap' = trap
  BY <1>1 DEF OpenWindow, OnCourse, ControlHolds, Window, Places, TrapTypeOK, Firmwares, Guards, Returns
<1>3. TrapTypeOK'
  BY <1>1 DEF TrapTypeOK, OpenWindow, CsrFiles, Firmwares, Records, Guards, Statuses
<1>4. fw'.guard.what = fw.guard.what /\ fw'.guard.addr = fw.guard.addr /\ fw'.guard.ret = fw.guard.ret
      /\ fw'.guard.prev = fw.guard.prev /\ fw'.guard.data = fw.guard.data /\ fw'.record.mask = fw.record.mask
      /\ fw'.phase = fw.phase /\ fw'.sstc = fw.sstc /\ fw'.frame = fw.frame /\ fw'.facts = fw.facts
      /\ fw'.insn = fw.insn /\ fw'.i = fw.i /\ fw'.data = fw.data
  BY <1>1 DEF OpenWindow, TrapTypeOK, Firmwares, Records, Guards
<1>5. Home' = Home /\ HomeStatus' = HomeStatus /\ WindowFault' = WindowFault /\ Home \in Returns /\ Home = fw.guard.ret
  BY <1>1, <1>2, <1>4 DEF Home, HomeStatus, WindowFault, FaultUnder, Window, Returns, OnCourse, Places
<1>6. Places'
  BY <1>1, <1>2, <1>4 DEF OnCourse, Places, Window, Emulating, Returns, BootPlaces
<1>a. csr'.mstatus = [csr.mstatus EXCEPT !.mprv = TRUE, !.mxr = TRUE] /\ fw'.guard.a3 = csr.mstatus
      /\ csr'.mtvec = csr.mtvec /\ csr'.mscratch = csr.mscratch
  BY <1>1 DEF OpenWindow, TrapTypeOK, Firmwares, CsrFiles, Guards
<1>7. ControlHolds'
  BY <1>1, <1>2, <1>4, <1>5, <1>a DEF OnCourse, ControlHolds, Window, Returns
<1>8. PhaseHolds'
  BY <1>1, <1>2, <1>4, <1>5 DEF OnCourse, PhaseHolds
<1>9. GuardHolds'
  BY <1>1, <1>2, <1>4, <1>5 DEF OnCourse, GuardHolds
<1>10. RecordHolds'
  BY <1>1, <1>2, <1>4, <1>5 DEF OnCourse, RecordHolds, OpenWindow, TrapTypeOK, Firmwares, Records, Closed, Returns
<1>11. FactsHold'
  BY <1>1, <1>2, <1>4, <1>5 DEF OnCourse, FactsHold, Returns
<1>12. DataHolds'
  <2>1. (fw'.record.trapped <=> fw.record.trapped) /\ (Closed' <=> Closed)
    BY <1>1, <1>2, <1>5 DEF OpenWindow, TrapTypeOK, Firmwares, Records, Closed, Returns
  <2> QED
    BY <1>1, <1>2, <1>4, <1>5, <2>1, DataIsStable DEF OnCourse
<1>13. OutcomeHolds'
  BY <1>2 DEF OutcomeHolds, TrapsAreTransparent, Returns
<1> QED
  BY <1>1, <1>2, <1>3, <1>6, <1>7, <1>8, <1>9, <1>10, <1>11, <1>12, <1>13
  DEF TrapInv, OnCourse, StopsForStraysOnly, LowerCannotStop, StrayStops, Returns

\* mstatus is put back.
LEMMA CloseWindowKeeps ==
    ASSUME TrapInv, ~trap.stray, CloseWindow
    PROVE  TrapInv'
<1>1. TrapTypeOK /\ OnCourse
  BY DEF TrapInv
<1>2. at = "close" /\ at' = "retire" /\ plat' = plat /\ low' = low /\ trap' = trap
  BY <1>1 DEF CloseWindow, OnCourse, ControlHolds, Window, Places, TrapTypeOK, Firmwares, Guards, Returns
<1>3. TrapTypeOK'
  BY <1>1 DEF TrapTypeOK, CloseWindow, CsrFiles, Firmwares, Records, Guards, Statuses
<1>4. fw'.guard.what = fw.guard.what /\ fw'.guard.addr = fw.guard.addr /\ fw'.guard.ret = fw.guard.ret
      /\ fw'.guard.prev = fw.guard.prev /\ fw'.guard.data = fw.guard.data /\ fw'.record.mask = fw.record.mask
      /\ fw'.phase = fw.phase /\ fw'.sstc = fw.sstc /\ fw'.frame = fw.frame /\ fw'.facts = fw.facts
      /\ fw'.insn = fw.insn /\ fw'.i = fw.i /\ fw'.data = fw.data
  BY <1>1 DEF CloseWindow, TrapTypeOK, Firmwares, Records, Guards
<1>5. Home' = Home /\ HomeStatus' = HomeStatus /\ WindowFault' = WindowFault /\ Home \in Returns /\ Home = fw.guard.ret
  BY <1>1, <1>2, <1>4 DEF Home, HomeStatus, WindowFault, FaultUnder, Window, Returns, OnCourse, Places
<1>6. Places'
  BY <1>1, <1>2, <1>4 DEF OnCourse, Places, Window, Emulating, Returns, BootPlaces
<1>7. ControlHolds'
  BY <1>1, <1>2, <1>4, <1>5 DEF OnCourse, ControlHolds, CloseWindow, TrapTypeOK, Firmwares, CsrFiles, Guards, Statuses, Window, Returns
<1>8. PhaseHolds'
  BY <1>1, <1>2, <1>4, <1>5 DEF OnCourse, PhaseHolds
<1>9. GuardHolds'
  BY <1>1, <1>2, <1>4, <1>5 DEF OnCourse, GuardHolds
<1>10. RecordHolds'
  BY <1>1, <1>2, <1>4, <1>5 DEF OnCourse, RecordHolds, CloseWindow, TrapTypeOK, Firmwares, Records, Closed, Returns
<1>11. FactsHold'
  BY <1>1, <1>2, <1>4, <1>5 DEF OnCourse, FactsHold, Returns
<1>12. DataHolds'
  <2>1. (fw'.record.trapped <=> fw.record.trapped) /\ (Closed' <=> Closed)
    BY <1>1, <1>2, <1>5 DEF CloseWindow, TrapTypeOK, Firmwares, Records, Closed, Returns
  <2> QED
    BY <1>1, <1>2, <1>4, <1>5, <2>1, DataIsStable DEF OnCourse
<1>13. OutcomeHolds'
  BY <1>2 DEF OutcomeHolds, TrapsAreTransparent, Returns
<1> QED
  BY <1>1, <1>2, <1>3, <1>6, <1>7, <1>8, <1>9, <1>10, <1>11, <1>12, <1>13
  DEF TrapInv, OnCourse, StopsForStraysOnly, LowerCannotStop, StrayStops, Returns

\* mscratch is cleared.
LEMMA RetireRecordKeeps ==
    ASSUME TrapInv, ~trap.stray, RetireRecord
    PROVE  TrapInv'
<1>1. TrapTypeOK /\ OnCourse
  BY DEF TrapInv
<1>2. at = "retire" /\ at' = "vector" /\ plat' = plat /\ low' = low /\ trap' = trap
  BY <1>1 DEF RetireRecord, OnCourse, ControlHolds, Window, Places, TrapTypeOK, Firmwares, Guards, Returns
<1>3. TrapTypeOK'
  BY <1>1 DEF TrapTypeOK, RetireRecord, CsrFiles, Firmwares, Records, Guards, Statuses
<1>4. fw'.guard.what = fw.guard.what /\ fw'.guard.addr = fw.guard.addr /\ fw'.guard.ret = fw.guard.ret
      /\ fw'.guard.prev = fw.guard.prev /\ fw'.guard.data = fw.guard.data /\ fw'.record.mask = fw.record.mask
      /\ fw'.phase = fw.phase /\ fw'.sstc = fw.sstc /\ fw'.frame = fw.frame /\ fw'.facts = fw.facts
      /\ fw'.insn = fw.insn /\ fw'.i = fw.i /\ fw'.data = fw.data
  BY <1>1 DEF RetireRecord, TrapTypeOK, Firmwares, Records, Guards
<1>5. Home' = Home /\ HomeStatus' = HomeStatus /\ WindowFault' = WindowFault /\ Home \in Returns /\ Home = fw.guard.ret
  BY <1>1, <1>2, <1>4 DEF Home, HomeStatus, WindowFault, FaultUnder, Window, Returns, OnCourse, Places
<1>6. Places'
  BY <1>1, <1>2, <1>4 DEF OnCourse, Places, Window, Emulating, Returns, BootPlaces
<1>7. ControlHolds'
  BY <1>1, <1>2, <1>4, <1>5 DEF OnCourse, ControlHolds, RetireRecord, TrapTypeOK, Firmwares, CsrFiles, Guards, Statuses, Window, Returns
<1>8. PhaseHolds'
  BY <1>1, <1>2, <1>4, <1>5 DEF OnCourse, PhaseHolds
<1>9. GuardHolds'
  BY <1>1, <1>2, <1>4, <1>5 DEF OnCourse, GuardHolds
<1>10. RecordHolds'
  BY <1>1, <1>2, <1>4, <1>5 DEF OnCourse, RecordHolds, RetireRecord, TrapTypeOK, Firmwares, Records, Closed, Returns
<1>11. FactsHold'
  BY <1>1, <1>2, <1>4, <1>5 DEF OnCourse, FactsHold, Returns
<1>12. DataHolds'
  <2>1. (fw'.record.trapped <=> fw.record.trapped) /\ (Closed' <=> Closed)
    BY <1>1, <1>2, <1>5 DEF RetireRecord, TrapTypeOK, Firmwares, Records, Closed, Returns
  <2> QED
    BY <1>1, <1>2, <1>4, <1>5, <2>1, DataIsStable DEF OnCourse
<1>13. OutcomeHolds'
  BY <1>2 DEF OutcomeHolds, TrapsAreTransparent, Returns
<1> QED
  BY <1>1, <1>2, <1>3, <1>6, <1>7, <1>8, <1>9, <1>10, <1>11, <1>12, <1>13
  DEF TrapInv, OnCourse, StopsForStraysOnly, LowerCannotStop, StrayStops, Returns

\* mtvec is put back.
LEMMA RestoreVectorKeeps ==
    ASSUME TrapInv, ~trap.stray, RestoreVector
    PROVE  TrapInv'
<1>1. TrapTypeOK /\ OnCourse
  BY DEF TrapInv
<1>2. at = "vector" /\ at' = fw.guard.ret /\ fw.guard.ret \in Returns /\ plat' = plat /\ low' = low /\ trap' = trap
  BY <1>1 DEF RestoreVector, OnCourse, ControlHolds, Window, Places, TrapTypeOK, Firmwares, Guards, Returns
<1>3. TrapTypeOK'
  BY <1>1 DEF TrapTypeOK, RestoreVector, CsrFiles, Firmwares, Records, Guards, Statuses
<1>4. fw'.guard.what = fw.guard.what /\ fw'.guard.addr = fw.guard.addr /\ fw'.guard.ret = fw.guard.ret
      /\ fw'.guard.prev = fw.guard.prev /\ fw'.guard.data = fw.guard.data /\ fw'.record.mask = fw.record.mask
      /\ fw'.phase = fw.phase /\ fw'.sstc = fw.sstc /\ fw'.frame = fw.frame /\ fw'.facts = fw.facts
      /\ fw'.insn = fw.insn /\ fw'.i = fw.i /\ fw'.data = fw.data
  BY <1>1 DEF RestoreVector, TrapTypeOK, Firmwares, Records, Guards
<1>5. Home' = Home /\ HomeStatus' = HomeStatus /\ WindowFault' = WindowFault /\ Home \in Returns /\ Home = fw.guard.ret
  BY <1>1, <1>2, <1>4 DEF Home, HomeStatus, WindowFault, FaultUnder, Window, Returns, OnCourse, Places
<1>6. Places'
  BY <1>1, <1>2, <1>4 DEF OnCourse, Places, Window, Emulating, Returns, BootPlaces
<1>a. csr'.mstatus = csr.mstatus /\ csr'.mtvec = fw.guard.prev /\ csr'.mscratch = csr.mscratch
  BY <1>1 DEF RestoreVector, TrapTypeOK, CsrFiles
<1>7. ControlHolds'
  BY <1>1, <1>2, <1>4, <1>5, <1>a DEF OnCourse, ControlHolds, Window, Returns
<1>8. PhaseHolds'
  BY <1>1, <1>2, <1>4, <1>5 DEF OnCourse, PhaseHolds
<1>9. GuardHolds'
  BY <1>1, <1>2, <1>4, <1>5 DEF OnCourse, GuardHolds
<1>10. RecordHolds'
  BY <1>1, <1>2, <1>4, <1>5 DEF OnCourse, RecordHolds, RestoreVector, TrapTypeOK, Firmwares, Records, Closed, Returns
<1>11. FactsHold'
  BY <1>1, <1>2, <1>4, <1>5 DEF OnCourse, FactsHold, Returns
<1>12. DataHolds'
  <2>1. (fw'.record.trapped <=> fw.record.trapped) /\ (Closed' <=> Closed)
    BY <1>1, <1>2, <1>5 DEF RestoreVector, TrapTypeOK, Firmwares, Records, Closed, Returns
  <2> QED
    BY <1>1, <1>2, <1>4, <1>5, <2>1, DataIsStable DEF OnCourse
<1>13. OutcomeHolds'
  BY <1>2 DEF OutcomeHolds, TrapsAreTransparent, Returns
<1> QED
  BY <1>1, <1>2, <1>3, <1>6, <1>7, <1>8, <1>9, <1>10, <1>11, <1>12, <1>13
  DEF TrapInv, OnCourse, StopsForStraysOnly, LowerCannotStop, StrayStops, Returns

\* The recovery vector skips the guarded instruction.
LEMMA RecoverFaultKeeps ==
    ASSUME TrapInv, ~trap.stray, RecoverFault
    PROVE  TrapInv'
<1>1. TrapTypeOK /\ OnCourse
  BY DEF TrapInv
<1>2. at = "recover" /\ at' = "close" /\ plat' = plat /\ low' = low /\ trap' = trap
  BY <1>1 DEF RecoverFault, OnCourse, ControlHolds, Window, Places, TrapTypeOK, Firmwares, Guards, Returns
<1>3. TrapTypeOK'
  <2>1. csr' \in CsrFiles
    <3>1. csr \in CsrFiles /\ csr.mstatus \in Statuses /\ csr.mepc + 4 \in Int
      BY <1>1 DEF TrapTypeOK, CsrFiles
    <3>2. [csr.mstatus EXCEPT !.mpp = "U"] \in Statuses
      BY <3>1 DEF Statuses
    <3>3. csr' = [csr EXCEPT !.mepc = csr.mepc + 4, !.mstatus = [csr.mstatus EXCEPT !.mpp = "U"]]
      BY <3>1 DEF RecoverFault, CsrFiles
    <3> QED
      BY <3>1, <3>2, <3>3 DEF CsrFiles
  <2>2. fw' \in Firmwares
    <3>1. csr.mcause \in Int /\ csr.mtval \in Int
      BY <1>1 DEF TrapTypeOK, CsrFiles
    <3> QED
      BY <1>1, <3>1 DEF TrapTypeOK, RecoverFault, Firmwares, Records
  <2> QED
    BY <1>1, <1>2, <2>1, <2>2 DEF TrapTypeOK
<1>4. fw'.guard.what = fw.guard.what /\ fw'.guard.addr = fw.guard.addr /\ fw'.guard.ret = fw.guard.ret
      /\ fw'.guard.prev = fw.guard.prev /\ fw'.guard.data = fw.guard.data /\ fw'.record.mask = fw.record.mask
      /\ fw'.phase = fw.phase /\ fw'.sstc = fw.sstc /\ fw'.frame = fw.frame /\ fw'.facts = fw.facts
      /\ fw'.insn = fw.insn /\ fw'.i = fw.i /\ fw'.data = fw.data
  BY <1>1 DEF RecoverFault, TrapTypeOK, Firmwares, Records, Guards
<1>5. Home' = Home /\ HomeStatus' = HomeStatus /\ WindowFault' = WindowFault /\ Home \in Returns /\ Home = fw.guard.ret
  BY <1>1, <1>2, <1>4 DEF Home, HomeStatus, WindowFault, FaultUnder, Window, Returns, OnCourse, Places
<1>6. Places'
  BY <1>1, <1>2, <1>4 DEF OnCourse, Places, Window, Emulating, Returns, BootPlaces
<1>7. ControlHolds'
  BY <1>1, <1>2, <1>4, <1>5 DEF OnCourse, ControlHolds, RecoverFault, TrapTypeOK, Firmwares, CsrFiles, Guards, Statuses, Window, Returns
<1>8. PhaseHolds'
  BY <1>1, <1>2, <1>4, <1>5 DEF OnCourse, PhaseHolds
<1>9. GuardHolds'
  BY <1>1, <1>2, <1>4, <1>5 DEF OnCourse, GuardHolds
<1>10. RecordHolds'
  BY <1>1, <1>2, <1>4, <1>5 DEF OnCourse, RecordHolds, RecoverFault, TrapTypeOK, Firmwares, Records, Closed, Returns, CsrFiles
<1>11. FactsHold'
  BY <1>1, <1>2, <1>4, <1>5 DEF OnCourse, FactsHold, Returns
<1>12. DataHolds'
  <2>1. fw'.record.trapped /\ Closed' /\ ~Closed
    BY <1>1, <1>2 DEF RecoverFault, TrapTypeOK, Firmwares, Records, Closed, Returns
  <2> QED
    BY <1>1, <1>2, <1>4, <1>5, <2>1 DEF OnCourse, DataHolds, NoRedirect, HoldsHighest, LowestStored
<1>13. OutcomeHolds'
  BY <1>2 DEF OutcomeHolds, TrapsAreTransparent, Returns
<1> QED
  BY <1>1, <1>2, <1>3, <1>6, <1>7, <1>8, <1>9, <1>10, <1>11, <1>12, <1>13
  DEF TrapInv, OnCourse, StopsForStraysOnly, LowerCannotStop, StrayStops, Returns

\* The guarded instruction faults.
LEMMA GuardedFaultKeeps ==
    ASSUME TrapInv, ~trap.stray, GuardedFault
    PROVE  TrapInv'
<1>1. TrapTypeOK /\ OnCourse
  BY DEF TrapInv
<1>2. at = "access" /\ at' = "recover" /\ plat' = plat /\ low' = low /\ trap' = trap
  BY <1>1 DEF GuardedFault, MachineFault, OnCourse, ControlHolds, Window, Places, TrapTypeOK, Firmwares, Guards, Returns
<1>3. TrapTypeOK'
  <2>1. GuardFault \in Int /\ fw.guard.addr \in Int
    BY <1>1, GuardFaults DEF ILLEGAL_INSTRUCTION, LOAD_FAULT, LOAD_PAGE, STORE_FAULT, STORE_PAGE, TrapTypeOK, Firmwares, Guards
  <2>2. csr' \in CsrFiles
    BY <1>1, <2>1, MachineFaultTypes DEF GuardedFault, GuardPc
  <2> QED
    BY <1>1, <1>2, <2>2 DEF TrapTypeOK, GuardedFault
<1>4. fw'.guard.what = fw.guard.what /\ fw'.guard.addr = fw.guard.addr /\ fw'.guard.ret = fw.guard.ret
      /\ fw'.guard.prev = fw.guard.prev /\ fw'.guard.data = fw.guard.data /\ fw'.record.mask = fw.record.mask
      /\ fw'.phase = fw.phase /\ fw'.sstc = fw.sstc /\ fw'.frame = fw.frame /\ fw'.facts = fw.facts
      /\ fw'.insn = fw.insn /\ fw'.i = fw.i /\ fw'.data = fw.data
  BY <1>1 DEF GuardedFault, MachineFault, TrapTypeOK, Firmwares, Records, Guards
<1>5. Home' = Home /\ HomeStatus' = HomeStatus /\ WindowFault' = WindowFault /\ Home \in Returns /\ Home = fw.guard.ret
  BY <1>1, <1>2, <1>4 DEF Home, HomeStatus, WindowFault, FaultUnder, Window, Returns, OnCourse, Places
<1>6. Places'
  BY <1>1, <1>2, <1>4 DEF OnCourse, Places, Window, Emulating, Returns, BootPlaces
<1>7. ControlHolds'
  BY <1>1, <1>2, <1>4, <1>5 DEF OnCourse, ControlHolds, GuardedFault, MachineFault, TrapTypeOK, Firmwares, CsrFiles, Guards, Statuses, Window, Returns
<1>8. PhaseHolds'
  BY <1>1, <1>2, <1>4, <1>5 DEF OnCourse, PhaseHolds
<1>9. GuardHolds'
  BY <1>1, <1>2, <1>4, <1>5 DEF OnCourse, GuardHolds
<1>10. RecordHolds'
  BY <1>1, <1>2, <1>4, <1>5, WindowIsOpen DEF OnCourse, RecordHolds, GuardedFault, MachineFault, TrapTypeOK, Firmwares, Records, Closed, Returns, CsrFiles, Statuses
<1>11. FactsHold'
  BY <1>1, <1>2, <1>4, <1>5 DEF OnCourse, FactsHold, Returns
<1>12. DataHolds'
  <2>1. (fw'.record.trapped <=> fw.record.trapped) /\ (Closed' <=> Closed)
    BY <1>1, <1>2, <1>5 DEF GuardedFault, TrapTypeOK, Firmwares, Records, Closed, Returns
  <2> QED
    BY <1>1, <1>2, <1>4, <1>5, <2>1, DataIsStable DEF OnCourse
<1>13. OutcomeHolds'
  BY <1>2 DEF OutcomeHolds, TrapsAreTransparent, Returns
<1> QED
  BY <1>1, <1>2, <1>3, <1>6, <1>7, <1>8, <1>9, <1>10, <1>11, <1>12, <1>13
  DEF TrapInv, OnCourse, StopsForStraysOnly, LowerCannotStop, StrayStops, Returns

\* The bytes of an emulated access are data.
LEMMA BytesAreData ==
    ASSUME TrapTypeOK, OnCourse, Home = "bytes"
    PROVE  /\ trap.of \in Trappings /\ trap.of.tval = 1 /\ trap.of.insn = fw.insn
           /\ trap.of.insn.kind.width \in {1, 2, 4, 8} /\ fw.i \in 0 .. trap.of.insn.kind.width - 1
           /\ trap.of.insn.reg \in Regs /\ trap.of.insn.reg \in {0, 8}
           /\ \/ trap.of.cause = LOAD_MISALIGNED /\ trap.of.insn.op = "load" /\ fw.guard.what = "read"
              \/ trap.of.cause = STORE_MISALIGNED /\ trap.of.insn.op = "store" /\ fw.guard.what = "write"
           /\ fw.guard.addr \in 1 .. XBytes /\ fw.guard.addr \in DataAddrs
<1>1. trap.of \in Trappings /\ trap.of.insn = fw.insn /\ fw.i \in 0 .. trap.of.insn.kind.width - 1
  BY DEF OnCourse, FactsHold, BootPlaces
<1>2. \/ trap.of.cause = LOAD_MISALIGNED /\ trap.of.insn.op = "load"
      \/ trap.of.cause = STORE_MISALIGNED /\ trap.of.insn.op = "store"
  BY DEF OnCourse, FactsHold
<1>3. trap.of.tval = 1
  BY <1>1, <1>2, TrappingFacts
<1>4. trap.of.insn \in Insns
  BY DEF TrapTypeOK, Ghosts, Traps
<1>5. trap.of.insn.kind.width \in {1, 2, 4, 8} /\ trap.of.insn.reg \in Regs /\ trap.of.insn.reg \in {0, 8}
  BY <1>2, <1>4, InsnFacts
<1>6. \/ trap.of.cause = LOAD_MISALIGNED /\ trap.of.insn.op = "load" /\ fw.guard.what = "read"
          /\ fw.guard.addr = trap.of.tval + (trap.of.insn.kind.width - 1 - fw.i)
      \/ trap.of.cause = STORE_MISALIGNED /\ trap.of.insn.op = "store" /\ fw.guard.what = "write"
          /\ fw.guard.addr = trap.of.tval + fw.i
  BY <1>2 DEF OnCourse, GuardHolds, Returns, LOAD_MISALIGNED, STORE_MISALIGNED
<1>7. fw.guard.addr \in 1 .. 8
  BY <1>1, <1>3, <1>5, <1>6
<1> QED
  BY <1>1, <1>3, <1>5, <1>6, <1>7, TrapAssumption DEF XBytes

\* The time is a number.
LEMMA TimeIsANumber == TimeValue \in Int
  BY PowersUp DEF TimeValue, Word, XBytes

\* The guarded instruction completes.
LEMMA GuardedAccessKeeps ==
    ASSUME TrapInv, ~trap.stray, GuardedAccess
    PROVE  TrapInv'
<1>1. TrapTypeOK /\ OnCourse
  BY DEF TrapInv
<1>2. at = "access" /\ at' = "close" /\ plat' = plat /\ csr' = csr /\ trap' = trap /\ WindowFault = 0
  BY <1>1, WindowIsOpen DEF GuardedAccess
<1>4. fw'.guard.what = fw.guard.what /\ fw'.guard.addr = fw.guard.addr /\ fw'.guard.ret = fw.guard.ret
      /\ fw'.guard.prev = fw.guard.prev /\ fw'.guard.a3 = fw.guard.a3 /\ fw'.record = fw.record
      /\ fw'.phase = fw.phase /\ fw'.sstc = fw.sstc /\ fw'.frame = fw.frame /\ fw'.facts = fw.facts
      /\ fw'.insn = fw.insn /\ fw'.i = fw.i /\ fw'.data = fw.data
  BY <1>1 DEF GuardedAccess, TrapTypeOK, Firmwares, Guards
<1>5. Home' = Home /\ HomeStatus' = HomeStatus /\ WindowFault' = WindowFault /\ Home \in Returns /\ Home = fw.guard.ret
  BY <1>1, <1>2, <1>4 DEF Home, HomeStatus, WindowFault, FaultUnder, Window, Returns, OnCourse, Places
<1>a. fw.guard.what \in {"read", "write"} => Home = "bytes"
  BY <1>1, <1>5 DEF OnCourse, GuardHolds, Returns
<1>b. /\ fw.guard.what = "read" => fw'.guard.data = low.mem[fw.guard.addr] /\ low' = low
      /\ fw.guard.what = "write" => /\ fw'.guard.data = fw.guard.data
                                    /\ low' = [low EXCEPT !.mem[fw.guard.addr] = fw.guard.data]
      /\ fw.guard.what \in GuardedCsrs => fw'.guard.data = TimeValue /\ low' = low
      /\ fw.guard.what = "parcel" => fw'.guard.data = fw.guard.data /\ low' = low
  BY <1>1 DEF GuardedAccess, GuardedCsrs, TrapTypeOK, Firmwares, Guards
<1>w. fw.guard.what \in GuardedCsrs \cup {"parcel", "read", "write"}
  BY <1>1 DEF TrapTypeOK, Firmwares, Guards
<1>c. fw.guard.what = "write" => /\ fw.guard.data \in 0 .. Base - 1
                                 /\ fw.guard.data = Digit(trap.low.x[trap.of.insn.reg], fw.i)
                                 /\ fw.guard.addr = trap.of.tval + fw.i
                                 /\ fw.guard.addr \notin trap.of.bad
  <2>1. SUFFICES ASSUME fw.guard.what = "write" PROVE <1>c!2
    OBVIOUS
  <2>2. trap.of.cause = STORE_MISALIGNED /\ trap.of.insn.reg \in Regs
        /\ trap.of.insn.kind.width \in {1, 2, 4, 8} /\ fw.i \in 0 .. trap.of.insn.kind.width - 1
    BY <1>1, <1>a, <2>1, BytesAreData
  <2>3. fw.guard.data = Digit(trap.low.x[trap.of.insn.reg], fw.i) /\ fw.guard.addr = trap.of.tval + fw.i
    BY <1>1, <1>5, <1>a, <2>1, <2>2 DEF OnCourse, GuardHolds, LOAD_MISALIGNED, STORE_MISALIGNED
  <2>4. trap.low.x[trap.of.insn.reg] \in Int /\ fw.i \in 0 .. XBytes
    BY <1>1, <2>2 DEF TrapTypeOK, Ghosts, LowerContexts, XBytes
  <2>5. fw.guard.data \in 0 .. Base - 1
    BY <2>3, <2>4, DigitIsOne
  <2>6. fw.guard.addr \notin trap.of.bad
    BY <1>2, <2>1 DEF WindowFault, FaultUnder, GuardedCsrs, STORE_PAGE, STORE_FAULT
  <2> QED
    BY <2>3, <2>5, <2>6
<1>3. TrapTypeOK'
  <2>1. low' \in LowerContexts
    <3>1. CASE fw.guard.what = "write"
      BY <1>1, <1>b, <1>c, <3>1 DEF TrapTypeOK, LowerContexts
    <3>2. CASE fw.guard.what # "write"
      BY <1>1, <1>b, <1>w, <3>2 DEF TrapTypeOK
    <3> QED
      BY <3>1, <3>2
  <2>2. fw'.guard.data \in Int
    <3>1. CASE fw.guard.what = "read"
      <4>1. fw.guard.addr \in DataAddrs
        BY <1>1, <1>a, <3>1, BytesAreData
      <4>2. low.mem[fw.guard.addr] \in 0 .. Base - 1
        BY <1>1, <4>1 DEF TrapTypeOK, LowerContexts
      <4> QED
        BY <1>b, <3>1, <4>2
    <3>2. CASE fw.guard.what # "read"
      <4>1. fw.guard.data \in Int
        BY <1>1 DEF TrapTypeOK, Firmwares, Guards
      <4> QED
        BY <1>b, <1>w, <3>2, <4>1, TimeIsANumber
    <3> QED
      BY <3>1, <3>2
  <2>3. fw' \in Firmwares
    BY <1>1, <2>2 DEF TrapTypeOK, GuardedAccess, Firmwares, Guards
  <2> QED
    BY <1>1, <1>2, <2>1, <2>3 DEF TrapTypeOK
<1>6. Places'
  BY <1>1, <1>2, <1>4 DEF OnCourse, Places, Window, Emulating, Returns, BootPlaces
<1>7. ControlHolds'
  BY <1>1, <1>2, <1>4, <1>5 DEF OnCourse, ControlHolds, Window, Returns
<1>8. PhaseHolds'
  BY <1>1, <1>2, <1>4, <1>5 DEF OnCourse, PhaseHolds
<1>9. GuardHolds'
  BY <1>1, <1>2, <1>4, <1>5, <1>b DEF OnCourse, GuardHolds
<1>10. RecordHolds'
  BY <1>1, <1>2, <1>4, <1>5 DEF OnCourse, RecordHolds, Closed, Returns
<1>11. FactsHold'
  BY <1>1, <1>2, <1>4, <1>5 DEF OnCourse, FactsHold, Returns
<1>12. DataHolds'
  <2>0. low'.x = low.x /\ low'.sepc = low.sepc /\ low'.scause = low.scause /\ low'.stval = low.stval
    BY <1>1, <1>b, <1>w DEF TrapTypeOK, LowerContexts, GuardedCsrs
  <2>1. Closed' /\ ~Closed /\ ~fw'.record.trapped
    BY <1>1, <1>2, <1>4 DEF Closed, OnCourse, RecordHolds, Returns
  <2>2. CASE Home # "bytes"
    <3>1. low' = low
      BY <1>a, <1>b, <1>w, <2>2
    <3> QED
      BY <1>1, <1>2, <1>4, <1>5, <2>1, <2>2, <3>1 DEF OnCourse, DataHolds, NoRedirect
  <2>3. CASE Home = "bytes" /\ trap.of.cause = LOAD_MISALIGNED
    <3>1. fw.guard.what = "read"
      BY <1>1, <2>3, BytesAreData DEF LOAD_MISALIGNED, STORE_MISALIGNED
    <3>2. low' = low /\ fw'.guard.data = low.mem[fw.guard.addr]
      BY <1>b, <3>1
    <3> QED
      BY <1>1, <1>2, <1>4, <1>5, <2>1, <2>3, <3>2 DEF OnCourse, DataHolds, NoRedirect, HoldsHighest, LOAD_MISALIGNED, STORE_MISALIGNED
  <2>4. CASE Home = "bytes" /\ trap.of.cause = STORE_MISALIGNED
    <3>1. fw.guard.what = "write"
      BY <1>1, <2>4, BytesAreData DEF LOAD_MISALIGNED, STORE_MISALIGNED
    <3>2. low'.mem = [low.mem EXCEPT ![fw.guard.addr] = fw.guard.data] /\ low.mem \in [DataAddrs -> 0 .. Base - 1]
      BY <1>1, <1>b, <3>1 DEF TrapTypeOK, LowerContexts
    <3>3. LowestStored(fw.i)
      BY <1>1, <2>1, <2>4 DEF OnCourse, DataHolds
    <3>4. trap.of.tval = 1 /\ fw.i \in Nat /\ DataAddrs \subseteq Int /\ fw.guard.addr \in DataAddrs
      BY <1>1, <2>4, BytesAreData, TrapAssumption DEF TrapTypeOK, Firmwares
    <3>5. LowestStored(fw.i + 1)'
      BY <1>2, <1>4, <1>c, <3>1, <3>2, <3>3, <3>4 DEF LowestStored
    <3> QED
      BY <1>1, <1>2, <1>4, <1>5, <2>0, <2>1, <2>4, <3>5 DEF OnCourse, DataHolds, NoRedirect, LOAD_MISALIGNED, STORE_MISALIGNED
  <2> QED
    BY <1>1, <2>2, <2>3, <2>4, BytesAreData
<1>13. OutcomeHolds'
  BY <1>2 DEF OutcomeHolds, TrapsAreTransparent, Returns
<1> QED
  BY <1>1, <1>2, <1>3, <1>6, <1>7, <1>8, <1>9, <1>10, <1>11, <1>12, <1>13
  DEF TrapInv, OnCourse, StopsForStraysOnly, LowerCannotStop, StrayStops, Returns

------------------------------------------------------------------------------
(* Initialization and the entry. *)

\* What the beginning of a guarded access leaves behind.
LEMMA StartGuardSets ==
    ASSUME TrapTypeOK, NEW f \in Firmwares, NEW what \in GuardedCsrs \cup {"parcel", "read", "write"},
           NEW addr \in Int, NEW data \in Int, NEW mask \in SUBSET Int, NEW ret \in Returns,
           csr.mtvec \in {"failstop", "normal"}, StartGuard(f, what, addr, data, mask, ret)
    PROVE  /\ at' = "publish" /\ csr' \in CsrFiles /\ fw' \in Firmwares
           /\ fw'.guard.what = what /\ fw'.guard.addr = addr /\ fw'.guard.data = data
           /\ fw'.guard.a3 = csr.mstatus /\ fw'.guard.prev = csr.mtvec /\ fw'.guard.ret = ret
           /\ fw'.record.mask = mask /\ ~fw'.record.trapped
           /\ fw'.phase = f.phase /\ fw'.sstc = f.sstc /\ fw'.frame = f.frame /\ fw'.facts = f.facts
           /\ fw'.insn = f.insn /\ fw'.i = f.i /\ fw'.data = f.data
           /\ csr'.mtvec = "recovery" /\ csr'.mscratch = csr.mscratch /\ csr'.mstatus = csr.mstatus
           /\ Home' = ret /\ ~Closed' /\ Places'
<1>1. csr.mstatus \in Statuses /\ csr \in CsrFiles
  BY DEF TrapTypeOK, CsrFiles
<1>2. csr' \in CsrFiles /\ csr'.mtvec = "recovery" /\ csr'.mscratch = csr.mscratch /\ csr'.mstatus = csr.mstatus
  BY <1>1 DEF StartGuard, CsrFiles
<1> DEFINE g == [what |-> what, addr |-> addr, data |-> data, a3 |-> csr.mstatus, prev |-> csr.mtvec, ret |-> ret]
           r == [NoRecord EXCEPT !.mask = mask]
<1>3. g \in Guards /\ r \in Records /\ r.mask = mask /\ ~r.trapped
  <2>1. g \in Guards
    BY <1>1 DEF Guards, Returns
  <2>2. r \in Records /\ r.mask = mask /\ ~r.trapped
    <3>1. NoRecord \in Records /\ NoRecord.trapped = FALSE
      BY DEF Records, NoRecord, GuardPc
    <3> QED
      BY <3>1 DEF Records
  <2> QED
    BY <2>1, <2>2
<1>4. fw' = [f EXCEPT !.guard = g, !.record = r] /\ at' = "publish"
  BY DEF StartGuard
<1>5. g.what = what /\ g.addr = addr /\ g.data = data /\ g.a3 = csr.mstatus /\ g.prev = csr.mtvec /\ g.ret = ret
  OBVIOUS
<1> HIDE DEF g, r
<1>6. fw' \in Firmwares /\ fw'.guard = g /\ fw'.record = r
      /\ fw'.phase = f.phase /\ fw'.sstc = f.sstc /\ fw'.frame = f.frame /\ fw'.facts = f.facts
      /\ fw'.insn = f.insn /\ fw'.i = f.i /\ fw'.data = f.data
  BY <1>3, <1>4 DEF Firmwares
<1>7. Home' = ret /\ ~Closed' /\ Places'
  BY <1>4, <1>5, <1>6 DEF Home, Window, Closed, Returns, Places
<1> QED
  BY <1>2, <1>3, <1>4, <1>5, <1>6, <1>7

\* The statuses the firmware writes are well-formed.
LEMMA StatusTypes ==
    /\ LowerStatus \in Statuses /\ [LowerStatus EXCEPT !.mpp = "M"] \in Statuses
    /\ LowerStatus.mprv = FALSE /\ LowerStatus.mpp = "S"
    /\ [LowerStatus EXCEPT !.mpp = "M"].mprv = FALSE
  BY DEF LowerStatus, Statuses

\* The firmware is well-typed with nothing on its stack.
LEMMA FreshTypes ==
    ASSUME NEW phase \in {"uninitialized", "initializing", "ready", "armed"}, NEW sstc \in BOOLEAN
    PROVE  /\ FreshStack(phase, sstc) \in Firmwares
           /\ FreshStack(phase, sstc).phase = phase /\ FreshStack(phase, sstc).sstc = sstc
           /\ FreshStack(phase, sstc).i = 0 /\ FreshStack(phase, sstc).data = 0
           /\ NoTrap \in Traps /\ NoTrap.cause = 0 /\ NoTrap.origin = "S" /\ NoAnswer.by = "none"
           /\ NoAnswer \in [by : {"none", "ecall", "stage", "dispatcher"}, first : Int, second : Int]
<1>1. NoTrap.insn \in Others /\ NoTrap.insn \in Insns
  BY DEF NoTrap, Others, Insns, ByteKind
<1>2. NoTrap \in Traps /\ NoTrap.cause = 0 /\ NoTrap.origin = "S"
  <2>1. Others \subseteq Insns
    BY DEF Insns
  <2>2. [op |-> "other", kind |-> ByteKind, reg |-> 0, len |-> 4] \in Insns
    BY <1>1 DEF NoTrap
  <2> QED
    BY <2>2 DEF NoTrap, Traps, Causes, Irq
<1>3. NoAnswer.by = "none" /\ NoAnswer \in [by : {"none", "ecall", "stage", "dispatcher"}, first : Int, second : Int]
  BY DEF NoAnswer
<1>4. NoRecord \in Records /\ NoFault \in [cause : Int, tval : Int] /\ Zeros \in [Regs -> Int]
  BY DEF NoRecord, Records, NoFault, Zeros, GuardPc
<1>5. [mepc |-> 0, mcause |-> 0, mtval |-> 0, mstatus |-> LowerStatus] \in Facts
  BY StatusTypes DEF Facts
<1>6. [what |-> "read", addr |-> 0, data |-> 0, a3 |-> LowerStatus, prev |-> "failstop", ret |-> "init"] \in Guards
  BY StatusTypes DEF Guards
<1>7. FreshStack(phase, sstc) \in Firmwares
  BY <1>1, <1>4, <1>5, <1>6 DEF FreshStack, Firmwares
<1> QED
  BY <1>2, <1>3, <1>7 DEF FreshStack

\* At reset.
LEMMA TrapInitHolds ==
    ASSUME TrapInit
    PROVE  TrapInv
<1>1. at = "init" /\ fw = FreshStack("uninitialized", FALSE) /\ trap.stray = FALSE /\ trap.of = NoTrap
      /\ trap.status = LowerStatus /\ csr.mtvec = "failstop" /\ csr.mscratch = "zero"
      /\ csr.mstatus = [LowerStatus EXCEPT !.mpp = "M"]
  BY DEF TrapInit
<1>2. TrapTypeOK
  <2>1. csr \in CsrFiles
    BY StatusTypes DEF TrapInit, CsrFiles
  <2>2. low \in LowerContexts
    <3>1. Zeros \in [Regs -> Int]
      BY DEF Zeros
    <3> QED
      BY <3>1, TrapAssumption DEF TrapInit, LowerContexts
  <2>3. fw \in Firmwares
    BY <1>1, FreshTypes
  <2>4. NoTrap \in Traps /\ NoAnswer \in [by : {"none", "ecall", "stage", "dispatcher"}, first : Int, second : Int]
    BY FreshTypes
  <2>5. trap \in Ghosts
    BY <2>2, <2>4, StatusTypes DEF TrapInit, Ghosts
  <2> QED
    BY <2>1, <2>2, <2>3, <2>5, TrapAssumption DEF TrapTypeOK, TrapInit
<1>3. Home = "init" /\ fw.phase = "uninitialized"
  BY <1>1, FreshTypes DEF Home, Window
<1>4. Places /\ PhaseHolds /\ GuardHolds /\ RecordHolds /\ FactsHold /\ DataHolds
  BY <1>1, <1>3 DEF Places, PhaseHolds, GuardHolds, RecordHolds, FactsHold, DataHolds, Window, BootPlaces, Emulating, Returns, Closed
<1>5. ControlHolds
  BY <1>1, <1>3, StatusTypes, FreshTypes DEF ControlHolds, Window, BootPlaces, HomeStatus
<1>6. OutcomeHolds
  BY <1>1 DEF OutcomeHolds, TrapsAreTransparent
<1> QED
  BY <1>1, <1>2, <1>4, <1>5, <1>6 DEF TrapInv, OnCourse, StopsForStraysOnly, LowerCannotStop, StrayStops

\* trap::init reserves the slot and probes stimecmp.
LEMMA ReserveKeeps ==
    ASSUME TrapInv, ~trap.stray, Reserve
    PROVE  TrapInv'
<1>1. TrapTypeOK /\ OnCourse
  BY DEF TrapInv
<1> DEFINE f == [fw EXCEPT !.phase = "initializing"]
<1>2. f \in Firmwares /\ f.phase = "initializing"
  BY <1>1 DEF TrapTypeOK, Firmwares
<1>3. at = "init" /\ plat' = plat /\ low' = low /\ trap' = trap
      /\ StartGuard(f, "stimecmp", 0, 0, {ILLEGAL_INSTRUCTION}, "delegate")
  BY DEF Reserve
<1> HIDE DEF f
<1>4. Home = "init" /\ csr.mtvec = "failstop" /\ csr.mscratch = "zero" /\ csr.mstatus = HomeStatus
  BY <1>1, <1>3 DEF Home, Window, OnCourse, ControlHolds
<1>5. {ILLEGAL_INSTRUCTION} \in SUBSET Int /\ "stimecmp" \in GuardedCsrs \cup {"parcel", "read", "write"} /\ "delegate" \in Returns
  BY DEF ILLEGAL_INSTRUCTION, GuardedCsrs, Returns
<1>6. /\ at' = "publish" /\ csr' \in CsrFiles /\ fw' \in Firmwares
      /\ fw'.guard.what = "stimecmp" /\ fw'.guard.prev = csr.mtvec /\ fw'.guard.ret = "delegate"
      /\ fw'.record.mask = {ILLEGAL_INSTRUCTION} /\ ~fw'.record.trapped /\ fw'.phase = f.phase
      /\ csr'.mtvec = "recovery" /\ csr'.mscratch = csr.mscratch /\ csr'.mstatus = csr.mstatus
      /\ Home' = "delegate" /\ ~Closed' /\ Places'
  BY <1>1, <1>2, <1>3, <1>4, <1>5, StartGuardSets
<1>7. TrapTypeOK'
  BY <1>1, <1>3, <1>6 DEF TrapTypeOK
<1>8. ControlHolds'
  BY <1>1, <1>3, <1>4, <1>6 DEF OnCourse, ControlHolds, HomeStatus, BootPlaces, Window
<1>9. PhaseHolds' /\ GuardHolds' /\ RecordHolds' /\ FactsHold' /\ DataHolds'
  BY <1>1, <1>2, <1>3, <1>4, <1>6 DEF OnCourse, PhaseHolds, GuardHolds, RecordHolds, FactsHold, DataHolds, BootPlaces, Emulating, Returns, GuardedCsrs
<1>10. OutcomeHolds'
  BY <1>6 DEF OutcomeHolds, TrapsAreTransparent
<1> QED
  BY <1>3, <1>6, <1>7, <1>8, <1>9, <1>10 DEF TrapInv, OnCourse, StopsForStraysOnly, LowerCannotStop, StrayStops

\* The probe's answer is stored.
LEMMA DelegateKeeps ==
    ASSUME TrapInv, ~trap.stray, Delegate
    PROVE  TrapInv'
<1>1. TrapTypeOK /\ OnCourse
  BY DEF TrapInv
<1>2. at = "delegate" /\ at' = "commit" /\ plat' = plat /\ low' = low /\ trap' = trap /\ csr' = csr
  BY DEF Delegate
<1>3. Home = "delegate" /\ Home' = "commit"
  BY <1>2 DEF Home, Window
<1> DEFINE answered == ~fw.record.trapped
<1>a. fw \in Firmwares /\ answered \in BOOLEAN /\ fw' = [fw EXCEPT !.sstc = answered, !.phase = "ready"]
  BY <1>1 DEF TrapTypeOK, Delegate
<1> HIDE DEF answered
<1>b. fw' \in Firmwares /\ fw'.phase = "ready" /\ fw'.sstc = answered
  BY <1>a DEF Firmwares
<1>4. TrapTypeOK' /\ fw'.phase = "ready" /\ (fw'.sstc <=> ~fw.record.trapped)
  BY <1>1, <1>2, <1>b DEF TrapTypeOK, answered
<1>5. fw'.sstc = plat'.stimecmp
  <2>1. fw.record.trapped <=> WindowFault # 0
    BY <1>1, <1>2 DEF OnCourse, RecordHolds, Closed, Returns
  <2>2. fw.guard.what = "stimecmp"
    BY <1>1, <1>3 DEF OnCourse, GuardHolds, Returns
  <2>3. WindowFault = 0 <=> plat.stimecmp
    BY <2>2 DEF WindowFault, FaultUnder, GuardedCsrs, ILLEGAL_INSTRUCTION
  <2>4. fw'.sstc \in BOOLEAN /\ plat.stimecmp \in BOOLEAN
    BY <1>1, <1>4 DEF TrapTypeOK, Firmwares
  <2> QED
    BY <1>2, <1>4, <2>1, <2>3, <2>4
<1>6. Places' /\ PhaseHolds' /\ GuardHolds' /\ RecordHolds' /\ FactsHold' /\ DataHolds'
  BY <1>1, <1>2, <1>3, <1>4, <1>5 DEF OnCourse, Places, PhaseHolds, GuardHolds, RecordHolds, FactsHold, DataHolds, BootPlaces, Emulating,
     Returns, Window, Closed
<1>7. ControlHolds'
  BY <1>1, <1>2, <1>3 DEF OnCourse, ControlHolds, HomeStatus, BootPlaces, Window
<1>10. OutcomeHolds'
  BY <1>2 DEF OutcomeHolds, TrapsAreTransparent
<1> QED
  BY <1>2, <1>4, <1>6, <1>7, <1>10 DEF TrapInv, OnCourse, StopsForStraysOnly, LowerCannotStop, StrayStops

\* The normal vector is installed.
LEMMA CommitVectorKeeps ==
    ASSUME TrapInv, ~trap.stray, CommitVector
    PROVE  TrapInv'
<1>1. TrapTypeOK /\ OnCourse
  BY DEF TrapInv
<1>2. at = "commit" /\ at' = "arm" /\ plat' = plat /\ low' = low /\ trap' = trap /\ fw' = fw
  BY DEF CommitVector
<1>3. Home = "commit" /\ Home' = "arm"
  BY <1>2 DEF Home, Window
<1>4. TrapTypeOK' /\ csr'.mtvec = "normal" /\ csr'.mscratch = csr.mscratch /\ csr'.mstatus = csr.mstatus
  BY <1>1, <1>2 DEF TrapTypeOK, CommitVector, CsrFiles
<1>6. Places' /\ PhaseHolds' /\ GuardHolds' /\ RecordHolds' /\ FactsHold' /\ DataHolds'
  BY <1>1, <1>2, <1>3 DEF OnCourse, Places, PhaseHolds, GuardHolds, RecordHolds, FactsHold, DataHolds, BootPlaces, Emulating,
     Returns, Window, Closed
<1>7. ControlHolds'
  BY <1>1, <1>2, <1>3, <1>4 DEF OnCourse, ControlHolds, HomeStatus, BootPlaces, Window
<1>10. OutcomeHolds'
  BY <1>2 DEF OutcomeHolds, TrapsAreTransparent
<1> QED
  BY <1>2, <1>4, <1>6, <1>7, <1>10 DEF TrapInv, OnCourse, StopsForStraysOnly, LowerCannotStop, StrayStops

\* finish_boot enters the next stage for the first time.
LEMMA ArmKeeps ==
    ASSUME TrapInv, ~trap.stray, Arm
    PROVE  TrapInv'
<1>1. TrapTypeOK /\ OnCourse
  BY DEF TrapInv
<1>2. at = "arm" /\ at' = "lower" /\ plat' = plat /\ low' = low /\ trap' = trap
  BY DEF Arm
<1>3. Home = "arm" /\ Home' = "lower"
  BY <1>2 DEF Home, Window
<1>4. TrapTypeOK' /\ csr'.mtvec = csr.mtvec /\ csr'.mscratch = "top" /\ csr'.mstatus = LowerStatus
      /\ fw'.phase = "armed" /\ fw'.sstc = fw.sstc
  BY <1>1, <1>2, StatusTypes DEF TrapTypeOK, Arm, CsrFiles, Firmwares
<1>5. trap.of = NoTrap /\ trap.status = LowerStatus
  BY <1>1, <1>3 DEF OnCourse, FactsHold, BootPlaces
<1>6. Places' /\ PhaseHolds' /\ GuardHolds' /\ RecordHolds' /\ FactsHold' /\ DataHolds'
  BY <1>1, <1>2, <1>3, <1>4, <1>5 DEF OnCourse, Places, PhaseHolds, GuardHolds, RecordHolds, FactsHold, DataHolds, BootPlaces,
     Emulating, Returns, Window, Closed
<1>7. ControlHolds'
  BY <1>1, <1>2, <1>3, <1>4, <1>5, StatusTypes DEF OnCourse, ControlHolds, HomeStatus, BootPlaces, Window
<1>10. OutcomeHolds'
  BY <1>2, <1>5, FreshTypes DEF OutcomeHolds, TrapsAreTransparent
<1> QED
  BY <1>2, <1>4, <1>6, <1>7, <1>10 DEF TrapInv, OnCourse, StopsForStraysOnly, LowerCannotStop, StrayStops

\* The lower context traps.
LEMMA TakeTrapKeeps ==
    ASSUME TrapInv, ~trap.stray, TakeTrap
    PROVE  TrapInv'
<1>1. TrapTypeOK /\ OnCourse
  BY DEF TrapInv
<1>2. at = "lower" /\ at' = "entry" /\ plat' = plat /\ fw' = FreshStack(fw.phase, fw.sstc)
  BY DEF TakeTrap
<1>3. PICK t \in Trappings, regs \in RegFiles, m \in Memories, mxr \in {TRUE, FALSE} :
        LET st == [mpp |-> t.origin, mprv |-> FALSE, mxr |-> mxr, sie |-> t.origin = "S", spie |-> TRUE, spp |-> "S"] IN
        /\ mxr \in OwnMxr(t.origin)
        /\ low' = [x |-> regs, mem |-> m, sepc |-> 0, scause |-> 0, stval |-> 0]
        /\ csr' = [csr EXCEPT !.mepc = Pc, !.mcause = t.cause, !.mtval = t.tval, !.mstatus = st]
        /\ trap' = [of |-> t, status |-> st, low |-> low', answer |-> NoAnswer, stray |-> FALSE]
  BY DEF TakeTrap
<1> DEFINE st == [mpp |-> t.origin, mprv |-> FALSE, mxr |-> mxr, sie |-> t.origin = "S", spie |-> TRUE, spp |-> "S"]
<1>4. t \in Traps /\ t.origin \in {"U", "S"} /\ t.cause \in Int /\ t.tval \in Int
  BY TrappingFacts DEF Traps, Causes, Irq
<1>5. st \in Statuses /\ st.mprv = FALSE /\ st.mpp = t.origin
  BY <1>4 DEF Statuses
<1> HIDE DEF st
<1>6. low' = [x |-> regs, mem |-> m, sepc |-> 0, scause |-> 0, stval |-> 0]
      /\ csr' = [csr EXCEPT !.mepc = Pc, !.mcause = t.cause, !.mtval = t.tval, !.mstatus = st]
      /\ trap' = [of |-> t, status |-> st, low |-> low', answer |-> NoAnswer, stray |-> FALSE]
  BY <1>3 DEF st
<1>7. TrapTypeOK'
  <2>1. csr' \in CsrFiles
    <3>1. csr' = [csr EXCEPT !.mepc = Pc, !.mcause = t.cause, !.mtval = t.tval, !.mstatus = st]
      BY <1>6
    <3>2. t.cause \in Int /\ t.tval \in Int /\ st \in Statuses /\ Pc \in Int /\ csr \in CsrFiles
      BY <1>1, <1>4, <1>5 DEF Pc, TrapTypeOK
    <3> QED
      BY <3>1, <3>2 DEF CsrFiles
  <2>2. low' \in LowerContexts
    BY <1>6, TrapAssumption DEF LowerContexts
  <2>3. fw' \in Firmwares
    BY <1>1, <1>2, FreshTypes DEF TrapTypeOK, Firmwares
  <2>4. NoAnswer \in [by : {"none", "ecall", "stage", "dispatcher"}, first : Int, second : Int]
    BY FreshTypes
  <2>5. trap' \in Ghosts
    BY <1>4, <1>5, <1>6, <2>2, <2>4 DEF Ghosts
  <2> QED
    BY <1>1, <1>2, <2>1, <2>2, <2>3, <2>5 DEF TrapTypeOK
<1>8. Home = "lower" /\ Home' = "entry"
  BY <1>2 DEF Home, Window
<1>9. trap'.of = t /\ trap'.status = st /\ trap'.low = low' /\ trap'.answer = NoAnswer /\ trap'.stray = FALSE
  BY <1>6
<1>10. csr'.mtvec = csr.mtvec /\ csr'.mscratch = csr.mscratch /\ csr'.mstatus = st
       /\ csr'.mepc = Pc /\ csr'.mcause = t.cause /\ csr'.mtval = t.tval
  BY <1>1, <1>6 DEF TrapTypeOK, CsrFiles
<1>11. fw'.phase = fw.phase /\ fw'.sstc = fw.sstc /\ fw'.i = 0 /\ fw'.data = 0
  BY <1>1, <1>2, FreshTypes DEF TrapTypeOK, Firmwares
<1>12. ControlHolds'
  BY <1>1, <1>2, <1>5, <1>8, <1>9, <1>10 DEF OnCourse, ControlHolds, HomeStatus, BootPlaces, Window
<1>13. Places' /\ PhaseHolds' /\ GuardHolds' /\ RecordHolds'
  BY <1>1, <1>2, <1>8, <1>11 DEF OnCourse, Places, PhaseHolds, GuardHolds, RecordHolds, Returns, Window, Closed
<1>14. FactsHold'
  BY <1>2, <1>8, <1>9, <1>10, <1>11 DEF FactsHold, BootPlaces, Emulating
<1>15. DataHolds'
  BY <1>2, <1>8, <1>9 DEF DataHolds, BootPlaces, Emulating, NoRedirect
<1>16. OutcomeHolds'
  BY <1>2 DEF OutcomeHolds, TrapsAreTransparent
<1> QED
  BY <1>2, <1>7, <1>9, <1>12, <1>13, <1>14, <1>15, <1>16 DEF TrapInv, OnCourse, StopsForStraysOnly, LowerCannotStop, StrayStops

\* TrapFrame::write_x leaves a frame.
LEMMA WriteXTypes ==
    ASSUME NEW f \in [Regs -> Int], NEW r \in Regs, NEW v \in Int
    PROVE  /\ WriteX(f, r, v) \in [Regs -> Int]
           /\ \A q \in Regs : WriteX(f, r, v)[q] = IF q = r /\ q # 0 THEN v ELSE f[q]
  BY DEF WriteX

\* The fast path: the time is in the frame, and what is not saved is live.
LEMMA EnterFastKeeps ==
    ASSUME TrapInv, ~trap.stray, EnterFast
    PROVE  TrapInv'
<1>1. TrapTypeOK /\ OnCourse
  BY DEF TrapInv
<1>2. at = "entry" /\ at' = "fastReturn" /\ plat' = plat /\ low' = low /\ trap' = trap
  BY DEF EnterFast
<1>3. Home = "entry" /\ Home' = "fastReturn"
  BY <1>2 DEF Home, Window
<1>4. csr.mepc = Pc /\ csr.mcause = trap.of.cause /\ trap.of \in Trappings
  BY <1>1, <1>2, <1>3 DEF OnCourse, FactsHold, BootPlaces
<1>5. trap.of.cause = ILLEGAL_INSTRUCTION /\ trap.of.insn.reg \in CallerSaved /\ trap.of.insn.op = "time"
  BY <1>4 DEF EnterFast, FastTime, MtvalReadsTime
<1>6. low.x = trap.low.x /\ NoRedirect /\ low.mem = trap.low.mem /\ trap.answer = NoAnswer
  BY <1>1, <1>3 DEF OnCourse, DataHolds
<1>7. low.x \in [Regs -> Int] /\ trap.of.insn.reg \in Regs
  BY <1>1, <1>5 DEF TrapTypeOK, LowerContexts, CallerSaved, Regs
<1> DEFINE saved == [r \in Regs |-> IF r \in CallerSaved THEN low.x[r] ELSE -1]
<1>8. saved \in [Regs -> Int]
  BY <1>7
<1> HIDE DEF saved
<1>9. /\ WriteX(saved, trap.of.insn.reg, TimeValue) \in [Regs -> Int]
      /\ \A q \in Regs : WriteX(saved, trap.of.insn.reg, TimeValue)[q]
                            = IF q = trap.of.insn.reg /\ q # 0 THEN TimeValue ELSE saved[q]
  BY <1>7, <1>8, TimeIsANumber, WriteXTypes
<1>10. TrapTypeOK' /\ fw'.frame = WriteX(saved, trap.of.insn.reg, TimeValue) /\ fw'.phase = fw.phase /\ fw'.sstc = fw.sstc
       /\ csr'.mtvec = csr.mtvec /\ csr'.mscratch = "zero" /\ csr'.mstatus = csr.mstatus /\ csr'.mepc = Pc + 4
  <2>1. fw' = [fw EXCEPT !.frame = WriteX(saved, trap.of.insn.reg, TimeValue)]
        /\ csr' = [csr EXCEPT !.mscratch = "zero", !.mepc = Pc + 4]
    BY <1>1, <1>4 DEF EnterFast, TrapTypeOK, CsrFiles, saved
  <2>2. csr' \in CsrFiles /\ csr'.mtvec = csr.mtvec /\ csr'.mscratch = "zero" /\ csr'.mstatus = csr.mstatus /\ csr'.mepc = Pc + 4
    <3>1. csr \in CsrFiles /\ Pc + 4 \in Int
      BY <1>1 DEF TrapTypeOK, Pc
    <3>2. csr' = [csr EXCEPT !.mscratch = "zero", !.mepc = Pc + 4]
      BY <2>1
    <3> QED
      BY <3>1, <3>2 DEF CsrFiles
  <2>3. fw' \in Firmwares /\ fw'.frame = WriteX(saved, trap.of.insn.reg, TimeValue) /\ fw'.phase = fw.phase /\ fw'.sstc = fw.sstc
    BY <1>1, <1>9, <2>1 DEF TrapTypeOK, Firmwares
  <2> QED
    BY <1>1, <1>2, <2>2, <2>3 DEF TrapTypeOK
<1>11. Places' /\ PhaseHolds' /\ GuardHolds' /\ RecordHolds' /\ FactsHold' /\ DataHolds'
  BY <1>1, <1>2, <1>3, <1>4, <1>10 DEF OnCourse, Places, PhaseHolds, GuardHolds, RecordHolds, FactsHold, DataHolds, BootPlaces,
     Emulating, Returns, Window, Closed
<1>12. ControlHolds'
  BY <1>1, <1>2, <1>3, <1>10 DEF OnCourse, ControlHolds, HomeStatus, BootPlaces, Window
<1>13. OutcomeHolds'
  <2> DEFINE x == [r \in Regs |-> IF r \in CallerSaved THEN fw'.frame[r] ELSE low'.x[r]]
             y == [r \in Regs |-> IF r = trap.of.insn.reg /\ r # 0 THEN TimeValue ELSE trap.low.x[r]]
  <2>1. x = y
    BY <1>2, <1>5, <1>6, <1>9, <1>10 DEF saved
  <2>2. csr'.mstatus = trap.status
    BY <1>1, <1>2, <1>3, <1>10 DEF OnCourse, ControlHolds, HomeStatus, BootPlaces
  <2>3. Transparent([r \in Regs |-> IF r \in CallerSaved THEN fw.frame[r] ELSE low.x[r]])'
    <3>1. trap.answer.by # "stage" /\ ~(trap.of.cause >= Irq)
      BY <1>5, <1>6 DEF NoAnswer, Irq, ILLEGAL_INSTRUCTION
    <3>2. Effect(trap.of, [r \in Regs |-> IF r \in CallerSaved THEN fw.frame[r] ELSE low.x[r]])'
      BY <1>2, <1>5, <1>6, <2>1 DEF Effect
    <3>3. NoRedirect' /\ SameStatus'
      BY <1>2, <1>6, <2>2 DEF NoRedirect, SameStatus
    <3> QED
      BY <1>2, <1>10, <3>1, <3>2, <3>3 DEF Transparent, Executed
  <2> QED
    BY <1>2, <2>3 DEF OutcomeHolds, TrapsAreTransparent
<1> QED
  BY <1>2, <1>10, <1>11, <1>12, <1>13 DEF TrapInv, OnCourse, StopsForStraysOnly, LowerCannotStop, StrayStops

\* All registers are saved.
LEMMA EnterFullKeeps ==
    ASSUME TrapInv, ~trap.stray, EnterFull
    PROVE  TrapInv'
<1>1. TrapTypeOK /\ OnCourse
  BY DEF TrapInv
<1>2. at = "entry" /\ at' = "dispatch" /\ plat' = plat /\ low' = low /\ trap' = trap
  BY DEF EnterFull
<1>3. Home = "entry" /\ Home' = "dispatch"
  BY <1>2 DEF Home, Window
<1>4. TrapTypeOK' /\ fw'.frame = low.x /\ fw'.phase = fw.phase /\ fw'.sstc = fw.sstc /\ fw'.i = fw.i /\ fw'.data = fw.data
       /\ csr'.mtvec = csr.mtvec /\ csr'.mscratch = "zero" /\ csr'.mstatus = csr.mstatus /\ csr'.mepc = csr.mepc
       /\ csr'.mcause = csr.mcause /\ csr'.mtval = csr.mtval
  <2>1. low.x \in [Regs -> Int]
    BY <1>1 DEF TrapTypeOK, LowerContexts
  <2> QED
    BY <1>1, <1>2, <2>1 DEF EnterFull, TrapTypeOK, CsrFiles, Firmwares
<1>5. Places' /\ PhaseHolds' /\ GuardHolds' /\ RecordHolds' /\ FactsHold'
  BY <1>1, <1>2, <1>3, <1>4 DEF OnCourse, Places, PhaseHolds, GuardHolds, RecordHolds, FactsHold, BootPlaces,
     Emulating, Returns, Window, Closed
<1>6. DataHolds'
  BY <1>1, <1>2, <1>3, <1>4 DEF OnCourse, DataHolds, NoRedirect, Emulating
<1>7. ControlHolds'
  BY <1>1, <1>2, <1>3, <1>4 DEF OnCourse, ControlHolds, HomeStatus, BootPlaces, Window
<1>8. OutcomeHolds'
  BY <1>2 DEF OutcomeHolds, TrapsAreTransparent
<1> QED
  BY <1>2, <1>4, <1>5, <1>6, <1>7, <1>8 DEF TrapInv, OnCourse, StopsForStraysOnly, LowerCannotStop, StrayStops

\* What the return makes visible does not depend on the live registers.
LEMMA TransparentIsStable ==
    ASSUME NEW y, Transparent(y), trap' = trap, plat' = plat, csr'.mepc = csr.mepc, csr'.mstatus = csr.mstatus,
           low'.x = y, low'.mem = low.mem, low'.sepc = low.sepc, low'.scause = low.scause, low'.stval = low.stval
    PROVE  Transparent(low.x)'
<1>1. (SameStatus' <=> SameStatus) /\ (NoRedirect' <=> NoRedirect) /\ (PartlyStored(trap.of)' <=> PartlyStored(trap.of))
      /\ (MustExecute(trap.of)' <=> MustExecute(trap.of))
  BY DEF SameStatus, NoRedirect, PartlyStored, MustExecute
<1>2. Effect(trap.of, y) => Effect(trap.of, low.x)'
  <2>1. \A bytes : RegisterHolds(trap.of, low.x, bytes)' <=> RegisterHolds(trap.of, y, bytes)
    BY DEF RegisterHolds
  <2> QED
    BY <2>1 DEF Effect
<1>3. CanRaise(trap.of, low.scause, low.stval) => CanRaise(trap.of, low.scause, low.stval)'
  BY DEF CanRaise
<1> QED
  BY <1>1, <1>2, <1>3 DEF Transparent, Executed, Delegated

\* The registers are restored.
LEMMA ReturnToLowerKeeps ==
    ASSUME TrapInv, ~trap.stray, ReturnToLower
    PROVE  TrapInv'
<1>1. TrapTypeOK /\ OnCourse
  BY DEF TrapInv
<1>2. at \in {"fastReturn", "return"} /\ at' = "lower" /\ plat' = plat /\ fw' = fw /\ trap' = trap
  BY DEF ReturnToLower
<1>3. Home = at /\ Home' = "lower"
  BY <1>2 DEF Home, Window
<1> DEFINE y == [r \in Regs |-> IF at = "fastReturn" /\ r \notin CallerSaved THEN low.x[r] ELSE fw.frame[r]]
<1>4. y \in [Regs -> Int] /\ fw.frame \in [Regs -> Int]
  BY <1>1 DEF TrapTypeOK, LowerContexts, Firmwares
<1>5. low' = [low EXCEPT !.x = y] /\ csr' = [csr EXCEPT !.mscratch = "top"]
  BY DEF ReturnToLower
<1>6. Transparent(y)
  <2>1. CASE at = "return"
    <3>1. y = fw.frame
      BY <1>4, <2>1
    <3> QED
      BY <1>1, <2>1, <3>1 DEF OnCourse, OutcomeHolds
  <2>2. CASE at = "fastReturn"
    <3>1. y = [r \in Regs |-> IF r \in CallerSaved THEN fw.frame[r] ELSE low.x[r]]
      BY <2>2
    <3> QED
      BY <1>1, <2>2, <3>1 DEF OnCourse, OutcomeHolds
  <2> QED
    BY <1>2, <2>1, <2>2
<1> HIDE DEF y
<1>7. TrapTypeOK' /\ csr'.mtvec = csr.mtvec /\ csr'.mscratch = "top" /\ csr'.mstatus = csr.mstatus /\ csr'.mepc = csr.mepc
      /\ low'.x = y /\ low'.mem = low.mem /\ low'.sepc = low.sepc /\ low'.scause = low.scause /\ low'.stval = low.stval
  BY <1>1, <1>2, <1>4, <1>5 DEF TrapTypeOK, CsrFiles, LowerContexts
<1>8. Places' /\ PhaseHolds' /\ GuardHolds' /\ RecordHolds' /\ FactsHold' /\ DataHolds'
  BY <1>1, <1>2, <1>3 DEF OnCourse, Places, PhaseHolds, GuardHolds, RecordHolds, FactsHold, DataHolds, BootPlaces,
     Emulating, Returns, Window, Closed
<1>9. ControlHolds'
  BY <1>1, <1>2, <1>3, <1>7 DEF OnCourse, ControlHolds, HomeStatus, BootPlaces, Window
<1>10. OutcomeHolds'
  <2>1. Transparent(low.x)'
    BY <1>2, <1>6, <1>7, TransparentIsStable
  <2> QED
    BY <1>2, <2>1 DEF OutcomeHolds, TrapsAreTransparent
<1> QED
  BY <1>2, <1>7, <1>8, <1>9, <1>10 DEF TrapInv, OnCourse, StopsForStraysOnly, LowerCannotStop, StrayStops

------------------------------------------------------------------------------
(* Dispatch. *)

\* A place of the dispatch: the trap is whole, and the frame holds the registers.
LEMMA AtDispatch ==
    ASSUME TrapTypeOK, OnCourse, at = "dispatch"
    PROVE  /\ Home = "dispatch" /\ trap.of \in Trappings /\ trap.of \in Traps
           /\ csr.mepc = Pc /\ csr.mcause = trap.of.cause /\ csr.mtval = trap.of.tval /\ csr.mstatus = trap.status
           /\ csr.mtvec = "normal" /\ csr.mscratch = "zero" /\ ~trap.status.mprv
           /\ trap.status \in Statuses /\ trap.status.mpp = trap.of.origin /\ trap.of.origin \in {"U", "S"}
           /\ low.x = trap.low.x /\ NoRedirect /\ low.mem = trap.low.mem /\ trap.answer = NoAnswer /\ fw.frame = trap.low.x
           /\ fw.phase = "armed" /\ fw.sstc = plat.stimecmp /\ fw.frame \in [Regs -> Int] /\ trap.of.cause \in Int
           /\ trap.of.tval \in Int /\ trap.of.insn \in Insns
<1>1. Home = "dispatch"
  BY DEF Home, Window
<1>2. trap.of \in Trappings /\ csr.mepc = Pc /\ csr.mcause = trap.of.cause /\ csr.mtval = trap.of.tval
  BY <1>1 DEF OnCourse, FactsHold, BootPlaces
<1>3. trap.of \in Traps /\ trap.of.origin \in {"U", "S"} /\ trap.status \in Statuses /\ fw.frame \in [Regs -> Int]
      /\ trap.of.cause \in Int /\ trap.of.tval \in Int /\ trap.of.insn \in Insns
  BY DEF TrapTypeOK, Ghosts, Traps, Firmwares, Causes, Irq
<1>4. csr.mstatus = trap.status /\ csr.mtvec = "normal" /\ csr.mscratch = "zero" /\ ~trap.status.mprv
      /\ trap.status.mpp = trap.of.origin
  BY <1>1 DEF OnCourse, ControlHolds, HomeStatus, BootPlaces, Window
<1>5. low.x = trap.low.x /\ NoRedirect /\ low.mem = trap.low.mem /\ trap.answer = NoAnswer /\ fw.frame = trap.low.x
  BY <1>1 DEF OnCourse, DataHolds
<1>6. fw.phase = "armed" /\ fw.sstc = plat.stimecmp
  BY <1>1 DEF OnCourse, PhaseHolds
<1> QED
  BY <1>1, <1>2, <1>3, <1>4, <1>5, <1>6

\* On the way back only the outcome matters.
LEMMA ReturnIsOnCourse ==
    ASSUME TrapInv, ~trap.stray, TrapTypeOK', at' = "return", plat' = plat, ~trap'.stray,
           trap'.of = trap.of, trap'.status = trap.status, trap.of \in Trappings,
           csr'.mtvec = "normal", csr'.mscratch = "zero", ~csr'.mstatus.mprv, csr'.mstatus.mxr = trap.status.mxr,
           fw'.phase = "armed", fw'.sstc = plat.stimecmp, Transparent(fw.frame)'
    PROVE  TrapInv'
<1>1. TrapTypeOK /\ OnCourse
  BY DEF TrapInv
<1>2. Home' = "return"
  BY DEF Home, Window
<1>3. Places' /\ PhaseHolds' /\ GuardHolds' /\ RecordHolds' /\ FactsHold' /\ DataHolds'
  BY <1>2 DEF Places, PhaseHolds, GuardHolds, RecordHolds, FactsHold, DataHolds, BootPlaces,
     Emulating, Returns, Window, Closed
<1>4. ControlHolds'
  BY <1>1, <1>2 DEF OnCourse, ControlHolds, HomeStatus, BootPlaces, Window
<1>5. OutcomeHolds'
  BY DEF OutcomeHolds, TrapsAreTransparent
<1> QED
  BY <1>3, <1>4, <1>5 DEF TrapInv, OnCourse, StopsForStraysOnly, LowerCannotStop, StrayStops

\* redirect_trap
LEMMA RedirectKeeps ==
    ASSUME TrapInv, ~trap.stray, at \in {"dispatch", "failed"}, NEW t, NEW c \in Int, NEW v \in Int, Redirect(t, c, v),
           plat' = plat, fw' = fw, trap' = trap,
           t.mstatus = trap.status, t.mepc = Pc, t.mcause \in Int, t.mtval \in Int,
           CanRaise(trap.of, c, v), PartlyStored(trap.of), ~MustExecute(trap.of),
           trap.of.cause < Irq, trap.answer = NoAnswer, fw.frame = trap.low.x, trap.of \in Trappings
    PROVE  TrapInv'
<1>1. TrapTypeOK /\ OnCourse
  BY DEF TrapInv
<1>2. Home = at /\ at' = "return"
  BY DEF Home, Window, Redirect
<1> DEFINE st == RedirectStatus(trap.status)
<1>3. /\ trap.status \in Statuses /\ ~trap.status.mprv /\ trap.status.mpp = trap.of.origin /\ trap.of.origin \in {"U", "S"}
      /\ trap.of.cause \in Int
  BY <1>1 DEF OnCourse, ControlHolds, TrapTypeOK, Ghosts, Traps, Causes, Irq
<1>4. st \in Statuses /\ ~st.mprv
      /\ st = [trap.status EXCEPT !.mpp = "S", !.spp = trap.of.origin, !.spie = trap.status.sie, !.sie = FALSE]
  BY <1>3 DEF RedirectStatus, Statuses
<1> HIDE DEF st
<1>5. csr' = [csr EXCEPT !.mepc = Stvec, !.mstatus = st, !.mcause = t.mcause, !.mtval = t.mtval]
      /\ low' = [low EXCEPT !.sepc = Pc, !.scause = c, !.stval = v]
  BY DEF Redirect, st
<1>6. csr \in CsrFiles /\ low \in LowerContexts /\ Stvec \in Int /\ Pc \in Int
  BY <1>1 DEF TrapTypeOK, Stvec, Pc
<1>7. csr' \in CsrFiles /\ csr'.mepc = Stvec /\ csr'.mstatus = st /\ csr'.mtvec = csr.mtvec /\ csr'.mscratch = csr.mscratch
  BY <1>4, <1>5, <1>6 DEF CsrFiles
<1>8. low' \in LowerContexts /\ low'.mem = low.mem /\ low'.sepc = Pc /\ low'.scause = c /\ low'.stval = v
  BY <1>5, <1>6 DEF LowerContexts
<1>9. TrapTypeOK'
  BY <1>1, <1>7, <1>8 DEF TrapTypeOK
<1>10. csr.mtvec = "normal" /\ csr.mscratch = "zero" /\ fw.phase = "armed" /\ fw.sstc = plat.stimecmp
  BY <1>1, <1>2 DEF OnCourse, ControlHolds, PhaseHolds, Window
<1>11. Transparent(fw.frame)'
  <2>1. Delegated(trap.of, fw.frame)'
    <3>1. PartlyStored(trap.of)'
      BY <1>8 DEF PartlyStored
    <3>2. CanRaise(trap.of, low.scause, low.stval)'
      BY <1>8 DEF CanRaise
    <3> QED
      BY <1>4, <1>7, <1>8, <3>1, <3>2 DEF Delegated
  <2>2. ~MustExecute(trap.of)'
    BY DEF MustExecute
  <2>3. trap.answer.by # "stage" /\ ~(trap.of.cause >= Irq)
    BY <1>3 DEF NoAnswer, Irq
  <2> QED
    BY <2>1, <2>2, <2>3 DEF Transparent
<1> QED
  BY <1>2, <1>4, <1>7, <1>9, <1>10, <1>11, ReturnIsOnCourse

\* The exceptions that are redirected at once.
LEMMA DispatchRedirectKeeps ==
    ASSUME TrapInv, ~trap.stray, DispatchRedirect
    PROVE  TrapInv'
<1>1. TrapTypeOK /\ OnCourse
  BY DEF TrapInv
<1>2. at = "dispatch" /\ plat' = plat /\ fw' = fw /\ trap' = trap /\ Redirect(csr, csr.mcause, csr.mtval) /\ csr.mcause < Irq
      /\ csr.mcause \notin {ECALL_FROM_S, ILLEGAL_INSTRUCTION, LOAD_MISALIGNED, STORE_MISALIGNED}
  BY DEF DispatchRedirect, ECALL_FROM_S, ILLEGAL_INSTRUCTION, LOAD_MISALIGNED, STORE_MISALIGNED, LOAD_FAULT, STORE_FAULT
<1>3. /\ trap.of \in Trappings /\ csr.mepc = Pc /\ csr.mcause = trap.of.cause /\ csr.mtval = trap.of.tval
      /\ csr.mstatus = trap.status /\ low.mem = trap.low.mem /\ trap.answer = NoAnswer /\ fw.frame = trap.low.x
      /\ trap.of.cause \in Int /\ trap.of.tval \in Int
  BY <1>1, <1>2, AtDispatch
<1>4. CanRaise(trap.of, csr.mcause, csr.mtval) /\ PartlyStored(trap.of)
  BY <1>3 DEF CanRaise, PartlyStored
<1>5. ~MustExecute(trap.of)
  BY <1>2, <1>3 DEF MustExecute
<1> QED
  BY <1>2, <1>3, <1>4, <1>5, RedirectKeeps

\* The policy's answer to a call.
LEMMA SbiEcallKeeps ==
    ASSUME TrapInv, ~trap.stray, SbiEcall
    PROVE  TrapInv'
<1>1. TrapTypeOK /\ OnCourse
  BY DEF TrapInv
<1>2. at = "dispatch" /\ at' = "return" /\ plat' = plat /\ low' = low /\ csr.mcause = ECALL_FROM_S
  BY DEF SbiEcall
<1>3. PICK error, value \in {1, 2} :
        /\ fw' = [fw EXCEPT !.frame = WriteX(WriteX(fw.frame, 10, error), 11, value)]
        /\ trap' = [trap EXCEPT !.answer = [by |-> "ecall", first |-> error, second |-> value]]
  BY DEF SbiEcall
<1>4. /\ trap.of \in Trappings /\ csr.mepc = Pc /\ csr.mcause = trap.of.cause
      /\ csr.mstatus = trap.status /\ low.mem = trap.low.mem /\ fw.frame = trap.low.x /\ NoRedirect
      /\ fw.frame \in [Regs -> Int] /\ csr.mtvec = "normal" /\ csr.mscratch = "zero" /\ ~trap.status.mprv
      /\ fw.phase = "armed" /\ fw.sstc = plat.stimecmp
  BY <1>1, <1>2, AtDispatch
<1> DEFINE f1 == WriteX(fw.frame, 10, error)
           f2 == WriteX(f1, 11, value)
<1>5. 10 \in Regs /\ 11 \in Regs /\ error \in Int /\ value \in Int
  BY DEF Regs
<1>6. f1 \in [Regs -> Int] /\ f2 \in [Regs -> Int] /\ f2 = [trap.low.x EXCEPT ![10] = error, ![11] = value]
  BY <1>4, <1>5 DEF WriteX
<1> HIDE DEF f1, f2
<1>7. fw' = [fw EXCEPT !.frame = f2]
  BY <1>3 DEF f1, f2
<1> DEFINE a == [by |-> "ecall", first |-> error, second |-> value]
<1>8. a \in [by : {"none", "ecall", "stage", "dispatcher"}, first : Int, second : Int]
      /\ a.by = "ecall" /\ a.first = error /\ a.second = value /\ trap' = [trap EXCEPT !.answer = a]
  BY <1>3, <1>5
<1> HIDE DEF a
<1>9. fw' \in Firmwares /\ fw'.frame = f2 /\ fw'.phase = fw.phase /\ fw'.sstc = fw.sstc
  BY <1>1, <1>6, <1>7 DEF TrapTypeOK, Firmwares
<1>10. trap' \in Ghosts /\ trap'.of = trap.of /\ trap'.status = trap.status /\ trap'.low = trap.low /\ trap'.answer = a
       /\ trap'.stray = trap.stray
  BY <1>1, <1>8 DEF TrapTypeOK, Ghosts
<1>11. csr' \in CsrFiles /\ csr'.mepc = Pc + 4 /\ csr'.mstatus = csr.mstatus /\ csr'.mtvec = csr.mtvec
       /\ csr'.mscratch = csr.mscratch
  <2>1. csr' = [csr EXCEPT !.mepc = csr.mepc + 4] /\ csr \in CsrFiles
    BY <1>1 DEF SbiEcall, TrapTypeOK
  <2> QED
    BY <1>4, <2>1 DEF CsrFiles, Pc
<1>12. TrapTypeOK'
  BY <1>1, <1>2, <1>9, <1>10, <1>11 DEF TrapTypeOK
<1>13. Transparent(fw.frame)'
  <2>1. trap'.answer.by # "stage" /\ ~(trap'.of.cause >= Irq)
    BY <1>2, <1>4, <1>8, <1>10 DEF ECALL_FROM_S, Irq
  <2>2. Effect(trap.of, fw.frame)'
    BY <1>2, <1>4, <1>6, <1>8, <1>9, <1>10 DEF Effect
  <2>3. SameStatus' /\ NoRedirect'
    BY <1>2, <1>4, <1>10, <1>11 DEF SameStatus, NoRedirect
  <2> QED
    BY <1>11, <2>1, <2>2, <2>3 DEF Transparent, Executed
<1> QED
  BY <1>2, <1>4, <1>9, <1>10, <1>11, <1>12, <1>13, ReturnIsOnCourse

\* The hart enters a new stage.
LEMMA EnterNextStageKeeps ==
    ASSUME TrapInv, ~trap.stray, EnterNextStage
    PROVE  TrapInv'
<1>1. TrapTypeOK /\ OnCourse
  BY DEF TrapInv
<1>2. at = "dispatch" /\ at' = "return" /\ plat' = plat /\ low' = low
      /\ csr' = [csr EXCEPT !.mepc = StageEntry, !.mstatus.mpp = "S", !.mstatus.sie = FALSE]
  BY DEF EnterNextStage
<1> DEFINE F(hart, opaque) == [r \in Regs |-> CASE r = 10 -> hart [] r = 11 -> opaque [] OTHER -> 0]
<1>3. PICK hart, opaque \in {1, 2} :
        /\ fw' = [fw EXCEPT !.frame = F(hart, opaque)]
        /\ trap' = [trap EXCEPT !.answer = [by |-> "stage", first |-> hart, second |-> opaque]]
  BY DEF EnterNextStage
<1>4. /\ trap.of \in Trappings /\ csr.mstatus = trap.status /\ trap.status \in Statuses /\ csr.mtvec = "normal"
      /\ csr.mscratch = "zero" /\ ~trap.status.mprv /\ fw.phase = "armed" /\ fw.sstc = plat.stimecmp
  BY <1>1, <1>2, AtDispatch
<1>5. F(hart, opaque) \in [Regs -> Int]
  <2>1. \A r \in Regs : (CASE r = 10 -> hart [] r = 11 -> opaque [] OTHER -> 0) \in Int
    BY DEF Regs
  <2> QED
    BY <2>1
<1> DEFINE a == [by |-> "stage", first |-> hart, second |-> opaque]
<1>6. a \in [by : {"none", "ecall", "stage", "dispatcher"}, first : Int, second : Int]
      /\ a.by = "stage" /\ a.first = hart /\ a.second = opaque /\ trap' = [trap EXCEPT !.answer = a]
  BY <1>3
<1> HIDE DEF a, F
<1>7. fw' \in Firmwares /\ fw'.frame = F(hart, opaque) /\ fw'.phase = fw.phase /\ fw'.sstc = fw.sstc
  BY <1>1, <1>3, <1>5 DEF TrapTypeOK, Firmwares
<1>8. trap' \in Ghosts /\ trap'.of = trap.of /\ trap'.status = trap.status /\ trap'.answer = a
       /\ trap'.stray = trap.stray
  BY <1>1, <1>6 DEF TrapTypeOK, Ghosts
<1> DEFINE st == [csr.mstatus EXCEPT !.mpp = "S", !.sie = FALSE]
<1>9. st \in Statuses /\ ~st.mprv /\ st.mxr = trap.status.mxr
  BY <1>4 DEF Statuses
<1>10. csr' = [csr EXCEPT !.mepc = StageEntry, !.mstatus = st]
  BY <1>1, <1>2 DEF TrapTypeOK, CsrFiles
<1> HIDE DEF st
<1>11. csr' \in CsrFiles /\ csr'.mepc = StageEntry /\ csr'.mstatus = st /\ csr'.mtvec = csr.mtvec
       /\ csr'.mscratch = csr.mscratch
  <2>1. csr \in CsrFiles /\ StageEntry \in Int
    BY <1>1 DEF TrapTypeOK, StageEntry
  <2>2. st \in Statuses
    BY <1>9
  <2> QED
    BY <1>10, <2>1, <2>2 DEF CsrFiles
<1>12. TrapTypeOK'
  BY <1>1, <1>2, <1>7, <1>8, <1>11 DEF TrapTypeOK
<1>13. Transparent(fw.frame)'
  BY <1>6, <1>7, <1>8, <1>11 DEF Transparent, F
<1> QED
  BY <1>2, <1>4, <1>7, <1>8, <1>9, <1>11, <1>12, <1>13, ReturnIsOnCourse

\* An interrupt that changes nothing.
LEMMA DispatchInterruptKeeps ==
    ASSUME TrapInv, ~trap.stray, DispatchInterrupt
    PROVE  TrapInv'
<1>1. TrapTypeOK /\ OnCourse
  BY DEF TrapInv
<1>2. at = "dispatch" /\ at' = "return" /\ plat' = plat /\ low' = low /\ csr' = csr /\ fw' = fw /\ trap' = trap
      /\ csr.mcause \in {MSOFT, MTIMER, MEXT}
  BY DEF DispatchInterrupt
<1>4. /\ trap.of \in Trappings /\ csr.mepc = Pc /\ csr.mcause = trap.of.cause /\ trap.answer = NoAnswer
      /\ csr.mstatus = trap.status /\ low.mem = trap.low.mem /\ fw.frame = trap.low.x /\ NoRedirect
      /\ csr.mtvec = "normal" /\ csr.mscratch = "zero" /\ ~trap.status.mprv
      /\ fw.phase = "armed" /\ fw.sstc = plat.stimecmp
  BY <1>1, <1>2, AtDispatch
<1>5. TrapTypeOK'
  BY <1>1, <1>2 DEF TrapTypeOK
<1>6. Transparent(fw.frame)'
  BY <1>2, <1>4 DEF Transparent, SameStatus, NoRedirect, NoAnswer, MSOFT, MTIMER, MEXT, Irq
<1> QED
  BY <1>2, <1>4, <1>5, <1>6, ReturnIsOnCourse

\* A time read from the direct counter.
LEMMA DirectCounterKeeps ==
    ASSUME TrapInv, ~trap.stray, DirectCounter
    PROVE  TrapInv'
<1>1. TrapTypeOK /\ OnCourse
  BY DEF TrapInv
<1>2. at = "dispatch" /\ at' = "return" /\ plat' = plat /\ low' = low /\ trap' = trap
      /\ csr.mcause = ILLEGAL_INSTRUCTION
      /\ fw' = [fw EXCEPT !.frame = WriteX(fw.frame, trap.of.insn.reg, TimeValue)]
      /\ csr' = [csr EXCEPT !.mepc = Pc + 4]
  BY DEF DirectCounter
<1>4. /\ trap.of \in Trappings /\ csr.mcause = trap.of.cause /\ trap.answer = NoAnswer
      /\ csr.mstatus = trap.status /\ low.mem = trap.low.mem /\ fw.frame = trap.low.x /\ NoRedirect
      /\ csr.mtvec = "normal" /\ csr.mscratch = "zero" /\ ~trap.status.mprv /\ fw.frame \in [Regs -> Int]
      /\ fw.phase = "armed" /\ fw.sstc = plat.stimecmp /\ trap.of.insn \in Insns
  BY <1>1, <1>2, AtDispatch
<1> DEFINE f == WriteX(fw.frame, trap.of.insn.reg, TimeValue)
<1>5. trap.of.insn.reg \in Regs
  BY <1>4, InsnFacts
<1>6. f \in [Regs -> Int] /\ f = [r \in Regs |-> IF r = trap.of.insn.reg /\ r # 0 THEN TimeValue ELSE trap.low.x[r]]
  <2>1. f \in [Regs -> Int] /\ \A q \in Regs : f[q] = IF q = trap.of.insn.reg /\ q # 0 THEN TimeValue ELSE fw.frame[q]
    BY <1>4, <1>5, TimeIsANumber, WriteXTypes
  <2> QED
    BY <1>4, <2>1
<1> HIDE DEF f
<1>7. fw' \in Firmwares /\ fw'.frame = f /\ fw'.phase = fw.phase /\ fw'.sstc = fw.sstc
  BY <1>1, <1>2, <1>6 DEF TrapTypeOK, Firmwares, f
<1>8. csr' \in CsrFiles /\ csr'.mepc = Pc + 4 /\ csr'.mstatus = csr.mstatus /\ csr'.mtvec = csr.mtvec
       /\ csr'.mscratch = csr.mscratch
  BY <1>1, <1>2 DEF TrapTypeOK, CsrFiles, Pc
<1>9. TrapTypeOK'
  BY <1>1, <1>2, <1>7, <1>8 DEF TrapTypeOK
<1>10. Transparent(fw.frame)'
  <2>1. trap.answer.by # "stage" /\ ~(trap.of.cause >= Irq)
    BY <1>2, <1>4 DEF ILLEGAL_INSTRUCTION, Irq, NoAnswer
  <2>2. Effect(trap.of, fw.frame)'
    BY <1>2, <1>4, <1>6, <1>7 DEF Effect
  <2>3. SameStatus' /\ NoRedirect'
    BY <1>2, <1>4, <1>8 DEF SameStatus, NoRedirect
  <2> QED
    BY <1>2, <1>8, <2>1, <2>2, <2>3 DEF Transparent, Executed
<1> QED
  BY <1>2, <1>4, <1>7, <1>8, <1>9, <1>10, ReturnIsOnCourse

------------------------------------------------------------------------------
(* Emulation. *)

\* What holds wherever a trap is emulated.
LEMMA AtEmulating ==
    ASSUME TrapTypeOK, OnCourse, at \in Emulating
    PROVE  /\ Home = at /\ trap.of \in Trappings /\ trap.of \in Traps
           /\ fw.facts = [mepc |-> Pc, mcause |-> trap.of.cause, mtval |-> trap.of.tval, mstatus |-> trap.status]
           /\ fw.facts.mepc = Pc /\ fw.facts.mcause = trap.of.cause /\ fw.facts.mtval = trap.of.tval
           /\ fw.facts.mstatus = trap.status
           /\ trap.of.cause \in {LOAD_MISALIGNED, STORE_MISALIGNED, LOAD_FAULT, STORE_FAULT, ILLEGAL_INSTRUCTION}
           /\ csr.mstatus = trap.status /\ csr.mtvec = "normal" /\ csr.mscratch = "zero" /\ ~trap.status.mprv
           /\ trap.status \in Statuses
           /\ low.x = trap.low.x /\ NoRedirect
           /\ at # "finish" => trap.answer = NoAnswer /\ fw.frame = trap.low.x
           /\ fw.phase = "armed" /\ fw.sstc = plat.stimecmp /\ fw.frame \in [Regs -> Int] /\ trap.of.cause \in Int
           /\ trap.of.tval \in Int /\ trap.of.insn \in Insns
           /\ fw.error \in [cause : Int, tval : Int] /\ fw.record.mcause \in Int /\ fw.record.mtval \in Int
<1>1. Home = at
  BY DEF Home, Window, Emulating
<1>2. trap.of \in Trappings
      /\ fw.facts = [mepc |-> Pc, mcause |-> trap.of.cause, mtval |-> trap.of.tval, mstatus |-> trap.status]
      /\ trap.of.cause \in {LOAD_MISALIGNED, STORE_MISALIGNED, LOAD_FAULT, STORE_FAULT, ILLEGAL_INSTRUCTION}
  BY <1>1 DEF OnCourse, FactsHold, BootPlaces, Emulating
<1>3. trap.of \in Traps /\ trap.status \in Statuses /\ fw.frame \in [Regs -> Int]
      /\ trap.of.cause \in Int /\ trap.of.tval \in Int /\ trap.of.insn \in Insns
      /\ fw.error \in [cause : Int, tval : Int] /\ fw.record.mcause \in Int /\ fw.record.mtval \in Int
  BY DEF TrapTypeOK, Ghosts, Traps, Firmwares, Records, Causes, Irq
<1>4. csr.mstatus = trap.status /\ csr.mtvec = "normal" /\ csr.mscratch = "zero" /\ ~trap.status.mprv
  BY <1>1 DEF OnCourse, ControlHolds, HomeStatus, BootPlaces, Window, Emulating
<1>5. low.x = trap.low.x /\ NoRedirect /\ (at # "finish" => trap.answer = NoAnswer /\ fw.frame = trap.low.x)
  BY <1>1 DEF OnCourse, DataHolds
<1>6. fw.phase = "armed" /\ fw.sstc = plat.stimecmp
  BY <1>1 DEF OnCourse, PhaseHolds, Emulating
<1>7. fw.facts.mepc = Pc /\ fw.facts.mcause = trap.of.cause /\ fw.facts.mtval = trap.of.tval /\ fw.facts.mstatus = trap.status
  BY <1>2
<1> QED
  BY <1>1, <1>2, <1>3, <1>4, <1>5, <1>6, <1>7

\* A guarded access of the emulation begins.
LEMMA GuardIsOnCourse ==
    ASSUME TrapInv, ~trap.stray, at \in Emulating \cup {"dispatch"},
           NEW f \in Firmwares, NEW what \in GuardedCsrs \cup {"parcel", "read", "write"},
           NEW addr \in Int, NEW data \in Int, NEW mask \in SUBSET Int, NEW ret \in Returns, ret # "delegate",
           StartGuard(f, what, addr, data, mask, ret), plat' = plat, low' = low, trap' = trap,
           f.phase = fw.phase, f.sstc = fw.sstc, GuardHolds', FactsHold', DataHolds'
    PROVE  TrapInv'
<1>1. TrapTypeOK /\ OnCourse
  BY DEF TrapInv
<1>2. Home = at
  BY DEF Home, Window, Emulating
<1>3. csr.mstatus = trap.status /\ csr.mtvec = "normal" /\ csr.mscratch = "zero" /\ ~trap.status.mprv
      /\ trap.status.mpp = trap.of.origin
  BY <1>1, <1>2 DEF OnCourse, ControlHolds, HomeStatus, BootPlaces, Window, Emulating
<1>4. fw.phase = "armed" /\ fw.sstc = plat.stimecmp
  BY <1>1, <1>2 DEF OnCourse, PhaseHolds, Emulating
<1>5. /\ at' = "publish" /\ csr' \in CsrFiles /\ fw' \in Firmwares
      /\ fw'.guard.prev = csr.mtvec /\ ~fw'.record.trapped /\ fw'.phase = f.phase /\ fw'.sstc = f.sstc
      /\ csr'.mtvec = "recovery" /\ csr'.mscratch = csr.mscratch /\ csr'.mstatus = csr.mstatus
      /\ Home' = ret /\ ~Closed' /\ Places'
  BY <1>1, <1>3, StartGuardSets
<1>6. TrapTypeOK'
  BY <1>1, <1>5 DEF TrapTypeOK
<1>7. ControlHolds'
  BY <1>3, <1>5 DEF ControlHolds, HomeStatus, BootPlaces, Window, Returns
<1>8. PhaseHolds'
  BY <1>4, <1>5 DEF PhaseHolds, Returns
<1>9. RecordHolds'
  BY <1>5 DEF RecordHolds
<1>10. OutcomeHolds'
  BY <1>5 DEF OutcomeHolds, TrapsAreTransparent
<1> QED
  BY <1>5, <1>6, <1>7, <1>8, <1>9, <1>10 DEF TrapInv, OnCourse, StopsForStraysOnly, LowerCannotStop, StrayStops

\* A step of the emulation without an access.
LEMMA StepIsOnCourse ==
    ASSUME TrapInv, ~trap.stray, at \in Emulating \cup {"dispatch"}, at' \in {"decode", "finish", "failed"},
           TrapTypeOK', plat' = plat, csr' = csr, trap'.of = trap.of, trap'.status = trap.status, ~trap'.stray,
           fw'.phase = fw.phase, fw'.sstc = fw.sstc, FactsHold', DataHolds', OutcomeHolds'
    PROVE  TrapInv'
<1>1. TrapTypeOK /\ OnCourse
  BY DEF TrapInv
<1>2. Home = at /\ Home' = at'
  BY DEF Home, Window, Emulating
<1>3. Places' /\ GuardHolds' /\ RecordHolds' /\ PhaseHolds'
  BY <1>1, <1>2 DEF OnCourse, Places, GuardHolds, RecordHolds, PhaseHolds, Window, Emulating, Returns, Closed
<1>4. ControlHolds'
  BY <1>1, <1>2 DEF OnCourse, ControlHolds, HomeStatus, BootPlaces, Window, Emulating
<1> QED
  BY <1>3, <1>4 DEF TrapInv, OnCourse, StopsForStraysOnly, LowerCannotStop, StrayStops

\* The emulation fails with an error that the instruction can raise.
LEMMA FailKeeps ==
    ASSUME TrapInv, ~trap.stray, at \in Emulating \ {"finish"}, NEW e \in [cause : Int, tval : Int], Fail(e),
           plat' = plat, low' = low, trap' = trap, ~MustExecute(trap.of), PartlyStored(trap.of),
           e # NoFault => CanRaise(trap.of, e.cause, e.tval)
    PROVE  TrapInv'
<1>1. TrapTypeOK /\ OnCourse
  BY DEF TrapInv
<1>2. at' = "failed" /\ csr' = csr /\ fw' = [fw EXCEPT !.error = e]
  BY DEF Fail
<1>3. Home = at /\ Home' = "failed"
  BY <1>2 DEF Home, Window, Emulating
<1>4. TrapTypeOK' /\ fw'.error = e /\ fw'.facts = fw.facts /\ fw'.frame = fw.frame /\ fw'.phase = fw.phase /\ fw'.sstc = fw.sstc
  BY <1>1, <1>2 DEF TrapTypeOK, Firmwares
<1>5. FactsHold'
  BY <1>1, <1>2, <1>3, <1>4 DEF OnCourse, FactsHold, BootPlaces, Emulating
<1>6. DataHolds'
  BY <1>1, <1>2, <1>3, <1>4 DEF OnCourse, DataHolds, Emulating, NoRedirect
<1>7. OutcomeHolds'
  <2>1. PartlyStored(trap.of)' /\ ~MustExecute(trap.of)'
    BY DEF PartlyStored, MustExecute
  <2>2. fw.facts.mcause = trap.of.cause /\ fw.facts.mtval = trap.of.tval
    BY <1>1, AtEmulating
  <2>3. CanRaise(trap.of, Reported(fw).cause, Reported(fw).tval)'
    <3>1. CASE e = NoFault
      BY <1>4, <2>2, <3>1 DEF Reported, CanRaise
    <3>2. CASE e # NoFault
      <4>1. Reported(fw)' = e
        BY <1>4, <3>2 DEF Reported
      <4> QED
        BY <3>2, <4>1 DEF CanRaise
    <3> QED
      BY <3>1, <3>2
  <2> QED
    BY <1>2, <2>1, <2>3 DEF OutcomeHolds, TrapsAreTransparent
<1> QED
  BY <1>2, <1>4, <1>5, <1>6, <1>7, StepIsOnCourse

\* restore_all and the redirect.
LEMMA FailEmulationKeeps ==
    ASSUME TrapInv, ~trap.stray, FailEmulation
    PROVE  TrapInv'
<1>1. TrapTypeOK /\ OnCourse
  BY DEF TrapInv
<1>2. at = "failed" /\ plat' = plat /\ fw' = fw /\ trap' = trap /\ Redirect(fw.facts, Reported(fw).cause, Reported(fw).tval)
  BY DEF FailEmulation
<1>3. at \in Emulating
  BY <1>2 DEF Emulating
<1>4. /\ trap.of \in Trappings /\ fw.facts.mepc = Pc /\ fw.facts.mcause = trap.of.cause /\ fw.facts.mtval = trap.of.tval
      /\ fw.facts.mstatus = trap.status /\ trap.answer = NoAnswer /\ fw.frame = trap.low.x /\ trap.of.cause \in Int
      /\ trap.of.tval \in Int /\ fw.error \in [cause : Int, tval : Int]
      /\ trap.of.cause \in {LOAD_MISALIGNED, STORE_MISALIGNED, LOAD_FAULT, STORE_FAULT, ILLEGAL_INSTRUCTION}
  BY <1>1, <1>2, <1>3, AtEmulating
<1>5. PartlyStored(trap.of) /\ ~MustExecute(trap.of) /\ CanRaise(trap.of, Reported(fw).cause, Reported(fw).tval)
  BY <1>1, <1>2 DEF OnCourse, OutcomeHolds
<1>6. Reported(fw).cause \in Int /\ Reported(fw).tval \in Int
  BY <1>4 DEF Reported
<1>7. trap.of.cause < Irq
  BY <1>4 DEF LOAD_MISALIGNED, STORE_MISALIGNED, LOAD_FAULT, STORE_FAULT, ILLEGAL_INSTRUCTION, Irq
<1> QED
  BY <1>2, <1>4, <1>5, <1>6, <1>7, RedirectKeeps

\* restore_and_advance
LEMMA FinishEmulationKeeps ==
    ASSUME TrapInv, ~trap.stray, FinishEmulation
    PROVE  TrapInv'
<1>1. TrapTypeOK /\ OnCourse
  BY DEF TrapInv
<1>2. at = "finish" /\ at' = "return" /\ plat' = plat /\ low' = low /\ fw' = fw /\ trap' = trap
      /\ csr' = [csr EXCEPT !.mcause = fw.facts.mcause, !.mtval = fw.facts.mtval,
                          !.mstatus = fw.facts.mstatus, !.mepc = fw.facts.mepc + fw.insn.len]
  BY DEF FinishEmulation
<1>3. at \in Emulating
  BY <1>2 DEF Emulating
<1>4. /\ Home = "finish" /\ trap.of \in Trappings /\ fw.facts.mepc = Pc /\ fw.facts.mcause = trap.of.cause /\ fw.facts.mtval = trap.of.tval
      /\ fw.facts.mstatus = trap.status /\ trap.of.cause \in Int /\ trap.status \in Statuses
      /\ trap.of.tval \in Int /\ NoRedirect /\ csr.mtvec = "normal" /\ csr.mscratch = "zero" /\ ~trap.status.mprv
      /\ trap.of.cause \in {LOAD_MISALIGNED, STORE_MISALIGNED, LOAD_FAULT, STORE_FAULT, ILLEGAL_INSTRUCTION}
      /\ fw.phase = "armed" /\ fw.sstc = plat.stimecmp
  BY <1>1, <1>2, <1>3, AtEmulating
<1>5. Effect(trap.of, fw.frame) /\ trap.of.insn.len = 4 /\ trap.answer.by # "stage"
  BY <1>1, <1>2 DEF OnCourse, OutcomeHolds
<1>6. fw.insn = trap.of.insn
  BY <1>1, <1>4 DEF OnCourse, FactsHold
<1>7. csr' \in CsrFiles /\ csr'.mepc = Pc + 4 /\ csr'.mstatus = trap.status /\ csr'.mtvec = csr.mtvec /\ csr'.mscratch = csr.mscratch
  <2>1. csr' = [csr EXCEPT !.mcause = trap.of.cause, !.mtval = trap.of.tval, !.mstatus = trap.status, !.mepc = Pc + 4]
    BY <1>2, <1>4, <1>5, <1>6
  <2>2. csr \in CsrFiles /\ Pc + 4 \in Int
    BY <1>1 DEF TrapTypeOK, Pc
  <2> QED
    BY <1>4, <2>1, <2>2 DEF CsrFiles
<1>8. TrapTypeOK'
  BY <1>1, <1>2, <1>7 DEF TrapTypeOK
<1>9. Transparent(fw.frame)'
  <2>1. ~(trap.of.cause >= Irq)
    BY <1>4 DEF LOAD_MISALIGNED, STORE_MISALIGNED, LOAD_FAULT, STORE_FAULT, ILLEGAL_INSTRUCTION, Irq
  <2>2. Effect(trap.of, fw.frame)'
    <3>1. \A bytes : RegisterHolds(trap.of, fw.frame, bytes)' <=> RegisterHolds(trap.of, fw.frame, bytes)
      BY <1>2 DEF RegisterHolds
    <3> QED
      BY <1>2, <1>5, <3>1 DEF Effect
  <2>3. SameStatus' /\ NoRedirect'
    BY <1>2, <1>4, <1>7 DEF SameStatus, NoRedirect
  <2> QED
    BY <1>2, <1>5, <1>7, <2>1, <2>2, <2>3 DEF Transparent, Executed
<1> QED
  BY <1>2, <1>4, <1>7, <1>8, <1>9, ReturnIsOnCourse

\* The instruction's effect is complete.
LEMMA CompleteKeeps ==
    ASSUME TrapInv, ~trap.stray, at \in {"decode", "bytes", "counter"}, NEW f \in Firmwares, Complete(f),
           plat' = plat, low' = low, trap' \in Ghosts, trap'.of = trap.of, trap'.status = trap.status, trap'.low = trap.low,
           ~trap'.stray, trap'.answer.by # "stage",
           f.phase = fw.phase, f.sstc = fw.sstc, f.facts = fw.facts, f.insn = fw.insn,
           trap.of.insn.op # "other", Effect(trap.of, fw.frame)'
    PROVE  TrapInv'
<1>1. TrapTypeOK /\ OnCourse
  BY DEF TrapInv
<1>2. at' = "finish" /\ csr' = csr /\ fw' = f
  BY DEF Complete
<1>3. at \in Emulating
  BY DEF Emulating
<1>4. Home = at /\ Home' = "finish" /\ low.x = trap.low.x /\ NoRedirect /\ trap.of.insn \in Insns
  BY <1>1, <1>2, <1>3, AtEmulating DEF Home, Window
<1>5. TrapTypeOK'
  BY <1>1, <1>2 DEF TrapTypeOK
<1>6. FactsHold'
  BY <1>1, <1>2, <1>3, <1>4 DEF OnCourse, FactsHold, BootPlaces, Emulating
<1>7. DataHolds'
  BY <1>2, <1>4 DEF DataHolds, Emulating, NoRedirect
<1>8. OutcomeHolds'
  BY <1>2, <1>4, InsnFacts DEF OutcomeHolds, TrapsAreTransparent
<1> QED
  BY <1>2, <1>3, <1>5, <1>6, <1>7, <1>8, StepIsOnCourse

\* The instruction is known.
LEMMA DecodeKeeps ==
    ASSUME TrapInv, ~trap.stray, at \in {"fetchLow", "fetchHigh"}, Decode, plat' = plat, low' = low, trap' = trap
    PROVE  TrapInv'
<1>1. TrapTypeOK /\ OnCourse
  BY DEF TrapInv
<1>2. at' = "decode" /\ csr' = csr /\ fw' = [fw EXCEPT !.insn = trap.of.insn]
  BY DEF Decode
<1>3. at \in Emulating
  BY DEF Emulating
<1>4. Home = at /\ Home' = "decode" /\ trap.of.insn \in Insns
  BY <1>1, <1>2, <1>3, AtEmulating DEF Home, Window
<1>5. TrapTypeOK' /\ fw'.facts = fw.facts /\ fw'.insn = trap.of.insn /\ fw'.i = fw.i /\ fw'.data = fw.data
      /\ fw'.frame = fw.frame /\ fw'.phase = fw.phase /\ fw'.sstc = fw.sstc
  BY <1>1, <1>2, <1>4 DEF TrapTypeOK, Firmwares
<1>6. FactsHold'
  BY <1>1, <1>2, <1>3, <1>4, <1>5 DEF OnCourse, FactsHold, BootPlaces, Emulating
<1>7. DataHolds'
  BY <1>1, <1>2, <1>4, <1>5 DEF OnCourse, DataHolds, Emulating, NoRedirect
<1>8. OutcomeHolds'
  BY <1>2, <1>4 DEF OutcomeHolds, TrapsAreTransparent
<1> QED
  BY <1>2, <1>3, <1>5, <1>6, <1>7, <1>8, StepIsOnCourse

\* The fetch of the instruction faults as the instruction would.
LEMMA FetchFaultKeeps ==
    ASSUME TrapInv, ~trap.stray, at \in {"fetchLow", "fetchHigh"}, fw.record.trapped,
           Fail([cause |-> MapFetchFault(fw.record.mcause), tval |-> fw.record.mtval]),
           plat' = plat, low' = low, trap' = trap
    PROVE  TrapInv'
<1>1. TrapTypeOK /\ OnCourse
  BY DEF TrapInv
<1>2. at \in Emulating /\ at # "finish"
  BY DEF Emulating
<1>3. Home = at /\ trap.of \in Trappings /\ fw.record.mcause \in Int /\ fw.record.mtval \in Int /\ trap.of.insn \in Insns
  BY <1>1, <1>2, AtEmulating
<1>4. fw.guard.what = "parcel" /\ fw.guard.addr \in {Pc, Pc + 2}
  BY <1>1, <1>3 DEF OnCourse, GuardHolds, Returns
<1>5. WindowFault # 0 /\ fw.record.mcause = WindowFault /\ fw.record.mtval = fw.guard.addr
  BY <1>1 DEF OnCourse, RecordHolds, Closed, Returns
<1>6. fw.guard.addr \in trap.of.bad /\ WindowFault = IF trap.of.page THEN LOAD_PAGE ELSE LOAD_FAULT
  BY <1>4, <1>5 DEF WindowFault, FaultUnder, GuardedCsrs
<1> DEFINE e == [cause |-> MapFetchFault(fw.record.mcause), tval |-> fw.record.mtval]
<1>7. e.cause = IF trap.of.page THEN INSTRUCTION_PAGE ELSE INSTRUCTION_ACCESS
  BY <1>5, <1>6 DEF MapFetchFault, LOAD_PAGE, LOAD_FAULT
<1>8. e \in [cause : Int, tval : Int]
  BY <1>3, <1>7 DEF INSTRUCTION_PAGE, INSTRUCTION_ACCESS
<1>9. CanRaise(trap.of, e.cause, e.tval)
  BY <1>4, <1>5, <1>6, <1>7 DEF CanRaise
<1>10. ~MustExecute(trap.of)
  <2>1. ~(trap.of.cause = ILLEGAL_INSTRUCTION /\ trap.of.tval = 1 /\ trap.of.insn.len = 4)
    BY <1>1, <1>3 DEF OnCourse, FactsHold
  <2>2. trap.of.bad \cap {Pc, Pc + 2} # {} /\ trap.of.bad \cap (AccessBytes(trap.of) \cup {Pc, Pc + 2}) # {}
    BY <1>4, <1>6
  <2>3. trap.of.insn.op = "time" => trap.of.insn.len = 4
    BY <1>3, InsnFacts
  <2> QED
    BY <2>1, <2>2, <2>3 DEF MustExecute
<1>11. PartlyStored(trap.of)
  BY <1>1, <1>3 DEF OnCourse, DataHolds, PartlyStored
<1> HIDE DEF e
<1>12. Fail(e)
  BY DEF e
<1> QED
  BY <1>2, <1>8, <1>9, <1>10, <1>11, <1>12, FailKeeps

\* The first halfword.
LEMMA FetchLowKeeps ==
    ASSUME TrapInv, ~trap.stray, FetchLow
    PROVE  TrapInv'
<1>1. TrapTypeOK /\ OnCourse
  BY DEF TrapInv
<1>2. at = "fetchLow" /\ plat' = plat /\ low' = low /\ trap' = trap
  BY DEF FetchLow
<1>3. CASE fw.record.trapped /\ Fail([cause |-> MapFetchFault(fw.record.mcause), tval |-> fw.record.mtval])
  BY <1>2, <1>3, FetchFaultKeeps
<1>4. CASE Decode
  BY <1>2, <1>4, DecodeKeeps
<1>5. CASE trap.of.insn.len = 4 /\ StartGuard(fw, "parcel", fw.facts.mepc + 2, 0, {LOAD_FAULT, LOAD_PAGE}, "fetchHigh")
  <2>1. at \in Emulating
    BY <1>2 DEF Emulating
  <2>2. Home = "fetchLow" /\ fw.facts.mepc = Pc /\ csr.mtvec = "normal"
    BY <1>1, <1>2, <2>1, AtEmulating
  <2>3. {LOAD_FAULT, LOAD_PAGE} \in SUBSET Int /\ "parcel" \in GuardedCsrs \cup {"parcel", "read", "write"}
        /\ "fetchHigh" \in Returns /\ Pc + 2 \in Int /\ 0 \in Int /\ fw \in Firmwares
    BY <1>1 DEF LOAD_FAULT, LOAD_PAGE, Returns, Pc, TrapTypeOK
  <2>4. StartGuard(fw, "parcel", Pc + 2, 0, {LOAD_FAULT, LOAD_PAGE}, "fetchHigh")
    BY <1>5, <2>2
  <2>5. /\ fw'.guard.what = "parcel" /\ fw'.guard.addr = Pc + 2 /\ fw'.record.mask = {LOAD_FAULT, LOAD_PAGE}
        /\ fw'.facts = fw.facts /\ fw'.frame = fw.frame /\ fw'.insn = fw.insn /\ fw'.i = fw.i /\ fw'.data = fw.data
        /\ Home' = "fetchHigh" /\ ~Closed' /\ at' = "publish"
    BY <1>1, <2>2, <2>3, <2>4, StartGuardSets
  <2>6. GuardHolds'
    BY <2>5 DEF GuardHolds, GuardedCsrs
  <2>7. FactsHold'
    BY <1>1, <1>2, <1>5, <2>2, <2>5 DEF OnCourse, FactsHold, BootPlaces, Emulating
  <2>8. DataHolds'
    BY <1>1, <1>2, <2>2, <2>5 DEF OnCourse, DataHolds, Emulating, NoRedirect
  <2> QED
    BY <1>2, <2>1, <2>3, <2>4, <2>6, <2>7, <2>8, GuardIsOnCourse
<1> QED
  BY <1>3, <1>4, <1>5 DEF FetchLow

\* The second halfword.
LEMMA FetchHighKeeps ==
    ASSUME TrapInv, ~trap.stray, FetchHigh
    PROVE  TrapInv'
<1>2. at = "fetchHigh" /\ plat' = plat /\ low' = low /\ trap' = trap
  BY DEF FetchHigh
<1>3. CASE fw.record.trapped /\ Fail([cause |-> MapFetchFault(fw.record.mcause), tval |-> fw.record.mtval])
  BY <1>2, <1>3, FetchFaultKeeps
<1>4. CASE Decode
  BY <1>2, <1>4, DecodeKeeps
<1> QED
  BY <1>3, <1>4 DEF FetchHigh

\* with_trap_facts
LEMMA BeginEmulationKeeps ==
    ASSUME TrapInv, ~trap.stray, BeginEmulation
    PROVE  TrapInv'
<1>1. TrapTypeOK /\ OnCourse
  BY DEF TrapInv
<1> DEFINE captured == [mepc |-> csr.mepc, mcause |-> csr.mcause, mtval |-> csr.mtval, mstatus |-> csr.mstatus]
           facts == [mepc |-> Pc, mcause |-> trap.of.cause, mtval |-> trap.of.tval, mstatus |-> trap.status]
<1>2. at = "dispatch" /\ plat' = plat /\ low' = low /\ trap' = trap
      /\ csr.mcause \in {LOAD_MISALIGNED, STORE_MISALIGNED, LOAD_FAULT, STORE_FAULT, ILLEGAL_INSTRUCTION}
  BY DEF BeginEmulation
<1>3. /\ Home = "dispatch" /\ trap.of \in Trappings
      /\ csr.mepc = Pc /\ csr.mcause = trap.of.cause /\ csr.mtval = trap.of.tval /\ csr.mstatus = trap.status
      /\ csr.mtvec = "normal" /\ trap.status \in Statuses
      /\ low.x = trap.low.x /\ NoRedirect /\ low.mem = trap.low.mem /\ trap.answer = NoAnswer /\ fw.frame = trap.low.x
      /\ trap.of.cause \in Int /\ trap.of.tval \in Int /\ trap.of.insn \in Insns
  BY <1>1, <1>2, AtDispatch
<1>4. captured = facts
  BY <1>3
<1>5. facts \in Facts
  BY <1>3 DEF Facts, Pc
<1>6. fw.i = 0 /\ fw.data = 0
  BY <1>1, <1>3 DEF OnCourse, FactsHold
<1>7. \/ /\ MtvalDecodes /\ at' = "decode" /\ fw' = [fw EXCEPT !.facts = captured, !.insn = trap.of.insn] /\ csr' = csr
      \/ /\ ~MtvalDecodes
         /\ StartGuard([fw EXCEPT !.facts = captured], "parcel", csr.mepc, 0, {LOAD_FAULT, LOAD_PAGE}, "fetchLow")
  BY DEF BeginEmulation
<1> HIDE DEF captured
<1>8. CASE /\ MtvalDecodes /\ at' = "decode" /\ fw' = [fw EXCEPT !.facts = captured, !.insn = trap.of.insn] /\ csr' = csr
  <2>1. fw' = [fw EXCEPT !.facts = facts, !.insn = trap.of.insn]
    BY <1>4, <1>8
  <2> HIDE DEF facts
  <2>2. TrapTypeOK' /\ fw'.facts = facts /\ fw'.insn = trap.of.insn /\ fw'.i = fw.i /\ fw'.data = fw.data
        /\ fw'.frame = fw.frame /\ fw'.phase = fw.phase /\ fw'.sstc = fw.sstc
    BY <1>1, <1>2, <1>3, <1>5, <1>8, <2>1 DEF TrapTypeOK, Firmwares
  <2>3. Home' = "decode"
    BY <1>8 DEF Home, Window
  <2>4. FactsHold'
    BY <1>2, <1>3, <1>6, <1>8, <2>2, <2>3 DEF FactsHold, BootPlaces, Emulating, facts
  <2>5. DataHolds'
    BY <1>2, <1>3, <2>2, <2>3 DEF DataHolds, Emulating, NoRedirect
  <2>6. OutcomeHolds'
    BY <1>8 DEF OutcomeHolds, TrapsAreTransparent
  <2> QED
    BY <1>2, <1>8, <2>2, <2>4, <2>5, <2>6, StepIsOnCourse
<1>9. CASE ~MtvalDecodes /\ StartGuard([fw EXCEPT !.facts = captured], "parcel", csr.mepc, 0, {LOAD_FAULT, LOAD_PAGE}, "fetchLow")
  <2> DEFINE f == [fw EXCEPT !.facts = facts]
  <2>0. StartGuard(f, "parcel", Pc, 0, {LOAD_FAULT, LOAD_PAGE}, "fetchLow")
    BY <1>3, <1>4, <1>9
  <2> HIDE DEF facts
  <2>1. f \in Firmwares /\ f.facts = facts /\ f.insn = fw.insn /\ f.i = fw.i /\ f.data = fw.data /\ f.frame = fw.frame
        /\ f.phase = fw.phase /\ f.sstc = fw.sstc
    BY <1>1, <1>5 DEF TrapTypeOK, Firmwares
  <2> HIDE DEF f
  <2>3. {LOAD_FAULT, LOAD_PAGE} \in SUBSET Int /\ "parcel" \in GuardedCsrs \cup {"parcel", "read", "write"}
        /\ "fetchLow" \in Returns /\ Pc \in Int /\ 0 \in Int
    BY DEF LOAD_FAULT, LOAD_PAGE, Returns, Pc
  <2>4. TrapTypeOK /\ csr.mtvec \in {"failstop", "normal"}
    BY <1>1, <1>3
  <2>5. /\ fw'.guard.what = "parcel" /\ fw'.guard.addr = Pc /\ fw'.record.mask = {LOAD_FAULT, LOAD_PAGE}
        /\ fw'.facts = f.facts /\ fw'.frame = f.frame /\ fw'.insn = f.insn /\ fw'.i = f.i /\ fw'.data = f.data
        /\ Home' = "fetchLow" /\ ~Closed' /\ at' = "publish"
    BY <2>0, <2>1, <2>3, <2>4, StartGuardSets
  <2>6. GuardHolds'
    BY <2>5 DEF GuardHolds, GuardedCsrs
  <2>7. FactsHold'
    BY <1>2, <1>3, <1>6, <1>9, <2>1, <2>5 DEF FactsHold, BootPlaces, Emulating, facts, MtvalDecodes
  <2>8. DataHolds'
    BY <1>2, <1>3, <2>1, <2>5 DEF DataHolds, Emulating, NoRedirect
  <2> QED
    BY <1>2, <2>0, <2>1, <2>3, <2>6, <2>7, <2>8, GuardIsOnCourse
<1> QED
  BY <1>7, <1>8, <1>9

\* The bytes of a value are in its register after a load.
LEMMA LoadedHolds ==
    ASSUME TrapTypeOK, fw.frame = trap.low.x, fw.insn = trap.of.insn, trap.of.insn \in Insns,
           NEW raw \in Nat, raw < Base ^ trap.of.insn.kind.width,
           NEW bytes, \A i \in 0 .. trap.of.insn.kind.width - 1 : bytes[i] = Digit(raw, i)
    PROVE  /\ Loaded(raw) \in Firmwares /\ RegisterHolds(trap.of, Loaded(raw).frame, bytes)
           /\ Loaded(raw).phase = fw.phase /\ Loaded(raw).sstc = fw.sstc
           /\ Loaded(raw).facts = fw.facts /\ Loaded(raw).insn = fw.insn
<1> DEFINE n == trap.of.insn
           v == Extend(n.kind, raw)
           w == n.kind.width
           x == WriteX(fw.frame, n.reg, v)
           fill == IF n.kind.signed /\ 2 * Digit(raw, w - 1) >= Base THEN Base - 1 ELSE 0
<1>1. fw \in Firmwares /\ fw.frame \in [Regs -> Int]
  BY DEF TrapTypeOK, Firmwares
<1>2. n.kind \in Kinds /\ n.reg \in Regs /\ w \in {1, 2, 4, 8}
  BY InsnFacts
<1>3. v \in Int /\ \A i \in 0 .. XBytes - 1 : Digit(v, i) = IF i < w THEN Digit(raw, i) ELSE fill
  BY <1>2, ExtendDigits
<1> HIDE DEF v
<1>4. x \in [Regs -> Int] /\ \A q \in Regs : x[q] = IF q = n.reg /\ q # 0 THEN v ELSE fw.frame[q]
  <2>1. fw.frame \in [Regs -> Int] /\ n.reg \in Regs /\ v \in Int
    BY <1>1, <1>2, <1>3
  <2> HIDE DEF n
  <2> QED
    BY ONLY <2>1, WriteXTypes
<1> HIDE DEF x
<1>5. Loaded(raw) = [fw EXCEPT !.frame = x]
  BY DEF Loaded, x, v
<1>6. /\ Loaded(raw) \in Firmwares /\ Loaded(raw).frame = x
      /\ Loaded(raw).phase = fw.phase /\ Loaded(raw).sstc = fw.sstc
      /\ Loaded(raw).facts = fw.facts /\ Loaded(raw).insn = fw.insn
  BY <1>1, <1>4, <1>5 DEF Firmwares
<1>7. bytes[w - 1] = Digit(raw, w - 1)
  BY <1>2
<1>8. \A i \in 0 .. XBytes - 1 : Digit(v, i) = IF i < w THEN bytes[i] ELSE fill
  <2> TAKE i \in 0 .. XBytes - 1
  <2>1. Digit(v, i) = IF i < w THEN Digit(raw, i) ELSE fill
    BY <1>3
  <2>2. i < w => i \in 0 .. w - 1
    BY <1>2
  <2>3. i < w => bytes[i] = Digit(raw, i)
    BY <2>2
  <2> QED
    BY <2>1, <2>3
<1>9. fill = IF n.kind.signed /\ 2 * bytes[w - 1] >= Base THEN Base - 1 ELSE 0
  BY <1>7
<1> HIDE DEF fill
<1>10. RegisterHolds(trap.of, x, bytes)
  BY <1>4, <1>8, <1>9 DEF RegisterHolds
<1> QED
  BY <1>6, <1>10

\* What holds when the instruction is known.
LEMMA AtDecode ==
    ASSUME TrapTypeOK, OnCourse, at = "decode"
    PROVE  /\ at \in Emulating /\ fw.insn = trap.of.insn /\ fw.i = 0 /\ fw.data = 0
           /\ low.mem = trap.low.mem /\ PartlyStored(trap.of)
           /\ Wanted = CASE trap.of.cause \in {LOAD_MISALIGNED, LOAD_FAULT} -> "load"
                         [] trap.of.cause \in {STORE_MISALIGNED, STORE_FAULT} -> "store"
                         [] OTHER -> "time"
<1>1. at \in Emulating /\ Home = "decode"
  BY DEF Emulating, Home, Window
<1>2. fw.insn = trap.of.insn /\ fw.i = 0 /\ fw.data = 0
  BY <1>1 DEF OnCourse, FactsHold
<1>3. low.mem = trap.low.mem
  BY <1>1 DEF OnCourse, DataHolds
<1>4. fw.facts.mcause = trap.of.cause
  BY <1>1, AtEmulating
<1> QED
  BY <1>1, <1>2, <1>3, <1>4 DEF PartlyStored, Wanted

\* An instruction that the cause does not call for.
LEMMA DecodeFailsKeeps ==
    ASSUME TrapInv, ~trap.stray, DecodeFails
    PROVE  TrapInv'
<1>1. TrapTypeOK /\ OnCourse
  BY DEF TrapInv
<1>2. at = "decode" /\ plat' = plat /\ low' = low /\ trap' = trap /\ fw.insn.op # Wanted /\ Fail(NoFault)
  BY DEF DecodeFails
<1>3. at \in Emulating \ {"finish"}
  BY <1>2 DEF Emulating
<1>4. ~MustExecute(trap.of) /\ PartlyStored(trap.of)
  BY <1>1, <1>2, AtDecode DEF MustExecute, LOAD_MISALIGNED, STORE_MISALIGNED, LOAD_FAULT, STORE_FAULT, ILLEGAL_INSTRUCTION
<1>5. NoFault \in [cause : Int, tval : Int]
  BY DEF NoFault
<1> QED
  BY <1>2, <1>3, <1>4, <1>5, FailKeeps

\* The platform's dispatcher declines, or makes the access.
LEMMA AskDispatcherKeeps ==
    ASSUME TrapInv, ~trap.stray, AskDispatcher
    PROVE  TrapInv'
<1>1. TrapTypeOK /\ OnCourse
  BY DEF TrapInv
<1>2. at = "decode" /\ plat' = plat /\ low' = low
      /\ fw.facts.mcause \in {LOAD_FAULT, STORE_FAULT} /\ fw.insn.op = Wanted
  BY DEF AskDispatcher
<1>3. at \in Emulating /\ at \in Emulating \ {"finish"}
  BY <1>2 DEF Emulating
<1>4. trap.of.cause \in {LOAD_FAULT, STORE_FAULT} /\ fw.frame = trap.low.x /\ trap.of.insn \in Insns /\ fw \in Firmwares
      /\ low.mem = trap.low.mem /\ fw.insn = trap.of.insn /\ PartlyStored(trap.of) /\ trap.answer = NoAnswer
  BY <1>1, <1>2, <1>3, AtEmulating, AtDecode DEF TrapTypeOK
<1>5. CASE Fail(NoFault) /\ trap' = trap
  <2>1. ~MustExecute(trap.of)
    BY <1>4 DEF MustExecute, LOAD_MISALIGNED, STORE_MISALIGNED, LOAD_FAULT, STORE_FAULT, ILLEGAL_INSTRUCTION
  <2>2. NoFault \in [cause : Int, tval : Int]
    BY DEF NoFault
  <2> QED
    BY <1>2, <1>3, <1>4, <1>5, <2>1, <2>2, FailKeeps
<1>6. ASSUME NEW raw \in {0, Base ^ fw.insn.kind.width - 1},
             Complete(IF Wanted = "load" THEN Loaded(raw) ELSE fw),
             trap' = [trap EXCEPT !.answer = [by |-> "dispatcher", first |-> raw, second |-> 0]]
      PROVE  TrapInv'
  <2> DEFINE w == trap.of.insn.kind.width
             f == IF Wanted = "load" THEN Loaded(raw) ELSE fw
             bytes == [i \in 0 .. w - 1 |-> Digit(raw, i)]
  <2>1. w \in {1, 2, 4, 8} /\ w \in 0 .. XBytes
    BY <1>4, InsnFacts DEF XBytes
  <2>2. Base ^ w \in Nat /\ Base ^ w > 0
    BY <2>1, PowersUp
  <2>3. raw \in Nat /\ raw < Base ^ w
    BY <1>4, <2>2
  <2>4. \A i \in 0 .. w - 1 : bytes[i] = Digit(raw, i)
    OBVIOUS
  <2> HIDE DEF bytes
  <2>5. /\ trap' \in Ghosts /\ trap'.of = trap.of /\ trap'.status = trap.status /\ trap'.low = trap.low
        /\ ~trap'.stray /\ trap'.answer.by = "dispatcher" /\ trap'.answer.first = raw
    <3>1. trap \in Ghosts
      BY <1>1 DEF TrapTypeOK
    <3> QED
      BY <1>6, <2>3, <3>1 DEF Ghosts
  <2>6. /\ Loaded(raw) \in Firmwares /\ RegisterHolds(trap.of, Loaded(raw).frame, bytes)
        /\ Loaded(raw).phase = fw.phase /\ Loaded(raw).sstc = fw.sstc
        /\ Loaded(raw).facts = fw.facts /\ Loaded(raw).insn = fw.insn
    BY <1>1, <1>4, <2>3, <2>4, LoadedHolds
  <2>7. f \in Firmwares /\ f.phase = fw.phase /\ f.sstc = fw.sstc /\ f.facts = fw.facts /\ f.insn = fw.insn
    BY <1>4, <2>6
  <2>8. fw' = f
    BY <1>6 DEF Complete
  <2>9. Wanted = IF trap.of.cause = LOAD_FAULT THEN "load" ELSE "store"
    BY <1>1, <1>2, <1>4, AtDecode DEF LOAD_MISALIGNED, STORE_MISALIGNED, LOAD_FAULT, STORE_FAULT
  <2>10. trap.of.insn.op # "other"
    BY <1>2, <1>4, <2>9
  <2>11. Effect(trap.of, fw.frame)'
    <3>1. CASE trap.of.cause = LOAD_FAULT
      <4>1. fw'.frame = Loaded(raw).frame
        BY <2>8, <2>9, <3>1
      <4>2. RegisterHolds(trap.of, fw.frame, bytes)'
        BY <2>5, <2>6, <4>1 DEF RegisterHolds, bytes
      <4>3. [i \in 0 .. w - 1 |-> Digit(trap.answer.first, i)]' = bytes
        BY <2>5 DEF bytes
      <4> QED
        BY <1>2, <1>4, <2>5, <3>1, <4>2, <4>3 DEF Effect, bytes
    <3>2. CASE trap.of.cause = STORE_FAULT
      <4>1. fw' = fw
        BY <2>8, <2>9, <3>2 DEF LOAD_FAULT, STORE_FAULT
      <4> QED
        BY <1>4, <2>5, <3>2, <4>1 DEF Effect
    <3> QED
      BY <1>4, <3>1, <3>2
  <2> HIDE DEF f
  <2>12. Complete(f)
    BY <1>6 DEF f
  <2> QED
    BY <1>2, <2>5, <2>7, <2>10, <2>11, <2>12, CompleteKeeps
<1> QED
  BY <1>5, <1>6 DEF AskDispatcher

\* The time is in its register.
LEMMA TimeReadKeeps ==
    ASSUME TrapInv, ~trap.stray, at \in {"decode", "counter"}, Complete(TimeRead),
           plat' = plat, low' = low, trap' = trap,
           trap.of.cause = ILLEGAL_INSTRUCTION, trap.of.insn.op = "time"
    PROVE  TrapInv'
<1>1. TrapTypeOK /\ OnCourse
  BY DEF TrapInv
<1>2. at \in Emulating /\ at # "finish"
  BY DEF Emulating
<1>3. Home = at /\ fw.frame = trap.low.x /\ trap.of.insn \in Insns /\ trap.answer = NoAnswer /\ fw.frame \in [Regs -> Int]
  BY <1>1, <1>2, AtEmulating
<1>4. fw.insn = trap.of.insn
  BY <1>1, <1>3 DEF OnCourse, FactsHold
<1>5. low.mem = trap.low.mem
  BY <1>1, <1>3 DEF OnCourse, DataHolds
<1> DEFINE r == trap.of.insn.reg
           x == WriteX(fw.frame, r, TimeValue)
<1>6. r \in Regs
  BY <1>3, InsnFacts
<1> HIDE DEF r
<1>7. x \in [Regs -> Int] /\ \A q \in Regs : x[q] = IF q = r /\ q # 0 THEN TimeValue ELSE fw.frame[q]
  BY <1>3, <1>6, TimeIsANumber, WriteXTypes
<1>8. TimeRead = [fw EXCEPT !.frame = x]
  BY <1>4 DEF TimeRead, r
<1> HIDE DEF x
<1>9. fw \in Firmwares /\ trap \in Ghosts
  BY <1>1 DEF TrapTypeOK
<1>10. /\ TimeRead \in Firmwares /\ TimeRead.frame = x /\ TimeRead.phase = fw.phase /\ TimeRead.sstc = fw.sstc
       /\ TimeRead.facts = fw.facts /\ TimeRead.insn = fw.insn
  BY <1>7, <1>8, <1>9 DEF Firmwares
<1>11. fw' = TimeRead
  BY DEF Complete
<1>12. x = [q \in Regs |-> IF q = r /\ q # 0 THEN TimeValue ELSE trap.low.x[q]]
  BY <1>3, <1>7
<1>13. Effect(trap.of, fw.frame)'
  BY <1>5, <1>10, <1>11, <1>12 DEF Effect, r
<1>14. trap.answer.by # "stage" /\ trap'.answer.by # "stage" /\ trap' \in Ghosts /\ trap.of.insn.op # "other"
  BY <1>3, <1>9 DEF NoAnswer
<1> HIDE DEF TimeRead
<1> QED
  BY <1>10, <1>13, <1>14, CompleteKeeps DEF TimeRead

\* counter_word
LEMMA ReadCounterKeeps ==
    ASSUME TrapInv, ~trap.stray, ReadCounter
    PROVE  TrapInv'
<1>1. TrapTypeOK /\ OnCourse
  BY DEF TrapInv
<1>2. at = "decode" /\ plat' = plat /\ low' = low /\ trap' = trap
      /\ fw.facts.mcause = ILLEGAL_INSTRUCTION /\ fw.insn.op = "time"
  BY DEF ReadCounter
<1>3. at \in Emulating
  BY <1>2 DEF Emulating
<1>4. trap.of.cause = ILLEGAL_INSTRUCTION /\ Home = "decode" /\ csr.mtvec = "normal" /\ trap.of \in Trappings
  BY <1>1, <1>2, <1>3, AtEmulating
<1>5. fw.insn = trap.of.insn /\ low.mem = trap.low.mem /\ fw.i = 0 /\ fw.data = 0
  BY <1>1, <1>2, AtDecode
<1>6. CASE Complete(TimeRead)
  BY <1>2, <1>4, <1>5, <1>6, TimeReadKeeps
<1>7. CASE ~plat.directTime /\ StartGuard(fw, "timeCsr", 0, 0, {ILLEGAL_INSTRUCTION}, "counter")
  <2>3. {ILLEGAL_INSTRUCTION} \in SUBSET Int /\ "timeCsr" \in GuardedCsrs \cup {"parcel", "read", "write"}
        /\ "counter" \in Returns /\ 0 \in Int /\ fw \in Firmwares
    BY <1>1 DEF ILLEGAL_INSTRUCTION, Returns, TrapTypeOK, GuardedCsrs
  <2>4. TrapTypeOK /\ csr.mtvec \in {"failstop", "normal"}
    BY <1>1, <1>4
  <2>5. /\ fw'.guard.what = "timeCsr" /\ fw'.record.mask = {ILLEGAL_INSTRUCTION}
        /\ fw'.facts = fw.facts /\ fw'.frame = fw.frame /\ fw'.insn = fw.insn /\ fw'.i = fw.i /\ fw'.data = fw.data
        /\ Home' = "counter" /\ ~Closed' /\ at' = "publish"
    BY <1>7, <2>3, <2>4, StartGuardSets
  <2>6. GuardHolds'
    BY <2>5 DEF GuardHolds, GuardedCsrs
  <2>7. FactsHold'
    BY <1>1, <1>2, <1>4, <1>5, <1>7, <2>5 DEF OnCourse, FactsHold, BootPlaces, Emulating
  <2>8. DataHolds'
    BY <1>1, <1>2, <1>4, <1>5, <2>5 DEF OnCourse, DataHolds, Emulating, NoRedirect
  <2> QED
    BY <1>2, <1>3, <1>7, <2>3, <2>6, <2>7, <2>8, GuardIsOnCourse
<1> QED
  BY <1>6, <1>7 DEF ReadCounter

\* The CSR's value, the device's, or none.
LEMMA CounterAnswerKeeps ==
    ASSUME TrapInv, ~trap.stray, CounterAnswer
    PROVE  TrapInv'
<1>1. TrapTypeOK /\ OnCourse
  BY DEF TrapInv
<1>2. at = "counter" /\ plat' = plat /\ low' = low /\ trap' = trap
  BY DEF CounterAnswer
<1>3. at \in Emulating \ {"finish"} /\ Home = "counter"
  BY <1>2 DEF Emulating, Home, Window
<1>4. trap.of.cause = ILLEGAL_INSTRUCTION /\ trap.of.insn.op = "time" /\ ~plat.directTime
  BY <1>1, <1>3 DEF OnCourse, FactsHold
<1>5. CASE Complete(TimeRead)
  BY <1>2, <1>4, <1>5, TimeReadKeeps
<1>6. CASE fw.record.trapped /\ ~plat.deviceTime /\ Fail(NoFault)
  <2>1. fw.guard.what = "timeCsr"
    BY <1>1, <1>3 DEF OnCourse, GuardHolds, Returns
  <2>2. WindowFault # 0
    BY <1>1, <1>2, <1>6 DEF OnCourse, RecordHolds, Closed, Returns
  <2>3. ~plat.timeCsr
    BY <2>1, <2>2 DEF WindowFault, FaultUnder, GuardedCsrs
  <2>4. ~MustExecute(trap.of)
    BY <1>4, <1>6, <2>3 DEF MustExecute, LOAD_MISALIGNED, STORE_MISALIGNED, ILLEGAL_INSTRUCTION
  <2>5. PartlyStored(trap.of)
    BY <1>1, <1>3 DEF OnCourse, DataHolds, PartlyStored
  <2>6. NoFault \in [cause : Int, tval : Int]
    BY DEF NoFault
  <2> QED
    BY <1>2, <1>3, <1>6, <2>4, <2>5, <2>6, FailKeeps
<1> QED
  BY <1>5, <1>6 DEF CounterAnswer

\* The next byte's guard, when the bytes before it are done.
LEMMA ByteGuardKeeps ==
    ASSUME TrapInv, ~trap.stray, at \in {"decode", "bytes"}, NEW f \in Firmwares, ByteGuard(f),
           plat' = plat, low' = low, trap' = trap,
           f.facts = fw.facts, f.frame = fw.frame, f.insn = trap.of.insn, f.phase = fw.phase, f.sstc = fw.sstc,
           <<trap.of.cause, trap.of.insn.op>> \in {<<LOAD_MISALIGNED, "load">>, <<STORE_MISALIGNED, "store">>},
           f.i \in 0 .. trap.of.insn.kind.width - 1,
           trap.of.cause = LOAD_MISALIGNED => low.mem = trap.low.mem /\ HoldsHighest(f.data, f.i),
           trap.of.cause = STORE_MISALIGNED => LowestStored(f.i)
    PROVE  TrapInv'
<1>1. TrapTypeOK /\ OnCourse
  BY DEF TrapInv
<1>2. at \in Emulating
  BY DEF Emulating
<1>3. /\ Home = at /\ trap.of \in Trappings /\ csr.mtvec = "normal" /\ fw.frame = trap.low.x
      /\ fw.facts = [mepc |-> Pc, mcause |-> trap.of.cause, mtval |-> trap.of.tval, mstatus |-> trap.status]
      /\ fw.facts.mcause = trap.of.cause /\ fw.facts.mtval = trap.of.tval
      /\ trap.of.insn \in Insns /\ trap.of.tval \in Int /\ low.x = trap.low.x /\ NoRedirect /\ trap.answer = NoAnswer
      /\ fw.frame \in [Regs -> Int]
  BY <1>1, <1>2, AtEmulating
<1> DEFINE n == trap.of.insn
           w == n.kind.width
           load == trap.of.cause = LOAD_MISALIGNED
           what == IF load THEN "read" ELSE "write"
           addr == IF load THEN trap.of.tval + (w - 1 - f.i) ELSE trap.of.tval + f.i
           data == IF load THEN 0 ELSE Digit(trap.low.x[n.reg], f.i)
           mask == IF load THEN {LOAD_FAULT, LOAD_PAGE} ELSE {STORE_FAULT, STORE_PAGE}
<1>4. w \in {1, 2, 4, 8} /\ n.reg \in Regs /\ f.i \in 0 .. XBytes /\ f.i \in Int /\ w \in Int
  BY <1>3, InsnFacts DEF XBytes
<1>5. load <=> Wanted = "load"
  BY <1>3 DEF Wanted, LOAD_MISALIGNED, STORE_MISALIGNED, LOAD_FAULT, STORE_FAULT
<1>6. StartGuard(f, what, addr, data, mask, "bytes")
  BY <1>3, <1>5 DEF ByteGuard
<1>7. what \in GuardedCsrs \cup {"parcel", "read", "write"} /\ "bytes" \in Returns
  BY DEF Returns
<1>8. addr \in Int
  BY <1>3, <1>4
<1>9. data \in Int
  <2>1. trap.low.x[n.reg] \in Int
    BY <1>3, <1>4
  <2>2. Base \in Nat
    BY TrapAssumption
  <2>3. Digit(trap.low.x[n.reg], f.i) \in Int
    BY <1>4, <2>1, <2>2, DigitIsOne
  <2> QED
    BY <2>3
<1>10. mask \in SUBSET Int
  BY DEF LOAD_FAULT, LOAD_PAGE, STORE_FAULT, STORE_PAGE
<1>11. csr.mtvec \in {"failstop", "normal"}
  BY <1>3
<1> HIDE DEF what, addr, data, mask
<1>12. /\ fw'.guard.what = what /\ fw'.guard.addr = addr /\ fw'.guard.data = data /\ fw'.record.mask = mask
       /\ fw'.facts = f.facts /\ fw'.frame = f.frame /\ fw'.insn = f.insn /\ fw'.i = f.i /\ fw'.data = f.data
       /\ Home' = "bytes" /\ ~Closed' /\ at' = "publish"
  BY ONLY f \in Firmwares, <1>1, <1>6, <1>7, <1>8, <1>9, <1>10, <1>11, StartGuardSets
<1>13. GuardHolds'
  <2>1. CASE load
    BY <1>12, <2>1 DEF GuardHolds, GuardedCsrs, what, addr, mask
  <2>2. CASE ~load
    BY <1>12, <2>2 DEF GuardHolds, GuardedCsrs, what, addr, mask, data
  <2> QED
    BY <2>1, <2>2
<1>14. FactsHold'
  BY <1>3, <1>12 DEF FactsHold, BootPlaces, Emulating
<1>15. DataHolds'
  <2>1. CASE load
    BY <1>3, <1>12, <2>1 DEF DataHolds, HoldsHighest, Emulating, NoRedirect, LOAD_MISALIGNED, STORE_MISALIGNED
  <2>2. CASE ~load
    BY <1>3, <1>12, <2>2 DEF DataHolds, LowestStored, Emulating, NoRedirect
  <2> QED
    BY <2>1, <2>2
<1> QED
  BY <1>2, <1>6, <1>7, <1>8, <1>9, <1>10, <1>13, <1>14, <1>15, GuardIsOnCourse

\* emulate_load, emulate_store: nothing is read or stored yet.
LEMMA DecodeMisalignedKeeps ==
    ASSUME TrapInv, ~trap.stray, DecodeMisaligned
    PROVE  TrapInv'
<1>1. TrapTypeOK /\ OnCourse
  BY DEF TrapInv
<1>2. at = "decode" /\ plat' = plat /\ low' = low /\ trap' = trap /\ ByteGuard(fw)
      /\ fw.facts.mcause \in {LOAD_MISALIGNED, STORE_MISALIGNED} /\ fw.insn.op = Wanted
  BY DEF DecodeMisaligned
<1>3. at \in Emulating
  BY <1>2 DEF Emulating
<1>4. trap.of.cause \in {LOAD_MISALIGNED, STORE_MISALIGNED} /\ trap.of.insn \in Insns /\ fw \in Firmwares /\ trap.of.tval \in Int
  BY <1>1, <1>2, <1>3, AtEmulating DEF TrapTypeOK
<1>5. fw.insn = trap.of.insn /\ fw.i = 0 /\ fw.data = 0 /\ low.mem = trap.low.mem
      /\ trap.of.insn.op = IF trap.of.cause = LOAD_MISALIGNED THEN "load" ELSE "store"
  BY <1>1, <1>2, <1>4, AtDecode DEF LOAD_MISALIGNED, STORE_MISALIGNED, LOAD_FAULT, STORE_FAULT
<1>6. <<trap.of.cause, trap.of.insn.op>> \in {<<LOAD_MISALIGNED, "load">>, <<STORE_MISALIGNED, "store">>}
  BY <1>4, <1>5
<1>7. trap.of.insn.kind.width \in {1, 2, 4, 8}
  BY <1>4, InsnFacts
<1>8. fw.i \in 0 .. trap.of.insn.kind.width - 1
  BY <1>5, <1>7
<1>9. HoldsHighest(fw.data, fw.i)
  BY <1>5, TrapAssumption DEF HoldsHighest
<1>10. LowestStored(fw.i)
  <2>1. trap.of.tval .. trap.of.tval + 0 - 1 = {} /\ 0 .. 0 - 1 = {}
    BY <1>4
  <2> QED
    BY <1>5, <2>1 DEF LowestStored
<1> QED
  BY <1>2, <1>4, <1>5, <1>6, <1>8, <1>9, <1>10, ByteGuardKeeps

\* What holds when a byte's access has ended.
LEMMA AtBytes ==
    ASSUME TrapTypeOK, OnCourse, at = "bytes"
    PROVE  /\ at \in Emulating \ {"finish"} /\ Home = "bytes"
           /\ fw.record.trapped <=> WindowFault # 0
           /\ fw.record.trapped => fw.record.mcause = WindowFault /\ fw.record.mtval = fw.guard.addr
           /\ trap.of.cause = LOAD_MISALIGNED =>
                 /\ low.mem = trap.low.mem /\ HoldsHighest(fw.data, fw.i)
                 /\ fw.guard.addr = trap.of.tval + (trap.of.insn.kind.width - 1 - fw.i)
                 /\ ~fw.record.trapped => fw.guard.data = low.mem[fw.guard.addr]
           /\ trap.of.cause = STORE_MISALIGNED =>
                 /\ LowestStored(IF fw.record.trapped THEN fw.i ELSE fw.i + 1)
                 /\ fw.guard.addr = trap.of.tval + fw.i
<1>1. at \in Emulating \ {"finish"} /\ Home = "bytes" /\ Closed /\ Home \in Returns
  BY DEF Emulating, Home, Window, Closed, Returns
<1>2. /\ fw.record.trapped <=> WindowFault # 0
      /\ fw.record.trapped => fw.record.mcause = WindowFault /\ fw.record.mtval = fw.guard.addr
  BY <1>1 DEF OnCourse, RecordHolds
<1>3. /\ trap.of.cause = LOAD_MISALIGNED => fw.guard.addr = trap.of.tval + (trap.of.insn.kind.width - 1 - fw.i)
      /\ trap.of.cause = STORE_MISALIGNED => fw.guard.addr = trap.of.tval + fw.i
  BY <1>1 DEF OnCourse, GuardHolds, LOAD_MISALIGNED, STORE_MISALIGNED
<1>4. /\ trap.of.cause = LOAD_MISALIGNED =>
                 /\ low.mem = trap.low.mem /\ HoldsHighest(fw.data, fw.i)
                 /\ ~fw.record.trapped => fw.guard.data = low.mem[fw.guard.addr]
      /\ trap.of.cause = STORE_MISALIGNED => LowestStored(IF fw.record.trapped THEN fw.i ELSE fw.i + 1)
  BY <1>1 DEF OnCourse, DataHolds
<1> QED
  BY <1>1, <1>2, <1>3, <1>4

\* The byte below joins the bytes that were read.
LEMMA ByteJoins ==
    ASSUME TrapTypeOK, trap.of.tval = 1, NEW w \in {1, 2, 4, 8}, trap.of.insn.kind.width = w,
           NEW i \in 0 .. w - 1, NEW v, HoldsHighest(v, i),
           NEW d, d = trap.low.mem[trap.of.tval + (w - 1 - i)]
    PROVE  HoldsHighest(v * Base + d, i + 1) /\ v * Base + d \in Nat /\ v * Base + d < Base ^ (i + 1)
<1>1. i \in 0 .. XBytes - 1 /\ i \in Nat /\ w \in Nat
  BY DEF XBytes
<1>2. Base ^ i \in Nat /\ Base ^ (i + 1) \in Nat /\ Base \in Nat
  BY <1>1, PowersUp, TrapAssumption DEF XBytes
<1>3. v \in Nat /\ v < Base ^ i
  BY <1>2 DEF HoldsHighest
<1>4. d \in 0 .. Base - 1
  <2>1. trap.low.mem \in [DataAddrs -> 0 .. Base - 1]
    BY DEF TrapTypeOK, Ghosts, LowerContexts
  <2>2. trap.of.tval + (w - 1 - i) \in 1 .. XBytes
    BY DEF XBytes
  <2>3. trap.of.tval + (w - 1 - i) \in DataAddrs
    BY <2>2, TrapAssumption
  <2> QED
    BY <2>1, <2>3
<1> DEFINE u == v * Base + d
<1>5. /\ u \in 0 .. Base ^ (i + 1) - 1 /\ Digit(u, 0) = d
      /\ \A k \in 0 .. XBytes - 1 : Digit(u, k + 1) = Digit(v, k)
  BY <1>1, <1>3, <1>4, AppendDigit
<1> HIDE DEF u
<1>6. u \in Nat /\ u < Base ^ (i + 1)
  BY <1>2, <1>5
<1>7. ASSUME NEW k \in 0 .. (i + 1) - 1
      PROVE  Digit(u, k) = trap.low.mem[1 + w - (i + 1) + k]
  <2>1. CASE k = 0
    <3>1. 1 + w - (i + 1) + 0 = 1 + (w - 1 - i)
      BY <1>1
    <3> QED
      BY <1>5, <2>1, <3>1
  <2>2. CASE k # 0
    <3>1. k - 1 \in 0 .. i - 1 /\ k - 1 \in 0 .. XBytes - 1 /\ (k - 1) + 1 = k
      BY <1>1, <2>2 DEF XBytes
    <3>2. Digit(u, (k - 1) + 1) = Digit(v, k - 1)
      BY <1>5, <3>1
    <3>3. Digit(v, k - 1) = trap.low.mem[1 + w - i + (k - 1)]
      BY <3>1 DEF HoldsHighest
    <3>4. 1 + w - (i + 1) + k = 1 + w - i + (k - 1)
      BY <1>1
    <3> QED
      BY <3>1, <3>2, <3>3, <3>4
  <2> QED
    BY <2>1, <2>2
<1>8. HoldsHighest(u, i + 1)
  BY <1>5, <1>7 DEF HoldsHighest
<1> QED
  BY <1>6, <1>8 DEF u

\* A byte's access faults as the instruction would.
LEMMA ByteFaultKeeps ==
    ASSUME TrapInv, ~trap.stray, at = "bytes", fw.record.trapped,
           Fail([cause |-> fw.record.mcause, tval |-> fw.record.mtval]),
           plat' = plat, low' = low, trap' = trap
    PROVE  TrapInv'
<1> DEFINE e == [cause |-> fw.record.mcause, tval |-> fw.record.mtval]
           t == trap.of
<1>0. Fail(e)
  OBVIOUS
<1>1. TrapTypeOK /\ OnCourse
  BY DEF TrapInv
<1>2. /\ at \in Emulating \ {"finish"} /\ Home = "bytes" /\ WindowFault # 0
      /\ fw.record.mcause = WindowFault /\ fw.record.mtval = fw.guard.addr
      /\ t.cause = LOAD_MISALIGNED => low.mem = trap.low.mem /\ fw.guard.addr = t.tval + (t.insn.kind.width - 1 - fw.i)
      /\ t.cause = STORE_MISALIGNED => LowestStored(fw.i) /\ fw.guard.addr = t.tval + fw.i
  BY <1>1, AtBytes
<1>3. /\ t \in Trappings /\ t.tval = 1 /\ t.insn.kind.width \in {1, 2, 4, 8} /\ fw.i \in 0 .. t.insn.kind.width - 1
      /\ \/ t.cause = LOAD_MISALIGNED /\ t.insn.op = "load" /\ fw.guard.what = "read"
         \/ t.cause = STORE_MISALIGNED /\ t.insn.op = "store" /\ fw.guard.what = "write"
  BY <1>1, <1>2, BytesAreData
<1>4. fw.guard.addr \in t.bad
      /\ WindowFault = IF t.insn.op = "load" THEN IF t.page THEN LOAD_PAGE ELSE LOAD_FAULT
                      ELSE IF t.page THEN STORE_PAGE ELSE STORE_FAULT
  BY <1>2, <1>3 DEF WindowFault, FaultUnder, GuardedCsrs
<1>5. fw.guard.addr \in AccessBytes(t)
  BY <1>2, <1>3 DEF AccessBytes
<1>6. CanRaise(t, e.cause, e.tval)
  BY <1>2, <1>4, <1>5 DEF CanRaise
<1>7. ~MustExecute(t)
  BY <1>3, <1>4, <1>5 DEF MustExecute, LOAD_MISALIGNED, STORE_MISALIGNED, ILLEGAL_INSTRUCTION
<1>8. PartlyStored(t)
  <2>1. CASE t.cause = LOAD_MISALIGNED
    BY <1>2, <2>1 DEF PartlyStored
  <2>2. CASE t.cause = STORE_MISALIGNED
    <3> SUFFICES ASSUME NEW a \in DataAddrs, low.mem[a] # trap.low.mem[a]
                 PROVE  a \in AccessBytes(t) \ t.bad /\ low.mem[a] = Digit(trap.low.x[t.insn.reg], a - t.tval)
      BY <2>2 DEF PartlyStored
    <3>1. a \in t.tval .. t.tval + fw.i - 1 /\ low.mem[a] = Digit(trap.low.x[t.insn.reg], a - t.tval)
      BY <1>2, <2>2 DEF LowestStored
    <3>2. a - t.tval \in 0 .. fw.i - 1 /\ a - t.tval \in 0 .. t.insn.kind.width - 1 /\ t.tval + (a - t.tval) = a
      BY <1>3, <3>1
    <3>3. a \notin t.bad
      BY <1>2, <2>2, <3>2 DEF LowestStored
    <3> QED
      BY <3>1, <3>2, <3>3 DEF AccessBytes
  <2> QED
    BY <1>3, <2>1, <2>2
<1>9. e \in [cause : Int, tval : Int]
  <2>1. fw.record \in Records
    BY <1>1 DEF TrapTypeOK, Firmwares
  <2> QED
    BY <2>1 DEF Records
<1> HIDE DEF e
<1> QED
  BY <1>0, <1>2, <1>6, <1>7, <1>8, <1>9, FailKeeps

\* read_value, write_value
LEMMA NextByteKeeps ==
    ASSUME TrapInv, ~trap.stray, NextByte
    PROVE  TrapInv'
<1> DEFINE t == trap.of
           w == t.insn.kind.width
           data == fw.data * Base + fw.guard.data
           load == t.cause = LOAD_MISALIGNED
<1>1. TrapTypeOK /\ OnCourse
  BY DEF TrapInv
<1>2. at = "bytes" /\ plat' = plat /\ low' = low /\ trap' = trap
  BY DEF NextByte
<1>3. /\ at \in Emulating /\ Home = "bytes"
      /\ load => low.mem = trap.low.mem /\ HoldsHighest(fw.data, fw.i) /\ fw.guard.addr = t.tval + (w - 1 - fw.i)
                 /\ (~fw.record.trapped => fw.guard.data = low.mem[fw.guard.addr])
      /\ t.cause = STORE_MISALIGNED => LowestStored(IF fw.record.trapped THEN fw.i ELSE fw.i + 1)
  BY <1>1, <1>2, AtBytes
<1>4. /\ t \in Trappings /\ t.tval = 1 /\ t.insn = fw.insn /\ w \in {1, 2, 4, 8} /\ fw.i \in 0 .. w - 1
      /\ \/ load /\ t.insn.op = "load"
         \/ t.cause = STORE_MISALIGNED /\ t.insn.op = "store"
  BY <1>1, <1>3, BytesAreData
<1>5. /\ fw.facts.mcause = t.cause /\ fw.frame = trap.low.x /\ t.insn \in Insns /\ trap.answer = NoAnswer
  BY <1>1, <1>2, <1>3, AtEmulating
<1>6. load <=> Wanted = "load"
  BY <1>4, <1>5 DEF Wanted, LOAD_MISALIGNED, STORE_MISALIGNED, LOAD_FAULT, STORE_FAULT
<1>7. ~fw.record.trapped /\ load => HoldsHighest(data, fw.i + 1) /\ data \in Nat /\ data < Base ^ (fw.i + 1)
  BY <1>1, <1>3, <1>4, ByteJoins
<1>8. fw \in Firmwares /\ fw.i \in Nat /\ trap \in Ghosts
  BY <1>1 DEF TrapTypeOK, Firmwares
<1> HIDE DEF data
<1>9. CASE fw.record.trapped /\ Fail([cause |-> fw.record.mcause, tval |-> fw.record.mtval])
  BY <1>2, <1>9, ByteFaultKeeps
<1>10. CASE ~fw.record.trapped /\ fw.i + 1 # w
            /\ ByteGuard([fw EXCEPT !.i = @ + 1, !.data = IF Wanted = "load" THEN data ELSE 0])
  <2> DEFINE d == IF Wanted = "load" THEN data ELSE 0
             f == [fw EXCEPT !.i = @ + 1, !.data = d]
  <2>1. d \in Int
    BY <1>6, <1>7, <1>10
  <2> HIDE DEF d
  <2>a. fw.i + 1 \in Nat /\ f = [fw EXCEPT !.i = fw.i + 1, !.data = d]
    BY <1>8
  <2> HIDE DEF f
  <2>2. /\ f \in Firmwares /\ f.i = fw.i + 1 /\ f.data = d /\ f.facts = fw.facts /\ f.frame = fw.frame
        /\ f.insn = fw.insn /\ f.phase = fw.phase /\ f.sstc = fw.sstc
    BY <1>8, <2>1, <2>a DEF Firmwares
  <2>3. ByteGuard(f)
    BY <1>10 DEF d, f
  <2>4. f.i \in 0 .. w - 1
    BY <1>4, <1>10, <2>2
  <2>5. load => low.mem = trap.low.mem /\ HoldsHighest(f.data, f.i)
    BY <1>3, <1>6, <1>7, <1>10, <2>2 DEF d
  <2>6. t.cause = STORE_MISALIGNED => LowestStored(f.i)
    BY <1>3, <1>10, <2>2
  <2>7. <<t.cause, t.insn.op>> \in {<<LOAD_MISALIGNED, "load">>, <<STORE_MISALIGNED, "store">>}
    BY <1>4
  <2> QED
    BY <1>2, <1>4, <2>2, <2>3, <2>4, <2>5, <2>6, <2>7, ByteGuardKeeps
<1>11. CASE ~fw.record.trapped /\ fw.i + 1 = w /\ Complete(IF Wanted = "load" THEN Loaded(data) ELSE fw)
  <2> DEFINE f == IF Wanted = "load" THEN Loaded(data) ELSE fw
             bytes == [k \in 0 .. w - 1 |-> trap.low.mem[t.tval + k]]
  <2>1. Complete(f) /\ fw' = f
    BY <1>11 DEF Complete
  <2>2. CASE load
    <3>1. HoldsHighest(data, w) /\ data \in Nat /\ data < Base ^ w
      BY <1>7, <1>11, <2>2
    <3>2. \A k \in 0 .. w - 1 : bytes[k] = Digit(data, k)
      <4> TAKE k \in 0 .. w - 1
      <4>1. t.tval + w - w + k = t.tval + k
        BY <1>4
      <4> QED
        BY <3>1, <4>1 DEF HoldsHighest
    <3> HIDE DEF bytes
    <3>3. /\ Loaded(data) \in Firmwares /\ RegisterHolds(t, Loaded(data).frame, bytes)
          /\ Loaded(data).phase = fw.phase /\ Loaded(data).sstc = fw.sstc
          /\ Loaded(data).facts = fw.facts /\ Loaded(data).insn = fw.insn
      BY <1>1, <1>4, <1>5, <3>1, <3>2, LoadedHolds
    <3>4. f = Loaded(data)
      BY <1>6, <2>2
    <3>5. RegisterHolds(t, fw.frame, bytes)'
      BY <1>2, <2>1, <3>3, <3>4 DEF RegisterHolds, bytes
    <3>6. Effect(t, fw.frame)'
      BY <1>2, <1>3, <2>2, <3>5 DEF Effect, bytes
    <3> HIDE DEF f
    <3>7. trap'.answer.by # "stage" /\ trap' \in Ghosts /\ t.insn.op # "other"
      BY <1>2, <1>4, <1>5, <1>8 DEF NoAnswer
    <3> QED
      BY <1>2, <2>1, <3>3, <3>4, <3>6, <3>7, CompleteKeeps
  <2>3. CASE ~load
    <3>1. f = fw /\ t.cause = STORE_MISALIGNED /\ LowestStored(w)
      BY <1>3, <1>4, <1>6, <1>11, <2>3
    <3>2. \A a \in DataAddrs : a \in AccessBytes(t) <=> a \in t.tval .. t.tval + w - 1
      <4> TAKE a \in DataAddrs
      <4>1. a \in Int
        BY TrapAssumption
      <4>2. a \in t.tval .. t.tval + w - 1 => a - t.tval \in 0 .. w - 1 /\ t.tval + (a - t.tval) = a
        BY <1>4, <4>1
      <4>3. \A k \in 0 .. w - 1 : t.tval + k \in t.tval .. t.tval + w - 1
        BY <1>4
      <4> QED
        BY <4>2, <4>3 DEF AccessBytes
    <3>3. Effect(t, fw.frame)'
      <4>1. \A a \in DataAddrs : low.mem[a] = IF a \in AccessBytes(t)
                THEN Digit(trap.low.x[t.insn.reg], a - t.tval) ELSE trap.low.mem[a]
        BY <3>1, <3>2 DEF LowestStored
      <4>2. fw'.frame = trap.low.x
        BY <1>5, <2>1, <3>1
      <4> QED
        BY <1>2, <3>1, <4>1, <4>2 DEF Effect, AccessBytes
    <3>4. trap'.answer.by # "stage" /\ trap' \in Ghosts /\ t.insn.op # "other"
      BY <1>2, <1>4, <1>5, <1>8 DEF NoAnswer
    <3>5. Complete(fw)
      BY <2>1, <3>1
    <3> QED
      BY <1>2, <1>8, <3>3, <3>4, <3>5, CompleteKeeps
  <2> QED
    BY <2>2, <2>3
<1> QED
  BY <1>4, <1>9, <1>10, <1>11 DEF NextByte, data

------------------------------------------------------------------------------
(* Exceptions of the firmware, and the theorems. *)

\* The recovery vector accepts the fault that the guard expects.
LEMMA RecoveryNeverStops ==
    ASSUME TrapInv, ~trap.stray
    PROVE  ~RecoveryStops
<1>1. TrapTypeOK /\ OnCourse
  BY DEF TrapInv
<1>2. SUFFICES ASSUME at = "recover"
               PROVE  Recoverable
  BY DEF RecoveryStops
<1>3. csr.mscratch = "record" /\ fw.guard.ret \in Returns /\ Home = fw.guard.ret /\ Home \in Returns
  BY <1>1, <1>2 DEF OnCourse, Places, ControlHolds, Window, Home
<1>4. /\ fw.record.expected = GuardPc /\ WindowFault # 0 /\ csr.mstatus.mpp = "M"
      /\ csr.mepc = GuardPc /\ csr.mcause = WindowFault
  BY <1>1, <1>2 DEF OnCourse, RecordHolds
<1>5. fw.record.mask = CASE fw.guard.what \in GuardedCsrs -> {ILLEGAL_INSTRUCTION}
                         [] fw.guard.what = "write" -> {STORE_FAULT, STORE_PAGE}
                         [] OTHER -> {LOAD_FAULT, LOAD_PAGE}
  BY <1>1, <1>3 DEF OnCourse, GuardHolds
<1>6. WindowFault \in fw.record.mask
  <2>1. CASE fw.guard.what \in GuardedCsrs
    BY <1>4, <1>5, <2>1 DEF WindowFault, FaultUnder, GuardedCsrs
  <2>2. CASE fw.guard.what = "write"
    BY <1>4, <1>5, <2>2 DEF WindowFault, FaultUnder, GuardedCsrs
  <2>3. CASE fw.guard.what \notin GuardedCsrs /\ fw.guard.what # "write"
    BY <1>4, <1>5, <2>3 DEF WindowFault, FaultUnder, GuardedCsrs
  <2> QED
    BY <2>1, <2>2, <2>3
<1>7. WindowFault < Irq
  BY DEF WindowFault, FaultUnder, ILLEGAL_INSTRUCTION, LOAD_FAULT, LOAD_PAGE, STORE_FAULT, STORE_PAGE, Irq
<1> QED
  BY <1>3, <1>4, <1>6, <1>7 DEF Recoverable

\* An exception of the firmware's own code stops the hart, or will.
LEMMA StrayFaultKeeps ==
    ASSUME TrapInv, ~trap.stray, StrayFault
    PROVE  TrapInv'
<1>1. TrapTypeOK /\ OnCourse
  BY DEF TrapInv
<1>2. PICK cause \in Strays : /\ at = "access" => cause \notin fw.record.mask
                              /\ MachineFault(cause, 0, IF at = "access" THEN GuardPc ELSE StrayPc)
  BY DEF StrayFault
<1>3. at \notin {"init", "commit", "arm", "lower", "entry", "fastReturn", "return", "recover", "stopped"}
      /\ trap' = [trap EXCEPT !.stray = TRUE] /\ plat' = plat /\ low' = low /\ fw' = fw
  BY DEF StrayFault
<1> DEFINE pc == IF at = "access" THEN GuardPc ELSE StrayPc
<1>4. cause \in Int /\ pc \in Int /\ 0 \in Int
  BY TrapAssumption DEF Irq, GuardPc, StrayPc
<1> HIDE DEF pc
<1>5. MachineFault(cause, 0, pc)
  BY <1>2 DEF pc
<1>6. csr' \in CsrFiles
  BY <1>1, <1>4, <1>5, MachineFaultTypes
<1>7. trap' \in Ghosts /\ trap'.stray
  BY <1>1, <1>3 DEF TrapTypeOK, Ghosts
<1>8. TrapTypeOK'
  BY <1>1, <1>3, <1>6, <1>7 DEF TrapTypeOK
<1>9. csr'.mepc = pc /\ csr'.mcause = cause
  <2>1. csr \in CsrFiles
    BY <1>1 DEF TrapTypeOK
  <2> QED
    BY <1>5, <2>1 DEF MachineFault, CsrFiles
<1>10. CASE at \in Window
  <2>1. csr.mtvec = "recovery"
    BY <1>1, <1>10 DEF OnCourse, ControlHolds
  <2>2. at' = "recover"
    BY <1>5, <2>1 DEF MachineFault
  <2>3. fw.record.expected \in {0, GuardPc}
    BY <1>1 DEF TrapTypeOK, Firmwares, Records
  <2>4. ~Recoverable'
    <3>1. CASE at = "access"
      BY <1>2, <1>3, <1>9, <3>1 DEF Recoverable
    <3>2. CASE at # "access"
      BY <1>3, <1>9, <2>3, <3>2 DEF Recoverable, pc, GuardPc, StrayPc
    <3> QED
      BY <3>1, <3>2
  <2> QED
    BY <1>7, <1>8, <2>2, <2>4 DEF TrapInv, StopsForStraysOnly, LowerCannotStop, StrayStops
<1>11. CASE at \notin Window
  <2>1. at \in Emulating \cup {"delegate", "dispatch"}
    BY <1>1, <1>3, <1>11 DEF OnCourse, Places, BootPlaces, Emulating
  <2>2. csr.mtvec = "failstop" \/ (csr.mtvec = "normal" /\ csr.mscratch = "zero")
    BY <1>1, <2>1 DEF OnCourse, ControlHolds, Window, Emulating
  <2>3. at' = "stopped"
    BY <1>5, <2>2 DEF MachineFault
  <2> QED
    BY <1>7, <1>8, <2>3 DEF TrapInv, StopsForStraysOnly, LowerCannotStop, StrayStops
<1> QED
  BY <1>10, <1>11

\* After such an exception the hart only stops.
LEMMA StrayKeeps ==
    ASSUME TrapInv, trap.stray, TrapNext
    PROVE  TrapInv'
<1>1. TrapTypeOK /\ at \in {"recover", "stopped"} /\ (at = "recover" => ~Recoverable)
  BY DEF TrapInv, StopsForStraysOnly, StrayStops
<1>2. at = "recover" => RecoveryStops
  BY <1>1 DEF TrapNext, PublishRecord, OpenWindow, GuardedAccess, GuardedFault, RecoverFault, CloseWindow, RetireRecord,
        RestoreVector, Reserve, Delegate, CommitVector, Arm, TakeTrap, EnterFast, EnterFull, ReturnToLower,
        DispatchRedirect, SbiEcall, EnterNextStage, DispatchInterrupt, DirectCounter, BeginEmulation, FetchLow, FetchHigh,
        DecodeFails, DecodeMisaligned, NextByte, AskDispatcher, ReadCounter, CounterAnswer, FinishEmulation,
        FailEmulation, StrayFault, FailStop
<1>3. at = "stopped" => FailStop
  BY <1>1 DEF TrapNext, PublishRecord, OpenWindow, GuardedAccess, GuardedFault, RecoverFault, CloseWindow, RetireRecord,
        RestoreVector, Reserve, Delegate, CommitVector, Arm, TakeTrap, EnterFast, EnterFull, ReturnToLower,
        DispatchRedirect, SbiEcall, EnterNextStage, DispatchInterrupt, DirectCounter, BeginEmulation, FetchLow, FetchHigh,
        DecodeFails, DecodeMisaligned, NextByte, AskDispatcher, ReadCounter, CounterAnswer, FinishEmulation,
        FailEmulation, StrayFault, RecoveryStops
<1>4. at' = "stopped" /\ plat' = plat /\ csr' = csr /\ low' = low /\ fw' = fw /\ trap' = trap
  BY <1>1, <1>2, <1>3 DEF RecoveryStops, FailStop, trapVars
<1>5. TrapTypeOK'
  BY <1>1, <1>4 DEF TrapTypeOK
<1> QED
  BY <1>4, <1>5 DEF TrapInv, StopsForStraysOnly, LowerCannotStop, StrayStops

\* Nothing changes when the hart takes no step.
LEMMA StutterKeeps ==
    ASSUME TrapInv, UNCHANGED trapVars
    PROVE  TrapInv'
<1>1. at' = at /\ plat' = plat /\ csr' = csr /\ low' = low /\ fw' = fw /\ trap' = trap
  BY DEF trapVars
<1>2. Home' = Home /\ HomeStatus' = HomeStatus /\ WindowFault' = WindowFault /\ Recoverable' = Recoverable
  BY <1>1 DEF Home, HomeStatus, WindowFault, FaultUnder, Recoverable
<1>3. TrapTypeOK' /\ StopsForStraysOnly'
  BY <1>1 DEF TrapInv, TrapTypeOK, StopsForStraysOnly, LowerCannotStop, StrayStops
<1>4. ASSUME ~trap.stray
      PROVE  OnCourse'
  <2>1. OnCourse
    BY <1>4 DEF TrapInv
  <2>2. Places' /\ ControlHolds' /\ PhaseHolds' /\ GuardHolds' /\ RecordHolds' /\ FactsHold'
    BY <1>1, <1>2, <2>1 DEF OnCourse, Places, ControlHolds, PhaseHolds, GuardHolds, RecordHolds, FactsHold, Closed
  <2>3. DataHolds'
    BY <1>1, <1>2, <2>1 DEF OnCourse, DataHolds, Closed, HoldsHighest, LowestStored, NoRedirect
  <2>4. OutcomeHolds'
    <3>1. (SameStatus' <=> SameStatus) /\ (NoRedirect' <=> NoRedirect) /\ (PartlyStored(trap.of)' <=> PartlyStored(trap.of))
          /\ (MustExecute(trap.of)' <=> MustExecute(trap.of))
      BY <1>1 DEF SameStatus, NoRedirect, PartlyStored, MustExecute
    <3>2. Reported(fw)' = Reported(fw) /\ (CanRaise(trap.of, low.scause, low.stval)' <=> CanRaise(trap.of, low.scause, low.stval))
          /\ (CanRaise(trap.of, Reported(fw).cause, Reported(fw).tval)' <=> CanRaise(trap.of, Reported(fw).cause, Reported(fw).tval))
      BY <1>1 DEF Reported, CanRaise
    <3>3. \A x : Effect(trap.of, x)' <=> Effect(trap.of, x)
      <4> TAKE x
      <4>1. \A bytes : RegisterHolds(trap.of, x, bytes)' <=> RegisterHolds(trap.of, x, bytes)
        BY <1>1 DEF RegisterHolds
      <4> QED
        BY <1>1, <4>1 DEF Effect
    <3>4. \A x : Transparent(x)' <=> Transparent(x)
      BY <1>1, <3>1, <3>2, <3>3 DEF Transparent, Executed, Delegated
    <3>5. OutcomeHolds
      BY <2>1 DEF OnCourse
    <3> QED
      BY <1>1, <3>1, <3>2, <3>3, <3>4, <3>5 DEF OutcomeHolds, TrapsAreTransparent
  <2> QED
    BY <2>2, <2>3, <2>4 DEF OnCourse
<1> QED
  BY <1>1, <1>2, <1>3, <1>4 DEF TrapInv

\* TrapInv is inductive.
LEMMA TrapNextKeeps ==
    ASSUME TrapInv, TrapNext
    PROVE  TrapInv'
<1>1. CASE trap.stray
  BY <1>1, StrayKeeps
<1>2. CASE ~trap.stray
  <2>1. CASE PublishRecord \/ OpenWindow \/ GuardedAccess \/ GuardedFault \/ RecoverFault \/ RecoveryStops
             \/ CloseWindow \/ RetireRecord \/ RestoreVector
    BY <1>2, <2>1, PublishRecordKeeps, OpenWindowKeeps, GuardedAccessKeeps, GuardedFaultKeeps, RecoverFaultKeeps,
       RecoveryNeverStops, CloseWindowKeeps, RetireRecordKeeps, RestoreVectorKeeps
  <2>2. CASE Reserve \/ Delegate \/ CommitVector \/ Arm \/ TakeTrap \/ EnterFast \/ EnterFull \/ ReturnToLower
    BY <1>2, <2>2, ReserveKeeps, DelegateKeeps, CommitVectorKeeps, ArmKeeps, TakeTrapKeeps, EnterFastKeeps,
       EnterFullKeeps, ReturnToLowerKeeps
  <2>3. CASE DispatchRedirect \/ SbiEcall \/ EnterNextStage \/ DispatchInterrupt \/ DirectCounter \/ BeginEmulation
    BY <1>2, <2>3, DispatchRedirectKeeps, SbiEcallKeeps, EnterNextStageKeeps, DispatchInterruptKeeps,
       DirectCounterKeeps, BeginEmulationKeeps
  <2>4. CASE FetchLow \/ FetchHigh \/ DecodeFails \/ DecodeMisaligned \/ NextByte \/ AskDispatcher
             \/ ReadCounter \/ CounterAnswer \/ FinishEmulation \/ FailEmulation
    BY <1>2, <2>4, FetchLowKeeps, FetchHighKeeps, DecodeFailsKeeps, DecodeMisalignedKeeps, NextByteKeeps,
       AskDispatcherKeeps, ReadCounterKeeps, CounterAnswerKeeps, FinishEmulationKeeps, FailEmulationKeeps
  <2>5. CASE StrayFault
    BY <1>2, <2>5, StrayFaultKeeps
  <2>6. CASE FailStop
    BY <2>6, StutterKeeps DEF FailStop
  <2> QED
    BY <2>1, <2>2, <2>3, <2>4, <2>5, <2>6 DEF TrapNext
<1> QED
  BY <1>1, <1>2

\* The inductive invariant of a hart's traps.
THEOREM TrapInvariant == TrapSpec => []TrapInv
<1>1. TrapInit => TrapInv
  BY TrapInitHolds
<1>2. TrapInv /\ [TrapNext]_trapVars => TrapInv'
  BY TrapNextKeeps, StutterKeeps
<1> QED
  BY <1>1, <1>2, PTL DEF TrapSpec

\* Whatever the memory, the registers, the platform and the faults, and however
\* wide a byte is: the hart stops for an exception of the firmware's own code,
\* and for nothing that the lower modes do.  (recovery_entry, fail_stop)
THEOREM StraysAloneStop == TrapSpec => []StopsForStraysOnly
<1>1. TrapInv => StopsForStraysOnly
  BY DEF TrapInv
<1> QED
  BY <1>1, TrapInvariant, PTL

\* The lower context finds the effect of its instruction, a trap that it can
\* raise, or its own interrupted state.  (trap_dispatch, emulate.rs)
THEOREM TrapsNeverShow == TrapSpec => []TrapsAreTransparent
<1>1. TrapInv => TrapsAreTransparent
  BY DEF TrapInv, OnCourse, OutcomeHolds, TrapsAreTransparent
<1> QED
  BY <1>1, TrapInvariant, PTL

\* Guarded accesses have the privilege of the context that trapped, with MXR and
\* nothing else added, and the lower modes resume with everything put back.
\* (guarded_access!, trap_entry)
THEOREM PrivilegeNeverLeaks == TrapSpec => []PrivilegeIsKept
<1>1. ASSUME TrapInv
      PROVE  PrivilegeIsKept
  <2>1. TrapTypeOK /\ trap.stray \in BOOLEAN
    BY <1>1 DEF TrapInv, TrapTypeOK, Ghosts
  <2>2. CASE trap.stray
    BY <1>1, <2>2 DEF TrapInv, StopsForStraysOnly, StrayStops, PrivilegeIsKept, AccessedAsTheTrapped, LowerContextIsSafe
  <2>3. CASE ~trap.stray
    <3>1. OnCourse
      BY <1>1, <2>3 DEF TrapInv
    <3>2. ~HomeStatus.mprv
      BY <3>1 DEF OnCourse, ControlHolds, HomeStatus, LowerStatus
    <3>3. csr.mstatus.mprv \/ csr.mstatus.mxr # trap.status.mxr => at \in {"access", "recover", "close", "stopped"}
      <4>1. HomeStatus.mxr = trap.status.mxr
        BY <3>1 DEF OnCourse, FactsHold, HomeStatus, LowerStatus
      <4> QED
        BY <3>1, <3>2, <4>1 DEF OnCourse, ControlHolds
    <3>4. at = "access" /\ fw.guard.what \notin GuardedCsrs => csr.mstatus = [trap.status EXCEPT !.mprv = TRUE, !.mxr = TRUE]
      <4>1. SUFFICES ASSUME at = "access", fw.guard.what \notin GuardedCsrs
                     PROVE  csr.mstatus = [trap.status EXCEPT !.mprv = TRUE, !.mxr = TRUE]
        OBVIOUS
      <4>2. Home \in Returns
        BY <3>1, <4>1 DEF OnCourse, Places, Home, Window
      <4>3. Home # "delegate"
        BY <3>1, <4>1, <4>2 DEF OnCourse, GuardHolds, GuardedCsrs
      <4>4. HomeStatus = trap.status
        BY <4>2, <4>3 DEF HomeStatus, BootPlaces, Returns
      <4> QED
        BY <3>1, <4>1, <4>4 DEF OnCourse, ControlHolds
    <3>5. LowerContextIsSafe
      BY <3>1 DEF LowerContextIsSafe, OnCourse, ControlHolds, PhaseHolds, Home, Window
    <3> QED
      BY <3>3, <3>4, <3>5 DEF PrivilegeIsKept, AccessedAsTheTrapped
  <2> QED
    BY <2>1, <2>2, <2>3
<1> QED
  BY <1>1, TrapInvariant, PTL
==============================================================================
