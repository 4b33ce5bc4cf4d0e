---------------------------- MODULE CommonProofs ----------------------------
(***************************************************************************)
(* The shifts, masks and products of the header compute the sets of bits   *)
(* that the other modules use, for words of every width: those of the      *)
(* header have 32 bits.  And the debt counters of the clocks are right for *)
(* any devices, prices, initial debts and rounds, and however long the     *)
(* loop runs.  And the brackets of every text, over whatever characters    *)
(* and however long, are matched as a parser matches them.                 *)
(***************************************************************************)
EXTENDS BitMacro, Clock, Expressions, FiniteSetTheorems, SequenceTheorems,
        WellFoundedInduction, TLAPS

-----------------------------------------------------------------------------
(* Numbers, and functions that are defined by recursion on them. *)

LEMMA LeastNumber ==
  ASSUME NEW S \in SUBSET Nat, S # {}
  PROVE  \E m \in S : \A n \in S : m <= n
<1>1. \E x \in S : \A y \in S : ~ (<<y, x>> \in OpToRel(<, Nat))
  BY NatLessThanWellFounded, WFMin
<1>2. \E x \in S : \A y \in S : ~ (y < x)
  BY <1>1 DEF OpToRel
<1> QED BY <1>2

(* A set of naturals that holds 0 and with n its successor holds them all. *)
LEMMA Inductive ==
  ASSUME NEW S \in SUBSET Nat, 0 \in S, \A n \in S : n + 1 \in S
  PROVE  \A n \in Nat : n \in S
<1> DEFINE R == {n \in Nat : n \notin S}
<1> SUFFICES ASSUME R # {} PROVE FALSE
  OBVIOUS
<1>1. PICK m \in R : \A n \in R : m <= n
  BY LeastNumber
<1>2. m # 0 /\ m - 1 \in Nat /\ m - 1 \notin R
  BY <1>1
<1> QED BY <1>1, <1>2

(* f begins with b, and its n-th value is what the n-th step makes of the  *)
(* one before.                                                             *)
Recurs(f, N, D, b, step) ==
  f \in [N -> D] /\ f[0] = b /\ \A n \in N : n # 0 => f[n] = step[n][f[n - 1]]

(* As far as two such functions go they are the same. *)
LEMMA RecursOnce ==
  ASSUME NEW D, NEW b, NEW step, NEW m \in Nat, NEW n \in Nat, m <= n,
         NEW f, NEW g, Recurs(f, 0..m, D, b, step), Recurs(g, 0..n, D, b, step)
  PROVE  \A i \in 0..m : f[i] = g[i]
<1> USE DEF Recurs
<1> DEFINE Same == {i \in Nat : i <= m => f[i] = g[i]}
<1>1. 0 \in Same
  OBVIOUS
<1>2. ASSUME NEW i \in Same PROVE i + 1 \in Same
  <2> SUFFICES ASSUME i + 1 <= m PROVE f[i + 1] = g[i + 1]
    OBVIOUS
  <2>1. i + 1 \in 0..m /\ i + 1 \in 0..n /\ i + 1 # 0 /\ (i + 1) - 1 = i
    OBVIOUS
  <2> QED BY <2>1
<1>3. \A i \in Nat : i \in Same
  <2> HIDE DEF Same
  <2>1. Same \in SUBSET Nat
    BY DEF Same
  <2> QED BY <1>1, <1>2, <2>1, Inductive
<1> QED BY <1>3

(* Up to every number there is such a function. *)
LEMMA RecursUpTo ==
  ASSUME NEW D, NEW b \in D, NEW step, \A n \in Nat \ {0} : \A d \in D : step[n][d] \in D
  PROVE  \A n \in Nat : \E f : Recurs(f, 0..n, D, b, step)
<1> USE DEF Recurs
<1> DEFINE Good == {n \in Nat : \E f : Recurs(f, 0..n, D, b, step)}
<1>1. 0 \in Good
  <2> DEFINE f == [i \in 0..0 |-> b]
  <2>1. f \in [0..0 -> D] /\ f[0] = b /\ \A i \in 0..0 : i = 0
    OBVIOUS
  <2> HIDE DEF f
  <2> QED BY <2>1
<1>2. ASSUME NEW n \in Good PROVE n + 1 \in Good
  <2>1. PICK g : Recurs(g, 0..n, D, b, step)
    OBVIOUS
  <2> DEFINE f == [i \in 0..(n + 1) |-> IF i <= n THEN g[i] ELSE step[n + 1][g[n]]]
  <2>2. n \in 0..n /\ 0 \in 0..n /\ step[n + 1][g[n]] \in D
    BY <2>1
  <2>3. f \in [0..(n + 1) -> D] /\ f[0] = b
    BY <2>1, <2>2
  <2>4. ASSUME NEW i \in 0..(n + 1), i # 0 PROVE f[i] = step[i][f[i - 1]]
    <3>1. i - 1 \in 0..n /\ f[i - 1] = g[i - 1]
      BY <2>4
    <3>2. CASE i = n + 1
      BY <3>1, <3>2
    <3>3. CASE i \in 0..n
      BY <3>1, <3>3, <2>1, <2>4
    <3> QED BY <3>2, <3>3
  <2> HIDE DEF f
  <2> QED BY <2>3, <2>4
<1> HIDE DEF Good
<1>3. Good \in SUBSET Nat
  BY DEF Good
<1>4. \A n \in Nat : n \in Good
  BY <1>1, <1>2, <1>3, Inductive
<1> QED BY <1>4 DEF Good

(* And so there is one for all of them. *)
LEMMA RecursForAll ==
  ASSUME NEW D, NEW b \in D, NEW step, \A n \in Nat \ {0} : \A d \in D : step[n][d] \in D
  PROVE  \E f : Recurs(f, Nat, D, b, step)
<1> DEFINE upto(n) == CHOOSE f : Recurs(f, 0..n, D, b, step)
           f == [n \in Nat |-> upto(n)[n]]
<1>1. ASSUME NEW n \in Nat PROVE Recurs(upto(n), 0..n, D, b, step)
  BY RecursUpTo
<1> HIDE DEF upto
<1>2. ASSUME NEW n \in Nat PROVE n \in 0..n /\ f[n] = upto(n)[n] /\ f[n] \in D
  BY <1>1 DEF Recurs
<1>3. f[0] = b
  BY <1>1, <1>2 DEF Recurs
<1>4. ASSUME NEW n \in Nat, n # 0 PROVE f[n] = step[n][f[n - 1]]
  <2>1. n - 1 \in Nat /\ n - 1 <= n /\ n - 1 \in 0..(n - 1) /\ n - 1 \in 0..n
    BY <1>4
  <2>2. Recurs(upto(n), 0..n, D, b, step) /\ Recurs(upto(n - 1), 0..(n - 1), D, b, step)
    BY <1>1, <2>1
  <2>3. \A i \in 0..(n - 1) : upto(n - 1)[i] = upto(n)[i]
    BY <2>1, <2>2, RecursOnce
  <2>4. upto(n)[n - 1] = upto(n - 1)[n - 1]
    BY <2>1, <2>3
  <2>5. upto(n)[n] = step[n][upto(n)[n - 1]]
    BY <1>2, <1>4, <2>2 DEF Recurs
  <2> QED BY <1>2, <2>1, <2>4, <2>5
<1>5. f \in [Nat -> D]
  BY <1>2
<1> HIDE DEF f
<1> QED BY <1>3, <1>4, <1>5 DEF Recurs

-----------------------------------------------------------------------------
(* Powers of two. *)

LEMMA PowerIs ==
  /\ Pow2 \in [Nat -> Nat \ {0}]
  /\ Pow2[0] = 1
  /\ \A n \in Nat : Pow2[n + 1] = 2 * Pow2[n]
<1> DEFINE D == Nat \ {0}
           step == [n \in Nat |-> [d \in D |-> 2 * d]]
           Body(f) == [n \in Nat |-> IF n = 0 THEN 1 ELSE 2 * f[n - 1]]
           g == CHOOSE f : f = Body(f)
<1>1. PICK f : Recurs(f, Nat, D, 1, step)
  <2>1. 1 \in D /\ \A n \in Nat \ {0} : \A d \in D : step[n][d] \in D
    OBVIOUS
  <2> HIDE DEF step, D
  <2> QED BY <2>1, RecursForAll
<1>2. ASSUME NEW n \in Nat PROVE f[n] = IF n = 0 THEN 1 ELSE 2 * f[n - 1]
  <2>1. CASE n = 0
    BY <1>1, <2>1 DEF Recurs
  <2>2. CASE n # 0
    <3>1. n - 1 \in Nat /\ f[n - 1] \in D /\ f[n] = step[n][f[n - 1]]
      BY <1>1, <2>2 DEF Recurs
    <3> QED BY <2>2, <3>1
  <2> QED BY <2>1, <2>2
<1>3. f = Body(f)
  <2>1. f = [n \in Nat |-> f[n]]
    BY <1>1 DEF Recurs
  <2> QED BY <1>2, <2>1
<1>4. g = Body(g)
  BY <1>3
<1>5. Pow2 = g
  BY DEF Pow2
<1> HIDE DEF g
<1>6. ASSUME NEW n \in Nat PROVE g[n] = IF n = 0 THEN 1 ELSE 2 * g[n - 1]
  BY <1>4
<1>7. g[0] = 1 /\ \A n \in Nat : g[n + 1] = 2 * g[n]
  <2>1. \A n \in Nat : n + 1 \in Nat /\ n + 1 # 0 /\ (n + 1) - 1 = n
    OBVIOUS
  <2> QED BY <1>6, <2>1
<1>8. g = [n \in Nat |-> g[n]]
  BY <1>4
<1> DEFINE Good == {n \in Nat : g[n] \in D}
<1>9. \A n \in Nat : n \in Good
  <2>1. 0 \in Good /\ Good \in SUBSET Nat
    BY <1>7
  <2>2. \A n \in Good : n + 1 \in Good
    BY <1>7
  <2> HIDE DEF Good
  <2> QED BY <2>1, <2>2, Inductive
<1>10. g \in [Nat -> D]
  BY <1>8, <1>9
<1> QED BY <1>5, <1>7, <1>10

LEMMA PowerType == \A n \in Nat : Pow2[n] \in Nat /\ Pow2[n] >= 1
BY PowerIs

LEMMA PowerAdd == \A m, n \in Nat : Pow2[m + n] = Pow2[m] * Pow2[n]
<1> SUFFICES ASSUME NEW m \in Nat PROVE \A n \in Nat : Pow2[m + n] = Pow2[m] * Pow2[n]
  OBVIOUS
<1> DEFINE Good == {n \in Nat : Pow2[m + n] = Pow2[m] * Pow2[n]}
<1>1. 0 \in Good
  BY PowerIs, PowerType
<1>2. ASSUME NEW n \in Good PROVE n + 1 \in Good
  <2>1. m + n \in Nat /\ m + (n + 1) = (m + n) + 1
    OBVIOUS
  <2>2. Pow2[m + (n + 1)] = 2 * (Pow2[m] * Pow2[n]) /\ Pow2[n + 1] = 2 * Pow2[n]
    BY <2>1, PowerIs
  <2>3. Pow2[m] \in Nat /\ Pow2[n] \in Nat
    BY PowerType
  <2> HIDE DEF Good
  <2>4. 2 * (Pow2[m] * Pow2[n]) = Pow2[m] * (2 * Pow2[n])
    BY <2>3
  <2> QED BY <2>2, <2>4 DEF Good
<1>3. Good \in SUBSET Nat
  OBVIOUS
<1> HIDE DEF Good
<1>4. \A n \in Nat : n \in Good
  BY <1>1, <1>2, <1>3, Inductive
<1> QED BY <1>4 DEF Good

-----------------------------------------------------------------------------
(* Quotients, remainders and digits. *)

LEMMA DivIs ==
  ASSUME NEW w, NEW b \in Nat, b >= 1, NEW q \in Int, NEW r \in Nat, r < b, w = q * b + r
  PROVE  w \div b = q /\ w % b = r
OBVIOUS

LEMMA DivFacts ==
  ASSUME NEW w \in Nat, NEW b \in Nat, b >= 1
  PROVE  /\ w \div b \in Nat /\ w % b \in Nat /\ w % b < b
         /\ w = (w \div b) * b + (w % b)
OBVIOUS

LEMMA Times == \A k, m, n \in Nat : k <= m => k * n <= m * n
OBVIOUS

LEMMA DivDiv ==
  ASSUME NEW w \in Nat, NEW b \in Nat, b >= 1, NEW c \in Nat, c >= 1
  PROVE  (w \div b) \div c = w \div (b * c)
<1> DEFINE q == w \div b
           r == w % b
           s == q \div c
           t == q % c
<1>1. q \in Nat /\ r \in Nat /\ r < b /\ w = q * b + r
  BY DivFacts
<1>2. s \in Nat /\ t \in Nat /\ t < c /\ q = s * c + t
  BY <1>1, DivFacts
<1> HIDE DEF q, r, s, t
<1>3. w = s * (b * c) + (t * b + r)
  BY <1>1, <1>2
<1>4. t * b + r \in Nat /\ b * c \in Nat /\ b * c >= 1 /\ t * b + r < b * c
  <2>1. t * b <= (c - 1) * b
    BY <1>2, Times
  <2>2. (c - 1) * b = b * c - b /\ t * b \in Nat /\ b * c \in Nat
    BY <1>2
  <2> QED BY <1>1, <2>1, <2>2
<1>5. w \div (b * c) = s
  BY <1>2, <1>3, <1>4, DivIs
<1> QED BY <1>5 DEF q, s

(* The i-th digit of a number is the parity of what is left of it.         *)
LEMMA DigitIs ==
  ASSUME NEW w, NEW i \in Nat, NEW q \in Int, NEW r \in Nat, r < Pow2[i],
         w = q * Pow2[i] + r
  PROVE  Digit(i, w) = q % 2
BY DivIs, PowerType DEF Digit

LEMMA TopDigit ==
  ASSUME NEW w, NEW i \in Nat, NEW b \in {0, 1}, NEW r \in Nat, r < Pow2[i],
         w = b * Pow2[i] + r
  PROVE  Digit(i, w) = b
<1>1. b \in Int /\ b % 2 = b
  OBVIOUS
<1> QED BY <1>1, DigitIs

LEMMA DigitType == \A i, w \in Nat : Digit(i, w) \in {0, 1}
<1> SUFFICES ASSUME NEW i \in Nat, NEW w \in Nat PROVE Digit(i, w) \in {0, 1}
  OBVIOUS
<1>1. w \div Pow2[i] \in Nat
  BY PowerType, DivFacts
<1> QED BY <1>1, DivFacts DEF Digit

LEMMA DigitOfZero == \A i \in Nat : Digit(i, 0) = 0
<1> SUFFICES ASSUME NEW i \in Nat PROVE Digit(i, 0) = 0
  OBVIOUS
<1>1. 0 = 0 * Pow2[i] + 0 /\ 0 < Pow2[i]
  BY PowerType
<1> QED BY <1>1, DigitIs

(* What lies above a place is even there. *)
LEMMA PowerAbove ==
  ASSUME NEW i \in Nat, NEW n \in Nat, i < n
  PROVE  /\ n - i - 1 \in Nat
         /\ Pow2[n] = (2 * Pow2[n - i - 1]) * Pow2[i]
<1> DEFINE h == n - i - 1
<1>1. h \in Nat /\ h + 1 \in Nat /\ n = (h + 1) + i
  OBVIOUS
<1> HIDE DEF h
<1>2. Pow2[n] = Pow2[h + 1] * Pow2[i] /\ Pow2[h + 1] = 2 * Pow2[h]
  BY <1>1, PowerAdd, PowerIs
<1> QED BY <1>1, <1>2 DEF h

(* A number cut to n digits has its own digits below. *)
LEMMA LowDigit ==
  ASSUME NEW i \in Nat, NEW n \in Nat, i < n, NEW w \in Nat
  PROVE  Digit(i, w % Pow2[n]) = Digit(i, w)
<1> DEFINE h == Pow2[n - i - 1]
           p == Pow2[i]
           q == w \div Pow2[n]
           r == w % Pow2[n]
           s == r \div p
           t == r % p
<1>1. h \in Nat /\ p \in Nat /\ p >= 1 /\ Pow2[n] \in Nat /\ Pow2[n] >= 1
      /\ Pow2[n] = (2 * h) * p
  BY PowerAbove, PowerType
<1>2. q \in Nat /\ r \in Nat /\ w = q * Pow2[n] + r
  BY <1>1, DivFacts
<1>3. s \in Nat /\ t \in Nat /\ t < p /\ r = s * p + t
  BY <1>1, <1>2, DivFacts
<1> HIDE DEF h, q, r, s, t
<1>4. Digit(i, r) = s % 2
  <2>1. s \in Int
    BY <1>3
  <2> QED BY <1>3, <2>1, DigitIs
<1>5. w = (2 * (h * q) + s) * p + t
  BY <1>1, <1>2, <1>3
<1>6. h * q \in Nat
  BY <1>1, <1>2
<1>7. Digit(i, w) = (2 * (h * q) + s) % 2
  <2>1. 2 * (h * q) + s \in Int
    BY <1>3, <1>6
  <2> QED BY <1>3, <1>5, <2>1, DigitIs DEF p
<1>8. (2 * (h * q) + s) % 2 = s % 2
  BY <1>3, <1>6
<1> QED BY <1>4, <1>7, <1>8 DEF r

(* Shifts move the digits, and zeros come in from below. *)
LEMMA ShiftRightDigit ==
  ASSUME NEW i \in Nat, NEW n \in Nat, NEW w \in Nat
  PROVE  Digit(i, w \div Pow2[n]) = Digit(i + n, w)
<1>1. (w \div Pow2[n]) \div Pow2[i] = w \div (Pow2[n] * Pow2[i])
  BY DivDiv, PowerType
<1>2. Pow2[n] * Pow2[i] = Pow2[i + n]
  BY PowerAdd, PowerType
<1> QED BY <1>1, <1>2 DEF Digit

LEMMA ShiftLeftDigit ==
  ASSUME NEW i \in Nat, NEW n \in Nat, NEW w \in Nat
  PROVE  Digit(i, w * Pow2[n]) = IF i < n THEN 0 ELSE Digit(i - n, w)
<1>1. CASE i < n
  <2> DEFINE h == Pow2[n - i - 1]
  <2>1. h \in Nat /\ Pow2[i] \in Nat /\ Pow2[i] >= 1 /\ Pow2[n] = (2 * h) * Pow2[i]
    BY <1>1, PowerAbove, PowerType
  <2> HIDE DEF h
  <2>2. w * h \in Nat /\ w * Pow2[n] = (2 * (w * h)) * Pow2[i] + 0
    BY <2>1
  <2>3. Digit(i, w * Pow2[n]) = (2 * (w * h)) % 2
    <3>1. 2 * (w * h) \in Int /\ 0 < Pow2[i]
      BY <2>1, <2>2
    <3> QED BY <2>2, <3>1, DigitIs
  <2> QED BY <1>1, <2>2, <2>3
<1>2. CASE i >= n
  <2> DEFINE k == i - n
             p == Pow2[k]
             q == w \div p
             r == w % p
  <2>1. k \in Nat /\ i = k + n
    BY <1>2
  <2>2. p \in Nat /\ p >= 1 /\ Pow2[n] \in Nat /\ Pow2[n] >= 1 /\ Pow2[i] = p * Pow2[n]
    BY <2>1, PowerAdd, PowerType
  <2>3. q \in Nat /\ r \in Nat /\ r < p /\ w = q * p + r
    BY <2>2, DivFacts
  <2> HIDE DEF q, r, k
  <2>4. Digit(k, w) = q % 2
    <3>1. q \in Int
      BY <2>3
    <3> QED BY <2>1, <2>3, <3>1, DigitIs
  <2> HIDE DEF p
  <2>5. w * Pow2[n] = q * Pow2[i] + r * Pow2[n]
    BY <2>2, <2>3
  <2>6. r * Pow2[n] \in Nat /\ r * Pow2[n] < Pow2[i]
    <3>1. r * Pow2[n] <= (p - 1) * Pow2[n]
      BY <2>2, <2>3, Times
    <3>2. (p - 1) * Pow2[n] = Pow2[i] - Pow2[n]
      BY <2>2
    <3> QED BY <2>2, <2>3, <3>1, <3>2
  <2>7. Digit(i, w * Pow2[n]) = q % 2
    BY <2>3, <2>5, <2>6, DigitIs
  <2> QED BY <1>2, <2>4, <2>7 DEF k
<1> QED BY <1>1, <1>2

(* The complement of a word has the other digit at every place. *)
LEMMA ComplementDigit ==
  ASSUME NEW n \in Nat, NEW i \in Nat, i < n, NEW w \in Nat, w < Pow2[n]
  PROVE  Digit(i, Pow2[n] - 1 - w) = 1 - Digit(i, w)
<1> DEFINE h == Pow2[n - i - 1]
           p == Pow2[i]
           q == w \div p
           r == w % p
<1>1. h \in Nat /\ p \in Nat /\ p >= 1 /\ Pow2[n] = (2 * h) * p
  BY PowerAbove, PowerType
<1>2. q \in Nat /\ r \in Nat /\ r < p /\ w = q * p + r
  BY <1>1, DivFacts
<1> HIDE DEF h, q, r
<1>3. Digit(i, w) = q % 2
  <2>1. q \in Int
    BY <1>2
  <2> QED BY <1>2, <2>1, DigitIs
<1>4. Pow2[n] - 1 - w = (2 * h - 1 - q) * p + (p - 1 - r)
  BY <1>1, <1>2
<1>5. Digit(i, Pow2[n] - 1 - w) = (2 * h - 1 - q) % 2
  <2>1. 2 * h - 1 - q \in Int /\ p - 1 - r \in Nat /\ p - 1 - r < p
    BY <1>1, <1>2
  <2> QED BY <1>4, <2>1, DigitIs
<1>6. (2 * h - 1 - q) % 2 = 1 - (q % 2)
  BY <1>1, <1>2
<1> QED BY <1>3, <1>5, <1>6

(* Above its length a number has zeros. *)
LEMMA HighDigit ==
  ASSUME NEW n \in Nat, NEW i \in Nat, n <= i, NEW w \in Nat, w < Pow2[n]
  PROVE  Digit(i, w) = 0
<1>1. Pow2[i] = Pow2[i - n] * Pow2[n]
  <2>1. i - n \in Nat /\ i = (i - n) + n
    OBVIOUS
  <2> QED BY <2>1, PowerAdd
<1>2. Pow2[i - n] \in Nat /\ Pow2[i - n] >= 1 /\ Pow2[n] \in Nat
  BY PowerType
<1>3. Pow2[n] <= Pow2[i]
  <2>1. 1 * Pow2[n] <= Pow2[i - n] * Pow2[n]
    BY <1>2, Times
  <2> QED BY <1>1, <1>2, <2>1
<1>4. w < Pow2[i] /\ Pow2[i] \in Nat
  BY <1>2, <1>3, PowerType
<1>5. w \div Pow2[i] = 0
  BY <1>4
<1> QED BY <1>5 DEF Digit

(* Numbers with the same digits are the same. *)
LEMMA SameDigits ==
  ASSUME NEW n \in Nat, NEW v \in Nat, v < Pow2[n], NEW w \in Nat, w < Pow2[n],
         \A i \in 0..(n - 1) : Digit(i, v) = Digit(i, w)
  PROVE  v = w
<1> DEFINE Alike(k, a, b) == \A i \in 0..(k - 1) : Digit(i, a) = Digit(i, b)
           Below(k) == {a \in Nat : a < Pow2[k]}
           Good == {k \in Nat : \A a, b \in Below(k) : Alike(k, a, b) => a = b}
<1>1. 0 \in Good
  BY PowerIs
<1>2. ASSUME NEW k \in Good PROVE k + 1 \in Good
  <2> SUFFICES ASSUME NEW a \in Below(k + 1), NEW b \in Below(k + 1), Alike(k + 1, a, b)
               PROVE  a = b
    OBVIOUS
  <2> DEFINE p == Pow2[k]
  <2>1. p \in Nat /\ p >= 1 /\ Pow2[k + 1] = 2 * p /\ k \in Nat /\ k \in 0..k
    BY PowerIs, PowerType
  <2>2. ASSUME NEW c \in Below(k + 1)
        PROVE  /\ c % p \in Below(k) /\ c = Digit(k, c) * p + (c % p)
               /\ \A i \in 0..(k - 1) : Digit(i, c % p) = Digit(i, c)
    <3> DEFINE q == c \div p
               r == c % p
    <3>1. q \in Nat /\ r \in Nat /\ r < p /\ c = q * p + r /\ c < 2 * p
      BY <2>1, DivFacts
    <3>2. ASSUME NEW i \in 0..(k - 1) PROVE Digit(i, r) = Digit(i, c)
      <4>1. i \in Nat /\ i < k
        BY <2>1
      <4> QED BY <2>1, <4>1, LowDigit
    <3> HIDE DEF q, r
    <3>3. q \in {0, 1}
      <4>1. ASSUME q >= 2 PROVE FALSE
        <5>1. 2 * p <= q * p
          BY <2>1, <3>1, <4>1, Times
        <5>2. q * p \in Nat
          BY <2>1, <3>1
        <5> QED BY <2>1, <3>1, <5>1, <5>2
      <4> QED BY <3>1, <4>1
    <3>4. Digit(k, c) = q
      BY <2>1, <3>1, <3>3, TopDigit
    <3>5. r \in Below(k)
      BY <3>1
    <3> QED BY <3>1, <3>2, <3>4, <3>5 DEF r
  <2> HIDE DEF p
  <2>3. Alike(k, a % p, b % p)
    BY <2>1, <2>2
  <2>4. a % p = b % p
    BY <2>2, <2>3
  <2>5. Digit(k, a) = Digit(k, b)
    BY <2>1
  <2>6. a = Digit(k, a) * p + (a % p) /\ b = Digit(k, b) * p + (b % p)
    BY <2>2
  <2> QED BY <2>4, <2>5, <2>6
<1> HIDE DEF Good
<1>3. Good \in SUBSET Nat
  BY DEF Good
<1>4. n \in Good
  BY <1>1, <1>2, <1>3, Inductive
<1> QED BY <1>4 DEF Good

(* A number made of digits has these digits, and no others. *)
LEMMA NumberIs ==
  ASSUME NEW n \in Nat, NEW d \in [0..(n - 1) -> {0, 1}]
  PROVE  /\ Number(n, d) \in Nat /\ Number(n, d) < Pow2[n]
         /\ \A i \in 0..(n - 1) : Digit(i, Number(n, d)) = d[i]
<1> DEFINE at(k) == IF k \in 0..(n - 1) THEN d[k] ELSE 0
           step == [k \in Nat |-> [v \in Nat |-> v + Pow2[k - 1] * at(k - 1)]]
           Body(f) == [k \in 0..n |-> IF k = 0 THEN 0 ELSE f[k - 1] + Pow2[k - 1] * d[k - 1]]
           g == CHOOSE f : f = Body(f)
<1>1. PICK f : Recurs(f, 0..n, Nat, 0, step)
  <2>1. ASSUME NEW k \in Nat \ {0}, NEW v \in Nat PROVE step[k][v] \in Nat
    <3>1. k - 1 \in Nat /\ at(k - 1) \in {0, 1}
      OBVIOUS
    <3> HIDE DEF at
    <3>2. Pow2[k - 1] \in Nat
      BY <3>1, PowerType
    <3>3. Pow2[k - 1] * at(k - 1) \in Nat
      BY <3>1, <3>2
    <3> QED BY <3>3
  <2> HIDE DEF step
  <2> QED BY <2>1, RecursUpTo
<1>2. ASSUME NEW k \in 0..n PROVE f[k] = IF k = 0 THEN 0 ELSE f[k - 1] + Pow2[k - 1] * d[k - 1]
  <2>1. CASE k = 0
    BY <1>1, <2>1 DEF Recurs
  <2>2. CASE k # 0
    <3>1. k \in Nat /\ k - 1 \in 0..(n - 1) /\ k - 1 \in 0..n /\ at(k - 1) = d[k - 1]
      BY <2>2
    <3>2. f[k] = step[k][f[k - 1]] /\ f[k - 1] \in Nat
      BY <1>1, <2>2, <3>1 DEF Recurs
    <3> HIDE DEF at
    <3> QED BY <2>2, <3>1, <3>2
  <2> QED BY <2>1, <2>2
<1>3. f = Body(f)
  <2>1. f = [k \in 0..n |-> f[k]]
    BY <1>1 DEF Recurs
  <2> QED BY <1>2, <2>1
<1>4. g = Body(g)
  BY <1>3
<1>5. Number(n, d) = g[n]
  BY DEF Number
<1> HIDE DEF g
<1>6. ASSUME NEW k \in 0..n PROVE g[k] = IF k = 0 THEN 0 ELSE g[k - 1] + Pow2[k - 1] * d[k - 1]
  BY <1>4
<1> DEFINE Good == {k \in Nat : k <= n =>
                      /\ g[k] \in Nat /\ g[k] < Pow2[k]
                      /\ \A i \in 0..(k - 1) : Digit(i, g[k]) = d[i]}
<1>7. 0 \in Good
  <2>1. g[0] = 0
    BY <1>6
  <2>2. g[0] \in Nat /\ g[0] < Pow2[0] /\ 0..(0 - 1) = {}
    BY <2>1, PowerIs
  <2> QED BY <2>2
<1>8. ASSUME NEW k \in Good PROVE k + 1 \in Good
  <2> SUFFICES ASSUME k + 1 <= n
               PROVE  /\ g[k + 1] \in Nat /\ g[k + 1] < Pow2[k + 1]
                      /\ \A i \in 0..k : Digit(i, g[k + 1]) = d[i]
    OBVIOUS
  <2> DEFINE p == Pow2[k]
  <2>1. /\ k \in Nat /\ k \in 0..(n - 1) /\ k + 1 \in 0..n /\ k + 1 # 0 /\ (k + 1) - 1 = k
        /\ g[k] \in Nat /\ g[k] < p
        /\ \A i \in 0..(k - 1) : Digit(i, g[k]) = d[i]
    OBVIOUS
  <2> HIDE DEF Good
  <2>2. p \in Nat /\ p >= 1 /\ Pow2[k + 1] = 2 * p
    BY <2>1, PowerIs, PowerType
  <2>3. d[k] \in {0, 1} /\ d[k] \in Int /\ g[k + 1] = g[k] + p * d[k]
    BY <1>6, <2>1
  <2>4. g[k + 1] = d[k] * p + g[k]
    BY <2>1, <2>2, <2>3
  <2>5. g[k + 1] \in Nat /\ g[k + 1] < 2 * p
    <3>1. g[k + 1] = g[k] \/ g[k + 1] = g[k] + p
      BY <2>1, <2>2, <2>3
    <3> QED BY <2>1, <2>2, <3>1
  <2>6. Digit(k, g[k + 1]) = d[k]
    BY <2>1, <2>3, <2>4, TopDigit
  <2>7. ASSUME NEW i \in 0..(k - 1) PROVE Digit(i, g[k + 1]) = d[i]
    <3>1. g[k + 1] % p = g[k]
      BY <2>1, <2>2, <2>3, <2>4, DivIs
    <3>2. i \in Nat /\ i < k
      BY <2>1
    <3>3. Digit(i, g[k + 1] % p) = Digit(i, g[k + 1])
      BY <2>1, <2>5, <3>2, LowDigit
    <3> QED BY <2>1, <3>1, <3>3
  <2>8. \A i \in 0..k : i = k \/ i \in 0..(k - 1)
    BY <2>1
  <2> HIDE DEF p
  <2> QED BY <2>2, <2>5, <2>6, <2>7, <2>8
<1>9. n \in Good
  <2> HIDE DEF Good
  <2>1. Good \in SUBSET Nat
    BY DEF Good
  <2> QED BY <1>7, <1>8, <2>1, Inductive
<1> QED BY <1>5, <1>9

-----------------------------------------------------------------------------
(* Words and the sets of their bits. *)

LEMMA WordIs ==
  /\ Width \in Nat /\ Width >= 1
  /\ \A w : w \in Words <=> w \in Nat /\ w < Pow2[Width]
  /\ \A i : i \in Positions <=> i \in Nat /\ i < Width
<1>1. Width \in Nat /\ Width >= 1
  BY WidthAssumption
<1> QED BY <1>1, PowerType DEF Words, Positions

LEMMA BitIs == \A w, i : i \in BitsOf(Width, w) <=> i \in Positions /\ Digit(i, w) = 1
BY DEF BitsOf, Positions

(* Only the word 0 has no bit. *)
LEMMA NoBits == \A w \in Words : w = 0 <=> BitsOf(Width, w) = {}
<1> SUFFICES ASSUME NEW w \in Words PROVE w = 0 <=> BitsOf(Width, w) = {}
  OBVIOUS
<1>1. ASSUME w = 0 PROVE BitsOf(Width, w) = {}
  BY <1>1, BitIs, WordIs, DigitOfZero
<1>2. ASSUME BitsOf(Width, w) = {} PROVE w = 0
  <2>1. ASSUME NEW i \in 0..(Width - 1) PROVE Digit(i, w) = Digit(i, 0)
    <3>1. i \in Nat /\ i \in Positions
      BY WordIs DEF Positions
    <3>2. Digit(i, w) # 1 /\ Digit(i, w) \in {0, 1}
      BY <1>2, <3>1, BitIs, WordIs, DigitType
    <3> QED BY <3>1, <3>2, DigitOfZero
  <2>2. 0 < Pow2[Width]
    BY WordIs, PowerType
  <2> QED BY <2>1, <2>2, WordIs, SameDigits
<1> QED BY <1>1, <1>2

LEMMA AndIs ==
  ASSUME NEW n \in Nat, NEW v \in Nat, NEW w \in Nat
  PROVE  /\ And(n, v, w) \in Nat /\ And(n, v, w) < Pow2[n]
         /\ \A i \in 0..(n - 1) : Digit(i, And(n, v, w)) = 1 <=> Digit(i, v) = 1 /\ Digit(i, w) = 1
<1> DEFINE d == [i \in 0..(n - 1) |-> Digit(i, v) * Digit(i, w)]
<1>1. \A i \in 0..(n - 1) : Digit(i, v) \in {0, 1} /\ Digit(i, w) \in {0, 1}
  <2>1. \A i \in 0..(n - 1) : i \in Nat
    OBVIOUS
  <2> QED BY <2>1, DigitType
<1>2. \A i \in 0..(n - 1) : /\ Digit(i, v) * Digit(i, w) \in {0, 1}
                            /\ Digit(i, v) * Digit(i, w) = 1 <=> Digit(i, v) = 1 /\ Digit(i, w) = 1
  BY <1>1
<1>3. d \in [0..(n - 1) -> {0, 1}]
  BY <1>2
<1>4. And(n, v, w) = Number(n, d)
  BY DEF And
<1>5. \A i \in 0..(n - 1) : d[i] = Digit(i, v) * Digit(i, w)
  OBVIOUS
<1> HIDE DEF d
<1> QED BY <1>2, <1>3, <1>4, <1>5, NumberIs

(* A number is the conjunction of two others if it has their common digits. *)
LEMMA AndSame ==
  ASSUME NEW n \in Nat, NEW v \in Nat, NEW w \in Nat, NEW u \in Nat, u < Pow2[n],
         \A i \in Nat : i < n => (Digit(i, u) = 1 <=> Digit(i, v) = 1 /\ Digit(i, w) = 1)
  PROVE  And(n, v, w) = u
<1> DEFINE a == And(n, v, w)
<1>1. /\ a \in Nat /\ a < Pow2[n]
      /\ \A i \in 0..(n - 1) : Digit(i, a) = 1 <=> Digit(i, v) = 1 /\ Digit(i, w) = 1
  BY AndIs
<1> HIDE DEF a
<1>2. ASSUME NEW i \in 0..(n - 1) PROVE Digit(i, a) = Digit(i, u)
  <2>1. i \in Nat /\ i < n
    OBVIOUS
  <2>2. Digit(i, a) = 1 <=> Digit(i, u) = 1
    BY <1>1, <2>1
  <2>3. Digit(i, a) \in {0, 1} /\ Digit(i, u) \in {0, 1}
    BY <1>1, <2>1, DigitType
  <2> QED BY <2>2, <2>3
<1>3. a = u
  BY <1>1, <1>2, SameDigits
<1> QED BY <1>3 DEF a

LEMMA OrIs ==
  ASSUME NEW n \in Nat, NEW v \in Nat, NEW w \in Nat
  PROVE  /\ Or(n, v, w) \in Nat /\ Or(n, v, w) < Pow2[n]
         /\ \A i \in 0..(n - 1) : Digit(i, Or(n, v, w)) = 1 <=> Digit(i, v) = 1 \/ Digit(i, w) = 1
<1> DEFINE or(i) == 1 - (1 - Digit(i, v)) * (1 - Digit(i, w))
           d == [i \in 0..(n - 1) |-> or(i)]
<1>1. \A i \in 0..(n - 1) : Digit(i, v) \in {0, 1} /\ Digit(i, w) \in {0, 1}
  <2>1. \A i \in 0..(n - 1) : i \in Nat
    OBVIOUS
  <2> QED BY <2>1, DigitType
<1>2. \A i \in 0..(n - 1) : /\ or(i) \in {0, 1}
                            /\ or(i) = 1 <=> Digit(i, v) = 1 \/ Digit(i, w) = 1
  BY <1>1
<1>3. Or(n, v, w) = Number(n, d)
  BY DEF Or
<1> HIDE DEF or
<1>4. d \in [0..(n - 1) -> {0, 1}] /\ \A i \in 0..(n - 1) : d[i] = or(i)
  BY <1>2
<1> HIDE DEF d
<1> QED BY <1>2, <1>3, <1>4, NumberIs

(* The operators `and' and `or' on words, and the complement, are those on *)
(* the sets of their bits.                                                 *)
LEMMA AndBits ==
  ASSUME NEW v \in Words, NEW w \in Words
  PROVE  (v & w) \in Words /\ BitsOf(Width, v & w) = BitsOf(Width, v) \cap BitsOf(Width, w)
<1>1. /\ Width \in Nat /\ v \in Nat /\ w \in Nat /\ (v & w) = And(Width, v, w)
      /\ Positions = 0..(Width - 1)
  BY WordIs DEF &, Positions
<1>2. (v & w) \in Nat /\ (v & w) < Pow2[Width]
  BY <1>1, AndIs
<1>3. \A i \in Positions : Digit(i, v & w) = 1 <=> Digit(i, v) = 1 /\ Digit(i, w) = 1
  <2>1. \A i \in 0..(Width - 1) :
           Digit(i, And(Width, v, w)) = 1 <=> Digit(i, v) = 1 /\ Digit(i, w) = 1
    BY <1>1, AndIs
  <2> QED BY <1>1, <2>1
<1> QED BY <1>2, <1>3, WordIs, BitIs

LEMMA OrBits ==
  ASSUME NEW v \in Words, NEW w \in Words
  PROVE  (v | w) \in Words /\ BitsOf(Width, v | w) = BitsOf(Width, v) \cup BitsOf(Width, w)
<1>1. /\ Width \in Nat /\ v \in Nat /\ w \in Nat /\ (v | w) = Or(Width, v, w)
      /\ Positions = 0..(Width - 1)
  BY WordIs DEF |, Positions
<1>2. (v | w) \in Nat /\ (v | w) < Pow2[Width]
  BY <1>1, OrIs
<1>3. \A i \in Positions : Digit(i, v | w) = 1 <=> Digit(i, v) = 1 \/ Digit(i, w) = 1
  <2>1. \A i \in 0..(Width - 1) :
           Digit(i, Or(Width, v, w)) = 1 <=> Digit(i, v) = 1 \/ Digit(i, w) = 1
    BY <1>1, OrIs
  <2> QED BY <1>1, <2>1
<1> QED BY <1>2, <1>3, WordIs, BitIs

LEMMA ComplementBits ==
  ASSUME NEW w \in Words
  PROVE  /\ complement(w) \in Words
         /\ BitsOf(Width, complement(w)) = Positions \ BitsOf(Width, w)
<1>1. complement(w) \in Words
  BY WordIs, PowerType DEF complement
<1>2. ASSUME NEW i \in Positions PROVE Digit(i, complement(w)) = 1 <=> Digit(i, w) # 1
  <2>1. Digit(i, complement(w)) = 1 - Digit(i, w)
    BY WordIs, ComplementDigit DEF complement
  <2>2. Digit(i, w) \in {0, 1}
    BY WordIs, DigitType
  <2> QED BY <2>1, <2>2
<1> QED BY <1>1, <1>2, BitIs

(* A shift to the left drops what leaves the word. *)
LEMMA ShlBits ==
  ASSUME NEW w \in Nat, NEW k \in Nat
  PROVE  /\ shl(w, k) \in Words
         /\ \A i : i \in BitsOf(Width, shl(w, k)) <=>
                    i \in Positions /\ i >= k /\ Digit(i - k, w) = 1
<1>1. w * Pow2[k] \in Nat /\ Pow2[Width] \in Nat /\ Pow2[Width] >= 1
  BY WordIs, PowerType
<1>2. shl(w, k) \in Words
  BY <1>1, WordIs, DivFacts DEF shl
<1>3. ASSUME NEW i \in Positions
      PROVE  Digit(i, shl(w, k)) = IF i < k THEN 0 ELSE Digit(i - k, w)
  <2>1. i \in Nat /\ i < Width
    BY WordIs
  <2>2. Digit(i, shl(w, k)) = Digit(i, w * Pow2[k])
    BY <1>1, <2>1, WordIs, LowDigit DEF shl
  <2> QED BY <2>1, <2>2, ShiftLeftDigit
<1> QED BY <1>2, <1>3, BitIs, WordIs

LEMMA ShrBits ==
  ASSUME NEW w \in Words, NEW k \in Nat
  PROVE  /\ shr(w, k) \in Words
         /\ \A i : i \in BitsOf(Width, shr(w, k)) <=> i \in Nat /\ i + k \in BitsOf(Width, w)
<1>1. w \in Nat /\ w < Pow2[Width] /\ Pow2[k] \in Nat /\ Pow2[k] >= 1
  BY WordIs, PowerType
<1>2. shr(w, k) \in Words
  <2> DEFINE q == w \div Pow2[k]
             r == w % Pow2[k]
  <2>1. q \in Nat /\ r \in Nat /\ w = q * Pow2[k] + r
    BY <1>1, DivFacts
  <2> HIDE DEF q, r
  <2>2. q <= q * Pow2[k]
    BY <1>1, <2>1
  <2>3. q * Pow2[k] \in Nat
    BY <1>1, <2>1
  <2>4. q \in Words
    BY <1>1, <2>1, <2>2, <2>3, WordIs, PowerType
  <2> QED BY <2>4 DEF q, shr
<1>3. ASSUME NEW i \in Nat PROVE Digit(i, shr(w, k)) = Digit(i + k, w)
  BY <1>1, ShiftRightDigit DEF shr
<1>4. ASSUME NEW i \in Nat, i >= Width PROVE Digit(i, w) = 0
  BY <1>1, <1>4, WordIs, HighDigit
<1>5. ASSUME NEW i \in Nat
      PROVE  i \in BitsOf(Width, shr(w, k)) <=> i + k \in BitsOf(Width, w)
  <2>1. i + k \in Nat
    OBVIOUS
  <2>2. i \in Positions /\ Digit(i + k, w) = 1 <=> i + k \in Positions /\ Digit(i + k, w) = 1
    BY <1>4, <2>1, WordIs
  <2> QED BY <1>3, <2>2, BitIs
<1>6. \A i : i \in BitsOf(Width, shr(w, k)) => i \in Nat
  BY BitIs, WordIs
<1> QED BY <1>2, <1>5, <1>6

(* 1 shifted to a position is that bit. *)
LEMMA OneBit ==
  ASSUME NEW k \in Positions
  PROVE  shl(1, k) \in Words /\ BitsOf(Width, shl(1, k)) = {k}
<1>1. k \in Nat
  BY WordIs
<1>2. Digit(0, 1) = 1
  <2>1. 1 = 1 * Pow2[0] + 0 /\ 0 < Pow2[0]
    BY PowerIs
  <2> QED BY <2>1, TopDigit
<1>3. ASSUME NEW i \in Nat, i >= 1 PROVE Digit(i, 1) = 0
  <2>1. 1 < Pow2[1]
    <3>1. Pow2[0 + 1] = 2 * Pow2[0] /\ 0 + 1 = 1
      BY PowerIs
    <3> QED BY <3>1, PowerIs
  <2> QED BY <1>3, <2>1, HighDigit
<1>4. ASSUME NEW i \in Positions PROVE i >= k /\ Digit(i - k, 1) = 1 <=> i = k
  <2>1. i \in Nat
    BY WordIs
  <2>2. CASE i > k
    <3>1. i - k \in Nat /\ i - k >= 1
      BY <1>1, <2>1, <2>2
    <3>2. Digit(i - k, 1) = 0
      BY <1>3, <3>1
    <3> QED BY <1>1, <2>1, <2>2, <3>2
  <2>3. CASE i = k
    <3>1. i - k = 0 /\ i >= k
      BY <1>1, <2>3
    <3> QED BY <1>2, <2>3, <3>1
  <2> QED BY <1>1, <2>1, <2>2, <2>3
<1>5. shl(1, k) \in Words
      /\ \A i : i \in BitsOf(Width, shl(1, k)) <=> i \in Positions /\ i >= k /\ Digit(i - k, 1) = 1
  BY <1>1, ShlBits
<1> QED BY <1>4, <1>5

(* The word of all bits, and the mask that is cut from it. *)
LEMMA MaskBits ==
  ASSUME NEW l \in Positions, NEW m \in l..(Width - 1)
  PROVE  bit_mask(m, l) \in Words /\ BitsOf(Width, bit_mask(m, l)) = l..m
<1> DEFINE all == Pow2[Width] - 1
           k == Width - ((m - l) + 1)
           low == shr(all, k)
<1>1. l \in Nat /\ m \in Nat /\ l <= m /\ m < Width /\ k \in Nat
  BY WordIs
<1>2. all \in Words /\ BitsOf(Width, all) = Positions
  <2>1. 0 \in Words /\ complement(0) = all
    BY WordIs, PowerType DEF complement
  <2> HIDE DEF all
  <2> QED BY <2>1, ComplementBits, NoBits
<1> HIDE DEF all
<1>3. low \in Words /\ \A i : i \in BitsOf(Width, low) <=> i \in Nat /\ i + k \in Positions
  BY <1>1, <1>2, ShrBits
<1>4. bit_mask(m, l) = shl(low, l)
  BY DEF bit_mask, all
<1> HIDE DEF low
<1>5. bit_mask(m, l) \in Words
      /\ \A i : i \in BitsOf(Width, bit_mask(m, l)) <=>
                 i \in Positions /\ i >= l /\ Digit(i - l, low) = 1
  BY <1>1, <1>3, <1>4, WordIs, ShlBits
<1>6. ASSUME NEW i \in Positions, i >= l PROVE Digit(i - l, low) = 1 <=> i <= m
  <2>1. i \in Nat /\ i < Width /\ i - l \in Nat /\ i - l \in Positions
    BY <1>1, <1>6, WordIs
  <2>2. Digit(i - l, low) = 1 <=> (i - l) + k \in Positions
    BY <1>3, <2>1, BitIs
  <2>3. (i - l) + k \in Positions <=> i <= m
    BY <1>1, <2>1, WordIs
  <2> QED BY <2>2, <2>3
<1>7. ASSUME NEW i PROVE i \in l..m <=> i \in Positions /\ i >= l /\ i <= m
  BY <1>1, WordIs
<1> QED BY <1>5, <1>6, <1>7

-----------------------------------------------------------------------------
(* The functions of the header. *)

(* bits_set gives a word whose bits are those of the list. *)
LEMMA BitsSet ==
  ASSUME NEW l \in Positions, NEW m \in Positions
  PROVE  BitsOf(Width, bits_set(<<m, l>>)) = {m, l}
<1> DEFINE idxs == <<m, l>>
           bit(k) == IF k = 1 THEN shl(1, m) ELSE shl(1, l)
           step == [k \in Nat |-> [v \in Words |-> bit(k) | v]]
           Body(f) == [k \in 0..Len(idxs) |-> IF k = 0 THEN 0 ELSE shl(1, idxs[k]) | f[k - 1]]
           g == CHOOSE f : f = Body(f)
<1>1. /\ \A k : bit(k) \in Words
      /\ BitsOf(Width, bit(1)) = {m} /\ BitsOf(Width, bit(2)) = {l}
      /\ 0 \in Words /\ BitsOf(Width, 0) = {}
  <2>1. 0 \in Words
    BY WordIs, PowerType
  <2> QED BY <2>1, OneBit, NoBits
<1>2. Len(idxs) = 2 /\ \A k \in 1..2 : shl(1, idxs[k]) = bit(k)
  OBVIOUS
<1> HIDE DEF bit, idxs
<1>3. PICK f : Recurs(f, 0..2, Words, 0, step)
  <2>1. \A k \in Nat \ {0} : \A v \in Words : step[k][v] \in Words
    BY <1>1, OrBits
  <2> HIDE DEF step
  <2> QED BY <1>1, <2>1, RecursUpTo
<1>4. ASSUME NEW k \in 0..2 PROVE f[k] = IF k = 0 THEN 0 ELSE shl(1, idxs[k]) | f[k - 1]
  <2>1. CASE k = 0
    BY <1>3, <2>1 DEF Recurs
  <2>2. CASE k # 0
    <3>1. k \in Nat /\ k \in 1..2 /\ k - 1 \in 0..2
      BY <2>2
    <3>2. f[k] = step[k][f[k - 1]] /\ f[k - 1] \in Words
      BY <1>3, <2>2, <3>1 DEF Recurs
    <3> QED BY <1>2, <2>2, <3>1, <3>2
  <2> QED BY <2>1, <2>2
<1>5. f = Body(f)
  <2>1. f = [k \in 0..2 |-> f[k]]
    BY <1>3 DEF Recurs
  <2> QED BY <1>2, <1>4, <2>1
<1>6. g = Body(g)
  BY <1>5
<1>7. bits_set(idxs) = g[Len(idxs)]
  BY DEF bits_set
<1> HIDE DEF g
<1>8. g[0] = 0 /\ g[1] = (bit(1) | g[0]) /\ g[2] = (bit(2) | g[1])
  <2>1. \A k \in 0..2 : g[k] = IF k = 0 THEN 0 ELSE shl(1, idxs[k]) | g[k - 1]
    BY <1>2, <1>6
  <2> QED BY <1>2, <2>1
<1>9. g[1] \in Words /\ BitsOf(Width, g[1]) = {m}
  BY <1>1, <1>8, OrBits
<1>10. BitsOf(Width, g[2]) = {m, l}
  BY <1>1, <1>8, <1>9, OrBits
<1> QED BY <1>2, <1>7, <1>10 DEF idxs

LEMMA SliceBits ==
  ASSUME NEW w \in Words, NEW l \in Positions, NEW m \in l..(Width - 1)
  PROVE  /\ bit_slice(m, l, w) \in Words
         /\ BitsOf(Width, bit_slice(m, l, w)) = B!bit_slice(m, l, BitsOf(Width, w))
<1> DEFINE cut == bit_mask(m, l) & w
<1>1. l \in Nat /\ cut \in Words /\ BitsOf(Width, cut) = (l..m) \cap BitsOf(Width, w)
  BY WordIs, MaskBits, AndBits
<1>2. bit_slice(m, l, w) = shr(cut, l)
  BY DEF bit_slice
<1> HIDE DEF cut
<1>3. bit_slice(m, l, w) \in Words
      /\ \A i : i \in BitsOf(Width, bit_slice(m, l, w)) <=>
                 i \in Nat /\ i + l \in BitsOf(Width, cut)
  BY <1>1, <1>2, ShrBits
<1>4. ASSUME NEW i PROVE i \in Nat /\ i + l \in (l..m) \cap BitsOf(Width, w)
                          <=> i \in {b - l : b \in BitsOf(Width, w) \cap l..m}
  <2>1. ASSUME i \in Nat, i + l \in (l..m) \cap BitsOf(Width, w)
        PROVE  \E b \in BitsOf(Width, w) \cap l..m : i = b - l
    <3>1. i = (i + l) - l
      BY <1>1, <2>1
    <3> QED BY <2>1, <3>1
  <2>2. ASSUME NEW b \in BitsOf(Width, w) \cap l..m, i = b - l
        PROVE  i \in Nat /\ i + l \in (l..m) \cap BitsOf(Width, w)
    <3>1. b \in Nat /\ i \in Nat /\ i + l = b
      BY <1>1, <2>2
    <3> QED BY <2>2, <3>1
  <2> QED BY <2>1, <2>2
<1>5. B!bit_slice(m, l, BitsOf(Width, w)) = {b - l : b \in BitsOf(Width, w) \cap l..m}
  BY DEF B!bit_slice, B!bit_mask
<1> QED BY <1>1, <1>3, <1>4, <1>5

LEMMA InjectBits ==
  ASSUME NEW w \in Words, NEW val \in Words, NEW l \in Positions, NEW m \in l..(Width - 1)
  PROVE  /\ bit_slice_inject(m, l, w, val) \in Words
         /\ BitsOf(Width, bit_slice_inject(m, l, w, val)) =
              B!bit_slice_inject(m, l, BitsOf(Width, w), BitsOf(Width, val))
<1> DEFINE mask == bit_mask(m, l)
           moved == shl(val, l)
<1>1. /\ l \in Nat /\ m \in Nat
      /\ mask \in Words /\ BitsOf(Width, mask) = l..m /\ l..m \subseteq Positions
  BY WordIs, MaskBits
<1>2. /\ moved \in Words
      /\ \A i : i \in BitsOf(Width, moved) <=> i \in Positions /\ i >= l /\ Digit(i - l, val) = 1
  BY <1>1, WordIs, ShlBits
<1>3. bit_slice_inject(m, l, w, val) = ((moved & mask) | (w & complement(mask)))
  BY DEF bit_slice_inject
<1> HIDE DEF mask, moved
<1>4. (moved & mask) \in Words /\ BitsOf(Width, moved & mask) = BitsOf(Width, moved) \cap l..m
  BY <1>1, <1>2, AndBits
<1>5. complement(mask) \in Words /\ BitsOf(Width, complement(mask)) = Positions \ (l..m)
  BY <1>1, ComplementBits
<1>6. (w & complement(mask)) \in Words
      /\ BitsOf(Width, w & complement(mask)) = BitsOf(Width, w) \ (l..m)
  <2>1. BitsOf(Width, w) \subseteq Positions
    BY BitIs
  <2> QED BY <1>5, <2>1, AndBits
<1>7. BitsOf(Width, moved) \cap l..m = {b + l : b \in BitsOf(Width, val)} \cap l..m
  <2>1. ASSUME NEW i \in l..m
        PROVE  i \in BitsOf(Width, moved) <=> \E b \in BitsOf(Width, val) : i = b + l
    <3>1. i \in Positions /\ i >= l /\ i - l \in Positions /\ i = (i - l) + l
      BY <1>1, WordIs
    <3>2. i \in BitsOf(Width, moved) <=> i - l \in BitsOf(Width, val)
      BY <1>2, <3>1, BitIs
    <3>3. ASSUME NEW b \in BitsOf(Width, val), i = b + l PROVE b = i - l
      <4>1. b \in Nat
        BY BitIs, WordIs
      <4> QED BY <1>1, <3>3, <4>1
    <3> QED BY <3>1, <3>2, <3>3
  <2> QED BY <2>1
<1>8. /\ bit_slice_inject(m, l, w, val) \in Words
      /\ BitsOf(Width, bit_slice_inject(m, l, w, val)) =
           ({b + l : b \in BitsOf(Width, val)} \cap l..m) \cup (BitsOf(Width, w) \ (l..m))
  BY <1>3, <1>4, <1>6, <1>7, OrBits
<1> QED BY <1>8 DEF B!bit_slice_inject, B!bit_mask

LEMMA BitOperators ==
  ASSUME NEW w \in Words, NEW l \in Positions
  PROVE  /\ bit_n(l, w) <=> l \in BitsOf(Width, w)
         /\ bit_n_set(l, w) \in Words /\ BitsOf(Width, bit_n_set(l, w)) = BitsOf(Width, w) \cup {l}
         /\ bit_n_reset(l, w) \in Words
         /\ BitsOf(Width, bit_n_reset(l, w)) = BitsOf(Width, w) \ {l}
<1>1. shl(1, l) \in Words /\ BitsOf(Width, shl(1, l)) = {l}
  BY OneBit
<1>2. bit_n(l, w) <=> l \in BitsOf(Width, w)
  <2>1. (w & shl(1, l)) \in Words
        /\ BitsOf(Width, w & shl(1, l)) = BitsOf(Width, w) \cap {l}
    BY <1>1, AndBits
  <2>2. (w & shl(1, l)) = 0 <=> BitsOf(Width, w) \cap {l} = {}
    BY <2>1, NoBits
  <2> QED BY <2>2 DEF bit_n
<1>3. bit_n_set(l, w) \in Words /\ BitsOf(Width, bit_n_set(l, w)) = BitsOf(Width, w) \cup {l}
  BY <1>1, OrBits DEF bit_n_set
<1>4. /\ bit_n_reset(l, w) \in Words
      /\ BitsOf(Width, bit_n_reset(l, w)) = BitsOf(Width, w) \ {l}
  <2>1. complement(shl(1, l)) \in Words /\ BitsOf(Width, complement(shl(1, l))) = Positions \ {l}
    BY <1>1, ComplementBits
  <2>2. BitsOf(Width, w) \subseteq Positions
    BY BitIs
  <2> QED BY <2>1, <2>2, AndBits DEF bit_n_reset
<1> QED BY <1>2, <1>3, <1>4

-----------------------------------------------------------------------------

(* The register holds a word. *)
WordOK == word \in Words

LEMMA WordStays == Spec => []WordOK
<1>1. Init => WordOK
  BY WordIs, PowerType DEF Init, WordOK
<1>2. WordOK /\ [Next]_word => WordOK'
  <2> SUFFICES ASSUME WordOK, [Next]_word PROVE WordOK'
    OBVIOUS
  <2> USE DEF WordOK
  <2>1. ASSUME NEW n \in Positions, word' = bit_n_set(n, word) PROVE WordOK'
    BY <2>1, BitOperators
  <2>2. ASSUME NEW n \in Positions, word' = bit_n_reset(n, word) PROVE WordOK'
    BY <2>2, BitOperators
  <2>3. ASSUME NEW l \in Positions, NEW m \in l..(Width - 1), word' = bit_slice(m, l, word)
        PROVE  WordOK'
    BY <2>3, SliceBits
  <2>4. ASSUME NEW l \in Positions, NEW m \in l..(Width - 1), NEW val \in Words,
               word' = bit_slice_inject(m, l, word, val)
        PROVE  WordOK'
    BY <2>4, InjectBits
  <2>5. CASE UNCHANGED word
    BY <2>5
  <2> QED BY <2>1, <2>2, <2>3, <2>4, <2>5 DEF Next
<1> QED BY <1>1, <1>2, PTL DEF Spec

(* The functions of the header, on words of any width, are those on sets   *)
(* that the other modules use, and give words again.                       *)
THEOREM OperatorsCorrect == Spec => []OperatorsMatch
<1> USE DEF WordOK
<1>1. WordOK => ReadsMatch
  <2> SUFFICES ASSUME WordOK PROVE ReadsMatch
    OBVIOUS
  <2>1. ASSUME NEW l \in Positions, NEW m \in l..(Width - 1)
        PROVE  /\ BitsOf(Width, bit_mask(m, l)) = B!bit_mask(m, l)
               /\ BitsOf(Width, bits_set(<<m, l>>)) = {m, l}
               /\ BitsOf(Width, bit_slice(m, l, word)) = B!bit_slice(m, l, BitsOf(Width, word))
    <3>1. m \in Positions
      BY WordIs
    <3> QED BY <3>1, MaskBits, BitsSet, SliceBits DEF B!bit_mask
  <2>2. ASSUME NEW l \in Positions PROVE bit_n(l, word) <=> B!bit_n(l, BitsOf(Width, word))
    BY BitOperators DEF B!bit_n
  <2> QED BY <2>1, <2>2 DEF ReadsMatch
<1>2. WordOK => WritesMatch
  BY BitOperators, InjectBits DEF WritesMatch, B!bit_n_set, B!bit_n_reset
<1>3. WordOK => OperatorsMatch
  BY <1>1, <1>2 DEF OperatorsMatch
<1> HIDE DEF WordOK
<1> QED BY <1>3, WordStays, PTL

-----------------------------------------------------------------------------
(* The least bit. *)

LEMMA PowersOfTwo ==
  /\ Pow2[0] = 1 /\ Pow2[1] = 2 /\ Pow2[2] = 4 /\ Pow2[3] = 8 /\ Pow2[4] = 16
  /\ Pow2[5] = 32 /\ Pow2[6] = 64 /\ Pow2[7] = 128 /\ Pow2[8] = 256
  /\ Pow2[9] = 512 /\ Pow2[10] = 1024 /\ Pow2[11] = 2048 /\ Pow2[12] = 4096
  /\ Pow2[13] = 8192 /\ Pow2[14] = 16384 /\ Pow2[15] = 32768 /\ Pow2[16] = 65536
<1>1. \A n \in Nat : Pow2[n + 1] = 2 * Pow2[n]
  BY PowerIs
<1>2. Pow2[0] = 1 /\ Pow2[1] = 2 /\ Pow2[2] = 4 /\ Pow2[3] = 8 /\ Pow2[4] = 16
  BY <1>1, PowerIs
<1>3. Pow2[5] = 32 /\ Pow2[6] = 64 /\ Pow2[7] = 128 /\ Pow2[8] = 256
  BY <1>1, <1>2
<1>4. Pow2[9] = 512 /\ Pow2[10] = 1024 /\ Pow2[11] = 2048 /\ Pow2[12] = 4096
  BY <1>1, <1>3
<1>5. Pow2[13] = 8192 /\ Pow2[14] = 16384 /\ Pow2[15] = 32768 /\ Pow2[16] = 65536
  BY <1>1, <1>4
<1> QED BY <1>2, <1>3, <1>4, <1>5

(* The digits of an odd number above the first are those of its half. *)
LEMMA OddDigits ==
  ASSUME NEW s \in Nat, NEW j \in Nat
  PROVE  Digit(j + 1, 2 * s + 1) = Digit(j, s)
<1> DEFINE x == 2 * s + 1
<1>1. Pow2[j + 1] = 2 * Pow2[j] /\ Pow2[j] \in Nat /\ Pow2[j] >= 1
  BY PowerIs, PowerType
<1>2. x \in Nat /\ x \div 2 = s
  OBVIOUS
<1> HIDE DEF x
<1>3. (x \div 2) \div Pow2[j] = x \div (2 * Pow2[j])
  <2>1. 2 \in Nat /\ 2 >= 1
    OBVIOUS
  <2> QED BY <1>1, <1>2, <2>1, DivDiv
<1>4. x \div Pow2[j + 1] = s \div Pow2[j]
  BY <1>1, <1>2, <1>3
<1>5. Digit(j + 1, x) = Digit(j, s)
  BY <1>4 DEF Digit
<1> QED BY <1>5 DEF x

(* A word and its negative have one bit in common, the least: below it     *)
(* neither has a bit, above it each has the bits the other lacks.          *)
LEMMA LeastInCommon ==
  ASSUME NEW w \in Nat, w # 0, w < Pow2[16]
  PROVE  \E k \in 0..15 : /\ k \in BitsOf(16, w) /\ \A i \in BitsOf(16, w) : k <= i
                          /\ LSB_MASK(w) = Pow2[k]
<1> DEFINE c == Pow2[16] - w
<1>1. c \in Nat /\ c < Pow2[16] /\ Pow2[16] \in Nat /\ c % Pow2[16] = c
  <2>1. Pow2[16] = 65536
    BY PowersOfTwo
  <2> QED BY <2>1
<1>2. \E i \in 0..15 : Digit(i, w) = 1
  <2> SUFFICES ASSUME \A i \in 0..15 : Digit(i, w) # 1 PROVE w = 0
    BY <1>1
  <2>1. ASSUME NEW i \in 0..(16 - 1) PROVE Digit(i, w) = Digit(i, 0)
    <3>1. i \in Nat /\ i \in 0..15
      OBVIOUS
    <3> QED BY <1>1, <3>1, DigitType, DigitOfZero
  <2>2. 0 < Pow2[16]
    BY PowersOfTwo
  <2> QED BY <1>1, <2>1, <2>2, SameDigits
<1>3. PICK k \in 0..15 : Digit(k, w) = 1 /\ \A i \in 0..15 : Digit(i, w) = 1 => k <= i
  <2> DEFINE S == {i \in 0..15 : Digit(i, w) = 1}
  <2>1. S \subseteq Nat /\ S # {}
    BY <1>2
  <2>2. \E i \in S : \A j \in S : i <= j
    BY <2>1, LeastNumber
  <2> QED BY <2>2
<1>4. /\ k \in Nat /\ k < 16
      /\ \A i \in BitsOf(16, w) : i \in 0..15 /\ Digit(i, w) = 1
      /\ k \in BitsOf(16, w)
  BY <1>3 DEF BitsOf
<1> DEFINE p == Pow2[k]
           h == Pow2[15 - k]
           q == w \div p
           s == q \div 2
           t == h - 1 - s
<1>5. /\ p \in Nat /\ p >= 1 /\ h \in Nat /\ h >= 1 /\ 15 - k \in Nat
      /\ Pow2[16] = (2 * h) * p
  <2>1. 16 - k - 1 = 15 - k /\ 15 - k \in Nat /\ 16 \in Nat
    BY <1>4
  <2>2. Pow2[16] = (2 * Pow2[16 - k - 1]) * Pow2[k]
    BY <1>4, <2>1, PowerAbove
  <2> QED BY <1>4, <2>1, <2>2, PowerType
<1>6. q \in Nat /\ w = q * p
  <2>1. ASSUME NEW i \in 0..(k - 1) PROVE Digit(i, w % p) = Digit(i, 0)
    <3>1. i \in Nat /\ i < k /\ i \in 0..15 /\ ~(k <= i)
      BY <1>4
    <3> QED BY <1>3, <1>4, <3>1, LowDigit, DigitType, DigitOfZero
  <2> HIDE DEF p
  <2> DEFINE r == w % p
  <2>2. q \in Nat /\ r \in Nat /\ r < p /\ w = q * p + r
    BY <1>5, DivFacts
  <2>3. 0 < p
    BY <1>5
  <2> HIDE DEF q
  <2>4. r = 0
    BY <1>4, <2>1, <2>2, <2>3, SameDigits DEF p
  <2> HIDE DEF r
  <2>5. q * p \in Nat
    BY <1>5, <2>2
  <2> QED BY <2>2, <2>4, <2>5
<1>7. s \in Nat /\ q = 2 * s + 1
  BY <1>3, <1>6 DEF Digit
<1> HIDE DEF p, h, q, s
<1>8. t \in Nat /\ s < h /\ c = (2 * t + 1) * p
  <2>1. c = ((2 * h) * p) - (q * p) /\ (q * p) < (2 * h) * p
    BY <1>1, <1>5, <1>6 DEF c
  <2>2. q < 2 * h
    <3>1. 2 * h <= q => (2 * h) * p <= q * p
      BY <1>5, <1>6, Times
    <3>2. (2 * h) * p \in Int /\ q * p \in Int /\ q \in Int /\ 2 * h \in Int
      BY <1>5, <1>6
    <3> QED BY <2>1, <3>1, <3>2
  <2>3. t \in Nat /\ s < h
    BY <1>5, <1>7, <2>2
  <2>4. 2 * t + 1 = (2 * h) - q
    BY <1>5, <1>7
  <2>5. ((2 * h) - q) * p = ((2 * h) * p) - (q * p)
    BY <1>5, <1>6
  <2> QED BY <2>1, <2>3, <2>4, <2>5
<1> HIDE DEF c, t
<1>9. ASSUME NEW i \in Nat, i < k
      PROVE  Digit(i, w) = 0 /\ Digit(i, p) = 0
  <2>1. Digit(i, q * p) = 0 /\ Digit(i, 1 * p) = 0
    BY <1>4, <1>6, <1>9, ShiftLeftDigit DEF p
  <2>2. 1 * p = p
    BY <1>5
  <2> QED BY <1>6, <2>1, <2>2
<1>10. Digit(k, w) = 1 /\ Digit(k, c) = 1 /\ Digit(k, p) = 1
  <2>1. 2 * t + 1 \in Int /\ (2 * t + 1) % 2 = 1
    BY <1>8
  <2>2. c = (2 * t + 1) * p + 0 /\ p = 1 * p + 0 /\ 0 < p
    BY <1>5, <1>8, <2>1
  <2>3. Digit(k, c) = (2 * t + 1) % 2
    BY <1>4, <2>1, <2>2, DigitIs DEF p
  <2>4. Digit(k, p) = 1
    BY <1>4, <2>2, TopDigit DEF p
  <2> QED BY <1>3, <2>1, <2>3, <2>4
<1>11. ASSUME NEW i \in Nat, k < i, i < 16
       PROVE  Digit(i, c) = 1 - Digit(i, w) /\ Digit(i, p) = 0
  <2> DEFINE j == i - k - 1
  <2>1. j \in Nat /\ j < 15 - k /\ i - k = j + 1 /\ ~(i < k) /\ 1 <= i - k /\ i - k \in Nat
    BY <1>4, <1>11
  <2> HIDE DEF j
  <2>2. ASSUME NEW x \in Nat PROVE Digit(i, x * p) = Digit(i - k, x)
    BY <1>4, <2>1, ShiftLeftDigit DEF p
  <2>3. Digit(i, w) = Digit(j, s) /\ Digit(i, c) = Digit(j, t)
    <3>1. q \in Nat /\ 2 * t + 1 \in Nat
      BY <1>6, <1>8
    <3>2. Digit(i, w) = Digit(j + 1, q) /\ Digit(i, c) = Digit(j + 1, 2 * t + 1)
      BY <1>6, <1>8, <2>1, <2>2, <3>1
    <3> QED BY <1>7, <1>8, <2>1, <3>2, OddDigits
  <2>4. Digit(j, t) = 1 - Digit(j, s)
    <3>1. s < Pow2[15 - k] /\ t = Pow2[15 - k] - 1 - s
      BY <1>8 DEF h, t
    <3> QED BY <1>5, <1>7, <2>1, <3>1, ComplementDigit
  <2>5. Digit(i - k, 1) = 0
    <3>1. 1 < Pow2[1]
      BY PowersOfTwo
    <3> QED BY <2>1, <3>1, HighDigit
  <2>6. 1 * p = p /\ 1 \in Nat
    BY <1>5
  <2> QED BY <2>2, <2>3, <2>4, <2>5, <2>6
<1>12. And(16, w, c) = p
  <2>1. ASSUME NEW i \in Nat, i < 16
        PROVE  Digit(i, p) = 1 <=> Digit(i, w) = 1 /\ Digit(i, c) = 1
    <3>1. i < k \/ i = k \/ k < i
      BY <1>4
    <3>2. Digit(i, w) \in {0, 1}
      BY DigitType
    <3> QED BY <1>9, <1>10, <1>11, <2>1, <3>1, <3>2
  <2>2. p < Pow2[16]
    <3>1. 2 * p <= (2 * h) * p
      BY <1>5, Times
    <3> QED BY <1>5, <3>1
  <2>3. 16 \in Nat /\ p \in Nat
    BY <1>5
  <2> QED BY <1>1, <2>1, <2>2, <2>3, AndSame
<1>13. LSB_MASK(w) = Pow2[k]
  BY <1>1, <1>12 DEF LSB_MASK, p, c
<1>14. \A i \in BitsOf(16, w) : k <= i
  BY <1>3, <1>4
<1> QED BY <1>4, <1>13, <1>14

(* The key of each power of two leads to its own entry of the table. *)
LEMMA CycleTable ==
  ASSUME NEW k \in 0..15, NEW w, LSB_MASK(w) = Pow2[k]
  PROVE  bit_lsb(w) = k
<1>1. ASSUME k = 0 PROVE LSB_CYCLE_KEY(w) = 0 /\ LSB_CYCLE_TABLE[1] = 0
  BY <1>1, PowersOfTwo DEF LSB_CYCLE_KEY, MAGICK_CYCLE_NUM, LSB_CYCLE_TABLE
<1>2. ASSUME k = 1 PROVE LSB_CYCLE_KEY(w) = 1 /\ LSB_CYCLE_TABLE[2] = 1
  BY <1>2, PowersOfTwo DEF LSB_CYCLE_KEY, MAGICK_CYCLE_NUM, LSB_CYCLE_TABLE
<1>3. ASSUME k = 2 PROVE LSB_CYCLE_KEY(w) = 2 /\ LSB_CYCLE_TABLE[3] = 2
  BY <1>3, PowersOfTwo DEF LSB_CYCLE_KEY, MAGICK_CYCLE_NUM, LSB_CYCLE_TABLE
<1>4. ASSUME k = 3 PROVE LSB_CYCLE_KEY(w) = 4 /\ LSB_CYCLE_TABLE[5] = 3
  BY <1>4, PowersOfTwo DEF LSB_CYCLE_KEY, MAGICK_CYCLE_NUM, LSB_CYCLE_TABLE
<1>5. ASSUME k = 4 PROVE LSB_CYCLE_KEY(w) = 9 /\ LSB_CYCLE_TABLE[10] = 4
  BY <1>5, PowersOfTwo DEF LSB_CYCLE_KEY, MAGICK_CYCLE_NUM, LSB_CYCLE_TABLE
<1>6. ASSUME k = 5 PROVE LSB_CYCLE_KEY(w) = 3 /\ LSB_CYCLE_TABLE[4] = 5
  BY <1>6, PowersOfTwo DEF LSB_CYCLE_KEY, MAGICK_CYCLE_NUM, LSB_CYCLE_TABLE
<1>7. ASSUME k = 6 PROVE LSB_CYCLE_KEY(w) = 6 /\ LSB_CYCLE_TABLE[7] = 6
  BY <1>7, PowersOfTwo DEF LSB_CYCLE_KEY, MAGICK_CYCLE_NUM, LSB_CYCLE_TABLE
<1>8. ASSUME k = 7 PROVE LSB_CYCLE_KEY(w) = 13 /\ LSB_CYCLE_TABLE[14] = 7
  BY <1>8, PowersOfTwo DEF LSB_CYCLE_KEY, MAGICK_CYCLE_NUM, LSB_CYCLE_TABLE
<1>9. ASSUME k = 8 PROVE LSB_CYCLE_KEY(w) = 10 /\ LSB_CYCLE_TABLE[11] = 8
  BY <1>9, PowersOfTwo DEF LSB_CYCLE_KEY, MAGICK_CYCLE_NUM, LSB_CYCLE_TABLE
<1>10. ASSUME k = 9 PROVE LSB_CYCLE_KEY(w) = 5 /\ LSB_CYCLE_TABLE[6] = 9
  BY <1>10, PowersOfTwo DEF LSB_CYCLE_KEY, MAGICK_CYCLE_NUM, LSB_CYCLE_TABLE
<1>11. ASSUME k = 10 PROVE LSB_CYCLE_KEY(w) = 11 /\ LSB_CYCLE_TABLE[12] = 10
  BY <1>11, PowersOfTwo DEF LSB_CYCLE_KEY, MAGICK_CYCLE_NUM, LSB_CYCLE_TABLE
<1>12. ASSUME k = 11 PROVE LSB_CYCLE_KEY(w) = 7 /\ LSB_CYCLE_TABLE[8] = 11
  BY <1>12, PowersOfTwo DEF LSB_CYCLE_KEY, MAGICK_CYCLE_NUM, LSB_CYCLE_TABLE
<1>13. ASSUME k = 12 PROVE LSB_CYCLE_KEY(w) = 15 /\ LSB_CYCLE_TABLE[16] = 12
  BY <1>13, PowersOfTwo DEF LSB_CYCLE_KEY, MAGICK_CYCLE_NUM, LSB_CYCLE_TABLE
<1>14. ASSUME k = 13 PROVE LSB_CYCLE_KEY(w) = 14 /\ LSB_CYCLE_TABLE[15] = 13
  BY <1>14, PowersOfTwo DEF LSB_CYCLE_KEY, MAGICK_CYCLE_NUM, LSB_CYCLE_TABLE
<1>15. ASSUME k = 14 PROVE LSB_CYCLE_KEY(w) = 12 /\ LSB_CYCLE_TABLE[13] = 14
  BY <1>15, PowersOfTwo DEF LSB_CYCLE_KEY, MAGICK_CYCLE_NUM, LSB_CYCLE_TABLE
<1>16. ASSUME k = 15 PROVE LSB_CYCLE_KEY(w) = 8 /\ LSB_CYCLE_TABLE[9] = 15
  BY <1>16, PowersOfTwo DEF LSB_CYCLE_KEY, MAGICK_CYCLE_NUM, LSB_CYCLE_TABLE
<1> QED BY <1>1, <1>2, <1>3, <1>4, <1>5, <1>6, <1>7, <1>8, <1>9,
           <1>10, <1>11, <1>12, <1>13, <1>14, <1>15, <1>16 DEF bit_lsb

LEMMA LsbIs ==
  ASSUME NEW w \in Nat, w < Pow2[16], w # 0
  PROVE  bit_lsb(w) = B!bit_lsb(BitsOf(16, w))
<1>1. PICK k \in 0..15 : /\ k \in BitsOf(16, w) /\ \A i \in BitsOf(16, w) : k <= i
                         /\ LSB_MASK(w) = Pow2[k]
  BY LeastInCommon
<1>2. bit_lsb(w) = k
  BY <1>1, CycleTable
<1>3. \A i \in BitsOf(16, w) : i \in Nat
  BY DEF BitsOf
<1>4. B!bit_lsb(BitsOf(16, w)) = k
  <2> DEFINE S == BitsOf(16, w)
             least == CHOOSE b \in S : \A c \in S : b <= c
  <2>1. k \in S /\ \A i \in S : k <= i /\ i \in Nat
    BY <1>1, <1>3
  <2> HIDE DEF S
  <2>2. least \in S /\ \A c \in S : least <= c
    BY <2>1
  <2> HIDE DEF least
  <2>3. least = k
    BY <2>1, <2>2
  <2>4. B!bit_lsb(S) = least
    BY <2>1 DEF B!bit_lsb, least
  <2> QED BY <2>3, <2>4 DEF S
<1> QED BY <1>2, <1>4

(* The product with the cycle number and the table find the least bit of   *)
(* every word of 16 bits but 0, whatever the width of the register it is   *)
(* cut from.                                                               *)
THEOREM LsbCorrect == Spec => []LsbMatches
<1>1. WordOK => LsbMatches
  <2> SUFFICES ASSUME WordOK, NEW high \in 0..(Pow2[16] \div Pow2[Width])
               PROVE  LET w == (high * Pow2[Width] + word) % Pow2[16]
                      IN  w # 0 => bit_lsb(w) = B!bit_lsb(BitsOf(16, w))
    BY DEF LsbMatches
  <2>1. word \in Nat /\ Pow2[Width] \in Nat /\ high \in Nat
    BY WordIs, PowerType DEF WordOK
  <2>2. high * Pow2[Width] + word \in Nat
    BY <2>1
  <2> DEFINE w == (high * Pow2[Width] + word) % Pow2[16]
  <2>3. w \in Nat /\ w < Pow2[16]
    BY <2>2, PowerType, DivFacts
  <2> HIDE DEF w
  <2>4. w # 0 => bit_lsb(w) = B!bit_lsb(BitsOf(16, w))
    BY <2>3, LsbIs
  <2> QED BY <2>4 DEF w
<1> QED BY <1>1, WordStays, PTL

-----------------------------------------------------------------------------
(* The clocks. *)


(* The counter is what the last action left of its price after the cycles  *)
(* given since, and what a device paid is covered by what it was given and *)
(* what it still owes.                                                     *)
Settled(d) == counter[d] = Lesser(since[d] - owed[d], 0)

Covered(d) == paid[d] <= given - counter[d]

IInv == TypeOK /\ \A d \in Devices : Settled(d) /\ Covered(d)

-----------------------------------------------------------------------------

(* A round works off debt and gives no credit. *)
LEMMA SteppedFacts ==
  ASSUME NEW c \in (-MaxDebt)..0, NEW ccls \in Nat
  PROVE  /\ stepped(c, ccls) \in (-MaxDebt)..0
         /\ stepped(c, ccls) <= c + ccls
  BY MaxDebtAssumption DEF stepped, Lesser

(* Two clamped rounds are one: clamping on the way loses nothing of a debt. *)
LEMMA SteppedSettles ==
  ASSUME NEW s \in Nat, NEW o \in Nat, NEW ccls \in Nat
  PROVE  stepped(Lesser(s - o, 0), ccls) = Lesser((s + ccls) - o, 0)
  BY DEF stepped, Lesser

LEMMA InvInit == ClockInit => IInv
<1> SUFFICES ASSUME ClockInit PROVE IInv
  OBVIOUS
<1>1. ASSUME NEW d \in Devices
      PROVE  /\ counter[d] \in (-MaxDebt)..0
             /\ - counter[d] \in Nat
  <2>1. counter[d] \in InitVals
    BY DEF ClockInit
  <2>2. counter[d] \in Int /\ counter[d] <= 0
    BY <2>1, InitValsAssumption
  <2>3. - counter[d] <= MaxDebt
    BY <2>1, MaxDebtAssumption
  <2> QED
    BY <2>2, <2>3, MaxDebtAssumption
<1>2. TypeOK
  <2>1. counter \in [Devices -> (-MaxDebt)..0]
    BY <1>1 DEF ClockInit
  <2>2. owed \in [Devices -> Nat]
    BY <1>1 DEF ClockInit
  <2>3. given \in 0..MaxTime
    BY MaxTimeAssumption DEF ClockInit
  <2>4. paid \in [Devices -> Nat] /\ since \in [Devices -> Nat]
    BY DEF ClockInit
  <2> QED
    BY <2>1, <2>2, <2>3, <2>4 DEF TypeOK
<1>3. ASSUME NEW d \in Devices PROVE Settled(d) /\ Covered(d)
  <2>1. given = 0 /\ paid[d] = 0 /\ since[d] = 0 /\ owed[d] = - counter[d]
    BY DEF ClockInit
  <2> QED
    BY <1>1, <2>1 DEF Settled, Covered, Lesser
<1> QED
  BY <1>2, <1>3 DEF IInv

LEMMA InvStep == IInv /\ [ClockNext]_vars => IInv'
<1> SUFFICES ASSUME IInv, [ClockNext]_vars PROVE IInv'
  OBVIOUS
<1>t. TypeOK
  BY DEF IInv
<1>d. ASSUME NEW d \in Devices
      PROVE  /\ counter[d] \in (-MaxDebt)..0 /\ paid[d] \in Nat
             /\ owed[d] \in Nat /\ since[d] \in Nat
             /\ Settled(d) /\ Covered(d)
  BY <1>t DEF IInv, TypeOK
<1>1. ASSUME NEW ccls \in Steps, Step(ccls) PROVE IInv'
  <2>c. ccls \in Nat
    BY StepsAssumption
  <2>g. given \in 0..MaxTime /\ given' = given + ccls /\ given' <= MaxTime
    BY <1>1, <1>t DEF Step, TypeOK
  <2>1. ASSUME NEW d \in Devices
        PROVE  /\ counter'[d] = stepped(counter[d], ccls)
               /\ since'[d] = since[d] + ccls
               /\ paid'[d] = paid[d] /\ owed'[d] = owed[d]
    BY <1>1 DEF Step
  <2>2. TypeOK'
    <3>1. counter' \in [Devices -> (-MaxDebt)..0]
      BY <1>1, <1>d, <2>c, SteppedFacts DEF Step
    <3>2. since' \in [Devices -> Nat]
      BY <1>1, <1>d, <2>c DEF Step
    <3>3. given' \in 0..MaxTime
      BY <2>g, <2>c, MaxTimeAssumption
    <3>4. paid' \in [Devices -> Nat] /\ owed' \in [Devices -> Nat]
      BY <1>1, <1>t DEF Step, TypeOK
    <3> QED
      BY <3>1, <3>2, <3>3, <3>4 DEF TypeOK
  <2>3. ASSUME NEW d \in Devices PROVE Settled(d)' /\ Covered(d)'
    <3>1. counter[d] = Lesser(since[d] - owed[d], 0)
      BY <1>d DEF Settled
    <3>2. counter'[d] = Lesser(since'[d] - owed'[d], 0)
      BY <3>1, <2>1, <1>d, <2>c, SteppedSettles
    <3>3. paid[d] <= given - counter[d]
      BY <1>d DEF Covered
    <3>4. counter'[d] <= counter[d] + ccls /\ counter'[d] \in Int
      BY <2>1, <1>d, <2>c, SteppedFacts
    <3>5. paid'[d] <= given' - counter'[d]
      BY <3>3, <3>4, <2>1, <2>g, <2>c, <1>d
    <3> QED
      BY <3>2, <3>5 DEF Settled, Covered
  <2> QED
    BY <2>2, <2>3 DEF IInv
<1>2. ASSUME NEW e \in Devices, NEW price \in Prices, Act(e, price) PROVE IInv'
  <2>p. price \in Nat /\ price <= MaxDebt
    BY PricesAssumption, MaxDebtAssumption
  <2>e. counter[e] = 0
    BY <1>2, <1>d DEF Act, is_ready
  <2>1. /\ counter'[e] = - price /\ paid'[e] = paid[e] + price
        /\ owed'[e] = price /\ since'[e] = 0
    <3>1. counter'[e] = counter[e] - price
      BY <1>2, <1>t DEF Act, TypeOK
    <3>2. paid'[e] = paid[e] + price /\ owed'[e] = price /\ since'[e] = 0
      BY <1>2, <1>t DEF Act, TypeOK
    <3> QED
      BY <3>1, <3>2, <2>e, <2>p
  <2>2. ASSUME NEW d \in Devices, d # e
        PROVE  /\ counter'[d] = counter[d] /\ paid'[d] = paid[d]
               /\ owed'[d] = owed[d] /\ since'[d] = since[d]
    BY <1>2, <2>2, <1>t DEF Act, TypeOK
  <2>g. given' = given /\ given \in 0..MaxTime
    BY <1>2, <1>t DEF Act, TypeOK
  <2>3. TypeOK'
    <3>1. - price \in (-MaxDebt)..0
      BY <2>p, MaxDebtAssumption
    <3>2. counter' \in [Devices -> (-MaxDebt)..0]
      <4>1. counter' = [counter EXCEPT ![e] = counter'[e]]
        BY <1>2, <1>t DEF Act, TypeOK
      <4> QED
        BY <4>1, <3>1, <2>1, <1>t DEF TypeOK
    <3>3. paid' \in [Devices -> Nat]
      BY <1>2, <1>t, <2>p DEF Act, TypeOK
    <3>4. owed' \in [Devices -> Nat] /\ since' \in [Devices -> Nat]
      BY <1>2, <1>t, <2>p DEF Act, TypeOK
    <3> QED
      BY <3>2, <3>3, <3>4, <2>g DEF TypeOK
  <2>4. Settled(e)' /\ Covered(e)'
    <3>1. - price = Lesser(0 - price, 0)
      BY <2>p DEF Lesser
    <3>2. paid[e] + price <= given + price
      BY <1>d, <2>e, <2>p, <2>g DEF Covered
    <3>3. given + price = given - (- price)
      BY <2>p, <2>g
    <3> QED
      BY <3>1, <3>2, <3>3, <2>1, <2>g DEF Settled, Covered
  <2>5. ASSUME NEW d \in Devices, d # e PROVE Settled(d)' /\ Covered(d)'
    BY <2>5, <2>2, <2>g, <1>d DEF Settled, Covered
  <2> QED
    BY <2>3, <2>4, <2>5 DEF IInv
<1>3. ASSUME UNCHANGED vars PROVE IInv'
  BY <1>3 DEF IInv, TypeOK, Settled, Covered, vars
<1> QED
  BY <1>1, <1>2, <1>3 DEF ClockNext

LEMMA InvCorrect == ClockSpec => []IInv
<1>1. ClockInit => IInv
  BY InvInit
<1>2. IInv /\ [ClockNext]_vars => IInv'
  BY InvStep
<1> QED
  BY <1>1, <1>2, PTL DEF ClockSpec

-----------------------------------------------------------------------------

(* Counters stay between the deepest debt and 0: no credit is ever kept.   *)
THEOREM TypeCorrect == ClockSpec => []TypeOK
<1>1. IInv => TypeOK
  BY DEF IInv
<1> QED
  BY <1>1, InvCorrect, PTL

(* No device is ever ahead of the cycles given by more than the price of   *)
(* its last action.                                                        *)
THEOREM NeverAheadCorrect == ClockSpec => []NeverAhead
<1>1. ASSUME IInv, NEW d \in Devices PROVE paid[d] <= given + MaxDebt
  <2>1. /\ counter[d] \in (-MaxDebt)..0 /\ paid[d] \in Nat
        /\ given \in 0..MaxTime /\ paid[d] <= given - counter[d]
    BY <1>1 DEF IInv, TypeOK, Covered
  <2> QED
    BY <2>1, MaxDebtAssumption, MaxTimeAssumption
<1>2. IInv => NeverAhead
  BY <1>1 DEF NeverAhead
<1> QED
  BY <1>2, InvCorrect, PTL

(* A device is ready exactly when the price of its last action has passed. *)
THEOREM ReadyCorrect == ClockSpec => []ReadyWhenPaidOff
<1>1. ASSUME IInv, NEW d \in Devices PROVE is_ready(d) <=> since[d] >= owed[d]
  <2>1. since[d] \in Nat /\ owed[d] \in Nat /\ counter[d] = Lesser(since[d] - owed[d], 0)
    BY <1>1 DEF IInv, TypeOK, Settled
  <2> QED
    BY <2>1 DEF is_ready, Lesser
<1>2. IInv => ReadyWhenPaidOff
  BY <1>1 DEF ReadyWhenPaidOff
<1> QED
  BY <1>2, InvCorrect, PTL

-----------------------------------------------------------------------------
(* Brackets in a row: E.P are places, E.O orders them, at E.up a bracket   *)
(* opens, at E.down one closes, and E.mate says which are of one kind.     *)

Ordered(E) ==
  /\ IsFiniteSet(E.P)
  /\ E.up \cap E.down = {}
  /\ \A a \in E.P : <<a, a>> \in E.O
  /\ \A a, b \in E.P : <<a, b>> \in E.O \/ <<b, a>> \in E.O
  /\ \A a, b \in E.P : <<a, b>> \in E.O /\ <<b, a>> \in E.O => a = b
  /\ \A a, b, c \in E.P : <<a, b>> \in E.O /\ <<b, c>> \in E.O => <<a, c>> \in E.O

Net(E, S) == Cardinality(S \cap E.up) - Cardinality(S \cap E.down)

Sign(E, x) == IF x \in E.up THEN 1 ELSE IF x \in E.down THEN -1 ELSE 0

Segment(E, p, q) == {r \in E.P : <<p, r>> \in E.O /\ <<r, q>> \in E.O}

Paired(E, p, q) ==
  /\ p \in E.up /\ q \in E.down /\ <<p, q>> \in E.O
  /\ Net(E, Segment(E, p, q)) = 0
  /\ \A r \in Segment(E, p, q) \ {q} : Net(E, Segment(E, p, r)) > 0

Shut(E, q, p) ==
  /\ Paired(E, p, q)
  /\ \A r, s \in Segment(E, p, q) : Paired(E, r, s) => <<r, s>> \in E.mate

(* How many brackets are open after a place.                               *)
Below(E, x) == {z \in E.P : <<z, x>> \in E.O}

Level(E, x) == Net(E, Below(E, x))

(* A place adds the sign of its bracket.                                   *)
LEMMA NetAdds ==
  ASSUME NEW E, Ordered(E), NEW S \in SUBSET E.P
  PROVE  /\ Net(E, S) \in Int
         /\ \A x \in E.P \ S : Net(E, S \cup {x}) = Net(E, S) + Sign(E, x)
<1> DEFINE u == Cardinality(S \cap E.up)
           d == Cardinality(S \cap E.down)
<1>1. IsFiniteSet(S \cap E.up) /\ IsFiniteSet(S \cap E.down)
  <2>1. IsFiniteSet(E.P) /\ S \cap E.up \in SUBSET E.P /\ S \cap E.down \in SUBSET E.P
    BY DEF Ordered
  <2> QED BY <2>1, FS_Subset
<1>2. u \in Nat /\ d \in Nat
  BY <1>1, FS_CardinalityType
<1>n. Net(E, S) = u - d
  BY DEF Net
<1>3. ASSUME NEW x \in E.P \ S
      PROVE  Net(E, S \cup {x}) = Net(E, S) + Sign(E, x)
  <2> DEFINE v == Cardinality((S \cup {x}) \cap E.up)
             e == Cardinality((S \cup {x}) \cap E.down)
  <2>n. Net(E, S \cup {x}) = v - e
    BY DEF Net
  <2>1. CASE x \in E.up
    <3>1. (S \cup {x}) \cap E.up = (S \cap E.up) \cup {x} /\ x \notin S \cap E.up
      BY <2>1
    <3>2. (S \cup {x}) \cap E.down = S \cap E.down
      BY <2>1 DEF Ordered
    <3>3. v = u + 1
      BY <1>1, <3>1, FS_AddElement
    <3>4. e = d
      BY <3>2
    <3>5. Sign(E, x) = 1
      BY <2>1 DEF Sign
    <3> HIDE DEF u, d, v, e
    <3> QED BY <1>2, <1>n, <2>n, <3>3, <3>4, <3>5
  <2>2. CASE x \in E.down
    <3>1. (S \cup {x}) \cap E.down = (S \cap E.down) \cup {x} /\ x \notin S \cap E.down
      BY <2>2
    <3>2. (S \cup {x}) \cap E.up = S \cap E.up /\ x \notin E.up
      BY <2>2 DEF Ordered
    <3>3. e = d + 1
      BY <1>1, <3>1, FS_AddElement
    <3>4. v = u
      BY <3>2
    <3>5. Sign(E, x) = -1
      BY <2>2, <3>2 DEF Sign
    <3> HIDE DEF u, d, v, e
    <3> QED BY <1>2, <1>n, <2>n, <3>3, <3>4, <3>5
  <2>3. CASE x \notin E.up /\ x \notin E.down
    <3>1. (S \cup {x}) \cap E.down = S \cap E.down /\ (S \cup {x}) \cap E.up = S \cap E.up
      BY <2>3
    <3>2. v = u /\ e = d
      BY <3>1
    <3>5. Sign(E, x) = 0
      BY <2>3 DEF Sign
    <3> HIDE DEF u, d, v, e
    <3> QED BY <1>2, <1>n, <2>n, <3>2, <3>5
  <2> QED BY <2>1, <2>2, <2>3
<1> HIDE DEF u, d
<1> QED BY <1>2, <1>n, <1>3

(* The brackets of two parts add up.                                       *)
LEMMA NetOfTwo ==
  ASSUME NEW E, Ordered(E), NEW S \in SUBSET E.P, NEW T \in SUBSET E.P, S \cap T = {}
  PROVE  Net(E, S \cup T) = Net(E, S) + Net(E, T)
<1> DEFINE c(S_, X_) == Cardinality(S_ \cap X_)
<1>1. ASSUME NEW X
      PROVE  /\ c(S \cup T, X) = c(S, X) + c(T, X)
             /\ c(S, X) \in Nat /\ c(T, X) \in Nat
  <2>1. IsFiniteSet(S \cap X) /\ IsFiniteSet(T \cap X)
    <3>1. IsFiniteSet(E.P) /\ S \cap X \in SUBSET E.P /\ T \cap X \in SUBSET E.P
      BY DEF Ordered
    <3> QED BY <3>1, FS_Subset
  <2>2. (S \cup T) \cap X = (S \cap X) \cup (T \cap X) /\ (S \cap X) \cap (T \cap X) = {}
    OBVIOUS
  <2>3. Cardinality({}) = 0
    BY FS_EmptySet
  <2>4. c(S, X) \in Nat /\ c(T, X) \in Nat
    BY <2>1, FS_CardinalityType
  <2>5. Cardinality((S \cap X) \cup (T \cap X))
          = Cardinality(S \cap X) + Cardinality(T \cap X) - Cardinality((S \cap X) \cap (T \cap X))
    BY <2>1, FS_Union
  <2>6. c(S \cup T, X) = Cardinality((S \cap X) \cup (T \cap X))
    BY <2>2
  <2>7. Cardinality((S \cap X) \cap (T \cap X)) = 0
    BY <2>2, <2>3
  <2>8. Cardinality((S \cap X) \cup (T \cap X))
          = c(S, X) + c(T, X) - Cardinality((S \cap X) \cap (T \cap X))
    BY <2>5
  <2> HIDE DEF c
  <2> QED BY <2>4, <2>6, <2>7, <2>8
<1>2. /\ c(S \cup T, E.up) = c(S, E.up) + c(T, E.up)
      /\ c(S, E.up) \in Nat /\ c(T, E.up) \in Nat
  BY <1>1
<1>3. /\ c(S \cup T, E.down) = c(S, E.down) + c(T, E.down)
      /\ c(S, E.down) \in Nat /\ c(T, E.down) \in Nat
  BY <1>1
<1>4. /\ Net(E, S \cup T) = c(S \cup T, E.up) - c(S \cup T, E.down)
      /\ Net(E, S) = c(S, E.up) - c(S, E.down)
      /\ Net(E, T) = c(T, E.up) - c(T, E.down)
  BY DEF Net
<1> HIDE DEF c
<1> QED BY <1>2, <1>3, <1>4

(* Between two places: by how many more brackets are open.                 *)
LEMMA NetOfSegment ==
  ASSUME NEW E, Ordered(E), NEW p \in E.P, NEW q \in E.P, <<p, q>> \in E.O, p \in E.up
  PROVE  Net(E, Segment(E, p, q)) = Level(E, q) - Level(E, p) + 1
<1> DEFINE S == Below(E, p) \ {p}
<1>1. S \in SUBSET E.P /\ Segment(E, p, q) \in SUBSET E.P /\ p \notin S
  BY DEF Below, Segment
<1>2. Below(E, p) = S \cup {p}
  BY DEF Below, Ordered
<1>3. Below(E, q) = S \cup Segment(E, p, q)
  BY DEF Below, Segment, Ordered
<1>4. S \cap Segment(E, p, q) = {}
  BY DEF Below, Segment, Ordered
<1> HIDE DEF S
<1>5. Level(E, p) = Net(E, S) + 1
  BY <1>1, <1>2, NetAdds DEF Level, Sign
<1>6. Level(E, q) = Net(E, S) + Net(E, Segment(E, p, q))
  BY <1>1, <1>3, <1>4, NetOfTwo DEF Level
<1> QED BY <1>1, <1>5, <1>6, NetAdds

(* A pair by the brackets that are open after each place.                  *)
LEMMA PairByLevel ==
  ASSUME NEW E, Ordered(E), NEW p \in E.P, NEW q \in E.P
  PROVE  /\ Level(E, q) \in Int
         /\ Paired(E, p, q) <=>
              /\ p \in E.up /\ q \in E.down /\ <<p, q>> \in E.O
              /\ Level(E, q) = Level(E, p) - 1
              /\ \A r \in E.P : <<p, r>> \in E.O /\ <<r, q>> \in E.O /\ r # q =>
                                  Level(E, r) >= Level(E, p)
<1>1. \A x \in E.P : Level(E, x) \in Int
  <2>1. \A x \in E.P : Below(E, x) \in SUBSET E.P
    BY DEF Below
  <2> QED BY <2>1, NetAdds DEF Level
<1>2. ASSUME p \in E.up, NEW r \in E.P, <<p, r>> \in E.O
      PROVE  Net(E, Segment(E, p, r)) = Level(E, r) - Level(E, p) + 1
  BY <1>2, NetOfSegment
<1>3. \A r \in Segment(E, p, q) : r \in E.P /\ <<p, r>> \in E.O
  BY DEF Segment
<1>4. \A r \in E.P : <<p, r>> \in E.O /\ <<r, q>> \in E.O <=> r \in Segment(E, p, q)
  BY DEF Segment
<1>5. ASSUME Paired(E, p, q)
      PROVE  /\ p \in E.up /\ q \in E.down /\ <<p, q>> \in E.O
             /\ Level(E, q) = Level(E, p) - 1
             /\ \A r \in E.P : <<p, r>> \in E.O /\ <<r, q>> \in E.O /\ r # q =>
                                 Level(E, r) >= Level(E, p)
  <2>1. p \in E.up /\ q \in E.down /\ <<p, q>> \in E.O
    BY <1>5 DEF Paired
  <2>2. Level(E, q) = Level(E, p) - 1
    <3>1. Net(E, Segment(E, p, q)) = 0
      BY <1>5 DEF Paired
    <3> QED BY <1>1, <1>2, <2>1, <3>1
  <2>3. ASSUME NEW r \in E.P, <<p, r>> \in E.O, <<r, q>> \in E.O, r # q
        PROVE  Level(E, r) >= Level(E, p)
    <3>1. Net(E, Segment(E, p, r)) > 0
      BY <1>4, <1>5, <2>3 DEF Paired
    <3> QED BY <1>1, <1>2, <2>1, <2>3, <3>1
  <2> QED BY <2>1, <2>2, <2>3
<1>6. ASSUME p \in E.up, q \in E.down, <<p, q>> \in E.O,
             Level(E, q) = Level(E, p) - 1,
             \A r \in E.P : <<p, r>> \in E.O /\ <<r, q>> \in E.O /\ r # q =>
                               Level(E, r) >= Level(E, p)
      PROVE  Paired(E, p, q)
  <2>1. Net(E, Segment(E, p, q)) = 0
    BY <1>1, <1>2, <1>6
  <2>2. ASSUME NEW r \in Segment(E, p, q) \ {q} PROVE Net(E, Segment(E, p, r)) > 0
    <3>1. r \in E.P /\ <<p, r>> \in E.O /\ Level(E, r) >= Level(E, p)
      BY <1>3, <1>4, <1>6
    <3> QED BY <1>1, <1>2, <1>6, <3>1
  <2> QED BY <1>6, <2>1, <2>2 DEF Paired
<1> QED BY <1>1, <1>5, <1>6

(* A bracket has at most one partner.                                      *)
LEMMA PairOnce ==
  ASSUME NEW E, Ordered(E), NEW p \in E.P, NEW q \in E.P, NEW s \in E.P,
         Paired(E, p, q), Paired(E, p, s)
  PROVE  q = s
<1> SUFFICES ASSUME q # s PROVE FALSE
  OBVIOUS
<1>1. /\ Level(E, q) \in Int /\ Level(E, s) \in Int /\ Level(E, p) \in Int
      /\ <<p, q>> \in E.O /\ <<p, s>> \in E.O
      /\ Level(E, q) = Level(E, p) - 1 /\ Level(E, s) = Level(E, p) - 1
      /\ <<s, q>> \in E.O => Level(E, s) >= Level(E, p)
      /\ <<q, s>> \in E.O => Level(E, q) >= Level(E, p)
  BY PairByLevel
<1>2. <<q, s>> \in E.O \/ <<s, q>> \in E.O
  BY DEF Ordered
<1> QED BY <1>1, <1>2

-----------------------------------------------------------------------------
(* A scan that reads brackets one after the other from p on: Q has been    *)
(* read, and the openers w wait for their partners.                        *)

Read(E, p, Q, w) ==
  /\ Q \in SUBSET E.P /\ p \in Q
  /\ \A a \in E.P, b \in Q : <<a, b>> \in E.O => a \in Q
  /\ w \in Seq(Q)
  /\ \A j \in 1..Len(w) : w[j] \in E.up /\ <<p, w[j]>> \in E.O
  /\ \A i, j \in 1..Len(w) : i < j => <<w[i], w[j]>> \in E.O /\ w[i] # w[j]
  /\ \A j \in 1..Len(w) : Level(E, w[j]) = Net(E, Q) - Len(w) + j
  /\ \A j \in 1..Len(w) : \A r \in Q : <<w[j], r>> \in E.O => Level(E, r) >= Level(E, w[j])
  /\ \A r \in Q \cap (E.up \cup E.down) : <<p, r>> \in E.O =>
       \/ \E j \in 1..Len(w) : w[j] = r
       \/ \E s \in Q : <<p, s>> \in E.O /\ (Shut(E, s, r) \/ Shut(E, r, s))

(* x is read next. *)
Follows(E, Q, x) == x \in E.P \ Q /\ Below(E, x) = Q \cup {x}

(* So many brackets are open after a place.                                *)
LEMMA LevelType == ASSUME NEW E, Ordered(E), NEW x \in E.P PROVE Level(E, x) \in Int
<1>1. Below(E, x) \in SUBSET E.P
  BY DEF Below
<1> QED BY <1>1, NetAdds DEF Level

NextFacts(E, Q, x) ==
  /\ Net(E, Q) \in Int
  /\ Net(E, Q \cup {x}) = Level(E, x)
  /\ Level(E, x) = Net(E, Q) + Sign(E, x)
  /\ Q \cup {x} \in SUBSET E.P
  /\ \A a \in E.P, b \in Q \cup {x} : <<a, b>> \in E.O => a \in Q \cup {x}
  /\ \A r \in Q : <<r, x>> \in E.O
  /\ \A r \in E.P \ Q : <<x, r>> \in E.O

(* What the next place changes.                                            *)
LEMMA LevelOfNext ==
  ASSUME NEW E, Ordered(E), NEW Q \in SUBSET E.P, NEW x, Follows(E, Q, x)
  PROVE  NextFacts(E, Q, x)
<1>1. x \in E.P \ Q /\ Below(E, x) = Q \cup {x}
  BY DEF Follows
<1>2. Net(E, Q) \in Int /\ Net(E, Q \cup {x}) = Net(E, Q) + Sign(E, x)
  BY <1>1, NetAdds
<1>3. Net(E, Q \cup {x}) = Level(E, x)
  BY <1>1 DEF Level
<1>4. \A r \in E.P : r \in Q \cup {x} <=> <<r, x>> \in E.O
  BY <1>1 DEF Below
<1>5. ASSUME NEW a \in E.P, NEW b \in Q \cup {x}, <<a, b>> \in E.O PROVE a \in Q \cup {x}
  <2>1. b \in E.P /\ <<b, x>> \in E.O
    BY <1>1, <1>4
  <2>2. <<a, x>> \in E.O
    BY <1>1, <1>5, <2>1 DEF Ordered
  <2> QED BY <1>4, <2>2
<1>6. \A r \in E.P \ Q : <<x, r>> \in E.O
  BY <1>1, <1>4 DEF Ordered
<1>7. \A r \in Q : <<r, x>> \in E.O
  BY <1>4
<1>8. Q \cup {x} \in SUBSET E.P
  BY <1>1
<1> QED BY <1>2, <1>3, <1>5, <1>6, <1>7, <1>8 DEF NextFacts

(* An opener that waits is not closed yet, and when nothing waits all      *)
(* brackets are.                                                           *)
LEMMA ReadWaits ==
  ASSUME NEW E, Ordered(E), NEW p, NEW Q, NEW w, Read(E, p, Q, w)
  PROVE  \A j \in 1..Len(w) : \A q \in Q : ~ Paired(E, w[j], q)
<1> SUFFICES ASSUME NEW j \in 1..Len(w), NEW q \in Q, Paired(E, w[j], q) PROVE FALSE
  OBVIOUS
<1>1. w[j] \in Q /\ Q \in SUBSET E.P
  BY DEF Read
<1>2. w[j] \in E.P /\ q \in E.P
  BY <1>1
<1>3. <<w[j], q>> \in E.O /\ Level(E, q) = Level(E, w[j]) - 1
  BY <1>2, PairByLevel
<1>4. Level(E, q) >= Level(E, w[j])
  BY <1>3 DEF Read
<1>5. Level(E, w[j]) \in Int
  BY <1>2, LevelType
<1> QED BY <1>3, <1>4, <1>5

(* The scan starts.                                                        *)
LEMMA ReadFirst ==
  ASSUME NEW E, Ordered(E), NEW p \in E.P
  PROVE  /\ p \in E.up => Read(E, p, Below(E, p), <<p>>)
         /\ p \notin E.up \cup E.down => Read(E, p, Below(E, p), <<>>)
<1> DEFINE Q == Below(E, p)
<1>1. /\ Q \in SUBSET E.P /\ p \in Q
      /\ \A a \in E.P, b \in Q : <<a, b>> \in E.O => a \in Q
      /\ \A r \in Q : <<p, r>> \in E.O => r = p
  BY DEF Below, Ordered
<1>2. Level(E, p) = Net(E, Q) /\ Level(E, p) \in Int
  BY LevelType DEF Level
<1>3. <<p, p>> \in E.O
  BY DEF Ordered
<1> HIDE DEF Q
<1>4. ASSUME p \in E.up PROVE Read(E, p, Q, <<p>>)
  <2> DEFINE w == <<p>>
  <2>1. w \in Seq(Q) /\ Len(w) = 1 /\ w[1] = p /\ \A j \in 1..Len(w) : j = 1
    BY <1>1
  <2> HIDE DEF w
  <2>2. \A j \in 1..Len(w) : w[j] = p /\ j = Len(w)
    BY <2>1
  <2>3. \A i, j \in 1..Len(w) : ~ (i < j)
    BY <2>1
  <2>4. \A j \in 1..Len(w) : Level(E, w[j]) = Net(E, Q) - Len(w) + j
    BY <2>1, <2>2, <1>2
  <2>5. \A j \in 1..Len(w) : \A r \in Q : <<w[j], r>> \in E.O => Level(E, r) >= Level(E, w[j])
    BY <2>2, <1>1, <1>2
  <2>6. \A r \in Q : <<p, r>> \in E.O => \E j \in 1..Len(w) : w[j] = r
    BY <2>1, <1>1
  <2>7. Read(E, p, Q, w)
    BY <1>1, <1>3, <1>4, <2>1, <2>2, <2>3, <2>4, <2>5, <2>6 DEF Read
  <2> QED BY <2>7 DEF w
<1>5. ASSUME p \notin E.up \cup E.down PROVE Read(E, p, Q, <<>>)
  <2> DEFINE w == <<>>
  <2>1. w \in Seq(Q) /\ \A j \in 1..Len(w) : FALSE
    OBVIOUS
  <2> HIDE DEF w
  <2>2. Read(E, p, Q, w)
    BY <1>1, <1>5, <2>1 DEF Read
  <2> QED BY <2>2 DEF w
<1> QED BY <1>4, <1>5 DEF Q

(* It reads what is no bracket, *)
LEMMA ReadOther ==
  ASSUME NEW E, Ordered(E), NEW p, NEW Q, NEW w, Read(E, p, Q, w),
         NEW x, Follows(E, Q, x), x \notin E.up \cup E.down
  PROVE  Read(E, p, Q \cup {x}, w)
<1>1. Q \in SUBSET E.P /\ w \in Seq(Q) /\ p \in Q /\ Len(w) \in Nat
  BY DEF Read
<1>f. NextFacts(E, Q, x)
  BY <1>1, LevelOfNext
<1>2. /\ Net(E, Q) \in Int
      /\ Net(E, Q \cup {x}) = Level(E, x)
      /\ Level(E, x) = Net(E, Q) + Sign(E, x)
      /\ Q \cup {x} \in SUBSET E.P
      /\ \A a \in E.P, b \in Q \cup {x} : <<a, b>> \in E.O => a \in Q \cup {x}
  BY <1>f DEF NextFacts
<1>3. Net(E, Q \cup {x}) = Net(E, Q) /\ Level(E, x) = Net(E, Q)
  BY <1>2 DEF Sign
<1>4. w \in Seq(Q \cup {x}) /\ p \in Q \cup {x}
  BY <1>1
<1>5. \A j \in 1..Len(w) : w[j] \in E.up /\ <<p, w[j]>> \in E.O
  BY DEF Read
<1>6. \A i, j \in 1..Len(w) : i < j => <<w[i], w[j]>> \in E.O /\ w[i] # w[j]
  BY DEF Read
<1>7. \A j \in 1..Len(w) : Level(E, w[j]) = Net(E, Q \cup {x}) - Len(w) + j
  BY <1>3 DEF Read
<1>8. ASSUME NEW j \in 1..Len(w), NEW r \in Q \cup {x}, <<w[j], r>> \in E.O
      PROVE  Level(E, r) >= Level(E, w[j])
  <2>1. CASE r \in Q
    BY <1>8, <2>1 DEF Read
  <2>2. CASE r = x
    <3>1. Level(E, w[j]) = Net(E, Q) - Len(w) + j
      BY DEF Read
    <3> QED BY <1>1, <1>2, <1>3, <2>2, <3>1
  <2> QED BY <2>1, <2>2
<1>9. ASSUME NEW r \in (Q \cup {x}) \cap (E.up \cup E.down), <<p, r>> \in E.O
      PROVE  \/ \E j \in 1..Len(w) : w[j] = r
             \/ \E s \in Q \cup {x} : <<p, s>> \in E.O /\ (Shut(E, s, r) \/ Shut(E, r, s))
  <2>1. r \in Q \cap (E.up \cup E.down)
    OBVIOUS
  <2> QED BY <1>9, <2>1 DEF Read
<1> QED BY <1>2, <1>4, <1>5, <1>6, <1>7, <1>8, <1>9 DEF Read

(* an opener, *)
LEMMA ReadOpener ==
  ASSUME NEW E, Ordered(E), NEW p, NEW Q, NEW w, Read(E, p, Q, w),
         NEW x, Follows(E, Q, x), x \in E.up
  PROVE  Read(E, p, Q \cup {x}, Append(w, x))
<1> DEFINE v == Append(w, x)
<1>1. Q \in SUBSET E.P /\ w \in Seq(Q) /\ p \in Q /\ Len(w) \in Nat
  BY DEF Read
<1>f. NextFacts(E, Q, x)
  BY <1>1, LevelOfNext
<1>2. /\ Net(E, Q) \in Int
      /\ Net(E, Q \cup {x}) = Level(E, x)
      /\ Level(E, x) = Net(E, Q) + Sign(E, x)
      /\ Q \cup {x} \in SUBSET E.P
      /\ \A a \in E.P, b \in Q \cup {x} : <<a, b>> \in E.O => a \in Q \cup {x}
      /\ \A r \in Q : <<r, x>> \in E.O
  BY <1>f DEF NextFacts
<1>x. x \in E.P \ Q /\ <<x, x>> \in E.O
  BY DEF Follows, Ordered
<1>3. Net(E, Q \cup {x}) = Net(E, Q) + 1 /\ Level(E, x) = Net(E, Q) + 1
  BY <1>2 DEF Sign
<1>4. /\ v \in Seq(Q \cup {x}) /\ Len(v) = Len(w) + 1 /\ v[Len(w) + 1] = x
      /\ \A j \in 1..Len(w) : v[j] = w[j]
  BY <1>1
<1> HIDE DEF v
<1>5. \A j \in 1..Len(v) : j \in 1..Len(w) \/ (j = Len(w) + 1 /\ v[j] = x)
  BY <1>1, <1>4
<1>w. \A j \in 1..Len(w) : /\ w[j] \in Q /\ w[j] \in E.up /\ <<p, w[j]>> \in E.O
                           /\ Level(E, w[j]) = Net(E, Q) - Len(w) + j
  BY DEF Read
<1>6. \A j \in 1..Len(v) : v[j] \in E.up /\ <<p, v[j]>> \in E.O
  BY <1>1, <1>2, <1>4, <1>5, <1>w
<1>7. ASSUME NEW i \in 1..Len(v), NEW j \in 1..Len(v), i < j
      PROVE  <<v[i], v[j]>> \in E.O /\ v[i] # v[j]
  <2>0. i \in 1..Len(w)
    BY <1>1, <1>4, <1>7
  <2>1. CASE j \in 1..Len(w)
    BY <1>4, <1>7, <2>0, <2>1 DEF Read
  <2>2. CASE v[j] = x
    BY <1>2, <1>4, <1>w, <1>x, <2>0, <2>2
  <2> QED BY <1>5, <2>1, <2>2
<1>8. \A j \in 1..Len(v) : Level(E, v[j]) = Net(E, Q \cup {x}) - Len(v) + j
  <2> TAKE j \in 1..Len(v)
  <2>1. CASE j \in 1..Len(w)
    <3>1. v[j] = w[j] /\ Level(E, w[j]) = Net(E, Q) - Len(w) + j
      BY <1>4, <1>w, <2>1
    <3> QED BY <1>1, <1>2, <1>3, <1>4, <3>1
  <2>2. CASE j = Len(w) + 1 /\ v[j] = x
    BY <1>1, <1>2, <1>3, <1>4, <2>2
  <2> QED BY <1>5, <2>1, <2>2
<1>9. ASSUME NEW j \in 1..Len(v), NEW r \in Q \cup {x}, <<v[j], r>> \in E.O
      PROVE  Level(E, r) >= Level(E, v[j])
  <2>0. Level(E, v[j]) = Net(E, Q \cup {x}) - Len(v) + j
    BY <1>8
  <2>1. CASE r = x
    BY <1>1, <1>2, <1>3, <1>4, <2>0, <2>1
  <2>2. CASE r \in Q /\ j \in 1..Len(w)
    BY <1>4, <1>9, <2>2 DEF Read
  <2>3. CASE r \in Q /\ v[j] = x
    BY <1>1, <1>2, <1>9, <1>x, <2>3 DEF Ordered
  <2> QED BY <1>5, <2>1, <2>2, <2>3
<1>10. ASSUME NEW r \in (Q \cup {x}) \cap (E.up \cup E.down), <<p, r>> \in E.O
      PROVE  \/ \E j \in 1..Len(v) : v[j] = r
             \/ \E s \in Q \cup {x} : <<p, s>> \in E.O /\ (Shut(E, s, r) \/ Shut(E, r, s))
  <2>1. CASE r = x
    BY <1>1, <1>4, <2>1
  <2>2. CASE r \in Q
    <3>1. \/ \E j \in 1..Len(w) : w[j] = r
          \/ \E s \in Q : <<p, s>> \in E.O /\ (Shut(E, s, r) \/ Shut(E, r, s))
      BY <1>10, <2>2 DEF Read
    <3>2. \A j \in 1..Len(w) : j \in 1..Len(v) /\ v[j] = w[j]
      BY <1>1, <1>4
    <3> QED BY <3>1, <3>2
  <2> QED BY <2>1, <2>2
<1>11. p \in Q \cup {x}
  BY <1>1
<1>12. Read(E, p, Q \cup {x}, v)
  BY <1>2, <1>4, <1>6, <1>7, <1>8, <1>9, <1>10, <1>11 DEF Read
<1> QED BY <1>12 DEF v

(* and a closer, for which the last opener waits: *)
LEMMA ReadPairs ==
  ASSUME NEW E, Ordered(E), NEW p, NEW Q, NEW w, Read(E, p, Q, w),
         NEW x, Follows(E, Q, x), x \in E.down, w # <<>>
  PROVE  /\ Paired(E, w[Len(w)], x)
         /\ <<w[Len(w)], x>> \in E.mate => Shut(E, x, w[Len(w)])
<1> DEFINE o == w[Len(w)]
<1>1. Q \in SUBSET E.P /\ w \in Seq(Q) /\ p \in Q /\ Len(w) \in Nat
  BY DEF Read
<1>0. Len(w) \in 1..Len(w)
  BY <1>1
<1>f. NextFacts(E, Q, x)
  BY <1>1, LevelOfNext
<1>2. /\ Net(E, Q) \in Int
      /\ Level(E, x) = Net(E, Q) + Sign(E, x)
      /\ \A r \in Q : <<r, x>> \in E.O
  BY <1>f DEF NextFacts
<1>x. x \in E.P \ Q /\ Below(E, x) = Q \cup {x}
  BY DEF Follows
<1>3. Level(E, x) = Net(E, Q) - 1
  BY <1>2 DEF Sign, Ordered
<1>v. \A j \in 1..Len(w) : w[j] \in Q /\ w[j] \in E.up /\ Level(E, w[j]) = Net(E, Q) - Len(w) + j
  <2> TAKE j \in 1..Len(w)
  <2>1. w[j] \in Q
    BY <1>1
  <2>2. w[j] \in E.up
    BY DEF Read
  <2>3. Level(E, w[j]) = Net(E, Q) - Len(w) + j
    BY DEF Read
  <2> QED BY <2>1, <2>2, <2>3
<1>4. o \in Q /\ o \in E.up /\ Level(E, o) = Net(E, Q) - Len(w) + Len(w)
  BY <1>0, <1>v
<1>w. Level(E, o) = Net(E, Q)
  BY <1>1, <1>2, <1>4
<1>q. \A r \in Q : <<o, r>> \in E.O => Level(E, r) >= Level(E, o)
  BY <1>0 DEF Read
<1>l. \A j \in 1..Len(w) : <<o, w[j]>> \in E.O => w[j] = o
  <2> SUFFICES ASSUME NEW j \in 1..Len(w), <<o, w[j]>> \in E.O, j # Len(w) PROVE FALSE
    OBVIOUS
  <2>1. <<w[j], o>> \in E.O /\ w[j] # o
    BY <1>0, <1>1 DEF Read
  <2> QED BY <1>1, <1>4, <2>1 DEF Ordered
<1>p. \A r \in Q \cap E.up : <<o, r>> \in E.O =>
         r = o \/ \E s \in E.P : Shut(E, s, r)
  <2> SUFFICES ASSUME NEW r \in Q \cap E.up, <<o, r>> \in E.O, r # o
               PROVE  \E s \in E.P : Shut(E, s, r)
    OBVIOUS
  <2>1. <<p, o>> \in E.O
    BY <1>0 DEF Read
  <2>2. <<p, r>> \in E.O
    BY <1>1, <1>4, <2>1 DEF Ordered
  <2>3. ~ \E j \in 1..Len(w) : w[j] = r
    BY <1>l
  <2>4. PICK s \in Q : Shut(E, s, r) \/ Shut(E, r, s)
    BY <2>2, <2>3 DEF Read
  <2>5. ~ Shut(E, r, s)
    BY DEF Shut, Paired, Ordered
  <2> QED BY <1>1, <2>4, <2>5
<1> HIDE DEF o
<1>5. \A r \in E.P : <<o, r>> \in E.O /\ <<r, x>> \in E.O /\ r # x => Level(E, r) >= Level(E, o)
  BY <1>q, <1>x DEF Below
<1>6. Paired(E, o, x)
  BY <1>1, <1>2, <1>3, <1>4, <1>5, <1>w, <1>x, PairByLevel
<1>7. ASSUME <<o, x>> \in E.mate,
             NEW r \in Segment(E, o, x), NEW s \in Segment(E, o, x), Paired(E, r, s)
      PROVE  <<r, s>> \in E.mate
  <2>1. r \in E.P /\ s \in E.P /\ <<o, r>> \in E.O /\ <<r, x>> \in E.O /\ r \in E.up
    BY <1>7 DEF Segment, Paired
  <2>2. r \in Q
    BY <1>x, <2>1 DEF Below, Ordered
  <2>3. CASE r = o
    <3>1. s = x
      BY <1>1, <1>4, <1>6, <1>7, <1>x, <2>1, <2>3, PairOnce
    <3> QED BY <1>7, <2>3, <3>1
  <2>4. CASE r # o
    <3>1. PICK t \in E.P : Shut(E, t, r)
      BY <1>p, <2>1, <2>2, <2>4
    <3>2. Paired(E, r, t)
      BY <3>1 DEF Shut
    <3>3. t = s
      BY <1>7, <2>1, <3>2, PairOnce
    <3>4. <<r, s>> \in E.O
      BY <1>7 DEF Paired
    <3>5. r \in Segment(E, r, s) /\ s \in Segment(E, r, s)
      BY <2>1, <3>4 DEF Segment, Ordered
    <3> QED BY <1>7, <3>1, <3>3, <3>5 DEF Shut
  <2> QED BY <2>3, <2>4
<1> QED BY <1>6, <1>7 DEF o, Shut

(* the opener is closed,                                                   *)
LEMMA ReadCloser ==
  ASSUME NEW E, Ordered(E), NEW p, NEW Q, NEW w, Read(E, p, Q, w),
         NEW x, Follows(E, Q, x), x \in E.down, w # <<>>, <<w[Len(w)], x>> \in E.mate,
         NEW v, v = SubSeq(w, 1, Len(w) - 1)
  PROVE  Read(E, p, Q \cup {x}, v)
<1>1. Q \in SUBSET E.P /\ w \in Seq(Q) /\ p \in Q /\ Len(w) \in Nat
  BY DEF Read
<1>0. Len(w) \in 1..Len(w)
  BY <1>1
<1>f. NextFacts(E, Q, x)
  BY <1>1, LevelOfNext
<1>2. /\ Net(E, Q) \in Int
      /\ Net(E, Q \cup {x}) = Level(E, x)
      /\ Level(E, x) = Net(E, Q) + Sign(E, x)
      /\ Q \cup {x} \in SUBSET E.P
      /\ \A a \in E.P, b \in Q \cup {x} : <<a, b>> \in E.O => a \in Q \cup {x}
      /\ \A r \in Q : <<r, x>> \in E.O
  BY <1>f DEF NextFacts
<1>3. Net(E, Q \cup {x}) = Net(E, Q) - 1 /\ Level(E, x) = Net(E, Q) - 1
  BY <1>2 DEF Sign, Ordered
<1>4. /\ v \in Seq(Q \cup {x}) /\ Len(v) = Len(w) - 1
      /\ \A j \in 1..Len(v) : j \in 1..Len(w) /\ v[j] = w[j]
  <2>1. Len(w) - 1 \in Nat /\ Len(w) >= 1
    BY <1>0, <1>1
  <2>2. w \in Seq(Q \cup {x})
    BY <1>1
  <2>3. v \in Seq(Q \cup {x})
    BY <1>1, <2>1, <2>2
  <2>4. Len(v) = Len(w) - 1
    <3> DEFINE m == Len(w) - 1
    <3>1. m \in Int /\ 1 \in Int /\ \A i \in 1..m : w[i] \in Q
      BY <1>1, <2>1
    <3>2. v = SubSeq(w, 1, m)
      OBVIOUS
    <3> HIDE DEF m
    <3>3. Len(SubSeq(w, 1, m)) = IF 1 <= m THEN m - 1 + 1 ELSE 0
      BY <3>1, SubSeqProperties
    <3>5. m \in Nat
      BY <2>1 DEF m
    <3>4. Len(v) = m
      BY <3>2, <3>3, <3>5
    <3> QED BY <3>4 DEF m
  <2>5. \A j \in 1..Len(v) : j \in 1..Len(w) /\ v[j] = w[j]
    BY <1>1, <2>1, <2>4
  <2> QED BY <2>3, <2>4, <2>5
<1>5. \A j \in 1..Len(w) : j \in 1..Len(v) \/ j = Len(w)
  BY <1>0, <1>1, <1>4
<1>w. \A j \in 1..Len(w) : /\ w[j] \in Q /\ w[j] \in E.up /\ <<p, w[j]>> \in E.O
                           /\ Level(E, w[j]) = Net(E, Q) - Len(w) + j
  BY DEF Read
<1>6. \A j \in 1..Len(v) : v[j] \in E.up /\ <<p, v[j]>> \in E.O
  BY <1>4, <1>w
<1>7. ASSUME NEW i \in 1..Len(v), NEW j \in 1..Len(v), i < j
      PROVE  <<v[i], v[j]>> \in E.O /\ v[i] # v[j]
  <2>1. i \in 1..Len(w) /\ j \in 1..Len(w) /\ v[i] = w[i] /\ v[j] = w[j]
    BY <1>4
  <2>2. <<w[i], w[j]>> \in E.O /\ w[i] # w[j]
    BY <1>7, <2>1 DEF Read
  <2> QED BY <2>1, <2>2
<1>8. ASSUME NEW j \in 1..Len(v)
      PROVE  Level(E, v[j]) = Net(E, Q \cup {x}) - Len(v) + j
  <2>1. v[j] = w[j] /\ Level(E, w[j]) = Net(E, Q) - Len(w) + j
    BY <1>4, <1>w
  <2> QED BY <1>1, <1>2, <1>3, <1>4, <2>1
<1>9. ASSUME NEW j \in 1..Len(v), NEW r \in Q \cup {x}, <<v[j], r>> \in E.O
      PROVE  Level(E, r) >= Level(E, v[j])
  <2>0. Level(E, v[j]) = Net(E, Q \cup {x}) - Len(v) + j
    BY <1>8
  <2>1. CASE r = x
    BY <1>1, <1>2, <1>3, <1>4, <2>0, <2>1
  <2>2. CASE r \in Q
    BY <1>4, <1>9, <2>2 DEF Read
  <2> QED BY <2>1, <2>2
<1>s. Shut(E, x, w[Len(w)])
  BY ReadPairs
<1>10. ASSUME NEW r \in (Q \cup {x}) \cap (E.up \cup E.down), <<p, r>> \in E.O
      PROVE  \/ \E j \in 1..Len(v) : v[j] = r
             \/ \E s \in Q \cup {x} : <<p, s>> \in E.O /\ (Shut(E, s, r) \/ Shut(E, r, s))
  <2>1. CASE r = x
    BY <1>0, <1>s, <1>w, <2>1
  <2>2. CASE r \in Q
    <3>1. \/ \E j \in 1..Len(w) : w[j] = r
          \/ \E s \in Q : <<p, s>> \in E.O /\ (Shut(E, s, r) \/ Shut(E, r, s))
      BY <1>10, <2>2 DEF Read
    <3>2. CASE \E j \in 1..Len(w) : w[j] = r
      <4>1. PICK j \in 1..Len(w) : w[j] = r
        BY <3>2
      <4>2. CASE j \in 1..Len(v)
        BY <1>4, <4>1, <4>2
      <4>3. CASE j = Len(w)
        BY <1>1, <1>2, <1>s, <4>1, <4>3
      <4> QED BY <1>5, <4>2, <4>3
    <3> QED BY <3>1, <3>2
  <2> QED BY <2>1, <2>2
<1>11. p \in Q \cup {x}
  BY <1>1
<1> QED BY <1>2, <1>4, <1>6, <1>7, <1>8, <1>9, <1>10, <1>11 DEF Read

(* when they are not of one kind, nothing that waits is ever closed.       *)
LEMMA ReadMismatch ==
  ASSUME NEW E, Ordered(E), NEW p, NEW Q, NEW w, Read(E, p, Q, w),
         NEW x, Follows(E, Q, x), x \in E.down, w # <<>>, <<w[Len(w)], x>> \notin E.mate,
         NEW q \in E.P, NEW j \in 1..Len(w)
  PROVE  ~ Shut(E, q, w[j])
<1> SUFFICES ASSUME Shut(E, q, w[j]) PROVE FALSE
  OBVIOUS
<1> DEFINE o == w[Len(w)]
<1>1. Q \in SUBSET E.P /\ w \in Seq(Q) /\ p \in Q /\ Len(w) \in Nat
  BY DEF Read
<1>0. Len(w) \in 1..Len(w)
  BY <1>1
<1>2. Paired(E, o, x)
  BY ReadPairs
<1>3. Paired(E, w[j], q)
  BY DEF Shut
<1>4. q \notin Q
  BY <1>3, ReadWaits
<1>f. NextFacts(E, Q, x)
  BY <1>1, LevelOfNext
<1>5. <<x, q>> \in E.O /\ \A r \in Q : <<r, x>> \in E.O
  BY <1>4, <1>f DEF NextFacts
<1>6. o \in Q /\ w[j] \in Q /\ x \in E.P /\ o \in E.P /\ w[j] \in E.P
  BY <1>0, <1>1 DEF Follows
<1>7. <<w[j], o>> \in E.O
  <2>1. CASE j = Len(w)
    BY <1>6, <2>1 DEF Ordered
  <2>2. CASE j # Len(w)
    BY <1>0, <1>1, <2>2 DEF Read
  <2> QED BY <2>1, <2>2
<1> HIDE DEF o
<1>8. <<o, q>> \in E.O /\ <<w[j], x>> \in E.O
  BY <1>5, <1>6 DEF Ordered
<1>9. o \in Segment(E, w[j], q) /\ x \in Segment(E, w[j], q)
  BY <1>5, <1>6, <1>7, <1>8 DEF Segment
<1>10. <<o, x>> \in E.mate
  BY <1>2, <1>9 DEF Shut
<1> QED BY <1>10 DEF o

-----------------------------------------------------------------------------
(* Pairs are the same from behind.                                         *)

LEMMA Greatest ==
  ASSUME NEW E, Ordered(E), NEW S \in SUBSET E.P, S # {}
  PROVE  \E m \in S : \A r \in S : <<r, m>> \in E.O
<1> DEFINE size(x) == Cardinality(Below(E, x))
           all == Cardinality(E.P)
           D == {all - size(x) : x \in S}
<1>1. IsFiniteSet(E.P)
  BY DEF Ordered
<1>2. \A x : Below(E, x) \in SUBSET E.P /\ IsFiniteSet(Below(E, x))
  BY <1>1, FS_Subset DEF Below
<1>3. \A x : size(x) \in Nat /\ size(x) <= all /\ all \in Nat
  BY <1>1, <1>2, FS_Subset, FS_CardinalityType
<1>4. D \in SUBSET Nat /\ D # {}
  <2> HIDE DEF size, all
  <2> QED BY <1>3
<1>5. PICK d \in D : \A e \in D : d <= e
  BY <1>4, LeastNumber
<1>6. PICK m \in S : d = all - size(m)
  OBVIOUS
<1>7. ASSUME NEW r \in S, <<r, m>> \notin E.O PROVE FALSE
  <2>1. <<m, r>> \in E.O /\ <<r, r>> \in E.O
    BY <1>7 DEF Ordered
  <2>2. Below(E, m) \in SUBSET Below(E, r) /\ r \in Below(E, r) /\ r \notin Below(E, m)
    BY <1>7, <2>1 DEF Below, Ordered
  <2>3. size(m) <= size(r) /\ size(m) # size(r)
    BY <1>2, <2>2, FS_Subset
  <2>4. all - size(m) <= all - size(r)
    BY <1>5, <1>6
  <2> HIDE DEF size, all
  <2> QED BY <1>3, <2>3, <2>4
<1> QED BY <1>7

Mirrored(E, F) ==
  /\ F.P = E.P /\ F.up = E.down /\ F.down = E.up
  /\ \A a, b \in E.P : <<a, b>> \in F.O <=> <<b, a>> \in E.O
  /\ \A a, b \in E.P : <<a, b>> \in F.mate <=> <<b, a>> \in E.mate

(* From behind the places are in order, too,                               *)
LEMMA MirrorOrder ==
  ASSUME NEW E, NEW F, Ordered(E), Mirrored(E, F)
  PROVE  Ordered(F) /\ Mirrored(F, E)
<1>1. Mirrored(F, E)
  BY DEF Mirrored
<1>2. Ordered(F)
  BY DEF Mirrored, Ordered
<1> QED BY <1>1, <1>2

(* pairs are pairs                                                         *)
LEMMA MirrorPair ==
  ASSUME NEW E, NEW F, Ordered(E), Mirrored(E, F), NEW p \in E.P, NEW q \in E.P,
         Paired(E, p, q)
  PROVE  Paired(F, q, p)
<1>m. \A a, b \in E.P : <<a, b>> \in F.O <=> <<b, a>> \in E.O
  BY DEF Mirrored
<1>s. \A a, b \in E.P : Segment(F, a, b) = Segment(E, b, a)
  <2> TAKE a, b \in E.P
  <2>1. F.P = E.P
    BY DEF Mirrored
  <2>2. \A r \in E.P : r \in Segment(F, a, b) <=> r \in Segment(E, b, a)
    BY <1>m, <2>1 DEF Segment
  <2>3. Segment(F, a, b) \in SUBSET E.P /\ Segment(E, b, a) \in SUBSET E.P
    BY <2>1 DEF Segment
  <2> QED BY <2>2, <2>3
<1>n. \A S \in SUBSET E.P : Net(E, S) \in Int /\ Net(F, S) = - Net(E, S)
  <2> TAKE S \in SUBSET E.P
  <2> DEFINE u == Cardinality(S \cap E.up)
             d == Cardinality(S \cap E.down)
  <2>1. IsFiniteSet(S \cap E.up) /\ IsFiniteSet(S \cap E.down)
    <3>1. IsFiniteSet(E.P) /\ S \cap E.up \in SUBSET E.P /\ S \cap E.down \in SUBSET E.P
      BY DEF Ordered
    <3> QED BY <3>1, FS_Subset
  <2>2. u \in Nat /\ d \in Nat
    BY <2>1, FS_CardinalityType
  <2>3. Net(E, S) = u - d
    BY DEF Net
  <2>4. F.up = E.down /\ F.down = E.up
    BY DEF Mirrored
  <2>5. Net(F, S) = d - u
    BY <2>4 DEF Net
  <2> HIDE DEF u, d
  <2> QED BY <2>2, <2>3, <2>5
<1>1. p \in E.up /\ q \in E.down /\ <<p, q>> \in E.O
  BY DEF Paired
<1>2. q \in F.up /\ p \in F.down /\ <<q, p>> \in F.O
  BY <1>1, <1>m DEF Mirrored
<1>g. \A a, b : Segment(E, a, b) \in SUBSET E.P
  BY DEF Segment
<1>3. Net(E, Segment(E, p, q)) = 0 /\ Net(F, Segment(F, q, p)) = 0
  <2>1. Net(E, Segment(E, p, q)) = 0
    BY DEF Paired
  <2>2. Net(F, Segment(E, p, q)) = - Net(E, Segment(E, p, q))
    BY <1>g, <1>n
  <2> QED BY <1>s, <2>1, <2>2
<1>4. ASSUME NEW r \in Segment(F, q, p) \ {p}
      PROVE  Net(F, Segment(F, q, r)) > 0
  <2>1. r \in E.P /\ <<p, r>> \in E.O /\ <<r, q>> \in E.O /\ r # p
    BY <1>s DEF Segment
  <2> DEFINE A == {z \in Segment(E, p, q) : <<z, r>> \in E.O /\ z # r}
  <2>2. A \in SUBSET E.P /\ A \in SUBSET Segment(E, p, q)
    BY <1>g
  <2>3. p \in A
    BY <1>1, <2>1 DEF Segment, Ordered
  <2>4. PICK t \in A : \A z \in A : <<z, t>> \in E.O
    BY <2>2, <2>3, Greatest
  <2>5. t \in E.P /\ <<p, t>> \in E.O /\ <<t, q>> \in E.O /\ <<t, r>> \in E.O /\ t # r
    BY <2>2, <2>4 DEF Segment
  <2>6. t # q
    BY <2>1, <2>5 DEF Ordered
  <2>7. Net(E, Segment(E, p, t)) > 0
    BY <2>4, <2>6 DEF Paired
  <2>8. Segment(E, p, t) = A
    <3>1. ASSUME NEW z \in Segment(E, p, t) PROVE z \in A
      <4>1. z \in E.P /\ <<p, z>> \in E.O /\ <<z, t>> \in E.O
        BY DEF Segment
      <4>2. <<z, q>> \in E.O /\ <<z, r>> \in E.O
        BY <2>1, <2>5, <4>1 DEF Ordered
      <4>3. z # r
        BY <2>1, <2>5, <4>1 DEF Ordered
      <4> QED BY <4>1, <4>2, <4>3 DEF Segment
    <3>2. ASSUME NEW z \in A PROVE z \in Segment(E, p, t)
      BY <2>4 DEF Segment
    <3> QED BY <3>1, <3>2
  <2>9. Segment(E, p, q) = A \cup Segment(E, r, q)
    <3>1. ASSUME NEW z \in Segment(E, p, q) PROVE z \in A \cup Segment(E, r, q)
      BY <2>1 DEF Segment, Ordered
    <3>2. ASSUME NEW z \in Segment(E, r, q) PROVE z \in Segment(E, p, q)
      BY <2>1 DEF Segment, Ordered
    <3> QED BY <3>1, <3>2
  <2>10. A \cap Segment(E, r, q) = {}
    BY <2>1 DEF Segment, Ordered
  <2> HIDE DEF A
  <2>11. Net(E, A \cup Segment(E, r, q)) = Net(E, A) + Net(E, Segment(E, r, q))
    BY <1>g, <2>2, <2>10, NetOfTwo
  <2>12. Net(E, A) \in Int /\ Net(E, Segment(E, r, q)) \in Int
         /\ Net(F, Segment(E, r, q)) = - Net(E, Segment(E, r, q))
    BY <1>g, <1>n, <2>2
  <2>13. Segment(F, q, r) = Segment(E, r, q)
    BY <1>s, <2>1
  <2> QED BY <1>3, <2>7, <2>8, <2>9, <2>11, <2>12, <2>13
<1> QED BY <1>2, <1>3, <1>4 DEF Paired

(* and what is closed is closed.                                           *)
LEMMA MirrorShut ==
  ASSUME NEW E, NEW F, Ordered(E), Mirrored(E, F), NEW p \in E.P, NEW q \in E.P
  PROVE  Shut(E, q, p) <=> Shut(F, p, q)
<1>1. ASSUME NEW X, NEW Y, Ordered(X), Mirrored(X, Y), NEW a \in X.P, NEW b \in X.P,
             Shut(X, b, a)
      PROVE  Shut(Y, a, b)
  <2>1. Ordered(Y) /\ Mirrored(Y, X) /\ Y.P = X.P
    BY <1>1, MirrorOrder DEF Mirrored
  <2>2. Paired(Y, b, a)
    BY <1>1, MirrorPair DEF Shut
  <2>3. ASSUME NEW r \in Segment(Y, b, a), NEW s \in Segment(Y, b, a), Paired(Y, r, s)
        PROVE  <<r, s>> \in Y.mate
    <3>1. r \in X.P /\ s \in X.P
      BY <2>1 DEF Segment
    <3>2. Paired(X, s, r)
      BY <2>1, <2>3, <3>1, MirrorPair
    <3>3. r \in Segment(X, a, b) /\ s \in Segment(X, a, b)
      BY <1>1, <2>1, <3>1 DEF Segment, Mirrored
    <3>4. <<s, r>> \in X.mate
      BY <1>1, <3>2, <3>3 DEF Shut
    <3> QED BY <1>1, <3>1, <3>4 DEF Mirrored
  <2> QED BY <2>2, <2>3 DEF Shut
<1>2. Ordered(F) /\ Mirrored(F, E) /\ p \in F.P /\ q \in F.P
  BY MirrorOrder DEF Mirrored
<1>3. Shut(E, q, p) => Shut(F, p, q)
  BY <1>1
<1>4. Shut(F, p, q) => Shut(E, q, p)
  BY <1>1, <1>2
<1> QED BY <1>3, <1>4

-----------------------------------------------------------------------------
(* What a scan keeps of the openers that wait: a stack of symbols, with    *)
(* angles in between.  K.code is the symbol of an opener, K.want that of   *)
(* the opener which a closer wants, and an angle may end at K.ends.        *)

Fits(E, K) ==
  /\ \A a \in E.P : a \in E.up => K.code[a] \in K.symbols /\ K.code[a] # K.angle
  /\ K.angle \in K.symbols
  /\ \A a, b \in E.P : a \in E.up /\ b \in E.down =>
       (K.code[a] = K.want[b] <=> <<a, b>> \in E.mate)

Spelled(K, w, stack, f) ==
  /\ f \in [1..Len(w) -> 1..Len(stack)]
  /\ \A i, j \in 1..Len(w) : i < j => f[i] < f[j]
  /\ \A i \in 1..Len(w) : stack[f[i]] = K.code[w[i]] /\ K.code[w[i]] # K.angle
  /\ \A k \in 1..Len(stack) : stack[k] = K.angle \/ \E i \in 1..Len(w) : f[i] = k

Spells(K, w, stack) ==
  /\ stack \in Seq(K.symbols) /\ Len(w) \in Nat
  /\ \E f : Spelled(K, w, stack, f)

(* A set of numbers below a bound has a greatest one.                      *)
LEMMA GreatestNumber ==
  ASSUME NEW n \in Nat, NEW S \in SUBSET (1..n), S # {}
  PROVE  Max(S) \in S /\ \A k \in S : k <= Max(S)
<1> DEFINE D == {n - k : k \in S}
<1>1. D \in SUBSET Nat /\ D # {}
  <2>1. \A k \in S : n - k \in Nat
    OBVIOUS
  <2>2. PICK k \in S : TRUE
    OBVIOUS
  <2>3. n - k \in D
    BY Zenon
  <2>4. ASSUME NEW d \in D PROVE d \in Nat
    BY <2>1
  <2> QED BY <2>3, <2>4
<1>2. PICK d \in D : \A e \in D : d <= e
  BY <1>1, LeastNumber
<1>3. PICK m \in S : d = n - m
  BY <1>2, Zenon
<1>4. \A k \in S : m >= k
  BY <1>2, <1>3
<1>5. \E m_ \in S : \A k \in S : m_ >= k
  BY <1>4
<1>6. Max(S) \in S /\ \A k \in S : Max(S) >= k
  BY <1>5 DEF Max
<1> QED BY <1>6

(* Without takes the angles from the top.                                  *)
LEMMA WithoutIs ==
  ASSUME NEW T, NEW stack \in Seq(T), NEW angle
  PROVE  \E k \in 0..Len(stack) :
           /\ Without(stack, angle) = SubSeq(stack, 1, k)
           /\ k > 0 => stack[k] # angle
           /\ \A i \in (k + 1)..Len(stack) : stack[i] = angle
<1> DEFINE I == {i \in 1..Len(stack) : stack[i] # angle}
           k == IF I # {} THEN Max(I) ELSE 0
<1>1. Without(stack, angle) = SubSeq(stack, 1, k)
  BY DEF Without, SelectLastInSeq
<1>2. I # {} => Max(I) \in I /\ \A i \in I : i <= Max(I)
  <2>1. Len(stack) \in Nat /\ I \in SUBSET (1..Len(stack))
    OBVIOUS
  <2> HIDE DEF I
  <2> QED BY <2>1, GreatestNumber
<1>3. k \in 0..Len(stack) /\ (k > 0 => k \in I) /\ \A i \in I : i <= k
  BY <1>2
<1> HIDE DEF k
<1>4. \A i \in (k + 1)..Len(stack) : i \in 1..Len(stack) /\ i \notin I
  BY <1>3
<1> QED BY <1>1, <1>3, <1>4

(* The beginning of a sequence.                                            *)
LEMMA SubSeqIs ==
  ASSUME NEW T, NEW s \in Seq(T), NEW k \in 0..Len(s)
  PROVE  /\ SubSeq(s, 1, k) \in Seq(T) /\ Len(SubSeq(s, 1, k)) = k
         /\ \A i \in 1..k : i \in 1..Len(s) /\ SubSeq(s, 1, k)[i] = s[i]
<1>1. \A i \in 1..k : s[i] \in T
  OBVIOUS
<1>2. k \in Int /\ 1 \in Int /\ k >= 0
  OBVIOUS
<1>3. /\ SubSeq(s, 1, k) \in Seq(T)
      /\ Len(SubSeq(s, 1, k)) = IF 1 <= k THEN k - 1 + 1 ELSE 0
      /\ \A i \in 1..(k - 1 + 1) : SubSeq(s, 1, k)[i] = s[1 + i - 1]
  BY <1>1, <1>2, SubSeqProperties
<1>4. Len(SubSeq(s, 1, k)) = k
  BY <1>2, <1>3
<1>5. ASSUME NEW i \in 1..k PROVE i \in 1..Len(s) /\ SubSeq(s, 1, k)[i] = s[i]
  <2>1. i \in 1..(k - 1 + 1) /\ 1 + i - 1 = i
    BY <1>2
  <2>2. SubSeq(s, 1, k)[i] = s[1 + i - 1]
    BY <1>3, <2>1
  <2> QED BY <2>1, <2>2
<1> QED BY <1>3, <1>4, <1>5

(* The stack changes as the openers do.                                    *)
LEMMA SpellsOpener ==
  ASSUME NEW E, NEW K, Fits(E, K), NEW w \in Seq(E.P), NEW stack, Spells(K, w, stack),
         NEW x \in E.P, x \in E.up
  PROVE  Spells(K, Append(w, x), Append(stack, K.code[x]))
<1> DEFINE v == Append(w, x)
           t == Append(stack, K.code[x])
           n == Len(w)
           m == Len(stack)
<1>1. PICK f : Spelled(K, w, stack, f)
  BY DEF Spells
<1>c. K.code[x] \in K.symbols /\ K.code[x] # K.angle
  BY DEF Fits
<1>2. stack \in Seq(K.symbols) /\ n \in Nat /\ m \in Nat
  BY DEF Spells
<1>3. Len(v) = n + 1 /\ v[n + 1] = x /\ \A i \in 1..n : v[i] = w[i]
  OBVIOUS
<1>4. /\ t \in Seq(K.symbols) /\ Len(t) = m + 1 /\ t[m + 1] = K.code[x]
      /\ \A i \in 1..m : t[i] = stack[i]
  <2> DEFINE c == K.code[x]
             S == K.symbols
  <2>1. c \in S /\ stack \in Seq(S)
    BY <1>2, <1>c
  <2> HIDE DEF c, S
  <2>2. /\ Append(stack, c) \in Seq(S) /\ Len(Append(stack, c)) = m + 1
        /\ Append(stack, c)[m + 1] = c
        /\ \A i \in 1..m : Append(stack, c)[i] = stack[i]
    BY <2>1
  <2> QED BY <2>2 DEF c, S
<1> DEFINE g == [i \in 1..(n + 1) |-> IF i = n + 1 THEN m + 1 ELSE f[i]]
<1>5. /\ f \in [1..n -> 1..m]
      /\ \A i, j \in 1..n : i < j => f[i] < f[j]
      /\ \A i \in 1..n : stack[f[i]] = K.code[w[i]] /\ K.code[w[i]] # K.angle
      /\ \A k \in 1..m : stack[k] = K.angle \/ \E i \in 1..n : f[i] = k
  BY <1>1 DEF Spelled
<1> HIDE DEF v, t, n, m
<1>6. /\ g \in [1..(n + 1) -> 1..(m + 1)]
      /\ g[n + 1] = m + 1
      /\ \A i \in 1..n : i # n + 1 /\ g[i] = f[i] /\ f[i] \in 1..m
  BY <1>2, <1>5
<1>7. \A i \in 1..(n + 1) : i = n + 1 \/ i \in 1..n
  BY <1>2
<1>8. \A k \in 1..(m + 1) : k = m + 1 \/ k \in 1..m
  BY <1>2
<1> HIDE DEF g
<1>9. ASSUME NEW i \in 1..(n + 1), NEW j \in 1..(n + 1), i < j PROVE g[i] < g[j]
  <2>1. i \in 1..n
    BY <1>2, <1>9
  <2>2. CASE j = n + 1
    BY <1>2, <1>6, <2>1, <2>2
  <2>3. CASE j \in 1..n
    BY <1>5, <1>6, <1>9, <2>1, <2>3
  <2> QED BY <1>7, <2>2, <2>3
<1>10. ASSUME NEW i \in 1..(n + 1)
       PROVE  t[g[i]] = K.code[v[i]] /\ K.code[v[i]] # K.angle
  <2>1. CASE i = n + 1
    BY <1>3, <1>4, <1>6, <1>c, <2>1
  <2>2. CASE i \in 1..n
    BY <1>3, <1>4, <1>5, <1>6, <2>2
  <2> QED BY <1>7, <2>1, <2>2
<1>11. ASSUME NEW k \in 1..(m + 1)
       PROVE  t[k] = K.angle \/ \E i \in 1..(n + 1) : g[i] = k
  <2>1. CASE k = m + 1
    BY <1>2, <1>6, <2>1
  <2>2. CASE k \in 1..m
    <3>1. CASE stack[k] = K.angle
      BY <1>4, <2>2, <3>1
    <3>2. CASE stack[k] # K.angle
      <4>1. PICK i \in 1..n : f[i] = k
        BY <1>5, <2>2, <3>2
      <4>2. i \in 1..(n + 1) /\ g[i] = k
        BY <1>2, <1>6, <4>1
      <4> QED BY <4>2
    <3> QED BY <3>1, <3>2
  <2> QED BY <1>8, <2>1, <2>2
<1>12. Spelled(K, v, t, g)
  BY <1>3, <1>4, <1>6, <1>9, <1>10, <1>11 DEF Spelled
<1>13. Spells(K, v, t)
  BY <1>2, <1>3, <1>4, <1>12 DEF Spells
<1> QED BY <1>13 DEF v, t

(* An angle bracket is put on top,                                         *)
LEMMA SpellsAngle ==
  ASSUME NEW K, NEW w, NEW stack, Spells(K, w, stack), K.angle \in K.symbols
  PROVE  Spells(K, w, Append(stack, K.angle))
<1> DEFINE t == Append(stack, K.angle)
           n == Len(w)
           m == Len(stack)
<1>1. PICK f : Spelled(K, w, stack, f)
  BY DEF Spells
<1>2. stack \in Seq(K.symbols) /\ n \in Nat /\ m \in Nat
  BY DEF Spells
<1>4. /\ t \in Seq(K.symbols) /\ Len(t) = m + 1 /\ t[m + 1] = K.angle
      /\ \A i \in 1..m : t[i] = stack[i]
  <2> DEFINE c == K.angle
             S == K.symbols
  <2>1. c \in S /\ stack \in Seq(S)
    BY <1>2
  <2> HIDE DEF c, S
  <2>2. /\ Append(stack, c) \in Seq(S) /\ Len(Append(stack, c)) = m + 1
        /\ Append(stack, c)[m + 1] = c
        /\ \A i \in 1..m : Append(stack, c)[i] = stack[i]
    BY <2>1
  <2> QED BY <2>2 DEF c, S
<1>5. /\ f \in [1..n -> 1..m]
      /\ \A i, j \in 1..n : i < j => f[i] < f[j]
      /\ \A i \in 1..n : stack[f[i]] = K.code[w[i]] /\ K.code[w[i]] # K.angle
      /\ \A k \in 1..m : stack[k] = K.angle \/ \E i \in 1..n : f[i] = k
  BY <1>1 DEF Spelled
<1> HIDE DEF t, n, m
<1>6. f \in [1..n -> 1..(m + 1)] /\ \A i \in 1..n : f[i] \in 1..m
  BY <1>2, <1>5
<1>8. \A k \in 1..(m + 1) : k = m + 1 \/ k \in 1..m
  BY <1>2
<1>10. \A i \in 1..n : t[f[i]] = K.code[w[i]] /\ K.code[w[i]] # K.angle
  BY <1>4, <1>5, <1>6
<1>11. \A k \in 1..(m + 1) : t[k] = K.angle \/ \E i \in 1..n : f[i] = k
  BY <1>4, <1>5, <1>8
<1>12. Spelled(K, w, t, f)
  BY <1>4, <1>5, <1>6, <1>10, <1>11 DEF Spelled, n
<1>13. Spells(K, w, t)
  BY <1>2, <1>4, <1>12 DEF Spells, n
<1> QED BY <1>13 DEF t

(* or angle brackets are taken from the top.                               *)
LEMMA SpellsWithout ==
  ASSUME NEW K, NEW w, NEW stack, Spells(K, w, stack), NEW k \in 0..Len(stack),
         \A i \in (k + 1)..Len(stack) : stack[i] = K.angle
  PROVE  Spells(K, w, SubSeq(stack, 1, k))
<1> DEFINE t == SubSeq(stack, 1, k)
           n == Len(w)
           m == Len(stack)
<1>1. PICK f : Spelled(K, w, stack, f)
  BY DEF Spells
<1>2. stack \in Seq(K.symbols) /\ n \in Nat /\ m \in Nat
  BY DEF Spells
<1>4. /\ t \in Seq(K.symbols) /\ Len(t) = k
      /\ \A i \in 1..k : i \in 1..m /\ t[i] = stack[i]
  BY <1>2, SubSeqIs
<1>5. /\ f \in [1..n -> 1..m]
      /\ \A i, j \in 1..n : i < j => f[i] < f[j]
      /\ \A i \in 1..n : stack[f[i]] = K.code[w[i]] /\ K.code[w[i]] # K.angle
      /\ \A l \in 1..m : stack[l] = K.angle \/ \E i \in 1..n : f[i] = l
  BY <1>1 DEF Spelled
<1>k. k \in 0..m /\ \A i \in (k + 1)..m : stack[i] = K.angle
  OBVIOUS
<1> HIDE DEF t, n, m
<1>6. ASSUME NEW i \in 1..n PROVE f[i] \in 1..k
  <2>1. f[i] \in 1..m /\ stack[f[i]] # K.angle
    BY <1>5
  <2>2. f[i] \notin (k + 1)..m
    BY <1>k, <2>1
  <2> QED BY <1>2, <1>k, <2>1, <2>2
<1>7. f \in [1..n -> 1..k]
  BY <1>5, <1>6
<1>10. \A i \in 1..n : t[f[i]] = K.code[w[i]] /\ K.code[w[i]] # K.angle
  BY <1>4, <1>5, <1>6
<1>11. \A l \in 1..k : t[l] = K.angle \/ \E i \in 1..n : f[i] = l
  BY <1>4, <1>5
<1>12. Spelled(K, w, t, f)
  BY <1>4, <1>5, <1>7, <1>10, <1>11 DEF Spelled, n
<1>13. Spells(K, w, t)
  BY <1>2, <1>4, <1>12 DEF Spells, n
<1> QED BY <1>13 DEF t

(* The symbol on top is that of the last opener.                           *)
TopIs(K, w, stack) ==
  /\ w # <<>> /\ Len(w) \in 1..Len(w)
  /\ K.code[w[Len(w)]] = stack[Len(stack)]
  /\ Spells(K, SubSeq(w, 1, Len(w) - 1), SubSeq(stack, 1, Len(stack) - 1))
  /\ Len(stack) = 1 => Len(w) = 1
  /\ Len(stack) > 1 /\ stack[1] # K.angle => Len(w) > 1

(* What is on top is the last opener that waits.                           *)
LEMMA SpellsTop ==
  ASSUME NEW E, NEW K, NEW w \in Seq(E.P), NEW stack, Spells(K, w, stack),
         stack # <<>>, stack[Len(stack)] # K.angle
  PROVE  TopIs(K, w, stack)
<1> DEFINE n == Len(w)
           m == Len(stack)
           v == SubSeq(w, 1, n - 1)
           t == SubSeq(stack, 1, m - 1)
<1>1. PICK f : Spelled(K, w, stack, f)
  BY DEF Spells
<1>2. stack \in Seq(K.symbols) /\ n \in Nat /\ m \in Nat
  BY DEF Spells
<1>3. m # 0 /\ m - 1 \in 0..m /\ m \in 1..m /\ 1 \in 1..m
  BY <1>2
<1>5. /\ f \in [1..n -> 1..m]
      /\ \A i, j \in 1..n : i < j => f[i] < f[j]
      /\ \A i \in 1..n : stack[f[i]] = K.code[w[i]] /\ K.code[w[i]] # K.angle
      /\ \A l \in 1..m : stack[l] = K.angle \/ \E i \in 1..n : f[i] = l
  BY <1>1 DEF Spelled
<1>a. stack[m] # K.angle
  OBVIOUS
<1>6. PICK i \in 1..n : f[i] = m
  BY <1>3, <1>5, <1>a
<1>7. i = n /\ n \in 1..n /\ n - 1 \in 0..n
  <2>1. n \in 1..n /\ n - 1 \in 0..n
    BY <1>2
  <2>2. ASSUME i # n PROVE FALSE
    <3>1. i < n
      BY <2>2
    <3>2. f[i] < f[n] /\ f[n] \in 1..m
      BY <1>5, <2>1, <3>1
    <3> QED BY <1>2, <1>6, <3>2
  <2> QED BY <2>1, <2>2
<1>8. f[n] = m
  BY <1>6, <1>7
<1>9. w # <<>> /\ K.code[w[n]] = stack[m]
  BY <1>5, <1>7, <1>8
<1>v. Len(v) = n - 1 /\ \A j \in 1..(n - 1) : j \in 1..n /\ v[j] = w[j]
  BY <1>7, SubSeqIs
<1>t. t \in Seq(K.symbols) /\ Len(t) = m - 1 /\ \A j \in 1..(m - 1) : j \in 1..m /\ t[j] = stack[j]
  BY <1>2, <1>3, SubSeqIs
<1> HIDE DEF n, m, v, t
<1>10. \A j \in 1..(n - 1) : f[j] \in 1..(m - 1)
  <2> TAKE j \in 1..(n - 1)
  <2>1. f[j] < f[n] /\ f[j] \in 1..m
    BY <1>2, <1>5, <1>7, <1>v
  <2> QED BY <1>2, <1>8, <2>1
<1> DEFINE g == [j \in 1..(n - 1) |-> f[j]]
<1>11. g \in [1..(n - 1) -> 1..(m - 1)] /\ \A j \in 1..(n - 1) : g[j] = f[j]
  BY <1>10
<1> HIDE DEF g
<1>12. \A j, l \in 1..(n - 1) : j < l => g[j] < g[l]
  BY <1>5, <1>11, <1>v
<1>13. \A j \in 1..(n - 1) : t[g[j]] = K.code[v[j]] /\ K.code[v[j]] # K.angle
  BY <1>5, <1>10, <1>11, <1>v, <1>t
<1>14. ASSUME NEW l \in 1..(m - 1) PROVE t[l] = K.angle \/ \E j \in 1..(n - 1) : g[j] = l
  <2>1. CASE stack[l] = K.angle
    BY <1>t, <2>1
  <2>2. CASE stack[l] # K.angle
    <3>1. PICK j \in 1..n : f[j] = l
      BY <1>5, <1>t, <2>2
    <3>2. j # n
      BY <1>2, <1>8, <3>1
    <3>3. j \in 1..(n - 1)
      BY <1>2, <3>1, <3>2
    <3> QED BY <1>11, <3>1, <3>3
  <2> QED BY <2>1, <2>2
<1>15. Spelled(K, v, t, g)
  BY <1>11, <1>12, <1>13, <1>14, <1>v, <1>t DEF Spelled
<1>16. Spells(K, v, t)
  BY <1>2, <1>7, <1>15, <1>v, <1>t DEF Spells
<1>17. m = 1 => n = 1
  <2> SUFFICES ASSUME m = 1, n # 1 PROVE FALSE
    OBVIOUS
  <2>1. 1 \in 1..(n - 1)
    BY <1>2, <1>7
  <2> QED BY <1>10, <2>1
<1>18. m > 1 /\ stack[1] # K.angle => n > 1
  <2> SUFFICES ASSUME m > 1, stack[1] # K.angle, n = 1 PROVE FALSE
    BY <1>2, <1>7
  <2>1. PICK j \in 1..n : f[j] = 1
    BY <1>3, <1>5
  <2>2. j = n
    BY <2>1
  <2> QED BY <1>8, <2>1, <2>2
<1> QED BY <1>7, <1>9, <1>16, <1>17, <1>18 DEF n, m, v, t, TopIs

-----------------------------------------------------------------------------
(* One step of a scan.                                                     *)

Move(E, K, x, at, stack, res) ==
  LET rest == Without(stack, K.angle)
  IN  /\ x \in E.up => res = Scanning(Append(stack, K.code[x]))
      /\ x \in E.down /\ rest # <<>> /\ Last(rest) = K.want[x] => res = Popped(rest, at)
      /\ x \in E.down /\ ~ (rest # <<>> /\ Last(rest) = K.want[x]) => res = Lost
      /\ x \notin E.up \cup E.down =>
           \/ res = Scanning(stack)
           \/ res = Scanning(Append(stack, K.angle))
           \/ stack # <<>> /\ Last(stack) = K.angle /\ res = Popped(stack, 0)
           \/ stack # <<>> /\ Last(stack) = K.angle /\ res = Popped(stack, at) /\ x \in K.ends
           \/ rest = <<>> /\ res = Lost
           \/ rest # <<>> /\ res = Scanning(rest)

(* What begins at p still waits for its end,                               *)
Waits(E, K, p, Q, stack) ==
  /\ stack # <<>>
  /\ \E w : /\ Read(E, p, Q, w) /\ Spells(K, w, stack)
            /\ p \in E.up => w # <<>> /\ w[1] = p
  /\ IF p \in E.up THEN stack[1] # K.angle ELSE stack[1] = K.angle

(* it has none,                                                            *)
Hopeless(E, p) == p \in E.up => \A q \in E.P : ~ Shut(E, q, p)

(* or it ends at x.                                                        *)
Answer(E, K, p, x) ==
  /\ p \in E.up => Shut(E, x, p)
  /\ p \notin E.up => /\ x \in K.ends
                      /\ \A r \in Segment(E, p, x) \cap (E.up \cup E.down) :
                           \E s \in Segment(E, p, x) : Shut(E, s, r) \/ Shut(E, r, s)

Outcome(E, K, p, Q, x, at, res) ==
  \/ ~ res.over /\ res.pos = 0 /\ Waits(E, K, p, Q, res.stack)
  \/ res.over /\ res.pos = 0 /\ Hopeless(E, p)
  \/ res.over /\ res.pos = at /\ Answer(E, K, p, x)

(* At the end of the text it has none.                                     *)
LEMMA WaitsInVain ==
  ASSUME NEW E, Ordered(E), NEW K, NEW p, NEW Q, NEW stack, Waits(E, K, p, Q, stack)
  PROVE  p \in E.up => \A q \in Q : ~ Shut(E, q, p)
<1> SUFFICES ASSUME p \in E.up, NEW q \in Q, Shut(E, q, p) PROVE FALSE
  OBVIOUS
<1>1. PICK w : Read(E, p, Q, w) /\ w # <<>> /\ w[1] = p
  BY DEF Waits
<1>2. 1 \in 1..Len(w)
  BY <1>1 DEF Read
<1>3. ~ Paired(E, w[1], q)
  BY <1>1, <1>2, ReadWaits
<1> QED BY <1>1, <1>3 DEF Shut

(* The results of a step.                                                  *)
LEMMA ScanningIs ==
  ASSUME NEW stack
  PROVE  /\ Scanning(stack).stack = stack /\ ~ Scanning(stack).over /\ Scanning(stack).pos = 0
         /\ \A at : Found(at).over /\ Found(at).pos = at
  BY DEF Scanning, Found

(* A pop of something that is not the last.                                *)
LEMMA PoppedIs ==
  ASSUME NEW stack, NEW at, NEW res, res = Popped(stack, at)
  PROVE  /\ Len(stack) = 1 => res.over /\ res.pos = at
         /\ Len(stack) # 1 => /\ ~ res.over /\ res.pos = 0
                              /\ res.stack = SubSeq(stack, 1, Len(stack) - 1)
  BY ScanningIs DEF Popped, Front

(* One step of the scan keeps what it has read.                            *)
LEMMA OneStep ==
  ASSUME NEW E, Ordered(E), NEW K, Fits(E, K), NEW p, NEW Q, NEW stack,
         Waits(E, K, p, Q, stack),
         NEW x, Follows(E, Q, x), NEW at, NEW res, Move(E, K, x, at, stack, res)
  PROVE  Outcome(E, K, p, Q \cup {x}, x, at, res)
<1> DEFINE rest == Without(stack, K.angle)
<1>1. PICK w : /\ Read(E, p, Q, w) /\ Spells(K, w, stack)
               /\ p \in E.up => w # <<>> /\ w[1] = p
  BY DEF Waits
<1>2. /\ stack # <<>> /\ stack \in Seq(K.symbols) /\ Len(stack) \in Nat
      /\ IF p \in E.up THEN stack[1] # K.angle ELSE stack[1] = K.angle
  BY <1>1 DEF Waits, Spells
<1>3. Q \in SUBSET E.P /\ w \in Seq(E.P) /\ Len(w) \in Nat /\ x \in E.P /\ p \in Q
  BY <1>1 DEF Read, Follows
<1>4. K.angle \in K.symbols /\ Len(stack) >= 1
  BY <1>2 DEF Fits
<1>5. PICK k \in 0..Len(stack) :
           /\ rest = SubSeq(stack, 1, k)
           /\ k > 0 => stack[k] # K.angle
           /\ \A i \in (k + 1)..Len(stack) : stack[i] = K.angle
  BY <1>2, WithoutIs
<1>6. /\ Len(rest) = k /\ Spells(K, w, rest) /\ \A i \in 1..k : rest[i] = stack[i]
      /\ rest \in Seq(K.symbols)
  <2>1. Spells(K, w, SubSeq(stack, 1, k))
    BY <1>1, <1>5, SpellsWithout
  <2>2. /\ SubSeq(stack, 1, k) \in Seq(K.symbols) /\ Len(SubSeq(stack, 1, k)) = k
        /\ \A i \in 1..k : SubSeq(stack, 1, k)[i] = stack[i]
    <3> DEFINE T == K.symbols
    <3>1. stack \in Seq(T) /\ k \in 0..Len(stack)
      BY <1>2
    <3> HIDE DEF T
    <3>2. /\ SubSeq(stack, 1, k) \in Seq(T) /\ Len(SubSeq(stack, 1, k)) = k
          /\ \A i \in 1..k : SubSeq(stack, 1, k)[i] = stack[i]
      BY <3>1, SubSeqIs
    <3> QED BY <3>2 DEF T
  <2> QED BY <1>5, <2>1, <2>2
<1> HIDE DEF rest
<1>r. rest # <<>> => /\ k \in 1..k /\ 1 \in 1..k /\ rest[Len(rest)] # K.angle
                     /\ rest[1] = stack[1] /\ Last(rest) = rest[Len(rest)]
  <2> SUFFICES ASSUME rest # <<>>
               PROVE  /\ k \in 1..k /\ 1 \in 1..k /\ rest[Len(rest)] # K.angle
                      /\ rest[1] = stack[1] /\ Last(rest) = rest[Len(rest)]
    OBVIOUS
  <2>1. k # 0
    BY <1>6, EmptySeq
  <2>2. k \in 1..k /\ 1 \in 1..k /\ k > 0
    BY <2>1
  <2>3. rest[Len(rest)] # K.angle /\ rest[1] = stack[1]
    BY <1>5, <1>6, <2>2
  <2> QED BY <2>2, <2>3 DEF Last
<1>w. \A j \in 1..Len(w) : w[j] \in E.up /\ w[j] \in E.P
  <2> TAKE j \in 1..Len(w)
  <2>1. w[j] \in E.P
    BY <1>3
  <2>2. w[j] \in E.up
    BY <1>1 DEF Read
  <2> QED BY <2>1, <2>2
<1>u. p \in E.up => rest # <<>>
  BY <1>2, <1>4, <1>5, <1>6
<1>7. CASE x \in E.up
  <2>1. res = Scanning(Append(stack, K.code[x]))
    BY <1>7 DEF Move
  <2>2. ~ res.over /\ res.pos = 0 /\ res.stack = Append(stack, K.code[x])
    BY <2>1, ScanningIs
  <2>3. Read(E, p, Q \cup {x}, Append(w, x))
    BY <1>1, <1>7, ReadOpener
  <2>4. Spells(K, Append(w, x), Append(stack, K.code[x]))
    BY <1>1, <1>3, <1>7, SpellsOpener
  <2>5. p \in E.up => Append(w, x) # <<>> /\ Append(w, x)[1] = p
    <3> SUFFICES ASSUME p \in E.up PROVE Append(w, x) # <<>> /\ Append(w, x)[1] = p
      OBVIOUS
    <3>1. 1 \in 1..Len(w) /\ w[1] = p
      BY <1>1, <1>3
    <3> QED BY <1>3, <3>1
  <2>6. Append(stack, K.code[x]) # <<>> /\ Append(stack, K.code[x])[1] = stack[1]
    <3>a. K.code[x] \in K.symbols
      BY <1>3, <1>7 DEF Fits
    <3>b. 1 \in 1..Len(stack)
      BY <1>2, <1>4
    <3>1. K.code[x] \in K.symbols /\ 1 \in 1..Len(stack)
      BY <3>a, <3>b
    <3> DEFINE c == K.code[x]
    <3>2. c \in K.symbols
      BY <3>1
    <3> HIDE DEF c
    <3>3. Append(stack, c) # <<>> /\ Append(stack, c)[1] = stack[1]
      BY <1>2, <3>1, <3>2, AppendProperties
    <3> QED BY <3>3 DEF c
  <2>7. Waits(E, K, p, Q \cup {x}, res.stack)
    BY <1>2, <2>2, <2>3, <2>4, <2>5, <2>6 DEF Waits
  <2> QED BY <2>2, <2>7 DEF Outcome
<1>8. CASE x \in E.down
  <2>0. x \notin E.up
    BY <1>8 DEF Ordered
  <2>1. CASE rest # <<>> /\ Last(rest) = K.want[x]
    <3>1. res = Popped(rest, at)
      BY <1>8, <2>1 DEF Move, rest
    <3>t. TopIs(K, w, rest)
      BY <1>3, <1>6, <1>r, <2>1, SpellsTop
    <3>2. /\ w # <<>> /\ Len(w) \in 1..Len(w)
          /\ K.code[w[Len(w)]] = rest[Len(rest)]
          /\ Spells(K, SubSeq(w, 1, Len(w) - 1), SubSeq(rest, 1, Len(rest) - 1))
          /\ Len(rest) = 1 => Len(w) = 1
          /\ Len(rest) > 1 /\ rest[1] # K.angle => Len(w) > 1
      BY <3>t DEF TopIs
    <3>3. w[Len(w)] \in E.up /\ w[Len(w)] \in E.P
      BY <1>w, <3>2
    <3>4. <<w[Len(w)], x>> \in E.mate
      BY <1>3, <1>8, <1>r, <2>1, <3>2, <3>3 DEF Fits
    <3>5. CASE Len(rest) = 1
      <4>1. res.over /\ res.pos = at
        BY <3>1, <3>5, PoppedIs
      <4>2. p \in E.up
        BY <1>2, <1>6, <1>r, <2>1, <3>5
      <4>3. w[Len(w)] = p
        BY <1>1, <3>2, <3>5, <4>2
      <4>4. Shut(E, x, p)
        BY <1>1, <1>8, <3>2, <3>4, <4>3, ReadPairs
      <4> QED BY <4>1, <4>2, <4>4 DEF Outcome, Answer
    <3>6. CASE Len(rest) # 1
      <4> DEFINE v == SubSeq(w, 1, Len(w) - 1)
                 t == SubSeq(rest, 1, Len(rest) - 1)
      <4>1. ~ res.over /\ res.pos = 0 /\ res.stack = t
        BY <3>1, <3>6, PoppedIs
      <4>2. Read(E, p, Q \cup {x}, v)
        BY <1>1, <1>8, <3>2, <3>4, ReadCloser
      <4>3. Len(rest) > 1 /\ Len(rest) - 1 \in 0..Len(rest) /\ 1 \in 1..(Len(rest) - 1)
        BY <1>5, <1>6, <1>r, <2>1, <3>6
      <4>4. t # <<>> /\ t[1] = stack[1]
        BY <1>6, <1>r, <2>1, <4>3, SubSeqIs
      <4>5. p \in E.up => v # <<>> /\ v[1] = p
        <5> SUFFICES ASSUME p \in E.up PROVE v # <<>> /\ v[1] = p
          OBVIOUS
        <5>1. Len(w) > 1
          BY <1>2, <1>r, <2>1, <3>2, <4>3
        <5>2. Len(w) - 1 \in 0..Len(w) /\ 1 \in 1..(Len(w) - 1)
          BY <1>3, <5>1
        <5>3. Len(v) = Len(w) - 1 /\ v[1] = w[1]
          BY <1>3, <5>2, SubSeqIs
        <5> HIDE DEF v
        <5>4. v # <<>>
          BY <5>2, <5>3
        <5>5. v[1] = p
          BY <1>1, <5>3
        <5> QED BY <5>4, <5>5
      <4>6. Spells(K, v, t)
        BY <3>2
      <4> HIDE DEF v, t
      <4>7. Waits(E, K, p, Q \cup {x}, res.stack)
        BY <1>2, <4>1, <4>2, <4>4, <4>5, <4>6 DEF Waits
      <4> QED BY <4>1, <4>7 DEF Outcome
    <3> QED BY <3>5, <3>6
  <2>2. CASE ~ (rest # <<>> /\ Last(rest) = K.want[x])
    <3>1. res = Lost
      BY <1>8, <2>2 DEF Move, rest
    <3>2. res.over /\ res.pos = 0
      BY <3>1, ScanningIs DEF Lost
    <3>3. Hopeless(E, p)
      <4> SUFFICES ASSUME p \in E.up, NEW q \in E.P PROVE ~ Shut(E, q, p)
        BY DEF Hopeless
      <4>1. rest # <<>> /\ Last(rest) # K.want[x]
        BY <1>u, <2>2
      <4>t. TopIs(K, w, rest)
        BY <1>3, <1>6, <1>r, <4>1, SpellsTop
      <4>2. /\ w # <<>> /\ Len(w) \in 1..Len(w)
            /\ K.code[w[Len(w)]] = rest[Len(rest)]
        BY <4>t DEF TopIs
      <4>3. w[Len(w)] \in E.up /\ w[Len(w)] \in E.P
        BY <1>w, <4>2
      <4>4. <<w[Len(w)], x>> \notin E.mate
        BY <1>3, <1>8, <1>r, <4>1, <4>2, <4>3 DEF Fits
      <4>5. 1 \in 1..Len(w)
        BY <1>3, <4>2
      <4>6. ~ Shut(E, q, w[1])
        BY <1>1, <1>8, <4>2, <4>4, <4>5, ReadMismatch
      <4> QED BY <1>1, <4>6
    <3> QED BY <3>2, <3>3 DEF Outcome
  <2> QED BY <2>1, <2>2
<1>9. CASE x \notin E.up \cup E.down
  <2>1. Read(E, p, Q \cup {x}, w)
    BY <1>1, <1>9, ReadOther
  <2>2. ASSUME NEW t, Spells(K, w, t), t # <<>>, t[1] = stack[1], res = Scanning(t)
        PROVE  Outcome(E, K, p, Q \cup {x}, x, at, res)
    <3>1. ~ res.over /\ res.pos = 0 /\ res.stack = t
      BY <2>2, ScanningIs
    <3>2. Waits(E, K, p, Q \cup {x}, t)
      BY <1>1, <1>2, <2>1, <2>2 DEF Waits
    <3> QED BY <3>1, <3>2 DEF Outcome
  <2>3. CASE res = Scanning(stack)
    BY <1>1, <1>2, <2>2, <2>3
  <2>4. CASE res = Scanning(Append(stack, K.angle))
    <3> DEFINE c == K.angle
    <3>1. c \in K.symbols /\ 1 \in 1..Len(stack)
      BY <1>2, <1>4
    <3> HIDE DEF c
    <3>2. Append(stack, c) # <<>> /\ Append(stack, c)[1] = stack[1]
      BY <1>2, <3>1, AppendProperties
    <3>3. Spells(K, w, Append(stack, K.angle))
      BY <1>1, <1>4, SpellsAngle
    <3> QED BY <2>2, <2>4, <3>2, <3>3 DEF c
  <2>5. CASE rest = <<>> /\ res = Lost
    <3>1. res.over /\ res.pos = 0
      BY <2>5, ScanningIs DEF Lost
    <3>2. Hopeless(E, p)
      BY <1>u, <2>5 DEF Hopeless
    <3> QED BY <3>1, <3>2 DEF Outcome
  <2>6. CASE rest # <<>> /\ res = Scanning(rest)
    BY <1>6, <1>r, <2>2, <2>6
  <2>7. ASSUME NEW a, Last(stack) = K.angle, res = Popped(stack, a),
               a = 0 \/ (a = at /\ x \in K.ends)
        PROVE  Outcome(E, K, p, Q \cup {x}, x, at, res)
    <3>l. stack[Len(stack)] = K.angle
      BY <2>7 DEF Last
    <3>1. CASE Len(stack) = 1
      <4>1. res.over /\ res.pos = a
        BY <2>7, <3>1, PoppedIs
      <4>2. p \notin E.up
        BY <1>2, <3>1, <3>l
      <4>3. Hopeless(E, p)
        BY <4>2 DEF Hopeless
      <4>4. CASE a = 0
        BY <4>1, <4>3, <4>4 DEF Outcome
      <4>5. CASE a = at /\ x \in K.ends
        <5>0. Len(w) = 0
          <6>1. PICK f : Spelled(K, w, stack, f)
            BY <1>1 DEF Spells
          <6>2. ASSUME Len(w) # 0 PROVE FALSE
            <7>1. 1 \in 1..Len(w)
              BY <1>3, <6>2
            <7>2. f[1] \in 1..Len(stack) /\ stack[f[1]] # K.angle
              BY <6>1, <7>1 DEF Spelled
            <7> QED BY <3>1, <3>l, <7>2
          <6> QED BY <6>2
        <5>1. ASSUME NEW r \in Segment(E, p, x) \cap (E.up \cup E.down)
              PROVE  \E s \in Segment(E, p, x) : Shut(E, s, r) \/ Shut(E, r, s)
          <6>1. r \in E.P /\ <<p, r>> \in E.O /\ <<r, x>> \in E.O
            BY DEF Segment
          <6>2. r \in Q \cup {x}
            BY <6>1 DEF Follows, Below
          <6>q. r \in (Q \cup {x}) \cap (E.up \cup E.down)
            BY <6>2
          <6>w. ~ \E j \in 1..Len(w) : w[j] = r
            BY <5>0
          <6>3. PICK s \in Q \cup {x} : <<p, s>> \in E.O /\ (Shut(E, s, r) \/ Shut(E, r, s))
            BY <2>1, <6>1, <6>q, <6>w DEF Read
          <6>4. s \in E.P /\ <<s, x>> \in E.O
            BY DEF Follows, Below
          <6>5. s \in Segment(E, p, x)
            BY <6>3, <6>4 DEF Segment
          <6> QED BY <6>3, <6>5
        <5>2. Answer(E, K, p, x)
          BY <4>2, <4>5, <5>1 DEF Answer
        <5> QED BY <4>1, <4>5, <5>2 DEF Outcome
      <4> QED BY <2>7, <4>4, <4>5
    <3>2. CASE Len(stack) # 1
      <4> DEFINE t == SubSeq(stack, 1, Len(stack) - 1)
      <4>1. ~ res.over /\ res.pos = 0 /\ res.stack = t
        BY <2>7, <3>2, PoppedIs
      <4>2. Len(stack) - 1 \in 0..Len(stack) /\ 1 \in 1..(Len(stack) - 1)
        <5> DEFINE m == Len(stack)
        <5>1. m \in Nat /\ m >= 1 /\ m # 1
          BY <1>2, <1>4, <3>2
        <5> HIDE DEF m
        <5>2. m - 1 \in 0..m /\ 1 \in 1..(m - 1)
          BY <5>1
        <5> QED BY <5>2 DEF m
      <4>3. t # <<>> /\ t[1] = stack[1]
        <5>1. Len(t) = Len(stack) - 1 /\ t[1] = stack[1]
          BY <1>2, <4>2, SubSeqIs
        <5> HIDE DEF t
        <5> QED BY <4>2, <5>1
      <4>4. \A i \in (Len(stack) - 1 + 1)..Len(stack) : stack[i] = K.angle
        BY <1>2, <3>l
      <4>5. Spells(K, w, t)
        BY <1>1, <4>2, <4>4, SpellsWithout
      <4> HIDE DEF t
      <4>6. Waits(E, K, p, Q \cup {x}, res.stack)
        BY <1>1, <1>2, <2>1, <4>1, <4>3, <4>5 DEF Waits
      <4> QED BY <4>1, <4>6 DEF Outcome
    <3> QED BY <3>1, <3>2
  <2>8. \/ res = Scanning(stack)
        \/ res = Scanning(Append(stack, K.angle))
        \/ stack # <<>> /\ Last(stack) = K.angle /\ res = Popped(stack, 0)
        \/ stack # <<>> /\ Last(stack) = K.angle /\ res = Popped(stack, at) /\ x \in K.ends
        \/ rest = <<>> /\ res = Lost
        \/ rest # <<>> /\ res = Scanning(rest)
    BY <1>9 DEF Move, rest
  <2> QED BY <2>3, <2>4, <2>5, <2>6, <2>7, <2>8
<1> QED BY <1>7, <1>8, <1>9

(* The scan starts with the symbol of p.                                   *)
LEMMA WaitsFirst ==
  ASSUME NEW E, Ordered(E), NEW K, Fits(E, K), NEW p \in E.P
  PROVE  /\ p \in E.up => Waits(E, K, p, Below(E, p), <<K.code[p]>>)
         /\ p \notin E.up \cup E.down => Waits(E, K, p, Below(E, p), <<K.angle>>)
<1>1. ASSUME p \in E.up PROVE Waits(E, K, p, Below(E, p), <<K.code[p]>>)
  <2> DEFINE c == K.code[p]
  <2>1. c \in K.symbols /\ c # K.angle
    BY <1>1 DEF Fits
  <2>2. Read(E, p, Below(E, p), <<p>>)
    BY <1>1, ReadFirst
  <2> DEFINE f == [i \in 1..1 |-> 1]
  <2>3. f \in [1..1 -> 1..1] /\ f[1] = 1 /\ \A i \in 1..1 : i = 1
    OBVIOUS
  <2>4. /\ Len(<<c>>) = 1 /\ <<c>>[1] = c /\ Len(<<p>>) = 1 /\ <<p>>[1] = p
        /\ <<c>> \in Seq(K.symbols) /\ <<c>> # <<>> /\ <<p>> # <<>>
    <3>1. c \in K.symbols
      BY <2>1
    <3> HIDE DEF c
    <3> DEFINE S == K.symbols
    <3>2. c \in S
      BY <3>1
    <3> HIDE DEF S
    <3>3. <<c>> \in Seq(S)
      BY <3>2
    <3> QED BY <3>3 DEF S
  <2> HIDE DEF f
  <2>5. Spelled(K, <<p>>, <<c>>, f)
    BY <2>1, <2>3, <2>4 DEF Spelled
  <2>6. Spells(K, <<p>>, <<c>>)
    BY <2>4, <2>5 DEF Spells
  <2> QED BY <1>1, <2>1, <2>2, <2>4, <2>6 DEF Waits
<1>2. ASSUME p \notin E.up \cup E.down PROVE Waits(E, K, p, Below(E, p), <<K.angle>>)
  <2>1. Read(E, p, Below(E, p), <<>>)
    BY <1>2, ReadFirst
  <2> DEFINE a == K.angle
             S == K.symbols
             f == [i \in 1..0 |-> 1]
  <2>2. a \in S
    BY DEF Fits
  <2>3. f \in [1..0 -> 1..1] /\ \A i \in 1..0 : FALSE
    OBVIOUS
  <2> HIDE DEF a, S, f
  <2>4. /\ Len(<<a>>) = 1 /\ <<a>>[1] = a /\ Len(<<>>) = 0
        /\ <<a>> \in Seq(S) /\ <<a>> # <<>> /\ \A i \in 1..1 : i = 1
    BY <2>2
  <2>5. Spelled(K, <<>>, <<a>>, f)
    BY <2>3, <2>4 DEF Spelled, a
  <2>6. Spells(K, <<>>, <<a>>)
    BY <2>4, <2>5 DEF Spells, S
  <2>7. p \notin E.up
    BY <1>2
  <2> QED BY <2>1, <2>4, <2>6, <2>7 DEF Waits, a
<1> QED BY <1>1, <1>2

(* Many steps, of which the k-th reads xs[k].                              *)
Walk(E, K, p, m, g, xs, as, Qs) ==
  /\ ~ g[0].over /\ g[0].pos = 0 /\ Waits(E, K, p, Qs[0], g[0].stack)
  /\ \A k \in 1..m :
       /\ Follows(E, Qs[k - 1], xs[k]) /\ Qs[k] = Qs[k - 1] \cup {xs[k]}
       /\ g[k - 1].over => g[k] = g[k - 1]
       /\ ~ g[k - 1].over /\ g[k - 1].pos = 0 /\ g[k - 1].stack # <<>> =>
            Move(E, K, xs[k], as[k], g[k - 1].stack, g[k])

Walked(E, K, p, m, g, xs, as, Qs) ==
  \/ ~ g[m].over /\ g[m].pos = 0 /\ Waits(E, K, p, Qs[m], g[m].stack)
  \/ g[m].over /\ g[m].pos = 0 /\ Hopeless(E, p)
  \/ g[m].over /\ \E k \in 1..m : g[m].pos = as[k] /\ Answer(E, K, p, xs[k])

(* And so do many.                                                         *)
LEMMA ManySteps ==
  ASSUME NEW E, Ordered(E), NEW K, Fits(E, K), NEW p, NEW m \in Nat,
         NEW g, NEW xs, NEW as, NEW Qs, Walk(E, K, p, m, g, xs, as, Qs)
  PROVE  Walked(E, K, p, m, g, xs, as, Qs)
<1> DEFINE Good(n) ==
             \/ ~ g[n].over /\ g[n].pos = 0 /\ Waits(E, K, p, Qs[n], g[n].stack)
             \/ g[n].over /\ g[n].pos = 0 /\ Hopeless(E, p)
             \/ g[n].over /\ \E k \in 1..m : g[n].pos = as[k] /\ Answer(E, K, p, xs[k])
           S == {n \in Nat : n <= m => Good(n)}
<1>w. /\ ~ g[0].over /\ g[0].pos = 0 /\ Waits(E, K, p, Qs[0], g[0].stack)
      /\ \A k \in 1..m :
           /\ Follows(E, Qs[k - 1], xs[k]) /\ Qs[k] = Qs[k - 1] \cup {xs[k]}
           /\ g[k - 1].over => g[k] = g[k - 1]
           /\ ~ g[k - 1].over /\ g[k - 1].pos = 0 /\ g[k - 1].stack # <<>> =>
                Move(E, K, xs[k], as[k], g[k - 1].stack, g[k])
  BY DEF Walk
<1>1. 0 \in S
  BY <1>w
<1>2. ASSUME NEW n \in S PROVE n + 1 \in S
  <2> HIDE DEF Good
  <2> SUFFICES ASSUME n + 1 <= m PROVE Good(n + 1)
    OBVIOUS
  <2>1. n \in Nat /\ Good(n) /\ n + 1 \in 1..m /\ (n + 1) - 1 = n
    OBVIOUS
  <2>2. CASE g[n].over
    <3>1. g[n + 1] = g[n]
      BY <1>w, <2>1, <2>2
    <3> QED BY <2>1, <2>2, <3>1 DEF Good
  <2>3. CASE ~ g[n].over
    <3>1. Waits(E, K, p, Qs[n], g[n].stack) /\ g[n].pos = 0
      BY <2>1, <2>3 DEF Good
    <3>w. g[n].stack # <<>>
      BY <3>1 DEF Waits
    <3>2. Move(E, K, xs[n + 1], as[n + 1], g[n].stack, g[n + 1])
      BY <1>w, <2>1, <2>3, <3>1, <3>w
    <3>3. Follows(E, Qs[n], xs[n + 1]) /\ Qs[n + 1] = Qs[n] \cup {xs[n + 1]}
      BY <1>w, <2>1
    <3>4. Outcome(E, K, p, Qs[n] \cup {xs[n + 1]}, xs[n + 1], as[n + 1], g[n + 1])
      BY <3>1, <3>2, <3>3, OneStep
    <3> QED BY <2>1, <3>3, <3>4 DEF Outcome, Good
  <2> QED BY <2>2, <2>3
<1> HIDE DEF Good
<1>3. S \in SUBSET Nat
  OBVIOUS
<1>4. \A n \in Nat : n \in S
  <2> HIDE DEF S
  <2> QED BY <1>1, <1>2, <1>3, Inductive
<1>5. Good(m)
  BY <1>4
<1> QED BY <1>5 DEF Good, Walked

-----------------------------------------------------------------------------
(* The functions the code's loops became.                                  *)

GoesUp(f, m, n, D, b, step) ==
  f \in [m..n -> D] /\ f[m] = b /\ \A i \in (m + 1)..n : f[i] = step[i][f[i - 1]]

GoesDown(f, m, n, D, b, step) ==
  f \in [m..n -> D] /\ f[n] = b /\ \A i \in m..(n - 1) : f[i] = step[i][f[i + 1]]

(* There is a function that is defined upwards, or                         *)
LEMMA Upwards ==
  ASSUME NEW D, NEW m \in Nat, NEW n \in Nat, m <= n, NEW b \in D, NEW step,
         \A i \in (m + 1)..n : \A d \in D : step[i][d] \in D
  PROVE  \E f : GoesUp(f, m, n, D, b, step)
<1> DEFINE s == [k \in Nat |-> IF m + k \in (m + 1)..n THEN step[m + k] ELSE [d \in D |-> d]]
<1>1. ASSUME NEW k \in Nat \ {0}, NEW d \in D PROVE s[k][d] \in D
  <2>1. CASE m + k \in (m + 1)..n
    BY <2>1
  <2>2. CASE ~ (m + k \in (m + 1)..n)
    BY <2>2
  <2> QED BY <2>1, <2>2
<1>s. \A k \in Nat : m + k \in (m + 1)..n => s[k] = step[m + k]
  OBVIOUS
<1>2. PICK g : Recurs(g, 0..(n - m), D, b, s)
  <2>1. n - m \in Nat
    OBVIOUS
  <2> HIDE DEF s
  <2> QED BY <1>1, <2>1, RecursUpTo
<1> HIDE DEF s
<1> DEFINE f == [i \in m..n |-> g[i - m]]
<1>3. \A i \in m..n : i - m \in 0..(n - m) /\ f[i] = g[i - m]
  OBVIOUS
<1>4. f \in [m..n -> D]
  BY <1>2, <1>3 DEF Recurs
<1> HIDE DEF f
<1>5. f[m] = b
  <2>1. m \in m..n /\ m - m = 0
    OBVIOUS
  <2> QED BY <1>2, <1>3, <2>1 DEF Recurs
<1>6. ASSUME NEW i \in (m + 1)..n PROVE f[i] = step[i][f[i - 1]]
  <2>1. i \in m..n /\ i - 1 \in m..n /\ i - m # 0 /\ (i - m) - 1 = (i - 1) - m
        /\ i - m \in Nat /\ m + (i - m) = i
    OBVIOUS
  <2>2. g[i - m] = s[i - m][g[(i - m) - 1]]
    BY <1>2, <1>3, <2>1 DEF Recurs
  <2>3. s[i - m] = step[i]
    BY <1>s, <2>1
  <2> QED BY <1>3, <2>1, <2>2, <2>3
<1> QED BY <1>4, <1>5, <1>6 DEF GoesUp

(* downwards.                                                              *)
LEMMA Downwards ==
  ASSUME NEW D, NEW m \in Nat, NEW n \in Nat, m <= n, NEW b \in D, NEW step,
         \A i \in m..(n - 1) : \A d \in D : step[i][d] \in D
  PROVE  \E f : GoesDown(f, m, n, D, b, step)
<1> DEFINE s == [k \in Nat |-> IF n - k \in m..(n - 1) THEN step[n - k] ELSE [d \in D |-> d]]
<1>1. ASSUME NEW k \in Nat \ {0}, NEW d \in D PROVE s[k][d] \in D
  <2>1. CASE n - k \in m..(n - 1)
    BY <2>1
  <2>2. CASE ~ (n - k \in m..(n - 1))
    BY <2>2
  <2> QED BY <2>1, <2>2
<1>s. \A k \in Nat : n - k \in m..(n - 1) => s[k] = step[n - k]
  OBVIOUS
<1>2. PICK g : Recurs(g, 0..(n - m), D, b, s)
  <2>1. n - m \in Nat
    OBVIOUS
  <2> HIDE DEF s
  <2> QED BY <1>1, <2>1, RecursUpTo
<1> HIDE DEF s
<1> DEFINE f == [i \in m..n |-> g[n - i]]
<1>3. \A i \in m..n : n - i \in 0..(n - m) /\ f[i] = g[n - i]
  OBVIOUS
<1>4. f \in [m..n -> D]
  BY <1>2, <1>3 DEF Recurs
<1> HIDE DEF f
<1>5. f[n] = b
  <2>1. n \in m..n /\ n - n = 0
    OBVIOUS
  <2> QED BY <1>2, <1>3, <2>1 DEF Recurs
<1>6. ASSUME NEW i \in m..(n - 1) PROVE f[i] = step[i][f[i + 1]]
  <2>1. i \in m..n /\ i + 1 \in m..n /\ n - i # 0 /\ (n - i) - 1 = n - (i + 1)
        /\ n - i \in Nat /\ n - (n - i) = i
    OBVIOUS
  <2>2. g[n - i] = s[n - i][g[(n - i) - 1]]
    BY <1>2, <1>3, <2>1 DEF Recurs
  <2>3. s[n - i] = step[i]
    BY <1>s, <2>1
  <2> QED BY <1>3, <2>1, <2>2, <2>3
<1> QED BY <1>4, <1>5, <1>6 DEF GoesDown

(* All that are defined so have these values.                              *)
LEMMA UpTyped ==
  ASSUME NEW D, NEW m \in Nat, NEW n \in Nat, m <= n, NEW g,
         g = [i \in m..n |-> g[i]], g[m] \in D,
         \A i \in (m + 1)..n : g[i - 1] \in D => g[i] \in D
  PROVE  g \in [m..n -> D]
<1> DEFINE S == {k \in Nat : m + k <= n => g[m + k] \in D}
<1>1. 0 \in S
  OBVIOUS
<1>2. ASSUME NEW k \in S PROVE k + 1 \in S
  <2> SUFFICES ASSUME m + (k + 1) <= n PROVE g[m + (k + 1)] \in D
    OBVIOUS
  <2>1. m + (k + 1) \in (m + 1)..n /\ (m + (k + 1)) - 1 = m + k /\ m + k <= n
    OBVIOUS
  <2>2. g[m + k] \in D
    BY <2>1
  <2> QED BY <2>1, <2>2
<1>3. S \in SUBSET Nat
  OBVIOUS
<1>4. \A k \in Nat : k \in S
  <2> HIDE DEF S
  <2> QED BY <1>1, <1>2, <1>3, Inductive
<1>5. ASSUME NEW i \in m..n PROVE g[i] \in D
  <2>1. i - m \in Nat /\ m + (i - m) = i /\ m + (i - m) <= n
    OBVIOUS
  <2> QED BY <1>4, <2>1
<1> QED BY <1>5

(* The same downwards.                                                     *)
LEMMA DownTyped ==
  ASSUME NEW D, NEW m \in Nat, NEW n \in Nat, m <= n, NEW g,
         g = [i \in m..n |-> g[i]], g[n] \in D,
         \A i \in m..(n - 1) : g[i + 1] \in D => g[i] \in D
  PROVE  g \in [m..n -> D]
<1> DEFINE S == {k \in Nat : m <= n - k => g[n - k] \in D}
<1>1. 0 \in S
  OBVIOUS
<1>2. ASSUME NEW k \in S PROVE k + 1 \in S
  <2> SUFFICES ASSUME m <= n - (k + 1) PROVE g[n - (k + 1)] \in D
    OBVIOUS
  <2>1. n - (k + 1) \in m..(n - 1) /\ (n - (k + 1)) + 1 = n - k /\ m <= n - k
    OBVIOUS
  <2>2. g[n - k] \in D
    BY <2>1
  <2> QED BY <2>1, <2>2
<1>3. S \in SUBSET Nat
  OBVIOUS
<1>4. \A k \in Nat : k \in S
  <2> HIDE DEF S
  <2> QED BY <1>1, <1>2, <1>3, Inductive
<1>5. ASSUME NEW i \in m..n PROVE g[i] \in D
  <2>1. n - i \in Nat /\ n - (n - i) = i /\ m <= n - (n - i)
    OBVIOUS
  <2> QED BY <1>4, <2>1
<1> QED BY <1>5

(* The results of a scan.                                                  *)
Results(S) == [stack : Seq(S), over : BOOLEAN, pos : Nat]

(* What a step returns is a result.                                        *)
LEMMA ResultIs ==
  ASSUME NEW S, NEW stack \in Seq(S), NEW pos \in Nat
  PROVE  /\ Scanning(stack) \in Results(S) /\ Lost \in Results(S) /\ Found(pos) \in Results(S)
         /\ Popped(stack, pos) \in Results(S)
<1>1. <<>> \in Seq(S) /\ 0 \in Nat
  OBVIOUS
<1>2. Scanning(stack) \in Results(S)
  BY DEF Scanning, Results
<1>3. Found(pos) \in Results(S)
  BY <1>1 DEF Found, Results
<1>4. Lost \in Results(S)
  BY <1>1 DEF Lost, Found, Results
<1>5. Front(stack) \in Seq(S)
  <2>1. CASE Len(stack) = 0
    <3>1. SubSeq(stack, 1, Len(stack) - 1) = <<>>
      BY <2>1, SubSeqEmpty
    <3> QED BY <1>1, <3>1 DEF Front
  <2>2. CASE Len(stack) # 0
    <3>1. Len(stack) - 1 \in 0..Len(stack)
      BY <2>2
    <3> QED BY <3>1, SubSeqIs DEF Front
  <2> QED BY <2>1, <2>2
<1>6. Scanning(Front(stack)) \in Results(S)
  BY <1>5 DEF Scanning, Results
<1>7. Popped(stack, pos) \in Results(S)
  BY <1>3, <1>6 DEF Popped
<1> QED BY <1>2, <1>3, <1>4, <1>7

(* Without its angle brackets a stack is a stack.                          *)
LEMMA WithoutType ==
  ASSUME NEW S, NEW stack \in Seq(S), NEW angle
  PROVE  Without(stack, angle) \in Seq(S)
<1>1. PICK k \in 0..Len(stack) : Without(stack, angle) = SubSeq(stack, 1, k)
  BY WithoutIs
<1> QED BY <1>1, SubSeqIs

EndSymbols == Openers \cup {"<"}
StartSymbols == Closers \cup {">"}

(* A step of FindEndOfExpressionInLine returns a result.                   *)
LEMMA EndStepType ==
  ASSUME NEW stack \in Seq(EndSymbols), NEW line, NEW i \in Nat
  PROVE  EndStep(stack, line, i) \in Results(EndSymbols)
<1> DEFINE c == line[i]
           rest == Without(stack, "<")
           R == Results(EndSymbols)
<1>1. rest \in Seq(EndSymbols)
  BY WithoutType
<1>2. i + 1 \in Nat /\ 0 \in Nat
  OBVIOUS
<1>3. /\ Scanning(stack) \in R /\ Scanning(rest) \in R /\ Lost \in R
      /\ Popped(stack, 0) \in R /\ Popped(stack, i + 1) \in R /\ Popped(rest, i + 1) \in R
  BY <1>1, <1>2, ResultIs
<1>4. Scanning(Append(stack, "<")) \in R
  <2>1. "<" \in EndSymbols
    BY DEF EndSymbols
  <2>2. Append(stack, "<") \in Seq(EndSymbols)
    BY <2>1, AppendProperties
  <2> QED BY <1>2, <2>2, ResultIs
<1>5. c \in Openers => Scanning(Append(stack, c)) \in R
  <2> SUFFICES ASSUME c \in Openers PROVE Scanning(Append(stack, c)) \in R
    OBVIOUS
  <2>1. c \in EndSymbols
    BY DEF EndSymbols
  <2> HIDE DEF c
  <2>2. Append(stack, c) \in Seq(EndSymbols)
    BY <2>1, AppendProperties
  <2> QED BY <1>2, <2>2, ResultIs
<1> HIDE DEF R
<1> QED BY <1>3, <1>4, <1>5 DEF EndStep, R

(* A step of each scan.                                                    *)
GoOn(before, line, i) ==
  IF before.over THEN before ELSE EndStep(before.stack, line, i)

GoBack(before, line, i) ==
  IF before.over THEN before
  ELSE IF before.skip THEN [before EXCEPT !.skip = FALSE]
  ELSE StartStep(before.stack, line, i)

NextEnd(before, elided, i) ==
  IF before.over \/ before.stack = <<>> THEN before
  ELSE FindEndOfExpressionInLine(elided[i], 1, before.stack)

NextStart(before, elided, i) ==
  IF before.over \/ before.stack = <<>> THEN before
  ELSE FindStartOfExpressionInLine(elided[i], Len(elided[i]), before.stack)

InsideStep(before, line, i) ==
  CASE before.over -> before
    [] ~ before.over /\ line[i] = Last(before.stack) -> Popped(before.stack, i)
    [] ~ before.over /\ line[i] # Last(before.stack) /\ line[i] \in Closers -> Lost
    [] ~ before.over /\ line[i] \in Openers ->
         Scanning(Append(before.stack, Closer(line[i])))
    [] OTHER -> before

(* f is the scan of the code's function.                                   *)
CloseIs(f, elided, linenum, pos) ==
  \/ /\ CloseExpression(elided, linenum, pos).pos = 0
     /\ \/ elided[linenum][pos] \notin Openers \cup {"<"}
        \/ /\ elided[linenum][pos] = "<" /\ pos < Len(elided[linenum])
           /\ elided[linenum][pos + 1] \in {"<", "="}
  \/ \E nowhere : /\ nowhere.pos = 0
                  /\ CloseExpression(elided, linenum, pos) = FoundIn(f, FALSE, nowhere)

ReverseIs(f, elided, linenum, pos) ==
  elided[linenum][pos] \in Closers =>
    \E nowhere : /\ nowhere.pos = 0
                 /\ ReverseCloseExpression(elided, linenum, pos) = FoundIn(f, TRUE, nowhere)

InsideIs(f, line, pos) ==
  /\ GetTextInside(line, pos).found <=> f[Len(line)].pos > 0
  /\ GetTextInside(line, pos).text = SubSeq(line, pos + 1, f[Len(line)].pos - 1)

(* The steps of FindEndOfExpressionInLine.                                 *)
LEMMA EndScan ==
  ASSUME NEW X, NEW line \in Seq(X), NEW startpos \in 1..(Len(line) + 1),
         NEW stack \in Seq(EndSymbols)
  PROVE  \E f \in [(startpos - 1)..Len(line) -> Results(EndSymbols)] :
           /\ FindEndOfExpressionInLine(line, startpos, stack) = f[Len(line)]
           /\ f[startpos - 1] = Scanning(stack)
           /\ \A i \in startpos..Len(line) : f[i] = GoOn(f[i - 1], line, i)
<1> DEFINE m == (startpos - 1)
           n == Len(line)
           R == Results(EndSymbols)
           b == Scanning(stack)
           step == [i \in Nat |-> [d \in R |-> GoOn(d, line, i)]]
           Line(f, i) == 
             IF i = startpos - 1 THEN Scanning(stack)
             ELSE IF f[i - 1].over THEN f[i - 1] ELSE EndStep(f[i - 1].stack, line, i)
           Body(f) == [i \in m..n |-> Line(f, i)]
           g == CHOOSE f : f = Body(f)
<1>1. m \in Nat /\ n \in Nat /\ m <= n /\ n \in m..n /\ m \in m..n /\ m + 1 = startpos
  OBVIOUS
<1>2. b \in R
  <2>1. 0 \in Nat
    OBVIOUS
  <2> QED BY <2>1, ResultIs
<1>3. ASSUME NEW i \in (m + 1)..n, NEW d \in R
      PROVE  step[i][d] \in R /\ step[i][d] = GoOn(d, line, i)
  <2>1. i \in Nat /\ d.stack \in Seq(EndSymbols)
    BY DEF Results
  <2>2. EndStep(d.stack, line, i) \in R
    BY <2>1, EndStepType
  <2> QED BY <2>1, <2>2 DEF GoOn
<1>s. ASSUME NEW f, NEW i \in m..n
      PROVE  Line(f, i) = IF i = m THEN b ELSE GoOn(f[i - 1], line, i)
  BY <1>1 DEF GoOn
<1> HIDE DEF step, R, b, m, n
<1>4. PICK h : GoesUp(h, m, n, R, b, step)
  <2>1. \A i \in (m + 1)..n : \A d \in R : step[i][d] \in R
    BY <1>3
  <2> QED BY <1>1, <1>2, <2>1, Upwards
<1>5. h = Body(h)
  <2>0. h \in [m..n -> R] /\ h[m] = b /\ \A i \in (m + 1)..n : h[i] = step[i][h[i - 1]]
    BY <1>4 DEF GoesUp
  <2>1. ASSUME NEW i \in m..n
        PROVE  h[i] = IF i = m THEN b ELSE GoOn(h[i - 1], line, i)
    <3>1. CASE i = m
      BY <2>0, <3>1
    <3>2. CASE i # m
      <4>1. i \in (m + 1)..n /\ i - 1 \in m..n
        BY <1>1, <3>2
      <4>2. h[i] = step[i][h[i - 1]] /\ h[i - 1] \in R
        BY <2>0, <4>1
      <4> QED BY <1>3, <3>2, <4>1, <4>2
    <3> QED BY <3>1, <3>2
  <2>2. h = [i \in m..n |-> h[i]]
    BY <2>0
  <2> QED BY <2>1, <2>2, <1>s, Zenon
<1>6. g = Body(g)
  BY <1>5
<1>l. \A i \in m..n : g[i] = Line(g, i)
  BY <1>6
<1>7. FindEndOfExpressionInLine(line, startpos, stack) = g[Len(line)]
  BY DEF FindEndOfExpressionInLine, m, n, b
<1> HIDE DEF g, Line, Body
<1>8. \A i \in m..n : g[i] = IF i = m THEN b ELSE GoOn(g[i - 1], line, i)
  BY <1>l, <1>s
<1>9. g[m] = b
  BY <1>1, <1>8
<1>10. ASSUME NEW i \in (m + 1)..n PROVE g[i] = GoOn(g[i - 1], line, i)
  <2>1. i \in m..n /\ i # m
    BY <1>1
  <2> QED BY <1>8, <2>1
<1>11. ASSUME NEW i \in (m + 1)..n, g[i - 1] \in R PROVE g[i] \in R
  <2>1. g[i] = step[i][g[i - 1]]
    BY <1>3, <1>10, <1>11
  <2> QED BY <1>3, <1>11, <2>1
<1>12. g \in [m..n -> R]
  <2>1. g = [i \in m..n |-> g[i]] /\ g[m] \in R
    BY <1>2, <1>6, <1>9 DEF Body
  <2> QED BY <1>1, <1>11, <2>1, UpTyped
<1>13. \A i \in startpos..Len(line) : g[i] = GoOn(g[i - 1], line, i)
  BY <1>1, <1>10 DEF n
<1> QED BY <1>7, <1>9, <1>12, <1>13 DEF m, n, b, R

(* The same for the scan that goes back.                                   *)
GoingResults(S) == [stack : Seq(S), over : BOOLEAN, pos : Nat, skip : BOOLEAN]

(* A result for the scan that goes back.                                   *)
LEMMA GoingIs ==
  ASSUME NEW S, NEW result \in Results(S), NEW skip \in BOOLEAN
  PROVE  Going(result, skip) \in GoingResults(S)
BY DEF Going, GoingResults, Results

(* A step of FindStartOfExpressionInLine returns such a result.            *)
LEMMA StartStepType ==
  ASSUME NEW stack \in Seq(StartSymbols), NEW line, NEW i \in Nat
  PROVE  StartStep(stack, line, i) \in GoingResults(StartSymbols)
<1> DEFINE c == line[i]
           rest == Without(stack, ">")
           R == Results(StartSymbols)
           G == GoingResults(StartSymbols)
<1>1. rest \in Seq(StartSymbols)
  BY WithoutType
<1>2. 0 \in Nat /\ TRUE \in BOOLEAN /\ FALSE \in BOOLEAN
  OBVIOUS
<1>3. /\ Scanning(stack) \in R /\ Scanning(rest) \in R /\ Lost \in R
      /\ Popped(stack, i) \in R /\ Popped(rest, i) \in R
  BY <1>1, ResultIs
<1>4. Scanning(Append(stack, ">")) \in R
  <2>1. ">" \in StartSymbols
    BY DEF StartSymbols
  <2>2. Append(stack, ">") \in Seq(StartSymbols)
    BY <2>1, AppendProperties
  <2> QED BY <1>2, <2>2, ResultIs
<1>5. c \in Closers => Scanning(Append(stack, c)) \in R
  <2> SUFFICES ASSUME c \in Closers PROVE Scanning(Append(stack, c)) \in R
    OBVIOUS
  <2>1. c \in StartSymbols
    BY DEF StartSymbols
  <2> HIDE DEF c
  <2>2. Append(stack, c) \in Seq(StartSymbols)
    BY <2>1, AppendProperties
  <2> QED BY <1>2, <2>2, ResultIs
<1> HIDE DEF R, G
<1>6. \A r \in R : Going(r, TRUE) \in G /\ Going(r, FALSE) \in G
  BY <1>2, GoingIs DEF R, G
<1>7. /\ Going(Scanning(stack), FALSE) \in G /\ Going(Scanning(stack), TRUE) \in G
      /\ Going(Scanning(rest), FALSE) \in G /\ Going(Lost, FALSE) \in G
      /\ Going(Popped(stack, i), FALSE) \in G /\ Going(Popped(rest, i), FALSE) \in G
      /\ Going(Scanning(Append(stack, ">")), FALSE) \in G
      /\ c \in Closers => Going(Scanning(Append(stack, c)), FALSE) \in G
  BY <1>3, <1>4, <1>5, <1>6
<1> QED BY <1>7 DEF StartStep, G

(* The steps of FindStartOfExpressionInLine.                               *)
LEMMA StartScan ==
  ASSUME NEW X, NEW line \in Seq(X), NEW endpos \in 0..Len(line),
         NEW stack \in Seq(StartSymbols)
  PROVE  \E f \in [1..(endpos + 1) -> GoingResults(StartSymbols)] :
           /\ FindStartOfExpressionInLine(line, endpos, stack) = f[1]
           /\ f[endpos + 1] = Going(Scanning(stack), FALSE)
           /\ \A i \in 1..endpos : f[i] = GoBack(f[i + 1], line, i)
<1> DEFINE m == 1
           n == (endpos + 1)
           R == GoingResults(StartSymbols)
           b == Going(Scanning(stack), FALSE)
           step == [i \in Nat |-> [d \in R |-> GoBack(d, line, i)]]
           Line(f, i) == 
             IF i = endpos + 1 THEN Going(Scanning(stack), FALSE)
             ELSE IF f[i + 1].over THEN f[i + 1]
             ELSE IF f[i + 1].skip THEN [f[i + 1] EXCEPT !.skip = FALSE]
             ELSE StartStep(f[i + 1].stack, line, i)
           Body(f) == [i \in m..n |-> Line(f, i)]
           g == CHOOSE f : f = Body(f)
<1>1. m \in Nat /\ n \in Nat /\ m <= n /\ n \in m..n /\ m \in m..n /\ n - 1 = endpos
  OBVIOUS
<1>2. b \in R
  <2>1. 0 \in Nat /\ FALSE \in BOOLEAN
    OBVIOUS
  <2> QED BY <2>1, ResultIs, GoingIs
<1>3. ASSUME NEW i \in m..(n - 1), NEW d \in R
      PROVE  step[i][d] \in R /\ step[i][d] = GoBack(d, line, i)
  <2>1. i \in Nat /\ d.stack \in Seq(StartSymbols)
    BY DEF GoingResults
  <2>2. StartStep(d.stack, line, i) \in R
    BY <2>1, StartStepType
  <2>3. [d EXCEPT !.skip = FALSE] \in R
    BY DEF GoingResults
  <2> QED BY <2>1, <2>2, <2>3 DEF GoBack
<1>s. ASSUME NEW f, NEW i \in m..n
      PROVE  Line(f, i) = IF i = n THEN b ELSE GoBack(f[i + 1], line, i)
  BY <1>1 DEF GoBack
<1> HIDE DEF step, R, b, m, n
<1>4. PICK h : GoesDown(h, m, n, R, b, step)
  <2>1. \A i \in m..(n - 1) : \A d \in R : step[i][d] \in R
    BY <1>3
  <2> QED BY <1>1, <1>2, <2>1, Downwards
<1>5. h = Body(h)
  <2>0. h \in [m..n -> R] /\ h[n] = b /\ \A i \in m..(n - 1) : h[i] = step[i][h[i + 1]]
    BY <1>4 DEF GoesDown
  <2>1. ASSUME NEW i \in m..n
        PROVE  h[i] = IF i = n THEN b ELSE GoBack(h[i + 1], line, i)
    <3>1. CASE i = n
      BY <2>0, <3>1
    <3>2. CASE i # n
      <4>1. i \in m..(n - 1) /\ i + 1 \in m..n
        BY <1>1, <3>2
      <4>2. h[i] = step[i][h[i + 1]] /\ h[i + 1] \in R
        BY <2>0, <4>1
      <4> QED BY <1>3, <3>2, <4>1, <4>2
    <3> QED BY <3>1, <3>2
  <2>2. h = [i \in m..n |-> h[i]]
    BY <2>0
  <2> QED BY <2>1, <2>2, <1>s, Zenon
<1>6. g = Body(g)
  BY <1>5
<1>l. \A i \in m..n : g[i] = Line(g, i)
  BY <1>6
<1>7. FindStartOfExpressionInLine(line, endpos, stack) = g[1]
  BY DEF FindStartOfExpressionInLine, m, n, b
<1> HIDE DEF g, Line, Body
<1>8. \A i \in m..n : g[i] = IF i = n THEN b ELSE GoBack(g[i + 1], line, i)
  BY <1>l, <1>s
<1>9. g[n] = b
  BY <1>1, <1>8
<1>10. ASSUME NEW i \in m..(n - 1) PROVE g[i] = GoBack(g[i + 1], line, i)
  <2>1. i \in m..n /\ i # n
    BY <1>1
  <2> QED BY <1>8, <2>1
<1>11. ASSUME NEW i \in m..(n - 1), g[i + 1] \in R PROVE g[i] \in R
  <2>1. g[i] = step[i][g[i + 1]]
    BY <1>3, <1>10, <1>11
  <2> QED BY <1>3, <1>11, <2>1
<1>12. g \in [m..n -> R]
  <2>1. g = [i \in m..n |-> g[i]] /\ g[n] \in R
    BY <1>2, <1>6, <1>9 DEF Body
  <2> QED BY <1>1, <1>11, <2>1, DownTyped
<1>13. \A i \in 1..endpos : g[i] = GoBack(g[i + 1], line, i)
  BY <1>1, <1>10 DEF m
<1> QED BY <1>7, <1>9, <1>12, <1>13 DEF m, n, b, R

(* FindEndOfExpressionInLine returns a result,                             *)
LEMMA EndFound ==
  ASSUME NEW X, NEW line \in Seq(X), NEW startpos \in 1..(Len(line) + 1),
         NEW stack \in Seq(EndSymbols)
  PROVE  FindEndOfExpressionInLine(line, startpos, stack) \in Results(EndSymbols)
<1>1. PICK f \in [(startpos - 1)..Len(line) -> Results(EndSymbols)] :
           FindEndOfExpressionInLine(line, startpos, stack) = f[Len(line)]
  BY EndScan
<1>2. Len(line) \in (startpos - 1)..Len(line)
  OBVIOUS
<1> QED BY <1>1, <1>2

(* and so does FindStartOfExpressionInLine.                                *)
LEMMA StartFound ==
  ASSUME NEW X, NEW line \in Seq(X), NEW endpos \in 0..Len(line),
         NEW stack \in Seq(StartSymbols)
  PROVE  FindStartOfExpressionInLine(line, endpos, stack) \in GoingResults(StartSymbols)
<1>1. PICK f \in [1..(endpos + 1) -> GoingResults(StartSymbols)] :
           FindStartOfExpressionInLine(line, endpos, stack) = f[1]
  BY StartScan
<1>2. 1 \in 1..(endpos + 1)
  OBVIOUS
<1> QED BY <1>1, <1>2

(* The scans that go over lines.                                           *)

LEMMA CloseScan ==
  ASSUME NEW X, NEW elided \in Seq(Seq(X)), NEW linenum \in 1..Len(elided),
         NEW pos \in 1..Len(elided[linenum])
  PROVE  \E f \in [linenum..Len(elided) -> Results(EndSymbols)] :
           /\ CloseIs(f, elided, linenum, pos)
           /\ f[linenum] = FindEndOfExpressionInLine(elided[linenum], pos, <<>>)
           /\ \A i \in (linenum + 1)..Len(elided) : f[i] = NextEnd(f[i - 1], elided, i)
<1> DEFINE m == linenum
           n == Len(elided)
           R == Results(EndSymbols)
           b == FindEndOfExpressionInLine(elided[linenum], pos, <<>>)
           step == [i \in Nat |-> [d \in R |-> NextEnd(d, elided, i)]]
           Line(f, i) == 
             IF i > linenum /\ (f[i - 1].over \/ f[i - 1].stack = <<>>) THEN f[i - 1]
             ELSE FindEndOfExpressionInLine(elided[i], IF i = linenum THEN pos ELSE 1,
                                            IF i = linenum THEN <<>> ELSE f[i - 1].stack)
           Body(f) == [i \in m..n |-> Line(f, i)]
           g == CHOOSE f : f = Body(f)
<1>1. m \in Nat /\ n \in Nat /\ m <= n /\ n \in m..n /\ m \in m..n
  OBVIOUS
<1>2. b \in R
  <2>1. elided[linenum] \in Seq(X) /\ pos \in 1..(Len(elided[linenum]) + 1)
        /\ <<>> \in Seq(EndSymbols)
    OBVIOUS
  <2> QED BY <2>1, EndFound
<1>3. ASSUME NEW i \in (m + 1)..n, NEW d \in R
      PROVE  step[i][d] \in R /\ step[i][d] = NextEnd(d, elided, i)
  <2>1. i \in Nat /\ elided[i] \in Seq(X) /\ 1 \in 1..(Len(elided[i]) + 1)
    OBVIOUS
  <2>2. d.stack \in Seq(EndSymbols)
    BY DEF Results
  <2>3. FindEndOfExpressionInLine(elided[i], 1, d.stack) \in R
    BY <2>1, <2>2, EndFound
  <2> QED BY <2>1, <2>3 DEF NextEnd
<1>s. ASSUME NEW f, NEW i \in m..n
      PROVE  Line(f, i) = IF i = m THEN b ELSE NextEnd(f[i - 1], elided, i)
  BY <1>1 DEF NextEnd
<1> HIDE DEF step, R, b, m, n
<1>4. PICK h : GoesUp(h, m, n, R, b, step)
  <2>1. \A i \in (m + 1)..n : \A d \in R : step[i][d] \in R
    BY <1>3
  <2> QED BY <1>1, <1>2, <2>1, Upwards
<1>5. h = Body(h)
  <2>0. h \in [m..n -> R] /\ h[m] = b /\ \A i \in (m + 1)..n : h[i] = step[i][h[i - 1]]
    BY <1>4 DEF GoesUp
  <2>1. ASSUME NEW i \in m..n
        PROVE  h[i] = IF i = m THEN b ELSE NextEnd(h[i - 1], elided, i)
    <3>1. CASE i = m
      BY <2>0, <3>1
    <3>2. CASE i # m
      <4>1. i \in (m + 1)..n /\ i - 1 \in m..n
        BY <1>1, <3>2
      <4>2. h[i] = step[i][h[i - 1]] /\ h[i - 1] \in R
        BY <2>0, <4>1
      <4> QED BY <1>3, <3>2, <4>1, <4>2
    <3> QED BY <3>1, <3>2
  <2>2. h = [i \in m..n |-> h[i]]
    BY <2>0
  <2> QED BY <2>1, <2>2, <1>s, Zenon
<1>6. g = Body(g)
  BY <1>5
<1>l. \A i \in m..n : g[i] = Line(g, i)
  BY <1>6
<1>7. CloseIs(g, elided, linenum, pos)
  BY DEF CloseExpression, CloseIs, m, n, b
<1> HIDE DEF g, Line, Body
<1>8. \A i \in m..n : g[i] = IF i = m THEN b ELSE NextEnd(g[i - 1], elided, i)
  BY <1>l, <1>s
<1>9. g[m] = b
  BY <1>1, <1>8
<1>10. ASSUME NEW i \in (m + 1)..n PROVE g[i] = NextEnd(g[i - 1], elided, i)
  <2>1. i \in m..n /\ i # m
    BY <1>1
  <2> QED BY <1>8, <2>1
<1>11. ASSUME NEW i \in (m + 1)..n, g[i - 1] \in R PROVE g[i] \in R
  <2>1. g[i] = step[i][g[i - 1]]
    BY <1>3, <1>10, <1>11
  <2> QED BY <1>3, <1>11, <2>1
<1>12. g \in [m..n -> R]
  <2>1. g = [i \in m..n |-> g[i]] /\ g[m] \in R
    BY <1>2, <1>6, <1>9 DEF Body
  <2> QED BY <1>1, <1>11, <2>1, UpTyped
<1>13. \A i \in (linenum + 1)..Len(elided) : g[i] = NextEnd(g[i - 1], elided, i)
  BY <1>1, <1>10 DEF m, n
<1> QED BY <1>7, <1>9, <1>12, <1>13 DEF m, n, b, R

(* The lines that ReverseCloseExpression scans.                            *)
LEMMA ReverseScan ==
  ASSUME NEW X, NEW elided \in Seq(Seq(X)), NEW linenum \in 1..Len(elided),
         NEW pos \in 1..Len(elided[linenum])
  PROVE  \E f \in [1..linenum -> GoingResults(StartSymbols)] :
           /\ ReverseIs(f, elided, linenum, pos)
           /\ f[linenum] = FindStartOfExpressionInLine(elided[linenum], pos, <<>>)
           /\ \A i \in 1..(linenum - 1) : f[i] = NextStart(f[i + 1], elided, i)
<1> DEFINE m == 1
           n == linenum
           R == GoingResults(StartSymbols)
           b == FindStartOfExpressionInLine(elided[linenum], pos, <<>>)
           step == [i \in Nat |-> [d \in R |-> NextStart(d, elided, i)]]
           Line(f, i) == 
             IF i < linenum /\ (f[i + 1].over \/ f[i + 1].stack = <<>>) THEN f[i + 1]
             ELSE FindStartOfExpressionInLine(elided[i],
                                              IF i = linenum THEN pos ELSE Len(elided[i]),
                                              IF i = linenum THEN <<>> ELSE f[i + 1].stack)
           Body(f) == [i \in m..n |-> Line(f, i)]
           g == CHOOSE f : f = Body(f)
<1>1. m \in Nat /\ n \in Nat /\ m <= n /\ n \in m..n /\ m \in m..n
  OBVIOUS
<1>2. b \in R
  <2>1. elided[linenum] \in Seq(X) /\ pos \in 0..Len(elided[linenum])
        /\ <<>> \in Seq(StartSymbols)
    OBVIOUS
  <2> QED BY <2>1, StartFound
<1>3. ASSUME NEW i \in m..(n - 1), NEW d \in R
      PROVE  step[i][d] \in R /\ step[i][d] = NextStart(d, elided, i)
  <2>1. i \in Nat /\ elided[i] \in Seq(X) /\ Len(elided[i]) \in 0..Len(elided[i])
    OBVIOUS
  <2>2. d.stack \in Seq(StartSymbols)
    BY DEF GoingResults
  <2>3. FindStartOfExpressionInLine(elided[i], Len(elided[i]), d.stack) \in R
    BY <2>1, <2>2, StartFound
  <2> QED BY <2>1, <2>3 DEF NextStart
<1>s. ASSUME NEW f, NEW i \in m..n
      PROVE  Line(f, i) = IF i = n THEN b ELSE NextStart(f[i + 1], elided, i)
  BY <1>1 DEF NextStart
<1> HIDE DEF step, R, b, m, n
<1>4. PICK h : GoesDown(h, m, n, R, b, step)
  <2>1. \A i \in m..(n - 1) : \A d \in R : step[i][d] \in R
    BY <1>3
  <2> QED BY <1>1, <1>2, <2>1, Downwards
<1>5. h = Body(h)
  <2>0. h \in [m..n -> R] /\ h[n] = b /\ \A i \in m..(n - 1) : h[i] = step[i][h[i + 1]]
    BY <1>4 DEF GoesDown
  <2>1. ASSUME NEW i \in m..n
        PROVE  h[i] = IF i = n THEN b ELSE NextStart(h[i + 1], elided, i)
    <3>1. CASE i = n
      BY <2>0, <3>1
    <3>2. CASE i # n
      <4>1. i \in m..(n - 1) /\ i + 1 \in m..n
        BY <1>1, <3>2
      <4>2. h[i] = step[i][h[i + 1]] /\ h[i + 1] \in R
        BY <2>0, <4>1
      <4> QED BY <1>3, <3>2, <4>1, <4>2
    <3> QED BY <3>1, <3>2
  <2>2. h = [i \in m..n |-> h[i]]
    BY <2>0
  <2> QED BY <2>1, <2>2, <1>s, Zenon
<1>6. g = Body(g)
  BY <1>5
<1>l. \A i \in m..n : g[i] = Line(g, i)
  BY <1>6
<1>7. ReverseIs(g, elided, linenum, pos)
  <2> DEFINE nowhere == [line |-> 0, pos |-> 0]
  <2>1. nowhere.pos = 0
    OBVIOUS
  <2>2. elided[linenum][pos] \in Closers =>
          ReverseCloseExpression(elided, linenum, pos) = FoundIn(g, TRUE, nowhere)
    BY DEF ReverseCloseExpression, m, n, b
  <2> HIDE DEF nowhere, g
  <2> QED BY <2>1, <2>2 DEF ReverseIs
<1> HIDE DEF g, Line, Body
<1>8. \A i \in m..n : g[i] = IF i = n THEN b ELSE NextStart(g[i + 1], elided, i)
  BY <1>l, <1>s
<1>9. g[n] = b
  BY <1>1, <1>8
<1>10. ASSUME NEW i \in m..(n - 1) PROVE g[i] = NextStart(g[i + 1], elided, i)
  <2>1. i \in m..n /\ i # n
    BY <1>1
  <2> QED BY <1>8, <2>1
<1>11. ASSUME NEW i \in m..(n - 1), g[i + 1] \in R PROVE g[i] \in R
  <2>1. g[i] = step[i][g[i + 1]]
    BY <1>3, <1>10, <1>11
  <2> QED BY <1>3, <1>11, <2>1
<1>12. g \in [m..n -> R]
  <2>1. g = [i \in m..n |-> g[i]] /\ g[n] \in R
    BY <1>2, <1>6, <1>9 DEF Body
  <2> QED BY <1>1, <1>11, <2>1, DownTyped
<1>13. \A i \in 1..(linenum - 1) : g[i] = NextStart(g[i + 1], elided, i)
  BY <1>1, <1>10 DEF m, n
<1> QED BY <1>7, <1>9, <1>12, <1>13 DEF m, n, b, R

(* A bracket is closed by one that closes.                                 *)
LEMMA CloserType == \A c \in Openers : Closer(c) \in Closers
BY DEF Openers, Closers, Closer

(* A step of _GetTextInside returns a result.                              *)
LEMMA InsideStepType ==
  ASSUME NEW d \in Results(Closers), NEW line, NEW i \in Nat
  PROVE  InsideStep(d, line, i) \in Results(Closers)
<1> DEFINE c == line[i]
           R == Results(Closers)
<1>1. d.stack \in Seq(Closers)
  BY DEF Results
<1>2. Popped(d.stack, i) \in R /\ Lost \in R
  BY <1>1, ResultIs
<1>3. c \in Openers => Scanning(Append(d.stack, Closer(c))) \in R
  <2> SUFFICES ASSUME c \in Openers PROVE Scanning(Append(d.stack, Closer(c))) \in R
    OBVIOUS
  <2> DEFINE e == Closer(c)
  <2>1. e \in Closers /\ 0 \in Nat
    BY CloserType
  <2> HIDE DEF e
  <2>2. Append(d.stack, e) \in Seq(Closers)
    BY <1>1, <2>1, AppendProperties
  <2>3. Scanning(Append(d.stack, e)) \in R
    BY <2>1, <2>2, ResultIs
  <2> QED BY <2>3 DEF e
<1> HIDE DEF R
<1> QED BY <1>2, <1>3 DEF InsideStep, R

(* The steps of _GetTextInside.                                            *)
LEMMA InsideScan ==
  ASSUME NEW X, NEW line \in Seq(X), NEW pos \in 1..Len(line), line[pos] \in Openers
  PROVE  \E f \in [pos..Len(line) -> Results(Closers)] :
           /\ InsideIs(f, line, pos)
           /\ f[pos] = Scanning(<<Closer(line[pos])>>)
           /\ \A i \in (pos + 1)..Len(line) : f[i] = InsideStep(f[i - 1], line, i)
<1> DEFINE m == pos
           n == Len(line)
           R == Results(Closers)
           b == Scanning(<<Closer(line[pos])>>)
           step == [i \in Nat |-> [d \in R |-> InsideStep(d, line, i)]]
           Line(f, i) == 
             IF i = pos THEN Scanning(<<Closer(line[pos])>>)
             ELSE LET before == f[i - 1] IN
                  CASE before.over -> before
                    [] ~ before.over /\ line[i] = Last(before.stack) -> Popped(before.stack, i)
                    [] ~ before.over /\ line[i] # Last(before.stack) /\ line[i] \in Closers -> Lost
                    [] ~ before.over /\ line[i] \in Openers ->
                         Scanning(Append(before.stack, Closer(line[i])))
                    [] OTHER -> before
           Body(f) == [i \in m..n |-> Line(f, i)]
           g == CHOOSE f : f = Body(f)
<1>1. m \in Nat /\ n \in Nat /\ m <= n /\ n \in m..n /\ m \in m..n
  OBVIOUS
<1>2. b \in R
  <2> DEFINE e == Closer(line[pos])
  <2>1. e \in Closers /\ 0 \in Nat
    BY CloserType
  <2> HIDE DEF e
  <2>2. <<e>> \in Seq(Closers)
    BY <2>1
  <2>3. Scanning(<<e>>) \in R
    BY <2>1, <2>2, ResultIs
  <2> QED BY <2>3 DEF e
<1>3. ASSUME NEW i \in (m + 1)..n, NEW d \in R
      PROVE  step[i][d] \in R /\ step[i][d] = InsideStep(d, line, i)
  <2>1. i \in Nat
    OBVIOUS
  <2>3. InsideStep(d, line, i) \in R
    BY <2>1, InsideStepType
  <2> QED BY <2>1, <2>3
<1>s. ASSUME NEW f, NEW i \in m..n
      PROVE  Line(f, i) = IF i = m THEN b ELSE InsideStep(f[i - 1], line, i)
  BY <1>1 DEF InsideStep
<1> HIDE DEF step, R, b, m, n
<1>4. PICK h : GoesUp(h, m, n, R, b, step)
  <2>1. \A i \in (m + 1)..n : \A d \in R : step[i][d] \in R
    BY <1>3
  <2> QED BY <1>1, <1>2, <2>1, Upwards
<1>5. h = Body(h)
  <2>0. h \in [m..n -> R] /\ h[m] = b /\ \A i \in (m + 1)..n : h[i] = step[i][h[i - 1]]
    BY <1>4 DEF GoesUp
  <2>1. ASSUME NEW i \in m..n
        PROVE  h[i] = IF i = m THEN b ELSE InsideStep(h[i - 1], line, i)
    <3>1. CASE i = m
      BY <2>0, <3>1
    <3>2. CASE i # m
      <4>1. i \in (m + 1)..n /\ i - 1 \in m..n
        BY <1>1, <3>2
      <4>2. h[i] = step[i][h[i - 1]] /\ h[i - 1] \in R
        BY <2>0, <4>1
      <4> QED BY <1>3, <3>2, <4>1, <4>2
    <3> QED BY <3>1, <3>2
  <2>2. h = [i \in m..n |-> h[i]]
    BY <2>0
  <2> QED BY <2>1, <2>2, <1>s, Zenon
<1>6. g = Body(g)
  BY <1>5
<1>l. \A i \in m..n : g[i] = Line(g, i)
  BY <1>6
<1>7. InsideIs(g, line, pos)
  BY DEF GetTextInside, InsideIs, m, n, b
<1> HIDE DEF g, Line, Body
<1>8. \A i \in m..n : g[i] = IF i = m THEN b ELSE InsideStep(g[i - 1], line, i)
  BY <1>l, <1>s
<1>9. g[m] = b
  BY <1>1, <1>8
<1>10. ASSUME NEW i \in (m + 1)..n PROVE g[i] = InsideStep(g[i - 1], line, i)
  <2>1. i \in m..n /\ i # m
    BY <1>1
  <2> QED BY <1>8, <2>1
<1>11. ASSUME NEW i \in (m + 1)..n, g[i - 1] \in R PROVE g[i] \in R
  <2>1. g[i] = step[i][g[i - 1]]
    BY <1>3, <1>10, <1>11
  <2> QED BY <1>3, <1>11, <2>1
<1>12. g \in [m..n -> R]
  <2>1. g = [i \in m..n |-> g[i]] /\ g[m] \in R
    BY <1>2, <1>6, <1>9 DEF Body
  <2> QED BY <1>1, <1>11, <2>1, UpTyped
<1>13. \A i \in (pos + 1)..Len(line) : g[i] = InsideStep(g[i - 1], line, i)
  BY <1>1, <1>10 DEF m, n
<1> QED BY <1>7, <1>9, <1>12, <1>13 DEF m, n, b, R

-----------------------------------------------------------------------------
(* The places of a text, forwards and backwards.                           *)

TextType == /\ kind \in DOMAIN Alphabets
            /\ text \in Seq(Seq(Alphabets[kind])) /\ text # <<>>

Forwards ==
  [P |-> Places,
   O |-> {ab \in Places \X Places : Before(ab[1], ab[2])},
   up |-> {q \in Places : CharAt(q) \in Openers},
   down |-> {q \in Places : CharAt(q) \in Closers},
   mate |-> {ab \in Places \X Places : CharAt(ab[2]) = Closer(CharAt(ab[1]))}]

Backwards ==
  [P |-> Places,
   O |-> {ab \in Places \X Places : Before(ab[2], ab[1])},
   up |-> {q \in Places : CharAt(q) \in Closers},
   down |-> {q \in Places : CharAt(q) \in Openers},
   mate |-> {ab \in Places \X Places : CharAt(ab[1]) = Closer(CharAt(ab[2]))}]

(* A place is a line and a column of it.                                   *)
LEMMA PlaceIs ==
  ASSUME TextType
  PROVE  /\ \A q \in Places : /\ q[1] \in 1..Len(text) /\ q[2] \in 1..Len(text[q[1]])
                              /\ q = <<q[1], q[2]>> /\ q[1] \in Nat /\ q[2] \in Nat
         /\ \A n \in 1..Len(text) : \A i \in 1..Len(text[n]) : <<n, i>> \in Places
<1>0. text \in Seq(Seq(Alphabets[kind]))
  BY DEF TextType
<1> DEFINE X == Alphabets[kind]
<1>1. DOMAIN text = 1..Len(text) /\ \A n \in 1..Len(text) : text[n] \in Seq(X)
  BY <1>0
<1> HIDE DEF X
<1>2. \A n \in 1..Len(text) : DOMAIN text[n] = 1..Len(text[n])
  BY <1>1
<1>3. ASSUME NEW q \in Places
      PROVE  /\ q[1] \in 1..Len(text) /\ q[2] \in 1..Len(text[q[1]])
             /\ q = <<q[1], q[2]>> /\ q[1] \in Nat /\ q[2] \in Nat
  <2>1. PICK n \in DOMAIN text : q \in {n} \X DOMAIN text[n]
    BY DEF Places
  <2>2. q[1] = n /\ q[2] \in DOMAIN text[n] /\ q = <<q[1], q[2]>>
    BY <2>1
  <2>3. n \in 1..Len(text) /\ q[2] \in 1..Len(text[n])
    BY <1>1, <1>2, <2>1, <2>2
  <2> QED BY <2>2, <2>3
<1>4. ASSUME NEW n \in 1..Len(text), NEW i \in 1..Len(text[n]) PROVE <<n, i>> \in Places
  <2>1. n \in DOMAIN text /\ i \in DOMAIN text[n]
    BY <1>1, <1>2
  <2>2. <<n, i>> \in {n} \X DOMAIN text[n]
    BY <2>1
  <2> QED BY <2>1, <2>2 DEF Places
<1> QED BY <1>3, <1>4

(* A text has finitely many places.                                        *)
LEMMA PlacesFinite ==
  ASSUME TextType
  PROVE  IsFiniteSet(Places)
<1> DEFINE Upto(n) == {q \in Places : q[1] <= n}
           S == {n \in Nat : n <= Len(text) => IsFiniteSet(Upto(n))}
<1>1. 0 \in S
  <2>1. Upto(0) = {}
    BY PlaceIs
  <2> QED BY <2>1, FS_EmptySet
<1>2. ASSUME NEW n \in S PROVE n + 1 \in S
  <2> HIDE DEF Upto
  <2> SUFFICES ASSUME n + 1 <= Len(text) PROVE IsFiniteSet(Upto(n + 1))
    OBVIOUS
  <2>0. Len(text) \in Nat /\ n \in Nat
    BY DEF TextType
  <2> DEFINE row == 1..Len(text[n + 1])
             T == {n + 1} \X row
  <2>1. IsFiniteSet(Upto(n))
    BY <2>0
  <2>2. IsFiniteSet(T)
    <3>1. text[n + 1] \in Seq(Alphabets[kind])
      BY <2>0 DEF TextType
    <3>2. Len(text[n + 1]) \in Nat
      BY <3>1
    <3>3. IsFiniteSet(row)
      BY <3>2, FS_Interval
    <3>4. IsFiniteSet({n + 1})
      BY FS_Singleton
    <3> HIDE DEF row
    <3> QED BY <3>3, <3>4, FS_Product
  <2>3. Upto(n + 1) \in SUBSET (Upto(n) \cup T)
    <3> SUFFICES ASSUME NEW q \in Places, q[1] <= n + 1 PROVE q[1] <= n \/ q \in T
      BY DEF Upto
    <3>1. q[1] \in Nat /\ q[2] \in 1..Len(text[q[1]]) /\ q = <<q[1], q[2]>>
      BY PlaceIs
    <3>2. CASE q[1] = n + 1
      BY <3>1, <3>2
    <3>3. CASE q[1] # n + 1
      BY <2>0, <3>1, <3>3
    <3> QED BY <3>2, <3>3
  <2> HIDE DEF T
  <2>4. IsFiniteSet(Upto(n) \cup T)
    BY <2>1, <2>2, FS_Union
  <2> QED BY <2>3, <2>4, FS_Subset
<1>3. S \in SUBSET Nat
  OBVIOUS
<1>4. \A n \in Nat : n \in S
  <2> HIDE DEF S
  <2> QED BY <1>1, <1>2, <1>3, Inductive
<1>5. Len(text) \in Nat /\ Len(text) <= Len(text)
  BY DEF TextType
<1>6. IsFiniteSet(Upto(Len(text)))
  BY <1>4, <1>5
<1>7. Places = Upto(Len(text))
  BY PlaceIs
<1> QED BY <1>6, <1>7

(* No character is of two kinds.                                           *)
LEMMA KindsOfBrackets ==
  /\ Openers \cap Closers = {} /\ "<" \notin Openers \cup Closers /\ ">" \notin Openers \cup Closers
  /\ "-" \notin Openers \cup Closers /\ " " \notin Openers \cup Closers
  /\ "operator" \notin Openers \cup Closers /\ ";" \notin Openers \cup Closers
  /\ "" \notin Openers \cup Closers
BY DEF Openers, Closers

(* What Forwards and Backwards hold.                                       *)
ForwardsFacts ==
  /\ Forwards.P = Places
  /\ \A a, b \in Places : <<a, b>> \in Forwards.O <=> Before(a, b)
  /\ \A a, b \in Places : <<a, b>> \in Forwards.mate <=> CharAt(b) = Closer(CharAt(a))
  /\ \A a : a \in Forwards.up <=> a \in Places /\ CharAt(a) \in Openers
  /\ \A a : a \in Forwards.down <=> a \in Places /\ CharAt(a) \in Closers

BackwardsFacts ==
  /\ Backwards.P = Places
  /\ \A a, b \in Places : <<a, b>> \in Backwards.O <=> Before(b, a)
  /\ \A a, b \in Places : <<a, b>> \in Backwards.mate <=> CharAt(a) = Closer(CharAt(b))
  /\ \A a : a \in Backwards.up <=> a \in Places /\ CharAt(a) \in Closers
  /\ \A a : a \in Backwards.down <=> a \in Places /\ CharAt(a) \in Openers

LEMMA ForwardsIs == ForwardsFacts
BY DEF Forwards, ForwardsFacts

LEMMA BackwardsIs == BackwardsFacts
BY DEF Backwards, BackwardsFacts

(* The places are in order.                                                *)
LEMMA BeforeIs ==
  ASSUME TextType
  PROVE  /\ \A a \in Places : Before(a, a)
         /\ \A a, b \in Places : Before(a, b) \/ Before(b, a)
         /\ \A a, b \in Places : Before(a, b) /\ Before(b, a) => a = b
         /\ \A a, b, c \in Places : Before(a, b) /\ Before(b, c) => Before(a, c)
<1>1. \A q \in Places : q = <<q[1], q[2]>> /\ q[1] \in Nat /\ q[2] \in Nat
  BY PlaceIs
<1>2. \A a \in Places : Before(a, a)
  BY <1>1 DEF Before
<1>3. \A a, b \in Places : Before(a, b) \/ Before(b, a)
  BY <1>1 DEF Before
<1>4. ASSUME NEW a \in Places, NEW b \in Places, Before(a, b), Before(b, a) PROVE a = b
  <2>1. a[1] = b[1] /\ a[2] = b[2]
    BY <1>1, <1>4 DEF Before
  <2> QED BY <1>1, <2>1
<1>5. \A a, b, c \in Places : Before(a, b) /\ Before(b, c) => Before(a, c)
  BY <1>1 DEF Before
<1> QED BY <1>2, <1>3, <1>4, <1>5

(* They are brackets in a row, from both ends.                             *)
LEMMA TextOrdered ==
  ASSUME TextType
  PROVE  Ordered(Forwards) /\ Mirrored(Forwards, Backwards) /\ Ordered(Backwards)
<1>1. Ordered(Forwards)
  <2>1. Forwards.up \cap Forwards.down = {}
    BY ForwardsIs, KindsOfBrackets DEF ForwardsFacts
  <2>2. Forwards.P = Places /\ \A a, b \in Places : <<a, b>> \in Forwards.O <=> Before(a, b)
    BY ForwardsIs DEF ForwardsFacts
  <2> QED BY <2>1, <2>2, PlacesFinite, BeforeIs DEF Ordered
<1>2. Mirrored(Forwards, Backwards)
  <2>1. Backwards.up = Forwards.down /\ Backwards.down = Forwards.up
    BY DEF Forwards, Backwards
  <2>2. /\ Forwards.P = Places /\ \A a, b \in Places : <<a, b>> \in Forwards.O <=> Before(a, b)
        /\ \A a, b \in Places : <<a, b>> \in Forwards.mate <=> CharAt(b) = Closer(CharAt(a))
    BY ForwardsIs DEF ForwardsFacts
  <2>3. /\ Backwards.P = Places /\ \A a, b \in Places : <<a, b>> \in Backwards.O <=> Before(b, a)
        /\ \A a, b \in Places : <<a, b>> \in Backwards.mate <=> CharAt(a) = Closer(CharAt(b))
    BY BackwardsIs DEF BackwardsFacts
  <2> QED BY <2>1, <2>2, <2>3 DEF Mirrored
<1> QED BY <1>1, <1>2, MirrorOrder

(* Pairs by the text are pairs in a row of brackets.                       *)
LEMMA TextPairs ==
  ASSUME TextType, NEW p \in Places, NEW q \in Places
  PROVE  /\ Between(p, q) = Segment(Forwards, p, q)
         /\ Pair(p, q) <=> Paired(Forwards, p, q)
<1>f. /\ Forwards.P = Places
      /\ \A a, b \in Places : <<a, b>> \in Forwards.O <=> Before(a, b)
      /\ \A a : a \in Forwards.up <=> a \in Places /\ CharAt(a) \in Openers
      /\ \A a : a \in Forwards.down <=> a \in Places /\ CharAt(a) \in Closers
  BY ForwardsIs DEF ForwardsFacts
<1>1. \A a, b \in Places : Between(a, b) = Segment(Forwards, a, b)
  <2> TAKE a, b \in Places
  <2>1. \A r : r \in Between(a, b) <=> r \in Segment(Forwards, a, b)
    BY <1>f DEF Between, Segment
  <2> QED BY <2>1, Zenon
<1>2. \A S \in SUBSET Places : Excess(S) = Net(Forwards, S)
  <2> TAKE S \in SUBSET Places
  <2>1. {r \in S : CharAt(r) \in Openers} = S \cap Forwards.up
    BY <1>f
  <2>2. {r \in S : CharAt(r) \in Closers} = S \cap Forwards.down
    BY <1>f
  <2> QED BY <2>1, <2>2, Zenon DEF Excess, Net
<1>3. \A a, b \in Places : Excess(Between(a, b)) = Net(Forwards, Segment(Forwards, a, b))
  <2> TAKE a, b \in Places
  <2>1. Between(a, b) \in SUBSET Places
    BY DEF Between
  <2>2. Excess(Between(a, b)) = Net(Forwards, Between(a, b))
    BY <1>2, <2>1
  <2>3. Between(a, b) = Segment(Forwards, a, b)
    BY <1>1
  <2> QED BY <2>2, <2>3
<1>4. \A r \in Between(p, q) : r \in Places
  BY DEF Between
<1>5. p \in Forwards.up <=> CharAt(p) \in Openers
  BY <1>f
<1>6. q \in Forwards.down <=> CharAt(q) \in Closers
  BY <1>f
<1>7. <<p, q>> \in Forwards.O <=> Before(p, q)
  BY <1>f
<1>8. Excess(Between(p, q)) = Net(Forwards, Segment(Forwards, p, q))
  BY <1>3
<1>9. Between(p, q) = Segment(Forwards, p, q)
  BY <1>1
<1>10. (\A r \in Between(p, q) \ {q} : Excess(Between(p, r)) > 0)
         <=> \A r \in Segment(Forwards, p, q) \ {q} : Net(Forwards, Segment(Forwards, p, r)) > 0
  BY <1>3, <1>4, <1>9
<1> QED BY <1>5, <1>6, <1>7, <1>8, <1>9, <1>10 DEF Pair, Paired

(* And so is what closes what.                                             *)
LEMMA TextCloses ==
  ASSUME TextType, NEW p \in Places, NEW q \in Places
  PROVE  Closes(q, p) <=> Shut(Forwards, q, p)
<1>1. Pair(p, q) <=> Paired(Forwards, p, q)
  BY TextPairs
<1>2. Between(p, q) = Segment(Forwards, p, q)
  BY TextPairs
<1>3. \A r, s \in Between(p, q) : r \in Places /\ s \in Places
  BY DEF Between
<1>4. \A r, s \in Between(p, q) : Pair(r, s) <=> Paired(Forwards, r, s)
  BY <1>3, TextPairs
<1>5. \A r, s \in Between(p, q) : CharAt(s) = Closer(CharAt(r)) <=> <<r, s>> \in Forwards.mate
  BY <1>3, ForwardsIs DEF ForwardsFacts
<1>6. \A r, s \in Between(p, q) :
        (Pair(r, s) => CharAt(s) = Closer(CharAt(r)))
          <=> (Paired(Forwards, r, s) => <<r, s>> \in Forwards.mate)
  BY <1>4, <1>5
<1>7. (\A r, s \in Between(p, q) : Pair(r, s) => CharAt(s) = Closer(CharAt(r)))
        <=> \A r, s \in Segment(Forwards, p, q) :
              Paired(Forwards, r, s) => <<r, s>> \in Forwards.mate
  BY <1>2, <1>6, Zenon
<1> QED BY <1>1, <1>7, Zenon DEF Closes, Shut

(* What has been read when a scan is at a place of a line.                 *)
Prefix(n, i) == {r \in Places : Before(r, <<n, i>>)}

Suffix(n, i) == {r \in Places : Before(<<n, i>>, r)}

PrefixFacts(n) ==
  /\ \A i \in 1..Len(text[n]) : /\ Follows(Forwards, Prefix(n, i - 1), <<n, i>>)
                                /\ Prefix(n, i) = Prefix(n, i - 1) \cup {<<n, i>>}
                                /\ Below(Forwards, <<n, i>>) = Prefix(n, i)
  /\ n > 1 => Prefix(n, 0) = Prefix(n - 1, Len(text[n - 1]))
  /\ n = Len(text) => Prefix(n, Len(text[n])) = Places

SuffixFacts(n) ==
  /\ \A i \in 1..Len(text[n]) : /\ Follows(Backwards, Suffix(n, i + 1), <<n, i>>)
                                /\ Suffix(n, i) = Suffix(n, i + 1) \cup {<<n, i>>}
                                /\ Below(Backwards, <<n, i>>) = Suffix(n, i)
  /\ n < Len(text) => Suffix(n, Len(text[n]) + 1) = Suffix(n + 1, 1)
  /\ n = 1 => Suffix(n, 1) = Places

(* What was read, character by character and line by line.                 *)
LEMMA PrefixIs ==
  ASSUME TextType, NEW n \in 1..Len(text)
  PROVE  PrefixFacts(n)
<1>p. \A q \in Places : /\ q[1] \in 1..Len(text) /\ q[2] \in 1..Len(text[q[1]])
                        /\ q = <<q[1], q[2]>> /\ q[1] \in Nat /\ q[2] \in Nat
  BY PlaceIs
<1>f. Forwards.P = Places /\ \A a, b \in Places : <<a, b>> \in Forwards.O <=> Before(a, b)
  BY ForwardsIs DEF ForwardsFacts
<1>n. n \in Nat /\ n >= 1 /\ n <= Len(text) /\ Len(text) \in Nat
  BY DEF TextType
<1>0. \A m \in 1..Len(text) : Len(text[m]) \in Nat
  <2> TAKE m \in 1..Len(text)
  <2>1. text[m] \in Seq(Alphabets[kind])
    BY DEF TextType
  <2> QED BY <2>1
<1>b. \A q \in Places : \A m, i \in Nat : Before(q, <<m, i>>) <=> q[1] < m \/ (q[1] = m /\ q[2] <= i)
  BY DEF Before
<1>1. ASSUME NEW i \in 1..Len(text[n])
      PROVE  /\ Follows(Forwards, Prefix(n, i - 1), <<n, i>>)
             /\ Prefix(n, i) = Prefix(n, i - 1) \cup {<<n, i>>}
             /\ Below(Forwards, <<n, i>>) = Prefix(n, i)
  <2> DEFINE x == <<n, i>>
  <2>1. x \in Places /\ i \in Nat /\ i - 1 \in Nat
    BY PlaceIs, <1>0
  <2>2. Below(Forwards, x) = Prefix(n, i)
    <3>1. \A z : z \in Below(Forwards, x) <=> z \in Prefix(n, i)
      BY <1>f, <2>1 DEF Below, Prefix
    <3> QED BY <3>1, Zenon
  <2>3. \A z \in Places : z \in Prefix(n, i) <=> z \in Prefix(n, i - 1) \/ z = x
    <3> TAKE z \in Places
    <3>1. z[1] \in Nat /\ z[2] \in Nat /\ z = <<z[1], z[2]>>
      BY <1>p
    <3>2. z = x <=> z[1] = n /\ z[2] = i
      BY <3>1
    <3>3. z \in Prefix(n, i) <=> z[1] < n \/ (z[1] = n /\ z[2] <= i)
      BY <1>b, <1>n, <2>1 DEF Prefix
    <3>4. z \in Prefix(n, i - 1) <=> z[1] < n \/ (z[1] = n /\ z[2] <= i - 1)
      BY <1>b, <1>n, <2>1 DEF Prefix
    <3> HIDE DEF x
    <3> QED BY <1>n, <2>1, <3>1, <3>2, <3>3, <3>4
  <2>4. Prefix(n, i) = Prefix(n, i - 1) \cup {x}
    <3>1. Prefix(n, i) \in SUBSET Places /\ Prefix(n, i - 1) \in SUBSET Places
      BY DEF Prefix
    <3> HIDE DEF x
    <3> QED BY <2>1, <2>3, <3>1
  <2>5. x \notin Prefix(n, i - 1)
    <3>1. x \in Prefix(n, i - 1) => x[1] < n \/ (x[1] = n /\ x[2] <= i - 1)
      BY <1>b, <1>n, <2>1 DEF Prefix
    <3>2. x[1] = n /\ x[2] = i
      OBVIOUS
    <3> HIDE DEF x
    <3> QED BY <1>n, <2>1, <3>1, <3>2
  <2> HIDE DEF x
  <2>6. Follows(Forwards, Prefix(n, i - 1), x)
    BY <1>f, <2>1, <2>2, <2>4, <2>5 DEF Follows
  <2> QED BY <2>2, <2>4, <2>6 DEF x
<1>2. ASSUME n > 1 PROVE Prefix(n, 0) = Prefix(n - 1, Len(text[n - 1]))
  <2> DEFINE l == Len(text[n - 1])
  <2>1. n - 1 \in 1..Len(text) /\ n - 1 \in Nat
    BY <1>2, <1>n
  <2>2. l \in Nat
    BY <1>0, <2>1
  <2>3. ASSUME NEW z \in Places
        PROVE  Before(z, <<n, 0>>) <=> Before(z, <<n - 1, l>>)
    <3>1. z[1] \in Nat /\ z[2] \in 1..Len(text[z[1]]) /\ z[2] \in Nat
      BY <1>p
    <3>2. Before(z, <<n, 0>>) <=> z[1] < n \/ (z[1] = n /\ z[2] <= 0)
      BY <1>b, <1>n
    <3>3. Before(z, <<n - 1, l>>) <=> z[1] < n - 1 \/ (z[1] = n - 1 /\ z[2] <= l)
      BY <1>b, <2>1, <2>2
    <3>4. z[1] = n - 1 => z[2] \in 1..l
      BY <3>1
    <3>5. z[2] >= 1
      BY <3>1
    <3> HIDE DEF l
    <3> QED BY <1>n, <2>2, <3>1, <3>2, <3>3, <3>4, <3>5
  <2> HIDE DEF l
  <2>4. Prefix(n, 0) = Prefix(n - 1, l)
    BY <2>3 DEF Prefix
  <2> QED BY <2>4 DEF l
<1>3. ASSUME n = Len(text) PROVE Prefix(n, Len(text[n])) = Places
  <2>1. ASSUME NEW z \in Places PROVE Before(z, <<n, Len(text[n])>>)
    <3>1. z[1] \in 1..Len(text) /\ z[2] \in 1..Len(text[z[1]])
      BY <1>p
    <3>2. Len(text[n]) \in Nat
      BY <1>0
    <3> QED BY <1>3, <1>b, <1>n, <3>1, <3>2
  <2> QED BY <2>1 DEF Prefix
<1> QED BY <1>1, <1>2, <1>3 DEF PrefixFacts

(* The same from behind.                                                   *)
LEMMA SuffixIs ==
  ASSUME TextType, NEW n \in 1..Len(text)
  PROVE  SuffixFacts(n)
<1>p. \A q \in Places : /\ q[1] \in 1..Len(text) /\ q[2] \in 1..Len(text[q[1]])
                        /\ q = <<q[1], q[2]>> /\ q[1] \in Nat /\ q[2] \in Nat
  BY PlaceIs
<1>f. Backwards.P = Places /\ \A a, b \in Places : <<a, b>> \in Backwards.O <=> Before(b, a)
  BY BackwardsIs DEF BackwardsFacts
<1>n. n \in Nat /\ n >= 1 /\ n <= Len(text) /\ Len(text) \in Nat
  BY DEF TextType
<1>0. \A m \in 1..Len(text) : Len(text[m]) \in Nat
  <2> TAKE m \in 1..Len(text)
  <2>1. text[m] \in Seq(Alphabets[kind])
    BY DEF TextType
  <2> QED BY <2>1
<1>b. \A q \in Places : \A m, i \in Nat : Before(<<m, i>>, q) <=> m < q[1] \/ (q[1] = m /\ i <= q[2])
  BY DEF Before
<1>1. ASSUME NEW i \in 1..Len(text[n])
      PROVE  /\ Follows(Backwards, Suffix(n, i + 1), <<n, i>>)
             /\ Suffix(n, i) = Suffix(n, i + 1) \cup {<<n, i>>}
             /\ Below(Backwards, <<n, i>>) = Suffix(n, i)
  <2> DEFINE x == <<n, i>>
  <2>1. x \in Places /\ i \in Nat /\ i + 1 \in Nat
    BY PlaceIs, <1>0
  <2>2. Below(Backwards, x) = Suffix(n, i)
    <3>1. \A z : z \in Below(Backwards, x) <=> z \in Suffix(n, i)
      BY <1>f, <2>1 DEF Below, Suffix
    <3> QED BY <3>1, Zenon
  <2>3. \A z \in Places : z \in Suffix(n, i) <=> z \in Suffix(n, i + 1) \/ z = x
    <3> TAKE z \in Places
    <3>1. z[1] \in Nat /\ z[2] \in Nat /\ z = <<z[1], z[2]>>
      BY <1>p
    <3>2. z = x <=> z[1] = n /\ z[2] = i
      BY <3>1
    <3>3. z \in Suffix(n, i) <=> n < z[1] \/ (z[1] = n /\ i <= z[2])
      BY <1>b, <1>n, <2>1 DEF Suffix
    <3>4. z \in Suffix(n, i + 1) <=> n < z[1] \/ (z[1] = n /\ i + 1 <= z[2])
      BY <1>b, <1>n, <2>1 DEF Suffix
    <3> HIDE DEF x
    <3> QED BY <1>n, <2>1, <3>1, <3>2, <3>3, <3>4
  <2>4. Suffix(n, i) = Suffix(n, i + 1) \cup {x}
    <3>1. Suffix(n, i) \in SUBSET Places /\ Suffix(n, i + 1) \in SUBSET Places
      BY DEF Suffix
    <3> HIDE DEF x
    <3> QED BY <2>1, <2>3, <3>1
  <2>5. x \notin Suffix(n, i + 1)
    <3>1. x \in Suffix(n, i + 1) => n < x[1] \/ (x[1] = n /\ i + 1 <= x[2])
      BY <1>b, <1>n, <2>1 DEF Suffix
    <3>2. x[1] = n /\ x[2] = i
      OBVIOUS
    <3> HIDE DEF x
    <3> QED BY <1>n, <2>1, <3>1, <3>2
  <2> HIDE DEF x
  <2>6. Follows(Backwards, Suffix(n, i + 1), x)
    BY <1>f, <2>1, <2>2, <2>4, <2>5 DEF Follows
  <2> QED BY <2>2, <2>4, <2>6 DEF x
<1>2. ASSUME n < Len(text) PROVE Suffix(n, Len(text[n]) + 1) = Suffix(n + 1, 1)
  <2> DEFINE l == Len(text[n])
  <2>1. n + 1 \in Nat /\ l \in Nat /\ l + 1 \in Nat
    BY <1>0, <1>n
  <2>3. ASSUME NEW z \in Places
        PROVE  Before(<<n, l + 1>>, z) <=> Before(<<n + 1, 1>>, z)
    <3>1. z[1] \in Nat /\ z[2] \in 1..Len(text[z[1]]) /\ z[2] \in Nat
      BY <1>p
    <3>2. Before(<<n, l + 1>>, z) <=> n < z[1] \/ (z[1] = n /\ l + 1 <= z[2])
      BY <1>b, <1>n, <2>1
    <3>3. Before(<<n + 1, 1>>, z) <=> n + 1 < z[1] \/ (z[1] = n + 1 /\ 1 <= z[2])
      BY <1>b, <2>1
    <3>4. z[1] = n => z[2] \in 1..l
      BY <3>1
    <3>5. z[2] >= 1
      BY <3>1
    <3> HIDE DEF l
    <3> QED BY <1>n, <2>1, <3>1, <3>2, <3>3, <3>4, <3>5
  <2> HIDE DEF l
  <2>4. Suffix(n, l + 1) = Suffix(n + 1, 1)
    BY <2>3 DEF Suffix
  <2> QED BY <2>4 DEF l
<1>3. ASSUME n = 1 PROVE Suffix(n, 1) = Places
  <2>1. ASSUME NEW z \in Places PROVE Before(<<n, 1>>, z)
    <3>1. z[1] \in 1..Len(text) /\ z[2] \in 1..Len(text[z[1]])
      BY <1>p
    <3> QED BY <1>3, <1>b, <1>n, <3>1
  <2> QED BY <2>1 DEF Suffix
<1> QED BY <1>1, <1>2, <1>3 DEF SuffixFacts

-----------------------------------------------------------------------------
(* The code's steps are steps of such a scan.                              *)

EndKey ==
  [code |-> [a \in Places |-> CharAt(a)], want |-> [b \in Places |-> Opener(CharAt(b))],
   angle |-> "<", symbols |-> EndSymbols, ends |-> {q \in Places : CharAt(q) = ">"}]

StartKey ==
  [code |-> [a \in Places |-> CharAt(a)], want |-> [b \in Places |-> Closer(CharAt(b))],
   angle |-> ">", symbols |-> StartSymbols, ends |-> {q \in Places : CharAt(q) = "<"}]

InsideKey ==
  [code |-> [a \in Places |-> Closer(CharAt(a))], want |-> [b \in Places |-> CharAt(b)],
   angle |-> "<", symbols |-> Closers \cup {"<"}, ends |-> {}]

(* Opener and Closer are inverse.                                          *)
LEMMA Mates == \A o \in Openers : \A c \in Closers : o = Opener(c) <=> c = Closer(o)
BY DEF Openers, Closers, Opener, Closer

(* FindEndOfExpressionInLine keeps the openers,                            *)
LEMMA EndKeyFits ==
  /\ \A a \in Places : EndKey.code[a] = CharAt(a) /\ EndKey.want[a] = Opener(CharAt(a))
  /\ EndKey.angle = "<" /\ EndKey.symbols = EndSymbols
  /\ \A a \in Places : a \in EndKey.ends <=> CharAt(a) = ">"
  /\ Fits(Forwards, EndKey)
<1>1. /\ \A a \in Places : EndKey.code[a] = CharAt(a) /\ EndKey.want[a] = Opener(CharAt(a))
      /\ EndKey.angle = "<" /\ EndKey.symbols = EndSymbols
      /\ \A a \in Places : a \in EndKey.ends <=> CharAt(a) = ">"
  BY DEF EndKey
<1>f. /\ Forwards.P = Places
      /\ \A a, b \in Places : <<a, b>> \in Forwards.mate <=> CharAt(b) = Closer(CharAt(a))
      /\ \A a : a \in Forwards.up <=> a \in Places /\ CharAt(a) \in Openers
      /\ \A a : a \in Forwards.down <=> a \in Places /\ CharAt(a) \in Closers
  BY ForwardsIs DEF ForwardsFacts
<1>2. \A c \in Openers : c \in EndSymbols /\ c # "<"
  BY KindsOfBrackets DEF EndSymbols
<1>3. "<" \in EndSymbols
  BY DEF EndSymbols
<1>4. \A a \in Places : a \in Forwards.up => EndKey.code[a] \in EndKey.symbols
                                             /\ EndKey.code[a] # EndKey.angle
  BY <1>1, <1>2, <1>f
<1>5. \A a, b \in Places : a \in Forwards.up /\ b \in Forwards.down =>
        (EndKey.code[a] = EndKey.want[b] <=> <<a, b>> \in Forwards.mate)
  BY <1>1, <1>f, Mates
<1>6. Fits(Forwards, EndKey)
  BY <1>1, <1>3, <1>4, <1>5, <1>f DEF Fits
<1> QED BY <1>1, <1>6

(* FindStartOfExpressionInLine the closers,                                *)
LEMMA StartKeyFits ==
  /\ \A a \in Places : StartKey.code[a] = CharAt(a) /\ StartKey.want[a] = Closer(CharAt(a))
  /\ StartKey.angle = ">" /\ StartKey.symbols = StartSymbols
  /\ \A a \in Places : a \in StartKey.ends <=> CharAt(a) = "<"
  /\ Fits(Backwards, StartKey)
<1>1. /\ \A a \in Places : StartKey.code[a] = CharAt(a) /\ StartKey.want[a] = Closer(CharAt(a))
      /\ StartKey.angle = ">" /\ StartKey.symbols = StartSymbols
      /\ \A a \in Places : a \in StartKey.ends <=> CharAt(a) = "<"
  BY DEF StartKey
<1>f. /\ Backwards.P = Places
      /\ \A a, b \in Places : <<a, b>> \in Backwards.mate <=> CharAt(a) = Closer(CharAt(b))
      /\ \A a : a \in Backwards.up <=> a \in Places /\ CharAt(a) \in Closers
      /\ \A a : a \in Backwards.down <=> a \in Places /\ CharAt(a) \in Openers
  BY BackwardsIs DEF BackwardsFacts
<1>2. \A c \in Closers : c \in StartSymbols /\ c # ">"
  BY KindsOfBrackets DEF StartSymbols
<1>3. ">" \in StartSymbols
  BY DEF StartSymbols
<1>4. \A a \in Places : a \in Backwards.up => StartKey.code[a] \in StartKey.symbols
                                              /\ StartKey.code[a] # StartKey.angle
  BY <1>1, <1>2, <1>f
<1>5. \A a, b \in Places : a \in Backwards.up /\ b \in Backwards.down =>
        (StartKey.code[a] = StartKey.want[b] <=> <<a, b>> \in Backwards.mate)
  BY <1>1, <1>f
<1>6. Fits(Backwards, StartKey)
  BY <1>1, <1>3, <1>4, <1>5, <1>f DEF Fits
<1> QED BY <1>1, <1>6

(* _GetTextInside what its openers wait for.                               *)
LEMMA InsideKeyFits ==
  /\ \A a \in Places : InsideKey.code[a] = Closer(CharAt(a)) /\ InsideKey.want[a] = CharAt(a)
  /\ InsideKey.angle = "<" /\ InsideKey.symbols = Closers \cup {"<"}
  /\ Fits(Forwards, InsideKey)
<1>1. /\ \A a \in Places : InsideKey.code[a] = Closer(CharAt(a)) /\ InsideKey.want[a] = CharAt(a)
      /\ InsideKey.angle = "<" /\ InsideKey.symbols = Closers \cup {"<"}
  BY DEF InsideKey
<1>f. /\ Forwards.P = Places
      /\ \A a, b \in Places : <<a, b>> \in Forwards.mate <=> CharAt(b) = Closer(CharAt(a))
      /\ \A a : a \in Forwards.up <=> a \in Places /\ CharAt(a) \in Openers
      /\ \A a : a \in Forwards.down <=> a \in Places /\ CharAt(a) \in Closers
  BY ForwardsIs DEF ForwardsFacts
<1>2. \A c \in Openers : Closer(c) \in Closers /\ Closer(c) # "<"
  BY CloserType, KindsOfBrackets
<1>4. \A a \in Places : a \in Forwards.up => InsideKey.code[a] \in InsideKey.symbols
                                             /\ InsideKey.code[a] # InsideKey.angle
  BY <1>1, <1>2, <1>f
<1>5. \A a, b \in Places : a \in Forwards.up /\ b \in Forwards.down =>
        (InsideKey.code[a] = InsideKey.want[b] <=> <<a, b>> \in Forwards.mate)
  BY <1>1, <1>f
<1>6. Fits(Forwards, InsideKey)
  BY <1>1, <1>4, <1>5, <1>f DEF Fits
<1> QED BY <1>1, <1>6

(* Nothing is on top of an empty stack.                                    *)
LEMMA TopIsLast ==
  ASSUME NEW stack
  PROVE  /\ stack # <<>> => Top(stack) = Last(stack)
         /\ Top(stack) = "<" => stack # <<>> /\ Last(stack) = "<"
         /\ Top(stack) = ">" => stack # <<>> /\ Last(stack) = ">"
<1>1. stack # <<>> => Top(stack) = Last(stack)
  BY Zenon DEF Top
<1>2. stack = <<>> => Top(stack) # "<" /\ Top(stack) # ">"
  <2>1. "" # "<" /\ "" # ">"
    BY Zenon
  <2> QED BY <2>1, Zenon DEF Top
<1> QED BY <1>1, <1>2, Zenon

(* EndStep is a step of such a scan.                                       *)
LEMMA EndMove ==
  ASSUME TextType, NEW n \in 1..Len(text), NEW i \in 1..Len(text[n]),
         NEW stack \in Seq(EndSymbols)
  PROVE  Move(Forwards, EndKey, <<n, i>>, i + 1, stack, EndStep(stack, text[n], i))
<1> DEFINE x == <<n, i>>
           c == text[n][i]
           line == text[n]
           rest == Without(stack, "<")
           res == EndStep(stack, line, i)
<1>1. x \in Places /\ CharAt(x) = c
  BY PlaceIs DEF CharAt
<1>2. /\ x \in Forwards.up <=> c \in Openers
      /\ x \in Forwards.down <=> c \in Closers
  BY <1>1, ForwardsIs DEF ForwardsFacts
<1>3. /\ EndKey.code[x] = c /\ EndKey.want[x] = Opener(c) /\ EndKey.angle = "<"
      /\ x \in EndKey.ends <=> c = ">"
  BY <1>1, EndKeyFits
<1>4. ASSUME c \in Openers PROVE res = Scanning(Append(stack, c))
  <2>1. c \notin Closers /\ c # "<" /\ c # ">" /\ c # ";"
    BY <1>4, KindsOfBrackets, Zenon
  <2> QED BY <1>4, <2>1, Zenon DEF EndStep
<1>5. ASSUME c \in Closers
      PROVE  res = IF rest # <<>> /\ Top(rest) = Opener(c) THEN Popped(rest, i + 1) ELSE Lost
  <2>1. c \notin Openers /\ c # "<" /\ c # ">" /\ c # ";"
    BY <1>5, KindsOfBrackets, Zenon
  <2> QED BY <1>5, <2>1, Zenon DEF EndStep
<1>6. ASSUME c \notin Openers, c \notin Closers
      PROVE  \/ res = Scanning(stack)
             \/ res = Scanning(Append(stack, "<"))
             \/ Top(stack) = "<" /\ res = Popped(stack, 0)
             \/ Top(stack) = "<" /\ res = Popped(stack, i + 1) /\ c = ">"
             \/ rest = <<>> /\ res = Lost
             \/ rest # <<>> /\ res = Scanning(rest)
  <2>1. CASE c = "<"
    BY <1>6, <2>1 DEF EndStep
  <2>2. CASE c = ">"
    BY <1>6, <2>2 DEF EndStep
  <2>3. CASE c = ";"
    BY <1>6, <2>3 DEF EndStep
  <2>4. CASE c \notin {"<", ">", ";"}
    BY <1>6, <2>4 DEF EndStep
  <2> QED BY <2>1, <2>2, <2>3, <2>4
<1>7. /\ rest # <<>> => Top(rest) = Last(rest)
      /\ Top(stack) = "<" => stack # <<>> /\ Last(stack) = "<"
  BY TopIsLast, Zenon
<1> HIDE DEF x, c, line, rest, res
<1>8. x \in Forwards.up => res = Scanning(Append(stack, EndKey.code[x]))
  BY <1>2, <1>3, <1>4
<1>9. x \in Forwards.down =>
        res = IF rest # <<>> /\ Last(rest) = EndKey.want[x] THEN Popped(rest, i + 1) ELSE Lost
  BY <1>2, <1>3, <1>5, <1>7
<1>10. x \notin Forwards.up \cup Forwards.down =>
           \/ res = Scanning(stack)
           \/ res = Scanning(Append(stack, EndKey.angle))
           \/ stack # <<>> /\ Last(stack) = EndKey.angle /\ res = Popped(stack, 0)
           \/ /\ stack # <<>> /\ Last(stack) = EndKey.angle
              /\ res = Popped(stack, i + 1) /\ x \in EndKey.ends
           \/ rest = <<>> /\ res = Lost
           \/ rest # <<>> /\ res = Scanning(rest)
  BY <1>2, <1>3, <1>6, <1>7
<1>11. rest = Without(stack, EndKey.angle)
  BY <1>3 DEF rest
<1>12. Move(Forwards, EndKey, x, i + 1, stack, res)
  BY <1>8, <1>9, <1>10, <1>11 DEF Move
<1> QED BY <1>12 DEF x, res, line

(* Before an operator there is none of the brackets.                       *)
LEMMA NoBracketEnds ==
  ASSUME NEW X, NEW line \in Seq(X), NEW i \in 1..Len(line), i > 1,
         EndsInOperator(SubSeq(line, 1, i - 1))
  PROVE  line[i - 1] \notin Openers \cup Closers
<1> DEFINE s == SubSeq(line, 1, i - 1)
           I == {j \in 1..Len(s) : s[j] # " "}
           k == IF I # {} THEN Max(I) ELSE 0
<1>1. i - 1 \in 0..Len(line) /\ i - 1 \in 1..(i - 1)
  OBVIOUS
<1>2. s \in Seq(X) /\ Len(s) = i - 1 /\ s[i - 1] = line[i - 1]
  BY <1>1, SubSeqIs
<1>3. k > 0 /\ s[k] = "operator"
  BY DEF EndsInOperator, SelectLastInSeq
<1> HIDE DEF s
<1>4. I # {} => Max(I) \in I /\ \A j \in I : j <= Max(I)
  <2>0. I \in SUBSET (1..Len(s))
    OBVIOUS
  <2> HIDE DEF I
  <2>1. Len(s) \in Nat /\ I \in SUBSET (1..Len(s))
    BY <1>1, <1>2, <2>0
  <2> QED BY <2>1, GreatestNumber
<1>5. k \in I /\ \A j \in I : j <= k
  <2> HIDE DEF I
  <2> QED BY <1>3, <1>4
<1>6. CASE k = i - 1
  BY <1>2, <1>3, <1>6, KindsOfBrackets
<1>7. CASE k # i - 1
  <2>0. I \in SUBSET (1..Len(s)) /\ (i - 1 \notin I => ~ (i - 1 \in 1..Len(s) /\ s[i - 1] # " "))
    OBVIOUS
  <2> HIDE DEF k, I
  <2>1. k \in 1..(i - 1)
    BY <1>2, <1>5, <2>0
  <2>3. i - 1 \notin I
    BY <1>1, <1>5, <1>7, <2>1
  <2>2. s[i - 1] = " "
    BY <1>1, <1>2, <2>0, <2>3
  <2> QED BY <1>2, <2>2, KindsOfBrackets
<1> QED BY <1>6, <1>7

(* A scan that goes back without its memory of the token of two.           *)
Core(r) == [stack |-> r.stack, over |-> r.over, pos |-> r.pos]

(* What is remembered besides changes no result.                           *)
LEMMA CoreIs ==
  ASSUME NEW stack, NEW at, NEW skip
  PROVE  /\ Core(Going(Scanning(stack), skip)) = Scanning(stack)
         /\ Core(Going(Lost, skip)) = Lost
         /\ Core(Going(Popped(stack, at), skip)) = Popped(stack, at)
<1>1. \A s : Core(Going(Scanning(s), skip)) = Scanning(s)
  BY DEF Core, Going, Scanning
<1>2. \A a : Core(Going(Found(a), skip)) = Found(a)
  BY DEF Core, Going, Found
<1>3. Core(Going(Popped(stack, at), skip)) = Popped(stack, at)
  BY <1>1, <1>2 DEF Popped
<1> QED BY <1>1, <1>2, <1>3 DEF Lost

StartMoves(n, i, stack) ==
  LET res == StartStep(stack, text[n], i)
  IN  /\ Move(Backwards, StartKey, <<n, i>>, i, stack, Core(res))
      /\ res.skip => /\ res = Going(Scanning(stack), TRUE) /\ i > 1
                     /\ text[n][i - 1] \notin Openers \cup Closers

(* StartStep is a step, and what it skips next is no bracket.              *)
LEMMA StartMove ==
  ASSUME TextType, NEW n \in 1..Len(text), NEW i \in 1..Len(text[n]),
         NEW stack \in Seq(StartSymbols)
  PROVE  StartMoves(n, i, stack)
<1> DEFINE x == <<n, i>>
           line == text[n]
           c == line[i]
           rest == Without(stack, ">")
           res == StartStep(stack, line, i)
           back(r) == Going(r, FALSE)
           arrow == /\ i > 1
                    /\ \/ line[i - 1] = "-"
                       \/ /\ line[i - 1] = " " /\ i + 2 <= Len(line)
                          /\ line[i + 1] = "=" /\ line[i + 2] = " "
                       \/ EndsInOperator(SubSeq(line, 1, i - 1))
<1>1. x \in Places /\ CharAt(x) = c
  BY PlaceIs DEF CharAt
<1>2. /\ x \in Backwards.up <=> c \in Closers
      /\ x \in Backwards.down <=> c \in Openers
  BY <1>1, BackwardsIs DEF BackwardsFacts
<1>3. /\ StartKey.code[x] = c /\ StartKey.want[x] = Closer(c) /\ StartKey.angle = ">"
      /\ x \in StartKey.ends <=> c = "<"
  BY <1>1, StartKeyFits
<1>4. ASSUME c \in Closers PROVE res = back(Scanning(Append(stack, c)))
  <2>1. c \notin Openers /\ c # "<" /\ c # ">" /\ c # ";"
    BY <1>4, KindsOfBrackets, Zenon
  <2> QED BY <1>4, <2>1, Zenon DEF StartStep
<1>5. ASSUME c \in Openers
      PROVE  res = IF rest # <<>> /\ Top(rest) = Closer(c) THEN back(Popped(rest, i)) ELSE back(Lost)
  <2>1. c \notin Closers /\ c # "<" /\ c # ">" /\ c # ";"
    BY <1>5, KindsOfBrackets, Zenon
  <2> QED BY <1>5, <2>1, Zenon DEF StartStep
<1>a. arrow => i > 1 /\ line[i - 1] \notin Openers \cup Closers
  <2>1. line \in Seq(Alphabets[kind])
    BY DEF TextType
  <2>2. i > 1 /\ EndsInOperator(SubSeq(line, 1, i - 1)) => line[i - 1] \notin Openers \cup Closers
    BY <2>1, NoBracketEnds
  <2>3. line[i - 1] = "-" \/ line[i - 1] = " " => line[i - 1] \notin Openers \cup Closers
    BY KindsOfBrackets, Zenon
  <2> QED BY <2>2, <2>3, Zenon
<1>6. ASSUME c \notin Openers, c \notin Closers
      PROVE  \/ res = back(Scanning(stack))
             \/ /\ res = Going(Scanning(stack), TRUE)
                /\ i > 1 /\ line[i - 1] \notin Openers \cup Closers
             \/ res = back(Scanning(Append(stack, ">")))
             \/ Top(stack) = ">" /\ res = back(Popped(stack, i)) /\ c = "<"
             \/ rest = <<>> /\ res = back(Lost)
             \/ rest # <<>> /\ res = back(Scanning(rest))
  <2>1. CASE c = "<"
    <3>1. line[i - 1] = "<" => line[i - 1] \notin Openers \cup Closers
      BY KindsOfBrackets, Zenon
    <3>2. c # ">" /\ c # ";"
      BY <2>1
    <3>3. res = IF i > 1 /\ line[i - 1] = "<" THEN Going(Scanning(stack), TRUE)
                ELSE IF Top(stack) = ">" THEN back(Popped(stack, i)) ELSE back(Scanning(stack))
      BY <1>6, <2>1, <3>2, Zenon DEF StartStep
    <3> HIDE DEF res, back
    <3> QED BY <2>1, <3>1, <3>3, Zenon
  <2>2. CASE c = ">"
    <3>1. c # "<" /\ c # ";"
      BY <2>2
    <3>2. res = IF arrow THEN Going(Scanning(stack), TRUE)
                ELSE back(Scanning(Append(stack, ">")))
      BY <1>6, <2>2, <3>1, Zenon DEF StartStep
    <3> HIDE DEF res, back, arrow
    <3> QED BY <1>a, <3>2, Zenon
  <2>3. CASE c = ";"
    <3>1. c # "<" /\ c # ">"
      BY <2>3
    <3>2. res = IF rest = <<>> THEN back(Lost) ELSE back(Scanning(rest))
      BY <1>6, <2>3, <3>1, Zenon DEF StartStep
    <3> HIDE DEF res, back, arrow, rest
    <3> QED BY <3>2, Zenon
  <2>4. CASE c # "<" /\ c # ">" /\ c # ";"
    <3>1. res = back(Scanning(stack))
      BY <1>6, <2>4, Zenon DEF StartStep
    <3> QED BY <3>1
  <2> QED BY <2>1, <2>2, <2>3, <2>4
<1>7. /\ rest # <<>> => Top(rest) = Last(rest)
      /\ Top(stack) = ">" => stack # <<>> /\ Last(stack) = ">"
  BY TopIsLast, Zenon
<1>8. rest = Without(stack, StartKey.angle)
  BY <1>3
<1> HIDE DEF x, c, line, rest, res, arrow
<1>9. x \in Backwards.up => Core(res) = Scanning(Append(stack, StartKey.code[x])) /\ ~ res.skip
  <2>1. \A r : Going(r, FALSE).skip = FALSE
    BY DEF Going
  <2> QED BY <1>2, <1>3, <1>4, <2>1, CoreIs
<1>10. x \in Backwards.down =>
         /\ Core(res) = IF rest # <<>> /\ Last(rest) = StartKey.want[x] THEN Popped(rest, i) ELSE Lost
         /\ ~ res.skip
  <2>1. \A r : Going(r, FALSE).skip = FALSE
    BY DEF Going
  <2> QED BY <1>2, <1>3, <1>5, <1>7, <2>1, CoreIs
<1>11. x \notin Backwards.up \cup Backwards.down =>
           /\ \/ Core(res) = Scanning(stack)
              \/ Core(res) = Scanning(Append(stack, StartKey.angle))
              \/ /\ stack # <<>> /\ Last(stack) = StartKey.angle
                 /\ Core(res) = Popped(stack, i) /\ x \in StartKey.ends
              \/ rest = <<>> /\ Core(res) = Lost
              \/ rest # <<>> /\ Core(res) = Scanning(rest)
           /\ res.skip => /\ res = Going(Scanning(stack), TRUE) /\ i > 1
                          /\ line[i - 1] \notin Openers \cup Closers
  <2>1. \A r : Going(r, FALSE).skip = FALSE
    BY DEF Going
  <2> SUFFICES ASSUME x \notin Backwards.up \cup Backwards.down
               PROVE  /\ \/ Core(res) = Scanning(stack)
                         \/ Core(res) = Scanning(Append(stack, StartKey.angle))
                         \/ /\ stack # <<>> /\ Last(stack) = StartKey.angle
                            /\ Core(res) = Popped(stack, i) /\ x \in StartKey.ends
                         \/ rest = <<>> /\ Core(res) = Lost
                         \/ rest # <<>> /\ Core(res) = Scanning(rest)
                      /\ res.skip => /\ res = Going(Scanning(stack), TRUE) /\ i > 1
                                     /\ line[i - 1] \notin Openers \cup Closers
    OBVIOUS
  <2>2. c \notin Openers /\ c \notin Closers
    BY <1>2
  <2> QED BY <1>3, <1>6, <1>7, <2>1, <2>2, CoreIs
<1>12. Move(Backwards, StartKey, x, i, stack, Core(res))
  BY <1>8, <1>9, <1>10, <1>11 DEF Move
<1>13. res.skip => /\ res = Going(Scanning(stack), TRUE) /\ i > 1
                   /\ line[i - 1] \notin Openers \cup Closers
  BY <1>9, <1>10, <1>11
<1> QED BY <1>12, <1>13 DEF x, res, line, StartMoves

(* The stack of _GetTextInside has no angle brackets.                      *)
LEMMA InsideMove ==
  ASSUME TextType, NEW n \in 1..Len(text), NEW i \in 1..Len(text[n]),
         NEW d \in Results(Closers), ~ d.over, d.pos = 0, d.stack # <<>>
  PROVE  Move(Forwards, InsideKey, <<n, i>>, i, d.stack, InsideStep(d, text[n], i))
<1> DEFINE x == <<n, i>>
           line == text[n]
           c == line[i]
           stack == d.stack
           res == InsideStep(d, line, i)
<1>1. x \in Places /\ CharAt(x) = c
  BY PlaceIs DEF CharAt
<1>2. /\ x \in Forwards.up <=> c \in Openers
      /\ x \in Forwards.down <=> c \in Closers
  BY <1>1, ForwardsIs DEF ForwardsFacts
<1>3. /\ InsideKey.code[x] = Closer(c) /\ InsideKey.want[x] = c /\ InsideKey.angle = "<"
  BY <1>1, InsideKeyFits
<1>4. stack \in Seq(Closers) /\ stack # <<>> /\ d = Scanning(stack)
  BY DEF Results, Scanning
<1>5. Len(stack) \in 1..Len(stack) /\ Last(stack) = stack[Len(stack)] /\ Last(stack) \in Closers
  BY <1>4, EmptySeq DEF Last
<1>6. Without(stack, "<") = stack
  <2>1. PICK k \in 0..Len(stack) :
           /\ Without(stack, "<") = SubSeq(stack, 1, k)
           /\ \A j \in (k + 1)..Len(stack) : stack[j] = "<"
    BY <1>4, WithoutIs
  <2>2. k = Len(stack)
    <3> SUFFICES ASSUME k # Len(stack) PROVE FALSE
      OBVIOUS
    <3>1. Len(stack) \in (k + 1)..Len(stack)
      BY <1>5
    <3>2. "<" \in Closers
      BY <1>5, <2>1, <3>1
    <3> QED BY <3>2, KindsOfBrackets
  <2>3. SubSeq(stack, 1, Len(stack)) = stack
    BY <1>4
  <2> QED BY <2>1, <2>2, <2>3
<1>7. Openers \cap Closers = {}
  BY KindsOfBrackets
<1> HIDE DEF stack, c
<1>8. /\ c = Last(stack) => res = Popped(stack, i)
      /\ c # Last(stack) /\ c \in Closers => res = Lost
      /\ c \in Openers => res = Scanning(Append(stack, Closer(c)))
      /\ c \notin Openers /\ c \notin Closers => res = Scanning(stack)
  <2>1. CASE c = Last(stack)
    <3>1. c \notin Openers /\ c \in Closers
      BY <1>5, <1>7, <2>1
    <3>2. res = Popped(stack, i)
      BY <2>1, <3>1, Zenon DEF InsideStep, stack, c
    <3> QED BY <2>1, <3>1, <3>2
  <2>2. CASE c # Last(stack) /\ c \in Closers
    <3>1. c \notin Openers
      BY <1>7, <2>2
    <3>2. res = Lost
      BY <2>2, <3>1, Zenon DEF InsideStep, stack, c
    <3> QED BY <2>2, <3>1, <3>2
  <2>3. CASE c \in Openers
    <3>1. c \notin Closers /\ c # Last(stack)
      BY <1>5, <1>7, <2>3
    <3>2. res = Scanning(Append(stack, Closer(c)))
      BY <2>3, <3>1, Zenon DEF InsideStep, stack, c
    <3> QED BY <2>3, <3>1, <3>2
  <2>4. CASE c \notin Openers /\ c \notin Closers
    <3>1. c # Last(stack)
      BY <1>5, <2>4
    <3>2. res = d
      BY <2>4, <3>1, Zenon DEF InsideStep, stack, c
    <3> QED BY <1>4, <2>4, <3>1, <3>2
  <2> QED BY <2>1, <2>2, <2>3, <2>4
<1> HIDE DEF res, x
<1>9. Without(stack, InsideKey.angle) = stack
  BY <1>3, <1>6
<1>10. Move(Forwards, InsideKey, x, i, stack, res)
  BY <1>2, <1>3, <1>4, <1>7, <1>8, <1>9 DEF Move
<1> QED BY <1>10 DEF x, res, line, stack

-----------------------------------------------------------------------------
(* A scan of one line.                                                     *)

LineResult(E, K, p, Q, n, at, r) ==
  \/ ~ r.over /\ r.pos = 0 /\ Waits(E, K, p, Q, r.stack)
  \/ r.over /\ r.pos = 0 /\ Hopeless(E, p)
  \/ r.over /\ \E i \in 1..Len(text[n]) : r.pos = at[i] /\ Answer(E, K, p, <<n, i>>)

(* The lines of a text are sequences.                                      *)
LEMMA LineLengths ==
  ASSUME TextType
  PROVE  /\ Len(text) \in Nat
         /\ \A n \in 1..Len(text) : text[n] \in Seq(Alphabets[kind]) /\ Len(text[n]) \in Nat
<1>1. Len(text) \in Nat /\ \A n \in 1..Len(text) : text[n] \in Seq(Alphabets[kind])
  BY DEF TextType
<1> DEFINE X == Alphabets[kind]
<1> HIDE DEF X
<1>2. \A s \in Seq(X) : Len(s) \in Nat
  OBVIOUS
<1> QED BY <1>1, <1>2 DEF X

(* What a scan of a line upwards has found at its end.                     *)
LEMMA LineUp ==
  ASSUME TextType, NEW K, Fits(Forwards, K), NEW p, NEW n \in 1..Len(text),
         NEW base \in 0..Len(text[n]), NEW f, NEW at,
         ~ f[base].over, f[base].pos = 0,
         Waits(Forwards, K, p, Prefix(n, base), f[base].stack),
         \A i \in (base + 1)..Len(text[n]) :
           /\ f[i - 1].over => f[i] = f[i - 1]
           /\ ~ f[i - 1].over /\ f[i - 1].pos = 0 /\ f[i - 1].stack # <<>> =>
                Move(Forwards, K, <<n, i>>, at[i], f[i - 1].stack, f[i])
  PROVE  LineResult(Forwards, K, p, Prefix(n, Len(text[n])), n, at, f[Len(text[n])])
<1> DEFINE l == Len(text[n])
           m == l - base
           g == [k \in 0..m |-> f[base + k]]
           xs == [k \in 1..m |-> <<n, base + k>>]
           as == [k \in 1..m |-> at[base + k]]
           Qs == [k \in 0..m |-> Prefix(n, base + k)]
<1>1. l \in Nat /\ base \in 0..l
  BY LineLengths
<1>o. Ordered(Forwards)
  BY TextOrdered
<1>x. \A i \in 1..l : /\ Follows(Forwards, Prefix(n, i - 1), <<n, i>>)
                      /\ Prefix(n, i) = Prefix(n, i - 1) \cup {<<n, i>>}
  BY PrefixIs DEF PrefixFacts
<1>s. \A i \in (base + 1)..l :
        /\ f[i - 1].over => f[i] = f[i - 1]
        /\ ~ f[i - 1].over /\ f[i - 1].pos = 0 /\ f[i - 1].stack # <<>> =>
             Move(Forwards, K, <<n, i>>, at[i], f[i - 1].stack, f[i])
  OBVIOUS
<1> HIDE DEF l
<1>2. m \in Nat /\ base + 0 = base /\ base + m = l /\ base \in Nat
  BY <1>1
<1> HIDE DEF m
<1>g. \A k \in 0..m : g[k] = f[base + k] /\ Qs[k] = Prefix(n, base + k)
  OBVIOUS
<1>h. \A k \in 1..m : xs[k] = <<n, base + k>> /\ as[k] = at[base + k]
  OBVIOUS
<1> HIDE DEF g, xs, as, Qs
<1>3. \A k \in 1..m : /\ k \in 0..m /\ k - 1 \in 0..m /\ base + k \in (base + 1)..l
                      /\ base + k \in 1..l /\ base + (k - 1) = (base + k) - 1
  BY <1>1, <1>2
<1>k. ASSUME NEW k \in 1..m
      PROVE  /\ g[k] = f[base + k] /\ g[k - 1] = f[(base + k) - 1]
             /\ Qs[k] = Prefix(n, base + k) /\ Qs[k - 1] = Prefix(n, (base + k) - 1)
             /\ xs[k] = <<n, base + k>> /\ as[k] = at[base + k]
  <2>1. /\ k \in 0..m /\ k - 1 \in 0..m /\ base + (k - 1) = (base + k) - 1
    BY <1>3
  <2>2. g[k - 1] = f[base + (k - 1)] /\ Qs[k - 1] = Prefix(n, base + (k - 1))
    BY <1>g, <2>1
  <2> QED BY <1>g, <1>h, <2>1, <2>2
<1>4. ASSUME NEW k \in 1..m
      PROVE  Follows(Forwards, Qs[k - 1], xs[k]) /\ Qs[k] = Qs[k - 1] \cup {xs[k]}
  <2> DEFINE i == base + k
  <2>1. i \in 1..l
    BY <1>3
  <2> HIDE DEF i
  <2>2. /\ Follows(Forwards, Prefix(n, i - 1), <<n, i>>)
        /\ Prefix(n, i) = Prefix(n, i - 1) \cup {<<n, i>>}
    BY <1>x, <2>1
  <2> QED BY <1>k, <2>2 DEF i
<1>5. 0 \in 0..m /\ m \in 0..m
  BY <1>2
<1>6. ~ g[0].over /\ g[0].pos = 0 /\ Waits(Forwards, K, p, Qs[0], g[0].stack)
  BY <1>2, <1>5, <1>g
<1>7. ASSUME NEW k \in 1..m
      PROVE  /\ g[k - 1].over => g[k] = g[k - 1]
             /\ ~ g[k - 1].over /\ g[k - 1].pos = 0 /\ g[k - 1].stack # <<>> =>
                  Move(Forwards, K, xs[k], as[k], g[k - 1].stack, g[k])
  <2> DEFINE i == base + k
  <2>1. i \in (base + 1)..l
    BY <1>3
  <2> HIDE DEF i
  <2>2. /\ f[i - 1].over => f[i] = f[i - 1]
        /\ ~ f[i - 1].over /\ f[i - 1].pos = 0 /\ f[i - 1].stack # <<>> =>
             Move(Forwards, K, <<n, i>>, at[i], f[i - 1].stack, f[i])
    BY <1>s, <2>1
  <2> QED BY <1>k, <2>2 DEF i
<1>9. \/ ~ g[m].over /\ g[m].pos = 0 /\ Waits(Forwards, K, p, Qs[m], g[m].stack)
      \/ g[m].over /\ g[m].pos = 0 /\ Hopeless(Forwards, p)
      \/ g[m].over /\ \E k \in 1..m : g[m].pos = as[k] /\ Answer(Forwards, K, p, xs[k])
  <2>1. Walk(Forwards, K, p, m, g, xs, as, Qs)
    BY <1>4, <1>6, <1>7 DEF Walk
  <2>2. Walked(Forwards, K, p, m, g, xs, as, Qs)
    BY <1>o, <1>2, <2>1, ManySteps
  <2> QED BY <2>2 DEF Walked
<1>10. g[m] = f[l] /\ Qs[m] = Prefix(n, l)
  BY <1>2, <1>5, <1>g
<1>11. (\E k \in 1..m : g[m].pos = as[k] /\ Answer(Forwards, K, p, xs[k])) =>
         \E i \in 1..l : f[l].pos = at[i] /\ Answer(Forwards, K, p, <<n, i>>)
  BY <1>3, <1>10, <1>h
<1>12. \/ ~ f[l].over /\ f[l].pos = 0 /\ Waits(Forwards, K, p, Prefix(n, l), f[l].stack)
       \/ f[l].over /\ f[l].pos = 0 /\ Hopeless(Forwards, p)
       \/ f[l].over /\ \E i \in 1..l : f[l].pos = at[i] /\ Answer(Forwards, K, p, <<n, i>>)
  BY <1>9, <1>10, <1>11
<1> QED BY <1>12 DEF LineResult, l

(* The same for a scan that goes back.                                     *)
LEMMA LineDown ==
  ASSUME TextType, NEW K, Fits(Backwards, K), NEW p, NEW n \in 1..Len(text),
         NEW base \in 1..(Len(text[n]) + 1), NEW f, NEW at,
         ~ f[base].over, f[base].pos = 0,
         Waits(Backwards, K, p, Suffix(n, base), f[base].stack),
         \A i \in 1..(base - 1) :
           /\ f[i + 1].over => f[i] = f[i + 1]
           /\ ~ f[i + 1].over /\ f[i + 1].pos = 0 /\ f[i + 1].stack # <<>> =>
                Move(Backwards, K, <<n, i>>, at[i], f[i + 1].stack, f[i])
  PROVE  LineResult(Backwards, K, p, Suffix(n, 1), n, at, f[1])
<1> DEFINE l == Len(text[n])
           m == base - 1
           g == [k \in 0..m |-> f[base - k]]
           xs == [k \in 1..m |-> <<n, base - k>>]
           as == [k \in 1..m |-> at[base - k]]
           Qs == [k \in 0..m |-> Suffix(n, base - k)]
<1>1. l \in Nat /\ base \in 1..(l + 1)
  BY LineLengths
<1>o. Ordered(Backwards)
  BY TextOrdered
<1>x. \A i \in 1..l : /\ Follows(Backwards, Suffix(n, i + 1), <<n, i>>)
                      /\ Suffix(n, i) = Suffix(n, i + 1) \cup {<<n, i>>}
  BY SuffixIs DEF SuffixFacts
<1>s. \A i \in 1..(base - 1) :
        /\ f[i + 1].over => f[i] = f[i + 1]
        /\ ~ f[i + 1].over /\ f[i + 1].pos = 0 /\ f[i + 1].stack # <<>> =>
             Move(Backwards, K, <<n, i>>, at[i], f[i + 1].stack, f[i])
  OBVIOUS
<1> HIDE DEF l
<1>2. m \in Nat /\ base - 0 = base /\ base - m = 1 /\ base \in Nat /\ m = base - 1
  BY <1>1
<1> HIDE DEF m
<1>g. \A k \in 0..m : g[k] = f[base - k] /\ Qs[k] = Suffix(n, base - k)
  OBVIOUS
<1>h. \A k \in 1..m : xs[k] = <<n, base - k>> /\ as[k] = at[base - k]
  OBVIOUS
<1> HIDE DEF g, xs, as, Qs
<1>3. \A k \in 1..m : /\ k \in 0..m /\ k - 1 \in 0..m /\ base - k \in 1..(base - 1)
                      /\ base - k \in 1..l /\ base - (k - 1) = (base - k) + 1
  BY <1>1, <1>2
<1>k. ASSUME NEW k \in 1..m
      PROVE  /\ g[k] = f[base - k] /\ g[k - 1] = f[(base - k) + 1]
             /\ Qs[k] = Suffix(n, base - k) /\ Qs[k - 1] = Suffix(n, (base - k) + 1)
             /\ xs[k] = <<n, base - k>> /\ as[k] = at[base - k]
  <2>1. /\ k \in 0..m /\ k - 1 \in 0..m /\ base - (k - 1) = (base - k) + 1
    BY <1>3
  <2>2. g[k - 1] = f[base - (k - 1)] /\ Qs[k - 1] = Suffix(n, base - (k - 1))
    BY <1>g, <2>1
  <2> QED BY <1>g, <1>h, <2>1, <2>2
<1>4. ASSUME NEW k \in 1..m
      PROVE  Follows(Backwards, Qs[k - 1], xs[k]) /\ Qs[k] = Qs[k - 1] \cup {xs[k]}
  <2> DEFINE i == base - k
  <2>1. i \in 1..l
    BY <1>3
  <2> HIDE DEF i
  <2>2. /\ Follows(Backwards, Suffix(n, i + 1), <<n, i>>)
        /\ Suffix(n, i) = Suffix(n, i + 1) \cup {<<n, i>>}
    BY <1>x, <2>1
  <2> QED BY <1>k, <2>2 DEF i
<1>5. 0 \in 0..m /\ m \in 0..m
  BY <1>2
<1>6. ~ g[0].over /\ g[0].pos = 0 /\ Waits(Backwards, K, p, Qs[0], g[0].stack)
  BY <1>2, <1>5, <1>g
<1>7. ASSUME NEW k \in 1..m
      PROVE  /\ g[k - 1].over => g[k] = g[k - 1]
             /\ ~ g[k - 1].over /\ g[k - 1].pos = 0 /\ g[k - 1].stack # <<>> =>
                  Move(Backwards, K, xs[k], as[k], g[k - 1].stack, g[k])
  <2> DEFINE i == base - k
  <2>1. i \in 1..(base - 1)
    BY <1>3
  <2> HIDE DEF i
  <2>2. /\ f[i + 1].over => f[i] = f[i + 1]
        /\ ~ f[i + 1].over /\ f[i + 1].pos = 0 /\ f[i + 1].stack # <<>> =>
             Move(Backwards, K, <<n, i>>, at[i], f[i + 1].stack, f[i])
    BY <1>s, <2>1
  <2> QED BY <1>k, <2>2 DEF i
<1>9. \/ ~ g[m].over /\ g[m].pos = 0 /\ Waits(Backwards, K, p, Qs[m], g[m].stack)
      \/ g[m].over /\ g[m].pos = 0 /\ Hopeless(Backwards, p)
      \/ g[m].over /\ \E k \in 1..m : g[m].pos = as[k] /\ Answer(Backwards, K, p, xs[k])
  <2>1. Walk(Backwards, K, p, m, g, xs, as, Qs)
    BY <1>4, <1>6, <1>7 DEF Walk
  <2>2. Walked(Backwards, K, p, m, g, xs, as, Qs)
    BY <1>o, <1>2, <2>1, ManySteps
  <2> QED BY <2>2 DEF Walked
<1>10. g[m] = f[1] /\ Qs[m] = Suffix(n, 1)
  BY <1>2, <1>5, <1>g
<1>11. (\E k \in 1..m : g[m].pos = as[k] /\ Answer(Backwards, K, p, xs[k])) =>
         \E i \in 1..l : f[1].pos = at[i] /\ Answer(Backwards, K, p, <<n, i>>)
  BY <1>3, <1>10, <1>h
<1>12. \/ ~ f[1].over /\ f[1].pos = 0 /\ Waits(Backwards, K, p, Suffix(n, 1), f[1].stack)
       \/ f[1].over /\ f[1].pos = 0 /\ Hopeless(Backwards, p)
       \/ f[1].over /\ \E i \in 1..l : f[1].pos = at[i] /\ Answer(Backwards, K, p, <<n, i>>)
  BY <1>9, <1>10, <1>11
<1> QED BY <1>12 DEF LineResult, l

(* FindEndOfExpressionInLine                                               *)
EndAt == [i \in Nat |-> i + 1]

(* The steps of FindEndOfExpressionInLine are such a scan.                 *)
LEMMA EndLine ==
  ASSUME TextType, NEW p, NEW n \in 1..Len(text), NEW base \in 0..Len(text[n]),
         NEW lowest \in 0..base, NEW f \in [lowest..Len(text[n]) -> Results(EndSymbols)],
         ~ f[base].over, f[base].pos = 0,
         Waits(Forwards, EndKey, p, Prefix(n, base), f[base].stack),
         \A i \in (base + 1)..Len(text[n]) : f[i] = GoOn(f[i - 1], text[n], i)
  PROVE  LineResult(Forwards, EndKey, p, Prefix(n, Len(text[n])), n, EndAt, f[Len(text[n])])
<1> DEFINE l == Len(text[n])
<1>1. l \in Nat
  BY LineLengths
<1>2. ASSUME NEW i \in (base + 1)..l
      PROVE  /\ f[i - 1].over => f[i] = f[i - 1]
             /\ ~ f[i - 1].over /\ f[i - 1].pos = 0 /\ f[i - 1].stack # <<>> =>
                  Move(Forwards, EndKey, <<n, i>>, EndAt[i], f[i - 1].stack, f[i])
  <2>0. i \in Nat /\ i \in 1..l /\ i - 1 \in lowest..l
    BY <1>1
  <2>1. i \in 1..l /\ i - 1 \in lowest..l /\ EndAt[i] = i + 1
    BY <2>0 DEF EndAt
  <2>2. f[i - 1].stack \in Seq(EndSymbols)
    BY <2>1 DEF Results
  <2>3. Move(Forwards, EndKey, <<n, i>>, i + 1, f[i - 1].stack, EndStep(f[i - 1].stack, text[n], i))
    BY <2>1, <2>2, EndMove
  <2>4. f[i] = GoOn(f[i - 1], text[n], i)
    OBVIOUS
  <2> QED BY <2>1, <2>3, <2>4 DEF GoOn
<1> QED BY <1>2, EndKeyFits, LineUp

(* FindStartOfExpressionInLine                                             *)
StartAt == [i \in Nat |-> i]

(* So are those of FindStartOfExpressionInLine; it skips no bracket.       *)
LEMMA StartLine ==
  ASSUME TextType, NEW p, NEW n \in 1..Len(text), NEW base \in 1..(Len(text[n]) + 1),
         NEW highest \in base..(Len(text[n]) + 1),
         NEW f \in [1..highest -> GoingResults(StartSymbols)],
         ~ f[base].over, f[base].pos = 0, ~ f[base].skip,
         Waits(Backwards, StartKey, p, Suffix(n, base), f[base].stack),
         \A i \in 1..(base - 1) : f[i] = GoBack(f[i + 1], text[n], i)
  PROVE  LineResult(Backwards, StartKey, p, Suffix(n, 1), n, StartAt, f[1])
<1> DEFINE l == Len(text[n])
           g == [i \in 1..base |-> Core(f[i])]
<1>1. l \in Nat /\ base \in 1..(l + 1) /\ highest \in base..(l + 1)
  BY LineLengths
<1>g. \A i \in 1..base : /\ g[i].over = f[i].over /\ g[i].pos = f[i].pos
                         /\ g[i].stack = f[i].stack /\ g[i] = Core(f[i])
  BY DEF Core
<1> HIDE DEF g
<1>t. \A i \in 1..base : f[i] \in GoingResults(StartSymbols)
  BY <1>1
<1>s. \A i \in 1..(base - 1) : f[i] = GoBack(f[i + 1], text[n], i)
  OBVIOUS
<1> HIDE DEF l
<1>r. \A i \in 1..(base - 1) : i \in 1..base /\ i + 1 \in 1..base /\ i \in 1..l /\ i \in Nat
  BY <1>1
<1>e. ASSUME NEW i \in 1..(base - 1), f[i + 1].skip
      PROVE  Core(f[i]) = Core(f[i + 1])
  <2>1. f[i] = f[i + 1] \/ f[i] = [f[i + 1] EXCEPT !.skip = FALSE]
    BY <1>e, <1>s DEF GoBack
  <2>2. f[i + 1] \in GoingResults(StartSymbols)
    BY <1>r, <1>t
  <2> QED BY <2>1, <2>2 DEF Core, GoingResults
(* what is skipped is no bracket *)
<1>2. ASSUME NEW i \in 1..(base - 1), f[i + 1].skip, ~ f[i + 1].over
      PROVE  text[n][i] \notin Openers \cup Closers
  <2>1. i + 1 # base /\ i + 1 \in 1..(base - 1) /\ i + 1 \in 1..l
    BY <1>1, <1>2, <1>r
  <2>2. f[i + 1] = GoBack(f[(i + 1) + 1], text[n], i + 1)
    BY <1>s, <2>1
  <2> DEFINE d == f[(i + 1) + 1]
  <2>3. d \in GoingResults(StartSymbols)
    BY <1>r, <1>t, <2>1
  <2>4. d.stack \in Seq(StartSymbols) /\ [d EXCEPT !.skip = FALSE].skip = FALSE
    BY <2>3 DEF GoingResults
  <2> HIDE DEF d
  <2>5. CASE d.over
    BY <1>2, <2>2, <2>5 DEF GoBack, d
  <2>6. CASE ~ d.over /\ d.skip
    BY <1>2, <2>2, <2>4, <2>6 DEF GoBack, d
  <2>7. CASE ~ d.over /\ ~ d.skip
    <3>1. f[i + 1] = StartStep(d.stack, text[n], i + 1)
      BY <2>2, <2>7 DEF GoBack, d
    <3>2. StartMoves(n, i + 1, d.stack)
      BY <2>1, <2>4, StartMove DEF l
    <3>3. text[n][(i + 1) - 1] \notin Openers \cup Closers
      BY <1>2, <3>1, <3>2 DEF StartMoves
    <3>4. (i + 1) - 1 = i
      OBVIOUS
    <3> QED BY <3>3, <3>4
  <2> QED BY <2>5, <2>6, <2>7
<1>3. ASSUME NEW i \in 1..(base - 1)
      PROVE  /\ g[i + 1].over => g[i] = g[i + 1]
             /\ ~ g[i + 1].over /\ g[i + 1].pos = 0 /\ g[i + 1].stack # <<>> =>
                  Move(Backwards, StartKey, <<n, i>>, StartAt[i], g[i + 1].stack, g[i])
  <2>1. /\ g[i + 1].over = f[i + 1].over /\ g[i + 1].pos = f[i + 1].pos
        /\ g[i + 1].stack = f[i + 1].stack /\ g[i] = Core(f[i]) /\ g[i + 1] = Core(f[i + 1])
        /\ f[i + 1] \in GoingResults(StartSymbols) /\ i \in 1..l /\ StartAt[i] = i
    BY <1>g, <1>r, <1>t DEF StartAt
  <2>2. f[i] = GoBack(f[i + 1], text[n], i)
    BY <1>s
  <2>3. CASE f[i + 1].over
    BY <2>1, <2>2, <2>3 DEF GoBack
  <2>4. CASE ~ f[i + 1].over /\ f[i + 1].skip
    <3> SUFFICES ASSUME g[i + 1].pos = 0
                 PROVE  Move(Backwards, StartKey, <<n, i>>, i, g[i + 1].stack, g[i])
      BY <2>1, <2>4
    <3>1. g[i] = Scanning(g[i + 1].stack)
      <4>1. g[i] = Core(f[i + 1])
        BY <1>e, <2>1, <2>4
      <4>2. f[i + 1].over = FALSE
        BY <2>1, <2>4 DEF GoingResults
      <4> QED BY <2>1, <4>1, <4>2 DEF Core, Scanning
    <3> DEFINE x == <<n, i>>
    <3>2. x \in Places /\ CharAt(x) = text[n][i]
      BY <2>1, PlaceIs DEF CharAt, l
    <3>3. x \notin Backwards.up \cup Backwards.down
      BY <1>2, <2>4, <3>2, BackwardsIs DEF BackwardsFacts
    <3> HIDE DEF x
    <3>4. Move(Backwards, StartKey, x, i, g[i + 1].stack, g[i])
      BY <3>1, <3>3 DEF Move
    <3> QED BY <3>4 DEF x
  <2>5. CASE ~ f[i + 1].over /\ ~ f[i + 1].skip
    <3>1. f[i] = StartStep(f[i + 1].stack, text[n], i)
      BY <2>2, <2>5 DEF GoBack
    <3>2. f[i + 1].stack \in Seq(StartSymbols)
      BY <2>1 DEF GoingResults
    <3>3. StartMoves(n, i, f[i + 1].stack)
      BY <2>1, <3>2, StartMove DEF l
    <3> QED BY <2>1, <2>5, <3>1, <3>3 DEF StartMoves
  <2> QED BY <2>3, <2>4, <2>5
<1>4. base \in 1..base /\ 1 \in 1..base
  BY <1>1
<1>5. ~ g[base].over /\ g[base].pos = 0 /\ Waits(Backwards, StartKey, p, Suffix(n, base), g[base].stack)
  BY <1>4, <1>g
<1>6. LineResult(Backwards, StartKey, p, Suffix(n, 1), n, StartAt, g[1])
  BY <1>3, <1>5, StartKeyFits, LineDown
<1>7. g[1].over = f[1].over /\ g[1].pos = f[1].pos /\ g[1].stack = f[1].stack
  BY <1>4, <1>g
<1> QED BY <1>6, <1>7 DEF LineResult

-----------------------------------------------------------------------------
(* CloseExpression, over the lines of the text.                            *)

Opens(n, i) ==
  LET before == SubSeq(text[n], 1, i - 1)
  IN  before = <<>> \/ (Last(before) # "<" /\ ~ EndsInOperator(before))

(* A < that is no shift and no operator< is taken for a bracket.           *)
LEMMA AngleStep ==
  ASSUME TextType, NEW n \in 1..Len(text), NEW i \in 1..Len(text[n]), text[n][i] = "<", Opens(n, i)
  PROVE  EndStep(<<>>, text[n], i) = Scanning(Append(<<>>, "<"))
<1> DEFINE line == text[n]
           before == SubSeq(line, 1, i - 1)
<1>1. line \in Seq(Alphabets[kind]) /\ Len(line) \in Nat
  BY LineLengths
<1>2. i > 1 => ~ (line[i - 1] = "<") /\ ~ EndsInOperator(before)
  <2> SUFFICES ASSUME i > 1 PROVE ~ (line[i - 1] = "<") /\ ~ EndsInOperator(before)
    OBVIOUS
  <2>1. i - 1 \in 0..Len(line) /\ i - 1 \in 1..(i - 1)
    BY <1>1
  <2> DEFINE X == Alphabets[kind]
  <2> HIDE DEF line, X
  <2>2. Len(before) = i - 1 /\ before[i - 1] = line[i - 1]
    BY <1>1, <2>1, SubSeqIs DEF X
  <2> HIDE DEF before
  <2>3. before # <<>> /\ Last(before) = line[i - 1]
    BY <2>1, <2>2 DEF Last
  <2>4. before = <<>> \/ (Last(before) # "<" /\ ~ EndsInOperator(before))
    BY DEF Opens, before, line
  <2> QED BY <2>3, <2>4
<1>3. "<" \notin Openers /\ "<" \notin Closers
  BY KindsOfBrackets, Zenon
<1>4. line[i] = "<"
  OBVIOUS
<1> HIDE DEF line
<1>5. EndStep(<<>>, line, i) = Scanning(Append(<<>>, "<"))
  BY <1>2, <1>3, <1>4, Zenon DEF EndStep
<1> QED BY <1>5 DEF line

(* The line of the bracket, from the bracket on.                           *)
LEMMA EndFirst ==
  ASSUME TextType, NEW n \in 1..Len(text), NEW i \in 1..Len(text[n]),
         \/ text[n][i] \in Openers
         \/ text[n][i] = "<" /\ Opens(n, i)
  PROVE  LineResult(Forwards, EndKey, <<n, i>>, Prefix(n, Len(text[n])), n, EndAt,
                    FindEndOfExpressionInLine(text[n], i, <<>>))
<1> DEFINE p == <<n, i>>
           c == text[n][i]
           l == Len(text[n])
<1>1. text[n] \in Seq(Alphabets[kind]) /\ l \in Nat /\ i \in 1..(l + 1) /\ i - 1 \in 0..i
      /\ i \in 0..l /\ <<>> \in Seq(EndSymbols)
  BY LineLengths
<1>2. PICK f \in [(i - 1)..l -> Results(EndSymbols)] :
        /\ FindEndOfExpressionInLine(text[n], i, <<>>) = f[l]
        /\ f[i - 1] = Scanning(<<>>)
        /\ \A j \in i..l : f[j] = GoOn(f[j - 1], text[n], j)
  BY <1>1, EndScan
<1>3. p \in Places /\ CharAt(p) = c
  BY PlaceIs DEF CharAt
<1>4. f[i] = EndStep(<<>>, text[n], i)
  <2>1. f[i] = GoOn(Scanning(<<>>), text[n], i)
    BY <1>1, <1>2
  <2> QED BY <2>1, ScanningIs DEF GoOn
<1>5. /\ p \in Forwards.up <=> c \in Openers
      /\ p \in Forwards.down <=> c \in Closers
  BY <1>3, ForwardsIs DEF ForwardsFacts
<1>6. Below(Forwards, p) = Prefix(n, i)
  BY PrefixIs DEF PrefixFacts
<1>o. Ordered(Forwards) /\ Fits(Forwards, EndKey) /\ p \in Forwards.P
  BY <1>3, TextOrdered, EndKeyFits, ForwardsIs DEF ForwardsFacts
<1>7. ~ f[i].over /\ f[i].pos = 0 /\ Waits(Forwards, EndKey, p, Prefix(n, i), f[i].stack)
  <2>1. CASE c \in Openers
    <3> DEFINE k == EndKey.code[p]
    <3>1. Move(Forwards, EndKey, p, i + 1, <<>>, f[i])
      BY <1>1, <1>4, EndMove
    <3>2. f[i] = Scanning(Append(<<>>, k))
      BY <1>5, <2>1, <3>1 DEF Move
    <3>3. Waits(Forwards, EndKey, p, Below(Forwards, p), <<k>>)
      BY <1>5, <1>o, <2>1, WaitsFirst
    <3> HIDE DEF k
    <3>4. Append(<<>>, k) = <<k>>
      OBVIOUS
    <3> QED BY <1>6, <3>2, <3>3, <3>4, ScanningIs
  <2>2. CASE c = "<" /\ Opens(n, i)
    <3> DEFINE k == EndKey.angle
    <3>1. f[i] = Scanning(Append(<<>>, k))
      BY <1>4, <2>2, AngleStep, EndKeyFits
    <3>2. p \notin Forwards.up \cup Forwards.down
      BY <1>5, <2>2, KindsOfBrackets, Zenon
    <3>3. Waits(Forwards, EndKey, p, Below(Forwards, p), <<k>>)
      BY <1>o, <3>2, WaitsFirst
    <3> HIDE DEF k
    <3>4. Append(<<>>, k) = <<k>>
      OBVIOUS
    <3> QED BY <1>6, <3>1, <3>3, <3>4, ScanningIs
  <2> QED BY <2>1, <2>2
<1>8. \A j \in (i + 1)..l : f[j] = GoOn(f[j - 1], text[n], j)
  <2>1. \A j \in (i + 1)..l : j \in i..l
    BY <1>1
  <2> QED BY <1>2, <2>1
<1> HIDE DEF p
<1>9. LineResult(Forwards, EndKey, p, Prefix(n, l), n, EndAt, f[l])
  BY <1>1, <1>7, <1>8, EndLine
<1> QED BY <1>2, <1>9 DEF p

(* A later line.                                                           *)
LEMMA EndNext ==
  ASSUME TextType, NEW n \in 1..Len(text), NEW p, NEW stack \in Seq(EndSymbols),
         Waits(Forwards, EndKey, p, Prefix(n, 0), stack)
  PROVE  LineResult(Forwards, EndKey, p, Prefix(n, Len(text[n])), n, EndAt,
                    FindEndOfExpressionInLine(text[n], 1, stack))
<1> DEFINE l == Len(text[n])
<1>1. text[n] \in Seq(Alphabets[kind]) /\ l \in Nat /\ 1 \in 1..(l + 1) /\ 0 \in 0..l
      /\ 1 - 1 = 0 /\ 0 + 1 = 1 /\ 0 \in 0..0
  BY LineLengths
<1>2. PICK f \in [(1 - 1)..l -> Results(EndSymbols)] :
        /\ FindEndOfExpressionInLine(text[n], 1, stack) = f[l]
        /\ f[1 - 1] = Scanning(stack)
        /\ \A j \in 1..l : f[j] = GoOn(f[j - 1], text[n], j)
  BY <1>1, EndScan
<1>3. /\ f \in [0..l -> Results(EndSymbols)] /\ f[0] = Scanning(stack)
      /\ \A j \in (0 + 1)..l : f[j] = GoOn(f[j - 1], text[n], j)
  BY <1>1, <1>2
<1>4. ~ f[0].over /\ f[0].pos = 0 /\ Waits(Forwards, EndKey, p, Prefix(n, 0), f[0].stack)
  BY <1>3, ScanningIs
<1>5. LineResult(Forwards, EndKey, p, Prefix(n, l), n, EndAt, f[l])
  BY <1>1, <1>3, <1>4, EndLine
<1> QED BY <1>2, <1>5

(* After some lines.                                                       *)
AfterLines(E, K, p, Q, f, lines, before, n, at) ==
  \/ /\ ~ f[n].over /\ f[n].pos = 0 /\ Waits(E, K, p, Q, f[n].stack)
     /\ \A k \in lines : f[k].pos = 0
  \/ f[n].over /\ f[n].pos = 0 /\ Hopeless(E, p) /\ \A k \in lines : f[k].pos = 0
  \/ /\ f[n].over
     /\ \E m \in lines : \E i \in 1..Len(text[m]) :
          /\ f[n].pos = at[i] /\ f[m].pos = at[i] /\ Answer(E, K, p, <<m, i>>)
          /\ \A k \in before[m] : f[k].pos = 0

(* All lines.                                                              *)
LEMMA EndLines ==
  ASSUME TextType, NEW p, NEW first \in 1..Len(text),
         NEW f \in [first..Len(text) -> Results(EndSymbols)],
         LineResult(Forwards, EndKey, p, Prefix(first, Len(text[first])), first, EndAt, f[first]),
         \A n \in (first + 1)..Len(text) : f[n] = NextEnd(f[n - 1], text, n)
  PROVE  AfterLines(Forwards, EndKey, p, Places, f, first..Len(text),
                    [m \in Nat |-> first..(m - 1)], Len(text), EndAt)
<1> DEFINE before == [m \in Nat |-> first..(m - 1)]
           last == Len(text)
           Good(n) == AfterLines(Forwards, EndKey, p, Prefix(n, Len(text[n])), f, first..n,
                                 before, n, EndAt)
           S == {k \in Nat : first + k <= last => Good(first + k)}
<1>1. last \in Nat /\ first \in 1..last /\ first + 0 = first
  BY LineLengths
<1>b. \A m \in Nat : before[m] = first..(m - 1)
  OBVIOUS
<1>n. \A n \in (first + 1)..last : f[n] = NextEnd(f[n - 1], text, n)
  OBVIOUS
<1>t. \A n \in first..last : f[n] \in Results(EndSymbols)
  OBVIOUS
<1> HIDE DEF last, before
<1>2. Good(first)
  <2>1. \A k \in first..first : k = first
    BY <1>1
  <2>2. first \in first..first /\ before[first] = first..(first - 1) /\ \A k \in before[first] : FALSE
    BY <1>1, <1>b
  <2>3. \/ /\ ~ f[first].over /\ f[first].pos = 0
           /\ Waits(Forwards, EndKey, p, Prefix(first, Len(text[first])), f[first].stack)
        \/ f[first].over /\ f[first].pos = 0 /\ Hopeless(Forwards, p)
        \/ f[first].over /\ \E i \in 1..Len(text[first]) :
             f[first].pos = EndAt[i] /\ Answer(Forwards, EndKey, p, <<first, i>>)
    BY DEF LineResult
  <2> QED BY <2>1, <2>2, <2>3 DEF AfterLines
<1>3. ASSUME NEW n \in first..last, n + 1 <= last, Good(n)
      PROVE  Good(n + 1)
  <2>0. /\ n + 1 \in (first + 1)..last /\ (n + 1) - 1 = n /\ n + 1 \in 1..Len(text) /\ n + 1 > 1
        /\ n \in Nat /\ n + 1 \in Nat /\ n + 1 \in first..(n + 1)
    BY <1>1, <1>3 DEF last
  <2>l. \A k \in first..(n + 1) : k \in first..n \/ k = n + 1
    BY <1>1, <2>0
  <2>m. \A k \in first..n : k \in first..(n + 1)
    BY <1>1, <2>0
  <2>1. f[n + 1] = NextEnd(f[n], text, n + 1)
    BY <1>n, <2>0
  <2>2. CASE f[n].over
    <3>1. f[n + 1] = f[n]
      BY <2>1, <2>2 DEF NextEnd
    <3> QED BY <1>3, <2>2, <2>l, <2>m, <3>1 DEF AfterLines
  <2>3. CASE ~ f[n].over
    <3>1. /\ f[n].pos = 0 /\ Waits(Forwards, EndKey, p, Prefix(n, Len(text[n])), f[n].stack)
          /\ \A k \in first..n : f[k].pos = 0
      BY <1>3, <2>3 DEF AfterLines
    <3>2. f[n].stack # <<>> /\ f[n].stack \in Seq(EndSymbols)
      BY <1>t, <3>1 DEF Waits, Results
    <3>3. f[n + 1] = FindEndOfExpressionInLine(text[n + 1], 1, f[n].stack)
      BY <2>1, <2>3, <3>2 DEF NextEnd
    <3>4. Prefix(n + 1, 0) = Prefix(n, Len(text[n]))
      <4>1. PrefixFacts(n + 1)
        BY <2>0, PrefixIs
      <4>2. Prefix(n + 1, 0) = Prefix((n + 1) - 1, Len(text[(n + 1) - 1]))
        BY <2>0, <4>1 DEF PrefixFacts
      <4> QED BY <2>0, <4>2
    <3>5. LineResult(Forwards, EndKey, p, Prefix(n + 1, Len(text[n + 1])), n + 1, EndAt, f[n + 1])
      BY <2>0, <3>1, <3>2, <3>3, <3>4, EndNext
    <3>6. \A k \in before[n + 1] : f[k].pos = 0
      BY <1>b, <2>0, <3>1
    <3>7. \/ /\ ~ f[n + 1].over /\ f[n + 1].pos = 0
             /\ Waits(Forwards, EndKey, p, Prefix(n + 1, Len(text[n + 1])), f[n + 1].stack)
          \/ f[n + 1].over /\ f[n + 1].pos = 0 /\ Hopeless(Forwards, p)
          \/ f[n + 1].over /\ \E i \in 1..Len(text[n + 1]) :
               f[n + 1].pos = EndAt[i] /\ Answer(Forwards, EndKey, p, <<n + 1, i>>)
      BY <3>5 DEF LineResult
    <3> QED BY <2>0, <2>l, <3>1, <3>6, <3>7 DEF AfterLines
  <2> QED BY <2>2, <2>3
<1> HIDE DEF Good
<1>4. 0 \in S
  BY <1>1, <1>2
<1>5. ASSUME NEW k \in S PROVE k + 1 \in S
  <2> SUFFICES ASSUME first + (k + 1) <= last PROVE Good(first + (k + 1))
    OBVIOUS
  <2>1. first + k \in first..last /\ (first + k) + 1 = first + (k + 1) /\ first + k <= last
    BY <1>1
  <2> QED BY <1>3, <2>1
<1>6. S \in SUBSET Nat
  OBVIOUS
<1>7. \A k \in Nat : k \in S
  <2> HIDE DEF S
  <2> QED BY <1>4, <1>5, <1>6, Inductive
<1>8. Good(last)
  <2>1. last - first \in Nat /\ first + (last - first) = last /\ first + (last - first) <= last
    BY <1>1
  <2> QED BY <1>7, <2>1
<1>9. Prefix(last, Len(text[last])) = Places
  <2>1. last \in 1..Len(text) /\ last = Len(text)
    BY <1>1 DEF last
  <2> QED BY <2>1, PrefixIs DEF PrefixFacts
<1> QED BY <1>8, <1>9 DEF Good, last, before

(* Where the scan of the lines ended.                                      *)
FirstIn(f, first, last, nowhere) ==
  /\ (\A k \in first..last : f[k].pos = 0) => FoundIn(f, FALSE, nowhere) = nowhere
  /\ \A m \in first..last :
       f[m].pos > 0 /\ (\A k \in first..(m - 1) : f[k].pos = 0) =>
         FoundIn(f, FALSE, nowhere) = [line |-> m, pos |-> f[m].pos]

(* FoundIn returns the first place.                                        *)
LEMMA FirstFound ==
  ASSUME NEW S, NEW first \in Nat, NEW last \in Nat, NEW f \in [first..last -> Results(S)],
         NEW nowhere
  PROVE  FirstIn(f, first, last, nowhere)
<1> DEFINE ends == {n \in DOMAIN f : f[n].pos > 0}
<1>1. \A n : n \in ends <=> n \in first..last /\ f[n].pos > 0
  OBVIOUS
<1>2. FoundIn(f, FALSE, nowhere) = IF ends = {} THEN nowhere
                                   ELSE [line |-> Min(ends), pos |-> f[Min(ends)].pos]
  BY DEF FoundIn
<1> HIDE DEF ends
<1>3. ASSUME \A k \in first..last : f[k].pos = 0 PROVE ends = {}
  BY <1>1, <1>3
<1>4. ASSUME NEW m \in first..last, f[m].pos > 0, \A k \in first..(m - 1) : f[k].pos = 0
      PROVE  ends # {} /\ Min(ends) = m
  <2>1. m \in ends /\ \A k \in ends : m <= k /\ k \in Nat
    BY <1>1, <1>4
  <2>2. \A x \in ends : (\A y \in ends : x <= y) => x = m
    <3> SUFFICES ASSUME NEW x \in ends, \A y \in ends : x <= y PROVE x = m
      OBVIOUS
    <3>1. x <= m /\ m <= x /\ x \in Nat /\ m \in Nat
      BY <2>1
    <3> QED BY <3>1
  <2>3. \E x \in ends : \A y \in ends : x <= y
    BY <2>1
  <2>4. Min(ends) \in ends /\ \A y \in ends : Min(ends) <= y
    BY <2>3 DEF Min
  <2> QED BY <2>1, <2>2, <2>4
<1> QED BY <1>2, <1>3, <1>4 DEF FirstIn

EndFinds(n, i) ==
  LET end == CloseExpression(text, n, i)
  IN  \/ end.pos = 0 /\ Hopeless(Forwards, <<n, i>>)
      \/ \E x \in Places : /\ end.line = x[1] /\ end.pos = x[2] + 1
                           /\ Answer(Forwards, EndKey, <<n, i>>, x)

(* CloseExpression returns the place where the scan of the text ended.     *)
LEMMA CloseFinds ==
  ASSUME TextType, NEW n \in 1..Len(text), NEW i \in 1..Len(text[n]),
         \/ text[n][i] \in Openers
         \/ text[n][i] = "<" /\ Opens(n, i)
  PROVE  EndFinds(n, i)
<1> DEFINE p == <<n, i>>
           last == Len(text)
           end == CloseExpression(text, n, i)
<1>1. last \in Nat /\ n \in Nat /\ text \in Seq(Seq(Alphabets[kind]))
  BY LineLengths DEF TextType
<1>2. PICK f \in [n..last -> Results(EndSymbols)] :
        /\ CloseIs(f, text, n, i)
        /\ f[n] = FindEndOfExpressionInLine(text[n], i, <<>>)
        /\ \A k \in (n + 1)..last : f[k] = NextEnd(f[k - 1], text, k)
  BY <1>1, CloseScan
<1>3. LineResult(Forwards, EndKey, p, Prefix(n, Len(text[n])), n, EndAt, f[n])
  BY <1>2, EndFirst
<1> DEFINE lines == n..last
           before == [m \in Nat |-> n..(m - 1)]
<1> HIDE DEF p
<1>4. AfterLines(Forwards, EndKey, p, Places, f, lines, before, last, EndAt)
  BY <1>2, <1>3, EndLines
<1>5. p \in Places /\ (p \in Forwards.up <=> text[n][i] \in Openers)
  BY PlaceIs, ForwardsIs DEF CharAt, ForwardsFacts, p
<1>b. \A m \in Nat : before[m] = n..(m - 1)
  OBVIOUS
<1> HIDE DEF end, before
<1>6. CASE /\ end.pos = 0
           /\ \/ text[n][i] \notin Openers \cup {"<"}
              \/ /\ text[n][i] = "<" /\ i < Len(text[n])
                 /\ text[n][i + 1] \in {"<", "="}
  <2>1. text[n][i] \notin Openers
    BY <1>6, KindsOfBrackets, Zenon
  <2>2. Hopeless(Forwards, p)
    BY <1>5, <2>1 DEF Hopeless
  <2> QED BY <1>6, <2>2 DEF EndFinds, end, p
<1>7. ASSUME NEW nowhere, nowhere.pos = 0, end = FoundIn(f, FALSE, nowhere)
      PROVE  EndFinds(n, i)
  <2>1. /\ (\A k \in lines : f[k].pos = 0) => end = nowhere
        /\ \A m \in lines : f[m].pos > 0 /\ (\A k \in n..(m - 1) : f[k].pos = 0) =>
                              end = [line |-> m, pos |-> f[m].pos]
    <3> HIDE DEF last
    <3>1. FirstIn(f, n, last, nowhere)
      BY <1>1, FirstFound
    <3> QED BY <1>7, <3>1 DEF FirstIn
  <2>2. CASE /\ Waits(Forwards, EndKey, p, Places, f[last].stack)
             /\ \A k \in lines : f[k].pos = 0
    <3>1. Ordered(Forwards) /\ Forwards.P = Places
      BY TextOrdered, ForwardsIs DEF ForwardsFacts
    <3>2. Hopeless(Forwards, p)
      BY <2>2, <3>1, WaitsInVain DEF Hopeless
    <3> QED BY <1>7, <2>1, <2>2, <3>2 DEF EndFinds, end, p
  <2>3. CASE Hopeless(Forwards, p) /\ \A k \in lines : f[k].pos = 0
    BY <1>7, <2>1, <2>3 DEF EndFinds, end, p
  <2>4. ASSUME NEW m \in lines, NEW j \in 1..Len(text[m]), f[m].pos = EndAt[j],
               Answer(Forwards, EndKey, p, <<m, j>>), \A k \in before[m] : f[k].pos = 0
        PROVE  EndFinds(n, i)
    <3>1. m \in 1..Len(text) /\ m \in Nat
      BY <1>1
    <3>2. j \in Nat /\ EndAt[j] = j + 1
      BY <3>1, LineLengths DEF EndAt
    <3>3. end = [line |-> m, pos |-> j + 1]
      <4>1. f[m].pos = j + 1 /\ f[m].pos > 0
        BY <2>4, <3>2
      <4>2. \A k \in n..(m - 1) : f[k].pos = 0
        BY <1>b, <2>4, <3>1
      <4> QED BY <2>1, <4>1, <4>2
    <3> DEFINE x == <<m, j>>
    <3>4. x \in Places /\ end.line = x[1] /\ end.pos = x[2] + 1
      BY <3>1, <3>3, PlaceIs
    <3> HIDE DEF x
    <3>5. Answer(Forwards, EndKey, p, x)
      BY <2>4 DEF x
    <3> QED BY <3>4, <3>5 DEF EndFinds, end, p
  <2> HIDE DEF lines
  <2> QED BY <1>4, <2>2, <2>3, <2>4 DEF AfterLines
<1>8. CloseIs(f, text, n, i)
  BY <1>2
<1> QED BY <1>6, <1>7, <1>8 DEF CloseIs, end

(* For every ( [ { CloseExpression finds the bracket that closes it.       *)
LEMMA BracketsAreMatched == TextType => BracketsMatch
<1> SUFFICES ASSUME TextType, NEW p \in Places, CharAt(p) \in Openers
             PROVE  LET end == CloseExpression(text, p[1], p[2])
                        partners == {q \in Places : Closes(q, p)}
                    IN  IF partners = {} THEN end.pos = 0
                        ELSE <<end.line, end.pos - 1>> \in partners
  BY DEF BracketsMatch
<1> DEFINE end == CloseExpression(text, p[1], p[2])
           partners == {q \in Places : Closes(q, p)}
<1>1. /\ p[1] \in 1..Len(text) /\ p[2] \in 1..Len(text[p[1]]) /\ p = <<p[1], p[2]>>
      /\ \A x \in Places : x = <<x[1], x[2]>> /\ x[2] \in Nat
  BY PlaceIs
<1>2. EndFinds(p[1], p[2])
  BY <1>1, CloseFinds DEF CharAt
<1>3. p \in Forwards.up /\ Forwards.P = Places
  BY ForwardsIs DEF ForwardsFacts
<1>4. \A q \in Places : q \in partners <=> Shut(Forwards, q, p)
  BY TextCloses
<1> HIDE DEF partners, end
<1>5. \/ end.pos = 0 /\ Hopeless(Forwards, p)
      \/ \E x \in Places : /\ end.line = x[1] /\ end.pos = x[2] + 1
                           /\ Answer(Forwards, EndKey, p, x)
  BY <1>1, <1>2 DEF EndFinds, end
<1>6. CASE end.pos = 0 /\ Hopeless(Forwards, p)
  <2>1. partners = {}
    <3>1. partners \in SUBSET Places
      BY DEF partners
    <3> QED BY <1>3, <1>4, <1>6, <3>1 DEF Hopeless
  <2> QED BY <1>6, <2>1 DEF partners, end
<1>7. ASSUME NEW x \in Places, end.line = x[1], end.pos = x[2] + 1,
             Answer(Forwards, EndKey, p, x)
      PROVE  partners # {} /\ <<end.line, end.pos - 1>> \in partners
  <2>1. Shut(Forwards, x, p)
    BY <1>3, <1>7 DEF Answer
  <2>2. (x[2] + 1) - 1 = x[2]
    BY <1>1
  <2> QED BY <1>1, <1>4, <1>7, <2>1, <2>2
<1> QED BY <1>5, <1>6, <1>7 DEF partners, end

(* What a < that opens is closed by, and what is between.                  *)
LEMMA AnglesDoEnclose == TextType => AnglesEnclose
<1> SUFFICES ASSUME TextType, NEW p \in Places, CharAt(p) = "<", Opens(p[1], p[2]),
                    CloseExpression(text, p[1], p[2]).pos > 0
             PROVE  LET end == CloseExpression(text, p[1], p[2])
                        q == <<end.line, end.pos - 1>>
                    IN  CharAt(q) = ">" /\ Whole(Between(p, q))
  BY DEF AnglesEnclose, Opens
<1> DEFINE end == CloseExpression(text, p[1], p[2])
           q == <<end.line, end.pos - 1>>
<1>1. /\ p[1] \in 1..Len(text) /\ p[2] \in 1..Len(text[p[1]]) /\ p = <<p[1], p[2]>>
      /\ \A x \in Places : x = <<x[1], x[2]>> /\ x[2] \in Nat
  BY PlaceIs
<1>2. EndFinds(p[1], p[2])
  BY <1>1, CloseFinds DEF CharAt
<1>3. p \notin Forwards.up
  <2>1. "<" \notin Openers
    BY KindsOfBrackets, Zenon
  <2>2. p \in Forwards.up => CharAt(p) \in Openers
    BY ForwardsIs DEF ForwardsFacts
  <2> QED BY <2>1, <2>2
<1>4. end.pos > 0
  OBVIOUS
<1> HIDE DEF end
<1>5. PICK x \in Places : /\ end.line = x[1] /\ end.pos = x[2] + 1
                          /\ Answer(Forwards, EndKey, p, x)
  BY <1>1, <1>2, <1>4 DEF EndFinds, end
<1>6. q = x
  <2>1. (x[2] + 1) - 1 = x[2]
    BY <1>1
  <2> QED BY <1>1, <1>5, <2>1
<1>7. /\ x \in EndKey.ends
      /\ \A r \in Segment(Forwards, p, x) \cap (Forwards.up \cup Forwards.down) :
           \E s \in Segment(Forwards, p, x) : Shut(Forwards, s, r) \/ Shut(Forwards, r, s)
  BY <1>3, <1>5 DEF Answer
<1>8. CharAt(x) = ">"
  BY <1>7, EndKeyFits
<1>9. Whole(Between(p, x))
  <2>1. Between(p, x) = Segment(Forwards, p, x)
    BY TextPairs
  <2>2. \A r \in Between(p, x) : r \in Places
    BY DEF Between
  <2>3. \A r \in Places : CharAt(r) \in Openers \cup Closers => r \in Forwards.up \cup Forwards.down
    BY ForwardsIs DEF ForwardsFacts
  <2>4. ASSUME NEW r \in Between(p, x), CharAt(r) \in Openers \cup Closers
        PROVE  \E s \in Between(p, x) : Closes(s, r) \/ Closes(r, s)
    <3>1. PICK s \in Between(p, x) : Shut(Forwards, s, r) \/ Shut(Forwards, r, s)
      BY <1>7, <2>1, <2>2, <2>3, <2>4
    <3>2. r \in Places /\ s \in Places
      BY <2>2
    <3> QED BY <3>1, <3>2, TextCloses
  <2> QED BY <2>4 DEF Whole
<1> HIDE DEF q
<1>10. CharAt(q) = ">" /\ Whole(Between(p, q))
  BY <1>6, <1>8, <1>9
<1> QED BY <1>10 DEF q, end

-----------------------------------------------------------------------------
(* ReverseCloseExpression, over the lines of the text.                     *)

LEMMA StartFirst ==
  ASSUME TextType, NEW n \in 1..Len(text), NEW i \in 1..Len(text[n]), text[n][i] \in Closers
  PROVE  LineResult(Backwards, StartKey, <<n, i>>, Suffix(n, 1), n, StartAt,
                    FindStartOfExpressionInLine(text[n], i, <<>>))
<1> DEFINE p == <<n, i>>
           c == text[n][i]
           l == Len(text[n])
<1>1. text[n] \in Seq(Alphabets[kind]) /\ l \in Nat /\ i \in 0..l /\ i \in 1..(l + 1)
      /\ i + 1 \in i..(l + 1) /\ i \in 1..i /\ <<>> \in Seq(StartSymbols)
  BY LineLengths
<1>2. PICK f \in [1..(i + 1) -> GoingResults(StartSymbols)] :
        /\ FindStartOfExpressionInLine(text[n], i, <<>>) = f[1]
        /\ f[i + 1] = Going(Scanning(<<>>), FALSE)
        /\ \A j \in 1..i : f[j] = GoBack(f[j + 1], text[n], j)
  BY <1>1, StartScan
<1>3. p \in Places /\ CharAt(p) = c
  BY PlaceIs DEF CharAt
<1>g. \A skip : /\ Going(Scanning(<<>>), skip).over = FALSE
                /\ Going(Scanning(<<>>), skip).skip = skip
                /\ Going(Scanning(<<>>), skip).stack = <<>>
  BY DEF Going, Scanning
<1>4. f[i] = StartStep(<<>>, text[n], i)
  <2>1. f[i] = GoBack(Going(Scanning(<<>>), FALSE), text[n], i)
    BY <1>1, <1>2
  <2> QED BY <2>1, <1>g DEF GoBack
<1>5. p \in Backwards.up
  BY <1>3, BackwardsIs DEF BackwardsFacts
<1>6. Below(Backwards, p) = Suffix(n, i)
  BY SuffixIs DEF SuffixFacts
<1>o. Ordered(Backwards) /\ Fits(Backwards, StartKey) /\ p \in Backwards.P
  BY <1>3, TextOrdered, StartKeyFits, BackwardsIs DEF BackwardsFacts
<1>7. ~ f[i].over /\ f[i].pos = 0 /\ ~ f[i].skip /\ Waits(Backwards, StartKey, p, Suffix(n, i), f[i].stack)
  <2> DEFINE k == StartKey.code[p]
  <2>1. /\ Move(Backwards, StartKey, p, i, <<>>, Core(f[i]))
        /\ f[i].skip => f[i] = Going(Scanning(<<>>), TRUE)
    BY <1>1, <1>4, StartMove DEF StartMoves
  <2>2. Core(f[i]) = Scanning(Append(<<>>, k))
    BY <1>5, <2>1 DEF Move
  <2>3. Waits(Backwards, StartKey, p, Below(Backwards, p), <<k>>)
    BY <1>5, <1>o, WaitsFirst
  <2> HIDE DEF k
  <2>4. Append(<<>>, k) = <<k>> /\ <<k>> # <<>>
    OBVIOUS
  <2>5. Core(f[i]).over = f[i].over /\ Core(f[i]).pos = f[i].pos /\ Core(f[i]).stack = f[i].stack
    BY DEF Core
  <2>6. ~ f[i].over /\ f[i].pos = 0 /\ f[i].stack = <<k>>
    BY <2>2, <2>4, <2>5, ScanningIs
  <2>7. ~ f[i].skip
    BY <1>g, <2>1, <2>4, <2>6
  <2> QED BY <1>6, <2>3, <2>6, <2>7
<1>8. \A j \in 1..(i - 1) : f[j] = GoBack(f[j + 1], text[n], j)
  <2>1. \A j \in 1..(i - 1) : j \in 1..i
    BY <1>1
  <2> QED BY <1>2, <2>1
<1> HIDE DEF p
<1>9. LineResult(Backwards, StartKey, p, Suffix(n, 1), n, StartAt, f[1])
  BY <1>1, <1>7, <1>8, StartLine
<1> QED BY <1>2, <1>9 DEF p

(* An earlier line.                                                        *)
LEMMA StartNext ==
  ASSUME TextType, NEW n \in 1..Len(text), NEW p, NEW stack \in Seq(StartSymbols),
         Waits(Backwards, StartKey, p, Suffix(n, Len(text[n]) + 1), stack)
  PROVE  LineResult(Backwards, StartKey, p, Suffix(n, 1), n, StartAt,
                    FindStartOfExpressionInLine(text[n], Len(text[n]), stack))
<1> DEFINE l == Len(text[n])
<1>1. text[n] \in Seq(Alphabets[kind]) /\ l \in Nat /\ l \in 0..l /\ l + 1 \in 1..(l + 1)
      /\ l + 1 \in (l + 1)..(l + 1) /\ (l + 1) - 1 = l
  BY LineLengths
<1>2. PICK f \in [1..(l + 1) -> GoingResults(StartSymbols)] :
        /\ FindStartOfExpressionInLine(text[n], l, stack) = f[1]
        /\ f[l + 1] = Going(Scanning(stack), FALSE)
        /\ \A j \in 1..l : f[j] = GoBack(f[j + 1], text[n], j)
  BY <1>1, StartScan
<1>3. \A j \in 1..((l + 1) - 1) : f[j] = GoBack(f[j + 1], text[n], j)
  BY <1>1, <1>2
<1>4. ~ f[l + 1].over /\ f[l + 1].pos = 0 /\ ~ f[l + 1].skip /\ f[l + 1].stack = stack
  BY <1>2 DEF Going, Scanning
<1>5. LineResult(Backwards, StartKey, p, Suffix(n, 1), n, StartAt, f[1])
  BY <1>1, <1>3, <1>4, StartLine
<1> QED BY <1>2, <1>5

(* All lines.                                                              *)
LEMMA StartLines ==
  ASSUME TextType, NEW p, NEW last \in 1..Len(text),
         NEW f \in [1..last -> GoingResults(StartSymbols)],
         LineResult(Backwards, StartKey, p, Suffix(last, 1), last, StartAt, f[last]),
         \A n \in 1..(last - 1) : f[n] = NextStart(f[n + 1], text, n)
  PROVE  AfterLines(Backwards, StartKey, p, Places, f, 1..last,
                    [m \in Nat |-> (m + 1)..last], 1, StartAt)
<1> DEFINE before == [m \in Nat |-> (m + 1)..last]
           Good(n) == AfterLines(Backwards, StartKey, p, Suffix(n, 1), f, n..last,
                                 before, n, StartAt)
           S == {k \in Nat : 1 <= last - k => Good(last - k)}
<1>1. last \in Nat /\ last - 0 = last /\ last >= 1 /\ last <= Len(text) /\ Len(text) \in Nat
      /\ 1 \in 1..Len(text)
  BY LineLengths
<1>b. \A m \in Nat : before[m] = (m + 1)..last
  OBVIOUS
<1>n. \A n \in 1..(last - 1) : f[n] = NextStart(f[n + 1], text, n)
  OBVIOUS
<1>t. \A n \in 1..last : f[n] \in GoingResults(StartSymbols)
  OBVIOUS
<1> HIDE DEF before
<1>2. Good(last)
  <2>1. \A k \in last..last : k = last
    BY <1>1
  <2>a. before[last] = (last + 1)..last
    BY <1>1, <1>b
  <2>c. last \in last..last /\ \A k \in (last + 1)..last : FALSE
    BY <1>1
  <2>2. last \in last..last /\ \A k \in before[last] : FALSE
    BY <2>a, <2>c
  <2>3. \/ /\ ~ f[last].over /\ f[last].pos = 0
           /\ Waits(Backwards, StartKey, p, Suffix(last, 1), f[last].stack)
        \/ f[last].over /\ f[last].pos = 0 /\ Hopeless(Backwards, p)
        \/ f[last].over /\ \E i \in 1..Len(text[last]) :
             f[last].pos = StartAt[i] /\ Answer(Backwards, StartKey, p, <<last, i>>)
    BY DEF LineResult
  <2> QED BY <2>1, <2>2, <2>3 DEF AfterLines
<1>3. ASSUME NEW n \in 1..(last - 1), Good(n + 1)
      PROVE  Good(n)
  <2>0. /\ n \in 1..Len(text) /\ n < Len(text) /\ n \in Nat /\ n + 1 \in Nat
        /\ n \in n..last /\ n + 1 \in 1..last
    BY <1>1
  <2>l. \A k \in n..last : k \in (n + 1)..last \/ k = n
    BY <1>1, <2>0
  <2>m. \A k \in (n + 1)..last : k \in n..last
    BY <1>1, <2>0
  <2>1. f[n] = NextStart(f[n + 1], text, n)
    BY <1>n
  <2>2. CASE f[n + 1].over
    <3>1. f[n] = f[n + 1]
      BY <2>1, <2>2 DEF NextStart
    <3> QED BY <1>3, <2>2, <2>l, <2>m, <3>1 DEF AfterLines
  <2>3. CASE ~ f[n + 1].over
    <3>1. /\ f[n + 1].pos = 0 /\ Waits(Backwards, StartKey, p, Suffix(n + 1, 1), f[n + 1].stack)
          /\ \A k \in (n + 1)..last : f[k].pos = 0
      BY <1>3, <2>3 DEF AfterLines
    <3>2. f[n + 1].stack # <<>> /\ f[n + 1].stack \in Seq(StartSymbols)
      <4>1. f[n + 1] \in GoingResults(StartSymbols)
        BY <1>t, <2>0
      <4> QED BY <3>1, <4>1 DEF Waits, GoingResults
    <3>3. f[n] = FindStartOfExpressionInLine(text[n], Len(text[n]), f[n + 1].stack)
      BY <2>1, <2>3, <3>2 DEF NextStart
    <3>4. Suffix(n, Len(text[n]) + 1) = Suffix(n + 1, 1)
      BY <2>0, SuffixIs DEF SuffixFacts
    <3>5. LineResult(Backwards, StartKey, p, Suffix(n, 1), n, StartAt, f[n])
      BY <2>0, <3>1, <3>2, <3>3, <3>4, StartNext
    <3>6. \A k \in before[n] : f[k].pos = 0
      BY <1>b, <2>0, <3>1
    <3>7. \/ /\ ~ f[n].over /\ f[n].pos = 0
             /\ Waits(Backwards, StartKey, p, Suffix(n, 1), f[n].stack)
          \/ f[n].over /\ f[n].pos = 0 /\ Hopeless(Backwards, p)
          \/ f[n].over /\ \E i \in 1..Len(text[n]) :
               f[n].pos = StartAt[i] /\ Answer(Backwards, StartKey, p, <<n, i>>)
      BY <3>5 DEF LineResult
    <3> QED BY <2>0, <2>l, <3>1, <3>6, <3>7 DEF AfterLines
  <2> QED BY <2>2, <2>3
<1> HIDE DEF Good
<1>4. 0 \in S
  BY <1>1, <1>2
<1>5. ASSUME NEW k \in S PROVE k + 1 \in S
  <2> SUFFICES ASSUME 1 <= last - (k + 1) PROVE Good(last - (k + 1))
    OBVIOUS
  <2>1. last - (k + 1) \in 1..(last - 1) /\ (last - (k + 1)) + 1 = last - k /\ 1 <= last - k
    BY <1>1
  <2>2. Good(last - k)
    BY <2>1
  <2> QED BY <1>3, <2>1, <2>2
<1>6. S \in SUBSET Nat
  OBVIOUS
<1>7. \A k \in Nat : k \in S
  <2> HIDE DEF S
  <2> QED BY <1>4, <1>5, <1>6, Inductive
<1>8. Good(1)
  <2>1. last - 1 \in Nat /\ last - (last - 1) = 1 /\ 1 <= last - (last - 1)
    BY <1>1
  <2>2. last - 1 \in S
    BY <1>7, <2>1
  <2> QED BY <2>1, <2>2
<1>9. Suffix(1, 1) = Places
  BY <1>1, SuffixIs DEF SuffixFacts
<1> QED BY <1>8, <1>9 DEF Good, before

LastIn(f, last, nowhere) ==
  /\ (\A k \in 1..last : f[k].pos = 0) => FoundIn(f, TRUE, nowhere) = nowhere
  /\ \A m \in 1..last :
       f[m].pos > 0 /\ (\A k \in (m + 1)..last : f[k].pos = 0) =>
         FoundIn(f, TRUE, nowhere) = [line |-> m, pos |-> f[m].pos]

(* FoundIn returns the last place.                                         *)
LEMMA LastFound ==
  ASSUME NEW S, NEW last \in Nat, NEW f \in [1..last -> GoingResults(S)], NEW nowhere
  PROVE  LastIn(f, last, nowhere)
<1> DEFINE ends == {n \in DOMAIN f : f[n].pos > 0}
<1>1. \A n : n \in ends <=> n \in 1..last /\ f[n].pos > 0
  OBVIOUS
<1>2. FoundIn(f, TRUE, nowhere) = IF ends = {} THEN nowhere
                                  ELSE [line |-> Max(ends), pos |-> f[Max(ends)].pos]
  BY DEF FoundIn
<1> HIDE DEF ends
<1>3. ASSUME \A k \in 1..last : f[k].pos = 0 PROVE ends = {}
  BY <1>1, <1>3
<1>4. ASSUME NEW m \in 1..last, f[m].pos > 0, \A k \in (m + 1)..last : f[k].pos = 0
      PROVE  ends # {} /\ Max(ends) = m
  <2>1. m \in ends /\ \A k \in ends : k <= m /\ k \in Nat
    BY <1>1, <1>4
  <2>2. ends \in SUBSET (1..last)
    BY <1>1
  <2>3. Max(ends) \in ends /\ \A y \in ends : y <= Max(ends)
    BY <2>1, <2>2, GreatestNumber
  <2>4. Max(ends) <= m /\ m <= Max(ends) /\ Max(ends) \in Nat /\ m \in Nat
    BY <2>1, <2>3
  <2>5. \A a, b \in Nat : a <= b /\ b <= a => a = b
    OBVIOUS
  <2> QED BY <2>1, <2>4, <2>5
<1> QED BY <1>2, <1>3, <1>4 DEF LastIn

StartFinds(n, i) ==
  LET start == ReverseCloseExpression(text, n, i)
  IN  \/ start.pos = 0 /\ Hopeless(Backwards, <<n, i>>)
      \/ \E x \in Places : /\ start.line = x[1] /\ start.pos = x[2]
                           /\ Answer(Backwards, StartKey, <<n, i>>, x)

(* ReverseCloseExpression returns the place where the scan ended.          *)
LEMMA ReverseFinds ==
  ASSUME TextType, NEW n \in 1..Len(text), NEW i \in 1..Len(text[n]), text[n][i] \in Closers
  PROVE  StartFinds(n, i)
<1> DEFINE p == <<n, i>>
           start == ReverseCloseExpression(text, n, i)
<1>1. Len(text) \in Nat /\ n \in Nat /\ n >= 1 /\ text \in Seq(Seq(Alphabets[kind]))
  BY LineLengths DEF TextType
<1>2. PICK f \in [1..n -> GoingResults(StartSymbols)] :
        /\ ReverseIs(f, text, n, i)
        /\ f[n] = FindStartOfExpressionInLine(text[n], i, <<>>)
        /\ \A k \in 1..(n - 1) : f[k] = NextStart(f[k + 1], text, k)
  BY <1>1, ReverseScan
<1>3. LineResult(Backwards, StartKey, p, Suffix(n, 1), n, StartAt, f[n])
  BY <1>2, StartFirst
<1> DEFINE lines == 1..n
           before == [m \in Nat |-> (m + 1)..n]
<1> HIDE DEF p
<1>4. AfterLines(Backwards, StartKey, p, Places, f, lines, before, 1, StartAt)
  BY <1>2, <1>3, StartLines
<1>b. \A m \in Nat : before[m] = (m + 1)..n
  OBVIOUS
<1> HIDE DEF start, before
<1>5. PICK nowhere : nowhere.pos = 0 /\ start = FoundIn(f, TRUE, nowhere)
  BY <1>2 DEF ReverseIs, start
<1>6. /\ (\A k \in lines : f[k].pos = 0) => start = nowhere
      /\ \A m \in lines : f[m].pos > 0 /\ (\A k \in (m + 1)..n : f[k].pos = 0) =>
                            start = [line |-> m, pos |-> f[m].pos]
  <2>1. LastIn(f, n, nowhere)
    BY <1>1, LastFound
  <2> QED BY <1>5, <2>1 DEF LastIn
<1>7. CASE /\ Waits(Backwards, StartKey, p, Places, f[1].stack)
           /\ \A k \in lines : f[k].pos = 0
  <2>1. Ordered(Backwards) /\ Backwards.P = Places
    BY TextOrdered, BackwardsIs DEF BackwardsFacts
  <2>2. Hopeless(Backwards, p)
    BY <1>7, <2>1, WaitsInVain DEF Hopeless
  <2> QED BY <1>5, <1>6, <1>7, <2>2 DEF StartFinds, start, p
<1>8. CASE Hopeless(Backwards, p) /\ \A k \in lines : f[k].pos = 0
  BY <1>5, <1>6, <1>8 DEF StartFinds, start, p
<1>9. ASSUME NEW m \in lines, NEW j \in 1..Len(text[m]), f[m].pos = StartAt[j],
             Answer(Backwards, StartKey, p, <<m, j>>), \A k \in before[m] : f[k].pos = 0
      PROVE  StartFinds(n, i)
  <2>1. m \in 1..Len(text) /\ m \in Nat
    BY <1>1
  <2>2. j \in Nat /\ j > 0 /\ StartAt[j] = j
    BY <2>1, LineLengths DEF StartAt
  <2>3. start = [line |-> m, pos |-> j]
    <3>1. f[m].pos = j /\ f[m].pos > 0
      BY <1>9, <2>2
    <3>2. \A k \in (m + 1)..n : f[k].pos = 0
      BY <1>b, <1>9, <2>1
    <3> QED BY <1>6, <3>1, <3>2
  <2> DEFINE x == <<m, j>>
  <2>4. x \in Places /\ start.line = x[1] /\ start.pos = x[2]
    BY <2>1, <2>3, PlaceIs
  <2> HIDE DEF x
  <2>5. Answer(Backwards, StartKey, p, x)
    BY <1>9 DEF x
  <2> QED BY <2>4, <2>5 DEF StartFinds, start, p
<1> HIDE DEF lines
<1> QED BY <1>4, <1>7, <1>8, <1>9 DEF AfterLines

(* ReverseCloseExpression leads back to the bracket that is closed.        *)
LEMMA ReverseDoesMatch == TextType => ReverseMatches
<1> SUFFICES ASSUME TextType, NEW q \in Places, CharAt(q) \in Closers
             PROVE  LET start == ReverseCloseExpression(text, q[1], q[2])
                        partners == {p \in Places : Closes(q, p)}
                    IN  IF partners = {} THEN start.pos = 0
                        ELSE <<start.line, start.pos>> \in partners
  BY DEF ReverseMatches
<1> DEFINE start == ReverseCloseExpression(text, q[1], q[2])
           partners == {p \in Places : Closes(q, p)}
<1>1. /\ q[1] \in 1..Len(text) /\ q[2] \in 1..Len(text[q[1]]) /\ q = <<q[1], q[2]>>
      /\ \A x \in Places : x = <<x[1], x[2]>>
  BY PlaceIs
<1>2. StartFinds(q[1], q[2])
  BY <1>1, ReverseFinds DEF CharAt
<1>3. q \in Backwards.up /\ Backwards.P = Places /\ Forwards.P = Places
  BY BackwardsIs, ForwardsIs DEF BackwardsFacts, ForwardsFacts
<1>4. \A x \in Places : x \in partners <=> Shut(Backwards, x, q)
  <2> TAKE x \in Places
  <2>1. Closes(q, x) <=> Shut(Forwards, q, x)
    BY TextCloses
  <2>2. Shut(Forwards, q, x) <=> Shut(Backwards, x, q)
    BY <1>3, TextOrdered, MirrorShut
  <2> QED BY <2>1, <2>2
<1> HIDE DEF partners, start
<1>5. \/ start.pos = 0 /\ Hopeless(Backwards, q)
      \/ \E x \in Places : /\ start.line = x[1] /\ start.pos = x[2]
                           /\ Answer(Backwards, StartKey, q, x)
  BY <1>1, <1>2 DEF StartFinds, start
<1>6. CASE start.pos = 0 /\ Hopeless(Backwards, q)
  <2>1. partners = {}
    <3>1. partners \in SUBSET Places
      BY DEF partners
    <3> QED BY <1>3, <1>4, <1>6, <3>1 DEF Hopeless
  <2> QED BY <1>6, <2>1 DEF partners, start
<1>7. ASSUME NEW x \in Places, start.line = x[1], start.pos = x[2],
             Answer(Backwards, StartKey, q, x)
      PROVE  partners # {} /\ <<start.line, start.pos>> \in partners
  <2>1. Shut(Backwards, x, q)
    BY <1>3, <1>7 DEF Answer
  <2> QED BY <1>1, <1>4, <1>7, <2>1
<1> QED BY <1>5, <1>6, <1>7 DEF partners, start

-----------------------------------------------------------------------------
(* _GetTextInside, in one line.                                            *)

InsideFinds(n, i) ==
  LET inside == GetTextInside(text[n], i)
      partner(x) == x \in Places /\ Shut(Forwards, x, <<n, i>>) /\ x[1] = n
  IN  \/ ~ inside.found /\ \A x \in Places : ~ partner(x)
      \/ /\ inside.found
         /\ \E x \in Places : partner(x) /\ inside.text = SubSeq(text[n], i + 1, x[2] - 1)

(* _GetTextInside returns the text up to the place where its scan ended.   *)
LEMMA TextInsideFinds ==
  ASSUME TextType, NEW n \in 1..Len(text), NEW i \in 1..Len(text[n]), text[n][i] \in Openers
  PROVE  InsideFinds(n, i)
<1> DEFINE p == <<n, i>>
           l == Len(text[n])
           inside == GetTextInside(text[n], i)
           at == [j \in Nat |-> j]
<1>1. text[n] \in Seq(Alphabets[kind]) /\ l \in Nat /\ i \in 0..l /\ l \in i..l /\ i \in Nat
  BY LineLengths
<1>2. PICK f \in [i..l -> Results(Closers)] :
        /\ InsideIs(f, text[n], i)
        /\ f[i] = Scanning(<<Closer(text[n][i])>>)
        /\ \A j \in (i + 1)..l : f[j] = InsideStep(f[j - 1], text[n], j)
  BY <1>1, InsideScan
<1>3. p \in Places /\ CharAt(p) = text[n][i]
  BY PlaceIs DEF CharAt
<1>4. p \in Forwards.up /\ Forwards.P = Places /\ Ordered(Forwards) /\ Fits(Forwards, InsideKey)
  BY <1>3, ForwardsIs, TextOrdered, InsideKeyFits DEF ForwardsFacts
<1>5. Below(Forwards, p) = Prefix(n, i)
  BY PrefixIs DEF PrefixFacts
<1>6. ~ f[i].over /\ f[i].pos = 0 /\ Waits(Forwards, InsideKey, p, Prefix(n, i), f[i].stack)
  <2>1. InsideKey.code[p] = Closer(text[n][i])
    BY <1>3, InsideKeyFits
  <2>2. Waits(Forwards, InsideKey, p, Below(Forwards, p), <<InsideKey.code[p]>>)
    BY <1>3, <1>4, WaitsFirst
  <2> DEFINE k == InsideKey.code[p]
  <2>3. f[i] = Scanning(<<k>>) /\ Waits(Forwards, InsideKey, p, Below(Forwards, p), <<k>>)
    BY <1>2, <2>1, <2>2
  <2> HIDE DEF k
  <2> QED BY <1>5, <2>3, ScanningIs
<1>7. ASSUME NEW j \in (i + 1)..l
      PROVE  /\ f[j - 1].over => f[j] = f[j - 1]
             /\ ~ f[j - 1].over /\ f[j - 1].pos = 0 /\ f[j - 1].stack # <<>> =>
                  Move(Forwards, InsideKey, <<n, j>>, at[j], f[j - 1].stack, f[j])
  <2>1. j \in 1..l /\ j - 1 \in i..l /\ j \in Nat
    BY <1>1
  <2>2. f[j - 1] \in Results(Closers) /\ f[j] = InsideStep(f[j - 1], text[n], j) /\ at[j] = j
    BY <1>2, <2>1
  <2> HIDE DEF at
  <2>3. f[j - 1].over => f[j] = f[j - 1]
    BY <2>2, Zenon DEF InsideStep
  <2>4. ASSUME ~ f[j - 1].over, f[j - 1].pos = 0, f[j - 1].stack # <<>>
        PROVE  Move(Forwards, InsideKey, <<n, j>>, j, f[j - 1].stack, f[j])
    BY <2>1, <2>2, <2>4, InsideMove
  <2> QED BY <2>2, <2>3, <2>4
<1>a. \A j \in Nat : at[j] = j
  OBVIOUS
<1> HIDE DEF p, at
<1>8. LineResult(Forwards, InsideKey, p, Prefix(n, l), n, at, f[l])
  BY <1>1, <1>4, <1>6, <1>7, LineUp
<1>9. \/ f[l].pos = 0 /\ Waits(Forwards, InsideKey, p, Prefix(n, l), f[l].stack)
      \/ f[l].pos = 0 /\ Hopeless(Forwards, p)
      \/ \E j \in 1..l : f[l].pos = at[j] /\ Answer(Forwards, InsideKey, p, <<n, j>>)
  BY <1>8 DEF LineResult
<1>i. /\ inside.found <=> f[l].pos > 0
      /\ inside.text = SubSeq(text[n], i + 1, f[l].pos - 1)
  BY <1>2 DEF InsideIs
<1> HIDE DEF inside
<1>10. CASE f[l].pos = 0 /\ Waits(Forwards, InsideKey, p, Prefix(n, l), f[l].stack)
  <2>1. \A x \in Prefix(n, l) : ~ Shut(Forwards, x, p)
    BY <1>4, <1>10, WaitsInVain
  <2>2. ASSUME NEW x \in Places, x[1] = n PROVE x \in Prefix(n, l)
    <3>1. x[1] \in Nat /\ x[2] \in 1..Len(text[x[1]]) /\ n \in Nat
      BY PlaceIs, LineLengths
    <3>2. x[2] \in 1..l
      BY <2>2, <3>1
    <3>3. x[2] <= l
      BY <3>2
    <3>4. Before(x, <<n, l>>)
      BY <2>2, <3>3 DEF Before
    <3> QED BY <3>4 DEF Prefix
  <2>3. ~ inside.found
    BY <1>10, <1>i
  <2>4. \A x \in Places : ~ (x \in Places /\ Shut(Forwards, x, p) /\ x[1] = n)
    BY <2>1, <2>2
  <2> QED BY <2>3, <2>4 DEF InsideFinds, inside, p
<1>11. CASE f[l].pos = 0 /\ Hopeless(Forwards, p)
  <2>3. ~ inside.found
    BY <1>11, <1>i
  <2>4. \A x \in Places : ~ (x \in Places /\ Shut(Forwards, x, p) /\ x[1] = n)
    BY <1>4, <1>11 DEF Hopeless
  <2> QED BY <2>3, <2>4 DEF InsideFinds, inside, p
<1>12. ASSUME NEW j \in 1..l, f[l].pos = at[j], Answer(Forwards, InsideKey, p, <<n, j>>)
       PROVE  InsideFinds(n, i)
  <2> DEFINE x == <<n, j>>
  <2>1. j \in Nat /\ j > 0 /\ f[l].pos = j
    BY <1>1, <1>12, <1>a
  <2>2. x \in Places /\ x[1] = n /\ x[2] = j /\ Shut(Forwards, x, p)
    BY <1>4, <1>12, PlaceIs DEF Answer
  <2> HIDE DEF x
  <2>3. inside.found /\ inside.text = SubSeq(text[n], i + 1, x[2] - 1)
    BY <1>i, <2>1, <2>2
  <2> QED BY <2>2, <2>3 DEF InsideFinds, inside, p
<1> QED BY <1>9, <1>10, <1>11, <1>12

(* _GetTextInside finds the text up to the bracket that closes, if it is   *)
(* in the line.                                                            *)
LEMMA TextInsideIs == TextType => TextInsideAgrees
<1> SUFFICES ASSUME TextType, NEW p \in Places, CharAt(p) \in Openers
             PROVE  LET partners == {q \in Places : Closes(q, p) /\ q[1] = p[1]}
                        inside == GetTextInside(text[p[1]], p[2])
                    IN  /\ inside.found <=> partners # {}
                        /\ \A q \in partners : inside.text = SubSeq(text[p[1]], p[2] + 1, q[2] - 1)
  BY DEF TextInsideAgrees
<1> DEFINE partners == {q \in Places : Closes(q, p) /\ q[1] = p[1]}
           inside == GetTextInside(text[p[1]], p[2])
<1>1. p[1] \in 1..Len(text) /\ p[2] \in 1..Len(text[p[1]]) /\ p = <<p[1], p[2]>>
  BY PlaceIs
<1>2. InsideFinds(p[1], p[2])
  BY <1>1, TextInsideFinds DEF CharAt
<1>3. \A q : q \in partners <=> q \in Places /\ Shut(Forwards, q, p) /\ q[1] = p[1]
  BY TextCloses
<1>4. \A q, s \in partners : q = s
  <2> TAKE q, s \in partners
  <2>1. Paired(Forwards, p, q) /\ Paired(Forwards, p, s) /\ q \in Places /\ s \in Places
    BY <1>3 DEF Shut
  <2>2. Ordered(Forwards) /\ Forwards.P = Places
    BY TextOrdered, ForwardsIs DEF ForwardsFacts
  <2> QED BY <2>1, <2>2, PairOnce
<1> HIDE DEF partners, inside
<1>5. \/ ~ inside.found /\ \A x \in Places : ~ (Shut(Forwards, x, p) /\ x[1] = p[1])
      \/ /\ inside.found
         /\ \E x \in Places : /\ Shut(Forwards, x, p) /\ x[1] = p[1]
                              /\ inside.text = SubSeq(text[p[1]], p[2] + 1, x[2] - 1)
  BY <1>1, <1>2 DEF InsideFinds, inside
<1>6. CASE ~ inside.found /\ \A x \in Places : ~ (Shut(Forwards, x, p) /\ x[1] = p[1])
  <2>1. partners = {}
    BY <1>3, <1>6
  <2> QED BY <1>6, <2>1 DEF partners, inside
<1>7. ASSUME inside.found, NEW x \in Places, Shut(Forwards, x, p), x[1] = p[1],
             inside.text = SubSeq(text[p[1]], p[2] + 1, x[2] - 1)
      PROVE  /\ inside.found <=> partners # {}
             /\ \A q \in partners : inside.text = SubSeq(text[p[1]], p[2] + 1, q[2] - 1)
  <2>1. x \in partners
    BY <1>3, <1>7
  <2> QED BY <1>4, <1>7, <2>1
<1> QED BY <1>5, <1>6, <1>7 DEF partners, inside

-----------------------------------------------------------------------------
(* A text stays a text, whatever is typed.                                 *)
LEMMA TextTyped == TextSpec => []TextType
<1>1. TextInit => TextType
  <2> SUFFICES ASSUME TextInit PROVE TextType
    OBVIOUS
  <2> DEFINE X == Alphabets[kind]
  <2>1. << <<>> >> \in Seq(Seq(X)) /\ << <<>> >> # <<>>
    <3> HIDE DEF X
    <3>1. <<>> \in Seq(X)
      OBVIOUS
    <3> DEFINE e == <<>>
               Y == Seq(X)
    <3>2. e \in Y
      BY <3>1
    <3> HIDE DEF e, Y
    <3>3. <<e>> \in Seq(Y) /\ <<e>> # <<>>
      BY <3>2
    <3> QED BY <3>3 DEF e, Y
  <2> QED BY <2>1 DEF TextInit, TextType
<1>2. TextType /\ [TextNext]_<<kind, text>> => TextType'
  <2> SUFFICES ASSUME TextType, [TextNext]_<<kind, text>> PROVE TextType'
    OBVIOUS
  <2>0. text \in Seq(Seq(Alphabets[kind])) /\ Len(text) \in 1..Len(text) /\ kind \in DOMAIN Alphabets
    BY EmptySeq DEF TextType
  <2>1. CASE UNCHANGED <<kind, text>>
    BY <2>1 DEF TextType
  <2>2. CASE NewLine
    <3> DEFINE Y == Seq(Alphabets[kind])
    <3>1. <<>> \in Y /\ text' = Append(text, <<>>) /\ kind' = kind
      BY <2>2 DEF NewLine
    <3> DEFINE e == <<>>
    <3> HIDE DEF Y
    <3>2. e \in Y /\ text \in Seq(Y)
      BY <2>0, <3>1 DEF Y
    <3> HIDE DEF e
    <3>3. Append(text, e) \in Seq(Y) /\ Append(text, e) # <<>>
      BY <3>2, AppendProperties
    <3> QED BY <2>0, <3>1, <3>3 DEF TextType, e, Y
  <2>3. ASSUME NEW c \in Alphabets[kind], Type(c) PROVE TextType'
    <3> DEFINE X == Alphabets[kind]
               n == Len(text)
               line == Append(text[n], c)
    <3>1. text' = [text EXCEPT ![n] = line] /\ kind' = kind
      BY <2>3 DEF Type
    <3>2. c \in X /\ text \in Seq(Seq(X)) /\ n \in 1..n /\ n = Len(text) /\ n \in Nat
      BY <2>0
    <3>a. text[n] \in Seq(X)
      BY <3>2
    <3> HIDE DEF X
    <3>3. line \in Seq(X)
      BY <3>2, <3>a, AppendProperties
    <3> DEFINE Y == Seq(X)
    <3> HIDE DEF Y, n, line
    <3>4. text \in Seq(Y) /\ line \in Y
      BY <3>2, <3>3 DEF Y
    <3>5. [text EXCEPT ![n] = line] \in Seq(Y) /\ Len([text EXCEPT ![n] = line]) = Len(text)
      BY <3>2, <3>4
    <3>6. [text EXCEPT ![n] = line] # <<>>
      BY <3>2, <3>5, EmptySeq
    <3> QED BY <2>0, <3>1, <3>5, <3>6 DEF TextType, X, Y
  <2> QED BY <2>1, <2>2, <2>3 DEF TextNext
<1> QED BY <1>1, <1>2, PTL DEF TextSpec

(* Whatever a file holds, CloseExpression, ReverseCloseExpression and      *)
(* _GetTextInside match its brackets as a parser does.                     *)
THEOREM ExpressionsCorrect == TextSpec => []ExpressionsAgree
<1>1. TextType => ExpressionsAgree
  BY BracketsAreMatched, ReverseDoesMatch, AnglesDoEnclose, TextInsideIs DEF ExpressionsAgree
<1> QED BY <1>1, TextTyped, PTL
=============================================================================
