---------------------------- MODULE LintRunProofs ----------------------------
(***************************************************************************)
(* A run of cpplint judges every error by the rules of its own file, brings *)
(* the filters back between files, counts what it prints, and tells the    *)
(* truth in the end: for every command line, every CPPLINT.cfg and every   *)
(* file that the assumptions of LintRun and LintState admit.               *)
(***************************************************************************)
EXTENDS LintRun, FiniteSetTheorems, SequenceTheorems, WellFoundedInduction, TLAPS

-----------------------------------------------------------------------------
(* Facts about data.  Recursive functions and FlattenSeq are reasoned      *)
(* about                                                                   *)
(* by the well-foundedness of < on the naturals.                           *)

(* A non-empty set of naturals has a least member. *)
LEMMA Least ==
  ASSUME NEW S \in SUBSET Nat, S # {}
  PROVE  \E m \in S : \A n \in S : m <= n
<1>1. IsWellFoundedOn(OpToRel(<, Nat), Nat)
  BY NatLessThanWellFounded
<1>2. \E x \in S : \A y \in S : ~ (<<y, x>> \in OpToRel(<, Nat))
  BY <1>1, WFMin
<1>3. \E x \in S : \A y \in S : ~ (y < x)
  BY <1>2 DEF OpToRel
<1>4. QED BY <1>3

(* A set of naturals that holds 0 and with n its successor holds them all. *)
LEMMA Induction ==
  ASSUME NEW S \in SUBSET Nat, 0 \in S, \A n \in S : n + 1 \in S
  PROVE  \A n \in Nat : n \in S
<1> DEFINE R == {n \in Nat : n \notin S}
<1> SUFFICES ASSUME R # {} PROVE FALSE
  OBVIOUS
<1>1. PICK m \in R : \A n \in R : m <= n
  BY Least
<1>2. m # 0 /\ m - 1 \in Nat /\ m - 1 \notin R
  BY <1>1
<1>3. QED BY <1>1, <1>2

(* f begins with b, and its i-th value is what the i-th step makes of the  *)
(* one before.                                                             *)
Recurs(f, N, D, b, step) ==
  f \in [0..N -> D] /\ f[0] = b /\ \A i \in 1..N : f[i] = step[i][f[i - 1]]

Steps(N, D, b, step) == N \in Nat /\ b \in D /\ step \in [1..N -> [D -> D]]

(* A function that is defined by such steps exists. *)
LEMMA Recursion ==
  ASSUME NEW N, NEW D, NEW b, NEW step, Steps(N, D, b, step)
  PROVE  \E f : Recurs(f, N, D, b, step)
<1> USE DEF Steps
<1> DEFINE Good == {n \in Nat : n <= N =>
      \E f \in [0..n -> D] : f[0] = b /\ \A i \in 1..n : f[i] = step[i][f[i - 1]]}
<1>1. 0 \in Good
  <2> DEFINE f == [i \in 0..0 |-> b]
  <2>1. f \in [0..0 -> D] /\ f[0] = b
    OBVIOUS
  <2>2. \A i \in 1..0 : f[i] = step[i][f[i - 1]]
    OBVIOUS
  <2> HIDE DEF f
  <2>3. QED BY <2>1, <2>2
<1>2. ASSUME NEW n \in Good PROVE n + 1 \in Good
  <2> SUFFICES ASSUME n + 1 <= N
      PROVE \E f \in [0..(n + 1) -> D] :
              f[0] = b /\ \A i \in 1..(n + 1) : f[i] = step[i][f[i - 1]]
    OBVIOUS
  <2>1. PICK g \in [0..n -> D] : g[0] = b /\ \A i \in 1..n : g[i] = step[i][g[i - 1]]
    OBVIOUS
  <2> DEFINE f == [i \in 0..(n + 1) |-> IF i <= n THEN g[i] ELSE step[n + 1][g[n]]]
  <2>2. n \in 0..n /\ n + 1 \in 1..N /\ step[n + 1][g[n]] \in D
    BY <2>1
  <2>3. f \in [0..(n + 1) -> D]
    BY <2>2
  <2>4. f[0] = b
    BY <2>1
  <2>5. ASSUME NEW i \in 1..(n + 1) PROVE f[i] = step[i][f[i - 1]]
    <3>1. i - 1 \in 0..n /\ f[i - 1] = g[i - 1]
      OBVIOUS
    <3>2. CASE i = n + 1
      BY <3>1, <3>2
    <3>3. CASE i \in 1..n
      BY <3>1, <3>3, <2>1
    <3>4. QED BY <3>2, <3>3
  <2>6. QED BY <2>3, <2>4, <2>5
<1>3. N \in Good
  <2> HIDE DEF Good
  <2>1. Good \in SUBSET Nat BY DEF Good
  <2>2. QED BY <1>1, <1>2, <2>1, Induction
<1>4. QED BY <1>3 DEF Recurs

(* FlattenSeq is the last value of a function that appends one sequence    *)
(* after the other.                                                        *)
LEMMA Flatten ==
  ASSUME NEW S, NEW ss \in Seq(Seq(S))
  PROVE  \E g \in [0..Len(ss) -> Seq(S)] :
            /\ g[0] = <<>>
            /\ \A i \in 1..Len(ss) : g[i] = g[i - 1] \o ss[i]
            /\ FlattenSeq(ss) = g[Len(ss)]
<1> DEFINE step == [i \in 1..Len(ss) |-> [t \in Seq(S) |-> t \o ss[i]]]
<1>1. /\ Len(ss) \in Nat /\ <<>> \in Seq(S)
      /\ step \in [1..Len(ss) -> [Seq(S) -> Seq(S)]]
  OBVIOUS
<1>2. PICK g \in [0..Len(ss) -> Seq(S)] :
        g[0] = <<>> /\ \A i \in 1..Len(ss) : g[i] = step[i][g[i - 1]]
  <2>1. Steps(Len(ss), Seq(S), <<>>, step)
    BY <1>1 DEF Steps
  <2> HIDE DEF step
  <2>2. PICK f : Recurs(f, Len(ss), Seq(S), <<>>, step)
    BY <2>1, Recursion
  <2>3. QED BY <2>2 DEF Recurs
<1>3. ASSUME NEW i \in 1..Len(ss)
      PROVE  i - 1 \in 0..Len(ss) /\ g[i - 1] \in Seq(S) /\ g[i] = g[i - 1] \o ss[i]
  <2>1. i - 1 \in 0..Len(ss)
    BY <1>1
  <2>2. g[i] = step[i][g[i - 1]]
    BY <1>2
  <2>3. QED BY <1>2, <2>1, <2>2
<1>4. FlattenSeq(ss) = g[Len(ss)]
  <2>1. CASE Len(ss) = 0
    <3>1. ss = <<>> BY <2>1
    <3>2. QED BY <3>1, <1>2 DEF FlattenSeq
  <2>2. CASE Len(ss) # 0
    <3> DEFINE Body(f) == [i \in 1..Len(ss) |-> IF i = 1 THEN ss[i] ELSE f[i - 1] \o ss[i]]
               h == CHOOSE f : f = Body(f)
               k == [i \in 1..Len(ss) |-> g[i]]
    <3>1. k = Body(k)
      <4>1. ASSUME NEW i \in 1..Len(ss)
            PROVE  g[i] = IF i = 1 THEN ss[i] ELSE k[i - 1] \o ss[i]
        <5>1. CASE i = 1
          <6>1. i - 1 = 0 /\ ss[i] \in Seq(S)
            BY <5>1
          <6>3. g[i] = <<>> \o ss[i]
            BY <1>2, <1>3, <6>1
          <6>4. QED BY <6>1, <6>3, <5>1, ConcatEmptySeq
        <5>2. CASE i # 1
          <6>1. i - 1 \in 1..Len(ss)
            BY <1>1, <5>2
          <6>2. QED BY <1>3, <6>1, <5>2
        <5>3. QED BY <5>1, <5>2
      <4>2. QED BY <4>1
    <3>2. h = Body(h)
      BY <3>1
    <3>3. FlattenSeq(ss) = h[Len(ss)]
      BY <2>2 DEF FlattenSeq
    <3> HIDE DEF h
    <3> DEFINE Good == {n \in Nat : n + 1 <= Len(ss) => h[n + 1] = g[n + 1]}
    <3>4. 0 \in Good
      <4>1. 1 \in 1..Len(ss) /\ ss[1] \in Seq(S)
        BY <2>2, <1>1
      <4>2. g[1] = <<>> \o ss[1]
        BY <4>1, <1>2, <1>3, 1 - 1 = 0
      <4>3. h[1] = ss[1]
        BY <4>1, <3>2
      <4>4. QED BY <4>1, <4>2, <4>3, ConcatEmptySeq
    <3>5. ASSUME NEW n \in Good PROVE n + 1 \in Good
      <4> SUFFICES ASSUME n + 2 <= Len(ss) PROVE h[n + 2] = g[n + 2]
        OBVIOUS
      <4>1. n + 2 \in 1..Len(ss) /\ h[n + 1] = g[n + 1]
        BY <1>1
      <4>2. n + 2 # 1 /\ (n + 2) - 1 = n + 1
        OBVIOUS
      <4>3. h[n + 2] = h[n + 1] \o ss[n + 2]
        BY <4>1, <4>2, <3>2
      <4>4. g[n + 2] = g[n + 1] \o ss[n + 2]
        BY <4>1, <4>2, <1>3
      <4>5. QED BY <4>1, <4>3, <4>4
    <3>6. \A n \in Nat : n \in Good
      <4> HIDE DEF Good
      <4>1. Good \in SUBSET Nat BY DEF Good
      <4>2. QED BY <3>4, <3>5, <4>1, Induction
    <3>7. Len(ss) - 1 \in Nat /\ (Len(ss) - 1) + 1 = Len(ss)
      BY <2>2, <1>1
    <3>8. h[Len(ss)] = g[Len(ss)]
      <4>1. Len(ss) - 1 \in Good
        BY <3>6, <3>7
      <4>2. QED BY <4>1, <3>7
    <3>9. QED BY <3>8, <3>3
  <2>3. QED BY <2>1, <2>2
<1>5. QED BY <1>2, <1>3, <1>4

(* g is that function. *)
Flattens(S, ss, g) ==
  /\ g \in [0..Len(ss) -> Seq(S)]
  /\ g[0] = <<>>
  /\ \A i \in 1..Len(ss) : g[i] = g[i - 1] \o ss[i]

(* Whatever appends them so ends with FlattenSeq. *)
LEMMA FlattenUnique ==
  ASSUME NEW S, NEW ss \in Seq(Seq(S)), NEW h, Flattens(S, ss, h)
  PROVE  FlattenSeq(ss) = h[Len(ss)]
<1>1. PICK g : Flattens(S, ss, g) /\ FlattenSeq(ss) = g[Len(ss)]
  BY Flatten DEF Flattens
<1>2. Len(ss) \in Nat
  OBVIOUS
<1> DEFINE Good == {n \in Nat : n <= Len(ss) => g[n] = h[n]}
<1>3. 0 \in Good
  BY <1>1 DEF Flattens
<1>4. ASSUME NEW n \in Good PROVE n + 1 \in Good
  <2> SUFFICES ASSUME n + 1 <= Len(ss) PROVE g[n + 1] = h[n + 1]
    OBVIOUS
  <2>0. n \in Nat /\ n <= Len(ss)
    BY <1>2
  <2>1. n + 1 \in 1..Len(ss) /\ (n + 1) - 1 = n /\ g[n] = h[n]
    BY <1>2, <2>0
  <2>2. QED BY <1>1, <2>1 DEF Flattens
<1>5. \A n \in Nat : n \in Good
  <2> HIDE DEF Good
  <2>1. Good \in SUBSET Nat BY DEF Good
  <2>2. QED BY <1>3, <1>4, <2>1, Induction
<1>6. Len(ss) \in Good
  BY <1>5, <1>2
<1>7. QED BY <1>6, <1>1

(* Sequences over S appended are a sequence over S. *)
LEMMA FlattenType ==
  ASSUME NEW S, NEW ss \in Seq(Seq(S))
  PROVE  FlattenSeq(ss) \in Seq(S)
<1>1. PICK g : Flattens(S, ss, g) /\ FlattenSeq(ss) = g[Len(ss)]
  BY Flatten DEF Flattens
<1>2. Len(ss) \in Nat /\ Len(ss) \in 0..Len(ss)
  OBVIOUS
<1>3. QED BY <1>1, <1>2 DEF Flattens

(* Appending is associative. *)
LEMMA Associative ==
  \A S : \A s, t, u \in Seq(S) : s \o (t \o u) = (s \o t) \o u
BY ConcatAssociative

(* tt is x followed by the sequences of ss. *)
Prefixed(S, x, ss, tt) ==
  /\ x \in Seq(S) /\ ss \in Seq(Seq(S)) /\ tt \in Seq(Seq(S))
  /\ Len(tt) = Len(ss) + 1 /\ tt[1] = x /\ \A i \in 1..Len(ss) : tt[i + 1] = ss[i]

(* The first sequence comes first when all are appended. *)
LEMMA FlattenCons ==
  ASSUME NEW S, NEW x, NEW ss, NEW tt, Prefixed(S, x, ss, tt)
  PROVE  FlattenSeq(tt) = x \o FlattenSeq(ss)
<1>0. x \in Seq(S)
  BY DEF Prefixed
<1>a. /\ ss \in Seq(Seq(S)) /\ tt \in Seq(Seq(S)) /\ Len(tt) = Len(ss) + 1
      /\ tt[1] = x /\ \A i \in 1..Len(ss) : tt[i + 1] = ss[i]
  BY DEF Prefixed
<1>1. PICK g : Flattens(S, ss, g) /\ FlattenSeq(ss) = g[Len(ss)]
  BY <1>a, Flatten DEF Flattens
<1>2. Len(ss) \in Nat
  BY <1>a
<1> DEFINE h == [i \in 0..Len(tt) |-> IF i = 0 THEN <<>> ELSE x \o g[i - 1]]
<1>3. h \in [0..Len(tt) -> Seq(S)]
  <2>1. ASSUME NEW i \in 0..Len(tt), i # 0 PROVE x \o g[i - 1] \in Seq(S)
    <3>1. i - 1 \in 0..Len(ss)
      BY <2>1, <1>2, <1>a
    <3>2. g[i - 1] \in Seq(S)
      BY <1>1, <3>1 DEF Flattens
    <3>3. QED BY <3>2, <1>0
  <2>2. QED BY <2>1
<1>4. ASSUME NEW i \in 1..Len(tt) PROVE h[i] = h[i - 1] \o tt[i]
  <2>1. CASE i = 1
    <3>1. h[i - 1] = <<>> /\ h[i] = x \o g[0]
      BY <2>1, <1>2, <1>a
    <3>2. g[0] = <<>> /\ x \o <<>> = x /\ <<>> \o x = x
      BY <1>1, <1>0, ConcatEmptySeq DEF Flattens
    <3>3. QED BY <3>1, <3>2, <2>1, <1>a
  <2>2. CASE i # 1
    <3> DEFINE j == i - 2
    <3>1. /\ j \in Nat /\ j \in 0..Len(ss) /\ j + 1 \in 1..Len(ss) /\ (j + 1) - 1 = j
          /\ i = j + 2 /\ i - 1 = j + 1 /\ (j + 1) + 1 = j + 2
          /\ j + 1 # 0 /\ j + 2 # 0 /\ j + 1 \in 0..Len(tt) /\ j + 2 \in 0..Len(tt)
          /\ (j + 2) - 1 = j + 1
      BY <2>2, <1>2, <1>a
    <3> HIDE DEF j
    <3>2. g[j + 1] = g[j] \o ss[j + 1] /\ g[j] \in Seq(S)
      BY <3>1, <1>1, <1>a DEF Flattens
    <3>3. tt[j + 2] = ss[j + 1] /\ ss[j + 1] \in Seq(S)
      <4>1. tt[(j + 1) + 1] = ss[j + 1]
        BY <3>1, <1>a
      <4>2. QED BY <4>1, <3>1, <1>a
    <3>4. h[j + 1] = x \o g[j] /\ h[j + 2] = x \o g[j + 1]
      BY <3>1
    <3>5. x \o (g[j] \o ss[j + 1]) = (x \o g[j]) \o ss[j + 1]
      <4>1. \A y, z \in Seq(S) : x \o (y \o z) = (x \o y) \o z
        BY <1>0, Associative
      <4>2. QED BY <4>1, <3>2, <3>3
    <3>6. h[j + 2] = h[j + 1] \o tt[j + 2]
      BY <3>2, <3>3, <3>4, <3>5
    <3>7. QED BY <3>6, <3>1
  <2>3. QED BY <2>1, <2>2
<1>5. h[0] = <<>>
  BY <1>2, <1>a
<1>6. FlattenSeq(tt) = h[Len(tt)]
  <2>1. Flattens(S, tt, h)
    BY <1>3, <1>4, <1>5 DEF Flattens
  <2> HIDE DEF h
  <2>2. QED BY <2>1, <1>a, FlattenUnique
<1>7. h[Len(tt)] = x \o g[Len(ss)]
  BY <1>2, <1>a
<1>8. QED BY <1>1, <1>6, <1>7

(* The sequence that was appended last comes first. *)
Latest(ss) == FlattenSeq(Reverse(ss))

(* One more sequence comes in front of all the others. *)
LEMMA LatestAppend ==
  ASSUME NEW S, NEW ss \in Seq(Seq(S)), NEW x \in Seq(S)
  PROVE  /\ Latest(Append(ss, x)) = x \o Latest(ss)
         /\ Latest(ss) \in Seq(S)
<1> DEFINE tt == Append(ss, x)
<1>1. Len(ss) \in Nat /\ tt \in Seq(Seq(S)) /\ Len(tt) = Len(ss) + 1
  OBVIOUS
<1>2. /\ Reverse(ss) \in Seq(Seq(S)) /\ Len(Reverse(ss)) = Len(ss)
      /\ \A i \in 1..Len(ss) : Reverse(ss)[i] = ss[(Len(ss) - i) + 1]
  BY <1>1 DEF Reverse
<1>3. /\ Reverse(tt) \in Seq(Seq(S)) /\ Len(Reverse(tt)) = Len(tt)
      /\ \A i \in 1..Len(tt) : Reverse(tt)[i] = tt[(Len(tt) - i) + 1]
  BY <1>1 DEF Reverse
<1>4. Reverse(tt)[1] = x
  <2>1. 1 \in 1..Len(tt) /\ (Len(tt) - 1) + 1 = Len(ss) + 1
    BY <1>1
  <2>2. tt[Len(ss) + 1] = x
    OBVIOUS
  <2>3. QED BY <2>1, <2>2, <1>3
<1>5. ASSUME NEW i \in 1..Len(ss) PROVE Reverse(tt)[i + 1] = Reverse(ss)[i]
  <2>1. i + 1 \in 1..Len(tt) /\ (Len(tt) - (i + 1)) + 1 = (Len(ss) - i) + 1
        /\ (Len(ss) - i) + 1 \in 1..Len(ss)
    BY <1>1
  <2>2. tt[(Len(ss) - i) + 1] = ss[(Len(ss) - i) + 1]
    BY <2>1
  <2>3. QED BY <2>1, <2>2, <1>2, <1>3
<1>6. Len(Reverse(tt)) = Len(Reverse(ss)) + 1
  BY <1>1, <1>2, <1>3
<1>7. FlattenSeq(Reverse(tt)) = x \o FlattenSeq(Reverse(ss))
  <2>1. \A i \in 1..Len(Reverse(ss)) : Reverse(tt)[i + 1] = Reverse(ss)[i]
    BY <1>2, <1>5
  <2> HIDE DEF tt
  <2>2. Prefixed(S, x, Reverse(ss), Reverse(tt))
    BY <1>2, <1>3, <1>4, <1>6, <2>1 DEF Prefixed
  <2>3. QED BY <2>2, FlattenCons
<1>8. FlattenSeq(Reverse(ss)) \in Seq(S)
  BY <1>2, FlattenType
<1>9. QED BY <1>7, <1>8 DEF Latest

(* Nothing appended is nothing. *)
LEMMA LatestEmpty == Latest(<<>>) = <<>>
<1>1. Reverse(<<>>) = <<>>
  BY DEF Reverse
<1>2. QED BY <1>1 DEF Latest, FlattenSeq

(* Max of a bounded set of naturals is its largest member. *)
LEMMA LargestIs ==
  ASSUME NEW S \in SUBSET Nat, NEW N \in Nat, \A s \in S : s <= N, S # {}
  PROVE  Max(S) \in S /\ \A s \in S : s <= Max(S)
<1> DEFINE R == {N - s : s \in S}
<1>1. R \in SUBSET Nat /\ R # {}
  OBVIOUS
<1>2. PICK r \in R : \A n \in R : r <= n
  BY <1>1, Least
<1>3. PICK m \in S : r = N - m
  OBVIOUS
<1>4. \A s \in S : m >= s
  BY <1>2, <1>3
<1>5. Max(S) \in S /\ \A s \in S : Max(S) >= s
  BY <1>4 DEF Max
<1>6. QED BY <1>5

-----------------------------------------------------------------------------
(* Filters: the loop of IsFiltered against the last filter that is about a *)
(* category.                                                               *)

(* IsFiltered, in whose loop a filter overrides the ones before it, says   *)
(* of a category what Wanted says of the list: the last filter about it    *)
(* decides.                                                                *)
LEMMA FilteredIsUnwanted ==
  ASSUME NEW category, filters \in Seq(Filters), Signed(filters)
  PROVE  IsFiltered(category) <=> ~ Wanted(filters, category)
<1> DEFINE N == Len(filters)
           Hit(i) == filters[i].name \in Beginnings[category]
           Minus(i) == filters[i].sign = "-"
           Body(f) == [i \in 0..N |-> IF i = 0 THEN FALSE
                                      ELSE IF Hit(i) THEN Minus(i) ELSE f[i - 1]]
           step == [i \in 1..N |-> [b \in BOOLEAN |-> IF Hit(i) THEN Minus(i) ELSE b]]
           g == CHOOSE f : f = Body(f)
<1>1. N \in Nat /\ DOMAIN filters = 1..N
  OBVIOUS
<1>2. \E f : f = Body(f)
  <2>1. Steps(N, BOOLEAN, FALSE, step)
    BY <1>1 DEF Steps
  <2> HIDE DEF step
  <2>2. PICK f : Recurs(f, N, BOOLEAN, FALSE, step)
    BY <2>1, Recursion
  <2>3. ASSUME NEW i \in 0..N
        PROVE f[i] = IF i = 0 THEN FALSE ELSE IF Hit(i) THEN Minus(i) ELSE f[i - 1]
    <3>1. CASE i = 0
      BY <3>1, <2>2 DEF Recurs
    <3>2. CASE i # 0
      <4>1. i \in 1..N /\ i - 1 \in 0..N
        BY <3>2, <1>1
      <4>2. f[i] = step[i][f[i - 1]] /\ f[i - 1] \in BOOLEAN
        BY <4>1, <2>2 DEF Recurs
      <4>3. step[i][f[i - 1]] = IF Hit(i) THEN Minus(i) ELSE f[i - 1]
        BY <4>1, <4>2 DEF step
      <4>4. QED BY <4>2, <4>3, <3>2
    <3>3. QED BY <3>1, <3>2
  <2>4. f \in [0..N -> BOOLEAN]
    BY <2>2 DEF Recurs
  <2>5. f = Body(f)
    BY <2>3, <2>4
  <2>6. QED BY <2>5
<1>3. g = Body(g)
  BY <1>2
<1>4. IsFiltered(category) = g[N]
  BY DEF IsFiltered
<1> HIDE DEF g
<1>5. g[0] = FALSE /\ \A i \in 1..N : g[i] = IF Hit(i) THEN Minus(i) ELSE g[i - 1]
  <2>1. 0 \in 0..N
    BY <1>1
  <2>2. ASSUME NEW i \in 1..N PROVE i \in 0..N /\ i # 0
    BY <1>1
  <2>3. QED BY <1>3, <2>1, <2>2
<1> DEFINE Decides(m, n) == Hit(m) /\ Minus(m) /\ \A i \in (m + 1)..n : ~ Hit(i)
           Good == {n \in Nat : n <= N => (g[n] <=> \E m \in 1..n : Decides(m, n))}
<1>6. 0 \in Good
  BY <1>5
<1>7. ASSUME NEW n \in Good PROVE n + 1 \in Good
  <2> SUFFICES ASSUME n + 1 <= N
               PROVE  g[n + 1] <=> \E m \in 1..(n + 1) : Decides(m, n + 1)
    OBVIOUS
  <2>1. n \in Nat /\ n <= N /\ n + 1 \in 1..N /\ (n + 1) - 1 = n
    BY <1>1
  <2>2. g[n] <=> \E m \in 1..n : Decides(m, n)
    BY <2>1
  <2>3. g[n + 1] = IF Hit(n + 1) THEN Minus(n + 1) ELSE g[n]
    BY <2>1, <1>5
  <2>4. CASE Hit(n + 1)
    <3>1. ASSUME NEW m \in 1..(n + 1), Decides(m, n + 1) PROVE Minus(n + 1)
      BY <3>1, <2>1, <2>4
    <3>2. Minus(n + 1) => Decides(n + 1, n + 1)
      BY <2>1, <2>4
    <3>3. n + 1 \in 1..(n + 1)
      BY <2>1
    <3> HIDE DEF Decides
    <3>4. QED BY <3>1, <3>2, <3>3, <2>3, <2>4
  <2>5. CASE ~ Hit(n + 1)
    <3>1. ASSUME NEW m \in 1..n, Decides(m, n) PROVE m \in 1..(n + 1) /\ Decides(m, n + 1)
      <4>1. ASSUME NEW i \in (m + 1)..(n + 1) PROVE i \in (m + 1)..n \/ i = n + 1
        BY <2>1
      <4>2. QED BY <3>1, <4>1, <2>1, <2>5
    <3>2. ASSUME NEW m \in 1..(n + 1), Decides(m, n + 1) PROVE m \in 1..n /\ Decides(m, n)
      <4>1. m # n + 1
        BY <3>2, <2>5
      <4>2. (m + 1)..n \subseteq (m + 1)..(n + 1)
        BY <2>1
      <4>3. QED BY <3>2, <4>1, <4>2, <2>1
    <3>3. QED BY <3>1, <3>2, <2>2, <2>3, <2>5
  <2>6. QED BY <2>4, <2>5
<1>8. \A n \in Nat : n \in Good
  <2> HIDE DEF Good
  <2>1. Good \in SUBSET Nat BY DEF Good
  <2>2. QED BY <1>6, <1>7, <2>1, Induction
<1>9. g[N] <=> \E m \in 1..N : Decides(m, N)
  <2>1. N \in Good
    BY <1>1, <1>8
  <2>2. QED BY <2>1, <1>1
<1>10. (\E m \in 1..N : Decides(m, N)) <=> ~ Wanted(filters, category)
  <2> DEFINE about == {i \in DOMAIN filters : Hit(i)}
             last == Max(about)
  <2>1. Wanted(filters, category) <=> about = {} \/ filters[last].sign = "+"
    BY DEF Wanted
  <2>2. CASE about = {}
    BY <2>1, <2>2, <1>1
  <2>3. CASE about # {}
    <3>1. about \in SUBSET Nat /\ \A s \in about : s <= N
      BY <1>1
    <3>2. last \in about /\ \A s \in about : s <= last
      <4> HIDE DEF about
      <4>1. QED BY <3>1, <2>3, <1>1, LargestIs
    <3> HIDE DEF last
    <3>3. last \in 1..N /\ Hit(last) /\ \A i \in (last + 1)..N : ~ Hit(i)
      BY <3>2, <1>1
    <3>4. ASSUME NEW m \in 1..N, Decides(m, N) PROVE m = last
      BY <3>4, <3>2, <3>3, <1>1
    <3>5. filters[last].sign = "+" <=> ~ Minus(last)
      BY <3>3, <1>1 DEF Signed
    <3>6. QED BY <3>3, <3>4, <3>5, <2>1, <2>3
  <2>4. QED BY <2>2, <2>3
<1>11. QED BY <1>4, <1>9, <1>10

-----------------------------------------------------------------------------
(* The filters that the CPPLINT.cfg files above a path give. *)

(* What the first n lines of a cfg give, the first of them last. *)
OwnUpTo(lines, n) == Latest([i \in 1..n |-> FilterOf(lines[i])])

(* One more line puts its filters in front. *)
LEMMA OwnStep ==
  ASSUME NEW lines, IsOptions(lines, "filter"), NEW n \in 0..Len(lines)
  PROVE  /\ OwnUpTo(lines, n) \in Seq(Filters)
         /\ OwnUpTo(lines, 0) = <<>>
         /\ n < Len(lines) =>
              OwnUpTo(lines, n + 1) = FilterOf(lines[n + 1]) \o OwnUpTo(lines, n)
<1>1. Len(lines) \in Nat /\ DOMAIN lines = 1..Len(lines)
  BY DEF IsOptions
<1>2. ASSUME NEW i \in 1..Len(lines) PROVE FilterOf(lines[i]) \in Seq(Filters)
  BY <1>1 DEF IsOptions, FilterOf
<1> DEFINE fs(k) == [i \in 1..k |-> FilterOf(lines[i])]
<1>3. ASSUME NEW k \in 0..Len(lines)
      PROVE  fs(k) \in Seq(Seq(Filters)) /\ Len(fs(k)) = k
  <2>1. k \in Nat /\ fs(k) \in [1..k -> Seq(Filters)]
    BY <1>1, <1>2
  <2>2. QED BY <2>1
<1>4. OwnUpTo(lines, n) \in Seq(Filters)
  <2>1. fs(n) \in Seq(Seq(Filters)) /\ <<>> \in Seq(Filters)
    BY <1>3
  <2> HIDE DEF fs
  <2>2. Latest(fs(n)) \in Seq(Filters)
    BY <2>1, LatestAppend
  <2>3. QED BY <2>2 DEF fs, OwnUpTo
<1>5. OwnUpTo(lines, 0) = <<>>
  <2>1. [i \in 1..0 |-> FilterOf(lines[i])] = <<>>
    OBVIOUS
  <2>2. QED BY <2>1, LatestEmpty DEF OwnUpTo
<1>6. ASSUME n < Len(lines)
      PROVE  OwnUpTo(lines, n + 1) = FilterOf(lines[n + 1]) \o OwnUpTo(lines, n)
  <2>1. n + 1 \in 1..Len(lines) /\ n + 1 \in 0..Len(lines) /\ n \in Nat
    BY <1>1, <1>6
  <2>2. FilterOf(lines[n + 1]) \in Seq(Filters)
    BY <1>2, <2>1
  <2>3. fs(n + 1) = Append(fs(n), FilterOf(lines[n + 1]))
    <3>1. fs(n) \in Seq(Seq(Filters)) /\ Len(fs(n)) = n
      BY <1>3
    <3>2. fs(n + 1) \in Seq(Seq(Filters)) /\ Len(fs(n + 1)) = n + 1
      BY <1>3, <2>1
    <3>3. \A i \in 1..(n + 1) :
            fs(n + 1)[i] = Append(fs(n), FilterOf(lines[n + 1]))[i]
      BY <3>1, <2>1
    <3> DEFINE tt == Append(fs(n), FilterOf(lines[n + 1]))
    <3>4. tt \in Seq(Seq(Filters)) /\ Len(tt) = n + 1
      BY <3>1, <2>2, AppendProperties
    <3> HIDE DEF fs
    <3>5. QED BY <3>2, <3>3, <3>4, SeqEqual
  <2>4. fs(n) \in Seq(Seq(Filters))
    BY <1>3
  <2> HIDE DEF fs
  <2>5. Latest(fs(n + 1)) = FilterOf(lines[n + 1]) \o Latest(fs(n))
    BY <2>2, <2>3, <2>4, LatestAppend
  <2>6. QED BY <2>5 DEF fs, OwnUpTo
<1>7. QED BY <1>4, <1>5, <1>6

(* All the lines give what OwnFilters says. *)
LEMMA OwnIsAll ==
  ASSUME NEW lines
  PROVE  OwnFilters(lines) = OwnUpTo(lines, Len(lines))
BY DEF OwnFilters, OwnUpTo, Latest

Dir(path, n) == SubSeq(path, 1, n)

Cfgs(path) == \A n \in 0..(Len(path) - 1) : IsCfg(tree[Dir(path, n)])

(* The lines of a cfg can be taken one after the other. *)
LEMMA CfgLinesType ==
  ASSUME NEW dir, IsCfg(tree[dir])
  PROVE  /\ IsOptions(CfgLines(dir), "filter")
         /\ tree[dir].kind # "file" => CfgLines(dir) = <<>>
         /\ tree[dir].kind = "file" => CfgLines(dir) = tree[dir].lines
<1>1. IsOptions(<<>>, "filter")
  <2>1. <<>> = [i \in 1..Len(<<>>) |-> <<>>[i]]
    OBVIOUS
  <2>2. QED BY <2>1 DEF IsOptions
<1>2. QED BY <1>1 DEF IsCfg, CfgLines

(* Inherited is what its recursive definition says: every path has such a  *)
(* function.                                                               *)
LEMMA InheritedStep ==
  ASSUME NEW path \in Seq(STRING), path # <<>>, Cfgs(path)
  PROVE  \A n \in 0..(Len(path) - 1) :
           /\ Inherited(path)[n] \in Seq(Filters)
           /\ Inherited(path)[n] =
                (IF n = 0 \/ NoParent(Dir(path, n)) THEN <<>> ELSE Inherited(path)[n - 1])
                  \o OwnFilters(CfgLines(Dir(path, n)))
<1> DEFINE N == Len(path) - 1
           Own(n) == OwnFilters(CfgLines(Dir(path, n)))
           Alone(n) == NoParent(Dir(path, n))
           Body(f) == [n \in 0..N |-> (IF n = 0 \/ Alone(n) THEN <<>> ELSE f[n - 1]) \o Own(n)]
           step == [n \in 1..N |-> [t \in Seq(Filters) |->
                      (IF Alone(n) THEN <<>> ELSE t) \o Own(n)]]
           g == CHOOSE f : f = Body(f)
<1>1. N \in Nat
  OBVIOUS
<1>2. ASSUME NEW n \in 0..N PROVE Own(n) \in Seq(Filters)
  <2>1. IsCfg(tree[Dir(path, n)])
    BY DEF Cfgs
  <2>2. IsOptions(CfgLines(Dir(path, n)), "filter")
    BY <2>1, CfgLinesType
  <2>3. Len(CfgLines(Dir(path, n))) \in 0..Len(CfgLines(Dir(path, n)))
    BY <2>2 DEF IsOptions
  <2>4. QED BY <2>2, <2>3, OwnStep, OwnIsAll
<1>3. \E f : f = Body(f)
  <2>1. Steps(N, Seq(Filters), Own(0), step)
    <3>1. Own(0) \in Seq(Filters)
      BY <1>1, <1>2
    <3>2. ASSUME NEW n \in 1..N, NEW t \in Seq(Filters)
          PROVE  (IF Alone(n) THEN <<>> ELSE t) \o Own(n) \in Seq(Filters)
      <4>1. Own(n) \in Seq(Filters)
        BY <1>1, <1>2
      <4> HIDE DEF Own
      <4>2. QED BY <4>1
    <3> HIDE DEF Own, Alone, N
    <3>3. step \in [1..N -> [Seq(Filters) -> Seq(Filters)]]
      BY <3>2
    <3>4. QED BY <3>1, <3>3, <1>1 DEF Steps
  <2> HIDE DEF step
  <2>2. PICK f : Recurs(f, N, Seq(Filters), Own(0), step)
    <3> HIDE DEF Own, N
    <3>1. QED BY <2>1, Recursion
  <2>3. f \in [0..N -> Seq(Filters)]
    BY <2>2 DEF Recurs
  <2>4. ASSUME NEW n \in 0..N
        PROVE  f[n] = (IF n = 0 \/ Alone(n) THEN <<>> ELSE f[n - 1]) \o Own(n)
    <3>1. Own(n) \in Seq(Filters)
      BY <1>2
    <3> HIDE DEF Own, Alone, N
    <3>2. CASE n = 0
      <4>1. f[0] = Own(0)
        BY <2>2 DEF Recurs
      <4>2. <<>> \o Own(n) = Own(n)
        BY <3>1, ConcatEmptySeq
      <4>3. QED BY <4>1, <4>2, <3>2
    <3>3. CASE n # 0
      <4>1. n \in 1..N /\ n - 1 \in 0..N
        BY <3>3, <1>1
      <4>2. f[n] = step[n][f[n - 1]] /\ f[n - 1] \in Seq(Filters)
        BY <4>1, <2>2 DEF Recurs
      <4>3. step[n][f[n - 1]] = (IF Alone(n) THEN <<>> ELSE f[n - 1]) \o Own(n)
        BY <4>1, <4>2 DEF step
      <4>4. QED BY <4>2, <4>3, <3>3
    <3>4. QED BY <3>2, <3>3
  <2> HIDE DEF Own, Alone, N
  <2>5. f = Body(f)
    BY <2>3, <2>4
  <2>6. QED BY <2>5
<1>4. g = Body(g)
  BY <1>3
<1>5. Inherited(path) = g
  BY DEF Inherited, Dir
<1> HIDE DEF g
<1>6. ASSUME NEW n \in 0..N
      PROVE  g[n] = (IF n = 0 \/ Alone(n) THEN <<>> ELSE g[n - 1]) \o Own(n)
  <2> HIDE DEF Own, Alone, N
  <2>1. QED BY <1>4
<1> DEFINE Good == {n \in Nat : n <= N => g[n] \in Seq(Filters)}
<1>7. 0 \in Good
  <2>1. 0 \in 0..N /\ Own(0) \in Seq(Filters)
    BY <1>1, <1>2
  <2> HIDE DEF Own, Alone, N
  <2>2. g[0] = <<>> \o Own(0)
    BY <2>1, <1>6
  <2>3. QED BY <2>1, <2>2
<1>8. ASSUME NEW n \in Good PROVE n + 1 \in Good
  <2>1. SUFFICES ASSUME n + 1 <= N PROVE g[n + 1] \in Seq(Filters)
    OBVIOUS
  <2>2. n + 1 \in 0..N /\ n + 1 # 0 /\ (n + 1) - 1 = n /\ g[n] \in Seq(Filters)
    BY <1>1, <2>1
  <2>3. Own(n + 1) \in Seq(Filters)
    BY <1>2, <2>2
  <2> HIDE DEF Own, Alone, N
  <2>4. g[n + 1] = (IF n + 1 = 0 \/ Alone(n + 1) THEN <<>> ELSE g[(n + 1) - 1]) \o Own(n + 1)
    BY <2>2, <1>6
  <2>5. QED BY <2>2, <2>3, <2>4
<1>9. \A n \in Nat : n \in Good
  <2> HIDE DEF Good
  <2>1. Good \in SUBSET Nat BY DEF Good
  <2>2. QED BY <1>7, <1>8, <2>1, Induction
<1>10. QED BY <1>1, <1>5, <1>6, <1>9

-----------------------------------------------------------------------------
(* Options and lines that are taken one after the other. *)

(* The rest of a list of which k entries were taken. *)
LEMMA SuffixStep ==
  ASSUME NEW s, NEW name, IsOptions(s, name), NEW k \in 0..Len(s)
  PROVE  LET rest == SubSeq(s, k + 1, Len(s))
         IN  /\ rest = <<>> <=> k = Len(s)
             /\ k < Len(s) => Head(rest) = s[k + 1] /\ Tail(rest) = SubSeq(s, (k + 1) + 1, Len(s))
             /\ Len(s) \in Nat /\ DOMAIN s = 1..Len(s)
<1> DEFINE S == {s[i] : i \in 1..Len(s)}
<1>1. Len(s) \in Nat /\ DOMAIN s = 1..Len(s) /\ s \in [1..Len(s) -> S]
  BY DEF IsOptions
<1>2. s \in Seq(S)
  BY <1>1, SeqDef
<1> HIDE DEF S
<1> DEFINE rest == SubSeq(s, k + 1, Len(s))
<1>3. Len(s) \in Nat
  BY <1>1
<1>4. ASSUME k = Len(s) PROVE rest = <<>>
  <2>1. k + 1 \in Int /\ Len(s) \in Int /\ Len(s) < k + 1
    BY <1>3, <1>4
  <2>2. QED BY <2>1, SubSeqEmpty
<1>5. ASSUME k < Len(s)
      PROVE  rest # <<>> /\ Head(rest) = s[k + 1] /\ Tail(rest) = SubSeq(s, (k + 1) + 1, Len(s))
  <2>1. k + 1 \in 1..Len(s) /\ Len(s) \in (k + 1)..Len(s)
    BY <1>3, <1>5
  <2>2. Head(rest) = s[k + 1] /\ Tail(rest) = SubSeq(s, (k + 1) + 1, Len(s))
    BY <1>2, <2>1, HeadTailOfSubSeq
  <2>3. rest # <<>>
    <3>1. k + 1 \in Int /\ Len(s) \in Int /\ \A i \in (k + 1)..Len(s) : s[i] \in S
      BY <1>1, <2>1
    <3>2. Len(rest) = Len(s) - (k + 1) + 1
      BY <3>1, <2>1, SubSeqProperties
    <3> HIDE DEF rest
    <3>3. Len(rest) > 0
      BY <3>2, <2>1, <1>3
    <3>4. QED BY <3>3
  <2>4. QED BY <2>2, <2>3
<1> HIDE DEF rest
<1>6. k = Len(s) \/ (k < Len(s) /\ k # Len(s))
  BY <1>3
<1>7. /\ rest = <<>> <=> k = Len(s)
      /\ k < Len(s) => Head(rest) = s[k + 1] /\ Tail(rest) = SubSeq(s, (k + 1) + 1, Len(s))
  BY <1>4, <1>5, <1>6
<1>8. QED BY <1>1, <1>7 DEF rest

(* At first nothing is taken. *)
LEMMA WholeSuffix ==
  ASSUME NEW s, NEW name, IsOptions(s, name)
  PROVE  s = SubSeq(s, 0 + 1, Len(s)) /\ 0 \in 0..Len(s)
<1> DEFINE S == {s[i] : i \in 1..Len(s)}
<1>1. Len(s) \in Nat /\ DOMAIN s = 1..Len(s) /\ s \in [1..Len(s) -> S]
  BY DEF IsOptions
<1>2. s \in Seq(S)
  BY <1>1, SeqDef
<1> HIDE DEF S
<1>3. SubSeq(s, 1, Len(s)) = s
  BY <1>2, SubSeqFull
<1>4. QED BY <1>1, <1>3

-----------------------------------------------------------------------------
(* Types. *)

(* The filters between two files. *)
Base == DefaultFilters \o FlagFilters

Calls == [file : Nat, read : SUBSET Nat, error : Findings, shown : BOOLEAN]

(* The places of a run inside ProcessFile, and those inside                *)
(* ProcessFileData and after it.                                           *)
InFile == {"config", "read", "directives", "lines", "done"}

InData == {"directives", "lines", "done"}

(* Types, and that only a file at hand has findings to report. *)
TypeInv ==
  /\ args \in CommandLines /\ tree \in Trees
  /\ pc \in {"options", "files", "exit"} \cup InFile
  /\ current \in 0..Len(args.files)
  /\ pc \in InFile => current >= 1
  /\ pending \in Seq(Findings \cup GuardLines)
  /\ lineno \in Nat /\ error_count \in Nat
  /\ errors_by_category \in [CountKeys -> Nat]
  /\ log \in Seq(Calls)
  /\ pc \notin InData => pending = <<>>

(* The file at hand is one of the command line, and the cfgs above it are  *)
(* those of the tree.                                                      *)
LEMMA FileType ==
  ASSUME TypeInv, current >= 1
  PROVE  IsFile(File) /\ Cfgs(File.path)
<1>1. /\ Len(args.files) \in Nat /\ current \in DOMAIN args.files
  <2>1. Len(args.files) \in Nat /\ args.files = [i \in 1..Len(args.files) |-> args.files[i]]
    BY CommandLinesAssumption DEF TypeInv
  <2>2. QED BY <2>1 DEF TypeInv
<1>2. IsFile(File)
  BY <1>1, CommandLinesAssumption DEF TypeInv, File
<1>3. Cfgs(File.path)
  BY <1>1, TreesAssumption DEF TypeInv, File, Cfgs, Dir
<1>4. QED BY <1>2, <1>3

(* The options can be taken one after the other, and the files be counted. *)
LEMMA ArgsType ==
  ASSUME args \in CommandLines
  PROVE  IsOptions(args.options, "--filter") /\ Len(args.files) \in Nat
BY CommandLinesAssumption

(* The filters of the command line are filters. *)
LEMMA BaseType ==
  ASSUME args \in CommandLines
  PROVE  FlagFilters \in Seq(Filters) /\ Base \in Seq(Filters)
<1>1. IsOptions(args.options, "--filter")
  BY ArgsType
<1> DEFINE given == Given("--filter")
<1>2. /\ Len(args.options) \in Nat /\ DOMAIN args.options = 1..Len(args.options)
  BY <1>1 DEF IsOptions
<1>3. given \in SUBSET Nat /\ \A i \in given : i <= Len(args.options)
  BY <1>2 DEF Given
<1>4. CASE given = {}
  BY <1>4, DefaultFiltersAssumption DEF FlagFilters, LastOf, Base
<1>5. CASE given # {}
  <2>1. Max(given) \in given
    <3> HIDE DEF given
    <3>1. QED BY <1>2, <1>3, <1>5, LargestIs
  <2>2. args.options[Max(given)].val \in Seq(Filters)
    BY <2>1, <1>1 DEF Given, IsOptions
  <2>3. FlagFilters = args.options[Max(given)].val
    BY <1>5 DEF FlagFilters, LastOf
  <2>4. QED BY <2>2, <2>3, DefaultFiltersAssumption DEF Base
<1>6. QED BY <1>4, <1>5

(* The lines that end in CR give findings. *)
LEMMA CrlfType ==
  ASSUME IsFile(File)
  PROVE  CrlfErrors \in Seq(Findings)
<1> DEFINE E(n) == [line |-> n, category |-> "whitespace/newline", confidence |-> 1]
           ss == [n \in 1..Len(File.lines) |-> IF File.lines[n].cr THEN <<E(n)>> ELSE <<>>]
<1>1. Len(File.lines) \in Nat
  BY DEF IsFile, SourceFiles
<1>2. ASSUME NEW n \in Nat PROVE <<E(n)>> \in Seq(Findings)
  BY ReportedAssumption DEF Findings
<1>3. ss \in Seq(Seq(Findings))
  <2>1. ASSUME NEW n \in 1..Len(File.lines)
        PROVE  (IF File.lines[n].cr THEN <<E(n)>> ELSE <<>>) \in Seq(Findings)
    <3>1. n \in Nat
      BY <1>1
    <3>2. <<E(n)>> \in Seq(Findings)
      BY <3>1, <1>2
    <3> HIDE DEF E
    <3>3. QED BY <3>2
  <2> HIDE DEF E
  <2>2. ss \in [1..Len(File.lines) -> Seq(Findings)]
    BY <2>1
  <2>3. QED BY <2>2, <1>1, SeqDef
<1>4. FlattenSeq(ss) \in Seq(Findings)
  <2> HIDE DEF ss
  <2>1. QED BY <1>3, FlattenType
<1>5. QED BY <1>4 DEF CrlfErrors

(* A guard line is no finding: "NOLINT" is not a category. *)
LEMMA FoundType ==
  /\ \A x \in Findings : ~ ParsesNolint(x)
  /\ \A x \in Findings \cup GuardLines : ParsesNolint(x) \/ x \in Findings
  /\ \A s \in Seq(Findings) : s \in Seq(Findings \cup GuardLines)
<1>1. /\ \A x \in Findings : ~ ParsesNolint(x)
      /\ \A x \in Findings \cup GuardLines : ParsesNolint(x) \/ x \in Findings
  BY ReportedAssumption DEF Findings, GuardLines, ParsesNolint
<1>2. Findings \subseteq Findings \cup GuardLines
  OBVIOUS
<1>3. \A s \in Seq(Findings) : s \in Seq(Findings \cup GuardLines)
  BY <1>2, SeqMonotonic
<1>4. QED BY <1>1, <1>3

(* An unknown category in a NOLINT comment is a finding. *)
LEMMA NolintType ==
  ASSUME NEW marker, NEW n \in Nat
  PROVE  NolintErrors(marker, n) \in Seq(Findings)
<1>1. [line |-> n, category |-> "readability/nolint", confidence |-> 5] \in Findings
  BY CategoriesAssumption DEF Findings
<1>2. QED BY <1>1 DEF NolintErrors

(* What one line gives to report. *)
LEMMA LineType ==
  ASSUME IsFile(File), NEW n \in 1..Len(File.lines)
  PROVE  /\ n \in Nat /\ Len(File.lines) \in Nat
         /\ File.lines[n].nolint \in Markers /\ File.lines[n].errors \in Seq(Findings)
         /\ NolintErrors(File.lines[n].nolint, n) \in Seq(Findings)
         /\ TooLong(File.lines[n], n) \in Seq(Findings)
         /\ NolintErrors(File.lines[n].nolint, n) \o TooLong(File.lines[n], n)
              \o File.lines[n].errors \in Seq(Findings)
<1>1. /\ File.lines \in Seq(Lines) /\ Len(File.lines) \in Nat /\ n \in Nat
      /\ File.lines[n] \in Lines
  BY DEF IsFile, SourceFiles
<1>2. File.lines[n].nolint \in Markers /\ File.lines[n].errors \in Seq(Findings)
  BY <1>1 DEF Lines
<1>3. [line |-> n, category |-> "whitespace/line_length", confidence |-> 2] \in Findings
  BY <1>1, ReportedAssumption DEF Findings
<1>4. /\ NolintErrors(File.lines[n].nolint, n) \in Seq(Findings)
      /\ TooLong(File.lines[n], n) \in Seq(Findings)
  BY <1>1, <1>3, NolintType DEF TooLong
<1>5. QED BY <1>1, <1>2, <1>4

(* What the checks of the whole file give to report. *)
LEMMA EndType ==
  ASSUME IsFile(File)
  PROVE  /\ File.copyright \in Seq(Findings)
         /\ File.completed \o (IF IsSourceExtension THEN File.header ELSE <<>>)
              \o File.ending \o CrlfErrors \in Seq(Findings)
         /\ File.comments \in Seq(Findings) /\ File.guard \in Seq(Findings \cup GuardLines)
         /\ File.comments \o (IF IsHeaderExtension THEN File.guard ELSE <<>>)
              \in Seq(Findings \cup GuardLines)
<1>1. /\ File.copyright \in Seq(Findings) /\ File.completed \in Seq(Findings)
      /\ File.header \in Seq(Findings) /\ File.ending \in Seq(Findings)
      /\ File.comments \in Seq(Findings) /\ File.guard \in Seq(Findings \cup GuardLines)
  BY DEF IsFile, SourceFiles
<1>2. CrlfErrors \in Seq(Findings)
  BY CrlfType
<1>3. File.comments \in Seq(Findings \cup GuardLines)
  BY <1>1, FoundType
<1>4. QED BY <1>1, <1>2, <1>3

(* The initial states are typed. *)
LEMMA TypeInit == Init => TypeInv
<1> SUFFICES ASSUME Init PROVE TypeInv
  OBVIOUS
<1>1. Len(args.files) \in Nat
  BY ArgsType DEF Init
<1>2. [k \in CountKeys |-> 0] \in [CountKeys -> Nat]
  OBVIOUS
<1>3. <<>> \in Seq(Findings \cup GuardLines) /\ <<>> \in Seq(Calls)
  OBVIOUS
<1>4. /\ args \in CommandLines /\ tree \in Trees /\ pc = "options" /\ current = 0
      /\ pending = <<>> /\ lineno = 0 /\ log = <<>>
  BY DEF Init
<1>5. error_count = 0 /\ errors_by_category = [k \in CountKeys |-> 0]
  BY DEF Init, StateInit
<1>6. QED BY <1>1, <1>2, <1>3, <1>4, <1>5 DEF TypeInv, InFile, InData

(* Counting an error keeps the counters. *)
LEMMA CountType ==
  ASSUME error_count \in Nat, errors_by_category \in [CountKeys -> Nat],
         NEW c \in Categories, IncrementErrorCount(c)
  PROVE  error_count' \in Nat /\ errors_by_category' \in [CountKeys -> Nat]
<1>1. c \in CountKeys /\ TopLevel[c] \in CountKeys
  BY DEF CountKeys
<1>2. QED BY <1>1 DEF IncrementErrorCount

(* Every step keeps the types. *)
LEMMA TypeStep == TypeInv /\ [Next]_vars => TypeInv'
<1> SUFFICES ASSUME TypeInv, [Next]_vars PROVE TypeInv'
  OBVIOUS
<1> USE DEF InFile, InData
<1>0. Len(args.files) \in Nat
  BY ArgsType DEF TypeInv
<1>1. ASSUME StopAtOption PROVE TypeInv'
  BY <1>1 DEF TypeInv, StopAtOption, Exit, argvars, filevars, histvars, statevars, countvars, Option
<1>2. ASSUME ParseOption PROVE TypeInv'
  BY <1>2 DEF TypeInv, ParseOption, NextOption, Option, filevars, histvars, statevars, countvars
<1>3. ASSUME SetGlobal PROVE TypeInv'
  BY <1>3 DEF TypeInv, SetGlobal, NextOption, Option, filevars, histvars, statevars, countvars
<1>4. ASSUME EndOfOptions PROVE TypeInv'
  <2>1. [k \in CountKeys |-> 0] \in [CountKeys -> Nat]
    OBVIOUS
  <2>2. QED BY <1>4, <2>1
          DEF TypeInv, EndOfOptions, Exit, argvars, filevars, histvars, statevars, countvars
<1>5. ASSUME StartFile PROVE TypeInv'
  BY <1>5, <1>0 DEF TypeInv, StartFile, argvars, histvars, countvars
<1>6. ASSUME OpenConfig PROVE TypeInv'
  BY <1>6 DEF TypeInv, OpenConfig, argvars, histvars, statevars, countvars
<1>7. ASSUME ConfigRule PROVE TypeInv'
  BY <1>7 DEF TypeInv, ConfigRule, ConfigLine, argvars, histvars, statevars, countvars
<1>8. ASSUME ConfigSetting PROVE TypeInv'
  BY <1>8 DEF TypeInv, ConfigSetting, ConfigLine, argvars, histvars, statevars, countvars
<1>9. ASSUME ExcludeFiles PROVE TypeInv'
  BY <1>9 DEF TypeInv, ExcludeFiles, ConfigLine, argvars, histvars, countvars
<1>10. ASSUME ApplyConfigFilters PROVE TypeInv'
  BY <1>10 DEF TypeInv, ApplyConfigFilters, Exit, argvars, filevars, histvars, countvars
<1>11. ASSUME ReadFile PROVE TypeInv'
  <2>1. File.copyright \in Seq(Findings \cup GuardLines)
    BY <1>11, FileType, EndType, FoundType DEF TypeInv, ReadFile
  <2>2. QED BY <1>11, <2>1 DEF TypeInv, ReadFile, argvars, histvars, countvars
<1>12. ASSUME CallError PROVE TypeInv'
  <2>1. /\ pending # <<>> /\ Head(pending) \in Findings
        /\ Tail(pending) \in Seq(Findings \cup GuardLines)
    BY <1>12, FoundType DEF TypeInv, CallError
  <2> DEFINE e == Head(pending)
  <2>2. error_count' \in Nat /\ errors_by_category' \in [CountKeys -> Nat]
    <3>1. e.category \in Categories
      BY <2>1 DEF Findings
    <3>2. Error(e.category, e.confidence, e.line)
      BY <1>12 DEF CallError
    <3> HIDE DEF e
    <3>3. QED BY <3>1, <3>2, CountType DEF TypeInv, Error, countvars
  <2>3. current \in Nat /\ LinesRead \subseteq Nat
    <3>1. File.guard \in Seq(Findings \cup GuardLines) /\ current \in Nat
      BY <1>0, <2>1, FileType, EndType DEF TypeInv
    <3>2. \A g \in ToSet(File.guard) : g.line \in Nat
      BY <3>1 DEF ToSet, Findings, GuardLines
    <3>3. QED BY <3>1, <3>2 DEF TypeInv, LinesRead
  <2>4. log' \in Seq(Calls)
    BY <1>12, <2>1, <2>3 DEF TypeInv, CallError, Calls
  <2>5. QED BY <1>12, <2>1, <2>2, <2>4 DEF TypeInv, CallError, argvars, filevars
<1>13. ASSUME ParseGuardLine PROVE TypeInv'
  <2> DEFINE e == Head(pending)
  <2>0. pending # <<>> /\ pending \in Seq(Findings \cup GuardLines)
    BY <1>13 DEF TypeInv, ParseGuardLine
  <2>1. e \in Findings \cup GuardLines /\ Tail(pending) \in Seq(Findings \cup GuardLines)
    BY <2>0, HeadTailProperties
  <2>2. NolintErrors(File.lines[e.line].nolint, e.line) \in Seq(Findings \cup GuardLines)
    BY <2>1, NolintType, FoundType DEF Findings, GuardLines
  <2>3. pending' = NolintErrors(File.lines[e.line].nolint, e.line) \o Tail(pending)
    BY <1>13 DEF ParseGuardLine
  <2> HIDE DEF e
  <2>4. pending' \in Seq(Findings \cup GuardLines)
    BY <2>1, <2>2, <2>3
  <2>5. pc \in InData /\ pc' = pc
    BY <1>13, <2>0 DEF TypeInv, ParseGuardLine
  <2>6. QED BY <1>13, <2>4, <2>5 DEF TypeInv, ParseGuardLine, argvars, filevars, histvars, countvars
<1>14. ASSUME BeforeLines PROVE TypeInv'
  <2>1. File.comments \o (IF IsHeaderExtension THEN File.guard ELSE <<>>)
          \in Seq(Findings \cup GuardLines)
    BY <1>14, FileType, EndType DEF TypeInv, BeforeLines
  <2>2. QED BY <1>14, <2>1 DEF TypeInv, BeforeLines, argvars, filevars, histvars, countvars
<1>15. ASSUME ProcessLine PROVE TypeInv'
  <2> DEFINE n == lineno + 1
  <2>1. IsFile(File) /\ n \in Nat /\ n \in 1..Len(File.lines)
    <3>1. IsFile(File)
      BY <1>15, FileType DEF TypeInv, ProcessLine
    <3>2. Len(File.lines) \in Nat
      BY <3>1 DEF IsFile, SourceFiles
    <3>3. QED BY <1>15, <3>1, <3>2 DEF TypeInv, ProcessLine
  <2>2. NolintErrors(File.lines[n].nolint, n) \o TooLong(File.lines[n], n)
          \o File.lines[n].errors \in Seq(Findings \cup GuardLines)
    BY <2>1, LineType, FoundType
  <2>3. QED BY <1>15, <2>1, <2>2 DEF TypeInv, ProcessLine, argvars, histvars, countvars
<1>16. ASSUME AfterLines PROVE TypeInv'
  <2>1. File.completed \o (IF IsSourceExtension THEN File.header ELSE <<>>)
          \o File.ending \o CrlfErrors \in Seq(Findings \cup GuardLines)
    BY <1>16, FileType, EndType, FoundType DEF TypeInv, AfterLines
  <2>2. QED BY <1>16, <2>1
          DEF TypeInv, AfterLines, argvars, filevars, histvars, statevars, countvars
<1>17. ASSUME EndFile PROVE TypeInv'
  BY <1>17 DEF TypeInv, EndFile, argvars, filevars, countvars
<1>18. ASSUME EndRun PROVE TypeInv'
  BY <1>18 DEF TypeInv, EndRun, Exit, argvars, filevars, histvars, statevars, countvars
<1>19. ASSUME UNCHANGED vars PROVE TypeInv'
  BY <1>19 DEF TypeInv, vars, argvars, filevars, histvars, statevars, countvars
<1>20. QED
  BY <1>1, <1>2, <1>3, <1>4, <1>5, <1>6, <1>7, <1>8, <1>9, <1>10, <1>11, <1>12, <1>13,
     <1>14, <1>15, <1>16, <1>17, <1>18, <1>19 DEF Next, Arguments, Config, FileData

-----------------------------------------------------------------------------
(* The command line. *)

UpTo(given, k) == {i \in given : i <= k}

(* k options were looked at, and the last of each name among them counts. *)
OptionsSeen(k) ==
  /\ opts = SubSeq(args.options, k + 1, Len(args.options))
  /\ DOMAIN parsed = {"verbosity", "filters", "quiet", "counting"}
  /\ parsed.filters = LastOf(args.options, UpTo(Given("--filter"), k), <<>>)
  /\ parsed.verbosity = LastOf(args.options, UpTo(Given("--verbose"), k), 1)

(* Before the files nothing is printed, and what is parsed is what the     *)
(* options so far say.                                                     *)
OptionsInv ==
  pc = "options" =>
    /\ current = 0 /\ log = <<>> /\ done = {}
    /\ \E k \in 0..Len(args.options) : OptionsSeen(k)

(* One more option: its value counts if it has the name, and else the one  *)
(* that counted before.                                                    *)
LEMMA LastOfStep ==
  ASSUME args \in CommandLines, NEW name, NEW default, NEW k \in 0..(Len(args.options) - 1)
  PROVE  LastOf(args.options, UpTo(Given(name), k + 1), default) =
           IF args.options[k + 1].name = name THEN args.options[k + 1].val
           ELSE LastOf(args.options, UpTo(Given(name), k), default)
<1>1. Len(args.options) \in Nat /\ DOMAIN args.options = 1..Len(args.options)
  BY ArgsType DEF IsOptions
<1>2. k \in Nat /\ k + 1 \in 1..Len(args.options)
  BY <1>1
<1> DEFINE S == UpTo(Given(name), k + 1)
<1>3. CASE args.options[k + 1].name = name
  <2>1. k + 1 \in S /\ S \in SUBSET Nat /\ \A i \in S : i <= k + 1
    BY <1>1, <1>2, <1>3 DEF UpTo, Given
  <2>2. Max(S) \in S /\ \A i \in S : i <= Max(S)
    <3> HIDE DEF S
    <3>1. S # {} /\ k + 1 \in Nat
      BY <2>1, <1>2
    <3>2. QED BY <2>1, <3>1, LargestIs
  <2>3. Max(S) = k + 1
    <3> HIDE DEF S
    <3>1. Max(S) \in Nat /\ Max(S) <= k + 1 /\ k + 1 <= Max(S)
      BY <2>1, <2>2
    <3>2. QED BY <3>1, <1>2
  <2>4. S # {}
    BY <2>1
  <2> HIDE DEF S
  <2>5. LastOf(args.options, S, default) = args.options[k + 1].val
    BY <2>3, <2>4 DEF LastOf
  <2>6. QED BY <2>5, <1>3 DEF S
<1>4. CASE args.options[k + 1].name # name
  <2>1. S = UpTo(Given(name), k)
    BY <1>1, <1>2, <1>4 DEF UpTo, Given
  <2>2. QED BY <2>1, <1>4
<1>5. QED BY <1>3, <1>4

(* At first no option was looked at. *)
LEMMA OptionsInit == Init => OptionsInv
<1> SUFFICES ASSUME Init PROVE OptionsInv
  OBVIOUS
<1>1. args \in CommandLines /\ opts = args.options /\ current = 0 /\ log = <<>> /\ done = {}
      /\ parsed = [verbosity |-> 1, filters |-> <<>>, quiet |-> FALSE, counting |-> ""]
  BY DEF Init
<1>2. /\ IsOptions(args.options, "--filter")
      /\ args.options = SubSeq(args.options, 0 + 1, Len(args.options))
      /\ 0 \in 0..Len(args.options)
  BY <1>1, ArgsType, WholeSuffix
<1>3. UpTo(Given("--filter"), 0) = {} /\ UpTo(Given("--verbose"), 0) = {}
  BY <1>2 DEF UpTo, Given, IsOptions
<1>4. OptionsSeen(0)
  BY <1>1, <1>2, <1>3 DEF OptionsSeen, LastOf
<1>5. QED BY <1>1, <1>2, <1>4 DEF OptionsInv

(* An option that is looked at moves the place by one. *)
LEMMA OptionTaken ==
  ASSUME TypeInv, OptionsInv, pc = "options", opts # <<>>,
         opts' = Tail(opts), UNCHANGED args,
         DOMAIN parsed' = {"verbosity", "filters", "quiet", "counting"},
         parsed'.filters = IF Head(opts).name = "--filter" THEN Head(opts).val ELSE parsed.filters,
         parsed'.verbosity = IF Head(opts).name = "--verbose" THEN Head(opts).val
                             ELSE parsed.verbosity
  PROVE  \E k \in 0..Len(args'.options) : OptionsSeen(k)'
<1>1. PICK k \in 0..Len(args.options) : OptionsSeen(k)
  BY DEF OptionsInv
<1>2. args \in CommandLines /\ IsOptions(args.options, "--filter")
  BY ArgsType DEF TypeInv
<1>3. /\ Len(args.options) \in Nat /\ k < Len(args.options)
      /\ Head(opts) = args.options[k + 1]
      /\ Tail(opts) = SubSeq(args.options, (k + 1) + 1, Len(args.options))
  <2>1. opts = SubSeq(args.options, k + 1, Len(args.options))
    BY <1>1 DEF OptionsSeen
  <2>2. Len(args.options) \in Nat /\ k # Len(args.options)
    BY <2>1, <1>2, SuffixStep
  <2>3. k < Len(args.options)
    BY <2>2
  <2>4. QED BY <2>1, <2>2, <2>3, <1>2, SuffixStep
<1>4. k \in 0..(Len(args.options) - 1) /\ k + 1 \in 0..Len(args.options)
  BY <1>3
<1>5. parsed'.filters = LastOf(args.options, UpTo(Given("--filter"), k + 1), <<>>)
  BY <1>1, <1>2, <1>3, <1>4, LastOfStep DEF OptionsSeen
<1>6. parsed'.verbosity = LastOf(args.options, UpTo(Given("--verbose"), k + 1), 1)
  BY <1>1, <1>2, <1>3, <1>4, LastOfStep DEF OptionsSeen
<1>7. OptionsSeen(k + 1)'
  BY <1>3, <1>5, <1>6 DEF OptionsSeen, LastOf, UpTo, Given
<1>8. QED BY <1>4, <1>7

(* Every step keeps what is parsed. *)
LEMMA OptionsStep == TypeInv /\ OptionsInv /\ [Next]_vars => OptionsInv'
<1> SUFFICES ASSUME TypeInv, OptionsInv, [Next]_vars, pc' = "options"
             PROVE  /\ current' = 0 /\ log' = <<>> /\ done' = {}
                    /\ \E k \in 0..Len(args'.options) : OptionsSeen(k)'
  BY DEF OptionsInv
<1>1. pc = "options" /\ (ParseOption \/ SetGlobal \/ UNCHANGED vars)
  <2>1. ASSUME Next PROVE pc = "options" /\ (ParseOption \/ SetGlobal)
    <3>1. ASSUME Arguments PROVE pc = "options" /\ (ParseOption \/ SetGlobal)
      BY <3>1 DEF Arguments, StopAtOption, EndOfOptions, Exit, ParseOption, SetGlobal, Option
    <3>2. ASSUME Config PROVE FALSE
      BY <3>2 DEF Config, OpenConfig, ConfigRule, ConfigSetting, ExcludeFiles,
           ApplyConfigFilters, ConfigLine, Exit
    <3>3. ASSUME FileData PROVE FALSE
      BY <3>3 DEF FileData, ReadFile, CallError, ParseGuardLine, BeforeLines, ProcessLine,
           AfterLines, TypeInv, InData
    <3>4. ~ StartFile /\ ~ EndFile /\ ~ EndRun
      BY DEF StartFile, EndFile, EndRun, Exit
    <3>5. QED BY <2>1, <3>1, <3>2, <3>3, <3>4 DEF Next
  <2>2. ASSUME UNCHANGED vars PROVE pc = "options"
    BY <2>2 DEF vars
  <2>3. QED BY <2>1, <2>2
<1>2. PICK k \in 0..Len(args.options) : OptionsSeen(k)
  BY <1>1 DEF OptionsInv
<1>3. ASSUME ParseOption
      PROVE  /\ current' = 0 /\ log' = <<>> /\ done' = {}
             /\ \E j \in 0..Len(args'.options) : OptionsSeen(j)'
  <2> DEFINE o == Head(opts)
  <2>1. /\ opts # <<>> /\ opts' = Tail(opts) /\ UNCHANGED args
        /\ UNCHANGED <<current, log, done>>
        /\ o.name \in {"--quiet", "--verbose", "--filter", "--counting"}
        /\ parsed' = CASE o.name = "--quiet" -> [parsed EXCEPT !.quiet = TRUE]
                       [] o.name = "--verbose" -> [parsed EXCEPT !.verbosity = o.val]
                       [] o.name = "--filter" -> [parsed EXCEPT !.filters = o.val]
                       [] o.name = "--counting" -> [parsed EXCEPT !.counting = o.val]
    BY <1>3 DEF ParseOption, Option, NextOption, filevars, histvars
  <2>2. DOMAIN parsed = {"verbosity", "filters", "quiet", "counting"}
    BY <1>2 DEF OptionsSeen
  <2> HIDE DEF o
  <2>3. /\ DOMAIN parsed' = {"verbosity", "filters", "quiet", "counting"}
        /\ parsed'.filters = IF o.name = "--filter" THEN o.val ELSE parsed.filters
        /\ parsed'.verbosity = IF o.name = "--verbose" THEN o.val ELSE parsed.verbosity
    BY <2>1, <2>2
  <2>4. \E j \in 0..Len(args'.options) : OptionsSeen(j)'
    BY <1>1, <2>1, <2>3, OptionTaken DEF o
  <2>5. QED BY <2>1, <2>4, <1>1 DEF OptionsInv
<1>4. ASSUME SetGlobal
      PROVE  /\ current' = 0 /\ log' = <<>> /\ done' = {}
             /\ \E j \in 0..Len(args'.options) : OptionsSeen(j)'
  <2>1. /\ opts # <<>> /\ opts' = Tail(opts) /\ UNCHANGED args /\ parsed' = parsed
        /\ UNCHANGED <<current, log, done>>
        /\ Head(opts).name # "--filter" /\ Head(opts).name # "--verbose"
    BY <1>4 DEF SetGlobal, Option, NextOption, filevars, histvars
  <2>2. DOMAIN parsed' = {"verbosity", "filters", "quiet", "counting"}
    BY <1>2, <2>1 DEF OptionsSeen
  <2>3. \E j \in 0..Len(args'.options) : OptionsSeen(j)'
    BY <1>1, <2>1, <2>2, OptionTaken
  <2>4. QED BY <2>1, <2>3, <1>1 DEF OptionsInv
<1>5. ASSUME UNCHANGED vars
      PROVE  /\ current' = 0 /\ log' = <<>> /\ done' = {}
             /\ \E j \in 0..Len(args'.options) : OptionsSeen(j)'
  <2>1. UNCHANGED <<args, opts, parsed, current, log, done>>
    BY <1>5 DEF vars, argvars, filevars, histvars
  <2>2. OptionsSeen(k)'
    BY <1>2, <2>1 DEF OptionsSeen, UpTo, Given, LastOf
  <2>3. QED BY <1>1, <2>1, <2>2 DEF OptionsInv
<1>6. QED BY <1>1, <1>3, <1>4, <1>5

-----------------------------------------------------------------------------
(* The filters of a file. *)

(* Between files and while the cfgs are read the filters are those of the  *)
(* command line; the backup holds them as long as a file is at hand; and   *)
(* its own rules hold while it is checked.                                 *)
FiltersInv ==
  /\ pc \in InFile \cup {"files"} => Signed(Base) /\ verbose_level = Verbosity
  /\ pc \in {"files", "config"} => filters = Base
  /\ pc \in InFile => filters_backup = Base
  /\ pc \in {"read"} \cup InData => filters = RulesOf(File) /\ Signed(filters)

(* ProcessConfigOverrides is at the directory of the first n names, has    *)
(* taken j lines of its cfg, and has collected these lines and what lies   *)
(* below.  What lies below and the rules down to here are together what    *)
(* the path inherits.                                                      *)
ConfigAt(n, j, below) ==
  LET dir == Dir(File.path, n)
      lines == CfgLines(dir)
  IN  /\ config.path = dir
      /\ config.lines = SubSeq(lines, j + 1, Len(lines))
      /\ config.keep_looking <=> /\ tree[dir].kind # "unreadable"
                                 /\ \A i \in 1..j : lines[i].name # "set noparent"
      /\ Latest(config.cfg_filters) = OwnUpTo(lines, j) \o below
      /\ Inherited(File.path)[Len(File.path) - 1] = Inherited(File.path)[n] \o below

ConfigBegins ==
  /\ config.path = File.path /\ config.lines = <<>> /\ config.keep_looking = TRUE
  /\ config.cfg_filters = <<>>

(* Before the first directory, or somewhere on the way to the root. *)
ConfigInv ==
  pc = "config" =>
    /\ DOMAIN config = {"path", "base", "lines", "cfg_filters", "keep_looking"}
    /\ config.cfg_filters \in Seq(Seq(Filters))
    /\ \/ ConfigBegins
       \/ \E n \in 0..(Len(File.path) - 1) :
            \E j \in 0..Len(CfgLines(Dir(File.path, n))), below \in Seq(Filters) :
              ConfigAt(n, j, below)

(* The path of the file at hand, and the cfgs of all its directories. *)
LEMMA PathType ==
  ASSUME TypeInv, current >= 1
  PROVE  /\ File.path \in Seq(STRING) /\ File.path # <<>>
         /\ Len(File.path) \in Nat /\ Len(File.path) >= 1
         /\ Cfgs(File.path)
         /\ \A n \in 0..(Len(File.path) - 1) :
              LET dir == Dir(File.path, n) IN
              /\ IsCfg(tree[dir]) /\ IsOptions(CfgLines(dir), "filter")
              /\ Len(CfgLines(dir)) \in Nat /\ DOMAIN CfgLines(dir) = 1..Len(CfgLines(dir))
<1>1. IsFile(File) /\ Cfgs(File.path)
  BY FileType
<1>2. File.path \in Seq(STRING) /\ File.path # <<>>
  BY <1>1 DEF IsFile, SourceFiles
<1>3. Len(File.path) \in Nat /\ Len(File.path) >= 1
  BY <1>2
<1>4. ASSUME NEW n \in 0..(Len(File.path) - 1)
      PROVE  LET dir == Dir(File.path, n) IN
              /\ IsCfg(tree[dir]) /\ IsOptions(CfgLines(dir), "filter")
              /\ Len(CfgLines(dir)) \in Nat /\ DOMAIN CfgLines(dir) = 1..Len(CfgLines(dir))
  <2>1. IsCfg(tree[Dir(File.path, n)])
    BY <1>1 DEF Cfgs
  <2>2. IsOptions(CfgLines(Dir(File.path, n)), "filter")
    BY <2>1, CfgLinesType
  <2>3. QED BY <2>1, <2>2 DEF IsOptions
<1>5. QED BY <1>1, <1>2, <1>3, <1>4

(* The directories of a path: the first is the root, and each lies in the  *)
(* one before.                                                             *)
LEMMA DirFacts ==
  ASSUME NEW path \in Seq(STRING), path # <<>>
  PROVE  /\ Dir(path, Len(path)) = path
         /\ Dir(path, 0) = <<>>
         /\ \A n \in 1..Len(path) :
              Dir(path, n) # <<>> /\ Front(Dir(path, n)) = Dir(path, n - 1)
<1>1. Len(path) \in Nat /\ Dir(path, Len(path)) = path
  BY SubSeqFull DEF Dir
<1>2. Dir(path, 0) = <<>>
  BY SubSeqEmpty DEF Dir
<1>3. ASSUME NEW n \in 1..Len(path)
      PROVE  Dir(path, n) # <<>> /\ Front(Dir(path, n)) = Dir(path, n - 1)
  <2> DEFINE d == Dir(path, n)
  <2>1. d \in Seq(STRING) /\ Len(d) = n /\ \A i \in 1..n : d[i] = path[i]
    <3>1. 1 \in Int /\ n \in Int /\ n - 1 + 1 = n /\ 1 <= n /\ \A i \in 1..n : path[i] \in STRING
      BY <1>1
    <3>2. QED BY <3>1, SubSeqProperties DEF Dir
  <2>2. d # <<>>
    <3> HIDE DEF d
    <3>1. Len(d) # 0
      BY <2>1, <1>1
    <3>2. QED BY <3>1
  <2>3. Front(d) = SubSeq(d, 1, n - 1)
    BY <2>1 DEF Front
  <2>4. SubSeq(d, 1, n - 1) = SubSeq(path, 1, n - 1)
    <3> DEFINE a == SubSeq(d, 1, n - 1)
               b == SubSeq(path, 1, n - 1)
    <3> HIDE DEF d
    <3>1. /\ a \in Seq(STRING) /\ Len(a) = n - 1 /\ \A i \in 1..(n - 1) : a[i] = path[i]
          /\ b \in Seq(STRING) /\ Len(b) = n - 1 /\ \A i \in 1..(n - 1) : b[i] = path[i]
      BY <2>1, <1>1
    <3> HIDE DEF a, b
    <3>2. a = b
      BY <3>1, SeqEqual
    <3>3. QED BY <3>2 DEF a, b
  <2>5. QED BY <2>2, <2>3, <2>4 DEF Dir
<1>4. QED BY <1>1, <1>2, <1>3

(* What is needed of appending, in one place. *)
LEMMA Concat ==
  \A S : \A s, t, u \in Seq(S) :
    /\ s \o (t \o u) = (s \o t) \o u
    /\ s \o t \in Seq(S) /\ s \o <<>> = s /\ <<>> \o s = s /\ <<>> \in Seq(S)
BY Associative, ConcatEmptySeq, ConcatProperties

(* The same, of filters. *)
LEMMA FiltersConcat ==
  \A s, t, u \in Seq(Filters) : s \o (t \o u) = (s \o t) \o u /\ s \o t \in Seq(Filters)
BY Concat

(* All that the cfgs give is collected when ProcessConfigOverrides is done. *)
LEMMA ConfigEnds ==
  ASSUME TypeInv, ConfigInv, pc = "config",
         config.lines = <<>>, ~ (config.keep_looking /\ config.path # <<>>)
  PROVE  Latest(config.cfg_filters) = Inherited(File.path)[Len(File.path) - 1]
<1>1. current >= 1
  BY DEF TypeInv, InFile
<1>2. ~ ConfigBegins
  BY <1>1, PathType DEF ConfigBegins
<1>a. PICK n \in 0..(Len(File.path) - 1) :
        \E j \in 0..Len(CfgLines(Dir(File.path, n))), below \in Seq(Filters) :
          ConfigAt(n, j, below)
  BY <1>2 DEF ConfigInv
<1>3. PICK j \in 0..Len(CfgLines(Dir(File.path, n))), below \in Seq(Filters) :
        ConfigAt(n, j, below)
  BY <1>a
<1> DEFINE dir == Dir(File.path, n)
           lines == CfgLines(dir)
<1>4. /\ IsCfg(tree[dir]) /\ IsOptions(lines, "filter") /\ DOMAIN lines = 1..Len(lines)
      /\ File.path \in Seq(STRING) /\ File.path # <<>> /\ Cfgs(File.path) /\ Len(File.path) \in Nat
  BY <1>1, PathType
<1>5. j = Len(lines)
  <2>1. SubSeq(lines, j + 1, Len(lines)) = <<>>
    BY <1>3 DEF ConfigAt
  <2>2. j \in 0..Len(lines)
    OBVIOUS
  <2> HIDE DEF lines
  <2>3. QED BY <2>1, <2>2, <1>4, SuffixStep
<1>6. n = 0 \/ NoParent(dir)
  <2>1. CASE config.path = <<>>
    <3>1. dir = <<>>
      BY <1>3, <2>1 DEF ConfigAt
    <3>2. n # 0 => n \in 1..Len(File.path)
      BY <1>4
    <3>3. QED BY <3>1, <3>2, <1>4, DirFacts
  <2>2. CASE ~ config.keep_looking
    BY <2>2, <1>3, <1>4, <1>5 DEF ConfigAt, NoParent
  <2>3. QED BY <2>1, <2>2
<1>7. Inherited(File.path)[n] = <<>> \o OwnFilters(lines)
  BY <1>4, <1>6, InheritedStep
<1>8. OwnFilters(lines) = OwnUpTo(lines, j) /\ OwnUpTo(lines, j) \in Seq(Filters)
  BY <1>4, <1>5, OwnStep, OwnIsAll
<1>9. Inherited(File.path)[n] = OwnUpTo(lines, j)
  BY <1>7, <1>8, Concat
<1>10. QED BY <1>3, <1>9 DEF ConfigAt

SameFile == UNCHANGED <<args, tree, current>>

(* As long as the command line, the tree and the file are the same, so is  *)
(* what is expected of them.                                               *)
LEMMA Same ==
  ASSUME SameFile
  PROVE  /\ File' = File /\ Base' = Base /\ RulesOf(File)' = RulesOf(File)
         /\ Verbosity' = Verbosity
         /\ Inherited(File.path)' = Inherited(File.path)
         /\ \A dir : CfgLines(dir)' = CfgLines(dir)
BY DEF SameFile, File, Base, RulesOf, FlagFilters, Verbosity, LastOf, Given, Inherited,
       NoParent, CfgLines

ConfigShape ==
  /\ DOMAIN config = {"path", "base", "lines", "cfg_filters", "keep_looking"}
  /\ config.cfg_filters \in Seq(Seq(Filters))

ConfigSomewhere ==
  \E n \in 0..(Len(File.path) - 1) :
    \E j \in 0..Len(CfgLines(Dir(File.path, n))), below \in Seq(Filters) :
      ConfigAt(n, j, below)

(* One turn of the while loop takes the cfg of the next directory up.      *)
LEMMA Opened ==
  ASSUME TypeInv, ConfigInv, OpenConfig
  PROVE  ConfigShape' /\ ConfigSomewhere'
<1>1. /\ pc = "config" /\ config.lines = <<>> /\ config.keep_looking /\ config.path # <<>>
      /\ SameFile
  BY DEF OpenConfig, SameFile, argvars
<1>2. current >= 1
  BY <1>1 DEF TypeInv, InFile
<1>3. /\ File.path \in Seq(STRING) /\ File.path # <<>> /\ Cfgs(File.path)
      /\ Len(File.path) \in Nat /\ Len(File.path) >= 1
  BY <1>2, PathType
<1>4. ConfigShape
  BY <1>1 DEF ConfigInv, ConfigShape
<1>5. /\ config'.path = Front(config.path)
      /\ config'.lines = CfgLines(Front(config.path))
      /\ config'.keep_looking = (tree[Front(config.path)].kind # "unreadable")
      /\ config'.cfg_filters = config.cfg_filters
      /\ DOMAIN config' = DOMAIN config
  BY <1>4 DEF OpenConfig, ConfigShape, CfgLines
<1>6. ConfigShape'
  BY <1>4, <1>5 DEF ConfigShape
<1>7. ASSUME NEW n \in 0..(Len(File.path) - 1), NEW below \in Seq(Filters),
             Front(config.path) = Dir(File.path, n),
             Latest(config.cfg_filters) = below,
             Inherited(File.path)[Len(File.path) - 1] = Inherited(File.path)[n] \o below
      PROVE  ConfigSomewhere'
  <2> DEFINE dir == Dir(File.path, n)
             lines == CfgLines(dir)
  <2>1. IsOptions(lines, "filter") /\ Len(lines) \in Nat
    BY <1>2, PathType
  <2>2. 0 \in 0..Len(lines) /\ lines = SubSeq(lines, 0 + 1, Len(lines))
    BY <2>1, WholeSuffix
  <2>3. OwnUpTo(lines, 0) = <<>> /\ <<>> \o below = below
    BY <2>1, <2>2, OwnStep, Concat
  <2>4. Dir(File.path, n)' = dir /\ tree' = tree
    BY <1>1, Same DEF SameFile, Dir
  <2>5. CfgLines(dir)' = lines
    BY <1>1, Same
  <2>6. ConfigAt(n, 0, below)'
    <3>1. config'.path = dir
      BY <1>5, <1>7
    <3>2. config'.lines = SubSeq(lines, 0 + 1, Len(lines))
      BY <1>5, <1>7, <2>2
    <3>3. config'.keep_looking <=> /\ tree[dir].kind # "unreadable"
                                   /\ \A i \in 1..0 : lines[i].name # "set noparent"
      <4>1. \A i \in 1..0 : FALSE
        OBVIOUS
      <4>2. config'.keep_looking = (tree[dir].kind # "unreadable")
        BY <1>5, <1>7
      <4> HIDE DEF lines, dir
      <4>3. QED BY <4>1, <4>2
    <3>4. Latest(config'.cfg_filters) = OwnUpTo(lines, 0) \o below
      BY <1>5, <1>7, <2>3
    <3>5. /\ Inherited(File.path)' = Inherited(File.path) /\ File' = File
      BY <1>1, Same
    <3> HIDE DEF lines, dir
    <3>6. CfgLines(Dir(File.path, n))' = lines /\ (Dir(File.path, n))' = dir
      BY <2>4, <2>5 DEF dir, lines, Dir
    <3>7. QED
      BY <3>1, <3>2, <3>3, <3>4, <3>5, <3>6, <1>7, <2>4 DEF ConfigAt, Latest, OwnUpTo
  <2>7. File' = File
    BY <1>1, Same
  <2>8. 0 \in 0..Len(CfgLines(Dir(File.path, n)))'
    BY <2>2, <2>4, <2>5
  <2>9. QED BY <2>6, <2>7, <2>8 DEF ConfigSomewhere
<1>8. CASE ConfigBegins
  <2> DEFINE n == Len(File.path) - 1
  <2>1. n \in 0..n /\ Front(config.path) = Dir(File.path, n)
    <3>1. Len(File.path) \in 1..Len(File.path)
      BY <1>3
    <3>2. QED BY <1>3, <1>8, <3>1, DirFacts DEF ConfigBegins
  <2>2. Latest(config.cfg_filters) = <<>>
    BY <1>8, LatestEmpty DEF ConfigBegins
  <2>3. Inherited(File.path)[n] \in Seq(Filters)
    BY <2>1, <1>3, InheritedStep
  <2>4. Inherited(File.path)[n] = Inherited(File.path)[n] \o <<>> /\ <<>> \in Seq(Filters)
    BY <2>3, Concat
  <2>5. QED BY <1>6, <1>7, <2>1, <2>2, <2>4
<1>9. CASE ~ ConfigBegins
  <2>1. PICK n \in 0..(Len(File.path) - 1) :
          \E j \in 0..Len(CfgLines(Dir(File.path, n))), below \in Seq(Filters) :
            ConfigAt(n, j, below)
    BY <1>1, <1>9 DEF ConfigInv
  <2>2. PICK j \in 0..Len(CfgLines(Dir(File.path, n))), below \in Seq(Filters) :
          ConfigAt(n, j, below)
    BY <2>1
  <2> DEFINE dir == Dir(File.path, n)
             lines == CfgLines(dir)
  <2>3. IsOptions(lines, "filter") /\ Len(lines) \in Nat /\ DOMAIN lines = 1..Len(lines)
    BY <1>2, PathType
  <2>4. j = Len(lines)
    <3>1. SubSeq(lines, j + 1, Len(lines)) = <<>>
      BY <1>1, <2>2 DEF ConfigAt
    <3>2. j \in 0..Len(lines)
      OBVIOUS
    <3> HIDE DEF lines
    <3>3. QED BY <3>1, <3>2, <2>3, SuffixStep
  <2>5. config.path = dir /\ n # 0
    BY <1>1, <1>3, <2>2, DirFacts DEF ConfigAt
  <2>6. n \in 1..Len(File.path) /\ n - 1 \in 0..(Len(File.path) - 1)
    BY <2>5, <1>3
  <2>7. Front(config.path) = Dir(File.path, n - 1)
    BY <2>5, <2>6, <1>3, DirFacts
  <2>8. ~ NoParent(dir)
    BY <1>1, <2>2, <2>3, <2>4 DEF ConfigAt, NoParent
  <2> DEFINE own == OwnUpTo(lines, j)
             above == Inherited(File.path)[n - 1]
  <2>9. own = OwnFilters(lines) /\ own \in Seq(Filters)
    BY <2>3, <2>4, OwnStep, OwnIsAll
  <2>10. Inherited(File.path)[n] = above \o own /\ above \in Seq(Filters)
    BY <2>5, <2>6, <2>8, <2>9, <1>3, InheritedStep
  <2>11. Latest(config.cfg_filters) = own \o below
         /\ Inherited(File.path)[Len(File.path) - 1] = Inherited(File.path)[n] \o below
    BY <2>2 DEF ConfigAt
  <2> HIDE DEF own, above
  <2>12. own \o below \in Seq(Filters) /\ (above \o own) \o below = above \o (own \o below)
    BY <2>9, <2>10, FiltersConcat, Zenon
  <2>13. Inherited(File.path)[Len(File.path) - 1] = above \o (own \o below)
    BY <2>10, <2>11, <2>12
  <2>14. QED BY <1>6, <1>7, <2>6, <2>7, <2>11, <2>12, <2>13 DEF above
<1>10. QED BY <1>6, <1>8, <1>9

(* One turn of the for loop takes the next line of the cfg.                *)
TakesLine ==
  /\ pc = "config" /\ config.lines # <<>> /\ SameFile
  /\ DOMAIN config' = DOMAIN config
  /\ config'.path = config.path /\ config'.lines = Tail(config.lines)
  /\ config'.keep_looking <=> config.keep_looking /\ Head(config.lines).name # "set noparent"
  /\ config'.cfg_filters = IF Head(config.lines).name = "filter"
                           THEN Append(config.cfg_filters, Head(config.lines).val)
                           ELSE config.cfg_filters

(* The next line of a cfg moves the place by one. *)
LEMMA LineTaken ==
  ASSUME TypeInv, ConfigInv, TakesLine
  PROVE  ConfigShape' /\ ConfigSomewhere'
<1>1. current >= 1
  BY DEF TypeInv, InFile, TakesLine
<1>2. ConfigShape /\ ~ ConfigBegins
  BY DEF ConfigInv, ConfigShape, ConfigBegins, TakesLine
<1>3. PICK n \in 0..(Len(File.path) - 1) :
        \E j \in 0..Len(CfgLines(Dir(File.path, n))), below \in Seq(Filters) :
          ConfigAt(n, j, below)
  BY <1>2 DEF ConfigInv, TakesLine, ConfigSomewhere
<1>4. PICK j \in 0..Len(CfgLines(Dir(File.path, n))), below \in Seq(Filters) :
        ConfigAt(n, j, below)
  BY <1>3
<1> DEFINE dir == Dir(File.path, n)
           lines == CfgLines(dir)
           o == lines[j + 1]
<1>5. IsOptions(lines, "filter") /\ Len(lines) \in Nat /\ DOMAIN lines = 1..Len(lines)
  BY <1>1, PathType
<1>6. /\ j \in Nat /\ j < Len(lines) /\ j + 1 \in 1..Len(lines) /\ j + 1 \in 0..Len(lines)
      /\ Head(config.lines) = o
      /\ Tail(config.lines) = SubSeq(lines, (j + 1) + 1, Len(lines))
  <2>1. config.lines = SubSeq(lines, j + 1, Len(lines)) /\ j \in 0..Len(lines)
    BY <1>4 DEF ConfigAt
  <2> HIDE DEF lines, o
  <2>2. j # Len(lines)
    BY <2>1, <1>5, SuffixStep DEF TakesLine
  <2>3. j \in Nat /\ j < Len(lines) /\ j + 1 \in 1..Len(lines) /\ j + 1 \in 0..Len(lines)
    <3> DEFINE N == Len(lines)
    <3>1. N \in Nat /\ j \in 0..N /\ j # N
      BY <2>1, <2>2, <1>5
    <3> HIDE DEF N
    <3>2. j \in Nat /\ j < N /\ j + 1 \in 1..N /\ j + 1 \in 0..N
      BY <3>1
    <3>3. QED BY <3>2 DEF N
  <2>4. QED BY <2>1, <2>3, <1>5, SuffixStep DEF o
<1>7. FilterOf(o) \in Seq(Filters) /\ (o.name = "filter" => o.val \in Seq(Filters))
  <2> HIDE DEF lines
  <2>1. QED BY <1>5, <1>6 DEF IsOptions, FilterOf
<1>8. OwnUpTo(lines, j) \in Seq(Filters) /\ OwnUpTo(lines, j + 1) = FilterOf(o) \o OwnUpTo(lines, j)
  BY <1>5, <1>6, OwnStep
<1>9. Latest(config.cfg_filters) = OwnUpTo(lines, j) \o below
  BY <1>4 DEF ConfigAt
<1>10. ConfigShape' /\ Latest(config'.cfg_filters) = FilterOf(o) \o Latest(config.cfg_filters)
  <2> HIDE DEF o
  <2>1. CASE o.name = "filter"
    <3>1. config'.cfg_filters = Append(config.cfg_filters, o.val) /\ FilterOf(o) = o.val
      BY <1>6, <2>1 DEF FilterOf, TakesLine
    <3>2. config.cfg_filters \in Seq(Seq(Filters)) /\ o.val \in Seq(Filters)
      BY <1>2, <1>7, <2>1 DEF ConfigShape
    <3>3. Append(config.cfg_filters, o.val) \in Seq(Seq(Filters))
      BY <3>2
    <3>4. Latest(Append(config.cfg_filters, o.val)) = o.val \o Latest(config.cfg_filters)
      BY <3>2, LatestAppend
    <3>5. ConfigShape'
      BY <1>2, <3>1, <3>3 DEF ConfigShape, TakesLine
    <3>6. QED BY <3>1, <3>4, <3>5
  <2>2. CASE o.name # "filter"
    <3>1. config'.cfg_filters = config.cfg_filters /\ FilterOf(o) = <<>>
      BY <1>6, <2>2 DEF FilterOf, TakesLine
    <3>2. Latest(config.cfg_filters) \in Seq(Filters)
      BY <1>8, <1>9, Concat
    <3>3. <<>> \o Latest(config.cfg_filters) = Latest(config.cfg_filters)
      BY <3>2, Concat
    <3>4. ConfigShape'
      BY <1>2, <3>1 DEF ConfigShape, TakesLine
    <3>5. QED BY <3>1, <3>3, <3>4
  <2>3. QED BY <2>1, <2>2
<1>11. Latest(config'.cfg_filters) = OwnUpTo(lines, j + 1) \o below
  <2> DEFINE own == OwnUpTo(lines, j)
             f == FilterOf(o)
  <2>1. own \in Seq(Filters) /\ f \in Seq(Filters)
    BY <1>7, <1>8
  <2>2. OwnUpTo(lines, j + 1) = f \o own /\ Latest(config'.cfg_filters) = f \o (own \o below)
    BY <1>8, <1>9, <1>10
  <2> HIDE DEF own, f
  <2>3. f \o (own \o below) = (f \o own) \o below
    BY <2>1, FiltersConcat, Zenon
  <2>4. QED BY <2>2, <2>3
<1>12. config'.keep_looking <=> /\ tree[dir].kind # "unreadable"
                                /\ \A i \in 1..(j + 1) : lines[i].name # "set noparent"
  <2>1. config.keep_looking <=> /\ tree[dir].kind # "unreadable"
                                /\ \A i \in 1..j : lines[i].name # "set noparent"
    BY <1>4 DEF ConfigAt
  <2>2. config'.keep_looking <=> config.keep_looking /\ o.name # "set noparent"
    BY <1>6 DEF TakesLine
  <2>3. \A i \in 1..(j + 1) : i \in 1..j \/ i = j + 1
    BY <1>6
  <2>4. \A i \in 1..j : i \in 1..(j + 1)
    BY <1>6
  <2>5. j + 1 \in 1..(j + 1)
    BY <1>6
  <2> DEFINE Goes(i) == lines[i].name # "set noparent"
  <2>6. o.name # "set noparent" <=> Goes(j + 1)
    OBVIOUS
  <2> HIDE DEF dir, lines, o, Goes
  <2>7. (\A i \in 1..(j + 1) : Goes(i)) <=> (\A i \in 1..j : Goes(i)) /\ Goes(j + 1)
    BY <2>3, <2>4, <2>5
  <2>8. QED BY <2>1, <2>2, <2>6, <2>7 DEF Goes
<1>13. /\ File' = File /\ Inherited(File.path)' = Inherited(File.path)
       /\ CfgLines(Dir(File.path, n))' = lines /\ (Dir(File.path, n))' = dir /\ tree' = tree
  BY Same DEF SameFile, Dir, TakesLine
<1>14. ConfigAt(n, j + 1, below)'
  <2>1. config'.path = dir /\ config'.lines = SubSeq(lines, (j + 1) + 1, Len(lines))
    BY <1>4, <1>6 DEF ConfigAt, TakesLine
  <2>2. Inherited(File.path)[Len(File.path) - 1] = Inherited(File.path)[n] \o below
    BY <1>4 DEF ConfigAt
  <2> HIDE DEF dir, lines, o
  <2>3. QED BY <2>1, <2>2, <1>11, <1>12, <1>13 DEF ConfigAt, Latest, OwnUpTo
<1>15. QED BY <1>6, <1>10, <1>13, <1>14 DEF ConfigSomewhere

(* Every step keeps the place in the cfgs. *)
LEMMA ConfigStep == TypeInv /\ TypeInv' /\ ConfigInv /\ [Next]_vars => ConfigInv'
<1> SUFFICES ASSUME TypeInv, TypeInv', ConfigInv, [Next]_vars, pc' = "config"
             PROVE  ConfigShape' /\ (ConfigBegins \/ ConfigSomewhere)'
  BY DEF ConfigInv, ConfigShape, ConfigSomewhere
<1>1. \/ StartFile \/ OpenConfig \/ ConfigRule \/ ConfigSetting \/ ExcludeFiles
      \/ UNCHANGED vars
  <2>1. ASSUME Arguments PROVE FALSE
    BY <2>1 DEF Arguments, StopAtOption, ParseOption, SetGlobal, EndOfOptions, Option, Exit
  <2>2. ASSUME FileData PROVE FALSE
    BY <2>2 DEF FileData, ReadFile, CallError, ParseGuardLine, BeforeLines, ProcessLine,
         AfterLines, TypeInv, InData
  <2>3. ~ EndFile /\ ~ EndRun /\ ~ ApplyConfigFilters
    BY DEF EndFile, EndRun, ApplyConfigFilters, Exit
  <2>4. QED BY <2>1, <2>2, <2>3 DEF Next, Config
<1>2. CASE StartFile
  <2>1. config' = Overrides(File.path)'
    BY <1>2 DEF StartFile, File, argvars
  <2>2. <<>> \in Seq(Seq(Filters))
    OBVIOUS
  <2>3. QED BY <2>1, <2>2 DEF Overrides, ConfigShape, ConfigBegins
<1>3. CASE OpenConfig
  BY <1>3, Opened
<1>4. ASSUME ConfigRule \/ ConfigSetting \/ ExcludeFiles PROVE TakesLine
  <2>1. /\ pc = "config" /\ config.lines # <<>> /\ SameFile
    BY <1>4 DEF ConfigRule, ConfigSetting, ExcludeFiles, ConfigLine, SameFile, argvars
  <2>2. ConfigShape
    BY <2>1 DEF ConfigInv, ConfigShape
  <2>3. CASE ConfigRule
    <3> DEFINE o == Head(config.lines)
    <3>1. config' = [config EXCEPT
            !.lines = Tail(config.lines),
            !.keep_looking = config.keep_looking /\ o.name # "set noparent",
            !.cfg_filters = IF o.name = "filter" THEN Append(config.cfg_filters, o.val)
                            ELSE config.cfg_filters]
      BY <2>3 DEF ConfigRule
    <3> HIDE DEF o
    <3>2. /\ DOMAIN config' = DOMAIN config
          /\ config'.path = config.path /\ config'.lines = Tail(config.lines)
          /\ config'.keep_looking = (config.keep_looking /\ o.name # "set noparent")
          /\ config'.cfg_filters = IF o.name = "filter" THEN Append(config.cfg_filters, o.val)
                                   ELSE config.cfg_filters
      BY <3>1, <2>2 DEF ConfigShape
    <3>3. QED BY <3>2, <2>1 DEF TakesLine, o
  <2>4. CASE ConfigSetting \/ ExcludeFiles
    <3>1. config' = [config EXCEPT !.lines = Tail(config.lines)]
      BY <2>4 DEF ConfigSetting, ExcludeFiles, NextConfigLine
    <3>2. Head(config.lines).name \notin {"filter", "set noparent"}
      BY <2>4 DEF ConfigSetting, ExcludeFiles, ConfigLine
    <3>3. /\ DOMAIN config' = DOMAIN config
          /\ config'.path = config.path /\ config'.lines = Tail(config.lines)
          /\ config'.keep_looking = config.keep_looking
          /\ config'.cfg_filters = config.cfg_filters
      BY <3>1, <2>2 DEF ConfigShape
    <3>4. QED BY <3>2, <3>3, <2>1 DEF TakesLine
  <2>5. QED BY <1>4, <2>3, <2>4
<1>5. CASE ConfigRule \/ ConfigSetting \/ ExcludeFiles
  BY <1>4, <1>5, LineTaken
<1>6. CASE UNCHANGED vars
  <2>1. SameFile /\ pc = "config" /\ config' = config /\ tree' = tree
    BY <1>6 DEF SameFile, vars, argvars, filevars
  <2>2. /\ File' = File /\ Inherited(File.path)' = Inherited(File.path)
        /\ \A dir : CfgLines(dir)' = CfgLines(dir)
    BY <2>1, Same
  <2>3. ConfigShape'
    BY <2>1 DEF ConfigInv, ConfigShape
  <2>4. CASE ConfigBegins
    BY <2>1, <2>2, <2>3, <2>4 DEF ConfigBegins
  <2>5. CASE ~ ConfigBegins
    <3>1. PICK n \in 0..(Len(File.path) - 1) :
            \E j \in 0..Len(CfgLines(Dir(File.path, n))), below \in Seq(Filters) :
              ConfigAt(n, j, below)
      BY <2>1, <2>5 DEF ConfigInv
    <3>2. PICK j \in 0..Len(CfgLines(Dir(File.path, n))), below \in Seq(Filters) :
            ConfigAt(n, j, below)
      BY <3>1
    <3>3. /\ CfgLines(Dir(File.path, n))' = CfgLines(Dir(File.path, n))
          /\ (Dir(File.path, n))' = Dir(File.path, n)
      BY <2>2 DEF Dir
    <3>4. ConfigAt(n, j, below)'
      BY <3>2, <3>3, <2>1, <2>2 DEF ConfigAt, Latest, OwnUpTo
    <3>5. ConfigSomewhere'
      BY <3>3, <3>4, <2>2 DEF ConfigSomewhere
    <3>6. QED BY <2>3, <3>5
  <2>6. QED BY <2>4, <2>5
<1>7. QED BY <1>1, <1>2, <1>3, <1>5, <1>6

(* Every step keeps the filters: those of a file are what its cfgs add,    *)
(* and go when it is left, on whichever way.                               *)
LEMMA FiltersStep ==
  TypeInv /\ TypeInv' /\ OptionsInv /\ ConfigInv /\ FiltersInv /\ [Next]_vars => FiltersInv'
<1> SUFFICES ASSUME TypeInv, TypeInv', OptionsInv, ConfigInv, FiltersInv, [Next]_vars
             PROVE  FiltersInv'
  OBVIOUS
<1>1. ASSUME EndOfOptions PROVE FiltersInv'
  <2>1. /\ pc = "options" /\ opts = <<>> /\ UNCHANGED <<args, tree, current>>
        /\ pc' \in {"exit", "files"}
    BY <1>1 DEF EndOfOptions, Exit, argvars, filevars
  <2>2. CASE pc' = "files"
    <3>1. /\ filters' = DefaultFilters \o parsed.filters /\ verbose_level' = parsed.verbosity
          /\ Signed(filters')
      BY <1>1, <2>2 DEF EndOfOptions, Exit, SetFilters, Raised
    <3>2. PICK k \in 0..Len(args.options) : OptionsSeen(k)
      BY <2>1 DEF OptionsInv
    <3>3. IsOptions(args.options, "--filter") /\ DOMAIN args.options = 1..Len(args.options)
      BY ArgsType DEF TypeInv, IsOptions
    <3>4. k = Len(args.options)
      <4>1. SubSeq(args.options, k + 1, Len(args.options)) = <<>>
        BY <3>2, <2>1 DEF OptionsSeen
      <4>2. QED BY <4>1, <3>3, SuffixStep
    <3>5. \A name : UpTo(Given(name), k) = Given(name)
      BY <3>3, <3>4 DEF UpTo, Given
    <3>6. parsed.filters = FlagFilters /\ parsed.verbosity = Verbosity
      BY <3>2, <3>5 DEF OptionsSeen, FlagFilters, Verbosity
    <3>7. Base' = Base /\ Verbosity' = Verbosity
      BY <2>1, Same DEF SameFile
    <3>8. filters' = Base' /\ verbose_level' = Verbosity'
      BY <3>1, <3>6, <3>7 DEF Base
    <3>9. Signed(Base)'
      BY <3>1, <3>8 DEF Signed
    <3>10. QED BY <2>2, <3>8, <3>9 DEF FiltersInv, InFile, InData
  <2>3. CASE pc' = "exit"
    BY <2>3 DEF FiltersInv, InFile, InData
  <2>4. QED BY <2>1, <2>2, <2>3
<1>2. ASSUME StartFile PROVE FiltersInv'
  <2>1. /\ pc = "files" /\ pc' = "config" /\ UNCHANGED <<args, tree, filters, verbose_level>>
        /\ filters_backup' = filters
    BY <1>2 DEF StartFile, BackupFilters, argvars, flagvars
  <2>2. Base' = Base /\ Verbosity' = Verbosity
    BY <2>1 DEF Base, FlagFilters, Verbosity, LastOf, Given
  <2>3. QED BY <2>1, <2>2 DEF FiltersInv, InFile, InData, Signed
<1>3. ASSUME SameFile, UNCHANGED <<filters, filters_backup, verbose_level>>,
             \/ pc' = pc \/ pc' = "exit"
             \/ pc \in {"read"} \cup InData /\ pc' \in {"read"} \cup InData
      PROVE  FiltersInv'
  <2>1. /\ File' = File /\ Base' = Base /\ Verbosity' = Verbosity
        /\ RulesOf(File)' = RulesOf(File)
    BY <1>3, Same
  <2>2. QED BY <1>3, <2>1 DEF FiltersInv, InFile, InData, Signed
<1>4. ASSUME SameFile, filters' = filters_backup,
             UNCHANGED <<filters_backup, verbose_level>>, pc \in InFile, pc' = "files"
      PROVE  FiltersInv'
  <2>1. Base' = Base /\ Verbosity' = Verbosity
    BY <1>4, Same
  <2>2. QED BY <1>4, <2>1 DEF FiltersInv, InFile, InData, Signed
<1>5. ASSUME ApplyConfigFilters PROVE FiltersInv'
  <2>1. /\ pc = "config" /\ SameFile /\ UNCHANGED <<filters_backup, verbose_level>>
        /\ filters' = filters \o Latest(config.cfg_filters)
        /\ config.lines = <<>> /\ ~ (config.keep_looking /\ config.path # <<>>)
        /\ pc' = "exit" \/ (pc' = "read" /\ Signed(filters'))
    BY <1>5 DEF ApplyConfigFilters, AddFilters, Latest, Raised, Exit, SameFile, argvars,
         filevars, flagvars
  <2>2. Latest(config.cfg_filters) = Inherited(File.path)[Len(File.path) - 1]
    BY <2>1, ConfigEnds
  <2>3. filters' = RulesOf(File)
    BY <2>1, <2>2 DEF FiltersInv, RulesOf, Base
  <2>4. /\ RulesOf(File)' = RulesOf(File) /\ Base' = Base /\ Verbosity' = Verbosity
    BY <2>1, Same
  <2>5. Signed(Base)' /\ (Signed(filters') <=> Signed(filters)')
    BY <2>1, <2>4 DEF FiltersInv, InFile, Signed
  <2>6. QED BY <2>1, <2>3, <2>4, <2>5 DEF FiltersInv, InFile, InData
<1>6. ASSUME Arguments, ~ EndOfOptions PROVE FiltersInv'
  BY <1>3, <1>6 DEF Arguments, StopAtOption, ParseOption, SetGlobal, NextOption, Exit, SameFile,
       argvars, filevars, statevars, flagvars, filtervars
<1>7. ASSUME OpenConfig \/ ConfigRule \/ ConfigSetting PROVE FiltersInv'
  BY <1>3, <1>7 DEF OpenConfig, ConfigRule, ConfigSetting, ConfigLine, SameFile,
       argvars, filevars, statevars, flagvars, filtervars
<1>8. ASSUME ExcludeFiles PROVE FiltersInv'
  BY <1>3, <1>4, <1>8 DEF ExcludeFiles, ConfigLine, RestoreFilters, SameFile, InFile, 
       argvars, flagvars
<1>9. ASSUME ReadFile PROVE FiltersInv'
  BY <1>3, <1>4, <1>9 DEF ReadFile, RestoreFilters, SameFile, InFile, InData, argvars, flagvars
<1>10. ASSUME CallError \/ ParseGuardLine \/ BeforeLines \/ ProcessLine \/ AfterLines \/ EndRun
       PROVE  FiltersInv'
  BY <1>3, <1>10 DEF CallError, ParseGuardLine, BeforeLines, ProcessLine, AfterLines, EndRun, Exit,
       SameFile, InData, argvars, filevars, statevars, flagvars, filtervars
<1>11. ASSUME EndFile PROVE FiltersInv'
  BY <1>4, <1>11 DEF EndFile, RestoreFilters, SameFile, InFile, argvars, filevars, flagvars
<1>12. ASSUME UNCHANGED vars PROVE FiltersInv'
  BY <1>3, <1>12 DEF vars, SameFile, argvars, filevars, statevars, flagvars, filtervars
<1>13. QED
  BY <1>1, <1>2, <1>5, <1>6, <1>7, <1>8, <1>9, <1>10, <1>11, <1>12 DEF Next, Config, FileData

-----------------------------------------------------------------------------
(* NOLINT comments and directives. *)

(* What the NOLINT comment of line n suppresses. *)
Waivers(n) ==
  LET marker == File.lines[n].nolint
  IN  IF marker.kind # "none" /\ marker.category \in Categories \cup {ALL}
        THEN {<<marker.category, IF marker.kind = "nextline" THEN n + 1 ELSE n>>}
        ELSE {}

(* What the directives of a file suppress. *)
DirectivesOf(f) ==
  (IF "c" \in f.directives THEN CSuppressed ELSE {})
    \cup (IF "kernel" \in f.directives THEN KernelSuppressed ELSE {})

(* The guard lines in a list of findings, each of them once. *)
NolintsIn(s) == {x \in ToSet(s) : ParsesNolint(x)}

NolintOnce(s) ==
  \A i, j \in 1..Len(s) : ParsesNolint(s[i]) /\ ParsesNolint(s[j]) /\ s[i] = s[j] => i = j

(* The guard lines that are still to be parsed are some of the file's. *)
GuardAhead ==
  /\ NolintsIn(pending) \subseteq
       IF pc = "lines" /\ IsHeaderExtension THEN NolintsIn(File.guard) ELSE {}
  /\ NolintOnce(pending)

(* What is suppressed comes from the lines read so far and the directives, *)
(* all of this file.                                                       *)
WaiversRead ==
  /\ lineno \in 0..Len(File.lines)
  /\ error_suppressions = UNION {Waivers(n) : n \in LinesRead}
  /\ pc = "directives" =>
       /\ lineno = 0 /\ global_error_suppressions = {}
       /\ \A x \in ToSet(pending) : x.category \notin CSuppressed \cup KernelSuppressed
  /\ pc # "directives" => global_error_suppressions = DirectivesOf(File)

NolintInv ==
  pc \in InData =>
    /\ GuardAhead
    /\ HasExtension => WaiversRead
    /\ ~ HasExtension => pc = "done" /\ pending = <<>>

AnyFinding == Findings \cup GuardLines

(* The members of a list are its head and those of its tail. *)
LEMMA SetFacts ==
  /\ \A S : \A s \in Seq(S) : ToSet(s) = {s[i] : i \in 1..Len(s)}
  /\ \A S : \A s \in Seq(S) :
       s # <<>> => ToSet(s) = {Head(s)} \cup ToSet(Tail(s))
  /\ \A S : \A s, t \in Seq(S) : ToSet(s \o t) = ToSet(s) \cup ToSet(t)
<1>1. ASSUME NEW S, NEW s \in Seq(S) PROVE ToSet(s) = {s[i] : i \in 1..Len(s)}
  BY DEF ToSet
<1>2. ASSUME NEW S, NEW s \in Seq(S), s # <<>> PROVE ToSet(s) = {Head(s)} \cup ToSet(Tail(s))
  <2>1. /\ Tail(s) \in Seq(S) /\ Len(Tail(s)) = Len(s) - 1 /\ Len(s) \in Nat /\ Len(s) # 0
        /\ \A i \in 1..Len(Tail(s)) : Tail(s)[i] = s[i + 1]
        /\ Head(s) = s[1]
    BY <1>2
  <2>2. ASSUME NEW i \in 1..Len(s) PROVE s[i] \in {Head(s)} \cup ToSet(Tail(s))
    <3>1. CASE i = 1
      BY <2>1, <3>1
    <3>2. CASE i # 1
      <4>1. i - 1 \in 1..Len(Tail(s)) /\ (i - 1) + 1 = i
        BY <2>1, <3>2
      <4>2. Tail(s)[i - 1] = s[i]
        BY <2>1, <4>1
      <4>3. Tail(s)[i - 1] \in ToSet(Tail(s))
        BY <2>1, <4>1, <1>1
      <4>4. QED BY <4>2, <4>3
    <3>3. QED BY <3>1, <3>2
  <2>3. Head(s) \in ToSet(s)
    <3>1. 1 \in 1..Len(s)
      BY <2>1
    <3>2. QED BY <2>1, <3>1, <1>1
  <2>4. ASSUME NEW i \in 1..Len(Tail(s)) PROVE Tail(s)[i] \in ToSet(s)
    <3>1. i + 1 \in 1..Len(s)
      BY <2>1
    <3>2. QED BY <2>1, <3>1, <1>1
  <2>5. ToSet(s) = {s[i] : i \in 1..Len(s)}
    BY <1>1
  <2>6. ToSet(Tail(s)) = {Tail(s)[i] : i \in 1..Len(Tail(s))}
    <3> DEFINE t == Tail(s)
    <3>1. t \in Seq(S)
      BY <2>1
    <3> HIDE DEF t
    <3>2. ToSet(t) = {t[i] : i \in 1..Len(t)}
      BY <3>1, <1>1
    <3>3. QED BY <3>2 DEF t
  <2>7. QED BY <2>2, <2>3, <2>4, <2>5, <2>6
<1>3. ASSUME NEW S, NEW s \in Seq(S), NEW t \in Seq(S)
      PROVE  ToSet(s \o t) = ToSet(s) \cup ToSet(t)
  <2>1. Range(s \o t) = Range(s) \cup Range(t)
    BY RangeConcatenation
  <2>2. \A r : Range(r) = ToSet(r)
    BY DEF Range, ToSet
  <2>3. QED BY <2>1, <2>2
<1>4. QED BY <1>1, <1>2, <1>3

(* Guard lines are parsed from the front, and findings put in front of     *)
(* them change nothing.                                                    *)
LEMMA NolintFacts ==
  /\ \A s \in Seq(Findings) : NolintsIn(s) = {} /\ NolintOnce(s)
  /\ \A s \in Seq(AnyFinding) : s # <<>> /\ NolintOnce(s) =>
       /\ NolintOnce(Tail(s))
       /\ ParsesNolint(Head(s)) =>
            NolintsIn(Tail(s)) = NolintsIn(s) \ {Head(s)} /\ Head(s) \in NolintsIn(s)
       /\ ~ ParsesNolint(Head(s)) => NolintsIn(Tail(s)) = NolintsIn(s)
  /\ \A s \in Seq(Findings), t \in Seq(AnyFinding) :
       /\ NolintsIn(s \o t) = NolintsIn(t)
       /\ NolintOnce(t) => NolintOnce(s \o t)
<1>1. ASSUME NEW s \in Seq(Findings) PROVE NolintsIn(s) = {} /\ NolintOnce(s)
  BY FoundType, SetFacts DEF NolintsIn, NolintOnce
<1>2. ASSUME NEW s \in Seq(AnyFinding), s # <<>>, NolintOnce(s)
      PROVE  /\ NolintOnce(Tail(s))
             /\ ParsesNolint(Head(s)) =>
                  NolintsIn(Tail(s)) = NolintsIn(s) \ {Head(s)} /\ Head(s) \in NolintsIn(s)
             /\ ~ ParsesNolint(Head(s)) => NolintsIn(Tail(s)) = NolintsIn(s)
  <2>1. /\ Tail(s) \in Seq(AnyFinding) /\ Len(Tail(s)) = Len(s) - 1 /\ Len(s) \in Nat /\ Len(s) # 0
        /\ \A i \in 1..Len(Tail(s)) : Tail(s)[i] = s[i + 1]
        /\ Head(s) = s[1]
    BY <1>2
  <2>2. ToSet(s) = {Head(s)} \cup ToSet(Tail(s))
    BY <1>2, SetFacts
  <2>3. ASSUME NEW i \in 1..Len(Tail(s)), NEW j \in 1..Len(Tail(s)),
               ParsesNolint(Tail(s)[i]), ParsesNolint(Tail(s)[j]), Tail(s)[i] = Tail(s)[j]
        PROVE  i = j
    <3>1. i + 1 \in 1..Len(s) /\ j + 1 \in 1..Len(s) /\ i \in Nat /\ j \in Nat
      BY <2>1
    <3>2. i + 1 = j + 1
      BY <2>1, <2>3, <3>1, <1>2 DEF NolintOnce
    <3>3. QED BY <3>1, <3>2
  <2>4. ASSUME ParsesNolint(Head(s)) PROVE Head(s) \notin ToSet(Tail(s))
    <3>0. ToSet(Tail(s)) = {Tail(s)[i] : i \in 1..Len(Tail(s))}
      <4> DEFINE t == Tail(s)
      <4>1. t \in Seq(AnyFinding)
        BY <2>1
      <4> HIDE DEF t
      <4>2. ToSet(t) = {t[i] : i \in 1..Len(t)}
        BY <4>1, SetFacts
      <4>3. QED BY <4>2 DEF t
    <3> SUFFICES ASSUME NEW i \in 1..Len(Tail(s)), Tail(s)[i] = Head(s) PROVE FALSE
      BY <3>0
    <3>1. i + 1 \in 1..Len(s) /\ 1 \in 1..Len(s) /\ i + 1 # 1
      BY <2>1
    <3>2. s[i + 1] = s[1]
      BY <2>1
    <3>3. QED BY <2>1, <2>4, <3>1, <3>2, <1>2 DEF NolintOnce
  <2>5. NolintOnce(Tail(s))
    BY <2>3 DEF NolintOnce
  <2>6. QED BY <2>2, <2>4, <2>5 DEF NolintsIn
<1>3. ASSUME NEW s \in Seq(Findings), NEW t \in Seq(AnyFinding)
      PROVE  /\ NolintsIn(s \o t) = NolintsIn(t)
             /\ NolintOnce(t) => NolintOnce(s \o t)
  <2>1. s \in Seq(AnyFinding)
    BY FoundType DEF AnyFinding
  <2>2. NolintsIn(s \o t) = NolintsIn(t)
    BY <2>1, <1>1, SetFacts DEF NolintsIn
  <2>3. ASSUME NolintOnce(t), NEW i \in 1..Len(s \o t), NEW j \in 1..Len(s \o t),
               ParsesNolint((s \o t)[i]), ParsesNolint((s \o t)[j]), (s \o t)[i] = (s \o t)[j]
        PROVE  i = j
    <3>1. /\ Len(s) \in Nat /\ Len(t) \in Nat /\ Len(s \o t) = Len(s) + Len(t)
          /\ \A k \in 1..(Len(s) + Len(t)) :
               (s \o t)[k] = IF k <= Len(s) THEN s[k] ELSE t[k - Len(s)]
      BY <2>1, ConcatProperties
    <3>2. \A k \in 1..Len(s) : ~ ParsesNolint(s[k])
      BY FoundType
    <3>3. i \in Nat /\ j \in Nat /\ i <= Len(s) + Len(t) /\ j <= Len(s) + Len(t) /\ i >= 1 /\ j >= 1
      BY <3>1
    <3>4. ~ (i <= Len(s)) /\ ~ (j <= Len(s))
      <4>1. ASSUME NEW k \in 1..(Len(s) + Len(t)), k <= Len(s) PROVE ~ ParsesNolint((s \o t)[k])
        <5>1. k \in 1..Len(s)
          BY <4>1, <3>1
        <5>2. QED BY <4>1, <5>1, <3>1, <3>2
      <4>2. QED BY <4>1, <2>3, <3>1
    <3>5. i - Len(s) \in 1..Len(t) /\ j - Len(s) \in 1..Len(t)
      BY <3>1, <3>3, <3>4
    <3>6. (s \o t)[i] = t[i - Len(s)] /\ (s \o t)[j] = t[j - Len(s)]
      BY <3>1, <3>4
    <3>7. i - Len(s) = j - Len(s)
      BY <3>5, <3>6, <2>3 DEF NolintOnce
    <3>8. QED BY <3>1, <3>3, <3>7
  <2>4. QED BY <2>2, <2>3 DEF NolintOnce
<1>4. QED BY <1>1, <1>2, <1>3

(* The guard lines that were parsed. *)
GuardRead ==
  IF pc \in {"lines", "done"} /\ IsHeaderExtension
    THEN {e.line : e \in NolintsIn(File.guard) \ NolintsIn(pending)} ELSE {}

(* The lines read are those whose turn came and those of the guard. *)
LEMMA ReadIs == LinesRead = 1..lineno \cup GuardRead
<1>1. {g \in ToSet(File.guard) : ParsesNolint(g)} \ ToSet(pending)
        = NolintsIn(File.guard) \ NolintsIn(pending)
  BY DEF NolintsIn
<1>2. QED BY <1>1 DEF LinesRead, GuardRead

(* What IsFile says of a file's lines, guard and copyright findings. *)
LEMMA FileFacts ==
  ASSUME IsFile(File)
  PROVE  /\ Len(File.lines) \in Nat
         /\ \A n \in 1..Len(File.lines) : File.lines[n].nolint \in Markers
         /\ File.guard \in Seq(AnyFinding) /\ NolintOnce(File.guard)
         /\ \A e \in NolintsIn(File.guard) : e.line \in 1..Len(File.lines)
         /\ File.copyright \in Seq(Findings) /\ File.comments \in Seq(Findings)
         /\ \A x \in ToSet(File.copyright) : x.category \notin CSuppressed \cup KernelSuppressed
<1>1. /\ File.lines \in Seq(Lines) /\ File.copyright \in Seq(Findings)
      /\ File.comments \in Seq(Findings) /\ File.guard \in Seq(AnyFinding)
  BY DEF IsFile, SourceFiles, AnyFinding
<1>2. Len(File.lines) \in Nat /\ DOMAIN File.lines = 1..Len(File.lines)
  BY <1>1
<1>3. ASSUME NEW n \in 1..Len(File.lines) PROVE File.lines[n].nolint \in Markers
  BY LineType
<1>4. NolintOnce(File.guard)
  <2>1. DOMAIN File.guard = 1..Len(File.guard)
    BY <1>1
  <2>2. ASSUME NEW i \in 1..Len(File.guard), NEW j \in 1..Len(File.guard),
               ParsesNolint(File.guard[i]), ParsesNolint(File.guard[j]),
               File.guard[i] = File.guard[j]
        PROVE  i = j
    <3>1. i \in GuardLinesOf(File) /\ j \in GuardLinesOf(File)
      BY <2>1, <2>2 DEF GuardLinesOf, ParsesNolint
    <3>2. QED BY <2>2, <3>1 DEF IsFile
  <2>3. QED BY <2>2 DEF NolintOnce
<1>5. ASSUME NEW e \in NolintsIn(File.guard) PROVE e.line \in 1..Len(File.lines)
  <2>1. PICK i \in DOMAIN File.guard : e = File.guard[i]
    BY DEF NolintsIn, ToSet
  <2>2. i \in GuardLinesOf(File)
    BY <2>1 DEF GuardLinesOf, NolintsIn, ParsesNolint
  <2>3. QED BY <1>2, <2>1, <2>2 DEF IsFile
<1>6. \A x \in ToSet(File.copyright) : x.category \notin CSuppressed \cup KernelSuppressed
  BY DEF IsFile, ToSet
<1>7. QED BY <1>1, <1>2, <1>3, <1>4, <1>5, <1>6

SameData == UNCHANGED <<args, tree, current, settings>>

(* With the file and the settings the extensions stay. *)
LEMMA SameFacts ==
  ASSUME SameData
  PROVE  /\ File' = File /\ HasExtension' = HasExtension
         /\ IsHeaderExtension' = IsHeaderExtension
         /\ \A n : Waivers(n)' = Waivers(n)
BY DEF SameData, File, HasExtension, IsHeaderExtension, Waivers

(* A new file begins with nothing suppressed. *)
LEMMA NolintRead == TypeInv /\ TypeInv' /\ ReadFile /\ pc' \in InData => NolintInv'
<1> SUFFICES ASSUME TypeInv, TypeInv', ReadFile, pc' \in InData PROVE NolintInv'
  OBVIOUS
<1>1. /\ pc = "read" /\ File.readable /\ SameData /\ lineno' = 0
      /\ pc' = IF HasExtension THEN "directives" ELSE "done"
      /\ HasExtension => ResetNolintSuppressions /\ pending' = File.copyright
      /\ ~ HasExtension => pending' = pending
  BY DEF ReadFile, SameData, argvars, InData
<1>2. IsFile(File) /\ pending = <<>>
  BY <1>1, FileType DEF TypeInv, InFile, InData
<1>3. File' = File /\ HasExtension' = HasExtension
  BY <1>1, SameFacts
<1>4. pending' \in Seq(Findings)
  <2>1. <<>> \in Seq(Findings)
    OBVIOUS
  <2>2. QED BY <1>1, <1>2, <2>1, FileFacts
<1>5. GuardAhead'
  BY <1>4, NolintFacts DEF GuardAhead
<1>6. CASE HasExtension
  <2>1. pc' = "directives" /\ pending' = File.copyright
    BY <1>1, <1>6
  <2>2. LinesRead' = {}
    BY <1>1, <2>1 DEF LinesRead
  <2>3. error_suppressions' = {} /\ global_error_suppressions' = {}
    BY <1>1, <1>6 DEF ResetNolintSuppressions
  <2>4. (error_suppressions = UNION {Waivers(n) : n \in LinesRead})'
    BY <2>2, <2>3
  <2>5. (lineno \in 0..Len(File.lines))'
    BY <1>1, <1>2, <1>3, FileFacts
  <2>6. WaiversRead'
    BY <1>1, <1>2, <1>3, <2>1, <2>3, <2>4, <2>5, FileFacts DEF WaiversRead
  <2>7. QED BY <1>3, <1>5, <1>6, <2>6 DEF NolintInv
<1>7. CASE ~ HasExtension
  BY <1>1, <1>2, <1>3, <1>5, <1>7 DEF NolintInv
<1>8. QED BY <1>6, <1>7

(* A call of Error suppresses nothing. *)
LEMMA NolintCall == TypeInv /\ NolintInv /\ CallError => NolintInv'
<1> SUFFICES ASSUME TypeInv, NolintInv, CallError PROVE NolintInv'
  OBVIOUS
<1>1. /\ pending # <<>> /\ ~ ParsesNolint(Head(pending)) /\ pending' = Tail(pending)
      /\ SameData /\ UNCHANGED <<pc, lineno, error_suppressions, global_error_suppressions>>
  BY DEF CallError, SameData, argvars, filevars, nolintvars
<1>2. pc \in InData /\ pending \in Seq(AnyFinding)
  BY <1>1 DEF TypeInv, AnyFinding
<1>3. GuardAhead /\ HasExtension /\ WaiversRead
  BY <1>1, <1>2 DEF NolintInv
<1>4. /\ File' = File /\ HasExtension' = HasExtension /\ IsHeaderExtension' = IsHeaderExtension
      /\ \A n : Waivers(n)' = Waivers(n)
  BY <1>1, SameFacts
<1>5. NolintsIn(pending') = NolintsIn(pending) /\ NolintOnce(pending')
  BY <1>1, <1>2, <1>3, NolintFacts DEF GuardAhead
<1>6. (NolintsIn(pending))' = NolintsIn(pending)
  BY <1>5 DEF NolintsIn
<1>7. GuardAhead'
  BY <1>1, <1>3, <1>4, <1>5 DEF GuardAhead
<1>8. LinesRead' = LinesRead
  <2>1. GuardRead' = GuardRead
    BY <1>1, <1>4, <1>5 DEF GuardRead
  <2>2. (LinesRead = 1..lineno \cup GuardRead)'
    BY ReadIs, PTL
  <2>3. QED BY <1>1, <2>1, <2>2, ReadIs
<1>9. ToSet(pending') \subseteq ToSet(pending)
  BY <1>1, <1>2, SetFacts
<1>10. (error_suppressions = UNION {Waivers(n) : n \in LinesRead})'
  BY <1>1, <1>3, <1>4, <1>8 DEF WaiversRead
<1>11. DirectivesOf(File)' = DirectivesOf(File)
  BY <1>4 DEF DirectivesOf
<1>12. WaiversRead'
  BY <1>1, <1>3, <1>4, <1>9, <1>10, <1>11 DEF WaiversRead
<1>13. QED BY <1>1, <1>4, <1>3, <1>7, <1>12 DEF NolintInv

(* ReadIs, for the state after a step. *)
LEMMA ReadNext == (LinesRead = 1..lineno \cup GuardRead)'
BY ReadIs, PTL

(* Parsing a guard line adds what that line suppresses. *)
LEMMA NolintGuard == TypeInv /\ NolintInv /\ ParseGuardLine => NolintInv'
<1> SUFFICES ASSUME TypeInv, NolintInv, ParseGuardLine PROVE NolintInv'
  OBVIOUS
<1> DEFINE e == Head(pending)
           errors == NolintErrors(File.lines[e.line].nolint, e.line)
<1>1. /\ pending # <<>> /\ ParsesNolint(e) /\ pending' = errors \o Tail(pending)
      /\ SameData /\ UNCHANGED <<pc, lineno, global_error_suppressions>>
      /\ ParseNolintSuppressions(File.lines[e.line].nolint, e.line)
  BY DEF ParseGuardLine, SameData, argvars, filevars
<1>2. pc \in InData /\ pending \in Seq(AnyFinding) /\ Tail(pending) \in Seq(AnyFinding)
  <2>1. pc \in InData /\ pending \in Seq(AnyFinding)
    BY <1>1 DEF TypeInv, AnyFinding
  <2>2. QED BY <1>1, <2>1, HeadTailProperties
<1>3. GuardAhead /\ HasExtension /\ WaiversRead
  BY <1>1, <1>2 DEF NolintInv
<1>4. /\ File' = File /\ HasExtension' = HasExtension /\ IsHeaderExtension' = IsHeaderExtension
      /\ \A n : Waivers(n)' = Waivers(n)
  BY <1>1, SameFacts
<1>5. /\ NolintOnce(Tail(pending)) /\ e \in NolintsIn(pending)
      /\ NolintsIn(Tail(pending)) = NolintsIn(pending) \ {e}
  BY <1>1, <1>2, <1>3, NolintFacts DEF GuardAhead
<1>6. /\ pc = "lines" /\ IsHeaderExtension /\ e \in NolintsIn(File.guard)
      /\ NolintsIn(pending) \subseteq NolintsIn(File.guard)
  BY <1>3, <1>5 DEF GuardAhead
<1>7. IsFile(File)
  BY <1>6, FileType DEF TypeInv, InFile
<1>8. e.line \in 1..Len(File.lines) /\ e.line \in Nat
  <2>1. e.line \in 1..Len(File.lines) /\ Len(File.lines) \in Nat
    BY <1>6, <1>7, FileFacts
  <2>2. QED BY <2>1
<1>9. errors \in Seq(Findings)
  BY <1>8, NolintType
<1> HIDE DEF errors, e
<1>10. NolintsIn(pending') = NolintsIn(pending) \ {e} /\ NolintOnce(pending')
  BY <1>1, <1>2, <1>5, <1>9, NolintFacts
<1>11. /\ NolintsIn(pending)' = NolintsIn(pending) \ {e}
       /\ NolintsIn(File.guard)' = NolintsIn(File.guard)
  BY <1>4, <1>10 DEF NolintsIn
<1>12. GuardAhead'
  BY <1>1, <1>4, <1>6, <1>10, <1>11 DEF GuardAhead
<1>13. GuardRead' = GuardRead \cup {e.line}
  BY <1>1, <1>4, <1>5, <1>6, <1>11 DEF GuardRead
<1>14. LinesRead' = LinesRead \cup {e.line}
  BY <1>1, <1>13, ReadIs, ReadNext
<1>15. error_suppressions' = error_suppressions \cup Waivers(e.line)
  BY <1>1 DEF ParseNolintSuppressions, Waivers
<1>16. (error_suppressions = UNION {Waivers(n) : n \in LinesRead})'
  BY <1>3, <1>4, <1>14, <1>15 DEF WaiversRead
<1>17. DirectivesOf(File)' = DirectivesOf(File)
  BY <1>4 DEF DirectivesOf
<1>18. WaiversRead'
  BY <1>1, <1>3, <1>4, <1>6, <1>16, <1>17 DEF WaiversRead
<1>19. QED BY <1>3, <1>4, <1>12, <1>18 DEF NolintInv

(* The directives are read once, after the copyright was looked for. *)
LEMMA NolintBefore == TypeInv /\ TypeInv' /\ NolintInv /\ BeforeLines => NolintInv'
<1> SUFFICES ASSUME TypeInv, TypeInv', NolintInv, BeforeLines PROVE NolintInv'
  OBVIOUS
<1>1. /\ pc = "directives" /\ pc' = "lines" /\ pending = <<>>
      /\ pending' = File.comments \o (IF IsHeaderExtension THEN File.guard ELSE <<>>)
      /\ SameData /\ UNCHANGED <<lineno, error_suppressions>>
      /\ ProcessGlobalSuppresions(File.directives)
  BY DEF BeforeLines, SameData, argvars, filevars
<1>2. IsFile(File) /\ pc \in InData
  BY <1>1, FileType DEF TypeInv, InFile, InData
<1>3. GuardAhead /\ HasExtension /\ WaiversRead
  BY <1>1, <1>2 DEF NolintInv
<1>4. /\ File' = File /\ HasExtension' = HasExtension /\ IsHeaderExtension' = IsHeaderExtension
      /\ \A n : Waivers(n)' = Waivers(n)
  BY <1>1, SameFacts
<1> DEFINE guard == IF IsHeaderExtension THEN File.guard ELSE <<>>
<1>5. guard \in Seq(AnyFinding) /\ NolintOnce(guard) /\ File.comments \in Seq(Findings)
  <2>1. <<>> \in Seq(Findings) /\ <<>> \in Seq(AnyFinding)
    OBVIOUS
  <2>2. QED BY <1>2, <2>1, FileFacts, NolintFacts
<1>6. NolintsIn(guard) = IF IsHeaderExtension THEN NolintsIn(File.guard) ELSE {}
  <2>1. <<>> \in Seq(Findings)
    OBVIOUS
  <2>2. QED BY <2>1, NolintFacts
<1>7. pending' = File.comments \o guard
  BY <1>1
<1> HIDE DEF guard
<1>8. NolintsIn(pending') = NolintsIn(guard) /\ NolintOnce(pending')
  BY <1>5, <1>7, NolintFacts
<1>9. GuardAhead'
  <2>1. NolintsIn(pending)' = NolintsIn(guard) /\ NolintsIn(File.guard)' = NolintsIn(File.guard)
    BY <1>4, <1>8 DEF NolintsIn
  <2>2. QED BY <1>1, <1>4, <1>6, <1>8, <2>1 DEF GuardAhead
<1>10. lineno = 0 /\ global_error_suppressions = {}
  BY <1>1, <1>3 DEF WaiversRead
<1>11. LinesRead = {} /\ LinesRead' = {}
  <2>1. NolintsIn(pending)' = NolintsIn(guard) /\ NolintsIn(File.guard)' = NolintsIn(File.guard)
    BY <1>4, <1>8 DEF NolintsIn
  <2>2. GuardRead = {} /\ GuardRead' = {}
    BY <1>1, <1>4, <1>6, <2>1 DEF GuardRead
  <2>3. QED BY <1>1, <1>10, <2>2, ReadIs, ReadNext
<1>12. (error_suppressions = UNION {Waivers(n) : n \in LinesRead})'
  BY <1>1, <1>3, <1>11 DEF WaiversRead
<1>13. global_error_suppressions' = DirectivesOf(File)'
  <2>1. DirectivesOf(File)' = DirectivesOf(File)
    BY <1>4 DEF DirectivesOf
  <2>2. QED BY <1>1, <1>10, <2>1 DEF ProcessGlobalSuppresions, DirectivesOf
<1>14. WaiversRead'
  BY <1>1, <1>3, <1>4, <1>12, <1>13 DEF WaiversRead
<1>15. QED BY <1>3, <1>4, <1>9, <1>14 DEF NolintInv

(* Each line adds what it suppresses. *)
LEMMA NolintLine == TypeInv /\ TypeInv' /\ NolintInv /\ ProcessLine => NolintInv'
<1> SUFFICES ASSUME TypeInv, TypeInv', NolintInv, ProcessLine PROVE NolintInv'
  OBVIOUS
<1> DEFINE n == lineno + 1
<1>1. /\ pc = "lines" /\ pc' = "lines" /\ pending = <<>> /\ lineno < Len(File.lines)
      /\ pending' = NolintErrors(File.lines[n].nolint, n) \o TooLong(File.lines[n], n)
                      \o File.lines[n].errors
      /\ SameData /\ lineno' = n /\ UNCHANGED global_error_suppressions
      /\ ParseNolintSuppressions(File.lines[n].nolint, n)
  BY DEF ProcessLine, SameData, argvars
<1>2. IsFile(File) /\ pc \in InData
  BY <1>1, FileType DEF TypeInv, InFile, InData
<1>3. GuardAhead /\ HasExtension /\ WaiversRead
  BY <1>1, <1>2 DEF NolintInv
<1>4. /\ File' = File /\ HasExtension' = HasExtension /\ IsHeaderExtension' = IsHeaderExtension
      /\ \A k : Waivers(k)' = Waivers(k)
  BY <1>1, SameFacts
<1>5. lineno \in Nat /\ Len(File.lines) \in Nat /\ n \in 1..Len(File.lines)
  <2>1. lineno \in Nat /\ Len(File.lines) \in Nat
    BY <1>2, FileFacts DEF TypeInv
  <2>2. QED BY <1>1, <2>1
<1>6. 1..n = (1..lineno) \cup {n} /\ n \in 0..Len(File.lines)
  BY <1>5
<1> HIDE DEF n
<1>7. pending' \in Seq(Findings)
  BY <1>1, <1>2, <1>5, LineType
<1>8. NolintsIn(pending') = {} /\ NolintOnce(pending') /\ NolintsIn(pending) = {}
  <2>1. <<>> \in Seq(Findings)
    OBVIOUS
  <2>2. QED BY <1>1, <1>7, <2>1, NolintFacts
<1>9. NolintsIn(pending)' = {} /\ NolintsIn(File.guard)' = NolintsIn(File.guard)
  BY <1>4, <1>8 DEF NolintsIn
<1>10. GuardAhead'
  BY <1>8, <1>9 DEF GuardAhead
<1>11. GuardRead' = GuardRead
  BY <1>1, <1>4, <1>8, <1>9 DEF GuardRead
<1>12. LinesRead' = LinesRead \cup {n}
  BY <1>1, <1>6, <1>11, ReadIs, ReadNext
<1>13. error_suppressions' = error_suppressions \cup Waivers(n)
  BY <1>1 DEF ParseNolintSuppressions, Waivers
<1>14. (error_suppressions = UNION {Waivers(k) : k \in LinesRead})'
  BY <1>3, <1>4, <1>12, <1>13 DEF WaiversRead
<1>15. DirectivesOf(File)' = DirectivesOf(File)
  BY <1>4 DEF DirectivesOf
<1>16. WaiversRead'
  BY <1>1, <1>3, <1>4, <1>6, <1>14, <1>15 DEF WaiversRead
<1>17. QED BY <1>3, <1>4, <1>10, <1>16 DEF NolintInv

(* The end of the file suppresses nothing. *)
LEMMA NolintAfter == TypeInv /\ TypeInv' /\ NolintInv /\ AfterLines => NolintInv'
<1> SUFFICES ASSUME TypeInv, TypeInv', NolintInv, AfterLines PROVE NolintInv'
  OBVIOUS
<1>1. /\ pc = "lines" /\ pc' = "done" /\ pending = <<>>
      /\ pending' = File.completed \o (IF IsSourceExtension THEN File.header ELSE <<>>)
                      \o File.ending \o CrlfErrors
      /\ SameData /\ UNCHANGED <<lineno, error_suppressions, global_error_suppressions>>
  BY DEF AfterLines, SameData, argvars, filevars, statevars, nolintvars
<1>2. IsFile(File) /\ pc \in InData
  BY <1>1, FileType DEF TypeInv, InFile, InData
<1>3. GuardAhead /\ HasExtension /\ WaiversRead
  BY <1>1, <1>2 DEF NolintInv
<1>4. /\ File' = File /\ HasExtension' = HasExtension /\ IsHeaderExtension' = IsHeaderExtension
      /\ \A k : Waivers(k)' = Waivers(k)
  BY <1>1, SameFacts
<1>5. pending' \in Seq(Findings)
  BY <1>1, <1>2, EndType
<1>6. NolintsIn(pending') = {} /\ NolintOnce(pending') /\ NolintsIn(pending) = {}
  <2>1. <<>> \in Seq(Findings)
    OBVIOUS
  <2>2. QED BY <1>1, <1>5, <2>1, NolintFacts
<1>7. NolintsIn(pending)' = {} /\ NolintsIn(File.guard)' = NolintsIn(File.guard)
  BY <1>4, <1>6 DEF NolintsIn
<1>8. GuardAhead'
  BY <1>6, <1>7 DEF GuardAhead
<1>9. GuardRead' = GuardRead
  BY <1>1, <1>4, <1>6, <1>7 DEF GuardRead
<1>10. LinesRead' = LinesRead
  BY <1>1, <1>9, ReadIs, ReadNext
<1>11. (error_suppressions = UNION {Waivers(k) : k \in LinesRead})'
  BY <1>1, <1>3, <1>4, <1>10 DEF WaiversRead
<1>12. DirectivesOf(File)' = DirectivesOf(File)
  BY <1>4 DEF DirectivesOf
<1>13. WaiversRead'
  BY <1>1, <1>3, <1>4, <1>11, <1>12 DEF WaiversRead
<1>14. QED BY <1>3, <1>4, <1>8, <1>13 DEF NolintInv

(* Nor does a step that changes nothing. *)
LEMMA NolintStays == NolintInv /\ UNCHANGED vars => NolintInv'
<1> SUFFICES ASSUME NolintInv, UNCHANGED vars PROVE NolintInv'
  OBVIOUS
<1>1. /\ SameData
      /\ UNCHANGED <<pc, pending, lineno, error_suppressions, global_error_suppressions>>
  BY DEF SameData, vars, argvars, filevars, statevars, nolintvars
<1>2. /\ File' = File /\ HasExtension' = HasExtension /\ IsHeaderExtension' = IsHeaderExtension
      /\ \A n : Waivers(n)' = Waivers(n)
  BY <1>1, SameFacts
<1>3. /\ NolintsIn(pending)' = NolintsIn(pending) /\ NolintOnce(pending)' = NolintOnce(pending)
      /\ NolintsIn(File.guard)' = NolintsIn(File.guard)
      /\ DirectivesOf(File)' = DirectivesOf(File)
  BY <1>1, <1>2 DEF NolintsIn, NolintOnce, DirectivesOf
<1>4. GuardAhead => GuardAhead'
  BY <1>1, <1>2, <1>3 DEF GuardAhead
<1>5. LinesRead' = LinesRead
  BY <1>1, <1>2 DEF LinesRead
<1>6. WaiversRead => WaiversRead'
  BY <1>1, <1>2, <1>3, <1>5 DEF WaiversRead
<1>7. QED BY <1>1, <1>2, <1>4, <1>6 DEF NolintInv

(* Every step keeps the suppressions to what was read of this file. *)
LEMMA NolintStep == TypeInv /\ TypeInv' /\ NolintInv /\ [Next]_vars => NolintInv'
<1> SUFFICES ASSUME TypeInv, TypeInv', NolintInv, [Next]_vars, pc' \in InData
             PROVE  NolintInv'
  BY DEF NolintInv
<1>1. FileData \/ UNCHANGED vars
  <2>1. ASSUME Arguments PROVE FALSE
    BY <2>1 DEF Arguments, StopAtOption, ParseOption, SetGlobal, EndOfOptions, Option, Exit, InData
  <2>2. ASSUME Config PROVE FALSE
    BY <2>2 DEF Config, OpenConfig, ConfigRule, ConfigSetting, ExcludeFiles, ConfigLine,
         ApplyConfigFilters, Exit, InData
  <2>3. ~ StartFile /\ ~ EndFile /\ ~ EndRun
    BY DEF StartFile, EndFile, EndRun, Exit, InData
  <2>4. QED BY <2>1, <2>2, <2>3 DEF Next
<1>2. QED
  BY <1>1, NolintRead, NolintCall, NolintGuard, NolintBefore, NolintLine, NolintAfter, NolintStays
  DEF FileData

-----------------------------------------------------------------------------
(* Every call of Error. *)

(* One pair of a category and a line against one comment. *)
LEMMA WaiverIs ==
  ASSUME NEW n \in Nat, File.lines[n].nolint \in Markers, NEW c \in Categories \cup {ALL}, NEW l
  PROVE  <<c, l>> \in Waivers(n) <=>
           LET marker == File.lines[n].nolint
           IN  /\ marker.kind # "none" /\ marker.category = c
               /\ l = IF marker.kind = "nextline" THEN n + 1 ELSE n
BY DEF Waivers

(* IsErrorSuppressedByNolint says of the error that is about to be         *)
(* reported what Waived says of the file and the lines read.               *)
LEMMA WaivedIs ==
  ASSUME TypeInv, NolintInv, pending # <<>>, Head(pending) \in Findings
  PROVE  LET e == Head(pending)
         IN  IsErrorSuppressedByNolint(e.category, e.line) <=> Waived(File, e, LinesRead)
<1> DEFINE e == Head(pending)
<1>1. pc \in InData /\ pending \in Seq(AnyFinding)
  BY DEF TypeInv, AnyFinding
<1>2. GuardAhead /\ WaiversRead
  BY <1>1 DEF NolintInv
<1>3. IsFile(File)
  BY <1>1, FileType DEF TypeInv, InFile, InData
<1>4. e \in ToSet(pending)
  BY <1>1, SetFacts
<1>5. e.category \in Categories /\ e.line \in Nat
  BY DEF Findings
<1> HIDE DEF e
<1>6. LinesRead \subseteq 1..Len(File.lines) /\ Len(File.lines) \in Nat
  <2>1. 1..lineno \subseteq 1..Len(File.lines) /\ Len(File.lines) \in Nat
    BY <1>2, <1>3, FileFacts DEF WaiversRead
  <2>2. GuardRead \subseteq 1..Len(File.lines)
    BY <1>3, FileFacts DEF GuardRead
  <2>3. QED BY <2>1, <2>2, ReadIs
<1>7. ASSUME NEW n \in LinesRead
      PROVE  (<<e.category, e.line>> \in Waivers(n) \/ <<ALL, e.line>> \in Waivers(n)) <=>
               /\ File.lines[n].nolint.kind = IF e.line = n THEN "line" ELSE "nextline"
               /\ e.line \in {n, n + 1}
               /\ File.lines[n].nolint.category \in {ALL, e.category}
  <2>1. n \in Nat /\ File.lines[n].nolint \in Markers
    BY <1>3, <1>6, FileFacts
  <2>2. File.lines[n].nolint.kind \in {"none", "line", "nextline"} /\ n # n + 1
    BY <2>1 DEF Markers
  <2>3. \A c \in {ALL, e.category} :
          <<c, e.line>> \in Waivers(n) <=>
            /\ File.lines[n].nolint.kind # "none" /\ File.lines[n].nolint.category = c
            /\ e.line = IF File.lines[n].nolint.kind = "nextline" THEN n + 1 ELSE n
    BY <2>1, <1>5, WaiverIs
  <2>4. QED BY <2>2, <2>3
<1>8. (<<e.category, e.line>> \in error_suppressions \/ <<ALL, e.line>> \in error_suppressions) <=>
        \E n \in LinesRead :
          <<e.category, e.line>> \in Waivers(n) \/ <<ALL, e.line>> \in Waivers(n)
  BY <1>2 DEF WaiversRead
<1>9. e.category \in global_error_suppressions <=>
        \/ "c" \in File.directives /\ e.category \in CSuppressed
        \/ "kernel" \in File.directives /\ e.category \in KernelSuppressed
  <2>1. CASE pc = "directives"
    BY <1>2, <1>4, <2>1 DEF WaiversRead
  <2>2. CASE pc # "directives"
    BY <1>2, <2>2 DEF WaiversRead, DirectivesOf
  <2>3. QED BY <2>1, <2>2
<1>10. IsErrorSuppressedByNolint(e.category, e.line) <=> Waived(File, e, LinesRead)
  BY <1>7, <1>8, <1>9 DEF IsErrorSuppressedByNolint, Waived
<1>11. QED BY <1>10 DEF e

(* JudgedByOwnRules for one call. *)
Judged(r) ==
  LET e == r.error  f == args.files[r.file]
  IN  r.shown <=> /\ ~ Waived(f, e, r.read)
                  /\ e.confidence >= Verbosity
                  /\ Wanted(RulesOf(f), e.category)

(* The calls that were judged so: a set, so that it can be compared across *)
(* a step.                                                                 *)
Rightly == {r \in Calls : Judged(r)}

(* JudgedByOwnRules says that all calls are in that set. *)
LEMMA RightlyIs ==
  TypeInv => (JudgedByOwnRules <=> \A i \in DOMAIN log : log[i] \in Rightly)
<1>1. TypeInv => \A i \in DOMAIN log : log[i] \in Calls
  BY DEF TypeInv
<1>2. JudgedByOwnRules <=> \A i \in DOMAIN log : Judged(log[i])
  BY DEF JudgedByOwnRules, Judged
<1>3. QED BY <1>1, <1>2 DEF Rightly

(* RightlyIs, for the state after a step. *)
LEMMA RightlyNext ==
  (TypeInv => (JudgedByOwnRules <=> \A i \in DOMAIN log : log[i] \in Rightly))'
BY RightlyIs, PTL

(* The rules are those of the command line, the tree and the file alone. *)
LEMMA JudgedSame ==
  ASSUME args' = args, tree' = tree
  PROVE  Rightly' = Rightly
<1>1. ASSUME NEW r PROVE Judged(r)' <=> Judged(r)
  BY DEF Judged, Verbosity, RulesOf, FlagFilters, LastOf, Given, Inherited, NoParent, CfgLines
<1>2. QED BY <1>1 DEF Rightly

(* r is added to the log. *)
Appends(r) ==
  /\ log' = Append(log, r)
  /\ DOMAIN log' = DOMAIN log \cup {Len(log) + 1} /\ Len(log) + 1 \notin DOMAIN log
  /\ log'[Len(log) + 1] = r
  /\ \A i \in DOMAIN log : log'[i] = log[i]
  /\ DOMAIN log = 1..Len(log) /\ Len(log) \in Nat

(* A call of Error adds itself to the log, and is counted if it is         *)
(* printed.                                                                *)
LEMMA CallIs ==
  ASSUME TypeInv, TypeInv', CallError
  PROVE  /\ pending # <<>> /\ Head(pending) \in Findings /\ pc \in InData /\ pc' = pc
         /\ Appends([file |-> current, read |-> LinesRead, error |-> Head(pending),
                     shown |-> (error_count' # error_count)])
         /\ UNCHANGED <<args, tree, current, old_errors, done, quiet, counting>>
         /\ LET e == Head(pending)
            IN  \/ /\ ShouldPrintError(e.category, e.confidence, e.line)
                   /\ IncrementErrorCount(e.category) /\ error_count' # error_count
                \/ /\ ~ ShouldPrintError(e.category, e.confidence, e.line)
                   /\ UNCHANGED countvars /\ error_count' = error_count
<1> DEFINE e == Head(pending)
           r == [file |-> current, read |-> LinesRead, error |-> e,
                 shown |-> (error_count' # error_count)]
<1>1. /\ pending # <<>> /\ e \in Findings /\ pc \in InData /\ pc' = pc
      /\ UNCHANGED <<args, tree, current, old_errors, done, quiet, counting>>
      /\ log' = Append(log, r) /\ Error(e.category, e.confidence, e.line)
  BY FoundType DEF CallError, TypeInv, argvars, filevars, flagvars
<1> HIDE DEF e
<1>2. Appends(r)
  <2> HIDE DEF r
  <2>1. log \in Seq(Calls) /\ Len(log) \in Nat /\ DOMAIN log = 1..Len(log)
    BY DEF TypeInv
  <2> DEFINE S == Calls \cup {r}
  <2>2. log \in Seq(S)
    BY <2>1, SeqMonotonic
  <2>3. r \in S
    OBVIOUS
  <2> HIDE DEF S
  <2>4. /\ DOMAIN log' = 1..(Len(log) + 1) /\ log'[Len(log) + 1] = r
        /\ \A i \in 1..Len(log) : log'[i] = log[i]
    BY <1>1, <2>2, <2>3, <2>1
  <2>5. QED BY <1>1, <2>1, <2>4 DEF Appends
<1>3. \/ /\ ShouldPrintError(e.category, e.confidence, e.line)
         /\ IncrementErrorCount(e.category) /\ error_count' # error_count
      \/ /\ ~ ShouldPrintError(e.category, e.confidence, e.line)
         /\ UNCHANGED countvars /\ error_count' = error_count
  BY <1>1 DEF Error, IncrementErrorCount, TypeInv, countvars
<1>4. QED BY <1>1, <1>2, <1>3 DEF e

(* Every step judges rightly: the filters, the level and the suppressions  *)
(* are the file's own when Error is called.                                *)
LEMMA JudgedStep ==
  TypeInv /\ TypeInv' /\ FiltersInv /\ NolintInv /\ JudgedByOwnRules /\ [Next]_vars
    => JudgedByOwnRules'
<1> SUFFICES ASSUME TypeInv, TypeInv', FiltersInv, NolintInv, JudgedByOwnRules, [Next]_vars
             PROVE  JudgedByOwnRules'
  OBVIOUS
<1>1. \A i \in DOMAIN log : log[i] \in Rightly
  BY RightlyIs
<1>a. SUFFICES \A i \in DOMAIN log' : log'[i] \in Rightly'
  BY RightlyNext
<1>2. CASE CallError
  <2> DEFINE e == Head(pending)
             r == [file |-> current, read |-> LinesRead, error |-> e,
                   shown |-> (error_count' # error_count)]
  <2>1. /\ pending # <<>> /\ e \in Findings /\ pc \in InData /\ UNCHANGED <<args, tree>>
        /\ Appends(r)
        /\ error_count' # error_count <=> ShouldPrintError(e.category, e.confidence, e.line)
    BY <1>2, CallIs
  <2>2. current >= 1
    BY <2>1 DEF TypeInv, InFile, InData
  <2>3. /\ filters = RulesOf(File) /\ Signed(filters) /\ verbose_level = Verbosity
    BY <2>1 DEF FiltersInv, InFile, InData
  <2>4. filters \in Seq(Filters)
    <3>1. Base \in Seq(Filters)
      BY BaseType DEF TypeInv
    <3>2. /\ File.path \in Seq(STRING) /\ File.path # <<>> /\ Cfgs(File.path)
          /\ Len(File.path) - 1 \in 0..(Len(File.path) - 1)
      BY <2>2, PathType
    <3>3. Inherited(File.path)[Len(File.path) - 1] \in Seq(Filters)
      BY <3>2, InheritedStep
    <3>4. QED BY <2>3, <3>1, <3>3 DEF RulesOf, Base
  <2>5. IsFiltered(e.category) <=> ~ Wanted(RulesOf(File), e.category)
    BY <2>3, <2>4, FilteredIsUnwanted
  <2>6. IsErrorSuppressedByNolint(e.category, e.line) <=> Waived(File, e, LinesRead)
    BY <2>1, WaivedIs
  <2> HIDE DEF e
  <2>7. /\ r.shown <=> error_count' # error_count
        /\ r.error = e /\ r.read = LinesRead /\ args.files[r.file] = File
    BY DEF File
  <2> HIDE DEF r
  <2>8. Judged(r)
    BY <2>1, <2>3, <2>5, <2>6, <2>7 DEF Judged, ShouldPrintError
  <2>9. r \in Calls
    <3>1. log' \in Seq(Calls) /\ Len(log) + 1 \in DOMAIN log' /\ log'[Len(log) + 1] = r
      BY <2>1 DEF TypeInv, Appends
    <3>2. QED BY <3>1
  <2>10. \A i \in DOMAIN log' : log'[i] \in Rightly
    BY <1>1, <2>1, <2>8, <2>9 DEF Appends, Rightly
  <2>11. QED BY <2>1, <2>10, JudgedSame
<1>3. CASE ~ CallError
  <2>1. UNCHANGED <<args, tree, log>>
    BY <1>3 DEF Next, Arguments, StopAtOption, ParseOption, SetGlobal, EndOfOptions, NextOption,
      StartFile, Config, OpenConfig, ConfigRule, ConfigSetting, ExcludeFiles, ConfigLine,
      ApplyConfigFilters, FileData, ReadFile, ParseGuardLine, BeforeLines, ProcessLine, AfterLines,
      EndFile, EndRun, vars, argvars, histvars
  <2>2. Rightly' = Rightly
    BY <2>1, JudgedSame
  <2>3. QED BY <1>1, <2>1, <2>2
<1>4. QED BY <1>2, <1>3

-----------------------------------------------------------------------------
(* The totals. *)

(* The printed errors that count for a key. *)
Counted(k) ==
  CASE counting = "detailed" -> {i \in Shown : log[i].error.category = k}
    [] counting = "toplevel" -> {i \in Shown : TopLevel[log[i].error.category] = k}
    [] OTHER -> {}

(* CountsAgree, said with Counted. *)
LEMMA CountsAre ==
  CountsAgree <=>
    /\ error_count = Cardinality(Shown)
    /\ \A k \in CountKeys : errors_by_category[k] = Cardinality(Counted(k))
<1>1. Cardinality({}) = 0
  BY FS_EmptySet
<1>2. ASSUME NEW k
      PROVE  Cardinality(Counted(k)) =
               CASE counting = "detailed" ->
                      Cardinality({i \in Shown : log[i].error.category = k})
                 [] counting = "toplevel" ->
                      Cardinality({i \in Shown : TopLevel[log[i].error.category] = k})
                 [] OTHER -> 0
  BY <1>1 DEF Counted
<1>3. QED BY <1>2 DEF CountsAgree

(* CountsAre, for the state after a step. *)
LEMMA CountsAreNext ==
  (CountsAgree <=>
    /\ error_count = Cardinality(Shown)
    /\ \A k \in CountKeys : errors_by_category[k] = Cardinality(Counted(k)))'
BY CountsAre, PTL

(* What is counted can be counted. *)
LEMMA ShownFinite ==
  ASSUME TypeInv
  PROVE  /\ IsFiniteSet(Shown) /\ Shown \subseteq 1..Len(log) /\ Len(log) \in Nat
         /\ \A k : IsFiniteSet(Counted(k)) /\ Counted(k) \subseteq Shown
<1>1. Len(log) \in Nat /\ Shown \subseteq 1..Len(log)
  BY DEF TypeInv, Shown
<1>2. IsFiniteSet(1..Len(log))
  BY <1>1, FS_Interval
<1>3. IsFiniteSet(Shown)
  BY <1>1, <1>2, FS_Subset
<1>4. ASSUME NEW k PROVE IsFiniteSet(Counted(k)) /\ Counted(k) \subseteq Shown
  <2>1. Counted(k) \subseteq Shown
    BY DEF Counted
  <2>2. QED BY <2>1, <1>3, FS_Subset
<1>5. QED BY <1>1, <1>3, <1>4

(* One more member counts one more. *)
LEMMA OneMore ==
  ASSUME NEW S, NEW x, IsFiniteSet(S), x \notin S
  PROVE  Cardinality(S \cup {x}) = Cardinality(S) + 1
BY FS_AddElement

(* A printed error is counted once, under its own key. *)
LEMMA CountsCall == TypeInv /\ TypeInv' /\ CountsAgree /\ CallError => CountsAgree'
<1> SUFFICES ASSUME TypeInv, TypeInv', CountsAgree, CallError PROVE CountsAgree'
  OBVIOUS
<1> DEFINE e == Head(pending)
           r == [file |-> current, read |-> LinesRead, error |-> e,
                 shown |-> (error_count' # error_count)]
           new == Len(log) + 1
<1>1. /\ e \in Findings /\ Appends(r) /\ UNCHANGED counting
      /\ \/ IncrementErrorCount(e.category) /\ error_count' # error_count
         \/ UNCHANGED countvars /\ error_count' = error_count
  BY CallIs
<1>2. r.shown <=> error_count' # error_count
  OBVIOUS
<1>3. r.error = e /\ e.category \in Categories
  BY <1>1 DEF Findings
<1> HIDE DEF e, r
<1>4. /\ DOMAIN log' = DOMAIN log \cup {new} /\ new \notin DOMAIN log
      /\ log'[new] = r /\ \A i \in DOMAIN log : log'[i] = log[i]
      /\ DOMAIN log = 1..Len(log)
  BY <1>1 DEF Appends
<1> HIDE DEF new
<1>5. /\ error_count = Cardinality(Shown)
      /\ \A k \in CountKeys : errors_by_category[k] = Cardinality(Counted(k))
  BY CountsAre
<1>6. /\ IsFiniteSet(Shown) /\ new \notin Shown
      /\ \A k : IsFiniteSet(Counted(k)) /\ new \notin Counted(k)
  BY <1>4, ShownFinite DEF Shown
<1>7. CASE r.shown
  <2>1. IncrementErrorCount(e.category) /\ error_count' = error_count + 1
    BY <1>1, <1>2, <1>7 DEF IncrementErrorCount
  <2>2. Shown' = Shown \cup {new}
    BY <1>4, <1>7 DEF Shown
  <2>3. error_count' = Cardinality(Shown')
    BY <2>1, <2>2, <1>5, <1>6, OneMore
  <2>4. ASSUME NEW k \in CountKeys, NEW S, S = Counted(k), NEW T, T = Counted(k)'
        PROVE  errors_by_category'[k] = Cardinality(T)
    <3> DEFINE hit == \/ counting = "detailed" /\ e.category = k
                      \/ counting = "toplevel" /\ TopLevel[e.category] = k
    <3>1. T = IF hit THEN S \cup {new} ELSE S
      <4>1. \A i \in Shown : log'[i] = log[i]
        BY <1>4 DEF Shown
      <4>2. CASE counting = "detailed"
        <5>1. S = {i \in Shown : log[i].error.category = k}
          BY <2>4, <4>2 DEF Counted
        <5>2. T = {i \in Shown \cup {new} : log'[i].error.category = k}
          BY <2>2, <2>4, <4>2, <1>1 DEF Counted
        <5>3. QED BY <1>3, <1>4, <4>1, <4>2, <5>1, <5>2
      <4>3. CASE counting = "toplevel"
        <5>1. S = {i \in Shown : TopLevel[log[i].error.category] = k}
          BY <2>4, <4>3 DEF Counted
        <5>2. T = {i \in Shown \cup {new} : TopLevel[log'[i].error.category] = k}
          BY <2>2, <2>4, <4>3, <1>1 DEF Counted
        <5>3. QED BY <1>3, <1>4, <4>1, <4>3, <5>1, <5>2
      <4>4. CASE counting \notin {"detailed", "toplevel"}
        BY <2>4, <4>4, <1>1 DEF Counted
      <4>5. QED BY <4>2, <4>3, <4>4
    <3>2. errors_by_category'[k] = IF hit THEN errors_by_category[k] + 1 ELSE errors_by_category[k]
      <4>1. errors_by_category \in [CountKeys -> Nat]
        BY DEF TypeInv
      <4>2. QED BY <2>1, <4>1 DEF IncrementErrorCount
    <3>3. errors_by_category[k] = Cardinality(S) /\ IsFiniteSet(S) /\ new \notin S
      BY <1>5, <1>6, <2>4
    <3> HIDE DEF hit
    <3>4. Cardinality(S \cup {new}) = Cardinality(S) + 1
      BY <3>3, OneMore
    <3>5. QED BY <3>1, <3>2, <3>3, <3>4
  <2>5. \A k \in CountKeys : errors_by_category'[k] = Cardinality(Counted(k)')
    BY <2>4
  <2>6. QED BY <2>3, <2>5, CountsAreNext
<1>8. CASE ~ r.shown
  <2>1. UNCHANGED <<error_count, errors_by_category>>
    BY <1>1, <1>2, <1>8 DEF countvars
  <2>2. Shown' = Shown /\ \A i \in Shown : log'[i] = log[i]
    BY <1>4, <1>8 DEF Shown
  <2>3. ASSUME NEW k PROVE Counted(k)' = Counted(k)
    BY <1>1, <2>2 DEF Counted
  <2>4. QED BY <1>5, <2>1, <2>2, <2>3, CountsAreNext
<1>9. QED BY <1>7, <1>8

(* Every step keeps the totals. *)
LEMMA CountsStep ==
  TypeInv /\ TypeInv' /\ OptionsInv /\ CountsAgree /\ [Next]_vars => CountsAgree'
<1> SUFFICES ASSUME TypeInv, TypeInv', OptionsInv, CountsAgree, [Next]_vars PROVE CountsAgree'
  OBVIOUS
<1>1. CASE UNCHANGED <<log, counting, error_count, errors_by_category>>
  BY <1>1 DEF CountsAgree, Shown
<1>2. CASE EndOfOptions
  <2>1. log' = <<>> /\ pc = "options"
    BY <1>2 DEF EndOfOptions, OptionsInv, histvars
  <2>2. Shown' = {}
    BY <2>1 DEF Shown
  <2>3. ASSUME NEW k PROVE Counted(k)' = {}
    BY <2>2 DEF Counted
  <2>4. CASE args.files = <<>>
    BY <1>1, <1>2, <2>4 DEF EndOfOptions, statevars, flagvars, countvars, histvars
  <2>5. CASE args.files # <<>>
    <3>1. error_count' = 0 /\ \A k \in CountKeys : errors_by_category'[k] = 0
      BY <1>2, <2>5 DEF EndOfOptions
    <3>2. Cardinality({}) = 0
      BY FS_EmptySet
    <3>3. QED BY <2>2, <2>3, <3>1, <3>2, CountsAreNext
  <2>6. QED BY <2>4, <2>5
<1>3. CASE CallError
  BY <1>3, CountsCall
<1>4. CASE ~ EndOfOptions /\ ~ CallError
  BY <1>1, <1>4 DEF Next, Arguments, StopAtOption, ParseOption, SetGlobal,
      StartFile, Config, OpenConfig, ConfigRule, ConfigSetting, ExcludeFiles, ConfigLine,
      ApplyConfigFilters, FileData, ReadFile, ParseGuardLine, BeforeLines, ProcessLine, AfterLines,
      EndFile, EndRun, vars, histvars, statevars, flagvars, countvars
<1>5. QED BY <1>2, <1>3, <1>4

-----------------------------------------------------------------------------
(* What a run reports. *)

NamedSoFar(n) == \A k \in 1..n : k \in done <=> ShownIn(k)

(* old_errors tells whether the file at hand had an error printed. *)
ThisFile ==
  /\ current \notin done
  /\ old_errors \in Nat /\ old_errors <= error_count
  /\ old_errors # error_count <=> ShownIn(current)
  /\ pc \in {"config", "read"} => old_errors = error_count
  /\ quiet => NamedSoFar(current - 1)

(* Of the files before it the names were written as they should. *)
ReportInv ==
  /\ \A i \in DOMAIN log : log[i].file \in 1..current
  /\ done \subseteq 1..current
  /\ pc \in InFile => ThisFile
  /\ quiet /\ pc = "files" => NamedSoFar(current)
  /\ pc = "exit" => ReportedHonestly

(* The files so far are those before and the one at hand. *)
LEMMA CurrentType ==
  ASSUME TypeInv
  PROVE  /\ current \in Nat /\ Len(args.files) \in Nat
         /\ pc \in InFile => 1..current = 1..(current - 1) \cup {current} /\ current \in 1..current
BY ArgsType DEF TypeInv

(* As long as nothing is printed the same files are to be named. *)
LEMMA ShownSame ==
  ASSUME log' = log
  PROVE  /\ \A k : ShownIn(k)' = ShownIn(k)
         /\ \A n : done' = done => NamedSoFar(n)' = NamedSoFar(n)
BY DEF ShownIn, NamedSoFar

(* Steps that print nothing and leave no file. *)
LEMMA ReportQuiet ==
  ASSUME TypeInv, TypeInv', ReportInv,
         UNCHANGED <<log, done, current, old_errors, error_count, quiet>>,
         \/ pc' = pc
         \/ /\ pc \in InFile /\ pc' \in InFile
            /\ pc' \in {"config", "read"} => pc \in {"config", "read"},
         pc' # "exit"
  PROVE  ReportInv'
<1>1. /\ \A k : ShownIn(k)' = ShownIn(k)
      /\ \A n : NamedSoFar(n)' = NamedSoFar(n)
  BY ShownSame
<1>2. CASE pc \in InFile /\ pc' \in InFile
  <2>1. ThisFile
    BY <1>2 DEF ReportInv
  <2>2. NamedSoFar(current - 1)' = NamedSoFar(current - 1) /\ ShownIn(current)' = ShownIn(current)
    BY DEF NamedSoFar, ShownIn
  <2>3. ThisFile'
    BY <1>2, <2>1, <2>2 DEF ThisFile
  <2>4. QED BY <1>2, <2>3 DEF ReportInv, InFile
<1>3. CASE pc' = pc /\ pc \notin InFile
  <2>1. NamedSoFar(current)' = NamedSoFar(current)
    BY DEF NamedSoFar, ShownIn
  <2>2. QED BY <1>3, <2>1 DEF ReportInv, InFile
<1>4. QED BY <1>2, <1>3

(* A file is left, mentioned or not. *)
Left ==
  /\ UNCHANGED <<log, current, quiet>> /\ pc \in InFile /\ pc' = "files"
  /\ \/ done' = done /\ ~ ShownIn(current)
     \/ done' = IF ~ quiet \/ ShownIn(current) THEN done \cup {current} ELSE done

(* When a file is left, it is named as it should be. *)
LEMMA ReportLeft ==
  ASSUME TypeInv, TypeInv', ReportInv, Left
  PROVE  ReportInv'
<1>1. /\ UNCHANGED <<log, current, quiet>> /\ pc \in InFile /\ pc' = "files"
      /\ \/ done' = done /\ ~ ShownIn(current)
         \/ done' = IF ~ quiet \/ ShownIn(current) THEN done \cup {current} ELSE done
  BY DEF Left
<1>2. /\ current \in Nat
      /\ 1..current = 1..(current - 1) \cup {current} /\ current \in 1..current
      /\ current \notin 1..(current - 1)
  <2>1. current \in Nat /\ 1..current = 1..(current - 1) \cup {current} /\ current \in 1..current
    BY <1>1, CurrentType
  <2>2. QED BY <2>1
<1>3. ThisFile /\ done \subseteq 1..current /\ \A i \in DOMAIN log : log[i].file \in 1..current
  BY <1>1 DEF ReportInv
<1>4. done' \subseteq 1..current
  BY <1>1, <1>2, <1>3
<1>5. ASSUME quiet PROVE NamedSoFar(current)'
  <2>1. \A k \in 1..(current - 1) : k \in done <=> ShownIn(k)
    BY <1>3, <1>5 DEF ThisFile, NamedSoFar
  <2>2. \A k \in 1..(current - 1) : k \in done' <=> ShownIn(k)
    BY <1>1, <1>2, <2>1
  <2>3. current \in done' <=> ShownIn(current)
    BY <1>1, <1>3, <1>5 DEF ThisFile
  <2>4. \A k \in 1..current : k \in done' <=> ShownIn(k)
    BY <1>2, <2>2, <2>3
  <2>5. ASSUME NEW k PROVE ShownIn(k)' = ShownIn(k)
    BY <1>1 DEF ShownIn
  <2>6. QED BY <1>1, <2>4, <2>5 DEF NamedSoFar
<1>6. QED BY <1>1, <1>3, <1>4, <1>5 DEF ReportInv, InFile

(* A printed error is one of the file at hand. *)
LEMMA ReportCall == TypeInv /\ TypeInv' /\ ReportInv /\ CallError => ReportInv'
<1> SUFFICES ASSUME TypeInv, TypeInv', ReportInv, CallError PROVE ReportInv'
  OBVIOUS
<1> DEFINE e == Head(pending)
           r == [file |-> current, read |-> LinesRead, error |-> e,
                 shown |-> (error_count' # error_count)]
<1>1. /\ pc \in InData /\ pc' = pc /\ Appends(r)
      /\ UNCHANGED <<current, old_errors, done, quiet>>
      /\ \/ IncrementErrorCount(e.category) /\ error_count' # error_count
         \/ UNCHANGED countvars /\ error_count' = error_count
  BY CallIs
<1>2. r.shown <=> error_count' # error_count
  OBVIOUS
<1>3. r.file = current
  OBVIOUS
<1> HIDE DEF e, r
<1>4. /\ DOMAIN log' = DOMAIN log \cup {Len(log) + 1} /\ Len(log) + 1 \notin DOMAIN log
      /\ log'[Len(log) + 1] = r /\ \A i \in DOMAIN log : log'[i] = log[i]
  BY <1>1 DEF Appends
<1>5. ThisFile /\ pc \in InFile /\ pc' \notin {"config", "read", "files", "exit"}
  BY <1>1 DEF ReportInv, InFile, InData
<1>6. /\ current \in Nat /\ current \in 1..current /\ current \notin 1..(current - 1)
  <2>1. current \in Nat /\ current \in 1..current
    BY <1>5, CurrentType
  <2>2. QED BY <2>1
<1>7. ASSUME NEW k PROVE ShownIn(k)' <=> (ShownIn(k) \/ (k = current /\ r.shown))
  BY <1>3, <1>4 DEF ShownIn
<1>8. /\ error_count \in Nat
      /\ error_count' = error_count \/ (error_count' = error_count + 1 /\ r.shown)
  BY <1>1, <1>2 DEF TypeInv, IncrementErrorCount
<1>9. \A i \in DOMAIN log' : log'[i].file \in 1..current
  BY <1>3, <1>4, <1>6 DEF ReportInv
<1>10. NamedSoFar(current - 1)' <=> NamedSoFar(current - 1)
  BY <1>1, <1>6, <1>7 DEF NamedSoFar
<1>11. ShownIn(current)' <=> (ShownIn(current) \/ r.shown)
  BY <1>1, <1>7
<1>12. ThisFile'
  <2>1. old_errors # error_count' <=> (old_errors # error_count \/ r.shown)
    BY <1>2, <1>5, <1>8 DEF ThisFile
  <2>2. old_errors <= error_count'
    BY <1>5, <1>8 DEF ThisFile
  <2>3. QED BY <1>1, <1>5, <1>10, <1>11, <2>1, <2>2 DEF ThisFile
<1>13. QED BY <1>1, <1>5, <1>9, <1>12 DEF ReportInv

(* The counter is 0 exactly when no error was printed. *)
LEMMA AnyShown ==
  ASSUME TypeInv, ReportInv, CountsAgree
  PROVE  error_count > 0 <=> \E k \in 1..current : ShownIn(k)
<1>1. error_count = Cardinality(Shown) /\ IsFiniteSet(Shown) /\ error_count \in Nat
  BY CountsAre, ShownFinite DEF TypeInv
<1>2. error_count = 0 <=> Shown = {}
  BY <1>1, FS_EmptySet
<1>3. Shown # {} <=> \E k \in 1..current : ShownIn(k)
  BY DEF Shown, ShownIn, ReportInv
<1>4. QED BY <1>1, <1>2, <1>3

(* Every step keeps the report honest. *)
LEMMA ReportStep ==
  TypeInv /\ TypeInv' /\ OptionsInv /\ CountsAgree /\ ReportInv /\ [Next]_vars => ReportInv'
<1> SUFFICES ASSUME TypeInv, TypeInv', OptionsInv, CountsAgree, ReportInv, [Next]_vars
             PROVE  ReportInv'
  OBVIOUS
<1>1. ASSUME pc = "options", pc' \in {"options", "files", "exit"}, UNCHANGED <<log, done, current>>
      PROVE  ReportInv'
  <2>1. current' = 0 /\ log' = <<>> /\ done' = {}
    BY <1>1 DEF OptionsInv
  <2>2. 1..0 = {} /\ ~ (0 > 0) /\ DOMAIN <<>> = {}
    OBVIOUS
  <2>3. NamedSoFar(current)' /\ ReportedHonestly'
    BY <2>1, <2>2 DEF NamedSoFar, ReportedHonestly, ExitIsHonest, QuietUnlessErrors
  <2>4. QED BY <1>1, <2>1, <2>2, <2>3 DEF ReportInv, InFile
<1>2. CASE Arguments
  BY <1>1, <1>2 DEF Arguments, StopAtOption, ParseOption, SetGlobal, EndOfOptions, Option, Exit,
    filevars, histvars
<1>3. CASE StartFile
  <2>1. /\ pc = "files" /\ pc' = "config" /\ current' = current + 1 /\ old_errors' = error_count
        /\ UNCHANGED <<log, done, error_count, quiet>>
    BY <1>3 DEF StartFile, histvars, countvars, flagvars
  <2>2. /\ current \in Nat /\ error_count \in Nat /\ (current + 1) - 1 = current
        /\ 1..current \subseteq 1..(current + 1) /\ current + 1 \notin 1..current
        /\ error_count <= error_count
    <3>1. current \in Nat /\ error_count \in Nat
      BY CurrentType DEF TypeInv
    <3>2. QED BY <3>1
  <2>3. (\A i \in DOMAIN log : log[i].file \in 1..current) /\ done \subseteq 1..current
    BY DEF ReportInv
  <2>4. ~ ShownIn(current + 1)
    BY <2>2, <2>3 DEF ShownIn
  <2>5. ShownIn(current)' = ShownIn(current + 1)
    BY <2>1 DEF ShownIn
  <2>6. quiet => NamedSoFar(current - 1)'
    BY <2>1, <2>2 DEF ReportInv, NamedSoFar, ShownIn
  <2>7. ThisFile'
    BY <2>1, <2>2, <2>3, <2>4, <2>5, <2>6 DEF ThisFile
  <2>8. QED BY <2>1, <2>2, <2>3, <2>7 DEF ReportInv, InFile
<1>4. CASE OpenConfig \/ ConfigRule \/ ConfigSetting
  BY <1>4, ReportQuiet DEF OpenConfig, ConfigRule, ConfigSetting, ConfigLine, histvars, statevars,
    countvars, flagvars
<1>5. CASE ExcludeFiles
  <2>1. /\ pc = "config" /\ UNCHANGED <<log, done, current, old_errors, error_count, quiet>>
        /\ pc' = "files" \/ pc' = pc
    BY <1>5 DEF ExcludeFiles, ConfigLine, histvars, flagvars, countvars
  <2>2. ~ ShownIn(current)
    BY <2>1 DEF ReportInv, ThisFile, InFile
  <2>3. pc' = "files" => Left
    BY <2>1, <2>2 DEF Left, InFile
  <2>4. QED BY <2>1, <2>3, ReportLeft, ReportQuiet
<1>6. CASE ApplyConfigFilters
  <2>1. /\ pc = "config" /\ UNCHANGED <<log, done, current, old_errors, error_count, quiet>>
        /\ \/ pc' = "exit" /\ ~ Signed(filters')
           \/ pc' = "read"
    BY <1>6 DEF ApplyConfigFilters, Raised, Exit, filevars, histvars, flagvars, countvars
  <2>2. CASE pc' = "exit" /\ ~ Signed(filters')
    <3>1. ~ Signed(filters)'
      BY <2>2 DEF Signed
    <3>2. ReportedHonestly'
      BY <3>1 DEF ReportedHonestly, ExitIsHonest, QuietUnlessErrors
    <3>3. QED BY <2>1, <2>2, <3>2 DEF ReportInv, InFile
  <2>3. CASE pc' = "read"
    BY <2>1, <2>3, ReportQuiet DEF InFile
  <2>4. QED BY <2>1, <2>2, <2>3
<1>7. CASE ReadFile
  <2>1. /\ pc = "read" /\ UNCHANGED <<log, done, current, old_errors, error_count, quiet>>
        /\ pc' \in {"files", "directives", "done"}
    BY <1>7 DEF ReadFile, histvars, flagvars, countvars
  <2>2. ~ ShownIn(current)
    BY <2>1 DEF ReportInv, ThisFile, InFile
  <2>3. pc' = "files" => Left
    BY <2>1, <2>2 DEF Left, InFile
  <2>4. pc' # "files" => ReportInv'
    BY <2>1, ReportQuiet DEF InFile
  <2>5. QED BY <2>3, <2>4, ReportLeft
<1>8. CASE CallError
  BY <1>8, ReportCall
<1>9. CASE ParseGuardLine \/ BeforeLines \/ ProcessLine \/ AfterLines
  <2>1. /\ pc \in InData /\ pc' \in InData
        /\ UNCHANGED <<log, done, current, old_errors, error_count, quiet>>
    BY <1>9 DEF ParseGuardLine, BeforeLines, ProcessLine, AfterLines, TypeInv, InData, filevars,
      histvars, statevars, flagvars, countvars
  <2>2. QED BY <2>1, ReportQuiet DEF InFile, InData
<1>10. CASE EndFile
  <2>1. /\ pc = "done" /\ pc' = "files" /\ UNCHANGED <<log, current, quiet>>
        /\ done' = IF ~ quiet \/ old_errors # error_count THEN done \cup {current} ELSE done
    BY <1>10 DEF EndFile, filevars, flagvars
  <2>2. old_errors # error_count <=> ShownIn(current)
    BY <2>1 DEF ReportInv, ThisFile, InFile
  <2>3. Left
    BY <2>1, <2>2 DEF Left, InFile
  <2>4. QED BY <2>3, ReportLeft
<1>11. CASE EndRun
  <2>1. /\ pc = "files" /\ pc' = "exit" /\ UNCHANGED <<log, done, current, quiet>>
        /\ status' = IF error_count > 0 THEN 1 ELSE 0
    BY <1>11 DEF EndRun, Exit, filevars, histvars, statevars, flagvars
  <2>2. status' = 1 <=> \E k \in 1..current : ShownIn(k)
    BY <2>1, AnyShown
  <2>3. ASSUME NEW k PROVE ShownIn(k)' = ShownIn(k)
    BY <2>1 DEF ShownIn
  <2>4. ReportedHonestly'
    BY <2>1, <2>2, <2>3 DEF ReportInv, NamedSoFar, ReportedHonestly, ExitIsHonest,
      QuietUnlessErrors
  <2>5. QED BY <2>1, <2>4 DEF ReportInv, InFile
<1>12. CASE UNCHANGED vars
  <2>1. pc' # "exit" => ReportInv'
    BY <1>12, ReportQuiet DEF vars, filevars, histvars, statevars, flagvars, countvars
  <2>2. pc' = "exit" => ReportInv'
    BY <1>12 DEF vars, filevars, histvars, statevars, flagvars, filtervars, ReportInv, InFile,
      ReportedHonestly, ExitIsHonest, QuietUnlessErrors, ShownIn, Signed
  <2>3. QED BY <2>1, <2>2
<1>13. QED
  BY <1>2, <1>3, <1>4, <1>5, <1>6, <1>7, <1>8, <1>9, <1>10, <1>11, <1>12
  DEF Next, Config, FileData

-----------------------------------------------------------------------------
(* The invariant and what follows from it. *)

(* The inductive invariant.  The filters cannot be told without the place  *)
(* in the cfgs, nor that without what was parsed; the judgement rests on   *)
(* filters and suppressions, and the exit status on the totals.            *)
IInv ==
  /\ TypeInv /\ OptionsInv /\ ConfigInv /\ FiltersInv
  /\ NolintInv /\ CountsAgree /\ JudgedByOwnRules /\ ReportInv

(* The initial states satisfy it. *)
LEMMA InvInit == Init => IInv
<1> SUFFICES ASSUME Init PROVE IInv
  OBVIOUS
<1>1. TypeInv /\ OptionsInv
  BY TypeInit, OptionsInit
<1>2. /\ pc = "options" /\ log = <<>> /\ done = {} /\ error_count = 0
      /\ \A k \in CountKeys : errors_by_category[k] = 0
  BY DEF Init, StateInit
<1>3. ConfigInv /\ FiltersInv /\ NolintInv /\ ReportInv
  BY <1>2 DEF ConfigInv, FiltersInv, NolintInv, ReportInv, InFile, InData
<1>4. JudgedByOwnRules
  BY <1>2 DEF JudgedByOwnRules
<1>5. CountsAgree
  <2>1. Shown = {}
    BY <1>2 DEF Shown
  <2>2. \A k : Counted(k) = {}
    BY <2>1 DEF Counted
  <2>3. Cardinality({}) = 0
    BY FS_EmptySet
  <2>4. QED BY <1>2, <2>1, <2>2, <2>3, CountsAre
<1>6. QED BY <1>1, <1>3, <1>4, <1>5 DEF IInv

(* Every step keeps it. *)
LEMMA InvStep == IInv /\ [Next]_vars => IInv'
<1> SUFFICES ASSUME IInv, [Next]_vars PROVE IInv'
  OBVIOUS
<1>1. TypeInv'
  BY TypeStep DEF IInv
<1>2. OptionsInv' /\ ConfigInv' /\ FiltersInv'
  BY <1>1, OptionsStep, ConfigStep, FiltersStep DEF IInv
<1>3. NolintInv' /\ CountsAgree' /\ JudgedByOwnRules' /\ ReportInv'
  BY <1>1, NolintStep, CountsStep, JudgedStep, ReportStep DEF IInv
<1>4. QED BY <1>1, <1>2, <1>3 DEF IInv

(* The invariant holds in every reachable state. *)
THEOREM Inductive == Spec => []IInv
BY InvInit, InvStep, PTL DEF Spec

(* Whatever CPPLINT.cfg files a file has and however it is left, excluded  *)
(* and unreadable files included, the filters are those of the command     *)
(* line again before the next one.                                         *)
THEOREM FiltersComeBack == Spec => []FiltersRestored
<1>1. IInv => FiltersRestored
  BY DEF IInv, FiltersInv, FiltersRestored, Base
<1>2. QED BY <1>1, Inductive, PTL

(* The totals by category, by top level and over all are those of the      *)
(* errors printed, in every state of every run.                            *)
THEOREM TotalsAreRight == Spec => []CountsAgree
<1>1. IInv => CountsAgree
  BY DEF IInv
<1>2. QED BY <1>1, Inductive, PTL

(* Every error of every file is printed or not by the rules of that file:  *)
(* what the files before it switched off or on has no effect.              *)
THEOREM EveryErrorRightly == Spec => []JudgedByOwnRules
<1>1. IInv => JudgedByOwnRules
  BY DEF IInv
<1>2. QED BY <1>1, Inductive, PTL

(* The exit status and, with --quiet, the files that are mentioned tell    *)
(* where errors were printed.                                              *)
THEOREM TruthIsTold == Spec => []ReportedHonestly
<1>1. IInv => ReportedHonestly
  <2> SUFFICES ASSUME IInv PROVE ReportedHonestly
    OBVIOUS
  <2>1. /\ pc = "exit" => ReportedHonestly
        /\ quiet /\ pc = "files" => NamedSoFar(current)
    BY DEF IInv, ReportInv
  <2>2. QED BY <2>1 DEF ReportedHonestly, ExitIsHonest, QuietUnlessErrors, NamedSoFar
<1>2. QED BY <1>1, Inductive, PTL
=============================================================================
