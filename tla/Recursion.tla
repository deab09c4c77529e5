------------------------------ MODULE Recursion ------------------------------
(***************************************************************************)
(* Induction over data.  A statement about all numbers is a set of numbers *)
(* here, and what a recursive function computes in one step is a function, *)
(* so no theorem has an operator as a parameter.                           *)
(***************************************************************************)
EXTENDS Integers, SequencesExt, SequenceTheorems, WellFoundedInduction, TLAPS

-----------------------------------------------------------------------------
(* Numbers.                                                                *)

Before == {p \in Nat \X Nat : p[1] < p[2]}

LEMMA BeforeIsWellFounded == IsWellFoundedOn(Before, Nat)
<1>1. OpToRel(<, Nat) = Before
  BY DEF OpToRel, Before
<1> QED
  BY <1>1, NatLessThanWellFounded

LEMMA LeastNumber ==
  ASSUME NEW T \in SUBSET Nat, T # {}
  PROVE  \E n \in T : \A m \in T : n <= m
<1>1. PICK x \in T : \A y \in T : <<y, x>> \notin Before
  BY BeforeIsWellFounded, WFMin
<1>2. ASSUME NEW y \in T PROVE x <= y
  <2>1. <<y, x>> \in Nat \X Nat /\ <<y, x>>[1] = y /\ <<y, x>>[2] = x
    OBVIOUS
  <2>2. ~ (y < x)
    BY <1>1, <2>1 DEF Before
  <2> QED
    BY <2>2
<1> QED
  BY <1>2

LEMMA Induction ==
  ASSUME NEW T \in SUBSET Nat, 0 \in T, \A n \in T : n + 1 \in T
  PROVE  T = Nat
<1> SUFFICES ASSUME Nat \ T # {} PROVE FALSE
  OBVIOUS
<1>1. PICK n \in Nat \ T : \A m \in Nat \ T : n <= m
  BY LeastNumber
<1>2. n # 0 /\ n - 1 \in Nat /\ n - 1 \notin Nat \ T
  BY <1>1
<1> QED
  BY <1>2

(* Induction over a set whose members have a rank.                         *)
Progressive(S, rank, T) ==
  \A x \in S : (\A y \in S : rank[y] < rank[x] => y \in T) => x \in T

LEMMA RankInduction ==
  ASSUME NEW S, NEW max \in Nat, NEW rank \in [S -> 0 .. max], NEW T \in SUBSET S,
         Progressive(S, rank, T)
  PROVE  T = S
<1> SUFFICES ASSUME NEW bad \in S \ T PROVE FALSE
  OBVIOUS
<1> DEFINE R == {rank[x] : x \in S \ T}
<1>1. R \in SUBSET Nat /\ R # {}
  OBVIOUS
<1>2. PICK n \in R : \A m \in R : n <= m
  <2> HIDE DEF R
  <2> QED
    BY <1>1, LeastNumber
<1>3. PICK x \in S \ T : rank[x] = n
  BY <1>2
<1>4. ASSUME NEW y \in S, rank[y] < rank[x] PROVE y \in T
  <2>1. y \notin T => rank[y] \in R
    OBVIOUS
  <2>2. rank[x] \in 0 .. max /\ rank[y] \in 0 .. max
    OBVIOUS
  <2> HIDE DEF R
  <2> QED
    BY <1>2, <1>3, <1>4, <2>1, <2>2
<1> QED
  BY <1>3, <1>4 DEF Progressive

-----------------------------------------------------------------------------
(* A function defined by recursion over S, with values in V, exists if     *)
(* what step computes stays in V and depends on arguments of a lower rank. *)
Grounded(S, V, rank, step) ==
  \A f, g \in [S -> V] : \A x \in S :
    (\A y \in S : rank[y] < rank[x] => f[y] = g[y]) => step[f][x] = step[g][x]

Recursive(S, V, step) == \E f \in [S -> V] : f = step[f]

LEMMA RecursiveFunction ==
  ASSUME NEW S, NEW V, V # {}, NEW max \in Nat, NEW rank \in [S -> 0 .. max],
         NEW step \in [[S -> V] -> [S -> V]], Grounded(S, V, rank, step)
  PROVE  Recursive(S, V, step)
<1>1. PICK v \in V : TRUE
  OBVIOUS
<1> DEFINE Upto(n, f) == \A x \in S : rank[x] < n => f[x] = step[f][x]
           T == {n \in Nat : \E f \in [S -> V] : Upto(n, f)}
<1>2. 0 \in T
  <2>1. [x \in S |-> v] \in [S -> V] /\ Upto(0, [x \in S |-> v])
    OBVIOUS
  <2> QED
    BY <2>1
<1>3. ASSUME NEW n \in T PROVE n + 1 \in T
  <2>1. PICK f \in [S -> V] : Upto(n, f)
    OBVIOUS
  <2> DEFINE g == step[f]
  <2>2. g \in [S -> V]
    OBVIOUS
  <2>3. ASSUME NEW x \in S, rank[x] < n + 1
        PROVE  g[x] = step[g][x]
    <3>1. \A y \in S : rank[y] < rank[x] => f[y] = g[y]
      BY <2>1, <2>3
    <3>2. step[f][x] = step[g][x]
      BY <2>2, <3>1 DEF Grounded
    <3> QED
      BY <3>2
  <2>4. n + 1 \in Nat
    OBVIOUS
  <2>5. Upto(n + 1, g)
    <3> HIDE DEF g
    <3> QED
      BY <2>3
  <2> QED
    <3> HIDE DEF Upto, g
    <3> QED
      BY <2>2, <2>4, <2>5
<1>4. max + 1 \in T
  <2> HIDE DEF T
  <2>1. T \in SUBSET Nat
    BY DEF T
  <2> QED
    BY <1>2, <1>3, <2>1, Induction
<1>5. PICK f \in [S -> V] : Upto(max + 1, f)
  BY <1>4
<1>6. \A x \in S : f[x] = step[f][x]
  BY <1>5
<1> QED
  BY <1>6 DEF Recursive

-----------------------------------------------------------------------------
(* What FlattenSeq computes.                                               *)

Joined(s) ==
  LET flatten[i \in 1 .. Len(s)] == IF i = 1 THEN s[i] ELSE flatten[i - 1] \o s[i]
  IN  flatten

LEMMA JoinedDef ==
  ASSUME NEW B, NEW s \in Seq(Seq(B))
  PROVE  /\ Joined(s) \in [1 .. Len(s) -> Seq(B)]
         /\ \A i \in 1 .. Len(s) :
              Joined(s)[i] = IF i = 1 THEN s[i] ELSE Joined(s)[i - 1] \o s[i]
<1> DEFINE S == 1 .. Len(s)
           V == Seq(B)
           rank == [i \in S |-> i]
           step == [f \in [S -> V] |-> [i \in S |-> IF i = 1 THEN s[i] ELSE f[i - 1] \o s[i]]]
<1>1. \A i \in S : s[i] \in V /\ (i # 1 => i - 1 \in S)
  OBVIOUS
<1>2. step \in [[S -> V] -> [S -> V]]
  <2> SUFFICES ASSUME NEW f \in [S -> V], NEW i \in S, i # 1 PROVE f[i - 1] \o s[i] \in V
    BY <1>1
  <2>1. f[i - 1] \in V /\ s[i] \in V
    BY <1>1
  <2> QED
    BY <2>1
<1>3. Grounded(S, V, rank, step)
  <2> SUFFICES ASSUME NEW f \in [S -> V], NEW g \in [S -> V], NEW i \in S,
                      \A j \in S : rank[j] < rank[i] => f[j] = g[j]
               PROVE  step[f][i] = step[g][i]
    BY DEF Grounded
  <2>1. i # 1 => i - 1 \in S /\ f[i - 1] = g[i - 1]
    OBVIOUS
  <2> QED
    BY <2>1
<1>4. rank \in [S -> 0 .. Len(s)] /\ V # {} /\ Len(s) \in Nat
  OBVIOUS
<1>5. Recursive(S, V, step)
  <2> HIDE DEF S, V, rank, step
  <2> QED
    BY <1>2, <1>3, <1>4, RecursiveFunction
<1> DEFINE h == Joined(s)
<1>6. \E f \in [S -> V] : f = [i \in S |-> IF i = 1 THEN s[i] ELSE f[i - 1] \o s[i]]
  BY <1>5 DEF Recursive
<1>7. h = CHOOSE f : f = [i \in S |-> IF i = 1 THEN s[i] ELSE f[i - 1] \o s[i]]
  BY DEF Joined
<1>8. h = [i \in S |-> IF i = 1 THEN s[i] ELSE h[i - 1] \o s[i]]
  <2> HIDE DEF S, V, h
  <2> QED
    BY <1>6, <1>7
<1> HIDE DEF h
<1>9. \A i \in S : h[i] \in V
  <2> DEFINE T == {i \in S : h[i] \in V}
  <2>1. ASSUME NEW i \in S, \A j \in S : rank[j] < rank[i] => j \in T PROVE i \in T
    <3>1. i # 1 => i - 1 \in T
      BY <2>1
    <3>2. s[i] \in V /\ i \in S
      BY <1>1
    <3>3. h[i] = IF i = 1 THEN s[i] ELSE h[i - 1] \o s[i]
      BY <1>8, <3>2
    <3>4. i # 1 => h[i - 1] \in Seq(B)
      BY <3>1
    <3>5. h[i] \in Seq(B)
      BY <3>2, <3>3, <3>4
    <3> QED
      BY <3>2, <3>5
  <2>2. Progressive(S, rank, T)
    BY <2>1 DEF Progressive
  <2>3. T \in SUBSET S
    OBVIOUS
  <2>4. T = S
    <3> HIDE DEF S, V, rank, T
    <3> QED
      BY <1>4, <2>2, <2>3, RankInduction
  <2> QED
    BY <2>4
<1> QED
  BY <1>8, <1>9 DEF h

LEMMA FlattenIs ==
  ASSUME NEW s
  PROVE  FlattenSeq(s) = IF Len(s) = 0 THEN s ELSE Joined(s)[Len(s)]
BY DEF FlattenSeq, Joined

LEMMA FlattenType ==
  ASSUME NEW B, NEW s \in Seq(Seq(B))
  PROVE  FlattenSeq(s) \in Seq(B)
<1>1. CASE Len(s) = 0
  <2>1. s = <<>> /\ <<>> \in Seq(B)
    BY <1>1
  <2> QED
    BY <1>1, <2>1, FlattenIs
<1>2. CASE Len(s) # 0
  <2>1. Len(s) \in 1 .. Len(s)
    BY <1>2
  <2> QED
    BY <1>2, <2>1, FlattenIs, JoinedDef
<1> QED
  BY <1>1, <1>2

(* What is joined up to a place does not depend on what comes after.       *)
LEMMA JoinedPrefix ==
  ASSUME NEW B, NEW s \in Seq(Seq(B)), NEW t \in Seq(Seq(B)),
         NEW n \in Nat, n <= Len(s), n <= Len(t), \A i \in 1 .. n : s[i] = t[i]
  PROVE  \A i \in 1 .. n : Joined(s)[i] = Joined(t)[i]
<1> DEFINE T == {i \in 1 .. n : Joined(s)[i] # Joined(t)[i]}
<1> SUFFICES ASSUME T # {} PROVE FALSE
  OBVIOUS
<1>1. PICK i \in T : \A j \in T : i <= j
  <2>1. T \in SUBSET Nat
    OBVIOUS
  <2> HIDE DEF T
  <2> QED
    BY <2>1, LeastNumber
<1>2. i \in 1 .. n /\ i \in 1 .. Len(s) /\ i \in 1 .. Len(t) /\ s[i] = t[i]
  OBVIOUS
<1>3. Joined(s)[i] = IF i = 1 THEN s[i] ELSE Joined(s)[i - 1] \o s[i]
  BY <1>2, JoinedDef
<1>4. Joined(t)[i] = IF i = 1 THEN t[i] ELSE Joined(t)[i - 1] \o t[i]
  BY <1>2, JoinedDef
<1>5. i # 1 => Joined(s)[i - 1] = Joined(t)[i - 1]
  <2> SUFFICES ASSUME i # 1 PROVE Joined(s)[i - 1] = Joined(t)[i - 1]
    OBVIOUS
  <2>1. i - 1 \in 1 .. n
    BY <1>2
  <2>2. i - 1 \notin T
    <3> HIDE DEF T
    <3> QED
      BY <1>1, <1>2
  <2> QED
    BY <2>1, <2>2
<1> QED
  BY <1>2, <1>3, <1>4, <1>5

LEMMA FlattenAppend ==
  ASSUME NEW B, NEW s \in Seq(Seq(B)), NEW x \in Seq(B)
  PROVE  FlattenSeq(Append(s, x)) = FlattenSeq(s) \o x
<1> DEFINE t == Append(s, x)
<1>1. /\ t \in Seq(Seq(B)) /\ Len(t) = Len(s) + 1 /\ t[Len(s) + 1] = x
      /\ \A i \in 1 .. Len(s) : t[i] = s[i]
  OBVIOUS
<1>2. Len(s) + 1 \in 1 .. Len(t) /\ Len(t) # 0 /\ Len(s) \in Nat
  BY <1>1
<1> HIDE DEF t
<1>3. FlattenSeq(t) = Joined(t)[Len(s) + 1]
  BY <1>1, <1>2, FlattenIs
<1>4. Joined(t)[Len(s) + 1] = IF Len(s) + 1 = 1 THEN x ELSE Joined(t)[Len(s)] \o x
  <2>1. \A i \in 1 .. Len(t) : Joined(t)[i] = IF i = 1 THEN t[i] ELSE Joined(t)[i - 1] \o t[i]
    BY <1>1, JoinedDef
  <2>2. Len(s) + 1 - 1 = Len(s)
    BY <1>2
  <2> QED
    BY <1>1, <1>2, <2>1, <2>2
<1>5. CASE Len(s) = 0
  <2>1. s = <<>> /\ <<>> \o x = x
    BY <1>5
  <2> QED
    BY <1>3, <1>4, <1>5, <2>1, FlattenIs DEF t
<1>6. CASE Len(s) # 0
  <2>1. Joined(t)[Len(s)] = Joined(s)[Len(s)]
    <3>1. \A i \in 1 .. Len(s) : Joined(s)[i] = Joined(t)[i]
      <4>1. /\ Len(s) \in Nat /\ Len(s) <= Len(s) /\ Len(s) <= Len(t)
            /\ \A i \in 1 .. Len(s) : s[i] = t[i]
        BY <1>1, <1>2
      <4>2. t \in Seq(Seq(B)) /\ s \in Seq(Seq(B))
        BY <1>1
      <4> QED
        BY <4>1, <4>2, JoinedPrefix
    <3>2. Len(s) \in 1 .. Len(s)
      BY <1>2, <1>6
    <3> QED
      BY <3>1, <3>2
  <2>2. FlattenSeq(s) = Joined(s)[Len(s)]
    BY <1>6, FlattenIs
  <2> QED
    BY <1>2, <1>3, <1>4, <1>6, <2>1, <2>2 DEF t
<1> QED
  BY <1>5, <1>6

Cat(one, two) == one \o two

LEMMA Regroup ==
  ASSUME NEW B, NEW one \in Seq(B), NEW two \in Seq(B), NEW three \in Seq(B)
  PROVE  Cat(Cat(one, two), three) = Cat(one, Cat(two, three))
<1>1. (one \o two) \o three = one \o (two \o three)
  BY ConcatAssociative
<1> QED
  BY <1>1 DEF Cat

(* The last of the sequences grows.                                        *)
LastGrows(B, s, t, x, n) ==
  /\ s \in Seq(Seq(B)) /\ t \in Seq(Seq(B)) /\ x \in Seq(B) /\ n \in Nat \ {0}
  /\ Len(s) = n /\ Len(t) = n
  /\ \A i \in 1 .. n : i < n => t[i] = s[i]
  /\ t[n] = Cat(s[n], x)

LEMMA FlattenExtend ==
  ASSUME NEW B, NEW s, NEW t, NEW x, NEW n, LastGrows(B, s, t, x, n)
  PROVE  FlattenSeq(t) = Cat(FlattenSeq(s), x)
<1> USE DEF LastGrows
<1>1. n \in 1 .. Len(s) /\ n \in 1 .. Len(t) /\ s[n] \in Seq(B)
  OBVIOUS
<1>2. FlattenSeq(s) = Joined(s)[n] /\ FlattenSeq(t) = Joined(t)[n]
  BY FlattenIs
<1>3. Joined(s)[n] = IF n = 1 THEN s[n] ELSE Joined(s)[n - 1] \o s[n]
  BY <1>1, JoinedDef
<1>4. Joined(t)[n] = IF n = 1 THEN t[n] ELSE Joined(t)[n - 1] \o t[n]
  BY <1>1, JoinedDef
<1>5. CASE n = 1
  BY <1>2, <1>3, <1>4, <1>5
<1>6. CASE n # 1
  <2>1. PICK m \in Nat : m = n - 1 /\ m # 0
    BY <1>6
  <2>2. /\ m <= Len(s) /\ m <= Len(t) /\ m \in 1 .. m /\ m \in 1 .. Len(s)
        /\ \A i \in 1 .. m : s[i] = t[i]
    BY <2>1
  <2>3. Joined(s)[m] = Joined(t)[m]
    BY <2>2, JoinedPrefix
  <2>4. PICK before \in Seq(B) : before = Joined(s)[m]
    BY <2>2, JoinedDef
  <2>5. PICK last \in Seq(B) : last = s[n]
    BY <1>1
  <2>6. Joined(s)[n] = Cat(before, last) /\ Joined(t)[n] = Cat(before, Cat(last, x))
    BY <1>3, <1>4, <1>6, <2>1, <2>3, <2>4, <2>5 DEF Cat
  <2>7. Cat(Cat(before, last), x) = Cat(before, Cat(last, x))
    BY Regroup
  <2> QED
    BY <1>2, <2>6, <2>7
<1> QED
  BY <1>5, <1>6

LEMMA FlattenEmpty ==
  ASSUME NEW B, NEW s \in Seq(Seq(B)), Len(s) = 0
  PROVE  FlattenSeq(s) = <<>>
<1>1. s = <<>>
  OBVIOUS
<1> QED
  BY <1>1, FlattenIs

(* One sequence and then the other, by length and by place.                *)
IsCat(B, one, two, both) ==
  /\ both \in Seq(B) /\ Len(both) = Len(one) + Len(two)
  /\ \A i \in 1 .. Len(one) : both[i] = one[i]
  /\ \A i \in 1 .. Len(two) : both[Len(one) + i] = two[i]

LEMMA CatType ==
  ASSUME NEW B, NEW one \in Seq(B), NEW two \in Seq(B)
  PROVE  IsCat(B, one, two, Cat(one, two)) /\ Cat(one, <<>>) = one /\ Cat(<<>>, two) = two
<1>1. one \o two \in Seq(B) /\ Len(one \o two) = Len(one) + Len(two)
  BY ConcatProperties
<1>2. one \o <<>> = one /\ <<>> \o two = two
  BY ConcatEmptySeq
<1>3. ASSUME NEW i \in 1 .. Len(one) PROVE (one \o two)[i] = one[i]
  BY <1>3
<1>4. ASSUME NEW i \in 1 .. Len(two) PROVE (one \o two)[Len(one) + i] = two[i]
  BY <1>4
<1> QED
  BY <1>1, <1>2, <1>3, <1>4 DEF Cat, IsCat

(* Joining two lists is joining one and then the other.                    *)
LEMMA FlattenConcat ==
  ASSUME NEW B, NEW s \in Seq(Seq(B)), NEW t \in Seq(Seq(B))
  PROVE  FlattenSeq(Cat(s, t)) = Cat(FlattenSeq(s), FlattenSeq(t))
<1> DEFINE u == Cat(s, t)
           n == Len(s)
           F == FlattenSeq(s)
<1>1. /\ u \in Seq(Seq(B)) /\ Len(u) = n + Len(t) /\ n \in Nat /\ F \in Seq(B)
      /\ \A i \in 1 .. n : u[i] = s[i]
      /\ \A i \in 1 .. Len(t) : u[n + i] = t[i]
  <2>1. F \in Seq(B) /\ n \in Nat
    BY FlattenType
  <2> HIDE DEF F
  <2>2. /\ u \in Seq(Seq(B)) /\ Len(u) = n + Len(t)
        /\ \A i \in 1 .. n : u[i] = s[i]
        /\ \A i \in 1 .. Len(t) : u[n + i] = t[i]
    <3>1. IsCat(Seq(B), s, t, u)
      BY CatType
    <3> HIDE DEF u
    <3> QED
      BY <3>1 DEF IsCat
  <2> QED
    BY <2>1, <2>2
<1>2. CASE Len(t) = 0
  <2>1. t = <<>>
    BY <1>2
  <2>2. FlattenSeq(t) = <<>> /\ t = <<>>
    BY <1>2, <2>1, FlattenEmpty
  <2>3. u = s /\ Cat(F, <<>>) = F
    BY <1>1, <2>2, CatType
  <2> QED
    BY <2>2, <2>3
<1> HIDE DEF u, F
<1>3. n # 0 => Joined(u)[n] = F
  <2> SUFFICES ASSUME n # 0 PROVE Joined(u)[n] = F
    OBVIOUS
  <2>1. \A i \in 1 .. n : Joined(s)[i] = Joined(u)[i]
    <3>1. n <= Len(s) /\ n <= Len(u) /\ n \in Nat /\ \A i \in 1 .. n : s[i] = u[i]
      <4>1. n <= Len(u) /\ n \in Nat
        BY <1>1
      <4>2. n <= Len(s) /\ \A i \in 1 .. n : s[i] = u[i]
        BY <1>1
      <4> QED
        BY <4>1, <4>2
    <3> QED
      BY <1>1, <3>1, JoinedPrefix
  <2>2. n \in 1 .. n
    BY <1>1
  <2> QED
    BY <2>1, <2>2, FlattenIs DEF F
<1>4. n = 0 => F = <<>>
  BY FlattenEmpty DEF F
<1>5. CASE Len(t) # 0
  <2> DEFINE T == {i \in 1 .. Len(t) : Joined(u)[n + i] # Cat(F, Joined(t)[i])}
  <2>1. T = {}
    <3> SUFFICES ASSUME T # {} PROVE FALSE
      OBVIOUS
    <3>1. PICK i \in T : \A j \in T : i <= j
      <4>1. T \in SUBSET Nat
        OBVIOUS
      <4> HIDE DEF T
      <4> QED
        BY <4>1, LeastNumber
    <3>2. PICK j \in Nat : j = n + i
      BY <1>1
    <3>3. j \in 1 .. Len(u) /\ i \in 1 .. Len(t) /\ u[j] = t[i] /\ t[i] \in Seq(B)
      BY <1>1, <3>2
    <3>4. Joined(u)[j] = IF j = 1 THEN t[i] ELSE Cat(Joined(u)[j - 1], t[i])
      <4>1. \A m \in 1 .. Len(u) : Joined(u)[m] = IF m = 1 THEN u[m] ELSE Joined(u)[m - 1] \o u[m]
        BY <1>1, JoinedDef
      <4> QED
        BY <3>3, <4>1 DEF Cat
    <3>5. Joined(t)[i] = IF i = 1 THEN t[i] ELSE Cat(Joined(t)[i - 1], t[i])
      BY <3>3, JoinedDef DEF Cat
    <3>6. CASE i = 1
      <4>1. Joined(u)[j] = Cat(F, t[i])
        <5>1. CASE n = 0
          <6>1. j = 1
            BY <3>2, <3>6, <5>1
          <6>2. Cat(<<>>, t[i]) = t[i]
            BY <3>3, CatType
          <6> QED
            BY <1>4, <3>4, <5>1, <6>1, <6>2
        <5>2. CASE n # 0
          <6>1. j # 1 /\ j - 1 = n
            BY <1>1, <3>2, <3>6, <5>2
          <6> QED
            BY <1>3, <3>4, <5>2, <6>1
        <5> QED
          BY <5>1, <5>2
      <4> QED
        BY <3>2, <3>5, <3>6, <4>1
    <3>7. CASE i # 1
      <4>1. PICK k \in Nat : k = i - 1 /\ k \in 1 .. Len(t) /\ j - 1 = n + k /\ j # 1 /\ ~ (i <= k)
        BY <1>1, <3>2, <3>3, <3>7
      <4>2. Joined(u)[n + k] = Cat(F, Joined(t)[k])
        <5>1. k \notin T
          <6> HIDE DEF T
          <6> QED
            BY <3>1, <4>1
        <5> QED
          BY <4>1, <5>1
      <4>3. PICK before \in Seq(B) : before = Joined(t)[k]
        BY <4>1, JoinedDef
      <4>4. PICK last \in Seq(B) : last = t[i]
        BY <3>3
      <4>5. Joined(u)[j] = Cat(Cat(F, before), last)
        BY <3>4, <4>1, <4>2, <4>3, <4>4
      <4>6. Joined(t)[i] = Cat(before, last)
        BY <3>5, <3>7, <4>1, <4>3, <4>4
      <4>7. Cat(Cat(F, before), last) = Cat(F, Cat(before, last))
        BY <1>1, Regroup
      <4> QED
        BY <3>2, <4>5, <4>6, <4>7
    <3> QED
      BY <3>6, <3>7
  <2>2. Len(t) \in 1 .. Len(t) /\ Len(u) # 0
    BY <1>1, <1>5
  <2>3. Joined(u)[n + Len(t)] = Cat(F, Joined(t)[Len(t)])
    BY <2>1, <2>2
  <2>4. FlattenSeq(u) = Joined(u)[n + Len(t)] /\ FlattenSeq(t) = Joined(t)[Len(t)]
    BY <1>1, <1>5, <2>2, FlattenIs
  <2> QED
    BY <2>3, <2>4 DEF u, F
<1> QED
  BY <1>2, <1>5 DEF u, F

(* A list of one sequence joins to that sequence.                          *)
LEMMA FlattenOne ==
  ASSUME NEW B, NEW x \in Seq(B)
  PROVE  FlattenSeq(<<x>>) = x
<1> DEFINE s == <<x>>
<1>1. s \in Seq(Seq(B)) /\ Len(s) = 1 /\ s[1] = x
  OBVIOUS
<1> HIDE DEF s
<1>2. \A i \in 1 .. Len(s) : Joined(s)[i] = IF i = 1 THEN s[i] ELSE Joined(s)[i - 1] \o s[i]
  BY <1>1, JoinedDef
<1>3. Joined(s)[1] = x
  BY <1>1, <1>2
<1>4. FlattenSeq(s) = x
  <2>1. FlattenSeq(s) = IF Len(s) = 0 THEN s ELSE Joined(s)[Len(s)]
    BY FlattenIs
  <2> QED
    BY <1>1, <1>3, <2>1
<1> QED
  BY <1>4 DEF s

(* A text in pieces: where a piece begins, and what comes behind it.       *)
FirstPieces(s, n) == FlattenSeq(SubSeq(s, 1, n))

(* The first pieces grow one by one, and the joined sequence begins with   *)
(* them.                                                                   *)
LEMMA Pieces ==
  ASSUME NEW B, NEW s \in Seq(Seq(B))
  PROVE  /\ FirstPieces(s, 0) = <<>> /\ FirstPieces(s, Len(s)) = FlattenSeq(s)
         /\ \A n \in 0 .. Len(s) : FirstPieces(s, n) \in Seq(B)
         /\ \A n \in 1 .. Len(s) : FirstPieces(s, n) = Cat(FirstPieces(s, n - 1), s[n])
         /\ \A n \in 0 .. Len(s) : \E rest \in Seq(B) : FlattenSeq(s) = Cat(FirstPieces(s, n), rest)
<1>1. ASSUME NEW n \in 0 .. Len(s)
      PROVE  /\ SubSeq(s, 1, n) \in Seq(Seq(B)) /\ FirstPieces(s, n) \in Seq(B)
             /\ \E rest \in Seq(B) : FlattenSeq(s) = Cat(FirstPieces(s, n), rest)
  <2>1. SubSeq(s, 1, n) \in Seq(Seq(B)) /\ SubSeq(s, n + 1, Len(s)) \in Seq(Seq(B))
    OBVIOUS
  <2>2. SubSeq(s, 1, n) \o SubSeq(s, n + 1, Len(s)) = SubSeq(s, 1, Len(s))
    <3>1. 1 \in 1 .. Len(s) + 1 /\ n \in 1 - 1 .. Len(s) /\ Len(s) \in n .. Len(s)
      OBVIOUS
    <3> QED
      BY <3>1, ConcatAdjacentSubSeq
  <2>3. SubSeq(s, 1, Len(s)) = s
    OBVIOUS
  <2>4. FlattenSeq(s) = Cat(FirstPieces(s, n), FlattenSeq(SubSeq(s, n + 1, Len(s))))
    BY <2>1, <2>2, <2>3, FlattenConcat DEF Cat, FirstPieces
  <2>5. FlattenSeq(SubSeq(s, n + 1, Len(s))) \in Seq(B) /\ FirstPieces(s, n) \in Seq(B)
    BY <2>1, FlattenType DEF FirstPieces
  <2> QED
    BY <2>1, <2>4, <2>5
<1>2. FirstPieces(s, 0) = <<>> /\ FirstPieces(s, Len(s)) = FlattenSeq(s)
  <2>1. SubSeq(s, 1, 0) = <<>> /\ SubSeq(s, 1, Len(s)) = s /\ <<>> \in Seq(Seq(B)) /\ Len(<<>>) = 0
    OBVIOUS
  <2> QED
    BY <2>1, FlattenEmpty DEF FirstPieces
<1>3. ASSUME NEW n \in 1 .. Len(s) PROVE FirstPieces(s, n) = Cat(FirstPieces(s, n - 1), s[n])
  <2>1. SubSeq(s, 1, n) = Append(SubSeq(s, 1, n - 1), s[n])
    OBVIOUS
  <2>2. SubSeq(s, 1, n - 1) \in Seq(Seq(B)) /\ s[n] \in Seq(B)
    OBVIOUS
  <2> QED
    BY <2>1, <2>2, FlattenAppend DEF FirstPieces, Cat
<1> QED
  BY <1>1, <1>2, <1>3

-----------------------------------------------------------------------------
(* Sequences, piece by piece.                                              *)

(* A sequence of length n with one element more.                           *)
IsAppended(new, q, x, n) ==
  /\ new = Append(q, x) /\ Len(new) = n + 1 /\ DOMAIN new = 1 .. n + 1
  /\ new[n + 1] = x /\ \A i \in 1 .. n : new[i] = q[i]

LEMMA Appended ==
  ASSUME NEW B, NEW q \in Seq(B), NEW x \in B, NEW n \in Nat, n = Len(q)
  PROVE  \E new \in Seq(B) : IsAppended(new, q, x, n)
<1>1. /\ Append(q, x) \in Seq(B) /\ Len(Append(q, x)) = Len(q) + 1
      /\ DOMAIN Append(q, x) = 1 .. Len(Append(q, x))
  OBVIOUS
<1>2. Append(q, x)[Len(q) + 1] = x /\ \A i \in 1 .. Len(q) : Append(q, x)[i] = q[i]
  BY AppendProperties
<1>3. IsAppended(Append(q, x), q, x, n)
  BY <1>1, <1>2 DEF IsAppended
<1> QED
  BY <1>1, <1>3

(* The head of a sequence stays the head when another follows.             *)
LEMMA HeadConcat ==
  ASSUME NEW B, NEW u \in Seq(B), NEW v \in Seq(B), Len(u) >= 1
  PROVE  u \o v \in Seq(B) /\ Len(u \o v) >= Len(u) /\ (u \o v)[1] = u[1]
OBVIOUS

(* From the last down to the first.                                        *)
LEMMA Backwards ==
  ASSUME NEW n \in Nat, NEW T, n + 1 \in T, \A i \in 1 .. n : i + 1 \in T => i \in T
  PROVE  1 \in T
<1> DEFINE D == {d \in 0 .. n : n + 1 - d \notin T}
<1>1. D = {}
  <2> SUFFICES ASSUME D # {} PROVE FALSE
    OBVIOUS
  <2>1. PICK d \in D : \A e \in D : d <= e
    <3>1. D \in SUBSET Nat
      OBVIOUS
    <3> HIDE DEF D
    <3> QED
      BY <3>1, LeastNumber
  <2>2. d \in 0 .. n /\ n + 1 - d \notin T
    OBVIOUS
  <2>3. d # 0
    BY <2>2
  <2>4. d - 1 \in 0 .. n /\ ~ (d <= d - 1) /\ n + 1 - (d - 1) = (n + 1 - d) + 1 /\ n + 1 - d \in 1 .. n
    <3> HIDE DEF D
    <3> QED
      BY <2>2, <2>3
  <2>5. d - 1 \notin D
    <3> HIDE DEF D
    <3> QED
      BY <2>1, <2>4
  <2> QED
    BY <2>2, <2>4, <2>5
<1>2. n \in 0 .. n /\ n + 1 - n = 1
  OBVIOUS
<1> QED
  BY <1>1, <1>2

(* The first elements of a sequence, and a part of it by its head.         *)
LEMMA Prefix ==
  ASSUME NEW B, NEW s \in Seq(B), NEW m \in 0 .. Len(s)
  PROVE  /\ SubSeq(s, 1, m) \in Seq(B) /\ Len(SubSeq(s, 1, m)) = m
         /\ \A i \in 1 .. m : SubSeq(s, 1, m)[i] = s[i]
OBVIOUS

LEMMA SubSeqHead ==
  ASSUME NEW B, NEW s \in Seq(B), NEW m \in 0 .. Len(s), NEW i \in 1 .. Len(s) + 1
  PROVE  /\ i > m => SubSeq(s, i, m) = <<>>
         /\ i <= m => SubSeq(s, i, m) = Cat(<<s[i]>>, SubSeq(s, i + 1, m))
<1>1. i > m => SubSeq(s, i, m) = <<>>
  OBVIOUS
<1>2. ASSUME i <= m PROVE SubSeq(s, i, m) = <<s[i]>> \o SubSeq(s, i + 1, m)
  <2>1. i \in 1 .. Len(s) /\ m \in i .. Len(s)
    BY <1>2
  <2> QED
    BY <2>1, SubSeqRecursiveFirst
<1> QED
  BY <1>1, <1>2 DEF Cat

(* Three elements, a sequence and one element more, by place.              *)
InThree(a, t, b, s) ==
  /\ Len(s) = Len(t) + 4 /\ s[1] = a[1] /\ s[2] = a[2] /\ s[3] = a[3]
  /\ s[Len(t) + 4] = b[1]
  /\ \A j \in 1 .. Len(t) : s[j + 3] = t[j]

LEMMA ThreeParts ==
  ASSUME NEW B, NEW a \in Seq(B), NEW t \in Seq(B), NEW b \in Seq(B), Len(a) = 3, Len(b) = 1
  PROVE  InThree(a, t, b, Cat(Cat(a, t), b))
<1> DEFINE s == Cat(Cat(a, t), b)
<1>1. PICK m \in Nat : m = Len(t)
  OBVIOUS
<1>2. PICK d \in Seq(B) : d = Cat(a, t) /\ IsCat(B, a, t, d)
  <2>1. IsCat(B, a, t, Cat(a, t))
    BY CatType
  <2> QED
    BY <2>1 DEF IsCat
<1>3. IsCat(B, d, b, s)
  BY <1>2, CatType
<1> HIDE DEF s
<1>4. /\ Len(d) = m + 3 /\ \A j \in 1 .. 3 : d[j] = a[j]
      /\ \A j \in 1 .. m : d[3 + j] = t[j]
  <2>1. /\ Len(d) = 3 + m /\ \A j \in 1 .. 3 : d[j] = a[j]
        /\ \A j \in 1 .. m : d[3 + j] = t[j]
    BY <1>1, <1>2, Zenon DEF IsCat
  <2>2. 3 + m = m + 3
    OBVIOUS
  <2> QED
    BY <2>1, <2>2
<1>5. /\ Len(s) = m + 3 + 1 /\ \A j \in 1 .. m + 3 : s[j] = d[j]
      /\ \A j \in 1 .. 1 : s[m + 3 + j] = b[j]
  BY <1>3, <1>4, Zenon DEF IsCat
<1>6. /\ m + 3 + 1 = m + 4 /\ 1 \in 1 .. 1
      /\ 1 \in 1 .. 3 /\ 2 \in 1 .. 3 /\ 3 \in 1 .. 3
      /\ 1 \in 1 .. m + 3 /\ 2 \in 1 .. m + 3 /\ 3 \in 1 .. m + 3
      /\ \A j \in 1 .. m : j + 3 \in 1 .. m + 3 /\ j + 3 = 3 + j
  OBVIOUS
<1>7. ASSUME NEW j \in 1 .. m PROVE s[j + 3] = t[j]
  BY <1>4, <1>5, <1>6, Zenon
<1>8. s[1] = a[1] /\ s[2] = a[2] /\ s[3] = a[3] /\ s[m + 4] = b[1] /\ Len(s) = m + 4
  <2>1. s[1] = a[1] /\ s[2] = a[2] /\ s[3] = a[3]
    <3>1. s[1] = d[1] /\ s[2] = d[2] /\ s[3] = d[3]
      BY <1>5, <1>6, Zenon
    <3>2. d[1] = a[1] /\ d[2] = a[2] /\ d[3] = a[3]
      BY <1>4, <1>6, Zenon
    <3> QED
      BY <3>1, <3>2
  <2>2. s[m + 3 + 1] = b[1]
    BY <1>5, <1>6, Zenon
  <2> QED
    BY <1>5, <1>6, <2>1, <2>2
<1> QED
  BY <1>1, <1>7, <1>8 DEF InThree, s
=============================================================================
