----------------------------- MODULE FoldLemmas -----------------------------
(***************************************************************************)
(* Induction and recursion in a form first-order provers can use: over a   *)
(* set of numbers instead of a predicate, and with the step of a fold as a *)
(* function instead of an operator.  And counting: the places of the       *)
(* members of a finite set in a total order.                               *)
(***************************************************************************)
EXTENDS Integers, Sequences, SequencesExt, FiniteSetTheorems, WellFoundedInduction, TLAPS

(* Every set of naturals that is not empty has a least element. *)
LEMMA LeastNatural ==
    ASSUME NEW A, A \subseteq Nat, A # {}
    PROVE  \E n \in A : \A m \in A : n <= m
  <1>1. PICK n \in A : \A m \in A : ~(<<m, n>> \in OpToRel(<, Nat))
    BY NatLessThanWellFounded, WFMin
  <1>2. \A m \in A : ~(m < n)
    BY <1>1 DEF OpToRel
  <1>3. QED BY <1>2

(* Induction over the naturals. *)
LEMMA NatSetInduction ==
    ASSUME NEW A, 0 \in A, \A n \in Nat : n \in A => n + 1 \in A
    PROVE  Nat \subseteq A
  <1> SUFFICES ASSUME Nat \ A # {} PROVE FALSE
    OBVIOUS
  <1>1. PICK n \in Nat \ A : \A m \in Nat \ A : n <= m
    BY LeastNatural
  <1>2. n - 1 \in Nat /\ n - 1 \in A
    BY <1>1
  <1>3. QED BY <1>1, <1>2

(* A set of numbers that is not empty has a least member, and Min is that
   member. *)
LEMMA MinOfNaturals ==
    ASSUME NEW A, A \subseteq Nat, A # {}
    PROVE  Min(A) \in A /\ \A m \in A : Min(A) <= m
  BY LeastNatural DEF Min

(* A set of numbers with an upper bound has a greatest member, and Max is
   that member. *)
LEMMA MaxUpTo ==
    ASSUME NEW n \in Nat, NEW A, A \subseteq 1 .. n, A # {}
    PROVE  Max(A) \in A /\ \A m \in A : Max(A) >= m
  <1> DEFINE B == {k \in Nat : \E m \in A : k = n - m}
  <1>1. B # {} /\ B \subseteq Nat
    <2>1. PICK m \in A : TRUE OBVIOUS
    <2>2. n - m \in B BY DEF B
    <2>3. QED BY <2>2
  <1>2. PICK k \in B : \A j \in B : k <= j
    BY <1>1, LeastNatural
  <1>3. PICK m \in A : k = n - m
    BY <1>2
  <1>4. \A j \in A : m >= j
    <2> TAKE j \in A
    <2>1. n - j \in B OBVIOUS
    <2>2. QED BY <2>1, <1>2, <1>3
  <1>5. QED BY <1>3, <1>4 DEF Max

(* The elements of a sequence are in the set it is a sequence over. *)
LEMMA ElementsOfSeq ==
    ASSUME NEW S, NEW s \in Seq(S)
    PROVE  /\ Range(s) \subseteq S
           /\ \A i \in 1 .. Len(s) : s[i] \in Range(s)
  <1> DEFINE n == Len(s)
  <1>1. n \in Nat /\ DOMAIN s = 1 .. n /\ \A i \in 1 .. n : s[i] \in S
    OBVIOUS
  <1>2. \A x : x \in Range(s) <=> \E i \in 1 .. n : x = s[i]
    BY <1>1 DEF Range
  <1>3. Range(s) \subseteq S BY <1>1, <1>2
  <1>4. \A i \in 1 .. n : s[i] \in Range(s) BY <1>2
  <1>5. QED BY <1>3, <1>4

(* Appending adds one element to the range. *)
LEMMA RangeOfAppend ==
    ASSUME NEW S, NEW s \in Seq(S), NEW e \in S
    PROVE  Range(Append(s, e)) = Range(s) \cup {e}
  <1> DEFINE n == Len(s)
             t == Append(s, e)
  <1>1. /\ n \in Nat /\ DOMAIN s = 1 .. n /\ DOMAIN t = 1 .. n + 1
        /\ \A i \in 1 .. n : t[i] = s[i]
        /\ t[n + 1] = e
    OBVIOUS
  <1> HIDE DEF n, t
  <1>2. \A x : x \in Range(t) <=> \E i \in 1 .. n + 1 : x = t[i] BY <1>1 DEF Range
  <1>3. \A x : x \in Range(s) <=> \E i \in 1 .. n : x = s[i] BY <1>1 DEF Range
  <1>4. \A i \in 1 .. n + 1 : i \in 1 .. n \/ i = n + 1 BY <1>1
  <1>5. 1 .. n \subseteq 1 .. n + 1 /\ n + 1 \in 1 .. n + 1 BY <1>1
  <1>6. \A x : x \in Range(t) => x \in Range(s) \cup {e} BY <1>1, <1>2, <1>3, <1>4
  <1>7. \A x : x \in Range(s) \cup {e} => x \in Range(t) BY <1>1, <1>2, <1>3, <1>5
  <1>8. QED BY <1>6, <1>7 DEF t

(* Joining adds the elements of the second. *)
LEMMA RangeOfJoin ==
    ASSUME NEW S, NEW s \in Seq(S), NEW t \in Seq(S)
    PROVE  Range(s \o t) = Range(s) \cup Range(t)
  <1> DEFINE n == Len(s)
             m == Len(t)
             u == s \o t
  <1>1. /\ n \in Nat /\ m \in Nat /\ DOMAIN s = 1 .. n /\ DOMAIN t = 1 .. m /\ DOMAIN u = 1 .. n + m
        /\ \A i \in 1 .. n : u[i] = s[i]
        /\ \A i \in 1 .. m : u[n + i] = t[i]
    OBVIOUS
  <1> HIDE DEF n, m, u
  <1>2. /\ \A x : x \in Range(u) <=> \E i \in 1 .. n + m : x = u[i]
        /\ \A x : x \in Range(s) <=> \E i \in 1 .. n : x = s[i]
        /\ \A x : x \in Range(t) <=> \E i \in 1 .. m : x = t[i]
    BY <1>1 DEF Range
  <1>3. \A i \in 1 .. n + m : i \in 1 .. n \/ i - n \in 1 .. m BY <1>1
  <1>4. \A i \in 1 .. n + m : i - n \in 1 .. m => u[i] = t[i - n]
    <2> TAKE i \in 1 .. n + m
    <2>1. i - n \in 1 .. m => n + (i - n) = i BY <1>1
    <2>2. QED BY <2>1, <1>1
  <1>5. \A x \in Range(u) : x \in Range(s) \cup Range(t) BY <1>1, <1>2, <1>3, <1>4
  <1>6. \A i \in 1 .. n : i \in 1 .. n + m BY <1>1
  <1>7. \A i \in 1 .. m : n + i \in 1 .. n + m BY <1>1
  <1>8. \A x \in Range(s) \cup Range(t) : x \in Range(u) BY <1>1, <1>2, <1>6, <1>7
  <1>9. QED BY <1>5, <1>8 DEF u

(* The value of f at rank zero is base, and elsewhere a step from the value at
   the predecessor. *)
FollowsChain(f, S, rank, before, base, step) ==
    \A s \in S : f[s] = IF rank[s] = 0 THEN base ELSE step[<<s, f[before[s]]>>]

(* A function defined along a chain of predecessors exists: each s that is not
   of rank zero has one predecessor, of lower rank, and its value is a step
   from the predecessor's. *)
LEMMA ChainRecursion ==
    ASSUME NEW S, NEW T, NEW rank \in [S -> Nat], NEW before \in [S -> S],
           NEW base \in T, NEW step \in [S \X T -> T],
           \A s \in S : rank[s] # 0 => rank[before[s]] < rank[s]
    PROVE  \E f \in [S -> T] : FollowsChain(f, S, rank, before, base, step)
  <1> DEFINE Upto(n) == {s \in S : rank[s] <= n}
             Next1(f, s) == IF rank[s] = 0 THEN base ELSE step[<<s, f[before[s]]>>]
             Good(f, n) == f \in [Upto(n) -> T] /\ \A s \in Upto(n) : f[s] = Next1(f, s)
             Has == {n \in Nat : \E f : Good(f, n)}
  <1>1. 0 \in Has
    <2> DEFINE f == [s \in Upto(0) |-> base]
    <2>1. \A s \in Upto(0) : rank[s] = 0 OBVIOUS
    <2>2. Good(f, 0) BY <2>1
    <2>3. QED BY <2>2
  <1>2. ASSUME NEW n \in Nat, n \in Has PROVE n + 1 \in Has
    <2>1. PICK f : Good(f, n) BY <1>2
    <2> DEFINE h == [s \in Upto(n + 1) |-> Next1(f, s)]
    <2>2. \A s \in Upto(n + 1) : rank[s] # 0 => before[s] \in Upto(n)
      OBVIOUS
    <2>3. \A s \in Upto(n + 1) : Next1(f, s) \in T
      <3> TAKE s \in Upto(n + 1)
      <3>1. CASE rank[s] = 0 BY <3>1
      <3>2. CASE rank[s] # 0
        <4>1. f[before[s]] \in T BY <3>2, <2>1, <2>2
        <4>2. QED BY <4>1, <3>2
      <3>3. QED BY <3>1, <3>2
    <2>4. \A s \in Upto(n) : s \in Upto(n + 1) /\ h[s] = f[s]
      BY <2>1
    <2>5. \A s \in Upto(n + 1) : h[s] = Next1(h, s)
      <3> TAKE s \in Upto(n + 1)
      <3>1. h[s] = Next1(f, s) OBVIOUS
      <3>2. CASE rank[s] = 0 BY <3>1, <3>2
      <3>3. CASE rank[s] # 0
        <4>1. before[s] \in Upto(n) BY <2>2, <3>3
        <4>2. h[before[s]] = f[before[s]] BY <4>1, <2>4
        <4>3. QED BY <4>2, <3>1, <3>3
      <3>4. QED BY <3>2, <3>3
    <2>6. h \in [Upto(n + 1) -> T] BY <2>3
    <2>7. Good(h, n + 1) BY <2>5, <2>6
    <2> HIDE DEF Good, h
    <2>8. QED BY <2>7
  <1>3. \A n \in Nat : \E f : Good(f, n)
    <2> HIDE DEF Has
    <2>1. Nat \subseteq Has BY <1>1, <1>2, NatSetInduction
    <2>2. QED BY <2>1 DEF Has
  <1>4. ASSUME NEW f, NEW n \in Nat, Good(f, n), NEW g, NEW m \in Nat, Good(g, m),
               NEW r \in S, rank[r] <= n, rank[r] <= m
        PROVE  f[r] = g[r]
    <2> DEFINE Same(s) == rank[s] <= n /\ rank[s] <= m => f[s] = g[s]
               Agree == {k \in Nat : \A s \in S : rank[s] <= k => Same(s)}
    <2>1. 0 \in Agree
      <3> SUFFICES ASSUME NEW s \in S, rank[s] <= 0, rank[s] <= n, rank[s] <= m PROVE f[s] = g[s]
        OBVIOUS
      <3>1. rank[s] = 0 OBVIOUS
      <3>2. f[s] = base /\ g[s] = base BY <1>4, <3>1
      <3>3. QED BY <3>2
    <2>2. ASSUME NEW k \in Nat, k \in Agree PROVE k + 1 \in Agree
      <3> SUFFICES ASSUME NEW s \in S, rank[s] <= k + 1, rank[s] <= n, rank[s] <= m
                   PROVE  f[s] = g[s]
        OBVIOUS
      <3>1. f[s] = Next1(f, s) /\ g[s] = Next1(g, s) BY <1>4
      <3>2. CASE rank[s] = 0 BY <3>1, <3>2
      <3>3. CASE rank[s] # 0
        <4>1. before[s] \in S /\ rank[before[s]] \in Nat /\ rank[before[s]] <= k
              /\ rank[before[s]] <= n /\ rank[before[s]] <= m
          BY <3>3
        <4>2. f[before[s]] = g[before[s]] BY <4>1, <2>2
        <4>3. QED BY <4>2, <3>1, <3>3
      <3>4. QED BY <3>2, <3>3
    <2>3. Nat \subseteq Agree
      <3> HIDE DEF Agree
      <3> QED BY <2>1, <2>2, NatSetInduction
    <2>4. rank[r] \in Agree BY <2>3
    <2>5. QED BY <2>4, <1>4
  <1> DEFINE Part(s) == CHOOSE f : Good(f, rank[s])
             all == [s \in S |-> Part(s)[s]]
  <1>5. \A s \in S : Good(Part(s), rank[s])
    <2> TAKE s \in S
    <2>1. \E f : Good(f, rank[s]) BY <1>3
    <2> HIDE DEF Good
    <2>2. QED BY <2>1
  <1>6. \A s \in S : s \in Upto(rank[s]) OBVIOUS
  <1>7. all \in [S -> T]
    BY <1>5, <1>6
  <1>8. \A s \in S : all[s] = Next1(all, s)
    <2> TAKE s \in S
    <2>1. all[s] = Next1(Part(s), s)
      BY <1>5, <1>6
    <2>2. CASE rank[s] = 0 BY <2>1, <2>2
    <2>3. CASE rank[s] # 0
      <3>1. before[s] \in S /\ rank[before[s]] < rank[s] BY <2>3
      <3>2. Good(Part(s), rank[s]) /\ Good(Part(before[s]), rank[before[s]])
        BY <3>1, <1>5
      <3>3. Part(before[s])[before[s]] = Part(s)[before[s]]
        <4> HIDE DEF Good, Part
        <4> QED BY <3>1, <3>2, <1>4
      <3>4. all[before[s]] = Part(s)[before[s]] BY <3>1, <3>3
      <3> HIDE DEF all, Part, Good
      <3>5. QED BY <3>4, <2>1, <2>3
    <2>4. QED BY <2>2, <2>3
  <1>9. FollowsChain(all, S, rank, before, base, step)
    BY <1>8 DEF FollowsChain
  <1> HIDE DEF all
  <1>10. QED BY <1>7, <1>9

(* f is the function behind a fold of n steps: over the sets of indices, one
   step per index, the greatest last. *)
IsFold(f, n, base, step) ==
    \A s \in SUBSET (1 .. n) :
       f[s] = IF s = {} THEN base ELSE step[<<Max(s), f[s \ {Max(s)}]>>]

(* There is one. *)
LEMMA FoldFunctionExists ==
    ASSUME NEW n \in Nat, NEW T, NEW base \in T, NEW step \in [(1 .. n) \X T -> T]
    PROVE  \E f \in [SUBSET (1 .. n) -> T] : IsFold(f, n, base, step)
  <1> DEFINE S == SUBSET (1 .. n)
             rank == [s \in S |-> IF s = {} THEN 0 ELSE Max(s)]
             before == [s \in S |-> s \ {Max(s)}]
             walk == [p \in S \X T |-> IF p[1] = {} THEN base ELSE step[<<Max(p[1]), p[2]>>]]
  <1>1. \A s \in S : s # {} => Max(s) \in s /\ \A m \in s : Max(s) >= m
    BY MaxUpTo
  <1>m. \A s \in S : s # {} => Max(s) \in 1 .. n
    BY <1>1
  <1>r. rank \in [S -> Nat]
    BY <1>m
  <1>2. \A s \in S : rank[s] = 0 <=> s = {}
    BY <1>m
  <1>3. before \in [S -> S] OBVIOUS
  <1>4. walk \in [S \X T -> T]
    <2> SUFFICES ASSUME NEW p \in S \X T
                 PROVE  (IF p[1] = {} THEN base ELSE step[<<Max(p[1]), p[2]>>]) \in T
      OBVIOUS
    <2>1. CASE p[1] = {} BY <2>1
    <2>2. CASE p[1] # {}
      <3>1. Max(p[1]) \in 1 .. n BY <1>1, <2>2
      <3>2. <<Max(p[1]), p[2]>> \in (1 .. n) \X T BY <3>1
      <3>3. QED BY <3>2, <2>2
    <2>3. QED BY <2>1, <2>2
  <1>5. \A s \in S : rank[s] # 0 => rank[before[s]] < rank[s]
    <2> SUFFICES ASSUME NEW s \in S, rank[s] # 0 PROVE rank[before[s]] < rank[s]
      OBVIOUS
    <2>1. s # {} /\ rank[s] = Max(s) /\ Max(s) \in 1 .. n BY <1>1, <1>2
    <2>2. CASE before[s] = {} BY <2>1, <2>2
    <2>3. CASE before[s] # {}
      <3>1. Max(before[s]) \in before[s] BY <1>1, <1>3, <2>3
      <3>2. Max(before[s]) \in s /\ Max(before[s]) # Max(s) BY <3>1
      <3>3. Max(before[s]) \in 1 .. n BY <3>2
      <3>4. Max(before[s]) < Max(s) BY <3>2, <3>3, <2>1, <1>1
      <3>5. QED BY <3>4, <2>3, <2>1, <1>3
    <2>4. QED BY <2>2, <2>3
  <1>c. \E f \in [S -> T] : FollowsChain(f, S, rank, before, base, walk)
    <2> HIDE DEF S, rank, before, walk
    <2> QED BY <1>r, <1>3, <1>4, <1>5, ChainRecursion
  <1>6. PICK f \in [S -> T] :
            \A s \in S : f[s] = IF rank[s] = 0 THEN base ELSE walk[<<s, f[before[s]]>>]
    <2> HIDE DEF S, rank, before, walk
    <2> QED BY <1>c DEF FollowsChain
  <1>7. ASSUME NEW s \in S
        PROVE  f[s] = IF s = {} THEN base ELSE step[<<Max(s), f[s \ {Max(s)}]>>]
    <2>1. CASE s = {} BY <2>1, <1>6, <1>2
    <2>2. CASE s # {}
      <3>1. f[s] = walk[<<s, f[s \ {Max(s)}]>>] BY <2>2, <1>6, <1>2
      <3>2. f[s \ {Max(s)}] \in T BY <1>6
      <3>3. <<s, f[s \ {Max(s)}]>> \in S \X T BY <3>2
      <3>4. QED BY <3>1, <3>3, <2>2
    <2>3. QED BY <2>1, <2>2
  <1>8. IsFold(f, n, base, step) BY <1>7 DEF IsFold
  <1>9. QED BY <1>6, <1>8

(* Induction along a fold: f is the function behind it, and Along holds the
   pairs of how many steps were taken and what they may have made. *)
LEMMA FoldInduction ==
    ASSUME NEW n \in Nat, NEW T, NEW base \in T, NEW step \in [(1 .. n) \X T -> T], NEW f,
           f[{}] = base,
           \A k \in 1 .. n : f[1 .. k] = IF f[1 .. k - 1] \in T THEN step[<<k, f[1 .. k - 1]>>]
                                         ELSE f[1 .. k],
           NEW Along, <<0, base>> \in Along,
           \A k \in 1 .. n, t \in T : <<k - 1, t>> \in Along => <<k, step[<<k, t>>]>> \in Along
    PROVE  f[1 .. n] \in T /\ <<n, f[1 .. n]>> \in Along
  <1> DEFINE A == {k \in Nat : k <= n => f[1 .. k] \in T /\ <<k, f[1 .. k]>> \in Along}
  <1>1. 0 \in A
    <2>1. 1 .. 0 = {} OBVIOUS
    <2>2. QED BY <2>1
  <1>2. ASSUME NEW k \in Nat, k \in A PROVE k + 1 \in A
    <2> SUFFICES ASSUME k + 1 <= n PROVE f[1 .. k + 1] \in T /\ <<k + 1, f[1 .. k + 1]>> \in Along
      OBVIOUS
    <2>1. f[1 .. k] \in T /\ <<k, f[1 .. k]>> \in Along BY <1>2
    <2>2. k + 1 \in 1 .. n /\ (k + 1) - 1 = k OBVIOUS
    <2>3. f[1 .. k + 1] = step[<<k + 1, f[1 .. k]>>] BY <2>1, <2>2
    <2>4. QED BY <2>1, <2>2, <2>3
  <1>3. Nat \subseteq A
    <2> HIDE DEF A
    <2> QED BY <1>1, <1>2, NatSetInduction
  <1>4. QED BY <1>3

(* What the greatest of the first k indices is, and what is before it. *)
LEMMA FirstIndices ==
    ASSUME NEW n \in Nat, NEW k \in 1 .. n
    PROVE  /\ 1 .. k \in SUBSET (1 .. n) /\ 1 .. k # {}
           /\ Max(1 .. k) = k
           /\ (1 .. k) \ {k} = 1 .. k - 1
           /\ 1 .. k - 1 \in SUBSET (1 .. n)
  <1>1. 1 .. k \in SUBSET (1 .. n) /\ 1 .. k # {} /\ k \in 1 .. k OBVIOUS
  <1>2. Max(1 .. k) \in 1 .. k /\ Max(1 .. k) >= k BY <1>1, MaxUpTo
  <1>3. QED BY <1>1, <1>2
-----------------------------------------------------------------------------
(* An order on S, as the set of its pairs. *)
Orders(R, S) ==
    /\ \A x, y \in S : x # y => <<x, y>> \in R \/ <<y, x>> \in R
    /\ \A x, y, z \in S : <<x, y>> \in R /\ <<y, z>> \in R => <<x, z>> \in R
    /\ \A x \in S : <<x, x>> \notin R

(* The members of S that come before x. *)
Lower(R, S, x) == {y \in S : <<y, x>> \in R}

(* In an order on a finite set each member has a place of its own: the number of
   those below it. *)
LEMMA PlacesInAnOrder ==
    ASSUME NEW S, IsFiniteSet(S), NEW R, Orders(R, S)
    PROVE  /\ Cardinality(S) \in Nat
           /\ \A x \in S : /\ Cardinality(Lower(R, S, x)) \in Nat
                            /\ Cardinality(Lower(R, S, x)) + 1 \in 1 .. Cardinality(S)
           /\ \A x, y \in S : <<x, y>> \in R =>
                 Cardinality(Lower(R, S, x)) < Cardinality(Lower(R, S, y))
           /\ \A i \in 1 .. Cardinality(S) : \E x \in S : Cardinality(Lower(R, S, x)) = i - 1
  <1> DEFINE n == Cardinality(S)
             below(x) == Lower(R, S, x)
             place == [x \in S |-> Cardinality(below(x)) + 1]
  <1>1. n \in Nat BY FS_CardinalityType
  <1>2. \A x \in S : /\ below(x) \in SUBSET S /\ x \notin below(x)
                     /\ IsFiniteSet(below(x)) /\ Cardinality(below(x)) \in Nat
                     /\ Cardinality(below(x)) < n
    <2> TAKE x \in S
    <2>1. below(x) \in SUBSET S /\ x \notin below(x) BY DEF Lower, Orders
    <2> HIDE DEF below
    <2>2. /\ IsFiniteSet(below(x)) /\ Cardinality(below(x)) <= n
          /\ n = Cardinality(below(x)) => S = below(x)
      BY <2>1, FS_Subset
    <2>3. Cardinality(below(x)) \in Nat BY <2>2, FS_CardinalityType
    <2>4. QED BY <2>1, <2>2, <2>3, <1>1
  <1>3. ASSUME NEW x \in S, NEW y \in S, <<x, y>> \in R
        PROVE  Cardinality(below(x)) < Cardinality(below(y))
    <2>1. below(x) \subseteq below(y) /\ x \in below(y) BY <1>3 DEF Lower, Orders
    <2>2. /\ IsFiniteSet(below(y)) /\ x \notin below(x)
          /\ Cardinality(below(x)) \in Nat /\ Cardinality(below(y)) \in Nat
      BY <1>2
    <2> HIDE DEF below
    <2>3. /\ Cardinality(below(x)) <= Cardinality(below(y))
          /\ Cardinality(below(y)) = Cardinality(below(x)) => below(y) = below(x)
      BY <2>1, <2>2, FS_Subset
    <2>4. QED BY <2>1, <2>2, <2>3
  <1> HIDE DEF n, below
  <1>4. place \in [S -> 1 .. n]
    <2>1. \A x \in S : Cardinality(below(x)) + 1 \in 1 .. n BY <1>1, <1>2
    <2>2. QED BY <2>1
  <1>5. IsInjective(place)
    <2> SUFFICES ASSUME NEW x \in S, NEW y \in S, place[x] = place[y], x # y PROVE FALSE
      BY DEF IsInjective
    <2>1. Cardinality(below(x)) = Cardinality(below(y)) BY <1>2
    <2>2. <<x, y>> \in R \/ <<y, x>> \in R BY DEF Orders
    <2>3. QED BY <2>1, <2>2, <1>2, <1>3
  <1>6. place \in Surjection(S, 1 .. n)
    <2>1. place \in Injection(S, 1 .. n) BY <1>4, <1>5 DEF Injection
    <2>2. IsFiniteSet(1 .. n) /\ Cardinality(1 .. n) = n BY <1>1, FS_Interval
    <2> HIDE DEF place
    <2>3. QED BY <2>1, <2>2, FS_Injection DEF n
  <1>7. \A i \in 1 .. n : \E x \in S : Cardinality(below(x)) = i - 1
    <2> TAKE i \in 1 .. n
    <2>1. PICK x \in S : place[x] = i BY <1>6 DEF Surjection
    <2>2. Cardinality(below(x)) = i - 1 BY <2>1, <1>1, <1>2
    <2>3. QED BY <2>2
  <1>8. \A x \in S : Cardinality(below(x)) \in Nat /\ Cardinality(below(x)) + 1 \in 1 .. n BY <1>1, <1>2
  <1>9. QED BY <1>1, <1>3, <1>7, <1>8 DEF n, below
=============================================================================
