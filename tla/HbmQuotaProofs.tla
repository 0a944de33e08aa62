--------------------------- MODULE HbmQuotaProofs ---------------------------
(***************************************************************************)
(* Proofs about HbmQuota, for any number of processes, threads, addresses,  *)
(* sizes and crashes:                                                       *)
(*   TypeCorrect             the types, with the counters in their range;    *)
(*   SlotsAreExact           a live process's slot has what it holds on the  *)
(*                           device, where one thread of it is at work, save *)
(*                           after a DCMI refresh that its own allocation or *)
(*                           free has crossed;                               *)
(*   SlotsAreExactWhileCalm  the same with any threads, until two operations *)
(*                           overlap;                                        *)
(*   QuotaHolds              the memory limit holds until then;              *)
(*   RejectionsAreJust       and only what does not fit is turned away.      *)
(* The accounting is about sums over functions (SumFunction); the facts     *)
(* about them come first.                                                   *)
(***************************************************************************)
EXTENDS HbmQuota, FiniteSetTheorems, WellFoundedInduction, TLAPS

----------------------------------------------------------------------------
(* Sums. *)

(* A set of natural numbers has a least element.                            *)
LEMMA LeastNumber ==
  ASSUME NEW T, T \subseteq Nat, T # {}
  PROVE  \E n \in T : \A k \in T : n <= k
  <1>1. PICK n \in T : \A k \in T : ~(<<k, n>> \in OpToRel(<, Nat))
    BY WFMin, NatLessThanWellFounded
  <1>2. ASSUME NEW k \in T, k < n PROVE FALSE
    <2>1. \A j \in Nat : j < n => <<j, n>> \in OpToRel(<, Nat) BY Zenon DEF OpToRel
    <2> QED BY <1>1, <1>2, <2>1, Zenon
  <1> QED BY <1>2

(* How SumFunctionOnSet is computed: an element is picked and its value     *)
(* added to the sum over the others.                                        *)
Pick(s) == CHOOSE x \in s : TRUE
Step(f, g, s) == IF s = {} THEN 0 ELSE f[Pick(s)] + g[s \ {Pick(s)}]
Table(g, f, S) == g = [s \in SUBSET S |-> Step(f, g, s)]
Sums(f, S) == CHOOSE g : Table(g, f, S)

(* SumFunctionOnSet is the entry for the whole set of such a table.         *)
LEMMA SumIs == ASSUME NEW f, NEW S PROVE SumFunctionOnSet(f, S) = Sums(f, S)[S]
  BY Zenon DEF SumFunctionOnSet, FoldFunctionOnSet, MapThenFoldSet, Sums, Table, Pick, Step

(* The picked element is one of the set, which gets smaller without it.     *)
LEMMA PickFacts ==
  ASSUME NEW s, s # {}, IsFiniteSet(s)
  PROVE  /\ Pick(s) \in s /\ IsFiniteSet(s \ {Pick(s)})
         /\ Cardinality(s) \in Nat \ {0}
         /\ Cardinality(s \ {Pick(s)}) = Cardinality(s) - 1
  <1>1. Pick(s) \in s BY DEF Pick
  <1>2. IsFiniteSet(s \ {Pick(s)}) /\ Cardinality(s \ {Pick(s)}) = Cardinality(s) - 1
    BY <1>1, FS_RemoveElement
  <1>3. Cardinality(s) \in Nat /\ Cardinality(s) # 0 BY FS_CardinalityType, FS_EmptySet
  <1> QED BY <1>1, <1>2, <1>3

(* Two tables of sums agree where the functions do.                         *)
LEMMA SumsAgree ==
  ASSUME NEW S, NEW R, S \subseteq R, IsFiniteSet(S), NEW f, NEW e, NEW g, NEW h,
         Table(g, f, S), Table(h, e, R),
         \A x \in S : f[x] = e[x]
  PROVE  \A s \in SUBSET S : g[s] = h[s]
  <1> DEFINE Bad(s) == g[s] # h[s]
             T == {n \in Nat : \E s \in SUBSET S : Cardinality(s) = n /\ Bad(s)}
  <1>1. \A s \in SUBSET S : IsFiniteSet(s) /\ Cardinality(s) \in Nat
    BY FS_Subset, FS_CardinalityType
  <1>2. ASSUME T # {} PROVE FALSE
    <2>1. PICK n \in T : \A k \in T : n <= k BY <1>2, LeastNumber
    <2>2. PICK s \in SUBSET S : Cardinality(s) = n /\ Bad(s) BY <2>1
    <2>3. g[s] = Step(f, g, s) /\ h[s] = Step(e, h, s) BY <2>2 DEF Table
    <2>4. s # {} BY <2>2, <2>3 DEF Step
    <2>5. /\ Pick(s) \in s /\ IsFiniteSet(s \ {Pick(s)})
          /\ Cardinality(s \ {Pick(s)}) = n - 1 /\ n \in Nat \ {0}
      BY <1>1, <2>2, <2>4, PickFacts
    <2>6. n - 1 \notin T
      <3>1. ASSUME n - 1 \in T PROVE FALSE
        <4>1. n <= n - 1 BY <2>1, <3>1
        <4> QED BY <4>1, <2>5
      <3> QED BY <3>1
    <2>7. g[s \ {Pick(s)}] = h[s \ {Pick(s)}] BY <2>2, <2>5, <2>6
    <2> QED BY <2>2, <2>3, <2>4, <2>5, <2>7 DEF Step
  <1>3. ASSUME NEW s \in SUBSET S, Bad(s) PROVE FALSE
    <2>1. Cardinality(s) \in T BY <1>1, <1>3
    <2> QED BY <2>1, <1>2
  <1> QED BY <1>3

(* There is a table of sums, of integers.                                   *)
LEMMA SumsExist ==
  ASSUME NEW S, IsFiniteSet(S), NEW f \in [S -> Int]
  PROVE  \E g \in [SUBSET S -> Int] : Table(g, f, S)
  <1> DEFINE Upto(n) == {s \in SUBSET S : Cardinality(s) <= n}
             Tab(g, n) == g \in [Upto(n) -> Int] /\ \A s \in Upto(n) : g[s] = Step(f, g, s)
             T == {n \in Nat : ~ \E g \in [Upto(n) -> Int] : Tab(g, n)}
  <1>1. \A s \in SUBSET S : IsFiniteSet(s) /\ Cardinality(s) \in Nat
    BY FS_Subset, FS_CardinalityType
  <1>2. ASSUME T # {} PROVE FALSE
    <2>1. PICK n \in T : \A k \in T : n <= k BY <1>2, LeastNumber
    <2>2. CASE n = 0
      <3> DEFINE g == [s \in Upto(0) |-> 0]
      <3>1. \A s \in Upto(0) : s = {} BY <1>1, FS_EmptySet
      <3>2. Tab(g, 0) BY <3>1 DEF Step
      <3> QED BY <2>1, <2>2, <3>2
    <2>3. CASE n # 0
      <3>1. n - 1 \in Nat /\ n - 1 \notin T
        <4> HIDE DEF T
        <4>1. n \in Nat BY <2>1 DEF T
        <4>2. ASSUME n - 1 \in T PROVE FALSE
          <5>1. n <= n - 1 BY <2>1, <4>2
          <5> QED BY <4>1, <5>1
        <4> QED BY <4>1, <4>2, <2>3
      <3>2. PICK g \in [Upto(n - 1) -> Int] : Tab(g, n - 1) BY <3>1
      <3> DEFINE h == [s \in Upto(n) |-> Step(f, g, s)]
      <3>3. ASSUME NEW s \in Upto(n), s # {}
            PROVE  Pick(s) \in S /\ Pick(s) \in s /\ s \ {Pick(s)} \in Upto(n - 1)
        <4>1. /\ Pick(s) \in s /\ Cardinality(s \ {Pick(s)}) = Cardinality(s) - 1
              /\ Cardinality(s) \in Nat \ {0}
          BY <1>1, <3>3, PickFacts
        <4> QED BY <4>1, <2>1
      <3>4. h \in [Upto(n) -> Int] BY <3>3 DEF Step
      <3>5. \A s \in Upto(n - 1) : s \in Upto(n) /\ h[s] = g[s] BY <1>1, <2>1, <3>2
      <3>6. \A s \in Upto(n) : h[s] = Step(f, h, s) BY <3>3, <3>5 DEF Step
      <3>7. Tab(h, n) BY <3>4, <3>6
      <3> QED BY <3>7, <2>1
    <2> QED BY <2>2, <2>3
  <1> DEFINE c == Cardinality(S)
  <1>3. c \in Nat /\ Upto(c) = SUBSET S BY FS_CardinalityType, FS_Subset
  <1>4. c \notin T BY <1>2
  <1>5. PICK g \in [Upto(c) -> Int] : Tab(g, c) BY <1>3, <1>4
  <1>6. Table(g, f, S) BY <1>3, <1>5 DEF Table
  <1> QED BY <1>3, <1>5, <1>6

(* The table that SumFunctionOnSet chooses is one, and of integers.         *)
LEMMA SumsFacts ==
  ASSUME NEW S, IsFiniteSet(S), NEW f, \A x \in S : f[x] \in Int
  PROVE  /\ Table(Sums(f, S), f, S)
         /\ Sums(f, S) \in [SUBSET S -> Int]
  <1> DEFINE e == [x \in S |-> f[x]]
  <1>1. PICK g \in [SUBSET S -> Int] : Table(g, e, S)
    <2>1. e \in [S -> Int] OBVIOUS
    <2> QED BY <2>1, SumsExist
  <1>2. \A s \in SUBSET S : Step(e, g, s) = Step(f, g, s)
    <2>1. \A s \in SUBSET S : s # {} => Pick(s) \in S BY DEF Pick
    <2> QED BY <2>1 DEF Step
  <1>3. Table(g, f, S) BY <1>1, <1>2 DEF Table
  <1>4. Table(Sums(f, S), f, S) BY <1>3, Zenon DEF Sums
  <1>5. \A s \in SUBSET S : Sums(f, S)[s] = g[s]
    <2> DEFINE h == Sums(f, S)
    <2>1. Table(h, f, S) BY <1>4
    <2> HIDE DEF h
    <2>2. \A s \in SUBSET S : h[s] = g[s] BY <1>3, <2>1, SumsAgree
    <2> QED BY <2>2 DEF h
  <1>6. Sums(f, S) \in [SUBSET S -> Int]
    <2> DEFINE h == Sums(f, S)
    <2>1. Table(h, f, S) /\ \A s \in SUBSET S : h[s] = g[s]
      BY <1>4, <1>5
    <2> HIDE DEF h
    <2>2. h \in [SUBSET S -> Int] BY <1>1, <2>1 DEF Table
    <2> QED BY <2>2 DEF h
  <1> QED BY <1>4, <1>6

(* Functions that agree on a set have the same sum over it.                 *)
LEMMA SumAgree ==
  ASSUME NEW S, IsFiniteSet(S), NEW f, NEW e, \A x \in S : f[x] \in Int /\ f[x] = e[x]
  PROVE  SumFunctionOnSet(f, S) = SumFunctionOnSet(e, S)
  <1> DEFINE g == Sums(f, S)
             h == Sums(e, S)
  <1>1. \A x \in S : e[x] \in Int OBVIOUS
  <1>2. Table(g, f, S) BY SumsFacts
  <1>3. Table(h, e, S) BY <1>1, SumsFacts
  <1> HIDE DEF g, h
  <1>5. \A s \in SUBSET S : g[s] = h[s] BY <1>2, <1>3, SumsAgree
  <1>4. g[S] = h[S] BY <1>5
  <1> QED BY <1>4, SumIs DEF g, h

(* The sum of a finite set of integers is an integer; that over no element  *)
(* is 0, and the picked element may be taken out.                           *)
LEMMA SumStep ==
  ASSUME NEW S, IsFiniteSet(S), NEW f, \A x \in S : f[x] \in Int
  PROVE  /\ SumFunctionOnSet(f, S) \in Int
         /\ S = {} => SumFunctionOnSet(f, S) = 0
         /\ S # {} => SumFunctionOnSet(f, S)
                        = f[Pick(S)] + SumFunctionOnSet(f, S \ {Pick(S)})
  <1> DEFINE g == Sums(f, S)
             R == S \ {Pick(S)}
             h == Sums(f, R)
  <1>1. Table(g, f, S) /\ g \in [SUBSET S -> Int] BY SumsFacts
  <1>2. SumFunctionOnSet(f, S) = g[S] BY SumIs
  <1>3. IsFiniteSet(R) BY FS_Subset
  <1>4. Table(h, f, R) BY <1>3, SumsFacts
  <1>5. SumFunctionOnSet(f, R) = h[R] BY SumIs
  <1>9. R \subseteq S OBVIOUS
  <1> HIDE DEF g, h
  <1>6. g[S] = Step(f, g, S) /\ g[S] \in Int BY <1>1 DEF Table
  <1>8. \A s \in SUBSET R : h[s] = g[s]
    <2> HIDE DEF R
    <2>1. PICK e : Table(g, e, S) /\ \A x \in R : f[x] = e[x] BY <1>1
    <2> QED BY <1>3, <1>4, <1>9, <2>1, SumsAgree
  <1>7. h[R] = g[R] BY <1>8
  <1> QED BY <1>2, <1>5, <1>6, <1>7 DEF Step

(* Any element may be taken out of a sum.                                   *)
LEMMA SumRemove ==
  ASSUME NEW D, IsFiniteSet(D), NEW f, \A x \in D : f[x] \in Int, NEW x \in D
  PROVE  SumFunctionOnSet(f, D) = f[x] + SumFunctionOnSet(f, D \ {x})
  <1> DEFINE Sum(s) == SumFunctionOnSet(f, s)
             Good(s) == \A y \in s : Sum(s) = f[y] + Sum(s \ {y})
             T == {n \in Nat : \E s \in SUBSET D : Cardinality(s) = n /\ ~Good(s)}
  <1>1. \A s \in SUBSET D : IsFiniteSet(s) /\ Cardinality(s) \in Nat
    BY FS_Subset, FS_CardinalityType
  <1>2. ASSUME NEW s \in SUBSET D
        PROVE  Sum(s) \in Int /\ (s # {} => Pick(s) \in s /\ Sum(s) = f[Pick(s)] + Sum(s \ {Pick(s)}))
    <2>1. IsFiniteSet(s) /\ \A y \in s : f[y] \in Int BY <1>1
    <2> QED BY <2>1, SumStep DEF Pick
  <1> HIDE DEF Sum
  <1>3. ASSUME T # {} PROVE FALSE
    <2>1. PICK n \in T : \A k \in T : n <= k BY <1>3, LeastNumber
    <2>2. PICK s \in SUBSET D : Cardinality(s) = n /\ ~Good(s) BY <2>1
    <2>3. PICK y \in s : Sum(s) # f[y] + Sum(s \ {y}) BY <2>2
    <2> DEFINE c == Pick(s)
    <2>4. c \in s /\ Sum(s) = f[c] + Sum(s \ {c}) BY <1>2, <2>2, <2>3
    <2> HIDE DEF c
    <2>5. y # c BY <2>3, <2>4
    <2>6. n \in Nat BY <2>1
    <2>7. ASSUME NEW z \in s PROVE Good(s \ {z})
      <3>1. Cardinality(s \ {z}) = n - 1 /\ n # 0 /\ s \ {z} \in SUBSET D
        BY <1>1, <2>2, FS_RemoveElement, FS_EmptySet
      <3>2. n - 1 \notin T
        <4> HIDE DEF T
        <4>1. ASSUME n - 1 \in T PROVE FALSE
          <5>1. n <= n - 1 BY <2>1, <4>1
          <5> QED BY <2>6, <5>1
        <4> QED BY <4>1
      <3>3. n - 1 \in Nat BY <2>6, <3>1
      <3> HIDE DEF Good
      <3> QED BY <3>1, <3>2, <3>3
    <2>8. Sum(s \ {c}) = f[y] + Sum((s \ {c}) \ {y}) BY <2>4, <2>5, <2>7
    <2>9. Sum(s \ {y}) = f[c] + Sum((s \ {y}) \ {c}) BY <2>4, <2>5, <2>7
    <2>10. (s \ {c}) \ {y} = (s \ {y}) \ {c} OBVIOUS
    <2>11. f[c] \in Int /\ f[y] \in Int /\ Sum((s \ {c}) \ {y}) \in Int BY <1>2, <2>2, <2>4
    <2> DEFINE u == Sum((s \ {c}) \ {y})
    <2>12. Sum(s) = f[c] + (f[y] + u) /\ Sum(s \ {y}) = f[c] + u /\ u \in Int
      BY <2>4, <2>8, <2>9, <2>10, <2>11
    <2> HIDE DEF u
    <2> QED BY <2>3, <2>11, <2>12
  <1>4. Cardinality(D) \notin T BY <1>3
  <1>5. Good(D)
    <2> HIDE DEF Good
    <2> QED BY <1>1, <1>4
  <1> QED BY <1>5 DEF Sum

(* A sum is monotone, and 0 if every element is.                            *)
LEMMA SumOrder ==
  ASSUME NEW D, IsFiniteSet(D), NEW f, NEW e,
         \A x \in D : f[x] \in Int /\ e[x] \in Int /\ f[x] <= e[x]
  PROVE  /\ SumFunctionOnSet(f, D) <= SumFunctionOnSet(e, D)
         /\ (\A x \in D : f[x] = 0) => SumFunctionOnSet(f, D) = 0
  <1> DEFINE F(s) == SumFunctionOnSet(f, s)
             E(s) == SumFunctionOnSet(e, s)
             Good(s) == F(s) <= E(s) /\ ((\A x \in D : f[x] = 0) => F(s) = 0)
             T == {n \in Nat : \E s \in SUBSET D : Cardinality(s) = n /\ ~Good(s)}
  <1>1. \A s \in SUBSET D : IsFiniteSet(s) /\ Cardinality(s) \in Nat
    BY FS_Subset, FS_CardinalityType
  <1>2. ASSUME NEW s \in SUBSET D
        PROVE  /\ F(s) \in Int /\ E(s) \in Int
               /\ s = {} => F(s) = 0 /\ E(s) = 0
               /\ s # {} => /\ F(s) = f[Pick(s)] + F(s \ {Pick(s)})
                            /\ E(s) = e[Pick(s)] + E(s \ {Pick(s)})
    <2>1. IsFiniteSet(s) /\ (\A y \in s : f[y] \in Int) /\ (\A y \in s : e[y] \in Int) BY <1>1
    <2> QED BY <2>1, SumStep
  <1> HIDE DEF F, E
  <1>3. ASSUME T # {} PROVE FALSE
    <2>1. PICK n \in T : \A k \in T : n <= k BY <1>3, LeastNumber
    <2>2. PICK s \in SUBSET D : Cardinality(s) = n /\ ~Good(s) BY <2>1
    <2>3. s # {} BY <1>2, <2>2
    <2> DEFINE c == Pick(s)
               r == s \ {c}
    <2>4. c \in s /\ Cardinality(r) = n - 1 /\ n \in Nat \ {0} BY <1>1, <2>2, <2>3, PickFacts
    <2>5. n - 1 \notin T
      <3> HIDE DEF T
      <3>1. ASSUME n - 1 \in T PROVE FALSE
        <4>1. n <= n - 1 BY <2>1, <3>1
        <4> QED BY <2>4, <4>1
      <3> QED BY <3>1
    <2>6. Good(r)
      <3> HIDE DEF Good
      <3> QED BY <2>2, <2>4, <2>5
    <2>7. F(s) = f[c] + F(r) /\ E(s) = e[c] + E(r) BY <1>2, <2>2, <2>3
    <2>8. r \in SUBSET D /\ c \in D BY <2>2, <2>4
    <2> HIDE DEF c, r
    <2>9. F(r) \in Int /\ E(r) \in Int BY <1>2, <2>8
    <2> QED BY <2>2, <2>6, <2>7, <2>8, <2>9
  <1>4. Cardinality(D) \notin T BY <1>3
  <1>5. Good(D)
    <2> HIDE DEF Good
    <2> QED BY <1>1, <1>4
  <1> QED BY <1>5 DEF F, E

(* The same about functions and their domains.                              *)
LEMMA SumNat ==
  ASSUME NEW D, IsFiniteSet(D), NEW f \in [D -> Nat]
  PROVE  /\ SumFunction(f) \in Nat
         /\ \A x \in D : f[x] <= SumFunction(f)
         /\ (\A x \in D : f[x] = 0) => SumFunction(f) = 0
  <1> DEFINE z == [x \in D |-> 0]
  <1>1. SumFunction(f) = SumFunctionOnSet(f, D) BY Zenon DEF SumFunction
  <1>2. ASSUME NEW S \in SUBSET D PROVE SumFunctionOnSet(f, S) \in Nat
    <2>1. IsFiniteSet(S) BY FS_Subset
    <2>2. \A x \in S : z[x] \in Int /\ f[x] \in Int /\ z[x] <= f[x] /\ z[x] = 0 OBVIOUS
    <2>3. SumFunctionOnSet(z, S) = 0 /\ SumFunctionOnSet(z, S) <= SumFunctionOnSet(f, S)
      <3> HIDE DEF z
      <3> QED BY <2>1, <2>2, SumOrder
    <2>4. SumFunctionOnSet(f, S) \in Int BY <2>1, <2>2, SumStep
    <2> QED BY <2>3, <2>4
  <1>3. ASSUME NEW x \in D PROVE f[x] <= SumFunctionOnSet(f, D)
    <2>1. SumFunctionOnSet(f, D) = f[x] + SumFunctionOnSet(f, D \ {x}) BY SumRemove
    <2>2. SumFunctionOnSet(f, D \ {x}) \in Nat BY <1>2
    <2> QED BY <2>1, <2>2
  <1>4. (\A x \in D : f[x] = 0) => SumFunctionOnSet(f, D) = 0
    <2>1. \A x \in D : f[x] \in Int /\ f[x] <= f[x] OBVIOUS
    <2> QED BY <2>1, SumOrder
  <1> QED BY <1>1, <1>2, <1>3, <1>4

(* A sum grows with its terms.                                              *)
LEMMA SumMonotone ==
  ASSUME NEW D, IsFiniteSet(D), NEW f \in [D -> Nat], NEW e \in [D -> Nat],
         \A x \in D : f[x] <= e[x]
  PROVE  SumFunction(f) <= SumFunction(e)
  <1>1. SumFunction(f) = SumFunctionOnSet(f, D) /\ SumFunction(e) = SumFunctionOnSet(e, D)
    BY Zenon DEF SumFunction
  <1>2. \A x \in D : f[x] \in Int /\ e[x] \in Int /\ f[x] <= e[x] OBVIOUS
  <1> QED BY <1>1, <1>2, SumOrder

(* Changing one value changes the sum by the difference.                    *)
LEMMA SumChange ==
  ASSUME NEW D, IsFiniteSet(D), NEW f \in [D -> Nat], NEW e \in [D -> Nat], NEW x \in D,
         \A y \in D \ {x} : f[y] = e[y]
  PROVE  SumFunction(e) = SumFunction(f) - f[x] + e[x]
  <1>1. SumFunction(f) = SumFunctionOnSet(f, D) /\ SumFunction(e) = SumFunctionOnSet(e, D)
    BY Zenon DEF SumFunction
  <1> DEFINE r == SumFunctionOnSet(f, D \ {x})
  <1>2. IsFiniteSet(D \ {x}) BY FS_Subset
  <1>3. SumFunctionOnSet(e, D \ {x}) = r
    <2>1. \A y \in D \ {x} : f[y] \in Int /\ f[y] = e[y] OBVIOUS
    <2> QED BY <1>2, <2>1, SumAgree
  <1>4. SumFunction(f) = f[x] + r BY <1>1, SumRemove
  <1>5. SumFunction(e) = e[x] + r BY <1>1, <1>3, SumRemove
  <1>6. r \in Int
    <2>1. \A y \in D \ {x} : f[y] \in Int OBVIOUS
    <2> QED BY <1>2, <2>1, SumStep
  <1> HIDE DEF r
  <1> QED BY <1>4, <1>5, <1>6

----------------------------------------------------------------------------
(* The inductive invariant. *)

(* The thread is inside an operation.                                       *)
Busy(t) == pc[t] \notin {"app", "gone"}

(* A thread outside an operation has its locals blank, a scan is at a slot, *)
(* and a refresh that has loaded a pid has a usage to store.                *)
LocalInv ==
  /\ \A t \in Threads :
       /\ ~Busy(t) => local[t] = Blank
       /\ pc[t] \in {"scan", "swap"} => local[t].at \in Procs
  /\ storing # 0 => dcmi[storing] # Idle

(* The types, with the locals of idle and scanning threads.                 *)
Typed == TypeOK /\ LocalInv

(* A live process has its slot; a dead one has nothing on the device.  Only *)
(* the slots of the dead are swapped out.                                   *)
LifeInv ==
  /\ \A p \in Procs :
       /\ alive[p] => held[p]
       /\ ~alive[p] => \A a \in Ptrs : device[p][a] = 0
       /\ \A t \in Threads : P(t) = p => (pc[t] = "gone" <=> ~alive[p])
  /\ \A t \in Threads : pc[t] = "swap" => ~alive[local[t].at]
  /\ reaping # 0 => ~alive[reaping]

(* While calm, at most one operation is under way, and no refresh has been  *)
(* crossed.                                                                 *)
CalmInv ==
  calm => /\ \A t, u \in Threads : Busy(t) /\ Busy(u) => t = u
          /\ \A t \in Threads : Busy(t) => ~Reaping /\ ~Refreshing
          /\ Reaping => ~Refreshing
          /\ crossed = {} /\ blurred = {}

(* The places where a slot and the device are out of step.                  *)
Open == {"record", "unmap", "free_slot"}

(* What a refresh has read of a process that it was not crossed by is still *)
(* what the process holds.                                                  *)
DcmiInv ==
  \A p \in Procs : dcmi[p] # Idle /\ p \notin crossed =>
    /\ \A t \in Threads : P(t) = p => pc[t] \notin Open
    /\ alive[p] => dcmi[p] = RealUsage(p)

(* One thread of each process allocates and frees.                          *)
OneThread == \A t, u \in Threads : P(t) = P(u) => t = u

(* The table has what the device holds at an address.                       *)
Recorded(p, a) == handle_map[p][a] = device[p][a]

(* The process of t at the three places where its slot is behind: what      *)
(* is missing from the slot, or still in it, is what t has in its hands     *)
(* (unless the slot is blurred).                                            *)
ExactAt(t) ==
  LET p == P(t)
      a == local[t].ptr
  IN
  /\ pc[t] = "record" =>
       /\ p \notin blurred => hbm_used[p] + local[t].size = RealUsage(p)
       /\ device[p][a] = local[t].size
       /\ \A b \in Ptrs \ {a} : Recorded(p, b)
  /\ pc[t] = "unmap" =>
       /\ p \notin blurred => hbm_used[p] = RealUsage(p) + handle_map[p][a]
       /\ device[p][a] = 0
       /\ \A b \in Ptrs \ {a} : Recorded(p, b)
  /\ pc[t] = "free_slot" =>
       /\ p \notin blurred => hbm_used[p] = RealUsage(p) + local[t].size
       /\ \A b \in Ptrs : Recorded(p, b)

(* A process whose slot and table agree with the device.                    *)
Settled(p) ==
  /\ p \notin blurred => hbm_used[p] = RealUsage(p)
  /\ \A b \in Ptrs : Recorded(p, b)

(* A process is behind by what its threads have in their hands, or settled. *)
ExactOf(p) ==
  /\ \A t \in Threads : P(t) = p => ExactAt(t)
  /\ (\A t \in Threads : P(t) = p => pc[t] \notin Open) => Settled(p)

(* The inductive invariant of SlotExact.  With several threads of a process *)
(* it lasts until operations overlap: then a thread may record an address   *)
(* that another has freed and not yet unmapped.                             *)
ExactInv == OneThread \/ calm => \A p \in Procs : alive[p] => ExactOf(p)

(* The sum of what a table has before a slot, and from it on.               *)
Prefix(f, i) == SumFunction([p \in Procs |-> IF p < i THEN f[p] ELSE 0])
Suffix(f, i) == SumFunction([p \in Procs |-> IF p < i THEN 0 ELSE f[p]])

(* What each process really holds.                                          *)
Usages == [p \in Procs |-> RealUsage(p)]

(* A value of the counter the quota may be decided on.                      *)
Sound(n) == DeviceTotal <= n /\ n <= Limit /\ n <= SumFunction(hbm_used)

(* What t asks for stays within the limit, or is more than the device has.  *)
Fits(t) == DeviceTotal + local[t].size <= Limit \/ local[t].size > DeviceBytes

(* What a thread on its way through recalculate_usage and                   *)
(* check_memory_quota knows: the slots it has passed are summed up, what it *)
(* has yet to pass fits beside them, and the value it decides on is sound.  *)
QuotaAt(t) ==
  /\ pc[t] \in {"scan", "swap"} =>
       /\ Prefix(Usages, local[t].at) <= local[t].total
       /\ local[t].total + Suffix(Usages, local[t].at) <= Limit
       /\ local[t].total <= Prefix(hbm_used, local[t].at)
  /\ pc[t] \in {"clean", "current", "fix"} => Sound(local[t].total)
  /\ pc[t] = "fix" => local[t].seen = memory_used
  /\ pc[t] = "used" => Sound(memory_used)
  /\ pc[t] = "reserve" => Sound(memory_used) /\ local[t].seen = memory_used
  /\ pc[t] = "malloc" => Fits(t)

(* The inductive invariant of QuotaEnforced.                                *)
QuotaInv == calm => WithinQuota /\ \A t \in Threads : QuotaAt(t)

----------------------------------------------------------------------------
(* Types. *)

(* The local variables of a thread.                                         *)
Locals == [size : Bytes, ptr : Ptrs, at : 1 .. NProcs + 1, total : Bytes,
           cleaned : Bytes, seen : Bytes, back : {"app", "used"}, slip : BOOLEAN]

(* Blank is of that type, and a scan that starts from it is a fresh one.    *)
LEMMA BlankType == Blank \in Locals /\ Blank.at = 1 /\ Blank.total = 0
  BY ProcsAssumption, PtrsAssumption DEF Blank, Locals, Bytes

(* What a process holds is a number of bytes.                               *)
LEMMA UsageType ==
  ASSUME NEW f \in [Procs -> [Ptrs -> Bytes]], NEW p \in Procs
  PROVE  SumFunction(f[p]) \in Nat
  <1>1. f[p] \in [Ptrs -> Nat] BY DEF Bytes
  <1> QED BY <1>1, SumNat, PtrsAssumption

(* atomic_saturating_sub stays between 0 and where it was.                  *)
LEMMA MinusType == ASSUME NEW a \in Nat, NEW b \in Nat PROVE Minus(a, b) \in 0 .. a
  BY DEF Minus

(* The local variables of a thread, one by one.                             *)
LEMMA LocalType ==
  ASSUME TypeOK, NEW t \in Threads
  PROVE  /\ local[t] \in Locals /\ local \in [Threads -> Locals]
         /\ local[t].size \in Nat /\ local[t].ptr \in Ptrs /\ local[t].at \in 1 .. NProcs + 1
         /\ local[t].total \in Nat /\ local[t].cleaned \in Nat /\ local[t].seen \in Nat
         /\ local[t].back \in {"app", "used"} /\ local[t].slip \in BOOLEAN
         /\ P(t) \in Procs
  BY ThreadsAssumption DEF TypeOK, Locals, Bytes, P

(* The types hold at first.                                                 *)
LEMMA TypedInit == Init => Typed
  <1> SUFFICES ASSUME Init PROVE Typed OBVIOUS
  <1> USE DEF Init
  <1>1. memory_used \in 0 .. U64 - 1 BY BytesAssumption
  <1>2. local \in [Threads -> Locals] BY BlankType
  <1>3. /\ hbm_used \in [Procs -> Bytes] /\ handle_map \in [Procs -> [Ptrs -> Bytes]]
        /\ device \in [Procs -> [Ptrs -> Bytes]] BY DEF Bytes, NoBytes
  <1>4. calls \in 0 .. MaxCalls /\ crashes \in 0 .. MaxCrashes BY BoundsAssumption
  <1>5. pc \in [Threads -> Places] BY DEF Places
  <1>6. reaper \in Bytes \cup {Idle} /\ dcmi \in [Procs -> Bytes \cup {Idle}]
        /\ held \in [Procs -> BOOLEAN] /\ alive \in [Procs -> BOOLEAN] /\ calm \in BOOLEAN
        /\ reaping \in Procs \cup {0} /\ storing \in Procs \cup {0}
        /\ crossed \subseteq Procs /\ blurred \subseteq Procs /\ stray \subseteq Procs
    OBVIOUS
  <1>7. TypeOK BY <1>1, <1>2, <1>3, <1>4, <1>5, <1>6 DEF TypeOK, Locals
  <1>8. LocalInv BY DEF LocalInv, Busy
  <1> QED BY <1>7, <1>8 DEF Typed

(* A step of a thread leaves the manager's threads alone, and with them     *)
(* what they noted, save for crossing a refresh.                            *)
Marks(t) ==
  /\ UNCHANGED <<alive, daemon, crashes, blurred, stray>> /\ calls' \in 0 .. MaxCalls
  /\ \/ UNCHANGED <<device, crossed>> /\ (pc'[t] \in Open => pc[t] \in Open)
     \/ Cross(t)

(* A step of a thread that leaves the processes alone keeps the types if    *)
(* what it writes has them.                                                 *)
LEMMA TypedThread ==
  ASSUME Typed, NEW t \in Threads, NEW place \in Places, NEW l \in Locals,
         memory_used' \in 0 .. U64 - 1,
         hbm_used' \in [Procs -> Bytes], held' \in [Procs -> BOOLEAN],
         handle_map' \in [Procs -> [Ptrs -> Bytes]], device' \in [Procs -> [Ptrs -> Bytes]],
         calm' \in BOOLEAN, Marks(t),
         pc' = [pc EXCEPT ![t] = place], local' = [local EXCEPT ![t] = l],
         place \in {"app", "gone"} => l = Blank,
         place \in {"scan", "swap"} => l.at \in Procs
  PROVE  Typed'
  <1> USE DEF Typed
  <1>1. pc' \in [Threads -> Places] /\ local' \in [Threads -> Locals] BY DEF TypeOK, Locals
  <1>2. TypeOK'
    <2>1. crossed' \subseteq Procs BY LocalType DEF Marks, Cross, TypeOK
    <2> QED BY <1>1, <2>1 DEF TypeOK, daemon, Locals, Marks
  <1>3. ASSUME NEW u \in Threads
        PROVE  /\ ~Busy(u)' => local'[u] = Blank
               /\ pc'[u] \in {"scan", "swap"} => local'[u].at \in Procs
    <2>1. CASE u = t
      <3>1. pc'[u] = place /\ local'[u] = l BY <2>1 DEF TypeOK
      <3> QED BY <3>1 DEF Busy
    <2>2. CASE u # t
      <3>1. pc'[u] = pc[u] /\ local'[u] = local[u] BY <2>2 DEF TypeOK
      <3> QED BY <3>1 DEF Busy, LocalInv
    <2> QED BY <2>1, <2>2
  <1>4. LocalInv' BY <1>3 DEF LocalInv, Blank, daemon, Marks
  <1> QED BY <1>2, <1>4

(* The scan of a slot keeps the types.                                      *)
LEMMA TypedScan == ASSUME Typed, NEW t \in Threads, ScanSlot(t) PROVE Typed'
  <1> DEFINE i == local[t].at
             c == local[t].cleaned
             s == local[t].total + (IF held[i] THEN Mine(i, t) ELSE 0)
             l == [local[t] EXCEPT !.at = i + 1, !.total = s]
  <1>1. i \in Procs /\ pc[t] = "scan" /\ TypeOK BY DEF ScanSlot, Typed, LocalInv
  <1>2. /\ memory_used' \in 0 .. U64 - 1 /\ handle_map' \in [Procs -> [Ptrs -> Bytes]]
        /\ device' \in [Procs -> [Ptrs -> Bytes]] /\ calm' \in BOOLEAN /\ hbm_used' \in [Procs -> Bytes]
    BY <1>1 DEF ScanSlot, procs, TypeOK
  <1>3. UNCHANGED <<alive, daemon, calls, crashes, marks, device>>
    BY DEF ScanSlot, procs, counts
  <1>4. CASE pc' = [pc EXCEPT ![t] = "swap"] /\ held' = [held EXCEPT ![i] = FALSE] /\ UNCHANGED local
    <2>1. local' = [local EXCEPT ![t] = local[t]] /\ local[t] \in Locals
      BY <1>1, <1>4, LocalType DEF Locals
    <2>2. held' \in [Procs -> BOOLEAN] BY <1>1, <1>4 DEF TypeOK
    <2>3. "swap" \in Places BY DEF Places
    <2>4. pc'[t] = "swap" BY <1>1, <1>4 DEF TypeOK
    <2>5. Marks(t) BY <1>1, <1>3, <2>4 DEF Marks, marks, Open, TypeOK
    <2> QED BY <1>1, <1>2, <1>4, <2>1, <2>2, <2>3, <2>5, TypedThread
  <1>5. CASE /\ local' = [local EXCEPT ![t].at = i + 1, ![t].total = s]
             /\ pc' = [pc EXCEPT ![t] = NextOfScan(i, c)] /\ held' = held
    <2>1. Mine(i, t) \in Nat BY <1>1 DEF TypeOK, Bytes, Mine
    <2>2. s \in Nat BY <1>1, <2>1, LocalType
    <2>3. l \in Locals
      <3>1. i + 1 \in 1 .. NProcs + 1 BY <1>1, ProcsAssumption DEF Procs
      <3>2. local[t] \in Locals BY <1>1, LocalType
      <3> HIDE DEF i, s
      <3> QED BY <2>2, <3>1, <3>2 DEF Locals, Bytes
    <2>4. local' = [local EXCEPT ![t] = l] BY <1>1, <1>5, LocalType DEF Locals
    <2> DEFINE place == NextOfScan(i, c)
    <2>5. place \in {"scan", "clean", "current"} /\ (place = "scan" => i < NProcs) BY DEF NextOfScan
    <2>6. pc'[t] = place BY <1>1, <1>5 DEF TypeOK
    <2>7. l.at = i + 1 BY <1>1, LocalType DEF Locals
    <2> HIDE DEF place, l
    <2>8. Marks(t) BY <1>1, <1>3, <2>5, <2>6 DEF Marks, marks, Open, TypeOK
    <2>9. place \in Places /\ (place \in {"scan", "swap"} => l.at \in Procs)
      BY <1>1, <2>5, <2>7, ProcsAssumption DEF Places, Procs
    <2>10. held' \in [Procs -> BOOLEAN] BY <1>1, <1>5 DEF TypeOK
    <2> QED BY <1>2, <1>5, <2>3, <2>4, <2>5, <2>8, <2>9, <2>10, TypedThread DEF place
  <1> QED BY <1>4, <1>5 DEF ScanSlot

(* So does swapping out a slot.                                             *)
LEMMA TypedSwap == ASSUME Typed, NEW t \in Threads, SwapOut(t) PROVE Typed'
  <1> DEFINE i == local[t].at
             c == local[t].cleaned + Mine(i, t)
             l == [local[t] EXCEPT !.at = i + 1, !.cleaned = c]
             place == NextOfScan(i, c)
  <1>1. i \in Procs /\ pc[t] = "swap" /\ TypeOK BY DEF SwapOut, Typed, LocalInv
  <1>2. /\ memory_used' \in 0 .. U64 - 1 /\ handle_map' \in [Procs -> [Ptrs -> Bytes]]
        /\ device' \in [Procs -> [Ptrs -> Bytes]] /\ calm' \in BOOLEAN /\ held' \in [Procs -> BOOLEAN]
    BY <1>1 DEF SwapOut, procs, TypeOK
  <1>3. UNCHANGED <<alive, daemon, calls, crashes, marks, device>>
    BY DEF SwapOut, procs, counts
  <1>4. Mine(i, t) \in Nat /\ hbm_used[i] - Mine(i, t) \in Nat BY <1>1 DEF TypeOK, Bytes, Mine
  <1>5. c \in Nat BY <1>1, <1>4, LocalType
  <1>6. hbm_used' \in [Procs -> Bytes]
    <2>1. hbm_used' = [hbm_used EXCEPT ![i] = hbm_used[i] - Mine(i, t)] BY DEF SwapOut
    <2> QED BY <1>1, <1>4, <2>1 DEF TypeOK, Bytes
  <1>7. l \in Locals
    <2>1. i + 1 \in 1 .. NProcs + 1 BY <1>1, ProcsAssumption DEF Procs
    <2>2. local[t] \in Locals BY <1>1, LocalType
    <2> HIDE DEF i, c
    <2> QED BY <1>5, <2>1, <2>2 DEF Locals, Bytes
  <1>8. local' = [local EXCEPT ![t] = l] BY <1>1, LocalType DEF SwapOut, Locals
  <1>9. place \in {"scan", "clean", "current"} /\ (place = "scan" => i < NProcs) BY DEF NextOfScan
  <1>10. pc' = [pc EXCEPT ![t] = place] /\ pc'[t] = place BY <1>1 DEF SwapOut, TypeOK
  <1>11. l.at = i + 1 BY <1>1, LocalType DEF Locals
  <1> HIDE DEF place, l, c
  <1>12. Marks(t) BY <1>1, <1>3, <1>9, <1>10 DEF Marks, marks, Open, TypeOK
  <1>13. place \in Places /\ (place \in {"scan", "swap"} => l.at \in Procs)
    BY <1>1, <1>9, <1>11, ProcsAssumption DEF Places, Procs
  <1> QED BY <1>2, <1>6, <1>7, <1>8, <1>9, <1>10, <1>12, <1>13, TypedThread

(* recalculate_usage is entered with a fresh scan.                          *)
LEMMA TypedRecalculate ==
  ASSUME Typed, NEW t \in Threads, NEW from, NEW back \in {"app", "used"},
         Recalculate(t, from, back),
         memory_used' \in 0 .. U64 - 1, calm' \in BOOLEAN,
         UNCHANGED <<hbm_used, held, procs>>, Marks(t)
  PROVE  Typed'
  <1> DEFINE l == [local[t] EXCEPT !.at = 1, !.total = 0, !.cleaned = 0,
                              !.back = back, !.slip = FALSE]
  <1>1. l \in Locals /\ l.at \in Procs
    <2>1. local[t] \in Locals BY LocalType DEF Typed
    <2>2. 1 \in Procs /\ 1 \in 1 .. NProcs + 1 BY ProcsAssumption DEF Procs
    <2> DEFINE m == [local[t] EXCEPT !.at = 1, !.total = 0, !.cleaned = 0]
    <2>3. m \in Locals /\ m.at = 1 BY <2>1, <2>2 DEF Locals, Bytes
    <2>4. l = [m EXCEPT !.back = back, !.slip = FALSE] OBVIOUS
    <2> HIDE DEF m, l
    <2> QED BY <2>2, <2>3, <2>4 DEF Locals
  <1>2. local' = [local EXCEPT ![t] = l] BY LocalType DEF Recalculate, Typed, Locals
  <1>3. pc' = [pc EXCEPT ![t] = "scan"] BY DEF Recalculate, Goto
  <1>4. "scan" \in Places BY DEF Places
  <1>5. /\ hbm_used' \in [Procs -> Bytes] /\ held' \in [Procs -> BOOLEAN]
        /\ handle_map' \in [Procs -> [Ptrs -> Bytes]] /\ device' \in [Procs -> [Ptrs -> Bytes]]
    BY DEF procs, Typed, TypeOK
  <1> HIDE DEF l
  <1> QED BY <1>1, <1>2, <1>3, <1>4, <1>5, TypedThread

(* A thread that returns from an operation has its locals blank.            *)
LEMMA TypedReturn ==
  ASSUME Typed, NEW t \in Threads, NEW from, Return(t, from),
         memory_used' \in 0 .. U64 - 1, hbm_used' \in [Procs -> Bytes],
         handle_map' \in [Procs -> [Ptrs -> Bytes]],
         UNCHANGED <<held, device, calm>>, Marks(t)
  PROVE  Typed'
  <1>1. "app" \in Places BY DEF Places
  <1>2. /\ held' \in [Procs -> BOOLEAN] /\ device' \in [Procs -> [Ptrs -> Bytes]]
        /\ calm' \in BOOLEAN
    BY DEF Typed, TypeOK
  <1>3. pc' = [pc EXCEPT ![t] = "app"] /\ local' = [local EXCEPT ![t] = Blank]
    BY DEF Return, Goto
  <1> QED BY <1>1, <1>2, <1>3, BlankType, TypedThread

(* A thread that moves on with the locals l.                                *)
LEMMA TypedGoto ==
  ASSUME Typed, NEW t \in Threads, NEW from, NEW to \in Places \ {"app", "gone", "scan", "swap"},
         Goto(t, from, to), NEW l \in Locals, local' = [local EXCEPT ![t] = l],
         memory_used' \in 0 .. U64 - 1, hbm_used' \in [Procs -> Bytes],
         handle_map' \in [Procs -> [Ptrs -> Bytes]], device' \in [Procs -> [Ptrs -> Bytes]],
         calm' \in BOOLEAN,
         UNCHANGED held, Marks(t)
  PROVE  Typed'
  <1>1. held' \in [Procs -> BOOLEAN] BY DEF Typed, TypeOK
  <1>2. pc' = [pc EXCEPT ![t] = to] BY DEF Goto
  <1> QED BY <1>1, <1>2, TypedThread

(* The steps inside operations leave the manager's threads alone.           *)
LEMMA OperateMarks == ASSUME TypeOK, NEW t \in Threads, Operate(t) PROVE Marks(t)
  <1>1. UNCHANGED <<alive, daemon, counts, blurred, stray>>
    BY DEF Operate, ScanSlot, SwapOut, SubtractCleaned, LoadCurrent, CorrectUsed, LoadUsed,
           QuotaExceeded, Reserve, DeviceMalloc, RecordAlloc, Rollback, Unmap, FreeSlot, FreeGlobal,
           procs, marks
  <1>2. CASE DeviceMalloc(t)
    <2>1. CASE Goto(t, "malloc", "rollback") /\ UNCHANGED <<device, local, crossed>>
      <3>1. pc'[t] = "rollback" BY <2>1 DEF Goto, TypeOK
      <3> QED BY <1>1, <2>1, <3>1 DEF Marks, counts, Open, TypeOK
    <2>2. CASE Cross(t) BY <1>1, <2>2 DEF Marks, counts, TypeOK
    <2> QED BY <1>2, <2>1, <2>2 DEF DeviceMalloc
  <1>3. CASE ~DeviceMalloc(t)
    <2>1. UNCHANGED <<device, crossed>>
      BY <1>3 DEF Operate, ScanSlot, SwapOut, SubtractCleaned, LoadCurrent, CorrectUsed, LoadUsed,
                  QuotaExceeded, Reserve, RecordAlloc, Rollback, Unmap, FreeSlot, FreeGlobal, procs, marks
    <2>2. CASE ScanSlot(t) \/ SwapOut(t)
      <3>1. pc'[t] \in {"scan", "swap", "clean", "current"}
        BY <2>2 DEF ScanSlot, SwapOut, NextOfScan, TypeOK
      <3> QED BY <1>1, <2>1, <3>1 DEF Marks, counts, Open, TypeOK
    <2>3. CASE ~(ScanSlot(t) \/ SwapOut(t))
      <3>1. pc'[t] \in Open => pc[t] \in Open
        BY <1>3, <2>3 DEF Operate, SubtractCleaned, LoadCurrent, CorrectUsed, LoadUsed, QuotaExceeded,
                  Reserve, RecordAlloc, Rollback, Unmap, FreeSlot, FreeGlobal, Return, Recalculate,
                  Goto, Open, TypeOK
      <3> QED BY <1>1, <2>1, <3>1 DEF Marks, counts, TypeOK
    <2> QED BY <2>2, <2>3
  <1> QED BY <1>2, <1>3

(* So do the calls.                                                         *)
LEMMA CallMarks ==
  ASSUME TypeOK, NEW t \in Threads, Malloc(t) \/ Free(t) \/ GetHbmInfo(t) PROVE Marks(t)
  <1>1. calls' \in 0 .. MaxCalls
    <2>1. calls < MaxCalls /\ calls' = calls + 1 BY DEF Malloc, Free, GetHbmInfo, Call
    <2> QED BY <2>1, BoundsAssumption DEF TypeOK
  <1>2. UNCHANGED <<alive, daemon, crashes, blurred, stray>>
    BY DEF Malloc, Free, GetHbmInfo, procs, marks
  <1>3. CASE Free(t) BY <1>1, <1>2, <1>3 DEF Free, Marks
  <1>4. CASE Malloc(t) \/ GetHbmInfo(t)
    <2>1. pc'[t] = "scan" BY <1>4 DEF Malloc, GetHbmInfo, Recalculate, Goto, TypeOK
    <2>2. UNCHANGED <<device, crossed>> BY <1>4 DEF Malloc, GetHbmInfo, procs, marks
    <2> QED BY <1>1, <1>2, <2>1, <2>2 DEF Marks, Open
  <1> QED BY <1>3, <1>4

(* Locals that stay are the thread's locals again.                          *)
LEMMA SameLocals ==
  ASSUME TypeOK, NEW t \in Threads, UNCHANGED local
  PROVE  local' = [local EXCEPT ![t] = local[t]] /\ local[t] \in Locals
  BY LocalType DEF Locals

(* A thread that forgets its locals keeps what it asks for.                 *)
LEMMA ForgetType ==
  ASSUME TypeOK, NEW t \in Threads, Forget(t)
  PROVE  /\ [Blank EXCEPT !.size = local[t].size] \in Locals
         /\ local' = [local EXCEPT ![t] = [Blank EXCEPT !.size = local[t].size]]
         /\ local'[t].size = local[t].size
  <1>1. local[t].size \in Nat /\ Blank \in Locals BY BlankType, LocalType
  <1>2. [Blank EXCEPT !.size = local[t].size] \in Locals BY <1>1 DEF Locals, Bytes
  <1>3. [Blank EXCEPT !.size = local[t].size].size = local[t].size BY <1>1 DEF Locals
  <1> QED BY <1>2, <1>3 DEF Forget, TypeOK

(* The correction of the counter keeps it a u64.                            *)
LEMMA TypedCorrect == ASSUME Typed, NEW t \in Threads, CorrectUsed(t) PROVE Typed'
  <1>1. memory_used' \in 0 .. U64 - 1
    <2>1. /\ local[t].total \in Nat /\ local[t].seen \in Nat /\ memory_used \in 0 .. U64 - 1
          /\ U64 \in Nat
      BY LocalType, BytesAssumption DEF Typed, TypeOK
    <2> DEFINE total == local[t].total
               seen == local[t].seen
    <2>2. memory_used' = IF total > seen THEN (memory_used + (total - seen)) % U64
                         ELSE Minus(memory_used, seen - total) BY DEF CorrectUsed
    <2> HIDE DEF total, seen
    <2>3. total \in Nat /\ seen \in Nat BY <2>1 DEF total, seen
    <2>4. CASE total > seen BY <2>1, <2>2, <2>3, <2>4
    <2>5. CASE ~(total > seen)
      <3>1. seen - total \in Nat /\ memory_used \in Nat BY <2>1, <2>3, <2>5
      <3> QED BY <2>1, <2>2, <2>5, <3>1, MinusType
    <2> QED BY <2>4, <2>5
  <1>4. Marks(t) BY OperateMarks DEF Operate, Typed
  <1>2. CASE Return(t, "fix")
    BY <1>1, <1>2, <1>4, TypedReturn DEF CorrectUsed, procs, Typed, TypeOK
  <1>3. CASE Goto(t, "fix", "used") /\ Forget(t)
    <2>1. "used" \in Places \ {"app", "gone", "scan", "swap"} BY DEF Places
    <2> DEFINE l == [Blank EXCEPT !.size = local[t].size]
    <2>2. local' = [local EXCEPT ![t] = l] /\ l \in Locals
      BY <1>3, ForgetType DEF Typed
    <2>3. /\ hbm_used' \in [Procs -> Bytes]
          /\ handle_map' \in [Procs -> [Ptrs -> Bytes]] /\ device' \in [Procs -> [Ptrs -> Bytes]]
          /\ calm' \in BOOLEAN /\ UNCHANGED held
      BY DEF CorrectUsed, procs, Typed, TypeOK
    <2> HIDE DEF l
    <2> QED BY <1>1, <1>3, <1>4, <2>1, <2>2, <2>3, TypedGoto
  <1> QED BY <1>2, <1>3 DEF CorrectUsed

(* The steps inside operations keep the types.                              *)
LEMMA TypedOperate == ASSUME Typed, NEW t \in Threads, Operate(t) PROVE Typed'
  <1> DEFINE Quad == /\ memory_used \in 0 .. U64 - 1 /\ hbm_used \in [Procs -> Bytes]
                     /\ handle_map \in [Procs -> [Ptrs -> Bytes]]
                     /\ device \in [Procs -> [Ptrs -> Bytes]] /\ calm \in BOOLEAN
  <1>1. TypeOK /\ Quad /\ memory_used \in Nat /\ U64 \in Nat \ {0}
    BY BytesAssumption DEF Typed, TypeOK
  <1>2. /\ local[t] \in Locals /\ local[t].size \in Nat /\ local[t].ptr \in Ptrs
        /\ local[t].cleaned \in Nat /\ local[t].seen \in Nat /\ P(t) \in Procs
    BY <1>1, LocalType
  <1>3. \A n \in Nat : Minus(memory_used, n) \in 0 .. U64 - 1
    <2>1. ASSUME NEW n \in Nat PROVE Minus(memory_used, n) \in 0 .. U64 - 1
      <3>1. Minus(memory_used, n) \in 0 .. memory_used BY <1>1, MinusType
      <3> QED BY <1>1, <3>1
    <2> QED BY <2>1
  <1>4. {"current", "fix", "reserve", "malloc", "record", "rollback", "free_slot", "free_global"}
          \subseteq Places \ {"app", "gone", "scan", "swap"}
    BY DEF Places
  <1>5. \A n \in Nat : /\ [local[t] EXCEPT !.seen = n] \in Locals
                       /\ [local[t] EXCEPT !.size = n] \in Locals
                       /\ [local[t] EXCEPT !.cleaned = n] \in Locals
    BY <1>2 DEF Locals, Bytes
  <1>0. Marks(t) BY <1>1, OperateMarks
  <1>6. CASE ScanSlot(t) \/ SwapOut(t) BY <1>6, TypedScan, TypedSwap
  <1>7. CASE SubtractCleaned(t)
    <2>1. Quad' BY <1>1, <1>2, <1>3, <1>7 DEF SubtractCleaned, procs
    <2>2. local' = [local EXCEPT ![t] = [local[t] EXCEPT !.cleaned = 0]]
      BY <1>1, <1>7 DEF SubtractCleaned, TypeOK
    <2>3. Goto(t, "clean", "current") /\ held' = held
      BY <1>7 DEF SubtractCleaned, procs
    <2> QED BY <1>1, <1>4, <1>5, <2>1, <2>2, <2>3, <1>0, TypedGoto
  <1>8. CASE LoadCurrent(t)
    <2>1. Quad' BY <1>1, <1>8 DEF LoadCurrent, procs, shared
    <2>2. local' = [local EXCEPT ![t] = [local[t] EXCEPT !.seen = memory_used]]
      BY <1>1, <1>8 DEF LoadCurrent, TypeOK
    <2>3. Goto(t, "current", "fix") /\ held' = held
      BY <1>8 DEF LoadCurrent, procs, shared
    <2> QED BY <1>1, <1>4, <1>5, <2>1, <2>2, <2>3, <1>0, TypedGoto
  <1>9. CASE CorrectUsed(t) BY <1>9, TypedCorrect
  <1>10. CASE LoadUsed(t)
    <2>1. Quad' BY <1>1, <1>10 DEF LoadUsed, procs, shared
    <2>2. local' = [local EXCEPT ![t] = [local[t] EXCEPT !.seen = memory_used]]
      BY <1>1, <1>10 DEF LoadUsed, TypeOK
    <2>3. Goto(t, "used", "reserve") /\ held' = held
      BY <1>10 DEF LoadUsed, procs, shared
    <2> QED BY <1>1, <1>4, <1>5, <2>1, <2>2, <2>3, <1>0, TypedGoto
  <1>11. CASE QuotaExceeded(t)
    <2>1. Quad' /\ UNCHANGED <<held, device, calm>>
      BY <1>1, <1>11 DEF QuotaExceeded, procs, shared
    <2> QED BY <1>11, <2>1, <1>0, TypedReturn DEF QuotaExceeded
  <1>12. CASE Reserve(t)
    <2>1. CASE memory_used' = NewUsed(t) /\ Goto(t, "reserve", "malloc") /\ Forget(t)
      <3>1. NewUsed(t) \in 0 .. U64 - 1 BY <1>1, <1>2 DEF NewUsed
      <3>2. Quad' BY <1>1, <1>12, <2>1, <3>1 DEF Reserve, procs
      <3> DEFINE l == [Blank EXCEPT !.size = local[t].size]
      <3>3. local' = [local EXCEPT ![t] = l] /\ l \in Locals BY <1>1, <2>1, ForgetType
      <3>4. held' = held BY <1>12 DEF Reserve, procs
      <3> HIDE DEF l
      <3> QED BY <1>4, <2>1, <3>2, <3>3, <3>4, <1>0, TypedGoto
    <2>2. CASE local' = [local EXCEPT ![t].seen = memory_used] /\ UNCHANGED <<memory_used, pc>>
      <3>1. Quad' BY <1>1, <1>12, <2>2 DEF Reserve, procs
      <3>2. local' = [local EXCEPT ![t] = [local[t] EXCEPT !.seen = memory_used]]
        BY <1>1, <2>2 DEF TypeOK
      <3>3. held' = held BY <1>12 DEF Reserve, procs
      <3>4. Goto(t, "reserve", "reserve") BY <1>1, <1>12, <2>2 DEF Reserve, Goto, TypeOK
      <3> QED BY <1>1, <1>4, <1>5, <3>1, <3>2, <3>3, <3>4, <1>0, TypedGoto
    <2> QED BY <1>12, <2>1, <2>2 DEF Reserve
  <1>13. CASE DeviceMalloc(t)
    <2>1. CASE Goto(t, "malloc", "rollback") /\ UNCHANGED <<device, local, crossed>>
      <3>1. Quad' BY <1>1, <1>13, <2>1 DEF DeviceMalloc, shared
      <3>2. local' = [local EXCEPT ![t] = local[t]] BY <1>1, <2>1, SameLocals
      <3>3. held' = held BY <1>13 DEF DeviceMalloc, shared
      <3> QED BY <1>2, <1>4, <2>1, <3>1, <3>2, <3>3, <1>0, TypedGoto
    <2>2. CASE ~(Goto(t, "malloc", "rollback") /\ UNCHANGED <<device, local, crossed>>)
      <3>1. PICK a \in Ptrs :
              /\ device' = [device EXCEPT ![P(t)][a] = local[t].size]
              /\ local' = [local EXCEPT ![t].ptr = a]
              /\ Goto(t, "malloc", "record")
        BY <1>13, <2>2 DEF DeviceMalloc
      <3>2. device' \in [Procs -> [Ptrs -> Bytes]] BY <1>1, <1>2, <3>1 DEF Bytes
      <3>3. Quad' BY <1>1, <1>13, <3>2 DEF DeviceMalloc, shared
      <3>4. local' = [local EXCEPT ![t] = [local[t] EXCEPT !.ptr = a]] BY <1>1, <3>1 DEF TypeOK
      <3>5. [local[t] EXCEPT !.ptr = a] \in Locals BY <1>2 DEF Locals
      <3>6. held' = held BY <1>13 DEF DeviceMalloc, shared
      <3> QED BY <1>4, <3>1, <3>3, <3>4, <3>5, <3>6, <1>0, TypedGoto
    <2> QED BY <2>1, <2>2
  <1>14. CASE RecordAlloc(t)
    <2>1. hbm_used' \in [Procs -> Bytes] BY <1>1, <1>2, <1>14 DEF RecordAlloc, Bytes
    <2>2. handle_map' \in [Procs -> [Ptrs -> Bytes]] BY <1>1, <1>2, <1>14 DEF RecordAlloc, Bytes
    <2>3. UNCHANGED <<held, device, calm>> /\ memory_used' \in 0 .. U64 - 1
      BY <1>1, <1>14 DEF RecordAlloc
    <2> QED BY <1>14, <2>1, <2>2, <2>3, <1>0, TypedReturn DEF RecordAlloc
  <1>15. CASE Rollback(t)
    <2>1. Quad' /\ UNCHANGED <<hbm_used, held, procs, device, calm>>
      BY <1>1, <1>2, <1>3, <1>15 DEF Rollback, procs
    <2>2. CASE Return(t, "rollback") BY <2>1, <2>2, <1>0, TypedReturn
    <2>3. CASE Recalculate(t, "rollback", "app") BY <2>1, <2>3, <1>0, TypedRecalculate
    <2> QED BY <1>15, <2>2, <2>3 DEF Rollback
  <1>16. CASE Unmap(t)
    <2> DEFINE size == handle_map[P(t)][local[t].ptr]
    <2>1. size \in Nat BY <1>1, <1>2 DEF Bytes
    <2>2. handle_map' \in [Procs -> [Ptrs -> Bytes]] BY <1>1, <1>2, <1>16 DEF Unmap, Bytes
    <2>3. Quad' /\ UNCHANGED <<held, device, calm>>
      BY <1>1, <1>16, <2>2 DEF Unmap, shared
    <2>4. CASE Return(t, "unmap") BY <2>3, <2>4, <1>0, TypedReturn
    <2>5. CASE Goto(t, "unmap", "free_slot") /\ local' = [local EXCEPT ![t].size = size]
      <3>1. local' = [local EXCEPT ![t] = [local[t] EXCEPT !.size = size]] BY <1>1, <2>5 DEF TypeOK
      <3> HIDE DEF size
      <3> QED BY <1>4, <1>5, <2>1, <2>3, <2>5, <3>1, <1>0, TypedGoto
    <2> QED BY <1>16, <2>4, <2>5 DEF Unmap
  <1>17. CASE FreeSlot(t)
    <2>1. hbm_used' \in [Procs -> Bytes]
      <3>1. hbm_used[P(t)] \in Nat BY <1>1, <1>2 DEF Bytes
      <3>2. Minus(hbm_used[P(t)], local[t].size) \in Nat BY <1>2, <3>1 DEF Minus
      <3> QED BY <1>1, <1>2, <1>17, <3>2 DEF FreeSlot, Bytes
    <2>2. Quad' BY <1>1, <1>17, <2>1 DEF FreeSlot, procs
    <2> DEFINE slip == hbm_used[P(t)] < local[t].size
    <2>3. local' = [local EXCEPT ![t] = [local[t] EXCEPT !.slip = slip]]
      BY <1>1, <1>17 DEF FreeSlot, TypeOK
    <2>4. [local[t] EXCEPT !.slip = slip] \in Locals
      <3>1. slip \in BOOLEAN OBVIOUS
      <3> HIDE DEF slip
      <3> QED BY <1>2, <3>1 DEF Locals
    <2>5. held' = held /\ Goto(t, "free_slot", "free_global")
      BY <1>17 DEF FreeSlot, procs
    <2> HIDE DEF slip
    <2> QED BY <1>4, <2>2, <2>3, <2>4, <2>5, <1>0, TypedGoto
  <1>18. CASE FreeGlobal(t)
    <2>1. Quad' /\ UNCHANGED <<hbm_used, held, procs, device, calm>>
      BY <1>1, <1>2, <1>3, <1>18 DEF FreeGlobal, procs
    <2>2. CASE Return(t, "free_global") BY <2>1, <2>2, <1>0, TypedReturn
    <2>3. CASE Recalculate(t, "free_global", "app") BY <2>1, <2>3, <1>0, TypedRecalculate
    <2> QED BY <1>18, <2>2, <2>3 DEF FreeGlobal
  <1> QED BY <1>6, <1>7, <1>8, <1>9, <1>10, <1>11, <1>12, <1>13, <1>14, <1>15, <1>16, <1>17, <1>18
          DEF Operate

(* The calls keep the types.                                                *)
LEMMA TypedCalls ==
  ASSUME Typed, NEW t \in Threads, Malloc(t) \/ Free(t) \/ GetHbmInfo(t) PROVE Typed'
  <1>1. TypeOK /\ local[t] \in Locals /\ P(t) \in Procs BY LocalType DEF Typed
  <1>0. Marks(t) BY <1>1, CallMarks
  <1>2. calm' \in BOOLEAN
    <2>1. Begin BY DEF Malloc, Free, GetHbmInfo, Call
    <2> QED BY <2>1, Zenon DEF Begin
  <1>3. CASE Malloc(t)
    <2>1. PICK n \in Sizes : local' = [local EXCEPT ![t].size = n, ![t].back = "used"]
      BY <1>3 DEF Malloc
    <2>2. n \in Nat BY BytesAssumption
    <2> DEFINE l == [local[t] EXCEPT !.size = n, !.back = "used"]
    <2>3. local' = [local EXCEPT ![t] = l] BY <1>1, <2>1 DEF TypeOK
    <2>4. local[t] = Blank BY <1>3 DEF Malloc, Typed, LocalInv, Busy
    <2>5. l \in Locals /\ l.at = 1 /\ 1 \in Procs
      <3>1. local[t].at = 1 BY <2>4, BlankType
      <3>2. l \in Locals BY <1>1, <2>2 DEF Locals, Bytes
      <3>3. l.at = local[t].at BY <1>1 DEF Locals
      <3> QED BY <3>1, <3>2, <3>3, ProcsAssumption DEF Procs
    <2>6. pc' = [pc EXCEPT ![t] = "scan"] /\ "scan" \in Places BY <1>3 DEF Malloc, Places
    <2>7. /\ memory_used' \in 0 .. U64 - 1 /\ hbm_used' \in [Procs -> Bytes]
          /\ held' \in [Procs -> BOOLEAN] /\ handle_map' \in [Procs -> [Ptrs -> Bytes]]
          /\ device' \in [Procs -> [Ptrs -> Bytes]]
      BY <1>1, <1>3 DEF Malloc, shared, procs, TypeOK
    <2> HIDE DEF l
    <2> QED BY <1>2, <2>3, <2>5, <2>6, <2>7, <1>0, TypedThread
  <1>4. CASE Free(t)
    <2>1. PICK a \in Ptrs : /\ device' = [device EXCEPT ![P(t)][a] = 0]
                            /\ local' = [local EXCEPT ![t].ptr = a]
      BY <1>4 DEF Free
    <2>2. device' \in [Procs -> [Ptrs -> Bytes]] BY <1>1, <2>1 DEF TypeOK, Bytes
    <2>3. local' = [local EXCEPT ![t] = [local[t] EXCEPT !.ptr = a]] BY <1>1, <2>1 DEF TypeOK
    <2>4. [local[t] EXCEPT !.ptr = a] \in Locals BY <1>1 DEF Locals
    <2>5. "unmap" \in Places \ {"app", "gone", "scan", "swap"} BY DEF Places
    <2>6. /\ memory_used' \in 0 .. U64 - 1 /\ hbm_used' \in [Procs -> Bytes]
          /\ handle_map' \in [Procs -> [Ptrs -> Bytes]]
          /\ Goto(t, "app", "unmap") /\ held' = held
      BY <1>1, <1>4 DEF Free, shared, TypeOK
    <2> QED BY <1>2, <2>2, <2>3, <2>4, <2>5, <2>6, <1>0, TypedGoto
  <1>5. CASE GetHbmInfo(t)
    <2>1. /\ Recalculate(t, "app", "app") /\ UNCHANGED <<hbm_used, held, procs>>
          /\ memory_used' \in 0 .. U64 - 1
      BY <1>1, <1>5 DEF GetHbmInfo, shared, TypeOK
    <2> QED BY <1>2, <2>1, <1>0, TypedRecalculate
  <1> QED BY <1>3, <1>4, <1>5

(* The manager's threads ...                                                *)
Daemons ==
  Reap \/ DcmiQuery \/ \E p \in Procs : DcmiLoadPid(p) \/ DcmiStore(p)

(* ... keep the types.                                                      *)
LEMMA TypedDaemons == ASSUME Typed, Daemons PROVE Typed'
  <1>1. TypeOK /\ (storing # 0 => dcmi[storing] # Idle) BY DEF Typed, LocalInv
  <1>2. UNCHANGED <<procs, pc, local, counts>>
    BY DEF Daemons, Reap, ReapSwap, ReapSubtract, ReapSlot, DcmiQuery, DcmiLoadPid, DcmiStore
  <1>3. /\ alive' \in [Procs -> BOOLEAN] /\ handle_map' \in [Procs -> [Ptrs -> Bytes]]
        /\ device' \in [Procs -> [Ptrs -> Bytes]] /\ pc' \in [Threads -> Places]
        /\ local' \in [Threads -> Locals] /\ crashes' \in 0 .. MaxCrashes /\ calls' \in 0 .. MaxCalls
    BY <1>1, <1>2 DEF procs, counts, TypeOK, Locals
  <1> DEFINE Shared == /\ memory_used \in 0 .. U64 - 1 /\ hbm_used \in [Procs -> Bytes]
                       /\ held \in [Procs -> BOOLEAN]
             Reaper == reaping \in Procs \cup {0} /\ reaper \in Bytes \cup {Idle}
             Dcmis == /\ dcmi \in [Procs -> Bytes \cup {Idle}] /\ storing \in Procs \cup {0}
                      /\ storing # 0 => dcmi[storing] # Idle
             History == /\ calm \in BOOLEAN /\ crossed \subseteq Procs /\ blurred \subseteq Procs
                        /\ stray \subseteq Procs
  <1>4. Shared /\ Reaper /\ Dcmis /\ History BY <1>1 DEF TypeOK
  <1>5. Shared' /\ Reaper' /\ Dcmis' /\ History'
    <2>1. CASE ReapSubtract
      <3>1. reaper \in Nat /\ memory_used \in Nat /\ U64 \in Nat
        BY <1>4, <2>1, BytesAssumption DEF ReapSubtract, Bytes
      <3>2. Minus(memory_used, reaper) \in 0 .. memory_used BY <3>1, MinusType
      <3>3. Minus(memory_used, reaper) \in 0 .. U64 - 1 BY <1>4, <3>1, <3>2
      <3> QED BY <1>4, <2>1, <3>3 DEF ReapSubtract, marks
    <2>2. CASE ReapSwap
      <3>1. hbm_used' \in [Procs -> Bytes] /\ reaper' \in Bytes BY <1>4, <2>2 DEF ReapSwap, Bytes
      <3> QED BY <1>4, <2>2, <3>1 DEF ReapSwap, marks
    <2>3. ASSUME NEW p \in Procs, ReapSlot(p) PROVE Shared' /\ Reaper' /\ Dcmis' /\ History'
      <3>1. calm' \in BOOLEAN BY <2>3, Zenon DEF ReapSlot, Begin
      <3>2. held' \in [Procs -> BOOLEAN] BY <1>4, <2>3 DEF ReapSlot
      <3> QED BY <1>4, <2>3, <3>1, <3>2 DEF ReapSlot, marks
    <2>4. CASE DcmiQuery
      <3>1. calm' \in BOOLEAN BY <2>4, Zenon DEF DcmiQuery, Begin
      <3>2. \A p \in Procs : RealUsage(p) \in Bytes BY <1>1, UsageType DEF RealUsage, TypeOK, Bytes
      <3>3. dcmi' \in [Procs -> Bytes \cup {Idle}] BY <2>4, <3>2 DEF DcmiQuery
      <3>4. storing' = 0 BY <1>4, <2>4 DEF DcmiQuery, Refreshing
      <3>5. crossed' \subseteq Procs BY <1>1, <2>4, LocalType DEF DcmiQuery
      <3> QED BY <1>4, <2>4, <3>1, <3>3, <3>4, <3>5 DEF DcmiQuery, shared
    <2>5. ASSUME NEW p \in Procs, DcmiLoadPid(p) PROVE Shared' /\ Reaper' /\ Dcmis' /\ History'
      BY <1>4, <2>5 DEF DcmiLoadPid, shared
    <2>6. ASSUME NEW p \in Procs, DcmiStore(p) PROVE Shared' /\ Reaper' /\ Dcmis' /\ History'
      <3>1. p # 0 /\ dcmi[p] \in Bytes BY <1>4, <2>6 DEF DcmiStore, Procs
      <3>2. hbm_used' \in [Procs -> Bytes] BY <1>4, <2>6, <3>1 DEF DcmiStore
      <3>3. crossed' \subseteq Procs /\ blurred' \subseteq Procs /\ stray' \subseteq Procs
        BY <1>4, <2>6 DEF DcmiStore
      <3> QED BY <1>4, <2>6, <3>2, <3>3 DEF DcmiStore
    <2> QED BY <2>1, <2>2, <2>3, <2>4, <2>5, <2>6 DEF Daemons, Reap
  <1>6. TypeOK' BY <1>3, <1>5 DEF TypeOK, Locals
  <1>7. LocalInv' BY <1>2, <1>5 DEF Typed, LocalInv, Busy, Blank
  <1> QED BY <1>6, <1>7 DEF Typed

(* A crash keeps the types.                                                 *)
LEMMA TypedCrash == ASSUME Typed, NEW p \in Procs, Crash(p) PROVE Typed'
  <1>1. TypeOK /\ LocalInv BY DEF Typed
  <1>2. pc' \in [Threads -> Places] BY <1>1 DEF Crash, TypeOK, Places
  <1>3. local' \in [Threads -> Locals] BY <1>1, BlankType, LocalType DEF Crash
  <1>4. alive' \in [Procs -> BOOLEAN] /\ crashes' \in 0 .. MaxCrashes
    BY <1>1, BoundsAssumption DEF Crash, TypeOK
  <1>5. device' \in [Procs -> [Ptrs -> Bytes]] /\ handle_map' \in [Procs -> [Ptrs -> Bytes]]
    BY <1>1 DEF Crash, TypeOK, Bytes
  <1>6. TypeOK' BY <1>1, <1>2, <1>3, <1>4, <1>5 DEF TypeOK, Crash, shared, daemon, Locals
  <1>7. LocalInv' BY <1>1 DEF LocalInv, Busy, Crash, Blank, daemon
  <1> QED BY <1>6, <1>7 DEF Typed

(* So does a stutter, ...                                                   *)
LEMMA TypedStutter == ASSUME Typed, UNCHANGED vars PROVE Typed'
  BY DEF Typed, TypeOK, LocalInv, Busy, vars, shared, procs, daemon, counts, marks, Blank

(* ... and every step.                                                      *)
LEMMA TypedNext == ASSUME Typed, [Next]_vars PROVE Typed'
  BY TypedOperate, TypedCalls, TypedDaemons, TypedCrash, TypedStutter DEF Next, Daemons

(* Every variable keeps its type: in particular the pod's counter stays a   *)
(* u64 and no slot's counter goes below zero.                               *)
THEOREM TypeCorrect == Spec => []TypeOK
  <1>1. Typed /\ [Next]_vars => Typed' BY TypedNext
  <1>2. Typed => TypeOK BY DEF Typed
  <1> QED BY TypedInit, <1>1, <1>2, PTL DEF Spec

----------------------------------------------------------------------------
(* What a step leaves alone. *)

(* The other threads, and what belongs to the other processes that live.    *)
Others(t) ==
  /\ \A u \in Threads \ {t} : pc'[u] = pc[u] /\ local'[u] = local[u]
  /\ \A p \in Procs \ {P(t)} : /\ device'[p] = device[p] /\ handle_map'[p] = handle_map[p]
                               /\ alive[p] => hbm_used'[p] = hbm_used[p] /\ held'[p] = held[p]
  /\ alive[P(t)] => held'[P(t)] = held[P(t)]
  /\ pc'[t] = "swap" => ~alive[local'[t].at]
  /\ Marks(t)

(* The scan leaves the slots of those that live, and swaps out none.        *)
LEMMA ScanFrame ==
  ASSUME Typed, LifeInv, NEW t \in Threads, ScanSlot(t) \/ SwapOut(t)
  PROVE  /\ \A p \in Procs : alive[p] => hbm_used'[p] = hbm_used[p] /\ held'[p] = held[p]
         /\ pc'[t] = "swap" => ~alive[local'[t].at]
         /\ pc'[t] # "gone" /\ pc[t] \in {"scan", "swap"}
         /\ \A u \in Threads \ {t} : pc'[u] = pc[u] /\ local'[u] = local[u]
         /\ UNCHANGED <<device, handle_map, alive, calm>>
  <1>1. TypeOK BY DEF Typed
  <1>2. pc[t] \in {"scan", "swap"} /\ local[t].at \in Procs BY DEF ScanSlot, SwapOut, Typed, LocalInv
  <1>3. UNCHANGED <<device, handle_map, alive, calm>> BY DEF ScanSlot, SwapOut, procs
  <1>4. CASE ScanSlot(t)
    <2>1. \A u \in Threads \ {t} : pc'[u] = pc[u] /\ local'[u] = local[u]
      BY <1>1, <1>4 DEF ScanSlot, TypeOK
    <2>2. pc'[t] = "swap" => ~alive[local[t].at] /\ local' = local
      BY <1>1, <1>4 DEF ScanSlot, NextOfScan, TypeOK
    <2>3. hbm_used' = hbm_used /\ pc'[t] # "gone" BY <1>1, <1>4 DEF ScanSlot, NextOfScan, TypeOK
    <2>4. \A p \in Procs : alive[p] => held'[p] = held[p] BY <1>1, <1>2, <1>4 DEF ScanSlot, TypeOK
    <2> QED BY <1>2, <1>3, <2>1, <2>2, <2>3, <2>4
  <1>5. CASE SwapOut(t)
    <2>1. \A u \in Threads \ {t} : pc'[u] = pc[u] /\ local'[u] = local[u]
      BY <1>1, <1>5 DEF SwapOut, TypeOK
    <2>2. pc[t] = "swap" /\ pc'[t] \notin {"swap", "gone"} /\ held' = held
      BY <1>1, <1>5 DEF SwapOut, NextOfScan, TypeOK
    <2>3. ~alive[local[t].at] BY <2>2 DEF LifeInv
    <2>4. \A p \in Procs : alive[p] => hbm_used'[p] = hbm_used[p]
      BY <1>1, <1>2, <1>5, <2>3 DEF SwapOut, TypeOK
    <2> QED BY <1>2, <1>3, <2>1, <2>2, <2>4
  <1> QED BY <1>4, <1>5

(* A step inside an operation is one of a busy thread.                      *)
LEMMA OperateFrame ==
  ASSUME Typed, LifeInv, NEW t \in Threads, Operate(t)
  PROVE  Others(t) /\ Busy(t) /\ pc'[t] # "gone" /\ calm' = calm
  <1>1. TypeOK /\ P(t) \in Procs BY LocalType DEF Typed
  <1>0. Marks(t) BY <1>1, OperateMarks
  <1>2. CASE ScanSlot(t) \/ SwapOut(t)
    BY <1>0, <1>1, <1>2, ScanFrame DEF Others, Busy
  <1>3. CASE ~(ScanSlot(t) \/ SwapOut(t))
    <2>1. held' = held
      BY <1>3 DEF Operate, SubtractCleaned, LoadCurrent, CorrectUsed, LoadUsed, QuotaExceeded, Reserve,
                  DeviceMalloc, RecordAlloc, Rollback, Unmap, FreeSlot, FreeGlobal, shared
    <2>2. UNCHANGED <<alive, calm>>
      BY <1>3 DEF Operate, SubtractCleaned, LoadCurrent, CorrectUsed, LoadUsed, QuotaExceeded, Reserve,
                  DeviceMalloc, RecordAlloc, Rollback, Unmap, FreeSlot, FreeGlobal, procs
    <2>3. \A p \in Procs \ {P(t)} : hbm_used'[p] = hbm_used[p]
      BY <1>1, <1>3 DEF Operate, SubtractCleaned, LoadCurrent, CorrectUsed, LoadUsed, QuotaExceeded,
                  Reserve, DeviceMalloc, RecordAlloc, Rollback, Unmap, FreeSlot, FreeGlobal, shared, TypeOK
    <2>4. \A p \in Procs \ {P(t)} : device'[p] = device[p]
      BY <1>1, <1>3 DEF Operate, SubtractCleaned, LoadCurrent, CorrectUsed, LoadUsed, QuotaExceeded,
                  Reserve, DeviceMalloc, RecordAlloc, Rollback, Unmap, FreeSlot, FreeGlobal, procs, TypeOK
    <2>5. \A p \in Procs \ {P(t)} : handle_map'[p] = handle_map[p]
      BY <1>1, <1>3 DEF Operate, SubtractCleaned, LoadCurrent, CorrectUsed, LoadUsed, QuotaExceeded,
                  Reserve, DeviceMalloc, RecordAlloc, Rollback, Unmap, FreeSlot, FreeGlobal, procs, TypeOK
    <2>6. /\ \A u \in Threads \ {t} : pc'[u] = pc[u]
          /\ pc'[t] \notin {"swap", "gone"} /\ pc[t] \notin {"app", "gone"}
      BY <1>1, <1>3 DEF Operate, SubtractCleaned, LoadCurrent, CorrectUsed, LoadUsed, QuotaExceeded,
                  Reserve, DeviceMalloc, RecordAlloc, Rollback, Unmap, FreeSlot, FreeGlobal,
                  Goto, Return, Recalculate, TypeOK
    <2>7. \A u \in Threads \ {t} : local'[u] = local[u]
      BY <1>1, <1>3 DEF Operate, SubtractCleaned, LoadCurrent, CorrectUsed, LoadUsed, QuotaExceeded,
                  Reserve, DeviceMalloc, RecordAlloc, Rollback, Unmap, FreeSlot, FreeGlobal,
                  Return, Recalculate, Forget, TypeOK
    <2> QED BY <1>0, <2>1, <2>2, <2>3, <2>4, <2>5, <2>6, <2>7 DEF Others, Busy
  <1> QED BY <1>2, <1>3

(* A call is one of an idle thread, and starts no second operation while    *)
(* calm.                                                                    *)
LEMMA CallFrame ==
  ASSUME Typed, NEW t \in Threads, Malloc(t) \/ Free(t) \/ GetHbmInfo(t)
  PROVE  /\ Others(t) /\ pc[t] = "app" /\ pc'[t] \notin {"app", "gone"}
         /\ (calm' => calm /\ Quiet)
         /\ UNCHANGED shared
  <1>1. TypeOK /\ P(t) \in Procs BY LocalType DEF Typed
  <1>2. /\ pc[t] = "app" /\ pc'[t] \in {"scan", "unmap"}
        /\ \A u \in Threads \ {t} : pc'[u] = pc[u] /\ local'[u] = local[u]
    BY <1>1 DEF Malloc, Free, GetHbmInfo, Recalculate, Goto, TypeOK
  <1>3. calm' => calm /\ Quiet BY DEF Malloc, Free, GetHbmInfo, Call, Begin
  <1>4. UNCHANGED <<shared, alive, handle_map>>
    BY DEF Malloc, Free, GetHbmInfo, procs
  <1>5. \A p \in Procs \ {P(t)} : device'[p] = device[p]
    BY <1>1 DEF Malloc, Free, GetHbmInfo, procs, TypeOK
  <1>6. Marks(t) BY <1>1, CallMarks
  <1> QED BY <1>6, <1>2, <1>3, <1>4, <1>5 DEF Others, shared

----------------------------------------------------------------------------
(* Life, overlap and the DCMI refresh. *)

(* What holds of lives, overlap and refreshes, whoever does what.           *)
Base == Typed /\ LifeInv /\ CalmInv /\ DcmiInv

(* It holds at first.                                                       *)
LEMMA BaseInit == Init => Base
  <1> SUFFICES ASSUME Init PROVE Base OBVIOUS
  <1>1. LifeInv BY ThreadsAssumption DEF Init, LifeInv, NoBytes, P
  <1>2. CalmInv BY DEF Init, CalmInv, Busy, Reaping, Refreshing
  <1>3. DcmiInv BY DEF Init, DcmiInv
  <1> QED BY <1>1, <1>2, <1>3, TypedInit DEF Base

(* The step of a thread, which belongs to a process that lives.             *)
LEMMA BaseThread ==
  ASSUME Base, NEW t \in Threads, Others(t), Typed',
         pc[t] # "gone", pc'[t] # "gone",
         \/ Busy(t) /\ calm' = calm
         \/ calm' => calm /\ Quiet
  PROVE  Base'
  <1>1. TypeOK /\ P(t) \in Procs BY LocalType DEF Base, Typed
  <1>2. alive[P(t)] BY <1>1 DEF Base, LifeInv
  <1>3. alive' = alive /\ UNCHANGED <<reaping, reaper, dcmi, storing, blurred>>
    BY DEF Others, Marks, daemon
  <1>4. LifeInv'
    <2>1. ASSUME NEW p \in Procs
          PROVE  /\ alive'[p] => held'[p]
                 /\ ~alive'[p] => \A a \in Ptrs : device'[p][a] = 0
                 /\ \A u \in Threads : P(u) = p => (pc'[u] = "gone" <=> ~alive'[p])
      <3>1. alive'[p] = alive[p] /\ (alive[p] => held'[p] = held[p])
        BY <1>2, <1>3 DEF Others
      <3>2. ~alive[p] => device'[p] = device[p] BY <1>2 DEF Others
      <3>3. \A u \in Threads : (pc'[u] = "gone") <=> (pc[u] = "gone") BY DEF Others
      <3> QED BY <3>1, <3>2, <3>3 DEF Base, LifeInv
    <2>2. ASSUME NEW u \in Threads, pc'[u] = "swap" PROVE ~alive[local'[u].at]
      <3>1. CASE u = t BY <2>2, <3>1 DEF Others
      <3>2. CASE u # t BY <2>2, <3>2 DEF Others, Base, LifeInv
      <3> QED BY <3>1, <3>2
    <2>3. reaping' # 0 => ~alive[reaping'] BY <1>3 DEF Base, LifeInv
    <2> QED BY <1>3, <2>1, <2>2, <2>3 DEF LifeInv, P
  <1>5. CalmInv'
    <2>1. ASSUME calm'
          PROVE  /\ calm /\ ~Reaping /\ ~Refreshing
                 /\ \A u \in Threads \ {t} : ~Busy(u)
      <3>1. CASE Busy(t) /\ calm' = calm BY <2>1, <3>1 DEF Base, CalmInv
      <3>2. CASE calm' => calm /\ Quiet BY <2>1, <3>2 DEF Quiet, Busy
      <3> QED BY <3>1, <3>2
    <2>2. \A u \in Threads \ {t} : Busy(u)' <=> Busy(u) BY DEF Busy, Others
    <2>3. Reaping' = Reaping /\ Refreshing' = Refreshing BY <1>3 DEF Reaping, Refreshing
    <2>4. calm' => crossed' = {} /\ blurred' = {}
      <3>1. ASSUME calm' PROVE crossed' = {}
        <4>1. crossed = {} /\ dcmi[P(t)] = Idle BY <1>1, <2>1, <3>1 DEF Base, CalmInv, Refreshing
        <4> QED BY <4>1 DEF Others, Marks, Cross
      <3> QED BY <1>3, <2>1, <3>1 DEF Base, CalmInv
    <2> QED BY <2>1, <2>2, <2>3, <2>4 DEF CalmInv
  <1>6. DcmiInv'
    <2> SUFFICES ASSUME NEW p \in Procs, dcmi[p] # Idle, p \notin crossed'
                 PROVE  /\ \A u \in Threads : P(u) = p => pc'[u] \notin Open
                        /\ alive[p] => dcmi[p] = RealUsage(p)'
      BY <1>3 DEF DcmiInv, P
    <2>1. p \notin crossed /\ (p = P(t) => ~Cross(t)) BY DEF Others, Marks, Cross
    <2>2. (\A u \in Threads : P(u) = p => pc[u] \notin Open) /\ (alive[p] => dcmi[p] = RealUsage(p))
      BY <2>1 DEF Base, DcmiInv
    <2>3. CASE p # P(t)
      <3>1. \A u \in Threads : P(u) = p => pc'[u] = pc[u] BY <2>3 DEF Others
      <3>2. RealUsage(p)' = RealUsage(p) BY <2>3 DEF Others, RealUsage
      <3> QED BY <2>2, <3>1, <3>2
    <2>4. CASE p = P(t)
      <3>1. device' = device /\ (pc'[t] \in Open => pc[t] \in Open) BY <2>1, <2>4 DEF Others, Marks
      <3>2. \A u \in Threads \ {t} : pc'[u] = pc[u] BY DEF Others
      <3>3. RealUsage(p)' = RealUsage(p) BY <3>1 DEF RealUsage
      <3> QED BY <2>2, <2>4, <3>1, <3>2, <3>3
    <2> QED BY <2>3, <2>4
  <1> QED BY <1>4, <1>5, <1>6 DEF Base

(* The manager's threads keep it.                                           *)
LEMMA BaseDaemons == ASSUME Base, Typed', Daemons PROVE Base'
  <1>1. TypeOK BY DEF Base, Typed
  <1>2. UNCHANGED <<procs, pc, local, counts>>
    BY DEF Daemons, Reap, ReapSwap, ReapSubtract, ReapSlot, DcmiQuery, DcmiLoadPid, DcmiStore
  <1>3. /\ \A t \in Threads : Busy(t)' <=> Busy(t)
        /\ \A p \in Procs : RealUsage(p)' = RealUsage(p)
        /\ alive' = alive /\ device' = device /\ pc' = pc /\ local' = local
    BY <1>2 DEF Busy, RealUsage, procs
  <1>4. LifeInv'
    <2>1. \A p \in Procs : alive[p] => held'[p] = held[p]
      BY <1>1 DEF Daemons, Reap, ReapSwap, ReapSubtract, ReapSlot, DcmiQuery, DcmiLoadPid, DcmiStore,
                  shared, TypeOK
    <2>2. reaping' # 0 => ~alive[reaping']
      BY DEF Daemons, Reap, ReapSwap, ReapSubtract, ReapSlot, DcmiQuery, DcmiLoadPid, DcmiStore,
             Base, LifeInv
    <2> QED BY <1>3, <2>1, <2>2 DEF Base, LifeInv, P
  <1>5. CASE Reap
    <2>1. UNCHANGED <<dcmi, crossed,
                      blurred>> BY <1>5 DEF Reap, ReapSwap, ReapSubtract, ReapSlot, marks
    <2>2. Refreshing' = Refreshing BY <2>1 DEF Refreshing
    <2>3. DcmiInv' BY <1>3, <2>1 DEF DcmiInv, Base, P
    <2>4. CASE ReapSwap \/ ReapSubtract
      <3>1. (Reaping' => Reaping) /\ calm' = calm
        BY <1>1, <2>4 DEF ReapSwap, ReapSubtract, Reaping, TypeOK, Bytes, Idle
      <3>2. CalmInv' BY <1>3, <2>1, <2>2, <3>1 DEF CalmInv, Base
      <3> QED BY <1>4, <2>3, <3>2 DEF Base
    <2>5. CASE \E p \in Procs : ReapSlot(p)
      <3>1. calm' => calm /\ Quiet BY <2>5 DEF ReapSlot, Begin
      <3>2. CalmInv' BY <1>3, <2>1, <2>2, <3>1 DEF CalmInv, Base, Quiet, Busy
      <3> QED BY <1>4, <2>3, <3>2 DEF Base
    <2> QED BY <1>5, <2>4, <2>5 DEF Reap
  <1>6. CASE DcmiQuery
    <2>1. /\ calm' => calm /\ Quiet
          /\ UNCHANGED <<reaping, reaper, blurred>>
          /\ dcmi' = [p \in Procs |-> IF alive[p] THEN RealUsage(p) ELSE Idle]
          /\ crossed' = {P(t) : t \in {u \in Threads : pc[u] \in Open}}
      BY <1>6 DEF DcmiQuery, Begin, Open
    <2>2. Reaping' = Reaping BY <2>1 DEF Reaping
    <2>3. calm' => crossed' = {} BY <2>1 DEF Quiet, Open
    <2>4. CalmInv' BY <1>3, <2>1, <2>2, <2>3 DEF CalmInv, Base, Quiet, Busy
    <2>5. DcmiInv' BY <1>3, <2>1 DEF DcmiInv, P
    <2> QED BY <1>4, <2>4, <2>5 DEF Base
  <1>7. ASSUME NEW p \in Procs, DcmiLoadPid(p) \/ DcmiStore(p) PROVE Base'
    <2>1. /\ UNCHANGED <<reaping, reaper, calm>> /\ dcmi[p] # Idle
          /\ \/ UNCHANGED <<dcmi, crossed, blurred>>
             \/ /\ dcmi' = [dcmi EXCEPT ![p] = Idle]
                /\ crossed' = crossed \ {p}
                /\ p \notin crossed => blurred' \subseteq blurred
      <3>1. CASE DcmiLoadPid(p) BY <3>1 DEF DcmiLoadPid
      <3>2. CASE DcmiStore(p)
        <4>1. p # 0 /\ dcmi[p] # Idle BY <3>2 DEF DcmiStore, Base, Typed, LocalInv, Procs
        <4> QED BY <3>2, <4>1 DEF DcmiStore
      <3> QED BY <1>7, <3>1, <3>2
    <2>2. /\ \A q \in Procs : dcmi'[q] # Idle => dcmi'[q] = dcmi[q] /\ (q \in crossed' <=> q \in crossed)
          /\ Reaping' = Reaping
      BY <1>1, <2>1 DEF TypeOK, Reaping
    <2>3. Refreshing' => Refreshing BY <2>2 DEF Refreshing
    <2>4. calm' => calm /\ (crossed = {} /\ blurred = {} => crossed' = {} /\ blurred' = {}) BY <2>1
    <2>5. CalmInv' BY <1>3, <2>2, <2>3, <2>4 DEF CalmInv, Base
    <2>6. DcmiInv' BY <1>3, <2>2 DEF DcmiInv, Base, P
    <2> QED BY <1>4, <2>5, <2>6 DEF Base
  <1> QED BY <1>5, <1>6, <1>7 DEF Daemons

(* A crash keeps it.                                                        *)
LEMMA BaseCrash == ASSUME Base, Typed', NEW p \in Procs, Crash(p) PROVE Base'
  <1>1. TypeOK BY DEF Base, Typed
  <1>2. \A t \in Threads : Busy(t)' => Busy(t) BY <1>1 DEF Crash, Busy, TypeOK
  <1>3. /\ \A q \in Procs : alive'[q] => alive[q] /\ q # p
        /\ \A q \in Procs \ {p} : alive'[q] = alive[q] /\ device'[q] = device[q]
        /\ ~alive'[p] /\ \A a \in Ptrs : device'[p][a] = 0
    BY <1>1 DEF Crash, TypeOK
  <1>4. \A t \in Threads : pc'[t] = IF P(t) = p THEN "gone" ELSE pc[t] BY DEF Crash
  <1>5. /\ UNCHANGED <<held, daemon,
                       calm>> /\ crossed' = crossed \ {p} /\ blurred' = blurred \ {p}
        /\ UNCHANGED <<reaping, reaper, dcmi>>
    BY DEF Crash, shared, daemon
  <1>6. LifeInv'
    <2>1. \A t \in Threads : pc'[t] = "swap" => pc[t] = "swap" /\ local'[t] = local[t] BY DEF Crash
    <2>2. \A t \in Threads : pc'[t] = "swap" => local'[t].at \in Procs BY DEF Typed, LocalInv
    <2>3. reaping \in Procs \cup {0} BY <1>1 DEF TypeOK
    <2>4. \A t \in Threads : pc'[t] = "swap" => ~alive'[local'[t].at]
      BY <1>3, <2>1, <2>2 DEF Base, LifeInv
    <2>5. reaping' # 0 => ~alive'[reaping'] BY <1>3, <1>5, <2>3 DEF Base, LifeInv
    <2> QED BY <1>3, <1>4, <1>5, <2>4, <2>5 DEF LifeInv, Base, P
  <1>7. Refreshing' = Refreshing BY <1>5 DEF Refreshing, daemon
  <1>8. CalmInv' BY <1>2, <1>5, <1>7 DEF CalmInv, Base, Reaping
  <1>9. DcmiInv'
    <2>1. \A q \in Procs : alive'[q] => RealUsage(q)' = RealUsage(q) BY <1>3 DEF RealUsage
    <2>2. \A t \in Threads : pc'[t] \in Open => pc[t] \in Open /\ P(t) # p BY <1>4 DEF Open
    <2>3. \A q \in Procs \ {p} : q \in crossed' <=> q \in crossed BY <1>5
    <2> QED BY <1>3, <1>5, <2>1, <2>2, <2>3 DEF DcmiInv, Base, P
  <1> QED BY <1>6, <1>8, <1>9 DEF Base

(* A stutter keeps it, ...                                                  *)
LEMMA BaseStutter == ASSUME Base, UNCHANGED vars PROVE Base'
  <1>1. Typed' BY TypedStutter DEF Base
  <1>2. LifeInv' BY DEF Base, LifeInv, vars, shared, procs, daemon, P
  <1>3. CalmInv' BY DEF Base, CalmInv, vars, daemon, marks, Busy, Reaping, Refreshing
  <1>4. DcmiInv' BY DEF Base, DcmiInv, vars, daemon, procs, marks, RealUsage, P
  <1> QED BY <1>1, <1>2, <1>3, <1>4 DEF Base

(* ... and so does every step.                                              *)
LEMMA BaseNext == ASSUME Base, [Next]_vars PROVE Base'
  <1>1. Typed /\ Typed' /\ LifeInv BY TypedNext DEF Base
  <1>2. ASSUME NEW t \in Threads, Operate(t) PROVE Base'
    BY <1>1, <1>2, OperateFrame, BaseThread DEF Busy
  <1>3. ASSUME NEW t \in Threads, Malloc(t) \/ Free(t) \/ GetHbmInfo(t) PROVE Base'
    BY <1>1, <1>3, CallFrame, BaseThread
  <1> QED BY <1>1, <1>2, <1>3, BaseDaemons, BaseCrash, BaseStutter DEF Next, Daemons

----------------------------------------------------------------------------
(* The slots against the device. *)

(* What is true of a process at the step of one of its threads, when its    *)
(* other threads are outside operations.                                    *)
ExactFor(t) == ExactAt(t) /\ (pc[t] \notin Open => Settled(P(t)))

(* The step of a thread concerns its own process, whose other threads are   *)
(* idle: it is enough to look at that thread.                               *)
LEMMA ExactThread ==
  ASSUME Base, ExactInv, NEW t \in Threads, Others(t),
         pc[t] # "gone", pc'[t] # "gone",
         \/ Busy(t) /\ calm' = calm
         \/ calm' => calm /\ Quiet,
         alive[P(t)] /\ ExactFor(t) => ExactFor(t)'
  PROVE  ExactInv'
  <1> SUFFICES ASSUME OneThread \/ calm', NEW p \in Procs, alive'[p] PROVE ExactOf(p)'
    BY DEF ExactInv, OneThread, P
  <1>1. TypeOK /\ P(t) \in Procs BY LocalType DEF Base, Typed
  <1>2. alive' = alive /\ alive[P(t)] /\ blurred' = blurred BY <1>1 DEF Base, LifeInv, Others, Marks
  <1>3. (OneThread \/ calm) /\ \A u \in Threads \ {t} : P(u) = P(t) => ~Busy(u)
    <2>1. CASE OneThread BY <2>1 DEF OneThread
    <2>2. CASE calm'
      <3>1. CASE Busy(t) /\ calm' = calm BY <2>2, <3>1 DEF Base, CalmInv
      <3>2. CASE calm' => calm /\ Quiet BY <2>2, <3>2 DEF Quiet, Busy
      <3> QED BY <3>1, <3>2
    <2> QED BY <2>1, <2>2
  <1>4. ExactOf(p) BY <1>2, <1>3 DEF ExactInv
  <1>5. CASE p # P(t)
    <2>1. \A u \in Threads : P(u) = p => pc'[u] = pc[u] /\ local'[u] = local[u] BY <1>5 DEF Others
    <2>2. device'[p] = device[p] /\ handle_map'[p] = handle_map[p] /\ hbm_used'[p] = hbm_used[p]
      BY <1>2, <1>5 DEF Others
    <2>3. RealUsage(p)' = RealUsage(p) /\ \A b \in Ptrs : Recorded(p, b)' = Recorded(p, b)
      BY <2>2 DEF RealUsage, Recorded
    <2>4. Settled(p)' = Settled(p) BY <1>2, <2>2, <2>3 DEF Settled
    <2>5. ASSUME NEW u \in Threads, P(u) = p PROVE ExactAt(u)'
      <3>1. ExactAt(u) BY <1>4, <2>5 DEF ExactOf
      <3>2. P(u)' = p BY <2>5 DEF P
      <3> QED BY <1>2, <2>1, <2>2, <2>3, <2>5, <3>1, <3>2, LocalType, <1>1 DEF ExactAt
    <2> QED BY <1>4, <2>1, <2>4, <2>5 DEF ExactOf, P
  <1>6. CASE p = P(t)
    <2>1. \A u \in Threads \ {t} : P(u) = p => pc[u] \notin Open /\ pc'[u] \notin Open
      BY <1>3, <1>6 DEF Busy, Open, Others
    <2>2. ExactFor(t) BY <1>4, <1>6, <2>1 DEF ExactOf, ExactFor
    <2>3. ExactFor(t)' BY <1>2, <2>2
    <2>4. ASSUME NEW u \in Threads, P(u) = p PROVE ExactAt(u)'
      <3>1. CASE u = t BY <2>3, <3>1 DEF ExactFor
      <3>2. CASE u # t BY <2>1, <2>4, <3>2 DEF ExactAt, Open
      <3> QED BY <3>1, <3>2
    <2>5. (\A u \in Threads : P(u) = p => pc'[u] \notin Open) => Settled(p)'
      <3>1. (pc'[t] \notin Open) => Settled(P(t))' BY <2>3 DEF ExactFor
      <3>2. Settled(P(t))' = Settled(p)' BY <1>6 DEF Settled, P, RealUsage, Recorded
      <3> QED BY <1>6, <3>1, <3>2
    <2> QED BY <2>4, <2>5 DEF ExactOf, P
  <1> QED BY <1>5, <1>6

(* The device holds n bytes at an address of a process.                     *)
Stores(p, a, n) == device' = [device EXCEPT ![p][a] = n]

(* One address gets another size: what a process really holds moves by the  *)
(* difference.                                                              *)
LEMMA UsageChange ==
  ASSUME TypeOK, TypeOK', NEW p \in Procs, NEW a \in Ptrs, NEW n \in Nat, Stores(p, a, n)
  PROVE  /\ RealUsage(p)' = RealUsage(p) - device[p][a] + n
         /\ RealUsage(p) \in Nat /\ RealUsage(p)' \in Nat
         /\ device'[p][a] = n
         /\ \A b \in Ptrs \ {a} : device'[p][b] = device[p][b]
         /\ \A q \in Procs \ {p} : RealUsage(q)' = RealUsage(q)
  <1> USE DEF Stores
  <1>1. device[p] \in [Ptrs -> Nat] /\ device'[p] \in [Ptrs -> Nat] BY DEF TypeOK, Bytes
  <1>2. device'[p][a] = n /\ \A b \in Ptrs \ {a} : device'[p][b] = device[p][b] BY DEF TypeOK
  <1>3. RealUsage(p)' = RealUsage(p) - device[p][a] + n
    <2> DEFINE f == device[p]
               e == device'[p]
    <2>1. f \in [Ptrs -> Nat] /\ e \in [Ptrs -> Nat] /\ e[a] = n /\ \A b \in Ptrs \ {a} : f[b] = e[b]
      BY <1>1, <1>2
    <2> HIDE DEF f, e
    <2>2. SumFunction(e) = SumFunction(f) - f[a] + e[a] BY <2>1, SumChange, PtrsAssumption
    <2> QED BY <2>1, <2>2 DEF RealUsage, f, e
  <1>4. RealUsage(p) \in Nat /\ RealUsage(p)' \in Nat BY UsageType DEF TypeOK, RealUsage
  <1>5. \A q \in Procs \ {p} : device'[q] = device[q] BY DEF TypeOK
  <1> QED BY <1>2, <1>3, <1>4, <1>5 DEF RealUsage

(* The steps that touch neither the device, the table nor the slot.         *)
LEMMA ExactElsewhere ==
  ASSUME NEW t \in Threads, ExactFor(t), pc[t] \notin Open, pc'[t] \notin Open,
         UNCHANGED <<device, handle_map, blurred>>, hbm_used'[P(t)] = hbm_used[P(t)]
  PROVE  ExactFor(t)'
  <1>1. Settled(P(t)) BY DEF ExactFor
  <1>2. Settled(P(t))' BY <1>1 DEF Settled, RealUsage, Recorded, P
  <1> QED BY <1>2 DEF ExactFor, ExactAt, Open

(* The steps inside operations account for every byte.                      *)
LEMMA ExactOperate ==
  ASSUME Typed, Typed', LifeInv, NEW t \in Threads, Operate(t), alive[P(t)], ExactFor(t)
  PROVE  ExactFor(t)'
  <1> DEFINE p == P(t)
  <1>1. TypeOK /\ TypeOK' /\ p \in Procs /\ p' = p BY LocalType DEF Typed, P
  <1>0. blurred' = blurred BY <1>1, OperateMarks DEF Marks
  <1>2. local[t].size \in Nat /\ local[t].ptr \in Ptrs BY <1>1, LocalType
  <1>3. RealUsage(p) \in Nat /\ hbm_used[p] \in Nat /\ \A b \in Ptrs : handle_map[p][b] \in Nat
    <2>1. hbm_used[p] \in Nat /\ \A b \in Ptrs : handle_map[p][b] \in Nat
      BY <1>1 DEF TypeOK, Bytes
    <2>2. device \in [Procs -> [Ptrs -> Bytes]] BY <1>1 DEF TypeOK
    <2> HIDE DEF p
    <2> QED BY <1>1, <2>1, <2>2, UsageType DEF RealUsage
  <1>4. CASE ScanSlot(t) \/ SwapOut(t)
    <2>1. hbm_used'[p] = hbm_used[p] /\ UNCHANGED <<device, handle_map>> /\ pc[t] \notin Open
      BY <1>1, <1>4, ScanFrame DEF Open
    <2>2. pc'[t] \notin Open
      <3> HIDE DEF p
      <3> QED BY <1>1, <1>4 DEF ScanSlot, SwapOut, NextOfScan, Open, TypeOK
    <2> QED BY <1>0, <2>1, <2>2, ExactElsewhere
  <1>5. CASE \/ SubtractCleaned(t) \/ LoadCurrent(t) \/ CorrectUsed(t) \/ LoadUsed(t)
             \/ QuotaExceeded(t) \/ Reserve(t) \/ Rollback(t) \/ FreeGlobal(t)
    <2>1. hbm_used' = hbm_used /\ UNCHANGED <<device, handle_map>>
      BY <1>5 DEF SubtractCleaned, LoadCurrent, CorrectUsed, LoadUsed, QuotaExceeded, Reserve, Rollback,
                  FreeGlobal, procs, shared
    <2>2. pc[t] \notin Open /\ pc'[t] \notin Open
      BY <1>1, <1>5 DEF SubtractCleaned, LoadCurrent, CorrectUsed, LoadUsed, QuotaExceeded, Reserve,
                  Rollback, FreeGlobal, Open, Goto, Return, Recalculate, TypeOK
    <2> QED BY <1>0, <2>1, <2>2, ExactElsewhere
  <1>6. CASE DeviceMalloc(t)
    <2>1. CASE Goto(t, "malloc", "rollback") /\ UNCHANGED <<device, local, crossed>>
      <3>1. pc[t] \notin Open /\ pc'[t] \notin Open BY <1>1, <2>1 DEF Goto, Open, TypeOK
      <3>2. hbm_used' = hbm_used /\ UNCHANGED <<device, handle_map>>
        BY <1>6, <2>1 DEF DeviceMalloc, shared
      <3> QED BY <1>0, <3>1, <3>2, ExactElsewhere
    <2>2. CASE ~(Goto(t, "malloc", "rollback") /\ UNCHANGED <<device, local, crossed>>)
      <3>1. PICK a \in Ptrs :
              /\ device[p][a] = 0
              /\ device' = [device EXCEPT ![p][a] = local[t].size]
              /\ local' = [local EXCEPT ![t].ptr = a]
              /\ Goto(t, "malloc", "record")
        BY <1>6, <2>2 DEF DeviceMalloc
      <3>2. pc[t] = "malloc" /\ pc'[t] = "record" /\ local'[t].ptr = a /\ local'[t].size = local[t].size
        BY <1>1, <3>1 DEF Goto, TypeOK
      <3>3. hbm_used' = hbm_used /\ handle_map' = handle_map BY <1>6 DEF DeviceMalloc, shared
      <3>4. Settled(p) BY <3>2 DEF ExactFor, Open
      <3>5. /\ RealUsage(p)' = RealUsage(p) + local[t].size
            /\ device'[p][a] = local[t].size /\ \A b \in Ptrs \ {a} : device'[p][b] = device[p][b]
        <4>1. Stores(p, a, local[t].size) /\ device[p][a] = 0 BY <3>1 DEF Stores
        <4> HIDE DEF p
        <4>2. /\ RealUsage(p)' = RealUsage(p) - device[p][a] + local[t].size /\ RealUsage(p) \in Nat
              /\ device'[p][a] = local[t].size /\ \A b \in Ptrs \ {a} : device'[p][b] = device[p][b]
          BY <1>1, <1>2, <4>1, UsageChange
        <4> QED BY <1>2, <4>1, <4>2
      <3>6. \A b \in Ptrs \ {a} : Recorded(p, b)' BY <3>3, <3>4, <3>5 DEF Settled, Recorded
      <3>7. p \notin blurred => hbm_used'[p] + local'[t].size = RealUsage(p)'
        BY <3>2, <3>3, <3>4, <3>5 DEF Settled
      <3> HIDE DEF p
      <3> QED BY <1>0, <1>1, <3>2, <3>5, <3>6, <3>7 DEF ExactFor, ExactAt, Open, p
    <2> QED BY <2>1, <2>2
  <1>7. CASE RecordAlloc(t)
    <2> DEFINE a == local[t].ptr
    <2>1. pc[t] = "record" /\ pc'[t] = "app" BY <1>1, <1>7 DEF RecordAlloc, Return, Goto, TypeOK
    <2>2. /\ p \notin blurred => hbm_used[p] + local[t].size = RealUsage(p)
          /\ device[p][a] = local[t].size
          /\ \A b \in Ptrs \ {a} : Recorded(p, b)
      BY <2>1 DEF ExactFor, ExactAt
    <2>3. hbm_used'[p] = hbm_used[p] + local[t].size BY <1>1, <1>7 DEF RecordAlloc, TypeOK
    <2>4. /\ device' = device /\ handle_map'[p][a] = local[t].size
          /\ \A b \in Ptrs \ {a} : handle_map'[p][b] = handle_map[p][b]
      BY <1>1, <1>2, <1>7 DEF RecordAlloc, TypeOK
    <2>5. RealUsage(p)' = RealUsage(p) BY <2>4 DEF RealUsage
    <2>6. \A b \in Ptrs : Recorded(p, b)' BY <2>2, <2>4 DEF Recorded
    <2>7. Settled(p)' BY <1>0, <1>1, <2>2, <2>3, <2>5, <2>6 DEF Settled
    <2> QED BY <2>1, <2>7 DEF ExactFor, ExactAt, Open
  <1>8. CASE Unmap(t)
    <2> DEFINE a == local[t].ptr
               size == handle_map[p][a]
    <2>1. pc[t] = "unmap" BY <1>8 DEF Unmap, Return, Goto
    <2>2. /\ p \notin blurred => hbm_used[p] = RealUsage(p) + size
          /\ device[p][a] = 0
          /\ \A b \in Ptrs \ {a} : Recorded(p, b)
      BY <2>1 DEF ExactFor, ExactAt
    <2>3. /\ device' = device /\ hbm_used' = hbm_used /\ handle_map'[p][a] = 0
          /\ \A b \in Ptrs \ {a} : handle_map'[p][b] = handle_map[p][b]
      BY <1>1, <1>2, <1>8 DEF Unmap, shared, TypeOK
    <2>4. RealUsage(p)' = RealUsage(p) BY <2>3 DEF RealUsage
    <2>5. \A b \in Ptrs : Recorded(p, b)' BY <2>2, <2>3 DEF Recorded
    <2>6. CASE size = 0 /\ Return(t, "unmap")
      <3>1. pc'[t] = "app" BY <1>1, <2>6 DEF Return, Goto, TypeOK
      <3>2. Settled(p)' BY <1>0, <1>1, <1>3, <2>2, <2>3, <2>4, <2>5, <2>6 DEF Settled
      <3> QED BY <3>1, <3>2 DEF ExactFor, ExactAt, Open
    <2>7. CASE Goto(t, "unmap", "free_slot") /\ local' = [local EXCEPT ![t].size = size]
      <3>1. pc'[t] = "free_slot" /\ local'[t].size = size BY <1>1, <2>7 DEF Goto, TypeOK
      <3>2. p \notin blurred => hbm_used'[p] = RealUsage(p)' + local'[t].size
        BY <2>2, <2>3, <2>4, <3>1
      <3> HIDE DEF p
      <3> QED BY <1>0, <1>1, <2>5, <3>1, <3>2 DEF ExactFor, ExactAt, Open, p
    <2> QED BY <1>8, <2>6, <2>7 DEF Unmap
  <1>9. CASE FreeSlot(t)
    <2>1. pc[t] = "free_slot" /\ pc'[t] = "free_global" BY <1>1, <1>9 DEF FreeSlot, Goto, TypeOK
    <2>2. /\ p \notin blurred => hbm_used[p] = RealUsage(p) + local[t].size
          /\ \A b \in Ptrs : Recorded(p, b)
      BY <2>1 DEF ExactFor, ExactAt
    <2>3. hbm_used'[p] = Minus(hbm_used[p], local[t].size) BY <1>1, <1>9 DEF FreeSlot, TypeOK
    <2>4. p \notin blurred => hbm_used'[p] = RealUsage(p)
      <3> HIDE DEF p
      <3> QED BY <1>2, <1>3, <2>2, <2>3 DEF Minus
    <2>5. UNCHANGED <<device, handle_map>> BY <1>9 DEF FreeSlot, procs
    <2>6. Settled(p)' BY <1>0, <1>1, <2>2, <2>4, <2>5 DEF Settled, RealUsage, Recorded
    <2> QED BY <2>1, <2>6 DEF ExactFor, ExactAt, Open
  <1> QED BY <1>4, <1>5, <1>6, <1>7, <1>8, <1>9 DEF Operate

(* So do the calls: rtFree is first carried out and then accounted for.     *)
LEMMA ExactCalls ==
  ASSUME Typed, Typed', NEW t \in Threads, Malloc(t) \/ Free(t) \/ GetHbmInfo(t), ExactFor(t)
  PROVE  ExactFor(t)'
  <1> DEFINE p == P(t)
  <1>1. TypeOK /\ TypeOK' /\ p \in Procs /\ p' = p BY LocalType DEF Typed, P
  <1>0. blurred' = blurred BY <1>1, CallMarks DEF Marks
  <1>2. pc[t] = "app" BY DEF Malloc, Free, GetHbmInfo, Recalculate, Goto
  <1>3. CASE Malloc(t) \/ GetHbmInfo(t)
    <2>1. hbm_used' = hbm_used /\ UNCHANGED <<device, handle_map>>
      BY <1>3 DEF Malloc, GetHbmInfo, procs, shared
    <2>2. pc'[t] = "scan" BY <1>1, <1>3 DEF Malloc, GetHbmInfo, Recalculate, Goto, TypeOK
    <2> QED BY <1>0, <1>2, <2>1, <2>2, ExactElsewhere DEF Open
  <1>4. CASE Free(t)
    <2>1. PICK a \in Ptrs : /\ device[p][a] > 0
                            /\ device' = [device EXCEPT ![p][a] = 0]
                            /\ local' = [local EXCEPT ![t].ptr = a]
      BY <1>4 DEF Free
    <2>2. pc'[t] = "unmap" /\ local'[t].ptr = a BY <1>1, <1>4, <2>1 DEF Free, Goto, TypeOK
    <2>3. hbm_used' = hbm_used /\ handle_map' = handle_map BY <1>4 DEF Free, shared
    <2>4. Settled(p) BY <1>2 DEF ExactFor, Open
    <2>5. /\ RealUsage(p)' = RealUsage(p) - device[p][a] + 0 /\ RealUsage(p) \in Nat
          /\ device'[p][a] = 0 /\ \A b \in Ptrs \ {a} : device'[p][b] = device[p][b]
      <3>1. Stores(p, a, 0) /\ 0 \in Nat BY <2>1 DEF Stores
      <3> HIDE DEF p
      <3> QED BY <1>1, <3>1, UsageChange
    <2>6. \A b \in Ptrs \ {a} : Recorded(p, b)' BY <2>3, <2>4, <2>5 DEF Settled, Recorded
    <2>7. p \notin blurred => hbm_used'[p] = RealUsage(p)' + handle_map'[p][a]
      <3>1. /\ p \notin blurred => hbm_used'[p] = RealUsage(p)
            /\ handle_map'[p][a] = device[p][a]
        BY <2>3, <2>4 DEF Settled, Recorded
      <3>2. device[p][a] \in Nat BY <1>1 DEF TypeOK, Bytes
      <3> QED BY <2>5, <3>1, <3>2
    <2> HIDE DEF p
    <2> QED BY <1>0, <1>1, <2>2, <2>5, <2>6, <2>7 DEF ExactFor, ExactAt, Open, p
  <1> QED BY <1>3, <1>4

(* At first nobody holds anything.                                          *)
LEMMA ExactInit == Init => ExactInv
  <1> SUFFICES ASSUME Init, NEW p \in Procs PROVE ExactOf(p) BY DEF ExactInv
  <1>1. device[p] = [a \in Ptrs |-> 0] /\ handle_map[p] = [a \in Ptrs |-> 0] /\ hbm_used[p] = 0
    BY DEF Init, NoBytes
  <1>2. device[p] \in [Ptrs -> Nat] /\ \A a \in Ptrs : device[p][a] = 0 BY <1>1
  <1>3. RealUsage(p) = 0
    <2> DEFINE f == device[p]
    <2>1. f \in [Ptrs -> Nat] /\ \A a \in Ptrs : f[a] = 0 BY <1>2
    <2> HIDE DEF f
    <2>2. SumFunction(f) = 0 BY <2>1, SumNat, PtrsAssumption
    <2> QED BY <2>2 DEF f, RealUsage
  <1>4. Settled(p) BY <1>1, <1>3 DEF Settled, Recorded
  <1>5. \A t \in Threads : ExactAt(t) BY DEF Init, ExactAt
  <1> QED BY <1>4, <1>5 DEF ExactOf

(* The manager's threads leave the slot of a live process as it is, save    *)
(* for a refresh, which stores what the process holds or blurs its slot.    *)
LEMMA ExactDaemons == ASSUME Base, ExactInv, Daemons PROVE ExactInv'
  <1> SUFFICES ASSUME OneThread \/ calm', NEW p \in Procs, alive'[p] PROVE ExactOf(p)'
    BY DEF ExactInv, OneThread, P
  <1>1. TypeOK BY DEF Base, Typed
  <1>2. UNCHANGED <<procs, pc, local>>
    BY DEF Daemons, Reap, ReapSwap, ReapSubtract, ReapSlot, DcmiQuery, DcmiLoadPid, DcmiStore
  <1>3. calm' => calm
    BY DEF Daemons, Reap, ReapSwap, ReapSubtract, ReapSlot, DcmiQuery, DcmiLoadPid, DcmiStore, Begin
  <1>4. alive[p] /\ ExactOf(p) BY <1>2, <1>3 DEF ExactInv, procs
  <1>5. /\ RealUsage(p)' = RealUsage(p) /\ \A b \in Ptrs : Recorded(p, b)' = Recorded(p, b)
        /\ device' = device /\ handle_map' = handle_map
    BY <1>2 DEF procs, RealUsage, Recorded
  <1>6. CASE hbm_used'[p] = hbm_used[p] /\ (p \in blurred' <=> p \in blurred)
    <2>1. ASSUME NEW t \in Threads, P(t) = p PROVE ExactAt(t)'
      <3>1. ExactAt(t) /\ P(t)' = p BY <1>4, <2>1 DEF ExactOf, P
      <3>2. local'[t] = local[t] /\ pc'[t] = pc[t] BY <1>2
      <3> QED BY <1>5, <1>6, <2>1, <3>1, <3>2, <1>1, LocalType DEF ExactAt
    <2>2. Settled(p)' = Settled(p) BY <1>5, <1>6 DEF Settled
    <2> QED BY <1>2, <1>4, <2>1, <2>2 DEF ExactOf, P
  <1>7. CASE Reap \/ DcmiQuery \/ \E q \in Procs : DcmiLoadPid(q)
    <2>1. blurred' = blurred
      BY <1>7 DEF Reap, ReapSwap, ReapSubtract, ReapSlot, DcmiQuery, DcmiLoadPid, marks
    <2>2. CASE ReapSwap
      <3>1. reaping # p BY <1>4, <2>2 DEF ReapSwap, Base, LifeInv
      <3>2. hbm_used'[p] = hbm_used[p] BY <1>1, <2>2, <3>1 DEF ReapSwap, TypeOK
      <3> QED BY <1>6, <2>1, <3>2
    <2>3. CASE ~ReapSwap
      <3>1. hbm_used' = hbm_used
        BY <1>7, <2>3 DEF Reap, ReapSubtract, ReapSlot, DcmiQuery, DcmiLoadPid, shared
      <3> QED BY <1>6, <2>1, <3>1
    <2> QED BY <2>2, <2>3
  <1>8. ASSUME NEW q \in Procs, DcmiStore(q) PROVE ExactOf(p)'
    <2>1. CASE q # p
      <3>1. hbm_used'[p] = hbm_used[p] /\ (p \in blurred' <=> p \in blurred)
        BY <1>1, <1>8, <2>1 DEF DcmiStore, TypeOK
      <3> QED BY <1>6, <3>1
    <2>2. CASE q = p /\ p \in crossed
      <3>1. p \in blurred' BY <1>8, <2>2 DEF DcmiStore
      <3>2. ASSUME NEW t \in Threads, P(t) = p PROVE ExactAt(t)'
        <4>1. ExactAt(t) /\ P(t)' = p BY <1>4, <3>2 DEF ExactOf, P
        <4>2. local'[t] = local[t] /\ pc'[t] = pc[t] BY <1>2
        <4> QED BY <1>1, <1>5, <3>1, <3>2, <4>1, <4>2, LocalType DEF ExactAt
      <3>3. Settled(p) => Settled(p)' BY <1>5, <3>1 DEF Settled
      <3> QED BY <1>2, <1>4, <3>2, <3>3 DEF ExactOf, P
    <2>3. CASE q = p /\ p \notin crossed
      <3>1. dcmi[p] # Idle BY <1>8, <2>3 DEF DcmiStore, Base, Typed, LocalInv, Procs
      <3>2. dcmi[p] = RealUsage(p) /\ \A t \in Threads : P(t) = p => pc[t] \notin Open
        BY <1>4, <2>3, <3>1 DEF Base, DcmiInv
      <3>3. hbm_used'[p] = RealUsage(p)' BY <1>1, <1>5, <1>8, <2>3, <3>2 DEF DcmiStore, TypeOK
      <3>4. Settled(p)
        BY <1>4, <3>2 DEF ExactOf
      <3>5. Settled(p)' BY <1>5, <3>3, <3>4 DEF Settled
      <3>6. \A t \in Threads : P(t) = p => pc'[t] \notin Open BY <1>2, <3>2
      <3>7. \A t \in Threads : P(t) = p => ExactAt(t)' BY <3>6 DEF ExactAt, Open
      <3> QED BY <3>5, <3>7 DEF ExactOf, P
    <2> QED BY <2>1, <2>2, <2>3
  <1> QED BY <1>7, <1>8 DEF Daemons

(* A crash leaves what belongs to the other processes as it is.             *)
LEMMA ExactCrash == ASSUME Base, ExactInv, NEW q \in Procs, Crash(q) PROVE ExactInv'
  <1> SUFFICES ASSUME OneThread \/ calm', NEW p \in Procs, alive'[p] PROVE ExactOf(p)'
    BY DEF ExactInv, OneThread, P
  <1>1. TypeOK BY DEF Base, Typed
  <1>2. p # q /\ alive[p] BY <1>1 DEF Crash, TypeOK
  <1>3. ExactOf(p) BY <1>2 DEF ExactInv, Crash
  <1>4. /\ device'[p] = device[p] /\ handle_map'[p] = handle_map[p] /\ hbm_used'[p] = hbm_used[p]
        /\ p \in blurred' <=> p \in blurred
    BY <1>1, <1>2 DEF Crash, TypeOK, shared
  <1>5. \A t \in Threads : P(t) = p => pc'[t] = pc[t] /\ local'[t] = local[t] BY <1>2 DEF Crash
  <1>6. RealUsage(p)' = RealUsage(p) /\ \A b \in Ptrs : Recorded(p, b)' = Recorded(p, b)
    BY <1>4 DEF RealUsage, Recorded
  <1>7. ASSUME NEW t \in Threads, P(t) = p PROVE ExactAt(t)'
    <2>1. ExactAt(t) /\ P(t)' = p BY <1>3, <1>7 DEF ExactOf, P
    <2> QED BY <1>4, <1>5, <1>6, <1>7, <2>1, <1>1, LocalType DEF ExactAt
  <1>8. Settled(p)' = Settled(p) BY <1>4, <1>6 DEF Settled
  <1> QED BY <1>3, <1>5, <1>7, <1>8 DEF ExactOf, P

(* Every step keeps the slots exact.                                        *)
LEMMA ExactNext == ASSUME Base, Base', ExactInv, [Next]_vars PROVE ExactInv'
  <1>1. Typed /\ Typed' /\ LifeInv BY DEF Base
  <1>2. ASSUME NEW t \in Threads, Operate(t) PROVE ExactInv'
    <2>1. Others(t) /\ Busy(t) /\ pc'[t] # "gone" /\ calm' = calm BY <1>1, <1>2, OperateFrame
    <2>2. alive[P(t)] /\ ExactFor(t) => ExactFor(t)' BY <1>1, <1>2, ExactOperate
    <2> QED BY <2>1, <2>2, ExactThread DEF Busy
  <1>3. ASSUME NEW t \in Threads, Malloc(t) \/ Free(t) \/ GetHbmInfo(t) PROVE ExactInv'
    <2>1. /\ Others(t) /\ pc[t] = "app" /\ pc'[t] \notin {"app", "gone"}
          /\ (calm' => calm /\ Quiet)
      BY <1>1, <1>3, CallFrame
    <2>2. alive[P(t)] /\ ExactFor(t) => ExactFor(t)' BY <1>1, <1>3, ExactCalls
    <2> QED BY <2>1, <2>2, ExactThread
  <1>4. CASE UNCHANGED vars
    BY <1>4 DEF vars, shared, procs, marks, ExactInv, ExactOf, ExactAt, Settled, Recorded, RealUsage, P,
                OneThread
  <1> QED BY <1>2, <1>3, <1>4, ExactDaemons, ExactCrash DEF Next, Daemons

(* A sum over the threads of which only one counts.                         *)
LEMMA SumOfOne ==
  ASSUME NEW f \in [Threads -> Nat], NEW t \in Threads, \A u \in Threads \ {t} : f[u] = 0
  PROVE  SumFunction(f) = f[t]
  <1> DEFINE z == [u \in Threads |-> 0]
  <1>1. z \in [Threads -> Nat] /\ \A u \in Threads : z[u] = 0 OBVIOUS
  <1> HIDE DEF z
  <1>2. SumFunction(z) = 0 BY <1>1, SumNat, ThreadsAssumption
  <1>3. \A u \in Threads \ {t} : z[u] = f[u] BY <1>1
  <1>4. SumFunction(f) = SumFunction(z) - z[t] + f[t]
    BY <1>1, <1>3, SumChange, ThreadsAssumption
  <1> QED BY <1>1, <1>2, <1>4

(* The invariant says of the three places what SlotExact says with sums.    *)
LEMMA ExactSlots == ASSUME Base, ExactInv, OneThread \/ calm PROVE SlotExact
  <1> SUFFICES ASSUME NEW p \in Procs, alive[p], p \notin blurred
               PROVE  hbm_used[p] + InFlight(p, {"record"})
                        = RealUsage(p) + Unmapping(p) + InFlight(p, {"free_slot"})
    BY DEF SlotExact
  <1> DEFINE r == [t \in Threads |-> IF P(t) = p /\ pc[t] \in {"record"} THEN local[t].size ELSE 0]
             s == [t \in Threads |-> IF P(t) = p /\ pc[t] \in {"free_slot"} THEN local[t].size ELSE 0]
             m == [t \in Threads |-> IF P(t) = p /\ pc[t] = "unmap" THEN handle_map[p][local[t].ptr]
                                     ELSE 0]
  <1>1. TypeOK /\ ExactOf(p) BY DEF Base, Typed, ExactInv
  <1>2. /\ r \in [Threads -> Nat] /\ s \in [Threads -> Nat] /\ m \in [Threads -> Nat]
    <2>1. \A t \in Threads : local[t].size \in Nat /\ handle_map[p][local[t].ptr] \in Nat
      BY <1>1, LocalType DEF TypeOK, Bytes
    <2> QED BY <2>1
  <1>3. hbm_used[p] \in Nat /\ RealUsage(p) \in Nat
    <2>1. hbm_used[p] \in Nat /\ device \in [Procs -> [Ptrs -> Bytes]] BY <1>1 DEF TypeOK, Bytes
    <2> QED BY <2>1, UsageType DEF RealUsage
  <1>4. /\ InFlight(p, {"record"}) = SumFunction(r) /\ InFlight(p, {"free_slot"}) = SumFunction(s)
        /\ Unmapping(p) = SumFunction(m)
    BY Zenon DEF InFlight, Unmapping
  <1>5. CASE \A t \in Threads : P(t) = p => pc[t] \notin Open
    <2>1. \A t \in Threads : r[t] = 0 /\ s[t] = 0 /\ m[t] = 0 BY <1>5 DEF Open
    <2>2. Settled(p) BY <1>1, <1>5 DEF ExactOf
    <2> HIDE DEF r, s, m
    <2>3. SumFunction(r) = 0 /\ SumFunction(s) = 0 /\ SumFunction(m) = 0
      BY <1>2, <2>1, SumNat, ThreadsAssumption
    <2> QED BY <1>3, <1>4, <2>2, <2>3 DEF Settled
  <1>6. ASSUME NEW t \in Threads, P(t) = p, pc[t] \in Open
        PROVE  hbm_used[p] + InFlight(p, {"record"})
                 = RealUsage(p) + Unmapping(p) + InFlight(p, {"free_slot"})
    <2>1. \A u \in Threads \ {t} : P(u) = p => pc[u] \notin Open
      <3>1. CASE OneThread BY <1>6, <3>1 DEF OneThread
      <3>2. CASE calm BY <1>6, <3>2 DEF Base, CalmInv, Busy, Open
      <3> QED BY <3>1, <3>2
    <2>2. \A u \in Threads \ {t} : r[u] = 0 /\ s[u] = 0 /\ m[u] = 0 BY <2>1 DEF Open
    <2>3. ExactAt(t) BY <1>1, <1>6 DEF ExactOf
    <2>4. hbm_used[p] + r[t] = RealUsage(p) + m[t] + s[t]
      <3>1. CASE pc[t] = "record"
        <4>1. r[t] = local[t].size /\ m[t] = 0 /\ s[t] = 0 BY <1>6, <3>1
        <4>2. hbm_used[p] + local[t].size = RealUsage(p) BY <1>6, <2>3, <3>1 DEF ExactAt
        <4> HIDE DEF r, s, m
        <4> QED BY <1>3, <4>1, <4>2
      <3>2. CASE pc[t] = "unmap"
        <4>1. r[t] = 0 /\ m[t] = handle_map[p][local[t].ptr] /\ s[t] = 0 BY <1>6, <3>2
        <4>2. hbm_used[p] = RealUsage(p) + handle_map[p][local[t].ptr] BY <1>6, <2>3, <3>2 DEF ExactAt
        <4>3. m[t] \in Nat BY <1>2
        <4> HIDE DEF r, s, m
        <4> QED BY <1>3, <4>1, <4>2, <4>3
      <3>3. CASE pc[t] = "free_slot"
        <4>1. r[t] = 0 /\ m[t] = 0 /\ s[t] = local[t].size BY <1>6, <3>3
        <4>2. hbm_used[p] = RealUsage(p) + local[t].size BY <1>6, <2>3, <3>3 DEF ExactAt
        <4>3. s[t] \in Nat BY <1>2
        <4> HIDE DEF r, s, m
        <4> QED BY <1>3, <4>1, <4>2, <4>3
      <3> QED BY <1>6, <3>1, <3>2, <3>3 DEF Open
    <2> HIDE DEF r, s, m
    <2>5. SumFunction(r) = r[t] /\ SumFunction(s) = s[t] /\ SumFunction(m) = m[t]
      BY <1>2, <2>2, SumOfOne
    <2> QED BY <1>4, <2>4, <2>5
  <1> QED BY <1>5, <1>6

(* Where one thread of each process allocates and frees, the counter in     *)
(* the slot of a live process is what the process really holds, up to what  *)
(* it is in the middle of, whatever the other processes, the reaper and     *)
(* crashes do: post_alloc_hbm and post_free_hbm account for every byte.     *)
(* Only a DCMI refresh spoils that, when the process itself allocates or    *)
(* frees between the query and the store into its slot; and the next one    *)
(* that the process leaves alone repairs it.                                *)
THEOREM SlotsAreExact == ASSUME OneThread PROVE Spec => []SlotExact
  <1>1. Init => Base /\ ExactInv BY BaseInit, ExactInit
  <1>2. Base /\ ExactInv /\ [Next]_vars => (Base /\ ExactInv)' BY BaseNext, ExactNext
  <1>3. Base /\ ExactInv => SlotExact BY ExactSlots
  <1> QED BY <1>1, <1>2, <1>3, PTL DEF Spec

(* With any number of threads in a process that is so until two operations  *)
(* overlap.                                                                 *)
THEOREM SlotsAreExactWhileCalm == Spec => [](calm => SlotExact)
  <1>1. Init => Base /\ ExactInv BY BaseInit, ExactInit
  <1>2. Base /\ ExactInv /\ [Next]_vars => (Base /\ ExactInv)' BY BaseNext, ExactNext
  <1>3. Base /\ ExactInv => (calm => SlotExact) BY ExactSlots
  <1> QED BY <1>1, <1>2, <1>3, PTL DEF Spec

----------------------------------------------------------------------------
(* The pod's counter and the quota. *)

(* The registry is finite.                                                  *)
LEMMA ProcsFinite == IsFiniteSet(Procs)
  BY FS_Interval, ProcsAssumption DEF Procs

(* The sums of a scan are numbers.                                          *)
LEMMA PrefixTypes ==
  ASSUME NEW f \in [Procs -> Nat], NEW i \in Nat
  PROVE  Prefix(f, i) \in Nat /\ Suffix(f, i) \in Nat
  <1> DEFINE e == [p \in Procs |-> IF p < i THEN f[p] ELSE 0]
             d == [p \in Procs |-> IF p < i THEN 0 ELSE f[p]]
  <1>1. e \in [Procs -> Nat] /\ d \in [Procs -> Nat] OBVIOUS
  <1>2. Prefix(f, i) = SumFunction(e) /\ Suffix(f, i) = SumFunction(d) BY Zenon DEF Prefix, Suffix
  <1> HIDE DEF e, d
  <1> QED BY <1>1, <1>2, SumNat, ProcsFinite

(* The sums at both ends of a scan.                                         *)
LEMMA PrefixEnds ==
  ASSUME NEW f \in [Procs -> Nat]
  PROVE  /\ Prefix(f, 1) = 0 /\ Suffix(f, 1) = SumFunction(f)
         /\ Prefix(f, NProcs + 1) = SumFunction(f) /\ Suffix(f, NProcs + 1) = 0
  <1> DEFINE z == [p \in Procs |-> 0]
  <1>1. \A p \in Procs : ~(p < 1) /\ p < NProcs + 1 BY ProcsAssumption DEF Procs
  <1>2. [p \in Procs |-> IF p < 1 THEN f[p] ELSE 0] = z BY <1>1
  <1>3. [p \in Procs |-> IF p < 1 THEN 0 ELSE f[p]] = f BY <1>1
  <1>4. [p \in Procs |-> IF p < NProcs + 1 THEN f[p] ELSE 0] = f BY <1>1
  <1>5. [p \in Procs |-> IF p < NProcs + 1 THEN 0 ELSE f[p]] = z BY <1>1
  <1>6. SumFunction(z) = 0
    <2>1. z \in [Procs -> Nat] /\ \A p \in Procs : z[p] = 0 OBVIOUS
    <2> HIDE DEF z
    <2> QED BY <2>1, SumNat, ProcsFinite
  <1> QED BY <1>2, <1>3, <1>4, <1>5, <1>6, Zenon DEF Prefix, Suffix

(* The sums one slot further on.                                            *)
LEMMA PrefixStep ==
  ASSUME NEW f \in [Procs -> Nat], NEW i \in Procs
  PROVE  /\ Prefix(f, i + 1) = Prefix(f, i) + f[i]
         /\ Suffix(f, i) = Suffix(f, i + 1) + f[i]
  <1> DEFINE e == [p \in Procs |-> IF p < i THEN f[p] ELSE 0]
             d == [p \in Procs |-> IF p < i + 1 THEN f[p] ELSE 0]
             b == [p \in Procs |-> IF p < i THEN 0 ELSE f[p]]
             c == [p \in Procs |-> IF p < i + 1 THEN 0 ELSE f[p]]
  <1>1. /\ e \in [Procs -> Nat] /\ d \in [Procs -> Nat] /\ b \in [Procs -> Nat] /\ c \in [Procs -> Nat]
    OBVIOUS
  <1>2. i \in Nat /\ \A p \in Procs : p \in Nat BY DEF Procs
  <1>3. e[i] = 0 /\ d[i] = f[i] /\ b[i] = f[i] /\ c[i] = 0 BY <1>2
  <1>4. \A p \in Procs \ {i} : e[p] = d[p] /\ c[p] = b[p] BY <1>2
  <1>5. /\ Prefix(f, i) = SumFunction(e) /\ Prefix(f, i + 1) = SumFunction(d)
        /\ Suffix(f, i) = SumFunction(b) /\ Suffix(f, i + 1) = SumFunction(c)
    BY Zenon DEF Prefix, Suffix
  <1> HIDE DEF e, d, b, c
  <1>6. SumFunction(d) = SumFunction(e) - e[i] + d[i] BY <1>1, <1>4, SumChange, ProcsFinite
  <1>7. SumFunction(b) = SumFunction(c) - c[i] + b[i] BY <1>1, <1>4, SumChange, ProcsFinite
  <1>8. SumFunction(e) \in Nat /\ SumFunction(c) \in Nat /\ f[i] \in Nat
    BY <1>1, SumNat, ProcsFinite
  <1> QED BY <1>3, <1>5, <1>6, <1>7, <1>8

(* The sums grow with the table; those before a slot with what is before it.*)
LEMMA PrefixMonotone ==
  ASSUME NEW f \in [Procs -> Nat], NEW e \in [Procs -> Nat], NEW i \in Nat
  PROVE  /\ (\A p \in Procs : p < i => f[p] <= e[p]) => Prefix(f, i) <= Prefix(e, i)
         /\ (\A p \in Procs : f[p] <= e[p]) => Suffix(f, i) <= Suffix(e, i)
  <1> DEFINE a == [p \in Procs |-> IF p < i THEN f[p] ELSE 0]
             b == [p \in Procs |-> IF p < i THEN e[p] ELSE 0]
             c == [p \in Procs |-> IF p < i THEN 0 ELSE f[p]]
             d == [p \in Procs |-> IF p < i THEN 0 ELSE e[p]]
  <1>1. /\ a \in [Procs -> Nat] /\ b \in [Procs -> Nat] /\ c \in [Procs -> Nat] /\ d \in [Procs -> Nat]
    OBVIOUS
  <1>2. /\ Prefix(f, i) = SumFunction(a) /\ Prefix(e, i) = SumFunction(b)
        /\ Suffix(f, i) = SumFunction(c) /\ Suffix(e, i) = SumFunction(d)
    BY Zenon DEF Prefix, Suffix
  <1>3. (\A p \in Procs : p < i => f[p] <= e[p]) => \A p \in Procs : a[p] <= b[p] OBVIOUS
  <1>4. (\A p \in Procs : f[p] <= e[p]) => \A p \in Procs : c[p] <= d[p] OBVIOUS
  <1> HIDE DEF a, b, c, d
  <1>5. ASSUME \A p \in Procs : a[p] <= b[p] PROVE SumFunction(a) <= SumFunction(b)
    BY <1>1, <1>5, SumMonotone, ProcsFinite
  <1>6. ASSUME \A p \in Procs : c[p] <= d[p] PROVE SumFunction(c) <= SumFunction(d)
    BY <1>1, <1>6, SumMonotone, ProcsFinite
  <1> QED BY <1>2, <1>3, <1>4, <1>5, <1>6

(* What the processes hold is a table of numbers, and DeviceTotal its sum.  *)
LEMMA UsagesAfter ==
  ASSUME TypeOK'
  PROVE  Usages' \in [Procs -> Nat] /\ DeviceTotal' = SumFunction(Usages')
  <1>1. \A p \in Procs : RealUsage(p)' \in Nat
    <2>1. device' \in [Procs -> [Ptrs -> Bytes]] BY DEF TypeOK
    <2> QED BY <2>1, UsageType DEF RealUsage
  <1>2. Usages' \in [Procs -> Nat] BY <1>1 DEF Usages
  <1>3. DeviceTotal' = SumFunction(Usages') BY Zenon DEF DeviceTotal, Usages
  <1> QED BY <1>2, <1>3

(* The same in the present state, with the slots.                           *)
LEMMA UsagesType ==
  ASSUME TypeOK
  PROVE  /\ Usages \in [Procs -> Nat] /\ DeviceTotal = SumFunction(Usages) /\ DeviceTotal \in Nat
         /\ hbm_used \in [Procs -> Nat] /\ SumFunction(hbm_used) \in Nat
  <1>1. \A p \in Procs : RealUsage(p) \in Nat
    <2>1. device \in [Procs -> [Ptrs -> Bytes]] BY DEF TypeOK
    <2> QED BY <2>1, UsageType DEF RealUsage
  <1>2. Usages \in [Procs -> Nat] BY <1>1 DEF Usages
  <1>3. DeviceTotal = SumFunction(Usages) BY Zenon DEF DeviceTotal, Usages
  <1>4. hbm_used \in [Procs -> Nat] BY DEF TypeOK, Bytes
  <1>5. SumFunction(hbm_used) \in Nat /\ SumFunction(Usages) \in Nat
    BY <1>2, <1>4, SumNat, ProcsFinite
  <1> QED BY <1>2, <1>3, <1>4, <1>5

(* When no process holds more than before, neither does the pod.            *)
LEMMA UsagesShrink ==
  ASSUME TypeOK, TypeOK', \A p \in Procs : RealUsage(p)' <= RealUsage(p)
  PROVE  /\ DeviceTotal' <= DeviceTotal
         /\ \A i \in Nat : Prefix(Usages', i) <= Prefix(Usages, i) /\ Suffix(Usages', i) <= Suffix(Usages, i)
  <1> DEFINE e == Usages
             d == Usages'
  <1>1. e \in [Procs -> Nat] /\ DeviceTotal = SumFunction(e) BY UsagesType
  <1>2. d \in [Procs -> Nat] /\ DeviceTotal' = SumFunction(d) BY UsagesAfter
  <1>3. \A p \in Procs : d[p] <= e[p] BY DEF Usages
  <1> HIDE DEF e, d
  <1>4. SumFunction(d) <= SumFunction(e) BY <1>1, <1>2, <1>3, SumMonotone, ProcsFinite
  <1>5. \A i \in Nat : Prefix(d, i) <= Prefix(e, i) /\ Suffix(d, i) <= Suffix(e, i)
    BY <1>1, <1>2, <1>3, PrefixMonotone
  <1> QED BY <1>1, <1>2, <1>4, <1>5 DEF e, d

(* When one process holds n more than before, so does the pod.              *)
LEMMA UsagesGrow ==
  ASSUME TypeOK, TypeOK', NEW q \in Procs, NEW n \in Nat,
         RealUsage(q)' = RealUsage(q) + n,
         \A p \in Procs \ {q} : RealUsage(p)' = RealUsage(p)
  PROVE  DeviceTotal' = DeviceTotal + n
  <1> DEFINE e == Usages
             d == Usages'
  <1>1. e \in [Procs -> Nat] /\ DeviceTotal = SumFunction(e) /\ DeviceTotal \in Nat BY UsagesType
  <1>2. d \in [Procs -> Nat] /\ DeviceTotal' = SumFunction(d) BY UsagesAfter
  <1>3. (\A p \in Procs \ {q} : e[p] = d[p]) /\ d[q] = e[q] + n BY DEF Usages
  <1> HIDE DEF e, d
  <1>4. SumFunction(d) = SumFunction(e) - e[q] + d[q] BY <1>1, <1>2, <1>3, SumChange, ProcsFinite
  <1> QED BY <1>1, <1>2, <1>3, <1>4

(* Every process of the pod uses the same device.                           *)
SingleDevice == \A p, q \in Procs : SameDevice(p, q)

(* Nothing of what a value is compared with changes.                        *)
LEMMA SoundSame ==
  ASSUME UNCHANGED <<device, hbm_used>>
  PROVE  /\ DeviceTotal' = DeviceTotal /\ Usages' = Usages
         /\ SumFunction(hbm_used)' = SumFunction(hbm_used)
         /\ \A n : Sound(n)' <=> Sound(n)
  <1>1. DeviceTotal' = DeviceTotal /\ Usages' = Usages
    BY DEF DeviceTotal, Usages, RealUsage
  <1>2. SumFunction(hbm_used)' = SumFunction(hbm_used) OBVIOUS
  <1> QED BY <1>1, <1>2 DEF Sound

(* Passing a slot in the scan: what its process holds is added to the sum,  *)
(* and the slot has at least as much.                                       *)
LEMMA QuotaPass ==
  ASSUME Base, Base', NEW t \in Threads, QuotaAt(t), pc[t] \in {"scan", "swap"}, UNCHANGED device,
         NEW c, pc'[t] = NextOfScan(local[t].at, c), local'[t].at = local[t].at + 1,
         local'[t].total = local[t].total + RealUsage(local[t].at),
         hbm_used'[local[t].at] >= RealUsage(local[t].at),
         \A p \in Procs \ {local[t].at} : hbm_used'[p] = hbm_used[p]
  PROVE  QuotaAt(t)'
  <1> DEFINE i == local[t].at
             n == local[t].total
             m == local'[t].total
             f == Usages
             h == hbm_used
             k == hbm_used'
  <1>1. TypeOK /\ TypeOK' /\ i \in Procs /\ n \in Nat
    BY LocalType DEF Base, Typed, LocalInv
  <1>2. f \in [Procs -> Nat] /\ h \in [Procs -> Nat] /\ k \in [Procs -> Nat] /\ DeviceTotal = SumFunction(f)
    <2>1. f \in [Procs -> Nat] /\ h \in [Procs -> Nat] /\ DeviceTotal = SumFunction(f)
      BY <1>1, UsagesType
    <2>2. k \in [Procs -> Nat] BY <1>1 DEF TypeOK, Bytes
    <2> QED BY <2>1, <2>2
  <1>4. DeviceTotal' = DeviceTotal /\ Usages' = f BY DEF DeviceTotal, Usages, RealUsage
  <1>5. Prefix(f, i) <= n /\ n + Suffix(f, i) <= Limit /\ n <= Prefix(h, i) BY DEF QuotaAt
  <1>6. /\ local'[t].at = i + 1
        /\ pc'[t] = "scan" => i < NProcs
        /\ pc'[t] # "scan" => ~(i < NProcs) /\ pc'[t] \in {"clean", "current"}
    BY DEF NextOfScan
  <1>8. m = n + f[i] /\ k[i] >= f[i] /\ \A p \in Procs \ {i} : k[p] = h[p]
    BY <1>1 DEF Usages
  <1>9. m \in Nat /\ i \in Nat /\ f[i] \in Nat /\ k[i] \in Nat
    <2>1. m \in Nat BY <1>1, LocalType DEF TypeOK, Bytes
    <2> HIDE DEF f, k, i, n, m, h
    <2> QED BY <1>1, <1>2, <2>1 DEF Procs
  <1> HIDE DEF f, k, i, n, m, h
  <1>10. Prefix(f, i + 1) = Prefix(f, i) + f[i] /\ Suffix(f, i) = Suffix(f, i + 1) + f[i]
    BY <1>1, <1>2, PrefixStep
  <1>11. Prefix(k, i + 1) = Prefix(k, i) + k[i] BY <1>1, <1>2, PrefixStep
  <1>12. Prefix(h, i) <= Prefix(k, i)
    <2>1. \A p \in Procs : p < i => h[p] <= k[p] BY <1>1, <1>2, <1>8 DEF Procs
    <2> QED BY <1>2, <1>9, <2>1, PrefixMonotone
  <1>13. /\ Prefix(f, i) \in Nat /\ Prefix(f, i + 1) \in Nat /\ Suffix(f, i + 1) \in Nat
         /\ Prefix(h, i) \in Nat /\ Prefix(k, i) \in Nat /\ Limit \in Nat /\ Prefix(k, i + 1) \in Nat
    <2>1. i + 1 \in Nat /\ Limit \in Nat BY <1>9, BytesAssumption
    <2>2. Prefix(f, i) \in Nat /\ Prefix(f, i + 1) \in Nat /\ Suffix(f, i + 1) \in Nat
      BY <1>2, <1>9, <2>1, PrefixTypes
    <2>3. Prefix(h, i) \in Nat /\ Prefix(k, i) \in Nat /\ Prefix(k, i + 1) \in Nat
      BY <1>2, <1>9, <2>1, PrefixTypes
    <2> QED BY <2>1, <2>2, <2>3
  <1>14. /\ Prefix(f, i + 1) <= m /\ m + Suffix(f, i + 1) <= Limit /\ m <= Prefix(k, i + 1)
    BY <1>1, <1>5, <1>8, <1>9, <1>10, <1>11, <1>12, <1>13
  <1>15. CASE pc'[t] = "scan"
    <2>1. QuotaAt(t)' <=> (/\ Prefix(Usages', i + 1) <= m
                           /\ m + Suffix(Usages', i + 1) <= Limit
                           /\ m <= Prefix(hbm_used', i + 1))
      BY <1>6, <1>15 DEF QuotaAt, m, Prefix, Suffix
    <2> QED BY <1>4, <1>14, <2>1 DEF k
  <1>16. CASE pc'[t] # "scan"
    <2>1. i = NProcs BY <1>1, <1>6, <1>16, ProcsAssumption DEF Procs
    <2>2. /\ Prefix(f, NProcs + 1) = DeviceTotal /\ Prefix(k, NProcs + 1) = SumFunction(k)
          /\ Suffix(f, NProcs + 1) = 0
      BY <1>2, PrefixEnds
    <2>3. DeviceTotal <= m /\ m <= Limit /\ m <= SumFunction(k) BY <1>9, <1>14, <2>1, <2>2
    <2>4. Sound(local[t].total)' BY <1>4, <2>3 DEF Sound, m, k
    <2> QED BY <1>6, <1>16, <2>4 DEF QuotaAt
  <1> QED BY <1>15, <1>16

(* A dead process holds nothing.                                            *)
LEMMA DeadUsage == ASSUME Base, NEW p \in Procs, ~alive[p] PROVE RealUsage(p) = 0
  <1>1. device[p] \in [Ptrs -> Nat] /\ \A a \in Ptrs : device[p][a] = 0
    BY DEF Base, Typed, LifeInv, TypeOK, Bytes
  <1> QED BY <1>1, SumNat, PtrsAssumption DEF RealUsage

(* The scan of one slot: with one device and nobody else at work, the slot  *)
(* of a live process has what the process holds, and that of a dead one     *)
(* nothing that is still on the device.                                     *)
LEMMA QuotaScan ==
  ASSUME Base, Base', ExactInv, SingleDevice, calm, NEW t \in Threads, QuotaAt(t),
         ScanSlot(t) \/ SwapOut(t)
  PROVE  QuotaAt(t)'
  <1> DEFINE i == local[t].at
             n == local[t].total
  <1>1. /\ TypeOK /\ TypeOK' /\ pc[t] \in {"scan", "swap"} /\ i \in Procs /\ n \in Nat /\ P(t) \in Procs
        /\ hbm_used[i] \in Nat /\ hbm_used'[i] \in Nat
    <2>1. TypeOK /\ TypeOK' /\ pc[t] \in {"scan", "swap"} BY DEF Base, Typed, ScanSlot, SwapOut
    <2>2. i \in Procs /\ n \in Nat /\ P(t) \in Procs BY <2>1, LocalType DEF Base, Typed, LocalInv
    <2> QED BY <2>1, <2>2 DEF TypeOK, Bytes
  <1>2. UNCHANGED device BY DEF ScanSlot, SwapOut, procs
  <1>3. Mine(i, t) = hbm_used[i] BY <1>1 DEF SingleDevice, Mine
  <1>4. CASE SwapOut(t)
    <2>1. pc[t] = "swap" /\ ~alive[i] BY <1>4 DEF SwapOut, Base, LifeInv
    <2>2. RealUsage(i) = 0 BY <1>1, <2>1, DeadUsage
    <2>3. PICK c : pc'[t] = NextOfScan(i, c) BY <1>1, <1>4 DEF SwapOut, TypeOK
    <2>4. /\ local'[t].at = i + 1 /\ local'[t].total = n
          /\ \A p \in Procs \ {i} : hbm_used'[p] = hbm_used[p]
      BY <1>1, <1>4 DEF SwapOut, TypeOK
    <2>5. local'[t].total = n + RealUsage(i) /\ hbm_used'[i] >= RealUsage(i) BY <1>1, <2>2, <2>4
    <2> QED BY <1>1, <1>2, <2>3, <2>4, <2>5, QuotaPass
  <1>5. CASE ScanSlot(t) /\ held[i] /\ ~alive[i]
    <2>1. pc[t] = "scan" /\ pc'[t] = "swap" /\ UNCHANGED <<local, hbm_used>>
      BY <1>1, <1>5 DEF ScanSlot, TypeOK
    <2>2. Usages' = Usages BY <1>2 DEF Usages, RealUsage
    <2> QED BY <2>1, <2>2 DEF QuotaAt, Prefix, Suffix
  <1>6. CASE ScanSlot(t) /\ (held[i] => alive[i])
    <2>1. /\ UNCHANGED hbm_used /\ local'[t].at = i + 1
          /\ local'[t].total = n + (IF held[i] THEN Mine(i, t) ELSE 0)
      BY <1>1, <1>6 DEF ScanSlot, TypeOK
    <2>2. PICK c : pc'[t] = NextOfScan(i, c) BY <1>1, <1>6 DEF ScanSlot, TypeOK
    <2>3. CASE held[i]
      <3>1. \A u \in Threads : pc[u] \notin Open BY <1>1 DEF Base, CalmInv, Busy, Open
      <3>2. blurred = {} BY DEF Base, CalmInv
      <3>3. hbm_used[i] = RealUsage(i) BY <1>1, <1>6, <2>3, <3>1, <3>2 DEF ExactInv, ExactOf, Settled
      <3>4. local'[t].total = n + RealUsage(i) /\ hbm_used'[i] >= RealUsage(i)
        BY <1>1, <1>3, <2>1, <2>3, <3>3
      <3> QED BY <1>1, <1>2, <2>1, <2>2, <3>4, QuotaPass
    <2>4. CASE ~held[i]
      <3>1. ~alive[i] BY <1>1, <2>4 DEF Base, LifeInv
      <3>2. RealUsage(i) = 0 BY <1>1, <3>1, DeadUsage
      <3>3. local'[t].total = n + RealUsage(i) /\ hbm_used'[i] >= RealUsage(i)
        BY <1>1, <2>1, <2>4, <3>2
      <3> QED BY <1>1, <1>2, <2>1, <2>2, <3>3, QuotaPass
    <2> QED BY <2>3, <2>4
  <1> QED BY <1>4, <1>5, <1>6

(* A fresh scan starts from nothing.                                        *)
LEMMA QuotaFresh ==
  ASSUME TypeOK', NEW t \in Threads, pc'[t] = "scan", WithinQuota',
         local'[t].at = 1, local'[t].total = 0
  PROVE  QuotaAt(t)'
  <1> DEFINE f == Usages'
             k == hbm_used'
  <1>1. f \in [Procs -> Nat] /\ DeviceTotal' = SumFunction(f) BY UsagesAfter
  <1>2. k \in [Procs -> Nat] BY DEF TypeOK, Bytes
  <1>3. DeviceTotal' <= Limit BY DEF WithinQuota
  <1>4. QuotaAt(t)' <=> (/\ Prefix(f, 1) <= 0 /\ 0 + Suffix(f, 1) <= Limit /\ 0 <= Prefix(k, 1))
    BY DEF QuotaAt, Prefix, Suffix
  <1> HIDE DEF f, k
  <1>5. Prefix(f, 1) = 0 /\ Suffix(f, 1) = SumFunction(f) /\ Prefix(k, 1) = 0
    BY <1>1, <1>2, PrefixEnds
  <1>6. SumFunction(f) \in Nat BY <1>1, SumNat, ProcsFinite
  <1> QED BY <1>1, <1>3, <1>4, <1>5, <1>6

(* CorrectUsed sets the counter to the sum when nobody has moved it since   *)
(* it was loaded.                                                           *)
LEMMA CorrectExact ==
  ASSUME NEW seen \in 0 .. U64 - 1, NEW total \in Nat, total < U64
  PROVE  (IF total > seen THEN (seen + (total - seen)) % U64 ELSE Minus(seen, seen - total)) = total
  <1>1. CASE total > seen
    <2>1. seen + (total - seen) = total OBVIOUS
    <2>2. total % U64 = total BY BytesAssumption
    <2> QED BY <1>1, <2>1, <2>2
  <1>2. CASE ~(total > seen) BY <1>2 DEF Minus
  <1> QED BY <1>1, <1>2

(* The steps inside an operation that is alone keep the quota.              *)
LEMMA QuotaOperate ==
  ASSUME Base, Base', ExactInv, SingleDevice, calm, NEW t \in Threads, WithinQuota, QuotaAt(t), Operate(t)
  PROVE  WithinQuota' /\ QuotaAt(t)'
  <1>1. TypeOK /\ TypeOK' /\ P(t) \in Procs BY LocalType DEF Base, Typed
  <1>2. /\ local[t].size \in Nat /\ local[t].total \in Nat /\ local[t].seen \in Nat
        /\ local[t].back \in {"app", "used"} /\ memory_used \in 0 .. U64 - 1
        /\ Limit \in Nat /\ U64 \in Nat /\ Limit < U64 /\ DeviceBytes \in Nat
        /\ Limit + DeviceBytes < U64
    BY <1>1, LocalType, BytesAssumption DEF TypeOK
  <1>3. CASE ~DeviceMalloc(t)
    <2>1. UNCHANGED device
      BY <1>3 DEF Operate, ScanSlot, SwapOut, SubtractCleaned, LoadCurrent, CorrectUsed, LoadUsed,
                  QuotaExceeded, Reserve, RecordAlloc, Rollback, Unmap, FreeSlot, FreeGlobal, procs
    <2>2. DeviceTotal' = DeviceTotal BY <2>1 DEF DeviceTotal, RealUsage
    <2>3. WithinQuota' BY <2>2 DEF WithinQuota
    <2>4. CASE ScanSlot(t) \/ SwapOut(t) BY <2>3, <2>4, QuotaScan
    <2>5. CASE SubtractCleaned(t)
      <3>1. /\ pc[t] = "clean" /\ pc'[t] = "current" /\ local'[t].total = local[t].total
            /\ UNCHANGED <<device, hbm_used>>
        BY <1>1, <2>5 DEF SubtractCleaned, Goto, procs, TypeOK
      <3>2. Sound(local[t].total) BY <3>1 DEF QuotaAt
      <3>3. Sound(local[t].total)' BY <3>1, <3>2, SoundSame DEF Sound
      <3> QED BY <2>3, <3>1, <3>3 DEF QuotaAt
    <2>6. CASE LoadCurrent(t)
      <3>1. /\ pc[t] = "current" /\ pc'[t] = "fix" /\ local'[t].total = local[t].total
            /\ local'[t].seen = memory_used /\ UNCHANGED <<device, hbm_used, memory_used>>
        BY <1>1, <2>6 DEF LoadCurrent, Goto, procs, shared, TypeOK
      <3>2. Sound(local[t].total) BY <3>1 DEF QuotaAt
      <3>3. Sound(local[t].total)' BY <3>1, <3>2, SoundSame DEF Sound
      <3> QED BY <2>3, <3>1, <3>3 DEF QuotaAt
    <2>7. CASE CorrectUsed(t)
      <3>1. /\ pc[t] = "fix" /\ pc'[t] \in {"app", "used"} /\ UNCHANGED <<device, hbm_used>>
        BY <1>1, <2>7 DEF CorrectUsed, Goto, Return, procs, TypeOK
      <3>2. Sound(local[t].total) /\ local[t].seen = memory_used BY <3>1 DEF QuotaAt
      <3>3. memory_used' = local[t].total
        <4> DEFINE n == local[t].total
                   s == local[t].seen
        <4>1. n \in Nat /\ n < U64 BY <1>2, <3>2 DEF Sound
        <4>2. memory_used' = IF n > s THEN (s + (n - s)) % U64 ELSE Minus(s, s - n)
          BY <2>7, <3>2 DEF CorrectUsed
        <4>3. s \in 0 .. U64 - 1 BY <1>2, <3>2
        <4> HIDE DEF n, s
        <4>4. memory_used' = n BY <4>1, <4>2, <4>3, CorrectExact
        <4> QED BY <4>4 DEF n
      <3>4. Sound(memory_used)' BY <3>1, <3>2, <3>3, SoundSame DEF Sound
      <3> QED BY <2>3, <3>1, <3>4 DEF QuotaAt
    <2>8. CASE LoadUsed(t)
      <3>1. /\ pc[t] = "used" /\ pc'[t] = "reserve"
            /\ local'[t].seen = memory_used /\ UNCHANGED <<device, hbm_used, memory_used>>
        BY <1>1, <2>8 DEF LoadUsed, Goto, procs, shared, TypeOK
      <3>2. Sound(memory_used) BY <3>1 DEF QuotaAt
      <3>3. Sound(memory_used)' BY <3>1, <3>2, SoundSame DEF Sound
      <3> QED BY <2>3, <3>1, <3>3 DEF QuotaAt
    <2>9. CASE Reserve(t)
      <3>1. pc[t] = "reserve" /\ WithinLimit(t) /\ UNCHANGED <<device, hbm_used>>
        BY <2>9 DEF Reserve, procs
      <3>2. Sound(memory_used) /\ local[t].seen = memory_used BY <3>1 DEF QuotaAt
      <3>3. pc'[t] = "malloc" /\ Forget(t) BY <1>1, <2>9, <3>2 DEF Reserve, Goto, TypeOK
      <3>4. local'[t].size = local[t].size BY <1>1, <3>3, ForgetType
      <3>5. Fits(t)
        <4> DEFINE s == local[t].seen + local[t].size
        <4>1. DeviceTotal \in Nat /\ DeviceTotal <= local[t].seen BY <1>1, <3>2, UsagesType DEF Sound
        <4>2. s \in Nat /\ s % U64 <= Limit BY <1>2, <3>1 DEF WithinLimit, NewUsed
        <4>3. CASE s < U64
          <5>1. s <= Limit
            <6> HIDE DEF s
            <6>1. s % U64 = s BY <1>2, <4>2, <4>3
            <6> QED BY <4>2, <6>1
          <5> QED BY <1>2, <4>1, <5>1 DEF Fits
        <4>4. CASE ~(s < U64)
          <5>1. local[t].seen <= Limit BY <3>2 DEF Sound
          <5> QED BY <1>2, <4>4, <5>1 DEF Fits
        <4> QED BY <4>3, <4>4
      <3>6. Fits(t)' BY <3>1, <3>4, <3>5, SoundSame DEF Fits
      <3> QED BY <2>3, <3>3, <3>6 DEF QuotaAt
    <2>10. CASE QuotaExceeded(t) \/ RecordAlloc(t) \/ Unmap(t) \/ FreeSlot(t)
      <3>1. pc'[t] \in {"app", "free_slot", "free_global"}
        BY <1>1, <2>10 DEF QuotaExceeded, RecordAlloc, Unmap, FreeSlot, Return, Goto, TypeOK
      <3> QED BY <2>3, <3>1 DEF QuotaAt
    <2>11. CASE Rollback(t) \/ FreeGlobal(t)
      <3>1. CASE pc'[t] = "app" BY <2>3, <3>1 DEF QuotaAt
      <3>2. CASE pc'[t] # "app"
        <4>1. Recalculate(t, "rollback", "app") \/ Recalculate(t, "free_global", "app")
          BY <1>1, <2>11, <3>2 DEF Rollback, FreeGlobal, Return, Goto, TypeOK
        <4>2. pc'[t] = "scan" /\ local'[t].at = 1 /\ local'[t].total = 0
          BY <1>1, <4>1 DEF Recalculate, Goto, TypeOK
        <4> QED BY <1>1, <2>3, <4>2, QuotaFresh
      <3> QED BY <3>1, <3>2
    <2> QED BY <1>3, <2>4, <2>5, <2>6, <2>7, <2>8, <2>9, <2>10, <2>11 DEF Operate
  <1>4. CASE DeviceMalloc(t)
    <2>1. pc[t] = "malloc" /\ pc'[t] \in {"record", "rollback"}
      BY <1>1, <1>4 DEF DeviceMalloc, Goto, TypeOK
    <2>2. QuotaAt(t)' BY <2>1 DEF QuotaAt
    <2>3. CASE UNCHANGED device
      <3>1. DeviceTotal' = DeviceTotal BY <2>3 DEF DeviceTotal, RealUsage
      <3> QED BY <2>2, <3>1 DEF WithinQuota
    <2>4. CASE ~UNCHANGED device
      <3>1. PICK a \in Ptrs : /\ device[P(t)][a] = 0
                              /\ DeviceTotal + local[t].size <= DeviceBytes
                              /\ device' = [device EXCEPT ![P(t)][a] = local[t].size]
        BY <1>4, <2>4 DEF DeviceMalloc
      <3>2. DeviceTotal \in Nat BY <1>1, UsagesType
      <3> DEFINE q == P(t)
                 n == local[t].size
      <3>3. /\ RealUsage(q)' = RealUsage(q) - device[q][a] + n /\ RealUsage(q) \in Nat
            /\ \A p \in Procs \ {q} : RealUsage(p)' = RealUsage(p)
        <4>1. q \in Procs /\ n \in Nat /\ Stores(q, a, n) BY <1>1, <1>2, <3>1 DEF Stores
        <4> HIDE DEF q, n
        <4> QED BY <1>1, <4>1, UsageChange
      <3>4. DeviceTotal' = DeviceTotal + n
        <4>1. q \in Procs /\ n \in Nat /\ device[q][a] = 0 BY <1>1, <1>2, <3>1
        <4> HIDE DEF q, n
        <4>2. RealUsage(q)' = RealUsage(q) + n BY <3>3, <4>1
        <4> QED BY <1>1, <3>3, <4>1, <4>2, UsagesGrow
      <3>5. Fits(t) BY <2>1 DEF QuotaAt
      <3>6. DeviceTotal' <= Limit BY <1>2, <3>1, <3>2, <3>4, <3>5 DEF Fits
      <3> QED BY <2>2, <3>6 DEF WithinQuota
    <2> QED BY <2>3, <2>4
  <1> QED BY <1>3, <1>4

(* A call starts a fresh scan, or takes memory off the device.              *)
LEMMA QuotaCalls ==
  ASSUME Base, Base', WithinQuota, NEW t \in Threads, Malloc(t) \/ Free(t) \/ GetHbmInfo(t)
  PROVE  WithinQuota' /\ QuotaAt(t)'
  <1>1. TypeOK /\ TypeOK' /\ P(t) \in Procs BY LocalType DEF Base, Typed
  <1>2. CASE Malloc(t) \/ GetHbmInfo(t)
    <2>1. UNCHANGED device BY <1>2 DEF Malloc, GetHbmInfo, procs
    <2>2. WithinQuota' BY <2>1 DEF WithinQuota, DeviceTotal, RealUsage
    <2>3. pc'[t] = "scan" /\ local'[t].at = 1 /\ local'[t].total = 0
      <3>1. CASE Malloc(t)
        <4>1. local[t] = Blank /\ pc'[t] = "scan"
          BY <1>1, <3>1 DEF Malloc, Base, Typed, LocalInv, Busy, TypeOK
        <4>2. local'[t].at = local[t].at /\ local'[t].total = local[t].total
          <5>1. PICK n \in Sizes : local' = [local EXCEPT ![t].size = n, ![t].back = "used"]
            BY <3>1 DEF Malloc
          <5> QED BY <1>1, <5>1 DEF TypeOK
        <4> QED BY <4>1, <4>2, BlankType
      <3>2. CASE GetHbmInfo(t) BY <1>1, <3>2 DEF GetHbmInfo, Recalculate, Goto, TypeOK
      <3> QED BY <1>2, <3>1, <3>2
    <2> QED BY <1>1, <2>2, <2>3, QuotaFresh
  <1>3. CASE Free(t)
    <2>1. PICK a \in Ptrs : device' = [device EXCEPT ![P(t)][a] = 0] BY <1>3 DEF Free
    <2>2. \A p \in Procs : RealUsage(p)' <= RealUsage(p)
      <3> DEFINE q == P(t)
      <3>1. q \in Procs /\ 0 \in Nat /\ Stores(q, a, 0) BY <1>1, <2>1 DEF Stores
      <3>2. device[q][a] \in Nat BY <1>1 DEF TypeOK, Bytes
      <3> HIDE DEF q
      <3>3. /\ RealUsage(q)' = RealUsage(q) - device[q][a] + 0 /\ RealUsage(q) \in Nat
            /\ \A p \in Procs \ {q} : RealUsage(p)' = RealUsage(p)
        BY <1>1, <3>1, UsageChange
      <3>4. RealUsage(q)' <= RealUsage(q) BY <3>2, <3>3
      <3>5. \A p \in Procs : RealUsage(p) \in Nat
        <4>1. device \in [Procs -> [Ptrs -> Bytes]] BY <1>1 DEF TypeOK
        <4> QED BY <4>1, UsageType DEF RealUsage
      <3>6. ASSUME NEW p \in Procs \ {q} PROVE RealUsage(p)' <= RealUsage(p)
        <4>1. RealUsage(p)' = RealUsage(p) /\ RealUsage(p) \in Nat BY <3>3, <3>5
        <4> QED BY <4>1
      <3> QED BY <3>4, <3>6
    <2>3. DeviceTotal' <= DeviceTotal BY <1>1, <2>2, UsagesShrink
    <2>4. DeviceTotal \in Nat /\ DeviceTotal' \in Nat
      <3>1. Usages' \in [Procs -> Nat] /\ DeviceTotal' = SumFunction(Usages') BY <1>1, UsagesAfter
      <3> QED BY <1>1, <3>1, UsagesType, SumNat, ProcsFinite
    <2>5. WithinQuota' BY <2>3, <2>4, BytesAssumption DEF WithinQuota
    <2>6. pc'[t] = "unmap" BY <1>1, <1>3 DEF Free, Goto, TypeOK
    <2> QED BY <2>5, <2>6 DEF QuotaAt
  <1> QED BY <1>2, <1>3

(* While calm the other threads are idle: it is enough to look at t.        *)
LEMMA QuotaThread ==
  ASSUME Base, QuotaInv, NEW t \in Threads, Others(t),
         \/ Busy(t) /\ calm' = calm
         \/ calm' => calm /\ Quiet,
         calm => WithinQuota' /\ QuotaAt(t)'
  PROVE  QuotaInv'
  <1> SUFFICES ASSUME calm' PROVE WithinQuota' /\ \A u \in Threads : QuotaAt(u)' BY DEF QuotaInv
  <1>1. calm /\ \A u \in Threads \ {t} : ~Busy(u)
    BY DEF Base, CalmInv, Quiet, Busy
  <1>2. \A u \in Threads \ {t} : pc'[u] \in {"app", "gone"} BY <1>1 DEF Others, Busy
  <1>3. \A u \in Threads \ {t} : QuotaAt(u)' BY <1>2 DEF QuotaAt
  <1> QED BY <1>1, <1>3

(* While calm the manager's threads work when no operation is under way.    *)
LEMMA QuotaDaemons ==
  ASSUME Base, QuotaInv, Daemons PROVE QuotaInv'
  <1> SUFFICES ASSUME calm' PROVE WithinQuota' /\ \A u \in Threads : QuotaAt(u)' BY DEF QuotaInv
  <1>1. UNCHANGED <<device, pc>>
    BY DEF Daemons, Reap, ReapSwap, ReapSubtract, ReapSlot, DcmiQuery, DcmiLoadPid, DcmiStore, procs
  <1>2. calm
    BY DEF Daemons, Reap, ReapSwap, ReapSubtract, ReapSlot, DcmiQuery, DcmiLoadPid, DcmiStore, Begin
  <1>3. \A u \in Threads : ~Busy(u)
    <2>1. CASE Reaping \/ Refreshing BY <1>2, <2>1 DEF Base, CalmInv
    <2>2. CASE Quiet BY <2>2 DEF Quiet, Busy
    <2>3. Reaping \/ Refreshing \/ Quiet
      <3>1. CASE ReapSwap \/ ReapSubtract BY <3>1 DEF ReapSwap, ReapSubtract, Reaping
      <3>2. CASE DcmiQuery \/ \E p \in Procs : ReapSlot(p) BY <3>2 DEF DcmiQuery, ReapSlot, Begin
      <3>3. ASSUME NEW p \in Procs, DcmiLoadPid(p) PROVE Refreshing BY <3>3 DEF DcmiLoadPid, Refreshing
      <3>4. ASSUME NEW p \in Procs, DcmiStore(p) PROVE Refreshing
        <4>1. storing = p /\ p # 0 BY <3>4 DEF DcmiStore, Procs
        <4> QED BY <4>1 DEF Base, Typed, LocalInv, Refreshing
      <3> QED BY <3>1, <3>2, <3>3, <3>4 DEF Daemons, Reap
    <2> QED BY <2>1, <2>2, <2>3
  <1>4. \A u \in Threads : QuotaAt(u)' BY <1>1, <1>3 DEF QuotaAt, Busy
  <1>5. WithinQuota' BY <1>1, <1>2 DEF QuotaInv, WithinQuota, DeviceTotal, RealUsage
  <1> QED BY <1>4, <1>5

(* A crash only takes memory off the device.                                *)
LEMMA QuotaCrash == ASSUME Base, Base', QuotaInv, NEW q \in Procs, Crash(q) PROVE QuotaInv'
  <1> SUFFICES ASSUME calm' PROVE WithinQuota' /\ \A u \in Threads : QuotaAt(u)' BY DEF QuotaInv
  <1>1. TypeOK /\ TypeOK' BY DEF Base, Typed
  <1>2. calm /\ UNCHANGED <<hbm_used, memory_used>> BY DEF Crash, shared
  <1>3. \A p \in Procs : RealUsage(p) \in Nat
    <2>1. device \in [Procs -> [Ptrs -> Bytes]] BY <1>1 DEF TypeOK
    <2> QED BY <2>1, UsageType DEF RealUsage
  <1>4. \A p \in Procs : RealUsage(p)' <= RealUsage(p)
    <2>1. ASSUME NEW p \in Procs \ {q} PROVE RealUsage(p)' <= RealUsage(p)
      <3>1. device'[p] = device[p] BY <1>1 DEF Crash, TypeOK
      <3>2. RealUsage(p)' = RealUsage(p) BY <3>1 DEF RealUsage
      <3> QED BY <1>3, <3>2
    <2>2. RealUsage(q)' = 0
      <3> DEFINE f == device'[q]
      <3>1. f \in [Ptrs -> Nat] /\ \A a \in Ptrs : f[a] = 0 BY <1>1 DEF Crash, TypeOK
      <3> HIDE DEF f
      <3>2. SumFunction(f) = 0 BY <3>1, SumNat, PtrsAssumption
      <3> QED BY <3>2 DEF RealUsage, f
    <2>3. RealUsage(q)' <= RealUsage(q) BY <1>3, <2>2
    <2> QED BY <2>1, <2>3
  <1>5. /\ DeviceTotal' <= DeviceTotal
        /\ \A i \in Nat : Prefix(Usages', i) <= Prefix(Usages, i) /\ Suffix(Usages', i) <= Suffix(Usages, i)
    BY <1>1, <1>4, UsagesShrink
  <1>6. Usages' \in [Procs -> Nat] /\ DeviceTotal' \in Nat
    <2>1. Usages' \in [Procs -> Nat] /\ DeviceTotal' = SumFunction(Usages') BY <1>1, UsagesAfter
    <2> QED BY <2>1, SumNat, ProcsFinite
  <1>7. DeviceTotal \in Nat /\ Usages \in [Procs -> Nat] /\ hbm_used \in [Procs -> Nat] BY <1>1, UsagesType
  <1>8. WithinQuota /\ \A u \in Threads : QuotaAt(u) BY <1>2 DEF QuotaInv
  <1>9. WithinQuota' BY <1>5, <1>6, <1>7, <1>8, BytesAssumption DEF WithinQuota
  <1>10. \A n \in Nat : Sound(n) => Sound(n)'
    <2>1. SumFunction(hbm_used)' = SumFunction(hbm_used) BY <1>2
    <2> QED BY <1>5, <1>6, <1>7, <2>1 DEF Sound
  <1>11. ASSUME NEW u \in Threads PROVE QuotaAt(u)'
    <2>1. CASE P(u) = q
      <3>1. pc'[u] = "gone" BY <2>1 DEF Crash
      <3> QED BY <3>1 DEF QuotaAt
    <2>2. CASE P(u) # q
      <3>1. pc'[u] = pc[u] /\ local'[u] = local[u] BY <2>2 DEF Crash
      <3>2. /\ local[u].total \in Nat /\ local[u].seen \in Nat /\ memory_used \in Nat
            /\ local[u].at \in Nat /\ Limit \in Nat
        BY <1>1, LocalType, BytesAssumption DEF TypeOK
      <3>3. QuotaAt(u) BY <1>8
      <3>4. CASE pc[u] \in {"scan", "swap"}
        <4> DEFINE i == local[u].at
                   n == local[u].total
                   a == Prefix(Usages, i)
                   b == Suffix(Usages, i)
                   c == Prefix(Usages', i)
                   d == Suffix(Usages', i)
        <4>1. a <= n /\ n + b <= Limit /\ n <= Prefix(hbm_used, i) BY <3>3, <3>4 DEF QuotaAt
        <4>2. c <= a /\ d <= b BY <1>5, <3>2
        <4>3. a \in Nat /\ b \in Nat /\ c \in Nat /\ d \in Nat BY <1>6, <1>7, <3>2, PrefixTypes
        <4>4. QuotaAt(u)' <=> (c <= n /\ n + d <= Limit /\ n <= Prefix(hbm_used, i))
          BY <1>2, <3>1, <3>4 DEF QuotaAt, Prefix, Suffix
        <4> HIDE DEF n, a, b, c, d
        <4>5. n \in Nat BY <3>2 DEF n
        <4> QED BY <3>2, <4>1, <4>2, <4>3, <4>4, <4>5
      <3>5. CASE pc[u] \notin {"scan", "swap"}
        <4>1. Fits(u) => Fits(u)'
          <5>1. local[u].size \in Nat /\ local'[u].size = local[u].size BY <1>1, <3>1, LocalType
          <5> QED BY <1>5, <1>6, <1>7, <3>2, <5>1 DEF Fits
        <4>2. /\ Sound(local[u].total) => Sound(local[u].total)'
              /\ Sound(local[u].seen) => Sound(local[u].seen)'
              /\ Sound(memory_used) => Sound(memory_used)'
          <5>1. ASSUME NEW n \in Nat, Sound(n)
                PROVE  DeviceTotal' <= n /\ n <= Limit /\ n <= SumFunction(hbm_used)'
            BY <1>10, <5>1 DEF Sound
          <5> QED BY <1>2, <3>1, <3>2, <5>1 DEF Sound
        <4> QED BY <1>2, <3>1, <3>3, <3>5, <4>1, <4>2 DEF QuotaAt
      <3> QED BY <3>4, <3>5
    <2> QED BY <2>1, <2>2
  <1> QED BY <1>9, <1>11

(* At first the device is empty.                                            *)
LEMMA QuotaInit == Init => QuotaInv
  <1> SUFFICES ASSUME Init PROVE QuotaInv OBVIOUS
  <1>1. TypeOK BY TypedInit DEF Typed
  <1>2. ASSUME NEW p \in Procs PROVE RealUsage(p) = 0
    <2>1. device[p] \in [Ptrs -> Nat] /\ \A a \in Ptrs : device[p][a] = 0 BY DEF Init, NoBytes
    <2> QED BY <2>1, SumNat, PtrsAssumption DEF RealUsage
  <1>3. DeviceTotal = 0
    <2>1. Usages \in [Procs -> Nat] /\ DeviceTotal = SumFunction(Usages) BY <1>1, UsagesType
    <2>2. \A p \in Procs : Usages[p] = 0 BY <1>2 DEF Usages
    <2> QED BY <2>1, <2>2, SumNat, ProcsFinite
  <1>4. WithinQuota BY <1>3, BytesAssumption DEF WithinQuota
  <1>5. \A t \in Threads : QuotaAt(t) BY DEF Init, QuotaAt
  <1> QED BY <1>4, <1>5 DEF QuotaInv

(* With one device every step keeps the quota.                              *)
LEMMA QuotaNext ==
  ASSUME SingleDevice, Base, Base', ExactInv, QuotaInv, [Next]_vars PROVE QuotaInv'
  <1>1. ASSUME NEW t \in Threads, Operate(t) PROVE QuotaInv'
    <2>1. Others(t) /\ Busy(t) /\ calm' = calm BY <1>1, OperateFrame DEF Base
    <2>2. calm => WithinQuota' /\ QuotaAt(t)' BY <1>1, QuotaOperate DEF QuotaInv
    <2> QED BY <2>1, <2>2, QuotaThread
  <1>2. ASSUME NEW t \in Threads, Malloc(t) \/ Free(t) \/ GetHbmInfo(t) PROVE QuotaInv'
    <2>1. Others(t) /\ (calm' => calm /\ Quiet) BY <1>2, CallFrame DEF Base
    <2>2. calm => WithinQuota' /\ QuotaAt(t)' BY <1>2, QuotaCalls DEF QuotaInv
    <2> QED BY <2>1, <2>2, QuotaThread
  <1>3. CASE UNCHANGED vars
    <2>1. UNCHANGED <<device, hbm_used, memory_used, pc, local, calm>>
      BY <1>3 DEF vars, shared, procs
    <2> QED BY <2>1 DEF QuotaInv, WithinQuota, QuotaAt, DeviceTotal, Usages, RealUsage, Sound, Fits,
                        Prefix, Suffix
  <1> QED BY <1>1, <1>2, <1>3, QuotaDaemons, QuotaCrash DEF Next, Daemons

(* The inductive invariant of the quota: to trust the sum of the slots one  *)
(* has to know that the slots are exact.                                    *)
Inv == Base /\ ExactInv /\ QuotaInv

(* With one device every step keeps it.                                     *)
LEMMA InvNext == ASSUME SingleDevice PROVE Inv /\ [Next]_vars => Inv'
  BY BaseNext, ExactNext, QuotaNext DEF Inv

(* Where the pod has one device, its processes stay within its memory limit *)
(* as long as no two operations have overlapped: for any number of          *)
(* processes and threads, any sizes and any crashes, although the sum that  *)
(* check_memory_quota decides on may wrap.                                  *)
THEOREM QuotaHolds == ASSUME SingleDevice PROVE Spec => []QuotaEnforced
  <1>1. Init => Inv BY BaseInit, ExactInit, QuotaInit DEF Inv
  <1>2. Inv /\ [Next]_vars => Inv' BY InvNext
  <1>3. Inv => QuotaEnforced BY DEF Inv, QuotaInv, QuotaEnforced
  <1> QED BY <1>1, <1>2, <1>3, PTL DEF Spec

(* And until then an allocation is turned away only when it does not fit    *)
(* next to what the slots account for.                                      *)
THEOREM RejectionsAreJust == ASSUME SingleDevice PROVE Spec => RejectedOnlyWhenFull
  <1>1. Init => Inv BY BaseInit, ExactInit, QuotaInit DEF Inv
  <1>2. Inv /\ [Next]_vars => Inv' BY InvNext
  <1>3. ASSUME Inv, NEW t \in Threads, calm, QuotaExceeded(t)
        PROVE  SumFunction(hbm_used) + local[t].size > Limit
    <2>1. TypeOK BY <1>3 DEF Inv, Base, Typed
    <2>2. local[t].seen \in Nat /\ local[t].size \in Nat BY <2>1, LocalType
    <2>3. SumFunction(hbm_used) \in Nat BY <2>1, UsagesType
    <2>4. pc[t] = "reserve" /\ ~WithinLimit(t) BY <1>3 DEF QuotaExceeded, Return, Goto
    <2>5. local[t].seen <= SumFunction(hbm_used) BY <1>3, <2>4 DEF Inv, QuotaInv, QuotaAt, Sound
    <2>6. local[t].seen + local[t].size > Limit
      <3> DEFINE s == local[t].seen + local[t].size
      <3>1. s \in Nat BY <2>2
      <3>2. ~(s % U64 <= Limit) BY <2>4 DEF WithinLimit, NewUsed
      <3> HIDE DEF s
      <3>3. ASSUME s <= Limit PROVE FALSE
        <4>1. s < U64 /\ U64 \in Nat BY <3>1, <3>3, BytesAssumption
        <4>2. s % U64 = s BY <3>1, <4>1
        <4> QED BY <3>2, <3>3, <4>2
      <3>4. s > Limit BY <3>1, <3>3, BytesAssumption
      <3> QED BY <3>4 DEF s
    <2> QED BY <2>2, <2>3, <2>5, <2>6, BytesAssumption
  <1>4. Inv => [\A t \in Threads :
                  calm /\ QuotaExceeded(t) => SumFunction(hbm_used) + local[t].size > Limit]_vars
    BY <1>3
  <1> QED BY <1>1, <1>2, <1>4, PTL DEF Spec, RejectedOnlyWhenFull
=============================================================================
