----------------------------- MODULE Inductions -----------------------------
(***************************************************************************)
(* Induction and recursion over the natural numbers.                       *)
(***************************************************************************)
EXTENDS Integers, WellFoundedInduction, TLAPS

Below == {q \in Nat \X Nat : q[1] < q[2]}

LEMMA LeastElement ==
  ASSUME NEW S \in SUBSET Nat, S # {}
  PROVE  \E n \in S : \A m \in S : n <= m
<1>1. IsWellFoundedOn(Below, Nat)
  BY NatLessThanWellFounded DEF OpToRel, Below
<1>2. PICK n \in S : \A m \in S : <<m, n>> \notin Below
  BY <1>1, WFMin
<1>3. ASSUME NEW m \in S PROVE n <= m
  <2>1. m \in Nat /\ n \in Nat
    OBVIOUS
  <2>2. ~ m < n
    BY <1>2, <2>1 DEF Below
  <2> QED BY <2>1, <2>2
<1> QED BY <1>3

LEMMA GreatestElement ==
  ASSUME NEW n \in Nat, NEW S \in SUBSET (0..n), S # {}
  PROVE  \E k \in S : \A m \in S : m <= k
<1> DEFINE gaps == {g \in 0..n : n - g \in S}
<1>1. \A k \in S : n - k \in gaps /\ k \in 0..n
  <2> TAKE k \in S
  <2>1. k \in 0..n
    OBVIOUS
  <2>2. n - k \in 0..n /\ n - (n - k) = k
    BY <2>1
  <2> QED BY <2>1, <2>2
<1>2. gaps \subseteq Nat
  OBVIOUS
<1>3. \A g \in gaps : g \in 0..n /\ n - g \in S
  OBVIOUS
<1> HIDE DEF gaps
<1>4. PICK g \in gaps : \A h \in gaps : g <= h
  <2>1. PICK k \in S : TRUE
    OBVIOUS
  <2>2. gaps # {}
    BY <1>1, <2>1
  <2> QED BY <1>2, <2>2, LeastElement
<1>5. ASSUME NEW m \in S PROVE m <= n - g
  <2>1. g <= n - m /\ m \in 0..n
    BY <1>1, <1>4
  <2> QED BY <1>3, <2>1
<1> QED BY <1>3, <1>5

LEMMA Induction ==
  ASSUME NEW S, 0 \in S, \A n \in Nat : n \in S => n + 1 \in S
  PROVE  Nat \subseteq S
<1> SUFFICES ASSUME Nat \ S # {} PROVE FALSE
  OBVIOUS
<1>1. PICK n \in Nat \ S : \A m \in Nat \ S : n <= m
  BY LeastElement
<1>2. n - 1 \in Nat /\ n - 1 \in S
  BY <1>1
<1> QED BY <1>1, <1>2
-----------------------------------------------------------------------------
(* Recursion. A recursive function in a LET is a CHOOSE of a function: these say
   that there is one to choose. What is called next in a computation is here a
   function, and not an operator, so that the provers can instantiate it. *)

Runs(V, a, g, n) ==
  {h \in [0..n -> V] : h[0] = a /\ \A k \in 0..(n - 1) : h[k + 1] = g[h[k]]}

LEMMA RunsExist ==
  ASSUME NEW V, NEW a \in V, NEW g \in [V -> V]
  PROVE  \A n \in Nat : Runs(V, a, g, n) # {}
<1> DEFINE S == {n \in Nat : Runs(V, a, g, n) # {}}
<1>1. 0 \in S
  <2>1. [k \in 0..0 |-> a] \in Runs(V, a, g, 0)
    BY DEF Runs
  <2> QED BY <2>1
<1>2. ASSUME NEW n \in Nat, n \in S PROVE n + 1 \in S
  <2>1. PICK h \in Runs(V, a, g, n) : TRUE
    BY <1>2
  <2>2. /\ h \in [0..n -> V] /\ h[0] = a
        /\ \A k \in 0..(n - 1) : h[k + 1] = g[h[k]]
    BY <2>1 DEF Runs
  <2> DEFINE i == [k \in 0..(n + 1) |-> IF k <= n THEN h[k] ELSE g[h[n]]]
  <2>3. i \in [0..(n + 1) -> V] /\ i[0] = a
    BY <2>2
  <2>4. ASSUME NEW k \in 0..((n + 1) - 1) PROVE i[k + 1] = g[i[k]]
    <3>1. CASE k = n
      BY <2>2, <3>1
    <3>2. CASE k \in 0..(n - 1)
      BY <2>2, <3>2
    <3> QED BY <3>1, <3>2
  <2> HIDE DEF i
  <2>5. i \in Runs(V, a, g, n + 1)
    BY <2>3, <2>4 DEF Runs
  <2> QED BY <2>5
<1> HIDE DEF S
<1>3. Nat \subseteq S
  BY <1>1, <1>2, Induction
<1> QED BY <1>3 DEF S

LEMMA RunsAgree ==
  ASSUME NEW V, NEW a \in V, NEW g \in [V -> V]
  PROVE  \A k \in Nat : \A m, n \in Nat : \A h \in Runs(V, a, g, m), i \in Runs(V, a, g, n) :
           k <= m /\ k <= n => h[k] = i[k]
<1> DEFINE P(k) == \A m, n \in Nat : \A h \in Runs(V, a, g, m), i \in Runs(V, a, g, n) :
                     k <= m /\ k <= n => h[k] = i[k]
           S == {k \in Nat : P(k)}
<1>1. 0 \in S
  BY DEF Runs
<1>2. ASSUME NEW k \in Nat, k \in S PROVE k + 1 \in S
  <2>1. ASSUME NEW m \in Nat, NEW n \in Nat, NEW h \in Runs(V, a, g, m), NEW i \in Runs(V, a, g, n),
               k + 1 <= m, k + 1 <= n
        PROVE  h[k + 1] = i[k + 1]
    <3>1. k <= m /\ k <= n /\ k \in 0..(m - 1) /\ k \in 0..(n - 1)
      BY <2>1
    <3>2. h[k] = i[k]
      BY <1>2, <3>1
    <3>3. h[k + 1] = g[h[k]] /\ i[k + 1] = g[i[k]]
      BY <3>1 DEF Runs
    <3> QED BY <3>2, <3>3
  <2> QED BY <2>1
<1> HIDE DEF S
<1>3. Nat \subseteq S
  BY <1>1, <1>2, Induction
<1> QED BY <1>3 DEF S

\* What is computed by doing the same again and again.
LEMMA Iteration ==
  ASSUME NEW V, NEW a \in V, NEW g \in [V -> V]
  PROVE  \E f \in [Nat -> V] : f[0] = a /\ \A k \in Nat : f[k + 1] = g[f[k]]
<1> DEFINE R(n) == CHOOSE h \in Runs(V, a, g, n) : TRUE
           f == [n \in Nat |-> R(n)[n]]
<1>1. ASSUME NEW n \in Nat PROVE R(n) \in Runs(V, a, g, n)
  BY RunsExist
<1> HIDE DEF R
<1>2. f \in [Nat -> V]
  BY <1>1 DEF Runs
<1>3. f[0] = a
  BY <1>1 DEF Runs
<1>4. ASSUME NEW k \in Nat PROVE f[k + 1] = g[f[k]]
  <2>1. k + 1 \in Nat /\ k \in 0..((k + 1) - 1) /\ k <= k + 1 /\ k <= k
    OBVIOUS
  <2>2. R(k + 1)[k + 1] = g[R(k + 1)[k]]
    BY <1>1, <2>1 DEF Runs
  <2>3. R(k + 1)[k] = R(k)[k]
    BY <1>1, <2>1, RunsAgree
  <2> QED BY <2>1, <2>2, <2>3
<1> QED BY <1>2, <1>3, <1>4

\* A function on D that is called once by itself, each time for an argument of a
\* lower rank: g of x and of what next[x] gives, until x is among stops.
Descends(D, V, final, stops, next, g, rank) ==
  /\ final \in [D -> V] /\ next \in [D -> D] /\ g \in [D \X V -> V]
  /\ rank \in [D -> Nat]
  /\ \A x \in D \ stops : rank[next[x]] < rank[x]

LEMMA Recursion ==
  ASSUME NEW D, NEW V, NEW final, NEW stops, NEW next, NEW g, NEW rank,
         Descends(D, V, final, stops, next, g, rank)
  PROVE  \E f \in [D -> V] :
           \A x \in D : f[x] = IF x \in stops THEN final[x] ELSE g[<<x, f[next[x]]>>]
<1> DEFINE Again(h) == [x \in D |-> IF x \in stops THEN final[x] ELSE g[<<x, h[next[x]]>>]]
           again == [h \in [D -> V] |-> Again(h)]
<1>1. \A h \in [D -> V] : Again(h) \in [D -> V]
  BY DEF Descends
<1> DEFINE W == [D -> V]
<1>2. final \in W /\ again \in [W -> W] /\ \A h \in W : again[h] = Again(h)
  BY <1>1 DEF Descends
<1> HIDE DEF W, again, Again
<1>3. PICK h \in [Nat -> W] : h[0] = final /\ \A k \in Nat : h[k + 1] = again[h[k]]
  <2>1. final \in W
    BY <1>2
  <2>2. again \in [W -> W]
    BY <1>2
  <2> QED BY <2>1, <2>2, Iteration
<1>4. \A k \in Nat : \A x \in D :
        h[k + 1][x] = IF x \in stops THEN final[x] ELSE g[<<x, h[k][next[x]]>>]
  <2> TAKE k \in Nat
  <2>1. h[k] \in W /\ h[k + 1] = Again(h[k])
    BY <1>2, <1>3
  <2> QED BY <2>1 DEF Again
<1> DEFINE f == [x \in D |-> h[rank[x] + 1][x]]
           P(k) == \A j \in 0..k : \A x \in D : rank[x] < j => h[j][x] = f[x]
           S == {k \in Nat : P(k)}
<1>5. \A x \in D : f[x] = h[rank[x] + 1][x] /\ f[x] \in V
  <2> TAKE x \in D
  <2>1. h[rank[x] + 1] \in [D -> V]
    BY <1>3 DEF W, Descends
  <2> QED BY <2>1
<1> HIDE DEF f
<1>6. 0 \in S
  BY DEF Descends
<1>7. ASSUME NEW k \in Nat, k \in S PROVE k + 1 \in S
  <2>1. ASSUME NEW x \in D, rank[x] < k + 1 PROVE h[k + 1][x] = f[x]
    <3>1. rank[x] \in Nat /\ rank[x] \in 0..k
      BY <2>1 DEF Descends
    <3>2. /\ h[k + 1][x] = IF x \in stops THEN final[x] ELSE g[<<x, h[k][next[x]]>>]
          /\ f[x] = IF x \in stops THEN final[x] ELSE g[<<x, h[rank[x]][next[x]]>>]
      BY <1>4, <1>5, <3>1
    <3>3. CASE x \in stops
      BY <3>2, <3>3
    <3>4. CASE x \notin stops
      <4>1. next[x] \in D /\ rank[next[x]] \in Nat /\ rank[next[x]] < rank[x] /\ rank[next[x]] < k
        BY <3>1, <3>4 DEF Descends
      <4>2. h[k][next[x]] = f[next[x]] /\ h[rank[x]][next[x]] = f[next[x]]
        BY <1>7, <3>1, <4>1
      <4> QED BY <3>2, <3>4, <4>2
    <3> QED BY <3>3, <3>4
  <2>2. \A j \in 0..(k + 1) : j \in 0..k \/ j = k + 1
    OBVIOUS
  <2>3. P(k + 1)
    BY <1>7, <2>1, <2>2
  <2> QED BY <2>3
<1> HIDE DEF S
<1>8. Nat \subseteq S
  BY <1>6, <1>7, Induction
<1>9. ASSUME NEW x \in D PROVE f[x] = IF x \in stops THEN final[x] ELSE g[<<x, f[next[x]]>>]
  <2>1. rank[x] \in Nat /\ rank[x] \in 0..rank[x]
    BY DEF Descends
  <2>2. f[x] = IF x \in stops THEN final[x] ELSE g[<<x, h[rank[x]][next[x]]>>]
    BY <1>4, <1>5, <2>1
  <2>3. x \notin stops => h[rank[x]][next[x]] = f[next[x]]
    <3>1. x \notin stops => rank[next[x]] < rank[x] /\ next[x] \in D
      BY DEF Descends
    <3> QED BY <1>8, <2>1, <3>1 DEF S
  <2> QED BY <2>2, <2>3
<1>10. f \in [D -> V]
  BY <1>5 DEF f
<1> QED BY <1>9, <1>10
=============================================================================
