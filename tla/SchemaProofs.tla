---------------------------- MODULE SchemaProofs ----------------------------
(***************************************************************************)
(* What the types of a schema inherit, for any number of types that extend *)
(* each other in any way.                                                  *)
(***************************************************************************)
EXTENDS LoadedSchema, Inductions, FiniteSetTheorems, SequenceTheorems

\* The SMT backend knows neither STRING nor the empty string.
Names == STRING
NoName == ""

(* Types and their bases. *)

Bases == {sch.types[n].base : n \in DOMAIN sch.types} \ {NoName}

\* The provers are told a sequence of fields by its elements.
FieldSeqs == Seq(Declared)

LEMMA LookupOK ==
  ASSUME SchemaTypeOK, NEW name
  PROVE  /\ Lookup(sch, name).base \in Bases \cup {NoName}
         /\ Lookup(sch, name).attrs \in FieldSeqs
         /\ Lookup(sch, name).elems \in FieldSeqs
<1> DEFINE local == LocalName(name)
<1>1. <<>> \in FieldSeqs
  BY EmptySeq DEF FieldSeqs
<1>2. CASE local \in DOMAIN sch.types \ {NoName}
  <2>1. sch.types[local] \in TypeSet
    BY <1>2 DEF SchemaTypeOK
  <2>2. /\ sch.types[local].attrs \in FieldSeqs /\ sch.types[local].elems \in FieldSeqs
        /\ sch.types[local].base \in Bases \cup {NoName}
    BY <1>2, <2>1 DEF TypeSet, FieldSeqs, Bases
  <2> QED BY <1>2, <2>2 DEF Lookup, NoName
<1>3. CASE local \notin DOMAIN sch.types \ {NoName}
  BY <1>1, <1>3 DEF Lookup, NoType, Type, NoName
<1> QED BY <1>2, <1>3

LEMMA BasesOK ==
  ASSUME SchemaTypeOK
  PROVE  /\ IsFiniteSet(Bases) /\ Bases \subseteq Names
         /\ Cardinality(Bases) \in Nat /\ Cardinality(DOMAIN sch.types) \in Nat
         /\ Cardinality(Bases) <= Cardinality(DOMAIN sch.types)
<1> DEFINE D == DOMAIN sch.types
           T == {sch.types[n].base : n \in D}
           f == [n \in D |-> sch.types[n].base]
<1>1. IsFiniteSet(D) /\ T \subseteq Names
  BY DEF SchemaTypeOK, TypeSet, Names
<1>2. f \in Surjection(D, T)
  BY DEF Surjection
<1> HIDE DEF f
<1>3. IsFiniteSet(T) /\ Cardinality(T) <= Cardinality(D)
  BY <1>1, <1>2, FS_Surjection
<1>4. IsFiniteSet(T \ {NoName}) /\ Cardinality(T \ {NoName}) <= Cardinality(T)
  BY <1>3, FS_Subset
<1>5. Bases = T \ {NoName} /\ Bases \subseteq Names
  BY <1>1 DEF Bases
<1> HIDE DEF T, D
<1>6. Cardinality(T) \in Nat /\ Cardinality(D) \in Nat /\ Cardinality(T \ {NoName}) \in Nat
  BY <1>1, <1>3, <1>4, FS_CardinalityType
<1>7. Cardinality(Bases) <= Cardinality(D)
  <2>1. \A a, b, c \in Nat : a <= b /\ b <= c => a <= c
    OBVIOUS
  <2>2. Cardinality(T \ {NoName}) <= Cardinality(D)
    BY <1>3, <1>4, <1>6, <2>1, Zenon
  <2> QED BY <1>5, <2>2
<1> QED BY <1>4, <1>5, <1>6, <1>7 DEF D

\* The empty name finds nothing.
LEMMA NoNameNoType == Lookup(sch, NoName) = NoType /\ NoType.base = NoName
<1>1. LocalName(NoName) = NoName
  BY NamesAssumption DEF NamesAssumption, LocalName, NoName
<1>2. NoName \notin Builtins
  BY DEF Builtins, NoName
<1> QED BY <1>1, <1>2 DEF Lookup, NoType, Type, NoName
-----------------------------------------------------------------------------
(* Chains of bases, and what is along them. *)

IsChain(up, name) ==
  /\ up \in [Nat -> Names \cup {NoName}] /\ up[0] = name
  /\ \A k \in Nat : up[k + 1] = Lookup(sch, up[k]).base

LEMMA ChainDef ==
  ASSUME SchemaTypeOK, NEW name \in Names
  PROVE  IsChain(Chain(name), name)
<1> DEFINE V == Names \cup {NoName}
           next == [x \in V |-> Lookup(sch, x).base]
           Is(f) == f = [k \in Nat |-> IF k = 0 THEN name ELSE Lookup(sch, f[k - 1]).base]
<1>1. Bases \cup {NoName} \subseteq V
  BY BasesOK
<1>2. \A x \in V : Lookup(sch, x).base \in V
  BY <1>1, LookupOK
<1>3. next \in [V -> V] /\ name \in V /\ \A x \in V : next[x] = Lookup(sch, x).base
  BY <1>2
<1> HIDE DEF V, next, Is
<1>4. PICK f \in [Nat -> V] : f[0] = name /\ \A k \in Nat : f[k + 1] = next[f[k]]
  <2>1. name \in V
    BY <1>3
  <2>2. next \in [V -> V]
    BY <1>3
  <2> QED BY <2>1, <2>2, Iteration
<1>5. \A k \in Nat : f[k + 1] = Lookup(sch, f[k]).base
  BY <1>3, <1>4
<1> USE DEF Is
<1>6. Is(f)
  <2>1. ASSUME NEW k \in Nat, k # 0 PROVE f[k] = Lookup(sch, f[k - 1]).base
    <3>1. k - 1 \in Nat /\ (k - 1) + 1 = k
      BY <2>1
    <3> QED BY <1>5, <3>1
  <2> QED BY <1>4, <2>1
<1>7. Chain(name) = CHOOSE g : Is(g)
  BY DEF Chain
<1> DEFINE up == Chain(name)
<1>8. Is(up)
  BY <1>6, <1>7
<1> HIDE DEF up
<1>9. up[0] = name
  BY <1>8
<1>10. ASSUME NEW k \in Nat PROVE up[k + 1] = Lookup(sch, up[k]).base
  <2>1. k + 1 \in Nat /\ k + 1 # 0 /\ (k + 1) - 1 = k
    OBVIOUS
  <2> QED BY <1>8, <2>1
<1>11. ASSUME NEW k \in Nat PROVE up[k] \in V
  <2>1. CASE k = 0
    BY <1>3, <1>9, <2>1
  <2>2. CASE k # 0
    <3>1. k - 1 \in Nat /\ (k - 1) + 1 = k
      BY <2>2
    <3> QED BY <1>1, <1>10, <3>1, LookupOK DEF V
  <2> QED BY <2>1, <2>2
<1>12. up \in [Nat -> V]
  BY <1>8, <1>11
<1> QED BY <1>9, <1>10, <1>12 DEF IsChain, V, up

(* Sequences of fields, put one before the other. *)

LEMMA FieldSeqsOK ==
  /\ <<>> \in FieldSeqs
  /\ \A s, t \in FieldSeqs : s \o t \in FieldSeqs
  /\ \A s \in FieldSeqs : s \o <<>> = s
  /\ \A r, s, t \in FieldSeqs : (r \o s) \o t = r \o (s \o t)
<1>1. \A s, t \in FieldSeqs : s \o t \in FieldSeqs
  BY ConcatProperties DEF FieldSeqs
<1>2. \A s \in FieldSeqs : s \o <<>> = s
  BY ConcatEmptySeq DEF FieldSeqs
<1>3. \A r, s, t \in FieldSeqs : (r \o s) \o t = r \o (s \o t)
  BY ConcatAssociative DEF FieldSeqs
<1> QED BY <1>1, <1>2, <1>3, EmptySeq DEF FieldSeqs

LEMMA PilesExist ==
  ASSUME NEW h \in [Nat -> FieldSeqs]
  PROVE  \E f \in [Nat -> FieldSeqs] :
           f = [k \in Nat |-> IF k = 0 THEN <<>> ELSE h[k - 1] \o f[k - 1]]
<1> DEFINE V == FieldSeqs
           final == [k \in Nat |-> <<>>]
           next == [k \in Nat |-> IF k = 0 THEN 0 ELSE k - 1]
           g == [q \in Nat \X V |-> h[next[q[1]]] \o q[2]]
           rank == [k \in Nat |-> k]
<1>1. next \in [Nat -> Nat]
  OBVIOUS
<1>2. final \in [Nat -> V]
  BY FieldSeqsOK
<1>3. \A q \in Nat \X V : h[next[q[1]]] \in V /\ q[2] \in V
  BY <1>1
<1>4. g \in [Nat \X V -> V]
  BY <1>3, FieldSeqsOK
<1>5. rank \in [Nat -> Nat] /\ \A k \in Nat \ {0} : rank[next[k]] < rank[k]
  OBVIOUS
<1>6. /\ \A k \in Nat : final[k] = <<>> /\ (k # 0 => next[k] = k - 1)
      /\ \A k \in Nat, s \in V : g[<<k, s>>] = h[next[k]] \o s
  OBVIOUS
<1> HIDE DEF V, final, next, g, rank
<1>7. Descends(Nat, V, final, {0}, next, g, rank)
  BY <1>1, <1>2, <1>4, <1>5 DEF Descends
<1>8. PICK f \in [Nat -> V] :
        \A k \in Nat : f[k] = IF k \in {0} THEN final[k] ELSE g[<<k, f[next[k]]>>]
  BY <1>7, Recursion
<1>9. \A k \in Nat : f[k] = IF k = 0 THEN <<>> ELSE h[k - 1] \o f[k - 1]
  <2> TAKE k \in Nat
  <2>1. k = 0 => f[k] = <<>>
    BY <1>6, <1>8
  <2>2. ASSUME k # 0 PROVE f[k] = h[k - 1] \o f[k - 1]
    <3>1. f[k] = g[<<k, f[next[k]]>>] /\ next[k] = k - 1 /\ f[k - 1] \in V
      BY <1>6, <1>8, <2>2
    <3> QED BY <1>6, <3>1
  <2> QED BY <2>1, <2>2
<1> QED BY <1>8, <1>9 DEF V

LEMMA DownDef ==
  ASSUME SchemaTypeOK, NEW up
  PROVE  /\ AttrsDown(up) \in [Nat -> FieldSeqs] /\ AttrsDown(up)[0] = <<>>
         /\ ElemsDown(up) \in [Nat -> FieldSeqs] /\ ElemsDown(up)[0] = <<>>
         /\ \A k \in Nat :
              /\ AttrsDown(up)[k + 1] = Lookup(sch, up[k]).attrs \o AttrsDown(up)[k]
              /\ ElemsDown(up)[k + 1] = Lookup(sch, up[k]).elems \o ElemsDown(up)[k]
<1> DEFINE Attrs(k) == Lookup(sch, up[k]).attrs
           Elems(k) == Lookup(sch, up[k]).elems
           PilesAttrs(f) == f = [k \in Nat |-> IF k = 0 THEN <<>> ELSE Attrs(k - 1) \o f[k - 1]]
           PilesElems(f) == f = [k \in Nat |-> IF k = 0 THEN <<>> ELSE Elems(k - 1) \o f[k - 1]]
           attrs == [k \in Nat |-> Attrs(k)]
           elems == [k \in Nat |-> Elems(k)]
<1>1. AttrsDown(up) = (CHOOSE f : PilesAttrs(f)) /\ ElemsDown(up) = (CHOOSE f : PilesElems(f))
  BY DEF AttrsDown, ElemsDown
<1> DEFINE a == AttrsDown(up)
           e == ElemsDown(up)
<1>2. \A k \in Nat : Attrs(k) \in FieldSeqs /\ Elems(k) \in FieldSeqs
  BY LookupOK
<1> HIDE DEF Attrs, Elems
<1>3. attrs \in [Nat -> FieldSeqs] /\ elems \in [Nat -> FieldSeqs]
  BY <1>2
<1>4. PICK f \in [Nat -> FieldSeqs] :
        f = [k \in Nat |-> IF k = 0 THEN <<>> ELSE attrs[k - 1] \o f[k - 1]]
  BY <1>3, PilesExist
<1>5. PICK h \in [Nat -> FieldSeqs] :
        h = [k \in Nat |-> IF k = 0 THEN <<>> ELSE elems[k - 1] \o h[k - 1]]
  BY <1>3, PilesExist
<1>6. \A k \in Nat : k # 0 => k - 1 \in Nat /\ attrs[k - 1] = Attrs(k - 1) /\ elems[k - 1] = Elems(k - 1)
  OBVIOUS
<1> HIDE DEF attrs, elems
<1>7. PilesAttrs(f) /\ PilesElems(h)
  BY <1>4, <1>5, <1>6
<1>8. PilesAttrs(a) /\ PilesElems(e)
  BY <1>1, <1>7
<1> HIDE DEF a, e
<1>9. a[0] = <<>> /\ e[0] = <<>>
  BY <1>8
<1>10. \A k \in Nat : a[k + 1] = Attrs(k) \o a[k] /\ e[k + 1] = Elems(k) \o e[k]
  <2> TAKE k \in Nat
  <2>1. k + 1 \in Nat /\ k + 1 # 0 /\ (k + 1) - 1 = k
    OBVIOUS
  <2> QED BY <1>8, <2>1
<1> DEFINE S == {k \in Nat : a[k] \in FieldSeqs /\ e[k] \in FieldSeqs}
<1>11. 0 \in S
  BY <1>9, FieldSeqsOK
<1>12. ASSUME NEW k \in Nat, k \in S PROVE k + 1 \in S
  <2>1. a[k] \in FieldSeqs /\ e[k] \in FieldSeqs
    BY <1>12
  <2>2. Attrs(k) \o a[k] \in FieldSeqs /\ Elems(k) \o e[k] \in FieldSeqs
    BY <1>2, <2>1, FieldSeqsOK
  <2>3. a[k + 1] \in FieldSeqs /\ e[k + 1] \in FieldSeqs
    BY <1>10, <2>2, Zenon
  <2>4. k + 1 \in Nat
    OBVIOUS
  <2> QED BY <2>3, <2>4
<1> HIDE DEF S
<1>13. Nat \subseteq S
  BY <1>11, <1>12, Induction
<1>14. a \in [Nat -> FieldSeqs] /\ e \in [Nat -> FieldSeqs]
  BY <1>8, <1>13 DEF S
<1> QED BY <1>9, <1>10, <1>14 DEF Attrs, Elems, a, e
-----------------------------------------------------------------------------
(* The two walks stop: with each base that they come to, fewer are left. *)

Rank(q) == Cardinality(Bases \ q[2]) + (IF q[1] \in Bases THEN 0 ELSE 1)
Above(q) == <<Lookup(sch, q[1]).base, q[2] \cup {q[1]}>>

LEMMA WalksDescend ==
  ASSUME SchemaTypeOK, NEW q \in Walks
  PROVE  /\ Rank(q) \in Nat
         /\ q[1] \notin q[2] /\ Lookup(sch, q[1]).base # NoName =>
              Above(q) \in Walks /\ Rank(Above(q)) < Rank(q)
<1> DEFINE left == Bases \ q[2]
           then == Bases \ (q[2] \cup {q[1]})
<1>1. IsFiniteSet(left) /\ IsFiniteSet(then)
  BY BasesOK, FS_Subset
<1>2. Cardinality(left) \in Nat /\ Cardinality(then) \in Nat
  BY <1>1, FS_CardinalityType
<1>3. Rank(q) \in Nat
  BY <1>2 DEF Rank
<1>4. ASSUME q[1] \notin q[2], Lookup(sch, q[1]).base # NoName
      PROVE  Above(q) \in Walks /\ Rank(Above(q)) < Rank(q)
  <2>1. Lookup(sch, q[1]).base \in Bases
    BY <1>4, LookupOK
  <2>2. q[1] \in Names /\ q[2] \subseteq Names
    BY DEF Walks, Names
  <2>3. Above(q) \in Walks
    <3>1. Above(q) \in Names \X SUBSET Names
      BY <2>1, <2>2, BasesOK DEF Above
    <3> QED BY <3>1 DEF Walks, Names
  <2>4. Rank(Above(q)) = Cardinality(then)
    BY <2>1, <1>2 DEF Rank, Above
  <2>5. CASE q[1] \in Bases
    <3>1. q[1] \in left /\ then = left \ {q[1]}
      BY <1>4, <2>5
    <3> HIDE DEF left, then
    <3>2. Cardinality(then) = Cardinality(left) - 1
      BY <1>1, <3>1, FS_RemoveElement
    <3>3. Rank(q) = Cardinality(left)
      BY <1>2, <2>5 DEF Rank, left
    <3> QED BY <1>2, <2>3, <2>4, <3>2, <3>3
  <2>6. CASE q[1] \notin Bases
    <3>1. then = left
      BY <2>6
    <3>2. Rank(q) = Cardinality(left) + 1
      BY <1>2, <2>6 DEF Rank
    <3> HIDE DEF left, then
    <3> QED BY <1>2, <2>3, <2>4, <3>1, <3>2
  <2> QED BY <2>5, <2>6
<1> QED BY <1>3, <1>4

\* What is Climbs and Inherit at a step of the walk, and at where they stop.
LEMMA ClimbStep ==
  ASSUME SchemaTypeOK, NEW base
  PROVE  \A q \in Walks :
           Climbs(sch, base)[q] <=>
             \/ q[1] = base
             \/ /\ q[1] \notin q[2] /\ Lookup(sch, q[1]).base # NoName
                /\ Climbs(sch, base)[Above(q)]
<1> DEFINE Is(f) ==
             f = [q \in Walks |->
                    LET above == Lookup(sch, q[1]).base IN
                    \/ q[1] = base
                    \/ q[1] \notin q[2] /\ above # NoName /\ f[<<above, q[2] \cup {q[1]}>>]]
           Goes(q) == q[1] # base /\ q[1] \notin q[2] /\ Lookup(sch, q[1]).base # NoName
           D == Walks
           stops == {q \in D : ~Goes(q)}
           final == [q \in D |-> q[1] = base]
           next == [q \in D |-> IF Goes(q) THEN Above(q) ELSE q]
           g == [p \in D \X BOOLEAN |-> p[2]]
           rank == [q \in D |-> Rank(q)]
<1>1. /\ final \in [D -> BOOLEAN] /\ g \in [D \X BOOLEAN -> BOOLEAN]
      /\ \A q \in D : final[q] = (q[1] = base)
      /\ \A q \in D, b \in BOOLEAN : g[<<q, b>>] = b
  OBVIOUS
<1>2. \A q \in D : Rank(q) \in Nat /\ (Goes(q) => Above(q) \in D /\ Rank(Above(q)) < Rank(q))
  BY WalksDescend
<1> HIDE DEF Goes, D, final, g
<1>3. /\ next \in [D -> D] /\ rank \in [D -> Nat]
      /\ \A q \in D \ stops : next[q] = Above(q) /\ rank[next[q]] < rank[q]
      /\ \A q \in D : q \in stops <=> ~Goes(q)
  BY <1>2
<1> HIDE DEF stops, next, rank
<1>4. Descends(D, BOOLEAN, final, stops, next, g, rank)
  BY <1>1, <1>3 DEF Descends
<1>5. PICK f \in [D -> BOOLEAN] :
        \A q \in D : f[q] = IF q \in stops THEN final[q] ELSE g[<<q, f[next[q]]>>]
  BY <1>4, Recursion
<1>6. \A q \in D : f[q] <=> IF Goes(q) THEN f[Above(q)] ELSE q[1] = base
  <2> TAKE q \in D
  <2>1. CASE ~Goes(q)
    BY <1>1, <1>3, <1>5, <2>1
  <2>2. CASE Goes(q)
    <3>1. q \in D \ stops
      BY <1>3, <2>2
    <3>2. f[q] = g[<<q, f[Above(q)]>>]
      BY <1>3, <1>5, <3>1
    <3>3. f[Above(q)] \in BOOLEAN
      BY <1>2, <1>5, <2>2
    <3> QED BY <1>1, <2>2, <3>2, <3>3
  <2> QED BY <2>1, <2>2
<1>7. Is(f)
  <2>1. f = [q \in D |-> \/ q[1] = base
                         \/ /\ q[1] \notin q[2] /\ Lookup(sch, q[1]).base # NoName
                            /\ f[Above(q)]]
    <3>1. ASSUME NEW q \in D
          PROVE  f[q] = (\/ q[1] = base
                         \/ /\ q[1] \notin q[2] /\ Lookup(sch, q[1]).base # NoName
                            /\ f[Above(q)])
      <4>1. f[q] \in BOOLEAN /\ (f[q] <=> IF Goes(q) THEN f[Above(q)] ELSE q[1] = base)
        BY <1>5, <1>6
      <4> QED BY <4>1, Zenon DEF Goes
    <3> QED BY <1>5, <3>1
  <2> QED BY <2>1 DEF Above, D
<1>8. Climbs(sch, base) = CHOOSE h : Is(h)
  BY DEF Climbs, NoName
<1> DEFINE c == Climbs(sch, base)
<1> HIDE DEF Is
<1>9. Is(c)
  BY <1>7, <1>8
<1> HIDE DEF c
<1> QED BY <1>9 DEF Is, c, Above

Outcomes == {Fields(a, e) : a, e \in FieldSeqs} \cup {NoFields}

LEMMA ExtendedOK ==
  ASSUME SchemaTypeOK, NEW name, NEW o \in Outcomes
  PROVE  Extended(Lookup(sch, name), o) \in Outcomes
<1> DEFINE t == Lookup(sch, name)
<1>1. t.attrs \in FieldSeqs /\ t.elems \in FieldSeqs
  BY LookupOK
<1> HIDE DEF t
<1>2. NoFields \in Outcomes /\ \A a, e \in FieldSeqs : Fields(a, e) \in Outcomes
  <2>1. NoFields \in Outcomes
    BY DEF Outcomes
  <2>2. ASSUME NEW a \in FieldSeqs, NEW e \in FieldSeqs PROVE Fields(a, e) \in Outcomes
    BY DEF Outcomes
  <2> QED BY <2>1, <2>2
<1>3. CASE t.base = NoName
  <2>1. Extended(t, o) = Fields(t.attrs, t.elems)
    BY <1>3 DEF Extended, NoName
  <2> QED BY <1>1, <1>2, <2>1 DEF t
<1>4. CASE t.base # NoName /\ ~o.ok
  <2>1. Extended(t, o) = NoFields
    BY <1>4 DEF Extended, NoName
  <2> QED BY <1>2, <2>1 DEF t
<1>5. CASE t.base # NoName /\ o.ok
  <2>1. o # NoFields
    <3>1. ~NoFields.ok
      BY DEF NoFields
    <3> QED BY <1>5, <3>1, Zenon
  <2>2. PICK a \in FieldSeqs, e \in FieldSeqs : o = Fields(a, e)
    BY <2>1 DEF Outcomes
  <2>3. a \o t.attrs \in FieldSeqs /\ e \o t.elems \in FieldSeqs
    BY <1>1, FieldSeqsOK
  <2>4. o.attrs = a /\ o.elems = e
    BY <2>2 DEF Fields
  <2>5. Extended(t, o) = Fields(a \o t.attrs, e \o t.elems)
    BY <1>5, <2>4 DEF Extended, NoName
  <2> QED BY <1>2, <2>3, <2>5 DEF t
<1> QED BY <1>3, <1>4, <1>5

LEMMA InheritStep ==
  ASSUME SchemaTypeOK
  PROVE  \A q \in Walks :
           /\ Inherit(sch)[q] \in Outcomes
           /\ Inherit(sch)[q] =
                IF q[1] \in q[2] \/ Lookup(sch, q[1]) = NoType THEN NoFields
                ELSE Extended(Lookup(sch, q[1]), Inherit(sch)[Above(q)])
<1> DEFINE Is(f) ==
             f = [q \in Walks |->
                    LET base == Lookup(sch, q[1]) IN
                    IF q[1] \in q[2] \/ base = NoType THEN NoFields
                    ELSE Extended(base, f[<<base.base, q[2] \cup {q[1]}>>])]
           Fails(q) == q[1] \in q[2] \/ Lookup(sch, q[1]) = NoType
           Ends(q)  == Lookup(sch, q[1]).base = NoName
           Goes(q)  == ~Fails(q) /\ ~Ends(q)
           D == Walks
           V == Outcomes
           Does(q, o) == Extended(Lookup(sch, q[1]), o)
           stops == {q \in D : ~Goes(q)}
           final == [q \in D |-> IF Fails(q) THEN NoFields ELSE Does(q, NoFields)]
           next == [q \in D |-> IF Goes(q) THEN Above(q) ELSE q]
           g == [p \in D \X V |-> Does(p[1], p[2])]
           rank == [q \in D |-> Rank(q)]
<1>1. NoFields \in V /\ \A q \in D : \A o \in V : Does(q, o) \in V
  BY ExtendedOK DEF Outcomes
<1>2. \A q \in D : \A o : Ends(q) => Does(q, o) = Does(q, NoFields)
  BY DEF Extended
<1>3. \A q \in D : Rank(q) \in Nat /\ (Goes(q) => Above(q) \in D /\ Rank(Above(q)) < Rank(q))
  BY WalksDescend
<1> HIDE DEF Fails, Ends, Does, D, V
<1>4. /\ final \in [D -> V] /\ g \in [D \X V -> V]
      /\ \A q \in D : final[q] = IF Fails(q) THEN NoFields ELSE Does(q, NoFields)
      /\ \A q \in D : \A o \in V : g[<<q, o>>] = Does(q, o)
  BY <1>1
<1> HIDE DEF Goes, final, g
<1>5. /\ next \in [D -> D] /\ rank \in [D -> Nat]
      /\ \A q \in D \ stops : next[q] = Above(q) /\ rank[next[q]] < rank[q]
      /\ \A q \in D : q \in stops <=> ~Goes(q)
  BY <1>3
<1> HIDE DEF stops, next, rank
<1>6. Descends(D, V, final, stops, next, g, rank)
  BY <1>4, <1>5 DEF Descends
<1>7. PICK f \in [D -> V] :
        \A q \in D : f[q] = IF q \in stops THEN final[q] ELSE g[<<q, f[next[q]]>>]
  BY <1>6, Recursion
<1>8. ASSUME NEW q \in D
      PROVE  f[q] = IF Fails(q) THEN NoFields ELSE Does(q, f[Above(q)])
  <2>1. CASE Goes(q)
    <3>1. q \in D \ stops
      BY <1>5, <2>1
    <3>2. f[q] = g[<<q, f[Above(q)]>>]
      BY <1>5, <1>7, <3>1
    <3>3. f[Above(q)] \in V
      BY <1>3, <1>7, <2>1
    <3> QED BY <1>4, <2>1, <3>2, <3>3 DEF Goes
  <2>2. CASE ~Goes(q)
    <3>1. f[q] = IF Fails(q) THEN NoFields ELSE Does(q, NoFields)
      BY <1>4, <1>5, <1>7, <2>2
    <3> QED BY <1>2, <2>2, <3>1 DEF Goes
  <2> QED BY <2>1, <2>2
<1>9. Is(f)
  <2>1. f = [q \in D |-> IF Fails(q) THEN NoFields ELSE Does(q, f[Above(q)])]
    BY <1>7, <1>8
  <2> QED BY <2>1 DEF Above, D, Fails, Does
<1>10. Inherit(sch) = CHOOSE h : Is(h)
  BY DEF Inherit
<1> DEFINE i == Inherit(sch)
<1> HIDE DEF Is
<1>11. Is(i)
  BY <1>9, <1>10
<1> HIDE DEF i
<1>12. \A q \in D : i[q] = IF Fails(q) THEN NoFields ELSE Does(q, i[Above(q)])
  BY <1>11 DEF Is, Above, D, Fails, Does
<1> DEFINE S == {n \in Nat : \A q \in D : Rank(q) < n => i[q] \in V}
<1>13. 0 \in S
  BY <1>3
<1>14. ASSUME NEW n \in Nat, n \in S PROVE n + 1 \in S
  <2>1. ASSUME NEW q \in D, Rank(q) < n + 1, ~Fails(q) PROVE Does(q, i[Above(q)]) \in V
    <3>1. CASE Ends(q)
      BY <1>1, <1>2, <3>1
    <3>2. CASE ~Ends(q)
      <4>1. Above(q) \in D /\ Rank(Above(q)) < Rank(q) /\ Rank(q) \in Nat /\ Rank(Above(q)) \in Nat
        BY <1>3, <2>1, <3>2 DEF Goes
      <4>2. Rank(Above(q)) < n
        BY <2>1, <4>1
      <4>3. i[Above(q)] \in V
        BY <1>14, <4>1, <4>2
      <4> QED BY <1>1, <4>3
    <3> QED BY <3>1, <3>2
  <2>2. \A q \in D : Rank(q) < n + 1 => i[q] \in V
    BY <1>1, <1>12, <2>1
  <2> QED BY <2>2
<1> HIDE DEF S
<1>15. Nat \subseteq S
  BY <1>13, <1>14, Induction
<1>16. ASSUME NEW q \in D PROVE i[q] \in V
  <2>1. Rank(q) \in Nat /\ Rank(q) + 1 \in Nat /\ Rank(q) < Rank(q) + 1
    BY <1>3
  <2> QED BY <1>15, <2>1 DEF S
<1> QED BY <1>12, <1>16 DEF i, D, V, Fails, Does
-----------------------------------------------------------------------------
(* What is on a chain. *)

LEMMA ChainShift ==
  ASSUME NEW up, NEW name, IsChain(up, name), NEW i \in Nat, NEW j \in Nat, up[i] = up[j]
  PROVE  \A x \in Nat : up[i + x] = up[j + x]
<1> DEFINE S == {x \in Nat : up[i + x] = up[j + x]}
<1>1. 0 \in S
  OBVIOUS
<1>2. ASSUME NEW x \in Nat, x \in S PROVE x + 1 \in S
  <2>1. /\ i + x \in Nat /\ j + x \in Nat /\ x + 1 \in Nat
        /\ i + (x + 1) = (i + x) + 1 /\ j + (x + 1) = (j + x) + 1
    OBVIOUS
  <2>2. /\ up[(i + x) + 1] = Lookup(sch, up[i + x]).base
        /\ up[(j + x) + 1] = Lookup(sch, up[j + x]).base
    BY <2>1 DEF IsChain
  <2>3. up[i + x] = up[j + x]
    BY <1>2
  <2> QED BY <2>1, <2>2, <2>3
<1> HIDE DEF S
<1>3. Nat \subseteq S
  BY <1>1, <1>2, Induction
<1> QED BY <1>3 DEF S

\* After the empty name there are no others.
LEMMA ChainEnds ==
  ASSUME NEW up, NEW name, IsChain(up, name), NEW k \in Nat, up[k] = NoName, NEW l \in Nat, k <= l
  PROVE  up[l] = NoName
<1>1. up[k + 1] = NoName
  BY NoNameNoType DEF IsChain
<1> DEFINE S == {x \in Nat : up[k + x] = NoName}
<1>2. 0 \in S
  OBVIOUS
<1>3. ASSUME NEW x \in Nat, x \in S PROVE x + 1 \in S
  <2>1. k + x \in Nat /\ x + 1 \in Nat /\ k + (x + 1) = (k + x) + 1
    OBVIOUS
  <2>2. up[(k + x) + 1] = Lookup(sch, up[k + x]).base
    BY <2>1 DEF IsChain
  <2> QED BY <1>3, <2>1, <2>2, NoNameNoType
<1> HIDE DEF S
<1>4. Nat \subseteq S
  BY <1>2, <1>3, Induction
<1>5. l - k \in Nat /\ k + (l - k) = l
  OBVIOUS
<1> QED BY <1>4, <1>5 DEF S

\* Up to where a name occurs for the first time, no name occurs twice.
LEMMA ChainDistinct ==
  ASSUME NEW up, NEW name, IsChain(up, name), NEW k \in Nat, up[k] # NoName,
         \A j \in Nat : j < k => up[j] # up[k]
  PROVE  \A i \in 0..k : up[i] # NoName /\ \A j \in Nat : j < i => up[i] # up[j]
<1> TAKE i \in 0..k
<1>1. up[i] # NoName
  <2>1. i \in Nat /\ i <= k
    OBVIOUS
  <2> QED BY <2>1, ChainEnds
<1>2. ASSUME NEW j \in Nat, j < i, up[i] = up[j] PROVE FALSE
  <2>1. i \in Nat /\ k - i \in Nat /\ i + (k - i) = k /\ j + (k - i) \in Nat /\ j + (k - i) < k
    BY <1>2
  <2>2. up[i + (k - i)] = up[j + (k - i)]
    BY <1>2, <2>1, ChainShift
  <2> QED BY <2>1, <2>2
<1> QED BY <1>1, <1>2

\* As many names as there are types, and one more: one of them occurs twice.
LEMMA ChainRepeats ==
  ASSUME SchemaTypeOK, NEW up, NEW name, IsChain(up, name),
         NEW n \in Nat, n = Cardinality(DOMAIN sch.types), up[n + 1] # NoName
  PROVE  \E i, j \in 1..(n + 1) : j < i /\ up[i] = up[j]
<1> DEFINE I == 1..(n + 1)
           f == [k \in I |-> up[k]]
<1>1. \A k \in I : up[k] \in Bases
  <2> TAKE k \in I
  <2>1. k \in Nat /\ k - 1 \in Nat /\ (k - 1) + 1 = k /\ k <= n + 1 /\ n + 1 \in Nat
    OBVIOUS
  <2>2. up[k] = Lookup(sch, up[k - 1]).base
    BY <2>1 DEF IsChain
  <2>3. up[k] # NoName
    BY <2>1, ChainEnds
  <2> QED BY <2>2, <2>3, LookupOK
<1>2. f \in [I -> Bases]
  BY <1>1
<1>3. IsFiniteSet(I) /\ Cardinality(I) = n + 1
  <2>1. 1 \in Int /\ n + 1 \in Int /\ ~ 1 > n + 1 /\ (n + 1) - 1 + 1 = n + 1
    OBVIOUS
  <2>2. IsFiniteSet(1..(n + 1)) /\ Cardinality(1..(n + 1)) = (n + 1) - 1 + 1
    BY <2>1, FS_Interval
  <2> QED BY <2>1, <2>2
<1>4. IsFiniteSet(Bases) /\ Cardinality(Bases) < Cardinality(I)
  BY <1>3, BasesOK
<1> HIDE DEF I, f
<1>5. PICK i, j \in I : i # j /\ f[i] = f[j]
  BY <1>2, <1>3, <1>4, FS_PigeonHole
<1>6. i \in 1..(n + 1) /\ j \in 1..(n + 1) /\ up[i] = up[j] /\ (i < j \/ j < i)
  BY <1>5 DEF I, f
<1> QED BY <1>6
-----------------------------------------------------------------------------
(* A walk along a chain: at its i-th name, after those from the a-th on. *)

Between(up, a, b) == {up[j] : j \in a..b}
PlaceOf(up, a, i) == <<up[i], Between(up, a, i - 1)>>

LEMMA WalkAlong ==
  ASSUME NEW up, NEW name, IsChain(up, name),
         NEW a \in Nat, NEW i \in Nat, a <= i, up[i] # NoName
  PROVE  /\ PlaceOf(up, a, i) \in Walks /\ PlaceOf(up, a, i)[1] = up[i]
         /\ Lookup(sch, up[i]).base = up[i + 1]
         /\ Above(PlaceOf(up, a, i)) = PlaceOf(up, a, i + 1)
         /\ up[i] \in PlaceOf(up, a, i)[2] <=> \E j \in a..(i - 1) : up[i] = up[j]
<1>1. \A j \in Nat : j <= i => up[j] \in Names
  <2> TAKE j \in Nat
  <2>1. j <= i => up[j] # NoName
    BY ChainEnds
  <2> QED BY <2>1 DEF IsChain
<1>2. PlaceOf(up, a, i) \in Walks
  <2>1. \A j \in a..(i - 1) : j \in Nat /\ j <= i
    OBVIOUS
  <2>2. Between(up, a, i - 1) \subseteq Names
    BY <1>1, <2>1 DEF Between
  <2>3. up[i] \in Names
    BY <1>1
  <2>4. PlaceOf(up, a, i) \in Names \X SUBSET Names
    BY <2>2, <2>3 DEF PlaceOf
  <2> QED BY <2>4 DEF Walks, Names
<1>3. Lookup(sch, up[i]).base = up[i + 1]
  BY DEF IsChain
<1>4. Between(up, a, i - 1) \cup {up[i]} = Between(up, a, i)
  <2>1. \A j : j \in a..i <=> j \in a..(i - 1) \/ j = i
    OBVIOUS
  <2> QED BY <2>1 DEF Between
<1>5. Above(PlaceOf(up, a, i)) = PlaceOf(up, a, i + 1)
  <2>1. PlaceOf(up, a, i)[1] = up[i] /\ PlaceOf(up, a, i)[2] = Between(up, a, i - 1)
    BY DEF PlaceOf
  <2>2. PlaceOf(up, a, i + 1) = <<up[i + 1], Between(up, a, i)>>
    <3>1. (i + 1) - 1 = i
      OBVIOUS
    <3> QED BY <3>1 DEF PlaceOf
  <2> QED BY <1>3, <1>4, <2>1, <2>2 DEF Above
<1> QED BY <1>2, <1>3, <1>5 DEF PlaceOf, Between

\* DerivedFrom walks along the chain until it finds what it is looking for.
LEMMA ClimbsChain ==
  ASSUME SchemaTypeOK, NEW up, NEW name \in Names, name # NoName, IsChain(up, name), NEW base
  PROVE  Climbs(sch, base)[<<name, {}>>] <=>
           base # NoName /\ \E k \in 0..Cardinality(DOMAIN sch.types) : up[k] = base
<1> DEFINE n == Cardinality(DOMAIN sch.types)
           C(i) == Climbs(sch, base)[PlaceOf(up, 0, i)]
<1>1. n \in Nat
  BY BasesOK
<1>2. up[0] = name /\ PlaceOf(up, 0, 0) = <<name, {}>>
  <2>1. up[0] = name /\ Between(up, 0, 0 - 1) = {}
    BY DEF IsChain, Between
  <2> QED BY <2>1 DEF PlaceOf
<1>3. ASSUME NEW i \in Nat, up[i] # NoName
      PROVE  C(i) <=> \/ up[i] = base
                      \/ (\A j \in 0..(i - 1) : up[i] # up[j]) /\ up[i + 1] # NoName /\ C(i + 1)
  <2>1. 0 \in Nat /\ 0 <= i
    OBVIOUS
  <2>2. /\ PlaceOf(up, 0, i) \in Walks /\ PlaceOf(up, 0, i)[1] = up[i]
        /\ Lookup(sch, up[i]).base = up[i + 1]
        /\ Above(PlaceOf(up, 0, i)) = PlaceOf(up, 0, i + 1)
        /\ up[i] \in PlaceOf(up, 0, i)[2] <=> \E j \in 0..(i - 1) : up[i] = up[j]
    BY <1>3, <2>1, WalkAlong
  <2>3. C(i) <=>
          \/ PlaceOf(up, 0, i)[1] = base
          \/ /\ PlaceOf(up, 0, i)[1] \notin PlaceOf(up, 0, i)[2] /\ Lookup(sch, PlaceOf(up, 0, i)[1]).base # NoName
             /\ Climbs(sch, base)[Above(PlaceOf(up, 0, i))]
    BY <2>2, ClimbStep
  <2> HIDE DEF C
  <2> QED BY <2>2, <2>3 DEF C
<1> HIDE DEF C
<1>4. ASSUME C(0), \A k \in 0..n : up[k] = base => base = NoName PROVE FALSE
  <2> DEFINE S == {i \in Nat : i <= n + 1 => up[i] # NoName /\ C(i)}
  <2>1. 0 \in S
    BY <1>2, <1>4
  <2>2. ASSUME NEW i \in Nat, i \in S PROVE i + 1 \in S
    <3> SUFFICES ASSUME i + 1 <= n + 1 PROVE up[i + 1] # NoName /\ C(i + 1)
      OBVIOUS
    <3>1. i \in 0..n /\ up[i] # NoName /\ C(i)
      BY <1>1, <2>2
    <3>2. up[i] # base
      BY <1>4, <3>1
    <3> QED BY <1>3, <3>1, <3>2
  <2> HIDE DEF S
  <2>3. Nat \subseteq S
    BY <2>1, <2>2, Induction
  <2>4. \A i \in 0..(n + 1) : i \in Nat /\ up[i] # NoName /\ C(i)
    BY <1>1, <2>3 DEF S
  <2>5. n + 1 \in 0..(n + 1)
    BY <1>1
  <2>6. \E i, j \in 1..(n + 1) : j < i /\ up[i] = up[j]
    BY <1>1, <2>4, <2>5, ChainRepeats
  <2>7. PICK i \in 1..(n + 1), j \in 1..(n + 1) : j < i /\ up[i] = up[j]
    BY <2>6
  <2>8. i \in 0..(n + 1) /\ j \in 0..(n + 1) /\ j \in 0..n /\ j \in 0..(i - 1)
    BY <1>1, <2>7
  <2>9. up[i] # base
    BY <1>4, <2>4, <2>7, <2>8
  <2> QED BY <1>3, <2>4, <2>7, <2>8, <2>9
<1>5. ASSUME base # NoName, NEW l \in 0..n, up[l] = base PROVE C(0)
  <2> DEFINE K == {k \in Nat : up[k] = base}
  <2>1. l \in K
    BY <1>1, <1>5
  <2>2. PICK k \in K : \A j \in K : k <= j
    BY <2>1, LeastElement
  <2>3. k \in Nat /\ up[k] = base /\ \A j \in Nat : j < k => up[j] # base
    BY <2>2
  <2> HIDE DEF K
  <2>4. \A i \in 0..k : up[i] # NoName /\ \A j \in Nat : j < i => up[i] # up[j]
    BY <1>5, <2>3, ChainDistinct
  <2> DEFINE S == {x \in Nat : x <= k => C(k - x)}
  <2>5. 0 \in S
    <3>1. k \in 0..k /\ k - 0 = k
      BY <2>3
    <3>2. C(k)
      BY <1>3, <2>3, <2>4, <3>1
    <3> QED BY <3>1, <3>2
  <2>6. ASSUME NEW x \in Nat, x \in S PROVE x + 1 \in S
    <3> SUFFICES ASSUME x + 1 <= k PROVE C(k - (x + 1))
      OBVIOUS
    <3> DEFINE i == k - (x + 1)
    <3>1. i \in Nat /\ i \in 0..k /\ i + 1 \in 0..k /\ i + 1 = k - x /\ x <= k
      BY <2>3
    <3>2. C(i + 1)
      BY <2>6, <3>1
    <3>3. \A j \in 0..(i - 1) : j \in Nat /\ j < i
      BY <3>1
    <3> HIDE DEF i
    <3>4. up[i] # NoName /\ up[i + 1] # NoName /\ \A j \in 0..(i - 1) : up[i] # up[j]
      BY <2>4, <3>1, <3>3
    <3>5. C(i)
      BY <1>3, <3>1, <3>2, <3>4
    <3> QED BY <3>5 DEF i
  <2> HIDE DEF S
  <2>7. Nat \subseteq S
    BY <2>5, <2>6, Induction
  <2>8. k \in S /\ k <= k /\ k - k = 0
    BY <2>3, <2>7
  <2> QED BY <2>8 DEF S
<1> QED BY <1>2, <1>4, <1>5 DEF C

(* Effective collects the fields along the chain. *)

FieldsJoined(o, attrs, elems) == IF o.ok THEN Fields(o.attrs \o attrs, o.elems \o elems) ELSE NoFields

LEMMA ExtendedJoins ==
  ASSUME NEW t, NEW o
  PROVE  /\ t.base # NoName => Extended(t, o) = FieldsJoined(o, t.attrs, t.elems)
         /\ t.base = NoName => Extended(t, o) = Fields(t.attrs, t.elems)
<1>1. CASE t.base = NoName
  BY <1>1 DEF Extended, NoName
<1>2. CASE t.base # NoName /\ o.ok
  BY <1>2 DEF Extended, NoName, FieldsJoined
<1>3. CASE t.base # NoName /\ ~o.ok
  BY <1>3 DEF Extended, NoName, FieldsJoined
<1> QED BY <1>1, <1>2, <1>3

LEMMA JoinedTwice ==
  ASSUME NEW o \in Outcomes, NEW a \in FieldSeqs, NEW e \in FieldSeqs,
         NEW b \in FieldSeqs, NEW f \in FieldSeqs
  PROVE  FieldsJoined(FieldsJoined(o, a, e), b, f) = FieldsJoined(o, a \o b, e \o f)
<1>1. ~NoFields.ok
  BY DEF NoFields
<1>2. CASE ~o.ok
  <2>1. FieldsJoined(o, a, e) = NoFields /\ FieldsJoined(o, a \o b, e \o f) = NoFields
    BY <1>2, Zenon DEF FieldsJoined
  <2>2. FieldsJoined(NoFields, b, f) = NoFields
    BY <1>1, Zenon DEF FieldsJoined
  <2> QED BY <2>1, <2>2
<1>3. CASE o.ok
  <2>1. o # NoFields
    BY <1>1, <1>3, Zenon
  <2>2. PICK c \in FieldSeqs, d \in FieldSeqs : o = Fields(c, d)
    BY <2>1 DEF Outcomes
  <2>3. o.attrs = c /\ o.elems = d
    BY <2>2 DEF Fields
  <2>4. FieldsJoined(o, a, e) = Fields(c \o a, d \o e)
    BY <1>3, <2>3, Zenon DEF FieldsJoined
  <2>5. FieldsJoined(o, a \o b, e \o f) = Fields(c \o (a \o b), d \o (e \o f))
    BY <1>3, <2>3, Zenon DEF FieldsJoined
  <2> DEFINE p == Fields(c \o a, d \o e)
  <2>6. p.ok /\ p.attrs = c \o a /\ p.elems = d \o e
    BY DEF Fields
  <2> HIDE DEF p
  <2>7. FieldsJoined(p, b, f) = Fields((c \o a) \o b, (d \o e) \o f)
    BY <2>6, Zenon DEF FieldsJoined
  <2>8. (c \o a) \o b = c \o (a \o b) /\ (d \o e) \o f = d \o (e \o f)
    <3>1. (c \o a) \o b = c \o (a \o b)
      BY FieldSeqsOK, Zenon
    <3>2. (d \o e) \o f = d \o (e \o f)
      BY FieldSeqsOK, Zenon
    <3> QED BY <3>1, <3>2, Zenon
  <2> QED BY <2>4, <2>5, <2>7, <2>8, Zenon DEF p
<1> QED BY <1>2, <1>3

\* What the walk makes of the i-th name of a chain.
Inherited(up, i) == Inherit(sch)[PlaceOf(up, 1, i)]

\* Own is, when the walk has come to the i-th name, what that inherits and then
\* the fields of the names before it.
Collected(own, up, i) == own = FieldsJoined(Inherited(up, i), AttrsDown(up)[i], ElemsDown(up)[i])

LEMMA InheritedAlong ==
  ASSUME SchemaTypeOK, NEW up, NEW name, IsChain(up, name), NEW i \in Nat, 1 <= i, up[i] # NoName
  PROVE  /\ Inherited(up, i) \in Outcomes
         /\ Inherited(up, i) =
              IF (\E j \in 1..(i - 1) : up[i] = up[j]) \/ Lookup(sch, up[i]) = NoType THEN NoFields
              ELSE Extended(Lookup(sch, up[i]), Inherited(up, i + 1))
<1> DEFINE q == PlaceOf(up, 1, i)
<1>1. 1 \in Nat
  OBVIOUS
<1>2. /\ q \in Walks /\ q[1] = up[i] /\ Above(q) = PlaceOf(up, 1, i + 1)
      /\ up[i] \in q[2] <=> \E j \in 1..(i - 1) : up[i] = up[j]
  BY <1>1, WalkAlong
<1> HIDE DEF q
<1>3. /\ Inherit(sch)[q] \in Outcomes
      /\ Inherit(sch)[q] =
           IF q[1] \in q[2] \/ Lookup(sch, q[1]) = NoType THEN NoFields
           ELSE Extended(Lookup(sch, q[1]), Inherit(sch)[Above(q)])
  BY <1>2, InheritStep
<1>4. Inherited(up, i) = Inherit(sch)[q] /\ Inherited(up, i + 1) = Inherit(sch)[Above(q)]
  BY <1>2 DEF Inherited, q
<1> QED BY <1>2, <1>3, <1>4, Zenon

\* Nothing is inherited where the chain is broken; else there is a step more.
LEMMA CollectedStep ==
  ASSUME SchemaTypeOK, NEW up, NEW name, IsChain(up, name), NEW i \in Nat, 1 <= i, up[i] # NoName,
         NEW own, Collected(own, up, i)
  PROVE  /\ own.ok => Lookup(sch, up[i]) # NoType /\ \A j \in 1..(i - 1) : up[i] # up[j]
         /\ Lookup(sch, up[i]) # NoType /\ (\A j \in 1..(i - 1) : up[i] # up[j]) =>
              /\ up[i + 1] # NoName => Collected(own, up, i + 1)
              /\ up[i + 1] = NoName => own = Fields(AttrsDown(up)[i + 1], ElemsDown(up)[i + 1])
<1> DEFINE t == Lookup(sch, up[i])
           o == Inherited(up, i)
           above == Inherited(up, i + 1)
           a == AttrsDown(up)[i]
           e == ElemsDown(up)[i]
           Broken == (\E j \in 1..(i - 1) : up[i] = up[j]) \/ t = NoType
<1>1. o = IF Broken THEN NoFields ELSE Extended(t, above)
  BY InheritedAlong
<1>2. /\ t.attrs \in FieldSeqs /\ t.elems \in FieldSeqs
      /\ a \in FieldSeqs /\ e \in FieldSeqs
  BY LookupOK, DownDef
<1>3. AttrsDown(up)[i + 1] = t.attrs \o a /\ ElemsDown(up)[i + 1] = t.elems \o e
  BY DownDef
<1>4. t.base = up[i + 1]
  BY DEF IsChain
<1>5. own = FieldsJoined(o, a, e)
  BY DEF Collected
<1>6. up[i + 1] # NoName => above \in Outcomes
  <2>1. i + 1 \in Nat /\ 1 <= i + 1
    OBVIOUS
  <2> QED BY <2>1, InheritedAlong
<1>7. Collected(own, up, i + 1) <=> own = FieldsJoined(above, t.attrs \o a, t.elems \o e)
  BY <1>3 DEF Collected
<1>8. t = Lookup(sch, up[i])
  OBVIOUS
<1> HIDE DEF t, o, above, a, e
<1>9. ~NoFields.ok /\ \A b, f : Fields(b, f).ok
  BY DEF NoFields, Fields
<1>10. ASSUME own.ok PROVE ~Broken
  <2>1. ASSUME Broken PROVE FALSE
    <3>1. o = NoFields
      BY <1>1, <2>1
    <3>2. own = NoFields
      BY <1>5, <1>9, <3>1, Zenon DEF FieldsJoined
    <3> QED BY <1>9, <1>10, <3>2, Zenon
  <2> QED BY <2>1
<1>11. ASSUME ~Broken, up[i + 1] # NoName PROVE Collected(own, up, i + 1)
  <2>1. o = FieldsJoined(above, t.attrs, t.elems)
    BY <1>1, <1>4, <1>11, ExtendedJoins
  <2>2. own = FieldsJoined(FieldsJoined(above, t.attrs, t.elems), a, e)
    BY <1>5, <2>1
  <2> QED BY <1>2, <1>6, <1>7, <1>11, <2>2, JoinedTwice
<1>12. ASSUME ~Broken, up[i + 1] = NoName
       PROVE  own = Fields(AttrsDown(up)[i + 1], ElemsDown(up)[i + 1])
  <2>1. o = Fields(t.attrs, t.elems)
    BY <1>1, <1>4, <1>12, ExtendedJoins
  <2>2. o.ok /\ o.attrs = t.attrs /\ o.elems = t.elems
    BY <2>1 DEF Fields
  <2>3. own = Fields(t.attrs \o a, t.elems \o e)
    BY <1>5, <2>2, Zenon DEF FieldsJoined
  <2> QED BY <1>3, <2>3
<1> QED BY <1>8, <1>10, <1>11, <1>12, Zenon

LEMMA CollectedFirst ==
  ASSUME SchemaTypeOK, NEW up, NEW name, IsChain(up, name),
         NEW own, own = Effective(sch, Lookup(sch, name))
  PROVE  /\ up[1] # NoName => Collected(own, up, 1)
         /\ up[1] = NoName => own = Fields(AttrsDown(up)[1], ElemsDown(up)[1])
<1> DEFINE t == Lookup(sch, name)
           o == Inherited(up, 1)
<1>1. t.base = up[1] /\ up[0] = name /\ 0 + 1 = 1
  <2>1. 0 \in Nat /\ 0 + 1 = 1
    OBVIOUS
  <2>2. up[0 + 1] = Lookup(sch, up[0]).base /\ up[0] = name
    BY <2>1 DEF IsChain
  <2> QED BY <2>1, <2>2
<1>2. own = Extended(t, o)
  <2>1. Between(up, 1, 1 - 1) = {}
    BY DEF Between
  <2>2. PlaceOf(up, 1, 1) = <<t.base, {}>>
    BY <1>1, <2>1, Zenon DEF PlaceOf
  <2> QED BY <2>2 DEF Effective, Inherited
<1>3. AttrsDown(up)[1] = t.attrs /\ ElemsDown(up)[1] = t.elems
  <2>1. /\ AttrsDown(up)[0 + 1] = Lookup(sch, up[0]).attrs \o <<>>
        /\ ElemsDown(up)[0 + 1] = Lookup(sch, up[0]).elems \o <<>>
    <3>1. 0 \in Nat
      OBVIOUS
    <3> QED BY <3>1, DownDef
  <2>2. t.attrs \o <<>> = t.attrs /\ t.elems \o <<>> = t.elems
    BY LookupOK, FieldSeqsOK, Zenon
  <2> QED BY <1>1, <2>1, <2>2, Zenon
<1> QED BY <1>1, <1>2, <1>3, ExtendedJoins DEF Collected

LEMMA EffectiveTop ==
  ASSUME SchemaTypeOK, NEW up, NEW name, IsChain(up, name), NEW m \in Nat, IsTop(up[m])
  PROVE  Effective(sch, Lookup(sch, name)) = Fields(AttrsDown(up)[m + 1], ElemsDown(up)[m + 1])
<1> DEFINE own == Effective(sch, Lookup(sch, name))
<1>1. /\ up[m] # NoName /\ up[m + 1] = NoName /\ Lookup(sch, up[m]) # NoType
      /\ \A j \in Nat : up[j + 1] = Lookup(sch, up[j]).base
  BY NoNameNoType DEF IsTop, IsChain, NoName
<1>2. \A j \in Nat : j < m => up[j] # up[m]
  <2> SUFFICES ASSUME NEW j \in Nat, j < m, up[j] = up[m] PROVE FALSE
    OBVIOUS
  <2>1. up[j + 1] = NoName /\ j + 1 \in Nat /\ j + 1 <= m
    BY <1>1
  <2> QED BY <1>1, <2>1, ChainEnds
<1>3. \A i \in 0..m : up[i] # NoName /\ \A j \in Nat : j < i => up[i] # up[j]
  BY <1>1, <1>2, ChainDistinct
<1>4. ASSUME NEW i \in Nat, 1 <= i, i <= m
      PROVE  /\ up[i] # NoName /\ \A j \in 1..(i - 1) : up[i] # up[j]
             /\ Lookup(sch, up[i]) # NoType
  <2>1. i \in 0..m /\ \A j \in 1..(i - 1) : j \in Nat /\ j < i
    BY <1>4
  <2>2. CASE i = m
    BY <1>1, <1>3, <2>1, <2>2
  <2>3. CASE i # m
    <3>1. i + 1 \in 0..m
      BY <1>4, <2>3
    <3>2. Lookup(sch, up[i]).base # NoName
      BY <1>1, <1>3, <3>1
    <3> QED BY <1>3, <2>1, <3>2, NoNameNoType
  <2> QED BY <2>2, <2>3
<1> HIDE DEF own
<1>5. CASE m = 0
  <2>1. up[1] = NoName /\ m + 1 = 1
    BY <1>1, <1>5
  <2> QED BY <2>1, CollectedFirst
<1>6. CASE m # 0
  <2> DEFINE S == {i \in Nat : i < m => Collected(own, up, i + 1)}
  <2>1. 0 \in S
    <3>1. 1 \in Nat /\ 1 <= 1 /\ 1 <= m /\ 0 + 1 = 1
      BY <1>6
    <3>2. up[1] # NoName
      BY <1>4, <3>1
    <3>3. Collected(own, up, 0 + 1)
      BY <3>1, <3>2, CollectedFirst DEF own
    <3> QED BY <3>3
  <2>2. ASSUME NEW i \in Nat, i \in S PROVE i + 1 \in S
    <3> SUFFICES ASSUME i + 1 < m PROVE Collected(own, up, (i + 1) + 1)
      OBVIOUS
    <3> DEFINE k == i + 1
    <3>1. k \in Nat /\ 1 <= k /\ k <= m /\ k + 1 \in Nat /\ 1 <= k + 1 /\ k + 1 <= m /\ i < m
      OBVIOUS
    <3>2. Collected(own, up, k)
      BY <2>2, <3>1
    <3> HIDE DEF k
    <3>3. /\ up[k] # NoName /\ \A j \in 1..(k - 1) : up[k] # up[j]
          /\ Lookup(sch, up[k]) # NoType
      BY <1>4, <3>1
    <3>4. up[k + 1] # NoName
      BY <1>4, <3>1
    <3>5. Collected(own, up, k + 1)
      BY <3>1, <3>2, <3>3, <3>4, CollectedStep
    <3> QED BY <3>5 DEF k
  <2> HIDE DEF S
  <2>3. Nat \subseteq S
    BY <2>1, <2>2, Induction
  <2>4. m - 1 \in Nat /\ m - 1 < m /\ (m - 1) + 1 = m /\ 1 <= m /\ m <= m
    BY <1>6
  <2>5. Collected(own, up, m)
    <3>1. Collected(own, up, (m - 1) + 1)
      BY <2>3, <2>4 DEF S
    <3> QED BY <2>4, <3>1
  <2>6. /\ up[m] # NoName /\ \A j \in 1..(m - 1) : up[m] # up[j]
        /\ Lookup(sch, up[m]) # NoType
    BY <1>4, <2>4
  <2>7. own = Fields(AttrsDown(up)[m + 1], ElemsDown(up)[m + 1])
    BY <1>1, <2>4, <2>5, <2>6, CollectedStep
  <2> QED BY <2>7 DEF own
<1> QED BY <1>5, <1>6

LEMMA EffectiveOk ==
  ASSUME SchemaTypeOK, NEW up, NEW name, IsChain(up, name), Lookup(sch, name) # NoType,
         Effective(sch, Lookup(sch, name)).ok
  PROVE  \E k \in 0..Cardinality(DOMAIN sch.types) : IsTop(up[k])
<1> DEFINE own == Effective(sch, Lookup(sch, name))
           n == Cardinality(DOMAIN sch.types)
<1>1. n \in Nat
  BY BasesOK
<1> SUFFICES ASSUME \A k \in 0..n : ~IsTop(up[k]) PROVE FALSE
  OBVIOUS
<1>2. own.ok
  OBVIOUS
<1>3. \A k \in 0..n : Lookup(sch, up[k]) # NoType => up[k + 1] # NoName
  <2>1. \A k \in 0..n : k \in Nat
    BY <1>1
  <2> QED BY <2>1 DEF IsTop, IsChain, NoName
<1> HIDE DEF own, n
<1> DEFINE S == {i \in Nat : i <= n => up[i + 1] # NoName /\ Collected(own, up, i + 1)}
<1>4. 0 \in S
  <2>1. 0 + 1 = 1 /\ 0 \in 0..n
    BY <1>1
  <2>2. up[0] = name
    BY DEF IsChain
  <2>3. up[0 + 1] # NoName
    BY <1>3, <2>1, <2>2
  <2>4. Collected(own, up, 0 + 1)
    BY <2>1, <2>3, CollectedFirst DEF own
  <2> QED BY <2>3, <2>4
<1>5. ASSUME NEW i \in Nat, i \in S PROVE i + 1 \in S
  <2> SUFFICES ASSUME i + 1 <= n
               PROVE  up[(i + 1) + 1] # NoName /\ Collected(own, up, (i + 1) + 1)
    OBVIOUS
  <2> DEFINE k == i + 1
  <2>1. k \in Nat /\ 1 <= k /\ k \in 0..n /\ i <= n
    BY <1>1
  <2>2. up[k] # NoName /\ Collected(own, up, k)
    BY <1>5, <2>1
  <2> HIDE DEF k
  <2>3. Lookup(sch, up[k]) # NoType /\ \A j \in 1..(k - 1) : up[k] # up[j]
    BY <1>2, <2>1, <2>2, CollectedStep
  <2>4. up[k + 1] # NoName
    BY <1>3, <2>1, <2>3
  <2>5. Collected(own, up, k + 1)
    BY <2>1, <2>2, <2>3, <2>4, CollectedStep
  <2> QED BY <2>4, <2>5 DEF k
<1> HIDE DEF S
<1>6. Nat \subseteq S
  BY <1>4, <1>5, Induction
<1>7. ASSUME NEW i \in 1..(n + 1)
      PROVE  i \in Nat /\ 1 <= i /\ up[i] # NoName /\ Collected(own, up, i)
  <2>1. i \in Nat /\ 1 <= i /\ i - 1 \in Nat /\ i - 1 <= n /\ (i - 1) + 1 = i
    BY <1>1
  <2>2. up[(i - 1) + 1] # NoName /\ Collected(own, up, (i - 1) + 1)
    BY <1>6, <2>1 DEF S
  <2> QED BY <2>1, <2>2
<1>8. up[n + 1] # NoName
  <2>1. n + 1 \in 1..(n + 1)
    BY <1>1
  <2> QED BY <1>7, <2>1
<1>9. PICK i \in 1..(n + 1), j \in 1..(n + 1) : j < i /\ up[i] = up[j]
  <2>1. \E i, j \in 1..(n + 1) : j < i /\ up[i] = up[j]
    BY <1>1, <1>8, ChainRepeats DEF n
  <2> QED BY <2>1
<1>10. \A l \in 1..(i - 1) : up[i] # up[l]
  BY <1>2, <1>7, CollectedStep
<1>11. j \in 1..(i - 1)
  BY <1>1, <1>9
<1> QED BY <1>9, <1>10, <1>11
-----------------------------------------------------------------------------
\* The types of a schema inherit what their chain of bases says, for any number
\* of types that extend each other in any way: the fields that Effective gives
\* are those of the bases from the top down, it fails just for a chain that has
\* no top, DerivedFrom is true of just what is on the chain, and both have seen
\* the whole chain after as many bases as there are types (schema.go:54-117).
THEOREM TypesInherit == SchemaTypeOK => Inheritance
<1> SUFFICES ASSUME SchemaTypeOK PROVE Inheritance
  OBVIOUS
<1> DEFINE far == 0..Cardinality(DOMAIN sch.types)
           Own(name) == Effective(sch, Lookup(sch, name))
<1> SUFFICES ASSUME NEW name \in TypeNames, name # NoName, LocalName(name) = name
             PROVE  /\ Lookup(sch, name) # NoType =>
                         (Own(name).ok <=> \E k \in far : IsTop(Chain(name)[k]))
                    /\ \A k \in far : IsTop(Chain(name)[k]) =>
                         Own(name) = Fields(AttrsDown(Chain(name))[k + 1], ElemsDown(Chain(name))[k + 1])
                    /\ \A base \in TypeNames :
                         DerivedFrom(sch, name, base) <=>
                           LocalName(base) # NoName /\ \E k \in far : Chain(name)[k] = LocalName(base)
  BY DEF Inheritance, NoName
<1>1. name \in Names
  BY NamesAssumption DEF NamesAssumption, Names
<1> DEFINE up == Chain(name)
<1>2. IsChain(up, name)
  BY <1>1, ChainDef
<1>3. \A k \in far : k \in Nat
  BY BasesOK
<1> HIDE DEF up
<1>4. ASSUME NEW k \in far, IsTop(up[k])
      PROVE  Own(name) = Fields(AttrsDown(up)[k + 1], ElemsDown(up)[k + 1])
  BY <1>2, <1>3, <1>4, EffectiveTop
<1>5. \A a, e : Fields(a, e).ok
  BY DEF Fields
<1>6. ASSUME Lookup(sch, name) # NoType
      PROVE  Own(name).ok <=> \E k \in far : IsTop(up[k])
  <2>1. Own(name).ok => \E k \in far : IsTop(up[k])
    BY <1>2, <1>6, EffectiveOk
  <2>2. (\E k \in far : IsTop(up[k])) => Own(name).ok
    BY <1>4, <1>5, Zenon
  <2> QED BY <2>1, <2>2
<1>7. ASSUME NEW base \in TypeNames
      PROVE  DerivedFrom(sch, name, base) <=>
               LocalName(base) # NoName /\ \E k \in far : up[k] = LocalName(base)
  <2>1. DerivedFrom(sch, name, base) <=> Climbs(sch, LocalName(base))[<<name, {}>>]
    BY DEF DerivedFrom, NoName
  <2> QED BY <1>1, <1>2, <2>1, ClimbsChain
<1> QED BY <1>4, <1>6, <1>7 DEF up
=============================================================================
