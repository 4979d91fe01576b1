--------------------------- MODULE InstanceProofs ---------------------------
(***************************************************************************)
(* What is decoded from a document, and written as JSON, is decoded to the *)
(* same again: for any schema without ambiguities, whatever it declares,   *)
(* and for any document, in whichever format it came.                      *)
(***************************************************************************)
EXTENDS SchemaProofs, TreeProofs, LoadedDocument

(* The values, by how deep they nest. *)

Within(d) == Inner(ValueTrees, d)

LEMMA ValueTreesAre ==
  \A d \in Nat : ValueTrees[d] = ValueSet(Within(d)) /\ Within(d + 1) = ValueTrees[d]
<1>1. ValueTrees = [d \in Nat |-> ValueSet(Inner(ValueTrees, d))]
  BY DEF ValueTrees
<1>2. \A d \in Nat : d + 1 # 0 /\ (d + 1) - 1 = d
  OBVIOUS
<1> QED BY <1>1, <1>2 DEF Within, Inner

LEMMA MembersOK ==
  ASSUME NEW V, NEW members \in MemberSets(V)
  PROVE  /\ \A m \in members : m = <<m[1], At(members, m[1])>> /\ m[1] \in KeysOf(members)
         /\ \A key \in KeysOf(members) :
              /\ <<key, At(members, key)>> \in members
              /\ key \in Names /\ At(members, key) \in V
<1>1. members \subseteq Names \X V /\ \A m, l \in members : m[1] = l[1] => m = l
  BY DEF MemberSets, Names
<1>2. ASSUME NEW key \in KeysOf(members)
      PROVE  /\ <<key, At(members, key)>> \in members
             /\ key \in Names /\ At(members, key) \in V
  <2>1. PICK m \in members : m[1] = key
    BY DEF KeysOf
  <2> DEFINE l == CHOOSE k \in members : k[1] = key
  <2>2. l \in members /\ l[1] = key /\ At(members, key) = l[2]
    BY <2>1 DEF At
  <2> HIDE DEF l
  <2>3. l = <<l[1], l[2]>> /\ l[1] \in Names /\ l[2] \in V
    BY <1>1, <2>2
  <2> QED BY <2>2, <2>3
<1>3. ASSUME NEW m \in members
      PROVE  m = <<m[1], At(members, m[1])>> /\ m[1] \in KeysOf(members)
  <2>1. m[1] \in KeysOf(members)
    BY DEF KeysOf
  <2>2. <<m[1], At(members, m[1])>> \in members
    BY <1>2, <2>1
  <2>3. <<m[1], At(members, m[1])>>[1] = m[1]
    OBVIOUS
  <2> QED BY <1>1, <2>1, <2>2, <2>3
<1> QED BY <1>2, <1>3

LEMMA ValueSetGrows ==
  ASSUME NEW V, NEW W, V \subseteq W
  PROVE  ValueSet(V) \subseteq ValueSet(W)
<1>1. MemberSets(V) \subseteq MemberSets(W)
  BY Zenon DEF MemberSets
<1>2. Seq(V) \subseteq Seq(W)
  BY SeqMonotonic
<1> QED BY <1>1, <1>2 DEF ValueSet

LEMMA ValueTreesGrow ==
  \A d \in Nat : \A e \in 0..d : ValueTrees[e] \subseteq ValueTrees[d]
<1> DEFINE V(d) == ValueTrees[d]
           S == {d \in Nat : V(d) \subseteq V(d + 1)}
           U == {d \in Nat : \A e \in 0..d : V(e) \subseteq V(d)}
<1>1. V(0) = ValueSet({}) /\ \A d \in Nat : V(d + 1) = ValueSet(V(d))
  <2>1. 0 \in Nat /\ Within(0) = {} /\ \A d \in Nat : d + 1 \in Nat
    BY DEF Within, Inner
  <2> QED BY <2>1, ValueTreesAre
<1> HIDE DEF V
<1>2. 0 \in S
  <2>1. V(0 + 1) = ValueSet(V(0)) /\ ValueSet({}) \subseteq ValueSet(V(0))
    BY <1>1, ValueSetGrows
  <2> QED BY <1>1, <2>1
<1>3. ASSUME NEW d \in Nat, d \in S PROVE d + 1 \in S
  <2>1. d + 1 \in Nat
    OBVIOUS
  <2>2. V(d + 1) = ValueSet(V(d)) /\ V((d + 1) + 1) = ValueSet(V(d + 1))
    BY <1>1, <2>1
  <2>3. ValueSet(V(d)) \subseteq ValueSet(V(d + 1))
    BY <1>3, ValueSetGrows
  <2> QED BY <2>1, <2>2, <2>3
<1> HIDE DEF S
<1>4. Nat \subseteq S
  BY <1>2, <1>3, Induction
<1>5. 0 \in U
  OBVIOUS
<1>6. ASSUME NEW d \in Nat, d \in U PROVE d + 1 \in U
  <2>1. ASSUME NEW e \in 0..(d + 1) PROVE V(e) \subseteq V(d + 1)
    <3>1. CASE e = d + 1
      BY <3>1
    <3>2. CASE e # d + 1
      <4>1. e \in 0..d
        BY <3>2
      <4>2. V(e) \subseteq V(d) /\ V(d) \subseteq V(d + 1)
        BY <1>4, <1>6, <4>1 DEF S
      <4> QED BY <4>2
    <3> QED BY <3>1, <3>2
  <2> QED BY <2>1
<1> HIDE DEF U
<1>7. Nat \subseteq U
  BY <1>5, <1>6, Induction
<1> QED BY <1>7 DEF U, V

LEMMA WithinOK ==
  ASSUME NEW d \in 0..Depth
  PROVE  /\ ValueTrees[d] \subseteq Carried /\ Within(d) \subseteq Carried
         /\ Within(d) \subseteq ValueTrees[d]
         /\ d # 0 => d - 1 \in 0..Depth /\ Within(d) = ValueTrees[d - 1]
<1>1. Depth \in Nat /\ d \in Nat
  BY DepthAssumption DEF DepthAssumption
<1>2. ValueTrees[d] \subseteq Carried
  BY <1>1, ValueTreesGrow DEF Carried
<1>3. CASE d = 0
  BY <1>2, <1>3 DEF Within, Inner
<1>4. CASE d # 0
  <2>1. d - 1 \in 0..Depth /\ d - 1 \in 0..d
    BY <1>1, <1>4
  <2>2. Within(d) = ValueTrees[d - 1]
    BY <1>4 DEF Within, Inner
  <2>3. ValueTrees[d - 1] \subseteq ValueTrees[d]
    BY <1>1, <2>1, ValueTreesGrow
  <2> QED BY <1>2, <2>1, <2>2, <2>3
<1> QED BY <1>3, <1>4

\* What a value is made of nests less deep, and can be carried as well.
LEMMA ValueOK ==
  ASSUME NEW d \in 0..Depth, NEW v \in ValueTrees[d]
  PROVE  /\ v \in Carried
         /\ IsList(v) => ~IsObject(v) /\ v[2] \in Seq(Within(d)) /\ v = List(v[2])
         /\ IsObject(v) => ~IsList(v) /\ v[2] \in MemberSets(Within(d)) /\ v = Object(v[2])
         /\ ~IsList(v) /\ ~IsObject(v) => v \in Atoms
<1>1. Depth \in Nat /\ d \in Nat
  BY DepthAssumption DEF DepthAssumption
<1>2. v \in Carried
  BY WithinOK
<1>3. v \in Atoms => ~IsList(v) /\ ~IsObject(v)
  BY DEF Atoms, Null, NaN, Error, IsList, IsObject
<1>4. v \in ValueSet(Within(d))
  BY <1>1, ValueTreesAre
<1>5. v \in {"list"} \X Seq(Within(d)) =>
        IsList(v) /\ ~IsObject(v) /\ v[2] \in Seq(Within(d)) /\ v = List(v[2])
  BY DEF IsList, IsObject, List
<1>6. v \in {"object"} \X MemberSets(Within(d)) =>
        ~IsList(v) /\ IsObject(v) /\ v[2] \in MemberSets(Within(d)) /\ v = Object(v[2])
  BY DEF IsList, IsObject, Object
<1>7. v \in Atoms \/ v \in {"list"} \X Seq(Within(d)) \/ v \in {"object"} \X MemberSets(Within(d))
  BY <1>4 DEF ValueSet
<1> QED BY <1>2, <1>3, <1>5, <1>6, <1>7
-----------------------------------------------------------------------------
(* What json.Marshal writes, parsed again. *)

LEMMA JsonStep ==
  ASSUME NEW v \in Carried
  PROVE  /\ IsList(v) => JsonOf[v] = ListOf([i \in DOMAIN v[2] |-> JsonOf[v[2][i]]])
         /\ IsObject(v) =>
              JsonOf[v] = IF \E m \in v[2] : JsonOf[m[2]] = Error THEN Error
                          ELSE Object({<<m[1], JsonOf[m[2]]>> : m \in v[2]})
         /\ v[1] = "float" => JsonOf[v] = NumberOf(v[2])
         /\ v[1] = "nan" => JsonOf[v] = Error
         /\ v[1] \notin {"list", "object", "float", "nan"} => JsonOf[v] = v
<1>1. JsonOf = [w \in Carried |-> Marshalled(JsonOf, w)]
  BY DEF JsonOf
<1>2. JsonOf[v] = Marshalled(JsonOf, v)
  BY <1>1
<1> DEFINE f == JsonOf
           ms == MembersOf(f, v[2])
<1> HIDE DEF f
<1>3. ms = {<<m[1], f[m[2]]>> : m \in v[2]}
  BY DEF MembersOf
<1>4. (\E m \in ms : m[2] = Error) <=> \E m \in v[2] : f[m[2]] = Error
  <2>1. \A m \in ms : \E l \in v[2] : m[2] = f[l[2]]
    BY <1>3
  <2>2. \A l \in v[2] : <<l[1], f[l[2]]>> \in ms
    BY <1>3
  <2>3. \A x, y : <<x, y>>[2] = y
    OBVIOUS
  <2> HIDE DEF ms
  <2> QED BY <2>1, <2>2, <2>3
<1>5. IsList(v) => Marshalled(f, v) = ListOf(ForEach(f, v[2]))
  BY DEF Marshalled, IsList, IsObject
<1>6. IsObject(v) => Marshalled(f, v) = IF \E m \in ms : m[2] = Error THEN Error ELSE Object(ms)
  <2> HIDE DEF ms
  <2>1. IsObject(v) =>
          Marshalled(f, v) = LET members == MembersOf(f, v[2]) IN
                             IF \E m \in members : m[2] = Error THEN Error ELSE Object(members)
    BY DEF Marshalled, IsList, IsObject
  <2> QED BY <2>1 DEF ms
<1>7. v[1] = "float" => Marshalled(f, v) = NumberOf(v[2])
  BY DEF Marshalled, IsList, IsObject
<1>8. v[1] = "nan" => Marshalled(f, v) = Error
  BY DEF Marshalled, IsList, IsObject
<1>9. v[1] \notin {"list", "object", "float", "nan"} => Marshalled(f, v) = v
  BY DEF Marshalled, IsList, IsObject
<1>10. ForEach(f, v[2]) = [i \in DOMAIN v[2] |-> f[v[2][i]]]
  BY DEF ForEach
<1>11. IsList(v) => f[v] = ListOf([i \in DOMAIN v[2] |-> f[v[2][i]]])
  BY <1>2, <1>5, <1>10 DEF f
<1> HIDE DEF ms
<1>12. IsObject(v) =>
         f[v] = IF \E m \in v[2] : f[m[2]] = Error THEN Error ELSE Object({<<m[1], f[m[2]]>> : m \in v[2]})
  BY <1>2, <1>3, <1>4, <1>6 DEF f
<1> QED BY <1>2, <1>7, <1>8, <1>9, <1>11, <1>12 DEF f

LEMMA ListOfItems ==
  ASSUME NEW items, ListOf(items) # Error
  PROVE  ListOf(items) = List(items) /\ \A i \in DOMAIN items : items[i] # Error
BY DEF ListOf

\* Of a list.
LEMMA JsonList ==
  ASSUME NEW v \in Carried, IsList(v), JsonOf[v] # Error
  PROVE  /\ JsonOf[v] = List([i \in DOMAIN v[2] |-> JsonOf[v[2][i]]])
         /\ \A i \in DOMAIN v[2] : JsonOf[v[2][i]] # Error
<1> DEFINE items == [i \in DOMAIN v[2] |-> JsonOf[v[2][i]]]
<1>1. JsonOf[v] = ListOf(items)
  BY JsonStep
<1>2. JsonOf[v] = List(items) /\ \A i \in DOMAIN items : items[i] # Error
  BY <1>1, ListOfItems
<1> QED BY <1>2

\* Of an object.
LEMMA JsonObject ==
  ASSUME NEW d \in 0..Depth, NEW v \in ValueTrees[d], IsObject(v), JsonOf[v] # Error
  PROVE  /\ IsObject(JsonOf[v]) /\ KeysOf(JsonOf[v][2]) = KeysOf(v[2])
         /\ \A key \in KeysOf(v[2]) :
              /\ At(JsonOf[v][2], key) = JsonOf[At(v[2], key)]
              /\ JsonOf[At(v[2], key)] # Error
<1> DEFINE members == v[2]
           written == {<<m[1], JsonOf[m[2]]>> : m \in members}
<1>1. v \in Carried /\ ~IsList(v) /\ members \in MemberSets(Within(d))
  BY ValueOK
<1>2. JsonOf[v] = Object(written) /\ \A m \in members : JsonOf[m[2]] # Error
  BY <1>1, JsonStep
<1>3. IsObject(JsonOf[v]) /\ JsonOf[v][2] = written
  BY <1>2 DEF Object, IsObject
<1>4. \A m \in members : m = <<m[1], At(members, m[1])>> /\ m[1] \in KeysOf(members)
  BY <1>1, MembersOK
<1>5. \A key \in KeysOf(members) : <<key, At(members, key)>> \in members
  BY <1>1, MembersOK
<1>6. \A m \in members : m[2] = At(members, m[1])
  BY <1>4
<1> HIDE DEF members
<1>7. ASSUME NEW key \in KeysOf(members)
      PROVE  /\ key \in KeysOf(written) /\ At(written, key) = JsonOf[At(members, key)]
             /\ JsonOf[At(members, key)] # Error
  <2>1. <<key, At(members, key)>> \in members
    BY <1>5
  <2>2. <<key, JsonOf[At(members, key)]>> \in written /\ JsonOf[At(members, key)] # Error
    BY <1>2, <2>1
  <2>3. ASSUME NEW m \in written, m[1] = key PROVE m[2] = JsonOf[At(members, key)]
    <3>1. PICK l \in members : m = <<l[1], JsonOf[l[2]]>>
      OBVIOUS
    <3> QED BY <1>6, <2>3, <3>1
  <2>4. \E m \in written : m[1] = key
    BY <2>2
  <2> HIDE DEF written
  <2>5. At(written, key) = JsonOf[At(members, key)]
    BY <2>3, <2>4 DEF At
  <2> QED BY <2>2, <2>4, <2>5 DEF KeysOf
<1>8. KeysOf(written) \subseteq KeysOf(members)
  BY <1>4 DEF KeysOf
<1> QED BY <1>3, <1>7, <1>8 DEF members

\* Of anything else.
LEMMA JsonAtom ==
  ASSUME NEW d \in 0..Depth, NEW v \in ValueTrees[d], ~IsList(v), ~IsObject(v), JsonOf[v] # Error
  PROVE  /\ v \in Atoms /\ JsonOf[v] \in Atoms
         /\ ~IsList(JsonOf[v]) /\ ~IsObject(JsonOf[v])
         /\ JsonOf[v] = Null <=> v = Null
<1>1. v \in Atoms /\ v \in Carried
  BY ValueOK
<1>2. CASE v[1] = "float"
  <2>1. v \in {"int", "float"} \X Int
    BY <1>1, <1>2 DEF Atoms, Null, NaN, Error
  <2>2. v[2] \in Int /\ v[2] \div 2 \in Int
    BY <2>1
  <2>3. NumberOf(v[2]) \in {"int", "float"} \X Int
    BY <2>2 DEF NumberOf, Num, Float
  <2>4. JsonOf[v] = NumberOf(v[2])
    BY <1>1, <1>2, JsonStep
  <2>5. \A w \in {"int", "float"} \X Int : w # Null /\ ~IsList(w) /\ ~IsObject(w) /\ w \in Atoms
    BY DEF Atoms, Null, IsList, IsObject
  <2> QED BY <1>1, <2>1, <2>3, <2>4, <2>5
<1>3. CASE v[1] # "float"
  <2>1. JsonOf[v] = v \/ JsonOf[v] = Error
    BY <1>1, <1>3, JsonStep DEF IsList, IsObject
  <2> QED BY <1>1, <2>1
<1> QED BY <1>2, <1>3

\* JSON of a value nests no deeper.
LEMMA JsonOK ==
  \A d \in 0..Depth : \A v \in ValueTrees[d] : JsonOf[v] \in ValueTrees[d]
<1> DEFINE H(d) == \A v \in ValueTrees[d] : JsonOf[v] \in ValueTrees[d]
           S == {d \in Nat : d \in 0..Depth => H(d)}
<1>1. ASSUME NEW d \in 0..Depth, d # 0 => H(d - 1) PROVE H(d)
  <2>1. \A v \in Within(d) : JsonOf[v] \in Within(d)
    <3>1. CASE d = 0
      BY <3>1 DEF Within, Inner
    <3>2. CASE d # 0
      BY <1>1, <3>2, WithinOK
    <3> QED BY <3>1, <3>2
  <2>2. ValueTrees[d] = ValueSet(Within(d))
    BY ValueTreesAre
  <2>3. Error \in ValueTrees[d] /\ Atoms \subseteq ValueTrees[d]
    BY <2>2 DEF ValueSet, Atoms
  <2> SUFFICES ASSUME NEW v \in ValueTrees[d], JsonOf[v] # Error
               PROVE  JsonOf[v] \in ValueTrees[d]
    BY <2>3
  <2>4. CASE IsList(v)
    <3> DEFINE items == [i \in DOMAIN v[2] |-> JsonOf[v[2][i]]]
    <3>1. v \in Carried /\ v[2] \in Seq(Within(d))
      BY <2>4, ValueOK
    <3>2. DOMAIN v[2] = 1..Len(v[2]) /\ Len(v[2]) \in Nat /\ \A i \in DOMAIN v[2] : v[2][i] \in Within(d)
      BY <3>1, ElementOfSeq, LenProperties
    <3>3. items \in Seq(Within(d))
      <4>1. items \in [1..Len(v[2]) -> Within(d)]
        BY <2>1, <3>2
      <4> HIDE DEF items
      <4> QED BY <3>2, <4>1, SeqDef
    <3>4. JsonOf[v] = List(items)
      BY <2>4, <3>1, JsonList
    <3> HIDE DEF items
    <3>5. JsonOf[v] \in {"list"} \X Seq(Within(d))
      BY <3>3, <3>4 DEF List
    <3> QED BY <2>2, <3>5 DEF ValueSet
  <2>5. CASE IsObject(v)
    <3> DEFINE written == {<<m[1], JsonOf[m[2]]>> : m \in v[2]}
    <3>1. v \in Carried /\ v[2] \in MemberSets(Within(d))
      BY <2>5, ValueOK
    <3>2. JsonOf[v] = Object(written)
      BY <2>5, <3>1, JsonStep
    <3>3. v[2] \subseteq Names \X Within(d) /\ \A m, l \in v[2] : m[1] = l[1] => m = l
      BY <3>1 DEF MemberSets, Names
    <3>4. \A m \in v[2] : m[1] \in Names /\ m[2] \in Within(d)
      BY <3>3
    <3>5. written \subseteq Names \X Within(d)
      BY <2>1, <3>4
    <3>6. ASSUME NEW m \in written, NEW l \in written, m[1] = l[1] PROVE m = l
      <4>1. PICK k \in v[2] : m = <<k[1], JsonOf[k[2]]>>
        OBVIOUS
      <4>2. PICK h \in v[2] : l = <<h[1], JsonOf[h[2]]>>
        OBVIOUS
      <4>3. k = h
        BY <3>3, <3>6, <4>1, <4>2
      <4> QED BY <4>1, <4>2, <4>3
    <3> HIDE DEF written
    <3>7. written \in MemberSets(Within(d))
      BY <3>5, <3>6 DEF MemberSets, Names
    <3>8. JsonOf[v] \in {"object"} \X MemberSets(Within(d))
      BY <3>2, <3>7 DEF Object
    <3> QED BY <2>2, <3>8 DEF ValueSet
  <2>6. CASE ~IsList(v) /\ ~IsObject(v)
    BY <2>3, <2>6, JsonAtom
  <2> QED BY <2>4, <2>5, <2>6
<1>2. 0 \in S
  <2>1. 0 \in 0..Depth => H(0)
    <3> SUFFICES ASSUME 0 \in 0..Depth PROVE H(0)
      OBVIOUS
    <3> HIDE DEF H
    <3> QED BY <1>1
  <2> QED BY <2>1
<1>3. ASSUME NEW d \in Nat, d \in S PROVE d + 1 \in S
  <2> HIDE DEF H
  <2>1. d + 1 \in Nat /\ (d + 1) - 1 = d /\ d + 1 # 0
    OBVIOUS
  <2>2. d + 1 \in 0..Depth => d \in 0..Depth
    BY DepthAssumption DEF DepthAssumption
  <2>3. d + 1 \in 0..Depth => H(d + 1)
    BY <1>1, <1>3, <2>1, <2>2
  <2> QED BY <2>1, <2>3
<1>4. Nat \subseteq S
  <2> HIDE DEF S
  <2> QED BY <1>2, <1>3, Induction
<1>5. 0..Depth \subseteq Nat
  BY DepthAssumption DEF DepthAssumption
<1> QED BY <1>4, <1>5

(* What JSON says already, as what has been parsed from it does. *)

Parsed(v) == v \in Carried /\ JsonOf[v] = v

LEMMA ParsedList ==
  ASSUME NEW v, Parsed(v), IsList(v)
  PROVE  /\ v = List(v[2]) /\ v[2] \in Seq(Carried)
         /\ \A i \in DOMAIN v[2] : Parsed(v[2][i])
<1>1. Depth \in 0..Depth /\ v \in ValueTrees[Depth]
  BY DepthAssumption DEF DepthAssumption, Parsed, Carried
<1>2. v[2] \in Seq(Within(Depth)) /\ v = List(v[2]) /\ Within(Depth) \subseteq Carried
  BY <1>1, ValueOK, WithinOK
<1>3. v[2] \in Seq(Carried)
  BY <1>2, SeqMonotonic
<1>4. JsonOf[v] # Error
  BY DEF Parsed, IsList, Error
<1>5. v = List([i \in DOMAIN v[2] |-> JsonOf[v[2][i]]])
  BY <1>4, JsonList DEF Parsed
<1>6. v[2] = [i \in DOMAIN v[2] |-> JsonOf[v[2][i]]]
  BY <1>5 DEF List
<1>7. ASSUME NEW i \in DOMAIN v[2] PROVE Parsed(v[2][i])
  <2>1. v[2][i] \in Carried
    BY <1>3, ElementOfSeq, LenProperties
  <2>2. v[2][i] = JsonOf[v[2][i]]
    BY <1>6
  <2> QED BY <2>1, <2>2 DEF Parsed
<1> QED BY <1>2, <1>3, <1>7

LEMMA ParsedObject ==
  ASSUME NEW v, Parsed(v), IsObject(v)
  PROVE  /\ v = Object(v[2])
         /\ \A key \in KeysOf(v[2]) : Parsed(At(v[2], key))
<1>1. Depth \in 0..Depth /\ v \in ValueTrees[Depth]
  BY DepthAssumption DEF DepthAssumption, Parsed, Carried
<1>2. v[2] \in MemberSets(Within(Depth)) /\ v = Object(v[2]) /\ Within(Depth) \subseteq Carried
  BY <1>1, ValueOK, WithinOK
<1>3. JsonOf[v] # Error
  BY DEF Parsed, IsObject, Error
<1>4. \A key \in KeysOf(v[2]) : At(v[2], key) = JsonOf[At(v[2], key)]
  BY <1>1, <1>3, JsonObject DEF Parsed
<1>5. \A key \in KeysOf(v[2]) : At(v[2], key) \in Carried
  BY <1>2, MembersOK
<1> QED BY <1>2, <1>4, <1>5 DEF Parsed
-----------------------------------------------------------------------------
(* Scalars. *)

Prim(t) == IF t.kind = "primitive" \/ t.primitive = "" THEN t.name ELSE t.primitive

LEMMA ScalarCases ==
  ASSUME NEW v, NEW t
  PROVE  /\ Prim(t) = "int" => BindScalar(v, t) = ToInt(v)
         /\ Prim(t) = "double" => BindScalar(v, t) = ToFloat(v)
         /\ Prim(t) = "boolean" => BindScalar(v, t) = ToBool(v)
         /\ Prim(t) \notin {"int", "double", "boolean"} => BindScalar(v, t) = ToText(v)
<1> DEFINE prim == Prim(t)
<1>1. BindScalar(v, t) = CASE prim = "int"     -> ToInt(v)
                           [] prim = "double"  -> ToFloat(v)
                           [] prim = "boolean" -> ToBool(v)
                           [] OTHER            -> ToText(v)
  BY DEF BindScalar, Prim
<1> HIDE DEF prim
<1> QED BY <1>1 DEF prim

LEMMA ConvertedKinds ==
  ASSUME NEW v
  PROVE  /\ ToInt(v) = Error \/ ToInt(v)[1] = "int"
         /\ ToFloat(v) = Error \/ ToFloat(v)[1] \in {"float", "nan"}
         /\ ToBool(v) = Error \/ ToBool(v)[1] = "bool"
         /\ ToText(v)[1] = "text"
<1>1. ToInt(v) = Error \/ ToInt(v)[1] = "int"
  BY DEF ToInt, Num
<1>2. ToFloat(v) = Error \/ ToFloat(v)[1] \in {"float", "nan"}
  BY DEF ToFloat, Float, NaN
<1>3. ToBool(v) = Error \/ ToBool(v)[1] = "bool"
  BY DEF ToBool, Bool
<1>4. ToText(v)[1] = "text"
  BY DEF ToText, Text
<1> QED BY <1>1, <1>2, <1>3, <1>4

LEMMA ConvertedAgain ==
  ASSUME NEW v
  PROVE  /\ v[1] = "int" => ToInt(v) = v /\ ToFloat(v) = Float(2 * v[2])
         /\ v[1] = "float" => ToFloat(v) = v
         /\ v[1] = "bool" => ToBool(v) = v
         /\ v[1] = "text" => ToText(v) = v
BY DEF ToInt, ToFloat, ToBool, ToText

\* A scalar that is written as JSON is bound to itself again.
LEMMA ScalarKept ==
  ASSUME NEW v, NEW t, NEW w \in Carried, w = BindScalar(v, t), w # Error, JsonOf[w] # Error
  PROVE  /\ BindScalar(JsonOf[w], t) = w
         /\ w # Null /\ ~IsList(w) /\ ~IsObject(w)
         /\ JsonOf[w] # Null /\ ~IsList(JsonOf[w]) /\ ~IsObject(JsonOf[w])
<1>1. Depth \in 0..Depth /\ w \in ValueTrees[Depth]
  BY DepthAssumption DEF DepthAssumption, Carried
<1>2. /\ Prim(t) = "int" => w = ToInt(v) /\ w[1] = "int"
      /\ Prim(t) = "double" => w = ToFloat(v) /\ w[1] \in {"float", "nan"}
      /\ Prim(t) = "boolean" => w = ToBool(v) /\ w[1] = "bool"
      /\ Prim(t) \notin {"int", "double", "boolean"} => w = ToText(v) /\ w[1] = "text"
  BY ScalarCases, ConvertedKinds
<1>3. w[1] \in {"int", "float", "bool", "text"}
  BY <1>2, JsonStep
<1>4. w # Null /\ ~IsList(w) /\ ~IsObject(w)
  BY <1>3 DEF Null, IsList, IsObject
<1>5. JsonOf[w] # Null /\ ~IsList(JsonOf[w]) /\ ~IsObject(JsonOf[w])
  BY <1>1, <1>4, JsonAtom
<1>6. BindScalar(JsonOf[w], t) = w
  <2>1. CASE w[1] = "float"
    <3>1. w \in Atoms
      BY <1>1, <1>4, ValueOK
    <3>2. w \in {"int", "float"} \X Int
      BY <2>1, <3>1 DEF Atoms, Null, NaN, Error
    <3>3. w[2] \in Int /\ w = Float(w[2])
      BY <2>1, <3>2 DEF Float
    <3>4. JsonOf[w] = NumberOf(w[2])
      BY <2>1, JsonStep
    <3>5. Prim(t) = "double"
      BY <1>2, <2>1
    <3>6. CASE w[2] % 2 = 0
      <4>1. JsonOf[w] = Num(w[2] \div 2) /\ 2 * (w[2] \div 2) = w[2]
        BY <3>3, <3>4, <3>6 DEF NumberOf
      <4>2. JsonOf[w][1] = "int" /\ JsonOf[w][2] = w[2] \div 2
        BY <4>1 DEF Num
      <4>3. ToFloat(JsonOf[w]) = Float(w[2])
        BY <4>1, <4>2, ConvertedAgain
      <4> QED BY <3>3, <3>5, <4>3, ScalarCases
    <3>7. CASE w[2] % 2 # 0
      <4>1. JsonOf[w] = w
        BY <3>3, <3>4, <3>7 DEF NumberOf
      <4> QED BY <2>1, <3>5, <4>1, ScalarCases, ConvertedAgain
    <3> QED BY <3>6, <3>7
  <2>2. CASE w[1] # "float"
    <3>1. JsonOf[w] = w
      BY <1>3, <2>2, JsonStep
    <3> QED BY <1>2, <1>3, <2>2, <3>1, ScalarCases, ConvertedAgain
  <2> QED BY <2>1, <2>2
<1> QED BY <1>4, <1>5, <1>6
-----------------------------------------------------------------------------
(* Types and fields. *)

LEMMA LocalNameOK ==
  ASSUME NEW name
  PROVE  LocalName(LocalName(name)) = LocalName(name)
<1>1. CASE name \in DOMAIN LocalNames
  <2> DEFINE Is(n) == \E p \in NamePrefixes : name = p \o n
             local == CHOOSE n \in TypeNames : Is(n)
             D == {p \o n : p \in NamePrefixes, n \in TypeNames}
             Of(q) == CHOOSE n \in TypeNames : \E p \in NamePrefixes : q = p \o n
  <2>0. LocalNames = [q \in D |-> Of(q)]
    BY DEF LocalNames
  <2>1. Of(name) = local
    OBVIOUS
  <2>2. name \in D => \E n \in TypeNames : Is(n)
    OBVIOUS
  <2> HIDE DEF D, Of
  <2> HIDE DEF Is
  <2>3. local \in TypeNames
    BY <1>1, <2>0, <2>2
  <2>4. LocalNames[name] \notin DOMAIN LocalNames
    BY <1>1, <2>0, <2>1, <2>3, NamesAssumption DEF NamesAssumption
  <2> QED BY <1>1, <2>4 DEF LocalName
<1>2. CASE name \notin DOMAIN LocalNames
  BY <1>2 DEF LocalName
<1> QED BY <1>1, <1>2

\* A type has its own name.
LEMMA LookupName ==
  ASSUME SchemaTypeOK, NEW name, Lookup(sch, name) # NoType
  PROVE  /\ Lookup(sch, name).name = LocalName(name)
         /\ Lookup(sch, LocalName(name)) = Lookup(sch, name)
         /\ LocalName(name) \in Names
<1> DEFINE local == LocalName(name)
<1>1. LocalName(local) = local
  BY LocalNameOK
<1>2. CASE local \in DOMAIN sch.types \ {NoName}
  <2>1. sch.types[local].name = local /\ sch.types[local] \in TypeSet
    BY <1>2 DEF SchemaTypeOK
  <2>2. sch.types[local].name \in Names
    BY <2>1 DEF TypeSet, Names
  <2>3. Lookup(sch, name) = sch.types[local] /\ Lookup(sch, local) = sch.types[local]
    BY <1>1, <1>2 DEF Lookup, NoName
  <2> QED BY <2>1, <2>2, <2>3
<1>3. CASE local \notin DOMAIN sch.types \ {NoName}
  <2>1. local \in Builtins
    BY <1>3 DEF Lookup, NoName
  <2>2. Lookup(sch, name) = Type(local, "primitive", local) /\ Lookup(sch, local) = Lookup(sch, name)
    BY <1>1, <1>3, <2>1 DEF Lookup, NoName
  <2>3. Type(local, "primitive", local).name = local
    BY DEF Type
  <2>4. Builtins \subseteq Names
    BY NamesAssumption DEF NamesAssumption, TypeNames, Names
  <2> QED BY <2>1, <2>2, <2>3, <2>4
<1> QED BY <1>2, <1>3

\* A scalar takes the place of no other type than itself.
LEMMA ScalarStays ==
  ASSUME SchemaTypeOK, Unambiguous, NEW type, NEW name,
         Scalar(Substitute(sch, Lookup(sch, type), name)),
         Substitute(sch, Lookup(sch, type), name) # NoType
  PROVE  Substitute(sch, Lookup(sch, type), name) = Lookup(sch, type)
<1> DEFINE declared == Lookup(sch, type)
           actual == Lookup(sch, name)
           q == <<LocalName(actual.name), {}>>
<1>1. /\ declared # NoType /\ actual # NoType /\ DerivedFrom(sch, actual.name, declared.name)
      /\ Substitute(sch, declared, name) = actual
  BY DEF Substitute
<1>2. /\ actual.name = LocalName(name) /\ declared.name = LocalName(type)
      /\ LocalName(actual.name) = actual.name /\ LocalName(declared.name) = declared.name
      /\ Lookup(sch, actual.name) = actual /\ Lookup(sch, declared.name) = declared
      /\ actual.name \in Names
  BY <1>1, LookupName, LocalNameOK
<1>3. actual.base = NoName
  <2>1. CASE LocalName(name) \in DOMAIN sch.types \ {NoName}
    <3>1. actual = sch.types[LocalName(name)]
      BY <2>1 DEF Lookup, NoName
    <3> QED BY <1>1, <2>1, <3>1 DEF Unambiguous, NoName
  <2>2. CASE LocalName(name) \notin DOMAIN sch.types \ {NoName}
    BY <1>1, <2>2 DEF Lookup, Type, NoName
  <2> QED BY <2>1, <2>2
<1>4. q \in Walks /\ q[1] = actual.name
  BY <1>2 DEF Walks, Names
<1>5. Climbs(sch, LocalName(declared.name))[q]
  BY <1>1 DEF DerivedFrom
<1>6. actual.name = declared.name
  <2> DEFINE base == LocalName(declared.name)
  <2>1. Lookup(sch, q[1]).base = NoName
    BY <1>2, <1>3, <1>4
  <2> HIDE DEF q, base
  <2>2. \/ q[1] = base
        \/ Lookup(sch, q[1]).base # NoName
    BY <1>4, <1>5, ClimbStep DEF base
  <2> QED BY <1>2, <1>4, <2>1, <2>2 DEF base
<1> QED BY <1>1, <1>2, <1>6
-----------------------------------------------------------------------------
(* One step of decoding, in either format. *)

FromJSON == BindJSON(sch)
FromXML  == BindXMLNode(sch)

LEMMA BindSteps ==
  /\ \A src \in Carried : \A e \in Declared :
       FromJSON[<<src, e>>] = BindJSONOne(sch, FromJSON, src, e)
  /\ \A n \in Written : \A e \in Declared :
       FromXML[<<n, e>>] = BindXMLOne(sch, FromXML, n, e)
<1>1. FromJSON = [q \in Sources |-> BindJSONOne(sch, FromJSON, q[1], q[2])]
  BY DEF FromJSON, BindJSON
<1>2. FromXML = [q \in Elements |-> BindXMLOne(sch, FromXML, q[1], q[2])]
  BY DEF FromXML, BindXMLNode
<1> HIDE DEF FromJSON, FromXML
<1>3. ASSUME NEW src \in Carried, NEW e \in Declared
      PROVE  FromJSON[<<src, e>>] = BindJSONOne(sch, FromJSON, src, e)
  <2>1. <<src, e>> \in Sources /\ <<src, e>>[1] = src /\ <<src, e>>[2] = e
    BY DEF Sources
  <2> QED BY <1>1, <2>1
<1>4. ASSUME NEW n \in Written, NEW e \in Declared
      PROVE  FromXML[<<n, e>>] = BindXMLOne(sch, FromXML, n, e)
  <2>1. <<n, e>> \in Elements /\ <<n, e>>[1] = n /\ <<n, e>>[2] = e
    BY DEF Elements
  <2> QED BY <1>2, <2>1
<1> QED BY <1>3, <1>4

\* The loop of ChildrenByName ends, and finds elements of the sequence only.
IsFound(f, kids, name) ==
  f = [k \in 0..Len(kids) |->
         IF k = 0 THEN <<>>
         ELSE IF kids[k].name = name THEN Append(f[k - 1], kids[k])
         ELSE f[k - 1]]

LEMMA FoundExists ==
  ASSUME NEW T, NEW kids \in Seq(T), NEW name
  PROVE  \E f \in [0..Len(kids) -> Seq(T)] : IsFound(f, kids, name)
<1> DEFINE D == 0..Len(kids)
           V == Seq(T)
           final == [k \in D |-> <<>>]
           next == [k \in D |-> IF k = 0 THEN 0 ELSE k - 1]
           More(k, s) == IF kids[k].name = name THEN Append(s, kids[k]) ELSE s
           g == [q \in D \X V |-> IF q[1] = 0 THEN q[2] ELSE More(q[1], q[2])]
           rank == [k \in D |-> k]
<1>1. Len(kids) \in Nat /\ \A k \in D : k # 0 => kids[k] \in T
  BY LenProperties, ElementOfSeq
<1>2. /\ next \in [D -> D] /\ final \in [D -> V] /\ rank \in [D -> Nat]
      /\ \A k \in D \ {0} : rank[next[k]] < rank[k] /\ next[k] = k - 1 /\ k - 1 \in D
  BY <1>1, EmptySeq
<1>3. \A k \in D, s \in V : k # 0 => More(k, s) \in V
  BY <1>1, AppendProperties
<1>4. /\ \A k \in D : final[k] = <<>>
      /\ \A k \in D, s \in V : k # 0 => g[<<k, s>>] = More(k, s)
  OBVIOUS
<1>5. g \in [D \X V -> V]
  <2> HIDE DEF D, V, More
  <2>1. \A q \in D \X V : q[1] \in D /\ q[2] \in V
    OBVIOUS
  <2> QED BY <1>3, <2>1
<1> HIDE DEF D, V, final, next, g, rank, More
<1>6. Descends(D, V, final, {0}, next, g, rank)
  BY <1>2, <1>5 DEF Descends
<1>7. PICK f \in [D -> V] :
        \A k \in D : f[k] = IF k \in {0} THEN final[k] ELSE g[<<k, f[next[k]]>>]
  BY <1>6, Recursion
<1>8. \A k \in D : f[k] = IF k = 0 THEN <<>> ELSE More(k, f[k - 1])
  <2> TAKE k \in D
  <2>1. k = 0 => f[k] = <<>>
    BY <1>4, <1>7
  <2>2. ASSUME k # 0 PROVE f[k] = More(k, f[k - 1])
    <3>1. f[k] = g[<<k, f[next[k]]>>] /\ next[k] = k - 1 /\ f[k - 1] \in V
      BY <1>2, <1>7, <2>2
    <3> QED BY <1>4, <2>2, <3>1
  <2> QED BY <2>1, <2>2
<1> QED BY <1>7, <1>8 DEF D, V, More, IsFound

\* The children that an element is decoded from can be decoded themselves.
LEMMA ChildrenOK ==
  ASSUME NEW n \in Written, NEW name
  PROVE  ChildrenByName(n, name) \in Seq(Written)
<1>1. n.kids \in Seq(Written)
  BY KidsOK, DepthsOK DEF Written, Forests
<1> DEFINE found == CHOOSE f : IsFound(f, n.kids, name)
<1>2. ChildrenByName(n, name) = found[Len(n.kids)]
  BY DEF ChildrenByName, IsFound
<1>3. \E f : IsFound(f, n.kids, name)
  BY <1>1, FoundExists
<1>4. Len(n.kids) \in Nat /\ \A k \in 1..Len(n.kids) : n.kids[k] \in Written
  BY <1>1, LenProperties, ElementOfSeq
<1>5. IsFound(found, n.kids, name)
  BY <1>3
<1> HIDE DEF found
<1> DEFINE len == Len(n.kids)
           S == {k \in Nat : k <= len => found[k] \in Seq(Written)}
<1>6. 0 \in S
  BY <1>4, <1>5, EmptySeq DEF IsFound
<1>7. ASSUME NEW k \in Nat, k \in S PROVE k + 1 \in S
  <2> SUFFICES ASSUME k + 1 <= len PROVE found[k + 1] \in Seq(Written)
    OBVIOUS
  <2>1. k + 1 \in 0..len /\ k + 1 # 0 /\ (k + 1) - 1 = k /\ k + 1 \in 1..len /\ k <= len
    BY <1>4
  <2>2. found[k + 1] = IF n.kids[k + 1].name = name THEN Append(found[k], n.kids[k + 1]) ELSE found[k]
    BY <1>5, <2>1 DEF IsFound
  <2>3. found[k] \in Seq(Written) /\ n.kids[k + 1] \in Written
    BY <1>4, <1>7, <2>1
  <2> QED BY <2>2, <2>3, AppendProperties
<1> HIDE DEF S
<1>8. Nat \subseteq S
  BY <1>6, <1>7, Induction
<1> QED BY <1>2, <1>4, <1>8 DEF S

LEMMA FieldTreesAre ==
  \A d \in Nat : FieldTrees[d] = FieldSet(Options(FieldTrees, d))
<1>1. FieldTrees = [d \in Nat |-> FieldSet(Options(FieldTrees, d))]
  BY DEF FieldTrees
<1> QED BY <1>1

\* What may be the options of a field may be those of one that nests deeper.
LEMMA FieldTreesGrow ==
  \A d \in Nat : FieldTrees[d] \subseteq FieldTrees[d + 1]
<1> DEFINE S == {d \in Nat : Options(FieldTrees, d) \subseteq Options(FieldTrees, d + 1)}
<1>1. 0 \in S
  BY EmptySeq DEF Options
<1>2. ASSUME NEW d \in Nat, Options(FieldTrees, d) \subseteq Options(FieldTrees, d + 1)
      PROVE  FieldTrees[d] \subseteq FieldTrees[d + 1]
  <2>1. /\ FieldTrees[d] = FieldSet(Options(FieldTrees, d))
        /\ FieldTrees[d + 1] = FieldSet(Options(FieldTrees, d + 1))
    BY FieldTreesAre
  <2> QED BY <1>2, <2>1 DEF FieldSet
<1>3. ASSUME NEW d \in Nat, d \in S PROVE d + 1 \in S
  <2>1. FieldTrees[d] \subseteq FieldTrees[d + 1]
    BY <1>2, <1>3
  <2>2. /\ Options(FieldTrees, d + 1) = Seq(FieldTrees[d])
        /\ Options(FieldTrees, (d + 1) + 1) = Seq(FieldTrees[d + 1])
    <3>1. d + 1 \in Nat /\ d + 1 # 0 /\ (d + 1) - 1 = d
          /\ (d + 1) + 1 # 0 /\ ((d + 1) + 1) - 1 = d + 1
      OBVIOUS
    <3> QED BY <3>1 DEF Options
  <2>3. Seq(FieldTrees[d]) \subseteq Seq(FieldTrees[d + 1])
    BY <2>1, SeqMonotonic
  <2> QED BY <2>2, <2>3
<1> HIDE DEF S
<1>4. Nat \subseteq S
  BY <1>1, <1>3, Induction
<1> QED BY <1>2, <1>4 DEF S

\* The options of a choice are fields themselves.
LEMMA OptionsOK ==
  ASSUME NEW e \in Declared
  PROVE  /\ e.name \in Names /\ e.min \in Int
         /\ Len(e.choice) \in Nat /\ DOMAIN e.choice = 1..Len(e.choice)
         /\ \A i \in DOMAIN e.choice : e.choice[i] \in Declared /\ e.choice[i].name \in Names
<1>1. Declared = FieldSet(Options(FieldTrees, Nesting))
  BY FieldTreesAre, NestingAssumption DEF Declared
<1>2. /\ e.name \in Names /\ e.min \in Int /\ e.choice \in Options(FieldTrees, Nesting)
      /\ \A f \in Declared : f.name \in Names
  BY <1>1 DEF FieldSet, Names
<1>3. CASE Nesting = 0
  <2>1. e.choice = <<>>
    BY <1>2, <1>3 DEF Options
  <2>2. e.choice \in Seq(Declared)
    BY <2>1, EmptySeq
  <2> QED BY <1>2, <2>2, ElementOfSeq, LenProperties
<1>4. CASE Nesting # 0
  <2>1. Nesting - 1 \in Nat /\ (Nesting - 1) + 1 = Nesting
    BY <1>4, NestingAssumption
  <2>2. e.choice \in Seq(FieldTrees[Nesting - 1]) /\ FieldTrees[Nesting - 1] \subseteq Declared
    BY <1>2, <1>4, <2>1, FieldTreesGrow DEF Options, Declared
  <2> QED BY <1>2, <2>2, ElementOfSeq, LenProperties
<1> QED BY <1>3, <1>4

LEMMA LeastIndex ==
  ASSUME NEW n \in Nat, NEW S \in SUBSET (1..n), S # {}
  PROVE  Min(S) \in S /\ \A k \in S : Min(S) <= k
<1>1. \E k \in S : \A m \in S : k <= m
  <2>1. S \in SUBSET Nat
    OBVIOUS
  <2> QED BY <2>1, LeastElement
<1> QED BY <1>1 DEF Min

LEMMA RootOK ==
  ASSUME SchemaTypeOK, sch # NoSchema
  PROVE  RootField(sch) \in Declared
<1> DEFINE named == {i \in DOMAIN sch.elems : sch.elems[i].name = sch.root \/ sch.root = NoName}
<1>1. sch.elems \in FieldSeqs /\ sch.elems # <<>>
  BY DEF SchemaTypeOK, FieldSeqs
<1>2. /\ Len(sch.elems) \in Nat /\ DOMAIN sch.elems = 1..Len(sch.elems) /\ 1 \in DOMAIN sch.elems
      /\ \A i \in DOMAIN sch.elems : sch.elems[i] \in Declared
  BY <1>1, EmptySeq, LenProperties, ElementOfSeq DEF FieldSeqs
<1>3. named # {} => Min(named) \in named
  BY <1>2, LeastIndex
<1>4. RootField(sch) = sch.elems[IF named = {} THEN 1 ELSE Min(named)]
  BY DEF RootField, NoName
<1> QED BY <1>2, <1>3, <1>4

LEMMA EffectiveOK ==
  ASSUME SchemaTypeOK, NEW name
  PROVE  Effective(sch, Lookup(sch, name)) \in Outcomes
<1> DEFINE q == <<Lookup(sch, name).base, {}>>
<1>1. q \in Walks
  <2>1. Lookup(sch, name).base \in Names
    BY LookupOK, BasesOK, StringsOK DEF Names, Str, NoName, NoText
  <2> QED BY <2>1 DEF Walks, Names
<1> QED BY <1>1, InheritStep, ExtendedOK DEF Effective
-----------------------------------------------------------------------------
(* An object, from its parts: that of its type, those of its attributes and   *)
(* those of its elements.                                                     *)

LEMMA MemberOK ==
  /\ Absent # Error /\ KeysOf(Absent[2]) = {}
  /\ \A key, v : Member(key, v) # Error =>
       /\ v # Error /\ KeysOf(Member(key, v)[2]) = {key} /\ At(Member(key, v)[2], key) = v
       /\ Member(key, v) # Absent
<1>1. Absent # Error /\ KeysOf(Absent[2]) = {}
  BY DEF Absent, Object, Error, KeysOf
<1>2. ASSUME NEW key, NEW v, Member(key, v) # Error
      PROVE  /\ v # Error /\ KeysOf(Member(key, v)[2]) = {key} /\ At(Member(key, v)[2], key) = v
             /\ Member(key, v) # Absent
  <2> DEFINE members == {<<key, v>>}
  <2>1. v # Error /\ Member(key, v) = Object(members)
    BY <1>2 DEF Member
  <2>2. KeysOf(members) = {key}
    BY DEF KeysOf
  <2>3. At(members, key) = v
    <3>1. \A m \in members : m[1] = key /\ m[2] = v
      OBVIOUS
    <3>2. \E m \in members : m[1] = key
      BY <3>1
    <3> HIDE DEF members
    <3> QED BY <3>1, <3>2 DEF At
  <2>4. members # {} /\ \A m : Object(m)[2] = m
    BY DEF Object
  <2> HIDE DEF members
  <2> QED BY <2>1, <2>2, <2>3, <2>4 DEF Absent
<1> QED BY <1>1, <1>2

LEMMA GreatestIndex ==
  ASSUME NEW n \in Nat, NEW S \in SUBSET (1..n), S # {}
  PROVE  Max(S) \in S
<1>1. \E k \in S : \A m \in S : m <= k
  <2>1. S \in SUBSET (0..n)
    OBVIOUS
  <2> QED BY <2>1, GreatestElement
<1> QED BY <1>1 DEF Max

\* The keys are those of the parts; what only one part has is as it is there.
MadeOf(w, parts, n) ==
  /\ IsObject(w) /\ \A i \in 1..n : parts[i] # Error
  /\ \A key : key \in KeysOf(w[2]) <=> \E i \in 1..n : key \in KeysOf(parts[i][2])
  /\ \A i \in 1..n : \A key \in KeysOf(parts[i][2]) :
       (\A j \in 1..n : key \in KeysOf(parts[j][2]) => j = i) => At(w[2], key) = At(parts[i][2], key)

LEMMA ObjectOfParts ==
  ASSUME NEW n \in Nat, NEW parts, DOMAIN parts = 1..n, ObjectOf(parts) # Error
  PROVE  MadeOf(ObjectOf(parts), parts, n)
<1> DEFINE Has(i) == KeysOf(parts[i][2])
           keys == UNION {Has(i) : i \in DOMAIN parts}
           last(key) == Max({i \in DOMAIN parts : key \in Has(i)})
           Is(key) == At(parts[last(key)][2], key)
           members == {<<key, Is(key)>> : key \in keys}
<1>1. ObjectOf(parts) = Object(members) /\ \A i \in 1..n : parts[i] # Error
  BY DEF ObjectOf
<1>2. IsObject(ObjectOf(parts)) /\ ObjectOf(parts)[2] = members
  BY <1>1 DEF Object, IsObject
<1>3. \A key : key \in keys <=> \E i \in 1..n : key \in Has(i)
  OBVIOUS
<1>4. \A i \in 1..n : \A key \in Has(i) :
        (\A j \in 1..n : key \in Has(j) => j = i) => Is(key) = At(parts[i][2], key)
  <2> SUFFICES ASSUME NEW i \in 1..n, NEW key \in Has(i), \A j \in 1..n : key \in Has(j) => j = i
               PROVE  Is(key) = At(parts[i][2], key)
    OBVIOUS
  <2>1. {j \in DOMAIN parts : key \in Has(j)} = {i}
    OBVIOUS
  <2>2. Max({i}) = i
    <3>1. {i} \in SUBSET (1..n) /\ {i} # {}
      OBVIOUS
    <3> QED BY <3>1, GreatestIndex
  <2> QED BY <2>1, <2>2
<1> HIDE DEF keys, Is, Has
<1>5. KeysOf(members) = keys
  <2>1. \A m \in members : m[1] \in keys
    OBVIOUS
  <2>2. ASSUME NEW key \in keys PROVE \E m \in members : m[1] = key
    <3>1. <<key, Is(key)>> \in members
      OBVIOUS
    <3>2. <<key, Is(key)>>[1] = key
      OBVIOUS
    <3> HIDE DEF members
    <3> QED BY <3>1, <3>2, Zenon
  <2> HIDE DEF members
  <2> QED BY <2>1, <2>2 DEF KeysOf
<1>6. ASSUME NEW key \in keys PROVE At(members, key) = Is(key)
  <2>1. \A m \in members : m[1] = key => m[2] = Is(key)
    OBVIOUS
  <2>2. \E m \in members : m[1] = key
    <3>1. <<key, Is(key)>> \in members
      BY <1>6
    <3>2. <<key, Is(key)>>[1] = key
      OBVIOUS
    <3> HIDE DEF members
    <3> QED BY <3>1, <3>2, Zenon
  <2> HIDE DEF members
  <2> QED BY <2>1, <2>2 DEF At
<1> HIDE DEF members
<1>7. \A key : key \in KeysOf(ObjectOf(parts)[2]) <=> \E i \in 1..n : key \in Has(i)
  BY <1>2, <1>3, <1>5
<1>8. \A i \in 1..n : \A key \in Has(i) :
        (\A j \in 1..n : key \in Has(j) => j = i) => At(ObjectOf(parts)[2], key) = At(parts[i][2], key)
  BY <1>2, <1>3, <1>4, <1>6
<1> QED BY <1>1, <1>2, <1>7, <1>8 DEF Has, MadeOf

LEMMA Joins ==
  ASSUME NEW V, NEW s \in Seq(V), NEW t \in Seq(V)
  PROVE  /\ s \o t \in Seq(V) /\ Len(s \o t) = Len(s) + Len(t)
         /\ \A i \in 1..Len(s) : (s \o t)[i] = s[i]
         /\ \A i \in 1..Len(t) : (s \o t)[Len(s) + i] = t[i]
<1>1. Len(s) \in Nat /\ Len(t) \in Nat
  BY LenProperties
<1>2. ASSUME NEW i \in 1..Len(t) PROVE (s \o t)[Len(s) + i] = t[i]
  <2>1. Len(s) + i \in 1..(Len(s) + Len(t)) /\ ~ Len(s) + i <= Len(s) /\ (Len(s) + i) - Len(s) = i
    BY <1>1
  <2> QED BY <2>1, ConcatProperties
<1>3. \A i \in 1..Len(s) : i \in 1..(Len(s) + Len(t)) /\ i <= Len(s)
  BY <1>1
<1> QED BY <1>2, <1>3, ConcatProperties

Parts(T, A, E) == <<T>> \o A \o E

LaidOut(parts, T, A, m, E, n) ==
  /\ DOMAIN parts = 1..(1 + m + n)
  /\ parts[1] = T
  /\ \A i \in 1..m : parts[1 + i] = A[i]
  /\ \A i \in 1..n : parts[1 + m + i] = E[i]

LEMMA PartsOK ==
  ASSUME NEW V, NEW T \in V, NEW m \in Nat, NEW A \in [1..m -> V], NEW n \in Nat, NEW E \in [1..n -> V]
  PROVE  LaidOut(Parts(T, A, E), T, A, m, E, n)
<1> DEFINE TA == <<T>> \o A
           P == TA \o E
<1>1. <<T>> \in Seq(V) /\ Len(<<T>>) = 1 /\ <<T>>[1] = T
  OBVIOUS
<1>2. A \in Seq(V) /\ Len(A) = m /\ E \in Seq(V) /\ Len(E) = n
  <2>1. A \in Seq(V) /\ E \in Seq(V)
    BY SeqDef
  <2> QED BY <2>1, LenProperties
<1>3. TA \in Seq(V) /\ Len(TA) = 1 + m
  BY <1>1, <1>2, Joins
<1>4. /\ \A i \in 1..1 : TA[i] = <<T>>[i]
      /\ \A i \in 1..m : TA[1 + i] = A[i]
  BY <1>1, <1>2, Joins
<1> HIDE DEF TA
<1>5. /\ P \in Seq(V) /\ Len(P) = (1 + m) + n
      /\ \A i \in 1..(1 + m) : P[i] = TA[i]
      /\ \A i \in 1..n : P[(1 + m) + i] = E[i]
  <2>1. /\ P \in Seq(V) /\ Len(P) = Len(TA) + Len(E)
        /\ \A i \in 1..Len(TA) : P[i] = TA[i]
        /\ \A i \in 1..Len(E) : P[Len(TA) + i] = E[i]
    <3> DEFINE s == TA
               t == E
    <3>1. s \in Seq(V) /\ t \in Seq(V)
      BY <1>2, <1>3
    <3> HIDE DEF s, t
    <3>2. /\ s \o t \in Seq(V) /\ Len(s \o t) = Len(s) + Len(t)
          /\ \A i \in 1..Len(s) : (s \o t)[i] = s[i]
          /\ \A i \in 1..Len(t) : (s \o t)[Len(s) + i] = t[i]
      BY <3>1, Joins
    <3> QED BY <3>2 DEF s, t
  <2> HIDE DEF P
  <2> QED BY <1>2, <1>3, <2>1
<1>6. Parts(T, A, E) = P
  BY DEF Parts, TA
<1> HIDE DEF P
<1>7. DOMAIN P = 1..(1 + m + n)
  BY <1>5, LenProperties
<1>8. 1 \in 1..1 /\ 1 \in 1..(1 + m) /\ \A i \in 1..m : 1 + i \in 1..(1 + m)
  OBVIOUS
<1> QED BY <1>1, <1>5, <1>6, <1>7, <1>8, <1>4 DEF LaidOut
\* The same of the three kinds of parts.
MadeOfThree(w, T, A, m, E, n) ==
  /\ IsObject(w)
  /\ T # Error /\ (\A i \in 1..m : A[i] # Error) /\ \A i \in 1..n : E[i] # Error
  /\ \A key : key \in KeysOf(w[2]) <=>
       \/ key \in KeysOf(T[2])
       \/ \E i \in 1..m : key \in KeysOf(A[i][2])
       \/ \E i \in 1..n : key \in KeysOf(E[i][2])
  /\ \A key \in KeysOf(T[2]) :
       /\ \A i \in 1..m : key \notin KeysOf(A[i][2])
       /\ \A i \in 1..n : key \notin KeysOf(E[i][2])
       => At(w[2], key) = At(T[2], key)
  /\ \A i \in 1..m : \A key \in KeysOf(A[i][2]) :
       /\ key \notin KeysOf(T[2])
       /\ \A j \in 1..m : key \in KeysOf(A[j][2]) => j = i
       /\ \A j \in 1..n : key \notin KeysOf(E[j][2])
       => At(w[2], key) = At(A[i][2], key)
  /\ \A i \in 1..n : \A key \in KeysOf(E[i][2]) :
       /\ key \notin KeysOf(T[2])
       /\ \A j \in 1..m : key \notin KeysOf(A[j][2])
       /\ \A j \in 1..n : key \in KeysOf(E[j][2]) => j = i
       => At(w[2], key) = At(E[i][2], key)

LEMMA ObjectOfThree ==
  ASSUME NEW V, NEW T \in V, NEW m \in Nat, NEW A \in [1..m -> V], NEW n \in Nat, NEW E \in [1..n -> V],
         ObjectOf(Parts(T, A, E)) # Error
  PROVE  MadeOfThree(ObjectOf(Parts(T, A, E)), T, A, m, E, n)
<1> DEFINE parts == Parts(T, A, E)
           w == ObjectOf(parts)
           len == 1 + m + n
           Has(i) == KeysOf(parts[i][2])
<1>1. /\ DOMAIN parts = 1..len /\ parts[1] = T
      /\ \A i \in 1..m : parts[1 + i] = A[i]
      /\ \A i \in 1..n : parts[1 + m + i] = E[i]
  <2>1. LaidOut(parts, T, A, m, E, n)
    BY PartsOK
  <2> HIDE DEF parts
  <2> QED BY <2>1 DEF LaidOut
<1> HIDE DEF parts
<1>2. /\ len \in Nat /\ 1 \in 1..len
      /\ \A i \in 1..m : 1 + i \in 1..len
      /\ \A i \in 1..n : 1 + m + i \in 1..len
      /\ \A k \in 1..len : k = 1 \/ (\E i \in 1..m : k = 1 + i) \/ (\E i \in 1..n : k = 1 + m + i)
  <2>1. ASSUME NEW k \in 1..len
        PROVE  k = 1 \/ (\E i \in 1..m : k = 1 + i) \/ (\E i \in 1..n : k = 1 + m + i)
    <3>1. CASE k > 1 /\ k <= 1 + m
      <4>1. k - 1 \in 1..m /\ k = 1 + (k - 1)
        BY <3>1
      <4> QED BY <4>1
    <3>2. CASE k > 1 + m
      <4>1. k - (1 + m) \in 1..n /\ k = 1 + m + (k - (1 + m))
        BY <3>2
      <4> QED BY <4>1
    <3> QED BY <3>1, <3>2
  <2> QED BY <2>1
<1>3. MadeOf(w, parts, len)
  <2>1. len \in Nat /\ DOMAIN parts = 1..len /\ ObjectOf(parts) # Error
    BY <1>1, <1>2 DEF parts
  <2> QED BY <2>1, ObjectOfParts
<1> HIDE DEF w
<1>4. /\ IsObject(w) /\ \A i \in 1..len : parts[i] # Error
      /\ \A key : key \in KeysOf(w[2]) <=> \E i \in 1..len : key \in Has(i)
      /\ \A i \in 1..len : \A key \in Has(i) :
           (\A j \in 1..len : key \in Has(j) => j = i) => At(w[2], key) = At(parts[i][2], key)
  BY <1>3 DEF MadeOf
<1>5. /\ Has(1) = KeysOf(T[2])
      /\ \A i \in 1..m : Has(1 + i) = KeysOf(A[i][2])
      /\ \A i \in 1..n : Has(1 + m + i) = KeysOf(E[i][2])
  BY <1>1
<1> HIDE DEF Has
<1>6. T # Error /\ (\A i \in 1..m : A[i] # Error) /\ \A i \in 1..n : E[i] # Error
  BY <1>1, <1>2, <1>4
<1>7. ASSUME NEW key
      PROVE  key \in KeysOf(w[2]) <=>
               \/ key \in KeysOf(T[2])
               \/ \E i \in 1..m : key \in KeysOf(A[i][2])
               \/ \E i \in 1..n : key \in KeysOf(E[i][2])
  <2>1. key \in KeysOf(w[2]) <=> \E i \in 1..len : key \in Has(i)
    BY <1>4
  <2>2. ASSUME NEW i \in 1..len, key \in Has(i)
        PROVE  \/ key \in KeysOf(T[2])
               \/ \E j \in 1..m : key \in KeysOf(A[j][2])
               \/ \E j \in 1..n : key \in KeysOf(E[j][2])
    <3>1. CASE i = 1
      BY <1>5, <2>2, <3>1
    <3>2. CASE \E j \in 1..m : i = 1 + j
      BY <1>5, <2>2, <3>2
    <3>3. CASE \E j \in 1..n : i = 1 + m + j
      BY <1>5, <2>2, <3>3
    <3> QED BY <1>2, <3>1, <3>2, <3>3
  <2>3. key \in KeysOf(T[2]) => \E i \in 1..len : key \in Has(i)
    BY <1>2, <1>5
  <2>4. ASSUME NEW j \in 1..m, key \in KeysOf(A[j][2]) PROVE \E i \in 1..len : key \in Has(i)
    BY <1>2, <1>5, <2>4
  <2>5. ASSUME NEW j \in 1..n, key \in KeysOf(E[j][2]) PROVE \E i \in 1..len : key \in Has(i)
    BY <1>2, <1>5, <2>5
  <2> QED BY <2>1, <2>2, <2>3, <2>4, <2>5
<1>8. ASSUME NEW key \in KeysOf(T[2]),
             \A i \in 1..m : key \notin KeysOf(A[i][2]), \A i \in 1..n : key \notin KeysOf(E[i][2])
      PROVE  At(w[2], key) = At(T[2], key)
  <2>1. ASSUME NEW j \in 1..len, key \in Has(j) PROVE j = 1
    BY <1>2, <1>5, <1>8, <2>1
  <2>2. At(w[2], key) = At(parts[1][2], key)
    BY <1>2, <1>4, <1>5, <2>1
  <2> QED BY <1>1, <2>2
<1>9. ASSUME NEW i \in 1..m, NEW key \in KeysOf(A[i][2]), key \notin KeysOf(T[2]),
             \A j \in 1..m : key \in KeysOf(A[j][2]) => j = i, \A j \in 1..n : key \notin KeysOf(E[j][2])
      PROVE  At(w[2], key) = At(A[i][2], key)
  <2>1. key \in Has(1 + i)
    BY <1>5
  <2>3. ASSUME NEW j \in 1..len, key \in Has(j) PROVE j = 1 + i
    <3>1. j # 1
      BY <1>5, <1>9, <2>3
    <3>2. ASSUME NEW k \in 1..m, j = 1 + k PROVE k = i
      BY <1>5, <1>9, <2>3, <3>2
    <3>3. ASSUME NEW k \in 1..n, j = 1 + m + k PROVE FALSE
      BY <1>5, <1>9, <2>3, <3>3
    <3> QED BY <1>2, <3>1, <3>2, <3>3
  <2>2. At(w[2], key) = At(parts[1 + i][2], key)
    BY <1>2, <1>4, <2>1, <2>3
  <2> QED BY <1>1, <2>2
<1>10. ASSUME NEW i \in 1..n, NEW key \in KeysOf(E[i][2]), key \notin KeysOf(T[2]),
              \A j \in 1..m : key \notin KeysOf(A[j][2]), \A j \in 1..n : key \in KeysOf(E[j][2]) => j = i
       PROVE  At(w[2], key) = At(E[i][2], key)
  <2>1. key \in Has(1 + m + i)
    BY <1>5
  <2>3. ASSUME NEW j \in 1..len, key \in Has(j) PROVE j = 1 + m + i
    <3>1. j # 1
      BY <1>5, <1>10, <2>3
    <3>2. ASSUME NEW k \in 1..m, j = 1 + k PROVE FALSE
      BY <1>5, <1>10, <2>3, <3>2
    <3>3. ASSUME NEW k \in 1..n, j = 1 + m + k PROVE k = i
      BY <1>5, <1>10, <2>3, <3>3
    <3> QED BY <1>2, <3>1, <3>2, <3>3
  <2>2. At(w[2], key) = At(parts[1 + m + i][2], key)
    BY <1>2, <1>4, <2>1, <2>3
  <2> QED BY <1>1, <2>2
<1>11. ObjectOf(Parts(T, A, E)) = w
  BY DEF w, parts
<1> QED BY <1>4, <1>6, <1>7, <1>8, <1>9, <1>10, <1>11 DEF MadeOfThree
-----------------------------------------------------------------------------
(* What a value is made of that has been decoded, from either format. *)

FromItem(w, e) ==
  \/ \E src : Parsed(src) /\ w = BindJSONItem(FromJSON, src, e)
  \/ \E n \in Written : w = FromXML[<<n, e>>]

FromValue(v, e) ==
  \/ \E src : Parsed(src) /\ v = BindJSONValue(FromJSON, src, e)
  \/ \E nodes \in Seq(Written) : nodes # <<>> /\ v = BindXMLRepeats(FromXML, nodes, e)

\* The first option of its name, where there is a choice.
IsOption(f, e) ==
  \/ e.choice = <<>> /\ f = e
  \/ \E i \in DOMAIN e.choice :
       f = e.choice[i] /\ \A j \in DOMAIN e.choice : e.choice[j].name = f.name => i <= j

TypePart(T, declared, t) ==
  \/ T = Absent /\ t = declared
  \/ \E v : /\ Parsed(v) \/ v[1] = "text"
            /\ T = Member(TypeKey, v) /\ t = Substitute(sch, declared, ToText(v)[2])

AttrPart(P, a) ==
  \/ P = Absent
  \/ /\ Lookup(sch, a.type) # NoType
     /\ \E raw : P = Member(Prefixed(a.name), BindScalar(raw, Lookup(sch, a.type)))

ElemPart(P, e) ==
  \/ P = Absent /\ (e.choice = <<>> \/ e.min = 0)
  \/ \E f, v : IsOption(f, e) /\ FromValue(v, f) /\ P = Member(f.name, v)

Counted(A, n) == A = [i \in 1..n |-> A[i]]

FromMembers(w, t, T, A, E) ==
  LET own == Effective(sch, t) IN
  /\ own.ok
  /\ Counted(A, Len(own.attrs)) /\ Counted(E, Len(own.elems))
  /\ \A i \in DOMAIN own.attrs : A[i] = Error \/ AttrPart(A[i], own.attrs[i])
  /\ \A i \in DOMAIN own.elems : E[i] = Error \/ ElemPart(E[i], own.elems[i])
  /\ w = ObjectOf(Parts(T, A, E))

Again(w, e)      == JsonOf[w] # Error => BindJSONItem(FromJSON, JsonOf[w], e) = w
AgainValue(v, e) == JsonOf[v] # Error => BindJSONValue(FromJSON, JsonOf[v], e) = v

\* The keys of each part.
LEMMA PartKeys ==
  /\ \A T, declared, t : TypePart(T, declared, t) /\ T # Error => KeysOf(T[2]) \subseteq {TypeKey}
  /\ \A P, a : AttrPart(P, a) /\ P # Error => KeysOf(P[2]) \subseteq {Prefixed(a.name)}
  /\ \A P, e : ElemPart(P, e) /\ P # Error => KeysOf(P[2]) \subseteq ElemKeys(e)
<1>1. ASSUME NEW T, NEW declared, NEW t, TypePart(T, declared, t), T # Error
      PROVE  KeysOf(T[2]) \subseteq {TypeKey}
  BY <1>1, MemberOK DEF TypePart
<1>2. ASSUME NEW P, NEW a, AttrPart(P, a), P # Error
      PROVE  KeysOf(P[2]) \subseteq {Prefixed(a.name)}
  BY <1>2, MemberOK DEF AttrPart
<1>3. ASSUME NEW P, NEW e, ElemPart(P, e), P # Error
      PROVE  KeysOf(P[2]) \subseteq ElemKeys(e)
  <2>1. ASSUME NEW f, IsOption(f, e) PROVE f.name \in ElemKeys(e)
    <3>1. CASE e.choice = <<>>
      <4>1. f = e
        <5>1. DOMAIN e.choice = {}
          BY <3>1
        <5> QED BY <2>1, <5>1 DEF IsOption
      <4> QED BY <3>1, <4>1 DEF ElemKeys
    <3>2. CASE e.choice # <<>>
      BY <2>1, <3>2 DEF IsOption, ElemKeys
    <3> QED BY <3>1, <3>2
  <2>2. CASE P = Absent
    BY <2>2, MemberOK
  <2>3. CASE P # Absent
    <3>1. PICK f, v : IsOption(f, e) /\ P = Member(f.name, v)
      BY <1>3, <2>3 DEF ElemPart
    <3>2. KeysOf(P[2]) = {f.name}
      BY <1>3, <3>1, MemberOK
    <3> QED BY <2>1, <3>1, <3>2
  <2> QED BY <2>2, <2>3
<1> QED BY <1>1, <1>2, <1>3

\* Where no name has two meanings, each part keeps its own key, and no other has it.
EachApart(w, own, T, A, E) ==
  /\ KeysOf(w[2]) \cap {TypeKey} = KeysOf(T[2])
  /\ \A key \in KeysOf(T[2]) : At(w[2], key) = At(T[2], key)
  /\ \A i \in DOMAIN own.attrs :
       /\ KeysOf(w[2]) \cap AttrKeys(own.attrs[i]) = KeysOf(A[i][2])
       /\ \A key \in KeysOf(A[i][2]) : At(w[2], key) = At(A[i][2], key)
  /\ \A i \in DOMAIN own.elems :
       /\ KeysOf(w[2]) \cap ElemKeys(own.elems[i]) = KeysOf(E[i][2])
       /\ \A key \in KeysOf(E[i][2]) : At(w[2], key) = At(E[i][2], key)

LEMMA EachPart ==
  ASSUME NEW own, NEW declared, NEW t, NEW w, NEW T, NEW A, NEW E,
         Len(own.attrs) \in Nat, DOMAIN own.attrs = 1..Len(own.attrs),
         Len(own.elems) \in Nat, DOMAIN own.elems = 1..Len(own.elems),
         MadeOfThree(w, T, A, Len(own.attrs), E, Len(own.elems)),
         NamesApart(own), TypePart(T, declared, t),
         \A i \in DOMAIN own.attrs : AttrPart(A[i], own.attrs[i]),
         \A i \in DOMAIN own.elems : ElemPart(E[i], own.elems[i])
  PROVE  EachApart(w, own, T, A, E)
<1> DEFINE m == Len(own.attrs)
           n == Len(own.elems)
           a(i) == AttrKeys(own.attrs[i])
           e(i) == ElemKeys(own.elems[i])
           KT == KeysOf(T[2])
           KA(i) == KeysOf(A[i][2])
           KE(i) == KeysOf(E[i][2])
<1>1. /\ T # Error /\ (\A i \in 1..m : A[i] # Error) /\ \A i \in 1..n : E[i] # Error
      /\ \A key : key \in KeysOf(w[2]) <=>
           key \in KT \/ (\E i \in 1..m : key \in KA(i)) \/ \E i \in 1..n : key \in KE(i)
      /\ \A key \in KT :
           /\ \A i \in 1..m : key \notin KA(i)
           /\ \A i \in 1..n : key \notin KE(i)
           => At(w[2], key) = At(T[2], key)
      /\ \A i \in 1..m : \A key \in KA(i) :
           /\ key \notin KT
           /\ \A j \in 1..m : key \in KA(j) => j = i
           /\ \A j \in 1..n : key \notin KE(j)
           => At(w[2], key) = At(A[i][2], key)
      /\ \A i \in 1..n : \A key \in KE(i) :
           /\ key \notin KT
           /\ \A j \in 1..m : key \notin KA(j)
           /\ \A j \in 1..n : key \in KE(j) => j = i
           => At(w[2], key) = At(E[i][2], key)
  BY DEF MadeOfThree
<1>2. /\ \A i, j \in 1..m : i # j => a(i) \cap a(j) = {}
      /\ \A i, j \in 1..n : i # j => e(i) \cap e(j) = {}
      /\ \A i \in 1..m : \A j \in 1..n : a(i) \cap e(j) = {}
      /\ \A i \in 1..m : TypeKey \notin a(i)
      /\ \A i \in 1..n : TypeKey \notin e(i)
  BY DEF NamesApart
<1>3. /\ KT \subseteq {TypeKey}
      /\ \A i \in 1..m : KA(i) \subseteq a(i)
      /\ \A i \in 1..n : KE(i) \subseteq e(i)
  <2>1. KT \subseteq {TypeKey}
    BY <1>1, PartKeys
  <2>2. ASSUME NEW i \in 1..m PROVE KA(i) \subseteq a(i)
    <3>1. KA(i) \subseteq {Prefixed(own.attrs[i].name)}
      BY <1>1, PartKeys
    <3> QED BY <3>1 DEF AttrKeys
  <2>3. ASSUME NEW i \in 1..n PROVE KE(i) \subseteq e(i)
    BY <1>1, PartKeys
  <2> QED BY <2>1, <2>2, <2>3
<1> HIDE DEF a, e, KT, KA, KE, m, n
<1>4. KeysOf(w[2]) \cap {TypeKey} = KT /\ \A key \in KT : At(w[2], key) = At(T[2], key)
  <2>1. \A i \in 1..m : TypeKey \notin KA(i)
    BY <1>2, <1>3
  <2>2. \A i \in 1..n : TypeKey \notin KE(i)
    BY <1>2, <1>3
  <2>3. ASSUME NEW key \in KT PROVE key = TypeKey /\ key \in KeysOf(w[2]) /\ At(w[2], key) = At(T[2], key)
    <3>1. key = TypeKey
      BY <1>3
    <3> QED BY <1>1, <2>1, <2>2, <3>1
  <2>4. TypeKey \in KeysOf(w[2]) => TypeKey \in KT
    BY <1>1, <2>1, <2>2
  <2> QED BY <2>3, <2>4
<1>5. ASSUME NEW i \in 1..m
      PROVE  KeysOf(w[2]) \cap a(i) = KA(i) /\ \A key \in KA(i) : At(w[2], key) = At(A[i][2], key)
  <2>1. ASSUME NEW key \in a(i)
        PROVE  /\ key \notin KT
               /\ \A j \in 1..m : key \in KA(j) => j = i
               /\ \A j \in 1..n : key \notin KE(j)
    <3>1. key # TypeKey
      BY <1>2, <2>1
    <3>2. ASSUME NEW j \in 1..m, key \in KA(j) PROVE j = i
      BY <1>2, <1>3, <2>1, <3>2
    <3>3. ASSUME NEW j \in 1..n PROVE key \notin KE(j)
      BY <1>2, <1>3, <2>1
    <3> QED BY <1>3, <3>1, <3>2, <3>3
  <2>2. ASSUME NEW key \in KA(i) PROVE key \in a(i) /\ key \in KeysOf(w[2]) /\ At(w[2], key) = At(A[i][2], key)
    <3>1. key \in a(i)
      BY <1>3
    <3> QED BY <1>1, <2>1, <3>1
  <2>3. \A key \in a(i) : key \in KeysOf(w[2]) => key \in KA(i)
    BY <1>1, <2>1
  <2> QED BY <2>2, <2>3
<1>6. ASSUME NEW i \in 1..n
      PROVE  KeysOf(w[2]) \cap e(i) = KE(i) /\ \A key \in KE(i) : At(w[2], key) = At(E[i][2], key)
  <2>1. ASSUME NEW key \in e(i)
        PROVE  /\ key \notin KT
               /\ \A j \in 1..m : key \notin KA(j)
               /\ \A j \in 1..n : key \in KE(j) => j = i
    <3>1. key # TypeKey
      BY <1>2, <2>1
    <3>2. ASSUME NEW j \in 1..m PROVE key \notin KA(j)
      BY <1>2, <1>3, <2>1
    <3>3. ASSUME NEW j \in 1..n, key \in KE(j) PROVE j = i
      BY <1>2, <1>3, <2>1, <3>3
    <3> QED BY <1>3, <3>1, <3>2, <3>3
  <2>2. ASSUME NEW key \in KE(i) PROVE key \in e(i) /\ key \in KeysOf(w[2]) /\ At(w[2], key) = At(E[i][2], key)
    <3>1. key \in e(i)
      BY <1>3
    <3> QED BY <1>1, <2>1, <3>1
  <2>3. \A key \in e(i) : key \in KeysOf(w[2]) => key \in KE(i)
    BY <1>1, <2>1
  <2> QED BY <2>2, <2>3
<1> QED BY <1>4, <1>5, <1>6 DEF a, e, KT, KA, KE, m, n, EachApart
-----------------------------------------------------------------------------
(* The parts of an object that is bound again, from what JSON says of it. *)

\* Of these keys the members have those of the part, as JSON says them.
SaysAgain(members, keys, P) ==
  /\ KeysOf(members) \cap keys = KeysOf(P[2])
  /\ \A key \in KeysOf(P[2]) :
       /\ At(P[2], key) \in Carried /\ JsonOf[At(P[2], key)] # Error
       /\ At(members, key) = JsonOf[At(P[2], key)]

LEMMA TypeAgain ==
  ASSUME NEW members, NEW T, NEW e, NEW t, TypePart(T, Lookup(sch, e.type), t), T # Error,
         SaysAgain(members, {TypeKey}, T)
  PROVE  /\ T = IF TypeKey \in KeysOf(members) THEN Member(TypeKey, At(members, TypeKey)) ELSE Absent
         /\ JSONType(sch, Object(members), e) = t
<1>1. IsObject(Object(members)) /\ Object(members)[2] = members
  BY DEF IsObject, Object
<1>2. JSONType(sch, Object(members), e) =
        IF TypeKey \in KeysOf(members)
          THEN Substitute(sch, Lookup(sch, e.type), ToText(At(members, TypeKey))[2])
          ELSE Lookup(sch, e.type)
  BY <1>1 DEF JSONType
<1>3. TypeKey \in KeysOf(members) <=> TypeKey \in KeysOf(T[2])
  BY DEF SaysAgain
<1>4. CASE T = Absent /\ t = Lookup(sch, e.type)
  BY <1>2, <1>3, <1>4, MemberOK
<1>5. ASSUME NEW v, Parsed(v) \/ v[1] = "text", T = Member(TypeKey, v),
             t = Substitute(sch, Lookup(sch, e.type), ToText(v)[2])
      PROVE  /\ TypeKey \in KeysOf(members) /\ T = Member(TypeKey, At(members, TypeKey))
             /\ JSONType(sch, Object(members), e) = t
  <2>1. KeysOf(T[2]) = {TypeKey} /\ At(T[2], TypeKey) = v
    BY <1>5, MemberOK
  <2>2. v \in Carried /\ At(members, TypeKey) = JsonOf[v]
    BY <2>1 DEF SaysAgain
  <2>3. JsonOf[v] = v
    BY <1>5, <2>2, JsonStep DEF Parsed
  <2> QED BY <1>2, <1>3, <1>5, <2>1, <2>2, <2>3
<1> QED BY <1>2, <1>4, <1>5 DEF TypePart

LEMMA AttrAgain ==
  ASSUME NEW members, NEW P, NEW a, AttrPart(P, a), P # Error,
         SaysAgain(members, AttrKeys(a), P)
  PROVE  BindJSONAttr(sch, members, a) = P
<1>1. KeysOf(members) \cap {Prefixed(a.name), a.name} = KeysOf(P[2])
  BY DEF SaysAgain, AttrKeys
<1>2. CASE P = Absent
  <2>1. Prefixed(a.name) \notin KeysOf(members) /\ a.name \notin KeysOf(members)
    BY <1>1, <1>2, MemberOK
  <2> QED BY <1>2, <2>1 DEF BindJSONAttr, AttrKey
<1>3. CASE P # Absent
  <2> DEFINE key == Prefixed(a.name)
             t == Lookup(sch, a.type)
  <2>1. PICK raw : t # NoType /\ P = Member(key, BindScalar(raw, t))
    BY <1>3 DEF AttrPart
  <2> DEFINE v == BindScalar(raw, t)
  <2>2. v # Error /\ KeysOf(P[2]) = {key} /\ At(P[2], key) = v
    BY <2>1, MemberOK
  <2>3. key \in KeysOf(members) /\ v \in Carried /\ JsonOf[v] # Error /\ At(members, key) = JsonOf[v]
    BY <1>1, <2>2 DEF SaysAgain
  <2>4. BindScalar(JsonOf[v], t) = v
    BY <2>2, <2>3, ScalarKept
  <2>5. BindJSONAttr(sch, members, a) = BindAttr(sch, a, At(members, key))
    BY <2>3 DEF BindJSONAttr, AttrKey
  <2>6. BindAttr(sch, a, At(members, key)) = Member(key, BindScalar(At(members, key), t))
    BY <2>1 DEF BindAttr
  <2> QED BY <2>1, <2>3, <2>4, <2>5, <2>6
<1> QED BY <1>2, <1>3

\* Of a choice the first option that is there is bound.
LEMMA JSONElemCases ==
  ASSUME NEW bind, NEW members, NEW e \in Declared
  PROVE  /\ e.choice = <<>> /\ e.name \in KeysOf(members) =>
              BindJSONElem(bind, members, e) = BindJSONPresent(bind, members, e)
         /\ e.choice = <<>> /\ e.name \notin KeysOf(members) =>
              BindJSONElem(bind, members, e) = Absent
         /\ e.choice # <<>> /\ (\A i \in DOMAIN e.choice : e.choice[i].name \notin KeysOf(members)) =>
              BindJSONElem(bind, members, e) = IF e.min = 0 THEN Absent ELSE Error
         /\ \A k \in DOMAIN e.choice :
              /\ e.choice[k].name \in KeysOf(members)
              /\ \A i \in DOMAIN e.choice : e.choice[i].name \in KeysOf(members) => k <= i
              => BindJSONElem(bind, members, e) = BindJSONPresent(bind, members, e.choice[k])
<1> DEFINE S == {i \in DOMAIN e.choice : e.choice[i].name \in KeysOf(members)}
           one == BindJSONPresent(bind, members, e.choice[Min(S)])
<1>1. BindJSONElem(bind, members, e) =
        CASE e.choice = <<>> /\ e.name \in KeysOf(members) -> BindJSONPresent(bind, members, e)
          [] e.choice = <<>> /\ e.name \notin KeysOf(members) -> Absent
          [] e.choice # <<>> ->
               IF \E i \in DOMAIN e.choice : e.choice[i].name \in KeysOf(members)
                 THEN one ELSE IF e.min = 0 THEN Absent ELSE Error
  BY DEF BindJSONElem, First
<1>2. ASSUME NEW k \in DOMAIN e.choice, e.choice[k].name \in KeysOf(members),
             \A i \in DOMAIN e.choice : e.choice[i].name \in KeysOf(members) => k <= i
      PROVE  e.choice # <<>> /\ one = BindJSONPresent(bind, members, e.choice[k])
  <2>1. Len(e.choice) \in Nat /\ DOMAIN e.choice = 1..Len(e.choice)
    BY OptionsOK
  <2>2. e.choice # <<>>
    BY <1>2, EmptySeq
  <2>3. S \in SUBSET (1..Len(e.choice)) /\ k \in S /\ \A i \in S : k <= i
    BY <1>2, <2>1
  <2> HIDE DEF S
  <2>4. Min(S) \in S /\ Min(S) <= k
    BY <2>1, <2>3, LeastIndex
  <2>5. Min(S) = k
    BY <2>1, <2>3, <2>4
  <2> QED BY <2>2, <2>5
<1> HIDE DEF one
<1> QED BY <1>1, <1>2

LEMMA ElemAgain ==
  ASSUME NEW d \in 0..Depth, NEW members, NEW P, NEW e \in Declared, ElemPart(P, e), P # Error,
         SaysAgain(members, ElemKeys(e), P),
         \A key \in KeysOf(P[2]) : At(P[2], key) \in Within(d),
         \A v \in Within(d) : \A f \in Declared : FromValue(v, f) => AgainValue(v, f)
  PROVE  BindJSONElem(FromJSON, members, e) = P
<1>1. KeysOf(members) \cap ElemKeys(e) = KeysOf(P[2])
  BY DEF SaysAgain
<1>2. /\ e.choice = <<>> => ElemKeys(e) = {e.name}
      /\ e.choice # <<>> => \A i \in DOMAIN e.choice : e.choice[i].name \in ElemKeys(e)
  BY DEF ElemKeys
<1>3. CASE P = Absent
  <2>1. KeysOf(members) \cap ElemKeys(e) = {} /\ (e.choice = <<>> \/ e.min = 0)
    BY <1>1, <1>3, MemberOK DEF ElemPart
  <2> QED BY <1>2, <1>3, <2>1, JSONElemCases
<1>4. CASE P # Absent
  <2>1. PICK f, v : IsOption(f, e) /\ FromValue(v, f) /\ P = Member(f.name, v)
    BY <1>4 DEF ElemPart
  <2>2. v # Error /\ KeysOf(P[2]) = {f.name} /\ At(P[2], f.name) = v
    BY <2>1, MemberOK
  <2>3. v \in Within(d) /\ JsonOf[v] # Error /\ At(members, f.name) = JsonOf[v]
    BY <2>2 DEF SaysAgain
  <2>4. KeysOf(members) \cap ElemKeys(e) = {f.name}
    BY <1>1, <2>2
  <2>5. f \in Declared
    BY <2>1, OptionsOK DEF IsOption
  <2>6. BindJSONPresent(FromJSON, members, f) = P
    <3>1. BindJSONValue(FromJSON, JsonOf[v], f) = v
      BY <2>1, <2>3, <2>5 DEF AgainValue
    <3> QED BY <2>1, <2>3, <3>1 DEF BindJSONPresent
  <2>7. CASE e.choice = <<>>
    <3>1. DOMAIN e.choice = {}
      BY <2>7
    <3>2. f = e
      BY <2>1, <3>1 DEF IsOption
    <3>3. e.name \in KeysOf(members)
      BY <2>4, <3>2
    <3> QED BY <2>6, <2>7, <3>2, <3>3, JSONElemCases
  <2>8. CASE e.choice # <<>>
    <3>1. PICK k \in DOMAIN e.choice :
            f = e.choice[k] /\ \A i \in DOMAIN e.choice : e.choice[i].name = f.name => k <= i
      BY <2>1, <2>8 DEF IsOption
    <3>2. \A i \in DOMAIN e.choice : e.choice[i].name \in KeysOf(members) => e.choice[i].name = f.name
      BY <1>2, <2>4, <2>8
    <3>3. e.choice[k].name \in KeysOf(members)
      BY <2>4, <3>1
    <3> QED BY <2>6, <3>1, <3>2, <3>3, JSONElemCases
  <2> QED BY <2>7, <2>8
<1> QED BY <1>3, <1>4

\* The fields of a type are sequences.
LEMMA CountedFields ==
  ASSUME SchemaTypeOK, NEW name, Effective(sch, Lookup(sch, name)).ok
  PROVE  LET own == Effective(sch, Lookup(sch, name)) IN
         /\ Len(own.attrs) \in Nat /\ DOMAIN own.attrs = 1..Len(own.attrs)
         /\ Len(own.elems) \in Nat /\ DOMAIN own.elems = 1..Len(own.elems)
         /\ \A i \in DOMAIN own.elems : own.elems[i] \in Declared
<1> DEFINE own == Effective(sch, Lookup(sch, name))
<1>1. own \in Outcomes
  BY EffectiveOK
<1>2. own.ok
  OBVIOUS
<1> HIDE DEF own
<1>3. ~NoFields.ok
  BY DEF NoFields
<1>4. PICK a \in FieldSeqs, e \in FieldSeqs : own = Fields(a, e)
  BY <1>1, <1>2, <1>3 DEF Outcomes
<1>5. own.attrs \in FieldSeqs /\ own.elems \in FieldSeqs
  BY <1>4 DEF Fields
<1>6. \A s \in FieldSeqs :
        Len(s) \in Nat /\ DOMAIN s = 1..Len(s) /\ \A i \in DOMAIN s : s[i] \in Declared
  BY LenProperties, ElementOfSeq DEF FieldSeqs
<1> QED BY <1>5, <1>6 DEF own

\* The names in a type with members are apart.
LEMMA OwnFields ==
  ASSUME Unambiguous, NEW name, NEW t, t = Lookup(sch, name), t # NoType, ~Scalar(t)
  PROVE  NamesApart(Effective(sch, t))
<1> DEFINE local == LocalName(name)
<1>1. ASSUME local \notin DOMAIN sch.types \ {NoName} PROVE FALSE
  <2>1. t = Type(local, "primitive", local)
    BY <1>1 DEF Lookup, NoName
  <2> HIDE DEF local
  <2>2. Type(local, "primitive", local).kind = "primitive"
    BY DEF Type
  <2>3. t.kind = "primitive"
    BY <2>1, <2>2
  <2> QED BY <2>3 DEF Scalar
<1>2. local \in DOMAIN sch.types \ {NoName} /\ t = sch.types[local]
  BY <1>1 DEF Lookup, NoName
<1> QED BY <1>2 DEF Unambiguous

\* A value with members is the same again if what is in it is.
LEMMA ComplexAgain ==
  ASSUME SchemaTypeOK, Unambiguous, NEW d \in 0..Depth, NEW w \in ValueTrees[d],
         w # Error, JsonOf[w] # Error, NEW e \in Declared,
         \A v \in Within(d) : \A f \in Declared : FromValue(v, f) => AgainValue(v, f),
         NEW name, NEW t, t = Lookup(sch, name), t # NoType, ~Scalar(t),
         NEW T, NEW A, NEW E, TypePart(T, Lookup(sch, e.type), t), FromMembers(w, t, T, A, E)
  PROVE  BindJSONItem(FromJSON, JsonOf[w], e) = w
<1> DEFINE own == Effective(sch, t)
           m == Len(own.attrs)
           n == Len(own.elems)
           members == JsonOf[w][2]
<1>1. /\ own.ok /\ w = ObjectOf(Parts(T, A, E))
      /\ Counted(A, m) /\ Counted(E, n)
      /\ \A i \in DOMAIN own.attrs : A[i] = Error \/ AttrPart(A[i], own.attrs[i])
      /\ \A i \in DOMAIN own.elems : E[i] = Error \/ ElemPart(E[i], own.elems[i])
  BY DEF FromMembers
<1>2. /\ NamesApart(own)
      /\ m \in Nat /\ n \in Nat /\ DOMAIN own.attrs = 1..m /\ DOMAIN own.elems = 1..n
      /\ \A i \in DOMAIN own.elems : own.elems[i] \in Declared
  BY <1>1, OwnFields, CountedFields
<1> HIDE DEF own
<1>3. MadeOfThree(w, T, A, m, E, n)
  <2> HIDE DEF m, n
  <2> DEFINE V == {T} \cup {A[i] : i \in 1..m} \cup {E[i] : i \in 1..n}
  <2>1. T \in V /\ A \in [1..m -> V] /\ E \in [1..n -> V]
    BY <1>1 DEF Counted
  <2> HIDE DEF V
  <2> QED BY <1>1, <1>2, <2>1, ObjectOfThree
<1>4. /\ IsObject(w) /\ T # Error /\ (\A i \in 1..m : A[i] # Error) /\ \A i \in 1..n : E[i] # Error
      /\ \A key : (\/ key \in KeysOf(T[2]) \/ (\E i \in 1..m : key \in KeysOf(A[i][2]))
                   \/ \E i \in 1..n : key \in KeysOf(E[i][2])) => key \in KeysOf(w[2])
  BY <1>3 DEF MadeOfThree
<1>5. /\ \A i \in DOMAIN own.attrs : AttrPart(A[i], own.attrs[i])
      /\ \A i \in DOMAIN own.elems : ElemPart(E[i], own.elems[i])
  BY <1>1, <1>2, <1>4
<1>6. /\ KeysOf(w[2]) \cap {TypeKey} = KeysOf(T[2])
      /\ \A key \in KeysOf(T[2]) : At(w[2], key) = At(T[2], key)
      /\ \A i \in DOMAIN own.attrs :
           /\ KeysOf(w[2]) \cap AttrKeys(own.attrs[i]) = KeysOf(A[i][2])
           /\ \A key \in KeysOf(A[i][2]) : At(w[2], key) = At(A[i][2], key)
      /\ \A i \in DOMAIN own.elems :
           /\ KeysOf(w[2]) \cap ElemKeys(own.elems[i]) = KeysOf(E[i][2])
           /\ \A key \in KeysOf(E[i][2]) : At(w[2], key) = At(E[i][2], key)
  <2> DEFINE declared == Lookup(sch, e.type)
  <2>1. TypePart(T, declared, t)
    OBVIOUS
  <2> HIDE DEF declared
  <2>2. EachApart(w, own, T, A, E)
    BY <1>2, <1>3, <1>5, <2>1, EachPart
  <2> QED BY <2>2 DEF EachApart
<1>7. /\ w[2] \in MemberSets(Within(d)) /\ Within(d) \subseteq Carried
      /\ JsonOf[w] \in ValueTrees[d] /\ JsonOf[w] \in Carried
  BY <1>4, ValueOK, WithinOK, JsonOK
<1>8. /\ IsObject(JsonOf[w]) /\ KeysOf(members) = KeysOf(w[2]) /\ JsonOf[w] = Object(members)
      /\ \A key \in KeysOf(w[2]) :
           /\ At(w[2], key) \in Within(d) /\ At(w[2], key) \in Carried
           /\ At(members, key) = JsonOf[At(w[2], key)] /\ JsonOf[At(w[2], key)] # Error
  <2>1. /\ IsObject(JsonOf[w]) /\ KeysOf(members) = KeysOf(w[2])
        /\ \A key \in KeysOf(w[2]) :
             At(members, key) = JsonOf[At(w[2], key)] /\ JsonOf[At(w[2], key)] # Error
    BY <1>4, JsonObject
  <2>2. JsonOf[w] = Object(members)
    BY <1>7, <2>1, ValueOK
  <2>3. \A key \in KeysOf(w[2]) : At(w[2], key) \in Within(d)
    BY <1>7, MembersOK
  <2> QED BY <1>7, <2>1, <2>2, <2>3
<1> HIDE DEF members
<1>9. SaysAgain(members, {TypeKey}, T)
  BY <1>4, <1>6, <1>8 DEF SaysAgain
<1>10. \A i \in DOMAIN own.attrs : SaysAgain(members, AttrKeys(own.attrs[i]), A[i])
  BY <1>2, <1>4, <1>6, <1>8 DEF SaysAgain
<1>11. \A i \in DOMAIN own.elems :
         /\ SaysAgain(members, ElemKeys(own.elems[i]), E[i])
         /\ \A key \in KeysOf(E[i][2]) : At(E[i][2], key) \in Within(d)
  BY <1>2, <1>4, <1>6, <1>8 DEF SaysAgain
<1>12. /\ T = IF TypeKey \in KeysOf(members) THEN Member(TypeKey, At(members, TypeKey)) ELSE Absent
       /\ JSONType(sch, JsonOf[w], e) = t
  BY <1>4, <1>8, <1>9, TypeAgain
<1>13. A = [i \in DOMAIN own.attrs |-> BindJSONAttr(sch, members, own.attrs[i])]
  <2>1. \A i \in DOMAIN own.attrs : BindJSONAttr(sch, members, own.attrs[i]) = A[i]
    BY <1>2, <1>4, <1>5, <1>10, AttrAgain
  <2> QED BY <1>1, <1>2, <2>1 DEF Counted
<1>14. E = [i \in DOMAIN own.elems |-> BindJSONElem(FromJSON, members, own.elems[i])]
  <2>1. \A i \in DOMAIN own.elems : BindJSONElem(FromJSON, members, own.elems[i]) = E[i]
    BY <1>2, <1>4, <1>5, <1>11, ElemAgain
  <2> QED BY <1>1, <1>2, <2>1 DEF Counted
<1>15. BindJSONComplex(sch, FromJSON, members, t) = w
  <2> DEFINE typ == IF TypeKey \in KeysOf(members) THEN Member(TypeKey, At(members, TypeKey)) ELSE Absent
             attrs == [i \in DOMAIN own.attrs |-> BindJSONAttr(sch, members, own.attrs[i])]
             elems == [i \in DOMAIN own.elems |-> BindJSONElem(FromJSON, members, own.elems[i])]
  <2>1. BindJSONComplex(sch, FromJSON, members, t) =
          IF ~own.ok THEN Error ELSE ObjectOf(<<typ>> \o attrs \o elems)
    BY DEF BindJSONComplex, BindJSONFields, own
  <2>2. typ = T /\ attrs = A /\ elems = E
    BY <1>12, <1>13, <1>14
  <2> HIDE DEF typ, attrs, elems
  <2> QED BY <1>1, <2>1, <2>2 DEF Parts
<1>16. FromJSON[<<JsonOf[w], e>>] = BindJSONOne(sch, FromJSON, JsonOf[w], e)
  BY <1>7, BindSteps
<1>17. BindJSONOne(sch, FromJSON, JsonOf[w], e) = w
  <2>1. JsonOf[w][2] = members
    BY DEF members
  <2> QED BY <1>8, <1>12, <1>15, <2>1 DEF BindJSONOne
<1>18. JsonOf[w] # Null
  BY <1>8 DEF IsObject, Null
<1> QED BY <1>16, <1>17, <1>18 DEF BindJSONItem
-----------------------------------------------------------------------------
(* What has been decoded is a scalar of the declared type, or has members. *)

FromScalar(w, e) ==
  LET t == Lookup(sch, e.type) IN
  t # NoType /\ Scalar(t) /\ \E v : w = BindScalar(v, t)

FromObject(w, e) ==
  \E name, t, T, A, E :
    /\ t = Lookup(sch, name) /\ t # NoType /\ ~Scalar(t)
    /\ TypePart(T, Lookup(sch, e.type), t) /\ FromMembers(w, t, T, A, E)

LEMMA AttrParts ==
  ASSUME NEW a, NEW raw
  PROVE  BindAttr(sch, a, raw) = Error \/ AttrPart(BindAttr(sch, a, raw), a)
BY DEF BindAttr, AttrPart

LEMMA JSONElemPart ==
  ASSUME NEW members, NEW e \in Declared, \A key \in KeysOf(members) : Parsed(At(members, key))
  PROVE  \/ BindJSONElem(FromJSON, members, e) = Error
         \/ ElemPart(BindJSONElem(FromJSON, members, e), e)
<1>1. ASSUME NEW f, IsOption(f, e), f.name \in KeysOf(members),
             BindJSONElem(FromJSON, members, e) = BindJSONPresent(FromJSON, members, f)
      PROVE  ElemPart(BindJSONElem(FromJSON, members, e), e)
  <2> DEFINE v == BindJSONValue(FromJSON, At(members, f.name), f)
  <2>1. FromValue(v, f)
    BY <1>1 DEF FromValue
  <2>2. BindJSONElem(FromJSON, members, e) = Member(f.name, v)
    BY <1>1 DEF BindJSONPresent
  <2> QED BY <1>1, <2>1, <2>2 DEF ElemPart
<1>2. CASE e.choice = <<>>
  <2>1. IsOption(e, e)
    BY <1>2 DEF IsOption
  <2>2. CASE e.name \in KeysOf(members)
    BY <1>1, <1>2, <2>1, <2>2, JSONElemCases
  <2>3. CASE e.name \notin KeysOf(members)
    BY <1>2, <2>3, JSONElemCases DEF ElemPart
  <2> QED BY <2>2, <2>3
<1>3. CASE e.choice # <<>>
  <2> DEFINE S == {i \in DOMAIN e.choice : e.choice[i].name \in KeysOf(members)}
  <2>1. CASE S = {}
    <3>1. \A i \in DOMAIN e.choice : e.choice[i].name \notin KeysOf(members)
      BY <2>1
    <3>2. BindJSONElem(FromJSON, members, e) = IF e.min = 0 THEN Absent ELSE Error
      BY <1>3, <3>1, JSONElemCases
    <3> QED BY <3>2 DEF ElemPart
  <2>2. CASE S # {}
    <3>1. Len(e.choice) \in Nat /\ DOMAIN e.choice = 1..Len(e.choice)
      BY OptionsOK
    <3>2. S \in SUBSET (1..Len(e.choice))
      BY <3>1
    <3>3. Min(S) \in S /\ \A i \in S : Min(S) <= i
      <4> HIDE DEF S
      <4> QED BY <2>2, <3>1, <3>2, LeastIndex
    <3> DEFINE k == Min(S)
    <3> HIDE DEF k
    <3>4. k \in DOMAIN e.choice /\ e.choice[k].name \in KeysOf(members)
      BY <3>3 DEF k
    <3>5. \A i \in DOMAIN e.choice : e.choice[i].name \in KeysOf(members) => k <= i
      BY <3>3 DEF k
    <3>6. BindJSONElem(FromJSON, members, e) = BindJSONPresent(FromJSON, members, e.choice[k])
      BY <3>4, <3>5, JSONElemCases
    <3>7. IsOption(e.choice[k], e)
      BY <3>4, <3>5 DEF IsOption
    <3> QED BY <1>1, <3>4, <3>6, <3>7
  <2> QED BY <2>1, <2>2
<1> QED BY <1>2, <1>3

LEMMA XMLElemCases ==
  ASSUME NEW bind, NEW n, NEW e \in Declared
  PROVE  /\ e.choice = <<>> /\ HasChild(n, e.name) =>
              BindXMLElem(bind, n, e) = BindXMLPresent(bind, n, e)
         /\ e.choice = <<>> /\ ~HasChild(n, e.name) => BindXMLElem(bind, n, e) = Absent
         /\ e.choice # <<>> /\ (\A i \in DOMAIN e.choice : ~HasChild(n, e.choice[i].name)) =>
              BindXMLElem(bind, n, e) = IF e.min = 0 THEN Absent ELSE Error
         /\ \A k \in DOMAIN e.choice :
              /\ HasChild(n, e.choice[k].name)
              /\ \A i \in DOMAIN e.choice : HasChild(n, e.choice[i].name) => k <= i
              => BindXMLElem(bind, n, e) = BindXMLPresent(bind, n, e.choice[k])
<1> DEFINE Has(name) == HasChild(n, name)
           S == {i \in DOMAIN e.choice : Has(e.choice[i].name)}
           one == BindXMLPresent(bind, n, e.choice[Min(S)])
<1>1. BindXMLElem(bind, n, e) =
        CASE e.choice = <<>> /\ Has(e.name) -> BindXMLPresent(bind, n, e)
          [] e.choice = <<>> /\ ~Has(e.name) -> Absent
          [] e.choice # <<>> ->
               IF \E i \in DOMAIN e.choice : Has(e.choice[i].name)
                 THEN one ELSE IF e.min = 0 THEN Absent ELSE Error
  BY DEF BindXMLElem, First
<1> HIDE DEF Has
<1>2. ASSUME NEW k \in DOMAIN e.choice, Has(e.choice[k].name),
             \A i \in DOMAIN e.choice : Has(e.choice[i].name) => k <= i
      PROVE  e.choice # <<>> /\ one = BindXMLPresent(bind, n, e.choice[k])
  <2>1. Len(e.choice) \in Nat /\ DOMAIN e.choice = 1..Len(e.choice)
    BY OptionsOK
  <2>2. e.choice # <<>>
    BY <1>2, EmptySeq
  <2>3. S \in SUBSET (1..Len(e.choice)) /\ k \in S /\ \A i \in S : k <= i
    BY <1>2, <2>1
  <2> HIDE DEF S
  <2>4. Min(S) \in S /\ Min(S) <= k
    BY <2>1, <2>3, LeastIndex
  <2>5. Min(S) = k
    BY <2>1, <2>3, <2>4
  <2> QED BY <2>2, <2>5
<1> HIDE DEF one
<1> QED BY <1>1, <1>2 DEF Has

LEMMA XMLElemPart ==
  ASSUME NEW n \in Written, NEW e \in Declared
  PROVE  \/ BindXMLElem(FromXML, n, e) = Error
         \/ ElemPart(BindXMLElem(FromXML, n, e), e)
<1>1. ASSUME NEW f, IsOption(f, e), HasChild(n, f.name),
             BindXMLElem(FromXML, n, e) = BindXMLPresent(FromXML, n, f)
      PROVE  ElemPart(BindXMLElem(FromXML, n, e), e)
  <2> DEFINE nodes == ChildrenByName(n, f.name)
             v == BindXMLRepeats(FromXML, nodes, f)
  <2>1. nodes \in Seq(Written) /\ nodes # <<>>
    BY <1>1, ChildrenOK DEF HasChild
  <2>2. FromValue(v, f)
    BY <2>1 DEF FromValue
  <2>3. BindXMLElem(FromXML, n, e) = Member(f.name, v)
    BY <1>1 DEF BindXMLPresent
  <2> QED BY <1>1, <2>2, <2>3 DEF ElemPart
<1>2. CASE e.choice = <<>>
  <2>1. IsOption(e, e)
    BY <1>2 DEF IsOption
  <2>2. CASE HasChild(n, e.name)
    BY <1>1, <1>2, <2>1, <2>2, XMLElemCases
  <2>3. CASE ~HasChild(n, e.name)
    BY <1>2, <2>3, XMLElemCases DEF ElemPart
  <2> QED BY <2>2, <2>3
<1>3. CASE e.choice # <<>>
  <2> DEFINE Has(i) == HasChild(n, e.choice[i].name)
             S == {i \in DOMAIN e.choice : Has(i)}
  <2>1. CASE S = {}
    <3>1. \A i \in DOMAIN e.choice : ~HasChild(n, e.choice[i].name)
      BY <2>1
    <3>2. BindXMLElem(FromXML, n, e) = IF e.min = 0 THEN Absent ELSE Error
      BY <1>3, <3>1, XMLElemCases
    <3> QED BY <3>2 DEF ElemPart
  <2>2. CASE S # {}
    <3>1. Len(e.choice) \in Nat /\ DOMAIN e.choice = 1..Len(e.choice)
      BY OptionsOK
    <3>2. S \in SUBSET (1..Len(e.choice))
      BY <3>1
    <3>3. Min(S) \in S /\ \A i \in S : Min(S) <= i
      <4> HIDE DEF S
      <4> QED BY <2>2, <3>1, <3>2, LeastIndex
    <3> DEFINE k == Min(S)
    <3> HIDE DEF k
    <3>4. k \in DOMAIN e.choice /\ HasChild(n, e.choice[k].name)
      BY <3>3 DEF k
    <3>5. \A i \in DOMAIN e.choice : HasChild(n, e.choice[i].name) => k <= i
      BY <3>3 DEF k
    <3>6. BindXMLElem(FromXML, n, e) = BindXMLPresent(FromXML, n, e.choice[k])
      BY <3>4, <3>5, XMLElemCases
    <3>7. IsOption(e.choice[k], e)
      <4>1. ASSUME NEW j \in DOMAIN e.choice, e.choice[j].name = e.choice[k].name PROVE k <= j
        BY <3>4, <3>5, <4>1
      <4> QED BY <3>4, <4>1 DEF IsOption
    <3> QED BY <1>1, <3>4, <3>6, <3>7
  <2> QED BY <2>1, <2>2
<1> QED BY <1>2, <1>3
LEMMA JSONComplexCases ==
  ASSUME SchemaTypeOK, NEW members, \A key \in KeysOf(members) : Parsed(At(members, key)),
         NEW e \in Declared, NEW name, NEW t, t = Lookup(sch, name), t # NoType, ~Scalar(t),
         t = JSONType(sch, Object(members), e),
         BindJSONComplex(sch, FromJSON, members, t) # Error
  PROVE  FromObject(BindJSONComplex(sch, FromJSON, members, t), e)
<1> DEFINE own == Effective(sch, t)
           T == IF TypeKey \in KeysOf(members) THEN Member(TypeKey, At(members, TypeKey)) ELSE Absent
           A == [i \in DOMAIN own.attrs |-> BindJSONAttr(sch, members, own.attrs[i])]
           E == [i \in DOMAIN own.elems |-> BindJSONElem(FromJSON, members, own.elems[i])]
           w == BindJSONComplex(sch, FromJSON, members, t)
<1>1. own.ok /\ w = ObjectOf(Parts(T, A, E))
  BY DEF BindJSONComplex, BindJSONFields, Parts
<1>2. /\ DOMAIN own.attrs = 1..Len(own.attrs) /\ DOMAIN own.elems = 1..Len(own.elems)
      /\ \A i \in DOMAIN own.elems : own.elems[i] \in Declared
  BY <1>1, CountedFields
<1>3. TypePart(T, Lookup(sch, e.type), t)
  <2> DEFINE declared == Lookup(sch, e.type)
             v == At(members, TypeKey)
  <2>1. IsObject(Object(members)) /\ Object(members)[2] = members
    BY DEF IsObject, Object
  <2>2. t = IF TypeKey \in KeysOf(members) THEN Substitute(sch, declared, ToText(v)[2]) ELSE declared
    BY <2>1 DEF JSONType
  <2> HIDE DEF declared
  <2>3. TypeKey \in KeysOf(members) => TypePart(T, declared, t)
    BY <2>2 DEF TypePart
  <2>4. TypeKey \notin KeysOf(members) => TypePart(T, declared, t)
    BY <2>2 DEF TypePart
  <2> QED BY <2>3, <2>4 DEF declared
<1>4. \A i \in DOMAIN own.attrs : A[i] = Error \/ AttrPart(A[i], own.attrs[i])
  <2> SUFFICES ASSUME NEW i \in DOMAIN own.attrs
               PROVE  A[i] = Error \/ AttrPart(A[i], own.attrs[i])
    OBVIOUS
  <2> DEFINE a == own.attrs[i]
  <2>1. A[i] = BindJSONAttr(sch, members, a)
    OBVIOUS
  <2> HIDE DEF a, A
  <2>2. BindJSONAttr(sch, members, a) = Absent \/ \E raw : BindJSONAttr(sch, members, a) = BindAttr(sch, a, raw)
    BY DEF BindJSONAttr
  <2>3. A[i] = Error \/ AttrPart(A[i], a)
    BY <2>1, <2>2, AttrParts DEF AttrPart
  <2> QED BY <2>3 DEF a
<1>5. \A i \in DOMAIN own.elems : E[i] = Error \/ ElemPart(E[i], own.elems[i])
  <2> SUFFICES ASSUME NEW i \in DOMAIN own.elems
               PROVE  E[i] = Error \/ ElemPart(E[i], own.elems[i])
    OBVIOUS
  <2>1. E[i] = BindJSONElem(FromJSON, members, own.elems[i]) /\ own.elems[i] \in Declared
    BY <1>2
  <2> HIDE DEF E, own
  <2> QED BY <2>1, JSONElemPart
<1>6. Counted(A, Len(own.attrs)) /\ Counted(E, Len(own.elems))
  BY <1>2 DEF Counted
<1> HIDE DEF T, A, E
<1>7. FromMembers(w, t, T, A, E)
  BY <1>1, <1>4, <1>5, <1>6 DEF FromMembers
<1> HIDE DEF w, own
<1>8. FromObject(w, e)
  BY <1>3, <1>7 DEF FromObject
<1> QED BY <1>8 DEF w

LEMMA XMLComplexCases ==
  ASSUME SchemaTypeOK, NEW n \in Written,
         NEW e \in Declared, NEW name, NEW t, t = Lookup(sch, name), t # NoType, ~Scalar(t),
         t = DeclaredType(sch, n, e),
         BindXMLComplex(sch, FromXML, n, t) # Error
  PROVE  FromObject(BindXMLComplex(sch, FromXML, n, t), e)
<1> DEFINE own == Effective(sch, t)
           xsi == XsiAttr(n, "type")
           v == Text(LocalName(xsi[1].value))
           T == IF xsi = <<>> THEN Absent ELSE Member(TypeKey, v)
           A == [i \in DOMAIN own.attrs |-> BindXMLAttr(sch, n, own.attrs[i])]
           E == [i \in DOMAIN own.elems |-> BindXMLElem(FromXML, n, own.elems[i])]
           w == BindXMLComplex(sch, FromXML, n, t)
<1>1. own.ok /\ w = ObjectOf(Parts(T, A, E))
  BY DEF BindXMLComplex, BindXMLFields, Parts
<1>2. /\ DOMAIN own.attrs = 1..Len(own.attrs) /\ DOMAIN own.elems = 1..Len(own.elems)
      /\ \A i \in DOMAIN own.elems : own.elems[i] \in Declared
  BY <1>1, CountedFields
<1>3. TypePart(T, Lookup(sch, e.type), t)
  <2> DEFINE declared == Lookup(sch, e.type)
  <2>1. DeclaredType(sch, n, e) =
          CASE xsi # <<>>                          -> Substitute(sch, declared, LocalName(xsi[1].value))
            [] xsi = <<>> /\ declared.abstract     -> NoType
            [] xsi = <<>> /\ ~declared.abstract    -> declared
    BY DEF DeclaredType
  <2> HIDE DEF declared
  <2>2. ASSUME xsi = <<>> PROVE TypePart(T, declared, t)
    <3>1. T = Absent
      BY <2>2
    <3> HIDE DEF T, v
    <3>2. t = declared
      BY <2>1, <2>2
    <3> QED BY <3>1, <3>2 DEF TypePart
  <2>3. ASSUME xsi # <<>> PROVE TypePart(T, declared, t)
    <3>1. T = Member(TypeKey, v) /\ v[1] = "text" /\ v[2] = LocalName(xsi[1].value)
      BY <2>3 DEF Text
    <3>2. t = Substitute(sch, declared, v[2])
      <4> HIDE DEF T
      <4>1. t = Substitute(sch, declared, LocalName(xsi[1].value))
        BY <2>1, <2>3
      <4> QED BY <3>1, <4>1
    <3> HIDE DEF v, T
    <3>3. ToText(v) = v
      BY <3>1, ConvertedAgain
    <3> QED BY <3>1, <3>2, <3>3 DEF TypePart
  <2> QED BY <2>2, <2>3 DEF declared
<1>4. \A i \in DOMAIN own.attrs : A[i] = Error \/ AttrPart(A[i], own.attrs[i])
  <2> SUFFICES ASSUME NEW i \in DOMAIN own.attrs
               PROVE  A[i] = Error \/ AttrPart(A[i], own.attrs[i])
    OBVIOUS
  <2> DEFINE a == own.attrs[i]
  <2>1. A[i] = BindXMLAttr(sch, n, a)
    OBVIOUS
  <2> HIDE DEF a, A
  <2>2. BindXMLAttr(sch, n, a) = Absent \/ \E raw : BindXMLAttr(sch, n, a) = BindAttr(sch, a, raw)
    BY DEF BindXMLAttr
  <2>3. A[i] = Error \/ AttrPart(A[i], a)
    BY <2>1, <2>2, AttrParts DEF AttrPart
  <2> QED BY <2>3 DEF a
<1>5. \A i \in DOMAIN own.elems : E[i] = Error \/ ElemPart(E[i], own.elems[i])
  <2> SUFFICES ASSUME NEW i \in DOMAIN own.elems
               PROVE  E[i] = Error \/ ElemPart(E[i], own.elems[i])
    OBVIOUS
  <2>1. E[i] = BindXMLElem(FromXML, n, own.elems[i]) /\ own.elems[i] \in Declared
    BY <1>2
  <2> HIDE DEF E, own
  <2> QED BY <2>1, XMLElemPart
<1>6. Counted(A, Len(own.attrs)) /\ Counted(E, Len(own.elems))
  BY <1>2 DEF Counted
<1> HIDE DEF T, A, E
<1>7. FromMembers(w, t, T, A, E)
  BY <1>1, <1>4, <1>5, <1>6 DEF FromMembers
<1> HIDE DEF w, own
<1>8. FromObject(w, e)
  BY <1>3, <1>7 DEF FromObject
<1> QED BY <1>8 DEF w
LEMMA SubstituteCases ==
  ASSUME NEW declared, NEW name
  PROVE  \/ Substitute(sch, declared, name) = NoType
         \/ Substitute(sch, declared, name) = Lookup(sch, name)
BY DEF Substitute

\* A scalar type that a value is bound by is the declared one.
LEMMA NamedType ==
  ASSUME SchemaTypeOK, Unambiguous, NEW e, NEW t, t # NoType,
         t = Lookup(sch, e.type) \/ \E name : t = Substitute(sch, Lookup(sch, e.type), name)
  PROVE  /\ \E name : t = Lookup(sch, name)
         /\ Scalar(t) => t = Lookup(sch, e.type)
<1>1. CASE t = Lookup(sch, e.type)
  BY <1>1
<1>2. ASSUME NEW name, t = Substitute(sch, Lookup(sch, e.type), name)
      PROVE  t = Lookup(sch, name) /\ (Scalar(t) => t = Lookup(sch, e.type))
  <2>1. t = Lookup(sch, name)
    BY <1>2, SubstituteCases
  <2>2. ASSUME Scalar(t) PROVE t = Lookup(sch, e.type)
    BY <1>2, <2>2, ScalarStays
  <2> QED BY <2>1, <2>2
<1> QED BY <1>1, <1>2

LEMMA ItemCases ==
  ASSUME SchemaTypeOK, Unambiguous, NEW e \in Declared, NEW w, FromItem(w, e), w # Error
  PROVE  \/ w = Null /\ (e.nillable \/ e.min = 0)
         \/ FromScalar(w, e)
         \/ FromObject(w, e)
<1>1. ASSUME NEW src, Parsed(src), w = BindJSONItem(FromJSON, src, e), src # Null
      PROVE  FromScalar(w, e) \/ FromObject(w, e)
  <2> DEFINE t == JSONType(sch, src, e)
  <2>1. w = BindJSONOne(sch, FromJSON, src, e)
    BY <1>1, BindSteps DEF BindJSONItem, Parsed
  <2>2. BindJSONOne(sch, FromJSON, src, e) =
          CASE t = NoType -> Error
            [] t # NoType /\ Scalar(t) -> BindScalar(src, t)
            [] t # NoType /\ ~Scalar(t) /\ IsObject(src) -> BindJSONComplex(sch, FromJSON, src[2], t)
            [] OTHER -> Error
    BY DEF BindJSONOne
  <2>3. t = Lookup(sch, e.type) \/ \E name : t = Substitute(sch, Lookup(sch, e.type), name)
    BY DEF JSONType
  <2>4. /\ t # NoType
        /\ Scalar(t) => w = BindScalar(src, t)
        /\ ~Scalar(t) => IsObject(src) /\ w = BindJSONComplex(sch, FromJSON, src[2], t)
    <3> HIDE DEF t
    <3> QED BY <2>1, <2>2
  <2>5. (\E name : t = Lookup(sch, name)) /\ (Scalar(t) => t = Lookup(sch, e.type))
    <3> HIDE DEF t
    <3> QED BY <2>3, <2>4, NamedType
  <2>6. CASE Scalar(t)
    <3> HIDE DEF t
    <3> QED BY <2>4, <2>5, <2>6 DEF FromScalar
  <2>7. CASE ~Scalar(t)
    <3>1. PICK name : t = Lookup(sch, name)
      BY <2>5
    <3>2. src = Object(src[2]) /\ \A key \in KeysOf(src[2]) : Parsed(At(src[2], key))
      BY <1>1, <2>4, <2>7, ParsedObject
    <3> DEFINE members == src[2]
    <3>3. t = JSONType(sch, Object(members), e)
      BY <3>2
    <3> HIDE DEF members, t
    <3>4. w = BindJSONComplex(sch, FromJSON, members, t)
      BY <2>4, <2>7 DEF members
    <3>5. \A key \in KeysOf(members) : Parsed(At(members, key))
      BY <3>2 DEF members
    <3> QED BY <2>4, <2>7, <3>1, <3>3, <3>4, <3>5, JSONComplexCases
  <2> QED BY <2>6, <2>7
<1>2. ASSUME NEW n \in Written, w = FromXML[<<n, e>>]
      PROVE  (w = Null /\ e.nillable) \/ FromScalar(w, e) \/ FromObject(w, e)
  <2> DEFINE t == DeclaredType(sch, n, e)
  <2>1. w = BindXMLOne(sch, FromXML, n, e)
    BY <1>2, BindSteps
  <2>2. \/ w = Null /\ e.nillable
        \/ /\ t # NoType
           /\ Scalar(t) => w = BindScalar(Text(Content(n)), t)
           /\ ~Scalar(t) => w = BindXMLComplex(sch, FromXML, n, t)
    BY <2>1 DEF BindXMLOne
  <2>3. t # NoType =>
          t = Lookup(sch, e.type) \/ \E name : t = Substitute(sch, Lookup(sch, e.type), name)
    BY DEF DeclaredType
  <2> HIDE DEF t
  <2>4. t # NoType => (\E name : t = Lookup(sch, name)) /\ (Scalar(t) => t = Lookup(sch, e.type))
    BY <2>3, NamedType
  <2>5. CASE t # NoType /\ Scalar(t) /\ w = BindScalar(Text(Content(n)), t)
    BY <2>4, <2>5 DEF FromScalar
  <2>6. CASE t # NoType /\ ~Scalar(t) /\ w = BindXMLComplex(sch, FromXML, n, t)
    <3>1. PICK name : t = Lookup(sch, name)
      BY <2>4, <2>6
    <3>2. t = DeclaredType(sch, n, e)
      BY DEF t
    <3> QED BY <2>6, <3>1, <3>2, XMLComplexCases
  <2> QED BY <2>2, <2>5, <2>6
<1>3. ASSUME w = BindJSONItem(FromJSON, Null, e) PROVE w = Null /\ (e.nillable \/ e.min = 0)
  BY <1>3 DEF BindJSONItem
<1> QED BY <1>1, <1>2, <1>3 DEF FromItem
-----------------------------------------------------------------------------
(* What has been decoded is decoded again, from what JSON says of it. *)

LEMMA ItemAgain ==
  ASSUME SchemaTypeOK, Unambiguous, NEW d \in 0..Depth, NEW w \in ValueTrees[d],
         NEW e \in Declared, FromItem(w, e), w # Error,
         \A v \in Within(d) : \A f \in Declared : FromValue(v, f) => AgainValue(v, f)
  PROVE  Again(w, e) /\ ~IsList(w) /\ (w = Null => e.nillable \/ e.min = 0)
<1>1. w \in Carried
  BY ValueOK
<1>2. CASE w = Null /\ (e.nillable \/ e.min = 0)
  <2>1. JsonOf[w] = w
    BY <1>1, <1>2, JsonStep DEF Null
  <2>2. ~IsList(w)
    BY <1>2 DEF Null, IsList
  <2> QED BY <1>2, <2>1, <2>2 DEF Again, BindJSONItem
<1>3. CASE FromScalar(w, e)
  <2> DEFINE t == Lookup(sch, e.type)
  <2>1. PICK v : t # NoType /\ Scalar(t) /\ w = BindScalar(v, t)
    BY <1>3 DEF FromScalar
  <2> HIDE DEF t
  <2>2. w # Null /\ ~IsList(w)
    <3>1. \/ w = ToInt(v) \/ w = ToFloat(v) \/ w = ToBool(v) \/ w = ToText(v)
      BY <2>1, ScalarCases
    <3>2. w[1] \in {"int", "float", "nan", "bool", "text"}
      BY <3>1, ConvertedKinds
    <3> QED BY <3>2 DEF Null, IsList
  <2>3. ASSUME JsonOf[w] # Error PROVE BindJSONItem(FromJSON, JsonOf[w], e) = w
    <3>1. /\ BindScalar(JsonOf[w], t) = w
          /\ JsonOf[w] # Null /\ ~IsObject(JsonOf[w])
      BY <1>1, <2>1, <2>3, ScalarKept
    <3>2. JsonOf[w] \in Carried
      BY JsonOK, ValueOK
    <3> DEFINE src == JsonOf[w]
    <3> HIDE DEF src
    <3>3. JSONType(sch, src, e) = t
      BY <3>1 DEF JSONType, t, src
    <3>4. FromJSON[<<src, e>>] = BindScalar(src, t)
      BY <2>1, <3>2, <3>3, BindSteps DEF BindJSONOne, src
    <3> QED BY <3>1, <3>4 DEF BindJSONItem, src
  <2> QED BY <2>2, <2>3 DEF Again
<1>4. CASE FromObject(w, e)
  <2>1. PICK name, t, T, A, E :
          /\ t = Lookup(sch, name) /\ t # NoType /\ ~Scalar(t)
          /\ TypePart(T, Lookup(sch, e.type), t) /\ FromMembers(w, t, T, A, E)
    BY <1>4 DEF FromObject
  <2>2. IsObject(w)
    <3>1. w = ObjectOf(Parts(T, A, E))
      BY <2>1 DEF FromMembers
    <3>2. \A parts : ObjectOf(parts) = Error \/ IsObject(ObjectOf(parts))
      BY DEF ObjectOf, Object, IsObject
    <3> QED BY <3>1, <3>2
  <2>3. ~IsList(w) /\ w # Null
    BY <2>2 DEF IsList, IsObject, Null
  <2>4. Again(w, e)
    BY <2>1, ComplexAgain DEF Again
  <2> QED BY <2>3, <2>4
<1> QED BY <1>2, <1>3, <1>4, ItemCases
LEMMA JsonNull == \A v \in Carried : v = Null => JsonOf[v] = Null
<1> SUFFICES ASSUME NEW v \in Carried, v = Null PROVE JsonOf[v] = v
  OBVIOUS
<1>1. v[1] = "null"
  BY DEF Null
<1> QED BY <1>1, JsonStep

\* A list has been decoded item by item, and nothing else has.
LEMMA ValueParts ==
  ASSUME NEW e \in Declared, NEW v, FromValue(v, e)
  PROVE  \/ FromItem(v, e) /\ (~Repeated(e) \/ v = Null \/ v = Error)
         \/ /\ Repeated(e)
            /\ \E items : v = ListOf(items) /\ \A i \in DOMAIN items : FromItem(items[i], e)
<1>1. ASSUME NEW src, Parsed(src), v = BindJSONValue(FromJSON, src, e), ~(Repeated(e) /\ src # Null)
      PROVE  FromItem(v, e) /\ (~Repeated(e) \/ v = Null \/ v = Error)
  <2>1. v = BindJSONItem(FromJSON, src, e)
    BY <1>1 DEF BindJSONValue
  <2>2. src = Null => v = Null \/ v = Error
    BY <2>1 DEF BindJSONItem
  <2> QED BY <1>1, <2>1, <2>2 DEF FromItem
<1>2. ASSUME NEW src, Parsed(src), v = BindJSONValue(FromJSON, src, e), Repeated(e), src # Null
      PROVE  \E items : v = ListOf(items) /\ \A i \in DOMAIN items : FromItem(items[i], e)
  <2> DEFINE arr == AsList(src)
             items == [i \in DOMAIN arr |-> BindJSONItem(FromJSON, arr[i], e)]
  <2>1. v = ListOf(items)
    BY <1>2 DEF BindJSONValue
  <2>2. \A i \in DOMAIN arr : Parsed(arr[i])
    <3>1. CASE IsList(src)
      BY <1>2, <3>1, ParsedList DEF AsList
    <3>2. CASE ~IsList(src)
      BY <1>2, <3>2 DEF AsList
    <3> QED BY <3>1, <3>2
  <2> HIDE DEF arr
  <2>3. \A i \in DOMAIN items : FromItem(items[i], e)
    BY <2>2 DEF FromItem
  <2> HIDE DEF items
  <2> QED BY <2>1, <2>3
<1>3. ASSUME NEW nodes \in Seq(Written), nodes # <<>>, v = BindXMLRepeats(FromXML, nodes, e)
      PROVE  \/ FromItem(v, e) /\ ~Repeated(e)
             \/ /\ Repeated(e)
                /\ \E items : v = ListOf(items) /\ \A i \in DOMAIN items : FromItem(items[i], e)
  <2>1. Len(nodes) \in Nat /\ DOMAIN nodes = 1..Len(nodes) /\ \A i \in DOMAIN nodes : nodes[i] \in Written
    BY LenProperties, ElementOfSeq
  <2>2. 1 \in DOMAIN nodes
    BY <1>3, <2>1, EmptySeq
  <2>3. CASE ~Repeated(e)
    BY <1>3, <2>1, <2>2, <2>3 DEF BindXMLRepeats, FromItem
  <2>4. CASE Repeated(e)
    <3> DEFINE items == [i \in DOMAIN nodes |-> FromXML[<<nodes[i], e>>]]
    <3>1. v = ListOf(items)
      BY <1>3, <2>4 DEF BindXMLRepeats
    <3>2. \A i \in DOMAIN items : FromItem(items[i], e)
      BY <2>1 DEF FromItem
    <3> HIDE DEF items
    <3> QED BY <2>4, <3>1, <3>2
  <2> QED BY <2>3, <2>4
<1> QED BY <1>1, <1>2, <1>3 DEF FromValue

LEMMA ValueAgain ==
  ASSUME SchemaTypeOK, Unambiguous, NEW d \in 0..Depth, NEW v \in ValueTrees[d],
         NEW e \in Declared, FromValue(v, e),
         \A u \in Within(d) : \A f \in Declared : FromValue(u, f) => AgainValue(u, f)
  PROVE  AgainValue(v, e)
<1> SUFFICES ASSUME JsonOf[v] # Error
             PROVE  BindJSONValue(FromJSON, JsonOf[v], e) = v
  BY DEF AgainValue
<1>1. v \in Carried
  BY ValueOK
<1>2. v # Error
  BY <1>1, JsonStep DEF Error
<1>3. CASE FromItem(v, e) /\ (~Repeated(e) \/ v = Null)
  <2>1. BindJSONItem(FromJSON, JsonOf[v], e) = v
    BY <1>2, <1>3, ItemAgain DEF Again
  <2>2. v = Null => JsonOf[v] = Null
    BY <1>1, JsonNull
  <2> QED BY <1>3, <2>1, <2>2 DEF BindJSONValue
<1>4. ASSUME Repeated(e), NEW items, v = ListOf(items), \A i \in DOMAIN items : FromItem(items[i], e)
      PROVE  BindJSONValue(FromJSON, JsonOf[v], e) = v
  <2>1. v = List(items) /\ \A i \in DOMAIN items : items[i] # Error
    BY <1>2, <1>4, ListOfItems
  <2>2. IsList(v) /\ v[2] = items
    BY <2>1 DEF List, IsList
  <2>3. items \in Seq(Within(d)) /\ Within(d) \subseteq ValueTrees[d]
    BY <2>2, ValueOK, WithinOK
  <2>4. \A i \in DOMAIN items : items[i] \in ValueTrees[d]
    BY <2>3, ElementOfSeq, LenProperties
  <2> DEFINE written == [i \in DOMAIN items |-> JsonOf[items[i]]]
             again == [i \in DOMAIN written |-> BindJSONItem(FromJSON, written[i], e)]
  <2>5. JsonOf[v] = List(written) /\ \A i \in DOMAIN items : JsonOf[items[i]] # Error
    BY <1>1, <2>2, JsonList
  <2>6. \A i \in DOMAIN items : BindJSONItem(FromJSON, JsonOf[items[i]], e) = items[i]
    BY <1>4, <2>1, <2>4, <2>5, ItemAgain DEF Again
  <2>7. DOMAIN items = 1..Len(items) /\ items = [i \in DOMAIN items |-> items[i]]
    <3>1. items \in [1..Len(items) -> Within(d)]
      BY <2>3, LenProperties
    <3> QED BY <3>1
  <2>8. again = items
    BY <2>6, <2>7
  <2>9. BindJSONValue(FromJSON, List(written), e) = ListOf(again)
    <3>1. List(written) # Null /\ AsList(List(written)) = written
      BY DEF List, Null, AsList, IsList
    <3> HIDE DEF written
    <3> QED BY <1>4, <3>1 DEF BindJSONValue
  <2> HIDE DEF again, written
  <2> QED BY <1>4, <2>5, <2>8, <2>9
<1> QED BY <1>2, <1>3, <1>4, ValueParts

LEMMA DecodedAgain ==
  ASSUME SchemaTypeOK, Unambiguous
  PROVE  \A v \in Carried : \A e \in Declared : FromValue(v, e) => AgainValue(v, e)
<1> DEFINE H(d) == \A v \in ValueTrees[d] : \A e \in Declared : FromValue(v, e) => AgainValue(v, e)
           S == {d \in Nat : d \in 0..Depth => H(d)}
<1>1. ASSUME NEW d \in 0..Depth, d # 0 => H(d - 1) PROVE H(d)
  <2>1. \A v \in Within(d) : \A e \in Declared : FromValue(v, e) => AgainValue(v, e)
    <3>1. CASE d = 0
      BY <3>1 DEF Within, Inner
    <3>2. CASE d # 0
      BY <1>1, <3>2, WithinOK
    <3> QED BY <3>1, <3>2
  <2> QED BY <2>1, ValueAgain
<1> HIDE DEF H
<1>2. 0 \in S
  <2>1. 0 \in 0..Depth => H(0)
    <3> SUFFICES ASSUME 0 \in 0..Depth PROVE H(0)
      OBVIOUS
    <3> QED BY <1>1
  <2> QED BY <2>1
<1>3. ASSUME NEW d \in Nat, d \in S PROVE d + 1 \in S
  <2>1. d + 1 \in Nat /\ (d + 1) - 1 = d /\ d + 1 # 0
    OBVIOUS
  <2>2. d + 1 \in 0..Depth => d \in 0..Depth
    BY DepthAssumption DEF DepthAssumption
  <2>3. d + 1 \in 0..Depth => H(d + 1)
    BY <1>1, <1>3, <2>1, <2>2
  <2> QED BY <2>1, <2>3
<1>4. Nat \subseteq S
  <2> HIDE DEF S
  <2> QED BY <1>2, <1>3, Induction
<1>5. Depth \in Nat /\ Depth \in 0..Depth
  BY DepthAssumption DEF DepthAssumption
<1>6. H(Depth)
  BY <1>4, <1>5
<1> QED BY <1>6 DEF H, Carried
-----------------------------------------------------------------------------
(* The whole document. *)

\* What is posted and decoded without error is decoded from the root's field.
LEMMA DecodeCases ==
  ASSUME SchemaTypeOK, sch # NoSchema, NEW doc, IsDocument(doc), Decode(sch, doc) # Error
  PROVE  FromValue(Decode(sch, doc), RootField(sch)) \/ FromItem(Decode(sch, doc), RootField(sch))
<1> DEFINE root == RootField(sch)
           v == Decode(sch, doc)
<1>1. CASE doc[1] = "xml" /\ doc[2] \in Written
  <2>1. v = DecodeXML(sch, doc[2])
    BY <1>1 DEF Decode
  <2>2. v = FromXML[<<doc[2], root>>]
    BY <2>1 DEF DecodeXML, FromXML
  <2> QED BY <1>1, <2>2 DEF FromItem
<1>2. CASE doc[1] = "json" /\ doc[2] \in Carried /\ JsonOf[doc[2]] = doc[2]
  <2> DEFINE raw == doc[2]
             wrapped == IsObject(raw) /\ root.name \in KeysOf(raw[2])
             src == IF wrapped THEN At(raw[2], root.name) ELSE raw
  <2>1. v = DecodeJSON(sch, raw)
    BY <1>2 DEF Decode
  <2>2. v = BindJSONValue(FromJSON, src, root)
    BY <2>1 DEF DecodeJSON, FromJSON
  <2>3. Parsed(raw)
    BY <1>2 DEF Parsed
  <2>4. Parsed(src)
    BY <2>3, ParsedObject
  <2> HIDE DEF src, v, root
  <2>5. FromValue(v, root)
    BY <2>2, <2>4 DEF FromValue
  <2> QED BY <2>5 DEF v, root
<1> QED BY <1>1, <1>2 DEF IsDocument

\* A document that has been installed.
Installed == IsDocument(posted) /\ value = Processed(sch, posted) /\ value \in Carried

LEMMA InstalledKept ==
  ASSUME SchemaTypeOK, sch # NoSchema, value # Error, Installed, Unambiguous
  PROVE  ThroughJSON(value) = value
<1> DEFINE root == RootField(sch)
<1>1. root \in Declared
  BY RootOK
<1>2. /\ value = Decode(sch, posted) /\ EncodeXML(sch, value) # NoNode /\ EncodeJSON(sch, value) # Error
  BY DEF Installed, Processed, InBoth
<1>3. JsonOf[value] # Error /\ EncodeJSON(sch, value) = Object({<<root.name, JsonOf[value]>>})
  BY <1>2 DEF EncodeJSON, Member
<1>4. DecodeJSON(sch, EncodeJSON(sch, value)) = BindJSONValue(FromJSON, JsonOf[value], root)
  <2> DEFINE members == {<<root.name, JsonOf[value]>>}
  <2>1. IsObject(Object(members)) /\ Object(members)[2] = members
    BY DEF IsObject, Object
  <2>2. KeysOf(members) = {root.name} /\ At(members, root.name) = JsonOf[value]
    <3>1. Member(root.name, JsonOf[value]) = Object(members) /\ Object(members) # Error
      BY <1>3 DEF Member, Object, Error
    <3> HIDE DEF members, root
    <3> QED BY <2>1, <3>1, MemberOK
  <2> HIDE DEF members
  <2>3. DecodeJSON(sch, Object(members)) = BindJSONValue(BindJSON(sch), At(members, root.name), root)
    BY <2>1, <2>2 DEF DecodeJSON
  <2> QED BY <1>3, <2>2, <2>3 DEF members, FromJSON
<1>5. value \in Carried
  BY DEF Installed
<1>6. BindJSONValue(FromJSON, JsonOf[value], root) = value
  <2>1. CASE FromValue(value, root)
    <3> HIDE DEF root
    <3> QED BY <1>1, <1>3, <1>5, <2>1, DecodedAgain DEF AgainValue
  <2>2. CASE FromItem(value, root)
    <3>1. Depth \in 0..Depth /\ value \in ValueTrees[Depth]
      BY <1>5, DepthAssumption DEF DepthAssumption, Carried
    <3>2. \A v \in Within(Depth) : \A f \in Declared : FromValue(v, f) => AgainValue(v, f)
      BY <3>1, WithinOK, DecodedAgain
    <3>3. Again(value, root)
      <4> HIDE DEF root
      <4> QED BY <1>1, <2>2, <3>1, <3>2, ItemAgain
    <3>4. ~Repeated(root) \/ value = Null
      BY <1>2 DEF EncodeXML
    <3>5. \A v \in Carried : v = Null => JsonOf[v] = Null
      BY JsonNull
    <3> QED BY <1>3, <1>5, <3>3, <3>4, <3>5 DEF Again, BindJSONValue
  <2>3. FromValue(value, root) \/ FromItem(value, root)
    <3>1. IsDocument(posted)
      BY DEF Installed
    <3> QED BY <1>2, <3>1, DecodeCases
  <2> QED BY <2>1, <2>2, <2>3
<1> QED BY <1>4, <1>6 DEF ThroughJSON

(* The inductive invariant: a schema is one that the parsers can return, and the
   document is what was posted, decoded by it. *)
DocInv == SchemaTypeOK /\ (sch # NoSchema /\ value # Error => Installed)

LEMMA DocInvariant == DocSpec => []DocInv
<1>1. DocInit => DocInv
  <2> SUFFICES ASSUME DocInit PROVE DocInv
    OBVIOUS
  <2>1. sch = NoSchema /\ value = Error
    BY DEF DocInit
  <2>2. NoSchema.root = NoName /\ NoSchema.elems = <<>> /\ NoSchema.types = <<>>
    BY DEF NoSchema, NoName
  <2>3. NoName \in Names
    BY StringsOK DEF Names, Str, NoName, NoText
  <2>4. DOMAIN NoSchema.types = {}
    BY <2>2
  <2>5. IsFiniteSet(DOMAIN NoSchema.types) /\ NoSchema.types \in [DOMAIN NoSchema.types -> TypeSet]
    BY <2>2, <2>4, FS_EmptySet
  <2>6. NoSchema.elems \in Seq(Declared)
    BY <2>2, EmptySeq
  <2> QED BY <2>1, <2>2, <2>3, <2>4, <2>5, <2>6 DEF DocInv, SchemaTypeOK, Names
<1>2. DocInv /\ [DocNext]_docVars => DocInv'
  <2> SUFFICES ASSUME DocInv, [DocNext]_docVars PROVE DocInv'
    OBVIOUS
  <2>1. CASE LoadSchema
    BY <2>1 DEF LoadSchema, DocInv
  <2>2. CASE Install
    <3>1. SchemaTypeOK' /\ sch' = sch
      BY <2>2 DEF Install, DocInv, SchemaTypeOK
    <3>2. Installed'
      BY <2>2 DEF Install, Installed
    <3> QED BY <3>1, <3>2 DEF DocInv
  <2>3. CASE InstallCatalog
    BY <2>3 DEF InstallCatalog, DocInv, SchemaTypeOK
  <2>4. CASE UNCHANGED docVars
    BY <2>4 DEF docVars, DocInv, SchemaTypeOK, Installed
  <2> QED BY <2>1, <2>2, <2>3, <2>4 DEF DocNext
<1> QED BY <1>1, <1>2, PTL DEF DocSpec

\* Of any schema that is loaded, and of any document that is posted in whichever
\* format, what the server keeps is read again from the JSON that it serves, if no
\* name in the schema has two meanings (DecodeJSON and EncodeJSON in instance.go).
THEOREM JSONKept == DocSpec => []JSONKeepsDocument
<1>1. DocInv => JSONKeepsDocument
  BY InstalledKept DEF DocInv, JSONKeepsDocument
<1> QED BY <1>1, DocInvariant, PTL

\* The same server: the types of the loaded schema inherit as schema.go promises.
THEOREM SchemaInherits == DocSpec => []Inheritance
<1>1. DocInv => Inheritance
  BY TypesInherit DEF DocInv
<1> QED BY <1>1, DocInvariant, PTL
=============================================================================
