----------------------------- MODULE TreeProofs -----------------------------
(***************************************************************************)
(* Writing a tree of elements and parsing what was written, for trees of   *)
(* any names and values, however many children they have and however deep  *)
(* they nest.                                                              *)
(***************************************************************************)
EXTENDS KeptXML, Inductions, SequenceTheorems

\* The SMT backend knows neither STRING nor the empty string.
Str == STRING
NoText == ""
AttrSeqs == Seq(AttrSet)

(* Nodes, and the trees that they are nested to. *)

LEMMA NodeOK ==
  ASSUME NEW K, NEW name \in Str, NEW attrs \in AttrSeqs, NEW text \in Str, NEW kids \in K
  PROVE  /\ Node(name, attrs, text, kids) \in NodeSet(K)
         /\ Node(name, attrs, text, kids).name = name
         /\ Node(name, attrs, text, kids).attrs = attrs
         /\ Node(name, attrs, text, kids).text = text
         /\ Node(name, attrs, text, kids).kids = kids
BY Zenon DEF Node, NodeSet, Str, AttrSeqs

LEMMA NodeFields ==
  ASSUME NEW K, NEW n \in NodeSet(K)
  PROVE  /\ n.name \in Str /\ n.attrs \in AttrSeqs /\ n.text \in Str /\ n.kids \in K
         /\ n = Node(n.name, n.attrs, n.text, n.kids)
BY Zenon DEF Node, NodeSet, Str, AttrSeqs

LEMMA TreesAre ==
  /\ Trees[0] = NodeSet({<<>>})
  /\ \A d \in Nat : Trees[d + 1] = NodeSet(Seq(Trees[d]))
<1>1. Trees = [d \in Nat |-> NodeSet(IF d = 0 THEN {<<>>} ELSE Seq(Trees[d - 1]))]
  BY DEF Trees
<1>2. \A d \in Nat : d + 1 \in Nat /\ d + 1 # 0 /\ (d + 1) - 1 = d
  OBVIOUS
<1>3. Trees[0] = NodeSet({<<>>})
  BY <1>1
<1>4. ASSUME NEW d \in Nat PROVE Trees[d + 1] = NodeSet(Seq(Trees[d]))
  BY <1>1, <1>2
<1> QED BY <1>3, <1>4

LEMMA NodeSetGrows ==
  ASSUME NEW K, NEW L, K \subseteq L
  PROVE  NodeSet(K) \subseteq NodeSet(L)
BY Zenon DEF NodeSet

LEMMA TreesGrow ==
  \A d \in Nat : \A e \in 0..d : Trees[e] \subseteq Trees[d]
<1> DEFINE S == {d \in Nat : Trees[d] \subseteq Trees[d + 1]}
<1>1. 0 \in S
  <2>1. {<<>>} \subseteq Seq(Trees[0])
    BY EmptySeq
  <2>2. Trees[0] \subseteq Trees[0 + 1]
    <3>1. Trees[0 + 1] = NodeSet(Seq(Trees[0])) /\ Trees[0] = NodeSet({<<>>})
      BY TreesAre
    <3>2. NodeSet({<<>>}) \subseteq NodeSet(Seq(Trees[0]))
      BY <2>1, NodeSetGrows
    <3> QED BY <3>1, <3>2
  <2> QED BY <2>2
<1>2. ASSUME NEW d \in Nat, d \in S PROVE d + 1 \in S
  <2>1. Seq(Trees[d]) \subseteq Seq(Trees[d + 1])
    BY <1>2, SeqMonotonic
  <2>2. Trees[d + 1] = NodeSet(Seq(Trees[d])) /\ Trees[(d + 1) + 1] = NodeSet(Seq(Trees[d + 1]))
    BY TreesAre
  <2>3. Trees[d + 1] \subseteq Trees[(d + 1) + 1]
    BY <2>1, <2>2, NodeSetGrows
  <2> QED BY <2>3
<1> HIDE DEF S
<1>3. Nat \subseteq S
  BY <1>1, <1>2, Induction
<1>4. \A d \in Nat : Trees[d] \subseteq Trees[d + 1]
  BY <1>3 DEF S
<1> DEFINE U == {d \in Nat : \A e \in 0..d : Trees[e] \subseteq Trees[d]}
<1>5. 0 \in U
  OBVIOUS
<1>6. ASSUME NEW d \in Nat, d \in U PROVE d + 1 \in U
  <2>1. ASSUME NEW e \in 0..(d + 1) PROVE Trees[e] \subseteq Trees[d + 1]
    <3>1. CASE e = d + 1
      BY <3>1
    <3>2. CASE e \in 0..d
      BY <1>4, <1>6, <3>2
    <3> QED BY <2>1, <3>1, <3>2
  <2> QED BY <2>1
<1> HIDE DEF U
<1>7. Nat \subseteq U
  BY <1>5, <1>6, Induction
<1> QED BY <1>7 DEF U

(* Sequences that begin with an element. *)

LEMMA ConsOK ==
  ASSUME NEW T, NEW x \in T, NEW s \in Seq(T)
  PROVE  /\ <<x>> \o s \in Seq(T) /\ <<x>> \o s # <<>>
         /\ Head(<<x>> \o s) = x /\ Tail(<<x>> \o s) = s
         /\ (<<x>> \o s)[1] = x
<1>1. <<x>> \in Seq(T) /\ Len(<<x>>) = 1
  OBVIOUS
<1>2. /\ <<x>> \o s \in Seq(T) /\ Len(<<x>> \o s) = 1 + Len(s) /\ Len(s) \in Nat
      /\ \A i \in 1..(1 + Len(s)) : (<<x>> \o s)[i] = IF i <= 1 THEN <<x>>[i] ELSE s[i - 1]
  BY <1>1, ConcatProperties, LenProperties
<1>3. <<x>> \o s # <<>> /\ (<<x>> \o s)[1] = x
  BY <1>2
<1>4. /\ Tail(<<x>> \o s) \in Seq(T) /\ Len(Tail(<<x>> \o s)) = Len(s)
      /\ \A i \in 1..Len(s) : Tail(<<x>> \o s)[i] = (<<x>> \o s)[i + 1]
  BY <1>2, <1>3, HeadTailProperties
<1>5. \A i \in 1..Len(s) : Tail(<<x>> \o s)[i] = s[i]
  BY <1>2, <1>4
<1>6. Tail(<<x>> \o s) = s
  BY <1>4, <1>5, SeqEqual
<1>7. Head(<<x>> \o s) = x
  BY <1>2, <1>3
<1> QED BY <1>2, <1>3, <1>6, <1>7

LEMMA HeadTail ==
  ASSUME NEW T, NEW s \in Seq(T), s # <<>>
  PROVE  s[1] \in T /\ Tail(s) \in Seq(T) /\ s = <<s[1]>> \o Tail(s)
<1>1. s[1] \in T /\ Tail(s) \in Seq(T)
  BY HeadTailProperties
<1>2. Len(s) \in Nat /\ Len(s) # 0
  BY EmptySeq
<1>3. SubSeq(s, 1, Len(s)) = s /\ Tail(s) = SubSeq(s, 2, Len(s))
  BY SubSeqFull, TailIsSubSeq
<1>4. SubSeq(s, 1, Len(s)) = <<s[1]>> \o SubSeq(s, 1 + 1, Len(s))
  <2>1. 1 \in 1..Len(s) /\ Len(s) \in 1..Len(s)
    BY <1>2
  <2> QED BY <2>1, SubSeqRecursiveFirst
<1> QED BY <1>1, <1>3, <1>4

(* Induction over trees: first over the length of a sequence, then over how deep
   its trees nest. *)

LEMMA SequenceInduction ==
  ASSUME NEW T, NEW S, <<>> \in S,
         \A s \in Seq(T) : s # <<>> /\ Tail(s) \in S => s \in S
  PROVE  Seq(T) \subseteq S
<1> DEFINE L == {k \in Nat : \A s \in Seq(T) : Len(s) = k => s \in S}
<1>1. 0 \in L
  <2>1. ASSUME NEW s \in Seq(T), Len(s) = 0 PROVE s = <<>>
    BY <2>1, EmptySeq
  <2> QED BY <2>1
<1>2. ASSUME NEW k \in Nat, k \in L PROVE k + 1 \in L
  <2>1. ASSUME NEW s \in Seq(T), Len(s) = k + 1 PROVE s \in S
    <3>1. s # <<>>
      BY <2>1, EmptySeq
    <3>2. Tail(s) \in Seq(T) /\ Len(Tail(s)) = k
      BY <2>1, <3>1, HeadTailProperties
    <3>3. Tail(s) \in S
      BY <1>2, <3>2
    <3> QED BY <3>1, <3>3
  <2> QED BY <2>1
<1> HIDE DEF L
<1>3. Nat \subseteq L
  BY <1>1, <1>2, Induction
<1>4. \A s \in Seq(T) : Len(s) \in Nat
  BY LenProperties
<1> QED BY <1>3, <1>4 DEF L

LEMMA KidsOK ==
  ASSUME NEW d \in 0..Depth, NEW n \in Trees[d]
  PROVE  /\ n \in Trees[Depth] /\ n.kids \in Forests
         /\ n.name \in Str /\ n.attrs \in AttrSeqs /\ n.text \in Str
         /\ d = 0 => n.kids = <<>>
         /\ d # 0 => d - 1 \in 0..Depth /\ n.kids \in Seq(Trees[d - 1])
<1>1. Depth \in Nat /\ d \in Nat
  BY DepthAssumption DEF DepthAssumption
<1>2. n \in Trees[Depth]
  BY <1>1, TreesGrow
<1>3. CASE d = 0
  <2>1. n \in NodeSet({<<>>})
    BY <1>3, TreesAre
  <2>2. /\ n.name \in Str /\ n.attrs \in AttrSeqs /\ n.text \in Str /\ n.kids \in {<<>>}
    BY <2>1, NodeFields
  <2>3. n.kids \in Forests
    BY <2>2, EmptySeq DEF Forests
  <2> QED BY <1>2, <1>3, <2>2, <2>3
<1>4. CASE d # 0
  <2>1. d - 1 \in 0..Depth /\ d - 1 \in Nat /\ (d - 1) + 1 = d
    BY <1>1, <1>4
  <2>2. n \in NodeSet(Seq(Trees[d - 1]))
    <3>1. Trees[(d - 1) + 1] = NodeSet(Seq(Trees[d - 1]))
      BY <2>1, TreesAre
    <3> QED BY <2>1, <3>1
  <2>3. n.name \in Str /\ n.attrs \in AttrSeqs /\ n.text \in Str /\ n.kids \in Seq(Trees[d - 1])
    BY <2>2, NodeFields
  <2>4. Trees[d - 1] \subseteq Trees[Depth]
    BY <1>1, <2>1, TreesGrow
  <2>5. n.kids \in Forests
    BY <2>3, <2>4, SeqMonotonic DEF Forests
  <2> QED BY <1>2, <1>4, <2>1, <2>3, <2>5
<1> QED BY <1>3, <1>4

\* What holds of no trees, and of some when it holds of the children of the
\* first and of the others, holds of all.
LEMMA ForestInduction ==
  ASSUME NEW S, <<>> \in S,
         \A ns \in Forests : ns # <<>> /\ ns[1].kids \in S /\ Tail(ns) \in S => ns \in S
  PROVE  Forests \subseteq S
<1> DEFINE T == {d \in Nat : d <= Depth => Seq(Trees[d]) \subseteq S}
<1>1. Depth \in Nat
  BY DepthAssumption DEF DepthAssumption
<1>2. ASSUME NEW d \in 0..Depth, \A n \in Trees[d] : n.kids \in S
      PROVE  Seq(Trees[d]) \subseteq S
  <2>1. Trees[d] \subseteq Trees[Depth]
    BY <1>1, TreesGrow
  <2>2. ASSUME NEW s \in Seq(Trees[d]), s # <<>>, Tail(s) \in S PROVE s \in S
    <3>1. s \in Forests
      BY <2>1, SeqMonotonic DEF Forests
    <3>2. s[1] \in Trees[d]
      BY <2>2, HeadTail
    <3> QED BY <1>2, <2>2, <3>1, <3>2
  <2> QED BY <2>2, SequenceInduction
<1>3. 0 \in T
  <2>1. 0 \in 0..Depth
    BY <1>1
  <2>2. \A n \in Trees[0] : n.kids \in S
    BY <2>1, KidsOK
  <2> QED BY <1>2, <2>1, <2>2
<1>4. ASSUME NEW d \in Nat, d \in T PROVE d + 1 \in T
  <2>1. ASSUME d + 1 <= Depth PROVE Seq(Trees[d + 1]) \subseteq S
    <3>1. d + 1 \in 0..Depth /\ d + 1 # 0 /\ (d + 1) - 1 = d /\ d <= Depth
      BY <1>1, <2>1
    <3>2. \A n \in Trees[d + 1] : n.kids \in Seq(Trees[d])
      BY <3>1, KidsOK
    <3>3. \A n \in Trees[d + 1] : n.kids \in S
      BY <1>4, <3>1, <3>2
    <3> QED BY <1>2, <3>1, <3>3
  <2> QED BY <2>1
<1> HIDE DEF T
<1>5. Nat \subseteq T
  BY <1>3, <1>4, Induction
<1> QED BY <1>1, <1>5 DEF T, Forests
-----------------------------------------------------------------------------
(* What becomes of attributes and of trees. *)

LEMMA StringsOK ==
  /\ NoText \in Str
  /\ \A name \in DOMAIN Qualified :
       Qualified[name][1] \in Str /\ Qualified[name][2] \in Str
<1>1. \A S, T : \A p \in S \X T : p[1] \in S /\ p[2] \in T
  OBVIOUS
<1>2. \A name \in DOMAIN Qualified : Qualified[name] \in Str \X Str
  BY StringAssumption, Zenon DEF StringAssumption, Str
<1>3. NoText \in Str
  BY StringAssumption, Zenon DEF StringAssumption, Str, NoText
<1> QED BY <1>1, <1>2, <1>3

LEMMA AttributesOK ==
  ASSUME NEW attrs \in AttrSeqs
  PROVE  ReparsedAttrs(attrs) \in AttrSeqs
<1>1. \A space, name, value \in Str : Attribute(space, name, value) \in AttrSet
  BY Zenon DEF Attribute, AttrSet, Str
<1>2. \A a \in AttrSet : a.name \in Str /\ a.value \in Str
  BY Zenon DEF AttrSet, Str
<1>3. ASSUME NEW a \in AttrSet PROVE ReparsedAttr(a) \in AttrSet
  <2>1. Plain(a.name, a.value) = Attribute(NoText, a.name, a.value)
    BY Zenon DEF Plain, NoText
  <2>2. Plain(a.name, a.value) \in AttrSet
    BY <1>1, <1>2, <2>1, StringsOK
  <2>3. CASE a.name \in DOMAIN Qualified
    <3>1. Attribute(Qualified[a.name][1], Qualified[a.name][2], a.value) \in AttrSet
      BY <1>1, <1>2, <2>3, StringsOK
    <3> QED BY <2>3, <3>1 DEF ReparsedAttr
  <2> QED BY <2>2, <2>3 DEF ReparsedAttr
<1>4. attrs \in Seq(AttrSet)
  BY DEF AttrSeqs
<1>5. Len(attrs) \in Nat /\ DOMAIN attrs = 1..Len(attrs) /\ \A i \in 1..Len(attrs) : attrs[i] \in AttrSet
  BY <1>4, LenProperties, ElementOfSeq
<1>6. \A i \in 1..Len(attrs) : ReparsedAttr(attrs[i]) \in AttrSet
  BY <1>3, <1>5
<1>7. [i \in 1..Len(attrs) |-> ReparsedAttr(attrs[i])] \in Seq(AttrSet)
  BY <1>5, <1>6
<1> QED BY <1>5, <1>7 DEF ReparsedAttrs, AttrSeqs

ReparsedAll(ns) == ForEach(Reparsed, ns)

LEMMA ReparsedIs ==
  \A n \in Trees[Depth] :
    Reparsed[n] = Node(n.name, ReparsedAttrs(n.attrs), n.text, ReparsedAll(n.kids))
<1>1. Reparsed = [n \in Trees[Depth] |->
         Node(n.name, ReparsedAttrs(n.attrs), n.text, ForEach(Reparsed, n.kids))]
  BY DEF Reparsed, Written
<1>2. Reparsed = [n \in Trees[Depth] |->
         Node(n.name, ReparsedAttrs(n.attrs), n.text, ReparsedAll(n.kids))]
  BY <1>1, Zenon DEF ReparsedAll
<1> QED BY <1>2

LEMMA AllOK ==
  ASSUME NEW T, NEW ns \in Seq(T), \A n \in T : Reparsed[n] \in T
  PROVE  ReparsedAll(ns) \in Seq(T) /\ Len(ReparsedAll(ns)) = Len(ns)
<1>1. Len(ns) \in Nat /\ DOMAIN ns = 1..Len(ns) /\ \A i \in 1..Len(ns) : ns[i] \in T
  BY LenProperties, ElementOfSeq
<1>2. ReparsedAll(ns) = [i \in 1..Len(ns) |-> Reparsed[ns[i]]]
  BY <1>1 DEF ReparsedAll, ForEach
<1> QED BY <1>1, <1>2

LEMMA ReparsedOK ==
  \A d \in 0..Depth : \A n \in Trees[d] : Reparsed[n] \in Trees[d]
<1> DEFINE S == {d \in Nat : d <= Depth => \A n \in Trees[d] : Reparsed[n] \in Trees[d]}
<1>1. Depth \in Nat
  BY DepthAssumption DEF DepthAssumption
<1>2. 0 \in S
  <2>1. ASSUME NEW n \in Trees[0] PROVE Reparsed[n] \in Trees[0]
    <3>1. 0 \in 0..Depth
      BY <1>1
    <3>2. n \in Trees[Depth] /\ n.name \in Str /\ n.attrs \in AttrSeqs /\ n.text \in Str /\ n.kids = <<>>
      BY <3>1, KidsOK
    <3>3. ReparsedAll(<<>>) \in {<<>>}
      BY DEF ReparsedAll, ForEach
    <3>4. ReparsedAttrs(n.attrs) \in AttrSeqs
      BY <3>2, AttributesOK
    <3>5. Node(n.name, ReparsedAttrs(n.attrs), n.text, ReparsedAll(<<>>)) \in NodeSet({<<>>})
      BY <3>2, <3>3, <3>4, NodeOK
    <3> QED BY <3>2, <3>5, ReparsedIs, TreesAre
  <2> QED BY <2>1
<1>3. ASSUME NEW d \in Nat, d \in S PROVE d + 1 \in S
  <2>1. ASSUME d + 1 <= Depth, NEW n \in Trees[d + 1] PROVE Reparsed[n] \in Trees[d + 1]
    <3>1. d + 1 \in 0..Depth /\ d + 1 # 0 /\ (d + 1) - 1 = d /\ d <= Depth
      BY <1>1, <2>1
    <3>2. /\ n \in Trees[Depth] /\ n.name \in Str /\ n.attrs \in AttrSeqs /\ n.text \in Str
          /\ n.kids \in Seq(Trees[d])
      BY <2>1, <3>1, KidsOK
    <3>3. \A m \in Trees[d] : Reparsed[m] \in Trees[d]
      BY <1>3, <3>1
    <3>4. ReparsedAll(n.kids) \in Seq(Trees[d])
      BY <3>2, <3>3, AllOK
    <3>5. ReparsedAttrs(n.attrs) \in AttrSeqs
      BY <3>2, AttributesOK
    <3>6. Node(n.name, ReparsedAttrs(n.attrs), n.text, ReparsedAll(n.kids)) \in NodeSet(Seq(Trees[d]))
      BY <3>2, <3>4, <3>5, NodeOK
    <3> QED BY <3>2, <3>6, ReparsedIs, TreesAre
  <2> QED BY <2>1
<1> HIDE DEF S
<1>4. Nat \subseteq S
  BY <1>2, <1>3, Induction
<1> QED BY <1>1, <1>4 DEF S
LEMMA AllCons ==
  ASSUME NEW n \in Trees[Depth], NEW ns \in Forests
  PROVE  ReparsedAll(<<n>> \o ns) = <<Reparsed[n]>> \o ReparsedAll(ns)
<1> DEFINE T == Trees[Depth]
           s == <<n>> \o ns
           a == ReparsedAll(s)
           b == <<Reparsed[n]>> \o ReparsedAll(ns)
<1>1. \A m \in T : Reparsed[m] \in T
  <2>1. Depth \in 0..Depth
    BY DepthAssumption DEF DepthAssumption
  <2> QED BY <2>1, ReparsedOK
<1>2. ns \in Seq(T) /\ n \in T
  BY DEF Forests
<1> HIDE DEF T
<1> <<n>> \in Seq(T) /\ Len(<<n>>) = 1
  BY <1>2
<1>3. /\ s \in Seq(T) /\ Len(s) = 1 + Len(ns) /\ Len(ns) \in Nat
      /\ \A i \in 1..(1 + Len(ns)) : s[i] = IF i <= 1 THEN <<n>>[i] ELSE ns[i - 1]
  BY <1>2, ConcatProperties, LenProperties
<1>4. a \in Seq(T) /\ Len(a) = 1 + Len(ns)
  BY <1>1, <1>3, AllOK
<1>5. ReparsedAll(ns) \in Seq(T) /\ Len(ReparsedAll(ns)) = Len(ns)
  BY <1>1, <1>2, AllOK
<1>6. <<Reparsed[n]>> \in Seq(T) /\ Len(<<Reparsed[n]>>) = 1
  BY <1>1, <1>2
<1>7. /\ b \in Seq(T) /\ Len(b) = 1 + Len(ns)
      /\ \A i \in 1..(1 + Len(ns)) :
           b[i] = IF i <= 1 THEN <<Reparsed[n]>>[i] ELSE ReparsedAll(ns)[i - 1]
  BY <1>5, <1>6, ConcatProperties
<1>8. /\ \A i \in 1..(1 + Len(ns)) : a[i] = Reparsed[s[i]]
      /\ \A i \in 1..Len(ns) : ReparsedAll(ns)[i] = Reparsed[ns[i]]
  <2>1. DOMAIN s = 1..(1 + Len(ns)) /\ DOMAIN ns = 1..Len(ns)
    BY <1>2, <1>3, LenProperties
  <2> QED BY <2>1 DEF ReparsedAll, ForEach
<1> HIDE DEF a, b, s
<1>9. ASSUME NEW i \in 1..(1 + Len(ns)) PROVE a[i] = b[i]
  <2>1. CASE i = 1
    BY <1>3, <1>7, <1>8, <2>1
  <2>2. CASE i # 1
    <3>1. ~(i <= 1) /\ i - 1 \in 1..Len(ns)
      BY <1>3, <2>2
    <3> QED BY <1>3, <1>7, <1>8, <3>1
  <2> QED BY <2>1, <2>2
<1>10. a = b
  BY <1>4, <1>7, <1>9, SeqEqual
<1> QED BY <1>10 DEF a, b, s
-----------------------------------------------------------------------------
(* What is written. *)

LEMMA TokensOK ==
  /\ \A name \in Str, attrs \in AttrSeqs : Start(name, attrs) \in TokenSet
  /\ \A text \in Str : WriteText(text) \in TokenSeqs
  /\ End \in TokenSet
<1>1. TokenSet = ({"start"} \X Str \X AttrSeqs) \cup ({"text"} \X Str) \cup {End}
  BY Zenon DEF TokenSet, Str, AttrSeqs
<1>2. ASSUME NEW name \in Str, NEW attrs \in AttrSeqs PROVE Start(name, attrs) \in TokenSet
  BY <1>1 DEF Start
<1>3. ASSUME NEW text \in Str PROVE CharData(text) \in TokenSet
  BY <1>1 DEF CharData
<1>4. ASSUME NEW text \in Str PROVE WriteText(text) \in TokenSeqs
  <2>1. CharData(text) \in TokenSet
    BY <1>3
  <2>2. <<CharData(text)>> \in Seq(TokenSet) /\ <<>> \in Seq(TokenSet)
    BY <2>1, EmptySeq
  <2>3. WriteText(text) = <<>> \/ WriteText(text) = <<CharData(text)>>
    BY Zenon DEF WriteText
  <2> QED BY <2>2, <2>3 DEF TokenSeqs
<1>5. End \in TokenSet
  BY <1>1
<1> QED BY <1>2, <1>4, <1>5

LEMMA WriteAllIs ==
  \A ns \in Forests :
    WriteAll[ns] = IF ns = <<>> THEN <<>>
                   ELSE WriteXML(ns[1], WriteAll[ns[1].kids], WriteAll[Tail(ns)])
<1>1. WriteAll = [ns \in Forests |-> IF ns = <<>> THEN <<>>
                   ELSE WriteXML(ns[1], WriteAll[ns[1].kids], WriteAll[Tail(ns)])]
  BY DEF WriteAll
<1> QED BY <1>1

LEMMA HeadOK ==
  ASSUME NEW ns \in Forests, ns # <<>>
  PROVE  /\ ns[1] \in Trees[Depth] /\ Tail(ns) \in Forests
         /\ ns = <<ns[1]>> \o Tail(ns)
         /\ ns[1].kids \in Forests
         /\ ns[1].name \in Str /\ ns[1].attrs \in AttrSeqs /\ ns[1].text \in Str
<1>1. ns[1] \in Trees[Depth] /\ Tail(ns) \in Forests /\ ns = <<ns[1]>> \o Tail(ns)
  BY HeadTail DEF Forests
<1>2. Depth \in 0..Depth
  BY DepthAssumption DEF DepthAssumption
<1> QED BY <1>1, <1>2, KidsOK

LEMMA WriteAllOK == \A ns \in Forests : WriteAll[ns] \in TokenSeqs
<1> DEFINE S == {ns \in Forests : WriteAll[ns] \in TokenSeqs}
<1>1. <<>> \in S
  <2>1. <<>> \in Forests /\ <<>> \in TokenSeqs
    BY EmptySeq DEF Forests, TokenSeqs
  <2> QED BY <2>1, WriteAllIs
<1>2. ASSUME NEW ns \in Forests, ns # <<>>, ns[1].kids \in S, Tail(ns) \in S
      PROVE  ns \in S
  <2> DEFINE begin == <<Start(ns[1].name, ns[1].attrs)>>
             text == WriteText(ns[1].text)
             inner == WriteAll[ns[1].kids]
             end == <<End>>
             next == WriteAll[Tail(ns)]
  <2>1. WriteAll[ns] = begin \o text \o inner \o end \o next
    BY <1>2, WriteAllIs DEF WriteXML
  <2>2. Start(ns[1].name, ns[1].attrs) \in TokenSet /\ End \in TokenSet /\ text \in TokenSeqs
    BY <1>2, HeadOK, TokensOK
  <2>3. begin \in TokenSeqs /\ end \in TokenSeqs
    BY <2>2 DEF TokenSeqs
  <2>4. inner \in TokenSeqs /\ next \in TokenSeqs
    BY <1>2
  <2> HIDE DEF begin, text, inner, end, next
  <2>5. begin \o text \in TokenSeqs
    BY <2>2, <2>3, ConcatProperties DEF TokenSeqs
  <2>6. begin \o text \o inner \in TokenSeqs
    BY <2>4, <2>5, ConcatProperties DEF TokenSeqs
  <2>7. begin \o text \o inner \o end \in TokenSeqs
    BY <2>3, <2>6, ConcatProperties DEF TokenSeqs
  <2>8. begin \o text \o inner \o end \o next \in TokenSeqs
    BY <2>4, <2>7, ConcatProperties DEF TokenSeqs
  <2> QED BY <2>1, <2>8
<1> HIDE DEF S
<1>3. Forests \subseteq S
  BY <1>1, <1>2, ForestInduction
<1> QED BY <1>3 DEF S
-----------------------------------------------------------------------------
(* What is read. *)

Stacks == Seq(Trees[Depth + 1])

LEMMA ReadAllIs ==
  /\ ReadAll[<<>>] = NothingOpen
  /\ \A w \in TokenSeqs : \A t \in TokenSet :
       w \o <<t>> \in TokenSeqs /\ ReadAll[w \o <<t>>] = ParseToken(ReadAll[w], t)
<1>1. ReadAll = [tokens \in TokenSeqs |->
        IF tokens = <<>> THEN NothingOpen ELSE ParseToken(ReadAll[Front(tokens)], Last(tokens))]
  BY DEF ReadAll
<1>2. <<>> \in TokenSeqs
  BY EmptySeq DEF TokenSeqs
<1>3. ASSUME NEW w \in TokenSeqs, NEW t \in TokenSet
      PROVE  w \o <<t>> \in TokenSeqs /\ ReadAll[w \o <<t>>] = ParseToken(ReadAll[w], t)
  <2> DEFINE v == w \o <<t>>
  <2>1. w \in Seq(TokenSet) /\ <<t>> \in Seq(TokenSet) /\ Len(<<t>>) = 1 /\ Len(w) \in Nat
    BY LenProperties DEF TokenSeqs
  <2>2. /\ v \in Seq(TokenSet) /\ Len(v) = Len(w) + 1
        /\ \A i \in 1..(Len(w) + 1) : v[i] = IF i <= Len(w) THEN w[i] ELSE <<t>>[i - Len(w)]
    BY <2>1, ConcatProperties
  <2> HIDE DEF v
  <2>3. v # <<>> /\ v[Len(v)] = t
    BY <2>1, <2>2
  <2>4. /\ SubSeq(v, 1, Len(w)) \in Seq(TokenSet) /\ Len(SubSeq(v, 1, Len(w))) = Len(w)
        /\ \A i \in 1..Len(w) : SubSeq(v, 1, Len(w))[i] = w[i]
    <3>1. \A i \in 1..Len(w) : v[i] = w[i] /\ w[i] \in TokenSet
      BY <2>1, <2>2, ElementOfSeq
    <3>2. \A i \in 1..Len(w) : v[i] \in TokenSet
      BY <3>1
    <3>3. /\ SubSeq(v, 1, Len(w)) \in Seq(TokenSet)
          /\ Len(SubSeq(v, 1, Len(w))) = IF 1 <= Len(w) THEN Len(w) - 1 + 1 ELSE 0
          /\ \A i \in 1..(Len(w) - 1 + 1) : SubSeq(v, 1, Len(w))[i] = v[1 + i - 1]
      <4>1. 1 \in Int /\ Len(w) \in Int
        BY <2>1
      <4> QED BY <3>2, <4>1, SubSeqProperties
    <3> QED BY <2>1, <3>1, <3>3
  <2>5. SubSeq(v, 1, Len(w)) = w
    BY <2>1, <2>4, SeqEqual
  <2>6. Front(v) = w /\ Last(v) = t
    BY <2>1, <2>2, <2>3, <2>5 DEF Front, Last
  <2> QED BY <1>1, <2>2, <2>3, <2>6 DEF TokenSeqs, v
<1> QED BY <1>1, <1>2, <1>3

LEMMA ParseStart ==
  ASSUME NEW stack, NEW name, NEW attrs
  PROVE  ParseToken(stack, Start(name, attrs)) = <<OpenNode(name, attrs)>> \o stack
BY DEF ParseToken, Start

LEMMA InsideOK ==
  ASSUME NEW n \in Trees[Depth + 1], NEW outer \in Stacks, outer # <<>>
  PROVE  LET stack == <<n>> \o outer IN
         /\ Len(stack) > 1 /\ stack[1] = n /\ stack[2] = outer[1] /\ Tail(stack) = outer
<1> DEFINE T == Trees[Depth + 1]
           stack == <<n>> \o outer
<1>1. outer \in Seq(T) /\ n \in T
  BY DEF Stacks
<1> HIDE DEF T
<1>2. stack \in Seq(T) /\ stack # <<>> /\ Tail(stack) = outer /\ stack[1] = n
  BY <1>1, ConsOK
<1> HIDE DEF stack
<1>3. /\ Len(outer) = Len(stack) - 1 /\ Len(outer) \in Nat \ {0} /\ Len(stack) \in Nat
      /\ \A i \in 1..Len(outer) : outer[i] = stack[i + 1]
  BY <1>1, <1>2, HeadTailProperties, EmptySeq
<1>4. Len(stack) > 1 /\ stack[2] = outer[1]
  BY <1>3
<1> QED BY <1>2, <1>4 DEF stack

LEMMA ParseText ==
  ASSUME NEW w \in TokenSeqs, NEW n \in Trees[Depth + 1], NEW text \in Str, n.text = NoText,
         NEW outer \in Stacks, outer # <<>>, ReadAll[w] = <<n>> \o outer
  PROVE  ReadAll[w \o WriteText(text)] = <<WithText(n, text)>> \o outer
<1> DEFINE stack == <<n>> \o outer
<1>1. Len(stack) > 1 /\ stack[1] = n /\ Tail(stack) = outer
  BY InsideOK
<1>2. CASE text = NoText
  <2>1. WriteText(text) = <<>>
    BY <1>2, Zenon DEF WriteText, NoText
  <2>2. w \o <<>> = w
    BY ConcatEmptySeq DEF TokenSeqs
  <2>3. n = Node(n.name, n.attrs, n.text, n.kids)
    <3>1. Depth \in Nat
      BY DepthAssumption DEF DepthAssumption
    <3>2. n \in NodeSet(Seq(Trees[Depth]))
      BY <3>1, TreesAre
    <3> QED BY <3>2, NodeFields
  <2>4. WithText(n, text) = n
    BY <1>2, <2>3 DEF WithText
  <2> QED BY <2>1, <2>2, <2>4
<1>3. CASE text # NoText
  <2>1. WriteText(text) = <<CharData(text)>>
    BY <1>3, Zenon DEF WriteText, NoText
  <2>2. CharData(text) \in TokenSet
    <3>1. <<CharData(text)>> \in Seq(TokenSet)
      BY <2>1, TokensOK DEF TokenSeqs
    <3>2. Len(<<CharData(text)>>) = 1 /\ <<CharData(text)>>[1] = CharData(text)
      OBVIOUS
    <3>3. 1 \in 1..Len(<<CharData(text)>>)
      BY <3>2
    <3> QED BY <3>1, <3>2, <3>3, ElementOfSeq
  <2>3. ReadAll[w \o WriteText(text)] = ParseToken(stack, CharData(text))
    BY <2>1, <2>2, ReadAllIs
  <2>4. Joined(n.text, text) = text
    BY Zenon DEF Joined, NoText
  <2> HIDE DEF stack
  <2>5. ParseToken(stack, CharData(text)) = <<WithText(n, Joined(n.text, text))>> \o Tail(stack)
    BY <1>1 DEF ParseToken, CharData
  <2> QED BY <1>1, <2>3, <2>4, <2>5
<1> QED BY <1>2, <1>3

LEMMA OuterOK ==
  ASSUME NEW p \in Trees[Depth + 1], NEW below \in Stacks
  PROVE  /\ <<p>> \o below \in Stacks /\ <<p>> \o below # <<>>
         /\ Tail(<<p>> \o below) = below /\ (<<p>> \o below)[1] = p
BY ConsOK DEF Stacks

LEMMA ParseEnd ==
  ASSUME NEW n \in Trees[Depth + 1], NEW p \in Trees[Depth + 1], NEW below \in Stacks
  PROVE  ParseToken(<<n>> \o (<<p>> \o below), End) = <<WithKids(p, Append(p.kids, n))>> \o below
<1> DEFINE outer == <<p>> \o below
           stack == <<n>> \o outer
<1>1. outer \in Stacks /\ outer # <<>> /\ Tail(outer) = below /\ outer[1] = p
  BY OuterOK
<1> HIDE DEF outer
<1>2. Len(stack) > 1 /\ stack[1] = n /\ stack[2] = p /\ Tail(Tail(stack)) = below
  BY <1>1, InsideOK
<1> HIDE DEF stack
<1>3. ParseToken(stack, End) = CloseNode(stack)
  BY <1>2 DEF ParseToken, End
<1>4. CloseNode(stack) = <<WithKids(p, Append(p.kids, n))>> \o below
  BY <1>2 DEF CloseNode
<1> QED BY <1>3, <1>4 DEF stack, outer
-----------------------------------------------------------------------------
(* Reading what was written. *)

LEMMA DepthsOK ==
  /\ Depth \in Nat /\ Depth \in 0..Depth
  /\ Trees[Depth] \subseteq Trees[Depth + 1]
  /\ Trees[Depth + 1] = NodeSet(Forests)
  /\ <<>> \in Forests
<1>1. Depth \in Nat /\ Depth \in 0..Depth /\ Depth + 1 \in Nat /\ Depth \in 0..(Depth + 1)
  BY DepthAssumption DEF DepthAssumption
<1>2. Trees[Depth] \subseteq Trees[Depth + 1]
  BY <1>1, TreesGrow
<1>3. Trees[Depth + 1] = NodeSet(Forests)
  BY <1>1, TreesAre DEF Forests
<1> QED BY <1>1, <1>2, <1>3, EmptySeq DEF Forests

\* An open element, and what becomes of it.
LEMMA OpenOK ==
  ASSUME NEW p \in Trees[Depth + 1], NEW more \in Forests
  PROVE  /\ p.kids \in Forests /\ p.kids \o more \in Forests
         /\ WithKids(p, p.kids \o more) \in Trees[Depth + 1]
         /\ WithKids(p, p.kids \o more).kids = p.kids \o more
         /\ \A kids : WithKids(WithKids(p, p.kids \o more), kids) = WithKids(p, kids)
<1>1. p \in NodeSet(Forests)
  BY DepthsOK
<1>2. p.name \in Str /\ p.attrs \in AttrSeqs /\ p.text \in Str /\ p.kids \in Forests
  BY <1>1, NodeFields
<1>3. p.kids \o more \in Forests
  BY <1>2, ConcatProperties DEF Forests
<1> DEFINE all == p.kids \o more
           q == WithKids(p, all)
<1> HIDE DEF all
<1>4. q = Node(p.name, p.attrs, p.text, all) /\ all \in Forests
  BY <1>3 DEF WithKids, all
<1> HIDE DEF q
<1> DEFINE m == Node(p.name, p.attrs, p.text, all)
<1>5. m \in NodeSet(Forests)
  BY <1>2, <1>4, NodeOK
<1>6. m.name = p.name /\ m.attrs = p.attrs /\ m.text = p.text /\ m.kids = all
  BY DEF Node
<1> HIDE DEF m
<1>7. q = m
  BY <1>4 DEF m
<1>8. \A kids : WithKids(q, kids) = WithKids(p, kids)
  BY <1>6, <1>7 DEF WithKids
<1> QED BY <1>2, <1>3, <1>5, <1>6, <1>7, <1>8, DepthsOK DEF q, all

\* What reading ns makes of the open element p.
After(p, ns) == WithKids(p, p.kids \o ReparsedAll(ns))

\* Reading what was written of ns, after anything, adds ns to the element that
\* is open.
Rebuilt ==
  {ns \in Forests :
     \A w \in TokenSeqs, p \in Trees[Depth + 1], below \in Stacks :
       ReadAll[w] = <<p>> \o below => ReadAll[w \o WriteAll[ns]] = <<After(p, ns)>> \o below}

LEMMA ReparsedForest ==
  \A ns \in Forests : ReparsedAll(ns) \in Forests
<1>1. \A n \in Trees[Depth] : Reparsed[n] \in Trees[Depth]
  BY ReparsedOK, DepthsOK
<1> QED BY <1>1, AllOK DEF Forests

LEMMA NothingRebuilt == <<>> \in Rebuilt
<1>1. <<>> \in Forests /\ WriteAll[<<>>] = <<>>
  BY DepthsOK, WriteAllIs
<1>2. \A w \in TokenSeqs : w \o <<>> = w
  BY ConcatEmptySeq DEF TokenSeqs
<1>3. ASSUME NEW p \in Trees[Depth + 1] PROVE After(p, <<>>) = p
  <2>1. ReparsedAll(<<>>) = <<>>
    BY DEF ReparsedAll, ForEach
  <2>2. p \in NodeSet(Forests)
    BY DepthsOK
  <2>3. p.kids \in Forests /\ p = Node(p.name, p.attrs, p.text, p.kids)
    BY <2>2, NodeFields
  <2>4. p.kids \o <<>> = p.kids
    BY <2>3, ConcatEmptySeq DEF Forests
  <2> QED BY <2>1, <2>3, <2>4 DEF After, WithKids
<1> QED BY <1>1, <1>2, <1>3 DEF Rebuilt

\* The element as it is opened, with its text, and as it is closed.
LEMMA ElementOK ==
  ASSUME NEW n \in Trees[Depth]
  PROVE  /\ OpenNode(n.name, n.attrs) \in Trees[Depth + 1]
         /\ OpenNode(n.name, n.attrs).text = NoText
         /\ WithText(OpenNode(n.name, n.attrs), n.text) \in Trees[Depth + 1]
         /\ After(WithText(OpenNode(n.name, n.attrs), n.text), n.kids) = Reparsed[n]
<1> DEFINE attrs == ReparsedAttrs(n.attrs)
           open == OpenNode(n.name, n.attrs)
           text == WithText(open, n.text)
<1>1. n.name \in Str /\ n.attrs \in AttrSeqs /\ n.text \in Str /\ n.kids \in Forests
  BY KidsOK, DepthsOK
<1>2. attrs \in AttrSeqs /\ NoText \in Str
  BY <1>1, AttributesOK, StringsOK
<1>3. open = Node(n.name, attrs, NoText, <<>>)
  BY Zenon DEF OpenNode, NoText
<1> HIDE DEF open, attrs
<1>4. /\ open \in NodeSet(Forests) /\ open.text = NoText
      /\ open.name = n.name /\ open.attrs = attrs /\ open.kids = <<>>
  BY <1>1, <1>2, <1>3, NodeOK, DepthsOK
<1>5. text = Node(n.name, attrs, n.text, <<>>)
  BY <1>4 DEF WithText
<1> HIDE DEF text
<1>6. /\ text \in NodeSet(Forests) /\ text.text = n.text
      /\ text.name = n.name /\ text.attrs = attrs /\ text.kids = <<>>
  BY <1>1, <1>2, <1>5, NodeOK, DepthsOK
<1>7. <<>> \o ReparsedAll(n.kids) = ReparsedAll(n.kids)
  BY <1>1, ReparsedForest, ConcatEmptySeq DEF Forests
<1>8. After(text, n.kids) = Node(n.name, attrs, n.text, ReparsedAll(n.kids))
  BY <1>6, <1>7 DEF After, WithKids
<1>9. After(text, n.kids) = Reparsed[n]
  BY <1>8, ReparsedIs DEF attrs
<1> QED BY <1>4, <1>6, <1>9, DepthsOK DEF open, text
LEMMA RebuiltOK ==
  ASSUME NEW ns \in Rebuilt, NEW w \in TokenSeqs, NEW p \in Trees[Depth + 1], NEW below \in Stacks,
         ReadAll[w] = <<p>> \o below
  PROVE  ns \in Forests /\ ReadAll[w \o WriteAll[ns]] = <<After(p, ns)>> \o below
BY DEF Rebuilt

\* Concatenation, by a name that the provers do not look behind.
Cat(s, t) == s \o t

LEMMA CatOK ==
  /\ \A s, t \in TokenSeqs : Cat(s, t) \in TokenSeqs
  /\ \A r, s, t \in TokenSeqs : Cat(r, Cat(s, t)) = Cat(Cat(r, s), t)
<1>1. \A s, t \in TokenSeqs : s \o t \in TokenSeqs
  BY ConcatProperties DEF TokenSeqs
<1>2. \A r, s, t \in TokenSeqs : r \o (s \o t) = (r \o s) \o t
  BY ConcatAssociative DEF TokenSeqs
<1> QED BY <1>1, <1>2 DEF Cat

LEMMA ForestsAssociate ==
  \A r, s, t \in Forests : (r \o s) \o t = r \o (s \o t)
BY ConcatAssociative DEF Forests

LEMMA OneTree ==
  ASSUME NEW n \in Trees[Depth]
  PROVE  <<n>> \in Forests
<1> DEFINE T == Trees[Depth]
<1>1. n \in T
  OBVIOUS
<1> HIDE DEF T
<1>2. <<n>> \in Seq(T)
  BY <1>1
<1> QED BY <1>2 DEF Forests, T

\* From the children of the first tree and from the other trees to all of them:
\* the loop opens an element, reads its text and its children, closes it into
\* the one around it, and goes on.
LEMMA OneMoreRebuilt ==
  ASSUME NEW ns \in Forests, ns # <<>>, ns[1].kids \in Rebuilt, Tail(ns) \in Rebuilt
  PROVE  ns \in Rebuilt
<1> DEFINE n == ns[1]
           start == Start(n.name, n.attrs)
           begin == <<start>>
           text == WriteText(n.text)
           kids == WriteAll[n.kids]
           end == <<End>>
           next == WriteAll[Tail(ns)]
<1>1. /\ n \in Trees[Depth] /\ Tail(ns) \in Forests /\ n.kids \in Forests
      /\ ns = <<n>> \o Tail(ns)
      /\ n.name \in Str /\ n.attrs \in AttrSeqs /\ n.text \in Str
  BY HeadOK
<1>2. start \in TokenSet /\ End \in TokenSet
  BY <1>1, TokensOK
<1>3. /\ begin \in TokenSeqs /\ end \in TokenSeqs
      /\ text \in TokenSeqs /\ kids \in TokenSeqs /\ next \in TokenSeqs
  <2>1. begin \in TokenSeqs /\ end \in TokenSeqs
    BY <1>2 DEF TokenSeqs
  <2> QED BY <1>1, <2>1, TokensOK, WriteAllOK
<1>4. WriteAll[ns] = begin \o text \o kids \o end \o next
  BY WriteAllIs DEF WriteXML
<1> DEFINE open == OpenNode(n.name, n.attrs)
           full == WithText(open, n.text)
<1>5. /\ open \in Trees[Depth + 1] /\ open.text = NoText
      /\ full \in Trees[Depth + 1] /\ After(full, n.kids) = Reparsed[n]
  BY <1>1, ElementOK
<1>6. Reparsed[n] \in Trees[Depth] /\ Reparsed[n] \in Trees[Depth + 1]
  BY <1>1, ReparsedOK, DepthsOK
<1>7. \A stack : ParseToken(stack, start) = <<open>> \o stack
  BY ParseStart
<1>8. ASSUME NEW w \in TokenSeqs, NEW p \in Trees[Depth + 1], NEW below \in Stacks,
             ReadAll[w] = <<p>> \o below
      PROVE  ReadAll[w \o WriteAll[ns]] = <<After(p, ns)>> \o below
  <2> DEFINE w1 == Cat(w, begin)
             w2 == Cat(w1, text)
             w3 == Cat(w2, kids)
             w4 == Cat(w3, end)
             outer == <<p>> \o below
             r == Reparsed[n]
             q == WithKids(p, Append(p.kids, r))
  <2> HIDE DEF start, begin, text, kids, end, next, open, full, r
  <2>1. w \o WriteAll[ns] = Cat(w4, next)
    <3>1. w \o WriteAll[ns] = Cat(w, Cat(Cat(Cat(Cat(begin, text), kids), end), next))
      BY <1>4 DEF Cat
    <3> DEFINE v2 == Cat(begin, text)
               v3 == Cat(v2, kids)
               v4 == Cat(v3, end)
    <3>2. v2 \in TokenSeqs /\ Cat(w, v2) = w2
      BY <1>3, CatOK
    <3> HIDE DEF v2, w2
    <3>3. v3 \in TokenSeqs /\ Cat(w, v3) = w3
      BY <1>3, <3>2, CatOK
    <3> HIDE DEF v3, w3
    <3>4. v4 \in TokenSeqs /\ Cat(w, v4) = w4
      BY <1>3, <3>3, CatOK
    <3> HIDE DEF v4, w4
    <3>5. Cat(w, Cat(v4, next)) = Cat(w4, next)
      BY <1>3, <3>4, CatOK
    <3> QED BY <3>1, <3>5 DEF v2, v3, v4
  <2>2. w1 \in TokenSeqs /\ w2 \in TokenSeqs /\ w3 \in TokenSeqs /\ w4 \in TokenSeqs
    BY <1>3, CatOK
  <2>3. outer \in Stacks /\ outer # <<>>
    BY OuterOK
  <2>4. ReadAll[w1] = <<open>> \o outer
    BY <1>2, <1>7, <1>8, ReadAllIs DEF begin, Cat
  <2> HIDE DEF w1, outer
  <2>5. ReadAll[w2] = <<full>> \o outer
    <3>1. n.text \in Str
      BY <1>1
    <3> HIDE DEF n
    <3>2. ReadAll[w1 \o WriteText(n.text)] = <<WithText(open, n.text)>> \o outer
      BY <1>5, <2>2, <2>3, <2>4, <3>1, ParseText
    <3> QED BY <3>2 DEF text, full, Cat
  <2> HIDE DEF w2
  <2>6. ReadAll[w3] = <<r>> \o outer
    <3>1. n.kids \in Rebuilt
      OBVIOUS
    <3> HIDE DEF n
    <3>2. ReadAll[w2 \o WriteAll[n.kids]] = <<After(full, n.kids)>> \o outer
      BY <1>5, <2>2, <2>3, <2>5, <3>1, RebuiltOK
    <3> QED BY <1>5, <3>2 DEF kids, r, Cat
  <2> HIDE DEF w3
  <2>7. r \in Trees[Depth] /\ r \in Trees[Depth + 1] /\ <<r>> \in Forests
    BY <1>6, OneTree DEF r
  <2>8. ReadAll[w4] = <<q>> \o below
    <3>1. ReadAll[w4] = ParseToken(ReadAll[w3], End)
      BY <1>2, <2>2, ReadAllIs DEF end, Cat
    <3>2. ParseToken(<<r>> \o outer, End) = <<q>> \o below
      BY <2>7, ParseEnd DEF outer
    <3> QED BY <2>6, <3>1, <3>2
  <2> HIDE DEF w4
  <2>9. q = WithKids(p, p.kids \o <<r>>)
    <3>1. p.kids \in Seq(Trees[Depth])
      BY <2>7, OpenOK DEF Forests
    <3> QED BY <2>7, <3>1, AppendIsConcat
  <2> HIDE DEF q
  <2>10. /\ q \in Trees[Depth + 1] /\ q.kids = p.kids \o <<r>>
         /\ p.kids \in Forests /\ \A all : WithKids(q, all) = WithKids(p, all)
    BY <2>7, <2>9, OpenOK
  <2>11. ReadAll[Cat(w4, next)] = <<After(q, Tail(ns))>> \o below
    <3>1. Tail(ns) \in Rebuilt
      OBVIOUS
    <3>2. ReadAll[w4 \o WriteAll[Tail(ns)]] = <<After(q, Tail(ns))>> \o below
      BY <2>2, <2>8, <2>10, <3>1, RebuiltOK
    <3> QED BY <3>2 DEF next, Cat
  <2>12. q.kids \o ReparsedAll(Tail(ns)) = p.kids \o ReparsedAll(ns)
    <3> DEFINE others == ReparsedAll(Tail(ns))
    <3>1. ReparsedAll(ns) = <<r>> \o others
      BY <1>1, AllCons DEF r
    <3>2. others \in Forests
      BY <1>1, ReparsedForest
    <3> HIDE DEF others, n
    <3>3. (p.kids \o <<r>>) \o others = p.kids \o (<<r>> \o others)
      BY <2>7, <2>10, <3>2, ForestsAssociate, Zenon
    <3> QED BY <2>10, <3>1, <3>3 DEF others
  <2>13. After(q, Tail(ns)) = After(p, ns)
    BY <2>10, <2>12 DEF After
  <2> QED BY <2>1, <2>11, <2>13
<1> QED BY <1>8 DEF Rebuilt

LEMMA AllRebuilt == Forests \subseteq Rebuilt
<1>1. \A ns \in Forests : ns # <<>> /\ ns[1].kids \in Rebuilt /\ Tail(ns) \in Rebuilt => ns \in Rebuilt
  BY OneMoreRebuilt
<1> QED BY <1>1, NothingRebuilt, ForestInduction

\* Tokens written of m, and then of n, leave Reparsed of both at the top level.
LEMMA TopLevelRebuilt ==
  ASSUME NEW m \in Trees[Depth], NEW n \in Trees[Depth]
  PROVE  /\ Parse(Tokens(n)) = Reparsed[n]
         /\ Parse(Tokens(m) \o Tokens(n)) = Reparsed[n]
<1> DEFINE a == Reparsed[m]
           b == Reparsed[n]
<1>1. <<m>> \in Rebuilt /\ <<n>> \in Rebuilt /\ <<m>> \in Forests /\ <<n>> \in Forests
  BY OneTree, AllRebuilt
<1>2. /\ TopLevel \in Trees[Depth + 1] /\ TopLevel.kids = <<>>
      /\ <<>> \in Stacks /\ NothingOpen = <<TopLevel>> \o <<>>
  <2>1. TopLevel = Node(NoText, <<>>, NoText, <<>>)
    BY Zenon DEF TopLevel, NoText
  <2>2. NoText \in Str /\ <<>> \in AttrSeqs
    BY StringsOK, EmptySeq DEF AttrSeqs
  <2>3. TopLevel \in NodeSet(Forests)
    BY <2>1, <2>2, NodeOK, DepthsOK
  <2>4. TopLevel.kids = <<>>
    BY <2>1 DEF Node
  <2>5. TopLevel \in Trees[Depth + 1]
    BY <2>3, DepthsOK
  <2>6. <<>> \in Seq(Trees[Depth + 1]) /\ <<TopLevel>> \in Seq(Trees[Depth + 1])
    BY <2>5, EmptySeq
  <2>7. <<TopLevel>> \o <<>> = <<TopLevel>>
    BY <2>6, ConcatEmptySeq
  <2> QED BY <2>4, <2>5, <2>6, <2>7 DEF Stacks, NothingOpen
<1>3. /\ Tokens(m) \in TokenSeqs /\ Tokens(n) \in TokenSeqs /\ <<>> \in TokenSeqs
      /\ <<>> \o Tokens(m) = Tokens(m) /\ <<>> \o Tokens(n) = Tokens(n)
  <2>1. Tokens(m) \in TokenSeqs /\ Tokens(n) \in TokenSeqs
    BY <1>1, WriteAllOK DEF Tokens
  <2> QED BY <2>1, EmptySeq, ConcatEmptySeq DEF TokenSeqs
<1>4. a \in Trees[Depth] /\ b \in Trees[Depth] /\ <<a>> \in Forests /\ <<b>> \in Forests
  BY ReparsedOK, DepthsOK, OneTree
<1>5. ReparsedAll(<<m>>) = <<a>> /\ ReparsedAll(<<n>>) = <<b>>
  <2>1. \A s : DOMAIN <<s>> = {1} /\ <<s>>[1] = s
    OBVIOUS
  <2> QED BY <2>1 DEF ReparsedAll, ForEach
<1>6. /\ After(TopLevel, <<m>>) \in Trees[Depth + 1] /\ After(TopLevel, <<m>>).kids = <<a>>
      /\ After(TopLevel, <<n>>) \in Trees[Depth + 1] /\ After(TopLevel, <<n>>).kids = <<b>>
  <2>1. <<>> \o <<a>> = <<a>> /\ <<>> \o <<b>> = <<b>>
    BY <1>4, ConcatEmptySeq DEF Forests
  <2> HIDE DEF a, b
  <2> QED BY <1>2, <1>4, <1>5, <2>1, OpenOK DEF After
<1> HIDE DEF a, b
<1>7. ReadAll[<<>>] = <<TopLevel>> \o <<>>
  BY <1>2, ReadAllIs
<1>8. /\ ReadAll[Tokens(m)] = <<After(TopLevel, <<m>>)>> \o <<>>
      /\ ReadAll[Tokens(n)] = <<After(TopLevel, <<n>>)>> \o <<>>
  <2>1. /\ ReadAll[<<>> \o WriteAll[<<m>>]] = <<After(TopLevel, <<m>>)>> \o <<>>
        /\ ReadAll[<<>> \o WriteAll[<<n>>]] = <<After(TopLevel, <<n>>)>> \o <<>>
    BY <1>1, <1>2, <1>3, <1>7, RebuiltOK
  <2> QED BY <1>3, <2>1 DEF Tokens
<1>9. ReadAll[Tokens(m) \o Tokens(n)] = <<After(After(TopLevel, <<m>>), <<n>>)>> \o <<>>
  BY <1>1, <1>2, <1>3, <1>6, <1>8, RebuiltOK DEF Tokens
<1> DEFINE both == After(After(TopLevel, <<m>>), <<n>>)
<1>10. both \in Trees[Depth + 1] /\ both.kids = <<a>> \o <<b>>
  BY <1>4, <1>5, <1>6, OpenOK DEF After
<1>11. \A p \in Trees[Depth + 1] : (<<p>> \o <<>>)[1] = p
  BY <1>2, OuterOK
<1>12. Last(<<b>>) = b /\ Last(<<a>> \o <<b>>) = b
  <2> DEFINE T == Trees[Depth]
             ab == <<a>> \o <<b>>
  <2>1. a \in T /\ b \in T
    BY <1>4
  <2> HIDE DEF T
  <2>2. /\ <<a>> \in Seq(T) /\ <<b>> \in Seq(T) /\ Len(<<a>>) = 1 /\ Len(<<b>>) = 1
        /\ <<b>>[1] = b
    BY <2>1
  <2>3. Len(ab) = 2 /\ ab[2] = b
    BY <2>2, ConcatProperties
  <2> HIDE DEF ab
  <2>4. Last(ab) = b
    BY <2>3 DEF Last
  <2> QED BY <2>2, <2>4 DEF Last, ab
<1>13. Parse(Tokens(n)) = b
  BY <1>6, <1>8, <1>11, <1>12 DEF Parse
<1>14. Parse(Tokens(m) \o Tokens(n)) = b
  <2> HIDE DEF both
  <2>1. ReadAll[Tokens(m) \o Tokens(n)][1] = both
    BY <1>9, <1>10, <1>11 DEF both
  <2> QED BY <1>10, <1>12, <2>1 DEF Parse
<1> QED BY <1>13, <1>14 DEF b

\* The loop of parseXML (xmlconv.go:95-149) makes of what writeXML wrote
\* (node.go:146-174) the same tree, but for the spaces of attributes, and that
\* also behind another tree: for all trees, as Depth may be any number.
THEOREM TreesRebuild == ParseRebuilds
BY TopLevelRebuilt DEF ParseRebuilds, Written
=============================================================================
