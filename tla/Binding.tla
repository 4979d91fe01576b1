------------------------------ MODULE Binding ------------------------------
(***************************************************************************)
(* Documents bound to values of Go types by reflection (xmlconv/bind.go,   *)
(* jsonconv/bind.go), and such values written by encoding/xml and          *)
(* encoding/json.                                                          *)
(*                                                                         *)
(* A type is data: its kind and what it is made of.  The value of a struct *)
(* is an object with the names of its Go fields, a nil pointer or slice is *)
(* Null, and any other pointer is what it points to.  Of the kinds that    *)
(* the binders know, those of the catalog are here: maps, arrays,          *)
(* interfaces, unsigned numbers, embedded structs and the flags any and    *)
(* innerxml occur in no type that documents are bound to.                  *)
(***************************************************************************)
EXTENDS Instances

ScalarType(prim) == [kind |-> "scalar", of |-> prim]
PointerTo(t)     == [kind |-> "pointer", of |-> t]
SliceOf(t)       == [kind |-> "slice", of |-> t]
StructOf(fields) == [kind |-> "struct", of |-> fields]
XmlNameType      == [kind |-> "name", of |-> "name"]

Leaf(t) == IF t.kind = "pointer" THEN t.of ELSE t

\* parseField: a field by its Go name and its tags. Where its xml tag puts it is
\* "name", "attr", "chardata" or "elem", the latter at the end of a path.
Tagged(go, place, path, json, type) ==
  [go |-> go, place |-> place, path |-> path, json |-> json, type |-> type,
   omitXML |-> FALSE, omitJSON |-> FALSE]

Optional(f)     == [f EXCEPT !.omitJSON = TRUE]      \* json omitempty
BothOptional(f) == [Optional(f) EXCEPT !.omitXML = TRUE]

\* Names that strings.EqualFold takes for one another: those that documents spell
\* unlike the tags, and what they are folded to.
Folded == "Title" :> "title" @@ "TITLE" :> "title" @@ "Version" :> "version"
Fold(name) == IF name \in DOMAIN Folded THEN Folded[name] ELSE name

StructValue(t, bound(_)) ==
  ObjectOf([i \in DOMAIN t.of |-> Member(t.of[i].go, bound(t.of[i]))])

RECURSIVE Zero(_)
Zero(t) ==
  CASE t.kind \in {"pointer", "slice"} -> Null
    [] t.kind = "struct" -> StructValue(t, LAMBDA f : Zero(f.type))
    [] t.kind = "name"   -> Text("")
    [] t.kind = "scalar" -> CASE t.of = "int"    -> Num(0)
                              [] t.of = "float"  -> Float(0)
                              [] t.of = "bool"   -> Bool(FALSE)
                              [] t.of = "string" -> Text("")

Convert(v, prim) ==
  CASE prim = "int"    -> ToInt(v)
    [] prim = "float"  -> ToFloat(v)
    [] prim = "bool"   -> ToBool(v)
    [] prim = "string" -> ToText(v)
-----------------------------------------------------------------------------
(* Binding XML. *)

\* bindScalar: no text is the zero value, not an error.
ScalarFromXML(raw, t) ==
  IF raw = "" THEN Zero(Leaf(t)) ELSE Convert(Text(raw), Leaf(t).of)

\* The children of the name, or else those of the name in any spelling.
ChildrenSpelled(n, name) ==
  IF HasChild(n, name) THEN ChildrenByName(n, name)
  ELSE SelectSeq(n.kids, LAMBDA c : Fold(c.name) = Fold(name))

\* Mutant of FindPath: the last name is looked for in the node itself.
FindPathFlat(n, path) == ChildrenSpelled(n, Last(path))

FindPath(n, path) ==
  FoldLeft(LAMBDA nodes, segment :
             FlattenSeq([i \in DOMAIN nodes |-> ChildrenSpelled(nodes[i], segment)]), <<n>>, path)

RECURSIVE BindXMLValue(_, _)

\* Attributes are matched by the exact name, and their text is not trimmed. A
\* field that is not a slice takes the first of its elements.
BindXMLField(n, f) ==
  LET targets == FindPath(n, f.path)
      name    == f.path[1] IN
  CASE f.place = "name"     -> Text(n.name)
    [] f.place = "chardata" -> ScalarFromXML(Content(n), f.type)
    [] f.place = "attr"     -> IF AttrsNamed(n, name) = <<>> THEN Zero(f.type)
                               ELSE ScalarFromXML(AttrValue(n, name), f.type)
    [] f.place = "elem"     ->
         IF targets = <<>> THEN Zero(f.type)
         ELSE IF f.type.kind = "slice"
           THEN ListOf([i \in DOMAIN targets |-> BindXMLValue(targets[i], f.type.of)])
         ELSE BindXMLValue(targets[1], f.type)

BindXMLValue(n, t) ==
  IF Leaf(t).kind = "struct" THEN StructValue(Leaf(t), LAMBDA f : BindXMLField(n, f))
  ELSE ScalarFromXML(Content(n), t)
-----------------------------------------------------------------------------
(* Binding JSON. *)

\* Mutant of KeyOf: the tag's own spelling is one of many.
KeyWalked(members, f, order) ==
  SelectSeq(order \o <<f.json>>,
            LAMBDA key : key \in KeysOf(members) /\ Fold(key) = Fold(f.json))

\* lookup: the key of the tag, or else the first one in another spelling, in the
\* order in which the map happens to be walked. At most one key is wanted.
KeyOf(members, f, order) ==
  SelectSeq(<<f.json>> \o order,
            LAMBDA key : key \in KeysOf(members) /\ Fold(key) = Fold(f.json))

RECURSIVE BindJSONTo(_, _, _)

BindJSONField(members, f, order) ==
  LET keys == KeyOf(members, f, order) IN
  IF f.json = "-" \/ keys = <<>> THEN Zero(f.type)
  ELSE BindJSONTo(At(members, keys[1]), f.type, order)

\* Unlike XML, null is the zero value of any type, a list must be a list, and a
\* number that is not whole is cut to an integer.
BindJSONTo(src, t, order) ==
  IF src = Null THEN Zero(t)
  ELSE CASE t.kind = "pointer" -> BindJSONTo(src, t.of, order)
         [] t.kind = "scalar"  -> Convert(src, t.of)
         [] t.kind = "struct"  ->
              IF IsObject(src) THEN StructValue(t, LAMBDA f : BindJSONField(src[2], f, order))
              ELSE Error
         [] t.kind = "slice"   ->
              IF IsList(src)
                THEN ListOf([i \in DOMAIN src[2] |-> BindJSONTo(src[2][i], t.of, order)])
                ELSE Error
-----------------------------------------------------------------------------
(* Marshalling, by the standard library. *)

\* Mutant of OmittedAsEmpty: what a pointer points to is looked at.
OmittedThroughPointer(v, t) ==
  v \in {Null, List(<<>>), Text(""), Num(0), Float(0), Bool(FALSE)}

\* omitempty: a pointer is empty when it is nil, whatever it points to.
OmittedAsEmpty(v, t) ==
  IF t.kind = "pointer" THEN v = Null
  ELSE v \in {Null, List(<<>>), Text(""), Num(0), Float(0), Bool(FALSE)}

RECURSIVE XmlOf(_, _, _)

\* The elements of a field, inside the outer element of its path if it has one,
\* which is written around nothing as well.
XmlOfField(v, f) ==
  LET name  == Last(f.path)
      elems == CASE v = Null \/ (f.omitXML /\ OmittedAsEmpty(v, f.type)) -> <<>>
                 [] IsList(v) -> [i \in DOMAIN v[2] |-> XmlOf(v[2][i], f.type.of, name)]
                 [] OTHER     -> <<XmlOf(v, f.type, name)>> IN
  IF Len(f.path) = 1 THEN elems ELSE <<Node(f.path[1], <<>>, "", elems)>>

XmlOf(v, t, name) ==
  LET in(place) == SelectSeq(Leaf(t).of, LAMBDA f : f.place = place)
      attr(f)   == IF At(v[2], f.go) = Null THEN <<>> ELSE <<Plain(f.path[1], ToText(At(v[2], f.go))[2])>>
      attrs     == [i \in DOMAIN in("attr") |-> attr(in("attr")[i])]
      kids      == [i \in DOMAIN in("elem") |-> XmlOfField(At(v[2], in("elem")[i].go), in("elem")[i])] IN
  IF Leaf(t).kind = "scalar" THEN Node(name, <<>>, ToText(v)[2], <<>>)
  ELSE Node(name, FlattenSeq(attrs),
            IF in("chardata") = <<>> THEN "" ELSE ToText(At(v[2], in("chardata")[1].go))[2],
            FlattenSeq(kids))

RECURSIVE JsonOfGo(_, _)
JsonOfGo(v, t) ==
  LET inner   == Leaf(t)
      written == SelectSeq(inner.of, LAMBDA f :
                   f.json # "-" /\ ~(f.omitJSON /\ OmittedAsEmpty(At(v[2], f.go), f.type))) IN
  CASE v = Null -> Null
    [] v # Null /\ inner.kind = "scalar" -> JsonOf[v]
    [] v # Null /\ inner.kind = "slice"  ->
         ListOf([i \in DOMAIN v[2] |-> JsonOfGo(v[2][i], inner.of)])
    [] v # Null /\ inner.kind = "struct" ->
         ObjectOf([i \in DOMAIN written |->
           Member(written[i].json, JsonOfGo(At(v[2], written[i].go), written[i].type))])
=============================================================================
