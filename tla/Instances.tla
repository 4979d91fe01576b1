----------------------------- MODULE Instances -----------------------------
(***************************************************************************)
(* Documents by a schema (schema/instance.go): XML and JSON are decoded    *)
(* into one value, which is encoded in both.                               *)
(*                                                                         *)
(* A value is tagged with its kind.  Of the floating numbers there are     *)
(* those of Halves, counted in halves, and the one that is not a number.   *)
(* The members of an object are a set of pairs of a key and a value.       *)
(***************************************************************************)
EXTENDS XmlTree, SchemaTypes

Null      == <<"null">>
Text(x)   == <<"text", x>>
Num(n)    == <<"int", n>>
Float(h)  == <<"float", h>>
NaN       == <<"nan">>
Bool(b)   == <<"bool", b>>
List(q)   == <<"list", q>>
Object(m) == <<"object", m>>
Error     == <<"error">>

IsList(v)   == v[1] = "list"
IsObject(v) == v[1] = "object"
AsList(v)   == IF IsList(v) THEN v[2] ELSE <<v>>

TypeKey == "$type"
Prefixed(name) == "@" \o name

KeysOf(members)  == {m[1] : m \in members}
At(members, key) == (CHOOSE m \in members : m[1] = key)[2]

Atoms == {Null, NaN, Error} \cup ({"text"} \X STRING) \cup ({"int", "float"} \X Int)
          \cup ({"bool"} \X BOOLEAN)

MemberSets(values) ==
  {members \in SUBSET (STRING \X values) : \A m, l \in members : m[1] = l[1] => m = l}

\* The values whose items and members are these.
ValueSet(values) ==
  Atoms \cup ({"list"} \X Seq(values)) \cup ({"object"} \X MemberSets(values))

\* The values whose lists and objects nest no deeper than d.
Inner(trees, d)       == IF d = 0 THEN {} ELSE trees[d - 1]
ValueTrees[d \in Nat] == ValueSet(Inner(ValueTrees, d))

\* The values that documents are decoded from and to.
Carried == ValueTrees[Depth]

\* One list, or one object with the members of all parts, of which the later
\* ones win; an error in any of them is an error of the whole.
ListOf(values) ==
  IF \E i \in DOMAIN values : values[i] = Error THEN Error ELSE List(values)

ObjectOf(parts) ==
  LET keys == UNION {KeysOf(parts[i][2]) : i \in DOMAIN parts}
      last(key) == Max({i \in DOMAIN parts : key \in KeysOf(parts[i][2])}) IN
  IF \E i \in DOMAIN parts : parts[i] = Error THEN Error
  ELSE Object({<<key, At(parts[last(key)][2], key)>> : key \in keys})

Member(key, v) == IF v = Error THEN Error ELSE Object({<<key, v>>})
Absent         == Object({})

\* The first of the fields that are there.
First(fields, there(_)) ==
  fields[Min({i \in DOMAIN fields : there(fields[i].name)})]

\* converter.Convert for the kinds of values that documents hold. What is
\* printed for a list, an object or null is one text.
Halves  == "0" :> 0 @@ "1" :> 2 @@ "1.5" :> 3 @@ "2" :> 4
Dtoa(h) == CHOOSE d \in DOMAIN Halves : Halves[d] = h

ToText(v) ==
  CASE v[1] = "text"  -> v
    [] v[1] = "int"   -> Text(Itoa(v[2]))
    [] v[1] = "float" -> Text(Dtoa(v[2]))
    [] v[1] = "nan"   -> Text("NaN")
    [] v[1] = "bool"  -> Text(IF v[2] THEN "true" ELSE "false")
    [] OTHER          -> Text("printed")

\* The whole numbers in h halves, towards zero.
Whole(h) == IF h >= 0 THEN h \div 2 ELSE -((-h) \div 2)

ToInt(v) ==
  CASE v[1] = "int"   -> v
    [] v[1] = "float" -> Num(Whole(v[2]))
    [] v[1] = "bool"  -> Num(IF v[2] THEN 1 ELSE 0)
    [] v[1] = "text"  -> IF v[2] \in DOMAIN Digits THEN Num(Digits[v[2]]) ELSE Error
    [] OTHER          -> Error

ToFloat(v) ==
  CASE v[1] \in {"float", "nan"} -> v
    [] v[1] = "int"  -> Float(2 * v[2])
    [] v[1] = "bool" -> Float(IF v[2] THEN 2 ELSE 0)
    [] v[1] = "text" -> CASE v[2] \in DOMAIN Halves -> Float(Halves[v[2]])
                          [] v[2] = "NaN"           -> NaN
                          [] OTHER                  -> Error
    [] OTHER         -> Error

ToBool(v) ==
  CASE v[1] = "bool" -> v
    [] v[1] \in {"int", "float"} -> Bool(v[2] # 0)
    [] v[1] = "nan"  -> Bool(TRUE)
    [] v[1] = "text" -> CASE v[2] \in {"true", "1"}  -> Bool(TRUE)
                          [] v[2] \in {"false", "0"} -> Bool(FALSE)
                          [] OTHER                   -> Error
    [] OTHER         -> Error

BindScalar(v, t) ==
  LET prim == IF t.kind = "primitive" \/ t.primitive = "" THEN t.name ELSE t.primitive IN
  CASE prim = "int"     -> ToInt(v)
    [] prim = "double"  -> ToFloat(v)
    [] prim = "boolean" -> ToBool(v)
    [] OTHER            -> ToText(v)

\* The attribute xsi:type or xsi:nil of a node, as a sequence of at most one.
XsiAttr(n, local) == SelectSeq(AttrsNamed(n, local), LAMBDA a : a.space = "xsi")

IsXSINil(n) == XsiAttr(n, "nil") # <<>> /\ IsTrue(XsiAttr(n, "nil")[1].value)

\* The type that a value names in place of the declared one.
Substitute(s, declared, name) ==
  LET actual == Lookup(s, name) IN
  IF declared # NoType /\ actual # NoType /\ DerivedFrom(s, actual.name, declared.name)
    THEN actual ELSE NoType

\* Where the declared type is abstract, the element must name another. (Whether
\* the type it names is abstract is not asked.)
DeclaredType(s, n, field) ==
  LET declared == Lookup(s, field.type)
      xsi      == XsiAttr(n, "type") IN
  CASE xsi # <<>>                          -> Substitute(s, declared, LocalName(xsi[1].value))
    [] xsi = <<>> /\ declared.abstract     -> NoType
    [] xsi = <<>> /\ ~declared.abstract    -> declared

\* bindScalar of an attribute, under the key of attributes.
BindAttr(s, a, raw) ==
  IF Lookup(s, a.type) = NoType THEN Error
  ELSE Member(Prefixed(a.name), BindScalar(raw, Lookup(s, a.type)))
-----------------------------------------------------------------------------
(* Decoding XML. *)

(* The decoding of one element, or of one value, is a function of it and its
   field: what is inside it is decoded by the same function, here bind. *)

\* A field that is not repeated takes the first of its elements.
BindXMLRepeats(bind, nodes, field) ==
  IF Repeated(field) THEN ListOf([i \in DOMAIN nodes |-> bind[<<nodes[i], field>>]])
  ELSE bind[<<nodes[1], field>>]

BindXMLPresent(bind, n, e) == Member(e.name, BindXMLRepeats(bind, ChildrenByName(n, e.name), e))

\* Of a choice the first option that has elements, in the order of the schema.
BindXMLElem(bind, n, e) ==
  LET there(name) == HasChild(n, name) IN
  CASE e.choice = <<>> /\ there(e.name)  -> BindXMLPresent(bind, n, e)
    [] e.choice = <<>> /\ ~there(e.name) -> Absent
    [] e.choice # <<>> ->
         IF \E i \in DOMAIN e.choice : there(e.choice[i].name)
           THEN BindXMLPresent(bind, n, First(e.choice, there))
           ELSE IF e.min = 0 THEN Absent ELSE Error

BindXMLAttr(s, n, a) ==
  IF AttrsNamed(n, a.name) = <<>> THEN Absent ELSE BindAttr(s, a, Text(AttrValue(n, a.name)))

\* The members of a value whose type has the fields own.
BindXMLFields(s, bind, n, own) ==
  LET typ == IF XsiAttr(n, "type") = <<>> THEN Absent
             ELSE Member(TypeKey, Text(LocalName(XsiAttr(n, "type")[1].value))) IN
  IF ~own.ok THEN Error
  ELSE ObjectOf(<<typ>> \o [i \in DOMAIN own.attrs |-> BindXMLAttr(s, n, own.attrs[i])]
                        \o [i \in DOMAIN own.elems |-> BindXMLElem(bind, n, own.elems[i])])

BindXMLComplex(s, bind, n, t) == BindXMLFields(s, bind, n, Effective(s, t))

BindXMLOne(s, bind, n, field) ==
  LET t == DeclaredType(s, n, field) IN
  IF field.nillable /\ IsXSINil(n) THEN Null
  ELSE IF t = NoType THEN Error
  ELSE IF Scalar(t) THEN BindScalar(Text(Content(n)), t)
  ELSE BindXMLComplex(s, bind, n, t)

Elements == Written \X Declared

BindXMLNode(s) ==
  LET bind[q \in Elements] == BindXMLOne(s, bind, q[1], q[2]) IN bind

DecodeXML(s, root) ==
  IF root.name # RootField(s).name THEN Error ELSE BindXMLNode(s)[<<root, RootField(s)>>]
-----------------------------------------------------------------------------
(* Decoding JSON. *)

BindJSONItem(bind, src, field) ==
  IF src # Null THEN bind[<<src, field>>]
  ELSE IF field.nillable \/ field.min = 0 THEN Null ELSE Error

\* The items are bound by the field as one that is not repeated.
BindJSONValue(bind, src, field) ==
  LET arr == AsList(src) IN
  IF Repeated(field) /\ src # Null
    THEN ListOf([i \in DOMAIN arr |-> BindJSONItem(bind, arr[i], field)])
    ELSE BindJSONItem(bind, src, field)

BindJSONPresent(bind, members, e) ==
  Member(e.name, BindJSONValue(bind, At(members, e.name), e))

BindJSONElem(bind, members, e) ==
  LET there(name) == name \in KeysOf(members) IN
  CASE e.choice = <<>> /\ there(e.name)  -> BindJSONPresent(bind, members, e)
    [] e.choice = <<>> /\ ~there(e.name) -> Absent
    [] e.choice # <<>> ->
         IF \E i \in DOMAIN e.choice : there(e.choice[i].name)
           THEN BindJSONPresent(bind, members, First(e.choice, there))
           ELSE IF e.min = 0 THEN Absent ELSE Error

\* lookupJSON: an attribute has its key, or else the bare name.
AttrKey(members, a) ==
  IF Prefixed(a.name) \in KeysOf(members) THEN Prefixed(a.name) ELSE a.name

BindJSONAttr(s, members, a) ==
  IF AttrKey(members, a) \notin KeysOf(members) THEN Absent
  ELSE BindAttr(s, a, At(members, AttrKey(members, a)))

BindJSONFields(s, bind, members, own) ==
  LET typ == IF TypeKey \in KeysOf(members) THEN Member(TypeKey, At(members, TypeKey)) ELSE Absent IN
  IF ~own.ok THEN Error
  ELSE ObjectOf(<<typ>> \o [i \in DOMAIN own.attrs |-> BindJSONAttr(s, members, own.attrs[i])]
                        \o [i \in DOMAIN own.elems |-> BindJSONElem(bind, members, own.elems[i])])

BindJSONComplex(s, bind, members, t) == BindJSONFields(s, bind, members, Effective(s, t))

\* Mutant of JSONType: a value is always of the declared type.
JSONTypeDeclared(s, src, field) == Lookup(s, field.type)

\* The type that the value names by $type, or the declared one: JSON may leave
\* an abstract type standing.
JSONType(s, src, field) ==
  LET declared == Lookup(s, field.type) IN
  IF IsObject(src) /\ TypeKey \in KeysOf(src[2])
    THEN Substitute(s, declared, ToText(At(src[2], TypeKey))[2])
    ELSE declared

BindJSONOne(s, bind, src, field) ==
  LET t == JSONType(s, src, field) IN
  CASE t = NoType -> Error
    [] t # NoType /\ Scalar(t) -> BindScalar(src, t)
    [] t # NoType /\ ~Scalar(t) /\ IsObject(src) -> BindJSONComplex(s, bind, src[2], t)
    [] OTHER -> Error

Sources == Carried \X Declared

BindJSON(s) ==
  LET bind[q \in Sources] == BindJSONOne(s, bind, q[1], q[2]) IN bind

\* The document may be wrapped in an object with the name of the root.
DecodeJSON(s, raw) ==
  LET root == RootField(s)
      wrapped == IsObject(raw) /\ root.name \in KeysOf(raw[2]) IN
  BindJSONValue(BindJSON(s), IF wrapped THEN At(raw[2], root.name) ELSE raw, root)
-----------------------------------------------------------------------------
(* Encoding. *)

NoNode == Node("", <<>>, "", <<>>)

\* Mutant of XsiAttrs: the attribute is written without its prefix.
XsiAttrsUnprefixed(local, value) == <<Plain("xmlns:xsi", "xsi"), Plain(local, value)>>

\* setXSI on a node without attributes.
XsiAttrs(local, value) == <<Plain("xmlns:xsi", "xsi"), Plain("xsi:" \o local, value)>>

XmlRepeats(write, name, v, field) ==
  LET arr == AsList(v) IN
  IF Repeated(field) THEN [i \in DOMAIN arr |-> write[<<arr[i], field, name>>]]
  ELSE <<write[<<v, field, name>>]>>

XmlElem(write, members, e) ==
  LET options == IF e.choice = <<>> THEN <<e>> ELSE e.choice
      there(name) == name \in KeysOf(members)
      first == First(options, there) IN
  IF \E i \in DOMAIN options : there(options[i].name)
    THEN XmlRepeats(write, first.name, At(members, first.name), first) ELSE <<>>

\* The type that a value is written by: an unfit $type is ignored.
XmlType(s, v, field) ==
  LET declared == Lookup(s, field.type) IN
  IF JSONType(s, v, field) = NoType THEN declared ELSE JSONType(s, v, field)

XmlAttr(members, a) ==
  IF AttrKey(members, a) \notin KeysOf(members) THEN <<>>
  ELSE <<Plain(a.name, ToText(At(members, AttrKey(members, a)))[2])>>

XmlFields(s, write, name, members, own) ==
  LET typ == IF TypeKey \in KeysOf(members)
               THEN XsiAttrs("type", ToText(At(members, TypeKey))[2]) ELSE <<>>
      kids == FlattenSeq([i \in DOMAIN own.elems |-> XmlElem(write, members, own.elems[i])]) IN
  IF ~own.ok \/ NoNode \in ToSet(kids) THEN NoNode
  ELSE Node(name, typ \o FlattenSeq([i \in DOMAIN own.attrs |-> XmlAttr(members, own.attrs[i])]),
            "", kids)

XmlComplex(s, write, name, members, t) == XmlFields(s, write, name, members, Effective(s, t))

\* One value that is not repeated; NoNode for an error.
XmlOne(s, write, v, field, name) ==
  LET t == XmlType(s, v, field) IN
  CASE v = Null -> Node(name, IF field.nillable THEN XsiAttrs("nil", "true") ELSE <<>>, "", <<>>)
    [] v # Null /\ t # NoType /\ Scalar(t) -> Node(name, <<>>, ToText(v)[2], <<>>)
    [] v # Null /\ t # NoType /\ ~Scalar(t) /\ IsObject(v) -> XmlComplex(s, write, name, v[2], t)
    [] OTHER -> NoNode

Writings == Carried \X Declared \X STRING

XmlNode(s) ==
  LET write[q \in Writings] == XmlOne(s, write, q[1], q[2], q[3]) IN write

\* A root that is repeated cannot be written.
EncodeXML(s, v) ==
  LET root == RootField(s) IN
  IF v # Null /\ Repeated(root) THEN NoNode ELSE XmlNode(s)[<<v, root, root.name>>]

\* What json.Marshal writes of a value, parsed and normalized again: a floating
\* number that is whole comes back as an integer, and NaN cannot be written.
MembersOf(f, members) == {<<m[1], f[m[2]]>> : m \in members}

NumberOf(h) == IF h % 2 = 0 THEN Num(h \div 2) ELSE Float(h)

Marshalled(json, v) ==
  CASE IsList(v)   -> ListOf(ForEach(json, v[2]))
    [] IsObject(v) -> LET members == MembersOf(json, v[2]) IN
                      IF \E m \in members : m[2] = Error THEN Error ELSE Object(members)
    [] v[1] = "float" -> NumberOf(v[2])
    [] v[1] = "nan"   -> Error
    [] OTHER          -> v

JsonOf[v \in Carried] == Marshalled(JsonOf, v)

EncodeJSON(s, v) == Member(RootField(s).name, JsonOf[v])
=============================================================================
