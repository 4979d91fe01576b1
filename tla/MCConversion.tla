---------------------------- MODULE MCConversion ----------------------------
(* Schemas and documents that TLC puts through Conversion. *)
EXTENDS Conversion

MCNames == {"T", "U", "V", "D", "r", "r.c"}

(* XSDs are written with these. *)
Tag(name, kids)       == Node(name, <<>>, "", kids)
Elem(name, type)      == Node("element", <<Plain("name", name), Plain("type", type)>>, "", <<>>)
With(n, name, v)      == [n EXCEPT !.attrs = Append(@, Plain(name, v))]
Nil(n)                == With(n, "nillable", "true")
Opt(n)                == With(n, "minOccurs", "0")
Many(n)               == With(Opt(n), "maxOccurs", "unbounded")
Attrib(name, type)    == [Elem(name, type) EXCEPT !.name = "attribute"]
Complex(kids)         == Tag("complexType", kids)
Named(name, n)        == With(n, "name", name)
Extends(base, kids)   == Tag("complexContent", <<With(Tag("extension", kids), "base", base)>>)
Restricts(base, kids) == Tag("complexContent", <<With(Tag("restriction", kids), "base", base)>>)
Inline(name, n)       == Named(name, Tag("element", <<n>>))
Group(kids)             == Tag("sequence", kids)
Choice(kids)          == Tag("choice", kids)
Schema(kids)          == Tag("schema", kids)
Code == Named("D", Tag("simpleType",
          <<With(Tag("restriction", <<With(Tag("enumeration", <<>>), "value", "1")>>), "base", "xs:int")>>))

\* An abstract type, its extension, and a choice with a nillable option.
Derived == Schema(<<
  Inline("r", Complex(<<Group(<<Opt(Elem("a", "T")),
                              Choice(<<Elem("b", "xs:int"), Nil(Elem("c", "xs:string"))>>)>>)>>)),
  With(Named("T", Complex(<<Attrib("id", "xs:int")>>)), "abstract", "true"),
  Named("D", Complex(<<Extends("T", <<Group(<<Many(Elem("b", "xs:int"))>>)>>)>>))>>)

\* Repeated nillable elements, a type inside an element, a group in a group.
Nested == Schema(<<
  Inline("r", Complex(<<Group(<<Nil(Many(Elem("a", "U"))), Group(<<Elem("b", "xs:boolean")>>),
                              Inline("c", Complex(<<Attrib("id", "xs:string")>>))>>)>>)),
  Named("U", Complex(<<Group(<<Opt(Elem("b", "xs:int"))>>),
                       With(Attrib("id", "xs:int"), "use", "required")>>))>>)

\* A choice without a sequence, simple types, two global elements.
Simple == Schema(<<
  Elem("r", "U"), Elem("a", "D"), Code,
  Named("U", Complex(<<Many(Choice(<<Elem("a", "D"), Nil(Elem("b", "D"))>>)), Attrib("id", "D")>>))>>)

\* A choice of a sequence and a choice, which are no options, and a nillable
\* root of a scalar.
Hollow == Schema(<<Inline("r", Complex(<<Group(<<Choice(<<Group(<<Elem("a", "xs:int")>>),
                                                       Choice(<<Elem("c", "xs:int")>>)>>),
                                               Elem("b", "xs:double")>>)>>))>>)
Scalars == Schema(<<Nil(Elem("r", "xs:int"))>>)

\* A name of two meanings: an attribute and an element; an attribute that is
\* called type; an element that a restriction declares again.
SameName   == Schema(<<Inline("r", Complex(<<Group(<<Opt(Elem("a", "xs:string"))>>), Attrib("a", "xs:string")>>))>>)
TypeNamed  == Schema(<<Elem("r", "T"), Named("T", Complex(<<Attrib("type", "xs:string")>>)),
                       Named("D", Complex(<<Extends("T", <<>>)>>))>>)
Restricted == Schema(<<Elem("r", "D"), Named("T", Complex(<<Group(<<Many(Elem("a", "xs:string"))>>)>>)),
                       Named("D", Complex(<<Restricts("T", <<Group(<<Many(Elem("a", "xs:string"))>>)>>)>>))>>)

\* Three types that extend each other in every way, one name being unknown.
Based(name, base, elem) ==
  LET content == <<Group(<<Opt(Elem(elem, "xs:string"))>>)>> IN
  Named(name, Complex(IF base = "" THEN content ELSE <<Extends(base, content)>>))

Entangled ==
  {Schema(<<Elem("r", "T"), Based("T", t, "a"), Based("U", u, "b"), Based("V", v, "c")>>) :
     t, u \in {"", "T", "U", "V", "Unknown"}, v \in {"", "T", "Unknown"}}

\* An attribute that names no type.
Typeless == Schema(<<Elem("r", "T"), Named("T", Complex(<<Named("id", Tag("attribute", <<>>))>>))>>)

MCXSDs == {Derived, Nested, Simple, Hollow, Scalars, SameName, TypeNamed, Restricted, Typeless}
          \cup Entangled
NoXSDs == {}

\* Templates: those of the XSDs without the kinds of types, and a kind that the
\* server does not know.
Kinded(tpl, kind) ==
  [tpl EXCEPT !.types = [n \in DOMAIN tpl.types |-> [tpl.types[n] EXCEPT !.kind = kind]]]

Unkinded ==
  {Kinded(EncodeTemplate(ParseXSD(xsd)), kind) :
     xsd \in {Derived, Nested, Simple, Hollow, Restricted}, kind \in {"", "object"}}

\* Templates that say what XSDs cannot, and others that are close to them.
TplField(name, type) ==
  [name |-> name, type |-> type, nillable |-> FALSE, required |-> FALSE,
   min |-> <<0>>, max |-> <<>>, choice |-> <<>>]
TplChoice(name, type, options) == [TplField(name, type) EXCEPT !.choice = options]
TplType(kind, base, attrs, elems) ==
  [kind |-> kind, abstract |-> FALSE, base |-> base, primitive |-> "", enum |-> <<>>,
   attrs |-> attrs, elems |-> elems]
TplScalar(primitive) == [TplType("simple", "", <<>>, <<>>) EXCEPT !.primitive = primitive]
Tpl(top, types) == [root |-> TplField("r", top), types |-> types]
Two(t, d) == "T" :> t @@ "D" :> d

IdAttr == <<TplField("id", "int")>>
BElem  == <<TplField("b", "int")>>

\* A base that has nothing but an attribute, with a kind and without; one that is
\* called simple and has an element; an element that names no type.
Lone(kind) == Tpl("D", Two(TplType(kind, "", IdAttr, <<>>), TplType("complex", "T", <<>>, BElem)))

LoneFields ==
  {Lone(kind) : kind \in {"", "simple", "complex"}}
  \cup {Tpl("D", Two(TplType("simple", "", <<>>, <<TplField("a", "int")>>),
                     TplType("complex", "T", <<>>, BElem))),
        Tpl("T", "T" :> TplType("complex", "", <<>>, <<TplField("b", "")>>))}

\* A base that is named with a prefix, by a complex type and by a simple one.
PrefixedBases ==
  {Tpl("T", Two(TplType("complex", "", IdAttr, <<>>), TplType("complex", base, <<>>, BElem))) :
     base \in {"T", "p:T"}}
  \cup {Tpl("T", Two(TplScalar("int"), [TplScalar("string") EXCEPT !.base = base])) :
          base \in {"", "T"}}

\* Primitives of types that are simple, called as a builtin type is, or complex.
Primitives ==
  {Tpl("U", "U" :> TplScalar(primitive)) : primitive \in {"", "int", "xs:int"}}
  \cup {Tpl("int", "int" :> TplScalar(primitive)) : primitive \in {"", "string", "int"}}
  \cup {Tpl("U", "U" :> [TplScalar("int") EXCEPT !.abstract = TRUE])}
  \cup {Tpl("T", Two(TplType("complex", "", <<TplField("a", "D")>>, <<>>),
                     [TplType("complex", "", <<>>, BElem) EXCEPT !.primitive = primitive])) :
          primitive \in {"", "int"}}

\* A choice whose option is one, or an attribute or a root that is one.
ChoiceTemplates ==
  {Tpl("T", "T" :> TplType("complex", "", <<>>, <<TplChoice("", "", <<TplChoice("a", type, BElem)>>)>>)) :
     type \in {"", "int"}}
  \cup {Tpl("T", "T" :> TplType("complex", "", <<TplChoice("id", type, BElem)>>, <<>>)) :
          type \in {"", "int"}}
  \cup {[Tpl("", <<>>) EXCEPT !.root = TplChoice("r", type, BElem)] : type \in {"", "int"}}

MCTemplates == Unkinded \cup LoneFields \cup PrefixedBases \cup Primitives \cup ChoiceTemplates
LoneKindless == {Lone("")}

(* Documents. *)
Xsi(local, v) == <<Attribute("xsi", local, v)>>
Id == <<Plain("id", "1")>>

Leaves ==
  {Node(name, attrs, text, <<>>) :
     name \in {"a", "b"}, attrs \in {<<>>, Xsi("nil", "true")}, text \in {" 1", "x"}}
  \cup {Node("c", <<>>, "x", <<>>)}

Kids ==
  Leaves \cup
  {Node("a", attrs, "", kids) :
     attrs \in {<<>>, Id, Xsi("type", "p:D"), Id \o Xsi("type", "D")},
     kids \in {<<>>, <<Node("b", <<>>, "1", <<>>)>>,
               <<Node("b", <<>>, "1", <<>>), Node("b", <<>>, "0", <<>>)>>}}

Few  == {<<>>} \cup {<<k>> : k \in Kids}
Pairs == Few \cup {<<k, l>> : k \in Kids, l \in Leaves}

MCXMLs ==
  {Node("r", <<>>, "", kids) : kids \in Pairs}
  \cup {Node("r", attrs, "", kids) : attrs \in {Xsi("type", "D"), <<Plain("a", "x")>>}, kids \in Few}
  \cup {Node("r", <<>>, "", <<Node("b", <<>>, text, <<>>)>>) : text \in {"1.5", "NaN"}}
  \cup {Node("r", attrs, "1", <<>>) : attrs \in {<<>>, Xsi("nil", "true")}}

Values == {Null, Text("1"), Text("x"), Text(" 1"), Num(1), Float(3), Bool(TRUE), List(<<>>), List(<<Num(1), Text("x")>>),
           Absent, Object({<<"id", Num(1)>>})} \cup
          {Object({<<"$type", Text(name)>>, <<"b", Num(1)>>}) : name \in {"D", "p:D"}}

MCJSONs ==
  Values
  \cup {Object({<<key, v>>}) : key \in {"a", "b", "c", "@id", "id", "$type"}, v \in Values}
  \cup {Object({<<"", Text("x")>>})}
  \cup {Object({<<"a", v>>, <<"b", w>>}) : v, w \in Values}
  \cup {Object({<<"r", Object({<<"a", v>>, <<"c", w>>})>>}) : v, w \in Values}
NoCatalogs == {}

(* Catalogs. *)
El(name, text) == Node(name, <<>>, text, <<>>)

MCBooks ==
  {Node("book", <<Plain("id", "1"), Plain("available", "")>>, "",
        <<El("subtitle", ""), El("Title", "x"), El("price", "1.5"), Tag("tags", <<El("tag", "x"), El("Tag", "1")>>)>>),
   Node("book", <<Plain("sku", " 1")>>, "",
        <<Tag("meta", <<El("year", ""), El("reprint", "false"), Tag("extra", <<>>)>>),
          Tag("payload", <<Tag("nested", <<El("deep", " 1")>>)>>), El("pages", "0")>>),
   Node("book", <<Plain("available", "0")>>, "x",
        <<Node("stock", <<Plain("sku", "x")>>, " 1", <<>>), Tag("authors", <<Tag("author", <<El("active", "1")>>)>>),
          El("stock", ""), Tag("authors", <<>>), Node("edition", <<Plain("year", "1")>>, "", <<>>)>>),
   Tag("book", <<El("price", "x")>>)}

CatalogKids ==
  {El(name, text) : name \in {"title", "Title", "TITLE", "rating"}, text \in {" 1", "", "1.5", "NaN"}}
  \cup {El("count", "1"), El("count", "1.5"), El("unknown", "x")}
  \cup {Tag("flags", flags) : flags \in {<<>>, <<El("flag", "")>>, <<El("flag", "x"), El("flag", " 1")>>}}
  \cup MCBooks

MCCatalogXMLs ==
  {Node("catalog", attrs, "", <<k>>) :
     attrs \in {<<Plain("version", "1"), Plain("generated", " 1")>>, <<Plain("version", " 1")>>,
                <<Plain("active", "1"), Plain("Version", "x")>>}, k \in CatalogKids}
  \cup {Tag("catalog", <<k, l>>) : k, l \in CatalogKids}
  \cup {Tag("order", <<k>>) : k \in CatalogKids}

JsonBooks ==
  {Null, Absent, Num(1),
   Object({<<"id", Text("1")>>, <<"available", Bool(FALSE)>>, <<"subtitle", Text("")>>, <<"tags", List(<<>>)>>}),
   Object({<<"price", Float(3)>>, <<"pages", Float(3)>>, <<"stock", List(<<Null, Object({<<"qty", Num(1)>>})>>)>>}),
   Object({<<"meta", Object({<<"reprint", Bool(FALSE)>>, <<"extra", Absent>>, <<"year", Num(0)>>})>>, <<"authors", List(<<Absent>>)>>, <<"payload", Object({<<"nested", Null>>})>>})}

CatalogMembers ==
  {<<key, v>> : key \in {"title", "Title", "TITLE", "Version", "version", "rating"},
                v \in {Null, Text(" 1"), Text("x"), Num(1), Float(3), Bool(TRUE), List(<<Num(1)>>)}}
  \cup {<<"flags", v>> : v \in {Null, Text("x"), List(<<>>), List(<<Text(" 1"), Null, Num(1)>>)}}
  \cup {<<"books", v>> : v \in {Null, Absent, List(<<>>)} \cup {List(<<b>>) : b \in JsonBooks}}

MCCatalogJSONs ==
  Values \cup {Object({p[1], p[2]}) : p \in {q \in CatalogMembers \X CatalogMembers : q[1][1] # q[2][1] \/ q[1] = q[2]}}
  \cup {Object({<<"title", Text("x")>>, <<"Title", v>>, <<"TITLE", w>>}) : v, w \in {Null, Text(" 1"), List(<<>>)}}
=============================================================================
