---------------------------- MODULE SchemaCodec ----------------------------
(***************************************************************************)
(* How a schema is read from an XSD and written as one (schema/xsd.go),    *)
(* and from and to a JSON template (schema/template.go).                   *)
(*                                                                         *)
(* An XSD is a tree of XmlTree.  A template is the value that jsonconv     *)
(* binds: an absent member is the empty value of its Go type.  Its min and *)
(* max, which may be absent, are sequences of at most one number, where    *)
(* Unbounded stands for the text that templates use.                       *)
(***************************************************************************)
EXTENDS XmlTree, SchemaTypes

Occurs(raw, default) == IF raw \in DOMAIN Digits THEN Digits[raw] ELSE default

MaxOccurs(raw) == IF raw = "unbounded" THEN Unbounded ELSE Occurs(raw, 1)

\* The parser's result for an element, a group or a type: what it found, and
\* the types that were declared on the way, in the order of their declaration.
Found(items, types) == [items |-> items, types |-> types]

Both(f, g) == Found(f.items \o g.items, f.types \o g.types)

Nothing == Found(<<>>, <<>>)

OfAll(founds) == FoldLeft(Both, Nothing, founds)

ParseSimple(n, name) ==
  LET rest == Child(n, "restriction")
      base == LocalName(AttrValue(rest, "base"))
      enum == SelectSeq(ChildrenByName(rest, "enumeration"), LAMBDA e : AttrValue(e, "value") # "") IN
  IF ~HasChild(n, "restriction") THEN Type(name, "simple", "string")
  ELSE [Type(name, "simple", IF base = "" THEN "string" ELSE base)
          EXCEPT !.enum = [i \in DOMAIN enum |-> AttrValue(enum[i], "value")]]

ParseAttrs(n) ==
  LET allowed == SelectSeq(ChildrenByName(n, "attribute"),
                           LAMBDA a : AttrValue(a, "use") # "prohibited") IN
  [i \in DOMAIN allowed |->
     [Field(AttrValue(allowed[i], "name"), LocalName(AttrValue(allowed[i], "type")), 0, 1)
        EXCEPT !.required = AttrValue(allowed[i], "use") = "required"]]

RECURSIVE ParseElement(_, _)
RECURSIVE ParseComplex(_, _)
RECURSIVE ParseGroup(_, _)

ParseChoice(n, path) ==
  LET options == ChildrenByName(n, "element")
      found   == OfAll([i \in DOMAIN options |-> ParseElement(options[i], path)]) IN
  Found(<<[Field("", "", Occurs(AttrValue(n, "minOccurs"), 1), MaxOccurs(AttrValue(n, "maxOccurs")))
             EXCEPT !.choice = found.items]>>,
        found.types)

\* fillGroup: groups in groups are flattened, other particles are skipped.
ParseGroup(n, path) ==
  OfAll([i \in DOMAIN n.kids |->
           LET c == n.kids[i] IN
           CASE c.name = "element"  -> ParseElement(c, path)
             [] c.name = "choice"   -> ParseChoice(c, path)
             [] c.name = "sequence" -> ParseGroup(c, path)
             [] OTHER               -> Nothing])

\* fill: the fields that n declares for a type.
ParseContent(n, path) ==
  CASE HasChild(n, "sequence") -> ParseGroup(Child(n, "sequence"), path)
    [] HasChild(n, "choice") /\ ~HasChild(n, "sequence") -> ParseChoice(Child(n, "choice"), path)
    [] OTHER -> Nothing

\* parseComplex: the type called name, after the types declared inside it.
\* Restriction is read as extension is.
ParseComplex(n, name) ==
  LET content == Child(n, "complexContent")
      derivations == IF HasChild(n, "complexContent")
                       THEN ChildrenByName(content, "extension") \o ChildrenByName(content, "restriction")
                       ELSE <<>>
      body  == IF derivations = <<>> THEN n ELSE Head(derivations)
      found == ParseContent(body, name)
      base  == IF derivations = <<>> THEN "" ELSE LocalName(AttrValue(body, "base")) IN
  Found(<<>>,
        found.types \o
        <<[Type(name, "complex", "") EXCEPT
             !.abstract = IsTrue(AttrValue(n, "abstract")), !.base = base,
             !.attrs = ParseAttrs(body), !.elems = found.items]>>)

\* parseElement: a type inside it is declared under the path of the element.
ParseElement(n, path) ==
  LET name   == AttrValue(n, "name")
      inner  == IF path # "" /\ name # "" THEN path \o "." \o name ELSE name
      named  == LocalName(AttrValue(n, "type"))
      local  == HasChild(n, "complexType") \/ HasChild(n, "simpleType")
      types  == (IF HasChild(n, "complexType")
                   THEN ParseComplex(Child(n, "complexType"), inner).types ELSE <<>>)
                \o (IF HasChild(n, "simpleType")
                      THEN <<ParseSimple(Child(n, "simpleType"), inner)>> ELSE <<>>)
      type   == IF local THEN inner ELSE named IN
  Found(<<[Field(name, IF type = "" THEN "string" ELSE type,
                 Occurs(AttrValue(n, "minOccurs"), 1), MaxOccurs(AttrValue(n, "maxOccurs")))
             EXCEPT !.nillable = IsTrue(AttrValue(n, "nillable"))]>>,
        types)

\* The map of types: of two with one name, the one declared later.
TypeMap(types) ==
  [name \in {types[i].name : i \in DOMAIN types} |->
     types[Max({i \in DOMAIN types : types[i].name = name})]]

\* Global types first, then the global elements with the types inside them.
ParseGlobal(c) ==
  CASE c.name = "simpleType"  -> Found(<<>>, <<ParseSimple(c, AttrValue(c, "name"))>>)
    [] c.name = "complexType" -> ParseComplex(c, AttrValue(c, "name"))
    [] OTHER                  -> Nothing

SchemaOf(found) ==
  [root |-> found.items[1].name, elems |-> found.items, types |-> TypeMap(found.types)]

ParseXSD(root) ==
  LET nameless  == \E i \in DOMAIN root.kids :
                     /\ root.kids[i].name \in {"simpleType", "complexType"}
                     /\ AttrValue(root.kids[i], "name") = ""
      elements  == ChildrenByName(root, "element") IN
  IF root.name # "schema" \/ nameless \/ elements = <<>> THEN NoSchema
  ELSE SchemaOf(OfAll([i \in DOMAIN root.kids |-> ParseGlobal(root.kids[i])]
                      \o [i \in DOMAIN elements |-> ParseElement(elements[i], "")]))
-----------------------------------------------------------------------------
(* Writing an XSD. *)

XsdType(name) == IF name \in Builtins THEN "xs:" \o name ELSE name

When(condition, attr) == IF condition THEN <<attr>> ELSE <<>>

OccursAttrs(f) ==
  When(f.min # 1, Plain("minOccurs", Itoa(f.min)))
    \o When(f.max # 1, Plain("maxOccurs", IF f.max = Unbounded THEN "unbounded" ELSE Itoa(f.max)))

XsdElement(f) ==
  Node("element",
       <<Plain("name", f.name)>> \o When(f.type # "", Plain("type", XsdType(f.type)))
         \o OccursAttrs(f) \o When(f.nillable, Plain("nillable", "true")),
       "", <<>>)

XsdSimple(t) ==
  LET values == [i \in DOMAIN t.enum |-> Node("enumeration", <<Plain("value", t.enum[i])>>, "", <<>>)] IN
  Node("simpleType", <<Plain("name", t.name)>>, "",
       <<Node("restriction", <<Plain("base", XsdType(t.primitive))>>, "", values)>>)

\* Mutant of XsdParticle: the bounds of a choice are not written.
XsdParticleUnbound(f) ==
  IF f.choice = <<>> THEN XsdElement(f)
  ELSE Node("choice", <<>>, "", [i \in DOMAIN f.choice |-> XsdElement(f.choice[i])])

XsdParticle(f) ==
  IF f.choice = <<>> THEN XsdElement(f)
  ELSE Node("choice", OccursAttrs(f), "", [i \in DOMAIN f.choice |-> XsdElement(f.choice[i])])

XsdAttribute(a) ==
  Node("attribute",
       <<Plain("name", a.name), Plain("type", XsdType(a.type))>>
         \o When(a.required, Plain("use", "required")),
       "", <<>>)

XsdComplex(t) ==
  LET particles == [i \in DOMAIN t.elems |-> XsdParticle(t.elems[i])]
      body == When(t.elems # <<>>, Node("sequence", <<>>, "", particles))
                \o [i \in DOMAIN t.attrs |-> XsdAttribute(t.attrs[i])]
      extension == Node("extension", <<Plain("base", t.base)>>, "", body) IN
  Node("complexType",
       <<Plain("name", t.name)>> \o When(t.abstract, Plain("abstract", "true")),
       "",
       IF t.base = "" THEN body ELSE <<Node("complexContent", <<>>, "", <<extension>>)>>)

\* EncodeXSD writes the root element alone, and no types but simple and complex
\* ones, in the order of their names, which ParseXSD does not depend on.
EncodeXSD(s) ==
  LET written(kind) == SetToSeq({name \in DOMAIN s.types : s.types[name].kind = kind})
      simple  == written("simple")
      complex == written("complex") IN
  Node("schema", <<Plain("elementFormDefault", "qualified"), Plain("xmlns:xs", "xs")>>, "",
       <<XsdElement(RootField(s))>>
         \o [i \in DOMAIN simple |-> XsdSimple(s.types[simple[i]])]
         \o [i \in DOMAIN complex |-> XsdComplex(s.types[complex[i]])])
-----------------------------------------------------------------------------
(* JSON templates. *)

RECURSIVE ToTplField(_)
ToTplField(f) ==
  [name |-> f.name, type |-> f.type, nillable |-> f.nillable, required |-> f.required,
   min |-> When(f.min # 1, f.min),
   max |-> When(f.max # 1, f.max),
   choice |-> [i \in DOMAIN f.choice |-> ToTplField(f.choice[i])]]

RECURSIVE FromTplField(_)
FromTplField(f) ==
  [name |-> f.name,
   type |-> IF f.type = "" /\ f.choice = <<>> THEN "string" ELSE f.type,
   nillable |-> f.nillable, required |-> f.required,
   min |-> IF f.min = <<>> THEN 1 ELSE f.min[1],
   max |-> IF f.max = <<>> THEN 1 ELSE f.max[1],
   choice |-> [i \in DOMAIN f.choice |-> FromTplField(f.choice[i])]]

\* A type of a template has no name of its own: it is the key.
ToTplType(t) ==
  [kind |-> t.kind, abstract |-> t.abstract, base |-> t.base,
   primitive |-> t.primitive, enum |-> t.enum,
   attrs |-> [i \in DOMAIN t.attrs |-> ToTplField(t.attrs[i])],
   elems |-> [i \in DOMAIN t.elems |-> ToTplField(t.elems[i])]]

\* A type without a kind is complex if it has elements or a base; attributes do
\* not count, since those that template.go:98 asks for are not yet copied.
FromTplType(name, t) ==
  LET implied == IF t.elems # <<>> \/ t.base # "" THEN "complex" ELSE "simple" IN
  [name |-> name, kind |-> IF t.kind = "" THEN implied ELSE t.kind,
   abstract |-> t.abstract, base |-> t.base, primitive |-> t.primitive, enum |-> t.enum,
   attrs |-> [i \in DOMAIN t.attrs |-> FromTplField(t.attrs[i])],
   elems |-> [i \in DOMAIN t.elems |-> FromTplField(t.elems[i])]]

EncodeTemplate(s) ==
  [root |-> ToTplField(RootField(s)),
   types |-> [name \in DOMAIN s.types |-> ToTplType(s.types[name])]]

\* Mutant of ParseTemplate: the types are not told their names.
ParseTemplateUnnamed(tpl) ==
  IF tpl.root.name = "" THEN NoSchema
  ELSE [root |-> tpl.root.name, elems |-> <<FromTplField(tpl.root)>>,
        types |-> [name \in DOMAIN tpl.types |-> FromTplType("", tpl.types[name])]]

ParseTemplate(tpl) ==
  IF tpl.root.name = "" THEN NoSchema
  ELSE [root |-> tpl.root.name, elems |-> <<FromTplField(tpl.root)>>,
        types |-> [name \in DOMAIN tpl.types |-> FromTplType(name, tpl.types[name])]]
=============================================================================
