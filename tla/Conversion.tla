----------------------------- MODULE Conversion -----------------------------
(***************************************************************************)
(* One client and the schema loaded on the server: the client posts a      *)
(* schema and documents, downloads either in the other format and posts it *)
(* again, and the server restarts (api/server.go with package schema).     *)
(* Jobs are done one after the other; their interleaving is in Service.    *)
(* Without a schema documents are catalogs. With ?catalog=1 they are that  *)
(* whatever the schema, which therefore need not be modelled here.         *)
(***************************************************************************)
EXTENDS Catalog, SchemaCodec, LoadedDocument, KeptXML

CONSTANTS
  XSDs,        \* the XSDs that the client may post first
  Templates,   \* the JSON templates that the client may post first
  XMLs,        \* XML documents that are posted under a schema
  JSONs,       \* JSON documents that are posted under a schema
  CatalogXMLs, CatalogJSONs   \* documents that are posted without one

VARIABLE first   \* what the client meant: the schema as it was first posted

vars == <<first, sch, row, posted, value, xml>>

\* The orders in which Go may walk the members of a document that are spelled in
\* another way than the tags: one order in each processing, since no document
\* here has two objects with more than one such member.
Orders == {q \in [1..Cardinality(DOMAIN Folded) -> DOMAIN Folded] : IsInjective(q)}

\* process: by the schema, or as a catalog.
DecodeAny(s, doc, order) ==
  CASE s # NoSchema                      -> Decode(s, doc)
    [] s = NoSchema /\ doc[1] = "xml"    -> DecodeCatalogXML(doc[2])
    [] s = NoSchema /\ doc[1] = "json"   -> DecodeCatalogJSON(doc[2], order)

XMLOf(s, v)  == IF s = NoSchema THEN EncodeCatalogXML(v) ELSE EncodeXML(s, v)
JSONOf(s, v) == IF s = NoSchema THEN EncodeCatalogJSON(v) ELSE EncodeJSON(s, v)

\* Mutant of ProcessedAny: what cannot be encoded is installed all the same.
ProcessedUnchecked(s, doc, order) == DecodeAny(s, doc, order)

\* As InBoth and Processed, for both kinds of documents.
InBothAny(s, v) ==
  IF v # Error /\ XMLOf(s, v) # NoNode /\ JSONOf(s, v) # Error THEN v ELSE Error

ProcessedAny(s, doc, order) == InBothAny(s, DecodeAny(s, doc, order))

\* Loading a schema drops the document. It is done here before one is posted
\* only: what was posted before makes no difference to what follows.
NoPosting == posted = NoDocument /\ UNCHANGED <<posted, value, xml>>

\* setSchema: s is loaded, and saved with the XSD.
Load(s, xsd) ==
  /\ s # NoSchema
  /\ sch' = s
  /\ row' = [xsd |-> xsd, tpl |-> EncodeTemplate(s)]
  /\ NoPosting

\* A job with an XSD, which is saved as it came, and one with a template, for
\* which an XSD is written.
LoadXSD(xsd)      == Load(ParseXSD(xsd), xsd)
LoadTemplate(tpl) == Load(ParseTemplate(tpl), Reparsed[EncodeXSD(ParseTemplate(tpl))])

\* The client's first schema.
PostXSD ==
  /\ sch = NoSchema
  /\ \E xsd \in XSDs : LoadXSD(xsd)
  /\ first' = sch'

PostTemplate ==
  /\ sch = NoSchema
  /\ \E tpl \in Templates : LoadTemplate(tpl)
  /\ first' = sch'

\* The client downloads the schema and posts it: GET /xsd gives the XSD that
\* was posted, or, after a template, the one that EncodeXSD writes, which is
\* what the row holds in both cases.
RepostXSD ==
  /\ sch # NoSchema
  /\ LoadXSD(row.xsd)
  /\ UNCHANGED first

RepostTemplate ==
  /\ sch # NoSchema
  /\ LoadTemplate(EncodeTemplate(sch))
  /\ UNCHANGED first

\* restore: the XSD is read first, the template only if that fails.
Restored(s, tpl) == IF s # NoSchema THEN s ELSE ParseTemplate(tpl)

Restart ==
  /\ sch # NoSchema
  /\ sch' = Restored(ParseXSD(row.xsd), row.tpl)
  /\ NoPosting
  /\ UNCHANGED <<first, row>>

Post(docs, orders) ==
  /\ posted = NoDocument
  /\ \E doc \in docs, order \in orders : posted' = doc /\ value' = ProcessedAny(sch, doc, order)
  /\ xml' = IF value' = Error THEN NoNode ELSE XMLOf(sch, value')
  /\ UNCHANGED <<first, sch, row>>

Documents == {XmlDoc(root) : root \in XMLs} \cup {JsonDoc(raw) : raw \in JSONs}

\* A document under the loaded schema, one per loading.
PostDocument == sch # NoSchema /\ Post(Documents, {<<>>})

PostCatalog ==
  /\ sch = NoSchema
  /\ Post({XmlDoc(root) : root \in CatalogXMLs} \cup {JsonDoc(raw) : raw \in CatalogJSONs}, Orders)

Init ==
  /\ first = NoSchema /\ sch = NoSchema
  /\ row = [xsd |-> NoNode, tpl |-> [root |-> "", types |-> <<>>]]
  /\ posted = NoDocument /\ value = Error /\ xml = NoNode

Next == PostXSD \/ PostTemplate \/ RepostXSD \/ RepostTemplate \/ Restart
        \/ PostDocument \/ PostCatalog

Spec == Init /\ [][Next]_vars
-----------------------------------------------------------------------------
(* Properties. *)

\* An element that names its type, or a choice whose options do. A type that is left
\* out becomes string on the way through an XSD or a template (xsd.go:113,
\* template.go:154): that of an option which is a choice itself, of an attribute, and
\* of a choice without options, to which JSON can give a value under the key "".
TypedElem(e) ==
  IF e.choice = <<>> THEN e.type # "" ELSE \A i \in DOMAIN e.choice : e.choice[i].type # ""

\* What comes back of a type that EncodeXSD writes (xsd.go:212-219, 237-285). Other
\* kinds are skipped; a simple type loses that it is abstract, its base and its
\* fields, and a complex one its primitive; names lose their prefix (xsd.go:54, 71),
\* which DerivedFrom and bindScalar compare; a primitive left out is string.
Writable(t) ==
  /\ \A i \in DOMAIN t.attrs : t.attrs[i].type # ""
  /\ \A i \in DOMAIN t.elems : TypedElem(t.elems[i])
  /\ LocalName(t.base) = t.base /\ LocalName(t.primitive) = t.primitive
  /\ \/ t.kind = "complex" /\ t.primitive = ""
     \/ /\ t.kind = "simple" /\ ~t.abstract /\ t.base = "" /\ t.attrs = <<>> /\ t.elems = <<>>
        /\ t.primitive = "" => t.name \notin Builtins

\* Downloading the schema in either format and posting it again, and restarts,
\* in any order, never change what a document is decoded to: what the codecs of
\* xsd.go and template.go leave out of a schema that they can write does not
\* matter to instance.go.
SchemaKeepsMeaning ==
  /\ first # NoSchema /\ RootField(first).type # ""
  /\ \A name \in DOMAIN first.types : Writable(first.types[name])
  => value = Processed(first, posted)

ThroughXML(v)  == DecodeXML(sch, Reparsed[EncodeXML(sch, v)])

\* What JSON can say and XML cannot: a null, an empty list or spaces around a
\* text somewhere.
RECURSIVE HasGap(_)
HasGap(v) ==
  CASE IsList(v)   -> v[2] = <<>> \/ \E i \in DOMAIN v[2] : HasGap(v[2][i])
    [] IsObject(v) -> \E m \in v[2] : HasGap(m[2])
    [] OTHER       -> v \in {Null, Text(" 1")}

\* The value with the types that it names as XML gives them back: without prefix.
RECURSIVE LocalTypes(_)
LocalTypes(v) ==
  CASE IsList(v)   -> List([i \in DOMAIN v[2] |-> LocalTypes(v[2][i])])
    [] IsObject(v) -> Object({<<m[1], IF m[1] = TypeKey THEN Text(LocalName(ToText(m[2])[2]))
                                      ELSE LocalTypes(m[2])>> : m \in v[2]})
    [] OTHER       -> v

\* A document comes back as it was when its XML is posted again, with the types
\* it named, its nils and its choices, if no name in a type has two meanings.
\* Three things are lost of documents that came as JSON: gaps, the prefixes of the
\* names of types, and, where an abstract type was left standing, the whole
\* document, which is refused.
XMLKeepsDocument ==
  sch # NoSchema /\ value # Error /\ Unambiguous /\ ~(posted[1] = "json" /\ HasGap(value)) =>
    \/ ThroughXML(value) = IF posted[1] = "json" THEN LocalTypes(value) ELSE value
    \/ /\ posted[1] = "json" /\ ThroughXML(value) = Error
       /\ \E n \in DOMAIN sch.types : sch.types[n].abstract

\* README:121: the schema that a job has loaded survives a restart: afterwards
\* every document means what it did before, whatever template the schema came from.
SchemaSurvives ==
  [][Restart => \A doc \in Documents : Processed(sch', doc) = Processed(sch, doc)]_vars

\* Posting the JSON of a catalog again gives the same JSON and the same XML,
\* wherever it came from, and in whatever order Go walks the members.
CatalogJSONKept ==
  sch = NoSchema /\ value # Error =>
    \A order \in Orders :
      LET again == DecodeCatalogJSON(EncodeCatalogJSON(value), order) IN
      /\ again # Error
      /\ EncodeCatalogJSON(again) = EncodeCatalogJSON(value)
      /\ EncodeCatalogXML(again) = EncodeCatalogXML(value)

\* No object has a member in two spellings without the tag's own.
RECURSIVE OneSpelling(_)
OneSpelling(raw) ==
  CASE IsList(raw)   -> \A i \in DOMAIN raw[2] : OneSpelling(raw[2][i])
    [] IsObject(raw) ->
         LET keys == KeysOf(raw[2]) IN
         /\ \A k, l \in keys : k # l /\ Fold(k) = Fold(l) => Fold(k) \in keys
         /\ \A m \in raw[2] : OneSpelling(m[2])
    [] OTHER -> TRUE

\* The order in which Go happens to walk the members of an object (lookup,
\* jsonconv/bind.go) decides about a document only if it spells a name in two ways
\* and in neither as the tag does: elsewhere the tag's own spelling wins, and
\* processing a document twice gives the same.
SpellingOrderFree ==
  sch = NoSchema /\ posted[1] = "json" =>
    (OneSpelling(posted[2]) =>
       \A order \in Orders : ProcessedAny(sch, posted, order) = value)

\* The spaces around texts, which JSON keeps and the elements of XML lose.
RECURSIVE Trimmed(_)
Trimmed(n) == [n EXCEPT !.text = Content(n), !.kids = [i \in DOMAIN n.kids |-> Trimmed(n.kids[i])]]

\* Posting the XML of a catalog again gives the same XML, but for spaces that
\* came as JSON, and, of what came as XML, the same JSON.
CatalogXMLKept ==
  sch = NoSchema /\ value # Error =>
    LET again == DecodeCatalogXML(Reparsed[EncodeCatalogXML(value)]) IN
    /\ again # Error
    /\ EncodeCatalogXML(again) = Trimmed(EncodeCatalogXML(value))
    /\ posted[1] = "xml" => EncodeCatalogJSON(again) = EncodeCatalogJSON(value)
=============================================================================
