--------------------------- MODULE LoadedDocument ---------------------------
(***************************************************************************)
(* The document that the server holds under the loaded schema              *)
(* (queue/queue.go, Process): what is posted is decoded, and installed if  *)
(* it can be written in both formats.                                      *)
(*                                                                         *)
(* Here any schema may be loaded and any document posted; Conversion says  *)
(* where they come from.                                                   *)
(***************************************************************************)
EXTENDS Instances, LoadedSchema

VARIABLES
  posted,   \* the document posted since the schema was loaded
  value     \* what it was decoded to

docVars == <<sch, posted, value>>

NoDocument    == <<"none">>
XmlDoc(root)  == <<"xml", root>>
JsonDoc(raw)  == <<"json", raw>>

\* What can be posted: a tree, or a value that JSON can say.
IsDocument(doc) ==
  \/ doc[1] = "xml" /\ doc[2] \in Written
  \/ doc[1] = "json" /\ doc[2] \in Carried /\ JsonOf[doc[2]] = doc[2]

Decode(s, doc) ==
  CASE doc[1] = "xml"  -> DecodeXML(s, doc[2])
    [] doc[1] = "json" -> DecodeJSON(s, doc[2])
    [] OTHER           -> Error

\* The head of setStatus: a document that cannot be encoded in both formats makes
\* the job fail, and nothing is installed.
InBoth(s, v) ==
  IF v # Error /\ EncodeXML(s, v) # NoNode /\ EncodeJSON(s, v) # Error THEN v ELSE Error

Processed(s, doc) == InBoth(s, Decode(s, doc))

(* The server as seen from one document.  Without a schema, documents are
   catalogs, of which nothing is said here. *)

DocInit == sch = NoSchema /\ posted = NoDocument /\ value = Error

LoadSchema == SchemaTypeOK' /\ posted' = NoDocument /\ value' = Error

\* Depth bounds the value, as it does the document.
Install ==
  /\ sch # NoSchema
  /\ IsDocument(posted') /\ value' = Processed(sch, posted') /\ value' \in Carried
  /\ UNCHANGED sch

InstallCatalog == sch = NoSchema /\ UNCHANGED sch

DocNext == LoadSchema \/ Install \/ InstallCatalog

\* Whatever client, schemas and documents there are: a schema that is loaded is one
\* that the parsers can return, and a document that is installed under it has been
\* decoded by it from what was posted, and can be written in both formats.
DocSpec == DocInit /\ [][DocNext]_docVars
-----------------------------------------------------------------------------
(* Properties. *)

\* The keys that the attributes and the elements of a type have in JSON; an
\* attribute is found by its bare name as well.
AttrKeys(a) == {Prefixed(a.name), a.name}
ElemKeys(e) == IF e.choice = <<>> THEN {e.name} ELSE {e.choice[i].name : i \in DOMAIN e.choice}

\* No name in a type has two meanings.
NamesApart(own) ==
  LET attrs == DOMAIN own.attrs
      elems == DOMAIN own.elems IN
  /\ \A i, j \in attrs : i # j => AttrKeys(own.attrs[i]) \cap AttrKeys(own.attrs[j]) = {}
  /\ \A i, j \in elems : i # j => ElemKeys(own.elems[i]) \cap ElemKeys(own.elems[j]) = {}
  /\ \A i \in attrs : \A j \in elems : AttrKeys(own.attrs[i]) \cap ElemKeys(own.elems[j]) = {}
  /\ \A i \in attrs : {TypeKey, "type", "nil"} \cap AttrKeys(own.attrs[i]) = {}
  /\ \A j \in elems : TypeKey \notin ElemKeys(own.elems[j])

\* Nor has a type of texts: one that is named in place of another is not written.
Unambiguous ==
  \A name \in DOMAIN sch.types :
    LET t == sch.types[name] IN NamesApart(Effective(sch, t)) /\ (Scalar(t) => t.base = "")

ThroughJSON(v) == DecodeJSON(sch, EncodeJSON(sch, v))

\* A decoded document comes back as it was when its JSON is posted again,
\* wherever it came from, if nothing in the schema is ambiguous.
JSONKeepsDocument ==
  sch # NoSchema /\ value # Error /\ Unambiguous => ThroughJSON(value) = value
=============================================================================
