------------------------------ MODULE Catalog ------------------------------
(***************************************************************************)
(* The catalog (model/catalog.go), the document of a server without a      *)
(* schema: one Go type for its XML and its JSON.                           *)
(***************************************************************************)
EXTENDS Binding

Str   == ScalarType("string")
Int64 == ScalarType("int")
Real  == ScalarType("float")
Truth == ScalarType("bool")

\* Fields whose xml and json names are one.
AttrField(go, name, type)    == Tagged(go, "attr", <<name>>, name, type)
ElemField(go, name, type)    == Tagged(go, "elem", <<name>>, name, type)
ListField(go, path, json, t) == Optional(Tagged(go, "elem", path, json, SliceOf(t)))

Author == StructOf(<<AttrField("ID", "id", Int64), ElemField("Name", "name", Str),
                     ElemField("Active", "active", Truth)>>)

Stock == StructOf(<<AttrField("SKU", "sku", Str),
                    Tagged("Qty", "chardata", <<>>, "qty", Int64)>>)

Edition == StructOf(<<AttrField("Year", "year", Int64), AttrField("Pages", "pages", Int64)>>)

Extra == StructOf(<<ElemField("ISBN", "isbn", Str)>>)

Meta == StructOf(<<ElemField("Author", "author", Str),
                   BothOptional(ElemField("Year", "year", Int64)),
                   Optional(ElemField("Reprint", "reprint", PointerTo(Truth))),
                   Optional(ElemField("Extra", "extra", PointerTo(Extra)))>>)

Payload == StructOf(<<ElemField("Custom", "custom", Str),
                      ElemField("Nested", "nested", StructOf(<<ElemField("Deep", "deep", Str)>>))>>)

Book == StructOf(<<AttrField("ID", "id", Int64),
                   Optional(AttrField("Available", "available", PointerTo(Truth))),
                   Optional(AttrField("SKU", "sku", Str)),
                   ElemField("Title", "title", Str),
                   Optional(ElemField("Subtitle", "subtitle", PointerTo(Str))),
                   BothOptional(ElemField("Price", "price", Real)),
                   BothOptional(ElemField("Pages", "pages", Int64)),
                   ListField("Tags", <<"tags", "tag">>, "tags", Str),
                   ListField("Authors", <<"authors", "author">>, "authors", Author),
                   ListField("Stock", <<"stock">>, "stock", Stock),
                   ListField("Editions", <<"edition">>, "editions", Edition),
                   Optional(ElemField("Meta", "meta", PointerTo(Meta))),
                   Optional(ElemField("Payload", "payload", PointerTo(Payload)))>>)

CatalogType ==
  StructOf(<<Tagged("XMLName", "name", <<>>, "-", XmlNameType),
             AttrField("Generated", "generated", Str),
             AttrField("Version", "version", Int64),
             AttrField("Active", "active", Truth),
             ElemField("Title", "title", Str),
             ElemField("Count", "count", Int64),
             ElemField("Rating", "rating", Real),
             ElemField("Notes", "notes", Str),
             Tagged("Flags", "elem", <<"flags", "flag">>, "flags", SliceOf(Str)),
             Tagged("Books", "elem", <<"book">>, "books", SliceOf(Book))>>)

\* The root of XML must be a catalog. JSON has no name for its root, and what is
\* not an object is refused by the binder.
DecodeCatalogXML(root) ==
  LET cat == BindXMLValue(root, CatalogType) IN
  IF cat = Error \/ At(cat[2], "XMLName") # Text("catalog") THEN Error ELSE cat

DecodeCatalogJSON(raw, order) == BindJSONTo(raw, CatalogType, order)

EncodeCatalogXML(cat)  == XmlOf(cat, CatalogType, "catalog")
EncodeCatalogJSON(cat) == JsonOfGo(cat, CatalogType)
=============================================================================
