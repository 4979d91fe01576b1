\* Schemas of every feature of the parser, all entanglements of three types,
\* templates without kinds, and documents that fit them and that do not;
\* catalogs in either format, with names in other spellings.
SPECIFICATION Spec
CONSTANTS
  Depth = 9
  Nesting = 2
  DeclaredNames <- MCNames
  XSDs <- MCXSDs
  Templates <- MCTemplates
  XMLs <- MCXMLs
  JSONs <- MCJSONs
  CatalogXMLs <- MCCatalogXMLs
  CatalogJSONs <- MCCatalogJSONs
INVARIANTS SchemaTypeOK SchemaKeepsMeaning JSONKeepsDocument XMLKeepsDocument Inheritance CatalogJSONKept CatalogXMLKept SpellingOrderFree ParseRebuilds
PROPERTY DocSpec
CHECK_DEADLOCK FALSE
