\* A template with a base that names no kind and has nothing but an attribute.
SPECIFICATION Spec
CONSTANTS
  Depth = 9
  Nesting = 2
  DeclaredNames <- MCNames
  XSDs <- NoXSDs
  Templates <- LoneKindless
  XMLs <- MCXMLs
  JSONs <- MCJSONs
  CatalogXMLs <- NoCatalogs
  CatalogJSONs <- NoCatalogs
PROPERTY SchemaSurvives
CHECK_DEADLOCK FALSE
