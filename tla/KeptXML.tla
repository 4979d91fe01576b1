------------------------------ MODULE KeptXML ------------------------------
(***************************************************************************)
(* What the server keeps as the text of an XML document, here as the tree  *)
(* that was written: the XSD of the loaded schema, and the XML of the job  *)
(* that was done last.                                                     *)
(***************************************************************************)
EXTENDS XmlTree

VARIABLES
  row,      \* the table current_schema: an XSD and a template
  xml       \* the XML of the result (job.Outputs)

\* The loop over tokens rebuilds the tree that was written, however deep it
\* nests, and also after another tree, since the last element of a body is its
\* root.
ParseRebuilds ==
  LET kept == {row.xsd, xml} \cap Written IN
  \A n \in kept :
    /\ Parse(Tokens(n)) = Reparsed[n]
    /\ \A m \in kept : Parse(Tokens(m) \o Tokens(n)) = Reparsed[n]
=============================================================================
