---------------------------- MODULE SchemaTypes ----------------------------
(***************************************************************************)
(* The types of a loaded schema (schema/schema.go): how a name finds its   *)
(* type, what a type derives from, and the fields it has with those of its *)
(* bases.                                                                  *)
(*                                                                         *)
(* A schema is a record with the name of the root, the sequence elems of   *)
(* global elements and the function types from names to types.  Of the     *)
(* builtin types there is one of each way in which a scalar is read.       *)
(***************************************************************************)
EXTENDS Integers, Sequences, FiniteSets, FiniteSetsExt, TLC

CONSTANTS
  DeclaredNames,   \* the names that the schemas give to types
  Nesting          \* how many choices stand one in another at most

ASSUME NestingAssumption == Nesting \in Nat

Unbounded == -1

Builtins  == {"string", "int", "boolean", "double"}
TypeNames == DeclaredNames \cup Builtins

Field(name, type, min, max) ==
  [name |-> name, type |-> type, min |-> min, max |-> max,
   nillable |-> FALSE, required |-> FALSE, choice |-> <<>>]

Type(name, kind, primitive) ==
  [name |-> name, kind |-> kind, abstract |-> FALSE, base |-> "",
   primitive |-> primitive, enum |-> <<>>, attrs |-> <<>>, elems |-> <<>>]

\* What Lookup returns beside an error.
NoType == Type("", "none", "")

\* What the parsers return beside an error, which has no elements.
NoSchema == [root |-> "", elems |-> <<>>, types |-> <<>>]

\* The fields of a type. An option of a choice may be a choice itself: no XSD says
\* so, but a template can.
FieldSet(choices) ==
  [name : STRING, type : STRING, min : Int, max : Int,
   nillable : BOOLEAN, required : BOOLEAN, choice : choices]

Options(trees, d)     == IF d = 0 THEN {<<>>} ELSE Seq(trees[d - 1])
FieldTrees[d \in Nat] == FieldSet(Options(FieldTrees, d))

Declared == FieldTrees[Nesting]

Scalar(t)   == t.kind \in {"primitive", "simple"}
Repeated(f) == f.max = Unbounded \/ f.max > 1

\* The names with a prefix that occur: xs is that of the builtin types, and p
\* stands for those that a document may choose.
NamePrefixes == {"xs:", "p:"}
LocalNames ==
  [q \in {p \o n : p \in NamePrefixes, n \in TypeNames} |->
     CHOOSE n \in TypeNames : \E p \in NamePrefixes : q = p \o n]

\* Names are strings, and those with a prefix are neither empty nor names of types.
ASSUME NamesAssumption ==
  TypeNames \subseteq STRING /\ (TypeNames \cup {""}) \cap DOMAIN LocalNames = {}

LocalName(name) == IF name \in DOMAIN LocalNames THEN LocalNames[name] ELSE name

\* The element that documents start with: the one called root, or the first.
RootField(s) ==
  LET named == {i \in DOMAIN s.elems : s.elems[i].name = s.root \/ s.root = ""} IN
  s.elems[IF named = {} THEN 1 ELSE Min(named)]

\* A declared type hides the builtin one of its name.
Lookup(s, name) ==
  LET local == LocalName(name) IN
  IF local \in DOMAIN s.types \ {""} THEN s.types[local]
  ELSE IF local \in Builtins THEN Type(local, "primitive", local)
  ELSE NoType

\* A step of either walk below: the name that it comes to, and those before it.
Walks == STRING \X SUBSET STRING

\* The loop of DerivedFrom: name, or a base of it, is base.
Climbs(s, base) ==
  LET climbs[q \in Walks] ==
        LET above == Lookup(s, q[1]).base IN
        \/ q[1] = base
        \/ q[1] \notin q[2] /\ above # "" /\ climbs[<<above, q[2] \cup {q[1]}>>] IN
  climbs

DerivedFrom(s, name, base) ==
  LocalName(name) # "" /\ Climbs(s, LocalName(base))[<<LocalName(name), {}>>]

Fields(attrs, elems) == [ok |-> TRUE, attrs |-> attrs, elems |-> elems]
NoFields             == [ok |-> FALSE, attrs |-> <<>>, elems |-> <<>>]

\* A type's fields come after those that it inherits, if it has a base.
Extended(t, inherited) ==
  CASE t.base = ""                   -> Fields(t.attrs, t.elems)
    [] t.base # "" /\ inherited.ok  -> Fields(inherited.attrs \o t.attrs, inherited.elems \o t.elems)
    [] t.base # "" /\ ~inherited.ok -> NoFields

\* The walk of Effective from a base up. The names that it has seen are those of
\* bases: that of the type it has started from is not among them.
Inherit(s) ==
  LET walk[q \in Walks] ==
        LET base == Lookup(s, q[1]) IN
        IF q[1] \in q[2] \/ base = NoType THEN NoFields
        ELSE Extended(base, walk[<<base.base, q[2] \cup {q[1]}>>]) IN
  walk

\* Mutant of Effective: only the nearest base is asked.
EffectiveShallow(s, t) ==
  LET base == Lookup(s, t.base) IN
  Extended(t, IF base = NoType THEN NoFields ELSE Fields(base.attrs, base.elems))

Effective(s, t) == Extended(t, Inherit(s)[<<t.base, {}>>])
=============================================================================
