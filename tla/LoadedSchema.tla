---------------------------- MODULE LoadedSchema ----------------------------
(***************************************************************************)
(* The schema that the server has loaded, and what its types inherit: what *)
(* schema/schema.go promises of any schema, however its types are          *)
(* entangled.                                                              *)
(***************************************************************************)
EXTENDS SchemaTypes

VARIABLE sch   \* the schema loaded on the server (s.sch)

\* The kind none is that of NoType, which no schema declares.
TypeSet ==
  [name : STRING, kind : STRING \ {"none"}, abstract : BOOLEAN, base : STRING,
   primitive : STRING, enum : Seq(STRING), attrs : Seq(Declared), elems : Seq(Declared)]

\* A loaded schema (schema.go:7-32) has an element, and finitely many types, each
\* under its name.
SchemaTypeOK ==
  /\ sch.root \in STRING
  /\ sch.elems \in Seq(Declared)
  /\ sch.elems = <<>> => sch = NoSchema
  /\ IsFiniteSet(DOMAIN sch.types)
  /\ sch.types \in [DOMAIN sch.types -> TypeSet]
  /\ \A name \in DOMAIN sch.types : sch.types[name].name = name

(* The chain of bases that starts from a name, laid out by position. *)

Chain(name) ==
  LET up[k \in Nat] == IF k = 0 THEN name ELSE Lookup(sch, up[k - 1]).base IN
  up

\* Where a chain ends: at a type without a base.
IsTop(name) == Lookup(sch, name) # NoType /\ Lookup(sch, name).base = ""

\* The fields of the first k types of a chain, the furthest first.
AttrsDown(up) ==
  LET down[k \in Nat] ==
        IF k = 0 THEN <<>> ELSE Lookup(sch, up[k - 1]).attrs \o down[k - 1] IN
  down

ElemsDown(up) ==
  LET down[k \in Nat] ==
        IF k = 0 THEN <<>> ELSE Lookup(sch, up[k - 1]).elems \o down[k - 1] IN
  down

\* Effective gives a type the fields of all its bases, from the top of the chain
\* down, and fails just when the chain meets an unknown name or itself, however
\* the types are entangled; DerivedFrom finds just the names on the chain; and a
\* chain has shown all that is on it after as many steps as there are types.
Inheritance ==
  LET far == 0..Cardinality(DOMAIN sch.types) IN
  \A name \in {n \in TypeNames : n # "" /\ LocalName(n) = n} :
    LET up  == Chain(name)
        own == Effective(sch, Lookup(sch, name)) IN
    /\ Lookup(sch, name) # NoType => (own.ok <=> \E k \in far : IsTop(up[k]))
    /\ \A k \in far :
         IsTop(up[k]) => own = Fields(AttrsDown(up)[k + 1], ElemsDown(up)[k + 1])
    /\ \A base \in TypeNames :
         DerivedFrom(sch, name, base) <=>
           LocalName(base) # "" /\ \E k \in far : up[k] = LocalName(base)
=============================================================================
