------------------------------- MODULE Store -------------------------------
(***************************************************************************)
(* The SQLite store (store/store.go): the table of jobs, the current       *)
(* document and the current schema.  Every method is a transaction under   *)
(* the store's mutex, and so one step.                                     *)
(*                                                                         *)
(* Texts, bodies and errors are left out, except the mark that Open leaves *)
(* on the jobs that the last run of the process did not finish.            *)
(***************************************************************************)
EXTENDS Jobs, TextTime

CONSTANTS
  RowIds,    \* the ids of jobs
  Blobs,     \* the documents and schemas that the one-row tables can hold
  NoBlob     \* the empty one-row table

ASSUME StoreAssumption ==
  /\ IsFiniteSet(RowIds)
  /\ NoBlob \notin Blobs

VARIABLES
  rows,      \* the table jobs; NoRow where an id has none
  document,  \* the table current_document
  schema,    \* the table current_schema
  limit      \* s.maxJobs: one process may be started with another than the last

tables == <<rows, document, schema>>
vars   == <<tables, limit>>

NoRow == [status |-> "none", kind |-> "none", updated |-> 0, interrupted |-> FALSE]

Row(st, kind, time) ==
  [status |-> st, kind |-> kind, updated |-> time, interrupted |-> FALSE]

Stored(table)       == {id \in RowIds : table[id] # NoRow}
\* Mutant of FinishedRows: gcTx and DeleteFinished look at every row.
EveryRow(table) == Stored(table)

FinishedRows(table) == {id \in RowIds : table[id].status \in Finished}

Without(table, ids) == [id \in RowIds |-> IF id \in ids THEN NoRow ELSE table[id]]

\* Mutant of Collectable: one row too many is kept.
CollectableTooFew(table) ==
  LET finished == FinishedRows(table)
      n == Least(Excess(Cardinality(Stored(table)), limit + 1), Cardinality(finished)) IN
  {ids \in SUBSET finished : Cardinality(ids) = n}

\* Mutant of Collectable: the order of the query is turned around.
CollectableNewest(table) ==
  LET finished == FinishedRows(table)
      n == Least(Excess(Cardinality(Stored(table)), limit), Cardinality(finished)) IN
  {ids \in SUBSET finished :
     /\ Cardinality(ids) = n
     /\ \A gone \in ids, kept \in finished \ ids :
          ~TextBefore(table[gone].updated, table[kept].updated)}

\* What gcTx may delete: as many finished rows as there are too many rows, the
\* first in the order of their time texts; ids break ties, in an order unknown.
Collectable(table) ==
  LET finished == FinishedRows(table)
      n == Least(Excess(Cardinality(Stored(table)), limit), Cardinality(finished)) IN
  {ids \in SUBSET finished :
     /\ Cardinality(ids) = n
     /\ \A gone \in ids, kept \in finished \ ids :
          ~TextBefore(table[kept].updated, table[gone].updated)}

\* Insert or overwrite the row of a job, then collect, in one transaction.
Put(id, kind, st, time) ==
  /\ LET written == [rows EXCEPT ![id] = Row(st, kind, time)] IN
       \E ids \in Collectable(written) : rows' = Without(written, ids)
  /\ UNCHANGED <<document, schema>>

Delete(id) ==
  /\ rows' = Without(rows, {id})
  /\ UNCHANGED <<document, schema>>

DeleteFinished(kind) ==
  /\ rows' = Without(rows, {id \in FinishedRows(rows) : kind \in {"", rows[id].kind}})
  /\ UNCHANGED <<document, schema>>

SetDocument(blob) == document' = blob /\ UNCHANGED <<rows, schema>>
ClearDocument     == document' = NoBlob /\ UNCHANGED <<rows, schema>>
SetSchema(blob)   == schema' = blob /\ UNCHANGED <<rows, document>>
ClearSchema       == schema' = NoBlob /\ UNCHANGED <<rows, document>>

\* Mutant of Open: the interrupted jobs get a status of their own.
OpenMarks(time) ==
  /\ rows' = [id \in RowIds |->
                IF rows[id].status \in Unfinished
                  THEN [status |-> "interrupted", kind |-> rows[id].kind,
                        updated |-> time, interrupted |-> TRUE]
                  ELSE rows[id]]
  /\ UNCHANGED <<document, schema>>

\* Mutant of Open: only the running jobs are failed.
OpenForgetsQueued(time) ==
  /\ rows' = [id \in RowIds |->
                IF rows[id].status = "running"
                  THEN [status |-> "failed", kind |-> rows[id].kind,
                        updated |-> time, interrupted |-> TRUE]
                  ELSE rows[id]]
  /\ UNCHANGED <<document, schema>>

\* Open on an existing database: failInterrupted, which collects nothing.
Open(time) ==
  /\ rows' = [id \in RowIds |->
                IF rows[id].status \in Unfinished
                  THEN [status |-> "failed", kind |-> rows[id].kind,
                        updated |-> time, interrupted |-> TRUE]
                  ELSE rows[id]]
  /\ UNCHANGED <<document, schema>>
-----------------------------------------------------------------------------
(* The store on its own, called in any order with any times: the wall clock
   that stamps the rows may be set back. *)

CONSTANTS Times, Limits

ASSUME TimesAssumption == Times \subseteq Nat /\ Limits \subseteq Nat \ {0}

Init ==
  /\ rows = [id \in RowIds |-> NoRow]
  /\ document = NoBlob
  /\ schema = NoBlob

PutAny == \E id \in RowIds, kind \in Kinds, st \in Statuses, time \in Times :
            Put(id, kind, st, time)

\* The other writes of a store that is open.
WriteAny ==
  \/ \E id \in RowIds : Delete(id)
  \/ \E kind \in KindFilters : DeleteFinished(kind)
  \/ \E blob \in Blobs : SetDocument(blob) \/ SetSchema(blob)
  \/ ClearDocument \/ ClearSchema

Next ==
  \/ (PutAny \/ WriteAny) /\ UNCHANGED limit
  \/ \E time \in Times : Open(time) /\ limit' \in Limits

Spec == Init /\ limit \in Limits /\ [][Next]_vars
-----------------------------------------------------------------------------
(* Properties. *)

\* The tables hold rows of jobs, documents and schemas (store.go:16-43).
TypeOK ==
  /\ rows \in [RowIds ->
       {NoRow} \cup [status : Statuses, kind : Kinds, updated : Nat, interrupted : BOOLEAN]]
  /\ document \in Blobs \cup {NoBlob}
  /\ schema \in Blobs \cup {NoBlob}
  /\ limit \in Nat \ {0}

\* What is left of the order that README.md promises (CollectsOldest, below): no
\* save of a job collects another whose last update is in a later second than
\* that of a finished job that stays.
OldestToTheSecond ==
  [][\A gone, kept \in FinishedRows(rows) :
       /\ rows'[gone] = NoRow /\ rows'[kept] # NoRow
       /\ rows[kept].updated \div Ticks < rows[gone].updated \div Ticks
       => \A id \in RowIds \ {gone, kept}, kind \in Kinds, st \in Statuses, time \in Times :
            ~Put(id, kind, st, time)]_vars

\* README: over max_jobs, the oldest finished jobs go. No finished job that a
\* save collects is younger than one that it keeps.
CollectsOldest ==
  [][PutAny =>
       \A gone, kept \in FinishedRows(rows) :
         rows'[gone] = NoRow /\ rows'[kept] = rows[kept] =>
           rows[gone].updated <= rows[kept].updated]_vars
=============================================================================
