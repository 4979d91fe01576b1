-------------------------------- MODULE Jobs --------------------------------
(***************************************************************************)
(* The vocabulary shared by the queue, the store and the server: what a    *)
(* submission asks for, the kind of its job, and the statuses a job goes   *)
(* through.                                                                *)
(***************************************************************************)
EXTENDS Naturals

\* What distinguishes submissions once they are in the queue: an XML or JSON
\* document decoded with the loaded schema, the same with ?catalog=1 (decoded
\* as a catalog whatever the schema), or a schema (XSD or JSON template).
RequestTypes == {"document", "catalog", "schema"}

\* An id that no accepted submission has drawn.
NoRequest == "none"

Kinds == {"document", "schema"}

JobKind(request) == IF request = "schema" THEN "schema" ELSE "document"

\* The kind parameter of DELETE /jobs: "" stands for none and selects every kind.
KindFilters == Kinds \cup {""}

Selects(kind, request) == kind = "" \/ kind = JobKind(request)

Unfinished == {"queued", "running"}
Finished   == {"done", "failed"}
Statuses   == Unfinished \cup Finished

\* By how much n exceeds max.
Excess(n, max) == IF n > max THEN n - max ELSE 0

Least(m, n) == IF m <= n THEN m ELSE n
=============================================================================
