----------------------------- MODULE MCStartup -----------------------------
(* An instance of Startup that TLC explores. *)
EXTENDS MCStore, Startup

\* Settings that give every number and every text alike.
Alike(n, text) ==
  [number |-> [f \in NumberFields |-> n], text |-> [f \in TextFields |-> text]]

\* Each number and each text another one.
Unlike ==
  [number |-> [workers |-> 3, queue_size |-> 4, max_jobs |-> 2, max_body_bytes |-> 5],
   text |-> [addr |-> "host", path |-> "db"]]

SomeSettings == {Unlike} \cup
  {Alike(n, text) : n \in {Absent, -1, 0, 1}, text \in {Absent, "", ":memory:"}}
=============================================================================
