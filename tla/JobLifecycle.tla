---------------------------- MODULE JobLifecycle ----------------------------
(***************************************************************************)
(* What the queue promises about each job, without channel, workers or     *)
(* locks: an accepted job is started and finished exactly once, whoever    *)
(* waits for it is notified once it is final, and only a final job may be  *)
(* forgotten.                                                              *)
(***************************************************************************)
EXTENDS Jobs

CONSTANT JobIds

VARIABLES
  phase,     \* phase[id]: "new", a status, or "forgotten"
  notified   \* the jobs whose waiters have been released

vars == <<phase, notified>>

Init ==
  /\ phase = [id \in JobIds |-> "new"]
  /\ notified = {}

Accept(id) ==
  /\ phase[id] = "new"
  /\ phase' = [phase EXCEPT ![id] = "queued"]
  /\ UNCHANGED notified

Start(id) ==
  /\ phase[id] = "queued"
  /\ phase' = [phase EXCEPT ![id] = "running"]
  /\ UNCHANGED notified

Finish(id) ==
  /\ phase[id] = "running"
  /\ \E outcome \in Finished : phase' = [phase EXCEPT ![id] = outcome]
  /\ UNCHANGED notified

\* Final jobs leave the history together: evicted by a submission, or cleared.
Forget(ids) ==
  /\ \A id \in ids : phase[id] \in Finished
  /\ phase' = [id \in JobIds |-> IF id \in ids THEN "forgotten" ELSE phase[id]]
  /\ UNCHANGED notified

Notify(id) ==
  /\ phase[id] \in Finished \cup {"forgotten"}
  /\ notified' = notified \cup {id}
  /\ UNCHANGED phase

Next ==
  \/ \E id \in JobIds : Accept(id) \/ Start(id) \/ Finish(id) \/ Notify(id)
  \/ \E ids \in SUBSET JobIds : Forget(ids)

Fairness ==
  \A id \in JobIds :
    /\ WF_vars(Start(id))
    /\ WF_vars(Finish(id))
    /\ WF_vars(Notify(id))

Spec == Init /\ [][Next]_vars /\ Fairness
=============================================================================
