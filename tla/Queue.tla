------------------------------- MODULE Queue -------------------------------
(***************************************************************************)
(* The job queue (queue/queue.go): handlers submit jobs into a bounded     *)
(* channel, workers take them out and record their outcome in the map      *)
(* q.jobs, guarded by q.mu.  Every critical section of q.mu is one step,   *)
(* except that of submit, which calls the persister while it holds q.mu    *)
(* and sends on a channel that the workers drain without it.               *)
(*                                                                         *)
(* The calls of the persister and of onDone are steps of their own that    *)
(* change nothing here; module Service gives them their effects.           *)
(***************************************************************************)
EXTENDS Jobs, Sequences, FiniteSets

CONSTANTS
  Workers,     \* the goroutines that run worker()
  Callers,     \* the goroutines (HTTP handlers) that call the queue's methods
  JobIds,      \* the ids that newID can draw; bounds the submissions
  NoJob,       \* stands for "no job"
  Requests,    \* the types of submissions that are made
  Filters,     \* the kinds that ClearKind is called with, "" for Clear
  QueueSize,   \* the capacity of the channel q.tasks
  MaxJobs      \* q.maxJobs

ASSUME QueueAssumption ==
  /\ IsFiniteSet(Workers) /\ Workers # {}
  /\ IsFiniteSet(JobIds)
  /\ NoJob \notin JobIds
  /\ Requests \subseteq RequestTypes
  /\ Filters \subseteq KindFilters
  /\ QueueSize \in Nat \ {0}
  /\ MaxJobs \in Nat \ {0}

VARIABLES
  tasks,       \* the contents of the channel q.tasks
  closed,      \* q.closed: the channel is closed
  status,      \* status[id]: that of q.jobs[id], "absent" if there is none
  updated,     \* updated[id]: UpdatedAt of a finished job, the tick it got
  clock,       \* the last tick handed out
  request,     \* request[id]: what was submitted under id
  victims,     \* gcLocked's removed: evicted from q.jobs, not yet deleted from disk
  signalled,   \* the jobs whose done channel is closed
  worker,      \* the program counter and task of each worker
  caller       \* the program counter and arguments of each caller

shared == <<tasks, closed, status, updated, clock, request, victims, signalled>>
vars   == <<shared, worker, caller>>

Ready == [pc |-> "receive", task |-> NoJob, outcome |-> "none"]
Idle  == [pc |-> "idle", job |-> NoJob, kind |-> ""]

Known        == {id \in JobIds : status[id] # "absent"}
\* Mutant of FinishedJobs: gcLocked and Clear look at every job.
EveryKnownJob == {id \in JobIds : status[id] # "absent"}

FinishedJobs == {id \in JobIds : status[id] \in Finished}

\* q.mu is held over several steps only by a submission.
MuFree == \A c \in Callers : caller[c].pc \notin {"evict", "send", "record"}

\* The sets of n elements of S of which no other element of S is older.
Oldest(S, n) ==
  {V \in SUBSET S :
     /\ Cardinality(V) = n
     /\ \A v \in V, kept \in S \ V : updated[v] <= updated[kept]}

Drop(ids) == status' = [id \in JobIds |-> IF id \in ids THEN "absent" ELSE status[id]]

Init ==
  /\ tasks = <<>>
  /\ closed = FALSE
  /\ status = [id \in JobIds |-> "absent"]
  /\ updated = [id \in JobIds |-> 0]
  /\ clock = 0
  /\ request = [id \in JobIds |-> NoRequest]
  /\ victims = {}
  /\ signalled = {}
  /\ worker = [w \in Workers |-> Ready]
  /\ caller = [c \in Callers |-> Idle]
-----------------------------------------------------------------------------
(* Submit and SubmitCatalog. *)

\* Mutant of ToEvict: gcLocked looks for done jobs alone.
EvictDone ==
  Least(Excess(Cardinality(Known) + 1, MaxJobs), Cardinality({id \in JobIds : status[id] = "done"}))

\* Mutant of ToEvict: room is made for one job more than is coming.
EvictForTwo == Least(Excess(Cardinality(Known) + 2, MaxJobs), Cardinality(FinishedJobs))

\* How many finished jobs gcLocked evicts to make room for one more job.
ToEvict == Least(Excess(Cardinality(Known) + 1, MaxJobs), Cardinality(FinishedJobs))

\* Takes q.mu and evicts; a closed queue refuses before that.
Submit(c) ==
  /\ caller[c].pc = "idle"
  /\ MuFree
  /\ ~closed
  /\ \E id \in JobIds : request[id] = NoRequest
  /\ victims' \in Oldest(FinishedJobs, ToEvict)
  /\ Drop(victims')
  /\ caller' = [caller EXCEPT ![c].pc = IF victims' = {} THEN "send" ELSE "evict"]
  /\ UNCHANGED <<tasks, closed, updated, clock, request, signalled, worker>>

\* persist.Delete, oldest victim first, still under q.mu.
EvictRow(c, id) ==
  /\ caller[c].pc = "evict"
  /\ id \in victims
  /\ \A other \in victims : updated[id] <= updated[other]
  /\ victims' = victims \ {id}
  /\ caller' = [caller EXCEPT ![c].pc = IF victims' = {} THEN "send" ELSE "evict"]
  /\ UNCHANGED <<tasks, closed, status, updated, clock, request, signalled, worker>>

\* There is room: the task is sent, and a worker can have it from now on.
Send(c, id, r) ==
  /\ caller[c].pc = "send"
  /\ Len(tasks) < QueueSize
  /\ request[id] = NoRequest
  /\ tasks' = Append(tasks, id)
  /\ request' = [request EXCEPT ![id] = r]
  /\ caller' = [caller EXCEPT ![c].pc = "record", ![c].job = id]
  /\ UNCHANGED <<closed, status, updated, clock, victims, signalled, worker>>

\* The job is entered in q.jobs, and q.mu released.
Record(c) ==
  /\ caller[c].pc = "record"
  /\ status' = [status EXCEPT ![caller[c].job] = "queued"]
  /\ caller' = [caller EXCEPT ![c].pc = "saveQueued"]
  /\ UNCHANGED <<tasks, closed, updated, clock, request, victims, signalled, worker>>

\* ErrQueueFull: what gcLocked evicted stays evicted.
Reject(c) ==
  /\ caller[c].pc = "send"
  /\ Len(tasks) >= QueueSize
  /\ caller' = [caller EXCEPT ![c] = Idle]
  /\ UNCHANGED <<shared, worker>>

\* persist.Save of the snapshot taken under q.mu, now without it.
SaveQueued(c) ==
  /\ caller[c].pc = "saveQueued"
  /\ caller' = [caller EXCEPT ![c].pc = "return"]
  /\ UNCHANGED <<shared, worker>>

\* Takes q.mu again for the deferred Unlock; the ticket goes to the client.
Return(c) ==
  /\ caller[c].pc = "return"
  /\ MuFree
  /\ caller' = [caller EXCEPT ![c] = Idle]
  /\ UNCHANGED <<shared, worker>>
-----------------------------------------------------------------------------
(* Clear, ClearKind, Wait and Close. *)

\* Mutant of Clear: clearFinished does not look at the status.
ClearAny(c, kind) ==
  /\ caller[c].pc = "idle"
  /\ MuFree
  /\ Drop({id \in Known : Selects(kind, request[id])})
  /\ caller' = [caller EXCEPT ![c].pc = "clearRows", ![c].kind = kind]
  /\ UNCHANGED <<tasks, closed, updated, clock, request, victims, signalled, worker>>

Clear(c, kind) ==
  /\ caller[c].pc = "idle"
  /\ MuFree
  /\ Drop({id \in FinishedJobs : Selects(kind, request[id])})
  /\ caller' = [caller EXCEPT ![c].pc = "clearRows", ![c].kind = kind]
  /\ UNCHANGED <<tasks, closed, updated, clock, request, victims, signalled, worker>>

ClearRows(c) ==
  /\ caller[c].pc = "clearRows"
  /\ caller' = [caller EXCEPT ![c] = Idle]
  /\ UNCHANGED <<shared, worker>>

Wait(c, id) ==
  /\ caller[c].pc = "idle"
  /\ MuFree
  /\ id \in Known
  /\ caller' = [caller EXCEPT ![c].pc = "waiting", ![c].job = id]
  /\ UNCHANGED <<shared, worker>>

\* The waiter read the job's done channel from q.jobs when it began to wait, so
\* it is released even if the job has left the map since.
WaitEnd(c) ==
  /\ caller[c].pc = "waiting"
  /\ caller[c].job \in signalled
  /\ MuFree
  /\ caller' = [caller EXCEPT ![c] = Idle]
  /\ UNCHANGED <<shared, worker>>

WaitTimeout(c) ==
  /\ caller[c].pc = "waiting"
  /\ MuFree
  /\ caller' = [caller EXCEPT ![c] = Idle]
  /\ UNCHANGED <<shared, worker>>

\* Mutant of Close: q.closed is set and the channel closed without q.mu.
CloseUnlocked(c) ==
  /\ caller[c].pc = "idle"
  /\ ~closed
  /\ closed' = TRUE
  /\ caller' = [caller EXCEPT ![c].pc = "closing"]
  /\ UNCHANGED <<tasks, status, updated, clock, request, victims, signalled, worker>>

Close(c) ==
  /\ caller[c].pc = "idle"
  /\ MuFree
  /\ ~closed
  /\ closed' = TRUE
  /\ caller' = [caller EXCEPT ![c].pc = "closing"]
  /\ UNCHANGED <<tasks, status, updated, clock, request, victims, signalled, worker>>

\* wg.Wait returns.
CloseReturn(c) ==
  /\ caller[c].pc = "closing"
  /\ \A w \in Workers : worker[w].pc = "exited"
  /\ caller' = [caller EXCEPT ![c] = Idle]
  /\ UNCHANGED <<shared, worker>>
-----------------------------------------------------------------------------
(* worker and setStatus. *)

Goto(w, pc) == worker' = [worker EXCEPT ![w].pc = pc]

Receive(w) ==
  /\ worker[w].pc = "receive"
  /\ tasks # <<>>
  /\ worker' = [worker EXCEPT ![w].pc = "start", ![w].task = Head(tasks)]
  /\ tasks' = Tail(tasks)
  /\ UNCHANGED <<closed, status, updated, clock, request, victims, signalled, caller>>

\* Mutant of Exit: the worker leaves when the queue is closed, drained or not.
ExitUndrained(w) ==
  /\ worker[w].pc = "receive"
  /\ closed
  /\ Goto(w, "exited")
  /\ UNCHANGED <<shared, caller>>

\* Mutant of Exit: the worker leaves without wg.Done.
ExitUncounted(w) ==
  /\ worker[w].pc = "receive"
  /\ tasks = <<>>
  /\ closed
  /\ Goto(w, "gone")
  /\ UNCHANGED <<shared, caller>>

\* The channel is closed and drained: the range loop ends.
Exit(w) ==
  /\ worker[w].pc = "receive"
  /\ tasks = <<>>
  /\ closed
  /\ Goto(w, "exited")
  /\ UNCHANGED <<shared, caller>>

\* Mutant of Start: the worker does not mark the job as running.
StartUnmarked(w) ==
  /\ worker[w].pc = "start"
  /\ MuFree
  /\ Goto(w, "saveRunning")
  /\ UNCHANGED <<shared, caller>>

\* Mutant of Start: setStatus looks the job up without q.mu.
StartUnlocked(w) ==
  /\ worker[w].pc = "start"
  /\ IF worker[w].task \in Known
       THEN /\ status' = [status EXCEPT ![worker[w].task] = "running"]
            /\ Goto(w, "saveRunning")
       ELSE /\ Goto(w, "process")
            /\ UNCHANGED status
  /\ UNCHANGED <<tasks, closed, updated, clock, request, victims, signalled, caller>>

\* setStatus(running); a job that is not in the map is processed all the same.
Start(w) ==
  /\ worker[w].pc = "start"
  /\ MuFree
  /\ IF worker[w].task \in Known
       THEN /\ status' = [status EXCEPT ![worker[w].task] = "running"]
            /\ Goto(w, "saveRunning")
       ELSE /\ Goto(w, "process")
            /\ UNCHANGED status
  /\ UNCHANGED <<tasks, closed, updated, clock, request, victims, signalled, caller>>

SaveRunning(w) ==
  /\ worker[w].pc = "saveRunning"
  /\ Goto(w, "process")
  /\ UNCHANGED <<shared, caller>>

\* Mutant of Process: the outcome is not handed to setStatus.
ProcessLosesOutcome(w, outcome) ==
  /\ worker[w].pc = "process"
  /\ Goto(w, "finish")
  /\ UNCHANGED <<shared, caller>>

\* ProcessCatalog or q.proc, then the encoding of the result at the head of
\* setStatus: an error of either makes the job fail.
Process(w, outcome) ==
  /\ worker[w].pc = "process"
  /\ worker' = [worker EXCEPT ![w].pc = "finish", ![w].outcome = outcome]
  /\ UNCHANGED <<shared, caller>>

\* Mutant of Finish: the done channel is closed with the status, before the save
\* and the callback.
FinishAndSignal(w) ==
  /\ worker[w].pc = "finish"
  /\ MuFree
  /\ status' = [status EXCEPT ![worker[w].task] = worker[w].outcome]
  /\ updated' = [updated EXCEPT ![worker[w].task] = clock + 1]
  /\ clock' = clock + 1
  /\ signalled' = signalled \cup {worker[w].task}
  /\ Goto(w, "saveFinal")
  /\ UNCHANGED <<tasks, closed, request, victims, caller>>

\* setStatus(done or failed), its critical section.
Finish(w) ==
  /\ worker[w].pc = "finish"
  /\ MuFree
  /\ IF worker[w].task \in Known
       THEN /\ status' = [status EXCEPT ![worker[w].task] = worker[w].outcome]
            /\ updated' = [updated EXCEPT ![worker[w].task] = clock + 1]
            /\ clock' = clock + 1
            /\ Goto(w, "saveFinal")
       ELSE /\ worker' = [worker EXCEPT ![w] = Ready]
            /\ UNCHANGED <<status, updated, clock>>
  /\ UNCHANGED <<tasks, closed, request, victims, signalled, caller>>

\* Mutant of SaveFinal: nobody announces a failed job.
SaveFinalSilently(w) ==
  /\ worker[w].pc = "saveFinal"
  /\ worker' = [worker EXCEPT
       ![w] = IF @.outcome = "done" THEN [@ EXCEPT !.pc = "callback"] ELSE Ready]
  /\ UNCHANGED <<shared, caller>>

SaveFinal(w) ==
  /\ worker[w].pc = "saveFinal"
  /\ Goto(w, IF worker[w].outcome = "done" THEN "callback" ELSE "signal")
  /\ UNCHANGED <<shared, caller>>

Callback(w) ==
  /\ worker[w].pc = "callback"
  /\ Goto(w, "signal")
  /\ UNCHANGED <<shared, caller>>

\* close(st.done), under q.mu.
Signal(w) ==
  /\ worker[w].pc = "signal"
  /\ MuFree
  /\ signalled' = signalled \cup {worker[w].task}
  /\ worker' = [worker EXCEPT ![w] = Ready]
  /\ UNCHANGED <<tasks, closed, status, updated, clock, request, victims, caller>>
-----------------------------------------------------------------------------
WorkerStep(w) ==
  \/ Receive(w) \/ Exit(w) \/ Start(w) \/ SaveRunning(w)
  \/ \E outcome \in Finished : Process(w, outcome)
  \/ Finish(w) \/ SaveFinal(w) \/ Callback(w) \/ Signal(w)

\* The steps of a call once it has begun.
CallStep(c) ==
  \/ \E id \in JobIds : EvictRow(c, id)
  \/ \E id \in JobIds, r \in Requests : Send(c, id, r)
  \/ Record(c) \/ Reject(c) \/ SaveQueued(c) \/ Return(c)
  \/ ClearRows(c) \/ WaitEnd(c) \/ CloseReturn(c)

\* Calls that clients make, or do not make.
CallBegin(c) ==
  \/ Submit(c) \/ Close(c)
  \/ \E kind \in Filters : Clear(c, kind)
  \/ \E id \in JobIds : Wait(c, id)

Next ==
  \/ \E w \in Workers : WorkerStep(w)
  \/ \E c \in Callers : CallStep(c) \/ CallBegin(c) \/ WaitTimeout(c)

\* Goroutines are scheduled; a goroutine that waits for q.mu gets it in the end,
\* since sync.Mutex hands over to a waiter that starves, and so does one that
\* waits for a channel. Processing a task terminates. Nobody has to call.
Fairness ==
  /\ \A w \in Workers : SF_vars(WorkerStep(w))
  /\ \A c \in Callers : SF_vars(CallStep(c))

Spec == Init /\ [][Next]_vars /\ Fairness
-----------------------------------------------------------------------------
(* Properties. *)

WorkerStates ==
  [pc : {"receive", "start", "saveRunning", "process", "finish", "saveFinal",
         "callback", "signal", "exited"},
   task : JobIds \cup {NoJob},
   outcome : Finished \cup {"none"}]

CallStates ==
  [pc : {"idle", "evict", "send", "record", "saveQueued", "return", "clearRows",
         "waiting", "closing"},
   job : JobIds \cup {NoJob},
   kind : KindFilters]

\* Every variable has its type: channel contents, map, clock, and the program
\* counters and arguments of workers and callers (queue.go's state).
TypeOK ==
  /\ tasks \in Seq(JobIds)
  /\ closed \in BOOLEAN
  /\ status \in [JobIds -> Statuses \cup {"absent"}]
  /\ updated \in [JobIds -> Nat]
  /\ clock \in Nat
  /\ request \in [JobIds -> RequestTypes \cup {NoRequest}]
  /\ victims \subseteq JobIds
  /\ signalled \subseteq JobIds
  /\ worker \in [Workers -> WorkerStates]
  /\ caller \in [Callers -> CallStates]

InChannel == {tasks[i] : i \in DOMAIN tasks}

\* The workers that hold a task whose outcome is not yet in q.jobs.
Working == {w \in Workers :
              worker[w].pc \in {"start", "saveRunning", "process", "finish"}}

\* The workers that hold a task at all.
Busy == {w \in Workers : worker[w].pc \notin {"receive", "exited"}}

\* The jobs that submit has sent and not yet entered in q.jobs.
Recording == {caller[c].job : c \in {d \in Callers : caller[d].pc = "record"}}

\* A job is unfinished exactly while it has one owner, from when submit enters it
\* in q.jobs: one slot of the channel, or one worker that has received it and not
\* recorded its outcome. Neither gcLocked nor Clear takes a job away from its
\* owner, no job is processed twice, and none is left behind as queued or running.
OneOwner ==
  /\ {id \in JobIds : status[id] \in Unfinished}
       = (InChannel \cup {worker[w].task : w \in Working}) \ Recording
  /\ \A i, j \in DOMAIN tasks : tasks[i] = tasks[j] => i = j
  /\ \A v, w \in Busy : worker[v].task = worker[w].task => v = w
  /\ \A w \in Busy : worker[w].task \notin InChannel

\* The status of a job that no worker has begun.
NotBegun(id) == IF id \in Recording THEN "absent" ELSE "queued"

\* A job is queued until a worker says that it runs it, running until the worker
\* records the outcome, and what is recorded is what the processing came to: also
\* when a worker receives the job before submit has entered it in q.jobs.
StatusFollowsOwner ==
  /\ \A id \in InChannel : status[id] = NotBegun(id)
  /\ \A w \in Busy :
       LET id == worker[w].task IN
       CASE worker[w].pc = "start" -> status[id] = NotBegun(id)
         [] worker[w].pc \in {"saveRunning", "process", "finish"} ->
              status[id] = "running"
         [] OTHER -> status[id] \in {worker[w].outcome, "absent"}

\* q.jobs stays within maxJobs or within the unfinished jobs that the channel
\* and the workers can hold, whichever is more, however submissions, rejected
\* submissions, completions and evictions interleave.
KnownBound ==
  LET capacity == QueueSize + Cardinality(Workers) IN
  Cardinality(Known) <= (IF MaxJobs >= capacity THEN MaxJobs ELSE capacity)

\* README: over max_jobs, the oldest finished jobs go. Unless somebody asks for it,
\* q.jobs loses a job only when it is full, and then no younger one than it keeps:
\* any number of submissions that are rejected for the channel costs the history
\* one finished job, for gcLocked makes room before it is known to be needed.
KeepsHistory ==
  [][Cardinality(Known') < Cardinality(Known) =>
       \/ \E c \in Callers : caller[c].pc = "idle" /\ caller'[c].pc = "clearRows"
       \/ /\ Cardinality(Known') >= MaxJobs - 1
          /\ \A gone \in Known \ Known', kept \in FinishedJobs' :
               updated[gone] <= updated[kept]]_vars

\* Whoever is woken by Wait finds the job final: its worker has made the save
\* and the callback and let go of it, and no other will get it.
SignalledIsSettled ==
  \A id \in signalled :
    /\ status[id] \in Finished \cup {"absent"}
    /\ id \notin InChannel
    /\ \A w \in Busy : worker[w].task # id

\* Close never makes a submission send on a closed channel, and once every
\* worker has left, no accepted job is unfinished or unannounced.
CleanShutdown ==
  /\ closed => \A c \in Callers : caller[c].pc # "send"
  /\ (\A w \in Workers : worker[w].pc = "exited") =>
       \A id \in JobIds : request[id] # NoRequest => id \in signalled

\* Every accepted job is finished and its waiters are released in the end.
EveryJobSettles ==
  \A id \in JobIds : request[id] # NoRequest ~> id \in signalled

\* Wait returns without its timeout: also when the job it waits for is evicted
\* or cleared before the worker closes its done channel.
WaitersReleased ==
  \A c \in Callers : caller[c].pc = "waiting" ~> caller[c].pc # "waiting"

\* Close returns: the workers drain the channel and leave.
CloseReturns ==
  \A c \in Callers : caller[c].pc = "closing" ~> caller[c].pc # "closing"

\* The life of a job as clients see it, of which q.jobs, the channel and the
\* workers are an implementation. Jobs that left q.jobs are forgotten.
phase ==
  [id \in JobIds |->
     IF request[id] = NoRequest \/ id \in Recording THEN "new"
     ELSE IF status[id] # "absent" THEN status[id] ELSE "forgotten"]

Lifecycle == INSTANCE JobLifecycle WITH notified <- signalled

\* The queue implements JobLifecycle: queued, running, final and forgotten in
\* this order, each job started and finished once, under the same fairness.
ImplementsLifecycle == Lifecycle!Spec
=============================================================================
