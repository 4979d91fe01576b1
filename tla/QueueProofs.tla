---------------------------- MODULE QueueProofs ----------------------------
(***************************************************************************)
(* Theorems about the job queue, for every number of workers, callers and  *)
(* jobs, every channel capacity and every history limit: who has each job, *)
(* and what follows from that.  The shutdown is clean; q.jobs never        *)
(* outgrows the larger of maxJobs and what the channel and the workers can *)
(* hold, and loses jobs only when it is full; and the queue implements     *)
(* JobLifecycle, as far as safety goes.                                    *)
(***************************************************************************)
EXTENDS Queue, FiniteSetTheorems, TLAPS

\* A worker that holds a task knows which, and one that has processed it knows
\* the outcome.
WorkerOK ==
  \A w \in Workers :
    /\ worker[w].pc \notin {"receive", "exited"} => worker[w].task \in JobIds
    /\ worker[w].pc \in {"finish", "saveFinal", "callback", "signal"} =>
         worker[w].outcome \in Finished

TypeInv == TypeOK /\ WorkerOK

\* The parts of TypeInv about the workers, the calls and everything else.
WorkersOK == worker \in [Workers -> WorkerStates] /\ WorkerOK

CallsOK == caller \in [Callers -> CallStates]

SharedOK ==
  /\ tasks \in Seq(JobIds)
  /\ closed \in BOOLEAN
  /\ status \in [JobIds -> Statuses \cup {"absent"}]
  /\ updated \in [JobIds -> Nat]
  /\ clock \in Nat
  /\ request \in [JobIds -> RequestTypes \cup {NoRequest}]
  /\ victims \subseteq JobIds
  /\ signalled \subseteq JobIds

-----------------------------------------------------------------------------
LEMMA TypeInit == Init => TypeInv
<1> SUFFICES ASSUME Init PROVE TypeInv
  OBVIOUS
<1> USE QueueAssumption DEF Init
<1>1. worker \in [Workers -> WorkerStates] /\ WorkerOK
  BY DEF WorkerStates, WorkerOK, Ready
<1>2. caller \in [Callers -> CallStates]
  BY DEF CallStates, Idle, KindFilters
<1>3. tasks \in Seq(JobIds)
  OBVIOUS
<1> QED BY <1>1, <1>2, <1>3 DEF TypeInv, TypeOK

LEMMA TypeCaller ==
  ASSUME TypeInv, NEW c \in Callers, CallStep(c) \/ CallBegin(c) \/ WaitTimeout(c)
  PROVE  TypeInv'
<1>1. UNCHANGED <<worker, updated, clock, signalled>>
  BY DEF CallStep, CallBegin, EvictRow, Send, Record, Reject, SaveQueued, Return,
         ClearRows, WaitEnd, CloseReturn, Submit, Close, Clear, Wait, WaitTimeout,
         shared
<1>2. WorkerOK'
  BY <1>1 DEF TypeInv, WorkerOK
<1>3. CallsOK'
  <2>0. CallsOK /\ Idle \in CallStates
    BY QueueAssumption DEF CallStates, Idle, KindFilters, TypeInv, TypeOK, CallsOK
  <2>1. ASSUME NEW pc \in {"evict", "send", "saveQueued", "return", "closing"},
               caller' = [caller EXCEPT ![c].pc = pc]
        PROVE  CallsOK'
    BY <2>0, <2>1 DEF CallsOK, CallStates
  <2>2. CASE Submit(c)
    BY <2>1, <2>2 DEF Submit
  <2>3. CASE Close(c) \/ Record(c) \/ SaveQueued(c)
    BY <2>1, <2>3 DEF Close, Record, SaveQueued
  <2>4. ASSUME NEW id \in JobIds, EvictRow(c, id) PROVE CallsOK'
    BY <2>1, <2>4 DEF EvictRow
  <2>5. ASSUME NEW id \in JobIds, Wait(c, id) PROVE CallsOK'
    BY <2>0, <2>5 DEF Wait, CallsOK, CallStates
  <2>6. ASSUME NEW id \in JobIds, NEW r \in Requests, Send(c, id, r) PROVE CallsOK'
    BY <2>0, <2>6 DEF Send, CallsOK, CallStates
  <2>7. ASSUME NEW kind \in Filters, Clear(c, kind) PROVE CallsOK'
    <3>1. kind \in KindFilters
      BY QueueAssumption
    <3> QED BY <2>0, <2>7, <3>1 DEF Clear, CallsOK, CallStates
  <2>8. CASE \/ Reject(c) \/ Return(c) \/ ClearRows(c) \/ WaitEnd(c)
             \/ WaitTimeout(c) \/ CloseReturn(c)
    BY <2>0, <2>8 DEF Reject, Return, ClearRows, WaitEnd, WaitTimeout, CloseReturn,
                      CallsOK
  <2> QED
    BY <2>2, <2>3, <2>4, <2>5, <2>6, <2>7, <2>8 DEF CallStep, CallBegin
<1>4. SharedOK'
  <2>0. SharedOK
    BY DEF TypeInv, TypeOK, SharedOK
  <2>1. CASE Submit(c)
    BY <1>1, <2>0, <2>1 DEF Submit, Drop, Oldest, FinishedJobs, SharedOK
  <2>2. ASSUME NEW id \in JobIds, NEW r \in Requests, Send(c, id, r) PROVE SharedOK'
    BY <1>1, <2>0, <2>2, QueueAssumption DEF Send, SharedOK
  <2>3. ASSUME NEW kind \in Filters, Clear(c, kind) PROVE SharedOK'
    BY <1>1, <2>0, <2>3 DEF Clear, Drop, SharedOK
  <2>4. ASSUME NEW id \in JobIds, EvictRow(c, id) PROVE SharedOK'
    BY <1>1, <2>0, <2>4 DEF EvictRow, SharedOK
  <2>5. ASSUME NEW id \in JobIds, Wait(c, id) PROVE SharedOK'
    BY <1>1, <2>0, <2>5 DEF Wait, SharedOK, shared
  <2>6. CASE Close(c)
    BY <1>1, <2>0, <2>6 DEF Close, SharedOK
  <2>7. CASE \/ Reject(c) \/ SaveQueued(c) \/ Return(c) \/ ClearRows(c)
             \/ WaitEnd(c) \/ WaitTimeout(c) \/ CloseReturn(c)
    BY <1>1, <2>0, <2>7 DEF Reject, SaveQueued, Return, ClearRows, WaitEnd,
                            WaitTimeout, CloseReturn, SharedOK, shared
  <2>8. CASE Record(c)
    BY <1>1, <2>0, <2>8 DEF Record, Statuses, Unfinished, SharedOK
  <2> QED BY <2>1, <2>2, <2>3, <2>4, <2>5, <2>6, <2>7, <2>8 DEF CallStep, CallBegin
<1> QED BY <1>1, <1>2, <1>3, <1>4 DEF TypeInv, TypeOK, SharedOK, CallsOK

LEMMA TypeWorker ==
  ASSUME TypeInv, NEW w \in Workers, WorkerStep(w)
  PROVE  TypeInv'
<1>0. WorkersOK /\ SharedOK
  BY DEF TypeInv, TypeOK, SharedOK, WorkersOK
<1>1. WorkersOK'
  <2>0. Ready \in WorkerStates
    BY DEF WorkerStates, Ready
  <2>1. CASE Receive(w)
    <3>1. Head(tasks) \in JobIds
      BY <1>0, <2>1 DEF Receive, SharedOK
    <3> QED BY <1>0, <2>1, <3>1 DEF Receive, WorkersOK, WorkerStates, WorkerOK
  <2>2. ASSUME NEW pc \in {"exited", "saveRunning", "process"},
               worker[w].pc \in {"receive", "exited"} => pc = "exited",
               worker' = [worker EXCEPT ![w].pc = pc]
        PROVE  WorkersOK'
    BY <1>0, <2>2 DEF WorkersOK, WorkerStates, WorkerOK
  <2>3. ASSUME NEW pc \in {"saveFinal", "callback", "signal"},
               worker[w].pc \in {"finish", "saveFinal", "callback"},
               worker' = [worker EXCEPT ![w].pc = pc]
        PROVE  WorkersOK'
    BY <1>0, <2>3 DEF WorkersOK, WorkerStates, WorkerOK
  <2>4. ASSUME worker' = [worker EXCEPT ![w] = Ready]
        PROVE  WorkersOK'
    BY <1>0, <2>0, <2>4 DEF WorkersOK, WorkerOK, Ready
  <2>5. CASE Exit(w) \/ Start(w) \/ SaveRunning(w)
    BY <2>2, <2>5 DEF Exit, Start, SaveRunning, Goto
  <2>6. ASSUME NEW outcome \in Finished, Process(w, outcome)
        PROVE  WorkersOK'
    BY <1>0, <2>6 DEF Process, WorkersOK, WorkerStates, WorkerOK
  <2>7. CASE Finish(w) \/ SaveFinal(w) \/ Callback(w) \/ Signal(w)
    BY <2>3, <2>4, <2>7 DEF Finish, SaveFinal, Callback, Signal, Goto
  <2> QED BY <2>1, <2>5, <2>6, <2>7 DEF WorkerStep
<1>2. UNCHANGED <<closed, request, victims, caller>>
  BY DEF WorkerStep, Receive, Exit, Start, SaveRunning, Process, Finish,
         SaveFinal, Callback, Signal, shared
<1>3. SharedOK'
  <2>1. CASE Receive(w)
    BY <1>0, <1>2, <2>1 DEF Receive, SharedOK
  <2>2. CASE Start(w)
    BY <1>0, <1>2, <2>2 DEF Start, Statuses, Unfinished, SharedOK
  <2>3. CASE Finish(w)
    <3>1. worker[w].outcome \in Statuses
      BY <1>0, <2>3 DEF Finish, WorkersOK, WorkerOK, Statuses
    <3>2. clock + 1 \in Nat
      BY <1>0 DEF SharedOK
    <3> QED BY <1>0, <1>2, <2>3, <3>1, <3>2 DEF Finish, SharedOK
  <2>4. CASE Signal(w)
    BY <1>0, <1>2, <2>4 DEF Signal, WorkersOK, WorkerOK, SharedOK
  <2>5. ASSUME NEW outcome \in Finished, Process(w, outcome)
        PROVE  SharedOK'
    BY <1>0, <1>2, <2>5 DEF Process, SharedOK, shared
  <2>6. CASE \/ Exit(w) \/ SaveRunning(w) \/ SaveFinal(w) \/ Callback(w)
    BY <1>0, <1>2, <2>6 DEF Exit, SaveRunning, SaveFinal, Callback, SharedOK, shared
  <2> QED BY <2>1, <2>2, <2>3, <2>4, <2>5, <2>6 DEF WorkerStep
<1> QED BY <1>1, <1>2, <1>3 DEF TypeInv, TypeOK, SharedOK, WorkersOK

LEMMA TypeStep == TypeInv /\ [Next]_vars => TypeInv'
<1>1. CASE UNCHANGED vars
  BY <1>1 DEF vars, shared, TypeInv, TypeOK, WorkerOK
<1>2. CASE Next
  BY <1>2, TypeCaller, TypeWorker DEF Next
<1> QED BY <1>1, <1>2

\* Every variable keeps its type, for any constants.
THEOREM TypeCorrect == Spec => []TypeOK
BY TypeInit, TypeStep, PTL DEF Spec, TypeInv

-----------------------------------------------------------------------------
(* The submission that holds q.mu. *)

Holding == {"evict", "send", "record"}

\* q.mu admits one submission at a time.
MuExclusive ==
  \A c, d \in Callers : caller[c].pc \in Holding /\ caller[d].pc \in Holding => c = d

\* A job that is not yet in q.jobs is in the channel, or with a worker that has
\* received it and waits for q.mu.
RecordOK ==
  \A c \in Callers :
    caller[c].pc = "record" =>
      /\ caller[c].job \in JobIds
      /\ \/ caller[c].job \in InChannel
         \/ \E w \in Workers : worker[w].pc = "start" /\ worker[w].task = caller[c].job

HoldersOK == MuExclusive /\ RecordOK

LEMMA HoldersCaller ==
  ASSUME TypeInv, HoldersOK, NEW c \in Callers, CallStep(c) \/ CallBegin(c) \/ WaitTimeout(c)
  PROVE  HoldersOK'
<1> USE DEF TypeInv, TypeOK, HoldersOK
<1>1. UNCHANGED worker /\ \A d \in Callers \ {c} : caller'[d] = caller[d]
  BY DEF CallStep, CallBegin, EvictRow, Send, Record, Reject, SaveQueued, Return,
         ClearRows, WaitEnd, CloseReturn, Submit, Close, Clear, Wait, WaitTimeout, shared
\* A caller that is not sending, and does not go on to record.
<1>2. ASSUME UNCHANGED tasks, caller'[c].pc # "record",
             caller'[c].pc \in Holding => MuFree \/ caller[c].pc \in Holding
      PROVE  HoldersOK'
  <2>1. MuExclusive'
    BY <1>1, <1>2 DEF MuExclusive, MuFree, Holding
  <2>2. RecordOK'
    <3>1. InChannel' = InChannel /\ worker' = worker
      BY <1>1, <1>2 DEF InChannel
    <3>2. ASSUME NEW d \in Callers, caller'[d].pc = "record" PROVE caller'[d] = caller[d]
      BY <1>1, <1>2, <3>2
    <3> QED BY <3>1, <3>2 DEF RecordOK
  <2> QED BY <2>1, <2>2
<1>3. CASE Submit(c)
  BY <1>2, <1>3 DEF Submit, Holding, CallStates
<1>4. ASSUME NEW id \in JobIds, EvictRow(c, id) PROVE HoldersOK'
  BY <1>2, <1>4 DEF EvictRow, Holding, CallStates
<1>5. ASSUME NEW id \in JobIds, NEW r \in Requests, Send(c, id, r) PROVE HoldersOK'
  <2>1. /\ caller[c].pc \in Holding
        /\ caller'[c].pc = "record" /\ caller'[c].job = id
        /\ tasks' = Append(tasks, id)
    BY <1>5 DEF Send, Holding, CallStates
  <2>2. id \in InChannel'
    <3>1. Len(tasks) + 1 \in DOMAIN tasks' /\ tasks'[Len(tasks) + 1] = id
      BY <2>1
    <3> QED BY <3>1 DEF InChannel
  <2>3. \A d \in Callers \ {c} : caller'[d].pc \notin Holding
    BY <1>1, <2>1 DEF MuExclusive
  <2>4. MuExclusive'
    BY <2>3 DEF MuExclusive
  <2>5. RecordOK'
    BY <2>1, <2>2, <2>3 DEF RecordOK, Holding
  <2> QED BY <2>4, <2>5
<1>6. CASE Record(c) \/ SaveQueued(c) \/ Close(c)
  BY <1>2, <1>6 DEF Record, SaveQueued, Close, Holding, CallStates, shared
<1>7. CASE \/ Reject(c) \/ Return(c) \/ ClearRows(c) \/ WaitEnd(c)
           \/ WaitTimeout(c) \/ CloseReturn(c)
  <2>1. caller' = [caller EXCEPT ![c] = Idle] /\ UNCHANGED tasks
    BY <1>7 DEF Reject, Return, ClearRows, WaitEnd, WaitTimeout, CloseReturn, shared
  <2> QED BY <1>2, <2>1 DEF Idle, Holding
<1>8. ASSUME NEW id \in JobIds, Wait(c, id) PROVE HoldersOK'
  BY <1>2, <1>8 DEF Wait, Holding, CallStates, shared
<1>9. ASSUME NEW kind \in Filters, Clear(c, kind) PROVE HoldersOK'
  BY <1>2, <1>9 DEF Clear, Holding, CallStates
<1> QED BY <1>3, <1>4, <1>5, <1>6, <1>7, <1>8, <1>9 DEF CallStep, CallBegin

LEMMA HoldersWorker ==
  ASSUME TypeInv, HoldersOK, NEW w \in Workers, WorkerStep(w)
  PROVE  HoldersOK'
<1> USE DEF TypeInv, TypeOK, HoldersOK
<1>1. UNCHANGED caller
  BY DEF WorkerStep, Receive, Exit, Start, SaveRunning, Process, Finish,
         SaveFinal, Callback, Signal, shared
<1>2. MuExclusive'
  BY <1>1 DEF MuExclusive
<1>3. CASE Receive(w)
  <2>1. /\ worker'[w].pc = "start" /\ worker'[w].task = Head(tasks)
        /\ \A v \in Workers \ {w} : worker'[v] = worker[v]
        /\ worker[w].pc = "receive"
    BY <1>3 DEF Receive, WorkerStates
  <2>2. \A id \in InChannel : id \in InChannel' \/ id = Head(tasks)
    <3>1. \A i \in DOMAIN tasks :
            i = 1 \/ (i - 1 \in DOMAIN tasks' /\ tasks'[i - 1] = tasks[i])
      BY <1>3 DEF Receive
    <3>2. Head(tasks) = tasks[1]
      BY <1>3 DEF Receive
    <3> QED BY <3>1, <3>2 DEF InChannel
  <2>3. RecordOK'
    BY <1>1, <2>1, <2>2 DEF RecordOK
  <2> QED BY <1>2, <2>3
<1>4. CASE \/ Exit(w) \/ SaveRunning(w) \/ SaveFinal(w) \/ Callback(w)
           \/ (\E outcome \in Finished : Process(w, outcome))
  <2>1. /\ UNCHANGED tasks /\ worker[w].pc # "start"
        /\ \A v \in Workers \ {w} : worker'[v] = worker[v]
    BY <1>4 DEF Exit, SaveRunning, SaveFinal, Callback, Process, Goto, shared
  <2>2. InChannel' = InChannel
    BY <2>1 DEF InChannel
  <2>3. \A v \in Workers : worker[v].pc = "start" => worker'[v] = worker[v]
    BY <2>1
  <2>4. RecordOK'
    BY <1>1, <2>2, <2>3 DEF RecordOK
  <2> QED BY <1>2, <2>4
<1>5. CASE Start(w) \/ Finish(w) \/ Signal(w)
  BY <1>1, <1>2, <1>5 DEF Start, Finish, Signal, MuFree, RecordOK
<1> QED BY <1>3, <1>4, <1>5 DEF WorkerStep

LEMMA HoldersStep == TypeInv /\ HoldersOK /\ [Next]_vars => HoldersOK'
<1>1. CASE UNCHANGED vars
  BY <1>1 DEF vars, shared, HoldersOK, MuExclusive, RecordOK, InChannel
<1>2. CASE Next
  BY <1>2, HoldersCaller, HoldersWorker DEF Next
<1> QED BY <1>1, <1>2

\* Nobody records while q.mu is free.
LEMMA FreeMu ==
  ASSUME MuFree
  PROVE  Recording = {}
BY DEF MuFree, Recording

\* Only Send and Record change what is to be recorded.
LEMMA RecordingCaller ==
  ASSUME TypeInv, NEW c \in Callers, CallStep(c) \/ CallBegin(c) \/ WaitTimeout(c),
         ~Record(c), ~\E id \in JobIds, r \in Requests : Send(c, id, r)
  PROVE  Recording' = Recording
<1>1. caller \in [Callers -> CallStates]
  BY DEF TypeInv, TypeOK
<1>2. /\ caller[c].pc # "record"
      /\ \A d \in Callers \ {c} : caller'[d] = caller[d]
  BY <1>1 DEF CallStep, CallBegin, EvictRow, Reject, SaveQueued, Return, ClearRows, WaitEnd,
              CloseReturn, Submit, Close, Clear, Wait, WaitTimeout
<1>3. caller'[c].pc # "record"
  <2>1. CASE \/ Reject(c) \/ Return(c) \/ ClearRows(c) \/ WaitEnd(c)
             \/ WaitTimeout(c) \/ CloseReturn(c)
    <3>1. caller' = [caller EXCEPT ![c] = Idle]
      BY <2>1 DEF Reject, Return, ClearRows, WaitEnd, WaitTimeout, CloseReturn
    <3> QED BY <1>1, <3>1 DEF Idle
  <2>2. CASE Submit(c) \/ SaveQueued(c) \/ Close(c)
    BY <1>1, <2>2 DEF Submit, SaveQueued, Close, CallStates
  <2>3. CASE \E id \in JobIds : EvictRow(c, id) \/ Wait(c, id)
    BY <1>1, <2>3 DEF EvictRow, Wait, CallStates
  <2>4. CASE \E kind \in Filters : Clear(c, kind)
    BY <1>1, <2>4 DEF Clear, CallStates
  <2> QED BY <2>1, <2>2, <2>3, <2>4 DEF CallStep, CallBegin
<1> QED BY <1>2, <1>3 DEF Recording

LEMMA RecordingWorker ==
  ASSUME NEW w \in Workers, WorkerStep(w)
  PROVE  Recording' = Recording
<1>1. UNCHANGED caller
  BY DEF WorkerStep, Receive, Exit, Start, SaveRunning, Process, Finish,
         SaveFinal, Callback, Signal, shared
<1> QED BY <1>1 DEF Recording

\* There is one job to record at most.
LEMMA OneRecording ==
  ASSUME TypeInv, HoldersOK, NEW c \in Callers, caller[c].pc \in Holding
  PROVE  Recording = IF caller[c].pc = "record" THEN {caller[c].job} ELSE {}
BY DEF HoldersOK, MuExclusive, Holding, Recording

-----------------------------------------------------------------------------
\* Only issued ids are known, held or signalled, so that a submission that
\* draws a fresh id meets no trace of it.
IssuedOnly ==
  \A id \in JobIds :
    \/ status[id] # "absent"
    \/ id \in signalled \cup InChannel
    \/ \E w \in Busy : worker[w].task = id
    => request[id] # NoRequest

\* The inductive invariant about the custody of jobs.
OwnerInv ==
  TypeInv /\ HoldersOK /\ OneOwner /\ StatusFollowsOwner /\ SignalledIsSettled /\ IssuedOnly

\* A step that moves no job leaves custody alone.
LEMMA OwnerFrame ==
  ASSUME OwnerInv, TypeInv', HoldersOK', Recording' = Recording,
         UNCHANGED <<tasks, status, request, signalled, worker>>
  PROVE  OwnerInv'
<1>1. InChannel' = InChannel /\ Working' = Working /\ Busy' = Busy
  BY DEF InChannel, Working, Busy
<1> QED
  BY <1>1 DEF OwnerInv, OneOwner, StatusFollowsOwner, SignalledIsSettled, IssuedOnly, NotBegun

\* Dropping finished jobs takes none away from its owner.
LEMMA OwnerDrop ==
  ASSUME OwnerInv, TypeInv', HoldersOK', Recording' = Recording,
         UNCHANGED <<tasks, request, signalled, worker>>,
         NEW ids \in SUBSET FinishedJobs, Drop(ids)
  PROVE  OwnerInv'
<1> USE DEF OwnerInv, Drop, FinishedJobs, Finished, Unfinished
<1>1. \A id \in JobIds : status'[id] \in {status[id], "absent"}
  OBVIOUS
<1>2. \A id \in JobIds : status'[id] \in Unfinished <=> status[id] \in Unfinished
  OBVIOUS
<1>3. InChannel' = InChannel /\ Working' = Working /\ Busy' = Busy
  BY DEF InChannel, Working, Busy
<1>4. OneOwner'
  BY <1>2, <1>3 DEF OneOwner
<1>5. StatusFollowsOwner'
  <2>1. /\ \A id \in JobIds : status[id] \in Unfinished \cup {"absent"} => status'[id] = status[id]
        /\ \A id : NotBegun(id)' = NotBegun(id) /\ NotBegun(id) \in Unfinished \cup {"absent"}
    BY DEF NotBegun
  <2>2. InChannel \subseteq JobIds
    BY DEF InChannel, TypeInv, TypeOK
  <2> QED
    BY <1>1, <1>3, <2>1, <2>2 DEF StatusFollowsOwner, TypeInv, WorkerOK, Busy
<1>6. SignalledIsSettled' /\ IssuedOnly'
  BY <1>1, <1>3 DEF SignalledIsSettled, IssuedOnly, TypeInv, TypeOK
<1> QED BY <1>4, <1>5, <1>6

LEMMA OwnerSend ==
  ASSUME OwnerInv, TypeInv', HoldersOK', NEW c \in Callers, NEW id \in JobIds, NEW r \in Requests,
         Send(c, id, r)
  PROVE  OwnerInv'
<1> USE DEF OwnerInv, Send
<1>1. /\ status[id] = "absent" /\ id \notin signalled /\ id \notin InChannel
      /\ \A w \in Busy : worker[w].task # id
  BY DEF IssuedOnly
<1>2. /\ tasks \in Seq(JobIds) /\ caller \in [Callers -> CallStates]
      /\ request \in [JobIds -> RequestTypes \cup {NoRequest}]
  BY DEF TypeInv, TypeOK
<1>3. /\ \A i \in 1..Len(tasks) : tasks'[i] = tasks[i]
      /\ tasks'[Len(tasks) + 1] = id
      /\ Len(tasks) \in Nat
      /\ DOMAIN tasks = 1..Len(tasks) /\ DOMAIN tasks' = 1..(Len(tasks) + 1)
  BY <1>2
<1>4. InChannel' = InChannel \cup {id}
  BY <1>3 DEF InChannel
<1>5. /\ Working' = Working /\ Busy' = Busy /\ Working \subseteq Busy
      /\ UNCHANGED <<worker, status, signalled>>
  BY DEF Working, Busy
<1>6. Recording = {} /\ Recording' = {id}
  <2>1. Recording = {}
    BY OneRecording DEF Holding
  <2>2. caller'[c].pc = "record" /\ caller'[c].job = id
    BY <1>2 DEF CallStates
  <2>3. \A d \in Callers \ {c} : caller'[d] = caller[d]
    BY <1>2
  <2>4. \A d \in Callers : caller[d].pc # "record"
    BY <2>1 DEF Recording
  <2> QED BY <2>1, <2>2, <2>3, <2>4 DEF Recording
<1>7. OneOwner'
  <2>1. \A i, j \in DOMAIN tasks' : tasks'[i] = tasks'[j] => i = j
    BY <1>1, <1>3 DEF OneOwner, InChannel
  <2>2. (InChannel' \cup {worker'[w].task : w \in Working'}) \ Recording'
          = InChannel \cup {worker[w].task : w \in Working}
    BY <1>1, <1>4, <1>5, <1>6
  <2> QED BY <1>1, <1>4, <1>5, <1>6, <2>1, <2>2 DEF OneOwner
<1>8. StatusFollowsOwner'
  <2>1. /\ \A j \in InChannel : NotBegun(j)' = NotBegun(j)
        /\ \A w \in Busy : NotBegun(worker[w].task)' = NotBegun(worker[w].task)
        /\ NotBegun(id)' = "absent"
    BY <1>1, <1>5, <1>6 DEF NotBegun
  <2> QED BY <1>1, <1>4, <1>5, <2>1 DEF StatusFollowsOwner
<1>9. SignalledIsSettled'
  BY <1>1, <1>4, <1>5 DEF SignalledIsSettled
<1>10. IssuedOnly'
  <2>1. r # NoRequest
    BY QueueAssumption DEF RequestTypes, NoRequest
  <2> QED BY <1>2, <1>4, <1>5, <2>1 DEF IssuedOnly
<1> QED BY <1>7, <1>8, <1>9, <1>10

\* The job that is recorded is in the channel, or with a worker that could not
\* begin it before.
LEMMA OwnerRecord ==
  ASSUME OwnerInv, TypeInv', HoldersOK', NEW c \in Callers, Record(c)
  PROVE  OwnerInv'
<1> DEFINE j == caller[c].job
<1> USE DEF OwnerInv
<1>1. /\ caller \in [Callers -> CallStates] /\ caller[c].pc = "record"
      /\ status \in [JobIds -> Statuses \cup {"absent"}]
  BY DEF Record, TypeInv, TypeOK
<1>2. j \in JobIds /\ Recording = {j} /\ Recording' = {}
  <2>1. j \in JobIds /\ Recording = {j}
    BY <1>1, OneRecording DEF HoldersOK, RecordOK, Holding
  <2>2. /\ caller'[c].pc = "saveQueued"
        /\ \A d \in Callers \ {c} : caller'[d] = caller[d]
    BY <1>1 DEF Record, CallStates
  <2>3. \A d \in Callers \ {c} : caller[d].pc # "record"
    BY <1>1 DEF HoldersOK, MuExclusive, Holding
  <2> QED BY <2>1, <2>2, <2>3 DEF Recording
<1>3. /\ \A id \in JobIds : status'[id] = IF id = j THEN "queued" ELSE status[id]
      /\ UNCHANGED <<tasks, request, signalled, worker>>
      /\ InChannel' = InChannel /\ Working' = Working /\ Busy' = Busy
      /\ InChannel \subseteq JobIds
  BY <1>1 DEF Record, InChannel, Working, Busy, TypeInv, TypeOK
<1>4. \/ j \in InChannel
      \/ \E w \in Busy : w \in Working /\ worker[w].pc = "start" /\ worker[w].task = j
  BY <1>1 DEF HoldersOK, RecordOK, Working, Busy
<1>5. \A w \in Busy : worker[w].task = j => worker[w].pc = "start"
  BY <1>4 DEF OneOwner
<1>6. j \notin signalled
  BY <1>4 DEF SignalledIsSettled
<1> HIDE DEF j
<1>7. OneOwner'
  <2>1. {id \in JobIds : status'[id] \in Unfinished} =
          {id \in JobIds : status[id] \in Unfinished} \cup {j}
    BY <1>2, <1>3 DEF Unfinished
  <2>2. j \in InChannel \cup {worker[w].task : w \in Working}
    BY <1>4
  <2> QED BY <1>2, <1>3, <2>1, <2>2 DEF OneOwner
<1>8. StatusFollowsOwner'
  <2>1. \A id \in JobIds \ {j} : NotBegun(id) = "queued" /\ status'[id] = status[id]
    BY <1>2, <1>3 DEF NotBegun
  <2>2. status'[j] = "queued" /\ \A id : NotBegun(id)' = "queued"
    BY <1>2, <1>3 DEF NotBegun
  <2>3. \A w \in Busy : worker[w].task \in JobIds
    BY DEF Busy, TypeInv, WorkerOK
  <2> QED BY <1>3, <1>5, <2>1, <2>2, <2>3 DEF StatusFollowsOwner
<1>9. SignalledIsSettled'
  BY <1>3, <1>6 DEF SignalledIsSettled, TypeInv, TypeOK
<1>10. IssuedOnly'
  BY <1>2, <1>3, <1>4 DEF IssuedOnly
<1> QED BY <1>7, <1>8, <1>9, <1>10

LEMMA OwnerReceive ==
  ASSUME OwnerInv, TypeInv', HoldersOK', NEW w \in Workers, Receive(w)
  PROVE  OwnerInv'
<1> DEFINE t == Head(tasks)
<1>0. TypeInv /\ OneOwner /\ StatusFollowsOwner /\ SignalledIsSettled /\ IssuedOnly
  BY DEF OwnerInv
<1>1. tasks \in Seq(JobIds) /\ worker \in [Workers -> WorkerStates]
  BY <1>0 DEF TypeInv, TypeOK
<1>2. /\ t = tasks[1] /\ t \in JobIds /\ Len(tasks) \in Nat \ {0}
      /\ Len(tasks') = Len(tasks) - 1
      /\ \A i \in 1..(Len(tasks) - 1) : tasks'[i] = tasks[i + 1]
      /\ DOMAIN tasks = 1..Len(tasks) /\ DOMAIN tasks' = 1..Len(tasks')
  BY <1>1 DEF Receive
<1>3. t \notin InChannel'
  BY <1>0, <1>2 DEF OneOwner, InChannel
<1>4. InChannel = InChannel' \cup {t}
  <2>1. \A i \in DOMAIN tasks : i = 1 \/ (i - 1 \in DOMAIN tasks' /\ tasks'[i - 1] = tasks[i])
    BY <1>2
  <2>2. \A i \in DOMAIN tasks' : i + 1 \in DOMAIN tasks /\ tasks'[i] = tasks[i + 1]
    BY <1>2
  <2>3. 1 \in DOMAIN tasks
    BY <1>2
  <2> QED BY <1>2, <2>1, <2>2, <2>3 DEF InChannel
<1>5. /\ worker'[w].pc = "start" /\ worker'[w].task = t
      /\ \A v \in Workers \ {w} : worker'[v] = worker[v]
  BY <1>1 DEF Receive, WorkerStates
<1>6. Working' = Working \cup {w} /\ Busy' = Busy \cup {w} /\ w \notin Busy /\ w \notin Working
  BY <1>5 DEF Receive, Working, Busy
<1>7. /\ status' = status /\ request' = request /\ signalled' = signalled
      /\ Recording' = Recording /\ \A id : NotBegun(id)' = NotBegun(id)
  BY DEF Receive, Recording, NotBegun
<1> HIDE DEF t
<1>8. status[t] = NotBegun(t) /\ t \notin signalled /\ \A v \in Busy : worker[v].task # t
  <2>1. t \in InChannel
    BY <1>4
  <2>2. \A v \in Busy : worker[v].task # t
    BY <1>0, <2>1 DEF OneOwner
  <2>3. status[t] = NotBegun(t)
    BY <1>0, <2>1 DEF StatusFollowsOwner
  <2>4. t \notin signalled
    BY <1>0, <2>1 DEF SignalledIsSettled
  <2> QED BY <2>2, <2>3, <2>4
<1>9. OneOwner'
  <2>0. \A v \in Working : worker'[v].task = worker[v].task
    BY <1>5, <1>6 DEF Working
  <2>1. {worker'[v].task : v \in Working'} = {worker[v].task : v \in Working} \cup {t}
    <3>1. \A v \in Working' : v = w \/ v \in Working
      BY <1>6
    <3> QED BY <1>5, <1>6, <2>0, <3>1
  <2>2. \A i, j \in DOMAIN tasks' : tasks'[i] = tasks'[j] => i = j
    <3>1. \A i, j \in DOMAIN tasks : tasks[i] = tasks[j] => i = j
      BY <1>0 DEF OneOwner
    <3> QED BY <1>2, <3>1
  <2>3. \A v \in Busy : worker'[v].task = worker[v].task
    BY <1>5, <1>6 DEF Busy
  <2>4. \A u, v \in Busy' : worker'[u].task = worker'[v].task => u = v
    BY <1>0, <1>5, <1>6, <1>8, <2>3 DEF OneOwner
  <2>5. \A v \in Busy' : worker'[v].task \notin InChannel'
    BY <1>0, <1>3, <1>4, <1>5, <1>6, <2>3 DEF OneOwner
  <2> QED BY <1>0, <1>4, <1>7, <2>1, <2>2, <2>4, <2>5 DEF OneOwner
<1>10. StatusFollowsOwner'
  <2>1. \A id \in InChannel' : status'[id] = NotBegun(id)'
    BY <1>0, <1>4, <1>7 DEF StatusFollowsOwner
  <2>2. \A v \in Busy : v # w /\ worker'[v] = worker[v]
    BY <1>5, <1>6 DEF Busy
  <2> QED BY <1>0, <1>5, <1>6, <1>7, <1>8, <2>1, <2>2 DEF StatusFollowsOwner
<1>11. SignalledIsSettled' /\ IssuedOnly'
  <2>1. \A v \in Busy : worker'[v].task = worker[v].task
    BY <1>5, <1>6 DEF Busy
  <2> QED
    BY <1>0, <1>2, <1>4, <1>5, <1>6, <1>7, <1>8, <2>1
       DEF SignalledIsSettled, IssuedOnly
<1> QED BY <1>0, <1>9, <1>10, <1>11 DEF OwnerInv

\* A worker that goes from one step to the next with its task in hand, neither
\* beginning it nor recording its outcome.
LEMMA OwnerAdvance ==
  ASSUME OwnerInv, TypeInv', HoldersOK', UNCHANGED shared, NEW w \in Workers,
         SaveRunning(w) \/ SaveFinal(w) \/ Callback(w) \/ Exit(w)
           \/ \E outcome \in Finished : Process(w, outcome)
  PROVE  OwnerInv'
<1> USE DEF OwnerInv, shared
<1>1. worker \in [Workers -> WorkerStates] /\ worker' \in [Workers -> WorkerStates]
  BY DEF TypeInv, TypeOK
<1>2. /\ worker'[w].task = worker[w].task
      /\ \A v \in Workers \ {w} : worker'[v] = worker[v]
  BY <1>1 DEF SaveRunning, SaveFinal, Callback, Exit, Process, Goto, WorkerStates
<1>3. \/ /\ worker[w].pc = "receive" /\ worker'[w].pc = "exited"
      \/ /\ worker[w].pc \in {"saveRunning", "process"}
         /\ worker'[w].pc \in {"process", "finish"}
      \/ /\ worker[w].pc \in {"saveFinal", "callback"}
         /\ worker'[w].pc \in {"callback", "signal"}
         /\ worker'[w].outcome = worker[w].outcome
  BY <1>1 DEF SaveRunning, SaveFinal, Callback, Exit, Process, Goto, WorkerStates
<1>4. /\ Working' = Working /\ Busy' = Busy /\ InChannel' = InChannel
      /\ Recording' = Recording /\ \A id : NotBegun(id)' = NotBegun(id)
  <2>1. UNCHANGED caller
    BY DEF SaveRunning, SaveFinal, Callback, Exit, Process
  <2> QED BY <1>2, <1>3, <2>1 DEF Working, Busy, InChannel, Recording, NotBegun
<1>5. OneOwner'
  BY <1>2, <1>4 DEF OneOwner, Working, Busy
<1>6. StatusFollowsOwner'
  BY <1>2, <1>3, <1>4 DEF StatusFollowsOwner, Busy
<1>7. SignalledIsSettled' /\ IssuedOnly'
  BY <1>2, <1>4 DEF SignalledIsSettled, IssuedOnly, Busy
<1> QED BY <1>5, <1>6, <1>7

LEMMA OwnerStart ==
  ASSUME OwnerInv, TypeInv', HoldersOK', NEW w \in Workers, Start(w)
  PROVE  OwnerInv'
<1> DEFINE t == worker[w].task
<1> USE DEF OwnerInv
<1>1. /\ worker \in [Workers -> WorkerStates]
      /\ status \in [JobIds -> Statuses \cup {"absent"}]
      /\ w \in Busy /\ w \in Working /\ t \in JobIds
  BY DEF Start, TypeInv, TypeOK, WorkerOK, Busy, Working
<1>2. /\ Recording = {} /\ Recording' = {}
      /\ \A id : NotBegun(id) = "queued" /\ NotBegun(id)' = "queued"
      /\ status[t] = "queued" /\ t \in Known
  <2>1. Recording = {} /\ Recording' = Recording
    BY FreeMu, RecordingWorker DEF Start, WorkerStep
  <2> QED BY <1>1, <2>1 DEF Start, StatusFollowsOwner, Known, NotBegun
<1>3. /\ worker'[w].task = t /\ worker'[w].pc = "saveRunning"
      /\ \A v \in Workers \ {w} : worker'[v] = worker[v]
      /\ \A id \in JobIds : status'[id] = IF id = t THEN "running" ELSE status[id]
      /\ UNCHANGED <<tasks, request, signalled>>
  BY <1>1, <1>2 DEF Start, Goto, WorkerStates
<1>4. Working' = Working /\ Busy' = Busy /\ InChannel' = InChannel
  BY <1>1, <1>3 DEF Working, Busy, InChannel
<1>5. OneOwner'
  <2>1. {id \in JobIds : status'[id] \in Unfinished} =
          {id \in JobIds : status[id] \in Unfinished}
    BY <1>2, <1>3 DEF Unfinished
  <2>2. \A v \in Workers : worker'[v].task = worker[v].task
    BY <1>3
  <2> QED BY <1>2, <1>3, <1>4, <2>1, <2>2 DEF OneOwner, Working, Busy
<1>6. StatusFollowsOwner'
  <2>1. InChannel \subseteq JobIds /\ t \notin InChannel
    BY <1>1 DEF InChannel, OneOwner, TypeInv, TypeOK
  <2>2. \A v \in Busy \ {w} : worker[v].task \in JobIds \ {t}
    BY <1>1 DEF OneOwner, TypeInv, WorkerOK, Busy
  <2> QED BY <1>1, <1>2, <1>3, <1>4, <2>1, <2>2 DEF StatusFollowsOwner, Busy
<1>7. SignalledIsSettled'
  <2>1. t \notin signalled
    BY <1>1 DEF SignalledIsSettled
  <2>2. \A v \in Busy : worker'[v].task = worker[v].task
    BY <1>3 DEF Busy
  <2> QED
    BY <1>3, <1>4, <2>1, <2>2 DEF SignalledIsSettled, TypeInv, TypeOK
<1>8. IssuedOnly'
  <2>1. \A v \in Busy : worker'[v].task = worker[v].task
    BY <1>3 DEF Busy
  <2> QED BY <1>1, <1>2, <1>3, <1>4, <2>1 DEF IssuedOnly
<1> QED BY <1>5, <1>6, <1>7, <1>8

LEMMA OwnerFinish ==
  ASSUME OwnerInv, TypeInv', HoldersOK', NEW w \in Workers, Finish(w)
  PROVE  OwnerInv'
<1> DEFINE t == worker[w].task
<1>0. TypeInv /\ OneOwner /\ StatusFollowsOwner /\ SignalledIsSettled /\ IssuedOnly
  BY DEF OwnerInv
<1>1. /\ worker \in [Workers -> WorkerStates]
      /\ status \in [JobIds -> Statuses \cup {"absent"}]
      /\ w \in Busy /\ w \in Working /\ t \in JobIds
      /\ worker[w].outcome \in Finished
  BY <1>0 DEF Finish, TypeInv, TypeOK, WorkerOK, Busy, Working
<1>2. /\ Recording = {} /\ Recording' = {}
      /\ \A id : NotBegun(id) = "queued" /\ NotBegun(id)' = "queued"
      /\ status[t] = "running" /\ t \in Known
  <2>1. Recording = {} /\ Recording' = Recording
    BY FreeMu, RecordingWorker DEF Finish, WorkerStep
  <2> QED BY <1>0, <1>1, <2>1 DEF Finish, StatusFollowsOwner, Known, NotBegun
<1>3. /\ worker'[w] = [worker[w] EXCEPT !.pc = "saveFinal"]
      /\ \A v \in Workers \ {w} : worker'[v] = worker[v]
      /\ \A id \in JobIds :
           status'[id] = IF id = t THEN worker[w].outcome ELSE status[id]
      /\ UNCHANGED <<tasks, request, signalled>>
  BY <1>1, <1>2 DEF Finish, Goto
<1>4. /\ worker'[w].pc = "saveFinal" /\ worker'[w].task = t
      /\ worker'[w].outcome = worker[w].outcome
  BY <1>1, <1>3 DEF WorkerStates
<1>5. Working' = Working \ {w} /\ Busy' = Busy /\ InChannel' = InChannel
  <2>1. \A v \in Workers \ {w} : worker'[v].pc = worker[v].pc
    BY <1>3
  <2>2. Working' = Working \ {w}
    BY <1>4, <2>1 DEF Working
  <2>3. Busy' = Busy
    BY <1>1, <1>4, <2>1 DEF Busy
  <2>4. tasks' = tasks
    BY <1>3
  <2> QED BY <2>2, <2>3, <2>4 DEF InChannel
<1> HIDE DEF t
<1>6. \A v \in Busy : worker'[v].task = worker[v].task
  BY <1>3, <1>4 DEF Busy, t
<1>7. /\ t \notin InChannel /\ InChannel \subseteq JobIds
      /\ \A v \in Busy \ {w} : worker[v].task # t
  BY <1>0, <1>1 DEF OneOwner, TypeInv, TypeOK, InChannel, t
<1>8. OneOwner'
  <2>1. {worker'[v].task : v \in Working'} = {worker[v].task : v \in Working} \ {t}
    <3>1. Working \subseteq Busy
      BY DEF Working, Busy
    <3> QED BY <1>1, <1>5, <1>6, <1>7, <3>1 DEF t
  <2>2. {id \in JobIds : status'[id] \in Unfinished} =
          {id \in JobIds : status[id] \in Unfinished} \ {t}
    BY <1>1, <1>3 DEF Unfinished, Finished
  <2>3. tasks' = tasks
    BY <1>3
  <2> QED BY <1>0, <1>2, <1>5, <1>6, <1>7, <2>1, <2>2, <2>3 DEF OneOwner
<1>9. StatusFollowsOwner'
  <2>1. \A v \in Busy \ {w} : worker[v].task \in JobIds \ {t} /\ worker'[v] = worker[v]
    BY <1>0, <1>3, <1>7 DEF TypeInv, WorkerOK, Busy
  <2>2. \A id \in InChannel' : status'[id] = "queued"
    BY <1>0, <1>2, <1>3, <1>5, <1>7 DEF StatusFollowsOwner
  <2>3. status'[t] = worker'[w].outcome
    BY <1>1, <1>3, <1>4 DEF t
  <2>4. \A v \in Busy \ {w} : status'[worker'[v].task] = status[worker[v].task]
    BY <1>3, <2>1
  <2> QED
    BY <1>0, <1>2, <1>4, <1>5, <2>1, <2>2, <2>3, <2>4 DEF StatusFollowsOwner
<1>10. SignalledIsSettled'
  BY <1>0, <1>1, <1>3, <1>5, <1>6 DEF SignalledIsSettled, TypeInv, TypeOK
<1>11. IssuedOnly'
  BY <1>0, <1>1, <1>2, <1>3, <1>5, <1>6 DEF IssuedOnly, t
<1> QED BY <1>8, <1>9, <1>10, <1>11 DEF OwnerInv

LEMMA OwnerSignal ==
  ASSUME OwnerInv, TypeInv', HoldersOK', NEW w \in Workers, Signal(w)
  PROVE  OwnerInv'
<1> DEFINE t == worker[w].task
<1>0. TypeInv /\ OneOwner /\ StatusFollowsOwner /\ SignalledIsSettled /\ IssuedOnly
  BY DEF OwnerInv
<1>1. /\ worker \in [Workers -> WorkerStates]
      /\ w \in Busy /\ w \notin Working /\ t \in JobIds
      /\ worker[w].outcome \in Finished
  BY <1>0 DEF Signal, TypeInv, TypeOK, WorkerOK, Busy, Working
<1>2. /\ Recording' = Recording /\ \A id : NotBegun(id)' = NotBegun(id)
      /\ status[t] \in Finished \cup {"absent"} /\ t \notin InChannel
  <2>1. Recording' = Recording
    BY RecordingWorker DEF WorkerStep
  <2> QED BY <1>0, <1>1, <2>1 DEF Signal, StatusFollowsOwner, OneOwner, NotBegun
<1>3. /\ worker'[w].pc = "receive"
      /\ \A v \in Workers \ {w} : worker'[v] = worker[v]
      /\ UNCHANGED <<tasks, status, request>>
      /\ signalled' = signalled \cup {t}
  BY <1>1 DEF Signal, Ready
<1>4. Working' = Working /\ Busy' = Busy \ {w} /\ InChannel' = InChannel
  BY <1>1, <1>3 DEF Working, Busy, InChannel
<1> HIDE DEF t
<1>5. \A v \in Busy' : worker'[v] = worker[v] /\ worker[v].task # t
  BY <1>0, <1>1, <1>3, <1>4 DEF OneOwner, t, Busy
<1>6. OneOwner'
  <2>1. \A v \in Working : worker'[v] = worker[v]
    BY <1>1, <1>3 DEF Working
  <2> QED BY <1>0, <1>2, <1>3, <1>4, <1>5, <2>1 DEF OneOwner
<1>7. StatusFollowsOwner'
  BY <1>0, <1>2, <1>3, <1>4, <1>5 DEF StatusFollowsOwner
<1>8. SignalledIsSettled'
  BY <1>0, <1>2, <1>3, <1>4, <1>5 DEF SignalledIsSettled
<1>9. IssuedOnly'
  BY <1>0, <1>1, <1>3, <1>4, <1>5 DEF IssuedOnly, t
<1> QED BY <1>6, <1>7, <1>8, <1>9 DEF OwnerInv

LEMMA OwnerInit == Init => OwnerInv
<1> SUFFICES ASSUME Init PROVE OwnerInv
  OBVIOUS
<1>1. Working = {} /\ Busy = {} /\ InChannel = {} /\ signalled = {}
  BY DEF Init, Ready, Working, Busy, InChannel
<1>2. /\ \A id \in JobIds : status[id] = "absent"
      /\ \A c \in Callers : caller[c].pc = "idle"
  BY DEF Init, Idle
<1> QED
  BY <1>1, <1>2, TypeInit
     DEF OwnerInv, OneOwner, StatusFollowsOwner, SignalledIsSettled, IssuedOnly,
         HoldersOK, MuExclusive, RecordOK, Holding, Init, Unfinished

LEMMA OwnerStep == OwnerInv /\ [Next]_vars => OwnerInv'
<1> SUFFICES ASSUME OwnerInv, [Next]_vars PROVE OwnerInv'
  OBVIOUS
<1>1. TypeInv' /\ HoldersOK' /\ TypeInv /\ HoldersOK
  BY TypeStep, HoldersStep DEF OwnerInv
<1>2. CASE UNCHANGED vars
  BY <1>1, <1>2, OwnerFrame DEF vars, shared, Recording
<1>3. ASSUME NEW w \in Workers, WorkerStep(w) PROVE OwnerInv'
  BY <1>1, <1>3, OwnerReceive, OwnerAdvance, OwnerStart, OwnerFinish, OwnerSignal
     DEF WorkerStep, SaveRunning, SaveFinal, Callback, Exit, Process
<1>4. ASSUME NEW c \in Callers, CallStep(c) \/ CallBegin(c) \/ WaitTimeout(c)
      PROVE  OwnerInv'
  <2>1. CASE Submit(c)
    <3>1. victims' \in SUBSET FinishedJobs /\ Drop(victims')
      BY <2>1 DEF Submit, Oldest
    <3>2. Recording' = Recording
      BY <1>1, <1>4, <2>1, RecordingCaller DEF Submit, Record, Send
    <3> QED BY <1>1, <2>1, <3>1, <3>2, OwnerDrop DEF Submit
  <2>2. ASSUME NEW kind \in Filters, Clear(c, kind) PROVE OwnerInv'
    <3> DEFINE ids == {id \in FinishedJobs : Selects(kind, request[id])}
    <3>1. Drop(ids) /\ UNCHANGED <<tasks, request, signalled, worker>>
      BY <2>2 DEF Clear
    <3> HIDE DEF ids
    <3>2. ids \in SUBSET FinishedJobs
      BY DEF ids
    <3>3. Recording' = Recording
      BY <1>1, <1>4, <2>2, RecordingCaller DEF Clear, Record, Send
    <3> QED BY <1>1, <3>1, <3>2, <3>3, OwnerDrop
  <2>3. ASSUME NEW id \in JobIds, NEW r \in Requests, Send(c, id, r) PROVE OwnerInv'
    BY <1>1, <2>3, OwnerSend
  <2>4. CASE Record(c)
    BY <1>1, <2>4, OwnerRecord
  <2>5. ASSUME NEW id \in JobIds, EvictRow(c, id) \/ Wait(c, id) PROVE OwnerInv'
    <3>1. Recording' = Recording
      BY <1>1, <1>4, <2>5, RecordingCaller DEF EvictRow, Wait, Record, Send
    <3> QED BY <1>1, <2>5, <3>1, OwnerFrame DEF EvictRow, Wait, shared
  <2>6. CASE \/ Reject(c) \/ SaveQueued(c) \/ Return(c) \/ ClearRows(c) \/ Close(c)
             \/ WaitEnd(c) \/ WaitTimeout(c) \/ CloseReturn(c)
    <3>1. /\ UNCHANGED <<tasks, status, request, signalled, worker>>
          /\ ~Record(c) /\ ~\E id \in JobIds, r \in Requests : Send(c, id, r)
      BY <2>6 DEF Reject, SaveQueued, Return, ClearRows, Close, WaitEnd, WaitTimeout,
                  CloseReturn, shared, Record, Send
    <3>2. Recording' = Recording
      BY <1>1, <1>4, <3>1, RecordingCaller
    <3> QED BY <1>1, <3>1, <3>2, OwnerFrame
  <2> QED BY <1>4, <2>1, <2>2, <2>3, <2>4, <2>5, <2>6 DEF CallStep, CallBegin
<1> QED BY <1>2, <1>3, <1>4 DEF Next

\* A job is unfinished exactly while it has one owner: no job is lost, stuck or
\* processed twice, and none that is unfinished is evicted or cleared.
THEOREM OneOwnerAlways == Spec => []OneOwner
BY OwnerInit, OwnerStep, PTL DEF Spec, OwnerInv

\* What q.jobs says of a job follows the channel and the workers.
THEOREM StatusAlwaysFollowsOwner == Spec => []StatusFollowsOwner
BY OwnerInit, OwnerStep, PTL DEF Spec, OwnerInv

\* A done channel is closed only after the job's save and callback.
THEOREM SignalledAlwaysSettled == Spec => []SignalledIsSettled
BY OwnerInit, OwnerStep, PTL DEF Spec, OwnerInv
-----------------------------------------------------------------------------
(* Closing: no submission sends on the closed channel, and nothing that was
   accepted is left when the workers leave. *)

\* Every accepted job is in the channel, in the hands of a worker or announced.
Accounted ==
  \A id \in JobIds :
    request[id] # NoRequest =>
      id \in InChannel \/ id \in signalled \/ \E w \in Busy : worker[w].task = id

\* Workers leave only when the channel is closed and drained.
LeaveDrained ==
  \A w \in Workers : worker[w].pc = "exited" => closed /\ tasks = <<>>

\* No submission holds q.mu once the queue is closed.
ClosedStops ==
  closed => \A c \in Callers : caller[c].pc \notin Holding

ShutdownInv == OwnerInv /\ Accounted /\ LeaveDrained /\ ClosedStops

LEMMA ShutdownInit == Init => ShutdownInv
BY OwnerInit DEF Init, Ready, ShutdownInv, Accounted, LeaveDrained, ClosedStops, Holding

LEMMA ShutdownCaller ==
  ASSUME ShutdownInv, NEW c \in Callers, CallStep(c) \/ CallBegin(c) \/ WaitTimeout(c)
  PROVE  (Accounted /\ LeaveDrained /\ ClosedStops)'
<1>0. TypeInv /\ Accounted /\ LeaveDrained /\ ClosedStops
  BY DEF ShutdownInv, OwnerInv
<1>1. caller \in [Callers -> CallStates] /\ tasks \in Seq(JobIds)
      /\ request \in [JobIds -> RequestTypes \cup {NoRequest}]
  BY <1>0 DEF TypeInv, TypeOK
<1>2. ASSUME UNCHANGED <<tasks, request, signalled, worker>> PROVE Accounted'
  BY <1>0, <1>2 DEF Accounted, InChannel, Busy
<1>3. ASSUME UNCHANGED <<tasks, closed, worker>> PROVE LeaveDrained'
  BY <1>0, <1>3 DEF LeaveDrained
<1>4. ASSUME UNCHANGED closed, \A d \in Callers \ {c} : caller'[d] = caller[d],
             closed => caller'[c].pc \notin Holding
      PROVE  ClosedStops'
  BY <1>0, <1>4 DEF ClosedStops
<1>5. CASE Submit(c)
  <2>1. \A d \in Callers \ {c} : caller'[d] = caller[d]
    BY <1>1, <1>5 DEF Submit
  <2> QED BY <1>2, <1>3, <1>4, <1>5, <2>1 DEF Submit
<1>6. ASSUME NEW id \in JobIds, EvictRow(c, id)
      PROVE  (Accounted /\ LeaveDrained /\ ClosedStops)'
  <2>1. /\ \A d \in Callers \ {c} : caller'[d] = caller[d]
        /\ ~closed
    BY <1>0, <1>1, <1>6 DEF EvictRow, ClosedStops, Holding
  <2> QED BY <1>2, <1>3, <1>4, <1>6, <2>1 DEF EvictRow
<1>7. ASSUME NEW id \in JobIds, NEW r \in Requests, Send(c, id, r)
      PROVE  (Accounted /\ LeaveDrained /\ ClosedStops)'
  <2>1. /\ \A d \in Callers \ {c} : caller'[d] = caller[d]
        /\ ~closed /\ UNCHANGED closed /\ UNCHANGED <<worker, signalled>>
        /\ tasks' = Append(tasks, id)
        /\ \A j \in JobIds \ {id} : request'[j] = request[j]
    BY <1>0, <1>1, <1>7 DEF Send, ClosedStops, Holding
  <2>2. ClosedStops' /\ LeaveDrained'
    BY <1>0, <2>1 DEF ClosedStops, LeaveDrained
  <2>3. InChannel \subseteq InChannel' /\ id \in InChannel'
    <3>1. /\ \A i \in DOMAIN tasks : i \in DOMAIN tasks' /\ tasks'[i] = tasks[i]
          /\ Len(tasks) + 1 \in DOMAIN tasks' /\ tasks'[Len(tasks) + 1] = id
      BY <1>1, <2>1
    <3> QED BY <3>1 DEF InChannel
  <2>4. Accounted'
    BY <1>0, <2>1, <2>3 DEF Accounted, Busy
  <2> QED BY <2>2, <2>4
<1>8. CASE Close(c)
  <2>1. \A d \in Callers : caller'[d].pc \notin Holding
    BY <1>1, <1>8 DEF Close, MuFree, Holding, CallStates
  <2>2. LeaveDrained'
    BY <1>0, <1>8 DEF LeaveDrained, Close
  <2> QED BY <1>2, <1>8, <2>1, <2>2 DEF Close, ClosedStops
<1>9. CASE \/ Reject(c) \/ Return(c) \/ ClearRows(c) \/ WaitEnd(c)
           \/ Record(c) \/ SaveQueued(c)
           \/ WaitTimeout(c) \/ CloseReturn(c) \/ (\E id \in JobIds : Wait(c, id))
           \/ (\E kind \in Filters : Clear(c, kind))
  <2>1. /\ \A d \in Callers \ {c} : caller'[d] = caller[d]
        /\ caller'[c].pc \notin Holding
    <3>1. CASE \/ Reject(c) \/ Return(c) \/ ClearRows(c) \/ WaitEnd(c)
               \/ WaitTimeout(c) \/ CloseReturn(c)
      <4>1. caller' = [caller EXCEPT ![c] = Idle]
        BY <3>1 DEF Reject, Return, ClearRows, WaitEnd, WaitTimeout, CloseReturn
      <4> QED BY <1>1, <4>1 DEF Idle, Holding
    <3>2. CASE Record(c) \/ SaveQueued(c)
      BY <1>1, <3>2 DEF Record, SaveQueued, Holding, CallStates
    <3>3. ASSUME NEW id \in JobIds, Wait(c, id)
          PROVE  /\ \A d \in Callers \ {c} : caller'[d] = caller[d]
                 /\ caller'[c].pc \notin Holding
      BY <1>1, <3>3 DEF Wait, Holding, CallStates
    <3>4. ASSUME NEW kind \in Filters, Clear(c, kind)
          PROVE  /\ \A d \in Callers \ {c} : caller'[d] = caller[d]
                 /\ caller'[c].pc \notin Holding
      BY <1>1, <3>4 DEF Clear, Holding, CallStates
    <3> QED BY <1>9, <3>1, <3>2, <3>3, <3>4
  <2>2. UNCHANGED <<tasks, closed, request, signalled, worker>>
    BY <1>9 DEF Reject, Return, ClearRows, WaitEnd, Record, SaveQueued, WaitTimeout,
                CloseReturn, Wait, Clear, shared
  <2> QED BY <1>2, <1>3, <1>4, <2>1, <2>2
<1> QED BY <1>5, <1>6, <1>7, <1>8, <1>9 DEF CallStep, CallBegin

LEMMA ShutdownWorker ==
  ASSUME ShutdownInv, NEW w \in Workers, WorkerStep(w)
  PROVE  (Accounted /\ LeaveDrained /\ ClosedStops)'
<1>0. TypeInv /\ Accounted /\ LeaveDrained /\ ClosedStops
  BY DEF ShutdownInv, OwnerInv
<1>1. worker \in [Workers -> WorkerStates] /\ tasks \in Seq(JobIds)
  BY <1>0 DEF TypeInv, TypeOK
<1>2. UNCHANGED <<closed, request, caller>>
  BY DEF WorkerStep, Receive, Exit, Start, SaveRunning, Process, Finish,
         SaveFinal, Callback, Signal, shared
<1>3. ClosedStops'
  BY <1>0, <1>2 DEF ClosedStops
\* A worker that keeps its task, or had none, and touches nothing that is shared.
<1> DEFINE Keeps ==
       /\ UNCHANGED <<tasks, signalled>>
       /\ \A v \in Workers \ {w} : worker'[v] = worker[v]
       /\ worker'[w].task = worker[w].task
       /\ \/ /\ worker[w].pc \notin {"receive", "exited"}
             /\ worker'[w].pc \notin {"receive", "exited"}
          \/ /\ worker[w].pc = "receive" /\ worker'[w].pc = "exited"
             /\ closed /\ tasks = <<>>
<1>4. ASSUME Keeps PROVE Accounted' /\ LeaveDrained'
  <2>1. Busy' = Busy /\ InChannel' = InChannel
    BY <1>4 DEF Busy, InChannel
  <2>2. Accounted'
    BY <1>0, <1>2, <1>4, <2>1 DEF Accounted, Busy
  <2> QED BY <1>0, <1>2, <1>4, <2>2 DEF LeaveDrained
<1>5. CASE Receive(w)
  <2>1. /\ worker'[w].pc = "start" /\ worker'[w].task = Head(tasks)
        /\ \A v \in Workers \ {w} : worker'[v] = worker[v]
        /\ UNCHANGED signalled /\ worker[w].pc = "receive"
    BY <1>1, <1>5 DEF Receive, WorkerStates
  <2>2. \A id \in InChannel : id \in InChannel' \/ id = Head(tasks)
    <3>1. \A i \in DOMAIN tasks :
            i = 1 \/ (i - 1 \in DOMAIN tasks' /\ tasks'[i - 1] = tasks[i])
      BY <1>1, <1>5 DEF Receive
    <3>2. Head(tasks) = tasks[1]
      BY <1>1, <1>5 DEF Receive
    <3> QED BY <3>1, <3>2 DEF InChannel
  <2>3. w \in Busy' /\ Busy \subseteq Busy' /\ w \notin Busy
    BY <2>1 DEF Busy
  <2>4. \A v \in Busy : worker'[v].task = worker[v].task
    BY <2>1, <2>3 DEF Busy
  <2>5. Accounted'
    BY <1>0, <1>2, <2>1, <2>2, <2>3, <2>4 DEF Accounted
  <2>6. LeaveDrained'
    BY <1>0, <1>5, <2>1 DEF Receive, LeaveDrained
  <2> QED BY <1>3, <2>5, <2>6
<1>6. CASE Exit(w)
  <2>1. Keeps
    BY <1>1, <1>6 DEF Exit, Goto, WorkerStates, shared
  <2> QED BY <1>3, <1>4, <2>1
<1>7. CASE Start(w)
  <2>1. Keeps
    BY <1>1, <1>7 DEF Start, Goto, WorkerStates
  <2> QED BY <1>3, <1>4, <2>1
<1>8. CASE SaveRunning(w) \/ SaveFinal(w) \/ Callback(w)
           \/ (\E outcome \in Finished : Process(w, outcome))
  <2>1. Keeps
    BY <1>1, <1>8 DEF SaveRunning, SaveFinal, Callback, Process, Goto,
                      WorkerStates, shared
  <2> QED BY <1>3, <1>4, <2>1
<1>9. CASE Finish(w)
  <2>1. worker[w].task \in Known
    BY <1>9 DEF Finish, ShutdownInv, OwnerInv, StatusFollowsOwner, Busy, Known,
                TypeInv, WorkerOK
  <2>2. Keeps
    BY <1>1, <1>9, <2>1 DEF Finish, Goto, WorkerStates
  <2> QED BY <1>3, <1>4, <2>2
<1>10. CASE Signal(w)
  <2>1. /\ worker'[w] = Ready
        /\ \A v \in Workers \ {w} : worker'[v] = worker[v]
        /\ UNCHANGED tasks /\ signalled' = signalled \cup {worker[w].task}
    BY <1>1, <1>10 DEF Signal
  <2>2. Busy' = Busy \ {w} /\ InChannel' = InChannel
    BY <2>1 DEF Busy, Ready, InChannel
  <2>3. \A v \in Busy' : worker'[v] = worker[v]
    BY <2>1, <2>2 DEF Busy
  <2>4. Accounted'
    BY <1>0, <1>2, <2>1, <2>2, <2>3 DEF Accounted
  <2>5. LeaveDrained'
    BY <1>0, <1>2, <2>1 DEF LeaveDrained, Ready
  <2> QED BY <1>3, <2>4, <2>5
<1> QED BY <1>3, <1>5, <1>6, <1>7, <1>8, <1>9, <1>10 DEF WorkerStep

LEMMA ShutdownStep == ShutdownInv /\ [Next]_vars => ShutdownInv'
<1> SUFFICES ASSUME ShutdownInv, [Next]_vars PROVE ShutdownInv'
  OBVIOUS
<1>1. OwnerInv'
  BY OwnerStep DEF ShutdownInv
<1>2. CASE UNCHANGED vars
  BY <1>1, <1>2 DEF ShutdownInv, Accounted, LeaveDrained, ClosedStops, InChannel, Busy,
                    vars, shared
<1>3. CASE Next
  BY <1>1, <1>3, ShutdownCaller, ShutdownWorker DEF Next, ShutdownInv
<1> QED BY <1>2, <1>3

LEMMA ShutdownImplied == ShutdownInv => CleanShutdown
<1> SUFFICES ASSUME ShutdownInv PROVE CleanShutdown
  OBVIOUS
<1>1. closed => \A c \in Callers : caller[c].pc # "send"
  BY DEF ShutdownInv, ClosedStops, Holding
<1>2. ASSUME \A w \in Workers : worker[w].pc = "exited"
      PROVE  \A id \in JobIds : request[id] # NoRequest => id \in signalled
  <2>1. InChannel = {} /\ Busy = {}
    BY <1>2, QueueAssumption DEF ShutdownInv, LeaveDrained, InChannel, Busy
  <2> QED BY <2>1 DEF ShutdownInv, Accounted
<1> QED BY <1>1, <1>2 DEF CleanShutdown

\* Close never makes a submission send on the closed channel, and when all
\* workers have left, every accepted job has been announced.
THEOREM ShutdownIsClean == Spec => []CleanShutdown
BY ShutdownInit, ShutdownStep, ShutdownImplied, PTL DEF Spec
-----------------------------------------------------------------------------
(* The history limit. *)

UnfinishedJobs == {id \in JobIds : status[id] \in Unfinished}

\* The channel respects its capacity.
ChannelBound == Len(tasks) <= QueueSize

\* The submission that holds q.mu has made room for its job, or has found nothing
\* that it may evict. Workers change no status meanwhile.
RoomMade ==
  \A c \in Callers :
    caller[c].pc \in Holding =>
      Cardinality(Known) < MaxJobs \/ FinishedJobs = {}

BoundInv == OwnerInv /\ ChannelBound /\ RoomMade /\ KnownBound

-----------------------------------------------------------------------------
\* The sets of jobs are finite, because only finitely many ids are drawn.
LEMMA JobsFinite ==
  ASSUME NEW S \in SUBSET JobIds
  PROVE  IsFiniteSet(S) /\ Cardinality(S) \in Nat
<1>1. IsFiniteSet(S)
  BY QueueAssumption, FS_Subset
<1> QED BY <1>1, FS_CardinalityType

\* Every unfinished job, and the one that is being recorded, has a slot of the
\* channel or a worker to itself.
LEMMA UnfinishedBound ==
  ASSUME OwnerInv
  PROVE  Cardinality(UnfinishedJobs \cup Recording) <= Len(tasks) + Cardinality(Workers)
<1> DEFINE held == {worker[w].task : w \in Working}
<1>1. /\ tasks \in Seq(JobIds) /\ Len(tasks) \in Nat
      /\ UnfinishedJobs \cup Recording = InChannel \cup held
  <2>1. Recording \subseteq InChannel \cup held
    BY DEF OwnerInv, HoldersOK, RecordOK, Recording, Working
  <2> QED BY <2>1 DEF OwnerInv, TypeInv, TypeOK, OneOwner, UnfinishedJobs
<1>2. IsFiniteSet(InChannel) /\ Cardinality(InChannel) <= Len(tasks)
  <2>1. tasks \in Surjection(1..Len(tasks), InChannel)
    BY <1>1 DEF InChannel, Surjection
  <2>2. IsFiniteSet(1..Len(tasks)) /\ Cardinality(1..Len(tasks)) = Len(tasks)
    BY <1>1, FS_Interval
  <2> QED BY <2>1, <2>2, FS_Surjection
<1>3. IsFiniteSet(held) /\ Cardinality(held) <= Cardinality(Workers)
  <2> DEFINE taskOf == [w \in Working |-> worker[w].task]
  <2>1. taskOf \in Surjection(Working, held)
    BY DEF Surjection
  <2>2. IsFiniteSet(Working) /\ Cardinality(Working) <= Cardinality(Workers)
    BY QueueAssumption, FS_Subset DEF Working
  <2>3. /\ Cardinality(held) \in Nat /\ Cardinality(Working) \in Nat
        /\ Cardinality(Workers) \in Nat /\ Cardinality(held) <= Cardinality(Working)
        /\ IsFiniteSet(held)
    <3> HIDE DEF held, taskOf
    <3>1. IsFiniteSet(held) /\ Cardinality(held) <= Cardinality(Working)
      BY <2>1, <2>2, FS_Surjection
    <3> QED BY <2>2, <3>1, QueueAssumption, FS_CardinalityType
  <2> QED BY <2>2, <2>3
<1> HIDE DEF held
<1>4. Cardinality(InChannel \cup held) <= Cardinality(InChannel) + Cardinality(held)
  <2>1. Cardinality(InChannel \cup held) =
          Cardinality(InChannel) + Cardinality(held) - Cardinality(InChannel \cap held)
    BY <1>2, <1>3, FS_Union
  <2>2. IsFiniteSet(InChannel \cap held)
    BY <1>2, FS_Intersection
  <2> QED BY <1>2, <1>3, <2>1, <2>2, FS_CardinalityType
<1> QED
  <2>1. /\ Cardinality(InChannel) \in Nat /\ Cardinality(held) \in Nat
        /\ Cardinality(InChannel \cup held) \in Nat /\ Cardinality(Workers) \in Nat
    <3>1. IsFiniteSet(InChannel \cup held)
      BY <1>2, <1>3, FS_Union
    <3> QED BY <1>2, <1>3, <3>1, FS_CardinalityType, QueueAssumption
  <2>2. Cardinality(UnfinishedJobs \cup Recording) = Cardinality(InChannel \cup held)
    BY <1>1
  <2> QED BY <1>1, <1>2, <1>3, <1>4, <2>1, <2>2

\* Evicting ToEvict finished jobs leaves room for one more, or no finished job.
LEMMA EvictionMakesRoom ==
  ASSUME NEW V \in Oldest(FinishedJobs, ToEvict), status' \in [JobIds -> Statuses \cup {"absent"}],
         status \in [JobIds -> Statuses \cup {"absent"}], Drop(V)
  PROVE  Cardinality(Known') < MaxJobs \/ FinishedJobs' = {}
<1> DEFINE k == Cardinality(Known)
           f == Cardinality(FinishedJobs)
<1>1. /\ V \in SUBSET FinishedJobs /\ Cardinality(V) = ToEvict
      /\ Known' = Known \ V /\ FinishedJobs' = FinishedJobs \ V
  BY DEF Oldest, Drop, Known, FinishedJobs, Finished
<1>2. /\ IsFiniteSet(Known) /\ k \in Nat
      /\ IsFiniteSet(FinishedJobs) /\ f \in Nat /\ FinishedJobs \subseteq Known
  BY JobsFinite DEF Known, FinishedJobs, Finished
<1>3. Cardinality(Known \ V) = k - ToEvict
  <2>1. Known \cap V = V
    BY <1>1, <1>2
  <2> QED BY <1>1, <1>2, <2>1, FS_Difference
<1>4. CASE ToEvict = f
  <2>1. V = FinishedJobs
    BY <1>1, <1>2, <1>4, FS_Subset
  <2> QED BY <1>1, <2>1
<1>5. CASE ToEvict # f
  <2> HIDE DEF k, f
  <2>1. ToEvict = Excess(k + 1, MaxJobs)
    BY <1>5 DEF ToEvict, Least, k, f
  <2>2. k - ToEvict < MaxJobs
    BY <1>2, <2>1, QueueAssumption DEF Excess
  <2> QED BY <1>1, <1>3, <2>2
<1> QED BY <1>4, <1>5

\* When no known job is added, the bound stays.
LEMMA BoundFrame ==
  ASSUME KnownBound, Known' \subseteq Known
  PROVE  KnownBound'
<1>1. /\ Cardinality(Known') <= Cardinality(Known)
      /\ Cardinality(Known) \in Nat /\ Cardinality(Known') \in Nat
  BY JobsFinite, FS_Subset DEF Known
<1>2. Cardinality(Workers) \in Nat /\ MaxJobs \in Nat /\ QueueSize \in Nat
  BY QueueAssumption, FS_CardinalityType
<1> QED BY <1>1, <1>2 DEF KnownBound

LEMMA BoundInit == Init => BoundInv
<1> SUFFICES ASSUME Init PROVE BoundInv
  OBVIOUS
<1>1. Known = {} /\ Cardinality({}) = 0
  BY FS_EmptySet DEF Init, Known
<1>2. Cardinality(Workers) \in Nat /\ MaxJobs \in Nat /\ QueueSize \in Nat
  BY QueueAssumption, FS_CardinalityType
<1>3. KnownBound
  BY <1>1, <1>2 DEF KnownBound
<1>4. ChannelBound /\ RoomMade
  <2>1. \A c \in Callers : caller[c].pc = "idle"
    BY DEF Init, Idle
  <2>2. Len(tasks) = 0
    BY DEF Init
  <2> QED BY <1>2, <2>1, <2>2 DEF ChannelBound, RoomMade, Holding
<1> QED BY <1>3, <1>4, OwnerInit DEF BoundInv

LEMMA BoundCaller ==
  ASSUME BoundInv, TypeInv', NEW c \in Callers,
         CallStep(c) \/ CallBegin(c) \/ WaitTimeout(c)
  PROVE  (ChannelBound /\ RoomMade /\ KnownBound)'
<1>0. /\ OwnerInv /\ ChannelBound /\ RoomMade /\ KnownBound
      /\ TypeInv /\ TypeInv'
  BY DEF BoundInv, OwnerInv
<1>1. /\ caller \in [Callers -> CallStates] /\ tasks \in Seq(JobIds)
      /\ status \in [JobIds -> Statuses \cup {"absent"}]
      /\ status' \in [JobIds -> Statuses \cup {"absent"}]
  BY <1>0 DEF TypeInv, TypeOK
\* The calls that neither hold q.mu nor take it over their step.
<1>2. ASSUME UNCHANGED tasks, Known' \subseteq Known,
             \A d \in Callers \ {c} : caller'[d] = caller[d],
             caller'[c].pc \notin Holding,
             UNCHANGED status \/ MuFree
      PROVE  (ChannelBound /\ RoomMade /\ KnownBound)'
  <2>1. KnownBound'
    BY <1>0, <1>2, BoundFrame
  <2>2. RoomMade'
    <3>1. CASE MuFree
      BY <1>2, <3>1 DEF MuFree, RoomMade, Holding
    <3>2. CASE UNCHANGED status
      BY <1>0, <1>2, <3>2 DEF RoomMade, Known, FinishedJobs
    <3> QED BY <1>2, <3>1, <3>2
  <2> QED BY <1>0, <1>2, <2>1, <2>2 DEF ChannelBound
<1>3. CASE Submit(c)
  <2>1. /\ \A d \in Callers \ {c} : caller'[d] = caller[d]
        /\ \A d \in Callers \ {c} : caller'[d].pc \notin Holding
    BY <1>1, <1>3 DEF Submit, MuFree, Holding
  <2>3. Cardinality(Known') < MaxJobs \/ FinishedJobs' = {}
    BY <1>1, <1>3, EvictionMakesRoom DEF Submit
  <2>4. Known' \subseteq Known
    BY <1>3 DEF Submit, Drop, Known
  <2>5. KnownBound'
    BY <1>0, <2>4, BoundFrame
  <2> QED BY <1>0, <1>3, <2>1, <2>3, <2>5 DEF Submit, ChannelBound, RoomMade
<1>4. ASSUME NEW id \in JobIds, EvictRow(c, id)
      PROVE  (ChannelBound /\ RoomMade /\ KnownBound)'
  <2>1. /\ \A d \in Callers \ {c} : caller'[d] = caller[d]
        /\ UNCHANGED <<status, tasks>> /\ caller[c].pc = "evict"
    BY <1>1, <1>4 DEF EvictRow
  <2>2. RoomMade'
    BY <1>0, <2>1 DEF RoomMade, Holding, Known, FinishedJobs
  <2>3. Known' \subseteq Known
    BY <2>1 DEF Known
  <2> QED BY <1>0, <2>1, <2>2, <2>3, BoundFrame DEF ChannelBound
<1>5. ASSUME NEW id \in JobIds, NEW r \in Requests, Send(c, id, r)
      PROVE  (ChannelBound /\ RoomMade /\ KnownBound)'
  <2>1. /\ \A d \in Callers \ {c} : caller'[d] = caller[d]
        /\ caller[c].pc = "send" /\ UNCHANGED status
        /\ Len(tasks) < QueueSize /\ tasks' = Append(tasks, id)
    BY <1>1, <1>5 DEF Send
  <2>2. ChannelBound'
    BY <1>1, <2>1, QueueAssumption DEF ChannelBound
  <2>3. RoomMade'
    BY <1>0, <2>1 DEF RoomMade, Holding, Known, FinishedJobs
  <2>4. Known' \subseteq Known
    BY <2>1 DEF Known
  <2> QED BY <1>0, <2>2, <2>3, <2>4, BoundFrame
<1>11. CASE Record(c)
  <2> DEFINE j == caller[c].job
  <2>1. /\ \A d \in Callers \ {c} : caller'[d] = caller[d]
        /\ caller[c].pc = "record" /\ caller'[c].pc = "saveQueued"
        /\ UNCHANGED tasks
        /\ \A id \in JobIds : status'[id] = IF id = j THEN "queued" ELSE status[id]
    BY <1>1, <1>11 DEF Record, CallStates
  <2>2. RoomMade'
    <3>1. \A d \in Callers \ {c} : caller[d].pc \notin Holding
      BY <1>0, <2>1 DEF OwnerInv, HoldersOK, MuExclusive, Holding
    <3> QED BY <2>1, <3>1 DEF RoomMade, Holding
  <2>3. j \in JobIds /\ Recording = {j}
    BY <1>0, <2>1, OneRecording DEF OwnerInv, HoldersOK, RecordOK, Holding
  <2> HIDE DEF j
  <2>4. /\ Cardinality(Workers) \in Nat /\ MaxJobs \in Nat /\ QueueSize \in Nat
        /\ Cardinality(Known) \in Nat /\ Cardinality(Known') \in Nat
    BY QueueAssumption, FS_CardinalityType, JobsFinite DEF Known
  <2>5. Known' = Known \cup {j} /\ IsFiniteSet(Known)
    BY <2>1, <2>3, JobsFinite DEF Known
  <2>6. Cardinality(Known') <= Cardinality(Known) + 1
    <3>1. Cardinality(Known \cup {j}) \in {Cardinality(Known), Cardinality(Known) + 1}
      BY <2>5, FS_AddElement
    <3> QED BY <2>4, <2>5, <3>1
  <2>7. KnownBound'
    <3>1. CASE Cardinality(Known) < MaxJobs
      BY <2>4, <2>6, <3>1 DEF KnownBound
    <3>2. CASE FinishedJobs = {}
      <4>1. Known = UnfinishedJobs
        BY <1>1, <3>2
           DEF Known, UnfinishedJobs, FinishedJobs, Statuses, Unfinished, Finished
      <4>2. Cardinality(Known') <= Len(tasks) + Cardinality(Workers)
        BY <1>0, <2>3, <2>5, <4>1, UnfinishedBound
      <4>3. Cardinality(Known') <= QueueSize + Cardinality(Workers)
        BY <1>0, <1>1, <2>4, <4>2 DEF ChannelBound
      <4> QED BY <2>4, <4>3 DEF KnownBound
    <3> QED BY <1>0, <2>1, <3>1, <3>2 DEF RoomMade, Holding
  <2> QED BY <1>0, <2>1, <2>2, <2>7 DEF ChannelBound
<1>6. CASE \/ Reject(c) \/ Return(c) \/ ClearRows(c) \/ WaitEnd(c)
           \/ WaitTimeout(c) \/ CloseReturn(c)
  <2>1. caller' = [caller EXCEPT ![c] = Idle] /\ UNCHANGED <<tasks, status>>
    BY <1>6 DEF Reject, Return, ClearRows, WaitEnd, WaitTimeout, CloseReturn, shared
  <2>2. Known' = Known
    BY <2>1 DEF Known
  <2> QED BY <1>1, <1>2, <2>1, <2>2 DEF Idle, Holding
<1>7. ASSUME NEW pc \in {"return", "closing"}, UNCHANGED <<tasks, status>>,
             caller' = [caller EXCEPT ![c].pc = pc]
      PROVE  (ChannelBound /\ RoomMade /\ KnownBound)'
  <2>1. /\ \A d \in Callers \ {c} : caller'[d] = caller[d]
        /\ caller'[c].pc = pc /\ pc \notin Holding
    BY <1>1, <1>7 DEF CallStates, Holding
  <2>2. Known' = Known
    BY <1>7 DEF Known
  <2> QED BY <1>2, <1>7, <2>1, <2>2
<1>8. CASE SaveQueued(c) \/ Close(c)
  BY <1>7, <1>8 DEF SaveQueued, Close, shared
<1>9. ASSUME NEW id \in JobIds, Wait(c, id)
      PROVE  (ChannelBound /\ RoomMade /\ KnownBound)'
  <2>1. /\ \A d \in Callers \ {c} : caller'[d] = caller[d]
        /\ caller'[c].pc = "waiting" /\ UNCHANGED <<tasks, status>>
        /\ "waiting" \notin Holding
    BY <1>1, <1>9 DEF Wait, CallStates, Holding, shared
  <2>2. Known' = Known
    BY <2>1 DEF Known
  <2> QED BY <1>2, <2>1, <2>2
<1>10. ASSUME NEW kind \in Filters, Clear(c, kind)
      PROVE  (ChannelBound /\ RoomMade /\ KnownBound)'
  <2>1. /\ \A d \in Callers \ {c} : caller'[d] = caller[d]
        /\ caller'[c].pc = "clearRows" /\ UNCHANGED tasks /\ MuFree
        /\ "clearRows" \notin Holding
    BY <1>1, <1>10 DEF Clear, CallStates, Holding
  <2>2. Known' \subseteq Known
    BY <1>10 DEF Clear, Drop, Known
  <2> QED BY <1>2, <2>1, <2>2
<1> QED
  BY <1>3, <1>4, <1>5, <1>6, <1>8, <1>9, <1>10, <1>11 DEF CallStep, CallBegin

LEMMA BoundWorker ==
  ASSUME BoundInv, NEW w \in Workers, WorkerStep(w)
  PROVE  (ChannelBound /\ RoomMade /\ KnownBound)'
<1>0. /\ ChannelBound /\ RoomMade /\ KnownBound
      /\ TypeInv /\ tasks \in Seq(JobIds)
      /\ status \in [JobIds -> Statuses \cup {"absent"}]
  BY DEF BoundInv, OwnerInv, TypeInv, TypeOK
<1>1. UNCHANGED caller
  BY DEF WorkerStep, Receive, Exit, Start, SaveRunning, Process, Finish,
         SaveFinal, Callback, Signal, shared
<1>3. Len(tasks') <= Len(tasks) /\ Len(tasks') \in Nat
  <2>1. CASE Receive(w)
    BY <1>0, <2>1 DEF Receive
  <2>2. CASE ~Receive(w)
    <3>1. UNCHANGED tasks
      BY <2>2 DEF WorkerStep, Exit, Start, SaveRunning, Process, Finish, SaveFinal,
                  Callback, Signal, shared
    <3> QED BY <1>0, <3>1
  <2> QED BY <2>1, <2>2
<1>4. ChannelBound'
  BY <1>0, <1>3, QueueAssumption DEF ChannelBound
<1>5. UNCHANGED status \/ (MuFree /\ Known' \subseteq Known)
  <2>1. CASE Start(w)
    BY <1>0, <2>1 DEF Start, Known
  <2>2. CASE Finish(w)
    BY <1>0, <2>2 DEF Finish, Known
  <2>3. CASE ~Start(w) /\ ~Finish(w)
    BY <2>3 DEF WorkerStep, Receive, Exit, SaveRunning, Process, SaveFinal,
                Callback, Signal, shared
  <2> QED BY <2>1, <2>2, <2>3
<1>6. KnownBound'
  <2>1. Known' \subseteq Known
    BY <1>5 DEF Known
  <2> QED BY <1>0, <2>1, BoundFrame
<1>7. RoomMade'
  BY <1>0, <1>1, <1>5 DEF RoomMade, MuFree, Holding, Known, FinishedJobs
<1> QED BY <1>4, <1>6, <1>7

LEMMA BoundStep == BoundInv /\ [Next]_vars => BoundInv'
<1> SUFFICES ASSUME BoundInv, [Next]_vars PROVE BoundInv'
  OBVIOUS
<1>1. OwnerInv'
  BY OwnerStep DEF BoundInv
<1>2. CASE UNCHANGED vars
  BY <1>1, <1>2 DEF BoundInv, ChannelBound, RoomMade, KnownBound, Known,
                    FinishedJobs, vars, shared
<1>3. CASE Next
  BY <1>1, <1>3, BoundCaller, BoundWorker DEF Next, BoundInv, OwnerInv
<1> QED BY <1>2, <1>3

\* Whatever the interleaving, q.jobs holds at most the larger of maxJobs and the
\* number of jobs that the channel and the workers can hold.
THEOREM HistoryIsBounded == Spec => []KnownBound
BY BoundInit, BoundStep, PTL DEF Spec, BoundInv
-----------------------------------------------------------------------------
(* What a submission evicts. *)

Evicts ==
  Cardinality(Known') < Cardinality(Known) =>
    \/ \E c \in Callers : caller[c].pc = "idle" /\ caller'[c].pc = "clearRows"
    \/ /\ Cardinality(Known') >= MaxJobs - 1
       /\ \A gone \in Known \ Known', kept \in FinishedJobs' : updated[gone] <= updated[kept]

\* A step that drops no job evicts nothing.
LEMMA NothingGone ==
  ASSUME Known \subseteq Known', Known' \subseteq JobIds
  PROVE  Evicts
<1>1. /\ Cardinality(Known) <= Cardinality(Known')
      /\ Cardinality(Known) \in Nat /\ Cardinality(Known') \in Nat
  BY JobsFinite, FS_Subset
<1> QED BY <1>1 DEF Evicts

\* The eviction of a submission goes down to MaxJobs - 1 and takes the oldest.
LEMMA EvictsOldest ==
  ASSUME status \in [JobIds -> Statuses \cup {"absent"}],
         NEW V \in Oldest(FinishedJobs, ToEvict), Drop(V)
  PROVE  Evicts
<1> DEFINE k == Cardinality(Known)
           f == Cardinality(FinishedJobs)
<1>1. /\ V \in SUBSET FinishedJobs /\ Cardinality(V) = ToEvict
      /\ Known' = Known \ V /\ FinishedJobs' = FinishedJobs \ V
      /\ \A v \in V, kept \in FinishedJobs \ V : updated[v] <= updated[kept]
  BY DEF Oldest, Drop, Known, FinishedJobs, Finished
<1>2. /\ IsFiniteSet(Known) /\ k \in Nat
      /\ IsFiniteSet(FinishedJobs) /\ f \in Nat /\ FinishedJobs \subseteq Known
  BY JobsFinite DEF Known, FinishedJobs, Finished
<1>3. Cardinality(Known') = k - ToEvict
  <2>1. Known \cap V = V
    BY <1>1, <1>2
  <2> QED BY <1>1, <1>2, <2>1, FS_Difference
<1>4. \A gone \in Known \ Known', kept \in FinishedJobs' : updated[gone] <= updated[kept]
  BY <1>1
<1>5. k - ToEvict < k => k - ToEvict >= MaxJobs - 1
  <2> HIDE DEF k, f
  <2>1. ToEvict \in Nat /\ ToEvict <= Excess(k + 1, MaxJobs)
    BY <1>2, QueueAssumption DEF ToEvict, Least, Excess, k, f
  <2> QED BY <1>2, <2>1, QueueAssumption DEF Excess
<1> HIDE DEF k, f
<1> QED BY <1>3, <1>4, <1>5 DEF Evicts, k

LEMMA EvictsStep ==
  ASSUME TypeInv, TypeInv', [Next]_vars
  PROVE  Evicts
<1>0. /\ status \in [JobIds -> Statuses \cup {"absent"}] /\ worker \in [Workers -> WorkerStates]
      /\ caller \in [Callers -> CallStates] /\ WorkerOK /\ Known' \subseteq JobIds
  BY DEF TypeInv, TypeOK, Known
<1>1. ASSUME Known \subseteq Known' PROVE Evicts
  BY <1>0, <1>1, NothingGone
<1>2. ASSUME UNCHANGED status PROVE Evicts
  BY <1>1, <1>2 DEF Known
<1>3. ASSUME NEW w \in Workers, WorkerStep(w) PROVE Evicts
  <2>1. CASE Start(w)
    BY <1>0, <1>1, <2>1 DEF Start, Known
  <2>2. CASE Finish(w)
    <3>1. worker[w].outcome # "absent"
      BY <1>0, <2>2 DEF Finish, WorkerOK, Finished
    <3> QED BY <1>0, <1>1, <2>2, <3>1 DEF Finish, Known
  <2>3. CASE ~Start(w) /\ ~Finish(w)
    BY <1>2, <1>3, <2>3 DEF WorkerStep, Receive, Exit, SaveRunning, Process, SaveFinal, Callback,
                Signal, shared
  <2> QED BY <2>1, <2>2, <2>3
<1>4. ASSUME NEW c \in Callers, CallStep(c) \/ CallBegin(c) \/ WaitTimeout(c) PROVE Evicts
  <2>1. CASE Submit(c)
    BY <1>0, <2>1, EvictsOldest DEF Submit
  <2>2. ASSUME NEW id \in JobIds, NEW r \in Requests, Send(c, id, r) PROVE Evicts
    BY <1>2, <2>2 DEF Send
  <2>3. ASSUME NEW kind \in Filters, Clear(c, kind) PROVE Evicts
    <3>1. caller[c].pc = "idle" /\ caller'[c].pc = "clearRows"
      BY <1>0, <2>3 DEF Clear, CallStates
    <3> QED BY <3>1 DEF Evicts
  <2>4. CASE \/ \E id \in JobIds : EvictRow(c, id) \/ Wait(c, id)
             \/ Reject(c) \/ SaveQueued(c) \/ Return(c) \/ ClearRows(c) \/ WaitEnd(c)
             \/ CloseReturn(c) \/ Close(c) \/ WaitTimeout(c)
    BY <1>2, <2>4 DEF EvictRow, Wait, Reject, SaveQueued, Return, ClearRows, WaitEnd, CloseReturn,
                Close, WaitTimeout, shared
  <2>5. CASE Record(c)
    BY <1>0, <1>1, <2>5 DEF Record, Known
  <2> QED BY <1>4, <2>1, <2>2, <2>3, <2>4, <2>5 DEF CallStep, CallBegin
<1>5. CASE UNCHANGED vars
  BY <1>2, <1>5 DEF vars, shared
<1> QED BY <1>3, <1>4, <1>5 DEF Next

\* No step makes the history smaller than the limit asks for, or drops a job before an
\* older one, but a client who clears it (submit and gcLocked).
THEOREM HistoryIsKept == Spec => KeepsHistory
<1>1. BoundInv /\ BoundInv' /\ [Next]_vars => [Evicts]_vars
  BY EvictsStep DEF BoundInv, OwnerInv
<1>2. Spec => []BoundInv
  BY BoundInit, BoundStep, PTL DEF Spec
<1> QED BY <1>1, <1>2, PTL DEF Spec, KeepsHistory, Evicts
-----------------------------------------------------------------------------
(* The refinement: the initial state is one of JobLifecycle, and each step is
   one of JobLifecycle or leaves every job where it is. *)

LifecycleSafety == Lifecycle!Init /\ [][Lifecycle!Next]_(Lifecycle!vars)

Stutter == UNCHANGED <<phase, signalled>>

\* The phase of a job, before and after a step.
LEMMA PhaseAt ==
  ASSUME NEW id \in JobIds
  PROVE  /\ phase[id] = IF request[id] = NoRequest \/ id \in Recording THEN "new"
                        ELSE IF status[id] # "absent" THEN status[id] ELSE "forgotten"
         /\ phase'[id] = IF request'[id] = NoRequest \/ id \in Recording' THEN "new"
                         ELSE IF status'[id] # "absent" THEN status'[id] ELSE "forgotten"
BY DEF phase

\* A step that changes neither statuses nor requests nor signals is a stutter.
LEMMA PhaseFrame ==
  ASSUME UNCHANGED <<status, request, signalled>>, Recording' = Recording
  PROVE  Stutter
BY DEF Stutter, phase

\* Writing one known job's status writes its phase.
LEMMA PhaseOfStatus ==
  ASSUME NEW id \in JobIds, NEW st \in Statuses, request[id] # NoRequest,
         Recording = {}, Recording' = {},
         status \in [JobIds -> Statuses \cup {"absent"}],
         status' = [status EXCEPT ![id] = st], UNCHANGED request
  PROVE  phase' = [phase EXCEPT ![id] = st]
<1>1. \A j \in JobIds : phase'[j] = IF j = id THEN st ELSE phase[j]
  BY PhaseAt DEF Statuses, Unfinished, Finished
<1>2. phase' = [j \in JobIds |-> phase'[j]] /\ phase = [j \in JobIds |-> phase[j]]
  BY DEF phase
<1> QED BY <1>1, <1>2

\* Dropping finished jobs forgets them.
LEMMA PhaseOfDrop ==
  ASSUME OwnerInv, NEW ids \in SUBSET FinishedJobs, Drop(ids),
         UNCHANGED <<request, signalled>>, Recording = {}, Recording' = {}
  PROVE  Lifecycle!Forget(ids)
<1>1. \A id \in ids : /\ id \in JobIds /\ status[id] \in Finished
                      /\ request[id] # NoRequest /\ phase[id] = status[id]
  BY PhaseAt DEF FinishedJobs, OwnerInv, IssuedOnly, Finished
<1>2. \A id \in JobIds : phase'[id] = IF id \in ids THEN "forgotten" ELSE phase[id]
  <2>1. \A id \in JobIds : status'[id] = IF id \in ids THEN "absent" ELSE status[id]
    BY DEF Drop
  <2>2. \A id \in JobIds : request'[id] = request[id]
    OBVIOUS
  <2> QED BY <1>1, <2>1, <2>2, PhaseAt DEF Finished
<1>3. phase' = [id \in JobIds |-> IF id \in ids THEN "forgotten" ELSE phase[id]]
  BY <1>2 DEF phase
<1> QED BY <1>1, <1>3 DEF Lifecycle!Forget, Lifecycle!Finished, Finished

LEMMA RefineInit == Init => Lifecycle!Init
BY DEF Init, Lifecycle!Init, phase, Recording, Idle

LEMMA RefineCaller ==
  ASSUME OwnerInv, OwnerInv', NEW c \in Callers, CallStep(c) \/ CallBegin(c) \/ WaitTimeout(c)
  PROVE  Lifecycle!Next \/ Stutter
<1>0. /\ TypeInv /\ HoldersOK /\ caller \in [Callers -> CallStates]
      /\ status \in [JobIds -> Statuses \cup {"absent"}]
      /\ request \in [JobIds -> RequestTypes \cup {NoRequest}]
  BY DEF OwnerInv, TypeInv, TypeOK
<1>1. CASE Submit(c)
  <2>1. victims' \in SUBSET FinishedJobs /\ Drop(victims')
        /\ UNCHANGED <<request, signalled>>
    BY <1>1 DEF Submit, Oldest
  <2>2. Recording = {} /\ Recording' = {}
    BY <1>0, <1>1, FreeMu, RecordingCaller DEF Submit, Record, Send, CallBegin
  <2>3. Lifecycle!Forget(victims') /\ victims' \in SUBSET JobIds
    BY <2>1, <2>2, PhaseOfDrop DEF FinishedJobs
  <2> QED BY <2>3 DEF Lifecycle!Next
<1>2. ASSUME NEW kind \in Filters, Clear(c, kind) PROVE Lifecycle!Next \/ Stutter
  <2> DEFINE ids == {id \in FinishedJobs : Selects(kind, request[id])}
  <2>1. Drop(ids) /\ UNCHANGED <<request, signalled>>
    BY <1>2 DEF Clear
  <2>2. ids \in SUBSET FinishedJobs /\ ids \in SUBSET JobIds
    BY DEF FinishedJobs
  <2> HIDE DEF ids
  <2>3. Recording = {} /\ Recording' = {}
    BY <1>0, <1>2, FreeMu, RecordingCaller DEF Clear, Record, Send, CallBegin
  <2>4. Lifecycle!Forget(ids)
    BY <2>1, <2>2, <2>3, PhaseOfDrop
  <2> QED BY <2>2, <2>4 DEF Lifecycle!Next
\* The job that is sent is new until it is recorded.
<1>3. ASSUME NEW id \in JobIds, NEW r \in Requests, Send(c, id, r)
      PROVE  Lifecycle!Next \/ Stutter
  <2>1. Recording = {}
    BY <1>0, <1>3, OneRecording DEF Send, Holding
  <2>2. caller'[c].pc = "record" /\ caller'[c].job = id
    BY <1>0, <1>3 DEF Send, CallStates
  <2>3. Recording' = {id}
    <3>1. TypeInv' /\ HoldersOK'
      BY DEF OwnerInv
    <3>2. \A d \in Callers \ {c} : caller'[d].pc # "record"
      BY <2>2, <3>1 DEF HoldersOK, MuExclusive, Holding
    <3> QED BY <2>2, <3>2 DEF Recording
  <2>4. \A j \in JobIds : phase'[j] = phase[j]
    <3>1. /\ \A j \in JobIds \ {id} : request'[j] = request[j]
          /\ request[id] = NoRequest /\ status' = status
      BY <1>0, <1>3 DEF Send
    <3> QED BY <2>1, <2>3, <3>1, PhaseAt
  <2> QED BY <1>3, <2>4 DEF Send, Stutter, phase
<1>4. CASE Record(c)
  <2> DEFINE j == caller[c].job
  <2>1. j \in JobIds /\ Recording = {j}
    BY <1>0, <1>4, OneRecording DEF Record, HoldersOK, RecordOK, Holding
  <2>2. /\ caller'[c].pc = "saveQueued"
        /\ \A d \in Callers \ {c} : caller'[d] = caller[d] /\ caller[d].pc # "record"
    BY <1>0, <1>4 DEF Record, CallStates, HoldersOK, MuExclusive, Holding
  <2>3. Recording' = {}
    BY <2>2 DEF Recording
  <2>4. /\ \A id \in JobIds : status'[id] = IF id = j THEN "queued" ELSE status[id]
        /\ UNCHANGED <<request, signalled>>
    BY <1>0, <1>4 DEF Record
  <2> HIDE DEF j
  <2>5. request[j] # NoRequest
    <3>1. j \in InChannel \/ \E w \in Busy : worker[w].task = j
      BY <1>0, <1>4 DEF Record, HoldersOK, RecordOK, Busy, j
    <3> QED BY <2>1, <3>1 DEF OwnerInv, IssuedOnly
  <2>6. phase[j] = "new"
    BY <2>1, PhaseAt
  <2>7. \A id \in JobIds : phase'[id] = IF id = j THEN "queued" ELSE phase[id]
    BY <2>1, <2>3, <2>4, <2>5, PhaseAt
  <2>8. phase' = [phase EXCEPT ![j] = "queued"]
    <3>1. phase' = [id \in JobIds |-> phase'[id]] /\ phase = [id \in JobIds |-> phase[id]]
      BY DEF phase
    <3> QED BY <2>7, <3>1
  <2>9. Lifecycle!Accept(j)
    BY <2>4, <2>6, <2>8 DEF Lifecycle!Accept
  <2> QED BY <2>1, <2>9 DEF Lifecycle!Next
<1>5. ASSUME NEW id \in JobIds, EvictRow(c, id) \/ Wait(c, id)
      PROVE  Lifecycle!Next \/ Stutter
  <2>1. Recording' = Recording
    BY <1>0, <1>5, RecordingCaller DEF EvictRow, Wait, Record, Send, CallStep, CallBegin
  <2> QED BY <1>5, <2>1, PhaseFrame DEF EvictRow, Wait, shared
<1>6. CASE \/ Reject(c) \/ SaveQueued(c) \/ Return(c) \/ ClearRows(c) \/ Close(c)
           \/ WaitEnd(c) \/ WaitTimeout(c) \/ CloseReturn(c)
  <2>1. /\ UNCHANGED <<status, request, signalled>>
        /\ ~Record(c) /\ ~\E id \in JobIds, r \in Requests : Send(c, id, r)
    BY <1>6 DEF Reject, SaveQueued, Return, ClearRows, Close, WaitEnd, WaitTimeout,
                CloseReturn, shared, Record, Send
  <2>2. Recording' = Recording
    BY <1>0, <2>1, RecordingCaller
  <2> QED BY <2>1, <2>2, PhaseFrame
<1> QED BY <1>1, <1>2, <1>3, <1>4, <1>5, <1>6 DEF CallStep, CallBegin

LEMMA RefineWorker ==
  ASSUME OwnerInv, NEW w \in Workers, WorkerStep(w)
  PROVE  Lifecycle!Next \/ Stutter
<1> DEFINE t == worker[w].task
<1>1. status \in [JobIds -> Statuses \cup {"absent"}] /\ Recording' = Recording
  BY RecordingWorker DEF OwnerInv, TypeInv, TypeOK
<1>2. CASE Start(w)
  <2>0. Recording = {}
    BY <1>2, FreeMu DEF Start
  <2>1. /\ t \in JobIds /\ status[t] = "queued" /\ t \in Known /\ request[t] # NoRequest
    BY <1>2, <2>0 DEF Start, OwnerInv, TypeInv, WorkerOK, StatusFollowsOwner, IssuedOnly,
                Busy, Known, NotBegun
  <2>2. phase[t] = "queued"
    BY <2>0, <2>1, PhaseAt
  <2>3. phase' = [phase EXCEPT ![t] = "running"]
    BY <1>1, <1>2, <2>0, <2>1, PhaseOfStatus DEF Start, Statuses, Unfinished
  <2>4. Lifecycle!Start(t)
    BY <1>2, <2>2, <2>3 DEF Start, Lifecycle!Start
  <2> QED BY <2>1, <2>4 DEF Lifecycle!Next
<1>3. CASE Finish(w)
  <2>0. Recording = {}
    BY <1>3, FreeMu DEF Finish
  <2>1. /\ t \in JobIds /\ status[t] = "running" /\ t \in Known /\ request[t] # NoRequest
        /\ worker[w].outcome \in Finished
    BY <1>3 DEF Finish, OwnerInv, TypeInv, WorkerOK, StatusFollowsOwner, IssuedOnly,
                Busy, Known
  <2>2. phase[t] = "running"
    BY <2>0, <2>1, PhaseAt
  <2>3. phase' = [phase EXCEPT ![t] = worker[w].outcome]
    BY <1>1, <1>3, <2>0, <2>1, PhaseOfStatus DEF Finish, Statuses
  <2>4. Lifecycle!Finish(t)
    BY <1>3, <2>1, <2>2, <2>3 DEF Finish, Lifecycle!Finish, Lifecycle!Finished, Finished
  <2> QED BY <2>1, <2>4 DEF Lifecycle!Next
<1>4. CASE Signal(w)
  <2>0. Recording = {}
    BY <1>4, FreeMu DEF Signal
  <2>1. /\ t \in JobIds /\ status[t] \in Finished \cup {"absent"} /\ request[t] # NoRequest
    BY <1>4 DEF Signal, OwnerInv, TypeInv, WorkerOK, StatusFollowsOwner, IssuedOnly, Busy
  <2>2. phase[t] \in Finished \cup {"forgotten"}
    BY <2>0, <2>1, PhaseAt DEF Finished
  <2>3. UNCHANGED phase /\ signalled' = signalled \cup {t}
    BY <1>1, <1>4 DEF Signal, phase
  <2>4. Lifecycle!Notify(t)
    BY <2>2, <2>3 DEF Lifecycle!Notify, Lifecycle!Finished, Finished
  <2> QED BY <2>1, <2>4 DEF Lifecycle!Next
<1>5. CASE \/ Receive(w) \/ Exit(w) \/ SaveRunning(w) \/ SaveFinal(w) \/ Callback(w)
           \/ \E outcome \in Finished : Process(w, outcome)
  BY <1>1, <1>5, PhaseFrame
     DEF Receive, Exit, SaveRunning, SaveFinal, Callback, Process, shared
<1> QED BY <1>2, <1>3, <1>4, <1>5 DEF WorkerStep

LEMMA RefineStep ==
  OwnerInv /\ [Next]_vars => [Lifecycle!Next]_(Lifecycle!vars)
<1> SUFFICES ASSUME OwnerInv, OwnerInv', [Next]_vars PROVE Lifecycle!Next \/ Stutter
  BY OwnerStep DEF Lifecycle!vars, Stutter
<1>1. CASE UNCHANGED vars
  BY <1>1, PhaseFrame DEF vars, shared, Recording
<1>2. CASE Next
  BY <1>2, RefineCaller, RefineWorker DEF Next
<1> QED BY <1>1, <1>2

\* Each job is accepted, started, finished once and notified when it is final,
\* and only final jobs are forgotten: the queue's steps are those of JobLifecycle.
THEOREM QueueRefinesLifecycle == Spec => LifecycleSafety
<1>1. Spec => []OwnerInv
  BY OwnerInit, OwnerStep, PTL DEF Spec
<1> QED BY <1>1, RefineInit, RefineStep, PTL DEF Spec, LifecycleSafety
=============================================================================
