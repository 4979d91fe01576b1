--------------------------- MODULE ServiceProofs ---------------------------
(***************************************************************************)
(* The queue and the store together, for any number of workers, callers,   *)
(* jobs and restarts: what the rows of the store say of the jobs of the    *)
(* queue while saves, evictions, DELETE /jobs and crashes interleave.      *)
(***************************************************************************)
EXTENDS Service, QueueProofs

Rows == {Db!NoRow} \cup [status : Statuses, kind : Kinds, updated : Nat, interrupted : BOOLEAN]

RowsOK == rows \in [JobIds -> Rows]

\* The parts of ServiceTypeOK about the document, the schema, and the handlers.
ServerOK ==
  /\ document \in JobIds \cup {NoJob} /\ schema \in JobIds \cup {NoJob}
  /\ doc \in JobIds \cup {NoJob} /\ sch \in JobIds \cup {NoJob}
  /\ decodedBy \in [JobIds -> JobIds \cup {NoJob}]
  /\ install \in [Workers -> {"memory", "clearDocument", "persist"}]
  /\ admin \in [Admins -> {"idle", "clearDocument", "clearSchema"}]
  /\ acked \subseteq JobIds /\ born \subseteq JobIds /\ raced \in BOOLEAN

CountsOK == faults \in 0..MaxFaults /\ restarts \in 0..MaxRestarts

\* The steps of submit after the send, in which it has a job in hand.
InHand == {"record", "saveQueued", "return"}

\* An id that was not drawn has left no trace, in the store, with a client, or in a
\* call; the jobs that the queue, a worker or a call has in hand were accepted by
\* this process; a call has its job to itself until it returns the ticket, and
\* nothing is final about it before it is in the map; and what gcLocked has evicted
\* is not in the map.
Traces ==
  /\ \A id \in JobIds : request[id] = NoRequest => rows[id] = Db!NoRow /\ id \notin acked
  /\ \A c \in Callers : caller[c].pc \in InHand =>
       /\ caller[c].job \in JobIds /\ caller[c].job \in born /\ caller[c].job \notin acked
       /\ request[caller[c].job] # NoRequest
  /\ \A c, d \in Callers :
       caller[c].pc \in InHand /\ caller[d].pc \in InHand /\ caller[c].job = caller[d].job => c = d
  /\ \A id \in Recording : rows[id].status \notin Finished
  /\ Known \subseteq born
  /\ \A w \in Busy : worker[w].task \in born
  /\ \A id \in victims : id \notin Recording /\ status[id] = "absent" /\ request[id] # NoRequest

RowsInv == RowsOK /\ Traces /\ StoreNeverAhead /\ NoForeignUnfinished

ServiceInv == OwnerInv /\ RowsInv /\ ServerOK /\ CountsOK

\* The store's words for kinds and statuses are those of the queue.
LEMMA SameWords ==
  /\ Db!Statuses = Statuses /\ Db!Kinds = Kinds
  /\ Db!Finished = Finished /\ Db!Unfinished = Unfinished
BY DEF Db!Statuses, Db!Kinds, Db!Finished, Db!Unfinished, Statuses, Kinds, Finished, Unfinished

LEMMA ServiceInvType == ServiceInv => ServiceTypeOK
<1> SUFFICES ASSUME ServiceInv PROVE ServiceTypeOK
  OBVIOUS
<1>1. TypeOK
  BY DEF ServiceInv, OwnerInv, TypeInv
<1>2. Db!TypeOK
  BY SameWords, QueueAssumption DEF ServiceInv, RowsInv, RowsOK, ServerOK, Rows, Db!TypeOK
<1> QED BY <1>1, <1>2 DEF ServiceInv, ServerOK, CountsOK, ServiceTypeOK
-----------------------------------------------------------------------------
(* What the store's operations do to the rows. *)

LEMMA NoRowStatus == Db!NoRow.status \notin Finished \cup Unfinished
BY DEF Db!NoRow, Finished, Unfinished

\* A save writes its row and collects finished rows.
LEMMA PutRows ==
  ASSUME RowsOK, NEW id \in JobIds, NEW kind \in Kinds, NEW st \in Statuses, NEW time \in Nat,
         Db!Put(id, kind, st, time)
  PROVE  /\ RowsOK'
         /\ \A j \in JobIds : j # id => rows'[j] \in {rows[j], Db!NoRow}
         /\ rows'[id] = Db!NoRow \/ rows'[id].status = st
         /\ \A j \in JobIds : j # id /\ rows[j].status \in Unfinished => rows'[j] = rows[j]
         /\ st \in Unfinished => rows'[id].status = st
<1> DEFINE written == [rows EXCEPT ![id] = Db!Row(st, kind, time)]
<1>1. /\ written \in [JobIds -> Rows] /\ written[id].status = st
      /\ \A j \in JobIds : j # id => written[j] = rows[j]
  BY DEF RowsOK, Rows, Db!Row
<1>2. PICK ids \in Db!Collectable(written) : rows' = Db!Without(written, ids)
  BY DEF Db!Put
<1> HIDE DEF written
<1>3. \A j \in ids : written[j].status \in Finished
  BY <1>2, SameWords DEF Db!Collectable, Db!FinishedRows
<1>4. rows' = [j \in JobIds |-> IF j \in ids THEN Db!NoRow ELSE written[j]]
  BY <1>2 DEF Db!Without
<1>5. Finished \cap Unfinished = {}
  BY DEF Finished, Unfinished
<1> QED BY <1>1, <1>3, <1>4, <1>5 DEF RowsOK, Rows

LEMMA DeleteRows ==
  ASSUME RowsOK, \/ \E id \in JobIds : Db!Delete(id)
                 \/ \E kind \in KindFilters : Db!DeleteFinished(kind)
  PROVE  RowsOK' /\ \A j \in JobIds : rows'[j] \in {rows[j], Db!NoRow}
<1>1. ASSUME NEW ids, rows' = Db!Without(rows, ids)
      PROVE  RowsOK' /\ \A j \in JobIds : rows'[j] \in {rows[j], Db!NoRow}
  BY <1>1 DEF Db!Without, RowsOK, Rows
<1>2. \E ids : rows' = Db!Without(rows, ids)
  BY DEF Db!Delete, Db!DeleteFinished
<1> QED BY <1>1, <1>2

LEMMA DeleteFinishedKeeps ==
  ASSUME RowsOK, NEW kind \in KindFilters, Db!DeleteFinished(kind)
  PROVE  \A j \in JobIds : rows[j].status \in Unfinished => rows'[j] = rows[j]
<1>1. \A j \in Db!FinishedRows(rows) : rows[j].status \notin Unfinished
  BY SameWords DEF Db!FinishedRows, Finished, Unfinished
<1>2. PICK ids \in SUBSET Db!FinishedRows(rows) : rows' = Db!Without(rows, ids)
  BY DEF Db!DeleteFinished
<1> QED BY <1>1, <1>2 DEF Db!Without, RowsOK

LEMMA OpenRows ==
  ASSUME RowsOK, NEW time \in Nat, Db!Open(time)
  PROVE  /\ RowsOK'
         /\ \A j \in JobIds : rows'[j].status \notin Unfinished
         /\ \A j \in JobIds : rows[j] = Db!NoRow => rows'[j] = Db!NoRow
<1>1. \A j \in JobIds : rows[j].status \in Unfinished =>
        /\ [status |-> "failed", kind |-> rows[j].kind, updated |-> time, interrupted |-> TRUE] \in Rows
        /\ rows[j] # Db!NoRow
  BY NoRowStatus DEF RowsOK, Rows, Unfinished, Statuses, Finished
<1>2. rows' = [id \in JobIds |->
                IF rows[id].status \in Unfinished
                  THEN [status |-> "failed", kind |-> rows[id].kind, updated |-> time, interrupted |-> TRUE]
                  ELSE rows[id]]
  BY SameWords DEF Db!Open
<1>3. "failed" \notin Unfinished
  BY DEF Unfinished
<1> QED BY <1>1, <1>2, <1>3 DEF RowsOK
-----------------------------------------------------------------------------
(* Custody of jobs, with restarts. *)

\* Every step but Restart is a step of the queue, or leaves it alone.
LEMMA StepsOfQueue ==
  ASSUME [ServiceNext]_everything, ~Restart
  PROVE  [Next]_vars
<1>1. CASE QueueOnly
  <2>1. ASSUME NEW c \in Callers, Submit(c) \/ Reject(c) \/ \E kind \in Filters : Clear(c, kind) PROVE Next
    BY <2>1 DEF Next, CallStep, CallBegin
  <2>2. ASSUME NEW w \in Workers, Receive(w) \/ Start(w) \/ Finish(w) \/ Signal(w) PROVE Next
    BY <2>2 DEF Next, WorkerStep
  <2> QED BY <1>1, <2>1, <2>2 DEF QueueOnly
<1>2. ASSUME NEW c \in Callers, ServiceRecord(c) \/ Persist(c) \/ ServiceReturn(c) PROVE Next
  BY <1>2 DEF ServiceRecord, Persist, ServiceReturn, Next, CallStep
<1>3. ASSUME NEW c \in Callers, NEW id \in JobIds, NEW r \in Requests, ServiceSend(c, id, r) PROVE Next
  BY <1>3 DEF ServiceSend, Next, CallStep
<1>4. ASSUME NEW w \in Workers, PersistStatus(w) \/ InstallPersist(w) PROVE Next
  BY <1>4 DEF PersistStatus, InstallPersist, Next, WorkerStep
<1>5. ASSUME NEW w \in Workers, NEW outcome \in Finished, ServiceProcess(w, outcome) PROVE Next
  BY <1>5 DEF ServiceProcess, Next, WorkerStep
<1>6. ASSUME NEW w \in Workers, InstallMemory(w) \/ InstallClearDocument(w) PROVE UNCHANGED vars
  BY <1>6 DEF InstallMemory, InstallClearDocument
<1>7. ASSUME NEW a \in Admins, DeleteSchema(a) \/ DeleteSchemaRows(a) PROVE UNCHANGED vars
  BY <1>7 DEF DeleteSchema, DeleteSchemaRows
<1> QED BY <1>1, <1>2, <1>3, <1>4, <1>5, <1>6, <1>7 DEF ServiceNext, everything

\* A process that has just started has no job at all.
LEMMA OwnerRestart ==
  ASSUME OwnerInv, Restart
  PROVE  OwnerInv'
<1>1. /\ TypeInv
      /\ status' = [id \in JobIds |-> "absent"] /\ tasks' = <<>> /\ signalled' = {}
      /\ worker' = [w \in Workers |-> Ready] /\ request' = request
  BY DEF OwnerInv, Restart, Drop, TypeInv, TypeOK
<1>2. TypeOK'
  <2>1. /\ Ready \in WorkerStates /\ Idle \in CallStates
    BY DEF Ready, Idle, WorkerStates, CallStates, KindFilters
  <2>2. worker' \in [Workers -> WorkerStates] /\ caller' \in [Callers -> CallStates]
    BY <1>1, <2>1 DEF Restart
  <2>3. clock' \in Nat /\ updated' = updated /\ closed' = FALSE /\ victims' = {}
    BY <1>1 DEF Restart, TypeInv, TypeOK
  <2>4. status' \in [JobIds -> Statuses \cup {"absent"}] /\ tasks' \in Seq(JobIds)
    BY <1>1
  <2> QED BY <1>1, <2>2, <2>3, <2>4 DEF TypeInv, TypeOK
<1>3. Busy' = {} /\ Working' = {} /\ InChannel' = {}
  BY <1>1 DEF Busy, Working, InChannel, Ready
<1>4. WorkerOK'
  BY <1>1 DEF WorkerOK, Ready
<1>5. OneOwner'
  <2>1. {id \in JobIds : status'[id] \in Unfinished} = {}
    BY <1>1 DEF Unfinished
  <2> QED BY <1>1, <1>3, <2>1 DEF OneOwner
<1>6. StatusFollowsOwner' /\ SignalledIsSettled' /\ IssuedOnly'
  BY <1>1, <1>3 DEF StatusFollowsOwner, SignalledIsSettled, IssuedOnly
<1>7. HoldersOK'
  BY DEF Restart, Idle, HoldersOK, MuExclusive, RecordOK, Holding
<1> QED BY <1>2, <1>4, <1>5, <1>6, <1>7 DEF OwnerInv, TypeInv

LEMMA ServiceOwner ==
  ASSUME OwnerInv, [ServiceNext]_everything
  PROVE  OwnerInv'
BY OwnerRestart, StepsOfQueue, OwnerStep

\* What a worker has begun is in the map, or was.
LEMMA BegunIsRecorded ==
  ASSUME OwnerInv, NEW w \in Busy, worker[w].pc # "start"
  PROVE  worker[w].task \notin Recording
BY DEF OwnerInv, HoldersOK, RecordOK, OneOwner, Recording, Busy
-----------------------------------------------------------------------------
(* The steps of the queue that do not concern the store. *)

\* What they do to the map: a status that changes is that of a dropped job, or of
\* one that was unfinished.
LEMMA QueueOnlyStatus ==
  ASSUME OwnerInv, QueueOnly
  PROVE  /\ UNCHANGED <<request, service>> /\ Known' \subseteq Known
         /\ \A id \in Known' : status'[id] = status[id] \/ status[id] \in Unfinished
         /\ \A id \in JobIds : status'[id] \in Unfinished => status[id] \in Unfinished
<1>0. /\ status \in [JobIds -> Statuses \cup {"absent"}] /\ worker \in [Workers -> WorkerStates]
      /\ WorkerOK /\ StatusFollowsOwner
  BY DEF OwnerInv, TypeInv, TypeOK
<1>1. UNCHANGED <<request, service>>
  BY DEF QueueOnly, Submit, Reject, Clear, Receive, Start, Finish, Signal, shared
<1>2. ASSUME NEW ids, Drop(ids)
      PROVE  Known' \subseteq Known /\ \A id \in JobIds : status'[id] \in {status[id], "absent"}
  BY <1>0, <1>2 DEF Drop, Known
<1>3. ASSUME NEW c \in Callers, Submit(c) \/ Reject(c) \/ \E kind \in Filters : Clear(c, kind)
      PROVE  Known' \subseteq Known /\ \A id \in JobIds : status'[id] \in {status[id], "absent"}
  BY <1>2, <1>3 DEF Submit, Reject, Clear, shared, Known
<1>4. ASSUME NEW w \in Workers, NEW st \in Statuses, worker[w].task \in Known,
             status' = [status EXCEPT ![worker[w].task] = st]
      PROVE  /\ Known' = Known
             /\ \A id \in JobIds : id # worker[w].task => status'[id] = status[id]
  BY <1>0, <1>4 DEF Known, Statuses, Finished, Unfinished
<1>5. ASSUME NEW w \in Workers, worker[w].pc \in {"start", "finish"}, worker[w].task \in Known
      PROVE  status[worker[w].task] \in Unfinished
  BY <1>0, <1>5 DEF StatusFollowsOwner, NotBegun, Busy, Known, Unfinished
<1>6. ASSUME NEW w \in Workers, Receive(w) \/ Start(w) \/ Finish(w) \/ Signal(w)
      PROVE  \/ UNCHANGED status
             \/ /\ Known' = Known /\ worker[w].task \in Known
                /\ status[worker[w].task] \in Unfinished
                /\ \A id \in JobIds : id # worker[w].task => status'[id] = status[id]
  <2>1. CASE Receive(w) \/ Signal(w)
    BY <2>1 DEF Receive, Signal
  <2>2. CASE Start(w)
    BY <1>4, <1>5, <2>2 DEF Start, Statuses, Unfinished
  <2>3. CASE Finish(w)
    <3>1. worker[w].outcome \in Statuses
      BY <1>0, <2>3 DEF Finish, WorkerOK, Statuses
    <3> QED BY <1>4, <1>5, <2>3, <3>1 DEF Finish
  <2> QED BY <1>6, <2>1, <2>2, <2>3
<1>7. "absent" \notin Unfinished /\ \A id \in Known' : id \in JobIds /\ status'[id] # "absent"
  BY DEF Unfinished, Known
<1>8. CASE \E c \in Callers : Submit(c) \/ Reject(c) \/ \E kind \in Filters : Clear(c, kind)
  <2>1. Known' \subseteq Known /\ \A id \in JobIds : status'[id] \in {status[id], "absent"}
    BY <1>3, <1>8
  <2> QED BY <1>1, <1>7, <2>1
<1>9. CASE \E w \in Workers : Receive(w) \/ Start(w) \/ Finish(w) \/ Signal(w)
  <2>1. CASE UNCHANGED status
    BY <1>1, <2>1 DEF Known
  <2>2. CASE ~UNCHANGED status
    BY <1>1, <1>6, <1>7, <1>9, <2>2
  <2> QED BY <2>1, <2>2
<1> QED BY <1>8, <1>9 DEF QueueOnly

\* And to what is in hand.
LEMMA QueueOnlyHands ==
  ASSUME OwnerInv, Traces, QueueOnly
  PROVE  /\ \A c \in Callers : caller'[c].pc \in InHand => caller'[c] = caller[c]
         /\ \A w \in Busy' : worker'[w].task \in born
         /\ \A id \in victims' : id \notin Recording /\ status'[id] = "absent" /\ request[id] # NoRequest
<1>0. /\ caller \in [Callers -> CallStates] /\ worker \in [Workers -> WorkerStates]
      /\ status \in [JobIds -> Statuses \cup {"absent"}] /\ victims \subseteq JobIds
      /\ tasks \in Seq(JobIds)
  BY DEF OwnerInv, TypeInv, TypeOK
<1>1. \A c \in Callers : caller'[c].pc \in InHand => caller'[c] = caller[c]
  <2>1. ASSUME NEW c \in Callers, Submit(c) \/ Reject(c) \/ \E kind \in Filters : Clear(c, kind)
        PROVE  /\ \A d \in Callers : d # c => caller'[d] = caller[d]
               /\ caller'[c].pc \notin InHand
    <3>1. ASSUME NEW s, caller' = [caller EXCEPT ![c] = s], s.pc \notin InHand
          PROVE  /\ \A d \in Callers : d # c => caller'[d] = caller[d]
                 /\ caller'[c].pc \notin InHand
      BY <1>0, <3>1
    <3>2. CASE Submit(c)
      <4>1. ASSUME NEW pc \in {"send", "evict"} PROVE [caller[c] EXCEPT !.pc = pc].pc = pc
        BY <1>0 DEF CallStates
      <4> QED BY <3>1, <3>2, <4>1 DEF Submit, InHand
    <3>3. CASE Reject(c)
      BY <3>1, <3>3 DEF Reject, Idle, InHand
    <3>4. ASSUME NEW kind \in Filters, Clear(c, kind)
          PROVE  /\ \A d \in Callers : d # c => caller'[d] = caller[d]
                 /\ caller'[c].pc \notin InHand
      <4>1. [caller[c] EXCEPT !.pc = "clearRows", !.kind = kind].pc = "clearRows"
        BY <1>0 DEF CallStates
      <4> QED BY <3>1, <3>4, <4>1 DEF Clear, InHand
    <3> QED BY <2>1, <3>2, <3>3, <3>4
  <2>2. ASSUME NEW w \in Workers, Receive(w) \/ Start(w) \/ Finish(w) \/ Signal(w)
        PROVE  UNCHANGED caller
    BY <2>2 DEF Receive, Start, Finish, Signal
  <2> QED BY <2>1, <2>2 DEF QueueOnly
<1>2. \A w \in Busy' : worker'[w].task \in born
  <2>1. ASSUME NEW c \in Callers, Submit(c) \/ Reject(c) \/ \E kind \in Filters : Clear(c, kind)
        PROVE  UNCHANGED worker
    BY <2>1 DEF Submit, Reject, Clear
  <2>2. ASSUME NEW w \in Workers, Start(w) \/ Finish(w) \/ Signal(w)
        PROVE  \A v \in Busy' : v \in Busy /\ worker'[v].task = worker[v].task
    <3>1. ASSUME w \in Busy, \/ \E pc \in {"saveRunning", "process", "saveFinal"} : Goto(w, pc)
                             \/ worker' = [worker EXCEPT ![w] = Ready]
          PROVE  \A v \in Busy' : v \in Busy /\ worker'[v].task = worker[v].task
      BY <1>0, <3>1 DEF Goto, Busy, Ready, WorkerStates
    <3>2. w \in Busy
      BY <2>2 DEF Start, Finish, Signal, Busy
    <3> QED BY <2>2, <3>1, <3>2 DEF Start, Finish, Signal
  <2>3. ASSUME NEW w \in Workers, Receive(w)
        PROVE  \A v \in Busy' : worker'[v].task \in born
    <3>1. Head(tasks) \in InChannel
      BY <1>0, <2>3 DEF Receive, InChannel
    <3>2. Head(tasks) \in Known \cup Recording
      BY <3>1 DEF OwnerInv, OneOwner, Known, Unfinished
    <3>4. Recording \subseteq born
      BY DEF Traces, Recording, InHand
    <3>3. \A v \in Busy' : (v \in Busy /\ worker'[v] = worker[v]) \/ worker'[v].task = Head(tasks)
      BY <1>0, <2>3 DEF Receive, Busy
    <3> QED BY <3>2, <3>3, <3>4 DEF Traces
  <2> QED BY <2>1, <2>2, <2>3 DEF QueueOnly, Traces, Busy
<1>3. \A id \in victims' : id \notin Recording /\ status'[id] = "absent" /\ request[id] # NoRequest
  <2>1. ASSUME NEW c \in Callers, Submit(c)
        PROVE  \A id \in victims' : id \notin Recording /\ status'[id] = "absent" /\ request[id] # NoRequest
    <3>1. victims' \subseteq FinishedJobs
      BY <2>1 DEF Submit, Oldest
    <3>2. \A id \in FinishedJobs : request[id] # NoRequest
      BY DEF OwnerInv, IssuedOnly, FinishedJobs, Finished
    <3>3. Recording = {}
      BY <2>1 DEF Submit, MuFree, Recording
    <3> QED BY <2>1, <3>1, <3>2, <3>3 DEF Submit, Drop, FinishedJobs
  <2>2. CASE UNCHANGED victims
    BY <1>0, <2>2, QueueOnlyStatus DEF Traces, Known
  <2> QED BY <2>1, <2>2 DEF QueueOnly, Reject, Clear, Receive, Start, Finish, Signal, shared
<1> QED BY <1>1, <1>2, <1>3

LEMMA QueueOnlyKeeps ==
  ASSUME OwnerInv, RowsInv, QueueOnly
  PROVE  RowsInv'
<1>1. UNCHANGED <<request, rows, acked, born>> /\ Known' \subseteq Known
  BY QueueOnlyStatus DEF service, disk, history
<1>2. StoreNeverAhead'
  <2>1. \A id \in Known' : rows[id].status \in Finished => status'[id] = status[id]
    <3>1. Finished \cap Unfinished = {}
      BY DEF Finished, Unfinished
    <3> QED BY <1>1, <3>1, QueueOnlyStatus DEF RowsInv, StoreNeverAhead
  <2> QED BY <1>1, <2>1 DEF RowsInv, StoreNeverAhead
<1>3. Traces'
  <2>1. \A c \in Callers : caller'[c].pc \in InHand => caller'[c] = caller[c]
    BY QueueOnlyHands DEF RowsInv
  <2>2. Recording' \subseteq Recording
    BY <2>1 DEF Recording, InHand
  <2> QED BY <1>1, <2>1, <2>2, QueueOnlyHands DEF RowsInv, Traces
<1> QED BY <1>1, <1>2, <1>3 DEF RowsInv, RowsOK, NoForeignUnfinished
-----------------------------------------------------------------------------
(* The steps that write to the store. *)

\* What is in hand stays, or leaves.
HandsKept ==
  /\ \A c \in Callers : caller'[c].pc \in InHand =>
       /\ caller[c].pc \in InHand /\ caller'[c].job = caller[c].job
       /\ caller'[c].pc = "record" => caller[c].pc = "record"
       /\ caller[c].job \in acked' => caller[c].job \in acked
  /\ \A w \in Busy' : w \in Busy /\ worker'[w].task = worker[w].task
  /\ victims' \subseteq victims

\* A row goes, or it is that of a job of this process and says unfinished, or what
\* the queue says if that still knows the job.
RowMayBe(id) ==
  \/ rows'[id] \in {rows[id], Db!NoRow}
  \/ /\ id \in born /\ request[id] # NoRequest
     /\ \/ rows'[id].status \in Unfinished
        \/ id \notin Recording /\ status[id] \in {rows'[id].status, "absent"}

LEMMA WriteKeeps ==
  ASSUME RowsInv, RowsOK', UNCHANGED <<status, request, born>>, HandsKept,
         \A id \in JobIds : RowMayBe(id),
         \A id \in acked' : id \in acked \/ request[id] # NoRequest
  PROVE  RowsInv'
<1>0. RowsOK /\ Traces /\ StoreNeverAhead /\ NoForeignUnfinished
  BY DEF RowsInv
<1>1. Db!NoRow.status \notin Finished /\ Db!NoRow.status \notin Unfinished
  BY NoRowStatus
<1>2. Finished \cap Unfinished = {}
  BY DEF Finished, Unfinished
<1>3. NoForeignUnfinished'
  BY <1>0, <1>1 DEF NoForeignUnfinished, RowMayBe
<1>4. StoreNeverAhead'
  BY <1>0, <1>1, <1>2 DEF StoreNeverAhead, RowMayBe, Known
<1>5. Traces'
  <2>0. Recording' \subseteq Recording /\ Recording \subseteq JobIds
    BY <1>0 DEF Recording, HandsKept, InHand, Traces
  <2>1. \A id \in JobIds : request[id] = NoRequest => rows'[id] = Db!NoRow /\ id \notin acked'
    BY <1>0 DEF Traces, RowMayBe
  <2>2. /\ \A c \in Callers : caller'[c].pc \in InHand =>
             /\ caller'[c].job \in JobIds /\ caller'[c].job \in born /\ caller'[c].job \notin acked'
             /\ request[caller'[c].job] # NoRequest
        /\ \A c, d \in Callers :
             caller'[c].pc \in InHand /\ caller'[d].pc \in InHand /\ caller'[c].job = caller'[d].job => c = d
    BY <1>0 DEF Traces, HandsKept
  <2>6. \A id \in Recording' : rows'[id].status \notin Finished
    BY <1>0, <1>1, <1>2, <2>0 DEF RowMayBe, Traces
  <2>3. Known' = Known
    BY DEF Known
  <2>4. \A w \in Busy' : worker'[w].task \in born
    BY <1>0 DEF Traces, HandsKept
  <2>5. \A id \in victims' : id \notin Recording' /\ status[id] = "absent" /\ request[id] # NoRequest
    BY <1>0, <2>0 DEF Traces, HandsKept
  <2> QED BY <1>0, <2>1, <2>2, <2>3, <2>4, <2>5, <2>6 DEF Traces
<1> QED BY <1>3, <1>4, <1>5 DEF RowsInv

LEMMA SaveKeeps ==
  ASSUME RowsInv, NEW id \in JobIds, NEW st \in Statuses, NEW time \in Nat, Save(id, st, time),
         id \in born, request[id] # NoRequest, st \in Unfinished \/ (id \notin Recording /\ status[id] \in {st, "absent"}),
         UNCHANGED <<status, request, born, acked>>, HandsKept
  PROVE  RowsInv'
<1>0. RowsOK
  BY DEF RowsInv
<1>1. CASE Db!Put(id, Kind(id), st, time)
  <2>1. Kind(id) \in Kinds
    BY DEF Kind, JobKind, Kinds
  <2>2. /\ RowsOK'
        /\ \A j \in JobIds : j # id => rows'[j] \in {rows[j], Db!NoRow}
        /\ rows'[id] = Db!NoRow \/ rows'[id].status = st
    BY <1>0, <1>1, <2>1, PutRows
  <2>3. \A j \in JobIds : RowMayBe(j)
    BY <2>2 DEF RowMayBe
  <2> QED BY <2>2, <2>3, WriteKeeps
<1>2. CASE UNCHANGED disk
  <2>1. UNCHANGED rows
    BY <1>2 DEF disk
  <2> QED BY <1>0, <2>1, WriteKeeps DEF RowMayBe, RowsOK
<1> QED BY <1>1, <1>2 DEF Save, Write

\* The rows stay, whatever becomes of the rest of the store.
LEMMA RowsStay ==
  ASSUME RowsInv, UNCHANGED <<rows, status, request, born>>, HandsKept,
         \A id \in acked' : id \in acked \/ request[id] # NoRequest
  PROVE  RowsInv'
BY WriteKeeps DEF RowsInv, RowMayBe, RowsOK
-----------------------------------------------------------------------------
(* Every step keeps what the rows say. *)

LEMMA SendKeepsRows ==
  ASSUME OwnerInv, RowsInv, NEW c \in Callers, NEW id \in JobIds, NEW r \in Requests,
         ServiceSend(c, id, r)
  PROVE  RowsInv'
<1>0. /\ caller \in [Callers -> CallStates] /\ request \in [JobIds -> RequestTypes \cup {NoRequest}]
      /\ RowsOK /\ Traces /\ StoreNeverAhead /\ NoForeignUnfinished
  BY DEF OwnerInv, TypeInv, TypeOK, RowsInv
<1>1. /\ request[id] = NoRequest /\ r # NoRequest /\ request' = [request EXCEPT ![id] = r]
      /\ caller' = [caller EXCEPT ![c].pc = "record", ![c].job = id]
      /\ born' = born \cup {id} /\ UNCHANGED <<rows, acked, worker, victims, status>>
  BY QueueAssumption DEF ServiceSend, Send, disk, RequestTypes, NoRequest
<1>2. rows[id] = Db!NoRow /\ id \notin acked
  BY <1>0, <1>1 DEF Traces
<1>3. /\ caller'[c].job = id /\ caller'[c].pc = "record"
      /\ \A d \in Callers : d # c => caller'[d] = caller[d]
  BY <1>0, <1>1 DEF CallStates
<1>4. StoreNeverAhead' /\ NoForeignUnfinished'
  BY <1>0, <1>1 DEF StoreNeverAhead, NoForeignUnfinished, Known
<1>5. Traces'
  <2>1. \A j \in JobIds : request'[j] = NoRequest => rows'[j] = Db!NoRow /\ j \notin acked'
    BY <1>0, <1>1 DEF Traces
  <2>2. \A d \in Callers : caller'[d].pc \in InHand =>
          /\ caller'[d].job \in JobIds /\ caller'[d].job \in born' /\ caller'[d].job \notin acked'
          /\ request'[caller'[d].job] # NoRequest
    BY <1>0, <1>1, <1>2, <1>3 DEF Traces
  <2>3. \A d, e \in Callers :
          caller'[d].pc \in InHand /\ caller'[e].pc \in InHand /\ caller'[d].job = caller'[e].job => d = e
    <3>1. \A d \in Callers : d # c /\ caller'[d].pc \in InHand => caller'[d].job # id
      BY <1>0, <1>1, <1>3 DEF Traces
    <3> QED BY <1>0, <1>3, <3>1 DEF Traces
  <2>4. \A j \in Recording' : rows'[j].status \notin Finished
    <3>1. Recording' \subseteq Recording \cup {id}
      BY <1>3 DEF Recording
    <3> QED BY <1>0, <1>1, <1>2, <3>1, NoRowStatus DEF Traces
  <2>5. Known' \subseteq born' /\ \A w \in Busy' : worker'[w].task \in born'
    BY <1>0, <1>1 DEF Traces, Known, Busy
  <2>6. \A j \in victims' : j \notin Recording' /\ status'[j] = "absent" /\ request'[j] # NoRequest
    <3>1. victims \subseteq JobIds /\ Recording' \subseteq Recording \cup {id}
      BY <1>3 DEF OwnerInv, TypeInv, TypeOK, Recording
    <3> QED BY <1>0, <1>1, <3>1 DEF Traces
  <2> QED BY <2>1, <2>2, <2>3, <2>4, <2>5, <2>6 DEF Traces
<1> QED BY <1>0, <1>1, <1>4, <1>5 DEF RowsInv, RowsOK

\* The job that enters the map was in no one's way.
LEMMA RecordedJob ==
  ASSUME OwnerInv, Traces, NEW c \in Callers, ServiceRecord(c)
  PROVE  LET id == caller[c].job IN
         /\ id \in JobIds /\ id \in Recording /\ id \in born /\ status[id] = "absent"
         /\ status' = [status EXCEPT ![id] = "queued"]
         /\ caller'[c].pc = "saveQueued" /\ caller'[c].job = id
         /\ \A d \in Callers : d # c => caller'[d] = caller[d]
         /\ UNCHANGED <<request, victims, worker, service>>
<1> DEFINE id == caller[c].job
<1>1. /\ caller[c].pc = "record" /\ caller \in [Callers -> CallStates]
      /\ status' = [status EXCEPT ![id] = "queued"]
      /\ caller' = [caller EXCEPT ![c].pc = "saveQueued"]
      /\ UNCHANGED <<request, victims, worker, service>>
  BY DEF ServiceRecord, Record, OwnerInv, TypeInv, TypeOK
<1>2. id \in JobIds /\ id \in Recording /\ id \in born
  BY <1>1 DEF Traces, InHand, Recording
<1>3. \/ id \in InChannel
      \/ \E w \in Workers : worker[w].pc = "start" /\ worker[w].task = id
  BY <1>1 DEF OwnerInv, HoldersOK, RecordOK
<1>4. status[id] = "absent"
  BY <1>2, <1>3 DEF OwnerInv, StatusFollowsOwner, NotBegun, Busy
<1>5. /\ caller'[c].pc = "saveQueued" /\ caller'[c].job = id
      /\ \A d \in Callers : d # c => caller'[d] = caller[d]
  BY <1>1 DEF CallStates
<1> QED BY <1>1, <1>2, <1>4, <1>5

LEMMA RecordKeepsRows ==
  ASSUME OwnerInv, RowsInv, NEW c \in Callers, ServiceRecord(c)
  PROVE  RowsInv'
<1> DEFINE id == caller[c].job
<1>0. /\ status \in [JobIds -> Statuses \cup {"absent"}] /\ victims \subseteq JobIds
      /\ RowsOK /\ Traces /\ StoreNeverAhead /\ NoForeignUnfinished
  BY DEF OwnerInv, TypeInv, TypeOK, RowsInv
<1>1. /\ id \in JobIds /\ id \in Recording /\ id \in born /\ status[id] = "absent"
      /\ status' = [status EXCEPT ![id] = "queued"]
      /\ caller'[c].pc = "saveQueued" /\ caller'[c].job = id
      /\ \A d \in Callers : d # c => caller'[d] = caller[d]
      /\ UNCHANGED <<request, victims, worker, rows, acked, born>>
  BY <1>0, RecordedJob DEF service, disk, history
<1> HIDE DEF id
<1>2. caller[c].pc \in InHand /\ caller[c].job = id
  BY DEF ServiceRecord, Record, InHand, id
<1>3. Known' = Known \cup {id}
  BY <1>0, <1>1 DEF Known
<1>4. StoreNeverAhead'
  <2>1. rows[id].status \notin Finished /\ \A j \in JobIds : j # id => status'[j] = status[j]
    BY <1>0, <1>1 DEF Traces
  <2> QED BY <1>0, <1>1, <1>3, <2>1 DEF StoreNeverAhead, Known
<1>5. Traces'
  <2>1. /\ Known' \subseteq born' /\ \A w \in Busy' : worker'[w].task \in born'
    BY <1>0, <1>1, <1>3 DEF Traces, Busy
  <2>2. Recording' \subseteq Recording
    BY <1>1, <1>2 DEF Recording
  <2>3. \A j \in victims' : j \notin Recording' /\ status'[j] = "absent" /\ request'[j] # NoRequest
    BY <1>0, <1>1, <2>2 DEF Traces
  <2>4. \A d \in Callers : caller'[d].pc \in InHand => caller[d].pc \in InHand /\ caller'[d].job = caller[d].job
    BY <1>1, <1>2
  <2> QED BY <1>0, <1>1, <2>1, <2>2, <2>3, <2>4 DEF Traces
<1> QED BY <1>0, <1>1, <1>4, <1>5 DEF RowsInv, RowsOK, NoForeignUnfinished

LEMMA PersistKeepsRows ==
  ASSUME OwnerInv, RowsInv, NEW c \in Callers, Persist(c)
  PROVE  RowsInv'
<1>0. /\ caller \in [Callers -> CallStates] /\ Traces /\ RowsOK
      /\ UNCHANGED <<born, acked>>
  BY DEF OwnerInv, TypeInv, TypeOK, RowsInv, Persist, history
<1>1. CASE SaveQueued(c) /\ Save(caller[c].job, "queued", 0)
  <2>1. UNCHANGED <<status, request>> /\ HandsKept
    BY <1>0, <1>1 DEF SaveQueued, shared, HandsKept, InHand, CallStates, Busy
  <2>2. /\ caller[c].job \in JobIds /\ caller[c].job \in born
        /\ request[caller[c].job] # NoRequest
    BY <1>0, <1>1 DEF SaveQueued, Traces, InHand
  <2>3. "queued" \in Statuses /\ "queued" \in Unfinished
    BY DEF Statuses, Unfinished
  <2> QED BY <1>0, <1>1, <2>1, <2>2, <2>3, SaveKeeps
<1>2. ASSUME UNCHANGED <<status, request>>, HandsKept,
             Write(\E id \in JobIds : Db!Delete(id)) \/ Write(\E kind \in KindFilters : Db!DeleteFinished(kind))
      PROVE  RowsInv'
  <2>1. RowsOK' /\ \A j \in JobIds : rows'[j] \in {rows[j], Db!NoRow}
    <3>1. CASE UNCHANGED disk
      BY <1>0, <3>1 DEF disk, RowsOK
    <3> QED BY <1>0, <1>2, <3>1, DeleteRows DEF Write
  <2> QED BY <1>0, <1>2, <2>1, WriteKeeps DEF RowMayBe
<1>3. CASE ClearRows(c) /\ Write(Db!DeleteFinished(caller[c].kind))
  <2>1. UNCHANGED <<status, request>> /\ HandsKept
    BY <1>0, <1>3 DEF ClearRows, shared, HandsKept, InHand, Busy, Idle
  <2>2. caller[c].kind \in KindFilters
    BY <1>0 DEF CallStates
  <2> QED BY <1>2, <1>3, <2>1, <2>2 DEF Write
<1>4. ASSUME NEW id \in JobIds, EvictRow(c, id), Write(Db!Delete(id))
      PROVE  RowsInv'
  <2>1. UNCHANGED <<status, request>> /\ HandsKept
    BY <1>0, <1>4 DEF EvictRow, HandsKept, InHand, Busy, CallStates
  <2> QED BY <1>2, <1>4, <2>1 DEF Write
<1> QED BY <1>1, <1>3, <1>4 DEF Persist

LEMMA StatusKeepsRows ==
  ASSUME OwnerInv, RowsInv, NEW w \in Workers, PersistStatus(w)
  PROVE  RowsInv'
<1>0. /\ worker \in [Workers -> WorkerStates] /\ updated \in [JobIds -> Nat]
      /\ WorkerOK /\ StatusFollowsOwner /\ Traces
      /\ UNCHANGED <<born, acked>>
  BY DEF OwnerInv, TypeInv, TypeOK, RowsInv, PersistStatus, history
<1>1. UNCHANGED <<status, request>> /\ HandsKept
  BY <1>0 DEF PersistStatus, SaveRunning, SaveFinal, Goto, shared, HandsKept, Busy, WorkerStates
<1>2. w \in Busy /\ worker[w].task \in JobIds
  BY <1>0 DEF PersistStatus, SaveRunning, SaveFinal, Busy, WorkerOK
<1>3. worker[w].task \in born /\ request[worker[w].task] # NoRequest
  BY <1>0, <1>2 DEF Traces, OwnerInv, IssuedOnly
<1>4. CASE SaveRunning(w) /\ Save(worker[w].task, "running", 0)
  <2>1. "running" \in Statuses /\ "running" \in Unfinished
    BY DEF Statuses, Unfinished
  <2> QED BY <1>0, <1>1, <1>2, <1>3, <1>4, <2>1, SaveKeeps
<1>5. CASE /\ SaveFinal(w)
           /\ Save(worker[w].task, worker[w].outcome, updated[worker[w].task])
  <2>1. worker[w].outcome \in Statuses /\ updated[worker[w].task] \in Nat
    BY <1>0, <1>2, <1>5 DEF SaveFinal, WorkerOK, Statuses
  <2>2. /\ status[worker[w].task] \in {worker[w].outcome, "absent"}
        /\ worker[w].task \notin Recording
    BY <1>0, <1>2, <1>5, BegunIsRecorded DEF SaveFinal, StatusFollowsOwner
  <2> QED BY <1>0, <1>1, <1>2, <1>3, <1>5, <2>1, <2>2, SaveKeeps
<1> QED BY <1>4, <1>5 DEF PersistStatus

LEMMA OthersKeepRows ==
  ASSUME OwnerInv, RowsInv,
         \/ \E c \in Callers : ServiceReturn(c)
         \/ \E w \in Workers :
              \/ \E outcome \in Finished : ServiceProcess(w, outcome)
              \/ InstallMemory(w) \/ InstallClearDocument(w) \/ InstallPersist(w)
         \/ \E a \in Admins : DeleteSchema(a) \/ DeleteSchemaRows(a)
  PROVE  RowsInv'
<1>0. /\ worker \in [Workers -> WorkerStates] /\ caller \in [Callers -> CallStates]
      /\ Traces
  BY DEF OwnerInv, TypeInv, TypeOK, RowsInv
<1>1. ASSUME NEW c \in Callers, ServiceReturn(c) PROVE RowsInv'
  <2>1. UNCHANGED <<rows, status, request, born>> /\ HandsKept
    <3>1. /\ caller[c].pc \in InHand /\ acked' = acked \cup {caller[c].job}
          /\ \A d \in Callers : d # c => caller'[d] = caller[d]
          /\ caller'[c].pc \notin InHand /\ UNCHANGED <<rows, status, request, born, worker, victims>>
      BY <1>0, <1>1 DEF ServiceReturn, Return, shared, disk, InHand, Idle
    <3> QED BY <1>0, <3>1 DEF HandsKept, Traces, Busy
  <2>2. \A id \in acked' : id \in acked \/ request[id] # NoRequest
    BY <1>0, <1>1 DEF ServiceReturn, Return, Traces, InHand
  <2> QED BY <2>1, <2>2, RowsStay
<1>2. ASSUME NEW w \in Workers, NEW outcome \in Finished, ServiceProcess(w, outcome) PROVE RowsInv'
  <2>1. UNCHANGED <<rows, status, request, born, acked>> /\ HandsKept
    BY <1>0, <1>2 DEF ServiceProcess, Process, shared, disk, history, HandsKept, Busy, WorkerStates
  <2> QED BY <2>1, RowsStay
<1>3. ASSUME NEW w \in Workers, InstallPersist(w) PROVE RowsInv'
  <2>1. UNCHANGED rows
    BY <1>3 DEF InstallPersist, Write, Db!SetSchema, Db!SetDocument, disk
  <2>2. UNCHANGED <<status, request, born, acked>> /\ HandsKept
    BY <1>0, <1>3 DEF InstallPersist, Callback, Goto, shared, history, HandsKept, Busy, WorkerStates
  <2> QED BY <2>1, <2>2, RowsStay
<1>4. ASSUME UNCHANGED <<vars, acked, born, rows>> PROVE RowsInv'
  BY <1>4, RowsStay DEF vars, shared, HandsKept, Busy
<1>5. ASSUME NEW w \in Workers, InstallMemory(w) \/ InstallClearDocument(w) PROVE RowsInv'
  BY <1>4, <1>5 DEF InstallMemory, InstallClearDocument, Write, Db!ClearDocument, disk, history
<1>6. ASSUME NEW a \in Admins, DeleteSchema(a) \/ DeleteSchemaRows(a) PROVE RowsInv'
  BY <1>4, <1>6 DEF DeleteSchema, DeleteSchemaRows, Write, Db!ClearDocument, Db!ClearSchema, disk, history
<1> QED BY <1>1, <1>2, <1>3, <1>5, <1>6

\* A new process finds no row that says unfinished, and knows no job.
LEMMA RestartKeepsRows ==
  ASSUME OwnerInv, RowsInv, Restart
  PROVE  RowsInv'
<1>0. RowsOK /\ Traces /\ clock + 1 \in Nat /\ status \in [JobIds -> Statuses \cup {"absent"}]
  BY DEF OwnerInv, TypeInv, TypeOK, RowsInv
<1>1. /\ RowsOK'
      /\ \A j \in JobIds : rows'[j].status \notin Unfinished
      /\ \A j \in JobIds : rows[j] = Db!NoRow => rows'[j] = Db!NoRow
  BY <1>0, OpenRows DEF Restart
<1>2. /\ status' = [id \in JobIds |-> "absent"] /\ UNCHANGED <<request, acked>>
      /\ worker' = [w \in Workers |-> Ready] /\ caller' = [c \in Callers |-> Idle]
      /\ victims' = {} /\ born' = {}
  BY <1>0 DEF Restart, Drop
<1>3. Known' = {} /\ Busy' = {} /\ Recording' = {}
  BY <1>2 DEF Known, Busy, Ready, Recording, Idle
<1>4. Traces'
  BY <1>0, <1>1, <1>2, <1>3 DEF Traces, Idle, InHand
<1> QED BY <1>1, <1>3, <1>4 DEF RowsInv, StoreNeverAhead, NoForeignUnfinished

LEMMA RowsStep ==
  ASSUME OwnerInv, RowsInv, [ServiceNext]_everything
  PROVE  RowsInv'
<1>1. CASE UNCHANGED everything
  BY <1>1, RowsStay DEF everything, vars, shared, service, disk, history, HandsKept, Busy
<1>2. CASE ServiceNext
  BY <1>2, QueueOnlyKeeps, SendKeepsRows, RecordKeepsRows, PersistKeepsRows, StatusKeepsRows, OthersKeepRows,
     RestartKeepsRows DEF ServiceNext
<1> QED BY <1>1, <1>2
-----------------------------------------------------------------------------
(* The document, the schema and the handlers. *)

\* The part of ServerOK about the one-row tables.
TablesOK == document \in JobIds \cup {NoJob} /\ schema \in JobIds \cup {NoJob}

LEMMA TablesStep ==
  ASSUME OwnerInv, ServerOK, [ServiceNext]_everything
  PROVE  TablesOK'
<1>0. WorkerOK /\ TablesOK
  BY DEF OwnerInv, TypeInv, ServerOK, TablesOK
<1>1. ASSUME NEW id \in JobIds \cup {NoJob},
             Db!SetDocument(id) \/ Db!SetSchema(id) \/ Db!ClearDocument \/ Db!ClearSchema
      PROVE  TablesOK'
  BY <1>0, <1>1 DEF TablesOK, Db!SetDocument, Db!SetSchema, Db!ClearDocument, Db!ClearSchema
<1>2. ASSUME UNCHANGED <<document, schema>> PROVE TablesOK'
  BY <1>0, <1>2 DEF TablesOK
<1>3. ASSUME NEW w \in Workers, InstallPersist(w) PROVE TablesOK'
  <2>1. worker[w].task \in JobIds
    BY <1>0, <1>3 DEF InstallPersist, AtInstall, WorkerOK
  <2> QED BY <1>1, <1>2, <1>3, <2>1 DEF InstallPersist, Write, disk
<1>4. ASSUME NEW w \in Workers, InstallMemory(w) \/ InstallClearDocument(w) PROVE TablesOK'
  BY <1>1, <1>2, <1>4 DEF InstallMemory, InstallClearDocument, Write, disk
<1>5. ASSUME NEW a \in Admins, DeleteSchema(a) \/ DeleteSchemaRows(a) PROVE TablesOK'
  BY <1>1, <1>2, <1>5 DEF DeleteSchema, DeleteSchemaRows, Write, disk
<1>6. ASSUME NEW id, NEW kind, NEW st, NEW time, Write(Db!Put(id, kind, st, time)) PROVE TablesOK'
  BY <1>2, <1>6 DEF Write, Db!Put, disk
<1>7. ASSUME NEW c \in Callers, Persist(c) \/ ServiceReturn(c) PROVE TablesOK'
  <2>1. ASSUME NEW x, Write(Db!Delete(x)) \/ Write(Db!DeleteFinished(x)) PROVE TablesOK'
    BY <1>2, <2>1 DEF Write, Db!Delete, Db!DeleteFinished, disk
  <2> QED BY <1>2, <1>6, <1>7, <2>1 DEF Persist, ServiceReturn, Save, disk
<1>8. ASSUME NEW w \in Workers, PersistStatus(w) PROVE TablesOK'
  BY <1>6, <1>8 DEF PersistStatus, Save
<1>9. CASE \/ QueueOnly \/ UNCHANGED everything
           \/ \E c \in Callers : ServiceRecord(c)
           \/ \E c \in Callers, id \in JobIds, r \in Requests : ServiceSend(c, id, r)
           \/ \E w \in Workers, outcome \in Finished : ServiceProcess(w, outcome)
           \/ Restart
  BY <1>2, <1>9 DEF QueueOnly, everything, service, ServiceRecord, ServiceSend, ServiceProcess, Restart, Db!Open, disk
<1> QED BY <1>3, <1>4, <1>5, <1>7, <1>8, <1>9 DEF ServiceNext

LEMMA ServerStep ==
  ASSUME OwnerInv, RowsInv, ServerOK, [ServiceNext]_everything
  PROVE  ServerOK'
<1>0. WorkerOK /\ Traces
  BY DEF OwnerInv, TypeInv, RowsInv
<1>1. TablesOK'
  BY TablesStep
<1>2. ASSUME UNCHANGED <<memory, install, admin, history>> PROVE ServerOK'
  BY <1>1, <1>2 DEF ServerOK, TablesOK, memory, history
<1>3. CASE QueueOnly \/ UNCHANGED everything \/ \E c \in Callers : ServiceRecord(c)
  BY <1>2, <1>3 DEF QueueOnly, ServiceRecord, everything, service
<1>4. ASSUME NEW c \in Callers, Persist(c) PROVE ServerOK'
  BY <1>2, <1>4 DEF Persist
<1>5. ASSUME NEW w \in Workers, PersistStatus(w) PROVE ServerOK'
  BY <1>2, <1>5 DEF PersistStatus
<1>6. ASSUME NEW c \in Callers, ServiceReturn(c) PROVE ServerOK'
  <2>1. caller[c].job \in JobIds
    BY <1>0, <1>6 DEF ServiceReturn, Return, Traces, InHand
  <2> QED BY <1>1, <1>6, <2>1 DEF ServiceReturn, ServerOK, TablesOK, memory
<1>7. ASSUME NEW c \in Callers, NEW id \in JobIds, NEW r \in Requests, ServiceSend(c, id, r) PROVE ServerOK'
  BY <1>1, <1>7 DEF ServiceSend, ServerOK, TablesOK, memory
<1>8. ASSUME NEW w \in Workers, NEW outcome \in Finished, ServiceProcess(w, outcome) PROVE ServerOK'
  BY <1>1, <1>8 DEF ServiceProcess, ServerOK, TablesOK, history
<1>9. ASSUME NEW w \in Workers, \/ InstallMemory(w)
                                \/ InstallClearDocument(w)
                                \/ InstallPersist(w)
      PROVE ServerOK'
  <2>1. worker[w].task \in JobIds
    BY <1>0, <1>9 DEF InstallMemory, InstallClearDocument, InstallPersist, AtInstall, WorkerOK
  <2> QED BY <1>1, <1>9, <2>1 DEF InstallMemory, InstallClearDocument, InstallPersist, ServerOK, TablesOK,
                                  memory, history
<1>10. ASSUME NEW a \in Admins, DeleteSchema(a) \/ DeleteSchemaRows(a) PROVE ServerOK'
  BY <1>1, <1>10 DEF DeleteSchema, DeleteSchemaRows, ServerOK, TablesOK, memory, history
<1>11. CASE Restart
  BY <1>1, <1>11 DEF Restart, ServerOK, TablesOK
<1> QED BY <1>3, <1>4, <1>5, <1>6, <1>7, <1>8, <1>9, <1>10, <1>11 DEF ServiceNext

LEMMA CountsStep ==
  ASSUME CountsOK, [ServiceNext]_everything
  PROVE  CountsOK'
<1>1. ASSUME NEW A, Write(A) PROVE faults' \in 0..MaxFaults
  BY <1>1, ServiceAssumption DEF Write, CountsOK
<1>2. faults' \in 0..MaxFaults /\ (restarts' = restarts \/ Restart)
  BY <1>1 DEF CountsOK, ServiceNext, everything, service, QueueOnly, ServiceRecord, Persist, ServiceReturn, ServiceSend,
       Save, PersistStatus, ServiceProcess, InstallMemory, InstallClearDocument, InstallPersist,
       DeleteSchema, DeleteSchemaRows, Restart
<1>3. restarts' \in 0..MaxRestarts
  BY <1>2, ServiceAssumption DEF CountsOK, Restart
<1> QED BY <1>2, <1>3 DEF CountsOK
-----------------------------------------------------------------------------
(* Tickets and rows, when no write fails. *)

\* The jobs whose ticket a client has, or is about to get.
Promised == acked \cup {caller[c].job : c \in {d \in Callers : caller[d].pc = "return"}}

\* InFlightRowKept for these: a save is over before its ticket is returned.
PromiseKept == \A id \in Promised : status[id] \in Unfinished => rows[id].status \in Unfinished

LEMMA PromisedJobs ==
  ASSUME Traces, ServerOK
  PROVE  /\ Promised \subseteq JobIds
         /\ \A id \in Promised : request[id] # NoRequest
BY DEF Traces, ServerOK, Promised, InHand

\* Nothing is promised that was not, no job becomes unfinished, and unfinished rows
\* of unfinished jobs stay unfinished.
LEMMA NothingPromised ==
  ASSUME PromiseKept, Promised' \subseteq Promised, Promised \subseteq JobIds,
         \A id \in JobIds : status'[id] \in Unfinished =>
           /\ status[id] \in Unfinished
           /\ rows[id].status \in Unfinished => rows'[id].status \in Unfinished
  PROVE  PromiseKept'
BY DEF PromiseKept

LEMMA PromiseStep ==
  ASSUME MaxFaults = 0, CountsOK, OwnerInv, RowsInv, ServerOK, PromiseKept,
         [ServiceNext]_everything
  PROVE  PromiseKept'
<1>0. /\ caller \in [Callers -> CallStates] /\ worker \in [Workers -> WorkerStates]
      /\ status \in [JobIds -> Statuses \cup {"absent"}] /\ updated \in [JobIds -> Nat]
      /\ WorkerOK /\ StatusFollowsOwner /\ RowsOK /\ Traces
      /\ Promised \subseteq JobIds /\ \A id \in Promised : request[id] # NoRequest
  BY PromisedJobs DEF OwnerInv, TypeInv, TypeOK, RowsInv
<1>1. ASSUME NEW A, Write(A) PROVE A
  BY <1>1 DEF Write, CountsOK
<1>2. \A id : Kind(id) \in Kinds
  BY DEF Kind, JobKind, Kinds
<1>3. ASSUME UNCHANGED <<status, rows>>, Promised' \subseteq Promised PROVE PromiseKept'
  BY <1>0, <1>3, NothingPromised
<1>4. CASE UNCHANGED everything
  BY <1>3, <1>4 DEF everything, vars, shared, service, disk, history, Promised
<1>5. CASE QueueOnly
  <2>1. Promised' \subseteq Promised
    BY <1>0, <1>5, QueueOnlyHands, QueueOnlyStatus DEF Promised, service, history, InHand
  <2>2. UNCHANGED rows /\ \A id \in JobIds : status'[id] \in Unfinished => status[id] \in Unfinished
    BY <1>5, QueueOnlyStatus DEF service, disk
  <2> QED BY <1>0, <2>1, <2>2, NothingPromised
<1>6. ASSUME NEW c \in Callers, NEW id \in JobIds, NEW r \in Requests, ServiceSend(c, id, r) PROVE PromiseKept'
  <2>1. Promised' \subseteq Promised
    <3>1. caller'[c].pc = "record" /\ \A d \in Callers : d # c => caller'[d] = caller[d]
      BY <1>0, <1>6 DEF ServiceSend, Send, CallStates
    <3> QED BY <1>6, <3>1 DEF ServiceSend, Promised
  <2> QED BY <1>3, <1>6, <2>1 DEF ServiceSend, Send, disk
<1>13. ASSUME NEW c \in Callers, ServiceRecord(c) PROVE PromiseKept'
  <2> DEFINE id == caller[c].job
  <2>1. /\ caller[c].pc = "record"
        /\ caller'[c].pc = "saveQueued" /\ \A d \in Callers : d # c => caller'[d] = caller[d]
        /\ UNCHANGED <<rows, acked>> /\ status' = [status EXCEPT ![id] = "queued"]
    BY <1>0, <1>13, RecordedJob DEF ServiceRecord, Record, service, disk, history
  <2>2. id \notin Promised
    BY <1>0, <2>1 DEF Traces, Promised, InHand
  <2>3. Promised' \subseteq Promised
    BY <2>1 DEF Promised
  <2> QED BY <1>0, <2>1, <2>2, <2>3 DEF PromiseKept
<1>7. ASSUME NEW c \in Callers, Persist(c) PROVE PromiseKept'
  <2>1. CASE SaveQueued(c) /\ Save(caller[c].job, "queued", 0)
    <3> DEFINE id == caller[c].job
    <3>1. id \in JobIds /\ Promised' \subseteq Promised \cup {id} /\ UNCHANGED status
      BY <1>0, <1>7, <2>1 DEF Persist, SaveQueued, shared, history, Promised, Traces, InHand, CallStates
    <3>2. "queued" \in Statuses /\ "queued" \in Unfinished
      BY DEF Statuses, Unfinished
    <3>3. /\ \A j \in JobIds : j # id /\ rows[j].status \in Unfinished => rows'[j] = rows[j]
          /\ rows'[id].status = "queued"
      <4>1. Db!Put(id, Kind(id), "queued", 0)
        BY <1>1, <2>1 DEF Save
      <4> QED BY <1>0, <1>2, <3>1, <3>2, <4>1, PutRows
    <3> QED BY <1>0, <3>1, <3>2, <3>3 DEF PromiseKept
  <2>2. CASE ClearRows(c) /\ Write(Db!DeleteFinished(caller[c].kind))
    <3>1. Promised' \subseteq Promised /\ UNCHANGED status
      BY <1>0, <1>7, <2>2 DEF Persist, ClearRows, shared, history, Promised, Idle
    <3>2. caller[c].kind \in KindFilters /\ Db!DeleteFinished(caller[c].kind)
      BY <1>0, <1>1, <2>2 DEF CallStates
    <3>3. \A j \in JobIds : rows[j].status \in Unfinished => rows'[j] = rows[j]
      BY <1>0, <3>2, DeleteFinishedKeeps
    <3> QED BY <1>0, <3>1, <3>3, NothingPromised
  <2>3. ASSUME NEW id \in JobIds, EvictRow(c, id), Write(Db!Delete(id)) PROVE PromiseKept'
    <3>1. Promised' \subseteq Promised /\ UNCHANGED status /\ status[id] \notin Unfinished
      BY <1>0, <1>7, <2>3 DEF Persist, EvictRow, history, Promised, CallStates, Traces, Unfinished
    <3>2. \A j \in JobIds : j # id => rows'[j] = rows[j]
      BY <1>0, <1>1, <2>3 DEF Db!Delete, Db!Without
    <3> QED BY <1>0, <3>1, <3>2, NothingPromised
  <2> QED BY <1>7, <2>1, <2>2, <2>3 DEF Persist
<1>8. ASSUME NEW w \in Workers, PersistStatus(w) PROVE PromiseKept'
  <2>1. /\ Promised' \subseteq Promised /\ UNCHANGED status
        /\ w \in Busy /\ worker[w].task \in JobIds
    BY <1>0, <1>8 DEF PersistStatus, SaveRunning, SaveFinal, shared, history, Promised, Busy, WorkerOK
  <2>2. ASSUME NEW st \in Statuses, NEW time \in Nat, Save(worker[w].task, st, time),
               st \in Unfinished \/ status[worker[w].task] \notin Unfinished
        PROVE  PromiseKept'
    <3>1. Db!Put(worker[w].task, Kind(worker[w].task), st, time)
      BY <1>1, <2>2 DEF Save
    <3>2. /\ \A j \in JobIds : j # worker[w].task /\ rows[j].status \in Unfinished => rows'[j] = rows[j]
          /\ st \in Unfinished => rows'[worker[w].task].status = st
      BY <1>0, <1>2, <2>1, <3>1, PutRows
    <3> QED BY <1>0, <2>1, <2>2, <3>2, NothingPromised
  <2>3. CASE SaveRunning(w) /\ Save(worker[w].task, "running", 0)
    <3>1. "running" \in Statuses /\ "running" \in Unfinished
      BY DEF Statuses, Unfinished
    <3> QED BY <2>2, <2>3, <3>1
  <2>4. CASE /\ SaveFinal(w)
             /\ Save(worker[w].task, worker[w].outcome, updated[worker[w].task])
    <3>1. worker[w].outcome \in Statuses /\ updated[worker[w].task] \in Nat
      BY <1>0, <2>1, <2>4 DEF SaveFinal, WorkerOK, Statuses
    <3>2. status[worker[w].task] \notin Unfinished
      <4>1. status[worker[w].task] \in {worker[w].outcome, "absent"} /\ worker[w].outcome \in Finished
        BY <1>0, <2>1, <2>4 DEF SaveFinal, StatusFollowsOwner, WorkerOK
      <4> QED BY <4>1 DEF Finished, Unfinished
    <3> QED BY <2>2, <2>4, <3>1, <3>2
  <2> QED BY <1>8, <2>3, <2>4 DEF PersistStatus
<1>9. ASSUME NEW c \in Callers, ServiceReturn(c) PROVE PromiseKept'
  <2>1. Promised' \subseteq Promised
    BY <1>0, <1>9 DEF ServiceReturn, Return, Promised, Idle
  <2> QED BY <1>3, <1>9, <2>1 DEF ServiceReturn, Return, shared, disk
<1>10. ASSUME NEW w \in Workers, \/ InstallMemory(w) \/ InstallClearDocument(w) \/ InstallPersist(w)
                                 \/ \E outcome \in Finished : ServiceProcess(w, outcome)
       PROVE PromiseKept'
  <2>1. UNCHANGED <<status, caller, acked>>
    BY <1>10 DEF InstallMemory, InstallClearDocument, InstallPersist, ServiceProcess, Process,
                 Callback, vars, shared, history
  <2>2. UNCHANGED rows
    BY <1>1, <1>10 DEF InstallMemory, InstallClearDocument, InstallPersist, ServiceProcess,
                       Db!ClearDocument, Db!SetSchema, Db!SetDocument, disk
  <2> QED BY <1>3, <2>1, <2>2 DEF Promised
<1>11. ASSUME NEW a \in Admins, DeleteSchema(a) \/ DeleteSchemaRows(a) PROVE PromiseKept'
  <2>1. UNCHANGED <<status, caller, acked, rows>>
    BY <1>1, <1>11 DEF DeleteSchema, DeleteSchemaRows, Db!ClearDocument, Db!ClearSchema, vars, shared,
                       history, disk
  <2> QED BY <1>3, <2>1 DEF Promised
<1>12. CASE Restart
  <2>1. /\ \A id \in JobIds : status'[id] \notin Unfinished
        /\ caller' = [c \in Callers |-> Idle] /\ UNCHANGED acked
    BY <1>12 DEF Restart, Drop, Unfinished
  <2>2. Promised' \subseteq JobIds
    BY <1>0, <2>1 DEF Promised, Idle
  <2> QED BY <2>1, <2>2 DEF PromiseKept
<1> QED BY <1>4, <1>5, <1>6, <1>7, <1>8, <1>9, <1>10, <1>11, <1>12, <1>13 DEF ServiceNext
-----------------------------------------------------------------------------
LEMMA ServiceInvInit == ServiceInit => ServiceInv /\ PromiseKept
<1> SUFFICES ASSUME ServiceInit PROVE ServiceInv /\ PromiseKept
  OBVIOUS
<1>1. OwnerInv
  BY OwnerInit DEF ServiceInit
<1>2. /\ rows = [id \in JobIds |-> Db!NoRow] /\ acked = {} /\ born = {}
      /\ status = [id \in JobIds |-> "absent"] /\ victims = {}
      /\ worker = [w \in Workers |-> Ready] /\ caller = [c \in Callers |-> Idle]
  BY DEF ServiceInit, Init, Db!Init
<1>3. RowsInv
  BY <1>2, NoRowStatus DEF RowsInv, RowsOK, Rows, Traces, StoreNeverAhead, NoForeignUnfinished, Known, Busy,
                           Recording, InHand, Ready, Idle
<1>4. ServerOK
  BY DEF ServiceInit, Db!Init, ServerOK
<1>5. CountsOK
  BY ServiceAssumption DEF ServiceInit, CountsOK
<1>6. PromiseKept
  BY <1>2 DEF PromiseKept, Promised, Idle
<1> QED BY <1>1, <1>3, <1>4, <1>5, <1>6 DEF ServiceInv

LEMMA ServiceInvStep == ServiceInv /\ [ServiceNext]_everything => ServiceInv'
BY ServiceOwner, RowsStep, ServerStep, CountsStep DEF ServiceInv

THEOREM ServiceInvariant == ServiceSpec => []ServiceInv
<1>1. ServiceInit => ServiceInv
  BY ServiceInvInit
<1>2. ServiceInv /\ [ServiceNext]_everything => ServiceInv'
  BY ServiceInvStep
<1> QED BY <1>1, <1>2, PTL DEF ServiceSpec

\* Type correctness of queue, store and server (api/server.go, api/persist.go),
\* through any number of crashes and failed writes.
THEOREM ServiceTypes == ServiceSpec => []ServiceTypeOK
BY ServiceInvariant, ServiceInvType, PTL

\* sqlitePersist and setStatus: the store never announces an outcome that the
\* queue does not have.
THEOREM NeverAhead == ServiceSpec => []StoreNeverAhead
<1>1. ServiceInv => StoreNeverAhead
  BY DEF ServiceInv, RowsInv
<1> QED BY <1>1, ServiceInvariant, PTL

\* failInterrupted: only jobs of the running process are queued or running in the
\* store, whenever the last one died and whichever of its writes failed.
THEOREM NoForeign == ServiceSpec => []NoForeignUnfinished
<1>1. ServiceInv => NoForeignUnfinished
  BY DEF ServiceInv, RowsInv
<1> QED BY <1>1, ServiceInvariant, PTL

\* submit, gcTx and DeleteFinished: as long as no write fails, the row of a ticket
\* whose job is unfinished is there and unfinished.
THEOREM InFlightKept ==
  ASSUME MaxFaults = 0
  PROVE  ServiceSpec => []InFlightRowKept
<1>1. ServiceInit => ServiceInv /\ PromiseKept
  BY ServiceInvInit
<1>2. ServiceInv /\ PromiseKept /\ [ServiceNext]_everything => ServiceInv' /\ PromiseKept'
  BY ServiceInvStep, PromiseStep DEF ServiceInv
<1>3. PromiseKept => InFlightRowKept
  BY DEF PromiseKept, Promised, InFlightRowKept
<1> QED BY <1>1, <1>2, <1>3, PTL DEF ServiceSpec
-----------------------------------------------------------------------------
(* What the server serves and what the store holds, for any number of workers,
   of calls of DELETE /schema and of restarts, up to the first write that fails
   and the first two changes that overlap. Until then a change has memory and
   tables to itself: its steps, cut by a crash at any of its writes, never leave a
   document beside a schema that did not decode it. Run tables_differ shows what
   two overlapping changes do. *)

Calm == ~raced /\ faults = 0

\* A document and the schema that goes with it: what decoded it.
Matches(document_, schema_) ==
  document_ # NoJob /\ request[document_] = "document" => decodedBy[document_] = schema_

\* A job that is over: no worker will ever have it again.
Over(id) ==
  /\ id \in JobIds /\ request[id] # NoRequest
  /\ status[id] \notin Unfinished /\ id \notin Recording

\* The current documents are results of jobs that are over.
CurrentOK == \A id \in {doc, document} : id # NoJob => Over(id)

\* What a worker has decoded and not installed it has decoded with the current schema.
ReadCurrent(w) == Decoded(w) => decodedBy[worker[w].task] = sch

OneAtATime ==
  /\ \A v, w \in Installing : v = w
  /\ \A a, b \in Deleting : a = b
  /\ Installing = {} \/ Deleting = {}

\* What the tables hold at each point of the callback.
TablesFollow(w) ==
  LET id == worker[w].task IN
  /\ install[w] # "memory" => worker[w].pc = "callback"
  /\ install[w] = "clearDocument" => Kind(id) = "schema" /\ sch = id /\ doc = NoJob
  /\ install[w] = "persist" =>
       IF Kind(id) = "schema" THEN sch = id /\ doc = NoJob /\ document = NoJob
                              ELSE doc = id /\ schema = sch

\* And of DELETE /schema.
TablesEmptied(a) ==
  /\ admin[a] # "idle" => sch = NoJob /\ doc = NoJob
  /\ admin[a] = "clearSchema" => document = NoJob

InstallInv ==
  /\ CurrentOK
  /\ Matches(doc, sch)
  /\ Matches(document, schema)
  /\ OneAtATime
  /\ UnderWay \/ (document = doc /\ schema = sch)
  /\ \A w \in Workers : ReadCurrent(w) /\ TablesFollow(w)
  /\ \A a \in Admins : TablesEmptied(a)

CalmInv == Calm => InstallInv
-----------------------------------------------------------------------------
\* Calm is lost for good, and while it lasts every write is made.
LEMMA CalmBefore ==
  ASSUME CountsOK, [ServiceNext]_everything, Calm'
  PROVE  Calm
<1>1. ASSUME NEW A, Write(A) PROVE faults' # 0 \/ faults' = faults
  BY <1>1 DEF Write, CountsOK
<1>2. faults' # 0 \/ faults' = faults
  BY <1>1 DEF ServiceNext, everything, service, QueueOnly, ServiceRecord, Persist, ServiceReturn,
       ServiceSend, Save, PersistStatus, ServiceProcess, InstallMemory, InstallClearDocument,
       InstallPersist, DeleteSchema, DeleteSchemaRows, Restart
<1>3. raced => raced'
  BY DEF ServiceNext, everything, service, history, QueueOnly, ServiceRecord, Persist, ServiceReturn,
       ServiceSend, PersistStatus, ServiceProcess, InstallMemory, InstallClearDocument,
       InstallPersist, DeleteSchema, DeleteSchemaRows, Restart
<1> QED BY <1>2, <1>3 DEF Calm

LEMMA WritesMade ==
  ASSUME Calm, Calm', NEW A, Write(A)
  PROVE  A
BY DEF Calm, Write

\* Steps that leave the document and the schema alone: of the callback they do not
\* move, and they neither submit a job twice nor revive one.
LEMMA QuietStep ==
  ASSUME OwnerInv, InstallInv,
         UNCHANGED <<memory, document, schema, install, admin>>,
         \A id \in JobIds : request[id] # NoRequest => request'[id] = request[id],
         \A id : Over(id) => Over(id)',
         \A w \in Workers :
           /\ worker[w].pc = "callback" => worker'[w] = worker[w]
           /\ worker'[w].pc \in {"finish", "saveFinal", "callback"} =>
                /\ worker[w].pc \in {"finish", "saveFinal", "callback"}
                /\ worker'[w].task = worker[w].task
  PROVE  InstallInv'
<1>0. /\ WorkerOK /\ UNCHANGED <<doc, sch, decodedBy, Installing, Deleting>>
      /\ \A w \in Workers : worker[w].pc \in {"finish", "saveFinal", "callback"} =>
           worker[w].task \in JobIds /\ request[worker[w].task] # NoRequest
  BY DEF OwnerInv, TypeInv, IssuedOnly, WorkerOK, Busy, memory, Installing, Deleting
<1>1. CurrentOK'
  BY <1>0 DEF InstallInv, CurrentOK
<1>2. Matches(doc, sch)' /\ Matches(document, schema)'
  BY <1>0 DEF InstallInv, CurrentOK, Over, Matches
<1>3. ASSUME NEW w \in Workers PROVE ReadCurrent(w)' /\ TablesFollow(w)'
  <2>1. TablesFollow(w)'
    BY <1>0, <1>3 DEF InstallInv, TablesFollow, Kind
  <2>2. ReadCurrent(w)'
    BY <1>0, <1>3 DEF InstallInv, ReadCurrent, Decoded
  <2> QED BY <2>1, <2>2
<1>4. (UnderWay \/ (document = doc /\ schema = sch))' /\ OneAtATime'
  BY <1>0 DEF InstallInv, UnderWay, OneAtATime
<1>5. \A a \in Admins : TablesEmptied(a)'
  BY <1>0 DEF InstallInv, TablesEmptied
<1> QED BY <1>1, <1>2, <1>3, <1>4, <1>5 DEF InstallInv

\* The steps of the queue's calls and of its workers outside process and callback.
LEMMA QuietSteps ==
  ASSUME Calm, Calm', OwnerInv, Traces, InstallInv,
         \/ QueueOnly \/ UNCHANGED everything
         \/ \E c \in Callers : \/ ServiceRecord(c) \/ Persist(c) \/ ServiceReturn(c)
                               \/ \E id \in JobIds, r \in Requests : ServiceSend(c, id, r)
         \/ \E w \in Workers : PersistStatus(w)
  PROVE  InstallInv'
<1>0. /\ worker \in [Workers -> WorkerStates] /\ caller \in [Callers -> CallStates]
      /\ status \in [JobIds -> Statuses \cup {"absent"}]
      /\ request \in [JobIds -> RequestTypes \cup {NoRequest}]
  BY DEF OwnerInv, TypeInv, TypeOK
<1>1. CASE UNCHANGED everything
  <2>1. \A id : Over(id) => Over(id)'
    BY <1>1 DEF everything, vars, shared, Over, Recording
  <2> QED BY <1>1, <2>1, QuietStep DEF everything, vars, shared, service, disk
<1>2. CASE QueueOnly
  <2>1. /\ UNCHANGED <<memory, document, schema, install, admin>> /\ UNCHANGED request
        /\ \A id \in JobIds : status'[id] \in Unfinished => status[id] \in Unfinished
    BY <1>2, QueueOnlyStatus DEF service, disk
  <2>2. ASSUME NEW w \in Workers
        PROVE  /\ worker[w].pc = "callback" => worker'[w] = worker[w]
               /\ worker'[w].pc \in {"finish", "saveFinal", "callback"} =>
                    /\ worker[w].pc \in {"finish", "saveFinal", "callback"}
                    /\ worker'[w].task = worker[w].task
    <3>1. CASE \E c \in Callers : Submit(c) \/ Reject(c) \/ \E kind \in Filters : Clear(c, kind)
      BY <3>1 DEF Submit, Reject, Clear
    <3>2. CASE \E v \in Workers : Receive(v) \/ Start(v) \/ Finish(v) \/ Signal(v)
      BY <1>0, <2>2, <3>2 DEF Receive, Start, Finish, Signal, Goto, Ready, WorkerStates
    <3> QED BY <1>2, <3>1, <3>2 DEF QueueOnly
  <2>3. Recording' \subseteq Recording
    BY <1>2, QueueOnlyHands DEF Recording, InHand
  <2>4. \A id : Over(id) => Over(id)'
    BY <2>1, <2>3 DEF Over
  <2> QED BY <2>1, <2>2, <2>4, QuietStep
<1>3. ASSUME NEW c \in Callers, NEW id \in JobIds, NEW r \in Requests, ServiceSend(c, id, r) PROVE InstallInv'
  <2>1. UNCHANGED <<memory, document, schema, install, admin, worker, status>> /\ request[id] = NoRequest
    BY <1>3 DEF ServiceSend, Send, disk
  <2>2. \A j \in JobIds : request[j] # NoRequest => request'[j] = request[j]
    BY <1>0, <1>3 DEF ServiceSend, Send
  <2>3. Recording' \subseteq Recording \cup {id}
    <3>1. caller'[c].job = id /\ \A d \in Callers : d # c => caller'[d] = caller[d]
      BY <1>0, <1>3 DEF ServiceSend, Send, CallStates
    <3> QED BY <3>1 DEF Recording
  <2>4. \A j : Over(j) => Over(j)'
    BY <2>1, <2>2, <2>3 DEF Over
  <2> QED BY <2>1, <2>2, <2>4, QuietStep
<1>4. ASSUME NEW c \in Callers, ServiceRecord(c) PROVE InstallInv'
  <2>1. /\ UNCHANGED <<memory, document, schema, install, admin, worker, request>>
        /\ Recording' \subseteq Recording /\ caller[c].job \in Recording
        /\ status' = [status EXCEPT ![caller[c].job] = "queued"]
    BY <1>4, RecordedJob DEF service, disk, Recording
  <2>2. \A j : Over(j) => Over(j)'
    BY <1>0, <2>1 DEF Over
  <2> QED BY <2>1, <2>2, QuietStep
<1>5. ASSUME NEW c \in Callers, Persist(c) \/ ServiceReturn(c) PROVE InstallInv'
  <2>1. UNCHANGED <<document, schema>>
    BY <1>5, WritesMade DEF Persist, ServiceReturn, Save, Db!Put, Db!Delete, Db!DeleteFinished, disk
  <2>2. UNCHANGED <<memory, install, admin, worker, status, request>>
    BY <1>5 DEF Persist, ServiceReturn, SaveQueued, ClearRows, EvictRow, Return, shared
  <2>3. /\ caller'[c].pc # "record"
        /\ \A d \in Callers : d # c => caller'[d] = caller[d]
    <3>1. CASE \E pc \in {"return", "send", "evict"} : caller' = [caller EXCEPT ![c].pc = pc]
      BY <1>0, <3>1 DEF CallStates
    <3>2. CASE caller' = [caller EXCEPT ![c] = Idle]
      BY <1>0, <3>2 DEF Idle
    <3> QED BY <1>5, <3>1, <3>2 DEF Persist, ServiceReturn, SaveQueued, ClearRows, EvictRow, Return
  <2>4. \A j : Over(j) => Over(j)'
    BY <2>2, <2>3 DEF Over, Recording
  <2> QED BY <2>1, <2>2, <2>4, QuietStep
<1>6. ASSUME NEW w \in Workers, PersistStatus(w) PROVE InstallInv'
  <2>1. UNCHANGED <<document, schema>>
    BY <1>6, WritesMade DEF PersistStatus, Save, Db!Put
  <2>2. UNCHANGED <<memory, install, admin, status, request, caller>>
    BY <1>6 DEF PersistStatus, SaveRunning, SaveFinal, shared
  <2>3. \A v \in Workers :
          /\ worker[v].pc = "callback" => worker'[v] = worker[v]
          /\ worker'[v].pc \in {"finish", "saveFinal", "callback"} =>
               /\ worker[v].pc \in {"finish", "saveFinal", "callback"}
               /\ worker'[v].task = worker[v].task
    BY <1>0, <1>6 DEF PersistStatus, SaveRunning, SaveFinal, Goto, WorkerStates
  <2>4. \A j : Over(j) => Over(j)'
    BY <2>2 DEF Over, Recording
  <2> QED BY <2>1, <2>2, <2>3, <2>4, QuietStep
<1> QED BY <1>1, <1>2, <1>3, <1>4, <1>5, <1>6
-----------------------------------------------------------------------------
\* Processing reads the schema, and the job it decodes is nobody's current document.
LEMMA ProcessStep ==
  ASSUME OwnerInv, ServerOK, InstallInv, NEW w \in Workers, NEW outcome \in Finished,
         ServiceProcess(w, outcome)
  PROVE  InstallInv'
<1> DEFINE id == worker[w].task
<1>0. /\ worker \in [Workers -> WorkerStates] /\ StatusFollowsOwner /\ WorkerOK /\ OneOwner
      /\ decodedBy \in [JobIds -> JobIds \cup {NoJob}]
  BY DEF OwnerInv, TypeInv, TypeOK, ServerOK
<1>1. /\ worker[w].pc = "process" /\ worker'[w].pc = "finish" /\ worker'[w].task = id
      /\ \A v \in Workers : v # w => worker'[v] = worker[v]
      /\ UNCHANGED <<status, request, caller, doc, sch, document, schema, install, admin>>
      /\ decodedBy' = IF request[id] = "document" THEN [decodedBy EXCEPT ![id] = sch] ELSE decodedBy
  BY <1>0 DEF ServiceProcess, Process, shared, disk, WorkerStates
<1>2. id \in JobIds /\ status[id] \in Unfinished /\ \A j \in JobIds : j # id => decodedBy'[j] = decodedBy[j]
  BY <1>0, <1>1 DEF StatusFollowsOwner, Busy, Unfinished, WorkerOK
<1>3. CurrentOK' /\ id \notin {doc, document}
  BY <1>1, <1>2, QueueAssumption DEF InstallInv, CurrentOK, Over, Recording
<1>4. Matches(doc, sch)' /\ Matches(document, schema)'
  BY <1>1, <1>2, <1>3 DEF InstallInv, Matches, CurrentOK, Over
<1>5. ReadCurrent(w)' /\ TablesFollow(w)'
  <2>1. install[w] = "memory"
    BY <1>1 DEF InstallInv, TablesFollow
  <2> QED BY <1>0, <1>1, <1>2, <2>1 DEF ReadCurrent, TablesFollow, Decoded
<1>6. ASSUME NEW v \in Workers, v # w PROVE ReadCurrent(v)' /\ TablesFollow(v)'
  <2>1. TablesFollow(v)'
    BY <1>1, <1>6 DEF InstallInv, TablesFollow, Kind
  <2>2. ASSUME Decoded(v) PROVE worker[v].task \in JobIds /\ worker[v].task # id
    BY <1>0, <1>1, <1>6, <2>2 DEF Decoded, OneOwner, Busy, WorkerOK
  <2>3. ReadCurrent(v)'
    BY <1>1, <1>2, <1>6, <2>2 DEF InstallInv, ReadCurrent, Decoded
  <2> QED BY <2>1, <2>3
<1>7. /\ (UnderWay \/ (document = doc /\ schema = sch))' /\ OneAtATime'
      /\ \A a \in Admins : TablesEmptied(a)'
  BY <1>1 DEF InstallInv, UnderWay, OneAtATime, TablesEmptied, Installing, Deleting
<1> QED BY <1>3, <1>4, <1>5, <1>6, <1>7 DEF InstallInv

\* The callback has a job that is over.
LEMMA CallbackJob ==
  ASSUME OwnerInv, NEW w \in Workers, worker[w].pc = "callback"
  PROVE  Over(worker[w].task)
<1>1. w \in Busy /\ WorkerOK /\ StatusFollowsOwner /\ IssuedOnly
  BY DEF OwnerInv, TypeInv, Busy
<1>2. worker[w].task \in JobIds /\ request[worker[w].task] # NoRequest
  BY <1>1 DEF WorkerOK, IssuedOnly
<1>3. status[worker[w].task] \in {worker[w].outcome, "absent"} /\ worker[w].outcome \in Finished
  BY <1>1 DEF StatusFollowsOwner, WorkerOK
<1>4. worker[w].task \notin Recording
  BY <1>1, BegunIsRecorded
<1> QED BY <1>2, <1>3, <1>4 DEF Over, Finished, Unfinished

\* The callback's first step: memory. Nothing else is under way, and when it loads a
\* schema, no worker holds a document that the old one decoded.
LEMMA MemoryStep ==
  ASSUME Calm', OwnerInv, ServerOK, InstallInv, NEW w \in Workers, InstallMemory(w)
  PROVE  InstallInv'
<1> DEFINE id == worker[w].task
<1>0. /\ install \in [Workers -> {"memory", "clearDocument", "persist"}]
      /\ worker[w].pc = "callback" /\ install[w] = "memory" /\ Over(id)
      /\ UNCHANGED <<worker, status, request, caller, document, schema, decodedBy, admin>>
  BY CallbackJob DEF ServerOK, InstallMemory, AtInstall, vars, shared, disk
<1>1. ~Races(Kind(id) = "schema")
  BY DEF InstallMemory, Calm
<1>2. /\ document = doc /\ schema = sch
      /\ \A v \in Workers : install[v] = "memory"
      /\ \A a \in Admins : admin[a] = "idle"
      /\ Kind(id) = "schema" => \A v \in Workers : ~Decoded(v)
  BY <1>1 DEF InstallInv, Races, UnderWay, Installing, Deleting
<1>3. Kind(id) = "schema" <=> request[id] = "schema"
  BY DEF Kind, JobKind
<1>4. /\ \A j : Over(j) => Over(j)'
      /\ \A v \in Workers : v # w => install'[v] = "memory"
      /\ install'[w] \in {"clearDocument", "persist"}
  BY <1>0, <1>2 DEF Over, Recording, InstallMemory
<1>5. OneAtATime' /\ UnderWay' /\ \A a \in Admins : TablesEmptied(a)'
  BY <1>0, <1>2, <1>4 DEF OneAtATime, UnderWay, Installing, Deleting, TablesEmptied
<1>6. Matches(document, schema)'
  BY <1>0 DEF InstallInv, Matches
<1>7. CASE Kind(id) = "schema"
  <2>1. sch' = id /\ doc' = NoJob /\ install'[w] = "clearDocument"
    BY <1>0, <1>7 DEF InstallMemory
  <2>2. CurrentOK' /\ Matches(doc, sch)'
    BY <1>0, <1>4, <2>1 DEF InstallInv, CurrentOK, Matches
  <2>3. ASSUME NEW v \in Workers PROVE ReadCurrent(v)' /\ TablesFollow(v)'
    <3>1. ~Decoded(v)'
      BY <1>0, <1>2, <1>4, <1>7 DEF Decoded
    <3> QED BY <1>0, <1>4, <1>7, <2>1, <3>1 DEF ReadCurrent, TablesFollow, Kind
  <2> QED BY <1>5, <1>6, <2>2, <2>3 DEF InstallInv
<1>8. CASE Kind(id) # "schema"
  <2>1. doc' = id /\ sch' = sch /\ install'[w] = "persist"
    BY <1>0, <1>8 DEF InstallMemory
  <2>2. request[id] = "document" => decodedBy[id] = sch
    BY <1>0 DEF InstallInv, ReadCurrent, Decoded
  <2>3. CurrentOK' /\ Matches(doc, sch)'
    BY <1>0, <1>4, <2>1, <2>2 DEF InstallInv, CurrentOK, Matches
  <2>4. ASSUME NEW v \in Workers PROVE ReadCurrent(v)' /\ TablesFollow(v)'
    <3>1. Decoded(v)' => Decoded(v)
      BY <1>0, <1>2 DEF Decoded
    <3> QED BY <1>0, <1>2, <1>4, <1>8, <2>1, <3>1 DEF InstallInv, ReadCurrent, TablesFollow, Kind
  <2> QED BY <1>5, <1>6, <2>3, <2>4 DEF InstallInv
<1> QED BY <1>7, <1>8

\* Then the document's table.
LEMMA ClearDocumentStep ==
  ASSUME Calm, Calm', OwnerInv, ServerOK, InstallInv, NEW w \in Workers, InstallClearDocument(w)
  PROVE  InstallInv'
<1> DEFINE id == worker[w].task
<1>0. /\ install \in [Workers -> {"memory", "clearDocument", "persist"}]
      /\ install[w] = "clearDocument" /\ install'[w] = "persist" /\ document' = NoJob
      /\ \A v \in Workers : v # w => install'[v] = install[v]
      /\ UNCHANGED <<worker, status, request, caller, schema, doc, sch, decodedBy, admin>>
  BY WritesMade DEF InstallClearDocument, AtInstall, Db!ClearDocument, vars, shared, memory, ServerOK
<1>1. /\ \A v \in Workers : v # w => install[v] = "memory"
      /\ UNCHANGED <<Installing, Deleting>> /\ UnderWay
  BY <1>0 DEF InstallInv, OneAtATime, Installing, Deleting, UnderWay
<1>2. OneAtATime' /\ UnderWay'
  BY <1>1 DEF InstallInv, OneAtATime, UnderWay
<1>3. CurrentOK' /\ Matches(doc, sch)' /\ Matches(document, schema)'
  BY <1>0 DEF InstallInv, CurrentOK, Over, Recording, Matches
<1>4. ASSUME NEW v \in Workers PROVE ReadCurrent(v)' /\ TablesFollow(v)'
  <2>1. ReadCurrent(v)'
    BY <1>0 DEF InstallInv, ReadCurrent, Decoded
  <2>2. TablesFollow(v)'
    BY <1>0, <1>1 DEF InstallInv, TablesFollow, Kind
  <2> QED BY <2>1, <2>2
<1>5. \A a \in Admins : TablesEmptied(a)'
  BY <1>0 DEF InstallInv, TablesEmptied
<1> QED BY <1>2, <1>3, <1>4, <1>5 DEF InstallInv

\* Then the table of what came.
LEMMA PersistStep ==
  ASSUME Calm, Calm', OwnerInv, ServerOK, InstallInv, NEW w \in Workers, InstallPersist(w)
  PROVE  InstallInv'
<1> DEFINE id == worker[w].task
<1>0. /\ install \in [Workers -> {"memory", "clearDocument", "persist"}]
      /\ worker \in [Workers -> WorkerStates]
      /\ install[w] = "persist" /\ install'[w] = "memory"
      /\ worker[w].pc = "callback" /\ worker'[w].pc = "signal" /\ Over(id)
      /\ \A v \in Workers : v # w => install'[v] = install[v] /\ worker'[v] = worker[v]
      /\ UNCHANGED <<status, request, caller, doc, sch, decodedBy, admin>>
  BY CallbackJob DEF InstallPersist, AtInstall, Callback, Goto, WorkerStates, shared, memory, ServerOK,
                     OwnerInv, TypeInv, TypeOK
<1>1. \A v \in Workers : v # w => install[v] = "memory"
  BY <1>0 DEF InstallInv, OneAtATime, Installing
<1>2. Installing' = {} /\ Deleting' = {}
  BY <1>0, <1>1 DEF InstallInv, OneAtATime, Installing, Deleting
<1>3. document' = doc /\ schema' = sch
  <2>1. CASE Kind(id) = "schema"
    BY <1>0, <2>1, WritesMade DEF InstallPersist, Db!SetSchema, InstallInv, TablesFollow
  <2>2. CASE Kind(id) # "schema"
    BY <1>0, <2>2, WritesMade DEF InstallPersist, Db!SetDocument, InstallInv, TablesFollow
  <2> QED BY <2>1, <2>2
<1>4. CurrentOK' /\ Matches(doc, sch)' /\ Matches(document, schema)'
  BY <1>0, <1>3 DEF InstallInv, CurrentOK, Over, Recording, Matches
<1>5. ASSUME NEW v \in Workers PROVE ReadCurrent(v)' /\ TablesFollow(v)'
  <2>1. Decoded(v)' => Decoded(v) /\ v # w
    BY <1>0 DEF Decoded
  <2> QED BY <1>0, <1>1, <2>1 DEF InstallInv, ReadCurrent, TablesFollow
<1>6. \A a \in Admins : TablesEmptied(a)'
  BY <1>2 DEF Deleting, TablesEmptied
<1> QED BY <1>0, <1>2, <1>3, <1>4, <1>5, <1>6 DEF InstallInv, OneAtATime

\* DELETE /schema: memory, then the document's table, then the schema's.
LEMMA DeleteStep ==
  ASSUME Calm, Calm', ServerOK, InstallInv, NEW a \in Admins,
         DeleteSchema(a) \/ DeleteSchemaRows(a)
  PROVE  InstallInv'
<1>0. /\ admin \in [Admins -> {"idle", "clearDocument", "clearSchema"}]
      /\ UNCHANGED <<worker, status, request, caller, decodedBy, install>>
      /\ \A b \in Admins : b # a => admin'[b] = admin[b]
  BY DEF ServerOK, DeleteSchema, DeleteSchemaRows, vars, shared, memory
<1>1. /\ doc' = NoJob /\ sch' = NoJob
      /\ \A w \in Workers : install[w] = "memory"
      /\ \A b \in Admins : b # a => admin[b] = "idle"
      /\ \A w \in Workers : Decoded(w) => sch = NoJob
  <2>1. CASE DeleteSchema(a)
    BY <2>1 DEF DeleteSchema, Calm, Races, UnderWay, Installing, Deleting
  <2>2. CASE DeleteSchemaRows(a)
    <3>1. admin[a] # "idle" /\ UNCHANGED <<doc, sch>>
      BY <2>2 DEF DeleteSchemaRows, memory
    <3> QED BY <3>1 DEF InstallInv, OneAtATime, TablesEmptied, Installing, Deleting
  <2> QED BY <2>1, <2>2
<1>2. /\ document' \in {document, NoJob} /\ schema' \in {schema, NoJob}
      /\ admin'[a] # "clearDocument" => document' = NoJob
      /\ admin'[a] = "idle" => schema' = NoJob
      /\ document' # NoJob => schema' = schema
  <2>1. CASE DeleteSchema(a)
    BY <1>0, <2>1 DEF DeleteSchema, disk
  <2>2. CASE DeleteSchemaRows(a)
    BY <1>0, <2>2, WritesMade DEF DeleteSchemaRows, Db!ClearDocument, Db!ClearSchema, InstallInv, TablesEmptied
  <2> QED BY <2>1, <2>2
<1>3. CurrentOK' /\ Matches(doc, sch)' /\ Matches(document, schema)'
  BY <1>0, <1>1, <1>2 DEF InstallInv, CurrentOK, Over, Recording, Matches
<1>4. ASSUME NEW w \in Workers PROVE ReadCurrent(w)' /\ TablesFollow(w)'
  BY <1>0, <1>1 DEF InstallInv, ReadCurrent, Decoded, TablesFollow
<1>5. OneAtATime' /\ \A b \in Admins : TablesEmptied(b)'
  BY <1>0, <1>1, <1>2 DEF OneAtATime, Installing, Deleting, TablesEmptied
<1>6. (UnderWay \/ (document = doc /\ schema = sch))'
  BY <1>0, <1>1, <1>2 DEF UnderWay, Deleting
<1> QED BY <1>3, <1>4, <1>5, <1>6 DEF InstallInv

\* restore: what the server serves is what it finds.
LEMMA RestartStep ==
  ASSUME OwnerInv, ServerOK, InstallInv, Restart
  PROVE  InstallInv'
<1>1. /\ doc' = document /\ sch' = schema /\ UNCHANGED <<request, decodedBy, document, schema>>
      /\ worker' = [w \in Workers |-> Ready] /\ install' = [w \in Workers |-> "memory"]
      /\ status' = [id \in JobIds |-> "absent"] /\ caller' = [c \in Callers |-> Idle]
      /\ admin' = [a \in Admins |-> "idle"]
  BY DEF Restart, Db!Open, Drop
<1>2. CurrentOK'
  BY <1>1 DEF InstallInv, CurrentOK, Over, Recording, Idle, Unfinished
<1>3. Matches(doc, sch)' /\ Matches(document, schema)'
  BY <1>1 DEF InstallInv, Matches
<1>4. \A w \in Workers : ReadCurrent(w)' /\ TablesFollow(w)'
  BY <1>1 DEF ReadCurrent, TablesFollow, Decoded, Ready
<1>5. OneAtATime' /\ \A a \in Admins : TablesEmptied(a)'
  BY <1>1 DEF OneAtATime, Installing, Deleting, TablesEmptied
<1> QED BY <1>1, <1>2, <1>3, <1>4, <1>5 DEF InstallInv

LEMMA InstallStep ==
  ASSUME ServiceInv, CalmInv, [ServiceNext]_everything
  PROVE  CalmInv'
<1> SUFFICES ASSUME Calm' PROVE InstallInv'
  BY DEF CalmInv
<1>1. OwnerInv /\ Traces /\ ServerOK /\ CountsOK
  BY DEF ServiceInv, RowsInv
<1>2. Calm /\ InstallInv
  BY <1>1, CalmBefore DEF CalmInv
<1> QED BY <1>1, <1>2, QuietSteps, ProcessStep, MemoryStep, ClearDocumentStep, PersistStep, DeleteStep,
           RestartStep DEF ServiceNext
-----------------------------------------------------------------------------
LEMMA InstallInitially == ServiceInit => CalmInv
<1> SUFFICES ASSUME ServiceInit PROVE InstallInv
  BY DEF CalmInv
<1>1. /\ doc = NoJob /\ sch = NoJob /\ document = NoJob /\ schema = NoJob
      /\ install = [w \in Workers |-> "memory"] /\ worker = [w \in Workers |-> Ready]
      /\ admin = [a \in Admins |-> "idle"]
  BY DEF ServiceInit, Init, Db!Init
<1> QED BY <1>1 DEF InstallInv, CurrentOK, Matches, ReadCurrent, TablesFollow, Decoded, Ready, OneAtATime,
                    Installing, Deleting, TablesEmptied

LEMMA InstallInvariant == ServiceSpec => [](ServiceInv /\ CalmInv)
<1>1. ServiceInit => ServiceInv /\ CalmInv
  BY ServiceInvInit, InstallInitially
<1>2. ServiceInv /\ CalmInv /\ [ServiceNext]_everything => ServiceInv' /\ CalmInv'
  BY ServiceInvStep, InstallStep
<1> QED BY <1>1, <1>2, PTL DEF ServiceSpec

\* Calm, as the properties say it.
LEMMA NotCalm == ServiceInv => Calm \/ raced \/ faults > 0
BY DEF ServiceInv, CountsOK, Calm

\* onJobDone, setSchema and restore, for any number of workers and any calls of DELETE
\* /schema: as long as nothing has raced and no write has failed, the document that
\* the server serves was decoded by the schema that it serves, wherever the process
\* has died.
THEOREM DocumentMatches == ServiceSpec => []DocumentMatchesSchema
<1>1. ServiceInv /\ CalmInv => DocumentMatchesSchema
  BY NotCalm DEF CalmInv, InstallInv, Matches, DocumentMatchesSchema
<1> QED BY <1>1, InstallInvariant, PTL

\* onJobDone, setSchema and restore: as long as nothing has raced and no write has
\* failed, between two changes the tables hold what the server serves.
THEOREM StoreMirrors == ServiceSpec => []MirrorsUnlessRaced
<1>1. ServiceInv /\ CalmInv => MirrorsUnlessRaced
  BY NotCalm DEF CalmInv, InstallInv, MirrorsUnlessRaced
<1> QED BY <1>1, InstallInvariant, PTL
=============================================================================
