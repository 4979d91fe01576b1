------------------------------ MODULE Service ------------------------------
(***************************************************************************)
(* The server (api/server.go, api/persist.go) around the queue and the     *)
(* store: what the queue's persister and its onDone callback do, the       *)
(* current document and schema in memory and on disk, DELETE /schema, and  *)
(* the death and restart of the process.                                   *)
(*                                                                         *)
(* The process dies without Close: main leaves ListenAndServe only through *)
(* log.Fatal, which skips its deferred srv.Close().                        *)
(***************************************************************************)
EXTENDS Queue

CONSTANTS
  Admins,       \* the handlers of DELETE /schema
  MaxFaults,    \* how many writes to the store may fail, bounds TLC
  MaxRestarts   \* how many times the process may die, bounds TLC

ASSUME ServiceAssumption == MaxFaults \in Nat /\ MaxRestarts \in Nat

VARIABLES
  rows, document, schema,  \* the tables of the store
  doc,        \* s.doc: the job that it is the result of, NoJob for nil
  sch,        \* s.sch: the job that loaded it, NoJob for nil
  decodedBy,  \* decodedBy[id]: the schema s.process read to decode job id
  install,    \* install[w]: how far the callback of worker w has come
  admin,      \* admin[a]: how far the DELETE /schema of handler a has come
  acked,      \* the jobs whose ticket has been returned
  born,       \* the jobs accepted since the process started
  raced,      \* changes of the document or the schema have overlapped, so far
  faults, restarts

disk    == <<rows, document, schema>>
memory  == <<doc, sch, decodedBy>>
history == <<acked, born, raced>>
service == <<disk, memory, install, admin, history, faults, restarts>>
everything == <<vars, service>>

\* The times of one run of TLC stay below Base, where their texts have one digit
\* and sort like them; module Store is about those that do not.
Db == INSTANCE Store WITH
        RowIds <- JobIds, limit <- MaxJobs, Blobs <- JobIds, NoBlob <- NoJob,
        Base <- 10, Width <- 1, Times <- {}, Limits <- {}

Kind(id) == JobKind(request[id])

\* A write to the store: the queue and the server ignore its error.
Write(A) ==
  \/ A /\ UNCHANGED faults
  \/ faults < MaxFaults /\ faults' = faults + 1 /\ UNCHANGED disk

ServiceInit ==
  /\ Init
  /\ Db!Init
  /\ doc = NoJob
  /\ sch = NoJob
  /\ decodedBy = [id \in JobIds |-> NoJob]
  /\ install = [w \in Workers |-> "memory"]
  /\ admin = [a \in Admins |-> "idle"]
  /\ acked = {}
  /\ born = {}
  /\ raced = FALSE
  /\ faults = 0
  /\ restarts = 0
-----------------------------------------------------------------------------
(* The steps of the queue that go through sqlitePersist. Times of unfinished
   rows are never compared, and left out. *)

ServiceSend(c, id, r) ==
  /\ Send(c, id, r)
  /\ born' = born \cup {id}
  /\ UNCHANGED <<disk, memory, install, admin, acked, raced, faults, restarts>>

ServiceRecord(c) == Record(c) /\ UNCHANGED service

\* Mutant of ServiceReturn: the ticket is made from what the call has reset.
ServiceReturnStale(c) ==
  /\ Return(c)
  /\ acked' = acked \cup {caller'[c].job}
  /\ UNCHANGED <<disk, memory, install, admin, born, raced, faults, restarts>>

ServiceReturn(c) ==
  /\ Return(c)
  /\ acked' = acked \cup {caller[c].job}
  /\ UNCHANGED <<disk, memory, install, admin, born, raced, faults, restarts>>

Save(id, st, time) == Write(Db!Put(id, Kind(id), st, time))

Persist(c) ==
  /\ \/ SaveQueued(c) /\ Save(caller[c].job, "queued", 0)
     \/ ClearRows(c) /\ Write(Db!DeleteFinished(caller[c].kind))
     \/ \E id \in JobIds : EvictRow(c, id) /\ Write(Db!Delete(id))
  /\ UNCHANGED <<memory, install, admin, history, restarts>>

PersistStatus(w) ==
  /\ \/ SaveRunning(w) /\ Save(worker[w].task, "running", 0)
     \/ SaveFinal(w) /\ Save(worker[w].task, worker[w].outcome, updated[worker[w].task])
  /\ UNCHANGED <<memory, install, admin, history, restarts>>

\* The steps of the queue that do not concern the store or the server.
QueueOnly ==
  /\ \/ \E c \in Callers :
          \/ Submit(c) \/ Reject(c)
          \/ \E kind \in Filters : Clear(c, kind)
     \/ \E w \in Workers : Receive(w) \/ Start(w) \/ Finish(w) \/ Signal(w)
  /\ UNCHANGED service
-----------------------------------------------------------------------------
(* process and onJobDone. *)

\* Mutant of ServiceProcess: the outcome is saved before q.jobs has it.
ServiceProcessSaves(w, outcome) ==
  /\ Process(w, outcome)
  /\ Save(worker[w].task, outcome, clock)
  /\ UNCHANGED <<memory, install, admin, history, restarts>>

\* Documents are decoded with the schema loaded when the processing begins.
ServiceProcess(w, outcome) ==
  /\ Process(w, outcome)
  /\ LET id == worker[w].task IN
       decodedBy' = IF request[id] = "document"
                      THEN [decodedBy EXCEPT ![id] = sch]
                      ELSE decodedBy
  /\ UNCHANGED <<disk, doc, sch, install, admin, history, faults, restarts>>

AtInstall(w, step) == worker[w].pc = "callback" /\ install[w] = step

\* The changes of the document or the schema that memory has and the tables have
\* not: callbacks of workers and calls of DELETE /schema.
Installing == {w \in Workers : install[w] # "memory"}
Deleting   == {a \in Admins : admin[a] # "idle"}
UnderWay   == Installing # {} \/ Deleting # {}

\* Worker w has decoded a document with the schema it found, and not installed it.
Decoded(w) ==
  /\ worker[w].pc \in {"finish", "saveFinal", "callback"}
  /\ install[w] = "memory"
  /\ request[worker[w].task] = "document"

\* Another change is under way, or the schema changes behind the back of a worker
\* that has used it. Nothing in the code prevents either.
Races(schemaChanges) == UnderWay \/ (schemaChanges /\ \E w \in Workers : Decoded(w))

\* Mutant of InstallMemory: a new schema leaves the document as it is.
InstallKeepsDocument(w) ==
  /\ AtInstall(w, "memory")
  /\ LET id == worker[w].task IN
       IF Kind(id) = "schema"
         THEN /\ sch' = id
              /\ install' = [install EXCEPT ![w] = "clearDocument"]
              /\ UNCHANGED doc
         ELSE /\ doc' = id
              /\ install' = [install EXCEPT ![w] = "persist"]
              /\ UNCHANGED sch
  /\ raced' = (raced \/ Races(Kind(worker[w].task) = "schema"))
  /\ UNCHANGED <<vars, disk, decodedBy, admin, acked, born, faults, restarts>>

\* onJobDone, under s.mu: a schema is loaded and discards the document, any
\* other result becomes the current document.
InstallMemory(w) ==
  /\ AtInstall(w, "memory")
  /\ LET id == worker[w].task IN
       IF Kind(id) = "schema"
         THEN /\ sch' = id
              /\ doc' = NoJob
              /\ install' = [install EXCEPT ![w] = "clearDocument"]
         ELSE /\ doc' = id
              /\ install' = [install EXCEPT ![w] = "persist"]
              /\ UNCHANGED sch
  /\ raced' = (raced \/ Races(Kind(worker[w].task) = "schema"))
  /\ UNCHANGED <<vars, disk, decodedBy, admin, acked, born, faults, restarts>>

\* Mutant of InstallClearDocument: the row of the document stays.
InstallKeepsRow(w) ==
  /\ AtInstall(w, "clearDocument")
  /\ install' = [install EXCEPT ![w] = "persist"]
  /\ UNCHANGED <<vars, disk, memory, admin, history, faults, restarts>>

\* setSchema: ClearDocument, after s.mu is released.
InstallClearDocument(w) ==
  /\ AtInstall(w, "clearDocument")
  /\ install' = [install EXCEPT ![w] = "persist"]
  /\ Write(Db!ClearDocument)
  /\ UNCHANGED <<vars, memory, admin, history, restarts>>

\* SetSchema or persistDocument; the callback returns.
InstallPersist(w) ==
  /\ AtInstall(w, "persist")
  /\ Callback(w)
  /\ install' = [install EXCEPT ![w] = "memory"]
  /\ LET id == worker[w].task IN
       Write(IF Kind(id) = "schema" THEN Db!SetSchema(id) ELSE Db!SetDocument(id))
  /\ UNCHANGED <<memory, admin, history, restarts>>
-----------------------------------------------------------------------------
(* DELETE /schema is setSchema(nil, nil). *)

DeleteSchema(a) ==
  /\ admin[a] = "idle"
  /\ sch' = NoJob
  /\ doc' = NoJob
  /\ admin' = [admin EXCEPT ![a] = "clearDocument"]
  /\ raced' = (raced \/ Races(TRUE))
  /\ UNCHANGED <<vars, disk, decodedBy, install, acked, born, faults, restarts>>

DeleteSchemaRows(a) ==
  /\ \/ /\ admin[a] = "clearDocument"
        /\ Write(Db!ClearDocument)
        /\ admin' = [admin EXCEPT ![a] = "clearSchema"]
     \/ /\ admin[a] = "clearSchema"
        /\ Write(Db!ClearSchema)
        /\ admin' = [admin EXCEPT ![a] = "idle"]
  /\ UNCHANGED <<vars, memory, install, history, restarts>>
-----------------------------------------------------------------------------
\* The process dies wherever it is and starts again: the store is opened, which
\* fails the jobs it finds unfinished, and restore loads document and schema.
\* No request is served before that.
Restart ==
  /\ restarts < MaxRestarts
  /\ restarts' = restarts + 1
  /\ tasks' = <<>>
  /\ closed' = FALSE
  /\ Drop(JobIds)
  /\ victims' = {}
  /\ signalled' = {}
  /\ worker' = [w \in Workers |-> Ready]
  /\ caller' = [c \in Callers |-> Idle]
  /\ install' = [w \in Workers |-> "memory"]
  /\ admin' = [a \in Admins |-> "idle"]
  /\ clock' = clock + 1
  /\ Db!Open(clock + 1)
  /\ doc' = document
  /\ sch' = schema
  /\ born' = {}
  /\ UNCHANGED <<updated, request, decodedBy, acked, raced, faults>>

ServiceNext ==
  \/ QueueOnly
  \/ \E c \in Callers :
       \/ ServiceRecord(c) \/ Persist(c) \/ ServiceReturn(c)
       \/ \E id \in JobIds, r \in Requests : ServiceSend(c, id, r)
  \/ \E w \in Workers :
       \/ PersistStatus(w)
       \/ \E outcome \in Finished : ServiceProcess(w, outcome)
       \/ InstallMemory(w) \/ InstallClearDocument(w) \/ InstallPersist(w)
  \/ \E a \in Admins : DeleteSchema(a) \/ DeleteSchemaRows(a)
  \/ Restart

ServiceSpec == ServiceInit /\ [][ServiceNext]_everything
-----------------------------------------------------------------------------
(* Properties. *)

\* The types of the tables, of the server's fields and of the handlers' progress.
ServiceTypeOK ==
  /\ TypeOK
  /\ Db!TypeOK
  /\ doc \in JobIds \cup {NoJob}
  /\ sch \in JobIds \cup {NoJob}
  /\ decodedBy \in [JobIds -> JobIds \cup {NoJob}]
  /\ install \in [Workers -> {"memory", "clearDocument", "persist"}]
  /\ admin \in [Admins -> {"idle", "clearDocument", "clearSchema"}]
  /\ acked \subseteq JobIds /\ born \subseteq JobIds
  /\ raced \in BOOLEAN
  /\ faults \in 0..MaxFaults
  /\ restarts \in 0..MaxRestarts

\* A client that holds the ticket of an unfinished job can count on its row:
\* whatever the interleaving of saves, evictions and DELETE /jobs, the row is
\* there and unfinished, so that a crash turns it into a failed job and never
\* makes the ticket unknown.
InFlightRowKept ==
  \A id \in acked : status[id] \in Unfinished => rows[id].status \in Unfinished

\* The store never announces an outcome before the queue has it, nor another:
\* GET /jobs, which reads the store first, is never ahead of GET /jobs/{id}.
StoreNeverAhead ==
  \A id \in Known : rows[id].status \in Finished => rows[id].status = status[id]

\* Only jobs of the running process can be queued or running in the store: those
\* that an earlier run left behind have been failed, and no save revives one.
NoForeignUnfinished ==
  \A id \in JobIds : rows[id].status \in Unfinished => id \in born

NothingInProgress ==
  /\ \A w \in Workers : worker[w].pc = "receive"
  /\ \A c \in Callers : caller[c].pc = "idle"
  /\ \A a \in Admins : admin[a] = "idle"
  /\ tasks = <<>>

\* README: the document and the schema survive a restart. At rest, the tables
\* hold what the server serves.
StoreMirrorsMemory == NothingInProgress => document = doc /\ schema = sch

\* What does hold of it, for any number of workers and of calls of DELETE /schema:
\* if no two changes of the document or the schema have overlapped and no write
\* has failed, then between two changes the tables hold what the server serves,
\* whatever else is going on and wherever the process has died.
MirrorsUnlessRaced ==
  raced \/ faults > 0 \/ UnderWay \/ (document = doc /\ schema = sch)

\* README: without ?catalog=1 documents are decoded by the loaded schema, and
\* loading another discards the document. As long as nothing has raced and no
\* write has failed, the document that the server serves, in memory or restored
\* after a crash between any two writes of setSchema or of persistDocument, was
\* decoded by the schema that it serves.
DocumentMatchesSchema ==
  \/ raced
  \/ faults > 0
  \/ doc # NoJob /\ request[doc] = "document" => decodedBy[doc] = sch

\* api_test.go:274 and README: a job that the queue has finished is finished in
\* GET /jobs, which lists the store, and one that was deleted or evicted is not
\* listed, at the latest when everything has come to rest.
HistoryAgrees ==
  NothingInProgress =>
    \A id \in born :
      rows[id].status = IF id \in Known THEN status[id] ELSE Db!NoRow.status

\* README: after a successful schema job the schema is loaded. A client that sees
\* such a job done finds a schema, as long as nobody deletes it.
DoneIsLoaded ==
  \A id \in JobIds : status[id] = "done" /\ Kind(id) = "schema" => sch # NoJob
=============================================================================
