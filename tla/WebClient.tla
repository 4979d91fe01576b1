----------------------------- MODULE WebClient -----------------------------
(***************************************************************************)
(* The page (api/web/app.js): two panes, one for documents and one for     *)
(* schemas, and the list of jobs from which earlier ones are opened.       *)
(*                                                                         *)
(* A click starts an asynchronous function, here a handler, which the      *)
(* event loop runs from one await to the next.  Each step of a handler     *)
(* stands for an answer and what is done with it until the next await.     *)
(* Nothing keeps the user from starting another handler meanwhile, but     *)
(* that the button that submits is disabled.                               *)
(*                                                                         *)
(* Of the page there is what later steps read and what the user can take   *)
(* from it; texts, stages and labels are left out, and so is the list of   *)
(* jobs, whose rows may show a job as it was long ago.  The server is      *)
(* reduced to the statuses of jobs; a queued and a running one look alike  *)
(* here.                                                                   *)
(***************************************************************************)
EXTENDS Jobs

CONSTANTS
  Panes,        \* the panes in use
  Handlers,     \* the calls of asynchronous functions that go on at once
  DocumentJobs, SchemaJobs,   \* the ids of jobs that the panes can submit
  NoJob         \* state.currentID, a result or an output when it is ""

ASSUME WebAssumption ==
  /\ Panes \subseteq Kinds /\ Panes # {}
  /\ NoJob \notin DocumentJobs \cup SchemaJobs
  /\ DocumentJobs \cap SchemaJobs = {}
  /\ \E g, h \in Handlers : g # h

WebJobs == DocumentJobs \cup SchemaJobs
JobsOf  == [p \in Panes |-> IF p = "document" THEN DocumentJobs ELSE SchemaJobs]

VARIABLES
  server,   \* server[id]: the status of a job on the server, "absent" if unknown
  current,  \* current[p]: state.currentID, state.schemaID
  results,  \* results[p]: the jobs that the texts in state.results are from
  shown,    \* shown[p]: the job whose result is in the output and can be copied
  error,    \* error[p]: an error is shown
  busy,     \* busy[p]: the button that submits is disabled
  calm,     \* calm[p]: the user has not interfered with the last handler of p
  handler   \* handler[h]: how far a call has come

pane == <<current, results, shown, error, busy>>
vars == <<server, pane, calm, handler>>

Free == [does |-> "nothing", pane |-> CHOOSE p \in Panes : TRUE, at |-> "end", job |-> NoJob,
         xml |-> FALSE, json |-> FALSE, late |-> FALSE]

\* A call that ends by an exception that nothing catches.
Rejected == [Free EXCEPT !.does = "rejected"]

Nothing    == [xml |-> NoJob, json |-> NoJob]
Both(id)   == [xml |-> id, json |-> id]
Running(h) == handler[h].at # "end"

\* The handlers that work on the pane p.
On(p) == {h \in Handlers : /\ Running(h) /\ handler[h].pane = p
                           /\ handler[h].does \notin {"clear", "start"}}

\* An id that nothing mentions any more stands for the next new one.
Fresh(id) ==
  /\ server[id] = "absent"
  /\ \A h \in Handlers : handler[h].job # id
  /\ \A p \in Panes : id \notin {current[p], results[p].xml, results[p].json, shown[p]}

\* What loading the page starts, and does not wait for: one call that asks for
\* the list of jobs and one for the schema.
Starting(p, at) == [Free EXCEPT !.does = "start", !.pane = p, !.at = at]

Init ==
  /\ server = [id \in WebJobs |-> "absent"]
  /\ current = [p \in Panes |-> NoJob]
  /\ results = [p \in Panes |-> Nothing]
  /\ shown = [p \in Panes |-> NoJob]
  /\ error = [p \in Panes |-> FALSE]
  /\ busy = [p \in Panes |-> FALSE]
  /\ calm = [p \in Panes |-> TRUE]
  /\ \E g, h \in Handlers, p \in Panes :
       /\ g # h
       /\ handler = [f \in Handlers |->
            CASE f = g                          -> Starting(p, "list")
              [] f = h /\ "schema" \in Panes -> Starting("schema", "schema")
              [] OTHER                          -> Free]
-----------------------------------------------------------------------------
(* What the handlers do to the pane they work on. *)

Put(var, h, v) == [var EXCEPT ![handler[h].pane] = v]

\* Go on at the next request, of the job in hand.
Await(h, at) == handler' = [handler EXCEPT ![h].at = at]

Silently == UNCHANGED <<current, results, shown, error>>

\* setError with a message; the rest of the pane stays.
Complain(h) == error' = Put(error, h, TRUE) /\ UNCHANGED <<current, results, shown>>

\* Mutant of Fail: the results are dropped instead of set to two empty texts.
FailNull(h) ==
  /\ results' = Put(results, h, NoJob)
  /\ shown' = Put(shown, h, NoJob)
  /\ error' = Put(error, h, TRUE)
  /\ UNCHANGED current

\* The results are reset, the output is drawn, and an error is shown.
Fail(h) ==
  /\ results' = Put(results, h, Nothing)
  /\ shown' = Put(shown, h, NoJob)
  /\ error' = Put(error, h, TRUE)
  /\ UNCHANGED current

\* The end of a handler, with the finally of those that submit.
End(h) ==
  /\ handler' = [handler EXCEPT ![h] = Free]
  /\ busy' = IF handler[h].does = "submit" THEN Put(busy, h, FALSE) ELSE busy

Unhandled(h) ==
  /\ handler' = [handler EXCEPT ![h] = Rejected]
  /\ Silently /\ UNCHANGED busy

\* Mutant of Throw: the catch of submit forgets its finally.
ThrowBusy(h) ==
  IF handler[h].does = "submit"
    THEN Complain(h) /\ handler' = [handler EXCEPT ![h] = Free] /\ UNCHANGED busy
    ELSE Unhandled(h)

\* An exception: submit and parseSchema catch it, the click on a row only when
\* it loads the results of a job that was done in the list.
Throw(h) ==
  CASE handler[h].does = "submit" -> Complain(h) /\ End(h)
    [] handler[h].at = "open"     -> Fail(h) /\ End(h)
    [] OTHER -> Unhandled(h)
-----------------------------------------------------------------------------
(* What the user does. *)

Begin(h, does, p, at, id) ==
  /\ ~Running(h)
  /\ handler' = [g \in Handlers |->
       CASE g = h -> [Free EXCEPT !.does = does, !.pane = p, !.at = at, !.job = id]
         [] g # h -> IF Running(g) THEN handler[g] ELSE Free]
  /\ calm' = IF does = "clear" THEN calm ELSE [calm EXCEPT ![p] = On(p) = {}]
  /\ UNCHANGED server

\* submit, parseSchema: up to the POST.
Submit(h, p) ==
  /\ ~busy[p]
  /\ Begin(h, "submit", p, "post", NoJob)
  /\ busy' = [busy EXCEPT ![p] = TRUE]
  /\ error' = [error EXCEPT ![p] = FALSE]
  /\ results' = [results EXCEPT ![p] = Nothing]
  /\ shown' = [shown EXCEPT ![p] = NoJob]
  /\ UNCHANGED current

\* submit, parseSchema of an empty body.
SubmitEmpty(p) ==
  /\ ~busy[p]
  /\ error' = [error EXCEPT ![p] = TRUE]
  /\ calm' = [calm EXCEPT ![p] = @ /\ On(p) = {}]
  /\ UNCHANGED <<server, current, results, shown, busy, handler>>

\* A click on a row of the list, which shows the job as it was when the list was
\* last drawn: what was done then is loaded, the rest is polled.
ClickRow(h, id) ==
  \E p \in Panes :
    /\ id \in JobsOf[p]
    /\ \/ Begin(h, "row", p, "poll", id)
       \/ server[id] \in {"done", "absent"} /\ Begin(h, "row", p, "open", id)
    /\ current' = [current EXCEPT ![p] = id]
    /\ error' = [error EXCEPT ![p] = FALSE]
    /\ UNCHANGED <<results, shown, busy>>

\* clearJobs, clearSchemaJobs, clearSchema.
ClickClear(h, p) == Begin(h, "clear", p, "delete", NoJob) /\ UNCHANGED pane
ClickClearSchema(h) ==
  /\ "schema" \in Panes
  /\ Begin(h, "clearSchema", "schema", "unload", NoJob)
  /\ UNCHANGED pane

\* Mutant of SwitchFormat: the output is not drawn again.
SwitchFormatUndrawn(p) ==
  /\ current' = [current EXCEPT ![p] = NoJob]
  /\ results' = [results EXCEPT ![p] = Nothing]
  /\ error' = [error EXCEPT ![p] = FALSE]
  /\ calm' = [calm EXCEPT ![p] = @ /\ On(p) = {}]
  /\ UNCHANGED <<server, shown, busy, handler>>

\* setFormat, setSchemaSrc to the other format: the pane is reset, whatever
\* goes on; its handlers go on.
SwitchFormat(p) ==
  /\ current' = [current EXCEPT ![p] = NoJob]
  /\ results' = [results EXCEPT ![p] = Nothing]
  /\ shown' = [shown EXCEPT ![p] = NoJob]
  /\ error' = [error EXCEPT ![p] = FALSE]
  /\ calm' = [calm EXCEPT ![p] = @ /\ On(p) = {}]
  /\ UNCHANGED <<server, busy, handler>>

\* setFormat, setSchemaSrc to the format that is chosen: the output is drawn anew.
Redraw(p) ==
  /\ shown' = [shown EXCEPT ![p] = results[p].xml]
  /\ UNCHANGED <<server, current, results, error, busy, calm, handler>>

\* readConvertFile, readSchemaFile, of a file with a right name or a wrong one.
ChooseFile(p) ==
  /\ \E wrong \in BOOLEAN : error' = [error EXCEPT ![p] = wrong]
  /\ calm' = [calm EXCEPT ![p] = @ /\ On(p) = {}]
  /\ UNCHANGED <<server, current, results, shown, busy, handler>>
-----------------------------------------------------------------------------
(* The steps of handlers: an answer, and what follows it. *)

\* The POST is answered with a ticket, or refused.
Posted(h) ==
  /\ handler[h].at = "post"
  /\ \/ \E id \in JobsOf[handler[h].pane] :
          /\ Fresh(id)
          /\ server' = [server EXCEPT ![id] = "unfinished"]
          /\ current' = Put(current, h, id)
          /\ handler' = [handler EXCEPT ![h].at = "poll", ![h].job = id]
          /\ UNCHANGED <<results, shown, error, busy>>
     \/ Complain(h) /\ End(h) /\ UNCHANGED server
  /\ UNCHANGED calm

\* Mutant of Polled: a job that is not finished is polled for ever.
PolledForever(h) ==
  /\ handler[h].at = "poll"
  /\ \/ server[handler[h].job] = "absent" /\ Complain(h) /\ Await(h, "list")
     \/ server[handler[h].job] = "failed" /\ Fail(h) /\ Await(h, "list")
     \/ server[handler[h].job] = "done" /\ Silently /\ Await(h, "load")
  /\ UNCHANGED <<server, busy, calm>>

\* Mutant of Polled: that the job is unknown is not shown.
PolledUnknown(h) ==
  /\ handler[h].at = "poll"
  /\ \/ handler[h].late /\ Complain(h) /\ Await(h, "list")
     \/ /\ ~handler[h].late
        /\ \/ server[handler[h].job] = "absent" /\ Silently /\ Await(h, "list")
           \/ server[handler[h].job] = "failed" /\ Fail(h) /\ Await(h, "list")
           \/ server[handler[h].job] = "done" /\ Silently /\ Await(h, "load")
  /\ UNCHANGED <<server, busy, calm>>

\* The loop of pollJob ends: at the deadline, or because the job is unknown,
\* failed or done. A turn that finds it unfinished changes nothing.
Polled(h) ==
  /\ handler[h].at = "poll"
  /\ \/ handler[h].late /\ Complain(h) /\ Await(h, "list")
     \/ /\ ~handler[h].late
        /\ \/ server[handler[h].job] = "absent" /\ Complain(h) /\ Await(h, "list")
           \/ server[handler[h].job] = "failed" /\ Fail(h) /\ Await(h, "list")
           \/ server[handler[h].job] = "done" /\ Silently /\ Await(h, "load")
  /\ UNCHANGED <<server, busy, calm>>

\* The thirty seconds pass after a turn that found the job unfinished: there is
\* no other turn, whatever becomes of the job.
Expire(h) ==
  /\ handler[h].at = "poll"
  /\ ~handler[h].late
  /\ server[handler[h].job] = "unfinished"
  /\ handler' = [handler EXCEPT ![h].late = TRUE]
  /\ UNCHANGED <<server, pane, calm>>

Loading(h) == handler[h].at \in {"load", "open"}

\* Mutant of AnswerXML: the first of the two results is kept as soon as it is there.
AnswerXMLAtOnce(h) ==
  /\ Loading(h) /\ ~handler[h].xml
  /\ server[handler[h].job] = "done"
  /\ handler' = [handler EXCEPT ![h].xml = TRUE]
  /\ results' = [results EXCEPT ![handler[h].pane].xml = handler[h].job]
  /\ UNCHANGED <<server, current, shown, error, busy, calm>>

\* loadResults, loadSchemaResults ask for both results at once; the job may
\* leave the server between the answers.
AnswerXML(h) ==
  /\ Loading(h) /\ ~handler[h].xml
  /\ server[handler[h].job] = "done"
  /\ handler' = [handler EXCEPT ![h].xml = TRUE]
  /\ UNCHANGED <<server, pane, calm>>

AnswerJSON(h) ==
  /\ Loading(h) /\ ~handler[h].json
  /\ server[handler[h].job] = "done"
  /\ handler' = [handler EXCEPT ![h].json = TRUE]
  /\ UNCHANGED <<server, pane, calm>>

\* What follows the loading: the status of the schema, the list, or nothing.
Loaded(h) ==
  /\ Loading(h) /\ handler[h].xml /\ handler[h].json
  /\ results' = Put(results, h, Both(handler[h].job))
  /\ shown' = Put(shown, h, handler[h].job)
  /\ IF handler[h].at = "open" THEN End(h)
     ELSE /\ Await(h, IF handler[h].pane = "schema" THEN "schema" ELSE "list")
          /\ UNCHANGED busy
  /\ UNCHANGED <<server, current, error, calm>>

\* One of the results is refused: the job is not done, or not known, any more.
LoadRefused(h) ==
  /\ Loading(h) /\ ~(handler[h].xml /\ handler[h].json)
  /\ server[handler[h].job] # "done"
  /\ Throw(h)
  /\ UNCHANGED <<server, calm>>

\* refreshSchema, which may show an error: at the start, in clearSchema, which
\* draws the output then, or after the results of a schema were loaded.
SchemaRefreshed(h) ==
  /\ handler[h].at = "schema"
  /\ \E failed \in BOOLEAN : error' = IF failed THEN Put(error, h, TRUE) ELSE error
  /\ CASE handler[h].does = "start"       -> UNCHANGED shown /\ End(h)
       [] handler[h].does = "clearSchema" ->
            shown' = Put(shown, h, results[handler[h].pane].xml) /\ End(h)
       [] OTHER -> Await(h, "list") /\ UNCHANGED <<shown, busy>>
  /\ UNCHANGED <<server, current, results, calm>>

\* refreshJobs: the list is drawn anew, or left as it is when it is refused.
Listed(h) ==
  /\ handler[h].at = "list"
  /\ Silently /\ End(h)
  /\ UNCHANGED <<server, calm>>

\* DELETE /jobs of one kind.
Deleted(h) ==
  /\ handler[h].at = "delete"
  /\ server' = [id \in WebJobs |->
       IF id \in JobsOf[handler[h].pane] /\ server[id] \in {"done", "failed"} THEN "absent" ELSE server[id]]
  /\ Await(h, "list")
  /\ UNCHANGED <<pane, calm>>

\* DELETE /schema in clearSchema: the results are reset, the output stays.
Unloaded(h) ==
  /\ handler[h].at = "unload"
  /\ error' = Put(error, h, FALSE)
  /\ results' = Put(results, h, Nothing)
  /\ Await(h, "schema")
  /\ UNCHANGED <<server, current, shown, busy, calm>>

\* A request gets no answer: fetch throws. What it asked for may be done.
Lost(h) ==
  /\ Running(h)
  /\ Throw(h)
  /\ \/ UNCHANGED server
     \/ /\ handler[h].at = "post"
        /\ \E id \in JobsOf[handler[h].pane] :
             /\ Fresh(id)
             /\ server' = [server EXCEPT ![id] = "unfinished"]
  /\ UNCHANGED calm

\* Jobs end, other clients submit, and finished jobs are cleared or evicted.
ServerStep ==
  /\ \E id \in WebJobs, next \in {"absent", "unfinished", "done", "failed"} :
       /\ CASE server[id] = "absent"     -> Fresh(id) /\ next = "unfinished"
            [] server[id] = "unfinished" -> next \in {"done", "failed"}
            [] OTHER                     -> next = "absent"
       /\ server' = [server EXCEPT ![id] = next]
  /\ UNCHANGED <<pane, calm, handler>>

Step(h) ==
  \/ Posted(h) \/ Polled(h) \/ AnswerXML(h) \/ AnswerJSON(h) \/ Loaded(h) \/ LoadRefused(h)
  \/ SchemaRefreshed(h) \/ Listed(h) \/ Deleted(h) \/ Unloaded(h)

Click ==
  \/ \E h \in Handlers, p \in Panes : Submit(h, p) \/ ClickClear(h, p)
  \/ \E h \in Handlers, id \in WebJobs : ClickRow(h, id)
  \/ \E h \in Handlers : ClickClearSchema(h)
  \/ \E p \in Panes : SubmitEmpty(p) \/ SwitchFormat(p) \/ Redraw(p) \/ ChooseFile(p)

Next ==
  \/ Click \/ ServerStep
  \/ \E h \in Handlers : Step(h) \/ Expire(h) \/ Lost(h)

\* The event loop runs what has been answered, requests are answered unless they
\* are lost, and time passes. Neither the user nor the server has to do anything.
Fairness == \A h \in Handlers : WF_vars(Step(h)) /\ WF_vars(Expire(h))

Spec == Init /\ [][Next]_vars /\ Fairness
-----------------------------------------------------------------------------
HandlerStates ==
  [does : {"nothing", "rejected", "start", "submit", "row", "clear", "clearSchema"},
   pane : Panes,
   at : {"end", "post", "poll", "load", "open", "schema", "list", "delete", "unload"},
   job : WebJobs \cup {NoJob}, xml : BOOLEAN, json : BOOLEAN, late : BOOLEAN]

\* Every variable has its type.
WebTypeOK ==
  /\ server \in [WebJobs -> {"absent", "unfinished", "done", "failed"}]
  /\ current \in [Panes -> WebJobs \cup {NoJob}]
  /\ results \in [Panes -> [xml : WebJobs \cup {NoJob}, json : WebJobs \cup {NoJob}]]
  /\ shown \in [Panes -> WebJobs \cup {NoJob}]
  /\ error \in [Panes -> BOOLEAN]
  /\ busy \in [Panes -> BOOLEAN]
  /\ calm \in [Panes -> BOOLEAN]
  /\ handler \in [Handlers -> HandlerStates]

\* However submissions, clicks and answers overlap, the two texts of a pane are
\* the two results of one job (loadResults stores them together, app.js:563).
ResultsPaired == \A p \in Panes : results[p].xml = results[p].json

Submits(p) == {h \in Handlers : handler[h].does = "submit" /\ handler[h].pane = p}

\* The button that submits is disabled just while a submission of its pane goes
\* on, and there is never a second one: every way out passes the finally.
BusyIffSubmitting ==
  \A p \in Panes :
    /\ busy[p] <=> Submits(p) # {}
    /\ \A g, h \in Submits(p) : g = h

\* What is copied and downloaded, state.results, is what is shown: whoever changes
\* one of them leaves them equal, whatever else goes on. But clearSchema empties
\* the results and draws only when the status of the schema is answered.
ExportsMatch ==
  [][\A p \in Panes :
       \/ shown'[p] = results'[p].xml
       \/ shown'[p] = shown[p] /\ results'[p] = results[p]
       \/ \E h \in Handlers : handler[h].at = "unload" /\ handler'[h].at = "schema"]_vars

\* A submission, or an opened job, that nobody interfered with ends with an error
\* shown or with the results of the pane's own job, unless it ends by an exception
\* that nothing catches.
OutcomeShown ==
  [][\A h \in Handlers :
       LET p == handler[h].pane IN
       Running(h) /\ handler[h].does \in {"submit", "row"} /\ calm[p] /\ handler'[h] = Free
         => error'[p] \/ (results'[p] = Both(current'[p]) /\ current'[p] # NoJob)]_vars

\* What the user starts ends, whatever becomes of the job: pollJob gives up after
\* thirty seconds, and the button is enabled again.
HandlersEnd == \A h \in Handlers : Running(h) ~> ~Running(h)
=============================================================================
