----------------------------- MODULE WebProofs -----------------------------
(***************************************************************************)
(* Theorems about the page, for every number of calls at once and of jobs  *)
(* and for both panes.                                                     *)
(***************************************************************************)
EXTENDS WebClient, TLAPS

\* A handler that runs is a call that was made, one that asks about a job has one
\* of its pane, and the calls go their own ways.
HandlerOK(s) ==
  /\ s \in HandlerStates
  /\ s.at = "end" <=> s.does \in {"nothing", "rejected"}
  /\ s.at \in {"poll", "load", "open"} => s.job \in JobsOf[s.pane]
  /\ s.does = "clear" => s.at \in {"delete", "list"}
  /\ s.does = "start" => s.at \in {"schema", "list"}
  /\ s.does \in {"submit", "row"} => s.at \notin {"delete", "unload"}

HandlersOK == handler \in [Handlers -> HandlerStates] /\ \A h \in Handlers : HandlerOK(handler[h])

\* The parts of WebTypeOK about the page and the server.
PaneOK ==
  /\ current \in [Panes -> WebJobs \cup {NoJob}]
  /\ results \in [Panes -> [xml : WebJobs \cup {NoJob}, json : WebJobs \cup {NoJob}]]
  /\ shown \in [Panes -> WebJobs \cup {NoJob}]
  /\ error \in [Panes -> BOOLEAN]
  /\ busy \in [Panes -> BOOLEAN]

ServerOK == server \in [WebJobs -> {"absent", "unfinished", "done", "failed"}]

CalmOK == calm \in [Panes -> BOOLEAN]

WebInv == HandlersOK /\ PaneOK /\ ServerOK /\ CalmOK

LEMMA WebInvType == WebInv => WebTypeOK
BY DEF WebInv, WebTypeOK, HandlersOK, PaneOK, ServerOK, CalmOK
-----------------------------------------------------------------------------
LEMMA JobsOfPane == \A p \in Panes : JobsOf[p] \subseteq WebJobs
BY WebAssumption DEF JobsOf, WebJobs

LEMMA FreeOK == HandlerOK(Free) /\ HandlerOK(Rejected)
<1>1. (CHOOSE p \in Panes : TRUE) \in Panes
  BY WebAssumption
<1> QED BY <1>1 DEF HandlerOK, HandlerStates, Free, Rejected

\* What is left to show of a step that changes one handler.
LEMMA OneHandler ==
  ASSUME HandlersOK, NEW h \in Handlers, NEW s, HandlerOK(s), handler' = [handler EXCEPT ![h] = s]
  PROVE  HandlersOK'
BY DEF HandlersOK, HandlerOK

LEMMA MovedOK ==
  ASSUME HandlersOK, NEW h \in Handlers, Running(h),
         NEW at \in {"load", "schema", "list"},
         at = "load" => handler[h].job \in JobsOf[handler[h].pane],
         handler[h].does \in {"clear", "start"} => at = "list",
         Await(h, at)
  PROVE  HandlersOK'
<1> DEFINE s == [handler[h] EXCEPT !.at = at]
<1>1. HandlerOK(s)
  BY DEF HandlersOK, HandlerOK, HandlerStates, Running
<1>2. handler' = [handler EXCEPT ![h] = s]
  BY DEF Await, HandlersOK
<1> QED BY <1>1, <1>2, OneHandler

LEMMA EndedOK ==
  ASSUME HandlersOK, NEW h \in Handlers, End(h) \/ Unhandled(h) \/ Throw(h)
  PROVE  HandlersOK'
<1>1. handler' = [handler EXCEPT ![h] = Free] \/ handler' = [handler EXCEPT ![h] = Rejected]
  BY DEF End, Unhandled, Throw
<1> QED BY <1>1, FreeOK, OneHandler

LEMMA BegunOK ==
  ASSUME HandlersOK, NEW h \in Handlers, NEW p \in Panes, NEW id \in WebJobs \cup {NoJob},
         NEW does \in {"submit", "row", "clear", "clearSchema"},
         NEW at \in {"post", "poll", "open", "delete", "unload"},
         at \notin {"poll", "open"} \/ id \in JobsOf[p],
         does = "clear" <=> at = "delete", does = "clearSchema" <=> at = "unload",
         Begin(h, does, p, at, id)
  PROVE  HandlersOK'
<1> DEFINE s == [Free EXCEPT !.does = does, !.pane = p, !.at = at, !.job = id]
<1>1. HandlerOK(s)
  BY FreeOK DEF HandlerOK, HandlerStates, Free
<1>2. handler' = [g \in Handlers |->
         CASE g = h -> s [] g # h -> IF Running(g) THEN handler[g] ELSE Free]
  BY DEF Begin
<1>3. \A g \in Handlers : handler'[g] \in {s, handler[g], Free}
  BY <1>2
<1>4. \A g \in Handlers : HandlerOK(handler'[g])
  BY <1>1, <1>3, FreeOK DEF HandlersOK
<1> QED BY <1>2, <1>4 DEF HandlersOK, HandlerOK

LEMMA HandlersClick ==
  ASSUME HandlersOK, Click
  PROVE  HandlersOK'
<1>1. ASSUME NEW h \in Handlers, NEW p \in Panes, Submit(h, p) PROVE HandlersOK'
  BY <1>1, BegunOK DEF Submit
<1>2. ASSUME NEW h \in Handlers, NEW p \in Panes, ClickClear(h, p) PROVE HandlersOK'
  BY <1>2, BegunOK DEF ClickClear
<1>3. ASSUME NEW h \in Handlers, NEW id \in WebJobs, ClickRow(h, id) PROVE HandlersOK'
  <2>1. ASSUME NEW p \in Panes, id \in JobsOf[p], NEW at \in {"poll", "open"},
               Begin(h, "row", p, at, id)
        PROVE  HandlersOK'
    BY <2>1, BegunOK
  <2> QED BY <1>3, <2>1 DEF ClickRow
<1>4. ASSUME NEW h \in Handlers, ClickClearSchema(h) PROVE HandlersOK'
  <2>1. "schema" \in Panes
    BY <1>4 DEF ClickClearSchema
  <2> QED BY <1>4, <2>1, BegunOK DEF ClickClearSchema
<1>5. ASSUME NEW p \in Panes, SubmitEmpty(p) \/ SwitchFormat(p) \/ Redraw(p) \/ ChooseFile(p)
      PROVE  HandlersOK'
  BY <1>5 DEF SubmitEmpty, SwitchFormat, Redraw, ChooseFile, HandlersOK
<1> QED BY <1>1, <1>2, <1>3, <1>4, <1>5 DEF Click

LEMMA HandlersStep ==
  ASSUME HandlersOK, NEW h \in Handlers, Step(h) \/ Expire(h) \/ Lost(h)
  PROVE  HandlersOK'
<1>1. CASE Posted(h)
  <2>1. ASSUME NEW id \in JobsOf[handler[h].pane],
               handler' = [handler EXCEPT ![h].at = "poll", ![h].job = id]
        PROVE  HandlersOK'
    <3> DEFINE s == [handler[h] EXCEPT !.at = "poll", !.job = id]
    <3>1. id \in WebJobs
      BY JobsOfPane DEF HandlersOK, HandlerStates
    <3>2. HandlerOK(s)
      BY <1>1, <3>1 DEF HandlersOK, HandlerOK, HandlerStates, Posted
    <3>3. handler' = [handler EXCEPT ![h] = s]
      BY <2>1 DEF HandlersOK
    <3> QED BY <3>2, <3>3, OneHandler
  <2> QED BY <1>1, <2>1, EndedOK DEF Posted
<1>2. CASE Polled(h)
  <2>1. /\ Running(h) /\ handler[h].job \in JobsOf[handler[h].pane]
        /\ handler[h].does \notin {"clear", "start"}
    BY <1>2 DEF Polled, Running, HandlersOK, HandlerOK
  <2>2. Await(h, "list") \/ Await(h, "load")
    BY <1>2 DEF Polled
  <2> QED BY <2>1, <2>2, MovedOK
<1>3. CASE Expire(h) \/ AnswerXML(h) \/ AnswerJSON(h)
  <2>1. PICK s : /\ s \in {[handler[h] EXCEPT !.late = TRUE], [handler[h] EXCEPT !.xml = TRUE],
                           [handler[h] EXCEPT !.json = TRUE]}
                /\ handler' = [handler EXCEPT ![h] = s]
    BY <1>3 DEF Expire, AnswerXML, AnswerJSON, HandlersOK
  <2>2. HandlerOK(s)
    BY <2>1 DEF HandlersOK, HandlerOK, HandlerStates
  <2> QED BY <2>1, <2>2, OneHandler
<1>4. CASE Loaded(h) \/ SchemaRefreshed(h) \/ Listed(h) \/ LoadRefused(h) \/ Lost(h)
  <2>1. CASE Loaded(h)
    <3>1. Running(h) /\ handler[h].does \notin {"clear", "start"}
      BY <2>1 DEF Loaded, Loading, Running, HandlersOK, HandlerOK
    <3>2. End(h) \/ Await(h, "schema") \/ Await(h, "list")
      BY <2>1 DEF Loaded
    <3> QED BY <3>1, <3>2, EndedOK, MovedOK
  <2>2. CASE SchemaRefreshed(h)
    <3>1. Running(h) /\ (End(h) \/ Await(h, "list"))
      BY <2>2 DEF SchemaRefreshed, Running
    <3> QED BY <3>1, EndedOK, MovedOK
  <2>3. CASE Listed(h) \/ LoadRefused(h) \/ Lost(h)
    BY <2>3, EndedOK DEF Listed, LoadRefused, Lost
  <2> QED BY <1>4, <2>1, <2>2, <2>3
<1>5. CASE Deleted(h) \/ Unloaded(h)
  <2>1. CASE Deleted(h)
    <3>1. Running(h) /\ Await(h, "list")
      BY <2>1 DEF Deleted, Running
    <3> QED BY <3>1, MovedOK
  <2>2. CASE Unloaded(h)
    <3>1. Running(h) /\ handler[h].does \notin {"clear", "start"} /\ Await(h, "schema")
      BY <2>2 DEF Unloaded, Running, HandlersOK, HandlerOK
    <3> QED BY <3>1, MovedOK
  <2> QED BY <1>5, <2>1, <2>2
<1> QED BY <1>1, <1>2, <1>3, <1>4, <1>5 DEF Step

LEMMA HandlersNext ==
  ASSUME HandlersOK, [Next]_vars
  PROVE  HandlersOK'
<1>1. CASE Click
  BY <1>1, HandlersClick
<1>2. CASE ServerStep
  BY <1>2 DEF ServerStep, HandlersOK
<1>3. ASSUME NEW h \in Handlers, Step(h) \/ Expire(h) \/ Lost(h) PROVE HandlersOK'
  BY <1>3, HandlersStep
<1>4. CASE UNCHANGED vars
  BY <1>4 DEF vars, HandlersOK
<1> QED BY <1>1, <1>2, <1>3, <1>4 DEF Next
-----------------------------------------------------------------------------
\* The pane of a handler, and what can be put into it.
LEMMA PutOK ==
  ASSUME HandlersOK, NEW h \in Handlers, NEW S, NEW var \in [Panes -> S], NEW v \in S
  PROVE  Put(var, h, v) \in [Panes -> S]
BY DEF Put, HandlersOK, HandlerStates

LEMMA NothingOK ==
  /\ Nothing \in [xml : WebJobs \cup {NoJob}, json : WebJobs \cup {NoJob}]
  /\ \A id \in WebJobs : Both(id) \in [xml : WebJobs \cup {NoJob}, json : WebJobs \cup {NoJob}]
BY DEF Nothing, Both

LEMMA PaneClick ==
  ASSUME HandlersOK, PaneOK, CalmOK, Click
  PROVE  PaneOK' /\ CalmOK'
<1> USE DEF PaneOK, CalmOK
<1>1. ASSUME NEW h \in Handlers, NEW p \in Panes, Submit(h, p) PROVE PaneOK' /\ CalmOK'
  BY <1>1, NothingOK DEF Submit, Begin
<1>2. ASSUME NEW h \in Handlers, NEW p \in Panes, ClickClear(h, p) PROVE PaneOK' /\ CalmOK'
  BY <1>2 DEF ClickClear, Begin, pane
<1>3. ASSUME NEW h \in Handlers, NEW id \in WebJobs, ClickRow(h, id) PROVE PaneOK' /\ CalmOK'
  <2>1. CalmOK'
    BY <1>3 DEF ClickRow, Begin
  <2>2. PaneOK'
    BY <1>3 DEF ClickRow
  <2> QED BY <2>1, <2>2
<1>4. ASSUME NEW h \in Handlers, ClickClearSchema(h) PROVE PaneOK' /\ CalmOK'
  BY <1>4 DEF ClickClearSchema, Begin, pane
<1>5. ASSUME NEW p \in Panes, SwitchFormat(p) PROVE PaneOK' /\ CalmOK'
  <2>1. PaneOK'
    BY <1>5, NothingOK DEF SwitchFormat
  <2>2. (calm[p] /\ On(p) = {}) \in BOOLEAN
    OBVIOUS
  <2>3. calm' = [calm EXCEPT ![p] = calm[p] /\ On(p) = {}]
    BY <1>5 DEF SwitchFormat
  <2>4. CalmOK'
    BY <2>2, <2>3
  <2> QED BY <2>1, <2>4
<1>6. ASSUME NEW p \in Panes, Redraw(p) PROVE PaneOK' /\ CalmOK'
  BY <1>6 DEF Redraw
<1>7. ASSUME NEW p \in Panes, ChooseFile(p) \/ SubmitEmpty(p) PROVE PaneOK' /\ CalmOK'
  <2>1. PaneOK'
    BY <1>7 DEF ChooseFile, SubmitEmpty
  <2>2. (calm[p] /\ On(p) = {}) \in BOOLEAN
    OBVIOUS
  <2>3. calm' = [calm EXCEPT ![p] = calm[p] /\ On(p) = {}]
    BY <1>7 DEF ChooseFile, SubmitEmpty
  <2>4. CalmOK'
    BY <2>2, <2>3
  <2> QED BY <2>1, <2>4
<1> QED BY <1>1, <1>2, <1>3, <1>4, <1>5, <1>6, <1>7 DEF Click

LEMMA PaneStep ==
  ASSUME HandlersOK, PaneOK, NEW h \in Handlers, Step(h) \/ Expire(h) \/ Lost(h)
  PROVE  PaneOK'
<1> USE DEF PaneOK
<1>0. handler[h].pane \in Panes
  BY DEF HandlersOK, HandlerStates
<1>1. ASSUME Complain(h) \/ Fail(h) \/ Silently PROVE
        /\ current' = current /\ shown' \in [Panes -> WebJobs \cup {NoJob}]
        /\ results' \in [Panes -> [xml : WebJobs \cup {NoJob}, json : WebJobs \cup {NoJob}]]
        /\ error' \in [Panes -> BOOLEAN]
  <2>1. CASE Complain(h)
    BY <1>0, <2>1 DEF Complain, Put
  <2>2. CASE Fail(h)
    BY <1>0, <2>2, NothingOK DEF Fail, Put
  <2>3. CASE Silently
    BY <2>3 DEF Silently
  <2> QED BY <1>1, <2>1, <2>2, <2>3
<1>2. ASSUME End(h) \/ UNCHANGED busy PROVE busy' \in [Panes -> BOOLEAN]
  BY <1>0, <1>2 DEF End, Put
<1>3. CASE Throw(h)
  <2>1. (End(h) \/ UNCHANGED busy) /\ (Complain(h) \/ Fail(h) \/ Silently)
    BY <1>3 DEF Throw, Unhandled
  <2> QED BY <1>1, <1>2, <2>1
<1>4. CASE Posted(h)
  <2>1. ASSUME NEW id \in JobsOf[handler[h].pane], current' = Put(current, h, id),
               UNCHANGED <<results, shown, error, busy>>
        PROVE  PaneOK'
    BY <1>0, <2>1, JobsOfPane DEF Put
  <2> QED BY <1>1, <1>2, <1>4, <2>1 DEF Posted
<1>5. CASE Polled(h)
  <2>1. UNCHANGED busy /\ (Complain(h) \/ Fail(h) \/ Silently)
    BY <1>5 DEF Polled
  <2> QED BY <1>1, <2>1
<1>6. CASE Expire(h) \/ AnswerXML(h) \/ AnswerJSON(h) \/ Deleted(h)
  BY <1>6 DEF Expire, AnswerXML, AnswerJSON, Deleted, pane
<1>7. CASE Loaded(h)
  <2>1. handler[h].job \in WebJobs
    BY <1>0, <1>7, JobsOfPane DEF Loaded, Loading, HandlersOK, HandlerOK
  <2>2. results' \in [Panes -> [xml : WebJobs \cup {NoJob}, json : WebJobs \cup {NoJob}]]
    BY <1>0, <1>7, <2>1, NothingOK DEF Loaded, Put
  <2>3. shown' \in [Panes -> WebJobs \cup {NoJob}]
    BY <1>0, <1>7, <2>1 DEF Loaded, Put
  <2>4. busy' \in [Panes -> BOOLEAN]
    BY <1>2, <1>7 DEF Loaded
  <2> QED BY <1>7, <2>2, <2>3, <2>4 DEF Loaded
<1>8. CASE LoadRefused(h) \/ Lost(h)
  BY <1>3, <1>8 DEF LoadRefused, Lost
<1>9. CASE SchemaRefreshed(h)
  <2>1. shown' \in [Panes -> WebJobs \cup {NoJob}] /\ error' \in [Panes -> BOOLEAN]
    BY <1>0, <1>9 DEF SchemaRefreshed, Put
  <2>2. busy' \in [Panes -> BOOLEAN]
    BY <1>2, <1>9 DEF SchemaRefreshed
  <2> QED BY <1>9, <2>1, <2>2 DEF SchemaRefreshed
<1>10. CASE Listed(h)
  BY <1>1, <1>2, <1>10 DEF Listed
<1>11. CASE Unloaded(h)
  BY <1>0, <1>11, NothingOK DEF Unloaded, Put
<1> QED
  BY <1>4, <1>5, <1>6, <1>7, <1>8, <1>9, <1>10, <1>11 DEF Step

LEMMA PaneNext ==
  ASSUME HandlersOK, PaneOK, CalmOK, [Next]_vars
  PROVE  PaneOK' /\ CalmOK'
<1>1. CASE Click
  BY <1>1, PaneClick
<1>2. CASE ServerStep
  BY <1>2 DEF ServerStep, PaneOK, CalmOK, pane
<1>3. ASSUME NEW h \in Handlers, Step(h) \/ Expire(h) \/ Lost(h) PROVE PaneOK' /\ CalmOK'
  <2>1. UNCHANGED calm
    BY <1>3 DEF Step, Expire, Lost, Posted, Polled, AnswerXML, AnswerJSON, Loaded, LoadRefused,
                SchemaRefreshed, Listed, Deleted, Unloaded
  <2> QED BY <1>3, <2>1, PaneStep DEF CalmOK
<1>4. CASE UNCHANGED vars
  BY <1>4 DEF vars, pane, PaneOK, CalmOK
<1> QED BY <1>1, <1>2, <1>3, <1>4 DEF Next

LEMMA ServerNext ==
  ASSUME ServerOK, [Next]_vars
  PROVE  ServerOK'
<1> USE DEF ServerOK
<1>1. CASE Click
  BY <1>1 DEF Click, Submit, ClickClear, ClickRow, ClickClearSchema, Begin, SubmitEmpty,
              SwitchFormat, Redraw, ChooseFile
<1>2. CASE ServerStep
  BY <1>2 DEF ServerStep
<1>3. ASSUME NEW h \in Handlers, Step(h) \/ Expire(h) \/ Lost(h) PROVE ServerOK'
  <2>1. CASE Deleted(h)
    BY <2>1 DEF Deleted
  <2>2. CASE Posted(h) \/ Lost(h)
    BY <2>2 DEF Posted, Lost
  <2>3. CASE ~Deleted(h) /\ ~Posted(h) /\ ~Lost(h)
    BY <1>3, <2>3 DEF Step, Expire, Polled, AnswerXML, AnswerJSON, Loaded, LoadRefused,
                SchemaRefreshed, Listed, Unloaded
  <2> QED BY <2>1, <2>2, <2>3
<1>4. CASE UNCHANGED vars
  BY <1>4 DEF vars
<1> QED BY <1>1, <1>2, <1>3, <1>4 DEF Next

LEMMA WebInvInit == Init => WebInv
<1> SUFFICES ASSUME Init PROVE WebInv
  OBVIOUS
<1>1. PaneOK /\ ServerOK /\ CalmOK
  BY NothingOK DEF Init, PaneOK, ServerOK, CalmOK
<1>2. \A p \in Panes, at \in {"list", "schema"} : HandlerOK(Starting(p, at))
  BY FreeOK DEF HandlerOK, HandlerStates, Starting, Free
<1>3. HandlersOK
  <2>1. PICK g \in Handlers, h \in Handlers, p \in Panes :
          handler = [f \in Handlers |->
            CASE f = g                          -> Starting(p, "list")
              [] f = h /\ "schema" \in Panes -> Starting("schema", "schema")
              [] OTHER                          -> Free]
    BY DEF Init
  <2>2. \A f \in Handlers : HandlerOK(handler[f])
    BY <1>2, <2>1, FreeOK
  <2> QED BY <2>1, <2>2 DEF HandlersOK, HandlerOK
<1> QED BY <1>1, <1>3 DEF WebInv

\* Just after the page was loaded nothing goes on but what the loading started.
LEMMA StartersOnly ==
  ASSUME Init, NEW f \in Handlers
  PROVE  handler[f].does \in {"start", "nothing"} /\ (handler[f].does = "start" \/ handler[f].at = "end")
<1>1. PICK g \in Handlers, h \in Handlers, p \in Panes :
        handler = [e \in Handlers |->
          CASE e = g                          -> Starting(p, "list")
            [] e = h /\ "schema" \in Panes -> Starting("schema", "schema")
            [] OTHER                          -> Free]
  BY DEF Init
<1>2. \E q \in Panes, at \in {"list", "schema"} : handler[f] \in {Starting(q, at), Free}
  BY <1>1
<1>3. \A q \in Panes, at \in {"list", "schema"} : Starting(q, at).does = "start"
  BY DEF Starting, Free
<1>4. Free.does = "nothing" /\ Free.at = "end"
  BY DEF Free
<1> QED BY <1>2, <1>3, <1>4

LEMMA WebInvNext == WebInv /\ [Next]_vars => WebInv'
BY HandlersNext, PaneNext, ServerNext DEF WebInv

LEMMA WebInvAlways == Spec => []WebInv
BY WebInvInit, WebInvNext, PTL DEF Spec

\* Every variable of the page has its type (app.js).
THEOREM WebTypeCorrect == Spec => []WebTypeOK
BY WebInvAlways, WebInvType, PTL
-----------------------------------------------------------------------------
(* The results and the output. *)

LEMMA PairedNext ==
  ASSUME WebInv, ResultsPaired, [Next]_vars
  PROVE  ResultsPaired'
<1> USE DEF ResultsPaired
<1>0. PaneOK
  BY DEF WebInv
<1>1. ASSUME NEW h \in Handlers, \/ UNCHANGED results
                                 \/ results' = Put(results, h, Nothing)
                                 \/ results' = Put(results, h, Both(handler[h].job))
      PROVE  ResultsPaired'
  BY <1>0, <1>1 DEF Put, Nothing, Both, PaneOK
<1>2. CASE Click
  <2>1. ASSUME NEW p \in Panes, UNCHANGED results \/ results' = [results EXCEPT ![p] = Nothing]
        PROVE  ResultsPaired'
    BY <1>0, <2>1 DEF Nothing, PaneOK
  <2>2. \E p \in Panes : UNCHANGED results \/ results' = [results EXCEPT ![p] = Nothing]
    BY <1>2, WebAssumption DEF Click, Submit, ClickClear, ClickRow, ClickClearSchema, SubmitEmpty,
                SwitchFormat, Redraw, ChooseFile, pane
  <2> QED BY <2>1, <2>2
<1>3. CASE ServerStep
  BY <1>3 DEF ServerStep, pane
<1>4. ASSUME NEW h \in Handlers, Step(h) \/ Expire(h) \/ Lost(h) PROVE ResultsPaired'
  <2>1. CASE Throw(h)
    BY <1>1, <2>1 DEF Throw, Complain, Fail, Unhandled, Silently
  <2>2. CASE Polled(h) \/ Posted(h) \/ Listed(h) \/ SchemaRefreshed(h)
    BY <1>1, <2>2 DEF Polled, Posted, Listed, SchemaRefreshed, Complain, Fail, Silently
  <2>3. CASE Loaded(h) \/ Unloaded(h)
    BY <1>1, <2>3 DEF Loaded, Unloaded
  <2>4. CASE AnswerXML(h) \/ AnswerJSON(h) \/ Deleted(h) \/ Expire(h)
    BY <2>4 DEF AnswerXML, AnswerJSON, Deleted, Expire, pane
  <2> QED BY <1>4, <2>1, <2>2, <2>3, <2>4 DEF Step, LoadRefused, Lost
<1>5. CASE UNCHANGED vars
  BY <1>5 DEF vars, pane
<1> QED BY <1>2, <1>3, <1>4, <1>5 DEF Next

\* The texts that a pane offers are those of one job, however many calls overlap
\* (loadResults, loadSchemaResults).
THEOREM PanesPaired == Spec => []ResultsPaired
<1>1. Init => ResultsPaired
  BY DEF Init, ResultsPaired, Nothing
<1> QED BY <1>1, WebInvAlways, PairedNext, PTL DEF Spec

\* What a step may do to the results and the output of the panes.
Matches ==
  \A p \in Panes :
    \/ shown'[p] = results'[p].xml
    \/ shown'[p] = shown[p] /\ results'[p] = results[p]
    \/ \E h \in Handlers : handler[h].at = "unload" /\ handler'[h].at = "schema"

LEMMA MatchesStep ==
  ASSUME WebInv, NEW h \in Handlers, Step(h) \/ Expire(h) \/ Lost(h)
  PROVE  Matches
<1>0. PaneOK /\ handler[h].pane \in Panes
  BY DEF WebInv, HandlersOK, HandlerStates
<1>1. ASSUME Complain(h) \/ Fail(h) \/ Silently PROVE Matches
  BY <1>0, <1>1 DEF Complain, Fail, Silently, Matches, Put, PaneOK, Nothing
<1>2. CASE Throw(h)
  BY <1>1, <1>2 DEF Throw, Unhandled
<1>3. CASE Polled(h) \/ Posted(h) \/ Listed(h)
  <2>1. Complain(h) \/ Fail(h) \/ Silently \/ UNCHANGED <<results, shown>>
    BY <1>3 DEF Polled, Posted, Listed
  <2> QED BY <1>1, <2>1 DEF Matches
<1>4. CASE Loaded(h)
  BY <1>0, <1>4 DEF Loaded, Matches, Put, PaneOK, Both
<1>5. CASE SchemaRefreshed(h)
  BY <1>0, <1>5 DEF SchemaRefreshed, Matches, Put, PaneOK
<1>6. CASE Unloaded(h)
  BY <1>6 DEF Unloaded, Await, Matches, WebInv, HandlersOK, HandlerStates
<1>7. CASE AnswerXML(h) \/ AnswerJSON(h) \/ Deleted(h) \/ Expire(h)
  BY <1>7 DEF AnswerXML, AnswerJSON, Deleted, Expire, pane, Matches
<1> QED BY <1>2, <1>3, <1>4, <1>5, <1>6, <1>7 DEF Step, LoadRefused, Lost

LEMMA MatchesNext ==
  ASSUME WebInv, [Next]_vars
  PROVE  Matches
<1>0. PaneOK
  BY DEF WebInv
<1>1. CASE Click
  BY <1>0, <1>1 DEF Click, Submit, ClickClear, ClickRow, ClickClearSchema, SubmitEmpty,
              SwitchFormat, Redraw, ChooseFile, pane, Matches, PaneOK, Nothing
<1>2. CASE ServerStep \/ UNCHANGED vars
  BY <1>2 DEF ServerStep, vars, pane, Matches
<1>3. ASSUME NEW h \in Handlers, Step(h) \/ Expire(h) \/ Lost(h) PROVE Matches
  BY <1>3, MatchesStep
<1> QED BY <1>1, <1>2, <1>3 DEF Next

\* What can be copied and downloaded is what is shown, but while clearSchema waits.
THEOREM ExportsStayMatched == Spec => ExportsMatch
<1>1. WebInv /\ [Next]_vars => [Matches]_vars
  BY MatchesNext
<1> QED BY <1>1, WebInvAlways, PTL DEF Spec, ExportsMatch, Matches
-----------------------------------------------------------------------------
(* The button. *)

\* Whoever submits is still running: a handler that ends has stopped to be one.
LEMMA SubmitterRuns ==
  ASSUME HandlersOK, NEW p \in Panes, NEW h \in Submits(p)
  PROVE  Running(h)
BY DEF HandlersOK, HandlerOK, Submits, Running

\* A handler that goes on keeps what it is, and who submits.
LEMMA BusyKept ==
  ASSUME HandlersOK, BusyIffSubmitting, NEW h \in Handlers, UNCHANGED busy,
         \A g \in Handlers : \/ handler'[g].does = handler[g].does /\ handler'[g].pane = handler[g].pane
                             \/ handler[g].does # "submit" /\ handler'[g].does # "submit"
  PROVE  BusyIffSubmitting'
<1>1. \A p \in Panes : Submits(p)' = Submits(p)
  BY DEF Submits
<1> QED BY <1>1 DEF BusyIffSubmitting

LEMMA BusyEnd ==
  ASSUME WebInv, BusyIffSubmitting, NEW h \in Handlers, End(h)
  PROVE  BusyIffSubmitting'
<1>0. handler[h].pane \in Panes /\ handler \in [Handlers -> HandlerStates] /\ busy \in [Panes -> BOOLEAN]
  BY DEF WebInv, HandlersOK, HandlerStates, PaneOK
<1>1. \A p \in Panes : Submits(p)' = Submits(p) \ {h}
  BY <1>0 DEF End, Submits, Free
<1>2. CASE handler[h].does = "submit"
  <2>0. PICK p \in Panes : p = handler[h].pane
    BY <1>0
  <2>1. h \in Submits(p)
    BY <1>2, <2>0 DEF Submits
  <2>2. \A q \in Panes : q # p => h \notin Submits(q)
    BY <2>0 DEF Submits
  <2>3. busy' = [busy EXCEPT ![p] = FALSE]
    BY <1>2, <2>0 DEF End, Put
  <2>4. Submits(p)' = {}
    BY <1>1, <2>1 DEF BusyIffSubmitting
  <2>5. \A q \in Panes : q # p => Submits(q)' = Submits(q) /\ busy'[q] = busy[q]
    BY <1>0, <1>1, <2>2, <2>3
  <2>6. ~busy'[p]
    BY <1>0, <2>3
  <2> QED BY <2>4, <2>5, <2>6 DEF BusyIffSubmitting
<1>3. CASE handler[h].does # "submit"
  <2>1. \A p \in Panes : Submits(p)' = Submits(p)
    BY <1>1, <1>3 DEF Submits
  <2> QED BY <1>3, <2>1 DEF End, BusyIffSubmitting
<1> QED BY <1>2, <1>3

LEMMA BusyThrow ==
  ASSUME WebInv, BusyIffSubmitting, NEW h \in Handlers, Throw(h)
  PROVE  BusyIffSubmitting'
<1>1. CASE End(h)
  BY <1>1, BusyEnd
<1>2. CASE Unhandled(h) /\ handler[h].does # "submit"
  <2>1. \A g \in Handlers : g # h => handler'[g] = handler[g]
    BY <1>2 DEF Unhandled, WebInv, HandlersOK
  <2>2. handler'[h].does # "submit"
    BY <1>2 DEF Unhandled, Rejected, Free, WebInv, HandlersOK
  <2> QED BY <1>2, <2>1, <2>2, BusyKept DEF Unhandled, WebInv
<1> QED BY <1>1, <1>2 DEF Throw

LEMMA BusyBegin ==
  ASSUME WebInv, BusyIffSubmitting, NEW h \in Handlers, NEW p \in Panes, NEW at, NEW id,
         NEW does \in {"row", "clear", "clearSchema"}, Begin(h, does, p, at, id), UNCHANGED busy
  PROVE  BusyIffSubmitting'
<1>1. \A g \in Handlers : Running(g) => g # h /\ handler'[g] = handler[g]
  BY DEF Begin
<1>2. \A g \in Handlers : ~Running(g) => handler[g].does # "submit"
  BY DEF WebInv, HandlersOK, HandlerOK, Running
<1>3. \A g \in Handlers : ~Running(g) => handler'[g].does # "submit"
  BY DEF Begin, Free
<1> QED BY <1>1, <1>2, <1>3, BusyKept DEF WebInv

LEMMA BusySubmit ==
  ASSUME WebInv, BusyIffSubmitting, NEW h \in Handlers, NEW p \in Panes, Submit(h, p)
  PROVE  BusyIffSubmitting'
<1>0. busy \in [Panes -> BOOLEAN] /\ ~busy[p] /\ ~Running(h)
  BY DEF WebInv, PaneOK, Submit, Begin
<1>1. \A g \in Handlers : ~Running(g) => handler[g].does # "submit"
  BY DEF WebInv, HandlersOK, HandlerOK, Running
<1>2. \A g \in Handlers : g # h => \/ handler'[g] = handler[g]
                                   \/ ~Running(g) /\ handler'[g].does # "submit"
  <2>1. \A g \in Handlers : g # h => handler'[g] = IF Running(g) THEN handler[g] ELSE Free
    BY DEF Submit, Begin
  <2>2. Free.does # "submit"
    BY DEF Free
  <2> QED BY <2>1, <2>2
<1>3. handler'[h].does = "submit" /\ handler'[h].pane = p
  BY DEF Submit, Begin, Free
<1>4. \A q \in Panes : Submits(q)' = IF q = p THEN Submits(q) \cup {h} ELSE Submits(q)
  BY <1>0, <1>1, <1>2, <1>3 DEF Submits
<1>5. Submits(p) = {}
  BY <1>0 DEF BusyIffSubmitting
<1>6. busy' = [busy EXCEPT ![p] = TRUE]
  BY DEF Submit
<1>7. \A q \in Panes : q # p => busy'[q] = busy[q] /\ Submits(q)' = Submits(q)
  BY <1>0, <1>4, <1>6
<1>8. busy'[p] /\ Submits(p)' = {h}
  BY <1>0, <1>4, <1>5, <1>6
<1> QED BY <1>7, <1>8 DEF BusyIffSubmitting

LEMMA BusyNext ==
  ASSUME WebInv, BusyIffSubmitting, [Next]_vars
  PROVE  BusyIffSubmitting'
<1>0. HandlersOK /\ \A h \in Handlers : handler[h].pane \in Panes
  BY DEF WebInv, HandlersOK, HandlerStates
<1>1. ASSUME UNCHANGED <<busy, handler>> PROVE BusyIffSubmitting'
  BY <1>1 DEF BusyIffSubmitting, Submits
<1>2. CASE Click
  <2>1. ASSUME NEW h \in Handlers, NEW id \in WebJobs, ClickRow(h, id) PROVE BusyIffSubmitting'
    <3>1. ASSUME NEW p \in Panes, NEW at, Begin(h, "row", p, at, id), UNCHANGED busy
          PROVE  BusyIffSubmitting'
      BY <3>1, BusyBegin
    <3> QED BY <2>1, <3>1 DEF ClickRow
  <2>2. ASSUME NEW h \in Handlers, NEW p \in Panes, ClickClear(h, p) PROVE BusyIffSubmitting'
    BY <2>2, BusyBegin DEF ClickClear, pane
  <2>3. ASSUME NEW h \in Handlers, ClickClearSchema(h) PROVE BusyIffSubmitting'
    BY <2>3, BusyBegin DEF ClickClearSchema, pane
  <2>4. ASSUME NEW p \in Panes, SubmitEmpty(p) \/ SwitchFormat(p) \/ Redraw(p) \/ ChooseFile(p)
        PROVE  BusyIffSubmitting'
    BY <1>1, <2>4 DEF SubmitEmpty, SwitchFormat, Redraw, ChooseFile
  <2> QED BY <1>2, <2>1, <2>2, <2>3, <2>4, BusySubmit DEF Click
<1>3. CASE ServerStep \/ UNCHANGED vars
  BY <1>1, <1>3 DEF ServerStep, vars, pane
<1>4. ASSUME NEW h \in Handlers, Step(h) \/ Expire(h) \/ Lost(h) PROVE BusyIffSubmitting'
  <2>1. ASSUME UNCHANGED busy,
               \/ \E at : Await(h, at)
               \/ \E id : handler' = [handler EXCEPT ![h].at = "poll", ![h].job = id]
               \/ handler' = [handler EXCEPT ![h].xml = TRUE]
               \/ handler' = [handler EXCEPT ![h].json = TRUE]
               \/ handler' = [handler EXCEPT ![h].late = TRUE]
        PROVE  BusyIffSubmitting'
    <3>1. \A g \in Handlers : handler'[g].does = handler[g].does /\ handler'[g].pane = handler[g].pane
      BY <2>1 DEF Await, WebInv, HandlersOK, HandlerStates
    <3> QED BY <1>0, <2>1, <3>1, BusyKept
  <2>2. CASE Polled(h) \/ Deleted(h) \/ Unloaded(h)
    BY <2>1, <2>2 DEF Polled, Deleted, Unloaded, pane
  <2>3. CASE Posted(h)
    BY <2>1, <2>3, BusyEnd DEF Posted
  <2>4. CASE AnswerXML(h) \/ AnswerJSON(h) \/ Expire(h)
    BY <2>1, <2>4 DEF AnswerXML, AnswerJSON, Expire, pane
  <2>5. CASE Loaded(h) \/ SchemaRefreshed(h) \/ Listed(h)
    BY <2>1, <2>5, BusyEnd DEF Loaded, SchemaRefreshed, Listed
  <2>6. CASE LoadRefused(h) \/ Lost(h)
    BY <2>6, BusyThrow DEF LoadRefused, Lost
  <2> QED BY <1>4, <2>2, <2>3, <2>4, <2>5, <2>6 DEF Step
<1> QED BY <1>2, <1>3, <1>4 DEF Next

\* The button is disabled just while a submission of its pane goes on, of which
\* there is one at most (submit, parseSchema and their finally).
THEOREM ButtonFollowsSubmission == Spec => []BusyIffSubmitting
<1>1. Init => BusyIffSubmitting
  <2> SUFFICES ASSUME Init PROVE BusyIffSubmitting
    OBVIOUS
  <2>1. \A h \in Handlers : handler[h].does # "submit"
    BY StartersOnly
  <2> QED BY <2>1 DEF Init, BusyIffSubmitting, Submits
<1> QED BY <1>1, WebInvAlways, BusyNext, PTL DEF Spec
-----------------------------------------------------------------------------
(* What an undisturbed call shows. *)

\* The pane shows an error, or the results of its own job.
Shows(p) == error[p] \/ (results[p] = Both(current[p]) /\ current[p] # NoJob)

\* While nobody interferes the call is alone on its pane, its job is the pane's own,
\* and once there is nothing left to do but to refresh, its outcome is shown.
Undisturbed(p) ==
  /\ \A g, h \in On(p) : g = h
  /\ \A h \in On(p) : handler[h].does \in {"submit", "row"} =>
       /\ handler[h].at \in {"poll", "load", "open"} => current[p] = handler[h].job
       /\ handler[h].at \in {"schema", "list"} => Shows(p)

CalmShows == \A p \in Panes : calm[p] => Undisturbed(p)

\* A step that leaves a pane and the handlers on it alone.
LEMMA UndisturbedKept ==
  ASSUME NEW p \in Panes, Undisturbed(p), On(p)' \subseteq On(p),
         \A h \in On(p) : handler'[h] = handler[h] \/ h \notin On(p)',
         current'[p] = current[p], results'[p] = results[p], error[p] => error'[p]
  PROVE  Undisturbed(p)'
BY DEF Undisturbed, Shows

\* A handler goes on: the others stay, and it stays on its pane.
LEMMA OnKept ==
  ASSUME HandlersOK, NEW h \in Handlers, NEW s \in HandlerStates,
         handler' = [handler EXCEPT ![h] = s], NEW p \in Panes
  PROVE  /\ \A g \in Handlers : g # h => (g \in On(p)' <=> g \in On(p)) /\ handler'[g] = handler[g]
         /\ handler'[h] = s
         /\ s.does = handler[h].does /\ s.pane = handler[h].pane /\ Running(h) => On(p)' \subseteq On(p)
         /\ s.at = "end" => On(p)' \subseteq On(p) /\ h \notin On(p)'
BY DEF HandlersOK, On, Running

\* What a step of a call may do to the panes: it leaves the others alone, and its
\* own unless it is a call that works on it, but that it may show an error.
Apart(h) ==
  /\ \A p \in Panes : p # handler[h].pane \/ handler[h].does \in {"clear", "start"} =>
       current'[p] = current[p] /\ results'[p] = results[p] /\ (error[p] => error'[p])
  /\ UNCHANGED calm

\* What it owes to its own pane, when nobody interferes: s is where it goes.
Owes(h, s, p) ==
  /\ s.at \in {"poll", "load", "open"} => current'[p] = s.job
  /\ s.at \in {"schema", "list"} => Shows(p)'

LEMMA CalmStep ==
  ASSUME WebInv, CalmShows, NEW h \in Handlers, Running(h), Apart(h),
         NEW s \in HandlerStates, handler' = [handler EXCEPT ![h] = s],
         s.at = "end" \/ (s.does = handler[h].does /\ s.pane = handler[h].pane),
         NEW p \in Panes, calm[p],
         handler[h].pane = p /\ handler[h].does \in {"submit", "row"} /\ s.at # "end" => Owes(h, s, p)
  PROVE  Undisturbed(p)'
<1>0. HandlersOK /\ Undisturbed(p)
  BY DEF WebInv, CalmShows
<1>1. CASE h \notin On(p)
  <2>1. current'[p] = current[p] /\ results'[p] = results[p] /\ (error[p] => error'[p])
    BY <1>1 DEF Apart, On
  <2>2. On(p)' \subseteq On(p) /\ \A g \in On(p) : handler'[g] = handler[g]
    BY <1>0, <1>1 DEF On, Running, HandlersOK
  <2> QED BY <1>0, <2>1, <2>2, UndisturbedKept
<1>2. CASE h \in On(p)
  <2>1. On(p) = {h} /\ handler[h].pane = p
    BY <1>0, <1>2 DEF Undisturbed, On
  <2>2. On(p)' \subseteq {h} /\ handler'[h] = s
    <3>1. /\ \A g \in Handlers : g # h => (g \in On(p)' <=> g \in On(p))
          /\ handler'[h] = s
      BY <1>0, OnKept
    <3>2. ASSUME NEW g \in On(p)' PROVE g = h
      <4>1. g \in Handlers
        BY <3>2 DEF On
      <4> QED BY <2>1, <3>1, <3>2, <4>1
    <3> QED BY <3>1, <3>2
  <2>3. CASE s.at = "end"
    BY <1>0, <2>2, <2>3, OnKept DEF Undisturbed
  <2>4. CASE s.at # "end"
    <3>1. \A g \in On(p)' : handler'[g] = s /\ g = h
      BY <2>2
    <3>2. s.does \in {"submit", "row"} => Owes(h, s, p)
      BY <2>1, <2>4
    <3> QED BY <3>1, <3>2 DEF Undisturbed, Owes, Shows
  <2> QED BY <2>3, <2>4
<1> QED BY <1>1, <1>2

\* What a call that ends owes.
Settles(h) ==
  handler[h].does \in {"submit", "row"} /\ calm[handler[h].pane] /\ handler'[h] = Free
    => \E p \in Panes : p = handler[h].pane /\ Shows(p)'

LEMMA CalmEnds ==
  ASSUME WebInv, CalmShows, NEW h \in Handlers, Running(h), Apart(h),
         handler' = [handler EXCEPT ![h] = Free] \/ handler' = [handler EXCEPT ![h] = Rejected]
  PROVE  CalmShows'
<1>1. Free \in HandlerStates /\ Rejected \in HandlerStates /\ Free.at = "end" /\ Rejected.at = "end"
  BY FreeOK DEF HandlerOK, Free, Rejected
<1>2. ASSUME NEW p \in Panes, calm[p] PROVE Undisturbed(p)'
  BY <1>1, <1>2, CalmStep
<1> QED BY <1>2 DEF CalmShows, Apart

LEMMA CalmGoesOn ==
  ASSUME WebInv, CalmShows, NEW h \in Handlers, Running(h), Apart(h),
         NEW s \in HandlerStates, handler' = [handler EXCEPT ![h] = s],
         s.at # "end", s.does = handler[h].does, s.pane = handler[h].pane,
         NEW q \in Panes, q = handler[h].pane,
         calm[q] /\ s.does \in {"submit", "row"} => Owes(h, s, q)
  PROVE  CalmShows' /\ Settles(h)
<1>1. ASSUME NEW p \in Panes, calm[p] PROVE Undisturbed(p)'
  BY <1>1, CalmStep
<1>2. handler'[h] # Free
  BY DEF Free, WebInv, HandlersOK
<1> QED BY <1>1, <1>2 DEF CalmShows, Apart, Settles

LEMMA CalmThrow ==
  ASSUME WebInv, CalmShows, NEW h \in Handlers, Running(h), Throw(h), UNCHANGED calm
  PROVE  CalmShows' /\ Settles(h)
<1>0. PICK p \in Panes : p = handler[h].pane
  BY DEF WebInv, HandlersOK, HandlerStates
<1>1. CASE (Complain(h) \/ Fail(h)) /\ End(h) /\ handler[h].does \notin {"clear", "start"}
  <2>1. Apart(h)
    BY <1>1 DEF Complain, Fail, Apart, Put, WebInv, PaneOK
  <2>2. error'[p]
    BY <1>0, <1>1 DEF Complain, Fail, Put, WebInv, PaneOK
  <2> QED BY <1>0, <1>1, <2>1, <2>2, CalmEnds DEF End, Settles, Shows
<1>2. CASE Unhandled(h)
  <2>1. Apart(h)
    BY <1>2 DEF Unhandled, Silently, Apart
  <2>2. handler'[h] # Free
    BY <1>2 DEF Unhandled, Free, Rejected, WebInv, HandlersOK
  <2> QED BY <1>2, <2>1, <2>2, CalmEnds DEF Unhandled, Settles
<1>3. handler[h].at = "open" => handler[h].does \notin {"clear", "start"}
  BY DEF WebInv, HandlersOK, HandlerOK
<1> QED BY <1>1, <1>2, <1>3 DEF Throw

\* What is known of an undisturbed call.
LEMMA CalmKnows ==
  ASSUME CalmShows, NEW h \in Handlers, Running(h), NEW p \in Panes, p = handler[h].pane, calm[p],
         handler[h].does \in {"submit", "row"}
  PROVE  /\ handler[h].at \in {"poll", "load", "open"} => current[p] = handler[h].job
         /\ handler[h].at \in {"schema", "list"} => Shows(p)
BY DEF CalmShows, Undisturbed, On

LEMMA CalmAction ==
  ASSUME WebInv, CalmShows, NEW h \in Handlers, Step(h) \/ Expire(h) \/ Lost(h)
  PROVE  CalmShows' /\ Settles(h)
<1>0. PICK p \in Panes : p = handler[h].pane
  BY DEF WebInv, HandlersOK, HandlerStates
<1> USE <1>0
<1> DEFINE works == handler[h].does \notin {"clear", "start"}
<1>a. /\ HandlersOK /\ HandlerOK(handler[h]) /\ handler[h] \in HandlerStates
      /\ handler[h].at \in {"post", "poll", "load", "open", "unload"} => Running(h) /\ works
  BY DEF WebInv, HandlersOK, HandlerOK, Running
<1>b. ASSUME works, Complain(h) \/ Fail(h) \/ Silently, UNCHANGED calm PROVE Apart(h)
  BY <1>b DEF Complain, Fail, Silently, Apart, Put, WebInv, PaneOK
<1>c. ASSUME Silently, UNCHANGED calm PROVE Apart(h)
  BY <1>c DEF Silently, Apart
<1>d. ASSUME Complain(h) \/ Fail(h) PROVE error'[p] /\ Shows(p)'
  BY <1>d DEF Complain, Fail, Put, WebInv, PaneOK, Shows
<1>1. CASE Posted(h)
  <2>0. Running(h) /\ works /\ UNCHANGED calm
    BY <1>1, <1>a DEF Posted
  <2>1. CASE Complain(h) /\ End(h)
    BY <1>b, <1>d, <2>0, <2>1, CalmEnds DEF End, Settles
  <2>2. ASSUME NEW id \in JobsOf[p], current' = Put(current, h, id), UNCHANGED <<results, error>>,
               handler' = [handler EXCEPT ![h].at = "poll", ![h].job = id]
        PROVE  CalmShows' /\ Settles(h)
    <3> DEFINE s == [handler[h] EXCEPT !.at = "poll", !.job = id]
    <3>1. id \in WebJobs
      BY JobsOfPane
    <3>2. s \in HandlerStates /\ s.at = "poll" /\ s.job = id
          /\ s.does = handler[h].does /\ s.pane = handler[h].pane
      BY <1>a, <3>1 DEF HandlerStates
    <3>3. handler' = [handler EXCEPT ![h] = s]
      BY <1>a, <2>2 DEF HandlersOK
    <3>4. Apart(h) /\ current'[p] = id
      BY <2>0, <2>2 DEF Apart, Put, WebInv, PaneOK
    <3>5. Owes(h, s, p)
      BY <3>2, <3>4 DEF Owes
    <3> HIDE DEF s
    <3> QED BY <2>0, <3>2, <3>3, <3>4, <3>5, CalmGoesOn
  <2> QED BY <1>1, <2>1, <2>2 DEF Posted
<1>e. ASSUME NEW at \in {"load", "schema", "list"}, Await(h, at), Running(h), Apart(h),
             calm[p] /\ handler[h].does \in {"submit", "row"}
               => (IF at = "load" THEN current'[p] = handler[h].job ELSE Shows(p)')
      PROVE  CalmShows' /\ Settles(h)
  <2> DEFINE s == [handler[h] EXCEPT !.at = at]
  <2>1. /\ s \in HandlerStates /\ s.at = at /\ s.job = handler[h].job
        /\ s.does = handler[h].does /\ s.pane = handler[h].pane
    BY <1>a DEF HandlerStates
  <2>2. handler' = [handler EXCEPT ![h] = s]
    BY <1>a, <1>e DEF Await, HandlersOK
  <2>3. calm[p] /\ s.does \in {"submit", "row"} => Owes(h, s, p)
    BY <1>e, <2>1 DEF Owes
  <2>4. s.at # "end"
    BY <2>1
  <2> HIDE DEF s
  <2> QED BY <1>e, <2>1, <2>2, <2>3, <2>4, CalmGoesOn
<1>2. CASE Polled(h)
  <2>0. Running(h) /\ works /\ UNCHANGED calm /\ handler[h].at = "poll"
    BY <1>2, <1>a DEF Polled
  <2>1. CASE (Complain(h) \/ Fail(h)) /\ Await(h, "list")
    BY <1>b, <1>d, <1>e, <2>0, <2>1
  <2>2. CASE Silently /\ Await(h, "load")
    BY <1>c, <1>e, <2>0, <2>2, CalmKnows DEF Silently
  <2> QED BY <1>2, <2>1, <2>2 DEF Polled
<1>3. CASE Expire(h) \/ AnswerXML(h) \/ AnswerJSON(h)
  <2>0. /\ Running(h) /\ works /\ UNCHANGED calm /\ Silently
        /\ handler[h].at \in {"poll", "load", "open"}
    BY <1>3, <1>a DEF Expire, AnswerXML, AnswerJSON, Loading, pane, Silently
  <2>1. PICK s : /\ s \in {[handler[h] EXCEPT !.late = TRUE], [handler[h] EXCEPT !.xml = TRUE],
                           [handler[h] EXCEPT !.json = TRUE]}
                /\ handler' = [handler EXCEPT ![h] = s]
    BY <1>3, <1>a DEF Expire, AnswerXML, AnswerJSON, HandlersOK
  <2>2. /\ s \in HandlerStates /\ s.at = handler[h].at /\ s.job = handler[h].job
        /\ s.does = handler[h].does /\ s.pane = handler[h].pane
    BY <1>a, <2>1 DEF HandlerStates
  <2>3. calm[p] /\ s.does \in {"submit", "row"} => Owes(h, s, p)
    BY <2>0, <2>2, CalmKnows DEF Owes, Silently
  <2> QED BY <1>c, <2>0, <2>1, <2>2, <2>3, CalmGoesOn
<1>4. CASE Loaded(h)
  <2>0. /\ Running(h) /\ works /\ UNCHANGED calm /\ handler[h].at \in {"load", "open"}
        /\ handler[h].job \in WebJobs /\ handler[h].job # NoJob
    BY <1>4, <1>a, JobsOfPane, WebAssumption DEF Loaded, Loading, HandlerOK, WebJobs
  <2>1. Apart(h) /\ results'[p] = Both(handler[h].job) /\ current' = current
    BY <1>4, <2>0 DEF Loaded, Apart, Put, WebInv, PaneOK
  <2>2. calm[p] /\ handler[h].does \in {"submit", "row"} => Shows(p)'
    BY <2>0, <2>1, CalmKnows DEF Shows
  <2>3. CASE End(h)
    BY <2>0, <2>1, <2>2, <2>3, CalmEnds DEF End, Settles
  <2>4. CASE Await(h, "schema") \/ Await(h, "list")
    BY <1>e, <2>0, <2>1, <2>2, <2>4
  <2> QED BY <1>4, <2>3, <2>4 DEF Loaded
<1>5. CASE SchemaRefreshed(h)
  <2>0. Running(h) /\ UNCHANGED <<calm, current, results>> /\ handler[h].at = "schema"
    BY <1>5 DEF SchemaRefreshed, Running
  <2>1. Apart(h) /\ (error[p] => error'[p])
    BY <1>5, <2>0 DEF SchemaRefreshed, Apart, Put, WebInv, PaneOK
  <2>2. calm[p] /\ handler[h].does \in {"submit", "row"} => Shows(p)'
    BY <2>0, <2>1, CalmKnows DEF Shows
  <2>3. CASE End(h)
    BY <2>0, <2>1, <2>2, <2>3, CalmEnds DEF End, Settles
  <2>4. CASE Await(h, "list")
    BY <1>e, <2>0, <2>1, <2>2, <2>4
  <2> QED BY <1>5, <2>3, <2>4 DEF SchemaRefreshed
<1>6. CASE Listed(h)
  <2>0. Running(h) /\ UNCHANGED calm /\ handler[h].at = "list" /\ Silently /\ End(h)
    BY <1>6 DEF Listed, Running
  <2>1. calm[p] /\ handler[h].does \in {"submit", "row"} => Shows(p)'
    BY <2>0, CalmKnows DEF Shows, Silently
  <2> QED BY <1>c, <2>0, <2>1, CalmEnds DEF End, Settles
<1>7. CASE Deleted(h) \/ Unloaded(h)
  <2>0. /\ Running(h) /\ UNCHANGED calm /\ handler[h].does \notin {"submit", "row"}
        /\ Await(h, "list") \/ Await(h, "schema")
    BY <1>7, <1>a DEF Deleted, Unloaded, Running, HandlerOK
  <2>1. Apart(h)
    BY <1>7, <1>a, <1>c, <2>0 DEF Deleted, Unloaded, pane, Silently, Apart, Put, WebInv, PaneOK
  <2> QED BY <1>e, <2>0, <2>1
<1>8. CASE LoadRefused(h) \/ Lost(h)
  <2>1. Running(h) /\ UNCHANGED calm /\ Throw(h)
    BY <1>8 DEF LoadRefused, Lost, Running, Loading
  <2> QED BY <2>1, CalmThrow
<1> QED BY <1>1, <1>2, <1>3, <1>4, <1>5, <1>6, <1>7, <1>8 DEF Step

\* A call that begins: on its pane it is alone or the pane is disturbed, and the
\* calls that go on stay as they are.
LEMMA CalmBegin ==
  ASSUME WebInv, CalmShows, NEW h \in Handlers, NEW p \in Panes,
         NEW does \in {"submit", "row", "clear", "clearSchema"}, NEW at, NEW id,
         Begin(h, does, p, at, id),
         at \in {"poll", "open"} => current'[p] = id,
         at \in {"post", "poll", "open", "delete", "unload"},
         \A q \in Panes : q # p \/ does = "clear" =>
            current'[q] = current[q] /\ results'[q] = results[q] /\ error'[q] = error[q]
  PROVE  CalmShows'
<1>0. calm \in [Panes -> BOOLEAN]
  BY DEF WebInv, CalmOK
<1>1. /\ ~Running(h)
      /\ \A g \in Handlers : g # h => handler'[g] = IF Running(g) THEN handler[g] ELSE Free
  BY DEF Begin
<1>2. /\ handler'[h].does = does /\ handler'[h].pane = p
      /\ handler'[h].at = at /\ handler'[h].job = id
  BY DEF Begin, Free
<1>3. \A q \in Panes : On(q)' = IF q = p /\ does # "clear" THEN On(q) \cup {h} ELSE On(q)
  <2>1. Free.at = "end"
    BY DEF Free
  <2> QED BY <1>1, <1>2, <2>1 DEF On, Running
<1>4. ASSUME NEW q \in Panes, calm'[q], q # p \/ does = "clear" PROVE Undisturbed(q)'
  <2>1. calm[q]
    BY <1>0, <1>4 DEF Begin
  <2>2. \A g \in On(q) : handler'[g] = handler[g]
    BY <1>1 DEF On
  <2> QED BY <1>3, <1>4, <2>1, <2>2, UndisturbedKept DEF CalmShows
<1>5. ASSUME calm'[p], does # "clear" PROVE Undisturbed(p)'
  <2>1. On(p) = {}
    BY <1>0, <1>5 DEF Begin
  <2>2. On(p)' = {h}
    BY <1>3, <1>5, <2>1
  <2> QED BY <1>2, <2>2 DEF Undisturbed
<1> QED BY <1>4, <1>5 DEF CalmShows

\* The user changes a pane at once, while no call works on it or it gets disturbed.
LEMMA CalmSwitch ==
  ASSUME WebInv, CalmShows, NEW p \in Panes,
         calm' = [calm EXCEPT ![p] = @ /\ On(p) = {}], UNCHANGED handler,
         \A q \in Panes : q # p => current'[q] = current[q] /\ results'[q] = results[q]
                                   /\ error'[q] = error[q]
  PROVE  CalmShows'
<1>0. calm \in [Panes -> BOOLEAN]
  BY DEF WebInv, CalmOK
<1>1. \A q \in Panes : On(q)' = On(q)
  BY DEF On, Running
<1>2. ASSUME NEW q \in Panes, calm'[q], q # p PROVE Undisturbed(q)'
  BY <1>0, <1>1, <1>2, UndisturbedKept DEF CalmShows
<1>3. ASSUME calm'[p] PROVE Undisturbed(p)'
  <2>1. On(p) = {}
    BY <1>0, <1>3
  <2> QED BY <1>1, <2>1 DEF Undisturbed
<1> QED BY <1>2, <1>3 DEF CalmShows

LEMMA CalmSame ==
  ASSUME CalmShows, UNCHANGED <<current, results, error, calm, handler>>
  PROVE  CalmShows'
BY DEF CalmShows, Undisturbed, On, Running, Shows

LEMMA CalmClick ==
  ASSUME WebInv, CalmShows, Click
  PROVE  CalmShows'
<1>0. PaneOK
  BY DEF WebInv
<1>1. ASSUME NEW h \in Handlers, NEW p \in Panes, Submit(h, p) PROVE CalmShows'
  BY <1>0, <1>1, CalmBegin DEF Submit, PaneOK
<1>2. ASSUME NEW h \in Handlers, NEW p \in Panes, ClickClear(h, p) PROVE CalmShows'
  BY <1>2, CalmBegin DEF ClickClear, pane
<1>3. ASSUME NEW h \in Handlers, NEW id \in WebJobs, ClickRow(h, id) PROVE CalmShows'
  <2>1. ASSUME NEW p \in Panes, NEW at \in {"poll", "open"}, Begin(h, "row", p, at, id),
               current' = [current EXCEPT ![p] = id], error' = [error EXCEPT ![p] = FALSE],
               UNCHANGED results
        PROVE  CalmShows'
    BY <1>0, <2>1, CalmBegin DEF PaneOK
  <2> QED BY <1>3, <2>1 DEF ClickRow
<1>4. ASSUME NEW h \in Handlers, ClickClearSchema(h) PROVE CalmShows'
  BY <1>4, CalmBegin DEF ClickClearSchema, pane
<1>5. ASSUME NEW p \in Panes, SubmitEmpty(p) \/ SwitchFormat(p) \/ ChooseFile(p) PROVE CalmShows'
  <2>1. \A q \in Panes : q # p => current'[q] = current[q] /\ results'[q] = results[q]
                                   /\ error'[q] = error[q]
    BY <1>0, <1>5 DEF SubmitEmpty, SwitchFormat, ChooseFile, PaneOK
  <2> QED BY <1>5, <2>1, CalmSwitch DEF SubmitEmpty, SwitchFormat, ChooseFile
<1>6. ASSUME NEW p \in Panes, Redraw(p) PROVE CalmShows'
  BY <1>6, CalmSame DEF Redraw
<1> QED BY <1>1, <1>2, <1>3, <1>4, <1>5, <1>6 DEF Click

LEMMA CalmNext ==
  ASSUME WebInv, CalmShows, [Next]_vars
  PROVE  CalmShows'
<1>1. CASE Click
  BY <1>1, CalmClick
<1>2. CASE ServerStep \/ UNCHANGED vars
  BY <1>2, CalmSame DEF ServerStep, vars, pane
<1>3. ASSUME NEW h \in Handlers, Step(h) \/ Expire(h) \/ Lost(h) PROVE CalmShows'
  BY <1>3, CalmAction
<1> QED BY <1>1, <1>2, <1>3 DEF Next

LEMMA CalmAlways == Spec => []CalmShows
<1>1. Init => CalmShows
  BY StartersOnly DEF CalmShows, Undisturbed, On, Running
<1> QED BY <1>1, WebInvAlways, CalmNext, PTL DEF Spec

Outcomes ==
  \A h \in Handlers :
    LET p == handler[h].pane IN
    Running(h) /\ handler[h].does \in {"submit", "row"} /\ calm[p] /\ handler'[h] = Free
      => error'[p] \/ (results'[p] = Both(current'[p]) /\ current'[p] # NoJob)

\* A call ends in no step but its own.
LEMMA OutcomesNext ==
  ASSUME WebInv, CalmShows, [Next]_vars
  PROVE  Outcomes
<1>1. ASSUME NEW g \in Handlers, Settles(g),
             \A h \in Handlers : Running(h) /\ h # g => handler'[h] = handler[h]
      PROVE  Outcomes
  <2>1. \A h \in Handlers : Running(h) /\ handler'[h] = Free => h = g
    BY <1>1 DEF Running, Free
  <2> QED BY <1>1, <2>1 DEF Outcomes, Settles, Shows
<1>2. ASSUME \A h \in Handlers : Running(h) => handler'[h] = handler[h] PROVE Outcomes
  BY <1>2 DEF Outcomes, Running, Free
<1>3. CASE Click
  BY <1>2, <1>3 DEF Click, Submit, ClickClear, ClickRow, ClickClearSchema, Begin, SubmitEmpty,
              SwitchFormat, Redraw, ChooseFile
<1>4. CASE ServerStep \/ UNCHANGED vars
  BY <1>2, <1>4 DEF ServerStep, vars
<1>5. ASSUME NEW g \in Handlers, Step(g) \/ Expire(g) \/ Lost(g) PROVE Outcomes
  <2>1. \A h \in Handlers : h # g => handler'[h] = handler[h]
    BY <1>5 DEF Step, Expire, Lost, Posted, Polled, AnswerXML, AnswerJSON, Loaded, LoadRefused,
                SchemaRefreshed, Listed, Deleted, Unloaded, Await, End, Throw, Unhandled, WebInv, HandlersOK
  <2> QED BY <1>1, <1>5, <2>1, CalmAction
<1> QED BY <1>3, <1>4, <1>5 DEF Next

\* What the user starts and does not disturb ends with an error or with the results of
\* the job on the pane, whatever the server and the calls on the other pane do.
THEOREM OutcomesShown == Spec => OutcomeShown
<1>1. WebInv /\ CalmShows /\ [Next]_vars => [Outcomes]_vars
  BY OutcomesNext
<1> QED BY <1>1, WebInvAlways, CalmAlways, PTL DEF Spec, OutcomeShown, Outcomes
=============================================================================
