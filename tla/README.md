# TypeConverter: a verification project

TypeConverter is an HTTP service that converts XML to JSON and back, and XSD to
a JSON template and back. Submissions go into a queue; worker goroutines convert
them; results and history are kept in memory and in SQLite; a small web client
submits, polls and shows. This directory holds TLA+ modules that model the
service, configurations with which TLC checks them on small instances, and
proofs of theorems about them for TLAPS. File and line references are to the
repository's sources.

To check a run: `tlc -config QueueSafety.cfg MCQueue`. To check the proofs:
`tlapm QueueProofs.tla`, and likewise the other `*Proofs.tla`.

## 1. The system

| component | source | state | operations | talks to |
|---|---|---|---|---|
| job queue | queue/queue.go | `q.jobs`, `q.tasks` (bounded channel), `q.closed`, one `done` channel per job, all but the channel's contents under `q.mu` | Submit, SubmitCatalog, Get, List, Clear, ClearKind, Wait, Close, the worker loop | persister and onDone callback, both called by handlers and workers |
| SQLite store | store/store.go | tables `jobs`, `current_document`, `current_schema`, under the store's mutex and SQL transactions | Open (with failInterrupted), Put (with gcTx), Get, List, Delete, DeleteFinished, the document and schema rows | called by the persister and the server |
| HTTP server | api/server.go, api/persist.go | `s.doc`, `s.sch`, `s.xsdRaw` under `s.mu` | POST of documents and schemas, GET of results, `DELETE /jobs`, `DELETE /schema`, process, onJobDone, restore | queue, store, codecs |
| process entry | cmd/typeconverter/main.go | none | choice of the configuration, start, death through `log.Fatal` | configuration, server |
| configuration | config/config.go | the `Config` value | Load, LoadOrDefault, ApplyEnv, Validate | read once by the server |
| schema types and codecs | schema/schema.go, xsd.go, template.go | immutable `Schema` values | Lookup, DerivedFrom, Effective, ParseXSD, ParseTemplate, the encoders | used by process |
| instances | schema/instance.go | none | Decode, Encode by a schema | used by process |
| scalar converter | converter/converter.go | none | Convert | used by the bindings |
| XML and JSON conversion | xmlconv/, jsonconv/ | a stack while parsing | Parse, Encode, binding to structs | used by process |
| catalog model | model/catalog.go | plain structs | none | used by process |
| web client | api/web/app.js | `state.busy`, `state.results`, `state.currentID`, the panes and the job list | submit, pollJob, loadResults, refreshJobs, row clicks, parseSchema | the HTTP API |

How a submission travels: a handler calls `submit`, which under `q.mu` evicts old
finished jobs (`gcLocked`, which also deletes their rows), sends the task and
records the job; it then releases `q.mu`, saves the row as queued, takes `q.mu`
again for the deferred unlock, and answers 202. Meanwhile a worker may already
have received the task: it marks the job running, saves, processes, records the
outcome under `q.mu`, saves again, calls `onJobDone` (which installs the document
or the schema in memory and then in SQLite), and finally closes the job's `done`
channel. The process always dies without Close: `main` leaves `ListenAndServe`
only through `log.Fatal`, which skips its deferred `srv.Close()`. The next start
fails the jobs it finds unfinished and restores document and schema.

What is hard here:

- **Concurrency.** Handlers and workers interleave at every release of `q.mu`
  and `s.mu`; memory and SQLite are written in separate critical sections.
- **Ordering.** Three saves of one job by two goroutines; document and schema set
  by any worker; the eviction order decided by texts of times.
- **Failure.** The process dies between any two writes; errors of the persister
  are ignored; a full queue rejects a submission that has already evicted.
- **Limits.** The channel, the history in memory and that on disk are bounded,
  but unfinished jobs must not be evicted.
- **Progress.** Waiters, Close and workers wait for each other.

What makes each component correct:

- queue: an unfinished job has exactly one owner and is processed once; whoever
  waits is woken, and only when the job is settled; the history is bounded; Close
  neither panics nor leaves anything behind.
- store: collection stops at unfinished rows and takes the oldest finished ones.
- server: the row of an accepted job survives until it is finished; store and
  memory agree; the document served belongs to the schema served, also after a
  crash; done means loaded.
- schema: the inherited fields are those of the chain of bases, and a cycle is an
  error and never a loop. Codecs: whatever the encoders leave out makes no
  difference to how documents are read.
- instances: a document says the same after it was downloaded in either format
  and posted again.
- catalog: posting what was downloaded, in either format, changes nothing.
- configuration: the environment overrides the file, field by field, and no number
  in either keeps the process from starting; a malformed file does, and so does one
  that has something else where a number belongs.
- web client: the two results shown are of one job, what is copied is what is shown,
  the button comes back, every call ends, and, unless the user interferes or an
  exception goes uncaught, says how.

`PROJECT.json` lists the hazards one by one, each at its line, with the
properties that cover it.

## 2. Modules

| module | models | state and actions |
|---|---|---|
| `Jobs` | the vocabulary: request types, kinds, statuses | none |
| `JobLifecycle` | abstract: what the queue promises about each job | `phase`, `notified`; Accept, Start, Finish, Forget, Notify |
| `Queue` | queue.go, detailed | see below |
| `TextTime` | the RFC3339Nano texts of times and their order | none (operators) |
| `Store` | store.go | `rows`, `document`, `schema`, `limit`; one action per method that writes |
| `Service` | server.go and persist.go around `Queue` and `Store` | adds `doc`, `sch`, `decodedBy`, `install`, `admin`, `acked`, `born`, and the death of the process |
| `Config` | config.go, and what main.go and NewFromConfig make of it | none (operators) |
| `Startup` | the life of a database file over runs of the process, around `Store` and `Config` | adds `up`, `saved`; Start, StartBeside, Use, Die |
| `WebClient` | app.js | `server`, `current`, `results`, `shown`, `error`, `busy`, `calm`, `handler`; one action per click and per answer |
| `XmlTree` | xmlconv/node.go and parseXML: the tree's accessors, writing, parsing | none (operators) |
| `SchemaTypes` | schema.go | none (operators) |
| `LoadedSchema` | what the types of any loaded schema inherit | `sch` |
| `LoadedDocument` | abstract: any schema is loaded, any document posted and installed under it | adds `posted`, `value`; LoadSchema, Install, InstallCatalog |
| `KeptXML` | the XML that the server keeps: the XSD and the result of a job | `row`, `xml` |
| `SchemaCodec` | xsd.go, template.go | none (operators) |
| `Instances` | instance.go, with the conversions of scalars it uses | none (operators) |
| `Binding` | xmlconv/bind.go, jsonconv/bind.go, and encoding/xml and encoding/json as the service uses them | none (operators) |
| `Catalog` | model/catalog.go | none (operators) |
| `Conversion` | one client, the loaded schema and one document | adds `first` to those three; PostXSD, PostTemplate, RepostXSD, RepostTemplate, Restart, PostDocument, PostCatalog |
| `MCQueue`, `MCStore`, `MCStartup`, `MCService`, `MCConversion`, `MCWebClient` | instances for TLC | none |
| `QueueProofs` | type correctness, custody of jobs; Close; the history limit and what is evicted; `Queue` implements `JobLifecycle` (safety) | proofs |
| `ServiceProofs` | queue and store together, with crashes and failing writes; document and schema in memory and on disk | proofs |
| `Inductions` | induction over the natural numbers, and recursive functions on them | lemmas |
| `StartupProofs` | the configuration, the file over runs, the limit, which seconds are collected first | proofs |
| `SchemaProofs` | what types inherit | proofs |
| `TreeProofs` | parsing what was written | proofs |
| `InstanceProofs` | decoding what was encoded as JSON | proofs |
| `WebProofs` | the page | proofs |

`Service` extends `Queue` and instantiates `Store`; `Startup` extends `Store` and
`Config`; `WebClient` knows of the server only the statuses of jobs. `Conversion`
extends `Catalog`, which stands on `Binding` and that on `Instances`, `SchemaCodec`,
`LoadedDocument` and `KeptXML`. `Instances` and `SchemaCodec` stand on `XmlTree` and
`SchemaTypes`; `LoadedSchema` extends `SchemaTypes`, `KeptXML` extends `XmlTree`, and
`LoadedDocument` extends `Instances` and `LoadedSchema`. These last three hold the
variables and the properties that the proofs of schemas, trees and documents are about.

### Queue

Every critical section of `q.mu` is one step, with one exception: `submit` calls
the persister while it holds `q.mu` and sends on a channel that workers drain
without it, so it is split into `Submit` (takes `q.mu`, evicts from the map),
`EvictRow` (one per deleted row, oldest first), `Send` (the channel, from which a
worker may take the task at once) and `Record` (the map), or `Reject`; the last two
release `q.mu`. `MuFree` says that no caller is between those, and guards every
other step that takes `q.mu`, the worker's `Start` among them: that is what keeps a
worker that is fast from finding its job missing. What happens outside `q.mu` is one step each:
`SaveQueued`, `SaveRunning`, `Process`, `SaveFinal`, `Callback`, `ClearRows`,
`Receive`. `setStatus` is `Start`/`Finish` (the critical section), the saves, the
callback and `Signal` (closing the `done` channel under `q.mu`).

`status[id] = "absent"` stands for an id that is not in `q.jobs`. Ids are drawn
once: `newID` draws 128 random bits, and a collision is left out. `updated` is the
order in which jobs were finished; `gcLocked` compares nothing else. `Start` and
`Finish` keep the branch for a job that is not in the map (queue.go:328), which
the proofs show is never taken. `WaitTimeout` is the end of the caller's context.
`Wait` and `Close` are part of the package, though the running server calls
neither; they are modelled as the package offers them.

### Store and TextTime

Every method is one transaction under the store's mutex, and one action. Texts,
bodies and errors are left out; ids with equal time texts are collected in any
order, as SQLite may. `Put` writes `updated_at` in the layout RFC3339Nano, which
drops the trailing zeros of the fraction, so that the texts do not sort like the
times. `TextTime` gives the texts in a small number system (`Base`, `Width`);
`TextBefore`, by which `Store` collects, compares them character by character.

On its own, `Store` is called in any order with any times, since the wall clock
may be set back. `Service` calls it the way the server does, with one limit;
`Startup` changes the limit from run to run.

### Config and Startup

A configuration is a record of numbers and one of texts. What a file or the
environment does not give is `Absent`, and so is what the environment gives as no
number; `NoFile` and `BadFile` stand for a missing file and for one that cannot be
read as a configuration, which a text in the place of a number makes it, too. `Load`, `LoadOrDefault`,
`ApplyDefaults`, `ApplyEnv` and `Valid` are the functions of those names;
`LoadConfig` is main's choice between the first two, `Effective` what
`NewFromConfig` falls back to. `Intended` is what README.md:60-64 says the outcome
should be, written down without them.

`Start` is everything from main's first line to `ListenAndServe`: it opens the file,
or keeps its store in memory if the path is empty or `:memory:` or the file cannot
be opened. `StartBeside` is a second process on the same file, which opens it before
it finds that the address is taken. `Use` is any call of the store, `Die` the end of
the process. `saved` says that gcTx has run since the file was last opened.

### Service

`Service` extends `Queue` and instantiates `Store` on its own tables. The steps of
the queue that go through the persister are conjoined with the store's action
(`Persist`, `PersistStatus`), the others with UNCHANGED. The callback is three
steps: `InstallMemory` (under `s.mu`), `InstallClearDocument` (only for a
schema) and `InstallPersist`. A document is identified by the job it is the result
of, and a schema likewise; `decodedBy` records which schema `process` read.
`acked`, `born` and `raced` are history: the tickets returned, the jobs accepted since
the start, and whether two changes of document or schema have overlapped. A change is
`UnderWay` from the step that makes it in memory to the one that writes its last row,
and a decoded document depends from its decoding on the schema that was read for it
(`Decoded`); `Races` says that a step which begins a change meets one that is under way,
or takes the schema from a document that depends on it. `Write` is a store call whose error is ignored: it happens, or, up to
`MaxFaults` times, it does not. `Restart` is the death of the process at any point
followed by Open and restore, in one step, since nothing is served in between.

Times in `Service` stay below `Base`, where their texts have one digit and sort
like the times; the trouble with the texts is `Store`'s. The times of unfinished
rows are left out: nothing compares them, and `failInterrupted` overwrites them.

### Conversion

An XSD and an XML document are trees of `XmlTree`; bytes are not modelled. What
happens to a tree between `Encode` and the next `Parse` is `Reparsed`: the
qualified names that the encoders write as one string become a space and a local
name. A template is the value that jsonconv binds to Go structs. A JSON document,
and a decoded one, is a tagged value (`<<"int", 1>>`, `<<"object", members>>`), so
that values of different kinds compare; the members of an object are a set of pairs of
a key and a value. Errors are values too: `Error` for a
document that is refused, `NoNode` for one that cannot be written, `NoType` for a
failed Lookup, `NoSchema` for a schema that is refused. Prefixes are taken off
names by the table `LocalNames`, digits are read by the table `Digits`. There is
one builtin type for each way in which a scalar is read, except the floating ones.

An option of a choice may be a choice again, which templates can say and XSDs cannot;
`Nesting` bounds how deep (`Options`, `FieldTrees`).

`Climbs` and `Inherit` are the walks of `DerivedFrom` and `Effective`, as functions of
the name come to and of those seen, which are the code's map. `ParseXSD` collects the
declared types in the order of declaration, and `TypeMap` keeps the last of each name,
as assignments to a map do.

`Conversion` is driven by one client who posts a schema, downloads it in either
format, posts it again, any number of times, with restarts in between, and then posts
a document. Its jobs are done one by one, since their interleaving is `Service`'s
subject. `posted` and `value` are the document and what it was decoded to, `xml` the
XML of the result; `first` is the schema as the client first posted it. One document
is posted under each schema that can be reached: a document never changes the schema.

Without a schema documents are catalogs. `Binding` describes a Go type as data
(scalar, pointer, slice, struct with its tags), and binds trees and JSON values to it
as the two bind.go do; the value of a struct is an object with the names of its
fields. `Folded` holds the names that documents spell unlike the tags; `Orders` are
the orders in which Go may walk a map, of which jsonconv takes the first member that
fits. `Processed` is `process` with the encoding at the head of `setStatus` (`InBoth`): a
document that decodes and cannot be written in both formats makes its job fail;
`ProcessedAny` is the same for catalogs too. Floating numbers are
counted in halves, and there is NaN, which XML can carry and JSON cannot. A body
posted with `?catalog=1` under a schema is decoded as without one.

`LoadedDocument` is what is promised of a document under a schema, whoever posts them:
any schema that the parsers can return is loaded (`LoadSchema`), and any document, a
tree or a value, is posted and installed as `Processed` says (`Install`); of catalogs it
says nothing. Each step of `Conversion` is one of these or changes neither
(`DocSpec`, which the run `conversion` checks), so that what is proved of
`LoadedDocument` holds for every schema and document that `Conversion`'s client may
bring, and for all others.

Decoding and encoding by a schema go down into elements and values as functions:
`BindXMLNode` and `BindJSON` of an element or a value and its field, `XmlNode` of a
value, its field and its name, `JsonOf` of a value. `Elements`, `Sources` and `Writings`
are their domains, in which `Depth` bounds the nesting of values as it does that of
trees. What one call does is an operator that takes the function as a parameter
(`BindJSONOne`, `BindXMLOne`, `XmlOne`, `Marshalled`). That the code gives the items of
a repeated field a copy of the field with `Max = 1` is here the choice between
`BindJSONValue` and `BindJSONItem`, and `XmlRepeats` and `XmlOne`.

`WriteAll` is writeXML on a row of siblings, `ReadAll` the loop of parseXML with its
stack, one `ParseToken` per turn, `Parse` the root that is left; `Reparsed` is the tree
that results, told without them, and `ParseRebuilds` says that they agree. The stack
begins with the innermost open element, and an element joins its parent when it is
closed, where Go links it when it begins. `Trees[d]` are the trees that nest no deeper
than `d`, `Written` those of depth `Depth`, which is the domain of `Reparsed`.

`XmlTree`, `SchemaTypes`, `LoadedSchema`, `Instances` and `LoadedDocument` are written
with recursive functions, and proved about. `SchemaCodec`, `Binding` and `Catalog` walk
trees and values with RECURSIVE operators, and are only checked.

### WebClient

A click starts an asynchronous function, here a handler, of which several go on at
once. A step of a handler is an answer and what is done until the next `await`:
`Posted`, `Polled`, `AnswerXML`, `AnswerJSON` and `Loaded` (the two requests of
`loadResults`, in any order, and what follows both), `LoadRefused`,
`SchemaRefreshed`, `Listed`, `Deleted`, `Unloaded`; `Lost` is a request without an
answer, which throws, `Throw` what catches that: `submit` and `parseSchema` always,
the click on a row only around the loading of a job that was done. `Expire` is the
deadline of `pollJob`. Loading the page starts two handlers, which ask for the list and
for the schema (`Init`, `Starting`). The user clicks anything at any time; only the button that
submits is disabled. An empty body is answered with a message at once (`SubmitEmpty`). The server is the statuses of jobs, which others submit, finish
and clear (`ServerStep`).

`results[p]` names the jobs from which the two texts of `state.results` are, `shown[p]`
the one whose text is drawn and can be copied. `calm[p]` is history: nothing else has
been done to the pane since its last handler began. `submit` and `parseSchema` are one
action with two panes, and so are the rows of the two lists.

## 3. Runs

Passing runs:

| run | instance | shows |
|---|---|---|
| `queue_safety` | 2 workers, 2 callers, 3 jobs of both kinds, channel of 1, history of 2 | `OneOwner`, `StatusFollowsOwner`, `SignalledIsSettled`, `CleanShutdown`, `KeepsHistory` |
| `queue_progress` | 2 workers, 2 callers, 2 jobs, channel of 1, history of 1, with fairness | `EveryJobSettles`, `WaitersReleased`, `CloseReturns`, `ImplementsLifecycle` |
| `store_safety` | `Startup`: 3 rows, the last of the four ticks of a second and two of the next, times which may go back, 13 files and 13 environments, limits from 1 up | `OverLimitOnlyUnfinished`, `StartsLoseNothing`, `EnvOverridesFile`, `StartsUnlessFileBad`, `OldestToTheSecond` |
| `service_safety` | 1 worker, 2 callers, 3 jobs of any type, history of 1, `DELETE /jobs`, a crash | `KnownBound`, `InFlightRowKept`, `DocumentMatchesSchema` |
| `service_faults` | 2 workers, 1 caller, `DELETE /schema` and `/jobs`, a failing write, a crash | `StoreNeverAhead`, `NoForeignUnfinished`, `MirrorsUnlessRaced`, `DocumentMatchesSchema` |
| `conversion` | 84 XSDs and 34 templates, each with 688 documents; 2174 catalogs | `SchemaTypeOK`, `SchemaKeepsMeaning`, `JSONKeepsDocument`, `XMLKeepsDocument`, `Inheritance`, `CatalogJSONKept`, `CatalogXMLKept`, `SpellingOrderFree`, `ParseRebuilds`; `DocSpec`: it implements `LoadedDocument` |
| `web_client` | the pane of schemas, 2 handlers, 2 jobs, with fairness | `ResultsPaired`, `BusyIffSubmitting`, `ExportsMatch`, `OutcomeShown`, `HandlersEnd` |

The bounds. A channel of one is full with one task, so that rejection, waiting
workers and draining all happen; with two workers three jobs are in flight, and
with a history of one or two an accepted job evicts up to as many jobs at once.
Two callers are enough for a submission against a clearance, an eviction, a
waiter or Close; q.mu lets no three of them matter together. `KnownBound` is two
jobs in `service_safety`, one in the channel and one with the worker, and the
third id is there to break it when too little is evicted; the theorem covers
every other choice. One crash is enough for what a restart finds; the state after
a restart is again a state with jobs of an earlier run. `Base` and `Width` of two
give a fraction without, with one and with two trailing zeros, and the end of one
second with the beginning of the next gives times of equal and of different
seconds. The files and environments give every number alike as absent, -1, 0 or 1
and every text as absent, empty or `:memory:`, and one gives each field a value
of its own, by which a field taken from the wrong place shows; the theorems cover
all others. In `web_client` the pane of schemas does all that the other does and
more; two handlers are enough for one to change what another has begun, and a
third job would be another of the two, since an id that nothing mentions any more
is drawn again. The panes share nothing but the list of jobs.

The XSDs of `conversion` have each construct that the parser knows: global and
inline types, simple types, groups in groups, choices with and without a
sequence, extension, restriction, abstract types, attributes, bounds, nillable
elements; and there are 75 in which two types extend each other, themselves, a
third type or an unknown name in every way, cycles of one, two and three
included. The templates are those of XSDs without the kinds of types, and small ones
that say what an XSD cannot, each beside one that differs in that only: types called
simple that have fields, bases and primitives with prefixes, primitives of complex and
of abstract types, names of builtin types, fields without a type, choices in choices and
in places where an XSD has none. The documents cover a right and a wrong text for each kind of scalar,
each attribute of XML Schema instances, repeated and missing elements, nulls,
lists where one value is expected and the reverse. The catalogs have each field
of each struct present, absent, empty, zero, null, repeated, of the wrong kind,
and spelled otherwise, alone and in twos at one level. `Depth` is 9: no tree that the
run keeps nests deeper, so that `ParseRebuilds` leaves none out.

Among the passing runs only `ConversionKeeps.cfg` switches deadlock checking off: after
the document nothing is left to be asked.

What the properties of `conversion` presuppose, and why. `SchemaKeepsMeaning`
(`Writable`): the schema says nothing that EncodeXSD leaves out or ParseXSD reads
otherwise. Types are complex without a primitive, or simple without a base, attributes
and elements and not abstract; no base and no primitive has a prefix; attributes,
elements and options name their types, and an option is no choice. A template may say
any of this, and mean something else after the next restart: `schema_changes` shows it
for one, and the others are in section 5. `JSONKeepsDocument` and
`XMLKeepsDocument` (`Unambiguous`): no type, with what it inherits, uses a name twice
or has an attribute called type or nil, and no simple type derives from another type,
since a scalar that names one by `xsi:type` is decoded by it and does not say so when it
is written (section 5). `XMLKeepsDocument`: a document that came as JSON may
hold nulls and empty lists, for which XML has no form unless the element is
nillable, and texts with spaces around them, which `Content` trims, and may leave an
abstract type without a `$type`, which instance.go accepts in JSON and refuses in XML;
a `$type` with a prefix comes back without it (`LocalTypes`). `SpellingOrderFree`: no
object spells a name in two ways and in neither as the tag does, since of such members
Go takes either.

`CatalogXMLKept` excepts the spaces around texts, which JSON keeps and the elements of
XML lose, and compares the JSON only of what came as XML. `ExportsMatch` excepts the
time between clearSchema's reset and its drawing, and `OutcomeShown` the calls that
end by an exception that nothing catches, as the click on a row may whose job is cleared
before its results are loaded (app.js:947-963), and those that the user has interfered
with.

Symmetry: the safety runs permute workers, callers and jobs, which no definition
orders. The liveness run uses none.

Fairness, for `queue_progress`: strong fairness of each worker's steps and of each
begun call's steps. Goroutines are scheduled; a goroutine waiting for `q.mu` gets
it, since `sync.Mutex` hands over to a waiter that has starved for a millisecond;
a receiver of a channel is served in the order of arrival. Both are conditions
that come and go, hence strong fairness. It is assumed that processing one task
terminates. No caller has to call anything, and no timeout has to strike.

For `web_client`: weak fairness of each handler's steps and of its deadline. The
event loop runs what has been answered, `Date.now()` moves on, and each request is
answered or lost; nobody has to click, and no job has to end. A `fetch` that neither
answers nor fails, for which app.js sets no limit, is outside of this assumption:
then the handler waits for ever and the button stays disabled.

Violations, each of them a finding in `PROJECT.json` with the line it contradicts:

| run | property | what happens |
|---|---|---|
| `late_save` | `HistoryAgrees` | a worker saves done before the submission saves queued; `GET /jobs` says queued from then on, and the next start fails the job as interrupted |
| `done_not_loaded` | `DoneIsLoaded` | a schema job is visible as done before its schema is loaded |
| `tables_differ` | `StoreMirrorsMemory` | with two workers, memory keeps one document and the table the other |
| `schema_changes` | `SchemaSurvives` | a template's type without a kind that has attributes alone is called simple, and written to the XSD without them; after a restart the types that extend it have lost them |
| `store_order` | `CollectsOldest` | a time that ends in a zero sorts after a later one; the younger job is collected |

`StoreMirrorsMemory` fails with two workers, and so does, without a condition, that the
document served was decoded by the schema served: `process` reads `s.sch` once and
decodes without the lock, so that a schema loaded meanwhile is served beside a document
decoded without it. What the code does ensure is stated for any number of workers and
with DELETE /schema: `MirrorsUnlessRaced` and `DocumentMatchesSchema` hold until two
changes have overlapped or a write has failed, which `raced` and `faults` record, and
between and after which everything else goes on, crashes included. One worker without
DELETE /schema, as in `service_safety`, never races.

## 4. Theorems

For all finite sets of workers and ids, any set of callers, any capacity and any
history limit (`QueueAssumption`):

| theorem | states |
|---|---|
| `TypeCorrect` | `Spec => []TypeOK` |
| `OneOwnerAlways` | `Spec => []OneOwner` |
| `StatusAlwaysFollowsOwner` | `Spec => []StatusFollowsOwner` |
| `SignalledAlwaysSettled` | `Spec => []SignalledIsSettled` |
| `ShutdownIsClean` | `Spec => []CleanShutdown` |
| `HistoryIsBounded` | `Spec => []KnownBound` |
| `HistoryIsKept` | `Spec => KeepsHistory` |
| `QueueRefinesLifecycle` | `Spec => Lifecycle!Init /\ [][Lifecycle!Next]_(Lifecycle!vars)` |

The argument. None of the safety properties is inductive by itself: that a worker
finds its job unfinished depends on nobody having evicted it, which depends on the
status, which depends on there being one owner. `OwnerInv` is their conjunction,
with the types, with what a worker knows at each step (`WorkerOK`), and with
`IssuedOnly`: an id that was never drawn has no status, no worker and no signal,
so that a submission that draws it meets no trace. One lemma per step that moves
a job (send, record, receive, start, finish, signal), one for dropping finished jobs,
which serves eviction and clearance alike, one for the steps of a worker that
keeps its task, and a frame lemma for the rest. Between the channel and the map a
job is `Recording`: it has an owner, perhaps already a worker, and no status yet. Only
one submission is there at a time, it holds `q.mu`, and a worker that has the task is
still before `Start`, which waits for `q.mu`.

`ShutdownInv` adds that every accepted job is in the channel, with a worker or
announced; that a worker leaves only when the channel is closed and empty; and
that no submission holds `q.mu` once the queue is closed. When all workers have
left, the first two leave only "announced".

`BoundInv` adds that the channel keeps its capacity, that one submission at a time
holds `q.mu`, and that the one that does has made room or found nothing finished.
In the first case one more job fits under `MaxJobs`; in the second all known jobs
are unfinished, and `OneOwner` maps them to the channel's slots and the workers,
of which there are `QueueSize + Cardinality(Workers)`. `HistoryIsKept` counts what
`gcLocked` takes: no more than is over `MaxJobs - 1`, and the oldest.

The refinement uses `OwnerInv` to see that `Start` and `Finish` find the phase that
`JobLifecycle` asks for, and that evicted and cleared jobs are final.

For the service, with any number of restarts and, where nothing else is said, of
failing writes:

| theorem | states | assuming |
|---|---|---|
| `ServiceTypes` | `ServiceSpec => []ServiceTypeOK` | |
| `NeverAhead` | `ServiceSpec => []StoreNeverAhead` | |
| `NoForeign` | `ServiceSpec => []NoForeignUnfinished` | |
| `InFlightKept` | `ServiceSpec => []InFlightRowKept` | no write fails |
| `DocumentMatches` | `ServiceSpec => []DocumentMatchesSchema` | |
| `StoreMirrors` | `ServiceSpec => []MirrorsUnlessRaced` | |

`ServiceInv` puts `OwnerInv` beside `RowsInv`: what the rows may say of a job, with
`Traces`, by which an id that was not drawn has left nothing in the store, with a
client or in a call. Each step of the queue is taken from `QueueProofs`; what is new is
one lemma per operation of the store and one per step that writes. `InFlightKept` needs
more than its property: a ticket is promised from the moment its row is saved, before
it is returned (`Promised`), and the row of a promised job may be gone only once the
job is finished, because eviction, collection and `DELETE /jobs` each look at the
status that a late save can only make older.

The last two are about any workers and any calls of DELETE /schema, and promise
something as long as nothing has raced and no write has failed (`Calm`); a race does not
go away, so the invariant is `CalmInv`: `Calm => InstallInv`. `InstallInv` says that one
change at most is under way (`OneAtATime`), what the tables hold at each point of it
(`TablesFollow`, `TablesEmptied`), that a document which has been decoded and not yet
installed was decoded by the schema that is current (`ReadCurrent`), and that the
document in memory and the one on disk each match the schema beside them, so that a
crash at any write restores a pair that matches. A step that would break one of the
first or the third is one that sets `raced`. `tables_differ` shows that nothing holds
after that.

For the file and the configuration, for any set of ids, times, limits, files and
environments (`ConfigAssumption`, `StoreAssumption`, `StartupAssumption`):

| theorem | states |
|---|---|
| `StartupTypes` | `StartupSpec => []StartupTypeOK` |
| `EnvironmentOverrides` | `StartupSpec => []EnvOverridesFile` |
| `StartsWithAnyNumbers` | `StartupSpec => []StartsUnlessFileBad` |
| `NothingLost` | `StartupSpec => StartsLoseNothing` |
| `LimitHolds` | `StartupSpec => []OverLimitOnlyUnfinished` |
| `OldestSecondFirst` | `StartupSpec => OldestToTheSecond` |

The second and third are no inductions but facts about the operators, which hold field
by field: after `ApplyDefaults` and `ApplyEnv` every number is positive, hence `Valid`.
`LimitHolds` rests on what `Collectable` leaves: no more than the limit, or only
unfinished rows. `NothingLost` is an action property of all steps in which a run
starts or ends.

gcTx sorts the texts of times, for any base above one and any width, hence for the
program's ten and nine. `store_order` shows that this is not the order of the times;
`OldestSecondFirst` is what is left of it: a job is never collected while a finished job
of an earlier second stays. Texts of different seconds differ at their beginning, which
has a fixed width, and compare like the seconds there (`SecondsFirst`).

For schemas, trees and documents:

| theorem | states | assuming |
|---|---|---|
| `TypesInherit` | `SchemaTypeOK => Inheritance` | `NamesAssumption` |
| `TreesRebuild` | `ParseRebuilds` | `DepthAssumption`, `StringAssumption` |
| `JSONKept` | `DocSpec => []JSONKeepsDocument` | all three |
| `SchemaInherits` | `DocSpec => []Inheritance` | all three |

`SchemaTypeOK` says of the loaded schema what schema.go's structs do, that it has
finitely many types, each under its own name, and an element to start with; the parsers
return no other, which `conversion` checks beside `Inheritance`. The chain of
bases is laid out by position (`Chain`). Up to a type without a base its names are
distinct. All but the first are bases of declared types, of which there are no more
than types; so a chain that goes on for longer has repeated itself. Up to there, each
step of `Inherit` has seen the names before it and no other, and what it collects from
there up is `AttrsDown` and `ElemsDown`, by induction from the top down. A chain
without a top meets an unknown name or one that was seen, at the latest after as many
bases, and every step back from there fails too. `DerivedFrom` is the same walk.

`TreesRebuild` is about trees of any names, texts, attributes and numbers of children,
nesting as deep as `Depth`, which is any number. `ForestInduction` goes by the depth
and, within one depth, by the length of a row of siblings. What it carries is
`Rebuilt`: reading what was written of a row, after any tokens that left an element
open, adds the `Reparsed` row to that element and leaves the rest of the stack alone.
The texts of different children are never joined, since each is written inside its own
element. At the top level that gives `Parse`, and a second tree takes the place of the
first.

`JSONKept` is about any schema in which no name has two meanings, any document in either
format, and any depth. `DocInv` says that the schema is one that the parsers can return
and that what is installed was decoded by it from what was posted, and could be written.
From there the argument has no more steps of the server, and goes over the value.
`FromItem` and `FromValue` say where a value comes from: it was bound by a field from an
element, or from something that had been parsed from JSON (`Parsed`: writing and parsing
it changes nothing). `ItemCases` lists what there is to bind: a null that the field
allows, a scalar of the declared type (`FromScalar`), or an object that is put together
from a part for the type, one for each attribute and one for each element
(`FromObject`), which may each be absent. `JSONKeepsDocument` is not an induction as it
stands, since it is about whole documents; what is proved by induction on the depth is
`AgainValue`: what was bound by any field is bound by it again from its JSON. For
scalars, `ScalarKept` shows that a whole floating number, which comes back as an integer,
becomes a floating number again. For objects, `EachPart` shows that, with no name twice,
each part has the keys that it would have alone, so that the attribute under its bare
name, the first option of a choice and the type are found where they were put. The types
stay the same because a type goes by its own name (`LookupName`), and that of a scalar
because nothing but itself may take its place (`ScalarStays`). NaN and repeated roots do
not come up: they make a job fail.

The lemmas `Iteration` and `Recursion` of `Inductions` show that a function defined by
recursion over numbers exists, and `SchemaProofs` uses them for the walks and chains in
LETs; `FoundExists` does so for the loop of `ChildrenByName`. Of the other recursive
functions (`Trees`, `WriteAll`, `ReadAll`, `Reparsed`, `ValueTrees`, `JsonOf`, and those in
`BindJSON` and `BindXMLNode`) the prover takes the defining equation as given. That there
are such functions is not proved but seen: `Trees` and `ValueTrees` recurse to a smaller
number, `ReadAll` to a shorter sequence, and the others to what an element or a value is
made of, which nests less deep, or to a shorter row of siblings.

For the page, for any panes, jobs and numbers of handlers (`WebAssumption`):

| theorem | states |
|---|---|
| `WebTypeCorrect` | `Spec => []WebTypeOK` |
| `PanesPaired` | `Spec => []ResultsPaired` |
| `ButtonFollowsSubmission` | `Spec => []BusyIffSubmitting` |
| `ExportsStayMatched` | `Spec => ExportsMatch` |
| `OutcomesShown` | `Spec => OutcomeShown` |

`WebInv` holds the types with what a handler can be at each await; the two that the page
starts with only ask for the list and the schema. For `OutcomesShown`
it is joined by `CalmShows`: in a pane that nobody has interfered with there is one
handler at most; while it polls or loads, the pane's job is its own, and once it is past
that, an error or that job's results are shown.

Only model-checked: the liveness properties and the fairness part of
`ImplementsLifecycle` (the prover does neither ENABLED nor liveness), `HandlersEnd`
among them; and what the codecs keep of schemas, documents and catalogs
(`SchemaKeepsMeaning`, `CatalogJSONKept`, `CatalogXMLKept`), whose definitions are
RECURSIVE operators over trees and values, of which the prover knows nothing.
`XMLKeepsDocument` is not proved either: it would need the way back from each number to
its text, of which the model has only those that occur in the documents of the run. That
the steps of `Conversion` are steps of `LoadedDocument` (`DocSpec`) is checked and not
proved, since the parsers of `SchemaCodec` are RECURSIVE; so is `SchemaTypeOK`, which is
what `DocSpec` asks of a schema that is loaded.

## 5. Other observations

These follow from the definitions, and no document of the repository contradicts
them; the modules contain them as they are.

- A restriction is read like an extension (xsd.go:75-78), so that an element which
  it declares again is there twice in `Effective`. Decoding gives the same value
  twice, but encoding writes the elements twice, and a repeated element doubles
  with each pass through XML.
- An attribute of the schema that is called `type` is found by local name alone
  (node.go:30-40), and takes the value of `xsi:type` where that comes first.
- `fromTplType` infers the kind of a type from `out.Attrs` before it fills it
  (template.go:98), so that a type without a kind, elements and a base is simple
  although it has attributes. `schema_changes` shows what follows from it. Other
  templates that mean something else after a restart, or when their XSD is posted, say
  a prefix in a base, which is no declared type before and one after (xsd.go:71), or in a
  primitive, `xs:int` being a text before and a number after (xsd.go:54), a base of a
  simple type, an abstract simple type, a primitive of a complex type, or an option that
  is a choice (template.go:149-151).
- An attribute and an element of one name share the bare key: `lookupJSON` finds the
  element's value where the attribute is missing (instance.go:457), and writes it as an
  attribute.
- A `$type` of `p:D` in JSON comes back as `D` through XML (instance.go:142, 272).
- A type inside an element is declared under the element's path, `r` or `r.c`, and
  overwrites a global type of that name.
- `DELETE /jobs` or an eviction between the end of a job and its last save
  (queue.go:340-342): the save puts back the row of a job that is gone, and the row
  stays until the next clearance. `HistoryAgrees`, which `late_save` violates, states
  this too.
- A file named by `-config config.json`, the default, counts as not named
  (main.go:22): if it is missing, the process starts with the defaults and says
  nothing. `CONFIG` overrides it even then (main.go:18).
- If the file of the database cannot be opened, the server starts with a store in
  memory and says nothing (server.go:89); what it saves is gone with it. The file is
  left as it was.
- A second process on the same file fails the running jobs of the first
  (store.go:96) before it finds that the address is taken.
- A lower `max_jobs` takes effect with the next save, not with the start.
- jsonconv takes the first member whose name differs from the tag in case only, in
  the order of a walk over a map: of `{"Title": "a", "TITLE": "b"}` either may be the
  title, and the same body posted twice may give two documents.
- 1.5 into an integer is cut when it comes as JSON and refused when it comes as XML.
- A second element at the top level of a body replaces the first (xmlconv.go:129).
- In the page: two loads may overlap, and the last answer wins, under whatever id is
  shown. The click on a row that is not done has no catch (app.js:947, 983): when a
  request is lost or the results are refused, the page keeps the old results under the
  new id and says nothing. After a click on a row of a job that is unknown or times
  out, an error is shown beside the old results. After switching the format and
  opening an older job, the result of the pane's format is shown, which is the format
  in which the job was posted. If the status of the schema cannot be read in
  clearSchema, the old result stays drawn and its button enabled, while what is copied
  is empty.
- A simple type may derive from another type (a template can say so, and a complex type
  may extend one), and an element may name it by `xsi:type`. Its text is then read by the
  type that it names, and written without the name (instance.go:354-357, where setXSI is
  not reached), so that the next reading is by the declared type.
- Spaces around a text that came as JSON are kept in JSON and lost in XML (node.go:42-47).
- An element of the root's type that may be repeated makes every document fail: it can be
  decoded and never written (instance.go:337-339).
- `bindXMLRepeats` silently drops all but the first of the elements of a field that
  is not repeated.

## 6. Plan

Done in this order: `Jobs`, `JobLifecycle`, `Queue`, its runs and proofs,
`TextTime`, `Store`, `Service`, and `XmlTree`, `SchemaTypes`, `SchemaCodec`,
`Instances`, `Conversion`; then `Binding` and `Catalog`, the tokens of `XmlTree`,
`Config` and `Startup`, `WebClient`, and the proofs of the page, of the
configuration, of the file over runs, and of the service; then the order of collection,
`LoadedSchema` and `KeptXML`, with the proofs of inheritance and of parsing; then
`Instances` without RECURSIVE operators, `LoadedDocument`, and the proof of what JSON
keeps of a document.

What is left, by importance:

0. `XMLKeepsDocument` for every document, with texts of all numbers in `XmlTree`; and
   `Binding` and `Catalog` without RECURSIVE operators, to prove what is kept of catalogs.
1. The server's read handlers: `getTemplate`'s two reads of `s.sch` (server.go:517),
   `lookupJob`'s two reads of queue and store. Only their status codes are at stake;
   the wrong row that `lookupJob` can find is that of `late_save`.
2. `HandlersEnd` for a fetch that hangs: app.js has no limit for it.
3. Maps, arrays, embedded structs and the flags any and innerxml in `Binding`, once
   a type that the service binds has one.
4. The widths of numbers in converter.go.

## 7. Not modelled

- Handlers that only read, content types, body limits, HTTP status codes, logging.
- SQLite itself beyond atomic transactions and text order. An `:memory:` database is
  distinguished in `Startup`, not in `Service`, whose store always survives.
- What a second process does to the file besides opening it: it dies at once.
- Reflection on types that the service never binds: maps, arrays, interfaces,
  unsigned and embedded fields, the flags any and innerxml (xmlconv/bind.go,
  jsonconv/bind.go), dotted JSON paths, and `ToMap` of node.go.
- The widths of numbers, and floating numbers other than a few halves and NaN.
- In the page: editors, labels, stages, rendering, `openStore`, which only shows, and
  a request that hangs. Markup and style.
- A collision of ids (128 random bits).
