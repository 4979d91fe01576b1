------------------------------ MODULE Startup ------------------------------
(***************************************************************************)
(* The life of a database file over runs of the process: main loads the    *)
(* configuration, NewFromConfig opens the store at its path, or one in     *)
(* memory if that fails, and the run uses it until the process dies.  Each *)
(* run may have another configuration.  A second process may be started    *)
(* beside the first: it opens the store before it finds that it cannot     *)
(* listen.                                                                 *)
(***************************************************************************)
EXTENDS Store, Config

CONSTANTS Files, Environments  \* the files and environments a process is started with

ASSUME StartupAssumption == Files \cup Environments \subseteq Settings

VARIABLES
  up,     \* where the running process has its store: "file", "memory", or "stopped"
  saved   \* a job has been saved since the file was last opened

all == <<vars, up, saved>>

AnyFile == Files \cup {NoFile, BadFile}

StartupInit ==
  /\ Init
  /\ limit = Default.number["max_jobs"]
  /\ up = "stopped"
  /\ saved = FALSE

\* Mutant of Reopen: the jobs that were not finished are deleted.
ReopenTrims(time) ==
  /\ rows' = [id \in RowIds |-> IF rows[id].status \in Unfinished THEN NoRow ELSE rows[id]]
  /\ UNCHANGED <<document, schema>>

\* The file is opened, whoever else has it open.
Reopen(time) == Open(time)

Launches == [required : BOOLEAN, file : AnyFile, env : Environments]

ConfigOf(launch) == LoadConfig(launch.required, launch.file, launch.env)

\* What NewFromConfig is called with; main exits if there is no configuration.
Configurations == {ConfigOf(launch) : launch \in Launches} \ {Refused}

\* NewFromConfig, and main up to ListenAndServe.
Start(config, opens, time) ==
  LET c == Effective(config) IN
  /\ up = "stopped"
  /\ limit' = c.number["max_jobs"]
  /\ saved' = FALSE
  /\ IF c.text["path"] \notin {Empty, InMemory} /\ opens
       THEN up' = "file" /\ Reopen(time)
       ELSE up' = "memory" /\ UNCHANGED tables

\* A second process opens the file, fails its unfinished jobs, finds the address
\* taken and dies (main.go:27, 32).
StartBeside(time) ==
  /\ up = "file"
  /\ Reopen(time)
  /\ saved' = FALSE
  /\ UNCHANGED <<limit, up>>

\* The process works with its store: the file is left alone by one in memory.
Use ==
  /\ up = "file"
  /\ \/ PutAny /\ saved' = TRUE
     \/ WriteAny /\ UNCHANGED saved
  /\ UNCHANGED <<limit, up>>

Die == up # "stopped" /\ up' = "stopped" /\ UNCHANGED <<vars, saved>>

StartAny ==
  \E config \in Configurations, opens \in BOOLEAN, time \in Times : Start(config, opens, time)

StartupNext ==
  \/ StartAny \/ Use \/ Die
  \/ \E time \in Times : StartBeside(time)

StartupSpec == StartupInit /\ [][StartupNext]_all
-----------------------------------------------------------------------------
(* Properties. The first two are about the launch of the next process. *)

\* The launches that end in another configuration than README.md:60-64 says.
Misread ==
  {launch \in Launches :
     /\ ConfigOf(launch) # Refused
     /\ Effective(ConfigOf(launch)) # Intended(launch.file, launch.env)}

\* The launches that end at once although their file can be read, or is missing
\* and was not asked for.
Unstarted ==
  {launch \in Launches :
     /\ ConfigOf(launch) = Refused
     /\ launch.file # BadFile
     /\ launch.file = NoFile => ~launch.required}

StartupTypeOK ==
  /\ TypeOK
  /\ up \in {"file", "memory", "stopped"}
  /\ saved \in BOOLEAN

\* README.md:64: the environment overrides the file, field by field, and what is
\* neither in one nor in the other has its default; a missing file is an empty
\* one. NewFromConfig never falls back from what main has loaded, so that the
\* store of a process is never in memory because of a bad number.
EnvOverridesFile == up = "stopped" => Misread = {}

\* README.md:29, 60: a zero in the file, or a wrong number in the environment,
\* never keeps the process from starting: only a file that cannot be read does,
\* and one that is missing although it was asked for.
StartsUnlessFileBad == up = "stopped" => Unstarted = {}

\* The table of a file exceeds the limit only while there is nothing to collect,
\* for every job is still to be finished, or because no job has been saved since
\* the file was opened: Open collects nothing, whether it has failed what the last
\* run left or has a lower limit than that run.
OverLimitOnlyUnfinished ==
  Cardinality(Stored(rows)) > limit =>
    \/ \A id \in Stored(rows) : rows[id].status \in Unfinished
    \/ ~saved

\* No start loses anything: not one with a lower limit, not one that cannot open
\* the file and runs in memory, nor the end of that run. What was finished stays
\* as it was, the rest is failed by whoever opens the file. A process starts or
\* ends where up changes.
StartsLoseNothing ==
  [][up' # up =>
       /\ \A id \in RowIds :
            /\ rows[id].status \in Finished \/ up' # "file" => rows'[id] = rows[id]
            /\ rows[id].status \in Unfinished /\ up' = "file" /\ up = "stopped"
                 => rows'[id].status = "failed"
       /\ UNCHANGED <<document, schema>>]_all
=============================================================================
