------------------------------- MODULE Config -------------------------------
(***************************************************************************)
(* The configuration (config/config.go) and what the process starts with   *)
(* (cmd/typeconverter/main.go, NewFromConfig): a file read over the        *)
(* defaults, then the environment over both.                               *)
(*                                                                         *)
(* A configuration has numbers and texts.  What a file or the environment  *)
(* does not give is Absent, and so is a number of the environment that     *)
(* cannot be read as one.  A file that gives something else than a number  *)
(* where one belongs cannot be used at all: it is a BadFile.               *)
(***************************************************************************)
EXTENDS Integers

CONSTANTS
  CPUs,        \* runtime.NumCPU()
  Texts,       \* addresses and paths
  Empty,       \* ""
  InMemory,    \* ":memory:"
  DefaultAddr, DefaultPath,
  Absent,
  NoFile, BadFile,   \* instead of what a file says: missing; unreadable, malformed
                     \* or with a member of the wrong kind
  Refused            \* instead of a configuration

ASSUME ConfigAssumption ==
  /\ CPUs \in Nat \ {0}
  /\ {DefaultAddr, DefaultPath} \subseteq Texts
  /\ Empty \notin Texts
  /\ Absent \notin Int \cup Texts \cup {Empty}
  /\ NoFile # BadFile

NumberFields == {"workers", "queue_size", "max_jobs", "max_body_bytes"}
TextFields   == {"addr", "path"}

Configs  == [number : [NumberFields -> Int], text : [TextFields -> Texts \cup {Empty}]]
Settings == [number : [NumberFields -> Int \cup {Absent}],
             text : [TextFields -> Texts \cup {Empty, Absent}]]

ASSUME OutcomeAssumption == {NoFile, BadFile} \cap Settings = {} /\ Refused \notin Configs

Default ==
  [number |-> [workers |-> IF CPUs < 2 THEN 2 ELSE CPUs, queue_size |-> 256,
               max_jobs |-> 10000, max_body_bytes |-> 10485760],
   text |-> [addr |-> DefaultAddr, path |-> DefaultPath]]

\* The members of the file replace those of c.
Unmarshal(file, c) ==
  [number |-> [f \in NumberFields |-> IF file.number[f] = Absent THEN c.number[f] ELSE file.number[f]],
   text |-> [f \in TextFields |-> IF file.text[f] = Absent THEN c.text[f] ELSE file.text[f]]]

\* Mutant of ApplyDefaults: a zero is kept.
ApplyDefaultsNegative(c) ==
  [number |-> [f \in NumberFields |-> IF c.number[f] < 0 THEN Default.number[f] ELSE c.number[f]],
   text |-> [f \in TextFields |-> IF c.text[f] = Empty THEN Default.text[f] ELSE c.text[f]]]

ApplyDefaults(c) ==
  [number |-> [f \in NumberFields |-> IF c.number[f] <= 0 THEN Default.number[f] ELSE c.number[f]],
   text |-> [f \in TextFields |-> IF c.text[f] = Empty THEN Default.text[f] ELSE c.text[f]]]

\* Mutant of ApplyEnv: any number of the environment is taken.
ApplyEnvAny(c, env) ==
  [number |-> [f \in NumberFields |-> IF env.number[f] = Absent THEN c.number[f] ELSE env.number[f]],
   text |-> [f \in TextFields |->
               IF env.text[f] \in {Absent, Empty} THEN c.text[f] ELSE env.text[f]]]

Positive(n) == n # Absent /\ n > 0

ApplyEnv(c, env) ==
  [number |-> [f \in NumberFields |-> IF Positive(env.number[f]) THEN env.number[f] ELSE c.number[f]],
   text |-> [f \in TextFields |->
               IF env.text[f] \in {Absent, Empty} THEN c.text[f] ELSE env.text[f]]]

\* Validate, which leaves the path alone.
Valid(c) ==
  /\ c.text["addr"] # Empty
  /\ \A f \in NumberFields : c.number[f] >= 1

Load(file, env) ==
  IF file \in {NoFile, BadFile} THEN Refused
  ELSE LET c == ApplyEnv(ApplyDefaults(Unmarshal(file, Default)), env) IN
       IF Valid(c) THEN c ELSE Refused

LoadOrDefault(file, env) == IF file = NoFile THEN ApplyEnv(Default, env) ELSE Load(file, env)

\* main: the file is required when -config names another than the default one,
\* or CONFIG is set.
LoadConfig(required, file, env) ==
  IF required THEN Load(file, env) ELSE LoadOrDefault(file, env)

\* NewFromConfig: a configuration that is not valid gives way to the defaults,
\* with the store in memory.
Effective(c) == IF Valid(c) THEN c ELSE [Default EXCEPT !.text["path"] = Empty]
-----------------------------------------------------------------------------
(* What a field should be, by README.md:60-64. *)

Preferred(number, otherwise) == IF Positive(number) THEN number ELSE otherwise
Given(text, otherwise) == IF text \in {Absent, Empty} THEN otherwise ELSE text

\* What the file says, or nothing at all if it is missing.
Said(file) ==
  IF file = NoFile
    THEN [number |-> [f \in NumberFields |-> Absent], text |-> [f \in TextFields |-> Absent]]
    ELSE file

Intended(file, env) ==
  [number |-> [f \in NumberFields |->
      Preferred(env.number[f], Preferred(Said(file).number[f], Default.number[f]))],
   text |-> [f \in TextFields |-> Given(env.text[f], Given(Said(file).text[f], Default.text[f]))]]
=============================================================================
