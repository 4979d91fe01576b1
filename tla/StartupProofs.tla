--------------------------- MODULE StartupProofs ---------------------------
(***************************************************************************)
(* The configuration, for any file and environment, and the database file  *)
(* over runs of the process, for any number of jobs, any times, limits and *)
(* precision of the clock. What is needed of the order of time texts, by   *)
(* which the store collects, is that an earlier second comes first.        *)
(***************************************************************************)
EXTENDS Startup, Inductions, FiniteSetTheorems, SequenceTheorems

(* Quotients. *)

LEMMA DivMod ==
  ASSUME NEW t \in Nat, NEW p \in Nat \ {0}
  PROVE  /\ t \div p \in Nat
         /\ t % p \in 0..(p - 1)
         /\ t = p * (t \div p) + (t % p)
OBVIOUS
-----------------------------------------------------------------------------
(* Powers of the base. *)

LEMMA PowerDef == \A k \in Nat : Power(k) = IF k = 0 THEN 1 ELSE Base * Power(k - 1)
<1>1. Powers = [q \in Nat \X Nat |->
                  IF q[2] = 0 THEN 1 ELSE q[1] * Powers[OneLess(q)]]
  BY DEF Powers
<1>2. ASSUME NEW k \in Nat
      PROVE  Power(k) = IF k = 0 THEN 1 ELSE Base * Power(k - 1)
  <2> DEFINE q == <<Base, k>>
  <2>1. q \in Nat \X Nat /\ q[1] = Base /\ q[2] = k
    BY TimeAssumption
  <2>2. Powers[q] = IF q[2] = 0 THEN 1 ELSE q[1] * Powers[OneLess(q)]
    <3> HIDE DEF q
    <3> QED BY <1>1, <2>1
  <2> QED BY <2>1, <2>2 DEF Power, OneLess
<1> QED BY <1>2

LEMMA PowerStep ==
  /\ Power(0) = 1
  /\ \A k \in Nat : Power(k + 1) = Base * Power(k)
<1>1. \A k \in Nat : Power(k) = IF k = 0 THEN 1 ELSE Base * Power(k - 1)
  BY PowerDef
<1>2. ASSUME NEW k \in Nat PROVE Power(k + 1) = Base * Power(k)
  <2>1. k + 1 \in Nat /\ k + 1 # 0 /\ (k + 1) - 1 = k
    OBVIOUS
  <2> QED BY <1>1, <2>1
<1> QED BY <1>1, <1>2

LEMMA PowerPositive == \A k \in Nat : Power(k) \in Nat \ {0}
<1> DEFINE S == {k \in Nat : Power(k) \in Nat \ {0}}
<1>1. 0 \in S
  BY PowerStep
<1>2. ASSUME NEW k \in Nat, k \in S PROVE k + 1 \in S
  <2>1. Base * Power(k) \in Nat \ {0}
    BY <1>2, TimeAssumption
  <2> QED BY <2>1, PowerStep
<1> HIDE DEF S
<1>3. Nat \subseteq S
  BY <1>1, <1>2, Induction
<1> QED BY <1>3 DEF S

-----------------------------------------------------------------------------
(* A time and its text. *)

LEMMA DroppedOK ==
  ASSUME NEW t \in Nat
  PROVE  Dropped(t) \in 0..Width
<1> DEFINE S == {k \in 0..Width : t % Power(k) = 0}
<1>1. S \in SUBSET (0..Width) /\ Width \in Nat
  BY TimeAssumption
<1>2. 0 \in S
  BY PowerStep, TimeAssumption
<1>3. Dropped(t) = CHOOSE x \in S : \A y \in S : x >= y
  BY DEF Dropped, Max
<1> HIDE DEF S
<1>4. \E x \in S : \A y \in S : x >= y
  <2>1. PICK x \in S : \A y \in S : y <= x
    BY <1>1, <1>2, GreatestElement
  <2>2. \A y \in S : x >= y
    BY <1>1, <2>1
  <2> QED BY <2>2
<1> QED BY <1>1, <1>3, <1>4

\* Two sequences, one after the other.
LEMMA Joined ==
  ASSUME NEW s \in Seq(Int), NEW r \in Seq(Int)
  PROVE  /\ s \o r \in Seq(Int)
         /\ Len(s \o r) = Len(s) + Len(r)
         /\ \A i \in 1..Len(s) : (s \o r)[i] = s[i]
         /\ \A i \in 1..Len(r) : (s \o r)[Len(s) + i] = r[i]
<1>1. Len(s) \in Nat /\ Len(r) \in Nat
  BY LenProperties
<1>2. /\ s \o r \in Seq(Int) /\ Len(s \o r) = Len(s) + Len(r)
      /\ \A i \in 1..(Len(s) + Len(r)) : (s \o r)[i] = IF i <= Len(s) THEN s[i] ELSE r[i - Len(s)]
  BY ConcatProperties
<1>3. \A i \in 1..Len(s) : i \in 1..(Len(s) + Len(r)) /\ i <= Len(s)
  BY <1>1
<1>4. \A i \in 1..Len(r) :
        Len(s) + i \in 1..(Len(s) + Len(r)) /\ ~(Len(s) + i <= Len(s)) /\ (Len(s) + i) - Len(s) = i
  BY <1>1
<1> QED BY <1>2, <1>3, <1>4

LEMMA Single ==
  ASSUME NEW x \in Int
  PROVE  <<x>> \in Seq(Int) /\ Len(<<x>>) = 1 /\ <<x>>[1] = x
OBVIOUS

LEMMA FractionOK ==
  ASSUME NEW t \in Nat
  PROVE  Fraction(t) \in Seq(Int)
<1> DEFINE n == Width - Dropped(t)
<1>1. n \in Nat /\ \A i \in 1..n : Width - i \in Nat
  BY DroppedOK, TimeAssumption
<1>2. \A i \in 1..n : Digit((t \div Power(Width - i)) % Base) \in Int
  <2> TAKE i \in 1..n
  <2>1. t \div Power(Width - i) \in Nat
    BY <1>1, PowerPositive, DivMod
  <2> HIDE DEF n
  <2> QED BY <2>1, TimeAssumption, DivMod DEF Digit
<1> QED BY <1>1, <1>2 DEF Fraction

\* A text begins with the seconds, and is longer than that.
LEMMA TextStart ==
  ASSUME NEW t \in Nat
  PROVE  Len(Text(t)) \in Nat /\ Len(Text(t)) >= 2 /\ Text(t)[1] = t \div Ticks
<1> DEFINE a == <<t \div Ticks>>
           z == <<Zulu>>
           f == IF Dropped(t) = Width THEN <<>> ELSE <<Point>> \o Fraction(t)
<1>1. t \div Ticks \in Int /\ Zulu \in Int /\ Point \in Int
  BY PowerPositive, DivMod, TimeAssumption DEF Ticks, Zulu, Point
<1>2. /\ a \in Seq(Int) /\ Len(a) = 1 /\ a[1] = t \div Ticks
      /\ z \in Seq(Int) /\ Len(z) = 1
  BY <1>1, Single
<1>3. f \in Seq(Int)
  <2>1. <<Point>> \in Seq(Int) /\ Fraction(t) \in Seq(Int)
    BY <1>1, Single, FractionOK
  <2>2. <<Point>> \o Fraction(t) \in Seq(Int)
    BY <2>1, Joined
  <2> QED BY <2>2
<1>4. Text(t) = (a \o f) \o z
  BY DEF Text
<1> HIDE DEF a, f, z
<1>5. /\ a \o f \in Seq(Int) /\ Len(a \o f) = 1 + Len(f) /\ Len(f) \in Nat
      /\ (a \o f)[1] = t \div Ticks
  <2>1. a \o f \in Seq(Int) /\ Len(a \o f) = Len(a) + Len(f) /\ \A i \in 1..Len(a) : (a \o f)[i] = a[i]
    BY <1>2, <1>3, Joined
  <2>2. 1 \in 1..Len(a) /\ Len(f) \in Nat
    BY <1>2, <1>3, LenProperties
  <2> QED BY <1>2, <2>1, <2>2
<1>6. /\ Len((a \o f) \o z) = (1 + Len(f)) + 1
      /\ ((a \o f) \o z)[1] = (a \o f)[1]
  <2>1. 1 \in 1..Len(a \o f)
    BY <1>5
  <2>2. /\ Len((a \o f) \o z) = Len(a \o f) + Len(z)
        /\ \A i \in 1..Len(a \o f) : ((a \o f) \o z)[i] = (a \o f)[i]
    BY <1>2, <1>5, Joined
  <2> QED BY <1>2, <1>5, <2>1, <2>2
<1> QED BY <1>4, <1>5, <1>6

\* An earlier second comes first.
LEMMA SecondsFirst ==
  ASSUME NEW t \in Nat, NEW u \in Nat, t \div Ticks < u \div Ticks
  PROVE  TextBefore(t, u)
<1>1. /\ Len(Text(t)) \in Nat /\ Len(Text(t)) >= 2 /\ Text(t)[1] = t \div Ticks
      /\ Len(Text(u)) \in Nat /\ Len(Text(u)) >= 2 /\ Text(u)[1] = u \div Ticks
  BY TextStart
<1>2. 1 \in 1..Len(Text(t)) /\ 1 <= Len(Text(u))
  BY <1>1
<1> QED BY <1>1, <1>2 DEF TextBefore, Precedes
-----------------------------------------------------------------------------
(* The configuration and the database file. *)

LEMMA DefaultOK ==
  /\ Default \in Configs
  /\ \A f \in NumberFields : Default.number[f] > 0
  /\ Default.text["addr"] # Empty
BY ConfigAssumption DEF Default, Configs, NumberFields, TextFields

\* What a file that could be read is loaded to.
FromFile(file) == ApplyDefaults(Unmarshal(file, Default))

LEMMA FromFileOK ==
  ASSUME NEW file \in Settings
  PROVE  /\ FromFile(file) \in Configs
         /\ \A f \in NumberFields :
              FromFile(file).number[f] = Preferred(file.number[f], Default.number[f])
         /\ \A f \in TextFields : FromFile(file).text[f] = Given(file.text[f], Default.text[f])
<1> DEFINE c == Unmarshal(file, Default)
<1>1. c \in Configs
  BY DefaultOK, ConfigAssumption DEF Unmarshal, Configs, Settings
<1>2. /\ \A f \in NumberFields : c.number[f] = IF file.number[f] = Absent THEN Default.number[f]
                                                                         ELSE file.number[f]
      /\ \A f \in TextFields : c.text[f] = IF file.text[f] = Absent THEN Default.text[f] ELSE file.text[f]
  BY DEF Unmarshal
<1> HIDE DEF c
<1>3. ApplyDefaults(c) \in Configs
  BY <1>1, DefaultOK DEF ApplyDefaults, Configs
<1>4. /\ \A f \in NumberFields :
           ApplyDefaults(c).number[f] = IF c.number[f] <= 0 THEN Default.number[f] ELSE c.number[f]
      /\ \A f \in TextFields :
           ApplyDefaults(c).text[f] = IF c.text[f] = Empty THEN Default.text[f] ELSE c.text[f]
  BY DEF ApplyDefaults
<1>5. ASSUME NEW f \in NumberFields
      PROVE  ApplyDefaults(c).number[f] = Preferred(file.number[f], Default.number[f])
  <2>1. file.number[f] \in Int \cup {Absent} /\ Default.number[f] \in Int /\ Default.number[f] > 0
    BY DefaultOK DEF Settings, Configs
  <2> QED BY <1>2, <1>4, <2>1, ConfigAssumption DEF Preferred, Positive
<1>6. ASSUME NEW f \in TextFields
      PROVE  ApplyDefaults(c).text[f] = Given(file.text[f], Default.text[f])
  BY <1>2, <1>4 DEF Given
<1> QED BY <1>3, <1>5, <1>6 DEF FromFile, c

LEMMA ApplyEnvOK ==
  ASSUME NEW c \in Configs, NEW env \in Settings
  PROVE  /\ ApplyEnv(c, env) \in Configs
         /\ \A f \in NumberFields :
              ApplyEnv(c, env).number[f] = Preferred(env.number[f], c.number[f])
         /\ \A f \in TextFields : ApplyEnv(c, env).text[f] = Given(env.text[f], c.text[f])
  BY ConfigAssumption DEF ApplyEnv, Configs, Settings, Preferred, Positive, Given

\* Two configurations that agree field by field are the same.
LEMMA SameConfig ==
  ASSUME NEW c \in Configs, NEW d \in Configs,
         \A f \in NumberFields : c.number[f] = d.number[f],
         \A f \in TextFields : c.text[f] = d.text[f]
  PROVE  c = d
<1>1. c.number = d.number /\ c.text = d.text
  BY DEF Configs
<1> QED BY <1>1 DEF Configs

\* Loading yields what was intended, which is always valid.
LEMMA IntendedOK ==
  ASSUME NEW c \in Configs, NEW env \in Settings, NEW file,
         \A f \in NumberFields : c.number[f] = Preferred(Said(file).number[f], Default.number[f]),
         \A f \in TextFields : c.text[f] = Given(Said(file).text[f], Default.text[f]),
         \A f \in NumberFields : c.number[f] > 0, c.text["addr"] # Empty
  PROVE  /\ ApplyEnv(c, env) \in Configs /\ Valid(ApplyEnv(c, env))
         /\ ApplyEnv(c, env) = Intended(file, env)
<1> DEFINE d == ApplyEnv(c, env)
<1>1. d \in Configs
  BY ApplyEnvOK
<1>2. /\ \A f \in NumberFields : d.number[f] = Preferred(env.number[f], c.number[f])
      /\ \A f \in TextFields : d.text[f] = Given(env.text[f], c.text[f])
  BY ApplyEnvOK
<1> HIDE DEF d
<1>3. Intended(file, env) = d
  <2>1. d.number = Intended(file, env).number /\ d.text = Intended(file, env).text
    BY <1>1, <1>2 DEF Intended, Configs
  <2> QED BY <1>1, <2>1 DEF Configs, Intended
<1>4. Valid(d)
  <2>1. \A f \in NumberFields : d.number[f] \in Int /\ d.number[f] > 0
    BY <1>1, <1>2 DEF Configs, Preferred, Positive
  <2>2. d.text["addr"] # Empty
    BY <1>2 DEF Given, TextFields
  <2> QED BY <2>1, <2>2 DEF Valid
<1> QED BY <1>1, <1>3, <1>4 DEF d

LEMMA LoadedOK ==
  ASSUME NEW launch \in Launches
  PROVE  IF launch.file = BadFile \/ (launch.file = NoFile /\ launch.required)
           THEN ConfigOf(launch) = Refused
           ELSE /\ ConfigOf(launch) \in Configs /\ Valid(ConfigOf(launch))
                /\ ConfigOf(launch) = Intended(launch.file, launch.env)
<1> DEFINE file == launch.file  env == launch.env
<1>1. env \in Settings /\ file \in Settings \cup {NoFile, BadFile}
  BY StartupAssumption DEF Launches, AnyFile
<1>2. CASE file = BadFile \/ (file = NoFile /\ launch.required)
  BY <1>2, ConfigAssumption DEF ConfigOf, LoadConfig, LoadOrDefault, Load
<1>3. CASE file = NoFile /\ ~launch.required
  <2>1. /\ \A f \in NumberFields : Default.number[f] = Preferred(Said(file).number[f], Default.number[f])
        /\ \A f \in TextFields : Default.text[f] = Given(Said(file).text[f], Default.text[f])
    BY <1>3 DEF Said, Preferred, Positive, Given
  <2>2. ConfigOf(launch) = ApplyEnv(Default, env)
    BY <1>3 DEF ConfigOf, LoadConfig, LoadOrDefault
  <2>3. /\ ApplyEnv(Default, env) \in Configs /\ Valid(ApplyEnv(Default, env))
        /\ ApplyEnv(Default, env) = Intended(file, env)
    BY <1>1, <2>1, DefaultOK, IntendedOK
  <2> QED BY <1>3, <2>2, <2>3, ConfigAssumption
<1>4. CASE file \in Settings
  <2>0. file \notin {NoFile, BadFile} /\ Said(file) = file
    BY <1>4, OutcomeAssumption DEF Said
  <2>1. /\ FromFile(file) \in Configs
        /\ \A f \in NumberFields : FromFile(file).number[f] > 0
        /\ FromFile(file).text["addr"] # Empty
    <3>1. \A f \in NumberFields : Preferred(file.number[f], Default.number[f]) > 0
      BY DefaultOK DEF Preferred, Positive
    <3>2. Given(file.text["addr"], Default.text["addr"]) # Empty
      BY DefaultOK DEF Given
    <3> QED BY <1>4, <3>1, <3>2, FromFileOK DEF TextFields
  <2>2. /\ ApplyEnv(FromFile(file), env) \in Configs /\ Valid(ApplyEnv(FromFile(file), env))
        /\ ApplyEnv(FromFile(file), env) = Intended(file, env)
    BY <1>1, <1>4, <2>0, <2>1, FromFileOK, IntendedOK
  <2>3. Load(file, env) = ApplyEnv(FromFile(file), env)
    BY <2>0, <2>2 DEF Load, FromFile
  <2>4. ConfigOf(launch) = Load(file, env)
    BY <2>0 DEF ConfigOf, LoadConfig, LoadOrDefault
  <2> QED BY <2>0, <2>2, <2>3, <2>4
<1> QED BY <1>1, <1>2, <1>3, <1>4

\* README.md:60-64, whatever the file and the environment say: a process that is
\* configured has the environment over the file over the defaults, field by field,
\* and never falls back to a store in memory because of what they say.
THEOREM EnvironmentOverrides == StartupSpec => []EnvOverridesFile
<1>1. EnvOverridesFile
  <2>1. ASSUME NEW launch \in Launches, ConfigOf(launch) # Refused
        PROVE  Effective(ConfigOf(launch)) = Intended(launch.file, launch.env)
    BY <2>1, LoadedOK DEF Effective
  <2> QED BY <2>1 DEF EnvOverridesFile, Misread
<1> QED BY <1>1, PTL

\* Only a file keeps the process from starting: one that cannot be read, or one that
\* was asked for and is missing (Load, LoadOrDefault, Validate).
THEOREM StartsWithAnyNumbers == StartupSpec => []StartsUnlessFileBad
<1>1. StartsUnlessFileBad
  <2>1. ASSUME NEW launch \in Launches, ConfigOf(launch) = Refused
        PROVE  launch.file = BadFile \/ (launch.file = NoFile /\ launch.required)
    BY <2>1, LoadedOK, OutcomeAssumption
  <2>2. Unstarted = {}
    BY <2>1 DEF Unstarted
  <2> QED BY <2>2 DEF StartsUnlessFileBad
<1> QED BY <1>1, PTL
-----------------------------------------------------------------------------
(* The file. *)

Rows == [status : Statuses, kind : Kinds, updated : Nat, interrupted : BOOLEAN]

\* What NewFromConfig is called with is a valid configuration.
LEMMA ConfigurationOK ==
  ASSUME NEW config \in Configurations
  PROVE  Effective(config) = config /\ config.number["max_jobs"] \in Nat \ {0}
<1>1. config \in Configs /\ Valid(config)
  BY LoadedOK DEF Configurations
<1>2. config.number["max_jobs"] \in Int /\ config.number["max_jobs"] >= 1
  BY <1>1 DEF Configs, Valid, NumberFields
<1> QED BY <1>1, <1>2 DEF Effective

LEMMA RowOK ==
  ASSUME NEW table \in [RowIds -> {NoRow} \cup Rows]
  PROVE  /\ \A id \in RowIds, kind \in Kinds, st \in Statuses, time \in Nat :
              [table EXCEPT ![id] = Row(st, kind, time)] \in [RowIds -> {NoRow} \cup Rows]
         /\ \A ids : Without(table, ids) \in [RowIds -> {NoRow} \cup Rows]
BY DEF Row, Rows, Without

LEMMA OpenOK ==
  ASSUME rows \in [RowIds -> {NoRow} \cup Rows], NEW time \in Times, Open(time)
  PROVE  /\ rows' \in [RowIds -> {NoRow} \cup Rows]
         /\ UNCHANGED <<document, schema>>
<1>1. \A id \in RowIds :
        rows[id].status \in Unfinished =>
          [status |-> "failed", kind |-> rows[id].kind, updated |-> time, interrupted |-> TRUE] \in Rows
  BY TimesAssumption DEF Rows, NoRow, Unfinished, Statuses, Finished
<1> QED BY <1>1 DEF Open

LEMMA StartupTypeStep ==
  ASSUME StartupTypeOK, [StartupNext]_all
  PROVE  StartupTypeOK'
<1>0. /\ rows \in [RowIds -> {NoRow} \cup Rows] /\ limit \in Nat \ {0}
      /\ document \in Blobs \cup {NoBlob} /\ schema \in Blobs \cup {NoBlob}
      /\ up \in {"file", "memory", "stopped"} /\ saved \in BOOLEAN
  BY DEF StartupTypeOK, TypeOK, Rows
<1> SUFFICES /\ rows' \in [RowIds -> {NoRow} \cup Rows] /\ limit' \in Nat \ {0}
             /\ document' \in Blobs \cup {NoBlob} /\ schema' \in Blobs \cup {NoBlob}
             /\ up' \in {"file", "memory", "stopped"} /\ saved' \in BOOLEAN
  BY DEF StartupTypeOK, TypeOK, Rows
<1>1. ASSUME NEW config \in Configurations, NEW opens \in BOOLEAN, NEW time \in Times,
             Start(config, opens, time)
      PROVE  /\ rows' \in [RowIds -> {NoRow} \cup Rows] /\ limit' \in Nat \ {0}
             /\ UNCHANGED <<document, schema>>
             /\ up' \in {"file", "memory", "stopped"} /\ saved' \in BOOLEAN
  BY <1>0, <1>1, ConfigurationOK, OpenOK DEF Start, Reopen, tables
<1>2. ASSUME NEW time \in Times, StartBeside(time)
      PROVE  rows' \in [RowIds -> {NoRow} \cup Rows] /\ UNCHANGED <<document, schema>>
  BY <1>0, <1>2, OpenOK DEF StartBeside, Reopen
<1>3. ASSUME PutAny
      PROVE  rows' \in [RowIds -> {NoRow} \cup Rows] /\ UNCHANGED <<document, schema>>
  <2>1. PICK id \in RowIds, kind \in Kinds, st \in Statuses, time \in Times : Put(id, kind, st, time)
    BY <1>3 DEF PutAny
  <2> DEFINE written == [rows EXCEPT ![id] = Row(st, kind, time)]
  <2>2. written \in [RowIds -> {NoRow} \cup Rows]
    BY <1>0, RowOK, TimesAssumption
  <2>3. PICK ids : rows' = Without(written, ids)
    BY <2>1 DEF Put
  <2> HIDE DEF written
  <2>4. rows' \in [RowIds -> {NoRow} \cup Rows]
    BY <2>2, <2>3, RowOK
  <2> QED BY <2>1, <2>4 DEF Put
<1>4. ASSUME WriteAny
      PROVE  /\ rows' \in [RowIds -> {NoRow} \cup Rows]
             /\ document' \in Blobs \cup {NoBlob} /\ schema' \in Blobs \cup {NoBlob}
  <2>1. CASE \E id \in RowIds : Delete(id)
    BY <1>0, <2>1, RowOK DEF Delete
  <2>2. CASE \E kind \in KindFilters : DeleteFinished(kind)
    <3>1. PICK ids : rows' = Without(rows, ids)
      BY <2>2 DEF DeleteFinished
    <3> QED BY <1>0, <2>2, <3>1, RowOK DEF DeleteFinished
  <2>3. CASE \/ \E blob \in Blobs : SetDocument(blob) \/ SetSchema(blob)
             \/ ClearDocument \/ ClearSchema
    BY <1>0, <2>3 DEF SetDocument, SetSchema, ClearDocument, ClearSchema
  <2> QED BY <1>4, <2>1, <2>2, <2>3 DEF WriteAny
<1>5. CASE StartAny
  BY <1>0, <1>1, <1>5 DEF StartAny
<1>6. CASE Use
  BY <1>0, <1>3, <1>4, <1>6 DEF Use
<1>7. CASE Die \/ UNCHANGED all
  BY <1>0, <1>7 DEF Die, all, vars, tables
<1>8. CASE \E time \in Times : StartBeside(time)
  BY <1>0, <1>2, <1>8 DEF StartBeside
<1> QED BY <1>5, <1>6, <1>7, <1>8 DEF StartupNext

\* The tables, the limit and where the store is have their types over all runs.
THEOREM StartupTypes == StartupSpec => []StartupTypeOK
<1>1. StartupInit => StartupTypeOK
  <2> SUFFICES ASSUME StartupInit PROVE StartupTypeOK
    OBVIOUS
  <2>1. Default.number["max_jobs"] \in Nat \ {0}
    BY DEF Default, NumberFields
  <2>2. rows \in [RowIds -> {NoRow} \cup Rows]
    BY DEF StartupInit, Init
  <2>3. TypeOK
    BY <2>1, <2>2 DEF StartupInit, Init, TypeOK, Rows
  <2> QED BY <2>3 DEF StartupInit, StartupTypeOK
<1> QED BY <1>1, StartupTypeStep, PTL DEF StartupSpec

Keeps ==
  up' # up =>
    /\ \A id \in RowIds :
         /\ rows[id].status \in Finished \/ up' # "file" => rows'[id] = rows[id]
         /\ rows[id].status \in Unfinished /\ up' = "file" /\ up = "stopped"
              => rows'[id].status = "failed"
    /\ UNCHANGED <<document, schema>>

\* No start and no end of a run loses or changes a finished job (Open, NewFromConfig).
THEOREM NothingLost == StartupSpec => StartsLoseNothing
<1>1. StartupTypeOK /\ [StartupNext]_all => [Keeps]_all
  <2> SUFFICES ASSUME StartupTypeOK, StartupNext PROVE Keeps
    OBVIOUS
  <2>1. ASSUME NEW time \in Times, Open(time), NEW id \in RowIds
        PROVE  IF rows[id].status \in Unfinished THEN rows'[id].status = "failed" ELSE rows'[id] = rows[id]
    BY <2>1 DEF Open
  <2>2. ASSUME NEW config \in Configurations, NEW opens \in BOOLEAN, NEW time \in Times,
               Start(config, opens, time)
        PROVE  Keeps
    <3>1. CASE up' = "file"
      <4>1. Open(time) /\ UNCHANGED <<document, schema>>
        BY <2>2, <3>1 DEF Start, Reopen, Open
      <4> QED BY <2>1, <3>1, <4>1 DEF Keeps, Finished, Unfinished
    <3>2. CASE up' # "file"
      BY <2>2, <3>2 DEF Start, tables, Keeps
    <3> QED BY <3>1, <3>2
  <2>3. CASE Die
    BY <2>3 DEF Die, Keeps, vars, tables
  <2>4. CASE Use \/ \E time \in Times : StartBeside(time)
    BY <2>4 DEF Use, StartBeside, Keeps
  <2> QED BY <2>2, <2>3, <2>4 DEF StartAny, StartupNext
<1> QED BY <1>1, StartupTypes, PTL DEF StartupSpec, StartsLoseNothing, Keeps
-----------------------------------------------------------------------------
(* The limit. *)

RowsOK(table) == table \in [RowIds -> {NoRow} \cup Rows]

LEMMA StoredOK ==
  ASSUME NEW table, RowsOK(table)
  PROVE  /\ IsFiniteSet(Stored(table)) /\ Cardinality(Stored(table)) \in Nat
         /\ IsFiniteSet(FinishedRows(table)) /\ Cardinality(FinishedRows(table)) \in Nat
         /\ FinishedRows(table) \subseteq Stored(table)
         /\ \A id \in Stored(table) \ FinishedRows(table) : table[id].status \in Unfinished
<1>1. FinishedRows(table) \subseteq Stored(table) /\ Stored(table) \subseteq RowIds
  BY DEF FinishedRows, Stored, NoRow, Finished
<1>2. IsFiniteSet(Stored(table)) /\ IsFiniteSet(FinishedRows(table))
  BY <1>1, StoreAssumption, FS_Subset
<1>3. \A id \in Stored(table) \ FinishedRows(table) : table[id].status \in Unfinished
  BY DEF FinishedRows, Stored, RowsOK, Rows, Statuses
<1> QED BY <1>1, <1>2, <1>3, FS_CardinalityType

\* What gcTx leaves is within the limit or has nothing left to collect.
LEMMA CollectedOK ==
  ASSUME NEW table, RowsOK(table), limit \in Nat, NEW ids \in Collectable(table)
  PROVE  \/ Cardinality(Stored(table) \ ids) <= limit
         \/ \A id \in Stored(table) \ ids : table[id].status \in Unfinished
<1> DEFINE n == Cardinality(Stored(table))
           f == Cardinality(FinishedRows(table))
           gone == Least(Excess(n, limit), f)
<1>1. n \in Nat /\ f \in Nat
  BY StoredOK
<1>2. ids \in SUBSET FinishedRows(table) /\ Cardinality(ids) = gone
  BY DEF Collectable
<1>3. Cardinality(Stored(table) \ ids) = n - gone
  <2>1. Stored(table) \cap ids = ids
    BY <1>2, StoredOK
  <2>2. IsFiniteSet(Stored(table))
    BY StoredOK
  <2>3. Cardinality(Stored(table) \ ids) = n - Cardinality(ids)
    BY <2>1, <2>2, FS_Difference
  <2> QED BY <1>2, <2>3
<1>4. CASE gone = f
  <2>1. ids = FinishedRows(table)
    <3> HIDE DEF gone
    <3> QED BY <1>2, <1>4, StoredOK, FS_Subset
  <2> QED BY <2>1, StoredOK
<1>5. CASE gone # f
  <2> HIDE DEF n, f
  <2>1. gone = Excess(n, limit)
    BY <1>5 DEF Least
  <2>2. n - gone <= limit
    BY <1>1, <2>1 DEF Excess
  <2> HIDE DEF gone
  <2> QED BY <1>3, <2>2
<1> QED BY <1>4, <1>5

LEMMA StoredWithout ==
  ASSUME NEW table, NEW ids
  PROVE  /\ Stored(Without(table, ids)) = Stored(table) \ ids
         /\ \A id \in Stored(table) \ ids : Without(table, ids)[id] = table[id]
BY DEF Stored, Without

LEMMA OverLimitStep ==
  ASSUME StartupTypeOK, OverLimitOnlyUnfinished, [StartupNext]_all
  PROVE  OverLimitOnlyUnfinished'
<1>0. RowsOK(rows) /\ limit \in Nat
  BY DEF StartupTypeOK, TypeOK, RowsOK, Rows
<1>1. ASSUME UNCHANGED <<limit, saved>>, NEW ids, rows' = Without(rows, ids) PROVE OverLimitOnlyUnfinished'
  <2>1. Stored(rows') = Stored(rows) \ ids
    BY <1>1, StoredWithout
  <2>2. /\ Cardinality(Stored(rows')) <= Cardinality(Stored(rows))
        /\ Cardinality(Stored(rows')) \in Nat /\ Cardinality(Stored(rows)) \in Nat
    BY <1>0, <2>1, StoredOK, FS_Subset, FS_CardinalityType
  <2>3. \A id \in Stored(rows') : rows'[id] = rows[id] /\ id \in Stored(rows)
    BY <1>1, <2>1, StoredWithout
  <2> QED BY <1>0, <1>1, <2>2, <2>3 DEF OverLimitOnlyUnfinished
<1>2. ASSUME UNCHANGED <<rows, limit, saved>> PROVE OverLimitOnlyUnfinished'
  BY <1>2 DEF OverLimitOnlyUnfinished, Stored
<1>3. ASSUME PutAny, UNCHANGED limit PROVE OverLimitOnlyUnfinished'
  <2>1. PICK id \in RowIds, kind \in Kinds, st \in Statuses, time \in Times : Put(id, kind, st, time)
    BY <1>3 DEF PutAny
  <2> DEFINE written == [rows EXCEPT ![id] = Row(st, kind, time)]
  <2>2. RowsOK(written)
    BY <1>0, RowOK, TimesAssumption DEF RowsOK
  <2>3. PICK ids \in Collectable(written) : rows' = Without(written, ids)
    BY <2>1 DEF Put
  <2> HIDE DEF written
  <2>4. Stored(rows') = Stored(written) \ ids /\ \A i \in Stored(rows') : rows'[i] = written[i]
    BY <2>3, StoredWithout
  <2>5. \/ Cardinality(Stored(rows')) <= limit
        \/ \A i \in Stored(rows') : rows'[i].status \in Unfinished
    BY <1>0, <2>2, <2>4, CollectedOK
  <2>6. Cardinality(Stored(rows')) \in Nat
    BY <2>2, <2>4, StoredOK, FS_Subset, FS_CardinalityType
  <2> QED BY <1>0, <1>3, <2>5, <2>6 DEF OverLimitOnlyUnfinished
<1>4. ASSUME ~saved' PROVE OverLimitOnlyUnfinished'
  BY <1>4 DEF OverLimitOnlyUnfinished
<1>5. CASE Use /\ PutAny
  BY <1>3, <1>5 DEF Use
<1>6. CASE Use /\ WriteAny /\ UNCHANGED saved
  <2>1. (\E ids : rows' = Without(rows, ids)) \/ UNCHANGED rows
    BY <1>6 DEF WriteAny, Delete, DeleteFinished, SetDocument, SetSchema, ClearDocument, ClearSchema
  <2> QED BY <1>1, <1>2, <1>6, <2>1 DEF Use
<1>7. CASE StartAny \/ \E time \in Times : StartBeside(time)
  BY <1>4, <1>7 DEF StartAny, Start, StartBeside
<1>8. CASE Die \/ UNCHANGED all
  BY <1>2, <1>8 DEF Die, all, vars, tables
<1> QED BY <1>5, <1>6, <1>7, <1>8 DEF StartupNext, Use

\* Over all runs, the table is over the limit only with unfinished jobs, or until the
\* first save of a run (Put and its gcTx, Open and its failInterrupted).
THEOREM LimitHolds == StartupSpec => []OverLimitOnlyUnfinished
<1>1. StartupInit => OverLimitOnlyUnfinished
  BY DEF StartupInit, OverLimitOnlyUnfinished
<1> QED BY <1>1, StartupTypes, OverLimitStep, PTL DEF StartupSpec
-----------------------------------------------------------------------------
(* The order of the times. *)

LEMMA UpdatedOK ==
  ASSUME StartupTypeOK, NEW id \in Stored(rows)
  PROVE  rows[id].updated \in Nat
BY DEF StartupTypeOK, TypeOK, Stored

Order ==
  \A gone, kept \in FinishedRows(rows) :
    /\ rows'[gone] = NoRow /\ rows'[kept] # NoRow
    /\ rows[kept].updated \div Ticks < rows[gone].updated \div Ticks
    => \A id \in RowIds \ {gone, kept}, kind \in Kinds, st \in Statuses, time \in Times :
         ~Put(id, kind, st, time)

\* A save never collects a finished job and keeps one of an earlier second (Put and
\* its gcTx), whatever the order of the texts makes of the times within a second.
THEOREM OldestSecondFirst == StartupSpec => OldestToTheSecond
<1>1. ASSUME StartupTypeOK PROVE Order
  <2> SUFFICES ASSUME NEW gone \in FinishedRows(rows), NEW kept \in FinishedRows(rows),
                      rows'[gone] = NoRow, rows'[kept] # NoRow,
                      rows[kept].updated \div Ticks < rows[gone].updated \div Ticks,
                      NEW id \in RowIds \ {gone, kept}, NEW kind \in Kinds, NEW st \in Statuses,
                      NEW time \in Times, Put(id, kind, st, time)
               PROVE  FALSE
    BY DEF Order
  <2> DEFINE written == [rows EXCEPT ![id] = Row(st, kind, time)]
  <2>1. PICK ids \in Collectable(written) : rows' = Without(written, ids)
    BY DEF Put
  <2>2. rows \in [RowIds -> {NoRow} \cup Rows]
    BY <1>1 DEF StartupTypeOK, TypeOK, Rows
  <2>3. /\ written[gone] = rows[gone] /\ written[kept] = rows[kept]
        /\ gone \in FinishedRows(written) /\ kept \in FinishedRows(written)
    BY <2>2 DEF FinishedRows
  <2> HIDE DEF written
  <2>4. gone \in Stored(rows) /\ kept \in Stored(rows)
    BY DEF FinishedRows, Stored, NoRow, Finished
  <2>5. gone \in ids /\ kept \notin ids
    BY <2>1, <2>3, <2>4 DEF Without, Stored
  <2>6. ~TextBefore(rows[kept].updated, rows[gone].updated)
    BY <2>3, <2>5 DEF Collectable
  <2>7. rows[kept].updated \in Nat /\ rows[gone].updated \in Nat
    BY <1>1, <2>4, UpdatedOK
  <2> QED BY <2>6, <2>7, SecondsFirst
<1>2. StartupTypeOK => [Order]_vars
  BY <1>1
<1> QED BY <1>2, StartupTypes, PTL DEF StartupSpec, OldestToTheSecond, Order
=============================================================================
