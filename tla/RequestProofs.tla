------------------------------ MODULE RequestProofs ------------------------------
(***************************************************************************)
(* Theorems about Config.tla, Drivers.tla and Request.tla for any files,   *)
(* builds and requests: what is loaded is usable, groups are exact, a      *)
(* valid database is connected, and a request gets each pair of a database *)
(* and a query once or is rejected for a reason.                           *)
(***************************************************************************)
EXTENDS Request, FiniteSetTheorems, TLAPS

--------------------------------------------------------------------------------
(* The inductive invariant of Config.                                        *)

After == {"validated", "loaded", "panicked", "started", "no databases"}

FromFile ==
    /\ phase \in After \cup {"read", "set up", "failed"}
    /\ \E file \in Files : query = file.query
    /\ \A n \in DOMAIN database : IsDatabase(database[n])
    /\ \A i \in DOMAIN jobs : IsJob(jobs[i])
    /\ \A name \in DOMAIN dbDefs : dbDefs[name] \in DOMAIN NamesOf

(* What setup leaves when the limits of the pool are not negative. *)
FitsPool(db) ==
    /\ db.pool.max \in Int /\ db.pool.idle \in Int
    /\ db.pool.max >= 0 =>
         /\ db.workers >= 1 \/ (db.pool.max = 0 /\ db.pool.idle > 0)
         /\ db.pool.max > 0 /\ db.background >= 0 =>
              db.workers + db.background <= db.pool.max

AllFit == phase # "read" => \A n \in DOMAIN database : FitsPool(database[n])

(* What validate has looked at stays as it is. *)
PartsAreValid ==
    phase \in After =>
        /\ Served # {}
        /\ \A n \in Served :
             database[n].driver \in DOMAIN dbDefs /\ DatabaseIsValid(database[n])
        /\ \A n \in DOMAIN query : QueryIsValid(query[n])
        /\ \A i \in DOMAIN jobs : JobRefers(jobs[i])

(* A group has queries that name it, once. *)
GroupsNamed ==
    \A g \in DOMAIN groups :
        /\ groups[g] \in Seq(DOMAIN query) /\ Len(groups[g]) > 0
        /\ IsInjective(groups[g])
        /\ \A n \in ToSet(groups[g]) : g \in ToSet(query[n].groups)

PairsNamed ==
    /\ ungrouped \subseteq DOMAIN query
    /\ pairs \in Seq((DOMAIN query) \X GroupName)
    /\ \A i \in 1 .. Len(pairs) : pairs[i][2] \in ToSet(query[pairs[i][1]].groups)

(* A query buildGroups has looked at is in its groups, or will be. *)
IsGrouped(n, g) ==
    \/ g \in DOMAIN groups /\ n \in ToSet(groups[g])
    \/ \E i \in 1 .. Len(pairs) : pairs[i] = <<n, g>>

GroupsKept ==
    /\ phase \in After =>
         \A n \in DOMAIN query \ ungrouped :
             \A g \in ToSet(query[n].groups) : IsGrouped(n, g)
    /\ phase \in After \ {"validated"} => ungrouped = {} /\ pairs = <<>>

Connected ==
    /\ phase = "panicked" =>
         \E n \in Served : NoPlace(DriverOf(n), database[n].connection) # {}
    /\ phase \in {"started", "no databases"} =>
         collectors = [n \in {n \in Served :
                                ~ Refused(DriverOf(n), database[n].connection)} |->
                         ConnString(DriverOf(n), database[n].connection)]

ConfigInductive ==
    /\ FromFile /\ AllFit /\ PartsAreValid
    /\ GroupsNamed /\ PairsNamed /\ GroupsKept /\ Connected

--------------------------------------------------------------------------------
(* The inductive invariant of Request.                                       *)

(* The pair that iter gives after m others. *)
Pair(m) == <<dbNames[(m \div Len(queries)) + 1], queries[(m % Len(queries)) + 1]>>

RequestShape ==
    /\ reqPhase \in {"new", "rejected", "accepted", "done"}
    /\ reqPhase # "new" => phase = "started" /\ url \in Urls(query)

NamesAreApart ==
    reqPhase \in {"accepted", "done"} =>
        /\ dbNames \in SetToSeqs(Named(url.database)) /\ Len(dbNames) > 0
        /\ queries \in SetToSeqs(Wanted) /\ Len(queries) > 0

YieldedInOrder ==
    /\ reqPhase \in {"new", "rejected"} => yielded = <<>>
    /\ reqPhase \in {"accepted", "done"} =>
         /\ \E n \in 0 .. Len(dbNames) * Len(queries) :
              yielded = [m \in 1 .. n |-> Pair(m - 1)]
    /\ reqPhase = "done" => Len(yielded) = Len(dbNames) * Len(queries)

RequestInductive ==
    /\ ConfigInductive
    /\ RequestShape /\ NamesAreApart /\ YieldedInOrder /\ RejectedForReason

--------------------------------------------------------------------------------
(* Drivers.                                                                  *)

LEMMA DriverNames == DOMAIN NamesOf = {"mssql", "mysql", "oracle", "pg", "sqlite"}
  BY DEF NamesOf

LEMMA LastIndex ==
    ASSUME NEW S, S \subseteq 1 .. 5, S # {}
    PROVE  Max(S) \in S
  <1>1. \E x \in S : \A y \in S : x >= y
    <2>1. CASE 5 \in S
      BY <2>1
    <2>2. CASE 5 \notin S /\ 4 \in S
      BY <2>2
    <2>3. CASE 5 \notin S /\ 4 \notin S /\ 3 \in S
      BY <2>3
    <2>4. CASE S \subseteq 1 .. 2 /\ 2 \in S
      BY <2>4
    <2>5. CASE S \subseteq 1 .. 2 /\ 2 \notin S
      <3>1. \A y \in S : y = 1
        BY <2>5
      <3>2. PICK x \in S : TRUE
        OBVIOUS
      <3> QED
        BY <3>1, <3>2
    <2>6. 5 \in S \/ 4 \in S \/ 3 \in S \/ S \subseteq 1 .. 2
      OBVIOUS
    <2> QED
      BY <2>1, <2>2, <2>3, <2>4, <2>5, <2>6
  <1> QED
    BY <1>1 DEF Max

(* A name belongs to a driver of the build. *)
LEMMA RegistryHasDrivers ==
    ASSUME NEW build, build \subseteq DOMAIN NamesOf,
           NEW name \in DOMAIN Registry(build)
    PROVE  Registry(build)[name] \in DOMAIN NamesOf
  <1> DEFINE S == {i \in DOMAIN InitOrder :
                     InitOrder[i] \in build /\ name \in NamesOf[InitOrder[i]]}
  <1>1. DOMAIN InitOrder = 1 .. 5
    BY DEF InitOrder
  <1>2. \A def \in DOMAIN NamesOf : \E i \in DOMAIN InitOrder : InitOrder[i] = def
    BY <1>1, DriverNames DEF InitOrder
  <1>3. name \in UNION {NamesOf[def] : def \in build}
    BY DEF Registry
  <1>4. S # {} /\ S \subseteq 1 .. 5
    BY <1>1, <1>2, <1>3
  <1>5. Max(S) \in S
    BY <1>4, LastIndex
  <1>6. Registry(build)[name] = InitOrder[Max(S)]
    BY <1>3 DEF Registry
  <1> QED
    BY <1>5, <1>6

(* What the validation accepts, when it is well written, gets into the       *)
(* connection string of every driver.                                       *)
LEMMA AcceptedIsConnected ==
    ASSUME NEW def \in DOMAIN NamesOf, NEW connection,
           ParamsAreValid(def, connection),
           "null" \notin Range(connection),
           UsesConnstr(connection) => connection["connstr"] = "text",
           NoPlace(def, connection) = {}
    PROVE  /\ ~ Refused(def, connection)
           /\ \A k \in DOMAIN connection :
                \/ k \in ConnString(def, connection)
                \/ connection[k] = "empty"
                \/ def = "pg" /\ UsesConnstr(connection) /\ k # "connstr"
                \/ /\ def \in {"mysql", "oracle"} /\ k = "password"
                   /\ ~ Given(connection, "user")
           /\ \E k \in ConnString(def, connection) \cap {"connstr", "database", "dbname"} :
                connection[k] \notin {"blank", "empty"}
  <1>1. ~ Refused(def, connection)
    BY DEF Refused
  <1>2. \A k \in DOMAIN connection : connection[k] # "null"
    BY DEF Range
  <1>3. CASE def = "pg"
    BY <1>1, <1>3 DEF ParamsAreValid, Checked, UsesConnstr, ConnString, PgConnString
  <1>4. CASE def = "mssql"
    BY <1>1, <1>2, <1>4 DEF ParamsAreValid, Checked, ConnString, MssqlConnString
  <1>5. CASE def = "mysql"
    <2>1. DOMAIN connection \subseteq StandardParams
      BY <1>5 DEF NoPlace
    <2> QED
      BY <1>1, <1>2, <1>5, <2>1 DEF ParamsAreValid, Checked, ConnString, MysqlConnString,
         Login, Given, StandardParams
  <1>6. CASE def = "oracle"
    <2>1. DOMAIN connection \subseteq StandardParams
      BY <1>6 DEF NoPlace
    <2> QED
      BY <1>1, <1>2, <1>6, <2>1 DEF ParamsAreValid, Checked, ConnString, OracleConnString,
         Login, Given, StandardParams
  <1>7. CASE def = "sqlite"
    BY <1>1, <1>7 DEF NoPlace, ParamsAreValid, Checked, ConnString, SqliteConnString
  <1> QED
    BY <1>3, <1>4, <1>5, <1>6, <1>7, DriverNames

--------------------------------------------------------------------------------
(* The defaults.                                                             *)

LEMMA SetupFits ==
    ASSUME NEW db, IsDatabase(db)
    PROVE  FitsPool(SetupDatabase(db)) /\ IsDatabase(SetupDatabase(db))
  <1> DEFINE pool == IF db.pool = NoPool THEN DefaultPool ELSE db.pool
             all == AllWorkers(pool)
             background == IF db.background >= all THEN 0 ELSE db.background
             new == SetupDatabase(db)
  <1>1. pool.max \in Int /\ pool.idle \in Int /\ db.background \in Int
    BY DEF IsDatabase, DefaultPool
  <1>2. all \in Int /\ all = IF pool.idle > 0 THEN pool.max ELSE 1
    BY <1>1 DEF AllWorkers
  <1>3. background \in Int /\ (background < all \/ background = 0)
    BY <1>1, <1>2
  <1>4. /\ DOMAIN new = DOMAIN db /\ new.pool = pool /\ new.background = background
        /\ new.workers = all - background /\ new.valid = db.valid
    BY DEF SetupDatabase, IsDatabase
  <1> HIDE DEF pool, all, background, new
  <1>5. pool.max >= 0 =>
          /\ all - background >= 1 \/ (pool.max = 0 /\ pool.idle > 0)
          /\ pool.max > 0 /\ background >= 0 => (all - background) + background <= pool.max
    BY <1>1, <1>2, <1>3
  <1>6. FitsPool(new)
    BY <1>1, <1>4, <1>5 DEF FitsPool
  <1>7. db.valid \in BOOLEAN
    BY DEF IsDatabase
  <1>8. IsDatabase(new)
    BY <1>1, <1>3, <1>4, <1>7 DEF IsDatabase
  <1> QED
    BY <1>6, <1>8 DEF new

--------------------------------------------------------------------------------
(* Steps of Config before the groups.                                        *)

LEMMA FileTypes ==
    ASSUME FromFile
    PROVE  /\ IsFiniteSet(DOMAIN query)
           /\ \A n \in DOMAIN query : query[n].groups \in Seq(GroupName)
  BY ConfigAssumption DEF FromFile

LEMMA ConfigInit == Init => ConfigInductive
  <1> SUFFICES ASSUME Init
               PROVE  ConfigInductive
    OBVIOUS
  <1>1. PICK file \in Files :
          database = file.database /\ query = file.query /\ jobs = file.jobs
    BY DEF Init
  <1>2. PICK build \in Builds : dbDefs = Registry(build)
    BY DEF Init
  <1>3. \A name \in DOMAIN dbDefs : dbDefs[name] \in DOMAIN NamesOf
    BY <1>2, ConfigAssumption, RegistryHasDrivers
  <1>4. FromFile
    BY <1>1, <1>3, ConfigAssumption DEF Init, FromFile
  <1>5. AllFit /\ PartsAreValid /\ Connected
    BY DEF Init, AllFit, PartsAreValid, Connected, After
  <1>6. GroupsNamed /\ PairsNamed /\ GroupsKept
    BY DEF Init, GroupsNamed, PairsNamed, GroupsKept, After
  <1> QED
    BY <1>4, <1>5, <1>6 DEF ConfigInductive

LEMMA SetupKeeps ==
    ASSUME ConfigInductive, Setup
    PROVE  ConfigInductive'
  <1>1. /\ phase = "read" /\ phase' = "set up"
        /\ database' = [n \in DOMAIN database |-> SetupDatabase(database[n])]
        /\ UNCHANGED <<query, jobs, groups, ungrouped, pairs, dbDefs, collectors>>
    BY DEF Setup, loopVars
  <1>2. \A n \in DOMAIN database' : FitsPool(database'[n]) /\ IsDatabase(database'[n])
    BY <1>1, SetupFits DEF ConfigInductive, FromFile
  <1>3. FromFile' /\ AllFit'
    BY <1>1, <1>2 DEF ConfigInductive, FromFile, AllFit
  <1>4. PartsAreValid' /\ Connected'
    BY <1>1 DEF PartsAreValid, Connected, After
  <1>5. GroupsNamed' /\ PairsNamed' /\ GroupsKept'
    BY <1>1 DEF ConfigInductive, GroupsNamed, PairsNamed, GroupsKept, After
  <1> QED
    BY <1>3, <1>4, <1>5 DEF ConfigInductive

LEMMA FailKeeps ==
    ASSUME ConfigInductive, Fail
    PROVE  ConfigInductive'
  <1>1. /\ phase = "set up" /\ phase' = "failed"
        /\ UNCHANGED <<database, query, jobs, groups, ungrouped, pairs, dbDefs, collectors>>
    BY DEF Fail, partVars, loopVars
  <1>2. FromFile' /\ AllFit'
    BY <1>1 DEF ConfigInductive, FromFile, AllFit
  <1>3. PartsAreValid' /\ Connected'
    BY <1>1 DEF PartsAreValid, Connected, After
  <1>4. GroupsNamed' /\ PairsNamed' /\ GroupsKept'
    BY <1>1 DEF ConfigInductive, GroupsNamed, PairsNamed, GroupsKept, After
  <1> QED
    BY <1>2, <1>3, <1>4 DEF ConfigInductive

(* Every valid database with a driver was checked. *)
LEMMA ValidateKeeps ==
    ASSUME ConfigInductive, Validate
    PROVE  ConfigInductive'
  <1>1. /\ phase = "set up" /\ phase' = "validated" /\ ConfigurationIsValid
        /\ database' = [n \in DOMAIN database |->
                          [database[n] EXCEPT !.valid = @ \/ n \in Supported]]
        /\ jobs' = [i \in DOMAIN jobs |->
                      [jobs[i] EXCEPT !.valid = (jobs[i].interval >= 1)]]
        /\ ungrouped' = DOMAIN query
        /\ UNCHANGED <<query, groups, pairs, dbDefs, collectors>>
    BY DEF Validate
  <1>2. /\ DOMAIN database' = DOMAIN database
        /\ \A n \in DOMAIN database :
             /\ DOMAIN database'[n] = DOMAIN database[n]
             /\ (n \in Supported => database'[n].valid)
             /\ database'[n].valid \in BOOLEAN
             /\ \A field \in {"driver", "connection", "pool", "background", "workers"} :
                  database'[n][field] = database[n][field]
    BY <1>1 DEF ConfigInductive, FromFile, IsDatabase
  <1>3. /\ DOMAIN jobs' = DOMAIN jobs
        /\ \A i \in DOMAIN jobs :
             /\ DOMAIN jobs'[i] = DOMAIN jobs[i]
             /\ jobs'[i].database = jobs[i].database /\ jobs'[i].query = jobs[i].query
    BY <1>1 DEF ConfigInductive, FromFile, IsJob
  <1>4. FromFile'
    <2>1. \A n \in DOMAIN database' : IsDatabase(database'[n])
      BY <1>2 DEF ConfigInductive, FromFile, IsDatabase
    <2>2. \A i \in DOMAIN jobs' : IsJob(jobs'[i])
      BY <1>3 DEF ConfigInductive, FromFile, IsJob
    <2> QED
      BY <1>1, <2>1, <2>2 DEF ConfigInductive, FromFile, After
  <1>5. AllFit'
    <2>1. ASSUME NEW n \in DOMAIN database
          PROVE  FitsPool(database'[n])
      <3>1. FitsPool(database[n])
        BY <1>1 DEF ConfigInductive, AllFit
      <3>2. /\ database'[n].pool = database[n].pool
            /\ database'[n].background = database[n].background
            /\ database'[n].workers = database[n].workers
        BY <1>2
      <3> QED
        BY <3>1, <3>2 DEF FitsPool
    <2> QED
      BY <1>2, <2>1 DEF AllFit, FitsPool
  <1>6. PartsAreValid'
    <2>1. Served' = Supported
      <3>1. \A n \in DOMAIN database : database'[n].driver = database[n].driver
        BY <1>2
      <3>2. Supported' = Supported
        BY <1>1, <1>2, <3>1 DEF Supported
      <3>3. Supported \subseteq ValidDatabases'
        BY <1>2 DEF Supported, ValidDatabases
      <3> QED
        BY <3>2, <3>3 DEF Served
    <2>2. ASSUME NEW n \in Supported
          PROVE  database'[n].driver \in DOMAIN dbDefs' /\ DatabaseIsValid(database[n])'
      <3>1. DatabaseIsValid(database[n]) /\ database[n].driver \in DOMAIN dbDefs
        BY <1>1 DEF ConfigurationIsValid, DatabasesAreValid, Supported
      <3>2. /\ database'[n].driver = database[n].driver
            /\ database'[n].connection = database[n].connection
            /\ database'[n].pool = database[n].pool
        BY <1>2 DEF Supported
      <3> QED
        BY <1>1, <3>1, <3>2 DEF DatabaseIsValid
    <2>3. ASSUME NEW i \in DOMAIN jobs
          PROVE  JobRefers(jobs[i])'
      BY <1>1, <1>2, <1>3 DEF ConfigurationIsValid, JobRefers
    <2>4. Supported # {} /\ \A n \in DOMAIN query : QueryIsValid(query[n])'
      BY <1>1 DEF ConfigurationIsValid, DatabasesAreValid, QueryIsValid
    <2> QED
      BY <1>1, <1>3, <2>1, <2>2, <2>3, <2>4 DEF PartsAreValid
  <1>7. GroupsNamed' /\ PairsNamed' /\ GroupsKept' /\ Connected'
    BY <1>1 DEF ConfigInductive, GroupsNamed, PairsNamed, GroupsKept, Connected
  <1> QED
    BY <1>4, <1>5, <1>6, <1>7 DEF ConfigInductive

--------------------------------------------------------------------------------
(* buildGroups.                                                              *)

LEMMA AddOnce ==
    ASSUME NEW S, NEW s \in Seq(S), NEW e \in S, IsInjective(s)
    PROVE  /\ Add(s, e) \in Seq(S) /\ Len(Add(s, e)) > 0 /\ IsInjective(Add(s, e))
           /\ ToSet(Add(s, e)) = ToSet(s) \cup {e}
  <1>1. DOMAIN s = 1 .. Len(s) /\ Len(s) \in Nat
    OBVIOUS
  <1>2. CASE Contains(s, e)
    <2>1. Add(s, e) = s
      BY <1>2 DEF Add
    <2>2. PICK i \in 1 .. Len(s) : s[i] = e
      BY <1>2 DEF Contains
    <2>3. e \in ToSet(s) /\ Len(s) > 0
      BY <1>1, <2>2 DEF ToSet
    <2> QED
      BY <2>1, <2>3
  <1>3. CASE ~ Contains(s, e)
    <2>1. /\ Add(s, e) = Append(s, e) /\ Append(s, e) \in Seq(S)
          /\ Len(Append(s, e)) = Len(s) + 1 /\ DOMAIN Append(s, e) = 1 .. Len(s) + 1
          /\ \A i \in 1 .. Len(s) : Append(s, e)[i] = s[i] /\ s[i] # e
          /\ Append(s, e)[Len(s) + 1] = e
      BY <1>1, <1>3 DEF Add, Contains
    <2>2. IsInjective(Append(s, e))
      BY <1>1, <2>1 DEF IsInjective
    <2>3. ToSet(Append(s, e)) = ToSet(s) \cup {e}
      BY <1>1, <2>1 DEF ToSet
    <2> QED
      BY <1>1, <2>1, <2>2, <2>3
  <1> QED
    BY <1>2, <1>3

LEMMA NextQueryKeeps ==
    ASSUME ConfigInductive, NextQuery
    PROVE  ConfigInductive'
  <1>1. PICK name \in ungrouped :
          /\ ungrouped' = ungrouped \ {name}
          /\ pairs' = [i \in DOMAIN query[name].groups |-> <<name, query[name].groups[i]>>]
    BY DEF NextQuery
  <1>2. /\ phase = "validated" /\ pairs = <<>>
        /\ UNCHANGED <<phase, database, query, jobs, groups, dbDefs, collectors>>
    BY DEF NextQuery, partVars
  <1>3. name \in DOMAIN query /\ query[name].groups \in Seq(GroupName)
    BY FileTypes DEF ConfigInductive, PairsNamed
  <1>4. /\ pairs' \in Seq((DOMAIN query) \X GroupName)
        /\ DOMAIN query[name].groups = 1 .. Len(query[name].groups)
        /\ Len(pairs') = Len(query[name].groups)
        /\ \A i \in 1 .. Len(pairs') : pairs'[i] = <<name, query[name].groups[i]>>
    BY <1>1, <1>3
  <1>5. PairsNamed'
    <2>1. \A i \in 1 .. Len(pairs') : pairs'[i][2] \in ToSet(query[pairs'[i][1]].groups)
      BY <1>4 DEF ToSet
    <2> QED
      BY <1>1, <1>2, <1>4, <2>1 DEF ConfigInductive, PairsNamed
  <1>6. GroupsKept'
    <2> SUFFICES ASSUME NEW n \in DOMAIN query \ ungrouped', NEW g \in ToSet(query[n].groups)
                 PROVE  IsGrouped(n, g)'
      BY <1>2 DEF GroupsKept
    <2>1. CASE n = name
      <3>1. PICK i \in DOMAIN query[name].groups : query[name].groups[i] = g
        BY <2>1 DEF ToSet
      <3> QED
        BY <1>4, <2>1, <3>1 DEF IsGrouped
    <2>2. CASE n # name
      BY <1>1, <1>2, <2>2 DEF ConfigInductive, GroupsKept, IsGrouped, After
    <2> QED
      BY <2>1, <2>2
  <1>7. FromFile' /\ AllFit' /\ PartsAreValid' /\ GroupsNamed' /\ Connected'
    BY <1>2 DEF ConfigInductive, FromFile, AllFit, PartsAreValid, GroupsNamed, Connected,
       Served, ValidDatabases, Supported, DatabaseIsValid, JobRefers
  <1> QED
    BY <1>5, <1>6, <1>7 DEF ConfigInductive

LEMMA AddToGroupKeeps ==
    ASSUME ConfigInductive, AddToGroup
    PROVE  ConfigInductive'
  <1> DEFINE name == Head(pairs)[1]
             group == Head(pairs)[2]
  <1>1. /\ phase = "validated" /\ pairs # <<>> /\ pairs' = Tail(pairs)
        /\ groups' = [g \in DOMAIN groups \cup {group} |->
                        IF g # group THEN groups[g]
                        ELSE IF g \in DOMAIN groups THEN Add(groups[g], name)
                        ELSE <<name>>]
        /\ UNCHANGED <<phase, database, query, jobs, ungrouped, dbDefs, collectors>>
    BY DEF AddToGroup
  <1>2. /\ pairs \in Seq((DOMAIN query) \X GroupName) /\ Len(pairs) \in Nat /\ Len(pairs) > 0
        /\ pairs[1] = <<name, group>> /\ name \in DOMAIN query
        /\ group \in ToSet(query[name].groups)
    <2>1. pairs \in Seq((DOMAIN query) \X GroupName) /\ Len(pairs) \in Nat /\ Len(pairs) > 0
      BY <1>1 DEF ConfigInductive, PairsNamed
    <2>2. pairs[1] = Head(pairs) /\ pairs[1] \in (DOMAIN query) \X GroupName
      BY <2>1
    <2> QED
      BY <2>1, <2>2 DEF ConfigInductive, PairsNamed
  <1>3. /\ pairs' \in Seq((DOMAIN query) \X GroupName)
        /\ Len(pairs') = Len(pairs) - 1
        /\ \A i \in 1 .. Len(pairs') : pairs'[i] = pairs[i + 1]
    BY <1>1, <1>2
  <1> HIDE DEF name, group
  <1>4. PairsNamed'
    BY <1>1, <1>2, <1>3 DEF ConfigInductive, PairsNamed
  <1>5. /\ DOMAIN groups' = DOMAIN groups \cup {group}
        /\ \A g \in DOMAIN groups : g # group => groups'[g] = groups[g]
    BY <1>1
  <1>6. /\ groups'[group] \in Seq(DOMAIN query) /\ Len(groups'[group]) > 0
        /\ IsInjective(groups'[group])
        /\ ToSet(groups'[group]) =
             (IF group \in DOMAIN groups THEN ToSet(groups[group]) ELSE {}) \cup {name}
    <2>1. CASE group \in DOMAIN groups
      BY <1>1, <1>2, <2>1, AddOnce DEF ConfigInductive, GroupsNamed
    <2>2. CASE group \notin DOMAIN groups
      <3>1. groups'[group] = <<name>>
        BY <1>1, <2>2
      <3> QED
        BY <1>2, <2>2, <3>1 DEF IsInjective, ToSet
    <2> QED
      BY <2>1, <2>2
  <1>7. GroupsNamed'
    <2> SUFFICES ASSUME NEW g \in DOMAIN groups'
                 PROVE  /\ groups'[g] \in Seq(DOMAIN query) /\ Len(groups'[g]) > 0
                        /\ IsInjective(groups'[g])
                        /\ \A n \in ToSet(groups'[g]) : g \in ToSet(query[n].groups)
      BY <1>1 DEF GroupsNamed
    <2>1. CASE g # group
      BY <1>5, <2>1 DEF ConfigInductive, GroupsNamed
    <2>2. CASE g = group
      BY <1>2, <1>6, <2>2 DEF ConfigInductive, GroupsNamed
    <2> QED
      BY <2>1, <2>2
  <1>8. GroupsKept'
    <2> SUFFICES ASSUME NEW n \in DOMAIN query \ ungrouped, NEW g \in ToSet(query[n].groups)
                 PROVE  IsGrouped(n, g)'
      BY <1>1 DEF GroupsKept
    <2>1. IsGrouped(n, g)
      BY <1>1 DEF ConfigInductive, GroupsKept, After
    <2>2. CASE g \in DOMAIN groups /\ n \in ToSet(groups[g])
      BY <1>5, <1>6, <2>2 DEF IsGrouped
    <2>3. CASE pairs[1] = <<n, g>>
      BY <1>2, <1>5, <1>6, <2>3 DEF IsGrouped
    <2>4. ASSUME NEW i \in 2 .. Len(pairs), pairs[i] = <<n, g>>
          PROVE  IsGrouped(n, g)'
      <3> DEFINE k == i - 1
      <3>1. k \in 1 .. Len(pairs') /\ k + 1 = i
        BY <1>2, <1>3, <2>4
      <3> HIDE DEF k
      <3>2. pairs'[k] = <<n, g>>
        BY <1>3, <2>4, <3>1
      <3> QED
        BY <3>1, <3>2 DEF IsGrouped
    <2>5. ASSUME NEW i \in 1 .. Len(pairs), pairs[i] = <<n, g>>
          PROVE  IsGrouped(n, g)'
      <3>1. i = 1 \/ i \in 2 .. Len(pairs)
        BY <1>2
      <3> QED
        BY <2>3, <2>4, <2>5, <3>1
    <2>6. (g \in DOMAIN groups /\ n \in ToSet(groups[g]))
            \/ \E i \in 1 .. Len(pairs) : pairs[i] = <<n, g>>
      BY <2>1 DEF IsGrouped
    <2> QED
      BY <2>2, <2>5, <2>6
  <1>9. FromFile' /\ AllFit' /\ PartsAreValid' /\ Connected'
    BY <1>1 DEF ConfigInductive, FromFile, AllFit, PartsAreValid, Connected,
       Served, ValidDatabases, Supported, DatabaseIsValid, JobRefers
  <1> QED
    BY <1>4, <1>7, <1>8, <1>9 DEF ConfigInductive

--------------------------------------------------------------------------------
(* The end of loading, and the collectors.                                   *)

LEMMA LoadedKeeps ==
    ASSUME ConfigInductive, Load \/ CreateCollectors \/ CreatePanics
    PROVE  ConfigInductive'
  <1>1. /\ phase \in {"validated", "loaded"}
        /\ phase' \in After \ {"validated"}
        /\ UNCHANGED <<database, query, jobs, groups, ungrouped, pairs, dbDefs>>
    BY DEF Load, CreateCollectors, CreatePanics, partVars, loopVars, After
  <1>2. phase = "validated" => pairs = <<>> /\ ungrouped = {}
    BY DEF Load, CreateCollectors, CreatePanics
  <1>3. FromFile' /\ AllFit' /\ PartsAreValid'
    BY <1>1 DEF ConfigInductive, FromFile, AllFit, PartsAreValid, Served, ValidDatabases,
         Supported,
       DatabaseIsValid, JobRefers, After
  <1>4. GroupsNamed' /\ PairsNamed'
    BY <1>1 DEF ConfigInductive, GroupsNamed, PairsNamed
  <1>5. GroupsKept'
    BY <1>1, <1>2 DEF ConfigInductive, GroupsKept, IsGrouped, After
  <1>6. Connected'
    <2>1. CASE Load
      BY <2>1 DEF Load, Connected
    <2>2. CASE CreateCollectors
      BY <1>1, <2>2 DEF CreateCollectors, Connected, Served, ValidDatabases, Supported, DriverOf
    <2>3. CASE CreatePanics
      BY <1>1, <2>3 DEF CreatePanics, Connected, Served, ValidDatabases, Supported, DriverOf
    <2> QED
      BY <2>1, <2>2, <2>3
  <1> QED
    BY <1>3, <1>4, <1>5, <1>6 DEF ConfigInductive

LEMMA ConfigNext == ConfigInductive /\ [Next]_vars => ConfigInductive'
  <1>1. ASSUME ConfigInductive, Next
        PROVE  ConfigInductive'
    BY <1>1, SetupKeeps, FailKeeps, ValidateKeeps, NextQueryKeeps, AddToGroupKeeps,
       LoadedKeeps DEF Next
  <1>2. ASSUME ConfigInductive, UNCHANGED vars
        PROVE  ConfigInductive'
    <2>1. UNCHANGED <<phase, database, query, jobs, groups, ungrouped, pairs, dbDefs,
                      collectors>>
      BY <1>2 DEF vars, partVars, loopVars
    <2>2. FromFile' /\ AllFit' /\ PartsAreValid'
      BY <1>2, <2>1 DEF ConfigInductive, FromFile, AllFit, PartsAreValid, Served, ValidDatabases,
         Supported,
         DatabaseIsValid, JobRefers
    <2>3. GroupsNamed' /\ PairsNamed' /\ GroupsKept'
      BY <1>2, <2>1 DEF ConfigInductive, GroupsNamed, PairsNamed, GroupsKept, IsGrouped
    <2>4. Connected'
      BY <1>2, <2>1 DEF ConfigInductive, Connected, Served, ValidDatabases, Supported, DriverOf
    <2> QED
      BY <2>2, <2>3, <2>4 DEF ConfigInductive
  <1> QED
    BY <1>1, <1>2

LEMMA ConfigAlways == Spec => []ConfigInductive
  BY ConfigInit, ConfigNext, PTL DEF Spec

--------------------------------------------------------------------------------
(* The theorems about Config.                                                *)

(* However the pool and the background workers are configured, every valid   *)
(* database has a worker for normal tasks, but for a pool without a limit,   *)
(* and no more workers than connections.                                     *)
THEOREM ConfigWorkers == Spec => []WorkersFitPool
  <1>1. ConfigInductive => WorkersFitPool
    <2> SUFFICES ASSUME ConfigInductive, phase = "loaded", NEW n \in Served
                 PROVE  LET db == database[n] IN
                          /\ db.workers >= 1 \/ (db.pool.max = 0 /\ db.pool.idle > 0)
                          /\ db.pool.max > 0 /\ db.background >= 0 =>
                               db.workers + db.background <= db.pool.max
      BY DEF WorkersFitPool
    <2>1. n \in DOMAIN database /\ FitsPool(database[n])
      BY DEF ConfigInductive, AllFit, Served, ValidDatabases, Supported
    <2>2. database[n].pool.max >= 0
      BY DEF ConfigInductive, PartsAreValid, After, DatabaseIsValid, PoolIsValid
    <2> QED
      BY <2>1, <2>2 DEF FitsPool
  <1> QED
    BY <1>1, ConfigAlways, PTL

(* Whatever order the queries come in, a group has every query that names    *)
(* it, once, and no other.                                                   *)
LEMMA GroupsAreBuilt ==
    ASSUME ConfigInductive, phase \in After, phase # "validated"
    PROVE  /\ DOMAIN groups = UNION {ToSet(query[n].groups) : n \in DOMAIN query}
           /\ \A g \in DOMAIN groups :
                ToSet(groups[g]) = {n \in DOMAIN query : g \in ToSet(query[n].groups)}
  <1>1. \A n \in DOMAIN query : \A g \in ToSet(query[n].groups) :
          g \in DOMAIN groups /\ n \in ToSet(groups[g])
    BY DEF ConfigInductive, GroupsKept, IsGrouped
  <1>2. \A g \in DOMAIN groups :
          /\ ToSet(groups[g]) # {} /\ ToSet(groups[g]) \subseteq DOMAIN query
          /\ \A n \in ToSet(groups[g]) : g \in ToSet(query[n].groups)
    <2> SUFFICES ASSUME NEW g \in DOMAIN groups
                 PROVE  ToSet(groups[g]) # {} /\ ToSet(groups[g]) \subseteq DOMAIN query
      BY DEF ConfigInductive, GroupsNamed
    <2>1. groups[g] \in Seq(DOMAIN query) /\ Len(groups[g]) > 0
      BY DEF ConfigInductive, GroupsNamed
    <2>2. groups[g][1] \in ToSet(groups[g])
      BY <2>1 DEF ToSet
    <2>3. ToSet(groups[g]) \subseteq DOMAIN query
      BY <2>1 DEF ToSet
    <2> QED
      BY <2>2, <2>3
  <1>3. DOMAIN groups = UNION {ToSet(query[n].groups) : n \in DOMAIN query}
    <2>1. ASSUME NEW g \in DOMAIN groups
          PROVE  \E n \in DOMAIN query : g \in ToSet(query[n].groups)
      BY <1>2
    <2> QED
      BY <1>1, <2>1
  <1>4. ASSUME NEW g \in DOMAIN groups
        PROVE  ToSet(groups[g]) = {n \in DOMAIN query : g \in ToSet(query[n].groups)}
    BY <1>1, <1>2
  <1> QED
    BY <1>3, <1>4

THEOREM ConfigGroups == Spec => []GroupsAreExact
  <1>1. ConfigInductive => GroupsAreExact
    <2> SUFFICES ASSUME ConfigInductive, phase = "loaded"
                 PROVE  GroupsAreExact
      BY DEF GroupsAreExact
    <2>1. \A g \in DOMAIN groups : IsInjective(groups[g])
      BY DEF ConfigInductive, GroupsNamed
    <2> QED
      BY <2>1, GroupsAreBuilt DEF GroupsAreExact, After
  <1> QED
    BY <1>1, ConfigAlways, PTL

(* A loaded configuration has a valid database, and its jobs a database and  *)
(* a query with a template.                                                  *)
THEOREM ConfigUsable == Spec => []LoadedIsUsable
  <1>1. ConfigInductive => LoadedIsUsable
    <2> SUFFICES ASSUME ConfigInductive, phase = "loaded"
                 PROVE  LoadedIsUsable
      BY DEF LoadedIsUsable
    <2>1. /\ Served # {}
          /\ \A i \in DOMAIN jobs : JobRefers(jobs[i])
          /\ \A n \in DOMAIN query : query[n].metrics = "ok"
      BY DEF ConfigInductive, PartsAreValid, After, QueryIsValid
    <2> QED
      BY <2>1 DEF JobRefers, LoadedIsUsable
  <1> QED
    BY <1>1, ConfigAlways, PTL

(* In a build with any drivers, a valid database that is well written gets a *)
(* collector which is told which database to use, and with all parameters    *)
(* but those a driver leaves out.                                            *)
THEOREM ConfigConnected == Spec => []ValidIsConnected
  <1>1. ConfigInductive => ValidIsConnected
    <2> SUFFICES ASSUME ConfigInductive
                 PROVE  ValidIsConnected
      OBVIOUS
    <2>1. phase = "panicked" => \E n \in Served : ~ WellWritten(n)
      BY DEF ConfigInductive, Connected, WellWritten
    <2>2. ASSUME phase \in {"started", "no databases"}, NEW n \in Served,
                 WellWritten(n)
          PROVE  /\ n \in DOMAIN collectors
                 /\ \A k \in DOMAIN database[n].connection \ Unused(n) :
                      k \in collectors[n] \/ database[n].connection[k] = "empty"
                 /\ \E k \in collectors[n] \cap {"connstr", "database", "dbname"} :
                      database[n].connection[k] \notin {"blank", "empty"}
      <3> DEFINE connection == database[n].connection
                 def == DriverOf(n)
      <3>1. def \in DOMAIN NamesOf /\ ParamsAreValid(def, connection)
        BY <2>2 DEF ConfigInductive, FromFile, PartsAreValid, After, DatabaseIsValid, DriverOf
      <3>2. /\ "null" \notin Range(connection)
            /\ UsesConnstr(connection) => connection["connstr"] = "text"
            /\ NoPlace(def, connection) = {}
        BY <2>2 DEF WellWritten
      <3>3. ~ Refused(def, connection)
        BY <3>1, <3>2, AcceptedIsConnected
      <3>4. n \in DOMAIN collectors /\ collectors[n] = ConnString(def, connection)
        BY <2>2, <3>3 DEF ConfigInductive, Connected
      <3>5. \A k \in DOMAIN connection \ Unused(n) :
              k \in ConnString(def, connection) \/ connection[k] = "empty"
        <4> SUFFICES ASSUME NEW k \in DOMAIN connection, k \notin Unused(n)
                     PROVE  k \in ConnString(def, connection) \/ connection[k] = "empty"
          OBVIOUS
        <4>1. ~ (def = "pg" /\ UsesConnstr(connection) /\ k # "connstr")
          BY DEF Unused
        <4>2. ~ (def \in {"mysql", "oracle"} /\ k = "password" /\ ~ Given(connection, "user"))
          BY DEF Unused
        <4> QED
          BY <3>1, <3>2, <4>1, <4>2, AcceptedIsConnected
      <3>6. \E k \in ConnString(def, connection) \cap {"connstr", "database", "dbname"} :
              connection[k] \notin {"blank", "empty"}
        BY <3>1, <3>2, AcceptedIsConnected
      <3> QED
        BY <3>4, <3>5, <3>6
    <2> QED
      BY <2>1, <2>2 DEF ValidIsConnected
  <1> QED
    BY <1>1, ConfigAlways, PTL

--------------------------------------------------------------------------------
(* Orders of a set, and the pairs of two sequences.                          *)

LEMMA NamesAreFinite ==
    ASSUME NEW S, NEW s \in Seq(S)
    PROVE  IsFiniteSet({v[1] : v \in ToSet(s)})
  <1> DEFINE names == {v[1] : v \in ToSet(s)}
             f == [i \in 1 .. Len(s) |-> s[i][1]]
  <1>1. DOMAIN s = 1 .. Len(s) /\ Len(s) \in Nat
    OBVIOUS
  <1>2. f \in Surjection(1 .. Len(s), names)
    BY <1>1 DEF Surjection, ToSet
  <1>3. IsFiniteSet(1 .. Len(s))
    BY <1>1, FS_Interval
  <1> HIDE DEF f
  <1> QED
    BY <1>2, <1>3, FS_Surjection

LEMMA OrderOfSet ==
    ASSUME NEW S, IsFiniteSet(S), NEW s \in SetToSeqs(S)
    PROVE  /\ s \in Seq(S) /\ Len(s) \in Nat /\ DOMAIN s = 1 .. Len(s)
           /\ ToSet(s) = S /\ IsInjective(s) /\ (Len(s) = 0 <=> S = {})
  <1> DEFINE D == 1 .. Cardinality(S)
  <1>1. /\ Cardinality(S) \in Nat /\ s \in [D -> S]
        /\ \A i, j \in D : i # j => s[i] # s[j]
    BY FS_CardinalityType DEF SetToSeqs
  <1>2. s \in Seq(S) /\ Len(s) = Cardinality(S) /\ DOMAIN s = D
    BY <1>1
  <1>3. IsInjective(s) /\ s \in Injection(D, S)
    BY <1>1, <1>2 DEF IsInjective, Injection
  <1>4. Cardinality(D) = Cardinality(S)
    BY <1>1, FS_Interval
  <1>5. s \in Surjection(D, S)
    BY <1>3, <1>4, FS_Injection
  <1>6. ToSet(s) = S
    BY <1>2, <1>5 DEF Surjection, ToSet
  <1>7. Cardinality(S) = 0 <=> S = {}
    BY FS_EmptySet
  <1> QED
    BY <1>1, <1>2, <1>3, <1>6, <1>7

(* Division by the number of queries. *)
LEMMA Division ==
    ASSUME NEW k \in Nat, k > 0, NEW m \in Nat
    PROVE  m \div k \in Nat /\ m % k \in 0 .. k - 1 /\ m = k * (m \div k) + (m % k)
  OBVIOUS

LEMMA SameQuotient ==
    ASSUME NEW k \in Nat, k > 0, NEW a \in Nat, NEW b \in 0 .. k - 1,
           NEW c \in Nat, NEW d \in 0 .. k - 1, k * a + b = k * c + d
    PROVE  a = c /\ b = d
  <1>1. ~ a < c
    <2> SUFFICES ASSUME a < c PROVE FALSE
      OBVIOUS
    <2>1. k * (c - a) >= k
      OBVIOUS
    <2> QED
      BY <2>1
  <1>2. ~ c < a
    <2> SUFFICES ASSUME c < a PROVE FALSE
      OBVIOUS
    <2>1. k * (a - c) >= k
      OBVIOUS
    <2> QED
      BY <2>1
  <1> QED
    BY <1>1, <1>2

--------------------------------------------------------------------------------
(* The names in a URL.                                                       *)

WantedOf(u) ==
    (AllNamed(u.query) \cup
     UNION {ToSet(groups[g]) : g \in AllNamed(u.group) \cap DOMAIN groups}) \ {Blank}

NamesOfUrl(u) == {TrimSpace(v) : v \in QueryNames(u)} \ {Blank}

AllKnown(u) == \A v \in ToSet(u.group) : KnownGroup(v)

LEMMA DatabasesOfUrl ==
    ASSUME FromFile, NEW u \in Urls(query)
    PROVE  /\ {TrimSpace(v) : v \in ToSet(u.database)} \ {Blank} = Named(u.database)
           /\ IsFiniteSet(Named(u.database))
  <1>1. u.database \in Seq(ToSet(u.database))
    BY RequestAssumption DEF FromFile
  <1>2. IsFiniteSet(AllNamed(u.database))
    BY <1>1, NamesAreFinite DEF AllNamed
  <1>3. IsFiniteSet(Named(u.database))
    BY <1>2, FS_Difference DEF Named
  <1> QED
    BY <1>3 DEF Named, AllNamed, TrimSpace

(* When the groups are known, the parser finds what the client asks for. *)
LEMMA QueriesOfUrl ==
    ASSUME ConfigInductive, NEW u \in Urls(query)
    PROVE  /\ AllKnown(u) => NamesOfUrl(u) = WantedOf(u)
           /\ AllKnown(u) <=>
                \A v \in ToSet(u.group) : ~ v[2] /\ v[1] \in DOMAIN groups
           /\ IsFiniteSet(NamesOfUrl(u))
  <1>1. /\ u.query \in Seq(ToSet(u.query))
        /\ \A v \in ToSet(u.group) : v[2] \in BOOLEAN
    BY RequestAssumption DEF ConfigInductive, FromFile
  <1>2. \A g \in DOMAIN groups :
          groups[g] \in Seq(DOMAIN query) /\ Len(groups[g]) > 0
    BY DEF ConfigInductive, GroupsNamed
  <1>3. \A g \in DOMAIN groups : ToSet(groups[g]) \subseteq DOMAIN query
    BY <1>2 DEF ToSet
  <1>4. AllKnown(u) <=> \A v \in ToSet(u.group) : ~ v[2] /\ v[1] \in DOMAIN groups
    BY <1>2 DEF AllKnown, KnownGroup
  <1> DEFINE known == {v[1] : v \in {v \in ToSet(u.group) : KnownGroup(v)}}
             inGroups == UNION {ToSet(groups[g]) : g \in known}
  <1>5. known \subseteq DOMAIN groups
    BY DEF KnownGroup
  <1>6. inGroups \subseteq DOMAIN query
    BY <1>3, <1>5
  <1>7. QueryNames(u) = ToSet(u.query) \cup {Unpadded(name) : name \in inGroups}
    BY DEF QueryNames
  <1>8. AllKnown(u) => known = AllNamed(u.group) \cap DOMAIN groups
    BY <1>4 DEF AllKnown, AllNamed, KnownGroup
  <1> HIDE DEF known, inGroups
  <1>9. NamesOfUrl(u) = (AllNamed(u.query) \cup inGroups) \ {Blank}
    <2>1. {TrimSpace(v) : v \in QueryNames(u)} = AllNamed(u.query) \cup inGroups
      <3>1. \A v \in ToSet(u.query) : v \in QueryNames(u)
        BY <1>7
      <3>2. \A name \in inGroups : <<name, FALSE>> \in QueryNames(u)
        BY <1>7 DEF Unpadded
      <3>3. \A v \in QueryNames(u) :
              v \in ToSet(u.query) \/ \E name \in inGroups : v = <<name, FALSE>>
        BY <1>7 DEF Unpadded
      <3>4. \A name \in inGroups : name \in {TrimSpace(v) : v \in QueryNames(u)}
        <4> SUFFICES ASSUME NEW name \in inGroups
                     PROVE  \E v \in QueryNames(u) : name = v[1]
          BY DEF TrimSpace
        <4>1. <<name, FALSE>>[1] = name
          OBVIOUS
        <4> QED
          BY <3>2, <4>1
      <3>5. \A v \in QueryNames(u) : v[1] \in AllNamed(u.query) \cup inGroups
        <4> SUFFICES ASSUME NEW v \in QueryNames(u), v \notin ToSet(u.query)
                     PROVE  v[1] \in inGroups
          BY DEF AllNamed
        <4>1. PICK name \in inGroups : v = <<name, FALSE>>
          BY <3>3
        <4> QED
          BY <4>1
      <3> QED
        BY <3>1, <3>4, <3>5 DEF TrimSpace, AllNamed
    <2> QED
      BY <2>1 DEF NamesOfUrl
  <1>10. IsFiniteSet(NamesOfUrl(u))
    <2>1. IsFiniteSet(inGroups)
      BY <1>6, FileTypes, FS_Subset DEF ConfigInductive
    <2>2. IsFiniteSet(AllNamed(u.query))
      BY <1>1, NamesAreFinite DEF AllNamed
    <2>3. IsFiniteSet(AllNamed(u.query) \cup inGroups)
      BY <2>1, <2>2, FS_Union
    <2> QED
      BY <1>9, <2>3, FS_Difference
  <1>11. AllKnown(u) => NamesOfUrl(u) = WantedOf(u)
    BY <1>8, <1>9 DEF WantedOf, inGroups
  <1> QED
    BY <1>4, <1>10, <1>11

--------------------------------------------------------------------------------
(* Steps of Request.                                                         *)

LEMMA RequestStarts == RequestInit => RequestInductive
  BY ConfigInit DEF RequestInit, Init, RequestInductive, RequestShape, NamesAreApart,
     YieldedInOrder, RejectedForReason

LEMMA ParseKeeps ==
    ASSUME RequestInductive, Parse
    PROVE  RequestInductive'
  <1>1. /\ phase = "started" /\ reqPhase = "new"
        /\ UNCHANGED <<yielded, vars>>
    BY DEF Parse
  <1>2. PICK u \in Urls(query) :
          /\ url' = u
          /\ \E dbs \in Deduplicate(ToSet(u.database)), names \in Deduplicate(QueryNames(u)) :
               IF Len(dbs) > 0 /\ Len(names) > 0 /\ AllKnown(u) /\ ToSet(names) \subseteq DOMAIN query
               THEN dbNames' = dbs /\ queries' = names /\ reqPhase' = "accepted"
               ELSE reqPhase' = "rejected" /\ UNCHANGED <<dbNames, queries>>
    BY DEF Parse, AllKnown
  <1>3. PICK dbs \in SetToSeqs(Named(u.database)), names \in SetToSeqs(NamesOfUrl(u)) :
          IF Len(dbs) > 0 /\ Len(names) > 0 /\ AllKnown(u) /\ ToSet(names) \subseteq DOMAIN query
          THEN dbNames' = dbs /\ queries' = names /\ reqPhase' = "accepted"
          ELSE reqPhase' = "rejected" /\ UNCHANGED <<dbNames, queries>>
    BY <1>2, DatabasesOfUrl DEF Deduplicate, NamesOfUrl, RequestInductive, ConfigInductive
  <1>4. /\ UNCHANGED <<phase, query, groups>>
        /\ ConfigInductive'
    BY <1>1, ConfigNext DEF RequestInductive, vars, partVars
  <1>5. /\ Named(u.database)' = Named(u.database) /\ Wanted' = WantedOf(u)
    BY <1>2, <1>4 DEF Named, AllNamed, Wanted, WantedOf
  <1>6. /\ AllKnown(u) => NamesOfUrl(u) = WantedOf(u)
        /\ AllKnown(u) <=> \A v \in ToSet(u.group) : ~ v[2] /\ v[1] \in DOMAIN groups
        /\ ToSet(names) = NamesOfUrl(u) /\ Len(names) \in Nat
        /\ Len(names) = 0 <=> NamesOfUrl(u) = {}
    BY <1>1, <1>3, QueriesOfUrl, OrderOfSet DEF RequestInductive
  <1>7. Len(dbs) \in Nat /\ (Len(dbs) = 0 <=> Named(u.database) = {})
    BY <1>3, DatabasesOfUrl, OrderOfSet DEF RequestInductive, ConfigInductive
  <1>8. RequestShape'
    BY <1>1, <1>2, <1>3, <1>4 DEF RequestShape
  <1>9. yielded' = <<>>
    BY <1>1 DEF RequestInductive, YieldedInOrder
  <1>10. CASE Len(dbs) > 0 /\ Len(names) > 0 /\ AllKnown(u) /\ ToSet(names) \subseteq DOMAIN query
    <2>1. dbNames' = dbs /\ queries' = names /\ reqPhase' = "accepted"
      BY <1>3, <1>10
    <2>2. NamesAreApart'
      BY <1>2, <1>3, <1>5, <1>6, <1>10, <2>1 DEF NamesAreApart, Named, AllNamed
    <2>3. YieldedInOrder'
      <3>1. 0 \in 0 .. Len(dbs) * Len(names)
        BY <1>6, <1>7
      <3>2. <<>> = [m \in 1 .. 0 |-> Pair(m - 1)']
        OBVIOUS
      <3> QED
        BY <1>9, <2>1, <3>1, <3>2 DEF YieldedInOrder
    <2>4. RejectedForReason'
      BY <1>2, <1>4, <1>5, <1>6, <1>7, <1>10, <2>1 DEF RejectedForReason
    <2> QED
      BY <1>4, <1>8, <2>2, <2>3, <2>4 DEF RequestInductive
  <1>11. CASE ~ (Len(dbs) > 0 /\ Len(names) > 0 /\ AllKnown(u) /\ ToSet(names) \subseteq DOMAIN query)
    <2>1. reqPhase' = "rejected"
      BY <1>3, <1>11
    <2>2. NamesAreApart' /\ YieldedInOrder'
      BY <1>9, <2>1 DEF NamesAreApart, YieldedInOrder
    <2>3. RejectedForReason'
      BY <1>2, <1>4, <1>5, <1>6, <1>7, <1>11, <2>1 DEF RejectedForReason
    <2> QED
      BY <1>4, <1>8, <2>2, <2>3 DEF RequestInductive
  <1> QED
    BY <1>10, <1>11

LEMMA SameRequestKeeps ==
    ASSUME RequestShape, NamesAreApart, RejectedForReason,
           UNCHANGED <<phase, query, groups, url, dbNames, queries, reqPhase>>
    PROVE  RequestShape' /\ NamesAreApart' /\ RejectedForReason'
  <1>1. Wanted' = Wanted /\ Named(url.database)' = Named(url.database)
    BY DEF Wanted, Named, AllNamed
  <1>2. RequestShape'
    BY DEF RequestShape
  <1>3. NamesAreApart'
    BY <1>1 DEF NamesAreApart
  <1>4. RejectedForReason'
    BY <1>1 DEF RejectedForReason
  <1> QED
    BY <1>2, <1>3, <1>4

LEMMA YieldKeeps ==
    ASSUME RequestInductive, Yield
    PROVE  RequestInductive'
  <1> DEFINE n == Len(yielded)
  <1>1. /\ reqPhase = "accepted" /\ n < Len(dbNames) * Len(queries)
        /\ yielded' = Append(yielded, Pair(n))
        /\ UNCHANGED <<url, dbNames, queries, reqPhase, vars>>
    BY DEF Yield, Pair
  <1>2. /\ UNCHANGED <<phase, query, groups>>
        /\ ConfigInductive'
    BY <1>1, ConfigNext DEF RequestInductive, vars, partVars
  <1>3. PICK k \in 0 .. Len(dbNames) * Len(queries) :
          yielded = [m \in 1 .. k |-> Pair(m - 1)]
    BY <1>1 DEF RequestInductive, YieldedInOrder
  <1>4. n = k
    BY <1>3
  <1>5. Len(dbNames) \in Nat /\ Len(queries) \in Nat
    BY DEF RequestInductive, NamesAreApart
  <1>6. k \in Nat /\ k + 1 \in 0 .. Len(dbNames) * Len(queries)
    BY <1>1, <1>3, <1>4, <1>5
  <1>7. yielded' = [m \in 1 .. k + 1 |-> Pair(m - 1)]
    BY <1>1, <1>3, <1>4, <1>6
  <1>8. YieldedInOrder'
    BY <1>1, <1>6, <1>7 DEF YieldedInOrder, Pair
  <1>9. RequestShape' /\ NamesAreApart' /\ RejectedForReason'
    BY <1>1, <1>2, SameRequestKeeps DEF RequestInductive
  <1> QED
    BY <1>2, <1>8, <1>9 DEF RequestInductive

LEMMA EndIterKeeps ==
    ASSUME RequestInductive, EndIter
    PROVE  RequestInductive'
  <1>1. /\ reqPhase = "accepted" /\ Len(yielded) = Len(dbNames) * Len(queries)
        /\ reqPhase' = "done"
        /\ UNCHANGED <<url, dbNames, queries, yielded, vars>>
    BY DEF EndIter
  <1>2. /\ UNCHANGED <<phase, query, groups>>
        /\ ConfigInductive'
    BY <1>1, ConfigNext DEF RequestInductive, vars, partVars
  <1>3. RequestShape' /\ NamesAreApart' /\ RejectedForReason'
    <2>1. Wanted' = Wanted /\ Named(url.database)' = Named(url.database)
      BY <1>1, <1>2 DEF Wanted, Named, AllNamed
    <2>2. RequestShape'
      BY <1>1, <1>2 DEF RequestInductive, RequestShape
    <2>3. NamesAreApart'
      BY <1>1, <2>1 DEF RequestInductive, NamesAreApart
    <2>4. RejectedForReason'
      BY <1>1, <1>2, <2>1 DEF RequestInductive, RejectedForReason
    <2> QED
      BY <2>2, <2>3, <2>4
  <1>4. YieldedInOrder'
    BY <1>1 DEF RequestInductive, YieldedInOrder, Pair
  <1> QED
    BY <1>2, <1>3, <1>4 DEF RequestInductive

(* Nothing is loaded once requests are served. *)
LEMMA LoadingKeeps ==
    ASSUME RequestInductive, [Next]_vars, UNCHANGED requestVars
    PROVE  RequestInductive'
  <1>1. ConfigInductive' /\ UNCHANGED <<url, dbNames, queries, reqPhase, yielded>>
    BY ConfigNext DEF RequestInductive, requestVars
  <1>2. CASE reqPhase = "new"
    BY <1>1, <1>2 DEF RequestInductive, RequestShape, NamesAreApart, YieldedInOrder,
       RejectedForReason
  <1>3. CASE reqPhase # "new"
    <2>1. phase = "started"
      BY <1>3 DEF RequestInductive, RequestShape
    <2>2. UNCHANGED <<phase, query, groups>>
      BY <2>1 DEF Next, Setup, Fail, Validate, NextQuery, AddToGroup, Load,
         CreateCollectors, CreatePanics, vars, partVars
    <2>3. RequestShape' /\ NamesAreApart' /\ RejectedForReason'
      BY <1>1, <2>2, SameRequestKeeps DEF RequestInductive
    <2>4. YieldedInOrder'
      BY <1>1 DEF RequestInductive, YieldedInOrder, Pair
    <2> QED
      BY <1>1, <2>3, <2>4 DEF RequestInductive
  <1> QED
    BY <1>2, <1>3

LEMMA RequestSteps ==
    RequestInductive /\ [RequestNext]_<<vars, requestVars>> => RequestInductive'
  BY ParseKeeps, YieldKeeps, EndIterKeeps, LoadingKeeps DEF RequestNext

LEMMA RequestAlways == RequestSpec => []RequestInductive
  BY RequestStarts, RequestSteps, PTL DEF RequestSpec

--------------------------------------------------------------------------------
(* The theorems about Request.                                               *)

(* With requests served, the configuration is loaded as it is without. *)
THEOREM RequestUsesConfig == RequestSpec => Spec
  <1>1. RequestInit => Init
    BY DEF RequestInit
  <1>2. [RequestNext]_<<vars, requestVars>> => [Next]_vars
    BY DEF RequestNext, Parse, Yield, EndIter
  <1> QED
    BY <1>1, <1>2, PTL DEF RequestSpec, Spec

(* A request for anything wrong is rejected, and no other. *)
THEOREM RequestRejects == RequestSpec => []RejectedForReason
  <1>1. RequestInductive => RejectedForReason
    BY DEF RequestInductive
  <1> QED
    BY <1>1, RequestAlways, PTL

(* The loops of iter give each pair of a named database and a wanted query,  *)
(* once.                                                                     *)
LEMMA LoopsGiveEachPair ==
    ASSUME RequestInductive, reqPhase = "done"
    PROVE  EachPairOnce
  <1> DEFINE d == Len(dbNames)
             k == Len(queries)
  <1>1. /\ dbNames \in SetToSeqs(Named(url.database)) /\ IsFiniteSet(Named(url.database))
        /\ queries \in SetToSeqs(Wanted) /\ d > 0 /\ k > 0
    BY DatabasesOfUrl DEF RequestInductive, ConfigInductive, RequestShape, NamesAreApart
  <1>2. IsFiniteSet(Wanted)
    <2>1. url \in Urls(query) /\ phase = "started"
      BY DEF RequestInductive, RequestShape
    <2>2. AllKnown(url)
      BY <2>1, QueriesOfUrl DEF RequestInductive, RejectedForReason
    <2>3. Wanted = WantedOf(url)
      BY DEF Wanted, WantedOf, AllNamed
    <2> QED
      BY <2>1, <2>2, <2>3, QueriesOfUrl DEF RequestInductive
  <1>3. /\ d \in Nat /\ DOMAIN dbNames = 1 .. d /\ ToSet(dbNames) = Named(url.database)
        /\ IsInjective(dbNames)
    BY <1>1, OrderOfSet
  <1>4. /\ k \in Nat /\ DOMAIN queries = 1 .. k /\ ToSet(queries) = Wanted
        /\ IsInjective(queries)
    BY <1>1, <1>2, OrderOfSet
  <1>5. /\ d * k \in Nat /\ DOMAIN yielded = 1 .. d * k
        /\ \A i \in 1 .. d * k : yielded[i] = Pair(i - 1)
    <2>1. PICK n \in 0 .. d * k : yielded = [m \in 1 .. n |-> Pair(m - 1)]
      BY DEF RequestInductive, YieldedInOrder
    <2>2. Len(yielded) = d * k /\ d * k \in Nat
      BY <1>3, <1>4 DEF RequestInductive, YieldedInOrder
    <2> QED
      BY <2>1, <2>2
  <1> HIDE DEF d, k
  <1>6. ASSUME NEW m \in 0 .. (d * k) - 1
        PROVE  /\ m \div k \in 0 .. d - 1 /\ m % k \in 0 .. k - 1
               /\ m = k * (m \div k) + (m % k)
               /\ Pair(m) = <<dbNames[(m \div k) + 1], queries[(m % k) + 1]>>
    <2>1. m \in Nat /\ k \in Nat /\ k > 0
      BY <1>1, <1>4, <1>5
    <2>2. m \div k \in Nat /\ m % k \in 0 .. k - 1 /\ m = k * (m \div k) + (m % k)
      BY <2>1, Division
    <2>3. m \div k < d
      <3> DEFINE q == m \div k
      <3> SUFFICES ASSUME q >= d PROVE FALSE
        BY <1>3, <2>2
      <3>1. q \in Nat /\ k * q <= m /\ m < d * k
        BY <1>5, <2>1, <2>2
      <3> HIDE DEF q
      <3>2. k * q >= k * d
        BY <1>3, <2>1, <3>1
      <3> QED
        BY <1>3, <2>1, <3>1, <3>2
    <2>4. Pair(m) = <<dbNames[(m \div k) + 1], queries[(m % k) + 1]>>
      BY DEF Pair, k
    <2> QED
      BY <1>3, <2>2, <2>3, <2>4
  <1>7. IsInjective(yielded)
    <2> SUFFICES ASSUME NEW i \in 1 .. d * k, NEW j \in 1 .. d * k, yielded[i] = yielded[j]
                 PROVE  i = j
      BY <1>5 DEF IsInjective
    <2>1. i - 1 \in 0 .. (d * k) - 1 /\ j - 1 \in 0 .. (d * k) - 1 /\ Pair(i - 1) = Pair(j - 1)
      BY <1>5
    <2> DEFINE a == (i - 1) \div k
               b == (i - 1) % k
               e == (j - 1) \div k
               f == (j - 1) % k
    <2>2. /\ a \in 0 .. d - 1 /\ b \in 0 .. k - 1 /\ i - 1 = k * a + b
          /\ e \in 0 .. d - 1 /\ f \in 0 .. k - 1 /\ j - 1 = k * e + f
          /\ dbNames[a + 1] = dbNames[e + 1] /\ queries[b + 1] = queries[f + 1]
      BY <1>6, <2>1
    <2> HIDE DEF a, b, e, f
    <2>3. a + 1 = e + 1
      BY <1>3, <2>2 DEF IsInjective
    <2>4. b + 1 = f + 1
      BY <1>4, <2>2 DEF IsInjective
    <2>5. i - 1 = j - 1
      BY <1>3, <1>4, <2>2, <2>3, <2>4
    <2> QED
      BY <1>5, <2>5
  <1>8. ToSet(yielded) \subseteq Named(url.database) \X Wanted
    <2> SUFFICES ASSUME NEW i \in 1 .. d * k
                 PROVE  yielded[i] \in Named(url.database) \X Wanted
      BY <1>5 DEF ToSet
    <2>1. i - 1 \in 0 .. (d * k) - 1
      BY <1>5
    <2> DEFINE a == (i - 1) \div k
               b == (i - 1) % k
    <2>2. a \in 0 .. d - 1 /\ b \in 0 .. k - 1
          /\ yielded[i] = <<dbNames[a + 1], queries[b + 1]>>
      BY <1>5, <1>6, <2>1
    <2> HIDE DEF a, b
    <2>3. dbNames[a + 1] \in Named(url.database) /\ queries[b + 1] \in Wanted
      BY <1>3, <1>4, <2>2 DEF ToSet
    <2> QED
      BY <2>2, <2>3
  <1>9. Named(url.database) \X Wanted \subseteq ToSet(yielded)
    <2> SUFFICES ASSUME NEW name \in Named(url.database), NEW q \in Wanted
                 PROVE  <<name, q>> \in ToSet(yielded)
      OBVIOUS
    <2>1. PICK x \in 1 .. d : dbNames[x] = name
      BY <1>3 DEF ToSet
    <2>2. PICK y \in 1 .. k : queries[y] = q
      BY <1>4 DEF ToSet
    <2> DEFINE a == x - 1
               b == y - 1
               m == k * a + b
    <2>3. a \in 0 .. d - 1 /\ b \in 0 .. k - 1 /\ a + 1 = x /\ b + 1 = y
      BY <1>3, <1>4
    <2> HIDE DEF a, b
    <2>4. m \in 0 .. (d * k) - 1
      <3> DEFINE before == k * a
                 all == d * k
      <3>1. k * a \in Nat /\ k * a <= k * (d - 1)
        BY <1>3, <1>4, <2>3
      <3>2. k * (d - 1) = (d * k) - k
        BY <1>3, <1>4
      <3>3. before \in Nat /\ all \in Nat /\ before <= all - k
        BY <1>5, <3>1, <3>2
      <3>4. before + b = m
        OBVIOUS
      <3> HIDE DEF before, all, m
      <3>5. m \in 0 .. all - 1
        BY <1>4, <2>3, <3>3, <3>4
      <3> QED
        BY <3>5 DEF all
    <2> DEFINE s == m \div k
               t == m % k
    <2>5. /\ s \in Nat /\ t \in 0 .. k - 1 /\ m = k * s + t
          /\ Pair(m) = <<dbNames[s + 1], queries[t + 1]>>
      BY <1>6, <2>4
    <2> HIDE DEF s, t
    <2>6. s = a /\ t = b
      <3>1. k * a + b = k * s + t /\ a \in Nat /\ k > 0
        BY <1>1, <2>3, <2>5
      <3> QED
        BY <1>4, <2>3, <2>5, <3>1, SameQuotient
    <2>7. Pair(m) = <<name, q>>
      BY <2>1, <2>2, <2>3, <2>5, <2>6
    <2> HIDE DEF m
    <2>8. m + 1 \in 1 .. d * k /\ (m + 1) - 1 = m
      BY <1>5, <2>4
    <2> QED
      BY <1>5, <2>7, <2>8 DEF ToSet
  <1> QED
    BY <1>7, <1>8, <1>9 DEF EachPairOnce

THEOREM RequestPairs == RequestSpec => []EachPairOnce
  <1>1. RequestInductive => EachPairOnce
    BY LoopsGiveEachPair DEF EachPairOnce
  <1> QED
    BY <1>1, RequestAlways, PTL
================================================================================
