-------------------------------- MODULE Config --------------------------------
(***************************************************************************)
(* Loading of the configuration (internal/conf): the defaults of every     *)
(* part, the validation of all of it, the groups of queries; and the       *)
(* collectors that are made of what was loaded (collectors/mod.go).        *)
(*                                                                         *)
(* A text is "" (none), "ok" or "bad" (it does not compile); a duration is *)
(* in seconds; drivers and connection parameters are those of Drivers.tla. *)
(***************************************************************************)
EXTENDS Integers, Drivers, TLC

CONSTANTS
    Files,              \* parsed files: Database and Query by name, and Jobs
    Builds,             \* sets of build tags: the drivers that are compiled in
    GroupName,          \* names of groups
    Blank,              \* the name ""
    NoPool              \* the database has no pool section

(* What the fields of a file are in Go. *)
IsDatabase(db) ==
    /\ {"driver", "connection", "pool", "background", "connectTimeout", "workers", "valid"}
         \subseteq DOMAIN db
    /\ db.background \in Int /\ db.valid \in BOOLEAN
    /\ db.pool = NoPool \/ (db.pool.max \in Int /\ db.pool.idle \in Int)

IsJob(job) == {"database", "query", "interval", "valid"} \subseteq DOMAIN job

ASSUME ConfigAssumption ==
    /\ Builds \subseteq SUBSET DOMAIN NamesOf
    /\ \A file \in Files :
         /\ \A n \in DOMAIN file.database : IsDatabase(file.database[n])
         /\ IsFiniteSet(DOMAIN file.query)
         /\ \A n \in DOMAIN file.query : file.query[n].groups \in Seq(GroupName)
         /\ \A i \in DOMAIN file.jobs : IsJob(file.jobs[i])

VARIABLES
    phase,              \* how far loading is, and how the collectors started
    dbDefs,             \* GlobalRegistry
    database, query, jobs, groups,
    ungrouped,          \* the queries buildGroups has not looked at
    pairs,              \* the pairs <<query, group>> left of the query it looks at
    collectors          \* the connection string of each collector

partVars == <<database, query, jobs, groups>>
loopVars == <<ungrouped, pairs>>
vars == <<phase, dbDefs, partVars, loopVars, collectors>>

Init ==
    /\ phase = "read"
    /\ \E file \in Files :
         database = file.database /\ query = file.query /\ jobs = file.jobs
    /\ groups = <<>>
    /\ ungrouped = {} /\ pairs = <<>>
    /\ \E build \in Builds : dbDefs = Registry(build)
    /\ collectors = <<>>

--------------------------------------------------------------------------------
(* Database.setup.                                                           *)

DefaultPool == [max |-> 10, idle |-> 2, lifetime |-> 600]

DefaultConnectTimeout == 15

(* The workers for normal tasks before those for jobs are taken away: a pool *)
(* that keeps no idle connection has one.                                    *)
AllWorkers(pool) == IF pool.idle > 0 THEN pool.max ELSE 1

(* Mutant: all workers may be for jobs. *)
SetupDatabase_AllBackground(db) ==
    LET pool == IF db.pool = NoPool THEN DefaultPool ELSE db.pool
        all == AllWorkers(pool)
        background == IF db.background > all THEN 0 ELSE db.background
    IN  [db EXCEPT !.pool = pool,
                   !.background = background,
                   !.workers = all - background]

SetupDatabase(db) ==
    LET pool == IF db.pool = NoPool THEN DefaultPool ELSE db.pool
        all == AllWorkers(pool)
        background == IF db.background >= all THEN 0 ELSE db.background
    IN  [db EXCEPT !.pool = pool,
                   !.background = background,
                   !.workers = all - background,
                   !.connectTimeout = IF @ <= 0 THEN DefaultConnectTimeout ELSE @]

Setup ==
    /\ phase = "read"
    /\ database' = [n \in DOMAIN database |-> SetupDatabase(database[n])]
    /\ phase' = "set up"
    /\ UNCHANGED <<query, jobs, groups, loopVars, dbDefs, collectors>>

--------------------------------------------------------------------------------
(* validate.                                                                 *)

PoolIsValid(pool) == pool.max >= 0 /\ pool.idle >= 0 /\ pool.lifetime >= 0

DatabaseIsValid(db) ==
    /\ ParamsAreValid(dbDefs[db.driver], db.connection)
    /\ PortIsValid(db.connection)
    /\ PoolIsValid(db.pool)

Supported == {n \in DOMAIN database : database[n].driver \in DOMAIN dbDefs}

(* A database without a driver is only logged; one that is wrong, or nothing *)
(* but databases without a driver, is an error.                              *)
DatabasesAreValid ==
    /\ Supported # {}
    /\ \A n \in Supported : DatabaseIsValid(database[n])

QueryIsValid(q) == q.sql # "" /\ q.metrics = "ok" /\ q.onError # "bad"

(* Mutant: the database of a job is not looked up. *)
JobRefers_QueryOnly(job) == job.query \in DOMAIN query

JobRefers(job) ==
    /\ job.database \in DOMAIN database \ {Blank}
    /\ job.query \in DOMAIN query \ {Blank}

ConfigurationIsValid ==
    /\ DOMAIN query # {}
    /\ \A n \in DOMAIN query : QueryIsValid(query[n])
    /\ DatabasesAreValid
    /\ \A i \in DOMAIN jobs : JobRefers(jobs[i])

Fail ==
    /\ phase = "set up" /\ ~ConfigurationIsValid
    /\ phase' = "failed"
    /\ UNCHANGED <<partVars, loopVars, dbDefs, collectors>>

(* The databases with a driver and the jobs that run now and then are marked. *)
(* Nothing clears the mark a file itself gives to a database without one.     *)
Validate ==
    /\ phase = "set up" /\ ConfigurationIsValid
    /\ database' = [n \in DOMAIN database |->
                      [database[n] EXCEPT !.valid = @ \/ n \in Supported]]
    /\ jobs' = [i \in DOMAIN jobs |->
                  [jobs[i] EXCEPT !.valid = (jobs[i].interval >= 1)]]
    /\ ungrouped' = DOMAIN query
    /\ phase' = "validated"
    /\ UNCHANGED <<query, groups, pairs, dbDefs, collectors>>

--------------------------------------------------------------------------------
(* buildGroups.                                                              *)

(* Mutant: a query that has a group twice is in it twice. *)
Add_Always(groupQueries, name) == Append(groupQueries, name)

Add(groupQueries, name) ==
    IF Contains(groupQueries, name) THEN groupQueries ELSE Append(groupQueries, name)

(* The queries come from a map, in any order. *)
NextQuery ==
    /\ phase = "validated" /\ pairs = <<>>
    /\ \E name \in ungrouped :
         /\ ungrouped' = ungrouped \ {name}
         /\ pairs' = [i \in DOMAIN query[name].groups |-> <<name, query[name].groups[i]>>]
    /\ UNCHANGED <<phase, partVars, dbDefs, collectors>>

AddToGroup ==
    /\ phase = "validated" /\ pairs # <<>>
    /\ LET name == Head(pairs)[1]
           group == Head(pairs)[2] IN
         groups' = [g \in DOMAIN groups \cup {group} |->
                      IF g # group THEN groups[g]
                      ELSE IF g \in DOMAIN groups THEN Add(groups[g], name)
                      ELSE <<name>>]
    /\ pairs' = Tail(pairs)
    /\ UNCHANGED <<phase, database, query, jobs, ungrouped, dbDefs, collectors>>

Load ==
    /\ phase = "validated" /\ pairs = <<>> /\ ungrouped = {}
    /\ phase' = "loaded"
    /\ UNCHANGED <<partVars, loopVars, dbDefs, collectors>>

--------------------------------------------------------------------------------
(* createCollectors.                                                         *)

DriverOf(n) == dbDefs[database[n].driver]

ValidDatabases == {n \in DOMAIN database : database[n].valid}

(* newCollector gets an instance only for these. *)
Served == ValidDatabases \cap Supported

(* A database whose collector cannot be made is logged and left out. *)
CreateCollectors ==
    /\ phase = "loaded"
    /\ \A n \in Served : NoPlace(DriverOf(n), database[n].connection) = {}
    /\ LET made == {n \in Served :
                      ~ Refused(DriverOf(n), database[n].connection)}
       IN  /\ collectors' = [n \in made |->
                               ConnString(DriverOf(n), database[n].connection)]
           /\ phase' = IF made = {} THEN "no databases" ELSE "started"
    /\ UNCHANGED <<partVars, loopVars, dbDefs>>

CreatePanics ==
    /\ phase = "loaded"
    /\ \E n \in Served : NoPlace(DriverOf(n), database[n].connection) # {}
    /\ phase' = "panicked"
    /\ UNCHANGED <<partVars, loopVars, dbDefs, collectors>>

Next ==
    \/ Setup \/ Fail \/ Validate
    \/ NextQuery \/ AddToGroup \/ Load
    \/ CreateCollectors \/ CreatePanics

Spec == Init /\ [][Next]_vars

--------------------------------------------------------------------------------

(* A collector has a worker for normal tasks whatever part of them is asked   *)
(* for the jobs, but for a pool of no limit, max 0, that keeps connections:  *)
(* it has none, and its tasks are never run.  Where the pool has a limit     *)
(* there are no more workers than connections.  Negative background_workers, *)
(* which no check refuses, make more.  (databases.go:87 says that the        *)
(* workers are max_connections without those for the jobs.)                  *)
WorkersFitPool ==
    phase = "loaded" =>
        \A n \in Served :
            LET db == database[n] IN
              /\ db.workers >= 1 \/ (db.pool.max = 0 /\ db.pool.idle > 0)
              /\ db.pool.max > 0 /\ db.background >= 0 =>
                   db.workers + db.background <= db.pool.max

(* Whatever order the queries have, a group has every query that names it,   *)
(* once, and no other.                                                       *)
GroupsAreExact ==
    phase = "loaded" =>
        /\ DOMAIN groups = UNION {ToSet(query[n].groups) : n \in DOMAIN query}
        /\ \A g \in DOMAIN groups :
             /\ ToSet(groups[g]) =
                  {n \in DOMAIN query : g \in ToSet(query[n].groups)}
             /\ IsInjective(groups[g])

(* The parts of a loaded configuration fit: there is a valid database with a *)
(* driver, and a job the scheduler will run has a database and a query with a *)
(* template.  (The database may still be one without a driver.)              *)
LoadedIsUsable ==
    phase = "loaded" =>
        /\ Served # {}
        /\ \A i \in DOMAIN jobs : jobs[i].valid =>
             /\ jobs[i].database \in DOMAIN database
             /\ jobs[i].query \in DOMAIN query
             /\ query[jobs[i].query].metrics = "ok"

(* The parameters have a value, a connstr is a text of more than spaces, and  *)
(* the driver has a place for all of them.                                   *)
WellWritten(n) ==
    LET connection == database[n].connection IN
      /\ "null" \notin Range(connection)
      /\ UsesConnstr(connection) => connection["connstr"] = "text"
      /\ NoPlace(DriverOf(n), connection) = {}

(* What the driver leaves out of the connection string. *)
Unused(n) ==
    LET connection == database[n].connection IN
    CASE DriverOf(n) = "pg" /\ UsesConnstr(connection) -> DOMAIN connection \ {"connstr"}
      [] DriverOf(n) \in {"mysql", "oracle"} /\ ~ Given(connection, "user") -> {"password"}
      [] OTHER -> {}

(* What the validation accepts is what the driver can use: a valid database   *)
(* with a driver that is well written gets a collector, whose connection     *)
(* string names a database and has every parameter, but a password without a *)
(* user and what is beside a connstr.  The validation looks at other things  *)
(* than the driver does: it accepts null, a number for connstr, a blank      *)
(* connstr beside the other parameters, and parameters that make the driver  *)
(* panic.                                                                    *)
ValidIsConnected ==
    /\ phase = "panicked" => \E n \in Served : ~ WellWritten(n)
    /\ phase \in {"started", "no databases"} =>
         \A n \in Served : WellWritten(n) =>
           /\ n \in DOMAIN collectors
           /\ \A k \in DOMAIN database[n].connection \ Unused(n) :
                k \in collectors[n] \/ database[n].connection[k] = "empty"
           /\ \E k \in collectors[n] \cap {"connstr", "database", "dbname"} :
                database[n].connection[k] \notin {"blank", "empty"}
================================================================================
