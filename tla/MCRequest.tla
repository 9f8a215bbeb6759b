-------------------------------- MODULE MCRequest --------------------------------
(* Pools first: one database with every pool and every number of background  *)
(* workers around the boundaries.  Then parts: a database may have no driver *)
(* or bad parameters, queries may not compile, a job may name nothing.  One  *)
(* of these configurations gets all requests with up to MaxValues values for *)
(* a parameter, the others one.  Last, drivers: one database with every name *)
(* of a driver and every connection, in builds with different drivers.       *)
EXTENDS Request

CONSTANTS d1, d2, q1, q2, g1, g2, Unknown, MaxValues

MCDatabase(drivers, connections, pools, backgrounds, timeouts) ==
    [driver : drivers, connection : connections, pool : pools,
     background : backgrounds, connectTimeout : timeouts,
     workers : {0}, valid : {FALSE}]

(* The file says that the database is valid. *)
Marked(dbs) == {[db EXCEPT !.valid = TRUE] : db \in dbs}

GoodConnection == [connstr |-> "text"]

MCPools == [max : -1 .. 4, idle : -1 .. 1, lifetime : {-1, 0, 1}] \cup {NoPool}

MCQuery(sqls, metrics, errors, gs) ==
    [sql : sqls, metrics : metrics, onError : errors, groups : gs]

GoodQuery == MCQuery({"ok"}, {"ok"}, {""}, {<<g1>>})

PoolFiles ==
    [database : [{d1} -> MCDatabase({"postgres"}, {GoodConnection}, MCPools, -1 .. 5, {0, 1})],
     query : [{q1} -> GoodQuery],
     jobs : {<<>>}]

PartDatabase ==
    MCDatabase({"postgres", "none"}, {GoodConnection, <<>>}, {NoPool}, {0}, {0})
    \cup Marked(MCDatabase({"none"}, {GoodConnection}, {NoPool}, {0}, {0}))

PartDatabases == [{d1} -> PartDatabase] \cup [{d1, d2} -> PartDatabase] \cup {<<>>}
PartQueries ==
    {<<>>} \cup [{q1, q2} -> MCQuery({"ok"}, {"ok", "bad"}, {"", "bad"},
                                     {<<g1, g2, g1>>, <<g2>>})]
          \cup [{q1} -> MCQuery({"", "ok"}, {"", "ok"}, {"ok"}, {<<>>})]
PartJobs ==
    {<<>>} \cup {<<j>> : j \in [database : {d1, d2}, query : {q1, q2},
                               interval : {0, 1}, valid : {FALSE}]}

PartFiles == [database : PartDatabases, query : PartQueries, jobs : PartJobs]

(* Group g1 has a query, g2 has two; one query and one group are "". *)
RichQueries ==
    [n \in {q1, q2, Blank} |->
       [sql |-> "ok", metrics |-> "ok", onError |-> "",
        groups |-> CASE n = q1 -> <<g1, g2>>
                     [] n = q2 -> <<g2, g2, Blank>>
                     [] n = Blank -> <<Blank>>]]

RichFiles ==
    [database : [{d1} -> MCDatabase({"postgres"}, {GoodConnection}, {NoPool}, {0}, {0})],
     query : {RichQueries},
     jobs : {<<>>, <<[database |-> d1, query |-> Blank, interval |-> 1, valid |-> FALSE]>>}]

(* All connections with some of these values. *)
Values == 
    [connstr |-> {"text", "blank", "empty", "null", "number"}, database |-> {"text", "empty"},
     dbname |-> {"text"}, user |-> {"text", "null"}, password |-> {"text"}, host |-> {"text"},
     port |-> {"port", "number", "text"}, other |-> {"text"}]

MCConnections ==
    LET extend(connections, key) ==
          connections \cup {c @@ (key :> v) : c \in connections, v \in Values[key]}
    IN  FoldSet(LAMBDA key, connections : extend(connections, key), {<<>>}, DOMAIN Values)

DriverFiles ==
    [database : [{d1} -> MCDatabase(UNION Range(NamesOf) \cup {"none"}, MCConnections,
                                    {NoPool}, {0}, {0})],
     query : [{q1} -> GoodQuery],
     jobs : {<<>>}]

MCBuilds == {{"mssql", "mysql", "oracle", "pg", "sqlite"}, {"pg", "mssql", "sqlite"}}

MCFiles == PoolFiles \cup PartFiles \cup RichFiles \cup DriverFiles

NameValues(names) == SeqOf((names \cup {Unknown, Blank}) \X BOOLEAN, MaxValues)

MCUrls(queryMap) ==
    IF queryMap = RichQueries
    THEN [database : NameValues({d1, d2}), query : NameValues({q1, q2}), group : NameValues({g2})]
    ELSE {[database |-> << <<d1, FALSE>> >>, query |-> << <<q1, FALSE>> >>,
           group |-> <<>>]}
================================================================================
