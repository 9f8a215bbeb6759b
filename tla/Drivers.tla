--------------------------------- MODULE Drivers ---------------------------------
(***************************************************************************)
(* The database drivers (internal/db): the registry, which the init        *)
(* functions of a build fill, the checks of connection parameters, and the *)
(* connection string that instanate makes of them.                         *)
(*                                                                         *)
(* A connection is a function from the names of its parameters to the kind *)
(* of their values: "text", "blank" (a string of spaces), "empty" (one of  *)
(* no length), "null", "port" (an integer in the range of ports) or        *)
(* "number" (another one).  "other" is a parameter that no driver names.   *)
(***************************************************************************)
EXTENDS SequencesExt, Functions

InitOrder == <<"mssql", "mysql", "oracle", "pg", "sqlite">>

NamesOf ==
    [mssql  |-> {"mssql"},
     mysql  |-> {"mssql", "mariadb", "tidb"},
     oracle |-> {"oracle", "oci8"},
     pg     |-> {"postgresql", "postgres", "cockroach", "cockroachdb"},
     sqlite |-> {"sqlite3", "sqlite"}]

(* What GlobalRegistry has for a set of build tags: a driver that registers  *)
(* a name later replaces the one before.                                     *)
Registry(build) ==
    LET registering(n) ==
          {i \in DOMAIN InitOrder : InitOrder[i] \in build /\ n \in NamesOf[InitOrder[i]]}
    IN  [n \in UNION {NamesOf[def] : def \in build} |-> InitOrder[Max(registering(n))]]

--------------------------------------------------------------------------------
(* validateConf and validateCommon.                                          *)

(* Mutant: a parameter only has to be there. *)
Checked_Present(connection, key) == key \in DOMAIN connection

(* checkConnectionParam: a value that is no string, null included, is enough. *)
Checked(connection, key) ==
    key \in DOMAIN connection /\ connection[key] \notin {"blank", "empty"}

ParamsAreValid(def, connection) ==
    LET has(key) == Checked(connection, key)
    IN  CASE def = "pg" ->
               has("connstr") \/ ((has("database") \/ has("dbname")) /\ has("user"))
          [] def = "oracle" -> has("database") /\ has("host")
          [] OTHER -> has("database")

PortIsValid(connection) ==
    "port" \in DOMAIN connection => connection["port"] = "port"

--------------------------------------------------------------------------------
(* instanate.                                                                *)

(* The parameters a driver has a place for.  Any other is added to a nil     *)
(* url.Values, which panics; pg and mssql take all.                          *)
StandardParams == {"database", "host", "port", "user", "password"}

NoPlace(def, connection) ==
    CASE def \in {"mysql", "oracle"} -> DOMAIN connection \ StandardParams
      [] def = "sqlite" -> DOMAIN connection \ {"database"}
      [] OTHER -> {}

UsesConnstr(connection) ==
    "connstr" \in DOMAIN connection /\ connection["connstr"] # "empty"

(* pg takes a connstr that is no string for an error. *)
Refused(def, connection) ==
    /\ def = "pg" /\ UsesConnstr(connection)
    /\ connection["connstr"] \notin {"text", "blank"}

(* The parameters that are in the connection string of each driver.          *)

PgConnString(connection) ==
    IF UsesConnstr(connection) THEN {"connstr"} ELSE DOMAIN connection

MssqlConnString(connection) == {k \in DOMAIN connection : connection[k] # "null"}

Given(connection, key) ==
    key \in DOMAIN connection /\ connection[key] \notin {"empty", "null"}

(* A password needs a user. *)
Login(connection) ==
    IF Given(connection, "user")
    THEN {k \in {"user", "password"} : Given(connection, k)}
    ELSE {}

(* There are defaults for the host and the port. *)
MysqlConnString(connection) == {"database", "host", "port"} \cup Login(connection)

OracleConnString(connection) ==
    {"database", "host"} \cup Login(connection)
        \cup {k \in {"port"} : Given(connection, k)}

SqliteConnString(connection) == {"database"}

ConnString(def, connection) ==
    CASE def = "pg" -> PgConnString(connection)
      [] def = "mssql" -> MssqlConnString(connection)
      [] def = "mysql" -> MysqlConnString(connection)
      [] def = "oracle" -> OracleConnString(connection)
      [] def = "sqlite" -> SqliteConnString(connection)
================================================================================
