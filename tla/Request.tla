-------------------------------- MODULE Request --------------------------------
(***************************************************************************)
(* The parameters of a request (internal/server/request.go): the names in  *)
(* the URL are trimmed, put in order and looked up in the configuration    *)
(* that Config.tla loads, and the handler goes through all pairs of a       *)
(* database and a query.                                                   *)
(*                                                                         *)
(* A value of a parameter is <<name, padded>>: a name, or the blank one,   *)
(* with or without spaces around it.  The names of a file are not padded.  *)
(***************************************************************************)
EXTENDS Config

(* Blank is also the name of a value that has nothing but spaces. *)
CONSTANT
    Urls(_)             \* the requests that are sent when these are the queries

ASSUME RequestAssumption ==
    \A file \in Files : \A u \in Urls(file.query) :
        \A values \in {u.database, u.query, u.group} :
            values \in Seq(ToSet(values)) /\ \A v \in ToSet(values) : v[2] \in BOOLEAN

VARIABLES
    url,                \* the values of database, query and group
    dbNames, queries,   \* requestParameters
    reqPhase,           \* "new", "rejected", "accepted" or "done"
    yielded             \* what iter has given to the handler

requestVars == <<url, dbNames, queries, reqPhase, yielded>>

RequestInit ==
    /\ Init
    /\ url = [database |-> <<>>, query |-> <<>>, group |-> <<>>]
    /\ dbNames = <<>> /\ queries = <<>>
    /\ reqPhase = "new"
    /\ yielded = <<>>

--------------------------------------------------------------------------------

TrimSpace(value) == value[1]

Unpadded(name) == <<name, FALSE>>

(* Mutant: the empty string is not left out. *)
Deduplicate_KeepBlank(values) == SetToSeqs({TrimSpace(v) : v \in values})

(* deduplicateStringList: the keys of a map, in any order.  The case of one   *)
(* value, which the code treats apart, is no other.                          *)
Deduplicate(values) == SetToSeqs({TrimSpace(v) : v \in values} \ {Blank})

(* A group is looked up as it stands in the URL, spaces included. *)
KnownGroup(value) ==
    /\ value[1] \in DOMAIN groups /\ ~value[2]
    /\ Len(groups[value[1]]) > 0

(* The queries of the parameter query, and those of the groups. *)
QueryNames(u) ==
    LET known == {v[1] : v \in {v \in ToSet(u.group) : KnownGroup(v)}}
    IN  ToSet(u.query) \cup
        {Unpadded(name) : name \in UNION {ToSet(groups[g]) : g \in known}}

(* newRequestParams returns an error when anything in the URL is wrong. *)
Parse ==
    /\ phase = "started" /\ reqPhase = "new"
    /\ \E u \in Urls(query) :
         /\ url' = u
         /\ \E dbs \in Deduplicate(ToSet(u.database)), names \in Deduplicate(QueryNames(u)) :
              IF /\ Len(dbs) > 0 /\ Len(names) > 0
                 /\ \A v \in ToSet(u.group) : KnownGroup(v)
                 /\ ToSet(names) \subseteq DOMAIN query
              THEN /\ dbNames' = dbs /\ queries' = names
                   /\ reqPhase' = "accepted"
              ELSE /\ reqPhase' = "rejected"
                   /\ UNCHANGED <<dbNames, queries>>
    /\ UNCHANGED <<yielded, vars>>

(* The next pair of the nested loops of iter. *)
Yield ==
    /\ reqPhase = "accepted"
    /\ Len(yielded) < Len(dbNames) * Len(queries)
    /\ LET n == Len(yielded) IN
         yielded' = Append(yielded, <<dbNames[(n \div Len(queries)) + 1],
                                      queries[(n % Len(queries)) + 1]>>)
    /\ UNCHANGED <<url, dbNames, queries, reqPhase, vars>>

(* Mutant: as many pairs as there are queries. *)
EndIter_FirstDatabase ==
    /\ reqPhase = "accepted" /\ Len(yielded) >= Len(queries)
    /\ reqPhase' = "done"
    /\ UNCHANGED <<url, dbNames, queries, yielded, vars>>

EndIter ==
    /\ reqPhase = "accepted" /\ Len(yielded) = Len(dbNames) * Len(queries)
    /\ reqPhase' = "done"
    /\ UNCHANGED <<url, dbNames, queries, yielded, vars>>

RequestNext ==
    \/ Next /\ UNCHANGED requestVars
    \/ Parse \/ Yield \/ EndIter

RequestSpec == RequestInit /\ [][RequestNext]_<<vars, requestVars>>

--------------------------------------------------------------------------------
(* What the client asks for, read off the URL.                               *)

AllNamed(values) == {v[1] : v \in ToSet(values)}

Named(values) == AllNamed(values) \ {Blank}

(* A query without a name cannot be asked for, not even by its group. *)
Wanted ==
    (AllNamed(url.query) \cup
     UNION {ToSet(groups[g]) : g \in AllNamed(url.group) \cap DOMAIN groups}) \ {Blank}

(* A request for known queries gets every wanted query on every named         *)
(* database exactly once, however often the URL repeats a name or has it in  *)
(* a group and by itself; handler and channel count on it, for the channel   *)
(* of the results has one place for every pair.                              *)
EachPairOnce ==
    reqPhase = "done" =>
        /\ ToSet(yielded) = Named(url.database) \X Wanted
        /\ IsInjective(yielded)

(* Nothing is answered in part: a request with a missing or an unknown name   *)
(* is rejected, and no other is but for the spaces around a group.           *)
RejectedForReason ==
    reqPhase # "new" =>
        (reqPhase = "rejected" <=>
            \/ Named(url.database) = {} \/ Wanted = {}
            \/ ~(Wanted \subseteq DOMAIN query)
            \/ \E v \in ToSet(url.group) : v[2] \/ v[1] \notin DOMAIN groups)
================================================================================
