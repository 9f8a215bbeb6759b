--------------------------------- MODULE Middleware ---------------------------------
(***************************************************************************)
(* The handlers around the query handler (internal/server/mw.go): the      *)
(* limit of requests in flight, the compression of the response with a     *)
(* writer from a pool, and the recovery from a panic.                      *)
(*                                                                         *)
(* A gzip writer keeps what is written to it until it is closed (the       *)
(* handlers never flush), and passes it to the response it was last reset  *)
(* for.  Its Close takes several steps, in which others may use the writer *)
(* without any lock.  A response is a sequence of chunks <<request,        *)
(* number>>; the race may lose chunks or bring them to another response,   *)
(* what it does to the bytes of a chunk is not modelled.                   *)
(***************************************************************************)
EXTENDS Naturals, SequencesExt

CONSTANTS
    Request,
    Compressed,         \* those whose client accepts gzip
    Writer,             \* names for gzip writers
    Limits,             \* values for MaxRequestInFlight; 0 is no limit
    MaxChunks,          \* bound on what a handler writes
    None

ASSUME MiddlewareAssumption ==
    /\ Compressed \subseteq Request
    /\ Limits \subseteq Nat /\ MaxChunks \in Nat
    /\ None \notin Writer \cup Request

VARIABLES
    limit,              \* MaxRequestInFlight
    pc,                 \* where the request is
    inFlight,           \* requests with a place in inFlightSem
    pool,               \* writers in the sync.Pool
    writerOf,           \* the writer a request took from it
    target,             \* the response a writer was reset for
    buffer,             \* what the writer keeps
    closed,             \* writers whose Close has begun since
    written,            \* what the handlers of a request wrote
    response,           \* what the client gets, decompressed
    ended               \* compressed responses with their last block

writerVars == <<target, buffer, closed>>
clientVars == <<written, response, ended>>
vars == <<limit, pc, inFlight, pool, writerOf, writerVars, clientVars>>

Init ==
    /\ limit \in Limits
    /\ pc = [r \in Request |-> "new"]
    /\ inFlight = {}
    /\ pool = {}
    /\ writerOf = [r \in Request |-> None]
    /\ target = [w \in Writer |-> None]
    /\ buffer = [w \in Writer |-> <<>>]
    /\ closed = {}
    /\ written = [r \in Request |-> <<>>]
    /\ response = [r \in Request |-> <<>>]
    /\ ended = {}

Goto(r, label) == pc' = [pc EXCEPT ![r] = label]

--------------------------------------------------------------------------------
(* newLimitRequestInFlightMW.                                                *)

(* Mutant: one place too many. *)
HasPlace_OneMore == limit = 0 \/ Cardinality(inFlight) <= limit

HasPlace == limit = 0 \/ Cardinality(inFlight) < limit

Enter(r) ==
    /\ pc[r] = "new"
    /\ HasPlace
    /\ inFlight' = IF limit = 0 THEN inFlight ELSE inFlight \cup {r}
    /\ Goto(r, IF r \in Compressed THEN "get" ELSE "serve")
    /\ UNCHANGED <<limit, pool, writerOf, writerVars, clientVars>>

(* Status 429: the request never waits for a place. *)
TooManyRequests(r) ==
    /\ pc[r] = "new"
    /\ ~HasPlace
    /\ Goto(r, "refused")
    /\ UNCHANGED <<limit, inFlight, pool, writerOf, writerVars, clientVars>>

Leave(r) ==
    /\ pc[r] = "leave"
    /\ inFlight' = inFlight \ {r}
    /\ Goto(r, "done")
    /\ UNCHANGED <<limit, pool, writerOf, writerVars, clientVars>>

--------------------------------------------------------------------------------
(* The compression.                                                          *)

(* A writer nobody ever used, for sync.Pool.New. *)
Fresh(w) == target[w] = None

(* A request is in the middle of closing the writer. *)
InClose(w) == \E q \in Request : pc[q] = "closing" /\ writerOf[q] = w

(* Mutant: the writer stays in the pool. *)
GetWriter_Keep(r) ==
    /\ pc[r] = "get"
    /\ \E w \in Writer :
         /\ w \in pool \/ Fresh(w)
         /\ pool' = pool \cup {w}
         /\ writerOf' = [writerOf EXCEPT ![r] = w]
         /\ target' = [target EXCEPT ![w] = r]
         /\ buffer' = [buffer EXCEPT ![w] = <<>>]
         /\ closed' = closed \ {w}
    /\ Goto(r, "serve")
    /\ UNCHANGED <<limit, inFlight, clientVars>>

(* sync.Pool may make a new writer though it has one.  The reset drops what  *)
(* the writer kept, but a Close that is writing it out may go on.            *)
GetWriter(r) ==
    /\ pc[r] = "get"
    /\ \E w \in Writer :
         /\ w \in pool \/ Fresh(w)
         /\ pool' = pool \ {w}
         /\ writerOf' = [writerOf EXCEPT ![r] = w]
         /\ target' = [target EXCEPT ![w] = r]
         /\ \/ buffer' = [buffer EXCEPT ![w] = <<>>]
            \/ InClose(w) /\ UNCHANGED buffer
         /\ closed' = closed \ {w}
    /\ Goto(r, "serve")
    /\ UNCHANGED <<limit, inFlight, clientVars>>

PutWriter(r) ==
    /\ pc[r] = "put"
    /\ pool' = pool \cup {writerOf[r]}
    /\ Goto(r, "close")
    /\ UNCHANGED <<limit, inFlight, writerOf, writerVars, clientVars>>

(* The deferred Close: whatever the response of the writer is now, it is     *)
(* closed once.                                                              *)
BeginClose(r) ==
    /\ pc[r] = "close"
    /\ IF writerOf[r] \in closed
       THEN Goto(r, "leave") /\ UNCHANGED closed
       ELSE Goto(r, "closing") /\ closed' = closed \cup {writerOf[r]}
    /\ UNCHANGED <<limit, inFlight, pool, writerOf, target, buffer, clientVars>>

(* What was kept goes out bit by bit.  A response that is done takes nothing. *)
FlushWriter(r) ==
    LET w == writerOf[r]
        t == target[w] IN
    /\ pc[r] = "closing" /\ buffer[w] # <<>>
    /\ buffer' = [buffer EXCEPT ![w] = Tail(@)]
    /\ response' = IF pc[t] = "done" THEN response
                   ELSE [response EXCEPT ![t] = Append(@, Head(buffer[w]))]
    /\ UNCHANGED <<limit, pc, inFlight, pool, writerOf, target, closed, written, ended>>

(* The last block, after which the writer takes no more: a writer that was   *)
(* reset in the meantime may end up closed.                                  *)
EndClose(r) ==
    LET w == writerOf[r] IN
    /\ pc[r] = "closing" /\ buffer[w] = <<>>
    /\ ended' = ended \cup {target[w]}
    /\ closed' \in {closed, closed \cup {w}}
    /\ Goto(r, "leave")
    /\ UNCHANGED <<limit, inFlight, pool, writerOf, target, buffer, written, response>>

--------------------------------------------------------------------------------
(* The handlers inside.                                                      *)

Chunk(r) == <<r, Len(written[r]) + 1>>

(* A closed writer returns an error, which is counted and no more; one that  *)
(* is being closed may still take the text.                                  *)
Send(r) ==
    LET w == writerOf[r]
        kept == [buffer EXCEPT ![w] = Append(@, Chunk(r))] IN
    /\ written' = [written EXCEPT ![r] = Append(@, Chunk(r))]
    /\ IF r \in Compressed
       THEN /\ \/ (w \notin closed \/ InClose(w)) /\ buffer' = kept
               \/ (w \in closed \/ InClose(w)) /\ UNCHANGED buffer
            /\ UNCHANGED response
       ELSE /\ response' = [response EXCEPT ![r] = Append(@, Chunk(r))]
            /\ UNCHANGED buffer
    /\ UNCHANGED <<limit, inFlight, pool, writerOf, target, closed, ended>>

Write(r) ==
    /\ pc[r] = "serve" /\ Len(written[r]) < MaxChunks
    /\ Send(r)
    /\ UNCHANGED pc

AfterServe(r) == IF r \in Compressed THEN "put" ELSE "leave"

Return(r) ==
    /\ pc[r] = "serve"
    /\ Goto(r, AfterServe(r))
    /\ UNCHANGED <<limit, inFlight, pool, writerOf, writerVars, clientVars>>

(* The recovery is the innermost handler, so its answer is compressed too.   *)
Recover(r) ==
    /\ pc[r] = "serve"
    /\ Send(r)
    /\ Goto(r, AfterServe(r))

--------------------------------------------------------------------------------

Step(r) ==
    \/ Enter(r) \/ TooManyRequests(r)
    \/ GetWriter(r) \/ Return(r) \/ Recover(r)
    \/ PutWriter(r) \/ Leave(r)
    \/ BeginClose(r) \/ FlushWriter(r) \/ EndClose(r)

Next == \E r \in Request : Step(r) \/ Write(r)

Spec == Init /\ [][Next]_vars

--------------------------------------------------------------------------------

(* A client may get the text of another request: that of one which used the  *)
(* same writer before and whose handler has returned, and never of one that  *)
(* still writes or that came later, so that two clients never get the text   *)
(* of each other.                                                            *)
HasTextOf(r, q) == \E i \in DOMAIN response[r] : response[r][i][1] = q

ForeignTextIsOld ==
    \A r, q \in Request : r # q /\ HasTextOf(r, q) =>
        /\ pc[q] \in {"close", "closing", "leave", "done"}
        /\ writerOf[q] = writerOf[r]
        /\ ~ HasTextOf(q, r)

(* An admitted request got all that its handler and the recovery wrote.      *)
Complete(r) ==
    /\ response[r] = written[r]
    /\ r \in Compressed => r \in ended

(* One request at a time: the writer that is put back too early never        *)
(* matters, and every response is its own and complete.                      *)
OneAtATimeIsComplete ==
    limit = 1 => \A r \in Request :
        /\ IsPrefix(response[r], written[r])
        /\ pc[r] = "done" => Complete(r)

--------------------------------------------------------------------------------
(* What the documentation says and the code does not do.                     *)

(* Changelog:9, "compress with gzip responses from /query". *)
EachResponseComplete == \A r \in Request : pc[r] = "done" => Complete(r)
================================================================================
