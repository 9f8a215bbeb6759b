----------------------------- MODULE MiddlewareProofs -----------------------------
(***************************************************************************)
(* Theorems about Middleware.tla for any requests, writers and limits: what *)
(* text a client may get of another request, though a writer is back in    *)
(* the pool, and may be with the next request, before and while it is      *)
(* closed; and that one request at a time gets all of its own.             *)
(***************************************************************************)
EXTENDS Middleware, FiniteSetTheorems, TLAPS

--------------------------------------------------------------------------------
(* The inductive invariant.                                                  *)

Chunks == Seq(Request \X Nat)

Returned == {"close", "closing", "leave", "done"}

Location == {"new", "refused", "get", "serve", "put"} \cup Returned

TypeOK ==
    /\ limit \in Nat
    /\ pc \in [Request -> Location]
    /\ pool \subseteq Writer /\ closed \subseteq Writer
    /\ writerOf \in [Request -> Writer \cup {None}]
    /\ target \in [Writer -> Request \cup {None}]
    /\ buffer \in [Writer -> Chunks]
    /\ written \in [Request -> Chunks] /\ response \in [Request -> Chunks]

(* A request has a writer from GetWriter on. *)
HasWriter(r) == r \in Compressed /\ pc[r] \in {"serve", "put"} \cup Returned

WriterIsReset(r) ==
    /\ pc[r] \in {"get", "put", "close", "closing"} => r \in Compressed
    /\ HasWriter(r) => writerOf[r] \in Writer /\ target[writerOf[r]] # None

(* Until PutWriter nobody else gets it. *)
OwnsWriter(r) ==
    r \in Compressed /\ pc[r] \in {"serve", "put"} =>
        writerOf[r] \notin pool /\ target[writerOf[r]] = r

(* The response a writer was reset for is that of a request which took it.   *)
TargetHasWriter(w) ==
    target[w] # None => HasWriter(target[w]) /\ writerOf[target[w]] = w

(* The text of a request may be in a writer it took; it still writes only if *)
(* it was the last to take it.                                               *)
WroteTo(q, w) ==
    /\ HasWriter(q) /\ writerOf[q] = w
    /\ q # target[w] => pc[q] \in Returned

BufferText(w) == \A i \in DOMAIN buffer[w] : WroteTo(buffer[w][i][1], w)

(* A request whose text went to another client had its writer before that,   *)
(* and will not have it again.                                               *)
ForeignText(r, q) ==
    r # q /\ HasTextOf(r, q) =>
        /\ HasWriter(q) /\ pc[q] \in Returned
        /\ writerOf[q] = writerOf[r] /\ HasWriter(r)
        /\ target[writerOf[q]] # q
        /\ ~ HasTextOf(q, r)

TextInductive ==
    /\ TypeOK
    /\ \A r \in Request : WriterIsReset(r)
    /\ \A r \in Request : OwnsWriter(r)
    /\ \A w \in Writer : TargetHasWriter(w)
    /\ \A w \in Writer : BufferText(w)
    /\ \A r, q \in Request : ForeignText(r, q)

--------------------------------------------------------------------------------
(* Steps, for the text of others.                                            *)

(* Nothing moves between writers and responses. *)
LEMMA TextsStay ==
    ASSUME TextInductive, UNCHANGED <<writerOf, target, buffer, response>>,
           pc' \in [Request -> Location],
           \A q \in Request : HasWriter(q) => HasWriter(q)',
           \A q \in Request : pc[q] \in Returned => pc'[q] \in Returned
    PROVE  /\ \A w \in Writer : TargetHasWriter(w)'
           /\ \A w \in Writer : BufferText(w)'
           /\ \A r, q \in Request : ForeignText(r, q)'
  <1>1. \A w \in Writer : TargetHasWriter(w)'
    BY DEF TextInductive, TypeOK, TargetHasWriter
  <1>2. ASSUME NEW w \in Writer, NEW i \in DOMAIN buffer[w]
        PROVE  buffer[w][i][1] \in Request
    BY <1>2 DEF TextInductive, TypeOK, Chunks
  <1>3. \A w \in Writer : BufferText(w)'
    BY <1>2 DEF TextInductive, BufferText, WroteTo
  <1>4. \A r, q \in Request : HasTextOf(r, q)' <=> HasTextOf(r, q)
    BY DEF HasTextOf
  <1>5. \A r, q \in Request : ForeignText(r, q)'
    BY <1>4 DEF TextInductive, ForeignText
  <1> QED
    BY <1>1, <1>3, <1>5

(* Only the place of the request changes, and not where it has a writer. *)
LEMMA OnlyPlaces ==
    ASSUME TextInductive, NEW r \in Request, NEW label \in Location, Goto(r, label),
           UNCHANGED <<limit, writerOf, target, buffer, written, response>>,
           closed' \subseteq Writer,
           pool' = pool \/ (label = "close" /\ pool' = pool \cup {writerOf[r]}),
           label = "serve" => r \notin Compressed,
           label = "put" => pc[r] = "serve",
           label = "close" => pc[r] = "put",
           pc[r] \in Returned => label \in Returned,
           label \in {"get", "put", "close", "closing"} => r \in Compressed,
           r \in Compressed =>
               (label \in {"serve", "put"} \cup Returned <=>
                pc[r] \in {"serve", "put"} \cup Returned)
    PROVE  TextInductive'
  <1>1. pc' = [pc EXCEPT ![r] = label] /\ pc \in [Request -> Location]
    BY DEF Goto, TextInductive, TypeOK
  <1>2. /\ pc'[r] = label /\ pc' \in [Request -> Location]
        /\ \A q \in Request : q # r => pc'[q] = pc[q]
    BY <1>1
  <1>3. \A q \in Request : HasWriter(q)' <=> HasWriter(q)
    BY <1>2 DEF HasWriter
  <1>4. TypeOK'
    <2>1. label = "close" => writerOf[r] \in Writer
      BY DEF TextInductive, WriterIsReset, HasWriter, Returned
    <2> QED
      BY <1>2, <2>1 DEF TextInductive, TypeOK
  <1>5. \A q \in Request : WriterIsReset(q)'
    BY <1>2, <1>3 DEF TextInductive, WriterIsReset
  <1>6. \A q \in Request : OwnsWriter(q)'
    <2>1. ASSUME NEW q \in Request, q # r, q \in Compressed, pc[q] \in {"serve", "put"},
                 label = "close"
          PROVE  writerOf[q] # writerOf[r]
      <3>1. target[writerOf[q]] = q
        BY <2>1 DEF TextInductive, OwnsWriter
      <3>2. target[writerOf[r]] = r
        BY <2>1 DEF TextInductive, OwnsWriter
      <3> QED
        BY <2>1, <3>1, <3>2
    <2> QED
      BY <1>2, <2>1 DEF TextInductive, OwnsWriter, Returned
  <1>7. \A q \in Request : pc[q] \in Returned => pc'[q] \in Returned
    BY <1>2
  <1> QED
    BY <1>2, <1>3, <1>4, <1>5, <1>6, <1>7, TextsStay DEF TextInductive

(* The writer was in the pool, or new: whoever used it has returned. *)
LEMMA GetWriterTexts ==
    ASSUME TextInductive, NEW r \in Request, GetWriter(r)
    PROVE  TextInductive'
  <1>1. PICK w \in Writer :
          /\ pc[r] = "get" /\ r \in Compressed
          /\ w \in pool \/ target[w] = None
          /\ pool' = pool \ {w}
          /\ writerOf' = [writerOf EXCEPT ![r] = w]
          /\ target' = [target EXCEPT ![w] = r]
          /\ buffer' = [buffer EXCEPT ![w] = <<>>] \/ buffer' = buffer
          /\ closed' = closed \ {w}
          /\ pc' = [pc EXCEPT ![r] = "serve"]
          /\ UNCHANGED <<limit, written, response>>
    BY DEF GetWriter, Fresh, Goto, clientVars, TextInductive, WriterIsReset
  <1> USE MiddlewareAssumption
  <1>2. TypeOK'
    <2>1. /\ pc' \in [Request -> Location]
          /\ writerOf' \in [Request -> Writer \cup {None}]
          /\ target' \in [Writer -> Request \cup {None}]
      BY <1>1 DEF TextInductive, TypeOK, Location
    <2>2. <<>> \in Chunks
      BY DEF Chunks
    <2>3. buffer' \in [Writer -> Chunks]
      BY <1>1, <2>2 DEF TextInductive, TypeOK
    <2> QED
      BY <1>1, <2>1, <2>3 DEF TextInductive, TypeOK
  <1>3. /\ pc'[r] = "serve" /\ writerOf'[r] = w /\ target'[w] = r
        /\ \A q \in Request : q # r => pc'[q] = pc[q] /\ writerOf'[q] = writerOf[q]
        /\ \A v \in Writer : v # w => target'[v] = target[v] /\ buffer'[v] = buffer[v]
        /\ buffer'[w] = <<>> \/ buffer'[w] = buffer[w]
    BY <1>1 DEF TextInductive, TypeOK
  <1>4. /\ HasWriter(r)' /\ ~ HasWriter(r) /\ pc[r] \notin Returned
        /\ \A q \in Request : q # r => (HasWriter(q)' <=> HasWriter(q))
    BY <1>1, <1>3 DEF HasWriter, Returned
  <1>5. \A q \in Request : WriterIsReset(q)'
    BY <1>1, <1>3, <1>4 DEF TextInductive, WriterIsReset, TypeOK, Returned
  <1>6. ASSUME NEW q \in Request, HasWriter(q), writerOf[q] = w
        PROVE  pc[q] \in Returned \/ target[w] # q
    BY <1>1, <1>6 DEF TextInductive, WriterIsReset, OwnsWriter, HasWriter
  <1>7. \A q \in Request : OwnsWriter(q)'
    <2>1. ASSUME NEW q \in Request, q # r, q \in Compressed, pc[q] \in {"serve", "put"}
          PROVE  writerOf[q] \in Writer /\ writerOf[q] # w
      BY <1>1, <2>1 DEF TextInductive, WriterIsReset, HasWriter, OwnsWriter
    <2> QED
      BY <1>1, <1>3, <2>1 DEF TextInductive, OwnsWriter
  <1>8. \A v \in Writer : TargetHasWriter(v)'
    <2>1. ASSUME NEW v \in Writer, v # w, target[v] # None
          PROVE  target[v] \in Request /\ target[v] # r
      BY <1>4, <2>1 DEF TextInductive, TypeOK, TargetHasWriter
    <2> QED
      BY <1>3, <1>4, <2>1 DEF TextInductive, TargetHasWriter
  <1>9. \A v \in Writer : BufferText(v)'
    <2>1. ASSUME NEW v \in Writer, NEW q \in Request, WroteTo(q, v)
          PROVE  WroteTo(q, v)'
      <3>1. q # r /\ pc'[q] = pc[q]
        BY <1>3, <1>4, <2>1 DEF WroteTo
      <3>2. q # target'[v] => pc[q] \in Returned
        BY <1>3, <1>6, <2>1 DEF WroteTo
      <3> QED
        BY <1>3, <1>4, <2>1, <3>1, <3>2 DEF WroteTo
    <2>2. ASSUME NEW v \in Writer, buffer'[v] = buffer[v]
          PROVE  BufferText(v)'
      <3>1. \A i \in DOMAIN buffer[v] : buffer[v][i][1] \in Request
        BY DEF TextInductive, TypeOK, Chunks
      <3>2. BufferText(v)
        BY DEF TextInductive
      <3> QED
        BY <2>1, <2>2, <3>1, <3>2 DEF BufferText, WroteTo
    <2>3. ASSUME NEW v \in Writer, buffer'[v] = <<>>
          PROVE  BufferText(v)'
      BY <2>3 DEF BufferText
    <2> QED
      BY <1>3, <2>2, <2>3
  <1>10. \A p, q \in Request : ForeignText(p, q)'
    <2>1. ASSUME NEW p \in Request, NEW q \in Request, p # q, HasTextOf(p, q)
          PROVE  /\ HasWriter(q) /\ pc[q] \in Returned
                 /\ writerOf[q] = writerOf[p] /\ HasWriter(p)
                 /\ target[writerOf[q]] # q /\ writerOf[q] \in Writer
                 /\ ~ HasTextOf(q, p)
      BY <2>1 DEF TextInductive, ForeignText, WriterIsReset
    <2>2. \A p, q \in Request : HasTextOf(p, q)' <=> HasTextOf(p, q)
      BY <1>1 DEF HasTextOf
    <2> QED
      BY <1>3, <1>4, <2>1, <2>2 DEF ForeignText
  <1> QED
    BY <1>2, <1>5, <1>7, <1>8, <1>9, <1>10 DEF TextInductive

(* Close writes to the response the writer has now. *)
LEMMA FlushTexts ==
    ASSUME TextInductive, NEW r \in Request, FlushWriter(r)
    PROVE  TextInductive'
  <1> DEFINE w == writerOf[r]
             t == target[w]
             chunk == buffer[w][1]
  <1>1. /\ pc[r] = "closing" /\ buffer[w] # <<>>
        /\ buffer' = [buffer EXCEPT ![w] = Tail(@)]
        /\ UNCHANGED <<limit, pc, pool, writerOf, target, closed, written>>
    BY DEF FlushWriter
  <1>2. /\ HasWriter(r) /\ w \in Writer /\ t \in Request /\ HasWriter(t) /\ writerOf[t] = w
    BY <1>1 DEF TextInductive, WriterIsReset, HasWriter, Returned, TypeOK, TargetHasWriter
  <1>3. /\ buffer[w] \in Chunks /\ Len(buffer[w]) \in Nat \ {0}
        /\ 1 \in DOMAIN buffer[w] /\ chunk \in Request \X Nat
        /\ Head(buffer[w]) = chunk
    BY <1>1, <1>2 DEF TextInductive, TypeOK, Chunks
  <1>4. /\ HasWriter(chunk[1]) /\ writerOf[chunk[1]] = w /\ chunk[1] \in Request
        /\ chunk[1] # t => pc[chunk[1]] \in Returned
    BY <1>2, <1>3 DEF TextInductive, BufferText, WroteTo
  <1>5. response' = response \/ response' = [response EXCEPT ![t] = Append(@, chunk)]
    BY <1>3 DEF FlushWriter
  <1>6. /\ Tail(buffer[w]) \in Chunks
        /\ \A i \in DOMAIN Tail(buffer[w]) :
             i + 1 \in DOMAIN buffer[w] /\ Tail(buffer[w])[i] = buffer[w][i + 1]
    BY <1>3 DEF Chunks
  <1>7. TypeOK'
    <2>1. response' \in [Request -> Chunks]
      <3>1. response \in [Request -> Chunks] /\ Append(response[t], chunk) \in Chunks
        BY <1>2, <1>3 DEF TextInductive, TypeOK, Chunks
      <3> QED
        BY <1>5, <3>1
    <2>2. buffer' \in [Writer -> Chunks]
      BY <1>1, <1>6 DEF TextInductive, TypeOK
    <2> QED
      BY <1>1, <2>1, <2>2 DEF TextInductive, TypeOK
  <1>8. \A q \in Request : WriterIsReset(q)' /\ OwnsWriter(q)'
    BY <1>1 DEF TextInductive, WriterIsReset, OwnsWriter, HasWriter
  <1>9. \A v \in Writer : TargetHasWriter(v)'
    BY <1>1 DEF TextInductive, TargetHasWriter, HasWriter
  <1>10. \A v \in Writer : BufferText(v)'
    <2>1. buffer'[w] = Tail(buffer[w]) /\ \A v \in Writer : v # w => buffer'[v] = buffer[v]
      BY <1>1, <1>2 DEF TextInductive, TypeOK
    <2>2. \A v \in Writer : BufferText(v)
      BY DEF TextInductive
    <2>3. ASSUME NEW q \in Request, NEW v \in Writer, WroteTo(q, v)
          PROVE  WroteTo(q, v)'
      BY <1>1, <2>3 DEF WroteTo, HasWriter
    <2>4. ASSUME NEW i \in DOMAIN Tail(buffer[w])
          PROVE  /\ Tail(buffer[w])[i][1] \in Request
                 /\ WroteTo(Tail(buffer[w])[i][1], w)
      <3>1. i + 1 \in DOMAIN buffer[w] /\ Tail(buffer[w])[i] = buffer[w][i + 1]
        BY <1>6
      <3>2. BufferText(w) /\ buffer[w][i + 1] \in Request \X Nat
        BY <1>2, <1>3, <2>2, <3>1 DEF Chunks
      <3> QED
        BY <3>1, <3>2 DEF BufferText
    <2>5. ASSUME NEW v \in Writer, v # w, NEW i \in DOMAIN buffer[v]
          PROVE  buffer[v][i][1] \in Request /\ WroteTo(buffer[v][i][1], v)
      BY <2>2, <2>5 DEF BufferText, TextInductive, TypeOK, Chunks
    <2>6. ASSUME NEW v \in Writer, NEW i \in DOMAIN buffer'[v]
          PROVE  buffer'[v][i][1] \in Request /\ WroteTo(buffer'[v][i][1], v)
      BY <1>2, <2>1, <2>4, <2>5, <2>6
    <2> HIDE DEF w, t, chunk
    <2> QED
      BY <1>1, <2>3, <2>6 DEF BufferText, WroteTo, HasWriter
  <1>11. ASSUME NEW p \in Request, NEW q \in Request, HasTextOf(p, q)'
         PROVE  HasTextOf(p, q) \/ (p = t /\ q = chunk[1])
    <2>1. CASE response' = response
      BY <1>11, <2>1 DEF HasTextOf
    <2>2. CASE response' = [response EXCEPT ![t] = Append(@, chunk)]
      <3>1. response[t] \in Seq(Request \X Nat)
        BY <1>2 DEF TextInductive, TypeOK, Chunks
      <3>2. CASE p = t
        <4>1. response'[p] = Append(response[t], chunk)
          BY <1>2, <2>2, <3>2 DEF TextInductive, TypeOK
        <4>2. \A i \in DOMAIN Append(response[t], chunk) :
                \/ i \in DOMAIN response[t] /\ Append(response[t], chunk)[i] = response[t][i]
                \/ Append(response[t], chunk)[i] = chunk
          BY <1>3, <3>1
        <4> QED
          BY <1>11, <3>2, <4>1, <4>2 DEF HasTextOf
      <3>3. CASE p # t
        <4>1. response'[p] = response[p]
          BY <2>2, <3>3 DEF TextInductive, TypeOK
        <4> QED
          BY <1>11, <4>1 DEF HasTextOf
      <3> QED
        BY <3>2, <3>3
    <2> QED
      BY <1>5, <2>1, <2>2
  <1>12. \A p, q \in Request : ForeignText(p, q)'
    <2>1. ASSUME NEW p \in Request, NEW q \in Request, p # q, HasTextOf(p, q)'
          PROVE  /\ HasWriter(q) /\ pc[q] \in Returned
                 /\ writerOf[q] = writerOf[p] /\ HasWriter(p)
                 /\ target[writerOf[q]] # q
      BY <1>2, <1>4, <1>11, <2>1 DEF TextInductive, ForeignText
    <2>2. ASSUME NEW p \in Request, NEW q \in Request, p # q,
                 HasTextOf(p, q)', HasTextOf(q, p)'
          PROVE  FALSE
      <3>1. target[writerOf[q]] # q /\ target[writerOf[p]] # p
        BY <2>1, <2>2
      <3>2. HasTextOf(p, q) /\ HasTextOf(q, p)
        BY <1>2, <1>11, <2>2, <3>1
      <3> QED
        BY <2>2, <3>2 DEF TextInductive, ForeignText
    <2> QED
      BY <1>1, <2>1, <2>2 DEF ForeignText, HasWriter
  <1> QED
    BY <1>7, <1>8, <1>9, <1>10, <1>12 DEF TextInductive

(* A request writes to its own writer, or to its own response. *)
LEMMA SendTexts ==
    ASSUME TextInductive, NEW r \in Request, Send(r), pc[r] = "serve",
           pc' = pc \/ Goto(r, AfterServe(r))
    PROVE  TextInductive'
  <1> DEFINE w == writerOf[r]
             chunk == <<r, Len(written[r]) + 1>>
  <1>1. /\ written' = [written EXCEPT ![r] = Append(@, chunk)]
        /\ UNCHANGED <<limit, pool, writerOf, target, closed>>
        /\ \/ /\ r \in Compressed /\ response' = response
              /\ buffer' = buffer \/ buffer' = [buffer EXCEPT ![w] = Append(@, chunk)]
           \/ /\ r \notin Compressed /\ buffer' = buffer
              /\ response' = [response EXCEPT ![r] = Append(@, chunk)]
    BY DEF Send, Chunk
  <1>2. /\ pc' \in [Request -> Location] /\ pc'[r] \in {"serve", "put", "leave"}
        /\ r \in Compressed => pc'[r] \in {"serve", "put"}
        /\ r \notin Compressed => pc'[r] \in {"serve", "leave"}
        /\ \A q \in Request : q # r => pc'[q] = pc[q]
    BY DEF Goto, AfterServe, TextInductive, TypeOK, Location, Returned
  <1>3. \A q \in Request : HasWriter(q)' <=> HasWriter(q)
    BY <1>2 DEF HasWriter
  <1>4. \A q \in Request : pc[q] \in Returned => pc'[q] \in Returned
    BY <1>2 DEF Returned
  <1>5. r \in Compressed => w \in Writer /\ target[w] = r /\ HasWriter(r)
    BY DEF TextInductive, WriterIsReset, OwnsWriter, HasWriter
  <1>6. chunk \in Request \X Nat
    BY DEF TextInductive, TypeOK, Chunks
  <1>7. TypeOK'
    <2>1. \A s \in Chunks : Append(s, chunk) \in Chunks
      BY <1>6 DEF Chunks
    <2>2. written' \in [Request -> Chunks]
      BY <1>1, <2>1 DEF TextInductive, TypeOK
    <2>3. response' \in [Request -> Chunks]
      BY <1>1, <2>1 DEF TextInductive, TypeOK
    <2>4. buffer' \in [Writer -> Chunks]
      <3>1. buffer \in [Writer -> Chunks]
        BY DEF TextInductive, TypeOK
      <3>2. CASE buffer' = buffer
        BY <3>1, <3>2
      <3>3. CASE r \in Compressed /\ buffer' = [buffer EXCEPT ![w] = Append(@, chunk)]
        BY <1>5, <2>1, <3>1, <3>3
      <3> QED
        BY <1>1, <3>2, <3>3
    <2> QED
      BY <1>1, <1>2, <2>2, <2>3, <2>4 DEF TextInductive, TypeOK
  <1>8. \A q \in Request : WriterIsReset(q)' /\ OwnsWriter(q)'
    BY <1>1, <1>2, <1>3 DEF TextInductive, WriterIsReset, OwnsWriter
  <1>9. \A v \in Writer : TargetHasWriter(v)'
    BY <1>1, <1>3 DEF TextInductive, TypeOK, TargetHasWriter
  <1>10. ASSUME NEW v \in Writer, NEW i \in DOMAIN buffer'[v]
         PROVE  \/ i \in DOMAIN buffer[v] /\ buffer'[v][i] = buffer[v][i]
                \/ r \in Compressed /\ v = w /\ buffer'[v][i] = chunk
    <2>1. CASE buffer'[v] = buffer[v]
      BY <1>10, <2>1
    <2>2. CASE r \in Compressed /\ v = w /\ buffer'[v] = Append(buffer[v], chunk)
      <3>1. buffer[v] \in Seq(Request \X Nat)
        BY DEF TextInductive, TypeOK, Chunks
      <3> QED
        BY <1>6, <1>10, <2>2, <3>1
    <2> QED
      BY <1>1, <1>5, <2>1, <2>2 DEF TextInductive, TypeOK
  <1>11. \A v \in Writer : BufferText(v)'
    <2>1. ASSUME NEW q \in Request, NEW v \in Writer, WroteTo(q, v)
          PROVE  WroteTo(q, v)'
      BY <1>1, <1>3, <1>4, <2>1 DEF WroteTo
    <2>2. ASSUME NEW v \in Writer, NEW i \in DOMAIN buffer[v]
          PROVE  buffer[v][i][1] \in Request /\ WroteTo(buffer[v][i][1], v)
      BY <2>2 DEF TextInductive, TypeOK, Chunks, BufferText
    <2>3. r \in Compressed => WroteTo(r, w)
      BY <1>5 DEF WroteTo
    <2>4. ASSUME NEW v \in Writer, NEW i \in DOMAIN buffer'[v]
          PROVE  buffer'[v][i][1] \in Request /\ WroteTo(buffer'[v][i][1], v)
      BY <1>10, <2>2, <2>3, <2>4
    <2> HIDE DEF w, chunk
    <2> QED
      BY <1>1, <2>1, <2>4 DEF BufferText, WroteTo, HasWriter
  <1>12. ASSUME NEW p \in Request, NEW q \in Request, HasTextOf(p, q)', p # q
         PROVE  HasTextOf(p, q)
    <2>1. CASE response'[p] = response[p]
      BY <1>12, <2>1 DEF HasTextOf
    <2>2. CASE p = r /\ response'[p] = Append(response[p], chunk)
      <3>1. response[p] \in Seq(Request \X Nat)
        BY DEF TextInductive, TypeOK, Chunks
      <3>2. \A i \in DOMAIN Append(response[p], chunk) :
              \/ i \in DOMAIN response[p] /\ Append(response[p], chunk)[i] = response[p][i]
              \/ Append(response[p], chunk)[i] = chunk
        BY <1>6, <3>1
      <3>3. chunk[1] = r
        OBVIOUS
      <3> QED
        BY <1>12, <2>2, <3>2, <3>3 DEF HasTextOf
    <2> QED
      BY <1>1, <2>1, <2>2 DEF TextInductive, TypeOK
  <1>13. \A p, q \in Request : ForeignText(p, q)'
    BY <1>1, <1>3, <1>4, <1>12 DEF TextInductive, ForeignText
  <1> QED
    BY <1>7, <1>8, <1>9, <1>11, <1>13 DEF TextInductive

LEMMA TextInit == Init => TextInductive
  <1> SUFFICES ASSUME Init PROVE TextInductive
    OBVIOUS
  <1> USE MiddlewareAssumption
  <1>1. TypeOK
    <2>1. <<>> \in Chunks
      BY DEF Chunks
    <2> QED
      BY <2>1 DEF Init, TypeOK, Location
  <1>2. \A r \in Request : WriterIsReset(r) /\ OwnsWriter(r)
    BY DEF Init, WriterIsReset, OwnsWriter, HasWriter, Returned
  <1>3. \A w \in Writer : TargetHasWriter(w) /\ BufferText(w)
    BY DEF Init, TargetHasWriter, BufferText
  <1>4. \A r, q \in Request : ForeignText(r, q)
    BY DEF Init, ForeignText, HasTextOf
  <1> QED
    BY <1>1, <1>2, <1>3, <1>4 DEF TextInductive

LEMMA TextKeeps == TextInductive /\ [Next]_vars => TextInductive'
  <1> SUFFICES ASSUME TextInductive, [Next]_vars PROVE TextInductive'
    OBVIOUS
  <1>1. CASE UNCHANGED vars
    BY <1>1 DEF vars, writerVars, clientVars, TextInductive, TypeOK, WriterIsReset,
        OwnsWriter, TargetHasWriter, BufferText, WroteTo, ForeignText, HasTextOf,
        HasWriter
  <1>2. CASE Next
    <2> PICK r \in Request : Step(r) \/ Write(r)
      BY <1>2 DEF Next
    <2> USE DEF TextInductive, TypeOK
    <2>1. CASE Enter(r)
      BY <2>1, OnlyPlaces DEF Enter, writerVars, clientVars, Location, Returned
    <2>2. CASE TooManyRequests(r)
      BY <2>2, OnlyPlaces DEF TooManyRequests, writerVars, clientVars, Location, Returned
    <2>3. CASE GetWriter(r)
      BY <2>3, GetWriterTexts
    <2>4. CASE Return(r)
      BY <2>4, OnlyPlaces DEF Return, AfterServe, writerVars, clientVars, Location, Returned
    <2>5. CASE Recover(r)
      BY <2>5, SendTexts DEF Recover
    <2>6. CASE PutWriter(r)
      BY <2>6, OnlyPlaces DEF PutWriter, WriterIsReset, writerVars, clientVars, Location, Returned
    <2>7. CASE Leave(r)
      BY <2>7, OnlyPlaces DEF Leave, writerVars, clientVars, Location, Returned
    <2>8. CASE BeginClose(r)
      <3>1. r \in Compressed /\ writerOf[r] \in Writer
        BY <2>8 DEF BeginClose, WriterIsReset, HasWriter, Returned
      <3> QED
        BY <2>8, <3>1, OnlyPlaces DEF BeginClose, clientVars, Location, Returned
    <2>9. CASE FlushWriter(r)
      BY <2>9, FlushTexts
    <2>10. CASE EndClose(r)
      <3>1. r \in Compressed /\ writerOf[r] \in Writer
        BY <2>10 DEF EndClose, WriterIsReset, HasWriter, Returned
      <3> QED
        BY <2>10, <3>1, OnlyPlaces DEF EndClose, Location, Returned
    <2>11. CASE Write(r)
      BY <2>11, SendTexts DEF Write
    <2> QED
      BY <2>1, <2>2, <2>3, <2>4, <2>5, <2>6, <2>7, <2>8, <2>9, <2>10, <2>11 DEF Step
  <1> QED
    BY <1>1, <1>2

(* A client never gets text of a request that still writes, or of one that   *)
(* had its writer later (mw.go:182-200).                                     *)
THEOREM MiddlewareText == Spec => []ForeignTextIsOld
  <1>1. TextInductive => ForeignTextIsOld
    BY DEF TextInductive, ForeignText, ForeignTextIsOld, Returned
  <1> QED
    BY <1>1, TextInit, TextKeeps, PTL DEF Spec

--------------------------------------------------------------------------------
(* One request at a time.                                                    *)

Inside(r) == pc[r] \notin {"new", "refused", "done"}

Places ==
    /\ inFlight \subseteq Request /\ IsFiniteSet(inFlight)
    /\ limit # 0 => Cardinality(inFlight) <= limit
    /\ limit # 0 => \A r \in Request : Inside(r) => r \in inFlight

(* The text of a request, all the way through its writer. *)
WholeText(r) ==
    /\ pc[r] \in {"new", "refused", "get"} => written[r] = <<>> /\ response[r] = <<>>
    /\ r \notin Compressed => response[r] = written[r]
    /\ r \in Compressed /\ pc[r] \in {"serve", "put", "close"} =>
         /\ target[writerOf[r]] = r /\ writerOf[r] \notin closed
         /\ response[r] = <<>> /\ buffer[writerOf[r]] = written[r]
    /\ r \in Compressed /\ pc[r] = "closing" =>
         /\ target[writerOf[r]] = r
         /\ response[r] \o buffer[writerOf[r]] = written[r]
    /\ r \in Compressed /\ pc[r] \in {"leave", "done"} =>
         response[r] = written[r] /\ r \in ended

WholeInductive ==
    /\ TextInductive
    /\ Places
    /\ limit = 1 => \A r \in Request : WholeText(r)

LEMMA PrefixOfJoin ==
    ASSUME NEW S, NEW s \in Seq(S), NEW t \in Seq(S)
    PROVE  IsPrefix(s, s \o t) /\ IsPrefix(s, s) /\ IsPrefix(<<>>, s)
  BY DEF IsPrefix

LEMMA MoveHead ==
    ASSUME NEW S, NEW s \in Seq(S), NEW t \in Seq(S), t # <<>>
    PROVE  Append(s, Head(t)) \o Tail(t) = s \o t
  <1>1. Head(t) \in S /\ Tail(t) \in Seq(S) /\ Len(t) \in Nat \ {0}
    OBVIOUS
  <1>2. Len(Append(s, Head(t)) \o Tail(t)) = Len(s \o t)
    BY <1>1
  <1>3. ASSUME NEW i \in 1 .. Len(s \o t)
        PROVE  (Append(s, Head(t)) \o Tail(t))[i] = (s \o t)[i]
    <2>1. CASE i <= Len(s)
      BY <1>1, <2>1
    <2>2. CASE i = Len(s) + 1
      BY <1>1, <2>2
    <2>3. CASE i > Len(s) + 1
      BY <1>1, <2>3
    <2> QED
      BY <2>1, <2>2, <2>3
  <1> QED
    BY <1>1, <1>2, <1>3

LEMMA OnlyOneInside ==
    ASSUME Places, limit = 1, NEW r \in Request, NEW q \in Request, Inside(r), Inside(q)
    PROVE  r = q
  <1>1. {r, q} \subseteq inFlight /\ IsFiniteSet(inFlight) /\ Cardinality(inFlight) <= 1
    BY DEF Places
  <1>2. IsFiniteSet({r, q}) /\ Cardinality({r, q}) <= 1
    <2>1. /\ IsFiniteSet({r, q}) /\ Cardinality({r, q}) <= Cardinality(inFlight)
          /\ Cardinality({r, q}) \in Nat /\ Cardinality(inFlight) \in Nat
      BY <1>1, FS_Subset, FS_CardinalityType
    <2> QED
      BY <1>1, <2>1
  <1>3. {r, q} = {r} \cup {q} /\ IsFiniteSet({r}) /\ Cardinality({r}) = 1
    BY FS_Singleton
  <1>4. q \notin {r} => Cardinality({r, q}) = 2
    BY <1>3, FS_AddElement
  <1> QED
    BY <1>2, <1>4

LEMMA PlacesKept ==
    ASSUME TextInductive, Places, NEW r \in Request, Step(r) \/ Write(r)
    PROVE  Places'
  <1>1. IsFiniteSet(inFlight)
    BY DEF Places
  <1>2. /\ IsFiniteSet(inFlight \cup {r}) /\ IsFiniteSet(inFlight \ {r})
        /\ Cardinality(inFlight \cup {r}) =
             IF r \in inFlight THEN Cardinality(inFlight) ELSE Cardinality(inFlight) + 1
        /\ Cardinality(inFlight \ {r}) =
             IF r \in inFlight THEN Cardinality(inFlight) - 1 ELSE Cardinality(inFlight)
    BY <1>1, FS_AddElement, FS_RemoveElement
  <1>3. Cardinality(inFlight) \in Nat
    BY <1>1, FS_CardinalityType
  <1> USE DEF TextInductive, TypeOK, Goto, Inside
  <1>4. CASE Enter(r)
    <2>1. limit # 0 => Cardinality(inFlight \cup {r}) <= limit
      BY <1>4, <1>2, <1>3 DEF Enter, HasPlace
    <2> QED
      BY <1>4, <1>2, <2>1 DEF Enter, Places
  <1>5. CASE TooManyRequests(r)
    BY <1>5 DEF TooManyRequests, Places
  <1>6. CASE Leave(r)
    <2>1. limit # 0 => Cardinality(inFlight \ {r}) <= limit
      BY <1>2, <1>3 DEF Places
    <2> QED
      BY <1>6, <1>2, <2>1 DEF Leave, Places
  <1>7. ASSUME UNCHANGED <<limit, inFlight>>, pc[r] \notin {"new", "refused", "done"},
               \A q \in Request : q # r => pc'[q] = pc[q]
        PROVE  Places'
    BY <1>7 DEF Places
  <1>8. CASE ~ (Enter(r) \/ TooManyRequests(r) \/ Leave(r))
    <2>1. /\ UNCHANGED <<limit, inFlight>> /\ pc[r] \notin {"new", "refused", "done"}
          /\ \A q \in Request : q # r => pc'[q] = pc[q]
      BY <1>8 DEF Step, Write, Send, GetWriter, Return, Recover, PutWriter, BeginClose,
                  FlushWriter, EndClose
    <2> QED
      BY <1>7, <2>1
  <1> QED
    BY <1>4, <1>5, <1>6, <1>8

(* A request that is not inside keeps its text. *)
LEMMA OutsideKeep ==
    ASSUME NEW q \in Request, WholeText(q), ~ Inside(q), pc'[q] = pc[q],
           written'[q] = written[q], response'[q] = response[q], ended \subseteq ended'
    PROVE  WholeText(q)'
  BY DEF WholeText, Inside

(* Only the places of requests change. *)
LEMMA TextsUnmoved ==
    ASSUME NEW q \in Request, WholeText(q), UNCHANGED <<writerOf, writerVars, clientVars>>,
           pc'[q] \in Location,
           \/ pc'[q] = pc[q]
           \/ pc[q] = "new" /\ pc'[q] \in {"refused", "get"}
           \/ q \notin Compressed /\ pc'[q] \in {"serve", "leave", "done"}
           \/ q \in Compressed /\ pc[q] \in {"serve", "put"} /\ pc'[q] \in {"put", "close"}
           \/ q \in Compressed /\ pc[q] = "leave" /\ pc'[q] = "done"
    PROVE  WholeText(q)'
  BY DEF WholeText, writerVars, clientVars

LEMMA GetWriterWhole ==
    ASSUME WholeInductive, limit = 1, NEW r \in Request, GetWriter(r)
    PROVE  WholeText(r)'
  <1> USE DEF WholeInductive, TextInductive, TypeOK
  <1>1. PICK w \in Writer :
          /\ pc[r] = "get"
          /\ writerOf' = [writerOf EXCEPT ![r] = w]
          /\ target' = [target EXCEPT ![w] = r]
          /\ buffer' = [buffer EXCEPT ![w] = <<>>] \/ InClose(w)
          /\ closed' = closed \ {w}
          /\ pc' = [pc EXCEPT ![r] = "serve"]
          /\ UNCHANGED <<written, response>>
    BY DEF GetWriter, Goto, clientVars
  <1>2. ~ InClose(w)
    BY <1>1, OnlyOneInside DEF InClose, Inside
  <1>3. /\ pc'[r] = "serve" /\ writerOf'[r] = w /\ target'[w] = r /\ buffer'[w] = <<>>
        /\ w \notin closed'
    BY <1>1, <1>2
  <1>4. r \in Compressed /\ written[r] = <<>> /\ response[r] = <<>>
    BY <1>1 DEF WholeText, WriterIsReset
  <1> QED
    BY <1>1, <1>3, <1>4 DEF WholeText

LEMMA SendWhole ==
    ASSUME WholeInductive, limit = 1, NEW r \in Request, Send(r), pc[r] = "serve",
           pc' = pc \/ Goto(r, AfterServe(r))
    PROVE  WholeText(r)'
  <1> USE DEF WholeInductive, TextInductive, TypeOK
  <1>1. WholeText(r) /\ UNCHANGED <<writerOf, target, closed>>
        /\ written' = [written EXCEPT ![r] = Append(@, Chunk(r))]
    BY DEF Send
  <1>2. CASE r \in Compressed
    <2>1. writerOf[r] \in Writer
      BY <1>2 DEF WriterIsReset, HasWriter
    <2>2. ~ InClose(writerOf[r])
      BY OnlyOneInside DEF InClose, Inside
    <2>3. /\ buffer' = [buffer EXCEPT ![writerOf[r]] = Append(@, Chunk(r))]
          /\ UNCHANGED response
      BY <1>2, <2>2 DEF Send, WholeText
    <2>4. pc'[r] \in {"serve", "put"}
      BY <1>2 DEF Goto, AfterServe
    <2> QED
      BY <1>1, <1>2, <2>1, <2>3, <2>4 DEF WholeText
  <1>3. CASE r \notin Compressed
    <2>1. response' = [response EXCEPT ![r] = Append(@, Chunk(r))]
      BY <1>3 DEF Send
    <2>2. pc'[r] \in {"serve", "leave"}
      BY <1>3 DEF Goto, AfterServe
    <2> QED
      BY <1>1, <1>3, <2>1, <2>2 DEF WholeText
  <1> QED
    BY <1>2, <1>3

LEMMA CloseWhole ==
    ASSUME WholeInductive, limit = 1, NEW r \in Request,
           BeginClose(r) \/ FlushWriter(r) \/ EndClose(r)
    PROVE  WholeText(r)'
  <1> USE DEF WholeInductive, TextInductive, TypeOK
  <1> DEFINE w == writerOf[r]
  <1>1. /\ r \in Compressed /\ pc[r] \in {"close", "closing"} /\ w \in Writer /\ target[w] = r
        /\ UNCHANGED <<writerOf, target, written>>
    BY DEF BeginClose, FlushWriter, EndClose, WriterIsReset, HasWriter, Returned, clientVars,
           WholeText
  <1>2. /\ response[r] \in Seq(Request \X Nat) /\ buffer[w] \in Seq(Request \X Nat)
        /\ written[r] \in Seq(Request \X Nat)
    BY <1>1 DEF Chunks
  <1>3. CASE BeginClose(r)
    <2>1. pc'[r] = "closing" /\ response'[r] = <<>> /\ buffer'[w] = written[r]
      BY <1>1, <1>3 DEF BeginClose, Goto, WholeText, clientVars
    <2>2. <<>> \o written[r] = written[r]
      BY <1>2
    <2> QED
      BY <1>1, <2>1, <2>2 DEF WholeText
  <1>4. CASE FlushWriter(r)
    <2>1. pc[r] = "closing" /\ pc' = pc /\ buffer[w] # <<>>
      BY <1>4 DEF FlushWriter
    <2>2. /\ response'[r] = Append(response[r], Head(buffer[w]))
          /\ buffer'[w] = Tail(buffer[w])
      BY <1>1, <1>4, <2>1 DEF FlushWriter
    <2>3. Append(response[r], Head(buffer[w])) \o Tail(buffer[w]) = response[r] \o buffer[w]
      BY <1>2, <2>1, MoveHead
    <2> QED
      BY <1>1, <2>1, <2>2, <2>3 DEF WholeText
  <1>5. CASE EndClose(r)
    <2>1. pc[r] = "closing" /\ pc'[r] = "leave" /\ buffer[w] = <<>> /\ r \in ended'
          /\ response' = response
      BY <1>1, <1>5 DEF EndClose, Goto
    <2>2. response[r] \o <<>> = response[r]
      BY <1>2
    <2> QED
      BY <1>1, <2>1, <2>2 DEF WholeText
  <1> QED
    BY <1>3, <1>4, <1>5

(* Nothing changes for others than the one inside. *)
LEMMA OthersWhole ==
    ASSUME WholeInductive, limit = 1, NEW r \in Request, NEW q \in Request, q # r,
           GetWriter(r) \/ Send(r) \/ BeginClose(r) \/ FlushWriter(r) \/ EndClose(r),
           Inside(r), pc'[q] = pc[q]
    PROVE  WholeText(q)'
  <1> USE DEF WholeInductive, TextInductive, TypeOK
  <1>1. ~ Inside(q) /\ WholeText(q) /\ WholeText(r)
    BY OnlyOneInside
  <1>2. ended \subseteq ended'
    BY DEF GetWriter, Send, BeginClose, FlushWriter, EndClose, clientVars
  <1>3. written'[q] = written[q]
    BY DEF GetWriter, Send, BeginClose, FlushWriter, EndClose, clientVars
  <1>4. response'[q] = response[q]
    <2>1. CASE FlushWriter(r)
      <3>1. target[writerOf[r]] = r
        BY <1>1, <2>1 DEF FlushWriter, WholeText, WriterIsReset
      <3> QED
        BY <2>1, <3>1 DEF FlushWriter
    <2> QED
      BY <2>1 DEF GetWriter, Send, BeginClose, EndClose, clientVars
  <1> QED
    BY <1>1, <1>2, <1>3, <1>4, OutsideKeep

LEMMA WholeStep ==
    ASSUME WholeInductive, limit = 1, NEW r \in Request, Step(r) \/ Write(r),
           NEW q \in Request
    PROVE  WholeText(q)'
  <1> USE DEF WholeInductive, TextInductive, TypeOK
  <1>1. /\ pc' \in [Request -> Location]
        /\ q # r => pc'[q] = pc[q]
    <2>1. pc' \in [Request -> Location]
      BY TextKeeps DEF Next
    <2> QED
      BY <2>1 DEF Step, Write, Enter, TooManyRequests, Leave, GetWriter, Return, Recover,
            PutWriter, BeginClose, FlushWriter, EndClose, Goto
  <1>2. CASE Enter(r) \/ TooManyRequests(r) \/ Return(r) \/ PutWriter(r) \/ Leave(r)
    <2>1. UNCHANGED <<writerOf, writerVars, clientVars>>
      BY <1>2 DEF Enter, TooManyRequests, Return, PutWriter, Leave
    <2>2. q # r => WholeText(q)'
      BY <1>1, <2>1, TextsUnmoved
    <2>3. \/ pc[r] = "new" /\ pc'[r] \in {"refused", "get"}
          \/ r \notin Compressed /\ pc'[r] \in {"serve", "leave", "done"}
          \/ r \in Compressed /\ pc[r] \in {"serve", "put"} /\ pc'[r] \in {"put", "close"}
          \/ r \in Compressed /\ pc[r] = "leave" /\ pc'[r] = "done"
      BY <1>2 DEF Enter, TooManyRequests, Return, PutWriter, Leave, Goto, AfterServe, WriterIsReset
    <2>4. WholeText(r)'
      BY <1>1, <2>1, <2>3, TextsUnmoved
    <2> QED
      BY <2>2, <2>4
  <1>3. CASE GetWriter(r)
    <2>1. Inside(r)
      BY <1>3 DEF GetWriter, Inside
    <2> QED
      BY <1>1, <1>3, <2>1, GetWriterWhole, OthersWhole
  <1>4. CASE Recover(r) \/ Write(r)
    <2>1. Send(r) /\ pc[r] = "serve" /\ (pc' = pc \/ Goto(r, AfterServe(r))) /\ Inside(r)
      BY <1>4 DEF Recover, Write, Inside
    <2> QED
      BY <1>1, <2>1, SendWhole, OthersWhole
  <1>5. CASE BeginClose(r) \/ FlushWriter(r) \/ EndClose(r)
    <2>1. Inside(r)
      BY <1>5 DEF BeginClose, FlushWriter, EndClose, Inside
    <2> QED
      BY <1>1, <1>5, <2>1, CloseWhole, OthersWhole
  <1> QED
    BY <1>2, <1>3, <1>4, <1>5 DEF Step

(* With MaxRequestInFlight = 1 a client gets the text its own handlers wrote *)
(* and, when the request is over, all of it (mw.go:182-200).                 *)
THEOREM MiddlewareOneAtATime == Spec => []OneAtATimeIsComplete
  <1>1. Init => WholeInductive
    <2> SUFFICES ASSUME Init PROVE WholeInductive
      OBVIOUS
    <2>1. Places
      BY MiddlewareAssumption, FS_EmptySet DEF Init, Places, Inside
    <2>2. \A r \in Request : WholeText(r)
      BY DEF Init, WholeText
    <2> QED
      BY <2>1, <2>2, TextInit DEF WholeInductive
  <1>2. WholeInductive /\ [Next]_vars => WholeInductive'
    <2> SUFFICES ASSUME WholeInductive, [Next]_vars PROVE WholeInductive'
      OBVIOUS
    <2>1. CASE UNCHANGED vars
      <3>1. Places'
        BY <2>1 DEF vars, WholeInductive, Places, Inside
      <3>2. limit = 1 => \A r \in Request : WholeText(r)'
        BY <2>1 DEF vars, writerVars, clientVars, WholeInductive, WholeText
      <3> QED
        BY <2>1, <3>1, <3>2, TextKeeps DEF WholeInductive, vars
    <2>2. CASE Next
      <3> PICK r \in Request : Step(r) \/ Write(r)
        BY <2>2 DEF Next
      <3>1. limit' = limit
        BY DEF Step, Write, Send, Enter, TooManyRequests, Leave, GetWriter, Return, Recover,
               PutWriter, BeginClose, FlushWriter, EndClose
      <3>2. limit = 1 => \A q \in Request : WholeText(q)'
        BY WholeStep
      <3>3. Places'
        BY PlacesKept DEF WholeInductive
      <3> QED
        BY <3>1, <3>2, <3>3, TextKeeps DEF WholeInductive
    <2> QED
      BY <2>1, <2>2
  <1>3. WholeInductive => OneAtATimeIsComplete
    <2> SUFFICES ASSUME WholeInductive, limit = 1, NEW r \in Request
                 PROVE  /\ IsPrefix(response[r], written[r])
                        /\ pc[r] = "done" => Complete(r)
      BY DEF OneAtATimeIsComplete
    <2>1. /\ WholeText(r) /\ pc[r] \in Location
          /\ response[r] \in Seq(Request \X Nat) /\ written[r] \in Seq(Request \X Nat)
      BY DEF WholeInductive, TextInductive, TypeOK, Chunks
    <2>2. ASSUME response[r] = written[r] \/ response[r] = <<>>
          PROVE  IsPrefix(response[r], written[r])
      BY <2>1, <2>2, PrefixOfJoin
    <2>3. ASSUME r \in Compressed, pc[r] = "closing"
          PROVE  IsPrefix(response[r], written[r])
      <3>1. writerOf[r] \in Writer
        BY <2>3 DEF WholeInductive, TextInductive, WriterIsReset, HasWriter, Returned
      <3>2. buffer[writerOf[r]] \in Seq(Request \X Nat)
        BY <3>1 DEF WholeInductive, TextInductive, TypeOK, Chunks
      <3> QED
        BY <2>1, <2>3, <3>2, PrefixOfJoin DEF WholeText
    <2>4. IsPrefix(response[r], written[r])
      BY <2>1, <2>2, <2>3 DEF WholeText, Location, Returned
    <2> QED
      BY <2>1, <2>4 DEF WholeText, Complete
  <1> QED
    BY <1>1, <1>2, <1>3, PTL DEF Spec

================================================================================
