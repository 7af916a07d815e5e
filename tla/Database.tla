------------------------------ MODULE Database ------------------------------
(***************************************************************************)
(* The DB struct (db_base.rs) behind Database, its readers and the plain   *)
(* reads of StateDB: a connection, a DB thread that runs closures in the   *)
(* order in which they were sent, and the answers it posts to the JS event *)
(* loop.                                                                   *)
(*                                                                         *)
(* get, has, set, del and StateDB.commit use the connection inside the     *)
(* call; only their answer takes the way over the thread.  write, clear,   *)
(* iterate and checkpoint are closures that hold a clone of the connection *)
(* and use it when the thread comes to them.  close() drops the connection *)
(* at once, and ends the thread behind the calls that are already queued.  *)
(***************************************************************************)
EXTENDS StoreCalls

CONSTANTS
    Promises,       \* names for outstanding calls: bounds the calls in flight
    MaxQueue,       \* bound on messages waiting for the DB thread
    MaxBatch,       \* bound on the keys of a Batch
    CloseMessage    \* DbMessage::Close

ASSUME DatabaseAssumption ==
    /\ MaxQueue \in Nat
    /\ MaxBatch \in Nat
    /\ CloseMessage \notin Promises

VARIABLES
    kind,           \* DB.db_kind
    store,          \* RocksDB, shared by all clones of the connection
    conn,           \* DB.db is Some
    thread,         \* "running", "exited" or "panicked"
    queue,          \* DbMessages sent and not yet received, oldest first
    replies,        \* closures posted to the JS event loop, oldest first
    call,           \* per promise: the closure of its call and how far it is
    batch,          \* the Batch objects of the caller
    fresh           \* history: keys filled since the promise's clear began

\* A call is a record: how far it is, the request, whether its closure holds
\* a connection, whether it has been carried out, and what it answers.
vars == <<kind, store, conn, thread, queue, replies, call, batch, fresh>>

Idle == [phase |-> "idle", req |-> None, holds |-> FALSE, acted |-> FALSE, res |-> None]

Init ==
    /\ kind \in Kinds
    /\ store \in Store
    /\ conn = TRUE
    /\ thread = "running"
    /\ queue = <<>>
    /\ replies = <<>>
    /\ call = [p \in Promises |-> Idle]
    /\ batch = [b \in BatchIds |-> [k \in Keys |-> NoOp]]
    /\ fresh = [p \in Promises |-> {}]

----------------------------------------------------------------------------
(* Calls, on the JS thread.                                                *)

\* DB::send.  When the thread is gone it fails, the handler throws and the
\* promise is rejected at once.
Send(p, closure) ==
    IF thread = "running"
    THEN /\ Len(queue) < MaxQueue
         /\ queue' = Append(queue, p)
         /\ call' = [call EXCEPT ![p] = closure]
    ELSE /\ call' = [call EXCEPT ![p] = Idle]
         /\ UNCHANGED queue

\* A call that has been carried out needs no connection any more.
Answered(phase, req, res) ==
    [phase |-> phase, req |-> req, holds |-> FALSE, acted |-> TRUE, res |-> res]

\* js_get, js_exists, js_set, js_del and the write of a commit: Unwrap
\* panics on a connection that is None, and neon makes an exception of it.
CallNow(p, req) ==
    /\ call[p].phase = "idle"
    /\ IF conn
       THEN /\ store' = Effect(store, batch, req)
            /\ Send(p, Answered("queued", req, Answer(kind, store, req)))
       ELSE UNCHANGED <<store, queue, call>>
    /\ UNCHANGED <<kind, conn, thread, replies, batch>>

\* A closure that is still to be carried out.
Closure(req, holds) == [phase |-> "queued", req |-> req, holds |-> holds, acted |-> FALSE, res |-> None]

\* arc_clone: the closure takes what connection there is.
Pending(req) == Closure(req, conn)

\* js_write, js_clear, js_iterate and checkpoint: arc_clone, then send.
CallLater(p, req) ==
    /\ call[p].phase = "idle"
    /\ Send(p, Pending(req))
    /\ UNCHANGED <<kind, store, conn, thread, replies, batch>>

\* stream.on('data'): every row that was streamed is deleted by the batch.
RowKeys(rows) == {k \in Keys : \E i \in DOMAIN rows : rows[i].key = k}

\* Database.clear goes on after its stream has ended: write(batch).
ClearWrite(p) ==
    /\ call[p].phase = "collected"
    /\ Send(p, Pending([op |-> "remove", keys |-> RowKeys(call[p].res.val), opt |-> call[p].req.opt]))
    /\ UNCHANGED <<kind, store, conn, thread, replies, batch>>

\* Batch.set and Batch.del, before write() or after it: the thread reads
\* the batch behind its mutex when it carries out the write.
ChangeBatch(b, key, val) ==
    /\ batch' = [batch EXCEPT ![b][key] = val]
    /\ Cardinality({k \in Keys : batch'[b][k] # NoOp}) <= MaxBatch
    /\ UNCHANGED <<kind, store, conn, thread, queue, replies, call>>

\* Mutant: the thread is not told.
CloseQuietly ==
    /\ conn' = FALSE
    /\ UNCHANGED <<kind, store, thread, queue, replies, call, batch>>

\* Mutant: the message goes ahead of the calls that are queued.
CloseOvertakes ==
    /\ conn' = FALSE
    /\ IF thread = "running"
       THEN /\ Len(queue) < MaxQueue
            /\ queue' = <<CloseMessage>> \o queue
       ELSE UNCHANGED queue
    /\ UNCHANGED <<kind, store, thread, replies, call, batch>>

\* DB::close: the connection first, then the message; a second close throws
\* once the thread is gone.
Close ==
    /\ conn' = FALSE
    /\ IF thread = "running"
       THEN /\ Len(queue) < MaxQueue
            /\ queue' = Append(queue, CloseMessage)
       ELSE UNCHANGED queue
    /\ UNCHANGED <<kind, store, thread, replies, call, batch>>

----------------------------------------------------------------------------
(* The DB thread and the event loop.                                       *)

Waits(p) == queue # <<>> /\ Head(queue) = p

\* The closure of a call that was carried out already only posts the answer.
ServeAnswered(p) ==
    /\ Waits(p)
    /\ call[p].acted
    /\ queue' = Tail(queue)
    /\ replies' = Append(replies, p)
    /\ call' = [call EXCEPT ![p] = Answered("posted", call[p].req, call[p].res)]
    /\ UNCHANGED <<kind, store, conn, thread, batch>>

\* js_clear, first half: the closure has gone through the keys of its
\* iterator and has not written its batch yet; set and del go on meanwhile.
ServeScan(p) ==
    /\ Waits(p)
    /\ ~call[p].acted
    /\ call[p].holds
    /\ call[p].req.op = "clear"
    /\ call' = [call EXCEPT ![p] = Closure(Fixed(store, call[p].req), TRUE)]
    /\ UNCHANGED <<kind, store, conn, thread, queue, replies, batch>>

\* Mutant: the answer is posted and the message stays.
ServeTwice(p) ==
    /\ Waits(p)
    /\ ~call[p].acted
    /\ call[p].holds
    /\ call[p].req.op # "clear"
    /\ store' = Effect(store, batch, call[p].req)
    /\ Len(replies) < MaxQueue
    /\ replies' = Append(replies, p)
    /\ UNCHANGED <<kind, conn, thread, queue, call, batch>>

\* Mutant: the closure posts its answer without doing its work.
ServeNothing(p) ==
    /\ Waits(p)
    /\ ~call[p].acted
    /\ call[p].holds
    /\ call[p].req.op # "clear"
    /\ queue' = Tail(queue)
    /\ replies' = Append(replies, p)
    /\ call' = [call EXCEPT ![p] = Answered("posted", call[p].req, Answer(kind, store, call[p].req))]
    /\ UNCHANGED <<kind, store, conn, thread, batch>>

\* Mutant: the closure waits for the connection of the DB struct.
ServeWhenOpen(p) ==
    /\ conn
    /\ Waits(p)
    /\ ~call[p].acted
    /\ call[p].holds
    /\ call[p].req.op # "clear"
    /\ store' = Effect(store, batch, call[p].req)
    /\ queue' = Tail(queue)
    /\ replies' = Append(replies, p)
    /\ call' = [call EXCEPT ![p] = Answered("posted", call[p].req, Answer(kind, store, call[p].req))]
    /\ UNCHANGED <<kind, conn, thread, batch>>

\* The other closures do their work on the clone they hold, then drop it.
ServeCall(p) ==
    /\ Waits(p)
    /\ ~call[p].acted
    /\ call[p].holds
    /\ call[p].req.op # "clear"
    /\ store' = Effect(store, batch, call[p].req)
    /\ queue' = Tail(queue)
    /\ replies' = Append(replies, p)
    /\ call' = [call EXCEPT ![p] = Answered("posted", call[p].req, Answer(kind, store, call[p].req))]
    /\ UNCHANGED <<kind, conn, thread, batch>>

\* A clone of None: Unwrap panics and the thread dies with its receiver.
PanicsOn(p) == Waits(p) /\ ~call[p].acted /\ ~call[p].holds

\* The thread ends on Close; what is queued behind it is dropped.
ServeEnd ==
    /\ \/ Waits(CloseMessage) /\ thread' = "exited"
       \/ (\E p \in Promises : PanicsOn(p)) /\ thread' = "panicked"
    /\ queue' = <<>>
    /\ UNCHANGED <<kind, store, conn, replies, call, batch>>

Serve ==
    /\ thread = "running"
    /\ \/ \E p \in Promises : ServeAnswered(p) \/ ServeScan(p) \/ ServeCall(p)
       \/ ServeEnd

\* The closures posted for one call: the rows, then the end of the stream,
\* or one answer.  Rows do not change once they are read, so they count as
\* delivered with the end of the stream.
Deliver ==
    /\ replies # <<>>
    /\ LET p == Head(replies)
       IN  call' = [call EXCEPT ![p] = IF call[p].req.op = "clearRange"
                                       THEN Answered("collected", call[p].req, call[p].res)
                                       ELSE Idle]
    /\ replies' = Tail(replies)
    /\ UNCHANGED <<kind, store, conn, thread, queue, batch>>

----------------------------------------------------------------------------

Step ==
    \/ \E p \in Promises : \E req \in EagerRequests(kind) : CallNow(p, req)
    \/ \E p \in Promises : \E req \in LazyRequests(kind) : CallLater(p, req)
    \/ \E p \in Promises : ClearWrite(p)
    \/ kind = "Normal" /\ \E b \in BatchIds, key \in Keys, val \in Values \union {None} :
                              ChangeBatch(b, key, val)
    \/ Close
    \/ Serve
    \/ Deliver

InClear(c) == c.phase # "idle" /\ c.req.op \in {"clear", "clearRange", "remove"}

\* The history variable: which keys were filled during a clear.
Track ==
    fresh' = [p \in Promises |->
                IF InClear(call[p]) /\ InClear(call'[p])
                THEN fresh[p] \union {k \in Keys : store'[k] \notin {None, store[k]}}
                ELSE {}]

Next == Step /\ Track

Spec == Init /\ [][Next]_vars

\* The thread and the event loop run whenever they have work, and the JS
\* thread goes on with a clear whose scan has ended.
FairSpec ==
    /\ Spec
    /\ WF_vars(Serve /\ Track)
    /\ WF_vars(Deliver /\ Track)
    /\ \A p \in Promises : WF_vars(ClearWrite(p) /\ Track)

----------------------------------------------------------------------------
(* Properties.                                                             *)

Phases == {"idle", "queued", "posted", "collected"}

TypeOK ==
    /\ kind \in Kinds
    /\ store \in Store
    /\ conn \in BOOLEAN
    /\ thread \in {"running", "exited", "panicked"}
    /\ queue \in Seq(Promises \union {CloseMessage})
    /\ replies \in Seq(Promises)
    /\ DOMAIN call = Promises
    /\ \A p \in Promises :
          /\ call[p].phase \in Phases
          /\ call[p].holds \in BOOLEAN
          /\ call[p].acted \in BOOLEAN
          /\ call[p].phase # "idle" => call[p].req \in Requests
    /\ batch \in [BatchIds -> Batch]
    /\ fresh \in [Promises -> SUBSET Keys]

Times(p, seq) == Cardinality({i \in DOMAIN seq : seq[i] = p})

\* Every call is in one place only: a closure waiting for the thread, an
\* answer waiting for the event loop, or neither.  No call is answered
\* twice, and none is lost while the thread runs.
CallsTracked ==
    \A p \in Promises :
        /\ Times(p, replies) = (IF call[p].phase = "posted" THEN 1 ELSE 0)
        /\ Times(p, queue) = (IF call[p].phase = "queued" /\ thread = "running" THEN 1 ELSE 0)

\* close() races the closures that are queued: each the thread will still
\* run holds a connection, so the "expect" of Unwrap never fires there.
ThreadNeverPanics == thread # "panicked"

\* The files are let go of: the DB struct and every closure that is alive
\* have given up their connection.
Released ==
    /\ ~conn
    /\ \A i \in DOMAIN queue : queue[i] # CloseMessage => ~call[queue[i]].holds

\* After close() the files are released, and stay so: the path can be
\* opened again.  Open readers and read-writers hold clones of their own
\* (reader_base.rs:46), which are not in this module.
ClosedIsReleased == ~conn ~> []Released

\* A call the thread will still come to, or whose answer is posted.
InFlight(p) ==
    \/ \E i \in DOMAIN replies : replies[i] = p
    \/ \E i \in DOMAIN queue : queue[i] = p /\ \A j \in 1 .. i - 1 : queue[j] # CloseMessage

\* A call made before close() is answered, also when close() comes before
\* the thread has run it.
InFlightSettles == \A p \in Promises : InFlight(p) ~> call[p].phase \in {"idle", "collected"}

\* The removal of a clear is carried out, and which keys it may take.
Removal(p) == call[p].phase = "queued" /\ call'[p].phase = "posted" /\ call[p].req.op = "remove"

InRangeOnly(p) == \A k \in Keys : store'[k] # store[k] => k \in Between(Keys, call[p].req.opt)

\* A clear with both bounds removes keys between them only, whatever is set
\* or written between its scan and its removal.  With one bound it goes the
\* way of a clear without options and takes every key (database.js:155,
\* db.rs:57): ClearStaysInRange says what is lost.
ClearKeepsRest == [][\A p \in Promises : Removal(p) /\ Bounded(call[p].req.opt) => InRangeOnly(p)]_vars

\* A clear removes the keys in its range only ("Options for range. {limit:
\* u32, reverse: bool, gte: &[u8], lte: &[u8]}", db.rs:44), also with one
\* bound, which types.d.ts:49 allows.
ClearStaysInRange == [][\A p \in Promises : Removal(p) => InRangeOnly(p)]_vars

\* When a clear is answered, no key between its bounds is left but those
\* filled since it began: its scan and its removal are two steps, and between
\* two bounds two messages.
ClearedIsGone ==
    \A p \in Promises :
        /\ call[p].phase = "posted"
        /\ call[p].req.op = "remove"
        /\ call[p].req.opt.limit = -1
        => \A k \in Between(Keys, call[p].req.opt) : store[k] = None \/ k \in fresh[p]

\* The rows of an iteration of a state database are keys of STATE ("Prefix
\* is the database prefix to separate the keys in the state_db",
\* consts.rs:15).
RowsAreState ==
    \A p \in Promises :
        kind = "State" /\ call[p].phase = "posted" /\ call[p].req.op = "iterate" =>
            \A i \in DOMAIN call[p].res.val : call[p].res.val[i].key[1] = StatePrefix[1]

\* A call as its caller sees it: made, carried out, or neither.
LinearCall(c) ==
    IF c.phase = "queued" /\ ~c.acted THEN [phase |-> "open", req |-> c.req, res |-> None]
    ELSE IF c.phase \in {"queued", "posted"} THEN [phase |-> "done", req |-> c.req, res |-> c.res]
    ELSE [phase |-> "idle", req |-> None, res |-> None]

LinearCalls == [p \in Promises |-> LinearCall(call[p])]

\* The promise of the database: every call takes effect once, between the
\* call and its answer, and close() takes nothing of that back.  Only a clear
\* is not one step: a key set after its scan is left.
Linear == INSTANCE LinearStore WITH contents <- store, batches <- batch, calls <- LinearCalls

LinearRefined == Linear!LinearSpec

============================================================================
