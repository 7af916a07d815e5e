-------------------------- MODULE InMemoryDatabase --------------------------
(***************************************************************************)
(* InMemoryDatabase (database.js, in_memory_db.rs): a map behind the calls *)
(* of Database.  Every call runs to its end on the JS thread, so each is   *)
(* one step.  Clones are objects of their own.                             *)
(*                                                                         *)
(* "in_memory_db provides same interface as rocksdb for ... mocking        *)
(* rocksDB": the properties compare its iteration with the one of RocksDB, *)
(* for the same contents and every option.                                 *)
(***************************************************************************)
EXTENDS Iteration, Functions

CONSTANTS
    Handles,        \* names for the database and its clones
    Keys,           \* byte strings
    Values,
    None,           \* no value
    NoOp,           \* a batch says nothing about a key
    MaxBatch,       \* bound on the keys of one batch
    Options,        \* the option records iterate is called with
    OtherBuckets    \* keys of SMT, DIFF and CURRENT_STATE, with their prefix

ASSUME InMemoryDatabaseAssumption ==
    /\ Keys \subseteq ByteString
    /\ IsFiniteSet(Keys)       \* the length of a key has a bound
    /\ Options \subseteq Option
    /\ OtherBuckets \subseteq ByteString
    /\ IsFiniteSet(OtherBuckets)
    /\ \A k \in OtherBuckets : k # <<>> /\ k[1] # StatePrefix[1]
    /\ None \notin Values
    /\ NoOp \notin Values \union {None}

VARIABLE db         \* per handle: CacheData.data, or None while there is no such object

vars == <<db>>

Store == [Keys -> Values \union {None}]

\* A rocksdb::WriteBatch by its effect: entries are applied in order, so
\* the last one about a key decides.  None stands for delete.
Batches ==
    {b \in [Keys -> Values \union {None, NoOp}] :
        Cardinality({k \in Keys : b[k] # NoOp}) <= MaxBatch}

TypeOK == db \in [Handles -> Store \union {None}]

Empty == [k \in Keys |-> None]

\* in_memory_db_new gives the first object, clone() the others.
Init == \E h \in Handles : db = [g \in Handles |-> IF g = h THEN Empty ELSE None]

Live == {h \in Handles : db[h] # None}

Present(store) == {k \in Keys : store[k] # None}

----------------------------------------------------------------------------

SetKeyValue(h, key, val) == db' = [db EXCEPT ![h][key] = val]

Del(h, key) == db' = [db EXCEPT ![h][key] = None]

\* Mutant: the batch takes the place of the map.
AppliedOver(store, batch) == batch

\* WriteBatchIterator for CacheData: put inserts, delete removes.
Applied(store, batch) == [k \in Keys |-> IF batch[k] = NoOp THEN store[k] ELSE batch[k]]

Write(h, batch) == db' = [db EXCEPT ![h] = Applied(@, batch)]

\* clear(options) and close(): both are in_memory_db_clear, which has no options.
Clear(h) == db' = [db EXCEPT ![h] = Empty]

\* js_clone copies the map into an object of its own.
Clone(h, g) == db[g] = None /\ db' = [db EXCEPT ![g] = db[h]]

Next ==
    \E h \in Live :
        \/ \E key \in Keys, val \in Values : SetKeyValue(h, key, val)
        \/ \E key \in Keys : Del(h, key)
        \/ \E batch \in Batches : Write(h, batch)
        \/ Clear(h)
        \/ \E g \in Handles : Clone(h, g)

Spec == Init /\ [][Next]_vars

----------------------------------------------------------------------------
(* Properties.                                                             *)

\* The contents of RocksDB below a state database with these keys in STATE.
Raw(present) == {StatePrefix \o k : k \in present} \union OtherBuckets

\* A walk with both bounds and no odd limit yields exactly the rows between
\* them, in order, cut to the limit: in RocksDB (js_iterate with mode and
\* stop test), in the in-memory database and, bucket and prefix taken into
\* account, in a state database and its readers.
BoundedIterationExact ==
    \A h \in Live, opt \in Options :
        Bounded(opt) /\ opt.limit >= -1 =>
            LET rows == ExpectedRows(Present(db[h]), opt)
            IN  /\ Scan(Present(db[h]), opt, FALSE) = rows
                /\ GetKeyValuePairs(Present(db[h]), opt) = rows
                /\ WithoutPrefix(Scan(Raw(Present(db[h])), opt, TRUE), TRUE) = rows

\* With one bound the default for the other is as long as the given one.
\* When all keys have that length (as the tests use them) both databases
\* still answer exactly the rows asked for.
OneBoundExact ==
    \A h \in Live, opt \in Options :
        LET bound == IF opt.gte = Undefined THEN opt.lte ELSE opt.gte
        IN  /\ ~Bounded(opt) /\ ~NoRange(opt) /\ opt.limit >= -1
            /\ \A k \in Present(db[h]) : Len(k) = Len(bound)
            => /\ Scan(Present(db[h]), opt, FALSE) = ExpectedRows(Present(db[h]), opt)
               /\ GetKeyValuePairs(Present(db[h]), opt) = ExpectedRows(Present(db[h]), opt)

\* Where RocksDB has no bound the mock has a default, so it may end earlier,
\* but its rows are the first rows of RocksDB, up to the limit: none of them
\* moved, left out in between or added.  Below -1 the two part: RocksDB stops
\* before the first row (counter >= limit), the mock shows every row in range
\* ("limit as usize").
MockShowsNoMore ==
    \A h \in Live, opt \in Options :
        LET mock == GetKeyValuePairs(Present(db[h]), opt)
            rocks == Scan(Present(db[h]), opt, FALSE)
        IN  IF opt.limit >= -1
            THEN Len(mock) <= Len(rocks) /\ mock = SubSeq(rocks, 1, Len(mock))
            ELSE rocks = <<>> /\ mock = GetKeyValuePairs(Present(db[h]), [opt EXCEPT !.limit = -1])

\* A walk upwards with lte and a walk downwards with gte stay in the STATE
\* bucket; so does every walk that ends before its bucket does.
WalkStaysInBucket ==
    \A h \in Live, opt \in Options :
        (IF opt.reverse THEN opt.gte # Undefined ELSE opt.lte # Undefined) =>
            \A k \in Range(Scan(Raw(Present(db[h])), opt, TRUE)) : k[1] = StatePrefix[1]

============================================================================
