----------------------------- MODULE StoreCalls -----------------------------
(***************************************************************************)
(* The calls of a RocksDB-backed database (db.rs, database.js) and of the  *)
(* part of a state database that shares its DB struct (state_db.rs,        *)
(* db_base.rs): what each does to the contents and what it answers.        *)
(*                                                                         *)
(* Contents map raw keys, the bucket's prefix included, to values.         *)
(***************************************************************************)
EXTENDS Iteration

CONSTANTS
    Keys,           \* raw keys: byte strings
    Values,
    None,           \* no value
    NoOp,           \* a batch says nothing about a key
    BatchIds,       \* the Batch objects of the caller
    IterateOptions, \* the option records iterate is called with
    ClearOptions,   \* the option records clear is called with
    CommitBatches   \* what StateDB.commit writes

Store == [Keys -> Values \union {None}]

\* A rocksdb::WriteBatch by its effect: entries are applied in order, so
\* the last one about a key decides.  None stands for delete.
Batch == [Keys -> Values \union {None, NoOp}]

ASSUME StoreCallsAssumption ==
    /\ Keys \subseteq ByteString
    /\ IsFiniteSet(Keys)       \* the length of a key has a bound
    /\ None \notin Values
    /\ NoOp \notin Values \union {None}
    /\ IterateOptions \subseteq Option
    /\ ClearOptions \subseteq Option
    /\ CommitBatches \subseteq Batch

Kinds == {"Normal", "State"}

\* The keys a caller can name: those of its bucket, without the prefix.
UserKeys(kind) ==
    IF kind = "State" THEN {Tail(k) : k \in {key \in Keys : key # <<>> /\ key[1] = StatePrefix[1]}}
                      ELSE Keys

RawKey(kind, key) == KindKey(key, kind = "State")

----------------------------------------------------------------------------
(* Requests.                                                               *)

\* Carried out on the JS thread, inside the call.
EagerRequests(kind) ==
    [op : {"get", "has"}, key : {RawKey(kind, u) : u \in UserKeys(kind)}]
        \union IF kind = "State"
               THEN [op : {"commit"}, batch : CommitBatches]
               ELSE [op : {"set"}, key : Keys, val : Values] \union [op : {"del"}, key : Keys]

\* Database.clear: with both bounds a scan, whose rows a second message
\* removes; else db_clear, which takes the options and ignores them.
ClearRequest(opt) == [op |-> IF Bounded(opt) THEN "clearRange" ELSE "clear", opt |-> opt]

\* Carried out on the DB thread.
LazyRequests(kind) ==
    [op : {"iterate"}, opt : IterateOptions]
        \union [op : {"checkpoint"}]
        \union IF kind = "State"
               THEN {}
               ELSE [op : {"write"}, id : BatchIds] \union {ClearRequest(opt) : opt \in ClearOptions}

\* The removal that ends a clear: a message of its own after a scan between
\* two bounds, else the second half of js_clear.
RemoveRequests == [op : {"remove"}, keys : SUBSET Keys, opt : ClearOptions]

Requests == (UNION {EagerRequests(kind) \union LazyRequests(kind) : kind \in Kinds}) \union RemoveRequests

----------------------------------------------------------------------------
(* What a request does, and what it answers.                               *)

Present(store) == {k \in Keys : store[k] # None}

\* js_clear first collects the keys that there are into a batch: from then
\* on it is the removal of these keys.  Other requests stay what they are.
Fixed(store, req) ==
    IF req.op = "clear" THEN [op |-> "remove", keys |-> Present(store), opt |-> req.opt] ELSE req

\* Mutant: the batch takes the place of the contents.
AppliedOver(store, batch) == batch

Applied(store, batch) == [k \in Keys |-> IF batch[k] = NoOp THEN store[k] ELSE batch[k]]

Without(store, keys) == [k \in Keys |-> IF k \in keys THEN None ELSE store[k]]

Effect(store, batches, req) ==
    CASE req.op = "set" -> [store EXCEPT ![req.key] = req.val]
      [] req.op = "del" -> [store EXCEPT ![req.key] = None]
      [] req.op = "commit" -> Applied(store, req.batch)
      [] req.op = "write" -> Applied(store, batches[req.id])
      [] req.op = "remove" -> Without(store, req.keys)
      [] OTHER -> store

\* The rows of js_iterate, with their raw keys and values.
Rows(kind, store, opt) ==
    LET keys == Scan(Present(store), opt, kind = "State")
    IN  [i \in DOMAIN keys |-> [key |-> keys[i], val |-> store[keys[i]]]]

\* A checkpoint answers nothing; what it made is a copy of the contents.
Answer(kind, store, req) ==
    CASE req.op = "get" -> [is |-> "value", val |-> store[req.key]]
      [] req.op = "has" -> [is |-> "bool", val |-> store[req.key] # None]
      [] req.op \in {"iterate", "clearRange"} -> [is |-> "rows", val |-> Rows(kind, store, req.opt)]
      [] req.op = "checkpoint" -> [is |-> "copy", val |-> store]
      [] OTHER -> [is |-> "unit"]

============================================================================
