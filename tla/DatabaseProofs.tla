--------------------------- MODULE DatabaseProofs ---------------------------
(***************************************************************************)
(* Theorems about Database, for every number of calls in flight, every     *)
(* queue, every set of keys, values, batches and options, and both kinds   *)
(* of database.                                                            *)
(*                                                                         *)
(* The argument: a call is in one place (Places), so what the thread or    *)
(* the event loop does to a call disturbs no other; and close() puts its   *)
(* message behind every closure that was given a connection, so that the   *)
(* thread ends before it comes to one that was given none (Connected).     *)
(*                                                                         *)
(* A clear acts in two halves.  From its first half to its end the keys    *)
(* between its bounds are among those it is going to remove or were filled *)
(* since (ClearsSeen), and it removes none outside them (ClearsBounded).   *)
(***************************************************************************)
EXTENDS Database, IterationProofs

----------------------------------------------------------------------------
(* Sequences.                                                              *)

\* What Append does, place by place.
LEMMA AppendPlaces ==
    ASSUME NEW S, NEW s \in Seq(S), NEW x \in S
    PROVE  /\ Append(s, x) \in Seq(S)
           /\ Len(Append(s, x)) = Len(s) + 1
           /\ DOMAIN Append(s, x) = 1 .. Len(s) + 1
           /\ Append(s, x)[Len(s) + 1] = x
           /\ \A i \in 1 .. Len(s) : Append(s, x)[i] = s[i]
OBVIOUS

\* What Tail does, place by place.
LEMMA TailPlaces ==
    ASSUME NEW S, NEW s \in Seq(S), s # <<>>
    PROVE  /\ Tail(s) \in Seq(S)
           /\ Len(s) \in Nat /\ Len(s) > 0
           /\ DOMAIN s = 1 .. Len(s)
           /\ DOMAIN Tail(s) = 1 .. Len(s) - 1
           /\ \A i \in 1 .. Len(s) - 1 : Tail(s)[i] = s[i + 1]
           /\ Head(s) = s[1]
           /\ Head(s) \in S
OBVIOUS

----------------------------------------------------------------------------
(* Requests and their effects.                                             *)

\* The fields that a request's effect, and the second half of a clear, rely on.
LEMMA RequestFields ==
    ASSUME NEW req \in Requests
    PROVE  /\ req.op = "set" => req.val \in Values
           /\ req.op = "commit" => req.batch \in CommitBatches
           /\ req.op = "write" => req.id \in BatchIds
           /\ req.op \in {"clear", "clearRange"} => req.opt \in ClearOptions
<1>1. CASE req \in RemoveRequests
    BY <1>1 DEF RemoveRequests
<1>2. ASSUME NEW k \in Kinds, req \in EagerRequests(k)
      PROVE  /\ req.op \in {"get", "has", "set", "del", "commit"}
             /\ req.op = "set" => req.val \in Values
             /\ req.op = "commit" => req.batch \in CommitBatches
  <2>1. CASE k = "State"
    <3>1. \/ req \in [op : {"get", "has"}, key : {RawKey(k, u) : u \in UserKeys(k)}]
          \/ req \in [op : {"commit"}, batch : CommitBatches]
        BY <1>2, <2>1 DEF EagerRequests
    <3> QED BY <3>1
  <2>2. CASE k # "State"
    <3>1. \/ req \in [op : {"get", "has"}, key : {RawKey(k, u) : u \in UserKeys(k)}]
          \/ req \in [op : {"set"}, key : Keys, val : Values]
          \/ req \in [op : {"del"}, key : Keys]
        BY <1>2, <2>2 DEF EagerRequests
    <3> QED BY <3>1
  <2> QED BY <2>1, <2>2
<1>3. ASSUME NEW k \in Kinds, req \in LazyRequests(k)
      PROVE  /\ req.op \in {"iterate", "checkpoint", "write", "clear", "clearRange"}
             /\ req.op = "write" => req.id \in BatchIds
             /\ req.op \in {"clear", "clearRange"} => req.opt \in ClearOptions
  <2>1. CASE \E opt \in ClearOptions : req = ClearRequest(opt)
      BY <2>1 DEF ClearRequest
  <2>2. CASE req \in [op : {"iterate"}, opt : IterateOptions] \union [op : {"checkpoint"}]
                     \union [op : {"write"}, id : BatchIds]
      BY <2>2
  <2> QED BY <1>3, <2>1, <2>2 DEF LazyRequests
<1> QED BY <1>1, <1>2, <1>3 DEF Requests

\* Every request leaves contents that are contents.
LEMMA EffectType ==
    ASSUME NEW st \in Store, NEW bs \in [BatchIds -> Batch], NEW req \in Requests
    PROVE  Effect(st, bs, req) \in Store
<1>1. ASSUME NEW b \in Batch
      PROVE  Applied(st, b) \in Store
    BY <1>1 DEF Applied, Batch, Store
<1>2. CASE req.op = "set"
    BY <1>2, RequestFields DEF Effect, Store
<1>3. CASE req.op = "del"
    BY <1>3 DEF Effect, Store
<1>4. CASE req.op = "commit"
    BY <1>1, <1>4, RequestFields, StoreCallsAssumption DEF Effect
<1>5. CASE req.op = "write"
    BY <1>1, <1>5, RequestFields DEF Effect
<1>6. CASE req.op = "remove"
    BY <1>6 DEF Effect, Without, Store
<1>7. CASE req.op \notin {"set", "del", "commit", "write", "remove"}
    BY <1>7 DEF Effect
<1> QED BY <1>2, <1>3, <1>4, <1>5, <1>6, <1>7

\* A clear that has looked is a removal; other requests stay what they are.
LEMMA FixedType ==
    ASSUME NEW st, NEW req \in Requests
    PROVE  Fixed(st, req) \in Requests
<1>1. CASE req.op = "clear"
  <2>1. Present(st) \in SUBSET Keys /\ req.opt \in ClearOptions
      BY <1>1, RequestFields DEF Present
  <2> QED BY <1>1, <2>1 DEF Fixed, Requests, RemoveRequests
<1>2. CASE req.op # "clear"
    BY <1>2 DEF Fixed
<1> QED BY <1>1, <1>2

\* What is carried out inside the call is no clear.
LEMMA EagerIsReady ==
    ASSUME NEW k, NEW req \in EagerRequests(k), NEW st
    PROVE  Fixed(st, req) = req
<1>1. CASE k = "State"
  <2>1. \/ req \in [op : {"get", "has"}, key : {RawKey(k, u) : u \in UserKeys(k)}]
        \/ req \in [op : {"commit"}, batch : CommitBatches]
      BY <1>1 DEF EagerRequests
  <2> QED BY <2>1 DEF Fixed
<1>2. CASE k # "State"
  <2>1. \/ req \in [op : {"get", "has"}, key : {RawKey(k, u) : u \in UserKeys(k)}]
        \/ req \in [op : {"set"}, key : Keys, val : Values]
        \/ req \in [op : {"del"}, key : Keys]
      BY <1>2 DEF EagerRequests
  <2> QED BY <2>1 DEF Fixed
<1> QED BY <1>1, <1>2

----------------------------------------------------------------------------
(* The inductive invariant.                                                *)

\* A call waits at one place of the queue or of the replies, or at none.
Places ==
    /\ \A i \in DOMAIN queue : queue[i] # CloseMessage =>
          /\ call[queue[i]].phase = "queued"
          /\ \A j \in DOMAIN queue : queue[j] = queue[i] => j = i
    /\ \A i \in DOMAIN replies :
          /\ call[replies[i]].phase = "posted"
          /\ \A j \in DOMAIN replies : replies[j] = replies[i] => j = i
    /\ \A p \in Promises :
          /\ call[p].phase = "queued" /\ thread = "running" => \E i \in DOMAIN queue : queue[i] = p
          /\ call[p].phase = "posted" => \E i \in DOMAIN replies : replies[i] = p

\* How far a call is, and what that says about it.
Progress ==
    \A p \in Promises :
        /\ call[p].phase = "posted" => call[p].acted
        /\ call[p].phase = "collected" => call[p].req.op = "clearRange"

\* Nothing before place i ends the thread.
Reached(i) == \A j \in 1 .. i - 1 : queue[j] # CloseMessage

\* The thread runs as long as there is a connection, ends on the message of
\* close() and meets no closure without a connection before it.
Connected ==
    /\ thread # "panicked"
    /\ thread # "running" => queue = <<>>
    /\ conn => thread = "running" /\ \A i \in DOMAIN queue : queue[i] # CloseMessage
    /\ ~conn /\ thread = "running" => \E i \in DOMAIN queue : queue[i] = CloseMessage
    /\ \A i \in DOMAIN queue :
          queue[i] # CloseMessage /\ Reached(i) => call[queue[i]].acted \/ call[queue[i]].holds

DBInv == TypeOK /\ Places /\ Progress /\ Connected

----------------------------------------------------------------------------
(* Every step preserves it.                                                *)

\* The history variable keeps its type in every step.
LEMMA TrackType ==
    ASSUME TypeOK, Track
    PROVE  fresh' \in [Promises -> SUBSET Keys]
BY DEF TypeOK, Track

\* A step that changes one call changes no other.
LEMMA CallChanged ==
    ASSUME TypeOK, NEW p \in Promises, NEW c, call' = [call EXCEPT ![p] = c]
    PROVE  call'[p] = c /\ \A q \in Promises \ {p} : call'[q] = call[q]
<1>1. DOMAIN call = Promises
    BY DEF TypeOK
<1> QED BY <1>1

\* A call that waits nowhere is sent to the thread, or is refused because
\* there is none.
LEMMA SendKeeps ==
    ASSUME DBInv, NEW p \in Promises, NEW closure,
           call[p].phase \in {"idle", "collected"},
           closure.phase = "queued",
           closure.acted \in BOOLEAN,
           closure.holds \in BOOLEAN,
           conn => closure.acted \/ closure.holds,
           Send(p, closure),
           UNCHANGED <<conn, thread, replies>>
    PROVE  Places' /\ Progress' /\ Connected'
<1> USE DEF DBInv
<1>1. CASE thread = "running"
  <2> DEFINE n == Len(queue) + 1
  <2>1. /\ queue' = Append(queue, p)
        /\ call' = [call EXCEPT ![p] = closure]
      BY <1>1 DEF Send
  <2>2. /\ n \in Nat /\ n > 0
        /\ DOMAIN queue = 1 .. n - 1
        /\ DOMAIN queue' = 1 .. n
        /\ queue'[n] = p
        /\ \A i \in 1 .. n - 1 : queue'[i] = queue[i]
    <3>1. queue \in Seq(Promises \union {CloseMessage})
        BY DEF TypeOK
    <3> QED BY <2>1, <3>1, AppendPlaces
  <2>3. /\ call'[p] = closure
        /\ \A q \in Promises \ {p} : call'[q] = call[q]
        /\ \A i \in 1 .. n - 1 : queue[i] \in (Promises \ {p}) \union {CloseMessage}
    <3>1. \A i \in 1 .. n - 1 : queue[i] \in Promises \union {CloseMessage}
        BY <2>2 DEF TypeOK
    <3>2. \A i \in 1 .. n - 1 : queue[i] # CloseMessage => queue[i] # p
        BY <2>2 DEF Places
    <3> QED BY <2>1, <3>1, <3>2, CallChanged
  <2>4. \A i \in DOMAIN replies : replies[i] \in Promises \ {p}
      BY DEF TypeOK, Places
  <2> HIDE DEF n
  <2>5. Places'
    <3>1. \A i \in DOMAIN queue' : queue'[i] # CloseMessage =>
             /\ call'[queue'[i]].phase = "queued"
             /\ \A j \in DOMAIN queue' : queue'[j] = queue'[i] => j = i
        BY <2>2, <2>3 DEF Places
    <3>2. \A i \in DOMAIN replies' :
             /\ call'[replies'[i]].phase = "posted"
             /\ \A j \in DOMAIN replies' : replies'[j] = replies'[i] => j = i
        BY <2>3, <2>4 DEF Places
    <3>3. ASSUME NEW q \in Promises
          PROVE  /\ call'[q].phase = "queued" /\ thread' = "running" => \E i \in DOMAIN queue' : queue'[i] = q
                 /\ call'[q].phase = "posted" => \E i \in DOMAIN replies' : replies'[i] = q
      <4>1. CASE q = p
          BY <2>2, <2>3, <4>1
      <4>2. CASE q # p
          BY <2>2, <2>3, <4>2 DEF Places
      <4> QED BY <4>1, <4>2
    <3> QED BY <3>1, <3>2, <3>3 DEF Places
  <2>6. Progress'
      BY <2>3 DEF Progress
  <2>7. Connected'
    <3>1. /\ thread' # "panicked"
          /\ thread' # "running" => queue' = <<>>
          /\ conn' => thread' = "running"
        BY <1>1
    <3>2. conn' => \A i \in DOMAIN queue' : queue'[i] # CloseMessage
        BY <2>2, DatabaseAssumption DEF Connected
    <3>3. ~conn' /\ thread' = "running" => \E i \in DOMAIN queue' : queue'[i] = CloseMessage
        BY <2>2 DEF Connected
    <3>4. ASSUME NEW i \in DOMAIN queue', queue'[i] # CloseMessage, Reached(i)'
          PROVE  call'[queue'[i]].acted \/ call'[queue'[i]].holds
      <4>1. CASE i = n
        <5>1. \A j \in DOMAIN queue : queue[j] # CloseMessage
            BY <2>2, <3>4, <4>1 DEF Reached
        <5>2. conn
            BY <1>1, <5>1 DEF Connected, TypeOK
        <5> QED BY <2>2, <2>3, <4>1, <5>2
      <4>2. CASE i # n
        <5>1. i \in DOMAIN queue /\ queue[i] = queue'[i] /\ Reached(i)
            BY <2>2, <3>4, <4>2 DEF Reached
        <5> QED BY <2>2, <2>3, <3>4, <5>1 DEF Connected
      <4> QED BY <4>1, <4>2
    <3> QED BY <3>1, <3>2, <3>3, <3>4 DEF Connected
  <2> QED BY <2>5, <2>6, <2>7
<1>2. CASE thread # "running"
  <2>1. /\ call' = [call EXCEPT ![p] = Idle]
        /\ queue' = <<>> /\ queue = <<>>
      BY <1>2 DEF Send, Connected
  <2>2. /\ call'[p].phase = "idle"
        /\ \A q \in Promises \ {p} : call'[q] = call[q]
      BY <2>1 DEF TypeOK, Idle
  <2>3. \A i \in DOMAIN replies : replies[i] \in Promises \ {p}
      BY DEF TypeOK, Places
  <2>4. Places'
      BY <1>2, <2>1, <2>2, <2>3 DEF Places
  <2>5. Progress'
      BY <2>2 DEF Progress
  <2>6. Connected'
      BY <1>2, <2>1 DEF Connected
  <2> QED BY <2>4, <2>5, <2>6
<1> QED BY <1>1, <1>2

\* close() leaves every call where it is.
LEMMA CloseKeeps ==
    ASSUME DBInv, Close
    PROVE  Places' /\ Progress' /\ Connected'
<1> USE DEF DBInv
<1>0. call' = call /\ replies' = replies /\ thread' = thread /\ conn' = FALSE
    BY DEF Close
<1>1. Progress'
    BY <1>0 DEF Progress
<1>2. CASE thread = "running"
  <2> DEFINE n == Len(queue) + 1
  <2>1. queue' = Append(queue, CloseMessage)
      BY <1>2 DEF Close
  <2>2. /\ n \in Nat /\ n > 0
        /\ DOMAIN queue = 1 .. n - 1
        /\ DOMAIN queue' = 1 .. n
        /\ queue'[n] = CloseMessage
        /\ \A i \in 1 .. n - 1 : queue'[i] = queue[i]
    <3>1. queue \in Seq(Promises \union {CloseMessage})
        BY DEF TypeOK
    <3> QED BY <2>1, <3>1, AppendPlaces
  <2> HIDE DEF n
  <2>3. Places'
    <3>1. \A i \in DOMAIN queue' : queue'[i] # CloseMessage =>
             /\ call'[queue'[i]].phase = "queued"
             /\ \A j \in DOMAIN queue' : queue'[j] = queue'[i] => j = i
        BY <1>0, <2>2 DEF Places
    <3>2. ASSUME NEW q \in Promises, call'[q].phase = "queued"
          PROVE  \E i \in DOMAIN queue' : queue'[i] = q
      <4>1. PICK i \in DOMAIN queue : queue[i] = q
          BY <1>0, <1>2, <3>2 DEF Places
      <4> QED BY <2>2, <4>1
    <3> QED BY <1>0, <3>1, <3>2 DEF Places
  <2>4. Connected'
    <3>1. ASSUME NEW i \in DOMAIN queue', queue'[i] # CloseMessage, Reached(i)'
          PROVE  call'[queue'[i]].acted \/ call'[queue'[i]].holds
      <4>1. i \in DOMAIN queue /\ queue[i] = queue'[i] /\ Reached(i)
          BY <2>2, <3>1 DEF Reached
      <4> QED BY <1>0, <3>1, <4>1 DEF Connected
    <3> QED BY <1>0, <1>2, <2>2, <3>1 DEF Connected
  <2> QED BY <1>1, <2>3, <2>4
<1>3. CASE thread # "running"
  <2>1. queue' = queue /\ queue = <<>>
      BY <1>3 DEF Close, Connected
  <2> QED BY <1>0, <1>1, <1>3, <2>1 DEF Places, Connected
<1> QED BY <1>2, <1>3

\* The thread takes the closure of a call and posts its answer.
LEMMA PostKeeps ==
    ASSUME DBInv, NEW p \in Promises, NEW res,
           thread = "running",
           Waits(p),
           queue' = Tail(queue),
           replies' = Append(replies, p),
           call' = [call EXCEPT ![p] = Answered("posted", call[p].req, res)],
           UNCHANGED <<conn, thread>>
    PROVE  Places' /\ Progress' /\ Connected'
<1> USE DEF DBInv
<1> DEFINE n == Len(queue)
           m == Len(replies) + 1
<1>1. /\ n \in Nat /\ n > 0
      /\ DOMAIN queue = 1 .. n
      /\ DOMAIN queue' = 1 .. n - 1
      /\ queue[1] = p
      /\ \A i \in 1 .. n - 1 : queue'[i] = queue[i + 1]
  <2>1. queue \in Seq(Promises \union {CloseMessage}) /\ queue # <<>> /\ Head(queue) = p
      BY DEF TypeOK, Waits
  <2> QED BY <2>1, TailPlaces
<1>2. /\ m \in Nat /\ m > 0
      /\ DOMAIN replies = 1 .. m - 1
      /\ DOMAIN replies' = 1 .. m
      /\ replies'[m] = p
      /\ \A i \in 1 .. m - 1 : replies'[i] = replies[i]
  <2>1. replies \in Seq(Promises)
      BY DEF TypeOK
  <2> QED BY <2>1, AppendPlaces
<1> HIDE DEF n, m
<1>3. /\ call'[p].phase = "posted" /\ call'[p].acted
      /\ \A q \in Promises \ {p} : call'[q] = call[q]
  <2>1. /\ call'[p] = Answered("posted", call[p].req, res)
        /\ \A q \in Promises \ {p} : call'[q] = call[q]
      BY DEF TypeOK
  <2> QED BY <2>1 DEF Answered
<1>4. call[p].phase = "queued"
  <2>1. 1 \in DOMAIN queue /\ queue[1] # CloseMessage
      BY <1>1, DatabaseAssumption
  <2> QED BY <1>1, <2>1 DEF Places
<1>5. \A i \in DOMAIN queue : i # 1 => queue[i] \in (Promises \ {p}) \union {CloseMessage}
  <2>1. \A i \in DOMAIN queue : queue[i] \in Promises \union {CloseMessage}
      BY DEF TypeOK
  <2>2. \A i \in DOMAIN queue : queue[i] = p => i = 1
    <3>1. 1 \in DOMAIN queue /\ queue[1] # CloseMessage
        BY <1>1, DatabaseAssumption
    <3>2. \A i \in DOMAIN queue : queue[i] = queue[1] => i = 1
        BY <3>1 DEF Places
    <3> QED BY <1>1, <3>2
  <2> QED BY <2>1, <2>2
<1>6. \A i \in DOMAIN replies : replies[i] \in Promises \ {p}
    BY <1>4 DEF TypeOK, Places
<1>7. Places'
  <2>1. ASSUME NEW i \in DOMAIN queue', queue'[i] # CloseMessage
        PROVE  /\ call'[queue'[i]].phase = "queued"
               /\ \A j \in DOMAIN queue' : queue'[j] = queue'[i] => j = i
    <3>1. /\ i + 1 \in DOMAIN queue
          /\ queue[i + 1] = queue'[i]
          /\ queue'[i] \in Promises \ {p}
        BY <1>1, <1>5, <2>1
    <3>2. /\ call[queue[i + 1]].phase = "queued"
          /\ \A j \in DOMAIN queue : queue[j] = queue[i + 1] => j = i + 1
        BY <2>1, <3>1 DEF Places
    <3> QED BY <1>1, <1>3, <3>1, <3>2
  <2>2. \A i \in DOMAIN replies' :
           /\ call'[replies'[i]].phase = "posted"
           /\ \A j \in DOMAIN replies' : replies'[j] = replies'[i] => j = i
      BY <1>2, <1>3, <1>6 DEF Places
  <2>3. ASSUME NEW q \in Promises, call'[q].phase = "queued"
        PROVE  \E i \in DOMAIN queue' : queue'[i] = q
    <3>1. q # p /\ call[q].phase = "queued"
        BY <1>3, <2>3
    <3>2. PICK i \in DOMAIN queue : queue[i] = q
        BY <3>1 DEF Places
    <3>3. i # 1 /\ i - 1 \in DOMAIN queue' /\ queue'[i - 1] = q
        BY <1>1, <3>1, <3>2
    <3> QED BY <3>3
  <2>4. ASSUME NEW q \in Promises, call'[q].phase = "posted"
        PROVE  \E i \in DOMAIN replies' : replies'[i] = q
    <3>1. CASE q = p
        BY <1>2, <3>1
    <3>2. CASE q # p
      <4>1. PICK i \in DOMAIN replies : replies[i] = q
          BY <1>3, <2>4, <3>2 DEF Places
      <4> QED BY <1>2, <4>1
    <3> QED BY <3>1, <3>2
  <2> QED BY <2>1, <2>2, <2>3, <2>4 DEF Places
<1>8. Progress'
    BY <1>3 DEF Progress
<1>9. Connected'
  <2>1. ASSUME NEW i \in DOMAIN queue', queue'[i] # CloseMessage, Reached(i)'
        PROVE  call'[queue'[i]].acted \/ call'[queue'[i]].holds
    <3>1. /\ i + 1 \in DOMAIN queue
          /\ queue[i + 1] = queue'[i]
          /\ queue'[i] \in Promises \ {p}
        BY <1>1, <1>5, <2>1
    <3>2. Reached(i + 1)
      <4> SUFFICES ASSUME NEW j \in 1 .. (i + 1) - 1
                   PROVE  queue[j] # CloseMessage
          BY DEF Reached
      <4>1. CASE j = 1
          BY <1>1, <4>1, DatabaseAssumption
      <4>2. CASE j # 1
        <5>1. j - 1 \in 1 .. i - 1 /\ j - 1 \in 1 .. n - 1
            BY <1>1, <4>2
        <5>2. queue'[j - 1] # CloseMessage
            BY <2>1, <5>1 DEF Reached
        <5> QED BY <1>1, <5>1, <5>2
      <4> QED BY <4>1, <4>2
    <3> QED BY <1>3, <2>1, <3>1, <3>2 DEF Connected
  <2>2. conn => \A i \in DOMAIN queue' : queue'[i] # CloseMessage
      BY <1>1 DEF Connected
  <2>3. ~conn => \E i \in DOMAIN queue' : queue'[i] = CloseMessage
    <3> SUFFICES ASSUME ~conn
                 PROVE  \E i \in DOMAIN queue' : queue'[i] = CloseMessage
        OBVIOUS
    <3>1. PICK i \in DOMAIN queue : queue[i] = CloseMessage
        BY DEF Connected
    <3>2. i # 1
        BY <1>1, <3>1, DatabaseAssumption
    <3>3. i - 1 \in DOMAIN queue' /\ queue'[i - 1] = CloseMessage
        BY <1>1, <3>1, <3>2
    <3> QED BY <3>3
  <2> QED BY <2>1, <2>2, <2>3 DEF Connected
<1> QED BY <1>7, <1>8, <1>9

\* The thread ends with what is queued, and only on the message of close().
LEMMA EndKeeps ==
    ASSUME DBInv, thread = "running", ServeEnd
    PROVE  Places' /\ Progress' /\ Connected'
<1> USE DEF DBInv
<1>1. \A p \in Promises : ~PanicsOn(p)
  <2> SUFFICES ASSUME NEW p \in Promises, PanicsOn(p)
               PROVE  FALSE
      OBVIOUS
  <2>1. queue \in Seq(Promises \union {CloseMessage}) /\ queue # <<>> /\ Head(queue) = p
      BY DEF PanicsOn, Waits, TypeOK
  <2>2. 1 \in DOMAIN queue /\ queue[1] = p
      BY <2>1, TailPlaces
  <2>3. Reached(1)
      BY DEF Reached
  <2> QED BY <2>2, <2>3, DatabaseAssumption DEF Connected, PanicsOn
<1>2. thread' = "exited" /\ Waits(CloseMessage)
    BY <1>1 DEF ServeEnd
<1>3. ~conn
  <2>1. queue \in Seq(Promises \union {CloseMessage}) /\ queue # <<>> /\ Head(queue) = CloseMessage
      BY <1>2 DEF Waits, TypeOK
  <2>2. 1 \in DOMAIN queue /\ queue[1] = CloseMessage
      BY <2>1, TailPlaces
  <2> QED BY <2>2 DEF Connected
<1>4. queue' = <<>> /\ call' = call /\ replies' = replies /\ conn' = conn
    BY DEF ServeEnd
<1> QED BY <1>2, <1>3, <1>4 DEF Places, Progress, Connected

\* The event loop runs the oldest closure that was posted.
LEMMA DeliverKeeps ==
    ASSUME DBInv, Deliver
    PROVE  Places' /\ Progress' /\ Connected'
<1> USE DEF DBInv
<1> DEFINE n == Len(replies)
           p == Head(replies)
           c == IF call[p].req.op = "clearRange"
                THEN Answered("collected", call[p].req, call[p].res) ELSE Idle
<1>1. /\ n \in Nat /\ n > 0
      /\ DOMAIN replies = 1 .. n
      /\ DOMAIN replies' = 1 .. n - 1
      /\ replies[1] = p
      /\ \A i \in 1 .. n - 1 : replies'[i] = replies[i + 1]
      /\ p \in Promises
  <2>1. replies \in Seq(Promises) /\ replies # <<>> /\ replies' = Tail(replies)
      BY DEF TypeOK, Deliver
  <2> QED BY <2>1, TailPlaces
<1>2. /\ call' = [call EXCEPT ![p] = c]
      /\ UNCHANGED <<queue, thread, conn>>
    BY DEF Deliver
<1>3. /\ c.phase \in {"idle", "collected"}
      /\ c.phase = "collected" => c.req.op = "clearRange"
    BY DEF Answered, Idle
<1> HIDE DEF n, p, c
<1>4. /\ call'[p] = c
      /\ \A q \in Promises \ {p} : call'[q] = call[q]
    BY <1>1, <1>2 DEF TypeOK
<1>5. call[p].phase = "posted"
    BY <1>1 DEF Places
<1>6. \A i \in DOMAIN replies : i # 1 => replies[i] \in Promises \ {p}
  <2>1. \A i \in DOMAIN replies : replies[i] \in Promises
      BY DEF TypeOK
  <2>2. \A i \in DOMAIN replies : replies[i] = p => i = 1
      BY <1>1 DEF Places
  <2> QED BY <2>1, <2>2
<1>7. \A i \in DOMAIN queue : queue[i] \in (Promises \ {p}) \union {CloseMessage}
    BY <1>5 DEF TypeOK, Places
<1>8. Places'
  <2>1. \A i \in DOMAIN queue' : queue'[i] # CloseMessage =>
           /\ call'[queue'[i]].phase = "queued"
           /\ \A j \in DOMAIN queue' : queue'[j] = queue'[i] => j = i
      BY <1>2, <1>4, <1>7 DEF Places
  <2>2. ASSUME NEW i \in DOMAIN replies'
        PROVE  /\ call'[replies'[i]].phase = "posted"
               /\ \A j \in DOMAIN replies' : replies'[j] = replies'[i] => j = i
    <3>1. /\ i + 1 \in DOMAIN replies
          /\ replies[i + 1] = replies'[i]
          /\ replies'[i] \in Promises \ {p}
        BY <1>1, <1>6
    <3>2. /\ call[replies[i + 1]].phase = "posted"
          /\ \A j \in DOMAIN replies : replies[j] = replies[i + 1] => j = i + 1
        BY <3>1 DEF Places
    <3>3. ASSUME NEW j \in DOMAIN replies', replies'[j] = replies'[i]
          PROVE  j = i
      <4>1. j + 1 \in DOMAIN replies /\ replies[j + 1] = replies[i + 1]
          BY <1>1, <3>1, <3>3
      <4>2. j + 1 = i + 1 /\ i \in Int /\ j \in Int
          BY <1>1, <3>2, <4>1
      <4> QED BY <4>2
    <3> QED BY <1>4, <3>1, <3>2, <3>3
  <2>3. ASSUME NEW q \in Promises, call'[q].phase = "queued", thread' = "running"
        PROVE  \E i \in DOMAIN queue' : queue'[i] = q
      BY <1>2, <1>3, <1>4, <2>3 DEF Places
  <2>4. ASSUME NEW q \in Promises, call'[q].phase = "posted"
        PROVE  \E i \in DOMAIN replies' : replies'[i] = q
    <3>1. q # p /\ call[q].phase = "posted"
        BY <1>3, <1>4, <2>4
    <3>2. PICK i \in DOMAIN replies : replies[i] = q
        BY <3>1 DEF Places
    <3>3. i # 1 /\ i - 1 \in DOMAIN replies' /\ replies'[i - 1] = q
        BY <1>1, <3>1, <3>2
    <3> QED BY <3>3
  <2> QED BY <2>1, <2>2, <2>3, <2>4 DEF Places
<1>9. Progress'
    BY <1>3, <1>4 DEF Progress
<1>10. Connected'
    BY <1>2, <1>4, <1>7 DEF Connected, Reached
<1> QED BY <1>8, <1>9, <1>10

----------------------------------------------------------------------------
(* Type correctness of a step.                                             *)

\* What is known of a call when it is replaced.
CallOK(c) ==
    /\ c.phase \in Phases
    /\ c.holds \in BOOLEAN
    /\ c.acted \in BOOLEAN
    /\ c.phase # "idle" => c.req \in Requests

\* Replacing one call by a well-formed one.
LEMMA CallsType ==
    ASSUME TypeOK, NEW p \in Promises, NEW c, CallOK(c),
           call' = [call EXCEPT ![p] = c]
    PROVE  DOMAIN call' = Promises /\ \A q \in Promises : CallOK(call'[q])
BY DEF TypeOK, CallOK

\* Sending keeps the queue and the calls well-typed.
LEMMA SendType ==
    ASSUME TypeOK, NEW p \in Promises, NEW closure, CallOK(closure), Send(p, closure)
    PROVE  /\ queue' \in Seq(Promises \union {CloseMessage})
           /\ DOMAIN call' = Promises
           /\ \A q \in Promises : CallOK(call'[q])
<1>1. CallOK(Idle)
    BY DEF CallOK, Idle, Phases
<1>2. queue \in Seq(Promises \union {CloseMessage})
    BY DEF TypeOK
<1>3. CASE thread = "running"
  <2>1. queue' = Append(queue, p) /\ call' = [call EXCEPT ![p] = closure]
      BY <1>3 DEF Send
  <2>2. queue' \in Seq(Promises \union {CloseMessage})
      BY <1>2, <2>1, AppendPlaces
  <2> QED BY <2>1, <2>2, CallsType
<1>4. CASE thread # "running"
  <2>1. queue' = queue /\ call' = [call EXCEPT ![p] = Idle]
      BY <1>4 DEF Send
  <2> QED BY <1>1, <1>2, <2>1, CallsType
<1> QED BY <1>3, <1>4

----------------------------------------------------------------------------
(* The steps put together.                                                 *)

\* The requests of a database are requests.
LEMMA RequestsOfKind ==
    ASSUME NEW k \in Kinds
    PROVE  EagerRequests(k) \subseteq Requests /\ LazyRequests(k) \subseteq Requests
BY DEF Requests

\* The closure of a call that the thread runs next is that of a queued call.
LEMMA WaitsIsQueued ==
    ASSUME DBInv, NEW p \in Promises, Waits(p)
    PROVE  call[p].phase = "queued"
<1>1. queue \in Seq(Promises \union {CloseMessage}) /\ queue # <<>> /\ Head(queue) = p
    BY DEF DBInv, TypeOK, Waits
<1>2. 1 \in DOMAIN queue /\ queue[1] = p
    BY <1>1, TailPlaces
<1> QED BY <1>2, DatabaseAssumption DEF DBInv, Places

\* get, has, set, del and commit.
LEMMA CallNowKeeps ==
    ASSUME DBInv, Track, NEW p \in Promises, NEW req \in EagerRequests(kind), CallNow(p, req)
    PROVE  DBInv'
<1> DEFINE closure == Answered("queued", req, Answer(kind, store, req))
<1>1. req \in Requests
    BY RequestsOfKind DEF DBInv, TypeOK
<1>2. /\ closure.phase = "queued" /\ closure.acted = TRUE /\ closure.holds = FALSE
      /\ CallOK(closure)
    BY <1>1 DEF Answered, CallOK, Phases
<1>3. /\ call[p].phase = "idle"
      /\ UNCHANGED <<kind, conn, thread, replies, batch>>
    BY DEF CallNow
<1>4. fresh' \in [Promises -> SUBSET Keys]
    BY TrackType DEF DBInv
<1>5. CASE conn
  <2>1. store' = Effect(store, batch, req) /\ Send(p, closure)
      BY <1>5 DEF CallNow
  <2> HIDE DEF closure
  <2>2. store' \in Store
      BY <1>1, <2>1, EffectType DEF DBInv, TypeOK
  <2>3. /\ queue' \in Seq(Promises \union {CloseMessage})
        /\ DOMAIN call' = Promises
        /\ \A q \in Promises : CallOK(call'[q])
      BY <1>2, <2>1, SendType DEF DBInv
  <2>4. TypeOK'
      BY <1>3, <1>4, <2>2, <2>3 DEF DBInv, TypeOK, CallOK
  <2>5. Places' /\ Progress' /\ Connected'
    <3>1. /\ closure.acted \in BOOLEAN /\ closure.holds \in BOOLEAN
          /\ conn => closure.acted \/ closure.holds
        BY <1>2
    <3>2. call[p].phase \in {"idle", "collected"} /\ UNCHANGED <<conn, thread, replies>>
        BY <1>3
    <3> QED BY <1>2, <2>1, <3>1, <3>2, SendKeeps
  <2> QED BY <2>4, <2>5 DEF DBInv
<1>6. CASE ~conn
  <2>1. UNCHANGED <<store, queue, call>>
      BY <1>6 DEF CallNow
  <2>2. TypeOK'
      BY <1>3, <1>4, <2>1 DEF DBInv, TypeOK
  <2> QED BY <1>3, <2>1, <2>2 DEF DBInv, Places, Progress, Connected, Reached
<1> QED BY <1>5, <1>6

\* A closure that is sent with whatever connection there is.
LEMMA PendingKeeps ==
    ASSUME DBInv, Track, NEW p \in Promises, NEW req \in Requests,
           call[p].phase \in {"idle", "collected"},
           Send(p, Pending(req)),
           UNCHANGED <<kind, store, conn, thread, replies, batch>>
    PROVE  DBInv'
<1> DEFINE closure == Pending(req)
<1>1. /\ closure.phase = "queued" /\ closure.acted = FALSE /\ closure.holds = conn
      /\ CallOK(closure)
    BY DEF Pending, Closure, CallOK, Phases, DBInv, TypeOK
<1>2. fresh' \in [Promises -> SUBSET Keys]
    BY TrackType DEF DBInv
<1>3. conn \in BOOLEAN
    BY DEF DBInv, TypeOK
<1> HIDE DEF closure
<1>4. Send(p, closure)
    BY DEF closure
<1>5. /\ queue' \in Seq(Promises \union {CloseMessage})
      /\ DOMAIN call' = Promises
      /\ \A q \in Promises : CallOK(call'[q])
    BY <1>1, <1>4, SendType DEF DBInv
<1>6. TypeOK'
    BY <1>2, <1>5 DEF DBInv, TypeOK, CallOK
<1>7. Places' /\ Progress' /\ Connected'
  <2>1. /\ closure.acted \in BOOLEAN /\ closure.holds \in BOOLEAN
        /\ conn => closure.acted \/ closure.holds
      BY <1>1, <1>3
  <2>2. UNCHANGED <<conn, thread, replies>>
      OBVIOUS
  <2> QED BY <1>1, <1>4, <2>1, <2>2, SendKeeps
<1> QED BY <1>6, <1>7 DEF DBInv

\* The second half of a clear is a request.
LEMMA RemoveIsRequest ==
    ASSUME DBInv, NEW p \in Promises, call[p].phase = "collected"
    PROVE  [op |-> "remove", keys |-> RowKeys(call[p].res.val), opt |-> call[p].req.opt] \in Requests
<1>1. call[p].req \in Requests /\ call[p].req.op = "clearRange"
    BY DEF DBInv, TypeOK, Progress
<1>2. call[p].req.opt \in ClearOptions
    BY <1>1, RequestFields
<1>3. RowKeys(call[p].res.val) \in SUBSET Keys
    BY DEF RowKeys
<1> QED BY <1>2, <1>3 DEF Requests, RemoveRequests

\* The thread posts an answer, of a call that was carried out before or is now.
LEMMA ServePostKeeps ==
    ASSUME DBInv, Track, thread = "running", NEW p \in Promises, ServeAnswered(p) \/ ServeCall(p)
    PROVE  DBInv'
<1> DEFINE res == IF call[p].acted THEN call[p].res ELSE Answer(kind, store, call[p].req)
<1>1. /\ Waits(p)
      /\ queue' = Tail(queue)
      /\ replies' = Append(replies, p)
      /\ call' = [call EXCEPT ![p] = Answered("posted", call[p].req, res)]
      /\ UNCHANGED <<kind, conn, thread, batch>>
    BY DEF ServeAnswered, ServeCall
<1> HIDE DEF res
<1>2. Places' /\ Progress' /\ Connected'
    BY <1>1, PostKeeps
<1>3. call[p].req \in Requests
  <2>1. queue \in Seq(Promises \union {CloseMessage}) /\ queue # <<>> /\ Head(queue) = p
      BY <1>1 DEF DBInv, TypeOK, Waits
  <2>2. 1 \in DOMAIN queue /\ queue[1] = p
      BY <2>1, TailPlaces
  <2>3. call[p].phase = "queued"
      BY <2>2, DatabaseAssumption DEF DBInv, Places
  <2> QED BY <2>3 DEF DBInv, TypeOK
<1>4. store' \in Store
    BY <1>3, EffectType DEF ServeAnswered, ServeCall, DBInv, TypeOK
<1>5. CallOK(Answered("posted", call[p].req, res))
    BY <1>3 DEF Answered, CallOK, Phases
<1>6. DOMAIN call' = Promises /\ \A q \in Promises : CallOK(call'[q])
    BY <1>1, <1>5, CallsType DEF DBInv
<1>7. queue' \in Seq(Promises \union {CloseMessage}) /\ replies' \in Seq(Promises)
  <2>1. queue \in Seq(Promises \union {CloseMessage}) /\ queue # <<>> /\ replies \in Seq(Promises)
      BY <1>1 DEF DBInv, TypeOK, Waits
  <2> QED BY <1>1, <2>1, TailPlaces, AppendPlaces
<1>8. fresh' \in [Promises -> SUBSET Keys]
    BY TrackType DEF DBInv
<1>9. TypeOK'
    BY <1>1, <1>4, <1>6, <1>7, <1>8 DEF DBInv, TypeOK, CallOK
<1> QED BY <1>2, <1>9 DEF DBInv

\* The first half of a clear: the closure stays where it is.
LEMMA ScanKeeps ==
    ASSUME DBInv, Track, NEW p \in Promises, ServeScan(p)
    PROVE  DBInv'
<1> DEFINE c == Closure(Fixed(store, call[p].req), TRUE)
<1>1. /\ call' = [call EXCEPT ![p] = c]
      /\ UNCHANGED <<kind, store, conn, thread, queue, replies, batch>>
    BY DEF ServeScan
<1>2. call[p].phase = "queued"
    BY WaitsIsQueued DEF ServeScan
<1>3. Fixed(store, call[p].req) \in Requests
    BY <1>2, FixedType DEF DBInv, TypeOK
<1>4. CallOK(c) /\ c.phase = "queued" /\ c.holds
    BY <1>3 DEF Closure, CallOK, Phases
<1> HIDE DEF c
<1>5. DOMAIN call' = Promises /\ \A q \in Promises : CallOK(call'[q])
    BY <1>1, <1>4, CallsType DEF DBInv
<1>6. fresh' \in [Promises -> SUBSET Keys]
    BY TrackType DEF DBInv
<1>7. TypeOK'
    BY <1>1, <1>5, <1>6 DEF DBInv, TypeOK, CallOK
<1>8. /\ call'[p] = c
      /\ \A q \in Promises \ {p} : call'[q] = call[q]
    BY <1>1 DEF DBInv, TypeOK
<1>9. \A q \in Promises : call'[q].phase = call[q].phase
    BY <1>2, <1>4, <1>8
<1>10. Places'
    BY <1>1, <1>9 DEF DBInv, TypeOK, Places
<1>11. Progress'
    BY <1>2, <1>8, <1>9 DEF DBInv, Progress
<1>12. Connected'
    BY <1>1, <1>4, <1>8 DEF DBInv, TypeOK, Connected, Reached
<1> QED BY <1>7, <1>10, <1>11, <1>12 DEF DBInv

\* The event loop.
LEMMA DeliverType ==
    ASSUME DBInv, Track, Deliver
    PROVE  TypeOK'
<1> DEFINE p == Head(replies)
           c == IF call[p].req.op = "clearRange"
                THEN Answered("collected", call[p].req, call[p].res) ELSE Idle
<1>1. replies \in Seq(Promises) /\ replies # <<>> /\ replies' = Tail(replies)
    BY DEF DBInv, TypeOK, Deliver
<1>2. p \in Promises /\ replies' \in Seq(Promises) /\ 1 \in DOMAIN replies /\ replies[1] = p
    BY <1>1, TailPlaces
<1>3. call[p].req \in Requests
    BY <1>2 DEF DBInv, TypeOK, Places
<1>4. CallOK(c)
    BY <1>3 DEF Answered, Idle, CallOK, Phases
<1>5. /\ call' = [call EXCEPT ![p] = c]
      /\ UNCHANGED <<kind, store, conn, thread, queue, batch>>
    BY DEF Deliver
<1> HIDE DEF p, c
<1>6. DOMAIN call' = Promises /\ \A q \in Promises : CallOK(call'[q])
    BY <1>2, <1>4, <1>5, CallsType DEF DBInv
<1>7. fresh' \in [Promises -> SUBSET Keys]
    BY TrackType DEF DBInv
<1> QED BY <1>2, <1>5, <1>6, <1>7 DEF DBInv, TypeOK, CallOK

\* The initial states satisfy the invariant.
LEMMA InitKeeps ==
    ASSUME Init
    PROVE  DBInv
<1>1. TypeOK
  <2>1. /\ queue \in Seq(Promises \union {CloseMessage})
        /\ replies \in Seq(Promises)
      BY DEF Init
  <2>2. /\ DOMAIN call = Promises
        /\ \A p \in Promises : call[p] = Idle
      BY DEF Init
  <2>3. batch \in [BatchIds -> Batch]
      BY DEF Init, Batch
  <2> QED BY <2>1, <2>2, <2>3 DEF Init, TypeOK, Idle, Phases
<1>2. Places /\ Progress /\ Connected
    BY DEF Init, Places, Progress, Connected, Idle
<1> QED BY <1>1, <1>2 DEF DBInv

\* Every step preserves the invariant.
LEMMA NextKeeps ==
    ASSUME DBInv, [Next]_vars
    PROVE  DBInv'
<1>1. CASE UNCHANGED vars
    BY <1>1 DEF vars, DBInv, TypeOK, Places, Progress, Connected, Reached
<1>2. CASE Next
  <2>0. Track /\ fresh' \in [Promises -> SUBSET Keys]
      BY <1>2, TrackType DEF Next, DBInv
  <2>1. ASSUME NEW p \in Promises, NEW req \in EagerRequests(kind), CallNow(p, req)
        PROVE  DBInv'
      BY <2>0, <2>1, CallNowKeeps
  <2>2. ASSUME NEW p \in Promises, NEW req \in LazyRequests(kind), CallLater(p, req)
        PROVE  DBInv'
    <3>1. req \in Requests
        BY RequestsOfKind DEF DBInv, TypeOK
    <3> QED BY <2>0, <2>2, <3>1, PendingKeeps DEF CallLater
  <2>3. ASSUME NEW p \in Promises, ClearWrite(p)
        PROVE  DBInv'
    <3>1. [op |-> "remove", keys |-> RowKeys(call[p].res.val), opt |-> call[p].req.opt] \in Requests
        BY <2>3, RemoveIsRequest DEF ClearWrite
    <3> QED BY <2>0, <2>3, <3>1, PendingKeeps DEF ClearWrite
  <2>4. ASSUME NEW b \in BatchIds, NEW key \in Keys, NEW val \in Values \union {None},
               ChangeBatch(b, key, val)
        PROVE  DBInv'
    <3>1. batch' \in [BatchIds -> Batch]
        BY <2>4 DEF ChangeBatch, DBInv, TypeOK, Batch
    <3>2. UNCHANGED <<kind, store, conn, thread, queue, replies, call>>
        BY <2>4 DEF ChangeBatch
    <3> QED BY <2>0, <3>1, <3>2 DEF DBInv, TypeOK, Places, Progress, Connected, Reached
  <2>5. CASE Close
    <3>1. queue' \in Seq(Promises \union {CloseMessage})
      <4>1. queue \in Seq(Promises \union {CloseMessage})
          BY DEF DBInv, TypeOK
      <4> QED BY <2>5, <4>1, AppendPlaces DEF Close
    <3>2. conn' = FALSE /\ UNCHANGED <<kind, store, thread, replies, call, batch>>
        BY <2>5 DEF Close
    <3>3. TypeOK'
        BY <2>0, <3>1, <3>2 DEF DBInv, TypeOK
    <3> QED BY <2>5, <3>3, CloseKeeps DEF DBInv
  <2>6. CASE Serve
    <3>1. ASSUME NEW p \in Promises, ServeAnswered(p) \/ ServeCall(p)
          PROVE  DBInv'
        BY <2>0, <2>6, <3>1, ServePostKeeps DEF Serve
    <3>2. ASSUME NEW p \in Promises, ServeScan(p)
          PROVE  DBInv'
        BY <2>0, <3>2, ScanKeeps
    <3>3. CASE ServeEnd
      <4>1. Places' /\ Progress' /\ Connected'
          BY <2>6, <3>3, EndKeeps DEF Serve
      <4>2. TypeOK'
          BY <2>0, <3>3 DEF ServeEnd, DBInv, TypeOK
      <4> QED BY <4>1, <4>2 DEF DBInv
    <3> QED BY <2>6, <3>1, <3>2, <3>3 DEF Serve
  <2>7. CASE Deliver
      BY <2>0, <2>7, DeliverType, DeliverKeeps DEF DBInv
  <2> QED BY <1>2, <2>1, <2>2, <2>3, <2>4, <2>5, <2>6, <2>7 DEF Next, Step
<1> QED BY <1>1, <1>2

----------------------------------------------------------------------------
(* Theorems.                                                               *)

\* The invariant holds in every reachable state.
THEOREM Invariant == Spec => []DBInv
<1>1. Init => DBInv
    BY InitKeeps
<1>2. DBInv /\ [Next]_vars => DBInv'
    BY NextKeeps
<1> QED BY <1>1, <1>2, PTL DEF Spec

\* The state keeps its type, whatever the callers do and whenever they close.
THEOREM TypeCorrect == Spec => []TypeOK
<1>1. DBInv => TypeOK
    BY DEF DBInv
<1> QED BY <1>1, Invariant, PTL

\* However close() falls between the calls, the thread never runs a closure
\* that was given no connection.
THEOREM NeverPanics == Spec => []ThreadNeverPanics
<1>1. DBInv => ThreadNeverPanics
    BY DEF DBInv, Connected, ThreadNeverPanics
<1> QED BY <1>1, Invariant, PTL

\* A set of places that are all the same holds one place or none.
LEMMA OnePlace ==
    ASSUME NEW p, NEW s,
           \A i \in DOMAIN s : s[i] = p => \A j \in DOMAIN s : s[j] = s[i] => j = i
    PROVE  /\ (\E i \in DOMAIN s : s[i] = p) => Times(p, s) = 1
           /\ ~(\E i \in DOMAIN s : s[i] = p) => Times(p, s) = 0
<1>1. ASSUME NEW i \in DOMAIN s, s[i] = p
      PROVE  Times(p, s) = 1
  <2>1. {k \in DOMAIN s : s[k] = p} = {i}
      BY <1>1
  <2> QED BY <2>1, FS_Singleton DEF Times
<1>2. ASSUME ~(\E i \in DOMAIN s : s[i] = p)
      PROVE  Times(p, s) = 0
  <2>1. {k \in DOMAIN s : s[k] = p} = {}
      BY <1>2
  <2> QED BY <2>1, FS_EmptySet DEF Times
<1> QED BY <1>1, <1>2

\* No call is answered twice, and none is lost while the thread runs.
THEOREM CallsAlwaysTracked == Spec => []CallsTracked
<1>1. DBInv => CallsTracked
  <2> SUFFICES ASSUME DBInv, NEW p \in Promises
               PROVE  /\ Times(p, replies) = (IF call[p].phase = "posted" THEN 1 ELSE 0)
                      /\ Times(p, queue) = (IF call[p].phase = "queued" /\ thread = "running" THEN 1 ELSE 0)
      BY DEF CallsTracked
  <2>1. Times(p, replies) = (IF call[p].phase = "posted" THEN 1 ELSE 0)
    <3>1. \A i \in DOMAIN replies : replies[i] = p => \A j \in DOMAIN replies : replies[j] = replies[i] => j = i
        BY DEF DBInv, Places
    <3>2. (\E i \in DOMAIN replies : replies[i] = p) <=> call[p].phase = "posted"
        BY DEF DBInv, Places
    <3> QED BY <3>1, <3>2, OnePlace
  <2>2. Times(p, queue) = (IF call[p].phase = "queued" /\ thread = "running" THEN 1 ELSE 0)
    <3>1. \A i \in DOMAIN queue : queue[i] = p => \A j \in DOMAIN queue : queue[j] = queue[i] => j = i
        BY DatabaseAssumption DEF DBInv, Places
    <3>2. (\E i \in DOMAIN queue : queue[i] = p) <=> (call[p].phase = "queued" /\ thread = "running")
      <4>1. ASSUME NEW i \in DOMAIN queue, queue[i] = p
            PROVE  call[p].phase = "queued" /\ thread = "running"
        <5>1. queue # <<>>
            BY <4>1
        <5> QED BY <4>1, <5>1, DatabaseAssumption DEF DBInv, Places, Connected
      <4> QED BY <4>1 DEF DBInv, Places
    <3> QED BY <3>1, <3>2, OnePlace
  <2> QED BY <2>1, <2>2
<1> QED BY <1>1, Invariant, PTL

----------------------------------------------------------------------------
(* The refinement.                                                         *)

\* A step that replaces one call replaces one call of the abstract store.
LEMMA OneCall ==
    ASSUME TypeOK, NEW p \in Promises, NEW c, call' = [call EXCEPT ![p] = c]
    PROVE  LinearCalls' = [LinearCalls EXCEPT ![p] = LinearCall(c)]
<1>1. call'[p] = c /\ \A q \in Promises \ {p} : call'[q] = call[q]
    BY DEF TypeOK
<1>2. LinearCalls' = [q \in Promises |-> LinearCall(call'[q])]
    BY DEF LinearCalls
<1>3. \A q \in Promises : LinearCall(call'[q]) = [LinearCalls EXCEPT ![p] = LinearCall(c)][q]
    BY <1>1 DEF LinearCalls
<1> QED BY <1>2, <1>3 DEF LinearCalls

\* A step that replaces a call by one the caller cannot tell from it changes
\* nothing.
LEMMA SameCall ==
    ASSUME TypeOK, NEW p \in Promises, NEW c, call' = [call EXCEPT ![p] = c],
           LinearCall(c) = LinearCall(call[p])
    PROVE  LinearCalls' = LinearCalls
<1>1. call'[p] = c /\ \A q \in Promises \ {p} : call'[q] = call[q]
    BY DEF TypeOK
<1> QED BY <1>1 DEF LinearCalls

\* A closure that is sent to be carried out later is an open call; one that
\* is refused leaves no trace.
LEMMA PendingRefines ==
    ASSUME DBInv, NEW p \in Promises, NEW req \in Requests,
           call[p].phase \in {"idle", "collected"},
           Send(p, Pending(req)),
           UNCHANGED <<kind, store, batch>>
    PROVE  Linear!Invoke(p, req) \/ LinearCalls' = LinearCalls
<1>1. LinearCall(call[p]) = [phase |-> "idle", req |-> None, res |-> None]
    BY DEF LinearCall
<1>2. CASE thread = "running"
  <2>1. call' = [call EXCEPT ![p] = Pending(req)]
      BY <1>2 DEF Send
  <2>2. LinearCall(Pending(req)) = Linear!OpenCall(req)
      BY DEF LinearCall, Pending, Closure, Linear!OpenCall
  <2>3. LinearCalls' = [LinearCalls EXCEPT ![p] = Linear!OpenCall(req)]
      BY <2>1, <2>2, OneCall DEF DBInv
  <2>4. LinearCalls[p].phase = "idle"
      BY <1>1 DEF LinearCalls
  <2> QED BY <2>3, <2>4 DEF Linear!Invoke
<1>3. CASE thread # "running"
  <2>1. call' = [call EXCEPT ![p] = Idle]
      BY <1>3 DEF Send
  <2>2. LinearCall(Idle) = LinearCall(call[p])
      BY <1>1 DEF LinearCall, Idle
  <2> QED BY <2>1, <2>2, SameCall DEF DBInv
<1> QED BY <1>2, <1>3

\* Every step of the database is a step of the abstract store, or none.
LEMMA StepRefines ==
    ASSUME DBInv, [Next]_vars
    PROVE  [Linear!LinearNext]_Linear!linearVars
<1>0. TypeOK /\ kind \in Kinds
    BY DEF DBInv, TypeOK
<1>a. ASSUME UNCHANGED <<kind, store, batch>>, LinearCalls' = LinearCalls
      PROVE  UNCHANGED Linear!linearVars
    BY <1>a DEF Linear!linearVars
<1>b. ASSUME UNCHANGED <<kind, store, batch, call>>
      PROVE  UNCHANGED Linear!linearVars
    BY <1>b DEF Linear!linearVars, LinearCalls
<1>1. CASE UNCHANGED vars
    BY <1>1, <1>b DEF vars
<1>2. ASSUME NEW p \in Promises, NEW req \in EagerRequests(kind), CallNow(p, req)
      PROVE  [Linear!LinearNext]_Linear!linearVars
  <2>1. CASE conn
    <3>1. thread = "running"
        BY <2>1 DEF DBInv, Connected
    <3>2. call' = [call EXCEPT ![p] = Answered("queued", req, Answer(kind, store, req))]
        BY <1>2, <2>1, <3>1 DEF CallNow, Send
    <3>3. LinearCall(Answered("queued", req, Answer(kind, store, req))) = Linear!DoneCall(req)
        BY DEF LinearCall, Answered, Linear!DoneCall
    <3>4. LinearCalls' = [LinearCalls EXCEPT ![p] = Linear!DoneCall(req)]
        BY <1>0, <3>2, <3>3, OneCall
    <3>5. LinearCalls[p].phase = "idle"
        BY <1>2 DEF LinearCalls, LinearCall, CallNow
    <3>6. req \in Requests
        BY <1>0, RequestsOfKind
    <3>7. Linear!InvokeAndAct(p, req)
        BY <1>2, <2>1, <3>4, <3>5, EagerIsReady DEF Linear!InvokeAndAct, Linear!Ready, CallNow
    <3> QED BY <3>6, <3>7 DEF Linear!LinearNext
  <2>2. CASE ~conn
      BY <1>2, <1>b, <2>2 DEF CallNow
  <2> QED BY <2>1, <2>2
<1>3. ASSUME NEW p \in Promises, NEW req \in LazyRequests(kind), CallLater(p, req)
      PROVE  [Linear!LinearNext]_Linear!linearVars
  <2>1. req \in Requests
      BY <1>0, RequestsOfKind
  <2>2. Linear!Invoke(p, req) \/ LinearCalls' = LinearCalls
      BY <1>3, <2>1, PendingRefines DEF CallLater
  <2> QED BY <1>3, <1>a, <2>1, <2>2 DEF Linear!LinearNext, CallLater
<1>4. ASSUME NEW p \in Promises, ClearWrite(p)
      PROVE  [Linear!LinearNext]_Linear!linearVars
  <2> DEFINE req == [op |-> "remove", keys |-> RowKeys(call[p].res.val), opt |-> call[p].req.opt]
  <2>1. req \in Requests
      BY <1>4, RemoveIsRequest DEF ClearWrite
  <2>2. /\ call[p].phase \in {"idle", "collected"}
        /\ Send(p, Pending(req))
        /\ UNCHANGED <<kind, store, batch>>
      BY <1>4 DEF ClearWrite
  <2> HIDE DEF req
  <2>3. Linear!Invoke(p, req) \/ LinearCalls' = LinearCalls
      BY <2>1, <2>2, PendingRefines
  <2> QED BY <1>a, <2>1, <2>2, <2>3 DEF Linear!LinearNext
<1>5. ASSUME NEW b \in BatchIds, NEW key \in Keys, NEW val \in Values \union {None},
             ChangeBatch(b, key, val)
      PROVE  [Linear!LinearNext]_Linear!linearVars
  <2> DEFINE change == [batch[b] EXCEPT ![key] = val]
  <2>1. change \in Batch
      BY <1>0 DEF TypeOK, Batch
  <2>2. batch' = [batch EXCEPT ![b] = change]
      BY <1>5 DEF ChangeBatch
  <2>3. UNCHANGED <<kind, store, LinearCalls>>
      BY <1>5 DEF ChangeBatch, LinearCalls
  <2> HIDE DEF change
  <2>4. Linear!ChangeBatch(b, change)
      BY <2>2, <2>3 DEF Linear!ChangeBatch
  <2> QED BY <2>1, <2>4 DEF Linear!LinearNext
<1>6. CASE Close
    BY <1>6, <1>b DEF Close
<1>7. ASSUME NEW p \in Promises, ServeAnswered(p)
      PROVE  [Linear!LinearNext]_Linear!linearVars
  <2>1. call[p].phase = "queued" /\ call[p].acted
      BY <1>7, WaitsIsQueued DEF ServeAnswered
  <2>2. LinearCall(Answered("posted", call[p].req, call[p].res)) = LinearCall(call[p])
      BY <2>1 DEF LinearCall, Answered
  <2>3. call' = [call EXCEPT ![p] = Answered("posted", call[p].req, call[p].res)]
      BY <1>7 DEF ServeAnswered
  <2>4. LinearCalls' = LinearCalls
      BY <1>0, <2>2, <2>3, SameCall
  <2> QED BY <1>7, <1>a, <2>4 DEF ServeAnswered
<1>8. ASSUME NEW p \in Promises, ServeCall(p)
      PROVE  [Linear!LinearNext]_Linear!linearVars
  <2>1. call[p].phase = "queued" /\ ~call[p].acted
      BY <1>8, WaitsIsQueued DEF ServeCall
  <2>2. LinearCalls[p].phase = "open" /\ LinearCalls[p].req = call[p].req
      BY <2>1 DEF LinearCalls, LinearCall
  <2>3. LinearCall(Answered("posted", call[p].req, Answer(kind, store, call[p].req)))
            = Linear!DoneCall(call[p].req)
      BY DEF LinearCall, Answered, Linear!DoneCall
  <2>4. call' = [call EXCEPT ![p] = Answered("posted", call[p].req, Answer(kind, store, call[p].req))]
      BY <1>8 DEF ServeCall
  <2>5. LinearCalls' = [LinearCalls EXCEPT ![p] = Linear!DoneCall(call[p].req)]
      BY <1>0, <2>3, <2>4, OneCall
  <2>6. Linear!Ready(call[p].req)
      BY <1>8 DEF ServeCall, Fixed, Linear!Ready
  <2>7. Linear!Act(p)
      BY <1>8, <2>2, <2>5, <2>6 DEF Linear!Act, ServeCall
  <2> QED BY <2>7 DEF Linear!LinearNext
<1>9. CASE ServeEnd
    BY <1>9, <1>b DEF ServeEnd
<1>10. CASE Deliver
  <2> DEFINE p == Head(replies)
             c == IF call[p].req.op = "clearRange"
                  THEN Answered("collected", call[p].req, call[p].res) ELSE Idle
  <2>1. replies \in Seq(Promises) /\ replies # <<>>
      BY <1>0, <1>10 DEF TypeOK, Deliver
  <2>2. p \in Promises /\ 1 \in DOMAIN replies /\ replies[1] = p
      BY <2>1, TailPlaces
  <2>3. call[p].phase = "posted" /\ call[p].acted
      BY <2>2 DEF DBInv, Places, Progress
  <2>4. call' = [call EXCEPT ![p] = c] /\ UNCHANGED <<kind, store, batch>>
      BY <1>10 DEF Deliver
  <2>5. LinearCall(c) = Linear!NoCall
      BY DEF LinearCall, Answered, Idle, Linear!NoCall
  <2> HIDE DEF p, c
  <2>6. LinearCalls' = [LinearCalls EXCEPT ![p] = Linear!NoCall]
      BY <1>0, <2>2, <2>4, <2>5, OneCall
  <2>7. LinearCalls[p].phase = "done"
      BY <2>2, <2>3 DEF LinearCalls, LinearCall
  <2>8. Linear!Return(p)
      BY <2>4, <2>6, <2>7 DEF Linear!Return
  <2> QED BY <2>2, <2>8 DEF Linear!LinearNext
<1>11. ASSUME NEW p \in Promises, ServeScan(p)
       PROVE  [Linear!LinearNext]_Linear!linearVars
  <2>1. call[p].phase = "queued" /\ ~call[p].acted
      BY <1>11, WaitsIsQueued DEF ServeScan
  <2>2. LinearCalls[p].phase = "open" /\ LinearCalls[p].req = call[p].req
      BY <2>1 DEF LinearCalls, LinearCall
  <2>3. LinearCall(Closure(Fixed(store, call[p].req), TRUE)) = Linear!OpenCall(Fixed(store, call[p].req))
      BY DEF LinearCall, Closure, Linear!OpenCall
  <2>4. call' = [call EXCEPT ![p] = Closure(Fixed(store, call[p].req), TRUE)]
      BY <1>11 DEF ServeScan
  <2>5. LinearCalls' = [LinearCalls EXCEPT ![p] = Linear!OpenCall(Fixed(store, call[p].req))]
      BY <1>0, <2>3, <2>4, OneCall
  <2>6. Linear!Look(p)
      BY <1>11, <2>2, <2>5 DEF Linear!Look, ServeScan
  <2> QED BY <2>6 DEF Linear!LinearNext
<1> QED
    BY <1>1, <1>2, <1>3, <1>4, <1>5, <1>6, <1>7, <1>8, <1>9, <1>10, <1>11 DEF Next, Step, Serve

\* The database is a store whose calls take effect once, each in one step
\* between the call and its answer, also around close().
THEOREM Refinement == Spec => LinearRefined
<1>1. Init => Linear!LinearInit
  <2> SUFFICES ASSUME Init
               PROVE  Linear!LinearInit
      OBVIOUS
  <2>1. LinearCalls = [p \in Promises |-> Linear!NoCall]
      BY DEF Init, LinearCalls, LinearCall, Idle, Linear!NoCall
  <2>2. batch \in [BatchIds -> Batch]
      BY DEF Init, Batch
  <2> QED BY <2>1, <2>2 DEF Init, Linear!LinearInit
<1>2. DBInv /\ [Next]_vars => [Linear!LinearNext]_Linear!linearVars
    BY StepRefines
<1> QED BY <1>1, <1>2, Invariant, PTL DEF Spec, LinearRefined, Linear!LinearSpec

----------------------------------------------------------------------------
(* Clear.                                                                  *)

\* What a step makes of one call: nothing, an end, or one stage of its way.
CallStep(p) ==
    \/ call'[p] = call[p]
    \/ call'[p] = Idle
    \/ \E req \in EagerRequests(kind) : call'[p] = Answered("queued", req, Answer(kind, store, req))
    \/ \E req \in LazyRequests(kind) : call'[p] = Pending(req)
    \/ /\ call[p].phase = "collected"
       /\ call'[p] = Pending([op |-> "remove", keys |-> RowKeys(call[p].res.val), opt |-> call[p].req.opt])
    \/ /\ call[p].phase = "queued" /\ call[p].acted
       /\ call'[p] = Answered("posted", call[p].req, call[p].res)
    \/ /\ call[p].phase = "queued" /\ ~call[p].acted /\ call[p].req.op = "clear"
       /\ store' = store
       /\ call'[p] = Closure(Fixed(store, call[p].req), TRUE)
    \/ /\ call[p].phase = "queued" /\ ~call[p].acted /\ call[p].req.op # "clear"
       /\ store' = Effect(store, batch, call[p].req)
       /\ call'[p] = Answered("posted", call[p].req, Answer(kind, store, call[p].req))
    \/ /\ call[p].phase = "posted" /\ call[p].req.op = "clearRange"
       /\ call'[p] = Answered("collected", call[p].req, call[p].res)

\* Every step changes one call at most, and that by a stage of its way.
LEMMA CallSteps ==
    ASSUME DBInv, [Next]_vars, NEW p \in Promises
    PROVE  kind' = kind /\ CallStep(p)
<1>1. CASE UNCHANGED vars
    BY <1>1 DEF vars, CallStep
<1>2. CASE UNCHANGED <<kind, call>>
    BY <1>2 DEF CallStep
<1>3. ASSUME NEW q \in Promises, NEW c, kind' = kind, call' = [call EXCEPT ![q] = c],
             q = p /\ call'[p] = c => CallStep(p)
      PROVE  kind' = kind /\ CallStep(p)
  <2>1. call'[q] = c /\ (q # p => call'[p] = call[p])
      BY <1>3 DEF DBInv, TypeOK
  <2>2. CASE q = p
      BY <1>3, <2>1, <2>2
  <2>3. CASE q # p
      BY <1>3, <2>1, <2>3 DEF CallStep
  <2> QED BY <2>2, <2>3
<1>4. ASSUME NEW q \in Promises, NEW c, kind' = kind, Send(q, c),
             q = p /\ call'[p] = c => CallStep(p)
      PROVE  kind' = kind /\ CallStep(p)
  <2>1. CASE thread = "running"
    <3>1. call' = [call EXCEPT ![q] = c]
        BY <1>4, <2>1 DEF Send
    <3> QED BY <1>3, <1>4, <3>1
  <2>2. CASE thread # "running"
    <3>1. call' = [call EXCEPT ![q] = Idle]
        BY <1>4, <2>2 DEF Send
    <3>2. q = p /\ call'[p] = Idle => CallStep(p)
        BY DEF CallStep
    <3> QED BY <1>3, <1>4, <3>1, <3>2
  <2> QED BY <2>1, <2>2
<1>5. ASSUME NEW q \in Promises, NEW req \in EagerRequests(kind), CallNow(q, req)
      PROVE  kind' = kind /\ CallStep(p)
  <2>1. CASE conn
    <3>1. kind' = kind /\ Send(q, Answered("queued", req, Answer(kind, store, req)))
        BY <1>5, <2>1 DEF CallNow
    <3>2. q = p /\ call'[p] = Answered("queued", req, Answer(kind, store, req)) => CallStep(p)
        BY DEF CallStep
    <3> QED BY <1>4, <3>1, <3>2
  <2>2. CASE ~conn
      BY <1>2, <1>5, <2>2 DEF CallNow
  <2> QED BY <2>1, <2>2
<1>6. ASSUME NEW q \in Promises, NEW req \in LazyRequests(kind), CallLater(q, req)
      PROVE  kind' = kind /\ CallStep(p)
  <2>1. kind' = kind /\ Send(q, Pending(req))
      BY <1>6 DEF CallLater
  <2>2. q = p /\ call'[p] = Pending(req) => CallStep(p)
      BY DEF CallStep
  <2> QED BY <1>4, <2>1, <2>2
<1>7. ASSUME NEW q \in Promises, ClearWrite(q)
      PROVE  kind' = kind /\ CallStep(p)
  <2> DEFINE c == Pending([op |-> "remove", keys |-> RowKeys(call[q].res.val), opt |-> call[q].req.opt])
  <2>1. kind' = kind /\ Send(q, c) /\ call[q].phase = "collected"
      BY <1>7 DEF ClearWrite
  <2>2. q = p /\ call'[p] = c => CallStep(p)
      BY <2>1 DEF CallStep
  <2> HIDE DEF c
  <2> QED BY <1>4, <2>1, <2>2
<1>8. ASSUME NEW q \in Promises, ServeAnswered(q)
      PROVE  kind' = kind /\ CallStep(p)
  <2> DEFINE c == Answered("posted", call[q].req, call[q].res)
  <2>1. kind' = kind /\ call' = [call EXCEPT ![q] = c] /\ call[q].phase = "queued" /\ call[q].acted
      BY <1>8, WaitsIsQueued DEF ServeAnswered
  <2>2. q = p /\ call'[p] = c => CallStep(p)
      BY <2>1 DEF CallStep
  <2> HIDE DEF c
  <2> QED BY <1>3, <2>1, <2>2
<1>9. ASSUME NEW q \in Promises, ServeScan(q)
      PROVE  kind' = kind /\ CallStep(p)
  <2> DEFINE c == Closure(Fixed(store, call[q].req), TRUE)
  <2>1. /\ kind' = kind /\ call' = [call EXCEPT ![q] = c] /\ store' = store
        /\ call[q].phase = "queued" /\ ~call[q].acted /\ call[q].req.op = "clear"
      BY <1>9, WaitsIsQueued DEF ServeScan
  <2>2. q = p /\ call'[p] = c => CallStep(p)
      BY <2>1 DEF CallStep
  <2> HIDE DEF c
  <2> QED BY <1>3, <2>1, <2>2
<1>10. ASSUME NEW q \in Promises, ServeCall(q)
       PROVE  kind' = kind /\ CallStep(p)
  <2> DEFINE c == Answered("posted", call[q].req, Answer(kind, store, call[q].req))
  <2>1. /\ kind' = kind /\ call' = [call EXCEPT ![q] = c]
        /\ store' = Effect(store, batch, call[q].req)
        /\ call[q].phase = "queued" /\ ~call[q].acted /\ call[q].req.op # "clear"
      BY <1>10, WaitsIsQueued DEF ServeCall
  <2>2. q = p /\ call'[p] = c => CallStep(p)
      BY <2>1 DEF CallStep
  <2> HIDE DEF c
  <2> QED BY <1>3, <2>1, <2>2
<1>11. CASE Deliver
  <2> DEFINE q == Head(replies)
             c == IF call[q].req.op = "clearRange"
                  THEN Answered("collected", call[q].req, call[q].res) ELSE Idle
  <2>1. replies \in Seq(Promises) /\ replies # <<>>
      BY <1>11 DEF DBInv, TypeOK, Deliver
  <2>2. q \in Promises /\ 1 \in DOMAIN replies /\ replies[1] = q
      BY <2>1, TailPlaces
  <2>3. call[q].phase = "posted"
      BY <2>2 DEF DBInv, Places
  <2>4. call' = [call EXCEPT ![q] = c] /\ kind' = kind
      BY <1>11 DEF Deliver
  <2>5. q = p /\ call'[p] = c => CallStep(p)
      BY <2>3 DEF CallStep
  <2> HIDE DEF q, c
  <2> QED BY <1>3, <2>2, <2>4, <2>5
<1> QED
  <2>1. CASE Close \/ ServeEnd \/ \E b \in BatchIds, key \in Keys, val \in Values \union {None} :
                                     ChangeBatch(b, key, val)
      BY <1>2, <2>1 DEF Close, ServeEnd, ChangeBatch
  <2> QED BY <1>1, <1>5, <1>6, <1>7, <1>8, <1>9, <1>10, <1>11, <2>1 DEF Next, Step, Serve

\* The requests of a clear.
ClearOps == {"clear", "clearRange", "remove"}

LEMMA EagerOps ==
    ASSUME NEW k, NEW req \in EagerRequests(k)
    PROVE  req.op \notin ClearOps
<1>1. CASE k = "State"
  <2>1. \/ req \in [op : {"get", "has"}, key : {RawKey(k, u) : u \in UserKeys(k)}]
        \/ req \in [op : {"commit"}, batch : CommitBatches]
      BY <1>1 DEF EagerRequests
  <2> QED BY <2>1 DEF ClearOps
<1>2. CASE k # "State"
  <2>1. \/ req \in [op : {"get", "has"}, key : {RawKey(k, u) : u \in UserKeys(k)}]
        \/ req \in [op : {"set"}, key : Keys, val : Values]
        \/ req \in [op : {"del"}, key : Keys]
      BY <1>2 DEF EagerRequests
  <2> QED BY <2>1 DEF ClearOps
<1> QED BY <1>1, <1>2

\* Only a plain database can be cleared, with a scan of its own between two
\* bounds.
LEMMA LazyClears ==
    ASSUME NEW k, NEW req \in LazyRequests(k), req.op \in ClearOps
    PROVE  /\ k # "State"
           /\ req.op \in {"clear", "clearRange"}
           /\ req.opt \in ClearOptions
           /\ req.op = "clearRange" <=> Bounded(req.opt)
<1>1. req \notin [op : {"iterate"}, opt : IterateOptions] \union [op : {"checkpoint"}]
    BY DEF ClearOps
<1>2. k # "State"
    BY <1>1 DEF LazyRequests
<1>3. req \notin [op : {"write"}, id : BatchIds]
    BY DEF ClearOps
<1>4. PICK opt \in ClearOptions : req = ClearRequest(opt)
    BY <1>1, <1>2, <1>3 DEF LazyRequests
<1>5. req.opt = opt /\ req.op = (IF Bounded(opt) THEN "clearRange" ELSE "clear")
    BY <1>4 DEF ClearRequest
<1> QED BY <1>2, <1>5

LEMMA RequestClears ==
    ASSUME NEW req \in Requests
    PROVE  /\ req.op \in ClearOps => req.opt \in ClearOptions
           /\ req.op = "clearRange" => Bounded(req.opt)
           /\ req.op = "clear" => ~Bounded(req.opt)
           /\ req.op = "remove" => req.keys \in SUBSET Keys
<1>1. CASE req \in RemoveRequests
    BY <1>1 DEF RemoveRequests
<1>2. ASSUME NEW k \in Kinds, req \in EagerRequests(k)
      PROVE  req.op \notin ClearOps
    BY <1>2, EagerOps
<1>3. ASSUME NEW k \in Kinds, req \in LazyRequests(k), req.op \in ClearOps
      PROVE  /\ req.op \in {"clear", "clearRange"}
             /\ req.opt \in ClearOptions
             /\ req.op = "clearRange" <=> Bounded(req.opt)
    BY <1>3, LazyClears
<1> QED BY <1>1, <1>2, <1>3 DEF Requests, ClearOps

\* The scan between two bounds finds every key there is between them, and
\* only such keys.
LEMMA ScanFinds ==
    ASSUME NEW st, NEW opt \in ClearOptions, Bounded(opt)
    PROVE  /\ RowKeys(Rows("Normal", st, opt)) \subseteq Between(Keys, opt)
           /\ opt.limit = -1 =>
                 \A k \in Between(Keys, opt) : st[k] = None \/ k \in RowKeys(Rows("Normal", st, opt))
<1> DEFINE present == Present(st)
           found == Scan(present, opt, FALSE)
           T == Between(present, opt)
<1>1. present \in SUBSET Keys
    BY DEF Present
<1>2. present \in SUBSET ByteString /\ IsFiniteSet(present)
    BY <1>1, FS_Subset, StoreCallsAssumption
<1>3. opt \in Option /\ opt.reverse \in BOOLEAN /\ ~NoRange(opt)
      /\ opt.gte # Undefined /\ opt.lte # Undefined
    BY StoreCallsAssumption DEF Option, Bounded, NoRange
<1>4. RowKeys(Rows("Normal", st, opt)) = {k \in Keys : k \in Range(found)}
  <2>1. Rows("Normal", st, opt) = [i \in DOMAIN found |-> [key |-> found[i], val |-> st[found[i]]]]
      BY DEF Rows
  <2> HIDE DEF found
  <2> QED BY <2>1 DEF RowKeys, Range
<1>5. \A k \in Keys : k \in T <=> k \in Between(Keys, opt) /\ st[k] # None
    BY DEF Between, Present
<1>6. T \in SUBSET present
    BY DEF Between
<1> HIDE DEF present
<1>7. Walked(present, opt, FALSE) = T
    BY <1>2, <1>3, WalkedIsBetween
<1>8. Range(found) \subseteq T
    BY <1>2, <1>3, <1>7, ScanIsCut
<1>9. ASSUME opt.limit = -1
      PROVE  Range(found) = T
  <2>1. opt.limit >= -1 => found = Cut(Ordered(Walked(present, opt, FALSE), opt.reverse), opt.limit)
      BY <1>2, <1>3, ScanIsCut
  <2>2. opt.limit >= -1
    <3>1. -1 >= -1
        OBVIOUS
    <3> QED BY <1>9, <3>1
  <2>3. found = Ordered(T, opt.reverse)
      BY <1>7, <1>9, <2>1, <2>2 DEF Cut
  <2>4. T \in SUBSET ByteString /\ IsFiniteSet(T)
      BY <1>2, <1>6, FS_Subset
  <2> HIDE DEF T, found
  <2> QED BY <1>3, <2>3, <2>4, OrderedProperties
<1>10. Between(Keys, opt) \in SUBSET Keys
    BY DEF Between
<1> HIDE DEF T, found
<1> QED BY <1>1, <1>4, <1>5, <1>6, <1>8, <1>9, <1>10

\* Between the bounds of a call's clear only these keys and those filled
\* since it began are left.
Gone(p, keys) ==
    \A k \in Between(Keys, call[p].req.opt) : store[k] = None \/ k \in keys \/ k \in fresh[p]

\* What a clear has seen of the contents, at each stage of its way.
ClearSeen(p) ==
    /\ kind = "State" => ~InClear(call[p])
    /\ call[p].phase = "queued" /\ call[p].acted => call[p].req.op \notin ClearOps
    /\ call[p].phase \in {"queued", "posted"} /\ call[p].req.op = "remove" /\ call[p].req.opt.limit = -1 =>
          Gone(p, IF call[p].phase = "posted" THEN {} ELSE call[p].req.keys)
    /\ call[p].phase \in {"posted", "collected"} /\ call[p].req.op = "clearRange" /\ call[p].req.opt.limit = -1 =>
          Gone(p, RowKeys(call[p].res.val))

\* What a clear with both bounds is about to remove lies between them.
ClearBounded(p) ==
    /\ call[p].phase = "queued" /\ call[p].req.op = "remove" /\ Bounded(call[p].req.opt) =>
          call[p].req.keys \subseteq Between(Keys, call[p].req.opt)
    /\ call[p].phase \in {"posted", "collected"} /\ call[p].req.op = "clearRange" =>
          RowKeys(call[p].res.val) \subseteq Between(Keys, call[p].req.opt)

ClearsSeen == \A p \in Promises : ClearSeen(p)

ClearsBounded == \A p \in Promises : ClearBounded(p)

\* Whatever other calls do meanwhile, a key that a clear saw to be empty is
\* empty or filled since.
LEMMA StillGone ==
    ASSUME [Next]_vars, TypeOK, NEW p \in Promises, NEW keys, Gone(p, keys),
           InClear(call[p]), InClear(call'[p])
    PROVE  \A k \in Between(Keys, call[p].req.opt) : store'[k] = None \/ k \in keys \/ k \in fresh'[p]
<1>1. fresh'[p] = fresh[p] \union {k \in Keys : store'[k] \notin {None, store[k]}}
  <2>1. CASE Next
      BY <2>1 DEF Next, Track
  <2>2. CASE UNCHANGED vars
      BY <2>2 DEF vars
  <2> QED BY <2>1, <2>2
<1>2. Between(Keys, call[p].req.opt) \in SUBSET Keys
    BY DEF Between
<1>3. \A k \in Between(Keys, call[p].req.opt) : store[k] = None \/ k \in keys \/ k \in fresh[p]
    BY DEF Gone
<1> QED BY <1>1, <1>2, <1>3

\* Every step keeps what a clear has seen.
LEMMA ClearSeenKeeps ==
    ASSUME DBInv, [Next]_vars, NEW p \in Promises, ClearSeen(p)
    PROVE  ClearSeen(p)'
<1>0. kind' = kind /\ kind \in Kinds /\ TypeOK
    BY CallSteps DEF DBInv, TypeOK
<1>1. CASE call'[p].req.op \notin ClearOps
    BY <1>1 DEF ClearSeen, ClearOps, InClear
<1>2. CASE call'[p] = call[p]
  <2>1. InClear(call[p]) <=> InClear(call'[p])
      BY <1>2
  <2>2. ASSUME call[p].phase \in {"queued", "posted"}, call[p].req.op = "remove", call[p].req.opt.limit = -1
        PROVE  Gone(p, IF call[p].phase = "posted" THEN {} ELSE call[p].req.keys)'
    <3> DEFINE keys == IF call[p].phase = "posted" THEN {} ELSE call[p].req.keys
    <3>1. Gone(p, keys) /\ InClear(call[p])
        BY <2>2 DEF ClearSeen, InClear
    <3> HIDE DEF keys
    <3>2. \A k \in Between(Keys, call[p].req.opt) : store'[k] = None \/ k \in keys \/ k \in fresh'[p]
        BY <1>0, <2>1, <3>1, StillGone
    <3> QED BY <1>2, <3>2 DEF Gone, keys
  <2>3. ASSUME call[p].phase \in {"posted", "collected"}, call[p].req.op = "clearRange",
               call[p].req.opt.limit = -1
        PROVE  Gone(p, RowKeys(call[p].res.val))'
    <3> DEFINE keys == RowKeys(call[p].res.val)
    <3>1. Gone(p, keys) /\ InClear(call[p])
        BY <2>3 DEF ClearSeen, InClear
    <3> HIDE DEF keys
    <3>2. \A k \in Between(Keys, call[p].req.opt) : store'[k] = None \/ k \in keys \/ k \in fresh'[p]
        BY <1>0, <2>1, <3>1, StillGone
    <3> QED BY <1>2, <3>2 DEF Gone, keys, RowKeys
  <2> QED BY <1>0, <1>2, <2>1, <2>2, <2>3 DEF ClearSeen
<1>3. CASE call'[p] = Idle
    BY <1>3 DEF ClearSeen, InClear, Idle
<1>4. ASSUME NEW req \in EagerRequests(kind), call'[p] = Answered("queued", req, Answer(kind, store, req))
      PROVE  ClearSeen(p)'
  <2>1. call'[p].req.op \notin ClearOps
      BY <1>4, EagerOps DEF Answered
  <2> QED BY <1>1, <2>1
<1>5. ASSUME NEW req \in LazyRequests(kind), call'[p] = Pending(req), req.op \in ClearOps
      PROVE  ClearSeen(p)'
  <2>1. kind # "State" /\ req.op # "remove"
      BY <1>5, LazyClears
  <2>2. call'[p].phase = "queued" /\ call'[p].acted = FALSE /\ call'[p].req = req
      BY <1>5 DEF Pending, Closure
  <2> QED BY <1>0, <2>1, <2>2 DEF ClearSeen
<1>6. ASSUME call[p].phase = "collected",
             call'[p] = Pending([op |-> "remove", keys |-> RowKeys(call[p].res.val), opt |-> call[p].req.opt])
      PROVE  ClearSeen(p)'
  <2>1. call[p].req.op = "clearRange" /\ InClear(call[p]) /\ kind # "State"
      BY <1>6 DEF DBInv, Progress, ClearSeen, InClear
  <2>2. /\ call'[p].phase = "queued" /\ call'[p].acted = FALSE
        /\ call'[p].req = [op |-> "remove", keys |-> RowKeys(call[p].res.val), opt |-> call[p].req.opt]
      BY <1>6 DEF Pending, Closure
  <2>3. InClear(call'[p])
      BY <2>2 DEF InClear
  <2>4. ASSUME call[p].req.opt.limit = -1
        PROVE  Gone(p, call[p].req.keys)'
    <3> DEFINE keys == RowKeys(call[p].res.val)
    <3>1. Gone(p, keys)
        BY <1>6, <2>1, <2>4 DEF ClearSeen
    <3> HIDE DEF keys
    <3>2. \A k \in Between(Keys, call[p].req.opt) : store'[k] = None \/ k \in keys \/ k \in fresh'[p]
        BY <1>0, <2>1, <2>3, <3>1, StillGone
    <3> QED BY <2>2, <3>2 DEF Gone, keys
  <2> QED BY <1>0, <2>1, <2>2, <2>4 DEF ClearSeen
<1>7. ASSUME call[p].phase = "queued", call[p].acted, call'[p] = Answered("posted", call[p].req, call[p].res)
      PROVE  ClearSeen(p)'
  <2>1. call'[p].req.op \notin ClearOps
      BY <1>7 DEF ClearSeen, Answered
  <2> QED BY <1>1, <2>1
<1>8. ASSUME call[p].phase = "queued", call[p].req.op = "clear", store' = store,
             call'[p] = Closure(Fixed(store, call[p].req), TRUE)
      PROVE  ClearSeen(p)'
  <2>1. kind # "State"
      BY <1>8 DEF ClearSeen, InClear
  <2>2. /\ call'[p].phase = "queued" /\ call'[p].acted = FALSE
        /\ call'[p].req = [op |-> "remove", keys |-> Present(store), opt |-> call[p].req.opt]
      BY <1>8 DEF Closure, Fixed
  <2>3. Gone(p, call[p].req.keys)'
    <3>1. Between(Keys, call[p].req.opt) \in SUBSET Keys
        BY DEF Between
    <3>2. \A k \in Between(Keys, call[p].req.opt) : store'[k] = None \/ k \in Present(store)
        BY <1>8, <3>1 DEF Present
    <3> QED BY <2>2, <3>2 DEF Gone
  <2> QED BY <1>0, <2>1, <2>2, <2>3 DEF ClearSeen
<1>9. ASSUME call[p].phase = "queued", store' = Effect(store, batch, call[p].req), call[p].req.op \in ClearOps,
             call[p].req.op # "clear",
             call'[p] = Answered("posted", call[p].req, Answer(kind, store, call[p].req))
      PROVE  ClearSeen(p)'
  <2>1. InClear(call[p]) /\ kind = "Normal"
      BY <1>0, <1>9 DEF ClearSeen, InClear, ClearOps, Kinds
  <2>2. /\ call'[p].phase = "posted" /\ call'[p].req = call[p].req
        /\ call'[p].res = Answer(kind, store, call[p].req)
      BY <1>9 DEF Answered
  <2>3. InClear(call'[p])
      BY <2>1, <2>2 DEF InClear
  <2>4. call[p].req \in Requests
      BY <1>9 DEF DBInv, TypeOK
  <2>5. CASE call[p].req.op = "clearRange"
    <3>1. Bounded(call[p].req.opt) /\ call[p].req.opt \in ClearOptions
        BY <2>4, <2>5, RequestClears DEF ClearOps
    <3>2. call'[p].res.val = Rows("Normal", store, call[p].req.opt)
        BY <2>1, <2>2, <2>5 DEF Answer
    <3>3. ASSUME call[p].req.opt.limit = -1
          PROVE  Gone(p, RowKeys(call[p].res.val))'
      <4> DEFINE keys == RowKeys(Rows("Normal", store, call[p].req.opt))
      <4>1. \A k \in Between(Keys, call[p].req.opt) : store[k] = None \/ k \in keys
          BY <3>1, <3>3, ScanFinds
      <4> HIDE DEF keys
      <4>2. Gone(p, keys)
          BY <4>1 DEF Gone
      <4>3. \A k \in Between(Keys, call[p].req.opt) : store'[k] = None \/ k \in keys \/ k \in fresh'[p]
          BY <1>0, <2>1, <2>3, <4>2, StillGone
      <4>4. RowKeys(call'[p].res.val) = keys
          BY <3>2 DEF keys
      <4> QED BY <2>2, <4>3, <4>4 DEF Gone, RowKeys
    <3> QED BY <1>0, <2>1, <2>2, <2>5, <3>3 DEF ClearSeen
  <2>6. CASE call[p].req.op = "remove"
    <3>1. store' = Without(store, call[p].req.keys)
        BY <1>9, <2>6 DEF Effect
    <3>2. ASSUME call[p].req.opt.limit = -1
          PROVE  Gone(p, {})'
      <4> DEFINE keys == call[p].req.keys
      <4>1. Gone(p, keys)
          BY <1>9, <2>6, <3>2 DEF ClearSeen
      <4> HIDE DEF keys
      <4>2. \A k \in Between(Keys, call[p].req.opt) : store'[k] = None \/ k \in keys \/ k \in fresh'[p]
          BY <1>0, <2>1, <2>3, <4>1, StillGone
      <4>3. \A k \in Keys : k \in keys => store'[k] = None
          BY <3>1 DEF keys, Without
      <4>4. Between(Keys, call[p].req.opt) \in SUBSET Keys
          BY DEF Between
      <4> QED BY <2>2, <4>2, <4>3, <4>4 DEF Gone
    <3> QED BY <1>0, <2>1, <2>2, <2>6, <3>2 DEF ClearSeen
  <2> QED BY <1>9, <2>5, <2>6 DEF ClearOps
<1>10. ASSUME call[p].phase = "posted", call[p].req.op = "clearRange",
              call'[p] = Answered("collected", call[p].req, call[p].res)
       PROVE  ClearSeen(p)'
  <2>1. InClear(call[p]) /\ kind # "State"
      BY <1>10 DEF ClearSeen, InClear
  <2>2. call'[p].phase = "collected" /\ call'[p].req = call[p].req /\ call'[p].res = call[p].res
      BY <1>10 DEF Answered
  <2>3. InClear(call'[p])
      BY <2>1, <2>2 DEF InClear
  <2>4. ASSUME call[p].req.opt.limit = -1
        PROVE  Gone(p, RowKeys(call[p].res.val))'
    <3> DEFINE keys == RowKeys(call[p].res.val)
    <3>1. Gone(p, keys)
        BY <1>10, <2>4 DEF ClearSeen
    <3> HIDE DEF keys
    <3>2. \A k \in Between(Keys, call[p].req.opt) : store'[k] = None \/ k \in keys \/ k \in fresh'[p]
        BY <1>0, <2>1, <2>3, <3>1, StillGone
    <3> QED BY <2>2, <3>2 DEF Gone, keys, RowKeys
  <2> QED BY <1>0, <1>10, <2>1, <2>2, <2>4 DEF ClearSeen
<1>11. ASSUME NEW req \in LazyRequests(kind), call'[p] = Pending(req), req.op \notin ClearOps
       PROVE  ClearSeen(p)'
  <2>1. call'[p].req.op \notin ClearOps
      BY <1>11 DEF Pending, Closure
  <2> QED BY <1>1, <2>1
<1>12. ASSUME call[p].req.op \notin ClearOps,
              call'[p] = Answered("posted", call[p].req, Answer(kind, store, call[p].req))
       PROVE  ClearSeen(p)'
  <2>1. call'[p].req.op \notin ClearOps
      BY <1>12 DEF Answered
  <2> QED BY <1>1, <2>1
<1>13. CallStep(p)
    BY CallSteps
<1> QED
    BY <1>2, <1>3, <1>4, <1>5, <1>6, <1>7, <1>8, <1>9, <1>10, <1>11, <1>12, <1>13 DEF CallStep

\* When a clear is answered, no key between its bounds is left but those
\* filled since it began, however the other calls fall between its stages.
THEOREM ClearIsComplete == Spec => []ClearedIsGone
<1>1. Init => ClearsSeen
    BY DEF Init, Idle, ClearsSeen, ClearSeen, InClear
<1>2. DBInv /\ ClearsSeen /\ [Next]_vars => ClearsSeen'
  <2> SUFFICES ASSUME DBInv, ClearsSeen, [Next]_vars, NEW p \in Promises
               PROVE  ClearSeen(p)'
      BY DEF ClearsSeen
  <2>1. ClearSeen(p)
      BY DEF ClearsSeen
  <2> QED BY <2>1, ClearSeenKeeps
<1>3. ClearsSeen => ClearedIsGone
    BY DEF ClearsSeen, ClearSeen, Gone, ClearedIsGone
<1> QED BY <1>1, <1>2, <1>3, Invariant, PTL DEF Spec

\* Every step keeps what a clear with both bounds is about to remove between
\* them.  The clear whose scan js_clear makes itself has no two bounds.
LEMMA ClearBoundedKeeps ==
    ASSUME DBInv, [Next]_vars, NEW p \in Promises, ClearSeen(p), ClearBounded(p)
    PROVE  ClearBounded(p)'
<1>0. kind' = kind /\ kind \in Kinds /\ TypeOK
    BY CallSteps DEF DBInv, TypeOK
<1>1. CASE call'[p].req.op \notin ClearOps
    BY <1>1 DEF ClearBounded, ClearOps
<1>2. CASE call'[p] = call[p]
    BY <1>2 DEF ClearBounded, RowKeys
<1>3. CASE call'[p] = Idle
    BY <1>3 DEF ClearBounded, Idle
<1>4. ASSUME NEW req \in EagerRequests(kind), call'[p] = Answered("queued", req, Answer(kind, store, req))
      PROVE  ClearBounded(p)'
  <2>1. call'[p].req.op \notin ClearOps
      BY <1>4, EagerOps DEF Answered
  <2> QED BY <1>1, <2>1
<1>5. ASSUME NEW req \in LazyRequests(kind), call'[p] = Pending(req), req.op \in ClearOps
      PROVE  ClearBounded(p)'
  <2>1. req.op # "remove"
      BY <1>5, LazyClears
  <2>2. call'[p].phase = "queued" /\ call'[p].req = req
      BY <1>5 DEF Pending, Closure
  <2> QED BY <2>1, <2>2 DEF ClearBounded
<1>6. ASSUME call[p].phase = "collected",
             call'[p] = Pending([op |-> "remove", keys |-> RowKeys(call[p].res.val), opt |-> call[p].req.opt])
      PROVE  ClearBounded(p)'
  <2>1. call[p].req.op = "clearRange"
      BY <1>6 DEF DBInv, Progress
  <2>2. RowKeys(call[p].res.val) \subseteq Between(Keys, call[p].req.opt)
      BY <1>6, <2>1 DEF ClearBounded
  <2>3. /\ call'[p].phase = "queued"
        /\ call'[p].req = [op |-> "remove", keys |-> RowKeys(call[p].res.val), opt |-> call[p].req.opt]
      BY <1>6 DEF Pending, Closure
  <2> QED BY <2>2, <2>3 DEF ClearBounded
<1>7. ASSUME call[p].phase = "queued", call[p].acted, call'[p] = Answered("posted", call[p].req, call[p].res)
      PROVE  ClearBounded(p)'
  <2>1. call'[p].req.op \notin ClearOps
      BY <1>7 DEF ClearSeen, Answered
  <2> QED BY <1>1, <2>1
<1>8. ASSUME call[p].phase = "queued", call[p].req.op = "clear",
             call'[p] = Closure(Fixed(store, call[p].req), TRUE)
      PROVE  ClearBounded(p)'
  <2>1. ~Bounded(call[p].req.opt)
      BY <1>8, RequestClears DEF DBInv, TypeOK, ClearOps
  <2>2. /\ call'[p].phase = "queued"
        /\ call'[p].req = [op |-> "remove", keys |-> Present(store), opt |-> call[p].req.opt]
      BY <1>8 DEF Closure, Fixed
  <2> QED BY <2>1, <2>2 DEF ClearBounded
<1>9. ASSUME call[p].phase = "queued", call[p].req.op \in ClearOps, call[p].req.op # "clear",
             call'[p] = Answered("posted", call[p].req, Answer(kind, store, call[p].req))
      PROVE  ClearBounded(p)'
  <2>1. kind = "Normal"
      BY <1>0, <1>9 DEF ClearSeen, InClear, ClearOps, Kinds
  <2>2. /\ call'[p].phase = "posted" /\ call'[p].req = call[p].req
        /\ call'[p].res = Answer(kind, store, call[p].req)
      BY <1>9 DEF Answered
  <2>3. CASE call[p].req.op = "clearRange"
    <3>1. Bounded(call[p].req.opt) /\ call[p].req.opt \in ClearOptions
        BY <1>9, <2>3, RequestClears DEF ClearOps, DBInv, TypeOK
    <3>2. call'[p].res.val = Rows("Normal", store, call[p].req.opt)
        BY <2>1, <2>2, <2>3 DEF Answer
    <3>3. RowKeys(Rows("Normal", store, call[p].req.opt)) \subseteq Between(Keys, call[p].req.opt)
        BY <3>1, ScanFinds
    <3>4. RowKeys(call'[p].res.val) \subseteq Between(Keys, call[p].req.opt)
        BY <3>2, <3>3
    <3> QED BY <2>2, <2>3, <3>4 DEF ClearBounded, RowKeys
  <2>4. CASE call[p].req.op = "remove"
      BY <2>2, <2>4 DEF ClearBounded
  <2> QED BY <1>9, <2>3, <2>4 DEF ClearOps
<1>10. ASSUME call[p].phase = "posted", call[p].req.op = "clearRange",
              call'[p] = Answered("collected", call[p].req, call[p].res)
       PROVE  ClearBounded(p)'
  <2>1. RowKeys(call[p].res.val) \subseteq Between(Keys, call[p].req.opt)
      BY <1>10 DEF ClearBounded
  <2>2. call'[p].phase = "collected" /\ call'[p].req = call[p].req /\ call'[p].res = call[p].res
      BY <1>10 DEF Answered
  <2> QED BY <1>10, <2>1, <2>2 DEF ClearBounded, RowKeys
<1>11. ASSUME NEW req \in LazyRequests(kind), call'[p] = Pending(req), req.op \notin ClearOps
       PROVE  ClearBounded(p)'
  <2>1. call'[p].req.op \notin ClearOps
      BY <1>11 DEF Pending, Closure
  <2> QED BY <1>1, <2>1
<1>12. ASSUME call[p].req.op \notin ClearOps,
              call'[p] = Answered("posted", call[p].req, Answer(kind, store, call[p].req))
       PROVE  ClearBounded(p)'
  <2>1. call'[p].req.op \notin ClearOps
      BY <1>12 DEF Answered
  <2> QED BY <1>1, <2>1
<1>13. CallStep(p)
    BY CallSteps
<1> QED
    BY <1>2, <1>3, <1>4, <1>5, <1>6, <1>7, <1>8, <1>9, <1>10, <1>11, <1>12, <1>13 DEF CallStep

\* What the removal of a clear with both bounds carries out lies between them.
LEMMA RemovalStaysInside ==
    ASSUME DBInv, ClearsSeen, ClearsBounded, [Next]_vars, NEW p \in Promises,
           Removal(p), Bounded(call[p].req.opt), NEW k \in Keys, store'[k] # store[k]
    PROVE  k \in Between(Keys, call[p].req.opt)
<1>0. call[p].phase = "queued" /\ call'[p].phase = "posted" /\ call[p].req.op = "remove"
    BY DEF Removal
<1>1. ~call[p].acted
    BY <1>0 DEF ClearsSeen, ClearSeen, ClearOps
<1>2. store' = Effect(store, batch, call[p].req)
  <2>1. CallStep(p)
      BY CallSteps
  <2>2. /\ call'[p] # call[p] /\ call'[p] # Idle
        /\ \A req, res : call'[p] # Answered("queued", req, res) /\ call'[p] # Answered("collected", req, res)
        /\ \A req : call'[p] # Pending(req)
      BY <1>0 DEF Idle, Answered, Pending, Closure
  <2> QED BY <1>0, <1>1, <2>1, <2>2 DEF CallStep
<1>3. store' = Without(store, call[p].req.keys)
    BY <1>0, <1>2 DEF Effect
<1>4. k \in call[p].req.keys
    BY <1>3 DEF Without
<1> QED BY <1>0, <1>4 DEF ClearsBounded, ClearBounded

\* The action property ClearKeepsRest: a clear with both bounds removes keys
\* between them only, whatever else is called between its scan and its
\* removal.
THEOREM ClearKeepsOthers == Spec => ClearKeepsRest
<1>1. Init => ClearsSeen /\ ClearsBounded
    BY DEF Init, Idle, ClearsSeen, ClearSeen, ClearsBounded, ClearBounded, InClear
<1>2. DBInv /\ ClearsSeen /\ ClearsBounded /\ [Next]_vars => ClearsSeen' /\ ClearsBounded'
  <2> SUFFICES ASSUME DBInv, ClearsSeen, ClearsBounded, [Next]_vars, NEW p \in Promises
               PROVE  ClearSeen(p)' /\ ClearBounded(p)'
      BY DEF ClearsSeen, ClearsBounded
  <2>1. ClearSeen(p) /\ ClearBounded(p)
      BY DEF ClearsSeen, ClearsBounded
  <2> QED BY <2>1, ClearSeenKeeps, ClearBoundedKeeps
<1>3. DBInv /\ ClearsSeen /\ ClearsBounded /\ [Next]_vars =>
        [\A p \in Promises : Removal(p) /\ Bounded(call[p].req.opt) => InRangeOnly(p)]_vars
    BY RemovalStaysInside DEF InRangeOnly
<1> QED BY <1>1, <1>2, <1>3, Invariant, PTL DEF Spec, ClearKeepsRest

============================================================================
