------------------------------- MODULE Mempool -------------------------------
(***************************************************************************)
(* mempool/clist_mempool.go, its LRU cache, and how BlockExecutor.Commit    *)
(* locks and updates it, over one of the three ABCI clients.               *)
(*                                                                         *)
(* pool holds the mempool's fields: the list txs (txsMap holds the same     *)
(* elements), height and senders of each entry, the cache from the least    *)
(* to the most recently used, the txsAvailable flag and channel, and rc,    *)
(* the recheck struct.  conn is the mempool connection: requests the        *)
(* application has not answered and answers not yet handled.  calls are     *)
(* the CheckTx calls that hold updateMtx for reading.  cons is the          *)
(* consensus goroutine inside Commit, upd the goroutine of                  *)
(* asyncUpdateMempool; both hold updateMtx for writing.                     *)
(*                                                                         *)
(* All transactions have the same size and ask for no gas.  A transaction   *)
(* is not evicted from the cache while its first check is under way.  The   *)
(* unsafe Flush is left out, and so is a broken connection: it stops the    *)
(* node.                                                                   *)
(***************************************************************************)
EXTENDS Naturals, SequencesExt

CONSTANTS
  Txs,         \* the transactions
  Offers,      \* pairs of a transaction and who may pass it on, a peer or the RPC
  None,        \* a nil pointer
  Clients,     \* ABCI clients that may be configured: "local", "socket", "grpc"
  Size,        \* config.Size
  CacheSize,   \* config.CacheSize
  StartHeight, \* the height the mempool is created at
  MaxHeight,   \* bound: the last height committed
  MaxCalls     \* bound: calls of CheckTx that pass the cache

ASSUME NoneIsNoTx == None \notin Txs
ASSUME KnownClients == Clients \subseteq {"local", "socket", "grpc"}

VARIABLES client, pool, conn, calls, cons, upd, app, told, passed

vars == <<client, pool, conn, calls, cons, upd, app, told, passed>>

In(t, s) == \E i \in DOMAIN s : s[i] = t

NextOf(t, s) == LET i == CHOOSE j \in DOMAIN s : s[j] = t
                IN IF i = Len(s) THEN None ELSE s[i + 1]

noRecheck == [on |-> FALSE, cursor |-> None, end |-> None, full |-> FALSE, token |-> FALSE]

Init ==
  /\ client \in Clients
  /\ pool = [txs |-> <<>>, height |-> StartHeight, heights |-> [t \in Txs |-> 0],
             senders |-> [t \in Txs |-> {}], cache |-> <<>>,
             notified |-> FALSE, available |-> FALSE, rc |-> noRecheck, panicked |-> FALSE]
  /\ conn = [requests |-> <<>>, answers |-> <<>>]
  /\ calls = {}
  /\ cons = [pc |-> "idle", rechecking |-> FALSE]
  /\ upd = [pc |-> "idle", block |-> <<>>, ok |-> {}]
  /\ app = [height |-> StartHeight, valid |-> Txs, executed |-> {}]
  /\ told = 0
  /\ passed = 0

Locked == cons.pc \in {"flush", "commit"} \/ upd.pc # "idle"
-----------------------------------------------------------------------------
(* The cache. *)

cachePush(c, t) ==
  IF In(t, c) THEN Append(Remove(c, t), t)
  ELSE Append(IF Len(c) >= CacheSize THEN Tail(c) ELSE c, t)

cacheRemove(p, t) == [p EXCEPT !.cache = Remove(@, t)]

(* The list. *)

isFull(p) == Len(p.txs) >= Size \/ p.rc.full

addSender(p, t, s) == [p EXCEPT !.senders[t] = @ \cup {s}]

addTx(p, t, s) ==
  [p EXCEPT !.txs = Append(@, t), !.heights[t] = p.height, !.senders[t] = {s}]

RemoveTxByKey(p, t) == [p EXCEPT !.txs = Remove(@, t), !.heights[t] = 0, !.senders[t] = {}]

notifyTxsAvailable(p) ==
  IF p.txs = <<>> THEN [p EXCEPT !.panicked = TRUE]
  ELSE IF p.notified THEN p
  ELSE [p EXCEPT !.notified = TRUE, !.available = TRUE]

resCbFirstTime_KeepRejected(p, t, s, ok) ==
  IF ~ok THEN p
  ELSE IF isFull(p) THEN cacheRemove(p, t)
  ELSE IF In(t, p.txs) THEN addSender(p, t, s)
  ELSE notifyTxsAvailable(addTx(p, t, s))

(* The callbacks of a first check. *)
resCbFirstTime(p, t, s, ok) ==
  IF ~ok \/ isFull(p) THEN cacheRemove(p, t)
  ELSE IF In(t, p.txs) THEN addSender(p, t, s)
  ELSE notifyTxsAvailable(addTx(p, t, s))

reqResCb(p, t, s, ok) ==
  IF p.rc.on THEN [p EXCEPT !.panicked = TRUE] ELSE resCbFirstTime(p, t, s, ok)

initRecheck(p) ==
  IF p.rc.on THEN [p EXCEPT !.panicked = TRUE]
  ELSE [p EXCEPT !.rc.on = TRUE, !.rc.cursor = Head(p.txs), !.rc.end = Last(p.txs)]

setDone(rc) == [rc EXCEPT !.cursor = None, !.full = FALSE, !.on = FALSE]

(* tryFinish, after which the cursor moves to the next entry. *)
tryFinish(p) ==
  IF p.rc.cursor = p.rc.end
  THEN [p EXCEPT !.rc = [setDone(@) EXCEPT !.token = TRUE]]
  ELSE [p EXCEPT !.rc.cursor = NextOf(@, p.txs)]

(* findNextEntryMatching: the search runs from the cursor towards the back   *)
(* and, if the transaction is not there, into a nil pointer.                 *)
findNextEntryMatching(p, t) ==
  LET from == CHOOSE i \in DOMAIN p.txs : p.txs[i] = p.rc.cursor
  IN IF p.rc.cursor # None /\ \E i \in DOMAIN p.txs : i >= from /\ p.txs[i] = t
     THEN tryFinish([p EXCEPT !.rc.cursor = t])
     ELSE [p EXCEPT !.panicked = TRUE]

(* The callbacks of a recheck; a late response is discarded. *)
resCbRecheck(p, t, ok) ==
  LET q == findNextEntryMatching(p, t)
  IN IF q.panicked \/ ok THEN q ELSE cacheRemove(RemoveTxByKey(q, t), t)

globalCb(p, t, ok) == IF p.rc.on THEN resCbRecheck(p, t, ok) ELSE p
-----------------------------------------------------------------------------
(* The connection.  The socket client sends requests and gets the answers in *)
(* order.  The gRPC client waits for the answer to a request and leaves the  *)
(* callbacks to a goroutine.  The local client calls the application.        *)
Request(kind, t, s) == [kind |-> kind, tx |-> t, from |-> s, ok |-> FALSE]

Answer(q) == [q EXCEPT !.ok = q.tx \in app.valid]

Send(c, q) ==
  IF client = "grpc" THEN [c EXCEPT !.answers = Append(@, Answer(q))]
  ELSE [c EXCEPT !.requests = Append(@, q)]

AppAnswers ==
  /\ client = "socket"
  /\ conn.requests # <<>>
  /\ conn' = [requests |-> Tail(conn.requests), answers |-> Append(conn.answers, Answer(Head(conn.requests)))]
  /\ UNCHANGED <<client, pool, calls, cons, upd, app, told, passed>>

Handle(q) ==
  CASE q.kind = "recheck" -> pool' = globalCb(pool, q.tx, q.ok) /\ UNCHANGED calls
    [] q.kind = "flush"   -> UNCHANGED <<pool, calls>>
    [] q.kind = "check"   ->
         IF \E c \in calls : c.tx = q.tx   \* its callback is not set yet
         THEN /\ calls' = {IF c.tx = q.tx THEN [c EXCEPT !.answer = IF q.ok THEN "good" ELSE "bad"] ELSE c : c \in calls}
              /\ UNCHANGED pool
         ELSE pool' = reqResCb(pool, q.tx, q.from, q.ok) /\ UNCHANGED calls

(* didRecvResponse, or the gRPC client's callCb. *)
Deliver ==
  /\ conn.answers # <<>>
  /\ Handle(Head(conn.answers))
  /\ conn' = [conn EXCEPT !.answers = Tail(@)]
  /\ UNCHANGED <<client, cons, upd, app, told, passed>>

(* The local client rechecks one transaction in the loop of recheckTxs. *)
LocalRecheck ==
  /\ client = "local"
  /\ conn.requests # <<>>
  /\ Handle(Answer(Head(conn.requests)))
  /\ conn' = [conn EXCEPT !.requests = Tail(@)]
  /\ UNCHANGED <<client, cons, upd, app, told, passed>>

UnderWay(t) ==
  \/ \E c \in calls : c.tx = t
  \/ \E i \in DOMAIN conn.requests : conn.requests[i].kind = "check" /\ conn.requests[i].tx = t
  \/ \E i \in DOMAIN conn.answers : conn.answers[i].kind = "check" /\ conn.answers[i].tx = t

(* The flush request has been answered and everything sent before it handled. *)
Flushed ==
  /\ \A i \in DOMAIN conn.requests : conn.requests[i].kind # "flush"
  /\ \A i \in DOMAIN conn.answers : conn.answers[i].kind # "flush"
  /\ client = "local" => conn.requests = <<>>
-----------------------------------------------------------------------------
(* CheckTx up to CheckTxAsync; the caller keeps the read lock. *)
CheckTx(t, s) ==
  /\ ~Locked
  /\ ~isFull(pool)
  /\ IF In(t, pool.cache)
     THEN /\ pool' = [(IF In(t, pool.txs) THEN addSender(pool, t, s) ELSE pool)
                       EXCEPT !.cache = cachePush(@, t)]
          /\ UNCHANGED <<conn, calls, passed>>
     ELSE /\ passed < MaxCalls
          /\ Len(pool.cache) >= CacheSize => ~UnderWay(Head(pool.cache))
          /\ pool' = [pool EXCEPT !.cache = cachePush(@, t)]
          /\ passed' = passed + 1
          /\ IF client = "local"
             THEN /\ calls' = calls \cup {[tx |-> t, from |-> s, answer |-> IF t \in app.valid THEN "good" ELSE "bad"]}
                  /\ UNCHANGED conn
             ELSE /\ calls' = calls \cup {[tx |-> t, from |-> s, answer |-> "none"]}
                  /\ conn' = Send(conn, Request("check", t, s))
  /\ UNCHANGED <<client, cons, upd, app, told>>

(* ReqRes.SetCallback, which runs the callback if the answer is there, and   *)
(* the return of CheckTx.                                                    *)
SetCallback(c) ==
  /\ calls' = calls \ {c}
  /\ pool' = IF c.answer = "none" THEN pool ELSE reqResCb(pool, c.tx, c.from, c.answer = "good")
  /\ UNCHANGED <<client, conn, cons, upd, app, told, passed>>
-----------------------------------------------------------------------------
(* BlockExecutor.Commit.  Lock: setRecheckFull reads and swaps in two steps. *)
(* Of the Commit after the last, only the start is of interest, and only if  *)
(* it meets an Update.                                                       *)
LockReads ==
  /\ cons.pc = "idle"
  /\ app.height < MaxHeight \/ upd.pc # "idle"
  /\ cons' = [pc |-> "swap", rechecking |-> pool.rc.on]
  /\ UNCHANGED <<client, pool, conn, calls, upd, app, told, passed>>

LockSwaps ==
  /\ cons.pc = "swap"
  /\ pool' = [pool EXCEPT !.rc.full = cons.rechecking]
  /\ cons' = [cons EXCEPT !.pc = "lock"]
  /\ UNCHANGED <<client, conn, calls, upd, app, told, passed>>

LockAndFlush_NoFlush ==
  /\ cons.pc = "lock"
  /\ app.height < MaxHeight
  /\ ~Locked
  /\ calls = {}
  /\ cons' = [cons EXCEPT !.pc = "flush"]
  /\ UNCHANGED <<client, pool, conn, calls, upd, app, told, passed>>

(* updateMtx.Lock, and FlushAppConn sends its request. *)
LockAndFlush ==
  /\ cons.pc = "lock"
  /\ app.height < MaxHeight
  /\ ~Locked
  /\ calls = {}
  /\ cons' = [cons EXCEPT !.pc = "flush"]
  /\ conn' = IF client = "socket" THEN Send(conn, Request("flush", None, None)) ELSE conn
  /\ UNCHANGED <<client, pool, calls, upd, app, told, passed>>

(* The flush returns; the application commits a block on its own connection  *)
(* and from then on finds other transactions valid; Update starts in a new   *)
(* goroutine.                                                                *)
AppCommits(block, valid) ==
  /\ cons.pc = "flush"
  /\ Flushed
  /\ app' = [height |-> app.height + 1, valid |-> valid,
             executed |-> app.executed \cup (ToSet(block) \cap app.valid)]
  /\ upd' = [pc |-> "update", block |-> block, ok |-> app.valid]
  /\ cons' = [cons EXCEPT !.pc = "idle", !.rechecking = FALSE]
  /\ UNCHANGED <<client, pool, conn, calls, told, passed>>

Update_KeepNotified ==
  /\ upd.pc = "update"
  /\ pool' = [pool EXCEPT !.height = app.height]
  /\ upd' = [upd EXCEPT !.pc = "remove"]
  /\ UNCHANGED <<client, conn, calls, cons, app, told, passed>>

(* Update: the start, and one committed transaction after the other. *)
Update ==
  /\ upd.pc = "update"
  /\ pool' = [pool EXCEPT !.height = app.height, !.notified = FALSE]
  /\ upd' = [upd EXCEPT !.pc = "remove"]
  /\ UNCHANGED <<client, conn, calls, cons, app, told, passed>>

UpdateTx ==
  /\ upd.pc = "remove"
  /\ upd.block # <<>>
  /\ LET t == Head(upd.block)
     IN pool' = RemoveTxByKey([pool EXCEPT !.cache = IF t \in upd.ok THEN cachePush(@, t) ELSE Remove(@, t)], t)
  /\ upd' = [upd EXCEPT !.block = Tail(@)]
  /\ UNCHANGED <<client, conn, calls, cons, app, told, passed>>

recheckTxs_SkipLast ==
  /\ upd.pc = "remove"
  /\ upd.block = <<>>
  /\ IF Len(pool.txs) <= 1 THEN upd' = [upd EXCEPT !.pc = "notify"] /\ UNCHANGED <<pool, conn>>
     ELSE /\ pool' = [pool EXCEPT !.rc.on = TRUE, !.rc.cursor = Head(pool.txs), !.rc.end = pool.txs[Len(pool.txs) - 1]]
          /\ conn' = FoldLeft(Send, conn,
                       [i \in 1..(Len(pool.txs) - 1) |-> Request("recheck", pool.txs[i], None)]
                       \o (IF client = "socket" THEN <<Request("flush", None, None)>> ELSE <<>>))
          /\ upd' = [upd EXCEPT !.pc = "wait"]
  /\ UNCHANGED <<client, calls, cons, app, told, passed>>

(* recheckTxs up to the end of the loop that sends the requests, and Flush. *)
recheckTxs ==
  /\ upd.pc = "remove"
  /\ upd.block = <<>>
  /\ IF pool.txs = <<>> THEN upd' = [upd EXCEPT !.pc = "notify"] /\ UNCHANGED <<pool, conn>>
     ELSE /\ pool' = initRecheck(pool)
          /\ conn' = FoldLeft(Send, conn,
                       [i \in DOMAIN pool.txs |-> Request("recheck", pool.txs[i], None)]
                       \o (IF client = "socket" THEN <<Request("flush", None, None)>> ELSE <<>>))
          /\ upd' = [upd EXCEPT !.pc = "wait"]
  /\ UNCHANGED <<client, calls, cons, app, told, passed>>

(* The select at the end of recheckTxs. *)
RecheckDone ==
  /\ upd.pc = "wait"
  /\ Flushed
  /\ pool.rc.token
  /\ pool' = [pool EXCEPT !.rc.token = FALSE]
  /\ upd' = [upd EXCEPT !.pc = "notify"]
  /\ UNCHANGED <<client, conn, calls, cons, app, told, passed>>

RecheckTimeout ==
  /\ upd.pc = "wait"
  /\ Flushed
  /\ pool' = [pool EXCEPT !.rc = setDone(@)]
  /\ upd' = [upd EXCEPT !.pc = "notify"]
  /\ UNCHANGED <<client, conn, calls, cons, app, told, passed>>

UpdateEnds_NoUnlock ==
  /\ upd.pc = "notify"
  /\ pool' = IF pool.txs = <<>> THEN pool ELSE notifyTxsAvailable(pool)
  /\ upd' = [upd EXCEPT !.pc = "held"]
  /\ UNCHANGED <<client, conn, calls, cons, app, told, passed>>

(* The end of Update, and Unlock. *)
UpdateEnds ==
  /\ upd.pc = "notify"
  /\ pool' = IF pool.txs = <<>> THEN pool ELSE notifyTxsAvailable(pool)
  /\ upd' = [upd EXCEPT !.pc = "idle"]
  /\ UNCHANGED <<client, conn, calls, cons, app, told, passed>>

(* receiveRoutine takes the value from the channel of TxsAvailable. *)
TakeTxsAvailable ==
  /\ pool.available
  /\ pool' = [pool EXCEPT !.available = FALSE]
  /\ told' = pool.height
  /\ UNCHANGED <<client, conn, calls, cons, upd, app, passed>>
-----------------------------------------------------------------------------
(* A block holds any transactions, in the order of some list of them.  A     *)
(* transaction that was executed is not valid again.                         *)
Blocks == {SetToSeq(B) : B \in SUBSET Txs}

CommitBlock ==
  \E block \in Blocks :
    \E valid \in SUBSET ((Txs \ app.executed) \ (ToSet(block) \cap app.valid)) :
      AppCommits(block, valid)

Next ==
  /\ ~pool.panicked
  /\ \/ \E o \in Offers : CheckTx(o[1], o[2])
     \/ \E c \in calls : SetCallback(c)
     \/ AppAnswers \/ Deliver \/ LocalRecheck
     \/ LockReads \/ LockSwaps \/ LockAndFlush
     \/ CommitBlock
     \/ Update \/ UpdateTx \/ recheckTxs \/ RecheckDone \/ RecheckTimeout \/ UpdateEnds
     \/ TakeTxsAvailable

Spec == Init /\ [][Next]_vars
-----------------------------------------------------------------------------
(* The panics of reqResCb, notifyTxsAvailable and recheck.init, and the nil   *)
(* pointer of findNextEntryMatching, are not reached: FlushAppConn under the  *)
(* lock leaves no first check for a recheck to meet, and every answer to a    *)
(* recheck is handled before the recheck ends.                               *)
NeverPanics == ~pool.panicked

(* Whenever a proposer can reap, every transaction it reaps was checked       *)
(* against the last committed state: no answer given before a Commit is       *)
(* applied after it, and the recheck in Update leaves none out.              *)
PoolIsValid == ~Locked => ToSet(pool.txs) \subseteq app.valid

(* A transaction that was rejected, by the application or for lack of space,  *)
(* can be submitted again: the cache holds only transactions that are in the  *)
(* list, under way, or were executed.                                        *)
RejectedIsForgotten ==
  \A t \in ToSet(pool.cache) : In(t, pool.txs) \/ UnderWay(t) \/ t \in app.executed

(* Consensus hears of transactions once per height: if there are any, it was  *)
(* told since the last Update or the channel of TxsAvailable holds a value.   *)
TxsAreAnnounced ==
  ~Locked /\ pool.txs # <<>> => pool.available \/ told = pool.height
=============================================================================
