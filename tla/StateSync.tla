------------------------------ MODULE StateSync ------------------------------
(***************************************************************************)
(* statesync/{syncer,chunks,snapshots,reactor,stateprovider}.go: a node     *)
(* restores its application from a snapshot of its peers.                   *)
(*                                                                         *)
(* snapshots is the snapshotPool: the peers of each snapshot it knows and   *)
(* the three blacklists (the other maps are indexes of these).  chunks is   *)
(* the chunkQueue.  syncer is SyncAny with Sync and applyChunks: pc, the    *)
(* snapshot, the chunk in hand, and attached, which tells whether s.chunks  *)
(* is set.  fetchers are the goroutines of fetchChunks that this Sync has   *)
(* started, late how many of earlier ones have yet to notice that they are  *)
(* cancelled.  requests are the chunk requests that peers have not          *)
(* answered; app is what the application restored since the last offer.     *)
(*                                                                         *)
(* A chunk is "good" or "bad": after bad chunks the application hash is not *)
(* the trusted one.  What the light client answers is left open.            *)
(***************************************************************************)
EXTENDS Integers, FiniteSets

CONSTANTS
  StatePeers,    \* the peers
  Liars,         \* those that may send bad chunks, or none
  Snapshots,     \* what is offered: records of height, format and number of chunks
  Offered,       \* for each peer, the snapshots it offers
  NoOne,         \* no peer, no snapshot
  Fetchers,      \* the goroutines of one Sync, chunkFetchers
  recentSnapshots,
  Wishes,        \* bound: how often the application does not simply accept
  Mishaps        \* bound: how often a peer, a request or a light client fails

(* The reactor drops a snapshot without chunks (validateMsg). *)
ASSUME SnapshotsAssumption == \A s \in Snapshots : s.height \in Nat /\ s.chunks \in Nat \ {0}

VARIABLES snapshots, chunks, syncer, fetchers, late, requests, app, wishes, mishaps

stateVars == <<snapshots, chunks, syncer, fetchers, late, requests, app, wishes, mishaps>>

Wish == wishes < Wishes /\ wishes' = wishes + 1

Mishap == mishaps < Mishaps /\ mishaps' = mishaps + 1

Indexes(s) == 0..s.chunks - 1

Missing == [sender |-> NoOne, content |-> "none"]

newChunkQueue(s) ==
  [snapshot |-> s, files |-> [i \in Indexes(s) |-> Missing], allocated |-> {}, returned |-> {}]

ClosedQueue == [snapshot |-> NoOne, files |-> <<>>, allocated |-> {}, returned |-> {}]

Idle == [pc |-> "off", index |-> 0]

Ready == [pc |-> "allocate", index |-> 0]

StateInit ==
  /\ snapshots = [peers |-> [s \in Snapshots |-> {}], badFormats |-> {}, badPeers |-> {}, badSnapshots |-> {}]
  /\ chunks = ClosedQueue
  /\ syncer = [pc |-> "discover", snapshot |-> NoOne, chunk |-> 0, attached |-> FALSE]
  /\ fetchers = [f \in Fetchers |-> Idle]
  /\ late = 0
  /\ requests = {}
  /\ app = <<>>
  /\ wishes = 0
  /\ mishaps = 0
-----------------------------------------------------------------------------
(* snapshotPool *)
Known == {s \in Snapshots : snapshots.peers[s] # {}}

Add_NoPeerCheck(b, p, s) ==
  IF \/ s.format \in b.badFormats
     \/ s \in b.badSnapshots
     \/ Cardinality({t \in Snapshots : p \in b.peers[t]}) >= recentSnapshots
  THEN b
  ELSE [b EXCEPT !.peers[s] = @ \cup {p}]

Add(b, p, s) ==
  IF \/ s.format \in b.badFormats
     \/ p \in b.badPeers
     \/ s \in b.badSnapshots
     \/ Cardinality({t \in Snapshots : p \in b.peers[t]}) >= recentSnapshots
  THEN b
  ELSE [b EXCEPT !.peers[s] = @ \cup {p}]

removeSnapshots(b, ss) == [b EXCEPT !.peers = [s \in Snapshots |-> IF s \in ss THEN {} ELSE @[s]]]

Reject(b, s) == removeSnapshots([b EXCEPT !.badSnapshots = @ \cup {s}], {s})

RejectFormat(b, format) ==
  removeSnapshots([b EXCEPT !.badFormats = @ \cup {format}], {s \in Snapshots : s.format = format})

removePeers(b, ps) == [b EXCEPT !.peers = [s \in Snapshots |-> @[s] \ ps]]

RejectPeers(b, ps) == removePeers([b EXCEPT !.badPeers = @ \cup ps], ps)

(* Ranked: by height, then by format, then by the number of peers. *)
Precedes(s, t) ==
  \/ s.height > t.height
  \/ s.height = t.height /\ s.format > t.format
  \/ /\ s.height = t.height /\ s.format = t.format
     /\ Cardinality(snapshots.peers[s]) > Cardinality(snapshots.peers[t])

Best == {s \in Known : \A t \in Known : ~Precedes(t, s)}
-----------------------------------------------------------------------------
(* chunkQueue *)
Has(q, i) == q.files[i] # Missing

AddChunk(q, i, chunk) == IF Has(q, i) THEN q ELSE [q EXCEPT !.files[i] = chunk]

discard_KeepReturned(q, is) ==
  [q EXCEPT !.files = [i \in DOMAIN @ |-> IF i \in is THEN Missing ELSE @[i]],
            !.allocated = @ \ {i \in is \cap DOMAIN q.files : Has(q, i)}]

discard(q, is) ==
  LET gone == {i \in is \cap DOMAIN q.files : Has(q, i)}
  IN [q EXCEPT !.files = [i \in DOMAIN @ |-> IF i \in gone THEN Missing ELSE @[i]],
               !.returned = @ \ gone,
               !.allocated = @ \ gone]

DiscardSenders(q, ps) ==
  discard(q, {i \in DOMAIN q.files \ q.returned : q.files[i].sender \in ps})

NotReturned(q) == DOMAIN q.files \ q.returned

nextUp(q) == CHOOSE i \in NotReturned(q) : \A j \in NotReturned(q) : i <= j
-----------------------------------------------------------------------------
(* SnapshotsResponse: every peer answers the request of AddPeer or of the    *)
(* retry hook.                                                               *)
AddSnapshot(p, s) ==
  /\ s \in Offered[p]
  /\ snapshots' = Add(snapshots, p, s)
  /\ snapshots' # snapshots
  /\ UNCHANGED <<chunks, syncer, fetchers, late, requests, app, wishes, mishaps>>

RemovePeer(p) ==
  /\ Mishap
  /\ snapshots' = removePeers(snapshots, {p})
  /\ requests' = {r \in requests : r.peer # p}
  /\ UNCHANGED <<chunks, syncer, fetchers, late, app, wishes>>

(* ChunkResponse.  AddChunk fails if no Sync is under way, and Add if the    *)
(* chunk is missing or has another height or format or an index that is too  *)
(* high.  Add wakes up who waits for the chunk.                              *)
Fits(r, s) == r.snapshot.height = s.height /\ r.snapshot.format = s.format /\ r.index < s.chunks

ReceiveChunk(r, content) ==
  /\ r \in requests
  /\ requests' = requests \ {r}
  /\ IF content = "good" THEN UNCHANGED mishaps
     ELSE Mishap /\ (content = "bad" => r.peer \in Liars)
  /\ IF syncer.attached /\ Fits(r, chunks.snapshot) /\ content # "none"
     THEN /\ chunks' = AddChunk(chunks, r.index, [sender |-> r.peer, content |-> content])
          /\ fetchers' = [f \in Fetchers |->
               IF fetchers[f].pc = "wait" /\ fetchers[f].index = r.index THEN Ready ELSE fetchers[f]]
     ELSE UNCHANGED <<chunks, fetchers>>
  /\ UNCHANGED <<snapshots, syncer, late, app, wishes>>
-----------------------------------------------------------------------------
(* fetchChunks.  requestChunk picks any peer of the snapshot.                *)
requestChunk(s, i) ==
  IF snapshots.peers[s] = {} THEN UNCHANGED requests
  ELSE \E p \in snapshots.peers[s] : requests' = requests \cup {[peer |-> p, snapshot |-> s, index |-> i]}

Unallocated == DOMAIN chunks.files \ chunks.allocated

Allocated == CHOOSE i \in Unallocated : \A j \in Unallocated : i <= j

Allocate(f) ==
  /\ fetchers[f].pc = "allocate"
  /\ Unallocated # {}
  /\ chunks' = [chunks EXCEPT !.allocated = @ \cup {Allocated}]
  /\ requestChunk(chunks.snapshot, Allocated)
  /\ fetchers' = [fetchers EXCEPT ![f] =
                    IF Has(chunks, Allocated) THEN Ready ELSE [pc |-> "wait", index |-> Allocated]]
  /\ UNCHANGED <<snapshots, syncer, late, app, wishes, mishaps>>

(* The ticker of fetchChunks: the request is made again if there has been no *)
(* answer, to any peer.                                                      *)
RetryRequest(f) ==
  /\ fetchers[f].pc = "wait"
  /\ \A r \in requests : r.index # fetchers[f].index \/ r.snapshot # chunks.snapshot
  /\ requestChunk(chunks.snapshot, fetchers[f].index)
  /\ UNCHANGED <<snapshots, chunks, syncer, fetchers, late, app, wishes, mishaps>>

(* A cancelled fetcher notices only when it waits, or when nothing is left   *)
(* to allocate.                                                              *)
LateAllocate ==
  /\ late > 0
  /\ Unallocated # {}
  /\ chunks' = [chunks EXCEPT !.allocated = @ \cup {Allocated}]
  /\ requestChunk(chunks.snapshot, Allocated)
  /\ late' = late - 1
  /\ UNCHANGED <<snapshots, syncer, fetchers, app, wishes, mishaps>>

LateEnds ==
  /\ late > 0
  /\ late' = late - 1
  /\ UNCHANGED <<snapshots, chunks, syncer, fetchers, requests, app, wishes, mishaps>>
-----------------------------------------------------------------------------
(* SyncAny and Sync.  AppHash, State and Commit ask the light client.  Sync  *)
(* has one way out: the queue is detached and the fetchers are cancelled.    *)
Return(pc) ==
  /\ syncer' = [syncer EXCEPT !.pc = pc, !.attached = FALSE]
  /\ fetchers' = [f \in Fetchers |-> Idle]
  /\ late' = late + Cardinality({f \in Fetchers : fetchers[f].pc = "allocate"})

GiveUp(pool) ==
  /\ syncer' = [pc |-> "discover", snapshot |-> NoOne, chunk |-> 0, attached |-> FALSE]
  /\ fetchers' = [f \in Fetchers |-> Idle]
  /\ late' = 0
  /\ chunks' = ClosedQueue
  /\ snapshots' = pool

Discover ==
  /\ syncer.pc = "discover"
  /\ \E s \in Best :
       /\ syncer' = [syncer EXCEPT !.pc = "app hash", !.snapshot = s, !.attached = TRUE]
       /\ chunks' = newChunkQueue(s)
  /\ UNCHANGED <<snapshots, fetchers, late, requests, app, wishes, mishaps>>

(* At "app hash" and at "state" the light client may fail, or have no        *)
(* witnesses left.                                                           *)
LightClientFails ==
  /\ syncer.pc \in {"app hash", "state"}
  /\ Mishap
  /\ \/ Return("failed") /\ UNCHANGED <<snapshots, chunks>>
     \/ GiveUp(Reject(snapshots, syncer.snapshot))
  /\ UNCHANGED <<requests, app, wishes>>

AppHash ==
  /\ syncer.pc = "app hash"
  /\ syncer' = [syncer EXCEPT !.pc = "offer"]
  /\ UNCHANGED <<snapshots, chunks, fetchers, late, requests, app, wishes, mishaps>>

OfferAccepted ==
  /\ syncer.pc = "offer"
  /\ app' = [i \in Indexes(syncer.snapshot) |-> "none"]
  /\ fetchers' = [f \in Fetchers |-> Ready]
  /\ syncer' = [syncer EXCEPT !.pc = "state"]
  /\ UNCHANGED <<snapshots, chunks, late, requests, wishes, mishaps>>

OfferRefused ==
  /\ syncer.pc = "offer"
  /\ Wish
  /\ \/ Return("failed") /\ UNCHANGED <<snapshots, chunks>>
     \/ GiveUp(Reject(snapshots, syncer.snapshot))
     \/ GiveUp(RejectFormat(snapshots, syncer.snapshot.format))
     \/ GiveUp(RejectPeers(snapshots, snapshots.peers[syncer.snapshot]))
  /\ UNCHANGED <<requests, app, mishaps>>

StateAndCommit ==
  /\ syncer.pc = "state"
  /\ syncer' = [syncer EXCEPT !.pc = "next"]
  /\ UNCHANGED <<snapshots, chunks, fetchers, late, requests, app, wishes, mishaps>>

(* chunkQueue.Next: the chunk in hand, or errDone, or errTimeout.            *)
NextChunk ==
  /\ syncer.pc = "next"
  /\ NotReturned(chunks) # {}
  /\ Has(chunks, nextUp(chunks))
  /\ syncer' = [syncer EXCEPT !.pc = "apply", !.chunk = nextUp(chunks)]
  /\ chunks' = [chunks EXCEPT !.returned = @ \cup {nextUp(chunks)}]
  /\ UNCHANGED <<snapshots, fetchers, late, requests, app, wishes, mishaps>>

NextDone ==
  /\ syncer.pc = "next"
  /\ NotReturned(chunks) = {}
  /\ syncer' = [syncer EXCEPT !.pc = "verify"]
  /\ UNCHANGED <<snapshots, chunks, fetchers, late, requests, app, wishes, mishaps>>

(* chunkTimeout ends while nobody fetches the chunk, or while a slow peer is *)
(* to answer.                                                                *)
Fetched(i) ==
  \/ \E r \in requests : r.index = i /\ r.snapshot = chunks.snapshot
  \/ /\ snapshots.peers[chunks.snapshot] # {}
     /\ i \in chunks.allocated => \E f \in Fetchers : fetchers[f] = [pc |-> "wait", index |-> i]

NextTimeout ==
  /\ syncer.pc = "next"
  /\ NotReturned(chunks) # {}
  /\ ~Has(chunks, nextUp(chunks))
  /\ IF Fetched(nextUp(chunks)) THEN Mishap ELSE UNCHANGED mishaps
  /\ GiveUp(Reject(snapshots, syncer.snapshot))
  /\ UNCHANGED <<requests, app, wishes>>

(* applyChunks after ApplySnapshotChunk: first the chunks to fetch again,    *)
(* then the senders to reject, then the result.                              *)
ApplyAccepted ==
  /\ syncer.pc = "apply"
  /\ app' = [app EXCEPT ![syncer.chunk] = chunks.files[syncer.chunk].content]
  /\ syncer' = [syncer EXCEPT !.pc = "next"]
  /\ UNCHANGED <<snapshots, chunks, fetchers, late, requests, wishes, mishaps>>

Retry(q, i) == [q EXCEPT !.returned = @ \ {i}]

RetryAll(q) == [q EXCEPT !.returned = {}]

Trimmed(refetch, reject) == DiscardSenders(discard(chunks, refetch), reject)

Forgotten(refetch) == [i \in DOMAIN app |-> IF i \in refetch THEN "none" ELSE app[i]]

ApplyAndTrim(result, refetch, reject) ==
  /\ syncer.pc = "apply"
  /\ Wish
  /\ snapshots' = RejectPeers(snapshots, reject)
  /\ IF result = "accept"
     THEN /\ app' = [Forgotten(refetch) EXCEPT ![syncer.chunk] =
                       IF syncer.chunk \in refetch THEN "none" ELSE chunks.files[syncer.chunk].content]
          /\ chunks' = Trimmed(refetch, reject)
     ELSE /\ app' = Forgotten(refetch)
          /\ chunks' = Retry(Trimmed(refetch, reject), syncer.chunk)
  /\ syncer' = [syncer EXCEPT !.pc = "next"]
  /\ UNCHANGED <<fetchers, late, requests, mishaps>>

ApplyEnds(result, refetch, reject) ==
  /\ syncer.pc = "apply"
  /\ Wish
  /\ IF result = "reject snapshot"
     THEN GiveUp(Reject(RejectPeers(snapshots, reject), syncer.snapshot))
     ELSE /\ Return(IF result = "retry snapshot" THEN "retry" ELSE "failed")
          /\ chunks' = Trimmed(refetch, reject)
          /\ snapshots' = RejectPeers(snapshots, reject)
  /\ UNCHANGED <<requests, app, mishaps>>

RetrySnapshot ==
  /\ syncer.pc = "retry"
  /\ chunks' = RetryAll(chunks)
  /\ syncer' = [syncer EXCEPT !.pc = "app hash", !.attached = TRUE]
  /\ UNCHANGED <<snapshots, fetchers, late, requests, app, wishes, mishaps>>

(* verifyApp; a failure ends SyncAny.                                        *)
verifyApp ==
  /\ syncer.pc = "verify"
  /\ Return(IF \A i \in DOMAIN app : app[i] = "good" THEN "done" ELSE "failed")
  /\ UNCHANGED <<snapshots, chunks, requests, app, wishes, mishaps>>
-----------------------------------------------------------------------------
SyncAny ==
  \/ Discover
  \/ LightClientFails
  \/ AppHash
  \/ OfferAccepted
  \/ OfferRefused
  \/ StateAndCommit
  \/ NextChunk
  \/ NextDone
  \/ NextTimeout
  \/ ApplyAccepted
  \/ \E refetch \in SUBSET DOMAIN app, reject \in SUBSET StatePeers :
       \/ \E result \in {"accept", "retry"} : ApplyAndTrim(result, refetch, reject)
       \/ \E result \in {"retry snapshot", "reject snapshot", "abort"} : ApplyEnds(result, refetch, reject)
  \/ RetrySnapshot
  \/ verifyApp

StateSyncing == syncer.pc \notin {"done", "dropped", "failed"}

StateNext ==
  /\ StateSyncing
  /\ \/ SyncAny
     \/ \E f \in Fetchers : Allocate(f) \/ RetryRequest(f)
     \/ LateAllocate
     \/ LateEnds
     \/ \E p \in StatePeers, s \in Snapshots : AddSnapshot(p, s)
     \/ \E p \in StatePeers : RemovePeer(p)
     \/ \E r \in requests, content \in {"good", "bad", "none"} : ReceiveChunk(r, content)

(* Goroutines go on; peers answer, or the request is made again.             *)
StateFair ==
  /\ WF_stateVars(SyncAny)
  /\ \A f \in Fetchers : WF_stateVars(StateSyncing /\ (Allocate(f) \/ RetryRequest(f)))
  /\ \A p \in StatePeers, s \in Snapshots : WF_stateVars(StateSyncing /\ AddSnapshot(p, s))
  /\ WF_stateVars(StateSyncing /\ \E r \in requests, content \in {"good", "bad", "none"} : ReceiveChunk(r, content))

(* When all chunks have been returned, the application has applied every one *)
(* of them since the snapshot was offered, whatever it asked to retry or to  *)
(* fetch again and whichever senders it rejected.                            *)
RestoresCompletely == syncer.pc = "verify" => \A i \in DOMAIN app : app[i] # "none"

(* What was rejected does not come back into the pool.                       *)
RejectedStayOut ==
  \A s \in Known :
    /\ s \notin snapshots.badSnapshots
    /\ s.format \notin snapshots.badFormats
    /\ snapshots.peers[s] \cap snapshots.badPeers = {}
=============================================================================
