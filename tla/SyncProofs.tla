----------------------------- MODULE SyncProofs -----------------------------
(***************************************************************************)
(* Proofs about Sync, and so about StateSync and BlockPool: for any peers,  *)
(* snapshots and ranges of blocks, any number of requesters, fetchers and   *)
(* faults.                                                                  *)
(***************************************************************************)
EXTENDS Sync, FiniteSetTheorems, TLAPS

USE SMTT(30)

(* Block sync.  A requester that has a block has it from a peer it asked, so *)
(* it has none when it has to pick peers.                                    *)
Requesters ==
  [pc : {"pick", "wait", "stuck"}, peer : Peers \cup {None}, second : Peers \cup {None},
   block : {None, "good", "bad"}, from : Peers \cup {None}, token : BOOLEAN, got : BOOLEAN,
   redo : Peers \cup {None, Nothing}, note : Nat, timer : {"off", "on", "spent"}]

RequesterOK(r) ==
  /\ r \in Requesters
  /\ r.block # None => r.from \in Peers /\ didRequestFrom(r, r.from)
  /\ r.pc = "pick" => r.peer = None /\ r.second = None /\ r.block = None

(* The fields of the pool; the requesters are a function of heights. *)
PoolFields(b) ==
  /\ b = [height |-> b.height, startHeight |-> b.startHeight, requesters |-> b.requesters, peers |-> b.peers, maxPeerHeight |-> b.maxPeerHeight]
  /\ b.requesters = [h \in DOMAIN b.requesters |-> b.requesters[h]]
  /\ b.height \in Nat
  /\ b.peers \subseteq Peers

(* The heights from the pool's on, n of them. *)
Consecutive(b) == DOMAIN b.requesters = b.height .. (b.height + Cardinality(DOMAIN b.requesters) - 1)

PoolOK(b) ==
  /\ PoolFields(b)
  /\ IsFiniteSet(DOMAIN b.requesters)
  /\ Consecutive(b)
  /\ \A h \in DOMAIN b.requesters : RequesterOK(b.requesters[h])

(* While poolRoutine works on two blocks, they are those of the pool's       *)
(* height and the next, and have their requesters.                           *)
SyncOK ==
  /\ sync = [pc |-> sync.pc, at |-> sync.at]
  /\ sync.pc = "off" => Heights = {} /\ plan = 0
  /\ sync.pc \in {"apply", "redo", "redo second"} => sync.at = pool.height /\ {sync.at, sync.at + 1} \subseteq Heights

PoolInv ==
  /\ PoolOK(pool)
  /\ plan \in {0, pool.height + Cardinality(Heights)}
  /\ applied = pool.height - 1
  /\ SyncOK
-----------------------------------------------------------------------------
(* The pool's invariant implies that it is sound. *)
LEMMA PoolInvSound == PoolInv => PoolIsSound
<1> SUFFICES ASSUME PoolInv PROVE PoolIsSound
  OBVIOUS
<1>1. pool.height \in Nat /\ Cardinality(Heights) \in Nat
  BY FS_CardinalityType DEF PoolInv, PoolOK, PoolFields, Heights
<1>2. pool.height + Cardinality(Heights) - 1 + 1 = pool.height + Cardinality(Heights)
  BY <1>1
<1>3. sync.pc = "apply" => pool.height \in Heights
  BY DEF PoolInv, SyncOK
<1>4. \A h \in Heights : LET r == pool.requesters[h] IN r.block # None => didRequestFrom(r, r.from)
  BY DEF PoolInv, PoolOK, RequesterOK, Heights
<1> QED
  BY <1>2, <1>3, <1>4 DEF PoolInv, PoolOK, Consecutive, PoolIsSound, Heights

-----------------------------------------------------------------------------
(* What the operations on one requester keep. *)
LEMMA NewRequesterOK == RequesterOK(newBPRequester)
BY NoneIsNoPeer DEF RequesterOK, Requesters, newBPRequester

LEMMA RedoOK ==
  ASSUME NEW r, RequesterOK(r), NEW p \in Peers \cup {None}
  PROVE  RequesterOK(redo(r, p))
BY DEF RequesterOK, Requesters, redo, didRequestFrom

(* bpRequester.reset: the peer is forgotten, and so is its block. *)
LEMMA ResetIs ==
  ASSUME NEW r \in Requesters, NEW p
  PROVE  /\ reset(r, p) \in Requesters
         /\ reset(r, p).pc = r.pc /\ reset(r, p).token = r.token /\ reset(r, p).got = r.got
         /\ reset(r, p).redo = r.redo /\ reset(r, p).note = r.note /\ reset(r, p).timer = r.timer
         /\ reset(r, p).block = IF r.from = p THEN None ELSE r.block
         /\ reset(r, p).from = IF r.from = p THEN None ELSE r.from
         /\ reset(r, p).peer = IF r.peer = p THEN None ELSE r.peer
         /\ reset(r, p).second = IF r.peer = p THEN r.second ELSE None
<1>1. ASSUME NEW s, s = [r EXCEPT !.block = None, !.from = None]
      PROVE  /\ s \in Requesters
             /\ s.pc = r.pc /\ s.token = r.token /\ s.got = r.got /\ s.redo = r.redo /\ s.note = r.note
             /\ s.timer = r.timer /\ s.block = None /\ s.from = None /\ s.peer = r.peer /\ s.second = r.second
  BY <1>1, Zenon DEF Requesters
<1>2. ASSUME NEW s \in Requesters
      PROVE  /\ [s EXCEPT !.peer = None] \in Requesters
             /\ [s EXCEPT !.second = None] \in Requesters
  BY DEF Requesters
<1>3. CASE r.from = p
  <2> DEFINE s == [r EXCEPT !.block = None, !.from = None]
  <2>1. reset(r, p) = IF r.peer = p THEN [s EXCEPT !.peer = None] ELSE [s EXCEPT !.second = None]
    BY <1>3 DEF reset
  <2>2. /\ s \in Requesters
        /\ s.pc = r.pc /\ s.token = r.token /\ s.got = r.got /\ s.redo = r.redo /\ s.note = r.note
        /\ s.timer = r.timer /\ s.block = None /\ s.from = None /\ s.peer = r.peer /\ s.second = r.second
    BY <1>1
  <2> HIDE DEF s
  <2> QED
    BY <1>2, <1>3, <2>1, <2>2 DEF Requesters
<1>4. CASE r.from # p
  <2>1. reset(r, p) = IF r.peer = p THEN [r EXCEPT !.peer = None] ELSE [r EXCEPT !.second = None]
    BY <1>4 DEF reset
  <2> QED
    BY <1>2, <1>4, <2>1 DEF Requesters
<1> QED
  BY <1>3, <1>4
-----------------------------------------------------------------------------
(* The fields of a pool of which two have changed. *)
LEMMA PoolRecords ==
  ASSUME NEW height, NEW start, NEW requesters, NEW peers, NEW max, NEW x, NEW y, NEW b,
         b = [height |-> height, startHeight |-> start, requesters |-> requesters, peers |-> peers, maxPeerHeight |-> max]
  PROVE  /\ [b EXCEPT !.height = x, !.requesters = y]
              = [height |-> x, startHeight |-> start, requesters |-> y, peers |-> peers, maxPeerHeight |-> max]
         /\ [b EXCEPT !.peers = x, !.maxPeerHeight = y]
              = [height |-> height, startHeight |-> start, requesters |-> requesters, peers |-> x, maxPeerHeight |-> y]
<1>1. ASSUME NEW c, c = [b EXCEPT !.height = x]
      PROVE  c = [height |-> x, startHeight |-> start, requesters |-> requesters, peers |-> peers, maxPeerHeight |-> max]
  BY <1>1
<1>2. ASSUME NEW c, c = [b EXCEPT !.peers = x]
      PROVE  c = [height |-> height, startHeight |-> start, requesters |-> requesters, peers |-> x, maxPeerHeight |-> max]
  BY <1>2
<1>3. [[b EXCEPT !.height = x] EXCEPT !.requesters = y]
        = [height |-> x, startHeight |-> start, requesters |-> y, peers |-> peers, maxPeerHeight |-> max]
  <2> DEFINE c == [b EXCEPT !.height = x]
  <2>1. c = [height |-> x, startHeight |-> start, requesters |-> requesters, peers |-> peers, maxPeerHeight |-> max]
    BY <1>1
  <2> HIDE DEF c
  <2>2. [c EXCEPT !.requesters = y] = [height |-> x, startHeight |-> start, requesters |-> y, peers |-> peers, maxPeerHeight |-> max]
    BY <2>1
  <2> QED
    BY <2>2 DEF c
<1>4. [[b EXCEPT !.peers = x] EXCEPT !.maxPeerHeight = y]
        = [height |-> height, startHeight |-> start, requesters |-> requesters, peers |-> x, maxPeerHeight |-> y]
  <2> DEFINE c == [b EXCEPT !.peers = x]
  <2>1. c = [height |-> height, startHeight |-> start, requesters |-> requesters, peers |-> x, maxPeerHeight |-> max]
    BY <1>2
  <2> HIDE DEF c
  <2>2. [c EXCEPT !.maxPeerHeight = y]
          = [height |-> height, startHeight |-> start, requesters |-> requesters, peers |-> x, maxPeerHeight |-> y]
    BY <2>1
  <2> QED
    BY <2>2 DEF c
<1> QED
  BY <1>3, <1>4

(* What the operations on the pool keep.  One that gives a height another    *)
(* sound requester, or every height, leaves the heights as they are.         *)
LEMMA MappedOK ==
  ASSUME NEW b, PoolOK(b), NEW c, PoolFields(c), c.height = b.height,
         DOMAIN c.requesters = DOMAIN b.requesters,
         \A h \in DOMAIN b.requesters : RequesterOK(c.requesters[h])
  PROVE  PoolOK(c)
BY DEF PoolOK, Consecutive

LEMMA WithRequesterOK ==
  ASSUME NEW b, PoolOK(b), NEW h \in DOMAIN b.requesters, NEW r, RequesterOK(r)
  PROVE  /\ PoolOK(WithRequester(b, h, r))
         /\ WithRequester(b, h, r).height = b.height
         /\ DOMAIN WithRequester(b, h, r).requesters = DOMAIN b.requesters
<1> DEFINE c == WithRequester(b, h, r)
<1>1. PoolFields(b) /\ \A g \in DOMAIN b.requesters : RequesterOK(b.requesters[g])
  BY DEF PoolOK
<1>2. c = [b EXCEPT !.requesters = [b.requesters EXCEPT ![h] = r]]
  BY DEF WithRequester
<1> HIDE DEF c
<1>3. /\ c = [height |-> b.height, startHeight |-> b.startHeight, requesters |-> [b.requesters EXCEPT ![h] = r], peers |-> b.peers,
              maxPeerHeight |-> b.maxPeerHeight]
  BY <1>1, <1>2 DEF PoolFields
<1>4. PoolFields(c) /\ DOMAIN c.requesters = DOMAIN b.requesters /\ c.height = b.height
  BY <1>1, <1>3 DEF PoolFields
<1>5. \A g \in DOMAIN b.requesters : RequesterOK(c.requesters[g])
  BY <1>1, <1>3
<1>6. PoolOK(c)
  BY <1>4, <1>5, MappedOK
<1> QED
  BY <1>4, <1>6 DEF c

(* removePeer of a peer, or of the sender of no block. *)
LEMMA RemovePeerOK ==
  ASSUME NEW b, PoolOK(b), NEW p \in Peers \cup {None}
  PROVE  /\ PoolOK(removePeer(b, p))
         /\ removePeer(b, p).height = b.height
         /\ DOMAIN removePeer(b, p).requesters = DOMAIN b.requesters
<1> DEFINE rs == [h \in DOMAIN b.requesters |->
                    IF didRequestFrom(b.requesters[h], p) THEN redo(b.requesters[h], p) ELSE b.requesters[h]]
           c == [b EXCEPT !.requesters = rs]
           m == IF Ranges[p].height = c.maxPeerHeight
                THEN Max({0} \cup {Ranges[q].height : q \in c.peers \ {p}}) ELSE c.maxPeerHeight
           d == [c EXCEPT !.peers = c.peers \ {p}, !.maxPeerHeight = m]
<1>1. PoolFields(b) /\ \A g \in DOMAIN b.requesters : RequesterOK(b.requesters[g])
  BY DEF PoolOK
<1>2. removePeer(b, p) = IF p \in b.peers THEN d ELSE c
  BY DEF removePeer, leavePool
<1>3. DOMAIN rs = DOMAIN b.requesters /\ rs = [h \in DOMAIN rs |-> rs[h]]
  OBVIOUS
<1>4. \A g \in DOMAIN b.requesters : RequesterOK(rs[g])
  BY <1>1, RedoOK
<1> HIDE DEF rs, m
<1>5. c = [height |-> b.height, startHeight |-> b.startHeight, requesters |-> rs, peers |-> b.peers, maxPeerHeight |-> b.maxPeerHeight]
  BY <1>1 DEF PoolFields
<1> HIDE DEF c
<1>6. d = [height |-> b.height, startHeight |-> b.startHeight, requesters |-> rs, peers |-> b.peers \ {p}, maxPeerHeight |-> m]
  <2> DEFINE x == b.peers \ {p}
  <2>1. c.peers = b.peers
    BY <1>5
  <2>2. d = [c EXCEPT !.peers = x, !.maxPeerHeight = m]
    BY <2>1
  <2> HIDE DEF x, d
  <2>3. d = [height |-> b.height, startHeight |-> b.startHeight, requesters |-> rs, peers |-> x, maxPeerHeight |-> m]
    BY <1>5, <2>2, PoolRecords, Zenon
  <2> QED
    BY <2>3 DEF x
<1> HIDE DEF d
<1>7. PoolFields(c) /\ c.height = b.height /\ c.requesters = rs
  BY <1>1, <1>3, <1>5 DEF PoolFields
<1>8. PoolFields(d) /\ d.height = b.height /\ d.requesters = rs
  BY <1>1, <1>3, <1>6 DEF PoolFields
<1>9. PoolOK(c) /\ PoolOK(d)
  BY <1>3, <1>4, <1>7, <1>8, MappedOK
<1> QED
  BY <1>2, <1>3, <1>7, <1>8, <1>9

(* PopRequest drops the requester of the pool's height and tells the others. *)
LEMMA PopRequestOK ==
  ASSUME NEW b, PoolOK(b), b.height \in DOMAIN b.requesters
  PROVE  /\ PoolOK(PopRequest(b))
         /\ PopRequest(b).height = b.height + 1
         /\ PopRequest(b).height + Cardinality(DOMAIN PopRequest(b).requesters)
              = b.height + Cardinality(DOMAIN b.requesters)
<1> DEFINE D == DOMAIN b.requesters \ {b.height}
           c == [b EXCEPT !.height = b.height + 1, !.requesters = [h \in D |-> b.requesters[h]]]
           rs == [h \in D |-> IF h - c.height < MinBlocks /\ c.requesters[h].note = 0
                              THEN [c.requesters[h] EXCEPT !.note = c.height] ELSE c.requesters[h]]
           d == PopRequest(b)
<1>1. PoolFields(b) /\ IsFiniteSet(DOMAIN b.requesters) /\ Consecutive(b)
      /\ \A g \in DOMAIN b.requesters : RequesterOK(b.requesters[g])
  BY DEF PoolOK
<1>2. Cardinality(DOMAIN b.requesters) \in Nat
  BY <1>1, FS_CardinalityType
<1>3. IsFiniteSet(D) /\ Cardinality(D) = Cardinality(DOMAIN b.requesters) - 1
  BY <1>1, FS_RemoveElement
<1>4. c = [height |-> b.height + 1, startHeight |-> b.startHeight, requesters |-> [h \in D |-> b.requesters[h]], peers |-> b.peers,
           maxPeerHeight |-> b.maxPeerHeight]
  <2> DEFINE x == b.height + 1
             y == [h \in D |-> b.requesters[h]]
  <2>1. c = [b EXCEPT !.height = x, !.requesters = y]
    OBVIOUS
  <2> HIDE DEF x, y, c
  <2>2. c = [height |-> x, startHeight |-> b.startHeight, requesters |-> y, peers |-> b.peers, maxPeerHeight |-> b.maxPeerHeight]
    BY <1>1, <2>1, PoolRecords, Zenon DEF PoolFields
  <2> QED
    BY <2>2 DEF x, y
<1>5. d = [c EXCEPT !.requesters = [h \in DOMAIN c.requesters |->
             IF h - c.height < MinBlocks /\ c.requesters[h].note = 0
             THEN [c.requesters[h] EXCEPT !.note = c.height] ELSE c.requesters[h]]]
  BY DEF PopRequest, newHeights
<1> HIDE DEF c, d
<1>6. DOMAIN c.requesters = D /\ c.height = b.height + 1 /\ \A h \in D : c.requesters[h] = b.requesters[h]
  BY <1>4
<1>7. d = [c EXCEPT !.requesters = rs]
  BY <1>5, <1>6
<1>8. DOMAIN rs = D /\ rs = [h \in DOMAIN rs |-> rs[h]]
  OBVIOUS
<1>9. \A h \in D : RequesterOK(rs[h])
  <2> SUFFICES ASSUME NEW h \in D PROVE RequesterOK(rs[h])
    BY Zenon
  <2>1. RequesterOK(c.requesters[h]) /\ c.height \in Nat
    BY <1>1, <1>6 DEF PoolFields
  <2>2. RequesterOK([c.requesters[h] EXCEPT !.note = c.height])
    BY <2>1 DEF RequesterOK, Requesters, didRequestFrom
  <2> QED
    BY <2>1, <2>2
<1> HIDE DEF rs
<1>10. d = [height |-> b.height + 1, startHeight |-> b.startHeight, requesters |-> rs, peers |-> b.peers, maxPeerHeight |-> b.maxPeerHeight]
  BY <1>4, <1>7
<1>11. PoolFields(d) /\ d.height = b.height + 1 /\ DOMAIN d.requesters = D
  BY <1>1, <1>8, <1>10 DEF PoolFields
<1>12. D = (b.height + 1) .. ((b.height + 1) + Cardinality(D) - 1)
  <2>1. D = (b.height .. (b.height + Cardinality(DOMAIN b.requesters) - 1)) \ {b.height} /\ b.height \in Nat
    BY <1>1, Zenon DEF Consecutive, PoolFields
  <2> QED
    BY <1>2, <1>3, <2>1
<1>13. \A h \in D : RequesterOK(d.requesters[h])
  BY <1>9, <1>10
<1>14. PoolOK(d)
  BY <1>3, <1>11, <1>12, <1>13, Zenon DEF PoolOK, Consecutive
<1>15. d.height + Cardinality(DOMAIN d.requesters) = b.height + Cardinality(DOMAIN b.requesters)
  BY <1>1, <1>2, <1>3, <1>11 DEF PoolFields
<1> QED
  BY <1>11, <1>14, <1>15 DEF d
-----------------------------------------------------------------------------
(* A step that leaves the heights and poolRoutine alone keeps the invariant. *)
LEMMA SameHeights ==
  ASSUME PoolInv, PoolOK(pool'), pool'.height = pool.height, DOMAIN pool'.requesters = DOMAIN pool.requesters,
         UNCHANGED <<plan, sync, applied>>
  PROVE  PoolInv'
BY Zenon DEF PoolInv, SyncOK, Heights

(* So does one that only gives a height another sound requester. *)
LEMMA OtherRequester ==
  ASSUME PoolInv, NEW h \in Heights, NEW r, RequesterOK(r), pool' = WithRequester(pool, h, r),
         UNCHANGED <<plan, sync, applied>>
  PROVE  PoolInv'
<1>1. PoolOK(pool) /\ h \in DOMAIN pool.requesters
  BY DEF PoolInv, Heights
<1>2. PoolOK(pool') /\ pool'.height = pool.height /\ DOMAIN pool'.requesters = DOMAIN pool.requesters
  BY <1>1, WithRequesterOK
<1> QED
  BY <1>2, SameHeights

(* The steps of a requester, requestRoutine, keep the invariant. *)
LEMMA RequesterSteps ==
  ASSUME PoolInv, NEW h \in Heights, requestRoutine(h)
  PROVE  PoolInv'
<1> DEFINE r == pool.requesters[h]
<1>a. RequesterOK(r) /\ r \in Requesters /\ pool.peers \subseteq Peers /\ pool.height \in Nat
  BY DEF PoolInv, PoolOK, PoolFields, Heights, RequesterOK
<1>1. CASE PickPeers(h)
  <2>1. PICK p \in Available(pool, h, r.second), q \in Peers \cup {None} :
          pool' = WithRequester(pool, h, [r EXCEPT !.peer = p, !.second = q, !.pc = "wait", !.timer = "on"])
    <3> DEFINE seconds(p) == IF h - pool.height < MinBlocks /\ r.second = None THEN Available(pool, h, p) ELSE {}
    <3>1. PICK p \in Available(pool, h, r.second) : \E q \in IF seconds(p) = {} THEN {r.second} ELSE seconds(p) :
            pool' = WithRequester(pool, h, [r EXCEPT !.peer = p, !.second = q, !.pc = "wait", !.timer = "on"])
      BY <1>1, Zenon DEF PickPeers
    <3>2. seconds(p) \subseteq Peers /\ r.second \in Peers \cup {None}
      BY <1>a DEF Available, Requesters
    <3> HIDE DEF seconds
    <3> QED
      BY <3>1, <3>2, Zenon
  <2>2. p \in Peers /\ r.pc = "pick"
    BY <1>1, <1>a DEF Available, PickPeers
  <2> DEFINE s == [r EXCEPT !.peer = p, !.second = q, !.pc = "wait", !.timer = "on"]
  <2>3. s \in Requesters /\ s.pc = "wait" /\ s.block = r.block /\ s.got = r.got /\ s.token = r.token
    BY <1>a, <2>2, Zenon DEF Requesters
  <2>4. r.block = None
    BY <1>a, <2>2 DEF RequesterOK
  <2> HIDE DEF s
  <2>5. RequesterOK(s)
    BY <2>3, <2>4 DEF RequesterOK
  <2> QED
    BY <1>1, <2>1, <2>5, OtherRequester DEF PickPeers, s
<1>2. CASE RetryTimeout(h)
  <2> DEFINE t == reset(reset(r, r.peer), r.second)
             u == [t EXCEPT !.timer = "off", !.pc = "pick"]
  <2>1. r.pc = "wait" /\ UNCHANGED <<plan, sync, applied>>
        /\ pool' = WithRequester(pool, h, IF r.got THEN [r EXCEPT !.timer = "spent"] ELSE u)
    BY <1>2 DEF RetryTimeout
  <2>2. CASE r.got
    <3>2. RequesterOK([r EXCEPT !.timer = "spent"])
      BY <1>a, <2>1, Zenon DEF RequesterOK, Requesters, didRequestFrom
    <3> QED
      BY <2>1, <2>2, <3>2, OtherRequester, Zenon
  <2>3. CASE ~r.got
    <3> DEFINE s == reset(r, r.peer)
    <3>1. /\ s \in Requesters /\ s.pc = "wait" /\ s.got = r.got /\ s.token = r.token /\ s.peer = None
          /\ s.second = r.second /\ (s.block # None => r.block # None /\ s.from = r.from /\ r.from # r.peer)
      BY <1>a, <2>1, ResetIs
    <3> HIDE DEF s
    <3>2. t = reset(s, r.second)
      BY DEF s
    <3>3. /\ t \in Requesters /\ t.got = r.got /\ t.token = r.token /\ t.peer = None
          /\ t.second = None /\ (t.block # None => s.block # None /\ s.from # r.second)
      BY <1>a, <3>1, <3>2, ResetIs
    <3>4. t.block = None
      BY <1>a, <3>1, <3>3 DEF RequesterOK, didRequestFrom
    <3> HIDE DEF t
    <3>5. u \in Requesters /\ u.pc = "pick" /\ u.got = t.got /\ u.token = t.token /\ u.peer = None
          /\ u.second = None /\ u.block = t.block
      BY <3>3, Zenon DEF Requesters
    <3> HIDE DEF u
    <3>7. RequesterOK(u)
      BY <3>3, <3>4, <3>5 DEF RequesterOK
    <3> QED
      BY <2>1, <2>3, <3>7, OtherRequester
  <2> QED
    BY <2>2, <2>3
<1>3. CASE Redo(h)
  <2> DEFINE d == didRequestFrom(r, r.redo)
             s == IF d THEN reset(r, r.redo) ELSE r
             t == [s EXCEPT !.redo = Nothing, !.got = @ /\ ~(d /\ r.from = r.redo)]
             u == IF requestedFrom(t) = {} THEN [t EXCEPT !.timer = "off", !.pc = "pick"] ELSE t
  <2>1. r.pc = "wait" /\ UNCHANGED <<plan, sync, applied>>
        /\ pool' = WithRequester(pool, h, u)
    BY <1>3 DEF Redo
  <2>2. /\ s \in Requesters /\ s.pc = "wait" /\ s.token = r.token /\ s.got = r.got /\ s.timer = r.timer
        /\ s.block # None => s.block = r.block /\ s.from = r.from /\ didRequestFrom(s, s.from)
        /\ s.block = None /\ r.block # None => d /\ r.from = r.redo
    <3>1. CASE d
      <4> DEFINE p == r.redo
      <4>1. s = reset(r, p)
        BY <3>1
      <4>2. r.block # None => r.from = r.peer \/ r.from = r.second
        BY <1>a DEF RequesterOK, didRequestFrom
      <4>3. r.peer = p \/ r.second = p
        BY <3>1 DEF didRequestFrom
      <4> HIDE DEF p, s
      <4>4. /\ s \in Requesters /\ s.pc = r.pc /\ s.token = r.token /\ s.got = r.got /\ s.timer = r.timer
            /\ s.block = IF r.from = p THEN None ELSE r.block
            /\ s.from = IF r.from = p THEN None ELSE r.from
            /\ s.peer = IF r.peer = p THEN None ELSE r.peer
            /\ s.second = IF r.peer = p THEN r.second ELSE None
        BY <1>a, <4>1, ResetIs
      <4>5. s.block # None => s.block = r.block /\ s.from = r.from /\ didRequestFrom(s, s.from)
        BY <4>2, <4>3, <4>4 DEF didRequestFrom
      <4>6. s.block = None /\ r.block # None => r.from = p
        BY <4>4
      <4> QED
        BY <2>1, <3>1, <4>4, <4>5, <4>6 DEF p
    <3>2. CASE ~d
      BY <1>a, <2>1, <3>2 DEF RequesterOK
    <3> QED
      BY <3>1, <3>2, Zenon
  <2> HIDE DEF s
  <2>3. /\ t \in Requesters /\ t.pc = "wait" /\ t.token = s.token /\ t.timer = s.timer
        /\ t.block = s.block /\ t.from = s.from /\ t.peer = s.peer /\ t.second = s.second
        /\ t.got => s.got /\ ~(d /\ r.from = r.redo)
    <3> DEFINE g == s.got /\ ~(d /\ r.from = r.redo)
    <3>1. g \in BOOLEAN
      OBVIOUS
    <3>2. t = [s EXCEPT !.redo = Nothing, !.got = g]
      OBVIOUS
    <3> HIDE DEF g, t
    <3>3. /\ t \in Requesters /\ t.pc = "wait" /\ t.token = s.token /\ t.timer = s.timer
          /\ t.block = s.block /\ t.from = s.from /\ t.peer = s.peer /\ t.second = s.second /\ t.got = g
      BY <2>2, <3>1, <3>2, Zenon DEF Requesters
    <3> QED
      BY <3>3, Zenon DEF g
  <2> HIDE DEF t
  <2>4. RequesterOK(t)
    BY <1>a, <2>1, <2>2, <2>3 DEF RequesterOK, didRequestFrom
  <2>5. ASSUME requestedFrom(t) = {} PROVE RequesterOK([t EXCEPT !.timer = "off", !.pc = "pick"])
    <3>1. t.peer = None /\ t.second = None
      BY <2>5 DEF requestedFrom
    <3>2. t.block = None
      BY <2>4, <3>1, NoneIsNoPeer DEF RequesterOK, didRequestFrom
    <3> DEFINE w == [t EXCEPT !.timer = "off", !.pc = "pick"]
    <3>3. w \in Requesters /\ w.pc = "pick" /\ w.peer = None /\ w.second = None /\ w.block = None
          /\ w.got = t.got /\ w.token = t.token
      BY <2>3, <3>1, <3>2, Zenon DEF Requesters
    <3> HIDE DEF w
    <3>4. RequesterOK(w)
      BY <2>4, <3>2, <3>3 DEF RequesterOK
    <3> QED
      BY <3>4 DEF w
  <2>6. RequesterOK(u)
    BY <2>4, <2>5
  <2> QED
    BY <2>1, <2>6, OtherRequester
<1>4. CASE NewHeight(h)
  <2> DEFINE s == [r EXCEPT !.note = 0]
  <2>0. r.pc = "wait" /\ UNCHANGED <<plan, sync, applied>>
    BY <1>4, Zenon DEF NewHeight
  <2>1. s \in Requesters /\ RequesterOK(s) /\ s.pc = "wait" /\ s.second = r.second /\ s.timer = r.timer
    BY <1>a, <2>0 DEF RequesterOK, Requesters, didRequestFrom
  <2> HIDE DEF s
  <2>2. CASE pool' = WithRequester(pool, h, s)
    BY <2>0, <2>1, <2>2, OtherRequester
  <2>3. ASSUME NEW p \in Available(pool, h, r.peer), r.second = None,
               pool' = WithRequester(pool, h, [s EXCEPT !.second = p, !.pc = IF r.timer = "on" THEN @ ELSE "stuck"])
        PROVE  PoolInv'
    <3> DEFINE x == IF r.timer = "on" THEN s.pc ELSE "stuck"
               t == [s EXCEPT !.second = p, !.pc = x]
    <3>1. p \in Peers /\ x \in {"wait", "stuck"}
      BY <1>a, <2>0, <2>1, <2>3 DEF Available, RequesterOK
    <3> HIDE DEF x
    <3>2. /\ t \in Requesters /\ t.pc = x /\ t.second = p /\ t.peer = s.peer /\ t.block = s.block
          /\ t.from = s.from /\ t.token = s.token /\ t.got = s.got /\ t.timer = s.timer
      BY <2>1, <3>1, Zenon DEF Requesters
    <3>3. RequesterOK(t)
      BY <2>1, <2>3, <3>1, <3>2, NoneIsNoPeer DEF RequesterOK, didRequestFrom
    <3>4. pool' = WithRequester(pool, h, t)
      BY <2>3 DEF x
    <3> QED
      BY <2>0, <3>3, <3>4, OtherRequester
  <2> QED
    BY <1>4, <2>2, <2>3, Zenon DEF NewHeight, s
<1>5. CASE GotBlock(h)
  <2> DEFINE s == [r EXCEPT !.token = FALSE, !.got = TRUE]
  <2>1. /\ s \in Requesters /\ s.pc = r.pc /\ s.second = r.second /\ s.peer = r.peer /\ s.block = r.block
        /\ s.from = r.from /\ s.timer = r.timer
    BY <1>a, Zenon DEF Requesters
  <2>2. r.token /\ pool' = WithRequester(pool, h, s) /\ UNCHANGED <<plan, sync, applied>>
    BY <1>5 DEF GotBlock
  <2> HIDE DEF s
  <2>3. RequesterOK(s)
    BY <1>a, <2>1, <2>2 DEF RequesterOK, didRequestFrom
  <2> QED
    BY <2>2, <2>3, OtherRequester
<1> QED
  BY <1>1, <1>2, <1>3, <1>4, <1>5 DEF requestRoutine

(* What peers send or omit keeps the invariant. *)
LEMMA PeerSteps ==
  ASSUME PoolInv, NEW p \in Peers, Answer(p) \/ ReceiveStatus(p) \/ StopPeer(p)
  PROVE  PoolInv'
<1>a. PoolOK(pool) /\ Heights = DOMAIN pool.requesters
  BY DEF PoolInv, Heights
<1>b. \A h \in Heights : RequesterOK(pool.requesters[h]) /\ pool.requesters[h] \in Requesters
  BY <1>a DEF PoolOK, RequesterOK
<1>c. ASSUME pool' = pool, UNCHANGED <<plan, sync, applied>> PROVE PoolInv'
  BY <1>a, <1>c, SameHeights
<1>d. ASSUME pool' = removePeer(pool, p), UNCHANGED <<plan, sync, applied>> PROVE PoolInv'
  BY <1>a, <1>d, RemovePeerOK, SameHeights
<1>1. ASSUME NEW h \in asked[p], NEW block \in {"good", "bad"}, ReceiveBlock(p, h, block) PROVE PoolInv'
  <2> DEFINE r == pool.requesters[h]
             s == [r EXCEPT !.block = block, !.from = p, !.token = TRUE]
  <2>1. CASE h \in Heights /\ didRequestFrom(r, p)
    <3>1. pool' = AddBlock(pool, p, h, block) /\ UNCHANGED <<plan, sync, applied>>
      BY <1>1, <2>1, Zenon DEF ReceiveBlock
    <3>2. CASE r.block # None
      BY <1>c, <3>1, <3>2 DEF AddBlock
    <3>3. CASE r.block = None
      <4>1. pool' = WithRequester(pool, h, s)
        BY <3>1, <3>3 DEF AddBlock
      <4>2. /\ s \in Requesters /\ s.pc = r.pc /\ s.peer = r.peer /\ s.second = r.second
            /\ s.block = block /\ s.from = p /\ s.timer = r.timer
        BY <1>b, <2>1, Zenon DEF Requesters
      <4>3. r.pc # "pick"
        BY <1>b, <2>1, NoneIsNoPeer DEF RequesterOK, didRequestFrom
      <4> HIDE DEF s
      <4>4. block # None
        BY NoneIsNoBlock
      <4>5. RequesterOK(r)
        BY <1>b, <2>1
      <4>6. RequesterOK(s)
        BY <2>1, <4>2, <4>3, <4>4, <4>5 DEF RequesterOK, didRequestFrom
      <4> QED
        BY <2>1, <3>1, <4>1, <4>6, OtherRequester
    <3> QED
      BY <3>2, <3>3
  <2>2. CASE ~(h \in Heights /\ didRequestFrom(r, p))
    <3>1. pool' \in {pool, removePeer(pool, p)} /\ UNCHANGED <<plan, sync, applied>>
      BY <1>1, <2>2, Zenon DEF ReceiveBlock
    <3> QED
      BY <1>c, <1>d, <3>1
  <2> QED
    BY <2>1, <2>2
<1>2. ASSUME NEW h \in asked[p], ReceiveNoBlock(p, h) PROVE PoolInv'
  <2>1. CASE h \in Heights /\ didRequestFrom(pool.requesters[h], p)
    <3>1. pool' = WithRequester(pool, h, redo(pool.requesters[h], p)) /\ UNCHANGED <<plan, sync, applied>>
      BY <1>2, <2>1, Zenon DEF ReceiveNoBlock
    <3>2. RequesterOK(redo(pool.requesters[h], p))
      BY <1>b, <2>1, RedoOK
    <3> QED
      BY <2>1, <3>1, <3>2, OtherRequester
  <2>2. CASE ~(h \in Heights /\ didRequestFrom(pool.requesters[h], p))
    BY <1>2, <1>c, <2>2, Zenon DEF ReceiveNoBlock
  <2> QED
    BY <2>1, <2>2
<1>3. CASE ReceiveStatus(p)
  <2> DEFINE x == pool.peers \cup {p}
             m == Max({pool.maxPeerHeight, Ranges[p].height})
  <2>1. pool' = [pool EXCEPT !.peers = x, !.maxPeerHeight = m] /\ UNCHANGED <<plan, sync, applied>>
    BY <1>3 DEF ReceiveStatus, SetPeerRange
  <2>2. x \subseteq Peers
    BY <1>a DEF PoolOK, PoolFields
  <2> HIDE DEF x, m
  <2>3. pool' = [height |-> pool.height, startHeight |-> pool.startHeight, requesters |-> pool.requesters, peers |-> x, maxPeerHeight |-> m]
    BY <1>a, <2>1, PoolRecords, Zenon DEF PoolOK, PoolFields
  <2>4. PoolFields(pool') /\ pool'.height = pool.height /\ pool'.requesters = pool.requesters
    BY <1>a, <2>2, <2>3 DEF PoolOK, PoolFields
  <2>5. PoolOK(pool')
    BY <1>a, <2>4, MappedOK DEF PoolOK
  <2> QED
    BY <2>1, <2>4, <2>5, SameHeights
<1>4. CASE StopPeer(p)
  BY <1>4, <1>d DEF StopPeer
<1> QED
  BY <1>1, <1>2, <1>3, <1>4 DEF Answer

(* makeRequestersRoutine, in its two steps, keeps the invariant: the height  *)
(* it has read stays the one after the last requester.                       *)
LEMMA MakeRequesterSteps ==
  ASSUME PoolInv, sync.pc # "off", PlanRequester \/ makeNextRequester
  PROVE  PoolInv'
<1>a. PoolOK(pool) /\ Heights = DOMAIN pool.requesters
  BY DEF PoolInv, Heights
<1>b. pool.height \in Nat /\ Cardinality(Heights) \in Nat /\ IsFiniteSet(Heights)
  BY <1>a, FS_CardinalityType DEF PoolOK, PoolFields
<1>1. CASE PlanRequester
  BY <1>1, Zenon DEF PlanRequester, PoolInv, SyncOK, Heights
<1>2. CASE makeNextRequester
  <2> DEFINE D == Heights \cup {plan}
             rs == [h \in D |-> IF h = plan THEN newBPRequester ELSE pool.requesters[h]]
  <2>1. plan = pool.height + Cardinality(Heights)
    BY <1>2 DEF makeNextRequester, PoolInv
  <2>2. plan \notin Heights
    BY <1>a, <1>b, <2>1 DEF PoolOK, Consecutive
  <2>3. IsFiniteSet(D) /\ Cardinality(D) = Cardinality(Heights) + 1
    BY <1>b, <2>2, FS_AddElement
  <2>4. pool' = [pool EXCEPT !.requesters = rs] /\ plan' = 0 /\ UNCHANGED <<sync, applied>>
    BY <1>2, <1>a DEF makeNextRequester
  <2>5. \A h \in D : RequesterOK(rs[h])
    BY <1>a, NewRequesterOK DEF PoolOK
  <2>6. DOMAIN rs = D /\ rs = [h \in DOMAIN rs |-> rs[h]]
    OBVIOUS
  <2>7. D = pool.height .. (pool.height + Cardinality(D) - 1)
    <3>1. Heights = pool.height .. (pool.height + Cardinality(Heights) - 1)
      BY <1>a DEF PoolOK, Consecutive
    <3> QED
      BY <1>b, <2>1, <2>3, <3>1
  <2> HIDE DEF rs
  <2>8. pool' = [height |-> pool.height, startHeight |-> pool.startHeight, requesters |-> rs, peers |-> pool.peers, maxPeerHeight |-> pool.maxPeerHeight]
    BY <1>a, <2>4 DEF PoolOK, PoolFields
  <2>9. PoolFields(pool') /\ pool'.height = pool.height /\ pool'.requesters = rs
    BY <1>a, <2>6, <2>8 DEF PoolOK, PoolFields
  <2>10. PoolOK(pool')
    BY <2>3, <2>5, <2>6, <2>7, <2>9 DEF PoolOK, Consecutive
  <2>11. Heights \subseteq DOMAIN pool'.requesters
    BY <2>6, <2>9
  <2> QED
    BY <2>4, <2>9, <2>10, <2>11, Zenon DEF PoolInv, SyncOK, Heights
<1> QED
  BY <1>1, <1>2

(* poolRoutine keeps the invariant, although requesters and peers move       *)
(* between its steps.                                                        *)
LEMMA PoolRoutineSteps ==
  ASSUME PoolInv, poolRoutine
  PROVE  PoolInv'
<1>a. PoolOK(pool) /\ Heights = DOMAIN pool.requesters /\ pool.height \in Nat
  BY DEF PoolInv, PoolOK, PoolFields, Heights
<1>1. CASE PeekTwoBlocks
  <2>1. /\ UNCHANGED <<pool, plan, applied>> /\ {pool.height, pool.height + 1} \subseteq Heights
        /\ \E pc \in {"apply", "redo"} : sync' = [pc |-> pc, at |-> pool.height]
    BY <1>1 DEF PeekTwoBlocks
  <2>2. sync'.pc \in {"apply", "redo"} /\ sync'.at = pool.height /\ sync' = [pc |-> sync'.pc, at |-> sync'.at]
    BY <2>1
  <2> QED
    BY <2>1, <2>2, Zenon DEF PoolInv, SyncOK, Heights
<1>2. CASE ApplyVerifiedBlock
  <2>1. sync.pc = "apply" /\ pool' = PopRequest(pool) /\ applied' = sync.at /\ UNCHANGED plan
        /\ sync' = [pc |-> "idle", at |-> 0]
    BY <1>2 DEF ApplyVerifiedBlock
  <2>2. sync.at = pool.height /\ pool.height \in Heights
    BY <2>1 DEF PoolInv, SyncOK
  <2>3. /\ PoolOK(pool') /\ pool'.height = pool.height + 1
        /\ pool'.height + Cardinality(Heights') = pool.height + Cardinality(Heights)
    BY <1>a, <2>1, <2>2, PopRequestOK DEF Heights
  <2>4. applied' = pool'.height - 1
    BY <1>a, <2>1, <2>2, <2>3
  <2>5. sync'.pc = "idle" /\ sync' = [pc |-> sync'.pc, at |-> sync'.at]
    BY <2>1
  <2> QED
    BY <2>1, <2>3, <2>4, <2>5 DEF PoolInv, SyncOK
<1>3. CASE RemovePeerAndRedoAllPeerRequests
  <2> DEFINE h == IF sync.pc = "redo" THEN sync.at ELSE sync.at + 1
             p == pool.requesters[h].from
  <2>1. sync.pc \in {"redo", "redo second"} /\ pool' = removePeer(pool, p) /\ UNCHANGED <<plan, applied>>
        /\ sync' = IF sync.pc = "redo" THEN [sync EXCEPT !.pc = "redo second"] ELSE [pc |-> "idle", at |-> 0]
    BY <1>3, Zenon DEF RemovePeerAndRedoAllPeerRequests
  <2>2. sync.at = pool.height /\ {sync.at, sync.at + 1} \subseteq Heights /\ sync = [pc |-> sync.pc, at |-> sync.at]
    BY <2>1, Zenon DEF PoolInv, SyncOK
  <2>3. p \in Peers \cup {None}
    BY <1>a, <2>2 DEF PoolOK, RequesterOK, Requesters
  <2> HIDE DEF p
  <2>4. PoolOK(pool') /\ pool'.height = pool.height /\ DOMAIN pool'.requesters = DOMAIN pool.requesters
    BY <1>a, <2>1, <2>3, RemovePeerOK, Zenon
  <2>5. /\ sync' = [pc |-> sync'.pc, at |-> sync'.at]
        /\ \/ sync'.pc = "redo second" /\ sync'.at = sync.at
           \/ sync'.pc = "idle"
    BY <2>1, <2>2, Zenon
  <2> QED
    BY <1>a, <2>1, <2>2, <2>4, <2>5, Zenon DEF PoolInv, SyncOK, Heights
<1>4. CASE SwitchToConsensus
  <2>1. sync' = [sync EXCEPT !.pc = "done"] /\ UNCHANGED <<pool, plan, applied>>
    BY <1>4 DEF SwitchToConsensus
  <2>2. sync'.pc = "done" /\ sync' = [pc |-> sync'.pc, at |-> sync'.at]
    BY <2>1, Zenon DEF PoolInv, SyncOK
  <2> QED
    BY <2>1, <2>2, Zenon DEF PoolInv, SyncOK, Heights
<1> QED
  BY <1>1, <1>2, <1>3, <1>4 DEF poolRoutine

(* The pool starts without requesters, at the height after the state's. *)
LEMMA PoolStarts ==
  ASSUME PoolInv, NEW h \in Nat, SwitchToBlockSync(h)
  PROVE  PoolInv'
<1> DEFINE m == Max({0} \cup {Ranges[p].height : p \in Peers})
<1>1. sync.pc = "off" /\ applied' = h /\ UNCHANGED plan /\ sync' = [sync EXCEPT !.pc = "idle"]
      /\ pool' = [pool EXCEPT !.height = h + 1, !.startHeight = h + 1, !.peers = Peers, !.maxPeerHeight = m]
  BY DEF SwitchToBlockSync
<1>2. PoolFields(pool) /\ DOMAIN pool.requesters = {} /\ plan = 0 /\ sync = [pc |-> sync.pc, at |-> sync.at]
  BY <1>1 DEF PoolInv, PoolOK, SyncOK, Heights
<1> HIDE DEF m
<1>3. pool' = [height |-> h + 1, startHeight |-> h + 1, requesters |-> pool.requesters, peers |-> Peers, maxPeerHeight |-> m]
  <2>1. ASSUME NEW a, a = [pool EXCEPT !.height = h + 1]
        PROVE  a = [height |-> h + 1, startHeight |-> pool.startHeight, requesters |-> pool.requesters,
                    peers |-> pool.peers, maxPeerHeight |-> pool.maxPeerHeight]
    BY <1>2, <2>1 DEF PoolFields
  <2> DEFINE a == [pool EXCEPT !.height = h + 1]
             b == [a EXCEPT !.startHeight = h + 1]
  <2>2. a = [height |-> h + 1, startHeight |-> pool.startHeight, requesters |-> pool.requesters,
             peers |-> pool.peers, maxPeerHeight |-> pool.maxPeerHeight]
    BY <2>1
  <2>3. pool' = [b EXCEPT !.peers = Peers, !.maxPeerHeight = m]
    BY <1>1
  <2> HIDE DEF a
  <2>4. b = [height |-> h + 1, startHeight |-> h + 1, requesters |-> pool.requesters,
             peers |-> pool.peers, maxPeerHeight |-> pool.maxPeerHeight]
    BY <2>2
  <2> HIDE DEF b
  <2> QED
    BY <2>3, <2>4, PoolRecords, Zenon
<1>4. PoolFields(pool') /\ pool'.height = h + 1 /\ DOMAIN pool'.requesters = {}
  <2>1. /\ pool'.height = h + 1 /\ pool'.startHeight = h + 1 /\ pool'.requesters = pool.requesters /\ pool'.peers = Peers
        /\ pool'.maxPeerHeight = m
    BY <1>3
  <2>2. pool' = [height |-> pool'.height, startHeight |-> pool'.startHeight, requesters |-> pool'.requesters, peers |-> pool'.peers,
                 maxPeerHeight |-> pool'.maxPeerHeight]
    BY <1>3, <2>1
  <2>3. pool'.requesters = [g \in DOMAIN pool'.requesters |-> pool'.requesters[g]]
    BY <1>2, <2>1, Zenon DEF PoolFields
  <2> QED
    BY <1>2, <2>1, <2>2, <2>3 DEF PoolFields
<1>5. IsFiniteSet({}) /\ Cardinality({}) = 0
  BY FS_EmptySet
<1>6. PoolOK(pool')
  BY <1>4, <1>5 DEF PoolOK, Consecutive
<1>7. sync'.pc = "idle" /\ sync' = [pc |-> sync'.pc, at |-> sync'.at]
  BY <1>1, <1>2
<1>8. applied' = pool'.height - 1
  BY <1>1, <1>4
<1> QED
  BY <1>1, <1>2, <1>6, <1>7, <1>8 DEF PoolInv, SyncOK
-----------------------------------------------------------------------------
(* State sync.  A pool of snapshots has peers that offer them only for       *)
(* snapshots that were not rejected, and only peers that were not.           *)
SnapshotPools ==
  [peers : [Snapshots -> SUBSET StatePeers], badFormats : SUBSET {s.format : s \in Snapshots},
   badPeers : SUBSET StatePeers, badSnapshots : SUBSET Snapshots]

SnapshotsOK(b) ==
  /\ b \in SnapshotPools
  /\ \A s \in Snapshots : b.peers[s] # {} =>
       s \notin b.badSnapshots /\ s.format \notin b.badFormats /\ b.peers[s] \cap b.badPeers = {}

(* A queue has the chunks of its snapshot; what it has returned it has.      *)
QueueOK(q) ==
  /\ q = [snapshot |-> q.snapshot, files |-> q.files, allocated |-> q.allocated, returned |-> q.returned]
  /\ q.files = [i \in DOMAIN q.files |-> q.files[i]]
  /\ DOMAIN q.files # {} => q.snapshot \in Snapshots /\ DOMAIN q.files = Indexes(q.snapshot)
  /\ \A i \in DOMAIN q.files : Has(q, i) => q.files[i].content # "none"
  /\ q.returned \subseteq {i \in DOMAIN q.files : Has(q, i)}

Offering == syncer.pc \in {"app hash", "offer"}
Restoring == syncer.pc \in {"state", "next", "apply", "verify"}

RequestsOK == \A r \in requests : r.snapshot \in Snapshots /\ r.index \in Indexes(r.snapshot)

(* While a Sync is under way, the queue is that of the snapshot; fetchers    *)
(* run only when it has been accepted, and wait for a chunk of it.           *)
SyncerOK ==
  /\ syncer = [pc |-> syncer.pc, snapshot |-> syncer.snapshot, chunk |-> syncer.chunk, attached |-> syncer.attached]
  /\ syncer.pc \notin {"discover", "dropped", "failed"} => syncer.snapshot \in Snapshots
  /\ syncer.attached => Offering \/ Restoring
  /\ Offering \/ Restoring \/ syncer.pc = "retry" =>
       chunks.snapshot = syncer.snapshot /\ DOMAIN chunks.files = Indexes(syncer.snapshot)
  /\ \A f \in Fetchers : /\ fetchers[f].pc # "off" => Restoring
                         /\ fetchers[f].pc = "wait" => fetchers[f].index \in DOMAIN chunks.files

(* The application has what the queue returned, but for the chunk in hand.   *)
AppOK ==
  /\ Offering \/ syncer.pc = "state" => chunks.returned = {}
  /\ Restoring => app = [i \in Indexes(syncer.snapshot) |-> app[i]]
  /\ Restoring => \A i \in chunks.returned : app[i] = "none" => syncer.pc = "apply" /\ i = syncer.chunk
  /\ syncer.pc = "apply" => syncer.chunk \in chunks.returned
  /\ syncer.pc = "verify" => DOMAIN chunks.files \subseteq chunks.returned

StateInv ==
  /\ SnapshotsOK(snapshots) /\ QueueOK(chunks) /\ RequestsOK
  /\ fetchers = [f \in Fetchers |-> fetchers[f]]
  /\ SyncerOK /\ AppOK

(* The invariant implies what state sync promises. *)
LEMMA StateInvRestores == StateInv => RestoresCompletely
<1> SUFFICES ASSUME StateInv, syncer.pc = "verify", NEW i \in DOMAIN app PROVE app[i] # "none"
  BY DEF RestoresCompletely
<1>1. DOMAIN chunks.files = Indexes(syncer.snapshot) /\ DOMAIN app = Indexes(syncer.snapshot)
  BY DEF StateInv, SyncerOK, AppOK, Restoring
<1>2. i \in chunks.returned
  BY <1>1 DEF StateInv, AppOK
<1> QED
  BY <1>2 DEF StateInv, AppOK, Restoring

LEMMA StateInvRejects == StateInv => RejectedStayOut
BY DEF StateInv, SnapshotsOK, RejectedStayOut, Known
-----------------------------------------------------------------------------
(* A set of naturals that is not empty has a least element. *)
LEMMA LeastNatural ==
  ASSUME NEW E \in SUBSET Nat, E # {}
  PROVE  \E m \in E : \A k \in E : m <= k
<1> DEFINE R == {ss \in Nat \X Nat : ss[1] < ss[2]}
<1>1. IsWellFoundedOn(R, Nat)
  BY NatLessThanWellFounded DEF OpToRel
<1> HIDE DEF R
<1>2. PICK m \in E : \A k \in E : <<k, m>> \notin R
  BY <1>1, WFMin, Zenon
<1>3. ASSUME NEW k \in E PROVE m <= k
  <2>1. <<k, m>> \in Nat \X Nat /\ <<k, m>> \notin R
    BY <1>2
  <2> QED
    BY <2>1 DEF R
<1> QED
  BY <1>3

(* What the operations on the pool of snapshots keep. *)
LEMMA AddOK ==
  ASSUME NEW b, SnapshotsOK(b), NEW p \in StatePeers, NEW s \in Snapshots
  PROVE  SnapshotsOK(Add(b, p, s))
<1> DEFINE c == [b EXCEPT !.peers[s] = @ \cup {p}]
<1>1. CASE Add(b, p, s) = b
  BY <1>1
<1>2. CASE Add(b, p, s) # b
  <2>1. Add(b, p, s) = c /\ s.format \notin b.badFormats /\ p \notin b.badPeers /\ s \notin b.badSnapshots
    BY <1>2 DEF Add
  <2>2. c = [b EXCEPT !.peers = [b.peers EXCEPT ![s] = b.peers[s] \cup {p}]]
    OBVIOUS
  <2> HIDE DEF c
  <2>3. /\ c \in SnapshotPools
        /\ c.badFormats = b.badFormats /\ c.badPeers = b.badPeers /\ c.badSnapshots = b.badSnapshots
        /\ c.peers = [b.peers EXCEPT ![s] = b.peers[s] \cup {p}]
    BY <2>2 DEF SnapshotsOK, SnapshotPools
  <2>4. ASSUME NEW t \in Snapshots, c.peers[t] # {}
        PROVE  t \notin c.badSnapshots /\ t.format \notin c.badFormats /\ c.peers[t] \cap c.badPeers = {}
    <3>1. CASE t = s
      <4>1. c.peers[s] = b.peers[s] \cup {p} /\ (b.peers[s] # {} => b.peers[s] \cap b.badPeers = {})
        BY <2>3 DEF SnapshotsOK, SnapshotPools
      <4> QED
        BY <2>1, <2>3, <3>1, <4>1
    <3>2. CASE t # s
      BY <2>3, <2>4, <3>2 DEF SnapshotsOK, SnapshotPools
    <3> QED
      BY <3>1, <3>2
  <2> QED
    BY <2>1, <2>3, <2>4 DEF SnapshotsOK
<1> QED
  BY <1>1, <1>2

(* Peers removed from some snapshots, blacklists extended by what has gone.  *)
LEMMA FewerPeersOK ==
  ASSUME NEW b, SnapshotsOK(b), NEW c \in SnapshotPools,
         \A s \in Snapshots : c.peers[s] \subseteq b.peers[s],
         \A s \in Snapshots : c.peers[s] # {} =>
           /\ s \in c.badSnapshots => s \in b.badSnapshots
           /\ s.format \in c.badFormats => s.format \in b.badFormats
           /\ c.peers[s] \cap c.badPeers \subseteq b.badPeers
  PROVE  SnapshotsOK(c)
<1> SUFFICES ASSUME NEW s \in Snapshots, c.peers[s] # {}
             PROVE  s \notin c.badSnapshots /\ s.format \notin c.badFormats /\ c.peers[s] \cap c.badPeers = {}
  BY DEF SnapshotsOK
<1>1. b.peers[s] # {} /\ c.peers[s] \subseteq b.peers[s]
  OBVIOUS
<1>2. s \notin b.badSnapshots /\ s.format \notin b.badFormats /\ b.peers[s] \cap b.badPeers = {}
  BY <1>1 DEF SnapshotsOK
<1> QED
  BY <1>1, <1>2

LEMMA RejectOK ==
  ASSUME NEW b, SnapshotsOK(b)
  PROVE  /\ \A s \in Snapshots : SnapshotsOK(Reject(b, s))
         /\ \A s \in Snapshots : SnapshotsOK(RejectFormat(b, s.format))
         /\ \A ps \in SUBSET StatePeers : SnapshotsOK(RejectPeers(b, ps)) /\ SnapshotsOK(removePeers(b, ps))
<1>a. b \in SnapshotPools
  BY DEF SnapshotsOK
<1>1. ASSUME NEW s \in Snapshots PROVE SnapshotsOK(Reject(b, s))
  <2> DEFINE c == [b EXCEPT !.badSnapshots = @ \cup {s}]
             d == Reject(b, s)
  <2>1. /\ c \in SnapshotPools /\ c.peers = b.peers /\ c.badFormats = b.badFormats /\ c.badPeers = b.badPeers
        /\ c.badSnapshots = b.badSnapshots \cup {s}
    BY <1>a DEF SnapshotPools
  <2>2. d = [c EXCEPT !.peers = [t \in Snapshots |-> IF t \in {s} THEN {} ELSE c.peers[t]]]
    BY DEF Reject, removeSnapshots
  <2> HIDE DEF c, d
  <2>3. /\ d \in SnapshotPools /\ d.badFormats = c.badFormats /\ d.badPeers = c.badPeers
        /\ d.badSnapshots = c.badSnapshots /\ d.peers = [t \in Snapshots |-> IF t \in {s} THEN {} ELSE c.peers[t]]
    BY <2>1, <2>2 DEF SnapshotPools
  <2>4. SnapshotsOK(d)
    BY <2>1, <2>3, FewerPeersOK
  <2> QED
    BY <2>4 DEF d
<1>2. ASSUME NEW s \in Snapshots PROVE SnapshotsOK(RejectFormat(b, s.format))
  <2> DEFINE c == [b EXCEPT !.badFormats = @ \cup {s.format}]
             ss == {t \in Snapshots : t.format = s.format}
             d == RejectFormat(b, s.format)
  <2>1. /\ c \in SnapshotPools /\ c.peers = b.peers /\ c.badSnapshots = b.badSnapshots /\ c.badPeers = b.badPeers
        /\ c.badFormats = b.badFormats \cup {s.format}
    BY <1>a DEF SnapshotPools
  <2>2. d = [c EXCEPT !.peers = [t \in Snapshots |-> IF t \in ss THEN {} ELSE c.peers[t]]]
    BY DEF RejectFormat, removeSnapshots
  <2>3. \A t \in Snapshots : t \notin ss => t.format # s.format
    OBVIOUS
  <2> HIDE DEF c, d, ss
  <2>4. /\ d \in SnapshotPools /\ d.badFormats = c.badFormats /\ d.badPeers = c.badPeers
        /\ d.badSnapshots = c.badSnapshots /\ d.peers = [t \in Snapshots |-> IF t \in ss THEN {} ELSE c.peers[t]]
    BY <2>1, <2>2 DEF SnapshotPools
  <2>5. SnapshotsOK(d)
    BY <2>1, <2>3, <2>4, FewerPeersOK
  <2> QED
    BY <2>5 DEF d
<1>3. ASSUME NEW ps \in SUBSET StatePeers PROVE SnapshotsOK(RejectPeers(b, ps))
  <2> DEFINE c == [b EXCEPT !.badPeers = @ \cup ps]
             d == RejectPeers(b, ps)
  <2>1. /\ c \in SnapshotPools /\ c.peers = b.peers /\ c.badSnapshots = b.badSnapshots /\ c.badFormats = b.badFormats
        /\ c.badPeers = b.badPeers \cup ps
    BY <1>a DEF SnapshotPools
  <2>2. d = [c EXCEPT !.peers = [t \in Snapshots |-> c.peers[t] \ ps]]
    BY DEF RejectPeers, removePeers
  <2> HIDE DEF c, d
  <2>3. /\ d \in SnapshotPools /\ d.badFormats = c.badFormats /\ d.badPeers = c.badPeers
        /\ d.badSnapshots = c.badSnapshots /\ d.peers = [t \in Snapshots |-> c.peers[t] \ ps]
    BY <2>1, <2>2 DEF SnapshotPools
  <2>4. SnapshotsOK(d)
    BY <2>1, <2>3, FewerPeersOK
  <2> QED
    BY <2>4 DEF d
<1>4. ASSUME NEW ps \in SUBSET StatePeers PROVE SnapshotsOK(removePeers(b, ps))
  <2> DEFINE d == removePeers(b, ps)
  <2>1. d = [b EXCEPT !.peers = [t \in Snapshots |-> b.peers[t] \ ps]]
    BY DEF removePeers
  <2> HIDE DEF d
  <2>2. /\ d \in SnapshotPools /\ d.badFormats = b.badFormats /\ d.badPeers = b.badPeers
        /\ d.badSnapshots = b.badSnapshots /\ d.peers = [t \in Snapshots |-> b.peers[t] \ ps]
    BY <1>a, <2>1 DEF SnapshotPools
  <2>3. SnapshotsOK(d)
    BY <2>2, FewerPeersOK
  <2> QED
    BY <2>3 DEF d
<1> QED
  BY <1>1, <1>2, <1>3, <1>4
-----------------------------------------------------------------------------
(* What the operations on the queue of chunks keep. *)
Same(q, d) == d.snapshot = q.snapshot /\ DOMAIN d.files = DOMAIN q.files

LEMMA QueueRecord ==
  ASSUME NEW q, QueueOK(q), NEW F, NEW A, NEW R, NEW d,
         d = [snapshot |-> q.snapshot, files |-> F, allocated |-> A, returned |-> R],
         F = [i \in DOMAIN q.files |-> F[i]],
         \A i \in DOMAIN q.files : F[i] # Missing => F[i].content # "none",
         \A i \in R : i \in DOMAIN q.files /\ F[i] # Missing
  PROVE  QueueOK(d) /\ Same(q, d) /\ d.returned = R
<1>1. d.snapshot = q.snapshot /\ d.files = F /\ d.allocated = A /\ d.returned = R
  OBVIOUS
<1>2. DOMAIN F = DOMAIN q.files
  OBVIOUS
<1>3. d = [snapshot |-> d.snapshot, files |-> d.files, allocated |-> d.allocated, returned |-> d.returned]
  BY <1>1
<1>4. DOMAIN d.files # {} => d.snapshot \in Snapshots /\ DOMAIN d.files = Indexes(d.snapshot)
  BY <1>1, <1>2 DEF QueueOK
<1> QED
  BY <1>1, <1>2, <1>3, <1>4, Zenon DEF QueueOK, Same, Has

LEMMA discardOK ==
  ASSUME NEW q, QueueOK(q), NEW is
  PROVE  /\ QueueOK(discard(q, is))
         /\ Same(q, discard(q, is))
         /\ discard(q, is).returned = q.returned \ is
<1> DEFINE gone == {i \in is \cap DOMAIN q.files : Has(q, i)}
           F == [i \in DOMAIN q.files |-> IF i \in gone THEN Missing ELSE q.files[i]]
           A == q.allocated \ gone
           R == q.returned \ gone
           d == discard(q, is)
<1>1. q = [snapshot |-> q.snapshot, files |-> q.files, allocated |-> q.allocated, returned |-> q.returned]
  BY DEF QueueOK
<1>2. d = [q EXCEPT !.files = F, !.returned = R, !.allocated = A]
  BY DEF discard
<1>3. R = q.returned \ is
  BY DEF QueueOK
<1>4. \A i \in DOMAIN q.files : F[i] # Missing => F[i].content # "none"
  BY DEF QueueOK, Has
<1>5. \A i \in R : i \in DOMAIN q.files /\ F[i] # Missing
  BY DEF QueueOK, Has
<1>6. F = [i \in DOMAIN q.files |-> F[i]]
  OBVIOUS
<1> HIDE DEF F, A, R, d
<1>7. d = [snapshot |-> q.snapshot, files |-> F, allocated |-> A, returned |-> R]
  BY <1>1, <1>2, Zenon
<1>8. QueueOK(d) /\ Same(q, d) /\ d.returned = R
  BY <1>4, <1>5, <1>6, <1>7, QueueRecord
<1> QED
  BY <1>3, <1>8 DEF d

LEMMA DiscardSendersOK ==
  ASSUME NEW q, QueueOK(q), NEW ps
  PROVE  /\ QueueOK(DiscardSenders(q, ps))
         /\ Same(q, DiscardSenders(q, ps))
         /\ DiscardSenders(q, ps).returned = q.returned
<1> DEFINE is == {i \in DOMAIN q.files \ q.returned : q.files[i].sender \in ps}
<1>1. q.returned \ is = q.returned
  OBVIOUS
<1>2. DiscardSenders(q, ps) = discard(q, is)
  BY DEF DiscardSenders
<1> HIDE DEF is
<1>3. QueueOK(discard(q, is)) /\ Same(q, discard(q, is)) /\ discard(q, is).returned = q.returned \ is
  BY discardOK
<1> QED
  BY <1>1, <1>2, <1>3

LEMMA TrimmedOK ==
  ASSUME QueueOK(chunks), NEW refetch, NEW reject
  PROVE  /\ QueueOK(Trimmed(refetch, reject))
         /\ Same(chunks, Trimmed(refetch, reject))
         /\ Trimmed(refetch, reject).returned = chunks.returned \ refetch
<1> DEFINE d == discard(chunks, refetch)
<1>1. QueueOK(d) /\ Same(chunks, d) /\ d.returned = chunks.returned \ refetch
  BY discardOK
<1>2. Trimmed(refetch, reject) = DiscardSenders(d, reject)
  BY DEF Trimmed
<1> HIDE DEF d
<1>3. /\ QueueOK(DiscardSenders(d, reject)) /\ Same(d, DiscardSenders(d, reject))
      /\ DiscardSenders(d, reject).returned = d.returned
  BY <1>1, DiscardSendersOK
<1> QED
  BY <1>1, <1>2, <1>3 DEF Same

LEMMA AddChunkOK ==
  ASSUME NEW q, QueueOK(q), NEW i \in DOMAIN q.files, NEW chunk, chunk.content # "none"
  PROVE  /\ QueueOK(AddChunk(q, i, chunk)) /\ Same(q, AddChunk(q, i, chunk))
         /\ AddChunk(q, i, chunk).returned = q.returned
<1>1. CASE Has(q, i)
  BY <1>1 DEF AddChunk, Same
<1>2. CASE ~Has(q, i)
  <2> DEFINE F == [q.files EXCEPT ![i] = chunk]
             d == AddChunk(q, i, chunk)
  <2>1. q = [snapshot |-> q.snapshot, files |-> q.files, allocated |-> q.allocated, returned |-> q.returned]
    BY DEF QueueOK
  <2>2. d = [q EXCEPT !.files = F]
    BY <1>2 DEF AddChunk
  <2>3. q.files = [k \in DOMAIN q.files |-> q.files[k]]
    BY DEF QueueOK
  <2>4. /\ F = [k \in DOMAIN q.files |-> F[k]]
        /\ \A k \in DOMAIN q.files : F[k] = IF k = i THEN chunk ELSE q.files[k]
    BY <2>3
  <2> HIDE DEF F, d
  <2>5. chunk # Missing
    BY DEF Missing
  <2>6. \A k \in DOMAIN q.files : F[k] # Missing => F[k].content # "none"
    BY <2>4 DEF QueueOK, Has
  <2>7. \A k \in q.returned : k \in DOMAIN q.files /\ F[k] # Missing
    BY <2>4, <2>5 DEF QueueOK, Has
  <2>8. d = [snapshot |-> q.snapshot, files |-> F, allocated |-> q.allocated, returned |-> q.returned]
    BY <2>1, <2>2
  <2> DEFINE A == q.allocated
             R == q.returned
  <2> HIDE DEF A, R
  <2>9. QueueOK(d) /\ Same(q, d) /\ d.returned = R
    <3>1. /\ d = [snapshot |-> q.snapshot, files |-> F, allocated |-> A, returned |-> R]
          /\ \A k \in R : k \in DOMAIN q.files /\ F[k] # Missing
      BY <2>7, <2>8 DEF A, R
    <3> QED
      BY <2>4, <2>6, <3>1, QueueRecord
  <2> QED
    BY <2>9 DEF d, R
<1> QED
  BY <1>1, <1>2

LEMMA ReturnedOK ==
  ASSUME NEW q, QueueOK(q), NEW R, \A i \in R : i \in DOMAIN q.files /\ Has(q, i),
         NEW d, d = [q EXCEPT !.returned = R]
  PROVE  QueueOK(d) /\ Same(q, d) /\ d.returned = R
<1>1. q = [snapshot |-> q.snapshot, files |-> q.files, allocated |-> q.allocated, returned |-> q.returned]
  BY DEF QueueOK
<1>2. d = [snapshot |-> d.snapshot, files |-> d.files, allocated |-> d.allocated, returned |-> d.returned]
  BY <1>1
<1>3. d.snapshot = q.snapshot /\ d.files = q.files /\ d.returned = R
  BY <1>1
<1> QED
  BY <1>2, <1>3 DEF QueueOK, Same, Has

LEMMA AllocatedOK ==
  ASSUME NEW q, QueueOK(q), NEW A, NEW d, d = [q EXCEPT !.allocated = A]
  PROVE  QueueOK(d) /\ Same(q, d) /\ d.returned = q.returned
<1>1. q = [snapshot |-> q.snapshot, files |-> q.files, allocated |-> q.allocated, returned |-> q.returned]
  BY DEF QueueOK
<1>2. d = [snapshot |-> d.snapshot, files |-> d.files, allocated |-> d.allocated, returned |-> d.returned]
  BY <1>1
<1>3. d.snapshot = q.snapshot /\ d.files = q.files /\ d.returned = q.returned
  BY <1>1
<1> QED
  BY <1>2, <1>3 DEF QueueOK, Same, Has

LEMMA NewQueueOK ==
  /\ QueueOK(ClosedQueue) /\ DOMAIN ClosedQueue.files = {}
  /\ \A s \in Snapshots : /\ QueueOK(newChunkQueue(s)) /\ newChunkQueue(s).snapshot = s
                          /\ DOMAIN newChunkQueue(s).files = Indexes(s) /\ newChunkQueue(s).returned = {}
<1>1. DOMAIN ClosedQueue.files = {}
  BY DEF ClosedQueue
<1>2. QueueOK(ClosedQueue)
  <2>1. /\ ClosedQueue.files = <<>> /\ ClosedQueue.returned = {}
        /\ ClosedQueue = [snapshot |-> ClosedQueue.snapshot, files |-> ClosedQueue.files,
                           allocated |-> ClosedQueue.allocated, returned |-> ClosedQueue.returned]
    BY DEF ClosedQueue
  <2>2. ClosedQueue.files = [i \in DOMAIN ClosedQueue.files |-> ClosedQueue.files[i]]
    BY <2>1
  <2> QED
    BY <1>1, <2>1, <2>2 DEF QueueOK
<1>3. ASSUME NEW s \in Snapshots
      PROVE  /\ QueueOK(newChunkQueue(s)) /\ newChunkQueue(s).snapshot = s
             /\ DOMAIN newChunkQueue(s).files = Indexes(s) /\ newChunkQueue(s).returned = {}
  BY Zenon DEF QueueOK, newChunkQueue, Has
<1> QED
  BY <1>1, <1>2, <1>3

(* Allocate and Next take the first chunk that is left, a chunk of the queue. *)
LEMMA FirstChunk ==
  ASSUME QueueOK(chunks)
  PROVE  /\ Unallocated # {} => Allocated \in DOMAIN chunks.files
         /\ NotReturned(chunks) # {} => nextUp(chunks) \in NotReturned(chunks)
<1>1. DOMAIN chunks.files \subseteq Nat
  <2>1. CASE DOMAIN chunks.files = {}
    BY <2>1
  <2>2. CASE DOMAIN chunks.files # {}
    <3>1. chunks.snapshot.chunks \in Nat /\ DOMAIN chunks.files = 0 .. (chunks.snapshot.chunks - 1)
      BY <2>2, SnapshotsAssumption DEF QueueOK, Indexes
    <3> QED
      BY <3>1
  <2> QED
    BY <2>1, <2>2
<1>2. Unallocated \subseteq DOMAIN chunks.files /\ NotReturned(chunks) \subseteq DOMAIN chunks.files
  BY DEF Unallocated, NotReturned
<1>3. ASSUME Unallocated # {} PROVE Allocated \in DOMAIN chunks.files
  <2>1. \E m \in Unallocated : \A k \in Unallocated : m <= k
    BY <1>1, <1>2, <1>3, LeastNatural
  <2> QED
    BY <1>2, <2>1 DEF Allocated
<1>4. ASSUME NotReturned(chunks) # {} PROVE nextUp(chunks) \in NotReturned(chunks)
  <2>1. \E m \in NotReturned(chunks) : \A k \in NotReturned(chunks) : m <= k
    BY <1>1, <1>2, <1>4, LeastNatural
  <2> QED
    BY <2>1 DEF nextUp
<1> QED
  BY <1>3, <1>4
-----------------------------------------------------------------------------
(* The ways out of Sync: the snapshot is given up, or Sync returns. *)
LEMMA GiveUpOK ==
  ASSUME StateInv, NEW b, SnapshotsOK(b), GiveUp(b), UNCHANGED requests
  PROVE  StateInv'
<1>1. SnapshotsOK(snapshots')
  BY DEF GiveUp
<1>2. QueueOK(chunks') /\ chunks' = ClosedQueue
  BY NewQueueOK DEF GiveUp
<1>3. /\ syncer' = [pc |-> "discover", snapshot |-> NoOne, chunk |-> 0, attached |-> FALSE]
      /\ fetchers' = [f \in Fetchers |-> Idle]
  BY DEF GiveUp
<1>4. syncer'.pc = "discover" /\ ~syncer'.attached
  BY <1>3
<1>5. ~Offering' /\ ~Restoring'
  BY <1>4 DEF Offering, Restoring
<1>6. SyncerOK'
  BY <1>3, <1>4, <1>5 DEF SyncerOK, Idle
<1>7. AppOK'
  BY <1>4, <1>5 DEF AppOK
<1>8. fetchers' = [f \in Fetchers |-> fetchers'[f]]
  BY <1>3
<1>9. RequestsOK'
  BY DEF StateInv, RequestsOK
<1> QED
  BY <1>1, <1>2, <1>6, <1>7, <1>8, <1>9 DEF StateInv

LEMMA ReturnOK ==
  ASSUME StateInv, Offering \/ Restoring, NEW pc \in {"failed", "done", "retry"}, Return(pc),
         SnapshotsOK(snapshots'), QueueOK(chunks'), Same(chunks, chunks'), UNCHANGED requests
  PROVE  StateInv'
<1>1. /\ syncer' = [syncer EXCEPT !.pc = pc, !.attached = FALSE]
      /\ fetchers' = [f \in Fetchers |-> Idle]
  BY DEF Return
<1>2. syncer = [pc |-> syncer.pc, snapshot |-> syncer.snapshot, chunk |-> syncer.chunk, attached |-> syncer.attached]
  BY DEF StateInv, SyncerOK
<1>3. syncer' = [pc |-> pc, snapshot |-> syncer.snapshot, chunk |-> syncer.chunk, attached |-> FALSE]
  BY <1>1, <1>2, Zenon
<1>4. syncer'.pc = pc /\ ~syncer'.attached /\ syncer'.snapshot = syncer.snapshot /\ syncer'.chunk = syncer.chunk
  BY <1>3
<1>5. ~Offering' /\ ~Restoring'
  BY <1>4, Zenon DEF Offering, Restoring
<1>6. SyncerOK'
  <2>1. syncer' = [pc |-> syncer'.pc, snapshot |-> syncer'.snapshot, chunk |-> syncer'.chunk, attached |-> syncer'.attached]
    BY <1>3
  <2>2. /\ syncer.snapshot \in Snapshots
        /\ chunks.snapshot = syncer.snapshot /\ DOMAIN chunks.files = Indexes(syncer.snapshot)
    BY Zenon DEF StateInv, SyncerOK, Offering, Restoring
  <2>3. chunks'.snapshot = syncer'.snapshot /\ DOMAIN chunks'.files = Indexes(syncer'.snapshot)
    BY <1>4, <2>2 DEF Same
  <2>4. \A f \in Fetchers : fetchers'[f].pc = "off"
    BY <1>1 DEF Idle
  <2> QED
    BY <1>4, <1>5, <2>1, <2>2, <2>3, <2>4 DEF SyncerOK
<1>7. AppOK'
  BY <1>4, <1>5 DEF AppOK
<1>8. fetchers' = [f \in Fetchers |-> fetchers'[f]]
  BY <1>1
<1>9. RequestsOK'
  BY DEF StateInv, RequestsOK
<1> QED
  BY <1>6, <1>7, <1>8, <1>9 DEF StateInv

(* Steps of SyncAny that go on with the snapshot. *)
LEMMA SyncGoesOn ==
  ASSUME StateInv, syncer.pc # "discover",
         NEW pc \in {"app hash", "offer", "state", "next", "apply", "verify"}, NEW i, NEW a,
         syncer' = [pc |-> pc, snapshot |-> syncer.snapshot, chunk |-> i, attached |-> a],
         Offering \/ Restoring \/ syncer.pc = "retry",
         Restoring => Restoring',
         QueueOK(chunks'), Same(chunks, chunks'), SnapshotsOK(snapshots'), UNCHANGED requests,
         \/ UNCHANGED fetchers
         \/ fetchers' = [f \in Fetchers |-> Ready] /\ Restoring',
         AppOK'
  PROVE  StateInv'
<1>1. syncer'.pc = pc /\ syncer'.attached = a /\ syncer'.snapshot = syncer.snapshot /\ syncer'.chunk = i
  BY Zenon
<1>2. syncer' = [pc |-> syncer'.pc, snapshot |-> syncer'.snapshot, chunk |-> syncer'.chunk, attached |-> syncer'.attached]
  BY <1>1, Zenon
<1>3. /\ syncer.snapshot \in Snapshots
      /\ chunks.snapshot = syncer.snapshot /\ DOMAIN chunks.files = Indexes(syncer.snapshot)
  BY Zenon DEF StateInv, SyncerOK, Offering, Restoring
<1>4. chunks'.snapshot = syncer'.snapshot /\ DOMAIN chunks'.files = Indexes(syncer'.snapshot)
  BY <1>1, <1>3, Zenon DEF Same
<1>5. \A f \in Fetchers : /\ fetchers'[f].pc # "off" => Restoring'
                          /\ fetchers'[f].pc = "wait" => fetchers'[f].index \in DOMAIN chunks'.files
  <2>1. CASE UNCHANGED fetchers
    BY <2>1, Zenon DEF StateInv, SyncerOK, Same
  <2>2. CASE fetchers' = [f \in Fetchers |-> Ready] /\ Restoring'
    BY <2>2, Zenon DEF Ready
  <2> QED
    BY <2>1, <2>2, Zenon
<1>6. fetchers' = [f \in Fetchers |-> fetchers'[f]]
  <2>1. CASE UNCHANGED fetchers
    BY <2>1, Zenon DEF StateInv
  <2>2. CASE fetchers' = [f \in Fetchers |-> Ready]
    BY <2>2, Zenon
  <2> QED
    BY <2>1, <2>2, Zenon
<1>7. Offering' \/ Restoring'
  BY <1>1, Zenon DEF Offering, Restoring
<1>8. SyncerOK'
  BY <1>1, <1>2, <1>3, <1>4, <1>5, <1>7, Zenon DEF SyncerOK
<1>9. RequestsOK'
  BY Zenon DEF StateInv, RequestsOK
<1> QED
  BY <1>6, <1>8, <1>9, Zenon DEF StateInv

LEMMA SyncerRecords ==
  ASSUME syncer = [pc |-> syncer.pc, snapshot |-> syncer.snapshot, chunk |-> syncer.chunk, attached |-> syncer.attached]
  PROVE  /\ \A pc : [syncer EXCEPT !.pc = pc] =
                     [pc |-> pc, snapshot |-> syncer.snapshot, chunk |-> syncer.chunk, attached |-> syncer.attached]
         /\ \A pc, i : [syncer EXCEPT !.pc = pc, !.chunk = i] =
                        [pc |-> pc, snapshot |-> syncer.snapshot, chunk |-> i, attached |-> syncer.attached]
         /\ \A pc, b : [syncer EXCEPT !.pc = pc, !.attached = b] =
                        [pc |-> pc, snapshot |-> syncer.snapshot, chunk |-> syncer.chunk, attached |-> b]
         /\ \A pc, u, b : [syncer EXCEPT !.pc = pc, !.snapshot = u, !.attached = b] =
                           [pc |-> pc, snapshot |-> u, chunk |-> syncer.chunk, attached |-> b]
<1> DEFINE p == syncer.pc
           t == syncer.snapshot
           c == syncer.chunk
           a == syncer.attached
<1>1. syncer = [pc |-> p, snapshot |-> t, chunk |-> c, attached |-> a]
  OBVIOUS
<1> HIDE DEF p, t, c, a
<1>2. ASSUME NEW pc PROVE [syncer EXCEPT !.pc = pc] = [pc |-> pc, snapshot |-> t, chunk |-> c, attached |-> a]
  BY <1>1
<1>3. ASSUME NEW pc, NEW i
      PROVE  [syncer EXCEPT !.pc = pc, !.chunk = i] = [pc |-> pc, snapshot |-> t, chunk |-> i, attached |-> a]
  <2> DEFINE d == [syncer EXCEPT !.pc = pc]
  <2>1. d = [pc |-> pc, snapshot |-> t, chunk |-> c, attached |-> a]
    BY <1>2
  <2> HIDE DEF d
  <2>2. [d EXCEPT !.chunk = i] = [pc |-> pc, snapshot |-> t, chunk |-> i, attached |-> a]
    BY <2>1
  <2> QED
    BY <2>2 DEF d
<1>4. ASSUME NEW pc, NEW b
      PROVE  [syncer EXCEPT !.pc = pc, !.attached = b] = [pc |-> pc, snapshot |-> t, chunk |-> c, attached |-> b]
  <2> DEFINE d == [syncer EXCEPT !.pc = pc]
  <2>1. d = [pc |-> pc, snapshot |-> t, chunk |-> c, attached |-> a]
    BY <1>2
  <2> HIDE DEF d
  <2>2. [d EXCEPT !.attached = b] = [pc |-> pc, snapshot |-> t, chunk |-> c, attached |-> b]
    BY <2>1
  <2> QED
    BY <2>2 DEF d
<1>5. ASSUME NEW pc, NEW u, NEW b
      PROVE  [syncer EXCEPT !.pc = pc, !.snapshot = u, !.attached = b] =
             [pc |-> pc, snapshot |-> u, chunk |-> c, attached |-> b]
  <2> DEFINE d == [syncer EXCEPT !.pc = pc]
             e == [d EXCEPT !.snapshot = u]
  <2>1. d = [pc |-> pc, snapshot |-> t, chunk |-> c, attached |-> a]
    BY <1>2
  <2> HIDE DEF d
  <2>2. e = [pc |-> pc, snapshot |-> u, chunk |-> c, attached |-> a]
    BY <2>1
  <2> HIDE DEF e
  <2>3. [e EXCEPT !.attached = b] = [pc |-> pc, snapshot |-> u, chunk |-> c, attached |-> b]
    BY <2>2
  <2> QED
    BY <2>3 DEF d, e
<1> QED
  BY <1>2, <1>3, <1>4, <1>5, Zenon DEF p, t, c, a

(* The part of SyncAny before a chunk is applied. *)
LEMMA OfferSteps ==
  ASSUME StateInv, Discover \/ LightClientFails \/ AppHash \/ OfferAccepted \/ OfferRefused \/ StateAndCommit
  PROVE  StateInv'
<1> DEFINE i == syncer.chunk
           a == syncer.attached
<1>a. /\ syncer = [pc |-> syncer.pc, snapshot |-> syncer.snapshot, chunk |-> i, attached |-> a]
      /\ SnapshotsOK(snapshots) /\ QueueOK(chunks) /\ SyncerOK /\ AppOK /\ RequestsOK
  BY DEF StateInv, SyncerOK
<1>b. Same(chunks, chunks)
  BY DEF Same
<1> HIDE DEF i, a
<1>c. /\ \A pc : [syncer EXCEPT !.pc = pc] = [pc |-> pc, snapshot |-> syncer.snapshot, chunk |-> i, attached |-> a]
      /\ \A pc, u, b : [syncer EXCEPT !.pc = pc, !.snapshot = u, !.attached = b] =
                        [pc |-> pc, snapshot |-> u, chunk |-> i, attached |-> b]
  BY <1>a, SyncerRecords, Zenon DEF i, a
<1>1. CASE Discover
  <2>1. PICK s \in Snapshots : /\ syncer' = [syncer EXCEPT !.pc = "app hash", !.snapshot = s, !.attached = TRUE]
                               /\ chunks' = newChunkQueue(s)
    BY <1>1, Zenon DEF Discover, Best, Known
  <2>2. syncer' = [pc |-> "app hash", snapshot |-> s, chunk |-> i, attached |-> TRUE]
    BY <1>c, <2>1, Zenon
  <2>3. syncer'.pc = "app hash" /\ syncer'.snapshot = s
    BY <2>2, Zenon
  <2>4. Offering' /\ ~Restoring'
    BY <2>3, Zenon DEF Offering, Restoring
  <2>5. syncer.pc = "discover" /\ UNCHANGED <<snapshots, fetchers, requests>>
    BY <1>1, Zenon DEF Discover
  <2>6. /\ QueueOK(chunks') /\ chunks'.snapshot = s
        /\ DOMAIN chunks'.files = Indexes(s) /\ chunks'.returned = {}
    BY <2>1, NewQueueOK
  <2>7. ASSUME NEW f \in Fetchers PROVE fetchers'[f].pc = "off"
    BY <1>a, <2>5 DEF SyncerOK, Restoring
  <2>8. syncer' = [pc |-> syncer'.pc, snapshot |-> syncer'.snapshot, chunk |-> syncer'.chunk, attached |-> syncer'.attached]
    BY <2>2, Zenon
  <2>9. SyncerOK'
    BY <2>3, <2>4, <2>6, <2>7, <2>8, Zenon DEF SyncerOK
  <2>10. AppOK'
    BY <2>3, <2>4, <2>6, Zenon DEF AppOK
  <2> QED
    BY <1>a, <2>5, <2>6, <2>9, <2>10 DEF StateInv, RequestsOK
<1>2. CASE LightClientFails
  <2>1. Offering \/ Restoring
    BY <1>2, Zenon DEF LightClientFails, Offering, Restoring
  <2>2. syncer.snapshot \in Snapshots /\ UNCHANGED requests
    BY <1>a, <1>2, Zenon DEF SyncerOK, LightClientFails
  <2>3. CASE Return("failed") /\ UNCHANGED <<snapshots, chunks>>
    <3>1. SnapshotsOK(snapshots') /\ QueueOK(chunks') /\ Same(chunks, chunks')
      BY <1>a, <1>b, <2>3
    <3>2. \A pc \in {"failed", "done", "retry"} : Return(pc) => StateInv'
      BY <2>1, <2>2, <3>1, ReturnOK
    <3> QED
      BY <2>3, <3>2
  <2>4. CASE GiveUp(Reject(snapshots, syncer.snapshot))
    BY <1>a, <2>2, <2>4, GiveUpOK, RejectOK
  <2> QED
    BY <1>2, <2>3, <2>4, Zenon DEF LightClientFails
<1>3. CASE AppHash
  <2>1. /\ syncer' = [pc |-> "offer", snapshot |-> syncer.snapshot, chunk |-> i, attached |-> a]
        /\ syncer.pc = "app hash"
        /\ UNCHANGED <<snapshots, chunks, fetchers, requests, app>>
    BY <1>c, <1>3, Zenon DEF AppHash
  <2>2. syncer'.pc = "offer"
    BY <2>1, Zenon
  <2>3. Offering /\ ~Restoring /\ Offering' /\ ~Restoring'
    BY <2>1, <2>2, Zenon DEF Offering, Restoring
  <2>4. AppOK'
    BY <1>a, <2>1, <2>2, <2>3, Zenon DEF AppOK
  <2> QED
    BY <1>a, <1>b, <2>1, <2>3, <2>4, SyncGoesOn, Zenon
<1>4. CASE OfferAccepted
  <2>1. /\ syncer' = [pc |-> "state", snapshot |-> syncer.snapshot, chunk |-> i, attached |-> a]
        /\ syncer.pc = "offer"
        /\ app' = [k \in Indexes(syncer.snapshot) |-> "none"]
        /\ fetchers' = [f \in Fetchers |-> Ready]
        /\ UNCHANGED <<snapshots, chunks, requests>>
    BY <1>c, <1>4, Zenon DEF OfferAccepted
  <2>2. syncer'.pc = "state" /\ syncer'.snapshot = syncer.snapshot
    BY <2>1
  <2>3. Offering /\ ~Restoring /\ ~Offering' /\ Restoring'
    BY <2>1, <2>2 DEF Offering, Restoring
  <2>4. chunks'.returned = {}
    BY <1>a, <2>1, <2>3 DEF AppOK
  <2>5. app' = [k \in Indexes(syncer'.snapshot) |-> app'[k]]
    BY <2>1, <2>2
  <2>6. AppOK'
    BY <2>2, <2>3, <2>4, <2>5 DEF AppOK
  <2> QED
    BY <1>a, <1>b, <2>1, <2>3, <2>6, SyncGoesOn, Zenon
<1>5. CASE OfferRefused
  <2>1. Offering \/ Restoring
    BY <1>5, Zenon DEF OfferRefused, Offering, Restoring
  <2>2. syncer.snapshot \in Snapshots /\ UNCHANGED requests
    BY <1>a, <1>5 DEF SyncerOK, OfferRefused
  <2>3. CASE Return("failed") /\ UNCHANGED <<snapshots, chunks>>
    <3>1. SnapshotsOK(snapshots') /\ QueueOK(chunks') /\ Same(chunks, chunks')
      BY <1>a, <1>b, <2>3
    <3>2. \A pc \in {"failed", "done", "retry"} : Return(pc) => StateInv'
      BY <2>1, <2>2, <3>1, ReturnOK
    <3> QED
      BY <2>3, <3>2
  <2>4. CASE GiveUp(Reject(snapshots, syncer.snapshot))
    BY <1>a, <2>2, <2>4, GiveUpOK, RejectOK
  <2>5. CASE GiveUp(RejectFormat(snapshots, syncer.snapshot.format))
    BY <1>a, <2>2, <2>5, GiveUpOK, RejectOK
  <2>6. CASE GiveUp(RejectPeers(snapshots, snapshots.peers[syncer.snapshot]))
    <3>1. snapshots.peers[syncer.snapshot] \in SUBSET StatePeers
      BY <1>a, <2>2 DEF SnapshotsOK, SnapshotPools
    <3> QED
      BY <1>a, <2>2, <2>6, <3>1, GiveUpOK, RejectOK
  <2> QED
    BY <1>5, <2>3, <2>4, <2>5, <2>6, Zenon DEF OfferRefused
<1>6. CASE StateAndCommit
  <2>1. /\ syncer' = [pc |-> "next", snapshot |-> syncer.snapshot, chunk |-> i, attached |-> a]
        /\ syncer.pc = "state"
        /\ UNCHANGED <<snapshots, chunks, fetchers, requests, app>>
    BY <1>c, <1>6, Zenon DEF StateAndCommit
  <2>2. syncer'.pc = "next" /\ syncer'.snapshot = syncer.snapshot
    BY <2>1
  <2>3. ~Offering /\ Restoring /\ ~Offering' /\ Restoring'
    BY <2>1, <2>2 DEF Offering, Restoring
  <2>4. chunks'.returned = {}
    BY <1>a, <2>1, <2>3 DEF AppOK
  <2>5. app' = [k \in Indexes(syncer'.snapshot) |-> app'[k]]
    BY <1>a, <2>1, <2>2, <2>3 DEF AppOK
  <2>6. AppOK'
    BY <2>2, <2>3, <2>4, <2>5 DEF AppOK
  <2> QED
    BY <1>a, <1>b, <2>1, <2>3, <2>6, SyncGoesOn, Zenon
<1> QED
  BY <1>1, <1>2, <1>3, <1>4, <1>5, <1>6

(* The part of SyncAny that takes chunks from the queue and applies them. *)
LEMMA NextSteps ==
  ASSUME StateInv, NextChunk \/ NextDone \/ NextTimeout \/ RetrySnapshot \/ verifyApp
  PROVE  StateInv'
<1> DEFINE i == syncer.chunk
           a == syncer.attached
<1>a. /\ syncer = [pc |-> syncer.pc, snapshot |-> syncer.snapshot, chunk |-> i, attached |-> a]
      /\ SnapshotsOK(snapshots) /\ QueueOK(chunks) /\ SyncerOK /\ AppOK /\ RequestsOK
  BY DEF StateInv, SyncerOK
<1>b. Same(chunks, chunks)
  BY DEF Same
<1> HIDE DEF i, a
<1>c. /\ \A pc : [syncer EXCEPT !.pc = pc] = [pc |-> pc, snapshot |-> syncer.snapshot, chunk |-> i, attached |-> a]
      /\ \A pc, k : [syncer EXCEPT !.pc = pc, !.chunk = k] =
                     [pc |-> pc, snapshot |-> syncer.snapshot, chunk |-> k, attached |-> a]
      /\ \A pc, b : [syncer EXCEPT !.pc = pc, !.attached = b] =
                     [pc |-> pc, snapshot |-> syncer.snapshot, chunk |-> i, attached |-> b]
  BY <1>a, SyncerRecords, Zenon DEF i, a
<1>1. CASE NextChunk
  <2> DEFINE k == nextUp(chunks)
  <2>1. k \in NotReturned(chunks) /\ Has(chunks, k)
    BY <1>a, <1>1, FirstChunk DEF NextChunk
  <2>2. /\ syncer.pc = "next"
        /\ syncer' = [syncer EXCEPT !.pc = "apply", !.chunk = k]
        /\ chunks' = [chunks EXCEPT !.returned = @ \cup {k}]
        /\ UNCHANGED <<snapshots, fetchers, requests, app>>
    BY <1>1 DEF NextChunk
  <2> HIDE DEF k
  <2>3. syncer' = [pc |-> "apply", snapshot |-> syncer.snapshot, chunk |-> k, attached |-> a]
    BY <1>c, <2>2, Zenon
  <2>4. syncer'.pc = "apply" /\ syncer'.snapshot = syncer.snapshot /\ syncer'.chunk = k
    BY <2>3
  <2>5. ~Offering /\ Restoring /\ ~Offering' /\ Restoring'
    BY <2>2, <2>4 DEF Offering, Restoring
  <2>6. QueueOK(chunks') /\ Same(chunks, chunks') /\ chunks'.returned = chunks.returned \cup {k}
    <3> DEFINE R == chunks.returned \cup {k}
    <3>1. \A j \in R : j \in DOMAIN chunks.files /\ Has(chunks, j)
      BY <1>a, <2>1 DEF QueueOK, NotReturned
    <3>2. chunks' = [chunks EXCEPT !.returned = R]
      BY <2>2
    <3> HIDE DEF R
    <3>3. QueueOK(chunks') /\ Same(chunks, chunks') /\ chunks'.returned = R
      BY <1>a, <3>1, <3>2, ReturnedOK
    <3> QED
      BY <3>3 DEF R
  <2>7. app' = [j \in Indexes(syncer'.snapshot) |-> app'[j]]
    BY <1>a, <2>2, <2>4, <2>5 DEF AppOK
  <2>8. \A j \in chunks'.returned : app'[j] = "none" => j = k
    BY <1>a, <2>2, <2>5, <2>6 DEF AppOK
  <2>9. AppOK'
    BY <2>4, <2>5, <2>6, <2>7, <2>8 DEF AppOK
  <2> QED
    BY <1>a, <2>2, <2>3, <2>5, <2>6, <2>9, SyncGoesOn, Zenon
<1>2. CASE NextDone
  <2>1. /\ syncer' = [pc |-> "verify", snapshot |-> syncer.snapshot, chunk |-> i, attached |-> a]
        /\ syncer.pc = "next" /\ NotReturned(chunks) = {}
        /\ UNCHANGED <<snapshots, chunks, fetchers, requests, app>>
    BY <1>c, <1>2, Zenon DEF NextDone
  <2>2. syncer'.pc = "verify" /\ syncer'.snapshot = syncer.snapshot
    BY <2>1
  <2>3. ~Offering /\ Restoring /\ ~Offering' /\ Restoring'
    BY <2>1, <2>2 DEF Offering, Restoring
  <2>4. DOMAIN chunks'.files \subseteq chunks'.returned
    BY <2>1 DEF NotReturned
  <2>5. app' = [j \in Indexes(syncer'.snapshot) |-> app'[j]]
    BY <1>a, <2>1, <2>2, <2>3 DEF AppOK
  <2>6. \A j \in chunks'.returned : app'[j] # "none"
    BY <1>a, <2>1, <2>3 DEF AppOK
  <2>7. AppOK'
    BY <2>2, <2>3, <2>4, <2>5, <2>6 DEF AppOK
  <2> QED
    BY <1>a, <1>b, <2>1, <2>3, <2>7, SyncGoesOn, Zenon
<1>3. CASE NextTimeout
  <2>1. syncer.snapshot \in Snapshots /\ UNCHANGED requests /\ GiveUp(Reject(snapshots, syncer.snapshot))
    BY <1>a, <1>3 DEF SyncerOK, NextTimeout
  <2> QED
    BY <1>a, <2>1, GiveUpOK, RejectOK
<1>4. CASE RetrySnapshot
  <2>1. /\ syncer' = [syncer EXCEPT !.pc = "app hash", !.attached = TRUE]
        /\ syncer.pc = "retry"
        /\ chunks' = [chunks EXCEPT !.returned = {}]
        /\ UNCHANGED <<snapshots, fetchers, requests, app>>
    BY <1>4 DEF RetrySnapshot, RetryAll
  <2>2. syncer' = [pc |-> "app hash", snapshot |-> syncer.snapshot, chunk |-> i, attached |-> TRUE]
    BY <1>c, <2>1, Zenon
  <2>3. syncer'.pc = "app hash" /\ syncer'.snapshot = syncer.snapshot
    BY <2>2, Zenon
  <2>4. ~Offering /\ ~Restoring /\ Offering' /\ ~Restoring'
    BY <2>1, <2>3 DEF Offering, Restoring
  <2>5. QueueOK(chunks') /\ Same(chunks, chunks') /\ chunks'.returned = {}
    BY <1>a, <2>1, ReturnedOK, Zenon
  <2>6. AppOK'
    BY <2>3, <2>4, <2>5, Zenon DEF AppOK
  <2> QED
    BY <1>a, <2>1, <2>2, <2>4, <2>5, <2>6, SyncGoesOn, Zenon
<1>5. CASE verifyApp
  <2>1. PICK pc \in {"failed", "done", "retry"} : Return(pc)
    BY <1>5 DEF verifyApp
  <2>2. Restoring /\ UNCHANGED <<snapshots, chunks, requests>>
    BY <1>5 DEF verifyApp, Restoring
  <2>3. SnapshotsOK(snapshots') /\ QueueOK(chunks') /\ Same(chunks, chunks')
    BY <1>a, <1>b, <2>2
  <2> QED
    BY <2>1, <2>2, <2>3, ReturnOK
<1> QED
  BY <1>1, <1>2, <1>3, <1>4, <1>5

LEMMA ApplySteps ==
  ASSUME StateInv, NEW refetch \in SUBSET DOMAIN app, NEW reject \in SUBSET StatePeers,
         \/ ApplyAccepted
         \/ \E result \in {"accept", "retry"} : ApplyAndTrim(result, refetch, reject)
         \/ \E result \in {"retry snapshot", "reject snapshot", "abort"} : ApplyEnds(result, refetch, reject)
  PROVE  StateInv'
<1> DEFINE i == syncer.chunk
           a == syncer.attached
<1>a. /\ syncer = [pc |-> syncer.pc, snapshot |-> syncer.snapshot, chunk |-> i, attached |-> a]
      /\ SnapshotsOK(snapshots) /\ QueueOK(chunks) /\ SyncerOK /\ AppOK /\ RequestsOK
  BY Zenon DEF StateInv, SyncerOK
<1>b. Same(chunks, chunks)
  BY Zenon DEF Same
<1>c. syncer.pc = "apply"
  BY DEF ApplyAccepted, ApplyAndTrim, ApplyEnds
<1>d. Restoring /\ ~Offering
  BY <1>c, Zenon DEF Restoring, Offering
<1>e. /\ syncer.snapshot \in Snapshots /\ DOMAIN chunks.files = Indexes(syncer.snapshot)
      /\ app = [j \in Indexes(syncer.snapshot) |-> app[j]]
      /\ i \in chunks.returned
      /\ \A j \in chunks.returned : app[j] = "none" => j = i
  BY <1>a, <1>c, <1>d, Zenon DEF SyncerOK, AppOK
<1>f. i \in DOMAIN chunks.files /\ chunks.files[i].content # "none"
  BY <1>a, <1>e, Zenon DEF QueueOK
<1>g. \A j \in chunks.returned : j \in Indexes(syncer.snapshot)
  BY <1>a, <1>e, Zenon DEF QueueOK
<1> DEFINE T == Trimmed(refetch, reject)
<1>t. QueueOK(T) /\ Same(chunks, T) /\ T.returned = chunks.returned \ refetch
  BY <1>a, TrimmedOK, Zenon
<1>s. SnapshotsOK(RejectPeers(snapshots, reject))
  BY <1>a, RejectOK, Zenon
<1>h. [syncer EXCEPT !.pc = "next"] = [pc |-> "next", snapshot |-> syncer.snapshot, chunk |-> i, attached |-> a]
  BY <1>a, SyncerRecords, Zenon DEF i, a
<1> DEFINE content == chunks.files[i].content
(* The step goes on with the next chunk. *)
<1>n. ASSUME syncer' = [syncer EXCEPT !.pc = "next"], SnapshotsOK(snapshots'), QueueOK(chunks'), Same(chunks, chunks'),
             UNCHANGED <<requests, fetchers>>,
             app' = [j \in Indexes(syncer.snapshot) |-> app'[j]],
             \A j \in chunks'.returned : app'[j] # "none"
      PROVE  StateInv'
  <2>1. syncer' = [pc |-> "next", snapshot |-> syncer.snapshot, chunk |-> i, attached |-> a]
    BY <1>h, <1>n, Zenon
  <2> HIDE DEF i, a
  <2>2. syncer'.pc = "next" /\ syncer'.snapshot = syncer.snapshot
    BY <2>1, Zenon
  <2>3. ~Offering' /\ Restoring'
    BY <2>2, Zenon DEF Offering, Restoring
  <2>4. AppOK'
    BY <1>n, <2>2, <2>3, Zenon DEF AppOK
  <2> QED
    BY <1>c, <1>d, <1>n, <2>1, <2>3, <2>4, SyncGoesOn, Zenon
<1> HIDE DEF T
<1>1. CASE ApplyAccepted
  <2>1. /\ syncer' = [syncer EXCEPT !.pc = "next"]
        /\ app' = [app EXCEPT ![i] = content]
        /\ UNCHANGED <<snapshots, chunks, requests, fetchers>>
    BY <1>1 DEF ApplyAccepted
  <2> HIDE DEF i, a, content
  <2>2. app' = [j \in Indexes(syncer.snapshot) |-> IF j = i THEN content ELSE app[j]]
    BY <1>e, <2>1, Zenon
  <2>3. ASSUME NEW j \in chunks'.returned PROVE app'[j] # "none"
    <3>1. content # "none"
      BY <1>f, Zenon DEF content
    <3> QED
      BY <1>e, <1>g, <2>1, <2>2, <3>1, Zenon
  <2>4. SnapshotsOK(snapshots') /\ QueueOK(chunks') /\ Same(chunks, chunks')
    BY <1>a, <1>b, <2>1, Zenon
  <2>5. app' = [j \in Indexes(syncer.snapshot) |-> app'[j]]
    BY <2>2, Zenon
  <2> QED
    BY <1>n, <2>1, <2>3, <2>4, <2>5, Zenon
<1>2. ASSUME NEW result \in {"accept", "retry"}, ApplyAndTrim(result, refetch, reject)
      PROVE  StateInv'
  <2>1. /\ syncer' = [syncer EXCEPT !.pc = "next"]
        /\ snapshots' = RejectPeers(snapshots, reject)
        /\ UNCHANGED <<requests, fetchers>>
    BY <1>2, Zenon DEF ApplyAndTrim
  <2> DEFINE G == Forgotten(refetch)
  <2>2. G = [j \in Indexes(syncer.snapshot) |-> IF j \in refetch THEN "none" ELSE app[j]]
    <3>1. DOMAIN app = Indexes(syncer.snapshot)
      BY <1>e, Zenon
    <3> QED
      BY <3>1, Zenon DEF Forgotten
  <2>3. CASE result = "accept"
    <3> DEFINE v == IF i \in refetch THEN "none" ELSE content
    <3>1. app' = [G EXCEPT ![i] = v] /\ chunks' = T
      BY <1>2, <2>3, Zenon DEF ApplyAndTrim, T
    <3>2. i \notin refetch => v # "none"
      BY <1>f, Zenon
    <3> HIDE DEF G, v, i, a, content
    <3>3. app' = [j \in Indexes(syncer.snapshot) |-> IF j = i THEN v ELSE G[j]]
      BY <2>2, <3>1, Zenon
    <3>4. ASSUME NEW j \in chunks'.returned PROVE app'[j] # "none"
      <4>1. j \in chunks.returned /\ j \notin refetch /\ j \in Indexes(syncer.snapshot)
        BY <1>g, <1>t, <3>1, Zenon
      <4> QED
        BY <1>e, <2>2, <3>2, <3>3, <4>1, Zenon
    <3>5. app' = [j \in Indexes(syncer.snapshot) |-> app'[j]]
      BY <3>3, Zenon
    <3> QED
      BY <1>n, <1>s, <1>t, <2>1, <3>1, <3>4, <3>5, Zenon
  <2>4. CASE result # "accept"
    <3>1. app' = G /\ chunks' = [T EXCEPT !.returned = @ \ {i}]
      BY <1>2, <2>4, Zenon DEF ApplyAndTrim, Retry, T
    <3> DEFINE R == T.returned \ {i}
    <3>2. \A j \in R : j \in DOMAIN T.files /\ Has(T, j)
      BY <1>t, Zenon DEF QueueOK
    <3>3. chunks' = [T EXCEPT !.returned = R]
      BY <3>1, Zenon
    <3> HIDE DEF R, G, i, a, content
    <3>4. QueueOK(chunks') /\ Same(T, chunks') /\ chunks'.returned = R
      BY <1>t, <3>2, <3>3, ReturnedOK, Zenon
    <3>5. Same(chunks, chunks')
      BY <1>t, <3>4, Zenon DEF Same
    <3>6. ASSUME NEW j \in chunks'.returned PROVE app'[j] # "none"
      <4>1. j \in chunks.returned /\ j \notin refetch /\ j # i /\ j \in Indexes(syncer.snapshot)
        BY <1>g, <1>t, <3>4, Zenon DEF R
      <4> QED
        BY <1>e, <2>2, <3>1, <4>1, Zenon
    <3>7. app' = [j \in Indexes(syncer.snapshot) |-> app'[j]]
      BY <2>2, <3>1, Zenon
    <3> QED
      BY <1>n, <1>s, <2>1, <3>4, <3>5, <3>6, <3>7, Zenon
  <2> QED
    BY <2>3, <2>4, Zenon
<1>3. ASSUME NEW result \in {"retry snapshot", "reject snapshot", "abort"}, ApplyEnds(result, refetch, reject)
      PROVE  StateInv'
  <2>1. UNCHANGED requests
    BY <1>3, Zenon DEF ApplyEnds
  <2>2. CASE result = "reject snapshot"
    <3> DEFINE b == RejectPeers(snapshots, reject)
    <3>1. GiveUp(Reject(b, syncer.snapshot))
      BY <1>3, <2>2, Zenon DEF ApplyEnds
    <3> HIDE DEF b
    <3>2. SnapshotsOK(b)
      BY <1>s, Zenon DEF b
    <3>3. SnapshotsOK(Reject(b, syncer.snapshot))
      BY <1>e, <3>2, RejectOK, Zenon
    <3> QED
      BY <2>1, <3>1, <3>3, GiveUpOK, Zenon
  <2>3. CASE result # "reject snapshot"
    <3>1. PICK pc \in {"failed", "done", "retry"} : Return(pc)
      BY <1>3, <2>3, Zenon DEF ApplyEnds
    <3>2. chunks' = T /\ snapshots' = RejectPeers(snapshots, reject)
      BY <1>3, <2>3, Zenon DEF ApplyEnds, T
    <3>3. SnapshotsOK(snapshots') /\ QueueOK(chunks') /\ Same(chunks, chunks')
      BY <1>s, <1>t, <3>2, Zenon
    <3> QED
      BY <1>d, <2>1, <3>1, <3>3, ReturnOK, Zenon
  <2> QED
    BY <2>2, <2>3, Zenon
<1> QED
  BY <1>1, <1>2, <1>3, Zenon

(* Steps of peers and fetchers, which leave the syncer where it is. *)
LEMMA SyncStays ==
  ASSUME StateInv, UNCHANGED <<syncer, app>>, SnapshotsOK(snapshots'),
         QueueOK(chunks'), Same(chunks, chunks'), chunks'.returned = chunks.returned, RequestsOK',
         fetchers' = [f \in Fetchers |-> fetchers'[f]],
         \A f \in Fetchers : /\ fetchers'[f].pc # "off" => Restoring
                             /\ fetchers'[f].pc = "wait" => fetchers'[f].index \in DOMAIN chunks.files
  PROVE  StateInv'
<1>1. (Offering' <=> Offering) /\ (Restoring' <=> Restoring)
  BY DEF Offering, Restoring
<1>2. chunks'.snapshot = chunks.snapshot /\ DOMAIN chunks'.files = DOMAIN chunks.files
  BY DEF Same
<1>3. SyncerOK'
  <2>1. /\ syncer' = [pc |-> syncer'.pc, snapshot |-> syncer'.snapshot, chunk |-> syncer'.chunk, attached |-> syncer'.attached]
        /\ syncer'.pc \notin {"discover", "dropped", "failed"} => syncer'.snapshot \in Snapshots
        /\ syncer'.attached => Offering \/ Restoring
        /\ Offering \/ Restoring \/ syncer'.pc = "retry" =>
             chunks.snapshot = syncer'.snapshot /\ DOMAIN chunks.files = Indexes(syncer'.snapshot)
    BY DEF StateInv, SyncerOK
  <2> QED
    BY <1>1, <1>2, <2>1 DEF SyncerOK
<1>4. AppOK'
  <2>1. /\ Offering \/ syncer'.pc = "state" => chunks.returned = {}
        /\ Restoring => app' = [i \in Indexes(syncer'.snapshot) |-> app'[i]]
        /\ Restoring => \A i \in chunks.returned : app'[i] = "none" => syncer'.pc = "apply" /\ i = syncer'.chunk
        /\ syncer'.pc = "apply" => syncer'.chunk \in chunks.returned
        /\ syncer'.pc = "verify" => DOMAIN chunks.files \subseteq chunks.returned
    BY DEF StateInv, AppOK
  <2> QED
    BY <1>1, <1>2, <2>1 DEF AppOK
<1> QED
  BY <1>3, <1>4 DEF StateInv

LEMMA requestChunkOK ==
  ASSUME StateInv, NEW i \in DOMAIN chunks.files, requestChunk(chunks.snapshot, i)
  PROVE  RequestsOK'
<1>1. chunks.snapshot \in Snapshots /\ i \in Indexes(chunks.snapshot) /\ RequestsOK
  BY DEF StateInv, QueueOK
<1>2. CASE UNCHANGED requests
  BY <1>1, <1>2 DEF RequestsOK
<1>3. CASE ~UNCHANGED requests
  <2>1. PICK p : requests' = requests \cup {[peer |-> p, snapshot |-> chunks.snapshot, index |-> i]}
    BY <1>3 DEF requestChunk
  <2> DEFINE new == [peer |-> p, snapshot |-> chunks.snapshot, index |-> i]
  <2>2. new.snapshot \in Snapshots /\ new.index \in Indexes(new.snapshot)
    BY <1>1
  <2> HIDE DEF new
  <2>3. requests' = requests \cup {new}
    BY <2>1 DEF new
  <2> QED
    BY <1>1, <2>2, <2>3 DEF RequestsOK
<1> QED
  BY <1>2, <1>3

LEMMA FetcherSteps ==
  ASSUME StateInv,
         LateAllocate \/ LateEnds \/ \E f \in Fetchers : Allocate(f) \/ RetryRequest(f)
  PROVE  StateInv'
<1>a. /\ SnapshotsOK(snapshots) /\ QueueOK(chunks) /\ Same(chunks, chunks) /\ RequestsOK
      /\ fetchers = [f \in Fetchers |-> fetchers[f]]
      /\ \A f \in Fetchers : /\ fetchers[f].pc # "off" => Restoring
                             /\ fetchers[f].pc = "wait" => fetchers[f].index \in DOMAIN chunks.files
  BY DEF StateInv, SyncerOK, Same
<1>b. ASSUME Unallocated # {}, chunks' = [chunks EXCEPT !.allocated = @ \cup {Allocated}]
      PROVE  /\ Allocated \in DOMAIN chunks.files
             /\ QueueOK(chunks') /\ Same(chunks, chunks') /\ chunks'.returned = chunks.returned
  <2> DEFINE A == chunks.allocated \cup {Allocated}
  <2>1. chunks' = [chunks EXCEPT !.allocated = A]
    BY <1>b
  <2> HIDE DEF A
  <2> QED
    BY <1>a, <1>b, <2>1, FirstChunk, AllocatedOK
<1>1. CASE LateAllocate
  <2>1. /\ Unallocated # {} /\ chunks' = [chunks EXCEPT !.allocated = @ \cup {Allocated}]
        /\ requestChunk(chunks.snapshot, Allocated)
        /\ UNCHANGED <<snapshots, syncer, fetchers, app>>
    BY <1>1 DEF LateAllocate
  <2>2. /\ Allocated \in DOMAIN chunks.files
        /\ QueueOK(chunks') /\ Same(chunks, chunks') /\ chunks'.returned = chunks.returned
    BY <1>b, <2>1
  <2>3. RequestsOK'
    BY <2>1, <2>2, requestChunkOK
  <2> QED
    BY <1>a, <2>1, <2>2, <2>3, SyncStays
<1>2. CASE LateEnds
  <2>1. UNCHANGED <<snapshots, chunks, syncer, fetchers, requests, app>>
    BY <1>2 DEF LateEnds
  <2>2. RequestsOK'
    BY <1>a, <2>1 DEF RequestsOK
  <2> QED
    BY <1>a, <2>1, <2>2, SyncStays
<1>3. ASSUME NEW f \in Fetchers, RetryRequest(f) PROVE StateInv'
  <2>1. /\ fetchers[f].pc = "wait" /\ requestChunk(chunks.snapshot, fetchers[f].index)
        /\ UNCHANGED <<snapshots, chunks, syncer, fetchers, app>>
    BY <1>3 DEF RetryRequest
  <2>2. RequestsOK'
    BY <1>a, <2>1, requestChunkOK
  <2> QED
    BY <1>a, <2>1, <2>2, SyncStays
<1>4. ASSUME NEW f \in Fetchers, Allocate(f) PROVE StateInv'
  <2> DEFINE g == IF Has(chunks, Allocated) THEN Ready ELSE [pc |-> "wait", index |-> Allocated]
  <2>1. /\ fetchers[f].pc = "allocate"
        /\ Unallocated # {} /\ chunks' = [chunks EXCEPT !.allocated = @ \cup {Allocated}]
        /\ requestChunk(chunks.snapshot, Allocated)
        /\ fetchers' = [fetchers EXCEPT ![f] = g]
        /\ UNCHANGED <<snapshots, syncer, app>>
    BY <1>4 DEF Allocate
  <2>2. /\ Allocated \in DOMAIN chunks.files
        /\ QueueOK(chunks') /\ Same(chunks, chunks') /\ chunks'.returned = chunks.returned
    BY <1>b, <2>1
  <2>3. RequestsOK'
    BY <2>1, <2>2, requestChunkOK
  <2>4. g.pc = "wait" => g.index \in DOMAIN chunks.files
    BY <2>2, Zenon DEF Ready
  <2> HIDE DEF g
  <2>5. fetchers' = [h \in Fetchers |-> IF h = f THEN g ELSE fetchers[h]]
    BY <1>a, <2>1
  <2>6. fetchers' = [h \in Fetchers |-> fetchers'[h]]
    BY <2>5
  <2>7. ASSUME NEW h \in Fetchers
        PROVE  /\ fetchers'[h].pc # "off" => Restoring
               /\ fetchers'[h].pc = "wait" => fetchers'[h].index \in DOMAIN chunks.files
    <3>1. Restoring
      BY <1>a, <2>1
    <3>2. fetchers'[h] = IF h = f THEN g ELSE fetchers[h]
      BY <2>5
    <3> QED
      BY <1>a, <2>4, <3>1, <3>2
  <2> QED
    BY <1>a, <2>1, <2>2, <2>3, <2>6, <2>7, SyncStays
<1> QED
  BY <1>1, <1>2, <1>3, <1>4

LEMMA StatePeerSteps ==
  ASSUME StateInv,
         \/ \E p \in StatePeers, s \in Snapshots : AddSnapshot(p, s)
         \/ \E p \in StatePeers : RemovePeer(p)
         \/ \E r \in requests, content \in {"good", "bad", "none"} : ReceiveChunk(r, content)
  PROVE  StateInv'
<1>a. /\ SnapshotsOK(snapshots) /\ QueueOK(chunks) /\ Same(chunks, chunks) /\ RequestsOK
      /\ fetchers = [f \in Fetchers |-> fetchers[f]]
      /\ \A f \in Fetchers : /\ fetchers[f].pc # "off" => Restoring
                             /\ fetchers[f].pc = "wait" => fetchers[f].index \in DOMAIN chunks.files
  BY DEF StateInv, SyncerOK, Same
<1>1. ASSUME NEW p \in StatePeers, NEW s \in Snapshots, AddSnapshot(p, s) PROVE StateInv'
  <2>1. snapshots' = Add(snapshots, p, s) /\ UNCHANGED <<chunks, syncer, fetchers, requests, app>>
    BY <1>1, Zenon DEF AddSnapshot
  <2>2. SnapshotsOK(snapshots')
    BY <1>a, <2>1, AddOK
  <2>3. RequestsOK'
    BY <1>a, <2>1 DEF RequestsOK
  <2> QED
    BY <1>a, <2>1, <2>2, <2>3, SyncStays
<1>2. ASSUME NEW p \in StatePeers, RemovePeer(p) PROVE StateInv'
  <2>1. /\ snapshots' = removePeers(snapshots, {p}) /\ requests' \subseteq requests
        /\ UNCHANGED <<chunks, syncer, fetchers, app>>
    BY <1>2 DEF RemovePeer
  <2>2. SnapshotsOK(snapshots')
    <3>1. {p} \in SUBSET StatePeers
      OBVIOUS
    <3> QED
      BY <1>a, <2>1, <3>1, RejectOK
  <2>3. RequestsOK'
    BY <1>a, <2>1 DEF RequestsOK
  <2> QED
    BY <1>a, <2>1, <2>2, <2>3, SyncStays
<1>3. ASSUME NEW r \in requests, NEW content \in {"good", "bad", "none"}, ReceiveChunk(r, content) PROVE StateInv'
  <2>1. UNCHANGED <<snapshots, syncer, app>> /\ requests' \subseteq requests
    BY <1>3 DEF ReceiveChunk
  <2>2. RequestsOK' /\ SnapshotsOK(snapshots')
    BY <1>a, <2>1 DEF RequestsOK
  <2>3. CASE UNCHANGED <<chunks, fetchers>>
    BY <1>a, <2>1, <2>2, <2>3, SyncStays
  <2>4. CASE ~UNCHANGED <<chunks, fetchers>>
    <3> DEFINE chunk == [sender |-> r.peer, content |-> content]
    <3>1. /\ syncer.attached /\ Fits(r, chunks.snapshot) /\ content # "none"
          /\ chunks' = AddChunk(chunks, r.index, chunk)
          /\ fetchers' = [f \in Fetchers |->
               IF fetchers[f].pc = "wait" /\ fetchers[f].index = r.index THEN Ready ELSE fetchers[f]]
      BY <1>3, <2>4 DEF ReceiveChunk
    <3>2. chunk.content # "none"
      BY <3>1, Zenon
    <3> HIDE DEF chunk
    <3>3. r.index \in DOMAIN chunks.files
      <4>0. SyncerOK /\ (Offering \/ Restoring)
        BY <3>1, Zenon DEF StateInv, SyncerOK
      <4>1. chunks.snapshot = syncer.snapshot /\ DOMAIN chunks.files = 0..(syncer.snapshot.chunks - 1)
        BY <4>0, Zenon DEF SyncerOK, Indexes
      <4>2. syncer.snapshot \in Snapshots
        <5>1. syncer.pc \notin {"discover", "dropped", "failed"}
          BY <4>0, Zenon DEF Offering, Restoring
        <5> QED
          BY <4>0, <5>1, Zenon DEF SyncerOK
      <4>3. syncer.snapshot.chunks \in Nat
        BY <4>2, SnapshotsAssumption
      <4>4. r.index \in Nat /\ r.index < syncer.snapshot.chunks
        BY <1>a, <3>1, <4>1, SnapshotsAssumption DEF RequestsOK, Indexes, Fits
      <4> QED
        BY <4>1, <4>3, <4>4
    <3>4. QueueOK(chunks') /\ Same(chunks, chunks') /\ chunks'.returned = chunks.returned
      BY <1>a, <3>1, <3>2, <3>3, AddChunkOK
    <3>5. fetchers' = [f \in Fetchers |-> fetchers'[f]]
      BY <3>1
    <3>6. ASSUME NEW f \in Fetchers
          PROVE  /\ fetchers'[f].pc # "off" => Restoring
                 /\ fetchers'[f].pc = "wait" => fetchers'[f].index \in DOMAIN chunks.files
      BY <1>a, <3>1 DEF Ready
    <3> QED
      BY <2>1, <2>2, <3>4, <3>5, <3>6, SyncStays
  <2> QED
    BY <2>3, <2>4
<1> QED
  BY <1>1, <1>2, <1>3

(* startStateSync starts block sync at the height of the snapshot. *)
LEMMA startStateSyncSteps ==
  ASSUME PoolInv, StateInv, startStateSync
  PROVE  PoolInv' /\ StateInv'
<1>1. syncer.pc = "done" /\ syncer.snapshot.height \in Nat
  BY SnapshotsAssumption DEF startStateSync, StateInv, SyncerOK
<1>2. SwitchToBlockSync(syncer.snapshot.height) \/ UNCHANGED poolVars
  BY Zenon DEF startStateSync
<1>3. PoolInv'
  <2>1. CASE UNCHANGED poolVars
    BY <2>1, Zenon DEF poolVars, PoolInv, PoolOK, PoolFields, Consecutive, SyncOK, Heights
  <2> QED
    BY <1>1, <1>2, <2>1, PoolStarts
<1>4. SnapshotsOK(snapshots')
  <2> DEFINE none == [s \in Snapshots |-> {}]
             b == [snapshots EXCEPT !.peers = none]
             c == [b EXCEPT !.badFormats = {}]
             d == [c EXCEPT !.badPeers = {}]
             e == [d EXCEPT !.badSnapshots = {}]
  <2>0. none \in [Snapshots -> SUBSET StatePeers] /\ \A s \in Snapshots : none[s] = {}
    OBVIOUS
  <2>1. snapshots' = e
    BY DEF startStateSync
  <2>2. snapshots \in SnapshotPools
    BY DEF StateInv, SnapshotsOK
  <2> HIDE DEF none
  <2>3. b \in SnapshotPools /\ b.peers = none
    BY <2>0, <2>2 DEF SnapshotPools
  <2> HIDE DEF b
  <2>4. c \in SnapshotPools /\ c.peers = none
    BY <2>3 DEF SnapshotPools
  <2> HIDE DEF c
  <2>5. d \in SnapshotPools /\ d.peers = none
    BY <2>4 DEF SnapshotPools
  <2> HIDE DEF d
  <2>6. e \in SnapshotPools /\ e.peers = none
    BY <2>5 DEF SnapshotPools
  <2> QED
    BY <2>0, <2>1, <2>6 DEF SnapshotsOK
<1>5. /\ chunks' = ClosedQueue /\ requests' = {} /\ UNCHANGED fetchers
  BY DEF startStateSync
<1>6. PICK pc \in {"dropped", "failed"} :
        syncer' = [pc |-> pc, snapshot |-> NoOne, chunk |-> 0, attached |-> FALSE]
  BY Zenon DEF startStateSync
<1>7. syncer'.pc \in {"dropped", "failed"} /\ ~syncer'.attached
      /\ syncer' = [pc |-> syncer'.pc, snapshot |-> syncer'.snapshot, chunk |-> syncer'.chunk, attached |-> syncer'.attached]
  BY <1>6
<1>8. ~Offering' /\ ~Restoring' /\ ~Restoring
  BY <1>1, <1>7, Zenon DEF Offering, Restoring
<1>10. SyncerOK'
  <2>1. \A f \in Fetchers : fetchers[f].pc = "off"
    BY <1>8 DEF StateInv, SyncerOK
  <2> QED
    BY <1>5, <1>7, <1>8, <2>1 DEF SyncerOK
<1>11. AppOK'
  BY <1>7, <1>8 DEF AppOK
<1>9. StateInv'
  BY <1>4, <1>5, <1>10, <1>11, NewQueueOK DEF StateInv, RequestsOK
<1> QED
  BY <1>3, <1>9
-----------------------------------------------------------------------------
(* Initially nothing is known of snapshots, and there are no requesters. *)
LEMMA SyncInit == Init => PoolInv /\ StateInv
<1> SUFFICES ASSUME Init PROVE PoolInv /\ StateInv
  OBVIOUS
<1>1. StateInv
  <2>1. /\ syncer = [pc |-> "discover", snapshot |-> NoOne, chunk |-> 0, attached |-> FALSE]
        /\ fetchers = [f \in Fetchers |-> Idle] /\ chunks = ClosedQueue /\ requests = {}
    BY DEF Init, StateInit
  <2>2. SnapshotsOK(snapshots)
    BY Zenon DEF Init, StateInit, SnapshotsOK, SnapshotPools
  <2>3. syncer.pc = "discover" /\ ~syncer.attached
    BY <2>1
  <2>4. ~Offering /\ ~Restoring
    BY <2>3 DEF Offering, Restoring
  <2>5. SyncerOK
    BY <2>1, <2>3, <2>4, Zenon DEF SyncerOK, Idle
  <2>6. AppOK
    BY <2>3, <2>4 DEF AppOK
  <2>7. RequestsOK /\ QueueOK(chunks) /\ fetchers = [f \in Fetchers |-> fetchers[f]]
    BY <2>1, NewQueueOK, Zenon DEF RequestsOK
  <2> QED
    BY <2>2, <2>5, <2>6, <2>7 DEF StateInv
<1>2. PoolInv
  <2>1. /\ pool = [height |-> 1, startHeight |-> 1, requesters |-> <<>>, peers |-> {}, maxPeerHeight |-> 0]
        /\ sync = [pc |-> "off", at |-> 0] /\ plan = 0 /\ applied = 0
    BY DEF Init, PoolInit
  <2>2. /\ pool.height = 1 /\ pool.startHeight = 1 /\ pool.requesters = <<>> /\ pool.peers = {} /\ pool.maxPeerHeight = 0
        /\ sync.pc = "off" /\ sync = [pc |-> sync.pc, at |-> sync.at]
    BY <2>1
  <2>3. Heights = {} /\ pool.requesters = [h \in DOMAIN pool.requesters |-> pool.requesters[h]]
    BY <2>2 DEF Heights
  <2>4. pool = [height |-> pool.height, startHeight |-> pool.startHeight, requesters |-> pool.requesters, peers |-> pool.peers,
                maxPeerHeight |-> pool.maxPeerHeight]
    BY <2>1, <2>2
  <2>5. IsFiniteSet({}) /\ Cardinality({}) = 0
    BY FS_EmptySet
  <2>6. PoolFields(pool)
    BY <2>2, <2>3, <2>4 DEF PoolFields
  <2>7. PoolOK(pool)
    BY <2>2, <2>3, <2>5, <2>6 DEF PoolOK, Consecutive, Heights
  <2> QED
    BY <2>1, <2>2, <2>3, <2>7 DEF PoolInv, SyncOK
<1> QED
  BY <1>1, <1>2

(* Every step keeps both invariants. *)
LEMMA StateInvStep ==
  ASSUME StateInv, StateNext
  PROVE  StateInv'
<1>1. CASE SyncAny
  <2>1. CASE Discover \/ LightClientFails \/ AppHash \/ OfferAccepted \/ OfferRefused \/ StateAndCommit
    BY <2>1, OfferSteps
  <2>2. CASE NextChunk \/ NextDone \/ NextTimeout \/ RetrySnapshot \/ verifyApp
    BY <2>2, NextSteps
  <2>3. CASE ApplyAccepted
    <3>1. {} \in SUBSET DOMAIN app /\ {} \in SUBSET StatePeers
      OBVIOUS
    <3> QED
      BY <2>3, <3>1, ApplySteps
  <2>4. CASE \E refetch \in SUBSET DOMAIN app, reject \in SUBSET StatePeers :
               \/ \E result \in {"accept", "retry"} : ApplyAndTrim(result, refetch, reject)
               \/ \E result \in {"retry snapshot", "reject snapshot", "abort"} : ApplyEnds(result, refetch, reject)
    BY <2>4, ApplySteps, Zenon
  <2> QED
    BY <1>1, <2>1, <2>2, <2>3, <2>4, Zenon DEF SyncAny
<1>2. CASE LateAllocate \/ LateEnds \/ \E f \in Fetchers : Allocate(f) \/ RetryRequest(f)
  BY <1>2, FetcherSteps
<1>3. CASE \/ \E p \in StatePeers, s \in Snapshots : AddSnapshot(p, s)
           \/ \E p \in StatePeers : RemovePeer(p)
           \/ \E r \in requests, content \in {"good", "bad", "none"} : ReceiveChunk(r, content)
  BY <1>3, StatePeerSteps
<1> QED
  BY <1>1, <1>2, <1>3 DEF StateNext

LEMMA PoolInvStep ==
  ASSUME PoolInv, PoolNext
  PROVE  PoolInv'
<1>1. sync.pc # "off"
  BY DEF PoolNext, Syncing
<1>2. CASE PlanRequester \/ makeNextRequester
  BY <1>1, <1>2, MakeRequesterSteps
<1>3. CASE \E h \in Heights : requestRoutine(h)
  BY <1>3, RequesterSteps
<1>4. CASE \E p \in Peers : Answer(p) \/ ReceiveStatus(p) \/ StopPeer(p)
  BY <1>4, PeerSteps
<1>5. CASE poolRoutine
  BY <1>5, PoolRoutineSteps
<1> QED
  BY <1>2, <1>3, <1>4, <1>5 DEF PoolNext

LEMMA SyncStep == PoolInv /\ StateInv /\ [Next]_vars => PoolInv' /\ StateInv'
<1> SUFFICES ASSUME PoolInv, StateInv, [Next]_vars PROVE PoolInv' /\ StateInv'
  OBVIOUS
<1>1. ASSUME UNCHANGED poolVars PROVE PoolInv'
  BY <1>1, Zenon DEF poolVars, PoolInv, PoolOK, PoolFields, Consecutive, SyncOK, Heights
<1>2. ASSUME UNCHANGED stateVars PROVE StateInv'
  BY <1>2, Zenon DEF stateVars, StateInv, RequestsOK, SyncerOK, AppOK, Offering, Restoring
<1>3. CASE StateNext /\ UNCHANGED poolVars
  BY <1>1, <1>3, StateInvStep
<1>4. CASE startStateSync
  BY <1>4, startStateSyncSteps
<1>5. CASE PoolNext /\ UNCHANGED stateVars
  BY <1>2, <1>5, PoolInvStep
<1>6. CASE UNCHANGED vars
  BY <1>1, <1>2, <1>6 DEF vars
<1> QED
  BY <1>3, <1>4, <1>5, <1>6 DEF Next

LEMMA SyncInvariant == Spec => [](PoolInv /\ StateInv)
<1>1. Init => PoolInv /\ StateInv
  BY SyncInit
<1>2. (PoolInv /\ StateInv) /\ [Next]_vars => (PoolInv /\ StateInv)'
  BY SyncStep
<1> QED
  BY <1>1, <1>2, PTL DEF Spec

(* The block pool never reaches one of its panics: makeNextRequester,        *)
(* PopRequest and poolRoutine agree on consecutive heights, and a block is   *)
(* kept only while its sender is one of the peers asked, for any number of   *)
(* peers, requesters and faults.                                             *)
THEOREM PoolStaysSound == Spec => []PoolIsSound
<1>1. PoolInv => PoolIsSound
  BY PoolInvSound
<1> QED
  BY <1>1, SyncInvariant, PTL

(* verifyApp runs only after the application has applied every chunk since   *)
(* the offer, however often it asks to retry, to fetch again or to reject    *)
(* senders, and whatever late fetchers and late answers do to the queue.     *)
THEOREM SnapshotRestored == Spec => []RestoresCompletely
<1>1. StateInv => RestoresCompletely
  BY StateInvRestores
<1> QED
  BY <1>1, SyncInvariant, PTL

(* A snapshot, format or peer that was rejected is not used again by this    *)
(* snapshotPool, whatever peers advertise.                                   *)
THEOREM RejectionsLast == Spec => []RejectedStayOut
<1>1. StateInv => RejectedStayOut
  BY StateInvRejects
<1> QED
  BY <1>1, SyncInvariant, PTL
=============================================================================
