---------------------------- MODULE EvidencePool ----------------------------
(***************************************************************************)
(* The evidence pool of one node (evidence/pool.go) between the three that *)
(* use it: the goroutines of the peers, which add evidence they receive    *)
(* without holding a lock; consensus, which reports conflicting votes,     *)
(* checks the evidence of blocks and updates the pool after each block;    *)
(* and restarts, which keep the database and lose the rest.                *)
(*                                                                         *)
(* A block takes a unit of time, so that age in blocks and age in time     *)
(* are the same number (and the second that is added to the pruning time   *)
(* is the block that is added to the pruning height).  The list that the   *)
(* reactor broadcasts from is left out.  Only consensus reads the counter, *)
(* so its own changes to the database and to the counter are one step;     *)
(* those of the peers' goroutines are two.                                 *)
(***************************************************************************)
EXTENDS Integers, FiniteSets, FiniteSetsExt

CONSTANTS Evidence,     \* duplicate votes and light client attacks
          HeightOf,     \* the height of each
          Conflicts,    \* the duplicate votes that this node can see itself
          LightAttacks, \* those that are light client attacks
          MaxAge,       \* MaxAgeNumBlocks and MaxAgeDuration
          MaxHeight,    \* bound: the chain
          Adders,       \* goroutines that run AddEvidence
          Nothing,      \* no evidence
          Prunable,     \* bound: heights whose validators may be pruned
          MaxSize,      \* bound: proposals are checked while the counter is below
          MaxCrashes    \* bound

ASSUME EvidenceHasHeight ==
    /\ HeightOf \in [Evidence -> Nat \ {0}]
    /\ Conflicts \subseteq Evidence
    /\ Nothing \notin Evidence
    /\ IsFiniteSet(Evidence)

ASSUME BoundsAreNatural ==
    MaxAge \in Nat /\ MaxHeight \in Nat \ {0} /\ Prunable \subseteq Nat

VARIABLES pending, committed, \* the two key ranges of the database
          pool,               \* the Pool in memory
          adding,             \* what each adder has verified and not yet counted
          uncounted,          \* the adders that have stored it
          job,                \* where consensus is with the block
          stored, saved,      \* heights of the block store and of the state
          chain,              \* the evidence in the blocks up to saved
          block,              \* the evidence in the block after them, if stored
          lost,               \* heights whose validators do not load
          replayed,           \* evidence of blocks the handshake applied
          reported,           \* conflicts reported since the last start
          crashes

vars == <<pending, committed, pool, adding, uncounted, job, stored, saved,
          chain, block, lost, replayed, reported, crashes>>

\* isExpired, IsEvidenceExpired
isExpired(e, h) == h - HeightOf[e] > MaxAge

\* verify: a header and validators of its height are needed, and it must not
\* be too old
verify(e) ==
    /\ HeightOf[e] <= stored
    /\ ~isExpired(e, pool.height)
    /\ HeightOf[e] \notin lost

\* When removeExpiredPendingEvidence prunes again, with rest left over
PruneAt(rest, h) ==
    IF rest = {} THEN h ELSE Min({HeightOf[e] : e \in rest}) + MaxAge + 1

NewPool_NoCount(h) ==
    LET rest == {e \in pending : ~isExpired(e, h)}
    IN  /\ pending' = rest
        /\ pool' = [height |-> h, size |-> 0, buffer |-> {},
                    pruneAt |-> PruneAt(rest, h)]

\* NewPool: removes what expired, counts the rest
NewPool(h) ==
    LET rest == {e \in pending : ~isExpired(e, h)}
    IN  /\ pending' = rest
        /\ pool' = [height |-> h, size |-> Cardinality(rest), buffer |-> {},
                    pruneAt |-> PruneAt(rest, h)]

Consensus == [pc |-> "idle", left |-> {}, marking |-> Nothing]

Init ==
    /\ pending = {} /\ committed = {}
    /\ pool = [height |-> 0, size |-> 0, buffer |-> {}, pruneAt |-> 0]
    /\ adding = [a \in Adders |-> Nothing] /\ uncounted = {}
    /\ job = Consensus
    /\ stored = 0 /\ saved = 0
    /\ chain = {} /\ block = {}
    /\ lost = {} /\ replayed = {} /\ reported = {} /\ crashes = 0

-----------------------------------------------------------------------------
(* The goroutine of a peer *)

\* AddEvidence up to the point where it has verified e
AddEvidence(a, e) ==
    /\ adding[a] = Nothing
    /\ e \notin pending /\ e \notin committed
    /\ verify(e)
    /\ adding' = [adding EXCEPT ![a] = e]
    /\ UNCHANGED <<pending, committed, pool, uncounted, job, stored, saved,
                   chain, block, lost, replayed, reported, crashes>>

\* addPendingEvidence: the database ...
StoreEvidence(a) ==
    /\ adding[a] # Nothing /\ a \notin uncounted
    /\ pending' = pending \cup {adding[a]}
    /\ uncounted' = uncounted \cup {a}
    /\ UNCHANGED <<committed, pool, adding, job, stored, saved, chain, block,
                   lost, replayed, reported, crashes>>

\* ... and then the counter.  It holds the sum of what was added; the uint32
\* of the code is this modulo 2^32, so that Size() > 0 if the sum is not 0.
CountEvidence(a) ==
    /\ a \in uncounted
    /\ pool' = [pool EXCEPT !.size = @ + 1]
    /\ adding' = [adding EXCEPT ![a] = Nothing]
    /\ uncounted' = uncounted \ {a}
    /\ UNCHANGED <<pending, committed, job, stored, saved, chain, block, lost,
                   replayed, reported, crashes>>

-----------------------------------------------------------------------------
(* Consensus *)

\* tryAddVote: the votes are of the height it is at, or of the last commit
ReportConflictingVotes(e) ==
    /\ job.pc = "idle"
    /\ HeightOf[e] \in {saved, saved + 1}
    /\ pool' = [pool EXCEPT !.buffer = @ \cup {e}]
    /\ reported' = reported \cup {e}
    /\ UNCHANGED <<pending, committed, adding, uncounted, job, stored, saved,
                   chain, block, lost, replayed, crashes>>

\* The evidence of a block that CheckEvidence verifies and adds: a light
\* client attack also when it is pending already, a duplicate vote not even
\* when it has expired or is in a block
ToVerify(E) == {e \in E : e \in LightAttacks \/ e \notin pending}

\* addPendingEvidence, for evidence that consensus adds
AddPending(E) ==
    /\ pending' = pending \cup E
    /\ pool' = [pool EXCEPT !.size = @ + Cardinality(E)]

\* CheckEvidence succeeds for all of E
Accepts(E) == \A e \in ToVerify(E) : e \notin committed /\ verify(e)

CheckEvidence_Commits(E) ==
    /\ job.pc = "idle" /\ saved < MaxHeight /\ pool.size < MaxSize
    /\ Accepts(E)
    /\ AddPending(ToVerify(E))
    /\ committed' = committed \cup E
    /\ UNCHANGED <<adding, uncounted, job, stored, saved, chain, block, lost,
                   replayed, reported, crashes>>

\* A proposal is validated.  (One that fails has had its first part added,
\* as if that were all of it.)
CheckEvidence(E) ==
    /\ job.pc = "idle" /\ saved < MaxHeight /\ pool.size < MaxSize
    /\ Accepts(E)
    /\ AddPending(ToVerify(E))
    /\ UNCHANGED <<committed, adding, uncounted, job, stored, saved, chain,
                   block, lost, replayed, reported, crashes>>

\* What other validators may have let into the next block: their pools may
\* hold evidence that is committed or has expired
Decidable == {e \in Evidence : HeightOf[e] <= saved}

\* finalizeCommit: the decided block is checked, with a panic if that fails,
\* and stored
SaveBlock(E) ==
    /\ job.pc = "idle" /\ saved < MaxHeight
    /\ IF Accepts(E)
       THEN /\ AddPending(ToVerify(E))
            /\ stored' = saved + 1 /\ block' = E
            /\ job' = [job EXCEPT !.pc = "apply"]
       ELSE /\ job' = [job EXCEPT !.pc = "panic", !.left = E]
            /\ UNCHANGED <<pending, pool, stored, block>>
    /\ UNCHANGED <<committed, adding, uncounted, saved, chain, lost, replayed,
                   reported, crashes>>

FromBuffer_OlderOnly ==
    {e \in pool.buffer : HeightOf[e] < stored /\ HeightOf[e] \notin lost}
      \ (pending \cup committed)

\* The conflicts that processConsensusBuffer makes pending.  For the last
\* height it has the validators, for a lower one it loads them.
FromBuffer ==
    {e \in pool.buffer : \/ HeightOf[e] = stored
                         \/ HeightOf[e] < stored /\ HeightOf[e] \notin lost}
      \ (pending \cup committed)

\* Update: processConsensusBuffer, updateState
Update ==
    /\ job.pc = "apply"
    /\ pending' = pending \cup FromBuffer
    /\ pool' = [pool EXCEPT !.size = @ + Cardinality(FromBuffer),
                            !.buffer = {}, !.height = stored]
    /\ job' = [job EXCEPT !.pc = "mark", !.left = block]
    /\ UNCHANGED <<committed, adding, uncounted, stored, saved, chain, block,
                   lost, replayed, reported, crashes>>

\* markEvidenceAsCommitted, for one item: it leaves the pending ones ...
removePendingEvidence(e) ==
    /\ job.pc = "mark" /\ e \in job.left
    /\ pending' = pending \ {e}
    /\ pool' = [pool EXCEPT !.size = IF e \in pending THEN @ - 1 ELSE @]
    /\ job' = [pc |-> "set", left |-> job.left \ {e}, marking |-> e]
    /\ UNCHANGED <<committed, adding, uncounted, stored, saved, chain, block,
                   lost, replayed, reported, crashes>>

\* ... and is recorded as committed
SetCommitted ==
    /\ job.pc = "set"
    /\ committed' = committed \cup {job.marking}
    /\ job' = [job EXCEPT !.pc = "mark", !.marking = Nothing]
    /\ UNCHANGED <<pending, pool, adding, uncounted, stored, saved, chain,
                   block, lost, replayed, reported, crashes>>

removeExpiredPendingEvidence_AtLimit ==
    LET rest == {e \in pending : pool.height - HeightOf[e] < MaxAge}
    IN  /\ job.pc = "mark" /\ job.left = {}
        /\ IF pool.size # 0 /\ pool.height > pool.pruneAt
           THEN /\ pending' = rest
                /\ pool' = [pool EXCEPT
                              !.size = @ - Cardinality(pending \ rest),
                              !.pruneAt = PruneAt(rest, pool.height)]
           ELSE UNCHANGED <<pending, pool>>
        /\ job' = [job EXCEPT !.pc = "save"]
        /\ UNCHANGED <<committed, adding, uncounted, stored, saved, chain,
                       block, lost, replayed, reported, crashes>>

\* removeExpiredPendingEvidence, when there is something and it is time
removeExpiredPendingEvidence ==
    LET rest == {e \in pending : ~isExpired(e, pool.height)}
    IN  /\ job.pc = "mark" /\ job.left = {}
        /\ IF pool.size # 0 /\ pool.height > pool.pruneAt
           THEN /\ pending' = rest
                /\ pool' = [pool EXCEPT
                              !.size = @ - Cardinality(pending \ rest),
                              !.pruneAt = PruneAt(rest, pool.height)]
           ELSE UNCHANGED <<pending, pool>>
        /\ job' = [job EXCEPT !.pc = "save"]
        /\ UNCHANGED <<committed, adding, uncounted, stored, saved, chain,
                       block, lost, replayed, reported, crashes>>

\* applyBlock: the state is saved after the pool is updated
SaveState ==
    /\ job.pc = "save"
    /\ saved' = stored
    /\ chain' = chain \cup block /\ block' = {}
    /\ job' = Consensus
    /\ UNCHANGED <<pending, committed, pool, adding, uncounted, stored, lost,
                   replayed, reported, crashes>>

\* pruneBlocks, when the application allows it: the validators of a height
\* that evidence still needs may be among what goes (see Storage)
PruneStates(h) ==
    /\ job.pc = "idle" /\ h < saved
    /\ lost' = lost \cup {h}
    /\ UNCHANGED <<pending, committed, pool, adding, uncounted, job, stored,
                   saved, chain, block, replayed, reported, crashes>>

-----------------------------------------------------------------------------
(* A crash and the restart.  The handshake applies a block that is stored  *)
(* and not in the state, with an empty evidence pool: Update is not called *)
(* for it.  The pool is made after the handshake.                          *)

Restart ==
    /\ job.pc # "panic"
    /\ crashes < MaxCrashes /\ crashes' = crashes + 1
    /\ saved' = stored
    /\ NewPool(stored)
    /\ chain' = chain \cup block /\ block' = {}
    /\ replayed' = replayed \cup block
    /\ adding' = [a \in Adders |-> Nothing]
    /\ uncounted' = {}
    /\ job' = Consensus
    /\ reported' = {}
    /\ UNCHANGED <<committed, stored, lost>>

Next ==
    \/ \E a \in Adders, e \in Evidence : AddEvidence(a, e)
    \/ \E a \in Adders : StoreEvidence(a) \/ CountEvidence(a)
    \/ \E e \in Conflicts : ReportConflictingVotes(e)
    \/ \E E \in SUBSET Evidence : CheckEvidence(E)
    \/ \E E \in SUBSET Decidable : SaveBlock(E)
    \/ Update
    \/ \E e \in job.left : removePendingEvidence(e)
    \/ SetCommitted
    \/ removeExpiredPendingEvidence
    \/ SaveState
    \/ \E h \in Prunable : PruneStates(h)
    \/ Restart

Spec == Init /\ [][Next]_vars

-----------------------------------------------------------------------------
(* Properties *)

\* Pending evidence stays until it is in a block or has expired, whatever the
\* adders, the pruning and the restarts do (markEvidenceAsCommitted,
\* removeExpiredPendingEvidence, NewPool).
PendingIsKept ==
    [][\A e \in pending \ pending' :
          e \in chain \cup block \/ isExpired(e, pool'.height)]_vars

\* Evidence that is in no block yet, has not expired and can be verified
Fresh(e) ==
    /\ e \notin chain
    /\ ~isExpired(e, saved)
    /\ HeightOf[e] \notin lost

\* What is marked as committed is in a block; between blocks the mark is there
\* for every block that did not have to be replayed; and so a decided block,
\* on which consensus panics if it is refused, is refused only for evidence
\* that is in an earlier block, has expired or cannot be verified any more
\* (markEvidenceAsCommitted, CheckEvidence, finalizeCommit).
CommittedIsMarked ==
    /\ committed \subseteq chain \cup block
    /\ job.pc = "idle" => chain \ replayed \subseteq committed
    /\ job.pc = "panic" => \E e \in job.left : ~Fresh(e)

\* Conflicting votes that consensus reported, and that no crash has lost, are
\* pending, committed or expired once their height is over
\* (ReportConflictingVotes, processConsensusBuffer).
ConflictsAreKept ==
    job.pc = "idle" =>
      \A e \in reported \ pool.buffer :
         e \in pending \cup committed \/ isExpired(e, pool.height)

\* PendingEvidence gives a proposer nothing when the counter is zero.  The
\* counter falls below the number of pending items only by those that adders
\* have stored and not yet counted, although several goroutines count, one
\* item may be counted twice, and one that is not yet counted may be removed
\* (addPendingEvidence, removePendingEvidence).
PendingIsProposed == pool.size + Cardinality(uncounted) >= Cardinality(pending)
=============================================================================
