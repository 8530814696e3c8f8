# TLA+ models of CometBFT

Models of this repository (a fork of CometBFT v0.38): voting, signing,
committing a block, recovering from a crash, the stores, the mempool, evidence,
block sync, state sync and the light client. TLC checks them on small instances,
and TLAPS proves the main safety properties for every value of the constants.
`PROJECT.json` maps every definition to the source lines it models and lists the
runs, the mutants, the hazards and the theorems.

## The system and its parts

| part | source | module | status |
|---|---|---|---|
| file signer | `privval/file.go` | `FilePV` | partly: no operator `Reset` |
| voting power, vote sets | `types/vote_set.go` | `VotingPower`, `VoteSet`, `VoteSetGossip` | modelled |
| votes of a height | `consensus/types/height_vote_set.go` | `HeightVoteSet` | modelled |
| state machine, ticker | `consensus/state.go`, `ticker.go` | `ConsensusState` | partly: no vote extensions |
| the voting rules of all validators | the same code | `Tendermint`, `Agreement` | abstract specifications |
| commit, WAL, handshake, replay | `consensus/{state,wal,replay}.go`, `state/execution.go` | `CommitRecovery` | partly: no WAL rotation or repair |
| block store, state store, pruning, rollback | `store/`, `state/` | `BlockStore`, `StateStore`, `Storage` | state store partly |
| mempool, its ABCI client, its reactor | `mempool/`, `abci/client/`, `libs/clist/` | `Mempool`, `MempoolGossip` | partly: no unsafe `Flush`, no byte or gas limits |
| block sync | `blocksync/` | `BlockPool`, `CommitRecovery.BlockSync` | partly: no rates |
| state sync and its hand-over | `statesync/`, `node/setup.go` | `StateSync`, `Sync`, `Storage.FromSnapshot` | partly |
| evidence pool | `evidence/` | `EvidencePool` | partly: no broadcast list |
| light client, its commit verification | `light/`, `types/validation.go` | `LightClient` | partly |
| consensus reactor | `consensus/reactor.go` | `ConsensusState.ReceiveMaj23` | partly |
| p2p, remote signer, event bus, indexers, RPC, command line, cryptography, encodings | | | not modelled, see below |

A message reaches `receiveRoutine` from a peer, from the internal queue or as a
timeout. Votes go into the vote sets of the height, whose majorities move the
state machine from step to step. The signer signs the node's own votes. A
decided block is stored, the end of its height is written to the WAL, the
application executes it, mempool and evidence pool are updated, and the new
state is saved. A restart compares the application, the state and the block
store, and replays the WAL. A node that is behind restores a snapshot, then
fetches blocks, then joins consensus. A light client follows the chain by its
headers alone.

## Modules

**FilePV.** State: `lss` (memory), `file` (disk), `pc`, the signatures that
were `released`. `SignNew` and `SignAgain` are the two outcomes of `CheckHRS`
in `signVote` and `signProposal`; `Save`, `Reply`, `Crash` and `LoadFilePV` are
separate steps, so that the process may die between them.

**VotingPower, VoteSet, VoteSetGossip.** `VoteSet` has `addVote`,
`addVerifiedVote` (`setCanonical`, then `countForBlock`), `SetPeerMaj23` and the
signers of `MakeExtendedCommit` as operators on a record. `VoteSetGossip`
delivers votes to it in any order, those of faulty validators in conflict with
each other. Signatures are taken as valid.

**HeightVoteSet, ConsensusState.** `ConsensusState` is one node: `cs` is
`RoundState` with the internal queue, the messages sent from overflow
goroutines (`spilled`) and the timer; `tocks` are the timeouts that have fired.
Every `enter*` function is an operator, and every branch of the `select` in
`receiveRoutine` is an action that runs the whole handler. Blocks, their
validity and the application's answers are constants. The other validators
send any votes that the constant `Admissible` allows.

**Tendermint, Agreement.** `Tendermint` states what a correct validator may
sign, for all validators at once; `ConsensusState` is checked to follow it
(`FollowsVotingRules`), and it implements `Agreement`, in which a height decides
at most once.

**CommitRecovery.** Disk (`store`, `saved`, `response`, `app`, `wal` with the
`synced` prefix) and memory (`pc`, `cs`, `job`) of a node. Every write to disk
is a step, and `Crash` may come before each. A crash loses any part of the WAL
that is not synced, and the application may come back without its last commits.
`SaveState` prunes the store to the height the application asked to retain
(`base`), and the handshake and the replay fail as in the code when the
application is too far below it. The model assumes that the application comes
back at `base` or above: the replay of the block at `base` needs the validators
of the height before, which pruning deletes, although the comment at
`consensus/replay.go:385` allows the application to be one behind.

**BlockStore, StateStore, Storage.** The two databases as records of the keys
they hold, with validators and parameters stored by reference to the height of
their last change or checkpoint. A validator set is its members and the number
of priority increments since they were set (`turns`); the priorities are left
out, see the findings. `Storage` composes them: store, apply, prune in
batches, crash, roll back. `history` records what the chain determined and is
compared with what the stores return.

**Mempool, MempoolGossip.** `pool` is `CListMempool` with its cache and
`recheck`; `conn` is the connection to the application with the requests it has
not answered and the answers not yet handled; `cons` is `BlockExecutor.Commit`
and `upd` the goroutine of `asyncUpdateMempool`, which share the write lock.
Checks, callbacks, `Update` per transaction, rechecking and its timeout are
steps. The local client answers within the call, the socket client in order and
later. `MempoolGossip` adds `broadcastTxRoutine` for one peer: `walk` is its
position in the concurrent list, which may lie on removed elements.
`config.Recheck` is on and `KeepInvalidTxsInCache` off.

**BlockPool, StateSync, Sync.** `BlockPool` has every requester as a process
with its channels and its timer, next to `makeRequestersRoutine`, `Receive`, the
peers' timeouts and `poolRoutine`. `StateSync` has the snapshot pool, the chunk
queue, the fetchers (also those of an earlier attempt that have not noticed that
they are cancelled) and `SyncAny`; what the application answers to an offer or a
chunk is a choice. `Sync` composes the two by `startStateSync`. A requester may
lag behind the pool: its timer fires before it has read that it got its block or
lost its peer (the fault `late`). `Stranded` is a requester that is then left
without its block and without a timer.

**EvidencePool.** The database (`pending`, `committed`), the pool in memory, the
goroutines that add evidence without holding a lock (`adding`), and consensus
(`job`), for which each write to the database is a step. An adder writes the
evidence and counts it in two steps (`uncounted` is in between). `Restart` keeps
the database and lets the handshake apply a stored block with an empty pool.
`chain` is the evidence in blocks whose state is saved, `block` that of the block
stored after it. A decided block may carry any evidence of past heights, old,
expired or again: a proposer is given pending evidence of any age, and another
validator that has it pending does not check it again. Where `CheckEvidence`
refuses such a block, the node panics (`job.pc = "panic"`). `PruneStates` loses
the validators of old heights, and evidence of these can no longer be verified.

**LightClient.** One call at a time to `Update` or `VerifyLightBlockAtHeight`:
`job` is where it is in `verifySequential`, `verifySkipping`, `backwards` or
`detectDivergence`. Light blocks stand for their hashes. `world` fixes the
providers, which of them are correct, and which forged blocks exist although too
few validators should be corrupt. `doubtful` are stored blocks that were
verified backwards, where the last header is never compared with the target.
What a witness reports depends on its answers; when it lags behind, on the time
of its last block (`Overtaken`). Whether evidence of an attack can be made from
a conflict is left open.

## Runs

| run | instance | shows |
|---|---|---|
| `filepv` | 2 heights, 2 rounds, 3 signatures | no double signing, write-ahead |
| `voteset` | 4 validators of power 2, 2, 1, 2, one faulty | tallies, majorities and commits are right; a claimed majority is found |
| `tendermint` | 4 validators, one faulty, 2 rounds, 2 blocks | locks, refinement of `Agreement` |
| `consensus_state` | powers 1, 2, 1; 2 rounds; 4 votes of others, equivocation and a false claim included | no panic; locks, parts and commits are consistent; the node follows the voting rules |
| `consensus_live` | 2 heights, 2 rounds, queue of length 1 | commits are backed; waits and rounds end; own votes are counted |
| `storage` | heights up to 4, from genesis or a snapshot at 1; checkpoint and flush every 2 | stores return what the chain determined |
| `commit_recovery` | 3 blocks, 3 crashes, 2 lost commits | recovery, exactly-once execution |
| `mempool` | 2 transactions, cache of 1, 2 heights, local and socket client, one peer | no panic; the list is valid after each block; checks, commits and broadcast end |
| `sync` | 2 peers, one faulty; 2 snapshots of 2 and 1 chunks at height 1, blocks up to 4 | the snapshot is restored completely; blocks come in order; the node gets to consensus, or a requester is stranded |
| `evidence` | a duplicate vote and a light client attack, 5 heights, 2 adders, 2 restarts | evidence is neither lost nor marked wrongly; a decided block is refused only for evidence that is old, expired or unverifiable |
| `light_client` | 5 heights, 3 forged blocks, 2 times, 4 worlds | only blocks of the chain are stored; calls end |
| `evidence_validators` | heights up to 4, from genesis | finding, see below |

### Bounds

Two rounds are needed for a lock to meet another proposal. Two heights exercise
`LastCommit` and the reset of the round state. In `consensus_state` the others
cast at most four votes: `q` may equivocate, `p`, which holds half of the power,
follows the voting rules. Without such a limit the panics for "+2/3 committed an
invalid block" and the like are what the code intends.

Checkpoints every 2 blocks instead of 100000, and flushes every 2 instead of
1000, make a pruning cross both within 4 blocks; with 3, dropping the checkpoint
from the entries that pruning keeps goes unnoticed. The validators start as `v1`
and change to `v2`, the parameters as `p1` and `p2`. Three crashes let a recovery be
interrupted, and that recovery be interrupted again. In the run `tendermint` the
faulty validator has signed every vote from the start, which is the worst case
for the others. Evidence ages by one block per unit of time and expires after
one, so that it can be added, committed, expire and be offered again within five
heights.

A cache of one transaction makes the second push evict the first. Two fetchers
and two peers let a chunk arrive after its sender was rejected or its snapshot
given up. In `sync` the application once does something other than accept, a
peer, a request or the light client of state sync fails once, and two things go
wrong in block sync. The validator set of `light_client` moves by one of four
per height, so that a skip of two heights is trusted and one of three is not; at
time 6 the blocks of heights 1 and 2 have expired and their validators are
corrupt.

Assumptions of the instances: a transaction is not evicted from the cache while
its first check is under way; the application keeps the height it let the store
be pruned to; in worlds with a fork there is one witness, and it or
the primary is correct; a call of the light client sees one time.

Deadlock is not checked where the bounds stop the system: the last height or
round, the last crash or request.

### Fairness

`ConsensusState`: the Go runtime serves every goroutine that can run and
`select` picks among ready channels at random, so the head of the internal
queue is handled, a spilled message is queued, an active timer fires and a tock
is received. Nothing is assumed about peers. `CommitRecovery`: weak fairness of
`Step`, the process goes on with what it does. `VoteSetGossip`: peers offer the
votes a node lacks again (`gossipVotesRoutine`). `MempoolGossip`: the goroutines
run, the application answers, the recheck timeout fires, and a writer that waits
for the mempool lock gets it in spite of readers (strong fairness of
`LockAndFlush`: Go's `RWMutex` lets no new reader pass a waiting writer). `Sync`:
the goroutines run, timers fire, and a peer that is not faulty answers and, in
block sync, comes back. `LightClient`: a call goes on.

## Proofs

TLAPS proves, for any constants that satisfy the named assumptions:

- `FilePVProofs`: `NoDoubleSign`, `ReleasedIsPersisted`, that the file never goes
  back, and the types. The invariant adds `SaveProgress`: what memory and file
  hold between signing, saving and replying.
- `VotingPowerProofs`: lemmas on quorums, of which the central one is that two
  quorums share a validator that is not faulty. `PowerOf` is an operator that
  is assumed to be additive.
- `VoteSetProofs`: `TalliesAreRight`, `CommitCarriesQuorum`, `MajorityIsUnique`.
  The invariant adds that counted votes were cast, that a counted validator has
  a canonical vote, and what `maj23` stands for.
- `TendermintProofs`: agreement, `LockPreventsPolka` and the refinement of
  `Agreement`, under `FaultyMinority`. The invariant is stronger than
  `LockPreventsPolka`: `ChoosableExcludesPolka` says that a block that *could
  still* get +2/3 precommits in a round excludes a polka for anything else in
  later rounds. Without "could still" it is not inductive.
- `CommitRecoveryProofs`: `NeverFails`, `ExecutesOnceInOrder`,
  `StoresAreConsistent`, `LockRecovered`, for any number of heights, crashes and
  lost commits. The invariant says for each value of `pc` how far the store, the
  state, the application and the saved response are apart; `BaseInv` adds that
  the base of a pruned store is at most the height of the application. `LockRecovered` needs
  two more: in the log a vote comes after its polka, the polka of a height after
  the end of the one before, and a vote that was sent is synced (`WALInv`); and a
  replay has locked the node on every polka of its height before its position,
  so that a node that runs is locked if its log has the polka (`ReplayInv`).
- `SyncProofs`: `PoolIsSound`, `RestoresCompletely`, `RejectedStayOut`, for any
  peers, ranges of blocks, snapshots, numbers of requesters and fetchers, and
  faults. `PoolInv` says that the requesters are those of consecutive heights,
  what a planned requester and `poolRoutine` remember of them, and that a block
  is kept only from a peer that was asked. `StateInv` says that the queue is that
  of the snapshot at hand, that what it returned it has, and that the application
  has all it returned but the chunk at hand; late fetchers and answers keep this.
- `EvidencePoolProofs`: the four properties of the run, for any evidence, number
  of adders, heights and restarts. Four invariants build on each other: how far
  store, state and pool are apart in each step of `job`; what is marked; where
  each reported conflict is; and that the counter and the adders that have still
  to count make up at least the number of pending items.
- `LightClientProofs`: `StoredIsCanonical` where no fork exists, for any chain,
  validator sets, powers, times and providers with `FewAreCorrupt`. The argument:
  a forged block is signed only by corrupt validators, which are at most a third
  of the validators of any block that has not expired, and both kinds of
  verification ask for more than a third of those. The invariant carries this
  through the block cache of the bisection and the replacement of the primary.

Only model-checked: everything about `ConsensusState`, `Storage` and `Mempool`
(so also that the node follows the voting rules the agreement proof is about),
the light client in a forked world, and the liveness properties. Liveness under fairness and `ENABLED`, induction
over data and `RECURSIVE` operators are beyond the provers used here.

## Findings

- `evidence_validators`: pruning keeps validator entries for evidence but
  deletes the checkpoint they point to, so they no longer load.

The models also show these behaviours, which differ from a comment or document,
or which a reader may not expect, and for which no run is kept.

- Consensus: late votes take a node out of the Commit step (`enterNewRound`); the
  NewRound timeout of `handleTxsAvailable` replaces the NewHeight one in the
  ticker; a node that skips the round of a polka prevotes its old lock, where
  `spec/consensus/consensus.md` says it unlocks first. Safety does not depend on
  these.
- Recovery: after block sync, or a handshake that applied the last block, the WAL
  has no end of the previous height. A crash at that height skips the replay,
  and the node forgets its lock, where `spec/consensus/wal.md` says that the last
  height is replayed. `FilePV` still prevents a second signature for the same
  step. `LockRecovered` is therefore stated for a log with the end of the height.
- Storage: `LoadValidators` rebuilds a set that is stored by reference with one
  `IncrementProposerPriority(n)`, which rescales and centres the priorities once,
  where the chain did so at each of the `n` heights; after a change of the
  validators the priorities, and so the proposer, that it returns can differ from
  the chain's. An intermediate flush of `PruneBlocks` stores a base whose block it
  deletes (`HistoryLoads` is therefore stated above the base); the validators
  needed to replay the block at the base of a pruned store are deleted; a hard
  rollback below the base leaves no commit to start from (`NeededIsKept` is
  therefore stated above the base).
- Mempool: `setRecheckFull` races with the end of a recheck and can leave
  `ErrRecheckFull` until the next `Lock`; `ReapMaxTxs` returns one more than its
  argument; `Flush` of the gRPC client does not wait for answers.
- Block sync: a requester that handles a late `gotBlockCh` token after a redo
  believes it has its block and stops its retry timer, and `redoCh` holds a single
  request; if no other peer leaves, the sync stalls. `SyncEnds` therefore says
  that the node gets to consensus, fails, or ends with a stranded requester.
- State sync: `RETRY_SNAPSHOT` does not free the allocation of chunks that are
  missing; chunks of a sender that was rejected are still added; a failed state
  sync leaves the node idle.
- Evidence: an add that races with a commit, or a crash before `Update` (the
  handshake uses an empty pool), leaves committed evidence pending, and it is
  proposed again; evidence of a light client attack is counted again at each
  `CheckEvidence`; pruning comes one block late. Since pending evidence is
  proposed at any age, and a pending duplicate vote in a block is not checked
  again, a decided block can hold evidence that is expired or committed, and a
  node that has not got it pending panics (`CommittedIsMarked` says that it
  panics for no other reason, and excepts the mark of a block that the handshake
  replayed with the empty pool, which is lost). A node that started from a
  snapshot has no header of its first height and drops the conflicts of it.
- Light client: `compareNewHeaderWithWitness` reports a conflict and then also a
  match, and `detectDivergence` reads only as many reports as there are
  witnesses, so that with two witnesses a conflict can stay unread; `backwards`
  does not compare its last header with the target; a primary that sends a bad
  pivot block is not replaced; when the last witness becomes the primary it
  stays a witness.

## Not modelled

Vote extensions, events, metrics, WAL rotation and the repair of a corrupted
tail (a torn record counts as lost), caches and the hash index of the block
store, database writes inside one batch (taken as atomic), the content of blocks
and of transactions, signatures and hashes.

Mempool: the unsafe `Flush`, a broken connection (it stops the node), sizes in
bytes, gas, and the limit on the number of transactions, since the check and the
add are one step. Block sync: receive rates and the limit of requests per peer.
State sync: what its light client answers is a choice. Evidence: the broadcast
list of the reactor and byte limits. Light client: `TrustOptions` that differ
from the store, concurrent calls, the making and sending of evidence.

Not modelled at all, and why:

- switch, peer exchange, multiplexed and secret connections: the models let
  peers come and go and lose, delay and reorder messages, whatever these do;
  what they do besides is byte I/O, cryptography or random choice;
- remote signer: connections and deadlines around the requests of `FilePV`;
- event bus, indexers, RPC, command line: consumers on which no modelled part
  depends;
- proposer priorities: arithmetic whose statements are inductions over rounds
  and sets; the models of consensus use that the proposer is a function of height and round;
- generated encodings, cryptography, test applications and tools.

Hazards that remain without a model: `reconnectToPeer` of the switch checks and
sets in two steps; the ping loop of the remote signer drops a connection that a
request is using; priorities are clipped at 64 bits; `sendError` of block sync
sends on a channel while it holds the pool's mutex.
