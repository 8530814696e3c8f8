----------------------------- MODULE LightClient -----------------------------
(***************************************************************************)
(* The light client (light/): one call at a time to Update or to           *)
(* VerifyLightBlockAtHeight, which fetches light blocks from a primary,    *)
(* verifies the one asked for, sequentially, by bisection or backwards,    *)
(* and compares it with what the witnesses have before it is stored.       *)
(*                                                                         *)
(* A light block stands for its hash.  Header gives the height, the time,  *)
(* the validators, the next validators, the signers of the commit and the  *)
(* hash of the block before, all of which the hash covers: a provider has  *)
(* validated the block on its own (ValidateBasic).  Blocks that are not of *)
(* the chain are signed by validators that are corrupt by then; forks are  *)
(* those that exist although too few validators should be.                 *)
(***************************************************************************)
EXTENDS Integers, Sequences, FiniteSets

CONSTANTS Chain,               \* the blocks of the chain
          Forged,              \* blocks that are not of it
          Header,
          Heights,             \* bound: the heights that calls ask for
          Corrupt,             \* the validators that are corrupt at each time
          Validators,
          PowerOf(_),          \* voting power of a set of validators
          Root,                \* the block that the user trusts
          TrustingPeriod, MaxClockDrift, PruningSize,
          Times,               \* bound: the times at which calls are made
          Worlds,              \* forks, correct providers, the first primary
                               \* and witnesses, the mode of verification
          NoBlock,
          Benign, Malicious    \* the two kinds of errors of a provider

VARIABLES store,      \* the trusted store: a set of light blocks
          latest,     \* latestTrustedBlock
          doubtful,   \* stored blocks that were verified backwards, or from such
          primary, witnesses,
          now,
          job,        \* the call that is under way
          world

vars == <<store, latest, doubtful, primary, witnesses, now, job, world>>

Blocks == Chain \cup Forged

height  == [b \in Blocks |-> Header[b].height]
time    == [b \in Blocks |-> Header[b].time]
last    == [b \in Blocks |-> Header[b].last]      \* the hash of the block before
vals    == [b \in Blocks |-> Header[b].vals]
next    == [b \in Blocks |-> Header[b].next]      \* the next validators
signers == [b \in Blocks |-> Header[b].signers]   \* of the commit

\* CORRECTNESS: the validators of a block keep to the rules for the trusting
\* period.  At most a third of the power of each set is corrupt in that time.
FewAreCorrupt ==
    \A t \in Times, c \in Chain :
       time[c] + TrustingPeriod > t =>
          /\ 3 * PowerOf(vals[c] \cap Corrupt[t]) <= PowerOf(vals[c])
          /\ 3 * PowerOf(next[c] \cap Corrupt[t]) <= PowerOf(next[c])

ASSUME LightClientAssumption ==
    /\ Root \in Chain
    /\ TrustingPeriod \in Nat /\ Times \subseteq Nat
    /\ {NoBlock, Benign, Malicious} \cap Blocks = {}
    /\ \A b \in Blocks :
         /\ height[b] \in Nat /\ time[b] \in Nat
         /\ vals[b] \subseteq Validators /\ next[b] \subseteq Validators
    /\ \A t \in Times : Corrupt[t] \subseteq Validators
    /\ FewAreCorrupt

ASSUME PowerAssumption ==
    \A T \in SUBSET Validators :
       PowerOf(T) \in Nat /\ \A S \in SUBSET T : PowerOf(S) <= PowerOf(T)

-----------------------------------------------------------------------------
(* Verification (light/verifier.go) *)

HeaderExpired_Never(t) == FALSE

HeaderExpired(t) == time[t] + TrustingPeriod <= now

\* verifyCommitSingle, verifyCommitBatch: the power of the signers of u in V
talliedVotingPower(V, u) == PowerOf(V \cap signers[u])

\* VerifyCommitLight: more than two thirds of a block's own validators
CommitLight(u) == 3 * talliedVotingPower(vals[u], u) > 2 * PowerOf(vals[u])

\* VerifyCommitLightTrusting, with the default level of a third
CommitLightTrusting(t, u) == 3 * talliedVotingPower(vals[t], u) > PowerOf(vals[t])

\* verifyNewHeaderAndVals
NewHeader(t, u) ==
    /\ height[u] > height[t]
    /\ time[u] > time[t]
    /\ time[u] < now + MaxClockDrift

\* Verify: VerifyAdjacent or VerifyNonAdjacent
Verify(t, u) ==
    CASE HeaderExpired(t) -> "error"
      [] ~HeaderExpired(t) /\ ~NewHeader(t, u) -> "invalid"
      [] ~HeaderExpired(t) /\ NewHeader(t, u) /\ height[u] = height[t] + 1 ->
           IF vals[u] # next[t] THEN "error"
           ELSE IF CommitLight(u) THEN "ok" ELSE "invalid"
      [] OTHER ->
           IF ~CommitLightTrusting(t, u) THEN "untrusted"
           ELSE IF CommitLight(u) THEN "ok" ELSE "invalid"

\* VerifyBackwards
VerifyBackwards(u, t) == time[u] < time[t] /\ u = last[t]

-----------------------------------------------------------------------------
(* Providers *)

Forgeable == [t \in Times |-> {b \in Forged : signers[b] \subseteq Corrupt[t]}]

\* The blocks that exist now
Exists(b) ==
    \/ b \in Chain /\ time[b] <= now
    \/ b \in Forgeable[now] \/ b \in world.forks

\* What provider p may answer when asked for height h, 0 being its latest: a
\* block, Benign (no response, not found, too high) or Malicious (a bad block,
\* an unreliable provider)
Latest(b) == ~\E c \in Chain : Exists(c) /\ height[c] > height[b]
Answers(p, h) ==
    IF p \in world.correct
    THEN {Benign} \cup {b \in Chain : Exists(b) /\ (height[b] = h \/ (h = 0 /\ Latest(b)))}
    ELSE {Benign, Malicious} \cup {b \in Blocks : Exists(b) /\ h \in {0, height[b]}}

\* removeWitnesses: the witnesses without those at the indexes of I
Without(ws, I) ==
    LET keep == SelectSeq([i \in DOMAIN ws |-> i], LAMBDA i : i \notin I)
    IN  [k \in DOMAIN keep |-> ws[keep[k]]]

\* findNewPrimary returns lb: the first witness with a block is promoted, and
\* those that had sent something bad are removed, unless none would be left.
\* When the promoted one is the last, it is the primary and stays a witness.
findNewPrimary(h, remove, lb) ==
    LET ws == IF remove THEN witnesses ELSE Append(witnesses, primary)
    IN  \E bad \in SUBSET DOMAIN witnesses :
          /\ \A i \in bad : Malicious \in Answers(witnesses[i], h)
          /\ \/ \E i \in DOMAIN witnesses \ bad :
                  /\ primary' = witnesses[i]
                  /\ IF Len(ws) <= Cardinality(bad) + 1
                     THEN /\ lb = NoBlock /\ Blocks \cap Answers(witnesses[i], h) # {}
                          /\ witnesses' = ws
                     ELSE /\ lb \in Blocks \cap Answers(witnesses[i], h)
                          /\ witnesses' = Without(ws, bad \cup {i})
             \/ /\ lb = NoBlock
                /\ witnesses' = IF Len(witnesses) <= Cardinality(bad) THEN witnesses
                                ELSE Without(witnesses, bad)
                /\ UNCHANGED primary

\* lightBlockFromPrimary returns lb
lightBlockFromPrimary(h, lb) ==
    \/ /\ lb \in Blocks \cap Answers(primary, h)
       /\ UNCHANGED <<primary, witnesses>>
    \/ findNewPrimary(h, FALSE, lb)
    \/ Malicious \in Answers(primary, h) /\ findNewPrimary(h, TRUE, lb)

-----------------------------------------------------------------------------
(* The client (light/client.go) *)

Idle == [pc |-> "idle", want |-> 0, target |-> NoBlock, trusted |-> NoBlock,
         verified |-> NoBlock, cache |-> <<>>, depth |-> 0, sound |-> TRUE,
         errc |-> <<>>, read |-> 0, matched |-> FALSE, remove |-> {}]

Init ==
    /\ world \in Worlds
    /\ store = {Root} /\ latest = Root /\ doubtful = {}
    /\ primary = world.primary /\ witnesses = world.witnesses
    /\ now \in Times /\ time[Root] <= now
    /\ job = Idle

Stored(h) == \E b \in store : height[b] = h

\* The stored block before height h (LightBlockBefore), the first and the last
IsBefore(b, h) ==
    height[b] < h /\ \A c \in store : height[c] < h => height[c] <= height[b]
IsFirst(b) == \A c \in store : height[b] <= height[c]
IsLast(b) == \A c \in store : height[c] <= height[b]

\* A block is not stored yet, or an Update asks for the latest
VerifyLightBlockAtHeight(h) ==
    /\ job.pc = "idle"
    /\ h # 0 => ~Stored(h)
    /\ job' = [Idle EXCEPT !.pc = "target", !.want = h]
    /\ UNCHANGED <<store, latest, doubtful, primary, witnesses, now, world>>

\* The next block of a sequential verification: an interim one or the target
Sequential(j) ==
    IF height[j.verified] + 1 = height[j.target]
    THEN [j EXCEPT !.pc = "verify", !.cache = <<j.target>>, !.depth = 1]
    ELSE [j EXCEPT !.pc = "interim", !.want = height[j.verified] + 1]

\* verifySequential or verifySkipping, from block t
Begin(t, b) ==
    LET j == [Idle EXCEPT !.target = b, !.trusted = t, !.verified = t,
                          !.sound = t \notin doubtful]
    IN  IF world.mode = "sequential" THEN Sequential(j)
        ELSE [j EXCEPT !.pc = "verify", !.cache = <<b>>, !.depth = 1]

\* verifyLightBlock: forwards from the latest block or from the stored one
\* before b, or backwards from the first
verifyLightBlock(b) ==
    \/ height[b] >= height[latest] /\ job' = Begin(latest, b)
    \/ height[b] < height[latest] /\ \E t \in store :
         \/ IsBefore(t, height[b]) /\ job' = Begin(t, b)
         \/ /\ IsFirst(t) /\ height[b] < height[t]
            /\ job' = [Idle EXCEPT !.pc = "back", !.target = b, !.verified = t, !.sound = FALSE]

\* The block asked for arrives, from the primary or its replacement
Target(lb) ==
    /\ job.pc = "target"
    /\ lightBlockFromPrimary(job.want, lb)
    /\ IF lb = NoBlock \/ (job.want = 0 /\ height[lb] <= height[latest])
       THEN job' = Idle ELSE verifyLightBlock(lb)
    /\ UNCHANGED <<store, latest, doubtful, now, world>>

Verified_NotAdvanced(j) ==
    IF j.cache[j.depth] = j.target THEN [j EXCEPT !.pc = "compare", !.read = -1]
    ELSE LET k == [j EXCEPT !.cache = SubSeq(@, 1, j.depth - 1), !.depth = 1]
         IN  IF world.mode = "sequential" THEN Sequential(k) ELSE k

\* A block was verified against the last one
Verified(j) ==
    IF j.cache[j.depth] = j.target THEN [j EXCEPT !.pc = "compare", !.read = -1]
    ELSE LET k == [j EXCEPT !.verified = j.cache[j.depth],
                            !.cache = SubSeq(@, 1, j.depth - 1), !.depth = 1]
         IN  IF world.mode = "sequential" THEN Sequential(k) ELSE k

\* One round of the loop in verifySequential or verifySkipping
VerifyNext ==
    /\ job.pc = "verify"
    /\ LET u == job.cache[job.depth]
           r == Verify(job.verified, u)
       IN  job' = CASE r = "ok" -> Verified(job)
                    [] r = "untrusted" ->
                         IF job.depth = Len(job.cache) THEN [job EXCEPT !.pc = "pivot"]
                         ELSE [job EXCEPT !.depth = @ + 1]
                    [] r = "invalid" /\ height[u] # height[job.target] ->
                         [job EXCEPT !.pc = "replace"]
                    [] OTHER -> Idle
    /\ UNCHANGED <<store, latest, doubtful, primary, witnesses, now, world>>

\* Half way between the last verified block and the one that failed
pivotHeight ==
    height[job.verified] + (height[job.cache[job.depth]] - height[job.verified]) \div 2

\* The primary is asked for the pivot, which is appended twice; any error
\* ends the call
Pivot(a) ==
    /\ job.pc = "pivot" /\ a \in Answers(primary, pivotHeight)
    /\ job' = IF a \in {Benign, Malicious} THEN Idle
              ELSE [job EXCEPT !.pc = "verify", !.cache = @ \o <<a, a>>, !.depth = @ + 1]
    /\ UNCHANGED <<store, latest, doubtful, primary, witnesses, now, world>>

\* verifySequential: an interim block arrives
Interim(lb) ==
    /\ job.pc = "interim"
    /\ lightBlockFromPrimary(job.want, lb)
    /\ job' = IF lb = NoBlock THEN Idle
              ELSE [job EXCEPT !.pc = "verify", !.cache = <<lb>>, !.depth = 1]
    /\ UNCHANGED <<store, latest, doubtful, now, world>>

\* An interim block is invalid: another primary must have the same target
Replace(lb) ==
    /\ job.pc = "replace"
    /\ findNewPrimary(height[job.target], TRUE, lb)
    /\ job' = IF lb # job.target THEN Idle
              ELSE IF job.trusted = NoBlock THEN [job EXCEPT !.pc = "back"]
              ELSE IF world.mode = "sequential" THEN Sequential(job)
              ELSE Begin(job.trusted, job.target)
    /\ UNCHANGED <<store, latest, doubtful, now, world>>

\* Prune: the lowest go
Prune(S) ==
    {b \in S : Cardinality({c \in S : height[c] >= height[b]}) <= PruningSize}

\* updateTrustedLightBlock
updateTrustedLightBlock(b, sound) ==
    /\ store' = Prune(store \cup {b})
    /\ doubtful' = IF sound THEN doubtful ELSE doubtful \cup {b}
    /\ latest' = IF height[b] > height[latest] THEN b ELSE latest

\* backwards: the next block down must be the one the last one points to.
\* The target is stored when its height is reached.
Backwards(lb) ==
    /\ job.pc = "back" /\ height[job.verified] > height[job.target]
    /\ lightBlockFromPrimary(height[job.verified] - 1, lb)
    /\ job' = CASE lb = NoBlock -> Idle
                [] lb # NoBlock /\ VerifyBackwards(lb, job.verified) ->
                     [job EXCEPT !.verified = lb]
                [] OTHER -> [job EXCEPT !.pc = "replace"]
    /\ UNCHANGED <<store, latest, doubtful, now, world>>

BackwardsEnds ==
    /\ job.pc = "back" /\ height[job.verified] <= height[job.target]
    /\ updateTrustedLightBlock(job.target, FALSE)
    /\ job' = Idle
    /\ UNCHANGED <<primary, witnesses, now, world>>

-----------------------------------------------------------------------------
(* The detector (light/detector.go) *)

\* getTargetBlockOrLatest: the latest block of witness w is lower than u and
\* not older
Overtaken(w, u) ==
    \E c \in Blocks \cap Answers(w, 0) : height[c] < height[u] /\ time[c] >= time[u]

\* compareNewHeaderWithWitness: what it may send when witness w answers a.  A
\* witness whose chain is lower is asked for its latest block, twice.  The
\* report of another header at the same height is followed by that of a match.
Reports(w, a) ==
    CASE a = Benign -> {<<"none">>, <<"bad">>}
                         \cup {r \in {<<"conflict">>} : Overtaken(w, job.target)}
      [] a = Malicious -> {<<"bad">>}
      [] a = job.target -> {<<"match">>}
      [] OTHER -> {<<"conflict", "match">>}

\* detectDivergence asks all witnesses
AskWitnesses(sent) ==
    /\ \A i \in DOMAIN witnesses :
         \E a \in Answers(witnesses[i], height[job.target]) : sent[i] \in Reports(witnesses[i], a)
    /\ job' = IF witnesses = <<>> THEN Idle ELSE [job EXCEPT !.read = 0, !.errc = sent]
    /\ UNCHANGED <<store, latest, doubtful, primary, witnesses, now, world>>

\* It reads as many reports as there are witnesses, in the order in which
\* they are sent.  A conflict ends the call (ErrLightClientAttack) when the
\* header of the witness can be verified, else that witness is to be removed.
ReadReport(i) ==
    /\ job.pc = "compare" /\ job.read \in 0..(Len(witnesses) - 1)
    /\ job.errc[i] # <<>>
    /\ LET j == [job EXCEPT !.read = @ + 1, !.errc[i] = Tail(@)]
           r == Head(job.errc[i])
       IN  \/ r = "none" /\ job' = j
           \/ r = "match" /\ job' = [j EXCEPT !.matched = TRUE]
           \/ r \in {"bad", "conflict"} /\ job' = [j EXCEPT !.remove = @ \cup {i}]
           \/ r = "conflict" /\ job' = Idle
    /\ UNCHANGED <<store, latest, doubtful, primary, witnesses, now, world>>

\* At least one witness has the same header and one is left: it is stored
Compared ==
    /\ job.pc = "compare" /\ job.read = Len(witnesses)
    /\ IF Len(witnesses) > Cardinality(job.remove)
       THEN witnesses' = Without(witnesses, job.remove)
       ELSE UNCHANGED witnesses
    /\ IF Len(witnesses) > Cardinality(job.remove) /\ job.matched
       THEN updateTrustedLightBlock(job.target, job.sound)
       ELSE UNCHANGED <<store, latest, doubtful>>
    /\ job' = Idle
    /\ UNCHANGED <<primary, now, world>>

-----------------------------------------------------------------------------
\* NewClientFromTrustedStore, restoreTrustedLightBlock.  A call that a restart
\* interrupts has changed nothing on disk, as if its first request had failed.
Restart ==
    /\ job.pc = "idle"
    /\ \E b \in store : IsLast(b) /\ latest' = b
    /\ primary' = world.primary /\ witnesses' = world.witnesses
    /\ UNCHANGED <<store, doubtful, now, job, world>>

Tick ==
    /\ job.pc = "idle"
    /\ now' \in {t \in Times : t > now}
    /\ UNCHANGED <<store, latest, doubtful, primary, witnesses, job, world>>

Step ==
    \/ \E lb \in Blocks \cup {NoBlock} :
         Target(lb) \/ Interim(lb) \/ Replace(lb) \/ Backwards(lb)
    \/ VerifyNext
    \/ \E a \in Blocks \cup {Benign, Malicious} : Pivot(a)
    \/ BackwardsEnds
    \/ job.pc = "compare" /\ job.read = -1 /\
         \E sent \in [DOMAIN witnesses ->
                      {<<"none">>, <<"bad">>, <<"match">>, <<"conflict">>, <<"conflict", "match">>}] :
           AskWitnesses(sent)
    \/ \E i \in DOMAIN job.errc : ReadReport(i)
    \/ Compared

Next ==
    \/ \E h \in Heights \cup {0} : VerifyLightBlockAtHeight(h)
    \/ Step
    \/ Restart
    \/ Tick

Spec == Init /\ [][Next]_vars

\* A call goes on as long as its context is not cancelled
FairSpec == Spec /\ WF_vars(Step)

-----------------------------------------------------------------------------
(* Properties *)

\* What is stored, and was verified forwards from the trusted root, is of the
\* chain: at any time at which the fault assumption holds for the blocks that
\* have not expired, whatever the providers answer; and in spite of forks if
\* the primary or the only witness is correct, as detectDivergence promises.
StoredIsCanonical == store \ doubtful \subseteq Chain

\* Every call ends, by storing the block or with an error: bisection makes
\* progress, and replacing the primary runs out of witnesses
\* (verifySkipping, verifySequential, backwards).
CallEnds == job.pc # "idle" ~> job.pc = "idle"
=============================================================================
