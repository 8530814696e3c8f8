------------------------- MODULE LightClientProofs --------------------------
(***************************************************************************)
(* Proofs about LightClient: as long as at most a third of the power of    *)
(* each validator set is corrupt within the trusting period, nothing but   *)
(* blocks of the chain is stored by forward verification, whatever the     *)
(* primary and the witnesses answer.                                       *)
(***************************************************************************)
EXTENDS LightClient, SequenceTheorems, TLAPS

(* A set of validators that are all corrupt has at most a third of the power *)
(* of any set of the chain that has not expired.                             *)
LEMMA FewSigners ==
  ASSUME NEW t \in Chain, NEW S \in SUBSET Validators,
         now \in Times, time[t] + TrustingPeriod > now, S \subseteq Corrupt[now]
  PROVE  /\ S \subseteq vals[t] => 3 * PowerOf(S) <= PowerOf(vals[t])
         /\ S \subseteq next[t] => 3 * PowerOf(S) <= PowerOf(next[t])
<1>1. t \in Blocks /\ vals[t] \in SUBSET Validators /\ next[t] \in SUBSET Validators
  BY LightClientAssumption DEF Blocks
<1>2. /\ 3 * PowerOf(vals[t] \cap Corrupt[now]) <= PowerOf(vals[t])
      /\ 3 * PowerOf(next[t] \cap Corrupt[now]) <= PowerOf(next[t])
  BY LightClientAssumption, Zenon DEF FewAreCorrupt
<1>3. ASSUME NEW V \in SUBSET Validators, S \subseteq V, 3 * PowerOf(V \cap Corrupt[now]) <= PowerOf(V)
      PROVE  3 * PowerOf(S) <= PowerOf(V)
  <2>1. V \cap Corrupt[now] \in SUBSET Validators /\ S \in SUBSET (V \cap Corrupt[now])
    BY <1>3
  <2>2. PowerOf(S) <= PowerOf(V \cap Corrupt[now])
    BY <2>1, PowerAssumption
  <2>3. PowerOf(S) \in Nat /\ PowerOf(V \cap Corrupt[now]) \in Nat /\ PowerOf(V) \in Nat
    BY <2>1, PowerAssumption
  <2> QED
    BY <1>3, <2>2, <2>3
<1> QED
  BY <1>1, <1>2, <1>3

(* A block that Verify accepts from a block of the chain is of the chain:    *)
(* the one third, or two thirds, that signed it are not all corrupt          *)
(* (VerifyAdjacent, VerifyNonAdjacent).                                      *)
LEMMA VerifyIsSound ==
  ASSUME NEW t \in Chain, NEW u \in Blocks,
         world.forks = {}, now \in Times, Exists(u), Verify(t, u) = "ok"
  PROVE  u \in Chain
<1> SUFFICES ASSUME u \notin Chain PROVE FALSE
  OBVIOUS
<1>1. signers[u] \subseteq Corrupt[now]
  BY DEF Exists, Forgeable
<1>2. ~HeaderExpired(t) /\ CommitLight(u)
      /\ \/ vals[u] = next[t]
         \/ CommitLightTrusting(t, u)
  BY DEF Verify
<1>3. /\ t \in Blocks /\ time[t] \in Nat /\ now \in Nat /\ TrustingPeriod \in Nat
      /\ vals[t] \in SUBSET Validators /\ vals[u] \in SUBSET Validators /\ next[t] \in SUBSET Validators
  BY LightClientAssumption DEF Blocks
<1>4. time[t] + TrustingPeriod > now
  BY <1>2, <1>3 DEF HeaderExpired
<1>5. CASE vals[u] = next[t]
  <2> DEFINE S == vals[u] \cap signers[u]
  <2>1. S \in SUBSET Validators /\ S \subseteq next[t] /\ S \subseteq Corrupt[now]
    BY <1>1, <1>3, <1>5
  <2>2. 3 * PowerOf(S) <= PowerOf(next[t])
    BY <1>4, <2>1, FewSigners
  <2>3. 3 * PowerOf(S) > 2 * PowerOf(next[t])
    BY <1>2, <1>5 DEF CommitLight, talliedVotingPower
  <2>4. PowerOf(S) \in Nat /\ PowerOf(next[t]) \in Nat
    BY <1>3, <2>1, PowerAssumption
  <2> HIDE DEF S
  <2> QED
    BY <2>2, <2>3, <2>4
<1>6. CASE CommitLightTrusting(t, u)
  <2> DEFINE S == vals[t] \cap signers[u]
  <2>1. S \in SUBSET Validators /\ S \subseteq vals[t] /\ S \subseteq Corrupt[now]
    BY <1>1, <1>3
  <2>2. 3 * PowerOf(S) <= PowerOf(vals[t])
    BY <1>4, <2>1, FewSigners
  <2>3. 3 * PowerOf(S) > PowerOf(vals[t])
    BY <1>6 DEF CommitLightTrusting, talliedVotingPower
  <2>4. PowerOf(S) \in Nat /\ PowerOf(vals[t]) \in Nat
    BY <1>3, <2>1, PowerAssumption
  <2> HIDE DEF S
  <2> QED
    BY <2>2, <2>3, <2>4
<1> QED
  BY <1>2, <1>5, <1>6

(* A light block that a provider returned is one that exists.                *)
LEMMA ReturnedExists ==
  ASSUME NEW h, NEW lb, lb # NoBlock,
         \/ lightBlockFromPrimary(h, lb)
         \/ findNewPrimary(h, TRUE, lb)
  PROVE  lb \in Blocks /\ Exists(lb)
<1>1. ASSUME NEW q, lb \in Blocks \cap Answers(q, h)
      PROVE  lb \in Blocks /\ Exists(lb)
  BY <1>1, LightClientAssumption DEF Answers
<1>2. ASSUME NEW r, findNewPrimary(h, r, lb)
      PROVE  \E q : lb \in Blocks \cap Answers(q, h)
  BY <1>2, Zenon DEF findNewPrimary
<1> QED
  BY <1>1, <1>2, Zenon DEF lightBlockFromPrimary

-----------------------------------------------------------------------------
(* The inductive invariant *)

IsJob(j) ==
    j = [pc |-> j.pc, want |-> j.want, target |-> j.target, trusted |-> j.trusted,
         verified |-> j.verified, cache |-> j.cache, depth |-> j.depth, sound |-> j.sound,
         errc |-> j.errc, read |-> j.read, matched |-> j.matched, remove |-> j.remove]

Known(b) == b \in Blocks /\ Exists(b)

(* What a call relies on, wherever it is: the target exists, and a sound call *)
(* has come from the chain so far.                                            *)
Source(j) ==
    /\ IsJob(j)
    /\ Known(j.target)
    /\ j.trusted \in doubtful \cup Chain \cup {NoBlock}
    /\ j.sound \in BOOLEAN
    /\ j.sound => j.trusted # NoBlock /\ j.verified \in Chain

(* The blocks that were fetched exist, and those of a bisection end at the    *)
(* target.                                                                    *)
Fetched(j) ==
    /\ j.cache \in Seq(Blocks)
    /\ j.depth \in 1..Len(j.cache)
    /\ \A i \in 1..Len(j.cache) : Exists(j.cache[i])
    /\ world.mode # "sequential" => j.cache[1] = j.target

JobOk(j) ==
    \/ j.pc \in {"idle", "target"} /\ j = [Idle EXCEPT !.pc = j.pc, !.want = j.want]
    \/ j.pc = "interim" /\ Source(j) /\ world.mode = "sequential"
    \/ j.pc = "replace" /\ Source(j)
    \/ j.pc \in {"verify", "pivot"} /\ Source(j) /\ Fetched(j)
    \/ j.pc = "back" /\ Source(j) /\ ~j.sound
    \/ j.pc = "compare" /\ Source(j) /\ (j.sound => j.target \in Chain)

StoreOk ==
    /\ store \subseteq Blocks /\ latest \in Blocks /\ now \in Times
    /\ store \ doubtful \subseteq Chain
    /\ latest \in doubtful \cup Chain

IInv == world.forks = {} => StoreOk /\ JobOk(job)

LEMMA IdleOk ==
  JobOk(Idle) /\ JobOk(Idle)'
BY Zenon DEF JobOk, Idle

(* A call goes on verifying with block b first, and with those of c above it. *)
LEMMA VerifyOk ==
  ASSUME NEW j, Source(j), NEW c, NEW d, c \in Seq(Blocks), d \in 1..Len(c),
         \A i \in 1..Len(c) : Exists(c[i]),
         world.mode # "sequential" => c[1] = j.target
  PROVE  JobOk([j EXCEPT !.pc = "verify", !.cache = c, !.depth = d])
<1> SUFFICES ASSUME NEW k, k = [j EXCEPT !.pc = "verify", !.cache = c, !.depth = d]
             PROVE  JobOk(k)
  OBVIOUS
<1>a. IsJob(j)
  BY DEF Source
<1>1. /\ IsJob(k) /\ k.pc = "verify" /\ k.cache = c /\ k.depth = d
      /\ k.target = j.target /\ k.trusted = j.trusted
      /\ k.verified = j.verified /\ k.sound = j.sound
  BY ONLY <1>a, k = [j EXCEPT !.pc = "verify", !.cache = c, !.depth = d], Zenon
    DEF IsJob
<1>2. Source(k)
  BY <1>1 DEF Source
<1>3. Fetched(k)
  BY <1>1 DEF Fetched
<1> QED
  BY <1>1, <1>2, <1>3 DEF JobOk

(* Both ways of verifying forwards start soundly (verifySequential,           *)
(* verifySkipping).                                                           *)
LEMMA SequentialOk ==
  ASSUME NEW j, Source(j), world.mode = "sequential"
  PROVE  JobOk(Sequential(j))
<1>1. CASE height[j.verified] + 1 = height[j.target]
  <2>1. JobOk([j EXCEPT !.pc = "verify", !.cache = <<j.target>>, !.depth = 1])
    <3>1. /\ <<j.target>> \in Seq(Blocks) /\ 1 \in 1..Len(<<j.target>>)
          /\ \A i \in 1..Len(<<j.target>>) : Exists(<<j.target>>[i])
      BY DEF Source, Known
    <3> QED
      BY <3>1, VerifyOk, Zenon
  <2> QED
    BY <1>1, <2>1 DEF Sequential
<1>2. CASE height[j.verified] + 1 # height[j.target]
  <2>1. ASSUME NEW w, NEW k, k = [j EXCEPT !.pc = "interim", !.want = w]
        PROVE  JobOk(k)
    <3>a. IsJob(j)
      BY DEF Source
    <3>1. /\ k.pc = "interim" /\ k.target = j.target /\ k.trusted = j.trusted
          /\ k.verified = j.verified /\ k.sound = j.sound /\ IsJob(k)
      BY ONLY <3>a, <2>1, Zenon DEF IsJob
    <3> QED
      BY <3>1 DEF JobOk, Source
  <2> QED
    BY <1>2, <2>1, Zenon DEF Sequential
<1> QED
  BY <1>1, <1>2

LEMMA BeginOk ==
  ASSUME NEW t, t # NoBlock, NEW b, Known(b), t \in doubtful \cup Chain
  PROVE  JobOk(Begin(t, b))
<1>1. ASSUME NEW s, s = (t \notin doubtful), s \in BOOLEAN,
             NEW j, j = [Idle EXCEPT !.target = b, !.trusted = t, !.verified = t, !.sound = s]
      PROVE  Source(j)
  <2>1. j.target = b /\ j.trusted = t /\ j.verified = t /\ j.sound = s /\ IsJob(j)
    BY <1>1, Zenon DEF Idle, IsJob
  <2> QED
    BY <1>1, <2>1, Zenon DEF Source
<1> DEFINE j == [Idle EXCEPT !.target = b, !.trusted = t, !.verified = t,
                             !.sound = t \notin doubtful]
<1>2. Source(j)
  BY <1>1, Zenon
<1>3. j.target = b
  BY DEF Idle
<1>4. CASE world.mode = "sequential"
  BY <1>2, <1>4, SequentialOk DEF Begin
<1>5. CASE world.mode # "sequential"
  <2>1. /\ <<b>> \in Seq(Blocks) /\ 1 \in 1..Len(<<b>>) /\ <<b>>[1] = b
        /\ \A i \in 1..Len(<<b>>) : Exists(<<b>>[i])
    BY DEF Known
  <2>2. JobOk([j EXCEPT !.pc = "verify", !.cache = <<b>>, !.depth = 1])
    <3> HIDE DEF j
    <3> QED
      BY <1>2, <1>3, <2>1, VerifyOk, Zenon
  <2> QED
    BY <1>5, <2>2 DEF Begin
<1> QED
  BY <1>4, <1>5

-----------------------------------------------------------------------------
(* One lemma per action *)

(* The part of the cache below the block that was verified.                  *)
LEMMA PrefixOf ==
  ASSUME NEW S, NEW s \in Seq(S), NEW n \in 1..Len(s)
  PROVE  /\ SubSeq(s, 1, n) \in Seq(S) /\ Len(SubSeq(s, 1, n)) = n
         /\ \A i \in 1..n : SubSeq(s, 1, n)[i] = s[i]
OBVIOUS

(* A block that verifies is the target, or the next one to verify from.      *)
LEMMA VerifiedOk ==
  ASSUME job.pc = "verify", Source(job), Fetched(job), world.forks = {}, now \in Times,
         Verify(job.verified, job.cache[job.depth]) = "ok"
  PROVE  JobOk(Verified(job))
<1> DEFINE u == job.cache[job.depth]
<1>1. u \in Blocks /\ Exists(u)
  BY DEF Fetched
<1>2. job.sound => u \in Chain
  BY <1>1, VerifyIsSound DEF Source
<1> HIDE DEF u
<1>3. IsJob(job)
  BY DEF Source
<1>4. CASE u = job.target
  <2>1. ASSUME NEW k, k = [job EXCEPT !.pc = "compare", !.read = -1]
        PROVE  JobOk(k)
    <3>1. /\ IsJob(k) /\ k.pc = "compare" /\ k.target = job.target /\ k.trusted = job.trusted
          /\ k.verified = job.verified /\ k.sound = job.sound
      BY ONLY <1>3, <2>1, Zenon DEF IsJob
    <3> QED
      BY <1>2, <1>4, <3>1 DEF JobOk, Source
  <2> QED
    BY <1>4, <2>1 DEF Verified, u
<1>5. CASE u # job.target
  <2> SUFFICES ASSUME NEW c, c = SubSeq(job.cache, 1, job.depth - 1),
                      NEW k, k = [job EXCEPT !.verified = u, !.cache = c, !.depth = 1]
               PROVE  JobOk(IF world.mode = "sequential" THEN Sequential(k) ELSE k)
    BY <1>5, Zenon DEF Verified, u
  <2>1. /\ IsJob(k) /\ k.pc = job.pc /\ k.target = job.target /\ k.trusted = job.trusted
        /\ k.verified = u /\ k.sound = job.sound /\ k.cache = c /\ k.depth = 1
    BY ONLY <1>3, k = [job EXCEPT !.verified = u, !.cache = c, !.depth = 1], Zenon DEF IsJob
  <2>2. Source(k)
    BY <1>2, <2>1 DEF Source
  <2>3. CASE world.mode = "sequential"
    BY <2>2, <2>3, SequentialOk
  <2>4. CASE world.mode # "sequential"
    <3>1. job.depth \in 2..Len(job.cache) /\ job.cache \in Seq(Blocks)
      BY <1>5, <2>4 DEF Fetched, u
    <3>2. /\ c \in Seq(Blocks) /\ Len(c) = job.depth - 1
          /\ \A i \in 1..(job.depth - 1) : c[i] = job.cache[i]
      <4>1. job.depth - 1 \in 1..Len(job.cache)
        BY <3>1
      <4> QED
        BY ONLY <3>1, <4>1, c = SubSeq(job.cache, 1, job.depth - 1), PrefixOf
    <3>a. Fetched(job)
      OBVIOUS
    <3>3. Fetched(k)
      BY ONLY <2>1, <2>4, <3>1, <3>2, <3>a DEF Fetched
    <3> QED
      BY <2>1, <2>2, <2>4, <3>3 DEF JobOk
  <2> QED
    BY <2>3, <2>4
<1> QED
  BY <1>4, <1>5

LEMMA VerifyNextOk ==
  ASSUME VerifyNext, JobOk(job), world.forks = {}, now \in Times
  PROVE  JobOk(job')
<1>1. job.pc = "verify" /\ Source(job) /\ Fetched(job) /\ IsJob(job)
  BY DEF VerifyNext, JobOk, Source
<1>2. \/ Verify(job.verified, job.cache[job.depth]) = "ok" /\ job' = Verified(job)
      \/ job.depth = Len(job.cache) /\ job' = [job EXCEPT !.pc = "pivot"]
      \/ job.depth # Len(job.cache) /\ job' = [job EXCEPT !.depth = @ + 1]
      \/ job' = [job EXCEPT !.pc = "replace"]
      \/ job' = Idle
  BY DEF VerifyNext
<1>3. ASSUME NEW k, k = [job EXCEPT !.pc = "pivot"] \/ k = [job EXCEPT !.pc = "replace"]
      PROVE  JobOk(k)
  <2>1. /\ IsJob(k) /\ k.pc \in {"pivot", "replace"} /\ k.target = job.target
        /\ k.trusted = job.trusted /\ k.verified = job.verified /\ k.sound = job.sound
        /\ k.cache = job.cache /\ k.depth = job.depth
    BY ONLY <1>1, <1>3 DEF IsJob
  <2> QED
    BY <1>1, <2>1 DEF JobOk, Source, Fetched
<1>4. ASSUME NEW d, d = job.depth + 1, job.depth # Len(job.cache),
             NEW k, k = [job EXCEPT !.depth = d]
      PROVE  JobOk(k)
  <2>1. /\ IsJob(k) /\ k.pc = "verify" /\ k.target = job.target
        /\ k.trusted = job.trusted /\ k.verified = job.verified /\ k.sound = job.sound
        /\ k.cache = job.cache /\ k.depth = d
    BY ONLY <1>1, <1>4 DEF IsJob
  <2>2. d \in 1..Len(job.cache)
    BY <1>1, <1>4 DEF Fetched
  <2> QED
    BY <1>1, <2>1, <2>2 DEF JobOk, Source, Fetched
<1> QED
  BY <1>1, <1>2, <1>3, <1>4, VerifiedOk, IdleOk

LEMMA PivotOk ==
  ASSUME NEW a \in Blocks \cup {Benign, Malicious}, Pivot(a), JobOk(job)
  PROVE  JobOk(job')
<1>1. job.pc = "pivot" /\ Source(job) /\ Fetched(job)
  BY DEF Pivot, JobOk
<1>2. CASE a \in {Benign, Malicious}
  BY <1>2, IdleOk DEF Pivot
<1>3. CASE a \notin {Benign, Malicious}
  <2>1. a \in Blocks /\ Exists(a)
    BY <1>3 DEF Pivot, Answers
  <2> DEFINE c == job.cache \o <<a, a>>
             d == job.depth + 1
  <2>2. /\ c \in Seq(Blocks) /\ Len(c) = Len(job.cache) + 2
        /\ \A i \in 1..Len(job.cache) : c[i] = job.cache[i]
        /\ c[Len(job.cache) + 1] = a /\ c[Len(job.cache) + 2] = a
    BY <1>1, <2>1 DEF Fetched
  <2>3. d \in 1..Len(c)
    BY <1>1, <2>2 DEF Fetched
  <2>4. \A i \in 1..Len(c) : Exists(c[i])
    BY <1>1, <2>1, <2>2 DEF Fetched
  <2>5. world.mode # "sequential" => c[1] = job.target
    BY <1>1, <2>2 DEF Fetched
  <2>6. job' = [job EXCEPT !.pc = "verify", !.cache = c, !.depth = d]
    BY <1>3 DEF Pivot
  <2> HIDE DEF c, d
  <2>7. JobOk([job EXCEPT !.pc = "verify", !.cache = c, !.depth = d])
    BY <1>1, <2>2, <2>3, <2>4, <2>5, VerifyOk, Zenon
  <2> QED
    BY <2>6, <2>7
<1> QED
  BY <1>2, <1>3

LEMMA TargetOk ==
  ASSUME NEW lb, Target(lb), StoreOk, world.forks = {}
  PROVE  JobOk(job')
<1>1. CASE lb = NoBlock \/ (job.want = 0 /\ height[lb] <= height[latest])
  BY <1>1, IdleOk DEF Target
<1>2. CASE ~(lb = NoBlock \/ (job.want = 0 /\ height[lb] <= height[latest]))
  <2>1. Known(lb)
    BY <1>2, ReturnedExists, Zenon DEF Target, Known
  <2>2. verifyLightBlock(lb)
    BY <1>2 DEF Target
  <2>3. CASE job' = Begin(latest, lb)
    BY <2>1, <2>3, BeginOk, LightClientAssumption DEF StoreOk
  <2>4. ASSUME NEW t \in store, job' = Begin(t, lb)
        PROVE  JobOk(job')
    <3>1. t # NoBlock /\ t \in doubtful \cup Chain
      BY LightClientAssumption DEF StoreOk
    <3> QED
      BY <2>1, <2>4, <3>1, BeginOk
  <2>5. ASSUME NEW t \in store, NEW k,
               k = [Idle EXCEPT !.pc = "back", !.target = lb, !.verified = t, !.sound = FALSE]
        PROVE  JobOk(k)
    <3>1. /\ IsJob(k) /\ k.pc = "back" /\ k.target = lb /\ k.trusted = NoBlock
          /\ k.sound = FALSE
      BY ONLY <2>5, Zenon DEF Idle, IsJob
    <3> QED
      BY <2>1, <3>1, Zenon DEF JobOk, Source
  <2> QED
    BY <2>2, <2>3, <2>4, <2>5, Zenon DEF verifyLightBlock
<1> QED
  BY <1>1, <1>2

LEMMA InterimOk ==
  ASSUME NEW lb, Interim(lb), JobOk(job)
  PROVE  JobOk(job')
<1>1. CASE lb = NoBlock
  BY <1>1, IdleOk DEF Interim
<1>2. CASE lb # NoBlock
  <2>1. Known(lb)
    BY <1>2, ReturnedExists, Zenon DEF Interim, Known
  <2>2. Source(job) /\ world.mode = "sequential"
    BY DEF Interim, JobOk
  <2>3. /\ <<lb>> \in Seq(Blocks) /\ 1 \in 1..Len(<<lb>>)
        /\ \A i \in 1..Len(<<lb>>) : Exists(<<lb>>[i])
    BY <2>1 DEF Known
  <2>4. JobOk([job EXCEPT !.pc = "verify", !.cache = <<lb>>, !.depth = 1])
    BY <2>2, <2>3, VerifyOk, Zenon
  <2> QED
    BY <1>2, <2>4 DEF Interim
<1> QED
  BY <1>1, <1>2

LEMMA ReplaceOk ==
  ASSUME NEW lb, Replace(lb), JobOk(job)
  PROVE  JobOk(job')
<1>1. Source(job) /\ IsJob(job)
  BY DEF Replace, JobOk, Source
<1>2. \/ job' = Idle
      \/ job.trusted = NoBlock /\ job' = [job EXCEPT !.pc = "back"]
      \/ world.mode = "sequential" /\ job' = Sequential(job)
      \/ job.trusted # NoBlock /\ job' = Begin(job.trusted, job.target)
  BY DEF Replace
<1>3. ASSUME job.trusted = NoBlock, NEW k, k = [job EXCEPT !.pc = "back"]
      PROVE  JobOk(k)
  <2>1. /\ IsJob(k) /\ k.pc = "back" /\ k.target = job.target
        /\ k.trusted = job.trusted /\ k.verified = job.verified /\ k.sound = job.sound
    BY ONLY <1>1, <1>3 DEF IsJob
  <2> QED
    BY <1>1, <1>3, <2>1 DEF JobOk, Source
<1>4. ASSUME job.trusted # NoBlock
      PROVE  JobOk(Begin(job.trusted, job.target))
  BY <1>1, <1>4, BeginOk DEF Source
<1> QED
  BY <1>1, <1>2, <1>3, <1>4, SequentialOk, IdleOk

LEMMA BackwardsOk ==
  ASSUME NEW lb, Backwards(lb), JobOk(job)
  PROVE  JobOk(job')
<1>1. Source(job) /\ IsJob(job) /\ job.pc = "back" /\ ~job.sound
  BY DEF Backwards, JobOk, Source
<1>2. \/ job' = Idle
      \/ job' = [job EXCEPT !.verified = lb]
      \/ job' = [job EXCEPT !.pc = "replace"]
  BY DEF Backwards
<1>3. ASSUME NEW k, k = [job EXCEPT !.verified = lb] \/ k = [job EXCEPT !.pc = "replace"]
      PROVE  JobOk(k)
  <2>1. /\ IsJob(k) /\ k.pc \in {"back", "replace"} /\ k.target = job.target
        /\ k.trusted = job.trusted /\ k.sound = job.sound
    BY ONLY <1>1, <1>3 DEF IsJob
  <2> QED
    BY <1>1, <2>1 DEF JobOk, Source
<1> QED
  BY <1>2, <1>3, IdleOk

LEMMA WitnessesOk ==
  ASSUME JobOk(job), job.pc = "compare",
         \/ \E sent : AskWitnesses(sent)
         \/ \E i : ReadReport(i)
  PROVE  JobOk(job')
<1>1. Source(job) /\ IsJob(job) /\ (job.sound => job.target \in Chain)
  BY DEF JobOk, Source
<1>2. ASSUME NEW k, IsJob(k), k.pc = "compare", k.target = job.target, k.trusted = job.trusted,
             k.verified = job.verified, k.sound = job.sound
      PROVE  JobOk(k)
  BY <1>1, <1>2 DEF JobOk, Source
<1>3. ASSUME NEW e, NEW k, k = [job EXCEPT !.read = 0, !.errc = e]
      PROVE  JobOk(k)
  <2>1. IsJob(k) /\ k.pc = job.pc /\ k.target = job.target /\ k.trusted = job.trusted
        /\ k.verified = job.verified /\ k.sound = job.sound
    BY ONLY <1>1, <1>3, Zenon DEF IsJob
  <2> QED
    BY <1>2, <2>1
<1>4. ASSUME NEW r, NEW e, NEW j, j = [job EXCEPT !.read = r, !.errc = e], NEW S, NEW k,
             \/ k = j
             \/ k = [j EXCEPT !.matched = TRUE]
             \/ k = [j EXCEPT !.remove = S]
      PROVE  JobOk(k)
  <2>1. IsJob(j) /\ j.pc = job.pc /\ j.target = job.target /\ j.trusted = job.trusted
        /\ j.verified = job.verified /\ j.sound = job.sound
    BY ONLY <1>1, <1>4, Zenon DEF IsJob
  <2>2. IsJob(k) /\ k.pc = j.pc /\ k.target = j.target /\ k.trusted = j.trusted
        /\ k.verified = j.verified /\ k.sound = j.sound
    <3>1. ASSUME k = [j EXCEPT !.matched = TRUE] \/ k = [j EXCEPT !.remove = S]
          PROVE  /\ IsJob(k) /\ k.pc = j.pc /\ k.target = j.target /\ k.trusted = j.trusted
                 /\ k.verified = j.verified /\ k.sound = j.sound
      BY ONLY <2>1, <3>1 DEF IsJob
    <3> QED
      BY ONLY <1>4, <2>1, <3>1, Zenon
  <2> QED
    BY <1>2, <2>1, <2>2
<1>5. ASSUME NEW sent, AskWitnesses(sent)
      PROVE  JobOk(job')
  <2>1. job' = Idle \/ \E e : job' = [job EXCEPT !.read = 0, !.errc = e]
    BY <1>5, Zenon DEF AskWitnesses
  <2> QED
    BY <1>3, <2>1, IdleOk, Zenon
<1>6. ASSUME NEW i, ReadReport(i)
      PROVE  JobOk(job')
  <2> DEFINE r == job.read + 1
             e == [job.errc EXCEPT ![i] = Tail(@)]
             j == [job EXCEPT !.read = r, !.errc = e]
  <2>1. [job EXCEPT !.read = @ + 1, !.errc[i] = Tail(@)] = j
    BY ONLY <1>1 DEF IsJob
  <2>2. \/ job' = Idle
        \/ job' = j
        \/ job' = [j EXCEPT !.matched = TRUE]
        \/ \E S : job' = [j EXCEPT !.remove = S]
    <3> HIDE DEF j
    <3> QED
      BY <1>6, <2>1, Zenon DEF ReadReport
  <2> QED
    BY <1>4, <2>2, IdleOk, Zenon
<1> QED
  BY <1>5, <1>6

(* What updateTrustedLightBlock stores is of the chain, or doubtful.         *)
LEMMA UpdateOk ==
  ASSUME NEW b \in Blocks, NEW sound \in BOOLEAN, sound => b \in Chain,
         updateTrustedLightBlock(b, sound), StoreOk, UNCHANGED now
  PROVE  StoreOk'
<1>1. store' \subseteq store \cup {b}
  BY DEF updateTrustedLightBlock, Prune
<1>2. \/ sound /\ doubtful' = doubtful
      \/ ~sound /\ doubtful' = doubtful \cup {b}
  BY DEF updateTrustedLightBlock
<1>3. latest' \in {b, latest}
  BY DEF updateTrustedLightBlock
<1> QED
  BY <1>1, <1>2, <1>3 DEF StoreOk

(* Steps of a call that store nothing.                                       *)
LEMMA CallOk ==
  ASSUME StoreOk, JobOk(job'), UNCHANGED <<store, latest, doubtful, now, world>>
  PROVE  StoreOk' /\ JobOk(job)'
<1>1. StoreOk'
  BY DEF StoreOk
<1>2. \A b : Exists(b) <=> Exists(b)'
  BY DEF Exists
<1>3. \A j : Source(j) <=> Source(j)'
  BY <1>2 DEF Source, Known
<1>4. \A j : Fetched(j) <=> Fetched(j)'
  BY <1>2 DEF Fetched
<1>5. JobOk(job)'
  BY <1>3, <1>4 DEF JobOk
<1> QED
  BY <1>1, <1>5

(* The invariant is inductive: one step per action.                          *)
LEMMA Inductive ==
  ASSUME IInv, [Next]_vars
  PROVE  IInv'
<1>0. UNCHANGED world
  BY Zenon DEF Next, Step, vars, VerifyLightBlockAtHeight, Target, Interim, Replace, Backwards,
         VerifyNext, Pivot, BackwardsEnds, AskWitnesses, ReadReport, Compared, Restart, Tick
<1> SUFFICES ASSUME world.forks = {}
             PROVE  StoreOk' /\ JobOk(job)'
  BY <1>0 DEF IInv
<1>1. StoreOk /\ JobOk(job)
  BY DEF IInv
<1>2. ASSUME NEW h, VerifyLightBlockAtHeight(h)
      PROVE  StoreOk' /\ JobOk(job)'
  <2>1. ASSUME NEW k, k = [Idle EXCEPT !.pc = "target", !.want = h]
        PROVE  JobOk(k)
    <3>1. k.pc = "target" /\ k.want = h
      BY ONLY <2>1 DEF Idle
    <3> QED
      BY <2>1, <3>1 DEF JobOk
  <2> QED
    BY <1>1, <1>2, <2>1, CallOk DEF VerifyLightBlockAtHeight
<1>3. ASSUME NEW lb, Target(lb) \/ Interim(lb) \/ Replace(lb) \/ Backwards(lb)
      PROVE  StoreOk' /\ JobOk(job)'
  <2>1. JobOk(job')
    BY <1>1, <1>3, TargetOk, InterimOk, ReplaceOk, BackwardsOk
  <2>2. UNCHANGED <<store, latest, doubtful, now, world>>
    BY <1>3, Zenon DEF Target, Interim, Replace, Backwards
  <2> QED
    BY <1>1, <2>1, <2>2, CallOk
<1>4. CASE VerifyNext
  <2>1. JobOk(job')
    BY <1>1, <1>4, VerifyNextOk DEF StoreOk
  <2>2. UNCHANGED <<store, latest, doubtful, now, world>>
    BY <1>4, Zenon DEF VerifyNext
  <2> QED
    BY <1>1, <2>1, <2>2, CallOk, Zenon
<1>5. ASSUME NEW a \in Blocks \cup {Benign, Malicious}, Pivot(a)
      PROVE  StoreOk' /\ JobOk(job)'
  <2>1. JobOk(job')
    BY <1>1, <1>5, PivotOk
  <2>2. UNCHANGED <<store, latest, doubtful, now, world>>
    BY <1>5, Zenon DEF Pivot
  <2> QED
    BY <1>1, <2>1, <2>2, CallOk, Zenon
<1>6. CASE BackwardsEnds
  <2>1. job.target \in Blocks
    BY <1>1, <1>6 DEF BackwardsEnds, JobOk, Source, Known
  <2>2. StoreOk'
    BY <1>1, <1>6, <2>1, UpdateOk, Zenon DEF BackwardsEnds
  <2> QED
    BY <1>6, <2>2, IdleOk DEF BackwardsEnds
<1>7. ASSUME job.pc = "compare",
             (\E sent : AskWitnesses(sent)) \/ (\E i : ReadReport(i))
      PROVE  StoreOk' /\ JobOk(job)'
  <2>1. JobOk(job')
    BY <1>1, <1>7, WitnessesOk
  <2>2. UNCHANGED <<store, latest, doubtful, now, world>>
    BY <1>7, Zenon DEF AskWitnesses, ReadReport
  <2> QED
    BY <1>1, <2>1, <2>2, CallOk
<1>8. CASE Compared
  <2>1. /\ job.target \in Blocks /\ job.sound \in BOOLEAN
        /\ job.sound => job.target \in Chain
    BY <1>1, <1>8 DEF Compared, JobOk, Source, Known
  <2>5. UNCHANGED now
    BY <1>8 DEF Compared
  <2>2. ASSUME updateTrustedLightBlock(job.target, job.sound)
        PROVE  StoreOk'
    BY <1>1, <2>1, <2>2, <2>5, UpdateOk
  <2>3. ASSUME UNCHANGED <<store, latest, doubtful>>
        PROVE  StoreOk'
    BY <1>1, <2>3, <2>5 DEF StoreOk
  <2>4. StoreOk'
    <3>1. \/ updateTrustedLightBlock(job.target, job.sound)
          \/ UNCHANGED <<store, latest, doubtful>>
      BY <1>8, Zenon DEF Compared
    <3> QED
      BY <2>2, <2>3, <3>1, Zenon
  <2> QED
    BY <1>8, <2>4, IdleOk DEF Compared
<1>9. CASE Restart
  <2>1. latest' \in store /\ UNCHANGED <<store, doubtful, now, job, world>> /\ job.pc = "idle"
    BY <1>9 DEF Restart
  <2>2. StoreOk'
    BY <1>1, <2>1 DEF StoreOk
  <2>3. JobOk(job)'
    BY <1>1, <2>1 DEF JobOk
  <2> QED
    BY <2>2, <2>3
<1>10. CASE Tick
  <2>1. now' \in Times /\ UNCHANGED <<store, latest, doubtful, job, world>> /\ job.pc = "idle"
    BY <1>10 DEF Tick
  <2>2. StoreOk'
    BY <1>1, <2>1 DEF StoreOk
  <2>3. JobOk(job)'
    BY <1>1, <2>1 DEF JobOk
  <2> QED
    BY <2>2, <2>3
<1>11. CASE UNCHANGED vars
  BY <1>1, <1>11, CallOk DEF vars
<1>12. ASSUME NEW i, ReadReport(i)
       PROVE  job.pc = "compare"
  BY <1>12 DEF ReadReport
<1> QED
  BY <1>2, <1>3, <1>4, <1>5, <1>6, <1>7, <1>8, <1>9, <1>10, <1>11, <1>12 DEF Next, Step

(* Where no fork exists, whatever the primary and the witnesses answer, what *)
(* the client stores after a forward verification is of the chain            *)
(* (verifySequential, verifySkipping, updateTrustedLightBlock): the property *)
(* StoredIsCanonical for any chain, validators and bounds.                   *)
THEOREM StoresTheChain == Spec => [](world.forks = {} => StoredIsCanonical)
<1>1. Init => IInv
  <2> SUFFICES ASSUME Init PROVE StoreOk /\ JobOk(job)
    BY DEF IInv
  <2>1. StoreOk
    BY LightClientAssumption DEF Init, StoreOk, Blocks
  <2> QED
    BY <2>1, IdleOk DEF Init
<1>2. IInv /\ [Next]_vars => IInv'
  BY Inductive
<1>3. IInv => (world.forks = {} => StoredIsCanonical)
  BY DEF IInv, StoreOk, StoredIsCanonical
<1> QED
  BY <1>1, <1>2, <1>3, PTL DEF Spec
=============================================================================
