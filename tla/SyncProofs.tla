----------------------------- MODULE SyncProofs -----------------------------
(***************************************************************************)
(* The rendezvous of iris_pipe_t loses no wakeup, for any number of        *)
(* producers and consumers; the meetings of iris_barrier_t do not overlap, *)
(* for any number of coroutines, callers and releasers.                    *)
(***************************************************************************)
EXTENDS Pipe, Barrier, FiniteSetTheorems, SequenceTheorems, TLAPS

-----------------------------------------------------------------------------
(* iris_pipe_t                                                               *)

\* Where an actor holds handle_lock: between its failed retry and its count.
Locking(a) == IF a \in Producers THEN pipePc[a] = "starve" ELSE pipePc[a] \in {"push", "count"}

(***************************************************************************)
(* NoLostRendezvous is not inductive.  What keeps it is that a counter is  *)
(* raised under handle_lock only, by an actor that found the other counter *)
(* at zero under the same lock: that counter cannot have been raised since *)
(* then.                                                                   *)
(***************************************************************************)
RendezvousInv ==
    /\ PipeTypeOK
    /\ NoLostRendezvous
    /\ \A a \in PipeActors : Locking(a) => handleLock = a
    /\ \A c \in Consumers : Locking(c) => prepared = 0
    /\ \A p \in Producers : Locking(p) => waiting = 0

LEMMA RendezvousInit == PipeInit => RendezvousInv
  BY PipeAssumption DEF PipeInit, RendezvousInv, PipeTypeOK, NoLostRendezvous, Locking, PipeActors, PipePCs

\* One step of a coroutine that awaits.
LEMMA ConsumerKeeps == RendezvousInv /\ (\E c \in Consumers : ConsumerStep(c)) => RendezvousInv'
<1> SUFFICES ASSUME RendezvousInv, NEW c \in Consumers, ConsumerStep(c)
             PROVE  RendezvousInv'
  OBVIOUS
<1> c \in PipeActors /\ c \notin Producers
  BY PipeAssumption DEF PipeActors
<1> USE DEF RendezvousInv, PipeTypeOK, NoLostRendezvous, Locking, PipeActors, PipePCs, PipeGoto
<1>1. CASE AwaitSuspend(c)  BY <1>1, PipeAssumption DEF AwaitSuspend
<1>2. CASE AwaitFast(c)     BY <1>2, PipeAssumption DEF AwaitFast
<1>3. CASE AwaitRetry(c)    BY <1>3, PipeAssumption DEF AwaitRetry
<1>4. CASE AwaitPush(c)
  <2>1. handles' \in Seq(Consumers)
    BY <1>4 DEF AwaitPush
  <2>2. QED
    BY <1>4, <2>1, PipeAssumption DEF AwaitPush
<1>5. CASE AwaitCount(c)    BY <1>5, PipeAssumption DEF AwaitCount
<1>6. CASE AwaitResume(c)   BY <1>6, PipeAssumption DEF AwaitResume
<1>7. QED
  BY <1>1, <1>2, <1>3, <1>4, <1>5, <1>6 DEF ConsumerStep

\* One step of a producer.
LEMMA ProducerKeeps == RendezvousInv /\ (\E p \in Producers : ProducerStep(p)) => RendezvousInv'
<1> SUFFICES ASSUME RendezvousInv, NEW p \in Producers, ProducerStep(p)
             PROVE  RendezvousInv'
  OBVIOUS
<1> p \in PipeActors /\ p \notin Consumers
  BY PipeAssumption DEF PipeActors
<1>a. ASSUME handles # <<>> PROVE Head(handles) \in Consumers /\ Tail(handles) \in Seq(Consumers)
  BY <1>a DEF RendezvousInv, PipeTypeOK
<1> USE DEF RendezvousInv, PipeTypeOK, NoLostRendezvous, Locking, PipeActors, PipePCs, PipeGoto
<1>1. CASE Emplace(p)       BY <1>1, PipeAssumption DEF Emplace
<1>2. CASE EmplaceFast(p)   BY <1>2, PipeAssumption DEF EmplaceFast
<1>b. ASSUME handleLock = "free" PROVE \A a \in PipeActors : ~Locking(a)
  BY <1>b, PipeAssumption
<1>3. CASE EmplaceTake(p)   BY <1>3, <1>a, <1>b, PipeAssumption DEF EmplaceTake
<1>4. CASE EmplaceRetry(p)
  <2>1. CASE waiting > 0
    <3>1. PICK c \in Consumers :
            /\ pipePc' = [pipePc EXCEPT ![p] = "idle", ![c] = "ready"]
            /\ handles' \in Seq(Consumers)
            /\ waiting' = waiting - 1 /\ UNCHANGED <<prepared, elements, handleLock, left>>
      BY <1>4, <2>1, <1>a DEF EmplaceRetry
    <3>2. \A a \in PipeActors : ~Locking(a)
      BY <1>4, <1>b DEF EmplaceRetry
    <3>3. \A a \in PipeActors : ~Locking(a)'
      BY <3>1, <3>2, PipeAssumption
    <3>4. pipePc' \in [PipeActors -> PipePCs]
      BY <3>1
    <3>5. waiting' \in Nat /\ prepared' = 0
      BY <2>1, <3>1
    <3>6. QED
      BY <3>1, <3>3, <3>4, <3>5
  <2>2. CASE ~(waiting > 0)
    <3>1. waiting = 0 /\ handleLock' = p /\ pipePc' = [pipePc EXCEPT ![p] = "starve"]
          /\ UNCHANGED <<prepared, waiting, elements, handles, left>>
      BY <1>4, <2>2 DEF EmplaceRetry
    <3>2. \A a \in PipeActors : a # p => ~Locking(a)'
      BY <1>4, <1>b, <3>1 DEF EmplaceRetry
    <3>3. pipePc' \in [PipeActors -> PipePCs]
      BY <3>1
    <3>4. QED
      BY <3>1, <3>2, <3>3
  <2>3. QED                 BY <2>1, <2>2
<1>5. CASE EmplaceStarve(p) BY <1>5, PipeAssumption DEF EmplaceStarve
<1>6. QED
  BY <1>1, <1>2, <1>3, <1>4, <1>5 DEF ProducerStep

LEMMA RendezvousStep == RendezvousInv /\ [PipeNext]_pipeVars => RendezvousInv'
<1>1. RendezvousInv /\ UNCHANGED pipeVars => RendezvousInv'
  BY DEF RendezvousInv, PipeTypeOK, NoLostRendezvous, Locking, pipeVars
<1>2. QED
  BY <1>1, ConsumerKeeps, ProducerKeeps DEF PipeNext

(***************************************************************************)
(* However many threads emplace() and co_await on a pipe with a mutex, no  *)
(* counted element and counted waiter ever stand side by side: the retry   *)
(* under handle_lock closes the window, as await_suspend() says.           *)
(***************************************************************************)
THEOREM RendezvousKept == PipeSpec => []NoLostRendezvous
<1>1. RendezvousInv => NoLostRendezvous
  BY DEF RendezvousInv
<1>2. QED
  BY <1>1, RendezvousInit, RendezvousStep, PTL DEF PipeSpec

-----------------------------------------------------------------------------
(* iris_barrier_t                                                            *)

\* Labels of complete(): before, and after commit_count was taken; of the latter
\* those before the shrunk max_await_count is stored, and before the callback.
AfterTake == {"slots", "shrink", "store", "callback", "fill", "wake"}
Completing == {"complete"} \cup AfterTake
BeforeStore == {"slots", "shrink", "store"}
BeforeCall == BeforeStore \cup {"callback"}
CommittedPCs == {"trigger", "suspended", "called", "gone", "complete"}
BarrierPCs == {"out", "slot", "commit"} \cup CommittedPCs \cup AfterTake

\* Who takes part in the meeting after k were completed, and who has committed.
Attendants == Parties \cup Callers
Members(k) == IF k = 0 THEN BarrierActors ELSE Attendants
Came(k) == {b \in Members(k) : /\ barPc[b] \in CommittedPCs
                               /\ b \in Attendants => arrived[b] = k + 1}
Some(S) == \E a \in BarrierActors : barPc[a] \in S

BarrierTypeOK ==
    /\ maxAwait \in Nat /\ slotCount \in Nat /\ commitCount \in Nat /\ releaseCount \in Nat
    /\ barHandles \in [0 .. BarrierSize - 1 -> Parties \cup {Nobody}]
    /\ snapshot \in Seq(Parties)
    /\ barPc \in [BarrierActors -> BarrierPCs]
    /\ index \in [BarrierActors -> Nat] /\ prev \in [BarrierActors -> Nat]
    /\ last \in [BarrierActors -> Nat \X Int] /\ cursor \in [BarrierActors -> Nat \ {0}]
    /\ arrived \in [BarrierActors -> Nat] /\ passed \in [BarrierActors -> Nat]

\* Where each one is, k meetings having been completed.
Whereabouts(k) ==
    /\ \A b \in Attendants :
         /\ passed[b] <= k /\ arrived[b] \in {k, k + 1}
         /\ barPc[b] \in {"slot", "commit", "complete"} => arrived[b] = k + 1
         /\ barPc[b] \in {"out"} \cup AfterTake => arrived[b] = k
         /\ barPc[b] # "gone"
         /\ barPc[b] = "suspended" => b \in Parties
         /\ barPc[b] = "called" => b \in Callers
         /\ b \in Callers /\ barPc[b] = "trigger" => passed[b] < arrived[b]
         /\ b \in Callers /\ barPc[b] \in {"fill", "wake"} => passed[b] = arrived[b]
    /\ \A r \in Releasers : /\ barPc[r] \notin {"slot", "suspended", "called"}
                            /\ k > 0 => barPc[r] \notin {"out", "commit"}

\* Whoever releases is done before anyone arrives.
ReleasedFirst ==
    \A r \in Releasers : barPc[r] # "gone" => \A b \in Attendants : barPc[b] = "out"

\* commit_count, max_await_count and release_await_count.
Counters(k) ==
    /\ commitCount = Cardinality(Came(k))
    /\ maxAwait = IF Some(BeforeStore) THEN Cardinality(Members(k - 1))
                                       ELSE Cardinality(Members(k))
    /\ k = 0 => releaseCount = Cardinality({r \in Releasers : barPc[r] # "out"})
    /\ k > 0 => releaseCount = IF k = 1 /\ Some({"slots", "shrink"})
                                 THEN Cardinality(Releasers) ELSE 0
    /\ \A a \in BarrierActors :
         /\ barPc[a] = "store" => last[a][2] = Cardinality(Attendants)
         /\ barPc[a] \in {"store", "callback", "fill"} => last[a][1] <= BarrierSize

\* Only the last one to commit finds max_await_count.
Triggers(k) ==
    \A b \in BarrierActors : barPc[b] = "trigger" =>
        IF b \in Came(k)
          THEN /\ prev[b] < commitCount
               /\ \A c \in BarrierActors :
                    c # b /\ c \in Came(k) /\ barPc[c] \in {"trigger", "complete"}
                       => prev[c] # prev[b]
          ELSE Some(BeforeStore) /\ prev[b] + 1 # maxAwait

\* One at a time completes, when all have come; nobody leaves before it lets go.
Completion(k) ==
    /\ \A a, b \in BarrierActors : barPc[a] \in Completing /\ barPc[b] \in Completing => a = b
    /\ \A a \in BarrierActors :
         /\ barPc[a] = "complete" => prev[a] + 1 = maxAwait /\ Came(k) = Members(k)
         /\ barPc[a] \in AfterTake => k > 0
         /\ barPc[a] \in BeforeCall =>
              \A b \in Attendants : arrived[b] = k /\ barPc[b] # "out"
         /\ barPc[a] = "fill" => \A p \in Parties : arrived[p] = k /\ barPc[p] # "out"

\* A handle is that of a coroutine that has not come out.
Handles ==
    \A i \in 0 .. BarrierSize - 1 : \A p \in Parties : barHandles[i] = p =>
        index[p] = i /\ passed[p] < arrived[p] /\ barPc[p] \notin {"out", "slot"}

\* What is still to be dispatched: each once, and suspended unless it completes.
First(a) == IF barPc[a] = "fill" THEN 1 ELSE cursor[a]
Snapshot(k) ==
    \A a \in BarrierActors : barPc[a] \in {"fill", "wake"} =>
        \A j \in First(a) .. Len(snapshot) :
            /\ passed[snapshot[j]] < k /\ arrived[snapshot[j]] = k
            /\ barPc[snapshot[j]] = "suspended" \/ snapshot[j] = a
            /\ \A i \in 0 .. BarrierSize - 1 : barHandles[i] # snapshot[j]
            /\ \A i \in First(a) .. Len(snapshot) : snapshot[i] = snapshot[j] => i = j

RoundInv(k) ==
    /\ Whereabouts(k) /\ Counters(k) /\ Triggers(k) /\ Completion(k) /\ Handles /\ Snapshot(k)
    /\ ReleasedFirst
BarrierInv == BarrierTypeOK /\ \E k \in Nat : RoundInv(k)

LEMMA BarrierSets ==
  /\ IsFiniteSet(BarrierActors) /\ IsFiniteSet(Attendants) /\ IsFiniteSet(Releasers)
  /\ BarrierSize \in Nat /\ Cardinality(Attendants) \in Nat /\ Cardinality(Releasers) \in Nat
  /\ BarrierSize = Cardinality(Attendants) + Cardinality(Releasers)
  /\ BarrierActors = Attendants \cup Releasers /\ Attendants \cap Releasers = {}
<1>1. BarrierActors = Attendants \cup Releasers /\ Attendants \cap Releasers = {}
  BY BarrierAssumption DEF BarrierActors, Attendants
<1>2. IsFiniteSet(BarrierActors)
  BY BarrierAssumption DEF BarrierActors
<1>3. IsFiniteSet(Attendants) /\ IsFiniteSet(Releasers)
  BY <1>1, <1>2, FS_Subset
<1>4. Cardinality(Attendants) \in Nat /\ Cardinality(Releasers) \in Nat
  BY <1>3, FS_CardinalityType
<1>5. Cardinality(Attendants \cap Releasers) = 0
  BY <1>1, FS_EmptySet
<1>6. BarrierSize = Cardinality(Attendants) + Cardinality(Releasers)
  <2>1. Cardinality(Attendants \cup Releasers) =
          Cardinality(Attendants) + Cardinality(Releasers) - Cardinality(Attendants \cap Releasers)
    BY <1>3, FS_Union
  <2> QED
    BY <1>1, <1>4, <1>5, <2>1 DEF BarrierSize
<1> QED
  BY <1>1, <1>2, <1>3, <1>4, <1>6

\* Those who have come are members, and finitely many.
LEMMA MemberSets ==
  ASSUME NEW k
  PROVE  /\ IsFiniteSet(Members(k)) /\ IsFiniteSet(Came(k))
         /\ Cardinality(Members(k)) \in Nat /\ Cardinality(Came(k)) \in Nat
         /\ Cardinality(Came(k)) <= Cardinality(Members(k))
         /\ Cardinality(Came(k)) = Cardinality(Members(k)) => Came(k) = Members(k)
         /\ Came(k) \subseteq Members(k) /\ Members(k) \subseteq BarrierActors
         /\ Attendants \subseteq Members(k)
<1>1. Members(k) \subseteq BarrierActors /\ Attendants \subseteq Members(k)
  BY BarrierSets DEF Members
<1>2. IsFiniteSet(Members(k))
  BY <1>1, BarrierSets, FS_Subset
<1>3. Came(k) \subseteq Members(k)
  BY DEF Came
<1>4. /\ IsFiniteSet(Came(k)) /\ Cardinality(Came(k)) <= Cardinality(Members(k))
      /\ Cardinality(Came(k)) = Cardinality(Members(k)) => Came(k) = Members(k)
  BY <1>2, <1>3, FS_Subset
<1> QED
  BY <1>1, <1>2, <1>3, <1>4, FS_CardinalityType

LEMMA BarrierStarts == BarrierInit => BarrierInv
<1> SUFFICES ASSUME BarrierInit PROVE BarrierInv
  OBVIOUS
<1> USE DEF BarrierInit
<1>1. BarrierTypeOK
  <2>1. snapshot \in Seq(Parties)
    OBVIOUS
  <2>2. maxAwait \in Nat
    BY BarrierSets
  <2>3. last \in [BarrierActors -> Nat \X Int]
    OBVIOUS
  <2> QED
    BY <2>1, <2>2, <2>3 DEF BarrierTypeOK, BarrierPCs
<1>2. Whereabouts(0)
  BY BarrierSets DEF Whereabouts, AfterTake
<1>3. Counters(0)
  <2>1. Came(0) = {} /\ {r \in Releasers : barPc[r] # "out"} = {}
    BY BarrierSets DEF Came, Members, CommittedPCs
  <2>2. ~Some(BeforeStore)
    BY DEF Some, BeforeStore
  <2>3. maxAwait = Cardinality(Members(0))
    BY DEF Members, BarrierSize
  <2>4. \A a \in BarrierActors : barPc[a] = "out"
    OBVIOUS
  <2>5. commitCount = Cardinality(Came(0))
        /\ releaseCount = Cardinality({r \in Releasers : barPc[r] # "out"})
    BY <2>1, FS_EmptySet
  <2> QED
    BY <2>2, <2>3, <2>4, <2>5 DEF Counters
<1>4. Triggers(0) /\ Completion(0) /\ Handles /\ Snapshot(0) /\ ReleasedFirst
  BY BarrierAssumption, BarrierSets DEF Triggers, Completion, Handles, Snapshot, Completing,
    AfterTake, BeforeCall, BeforeStore, ReleasedFirst
<1> QED
  BY <1>1, <1>2, <1>3, <1>4 DEF BarrierInv, RoundInv

LEMMA HandlesFrame ==
  ASSUME Handles, UNCHANGED <<barHandles, index, passed, arrived>>,
         \A p \in Parties : barPc'[p] \in {"out", "slot"} => barPc[p] \in {"out", "slot"}
  PROVE  Handles'
  BY DEF Handles

LEMMA SnapshotFrame ==
  ASSUME NEW k, Snapshot(k), BarrierTypeOK, UNCHANGED <<snapshot, barHandles, passed, arrived>>,
         \A b \in BarrierActors :
            barPc'[b] \in {"fill", "wake"} => barPc'[b] = barPc[b] /\ cursor'[b] = cursor[b],
         \A p \in Parties : barPc[p] = "suspended" => barPc'[p] = "suspended"
  PROVE  Snapshot(k)'
<1> SUFFICES ASSUME NEW a \in BarrierActors, barPc'[a] \in {"fill", "wake"},
                    NEW j \in First(a)' .. Len(snapshot)'
             PROVE  /\ passed'[snapshot'[j]] < k /\ arrived'[snapshot'[j]] = k
                    /\ barPc'[snapshot'[j]] = "suspended" \/ snapshot'[j] = a
                    /\ \A i \in 0 .. BarrierSize - 1 : barHandles'[i] # snapshot'[j]
                    /\ \A i \in First(a)' .. Len(snapshot)' : snapshot'[i] = snapshot'[j] => i = j
  BY DEF Snapshot
<1>1. barPc[a] \in {"fill", "wake"} /\ First(a)' = First(a)
  BY DEF First
<1>2. j \in First(a) .. Len(snapshot) /\ j \in 1 .. Len(snapshot)
  BY <1>1 DEF First, BarrierTypeOK
<1>3. snapshot[j] \in Parties
  BY <1>2 DEF BarrierTypeOK
<1> QED
  BY <1>1, <1>2, <1>3 DEF Snapshot

LEMMA BarrierTyped ==
  ASSUME BarrierTypeOK, NEW k \in Nat, RoundInv(k), NEW a \in BarrierActors, BarrierStep(a)
  PROVE  BarrierTypeOK'
<1>a. /\ maxAwait \in Nat /\ slotCount \in Nat /\ commitCount \in Nat /\ releaseCount \in Nat
      /\ barHandles \in [0 .. BarrierSize - 1 -> Parties \cup {Nobody}]
      /\ snapshot \in Seq(Parties)
      /\ barPc \in [BarrierActors -> BarrierPCs]
      /\ index \in [BarrierActors -> Nat] /\ prev \in [BarrierActors -> Nat]
      /\ last \in [BarrierActors -> Nat \X Int] /\ cursor \in [BarrierActors -> Nat \ {0}]
      /\ arrived \in [BarrierActors -> Nat] /\ passed \in [BarrierActors -> Nat]
  BY DEF BarrierTypeOK
<1>b. \A l \in BarrierPCs : BSet(barPc, a, l) \in [BarrierActors -> BarrierPCs]
  BY <1>a DEF BSet
<1>c. \A l \in {"out", "slot", "commit", "trigger", "complete", "slots", "shrink", "store",
                "callback", "fill", "wake", "suspended", "called", "gone"} : l \in BarrierPCs
  BY DEF BarrierPCs, CommittedPCs, AfterTake
<1>e. cursor[a] \in Nat /\ cursor[a] >= 1 /\ cursor[a] + 1 \in Nat \ {0} /\ 1 \in Nat \ {0}
  BY <1>a
<1>f. last[a][1] \in Nat
  BY <1>a
<1>d. Returned(a) \in BarrierPCs
  BY <1>c DEF Returned
<1>1. CASE Arrive(a)
  <2>1. barPc' \in [BarrierActors -> BarrierPCs]
    BY <1>1, <1>b, <1>c DEF Arrive, BarGoto
  <2>2. index' \in [BarrierActors -> Nat] /\ slotCount' \in Nat
    BY <1>1, <1>a DEF Arrive, BSet
  <2>3. arrived' \in [BarrierActors -> Nat]
    BY <1>1, <1>a DEF Arrive, BSet
  <2> QED
    BY <1>1, <1>a, <2>1, <2>2, <2>3 DEF Arrive, BarrierTypeOK
<1>2. CASE WriteHandle(a)
  <2>1. barPc' \in [BarrierActors -> BarrierPCs]
    BY <1>2, <1>b, <1>c DEF WriteHandle, BarGoto
  <2>2. barHandles' \in [0 .. BarrierSize - 1 -> Parties \cup {Nobody}]
    BY <1>2, <1>a DEF WriteHandle, BSet
  <2> QED
    BY <1>2, <1>a, <2>1, <2>2 DEF WriteHandle, counters, locals, BarrierTypeOK
<1>3. CASE Commit(a)
  <2>1. barPc' \in [BarrierActors -> BarrierPCs]
    BY <1>3, <1>b, <1>c DEF Commit, BarGoto
  <2>2. prev' \in [BarrierActors -> Nat] /\ commitCount' \in Nat
    BY <1>3, <1>a DEF Commit, BSet
  <2> QED
    BY <1>3, <1>a, <2>1, <2>2 DEF Commit, BarrierTypeOK
<1>4. CASE Trigger(a)
  <2>1. barPc' \in [BarrierActors -> BarrierPCs]
    BY <1>4, <1>b, <1>c, <1>d DEF Trigger, BarGoto
  <2> QED
    BY <1>4, <1>a, <2>1 DEF Trigger, counters, locals, BarrierTypeOK
<1>5. CASE Release(a)
  <2>1. barPc' \in [BarrierActors -> BarrierPCs]
    BY <1>5, <1>b, <1>c DEF Release, BarGoto
  <2> QED
    BY <1>5, <1>a, <2>1 DEF Release, locals, BarrierTypeOK
<1>6. CASE Complete(a)
  <2>1. barPc' \in [BarrierActors -> BarrierPCs]
    BY <1>6, <1>b, <1>c DEF Complete, BarGoto
  <2> QED
    BY <1>6, <1>a, <2>1 DEF Complete, locals, BarrierTypeOK
<1>7. CASE ResetSlots(a)
  <2>1. barPc' \in [BarrierActors -> BarrierPCs]
    BY <1>7, <1>b, <1>c DEF ResetSlots, BarGoto
  <2> QED
    BY <1>7, <1>a, <2>1 DEF ResetSlots, locals, BarrierTypeOK
<1>8. CASE Shrink(a)
  <2>1. barPc' \in [BarrierActors -> BarrierPCs]
    BY <1>8, <1>b, <1>c DEF Shrink, BarGoto
  <2>2. last' \in [BarrierActors -> Nat \X Int]
    <3>1. <<maxAwait, maxAwait - releaseCount>> \in Nat \X Int
      BY <1>a
    <3> QED
      BY <1>8, <1>a, <3>1 DEF Shrink, BSet
  <2> QED
    BY <1>8, <1>a, <2>1, <2>2 DEF Shrink, BarrierTypeOK
<1>9. CASE StoreMax(a)
  <2>1. barPc' \in [BarrierActors -> BarrierPCs]
    BY <1>9, <1>b, <1>c DEF StoreMax, BarGoto
  <2>2. maxAwait' \in Nat
    BY <1>9, BarrierSets DEF StoreMax, RoundInv, Counters
  <2> QED
    BY <1>9, <1>a, <2>1, <2>2 DEF StoreMax, locals, BarrierTypeOK
<1>10. CASE Callback(a)
  <2>1. barPc' \in [BarrierActors -> BarrierPCs]
    BY <1>10, <1>a, <1>c DEF Callback
  <2>2. passed' \in [BarrierActors -> Nat]
    BY <1>10, <1>a DEF Callback
  <2>3. snapshot' \in Seq(Parties)
    BY <1>10 DEF Callback
  <2>4. cursor' \in [BarrierActors -> Nat \ {0}]
    BY <1>10, <1>a DEF Callback, BSet
  <2> QED
    BY <1>10, <1>a, <2>1, <2>2, <2>3, <2>4 DEF Callback, counters, BarrierTypeOK
<1>11. CASE FillSnapshot(a)
  <2>1. cursor' \in [BarrierActors -> Nat \ {0}]
    <3>1. cursor' = BSet(cursor, a, cursor[a] + 1) \/ cursor' = BSet(cursor, a, 1)
      BY <1>11 DEF FillSnapshot
    <3> QED
      BY <1>a, <1>e, <3>1 DEF BSet
  <2>2. CASE cursor[a] <= last[a][1]
    <3>1. last[a][1] <= BarrierSize
      BY <1>11 DEF FillSnapshot, RoundInv, Counters
    <3>2. cursor[a] - 1 \in 0 .. BarrierSize - 1
      BY <1>e, <1>f, <2>2, <3>1, BarrierSets
    <3>3. barHandles[cursor[a] - 1] \in Parties \cup {Nobody}
      BY <1>a, <3>2
    <3>4. snapshot' \in Seq(Parties)
      <4>1. \/ snapshot' = Append(snapshot, barHandles[cursor[a] - 1])
               /\ barHandles[cursor[a] - 1] # Nobody
            \/ snapshot' = snapshot
        BY <1>11, <2>2 DEF FillSnapshot
      <4>2. snapshot \in Seq(Parties)
        BY <1>a
      <4>3. \A h \in Parties : Append(snapshot, h) \in Seq(Parties)
        BY <4>2
      <4> QED
        BY <3>3, <4>1, <4>2, <4>3
    <3>5. barHandles' \in [0 .. BarrierSize - 1 -> Parties \cup {Nobody}]
      BY <1>11, <1>a, <2>2, <3>2 DEF FillSnapshot, BSet
    <3> QED
      BY <1>11, <1>a, <2>1, <2>2, <3>4, <3>5 DEF FillSnapshot, counters, BarrierTypeOK
  <2>3. CASE ~(cursor[a] <= last[a][1])
    <3>1. barPc' \in [BarrierActors -> BarrierPCs]
      BY <1>11, <1>b, <1>c, <2>3 DEF FillSnapshot, BarGoto
    <3> QED
      BY <1>11, <1>a, <2>1, <2>3, <3>1 DEF FillSnapshot, counters, BarrierTypeOK
  <2> QED
    BY <2>2, <2>3
<1>12. CASE DispatchSnapshot(a)
  <2>1. CASE cursor[a] <= Len(snapshot)
    <3> DEFINE p == snapshot[cursor[a]]
    <3>1. p \in Parties /\ p \in BarrierActors
      BY <1>a, <2>1 DEF BarrierActors
    <3>2. /\ passed' = BSet(passed, p, passed[p] + 1)
          /\ barPc' = IF p = a THEN barPc ELSE BSet(barPc, p, "out")
          /\ cursor' = BSet(cursor, a, cursor[a] + 1)
          /\ UNCHANGED <<snapshot, counters, barHandles, index, prev, last, arrived>>
      BY <1>12, <2>1 DEF DispatchSnapshot
    <3> HIDE DEF p
    <3>3. passed' \in [BarrierActors -> Nat] /\ cursor' \in [BarrierActors -> Nat \ {0}]
      <4>1. passed[p] + 1 \in Nat
        BY <1>a, <3>1
      <4>2. passed' \in [BarrierActors -> Nat]
        BY <1>a, <3>1, <3>2, <4>1 DEF BSet
      <4>3. cursor' \in [BarrierActors -> Nat \ {0}]
        BY <1>a, <1>e, <3>2 DEF BSet
      <4> QED
        BY <4>2, <4>3
    <3>4. barPc' \in [BarrierActors -> BarrierPCs]
      BY <1>a, <1>c, <3>1, <3>2 DEF BSet
    <3> QED
      BY <1>a, <3>2, <3>3, <3>4 DEF counters, BarrierTypeOK
  <2>2. CASE ~(cursor[a] <= Len(snapshot))
    <3>1. barPc' \in [BarrierActors -> BarrierPCs]
      BY <1>12, <1>b, <1>c, <1>d, <2>2 DEF DispatchSnapshot, BarGoto
    <3>2. snapshot' \in Seq(Parties)
      BY <1>12, <2>2 DEF DispatchSnapshot
    <3> QED
      BY <1>12, <1>a, <2>2, <3>1, <3>2 DEF DispatchSnapshot, counters, BarrierTypeOK
  <2> QED
    BY <2>1, <2>2
<1> QED
  BY <1>1, <1>2, <1>3, <1>4, <1>5, <1>6, <1>7, <1>8, <1>9, <1>10, <1>11, <1>12 DEF BarrierStep

\* What a step that only moves a leaves alone.
LEMMA MovedOne ==
  ASSUME BarrierTypeOK, NEW a \in BarrierActors, NEW l, barPc' = BSet(barPc, a, l)
  PROVE  /\ barPc'[a] = l /\ \A b \in BarrierActors : b # a => barPc'[b] = barPc[b]
         /\ \A S : barPc[a] \notin S /\ l \notin S => (Some(S)' <=> Some(S))
         /\ \A S : l \in S => Some(S)'
<1>1. barPc'[a] = l /\ \A b \in BarrierActors : b # a => barPc'[b] = barPc[b]
  BY DEF BarrierTypeOK, BSet
<1> QED
  BY <1>1 DEF Some

LEMMA PendingParties ==
  ASSUME BarrierTypeOK
  PROVE  \A b \in BarrierActors : \A j \in First(b) .. Len(snapshot) : snapshot[j] \in Parties
<1>1. snapshot \in Seq(Parties) /\ Len(snapshot) \in Nat
  BY DEF BarrierTypeOK
<1> TAKE b \in BarrierActors
<1>2. First(b) \in Nat /\ First(b) >= 1
  BY DEF BarrierTypeOK, First
<1> QED
  BY <1>1, <1>2

LEMMA ArriveRound ==
  ASSUME Calm, BarrierTypeOK, NEW k \in Nat, RoundInv(k), NEW a \in BarrierActors, Arrive(a)
  PROVE  RoundInv(k)'
<1>a. /\ a \in Attendants /\ barPc[a] = "out" /\ arrived[a] = k /\ passed[a] <= k
      /\ a \notin Releasers
  BY BarrierSets DEF Arrive, RoundInv, Whereabouts, Attendants
<1>b. /\ barPc' = BSet(barPc, a, "slot")
      /\ arrived' = BSet(arrived, a, k + 1) /\ index' = BSet(index, a, slotCount)
      /\ UNCHANGED <<maxAwait, commitCount, releaseCount, barHandles, snapshot,
                     prev, last, cursor, passed>>
  BY <1>a DEF Arrive, BarGoto
<1>c. barPc'[a] = "slot" /\ \A b \in BarrierActors : b # a => barPc'[b] = barPc[b]
  BY <1>b, MovedOne
<1>d. arrived'[a] = k + 1 /\ \A b \in BarrierActors : b # a => arrived'[b] = arrived[b]
  BY <1>b DEF BarrierTypeOK, BSet
<1>e. \A b \in BarrierActors : b # a => index'[b] = index[b]
  BY <1>b DEF BarrierTypeOK, BSet
<1>f. /\ Some(BeforeStore)' <=> Some(BeforeStore)
      /\ Some({"slots", "shrink"})' <=> Some({"slots", "shrink"})
  BY <1>a, <1>c DEF Some, BeforeStore
<1>g. Attendants \subseteq BarrierActors /\ Releasers \subseteq BarrierActors
      /\ Parties \subseteq Attendants
  BY BarrierSets DEF Attendants
<1>h. Came(k)' = Came(k)
  <2>1. \A b \in Members(k) : b \in BarrierActors
    BY MemberSets
  <2> QED
    BY <1>a, <1>c, <1>d, <2>1 DEF Came, CommittedPCs
<1>1. Whereabouts(k)'
  BY <1>a, <1>b, <1>c, <1>d, <1>g DEF RoundInv, Whereabouts, AfterTake
<1>2. Counters(k)'
  <2>1. {r \in Releasers : barPc[r] # "out"}' = {r \in Releasers : barPc[r] # "out"}
    BY <1>a, <1>c, <1>g
  <2> QED
    BY <1>a, <1>b, <1>c, <1>f, <1>h, <2>1 DEF RoundInv, Counters
<1>3. Triggers(k)'
  BY <1>a, <1>b, <1>c, <1>f, <1>h DEF RoundInv, Triggers
<1>4. Completion(k)'
  <2>1. \A b \in BarrierActors : barPc[b] \in BeforeCall => FALSE
    BY <1>a DEF RoundInv, Completion
  <2>2. \A b \in BarrierActors : barPc[b] = "fill" => a \notin Parties
    BY <1>a DEF RoundInv, Completion
  <2>3. barPc[a] \notin Completing /\ barPc'[a] \notin Completing
    BY <1>a, <1>c DEF Completing, AfterTake
  <2>4. \A b \in BarrierActors : /\ barPc'[b] \notin BeforeCall
                                 /\ barPc'[b] = "complete" => prev'[b] + 1 = maxAwait'
                                                            /\ Came(k)' = Members(k)
                                 /\ barPc'[b] \in AfterTake => k > 0
    BY <1>a, <1>b, <1>c, <1>h, <2>1 DEF RoundInv, Completion, BeforeCall, BeforeStore, AfterTake
  <2>5. \A b \in BarrierActors : barPc'[b] = "fill" =>
           \A p \in Parties : arrived'[p] = k /\ barPc'[p] # "out"
    BY <1>a, <1>c, <1>d, <1>g, <2>2 DEF RoundInv, Completion
  <2>6. \A b, c \in BarrierActors : barPc'[b] \in Completing /\ barPc'[c] \in Completing => b = c
    BY <1>c, <2>3 DEF RoundInv, Completion
  <2> QED
    BY <2>4, <2>5, <2>6 DEF Completion
<1>5. Handles'
  BY <1>a, <1>b, <1>c, <1>d, <1>e, <1>g DEF RoundInv, Handles
<1>6. Snapshot(k)'
  <2>1. \A b \in BarrierActors : barPc[b] \in {"fill", "wake"} =>
           \A j \in First(b) .. Len(snapshot) : snapshot[j] # a
    BY <1>a DEF RoundInv, Snapshot
  <2>2. \A b \in BarrierActors : barPc'[b] \in {"fill", "wake"} =>
           barPc[b] \in {"fill", "wake"} /\ First(b)' = First(b)
    BY <1>a, <1>b, <1>c DEF First
  <2>3. \A b \in BarrierActors : \A j \in First(b) .. Len(snapshot) :
           snapshot[j] \in Parties
    BY PendingParties
  <2> QED
    BY <1>b, <1>c, <1>d, <1>g, <2>1, <2>2, <2>3 DEF RoundInv, Snapshot
<1>7. ReleasedFirst'
  <2>1. \A r \in Releasers : barPc[r] = "gone"
    BY DEF Arrive
  <2> QED
    BY <1>a, <1>c, <1>g, <2>1 DEF ReleasedFirst
<1> QED
  BY <1>1, <1>2, <1>3, <1>4, <1>5, <1>6, <1>7 DEF RoundInv

LEMMA ReleasedFrame ==
  ASSUME ReleasedFirst, BarrierTypeOK, NEW a \in BarrierActors, NEW l,
         barPc' = BSet(barPc, a, l), barPc[a] # "gone",
         a \in Attendants => barPc[a] # "out"
  PROVE  ReleasedFirst'
<1>1. barPc'[a] = l /\ \A b \in BarrierActors : b # a => barPc'[b] = barPc[b]
  BY MovedOne
<1> QED
  BY <1>1, BarrierSets DEF ReleasedFirst

LEMMA WriteHandleRound ==
  ASSUME BarrierTypeOK, NEW k \in Nat, RoundInv(k), NEW a \in BarrierActors, WriteHandle(a)
  PROVE  RoundInv(k)'
<1>a. a \in Attendants /\ a \notin Releasers /\ barPc[a] = "slot" /\ arrived[a] = k + 1
      /\ passed[a] <= k /\ index[a] \in 0 .. BarrierSize - 1
  <2>1. barPc[a] = "slot" /\ index[a] < BarrierSize /\ index[a] \in Nat
    BY DEF WriteHandle, BarrierTypeOK
  <2>2. a \in Attendants /\ a \notin Releasers
    BY <2>1, BarrierSets DEF RoundInv, Whereabouts
  <2> QED
    BY <2>1, <2>2, BarrierSets DEF RoundInv, Whereabouts
<1>b. /\ barPc' = BSet(barPc, a, "commit")
      /\ barHandles' = IF a \in Parties THEN BSet(barHandles, index[a], a) ELSE barHandles
      /\ UNCHANGED <<maxAwait, commitCount, releaseCount, snapshot, index, prev, last, cursor,
                     arrived, passed>>
  BY DEF WriteHandle, BarGoto, counters, locals
<1>c. barPc'[a] = "commit" /\ \A b \in BarrierActors : b # a => barPc'[b] = barPc[b]
  BY <1>b, MovedOne
<1>f. /\ Some(BeforeStore)' <=> Some(BeforeStore)
      /\ Some({"slots", "shrink"})' <=> Some({"slots", "shrink"})
  BY <1>a, <1>c DEF Some, BeforeStore
<1>g. Attendants \subseteq BarrierActors /\ Releasers \subseteq BarrierActors
      /\ Parties \subseteq Attendants
  BY BarrierSets DEF Attendants
<1>h. Came(k)' = Came(k)
  <2>1. \A b \in Members(k) : b \in BarrierActors
    BY MemberSets
  <2> QED
    BY <1>a, <1>b, <1>c, <2>1 DEF Came, CommittedPCs
<1>1. Whereabouts(k)'
  BY <1>a, <1>b, <1>c, <1>g DEF RoundInv, Whereabouts, AfterTake
<1>2. Counters(k)'
  <2>1. {r \in Releasers : barPc[r] # "out"}' = {r \in Releasers : barPc[r] # "out"}
    BY <1>a, <1>c, <1>g
  <2> QED
    BY <1>a, <1>b, <1>c, <1>f, <1>h, <2>1 DEF RoundInv, Counters
<1>3. Triggers(k)'
  BY <1>a, <1>b, <1>c, <1>f, <1>h DEF RoundInv, Triggers
<1>4. Completion(k)'
  <2>1. barPc[a] \notin Completing /\ barPc'[a] \notin Completing
    BY <1>a, <1>c DEF Completing, AfterTake
  <2>2. \A b, c \in BarrierActors : barPc'[b] \in Completing /\ barPc'[c] \in Completing => b = c
    BY <1>c, <2>1 DEF RoundInv, Completion
  <2> QED
    BY <1>a, <1>b, <1>c, <1>g, <1>h, <2>2 DEF RoundInv, Completion, BeforeCall, BeforeStore,
      AfterTake
<1>5. Handles'
  <2>1. \A i \in 0 .. BarrierSize - 1 : barHandles'[i] = barHandles[i]
           \/ (i = index[a] /\ barHandles'[i] = a)
    BY <1>a, <1>b DEF BSet, BarrierTypeOK
  <2>2. arrived[a] \in Nat /\ passed[a] \in Nat
    BY DEF BarrierTypeOK
  <2> QED
    BY <1>a, <1>b, <1>c, <1>g, <2>1, <2>2 DEF RoundInv, Handles
<1>6. Snapshot(k)'
  <2>1. \A b \in BarrierActors : barPc[b] \in {"fill", "wake"} =>
           \A j \in First(b) .. Len(snapshot) : snapshot[j] # a
    BY <1>a DEF RoundInv, Snapshot
  <2>2. \A b \in BarrierActors : barPc'[b] \in {"fill", "wake"} =>
           barPc[b] \in {"fill", "wake"} /\ First(b)' = First(b)
    BY <1>a, <1>b, <1>c DEF First
  <2>3. \A b \in BarrierActors : \A j \in First(b) .. Len(snapshot) :
           snapshot[j] \in Parties
    BY PendingParties
  <2>4. \A i \in 0 .. BarrierSize - 1 : barHandles'[i] = barHandles[i] \/ barHandles'[i] = a
    BY <1>a, <1>b DEF BSet, BarrierTypeOK
  <2> QED
    BY <1>b, <1>c, <1>g, <2>1, <2>2, <2>3, <2>4 DEF RoundInv, Snapshot
<1>7. ReleasedFirst'
  BY <1>a, <1>b, ReleasedFrame DEF RoundInv
<1> QED
  BY <1>1, <1>2, <1>3, <1>4, <1>5, <1>6, <1>7 DEF RoundInv

LEMMA CommitRound ==
  ASSUME BarrierTypeOK, NEW k \in Nat, RoundInv(k), NEW a \in BarrierActors, Commit(a)
  PROVE  RoundInv(k)'
<1>a. barPc[a] = "commit" /\ a \in Members(k) /\ (a \in Attendants => arrived[a] = k + 1)
      /\ (a \in Releasers => k = 0)
  BY BarrierSets DEF Commit, RoundInv, Whereabouts, Members
<1>b. /\ barPc' = BSet(barPc, a, "trigger")
      /\ prev' = BSet(prev, a, commitCount) /\ commitCount' = commitCount + 1
      /\ UNCHANGED <<maxAwait, releaseCount, barHandles, snapshot, index, last, cursor,
                     arrived, passed>>
  BY DEF Commit, BarGoto
<1>c. barPc'[a] = "trigger" /\ \A b \in BarrierActors : b # a => barPc'[b] = barPc[b]
  BY <1>b, MovedOne
<1>d. prev'[a] = commitCount /\ \A b \in BarrierActors : b # a => prev'[b] = prev[b]
  BY <1>b DEF BarrierTypeOK, BSet
<1>f. /\ Some(BeforeStore)' <=> Some(BeforeStore)
      /\ Some({"slots", "shrink"})' <=> Some({"slots", "shrink"})
  BY <1>a, <1>c DEF Some, BeforeStore
<1>g. Attendants \subseteq BarrierActors /\ Releasers \subseteq BarrierActors
      /\ Parties \subseteq Attendants
  BY BarrierSets DEF Attendants
<1>h. Came(k)' = Came(k) \cup {a} /\ a \notin Came(k)
  <2>1. \A b \in Members(k) : b \in BarrierActors
    BY MemberSets
  <2> QED
    BY <1>a, <1>b, <1>c, <2>1 DEF Came, CommittedPCs
<1>i. \A b \in BarrierActors : barPc[b] # "complete" /\ barPc[b] \notin BeforeCall
  <2>1. \A b \in BarrierActors : barPc[b] # "complete"
    BY <1>a, <1>h DEF RoundInv, Completion
  <2>2. \A b \in BarrierActors : barPc[b] \in BeforeCall => k > 0
    BY DEF RoundInv, Completion, BeforeCall, BeforeStore, AfterTake
  <2>3. \A b \in BarrierActors : barPc[b] \in BeforeCall => a \notin Attendants
    BY <1>a DEF RoundInv, Completion
  <2> QED
    BY <1>a, <2>1, <2>2, <2>3, BarrierSets
<1>1. Whereabouts(k)'
  <2>1. a \in Attendants => passed[a] < arrived[a]
    BY <1>a, <1>g DEF RoundInv, Whereabouts, BarrierTypeOK
  <2> QED
    BY <1>a, <1>b, <1>c, <1>g, <2>1 DEF RoundInv, Whereabouts, AfterTake
<1>2. Counters(k)'
  <2>1. {r \in Releasers : barPc[r] # "out"}' = {r \in Releasers : barPc[r] # "out"}
    BY <1>a, <1>c, <1>g
  <2>2. commitCount' = Cardinality(Came(k)')
    <3>1. IsFiniteSet(Came(k)) /\ commitCount = Cardinality(Came(k))
      BY MemberSets DEF RoundInv, Counters
    <3>2. Cardinality(Came(k) \cup {a}) = Cardinality(Came(k)) + 1
      BY <1>h, <3>1, FS_AddElement
    <3> QED
      BY <1>b, <1>h, <3>1, <3>2
  <2> QED
    BY <1>a, <1>b, <1>c, <1>f, <2>1, <2>2 DEF RoundInv, Counters
<1>3. Triggers(k)'
  <2>1. commitCount \in Nat /\ prev \in [BarrierActors -> Nat]
    BY DEF BarrierTypeOK
  <2>2. \A b \in BarrierActors : b # a /\ barPc[b] = "trigger" /\ b \in Came(k) =>
           prev[b] < commitCount
    BY DEF RoundInv, Triggers
  <2> QED
    BY <1>a, <1>b, <1>c, <1>d, <1>f, <1>h, <1>i, <2>1, <2>2 DEF RoundInv, Triggers
<1>4. Completion(k)'
  <2>1. barPc[a] \notin Completing /\ barPc'[a] \notin Completing
    BY <1>a, <1>c DEF Completing, AfterTake
  <2>2. \A b, c \in BarrierActors : barPc'[b] \in Completing /\ barPc'[c] \in Completing => b = c
    BY <1>c, <2>1 DEF RoundInv, Completion
  <2>3. \A b \in BarrierActors : barPc'[b] # "complete" /\ barPc'[b] \notin BeforeCall
    BY <1>c, <1>i DEF BeforeCall, BeforeStore
  <2> QED
    BY <1>a, <1>b, <1>c, <1>g, <2>2, <2>3 DEF RoundInv, Completion, AfterTake
<1>5. Handles'
  BY <1>a, <1>b, <1>c, <1>g, HandlesFrame DEF RoundInv
<1>6. Snapshot(k)'
  BY <1>a, <1>b, <1>c, <1>g, SnapshotFrame DEF RoundInv
<1>7. ReleasedFirst'
  BY <1>a, <1>b, ReleasedFrame DEF RoundInv
<1> QED
  BY <1>1, <1>2, <1>3, <1>4, <1>5, <1>6, <1>7 DEF RoundInv

LEMMA TriggerRound ==
  ASSUME BarrierTypeOK, NEW k \in Nat, RoundInv(k), NEW a \in BarrierActors, Trigger(a)
  PROVE  RoundInv(k)'
<1>a. barPc[a] = "trigger"
  BY DEF Trigger
<1> DEFINE l == IF prev[a] + 1 = maxAwait THEN "complete" ELSE Returned(a)
<1>b. /\ barPc' = BSet(barPc, a, l)
      /\ UNCHANGED <<maxAwait, commitCount, releaseCount, barHandles, snapshot, index, prev, last,
                     cursor, arrived, passed>>
  BY DEF Trigger, BarGoto, counters, locals
<1>d. \/ l = "complete" /\ prev[a] + 1 = maxAwait
      \/ l = "suspended" /\ a \in Parties
      \/ l = "called" /\ a \in Callers
      \/ l = "gone" /\ a \in Releasers
  <2>1. a \in Callers => passed[a] < arrived[a]
    BY <1>a DEF RoundInv, Whereabouts, Attendants
  <2>2. a \in Parties => Returned(a) = "suspended"
    BY BarrierAssumption DEF Returned
  <2>3. a \in Callers /\ passed[a] < arrived[a] => Returned(a) = "called"
    BY BarrierAssumption DEF Returned
  <2>4. a \in Releasers => Returned(a) = "gone"
    BY BarrierAssumption DEF Returned
  <2> QED
    BY <2>1, <2>2, <2>3, <2>4, BarrierSets DEF Attendants
<1> HIDE DEF l
<1>c. barPc'[a] = l /\ \A b \in BarrierActors : b # a => barPc'[b] = barPc[b]
  BY <1>b, MovedOne
<1>f. /\ Some(BeforeStore)' <=> Some(BeforeStore)
      /\ Some({"slots", "shrink"})' <=> Some({"slots", "shrink"})
  BY <1>a, <1>c, <1>d DEF Some, BeforeStore
<1>g. Attendants \subseteq BarrierActors /\ Releasers \subseteq BarrierActors
      /\ Parties \subseteq Attendants /\ Callers \subseteq Attendants
      /\ Parties \cap Callers = {} /\ Attendants \cap Releasers = {}
  BY BarrierSets, BarrierAssumption DEF Attendants
<1>h. Came(k)' = Came(k)
  <2>1. \A b \in Members(k) : b \in BarrierActors
    BY MemberSets
  <2> QED
    BY <1>a, <1>b, <1>c, <1>d, <2>1 DEF Came, CommittedPCs
<1>i. ASSUME l = "complete"
      PROVE  /\ a \in Came(k) /\ Came(k) = Members(k)
             /\ \A c \in BarrierActors : barPc[c] \notin Completing
  <2>1. a \in Came(k) /\ prev[a] < commitCount
    BY <1>a, <1>i, <1>d DEF RoundInv, Triggers
  <2>0. maxAwait <= commitCount /\ maxAwait \in Nat /\ commitCount \in Nat
    <3>1. prev[a] \in Nat /\ commitCount \in Nat /\ maxAwait \in Nat
      BY DEF BarrierTypeOK
    <3>2. prev[a] + 1 = maxAwait
      BY <1>d, <1>i
    <3> QED
      BY <2>1, <3>1, <3>2
  <2>2. \A c \in BarrierActors : barPc[c] \notin AfterTake
    <3> SUFFICES ASSUME NEW c \in BarrierActors, barPc[c] \in AfterTake PROVE FALSE
      OBVIOUS
    <3>1. k > 0
      BY DEF RoundInv, Completion
    <3>2. a \in Attendants /\ arrived[a] = k + 1
      BY <2>1, <3>1 DEF Came, Members
    <3>3. c \in Attendants
      <4>1. c \in Releasers => barPc[c] = "gone"
        BY <1>a, <3>2 DEF RoundInv, ReleasedFirst
      <4> QED
        BY <4>1, BarrierSets DEF AfterTake
    <3>4. ~Some(BeforeStore)
      <4>1. \A b \in BarrierActors : barPc[b] \in BeforeStore => arrived[a] = k
        BY <3>2 DEF RoundInv, Completion, BeforeCall
      <4> QED
        BY <3>2, <4>1 DEF Some
    <3>5. commitCount = Cardinality(Came(k)) /\ maxAwait = Cardinality(Members(k))
      BY <3>4 DEF RoundInv, Counters
    <3>6. Came(k) = Members(k)
      BY <2>0, <3>5, MemberSets
    <3>7. c \in Came(k)
      BY <3>3, <3>6, MemberSets
    <3> QED
      BY <3>7 DEF Came, CommittedPCs, AfterTake
  <2>3. ~Some(BeforeStore)
    BY <2>2 DEF Some, BeforeStore, AfterTake
  <2>4. commitCount = Cardinality(Came(k)) /\ maxAwait = Cardinality(Members(k))
    BY <2>3 DEF RoundInv, Counters
  <2>5. Came(k) = Members(k)
    BY <2>0, <2>4, MemberSets
  <2>6. \A c \in BarrierActors : barPc[c] # "complete"
    <3> SUFFICES ASSUME NEW c \in BarrierActors, barPc[c] = "complete" PROVE FALSE
      OBVIOUS
    <3>1. prev[c] + 1 = maxAwait
      BY DEF RoundInv, Completion
    <3>2. c \in Came(k)
      <4>1. c \in Members(k)
        <5>1. c \in Releasers => k = 0
          <6>1. c \in Releasers => a \notin Attendants
            BY <1>a DEF RoundInv, ReleasedFirst
          <6> QED
            BY <2>1, <6>1 DEF Came, Members
        <5> QED
          BY <5>1, BarrierSets DEF Members
      <4> QED
        BY <2>5, <4>1
    <3>3. prev[c] # prev[a]
      BY <1>a, <2>1, <3>2 DEF RoundInv, Triggers
    <3>4. prev[a] \in Nat /\ prev[c] \in Nat
      BY DEF BarrierTypeOK
    <3>5. prev[a] + 1 = maxAwait
      BY <1>d, <1>i
    <3> QED
      BY <3>1, <3>3, <3>4, <3>5
  <2> QED
    BY <2>1, <2>2, <2>5, <2>6 DEF Completing
<1>1. Whereabouts(k)'
  <2>1. l = "complete" /\ a \in Attendants => arrived[a] = k + 1
    BY <1>i DEF Came
  <2> QED
    BY <1>a, <1>b, <1>c, <1>d, <1>g, <2>1 DEF RoundInv, Whereabouts, AfterTake
<1>2. Counters(k)'
  <2>1. {r \in Releasers : barPc[r] # "out"}' = {r \in Releasers : barPc[r] # "out"}
    BY <1>a, <1>c, <1>d, <1>g
  <2> QED
    BY <1>a, <1>b, <1>c, <1>d, <1>f, <1>h, <2>1 DEF RoundInv, Counters
<1>3. Triggers(k)'
  BY <1>a, <1>b, <1>c, <1>d, <1>f, <1>h DEF RoundInv, Triggers
<1>4. Completion(k)'
  <2>1. barPc[a] \notin Completing
    BY <1>a DEF Completing, AfterTake
  <2>2. \A b, c \in BarrierActors : barPc'[b] \in Completing /\ barPc'[c] \in Completing => b = c
    <3>1. l # "complete" => l \notin Completing
      BY <1>d DEF Completing, AfterTake
    <3> QED
      BY <1>c, <1>i, <2>1, <3>1 DEF RoundInv, Completion
  <2>3. l \notin AfterTake /\ l \notin BeforeCall /\ l # "fill" /\ l # "out"
    BY <1>d DEF AfterTake, BeforeCall, BeforeStore
  <2>4. l = "complete" => prev[a] + 1 = maxAwait /\ Came(k) = Members(k)
    BY <1>d, <1>i
  <2> QED
    BY <1>a, <1>b, <1>c, <1>g, <1>h, <2>2, <2>3, <2>4 DEF RoundInv, Completion
<1>5. Handles'
  BY <1>a, <1>b, <1>c, <1>d, <1>g, HandlesFrame DEF RoundInv
<1>6. Snapshot(k)'
  BY <1>a, <1>b, <1>c, <1>d, <1>g, SnapshotFrame DEF RoundInv
<1>7. ReleasedFirst'
  BY <1>a, <1>b, ReleasedFrame DEF RoundInv
<1> QED
  BY <1>1, <1>2, <1>3, <1>4, <1>5, <1>6, <1>7 DEF RoundInv

LEMMA ReleaseRound ==
  ASSUME BarrierTypeOK, NEW k \in Nat, RoundInv(k), NEW a \in BarrierActors, Release(a)
  PROVE  RoundInv(k)'
<1>a. barPc[a] = "out" /\ a \in Releasers /\ k = 0 /\ a \notin Attendants
  BY BarrierSets DEF Release, RoundInv, Whereabouts
<1>b. /\ barPc' = BSet(barPc, a, "commit") /\ releaseCount' = releaseCount + 1
      /\ UNCHANGED <<maxAwait, commitCount, barHandles, snapshot, index, prev, last, cursor,
                     arrived, passed>>
  BY DEF Release, BarGoto, locals
<1>c. barPc'[a] = "commit" /\ \A b \in BarrierActors : b # a => barPc'[b] = barPc[b]
  BY <1>b, MovedOne
<1>f. /\ Some(BeforeStore)' <=> Some(BeforeStore)
      /\ Some({"slots", "shrink"})' <=> Some({"slots", "shrink"})
  BY <1>a, <1>c DEF Some, BeforeStore
<1>g. Attendants \subseteq BarrierActors /\ Releasers \subseteq BarrierActors
      /\ Parties \subseteq Attendants
  BY BarrierSets DEF Attendants
<1>h. Came(k)' = Came(k)
  <2>1. \A b \in Members(k) : b \in BarrierActors
    BY MemberSets
  <2> QED
    BY <1>a, <1>b, <1>c, <2>1 DEF Came, CommittedPCs
<1>1. Whereabouts(k)'
  BY <1>a, <1>b, <1>c, <1>g DEF RoundInv, Whereabouts, AfterTake
<1>2. Counters(k)'
  <2> DEFINE R == {r \in Releasers : barPc[r] # "out"}
  <2>1. R' = R \cup {a} /\ a \notin R
    BY <1>a, <1>c, <1>g
  <2>2. IsFiniteSet(R) /\ releaseCount = Cardinality(R)
    BY <1>a, BarrierSets, FS_Subset DEF RoundInv, Counters
  <2>3. releaseCount' = Cardinality(R')
    BY <1>b, <2>1, <2>2, FS_AddElement
  <2> QED
    BY <1>a, <1>b, <1>c, <1>f, <1>h, <2>3 DEF RoundInv, Counters
<1>3. Triggers(k)'
  BY <1>a, <1>b, <1>c, <1>f, <1>h DEF RoundInv, Triggers
<1>4. Completion(k)'
  <2>1. barPc[a] \notin Completing /\ barPc'[a] \notin Completing
    BY <1>a, <1>c DEF Completing, AfterTake
  <2>2. \A b, c \in BarrierActors : barPc'[b] \in Completing /\ barPc'[c] \in Completing => b = c
    BY <1>c, <2>1 DEF RoundInv, Completion
  <2> QED
    BY <1>a, <1>b, <1>c, <1>g, <1>h, <2>2 DEF RoundInv, Completion, BeforeCall, BeforeStore,
      AfterTake
<1>5. Handles'
  BY <1>a, <1>b, <1>c, <1>g, HandlesFrame DEF RoundInv
<1>6. Snapshot(k)'
  BY <1>a, <1>b, <1>c, <1>g, SnapshotFrame DEF RoundInv
<1>7. ReleasedFirst'
  BY <1>a, <1>b, ReleasedFrame DEF RoundInv
<1> QED
  BY <1>1, <1>2, <1>3, <1>4, <1>5, <1>6, <1>7 DEF RoundInv

\* A step of complete() before the callback moves only the one who completes.
LEMMA InsideFrame ==
  ASSUME BarrierTypeOK, NEW k \in Nat, RoundInv(k), NEW a \in BarrierActors, NEW l \in BeforeCall,
         barPc[a] \in BeforeStore, barPc' = BSet(barPc, a, l),
         UNCHANGED <<barHandles, snapshot, index, prev, cursor, arrived, passed>>
  PROVE  /\ barPc'[a] = l
         /\ \A b \in BarrierActors :
               b # a => barPc'[b] = barPc[b] /\ barPc[b] \notin Completing
         /\ k > 0 /\ (\A b \in Attendants : arrived[b] = k)
         /\ Came(k)' = Came(k) /\ Came(k) = {}
         /\ Whereabouts(k)' /\ Completion(k)' /\ Handles' /\ Snapshot(k)' /\ ReleasedFirst'
<1>c. barPc'[a] = l /\ \A b \in BarrierActors : b # a => barPc'[b] = barPc[b]
  BY MovedOne
<1>d. barPc[a] \in BeforeCall /\ barPc[a] \in Completing /\ barPc[a] \in AfterTake
      /\ l \in AfterTake /\ l \in Completing
  BY DEF BeforeCall, BeforeStore, Completing, AfterTake
<1>e. \A b \in BarrierActors : b # a => barPc[b] \notin Completing
  BY <1>d DEF RoundInv, Completion
<1>f. k > 0 /\ \A b \in Attendants : arrived[b] = k /\ barPc[b] # "out"
  BY <1>d DEF RoundInv, Completion
<1>g. Attendants \subseteq BarrierActors /\ Releasers \subseteq BarrierActors
      /\ Parties \subseteq Attendants
  BY BarrierSets DEF Attendants
<1>h. Came(k)' = Came(k) /\ Came(k) = {}
  BY <1>f DEF Came, Members
<1>i. l \notin {"out", "slot", "commit", "complete", "gone", "suspended", "called", "trigger",
                "fill", "wake"}
      /\ barPc[a] \notin {"out", "slot", "commit", "complete", "gone", "suspended", "called",
                          "trigger", "fill", "wake"}
  BY DEF BeforeCall, BeforeStore
<1>1. Whereabouts(k)'
  BY <1>c, <1>f, <1>g, <1>i DEF RoundInv, Whereabouts
<1>2. Completion(k)'
  <2>1. \A b, c \in BarrierActors : barPc'[b] \in Completing /\ barPc'[c] \in Completing => b = c
    BY <1>c, <1>e
  <2>2. \A b \in BarrierActors : barPc'[b] # "complete" /\ barPc'[b] # "fill"
    BY <1>c, <1>e, <1>i DEF Completing, AfterTake
  <2>3. \A b \in Attendants : arrived'[b] = k /\ barPc'[b] # "out"
    BY <1>c, <1>f, <1>g, <1>i
  <2> QED
    BY <1>f, <2>1, <2>2, <2>3 DEF Completion
<1>3. Handles'
  BY <1>c, <1>g, <1>i, HandlesFrame DEF RoundInv
<1>4. Snapshot(k)'
  BY <1>c, <1>g, <1>i, SnapshotFrame DEF RoundInv
<1>5. ReleasedFirst'
  BY <1>i, ReleasedFrame DEF RoundInv
<1> QED
  BY <1>1, <1>2, <1>3, <1>4, <1>5, <1>c, <1>e, <1>f, <1>h

LEMMA ResetSlotsRound ==
  ASSUME BarrierTypeOK, NEW k \in Nat, RoundInv(k), NEW a \in BarrierActors, ResetSlots(a)
  PROVE  RoundInv(k)'
<1>a. barPc[a] = "slots" /\ barPc[a] \in BeforeStore /\ "shrink" \in BeforeCall
  BY DEF ResetSlots, BeforeStore, BeforeCall
<1>b. /\ barPc' = BSet(barPc, a, "shrink")
      /\ UNCHANGED <<barHandles, snapshot, index, prev, cursor, arrived, passed>>
      /\ UNCHANGED <<maxAwait, commitCount, releaseCount, last>>
  BY DEF ResetSlots, BarGoto, locals
<1>c. /\ barPc'[a] = "shrink"
      /\ \A b \in BarrierActors : b # a => barPc'[b] = barPc[b] /\ barPc[b] \notin Completing
      /\ k > 0 /\ Came(k)' = Came(k)
      /\ Whereabouts(k)' /\ Completion(k)' /\ Handles' /\ Snapshot(k)' /\ ReleasedFirst'
  BY <1>a, <1>b, InsideFrame
<1>d. /\ Some(BeforeStore)' /\ Some(BeforeStore)
      /\ Some({"slots", "shrink"})' /\ Some({"slots", "shrink"})
  BY <1>a, <1>c DEF Some, BeforeStore
<1>1. Counters(k)'
  BY <1>a, <1>b, <1>c, <1>d DEF RoundInv, Counters
<1>2. Triggers(k)'
  BY <1>a, <1>b, <1>c, <1>d DEF RoundInv, Triggers
<1> QED
  BY <1>1, <1>2, <1>c DEF RoundInv

LEMMA ShrinkRound ==
  ASSUME BarrierTypeOK, NEW k \in Nat, RoundInv(k), NEW a \in BarrierActors, Shrink(a)
  PROVE  RoundInv(k)'
<1>a. barPc[a] = "shrink" /\ barPc[a] \in BeforeStore /\ "store" \in BeforeCall
  BY DEF Shrink, BeforeStore, BeforeCall
<1>b. /\ barPc' = BSet(barPc, a, "store")
      /\ UNCHANGED <<barHandles, snapshot, index, prev, cursor, arrived, passed>>
      /\ UNCHANGED <<maxAwait, commitCount>> /\ releaseCount' = 0
      /\ last' = BSet(last, a, <<maxAwait, maxAwait - releaseCount>>)
  BY DEF Shrink, BarGoto
<1>c. /\ barPc'[a] = "store"
      /\ \A b \in BarrierActors : b # a => barPc'[b] = barPc[b] /\ barPc[b] \notin Completing
      /\ k > 0 /\ Came(k)' = Came(k)
      /\ Whereabouts(k)' /\ Completion(k)' /\ Handles' /\ Snapshot(k)' /\ ReleasedFirst'
  BY <1>a, <1>b, InsideFrame
<1>d. /\ Some(BeforeStore)' /\ Some(BeforeStore)
      /\ ~Some({"slots", "shrink"})' /\ Some({"slots", "shrink"})
  BY <1>a, <1>c DEF Some, BeforeStore, Completing, AfterTake
<1>e. last'[a][1] = maxAwait /\ last'[a][2] = maxAwait - releaseCount
  BY <1>b DEF BarrierTypeOK, BSet
<1>f. maxAwait = Cardinality(Members(k - 1))
      /\ releaseCount = IF k = 1 THEN Cardinality(Releasers) ELSE 0
  BY <1>c, <1>d DEF RoundInv, Counters
<1>g. maxAwait <= BarrierSize /\ maxAwait - releaseCount = Cardinality(Attendants)
  <2>1. CASE k = 1
    BY <2>1, <1>f, BarrierSets DEF Members, BarrierSize
  <2>2. CASE k # 1
    <3>1. Members(k - 1) = Attendants
      BY <2>2, <1>c DEF Members
    <3> QED
      BY <2>2, <3>1, <1>f, BarrierSets
  <2> QED
    BY <2>1, <2>2
<1>1. Counters(k)'
  <2>1. \A b \in BarrierActors : b # a => barPc'[b] \notin {"store", "callback", "fill"}
    BY <1>c DEF Completing, AfterTake
  <2> QED
    BY <1>b, <1>c, <1>d, <1>e, <1>g, <2>1 DEF RoundInv, Counters
<1>2. Triggers(k)'
  BY <1>a, <1>b, <1>c, <1>d DEF RoundInv, Triggers
<1> QED
  BY <1>1, <1>2, <1>c DEF RoundInv

LEMMA StoreMaxRound ==
  ASSUME Calm, BarrierTypeOK, NEW k \in Nat, RoundInv(k), NEW a \in BarrierActors, StoreMax(a)
  PROVE  RoundInv(k)'
<1>a. barPc[a] = "store" /\ barPc[a] \in BeforeStore /\ "callback" \in BeforeCall
  BY DEF StoreMax, BeforeStore, BeforeCall
<1>b. /\ barPc' = BSet(barPc, a, "callback")
      /\ UNCHANGED <<barHandles, snapshot, index, prev, cursor, arrived, passed>>
      /\ UNCHANGED <<commitCount, releaseCount, last>> /\ maxAwait' = last[a][2]
      /\ \A b \in BarrierActors : barPc[b] # "trigger"
  BY DEF StoreMax, BarGoto, locals
<1>c. /\ barPc'[a] = "callback"
      /\ \A b \in BarrierActors : b # a => barPc'[b] = barPc[b] /\ barPc[b] \notin Completing
      /\ k > 0 /\ Came(k)' = Came(k)
      /\ Whereabouts(k)' /\ Completion(k)' /\ Handles' /\ Snapshot(k)' /\ ReleasedFirst'
  BY <1>a, <1>b, InsideFrame
<1>d. /\ ~Some(BeforeStore)'
      /\ ~Some({"slots", "shrink"})' /\ ~Some({"slots", "shrink"})
  BY <1>a, <1>c DEF Some, BeforeStore, Completing, AfterTake
<1>1. Counters(k)'
  <2>1. maxAwait' = Cardinality(Members(k))
    BY <1>a, <1>b, <1>c DEF RoundInv, Counters, Members
  <2>2. \A b \in BarrierActors : b # a => barPc'[b] \notin {"store", "callback", "fill"}
    BY <1>c DEF Completing, AfterTake
  <2> QED
    BY <1>a, <1>b, <1>c, <1>d, <2>1, <2>2 DEF RoundInv, Counters
<1>2. Triggers(k)'
  BY <1>b, <1>c DEF Triggers
<1> QED
  BY <1>1, <1>2, <1>c DEF RoundInv

\* commit_count is taken: a meeting more is completed.
LEMMA CompleteRound ==
  ASSUME BarrierTypeOK, NEW k \in Nat, RoundInv(k), NEW a \in BarrierActors, Complete(a)
  PROVE  RoundInv(k + 1)'
<1>a. barPc[a] = "complete" /\ barPc[a] \in Completing /\ Came(k) = Members(k)
      /\ prev[a] + 1 = maxAwait
  BY DEF Complete, RoundInv, Completion, Completing
<1>b. /\ barPc' = BSet(barPc, a, "slots") /\ commitCount' = 0
      /\ UNCHANGED <<maxAwait, releaseCount, barHandles, snapshot, index, prev, last, cursor,
                     arrived, passed>>
  BY DEF Complete, BarGoto, locals
<1>c. barPc'[a] = "slots" /\ \A b \in BarrierActors : b # a => barPc'[b] = barPc[b]
  BY <1>b, MovedOne
<1>d. \A b \in BarrierActors : b # a => barPc[b] \notin Completing
  BY <1>a DEF RoundInv, Completion
<1>e. /\ \A b \in Members(k) : barPc[b] \in CommittedPCs
      /\ \A b \in Attendants : arrived[b] = k + 1 /\ barPc[b] \in CommittedPCs
  BY <1>a, MemberSets DEF Came
<1>f. Some(BeforeStore)' /\ ~Some(BeforeStore)
      /\ Some({"slots", "shrink"})' /\ ~Some({"slots", "shrink"})
  BY <1>a, <1>c, <1>d DEF Some, BeforeStore, Completing, AfterTake
<1>g. Attendants \subseteq BarrierActors /\ Releasers \subseteq BarrierActors
      /\ Parties \subseteq Attendants /\ BarrierActors = Attendants \cup Releasers
  BY BarrierSets DEF Attendants
<1>h. Members(k + 1) = Attendants /\ Came(k + 1)' = {}
  <2>1. Members(k + 1) = Attendants
    BY DEF Members
  <2> QED
    BY <1>b, <1>e, <2>1 DEF Came
<1>i. \A r \in Releasers : barPc[r] \notin {"out", "commit"}
  <2>1. k = 0 => Releasers \subseteq Members(k)
    BY <1>g DEF Members
  <2> QED
    BY <1>e, <2>1 DEF RoundInv, Whereabouts, CommittedPCs
<1>1. Whereabouts(k + 1)'
  <2>1. \A b \in Attendants :
           /\ passed[b] <= k + 1 /\ arrived[b] \in {k + 1, k + 2}
           /\ barPc'[b] \notin {"slot", "commit", "complete", "out", "fill", "wake", "gone"}
    <3>1. \A b \in Attendants : barPc[b] # "gone" /\ passed[b] <= k /\ passed[b] \in Nat
      BY <1>g DEF RoundInv, Whereabouts, BarrierTypeOK
    <3>2. \A b \in Attendants : b # a => barPc[b] # "complete"
      BY <1>d, <1>g DEF Completing
    <3> QED
      BY <1>c, <1>e, <1>g, <3>1, <3>2 DEF CommittedPCs
  <2> QED
    BY <1>a, <1>b, <1>c, <1>e, <1>g, <1>i, <2>1 DEF RoundInv, Whereabouts
<1>2. Counters(k + 1)'
  <2>1. maxAwait = Cardinality(Members(k))
    BY <1>f DEF RoundInv, Counters
  <2>2. releaseCount = IF k + 1 = 1 THEN Cardinality(Releasers) ELSE 0
    <3>1. CASE k = 0
      <4>1. {r \in Releasers : barPc[r] # "out"} = Releasers
        BY <1>i
      <4> QED
        BY <3>1, <4>1 DEF RoundInv, Counters
    <3>2. CASE k # 0
      BY <3>2, <1>f DEF RoundInv, Counters
    <3> QED
      BY <3>1, <3>2
  <2>3. \A b \in BarrierActors : barPc'[b] \notin {"store", "callback", "fill"}
    BY <1>c, <1>d DEF Completing, AfterTake
  <2>4. commitCount' = Cardinality(Came(k + 1)')
    BY <1>b, <1>h, FS_EmptySet
  <2>5. k + 1 # 0 /\ k + 1 > 0 /\ (k + 1) - 1 = k
    OBVIOUS
  <2> QED
    BY <1>b, <1>f, <2>1, <2>2, <2>3, <2>4, <2>5 DEF Counters, Members
<1>3. Triggers(k + 1)'
  <2> SUFFICES ASSUME NEW b \in BarrierActors, barPc'[b] = "trigger"
               PROVE  Some(BeforeStore)' /\ prev'[b] + 1 # maxAwait'
    BY <1>h DEF Triggers
  <2>1. b # a /\ barPc[b] = "trigger"
    BY <1>c
  <2>2. b \in Came(k)
    BY <1>f, <2>1 DEF RoundInv, Triggers
  <2>3. a \in Came(k)
    <3>1. a \in Releasers => b \notin Attendants
      BY <1>a, <2>1 DEF RoundInv, ReleasedFirst
    <3>2. k # 0 => a \in Attendants
      BY <1>g, <2>2, <3>1 DEF Came, Members
    <3> QED
      BY <1>a, <1>g, <3>2 DEF Members
  <2>4. prev[a] # prev[b]
    BY <1>a, <2>1, <2>2, <2>3 DEF RoundInv, Triggers
  <2>5. prev[a] \in Nat /\ prev[b] \in Nat
    BY DEF BarrierTypeOK
  <2> QED
    BY <1>a, <1>b, <1>f, <2>4, <2>5
<1>4. Completion(k + 1)'
  <2>1. \A b, c \in BarrierActors : barPc'[b] \in Completing /\ barPc'[c] \in Completing => b = c
    BY <1>c, <1>d
  <2>2. \A b \in BarrierActors : barPc'[b] # "complete" /\ barPc'[b] # "fill"
    BY <1>c, <1>d DEF Completing, AfterTake
  <2>3. \A b \in Attendants : arrived'[b] = k + 1 /\ barPc'[b] # "out"
    BY <1>b, <1>c, <1>e, <1>g DEF CommittedPCs
  <2> QED
    BY <2>1, <2>2, <2>3 DEF Completion
<1>5. Handles'
  BY <1>a, <1>b, <1>c, <1>g, HandlesFrame DEF RoundInv
<1>6. Snapshot(k + 1)'
  <2>1. \A b \in BarrierActors : barPc'[b] \notin {"fill", "wake"}
    BY <1>c, <1>d DEF Completing, AfterTake
  <2> QED
    BY <2>1 DEF Snapshot
<1>7. ReleasedFirst'
  BY <1>a, <1>b, ReleasedFrame DEF RoundInv
<1> QED
  BY <1>1, <1>2, <1>3, <1>4, <1>5, <1>6, <1>7 DEF RoundInv

LEMMA CallbackRound ==
  ASSUME BarrierTypeOK, NEW k \in Nat, RoundInv(k), NEW a \in BarrierActors, Callback(a)
  PROVE  RoundInv(k)'
<1>a. barPc[a] = "callback" /\ barPc[a] \in Completing /\ barPc[a] \in AfterTake
      /\ barPc[a] \in BeforeCall
  BY DEF Callback, Completing, AfterTake, BeforeCall
<1>b. /\ snapshot' = << >>
      /\ UNCHANGED <<maxAwait, commitCount, releaseCount, barHandles, index, prev, last, arrived>>
  BY DEF Callback, counters
<1>c. barPc'[a] = "fill" /\ \A b \in BarrierActors : b # a =>
         barPc'[b] = IF b \in Callers /\ barPc[b] = "called" THEN "out" ELSE barPc[b]
  BY DEF Callback
<1>d. \A b \in BarrierActors : b # a => barPc[b] \notin Completing /\ barPc'[b] \notin Completing
  <2>1. \A b \in BarrierActors : b # a => barPc[b] \notin Completing
    BY <1>a DEF RoundInv, Completion
  <2> QED
    BY <1>c, <2>1 DEF Completing, AfterTake
<1>e. k > 0 /\ \A b \in Attendants : arrived[b] = k /\ barPc[b] # "out"
  BY <1>a DEF RoundInv, Completion
<1>f. ~Some(BeforeStore)' /\ ~Some(BeforeStore)
      /\ ~Some({"slots", "shrink"})' /\ ~Some({"slots", "shrink"})
  BY <1>a, <1>c, <1>d DEF Some, BeforeStore, Completing, AfterTake
<1>g. Attendants \subseteq BarrierActors /\ Releasers \subseteq BarrierActors
      /\ Parties \subseteq Attendants /\ BarrierActors = Attendants \cup Releasers
      /\ Parties \cap Callers = {} /\ Attendants \cap Releasers = {} /\ Callers \subseteq Attendants
  BY BarrierSets, BarrierAssumption DEF Attendants
<1>h. Came(k)' = {} /\ Came(k) = {}
  BY <1>b, <1>e DEF Came, Members
<1>i. \A b \in BarrierActors : barPc[b] # "trigger" /\ barPc'[b] # "trigger"
  <2>1. \A b \in BarrierActors : barPc[b] # "trigger"
    BY <1>f, <1>h DEF RoundInv, Triggers
  <2> QED
    BY <1>c, <2>1
<1>j. \A b \in BarrierActors : passed'[b] = IF b \in Callers THEN arrived[b] ELSE passed[b]
  BY DEF Callback
<1>1. Whereabouts(k)'
  <2>1. \A b \in Attendants : barPc[b] \notin {"slot", "commit", "complete", "gone"}
    BY <1>e DEF RoundInv, Whereabouts
  <2>2. \A b \in Attendants : passed'[b] <= k
    BY <1>e, <1>g, <1>j DEF RoundInv, Whereabouts
  <2>3. \A b \in Attendants : barPc'[b] \notin {"slot", "commit", "complete", "gone"}
    BY <1>c, <1>g, <2>1
  <2>4. \A b \in Attendants : (barPc'[b] = "suspended" => b \in Parties)
                              /\ (barPc'[b] = "called" => b \in Callers)
    BY <1>c, <1>g DEF RoundInv, Whereabouts
  <2>5. \A b \in Callers : passed'[b] = arrived'[b]
    BY <1>b, <1>g, <1>j
  <2>6. \A r \in Releasers : barPc'[r] \notin {"slot", "suspended", "called", "out", "commit"}
    BY <1>c, <1>e, <1>g DEF RoundInv, Whereabouts
  <2> QED
    BY <1>b, <1>e, <1>i, <1>g, <2>2, <2>3, <2>4, <2>5, <2>6 DEF Whereabouts
<1>2. Counters(k)'
  <2>1. \A b \in BarrierActors : b # a => barPc'[b] \notin {"store", "callback", "fill"}
    BY <1>d DEF Completing, AfterTake
  <2> QED
    BY <1>a, <1>b, <1>c, <1>e, <1>f, <1>h, <2>1 DEF RoundInv, Counters
<1>3. Triggers(k)'
  BY <1>i DEF Triggers
<1>4. Completion(k)'
  <2>1. \A b, c \in BarrierActors : barPc'[b] \in Completing /\ barPc'[c] \in Completing => b = c
    BY <1>d
  <2>2. \A b \in BarrierActors : barPc'[b] # "complete" /\ barPc'[b] \notin BeforeCall
    BY <1>c, <1>d DEF Completing, AfterTake, BeforeCall, BeforeStore
  <2>3. \A p \in Parties : arrived'[p] = k /\ barPc'[p] # "out"
    BY <1>b, <1>c, <1>e, <1>g
  <2> QED
    BY <1>e, <2>1, <2>2, <2>3 DEF Completion
<1>5. Handles'
  <2>1. \A p \in Parties : passed'[p] = passed[p]
          /\ (barPc'[p] \in {"out", "slot"} => barPc[p] \in {"out", "slot"})
    BY <1>c, <1>g, <1>j
  <2> QED
    BY <1>b, <2>1 DEF RoundInv, Handles
<1>6. Snapshot(k)'
  <2>1. \A b \in BarrierActors : b # a => barPc'[b] \notin {"fill", "wake"}
    BY <1>d DEF Completing, AfterTake
  <2>2. First(a)' = 1 /\ Len(snapshot') = 0
    BY <1>b, <1>c DEF First
  <2> QED
    BY <2>1, <2>2 DEF Snapshot
<1>7. ReleasedFirst'
  BY <1>a, <1>c, <1>e, <1>g DEF RoundInv, ReleasedFirst
<1> QED
  BY <1>1, <1>2, <1>3, <1>4, <1>5, <1>6, <1>7 DEF RoundInv

LEMMA FillSnapshotRound ==
  ASSUME BarrierTypeOK, NEW k \in Nat, RoundInv(k), NEW a \in BarrierActors, FillSnapshot(a)
  PROVE  RoundInv(k)'
<1>a. barPc[a] = "fill" /\ barPc[a] \in Completing /\ barPc[a] \in AfterTake
  BY DEF FillSnapshot, Completing, AfterTake
<1>b. UNCHANGED <<maxAwait, commitCount, releaseCount, index, prev, last, arrived, passed>>
  BY DEF FillSnapshot, counters
<1>d. \A b \in BarrierActors : b # a => barPc[b] \notin Completing
  BY <1>a DEF RoundInv, Completion
<1>e. k > 0 /\ \A p \in Parties : arrived[p] = k /\ barPc[p] # "out"
  BY <1>a DEF RoundInv, Completion
<1>g. Attendants \subseteq BarrierActors /\ Releasers \subseteq BarrierActors
      /\ Parties \subseteq Attendants /\ BarrierActors = Attendants \cup Releasers
      /\ Parties \cap Callers = {} /\ Attendants \cap Releasers = {}
  BY BarrierSets, BarrierAssumption DEF Attendants
<1>1. CASE cursor[a] <= last[a][1]
  <2> DEFINE i0 == cursor[a] - 1
             h == barHandles[i0]
  <2>a. /\ snapshot' = IF h # Nobody THEN Append(snapshot, h) ELSE snapshot
        /\ barHandles' = BSet(barHandles, i0, Nobody) /\ UNCHANGED barPc
    BY <1>1 DEF FillSnapshot
  <2>b. i0 \in 0 .. BarrierSize - 1
    <3>1. last[a][1] <= BarrierSize
      BY <1>a DEF RoundInv, Counters
    <3>2. cursor[a] \in Nat /\ cursor[a] >= 1 /\ last[a][1] \in Nat
      BY DEF BarrierTypeOK
    <3> QED
      BY <1>1, <3>1, <3>2, BarrierSets
  <2> HIDE DEF i0
  <2>c. \A i \in 0 .. BarrierSize - 1 :
           barHandles'[i] = IF i = i0 THEN Nobody ELSE barHandles[i]
    BY <2>a, <2>b DEF BSet, BarrierTypeOK
  <2>d. h \in Parties \cup {Nobody} /\ Nobody \notin Parties /\ snapshot \in Seq(Parties)
    BY <2>b, BarrierAssumption DEF BarrierTypeOK
  <2>1. Whereabouts(k)' /\ ReleasedFirst'
    BY <1>b, <2>a DEF RoundInv, Whereabouts, ReleasedFirst
  <2>2. Came(k)' = Came(k) /\ (Some(BeforeStore)' <=> Some(BeforeStore))
        /\ (Some({"slots", "shrink"})' <=> Some({"slots", "shrink"}))
    BY <1>b, <2>a DEF Came, Some
  <2>3. Counters(k)' /\ Triggers(k)'
    BY <1>b, <2>a, <2>2 DEF RoundInv, Counters, Triggers
  <2>4. Completion(k)'
    BY <1>b, <2>a, <2>2 DEF RoundInv, Completion
  <2>5. Handles'
    BY <1>b, <2>a, <2>c, <2>d DEF RoundInv, Handles
  <2>6. Snapshot(k)'
    <3>1. \A b \in BarrierActors : b # a => barPc'[b] \notin {"fill", "wake"}
      BY <1>d, <2>a DEF Completing, AfterTake
    <3>2. First(a)' = 1 /\ First(a) = 1
      BY <1>a, <2>a DEF First
    <3>3. \A j \in 1 .. Len(snapshot) :
            /\ passed[snapshot[j]] < k /\ arrived[snapshot[j]] = k
            /\ barPc[snapshot[j]] = "suspended" \/ snapshot[j] = a
            /\ \A i \in 0 .. BarrierSize - 1 : barHandles[i] # snapshot[j]
            /\ \A i \in 1 .. Len(snapshot) : snapshot[i] = snapshot[j] => i = j
      BY <1>a, <3>2 DEF RoundInv, Snapshot
    <3>4. \A j \in 1 .. Len(snapshot) : snapshot[j] \in Parties
      BY <2>d
    <3>5. CASE h = Nobody
      <4>1. snapshot' = snapshot
        BY <2>a, <3>5
      <4> QED
        BY <1>b, <2>a, <2>c, <2>d, <3>1, <3>2, <3>3, <3>4, <4>1 DEF Snapshot
    <3>6. CASE h # Nobody
      <4>1. snapshot' = Append(snapshot, h) /\ h \in Parties
        BY <2>a, <2>d, <3>6
      <4>2. Len(snapshot') = Len(snapshot) + 1 /\ snapshot'[Len(snapshot) + 1] = h
            /\ Len(snapshot) \in Nat
            /\ \A j \in 1 .. Len(snapshot) : snapshot'[j] = snapshot[j]
        BY <2>d, <4>1
      <4>3. index[h] = i0 /\ passed[h] < arrived[h] /\ barPc[h] \notin {"out", "slot"}
        BY <2>b, <4>1 DEF RoundInv, Handles
      <4>4. passed[h] < k /\ arrived[h] = k
        BY <1>e, <4>1, <4>3
      <4>5. barPc[h] = "suspended" \/ h = a
        <5>1. barPc[h] \notin {"commit", "complete", "called", "gone"}
          BY <1>g, <4>1, <4>4 DEF RoundInv, Whereabouts
        <5>2. barPc[h] # "trigger"
          <6>1. ~Some(BeforeStore)
            BY <1>a, <1>d DEF Some, BeforeStore, Completing, AfterTake
          <6>2. h \notin Came(k)
            BY <1>g, <4>1, <4>4 DEF Came
          <6> QED
            BY <1>g, <4>1, <6>1, <6>2 DEF RoundInv, Triggers
        <5>3. barPc[h] \in BarrierPCs
          BY <1>g, <4>1 DEF BarrierTypeOK
        <5> QED
          BY <1>d, <1>g, <4>1, <4>3, <5>1, <5>2, <5>3 DEF BarrierPCs, CommittedPCs, Completing
      <4>6. \A i \in 0 .. BarrierSize - 1 : barHandles'[i] # h
        BY <2>c, <2>d, <4>1, <4>3 DEF RoundInv, Handles
      <4>7. \A j \in 1 .. Len(snapshot) : snapshot[j] # h
        BY <2>b, <3>3
      <4>8. \A j \in 1 .. Len(snapshot) : \A i \in 0 .. BarrierSize - 1 :
               barHandles'[i] # snapshot[j]
        BY <2>c, <2>d, <3>3, <3>4
      <4> HIDE DEF h
      <4>9. \A j \in 1 .. Len(snapshot') :
            /\ passed'[snapshot'[j]] < k /\ arrived'[snapshot'[j]] = k
            /\ barPc'[snapshot'[j]] = "suspended" \/ snapshot'[j] = a
            /\ \A i \in 0 .. BarrierSize - 1 : barHandles'[i] # snapshot'[j]
            /\ \A i \in 1 .. Len(snapshot') : snapshot'[i] = snapshot'[j] => i = j
        <5> TAKE j \in 1 .. Len(snapshot')
        <5>1. CASE j = Len(snapshot) + 1
          BY <5>1, <1>b, <2>a, <4>2, <4>4, <4>5, <4>6, <4>7
        <5>2. CASE j # Len(snapshot) + 1
          <6>1. j \in 1 .. Len(snapshot) /\ snapshot'[j] = snapshot[j]
            BY <5>2, <4>2
          <6>2. \A i \in 1 .. Len(snapshot') : snapshot'[i] = snapshot'[j] => i = j
            BY <6>1, <3>3, <4>2, <4>7
          <6> QED
            BY <6>1, <6>2, <1>b, <2>a, <3>3, <4>8
        <5> QED
          BY <5>1, <5>2
      <4> QED
        BY <3>1, <3>2, <4>9 DEF Snapshot
    <3> QED
      BY <3>5, <3>6
  <2> QED
    BY <2>1, <2>3, <2>4, <2>5, <2>6 DEF RoundInv
<1>2. CASE ~(cursor[a] <= last[a][1])
  <2>a. barPc' = BSet(barPc, a, "wake") /\ cursor' = BSet(cursor, a, 1)
        /\ UNCHANGED <<snapshot, barHandles>>
    BY <1>2 DEF FillSnapshot, BarGoto
  <2>b. barPc'[a] = "wake" /\ cursor'[a] = 1
        /\ \A b \in BarrierActors : b # a => barPc'[b] = barPc[b]
    BY <2>a, MovedOne DEF BarrierTypeOK, BSet
  <2>c. \A b \in BarrierActors : b # a => barPc'[b] \notin Completing
    BY <1>d, <2>b
  <2>1. Whereabouts(k)'
    BY <1>a, <1>b, <1>g, <2>b DEF RoundInv, Whereabouts, AfterTake
  <2>2. Came(k)' = Came(k) /\ (Some(BeforeStore)' <=> Some(BeforeStore))
        /\ (Some({"slots", "shrink"})' <=> Some({"slots", "shrink"}))
    <3>1. \A b \in Members(k) : b \in BarrierActors
      BY MemberSets
    <3> QED
      BY <1>a, <1>b, <2>b, <3>1 DEF Came, Some, BeforeStore, CommittedPCs
  <2>3. Counters(k)'
    BY <1>a, <1>b, <1>e, <2>b, <2>2 DEF RoundInv, Counters
  <2>4. Triggers(k)'
    BY <1>a, <1>b, <2>b, <2>2 DEF RoundInv, Triggers
  <2>5. Completion(k)'
    <3>1. \A b, c \in BarrierActors : barPc'[b] \in Completing /\ barPc'[c] \in Completing => b = c
      BY <2>c
    <3>2. \A b \in BarrierActors :
             barPc'[b] # "complete" /\ barPc'[b] \notin BeforeCall /\ barPc'[b] # "fill"
      BY <2>b, <2>c DEF Completing, AfterTake, BeforeCall, BeforeStore
    <3> QED
      BY <1>e, <3>1, <3>2 DEF Completion
  <2>6. Handles'
    BY <1>a, <1>b, <1>g, <2>a, <2>b, HandlesFrame DEF RoundInv
  <2>7. Snapshot(k)'
    <3>1. \A b \in BarrierActors : b # a => barPc'[b] \notin {"fill", "wake"}
      BY <2>c DEF Completing, AfterTake
    <3>2. First(a)' = 1 /\ First(a) = 1
      BY <1>a, <2>b DEF First
    <3>3. \A j \in 1 .. Len(snapshot) : snapshot[j] \in Parties
      BY DEF BarrierTypeOK
    <3> QED
      BY <1>a, <1>b, <1>g, <2>a, <2>b, <3>1, <3>2, <3>3 DEF RoundInv, Snapshot
  <2>8. ReleasedFirst'
    BY <1>a, <2>a, ReleasedFrame DEF RoundInv
  <2> QED
    BY <2>1, <2>3, <2>4, <2>5, <2>6, <2>7, <2>8 DEF RoundInv
<1> QED
  BY <1>1, <1>2

LEMMA DispatchSnapshotRound ==
  ASSUME BarrierTypeOK, NEW k \in Nat, RoundInv(k), NEW a \in BarrierActors, DispatchSnapshot(a)
  PROVE  RoundInv(k)'
<1>a. barPc[a] = "wake" /\ barPc[a] \in Completing /\ barPc[a] \in AfterTake
  BY DEF DispatchSnapshot, Completing, AfterTake
<1>b. UNCHANGED <<maxAwait, commitCount, releaseCount, barHandles, index, prev, last, arrived>>
  BY DEF DispatchSnapshot, counters
<1>d. \A b \in BarrierActors : b # a => barPc[b] \notin Completing
  BY <1>a DEF RoundInv, Completion
<1>e. k > 0 /\ (a \in Attendants => arrived[a] = k)
      /\ (a \in Callers => passed[a] = arrived[a])
  BY <1>a DEF RoundInv, Completion, Whereabouts, Attendants
<1>f. ~Some(BeforeStore) /\ ~Some({"slots", "shrink"})
  BY <1>a, <1>d DEF Some, BeforeStore, Completing, AfterTake
<1>g. Attendants \subseteq BarrierActors /\ Releasers \subseteq BarrierActors
      /\ Parties \subseteq Attendants /\ BarrierActors = Attendants \cup Releasers
      /\ Parties \cap Callers = {} /\ Attendants \cap Releasers = {} /\ Callers \subseteq Attendants
      /\ Attendants = Parties \cup Callers
  BY BarrierSets, BarrierAssumption DEF Attendants
<1>h. \A b \in Members(k) : b \in BarrierActors
  BY MemberSets
<1>1. CASE cursor[a] <= Len(snapshot)
  <2> DEFINE p == snapshot[cursor[a]]
  <2>a. /\ passed' = BSet(passed, p, passed[p] + 1)
        /\ barPc' = IF p = a THEN barPc ELSE BSet(barPc, p, "out")
        /\ cursor' = BSet(cursor, a, cursor[a] + 1)
        /\ UNCHANGED snapshot
    BY <1>1 DEF DispatchSnapshot
  <2>b. cursor[a] \in Nat /\ cursor[a] >= 1 /\ Len(snapshot) \in Nat
        /\ cursor[a] \in 1 .. Len(snapshot) /\ First(a) = cursor[a]
    BY <1>1, <1>a DEF BarrierTypeOK, First
  <2>c. p \in Parties /\ p \in BarrierActors /\ p \in Attendants
    BY <2>b, <1>g DEF BarrierTypeOK
  <2>d. /\ passed[p] < k /\ arrived[p] = k /\ (barPc[p] = "suspended" \/ p = a)
        /\ \A i \in 0 .. BarrierSize - 1 : barHandles[i] # p
        /\ \A j \in cursor[a] .. Len(snapshot) : snapshot[j] = p => j = cursor[a]
    <3>1. cursor[a] \in First(a) .. Len(snapshot)
      BY <2>b
    <3> QED
      BY <1>a, <2>b, <3>1 DEF RoundInv, Snapshot
  <2>i. \A j \in cursor[a] + 1 .. Len(snapshot) :
          /\ snapshot[j] \in Parties /\ snapshot[j] # p
          /\ passed[snapshot[j]] < k /\ arrived[snapshot[j]] = k
          /\ barPc[snapshot[j]] = "suspended" \/ snapshot[j] = a
          /\ \A i \in 0 .. BarrierSize - 1 : barHandles[i] # snapshot[j]
          /\ \A i \in cursor[a] + 1 .. Len(snapshot) : snapshot[i] = snapshot[j] => i = j
    <3> TAKE j \in cursor[a] + 1 .. Len(snapshot)
    <3>1. j \in First(a) .. Len(snapshot) /\ j \in 1 .. Len(snapshot) /\ j # cursor[a]
          /\ \A i \in cursor[a] + 1 .. Len(snapshot) : i \in First(a) .. Len(snapshot)
      BY <2>b
    <3>2. snapshot[j] \in Parties /\ snapshot[j] # p
      BY <2>b, <2>d, <3>1 DEF BarrierTypeOK
    <3> QED
      BY <1>a, <3>1, <3>2 DEF RoundInv, Snapshot
  <2> HIDE DEF p
  <2>e. passed'[p] = passed[p] + 1 /\ \A b \in BarrierActors : b # p => passed'[b] = passed[b]
    BY <2>a, <2>c DEF BSet, BarrierTypeOK
  <2>f. /\ \A b \in BarrierActors : b # p => barPc'[b] = barPc[b]
        /\ barPc'[p] = IF p = a THEN "wake" ELSE "out"
        /\ p # a => barPc[p] = "suspended"
    BY <1>a, <2>a, <2>c, <2>d DEF BSet, BarrierTypeOK
  <2>g. passed[p] \in Nat /\ passed'[p] <= k
    BY <2>c, <2>d, <2>e DEF BarrierTypeOK
  <2>1. Whereabouts(k)'
    BY <1>a, <1>b, <1>g, <2>c, <2>d, <2>e, <2>f, <2>g DEF RoundInv, Whereabouts, AfterTake
  <2>2. Came(k)' = Came(k)
    BY <1>b, <1>h, <2>c, <2>d, <2>f DEF Came
  <2>3. ~Some(BeforeStore)' /\ ~Some({"slots", "shrink"})'
    BY <1>f, <2>f DEF Some, BeforeStore
  <2>4. Counters(k)'
    BY <1>b, <1>e, <1>f, <2>f, <2>2, <2>3 DEF RoundInv, Counters
  <2>5. Triggers(k)'
    BY <1>b, <1>f, <2>f, <2>2, <2>3 DEF RoundInv, Triggers
  <2>6. \A b \in BarrierActors : b # a => barPc'[b] \notin Completing
    BY <1>d, <2>f DEF Completing, AfterTake
  <2>7. barPc'[a] = "wake"
    BY <1>a, <2>f
  <2>8. Completion(k)'
    <3>1. \A b, c \in BarrierActors : barPc'[b] \in Completing /\ barPc'[c] \in Completing => b = c
      BY <2>6
    <3>2. \A b \in BarrierActors :
             barPc'[b] # "complete" /\ barPc'[b] \notin BeforeCall /\ barPc'[b] # "fill"
      BY <2>6, <2>7 DEF Completing, AfterTake, BeforeCall, BeforeStore
    <3> QED
      BY <1>e, <3>1, <3>2 DEF Completion
  <2>9. Handles'
    BY <1>b, <1>g, <2>d, <2>e, <2>f DEF RoundInv, Handles
  <2>10. Snapshot(k)'
    <3>1. \A b \in BarrierActors : b # a => barPc'[b] \notin {"fill", "wake"}
      BY <2>6 DEF Completing, AfterTake
    <3>2. First(a)' = cursor[a] + 1
      BY <2>a, <2>7 DEF First, BSet, BarrierTypeOK
    <3> QED
      BY <1>b, <1>g, <2>a, <2>e, <2>f, <2>i, <3>1, <3>2 DEF Snapshot
  <2>11. ReleasedFirst'
    <3>1. barPc[p] # "out"
      BY <1>a, <2>f
    <3>2. \A r \in Releasers : barPc[r] = "gone" /\ barPc'[r] = "gone"
      BY <1>g, <2>c, <2>f, <3>1 DEF RoundInv, ReleasedFirst
    <3> QED
      BY <3>2 DEF ReleasedFirst
  <2> QED
    BY <2>1, <2>4, <2>5, <2>8, <2>9, <2>10, <2>11 DEF RoundInv
<1>2. CASE ~(cursor[a] <= Len(snapshot))
  <2> DEFINE l == IF a \in Parties /\ passed[a] = arrived[a] THEN "out" ELSE Returned(a)
  <2>a. barPc' = BSet(barPc, a, l) /\ UNCHANGED <<passed, cursor>>
    BY <1>2 DEF DispatchSnapshot, BarGoto
  <2>b. \/ l = "out" /\ a \in Attendants /\ passed[a] = arrived[a]
        \/ l = "suspended" /\ a \in Parties
        \/ l = "gone" /\ a \in Releasers
    <3>1. a \in Parties => Returned(a) = "suspended"
      BY BarrierAssumption DEF Returned
    <3>2. a \in Callers => Returned(a) = "out"
      BY <1>e, <1>g, BarrierAssumption DEF Returned, BarrierTypeOK
    <3>3. a \in Releasers => Returned(a) = "gone"
      BY BarrierAssumption DEF Returned
    <3> QED
      BY <1>e, <1>g, <3>1, <3>2, <3>3
  <2> HIDE DEF l
  <2>c. barPc'[a] = l /\ \A b \in BarrierActors : b # a => barPc'[b] = barPc[b]
    BY <2>a, MovedOne
  <2>d. \A b \in BarrierActors : barPc'[b] \notin Completing
    BY <1>d, <2>b, <2>c DEF Completing, AfterTake
  <2>1. Whereabouts(k)'
    BY <1>a, <1>b, <1>e, <1>g, <2>a, <2>b, <2>c DEF RoundInv, Whereabouts, AfterTake
  <2>2. Came(k)' = Came(k)
    <3>1. a \notin Came(k) /\ a \notin Came(k)'
      BY <1>b, <1>e, <1>g DEF Came, Members
    <3> QED
      BY <1>b, <1>h, <2>c, <3>1 DEF Came
  <2>3. ~Some(BeforeStore)' /\ ~Some({"slots", "shrink"})'
    BY <2>d DEF Some, BeforeStore, Completing, AfterTake
  <2>4. Counters(k)'
    BY <1>b, <1>e, <1>f, <2>b, <2>c, <2>2, <2>3 DEF RoundInv, Counters
  <2>5. Triggers(k)'
    BY <1>b, <1>f, <2>b, <2>c, <2>2, <2>3 DEF RoundInv, Triggers
  <2>6. Completion(k)'
    BY <2>d DEF Completion, Completing, AfterTake, BeforeCall, BeforeStore
  <2>7. Handles'
    <3>1. \A p \in Parties : passed[p] < arrived[p] => passed[p] # arrived[p]
      BY <1>g DEF BarrierTypeOK
    <3>2. \A p \in Parties : barPc'[p] \in {"out", "slot"} =>
             barPc[p] \in {"out", "slot"} \/ ~(passed[p] < arrived[p])
      BY <1>g, <2>b, <2>c, <3>1
    <3> QED
      BY <1>b, <2>a, <3>2 DEF RoundInv, Handles
  <2>8. Snapshot(k)'
    BY <2>d DEF Snapshot, Completing, AfterTake
  <2>9. ReleasedFirst'
    BY <1>a, <2>a, ReleasedFrame DEF RoundInv
  <2> QED
    BY <2>1, <2>4, <2>5, <2>6, <2>7, <2>8, <2>9 DEF RoundInv
<1> QED
  BY <1>1, <1>2

LEMMA BarrierKeeps == ASSUME Calm PROVE BarrierInv /\ [BarrierNext]_barrierVars => BarrierInv'
<1> SUFFICES ASSUME BarrierInv, [BarrierNext]_barrierVars PROVE BarrierInv'
  OBVIOUS
<1> PICK k \in Nat : RoundInv(k)
  BY DEF BarrierInv
<1>a. BarrierTypeOK
  BY DEF BarrierInv
<1>1. CASE BarrierNext
  <2> PICK a \in BarrierActors : BarrierStep(a)
    BY <1>1 DEF BarrierNext
  <2>1. BarrierTypeOK'
    BY <1>a, BarrierTyped
  <2>2. RoundInv(k)' \/ RoundInv(k + 1)'
    BY <1>a, ArriveRound, WriteHandleRound, CommitRound, TriggerRound, ReleaseRound,
      CompleteRound, ResetSlotsRound, ShrinkRound, StoreMaxRound, CallbackRound,
      FillSnapshotRound, DispatchSnapshotRound DEF BarrierStep
  <2> QED
    BY <2>1, <2>2 DEF BarrierInv
<1>2. CASE UNCHANGED barrierVars
  <2>1. UNCHANGED <<maxAwait, slotCount, commitCount, releaseCount, barHandles, snapshot, barPc,
                    index, prev, last, cursor, arrived, passed>>
    BY <1>2 DEF barrierVars, counters, locals
  <2>2. BarrierTypeOK'
    BY <1>a, <2>1 DEF BarrierTypeOK
  <2>3. Whereabouts(k)' /\ Handles' /\ ReleasedFirst'
    BY <2>1 DEF RoundInv, Whereabouts, Handles, ReleasedFirst
  <2>4. Came(k)' = Came(k) /\ (Some(BeforeStore)' <=> Some(BeforeStore))
        /\ (Some({"slots", "shrink"})' <=> Some({"slots", "shrink"}))
    BY <2>1 DEF Came, Some
  <2>5. Counters(k)' /\ Triggers(k)' /\ Completion(k)'
    BY <2>1, <2>4 DEF RoundInv, Counters, Triggers, Completion
  <2>6. Snapshot(k)'
    BY <2>1 DEF RoundInv, Snapshot, First
  <2> QED
    BY <2>2, <2>3, <2>5, <2>6 DEF BarrierInv, RoundInv
<1> QED
  BY <1>1, <1>2

LEMMA BarrierSound == BarrierInv => MeetingsSound
<1> SUFFICES ASSUME BarrierInv PROVE MeetingsSound
  OBVIOUS
<1> PICK k \in Nat : RoundInv(k)
  BY DEF BarrierInv
<1>1. MeetTogether
  <2>1. \A b \in Attendants : passed[b] <= k /\ passed[b] \in Nat /\ arrived[b] >= k
           /\ arrived[b] \in Nat
    <3>1. \A b \in Attendants : passed[b] \in Nat /\ arrived[b] \in Nat
      BY BarrierSets DEF BarrierInv, BarrierTypeOK
    <3>2. \A b \in Attendants : passed[b] <= k /\ arrived[b] \in {k, k + 1}
      BY DEF RoundInv, Whereabouts
    <3> QED
      BY <3>1, <3>2
  <2> QED
    BY <2>1 DEF MeetTogether, Attendants
<1>2. CompletedOnce
  <2> SUFFICES ASSUME NEW a \in BarrierActors, barPc[a] = "complete"
               PROVE  commitCount = maxAwait
    BY DEF CompletedOnce
  <2>1. ~Some(BeforeStore)
    BY DEF RoundInv, Completion, Some, BeforeStore, Completing, AfterTake
  <2>2. Came(k) = Members(k)
    BY DEF RoundInv, Completion
  <2> QED
    BY <2>1, <2>2 DEF RoundInv, Counters
<1> QED
  BY <1>1, <1>2 DEF MeetingsSound

(***************************************************************************)
(* The meetings of iris_barrier_t do not overlap: nobody comes out of one  *)
(* that another has not begun, and commit_count is max_await_count when it *)
(* is completed, with any number of coroutines, callers and releasers and  *)
(* any number of meetings, in the schedules of Calm.                       *)
(***************************************************************************)
THEOREM MeetingsKept == ASSUME Calm PROVE BarrierSpec => []MeetingsSound
<1>1. BarrierInit => BarrierInv
  BY BarrierStarts
<1>2. BarrierInv /\ [BarrierNext]_barrierVars => BarrierInv'
  BY BarrierKeeps
<1>3. BarrierInv => MeetingsSound
  BY BarrierSound
<1> QED
  BY <1>1, <1>2, <1>3, PTL DEF BarrierSpec

=============================================================================
