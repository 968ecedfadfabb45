------------------------ MODULE BucketLocks_proofs -------------------------
(* Proofs about BucketLocks, for any sets of tasks and buckets.            *)
EXTENDS BucketLocks, TLAPS, SequenceTheorems, WellFoundedInduction

----------------------------------------------------------------------------
(* The inductive invariant. *)

\* What a task has acquired it owns, and it acquired each lock once.
OwnsAcquired == \A t \in Tasks : \A l \in Acquired(t) : owner[l] = t

AcquiredOnce ==
    \A t \in Tasks :
        /\ outer[t] \cap inner[t] = {}
        /\ part[t] \cap Held(t) = {}
        /\ todo[t] = {} => part[t] = {}

\* Blocks nest at most two deep: nothing is acquired inside the inner block.
Nesting ==
    \A t \in Tasks : inner[t] # {} => outer[t] # {} /\ todo[t] = {}

\* An idle task is inside no block and enters none; a resume enters a bucket
\* block only for a job it still has to go through.
InOperation ==
    \A t \in Tasks :
        /\ op[t] = "idle" => outer[t] = {} /\ todo[t] = {}
        /\ op[t] = "resume" /\ outer[t] # {} /\ (inner[t] # {} \/ todo[t] # {})
              => jobs[t] > 0

IInv == TypeOK /\ OwnsAcquired /\ AcquiredOnce /\ Nesting /\ InOperation

----------------------------------------------------------------------------
(* Lemmas about the operators of the module. *)

\* Dropping the k-th element of a queue leaves a queue of the same tasks.
LEMMA WithoutType ==
    ASSUME NEW S, NEW q \in Seq(S), NEW k \in DOMAIN q
    PROVE  Without(q, k) \in Seq(S)
<1>1. /\ Len(q) \in Nat /\ Len(q) >= 1
      /\ DOMAIN q = 1..Len(q) /\ \A i \in 1..Len(q) : q[i] \in S
  OBVIOUS
<1>2. \A i \in 1..(Len(q) - 1) : (IF i < k THEN q[i] ELSE q[i + 1]) \in S
  BY <1>1
<1>3. Without(q, k) \in [1..(Len(q) - 1) -> S]
  BY <1>2 DEF Without
<1>4. Len(q) - 1 \in Nat
  BY <1>1
<1> QED
  BY <1>3, <1>4, SeqDef

\* Obtaining a lock nobody owns, as AcquireFree and Resume do, keeps the
\* invariant (the queues are left to the caller).
LEMMA GotPreserves ==
    ASSUME IInv, NEW t \in Tasks, NEW l \in Locks,
           l \in todo[t], owner[l] = NoTask,
           owner' = [owner EXCEPT ![l] = t], Got(t, l),
           waiters' \in [Locks -> Seq(Tasks)], UNCHANGED <<op, jobs>>
    PROVE  IInv'
<1>0. TypeOK /\ OwnsAcquired /\ AcquiredOnce /\ Nesting /\ InOperation
  BY DEF IInv
<1>1. \A u \in Tasks : l \notin outer[u] /\ l \notin inner[u] /\ l \notin part[u]
  BY <1>0, LocksAssumption DEF OwnsAcquired, Acquired, Held
<1>2. inner[t] = {}
  BY <1>0 DEF Nesting
<1>3. /\ owner' \in [Locks -> Tasks \cup {NoTask}]
      /\ op' = op /\ jobs' = jobs
      /\ owner'[l] = t
      /\ \A m \in Locks : m # l => owner'[m] = owner[m]
  BY <1>0 DEF TypeOK
<1>4. \/ /\ part' = [part EXCEPT ![t] = {}]
         /\ todo' = [todo EXCEPT ![t] = {}]
         /\ outer[t] = {}
         /\ outer' = [outer EXCEPT ![t] = part[t] \cup {l}]
         /\ inner' = inner
      \/ /\ part' = [part EXCEPT ![t] = {}]
         /\ todo' = [todo EXCEPT ![t] = {}]
         /\ outer[t] # {}
         /\ inner' = [inner EXCEPT ![t] = part[t] \cup {l}]
         /\ outer' = outer
      \/ /\ todo[t] # {l}
         /\ part' = [part EXCEPT ![t] = part[t] \cup {l}]
         /\ todo' = [todo EXCEPT ![t] = todo[t] \ {l}]
         /\ outer' = outer /\ inner' = inner
  BY <1>2 DEF Got, Depth
<1>5. TypeOK'
  <2>1. /\ outer \in [Tasks -> SUBSET Locks] /\ inner \in [Tasks -> SUBSET Locks]
        /\ part \in [Tasks -> SUBSET Locks] /\ todo \in [Tasks -> SUBSET Locks]
        /\ part[t] \cup {l} \in SUBSET Locks /\ todo[t] \ {l} \in SUBSET Locks
    BY <1>0 DEF TypeOK
  <2>2. outer' \in [Tasks -> SUBSET Locks] /\ inner' \in [Tasks -> SUBSET Locks]
    BY <1>4, <2>1
  <2>3. part' \in [Tasks -> SUBSET Locks] /\ todo' \in [Tasks -> SUBSET Locks]
    BY <1>4, <2>1
  <2> QED
    BY <1>0, <1>3, <2>2, <2>3 DEF TypeOK
<1>6. \A u \in Tasks : u # t => /\ outer'[u] = outer[u] /\ inner'[u] = inner[u]
                                /\ part'[u] = part[u] /\ todo'[u] = todo[u]
  BY <1>0, <1>4 DEF TypeOK
<1>7. /\ outer'[t] \cup inner'[t] \cup part'[t]
             = outer[t] \cup inner[t] \cup part[t] \cup {l}
      /\ outer'[t] \cap inner'[t] = {}
      /\ part'[t] \cap (outer'[t] \cup inner'[t]) = {}
      /\ todo'[t] = {} => part'[t] = {}
      /\ inner'[t] # {} => outer'[t] # {} /\ todo'[t] = {}
  <2>1. CASE outer[t] = {}
    BY <1>0, <1>1, <1>2, <1>4, <2>1 DEF TypeOK, AcquiredOnce, Held
  <2>2. CASE outer[t] # {}
    BY <1>0, <1>1, <1>2, <1>4, <2>2 DEF TypeOK, AcquiredOnce, Held
  <2> QED
    BY <2>1, <2>2
<1>8. OwnsAcquired'
  <2>1. SUFFICES ASSUME NEW u \in Tasks, NEW m \in outer'[u] \cup inner'[u] \cup part'[u]
                 PROVE  owner'[m] = u
    BY DEF OwnsAcquired, Acquired, Held
  <2>2. CASE m = l
    BY <1>1, <1>3, <1>6, <2>1, <2>2
  <2>3. CASE m # l
    <3>1. m \in outer[u] \cup inner[u] \cup part[u]
      BY <1>6, <1>7, <2>1, <2>3
    <3>2. m \in Locks
      BY <3>1, <1>0 DEF TypeOK
    <3> QED
      BY <1>0, <1>3, <2>3, <3>1, <3>2 DEF OwnsAcquired, Acquired, Held
  <2> QED
    BY <2>2, <2>3
<1>9. AcquiredOnce'
  <2>1. SUFFICES ASSUME NEW u \in Tasks
                 PROVE  /\ outer'[u] \cap inner'[u] = {}
                        /\ part'[u] \cap (outer'[u] \cup inner'[u]) = {}
                        /\ todo'[u] = {} => part'[u] = {}
    BY DEF AcquiredOnce, Held
  <2> QED
    BY <1>0, <1>6, <1>7 DEF AcquiredOnce, Held
<1>10. Nesting'
  <2>1. SUFFICES ASSUME NEW u \in Tasks
                 PROVE  inner'[u] # {} => outer'[u] # {} /\ todo'[u] = {}
    BY DEF Nesting
  <2> QED
    BY <1>0, <1>6, <1>7 DEF Nesting
<1>11. InOperation'
  <2>1. SUFFICES ASSUME NEW u \in Tasks
                 PROVE  /\ op[u] = "idle" => outer'[u] = {} /\ todo'[u] = {}
                        /\ op[u] = "resume" /\ outer'[u] # {}
                              /\ (inner'[u] # {} \/ todo'[u] # {})
                             => jobs[u] > 0
    BY <1>3 DEF InOperation
  <2>2. CASE u = t
    <3>1. op[t] # "idle"
      BY <1>0 DEF InOperation
    <3>2. ASSUME inner'[t] # {} \/ todo'[t] # {} , outer'[t] # {}, outer[t] = {}
          PROVE  FALSE
      BY <1>0, <1>1, <1>2, <1>4, <3>2 DEF TypeOK
    <3> QED
      BY <1>0, <2>2, <3>1, <3>2 DEF InOperation
  <2>3. CASE u # t
    BY <1>0, <1>6, <2>3 DEF InOperation
  <2> QED
    BY <2>2, <2>3
<1> QED
  BY <1>5, <1>8, <1>9, <1>10, <1>11 DEF IInv

\* Leaving blocks, as Finish, LeaveManage and Cancel do: keep, the blocks t
\* stays inside, loses whatever is released.
LEMMA LeavePreserves ==
    ASSUME IInv, NEW t \in Tasks, NEW n \in 0..MaxJobs,
           NEW o \in Kinds \cup {"idle"}, NEW keep \in SUBSET outer[t],
           o = "idle" => keep = {},
           owner' = Released(Held(t) \ keep),
           outer' = [outer EXCEPT ![t] = keep], inner' = [inner EXCEPT ![t] = {}],
           part' = [part EXCEPT ![t] = {}], todo' = [todo EXCEPT ![t] = {}],
           op' = [op EXCEPT ![t] = o], jobs' = [jobs EXCEPT ![t] = n],
           waiters' \in [Locks -> Seq(Tasks)]
    PROVE  IInv'
<1>0. TypeOK /\ OwnsAcquired /\ AcquiredOnce /\ Nesting /\ InOperation
  BY DEF IInv
<1>1. TypeOK'
  BY <1>0 DEF TypeOK, Released
<1>2. /\ outer'[t] = keep /\ inner'[t] = {} /\ part'[t] = {} /\ todo'[t] = {}
      /\ \A u \in Tasks : u # t => /\ outer'[u] = outer[u] /\ inner'[u] = inner[u]
                                   /\ part'[u] = part[u] /\ todo'[u] = todo[u]
  BY <1>0 DEF TypeOK
<1>3. OwnsAcquired'
  <2>1. SUFFICES ASSUME NEW u \in Tasks, NEW m \in outer'[u] \cup inner'[u] \cup part'[u]
                 PROVE  owner'[m] = u
    BY DEF OwnsAcquired, Acquired, Held
  <2>2. m \in outer[u] \cup inner[u] \cup part[u]
    BY <1>2, <2>1
  <2>3. m \in Locks /\ owner[m] = u
    BY <2>2, <1>0 DEF TypeOK, OwnsAcquired, Acquired, Held
  <2>4. m \notin Held(t) \ keep
    <3>1. CASE u = t
      BY <1>2, <2>1, <3>1
    <3>2. CASE u # t
      BY <1>0, <2>3, <3>2 DEF OwnsAcquired, Acquired
    <3> QED
      BY <3>1, <3>2
  <2> QED
    BY <2>3, <2>4 DEF Released
<1>4. AcquiredOnce'
  BY <1>0, <1>2 DEF AcquiredOnce, Held
<1>5. Nesting'
  BY <1>0, <1>2 DEF Nesting
<1>6. InOperation'
  <2>1. /\ op'[t] = o
        /\ \A u \in Tasks : u # t => op'[u] = op[u] /\ jobs'[u] = jobs[u]
    BY <1>0 DEF TypeOK
  <2> QED
    BY <1>0, <1>2, <2>1 DEF InOperation
<1> QED
  BY <1>1, <1>3, <1>4, <1>5, <1>6 DEF IInv

----------------------------------------------------------------------------
(* The invariant holds initially and every step preserves it.              *)

LEMMA InitEstablishes == Init => IInv
<1> SUFFICES ASSUME Init PROVE IInv
  OBVIOUS
<1>1. TypeOK
  <2>1. 0 \in 0..MaxJobs
    BY LocksAssumption
  <2> QED
    BY <2>1 DEF Init, TypeOK
<1>2. OwnsAcquired /\ AcquiredOnce /\ Nesting /\ InOperation
  BY DEF Init, OwnsAcquired, AcquiredOnce, Nesting, InOperation, Acquired, Held
<1> QED
  BY <1>1, <1>2 DEF IInv

\* One step per action of the module; the acquisitions and the departures go
\* through the two lemmas above.
LEMMA StepPreserves == IInv /\ [Next]_vars => IInv'
<1> SUFFICES ASSUME IInv, [Next]_vars PROVE IInv'
  OBVIOUS
<1>0. TypeOK /\ OwnsAcquired /\ AcquiredOnce /\ Nesting /\ InOperation
  BY DEF IInv
<1>1. ASSUME NEW t \in Tasks, Start(t) PROVE IInv'
  <2>1. PICK k \in Kinds, n \in 0..MaxJobs :
            op' = [op EXCEPT ![t] = k] /\ jobs' = [jobs EXCEPT ![t] = n]
    BY <1>1 DEF Start
  <2>2. UNCHANGED <<owner, waiters, outer, inner, part, todo>>
    BY <1>1 DEF Start
  <2>3. TypeOK'
    BY <1>0, <2>1, <2>2 DEF TypeOK
  <2>4. OwnsAcquired' /\ AcquiredOnce' /\ Nesting'
    BY <1>0, <2>2 DEF OwnsAcquired, AcquiredOnce, Nesting, Acquired, Held
  <2>5. InOperation'
    <3>1. outer[t] = {} /\ todo[t] = {} /\ k # "idle"
      BY <1>0, <1>1, LocksAssumption DEF Start, InOperation
    <3>2. /\ op'[t] = k
          /\ \A u \in Tasks : u # t => op'[u] = op[u] /\ jobs'[u] = jobs[u]
      BY <1>0, <2>1 DEF TypeOK
    <3> QED
      BY <1>0, <2>2, <3>1, <3>2 DEF InOperation
  <2> QED
    BY <2>3, <2>4, <2>5 DEF IInv
<1>2. ASSUME NEW t \in Tasks, EnterBlock(t) PROVE IInv'
  <2>1. PICK g \in SUBSET Locks : MayEnter(t, g) /\ todo' = [todo EXCEPT ![t] = g]
    BY <1>2 DEF EnterBlock
  <2>2. UNCHANGED <<owner, waiters, op, outer, inner, part, jobs>> /\ todo[t] = {}
    BY <1>2 DEF EnterBlock
  <2>3. inner[t] = {} /\ part[t] = {}
    BY <1>0, <2>1, <2>2 DEF MayEnter, Depth, AcquiredOnce, Nesting
  <2>4. /\ todo'[t] = g
        /\ \A u \in Tasks : u # t => todo'[u] = todo[u]
        /\ todo' \in [Tasks -> SUBSET Locks]
    BY <1>0, <2>1 DEF TypeOK
  <2>5. TypeOK' /\ OwnsAcquired'
    BY <1>0, <2>2, <2>4 DEF TypeOK, OwnsAcquired, Acquired, Held
  <2>6. AcquiredOnce' /\ Nesting'
    BY <1>0, <2>2, <2>3, <2>4 DEF AcquiredOnce, Nesting, Held
  <2>7. InOperation'
    BY <1>0, <2>1, <2>2, <2>4 DEF InOperation, MayEnter, Depth
  <2> QED
    BY <2>5, <2>6, <2>7 DEF IInv
<1>3. ASSUME NEW t \in Tasks, AcquireFree(t) PROVE IInv'
  <2>1. PICK l \in Locks : /\ IsLeast(l, todo[t]) /\ owner[l] = NoTask
                           /\ owner' = [owner EXCEPT ![l] = t] /\ Got(t, l)
    BY <1>3 DEF AcquireFree
  <2>2. l \in todo[t]
    BY <2>1 DEF IsLeast
  <2>3. waiters' \in [Locks -> Seq(Tasks)] /\ UNCHANGED <<op, jobs>>
    BY <1>0, <1>3 DEF AcquireFree, TypeOK
  <2> QED
    BY <2>1, <2>2, <2>3, GotPreserves
<1>4. ASSUME NEW t \in Tasks, Suspend(t) PROVE IInv'
  <2>1. PICK l \in Locks : waiters' = [waiters EXCEPT ![l] = Append(waiters[l], t)]
    BY <1>4 DEF Suspend
  <2>2. Append(waiters[l], t) \in Seq(Tasks)
    BY <1>0 DEF TypeOK
  <2>3. waiters' \in [Locks -> Seq(Tasks)]
    BY <1>0, <2>1, <2>2 DEF TypeOK
  <2>4. UNCHANGED <<owner, op, outer, inner, part, todo, jobs>>
    BY <1>4 DEF Suspend
  <2> QED
    BY <1>0, <2>3, <2>4
    DEF IInv, TypeOK, OwnsAcquired, AcquiredOnce, Nesting, InOperation, Acquired, Held
<1>5. ASSUME NEW t \in Tasks, Resume(t) PROVE IInv'
  <2>1. PICK l \in Locks : /\ IsLeast(l, todo[t]) /\ owner[l] = NoTask
                           /\ waiters[l] # <<>>
                           /\ owner' = [owner EXCEPT ![l] = t] /\ Got(t, l)
                           /\ waiters' = [waiters EXCEPT ![l] = Tail(waiters[l])]
    BY <1>5 DEF Resume
  <2>2. l \in todo[t]
    BY <2>1 DEF IsLeast
  <2>3. Tail(waiters[l]) \in Seq(Tasks)
    BY <1>0, <2>1 DEF TypeOK
  <2>4. waiters' \in [Locks -> Seq(Tasks)] /\ UNCHANGED <<op, jobs>>
    BY <1>0, <1>5, <2>1, <2>3 DEF Resume, TypeOK
  <2> QED
    BY <2>1, <2>2, <2>4, GotPreserves
<1>6. ASSUME NEW t \in Tasks, Finish(t) PROVE IInv'
  <2>1. /\ todo[t] = {} /\ part[t] = {} /\ jobs[t] = 0
    BY <1>0, <1>6 DEF Finish, Innermost, Inside, AcquiredOnce
  <2>2. /\ part' = [part EXCEPT ![t] = {}] /\ todo' = [todo EXCEPT ![t] = {}]
        /\ jobs' = [jobs EXCEPT ![t] = 0] /\ waiters' \in [Locks -> Seq(Tasks)]
    BY <1>0, <1>6, <2>1 DEF Finish, TypeOK
  <2>3. /\ owner' = Released(Held(t) \ {}) /\ outer' = [outer EXCEPT ![t] = {}]
        /\ inner' = [inner EXCEPT ![t] = {}] /\ op' = [op EXCEPT ![t] = "idle"]
    <3>1. Held(t) \ {} = Held(t)
      OBVIOUS
    <3> QED
      BY <1>6, <3>1 DEF Finish
  <2>4. 0 \in 0..MaxJobs
    BY LocksAssumption
  <2> QED
    BY <2>2, <2>3, <2>4, LeavePreserves
<1>7. ASSUME NEW t \in Tasks, LeaveManage(t) PROVE IInv'
  <2>1. /\ todo[t] = {} /\ part[t] = {} /\ Held(t) \ outer[t] = inner[t]
    BY <1>0, <1>7 DEF LeaveManage, Inside, AcquiredOnce, Held
  <2>2. UNCHANGED <<waiters, op, outer, part, todo>>
    BY <1>7 DEF LeaveManage
  <2>3. /\ part' = [part EXCEPT ![t] = {}] /\ todo' = [todo EXCEPT ![t] = {}]
        /\ outer' = [outer EXCEPT ![t] = outer[t]] /\ op' = [op EXCEPT ![t] = op[t]]
        /\ op[t] \in Kinds \cup {"idle"} /\ waiters' \in [Locks -> Seq(Tasks)]
    BY <1>0, <2>1, <2>2 DEF TypeOK
  <2>4. jobs' = [jobs EXCEPT ![t] = jobs[t] - 1] /\ jobs[t] - 1 \in 0..MaxJobs
    <3>1. jobs[t] \in 0..MaxJobs
      BY <1>0 DEF TypeOK
    <3>2. op[t] = "resume" /\ outer[t] # {} /\ inner[t] # {}
      BY <1>7 DEF LeaveManage, Depth
    <3>3. jobs[t] > 0
      BY <1>0, <3>2 DEF InOperation
    <3> QED
      BY <1>7, <3>1, <3>3, LocksAssumption DEF LeaveManage
  <2>6. op[t] # "idle"
    BY <1>7 DEF LeaveManage
  <2>5. owner' = Released(Held(t) \ outer[t]) /\ inner' = [inner EXCEPT ![t] = {}]
    BY <1>7, <2>1 DEF LeaveManage
  <2> QED
    BY <2>3, <2>4, <2>5, <2>6, LeavePreserves
<1>8. ASSUME NEW t \in Tasks, Cancel(t) PROVE IInv'
  <2>1. waiters' \in [Locks -> Seq(Tasks)]
    <3>1. CASE UNCHANGED waiters
      BY <1>0, <3>1 DEF TypeOK
    <3>2. CASE \E l \in Locks : \E k \in DOMAIN waiters[l] :
                  waiters' = [waiters EXCEPT ![l] = Without(waiters[l], k)]
      <4>1. PICK l \in Locks : \E k \in DOMAIN waiters[l] :
                  waiters' = [waiters EXCEPT ![l] = Without(waiters[l], k)]
        BY <3>2
      <4>2. PICK k \in DOMAIN waiters[l] :
                  waiters' = [waiters EXCEPT ![l] = Without(waiters[l], k)]
        BY <4>1
      <4>3. Without(waiters[l], k) \in Seq(Tasks)
        BY <1>0, WithoutType DEF TypeOK
      <4> QED
        BY <1>0, <4>2, <4>3 DEF TypeOK
    <3> QED
      BY <1>8, <3>1, <3>2 DEF Cancel
  <2>2. /\ part' = [part EXCEPT ![t] = {}] /\ todo' = [todo EXCEPT ![t] = {}]
        /\ jobs' = [jobs EXCEPT ![t] = 0]
        /\ outer' = [outer EXCEPT ![t] = {}]
        /\ inner' = [inner EXCEPT ![t] = {}] /\ op' = [op EXCEPT ![t] = "idle"]
    BY <1>8 DEF Cancel
  <2>3. owner' = Released(Held(t) \ {})
    <3>1. Held(t) \ {} = Held(t)
      OBVIOUS
    <3> QED
      BY <1>8, <3>1 DEF Cancel
  <2>4. 0 \in 0..MaxJobs
    BY LocksAssumption
  <2> QED
    BY <2>1, <2>2, <2>3, <2>4, LeavePreserves
<1>9. CASE UNCHANGED vars
  BY <1>0, <1>9
  DEF vars, IInv, TypeOK, OwnsAcquired, AcquiredOnce, Nesting, InOperation, Acquired, Held
<1> QED
  BY <1>1, <1>2, <1>3, <1>4, <1>5, <1>6, <1>7, <1>8, <1>9 DEF Next, Advance

----------------------------------------------------------------------------
(* Theorems.                                                               *)

\* IInv is inductive, whether or not tasks are cancelled.
THEOREM Invariance == Spec => []IInv
  BY InitEstablishes, StepPreserves, PTL DEF Spec

\* The variables keep their types.
THEOREM TypeCorrect == Spec => []TypeOK
<1>1. IInv => TypeOK
  BY DEF IInv
<1> QED
  BY <1>1, Invariance, PTL

\* Two operations never share a lock, even if tasks are cancelled while they
\* are halfway into a group of locks.
THEOREM MutuallyExclusive == Spec => []MutualExclusion
<1>1. IInv => MutualExclusion
  BY DEF IInv, OwnsAcquired, MutualExclusion
<1> QED
  BY <1>1, Invariance, PTL

----------------------------------------------------------------------------
(* All but resume_pending_jobs acquire locks upwards, and without          *)
(* cancellation no lock is left behind: without resumes nobody ever waits  *)
(* in a circle.                                                            *)

\* A creator's outer block is a bucket, so the global lock comes after it.
CreatesBucketFirst ==
    \A t \in Tasks : op[t] = "create" =>
        /\ outer[t] \subseteq Buckets
        /\ outer[t] = {} => todo[t] \subseteq Buckets /\ part[t] \subseteq Buckets
        /\ outer[t] # {} => todo[t] \subseteq {Global} /\ part[t] = {}

UpInv == AcquiresUpwards /\ CreatesBucketFirst

LEMMA InitUpwards == Init => UpInv /\ OnlyInvolvedBucketsLocked
  BY DEF Init, UpInv, AcquiresUpwards, CreatesBucketFirst, OnlyInvolvedBucketsLocked

\* What an acquisition does to the sets of one task.
LEMMA GotMoves ==
    ASSUME IInv, NEW t \in Tasks, NEW l \in Locks, l \in todo[t], Got(t, l)
    PROVE  /\ Acquired(t)' = Acquired(t) \cup {l}
           /\ todo'[t] = todo[t] \ {l}
           /\ \A u \in Tasks : u # t => /\ outer'[u] = outer[u]
                                        /\ part'[u] = part[u]
                                        /\ todo'[u] = todo[u]
                                        /\ Acquired(u)' = Acquired(u)
           /\ todo'[t] = {} => part'[t] = {}
           /\ \/ outer'[t] = outer[t] /\ part'[t] \in {{}, part[t] \cup {l}}
              \/ outer[t] = {} /\ outer'[t] = part[t] \cup {l} /\ todo'[t] = {}
<1>1. TypeOK /\ inner[t] = {}
  BY DEF IInv, Nesting
<1>2. CASE todo[t] = {l} /\ outer[t] = {}
  BY <1>1, <1>2 DEF Got, Depth, TypeOK, Acquired, Held
<1>3. CASE todo[t] = {l} /\ outer[t] # {}
  BY <1>1, <1>3 DEF Got, Depth, TypeOK, Acquired, Held
<1>4. CASE todo[t] # {l}
  BY <1>1, <1>4 DEF Got, TypeOK, Acquired, Held
<1> QED
  BY <1>2, <1>3, <1>4

LEMMA GotUpwards ==
    ASSUME IInv, UpInv, NEW t \in Tasks, NEW l \in Locks,
           IsLeast(l, todo[t]), Got(t, l), UNCHANGED op
    PROVE  UpInv'
<1>1. l \in todo[t] /\ \A m \in todo[t] : l <= m
  BY DEF IsLeast
<1>2. /\ Acquired(t)' = Acquired(t) \cup {l}
      /\ todo'[t] = todo[t] \ {l}
      /\ \A u \in Tasks : u # t => /\ outer'[u] = outer[u]
                                   /\ part'[u] = part[u]
                                   /\ todo'[u] = todo[u]
                                   /\ Acquired(u)' = Acquired(u)
      /\ todo'[t] = {} => part'[t] = {}
      /\ \/ outer'[t] = outer[t] /\ part'[t] \in {{}, part[t] \cup {l}}
         \/ outer[t] = {} /\ outer'[t] = part[t] \cup {l} /\ todo'[t] = {}
  BY <1>1, GotMoves
<1>3. AcquiresUpwards'
  <2>1. SUFFICES ASSUME NEW u \in Tasks, op[u] # "resume",
                        NEW k \in todo'[u], NEW m \in Acquired(u)'
                 PROVE  m < k
    BY DEF AcquiresUpwards
  <2>2. CASE u = t
    <3>1. k \in todo[t] /\ k # l /\ l <= k
      BY <1>1, <1>2, <2>2
    <3>2. k \in Nat /\ l \in Nat
      BY <3>1, LocksAssumption DEF IInv, TypeOK, Locks
    <3>3. CASE m = l
      BY <3>1, <3>2, <3>3
    <3>4. CASE m # l
      BY <1>2, <2>1, <2>2, <3>1, <3>4 DEF UpInv, AcquiresUpwards
    <3> QED
      BY <3>3, <3>4
  <2>3. CASE u # t
    BY <1>2, <2>1, <2>3 DEF UpInv, AcquiresUpwards
  <2> QED
    BY <2>2, <2>3
<1>4. CreatesBucketFirst'
  <2>1. SUFFICES ASSUME NEW u \in Tasks, op[u] = "create"
                 PROVE  /\ outer'[u] \subseteq Buckets
                        /\ outer'[u] = {} => todo'[u] \subseteq Buckets
                                               /\ part'[u] \subseteq Buckets
                        /\ outer'[u] # {} => todo'[u] \subseteq {Global}
                                               /\ part'[u] = {}
    BY DEF CreatesBucketFirst
  <2>2. CASE u # t
    BY <1>2, <2>1, <2>2 DEF UpInv, CreatesBucketFirst
  <2>3. CASE u = t
    BY <1>1, <1>2, <2>1, <2>3 DEF UpInv, CreatesBucketFirst
  <2> QED
    BY <2>2, <2>3
<1> QED
  BY <1>3, <1>4 DEF UpInv

\* Leaving blocks only makes the sets smaller.
LEMMA StepUpwards == IInv /\ UpInv /\ [Next]_vars => UpInv'
<1> SUFFICES ASSUME IInv, UpInv, [Next]_vars PROVE UpInv'
  OBVIOUS
<1>0. TypeOK /\ AcquiredOnce /\ Nesting /\ InOperation /\ AcquiresUpwards /\ CreatesBucketFirst
  BY DEF IInv, UpInv
<1>1. ASSUME NEW t \in Tasks, Start(t) PROVE UpInv'
  <2>1. PICK k \in Kinds : op' = [op EXCEPT ![t] = k]
    BY <1>1 DEF Start
  <2>2. UNCHANGED <<outer, inner, part, todo>> /\ op[t] = "idle"
    BY <1>1 DEF Start
  <2>3. outer[t] = {} /\ todo[t] = {} /\ part[t] = {}
    BY <1>0, <2>2 DEF InOperation, AcquiredOnce
  <2>4. \A u \in Tasks : u # t => op'[u] = op[u]
    BY <1>0, <2>1 DEF TypeOK
  <2> QED
    BY <1>0, <2>2, <2>3, <2>4
    DEF UpInv, AcquiresUpwards, CreatesBucketFirst, Acquired, Held
<1>2. ASSUME NEW t \in Tasks, EnterBlock(t) PROVE UpInv'
  <2>1. PICK g \in SUBSET Locks : MayEnter(t, g) /\ todo' = [todo EXCEPT ![t] = g]
    BY <1>2 DEF EnterBlock
  <2>2. UNCHANGED <<op, outer, inner, part>> /\ todo[t] = {}
    BY <1>2 DEF EnterBlock
  <2>3. /\ todo'[t] = g
        /\ \A u \in Tasks : u # t => todo'[u] = todo[u]
    BY <1>0, <2>1 DEF TypeOK
  <2>4. part[t] = {} /\ inner[t] = {}
    BY <1>0, <2>1, <2>2 DEF MayEnter, Depth, AcquiredOnce, Nesting
  <2>6. outer[t] # {} /\ op[t] # "resume"
           => op[t] = "create" /\ g = {Global} /\ outer[t] \subseteq Buckets
    BY <1>0, <2>1 DEF MayEnter, Depth, CreatesBucketFirst
  <2>7. outer[t] = {} /\ op[t] = "create" => g \subseteq Buckets
    BY <2>1 DEF MayEnter, Depth, OneBucket
  <2>8. AcquiresUpwards'
    <3>1. SUFFICES ASSUME NEW u \in Tasks, op[u] # "resume", NEW k \in todo'[u],
                          NEW m \in outer[u] \cup inner[u] \cup part[u]
                   PROVE  m < k
      BY <2>2 DEF AcquiresUpwards, Acquired, Held
    <3>2. CASE u = t
      BY <2>3, <2>4, <2>6, <3>1, <3>2, LocksAssumption
    <3>3. CASE u # t
      BY <1>0, <2>3, <3>1, <3>3 DEF AcquiresUpwards, Acquired, Held
    <3> QED
      BY <3>2, <3>3
  <2>9. CreatesBucketFirst'
    BY <1>0, <2>2, <2>3, <2>4, <2>6, <2>7 DEF CreatesBucketFirst
  <2> QED
    BY <2>8, <2>9 DEF UpInv
<1>3. ASSUME NEW t \in Tasks, AcquireFree(t) PROVE UpInv'
  BY <1>3, GotUpwards DEF AcquireFree
<1>4. ASSUME NEW t \in Tasks, Suspend(t) PROVE UpInv'
  BY <1>0, <1>4 DEF Suspend, UpInv, AcquiresUpwards, CreatesBucketFirst, Acquired, Held
<1>5. ASSUME NEW t \in Tasks, Resume(t) PROVE UpInv'
  BY <1>5, GotUpwards DEF Resume
<1>6. ASSUME NEW t \in Tasks, Finish(t) \/ Cancel(t) PROVE UpInv'
  <2>2. /\ op'[t] = "idle" /\ outer'[t] = {} /\ todo'[t] = {}
        /\ \A u \in Tasks : u # t => /\ op'[u] = op[u] /\ outer'[u] = outer[u]
                                     /\ inner'[u] = inner[u] /\ part'[u] = part[u]
                                     /\ todo'[u] = todo[u]
    BY <1>0, <1>6 DEF TypeOK, Finish, Cancel, Innermost, Inside
  <2> QED
    BY <1>0, <2>2 DEF UpInv, AcquiresUpwards, CreatesBucketFirst, Acquired, Held
<1>8. ASSUME NEW t \in Tasks, LeaveManage(t) PROVE UpInv'
  <2>1. op[t] = "resume" /\ UNCHANGED <<op, outer, part, todo>>
    BY <1>8 DEF LeaveManage
  <2>2. \A u \in Tasks : u # t => inner'[u] = inner[u]
    BY <1>0, <1>8 DEF TypeOK, LeaveManage
  <2> QED
    BY <1>0, <2>1, <2>2 DEF UpInv, AcquiresUpwards, CreatesBucketFirst, Acquired, Held
<1>7. CASE UNCHANGED vars
  BY <1>0, <1>7 DEF vars, UpInv, AcquiresUpwards, CreatesBucketFirst, Acquired, Held
<1> QED
  BY <1>1, <1>2, <1>3, <1>4, <1>5, <1>6, <1>7, <1>8 DEF Next, Advance

(* What is locked is locked for an operation. *)

\* A group of several locks is a move's pair of buckets; any other operation
\* has nothing in hand while it waits for the next lock but the blocks it is in.
Groups ==
    \A t \in Tasks :
        /\ op[t] = "move" => part[t] \cup todo[t] \subseteq Buckets
        /\ op[t] # "move" => part[t] = {} /\ \A l, m \in todo[t] : l = m

LEMMA StepGroups == IInv /\ Groups /\ [Next]_vars => Groups'
<1> SUFFICES ASSUME IInv, Groups, [Next]_vars
             PROVE  Groups'
  OBVIOUS
<1>0. TypeOK /\ AcquiredOnce /\ Nesting /\ InOperation
  BY DEF IInv
<1>1. ASSUME NEW t \in Tasks, Start(t) PROVE Groups'
  <2>1. todo[t] = {} /\ part[t] = {} /\ UNCHANGED <<part, todo>>
    BY <1>0, <1>1 DEF Start, InOperation, AcquiredOnce
  <2>2. \A u \in Tasks : u # t => op'[u] = op[u]
    BY <1>0, <1>1 DEF Start, TypeOK
  <2> QED
    BY <2>1, <2>2 DEF Groups
<1>2. ASSUME NEW t \in Tasks, EnterBlock(t) PROVE Groups'
  <2>1. PICK g \in SUBSET Locks : MayEnter(t, g) /\ todo' = [todo EXCEPT ![t] = g]
    BY <1>2 DEF EnterBlock
  <2>2. UNCHANGED <<op, part>> /\ part[t] = {}
    BY <1>0, <1>2 DEF EnterBlock, AcquiredOnce
  <2>3. /\ op[t] = "move" => g \subseteq Buckets
        /\ op[t] # "move" => \A l, m \in g : l = m
    BY <2>1 DEF MayEnter, OneBucket, Pair
  <2> QED
    BY <1>0, <2>1, <2>2, <2>3 DEF TypeOK, Groups
<1>3. ASSUME NEW t \in Tasks, AcquireFree(t) \/ Resume(t) PROVE Groups'
  <2>1. PICK l \in Locks : l \in todo[t] /\ Got(t, l) /\ op' = op
    BY <1>3 DEF AcquireFree, Resume, IsLeast
  <2>2. \/ /\ part' = [part EXCEPT ![t] = {}] /\ todo' = [todo EXCEPT ![t] = {}]
        \/ /\ todo[t] # {l}
           /\ part' = [part EXCEPT ![t] = @ \cup {l}]
           /\ todo' = [todo EXCEPT ![t] = @ \ {l}]
    BY <2>1 DEF Got
  <2>3. \A u \in Tasks : u # t => part'[u] = part[u] /\ todo'[u] = todo[u]
    BY <1>0, <2>2 DEF TypeOK
  <2>4. part[t] \in SUBSET Locks /\ todo[t] \in SUBSET Locks
    BY <1>0 DEF TypeOK
  <2>5. CASE op[t] = "move"
    <3>1. part'[t] \cup todo'[t] \subseteq part[t] \cup todo[t]
      BY <1>0, <2>1, <2>2, <2>4 DEF TypeOK
    <3> QED
      BY <2>1, <2>3, <2>5, <3>1 DEF Groups
  <2>6. CASE op[t] # "move"
    <3>1. todo[t] = {l}
      BY <2>1, <2>6 DEF Groups
    <3>2. part'[t] = {} /\ todo'[t] = {}
      BY <1>0, <2>2, <3>1 DEF TypeOK
    <3> QED
      BY <2>1, <2>3, <2>6, <3>2 DEF Groups
  <2> QED
    BY <2>5, <2>6
<1>4. ASSUME NEW t \in Tasks, Suspend(t) \/ LeaveManage(t) PROVE Groups'
  BY <1>4 DEF Suspend, LeaveManage, Groups
<1>5. ASSUME NEW t \in Tasks, Finish(t) \/ Cancel(t) PROVE Groups'
  <2>1. /\ op'[t] = "idle" /\ part'[t] = {} /\ todo'[t] = {}
        /\ \A u \in Tasks : u # t => /\ op'[u] = op[u]
                                     /\ part'[u] = part[u] /\ todo'[u] = todo[u]
    BY <1>0, <1>5 DEF TypeOK, AcquiredOnce, Finish, Cancel, Innermost, Inside
  <2> QED
    BY <2>1 DEF Groups
<1>6. CASE UNCHANGED vars
  BY <1>6 DEF vars, Groups
<1> QED
  BY <1>1, <1>2, <1>3, <1>4, <1>5, <1>6 DEF Next, Advance

LEMMA GroupsHold == Spec => []Groups
<1>1. Init => Groups
  BY DEF Init, Groups
<1> QED
  BY <1>1, StepGroups, Invariance, PTL DEF Spec

\* If m is held, its holder is an operation that asked for it.
Involved(m) == owner[m] # NoTask => m \in Acquired(owner[m])

\* A cancelled task loses track of nothing but the locks of a half-acquired
\* group, which are the buckets of a move.
LEMMA StepInvolved ==
    ASSUME NEW m \in Locks, Cancels /\ "move" \in Kinds => m = Global
    PROVE  IInv /\ Groups /\ Involved(m) /\ [Next]_vars => Involved(m)'
<1> SUFFICES ASSUME IInv, Groups, Involved(m), [Next]_vars
             PROVE  Involved(m)'
  OBVIOUS
<1>0. TypeOK /\ OwnsAcquired /\ AcquiredOnce
  BY DEF IInv
<1>1. SUFFICES ASSUME NEW v \in Tasks, owner'[m] = v
               PROVE  m \in outer'[v] \cup inner'[v] \cup part'[v]
  <2>1. TypeOK'
    BY StepPreserves DEF IInv
  <2> QED
    BY <2>1, <1>1 DEF TypeOK, Involved, Acquired, Held
<1>2. owner[m] = v => m \in outer[v] \cup inner[v] \cup part[v]
  BY LocksAssumption DEF Involved, Acquired, Held
<1>3. ASSUME NEW t \in Tasks, Start(t) \/ EnterBlock(t) \/ Suspend(t)
      PROVE  m \in outer'[v] \cup inner'[v] \cup part'[v]
  BY <1>1, <1>2, <1>3 DEF Start, EnterBlock, Suspend
<1>4. ASSUME NEW t \in Tasks, AcquireFree(t) \/ Resume(t)
      PROVE  m \in outer'[v] \cup inner'[v] \cup part'[v]
  <2>1. PICK l \in Locks : /\ l \in todo[t] /\ Got(t, l)
                           /\ owner' = [owner EXCEPT ![l] = t]
    BY <1>4 DEF AcquireFree, Resume, IsLeast
  <2>2. /\ Acquired(t)' = Acquired(t) \cup {l}
        /\ \A u \in Tasks : u # t => Acquired(u)' = Acquired(u)
    BY <2>1, GotMoves
  <2>3. CASE m = l
    BY <1>0, <1>1, <2>1, <2>2, <2>3 DEF TypeOK, Acquired, Held
  <2>4. CASE m # l
    <3>1. owner[m] = v
      BY <1>0, <1>1, <2>1, <2>4 DEF TypeOK
    <3> QED
      BY <1>2, <2>2, <3>1 DEF Acquired, Held
  <2> QED
    BY <2>3, <2>4
<1>5. ASSUME NEW t \in Tasks, Finish(t) \/ Cancel(t)
      PROVE  m \in outer'[v] \cup inner'[v] \cup part'[v]
  <2>1. m \notin part[t]
    <3>1. CASE Finish(t)
      BY <1>0, <3>1 DEF Finish, Innermost, Inside, AcquiredOnce
    <3>2. CASE Cancel(t)
      <4>1. op[t] \in Kinds \cup {"idle"} /\ Cancels
        BY <1>0, <3>2 DEF TypeOK, Cancel
      <4>2. CASE op[t] = "move"
        BY <4>1, <4>2, LocksAssumption DEF Groups
      <4>3. CASE op[t] # "move"
        BY <4>3 DEF Groups
      <4> QED
        BY <4>2, <4>3
    <3> QED
      BY <1>5, <3>1, <3>2
  <2>2. owner[m] = v /\ m \notin outer[t] \cup inner[t]
    BY <1>1, <1>5, LocksAssumption DEF Finish, Cancel, Released, Held
  <2>3. \A u \in Tasks : u # t => /\ outer'[u] = outer[u] /\ inner'[u] = inner[u]
                                  /\ part'[u] = part[u]
    BY <1>0, <1>5 DEF Finish, Cancel, TypeOK
  <2> QED
    BY <1>2, <2>1, <2>2, <2>3
<1>6. ASSUME NEW t \in Tasks, LeaveManage(t)
      PROVE  m \in outer'[v] \cup inner'[v] \cup part'[v]
  <2>1. /\ outer' = outer /\ part' = part
        /\ \A u \in Tasks : u # t => inner'[u] = inner[u]
    BY <1>0, <1>6 DEF LeaveManage, TypeOK
  <2>2. owner[m] = v /\ m \notin inner[t]
    BY <1>1, <1>6, LocksAssumption DEF LeaveManage, Released
  <2> QED
    BY <1>2, <2>1, <2>2
<1>7. CASE UNCHANGED vars
  BY <1>1, <1>2, <1>7 DEF vars
<1> QED
  BY <1>3, <1>4, <1>5, <1>6, <1>7 DEF Next, Advance

LEMMA InitInvolved == ASSUME NEW m \in Locks PROVE Init => Involved(m)
  BY DEF Init, Involved

\* A set of numbers below a bound has a greatest element.
LEMMA Greatest ==
    ASSUME NEW n \in Nat, NEW S, S \subseteq 0..n, S # {}
    PROVE  \E x \in S : \A y \in S : y <= x
<1> DEFINE T == {n - x : x \in S}
<1>1. T \subseteq Nat /\ T # {}
  <2>1. \A x \in S : x \in Nat /\ x <= n /\ n - x \in Nat
    OBVIOUS
  <2>2. PICK x \in S : TRUE
    OBVIOUS
  <2>3. n - x \in T
    BY <2>2
  <2> QED
    BY <2>1, <2>3
<1>2. PICK k \in T : \A y \in T : <<y, k>> \notin OpToRel(<, Nat)
  BY <1>1, WFMin, NatLessThanWellFounded, Zenon
<1>3. \A y \in T : ~(y < k)
  BY <1>1, <1>2, Zenon DEF OpToRel
<1>4. PICK x \in S : k = n - x
  BY <1>2
<1>5. \A y \in S : ~(n - y < k)
  BY <1>3
<1> QED
  BY <1>4, <1>5

\* The waiter on the greatest contended lock waits for a task that runs.
LEMMA NoCircle ==
    ASSUME "resume" \notin Kinds
    PROVE  IInv /\ AcquiresUpwards /\ OnlyInvolvedBucketsLocked => NoCircularWait
<1> SUFFICES ASSUME IInv, AcquiresUpwards, OnlyInvolvedBucketsLocked,
                    NEW S \in (SUBSET Tasks) \ {{}},
                    \A t \in S : WaitsFor(t) \cap S # {}
             PROVE  FALSE
  BY DEF NoCircularWait
<1> DEFINE W == {l \in Locks : \E t \in S : WaitsOn(t, l) /\ owner[l] \in S}
<1>1. \A t \in S : \E l \in Locks : WaitsOn(t, l) /\ owner[l] \in S
  BY DEF WaitsFor
<1>2. W # {}
  BY <1>1
<1>3. Global \in Nat /\ Locks \subseteq 0..Global
  BY LocksAssumption DEF Locks
<1>4. PICK l \in W : \A m \in W : m <= l
  <2>1. W \subseteq 0..Global
    BY <1>3
  <2> HIDE DEF W
  <2> QED
    BY <1>2, <1>3, <2>1, Greatest
<1>5. PICK m \in Locks : WaitsOn(owner[l], m) /\ owner[m] \in S
  BY <1>1, <1>4
<1>6. m \in W /\ owner[l] \in Tasks
  BY <1>4, <1>5
<1>7. l \in Acquired(owner[l])
  BY <1>4, <1>6, LocksAssumption DEF OnlyInvolvedBucketsLocked
<1>8. m \in todo[owner[l]]
  BY <1>5 DEF WaitsOn, IsLeast
<1>9. op[owner[l]] # "resume"
  BY <1>6, LocksAssumption DEF IInv, TypeOK
<1>10. l < m
  BY <1>6, <1>7, <1>8, <1>9 DEF AcquiresUpwards
<1> QED
  BY <1>3, <1>4, <1>6, <1>10

\* Writers, movers, creators and meta operations acquire locks in one order.
THEOREM Upwards == Spec => []AcquiresUpwards
<1>1. UpInv => AcquiresUpwards
  BY DEF UpInv
<1> QED
  BY <1>1, InitUpwards, StepUpwards, Invariance, PTL DEF Spec

\* "locks only involved buckets", wherever operations are cancelled, a creator
\* or a resume between its two acquisitions included: nothing stays locked behind
\* any operation but a move.  Moves, whose pair is acquired before the
\* try/finally that releases it, are covered as long as nothing is cancelled.
THEOREM OnlyInvolved ==
    ASSUME Cancels => "move" \notin Kinds
    PROVE  Spec => []OnlyInvolvedBucketsLocked
<1> DEFINE J == \A m \in Locks : Involved(m)
<1>1. Init => J
  BY InitInvolved
<1>2. IInv /\ Groups /\ J /\ [Next]_vars => J'
  BY StepInvolved
<1>3. J => OnlyInvolvedBucketsLocked
  BY DEF Involved, OnlyInvolvedBucketsLocked
<1> HIDE DEF J
<1> QED
  BY <1>1, <1>2, <1>3, GroupsHold, Invariance, PTL DEF Spec

\* The global lock stays behind no operation at all: whatever runs and
\* whatever is cancelled, its holder is an operation that asked for it, so a
\* cancelled move may cost the engine a bucket, never the lock all creations need.
THEOREM GlobalInvolved == Spec => []Involved(Global)
<1>1. Init => Involved(Global)
  BY InitInvolved DEF Locks
<1>2. IInv /\ Groups /\ Involved(Global) /\ [Next]_vars => Involved(Global)'
  BY StepInvolved DEF Locks
<1> QED
  BY <1>1, <1>2, GroupsHold, Invariance, PTL DEF Spec

\* While there is no resume, no set of operations waits on itself, cancelled
\* ones included unless a move is among them.
THEOREM DeadlockFree ==
    ASSUME "resume" \notin Kinds, Cancels => "move" \notin Kinds
    PROVE  Spec => []NoCircularWait
  BY NoCircle, Invariance, Upwards, OnlyInvolved, PTL

============================================================================
