---------------------------- MODULE BucketLocks ----------------------------
(***************************************************************************)
(* The asyncio locks of the engine: one lock per bucket id, handed out by  *)
(* BucketLockManager.acquire_many in ascending id order, and the global    *)
(* meta lock.  A task runs one engine operation at a time; an operation is *)
(* a nest of "async with" blocks, each of which acquires a group of locks. *)
(*                                                                         *)
(*   write   one bucket: add, update, set_gray, split, compress, governance*)
(*   move    two buckets at once (move_item)                               *)
(*   create  a bucket, and inside it the global lock (create/set_bucket)   *)
(*   meta    the global lock (set_active, latest_bucket_id, gc, export)    *)
(*   resume  the global lock, and inside it, once per journalled job, the  *)
(*           bucket lock taken by _auto_manage_bucket                      *)
(*                                                                         *)
(* Bucket ids are naturals, ordered as the code orders the strings.        *)
(***************************************************************************)
EXTENDS Naturals, Sequences

CONSTANTS Tasks,     \* the event loop's tasks
          Buckets,   \* bucket ids
          Global,    \* stands for _global_meta_lock, above every bucket id
          Kinds,     \* the operations tasks may start
          MaxJobs,   \* bound on the journalled jobs one resume goes through
          Cancels,   \* TRUE: a suspended task may be cancelled
          NoTask     \* owner of a free lock

ASSUME LocksAssumption ==
    /\ Buckets \subseteq Nat
    /\ Global \in Nat /\ \A b \in Buckets : b < Global
    /\ Kinds \subseteq {"write", "move", "create", "meta", "resume"}
    /\ MaxJobs \in Nat
    /\ Cancels \in BOOLEAN
    /\ NoTask \notin Tasks

Locks == Buckets \cup {Global}

VARIABLES owner,    \* Locks -> the task that holds the lock, or NoTask
          waiters,  \* Locks -> FIFO queue of suspended acquirers
          op,       \* Tasks -> operation in progress, or "idle"
          outer,    \* Tasks -> locks of the outermost block the task is inside
          inner,    \* Tasks -> locks of the block nested in it, if any
          part,     \* Tasks -> locks acquired so far for the block being entered
          todo,     \* Tasks -> locks still to acquire for that block
          jobs      \* Tasks -> journalled jobs a resume still has to go through

vars == <<owner, waiters, op, outer, inner, part, todo, jobs>>

----------------------------------------------------------------------------
(* Reading the state. *)

\* The locks of the blocks t is inside, which unwinding them releases.
Held(t) == outer[t] \cup inner[t]

\* Everything t has acquired, including a block it is only half way into.
Acquired(t) == Held(t) \cup part[t]

\* How many blocks t is inside.
Depth(t) == IF outer[t] = {} THEN 0 ELSE IF inner[t] = {} THEN 1 ELSE 2

IsLeast(l, S) == l \in S /\ \A m \in S : l <= m

InQueue(t, l) == \E i \in DOMAIN waiters[l] : waiters[l][i] = t

\* t is suspended in lock.acquire() on l.
WaitsOn(t, l) == IsLeast(l, todo[t]) /\ InQueue(t, l)

Suspended(t) == \E l \in Locks : WaitsOn(t, l)

\* t awaits something other than a lock inside its innermost block.
Inside(t) == Depth(t) # 0 /\ todo[t] = {}

----------------------------------------------------------------------------
\* Every variable keeps to its domain; a resume never owes more jobs than it found.
TypeOK ==
    /\ owner \in [Locks -> Tasks \cup {NoTask}]
    /\ waiters \in [Locks -> Seq(Tasks)]
    /\ op \in [Tasks -> Kinds \cup {"idle"}]
    /\ outer \in [Tasks -> SUBSET Locks]
    /\ inner \in [Tasks -> SUBSET Locks]
    /\ part \in [Tasks -> SUBSET Locks]
    /\ todo \in [Tasks -> SUBSET Locks]
    /\ jobs \in [Tasks -> 0..MaxJobs]

Init ==
    /\ owner = [l \in Locks |-> NoTask]
    /\ waiters = [l \in Locks |-> <<>>]
    /\ op = [t \in Tasks |-> "idle"]
    /\ outer = [t \in Tasks |-> {}]
    /\ inner = [t \in Tasks |-> {}]
    /\ part = [t \in Tasks |-> {}]
    /\ todo = [t \in Tasks |-> {}]
    /\ jobs = [t \in Tasks |-> 0]

----------------------------------------------------------------------------
\* A caller starts an operation.
Start(t) ==
    /\ op[t] = "idle"
    /\ \E k \in Kinds, n \in 0..MaxJobs :
        /\ k # "resume" => n = 0
        /\ op' = [op EXCEPT ![t] = k]
        /\ jobs' = [jobs EXCEPT ![t] = n]
    /\ UNCHANGED <<owner, waiters, outer, inner, part, todo>>

OneBucket(g) == \E b \in Buckets : g = {b}
Pair(g) == \E a, b \in Buckets : g = {a, b}

\* Fault: a creator takes the global lock first.
MayEnterGlobalFirst(t, g) ==
    \/ op[t] = "write" /\ Depth(t) = 0 /\ OneBucket(g)
    \/ op[t] = "move" /\ Depth(t) = 0 /\ Pair(g)
    \/ op[t] = "create" /\ Depth(t) = 0 /\ g = {Global}
    \/ op[t] = "create" /\ Depth(t) = 1 /\ OneBucket(g)
    \/ op[t] \in {"meta", "resume"} /\ Depth(t) = 0 /\ g = {Global}
    \/ op[t] = "resume" /\ Depth(t) = 1 /\ jobs[t] > 0 /\ OneBucket(g)

\* The group of locks g is what the next "async with" of t's operation asks for.
MayEnter(t, g) ==
    \/ op[t] = "write" /\ Depth(t) = 0 /\ OneBucket(g)
    \/ op[t] = "move" /\ Depth(t) = 0 /\ Pair(g)
    \/ op[t] = "create" /\ Depth(t) = 0 /\ OneBucket(g)
    \/ op[t] = "create" /\ Depth(t) = 1 /\ g = {Global}
    \/ op[t] \in {"meta", "resume"} /\ Depth(t) = 0 /\ g = {Global}
    \/ op[t] = "resume" /\ Depth(t) = 1 /\ jobs[t] > 0 /\ OneBucket(g)

\* t is inside the innermost block its operation ever enters.
Innermost(t) ==
    /\ Inside(t)
    /\ Depth(t) = IF op[t] = "create" THEN 2 ELSE 1
    /\ jobs[t] = 0

\* acquire_many (or "async with _global_meta_lock"): fix the set to acquire.
EnterBlock(t) ==
    /\ todo[t] = {}
    /\ \E g \in SUBSET Locks : MayEnter(t, g) /\ todo' = [todo EXCEPT ![t] = g]
    /\ UNCHANGED <<owner, waiters, op, outer, inner, part, jobs>>

\* t now owns l: take the next lock of the group, or enter the block.
Got(t, l) ==
    IF todo[t] = {l}
    THEN /\ IF Depth(t) = 0
            THEN outer' = [outer EXCEPT ![t] = part[t] \cup {l}] /\ UNCHANGED inner
            ELSE inner' = [inner EXCEPT ![t] = part[t] \cup {l}] /\ UNCHANGED outer
         /\ part' = [part EXCEPT ![t] = {}]
         /\ todo' = [todo EXCEPT ![t] = {}]
    ELSE /\ part' = [part EXCEPT ![t] = @ \cup {l}]
         /\ todo' = [todo EXCEPT ![t] = @ \ {l}]
         /\ UNCHANGED <<outer, inner>>

\* Fault: acquire_many acquires in the order the caller listed the ids.
AcquireFreeUnsorted(t) ==
    /\ \E l \in todo[t] :
        /\ owner[l] = NoTask /\ waiters[l] = <<>>
        /\ owner' = [owner EXCEPT ![l] = t]
        /\ Got(t, l)
    /\ UNCHANGED <<waiters, op, jobs>>

\* lock.acquire() on a lock that is free and that nobody waits for.
AcquireFree(t) ==
    /\ \E l \in Locks :
        /\ IsLeast(l, todo[t])
        /\ owner[l] = NoTask /\ waiters[l] = <<>>
        /\ owner' = [owner EXCEPT ![l] = t]
        /\ Got(t, l)
    /\ UNCHANGED <<waiters, op, jobs>>

\* lock.acquire() on a lock that is held or promised to a waiter: suspend.
Suspend(t) ==
    /\ \E l \in Locks :
        /\ IsLeast(l, todo[t])
        /\ owner[l] # NoTask \/ waiters[l] # <<>>
        /\ ~InQueue(t, l)
        /\ waiters' = [waiters EXCEPT ![l] = Append(@, t)]
    /\ UNCHANGED <<owner, op, outer, inner, part, todo, jobs>>

\* Fault: a woken waiter does not check that the lock is still free.
ResumeUnchecked(t) ==
    /\ \E l \in Locks :
        /\ IsLeast(l, todo[t])
        /\ waiters[l] # <<>> /\ Head(waiters[l]) = t
        /\ owner' = [owner EXCEPT ![l] = t]
        /\ waiters' = [waiters EXCEPT ![l] = Tail(@)]
        /\ Got(t, l)
    /\ UNCHANGED <<op, jobs>>

\* The oldest waiter of a released lock is resumed and takes it.
Resume(t) ==
    /\ \E l \in Locks :
        /\ IsLeast(l, todo[t])
        /\ owner[l] = NoTask
        /\ waiters[l] # <<>> /\ Head(waiters[l]) = t
        /\ owner' = [owner EXCEPT ![l] = t]
        /\ waiters' = [waiters EXCEPT ![l] = Tail(@)]
        /\ Got(t, l)
    /\ UNCHANGED <<op, jobs>>

Released(S) == [l \in Locks |-> IF l \in S THEN NoTask ELSE owner[l]]

\* Fault: an operation leaves only its innermost block.
FinishInnermost(t) ==
    /\ Innermost(t)
    /\ owner' = Released(IF inner[t] = {} THEN outer[t] ELSE inner[t])
    /\ op' = [op EXCEPT ![t] = "idle"]
    /\ outer' = [outer EXCEPT ![t] = {}]
    /\ inner' = [inner EXCEPT ![t] = {}]
    /\ UNCHANGED <<waiters, part, todo, jobs>>

\* The operation returns: all its blocks are left without another await.
Finish(t) ==
    /\ Innermost(t)
    /\ owner' = Released(Held(t))
    /\ op' = [op EXCEPT ![t] = "idle"]
    /\ outer' = [outer EXCEPT ![t] = {}]
    /\ inner' = [inner EXCEPT ![t] = {}]
    /\ UNCHANGED <<waiters, part, todo, jobs>>

\* resume_pending_jobs: _auto_manage_bucket returns, the global lock stays.
LeaveManage(t) ==
    /\ Inside(t) /\ op[t] = "resume" /\ Depth(t) = 2
    /\ owner' = Released(inner[t])
    /\ inner' = [inner EXCEPT ![t] = {}]
    /\ jobs' = [jobs EXCEPT ![t] = @ - 1]
    /\ UNCHANGED <<waiters, op, outer, part, todo>>

\* q without its k-th element.
Without(q, k) == [i \in 1..(Len(q) - 1) |-> IF i < k THEN q[i] ELSE q[i + 1]]

\* Fault: a cancelled waiter stays in the queue.
CancelStaysQueued(t) ==
    /\ Cancels
    /\ Inside(t) \/ Suspended(t)
    /\ owner' = Released(Held(t))
    /\ op' = [op EXCEPT ![t] = "idle"]
    /\ outer' = [outer EXCEPT ![t] = {}]
    /\ inner' = [inner EXCEPT ![t] = {}]
    /\ part' = [part EXCEPT ![t] = {}]
    /\ todo' = [todo EXCEPT ![t] = {}]
    /\ jobs' = [jobs EXCEPT ![t] = 0]
    /\ UNCHANGED waiters

\* Cancellation reaches t at an await.  The blocks it is inside are unwound; a
\* lock of the group it is still acquiring is not released, because
\* acquire_many acquires before its try/finally.
Cancel(t) ==
    /\ Cancels
    /\ \/ /\ Inside(t)
          /\ UNCHANGED waiters
       \/ \E l \in Locks :
            /\ IsLeast(l, todo[t])
            /\ \E k \in DOMAIN waiters[l] :
                /\ waiters[l][k] = t
                /\ waiters' = [waiters EXCEPT ![l] = Without(@, k)]
    /\ owner' = Released(Held(t))
    /\ op' = [op EXCEPT ![t] = "idle"]
    /\ outer' = [outer EXCEPT ![t] = {}]
    /\ inner' = [inner EXCEPT ![t] = {}]
    /\ part' = [part EXCEPT ![t] = {}]
    /\ todo' = [todo EXCEPT ![t] = {}]
    /\ jobs' = [jobs EXCEPT ![t] = 0]

\* What the event loop is bound to run once it can.
Advance(t) ==
    \/ EnterBlock(t) \/ AcquireFree(t) \/ Suspend(t)
    \/ Resume(t) \/ Finish(t) \/ LeaveManage(t)

Next == \E t \in Tasks : Start(t) \/ Advance(t) \/ Cancel(t)

Spec == Init /\ [][Next]_vars

\* The loop runs every ready task; an operation's own awaits end.
FairSpec == Spec /\ \A t \in Tasks : WF_vars(Advance(t))

----------------------------------------------------------------------------
(* Properties. *)

\* "Same-bucket writes are serialized": two operations are never both past the
\* acquisition of one lock, so a block entered by one task shares no lock with
\* what another has acquired.
MutualExclusion ==
    \A t, u \in Tasks : t # u => Acquired(t) \cap Acquired(u) = {}

\* "locks only involved buckets": a lock is held only on behalf of an
\* operation in progress that asked for it; nothing stays locked behind an
\* operation that ended, failed or was cancelled.
OnlyInvolvedBucketsLocked ==
    \A l \in Locks : owner[l] # NoTask => l \in Acquired(owner[l])

\* Every lock a task is about to take comes after all it already has: a bucket
\* group in ascending id order, the global lock after a bucket.  Among such tasks an
\* edge of the waits-for graph always leads to a larger lock, so there is no cycle.
\* A resume alone takes bucket locks under the global one.
AcquiresUpwards ==
    \A t \in Tasks : op[t] # "resume" => \A l \in todo[t], m \in Acquired(t) : m < l

\* No set of tasks waits on one another: from every suspended task, following
\* owners, some task is reached that is not suspended.
WaitsFor(t) == {u \in Tasks : \E l \in Locks : WaitsOn(t, l) /\ owner[l] = u}

NoCircularWait ==
    \A S \in (SUBSET Tasks) \ {{}} :
        \E t \in S : WaitsFor(t) \cap S = {}

\* A task that started an operation finishes it: no deadlock, no starvation by
\* later arrivals on a contended bucket.
OperationsComplete == \A t \in Tasks : op[t] # "idle" ~> op[t] = "idle"

\* "interrupted tasks are resumed after restart": a resume goes through its
\* journalled jobs and returns.
ResumesComplete == \A t \in Tasks : op[t] = "resume" ~> op[t] = "idle"

============================================================================
