--------------------------- MODULE CompletionQueue ---------------------------
(***************************************************************************)
(* A GRPC_CQ_NEXT completion queue                                         *)
(* (src/core/lib/surface/completion_queue.cc): operations begin and end on *)
(* any thread, pollers call grpc_completion_queue_next, its owner shuts it *)
(* down and destroys it.  The pollers sleep in the file's own              *)
(* non_polling_poller.                                                     *)
(*                                                                         *)
(* One action is one atomic access, one critical section of cq->mu or of   *)
(* the spinlock.  A producer publishes its event in three steps: it takes  *)
(* its place in the queue, becomes reachable from its predecessor, and is  *)
(* counted; the counter may lag behind the queue and even be negative.  A  *)
(* consumer that finds one event alone pushes the queue's stub behind it.  *)
(***************************************************************************)
EXTENDS Integers, FiniteSets, Sequences, Functions

CONSTANTS
  Op,         \* the operations that may be begun, each once
  Poller,     \* the threads that call next
  Nobody,
  Stub,       \* the queue's stub_ node
  Timed,      \* those that give next a finite deadline
  CacheOps    \* operations that may end on a thread with a cache for the queue

ASSUME CompletionQueueAssumption ==
  /\ IsFiniteSet(Op) /\ IsFiniteSet(Poller)
  /\ Nobody \notin Op \cup Poller /\ Stub \notin Op
  /\ CacheOps \subseteq Op /\ Timed \subseteq Poller

VARIABLES
  opc,        \* where every operation is
  queue,      \* from tail_ to head_: the events, and the stub, in the order of their exchange
  numItems,   \* num_queue_items_
  pending,    \* pending_events
  lock,       \* who holds queue_lock_
  ppc,        \* where every poller is in next
  taken,      \* the event a poller has popped
  zero,       \* its iteration_deadline is zero
  mayExpire,  \* those past first_loop whose deadline is finite
  told,       \* those next returned GRPC_QUEUE_SHUTDOWN to
  ring,       \* the sleeping workers, root first
  kicked,     \* those that were kicked
  spare,      \* kicked_without_poller
  dead,       \* the poller is shut down
  shutdownDone, \* pollset_shutdown_done closures scheduled
  owner,      \* where the owner is
  refs,       \* owning_refs
  broken      \* a GRPC_CHECK failed, or the freed queue was used

queueVars == <<queue, lock>>
pollerVars == <<ppc, taken, zero, mayExpire, told>>
sleepVars == <<ring, kicked, spare, dead, shutdownDone>>
lifeVars == <<owner, refs>>
vars == <<opc, queueVars, numItems, pending, pollerVars, sleepVars, lifeVars, broken>>

Init ==
  /\ opc = [o \in Op |-> "new"] 
  /\ queue = <<Stub>> /\ numItems = 0 /\ pending = 1 /\ lock = Nobody
  /\ ppc = [p \in Poller |-> "out"] /\ taken = [p \in Poller |-> Nobody]
  /\ zero = [p \in Poller |-> FALSE] /\ mayExpire = {}
  /\ told = {}
  /\ ring = <<>> /\ kicked = {} /\ spare = FALSE /\ dead = FALSE /\ shutdownDone = 0
  /\ owner = "open" /\ refs = 2
  /\ broken = FALSE

\* Whoever touches the queue must find it allocated.
Touch == broken' = (broken \/ refs = 0)

\* The last reference destroys it: ~cq_next_data checks the counter.
Unref == refs' = refs - 1 /\ broken' = (broken \/ refs = 0 \/ (refs = 1 /\ numItems # 0))

----------------------------------------------------------------------------
(* The non-polling poller, under cq->mu *)

\* A kick that is lost on a poller about to sleep.
KickSleepersOnly ==
  /\ kicked' = kicked \cup {q \in Poller : ring # <<>> /\ q = Head(ring)}
  /\ UNCHANGED <<ring, spare, dead, shutdownDone>>

\* kick: the root, once; or the next poller to come.
Kick ==
  /\ IF ring = <<>> THEN spare' = TRUE /\ UNCHANGED kicked
                    ELSE kicked' = kicked \cup {Head(ring)} /\ UNCHANGED spare
  /\ UNCHANGED <<ring, dead, shutdownDone>>

\* A shutdown that wakes up as many as a kick does.
PollerShutdownKicks ==
  /\ shutdownDone' = shutdownDone + 1
  /\ kicked' = kicked \cup {q \in Poller : ring # <<>> /\ q = Head(ring)}
  /\ UNCHANGED <<ring, spare, dead>>

\* shutdown: everybody wakes; its closure runs once nobody sleeps.
PollerShutdown ==
  /\ dead' = TRUE
  /\ shutdownDone' = IF ring = <<>> THEN shutdownDone + 1 ELSE shutdownDone
  /\ UNCHANGED <<ring, kicked, spare>>

\* cq_finish_shutdown_next, with its checks.
FinishShutdown(called, events) ==
  /\ PollerShutdown
  /\ broken' = (broken \/ refs = 0 \/ ~called \/ events # 0)

----------------------------------------------------------------------------
(* Operations *)

At(o, from, to) == opc[o] = from /\ opc' = [opc EXCEPT ![o] = to]

\* grpc_cq_begin_op: IncrementIfNonzero.  The callers' side of the contract: no
\* new work while the queue shuts down, and none on a destroyed one.
BeginOp(o) ==
  /\ owner # "gone" /\ (owner = "open" \/ pending = 0)
  /\ IF pending # 0 THEN At(o, "new", "begun") /\ pending' = pending + 1
                    ELSE At(o, "new", "refused") /\ UNCHANGED pending
  /\ Touch
  /\ UNCHANGED <<queueVars, numItems, pollerVars, sleepVars, lifeVars>>

\* cq_end_op_for_next: into the thread's cache, if it has an empty one ...
Cache(o) ==
  /\ o \in CacheOps /\ At(o, "begun", "cached")
  /\ Touch
  /\ UNCHANGED <<queueVars, numItems, pending, pollerVars, sleepVars, lifeVars>>

\* grpc_completion_queue_thread_local_cache_flush.
Flush(o) ==
  /\ At(o, "cached", "sub")
  /\ Touch
  /\ UNCHANGED <<queueVars, numItems, pending, pollerVars, sleepVars, lifeVars>>

\* ... or into the queue.
Push(o) ==
  /\ At(o, "begun", "link")
  /\ queue' = Append(queue, o)
  /\ Touch
  /\ UNCHANGED <<lock, numItems, pending, pollerVars, sleepVars, lifeVars>>

Link(o) ==
  /\ At(o, "link", "count")
  /\ Touch
  /\ UNCHANGED <<queueVars, numItems, pending, pollerVars, sleepVars, lifeVars>>

CountItem(o) ==
  /\ At(o, "count", IF numItems = 0 THEN "loadFirst" ELSE "load")
  /\ numItems' = numItems + 1
  /\ Touch
  /\ UNCHANGED <<queueVars, pending, pollerVars, sleepVars, lifeVars>>

\* The last event of a queue that shuts down needs no kick.
LoadPending(o) ==
  /\ \/ pending = 1 /\ (At(o, "loadFirst", "refStore") \/ At(o, "load", "refStore"))
     \/ pending # 1 /\ (At(o, "loadFirst", "kick") \/ At(o, "load", "sub"))
  /\ Touch
  /\ UNCHANGED <<queueVars, numItems, pending, pollerVars, sleepVars, lifeVars>>

KickOne(o) ==
  /\ At(o, "kick", "sub")
  /\ Kick /\ Touch
  /\ UNCHANGED <<queueVars, numItems, pending, pollerVars, lifeVars>>

SubPending(o) ==
  /\ At(o, "sub", IF pending = 1 THEN "ref" ELSE "done")
  /\ pending' = pending - 1
  /\ Touch
  /\ UNCHANGED <<queueVars, numItems, pollerVars, sleepVars, lifeVars>>

\* No reference of its own.
RefOpNot(o) ==
  /\ At(o, "ref", "finish") \/ At(o, "refStore", "store")
  /\ Touch
  /\ UNCHANGED <<queueVars, numItems, pending, pollerVars, sleepVars, lifeVars>>

\* Whoever finishes the shutdown does it under a reference of its own.
RefOp(o) ==
  /\ At(o, "ref", "finish") \/ At(o, "refStore", "store")
  /\ refs' = refs + 1 /\ Touch
  /\ UNCHANGED <<queueVars, numItems, pending, pollerVars, sleepVars, owner>>

StorePending(o) ==
  /\ At(o, "store", "finish")
  /\ pending' = 0
  /\ Touch
  /\ UNCHANGED <<queueVars, numItems, pollerVars, sleepVars, lifeVars>>

Finish(o) ==
  /\ At(o, "finish", "unref")
  /\ FinishShutdown(owner # "open", pending)
  /\ UNCHANGED <<queueVars, numItems, pending, pollerVars, lifeVars>>

UnrefOp(o) ==
  /\ At(o, "unref", "done")
  /\ Unref
  /\ UNCHANGED <<queueVars, numItems, pending, pollerVars, sleepVars, owner>>

----------------------------------------------------------------------------
(* The owner *)

\* Mutant: the shutdown does not wait for the operations under way.
ShutdownAtOnce ==
  /\ owner = "open" /\ owner' = "closing"
  /\ pending' = pending - 1 /\ refs' = refs + 1
  /\ FinishShutdown(TRUE, 0)
  /\ UNCHANGED <<opc, queueVars, numItems, pollerVars>>

\* grpc_completion_queue_shutdown.
Shutdown ==
  /\ owner = "open" /\ owner' = "closing"
  /\ pending' = pending - 1 /\ refs' = refs + 1
  /\ IF pending = 1 THEN FinishShutdown(TRUE, 0) ELSE Touch /\ UNCHANGED sleepVars
  /\ UNCHANGED <<opc, queueVars, numItems, pollerVars>>

ShutdownEnds ==
  /\ owner = "closing" /\ owner' = "closed"
  /\ Unref
  /\ UNCHANGED <<opc, queueVars, numItems, pending, pollerVars, sleepVars>>

\* grpc_completion_queue_destroy, once the queue is drained and nobody polls:
\* its own shutdown returns at once.
Destroy ==
  /\ owner = "closed" /\ owner' = "gone"
  /\ told # {}
  /\ \A p \in Poller : ppc[p] = "out"
  /\ Unref
  /\ UNCHANGED <<opc, queueVars, numItems, pending, pollerVars, sleepVars>>

\* on_pollset_shutdown_done, when the execution context that owns it flushes.
PollsetShutdownDone ==
  /\ shutdownDone > 0 /\ shutdownDone' = shutdownDone - 1
  /\ Unref
  /\ UNCHANGED <<opc, queueVars, numItems, pending, pollerVars, ring, kicked, spare, dead,
                 owner>>

----------------------------------------------------------------------------
(* Pollers: cq_next *)

In(p, from, to) == ppc[p] = from /\ ppc' = [ppc EXCEPT ![p] = to]

Call(p) ==
  /\ owner # "gone" /\ In(p, "out", "pop")
  /\ refs' = refs + 1 /\ Touch
  /\ UNCHANGED <<opc, queueVars, numItems, pending, taken, zero, mayExpire, told, sleepVars,
                 owner>>

\* CqEventQueue::Pop without its lock.
TryLockAlways(p) ==
  /\ In(p, "pop", "read") /\ lock' = p
  /\ zero' = [zero EXCEPT ![p] = FALSE]
  /\ Touch
  /\ UNCHANGED <<opc, queue, numItems, pending, taken, mayExpire, told, sleepVars, lifeVars>>

\* A round begins with the caller's deadline and CqEventQueue::Pop: one consumer
\* at a time, the others see nothing.
TryLock(p) ==
  /\ IF lock = Nobody THEN In(p, "pop", "read") /\ lock' = p
                      ELSE In(p, "pop", "missed") /\ UNCHANGED lock
  /\ zero' = [zero EXCEPT ![p] = FALSE]
  /\ Touch
  /\ UNCHANGED <<opc, queue, numItems, pending, taken, mayExpire, told, sleepVars, lifeVars>>

\* Its predecessor, in the queue or gone from it, points to it.
Linked(n) == n = Stub \/ opc[n] # "link"
Followed(q) == Len(q) > 1 /\ Linked(q[2])

\* PopAndCheckEnd: past the stub, to an event known to be followed; the one that
\* is alone gets the stub behind it first.
ReadTail(p) ==
  LET q == IF Head(queue) = Stub /\ Followed(queue) THEN Tail(queue) ELSE queue
  IN /\ queue' = q
     /\ IF Head(q) # Stub /\ Len(q) = 1
        THEN In(p, "read", "stub") /\ UNCHANGED taken
        ELSE /\ In(p, "read", "unlock")
             /\ taken' = [taken EXCEPT ![p] =
                            IF Head(q) # Stub /\ Followed(q) THEN Head(q) ELSE Nobody]
  /\ Touch
  /\ UNCHANGED <<opc, lock, numItems, pending, zero, mayExpire, told, sleepVars, lifeVars>>

\* A producer may have come between.
PushStub(p) ==
  /\ In(p, "stub", "unlock")
  /\ queue' = Append(queue, Stub)
  /\ taken' = [taken EXCEPT ![p] = IF Followed(Append(queue, Stub)) THEN Head(queue) ELSE Nobody]
  /\ Touch
  /\ UNCHANGED <<opc, lock, numItems, pending, zero, mayExpire, told, sleepVars, lifeVars>>

\* tail_ moves on, and the spinlock is free.
Unlock(p) ==
  /\ In(p, "unlock", IF taken[p] = Nobody THEN "missed" ELSE "uncount")
  /\ queue' = IF taken[p] = Nobody THEN queue ELSE Tail(queue)
  /\ lock' = Nobody
  /\ Touch
  /\ UNCHANGED <<opc, numItems, pending, taken, zero, mayExpire, told, sleepVars, lifeVars>>

UncountItem(p) ==
  /\ In(p, "uncount", "leave")
  /\ numItems' = numItems - 1
  /\ Touch
  /\ UNCHANGED <<opc, queueVars, pending, taken, zero, mayExpire, told, sleepVars, lifeVars>>

\* Nothing popped: poll until the caller's deadline, whatever the counter says.
MissedSleeps(p) ==
  /\ In(p, "missed", "check")
  /\ Touch
  /\ UNCHANGED <<opc, queueVars, numItems, pending, taken, zero, mayExpire, told, sleepVars,
                 lifeVars>>

\* Nothing popped: poll, but only for a moment if something is there.
Missed(p) ==
  /\ In(p, "missed", "check")
  /\ zero' = [zero EXCEPT ![p] = numItems > 0]
  /\ Touch
  /\ UNCHANGED <<opc, queueVars, numItems, pending, taken, mayExpire, told, sleepVars,
                 lifeVars>>

\* Shut down, timed out, or going to poll.
Check(p) ==
  /\ IF pending = 0 THEN In(p, "check", "drained")
     ELSE In(p, "check", "work") \/ (p \in mayExpire /\ In(p, "check", "leave"))
  /\ Touch
  /\ UNCHANGED <<opc, queueVars, numItems, pending, taken, zero, mayExpire, told, sleepVars,
                 lifeVars>>

\* The shutdown reported without a last look at the counter.
DrainedAtOnce(p) ==
  /\ In(p, "drained", "leave") /\ told' = told \cup {p}
  /\ Touch
  /\ UNCHANGED <<opc, queueVars, numItems, pending, taken, zero, mayExpire, sleepVars, lifeVars>>

\* GRPC_QUEUE_SHUTDOWN, if the counter agrees that nothing is left.
Drained(p) ==
  /\ IF numItems > 0 THEN In(p, "drained", "pop") /\ UNCHANGED told
                     ELSE In(p, "drained", "leave") /\ told' = told \cup {p}
  /\ Touch
  /\ UNCHANGED <<opc, queueVars, numItems, pending, taken, zero, mayExpire, sleepVars, lifeVars>>

\* non_polling_poller_work: not to sleep, or to sleep at the end of the ring.
Work(p) ==
  /\ mayExpire' = mayExpire \cup ({p} \cap Timed)
  /\ \/ dead /\ In(p, "work", "pop") /\ UNCHANGED <<ring, spare>>
     \/ ~dead /\ spare /\ In(p, "work", "pop") /\ spare' = FALSE /\ UNCHANGED ring
     \/ ~dead /\ ~spare /\ In(p, "work", "asleep") /\ ring' = Append(ring, p) /\ UNCHANGED spare
  /\ Touch
  /\ UNCHANGED <<opc, queueVars, numItems, pending, taken, zero, told, kicked, dead,
                 shutdownDone, lifeVars>>

\* Woken by a kick, a shutdown or the deadline; the last one out of a poller
\* that is shut down runs the closure.
WakeUp(p) ==
  /\ In(p, "asleep", "pop")
  /\ p \in kicked \/ dead \/ zero[p] \/ p \in Timed
  /\ \E i \in DOMAIN ring :
       ring[i] = p /\ ring' = SubSeq(ring, 1, i - 1) \o SubSeq(ring, i + 1, Len(ring))
  /\ kicked' = kicked \ {p}
  /\ shutdownDone' = IF dead /\ ring = <<p>> THEN shutdownDone + 1 ELSE shutdownDone
  /\ Touch
  /\ UNCHANGED <<opc, queueVars, numItems, pending, taken, zero, mayExpire, told, spare,
                 dead, lifeVars>>

\* A poller that returns passes the wakeup on if something is left ...
LeaveSilently(p) ==
  /\ In(p, "leave", "return")
  /\ Touch
  /\ UNCHANGED <<opc, queueVars, numItems, pending, taken, zero, mayExpire, told,
                 sleepVars, lifeVars>>

LookBack(p) ==
  /\ In(p, "leave", IF numItems > 0 THEN "left" ELSE "return")
  /\ Touch
  /\ UNCHANGED <<opc, queueVars, numItems, pending, taken, zero, mayExpire, told,
                 sleepVars, lifeVars>>

PassOn(p) ==
  /\ In(p, "left", IF pending > 0 THEN "kick" ELSE "return")
  /\ Touch
  /\ UNCHANGED <<opc, queueVars, numItems, pending, taken, zero, mayExpire, told,
                 sleepVars, lifeVars>>

KickNext(p) ==
  /\ In(p, "kick", "return")
  /\ Kick /\ Touch
  /\ UNCHANGED <<opc, queueVars, numItems, pending, taken, zero, mayExpire, told,
                 lifeVars>>

\* ... and lets go of its reference, and of its locals.
Return(p) ==
  /\ In(p, "return", "out")
  /\ taken' = [taken EXCEPT ![p] = Nobody] /\ zero' = [zero EXCEPT ![p] = FALSE]
  /\ mayExpire' = mayExpire \ {p}
  /\ Unref
  /\ UNCHANGED <<opc, queueVars, numItems, pending, told, sleepVars, owner>>

----------------------------------------------------------------------------
EndOp(o) ==
  \/ Flush(o) \/ Link(o) \/ CountItem(o) \/ LoadPending(o) \/ KickOne(o)
  \/ SubPending(o) \/ RefOp(o) \/ StorePending(o) \/ Finish(o) \/ UnrefOp(o)

Polling(p) ==
  \/ TryLock(p) \/ ReadTail(p) \/ PushStub(p) \/ Unlock(p) \/ UncountItem(p) \/ Missed(p) \/ Check(p)
  \/ Drained(p) \/ Work(p) \/ WakeUp(p) \/ LookBack(p) \/ PassOn(p) \/ KickNext(p) \/ Return(p)

Next ==
  \/ \E o \in Op : BeginOp(o) \/ Cache(o) \/ Push(o) \/ EndOp(o)
  \/ \E p \in Poller : Call(p) \/ Polling(p)
  \/ Shutdown \/ ShutdownEnds \/ PollsetShutdownDone \/ Destroy

\* A thread inside end_op, next or shutdown goes on.  Nobody has to begin or
\* to end an operation, to poll, or to shut the queue down.
Fairness ==
  /\ \A o \in Op : WF_vars(EndOp(o))
  /\ \A p \in Poller : WF_vars(Polling(p))
  /\ WF_vars(ShutdownEnds \/ PollsetShutdownDone)

Spec == Init /\ [][Next]_vars /\ Fairness

----------------------------------------------------------------------------
(* Properties *)

OpPC == {"new", "refused", "begun", "cached", "link", "count", "loadFirst", "load", "kick", "sub",
         "refStore", "store", "ref", "finish", "unref", "done"}
PollerPC == {"out", "pop", "read", "stub", "unlock", "uncount", "missed", "check", "drained",
             "work", "asleep", "leave", "left", "kick", "return"}

TypeOK ==
  /\ opc \in [Op -> OpPC] /\ queue \in Seq(Op \cup {Stub}) /\ lock \in Poller \cup {Nobody}
  /\ numItems \in Int /\ pending \in Int
  /\ ppc \in [Poller -> PollerPC] /\ taken \in [Poller -> Op \cup {Nobody}]
  /\ zero \in [Poller -> BOOLEAN] /\ mayExpire \subseteq Timed
  /\ told \subseteq Poller
  /\ ring \in Seq(Poller) /\ kicked \subseteq Poller
  /\ spare \in BOOLEAN /\ dead \in BOOLEAN /\ shutdownDone \in 0..1
  /\ owner \in {"open", "closing", "closed", "gone"} /\ refs \in Nat /\ broken \in BOOLEAN

Ops(S) == {o \in Op : opc[o] \in S}
Pollers(S) == {p \in Poller : ppc[p] \in S}
One(b) == IF b THEN 1 ELSE 0

\* Under way: begun, and still counted in pending_events.
Busy == {"begun", "cached", "link", "count", "loadFirst", "load", "kick", "sub", "refStore",
         "store"}

\* Not handed to the queue, or not yet.
Unpushed == {"new", "refused", "begun", "cached"}

Queued == Op \cap Range(queue)

\* pending_events counts the operations under way and the open queue; the one
\* that is about to store zero is alone, and whoever reaches zero finishes.
PendingExact ==
  /\ pending = Cardinality(Ops(Busy)) + One(owner = "open")
  /\ Ops({"refStore", "store"}) # {} => pending = 1
  /\ dead => pending = 0
  /\ Cardinality(Ops({"ref", "finish"})) = One(pending = 0 /\ ~dead)

\* num_queue_items_ lags behind the queue by the producers that have yet to
\* count and the pollers that have yet to uncount, and by nothing else.
ItemsExact ==
  numItems =
    Cardinality(Queued) + Cardinality(Pollers({"uncount"})) - Cardinality(Ops({"link", "count"}))

\* The queue is never without a node, tail_ is a node that was reached, and only
\* what was pushed is in it, once.
QueueOK ==
  /\ queue # <<>> /\ IsInjective(queue) /\ Linked(Head(queue))
  /\ Queued \cap Ops(Unpushed) = {}
  /\ Ops({"link"}) \subseteq Queued

\* Who holds the spinlock, what it found, and which event is whose.
PopOK ==
  /\ \A p \in Poller : ppc[p] \in {"read", "stub", "unlock"} <=> lock = p
  /\ \A p \in Pollers({"stub"}) : Head(queue) # Stub /\ Stub \notin Range(queue)
  /\ \A p \in Pollers({"unlock"}) : taken[p] # Nobody => taken[p] = Head(queue) /\ Followed(queue)
  /\ \A p \in Poller : taken[p] \in Queued => ppc[p] = "unlock"
  /\ \A p \in Poller : taken[p] # Nobody =>
       ppc[p] \in {"unlock", "uncount", "leave", "left", "kick", "return"}
  /\ \A p \in Poller : taken[p] \notin Ops(Unpushed)
  /\ \A p, q \in Poller : p # q /\ taken[p] # Nobody => taken[p] # taken[q]

\* SHUTDOWN is the last word: then nothing is under way and nothing is left.
ToldOK ==
  /\ Pollers({"drained"}) # {} => pending = 0
  /\ told # {} => pending = 0 /\ Queued = {}
  /\ owner = "gone" => told # {}

\* The sleepers are the ring; the poller's closure runs when nobody sleeps.
RingOK ==
  /\ IsInjective(ring) /\ Range(ring) = Pollers({"asleep"})
  /\ kicked \subseteq Range(ring)
  /\ shutdownDone > 0 => dead /\ ring = <<>>

\* The references: the owner's, the poller's until its closure has run, and
\* those of whoever is inside next, shutdown or the end of end_op.
RefsExact ==
  refs = One(owner # "gone") + One(owner = "closing")
         + One(~dead \/ ring # <<>> \/ shutdownDone > 0)
         + Cardinality(Pollers(PollerPC \ {"out"})) + Cardinality(Ops({"store", "finish", "unref"}))

\* The queue is not used after its last reference went, is destroyed with
\* nothing counted in it, and cq_finish_shutdown_next finds what it checks:
\* shutdown called, nothing pending.  The owner may destroy the queue as soon
\* as a poller was told SHUTDOWN, while the producer that made the counter zero
\* has yet to finish the shutdown.
NeverBroken == ~broken

IInv == TypeOK /\ PendingExact /\ ItemsExact /\ QueueOK /\ PopOK /\ ToldOK /\ RingOK /\ RefsExact /\ NeverBroken

\* No lost wakeup.  While pollers sleep and an event is in the queue, somebody is
\* awake who will take it or wake one of them: its producer, a kicked or merely
\* napping poller, or one inside next, which looks back before it returns.  A
\* kick that reaches a poller just as its deadline expires is not wasted.
NoLostWakeup ==
  Queued # {} /\ ring # <<>> /\ ~dead =>
    \/ kicked # {} \/ \E p \in Range(ring) : zero[p]
    \/ Pollers(PollerPC \ {"out", "asleep", "return"}) # {}
    \/ Ops({"link", "count", "loadFirst", "kick", "refStore", "store", "ref", "finish"}) # {}

\* Why: an event that was counted has its waker.  A poller is idle once it has decided
\* how long to sleep; one that decided on the counter's word (zero) only naps.  A kick
\* with nobody asleep stays for the next who comes, and only then.
Idle == {"check", "work", "asleep"}
Awake == {"pop", "read", "stub", "unlock", "uncount", "missed", "leave", "left", "kick"}
WakeOK ==
  /\ spare => ring = <<>>
  /\ numItems > 0 /\ ~dead /\ Pollers(Idle) # {} =>
       \/ kicked # {} \/ spare \/ \E p \in Pollers(Idle) : zero[p]
       \/ Pollers(Awake) # {}
       \/ Ops({"loadFirst", "kick", "refStore", "store", "ref", "finish"}) # {}

\* What the queue promises.  An event is ready from its push, or its place in a
\* thread's cache, until a poller has unlinked it.
Status(o) ==
  CASE opc[o] \in {"new", "refused", "begun"} -> opc[o]
    [] opc[o] = "cached" \/ o \in Queued -> "ready"
    [] OTHER -> "delivered"

Abstract == INSTANCE EventQueue WITH
  ops <- [o \in Op |-> Status(o)],
  closing <- owner # "open",
  told <- told

\* The completion queue implements the event queue: no event is lost or handed
\* out twice, and SHUTDOWN is told only when no operation is under way and no
\* event is left, although a poller's pop may fail on a queue that has events
\* and the counter it then reads is not updated with the queue.
ImplementsQueue == Abstract!Queue

\* No event is left behind: the queue empties again and again, as long as somebody polls.
\* Only the first item kicks a poller, and a kicked poller may be kicked no
\* further: the others are woken by those who return.
EveryEventTaken == []<>(Queued = {}) \/ <>[](\A p \in Poller : ppc[p] = "out")

\* The end of the last operation releases every poller of a queue that was
\* shut down, whatever its deadline.
ShutdownReachesAll ==
  \A p \in Poller : pending = 0 /\ ppc[p] # "out" ~> ppc[p] = "out"

\* grpc_cq_begin_op's word: a begun operation holds the shutdown back until its end,
\* although cq_end_op_for_next loads the counter and stores 0 in two steps.
BegunOpsHoldShutdown == dead => Ops(Busy) = {}
=============================================================================
