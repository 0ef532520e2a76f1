---------------------------- MODULE ThreadManager ----------------------------
(***************************************************************************)
(* The sync server's thread pool: grpc::ThreadManager                      *)
(* (src/cpp/thread_manager), the ThreadQuota it draws on, the polling and  *)
(* shutdown of Server::SyncRequestThreadManager (src/cpp/server), and the  *)
(* server thread that starts, shuts down, waits for and destroys it.       *)
(*                                                                         *)
(* One action is one critical section of mu_, list_mu_ or the quota's      *)
(* mutex, or one blocking call.  The completion queue is what its user     *)
(* sees of it: queued items, and a shutdown flag reported once it is empty.*)
(***************************************************************************)
EXTENDS Naturals, FiniteSets

CONSTANTS
  Thread,      \* the WorkerThread objects that may exist at a time
  MinPollers,  \* min_pollers_
  MaxPollers,  \* max_pollers_
  ThreadMax,   \* the quota's max_
  OtherMax,    \* bound: quota held by the other users of the quota
  MaxItems     \* bound: requests that arrive

ASSUME ThreadManagerAssumption ==
  /\ IsFiniteSet(Thread) /\ "main" \notin Thread
  /\ MinPollers \in Nat /\ MaxPollers \in Nat /\ MinPollers <= MaxPollers
  /\ ThreadMax \in Nat /\ OtherMax \in Nat /\ MaxItems \in Nat

VARIABLES
  pc,            \* where every worker is
  found,         \* what its PollForWork returned
  shutdown,      \* shutdown_
  numPollers,    \* num_pollers_
  numThreads,    \* num_threads_
  maxActive,     \* max_active_threads_sofar_
  completed,     \* completed_threads_
  mine,          \* the lists swapped out by CleanupCompletedThreads
  allocated,     \* the quota's allocated_
  others,        \* what the other users hold of it
  mpc,           \* where the server thread is
  toStart,       \* the workers Initialize has yet to create
  queued,        \* requests in the completion queue
  cqShutdown,    \* the completion queue's Shutdown() was called
  arrived,       \* requests that arrived
  answered       \* requests run by DoWork or cleaned up by Wait

workerVars == <<pc, found, numPollers, numThreads, maxActive>>
listVars == <<completed, mine>>
quotaVars == <<allocated, others>>
mainVars == <<shutdown, mpc, toStart>>
queueVars == <<queued, cqShutdown, arrived, answered>>
vars == <<workerVars, listVars, quotaVars, mainVars, queueVars>>

Owner == Thread \cup {"main"}

Init ==
  /\ pc = [t \in Thread |-> "free"] /\ found = [t \in Thread |-> "TIMEOUT"]
  /\ shutdown = FALSE
  /\ numPollers = 0 /\ numThreads = 0 /\ maxActive = 0
  /\ completed = {} /\ mine = [o \in Owner |-> {}]
  /\ allocated = 0 /\ others = 0
  /\ mpc = "reserve" /\ toStart = 0
  /\ queued = 0 /\ cqShutdown = FALSE /\ arrived = 0 /\ answered = 0

----------------------------------------------------------------------------
(* The quota, shared with the server's other managers *)

Reserved(n) == allocated + n <= ThreadMax /\ allocated' = allocated + n
NotReserved(n) == allocated + n > ThreadMax /\ UNCHANGED allocated

OtherReserves ==
  /\ others < OtherMax /\ Reserved(1)
  /\ others' = others + 1
  /\ UNCHANGED <<workerVars, listVars, mainVars, queueVars>>

OtherReleases ==
  /\ others > 0 /\ others' = others - 1
  /\ allocated' = allocated - 1
  /\ UNCHANGED <<workerVars, listVars, mainVars, queueVars>>

----------------------------------------------------------------------------
(* The server thread *)

\* Initialize: without the minimum quota the process crashes, and without the
\* minimum of threads its GRPC_CHECK(worker->created()) ends it.
InitReserve ==
  /\ mpc = "reserve"
  /\ \/ Reserved(MinPollers) /\ mpc' = "counters"
     \/ NotReserved(MinPollers) /\ mpc' = "crashed"
  /\ UNCHANGED <<workerVars, listVars, others, shutdown, toStart, queueVars>>

InitCounters ==
  /\ mpc = "counters" /\ mpc' = "create"
  /\ numPollers' = MinPollers /\ numThreads' = MinPollers /\ maxActive' = MinPollers
  /\ toStart' = MinPollers
  /\ UNCHANGED <<pc, found, listVars, quotaVars, shutdown, queueVars>>

InitCreate ==
  /\ mpc = "create"
  /\ IF toStart = 0
     THEN /\ mpc' = "running" /\ UNCHANGED <<pc, toStart>>
     ELSE \/ \E w \in Thread :
               /\ pc[w] = "free"
               /\ pc' = [pc EXCEPT ![w] = "poll"]
               /\ toStart' = toStart - 1 /\ UNCHANGED mpc
          \/ mpc' = "refused" /\ UNCHANGED <<pc, toStart>>
  /\ UNCHANGED <<found, numPollers, numThreads, maxActive, listVars, quotaVars, shutdown,
                 queueVars>>

\* SyncRequestThreadManager::Shutdown: the manager's flag, then the queue.
Shutdown ==
  /\ mpc = "running" /\ mpc' = "shutdown"
  /\ shutdown' = TRUE
  /\ UNCHANGED <<workerVars, listVars, quotaVars, toStart, queueVars>>

ShutdownQueue ==
  /\ mpc = "shutdown" /\ mpc' = "wait"
  /\ cqShutdown' = TRUE
  /\ UNCHANGED <<workerVars, listVars, quotaVars, shutdown, toStart, queued, arrived, answered>>

\* ThreadManager::Wait: test, sleep on shutdown_cv_, test again when woken.
WaitTest ==
  /\ mpc = "wait"
  /\ mpc' = IF numThreads = 0 THEN "drain" ELSE "asleep"
  /\ UNCHANGED <<workerVars, listVars, quotaVars, shutdown, toStart, queueVars>>

SpuriousWakeupUntested ==
  /\ mpc = "asleep" /\ mpc' = "drain"
  /\ UNCHANGED <<workerVars, listVars, quotaVars, shutdown, toStart, queueVars>>

SpuriousWakeup ==
  /\ mpc = "asleep" /\ mpc' = "wait"
  /\ UNCHANGED <<workerVars, listVars, quotaVars, shutdown, toStart, queueVars>>

DrainNothing ==
  /\ mpc = "drain" /\ mpc' = "destroy"
  /\ UNCHANGED <<workerVars, listVars, quotaVars, shutdown, toStart, queueVars>>

\* SyncRequestThreadManager::Wait: what is left in the queue is cleaned up.
Drain ==
  /\ mpc = "drain"
  /\ IF queued > 0
     THEN /\ queued' = queued - 1 /\ answered' = answered + 1 /\ UNCHANGED mpc
     ELSE /\ mpc' = "destroy" /\ UNCHANGED <<queued, answered>>
  /\ UNCHANGED <<workerVars, listVars, quotaVars, shutdown, toStart, cqShutdown, arrived>>

\* A destructor that checks the count and joins nobody.
DestroyWithoutJoin ==
  /\ mpc = "destroy"
  /\ mpc' = IF numThreads = 0 THEN "destroying" ELSE "aborted"
  /\ UNCHANGED <<workerVars, listVars, quotaVars, shutdown, toStart, queueVars>>

\* ~ThreadManager: GRPC_CHECK the count, then join what is on the completed
\* list; the members, list and mutexes, are gone when it returns.
Destroy ==
  /\ mpc = "destroy"
  /\ IF numThreads = 0
     THEN /\ mpc' = "destroying"
          /\ mine' = [mine EXCEPT !["main"] = completed] /\ completed' = {}
     ELSE mpc' = "aborted" /\ UNCHANGED listVars
  /\ UNCHANGED <<workerVars, quotaVars, shutdown, toStart, queueVars>>

Destroyed ==
  /\ mpc = "destroying" /\ mine["main"] = {} /\ mpc' = "freed"
  /\ UNCHANGED <<workerVars, listVars, quotaVars, shutdown, toStart, queueVars>>

----------------------------------------------------------------------------
(* The workers *)

At(t, from, to) == pc[t] = from /\ pc' = [pc EXCEPT ![t] = to]

Arrive ==
  /\ arrived < MaxItems /\ ~cqShutdown /\ mpc \in {"running", "shutdown"}
  /\ arrived' = arrived + 1 /\ queued' = queued + 1
  /\ UNCHANGED <<workerVars, listVars, quotaVars, mainVars, cqShutdown, answered>>

\* PollForWork returned; mu_ is not held yet.
Poll(t) ==
  /\ At(t, "poll", "polled")
  /\ \/ queued > 0 /\ queued' = queued - 1 /\ found' = [found EXCEPT ![t] = "WORK_FOUND"]
     \/ queued = 0 /\ cqShutdown /\ found' = [found EXCEPT ![t] = "SHUTDOWN"] /\ UNCHANGED queued
     \/ queued = 0 /\ ~cqShutdown /\ found' = [found EXCEPT ![t] = "TIMEOUT"] /\ UNCHANGED queued
  /\ UNCHANGED <<numPollers, numThreads, maxActive, listVars, quotaVars, mainVars, cqShutdown,
                 arrived, answered>>

\* The end of the loop body: poll again unless there are pollers enough.
PollAgainOrLeave(t, from, pollers) ==
  \/ /\ pollers < MaxPollers
     /\ At(t, from, "poll") /\ numPollers' = pollers + 1
  \/ /\ pollers >= MaxPollers
     /\ At(t, from, "cleanup") /\ numPollers' = pollers

Leave(t, from, pollers) == At(t, from, "cleanup") /\ numPollers' = pollers

\* TIMEOUT and SHUTDOWN keep mu_ from the decrement to the end of the body.
NoWork(t) ==
  /\ pc[t] = "polled" /\ found[t] # "WORK_FOUND"
  /\ LET pollers == numPollers - 1
         done == \/ found[t] = "SHUTDOWN"
                 \/ found[t] = "TIMEOUT" /\ (shutdown \/ pollers > MaxPollers)
     IN IF done THEN Leave(t, "polled", pollers)
                ELSE PollAgainOrLeave(t, "polled", pollers)
  /\ UNCHANGED <<found, numThreads, maxActive, listVars, quotaVars, mainVars, queueVars>>

\* A new poller is counted without asking the quota for it.
WorkFoundUnreserved(t) ==
  /\ pc[t] = "polled" /\ found[t] = "WORK_FOUND"
  /\ LET pollers == numPollers - 1
         short == ~shutdown /\ pollers < MinPollers
     IN \/ /\ short
           /\ At(t, "polled", "spawn")
           /\ numPollers' = pollers + 1 /\ numThreads' = numThreads + 1
           /\ maxActive' = IF numThreads + 1 > maxActive THEN numThreads + 1 ELSE maxActive
        \/ /\ ~short
           /\ At(t, "polled", "work")
           /\ numPollers' = pollers /\ UNCHANGED <<numThreads, maxActive>>
  /\ UNCHANGED <<found, listVars, quotaVars, mainVars, queueVars>>

\* WORK_FOUND: if pollers are short, count a new one before it exists.
WorkFound(t) ==
  /\ pc[t] = "polled" /\ found[t] = "WORK_FOUND"
  /\ LET pollers == numPollers - 1
         short == ~shutdown /\ pollers < MinPollers
     IN \/ /\ short /\ Reserved(1)
           /\ At(t, "polled", "spawn")
           /\ numPollers' = pollers + 1 /\ numThreads' = numThreads + 1
           /\ maxActive' = IF numThreads + 1 > maxActive THEN numThreads + 1 ELSE maxActive
        \/ /\ short /\ NotReserved(1)
           /\ At(t, "polled", IF pollers > 0 THEN "work" ELSE "exhausted")
           /\ numPollers' = pollers /\ UNCHANGED <<numThreads, maxActive>>
        \/ /\ ~short /\ UNCHANGED allocated
           /\ At(t, "polled", "work")
           /\ numPollers' = pollers /\ UNCHANGED <<numThreads, maxActive>>
  /\ UNCHANGED <<found, listVars, others, mainVars, queueVars>>

\* Outside mu_: a new WorkerThread is created and started ...
Spawn(t) ==
  /\ pc[t] = "spawn"
  /\ \E w \in Thread :
       /\ pc[w] = "free"
       /\ pc' = [pc EXCEPT ![t] = "work", ![w] = "poll"]
  /\ UNCHANGED <<found, numPollers, numThreads, maxActive, listVars, quotaVars, mainVars,
                 queueVars>>

\* The undo of a failed creation forgets the poller, or the thread.
SpawnFailsKeepsPoller(t) ==
  /\ At(t, "spawn", "exhausted")
  /\ numThreads' = numThreads - 1
  /\ UNCHANGED <<found, numPollers, maxActive, listVars, quotaVars, mainVars, queueVars>>

SpawnFailsKeepsThread(t) ==
  /\ At(t, "spawn", "exhausted")
  /\ numPollers' = numPollers - 1
  /\ UNCHANGED <<found, numThreads, maxActive, listVars, quotaVars, mainVars, queueVars>>

\* ... or could not be, and the counters are undone under mu_.
SpawnFails(t) ==
  /\ At(t, "spawn", "exhausted")
  /\ numPollers' = numPollers - 1 /\ numThreads' = numThreads - 1
  /\ UNCHANGED <<found, maxActive, listVars, quotaVars, mainVars, queueVars>>

\* DoWork, with resources unless they are exhausted: the request is answered.
DoWork(t) ==
  /\ pc[t] \in {"work", "exhausted"}
  /\ pc' = [pc EXCEPT ![t] = "worked"]
  /\ answered' = answered + 1
  /\ UNCHANGED <<found, numPollers, numThreads, maxActive, listVars, quotaVars, mainVars, queued,
                 cqShutdown, arrived>>

AfterWork(t) ==
  /\ pc[t] = "worked"
  /\ IF shutdown THEN Leave(t, "worked", numPollers)
                 ELSE PollAgainOrLeave(t, "worked", numPollers)
  /\ UNCHANGED <<found, numThreads, maxActive, listVars, quotaVars, mainVars, queueVars>>

\* The completed list copied, not swapped.
CleanupCopies(t) ==
  /\ At(t, "cleanup", "joining")
  /\ mine' = [mine EXCEPT ![t] = completed]
  /\ UNCHANGED <<found, numPollers, numThreads, maxActive, completed, quotaVars, mainVars,
                 queueVars>>

\* CleanupCompletedThreads: swap the list out, then join and delete.
Cleanup(t) ==
  /\ At(t, "cleanup", "joining")
  /\ mine' = [mine EXCEPT ![t] = completed] /\ completed' = {}
  /\ UNCHANGED <<found, numPollers, numThreads, maxActive, quotaVars, mainVars, queueVars>>

Join(o) ==
  /\ \E w \in mine[o] :
       /\ pc[w] = "exited"
       /\ pc' = [pc EXCEPT ![w] = "free"]
       /\ mine' = [mine EXCEPT ![o] = @ \ {w}]
  /\ UNCHANGED <<found, numPollers, numThreads, maxActive, completed, quotaVars, mainVars,
                 queueVars>>

\* MarkAsCompleted, its three critical sections in order.
MarkListed(t) ==
  /\ mine[t] = {} /\ At(t, "joining", "listed")
  /\ completed' = completed \cup {t}
  /\ UNCHANGED <<found, numPollers, numThreads, maxActive, mine, quotaVars, mainVars, queueVars>>

MarkCountedSilently(t) ==
  /\ At(t, "listed", "counted")
  /\ numThreads' = numThreads - 1
  /\ UNCHANGED <<found, numPollers, maxActive, listVars, quotaVars, mainVars, queueVars>>

MarkCounted(t) ==
  /\ At(t, "listed", "counted")
  /\ numThreads' = numThreads - 1
  /\ mpc' = IF numThreads = 1 /\ mpc = "asleep" THEN "wait" ELSE mpc
  /\ UNCHANGED <<found, numPollers, maxActive, listVars, quotaVars, shutdown, toStart, queueVars>>

MarkReleased(t) ==
  /\ At(t, "counted", "exited")
  /\ IF allocated >= 1 THEN allocated' = allocated - 1 /\ UNCHANGED mpc
                       ELSE mpc' = "aborted" /\ UNCHANGED allocated
  /\ UNCHANGED <<found, numPollers, numThreads, maxActive, listVars, others, shutdown, toStart,
                 queueVars>>

----------------------------------------------------------------------------
\* Crash and a failed GRPC_CHECK end the process: "refused" is the check that a
\* thread could be created, "aborted" a check of what the manager keeps itself.
Ended == {"crashed", "refused", "aborted"}
Alive == mpc \notin Ended

WorkerStep(t) ==
  /\ Alive
  /\ \/ Poll(t) \/ NoWork(t) \/ WorkFound(t) \/ Spawn(t) \/ SpawnFails(t) \/ DoWork(t)
     \/ AfterWork(t) \/ Cleanup(t) \/ MarkListed(t) \/ MarkCounted(t) \/ MarkReleased(t)
     \/ Join(t)

Starting == InitReserve \/ InitCounters \/ InitCreate

Stopping ==
  /\ Alive
  /\ \/ ShutdownQueue \/ WaitTest \/ Drain \/ Destroy \/ Destroyed \/ Join("main")

Environment == Alive /\ (OtherReserves \/ OtherReleases \/ Arrive \/ SpuriousWakeup)

Next ==
  \/ Environment
  \/ Starting \/ Shutdown \/ Stopping
  \/ \E t \in Thread : WorkerStep(t)

\* Every thread that can run does: workers, handlers included, and the server
\* thread once it started or stops.  Nothing obliges requests to arrive, the
\* server to be shut down, other users of the quota or spurious wakeups.
Fairness ==
  /\ WF_vars(Starting) /\ WF_vars(Stopping)
  /\ \A t \in Thread : WF_vars(WorkerStep(t))

Spec == Init /\ [][Next]_vars /\ Fairness

----------------------------------------------------------------------------
(* Properties *)

Count(S) == Cardinality({t \in Thread : pc[t] \in S})

Polling == {"poll", "polled", "spawn"}     \* counted in num_pollers_
Serving == Polling \cup {"work", "exhausted", "worked"}
Leaving == {"cleanup", "joining", "listed"}
Counted == Serving \cup Leaving            \* counted in num_threads_
Holding == Counted \cup {"counted"}        \* a quota thread to be released
Done == {"listed", "counted", "exited"}    \* on the completed list
PC == Holding \cup {"free", "exited"}

Waited == {"drain", "destroy", "destroying", "freed"}
Ending == {"shutdown", "wait", "asleep"} \cup Waited
MPC == {"reserve", "counters", "create", "running"} \cup Ending \cup Ended

TypeOK ==
  /\ pc \in [Thread -> PC]
  /\ found \in [Thread -> {"TIMEOUT", "SHUTDOWN", "WORK_FOUND"}]
  /\ shutdown \in BOOLEAN /\ cqShutdown \in BOOLEAN
  /\ numPollers \in Nat /\ numThreads \in Nat /\ maxActive \in Nat
  /\ completed \subseteq Thread /\ mine \in [Owner -> SUBSET Thread]
  /\ allocated \in Nat /\ others \in Nat /\ toStart \in Nat
  /\ mpc \in MPC
  /\ queued \in Nat /\ arrived \in Nat /\ answered \in Nat

\* The counters are exact at every moment, whatever the workers are doing: a
\* thread being created is already counted, as a poller and as a thread.
CountersExact ==
  /\ numPollers = Count(Polling) + toStart
  /\ numThreads = Count(Counted) + Count({"spawn"}) + toStart
  /\ numPollers <= MaxPollers

\* The quota covers the threads that exist, those about to, and the others'.
QuotaCovers ==
  /\ allocated <= ThreadMax /\ maxActive <= ThreadMax
  /\ Count(Holding) + Count({"spawn"}) + toStart + others
       + (IF mpc = "counters" THEN MinPollers ELSE 0) <= allocated

\* The server thread's flags and counters agree with where it is: it shuts the
\* manager down before its queue, and once Wait has seen no thread there is
\* none but those past their last access to the counters, and none will come.
PhaseOK ==
  /\ mpc # "aborted"
  /\ shutdown <=> mpc \in Ending
  /\ cqShutdown => shutdown
  /\ \A t \in Thread : found[t] = "SHUTDOWN" => shutdown
  /\ mpc \in {"reserve", "counters"} => numThreads = 0 /\ numPollers = 0
  /\ toStart # 0 => mpc \in {"create", "refused"}
  /\ mpc \in {"create", "running"} => Count(Serving) + toStart >= MinPollers
  /\ mpc \in Waited => numThreads = 0

\* Where finished threads wait to be joined, and by whom.
ListsOK ==
  /\ \A t \in Thread : mine[t] # {} => pc[t] = "joining"
  /\ mine["main"] # {} => mpc = "destroying"
  /\ mpc \in {"destroying", "freed"} => completed = {}

\* The manager's threads never exceed the resource quota, whatever its other
\* users take and release and however often creation fails: the maximum ever
\* seen by GetMaxActiveThreadsSoFar included.
QuotaEnforced == Count(Holding) + others <= ThreadMax /\ maxActive <= ThreadMax

\* The pool never drains: until it is shut down, at least min_pollers_ threads
\* are polling or will poll again after the request they are serving, even
\* though every one of them may decide to leave on counters that others,
\* including threads that failed to be created, have just changed.
PoolNeverDrains ==
  mpc = "running" /\ ~shutdown => Count(Serving) >= MinPollers

\* No worker outlives the manager: when the destructor returns, every thread
\* that ever ran has been joined and its object deleted.
NoUseAfterFree == mpc = "freed" => \A t \in Thread : pc[t] = "free"

\* A finished thread is waiting to be joined in exactly one place, and nobody
\* joins a thread that has not reached the end of its work, itself included.
JoinedOnce ==
  /\ \A t \in Thread : pc[t] \in Done =>
       \/ t \in completed
       \/ \E o \in Owner : t \in mine[o]
  /\ \A o \in Owner : \A t \in mine[o] :
       /\ pc[t] \in Done /\ t \notin completed
       /\ \A q \in Owner \ {o} : t \notin mine[q]
  /\ \A t \in completed : pc[t] \in Done

\* The GRPC_CHECKs of ~ThreadManager (no thread is counted) and of
\* ThreadQuota::Release (what is given back was taken) never fire.  The third,
\* of Initialize, fires whenever the system refuses a thread.
ChecksHold == mpc # "aborted"

\* Why they hold: an inductive invariant.
IInv == TypeOK /\ CountersExact /\ QuotaCovers /\ PhaseOK /\ ListsOK /\ JoinedOnce

\* Every request that arrived is run or cleaned up, shutdown or not.
EveryRequestAnswered == \A n \in 1..MaxItems : arrived >= n ~> answered >= n

\* A shutdown ends: every worker leaves, Wait wakes up, the manager is freed.
ShutdownCompletes == mpc = "shutdown" ~> mpc = "freed"

\* The quota tracks the amount of threads: with the manager gone, what is
\* allocated is what the other users hold.
QuotaBalanced == mpc = "freed" => allocated = others

\* MainWorkLoop's word: "If we timed out and we have more pollers than we need ...
\* finish this thread".  The loop needs min_pollers_, the number below which it
\* creates one.
SurplusPollersFinish ==
  [][\A t \in Thread :
       pc[t] = "polled" /\ found[t] = "TIMEOUT" /\ numPollers > MinPollers /\ pc'[t] # pc[t]
         => pc'[t] = "cleanup"]_vars

============================================================================
