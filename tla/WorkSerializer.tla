--------------------------- MODULE WorkSerializer ---------------------------
(***************************************************************************)
(* WorkSerializer::WorkSerializerImpl (src/core/util/work_serializer.cc):  *)
(* callbacks scheduled from any thread run one at a time on EventEngine    *)
(* threads, in batches: processing_ is drained without the mutex while     *)
(* incoming_ collects, and is refilled from it.  The object deletes itself *)
(* once it is orphaned and has run dry, whichever comes last.              *)
(*                                                                         *)
(* One action is one critical section of mu_, or one step of the work loop *)
(* between two of them.  The handle is a shared_ptr, held by clients and   *)
(* captured by callbacks; the last one to let go calls Orphan, be it a     *)
(* callback whose captures are destroyed inside the work loop itself.      *)
(***************************************************************************)
EXTENDS Naturals, SequencesExt

CONSTANTS
  Client,    \* the code outside callbacks that holds the serializer
  Callback,  \* the callbacks that may be scheduled, each once
  Thread,    \* EventEngine's threads
  Nobody     \* no callback

ASSUME WorkSerializerAssumption ==
  /\ Client # {} /\ Client \cap Callback = {} /\ Client \cap Thread = {}
  /\ Nobody \notin Callback /\ Nobody \notin Client

VARIABLES
  processing,  \* processing_, the next callback last
  incoming,    \* incoming_
  running,     \* running_
  orphaned,    \* orphaned_
  alive,       \* the object has not been deleted
  engine,      \* closures handed to EventEngine and not started
  pc,          \* where every thread is in the work loop
  holders,     \* who holds the handle
  deleting,    \* who is about to delete the object, having left mu_
  finished,    \* history: the callbacks that ran, in order
  broken       \* the CHECK failed, or a deleted object was used

loopVars == <<engine, pc>>
vars == <<processing, incoming, running, orphaned, alive, engine, pc, holders, deleting,
          finished, broken>>

Scheduled == ToSet(processing) \cup ToSet(incoming) \cup ToSet(finished)

Init ==
  /\ processing = <<>> /\ incoming = <<>>
  /\ running = FALSE /\ orphaned = FALSE /\ alive = TRUE
  /\ engine = 0 /\ pc = [t \in Thread |-> "idle"]
  /\ holders = Client /\ deleting = {}
  /\ finished = <<>> /\ broken = FALSE

\* Whoever touches the object must find it alive.
Touch == broken' = (broken \/ ~alive)

----------------------------------------------------------------------------
(* Run(callback): from a client, or from the callback that is running *)

Schedule(cb) ==
  /\ IF running
     THEN /\ incoming' = Append(incoming, cb) /\ Touch
          /\ UNCHANGED <<processing, running, engine>>
     ELSE /\ broken' = (broken \/ ~alive \/ processing # <<>>)
          /\ running' = TRUE /\ processing' = <<cb>> /\ engine' = engine + 1
          /\ UNCHANGED incoming
  /\ UNCHANGED <<orphaned, alive, pc, deleting, finished>>

InCallback(t) == pc[t] = "call"

Run ==
  \E cb \in Callback \ Scheduled :
    /\ \E h \in holders :
         h \in Client \/ \E t \in Thread : (InCallback(t) /\ h = Last(processing))
    /\ Schedule(cb)
    /\ holders' \in {holders, holders \cup {cb}}

----------------------------------------------------------------------------
(* Letting go of the handle *)

\* Deleted at once, running or not.
OrphanUnchecked(actor) ==
  /\ deleting' = deleting \cup {actor} /\ UNCHANGED orphaned

Orphan(actor) ==
  IF running THEN orphaned' = TRUE /\ UNCHANGED deleting
             ELSE deleting' = deleting \cup {actor} /\ UNCHANGED orphaned

LetGo(h, actor) ==
  /\ holders' = holders \ {h}
  /\ IF holders = {h} THEN Orphan(actor) /\ Touch
                      ELSE UNCHANGED <<orphaned, deleting, broken>>

Drop(c) ==
  /\ c \in Client \cap holders
  /\ LetGo(c, c)
  /\ UNCHANGED <<processing, incoming, running, alive, engine, pc, finished>>

Delete(actor) ==
  /\ actor \in deleting
  /\ deleting' = deleting \ {actor} /\ alive' = FALSE /\ Touch
  /\ UNCHANGED <<processing, incoming, running, orphaned, engine, pc, holders, finished>>

----------------------------------------------------------------------------
(* The work loop, one round per closure *)

At(t, from, to) == pc[t] = from /\ pc' = [pc EXCEPT ![t] = to]

Start(t) ==
  /\ engine > 0 /\ engine' = engine - 1
  /\ At(t, "idle", "call")
  /\ broken' = (broken \/ ~alive \/ processing = <<>>)
  /\ UNCHANGED <<processing, incoming, running, orphaned, alive, holders, deleting, finished>>

\* A callback may let go of what it captured before it returns ...
DropInside(t) ==
  /\ InCallback(t) /\ Last(processing) \in holders
  /\ LetGo(Last(processing), t)
  /\ UNCHANGED <<processing, incoming, running, alive, engine, pc, finished>>

Return(t) ==
  /\ At(t, "call", "destroy")
  /\ finished' = Append(finished, Last(processing)) /\ Touch
  /\ UNCHANGED <<processing, incoming, running, orphaned, alive, engine, holders, deleting>>

\* ... else pop_back destroys it: first the element, then the size.
Destroy(t) ==
  /\ At(t, "destroy", "pop")
  /\ IF Last(processing) \in holders
     THEN LetGo(Last(processing), t)
     ELSE UNCHANGED <<holders, orphaned, deleting, broken>>
  /\ UNCHANGED <<processing, incoming, running, alive, engine, finished>>

Pop(t) ==
  /\ At(t, "pop", IF Len(processing) = 1 THEN "refill" ELSE "again")
  /\ processing' = Front(processing) /\ Touch
  /\ UNCHANGED <<incoming, running, orphaned, alive, engine, holders, deleting, finished>>

\* A last round that does not look at orphaned_.
RefillLeaksOrphan(t) ==
  /\ pc[t] = "refill"
  /\ processing' = incoming /\ incoming' = <<>>
  /\ IF incoming = <<>>
     THEN /\ running' = FALSE
          /\ pc' = [pc EXCEPT ![t] = "idle"] /\ UNCHANGED deleting
     ELSE /\ pc' = [pc EXCEPT ![t] = "reverse"] /\ UNCHANGED <<running, deleting>>
  /\ Touch
  /\ UNCHANGED <<orphaned, alive, engine, holders, finished>>

\* RefillInner: swap the lists under mu_; nothing came, nothing runs.
Refill(t) ==
  /\ pc[t] = "refill"
  /\ processing' = incoming /\ incoming' = <<>>
  /\ IF incoming = <<>>
     THEN /\ running' = FALSE
          /\ pc' = [pc EXCEPT ![t] = "idle"]
          /\ deleting' = IF orphaned THEN deleting \cup {t} ELSE deleting
     ELSE /\ pc' = [pc EXCEPT ![t] = "reverse"] /\ UNCHANGED <<running, deleting>>
  /\ Touch
  /\ UNCHANGED <<orphaned, alive, engine, holders, finished>>

ReorderNot(t) ==
  /\ At(t, "reverse", "again") /\ Touch
  /\ UNCHANGED <<processing, incoming, running, orphaned, alive, engine, holders, deleting,
                 finished>>

Reorder(t) ==
  /\ At(t, "reverse", "again")
  /\ processing' = Reverse(processing) /\ Touch
  /\ UNCHANGED <<incoming, running, orphaned, alive, engine, holders, deleting, finished>>

Again(t) ==
  /\ At(t, "again", "idle")
  /\ engine' = engine + 1 /\ Touch
  /\ UNCHANGED <<processing, incoming, running, orphaned, alive, holders, deleting, finished>>

----------------------------------------------------------------------------
ThreadStep(t) ==
  \/ Start(t) \/ Return(t) \/ Destroy(t) \/ Pop(t) \/ Refill(t) \/ Reorder(t) \/ Again(t)
  \/ Delete(t)

Next ==
  \/ Run
  \/ \E c \in Client : Drop(c) \/ Delete(c)
  \/ \E t \in Thread : DropInside(t) \/ ThreadStep(t)

\* EventEngine runs its closures, callbacks return, and a destructor that
\* started goes on.  Nobody has to schedule anything or to let go.
Fairness ==
  /\ WF_vars(\E t \in Thread : ThreadStep(t))
  /\ \A c \in Client : WF_vars(Delete(c))

Spec == Init /\ [][Next]_vars /\ Fairness

----------------------------------------------------------------------------
(* Properties *)

Loop == {"call", "destroy", "pop", "refill", "reverse", "again"}

TypeOK ==
  /\ processing \in Seq(Callback) /\ incoming \in Seq(Callback) /\ finished \in Seq(Callback)
  /\ running \in BOOLEAN /\ orphaned \in BOOLEAN /\ alive \in BOOLEAN /\ broken \in BOOLEAN
  /\ engine \in Nat /\ pc \in [Thread -> {"idle"} \cup Loop]
  /\ holders \subseteq Client \cup Callback /\ deleting \subseteq Client \cup Thread

InLoop == {t \in Thread : pc[t] # "idle"}

\* One round at a time: running_ stands for exactly one round, handed to
\* EventEngine or on one of its threads, and only that round has callbacks in
\* processing_, which it touches without the mutex.
OneRound ==
  /\ running => \/ engine = 1 /\ InLoop = {}
                \/ engine = 0 /\ \E t \in Thread : InLoop = {t}
  /\ ~running => engine = 0 /\ InLoop = {} /\ processing = <<>> /\ incoming = <<>>

\* processing_ has callbacks whenever the round is about to take one.
BatchOK ==
  /\ running => ((processing = <<>>) <=> \E t \in Thread : pc[t] = "refill")
  /\ \A t \in Thread : pc[t] \in {"destroy", "pop"} =>
       finished # <<>> /\ Last(finished) = Last(processing)

\* A callback is in one place of one list.
Unique ==
  /\ IsInjective(processing) /\ IsInjective(incoming)
  /\ ToSet(processing) \cap ToSet(incoming) = {}

\* Who may delete the object: one actor, when nobody holds it, it is orphaned
\* or was idle when let go, and it does not run.
LifeOK ==
  /\ orphaned => holders = {}
  /\ holders = {} => \/ orphaned /\ running /\ alive /\ deleting = {}
                     \/ ~running /\ alive /\ \E a \in Client \cup Thread : deleting = {a}
                     \/ ~running /\ ~alive /\ deleting = {}
  /\ holders # {} => alive /\ deleting = {}

\* The object is never used after it is deleted and never deleted twice, the
\* CHECK on an empty processing_ never fails, and the work loop never takes the
\* back of an empty list: not even when the last handle goes away inside the
\* destruction of the callback that the loop is running.
NeverBroken == ~broken

IInv == TypeOK /\ OneRound /\ BatchOK /\ Unique /\ LifeOK /\ NeverBroken

\* What it promises.  The queue is the unreversed batch, then incoming_.
Running == \E t \in Thread : InCallback(t)
Batch ==
  LET rest == IF \E t \in Thread : pc[t] \in {"call", "destroy", "pop"}
              THEN Front(processing) ELSE processing
  IN IF \E t \in Thread : pc[t] = "reverse" THEN rest ELSE Reverse(rest)

Queue == Batch \o incoming
Current == IF Running THEN Last(processing) ELSE Nobody

Abstract == INSTANCE SerialExecutor WITH queue <- Queue, current <- Current, freed <- ~alive

\* The work serializer implements the serial executor: one at a time, first
\* in first out, gone only when nobody holds it and nothing is left, and every
\* callback scheduled is run and the object deleted in the end.
ImplementsSerial == Abstract!Serial
=============================================================================
