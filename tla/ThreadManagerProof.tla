------------------------- MODULE ThreadManagerProof -------------------------
(* Theorems about ThreadManager, for any number of threads, pollers and     *)
(* requests and any quota: its counters are exact, its quota is respected,  *)
(* the pool never drains, and no worker outlives the manager.               *)
EXTENDS ThreadManager, FiniteSetTheorems, TLAPS

----------------------------------------------------------------------------
(* Counting threads by where they are *)

In(v, S) == IF v \in S THEN 1 ELSE 0
Among(f, S) == {t \in Thread : f[t] \in S}
OneMoved(f, g, t, to) == t \in Thread /\ DOMAIN f = Thread /\ g = [f EXCEPT ![t] = to]
MovesCount(f, g, t, to, S) ==
  /\ Cardinality(Among(f, S)) \in Nat /\ Cardinality(Among(g, S)) \in Nat
  /\ Cardinality(Among(g, S)) + In(f[t], S) = Cardinality(Among(f, S)) + In(to, S)

\* Moving one thread moves the count of a set of places by what it left and
\* what it entered.
LEMMA CountMove ==
  ASSUME NEW f, NEW g, NEW t, NEW to, OneMoved(f, g, t, to)
  PROVE  \A S : MovesCount(f, g, t, to, S)
<1> TAKE S
<1>0. t \in Thread /\ DOMAIN f = Thread /\ g = [f EXCEPT ![t] = to]
  BY DEF OneMoved
<1> DEFINE A == {s \in Thread \ {t} : f[s] \in S}
<1>1. IsFiniteSet(Thread)
  BY ThreadManagerAssumption
<1>2. IsFiniteSet(A) /\ IsFiniteSet(Among(f, S)) /\ IsFiniteSet(Among(g, S))
  <2>1. A \subseteq Thread /\ Among(f, S) \subseteq Thread /\ Among(g, S) \subseteq Thread
    BY DEF Among
  <2> QED BY <1>1, <2>1, FS_Subset
<1>3. t \notin A /\ Cardinality(A) \in Nat /\ Cardinality(A \cup {t}) = Cardinality(A) + 1
  BY <1>2, FS_AddElement, FS_CardinalityType
<1>4. Among(f, S) = IF f[t] \in S THEN A \cup {t} ELSE A
  BY <1>0 DEF Among
<1>5. Among(g, S) = IF to \in S THEN A \cup {t} ELSE A
  BY <1>0 DEF Among
<1> HIDE DEF A
<1> QED BY <1>3, <1>4, <1>5 DEF In, MovesCount

\* More places, no fewer threads.
LEMMA CountMono ==
  ASSUME NEW S, NEW T, S \subseteq T
  PROVE  Count(S) \in Nat /\ Count(T) \in Nat /\ Count(S) <= Count(T)
<1>1. IsFiniteSet(Thread)
  BY ThreadManagerAssumption
<1> DEFINE A == {t \in Thread : pc[t] \in S}  B == {t \in Thread : pc[t] \in T}
<1>2. A \subseteq B /\ B \subseteq Thread
  OBVIOUS
<1>3. IsFiniteSet(A) /\ IsFiniteSet(B)
  BY <1>1, <1>2, FS_Subset
<1> HIDE DEF A, B
<1>4. Cardinality(A) <= Cardinality(B) /\ Cardinality(A) \in Nat /\ Cardinality(B) \in Nat
  BY <1>2, <1>3, FS_Subset, FS_CardinalityType
<1> QED BY <1>4 DEF Count, A, B

\* A thread that is counted makes the count positive.
LEMMA CountPositive ==
  ASSUME NEW S, NEW t \in Thread, pc[t] \in S
  PROVE  Count(S) \in Nat /\ Count(S) >= 1
<1> DEFINE A == {s \in Thread : pc[s] \in S}
<1>1. t \in A /\ A \subseteq Thread
  OBVIOUS
<1>2. IsFiniteSet(A)
  BY <1>1, ThreadManagerAssumption, FS_Subset
<1>3. Cardinality(A) \in Nat /\ Cardinality(A) # 0
  BY <1>1, <1>2, FS_CardinalityType, FS_EmptySet
<1> QED BY <1>3 DEF Count

\* The five counts the invariant is about, after one thread moved.
Moved(from, to) ==
  /\ Count(Polling)' + In(from, Polling) = Count(Polling) + In(to, Polling)
  /\ Count(Serving)' + In(from, Serving) = Count(Serving) + In(to, Serving)
  /\ Count(Counted)' + In(from, Counted) = Count(Counted) + In(to, Counted)
  /\ Count(Holding)' + In(from, Holding) = Count(Holding) + In(to, Holding)
  /\ Count({"spawn"})' + In(from, {"spawn"}) = Count({"spawn"}) + In(to, {"spawn"})

CountsTyped ==
  /\ Count(Polling) \in Nat /\ Count(Serving) \in Nat /\ Count(Counted) \in Nat
  /\ Count(Holding) \in Nat /\ Count({"spawn"}) \in Nat
  /\ Count(Polling) <= Count(Serving) /\ Count(Serving) <= Count(Counted)
  /\ Count(Counted) <= Count(Holding)

LEMMA CountsAlwaysTyped == CountsTyped
<1>1. /\ Polling \subseteq Serving /\ Serving \subseteq Counted /\ Counted \subseteq Holding
      /\ {"spawn"} \subseteq Serving
  BY DEF Polling, Serving, Counted, Leaving, Holding
<1> QED BY <1>1, CountMono DEF CountsTyped

LEMMA Move ==
  ASSUME NEW t \in Thread, NEW to, DOMAIN pc = Thread, pc' = [pc EXCEPT ![t] = to]
  PROVE  Moved(pc[t], to)
<1>1. \A S : Count(S)' + In(pc[t], S) = Count(S) + In(to, S)
  <2> TAKE S
  <2>1. Count(S) = Cardinality(Among(pc, S)) /\ Count(S)' = Cardinality(Among(pc', S))
    BY DEF Count, Among
  <2>2. OneMoved(pc, pc', t, to)
    BY DEF OneMoved
  <2>3. MovesCount(pc, pc', t, to, S)
    BY <2>2, CountMove
  <2> QED BY <2>1, <2>3 DEF MovesCount
<1> QED BY <1>1 DEF Moved

LEMMA Unmoved ==
  ASSUME UNCHANGED pc
  PROVE  \A S : Count(S)' = Count(S)
BY DEF Count

----------------------------------------------------------------------------
(* Parts of the invariant that a step leaves alone *)

\* A thread that moves without finishing or being reused disturbs no list.
LEMMA MoveKeepsLists ==
  ASSUME IInv, NEW t \in Thread, NEW to \in PC, pc' = [pc EXCEPT ![t] = to],
         UNCHANGED listVars, UNCHANGED mpc,
         pc[t] \in Done <=> to \in Done, pc[t] # "joining"
  PROVE  ListsOK' /\ JoinedOnce'
<1>1. TypeOK /\ ListsOK /\ JoinedOnce /\ UNCHANGED <<completed, mine>>
  BY DEF IInv, listVars
<1>2. DOMAIN pc = Thread /\ pc'[t] = to /\ \A s \in Thread \ {t} : pc'[s] = pc[s]
  BY <1>1 DEF TypeOK
<1>3. \A s \in Thread : pc'[s] \in Done <=> pc[s] \in Done
  BY <1>2
<1>4. \A s \in Thread : pc[s] = "joining" => pc'[s] = "joining"
  BY <1>2
<1>5. ListsOK'
  BY <1>1, <1>4 DEF ListsOK
<1>6. \A o \in Owner : mine[o] \subseteq Thread
  BY <1>1 DEF TypeOK
<1>7. JoinedOnce'
  BY <1>1, <1>3, <1>6 DEF JoinedOnce, TypeOK
<1> QED BY <1>5, <1>7

\* What the arithmetic of a worker's step needs.
LEMMA WorkerMoves ==
  ASSUME IInv, NEW t \in Thread, NEW to \in PC, pc' = [pc EXCEPT ![t] = to]
  PROVE  /\ Moved(pc[t], to) /\ CountsTyped /\ CountsTyped'
         /\ pc' \in [Thread -> PC]
<1>1. pc \in [Thread -> PC]
  BY DEF IInv, TypeOK
<1>2. CountsTyped /\ CountsTyped'
  BY CountsAlwaysTyped, PTL
<1> QED BY <1>1, <1>2, Move

----------------------------------------------------------------------------
(* The workers' steps *)

LEMMA PollStep ==
  ASSUME IInv, NEW t \in Thread, Poll(t), Alive
  PROVE  IInv'
<1>1. pc[t] = "poll" /\ pc' = [pc EXCEPT ![t] = "polled"] /\ "polled" \in PC
  BY DEF Poll, At, PC, Holding, Counted, Serving, Polling
<1>2. Moved("poll", "polled") /\ CountsTyped /\ CountsTyped' /\ pc' \in [Thread -> PC]
  BY <1>1, WorkerMoves
<1>3. /\ Count(Polling)' = Count(Polling) /\ Count(Serving)' = Count(Serving)
      /\ Count(Counted)' = Count(Counted) /\ Count(Holding)' = Count(Holding)
      /\ Count({"spawn"})' = Count({"spawn"})
  BY <1>2 DEF Moved, In, CountsTyped, Polling, Serving, Leaving, Counted, Holding
<1>4. TypeOK'
  BY <1>2 DEF Poll, IInv, TypeOK, listVars, quotaVars, mainVars
<1>5. CountersExact' /\ QuotaCovers'
  BY <1>3 DEF Poll, IInv, CountersExact, QuotaCovers, listVars, quotaVars, mainVars
<1>6. PhaseOK'
  BY <1>3 DEF Poll, IInv, TypeOK, PhaseOK, listVars, quotaVars, mainVars
<1>7. ListsOK' /\ JoinedOnce'
  BY <1>1, MoveKeepsLists DEF Poll, Done, mainVars
<1> QED BY <1>4, <1>5, <1>6, <1>7 DEF IInv

LEMMA NoWorkStep ==
  ASSUME IInv, NEW t \in Thread, NoWork(t), Alive
  PROVE  IInv'
<1> DEFINE from == "polled"
<1>1. /\ pc[t] = "polled" /\ numPollers \in Nat /\ MaxPollers \in Nat /\ shutdown \in BOOLEAN
      /\ {"poll", "cleanup"} \subseteq PC
  BY ThreadManagerAssumption DEF NoWork, IInv, TypeOK, PC, Holding, Counted, Serving, Polling,
     Leaving
\* Only a shutdown makes a poller without work leave.
<1>2. \/ pc' = [pc EXCEPT ![t] = "poll"] /\ numPollers' = numPollers
      \/ /\ pc' = [pc EXCEPT ![t] = "cleanup"] /\ numPollers' = numPollers - 1
         /\ shutdown
  <2>1. numPollers <= MaxPollers /\ (found[t] = "SHUTDOWN" => shutdown)
    BY DEF IInv, CountersExact, PhaseOK
  <2> QED BY <1>1, <2>1 DEF NoWork, Leave, PollAgainOrLeave, At
<1>3. CASE pc' = [pc EXCEPT ![t] = "poll"] /\ numPollers' = numPollers
  <2>1. Moved("polled", "poll") /\ CountsTyped /\ CountsTyped' /\ pc' \in [Thread -> PC]
    BY <1>1, <1>3, WorkerMoves
  <2>2. /\ Count(Polling)' = Count(Polling) /\ Count(Serving)' = Count(Serving)
        /\ Count(Counted)' = Count(Counted) /\ Count(Holding)' = Count(Holding)
        /\ Count({"spawn"})' = Count({"spawn"})
    BY <2>1 DEF Moved, In, CountsTyped, Polling, Serving, Leaving, Counted, Holding
  <2>3. TypeOK'
    BY <1>1, <1>3, <2>1 DEF NoWork, IInv, TypeOK, listVars, quotaVars, mainVars, queueVars
  <2>4. CountersExact' /\ QuotaCovers'
    BY <1>3, <2>2 DEF NoWork, IInv, CountersExact, QuotaCovers, quotaVars, mainVars
  <2>5. PhaseOK'
    BY <1>3, <2>2 DEF NoWork, IInv, PhaseOK, mainVars, queueVars
  <2>6. ListsOK' /\ JoinedOnce'
    BY <1>1, <1>3, MoveKeepsLists DEF NoWork, Done, mainVars
  <2> QED BY <2>3, <2>4, <2>5, <2>6 DEF IInv
<1>4. CASE /\ pc' = [pc EXCEPT ![t] = "cleanup"] /\ numPollers' = numPollers - 1
           /\ shutdown
  <2>1. Moved("polled", "cleanup") /\ CountsTyped /\ CountsTyped' /\ pc' \in [Thread -> PC]
    BY <1>1, <1>4, WorkerMoves
  <2>2. /\ Count(Polling)' = Count(Polling) - 1 /\ Count(Serving)' = Count(Serving) - 1
        /\ Count(Counted)' = Count(Counted) /\ Count(Holding)' = Count(Holding)
        /\ Count({"spawn"})' = Count({"spawn"})
    BY <2>1 DEF Moved, In, CountsTyped, Polling, Serving, Leaving, Counted, Holding
  <2>3. numPollers' \in Nat /\ CountersExact'
    BY <1>1, <1>4, <2>1, <2>2
    DEF NoWork, IInv, TypeOK, CountersExact, CountsTyped, quotaVars, mainVars
  <2>4. TypeOK'
    BY <2>1, <2>3 DEF NoWork, IInv, TypeOK, listVars, quotaVars, mainVars, queueVars
  <2>5. QuotaCovers'
    BY <2>2 DEF NoWork, IInv, QuotaCovers, quotaVars, mainVars
  <2>6. PhaseOK'
    <3>1. mpc \in Ending
      BY <1>4 DEF IInv, PhaseOK
    <3>2. mpc \notin {"reserve", "counters", "create", "running"}
      BY <3>1 DEF Ending, Waited
    <3> QED BY <1>4, <3>2 DEF NoWork, IInv, PhaseOK, mainVars, queueVars
  <2>7. ListsOK' /\ JoinedOnce'
    BY <1>1, <1>4, MoveKeepsLists DEF NoWork, Done, mainVars
  <2> QED BY <2>3, <2>4, <2>5, <2>6, <2>7 DEF IInv
<1> QED BY <1>2, <1>3, <1>4

LEMMA WorkFoundStep ==
  ASSUME IInv, NEW t \in Thread, WorkFound(t), Alive
  PROVE  IInv'
<1>1. /\ pc[t] = "polled" /\ {"work", "exhausted", "spawn"} \subseteq PC
      /\ numPollers \in Nat /\ numThreads \in Nat /\ maxActive \in Nat
      /\ allocated \in Nat /\ others \in Nat /\ toStart \in Nat
      /\ MinPollers \in Nat /\ MaxPollers \in Nat /\ ThreadMax \in Nat
  BY ThreadManagerAssumption DEF WorkFound, IInv, TypeOK, PC, Holding, Counted, Serving, Polling
<1>2. PICK to \in {"work", "exhausted", "spawn"} : pc' = [pc EXCEPT ![t] = to]
  BY DEF WorkFound, At
<1>3. Moved("polled", to) /\ CountsTyped /\ CountsTyped' /\ pc' \in [Thread -> PC]
  BY <1>1, <1>2, WorkerMoves
<1>4. pc'[t] = to
  BY <1>2 DEF IInv, TypeOK
<1>5. /\ Count(Serving)' = Count(Serving) /\ Count(Counted)' = Count(Counted)
      /\ Count(Holding)' = Count(Holding)
      /\ Count(Polling)' = IF to = "spawn" THEN Count(Polling) ELSE Count(Polling) - 1
      /\ Count({"spawn"})' = IF to = "spawn" THEN Count({"spawn"}) + 1 ELSE Count({"spawn"})
  BY <1>3 DEF Moved, In, CountsTyped, Polling, Serving, Leaving, Counted, Holding
<1>6. /\ to # "spawn" => numPollers' = numPollers - 1
                         /\ UNCHANGED <<numThreads, maxActive, allocated>>
      /\ to = "spawn" => /\ numPollers' = numPollers /\ numThreads' = numThreads + 1
                         /\ allocated + 1 <= ThreadMax /\ allocated' = allocated + 1
                         /\ \/ maxActive' = numThreads + 1 \/ UNCHANGED maxActive
  BY <1>1, <1>4 DEF WorkFound, At, Reserved, NotReserved, IInv, TypeOK
<1>7. CountersExact /\ QuotaCovers
  BY DEF IInv
<1>8. UNCHANGED <<found, others, toStart, mpc, shutdown, cqShutdown, completed, mine>>
  BY DEF WorkFound, listVars, mainVars, queueVars
<1>9. CountersExact' /\ numPollers' \in Nat
  BY <1>1, <1>3, <1>5, <1>6, <1>7, <1>8 DEF CountersExact, CountsTyped
<1>10. QuotaCovers'
  BY <1>1, <1>3, <1>5, <1>6, <1>7, <1>8 DEF QuotaCovers, CountersExact, CountsTyped
<1>11. TypeOK'
  BY <1>1, <1>3, <1>6, <1>9 DEF WorkFound, IInv, TypeOK, listVars, mainVars, queueVars
<1>12. PhaseOK'
  <2>1. Count(Counted) >= 1
    BY <1>1, CountPositive DEF Counted, Serving, Polling
  <2>2. numThreads # 0
    BY <1>1, <1>3, <1>7, <2>1 DEF CountersExact, CountsTyped
  <2> QED BY <1>5, <1>8, <2>2 DEF IInv, PhaseOK
<1>13. ListsOK' /\ JoinedOnce'
  BY <1>1, <1>2, <1>8, MoveKeepsLists DEF Done, listVars
<1> QED BY <1>9, <1>10, <1>11, <1>12, <1>13 DEF IInv

LEMMA SpawnFailsStep ==
  ASSUME IInv, NEW t \in Thread, SpawnFails(t), Alive
  PROVE  IInv'
<1>1. /\ pc[t] = "spawn" /\ pc' = [pc EXCEPT ![t] = "exhausted"] /\ "exhausted" \in PC
      /\ numPollers \in Nat /\ numThreads \in Nat /\ toStart \in Nat
  BY DEF SpawnFails, At, IInv, TypeOK, PC, Holding, Counted, Serving
<1>2. Moved("spawn", "exhausted") /\ CountsTyped /\ CountsTyped' /\ pc' \in [Thread -> PC]
  BY <1>1, WorkerMoves
<1>3. /\ Count(Polling)' = Count(Polling) - 1 /\ Count(Serving)' = Count(Serving)
      /\ Count(Counted)' = Count(Counted) /\ Count(Holding)' = Count(Holding)
      /\ Count({"spawn"})' = Count({"spawn"}) - 1
  BY <1>2 DEF Moved, In, CountsTyped, Polling, Serving, Leaving, Counted, Holding
<1>4. CountersExact' /\ numPollers' \in Nat /\ numThreads' \in Nat
  BY <1>1, <1>2, <1>3, ThreadManagerAssumption
  DEF SpawnFails, IInv, CountersExact, CountsTyped, mainVars
<1>5. TypeOK'
  BY <1>2, <1>4 DEF SpawnFails, IInv, TypeOK, listVars, quotaVars, mainVars, queueVars
<1>6. QuotaCovers'
  BY <1>2, <1>3, ThreadManagerAssumption
  DEF SpawnFails, IInv, TypeOK, QuotaCovers, CountsTyped, quotaVars, mainVars
<1>7. PhaseOK'
  <2>1. numThreads # 0
    BY <1>1, <1>2, <1>3 DEF IInv, CountersExact, CountsTyped
  <2> QED BY <1>3, <2>1 DEF SpawnFails, IInv, PhaseOK, mainVars, queueVars
<1>8. ListsOK' /\ JoinedOnce'
  BY <1>1, MoveKeepsLists DEF SpawnFails, Done, mainVars
<1> QED BY <1>4, <1>5, <1>6, <1>7, <1>8 DEF IInv

\* Two threads move: the creator goes to its request, the new one polls.
LEMMA SpawnStep ==
  ASSUME IInv, NEW t \in Thread, Spawn(t), Alive
  PROVE  IInv'
<1>1. PICK w \in Thread : pc[w] = "free" /\ pc' = [pc EXCEPT ![t] = "work", ![w] = "poll"]
  BY DEF Spawn
<1>2. /\ pc[t] = "spawn" /\ t # w /\ pc \in [Thread -> PC] /\ {"poll", "work"} \subseteq PC
  BY <1>1 DEF Spawn, IInv, TypeOK, PC, Holding, Counted, Serving, Polling
<1> DEFINE mid == [pc EXCEPT ![t] = "work"]
<1>3. OneMoved(pc, mid, t, "work") /\ OneMoved(mid, pc', w, "poll") /\ mid[w] = "free"
  BY <1>1, <1>2 DEF OneMoved
<1>4. \A S : /\ Count(S)' + In("spawn", S) + In("free", S) = Count(S) + In("work", S) + In("poll", S)
             /\ Count(S) \in Nat /\ Count(S)' \in Nat
  <2> TAKE S
  <2>1. MovesCount(pc, mid, t, "work", S) /\ MovesCount(mid, pc', w, "poll", S)
    BY <1>3, CountMove
  <2>2. Count(S) = Cardinality(Among(pc, S)) /\ Count(S)' = Cardinality(Among(pc', S))
    BY DEF Count, Among
  <2> HIDE DEF mid
  <2> QED BY <1>2, <1>3, <2>1, <2>2 DEF MovesCount, In
<1>5. /\ Count(Polling)' = Count(Polling) /\ Count(Serving)' = Count(Serving) + 1
      /\ Count(Counted)' = Count(Counted) + 1 /\ Count(Holding)' = Count(Holding) + 1
      /\ Count({"spawn"})' = Count({"spawn"}) - 1
  <2>1. Count(Polling)' = Count(Polling)
    BY <1>4 DEF In, Polling
  <2>2. Count(Serving)' = Count(Serving) + 1
    BY <1>4 DEF In, Serving, Polling
  <2>3. Count(Counted)' = Count(Counted) + 1
    BY <1>4 DEF In, Counted, Serving, Polling, Leaving
  <2>4. Count(Holding)' = Count(Holding) + 1
    BY <1>4 DEF In, Holding, Counted, Serving, Polling, Leaving
  <2>5. Count({"spawn"})' = Count({"spawn"}) - 1
    BY <1>4 DEF In
  <2> QED BY <2>1, <2>2, <2>3, <2>4, <2>5
<1>6. CountsTyped /\ CountsTyped'
  BY CountsAlwaysTyped, PTL
<1>7. UNCHANGED <<found, numPollers, numThreads, maxActive, completed, mine, allocated, others,
                  mpc, shutdown, toStart, queued, cqShutdown, arrived, answered>>
  BY DEF Spawn, listVars, quotaVars, mainVars, queueVars
<1>8. TypeOK'
  BY <1>1, <1>2, <1>7 DEF IInv, TypeOK
<1>9. CountersExact' /\ QuotaCovers'
  BY <1>5, <1>6, <1>7, ThreadManagerAssumption
  DEF IInv, TypeOK, CountersExact, QuotaCovers, CountsTyped
<1>10. PhaseOK'
  BY <1>5, <1>6, <1>7, ThreadManagerAssumption DEF IInv, TypeOK, PhaseOK, CountsTyped
<1>11. /\ \A s \in Thread : pc'[s] \in Done <=> pc[s] \in Done
       /\ \A s \in Thread : pc[s] = "joining" => pc'[s] = "joining"
  BY <1>1, <1>2 DEF Done
<1>12. ListsOK' /\ JoinedOnce'
  BY <1>7, <1>11 DEF IInv, TypeOK, ListsOK, JoinedOnce
<1> QED BY <1>8, <1>9, <1>10, <1>12 DEF IInv

LEMMA DoWorkStep ==
  ASSUME IInv, NEW t \in Thread, DoWork(t), Alive
  PROVE  IInv'
<1>1. /\ pc[t] \in {"work", "exhausted"} /\ pc' = [pc EXCEPT ![t] = "worked"]
      /\ "worked" \in PC
  BY DEF DoWork, PC, Holding, Counted, Serving
<1>2. Moved(pc[t], "worked") /\ CountsTyped /\ CountsTyped' /\ pc' \in [Thread -> PC]
  BY <1>1, WorkerMoves
<1>3. /\ Count(Polling)' = Count(Polling) /\ Count(Serving)' = Count(Serving)
      /\ Count(Counted)' = Count(Counted) /\ Count(Holding)' = Count(Holding)
      /\ Count({"spawn"})' = Count({"spawn"})
  BY <1>1, <1>2 DEF Moved, In, CountsTyped, Polling, Serving, Leaving, Counted, Holding
<1>4. TypeOK'
  BY <1>2 DEF DoWork, IInv, TypeOK, listVars, quotaVars, mainVars
<1>5. CountersExact' /\ QuotaCovers'
  BY <1>3 DEF DoWork, IInv, CountersExact, QuotaCovers, quotaVars, mainVars
<1>6. PhaseOK'
  BY <1>3 DEF DoWork, IInv, PhaseOK, mainVars
<1>7. ListsOK' /\ JoinedOnce'
  BY <1>1, MoveKeepsLists DEF DoWork, Done, mainVars
<1> QED BY <1>4, <1>5, <1>6, <1>7 DEF IInv

LEMMA AfterWorkStep ==
  ASSUME IInv, NEW t \in Thread, AfterWork(t), Alive
  PROVE  IInv'
<1>1. /\ pc[t] = "worked" /\ {"poll", "cleanup"} \subseteq PC
      /\ numPollers \in Nat /\ MinPollers \in Nat /\ MaxPollers \in Nat
      /\ toStart \in Nat /\ MinPollers <= MaxPollers /\ shutdown \in BOOLEAN
  BY ThreadManagerAssumption
  DEF AfterWork, Leave, PollAgainOrLeave, At, IInv, TypeOK, PC, Holding, Counted, Serving,
      Polling, Leaving
<1>2. UNCHANGED <<found, numThreads, maxActive, completed, mine, allocated, others, mpc,
                  shutdown, toStart, queued, cqShutdown, arrived, answered>>
  BY DEF AfterWork, listVars, quotaVars, mainVars, queueVars
<1>3. \/ /\ pc' = [pc EXCEPT ![t] = "poll"] /\ numPollers' = numPollers + 1
         /\ numPollers < MaxPollers
      \/ /\ pc' = [pc EXCEPT ![t] = "cleanup"] /\ numPollers' = numPollers
         /\ shutdown \/ numPollers >= MaxPollers
  BY <1>1 DEF AfterWork, Leave, PollAgainOrLeave, At
<1>4. CASE /\ pc' = [pc EXCEPT ![t] = "poll"] /\ numPollers' = numPollers + 1
           /\ numPollers < MaxPollers
  <2>1. Moved("worked", "poll") /\ CountsTyped /\ CountsTyped' /\ pc' \in [Thread -> PC]
    BY <1>1, <1>4, WorkerMoves
  <2>2. /\ Count(Polling)' = Count(Polling) + 1 /\ Count(Serving)' = Count(Serving)
        /\ Count(Counted)' = Count(Counted) /\ Count(Holding)' = Count(Holding)
        /\ Count({"spawn"})' = Count({"spawn"})
    BY <2>1 DEF Moved, In, CountsTyped, Polling, Serving, Leaving, Counted, Holding
  <2>3. TypeOK'
    BY <1>1, <1>2, <1>4, <2>1 DEF IInv, TypeOK
  <2>4. CountersExact' /\ QuotaCovers'
    BY <1>1, <1>2, <1>4, <2>1, <2>2 DEF IInv, CountersExact, QuotaCovers, CountsTyped
  <2>5. PhaseOK'
    <3>1. Count(Counted) >= 1
      BY <1>1, CountPositive DEF Counted, Serving
    <3>2. numThreads # 0
      BY <1>1, <2>1, <3>1 DEF IInv, CountersExact, CountsTyped
    <3> QED BY <1>2, <2>2, <3>2 DEF IInv, PhaseOK
  <2>6. ListsOK' /\ JoinedOnce'
    BY <1>1, <1>2, <1>4, MoveKeepsLists DEF Done, listVars
  <2> QED BY <2>3, <2>4, <2>5, <2>6 DEF IInv
<1>5. CASE /\ pc' = [pc EXCEPT ![t] = "cleanup"] /\ numPollers' = numPollers
           /\ shutdown \/ numPollers >= MaxPollers
  <2>1. Moved("worked", "cleanup") /\ CountsTyped /\ CountsTyped' /\ pc' \in [Thread -> PC]
    BY <1>1, <1>5, WorkerMoves
  <2>2. /\ Count(Polling)' = Count(Polling) /\ Count(Serving)' = Count(Serving) - 1
        /\ Count(Counted)' = Count(Counted) /\ Count(Holding)' = Count(Holding)
        /\ Count({"spawn"})' = Count({"spawn"})
    BY <2>1 DEF Moved, In, CountsTyped, Polling, Serving, Leaving, Counted, Holding
  <2>3. TypeOK'
    BY <1>2, <1>5, <2>1 DEF IInv, TypeOK
  <2>4. CountersExact' /\ QuotaCovers'
    BY <1>2, <1>5, <2>2 DEF IInv, CountersExact, QuotaCovers
  \* The last to leave sees max_pollers_ threads polling; they still are.
  <2>5. mpc \in {"create", "running"} => Count(Serving)' + toStart >= MinPollers
    <3>1. Count(Serving)' >= Count(Polling)
      BY <2>1, <2>2 DEF CountsTyped
    <3>2. CASE shutdown
      <4>1. mpc \in Ending
        BY <3>2 DEF IInv, PhaseOK
      <4> QED BY <4>1 DEF Ending, Waited
    <3>3. CASE numPollers >= MaxPollers
      BY <1>1, <2>1, <3>1, <3>3 DEF IInv, CountersExact, CountsTyped
    <3> QED BY <1>5, <3>2, <3>3
  <2>6. PhaseOK'
    BY <1>2, <1>5, <2>5 DEF IInv, PhaseOK
  <2>7. ListsOK' /\ JoinedOnce'
    BY <1>1, <1>2, <1>5, MoveKeepsLists DEF Done, listVars
  <2> QED BY <2>3, <2>4, <2>6, <2>7 DEF IInv
<1> QED BY <1>3, <1>4, <1>5

\* The steps of a leaving thread that no counter notices.
LEMMA QuietLeave ==
  ASSUME IInv, NEW t \in Thread, NEW to \in PC, pc' = [pc EXCEPT ![t] = to],
         \/ pc[t] = "cleanup" /\ to = "joining"
         \/ pc[t] = "joining" /\ to = "listed"
         \/ pc[t] = "exited" /\ to = "free",
         UNCHANGED <<found, numPollers, numThreads, maxActive, quotaVars, mainVars, queueVars>>,
         completed' \subseteq Thread, mine' \in [Owner -> SUBSET Thread]
  PROVE  TypeOK' /\ CountersExact' /\ QuotaCovers' /\ PhaseOK'
<1>1. Moved(pc[t], to) /\ CountsTyped /\ CountsTyped' /\ pc' \in [Thread -> PC]
  BY WorkerMoves
<1>2. /\ Count(Polling)' = Count(Polling) /\ Count(Serving)' = Count(Serving)
      /\ Count(Counted)' = Count(Counted) /\ Count(Holding)' = Count(Holding)
      /\ Count({"spawn"})' = Count({"spawn"})
  BY <1>1 DEF Moved, In, CountsTyped, Polling, Serving, Leaving, Counted, Holding
<1>3. TypeOK'
  BY <1>1 DEF IInv, TypeOK, quotaVars, mainVars, queueVars
<1>4. CountersExact' /\ QuotaCovers'
  BY <1>2 DEF IInv, CountersExact, QuotaCovers, quotaVars, mainVars
<1>5. PhaseOK'
  BY <1>2 DEF IInv, PhaseOK, mainVars, queueVars
<1> QED BY <1>3, <1>4, <1>5

LEMMA CleanupStep ==
  ASSUME IInv, NEW t \in Thread, Cleanup(t), Alive
  PROVE  IInv'
<1>1. /\ pc[t] = "cleanup" /\ pc' = [pc EXCEPT ![t] = "joining"] /\ "joining" \in PC
      /\ mine' = [mine EXCEPT ![t] = completed] /\ completed' = {} /\ UNCHANGED mpc
      /\ pc \in [Thread -> PC] /\ completed \subseteq Thread /\ mine \in [Owner -> SUBSET Thread]
      /\ t \in Owner
  BY DEF Cleanup, At, IInv, TypeOK, PC, Holding, Counted, Leaving, mainVars, Owner
<1>2. TypeOK' /\ CountersExact' /\ QuotaCovers' /\ PhaseOK'
  <2>1. completed' \subseteq Thread /\ mine' \in [Owner -> SUBSET Thread]
    BY <1>1
  <2> QED BY <1>1, <2>1, QuietLeave DEF Cleanup
<1>3. mine[t] = {} /\ t # "main"
  BY <1>1, ThreadManagerAssumption DEF IInv, ListsOK
<1>4. \A s \in Thread : pc'[s] \in Done <=> pc[s] \in Done
  BY <1>1 DEF Done
<1>5. \A o \in Owner : mine'[o] = IF o = t THEN completed ELSE mine[o]
  BY <1>1
<1>6. ListsOK'
  BY <1>1, <1>3, <1>5 DEF IInv, ListsOK, Owner
<1>7. JoinedOnce'
  <2>1. \A s \in Thread : pc'[s] \in Done => \E o \in Owner : s \in mine'[o]
    BY <1>1, <1>3, <1>4, <1>5 DEF IInv, JoinedOnce
  <2>2. \A o \in Owner : \A s \in mine'[o] :
          pc'[s] \in Done /\ \A q \in Owner \ {o} : s \notin mine'[q]
    BY <1>1, <1>4, <1>5 DEF IInv, JoinedOnce
  <2> QED BY <1>1, <2>1, <2>2 DEF JoinedOnce
<1> QED BY <1>2, <1>6, <1>7 DEF IInv

LEMMA JoinStep ==
  ASSUME IInv, NEW o \in Owner, Join(o), Alive
  PROVE  IInv'
<1>1. PICK w \in mine[o] :
        pc[w] = "exited" /\ pc' = [pc EXCEPT ![w] = "free"] /\ mine' = [mine EXCEPT ![o] = @ \ {w}]
  BY DEF Join
<1>2. /\ w \in Thread /\ pc \in [Thread -> PC] /\ mine \in [Owner -> SUBSET Thread]
      /\ completed \subseteq Thread /\ UNCHANGED <<completed, mpc>> /\ "free" \in PC
  BY <1>1 DEF Join, IInv, TypeOK, PC, mainVars
<1>3. TypeOK' /\ CountersExact' /\ QuotaCovers' /\ PhaseOK'
  <2>1. completed' \subseteq Thread /\ mine' \in [Owner -> SUBSET Thread]
    BY <1>1, <1>2
  <2> QED BY <1>1, <1>2, <2>1, QuietLeave DEF Join
<1>4. \A s \in Thread : pc'[s] = IF s = w THEN "free" ELSE pc[s]
  BY <1>1, <1>2
<1>5. \A q \in Owner : mine'[q] = IF q = o THEN mine[o] \ {w} ELSE mine[q]
  BY <1>1, <1>2
<1>6. ListsOK'
  <2>1. \A t \in Thread : pc[t] = "joining" => pc'[t] = "joining"
    BY <1>1, <1>4
  <2> QED BY <1>2, <1>5, <2>1 DEF IInv, ListsOK, Owner
<1>7. JoinedOnce'
  <2>1. \A q \in Owner : w \notin mine'[q]
    BY <1>1, <1>5 DEF IInv, JoinedOnce
  <2>2. w \notin completed
    BY <1>1 DEF IInv, JoinedOnce
  <2>3. \A s \in Thread : pc'[s] \in Done => s \in completed \/ \E q \in Owner : s \in mine'[q]
    <3> TAKE s \in Thread
    <3> HAVE pc'[s] \in Done
    <3>1. s # w /\ pc[s] \in Done
      BY <1>4 DEF Done
    <3> QED BY <1>5, <3>1 DEF IInv, JoinedOnce
  <2>4. \A q \in Owner : \A s \in mine'[q] :
          /\ pc'[s] \in Done /\ s \notin completed
          /\ \A r \in Owner \ {q} : s \notin mine'[r]
    <3> TAKE q \in Owner
    <3> TAKE s \in mine'[q]
    <3>1. s # w /\ s \in mine[q] /\ s \in Thread
      BY <1>2, <1>5, <2>1
    <3> QED BY <1>4, <1>5, <3>1 DEF IInv, JoinedOnce
  <2>5. \A s \in completed : pc'[s] \in Done
    BY <1>2, <1>4, <2>2 DEF IInv, JoinedOnce
  <2> QED BY <1>2, <2>3, <2>4, <2>5 DEF JoinedOnce
<1> QED BY <1>3, <1>6, <1>7 DEF IInv

LEMMA MarkListedStep ==
  ASSUME IInv, NEW t \in Thread, MarkListed(t), Alive
  PROVE  IInv'
<1>1. /\ pc[t] = "joining" /\ pc' = [pc EXCEPT ![t] = "listed"] /\ mine[t] = {} /\ "listed" \in PC
      /\ completed' = completed \cup {t} /\ UNCHANGED <<mine, mpc, numThreads>>
      /\ pc \in [Thread -> PC] /\ completed \subseteq Thread /\ mine \in [Owner -> SUBSET Thread]
      /\ numThreads \in Nat /\ toStart \in Nat
  BY DEF MarkListed, At, IInv, TypeOK, PC, Holding, Counted, Leaving, mainVars
<1>2. TypeOK' /\ CountersExact' /\ QuotaCovers' /\ PhaseOK'
  <2>1. completed' \subseteq Thread /\ mine' \in [Owner -> SUBSET Thread]
    BY <1>1
  <2> QED BY <1>1, <2>1, QuietLeave DEF MarkListed
<1>3. \A s \in Thread : pc'[s] = IF s = t THEN "listed" ELSE pc[s]
  BY <1>1
\* Wait has not seen numThreads = 0: this thread is still counted.
<1>4. mpc \notin {"destroying", "freed"}
  <2>1. Count(Counted) >= 1
    BY <1>1, CountPositive DEF Counted, Leaving
  <2>2. numThreads # 0
    BY <1>1, <2>1, CountsAlwaysTyped DEF IInv, CountersExact, CountsTyped
  <2> QED BY <2>2 DEF IInv, PhaseOK, Waited
<1>5. ListsOK'
  <2>1. \A s \in Thread : pc[s] = "joining" /\ pc'[s] # "joining" => mine[s] = {}
    BY <1>1, <1>3
  <2> QED BY <1>1, <1>4, <2>1 DEF IInv, ListsOK
<1>6. JoinedOnce'
  <2>1. \A q \in Owner : t \notin mine[q]
    BY <1>1 DEF IInv, JoinedOnce, Done
  <2>2. \A s \in Thread : pc'[s] \in Done => s \in completed' \/ \E q \in Owner : s \in mine[q]
    BY <1>1, <1>3 DEF IInv, JoinedOnce
  <2>3. \A q \in Owner : \A s \in mine[q] : pc'[s] \in Done /\ s \notin completed'
    BY <1>1, <1>3, <2>1 DEF IInv, JoinedOnce
  <2>4. \A s \in completed' : pc'[s] \in Done
    BY <1>1, <1>3 DEF IInv, JoinedOnce, Done
  <2> QED BY <1>1, <2>2, <2>3, <2>4 DEF IInv, JoinedOnce
<1> QED BY <1>2, <1>5, <1>6 DEF IInv

LEMMA MarkCountedStep ==
  ASSUME IInv, NEW t \in Thread, MarkCounted(t), Alive
  PROVE  IInv'
<1>1. /\ pc[t] = "listed" /\ pc' = [pc EXCEPT ![t] = "counted"] /\ "counted" \in PC
      /\ numThreads' = numThreads - 1 /\ numThreads \in Nat /\ toStart \in Nat
      /\ mpc' = mpc \/ (mpc = "asleep" /\ mpc' = "wait")
  <2>1. pc[t] = "listed" /\ pc' = [pc EXCEPT ![t] = "counted"] /\ numThreads' = numThreads - 1
    BY DEF MarkCounted, At
  <2>2. mpc' = mpc \/ (mpc = "asleep" /\ mpc' = "wait")
    BY DEF MarkCounted
  <2>3. numThreads \in Nat /\ toStart \in Nat /\ "counted" \in PC
    BY DEF IInv, TypeOK, PC, Holding
  <2> QED BY <2>1, <2>2, <2>3
<1>2. UNCHANGED <<found, numPollers, maxActive, completed, mine, allocated, others, shutdown,
                  toStart, queued, cqShutdown, arrived, answered>>
  BY DEF MarkCounted, listVars, quotaVars, queueVars
<1>3. Moved("listed", "counted") /\ CountsTyped /\ CountsTyped' /\ pc' \in [Thread -> PC]
  BY <1>1, WorkerMoves
<1>4. /\ Count(Polling)' = Count(Polling) /\ Count(Serving)' = Count(Serving)
      /\ Count(Counted)' = Count(Counted) - 1 /\ Count(Holding)' = Count(Holding)
      /\ Count({"spawn"})' = Count({"spawn"})
  BY <1>3 DEF Moved, In, CountsTyped, Polling, Serving, Leaving, Counted, Holding
<1>5. CountersExact' /\ numThreads' \in Nat /\ numThreads # 0
  BY <1>1, <1>2, <1>3, <1>4 DEF IInv, CountersExact, CountsTyped
<1>6. mpc \notin Waited /\ mpc' \in MPC /\ mpc' \notin Waited /\ (mpc' \in Ending <=> mpc \in Ending)
      /\ mpc' # "aborted" /\ (mpc' = mpc \/ mpc' = "wait")
  BY <1>1, <1>5 DEF IInv, TypeOK, PhaseOK, MPC, Ended, Ending, Waited
<1>7. TypeOK'
  BY <1>2, <1>3, <1>5, <1>6 DEF IInv, TypeOK
<1>8. QuotaCovers'
  BY <1>2, <1>4, <1>6, ThreadManagerAssumption DEF IInv, TypeOK, QuotaCovers, MPC, Ended, Ending
<1>9. PhaseOK'
  BY <1>2, <1>4, <1>5, <1>6 DEF IInv, PhaseOK, Ending
<1>10. \A s \in Thread : /\ pc'[s] \in Done <=> pc[s] \in Done
                         /\ pc[s] = "joining" => pc'[s] = "joining"
  BY <1>1 DEF IInv, TypeOK, Done
<1>11. ListsOK'
  BY <1>2, <1>6, <1>10 DEF IInv, ListsOK, Waited
<1>12. JoinedOnce'
  BY <1>2, <1>10 DEF IInv, TypeOK, JoinedOnce
<1> QED BY <1>5, <1>7, <1>8, <1>9, <1>11, <1>12 DEF IInv

LEMMA MarkReleasedStep ==
  ASSUME IInv, NEW t \in Thread, MarkReleased(t), Alive
  PROVE  IInv'
<1>1. /\ pc[t] = "counted" /\ pc' = [pc EXCEPT ![t] = "exited"] /\ "exited" \in PC
      /\ allocated \in Nat /\ others \in Nat /\ toStart \in Nat /\ MinPollers \in Nat
      /\ ThreadMax \in Nat
  BY ThreadManagerAssumption DEF MarkReleased, At, IInv, TypeOK, PC
<1>2. Moved("counted", "exited") /\ CountsTyped /\ CountsTyped' /\ pc' \in [Thread -> PC]
  BY <1>1, WorkerMoves
<1>3. /\ Count(Polling)' = Count(Polling) /\ Count(Serving)' = Count(Serving)
      /\ Count(Counted)' = Count(Counted) /\ Count(Holding)' = Count(Holding) - 1
      /\ Count({"spawn"})' = Count({"spawn"})
  BY <1>2 DEF Moved, In, CountsTyped, Polling, Serving, Leaving, Counted, Holding
<1>4. allocated >= 1
  BY <1>1, <1>2, <1>3 DEF IInv, QuotaCovers, CountsTyped
<1>5. UNCHANGED <<found, numPollers, numThreads, maxActive, completed, mine, others, shutdown,
                  toStart, queued, cqShutdown, arrived, answered, mpc>>
      /\ allocated' = allocated - 1
  BY <1>4 DEF MarkReleased, listVars, queueVars
<1>6. TypeOK'
  BY <1>1, <1>2, <1>4, <1>5 DEF IInv, TypeOK
<1>7. CountersExact' /\ QuotaCovers'
  BY <1>1, <1>2, <1>3, <1>4, <1>5 DEF IInv, CountersExact, QuotaCovers, CountsTyped
<1>8. PhaseOK'
  BY <1>3, <1>5 DEF IInv, PhaseOK
<1>9. ListsOK' /\ JoinedOnce'
  BY <1>1, <1>5, MoveKeepsLists DEF Done, listVars
<1> QED BY <1>6, <1>7, <1>8, <1>9 DEF IInv

LEMMA WorkerStepKeeps ==
  ASSUME IInv, NEW t \in Thread, WorkerStep(t)
  PROVE  IInv'
BY PollStep, NoWorkStep, WorkFoundStep, SpawnStep, SpawnFailsStep, DoWorkStep, AfterWorkStep,
   CleanupStep, MarkListedStep, MarkCountedStep, MarkReleasedStep, JoinStep
DEF WorkerStep, Owner

----------------------------------------------------------------------------
(* The other steps *)

LEMMA InitIInv == Init => IInv
<1> HAVE Init
<1>1. MPC = {"reserve", "counters", "create", "crashed", "refused", "aborted", "running",
             "shutdown", "wait", "asleep", "drain", "destroy", "destroying", "freed"}
  BY DEF MPC, Ended, Ending, Waited
<1>2. TypeOK
  BY <1>1 DEF Init, TypeOK, PC
<1>3. \A S : "free" \notin S => Count(S) = 0
  <2> TAKE S
  <2> HAVE "free" \notin S
  <2>1. {t \in Thread : pc[t] \in S} = {}
    BY DEF Init
  <2> QED BY <2>1, FS_EmptySet DEF Count
<1>4. /\ Count(Polling) = 0 /\ Count(Serving) = 0 /\ Count(Counted) = 0 /\ Count(Holding) = 0
      /\ Count({"spawn"}) = 0
  BY <1>3 DEF Polling, Serving, Leaving, Counted, Holding
<1>5. CountersExact /\ QuotaCovers
  BY <1>4, ThreadManagerAssumption DEF Init, CountersExact, QuotaCovers
<1>6. PhaseOK
  BY <1>4 DEF Init, PhaseOK, Ending, Waited
<1>7. ListsOK /\ JoinedOnce
  BY ThreadManagerAssumption DEF Init, ListsOK, JoinedOnce, Owner, Done
<1> QED BY <1>2, <1>5, <1>6, <1>7 DEF IInv

\* A step of the server thread, or around it, that moves no worker.
LEMMA ListsUntouched ==
  ASSUME IInv, UNCHANGED <<pc, completed, mine>>,
         \/ mpc' = mpc
         \/ mpc \notin {"destroying", "freed"} /\ mpc' \notin {"destroying", "freed"}
  PROVE  ListsOK' /\ JoinedOnce'
BY DEF IInv, ListsOK, JoinedOnce

LEMMA EnvironmentStep ==
  ASSUME IInv, Environment
  PROVE  IInv'
<1>1. UNCHANGED <<pc, found, numPollers, numThreads, maxActive, completed, mine, shutdown, toStart,
                  cqShutdown>>
  BY DEF Environment, OtherReserves, OtherReleases, Arrive, SpuriousWakeup, workerVars, listVars,
     mainVars, queueVars
<1>2. \A S : Count(S)' = Count(S)
  BY <1>1, Unmoved
<1>3. /\ mpc' = mpc \/ (mpc = "asleep" /\ mpc' = "wait")
      /\ \/ UNCHANGED <<allocated, others>>
         \/ /\ others' = others + 1 /\ allocated' = allocated + 1 /\ allocated + 1 <= ThreadMax
         \/ /\ others > 0 /\ others' = others - 1 /\ allocated' = allocated - 1
  BY DEF Environment, OtherReserves, OtherReleases, Arrive, SpuriousWakeup, Reserved, quotaVars,
     mainVars
<1>4. /\ queued' \in Nat /\ arrived' \in Nat /\ answered' \in Nat
  BY DEF IInv, TypeOK, Environment, OtherReserves, OtherReleases, Arrive, SpuriousWakeup, queueVars
<1>5. CountersExact'
  BY <1>1, <1>2 DEF IInv, CountersExact
<1>6. /\ Count(Holding) \in Nat /\ Count({"spawn"}) \in Nat /\ MinPollers \in Nat
      /\ ThreadMax \in Nat
  BY CountsAlwaysTyped, ThreadManagerAssumption DEF CountsTyped
<1>7. QuotaCovers' /\ allocated' \in Nat /\ others' \in Nat
  BY <1>1, <1>2, <1>3, <1>6 DEF IInv, TypeOK, QuotaCovers
<1>8. mpc' \in MPC /\ (mpc' = mpc \/ (mpc = "asleep" /\ mpc' = "wait"))
  BY <1>3 DEF IInv, TypeOK, MPC, Ended, Ending
<1>9. TypeOK'
  BY <1>1, <1>4, <1>7, <1>8 DEF IInv, TypeOK
<1>10. PhaseOK'
  BY <1>1, <1>2, <1>8 DEF IInv, PhaseOK, Ending, Waited
<1>11. ListsOK' /\ JoinedOnce'
  BY <1>1, <1>8, ListsUntouched
<1> QED BY <1>5, <1>7, <1>9, <1>10, <1>11 DEF IInv

LEMMA InitReserveStep ==
  ASSUME IInv, InitReserve
  PROVE  IInv'
<1>1. UNCHANGED <<pc, found, numPollers, numThreads, maxActive, completed, mine, others, shutdown,
                  toStart, queued, cqShutdown, arrived, answered>>
  BY DEF InitReserve, workerVars, listVars, queueVars
<1>2. \A S : Count(S)' = Count(S)
  BY <1>1, Unmoved
<1>3. /\ mpc = "reserve"
      /\ \/ /\ mpc' = "counters" /\ allocated + MinPollers <= ThreadMax
            /\ allocated' = allocated + MinPollers
         \/ mpc' = "crashed" /\ allocated' = allocated
  BY DEF InitReserve, Reserved, NotReserved
<1>4. /\ Count(Holding) \in Nat /\ Count({"spawn"}) \in Nat /\ MinPollers \in Nat
      /\ ThreadMax \in Nat
  BY CountsAlwaysTyped, ThreadManagerAssumption DEF CountsTyped
<1>5. QuotaCovers' /\ allocated' \in Nat
  BY <1>1, <1>2, <1>3, <1>4 DEF IInv, TypeOK, QuotaCovers
<1>6. mpc' \in MPC
  BY <1>3 DEF MPC, Ended
<1>7. TypeOK' /\ CountersExact'
  BY <1>1, <1>2, <1>5, <1>6 DEF IInv, TypeOK, CountersExact
<1>8. PhaseOK'
  BY <1>1, <1>2, <1>3 DEF IInv, PhaseOK, Ending, Waited
<1>9. ListsOK' /\ JoinedOnce'
  BY <1>1, <1>3, ListsUntouched
<1> QED BY <1>5, <1>7, <1>8, <1>9 DEF IInv

LEMMA InitCountersStep ==
  ASSUME IInv, InitCounters
  PROVE  IInv'
<1>1. UNCHANGED <<pc, found, completed, mine, others, allocated, shutdown,
                  queued, cqShutdown, arrived, answered>>
  BY DEF InitCounters, listVars, quotaVars, queueVars
<1>2. \A S : Count(S)' = Count(S)
  BY <1>1, Unmoved
<1>3. /\ mpc = "counters" /\ mpc' = "create" /\ toStart' = MinPollers
      /\ numPollers' = MinPollers /\ numThreads' = MinPollers /\ maxActive' = MinPollers
  BY DEF InitCounters
<1>4. /\ Count(Holding) \in Nat /\ Count({"spawn"}) \in Nat /\ MinPollers \in Nat
      /\ ThreadMax \in Nat /\ MaxPollers \in Nat /\ MinPollers <= MaxPollers
      /\ others \in Nat /\ allocated \in Nat /\ toStart \in Nat
  BY CountsAlwaysTyped, ThreadManagerAssumption DEF CountsTyped, IInv, TypeOK
<1>5. /\ Count(Polling) = 0 /\ Count(Serving) \in Nat /\ Count(Counted) = 0 /\ Count({"spawn"}) = 0
      /\ toStart = 0
  <2>1. numPollers = 0 /\ numThreads = 0
    BY <1>3 DEF IInv, PhaseOK
  <2>2. /\ Count(Polling) \in Nat /\ Count(Serving) \in Nat /\ Count(Counted) \in Nat
        /\ Count({"spawn"}) \in Nat
    BY CountsAlwaysTyped DEF CountsTyped
  <2>3. 0 = Count(Polling) + toStart /\ 0 = Count(Counted) + Count({"spawn"}) + toStart
    BY <2>1 DEF IInv, CountersExact
  <2>4. toStart \in Nat
    BY <1>4
  <2>5. Count(Polling) = 0 /\ toStart = 0
    BY <2>2, <2>3, <2>4
  <2>6. Count(Counted) = 0 /\ Count({"spawn"}) = 0
    <3>1. \A a, b \in Nat : a + b + 0 = 0 => a = 0 /\ b = 0
      OBVIOUS
    <3> QED BY <2>2, <2>3, <2>5, <3>1
  <2> QED BY <2>2, <2>5, <2>6
<1>6. CountersExact'
  BY <1>2, <1>3, <1>4, <1>5 DEF CountersExact
<1>7. QuotaCovers'
  BY <1>1, <1>2, <1>3, <1>4, <1>5 DEF IInv, QuotaCovers
<1>8. mpc' \in MPC
  BY <1>3 DEF MPC, Ended
<1>9. TypeOK'
  BY <1>1, <1>3, <1>4, <1>8 DEF IInv, TypeOK
<1>10. PhaseOK'
  BY <1>1, <1>2, <1>3, <1>4, <1>5 DEF IInv, PhaseOK, Ending, Waited
<1>11. ListsOK' /\ JoinedOnce'
  BY <1>1, <1>3, ListsUntouched
<1> QED BY <1>6, <1>7, <1>9, <1>10, <1>11 DEF IInv

LEMMA InitCreateStep ==
  ASSUME IInv, InitCreate
  PROVE  IInv'
<1>1. /\ UNCHANGED <<found, numPollers, numThreads, maxActive, completed, mine, allocated, others,
                     shutdown, queued, cqShutdown, arrived, answered>>
      /\ mpc = "create" /\ toStart \in Nat /\ "poll" \in PC
  BY DEF InitCreate, listVars, quotaVars, queueVars, IInv, TypeOK, PC, Holding, Counted, Serving,
     Polling
<1>2. CASE UNCHANGED <<pc, toStart>> /\ (mpc' = "refused" \/ (toStart = 0 /\ mpc' = "running"))
  <2>1. \A S : Count(S)' = Count(S)
    BY <1>2, Unmoved
  <2>2. mpc' \in MPC
    BY <1>2 DEF MPC, Ended
  <2>3. TypeOK' /\ CountersExact'
    BY <1>1, <1>2, <2>1, <2>2 DEF IInv, TypeOK, CountersExact
  <2>4. QuotaCovers'
    BY <1>1, <1>2, <2>1 DEF IInv, QuotaCovers
  <2>5. PhaseOK'
    BY <1>1, <1>2, <2>1 DEF IInv, PhaseOK, Ending, Waited
  <2>6. ListsOK' /\ JoinedOnce'
    BY <1>1, <1>2, ListsUntouched
  <2> QED BY <2>3, <2>4, <2>5, <2>6 DEF IInv
<1>3. ASSUME NEW w \in Thread, pc[w] = "free", pc' = [pc EXCEPT ![w] = "poll"], toStart # 0,
             toStart' = toStart - 1, mpc' = mpc
      PROVE  IInv'
  <2>1. Moved("free", "poll") /\ CountsTyped /\ CountsTyped' /\ pc' \in [Thread -> PC]
    BY <1>1, <1>3, WorkerMoves
  <2>2. /\ Count(Polling)' = Count(Polling) + 1 /\ Count(Serving)' = Count(Serving) + 1
        /\ Count(Counted)' = Count(Counted) + 1 /\ Count(Holding)' = Count(Holding) + 1
        /\ Count({"spawn"})' = Count({"spawn"})
    BY <2>1 DEF Moved, In, CountsTyped, Polling, Serving, Leaving, Counted, Holding
  <2>3. TypeOK'
    BY <1>1, <1>3, <2>1 DEF IInv, TypeOK
  <2>4. CountersExact' /\ QuotaCovers'
    BY <1>1, <1>3, <2>1, <2>2, ThreadManagerAssumption
    DEF IInv, TypeOK, CountersExact, QuotaCovers, CountsTyped
  <2>5. PhaseOK'
    BY <1>1, <1>3, <2>1, <2>2, ThreadManagerAssumption
    DEF IInv, PhaseOK, CountsTyped, Ending, Waited
  <2>6. ListsOK' /\ JoinedOnce'
    BY <1>1, <1>3, MoveKeepsLists DEF Done, listVars
  <2> QED BY <2>3, <2>4, <2>5, <2>6 DEF IInv
<1> QED BY <1>1, <1>2, <1>3 DEF InitCreate

\* What the steps of the stopping server thread leave alone.
LEMMA PhaseMove ==
  ASSUME IInv, UNCHANGED <<pc, found, numPollers, numThreads, maxActive, allocated, others, toStart>>,
         mpc \notin {"reserve", "counters", "create", "crashed", "refused"},
         mpc' \in Ending, shutdown', cqShutdown' \in BOOLEAN,
         mpc' \in Waited => numThreads = 0,
         completed' \subseteq Thread, mine' \in [Owner -> SUBSET Thread],
         queued' \in Nat, arrived' \in Nat, answered' \in Nat, shutdown' \in BOOLEAN
  PROVE  TypeOK' /\ CountersExact' /\ QuotaCovers' /\ PhaseOK'
<1>1. \A S : Count(S)' = Count(S)
  BY Unmoved
<1>2. mpc' \in MPC /\ mpc' \notin {"aborted", "reserve", "counters", "create", "running"}
  BY DEF MPC, Ended, Ending, Waited
<1>3. TypeOK' /\ CountersExact'
  BY <1>1, <1>2 DEF IInv, TypeOK, CountersExact
<1>4. QuotaCovers'
  BY <1>1, <1>2 DEF IInv, QuotaCovers
<1>5. toStart = 0
  BY DEF IInv, PhaseOK
<1> QED BY <1>1, <1>2, <1>3, <1>4, <1>5 DEF IInv, PhaseOK

LEMMA ShutdownStep ==
  ASSUME IInv, Shutdown
  PROVE  IInv'
<1>1. /\ mpc = "running" /\ mpc' = "shutdown" /\ shutdown' = TRUE
      /\ UNCHANGED <<pc, found, numPollers, numThreads, maxActive, completed, mine, allocated,
                     others, toStart, queued, cqShutdown, arrived, answered>>
  BY DEF Shutdown, workerVars, listVars, quotaVars, queueVars
<1>2. mpc' \in Ending \ Waited
  BY <1>1 DEF Ending, Waited
<1>3. TypeOK' /\ CountersExact' /\ QuotaCovers' /\ PhaseOK'
  BY <1>1, <1>2, PhaseMove DEF IInv, TypeOK
<1>4. ListsOK' /\ JoinedOnce'
  BY <1>1, ListsUntouched
<1> QED BY <1>3, <1>4 DEF IInv

\* The stopping steps that neither move a worker nor touch the lists.
LEMMA StoppingStep ==
  ASSUME IInv, Alive, ShutdownQueue \/ WaitTest \/ Drain
  PROVE  IInv'
<1>1. UNCHANGED <<pc, found, numPollers, numThreads, maxActive, completed, mine, allocated,
                  others, shutdown, toStart, arrived>>
  BY DEF ShutdownQueue, WaitTest, Drain, workerVars, listVars, quotaVars, queueVars
<1>2. /\ mpc \in {"shutdown", "wait", "drain"}
      /\ mpc' \in {"wait", "asleep", "drain", "destroy"}
      /\ mpc' \in {"drain", "destroy"} => mpc = "drain" \/ numThreads = 0
      /\ cqShutdown' \in BOOLEAN /\ queued' \in Nat /\ answered' \in Nat
  <2>1. CASE ShutdownQueue
    BY <2>1 DEF ShutdownQueue, IInv, TypeOK
  <2>2. CASE WaitTest
    BY <2>2 DEF WaitTest, IInv, TypeOK, queueVars
  <2>3. CASE Drain
    BY <2>3 DEF Drain, IInv, TypeOK
  <2> QED BY <2>1, <2>2, <2>3
<1>3. mpc \in Ending /\ mpc' \in Ending /\ (mpc' \in Waited => mpc' \in {"drain", "destroy"})
  BY <1>2 DEF Ending, Waited
<1>4. mpc = "drain" => numThreads = 0
  BY DEF IInv, PhaseOK, Waited
<1>5. shutdown /\ shutdown' /\ shutdown' \in BOOLEAN
  BY <1>1, <1>3 DEF IInv, PhaseOK, TypeOK
<1>6. TypeOK' /\ CountersExact' /\ QuotaCovers' /\ PhaseOK'
  BY <1>1, <1>2, <1>3, <1>4, <1>5, PhaseMove DEF IInv, TypeOK
<1>7. ListsOK' /\ JoinedOnce'
  BY <1>1, <1>2, ListsUntouched
<1> QED BY <1>6, <1>7 DEF IInv

LEMMA DestroyStep ==
  ASSUME IInv, Destroy
  PROVE  IInv'
<1>1. mpc = "destroy" /\ numThreads = 0 /\ shutdown
  BY DEF Destroy, IInv, PhaseOK, Ending, Waited
<1>2. /\ mpc' = "destroying" /\ mine' = [mine EXCEPT !["main"] = completed] /\ completed' = {}
      /\ UNCHANGED <<pc, found, numPollers, numThreads, maxActive, allocated, others, shutdown,
                     toStart, queued, cqShutdown, arrived, answered>>
  BY <1>1 DEF Destroy, workerVars, quotaVars, queueVars
<1>3. /\ "main" \in Owner /\ mine \in [Owner -> SUBSET Thread] /\ completed \subseteq Thread
      /\ "main" \notin Thread /\ mine["main"] = {}
  BY <1>1, ThreadManagerAssumption DEF IInv, TypeOK, ListsOK, Owner
<1>4. TypeOK' /\ CountersExact' /\ QuotaCovers' /\ PhaseOK'
  <2>1. mpc' \in Ending /\ completed' \subseteq Thread /\ mine' \in [Owner -> SUBSET Thread]
    BY <1>2, <1>3 DEF Ending, Waited
  <2> QED BY <1>1, <1>2, <2>1, PhaseMove DEF IInv, TypeOK
<1>5. \A o \in Owner : mine'[o] = IF o = "main" THEN completed ELSE mine[o]
  BY <1>2, <1>3
<1>6. ListsOK'
  BY <1>2, <1>3, <1>5 DEF IInv, ListsOK, Owner
<1>7. JoinedOnce'
  <2>1. \A s \in Thread : pc[s] \in Done => \E o \in Owner : s \in mine'[o]
    BY <1>3, <1>5 DEF IInv, JoinedOnce
  <2>2. \A o \in Owner : \A s \in mine'[o] :
          pc[s] \in Done /\ \A q \in Owner \ {o} : s \notin mine'[q]
    BY <1>3, <1>5 DEF IInv, JoinedOnce
  <2> QED BY <1>2, <2>1, <2>2 DEF JoinedOnce
<1> QED BY <1>4, <1>6, <1>7 DEF IInv

LEMMA DestroyedStep ==
  ASSUME IInv, Destroyed
  PROVE  IInv'
<1>1. /\ mpc = "destroying" /\ mpc' = "freed" /\ mine["main"] = {}
      /\ UNCHANGED <<pc, found, numPollers, numThreads, maxActive, completed, mine, allocated,
                     others, shutdown, toStart, queued, cqShutdown, arrived, answered>>
  BY DEF Destroyed, workerVars, listVars, quotaVars, queueVars
<1>2. mpc \in Waited /\ mpc \in Ending /\ mpc' \in Ending
  BY <1>1 DEF Ending, Waited
<1>3. numThreads = 0 /\ shutdown
  BY <1>2 DEF IInv, PhaseOK
<1>4. TypeOK' /\ CountersExact' /\ QuotaCovers' /\ PhaseOK'
  BY <1>1, <1>2, <1>3, PhaseMove DEF IInv, TypeOK
<1>5. ListsOK' /\ JoinedOnce'
  BY <1>1 DEF IInv, ListsOK, JoinedOnce
<1> QED BY <1>4, <1>5 DEF IInv

LEMMA NextIInv == IInv /\ [Next]_vars => IInv'
<1> SUFFICES ASSUME IInv, [Next]_vars PROVE IInv'
  OBVIOUS
<1>1. CASE Environment
  BY <1>1, EnvironmentStep
<1>2. CASE Starting
  BY <1>2, InitReserveStep, InitCountersStep, InitCreateStep DEF Starting
<1>3. CASE Shutdown
  BY <1>3, ShutdownStep
<1>4. CASE Stopping
  BY <1>4, StoppingStep, DestroyStep, DestroyedStep, JoinStep DEF Stopping, Owner
<1>5. CASE \E t \in Thread : WorkerStep(t)
  BY <1>5, WorkerStepKeeps
<1>6. CASE UNCHANGED vars
  <2>1. UNCHANGED <<pc, found, numPollers, numThreads, maxActive, completed, mine, allocated,
                    others, shutdown, mpc, toStart, queued, cqShutdown, arrived, answered>>
    BY <1>6 DEF vars, workerVars, listVars, quotaVars, mainVars, queueVars
  <2>2. \A S : Count(S)' = Count(S)
    BY <2>1, Unmoved
  <2> QED BY <2>1, <2>2 DEF IInv, TypeOK, CountersExact, QuotaCovers, PhaseOK, ListsOK, JoinedOnce
<1> QED BY <1>1, <1>2, <1>3, <1>4, <1>5, <1>6 DEF Next

----------------------------------------------------------------------------
(* The theorems *)

\* The inductive invariant: exact counters, a quota that covers every thread,
\* and finished threads in exactly one list.
THEOREM Invariance == Spec => []IInv
<1>1. Init => IInv
  BY InitIInv
<1>2. IInv /\ [Next]_vars => IInv'
  BY NextIInv
<1> QED BY <1>1, <1>2, PTL DEF Spec

\* The pool never drains, for any number of threads and pollers: a worker
\* leaves only a shut-down manager, or one with max_pollers_ polling.
THEOREM NeverDrains == Spec => []PoolNeverDrains
<1>1. IInv => PoolNeverDrains
  <2> SUFFICES ASSUME IInv, mpc = "running" PROVE Count(Serving) >= MinPollers
    BY DEF PoolNeverDrains
  <2>1. Count(Serving) \in Nat
    BY CountsAlwaysTyped DEF CountsTyped
  <2>2. toStart = 0 /\ Count(Serving) + toStart >= MinPollers
    BY DEF IInv, PhaseOK
  <2> QED BY <2>1, <2>2, ThreadManagerAssumption
<1> QED BY <1>1, Invariance, PTL

\* ThreadQuota is enforced, whatever its other users do.
THEOREM QuotaRespected == Spec => []QuotaEnforced
<1>1. IInv => QuotaEnforced
  <2> HAVE IInv
  <2>1. /\ Count(Holding) \in Nat /\ Count({"spawn"}) \in Nat /\ toStart \in Nat /\ others \in Nat
        /\ allocated \in Nat /\ ThreadMax \in Nat /\ MinPollers \in Nat
    BY CountsAlwaysTyped, ThreadManagerAssumption DEF CountsTyped, IInv, TypeOK
  <2> QED BY <2>1 DEF IInv, QuotaCovers, QuotaEnforced
<1> QED BY <1>1, Invariance, PTL

\* When the destructor returns, every worker has been joined and deleted.
THEOREM NoWorkerOutlives == Spec => []NoUseAfterFree
<1>1. IInv => NoUseAfterFree
  <2> SUFFICES ASSUME IInv, mpc = "freed", NEW t \in Thread PROVE pc[t] = "free"
    BY DEF NoUseAfterFree
  <2>1. numThreads = 0 /\ completed = {} /\ mine["main"] = {}
    BY DEF IInv, PhaseOK, ListsOK, Waited
  <2>2. pc[t] \notin Counted
    <3>1. CASE pc[t] \in Counted
      <4>1. Count(Counted) \in Nat /\ Count(Counted) >= 1
        BY <3>1, CountPositive
      <4>2. Count({"spawn"}) \in Nat /\ toStart \in Nat
        BY CountsAlwaysTyped DEF CountsTyped, IInv, TypeOK
      <4> QED BY <2>1, <4>1, <4>2 DEF IInv, CountersExact
    <3> QED BY <3>1
  <2>3. \A s \in Thread : mine[s] = {}
    <3> SUFFICES ASSUME NEW s \in Thread, mine[s] # {} PROVE FALSE
      OBVIOUS
    <3>1. pc[s] \in Counted
      BY DEF IInv, ListsOK, Counted, Leaving
    <3>2. Count(Counted) \in Nat /\ Count(Counted) >= 1
      BY <3>1, CountPositive
    <3>3. Count({"spawn"}) \in Nat /\ toStart \in Nat
      BY CountsAlwaysTyped DEF CountsTyped, IInv, TypeOK
    <3> QED BY <2>1, <3>2, <3>3 DEF IInv, CountersExact
  <2>4. pc[t] \notin Done
    BY <2>1, <2>3 DEF IInv, JoinedOnce, Owner
  <2> QED BY <2>2, <2>4 DEF IInv, TypeOK, PC, Holding, Done
<1> QED BY <1>1, Invariance, PTL

\* No finished thread is lost, joined twice, or joined before it is done.
THEOREM Joins == Spec => []JoinedOnce
<1>1. IInv => JoinedOnce
  BY DEF IInv
<1> QED BY <1>1, Invariance, PTL

\* The GRPC_CHECKs of the destructor and of ThreadQuota::Release never fire: what
\* they compare the manager itself keeps right.  That of Initialize depends on the
\* system (InitCreate) and is not among them.
THEOREM Checks == Spec => []ChecksHold
<1>1. IInv => ChecksHold
  BY DEF IInv, PhaseOK, ChecksHold
<1> QED BY <1>1, Invariance, PTL

\* A poller that merely timed out never leaves a manager that runs.
IdlePollersStay ==
  [][\A t \in Thread :
       pc[t] = "polled" /\ found[t] = "TIMEOUT" /\ pc'[t] = "cleanup" => shutdown]_vars

\* Why SurplusPollersFinish fails: whatever min_pollers_ and max_pollers_ are,
\* num_pollers_ > max_pollers_ is false where MainWorkLoop tests it.
THEOREM TimeoutsNeverShrink == Spec => IdlePollersStay
<1>1. IInv /\ [Next]_vars =>
        [\A t \in Thread :
           pc[t] = "polled" /\ found[t] = "TIMEOUT" /\ pc'[t] = "cleanup" => shutdown]_vars
  <2> SUFFICES ASSUME IInv, Next, NEW t \in Thread, pc[t] = "polled", pc'[t] = "cleanup",
                      found[t] = "TIMEOUT"
               PROVE  shutdown
    OBVIOUS
  <2>1. pc \in [Thread -> PC] /\ numPollers \in Nat /\ MaxPollers \in Nat /\ numPollers <= MaxPollers
    BY ThreadManagerAssumption DEF IInv, TypeOK, CountersExact
  \* Only its own step takes a worker to "cleanup".
  <2>2. PICK s \in Thread : WorkerStep(s)
    BY <2>1 DEF Next, Environment, OtherReserves, OtherReleases, Arrive, SpuriousWakeup, Starting,
       InitReserve, InitCounters, InitCreate, Shutdown, Stopping, ShutdownQueue, WaitTest, Drain,
       Destroy, Destroyed, Join, workerVars
  <2>3. NoWork(t)
    BY <2>1, <2>2 DEF WorkerStep, Poll, WorkFound, Spawn, SpawnFails, DoWork, AfterWork, Leave,
       PollAgainOrLeave, Cleanup, MarkListed, MarkCounted, MarkReleased, Join, NoWork, At
  <2> QED BY <2>1, <2>3 DEF NoWork, Leave, PollAgainOrLeave, At
<1> QED BY <1>1, Invariance, PTL DEF Spec, IdlePollersStay
=============================================================================
