--------------------------- MODULE SerialExecutor ---------------------------
(***************************************************************************)
(* What a WorkSerializer promises, from the class comment of               *)
(* src/core/util/work_serializer.h: callbacks run one at a time, in the    *)
(* order in which they were scheduled, and the serializer goes away only   *)
(* when nobody holds it and nothing is left to run.                        *)
(***************************************************************************)
EXTENDS Sequences

CONSTANTS
  Client,    \* the code outside callbacks that holds the serializer
  Callback,  \* the callbacks that may be scheduled
  Nobody     \* no callback

VARIABLES
  holders,   \* who holds it: clients, and callbacks that captured it
  queue,     \* the callbacks to run, in order
  current,   \* the callback running, or Nobody
  finished,  \* the callbacks that ran, in order
  freed      \* the serializer is gone

vars == <<holders, queue, current, finished, freed>>

SerialInit ==
  /\ holders = Client
  /\ queue = <<>> /\ current = Nobody /\ finished = <<>>
  /\ freed = FALSE

\* A holder schedules a callback, which may hold the serializer as well.
Schedule ==
  /\ ~freed
  /\ \E cb \in Callback :
       /\ queue' = Append(queue, cb)
       /\ holders' \in {holders, holders \cup {cb}}
  /\ \E h \in holders : h \in Client \/ h = current
  /\ UNCHANGED <<current, finished, freed>>

Start ==
  /\ current = Nobody /\ queue # <<>> /\ ~freed
  /\ current' = Head(queue) /\ queue' = Tail(queue)
  /\ UNCHANGED <<holders, finished, freed>>

Finish ==
  /\ current # Nobody
  /\ finished' = Append(finished, current) /\ current' = Nobody
  /\ UNCHANGED <<holders, queue, freed>>

\* A client lets go at any time, a callback once it has started.
Release ==
  /\ \E h \in holders :
       /\ h \notin {queue[i] : i \in DOMAIN queue}
       /\ holders' = holders \ {h}
  /\ UNCHANGED <<queue, current, finished, freed>>

Free ==
  /\ holders = {} /\ queue = <<>> /\ current = Nobody /\ ~freed
  /\ freed' = TRUE
  /\ UNCHANGED <<holders, queue, current, finished>>

Serve == Start \/ Finish \/ Free

SerialNext == Schedule \/ Release \/ Serve

SerialSafe == SerialInit /\ [][SerialNext]_vars
Serial == SerialSafe /\ WF_vars(Serve)
=============================================================================
