----------------------------- MODULE EventQueue -----------------------------
(***************************************************************************)
(* What a completion queue promises those who begin operations on it and   *)
(* those who poll it (src/core/lib/surface/completion_queue.h): every      *)
(* operation begun is delivered once it has ended, to one poller, and      *)
(* GRPC_QUEUE_SHUTDOWN is the last thing anybody hears.                    *)
(***************************************************************************)
CONSTANTS Op, Poller

VARIABLES
  ops,      \* how far every operation is
  closing,  \* shutdown was called
  told      \* the pollers that were told GRPC_QUEUE_SHUTDOWN

vars == <<ops, closing, told>>

Status == {"new", "refused", "begun", "ready", "delivered"}

QueueInit == ops = [o \in Op |-> "new"] /\ closing = FALSE /\ told = {}

Move(o, from, to) == ops[o] = from /\ ops' = [ops EXCEPT ![o] = to]

None(status) == \A o \in Op : ops[o] # status

\* Beginning an operation may fail only when the queue shuts down and no
\* operation is under way any more.
BeginOp(o) ==
  /\ \/ told = {} /\ Move(o, "new", "begun")
     \/ closing /\ None("begun") /\ Move(o, "new", "refused")
  /\ UNCHANGED <<closing, told>>

EndOp(o) == Move(o, "begun", "ready") /\ UNCHANGED <<closing, told>>

Deliver(o) == Move(o, "ready", "delivered") /\ UNCHANGED <<closing, told>>

Close == closing' = TRUE /\ UNCHANGED <<ops, told>>

\* The end is reported only when nothing is left to deliver.
Report(p) ==
  /\ closing /\ None("begun") /\ None("ready")
  /\ told' = told \cup {p}
  /\ UNCHANGED <<ops, closing>>

QueueNext ==
  \/ \E o \in Op : BeginOp(o) \/ EndOp(o) \/ Deliver(o)
  \/ Close
  \/ \E p \in Poller : Report(p)

Queue == QueueInit /\ [][QueueNext]_vars
=============================================================================
