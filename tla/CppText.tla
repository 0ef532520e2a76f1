------------------------------- MODULE CppText -------------------------------
(***************************************************************************)
(* What the C++ generator (plugin/src/compiler) prints, as data: methods,  *)
(* the variables its templates read, and declarations.                     *)
(*                                                                         *)
(* An identifier is a sequence of words, so that a name glued together by  *)
(* a template ($Method$Raw) can meet one the author of a .proto chose.  A  *)
(* parameter is the sequence of its name and the words of its type; a type *)
(* is a sequence of words.  A declaration says what it belongs to, what it *)
(* promises (how) and, when it has a body, what that body calls, with      *)
(* which arguments, on which slot of the service's method table.           *)
(***************************************************************************)
EXTENDS Naturals, Sequences

NoStreaming(m) == ~m.client /\ ~m.server
ClientOnlyStreaming(m) == m.client /\ ~m.server
ServerOnlyStreaming(m) == ~m.client /\ m.server
BidiStreaming(m) == m.client /\ m.server

\* The map of template variables, which outlives the call that filled it.
Unset == <<>>
NoSlot == 0
InitialVars == [Package |-> Unset, ns |-> Unset, Service |-> Unset, Method |-> Unset,
                Request |-> "", Response |-> "", RealRequest |-> "", RealResponse |-> "",
                Idx |-> NoSlot]

MethodVars(v, m) ==
  [v EXCEPT !.Method = m.name, !.Request = m.input, !.Response = m.output]
TypedVars(v, m) ==
  [MethodVars(v, m) EXCEPT !.RealRequest = m.input, !.RealResponse = m.output]
RawVars(v, m) ==
  [MethodVars(v, m) EXCEPT !.RealRequest = "ByteBuffer", !.RealResponse = "ByteBuffer"]

Raw == <<"Raw">>

Context == <<"context", "ClientContext*">>
ServerContext == <<"context", "ServerContext*">>
CallbackContext == <<"context", "CallbackServerContext*">>
RequestRef(v) == <<"request", "const&", v.Request>>
RequestPtr(v) == <<"request", "const*", v.Request>>
ResponsePtr(v) == <<"response", "*", v.Response>>
Queue == <<"cq", "CompletionQueue*">>
Tag == <<"tag", "void*">>
NewCallQueue == <<"new_call_cq", "CompletionQueue*">>
NotificationQueue == <<"notification_cq", "ServerCompletionQueue*">>

\* Mutant: PrepareAsync starts the call too.
AsyncPrefixesEager ==
  {[prefix |-> <<"Async">>, params |-> <<Tag>>, args |-> <<"tag">>,
    start |-> TRUE, create |-> <<"tag">>, extra |-> 1],
   [prefix |-> <<"PrepareAsync">>, params |-> <<>>, args |-> <<>>,
    start |-> TRUE, create |-> <<"nullptr">>, extra |-> 0]}

\* Mutant: the wrappers keep the tag to themselves.
AsyncPrefixesUntagged ==
  {[prefix |-> <<"Async">>, params |-> <<Tag>>, args |-> <<>>,
    start |-> TRUE, create |-> <<"tag">>, extra |-> 1],
   [prefix |-> <<"PrepareAsync">>, params |-> <<>>, args |-> <<>>,
    start |-> FALSE, create |-> <<"nullptr">>, extra |-> 0]}

\* async_prefixes: the two ways to begin a call on a completion queue.
AsyncPrefixes ==
  {[prefix |-> <<"Async">>, params |-> <<Tag>>, args |-> <<"tag">>,
    start |-> TRUE, create |-> <<"tag">>, extra |-> 1],
   [prefix |-> <<"PrepareAsync">>, params |-> <<>>, args |-> <<>>,
    start |-> FALSE, create |-> <<"nullptr">>, extra |-> 0]}

When(condition, printed) == IF condition THEN printed ELSE {}

\* unit, service, method and ns are where it was printed; see CppGenerator.
Decl(of, name, params, ret, how) ==
  [of |-> of, name |-> name, params |-> params, ret |-> ret, how |-> how,
   call |-> <<>>, with |-> <<>>, lambda |-> <<>>, start |-> FALSE, slot |-> NoSlot,
   unit |-> "", service |-> 0, method |-> 0, ns |-> Unset]

\* A function printed with a body that calls something.
Body(decl, call, with) == [decl EXCEPT !.call = call, !.with = with]
\* A body that installs a lambda, which calls target.
Installing(decl, call, target, lambda) ==
  [decl EXCEPT !.call = call, !.with = target, !.lambda = lambda]
Starting(decl, start) == [decl EXCEPT !.start = start]
OnSlot(decl, slot) == [decl EXCEPT !.slot = slot]

Names(params) == [n \in DOMAIN params |-> params[n][1]]
Types(params) == [n \in DOMAIN params |-> Tail(params[n])]
=============================================================================
