---------------------------- MODULE CppGenerator ----------------------------
(***************************************************************************)
(* The C++ code generator: CppGrpcGenerator::Generate (cpp_plugin.h) and   *)
(* the functions of cpp_generator.cc it calls.  It reads its options, and  *)
(* then prints a header, a source and, if asked to, a mock.  Each is a     *)
(* nest of loops: over the services and, in each service, a sequence of    *)
(* loops over the methods.  All loops of a unit share one map of template  *)
(* variables.  One action is one call of a Print function for one method.  *)
(***************************************************************************)
EXTENDS CppClient, CppServer, FiniteSets

CONSTANTS Files, Parameters

Flags == {"use_system_headers", "generate_mock_code", "include_import_headers",
          "allow_sync_server_api", "allow_cq_api", "allow_deprecated"}
Texts == {"services_namespace", "grpc_search_path", "gmock_search_path",
          "additional_header_includes", "message_header_extension"}

ASSUME CppGeneratorAssumption ==
  /\ \A f \in Files :
       /\ f.package \in Seq(STRING) /\ f.imports \in Seq(STRING) /\ f.comment \in STRING
       /\ f.cc_generic_services \in BOOLEAN
       /\ f.services \in Seq([name : Seq(STRING),
                              methods : Seq([name : Seq(STRING), client : BOOLEAN, server : BOOLEAN,
                                             input : STRING, output : STRING])])
  /\ Parameters \subseteq Seq([key : STRING, val : STRING])
\* protoc refuses a service with two methods of one name before it calls a plugin.
ASSUME MethodNamesAssumption ==
  \A f \in Files : \A s \in DOMAIN f.services :
    LET ms == f.services[s].methods
    IN \A m, n \in DOMAIN ms : ms[m].name = ms[n].name => m = n

VARIABLES
  file,      \* the .proto
  options,   \* parameters_list, what is left of it
  flags,     \* generator_parameters: the booleans
  texts,     \* generator_parameters: the strings
  unit,      \* what is being printed, or how Generate returned
  service,   \* the loop over the services
  loop,      \* the loop of PrintHeaderService, PrintSourceService or PrintMockService
  method,    \* i
  tpl,       \* vars
  decls,     \* the declarations and definitions printed
  names,     \* per service, Service_method_names
  adds,      \* per service, the AddMethod calls of its constructor
  typedefs,  \* per service and typedef, the mixins it opens and the brackets it closes
  text,      \* per unit, its frame: includes and namespaces
  written    \* the files written

inputVars == <<file, options, flags, texts>>
position == <<unit, service, loop, method>>
printedVars == <<decls, names, adds, typedefs>>
fileVars == <<text, written>>
vars == <<inputVars, position, tpl, printedVars, fileVars>>

Units == {"header", "source", "mock"}
Typedefs == {"AsyncService", "CallbackService", "StreamedUnaryService", "SplitStreamedService",
             "StreamedService"}
Cq == flags["allow_cq_api"]
Sync == flags["allow_sync_server_api"]
Namespace == IF texts["services_namespace"] = "" THEN <<>> ELSE <<texts["services_namespace"]>>
ServiceName(s) == file.services[s].name
Methods(s) == file.services[s].methods
Current == Methods(service)[method]

Init ==
  /\ file \in Files /\ options \in Parameters
  /\ flags = [f \in Flags |-> f \in {"use_system_headers", "allow_sync_server_api", "allow_cq_api"}]
  /\ texts = [t \in Texts |-> ""]
  /\ unit = "options" /\ service = 0 /\ loop = 0 /\ method = 0
  /\ tpl = InitialVars
  /\ decls = {}
  /\ typedefs = [st \in (DOMAIN file.services) \X Typedefs |-> [wraps |-> <<>>, closes |-> 0]]
  /\ names = [s \in DOMAIN file.services |-> <<>>]
  /\ adds = [s \in DOMAIN file.services |-> <<>>]
  /\ text = [u \in Units |-> <<>>] /\ written = {}

-----------------------------------------------------------------------------
(* The options.                                                            *)

Reading == unit = "options" /\ ~file.cc_generic_services

RefuseGenericServices ==
  /\ unit = "options" /\ file.cc_generic_services
  /\ unit' = "rejected"
  /\ UNCHANGED <<inputVars, service, loop, method, tpl, printedVars, fileVars>>

\* A flag that only ever turns on.
Sticky == {"generate_mock_code", "include_import_headers"}

\* An option without "=" makes param[1] read past the vector: any outcome.
Values(option) == IF option.val = "missing" THEN {"true", "false", "other", "crash"} ELSE {option.val}

\* Mutant: every flag may be turned off again.
SetOptionAnyOff(key, val) ==
  \/ key \in Flags /\ val \in {"true", "false"} /\ flags' = [flags EXCEPT ![key] = (val = "true")] /\ UNCHANGED texts
  \/ key \in Texts /\ texts' = [texts EXCEPT ![key] = val] /\ UNCHANGED flags

SetOption(key, val) ==
  \/ /\ key \in Flags /\ val = "true"
     /\ flags' = [flags EXCEPT ![key] = TRUE] /\ UNCHANGED texts
  \/ /\ key \in Flags /\ val = "false"
     /\ flags' = [flags EXCEPT ![key] = @ /\ key \in Sticky] /\ UNCHANGED texts
  \/ key \in Texts /\ texts' = [texts EXCEPT ![key] = val] /\ UNCHANGED flags

ParseOption ==
  /\ Reading /\ options # <<>>
  /\ \E val \in Values(Head(options)) \ {"crash"} : SetOption(Head(options).key, val)
  /\ options' = Tail(options)
  /\ UNCHANGED <<file, position, tpl, printedVars, fileVars>>

Invalid(key, val) == key \notin Flags \cup Texts \/ (key \in Flags /\ val \notin {"true", "false"})

RejectOption ==
  /\ Reading /\ options # <<>>
  /\ \E val \in Values(Head(options)) \ {"crash"} : Invalid(Head(options).key, val)
  /\ unit' = "rejected"
  /\ UNCHANGED <<inputVars, service, loop, method, tpl, printedVars, fileVars>>

ReadPastTheEnd ==
  /\ Reading /\ options # <<>>
  /\ Head(options).key \in Flags \cup Texts /\ "crash" \in Values(Head(options))
  /\ unit' = "crashed"
  /\ UNCHANGED <<inputVars, service, loop, method, tpl, printedVars, fileVars>>

-----------------------------------------------------------------------------
(* The frame of a unit.                                                    *)

Include(header) == <<"include", header>>
Opened(parts) == [n \in DOMAIN parts |-> <<"open", parts[n]>>]
Closed(parts) == [n \in DOMAIN parts |-> <<"close", parts[Len(parts) + 1 - n]>>]
PortsDef == Include("grpcpp/ports_def.inc")
PortsUndef == Include("grpcpp/ports_undef.inc")

Imports ==
  IF flags["include_import_headers"] THEN [n \in DOMAIN file.imports |-> Include(file.imports[n])] ELSE <<>>

\* A comment is told apart by its "$"s: GetPrefixedComments doubles them for Printer::Print,
\* which halves them again; PrintRaw copies what it is given.
EscapeVariableDelimiters(comment) == IF comment = "dollar" THEN "dollar dollar" ELSE comment
FileComments ==
  IF file.comment = "" THEN <<>> ELSE << <<"comment", EscapeVariableDelimiters(file.comment)>> >>

HeaderPrologue == FileComments \o << <<"ifndef", "GRPC">>, Include("message header")>>
HeaderIncludes ==
  (IF texts["additional_header_includes"] = "" THEN <<>> ELSE <<Include("additional header")>>)
  \o <<Include("grpcpp headers"), PortsDef>> \o Imports \o Opened(file.package)
HeaderEpilogue == Closed(file.package) \o <<PortsUndef, <<"endif", "GRPC">> >>

SourcePrologue == <<Include("message header"), Include("service header")>>
SourceIncludes == <<Include("grpcpp headers"), PortsDef>> \o Opened(file.package)
\* The source labels its closing brackets in the order of opening.
SourceEpilogue ==
  IF file.package = <<>> THEN <<>>
  ELSE [n \in DOMAIN file.package |-> <<"close", file.package[n]>>] \o <<PortsUndef>>

MockPrologue ==
  << <<"ifndef", "GRPC_MOCK">>, Include("message header"), Include("service header")>> \o Imports
MockIncludes == <<Include("grpcpp headers"), Include("gmock")>> \o Opened(file.package)
\* Mutant: the namespaces are left open.
MockEpilogueOpen == << <<"endif", "GRPC_MOCK">> >>
MockEpilogue == Closed(file.package) \o << <<"endif", "GRPC_MOCK">> >>

Services == << <<"services", "">> >>
Frame(u) ==
  CASE u = "header" -> HeaderPrologue \o HeaderIncludes \o Opened(Namespace) \o Services
                         \o Closed(Namespace) \o HeaderEpilogue
    [] u = "source" -> SourcePrologue \o SourceIncludes \o Services \o SourceEpilogue
    [] u = "mock" -> MockPrologue \o MockIncludes \o Opened(Namespace) \o Services
                       \o Closed(Namespace) \o MockEpilogue

\* GetHeaderServices, GetSourceServices, GetMockServices: a map of its own.
Begin(u) ==
  /\ unit' = u /\ service' = 1 /\ loop' = 0 /\ method' = 0
  /\ tpl' = [InitialVars EXCEPT !.Package = file.package,
                                !.ns = IF u = "source" THEN Namespace ELSE Unset]

GetHeaderServices ==
  /\ Reading /\ options = <<>>
  /\ Begin("header")
  /\ UNCHANGED <<inputVars, printedVars, fileVars>>

Finished(u) == unit = u /\ service > Len(file.services)
Write(u) == text' = [text EXCEPT ![u] = Frame(u)] /\ written' = written \cup {u}

\* Mutant: a file without services needs no source.
WriteHeaderOnly ==
  /\ Finished("header") /\ Write("header")
  /\ IF file.services = <<>> THEN unit' = "done" /\ UNCHANGED <<service, loop, method, tpl>>
                             ELSE Begin("source")
  /\ UNCHANGED <<inputVars, printedVars>>

WriteHeader ==
  /\ Finished("header") /\ Write("header") /\ Begin("source")
  /\ UNCHANGED <<inputVars, printedVars>>

WriteSource ==
  /\ Finished("source") /\ Write("source")
  /\ \/ flags["generate_mock_code"] /\ Begin("mock")
     \/ ~flags["generate_mock_code"] /\ unit' = "done" /\ UNCHANGED <<service, loop, method, tpl>>
  /\ UNCHANGED <<inputVars, printedVars>>

WriteMock ==
  /\ Finished("mock") /\ Write("mock")
  /\ unit' = "done" /\ UNCHANGED <<service, loop, method, tpl>>
  /\ UNCHANGED <<inputVars, printedVars>>

-----------------------------------------------------------------------------
(* The loops of a service.                                                 *)

HeaderLoops ==
  <<"Interfaces", "CallbackInterfaces", "RawInterfaces", "Methods", "Callback", "RawMethods",
    "Data", "Sync", "Async", "AsyncService", "EndAsyncService", "ServerCallback",
    "CallbackService", "EndCallbackService", "Generic", "Raw", "RawCallback", "StreamedUnary",
    "StreamedUnaryService", "EndStreamedUnaryService", "SplitStreaming", "SplitStreamedService",
    "EndSplitStreamedService", "StreamedService", "EndStreamedService">>
SourceLoops == <<"Names", "Inits", "SourceClient", "Adds", "SourceServer">>
MockLoops == <<"MockMethods">>
\* The loop that closes the brackets of a typedef.
End(t) ==
  CASE t = "AsyncService" -> "EndAsyncService"
    [] t = "CallbackService" -> "EndCallbackService"
    [] t = "StreamedUnaryService" -> "EndStreamedUnaryService"
    [] t = "SplitStreamedService" -> "EndSplitStreamedService"
    [] t = "StreamedService" -> "EndStreamedService"

\* The loops under "if (params.allow_...)".
Allowed(l) ==
  /\ l \in {"Async", "AsyncService", "EndAsyncService", "Raw"} => Cq
  /\ l \in {"StreamedUnary", "StreamedUnaryService", "EndStreamedUnaryService", "SplitStreaming",
             "SplitStreamedService", "EndSplitStreamedService", "StreamedService",
             "EndStreamedService"} => Sync

LoopsOf(u) == CASE u = "header" -> HeaderLoops
                [] u = "source" -> SourceLoops
                [] u = "mock" -> MockLoops
Loops == LoopsOf(unit)

Printing == unit \in Units /\ service \in DOMAIN file.services

Stamped(printed) ==
  {[d EXCEPT !.unit = unit, !.service = service, !.method = method, !.ns = tpl.ns] : d \in printed}

\* What is printed once for a service, between the loops.
ChannelAndOptions == << <<"channel", "ChannelInterface">>, <<"options", "StubOptions">> >>
HeaderFixed(v) ==
  {Decl(<<>>, <<"service_full_name">>, <<>>, v.Package \o v.Service, "inline"),
   Decl(StubInterface, <<"async">>, <<>>, <<"async", "Interface">>, "default"),
   Body(Decl(Stub, <<"async">>, <<>>, <<"async">>, "override"), <<"async_stub_">>, <<>>),
   Decl(Stub, Stub, ChannelAndOptions, <<>>, "declared"),
   Decl(<<>>, <<"NewStub">>, ChannelAndOptions, <<"unique_ptr", "Stub">>, "declared"),
   Decl(Service, Service, <<>>, <<>>, "declared"),
   Decl(Service, <<"~">> \o Service, <<>>, <<>>, "virtual")}
SourceFixed ==
  {Decl(<<>>, <<"NewStub">>, ChannelAndOptions, <<"unique_ptr", "Stub">>, "defined"),
   Decl(Stub, Stub, ChannelAndOptions, <<>>, "defined"),
   Decl(Service, Service, <<>>, <<>>, "defined"),
   Decl(Service, <<"~">> \o Service, <<>>, <<>>, "defined")}

OpenService ==
  /\ Printing /\ loop = 0
  /\ tpl' = [tpl EXCEPT !.Service = ServiceName(service)]
  /\ decls' = decls \cup Stamped(CASE unit = "header" -> HeaderFixed(tpl')
                                   [] unit = "source" -> SourceFixed
                                   [] unit = "mock" -> {})
  /\ loop' = 1 /\ method' = 1
  /\ UNCHANGED <<inputVars, unit, service, names, adds, typedefs, fileVars>>

NextLoop ==
  /\ Printing /\ loop \in DOMAIN Loops
  /\ ~Allowed(Loops[loop]) \/ method > Len(Methods(service))
  /\ loop' = loop + 1 /\ method' = 1
  /\ UNCHANGED <<inputVars, unit, service, tpl, printedVars, fileVars>>

\* Mutant: the iterator stays at a service without methods.
CloseServiceStays ==
  /\ Printing /\ loop > Len(Loops)
  /\ service' = (IF Methods(service) = <<>> THEN service ELSE service + 1) /\ loop' = 0 /\ method' = 0
  /\ UNCHANGED <<inputVars, unit, tpl, printedVars, fileVars>>

CloseService ==
  /\ Printing /\ loop > Len(Loops)
  /\ service' = service + 1 /\ loop' = 0 /\ method' = 0
  /\ UNCHANGED <<inputVars, unit, tpl, printedVars, fileVars>>

\* One turn of the loop l, which leaves v in the map and prints something.
At(l) ==
  /\ Printing /\ loop \in DOMAIN Loops /\ Loops[loop] = l /\ Allowed(l)
  /\ method \in DOMAIN Methods(service)
Turn(v) == tpl' = v /\ method' = method + 1 /\ UNCHANGED <<inputVars, unit, service, loop, fileVars>>
Prints(v, printed) ==
  Turn(v) /\ decls' = decls \cup Stamped(printed) /\ UNCHANGED <<names, adds, typedefs>>

\* The caller of a mixin's printer stores as_string(i), counted here from one.
WithIdx(v) == [v EXCEPT !.Idx = method]

-----------------------------------------------------------------------------
(* The header.                                                             *)

PrintHeaderClientMethodInterfaces ==
  LET v == MethodVars(tpl, Current)
  IN \/ At("Interfaces") /\ Prints(v, PublicInterfaces(Current, v, Cq))
     \/ At("RawInterfaces") /\ Prints(v, PrivateInterfaces(Current, v, Cq))

PrintHeaderClientMethodCallbackInterfaces ==
  LET v == MethodVars(tpl, Current)
  IN At("CallbackInterfaces") /\ Prints(v, CallbackInterfaces(Current, v))

PrintHeaderClientMethod ==
  LET v == MethodVars(tpl, Current)
  IN \/ At("Methods") /\ Prints(v, PublicMethods(Current, v, Cq))
     \/ At("RawMethods") /\ Prints(v, PrivateMethods(Current, v, Cq))

PrintHeaderClientMethodCallback ==
  LET v == MethodVars(tpl, Current)
  IN At("Callback") /\ Prints(v, CallbackMethods(Current, v))

PrintHeaderClientMethodData ==
  LET v == [tpl EXCEPT !.Method = Current.name]
  IN At("Data") /\ Prints(v, MethodData(v))

PrintHeaderServerMethodSync ==
  LET v == MethodVars(tpl, Current)
  IN At("Sync") /\ Prints(v, SyncMethod(Current, v, Sync))

PrintHeaderServerMethodAsync ==
  LET v == TypedVars(WithIdx(tpl), Current)
  IN At("Async") /\ Prints(v, WithAsyncMethod(Current, v, Sync))

PrintHeaderServerMethodCallback ==
  LET v == TypedVars(WithIdx(tpl), Current)
  IN At("ServerCallback") /\ Prints(v, WithCallbackMethod(Current, v, Sync))

\* Mutant: the caller does not store the index.
PrintHeaderServerMethodGenericStale ==
  LET v == MethodVars(tpl, Current)
  IN At("Generic") /\ Prints(v, WithGenericMethod(Current, v, Sync))

PrintHeaderServerMethodGeneric ==
  LET v == MethodVars(WithIdx(tpl), Current)
  IN At("Generic") /\ Prints(v, WithGenericMethod(Current, v, Sync))

PrintHeaderServerMethodRaw ==
  LET v == RawVars(WithIdx(tpl), Current)
  IN At("Raw") /\ Prints(v, WithRawMethod(Current, v, Sync))

PrintHeaderServerMethodRawCallback ==
  LET v == RawVars(WithIdx(tpl), Current)
  IN At("RawCallback") /\ Prints(v, WithRawCallbackMethod(Current, v, Sync))

PrintHeaderServerMethodStreamedUnary ==
  LET v == MethodVars(WithIdx(tpl), Current)
  IN At("StreamedUnary") /\ Prints(v, WithStreamedUnaryMethod(Current, v))

PrintHeaderServerMethodSplitStreaming ==
  LET v == MethodVars(WithIdx(tpl), Current)
  IN At("SplitStreaming") /\ Prints(v, WithSplitStreamingMethod(Current, v))

\* typedef Mixin<Mixin<Service > > name: the mixins are printed by one loop over the methods,
\* the closing brackets by another, each with a test of its own.
Unary(m) == IF NoStreaming(m) THEN << <<"WithStreamedUnaryMethod_">> \o m.name>> ELSE <<>>
Split(m) == IF ServerOnlyStreaming(m) THEN << <<"WithSplitStreamingMethod_">> \o m.name>> ELSE <<>>
Opens(t, m) ==
  CASE t = "AsyncService" -> << <<"WithAsyncMethod_">> \o m.name>>
    [] t = "CallbackService" -> << <<"WithCallbackMethod_">> \o m.name>>
    [] t = "StreamedUnaryService" -> Unary(m)
    [] t = "SplitStreamedService" -> Split(m)
    [] t = "StreamedService" -> Split(m) \o Unary(m)
Closes(t, m) ==
  CASE t \in {"AsyncService", "CallbackService"} -> TRUE
    [] t = "StreamedUnaryService" -> NoStreaming(m)
    [] t = "SplitStreamedService" -> ServerOnlyStreaming(m)
    [] t = "StreamedService" -> NoStreaming(m) \/ ServerOnlyStreaming(m)

PrintTypedefMixin ==
  \E t \in Typedefs :
    /\ At(t) /\ Turn(tpl)
    /\ typedefs' = [typedefs EXCEPT ![<<service, t>>].wraps = @ \o Opens(t, Current)]
    /\ UNCHANGED <<decls, names, adds>>

\* Mutant: the closing loop does not test the method.
PrintTypedefBracketAll ==
  \E t \in Typedefs :
    /\ At(End(t)) /\ Turn(tpl)
    /\ typedefs' = [typedefs EXCEPT ![<<service, t>>].closes = @ + 1]
    /\ UNCHANGED <<decls, names, adds>>

PrintTypedefBracket ==
  \E t \in Typedefs :
    /\ At(End(t)) /\ Turn(tpl)
    /\ typedefs' = [typedefs EXCEPT ![<<service, t>>].closes = IF Closes(t, Current) THEN @ + 1 ELSE @]
    /\ UNCHANGED <<decls, names, adds>>

-----------------------------------------------------------------------------
(* The source and the mock.                                                *)

PrintMethodName ==
  LET v == [tpl EXCEPT !.Method = Current.name]
  IN /\ At("Names") /\ Turn(v)
     /\ names' = [names EXCEPT ![service] = Append(@, v.Package \o v.Service \o v.Method)]
     /\ UNCHANGED <<decls, adds, typedefs>>

StreamingType(m) ==
  IF NoStreaming(m) THEN "NORMAL_RPC"
  ELSE IF ClientOnlyStreaming(m) THEN "CLIENT_STREAMING"
  ELSE IF ServerOnlyStreaming(m) THEN "SERVER_STREAMING" ELSE "BIDI_STREAMING"

PrintMethodInit ==
  LET v == [WithIdx(tpl) EXCEPT !.Method = Current.name]
  IN /\ At("Inits")
     /\ Prints(v, {OnSlot(Decl(Stub, RpcMethod(v), <<>>, <<StreamingType(Current)>>, "init"), v.Idx)})

PrintSourceClientMethod ==
  LET v == MethodVars(WithIdx(tpl), Current)
  IN At("SourceClient") /\ Prints(v, SourceClientMethod(Current, v, Cq))

PrintAddMethod ==
  LET v == MethodVars(WithIdx(tpl), Current)
  IN /\ At("Adds") /\ Turn(v)
     /\ adds' = [adds EXCEPT ![service] = Append(@, AddMethod(Current, v))]
     /\ UNCHANGED <<decls, names, typedefs>>

PrintSourceServerMethod ==
  LET v == MethodVars(WithIdx(tpl), Current)
  IN At("SourceServer") /\ Prints(v, SourceServerMethod(Current, v, Sync))

PrintMockClientMethods ==
  LET v == MethodVars(tpl, Current)
  IN At("MockMethods") /\ Prints(v, MockMethods(Current, v, Cq))

-----------------------------------------------------------------------------

Generate ==
  \/ RefuseGenericServices \/ ParseOption \/ RejectOption \/ ReadPastTheEnd
  \/ GetHeaderServices \/ WriteHeader \/ WriteSource \/ WriteMock
  \/ OpenService \/ NextLoop \/ CloseService
  \/ PrintTypedefMixin \/ PrintTypedefBracket
  \/ PrintHeaderClientMethodInterfaces \/ PrintHeaderClientMethodCallbackInterfaces
  \/ PrintHeaderClientMethod \/ PrintHeaderClientMethodCallback \/ PrintHeaderClientMethodData
  \/ PrintHeaderServerMethodSync \/ PrintHeaderServerMethodAsync
  \/ PrintHeaderServerMethodCallback \/ PrintHeaderServerMethodGeneric
  \/ PrintHeaderServerMethodRaw \/ PrintHeaderServerMethodRawCallback
  \/ PrintHeaderServerMethodStreamedUnary \/ PrintHeaderServerMethodSplitStreaming
  \/ PrintMethodName \/ PrintMethodInit \/ PrintSourceClientMethod
  \/ PrintAddMethod \/ PrintSourceServerMethod \/ PrintMockClientMethods

Returned == unit \in {"done", "rejected", "crashed"} /\ UNCHANGED vars
Next == Generate \/ Returned
\* Generate is one call in a process of its own: it goes on as long as it can.
Spec == Init /\ [][Next]_vars /\ WF_vars(Generate)

-----------------------------------------------------------------------------
(* Properties.                                                             *)

IsSequence(q) == q \in Seq({q[k] : k \in DOMAIN q})

\* The type invariant.
TypeOK ==
  /\ file \in Files /\ options \in Seq([key : STRING, val : STRING])
  /\ flags \in [Flags -> BOOLEAN] /\ DOMAIN texts = Texts
  /\ unit \in Units \cup {"options", "done", "rejected", "crashed"}
  /\ service \in Nat /\ loop \in Nat /\ method \in Nat
  /\ DOMAIN tpl = DOMAIN InitialVars
  /\ names \in [DOMAIN file.services -> Seq(Seq(STRING))]
  /\ adds = [s \in DOMAIN file.services |-> adds[s]]
  /\ \A s \in DOMAIN file.services : IsSequence(adds[s])
  /\ DOMAIN text = Units /\ written \subseteq Units

Generated == unit = "done"

\* Where the loops can be.
PositionOK ==
  /\ unit \in Units => service \in 1 .. Len(file.services) + 1
  /\ unit = "done" => service = Len(file.services) + 1
  /\ Printing => loop \in 0 .. Len(Loops) + 1
  /\ Printing /\ loop \in DOMAIN Loops => method \in 1 .. Len(Methods(service)) + 1
  /\ loop = 0 => method = 0

\* What the templates read that no loop over methods sets.
TemplatesOK ==
  /\ unit \in Units => tpl.Package = file.package
  /\ Printing /\ loop # 0 => tpl.Service = ServiceName(service)

\* How often the l-th loop of the source has turned for the service s.
Turns(l, s) ==
  IF unit \in {"mock", "done"} \/ (unit = "source" /\ (s < service \/ (s = service /\ l < loop)))
  THEN Len(Methods(s))
  ELSE IF unit = "source" /\ s = service /\ l = loop THEN method - 1 ELSE 0

NamesOK(s) ==
  /\ Len(names[s]) = Turns(1, s)
  /\ \A k \in DOMAIN names[s] : names[s][k] = file.package \o ServiceName(s) \o Methods(s)[k].name
InitFor(d, s, k, m) ==
  /\ d.service = s /\ d.how = "init" /\ d.slot = k
  /\ d.name = <<"rpcmethod_">> \o m.name /\ d.ret = <<StreamingType(m)>>
InitsOK(s) == \A k \in 1 .. Turns(2, s) : \E d \in decls : InitFor(d, s, k, Methods(s)[k])
AddsOK(s) ==
  /\ Len(adds[s]) = Turns(4, s)
  /\ \A k \in DOMAIN adds[s] :
       /\ adds[s][k].slot = k /\ adds[s][k].call = Methods(s)[k].name
       /\ adds[s][k].type = StreamingType(Methods(s)[k])
TablesOK == \A s \in DOMAIN file.services : NamesOK(s) /\ InitsOK(s) /\ AddsOK(s)

Mixins == {"WithAsyncMethod_", "WithCallbackMethod_", "WithGenericMethod_", "WithRawMethod_",
           "WithRawCallbackMethod_", "WithStreamedUnaryMethod_", "WithSplitStreamingMethod_"}
FullName == <<"service_full_name">>

HeaderOK ==
  \A d \in decls : d.unit = "header" =>
    /\ d.service \in DOMAIN file.services
    /\ d.name = FullName /\ d.method = 0 => d.ret = file.package \o ServiceName(d.service)
    /\ d.slot # NoSlot =>
         /\ d.slot \in DOMAIN Methods(d.service)
         /\ \E mixin \in Mixins : d.of = <<mixin>> \o Methods(d.service)[d.slot].name

WrittenOK ==
  /\ unit \in {"options", "rejected", "crashed", "header"} => written = {}
  /\ unit = "source" => written = {"header"}
  /\ unit \in {"mock", "done"} => {"header", "source"} \subseteq written

\* The inductive invariant behind SlotsAgree and NothingHalfWritten: at every turn of every
\* loop the tables hold the methods it has passed, each at its own slot.
IInv == TypeOK /\ PositionOK /\ TemplatesOK /\ TablesOK /\ HeaderOK /\ WrittenOK

\* The variables of a method's templates, and nothing another turn left behind.
Fresh(s, k) == [TypedVars(InitialVars, Methods(s)[k]) EXCEPT !.Idx = k]
FreshRaw(s, k) == [RawVars(InitialVars, Methods(s)[k]) EXCEPT !.Idx = k]

\* What a turn of the loop l for the k-th method has to declare.
DueAt(l, s, k) ==
  LET m == Methods(s)[k]
      v == Fresh(s, k)
  IN CASE l = "Interfaces" -> PublicInterfaces(m, v, Cq)
       [] l = "CallbackInterfaces" -> CallbackInterfaces(m, v)
       [] l = "RawInterfaces" -> PrivateInterfaces(m, v, Cq)
       [] l = "Methods" -> PublicMethods(m, v, Cq)
       [] l = "Callback" -> CallbackMethods(m, v)
       [] l = "RawMethods" -> PrivateMethods(m, v, Cq)
       [] l = "Data" -> MethodData(v)
       [] l = "Sync" -> SyncMethod(m, v, Sync)
       [] l = "Async" -> WithAsyncMethod(m, v, Sync)
       [] l = "ServerCallback" -> WithCallbackMethod(m, v, Sync)
       [] l = "Generic" -> WithGenericMethod(m, v, Sync)
       [] l = "Raw" -> WithRawMethod(m, FreshRaw(s, k), Sync)
       [] l = "RawCallback" -> WithRawCallbackMethod(m, FreshRaw(s, k), Sync)
       [] l = "StreamedUnary" -> WithStreamedUnaryMethod(m, v)
       [] l = "SplitStreaming" -> WithSplitStreamingMethod(m, v)
       [] l = "Inits" -> {OnSlot(Decl(Stub, RpcMethod(v), <<>>, <<StreamingType(m)>>, "init"), k)}
       [] l = "SourceClient" -> SourceClientMethod(m, v, Cq)
       [] l = "SourceServer" -> SourceServerMethod(m, v, Sync)
       [] l = "MockMethods" -> MockMethods(m, v, Cq)
       [] OTHER -> {}
\* And what the service has to declare before its loops.
DueFirst(u, s) ==
  CASE u = "header" -> HeaderFixed([InitialVars EXCEPT !.Package = file.package, !.Service = ServiceName(s)])
    [] u = "source" -> SourceFixed
    [] u = "mock" -> {}
Scope(u) == IF u = "source" THEN Namespace ELSE Unset
Placed(due, u, s, k) ==
  {[d EXCEPT !.unit = u, !.service = s, !.method = k, !.ns = Scope(u)] : d \in due}

\* The k-th turn of the n-th loop of a service, which comes before those of loop n + 1.
Turned(u, s, n, k) ==
  \/ u \in written
  \/ unit = u /\ (s < service \/ (s = service /\ (n < loop \/ (n = loop /\ k < method))))

ScopesOK ==
  /\ unit \in Units => tpl.ns = Scope(unit)
  /\ unit = "options" => decls = {}
TurnsKept ==
  \A u \in Units, s \in DOMAIN file.services :
    /\ Turned(u, s, 0, 0) => Placed(DueFirst(u, s), u, s, 0) \subseteq decls
    /\ \A n \in DOMAIN LoopsOf(u), k \in DOMAIN Methods(s) :
         Turned(u, s, n, k) /\ Allowed(LoopsOf(u)[n])
           => Placed(DueAt(LoopsOf(u)[n], s, k), u, s, k) \subseteq decls
NothingElse ==
  \A d \in decls :
    /\ d.unit \in Units /\ d.service \in DOMAIN file.services
    /\ \/ d \in Placed(DueFirst(d.unit, d.service), d.unit, d.service, 0)
       \/ /\ d.method \in DOMAIN Methods(d.service)
          /\ \E n \in DOMAIN LoopsOf(d.unit) :
               /\ Allowed(LoopsOf(d.unit)[n])
               /\ d \in Placed(DueAt(LoopsOf(d.unit)[n], d.service, d.method), d.unit, d.service, d.method)
AddsDue ==
  \A s \in DOMAIN file.services : \A k \in DOMAIN adds[s] : adds[s][k] = AddMethod(Methods(s)[k], Fresh(s, k))

\* Every turn of a loop that is behind has declared what its method is due, from variables
\* that another turn, another service or the options read last have not touched, and
\* nothing was declared that no turn owes.  What is printed is compared through it.
TurnsOK == ScopesOK /\ TurnsKept /\ NothingElse /\ AddsDue

\* The turns of a loop of the header that are behind and printed.
Behind(l, s) ==
  {k \in DOMAIN Methods(s) :
     Allowed(l) /\ \E n \in DOMAIN HeaderLoops : HeaderLoops[n] = l /\ Turned("header", s, n, k)}

\* The mixins that the typedef t opens for the methods behind, in their order.
InOrder(wraps, t, ms, behind) ==
  LET OpenedBy(k, n) == Opens(t, ms[k]) = <<wraps[n]>>
  IN /\ \A n \in DOMAIN wraps : \E k \in behind : OpenedBy(k, n)
     /\ \A k \in behind : Opens(t, ms[k]) # <<>> => \E n \in DOMAIN wraps : OpenedBy(k, n)
     /\ \A n, p \in DOMAIN wraps : n < p =>
          \A k, l \in behind : OpenedBy(k, n) /\ OpenedBy(l, p) => k < l
     /\ Len(wraps) = Cardinality({k \in behind : Opens(t, ms[k]) # <<>>})

TypedefsKept ==
  /\ typedefs \in [(DOMAIN file.services) \X Typedefs -> [wraps : Seq(Seq(STRING \cup Mixins)), closes : Nat]]
  /\ \A s \in DOMAIN file.services, t \in Typedefs :
       /\ InOrder(typedefs[<<s, t>>].wraps, t, Methods(s), Behind(t, s))
       /\ typedefs[<<s, t>>].closes = Cardinality({k \in Behind(End(t), s) : Closes(t, Methods(s)[k])})
FramesKept == \A u \in written : text[u] = Frame(u)

\* A typedef has opened a mixin for each turn behind that has one, in their order, and has
\* closed a bracket for each that the other loop passed; and a file is written with the
\* frame that its options, read before it, give it.
PrintedOK == TypedefsKept /\ FramesKept

In(u) == {d \in decls : d.unit = u}
Alike(a, b) == a.service = b.service /\ a.name = b.name /\ Types(a.params) = Types(b.params)
BaseOf(of) ==
  CASE of \in {Stub, MockStub} -> StubInterface
    [] of = StubAsync -> AsyncInterface
    [] OTHER -> Service
Covariant(sub, base) == sub = base \/ base = <<Head(sub), "Interface">> \o Tail(sub)

\* A service whose method names differ by "Raw" may declare a function twice.
RawPair(s) ==
  \E m, n \in DOMAIN Methods(s) : Methods(s)[m].name = Methods(s)[n].name \o Raw

\* What is marked override has something to override, with the same parameters and a
\* return type that fits, in Stub, Stub::async, the mixins (whose base is Service) and
\* the mock, where MOCK_METHODn also has to count them; and Stub, Stub::async and the
\* mock leave no pure virtual function unimplemented: otherwise what was generated does
\* not compile.  The tables are written out one by one, for every kind of method.
OverridesMatch ==
  Generated =>
    /\ \A d \in decls : d.how \in {"override", "mock"} =>
         \E b \in decls :
           /\ Alike(d, b) /\ b.of = BaseOf(d.of) /\ b.how \in {"pure", "virtual", "default"}
           /\ IF d.how = "mock" THEN d.ret = b.ret /\ d.slot = Len(d.params)
                                ELSE Covariant(d.ret, b.ret)
    /\ \A b \in decls : b.how = "pure" /\ b.of \in {StubInterface, AsyncInterface} =>
         \A of \in {Stub, StubAsync} \cup (IF "mock" \in written THEN {MockStub} ELSE {}) :
           BaseOf(of) = b.of =>
             \E d \in decls : d.of = of /\ Alike(d, b) /\ d.how \in {"override", "mock"}

\* The header and the source agree: each function the header declares without a body is
\* defined once in the source, with its type, in the namespace that declared it; and the
\* source defines nothing else.
DefinedOnce ==
  Generated =>
    \A s \in DOMAIN file.services : ~RawPair(s) =>
      LET declared == {d \in In("header") : d.service = s /\ d.call = <<>>
                         /\ d.how \in {"override", "virtual", "declared"}}
          defined == {d \in In("source") : d.service = s /\ d.how = "defined"}
          DefinedBy(d, b) == d.of = b.of /\ Alike(d, b) /\ d.ret = b.ret /\ b.ns = Namespace
      IN /\ \A d \in declared : \E b \in defined :
              DefinedBy(d, b) /\ \A c \in defined : DefinedBy(d, c) => c = b
         /\ \A b \in defined : \E d \in declared : DefinedBy(d, b)

\* A body calls what exists: a wrapper of Stub or StubInterface the Raw function of its
\* own class, with arguments of its types, and adopts what that returns; AsyncMRaw its
\* PrepareAsyncMRaw; a handler's lambda a member with the lambda's parameters.
CallsResolve ==
  Generated =>
    LET Passed(d) == [n \in DOMAIN d.with |->
                        Tail((CHOOSE p \in {d.params[k] : k \in DOMAIN d.params} : p[1] = d.with[n]))]
    IN /\ \A d \in decls : d.of \in {Stub, StubInterface} /\ Len(d.call) > 1 /\ d.call[1] # "rpcmethod_" =>
            \E b \in decls :
              /\ b.of = d.of /\ b.service = d.service /\ b.name = d.call /\ Types(b.params) = Passed(d)
              /\ d.ret = IF d.how = "inline" THEN <<"unique_ptr">> \o b.ret ELSE b.ret
       /\ \A d \in decls : d.lambda # <<>> =>
            \E b \in decls : b.of = d.of /\ b.service = d.service /\ b.name = d.with
                               /\ Types(b.params) = Types(d.lambda)
       /\ \A s \in DOMAIN adds : \A k \in DOMAIN adds[s] :
            \E b \in In("header") : b.of = Service /\ b.service = s /\ b.name = adds[s][k].call
                                      /\ Types(b.params) = Types(adds[s][k].lambda)

\* One numbering of a service's methods: the table of names, the stub's RpcMethods, the
\* AddMethod calls (whose order is the slots' at run time) and every mixin's index.  An
\* index taken from a variable another loop left behind would serve a method with
\* another's handler.
SlotsAgree ==
  Generated =>
    \A s \in DOMAIN file.services :
      LET ms == Methods(s)
      IN /\ DOMAIN names[s] = DOMAIN ms /\ DOMAIN adds[s] = DOMAIN ms
         /\ \A k \in DOMAIN ms :
              /\ \A d \in In("header") : d.service = s /\ d.name = FullName /\ d.method = 0
                   => names[s][k] = d.ret \o ms[k].name
              /\ adds[s][k].slot = k /\ adds[s][k].call = ms[k].name
              /\ \E d \in decls :
                   d.service = s /\ d.how = "init" /\ d.slot = k /\ d.name = <<"rpcmethod_">> \o ms[k].name
                   /\ d.ret = <<adds[s][k].type>>
         /\ \A d \in In("header") : d.service = s /\ d.slot # NoSlot =>
              /\ d.slot \in DOMAIN ms
              /\ \E mixin \in Mixins : d.of = <<mixin>> \o ms[d.slot].name

\* A service made of mixins wraps each method that has the mixin, once, in order, only
\* with mixins that were printed, and closes as many brackets as it opened.
TypedefsWrap ==
  Generated =>
    \A s \in DOMAIN file.services, t \in Typedefs : Allowed(t) =>
      LET ms == Methods(s)
          wraps == typedefs[<<s, t>>].wraps
          Marks(n) == {d \in In("header") : d.service = s /\ d.of = wraps[n] /\ d.name = d.of}
          Has(k) ==
            CASE t \in {"AsyncService", "CallbackService"} -> TRUE
              [] t = "StreamedUnaryService" -> NoStreaming(ms[k])
              [] t = "SplitStreamedService" -> ServerOnlyStreaming(ms[k])
              [] t = "StreamedService" -> ~ms[k].client
      IN /\ Len(wraps) = typedefs[<<s, t>>].closes
         /\ \A n \in DOMAIN wraps : \E k \in DOMAIN ms :
              Has(k) /\ Marks(n) # {} /\ \A d \in Marks(n) : d.slot = k
         /\ \A k \in DOMAIN ms : Has(k) => \E n \in DOMAIN wraps : \E d \in Marks(n) : d.slot = k
         /\ \A n, p \in DOMAIN wraps : n < p => \A d \in Marks(n), e \in Marks(p) : d.slot < e.slot

\* A call on a completion queue is started once by AsyncM, with the tag its caller gave
\* when there is one, and never by PrepareAsyncM, however the two share the work; and
\* every path through the stub ends at the RpcMethod of its own method.
StartsOnce ==
  Generated =>
    \A s \in DOMAIN file.services : ~RawPair(s) =>
      LET Through(d) == {b \in In("source") : b.service = s /\ b.of = d.of /\ b.name = d.call}
      IN \A d \in In("source") : d.service = s /\ d.how = "defined" /\ d.of \in {Stub, StubAsync} /\ d.call # <<>> =>
           LET via == Through(d)
               m == Methods(s)[d.method]
               began == {b \in {d} \cup via : b.start}
               tagged == \E n \in DOMAIN d.params : d.params[n] = Tag
           IN /\ \E b \in {d} \cup via : b.call = <<"rpcmethod_">> \o m.name
              /\ d.name = <<"Async">> \o m.name \o Raw =>
                   Cardinality(began) = 1 /\ (tagged <=> \E n \in DOMAIN d.with : d.with[n] = "tag")
              /\ d.name = <<"PrepareAsync">> \o m.name \o Raw => began = {} /\ ~tagged

\* The header, the source and the mock put a service in one namespace, and every
\* namespace that is opened is closed.
ScopesAgree ==
  Generated =>
    \A u \in written :
      LET Marks(kind) == {n \in DOMAIN text[u] : text[u][n][1] = kind}
          Count(kind) == Cardinality(Marks(kind))
          path == IF u = "source" THEN file.package ELSE file.package \o Namespace
      IN /\ Marks("services") # {}
         /\ \A at \in Marks("services") :
              (\A n \in Marks("open") : n < at) /\ (\A n \in Marks("close") : at < n)
         /\ Count("open") = Len(path) /\ Count("close") = Len(path)
         /\ \A n \in Marks("open") : text[u][n][2] = path[Cardinality({k \in Marks("open") : k <= n})]
         /\ Count("ifndef") = Count("endif")

\* The only functions declared twice, with the same parameters in one class, come from a
\* method that is called like another followed by "Raw".
RedeclaresOnlyRaw ==
  Generated =>
    \A d, e \in In("header") :
      d # e /\ d.of = e.of /\ Alike(d, e) => RawPair(d.service)

\* A rejected option, or one that crashes the plugin, leaves no file behind, and a header
\* is never left without its source.
NothingHalfWritten ==
  /\ unit \in {"rejected", "crashed"} => written = {}
  /\ Generated => {"header", "source"} \subseteq written

\* What the rest of the parameter may still lead to.
Refused(verdict) == [verdict |-> verdict, files |-> {}]
Done(mock) == [verdict |-> "done", files |-> IF mock THEN Units ELSE {"header", "source"}]
Answers == {Refused("rejected"), Refused("crashed"), Done(TRUE), Done(FALSE)}

MayPass(n) == \E val \in Values(options[n]) : val # "crash" /\ ~Invalid(options[n].key, val)
MayReject(n) == \E val \in Values(options[n]) : val # "crash" /\ Invalid(options[n].key, val)
MayCrash(n) == options[n].key \in Flags \cup Texts /\ "crash" \in Values(options[n])
MayReach(n) == \A k \in 1 .. n - 1 : MayPass(k)
MayAsk(val) == {n \in DOMAIN options : options[n].key # "generate_mock_code" \/ val \in Values(options[n])}
MayEnd(answer) ==
  \/ answer = Refused("rejected") /\ \E n \in DOMAIN options : MayReach(n) /\ MayReject(n)
  \/ answer = Refused("crashed") /\ \E n \in DOMAIN options : MayReach(n) /\ MayCrash(n)
  \/ /\ answer = Done(TRUE) /\ MayReach(Len(options) + 1)
     /\ \/ flags["generate_mock_code"]
        \/ \E n \in MayAsk("true") : options[n].key = "generate_mock_code"
  \/ /\ answer = Done(FALSE) /\ MayReach(Len(options) + 1)
     /\ ~flags["generate_mock_code"] /\ MayAsk("false") = DOMAIN options

Possible ==
  IF unit \in {"rejected", "crashed"} THEN {Refused(unit)}
  ELSE IF file.cc_generic_services THEN {Refused("rejected")}
  ELSE {answer \in Answers : MayEnd(answer)}

Contract == INSTANCE PluginPromise
              WITH possible <- Possible, files <- written,
                   answered <- unit \in {"done", "rejected", "crashed"}

\* The generator keeps the promise of a plugin: the parameter as a whole settles, before
\* the first file is opened, what is written, the mock exactly when some option turned it
\* on; and what is written is all of it, once.
ImplementsPromise == Contract!PromiseSafe

\* Generate always returns, or crashes: no loop goes round without end.
GenerateReturns == Contract!Returns

\* The header repeats the comments above the file's syntax line as they were written:
\* "Original file comments".
CommentsKept ==
  Generated => \A n \in DOMAIN text["header"] :
                 text["header"][n][1] = "comment" => text["header"][n][2] = file.comment

\* ports_def.inc is closed by ports_undef.inc: "Must be included at end of file".
PortsClosed ==
  Generated =>
    \A u \in written :
      (\E n \in DOMAIN text[u] : text[u][n] = PortsDef) => \E n \in DOMAIN text[u] : text[u][n] = PortsUndef

\* Both comments at once: at least one of the two promises is kept of every file.
\* It follows from either, so a file that breaks it refutes both.
CommentsOrPortsKept == CommentsKept \/ PortsClosed
=============================================================================
