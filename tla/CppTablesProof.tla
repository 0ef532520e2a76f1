---------------------------- MODULE CppTablesProof ----------------------------
(***************************************************************************)
(* Proofs about what CppGenerator has printed, for every .proto and every  *)
(* list of options: that the declarations are those every turn behind owes *)
(* its method, and what follows of the header, the source and the mock     *)
(* together.                                                               *)
(***************************************************************************)
EXTENDS CppGeneratorProof, FiniteSetTheorems

-----------------------------------------------------------------------------
(* The templates read nothing but the method's own variables.              *)

SameMessages(v, w) == v.Method = w.Method /\ v.Request = w.Request /\ v.Response = w.Response

\* They agree on the names and on the index too.
SameSlot(v, w) == SameMessages(v, w) /\ v.Idx = w.Idx

\* They agree on the wire types of a streamed method too.
SameVars(v, w) ==
  /\ SameSlot(v, w)
  /\ v.RealRequest = w.RealRequest /\ v.RealResponse = w.RealResponse

\* A method is of one of four kinds.
LEMMA FourKinds ==
  ASSUME NEW m, Kind(m)
  PROVE  \/ NoStreaming(m) \/ ClientOnlyStreaming(m) \/ ServerOnlyStreaming(m) \/ BidiStreaming(m)
BY DEF Kind, NoStreaming, ClientOnlyStreaming, ServerOnlyStreaming, BidiStreaming

\* The wrappers of the interface.
LEMMA PublicInterfacesReads ==
  ASSUME NEW v, NEW w, SameMessages(v, w), NEW m, Kind(m), NEW cq
  PROVE  PublicInterfaces(m, v, cq) = PublicInterfaces(m, w, cq)
<1>1. CASE NoStreaming(m)
  BY <1>1 DEF SameMessages, PublicInterfaces, RequestRef, RequestPtr, ResponsePtr, NoStreaming
<1>2. CASE ClientOnlyStreaming(m)
  BY <1>2 DEF SameMessages, PublicInterfaces, RequestRef, RequestPtr, ResponsePtr, NoStreaming,
    ClientOnlyStreaming
<1>3. CASE ServerOnlyStreaming(m)
  BY <1>3 DEF SameMessages, PublicInterfaces, RequestRef, RequestPtr, ResponsePtr, NoStreaming,
    ClientOnlyStreaming, ServerOnlyStreaming
<1>4. CASE BidiStreaming(m)
  BY <1>4 DEF SameMessages, PublicInterfaces, RequestRef, RequestPtr, ResponsePtr, NoStreaming,
    ClientOnlyStreaming, ServerOnlyStreaming, BidiStreaming
<1> QED  BY <1>1, <1>2, <1>3, <1>4, FourKinds

\* Its private virtual functions.
LEMMA PrivateInterfacesReads ==
  ASSUME NEW v, NEW w, SameMessages(v, w), NEW m, Kind(m), NEW cq
  PROVE  PrivateInterfaces(m, v, cq) = PrivateInterfaces(m, w, cq)
<1>1. CASE NoStreaming(m)
  BY <1>1 DEF SameMessages, PrivateInterfaces, RequestRef, RequestPtr, ResponsePtr, NoStreaming
<1>2. CASE ClientOnlyStreaming(m)
  BY <1>2 DEF SameMessages, PrivateInterfaces, RequestRef, RequestPtr, ResponsePtr, NoStreaming,
    ClientOnlyStreaming
<1>3. CASE ServerOnlyStreaming(m)
  BY <1>3 DEF SameMessages, PrivateInterfaces, RequestRef, RequestPtr, ResponsePtr, NoStreaming,
    ClientOnlyStreaming, ServerOnlyStreaming
<1>4. CASE BidiStreaming(m)
  BY <1>4 DEF SameMessages, PrivateInterfaces, RequestRef, RequestPtr, ResponsePtr, NoStreaming,
    ClientOnlyStreaming, ServerOnlyStreaming, BidiStreaming
<1> QED  BY <1>1, <1>2, <1>3, <1>4, FourKinds

\* The callback interface.
LEMMA CallbackInterfacesReads ==
  ASSUME NEW v, NEW w, SameMessages(v, w), NEW m, Kind(m)
  PROVE  CallbackInterfaces(m, v) = CallbackInterfaces(m, w)
<1>1. CASE NoStreaming(m)
  BY <1>1 DEF SameMessages, CallbackInterfaces, RequestRef, RequestPtr, ResponsePtr, NoStreaming
<1>2. CASE ClientOnlyStreaming(m)
  BY <1>2 DEF SameMessages, CallbackInterfaces, RequestRef, RequestPtr, ResponsePtr, NoStreaming,
    ClientOnlyStreaming
<1>3. CASE ServerOnlyStreaming(m)
  BY <1>3 DEF SameMessages, CallbackInterfaces, RequestRef, RequestPtr, ResponsePtr, NoStreaming,
    ClientOnlyStreaming, ServerOnlyStreaming
<1>4. CASE BidiStreaming(m)
  BY <1>4 DEF SameMessages, CallbackInterfaces, RequestRef, RequestPtr, ResponsePtr, NoStreaming,
    ClientOnlyStreaming, ServerOnlyStreaming, BidiStreaming
<1> QED  BY <1>1, <1>2, <1>3, <1>4, FourKinds

\* The stub's wrappers.
LEMMA PublicMethodsReads ==
  ASSUME NEW v, NEW w, SameMessages(v, w), NEW m, Kind(m), NEW cq
  PROVE  PublicMethods(m, v, cq) = PublicMethods(m, w, cq)
<1>1. CASE NoStreaming(m)
  BY <1>1 DEF SameMessages, PublicMethods, RequestRef, RequestPtr, ResponsePtr, NoStreaming
<1>2. CASE ClientOnlyStreaming(m)
  BY <1>2 DEF SameMessages, PublicMethods, RequestRef, RequestPtr, ResponsePtr, NoStreaming,
    ClientOnlyStreaming
<1>3. CASE ServerOnlyStreaming(m)
  BY <1>3 DEF SameMessages, PublicMethods, RequestRef, RequestPtr, ResponsePtr, NoStreaming,
    ClientOnlyStreaming, ServerOnlyStreaming
<1>4. CASE BidiStreaming(m)
  BY <1>4 DEF SameMessages, PublicMethods, RequestRef, RequestPtr, ResponsePtr, NoStreaming,
    ClientOnlyStreaming, ServerOnlyStreaming, BidiStreaming
<1> QED  BY <1>1, <1>2, <1>3, <1>4, FourKinds

\* The stub's overrides.
LEMMA PrivateMethodsReads ==
  ASSUME NEW v, NEW w, SameMessages(v, w), NEW m, Kind(m), NEW cq
  PROVE  PrivateMethods(m, v, cq) = PrivateMethods(m, w, cq)
<1>1. CASE NoStreaming(m)
  BY <1>1 DEF SameMessages, PrivateMethods, RequestRef, RequestPtr, ResponsePtr, NoStreaming
<1>2. CASE ClientOnlyStreaming(m)
  BY <1>2 DEF SameMessages, PrivateMethods, RequestRef, RequestPtr, ResponsePtr, NoStreaming,
    ClientOnlyStreaming
<1>3. CASE ServerOnlyStreaming(m)
  BY <1>3 DEF SameMessages, PrivateMethods, RequestRef, RequestPtr, ResponsePtr, NoStreaming,
    ClientOnlyStreaming, ServerOnlyStreaming
<1>4. CASE BidiStreaming(m)
  BY <1>4 DEF SameMessages, PrivateMethods, RequestRef, RequestPtr, ResponsePtr, NoStreaming,
    ClientOnlyStreaming, ServerOnlyStreaming, BidiStreaming
<1> QED  BY <1>1, <1>2, <1>3, <1>4, FourKinds

\* The stub's callback functions.
LEMMA CallbackMethodsReads ==
  ASSUME NEW v, NEW w, SameMessages(v, w), NEW m, Kind(m)
  PROVE  CallbackMethods(m, v) = CallbackMethods(m, w)
<1>1. CASE NoStreaming(m)
  BY <1>1 DEF SameMessages, CallbackMethods, RequestRef, RequestPtr, ResponsePtr, NoStreaming
<1>2. CASE ClientOnlyStreaming(m)
  BY <1>2 DEF SameMessages, CallbackMethods, RequestRef, RequestPtr, ResponsePtr, NoStreaming,
    ClientOnlyStreaming
<1>3. CASE ServerOnlyStreaming(m)
  BY <1>3 DEF SameMessages, CallbackMethods, RequestRef, RequestPtr, ResponsePtr, NoStreaming,
    ClientOnlyStreaming, ServerOnlyStreaming
<1>4. CASE BidiStreaming(m)
  BY <1>4 DEF SameMessages, CallbackMethods, RequestRef, RequestPtr, ResponsePtr, NoStreaming,
    ClientOnlyStreaming, ServerOnlyStreaming, BidiStreaming
<1> QED  BY <1>1, <1>2, <1>3, <1>4, FourKinds

\* The member of the Service class.
LEMMA SyncMethodReads ==
  ASSUME NEW v, NEW w, SameMessages(v, w), NEW m, Kind(m), NEW sync
  PROVE  SyncMethod(m, v, sync) = SyncMethod(m, w, sync)
<1>1. CASE NoStreaming(m)
  BY <1>1 DEF SameMessages, SyncMethod, RequestRef, RequestPtr, ResponsePtr, Reader, Writer,
    Stream, NoStreaming
<1>2. CASE ClientOnlyStreaming(m)
  BY <1>2 DEF SameMessages, SyncMethod, RequestRef, RequestPtr, ResponsePtr, Reader, Writer,
    Stream, NoStreaming, ClientOnlyStreaming
<1>3. CASE ServerOnlyStreaming(m)
  BY <1>3 DEF SameMessages, SyncMethod, RequestRef, RequestPtr, ResponsePtr, Reader, Writer,
    Stream, NoStreaming, ClientOnlyStreaming, ServerOnlyStreaming
<1>4. CASE BidiStreaming(m)
  BY <1>4 DEF SameMessages, SyncMethod, RequestRef, RequestPtr, ResponsePtr, Reader, Writer,
    Stream, NoStreaming, ClientOnlyStreaming, ServerOnlyStreaming, BidiStreaming
<1> QED  BY <1>1, <1>2, <1>3, <1>4, FourKinds

\* Its override in a mixin.
LEMMA SyncDisabledReads ==
  ASSUME NEW v, NEW w, SameMessages(v, w), NEW m, Kind(m), NEW of
  PROVE  SyncDisabled(of, m, v) = SyncDisabled(of, m, w)
<1>1. CASE NoStreaming(m)
  BY <1>1 DEF SameMessages, SyncDisabled, RequestRef, RequestPtr, ResponsePtr, Reader, Writer,
    Stream, NoStreaming
<1>2. CASE ClientOnlyStreaming(m)
  BY <1>2 DEF SameMessages, SyncDisabled, RequestRef, RequestPtr, ResponsePtr, Reader, Writer,
    Stream, NoStreaming, ClientOnlyStreaming
<1>3. CASE ServerOnlyStreaming(m)
  BY <1>3 DEF SameMessages, SyncDisabled, RequestRef, RequestPtr, ResponsePtr, Reader, Writer,
    Stream, NoStreaming, ClientOnlyStreaming, ServerOnlyStreaming
<1>4. CASE BidiStreaming(m)
  BY <1>4 DEF SameMessages, SyncDisabled, RequestRef, RequestPtr, ResponsePtr, Reader, Writer,
    Stream, NoStreaming, ClientOnlyStreaming, ServerOnlyStreaming, BidiStreaming
<1> QED  BY <1>1, <1>2, <1>3, <1>4, FourKinds

\* What a mixin on the completion queue adds.
LEMMA AsyncHelperReads ==
  ASSUME NEW v, NEW w, SameVars(v, w), NEW m, Kind(m), NEW sync, NEW of
  PROVE  AsyncMethodsHelper(of, m, v, sync) = AsyncMethodsHelper(of, m, w, sync)
<1>1. CASE NoStreaming(m)
  BY <1>1, SyncDisabledReads DEF SameVars, SameSlot, SameMessages, AsyncMethodsHelper, RequestRef,
    RequestPtr, ResponsePtr, NoStreaming
<1>2. CASE ClientOnlyStreaming(m)
  BY <1>2, SyncDisabledReads DEF SameVars, SameSlot, SameMessages, AsyncMethodsHelper, RequestRef,
    RequestPtr, ResponsePtr, NoStreaming, ClientOnlyStreaming
<1>3. CASE ServerOnlyStreaming(m)
  BY <1>3, SyncDisabledReads DEF SameVars, SameSlot, SameMessages, AsyncMethodsHelper, RequestRef,
    RequestPtr, ResponsePtr, NoStreaming, ClientOnlyStreaming, ServerOnlyStreaming
<1>4. CASE BidiStreaming(m)
  BY <1>4, SyncDisabledReads DEF SameVars, SameSlot, SameMessages, AsyncMethodsHelper, RequestRef,
    RequestPtr, ResponsePtr, NoStreaming, ClientOnlyStreaming, ServerOnlyStreaming, BidiStreaming
<1> QED  BY <1>1, <1>2, <1>3, <1>4, FourKinds

\* What a mixin on the callback API adds.
LEMMA CallbackHelperReads ==
  ASSUME NEW v, NEW w, SameVars(v, w), NEW m, Kind(m), NEW sync, NEW of
  PROVE  CallbackMethodsHelper(of, m, v, sync) = CallbackMethodsHelper(of, m, w, sync)
<1>1. CASE NoStreaming(m)
  BY <1>1, SyncDisabledReads DEF SameVars, SameSlot, SameMessages, CallbackMethodsHelper,
    RealRequestPtr, RealResponsePtr, NoStreaming
<1>2. CASE ClientOnlyStreaming(m)
  BY <1>2, SyncDisabledReads DEF SameVars, SameSlot, SameMessages, CallbackMethodsHelper,
    RealRequestPtr, RealResponsePtr, NoStreaming, ClientOnlyStreaming
<1>3. CASE ServerOnlyStreaming(m)
  BY <1>3, SyncDisabledReads DEF SameVars, SameSlot, SameMessages, CallbackMethodsHelper,
    RealRequestPtr, RealResponsePtr, NoStreaming, ClientOnlyStreaming, ServerOnlyStreaming
<1>4. CASE BidiStreaming(m)
  BY <1>4, SyncDisabledReads DEF SameVars, SameSlot, SameMessages, CallbackMethodsHelper,
    RealRequestPtr, RealResponsePtr, NoStreaming, ClientOnlyStreaming, ServerOnlyStreaming,
    BidiStreaming
<1> QED  BY <1>1, <1>2, <1>3, <1>4, FourKinds

\* The mixins, one by one.
LEMMA WithAsyncMethodReads ==
  ASSUME NEW v, NEW w, SameVars(v, w), NEW m, Kind(m), NEW sync
  PROVE  WithAsyncMethod(m, v, sync) = WithAsyncMethod(m, w, sync)
BY AsyncHelperReads DEF SameVars, SameSlot, SameMessages, WithAsyncMethod, Constructor

\* WithRawMethod.
LEMMA WithRawMethodReads ==
  ASSUME NEW v, NEW w, SameVars(v, w), NEW m, Kind(m), NEW sync
  PROVE  WithRawMethod(m, v, sync) = WithRawMethod(m, w, sync)
BY AsyncHelperReads DEF SameVars, SameSlot, SameMessages, WithRawMethod, Constructor

\* WithGenericMethod.
LEMMA WithGenericMethodReads ==
  ASSUME NEW v, NEW w, SameSlot(v, w), NEW m, Kind(m), NEW sync
  PROVE  WithGenericMethod(m, v, sync) = WithGenericMethod(m, w, sync)
BY SyncDisabledReads DEF SameSlot, SameMessages, WithGenericMethod, Constructor

\* WithCallbackMethod.
LEMMA WithCallbackMethodReads ==
  ASSUME NEW v, NEW w, SameVars(v, w), NEW m, Kind(m), NEW sync
  PROVE  WithCallbackMethod(m, v, sync) = WithCallbackMethod(m, w, sync)
<1>1. CASE NoStreaming(m)
  BY <1>1, CallbackHelperReads DEF SameVars, SameSlot, SameMessages, WithCallbackMethod,
    RealRequestPtr, RealResponsePtr, Handling, NoStreaming
<1>2. CASE ClientOnlyStreaming(m)
  BY <1>2, CallbackHelperReads DEF SameVars, SameSlot, SameMessages, WithCallbackMethod,
    RealRequestPtr, RealResponsePtr, Handling, NoStreaming, ClientOnlyStreaming
<1>3. CASE ServerOnlyStreaming(m)
  BY <1>3, CallbackHelperReads DEF SameVars, SameSlot, SameMessages, WithCallbackMethod,
    RealRequestPtr, RealResponsePtr, Handling, NoStreaming, ClientOnlyStreaming, ServerOnlyStreaming
<1>4. CASE BidiStreaming(m)
  BY <1>4, CallbackHelperReads DEF SameVars, SameSlot, SameMessages, WithCallbackMethod,
    RealRequestPtr, RealResponsePtr, Handling, NoStreaming, ClientOnlyStreaming,
    ServerOnlyStreaming, BidiStreaming
<1> QED  BY <1>1, <1>2, <1>3, <1>4, FourKinds

\* WithRawCallbackMethod.
LEMMA WithRawCallbackMethodReads ==
  ASSUME NEW v, NEW w, SameVars(v, w), NEW m, Kind(m), NEW sync
  PROVE  WithRawCallbackMethod(m, v, sync) = WithRawCallbackMethod(m, w, sync)
<1>1. CASE NoStreaming(m)
  BY <1>1, CallbackHelperReads DEF SameVars, SameSlot, SameMessages, WithRawCallbackMethod,
    RealRequestPtr, RealResponsePtr, Handling, NoStreaming
<1>2. CASE ClientOnlyStreaming(m)
  BY <1>2, CallbackHelperReads DEF SameVars, SameSlot, SameMessages, WithRawCallbackMethod,
    RealRequestPtr, RealResponsePtr, Handling, NoStreaming, ClientOnlyStreaming
<1>3. CASE ServerOnlyStreaming(m)
  BY <1>3, CallbackHelperReads DEF SameVars, SameSlot, SameMessages, WithRawCallbackMethod,
    RealRequestPtr, RealResponsePtr, Handling, NoStreaming, ClientOnlyStreaming, ServerOnlyStreaming
<1>4. CASE BidiStreaming(m)
  BY <1>4, CallbackHelperReads DEF SameVars, SameSlot, SameMessages, WithRawCallbackMethod,
    RealRequestPtr, RealResponsePtr, Handling, NoStreaming, ClientOnlyStreaming,
    ServerOnlyStreaming, BidiStreaming
<1> QED  BY <1>1, <1>2, <1>3, <1>4, FourKinds

\* WithStreamedUnaryMethod.
LEMMA WithStreamedUnaryMethodReads ==
  ASSUME NEW v, NEW w, SameSlot(v, w), NEW m, Kind(m)
  PROVE  WithStreamedUnaryMethod(m, v) = WithStreamedUnaryMethod(m, w)
BY DEF SameSlot, SameMessages, WithStreamedUnaryMethod, Streamed, Handling, RequestPtr,
  ResponsePtr, Writer

\* WithSplitStreamingMethod.
LEMMA WithSplitStreamingMethodReads ==
  ASSUME NEW v, NEW w, SameSlot(v, w), NEW m, Kind(m)
  PROVE  WithSplitStreamingMethod(m, v) = WithSplitStreamingMethod(m, w)
BY DEF SameSlot, SameMessages, WithSplitStreamingMethod, Streamed, Handling, RequestPtr,
  ResponsePtr, Writer

\* An entry of the method table.
LEMMA AddMethodReads ==
  ASSUME NEW v, NEW w, SameSlot(v, w), NEW m, Kind(m)
  PROVE  AddMethod(m, v) = AddMethod(m, w)
<1>1. CASE NoStreaming(m)
  BY <1>1 DEF SameSlot, SameMessages, AddMethod, RequestRef, RequestPtr, ResponsePtr, Reader,
    Writer, Stream, NoStreaming
<1>2. CASE ClientOnlyStreaming(m)
  BY <1>2 DEF SameSlot, SameMessages, AddMethod, RequestRef, RequestPtr, ResponsePtr, Reader,
    Writer, Stream, NoStreaming, ClientOnlyStreaming
<1>3. CASE ServerOnlyStreaming(m)
  BY <1>3 DEF SameSlot, SameMessages, AddMethod, RequestRef, RequestPtr, ResponsePtr, Reader,
    Writer, Stream, NoStreaming, ClientOnlyStreaming, ServerOnlyStreaming
<1>4. CASE BidiStreaming(m)
  BY <1>4 DEF SameSlot, SameMessages, AddMethod, RequestRef, RequestPtr, ResponsePtr, Reader,
    Writer, Stream, NoStreaming, ClientOnlyStreaming, ServerOnlyStreaming, BidiStreaming
<1> QED  BY <1>1, <1>2, <1>3, <1>4, FourKinds

\* The stub's definitions.
LEMMA SourceClientReads ==
  ASSUME NEW v, NEW w, SameMessages(v, w), NEW m, Kind(m), NEW cq
  PROVE  SourceClientMethod(m, v, cq) = SourceClientMethod(m, w, cq)
<1>1. CASE NoStreaming(m)
  BY <1>1 DEF SameMessages, SourceClientMethod, RequestRef, RequestPtr, ResponsePtr, SourceUnary,
    SourceStreaming, RpcMethod, Defined, NoStreaming
<1>2. CASE ClientOnlyStreaming(m)
  BY <1>2 DEF SameMessages, SourceClientMethod, RequestRef, RequestPtr, ResponsePtr, SourceUnary,
    SourceStreaming, RpcMethod, Defined, NoStreaming, ClientOnlyStreaming
<1>3. CASE ServerOnlyStreaming(m)
  BY <1>3 DEF SameMessages, SourceClientMethod, RequestRef, RequestPtr, ResponsePtr, SourceUnary,
    SourceStreaming, RpcMethod, Defined, NoStreaming, ClientOnlyStreaming, ServerOnlyStreaming
<1>4. CASE BidiStreaming(m)
  BY <1>4 DEF SameMessages, SourceClientMethod, RequestRef, RequestPtr, ResponsePtr, SourceUnary,
    SourceStreaming, RpcMethod, Defined, NoStreaming, ClientOnlyStreaming, ServerOnlyStreaming,
    BidiStreaming
<1> QED  BY <1>1, <1>2, <1>3, <1>4, FourKinds

\* The Service class's default implementations.
LEMMA SourceServerReads ==
  ASSUME NEW v, NEW w, SameMessages(v, w), NEW m, Kind(m), NEW sync
  PROVE  SourceServerMethod(m, v, sync) = SourceServerMethod(m, w, sync)
<1>1. CASE NoStreaming(m)
  BY <1>1 DEF SameMessages, SourceServerMethod, RequestRef, RequestPtr, ResponsePtr, Reader,
    Writer, Stream, NoStreaming
<1>2. CASE ClientOnlyStreaming(m)
  BY <1>2 DEF SameMessages, SourceServerMethod, RequestRef, RequestPtr, ResponsePtr, Reader,
    Writer, Stream, NoStreaming, ClientOnlyStreaming
<1>3. CASE ServerOnlyStreaming(m)
  BY <1>3 DEF SameMessages, SourceServerMethod, RequestRef, RequestPtr, ResponsePtr, Reader,
    Writer, Stream, NoStreaming, ClientOnlyStreaming, ServerOnlyStreaming
<1>4. CASE BidiStreaming(m)
  BY <1>4 DEF SameMessages, SourceServerMethod, RequestRef, RequestPtr, ResponsePtr, Reader,
    Writer, Stream, NoStreaming, ClientOnlyStreaming, ServerOnlyStreaming, BidiStreaming
<1> QED  BY <1>1, <1>2, <1>3, <1>4, FourKinds

\* The mock.
LEMMA MockMethodsReads ==
  ASSUME NEW v, NEW w, SameMessages(v, w), NEW m, Kind(m), NEW cq
  PROVE  MockMethods(m, v, cq) = MockMethods(m, w, cq)
<1>1. CASE NoStreaming(m)
  BY <1>1 DEF SameMessages, MockMethods, RequestRef, RequestPtr, ResponsePtr, MockMethod,
    NoStreaming
<1>2. CASE ClientOnlyStreaming(m)
  BY <1>2 DEF SameMessages, MockMethods, RequestRef, RequestPtr, ResponsePtr, MockMethod,
    NoStreaming, ClientOnlyStreaming
<1>3. CASE ServerOnlyStreaming(m)
  BY <1>3 DEF SameMessages, MockMethods, RequestRef, RequestPtr, ResponsePtr, MockMethod,
    NoStreaming, ClientOnlyStreaming, ServerOnlyStreaming
<1>4. CASE BidiStreaming(m)
  BY <1>4 DEF SameMessages, MockMethods, RequestRef, RequestPtr, ResponsePtr, MockMethod,
    NoStreaming, ClientOnlyStreaming, ServerOnlyStreaming, BidiStreaming
<1> QED  BY <1>1, <1>2, <1>3, <1>4, FourKinds

-----------------------------------------------------------------------------
(* What a turn prints is what it owes.                                     *)

\* The variables each printer leaves in the map, compared with fresh ones.
LEMMA VarsAreFresh ==
  ASSUME DOMAIN tpl = DOMAIN InitialVars
  PROVE  LET v == Fresh(service, method) IN
         /\ SameMessages(MethodVars(tpl, Current), v)
         /\ SameSlot(MethodVars(WithIdx(tpl), Current), v)
         /\ SameVars(TypedVars(WithIdx(tpl), Current), v)
         /\ SameVars(RawVars(WithIdx(tpl), Current), FreshRaw(service, method))
BY DEF SameMessages, SameSlot, SameVars, MethodVars, TypedVars, RawVars, WithIdx, Fresh, FreshRaw,
       InitialVars, Current

\* Every printer leaves the scope of its unit in the map.
LEMMA ScopeKept ==
  ASSUME DOMAIN tpl = DOMAIN InitialVars
  PROVE  /\ MethodVars(tpl, Current).ns = tpl.ns /\ MethodVars(WithIdx(tpl), Current).ns = tpl.ns
         /\ TypedVars(WithIdx(tpl), Current).ns = tpl.ns /\ RawVars(WithIdx(tpl), Current).ns = tpl.ns
         /\ \A name : /\ [tpl EXCEPT !.Method = name].ns = tpl.ns
                       /\ [WithIdx(tpl) EXCEPT !.Method = name].ns = tpl.ns
                       /\ [tpl EXCEPT !.Service = name].ns = tpl.ns
BY DEF MethodVars, TypedVars, RawVars, WithIdx, InitialVars

\* What the loops of the client owe.
LEMMA ClientDue ==
  ASSUME NEW s, NEW k
  PROVE  LET m == Methods(s)[k]
             v == Fresh(s, k) IN
         /\ DueAt("Interfaces", s, k) = PublicInterfaces(m, v, Cq)
         /\ DueAt("CallbackInterfaces", s, k) = CallbackInterfaces(m, v)
         /\ DueAt("RawInterfaces", s, k) = PrivateInterfaces(m, v, Cq)
         /\ DueAt("Methods", s, k) = PublicMethods(m, v, Cq)
         /\ DueAt("Callback", s, k) = CallbackMethods(m, v)
         /\ DueAt("RawMethods", s, k) = PrivateMethods(m, v, Cq)
         /\ DueAt("Data", s, k) = MethodData(v)
         /\ DueAt("Inits", s, k) = {OnSlot(Decl(Stub, RpcMethod(v), <<>>, <<StreamingType(m)>>, "init"), k)}
         /\ DueAt("SourceClient", s, k) = SourceClientMethod(m, v, Cq)
         /\ DueAt("MockMethods", s, k) = MockMethods(m, v, Cq)
BY DEF DueAt

\* What those of the server owe.
LEMMA ServerDue ==
  ASSUME NEW s, NEW k
  PROVE  LET m == Methods(s)[k]
             v == Fresh(s, k) IN
         /\ DueAt("Sync", s, k) = SyncMethod(m, v, Sync)
         /\ DueAt("Async", s, k) = WithAsyncMethod(m, v, Sync)
         /\ DueAt("ServerCallback", s, k) = WithCallbackMethod(m, v, Sync)
         /\ DueAt("Generic", s, k) = WithGenericMethod(m, v, Sync)
         /\ DueAt("Raw", s, k) = WithRawMethod(m, FreshRaw(s, k), Sync)
         /\ DueAt("RawCallback", s, k) = WithRawCallbackMethod(m, FreshRaw(s, k), Sync)
         /\ DueAt("StreamedUnary", s, k) = WithStreamedUnaryMethod(m, v)
         /\ DueAt("SplitStreaming", s, k) = WithSplitStreamingMethod(m, v)
         /\ DueAt("SourceServer", s, k) = SourceServerMethod(m, v, Sync)
BY DEF DueAt

\* The loops that fill a table or print typedefs.
SilentLoops ==
  {"AsyncService", "EndAsyncService", "CallbackService", "EndCallbackService", "StreamedUnaryService",
   "EndStreamedUnaryService", "SplitStreamedService", "EndSplitStreamedService", "StreamedService",
   "EndStreamedService", "Names", "Adds"}

\* They declare nothing.
LEMMA NothingDue ==
  ASSUME NEW l \in SilentLoops, NEW s, NEW k
  PROVE  DueAt(l, s, k) = {}
BY DEF DueAt, SilentLoops

\* The names of all loops.
AllLoops ==
  {"Interfaces", "CallbackInterfaces", "RawInterfaces", "Methods", "Callback", "RawMethods",
   "Data", "Sync", "Async", "ServerCallback", "Generic", "Raw", "RawCallback", "StreamedUnary",
   "SplitStreaming", "Inits", "SourceClient", "SourceServer", "MockMethods"} \cup SilentLoops

\* The loops of each unit.
LEMMA LoopsOfUnit ==
  LoopsOf("header") = HeaderLoops /\ LoopsOf("source") = SourceLoops /\ LoopsOf("mock") = MockLoops
BY DEF LoopsOf

\* Which are the loops' names.
LEMMA LoopsNamed ==
  ASSUME NEW u \in Units, NEW n \in DOMAIN LoopsOf(u)
  PROVE  LoopsOf(u)[n] \in AllLoops
<1>1. CASE u = "header"
  <2>1. LoopsOf(u) = HeaderLoops  BY <1>1, LoopsOfUnit
  <2> QED  BY <2>1 DEF HeaderLoops, AllLoops, SilentLoops
<1>2. CASE u = "source"
  <2>1. LoopsOf(u) = SourceLoops  BY <1>2, LoopsOfUnit
  <2> QED  BY <2>1 DEF SourceLoops, AllLoops, SilentLoops
<1>3. CASE u = "mock"
  <2>1. LoopsOf(u) = MockLoops  BY <1>3, LoopsOfUnit
  <2> QED  BY <2>1 DEF MockLoops, AllLoops
<1> QED  BY <1>1, <1>2, <1>3 DEF Units

\* Every declaration that is due has the fields of one.
LEMMA DueFormed ==
  ASSUME IInv, NEW s \in DOMAIN file.services, NEW k \in DOMAIN Methods(s), NEW l \in AllLoops
  PROVE  \A d \in DueAt(l, s, k) : DOMAIN d = Fields
<1> DEFINE m == Methods(s)[k]
           v == Fresh(s, k)
           raw == FreshRaw(s, k)
<1>1. Kind(m) /\ Cq \in BOOLEAN /\ Sync \in BOOLEAN
  <2>1. Methods(s) \in Seq(MethodRecords)  BY FileTypes DEF IInv
  <2>2. m \in MethodRecords  BY <2>1
  <2> QED  BY <2>2 DEF IInv, TypeOK, Kind, MethodRecords, Cq, Sync, Flags
<1> HIDE DEF m, v, raw
<1>2. ASSUME NEW d \in UNION {PublicInterfaces(m, v, Cq), PrivateInterfaces(m, v, Cq), CallbackInterfaces(m, v),
                              PublicMethods(m, v, Cq), PrivateMethods(m, v, Cq), CallbackMethods(m, v),
                              SyncMethod(m, v, Sync)}
      PROVE  DOMAIN d = Fields
  BY <1>1, <1>2, PublicInterfacesUnmarked, PrivateInterfacesUnmarked, CallbackInterfacesUnmarked,
     PublicMethodsUnmarked, PrivateMethodsUnmarked, CallbackMethodsUnmarked, SyncMethodUnmarked
     DEF Unmarked
<1>3. ASSUME NEW d \in MethodData(v)  PROVE DOMAIN d = Fields
  BY <1>3, DeclShape DEF MethodData
<1>4. ASSUME NEW d \in UNION {WithAsyncMethod(m, v, Sync), WithCallbackMethod(m, v, Sync), WithGenericMethod(m, v, Sync),
                              WithRawMethod(m, raw, Sync), WithRawCallbackMethod(m, raw, Sync),
                              WithStreamedUnaryMethod(m, v), WithSplitStreamingMethod(m, v)}
      PROVE  DOMAIN d = Fields
  BY <1>1, <1>4, WithAsyncMethodMarked, WithCallbackMethodMarked, WithGenericMethodMarked,
     WithRawMethodMarked, WithRawCallbackMethodMarked, WithStreamedUnaryMethodMarked,
     WithSplitStreamingMethodMarked DEF Marked
<1>5. ASSUME NEW d \in UNION {SourceClientMethod(m, v, Cq), SourceServerMethod(m, v, Sync), MockMethods(m, v, Cq)}
      PROVE  DOMAIN d = Fields
  BY <1>1, <1>5, SourceClientFormed, SourceServerFormed, MockMethodsFormed DEF Formed
<1>6. DOMAIN OnSlot(Decl(Stub, RpcMethod(v), <<>>, <<StreamingType(m)>>, "init"), k) = Fields
  BY DeclShape, OnSlotShape
<1> QED  BY <1>2, <1>3, <1>4, <1>5, <1>6, ClientDue, ServerDue, NothingDue DEF AllLoops, m, v, raw

\* And what a service declares before its loops.
LEMMA FirstFormed ==
  ASSUME NEW u \in Units, NEW s
  PROVE  \A d \in DueFirst(u, s) : DOMAIN d = Fields
BY HeaderFixedShape, SourceFixedShape DEF DueFirst, Units

\* Where a declaration is placed.
LEMMA PlacedShape ==
  ASSUME NEW due, \A d \in due : DOMAIN d = Fields, NEW u, NEW s, NEW k
  PROVE  \A e \in Placed(due, u, s, k) : e.unit = u /\ e.service = s /\ e.method = k
BY DEF Placed, Fields

\* What is due depends on the .proto and the options alone.
LEMMA SameDue ==
  ASSUME UNCHANGED <<file, flags, texts>>
  PROVE  /\ \A u, s : DueFirst(u, s)' = DueFirst(u, s)
         /\ \A l, s, k : DueAt(l, s, k)' = DueAt(l, s, k)
         /\ \A u, s : Placed(DueFirst(u, s), u, s, 0)' = Placed(DueFirst(u, s), u, s, 0)
         /\ \A l, u, s, k : Placed(DueAt(l, s, k), u, s, k)' = Placed(DueAt(l, s, k), u, s, k)
         /\ \A l : Allowed(l)' <=> Allowed(l)
         /\ \A s : Methods(s)' = Methods(s)
         /\ \A s, k : Fresh(s, k)' = Fresh(s, k)
<1>1. Namespace' = Namespace /\ Cq' = Cq /\ Sync' = Sync  BY DEF Namespace, Cq, Sync
<1>2. \A s : Methods(s)' = Methods(s) /\ ServiceName(s)' = ServiceName(s)
  BY DEF Methods, ServiceName
<1>3. \A s, k : Fresh(s, k)' = Fresh(s, k) /\ FreshRaw(s, k)' = FreshRaw(s, k)
  BY <1>2 DEF Fresh, FreshRaw
<1>4. \A u : Scope(u)' = Scope(u)  BY <1>1 DEF Scope
<1>5. \A u, s : DueFirst(u, s)' = DueFirst(u, s)  BY Zenon, <1>2 DEF DueFirst
<1>6. ASSUME NEW l, NEW s, NEW k  PROVE DueAt(l, s, k)' = DueAt(l, s, k)
  <2>1. Methods(s)' = Methods(s) /\ Fresh(s, k)' = Fresh(s, k) /\ FreshRaw(s, k)' = FreshRaw(s, k)
    BY <1>2, <1>3
  <2> QED  BY Zenon, <1>1, <2>1 DEF DueAt
<1>7. \A u, s : Placed(DueFirst(u, s), u, s, 0)' = Placed(DueFirst(u, s), u, s, 0)
  BY <1>4, <1>5 DEF Placed
<1>8. \A l, u, s, k : Placed(DueAt(l, s, k), u, s, k)' = Placed(DueAt(l, s, k), u, s, k)
  BY <1>4, <1>6 DEF Placed
<1>9. \A l : Allowed(l)' <=> Allowed(l)  BY SMT, <1>1 DEF Allowed
<1> QED  BY <1>2, <1>3, <1>5, <1>6, <1>7, <1>8, <1>9

\* Their numbers.
LEMMA LoopsOfTypes ==
  /\ DOMAIN LoopsOf("header") = 1 .. 25 /\ DOMAIN LoopsOf("source") = 1 .. 5
  /\ DOMAIN LoopsOf("mock") = 1 .. 1 /\ \A u \in Units : DOMAIN LoopsOf(u) \subseteq Nat \ {0}
<1>1. DOMAIN LoopsOf("header") = 1 .. 25  BY LoopsOfUnit DEF HeaderLoops
<1>2. DOMAIN LoopsOf("source") = 1 .. 5  BY LoopsOfUnit DEF SourceLoops
<1>3. DOMAIN LoopsOf("mock") = 1 .. 1  BY LoopsOfUnit DEF MockLoops
<1> QED  BY <1>1, <1>2, <1>3 DEF Units

-----------------------------------------------------------------------------
(* The steps.                                                              *)

\* What was added stays what it was.
LEMMA AddsSame ==
  ASSUME TurnsOK, UNCHANGED <<file, adds>>
  PROVE  AddsDue'
<1>1. \A s, k : Methods(s)' = Methods(s) /\ Fresh(s, k)' = Fresh(s, k)
  BY DEF Methods, Fresh
<1>2. \A s, k : AddMethod(Methods(s)[k], Fresh(s, k))' = AddMethod(Methods(s)[k], Fresh(s, k))
  BY <1>1
<1> QED  BY <1>1, <1>2 DEF TurnsOK, AddsDue

\* A step that declares nothing and passes no turn that owes something.
LEMMA NoneDue ==
  ASSUME TurnsOK, UNCHANGED <<file, flags, texts, decls>>, ScopesOK', AddsDue',
         \A u \in Units, s \in DOMAIN file.services :
           /\ Turned(u, s, 0, 0)' => Turned(u, s, 0, 0)
           /\ \A n \in DOMAIN LoopsOf(u), k \in DOMAIN Methods(s) :
                Turned(u, s, n, k)' /\ Allowed(LoopsOf(u)[n])
                  => Turned(u, s, n, k) \/ DueAt(LoopsOf(u)[n], s, k) = {}
  PROVE  TurnsOK'
<1>1. /\ \A u, s : DueFirst(u, s)' = DueFirst(u, s)
      /\ \A l, s, k : DueAt(l, s, k)' = DueAt(l, s, k)
      /\ \A u, s : Placed(DueFirst(u, s), u, s, 0)' = Placed(DueFirst(u, s), u, s, 0)
      /\ \A l, u, s, k : Placed(DueAt(l, s, k), u, s, k)' = Placed(DueAt(l, s, k), u, s, k)
      /\ \A l : Allowed(l)' <=> Allowed(l)
      /\ \A s : Methods(s)' = Methods(s)
      /\ \A s, k : Fresh(s, k)' = Fresh(s, k)
  BY SameDue
<1>2. TurnsKept'
  <2>1. ASSUME NEW u \in Units, NEW s \in DOMAIN file.services, Turned(u, s, 0, 0)'
        PROVE  Placed(DueFirst(u, s), u, s, 0)' \subseteq decls'
    BY <1>1, <2>1 DEF TurnsOK, TurnsKept
  <2>2. ASSUME NEW u \in Units, NEW s \in DOMAIN file.services, NEW n \in DOMAIN LoopsOf(u),
               NEW k \in DOMAIN Methods(s), Turned(u, s, n, k)', Allowed(LoopsOf(u)[n])
        PROVE  Placed(DueAt(LoopsOf(u)[n], s, k), u, s, k)' \subseteq decls'
    <3>1. CASE Turned(u, s, n, k)  BY <1>1, <2>2, <3>1 DEF TurnsOK, TurnsKept
    <3>2. CASE DueAt(LoopsOf(u)[n], s, k) = {}  BY <1>1, <3>2 DEF Placed
    <3> QED  BY <2>2, <3>1, <3>2
  <2> QED  BY <1>1, <2>1, <2>2 DEF TurnsKept
<1>3. NothingElse'  BY <1>1 DEF TurnsOK, NothingElse
<1> QED  BY <1>2, <1>3 DEF TurnsOK

\* Where a turn is, in terms of the loops of its unit.
LEMMA PlaceOf ==
  ASSUME IInv, Printing
  PROVE  /\ unit \in Units /\ service \in DOMAIN file.services /\ service \in Nat /\ loop \in Nat /\ method \in Nat
         /\ Loops = LoopsOf(unit) /\ DOMAIN tpl = DOMAIN InitialVars
         /\ DOMAIN Loops = 1 .. Len(Loops) /\ Len(Loops) \in Nat
         /\ DOMAIN Methods(service) = 1 .. Len(Methods(service)) /\ Len(Methods(service)) \in Nat
         /\ \A s \in DOMAIN file.services : s \in Nat /\ DOMAIN Methods(s) \subseteq Nat \ {0}
<1>1. \A s \in DOMAIN file.services : s \in Nat /\ DOMAIN Methods(s) \subseteq Nat \ {0}
  BY SMTT(30), FileTypes DEF IInv
<1> QED  BY <1>1, PlaceTypes DEF Loops

\* A turn that declares what it owes.
LEMMA PrintsDue ==
  ASSUME IInv, TurnsOK, NEW l, At(l), NEW v, v.ns = tpl.ns,
         NEW printed, printed = DueAt(l, service, method), Prints(v, printed)
  PROVE  TurnsOK'
<1>1. /\ tpl' = v /\ method' = method + 1 /\ decls' = decls \cup Stamped(printed)
      /\ UNCHANGED <<file, flags, texts, unit, service, loop, written, adds>>
  BY DEF Prints, Turn, inputVars, fileVars
<1>2. /\ Printing /\ loop \in DOMAIN Loops /\ Loops[loop] = l /\ Allowed(l)
      /\ method \in DOMAIN Methods(service)
  BY DEF At
<1>3. /\ unit \in Units /\ service \in DOMAIN file.services /\ Loops = LoopsOf(unit) /\ method \in Nat
      /\ loop \in Nat \ {0}
      /\ \A s \in DOMAIN file.services : s \in Nat /\ DOMAIN Methods(s) \subseteq Nat \ {0}
  BY <1>2, PlaceOf, AtTypes
<1> DEFINE new == Placed(DueAt(l, service, method), unit, service, method)
<1>4. decls' = decls \cup new
  <2>1. tpl.ns = Scope(unit)  BY <1>3 DEF TurnsOK, ScopesOK
  <2> QED  BY <1>1, <2>1 DEF Stamped, Placed
<1>5. \A e \in new : e.unit = unit /\ e.service = service /\ e.method = method
  <2>1. l \in AllLoops  BY <1>2, <1>3, LoopsNamed
  <2>2. \A d \in DueAt(l, service, method) : DOMAIN d = Fields  BY <1>2, <1>3, <2>1, DueFormed
  <2> QED  BY <2>2, PlacedShape
<1>6. /\ \A u, s : Placed(DueFirst(u, s), u, s, 0)' = Placed(DueFirst(u, s), u, s, 0)
      /\ \A m, u, s, k : Placed(DueAt(m, s, k), u, s, k)' = Placed(DueAt(m, s, k), u, s, k)
      /\ \A m : Allowed(m)' <=> Allowed(m)
      /\ \A s : Methods(s)' = Methods(s)
      /\ \A s, k : Fresh(s, k)' = Fresh(s, k)
  BY <1>1, SameDue
<1>7. ScopesOK'
  <2>1. Scope(unit)' = Scope(unit)  BY <1>1 DEF Scope, Namespace
  <2> QED  BY <1>1, <1>3, <2>1 DEF ScopesOK, TurnsOK, Units
<1>8. TurnsKept'
  <2>1. ASSUME NEW u \in Units, NEW s \in DOMAIN file.services, Turned(u, s, 0, 0)'
        PROVE  Placed(DueFirst(u, s), u, s, 0) \subseteq decls
    <3>1. Turned(u, s, 0, 0)  BY <1>1, <1>3, <2>1 DEF Turned
    <3> QED  BY <3>1 DEF TurnsOK, TurnsKept
  <2>2. ASSUME NEW u \in Units, NEW s \in DOMAIN file.services, NEW n \in DOMAIN LoopsOf(u),
               NEW k \in DOMAIN Methods(s), Turned(u, s, n, k)', Allowed(LoopsOf(u)[n])
        PROVE  Placed(DueAt(LoopsOf(u)[n], s, k), u, s, k) \subseteq decls \cup new
    <3>1. n \in Nat /\ k \in Nat /\ s \in Nat  BY <1>3, LoopsOfTypes
    <3>2. CASE Turned(u, s, n, k)  BY <2>2, <3>2 DEF TurnsOK, TurnsKept
    <3>3. CASE ~Turned(u, s, n, k)
      <4>1. u = unit /\ s = service /\ n = loop /\ k = method
        BY <1>1, <1>3, <2>2, <3>1, <3>3 DEF Turned
      <4> QED  BY <1>2, <1>3, <4>1
    <3> QED  BY <3>2, <3>3
  <2> QED  BY <1>1, <1>4, <1>6, <2>1, <2>2 DEF TurnsKept
<1>9. NothingElse'
  <2>1. ASSUME NEW d \in decls \cup new
        PROVE  /\ d.unit \in Units /\ d.service \in DOMAIN file.services
               /\ \/ d \in Placed(DueFirst(d.unit, d.service), d.unit, d.service, 0)
                  \/ /\ d.method \in DOMAIN Methods(d.service)
                     /\ \E n \in DOMAIN LoopsOf(d.unit) :
                          /\ Allowed(LoopsOf(d.unit)[n])
                          /\ d \in Placed(DueAt(LoopsOf(d.unit)[n], d.service, d.method), d.unit, d.service, d.method)
    <3>1. CASE d \in decls  BY <3>1 DEF TurnsOK, NothingElse
    <3>2. CASE d \in new
      <4>1. d.unit = unit /\ d.service = service /\ d.method = method  BY <1>5, <3>2
      <4> QED  BY <1>2, <1>3, <3>2, <4>1
    <3> QED  BY <2>1, <3>1, <3>2
  <2> QED  BY <1>1, <1>4, <1>6, <2>1 DEF NothingElse
<1>10. AddsDue'  BY <1>1, AddsSame
<1> QED  BY <1>7, <1>8, <1>9, <1>10 DEF TurnsOK

\* What the client's printers print is due.
LEMMA ClientPrints ==
  ASSUME IInv, NEW l, At(l)
  PROVE  LET v == MethodVars(tpl, Current)
             w == MethodVars(WithIdx(tpl), Current) IN
         /\ PublicInterfaces(Current, v, Cq) = DueAt("Interfaces", service, method)
         /\ PrivateInterfaces(Current, v, Cq) = DueAt("RawInterfaces", service, method)
         /\ CallbackInterfaces(Current, v) = DueAt("CallbackInterfaces", service, method)
         /\ PublicMethods(Current, v, Cq) = DueAt("Methods", service, method)
         /\ PrivateMethods(Current, v, Cq) = DueAt("RawMethods", service, method)
         /\ CallbackMethods(Current, v) = DueAt("Callback", service, method)
         /\ SourceClientMethod(Current, w, Cq) = DueAt("SourceClient", service, method)
         /\ MockMethods(Current, v, Cq) = DueAt("MockMethods", service, method)
<1> DEFINE v == MethodVars(tpl, Current)
           w == MethodVars(WithIdx(tpl), Current)
           f == Fresh(service, method)
<1>1. DOMAIN tpl = DOMAIN InitialVars /\ Kind(Current)  BY AtTypes
<1>2. SameMessages(v, f) /\ SameMessages(w, f)  BY <1>1, VarsAreFresh DEF SameSlot
<1>3. Current = Methods(service)[method]  BY DEF Current
<1> HIDE DEF v, w, f
<1>4. /\ PublicInterfaces(Current, v, Cq) = PublicInterfaces(Current, f, Cq)
      /\ PrivateInterfaces(Current, v, Cq) = PrivateInterfaces(Current, f, Cq)
      /\ CallbackInterfaces(Current, v) = CallbackInterfaces(Current, f)
      /\ PublicMethods(Current, v, Cq) = PublicMethods(Current, f, Cq)
      /\ PrivateMethods(Current, v, Cq) = PrivateMethods(Current, f, Cq)
      /\ CallbackMethods(Current, v) = CallbackMethods(Current, f)
      /\ SourceClientMethod(Current, w, Cq) = SourceClientMethod(Current, f, Cq)
      /\ MockMethods(Current, v, Cq) = MockMethods(Current, f, Cq)
  BY <1>1, <1>2, PublicInterfacesReads, PrivateInterfacesReads, CallbackInterfacesReads,
    PublicMethodsReads,
     PrivateMethodsReads, CallbackMethodsReads, SourceClientReads, MockMethodsReads
<1> QED  BY <1>3, <1>4, ClientDue DEF v, w, f

\* What the server's printers print is due.
LEMMA ServerPrints ==
  ASSUME IInv, NEW l, At(l)
  PROVE  LET v == MethodVars(tpl, Current)
             w == MethodVars(WithIdx(tpl), Current)
             t == TypedVars(WithIdx(tpl), Current)
             r == RawVars(WithIdx(tpl), Current) IN
         /\ SyncMethod(Current, v, Sync) = DueAt("Sync", service, method)
         /\ WithAsyncMethod(Current, t, Sync) = DueAt("Async", service, method)
         /\ WithCallbackMethod(Current, t, Sync) = DueAt("ServerCallback", service, method)
         /\ WithGenericMethod(Current, w, Sync) = DueAt("Generic", service, method)
         /\ WithRawMethod(Current, r, Sync) = DueAt("Raw", service, method)
         /\ WithRawCallbackMethod(Current, r, Sync) = DueAt("RawCallback", service, method)
         /\ WithStreamedUnaryMethod(Current, w) = DueAt("StreamedUnary", service, method)
         /\ WithSplitStreamingMethod(Current, w) = DueAt("SplitStreaming", service, method)
         /\ SourceServerMethod(Current, w, Sync) = DueAt("SourceServer", service, method)
         /\ AddMethod(Current, w) = AddMethod(Current, Fresh(service, method))
<1> DEFINE v == MethodVars(tpl, Current)
           w == MethodVars(WithIdx(tpl), Current)
           t == TypedVars(WithIdx(tpl), Current)
           r == RawVars(WithIdx(tpl), Current)
           f == Fresh(service, method)
           g == FreshRaw(service, method)
<1>1. DOMAIN tpl = DOMAIN InitialVars /\ Kind(Current)  BY AtTypes
<1>2. SameMessages(v, f) /\ SameMessages(w, f) /\ SameSlot(w, f) /\ SameVars(t, f) /\ SameVars(r, g)
  BY <1>1, VarsAreFresh DEF SameSlot
<1>3. Current = Methods(service)[method]  BY DEF Current
<1> HIDE DEF v, w, t, r, f, g
<1>4. /\ SyncMethod(Current, v, Sync) = SyncMethod(Current, f, Sync)
      /\ WithAsyncMethod(Current, t, Sync) = WithAsyncMethod(Current, f, Sync)
      /\ WithCallbackMethod(Current, t, Sync) = WithCallbackMethod(Current, f, Sync)
      /\ WithGenericMethod(Current, w, Sync) = WithGenericMethod(Current, f, Sync)
      /\ WithRawMethod(Current, r, Sync) = WithRawMethod(Current, g, Sync)
      /\ WithRawCallbackMethod(Current, r, Sync) = WithRawCallbackMethod(Current, g, Sync)
      /\ WithStreamedUnaryMethod(Current, w) = WithStreamedUnaryMethod(Current, f)
      /\ WithSplitStreamingMethod(Current, w) = WithSplitStreamingMethod(Current, f)
      /\ SourceServerMethod(Current, w, Sync) = SourceServerMethod(Current, f, Sync)
      /\ AddMethod(Current, w) = AddMethod(Current, f)
  BY <1>1, <1>2, SyncMethodReads, WithAsyncMethodReads, WithCallbackMethodReads,
    WithGenericMethodReads,
     WithRawMethodReads, WithRawCallbackMethodReads, WithStreamedUnaryMethodReads,
     WithSplitStreamingMethodReads, SourceServerReads, AddMethodReads
<1> QED  BY <1>3, <1>4, ServerDue DEF v, w, t, r, f, g

\* The printers of the client, one by one.
LEMMA PrintHeaderClientMethodInterfacesDue ==
  ASSUME IInv, TurnsOK, PrintHeaderClientMethodInterfaces
  PROVE  TurnsOK'
<1> DEFINE v == MethodVars(tpl, Current)
<1>1. CASE At("Interfaces") /\ Prints(v, PublicInterfaces(Current, v, Cq))
  <2>1. v.ns = tpl.ns  BY <1>1, AtTypes, ScopeKept
  <2>2. PublicInterfaces(Current, v, Cq) = DueAt("Interfaces", service, method)
    BY <1>1, ClientPrints
  <2> HIDE DEF v
  <2> QED  BY <1>1, <2>1, <2>2, PrintsDue
<1>2. CASE At("RawInterfaces") /\ Prints(v, PrivateInterfaces(Current, v, Cq))
  <2>1. v.ns = tpl.ns  BY <1>2, AtTypes, ScopeKept
  <2>2. PrivateInterfaces(Current, v, Cq) = DueAt("RawInterfaces", service, method)
    BY <1>2, ClientPrints
  <2> HIDE DEF v
  <2> QED  BY <1>2, <2>1, <2>2, PrintsDue
<1> QED  BY <1>1, <1>2 DEF PrintHeaderClientMethodInterfaces

\* PrintHeaderClientMethodCallbackInterfaces adds what its turn is due, and nothing else.
LEMMA PrintHeaderClientMethodCallbackInterfacesDue ==
  ASSUME IInv, TurnsOK, PrintHeaderClientMethodCallbackInterfaces
  PROVE  TurnsOK'
<1> DEFINE v == MethodVars(tpl, Current)
<1>1. CASE At("CallbackInterfaces") /\ Prints(v, CallbackInterfaces(Current, v))
  <2>1. v.ns = tpl.ns  BY <1>1, AtTypes, ScopeKept
  <2>2. CallbackInterfaces(Current, v) = DueAt("CallbackInterfaces", service, method)
    BY <1>1, ClientPrints
  <2> HIDE DEF v
  <2> QED  BY <1>1, <2>1, <2>2, PrintsDue
<1> QED  BY <1>1 DEF PrintHeaderClientMethodCallbackInterfaces

\* PrintHeaderClientMethod adds what its turn is due, and nothing else.
LEMMA PrintHeaderClientMethodDue ==
  ASSUME IInv, TurnsOK, PrintHeaderClientMethod
  PROVE  TurnsOK'
<1> DEFINE v == MethodVars(tpl, Current)
<1>1. CASE At("Methods") /\ Prints(v, PublicMethods(Current, v, Cq))
  <2>1. v.ns = tpl.ns  BY <1>1, AtTypes, ScopeKept
  <2>2. PublicMethods(Current, v, Cq) = DueAt("Methods", service, method)  BY <1>1, ClientPrints
  <2> HIDE DEF v
  <2> QED  BY <1>1, <2>1, <2>2, PrintsDue
<1>2. CASE At("RawMethods") /\ Prints(v, PrivateMethods(Current, v, Cq))
  <2>1. v.ns = tpl.ns  BY <1>2, AtTypes, ScopeKept
  <2>2. PrivateMethods(Current, v, Cq) = DueAt("RawMethods", service, method)  BY <1>2, ClientPrints
  <2> HIDE DEF v
  <2> QED  BY <1>2, <2>1, <2>2, PrintsDue
<1> QED  BY <1>1, <1>2 DEF PrintHeaderClientMethod

\* PrintHeaderClientMethodCallback adds what its turn is due, and nothing else.
LEMMA PrintHeaderClientMethodCallbackDue ==
  ASSUME IInv, TurnsOK, PrintHeaderClientMethodCallback
  PROVE  TurnsOK'
<1> DEFINE v == MethodVars(tpl, Current)
<1>1. CASE At("Callback") /\ Prints(v, CallbackMethods(Current, v))
  <2>1. v.ns = tpl.ns  BY <1>1, AtTypes, ScopeKept
  <2>2. CallbackMethods(Current, v) = DueAt("Callback", service, method)  BY <1>1, ClientPrints
  <2> HIDE DEF v
  <2> QED  BY <1>1, <2>1, <2>2, PrintsDue
<1> QED  BY <1>1 DEF PrintHeaderClientMethodCallback

\* PrintSourceClientMethod adds what its turn is due, and nothing else.
LEMMA PrintSourceClientMethodDue ==
  ASSUME IInv, TurnsOK, PrintSourceClientMethod
  PROVE  TurnsOK'
<1> DEFINE v == MethodVars(WithIdx(tpl), Current)
<1>1. CASE At("SourceClient") /\ Prints(v, SourceClientMethod(Current, v, Cq))
  <2>1. v.ns = tpl.ns  BY <1>1, AtTypes, ScopeKept
  <2>2. SourceClientMethod(Current, v, Cq) = DueAt("SourceClient", service, method)
    BY <1>1, ClientPrints
  <2> HIDE DEF v
  <2> QED  BY <1>1, <2>1, <2>2, PrintsDue
<1> QED  BY <1>1 DEF PrintSourceClientMethod

\* PrintMockClientMethods adds what its turn is due, and nothing else.
LEMMA PrintMockClientMethodsDue ==
  ASSUME IInv, TurnsOK, PrintMockClientMethods
  PROVE  TurnsOK'
<1> DEFINE v == MethodVars(tpl, Current)
<1>1. CASE At("MockMethods") /\ Prints(v, MockMethods(Current, v, Cq))
  <2>1. v.ns = tpl.ns  BY <1>1, AtTypes, ScopeKept
  <2>2. MockMethods(Current, v, Cq) = DueAt("MockMethods", service, method)  BY <1>1, ClientPrints
  <2> HIDE DEF v
  <2> QED  BY <1>1, <2>1, <2>2, PrintsDue
<1> QED  BY <1>1 DEF PrintMockClientMethods

\* The printers of the server.
LEMMA PrintHeaderServerMethodSyncDue ==
  ASSUME IInv, TurnsOK, PrintHeaderServerMethodSync
  PROVE  TurnsOK'
<1> DEFINE v == MethodVars(tpl, Current)
<1>1. CASE At("Sync") /\ Prints(v, SyncMethod(Current, v, Sync))
  <2>1. v.ns = tpl.ns  BY <1>1, AtTypes, ScopeKept
  <2>2. SyncMethod(Current, v, Sync) = DueAt("Sync", service, method)  BY <1>1, ServerPrints
  <2> HIDE DEF v
  <2> QED  BY <1>1, <2>1, <2>2, PrintsDue
<1> QED  BY <1>1 DEF PrintHeaderServerMethodSync

\* PrintHeaderServerMethodAsync adds what its turn is due, and nothing else.
LEMMA PrintHeaderServerMethodAsyncDue ==
  ASSUME IInv, TurnsOK, PrintHeaderServerMethodAsync
  PROVE  TurnsOK'
<1> DEFINE v == TypedVars(WithIdx(tpl), Current)
<1>1. CASE At("Async") /\ Prints(v, WithAsyncMethod(Current, v, Sync))
  <2>1. v.ns = tpl.ns  BY <1>1, AtTypes, ScopeKept
  <2>2. WithAsyncMethod(Current, v, Sync) = DueAt("Async", service, method)  BY <1>1, ServerPrints
  <2> HIDE DEF v
  <2> QED  BY <1>1, <2>1, <2>2, PrintsDue
<1> QED  BY <1>1 DEF PrintHeaderServerMethodAsync

\* PrintHeaderServerMethodCallback adds what its turn is due, and nothing else.
LEMMA PrintHeaderServerMethodCallbackDue ==
  ASSUME IInv, TurnsOK, PrintHeaderServerMethodCallback
  PROVE  TurnsOK'
<1> DEFINE v == TypedVars(WithIdx(tpl), Current)
<1>1. CASE At("ServerCallback") /\ Prints(v, WithCallbackMethod(Current, v, Sync))
  <2>1. v.ns = tpl.ns  BY <1>1, AtTypes, ScopeKept
  <2>2. WithCallbackMethod(Current, v, Sync) = DueAt("ServerCallback", service, method)
    BY <1>1, ServerPrints
  <2> HIDE DEF v
  <2> QED  BY <1>1, <2>1, <2>2, PrintsDue
<1> QED  BY <1>1 DEF PrintHeaderServerMethodCallback

\* PrintHeaderServerMethodGeneric adds what its turn is due, and nothing else.
LEMMA PrintHeaderServerMethodGenericDue ==
  ASSUME IInv, TurnsOK, PrintHeaderServerMethodGeneric
  PROVE  TurnsOK'
<1> DEFINE v == MethodVars(WithIdx(tpl), Current)
<1>1. CASE At("Generic") /\ Prints(v, WithGenericMethod(Current, v, Sync))
  <2>1. v.ns = tpl.ns  BY <1>1, AtTypes, ScopeKept
  <2>2. WithGenericMethod(Current, v, Sync) = DueAt("Generic", service, method)
    BY <1>1, ServerPrints
  <2> HIDE DEF v
  <2> QED  BY <1>1, <2>1, <2>2, PrintsDue
<1> QED  BY <1>1 DEF PrintHeaderServerMethodGeneric

\* PrintHeaderServerMethodRaw adds what its turn is due, and nothing else.
LEMMA PrintHeaderServerMethodRawDue ==
  ASSUME IInv, TurnsOK, PrintHeaderServerMethodRaw
  PROVE  TurnsOK'
<1> DEFINE v == RawVars(WithIdx(tpl), Current)
<1>1. CASE At("Raw") /\ Prints(v, WithRawMethod(Current, v, Sync))
  <2>1. v.ns = tpl.ns  BY <1>1, AtTypes, ScopeKept
  <2>2. WithRawMethod(Current, v, Sync) = DueAt("Raw", service, method)  BY <1>1, ServerPrints
  <2> HIDE DEF v
  <2> QED  BY <1>1, <2>1, <2>2, PrintsDue
<1> QED  BY <1>1 DEF PrintHeaderServerMethodRaw

\* PrintHeaderServerMethodRawCallback adds what its turn is due, and nothing else.
LEMMA PrintHeaderServerMethodRawCallbackDue ==
  ASSUME IInv, TurnsOK, PrintHeaderServerMethodRawCallback
  PROVE  TurnsOK'
<1> DEFINE v == RawVars(WithIdx(tpl), Current)
<1>1. CASE At("RawCallback") /\ Prints(v, WithRawCallbackMethod(Current, v, Sync))
  <2>1. v.ns = tpl.ns  BY <1>1, AtTypes, ScopeKept
  <2>2. WithRawCallbackMethod(Current, v, Sync) = DueAt("RawCallback", service, method)
    BY <1>1, ServerPrints
  <2> HIDE DEF v
  <2> QED  BY <1>1, <2>1, <2>2, PrintsDue
<1> QED  BY <1>1 DEF PrintHeaderServerMethodRawCallback

\* PrintHeaderServerMethodStreamedUnary adds what its turn is due, and nothing else.
LEMMA PrintHeaderServerMethodStreamedUnaryDue ==
  ASSUME IInv, TurnsOK, PrintHeaderServerMethodStreamedUnary
  PROVE  TurnsOK'
<1> DEFINE v == MethodVars(WithIdx(tpl), Current)
<1>1. CASE At("StreamedUnary") /\ Prints(v, WithStreamedUnaryMethod(Current, v))
  <2>1. v.ns = tpl.ns  BY <1>1, AtTypes, ScopeKept
  <2>2. WithStreamedUnaryMethod(Current, v) = DueAt("StreamedUnary", service, method)
    BY <1>1, ServerPrints
  <2> HIDE DEF v
  <2> QED  BY <1>1, <2>1, <2>2, PrintsDue
<1> QED  BY <1>1 DEF PrintHeaderServerMethodStreamedUnary

\* PrintHeaderServerMethodSplitStreaming adds what its turn is due, and nothing else.
LEMMA PrintHeaderServerMethodSplitStreamingDue ==
  ASSUME IInv, TurnsOK, PrintHeaderServerMethodSplitStreaming
  PROVE  TurnsOK'
<1> DEFINE v == MethodVars(WithIdx(tpl), Current)
<1>1. CASE At("SplitStreaming") /\ Prints(v, WithSplitStreamingMethod(Current, v))
  <2>1. v.ns = tpl.ns  BY <1>1, AtTypes, ScopeKept
  <2>2. WithSplitStreamingMethod(Current, v) = DueAt("SplitStreaming", service, method)
    BY <1>1, ServerPrints
  <2> HIDE DEF v
  <2> QED  BY <1>1, <2>1, <2>2, PrintsDue
<1> QED  BY <1>1 DEF PrintHeaderServerMethodSplitStreaming

\* PrintSourceServerMethod adds what its turn is due, and nothing else.
LEMMA PrintSourceServerMethodDue ==
  ASSUME IInv, TurnsOK, PrintSourceServerMethod
  PROVE  TurnsOK'
<1> DEFINE v == MethodVars(WithIdx(tpl), Current)
<1>1. CASE At("SourceServer") /\ Prints(v, SourceServerMethod(Current, v, Sync))
  <2>1. v.ns = tpl.ns  BY <1>1, AtTypes, ScopeKept
  <2>2. SourceServerMethod(Current, v, Sync) = DueAt("SourceServer", service, method)
    BY <1>1, ServerPrints
  <2> HIDE DEF v
  <2> QED  BY <1>1, <2>1, <2>2, PrintsDue
<1> QED  BY <1>1 DEF PrintSourceServerMethod

\* The stub's RpcMethods: what declares them, and what fills them.
LEMMA PrintHeaderClientMethodDataDue ==
  ASSUME IInv, TurnsOK, PrintHeaderClientMethodData
  PROVE  TurnsOK'
<1> DEFINE v == [tpl EXCEPT !.Method = Current.name]
<1>1. At("Data") /\ Prints(v, MethodData(v))  BY DEF PrintHeaderClientMethodData
<1>2. v.ns = tpl.ns  BY <1>1, AtTypes, ScopeKept
<1>3. MethodData(v) = DueAt("Data", service, method)
  <2>1. v.Method = Fresh(service, method).Method
    BY <1>1, AtTypes DEF Fresh, TypedVars, MethodVars, InitialVars, Current
  <2>2. MethodData(v) = MethodData(Fresh(service, method))  BY <2>1 DEF MethodData, RpcMethod
  <2> QED  BY <2>2, ClientDue
<1> HIDE DEF v
<1> QED  BY <1>1, <1>2, <1>3, PrintsDue

\* PrintMethodInit adds what its turn is due, and nothing else.
LEMMA PrintMethodInitDue ==
  ASSUME IInv, TurnsOK, PrintMethodInit
  PROVE  TurnsOK'
<1> DEFINE v == [WithIdx(tpl) EXCEPT !.Method = Current.name]
           printed == {OnSlot(Decl(Stub, RpcMethod(v), <<>>, <<StreamingType(Current)>>, "init"), v.Idx)}
<1>1. At("Inits") /\ Prints(v, printed)  BY DEF PrintMethodInit
<1>2. v.ns = tpl.ns  BY <1>1, AtTypes, ScopeKept
<1>3. printed = DueAt("Inits", service, method)
  <2>1. v.Method = Fresh(service, method).Method /\ v.Idx = method
    BY <1>1, AtTypes DEF Fresh, TypedVars, MethodVars, InitialVars, Current, WithIdx
  <2> HIDE DEF v
  <2>2. printed = {OnSlot(Decl(Stub, RpcMethod(Fresh(service, method)), <<>>,
                               <<StreamingType(Methods(service)[method])>>, "init"), method)}
    BY <2>1 DEF RpcMethod, Current
  <2> QED  BY <2>2, ClientDue
<1> HIDE DEF v, printed
<1> QED  BY <1>1, <1>2, <1>3, PrintsDue

\* A turn of a loop that fills a table passes nothing that is due.
LEMMA FillsNoneDue ==
  ASSUME IInv, TurnsOK, NEW l \in SilentLoops, At(l), method' = method + 1,
         UNCHANGED <<file, flags, texts, unit, service, loop, written>>
  PROVE  \A u \in Units, s \in DOMAIN file.services :
           /\ Turned(u, s, 0, 0)' => Turned(u, s, 0, 0)
           /\ \A n \in DOMAIN LoopsOf(u), k \in DOMAIN Methods(s) :
                Turned(u, s, n, k)' /\ Allowed(LoopsOf(u)[n])
                  => Turned(u, s, n, k) \/ DueAt(LoopsOf(u)[n], s, k) = {}
<1>1. /\ unit \in Units /\ service \in DOMAIN file.services /\ Loops = LoopsOf(unit) /\ method \in Nat
      /\ loop \in Nat \ {0} /\ Loops[loop] = l
      /\ \A s \in DOMAIN file.services : s \in Nat /\ DOMAIN Methods(s) \subseteq Nat \ {0}
  BY PlaceOf, AtTypes
<1>2. ASSUME NEW u \in Units, NEW s \in DOMAIN file.services, NEW n \in DOMAIN LoopsOf(u),
             NEW k \in DOMAIN Methods(s), Turned(u, s, n, k)', ~Turned(u, s, n, k)
      PROVE  DueAt(LoopsOf(u)[n], s, k) = {}
  <2>1. n \in Nat /\ k \in Nat /\ s \in Nat  BY <1>1, LoopsOfTypes
  <2>2. u = unit /\ n = loop  BY <1>1, <1>2, <2>1 DEF Turned
  <2> QED  BY <1>1, <2>2, NothingDue
<1>3. ASSUME NEW u \in Units, NEW s \in DOMAIN file.services, Turned(u, s, 0, 0)'
      PROVE  Turned(u, s, 0, 0)
  BY <1>1, <1>3 DEF Turned
<1> QED  BY <1>2, <1>3

\* The names.
LEMMA PrintMethodNameDue ==
  ASSUME IInv, TurnsOK, PrintMethodName
  PROVE  TurnsOK'
<1> DEFINE v == [tpl EXCEPT !.Method = Current.name]
<1>1. /\ At("Names") /\ tpl' = v /\ method' = method + 1
      /\ UNCHANGED <<file, flags, texts, unit, service, loop, written, decls, adds>>
  BY DEF PrintMethodName, Turn, inputVars, fileVars, SilentLoops
<1>2. v.ns = tpl.ns  BY <1>1, AtTypes, ScopeKept
<1>3. ScopesOK'
  <2>1. Scope(unit)' = Scope(unit)  BY <1>1 DEF Scope, Namespace
  <2>2. unit \in Units  BY <1>1, AtTypes
  <2> HIDE DEF v
  <2> QED  BY <1>1, <1>2, <2>1, <2>2 DEF ScopesOK, TurnsOK, Units
<1>4. "Names" \in SilentLoops  BY DEF SilentLoops
<1> QED  BY <1>1, <1>3, <1>4, FillsNoneDue, AddsSame, NoneDue

\* The entries of the method table.
LEMMA PrintAddMethodDue ==
  ASSUME IInv, TurnsOK, PrintAddMethod
  PROVE  TurnsOK'
<1> DEFINE v == MethodVars(WithIdx(tpl), Current)
<1>1. /\ At("Adds") /\ tpl' = v /\ method' = method + 1
      /\ UNCHANGED <<file, flags, texts, unit, service, loop, written, decls>>
      /\ adds' = [adds EXCEPT ![service] = Append(@, AddMethod(Current, v))]
  BY DEF PrintAddMethod, Turn, inputVars, fileVars
<1>2. v.ns = tpl.ns  BY <1>1, AtTypes, ScopeKept
<1>3. ScopesOK'
  <2>1. Scope(unit)' = Scope(unit)  BY <1>1 DEF Scope, Namespace
  <2>2. unit \in Units  BY <1>1, AtTypes
  <2> HIDE DEF v
  <2> QED  BY <1>1, <1>2, <2>1, <2>2 DEF ScopesOK, TurnsOK, Units
<1>4. AddsDue'
  <2> DEFINE a == AddMethod(Methods(service)[method], Fresh(service, method))
  <2>1. AddMethod(Current, v) = a  BY <1>1, ServerPrints DEF Current
  <2>2. service \in DOMAIN file.services /\ unit = "source" /\ loop = 4 /\ method \in Nat \ {0}
    <3>1. At("Adds") /\ unit \in Units /\ loop \in DOMAIN Loops /\ Loops[loop] = "Adds"
          /\ service \in DOMAIN file.services /\ method \in 1 .. Len(Methods(service))
      BY <1>1, AtTypes
    <3> QED  BY <3>1, LoopNames
  <2>3. Len(adds[service]) = method - 1
    <3>1. Len(adds[service]) = Turns(4, service)  BY <2>2 DEF IInv, TablesOK, AddsOK
    <3>2. service \in Nat  BY <1>1, AtTypes
    <3> QED  BY <2>2, <3>1, <3>2 DEF Turns
  <2>4. adds = [s \in DOMAIN file.services |-> adds[s]] /\ IsSequence(adds[service])
    BY <2>2 DEF IInv, TypeOK
  <2> HIDE DEF v, a
  <2>5. /\ adds'[service] = Append(adds[service], a)
        /\ \A s \in DOMAIN file.services : s # service => adds'[s] = adds[s]
    BY <1>1, <2>1, <2>2, <2>4
  <2>6. ASSUME NEW s \in DOMAIN file.services, NEW k \in DOMAIN adds'[s]
        PROVE  adds'[s][k] = AddMethod(Methods(s)[k], Fresh(s, k))
    <3>1. CASE s # service  BY <2>5, <2>6, <3>1 DEF TurnsOK, AddsDue
    <3>2. CASE s = service
      <4>1. /\ DOMAIN adds'[s] = 1 .. method /\ adds'[s][method] = a
            /\ \A i \in 1 .. method - 1 : adds'[s][i] = adds[s][i]
            /\ DOMAIN adds[s] = 1 .. method - 1
        <5> DEFINE q == adds[service]
        <5>1. IsSequence(q) /\ Len(q) = method - 1 /\ method \in Nat  BY <2>2, <2>3, <2>4
        <5>2. adds'[s] = Append(q, a) /\ adds[s] = q  BY <2>5, <3>2
        <5> HIDE DEF q
        <5>3. /\ DOMAIN Append(q, a) = 1 .. method /\ DOMAIN q = 1 .. method - 1
              /\ Append(q, a)[method] = a /\ \A i \in 1 .. method - 1 : Append(q, a)[i] = q[i]
          BY <5>1, Appended
        <5> QED  BY <5>2, <5>3
      <4>2. CASE k = method  BY <3>2, <4>1, <4>2 DEF a
      <4>3. CASE k # method
        <5>1. k \in 1 .. method - 1  BY <2>2, <2>6, <4>1, <4>3
        <5> QED  BY <3>2, <4>1, <5>1 DEF TurnsOK, AddsDue
      <4> QED  BY <4>2, <4>3
    <3> QED  BY <3>1, <3>2
  <2>7. \A s, k : AddMethod(Methods(s)[k], Fresh(s, k))' = AddMethod(Methods(s)[k], Fresh(s, k))
    <3>1. \A s, k : Methods(s)' = Methods(s) /\ Fresh(s, k)' = Fresh(s, k)
      BY <1>1 DEF Methods, Fresh
    <3> QED  BY <3>1
  <2> QED  BY <1>1, <2>6, <2>7 DEF AddsDue
<1>5. "Adds" \in SilentLoops  BY DEF SilentLoops
<1> QED  BY <1>1, <1>3, <1>4, <1>5, FillsNoneDue, NoneDue

-----------------------------------------------------------------------------
(* Between the loops, the services and the units.                          *)

\* What is still to come has not been passed.
LEMMA InitTurns == Init => TurnsOK
<1> SUFFICES ASSUME Init  PROVE TurnsOK
  OBVIOUS
<1>1. unit = "options" /\ decls = {} /\ written = {} /\ adds = [s \in DOMAIN file.services |-> <<>>]
  BY Zenon DEF Init
<1>2. ScopesOK  BY <1>1 DEF ScopesOK, Units
<1>3. \A u \in Units : \A s, n, k : ~Turned(u, s, n, k)  BY <1>1 DEF Turned, Units
<1>4. TurnsKept  BY <1>3 DEF TurnsKept
<1>5. NothingElse  BY <1>1 DEF NothingElse
<1>6. AddsDue  BY <1>1 DEF AddsDue
<1> QED  BY <1>2, <1>4, <1>5, <1>6 DEF TurnsOK

\* The plugin stops before it has printed anything.
LEMMA StopsDue ==
  ASSUME TurnsOK, unit' \in {"rejected", "crashed"},
         UNCHANGED <<inputVars, service, loop, method, tpl, printedVars, fileVars>>
  PROVE  TurnsOK'
<1>1. UNCHANGED <<file, flags, texts, decls, adds, written>>
  BY DEF inputVars, printedVars, fileVars
<1>2. ScopesOK'  BY DEF ScopesOK, Units
<1>3. \A u \in Units : \A s, n, k : Turned(u, s, n, k)' => Turned(u, s, n, k)
  BY <1>1 DEF Turned, Units
<1> QED  BY <1>1, <1>2, <1>3, AddsSame, NoneDue

\* An option is read while nothing is printed.
LEMMA ParseOptionDue ==
  ASSUME IInv, TurnsOK, ParseOption
  PROVE  TurnsOK'
<1>1. unit = "options" /\ unit' = unit /\ UNCHANGED <<file, decls, adds, written>>
  BY DEF ParseOption, Reading, position, printedVars, fileVars
<1>2. decls = {} /\ written = {}  BY <1>1 DEF TurnsOK, ScopesOK, IInv, WrittenOK
<1>3. ScopesOK'  BY <1>1, <1>2 DEF ScopesOK, Units
<1>4. \A u \in Units : \A s, n, k : ~Turned(u, s, n, k)'  BY <1>1, <1>2 DEF Turned, Units
<1>5. TurnsKept'  BY <1>4 DEF TurnsKept
<1>6. NothingElse'  BY <1>1, <1>2 DEF NothingElse
<1> QED  BY <1>1, <1>3, <1>5, <1>6, AddsSame DEF TurnsOK

\* A unit begins with variables of its own, in its own scope.
LEMMA BeginScope ==
  ASSUME NEW u \in Units, Begin(u), UNCHANGED <<inputVars>>
  PROVE  ScopesOK' /\ unit' = u /\ service' = 1 /\ loop' = 0 /\ method' = 0
<1>1. unit' = u /\ service' = 1 /\ loop' = 0 /\ method' = 0
      /\ tpl' = [InitialVars EXCEPT !.Package = file.package, !.ns = IF u = "source" THEN Namespace ELSE Unset]
  BY DEF Begin
<1>2. tpl'.ns = IF u = "source" THEN Namespace ELSE Unset  BY <1>1 DEF InitialVars
<1>3. Namespace' = Namespace  BY DEF Namespace, inputVars
<1>4. Scope(unit)' = IF u = "source" THEN Namespace ELSE Unset  BY <1>1, <1>3 DEF Scope
<1>5. u # "options"  BY DEF Units
<1> QED  BY <1>1, <1>2, <1>4, <1>5 DEF ScopesOK

\* The turns of a unit are behind when it is written, and no other's.
LEMMA WritesDue ==
  ASSUME IInv, TurnsOK, NEW u \in Units, Finished(u), written' = written \cup {u}, ScopesOK',
         UNCHANGED <<inputVars, printedVars>>,
         \/ unit' \in Units /\ service' = 1 /\ loop' = 0 /\ method' = 0
         \/ unit' = "done"
  PROVE  TurnsOK'
<1>1. UNCHANGED <<file, flags, texts, decls, adds>>  BY DEF inputVars, printedVars
<1>2. unit = u /\ service > Len(file.services) /\ service \in Nat  BY DEF Finished, IInv, TypeOK
<1>3. \A s \in DOMAIN file.services : /\ s \in 1 .. Len(file.services) /\ s \in Nat /\ s < service
                                      /\ DOMAIN Methods(s) \subseteq Nat \ {0}
  <2>1. file.services \in Seq([name : Seq(STRING), methods : Seq(MethodRecords)])
    BY FileTypes DEF IInv
  <2>2. \A s \in DOMAIN file.services : Methods(s) \in Seq(MethodRecords)  BY SMTT(30), FileTypes DEF IInv
  <2> QED  BY <1>2, <2>1, <2>2
<1>4. ASSUME NEW w \in Units, NEW s \in DOMAIN file.services, NEW n \in Nat, NEW k \in Nat, Turned(w, s, n, k)'
      PROVE  Turned(w, s, n, k)
  <2>1. CASE w = u  BY <1>2, <1>3, <2>1 DEF Turned
  <2>2. CASE w # u
    <3>1. w \in written \/ (unit' = w /\ service' = 1 /\ loop' = 0 /\ method' = 0 /\ (s < 1 \/ (s = 1 /\ (n < 0 \/ (n = 0 /\ k < 0)))))
      BY <1>4, <2>2 DEF Turned, Units
    <3>2. w \in written  BY <1>3, <3>1
    <3> QED  BY <3>2 DEF Turned
  <2> QED  BY <2>1, <2>2
<1>5. /\ \A w \in Units : DOMAIN LoopsOf(w) \subseteq Nat \ {0}
      /\ \A s \in DOMAIN file.services : DOMAIN Methods(s) \subseteq Nat
  BY <1>3, LoopsOfTypes
<1>6. \A w \in Units, s \in DOMAIN file.services : 
        /\ Turned(w, s, 0, 0)' => Turned(w, s, 0, 0)
        /\ \A n \in DOMAIN LoopsOf(w), k \in DOMAIN Methods(s) : Turned(w, s, n, k)' => Turned(w, s, n, k)
  BY <1>4, <1>5
<1> QED  BY <1>1, <1>6, AddsSame, NoneDue

\* The units, one after the other.
LEMMA GetHeaderServicesDue ==
  ASSUME IInv, TurnsOK, GetHeaderServices
  PROVE  TurnsOK'
<1>1. /\ unit = "options" /\ Begin("header") /\ UNCHANGED <<inputVars>>
      /\ UNCHANGED <<file, flags, texts, decls, adds, written>>
  BY DEF GetHeaderServices, Reading, inputVars, printedVars, fileVars
<1>2. ScopesOK' /\ unit' = "header" /\ service' = 1 /\ loop' = 0 /\ method' = 0
  BY <1>1, BeginScope DEF Units
<1>3. \A s \in DOMAIN file.services : s \in Nat \ {0} /\ DOMAIN Methods(s) \subseteq Nat \ {0}
  BY SMTT(30), FileTypes DEF IInv
<1>4. ASSUME NEW w \in Units, NEW s \in DOMAIN file.services, NEW n \in Nat, NEW k \in Nat, Turned(w, s, n, k)'
      PROVE  Turned(w, s, n, k)
  BY <1>1, <1>2, <1>3, <1>4 DEF Turned
<1>5. /\ \A w \in Units : DOMAIN LoopsOf(w) \subseteq Nat \ {0}
      /\ \A s \in DOMAIN file.services : DOMAIN Methods(s) \subseteq Nat
  BY <1>3, LoopsOfTypes
<1>6. \A w \in Units, s \in DOMAIN file.services : 
        /\ Turned(w, s, 0, 0)' => Turned(w, s, 0, 0)
        /\ \A n \in DOMAIN LoopsOf(w), k \in DOMAIN Methods(s) : Turned(w, s, n, k)' => Turned(w, s, n, k)
  BY <1>4, <1>5
<1> QED  BY <1>1, <1>2, <1>6, AddsSame, NoneDue

\* Opening the header adds what stands before its loops.
LEMMA WriteHeaderDue ==
  ASSUME IInv, TurnsOK, WriteHeader
  PROVE  TurnsOK'
<1>1. /\ Finished("header") /\ Begin("source") /\ UNCHANGED <<inputVars, printedVars>>
      /\ UNCHANGED <<inputVars>> /\ written' = written \cup {"header"}
  BY DEF WriteHeader, Write
<1>2. "header" \in Units /\ "source" \in Units  BY DEF Units
<1>3. ScopesOK' /\ unit' = "source" /\ service' = 1 /\ loop' = 0 /\ method' = 0
  BY <1>1, <1>2, BeginScope
<1> QED  BY <1>1, <1>2, <1>3, WritesDue

\* Opening the source adds what stands before its loops.
LEMMA WriteSourceDue ==
  ASSUME IInv, TurnsOK, WriteSource
  PROVE  TurnsOK'
<1>1. /\ Finished("source") /\ UNCHANGED <<inputVars, printedVars>> /\ UNCHANGED <<inputVars>>
      /\ written' = written \cup {"source"} /\ (Begin("mock") \/ unit' = "done")
  BY DEF WriteSource, Write
<1>2. "source" \in Units /\ "mock" \in Units  BY DEF Units
<1>3. CASE Begin("mock")
  <2>1. ScopesOK' /\ unit' = "mock" /\ service' = 1 /\ loop' = 0 /\ method' = 0
    BY <1>1, <1>2, <1>3, BeginScope
  <2> QED  BY <1>1, <1>2, <2>1, WritesDue
<1>4. CASE unit' = "done"
  <2>1. ScopesOK'  BY <1>4 DEF ScopesOK, Units
  <2> QED  BY <1>1, <1>2, <1>4, <2>1, WritesDue
<1> QED  BY <1>1, <1>3, <1>4

\* Opening the mock owes nothing yet.
LEMMA WriteMockDue ==
  ASSUME IInv, TurnsOK, WriteMock
  PROVE  TurnsOK'
<1>1. /\ Finished("mock") /\ UNCHANGED <<inputVars, printedVars>>
      /\ written' = written \cup {"mock"} /\ unit' = "done"
  BY DEF WriteMock, Write
<1>2. "mock" \in Units  BY DEF Units
<1>3. ScopesOK'  BY <1>1 DEF ScopesOK, Units
<1> QED  BY <1>1, <1>2, <1>3, WritesDue

\* A service is opened: what it declares before its loops.
LEMMA OpenServiceDue ==
  ASSUME IInv, TurnsOK, OpenService
  PROVE  TurnsOK'
<1> DEFINE v == [tpl EXCEPT !.Service = ServiceName(service)]
           first == CASE unit = "header" -> HeaderFixed(v) [] unit = "source" -> SourceFixed
                      [] unit = "mock" -> {}
           new == Placed(DueFirst(unit, service), unit, service, 0)
<1>1. /\ Printing /\ loop = 0 /\ tpl' = v /\ loop' = 1 /\ method' = 1
      /\ UNCHANGED <<file, flags, texts, unit, service, adds, written>>
      /\ decls' = decls \cup Stamped(first)
  BY DEF OpenService, inputVars, fileVars
<1>2. /\ unit \in Units /\ service \in DOMAIN file.services /\ method = 0
      /\ DOMAIN tpl = DOMAIN InitialVars
      /\ \A s \in DOMAIN file.services : s \in Nat /\ DOMAIN Methods(s) \subseteq Nat \ {0}
  BY <1>1, PlaceOf DEF IInv, PositionOK
<1>3. tpl.Package = file.package /\ tpl.ns = Scope(unit)
  BY <1>2 DEF IInv, TemplatesOK, TurnsOK, ScopesOK
<1>4. first = DueFirst(unit, service)
  <2> DEFINE f == [InitialVars EXCEPT !.Package = file.package, !.Service = ServiceName(service)]
  <2>1. v.Package = f.Package /\ v.Service = f.Service  BY <1>2, <1>3 DEF InitialVars
  <2>2. HeaderFixed(v) = HeaderFixed(f)
    <3> HIDE DEF v, f
    <3> QED  BY <2>1 DEF HeaderFixed
  <2>3. CASE unit = "header"
    <3>1. first = HeaderFixed(v)  BY <2>3
    <3>2. DueFirst(unit, service) = HeaderFixed(f)  BY <2>3 DEF DueFirst
    <3> QED  BY <2>2, <3>1, <3>2
  <2>4. CASE unit = "source"  BY Zenon, <2>4 DEF DueFirst
  <2>5. CASE unit = "mock"  BY Zenon, <2>5 DEF DueFirst
  <2> QED  BY <1>2, <2>3, <2>4, <2>5 DEF Units
<1>5. v.ns = tpl.ns  BY <1>2, ScopeKept
<1> HIDE DEF first, v
<1>6. decls' = decls \cup new
  <2>1. Stamped(first) = new  BY <1>2, <1>3, <1>4 DEF Stamped, Placed
  <2> QED  BY <1>1, <2>1
<1>7. \A e \in new : e.unit = unit /\ e.service = service /\ e.method = 0
  BY <1>2, FirstFormed, PlacedShape
<1>8. /\ \A u, s : Placed(DueFirst(u, s), u, s, 0)' = Placed(DueFirst(u, s), u, s, 0)
      /\ \A m, u, s, k : Placed(DueAt(m, s, k), u, s, k)' = Placed(DueAt(m, s, k), u, s, k)
      /\ \A m : Allowed(m)' <=> Allowed(m)
      /\ \A s : Methods(s)' = Methods(s)
  BY <1>1, SameDue
<1>9. ScopesOK'
  <2>1. Scope(unit)' = Scope(unit)  BY <1>1 DEF Scope, Namespace
  <2> QED  BY <1>1, <1>2, <1>3, <1>5, <2>1 DEF ScopesOK, Units
<1>10. TurnsKept'
  <2>1. ASSUME NEW u \in Units, NEW s \in DOMAIN file.services, Turned(u, s, 0, 0)'
        PROVE  Placed(DueFirst(u, s), u, s, 0) \subseteq decls \cup new
    <3>1. CASE Turned(u, s, 0, 0)  BY <3>1 DEF TurnsOK, TurnsKept
    <3>2. CASE ~Turned(u, s, 0, 0)
      <4>1. u = unit /\ s = service  BY <1>1, <1>2, <2>1, <3>2 DEF Turned
      <4> QED  BY <4>1
    <3> QED  BY <3>1, <3>2
  <2>2. ASSUME NEW u \in Units, NEW s \in DOMAIN file.services, NEW n \in DOMAIN LoopsOf(u),
               NEW k \in DOMAIN Methods(s), Turned(u, s, n, k)', Allowed(LoopsOf(u)[n])
        PROVE  Placed(DueAt(LoopsOf(u)[n], s, k), u, s, k) \subseteq decls
    <3>1. n \in Nat \ {0} /\ k \in Nat \ {0} /\ s \in Nat  BY <1>2, LoopsOfTypes
    <3>2. Turned(u, s, n, k)  BY <1>1, <1>2, <2>2, <3>1 DEF Turned
    <3> QED  BY <2>2, <3>2 DEF TurnsOK, TurnsKept
  <2> QED  BY <1>1, <1>6, <1>8, <2>1, <2>2 DEF TurnsKept
<1>11. NothingElse'
  <2>1. ASSUME NEW d \in decls \cup new
        PROVE  /\ d.unit \in Units /\ d.service \in DOMAIN file.services
               /\ \/ d \in Placed(DueFirst(d.unit, d.service), d.unit, d.service, 0)
                  \/ /\ d.method \in DOMAIN Methods(d.service)
                     /\ \E n \in DOMAIN LoopsOf(d.unit) :
                          /\ Allowed(LoopsOf(d.unit)[n])
                          /\ d \in Placed(DueAt(LoopsOf(d.unit)[n], d.service, d.method), d.unit, d.service, d.method)
    <3>1. CASE d \in decls  BY <3>1 DEF TurnsOK, NothingElse
    <3>2. CASE d \in new
      <4>1. d.unit = unit /\ d.service = service  BY <1>7, <3>2
      <4> QED  BY <1>2, <3>2, <4>1
    <3> QED  BY <2>1, <3>1, <3>2
  <2> QED  BY <1>1, <1>6, <1>8, <2>1 DEF NothingElse
<1> QED  BY <1>1, <1>9, <1>10, <1>11, AddsSame DEF TurnsOK

\* A loop that was not allowed, or that has turned for every method, is behind.
LEMMA LeavesDue ==
  ASSUME IInv, TurnsOK, Printing, loop \in DOMAIN Loops, loop' = loop + 1, method' = 1,
         UNCHANGED <<inputVars, unit, service, tpl, decls, adds, written>>,
         \/ ~Allowed(Loops[loop])
         \/ method > Len(Methods(service))
  PROVE  TurnsOK'
<1>1. UNCHANGED <<file, flags, texts, decls, adds>>  BY DEF inputVars
<1>2. /\ unit \in Units /\ service \in DOMAIN file.services /\ Loops = LoopsOf(unit) /\ method \in Nat
      /\ loop \in Nat \ {0} /\ DOMAIN Methods(service) = 1 .. Len(Methods(service))
      /\ Len(Methods(service)) \in Nat
      /\ \A s \in DOMAIN file.services : s \in Nat /\ DOMAIN Methods(s) \subseteq Nat \ {0}
  BY PlaceOf
<1>3. ScopesOK'
  <2>1. Scope(unit)' = Scope(unit)  BY <1>1 DEF Scope, Namespace
  <2> QED  BY <1>2, <2>1 DEF ScopesOK, TurnsOK, Units
<1>4. ASSUME NEW u \in Units, NEW s \in DOMAIN file.services, Turned(u, s, 0, 0)'
      PROVE  Turned(u, s, 0, 0)
  BY <1>1, <1>2, <1>4 DEF Turned
<1>5. ASSUME NEW u \in Units, NEW s \in DOMAIN file.services, NEW n \in DOMAIN LoopsOf(u),
             NEW k \in DOMAIN Methods(s), Turned(u, s, n, k)', Allowed(LoopsOf(u)[n]),
               ~Turned(u, s, n, k)
      PROVE  DueAt(LoopsOf(u)[n], s, k) = {}
  <2>1. n \in Nat \ {0} /\ k \in Nat \ {0} /\ s \in Nat  BY <1>2, LoopsOfTypes
  <2>2. u = unit /\ s = service /\ n = loop  BY <1>1, <1>2, <1>5, <2>1 DEF Turned
  <2>3. ~(method > Len(Methods(service)))
    <3>1. k \in 1 .. Len(Methods(service))  BY <1>2, <2>2
    <3> QED  BY <1>2, <1>5, <2>1, <2>2, <3>1 DEF Turned
  <2> QED  BY <1>2, <1>5, <2>2, <2>3
<1> QED  BY <1>1, <1>3, <1>4, <1>5, AddsSame, NoneDue

\* Going to the next loop, service or unit leaves no turn owing.
LEMMA NextLoopDue ==
  ASSUME IInv, TurnsOK, NextLoop
  PROVE  TurnsOK'
<1>1. /\ Printing /\ loop \in DOMAIN Loops /\ loop' = loop + 1 /\ method' = 1
      /\ UNCHANGED <<inputVars, unit, service, tpl, decls, adds, written>>
      /\ ~Allowed(Loops[loop]) \/ method > Len(Methods(service))
  BY DEF NextLoop, printedVars, fileVars
<1> QED  BY <1>1, LeavesDue

\* A typedef is no declaration a turn is due.
LEMMA TypedefDue ==
  ASSUME IInv, TurnsOK, NEW t \in Typedefs, NEW l \in {t, End(t)}, At(l), Turn(tpl),
         UNCHANGED <<decls, names, adds>>
  PROVE  TurnsOK'
<1>1. /\ tpl' = tpl /\ method' = method + 1
      /\ UNCHANGED <<file, flags, texts, unit, service, loop, written, decls, adds>>
  BY DEF Turn, inputVars, fileVars
<1>2. l \in SilentLoops  BY DEF Typedefs, End, SilentLoops
<1>3. ScopesOK'
  <2>1. Scope(unit)' = Scope(unit)  BY <1>1 DEF Scope, Namespace
  <2>2. unit \in Units  BY AtTypes
  <2> QED  BY <1>1, <2>1, <2>2 DEF ScopesOK, TurnsOK, Units
<1> QED  BY <1>1, <1>2, <1>3, FillsNoneDue, AddsSame, NoneDue

LEMMA PrintTypedefMixinDue ==
  ASSUME IInv, TurnsOK, PrintTypedefMixin
  PROVE  TurnsOK'
<1>1. PICK t \in Typedefs : At(t) /\ Turn(tpl) /\ UNCHANGED <<decls, names, adds>>
  BY DEF PrintTypedefMixin
<1> QED  BY <1>1, TypedefDue

LEMMA PrintTypedefBracketDue ==
  ASSUME IInv, TurnsOK, PrintTypedefBracket
  PROVE  TurnsOK'
<1>1. PICK t \in Typedefs : At(End(t)) /\ Turn(tpl) /\ UNCHANGED <<decls, names, adds>>
  BY DEF PrintTypedefBracket
<1> QED  BY <1>1, TypedefDue

\* A service is closed when all its loops are behind.
LEMMA CloseServiceDue ==
  ASSUME IInv, TurnsOK, CloseService
  PROVE  TurnsOK'
<1>1. /\ Printing /\ loop > Len(Loops) /\ service' = service + 1 /\ loop' = 0 /\ method' = 0
      /\ UNCHANGED <<file, flags, texts, unit, tpl, decls, adds, written>>
  BY DEF CloseService, inputVars, printedVars, fileVars
<1>2. /\ unit \in Units /\ service \in DOMAIN file.services /\ Loops = LoopsOf(unit) /\ method \in Nat
      /\ loop \in Nat /\ service \in Nat /\ DOMAIN Loops = 1 .. Len(Loops) /\ Len(Loops) \in Nat
      /\ \A s \in DOMAIN file.services : s \in Nat /\ DOMAIN Methods(s) \subseteq Nat \ {0}
  BY <1>1, PlaceOf
<1>3. ScopesOK'
  <2>1. Scope(unit)' = Scope(unit)  BY <1>1 DEF Scope, Namespace
  <2> QED  BY <1>1, <1>2, <2>1 DEF ScopesOK, TurnsOK, Units
<1>4. ASSUME NEW u \in Units, NEW s \in DOMAIN file.services, Turned(u, s, 0, 0)'
      PROVE  Turned(u, s, 0, 0)
  BY <1>1, <1>2, <1>4 DEF Turned
<1>5. ASSUME NEW u \in Units, NEW s \in DOMAIN file.services, NEW n \in DOMAIN LoopsOf(u),
             NEW k \in DOMAIN Methods(s), Turned(u, s, n, k)'
      PROVE  Turned(u, s, n, k)
  <2>1. n \in Nat \ {0} /\ k \in Nat \ {0} /\ s \in Nat  BY <1>2, LoopsOfTypes
  <2>2. u = unit => n < loop  BY <1>1, <1>2
  <2> QED  BY <1>1, <1>2, <1>5, <2>1, <2>2 DEF Turned
<1> QED  BY <1>1, <1>3, <1>4, <1>5, AddsSame, NoneDue

-----------------------------------------------------------------------------
(* The theorem.                                                            *)

\* Nothing changes.
LEMMA StutterDue == ASSUME IInv, TurnsOK, UNCHANGED vars PROVE TurnsOK'
<1>1. /\ UNCHANGED <<file, flags, texts, unit, service, loop, method, tpl, decls, adds, written>>
  BY DEF vars, inputVars, position, printedVars, fileVars
<1>2. ScopesOK'
  <2>1. Scope(unit)' = Scope(unit)  BY <1>1 DEF Scope, Namespace
  <2> QED  BY <1>1, <2>1 DEF ScopesOK, TurnsOK
<1>3. \A u, s, n, k : Turned(u, s, n, k)' => Turned(u, s, n, k)  BY <1>1 DEF Turned
<1> QED  BY <1>1, <1>2, <1>3, AddsSame, NoneDue

\* Every action keeps what has been printed what is due.
LEMMA NextTurns == ASSUME IInv, TurnsOK, [Next]_vars PROVE TurnsOK'
<1>1. CASE RefuseGenericServices \/ RejectOption \/ ReadPastTheEnd
  BY <1>1, StopsDue DEF RefuseGenericServices, RejectOption, ReadPastTheEnd
<1>2. CASE ParseOption  BY <1>2, ParseOptionDue
<1>3. CASE GetHeaderServices \/ WriteHeader \/ WriteSource \/ WriteMock
  BY <1>3, GetHeaderServicesDue, WriteHeaderDue, WriteSourceDue, WriteMockDue
<1>4. CASE OpenService \/ NextLoop \/ CloseService \/ PrintTypedefMixin \/ PrintTypedefBracket
  BY <1>4, OpenServiceDue, NextLoopDue, CloseServiceDue, PrintTypedefMixinDue, PrintTypedefBracketDue
<1>5. CASE \/ PrintHeaderClientMethodInterfaces \/ PrintHeaderClientMethodCallbackInterfaces
           \/ PrintHeaderClientMethod \/ PrintHeaderClientMethodCallback \/ PrintHeaderClientMethodData
  BY <1>5, PrintHeaderClientMethodInterfacesDue, PrintHeaderClientMethodCallbackInterfacesDue,
     PrintHeaderClientMethodDue, PrintHeaderClientMethodCallbackDue, PrintHeaderClientMethodDataDue
<1>6. CASE \/ PrintHeaderServerMethodSync \/ PrintHeaderServerMethodAsync
           \/ PrintHeaderServerMethodCallback \/ PrintHeaderServerMethodGeneric
  BY <1>6, PrintHeaderServerMethodSyncDue, PrintHeaderServerMethodAsyncDue,
     PrintHeaderServerMethodCallbackDue, PrintHeaderServerMethodGenericDue
<1>7. CASE \/ PrintHeaderServerMethodRaw \/ PrintHeaderServerMethodRawCallback
           \/ PrintHeaderServerMethodStreamedUnary \/ PrintHeaderServerMethodSplitStreaming
  BY <1>7, PrintHeaderServerMethodRawDue, PrintHeaderServerMethodRawCallbackDue,
     PrintHeaderServerMethodStreamedUnaryDue, PrintHeaderServerMethodSplitStreamingDue
<1>8. CASE \/ PrintMethodName \/ PrintMethodInit \/ PrintSourceClientMethod
           \/ PrintAddMethod \/ PrintSourceServerMethod \/ PrintMockClientMethods
  BY <1>8, PrintMethodNameDue, PrintMethodInitDue, PrintSourceClientMethodDue,
     PrintAddMethodDue, PrintSourceServerMethodDue, PrintMockClientMethodsDue
<1>9. CASE UNCHANGED vars  BY <1>9, StutterDue
<1>10. CASE Generate
  BY <1>1, <1>2, <1>3, <1>4, <1>5, <1>6, <1>7, <1>8, <1>10 DEF Generate
<1> QED  BY <1>9, <1>10 DEF Next, Returned

\* At every point of a run, for any .proto and any options, what is declared is what the
\* turns behind owe their methods, and nothing else: no template reads what another turn,
\* another service or another unit left in the map of variables.
THEOREM TurnsTheorem == Spec => []TurnsOK
<1>1. Init => IInv /\ TurnsOK  BY InitIInv, InitTurns
<1>2. IInv /\ TurnsOK /\ [Next]_vars => (IInv /\ TurnsOK)'  BY NextKeeps, NextTurns
<1> QED  BY <1>1, <1>2, PTL DEF Spec

\* A declaration as Decl makes it, field by field.
LEMMA DeclFields ==
  ASSUME NEW of, NEW name, NEW params, NEW ret, NEW how
  PROVE  LET d == Decl(of, name, params, ret, how) IN
         /\ DOMAIN d = Fields /\ d.of = of /\ d.name = name /\ d.params = params /\ d.ret = ret /\ d.how = how
         /\ d.call = <<>> /\ d.with = <<>> /\ d.lambda = <<>> /\ ~d.start /\ d.slot = NoSlot
BY DEF Decl, Fields

\* What a body changes.
LEMMA BodyFields ==
  ASSUME NEW d, DOMAIN d = Fields, NEW call, NEW with
  PROVE  LET e == Body(d, call, with) IN
         /\ DOMAIN e = Fields /\ e.of = d.of /\ e.name = d.name /\ e.params = d.params /\ e.ret = d.ret /\ e.how = d.how
         /\ e.call = call /\ e.with = with /\ e.lambda = d.lambda /\ e.start = d.start /\ e.slot = d.slot
BY DEF Body, Fields

\* What a handler changes.
LEMMA InstallingFields ==
  ASSUME NEW d, DOMAIN d = Fields, NEW call, NEW target, NEW lambda
  PROVE  LET e == Installing(d, call, target, lambda) IN
         /\ DOMAIN e = Fields /\ e.of = d.of /\ e.name = d.name /\ e.params = d.params /\ e.ret = d.ret /\ e.how = d.how
         /\ e.call = call /\ e.with = target /\ e.lambda = lambda /\ e.start = d.start /\ e.slot = d.slot
BY DEF Installing, Fields

\* What starting changes.
LEMMA StartingFields ==
  ASSUME NEW d, DOMAIN d = Fields, NEW start
  PROVE  LET e == Starting(d, start) IN
         /\ DOMAIN e = Fields /\ e.of = d.of /\ e.name = d.name /\ e.params = d.params /\ e.ret = d.ret /\ e.how = d.how
         /\ e.call = d.call /\ e.with = d.with /\ e.lambda = d.lambda /\ e.start = start /\ e.slot = d.slot
BY DEF Starting, Fields

\* What a slot changes.
LEMMA OnSlotFields ==
  ASSUME NEW d, DOMAIN d = Fields, NEW slot
  PROVE  LET e == OnSlot(d, slot) IN
         /\ DOMAIN e = Fields /\ e.of = d.of /\ e.name = d.name /\ e.params = d.params /\ e.ret = d.ret /\ e.how = d.how
         /\ e.call = d.call /\ e.with = d.with /\ e.lambda = d.lambda /\ e.start = d.start /\ e.slot = slot
BY DEF OnSlot, Fields

\* A wrapper d hands its arguments to b, for what b returns.
Wraps(d, b) ==
  /\ b.of = d.of /\ b.name = d.call /\ b.params = d.params
  /\ d.ret = IF d.how = "inline" THEN <<"unique_ptr">> \o b.ret ELSE b.ret

\* All parameters are passed on, by names that tell them apart.
Forwards(d) ==
  /\ DOMAIN d.with = DOMAIN d.params
  /\ \A n \in DOMAIN d.params : d.params[n][1] = d.with[n]
  /\ \A k, n \in DOMAIN d.params : d.params[k][1] = d.params[n][1] => k = n

\* A sequence glued from two is read in its two parts.
LEMMA GluedFirst ==
  ASSUME NEW a, NEW b, NEW c, NEW d
  PROVE  <<a>> \o <<b, c, d>> = <<a, b, c, d>>
<1> DEFINE S == {a, b, c, d}
           f == <<a>> \o <<b, c, d>>
           g == <<a, b, c, d>>
<1>1. \A x, y \in Seq(S) : x \o y \in Seq(S)  OBVIOUS
<1>2. <<a>> \in Seq(S) /\ <<b, c, d>> \in Seq(S) /\ g \in Seq(S)  OBVIOUS
<1>3. Len(f) = 4 /\ Len(g) = 4 /\ \A n \in 1 .. 4 : f[n] = g[n]  OBVIOUS
<1>4. f \in Seq(S)  BY <1>1, <1>2
<1> HIDE DEF S, f, g
<1>5. f = g  BY <1>2, <1>3, <1>4, SeqEqual
<1> QED  BY <1>5 DEF f, g

\* The same of a shorter one.
LEMMA GluedTwo ==
  ASSUME NEW a, NEW b, NEW c
  PROVE  <<a>> \o <<b, c>> = <<a, b, c>>
<1> DEFINE S == {a, b, c}
           f == <<a>> \o <<b, c>>
           g == <<a, b, c>>
<1>1. \A x, y \in Seq(S) : x \o y \in Seq(S)  OBVIOUS
<1>2. <<a>> \in Seq(S) /\ <<b, c>> \in Seq(S) /\ g \in Seq(S)  OBVIOUS
<1>3. Len(f) = 3 /\ Len(g) = 3 /\ \A n \in 1 .. 3 : f[n] = g[n]  OBVIOUS
<1>4. f \in Seq(S)  BY <1>1, <1>2
<1> HIDE DEF S, f, g
<1>5. f = g  BY <1>2, <1>3, <1>4, SeqEqual
<1> QED  BY <1>5 DEF f, g

\* The signatures of the client's tables, written once: what each kind of method takes,
\* returns and passes on.
Iface(ret) == <<Head(ret), "Interface">> \o Tail(ret)

\* The parameters of a synchronous stub function after the context.
SyncParams(m, v) ==
  IF NoStreaming(m) THEN <<Context, RequestRef(v), ResponsePtr(v)>>
  ELSE IF ClientOnlyStreaming(m) THEN <<Context, ResponsePtr(v)>>
  ELSE IF ServerOnlyStreaming(m) THEN <<Context, RequestRef(v)>>
  ELSE <<Context>>

\* What its wrapper and its definition pass on.
SyncWith(m) ==
  IF NoStreaming(m) THEN <<"context", "request", "response">>
  ELSE IF ClientOnlyStreaming(m) THEN <<"context", "response">>
  ELSE IF ServerOnlyStreaming(m) THEN <<"context", "request">>
  ELSE <<"context">>

\* What it returns.
SyncRet(m, v) ==
  IF NoStreaming(m) THEN <<"Status">>
  ELSE IF ClientOnlyStreaming(m) THEN <<"ClientWriter", v.Request>>
  ELSE IF ServerOnlyStreaming(m) THEN <<"ClientReader", v.Response>>
  ELSE <<"ClientReaderWriter", v.Request, v.Response>>

\* The parameters of an asynchronous stub function: a queue, and a tag when it starts the call.
AsyncParams(m, v, p) ==
  IF NoStreaming(m) THEN <<Context, RequestRef(v), Queue>>
  ELSE IF ClientOnlyStreaming(m) THEN <<Context, ResponsePtr(v), Queue>> \o p.params
  ELSE IF ServerOnlyStreaming(m) THEN <<Context, RequestRef(v), Queue>> \o p.params
  ELSE <<Context, Queue>> \o p.params

\* What its wrapper passes on.
AsyncWith(m, p) ==
  IF NoStreaming(m) THEN <<"context", "request", "cq">>
  ELSE IF ClientOnlyStreaming(m) THEN <<"context", "response", "cq">> \o p.args
  ELSE IF ServerOnlyStreaming(m) THEN <<"context", "request", "cq">> \o p.args
  ELSE <<"context", "cq">> \o p.args

\* What it returns.
AsyncRet(m, v) ==
  IF NoStreaming(m) THEN <<"ClientAsyncResponseReader", v.Response>>
  ELSE IF ClientOnlyStreaming(m) THEN <<"ClientAsyncWriter", v.Request>>
  ELSE IF ServerOnlyStreaming(m) THEN <<"ClientAsyncReader", v.Response>>
  ELSE <<"ClientAsyncReaderWriter", v.Request, v.Response>>

\* A unary call: the one function that is neither wrapped nor raw.
Plain(of, m, v, how) == Decl(of, v.Method, SyncParams(m, v), <<"Status">>, how)

\* The wrapper of a synchronous streaming call.
SyncWrapper(of, m, v, ret) ==
  Body(Decl(of, v.Method, SyncParams(m, v), <<"unique_ptr">> \o ret, "inline"), v.Method \o Raw, SyncWith(m))

\* What that wrapper calls.
SyncRaw(of, m, v, ret, how) == Decl(of, v.Method \o Raw, SyncParams(m, v), ret, how)

\* The wrapper of an asynchronous call.
AsyncWrapper(of, m, v, p, ret) ==
  Body(Decl(of, p.prefix \o v.Method, AsyncParams(m, v, p), <<"unique_ptr">> \o ret, "inline"),
       p.prefix \o v.Method \o Raw, AsyncWith(m, p))

\* What that wrapper calls.
AsyncRaw(of, m, v, p, ret, how) == Decl(of, p.prefix \o v.Method \o Raw, AsyncParams(m, v, p), ret, how)

\* The public functions a method is due, each template read at once.
PublicForm(of, m, v, cq, sync, async, how) ==
  (IF NoStreaming(m) THEN {Plain(of, m, v, how)} ELSE {SyncWrapper(of, m, v, sync)})
  \cup When(cq, {AsyncWrapper(of, m, v, p, async) : p \in AsyncPrefixes})

\* The private functions a method is due, read the same way.
PrivateForm(of, m, v, cq, sync, async, how) ==
  (IF NoStreaming(m) THEN {} ELSE {SyncRaw(of, m, v, sync, how)})
  \cup When(cq, {AsyncRaw(of, m, v, p, async, how) : p \in AsyncPrefixes})

\* An interface type ends as the type it stands for does.
LEMMA IfaceOf ==
  ASSUME NEW a, NEW b, NEW c
  PROVE  Iface(<<a, b>>) = <<a, "Interface", b>> /\ Iface(<<a, b, c>>) = <<a, "Interface", b, c>>
<1> DEFINE S == {a, b, c, "Interface"}
           f == Iface(<<a, b>>)
           g == <<a, "Interface", b>>
           p == Iface(<<a, b, c>>)
           q == <<a, "Interface", b, c>>
<1>1. \A x, y \in Seq(S) : x \o y \in Seq(S)  OBVIOUS
<1>2. Head(<<a, b>>) = a /\ Tail(<<a, b>>) = <<b>> /\ Head(<<a, b, c>>) = a /\ Tail(<<a, b, c>>) = <<b, c>>
  OBVIOUS
<1>3. <<a, "Interface">> \in Seq(S) /\ <<b>> \in Seq(S) /\ <<b, c>> \in Seq(S) /\ g \in Seq(S) /\ q \in Seq(S)
  OBVIOUS
<1>4. f \in Seq(S) /\ p \in Seq(S)  BY <1>1, <1>2, <1>3 DEF Iface
<1>5. Len(f) = 3 /\ Len(g) = 3 /\ \A n \in 1 .. 3 : f[n] = g[n]  BY <1>2 DEF Iface
<1>6. Len(p) = 4 /\ Len(q) = 4 /\ \A n \in 1 .. 4 : p[n] = q[n]  BY <1>2 DEF Iface
<1> HIDE DEF S, f, g, p, q
<1>7. f = g /\ p = q  BY <1>3, <1>4, <1>5, <1>6, SeqEqual
<1> QED  BY <1>7 DEF f, g, p, q

\* The types of the interface, method by method.
LEMMA IfaceRets ==
  ASSUME NEW v
  PROVE  /\ Iface(<<"ClientAsyncResponseReader", v.Response>>) = <<"ClientAsyncResponseReader", "Interface", v.Response>>
         /\ Iface(<<"ClientWriter", v.Request>>) = <<"ClientWriter", "Interface", v.Request>>
         /\ Iface(<<"ClientReader", v.Response>>) = <<"ClientReader", "Interface", v.Response>>
         /\ Iface(<<"ClientReaderWriter", v.Request, v.Response>>) = <<"ClientReaderWriter", "Interface", v.Request, v.Response>>
         /\ Iface(<<"ClientAsyncWriter", v.Request>>) = <<"ClientAsyncWriter", "Interface", v.Request>>
         /\ Iface(<<"ClientAsyncReader", v.Response>>) = <<"ClientAsyncReader", "Interface", v.Response>>
         /\ Iface(<<"ClientAsyncReaderWriter", v.Request, v.Response>>)
              = <<"ClientAsyncReaderWriter", "Interface", v.Request, v.Response>>
BY IfaceOf

\* A pointer to the reader of a unary call.
LEMMA UnaryRets ==
  ASSUME NEW v
  PROVE  /\ <<"unique_ptr">> \o <<"ClientAsyncResponseReader", v.Response>>
              = <<"unique_ptr", "ClientAsyncResponseReader", v.Response>>
         /\ <<"unique_ptr">> \o <<"ClientAsyncResponseReader", "Interface", v.Response>>
              = <<"unique_ptr", "ClientAsyncResponseReader", "Interface", v.Response>>
BY GluedTwo, GluedFirst

\* The public templates of the interface are PublicForm.
LEMMA PublicInterfacesForm ==
  ASSUME NEW m, Kind(m), NEW v, NEW cq \in BOOLEAN
  PROVE  PublicInterfaces(m, v, cq) = PublicForm(StubInterface, m, v, cq, Iface(SyncRet(m, v)), Iface(AsyncRet(m, v)), "pure")
<1>1. CASE NoStreaming(m)
  BY ZenonT(40), <1>1, IfaceRets, UnaryRets
     DEF PublicInterfaces, PublicForm, SyncParams, SyncWith, SyncRet, AsyncParams, AsyncWith,
     AsyncRet, Plain, SyncWrapper, SyncRaw, AsyncWrapper, AsyncRaw,
         Kind, NoStreaming, ClientOnlyStreaming, ServerOnlyStreaming, BidiStreaming
<1>2. CASE ClientOnlyStreaming(m)
  BY ZenonT(40), <1>2, IfaceRets, UnaryRets
     DEF PublicInterfaces, PublicForm, SyncParams, SyncWith, SyncRet, AsyncParams, AsyncWith,
     AsyncRet, Plain, SyncWrapper, SyncRaw, AsyncWrapper, AsyncRaw,
         Kind, NoStreaming, ClientOnlyStreaming, ServerOnlyStreaming, BidiStreaming
<1>3. CASE ServerOnlyStreaming(m)
  BY ZenonT(40), <1>3, IfaceRets, UnaryRets
     DEF PublicInterfaces, PublicForm, SyncParams, SyncWith, SyncRet, AsyncParams, AsyncWith,
     AsyncRet, Plain, SyncWrapper, SyncRaw, AsyncWrapper, AsyncRaw,
         Kind, NoStreaming, ClientOnlyStreaming, ServerOnlyStreaming, BidiStreaming
<1>4. CASE BidiStreaming(m)
  BY ZenonT(40), <1>4, IfaceRets, UnaryRets
     DEF PublicInterfaces, PublicForm, SyncParams, SyncWith, SyncRet, AsyncParams, AsyncWith,
     AsyncRet, Plain, SyncWrapper, SyncRaw, AsyncWrapper, AsyncRaw,
         Kind, NoStreaming, ClientOnlyStreaming, ServerOnlyStreaming, BidiStreaming
<1> QED  BY <1>1, <1>2, <1>3, <1>4, FourKinds

\* The private templates of the interface are PrivateForm.
LEMMA PrivateInterfacesForm ==
  ASSUME NEW m, Kind(m), NEW v, NEW cq \in BOOLEAN
  PROVE  PrivateInterfaces(m, v, cq) = PrivateForm(StubInterface, m, v, cq, Iface(SyncRet(m, v)), Iface(AsyncRet(m, v)), "pure")
<1>1. CASE NoStreaming(m)
  BY <1>1, IfaceRets, UnaryRets
     DEF PrivateInterfaces, PrivateForm, SyncParams, SyncWith, SyncRet, AsyncParams, AsyncWith,
     AsyncRet, Plain, SyncWrapper, SyncRaw, AsyncWrapper, AsyncRaw,
         Kind, NoStreaming, ClientOnlyStreaming, ServerOnlyStreaming, BidiStreaming
<1>2. CASE ClientOnlyStreaming(m)
  BY <1>2, IfaceRets, UnaryRets
     DEF PrivateInterfaces, PrivateForm, SyncParams, SyncWith, SyncRet, AsyncParams, AsyncWith,
     AsyncRet, Plain, SyncWrapper, SyncRaw, AsyncWrapper, AsyncRaw,
         Kind, NoStreaming, ClientOnlyStreaming, ServerOnlyStreaming, BidiStreaming
<1>3. CASE ServerOnlyStreaming(m)
  BY ZenonT(40), <1>3, IfaceRets, UnaryRets
     DEF PrivateInterfaces, PrivateForm, SyncParams, SyncWith, SyncRet, AsyncParams, AsyncWith,
     AsyncRet, Plain, SyncWrapper, SyncRaw, AsyncWrapper, AsyncRaw,
         Kind, NoStreaming, ClientOnlyStreaming, ServerOnlyStreaming, BidiStreaming
<1>4. CASE BidiStreaming(m)
  BY <1>4, IfaceRets, UnaryRets
     DEF PrivateInterfaces, PrivateForm, SyncParams, SyncWith, SyncRet, AsyncParams, AsyncWith,
     AsyncRet, Plain, SyncWrapper, SyncRaw, AsyncWrapper, AsyncRaw,
         Kind, NoStreaming, ClientOnlyStreaming, ServerOnlyStreaming, BidiStreaming
<1> QED  BY <1>1, <1>2, <1>3, <1>4, FourKinds

\* The public templates of the stub are PublicForm.
LEMMA PublicMethodsForm ==
  ASSUME NEW m, Kind(m), NEW v, NEW cq \in BOOLEAN
  PROVE  PublicMethods(m, v, cq) = PublicForm(Stub, m, v, cq, SyncRet(m, v), AsyncRet(m, v), "override")
<1>1. CASE NoStreaming(m)
  BY <1>1, IfaceRets, UnaryRets
     DEF PublicMethods, PublicForm, SyncParams, SyncWith, SyncRet, AsyncParams, AsyncWith,
     AsyncRet, Plain, SyncWrapper, SyncRaw, AsyncWrapper, AsyncRaw,
         Kind, NoStreaming, ClientOnlyStreaming, ServerOnlyStreaming, BidiStreaming
<1>2. CASE ClientOnlyStreaming(m)
  BY <1>2, IfaceRets, UnaryRets
     DEF PublicMethods, PublicForm, SyncParams, SyncWith, SyncRet, AsyncParams, AsyncWith,
     AsyncRet, Plain, SyncWrapper, SyncRaw, AsyncWrapper, AsyncRaw,
         Kind, NoStreaming, ClientOnlyStreaming, ServerOnlyStreaming, BidiStreaming
<1>3. CASE ServerOnlyStreaming(m)
  BY <1>3, IfaceRets, UnaryRets
     DEF PublicMethods, PublicForm, SyncParams, SyncWith, SyncRet, AsyncParams, AsyncWith,
     AsyncRet, Plain, SyncWrapper, SyncRaw, AsyncWrapper, AsyncRaw,
         Kind, NoStreaming, ClientOnlyStreaming, ServerOnlyStreaming, BidiStreaming
<1>4. CASE BidiStreaming(m)
  BY <1>4, IfaceRets, UnaryRets
     DEF PublicMethods, PublicForm, SyncParams, SyncWith, SyncRet, AsyncParams, AsyncWith,
     AsyncRet, Plain, SyncWrapper, SyncRaw, AsyncWrapper, AsyncRaw,
         Kind, NoStreaming, ClientOnlyStreaming, ServerOnlyStreaming, BidiStreaming
<1> QED  BY <1>1, <1>2, <1>3, <1>4, FourKinds

\* The private templates of the stub are PrivateForm.
LEMMA PrivateMethodsForm ==
  ASSUME NEW m, Kind(m), NEW v, NEW cq \in BOOLEAN
  PROVE  PrivateMethods(m, v, cq) = PrivateForm(Stub, m, v, cq, SyncRet(m, v), AsyncRet(m, v), "override")
<1>1. CASE NoStreaming(m)
  BY <1>1, IfaceRets, UnaryRets
     DEF PrivateMethods, PrivateForm, SyncParams, SyncWith, SyncRet, AsyncParams, AsyncWith,
     AsyncRet, Plain, SyncWrapper, SyncRaw, AsyncWrapper, AsyncRaw,
         Kind, NoStreaming, ClientOnlyStreaming, ServerOnlyStreaming, BidiStreaming
<1>2. CASE ClientOnlyStreaming(m)
  BY <1>2, IfaceRets, UnaryRets
     DEF PrivateMethods, PrivateForm, SyncParams, SyncWith, SyncRet, AsyncParams, AsyncWith,
     AsyncRet, Plain, SyncWrapper, SyncRaw, AsyncWrapper, AsyncRaw,
         Kind, NoStreaming, ClientOnlyStreaming, ServerOnlyStreaming, BidiStreaming
<1>3. CASE ServerOnlyStreaming(m)
  BY <1>3, IfaceRets, UnaryRets
     DEF PrivateMethods, PrivateForm, SyncParams, SyncWith, SyncRet, AsyncParams, AsyncWith,
     AsyncRet, Plain, SyncWrapper, SyncRaw, AsyncWrapper, AsyncRaw,
         Kind, NoStreaming, ClientOnlyStreaming, ServerOnlyStreaming, BidiStreaming
<1>4. CASE BidiStreaming(m)
  BY <1>4, IfaceRets, UnaryRets
     DEF PrivateMethods, PrivateForm, SyncParams, SyncWith, SyncRet, AsyncParams, AsyncWith,
     AsyncRet, Plain, SyncWrapper, SyncRaw, AsyncWrapper, AsyncRaw,
         Kind, NoStreaming, ClientOnlyStreaming, ServerOnlyStreaming, BidiStreaming
<1> QED  BY <1>1, <1>2, <1>3, <1>4, FourKinds

\* What Stub::async takes after the context.
CallbackParams(m, v) ==
  IF NoStreaming(m) THEN {<<RequestPtr(v), ResponsePtr(v), <<"", "function">> >>,
                          <<RequestPtr(v), ResponsePtr(v), <<"reactor", "ClientUnaryReactor">> >>}
  ELSE IF ClientOnlyStreaming(m) THEN {<<ResponsePtr(v), <<"reactor", "ClientWriteReactor", v.Request>> >>}
  ELSE IF ServerOnlyStreaming(m) THEN {<<RequestPtr(v), <<"reactor", "ClientReadReactor", v.Response>> >>}
  ELSE {<< <<"reactor", "ClientBidiReactor", v.Request, v.Response>> >>}

\* Its bodies name the function they are given.
CallbackBodies(m, v) ==
  IF NoStreaming(m) THEN {[params |-> <<RequestPtr(v), ResponsePtr(v), <<"f", "function">> >>,
                           with |-> <<"context", "request", "response", "f">>],
                          [params |-> <<RequestPtr(v), ResponsePtr(v), <<"reactor", "ClientUnaryReactor">> >>,
                           with |-> <<"context", "request", "response", "reactor">>]}
  ELSE IF ClientOnlyStreaming(m)
       THEN {[params |-> <<ResponsePtr(v), <<"reactor", "ClientWriteReactor", v.Request>> >>,
              with |-> <<"context", "response", "reactor">>]}
  ELSE IF ServerOnlyStreaming(m)
       THEN {[params |-> <<RequestPtr(v), <<"reactor", "ClientReadReactor", v.Response>> >>,
              with |-> <<"context", "request", "reactor">>]}
  ELSE {[params |-> << <<"reactor", "ClientBidiReactor", v.Request, v.Response>> >>,
         with |-> <<"context", "reactor">>]}

\* The callback functions of a method, in a class of the stub.
Callbacks(of, m, v, how) ==
  {Decl(of, v.Method, <<Context>> \o q, <<"void">>, how) : q \in CallbackParams(m, v)}

\* The definition of one of them.
CallbackDefined(v, c) ==
  Defined(StubAsync, v.Method, <<Context>> \o c.params, <<"void">>, RpcMethod(v), c.with)

\* The definition of the synchronous function.
SyncDefined(m, v) ==
  Defined(Stub, IF NoStreaming(m) THEN v.Method ELSE v.Method \o Raw, SyncParams(m, v), SyncRet(m, v),
          RpcMethod(v), SyncWith(m))

\* What the definition of an asynchronous function calls.
AsyncCall(m, v, p) ==
  IF NoStreaming(m) /\ p.start THEN <<"PrepareAsync">> \o v.Method \o Raw ELSE RpcMethod(v)

\* And the arguments it calls it with.
AsyncArgs(m, p) ==
  IF ~NoStreaming(m) THEN <<"cq">> \o SyncWith(m) \o p.create
  ELSE IF p.start THEN <<"context", "request", "cq">> ELSE <<"cq", "context", "request">>

\* The definition of an asynchronous function.
AsyncDefined(m, v, p) ==
  Starting(Defined(Stub, p.prefix \o v.Method \o Raw, AsyncParams(m, v, p), AsyncRet(m, v),
                   AsyncCall(m, v, p), AsyncArgs(m, p)), p.start)

\* The definitions a method is due in the source.
SourceForm(m, v, cq) ==
  {SyncDefined(m, v)} \cup {CallbackDefined(v, c) : c \in CallbackBodies(m, v)}
  \cup When(cq, {AsyncDefined(m, v, p) : p \in AsyncPrefixes})

\* The words before the message in the parameters of a synchronous call.
SyncCount(m) == IF NoStreaming(m) THEN 3 ELSE IF BidiStreaming(m) THEN 1 ELSE 2

\* The same of an asynchronous one.
AsyncCount(m, p) ==
  IF NoStreaming(m) THEN 3 ELSE IF BidiStreaming(m) THEN 2 + p.extra ELSE 3 + p.extra

\* The mocks a method is due.
MockForm(m, v, cq) ==
  {MockMethod(SyncCount(m), IF NoStreaming(m) THEN v.Method ELSE v.Method \o Raw,
              IF NoStreaming(m) THEN <<"Status">> ELSE Iface(SyncRet(m, v)), SyncParams(m, v))}
  \cup When(cq, {MockMethod(AsyncCount(m, p), p.prefix \o v.Method \o Raw, Iface(AsyncRet(m, v)),
                            AsyncParams(m, v, p)) : p \in AsyncPrefixes})

\* async_interface.
LEMMA CallbackInterfacesForm ==
  ASSUME NEW m, Kind(m), NEW v
  PROVE  CallbackInterfaces(m, v) = Callbacks(AsyncInterface, m, v, "pure")
<1>1. CASE NoStreaming(m)
  BY <1>1
     DEF CallbackInterfaces, Callbacks, CallbackParams, Kind, NoStreaming, ClientOnlyStreaming,
     ServerOnlyStreaming, BidiStreaming
<1>2. CASE ClientOnlyStreaming(m)
  BY <1>2
     DEF CallbackInterfaces, Callbacks, CallbackParams, Kind, NoStreaming, ClientOnlyStreaming,
     ServerOnlyStreaming, BidiStreaming
<1>3. CASE ServerOnlyStreaming(m)
  BY <1>3
     DEF CallbackInterfaces, Callbacks, CallbackParams, Kind, NoStreaming, ClientOnlyStreaming,
     ServerOnlyStreaming, BidiStreaming
<1>4. CASE BidiStreaming(m)
  BY <1>4
     DEF CallbackInterfaces, Callbacks, CallbackParams, Kind, NoStreaming, ClientOnlyStreaming,
     ServerOnlyStreaming, BidiStreaming
<1> QED  BY <1>1, <1>2, <1>3, <1>4, FourKinds

\* Stub::async.
LEMMA CallbackMethodsForm ==
  ASSUME NEW m, Kind(m), NEW v
  PROVE  CallbackMethods(m, v) = Callbacks(StubAsync, m, v, "override")
<1>1. CASE NoStreaming(m)
  BY <1>1
     DEF CallbackMethods, Callbacks, CallbackParams, Kind, NoStreaming, ClientOnlyStreaming,
     ServerOnlyStreaming, BidiStreaming
<1>2. CASE ClientOnlyStreaming(m)
  BY <1>2
     DEF CallbackMethods, Callbacks, CallbackParams, Kind, NoStreaming, ClientOnlyStreaming,
     ServerOnlyStreaming, BidiStreaming
<1>3. CASE ServerOnlyStreaming(m)
  BY <1>3
     DEF CallbackMethods, Callbacks, CallbackParams, Kind, NoStreaming, ClientOnlyStreaming,
     ServerOnlyStreaming, BidiStreaming
<1>4. CASE BidiStreaming(m)
  BY <1>4
     DEF CallbackMethods, Callbacks, CallbackParams, Kind, NoStreaming, ClientOnlyStreaming,
     ServerOnlyStreaming, BidiStreaming
<1> QED  BY <1>1, <1>2, <1>3, <1>4, FourKinds

\* The two prefixes.
LEMMA Prefixes ==
  /\ \A p \in AsyncPrefixes : p.params \in Seq({Tag}) /\ p.extra = Len(p.params) /\ p.start \in BOOLEAN
  /\ \E p \in AsyncPrefixes : p.start /\ p.prefix = <<"Async">>
  /\ \E p \in AsyncPrefixes : ~p.start /\ p.prefix = <<"PrepareAsync">>
  /\ \A p \in AsyncPrefixes : IF p.start THEN p.prefix = <<"Async">> ELSE p.prefix = <<"PrepareAsync">>
BY DEF AsyncPrefixes

\* Starting what is not started.
LEMMA NotStarting ==
  ASSUME NEW of, NEW name, NEW params, NEW ret, NEW call, NEW with
  PROVE  Starting(Defined(of, name, params, ret, call, with), FALSE) = Defined(of, name, params, ret, call, with)
<1> DEFINE d == Defined(of, name, params, ret, call, with)
<1>1. DOMAIN d = Fields /\ ~d.start
  <2> DEFINE e == Decl(of, name, params, ret, "defined")
  <2>1. DOMAIN e = Fields /\ ~e.start  BY DeclFields
  <2> HIDE DEF e
  <2>2. DOMAIN Body(e, call, with) = Fields /\ Body(e, call, with).start = e.start
    BY <2>1, BodyFields
  <2> QED  BY <2>1, <2>2 DEF Defined, e
<1>2. d = [x \in DOMAIN d |-> d[x]]  BY DEF Defined, Body
<1> HIDE DEF d
<1>3. Starting(d, FALSE) = d  BY <1>1, <1>2 DEF Starting, Fields
<1> QED  BY <1>3 DEF d

\* The mock.
LEMMA MockMethodsForm ==
  ASSUME NEW m, Kind(m), NEW v, NEW cq \in BOOLEAN
  PROVE  MockMethods(m, v, cq) = MockForm(m, v, cq)
<1>1. CASE NoStreaming(m)
  BY <1>1, IfaceRets
     DEF MockMethods, MockForm, SyncCount, AsyncCount, SyncParams, SyncRet, AsyncParams, AsyncRet,
     Kind, NoStreaming, ClientOnlyStreaming, ServerOnlyStreaming, BidiStreaming
<1>2. CASE ClientOnlyStreaming(m)
  BY <1>2, IfaceRets
     DEF MockMethods, MockForm, SyncCount, AsyncCount, SyncParams, SyncRet, AsyncParams, AsyncRet,
     Kind, NoStreaming, ClientOnlyStreaming, ServerOnlyStreaming, BidiStreaming
<1>3. CASE ServerOnlyStreaming(m)
  BY ZenonT(40), <1>3, IfaceRets
     DEF MockMethods, MockForm, SyncCount, AsyncCount, SyncParams, SyncRet, AsyncParams, AsyncRet,
     Kind, NoStreaming, ClientOnlyStreaming, ServerOnlyStreaming, BidiStreaming
<1>4. CASE BidiStreaming(m)
  BY ZenonT(40), <1>4, IfaceRets
     DEF MockMethods, MockForm, SyncCount, AsyncCount, SyncParams, SyncRet, AsyncParams, AsyncRet,
     Kind, NoStreaming, ClientOnlyStreaming, ServerOnlyStreaming, BidiStreaming
<1> QED  BY <1>1, <1>2, <1>3, <1>4, FourKinds

\* The source.
LEMMA SourceClientForm ==
  ASSUME NEW m, Kind(m), NEW v, NEW cq \in BOOLEAN
  PROVE  SourceClientMethod(m, v, cq) = SourceForm(m, v, cq)
<1>1. CASE NoStreaming(m)
  <2> DEFINE Begun == Starting(Defined(Stub, <<"Async">> \o v.Method \o Raw, <<Context, RequestRef(v), Queue>>,
                                       <<"ClientAsyncResponseReader", v.Response>>,
                                       <<"PrepareAsync">> \o v.Method \o Raw, <<"context", "request", "cq">>), TRUE)
             Prepared == Defined(Stub, <<"PrepareAsync">> \o v.Method \o Raw, <<Context, RequestRef(v), Queue>>,
                                 <<"ClientAsyncResponseReader", v.Response>>,
                                 RpcMethod(v), <<"cq", "context", "request">>)
  <2>1. ASSUME NEW p \in AsyncPrefixes
        PROVE  AsyncDefined(m, v, p) = IF p.start THEN Begun ELSE Prepared
    <3>1. CASE p.start
      BY <1>1, <3>1, Prefixes DEF AsyncDefined, AsyncCall, AsyncArgs, AsyncParams, AsyncRet
    <3>2. CASE ~p.start
      <4>1. p.start = FALSE /\ p.prefix = <<"PrepareAsync">>  BY <3>2, Prefixes
      <4>2. AsyncDefined(m, v, p) = Starting(Prepared, FALSE)
        BY <1>1, <4>1 DEF AsyncDefined, AsyncCall, AsyncArgs, AsyncParams, AsyncRet
      <4> QED  BY <3>2, <4>2, NotStarting
    <3> QED  BY <3>1, <3>2
  <2>2. {AsyncDefined(m, v, p) : p \in AsyncPrefixes} = {Begun, Prepared}
    BY <2>1, Prefixes
  <2>3. {CallbackDefined(v, c) : c \in CallbackBodies(m, v)}
        = {Defined(StubAsync, v.Method, <<Context, RequestPtr(v), ResponsePtr(v), <<"f", "function">> >>, <<"void">>,
                   RpcMethod(v), <<"context", "request", "response", "f">>),
           Defined(StubAsync, v.Method, <<Context, RequestPtr(v), ResponsePtr(v), <<"reactor", "ClientUnaryReactor">> >>,
                   <<"void">>, RpcMethod(v), <<"context", "request", "response", "reactor">>)}
    <3>1. ASSUME NEW f
          PROVE  <<Context>> \o <<RequestPtr(v), ResponsePtr(v), f>> = <<Context, RequestPtr(v), ResponsePtr(v), f>>
      BY GluedFirst
    <3>2. \A a, b : CallbackDefined(v, [params |-> <<RequestPtr(v), ResponsePtr(v), a>>, with |-> b])
            = Defined(StubAsync, v.Method, <<Context, RequestPtr(v), ResponsePtr(v), a>>, <<"void">>, RpcMethod(v), b)
      BY <3>1 DEF CallbackDefined
    <3> QED  BY <1>1, <3>2 DEF CallbackBodies
  <2>4. SyncDefined(m, v) = Defined(Stub, v.Method, <<Context, RequestRef(v), ResponsePtr(v)>>, <<"Status">>,
                                    RpcMethod(v), <<"context", "request", "response">>)
    BY <1>1 DEF SyncDefined, SyncParams, SyncRet, SyncWith
  <2>5. SourceClientMethod(m, v, cq) = SourceUnary(v, cq)  BY <1>1 DEF SourceClientMethod
  <2> HIDE DEF Begun, Prepared
  <2>6. SourceForm(m, v, cq) = {SyncDefined(m, v)} \cup {CallbackDefined(v, c) : c \in CallbackBodies(m, v)}
                               \cup When(cq, {Begun, Prepared})
    BY <2>2 DEF SourceForm
  <2> QED  BY <2>3, <2>4, <2>5, <2>6 DEF SourceUnary, When, Begun, Prepared
<1>2. CASE ClientOnlyStreaming(m)
  BY <1>2
     DEF SourceClientMethod, SourceForm, SourceUnary, SourceStreaming, SyncDefined,
     CallbackDefined, CallbackBodies, AsyncDefined, AsyncCall, AsyncArgs, SyncParams, SyncWith,
     SyncRet, AsyncParams, AsyncRet, Kind, NoStreaming, ClientOnlyStreaming, ServerOnlyStreaming,
     BidiStreaming
<1>3. CASE ServerOnlyStreaming(m)
  BY <1>3
     DEF SourceClientMethod, SourceForm, SourceUnary, SourceStreaming, SyncDefined,
     CallbackDefined, CallbackBodies, AsyncDefined, AsyncCall, AsyncArgs, SyncParams, SyncWith,
     SyncRet, AsyncParams, AsyncRet, Kind, NoStreaming, ClientOnlyStreaming, ServerOnlyStreaming,
     BidiStreaming
<1>4. CASE BidiStreaming(m)
  BY <1>4
     DEF SourceClientMethod, SourceForm, SourceUnary, SourceStreaming, SyncDefined,
     CallbackDefined, CallbackBodies, AsyncDefined, AsyncCall, AsyncArgs, SyncParams, SyncWith,
     SyncRet, AsyncParams, AsyncRet, Kind, NoStreaming, ClientOnlyStreaming, ServerOnlyStreaming,
     BidiStreaming
<1> QED  BY <1>1, <1>2, <1>3, <1>4, FourKinds

\* The server's signatures.
ServerParams(m, v) ==
  <<ServerContext>> \o
  (IF NoStreaming(m) THEN <<RequestPtr(v), ResponsePtr(v)>>
   ELSE IF ClientOnlyStreaming(m) THEN <<Reader(v), ResponsePtr(v)>>
   ELSE IF ServerOnlyStreaming(m) THEN <<RequestPtr(v), Writer(v)>>
   ELSE <<Stream(v)>>)

\* The parameters of the callback handler of a method.
ReactorParams(m, v) ==
  <<CallbackContext>> \o
  (IF NoStreaming(m) THEN <<RealRequestPtr(v), RealResponsePtr(v)>>
   ELSE IF ClientOnlyStreaming(m) THEN <<RealResponsePtr(v)>>
   ELSE IF ServerOnlyStreaming(m) THEN <<RealRequestPtr(v)>>
   ELSE <<>>)

\* The Service class.
LEMMA SyncMethodForm ==
  ASSUME NEW m, Kind(m), NEW v, NEW sync \in BOOLEAN
  PROVE  SyncMethod(m, v, sync)
           = {Decl(Service, v.Method, ServerParams(m, v), <<"Status">>, IF sync THEN "virtual" ELSE "declared")}
<1>1. CASE NoStreaming(m)
  BY <1>1
     DEF SyncMethod, ServerParams, Kind, NoStreaming, ClientOnlyStreaming, ServerOnlyStreaming,
     BidiStreaming
<1>2. CASE ClientOnlyStreaming(m)
  BY <1>2
     DEF SyncMethod, ServerParams, Kind, NoStreaming, ClientOnlyStreaming, ServerOnlyStreaming,
     BidiStreaming
<1>3. CASE ServerOnlyStreaming(m)
  BY <1>3
     DEF SyncMethod, ServerParams, Kind, NoStreaming, ClientOnlyStreaming, ServerOnlyStreaming,
     BidiStreaming
<1>4. CASE BidiStreaming(m)
  BY <1>4
     DEF SyncMethod, ServerParams, Kind, NoStreaming, ClientOnlyStreaming, ServerOnlyStreaming,
     BidiStreaming
<1> QED  BY <1>1, <1>2, <1>3, <1>4, FourKinds

\* A disabled synchronous version.
LEMMA SyncDisabledForm ==
  ASSUME NEW m, Kind(m), NEW v, NEW of
  PROVE  SyncDisabled(of, m, v)
           = {Body(Decl(of, v.Method, ServerParams(m, v), <<"Status">>, "override"), <<"abort">>, <<>>)}
<1>1. CASE NoStreaming(m)
  BY <1>1
     DEF SyncDisabled, ServerParams, Kind, NoStreaming, ClientOnlyStreaming, ServerOnlyStreaming,
     BidiStreaming
<1>2. CASE ClientOnlyStreaming(m)
  BY <1>2
     DEF SyncDisabled, ServerParams, Kind, NoStreaming, ClientOnlyStreaming, ServerOnlyStreaming,
     BidiStreaming
<1>3. CASE ServerOnlyStreaming(m)
  BY <1>3
     DEF SyncDisabled, ServerParams, Kind, NoStreaming, ClientOnlyStreaming, ServerOnlyStreaming,
     BidiStreaming
<1>4. CASE BidiStreaming(m)
  BY <1>4
     DEF SyncDisabled, ServerParams, Kind, NoStreaming, ClientOnlyStreaming, ServerOnlyStreaming,
     BidiStreaming
<1> QED  BY <1>1, <1>2, <1>3, <1>4, FourKinds

\* Its default implementation.
LEMMA SourceServerForm ==
  ASSUME NEW m, Kind(m), NEW v, NEW sync \in BOOLEAN
  PROVE  SourceServerMethod(m, v, sync)
           = {Body(Decl(Service, v.Method, ServerParams(m, v), <<"Status">>, "defined"),
                   IF sync THEN <<>> ELSE <<"abort">>, <<>>)}
<1>1. CASE NoStreaming(m)
  BY <1>1
     DEF SourceServerMethod, ServerParams, Kind, NoStreaming, ClientOnlyStreaming,
     ServerOnlyStreaming, BidiStreaming
<1>2. CASE ClientOnlyStreaming(m)
  BY <1>2
     DEF SourceServerMethod, ServerParams, Kind, NoStreaming, ClientOnlyStreaming,
     ServerOnlyStreaming, BidiStreaming
<1>3. CASE ServerOnlyStreaming(m)
  BY <1>3
     DEF SourceServerMethod, ServerParams, Kind, NoStreaming, ClientOnlyStreaming,
     ServerOnlyStreaming, BidiStreaming
<1>4. CASE BidiStreaming(m)
  BY <1>4
     DEF SourceServerMethod, ServerParams, Kind, NoStreaming, ClientOnlyStreaming,
     ServerOnlyStreaming, BidiStreaming
<1> QED  BY <1>1, <1>2, <1>3, <1>4, FourKinds

\* An entry of the method table.
LEMMA AddMethodForm ==
  ASSUME NEW m, Kind(m), NEW v
  PROVE  AddMethod(m, v).call = v.Method /\ AddMethod(m, v).lambda = ServerParams(m, v)
<1>1. CASE NoStreaming(m)
  BY <1>1
     DEF AddMethod, ServerParams, Kind, NoStreaming, ClientOnlyStreaming, ServerOnlyStreaming,
     BidiStreaming
<1>2. CASE ClientOnlyStreaming(m)
  BY <1>2
     DEF AddMethod, ServerParams, Kind, NoStreaming, ClientOnlyStreaming, ServerOnlyStreaming,
     BidiStreaming
<1>3. CASE ServerOnlyStreaming(m)
  BY <1>3
     DEF AddMethod, ServerParams, Kind, NoStreaming, ClientOnlyStreaming, ServerOnlyStreaming,
     BidiStreaming
<1>4. CASE BidiStreaming(m)
  BY <1>4
     DEF AddMethod, ServerParams, Kind, NoStreaming, ClientOnlyStreaming, ServerOnlyStreaming,
     BidiStreaming
<1> QED  BY <1>1, <1>2, <1>3, <1>4, FourKinds

\* A declaration and the one it was stamped from.
SameDecl(d, e) ==
  /\ d.of = e.of /\ d.name = e.name /\ d.params = e.params /\ d.ret = e.ret /\ d.how = e.how
  /\ d.call = e.call /\ d.with = e.with /\ d.lambda = e.lambda /\ d.start = e.start /\ d.slot = e.slot

\* The loops of a unit, in no order.
LoopSet(u) == {LoopsOf(u)[n] : n \in DOMAIN LoopsOf(u)}

\* Which loops a unit has.
LEMMA LoopSets ==
  /\ {"Interfaces", "CallbackInterfaces", "RawInterfaces", "Methods", "Callback", "RawMethods", "Data", "Sync",
      "Async", "ServerCallback", "Generic", "Raw", "RawCallback", "StreamedUnary", "SplitStreaming"} \subseteq LoopSet("header")
  /\ {"Inits", "SourceClient", "SourceServer"} \subseteq LoopSet("source")
  /\ "MockMethods" \in LoopSet("mock")
<1>1. ASSUME NEW l \in {"Interfaces", "CallbackInterfaces", "RawInterfaces", "Methods", "Callback", "RawMethods", "Data", "Sync",
                       "Async", "ServerCallback", "Generic", "Raw", "RawCallback", "StreamedUnary", "SplitStreaming"}
      PROVE  \E n \in 1 .. 25 : HeaderLoops[n] = l
  <2>1. /\ HeaderLoops[1] = "Interfaces" /\ HeaderLoops[2] = "CallbackInterfaces" /\ HeaderLoops[3] = "RawInterfaces"
        /\ HeaderLoops[4] = "Methods" /\ HeaderLoops[5] = "Callback" /\ HeaderLoops[6] = "RawMethods"
        /\ HeaderLoops[7] = "Data" /\ HeaderLoops[8] = "Sync" /\ HeaderLoops[9] = "Async"
        /\ HeaderLoops[12] = "ServerCallback" /\ HeaderLoops[15] = "Generic" /\ HeaderLoops[16] = "Raw"
        /\ HeaderLoops[17] = "RawCallback" /\ HeaderLoops[18] = "StreamedUnary" /\ HeaderLoops[21] = "SplitStreaming"
    BY DEF HeaderLoops
  <2> QED  BY <2>1
<1>2. SourceLoops[2] = "Inits" /\ SourceLoops[3] = "SourceClient" /\ SourceLoops[5] = "SourceServer"
  BY DEF SourceLoops
<1>3. MockLoops[1] = "MockMethods"  BY DEF MockLoops
<1> HIDE DEF HeaderLoops
<1>4. \A l : l \in LoopSet("header") <=> \E n \in 1 .. 25 : HeaderLoops[n] = l
  BY LoopsOfUnit, LoopsOfTypes DEF LoopSet
<1>5. {SourceLoops[2], SourceLoops[3], SourceLoops[5]} \subseteq LoopSet("source")
  BY LoopsOfUnit, LoopsOfTypes DEF LoopSet
<1>6. MockLoops[1] \in LoopSet("mock")  BY LoopsOfUnit, LoopsOfTypes DEF LoopSet
<1> QED  BY <1>1, <1>2, <1>3, <1>4, <1>5, <1>6

\* What a file declares of a method.
LEMMA MethodKinds ==
  ASSUME IInv
  PROVE  /\ Cq \in BOOLEAN /\ Sync \in BOOLEAN
         /\ \A s \in DOMAIN file.services : \A k \in DOMAIN Methods(s) :
              Kind(Methods(s)[k]) /\ Methods(s)[k].name \in Seq(STRING)
<1>1. Cq \in BOOLEAN /\ Sync \in BOOLEAN  BY DEF IInv, TypeOK, Cq, Sync, Flags
<1>2. ASSUME NEW s \in DOMAIN file.services, NEW k \in DOMAIN Methods(s)
      PROVE  Kind(Methods(s)[k]) /\ Methods(s)[k].name \in Seq(STRING)
  <2>1. Methods(s) \in Seq(MethodRecords)  BY FileTypes DEF IInv
  <2>2. Methods(s)[k] \in MethodRecords  BY <2>1
  <2> QED  BY <2>2 DEF Kind, MethodRecords
<1> QED  BY <1>1, <1>2

\* Its variables.
LEMMA FreshMethod ==
  ASSUME NEW s, NEW k
  PROVE  /\ Fresh(s, k).Method = Methods(s)[k].name /\ FreshRaw(s, k).Method = Methods(s)[k].name
         /\ Fresh(s, k).Request = Methods(s)[k].input /\ Fresh(s, k).Response = Methods(s)[k].output
         /\ FreshRaw(s, k).Request = Methods(s)[k].input /\ FreshRaw(s, k).Response = Methods(s)[k].output
BY DEF Fresh, FreshRaw, TypedVars, RawVars, MethodVars, InitialVars

\* A file that was written holds all its loops owe.
LEMMA AllDue ==
  ASSUME IInv, TurnsOK, NEW u \in written, NEW s \in DOMAIN file.services,
    NEW k \in DOMAIN Methods(s),
         NEW l \in LoopSet(u), Allowed(l), NEW d \in DueAt(l, s, k)
  PROVE  \E b \in decls : SameDecl(b, d) /\ b.unit = u /\ b.service = s /\ b.method = k /\ b.ns = Scope(u)
<1>1. u \in Units  BY DEF IInv, TypeOK
<1>2. PICK n \in DOMAIN LoopsOf(u) : LoopsOf(u)[n] = l  BY DEF LoopSet
<1>3. Placed(DueAt(l, s, k), u, s, k) \subseteq decls
  BY <1>1, <1>2 DEF TurnsOK, TurnsKept, Turned
<1>4. DOMAIN d = Fields  BY <1>1, <1>2, DueFormed, LoopsNamed
<1> DEFINE b == [d EXCEPT !.unit = u, !.service = s, !.method = k, !.ns = Scope(u)]
<1>5. b \in decls  BY <1>3 DEF Placed
<1>6. SameDecl(b, d) /\ b.unit = u /\ b.service = s /\ b.method = k /\ b.ns = Scope(u)
  BY <1>4 DEF SameDecl, Fields
<1> QED  BY <1>5, <1>6

\* So it is with what comes before the loops.
LEMMA AllFirst ==
  ASSUME IInv, TurnsOK, NEW u \in written, NEW s \in DOMAIN file.services, NEW d \in DueFirst(u, s)
  PROVE  \E b \in decls : SameDecl(b, d) /\ b.unit = u /\ b.service = s /\ b.method = 0 /\ b.ns = Scope(u)
<1>1. u \in Units  BY DEF IInv, TypeOK
<1>2. Placed(DueFirst(u, s), u, s, 0) \subseteq decls  BY <1>1 DEF TurnsOK, TurnsKept, Turned
<1>3. DOMAIN d = Fields  BY <1>1, FirstFormed
<1> DEFINE b == [d EXCEPT !.unit = u, !.service = s, !.method = 0, !.ns = Scope(u)]
<1>4. b \in decls  BY <1>2 DEF Placed
<1>5. SameDecl(b, d) /\ b.unit = u /\ b.service = s /\ b.method = 0 /\ b.ns = Scope(u)
  BY <1>3 DEF SameDecl, Fields
<1> QED  BY <1>4, <1>5

\* Where a declaration comes from.
LEMMA Origin ==
  ASSUME IInv, TurnsOK, NEW d \in decls
  PROVE  /\ d.unit \in Units /\ d.service \in DOMAIN file.services /\ d.ns = Scope(d.unit)
         /\ \/ d.method = 0 /\ \E e \in DueFirst(d.unit, d.service) : SameDecl(d, e)
            \/ /\ d.method \in DOMAIN Methods(d.service)
               /\ \E l \in LoopSet(d.unit) \cap AllLoops :
                    Allowed(l) /\ \E e \in DueAt(l, d.service, d.method) : SameDecl(d, e)
<1>1. d.unit \in Units /\ d.service \in DOMAIN file.services  BY DEF TurnsOK, NothingElse
<1>2. CASE d \in Placed(DueFirst(d.unit, d.service), d.unit, d.service, 0)
  <2>1. PICK e \in DueFirst(d.unit, d.service) :
          d = [e EXCEPT !.unit = d.unit, !.service = d.service, !.method = 0, !.ns = Scope(d.unit)]
    BY <1>2 DEF Placed
  <2>2. DOMAIN e = Fields  BY <1>1, FirstFormed
  <2>3. SameDecl(d, e) /\ d.method = 0 /\ d.ns = Scope(d.unit)  BY <2>1, <2>2 DEF SameDecl, Fields
  <2> QED  BY <1>1, <2>3
<1>3. ASSUME d.method \in DOMAIN Methods(d.service), NEW n \in DOMAIN LoopsOf(d.unit), Allowed(LoopsOf(d.unit)[n]),
             d \in Placed(DueAt(LoopsOf(d.unit)[n], d.service, d.method), d.unit, d.service, d.method)
      PROVE  /\ d.ns = Scope(d.unit)
             /\ \E l \in LoopSet(d.unit) \cap AllLoops :
                  Allowed(l) /\ \E e \in DueAt(l, d.service, d.method) : SameDecl(d, e)
  <2> DEFINE l == LoopsOf(d.unit)[n]
  <2>1. l \in LoopSet(d.unit) \cap AllLoops  BY <1>1, LoopsNamed DEF LoopSet
  <2>2. PICK e \in DueAt(l, d.service, d.method) :
          d = [e EXCEPT !.unit = d.unit, !.service = d.service, !.method = d.method, !.ns = Scope(d.unit)]
    BY <1>3 DEF Placed
  <2>3. DOMAIN e = Fields  BY <1>1, <1>3, <2>1, DueFormed
  <2>4. SameDecl(d, e) /\ d.ns = Scope(d.unit)  BY <2>2, <2>3 DEF SameDecl, Fields
  <2> HIDE DEF l
  <2>5. Allowed(l)  BY <1>3 DEF l
  <2> QED  BY <2>1, <2>4, <2>5
<1> QED  BY <1>1, <1>2, <1>3 DEF TurnsOK, NothingElse

\* A declaration without a handler.
Lambdaless(d) == d.lambda = <<>>

\* A plain declaration holds no lambda.
LEMMA DeclLambdaless ==
  ASSUME NEW of, NEW name, NEW params, NEW ret, NEW how
  PROVE  Lambdaless(Decl(of, name, params, ret, how))
BY DeclFields DEF Lambdaless

\* A body is no handler.
LEMMA BodyLambdaless ==
  ASSUME NEW of, NEW name, NEW params, NEW ret, NEW how, NEW call, NEW with
  PROVE  Lambdaless(Body(Decl(of, name, params, ret, how), call, with))
BY DeclFields, BodyFields DEF Lambdaless

\* What the client's loops declare things in, and how.
LEMMA ClientClasses ==
  ASSUME IInv, NEW s \in DOMAIN file.services, NEW k \in DOMAIN Methods(s)
  PROVE  /\ \A e \in DueAt("Interfaces", s, k) : e.of = StubInterface /\ e.how \in {"pure", "inline"} /\ e.lambda = <<>>
         /\ \A e \in DueAt("CallbackInterfaces", s, k) :
              e.of = AsyncInterface /\ e.how = "pure" /\ e.call = <<>> /\ e.lambda = <<>>
         /\ \A e \in DueAt("RawInterfaces", s, k) :
              e.of = StubInterface /\ e.how = "pure" /\ e.call = <<>> /\ e.lambda = <<>>
         /\ \A e \in DueAt("Methods", s, k) : e.of = Stub /\ e.how \in {"override", "inline"} /\ e.lambda = <<>>
         /\ \A e \in DueAt("Callback", s, k) :
              e.of = StubAsync /\ e.how = "override" /\ e.call = <<>> /\ e.lambda = <<>>
         /\ \A e \in DueAt("RawMethods", s, k) : e.of = Stub /\ e.how = "override" /\ e.call = <<>> /\ e.lambda = <<>>
         /\ \A e \in DueAt("Data", s, k) : e.of = Stub /\ e.how = "data" /\ e.call = <<>> /\ e.lambda = <<>>
         /\ \A e \in DueAt("Inits", s, k) : e.of = Stub /\ e.how = "init" /\ e.call = <<>> /\ e.lambda = <<>>
         /\ \A e \in DueAt("SourceClient", s, k) : e.of \in {Stub, StubAsync} /\ e.how = "defined" /\ e.lambda = <<>>
         /\ \A e \in DueAt("MockMethods", s, k) : e.of = MockStub /\ e.how = "mock" /\ e.call = <<>> /\ e.lambda = <<>>
<1> DEFINE m == Methods(s)[k]
           v == Fresh(s, k)
<1>0. Kind(m) /\ Cq \in BOOLEAN  BY MethodKinds
<1> HIDE DEF m, v
<1>1. \A e \in PublicInterfaces(m, v, Cq) : e.of = StubInterface /\ e.how \in {"pure", "inline"} /\ e.lambda = <<>>
  BY <1>0, PublicInterfacesForm, DeclFields, BodyFields DEF PublicForm, Plain, SyncWrapper,
    AsyncWrapper, When
<1>2. \A e \in CallbackInterfaces(m, v) : e.of = AsyncInterface /\ e.how = "pure" /\ e.call = <<>> /\ e.lambda = <<>>
  BY <1>0, CallbackInterfacesForm, DeclFields DEF Callbacks
<1>3. \A e \in PrivateInterfaces(m, v, Cq) : e.of = StubInterface /\ e.how = "pure" /\ e.call = <<>> /\ e.lambda = <<>>
  BY <1>0, PrivateInterfacesForm, DeclFields DEF PrivateForm, SyncRaw, AsyncRaw, When
<1>4. \A e \in PublicMethods(m, v, Cq) : e.of = Stub /\ e.how \in {"override", "inline"} /\ e.lambda = <<>>
  BY <1>0, PublicMethodsForm, DeclFields, BodyFields DEF PublicForm, Plain, SyncWrapper,
    AsyncWrapper, When
<1>5. \A e \in CallbackMethods(m, v) : e.of = StubAsync /\ e.how = "override" /\ e.call = <<>> /\ e.lambda = <<>>
  BY <1>0, CallbackMethodsForm, DeclFields DEF Callbacks
<1>6. \A e \in PrivateMethods(m, v, Cq) : e.of = Stub /\ e.how = "override" /\ e.call = <<>> /\ e.lambda = <<>>
  BY <1>0, PrivateMethodsForm, DeclFields DEF PrivateForm, SyncRaw, AsyncRaw, When
<1>7. \A e \in MethodData(v) : e.of = Stub /\ e.how = "data" /\ e.call = <<>> /\ e.lambda = <<>>
  BY DeclFields DEF MethodData
<1>8. \A e \in {OnSlot(Decl(Stub, RpcMethod(v), <<>>, <<StreamingType(m)>>, "init"), k)} :
        e.of = Stub /\ e.how = "init" /\ e.call = <<>> /\ e.lambda = <<>>
  BY DeclFields, OnSlotFields
<1>9. \A e \in SourceClientMethod(m, v, Cq) : e.of \in {Stub, StubAsync} /\ e.how = "defined" /\ e.lambda = <<>>
  BY <1>0, SourceClientForm, DeclFields, BodyFields, StartingFields
     DEF SourceForm, SyncDefined, CallbackDefined, AsyncDefined, Defined, When
<1>10. \A e \in MockMethods(m, v, Cq) : e.of = MockStub /\ e.how = "mock" /\ e.call = <<>> /\ e.lambda = <<>>
  BY <1>0, MockMethodsForm, DeclFields, OnSlotFields DEF MockForm, MockMethod, When
<1> QED  BY <1>1, <1>2, <1>3, <1>4, <1>5, <1>6, <1>7, <1>8, <1>9, <1>10, ClientDue DEF m, v

\* The first word of a mixin's name.
MixinOf(l) ==
  CASE l = "Async" -> "WithAsyncMethod_"
    [] l = "ServerCallback" -> "WithCallbackMethod_"
    [] l = "Generic" -> "WithGenericMethod_"
    [] l = "Raw" -> "WithRawMethod_"
    [] l = "RawCallback" -> "WithRawCallbackMethod_"
    [] l = "StreamedUnary" -> "WithStreamedUnaryMethod_"
    [] l = "SplitStreaming" -> "WithSplitStreamingMethod_"

\* The loops that print a mixin class per method.
MixinLoops == {"Async", "ServerCallback", "Generic", "Raw", "RawCallback", "StreamedUnary", "SplitStreaming"}

\* A declaration of a mixin: if it overrides, it is the synchronous version.
Mixed(e, of, m, v, sync) ==
  /\ e.of = of /\ e.how \in {"inline", "override", "default", "pure"}
  /\ e.how = "override" => /\ sync /\ e.name = v.Method /\ e.params = ServerParams(m, v) /\ e.ret = <<"Status">>
                           /\ e.call = <<"abort">>

\* The lambda of a mixin calls one of its members.
Answered(e, due) ==
  e.lambda # <<>> => \E b \in due : b.of = e.of /\ b.name = e.with /\ b.params = e.lambda

\* The disabled synchronous method is of its mixin.
LEMMA SyncDisabledMixed ==
  ASSUME NEW of, NEW m, Kind(m), NEW v, NEW sync, sync
  PROVE  \A e \in SyncDisabled(of, m, v) : Mixed(e, of, m, v, sync) /\ e.lambda = <<>>
BY SyncDisabledForm, DeclFields, BodyFields DEF Mixed

\* So is the constructor of the mixin.
LEMMA ConstructorMixed ==
  ASSUME NEW of, NEW m, NEW v, NEW call, NEW sync
  PROVE  Mixed(Constructor(of, v, call), of, m, v, sync) /\ Constructor(of, v, call).lambda = <<>>
BY DeclFields, BodyFields, OnSlotFields DEF Mixed, Constructor

\* So are the helpers of the asynchronous mixins.
LEMMA AsyncHelperMixed ==
  ASSUME NEW of, NEW m, Kind(m), NEW v, NEW sync \in BOOLEAN
  PROVE  \A e \in AsyncMethodsHelper(of, m, v, sync) : Mixed(e, of, m, v, sync) /\ e.lambda = <<>>
<1>1. \A e \in When(sync, SyncDisabled(of, m, v)) : Mixed(e, of, m, v, sync) /\ e.lambda = <<>>
  BY SyncDisabledMixed DEF When
<1>2. \A name, params, ret, call, with, slot :
        LET e == OnSlot(Body(Decl(of, name, params, ret, "inline"), call, with), slot) IN
        Mixed(e, of, m, v, sync) /\ e.lambda = <<>>
  BY DeclFields, BodyFields, OnSlotFields DEF Mixed
<1> QED  BY <1>1, <1>2 DEF AsyncMethodsHelper, Kind, NoStreaming, ClientOnlyStreaming,
ServerOnlyStreaming, BidiStreaming

\* WithAsyncMethod is of its mixin.
LEMMA WithAsyncMethodMixed ==
  ASSUME NEW m, Kind(m), NEW v, NEW sync \in BOOLEAN
  PROVE  \A e \in WithAsyncMethod(m, v, sync) : Mixed(e, <<"WithAsyncMethod_">> \o v.Method, m, v, sync) /\ e.lambda = <<>>
BY AsyncHelperMixed, ConstructorMixed DEF WithAsyncMethod

\* WithRawMethod is of its mixin.
LEMMA WithRawMethodMixed ==
  ASSUME NEW m, Kind(m), NEW v, NEW sync \in BOOLEAN
  PROVE  \A e \in WithRawMethod(m, v, sync) : Mixed(e, <<"WithRawMethod_">> \o v.Method, m, v, sync) /\ e.lambda = <<>>
BY AsyncHelperMixed, ConstructorMixed DEF WithRawMethod

\* WithGenericMethod is of its mixin.
LEMMA WithGenericMethodMixed ==
  ASSUME NEW m, Kind(m), NEW v, NEW sync \in BOOLEAN
  PROVE  \A e \in WithGenericMethod(m, v, sync) : Mixed(e, <<"WithGenericMethod_">> \o v.Method, m, v, sync) /\ e.lambda = <<>>
BY SyncDisabledMixed, ConstructorMixed DEF WithGenericMethod, When

\* A handler, field by field.
LEMMA HandlingFields ==
  ASSUME NEW of, NEW v, NEW call, NEW target, NEW lambda
  PROVE  LET e == Handling(of, v, call, target, lambda) IN
         e.of = of /\ e.how = "inline" /\ e.with = target /\ e.lambda = lambda
<1> DEFINE d == Decl(of, of, <<>>, <<>>, "inline")
           c == Installing(d, call, target, lambda)
<1>1. DOMAIN d = Fields /\ d.of = of /\ d.how = "inline"  BY DeclFields
<1> HIDE DEF d
<1>2. DOMAIN c = Fields /\ c.of = of /\ c.how = "inline" /\ c.with = target /\ c.lambda = lambda
  BY <1>1, InstallingFields
<1> HIDE DEF c
<1>3. LET e == OnSlot(c, v.Idx) IN e.of = of /\ e.how = "inline" /\ e.with = target /\ e.lambda = lambda
  BY <1>2, OnSlotFields
<1> QED  BY <1>3 DEF Handling, c, d

\* The members of a streamed mixin.
LEMMA StreamedMixed ==
  ASSUME NEW of, NEW m, NEW v, NEW handler, NEW params,
    <<ServerContext>> \o params = ServerParams(m, v), NEW streamer
  PROVE  \A e \in Streamed(of, v, handler, params, streamer) :
           Mixed(e, of, m, v, TRUE) /\ Answered(e, Streamed(of, v, handler, params, streamer))
<1> DEFINE lambda == <<ServerContext, <<"streamer", streamer, v.Request, v.Response>> >>
           target == <<"Streamed">> \o v.Method
           call == <<"MarkMethodStreamed", handler, v.Request, v.Response>>
           status == <<"Status">>
           a == Handling(of, v, call, target, lambda)
           b == Body(Decl(of, v.Method, ServerParams(m, v), status, "override"), <<"abort">>, <<>>)
           c == Decl(of, target, lambda, status, "pure")
<1>1. Streamed(of, v, handler, params, streamer) = {a, b, c}  BY DEF Streamed
<1> HIDE DEF lambda, target, call, status
<1>2. a.of = of /\ a.how = "inline" /\ a.with = target /\ a.lambda = lambda
  BY HandlingFields
<1>3. /\ b.of = of /\ b.how = "override" /\ b.name = v.Method /\ b.params = ServerParams(m, v)
      /\ b.ret = status /\ b.call = <<"abort">>
  <2> DEFINE d == Decl(of, v.Method, ServerParams(m, v), status, "override")
  <2>1. /\ DOMAIN d = Fields /\ d.of = of /\ d.how = "override" /\ d.name = v.Method /\ d.params = ServerParams(m, v)
        /\ d.ret = status
    BY DeclFields
  <2> HIDE DEF d
  <2> QED  BY <2>1, BodyFields DEF d
<1>4. c.of = of /\ c.how = "pure" /\ c.name = target /\ c.params = lambda
  BY DeclFields
<1>5. Lambdaless(b) /\ Lambdaless(c)  BY DeclLambdaless, BodyLambdaless
<1> HIDE DEF a, b, c
<1>6. Mixed(a, of, m, v, TRUE) /\ Mixed(b, of, m, v, TRUE) /\ Mixed(c, of, m, v, TRUE)
  BY <1>2, <1>3, <1>4 DEF Mixed, status
<1>7. Answered(a, {a, b, c}) /\ Answered(b, {a, b, c}) /\ Answered(c, {a, b, c})
  BY <1>2, <1>4, <1>5 DEF Answered, Lambdaless
<1> QED  BY <1>1, <1>6, <1>7

\* WithStreamedUnaryMethod.
LEMMA WithStreamedUnaryMethodMixed ==
  ASSUME NEW m, Kind(m), NEW v
  PROVE  \A e \in WithStreamedUnaryMethod(m, v) :
           /\ NoStreaming(m) /\ Mixed(e, <<"WithStreamedUnaryMethod_">> \o v.Method, m, v, TRUE)
           /\ Answered(e, WithStreamedUnaryMethod(m, v))
<1>1. SUFFICES ASSUME NoStreaming(m)
               PROVE  \A e \in WithStreamedUnaryMethod(m, v) :
                        /\ Mixed(e, <<"WithStreamedUnaryMethod_">> \o v.Method, m, v, TRUE)
                        /\ Answered(e, WithStreamedUnaryMethod(m, v))
  BY DEF WithStreamedUnaryMethod, When
<1>2. <<ServerContext>> \o <<RequestPtr(v), ResponsePtr(v)>> = ServerParams(m, v)
  BY <1>1 DEF ServerParams
<1> QED  BY <1>1, <1>2, StreamedMixed DEF WithStreamedUnaryMethod, When

\* WithSplitStreamingMethod.
LEMMA WithSplitStreamingMethodMixed ==
  ASSUME NEW m, Kind(m), NEW v
  PROVE  \A e \in WithSplitStreamingMethod(m, v) :
           /\ ServerOnlyStreaming(m) /\ Mixed(e, <<"WithSplitStreamingMethod_">> \o v.Method, m, v, TRUE)
           /\ Answered(e, WithSplitStreamingMethod(m, v))
<1>1. SUFFICES ASSUME ServerOnlyStreaming(m)
               PROVE  \A e \in WithSplitStreamingMethod(m, v) :
                        /\ Mixed(e, <<"WithSplitStreamingMethod_">> \o v.Method, m, v, TRUE)
                        /\ Answered(e, WithSplitStreamingMethod(m, v))
  BY DEF WithSplitStreamingMethod, When
<1>2. <<ServerContext>> \o <<RequestPtr(v), Writer(v)>> = ServerParams(m, v)
  BY <1>1 DEF ServerParams, NoStreaming, ClientOnlyStreaming, ServerOnlyStreaming
<1> QED  BY <1>1, <1>2, StreamedMixed DEF WithSplitStreamingMethod, When

\* The return type of the callback a mixin declares.
ReactorRet(m, v) ==
  IF NoStreaming(m) THEN <<"ServerUnaryReactor">>
  ELSE IF ClientOnlyStreaming(m) THEN <<"ServerReadReactor", v.RealRequest>>
  ELSE IF ServerOnlyStreaming(m) THEN <<"ServerWriteReactor", v.RealResponse>>
  ELSE <<"ServerBidiReactor", v.RealRequest, v.RealResponse>>

\* The handler type the callback mixins mark a method with.
HandlerOf(m) ==
  IF NoStreaming(m) THEN "CallbackUnaryHandler"
  ELSE IF ClientOnlyStreaming(m) THEN "CallbackClientStreamingHandler"
  ELSE IF ServerOnlyStreaming(m) THEN "CallbackServerStreamingHandler"
  ELSE "CallbackBidiHandler"

\* The virtual function that returns the reactor of a method.
Reactor(of, m, v) == Decl(of, v.Method, ReactorParams(m, v), ReactorRet(m, v), "default")

\* The constructor that marks a method as callback.
Marking(of, m, v, mark) ==
  Handling(of, v, <<mark, HandlerOf(m), v.RealRequest, v.RealResponse>>, v.Method, ReactorParams(m, v))

\* The function that sets the allocator of a unary method.
Allocator(of, v) ==
  OnSlot(Body(Decl(of, <<"SetMessageAllocatorFor_">> \o v.Method,
                   << <<"allocator", "MessageAllocator", v.RealRequest, v.RealResponse>> >>, <<"void">>, "inline"),
              <<"GetHandler", "CallbackUnaryHandler", v.RealRequest, v.RealResponse>>, <<>>),
         v.Idx)

\* The members of a callback mixin.
LEMMA CallbackHelperForm ==
  ASSUME NEW m, Kind(m), NEW v, NEW of, NEW sync \in BOOLEAN
  PROVE  CallbackMethodsHelper(of, m, v, sync) = When(sync, SyncDisabled(of, m, v)) \cup {Reactor(of, m, v)}
<1>1. CASE NoStreaming(m)
  BY <1>1
     DEF CallbackMethodsHelper, Reactor, ReactorParams, ReactorRet, Kind, NoStreaming,
     ClientOnlyStreaming, ServerOnlyStreaming, BidiStreaming
<1>2. CASE ClientOnlyStreaming(m)
  BY <1>2
     DEF CallbackMethodsHelper, Reactor, ReactorParams, ReactorRet, Kind, NoStreaming,
     ClientOnlyStreaming, ServerOnlyStreaming, BidiStreaming
<1>3. CASE ServerOnlyStreaming(m)
  BY <1>3
     DEF CallbackMethodsHelper, Reactor, ReactorParams, ReactorRet, Kind, NoStreaming,
     ClientOnlyStreaming, ServerOnlyStreaming, BidiStreaming
<1>4. CASE BidiStreaming(m)
  BY <1>4
     DEF CallbackMethodsHelper, Reactor, ReactorParams, ReactorRet, Kind, NoStreaming,
     ClientOnlyStreaming, ServerOnlyStreaming, BidiStreaming
<1> QED  BY <1>1, <1>2, <1>3, <1>4, FourKinds

\* WithRawCallbackMethod.
LEMMA WithRawCallbackForm ==
  ASSUME NEW m, Kind(m), NEW v, NEW sync \in BOOLEAN
  PROVE  LET of == <<"WithRawCallbackMethod_">> \o v.Method IN
         WithRawCallbackMethod(m, v, sync)
           = {Marking(of, m, v, "MarkMethodRawCallback")} \cup CallbackMethodsHelper(of, m, v, sync)
<1>1. CASE NoStreaming(m)
  BY <1>1
     DEF WithRawCallbackMethod, Marking, HandlerOf, ReactorParams, Kind, NoStreaming,
     ClientOnlyStreaming, ServerOnlyStreaming, BidiStreaming
<1>2. CASE ClientOnlyStreaming(m)
  BY <1>2
     DEF WithRawCallbackMethod, Marking, HandlerOf, ReactorParams, Kind, NoStreaming,
     ClientOnlyStreaming, ServerOnlyStreaming, BidiStreaming
<1>3. CASE ServerOnlyStreaming(m)
  BY <1>3
     DEF WithRawCallbackMethod, Marking, HandlerOf, ReactorParams, Kind, NoStreaming,
     ClientOnlyStreaming, ServerOnlyStreaming, BidiStreaming
<1>4. CASE BidiStreaming(m)
  BY <1>4
     DEF WithRawCallbackMethod, Marking, HandlerOf, ReactorParams, Kind, NoStreaming,
     ClientOnlyStreaming, ServerOnlyStreaming, BidiStreaming
<1> QED  BY <1>1, <1>2, <1>3, <1>4, FourKinds

\* WithCallbackMethod.
LEMMA WithCallbackForm ==
  ASSUME NEW m, Kind(m), NEW v, NEW sync \in BOOLEAN
  PROVE  LET of == <<"WithCallbackMethod_">> \o v.Method IN
         WithCallbackMethod(m, v, sync)
           = ({Marking(of, m, v, "MarkMethodCallback")} \cup When(NoStreaming(m), {Allocator(of, v)}))
             \cup CallbackMethodsHelper(of, m, v, sync)
<1>1. CASE NoStreaming(m)
  BY <1>1
     DEF WithCallbackMethod, When, Marking, HandlerOf, ReactorParams, Allocator, Kind, NoStreaming,
     ClientOnlyStreaming, ServerOnlyStreaming, BidiStreaming
<1>2. CASE ClientOnlyStreaming(m)
  BY <1>2
     DEF WithCallbackMethod, When, Marking, HandlerOf, ReactorParams, Allocator, Kind, NoStreaming,
     ClientOnlyStreaming, ServerOnlyStreaming, BidiStreaming
<1>3. CASE ServerOnlyStreaming(m)
  BY <1>3
     DEF WithCallbackMethod, When, Marking, HandlerOf, ReactorParams, Allocator, Kind, NoStreaming,
     ClientOnlyStreaming, ServerOnlyStreaming, BidiStreaming
<1>4. CASE BidiStreaming(m)
  BY <1>4
     DEF WithCallbackMethod, When, Marking, HandlerOf, ReactorParams, Allocator, Kind, NoStreaming,
     ClientOnlyStreaming, ServerOnlyStreaming, BidiStreaming
<1> QED  BY <1>1, <1>2, <1>3, <1>4, FourKinds

\* The members of a callback mixin.
LEMMA CallbackHelperMixed ==
  ASSUME NEW of, NEW m, Kind(m), NEW v, NEW sync \in BOOLEAN
  PROVE  /\ \A e \in CallbackMethodsHelper(of, m, v, sync) : Mixed(e, of, m, v, sync) /\ e.lambda = <<>>
         /\ \E b \in CallbackMethodsHelper(of, m, v, sync) :
              b.of = of /\ b.name = v.Method /\ b.params = ReactorParams(m, v)
<1> DEFINE b == Reactor(of, m, v)
<1>1. b.of = of /\ b.name = v.Method /\ b.params = ReactorParams(m, v) /\ b.how = "default"
  BY DeclFields DEF Reactor
<1>3. Lambdaless(b)  BY DeclLambdaless DEF Reactor
<1> HIDE DEF b
<1>2. CallbackMethodsHelper(of, m, v, sync) = When(sync, SyncDisabled(of, m, v)) \cup {b}
  BY CallbackHelperForm DEF b
<1>4. Mixed(b, of, m, v, sync) /\ b.lambda = <<>>  BY <1>1, <1>3 DEF Mixed, Lambdaless
<1>5. \A e \in When(sync, SyncDisabled(of, m, v)) : Mixed(e, of, m, v, sync) /\ e.lambda = <<>>
  BY SyncDisabledMixed DEF When
<1> QED  BY <1>1, <1>2, <1>4, <1>5

\* A mixin whose constructor installs a handler that calls its reactor.
LEMMA MarkingMixed ==
  ASSUME NEW of, NEW m, NEW v, NEW mark, NEW sync
  PROVE  LET e == Marking(of, m, v, mark) IN
         Mixed(e, of, m, v, sync) /\ e.of = of /\ e.with = v.Method /\ e.lambda = ReactorParams(m, v)
BY HandlingFields DEF Marking, Mixed

\* The allocator's setter.
LEMMA AllocatorMixed ==
  ASSUME NEW of, NEW m, NEW v, NEW sync
  PROVE  Mixed(Allocator(of, v), of, m, v, sync) /\ Allocator(of, v).lambda = <<>>
BY DeclFields, BodyFields, OnSlotFields DEF Allocator, Mixed

\* WithCallbackMethod.
LEMMA WithCallbackMethodMixed ==
  ASSUME NEW m, Kind(m), NEW v, NEW sync \in BOOLEAN
  PROVE  \A e \in WithCallbackMethod(m, v, sync) :
           /\ Mixed(e, <<"WithCallbackMethod_">> \o v.Method, m, v, sync)
           /\ Answered(e, WithCallbackMethod(m, v, sync))
<1> DEFINE of == <<"WithCallbackMethod_">> \o v.Method
<1>1. WithCallbackMethod(m, v, sync)
        = ({Marking(of, m, v, "MarkMethodCallback")} \cup When(NoStreaming(m), {Allocator(of, v)}))
          \cup CallbackMethodsHelper(of, m, v, sync)
  BY WithCallbackForm
<1> HIDE DEF of
<1> QED  BY <1>1, CallbackHelperMixed, MarkingMixed, AllocatorMixed DEF When, Answered, of

\* WithRawCallbackMethod.
LEMMA WithRawCallbackMethodMixed ==
  ASSUME NEW m, Kind(m), NEW v, NEW sync \in BOOLEAN
  PROVE  \A e \in WithRawCallbackMethod(m, v, sync) :
           /\ Mixed(e, <<"WithRawCallbackMethod_">> \o v.Method, m, v, sync)
           /\ Answered(e, WithRawCallbackMethod(m, v, sync))
<1> DEFINE of == <<"WithRawCallbackMethod_">> \o v.Method
<1>1. WithRawCallbackMethod(m, v, sync)
        = {Marking(of, m, v, "MarkMethodRawCallback")} \cup CallbackMethodsHelper(of, m, v, sync)
  BY WithRawCallbackForm
<1> HIDE DEF of
<1> QED  BY <1>1, CallbackHelperMixed, MarkingMixed DEF Answered, of

\* A body passes on what it was given: the types it hands over are those of its parameters.
LEMMA PassedAll ==
  ASSUME NEW d, Forwards(d)
  PROVE  [n \in DOMAIN d.with |->
            Tail((CHOOSE p \in {d.params[k] : k \in DOMAIN d.params} : p[1] = d.with[n]))] = Types(d.params)
<1>1. ASSUME NEW n \in DOMAIN d.params
      PROVE  (CHOOSE p \in {d.params[k] : k \in DOMAIN d.params} : p[1] = d.with[n]) = d.params[n]
  BY DEF Forwards
<1> QED  BY <1>1 DEF Forwards, Types

\* Parameters that are told apart by the names a body passes on.
LEMMA ForwardsOf ==
  ASSUME NEW d, NEW a, NEW b, NEW c, NEW e
  PROVE  /\ d.params = <<a>> /\ d.with = <<a[1]>> => Forwards(d)
         /\ d.params = <<a, b>> /\ d.with = <<a[1], b[1]>> /\ a[1] # b[1] => Forwards(d)
         /\ d.params = <<a, b, c>> /\ d.with = <<a[1], b[1], c[1]>>
            /\ a[1] # b[1] /\ a[1] # c[1] /\ b[1] # c[1] => Forwards(d)
         /\ d.params = <<a, b, c, e>> /\ d.with = <<a[1], b[1], c[1], e[1]>>
            /\ a[1] # b[1] /\ a[1] # c[1] /\ b[1] # c[1] /\ a[1] # e[1] /\ b[1] # e[1] /\ c[1] # e[1] => Forwards(d)
<1>1. d.params = <<a>> /\ d.with = <<a[1]>> => Forwards(d)  BY DEF Forwards
<1>2. d.params = <<a, b>> /\ d.with = <<a[1], b[1]>> /\ a[1] # b[1] => Forwards(d)  BY DEF Forwards
<1>3. d.params = <<a, b, c>> /\ d.with = <<a[1], b[1], c[1]>>
      /\ a[1] # b[1] /\ a[1] # c[1] /\ b[1] # c[1] => Forwards(d)
  BY DEF Forwards
<1>4. d.params = <<a, b, c, e>> /\ d.with = <<a[1], b[1], c[1], e[1]>>
      /\ a[1] # b[1] /\ a[1] # c[1] /\ b[1] # c[1] /\ a[1] # e[1] /\ b[1] # e[1] /\ c[1] # e[1] => Forwards(d)
  BY DEF Forwards
<1> QED  BY <1>1, <1>2, <1>3, <1>4

\* The first word of a parameter is its name.
LEMMA NamedParams ==
  ASSUME NEW v
  PROVE  /\ Context[1] = "context" /\ RequestRef(v)[1] = "request" /\ ResponsePtr(v)[1] = "response"
         /\ Queue[1] = "cq" /\ Tag[1] = "tag"
BY DEF Context, RequestRef, ResponsePtr, Queue, Tag

\* Short sequences, put together.
LEMMA Glued ==
  ASSUME NEW a, NEW b, NEW c, NEW t
  PROVE  <<a, b, c>> \o <<t>> = <<a, b, c, t>>
<1> DEFINE S == {a, b, c, t}
           f == <<a, b, c>> \o <<t>>
           g == <<a, b, c, t>>
<1>1. \A x, y \in Seq(S) : x \o y \in Seq(S)  OBVIOUS
<1>2. <<a, b, c>> \in Seq(S) /\ <<t>> \in Seq(S) /\ g \in Seq(S)  OBVIOUS
<1>3. Len(f) = 4 /\ Len(g) = 4 /\ \A n \in 1 .. 4 : f[n] = g[n]  OBVIOUS
<1>4. f \in Seq(S)  BY <1>1, <1>2
<1> HIDE DEF S, f, g
<1>5. f = g  BY <1>2, <1>3, <1>4, SeqEqual
<1> QED  BY <1>5 DEF f, g

\* And shorter ones.
LEMMA GluedPair ==
  ASSUME NEW a, NEW b, NEW t
  PROVE  <<a, b>> \o <<t>> = <<a, b, t>>
<1> DEFINE S == {a, b, t}
           f == <<a, b>> \o <<t>>
           g == <<a, b, t>>
<1>1. \A x, y \in Seq(S) : x \o y \in Seq(S)  OBVIOUS
<1>2. <<a, b>> \in Seq(S) /\ <<t>> \in Seq(S) /\ g \in Seq(S)  OBVIOUS
<1>3. Len(f) = 3 /\ Len(g) = 3 /\ \A n \in 1 .. 3 : f[n] = g[n]  OBVIOUS
<1>4. f \in Seq(S)  BY <1>1, <1>2
<1> HIDE DEF S, f, g
<1>5. f = g  BY <1>2, <1>3, <1>4, SeqEqual
<1> QED  BY <1>5 DEF f, g

\* The parameters of a call that waits are told apart by their names, which its body repeats.
LEMMA SyncForwards ==
  ASSUME NEW m, NEW v, NEW d, d.params = SyncParams(m, v), d.with = SyncWith(m)
  PROVE  Forwards(d)
<1> DEFINE a == Context
           b == RequestRef(v)
           c == ResponsePtr(v)
<1>1. a[1] = "context" /\ b[1] = "request" /\ c[1] = "response"  BY NamedParams
<1>2. \/ d.params = <<a, b, c>> /\ d.with = <<"context", "request", "response">>
      \/ d.params = <<a, c>> /\ d.with = <<"context", "response">>
      \/ d.params = <<a, b>> /\ d.with = <<"context", "request">>
      \/ d.params = <<a>> /\ d.with = <<"context">>
  BY Zenon DEF SyncParams, SyncWith
<1> HIDE DEF a, b, c
<1> QED  BY <1>1, <1>2, ForwardsOf

\* So are those of a call on a completion queue.
LEMMA AsyncForwards ==
  ASSUME NEW m, NEW v, NEW p \in AsyncPrefixes, NEW d, d.params = AsyncParams(m, v, p),
    d.with = AsyncWith(m, p)
  PROVE  Forwards(d)
<1> DEFINE a == Context
           b == RequestRef(v)
           c == ResponsePtr(v)
           q == Queue
           t == Tag
<1>1. /\ a[1] = "context" /\ b[1] = "request" /\ c[1] = "response" /\ q[1] = "cq" /\ t[1] = "tag"
  BY NamedParams
<1>2. \/ d.params = <<a, b, q>> /\ d.with = <<"context", "request", "cq">>
      \/ d.params = <<a, c, q>> \o p.params /\ d.with = <<"context", "response", "cq">> \o p.args
      \/ d.params = <<a, b, q>> \o p.params /\ d.with = <<"context", "request", "cq">> \o p.args
      \/ d.params = <<a, q>> \o p.params /\ d.with = <<"context", "cq">> \o p.args
  BY Zenon DEF AsyncParams, AsyncWith
<1>3. \/ p.params = <<t>> /\ p.args = <<"tag">>
      \/ p.params = <<>> /\ p.args = <<>>
  BY DEF AsyncPrefixes
<1> HIDE DEF a, b, c, q, t
<1>4. \/ d.params = <<a, b, q>> /\ d.with = <<"context", "request", "cq">>
      \/ d.params = <<a, c, q, t>> /\ d.with = <<"context", "response", "cq", "tag">>
      \/ d.params = <<a, c, q>> /\ d.with = <<"context", "response", "cq">>
      \/ d.params = <<a, b, q, t>> /\ d.with = <<"context", "request", "cq", "tag">>
      \/ d.params = <<a, q, t>> /\ d.with = <<"context", "cq", "tag">>
      \/ d.params = <<a, q>> /\ d.with = <<"context", "cq">>
  <2>1. ASSUME NEW x, NEW y, NEW z, NEW w  PROVE <<x, y, z>> \o <<w>> = <<x, y, z, w>>  BY Glued
  <2>2. ASSUME NEW x, NEW y, NEW w  PROVE <<x, y>> \o <<w>> = <<x, y, w>>  BY GluedPair
  <2>3. ASSUME NEW x, NEW y, NEW z  PROVE <<x, y, z>> \o <<>> = <<x, y, z>>
    <3>1. \A f \in Seq({x, y, z}) : f \o <<>> = f  OBVIOUS
    <3> QED  BY <3>1
  <2>4. ASSUME NEW x, NEW y  PROVE <<x, y>> \o <<>> = <<x, y>>
    <3>1. \A f \in Seq({x, y}) : f \o <<>> = f  OBVIOUS
    <3> QED  BY <3>1
  <2>5. <<a, c, q>> \o <<t>> = <<a, c, q, t>>  BY Zenon, <2>1
  <2>6. <<a, c, q>> \o <<>> = <<a, c, q>>  BY Zenon, <2>3
  <2>7. <<a, b, q>> \o <<t>> = <<a, b, q, t>>  BY Zenon, <2>1
  <2>8. <<a, b, q>> \o <<>> = <<a, b, q>>  BY Zenon, <2>3
  <2>9. <<"context", "response", "cq">> \o <<"tag">> = <<"context", "response", "cq", "tag">>
    BY Zenon, <2>1
  <2>10. <<"context", "response", "cq">> \o <<>> = <<"context", "response", "cq">>  BY Zenon, <2>3
  <2>11. <<"context", "request", "cq">> \o <<"tag">> = <<"context", "request", "cq", "tag">>
    BY Zenon, <2>1
  <2>12. <<"context", "request", "cq">> \o <<>> = <<"context", "request", "cq">>  BY Zenon, <2>3
  <2>13. <<a, q>> \o <<t>> = <<a, q, t>>  BY Zenon, <2>2
  <2>14. <<a, q>> \o <<>> = <<a, q>>  BY Zenon, <2>4
  <2>15. <<"context", "cq">> \o <<"tag">> = <<"context", "cq", "tag">>  BY Zenon, <2>2
  <2>16. <<"context", "cq">> \o <<>> = <<"context", "cq">>  BY Zenon, <2>4
  <2>17. CASE p.params = <<t>> /\ p.args = <<"tag">>
    BY Zenon, <1>2, <2>17, <2>5, <2>7, <2>9, <2>11, <2>13, <2>15
  <2>18. CASE p.params = <<>> /\ p.args = <<>>
    BY Zenon, <1>2, <2>18, <2>6, <2>8, <2>10, <2>12, <2>14, <2>16
  <2> QED  BY <1>3, <2>17, <2>18
<1> QED  BY <1>1, <1>4, ForwardsOf

\* A wrapper finds the Raw function it adopts the result of.
LEMMA WrapperCalls ==
  ASSUME NEW of, NEW m, Kind(m), NEW v, NEW cq \in BOOLEAN, NEW sync, NEW async, NEW how,
         NEW d \in PublicForm(of, m, v, cq, sync, async, how), d.call # <<>>
  PROVE  Forwards(d) /\ \E b \in PrivateForm(of, m, v, cq, sync, async, how) : Wraps(d, b)
<1>1. CASE ~NoStreaming(m) /\ d = SyncWrapper(of, m, v, sync)
  <2> DEFINE pointer == <<"unique_ptr">> \o sync
             raw == v.Method \o Raw
             a == Decl(of, v.Method, SyncParams(m, v), pointer, "inline")
             b == SyncRaw(of, m, v, sync, how)
  <2>1. d = Body(a, raw, SyncWith(m)) /\ b = Decl(of, raw, SyncParams(m, v), sync, how)
    BY <1>1 DEF SyncWrapper, SyncRaw
  <2> HIDE DEF pointer, raw
  <2>2. DOMAIN a = Fields /\ a.of = of /\ a.params = SyncParams(m, v) /\ a.ret = pointer /\ a.how = "inline"
    BY DeclFields
  <2>3. b.of = of /\ b.name = raw /\ b.params = SyncParams(m, v) /\ b.ret = sync
    BY <2>1, DeclFields
  <2> HIDE DEF a, b
  <2>4. /\ d.of = of /\ d.params = SyncParams(m, v) /\ d.ret = pointer /\ d.how = "inline"
        /\ d.call = raw /\ d.with = SyncWith(m)
    BY <2>1, <2>2, BodyFields
  <2>5. b \in PrivateForm(of, m, v, cq, sync, async, how)  BY <1>1 DEF PrivateForm, b
  <2>6. Wraps(d, b)  BY <2>3, <2>4 DEF Wraps, pointer
  <2> QED  BY <2>4, <2>5, <2>6, SyncForwards
<1>2. ASSUME NEW p \in AsyncPrefixes, cq, d = AsyncWrapper(of, m, v, p, async)
      PROVE  Forwards(d) /\ \E b \in PrivateForm(of, m, v, cq, sync, async, how) : Wraps(d, b)
  <2> DEFINE pointer == <<"unique_ptr">> \o async
             raw == p.prefix \o v.Method \o Raw
             name == p.prefix \o v.Method
             a == Decl(of, name, AsyncParams(m, v, p), pointer, "inline")
             b == AsyncRaw(of, m, v, p, async, how)
  <2>1. d = Body(a, raw, AsyncWith(m, p)) /\ b = Decl(of, raw, AsyncParams(m, v, p), async, how)
    BY <1>2 DEF AsyncWrapper, AsyncRaw
  <2> HIDE DEF pointer, raw, name
  <2>2. DOMAIN a = Fields /\ a.of = of /\ a.params = AsyncParams(m, v, p) /\ a.ret = pointer /\ a.how = "inline"
    BY DeclFields
  <2>3. b.of = of /\ b.name = raw /\ b.params = AsyncParams(m, v, p) /\ b.ret = async
    BY <2>1, DeclFields
  <2> HIDE DEF a, b
  <2>4. /\ d.of = of /\ d.params = AsyncParams(m, v, p) /\ d.ret = pointer /\ d.how = "inline"
        /\ d.call = raw /\ d.with = AsyncWith(m, p)
    BY <2>1, <2>2, BodyFields
  <2>5. b \in PrivateForm(of, m, v, cq, sync, async, how)  BY <1>2 DEF PrivateForm, When, b
  <2>6. Wraps(d, b)  BY <2>3, <2>4 DEF Wraps, pointer
  <2> QED  BY <2>4, <2>5, <2>6, AsyncForwards
<1>3. Plain(of, m, v, how).call = <<>>  BY DeclFields DEF Plain
<1> QED  BY <1>1, <1>2, <1>3 DEF PublicForm, When

\* In the source, AsyncMRaw of a unary method calls its PrepareAsyncMRaw; all other bodies go
\* to the RpcMethod.
LEMMA SourceCalls ==
  ASSUME NEW m, Kind(m), NEW v, v.Method \in Seq(STRING), NEW cq \in BOOLEAN,
         NEW d \in SourceForm(m, v, cq), d.of = Stub, d.call[1] # "rpcmethod_"
  PROVE  Forwards(d) /\ \E b \in SourceForm(m, v, cq) : Wraps(d, b)
<1>1. RpcMethod(v)[1] = "rpcmethod_"  BY DEF RpcMethod
<1>2. ASSUME NEW of, NEW name, NEW params, NEW ret, NEW call, NEW with
      PROVE  LET e == Defined(of, name, params, ret, call, with) IN
             /\ DOMAIN e = Fields /\ e.of = of /\ e.name = name /\ e.params = params /\ e.ret = ret /\ e.how = "defined"
             /\ e.call = call /\ e.with = with
  <2> DEFINE a == Decl(of, name, params, ret, "defined")
  <2>1. DOMAIN a = Fields /\ a.of = of /\ a.name = name /\ a.params = params /\ a.ret = ret /\ a.how = "defined"
    BY DeclFields
  <2> HIDE DEF a
  <2> QED  BY <2>1, BodyFields DEF Defined, a
<1>3. SyncDefined(m, v).call[1] = "rpcmethod_"  BY <1>1, <1>2 DEF SyncDefined
<1>4. ASSUME NEW c  PROVE CallbackDefined(v, c).of = StubAsync  BY <1>2 DEF CallbackDefined
<1>5. ASSUME NEW p \in AsyncPrefixes
      PROVE  LET e == AsyncDefined(m, v, p) IN
             /\ e.of = Stub /\ e.name = p.prefix \o v.Method \o Raw /\ e.params = AsyncParams(m, v, p)
             /\ e.ret = AsyncRet(m, v) /\ e.how = "defined" /\ e.call = AsyncCall(m, v, p) /\ e.with = AsyncArgs(m, p)
  <2> DEFINE raw == p.prefix \o v.Method \o Raw
             a == Defined(Stub, raw, AsyncParams(m, v, p), AsyncRet(m, v), AsyncCall(m, v, p), AsyncArgs(m, p))
             e == AsyncDefined(m, v, p)
  <2>2. e = Starting(a, p.start)  BY DEF AsyncDefined
  <2> HIDE DEF raw, e
  <2>1. /\ DOMAIN a = Fields /\ a.of = Stub /\ a.name = raw /\ a.params = AsyncParams(m, v, p)
        /\ a.ret = AsyncRet(m, v) /\ a.how = "defined" /\ a.call = AsyncCall(m, v, p) /\ a.with = AsyncArgs(m, p)
    BY <1>2
  <2> HIDE DEF a
  <2>3. /\ e.of = Stub /\ e.name = raw /\ e.params = AsyncParams(m, v, p)
        /\ e.ret = AsyncRet(m, v) /\ e.how = "defined" /\ e.call = AsyncCall(m, v, p) /\ e.with = AsyncArgs(m, p)
    BY <2>1, <2>2, StartingFields
  <2> QED  BY Zenon, <2>3 DEF e, raw
<1>6. PICK p \in AsyncPrefixes : cq /\ d = AsyncDefined(m, v, p)
  <2>1. Stub # StubAsync  BY DEF Stub, StubAsync
  <2>2. \/ d = SyncDefined(m, v) \/ \E c : d = CallbackDefined(v, c)
        \/ cq /\ \E p \in AsyncPrefixes : d = AsyncDefined(m, v, p)
    BY Zenon DEF SourceForm, When
  <2> QED  BY Zenon, <1>3, <1>4, <2>1, <2>2
<1>7. NoStreaming(m) /\ p.start  BY <1>1, <1>5, <1>6 DEF AsyncCall
<1>8. PICK q \in AsyncPrefixes : ~q.start /\ q.prefix = <<"PrepareAsync">>  BY Prefixes
<1> DEFINE b == AsyncDefined(m, v, q)
<1>9. b \in SourceForm(m, v, cq)  BY <1>6 DEF SourceForm, When
<1>10. b.of = d.of /\ b.name = d.call /\ b.params = d.params /\ b.ret = d.ret /\ d.how = "defined"
  BY <1>5, <1>6, <1>7, <1>8 DEF AsyncCall, AsyncParams
<1>11. d.with = AsyncWith(m, p) /\ d.params = AsyncParams(m, v, p)
  BY <1>5, <1>6, <1>7 DEF AsyncArgs, AsyncWith
<1> QED  BY <1>9, <1>10, <1>11, AsyncForwards DEF Wraps

\* What the loops that print mixins declare of a method.
LEMMA MixinDue ==
  ASSUME IInv, NEW s \in DOMAIN file.services, NEW k \in DOMAIN Methods(s), NEW l \in MixinLoops,
         NEW e \in DueAt(l, s, k)
  PROVE  /\ Mixed(e, <<MixinOf(l)>> \o Methods(s)[k].name, Methods(s)[k], Fresh(s, k),
                  Sync \/ l \in {"StreamedUnary", "SplitStreaming"})
         /\ Answered(e, DueAt(l, s, k))
<1> DEFINE m == Methods(s)[k]
           v == Fresh(s, k)
           raw == FreshRaw(s, k)
           of == <<MixinOf(l)>> \o m.name
           y == Sync \/ l \in {"StreamedUnary", "SplitStreaming"}
<1> SUFFICES Mixed(e, of, m, v, y) /\ Answered(e, DueAt(l, s, k))  OBVIOUS
<1>0. Kind(m) /\ Cq \in BOOLEAN /\ Sync \in BOOLEAN  BY MethodKinds
<1>1. v.Method = m.name /\ raw.Method = m.name  BY FreshMethod
<1>2. ServerParams(m, raw) = ServerParams(m, v)
  <2>1. /\ RequestPtr(raw) = RequestPtr(v) /\ ResponsePtr(raw) = ResponsePtr(v) /\ Reader(raw) = Reader(v)
        /\ Writer(raw) = Writer(v) /\ Stream(raw) = Stream(v)
    BY FreshMethod DEF RequestPtr, ResponsePtr, Reader, Writer, Stream
  <2> QED  BY Zenon, <2>1 DEF ServerParams
<1> HIDE DEF v, raw
<1>3. ASSUME Mixed(e, of, m, v, Sync) \/ Mixed(e, of, m, raw, Sync)  PROVE Mixed(e, of, m, v, y)
  BY <1>1, <1>2, <1>3 DEF Mixed
<1>12. ASSUME e.lambda = <<>>  PROVE Answered(e, DueAt(l, s, k))  BY <1>12 DEF Answered
<1>4. CASE l = "Async"
  <2>1. e \in WithAsyncMethod(m, v, Sync) /\ DueAt(l, s, k) = WithAsyncMethod(m, v, Sync)
    BY <1>4, ServerDue DEF v
  <2>2. of = <<"WithAsyncMethod_">> \o v.Method  BY <1>1, <1>4 DEF MixinOf
  <2> HIDE DEF of
  <2>3. Mixed(e, of, m, v, Sync) /\ e.lambda = <<>>  BY <1>0, <2>1, <2>2, WithAsyncMethodMixed
  <2> QED  BY <1>3, <2>1, <2>3, <1>12
<1>5. CASE l = "ServerCallback"
  <2>1. e \in WithCallbackMethod(m, v, Sync) /\ DueAt(l, s, k) = WithCallbackMethod(m, v, Sync)
    BY <1>5, ServerDue DEF v
  <2>2. of = <<"WithCallbackMethod_">> \o v.Method  BY <1>1, <1>5 DEF MixinOf
  <2> HIDE DEF of
  <2>3. Mixed(e, of, m, v, Sync) /\ Answered(e, WithCallbackMethod(m, v, Sync))
    BY <1>0, <2>1, <2>2, WithCallbackMethodMixed
  <2> QED  BY <1>3, <2>1, <2>3
<1>6. CASE l = "Generic"
  <2>1. e \in WithGenericMethod(m, v, Sync) /\ DueAt(l, s, k) = WithGenericMethod(m, v, Sync)
    BY <1>6, ServerDue DEF v
  <2>2. of = <<"WithGenericMethod_">> \o v.Method  BY <1>1, <1>6 DEF MixinOf
  <2> HIDE DEF of
  <2>3. Mixed(e, of, m, v, Sync) /\ e.lambda = <<>>  BY <1>0, <2>1, <2>2, WithGenericMethodMixed
  <2> QED  BY <1>3, <2>1, <2>3, <1>12
<1>7. CASE l = "Raw"
  <2>1. e \in WithRawMethod(m, raw, Sync) /\ DueAt(l, s, k) = WithRawMethod(m, raw, Sync)
    BY <1>7, ServerDue DEF raw
  <2>2. of = <<"WithRawMethod_">> \o raw.Method  BY <1>1, <1>7 DEF MixinOf
  <2> HIDE DEF of
  <2>3. Mixed(e, of, m, raw, Sync) /\ e.lambda = <<>>  BY <1>0, <2>1, <2>2, WithRawMethodMixed
  <2> QED  BY <1>3, <2>1, <2>3, <1>12
<1>8. CASE l = "RawCallback"
  <2>1. e \in WithRawCallbackMethod(m, raw, Sync) /\ DueAt(l, s, k) = WithRawCallbackMethod(m, raw, Sync)
    BY <1>8, ServerDue DEF raw
  <2>2. of = <<"WithRawCallbackMethod_">> \o raw.Method  BY <1>1, <1>8 DEF MixinOf
  <2> HIDE DEF of
  <2>3. Mixed(e, of, m, raw, Sync) /\ Answered(e, WithRawCallbackMethod(m, raw, Sync))
    BY <1>0, <2>1, <2>2, WithRawCallbackMethodMixed
  <2> QED  BY <1>3, <2>1, <2>3
<1>9. CASE l = "StreamedUnary"
  <2>1. e \in WithStreamedUnaryMethod(m, v) /\ DueAt(l, s, k) = WithStreamedUnaryMethod(m, v)
    BY <1>9, ServerDue DEF v
  <2>2. of = <<"WithStreamedUnaryMethod_">> \o v.Method /\ (y <=> TRUE)  BY <1>1, <1>9 DEF MixinOf
  <2> HIDE DEF of, y
  <2>3. Mixed(e, of, m, v, TRUE) /\ Answered(e, WithStreamedUnaryMethod(m, v))
    BY <1>0, <2>1, <2>2, WithStreamedUnaryMethodMixed
  <2>4. Mixed(e, of, m, v, y)  BY <2>2, <2>3 DEF Mixed
  <2> QED  BY <2>1, <2>3, <2>4
<1>10. CASE l = "SplitStreaming"
  <2>1. e \in WithSplitStreamingMethod(m, v) /\ DueAt(l, s, k) = WithSplitStreamingMethod(m, v)
    BY <1>10, ServerDue DEF v
  <2>2. of = <<"WithSplitStreamingMethod_">> \o v.Method /\ (y <=> TRUE)  BY <1>1, <1>10 DEF MixinOf
  <2> HIDE DEF of, y
  <2>3. Mixed(e, of, m, v, TRUE) /\ Answered(e, WithSplitStreamingMethod(m, v))
    BY <1>0, <2>1, <2>2, WithSplitStreamingMethodMixed
  <2>4. Mixed(e, of, m, v, y)  BY <2>2, <2>3 DEF Mixed
  <2> QED  BY <2>1, <2>3, <2>4
<1> QED  BY <1>4, <1>5, <1>6, <1>7, <1>8, <1>9, <1>10 DEF MixinLoops

\* A mixin is none of the fixed classes.
LEMMA MixinNames ==
  ASSUME NEW l \in MixinLoops, NEW name \in Seq(STRING)
  PROVE  /\ (<<MixinOf(l)>> \o name)[1] \in Mixins
         /\ <<MixinOf(l)>> \o name \notin {Stub, StubInterface, StubAsync, AsyncInterface, MockStub, Service, <<>>}
<1>1. MixinOf(l) \in Mixins  BY DEF MixinOf, MixinLoops, Mixins
<1>2. \A x \in Mixins : x \notin {"Stub", "StubInterface", "async", "async_interface", "MockStub", "Service"}
  BY DEF Mixins
<1> DEFINE x == MixinOf(l)
<1> HIDE DEF x
<1>3. (<<x>> \o name)[1] = x /\ Len(<<x>> \o name) # 0  OBVIOUS
<1>4. \A y \in {Stub, StubInterface, StubAsync, AsyncInterface, MockStub, Service} :
        y[1] \in {"Stub", "StubInterface", "async", "async_interface", "MockStub", "Service"}
  BY DEF Stub, StubInterface, StubAsync, AsyncInterface, MockStub, Service
<1>5. Len(<<>>) = 0  OBVIOUS
<1>6. x \in Mixins  BY <1>1 DEF x
<1>7. <<x>> \o name \notin {Stub, StubInterface, StubAsync, AsyncInterface, MockStub, Service, <<>>}
  BY <1>2, <1>3, <1>4, <1>5, <1>6
<1> QED  BY <1>3, <1>6, <1>7 DEF x

\* The Service class and its definitions.
LEMMA ServiceClasses ==
  ASSUME IInv, NEW s \in DOMAIN file.services, NEW k \in DOMAIN Methods(s)
  PROVE  LET m == Methods(s)[k]
             v == Fresh(s, k)
             a == Decl(Service, v.Method, ServerParams(m, v), <<"Status">>, IF Sync THEN "virtual" ELSE "declared")
             b == Body(Decl(Service, v.Method, ServerParams(m, v), <<"Status">>, "defined"),
                       IF Sync THEN <<>> ELSE <<"abort">>, <<>>)
         IN /\ DueAt("Sync", s, k) = {a} /\ DueAt("SourceServer", s, k) = {b}
            /\ a.of = Service /\ a.name = v.Method /\ a.params = ServerParams(m, v) /\ a.ret = <<"Status">>
            /\ a.how = (IF Sync THEN "virtual" ELSE "declared") /\ a.call = <<>> /\ a.lambda = <<>>
            /\ b.of = Service /\ b.name = v.Method /\ b.params = ServerParams(m, v) /\ b.ret = <<"Status">>
            /\ b.how = "defined" /\ b.lambda = <<>> /\ b.call = (IF Sync THEN <<>> ELSE <<"abort">>)
<1> DEFINE m == Methods(s)[k]
           v == Fresh(s, k)
           ret == <<"Status">>
           how == IF Sync THEN "virtual" ELSE "declared"
           call == IF Sync THEN <<>> ELSE <<"abort">>
           a == Decl(Service, v.Method, ServerParams(m, v), ret, how)
           c == Decl(Service, v.Method, ServerParams(m, v), ret, "defined")
           b == Body(c, call, <<>>)
<1>0. Kind(m) /\ Sync \in BOOLEAN  BY MethodKinds
<1>1. DueAt("Sync", s, k) = {a} /\ DueAt("SourceServer", s, k) = {b}
  <2>1. SyncMethod(m, v, Sync) = {a} /\ SourceServerMethod(m, v, Sync) = {b}
    BY <1>0, SyncMethodForm, SourceServerForm
  <2> QED  BY Zenon, <2>1, ServerDue
<1> HIDE DEF m, v, ret, how, call
<1>2. /\ a.of = Service /\ a.name = v.Method /\ a.params = ServerParams(m, v) /\ a.ret = ret
      /\ a.how = how /\ a.call = <<>> /\ a.lambda = <<>>
  BY DeclFields
<1>3. /\ DOMAIN c = Fields /\ c.of = Service /\ c.name = v.Method /\ c.params = ServerParams(m, v) /\ c.ret = ret
      /\ c.how = "defined" /\ c.lambda = <<>>
  BY DeclFields
<1> HIDE DEF a, c
<1>4. /\ b.of = Service /\ b.name = v.Method /\ b.params = ServerParams(m, v) /\ b.ret = ret
      /\ b.how = "defined" /\ b.lambda = <<>> /\ b.call = call
  BY <1>3, BodyFields
<1> HIDE DEF b
<1> QED  BY Zenon, <1>1, <1>2, <1>4 DEF a, b, c, call, how, ret, m, v

\* What a unit declares before its loops.
LEMMA FirstClasses ==
  ASSUME NEW u \in Units, NEW s, NEW e \in DueFirst(u, s)
  PROVE  /\ e.lambda = <<>> /\ e.how \in {"inline", "default", "override", "declared", "virtual", "defined"}
         /\ e.of \in {Stub, StubInterface, Service, <<>>}
         /\ e.call = <<>> \/ Len(e.call) = 1
         /\ e.how = "override" => e.of = Stub /\ e.name = <<"async">> /\ e.params = <<>> /\ e.ret = <<"async">>
<1> DEFINE v == [InitialVars EXCEPT !.Package = file.package, !.Service = ServiceName(s)]
           full == v.Package \o v.Service
           name == <<"async">>
           face == <<"async", "Interface">>
           stub == <<"async_stub_">>
           over == Decl(Stub, name, <<>>, name, "override")
           pointer == <<"unique_ptr", "Stub">>
           new == <<"NewStub">>
           dtor == <<"~">> \o Service
<1>1. \/ u = "header" /\ DueFirst(u, s) = HeaderFixed(v)
      \/ u = "source" /\ DueFirst(u, s) = SourceFixed
      \/ u = "mock" /\ DueFirst(u, s) = {}
  BY Zenon DEF DueFirst, Units
<1>2. HeaderFixed(v) = {Decl(<<>>, <<"service_full_name">>, <<>>, full, "inline"),
                        Decl(StubInterface, name, <<>>, face, "default"), Body(over, stub, <<>>),
                        Decl(Stub, Stub, ChannelAndOptions, <<>>, "declared"),
                        Decl(<<>>, new, ChannelAndOptions, pointer, "declared"),
                        Decl(Service, Service, <<>>, <<>>, "declared"), Decl(Service, dtor, <<>>, <<>>, "virtual")}
  BY DEF HeaderFixed
<1>3. SourceFixed = {Decl(<<>>, new, ChannelAndOptions, pointer, "defined"),
                     Decl(Stub, Stub, ChannelAndOptions, <<>>, "defined"),
                     Decl(Service, Service, <<>>, <<>>, "defined"), Decl(Service, dtor, <<>>, <<>>, "defined")}
  BY DEF SourceFixed
<1> DEFINE Fits(x) ==
      /\ x.lambda = <<>> /\ x.how \in {"inline", "default", "override", "declared", "virtual", "defined"}
      /\ x.of \in {Stub, StubInterface, Service, <<>>}
      /\ x.call = <<>> \/ Len(x.call) = 1
      /\ x.how = "override" => x.of = Stub /\ x.name = <<"async">> /\ x.params = <<>> /\ x.ret = <<"async">>
<1>4. ASSUME NEW of \in {Stub, StubInterface, Service, <<>>}, NEW n, NEW params, NEW ret,
             NEW how \in {"inline", "default", "declared", "virtual", "defined"}
      PROVE  Fits(Decl(of, n, params, ret, how))
  BY DeclFields
<1>5. Fits(Body(over, stub, <<>>))
  <2>1. Len(stub) = 1  OBVIOUS
  <2> HIDE DEF name, stub
  <2>2. DOMAIN over = Fields /\ over.of = Stub /\ over.name = name /\ over.params = <<>> /\ over.ret = name
        /\ over.how = "override" /\ over.lambda = <<>>
    BY DeclFields
  <2> HIDE DEF over
  <2>3. LET x == Body(over, stub, <<>>) IN
        /\ x.of = Stub /\ x.name = name /\ x.params = <<>> /\ x.ret = name
        /\ x.how = "override" /\ x.lambda = <<>> /\ x.call = stub
    BY <2>2, BodyFields
  <2> QED  BY <2>1, <2>3 DEF name
<1> HIDE DEF v, full, name, face, stub, over, pointer, new, dtor, Fits
<1>6. \A x \in HeaderFixed(v) \cup SourceFixed : Fits(x)
  BY <1>2, <1>3, <1>4, <1>5
<1>7. Fits(e)  BY <1>1, <1>6
<1> QED  BY <1>7 DEF Fits

\* The loops, by what they print.
LEMMA LoopCases ==
  ASSUME NEW l \in AllLoops
  PROVE  \/ l \in {"Interfaces", "CallbackInterfaces", "RawInterfaces", "Methods", "Callback", "RawMethods",
                   "Data", "Inits", "SourceClient", "MockMethods"}
         \/ l \in {"Sync", "SourceServer"} \/ l \in MixinLoops \/ l \in SilentLoops
BY DEF AllLoops, MixinLoops

\* What is generated: the header and the source, and a mock when it was asked for.
LEMMA WrittenUnits ==
  ASSUME IInv, Generated
  PROVE  "header" \in written /\ "source" \in written /\ written \subseteq Units
BY DEF IInv, TypeOK, WrittenOK, Generated

\* No option switches these loops off.
LEMMA AllowedLoops ==
  /\ \A l \in {"Interfaces", "CallbackInterfaces", "RawInterfaces", "Methods", "Callback", "RawMethods",
               "Data", "Inits", "SourceClient", "MockMethods", "Sync", "SourceServer"} : Allowed(l)
  /\ \A l \in {"StreamedUnary", "SplitStreaming"} : Allowed(l) => Sync
BY DEF Allowed

\* A wrapper of the client, and the function it calls.
LEMMA ClientResolves ==
  ASSUME IInv, TurnsOK, Generated, NEW s \in DOMAIN file.services, NEW k \in DOMAIN Methods(s),
         NEW l \in {"Interfaces", "Methods", "SourceClient"}, NEW e \in DueAt(l, s, k),
         e.of \in {Stub, StubInterface}, e.call # <<>>, e.call[1] # "rpcmethod_"
  PROVE  Forwards(e) /\ \E b \in decls : b.service = s /\ Wraps(e, b)
<1> DEFINE m == Methods(s)[k]
           v == Fresh(s, k)
<1>0. Kind(m) /\ Cq \in BOOLEAN /\ v.Method \in Seq(STRING)  BY MethodKinds, FreshMethod
<1>1. ASSUME NEW u \in written, NEW due \in LoopSet(u), Allowed(due), NEW b \in DueAt(due, s, k), Wraps(e, b)
      PROVE  \E c \in decls : c.service = s /\ Wraps(e, c)
  <2>1. PICK c \in decls : SameDecl(c, b) /\ c.service = s  BY <1>1, AllDue
  <2> QED  BY <1>1, <2>1 DEF SameDecl, Wraps
<1>5. /\ "header" \in written /\ "source" \in written
      /\ "RawInterfaces" \in LoopSet("header") /\ Allowed("RawInterfaces")
      /\ "RawMethods" \in LoopSet("header") /\ Allowed("RawMethods")
      /\ "SourceClient" \in LoopSet("source") /\ Allowed("SourceClient")
  BY WrittenUnits, LoopSets, AllowedLoops
<1> HIDE DEF v, m
<1>2. CASE l = "Interfaces"
  <2>1. /\ e \in PublicForm(StubInterface, m, v, Cq, Iface(SyncRet(m, v)), Iface(AsyncRet(m, v)), "pure")
        /\ DueAt("RawInterfaces", s, k)
             = PrivateForm(StubInterface, m, v, Cq, Iface(SyncRet(m, v)), Iface(AsyncRet(m, v)), "pure")
    <3>1. e \in PublicInterfaces(m, v, Cq) /\ DueAt("RawInterfaces", s, k) = PrivateInterfaces(m, v, Cq)
      BY <1>2, ClientDue DEF v, m
    <3> QED  BY <1>0, <3>1, PublicInterfacesForm, PrivateInterfacesForm
  <2>2. Forwards(e) /\ \E b \in DueAt("RawInterfaces", s, k) : Wraps(e, b)
    BY <1>0, <2>1, WrapperCalls
  <2> QED  BY <1>1, <1>5, <2>2
<1>3. CASE l = "Methods"
  <2>1. /\ e \in PublicForm(Stub, m, v, Cq, SyncRet(m, v), AsyncRet(m, v), "override")
        /\ DueAt("RawMethods", s, k) = PrivateForm(Stub, m, v, Cq, SyncRet(m, v), AsyncRet(m, v), "override")
    <3>1. e \in PublicMethods(m, v, Cq) /\ DueAt("RawMethods", s, k) = PrivateMethods(m, v, Cq)
      BY <1>3, ClientDue DEF v, m
    <3> QED  BY <1>0, <3>1, PublicMethodsForm, PrivateMethodsForm
  <2>2. Forwards(e) /\ \E b \in DueAt("RawMethods", s, k) : Wraps(e, b)
    BY <1>0, <2>1, WrapperCalls
  <2> QED  BY <1>1, <1>5, <2>2
<1>4. CASE l = "SourceClient"
  <2>1. e \in SourceForm(m, v, Cq) /\ DueAt("SourceClient", s, k) = SourceForm(m, v, Cq)
    BY ZenonT(40), <1>0, <1>4, ClientDue, SourceClientForm DEF v, m
  <2>2. e.of = Stub
    <3>1. e.of \in {Stub, StubAsync}  BY <1>4, ClientClasses
    <3> QED  BY <3>1 DEF Stub, StubAsync, StubInterface
  <2>3. Forwards(e) /\ \E b \in DueAt("SourceClient", s, k) : Wraps(e, b)
    BY <1>0, <2>1, <2>2, SourceCalls
  <2> QED  BY <1>1, <1>5, <2>3
<1> QED  BY <1>2, <1>3, <1>4

\* A body of a stub calls a function of its own class, of its own parameters.
LEMMA WrappersResolve ==
  ASSUME IInv, TurnsOK, Generated, NEW d \in decls, d.of \in {Stub, StubInterface}, Len(d.call) > 1,
         d.call[1] # "rpcmethod_"
  PROVE  Forwards(d) /\ \E b \in decls : b.service = d.service /\ Wraps(d, b)
<1> DEFINE s == d.service
           k == d.method
<1>0. d.call # <<>> /\ ~(Len(d.call) = 1)
  <2> DEFINE c == d.call
  <2>1. Len(c) > 1 /\ Len(<<>>) = 0  OBVIOUS
  <2> HIDE DEF c
  <2>2. c # <<>>  BY <2>1
  <2>3. ~(Len(c) = 1)
    <3>1. ~(1 > 1)  OBVIOUS
    <3> QED  BY Zenon, <2>1, <3>1
  <2> QED  BY <2>2, <2>3 DEF c
<1>1. d.unit \in Units /\ s \in DOMAIN file.services  BY Origin
<1>2. ~ \E e \in DueFirst(d.unit, s) : SameDecl(d, e)  BY <1>0, <1>1, FirstClasses DEF SameDecl
<1>3. k \in DOMAIN Methods(s)  BY <1>2, Origin
<1>4. PICK l \in AllLoops : \E e \in DueAt(l, s, k) : SameDecl(d, e)  BY <1>2, Origin
<1>5. PICK e \in DueAt(l, s, k) : SameDecl(d, e)  BY <1>4
<1> HIDE DEF s, k
<1>6. e.of \in {Stub, StubInterface} /\ e.call # <<>> /\ e.call[1] # "rpcmethod_" /\ ~(Len(e.call) = 1)
  BY <1>0, <1>5 DEF SameDecl
<1>7. l \in {"Interfaces", "Methods", "SourceClient"}
  <2>1. Stub # StubAsync /\ StubInterface # StubAsync /\ Stub # AsyncInterface /\ StubInterface # AsyncInterface
        /\ Stub # Service /\ StubInterface # Service /\ Stub # MockStub /\ StubInterface # MockStub
    BY DEF Stub, StubAsync, StubInterface, AsyncInterface, Service, MockStub
  <2>2. l \notin {"CallbackInterfaces", "RawInterfaces", "Callback", "RawMethods", "Data", "Inits", "MockMethods"}
    BY <1>1, <1>3, <1>5, <1>6, <2>1, ClientClasses DEF s
  <2>3. l \notin {"Sync", "SourceServer"}  BY <1>1, <1>3, <1>5, <1>6, <2>1, ServiceClasses DEF s
  <2>4. l \notin MixinLoops
    <3>1. SUFFICES ASSUME l \in MixinLoops  PROVE FALSE  OBVIOUS
    <3>2. e.of = <<MixinOf(l)>> \o Methods(s)[k].name  BY <1>1, <1>3, <1>5, <3>1, MixinDue
        DEF Mixed, s
    <3>3. Methods(s)[k].name \in Seq(STRING)  BY <1>1, <1>3, MethodKinds DEF s
    <3> QED  BY <1>6, <3>1, <3>2, <3>3, MixinNames
  <2>5. l \notin SilentLoops  BY <1>5, NothingDue
  <2> QED  BY <2>2, <2>3, <2>4, <2>5, LoopCases
<1>8. Forwards(e) /\ \E b \in decls : b.service = s /\ Wraps(e, b)
  BY <1>1, <1>3, <1>5, <1>6, <1>7, ClientResolves DEF s
<1> QED  BY <1>5, <1>8 DEF SameDecl, Wraps, Forwards, s

\* A handler's lambda calls a member of its own mixin.
LEMMA LambdasResolve ==
  ASSUME IInv, TurnsOK, Generated, NEW d \in decls, d.lambda # <<>>
  PROVE  \E b \in decls : b.of = d.of /\ b.service = d.service /\ b.name = d.with /\ b.params = d.lambda
<1> DEFINE s == d.service
           k == d.method
<1>1. d.unit \in Units /\ s \in DOMAIN file.services  BY Origin
<1>2. ~ \E e \in DueFirst(d.unit, s) : SameDecl(d, e)  BY <1>1, FirstClasses DEF SameDecl
<1>3. k \in DOMAIN Methods(s)  BY <1>2, Origin
<1>4. PICK l \in AllLoops : Allowed(l) /\ \E e \in DueAt(l, s, k) : SameDecl(d, e)  BY <1>2, Origin
<1>5. PICK e \in DueAt(l, s, k) : SameDecl(d, e)  BY <1>4
<1> HIDE DEF s, k
<1>6. e.lambda # <<>> /\ e.lambda = d.lambda /\ e.of = d.of /\ e.with = d.with  BY <1>5 DEF SameDecl
<1>7. l \in MixinLoops
  <2>1. l \notin {"Interfaces", "CallbackInterfaces", "RawInterfaces", "Methods", "Callback", "RawMethods",
                  "Data", "Inits", "SourceClient", "MockMethods"}
    BY <1>1, <1>3, <1>5, <1>6, ClientClasses DEF s
  <2>2. l \notin {"Sync", "SourceServer"}  BY <1>1, <1>3, <1>5, <1>6, ServiceClasses DEF s
  <2>3. l \notin SilentLoops  BY <1>5, NothingDue
  <2> QED  BY <2>1, <2>2, <2>3, LoopCases
<1>8. PICK a \in DueAt(l, s, k) : a.of = e.of /\ a.name = e.with /\ a.params = e.lambda
  BY ZenonT(40), <1>1, <1>3, <1>5, <1>6, <1>7, MixinDue DEF Answered, s
<1>9. l \in LoopSet("header") /\ "header" \in written  BY <1>7, LoopSets, WrittenUnits
    DEF MixinLoops
<1>10. PICK b \in decls : SameDecl(b, a) /\ b.service = s
  BY <1>1, <1>3, <1>4, <1>8, <1>9, AllDue DEF s
<1> QED  BY <1>6, <1>8, <1>10 DEF SameDecl, s

\* An entry of the method table calls a member of Service.
LEMMA AddsResolve ==
  ASSUME IInv, TurnsOK, Generated, NEW s \in DOMAIN adds, NEW k \in DOMAIN adds[s]
  PROVE  \E b \in In("header") : b.of = Service /\ b.service = s /\ b.name = adds[s][k].call
                                   /\ b.params = adds[s][k].lambda
<1>1. s \in DOMAIN file.services /\ DOMAIN adds[s] = DOMAIN Methods(s)
  <2>1. s \in DOMAIN file.services /\ IsSequence(adds[s])  BY DEF IInv, TypeOK
  <2>2. Len(adds[s]) = Len(Methods(s))  BY <2>1 DEF IInv, TablesOK, AddsOK, Turns, Generated
  <2>3. DOMAIN adds[s] = 1 .. Len(adds[s])  BY <2>1 DEF IsSequence
  <2> QED  BY <2>1, <2>2, <2>3, Lengths DEF IInv
<1> DEFINE m == Methods(s)[k]
           v == Fresh(s, k)
<1>2. adds[s][k] = AddMethod(m, v)  BY <1>1 DEF TurnsOK, AddsDue
<1>3. Kind(m)  BY <1>1, MethodKinds
<1>4. adds[s][k].call = v.Method /\ adds[s][k].lambda = ServerParams(m, v)
  BY <1>2, <1>3, AddMethodForm
<1>5. PICK a \in DueAt("Sync", s, k) : a.of = Service /\ a.name = v.Method /\ a.params = ServerParams(m, v)
  BY <1>1, ServiceClasses
<1> HIDE DEF m, v
<1>6. PICK b \in decls : SameDecl(b, a) /\ b.service = s /\ b.unit = "header"
  <2>1. "Sync" \in LoopSet("header") /\ "header" \in written /\ Allowed("Sync")
    BY LoopSets, WrittenUnits, AllowedLoops
  <2> QED  BY <1>1, <1>5, <2>1, AllDue
<1> QED  BY <1>4, <1>5, <1>6 DEF SameDecl, In

\* For any .proto and any options: a generated body calls what exists, with arguments of the
\* types it takes: a wrapper its Raw function, AsyncMRaw its PrepareAsyncMRaw, a handler's
\* lambda a member of its mixin, an entry of the method table a member of Service.
THEOREM CallsTheorem == Spec => []CallsResolve
<1>1. ASSUME IInv, TurnsOK  PROVE CallsResolve
  <2> DEFINE Passed(d) == [n \in DOMAIN d.with |->
                             Tail((CHOOSE p \in {d.params[k] : k \in DOMAIN d.params} : p[1] = d.with[n]))]
  <2>1. ASSUME Generated, NEW d \in decls, d.of \in {Stub, StubInterface}, Len(d.call) > 1, d.call[1] # "rpcmethod_"
        PROVE  \E b \in decls :
                 /\ b.of = d.of /\ b.service = d.service /\ b.name = d.call /\ Types(b.params) = Passed(d)
                 /\ d.ret = IF d.how = "inline" THEN <<"unique_ptr">> \o b.ret ELSE b.ret
    <3>1. Forwards(d) /\ \E b \in decls : b.service = d.service /\ Wraps(d, b)
      BY <1>1, <2>1, WrappersResolve
    <3>2. Passed(d) = Types(d.params)  BY <3>1, PassedAll
    <3> HIDE DEF Passed
    <3> QED  BY <3>1, <3>2 DEF Wraps
  <2>2. ASSUME Generated, NEW d \in decls, d.lambda # <<>>
        PROVE  \E b \in decls : b.of = d.of /\ b.service = d.service /\ b.name = d.with
                                  /\ Types(b.params) = Types(d.lambda)
    BY <1>1, <2>2, LambdasResolve
  <2>3. ASSUME Generated, NEW s \in DOMAIN adds, NEW k \in DOMAIN adds[s]
        PROVE  \E b \in In("header") : b.of = Service /\ b.service = s /\ b.name = adds[s][k].call
                                         /\ Types(b.params) = Types(adds[s][k].lambda)
    BY <1>1, <2>3, AddsResolve
  <2> QED  BY Zenon, <2>1, <2>2, <2>3 DEF CallsResolve
<1> QED  BY <1>1, Invariance, TurnsTheorem, PTL

\* The same function, as two classes have it.
SameFunction(d, b) == d.name = b.name /\ d.params = b.params

\* A function that waits, field by field.
LEMMA PlainFields ==
  ASSUME NEW of, NEW m, NEW v, NEW how
  PROVE  LET d == Plain(of, m, v, how) IN
         d.of = of /\ d.name = v.Method /\ d.params = SyncParams(m, v) /\ d.ret = <<"Status">> /\ d.how = how
<1> DEFINE status == <<"Status">>
           d == Plain(of, m, v, how)
<1>1. d = Decl(of, v.Method, SyncParams(m, v), status, how)  BY DEF Plain
<1> HIDE DEF status, d
<1>2. d.of = of /\ d.name = v.Method /\ d.params = SyncParams(m, v) /\ d.ret = status /\ d.how = how
  BY <1>1, DeclFields
<1> QED  BY Zenon, <1>2 DEF status, d

\* Its Raw function, when it streams.
LEMMA SyncRawFields ==
  ASSUME NEW of, NEW m, NEW v, NEW ret, NEW how
  PROVE  LET d == SyncRaw(of, m, v, ret, how) IN
         d.of = of /\ d.name = v.Method \o Raw /\ d.params = SyncParams(m, v) /\ d.ret = ret /\ d.how = how
<1> DEFINE raw == v.Method \o Raw
           d == SyncRaw(of, m, v, ret, how)
<1>1. d = Decl(of, raw, SyncParams(m, v), ret, how)  BY DEF SyncRaw
<1> HIDE DEF raw, d
<1>2. d.of = of /\ d.name = raw /\ d.params = SyncParams(m, v) /\ d.ret = ret /\ d.how = how
  BY <1>1, DeclFields
<1> QED  BY Zenon, <1>2 DEF raw, d

\* And those on a completion queue.
LEMMA AsyncRawFields ==
  ASSUME NEW of, NEW m, NEW v, NEW p, NEW ret, NEW how
  PROVE  LET d == AsyncRaw(of, m, v, p, ret, how) IN
         /\ d.of = of /\ d.name = p.prefix \o v.Method \o Raw /\ d.params = AsyncParams(m, v, p) /\ d.ret = ret
         /\ d.how = how
<1> DEFINE raw == p.prefix \o v.Method \o Raw
           d == AsyncRaw(of, m, v, p, ret, how)
<1>1. d = Decl(of, raw, AsyncParams(m, v, p), ret, how)  BY DEF AsyncRaw
<1> HIDE DEF raw, d
<1>2. d.of = of /\ d.name = raw /\ d.params = AsyncParams(m, v, p) /\ d.ret = ret /\ d.how = how
  BY <1>1, DeclFields
<1> QED  BY Zenon, <1>2 DEF raw, d

\* The wrappers have their bodies in the class.
LEMMA WrappersInline ==
  ASSUME NEW of, NEW m, NEW v, NEW ret
  PROVE  SyncWrapper(of, m, v, ret).how = "inline" /\ \A p : AsyncWrapper(of, m, v, p, ret).how = "inline"
<1>1. ASSUME NEW name, NEW params, NEW type, NEW call, NEW with
      PROVE  Body(Decl(of, name, params, type, "inline"), call, with).how = "inline"
  BY DeclFields, BodyFields
<1>2. SyncWrapper(of, m, v, ret).how = "inline"  BY Zenon, <1>1 DEF SyncWrapper
<1>3. \A p : AsyncWrapper(of, m, v, p, ret).how = "inline"  BY Zenon, <1>1 DEF AsyncWrapper
<1> QED  BY <1>2, <1>3

\* The Raw functions of two classes.
LEMMA RawPairs ==
  ASSUME NEW m, NEW v, NEW cq, NEW of, NEW sync, NEW async, NEW how, NEW base, NEW sync2,
  NEW async2, NEW how2,
         NEW d \in PrivateForm(of, m, v, cq, sync, async, how)
  PROVE  /\ d.of = of /\ d.how = how
         /\ \E b \in PrivateForm(base, m, v, cq, sync2, async2, how2) :
              /\ SameFunction(d, b) /\ b.of = base /\ b.how = how2
              /\ \/ d.ret = sync /\ b.ret = sync2
                 \/ d.ret = async /\ b.ret = async2
<1>1. CASE ~NoStreaming(m) /\ d = SyncRaw(of, m, v, sync, how)
  <2> DEFINE b == SyncRaw(base, m, v, sync2, how2)
  <2>1. b \in PrivateForm(base, m, v, cq, sync2, async2, how2)  BY <1>1 DEF PrivateForm
  <2>2. d.of = of /\ d.name = v.Method \o Raw /\ d.params = SyncParams(m, v) /\ d.ret = sync /\ d.how = how
    BY <1>1, SyncRawFields
  <2>3. b.of = base /\ b.name = v.Method \o Raw /\ b.params = SyncParams(m, v) /\ b.ret = sync2 /\ b.how = how2
    BY SyncRawFields
  <2> HIDE DEF b
  <2> QED  BY <2>1, <2>2, <2>3 DEF SameFunction
<1>2. ASSUME cq, NEW p \in AsyncPrefixes, d = AsyncRaw(of, m, v, p, async, how)
      PROVE  /\ d.of = of /\ d.how = how
             /\ \E b \in PrivateForm(base, m, v, cq, sync2, async2, how2) :
                  SameFunction(d, b) /\ b.of = base /\ b.how = how2 /\ d.ret = async /\ b.ret = async2
  <2> DEFINE b == AsyncRaw(base, m, v, p, async2, how2)
             raw == p.prefix \o v.Method \o Raw
  <2>1. b \in PrivateForm(base, m, v, cq, sync2, async2, how2)  BY <1>2 DEF PrivateForm, When
  <2>2. d = Decl(of, raw, AsyncParams(m, v, p), async, how) /\ b = Decl(base, raw, AsyncParams(m, v, p), async2, how2)
    BY <1>2 DEF AsyncRaw
  <2> HIDE DEF raw, b
  <2>3. /\ d.of = of /\ d.name = raw /\ d.params = AsyncParams(m, v, p) /\ d.ret = async /\ d.how = how
        /\ b.of = base /\ b.name = raw /\ b.params = AsyncParams(m, v, p) /\ b.ret = async2 /\ b.how = how2
    BY <2>2, DeclFields
  <2> QED  BY <2>1, <2>2, <2>3 DEF SameFunction
<1> QED  BY <1>1, <1>2 DEF PrivateForm, When

\* Their other functions that are not wrappers.
LEMMA PlainPairs ==
  ASSUME NEW m, NEW v, NEW cq, NEW of, NEW sync, NEW async, NEW how, NEW base, NEW sync2,
  NEW async2, NEW how2,
         NEW d \in PublicForm(of, m, v, cq, sync, async, how), d.how # "inline"
  PROVE  /\ d.of = of /\ d.how = how
         /\ \E b \in PublicForm(base, m, v, cq, sync2, async2, how2) :
              SameFunction(d, b) /\ b.of = base /\ b.how = how2 /\ d.ret = b.ret
<1>1. NoStreaming(m) /\ d = Plain(of, m, v, how)
  <2>1. \/ NoStreaming(m) /\ d = Plain(of, m, v, how)
        \/ d = SyncWrapper(of, m, v, sync) \/ \E p : d = AsyncWrapper(of, m, v, p, async)
    BY Zenon DEF PublicForm, When
  <2> QED  BY <2>1, WrappersInline
<1> DEFINE b == Plain(base, m, v, how2)
<1>2. b \in PublicForm(base, m, v, cq, sync2, async2, how2)  BY <1>1 DEF PublicForm
<1>3. d.of = of /\ d.name = v.Method /\ d.params = SyncParams(m, v) /\ d.ret = <<"Status">> /\ d.how = how
  BY <1>1, PlainFields
<1>4. b.of = base /\ b.name = v.Method /\ b.params = SyncParams(m, v) /\ b.ret = <<"Status">> /\ b.how = how2
  BY PlainFields
<1> HIDE DEF b
<1> QED  BY <1>2, <1>3, <1>4 DEF SameFunction

\* The callback API.
LEMMA CallbackPairs ==
  ASSUME NEW m, NEW v, NEW of, NEW how, NEW base, NEW how2, NEW d \in Callbacks(of, m, v, how)
  PROVE  /\ d.of = of /\ d.how = how
         /\ \E b \in Callbacks(base, m, v, how2) : SameFunction(d, b) /\ b.of = base /\ b.how = how2 /\ d.ret = b.ret
<1> DEFINE ret == <<"void">>
           F(c, q, h) == Decl(c, v.Method, <<Context>> \o q, ret, h)
<1>1. \A c, h : Callbacks(c, m, v, h) = {F(c, q, h) : q \in CallbackParams(m, v)}  BY DEF Callbacks
<1>2. PICK q \in CallbackParams(m, v) : d = F(of, q, how)  BY <1>1
<1> DEFINE params == <<Context>> \o q
<1>3. F(base, q, how2) \in Callbacks(base, m, v, how2)  BY <1>1
<1> HIDE DEF ret, params
<1>4. ASSUME NEW c, NEW h
      PROVE  LET e == Decl(c, v.Method, params, ret, h) IN
             e.of = c /\ e.name = v.Method /\ e.params = params /\ e.ret = ret /\ e.how = h
  BY DeclFields
<1> DEFINE b == Decl(base, v.Method, params, ret, how2)
           e == Decl(of, v.Method, params, ret, how)
<1>5. d = e /\ b \in Callbacks(base, m, v, how2)  BY Zenon, <1>2, <1>3 DEF params
<1>6. b.of = base /\ b.name = v.Method /\ b.params = params /\ b.ret = ret /\ b.how = how2  BY <1>4
<1>7. e.of = of /\ e.name = v.Method /\ e.params = params /\ e.ret = ret /\ e.how = how  BY <1>4
<1> HIDE DEF b, e
<1> QED  BY <1>5, <1>6, <1>7 DEF SameFunction

\* MOCK_METHODn counts the parameters.
LEMMA Counts ==
  ASSUME NEW m, Kind(m), NEW v, NEW p \in AsyncPrefixes
  PROVE  SyncCount(m) = Len(SyncParams(m, v)) /\ AsyncCount(m, p) = Len(AsyncParams(m, v, p))
<1>1. SyncCount(m) = Len(SyncParams(m, v))
  BY DEF SyncCount, SyncParams, Kind, NoStreaming, ClientOnlyStreaming, ServerOnlyStreaming,
    BidiStreaming
<1>2. p.extra = Len(p.params) /\ p.params \in Seq({Tag})  BY Prefixes
<1>3. ASSUME NEW a, NEW b, NEW c
      PROVE  /\ Len(<<a, b, c>>) = 3 /\ Len(<<a, b, c>> \o p.params) = 3 + p.extra
             /\ Len(<<a, b>> \o p.params) = 2 + p.extra
  BY <1>2
<1>4. Len(AsyncParams(m, v, p)) = IF NoStreaming(m) THEN 3
                                  ELSE IF ClientOnlyStreaming(m) \/ ServerOnlyStreaming(m) THEN 3 + p.extra
                                  ELSE 2 + p.extra
  BY <1>3 DEF AsyncParams
<1> QED  BY <1>1, <1>4 DEF AsyncCount, Kind, NoStreaming, ClientOnlyStreaming, ServerOnlyStreaming,
BidiStreaming

\* A mocked function, field by field.
LEMMA MockFields ==
  ASSUME NEW n, NEW name, NEW ret, NEW params
  PROVE  LET d == MockMethod(n, name, ret, params) IN
         /\ d.of = MockStub /\ d.name = name /\ d.params = params /\ d.ret = ret /\ d.how = "mock" /\ d.slot = n
<1> DEFINE c == Decl(MockStub, name, params, ret, "mock")
<1>1. DOMAIN c = Fields /\ c.of = MockStub /\ c.name = name /\ c.params = params /\ c.ret = ret /\ c.how = "mock"
  BY DeclFields
<1> HIDE DEF c
<1> QED  BY <1>1, OnSlotFields DEF MockMethod, c

\* The mock and the interface it stands in for.
LEMMA MockPairs ==
  ASSUME NEW m, Kind(m), NEW v, NEW cq \in BOOLEAN
  PROVE  LET I == PublicForm(StubInterface, m, v, cq, Iface(SyncRet(m, v)), Iface(AsyncRet(m, v)), "pure")
             P == PrivateForm(StubInterface, m, v, cq, Iface(SyncRet(m, v)), Iface(AsyncRet(m, v)), "pure")
         IN /\ \A d \in MockForm(m, v, cq) :
                 /\ d.slot = Len(d.params)
                 /\ \E b \in I \cup P : SameFunction(d, b) /\ b.of = StubInterface /\ b.how = "pure" /\ d.ret = b.ret
            /\ \A b \in I \cup P : b.how = "pure" =>
                 \E d \in MockForm(m, v, cq) : SameFunction(d, b) /\ d.of = MockStub /\ d.how = "mock"
<1> DEFINE S == Iface(SyncRet(m, v))
           A == Iface(AsyncRet(m, v))
           I == PublicForm(StubInterface, m, v, cq, S, A, "pure")
           P == PrivateForm(StubInterface, m, v, cq, S, A, "pure")
           status == <<"Status">>
           raw == v.Method \o Raw
           Named(p) == p.prefix \o v.Method \o Raw
           Mock(n, name, ret, params) == MockMethod(n, name, ret, params)
           sync == IF NoStreaming(m) THEN Mock(SyncCount(m), v.Method, status, SyncParams(m, v))
                   ELSE Mock(SyncCount(m), raw, S, SyncParams(m, v))
           Async(p) == Mock(AsyncCount(m, p), Named(p), A, AsyncParams(m, v, p))
           pure == IF NoStreaming(m) THEN Decl(StubInterface, v.Method, SyncParams(m, v), status, "pure")
                   ELSE Decl(StubInterface, raw, SyncParams(m, v), S, "pure")
           Pure(p) == Decl(StubInterface, Named(p), AsyncParams(m, v, p), A, "pure")
<1>1. MockForm(m, v, cq) = {sync} \cup When(cq, {Async(p) : p \in AsyncPrefixes})
  BY DEF MockForm
<1>2. pure \in I \cup P  BY DEF PublicForm, PrivateForm, Plain, SyncRaw
<1>3. ASSUME NEW p \in AsyncPrefixes, cq  PROVE Pure(p) \in P
  BY <1>3 DEF PrivateForm, AsyncRaw, When
<1>4. ASSUME NEW b \in I \cup P, b.how = "pure"
      PROVE  b = pure \/ \E p \in AsyncPrefixes : cq /\ b = Pure(p)
  <2>1. CASE b \in I
    <3>1. \/ NoStreaming(m) /\ b = Plain(StubInterface, m, v, "pure")
          \/ b = SyncWrapper(StubInterface, m, v, S) \/ \E p : b = AsyncWrapper(StubInterface, m, v, p, A)
      BY Zenon, <2>1 DEF PublicForm, When
    <3>2. NoStreaming(m) /\ b = Plain(StubInterface, m, v, "pure")  BY <1>4, <3>1, WrappersInline
    <3> QED  BY <3>2 DEF Plain
  <2>2. CASE b \in P
    <3>1. \/ ~NoStreaming(m) /\ b = SyncRaw(StubInterface, m, v, S, "pure")
          \/ cq /\ \E p \in AsyncPrefixes : b = AsyncRaw(StubInterface, m, v, p, A, "pure")
      BY Zenon, <2>2 DEF PrivateForm, When
    <3> QED  BY <3>1 DEF SyncRaw, AsyncRaw
  <2> QED  BY <1>4, <2>1, <2>2
<1> HIDE DEF S, A, I, P, status, raw, Named
<1>5. /\ sync.of = MockStub /\ sync.how = "mock" /\ sync.slot = Len(sync.params) /\ sync.ret = pure.ret
      /\ SameFunction(sync, pure) /\ pure.of = StubInterface /\ pure.how = "pure"
  <2> DEFINE n == SyncCount(m)
             params == SyncParams(m, v)
  <2>0. n = Len(params)  BY Counts, Prefixes
  <2> HIDE DEF n, params
  <2>1. ASSUME NEW name, NEW ret
        PROVE  LET d == MockMethod(n, name, ret, params)
                   b == Decl(StubInterface, name, params, ret, "pure")
               IN /\ d.of = MockStub /\ d.how = "mock" /\ d.slot = Len(d.params) /\ d.ret = b.ret
                  /\ SameFunction(d, b) /\ b.of = StubInterface /\ b.how = "pure"
    <3> DEFINE d == MockMethod(n, name, ret, params)
               b == Decl(StubInterface, name, params, ret, "pure")
    <3>1. d.of = MockStub /\ d.name = name /\ d.params = params /\ d.ret = ret /\ d.how = "mock" /\ d.slot = n
      BY MockFields
    <3>2. b.of = StubInterface /\ b.name = name /\ b.params = params /\ b.ret = ret /\ b.how = "pure"
      BY DeclFields
    <3> HIDE DEF d, b
    <3>3. /\ d.of = MockStub /\ d.how = "mock" /\ d.slot = Len(d.params) /\ d.ret = b.ret
          /\ SameFunction(d, b) /\ b.of = StubInterface /\ b.how = "pure"
      BY <2>0, <3>1, <3>2 DEF SameFunction
    <3> QED  BY <3>3 DEF d, b
  <2> QED  BY Zenon, <2>1 DEF n, params
<1>6. ASSUME NEW p \in AsyncPrefixes
      PROVE  /\ Async(p).of = MockStub /\ Async(p).how = "mock" /\ Async(p).slot = Len(Async(p).params)
             /\ Async(p).ret = Pure(p).ret /\ SameFunction(Async(p), Pure(p)) /\ Pure(p).of = StubInterface
             /\ Pure(p).how = "pure"
  <2> DEFINE n == AsyncCount(m, p)
             params == AsyncParams(m, v, p)
             name == Named(p)
             d == MockMethod(n, name, A, params)
             b == Decl(StubInterface, name, params, A, "pure")
  <2>0. n = Len(params)  BY Counts
  <2> HIDE DEF n, params, name
  <2>1. d.of = MockStub /\ d.name = name /\ d.params = params /\ d.ret = A /\ d.how = "mock" /\ d.slot = n
    BY MockFields
  <2>2. b.of = StubInterface /\ b.name = name /\ b.params = params /\ b.ret = A /\ b.how = "pure"
    BY DeclFields
  <2> HIDE DEF d, b
  <2>3. /\ d.of = MockStub /\ d.how = "mock" /\ d.slot = Len(d.params)
        /\ d.ret = b.ret /\ SameFunction(d, b) /\ b.of = StubInterface /\ b.how = "pure"
    BY <2>0, <2>1, <2>2 DEF SameFunction
  <2> QED  BY Zenon, <2>3 DEF d, b, name, params, n
<1> HIDE DEF sync, pure, Async, Pure
<1>7. ASSUME NEW d \in MockForm(m, v, cq)
      PROVE  /\ d.slot = Len(d.params)
             /\ \E b \in I \cup P : SameFunction(d, b) /\ b.of = StubInterface /\ b.how = "pure" /\ d.ret = b.ret
  <2>1. CASE d = sync  BY <1>2, <1>5, <2>1
  <2>2. ASSUME cq, NEW p \in AsyncPrefixes, d = Async(p)
        PROVE  /\ d.slot = Len(d.params)
               /\ \E b \in I \cup P : SameFunction(d, b) /\ b.of = StubInterface /\ b.how = "pure" /\ d.ret = b.ret
    BY <1>3, <1>6, <2>2
  <2> QED  BY Zenon, <1>1, <2>1, <2>2 DEF When
<1>8. ASSUME NEW b \in I \cup P, b.how = "pure"
      PROVE  \E d \in MockForm(m, v, cq) : SameFunction(d, b) /\ d.of = MockStub /\ d.how = "mock"
  <2>1. CASE b = pure  BY <1>1, <1>5, <2>1
  <2>2. ASSUME cq, NEW p \in AsyncPrefixes, b = Pure(p)
        PROVE  \E d \in MockForm(m, v, cq) : SameFunction(d, b) /\ d.of = MockStub /\ d.how = "mock"
    <3>1. Async(p) \in MockForm(m, v, cq)  BY <1>1, <2>2 DEF When
    <3> QED  BY <1>6, <2>2, <3>1
  <2> QED  BY <1>4, <1>8, <2>1, <2>2
<1> QED  BY Zenon, <1>7, <1>8 DEF I, P, S, A

\* What b promises, d keeps.
Overriding(d, b) ==
  /\ SameFunction(d, b) /\ b.of = BaseOf(d.of) /\ b.how \in {"pure", "virtual", "default"}
  /\ IF d.how = "mock" THEN d.ret = b.ret /\ d.slot = Len(d.params) ELSE Covariant(d.ret, b.ret)

\* The bases of the client's classes.
LEMMA ClientBases ==
  /\ BaseOf(Stub) = StubInterface /\ BaseOf(MockStub) = StubInterface /\ BaseOf(StubAsync) = AsyncInterface
  /\ StubInterface # AsyncInterface
BY DEF BaseOf, Stub, MockStub, StubAsync, StubInterface, AsyncInterface

\* A type fits itself, and its interface.
LEMMA Fitting ==
  ASSUME NEW ret
  PROVE  Covariant(ret, ret) /\ Covariant(ret, Iface(ret))
BY DEF Covariant, Iface

\* What the client's loops print, by its form.
LEMMA ClientForms ==
  ASSUME IInv, NEW s \in DOMAIN file.services, NEW k \in DOMAIN Methods(s)
  PROVE  LET m == Methods(s)[k]
             v == Fresh(s, k)
             S == SyncRet(m, v)
             A == AsyncRet(m, v)
         IN /\ DueAt("Interfaces", s, k) = PublicForm(StubInterface, m, v, Cq, Iface(S), Iface(A), "pure")
            /\ DueAt("RawInterfaces", s, k) = PrivateForm(StubInterface, m, v, Cq, Iface(S), Iface(A), "pure")
            /\ DueAt("Methods", s, k) = PublicForm(Stub, m, v, Cq, S, A, "override")
            /\ DueAt("RawMethods", s, k) = PrivateForm(Stub, m, v, Cq, S, A, "override")
            /\ DueAt("CallbackInterfaces", s, k) = Callbacks(AsyncInterface, m, v, "pure")
            /\ DueAt("Callback", s, k) = Callbacks(StubAsync, m, v, "override")
            /\ DueAt("MockMethods", s, k) = MockForm(m, v, Cq)
            /\ DueAt("SourceClient", s, k) = SourceForm(m, v, Cq)
<1> DEFINE m == Methods(s)[k]
           v == Fresh(s, k)
<1>0. Kind(m) /\ Cq \in BOOLEAN  BY MethodKinds
<1>1. /\ DueAt("Interfaces", s, k) = PublicInterfaces(m, v, Cq)
      /\ DueAt("CallbackInterfaces", s, k) = CallbackInterfaces(m, v)
      /\ DueAt("RawInterfaces", s, k) = PrivateInterfaces(m, v, Cq)
      /\ DueAt("Methods", s, k) = PublicMethods(m, v, Cq)
      /\ DueAt("Callback", s, k) = CallbackMethods(m, v)
      /\ DueAt("RawMethods", s, k) = PrivateMethods(m, v, Cq)
      /\ DueAt("SourceClient", s, k) = SourceClientMethod(m, v, Cq)
      /\ DueAt("MockMethods", s, k) = MockMethods(m, v, Cq)
  BY Zenon, ClientDue
<1> HIDE DEF m, v
<1>2. /\ DueAt("Interfaces", s, k) = PublicForm(StubInterface, m, v, Cq, Iface(SyncRet(m, v)), Iface(AsyncRet(m, v)), "pure")
      /\ DueAt("RawInterfaces", s, k)
           = PrivateForm(StubInterface, m, v, Cq, Iface(SyncRet(m, v)), Iface(AsyncRet(m, v)), "pure")
  BY <1>0, <1>1, PublicInterfacesForm, PrivateInterfacesForm
<1>3. /\ DueAt("Methods", s, k) = PublicForm(Stub, m, v, Cq, SyncRet(m, v), AsyncRet(m, v), "override")
      /\ DueAt("RawMethods", s, k) = PrivateForm(Stub, m, v, Cq, SyncRet(m, v), AsyncRet(m, v), "override")
  BY <1>0, <1>1, PublicMethodsForm, PrivateMethodsForm
<1>4. /\ DueAt("CallbackInterfaces", s, k) = Callbacks(AsyncInterface, m, v, "pure")
      /\ DueAt("Callback", s, k) = Callbacks(StubAsync, m, v, "override")
      /\ DueAt("MockMethods", s, k) = MockForm(m, v, Cq)
      /\ DueAt("SourceClient", s, k) = SourceForm(m, v, Cq)
  BY <1>0, <1>1, CallbackInterfacesForm, CallbackMethodsForm, MockMethodsForm, SourceClientForm
<1> QED  BY Zenon, <1>2, <1>3, <1>4 DEF m, v

\* The client's loops that owe something are in what was written.
LEMMA ClientWritten ==
  ASSUME IInv, Generated
  PROVE  \A l \in {"Interfaces", "CallbackInterfaces", "RawInterfaces", "Methods", "Callback", "RawMethods", "Sync"} :
           "header" \in written /\ l \in LoopSet("header") /\ Allowed(l)
BY WrittenUnits, LoopSets, AllowedLoops

\* What the client overrides.
LEMMA ClientOverrides ==
  ASSUME IInv, TurnsOK, Generated, NEW s \in DOMAIN file.services, NEW k \in DOMAIN Methods(s),
         NEW l \in {"Interfaces", "CallbackInterfaces", "RawInterfaces", "Methods", "Callback", "RawMethods",
                    "Data", "Inits", "SourceClient", "MockMethods"},
         NEW e \in DueAt(l, s, k), e.how \in {"override", "mock"}
  PROVE  \E b \in decls : b.service = s /\ Overriding(e, b)
<1> DEFINE m == Methods(s)[k]
           v == Fresh(s, k)
           S == SyncRet(m, v)
           A == AsyncRet(m, v)
<1>0. Kind(m) /\ Cq \in BOOLEAN  BY MethodKinds
<1>1. l \in {"Methods", "Callback", "RawMethods", "MockMethods"}  BY ClientClasses
<1>2. /\ DueAt("Interfaces", s, k) = PublicForm(StubInterface, m, v, Cq, Iface(S), Iface(A), "pure")
      /\ DueAt("RawInterfaces", s, k) = PrivateForm(StubInterface, m, v, Cq, Iface(S), Iface(A), "pure")
      /\ DueAt("Methods", s, k) = PublicForm(Stub, m, v, Cq, S, A, "override")
      /\ DueAt("RawMethods", s, k) = PrivateForm(Stub, m, v, Cq, S, A, "override")
      /\ DueAt("CallbackInterfaces", s, k) = Callbacks(AsyncInterface, m, v, "pure")
      /\ DueAt("Callback", s, k) = Callbacks(StubAsync, m, v, "override")
      /\ DueAt("MockMethods", s, k) = MockForm(m, v, Cq)
  BY Zenon, ClientForms
<1> HIDE DEF m, v, S, A
<1>3. ASSUME NEW due \in {"Interfaces", "CallbackInterfaces", "RawInterfaces"}, NEW b \in DueAt(due, s, k), Overriding(e, b)
      PROVE  \E c \in decls : c.service = s /\ Overriding(e, c)
  <2>1. PICK c \in decls : SameDecl(c, b) /\ c.service = s  BY <1>3, ClientWritten, AllDue
  <2> QED  BY <1>3, <2>1 DEF SameDecl, Overriding, SameFunction
<1>4. CASE l = "Methods"
  <2>1. e \in PublicForm(Stub, m, v, Cq, S, A, "override") /\ e.how # "inline"  BY <1>2, <1>4
  <2>2. e.of = Stub /\ e.how = "override"  BY <2>1, PlainPairs
  <2>3. PICK b \in DueAt("Interfaces", s, k) : SameFunction(e, b) /\ b.of = StubInterface /\ b.how = "pure" /\ e.ret = b.ret
    BY <1>2, <2>1, PlainPairs
  <2>4. Overriding(e, b)  BY <2>2, <2>3, ClientBases, Fitting DEF Overriding
  <2> QED  BY <1>3, <2>4
<1>5. CASE l = "RawMethods"
  <2>1. e \in PrivateForm(Stub, m, v, Cq, S, A, "override")  BY <1>2, <1>5
  <2>2. e.of = Stub /\ e.how = "override"  BY <2>1, RawPairs
  <2>3. PICK b \in DueAt("RawInterfaces", s, k) :
          /\ SameFunction(e, b) /\ b.of = StubInterface /\ b.how = "pure"
          /\ \/ e.ret = S /\ b.ret = Iface(S)
             \/ e.ret = A /\ b.ret = Iface(A)
    BY <1>2, <2>1, RawPairs
  <2>4. Overriding(e, b)  BY <2>2, <2>3, ClientBases, Fitting DEF Overriding
  <2> QED  BY <1>3, <2>4
<1>6. CASE l = "Callback"
  <2>1. e \in Callbacks(StubAsync, m, v, "override")  BY <1>2, <1>6
  <2>2. e.of = StubAsync /\ e.how = "override"  BY <2>1, CallbackPairs
  <2>3. PICK b \in DueAt("CallbackInterfaces", s, k) :
          SameFunction(e, b) /\ b.of = AsyncInterface /\ b.how = "pure" /\ e.ret = b.ret
    BY <1>2, <2>1, CallbackPairs
  <2>4. Overriding(e, b)  BY <2>2, <2>3, ClientBases, Fitting DEF Overriding
  <2> QED  BY <1>3, <2>4
<1>7. CASE l = "MockMethods"
  <2>1. e \in MockForm(m, v, Cq)  BY <1>2, <1>7
  <2>2. e.of = MockStub /\ e.how = "mock"  BY <1>7, ClientClasses
  <2>3. /\ e.slot = Len(e.params)
        /\ \E b \in DueAt("Interfaces", s, k) \cup DueAt("RawInterfaces", s, k) :
             SameFunction(e, b) /\ b.of = StubInterface /\ b.how = "pure" /\ e.ret = b.ret
    BY <1>0, <1>2, <2>1, MockPairs DEF S, A
  <2>4. PICK b \in DueAt("Interfaces", s, k) \cup DueAt("RawInterfaces", s, k) : Overriding(e, b)
    BY <2>2, <2>3, ClientBases DEF Overriding
  <2> QED  BY <1>3, <2>4
<1> QED  BY <1>1, <1>4, <1>5, <1>6, <1>7

\* async() of the stub overrides the interface's.
LEMMA FirstOverrides ==
  ASSUME IInv, TurnsOK, Generated, NEW u \in Units, NEW s \in DOMAIN file.services,
    NEW e \in DueFirst(u, s),
         e.how \in {"override", "mock"}
  PROVE  \E b \in decls : b.service = s /\ Overriding(e, b)
<1> DEFINE name == <<"async">>
           face == <<"async", "Interface">>
           b == Decl(StubInterface, name, <<>>, face, "default")
<1>1. e.how = "override" /\ e.of = Stub /\ e.name = name /\ e.params = <<>> /\ e.ret = name
  BY FirstClasses
<1>2. b \in DueFirst("header", s)
  <2>1. DueFirst("header", s) = HeaderFixed([InitialVars EXCEPT !.Package = file.package, !.Service = ServiceName(s)])
    BY Zenon DEF DueFirst
  <2> QED  BY <2>1 DEF HeaderFixed
<1>3. Iface(name) = face
  <2>1. Head(name) = "async" /\ Tail(name) = <<>>  OBVIOUS
  <2>2. \A f \in Seq({"async", "Interface"}) : f \o <<>> = f  OBVIOUS
  <2>3. face \in Seq({"async", "Interface"})  OBVIOUS
  <2>4. face \o <<>> = face  BY <2>2, <2>3
  <2> QED  BY Zenon, <2>1, <2>4 DEF Iface
<1> HIDE DEF name, face
<1>4. b.of = StubInterface /\ b.name = name /\ b.params = <<>> /\ b.ret = face /\ b.how = "default"
  BY DeclFields
<1> HIDE DEF b
<1>5. Overriding(e, b)  BY <1>1, <1>3, <1>4, ClientBases, Fitting DEF Overriding, SameFunction
<1>6. PICK c \in decls : SameDecl(c, b) /\ c.service = s  BY <1>2, WrittenUnits, AllFirst
<1> QED  BY <1>5, <1>6 DEF SameDecl, Overriding, SameFunction

\* A mixin that disables the synchronous version of a method overrides Service's.
LEMMA MixinOverrides ==
  ASSUME IInv, TurnsOK, Generated, NEW s \in DOMAIN file.services, NEW k \in DOMAIN Methods(s),
         NEW l \in MixinLoops, Allowed(l), NEW e \in DueAt(l, s, k), e.how \in {"override", "mock"}
  PROVE  \E b \in decls : b.service = s /\ Overriding(e, b)
<1> DEFINE m == Methods(s)[k]
           v == Fresh(s, k)
           ret == <<"Status">>
<1>1. /\ e.of = <<MixinOf(l)>> \o m.name /\ e.how = "override"
      /\ Sync \/ l \in {"StreamedUnary", "SplitStreaming"}
      /\ e.name = v.Method /\ e.params = ServerParams(m, v) /\ e.ret = ret
  BY MixinDue DEF Mixed
<1>2. Sync  BY <1>1, AllowedLoops
<1>3. m.name \in Seq(STRING)  BY MethodKinds
<1>4. BaseOf(e.of) = Service
  <2>1. e.of \notin {Stub, StubInterface, StubAsync, AsyncInterface, MockStub, Service, <<>>}
    BY <1>1, <1>3, MixinNames
  <2> QED  BY <2>1 DEF BaseOf
<1>5. PICK b \in DueAt("Sync", s, k) :
        b.of = Service /\ b.name = v.Method /\ b.params = ServerParams(m, v) /\ b.ret = ret /\ b.how = "virtual"
  BY <1>2, ServiceClasses
<1> HIDE DEF m, v, ret
<1>6. Overriding(e, b)  BY <1>1, <1>4, <1>5, Fitting DEF Overriding, SameFunction
<1>7. PICK c \in decls : SameDecl(c, b) /\ c.service = s  BY <1>5, ClientWritten, AllDue
<1> QED  BY <1>6, <1>7 DEF SameDecl, Overriding, SameFunction

\* Whatever is marked override or mocked has something to override.
LEMMA AllOverride ==
  ASSUME IInv, TurnsOK, Generated, NEW d \in decls, d.how \in {"override", "mock"}
  PROVE  \E b \in decls : b.service = d.service /\ Overriding(d, b)
<1> DEFINE s == d.service
           k == d.method
<1>1. d.unit \in Units /\ s \in DOMAIN file.services  BY Origin
<1>2. ASSUME NEW e, SameDecl(d, e), e.how \in {"override", "mock"} => \E b \in decls : b.service = s /\ Overriding(e, b)
      PROVE  \E b \in decls : b.service = s /\ Overriding(d, b)
  BY <1>2 DEF SameDecl, Overriding, SameFunction
<1>3. ASSUME NEW e \in DueFirst(d.unit, s), SameDecl(d, e)
      PROVE  \E b \in decls : b.service = s /\ Overriding(d, b)
  BY <1>1, <1>2, <1>3, FirstOverrides
<1>4. ASSUME k \in DOMAIN Methods(s), NEW l \in AllLoops, Allowed(l), NEW e \in DueAt(l, s, k), SameDecl(d, e)
      PROVE  \E b \in decls : b.service = s /\ Overriding(d, b)
  <2> HIDE DEF s, k
  <2>1. CASE l \in {"Interfaces", "CallbackInterfaces", "RawInterfaces", "Methods", "Callback", "RawMethods",
                    "Data", "Inits", "SourceClient", "MockMethods"}
    BY <1>1, <1>2, <1>4, <2>1, ClientOverrides
  <2>2. CASE l \in {"Sync", "SourceServer"}
    <3>1. e.how \notin {"override", "mock"}  BY <1>1, <1>4, <2>2, ServiceClasses
    <3> QED  BY <1>2, <1>4, <3>1
  <2>3. CASE l \in MixinLoops  BY <1>1, <1>2, <1>4, <2>3, MixinOverrides
  <2>4. l \notin SilentLoops  BY <1>4, NothingDue
  <2> QED  BY <2>1, <2>2, <2>3, <2>4, LoopCases
<1> QED  BY <1>3, <1>4, Origin

\* The stub, its async and a mock implement what their interfaces leave open.
LEMMA AllImplemented ==
  ASSUME IInv, TurnsOK, Generated, NEW b \in decls, b.how = "pure",
    b.of \in {StubInterface, AsyncInterface},
         NEW of \in {Stub, StubAsync} \cup (IF "mock" \in written THEN {MockStub} ELSE {}),
           BaseOf(of) = b.of
  PROVE  \E d \in decls : d.of = of /\ d.service = b.service /\ SameFunction(d, b) /\ d.how \in {"override", "mock"}
<1> DEFINE s == b.service
           k == b.method
           m == Methods(s)[k]
           v == Fresh(s, k)
           S == SyncRet(m, v)
           A == AsyncRet(m, v)
<1>1. b.unit \in Units /\ s \in DOMAIN file.services  BY Origin
<1>2. ~ \E e \in DueFirst(b.unit, s) : SameDecl(b, e)  BY <1>1, FirstClasses DEF SameDecl
<1>3. k \in DOMAIN Methods(s)  BY <1>2, Origin
<1>4. PICK l \in AllLoops : \E e \in DueAt(l, s, k) : SameDecl(b, e)  BY <1>2, Origin
<1>5. PICK e \in DueAt(l, s, k) : SameDecl(b, e)  BY <1>4
<1>6. Kind(m) /\ Cq \in BOOLEAN  BY <1>1, <1>3, MethodKinds
<1>7. /\ DueAt("Interfaces", s, k) = PublicForm(StubInterface, m, v, Cq, Iface(S), Iface(A), "pure")
      /\ DueAt("RawInterfaces", s, k) = PrivateForm(StubInterface, m, v, Cq, Iface(S), Iface(A), "pure")
      /\ DueAt("Methods", s, k) = PublicForm(Stub, m, v, Cq, S, A, "override")
      /\ DueAt("RawMethods", s, k) = PrivateForm(Stub, m, v, Cq, S, A, "override")
      /\ DueAt("CallbackInterfaces", s, k) = Callbacks(AsyncInterface, m, v, "pure")
      /\ DueAt("Callback", s, k) = Callbacks(StubAsync, m, v, "override")
      /\ DueAt("MockMethods", s, k) = MockForm(m, v, Cq)
  BY Zenon, <1>1, <1>3, ClientForms
<1> HIDE DEF s, k, m, v, S, A
<1>8. e.how = "pure" /\ e.of = b.of  BY <1>5 DEF SameDecl
<1>9. l \in {"Interfaces", "CallbackInterfaces", "RawInterfaces"}
  <2>1. l \notin {"Methods", "Callback", "RawMethods", "Data", "Inits", "SourceClient", "MockMethods"}
    BY <1>1, <1>3, <1>5, <1>8, ClientClasses
  <2>2. l \notin {"Sync", "SourceServer"}  BY <1>1, <1>3, <1>5, <1>8, ServiceClasses
  <2>3. l \notin MixinLoops
    <3>1. SUFFICES ASSUME l \in MixinLoops  PROVE FALSE  OBVIOUS
    <3>2. e.of = <<MixinOf(l)>> \o Methods(s)[k].name  BY <1>1, <1>3, <1>5, <3>1, MixinDue DEF Mixed
    <3>3. Methods(s)[k].name \in Seq(STRING)  BY <1>1, <1>3, MethodKinds
    <3> QED  BY <1>8, <3>1, <3>2, <3>3, MixinNames
  <2>4. l \notin SilentLoops  BY <1>5, NothingDue
  <2> QED  BY <2>1, <2>2, <2>3, <2>4, LoopCases
<1>10. ASSUME NEW u \in written, NEW due \in LoopSet(u), Allowed(due), NEW d \in DueAt(due, s, k),
              d.of = of, SameFunction(d, e), d.how \in {"override", "mock"}
       PROVE  \E c \in decls : c.of = of /\ c.service = s /\ SameFunction(c, b) /\ c.how \in {"override", "mock"}
  <2>1. PICK c \in decls : SameDecl(c, d) /\ c.service = s  BY <1>1, <1>3, <1>10, AllDue
  <2> QED  BY <1>5, <1>10, <2>1 DEF SameDecl, SameFunction
<1>11. \A due \in {"Methods", "Callback", "RawMethods"} :
         "header" \in written /\ due \in LoopSet("header") /\ Allowed(due)
  BY ClientWritten
<1>12. CASE of = Stub
  <2>1. l \in {"Interfaces", "RawInterfaces"}
    BY <1>1, <1>3, <1>5, <1>8, <1>9, <1>12, ClientBases, ClientClasses
  <2>2. CASE l = "Interfaces"
    <3>1. e \in PublicForm(StubInterface, m, v, Cq, Iface(S), Iface(A), "pure") /\ e.how # "inline"
      BY <1>5, <1>7, <1>8, <2>2
    <3>2. PICK d \in DueAt("Methods", s, k) : SameFunction(e, d) /\ d.of = Stub /\ d.how = "override"
      BY <1>7, <3>1, PlainPairs
    <3> QED  BY <1>10, <1>11, <1>12, <3>2 DEF SameFunction, s
  <2>3. CASE l = "RawInterfaces"
    <3>1. e \in PrivateForm(StubInterface, m, v, Cq, Iface(S), Iface(A), "pure")
      BY <1>5, <1>7, <2>3
    <3>2. PICK d \in DueAt("RawMethods", s, k) : SameFunction(e, d) /\ d.of = Stub /\ d.how = "override"
      BY <1>7, <3>1, RawPairs
    <3> QED  BY <1>10, <1>11, <1>12, <3>2 DEF SameFunction, s
  <2> QED  BY <2>1, <2>2, <2>3
<1>13. CASE of = StubAsync
  <2>1. l = "CallbackInterfaces"
    BY <1>1, <1>3, <1>5, <1>8, <1>9, <1>13, ClientBases, ClientClasses
  <2>2. e \in Callbacks(AsyncInterface, m, v, "pure")  BY <1>5, <1>7, <2>1
  <2>3. PICK d \in DueAt("Callback", s, k) : SameFunction(e, d) /\ d.of = StubAsync /\ d.how = "override"
    BY <1>7, <2>2, CallbackPairs
  <2> QED  BY <1>10, <1>11, <1>13, <2>3 DEF SameFunction, s
<1>14. CASE of = MockStub /\ "mock" \in written
  <2>1. l \in {"Interfaces", "RawInterfaces"}
    BY <1>1, <1>3, <1>5, <1>8, <1>9, <1>14, ClientBases, ClientClasses
  <2>2. PICK d \in DueAt("MockMethods", s, k) : SameFunction(d, e) /\ d.of = MockStub /\ d.how = "mock"
    BY <1>5, <1>6, <1>7, <1>8, <2>1, MockPairs DEF S, A
  <2>3. "MockMethods" \in LoopSet("mock") /\ Allowed("MockMethods")  BY LoopSets, AllowedLoops
  <2> QED  BY <1>10, <1>14, <2>2, <2>3 DEF s
<1> QED  BY <1>12, <1>13, <1>14

\* For any .proto and any options: what is marked override, or mocked, has a virtual function
\* of its base to override, with its parameters and a type that fits; MOCK_METHODn counts the
\* parameters; and the stub, its async and the mock implement all their interfaces leave open.
THEOREM OverridesTheorem == Spec => []OverridesMatch
<1>1. ASSUME IInv, TurnsOK  PROVE OverridesMatch
  <2>1. ASSUME Generated, NEW d \in decls, d.how \in {"override", "mock"}
        PROVE  \E b \in decls :
                 /\ Alike(d, b) /\ b.of = BaseOf(d.of) /\ b.how \in {"pure", "virtual", "default"}
                 /\ IF d.how = "mock" THEN d.ret = b.ret /\ d.slot = Len(d.params)
                                      ELSE Covariant(d.ret, b.ret)
    BY <1>1, <2>1, AllOverride DEF Overriding, SameFunction, Alike
  <2>2. ASSUME Generated, NEW b \in decls, b.how = "pure", b.of \in {StubInterface, AsyncInterface},
               NEW of \in {Stub, StubAsync} \cup (IF "mock" \in written THEN {MockStub} ELSE {}),
                 BaseOf(of) = b.of
        PROVE  \E d \in decls : d.of = of /\ Alike(d, b) /\ d.how \in {"override", "mock"}
    BY <1>1, <2>2, AllImplemented DEF SameFunction, Alike
  <2> QED  BY <2>1, <2>2 DEF OverridesMatch
<1> QED  BY <1>1, Invariance, TurnsTheorem, PTL

\* What a concatenation begins with, and its length.
LEMMA Joined ==
  ASSUME NEW S, NEW f \in Seq(S), NEW g \in Seq(S)
  PROVE  f \o g \in Seq(S) /\ Len(f \o g) = Len(f) + Len(g) /\ (Len(f) > 0 => (f \o g)[1] = f[1])
<1>1. f \o g \in Seq(S) /\ Len(f \o g) = Len(f) + Len(g)  OBVIOUS
<1>2. Len(f) > 0 => (f \o g)[1] = f[1]  OBVIOUS
<1> QED  BY <1>1, <1>2

\* The first word of a name that a template begins, and its length.
LEMMA Begun ==
  ASSUME NEW w, NEW n \in Seq(STRING)
  PROVE  /\ (<<w>> \o n \o Raw)[1] = w /\ Len(<<w>> \o n \o Raw) = Len(n) + 2
         /\ (<<w>> \o n)[1] = w /\ Len(<<w>> \o n) = Len(n) + 1 /\ Len(n \o Raw) = Len(n) + 1
<1> DEFINE S == STRING \cup {w, "Raw"}
           p == <<w>>
           q == <<"Raw">>
           a == p \o n
           b == a \o q
           c == n \o q
<1>1. p \in Seq(S) /\ Len(p) = 1 /\ p[1] = w /\ q \in Seq(S) /\ Len(q) = 1 /\ n \in Seq(S)  OBVIOUS
<1> HIDE DEF p, q, S
<1>2. a \in Seq(S) /\ Len(a) = Len(p) + Len(n) /\ (Len(p) > 0 => a[1] = p[1])  BY <1>1, Joined
<1> HIDE DEF a
<1>3. /\ b \in Seq(S) /\ Len(b) = Len(a) + Len(q) /\ (Len(a) > 0 => b[1] = a[1])
      /\ c \in Seq(S) /\ Len(c) = Len(n) + Len(q)
  <2>1. b \in Seq(S) /\ Len(b) = Len(a) + Len(q) /\ (Len(a) > 0 => b[1] = a[1])
    BY <1>1, <1>2, Joined
  <2>2. c \in Seq(S) /\ Len(c) = Len(n) + Len(q)  BY <1>1, Joined
  <2> QED  BY <2>1, <2>2
<1> HIDE DEF b, c
<1>4. Len(n) \in Nat  BY <1>1
<1>5. /\ Len(a) = Len(n) + 1 /\ a[1] = w /\ Len(b) = Len(n) + 2 /\ b[1] = w /\ Len(c) = Len(n) + 1
  BY <1>1, <1>2, <1>3, <1>4
<1> QED  BY Zenon, <1>5 DEF Raw, p, q, a, b, c

\* How a call begins tells its name from the others of its class.
LEMMA BegunApart ==
  ASSUME NEW n \in Seq(STRING), NEW o \in Seq(STRING)
  PROVE  /\ <<"Async">> \o n \o Raw # n /\ <<"Async">> \o n \o Raw # n \o Raw
         /\ <<"PrepareAsync">> \o n \o Raw # n /\ <<"PrepareAsync">> \o n \o Raw # n \o Raw
         /\ <<"Async">> \o n \o Raw # <<"PrepareAsync">> \o o \o Raw
         /\ <<"Async">> \o n \o Raw # <<"rpcmethod_">> \o o
<1> DEFINE a == <<"Async">> \o n \o Raw
           p == <<"PrepareAsync">> \o n \o Raw
           q == <<"PrepareAsync">> \o o \o Raw
           r == <<"rpcmethod_">> \o o
           x == n \o Raw
<1>1. a[1] = "Async" /\ Len(a) = Len(n) + 2  BY Begun
<1>2. p[1] = "PrepareAsync" /\ Len(p) = Len(n) + 2  BY Begun
<1>3. q[1] = "PrepareAsync" /\ r[1] = "rpcmethod_" /\ Len(x) = Len(n) + 1  BY Begun
<1>4. Len(n) \in Nat  OBVIOUS
<1> HIDE DEF a, p, q, r, x
<1>5. a # n /\ a # x /\ p # n /\ p # x /\ a # q /\ a # r  BY <1>1, <1>2, <1>3, <1>4
<1> QED  BY Zenon, <1>5 DEF a, p, q, r, x

\* What is defined for a method of the stub, function by function.
SyncShape(d, m, v) ==
  /\ d.of = Stub /\ d.name = (IF NoStreaming(m) THEN v.Method ELSE v.Method \o Raw)
  /\ d.params = SyncParams(m, v) /\ d.ret = SyncRet(m, v) /\ d.call = RpcMethod(v) /\ ~d.start

\* The definition of a callback function, as read from the source.
CallbackShape(d, m, v) ==
  /\ d.of = StubAsync /\ d.name = v.Method /\ \E c \in CallbackBodies(m, v) : d.params = <<Context>> \o c.params
  /\ d.ret = <<"void">> /\ d.call = RpcMethod(v) /\ ~d.start

\* The definition of an asynchronous function, as read from the source.
AsyncShape(d, m, v, p) ==
  /\ d.of = Stub /\ d.name = p.prefix \o v.Method \o Raw
  /\ d.params = AsyncParams(m, v, p) /\ d.ret = AsyncRet(m, v) /\ d.call = AsyncCall(m, v, p)
  /\ d.with = AsyncArgs(m, p) /\ d.start = p.start

\* A definition as Defined makes it.
LEMMA DefinedFields ==
  ASSUME NEW of, NEW name, NEW params, NEW ret, NEW call, NEW with
  PROVE  LET d == Defined(of, name, params, ret, call, with) IN
         /\ DOMAIN d = Fields /\ d.of = of /\ d.name = name /\ d.params = params /\ d.ret = ret /\ d.how = "defined"
         /\ d.call = call /\ d.with = with /\ d.lambda = <<>> /\ ~d.start /\ d.slot = NoSlot
BY DeclFields, BodyFields DEF Defined

\* The definition of a call that waits.
LEMMA SyncDefinedShape ==
  ASSUME NEW m, NEW v
  PROVE  SyncShape(SyncDefined(m, v), m, v) /\ SyncDefined(m, v).how = "defined"
<1> DEFINE name == IF NoStreaming(m) THEN v.Method ELSE v.Method \o Raw
           params == SyncParams(m, v)
           ret == SyncRet(m, v)
           call == RpcMethod(v)
           with == SyncWith(m)
           d == SyncDefined(m, v)
<1>1. d = Defined(Stub, name, params, ret, call, with)  BY Zenon DEF SyncDefined
<1> HIDE DEF name, params, ret, call, with, d
<1>2. /\ d.of = Stub /\ d.name = name /\ d.params = params /\ d.ret = ret /\ d.how = "defined"
      /\ d.call = call /\ ~d.start
  BY <1>1, DefinedFields
<1> QED  BY Zenon, <1>2 DEF SyncShape, name, params, ret, call, d

\* Of a callback.
LEMMA CallbackDefinedShape ==
  ASSUME NEW m, NEW v, NEW c \in CallbackBodies(m, v)
  PROVE  CallbackShape(CallbackDefined(v, c), m, v) /\ CallbackDefined(v, c).how = "defined"
<1> DEFINE params == <<Context>> \o c.params
           ret == <<"void">>
           call == RpcMethod(v)
           with == c.with
           d == CallbackDefined(v, c)
<1>1. d = Defined(StubAsync, v.Method, params, ret, call, with)  BY Zenon DEF CallbackDefined
<1> HIDE DEF params, ret, call, with, d
<1>2. /\ d.of = StubAsync /\ d.name = v.Method /\ d.params = params /\ d.ret = ret /\ d.how = "defined"
      /\ d.call = call /\ ~d.start
  BY <1>1, DefinedFields
<1> QED  BY Zenon, <1>2 DEF CallbackShape, params, ret, call, d

\* And of a call on a completion queue.
LEMMA AsyncDefinedShape ==
  ASSUME NEW m, NEW v, NEW p \in AsyncPrefixes
  PROVE  AsyncShape(AsyncDefined(m, v, p), m, v, p) /\ AsyncDefined(m, v, p).how = "defined"
<1> DEFINE name == p.prefix \o v.Method \o Raw
           params == AsyncParams(m, v, p)
           ret == AsyncRet(m, v)
           call == AsyncCall(m, v, p)
           with == AsyncArgs(m, p)
           d == AsyncDefined(m, v, p)
<1>1. d = Starting(Defined(Stub, name, params, ret, call, with), p.start)  BY Zenon DEF AsyncDefined
<1> HIDE DEF name, params, ret, call, with, d
<1>2. /\ d.of = Stub /\ d.name = name /\ d.params = params /\ d.ret = ret /\ d.how = "defined"
      /\ d.call = call /\ d.with = with /\ d.start = p.start
  BY <1>1, DefinedFields, StartingFields
<1> QED  BY Zenon, <1>2 DEF AsyncShape, name, params, ret, call, with, d

\* All that is defined for a method.
LEMMA SourceShapes ==
  ASSUME NEW m, NEW v, NEW cq \in BOOLEAN, NEW d \in SourceForm(m, v, cq)
  PROVE  /\ d.how = "defined"
         /\ SyncShape(d, m, v) \/ CallbackShape(d, m, v) \/ \E p \in AsyncPrefixes : cq /\ AsyncShape(d, m, v, p)
<1>1. \/ d = SyncDefined(m, v) \/ \E c \in CallbackBodies(m, v) : d = CallbackDefined(v, c)
      \/ cq /\ \E p \in AsyncPrefixes : d = AsyncDefined(m, v, p)
  BY Zenon DEF SourceForm, When
<1> QED  BY <1>1, SyncDefinedShape, CallbackDefinedShape, AsyncDefinedShape

\* What is put last is there.
LEMMA PutLast ==
  ASSUME NEW S, NEW f \in Seq(S), NEW t
  PROVE  \E n \in DOMAIN (f \o <<t>>) : (f \o <<t>>)[n] = t
<1> DEFINE g == f \o <<t>>
<1>1. DOMAIN g = 1 .. Len(f) + 1 /\ g[Len(f) + 1] = t  OBVIOUS
<1>2. Len(f) + 1 \in 1 .. Len(f) + 1  OBVIOUS
<1> HIDE DEF g
<1>3. \E n \in DOMAIN g : g[n] = t  BY <1>1, <1>2
<1> QED  BY Zenon, <1>3 DEF g

\* Names of parameters, and of what is passed on, are none of the others.
LEMMA NoTag ==
  ASSUME NEW m, NEW v
  PROVE  /\ \A n \in DOMAIN <<Context, RequestRef(v), Queue>> : <<Context, RequestRef(v), Queue>>[n] # Tag
         /\ \A n \in DOMAIN <<Context, ResponsePtr(v), Queue>> : <<Context, ResponsePtr(v), Queue>>[n] # Tag
         /\ \A n \in DOMAIN <<Context, Queue>> : <<Context, Queue>>[n] # Tag
         /\ \A n \in DOMAIN <<"context", "request", "cq">> : <<"context", "request", "cq">>[n] # "tag"
<1> DEFINE a == Context
           b == RequestRef(v)
           c == ResponsePtr(v)
           q == Queue
           t == Tag
<1>1. a[1] = "context" /\ b[1] = "request" /\ c[1] = "response" /\ q[1] = "cq" /\ t[1] = "tag"
  BY NamedParams
<1> HIDE DEF a, b, c, q, t
<1>2. a # t /\ b # t /\ c # t /\ q # t  BY <1>1
<1>3. /\ \A n \in DOMAIN <<a, b, q>> : <<a, b, q>>[n] # t
      /\ \A n \in DOMAIN <<a, c, q>> : <<a, c, q>>[n] # t
      /\ \A n \in DOMAIN <<a, q>> : <<a, q>>[n] # t
  BY <1>2
<1>4. \A n \in DOMAIN <<"context", "request", "cq">> : <<"context", "request", "cq">>[n] # "tag"  OBVIOUS
<1> QED  BY Zenon, <1>3, <1>4 DEF a, b, c, q, t

\* A call that starts at once passes on the tag it was given, when it was given one; one that
\* is only prepared is given none.
LEMMA TagsPassed ==
  ASSUME NEW m, NEW v, NEW p \in AsyncPrefixes
  PROVE  LET params == AsyncParams(m, v, p)
             with == AsyncArgs(m, p)
             tagged == \E n \in DOMAIN params : params[n] = Tag
         IN IF p.start THEN tagged <=> \E n \in DOMAIN with : with[n] = "tag" ELSE ~tagged
<1> DEFINE a == Context
           b == RequestRef(v)
           c == ResponsePtr(v)
           q == Queue
           t == Tag
           params == AsyncParams(m, v, p)
           with == AsyncArgs(m, p)
           tagged == \E n \in DOMAIN params : params[n] = t
<1>1. \/ NoStreaming(m) /\ params = <<a, b, q>>
      \/ ~NoStreaming(m) /\ \E f \in {<<a, c, q>>, <<a, b, q>>, <<a, q>>} : params = f \o p.params
  BY Zenon DEF AsyncParams
<1>2. IF p.start THEN p.params = <<t>> /\ p.create = <<"tag">> ELSE p.params = <<>>
  BY DEF AsyncPrefixes
<1>3. /\ p.start /\ NoStreaming(m) => with = <<"context", "request", "cq">>
      /\ ~NoStreaming(m) => with = <<"cq">> \o SyncWith(m) \o p.create
  BY Zenon DEF AsyncArgs
<1>4. /\ \A n \in DOMAIN <<a, b, q>> : <<a, b, q>>[n] # t
      /\ \A n \in DOMAIN <<a, c, q>> : <<a, c, q>>[n] # t
      /\ \A n \in DOMAIN <<a, q>> : <<a, q>>[n] # t
  BY Zenon, NoTag
<1> HIDE DEF a, b, c, q, t, params, with
<1>5. CASE NoStreaming(m)
  <2>1. ~tagged  BY <1>1, <1>4, <1>5
  <2>2. p.start => ~ \E n \in DOMAIN with : with[n] = "tag"  BY Zenon, <1>3, <1>5, NoTag
  <2> QED  BY Zenon, <2>1, <2>2 DEF params, with, t
<1>6. CASE ~NoStreaming(m)
  <2>1. PICK f \in {<<a, c, q>>, <<a, b, q>>, <<a, q>>} : params = f \o p.params  BY <1>1, <1>6
  <2>2. f \in Seq({a, b, c, q})  BY <2>1
  <2>3. ASSUME p.start  PROVE tagged /\ \E n \in DOMAIN with : with[n] = "tag"
    <3>1. params = f \o <<t>>  BY Zenon, <1>2, <2>1, <2>3
    <3>2. tagged  BY <2>2, <3>1, PutLast
    <3> DEFINE g == <<"cq">> \o SyncWith(m)
               x == "tag"
    <3>3. g \in Seq({"cq", "context", "request", "response"})
      <4> DEFINE S == {"cq", "context", "request", "response"}
                 e == <<"cq">>
                 h == SyncWith(m)
      <4>1. e \in Seq(S)  OBVIOUS
      <4>2. h \in Seq(S)
        <5> DEFINE f1 == <<"context", "request", "response">>
                   f2 == <<"context", "response">>
                   f3 == <<"context", "request">>
                   f4 == <<"context">>
        <5>1. h = f1 \/ h = f2 \/ h = f3 \/ h = f4  BY Zenon DEF SyncWith
        <5>2. f1 \in Seq(S) /\ f2 \in Seq(S) /\ f3 \in Seq(S) /\ f4 \in Seq(S)  OBVIOUS
        <5> HIDE DEF h, f1, f2, f3, f4
        <5> QED  BY Zenon, <5>1, <5>2
      <4> HIDE DEF S, e, h
      <4>3. e \o h \in Seq(S)  BY <4>1, <4>2, Joined
      <4> QED  BY Zenon, <4>3 DEF S, e, h
    <3>4. with = g \o <<x>>  BY Zenon, <1>2, <1>3, <1>6, <2>3
    <3> HIDE DEF g, x
    <3>5. \E n \in DOMAIN with : with[n] = x  BY <3>3, <3>4, PutLast
    <3> QED  BY Zenon, <3>2, <3>5 DEF x
  <2>4. ASSUME ~p.start  PROVE ~tagged
    <3>1. f \o <<>> = f  BY <2>2
    <3>2. params = f  BY Zenon, <1>2, <2>1, <2>4, <3>1
    <3> QED  BY <1>4, <2>1, <3>2
  <2> QED  BY Zenon, <2>3, <2>4 DEF params, with, t
<1> QED  BY <1>5, <1>6

\* What a service defines before its loops calls and starts nothing.
LEMMA FixedIdle ==
  ASSUME NEW s, NEW e \in DueFirst("source", s)
  PROVE  e.call = <<>> /\ ~e.start
<1>1. e \in SourceFixed  BY DEF DueFirst
<1>2. PICK of, name, params, ret : e = Decl(of, name, params, ret, "defined")
  BY Zenon, <1>1 DEF SourceFixed
<1> QED  BY <1>2, DeclFields

\* The loops of the source.
LEMMA SourceLoopSet == LoopSet("source") \subseteq {"Names", "Inits", "SourceClient", "Adds", "SourceServer"}
<1>1. \A n \in DOMAIN SourceLoops : SourceLoops[n] \in {"Names", "Inits", "SourceClient", "Adds", "SourceServer"}
  BY DEF SourceLoops
<1> QED  BY <1>1, LoopsOfUnit DEF LoopSet

\* The initialiser of an RpcMethod starts nothing.
LEMMA InitsIdle ==
  ASSUME NEW s, NEW k, NEW e \in DueAt("Inits", s, k)
  PROVE  e.call = <<>> /\ ~e.start
<1> DEFINE ret == <<StreamingType(Methods(s)[k])>>
           name == RpcMethod(Fresh(s, k))
<1>1. e = OnSlot(Decl(Stub, name, <<>>, ret, "init"), k)  BY DEF DueAt
<1> HIDE DEF ret, name
<1> QED  BY <1>1, DeclFields, OnSlotFields

\* What the source has of a stub: functions that call nothing, and those of its methods.
LEMMA StubSource ==
  ASSUME IInv, TurnsOK, NEW d \in decls, d.unit = "source", d.of \in {Stub, StubAsync}
  PROVE  \/ d.call = <<>> /\ ~d.start
         \/ /\ d.method \in DOMAIN Methods(d.service)
            /\ \E e \in SourceForm(Methods(d.service)[d.method], Fresh(d.service, d.method), Cq) : SameDecl(d, e)
<1> DEFINE s == d.service
           k == d.method
<1>1. s \in DOMAIN file.services  BY Origin
<1>2. CASE \E e \in DueFirst("source", s) : SameDecl(d, e)  BY <1>2, FixedIdle DEF SameDecl
<1>3. CASE ~ \E e \in DueFirst("source", s) : SameDecl(d, e)
  <2>1. k \in DOMAIN Methods(s)  BY <1>3, Origin
  <2>2. PICK l \in LoopSet("source") : \E e \in DueAt(l, s, k) : SameDecl(d, e)  BY <1>3, Origin
  <2>3. PICK e \in DueAt(l, s, k) : SameDecl(d, e)  BY <2>2
  <2> HIDE DEF s, k
  <2>4. e.of \in {Stub, StubAsync}  BY <2>3 DEF SameDecl
  <2>5. l # "SourceServer"
    <3>1. Service # Stub /\ Service # StubAsync  BY DEF Service, Stub, StubAsync
    <3> QED  BY <1>1, <2>1, <2>3, <2>4, <3>1, ServiceClasses
  <2>6. l \in {"Inits", "SourceClient"}  BY <2>3, <2>5, SourceLoopSet, NothingDue DEF SilentLoops
  <2>7. CASE l = "Inits"  BY <2>3, <2>7, InitsIdle DEF SameDecl
  <2>8. CASE l = "SourceClient"
    <3>1. DueAt(l, s, k) = SourceForm(Methods(s)[k], Fresh(s, k), Cq)
      BY Zenon, <1>1, <2>1, <2>8, ClientForms
    <3> QED  BY <2>1, <2>3, <3>1 DEF s, k
  <2> QED  BY <2>6, <2>7, <2>8
<1> QED  BY <1>2, <1>3

\* A function of a stub, by its shape.
LEMMA StubShape ==
  ASSUME IInv, TurnsOK, NEW d \in decls, d.unit = "source", d.of \in {Stub, StubAsync},
    d.call # <<>> \/ d.start
  PROVE  LET m == Methods(d.service)[d.method]
             v == Fresh(d.service, d.method)
         IN /\ d.service \in DOMAIN file.services /\ d.method \in DOMAIN Methods(d.service)
            /\ \/ SyncShape(d, m, v) \/ CallbackShape(d, m, v)
               \/ \E p \in AsyncPrefixes : Cq /\ AsyncShape(d, m, v, p)
<1> DEFINE m == Methods(d.service)[d.method]
           v == Fresh(d.service, d.method)
<1>1. d.service \in DOMAIN file.services  BY Origin
<1>2. d.method \in DOMAIN Methods(d.service) /\ \E e \in SourceForm(m, v, Cq) : SameDecl(d, e)
  BY StubSource
<1>3. PICK e \in SourceForm(m, v, Cq) : SameDecl(d, e)  BY <1>2
<1>4. Cq \in BOOLEAN  BY MethodKinds
<1> HIDE DEF m, v
<1>5. SyncShape(e, m, v) \/ CallbackShape(e, m, v) \/ \E p \in AsyncPrefixes : Cq /\ AsyncShape(e, m, v, p)
  BY <1>3, <1>4, SourceShapes
<1>6. SyncShape(d, m, v) \/ CallbackShape(d, m, v) \/ \E p \in AsyncPrefixes : Cq /\ AsyncShape(d, m, v, p)
  BY Zenon, <1>3, <1>5 DEF SameDecl, SyncShape, CallbackShape, AsyncShape
<1> QED  BY Zenon, <1>1, <1>2, <1>6 DEF m, v

\* What starts a call is one of the Async functions.
LEMMA Starters ==
  ASSUME IInv, TurnsOK, NEW d \in decls, d.unit = "source", d.of \in {Stub, StubAsync}, d.start
  PROVE  \E n \in Seq(STRING) : d.name = <<"Async">> \o n \o Raw
<1> DEFINE m == Methods(d.service)[d.method]
           v == Fresh(d.service, d.method)
<1>1. /\ d.service \in DOMAIN file.services /\ d.method \in DOMAIN Methods(d.service)
      /\ \/ SyncShape(d, m, v) \/ CallbackShape(d, m, v) \/ \E p \in AsyncPrefixes : Cq /\ AsyncShape(d, m, v, p)
  BY Zenon, StubShape
<1>2. v.Method = m.name /\ m.name \in Seq(STRING)  BY <1>1, FreshMethod, MethodKinds
<1> HIDE DEF m, v
<1>3. PICK p \in AsyncPrefixes : AsyncShape(d, m, v, p)  BY <1>1 DEF SyncShape, CallbackShape
<1>4. p.start /\ p.prefix = <<"Async">>  BY <1>3, Prefixes DEF AsyncShape
<1>5. d.name = <<"Async">> \o m.name \o Raw  BY Zenon, <1>2, <1>3, <1>4 DEF AsyncShape
<1> QED  BY Zenon, <1>2, <1>5

\* What a function of a stub calls does not start the call again.
LEMMA CalleesWait ==
  ASSUME IInv, TurnsOK, NEW d \in decls, d.unit = "source", d.of \in {Stub, StubAsync},
    d.call # <<>>,
         NEW b \in decls, b.unit = "source", b.of = d.of, b.name = d.call
  PROVE  ~b.start
<1> DEFINE m == Methods(d.service)[d.method]
           v == Fresh(d.service, d.method)
<1>1. /\ d.service \in DOMAIN file.services /\ d.method \in DOMAIN Methods(d.service)
      /\ \/ SyncShape(d, m, v) \/ CallbackShape(d, m, v) \/ \E p \in AsyncPrefixes : Cq /\ AsyncShape(d, m, v, p)
  BY Zenon, StubShape
<1>2. v.Method = m.name /\ m.name \in Seq(STRING)  BY <1>1, FreshMethod, MethodKinds
<1> HIDE DEF m, v
<1>3. d.call = <<"rpcmethod_">> \o m.name \/ d.call = <<"PrepareAsync">> \o m.name \o Raw
  BY Zenon, <1>1, <1>2 DEF SyncShape, CallbackShape, AsyncShape, AsyncCall, RpcMethod
<1>4. SUFFICES ASSUME b.start  PROVE FALSE  OBVIOUS
<1>5. PICK n \in Seq(STRING) : b.name = <<"Async">> \o n \o Raw  BY <1>4, Starters
<1>6. <<"Async">> \o n \o Raw # <<"PrepareAsync">> \o m.name \o Raw /\ <<"Async">> \o n \o Raw # <<"rpcmethod_">> \o m.name
  BY Zenon, <1>2, BegunApart
<1> QED  BY Zenon, <1>3, <1>5, <1>6

\* Every function of a stub ends at the RpcMethod of its own method.
LEMMA EndsAtMethod ==
  ASSUME IInv, TurnsOK, Generated, NEW d \in decls, d.unit = "source", d.of \in {Stub, StubAsync},
    d.call # <<>>
  PROVE  \/ d.call = <<"rpcmethod_">> \o Methods(d.service)[d.method].name
         \/ \E b \in In("source") : /\ b.service = d.service /\ b.of = d.of /\ b.name = d.call
                                    /\ b.call = <<"rpcmethod_">> \o Methods(d.service)[d.method].name
<1> DEFINE s == d.service
           k == d.method
           m == Methods(s)[k]
           v == Fresh(s, k)
<1>1. /\ s \in DOMAIN file.services /\ k \in DOMAIN Methods(s)
      /\ \/ SyncShape(d, m, v) \/ CallbackShape(d, m, v) \/ \E p \in AsyncPrefixes : Cq /\ AsyncShape(d, m, v, p)
  BY Zenon, StubShape
<1>2. v.Method = m.name  BY FreshMethod
<1>3. DueAt("SourceClient", s, k) = SourceForm(m, v, Cq)  BY Zenon, <1>1, ClientForms
<1> HIDE DEF s, k, m, v
<1>4. SUFFICES d.call = RpcMethod(v) \/ \E b \in In("source") :
                 b.service = s /\ b.of = d.of /\ b.name = d.call /\ b.call = RpcMethod(v)
  BY Zenon, <1>2 DEF s, k, m, RpcMethod
<1>5. CASE d.call = RpcMethod(v)  BY <1>5
<1>6. CASE d.call # RpcMethod(v)
  <2>1. PICK p \in AsyncPrefixes : Cq /\ AsyncShape(d, m, v, p)
    BY <1>1, <1>6 DEF SyncShape, CallbackShape
  <2>2. d.of = Stub /\ d.call = <<"PrepareAsync">> \o v.Method \o Raw
    BY Zenon, <1>6, <2>1 DEF AsyncShape, AsyncCall
  <2>3. PICK q \in AsyncPrefixes : ~q.start /\ q.prefix = <<"PrepareAsync">>  BY Prefixes
  <2> DEFINE e == AsyncDefined(m, v, q)
  <2>4. e \in DueAt("SourceClient", s, k)  BY Zenon, <1>3, <2>1 DEF SourceForm, When
  <2>5. AsyncShape(e, m, v, q)  BY Zenon, AsyncDefinedShape
  <2> HIDE DEF e
  <2>6. e.of = Stub /\ e.name = d.call /\ e.call = RpcMethod(v)
    BY Zenon, <2>2, <2>3, <2>5 DEF AsyncShape, AsyncCall
  <2>7. PICK b \in decls : SameDecl(b, e) /\ b.unit = "source" /\ b.service = s
    <3>1. "source" \in written /\ "SourceClient" \in LoopSet("source") /\ Allowed("SourceClient")
      BY WrittenUnits, LoopSets, AllowedLoops
    <3> QED  BY <1>1, <2>4, <3>1, AllDue
  <2> QED  BY <2>2, <2>6, <2>7 DEF SameDecl, In
<1> QED  BY <1>5, <1>6

\* AsyncMRaw starts its call, with the tag it is given; PrepareAsyncMRaw does not, and is given none.
LEMMA StartsByName ==
  ASSUME IInv, TurnsOK, NEW d \in decls, d.unit = "source", d.of \in {Stub, StubAsync},
    d.call # <<>>
  PROVE  LET name == Methods(d.service)[d.method].name
             tagged == \E n \in DOMAIN d.params : d.params[n] = Tag
         IN /\ d.name = <<"Async">> \o name \o Raw => d.start /\ (tagged <=> \E n \in DOMAIN d.with : d.with[n] = "tag")
            /\ d.name = <<"PrepareAsync">> \o name \o Raw => ~d.start /\ ~tagged
<1> DEFINE m == Methods(d.service)[d.method]
           v == Fresh(d.service, d.method)
           tagged == \E n \in DOMAIN d.params : d.params[n] = Tag
           passed == \E n \in DOMAIN d.with : d.with[n] = "tag"
<1>1. /\ d.service \in DOMAIN file.services /\ d.method \in DOMAIN Methods(d.service)
      /\ \/ SyncShape(d, m, v) \/ CallbackShape(d, m, v) \/ \E p \in AsyncPrefixes : Cq /\ AsyncShape(d, m, v, p)
  BY Zenon, StubShape
<1>2. v.Method = m.name /\ m.name \in Seq(STRING)  BY <1>1, FreshMethod, MethodKinds
<1> HIDE DEF m, v
<1> DEFINE begin == <<"Async">> \o m.name \o Raw
           prepare == <<"PrepareAsync">> \o m.name \o Raw
<1>3. begin # prepare /\ \A x \in {m.name, m.name \o Raw} : x # begin /\ x # prepare
  BY Zenon, <1>2, BegunApart
<1>4. CASE SyncShape(d, m, v) \/ CallbackShape(d, m, v)
  <2>1. d.name \in {m.name, m.name \o Raw}  BY Zenon, <1>2, <1>4 DEF SyncShape, CallbackShape
  <2>2. d.name # begin /\ d.name # prepare  BY Zenon, <1>3, <2>1
  <2> QED  BY Zenon, <2>2 DEF m
<1>5. ASSUME NEW p \in AsyncPrefixes, AsyncShape(d, m, v, p)
      PROVE  /\ d.name = begin => d.start /\ (tagged <=> passed)
             /\ d.name = prepare => ~d.start /\ ~tagged
  <2>1. d.params = AsyncParams(m, v, p) /\ d.with = AsyncArgs(m, p) /\ d.start = p.start
        /\ d.name = p.prefix \o m.name \o Raw
    BY Zenon, <1>2, <1>5 DEF AsyncShape
  <2>2. IF p.start THEN tagged <=> passed ELSE ~tagged
    <3> DEFINE params == AsyncParams(m, v, p)
               with == AsyncArgs(m, p)
    <3>1. IF p.start
          THEN (\E n \in DOMAIN params : params[n] = Tag) <=> \E n \in DOMAIN with : with[n] = "tag"
          ELSE ~\E n \in DOMAIN params : params[n] = Tag
      BY Zenon, TagsPassed
    <3>2. d.params = params /\ d.with = with  BY Zenon, <2>1
    <3> HIDE DEF params, with
    <3> QED  BY <3>1, <3>2
  <2>3. IF p.start THEN p.prefix = <<"Async">> ELSE p.prefix = <<"PrepareAsync">>  BY Prefixes
  <2>4. IF p.start THEN d.name = begin ELSE d.name = prepare  BY Zenon, <2>1, <2>3
  <2> HIDE DEF begin, prepare, tagged, passed
  <2>5. CASE p.start  BY Zenon, <1>3, <2>1, <2>2, <2>4, <2>5
  <2>6. CASE ~p.start  BY Zenon, <1>3, <2>1, <2>2, <2>4, <2>6
  <2> QED  BY Zenon, <2>5, <2>6
<1> QED  BY Zenon, <1>1, <1>4, <1>5 DEF m

\* For any .proto and any options: AsyncM starts its call once, with the tag it is given, however
\* much of its work is PrepareAsyncM's; PrepareAsyncM never starts one; and every function of the
\* stub ends at the RpcMethod of its own method.
THEOREM StartsTheorem == Spec => []StartsOnce
<1>1. ASSUME IInv, TurnsOK  PROVE StartsOnce
  <2>1. SUFFICES ASSUME Generated, NEW s \in DOMAIN file.services, NEW d \in In("source"), d.service = s,
                        d.how = "defined", d.of \in {Stub, StubAsync}, d.call # <<>>
                 PROVE  LET via == {b \in In("source") : b.service = s /\ b.of = d.of /\ b.name = d.call}
                            m == Methods(s)[d.method]
                            began == {b \in {d} \cup via : b.start}
                            tagged == \E n \in DOMAIN d.params : d.params[n] = Tag
                        IN /\ \E b \in {d} \cup via : b.call = <<"rpcmethod_">> \o m.name
                           /\ d.name = <<"Async">> \o m.name \o Raw =>
                                Cardinality(began) = 1 /\ (tagged <=> \E n \in DOMAIN d.with : d.with[n] = "tag")
                           /\ d.name = <<"PrepareAsync">> \o m.name \o Raw => began = {} /\ ~tagged
    BY Zenon DEF StartsOnce
  <2> DEFINE via == {b \in In("source") : b.service = s /\ b.of = d.of /\ b.name = d.call}
             m == Methods(s)[d.method]
             began == {b \in {d} \cup via : b.start}
             tagged == \E n \in DOMAIN d.params : d.params[n] = Tag
             passed == \E n \in DOMAIN d.with : d.with[n] = "tag"
             begin == <<"Async">> \o m.name \o Raw
             prepare == <<"PrepareAsync">> \o m.name \o Raw
             rpc == <<"rpcmethod_">> \o m.name
  <2>2. d \in decls /\ d.unit = "source" /\ \A b \in via : b \in decls /\ b.unit = "source"
    BY DEF In
  <2>3. \E b \in {d} \cup via : b.call = rpc
    <3>1. \/ d.call = rpc
          \/ \E b \in In("source") : b.service = s /\ b.of = d.of /\ b.name = d.call /\ b.call = rpc
      BY Zenon, <1>1, <2>1, <2>2, EndsAtMethod
    <3> HIDE DEF rpc
    <3> QED  BY <3>1
  <2>4. \A b \in via : ~b.start  BY <1>1, <2>1, <2>2, CalleesWait
  <2>5. /\ d.name = begin => d.start /\ (tagged <=> passed)
        /\ d.name = prepare => ~d.start /\ ~tagged
    BY Zenon, <1>1, <2>1, <2>2, StartsByName
  <2>6. d.start => began = {d}  BY <2>4
  <2>7. ~d.start => began = {}  BY <2>4
  <2>8. Cardinality({d}) = 1  BY FS_Singleton
  <2> HIDE DEF via, began, tagged, passed, begin, prepare, rpc
  <2>9. /\ \E b \in {d} \cup via : b.call = rpc
        /\ d.name = begin => Cardinality(began) = 1 /\ (tagged <=> passed)
        /\ d.name = prepare => began = {} /\ ~tagged
    BY <2>3, <2>5, <2>6, <2>7, <2>8
  <2> QED  BY Zenon, <2>9 DEF via, began, tagged, passed, begin, prepare, rpc
<1> QED  BY <1>1, Invariance, TurnsTheorem, PTL

\* What is glued to both ends of two names comes off again.
LEMMA CancelEnd ==
  ASSUME NEW S, NEW f \in Seq(S), NEW g \in Seq(S), NEW h \in Seq(S), f \o h = g \o h
  PROVE  f = g
BY ConcatSimplifications

\* Of their beginning.
LEMMA CancelBegin ==
  ASSUME NEW S, NEW f \in Seq(S), NEW g \in Seq(S), NEW h \in Seq(S), h \o f = h \o g
  PROVE  f = g
BY ConcatSimplifications

\* Names that two methods begin the same way.
LEMMA SameBegin ==
  ASSUME NEW x, NEW y, NEW n \in Seq(STRING), NEW o \in Seq(STRING), <<x>> \o n = <<y>> \o o
  PROVE  x = y /\ n = o
<1> DEFINE S == STRING \cup {x}
           h == <<x>>
<1>1. (<<x>> \o n)[1] = x /\ (<<y>> \o o)[1] = y  BY Begun
<1>2. x = y  BY Zenon, <1>1
<1>3. h \in Seq(S) /\ n \in Seq(S) /\ o \in Seq(S)  OBVIOUS
<1>4. h \o n = h \o o  BY Zenon, <1>2
<1> HIDE DEF h, S
<1>5. n = o  BY Zenon, <1>3, <1>4, CancelBegin
<1> QED  BY <1>2, <1>5

\* Names that two methods end the same way.
LEMMA SameEnd ==
  ASSUME NEW n \in Seq(STRING), NEW o \in Seq(STRING), n \o Raw = o \o Raw
  PROVE  n = o
<1> DEFINE S == STRING \cup {"Raw"}
           h == <<"Raw">>
<1>1. h \in Seq(S) /\ n \in Seq(S) /\ o \in Seq(S)  OBVIOUS
<1>2. n \o h = o \o h  BY Zenon DEF Raw
<1> HIDE DEF h, S
<1> QED  BY Zenon, <1>1, <1>2, CancelEnd

\* Two names with a word before and Raw behind are one.
NamedAlike(x, n, y, o) == x \o n \o Raw = y \o o \o Raw

\* Names that two methods begin and end the same way.
LEMMA SameBegunRaw ==
  ASSUME NEW x, NEW y, NEW n \in Seq(STRING), NEW o \in Seq(STRING), NamedAlike(<<x>>, n, <<y>>, o)
  PROVE  x = y /\ n = o
<1> DEFINE S == STRING \cup {x, y, "Raw"}
           p == <<x>>
           q == <<y>>
           r == <<"Raw">>
           a == p \o n
           b == q \o o
<1>1. p \in Seq(S) /\ q \in Seq(S) /\ r \in Seq(S) /\ n \in Seq(S) /\ o \in Seq(S)  OBVIOUS
<1>2. a \o r = b \o r  BY Zenon DEF NamedAlike, Raw
<1>3. a \in Seq(S) /\ b \in Seq(S)
  <2> HIDE DEF p, q, r, S
  <2> QED  BY <1>1, Joined
<1>4. a = b
  <2> HIDE DEF a, b, r, S
  <2> QED  BY Zenon, <1>1, <1>2, <1>3, CancelEnd
<1>5. <<x>> \o n = <<y>> \o o  BY Zenon, <1>4
<1> QED  BY SMTT(30), <1>5, SameBegin

\* The types of parameters, one by one.
LEMMA TypesOf ==
  ASSUME NEW params
  PROVE  DOMAIN Types(params) = DOMAIN params /\ \A n \in DOMAIN params : Types(params)[n] = Tail(params[n])
BY DEF Types

\* A parameter's name is no part of its type.
LEMMA UnnamedTypes ==
  ASSUME NEW a, NEW b, NEW c, NEW e, NEW f, Tail(e) = Tail(f)
  PROVE  Types(<<a, b, c, e>>) = Types(<<a, b, c, f>>)
<1> DEFINE p == <<a, b, c, e>>
           q == <<a, b, c, f>>
<1>1. DOMAIN p = 1 .. 4 /\ DOMAIN q = 1 .. 4 /\ \A n \in 1 .. 4 : Tail(p[n]) = Tail(q[n])  OBVIOUS
<1> HIDE DEF p, q
<1>2. Types(p) = Types(q)  BY <1>1 DEF Types
<1> QED  BY Zenon, <1>2 DEF p, q

\* The last type tells two lists of parameters apart.
LEMMA LastTypes ==
  ASSUME NEW a, NEW b, NEW c, NEW e, NEW f, Tail(e) # Tail(f)
  PROVE  Types(<<a, b, c, e>>) # Types(<<a, b, c, f>>)
<1> DEFINE p == <<a, b, c, e>>
           q == <<a, b, c, f>>
<1>1. 4 \in DOMAIN p /\ 4 \in DOMAIN q /\ p[4] = e /\ q[4] = f  OBVIOUS
<1> HIDE DEF p, q
<1>2. Types(p)[4] # Types(q)[4]  BY <1>1, TypesOf
<1> QED  BY Zenon, <1>2 DEF p, q

\* What a callback takes last.
LEMMA LastCallback ==
  /\ Tail(<<"f", "function">>) = <<"function">> /\ Tail(<<"reactor", "ClientUnaryReactor">>) = <<"ClientUnaryReactor">>
  /\ <<"function">> # <<"ClientUnaryReactor">>
OBVIOUS

\* The name left out.
LEMMA UnnamedCallback ==
  ASSUME NEW x, NEW y
  PROVE  Tail(<<x, y>>) = <<y>>
OBVIOUS

\* Two lists of parameters, after the context, of the same types.
AlikeCalled(p, q) == Types(<<Context>> \o p) = Types(<<Context>> \o q)

\* The callbacks the header declares and those the source defines have the same types.
LEMMA CallbackTypes ==
  ASSUME NEW m, NEW v
  PROVE  /\ \A q \in CallbackParams(m, v) : \E c \in CallbackBodies(m, v) : AlikeCalled(q, c.params)
         /\ \A c \in CallbackBodies(m, v) : \E q \in CallbackParams(m, v) : AlikeCalled(q, c.params)
         /\ \A c, e \in CallbackBodies(m, v) : AlikeCalled(c.params, e.params) => c = e
<1> DEFINE a == Context
           b == RequestPtr(v)
           r == ResponsePtr(v)
           f == <<"f", "function">>
           g == <<"reactor", "ClientUnaryReactor">>
           h == <<"", "function">>
           fb == [params |-> <<b, r, f>>, with |-> <<"context", "request", "response", "f">>]
           gb == [params |-> <<b, r, g>>, with |-> <<"context", "request", "response", "reactor">>]
<1>1. CASE NoStreaming(m)
  <2>1. CallbackParams(m, v) = {<<b, r, h>>, <<b, r, g>>}  BY Zenon, <1>1 DEF CallbackParams
  <2>2. CallbackBodies(m, v) = {fb, gb}  BY Zenon, <1>1 DEF CallbackBodies
  <2>3. Tail(f) = <<"function">> /\ Tail(g) = <<"ClientUnaryReactor">> /\ Tail(f) # Tail(g)
    BY LastCallback
  <2>4. Tail(h) = <<"function">>  BY Zenon, UnnamedCallback
  <2>5. fb.params = <<b, r, f>> /\ gb.params = <<b, r, g>>  OBVIOUS
  <2> HIDE DEF a, b, r, f, g, h, fb, gb
  <2>6. /\ <<a>> \o <<b, r, f>> = <<a, b, r, f>> /\ <<a>> \o <<b, r, g>> = <<a, b, r, g>>
        /\ <<a>> \o <<b, r, h>> = <<a, b, r, h>>
    BY Zenon, GluedFirst
  <2>7. Types(<<a, b, r, h>>) = Types(<<a, b, r, f>>)  BY Zenon, <2>3, <2>4, UnnamedTypes
  <2>8. Types(<<a, b, r, f>>) # Types(<<a, b, r, g>>)  BY Zenon, <2>3, LastTypes
  <2>9. /\ AlikeCalled(<<b, r, h>>, fb.params) /\ AlikeCalled(<<b, r, g>>, gb.params)
        /\ ~AlikeCalled(fb.params, gb.params) /\ ~AlikeCalled(gb.params, fb.params)
    BY Zenon, <2>5, <2>6, <2>7, <2>8 DEF AlikeCalled, a
  <2> QED  BY Zenon, <2>1, <2>2, <2>9
<1>2. CASE ~NoStreaming(m)
  <2>1. PICK q, w : CallbackParams(m, v) = {q} /\ CallbackBodies(m, v) = {[params |-> q, with |-> w]}
    BY Zenon, <1>2 DEF CallbackParams, CallbackBodies
  <2> DEFINE c == [params |-> q, with |-> w]
  <2>2. c.params = q  OBVIOUS
  <2> HIDE DEF c, a, b, r, f, g, h, fb, gb
  <2>3. AlikeCalled(q, c.params)  BY Zenon, <2>2 DEF AlikeCalled
  <2> QED  BY Zenon, <2>1, <2>3 DEF c
<1> QED  BY <1>1, <1>2

\* One function, as it is declared and as it is defined.
Signed(d, b) ==
  d.of = b.of /\ d.name = b.name /\ Types(d.params) = Types(b.params) /\ d.ret = b.ret

\* An override signed like a definition.
LEMMA DeclSigned ==
  ASSUME NEW of, NEW name, NEW params, NEW ret,
         NEW b, b.of = of, b.name = name, Types(b.params) = Types(params), b.ret = ret
  PROVE  LET d == Decl(of, name, params, ret, "override") IN
         Signed(d, b) /\ d.how = "override" /\ d.call = <<>>
<1> DEFINE how == "override"
           d == Decl(of, name, params, ret, how)
<1> HIDE DEF how
<1>1. d.of = of /\ d.name = name /\ d.params = params /\ d.ret = ret /\ d.how = how /\ d.call = <<>>
  BY DeclFields
<1> HIDE DEF d
<1>2. Signed(d, b) /\ d.how = how /\ d.call = <<>>  BY <1>1 DEF Signed
<1> QED  BY Zenon, <1>2 DEF d, how

\* The declarations of the stub that a definition answers.
LEMMA StubPairs ==
  ASSUME NEW m, Kind(m), NEW v, NEW cq \in BOOLEAN
  PROVE  LET P == PublicForm(Stub, m, v, cq, SyncRet(m, v), AsyncRet(m, v), "override")
             R == PrivateForm(Stub, m, v, cq, SyncRet(m, v), AsyncRet(m, v), "override")
             C == Callbacks(StubAsync, m, v, "override")
         IN /\ \A d \in P : d.how = "override" => \E b \in SourceForm(m, v, cq) : Signed(d, b)
            /\ \A d \in R \cup C : \E b \in SourceForm(m, v, cq) : Signed(d, b)
            /\ \A b \in SourceForm(m, v, cq) :
                 \E d \in P \cup R \cup C : d.how = "override" /\ d.call = <<>> /\ Signed(d, b)
<1> DEFINE S == SyncRet(m, v)
           A == AsyncRet(m, v)
           P == PublicForm(Stub, m, v, cq, S, A, "override")
           R == PrivateForm(Stub, m, v, cq, S, A, "override")
           C == Callbacks(StubAsync, m, v, "override")
           status == <<"Status">>
           void == <<"void">>
           name == IF NoStreaming(m) THEN v.Method ELSE v.Method \o Raw
           Named(p) == p.prefix \o v.Method \o Raw
           sync == Decl(Stub, name, SyncParams(m, v), S, "override")
           Async(p) == Decl(Stub, Named(p), AsyncParams(m, v, p), A, "override")
           Call(q) == Decl(StubAsync, v.Method, <<Context>> \o q, void, "override")
<1>1. NoStreaming(m) => S = status  BY Zenon DEF SyncRet
<1>2. IF NoStreaming(m) THEN sync \in P ELSE sync \in R
  <2>1. CASE NoStreaming(m)
    <3>1. sync = Plain(Stub, m, v, "override")  BY Zenon, <1>1, <2>1 DEF Plain
    <3> QED  BY Zenon, <2>1, <3>1 DEF PublicForm
  <2>2. CASE ~NoStreaming(m)
    <3>1. sync = SyncRaw(Stub, m, v, S, "override")  BY Zenon, <2>2 DEF SyncRaw
    <3> QED  BY Zenon, <2>2, <3>1 DEF PrivateForm
  <2> QED  BY <2>1, <2>2
<1>3. ASSUME NEW p \in AsyncPrefixes, cq  PROVE Async(p) \in R
  <2>1. Async(p) = AsyncRaw(Stub, m, v, p, A, "override")  BY Zenon DEF AsyncRaw
  <2> QED  BY Zenon, <1>3, <2>1 DEF PrivateForm, When
<1>4. C = {Call(q) : q \in CallbackParams(m, v)}  BY DEF Callbacks
<1>5. ASSUME NEW d \in P \cup R, d.how = "override"
      PROVE  d = sync \/ \E p \in AsyncPrefixes : cq /\ d = Async(p)
  <2>1. CASE d \in P
    <3>1. \/ NoStreaming(m) /\ d = Plain(Stub, m, v, "override")
          \/ d = SyncWrapper(Stub, m, v, S) \/ \E p : d = AsyncWrapper(Stub, m, v, p, A)
      BY Zenon, <2>1 DEF PublicForm, When
    <3>2. NoStreaming(m) /\ d = Plain(Stub, m, v, "override")  BY <1>5, <3>1, WrappersInline
    <3> QED  BY Zenon, <1>1, <3>2 DEF Plain
  <2>2. CASE d \in R
    <3>1. \/ ~NoStreaming(m) /\ d = SyncRaw(Stub, m, v, S, "override")
          \/ \E p \in AsyncPrefixes : cq /\ d = AsyncRaw(Stub, m, v, p, A, "override")
      BY Zenon, <2>2 DEF PrivateForm, When
    <3> QED  BY Zenon, <3>1 DEF SyncRaw, AsyncRaw
  <2> QED  BY <2>1, <2>2
<1>6. \A d \in R : d.how = "override"  BY RawPairs
<1>7. SyncShape(SyncDefined(m, v), m, v) /\ SyncDefined(m, v) \in SourceForm(m, v, cq)
  BY Zenon, SyncDefinedShape DEF SourceForm
<1>8. ASSUME NEW p \in AsyncPrefixes, cq
      PROVE  AsyncShape(AsyncDefined(m, v, p), m, v, p) /\ AsyncDefined(m, v, p) \in SourceForm(m, v, cq)
  BY Zenon, <1>8, AsyncDefinedShape DEF SourceForm, When
<1>9. ASSUME NEW c \in CallbackBodies(m, v)
      PROVE  /\ CallbackDefined(v, c) \in SourceForm(m, v, cq) /\ CallbackDefined(v, c).of = StubAsync
             /\ CallbackDefined(v, c).name = v.Method /\ CallbackDefined(v, c).params = <<Context>> \o c.params
             /\ CallbackDefined(v, c).ret = void
  <2> DEFINE params == <<Context>> \o c.params
             call == RpcMethod(v)
             with == c.with
             d == CallbackDefined(v, c)
  <2>1. d = Defined(StubAsync, v.Method, params, void, call, with)  BY Zenon DEF CallbackDefined
  <2>2. d \in SourceForm(m, v, cq)  BY Zenon DEF SourceForm
  <2> HIDE DEF params, call, with, d, void
  <2>3. d.of = StubAsync /\ d.name = v.Method /\ d.params = params /\ d.ret = void
    BY <2>1, DefinedFields
  <2> QED  BY Zenon, <2>2, <2>3 DEF d, params
<1>11. Signed(sync, SyncDefined(m, v)) /\ sync.how = "override" /\ sync.call = <<>>
  <2> DEFINE b == SyncDefined(m, v)
             params == SyncParams(m, v)
             of == Stub
             how == "override"
             d == Decl(of, name, params, S, how)
  <2>1. b.of = of /\ b.name = name /\ b.params = params /\ b.ret = S  BY Zenon, <1>7 DEF SyncShape
  <2> HIDE DEF of, name, params, S, b
  <2>2. Signed(d, b) /\ d.how = how /\ d.call = <<>>  BY <2>1, DeclSigned
  <2> HIDE DEF d
  <2>3. d = sync  BY Zenon DEF d, of, params
  <2> QED  BY Zenon, <2>2, <2>3 DEF b, how
<1>12. ASSUME NEW p \in AsyncPrefixes, cq
       PROVE  Signed(Async(p), AsyncDefined(m, v, p)) /\ Async(p).how = "override" /\ Async(p).call = <<>>
  <2> DEFINE b == AsyncDefined(m, v, p)
             params == AsyncParams(m, v, p)
             of == Stub
             how == "override"
             n == Named(p)
             d == Decl(of, n, params, A, how)
  <2>1. b.of = of /\ b.name = n /\ b.params = params /\ b.ret = A
    BY Zenon, <1>8, <1>12 DEF AsyncShape
  <2> HIDE DEF of, n, params, A, b
  <2>2. Signed(d, b) /\ d.how = how /\ d.call = <<>>  BY <2>1, DeclSigned
  <2> HIDE DEF d
  <2>3. d = Async(p)  BY Zenon DEF d, of, params, n
  <2> QED  BY Zenon, <2>2, <2>3 DEF b, how
<1>13. ASSUME NEW q \in CallbackParams(m, v), NEW c \in CallbackBodies(m, v),
              AlikeCalled(q, c.params)
       PROVE  Signed(Call(q), CallbackDefined(v, c)) /\ Call(q).how = "override" /\ Call(q).call = <<>>
  <2> DEFINE b == CallbackDefined(v, c)
             params == <<Context>> \o q
             of == StubAsync
             how == "override"
             n == v.Method
             d == Decl(of, n, params, void, how)
  <2>1. b.of = of /\ b.name = n /\ Types(b.params) = Types(params) /\ b.ret = void
    BY Zenon, <1>9, <1>13 DEF AlikeCalled
  <2> HIDE DEF of, n, params, void, b
  <2>2. Signed(d, b) /\ d.how = how /\ d.call = <<>>  BY <2>1, DeclSigned
  <2> HIDE DEF d
  <2>3. d = Call(q)  BY Zenon DEF d, of, params, n
  <2> QED  BY Zenon, <2>2, <2>3 DEF b, how
<1>14. \A d \in P \cup R : d.how = "override" => \E b \in SourceForm(m, v, cq) : Signed(d, b)
  BY Zenon, <1>5, <1>7, <1>8, <1>11, <1>12
<1>15. \A d \in C : \E b \in SourceForm(m, v, cq) : Signed(d, b)
  <2>1. ASSUME NEW q \in CallbackParams(m, v)  PROVE \E b \in SourceForm(m, v, cq) : Signed(Call(q), b)
    <3>1. PICK c \in CallbackBodies(m, v) : AlikeCalled(q, c.params)  BY Zenon, CallbackTypes
    <3>2. Signed(Call(q), CallbackDefined(v, c))  BY Zenon, <1>13, <3>1
    <3> HIDE DEF Call
    <3> QED  BY Zenon, <1>9, <3>2
  <2> HIDE DEF Call, C
  <2> QED  BY Zenon, <1>4, <2>1
<1>16. ASSUME NEW b \in SourceForm(m, v, cq)
       PROVE  \E d \in P \cup R \cup C : d.how = "override" /\ d.call = <<>> /\ Signed(d, b)
  <2>1. \/ b = SyncDefined(m, v) \/ \E c \in CallbackBodies(m, v) : b = CallbackDefined(v, c)
        \/ cq /\ \E p \in AsyncPrefixes : b = AsyncDefined(m, v, p)
    BY Zenon DEF SourceForm, When
  <2>2. CASE b = SyncDefined(m, v)
    <3>1. sync \in P \cup R \cup C  BY <1>2
    <3> QED  BY Zenon, <1>11, <2>2, <3>1
  <2>3. ASSUME NEW p \in AsyncPrefixes, cq, b = AsyncDefined(m, v, p)
        PROVE  \E d \in P \cup R \cup C : d.how = "override" /\ d.call = <<>> /\ Signed(d, b)
    <3>1. Async(p) \in P \cup R \cup C  BY <1>3, <2>3
    <3> QED  BY Zenon, <1>12, <2>3, <3>1
  <2>4. ASSUME NEW c \in CallbackBodies(m, v), b = CallbackDefined(v, c)
        PROVE  \E d \in P \cup R \cup C : d.how = "override" /\ d.call = <<>> /\ Signed(d, b)
    <3>1. PICK q \in CallbackParams(m, v) : AlikeCalled(q, c.params)
      BY Zenon, CallbackTypes
    <3>2. Call(q) \in P \cup R \cup C
      <4>1. Call(q) \in C  BY Zenon, <1>4
      <4> HIDE DEF P, R, C
      <4> QED  BY Zenon, <4>1
    <3> QED  BY Zenon, <1>13, <2>4, <3>1, <3>2
  <2> QED  BY Zenon, <2>1, <2>2, <2>3, <2>4
<1> HIDE DEF P, R, C
<1>17. /\ \A d \in P : d.how = "override" => \E b \in SourceForm(m, v, cq) : Signed(d, b)
       /\ \A d \in R \cup C : \E b \in SourceForm(m, v, cq) : Signed(d, b)
  BY <1>6, <1>14, <1>15
<1> QED  BY Zenon, <1>16, <1>17 DEF P, R, C

\* A function declared for the source to define.
Bodiless(d) == d.call = <<>> /\ d.how \in {"override", "virtual", "declared"}

\* What a service declares before its loops, and what the source defines of it.
LEMMA FixedPairs ==
  ASSUME NEW s
  PROVE  /\ \A d \in DueFirst("header", s) : Bodiless(d) => \E b \in SourceFixed : Signed(d, b)
         /\ \A b \in SourceFixed : \E d \in DueFirst("header", s) : Bodiless(d) /\ Signed(d, b)
<1> DEFINE v == [InitialVars EXCEPT !.Package = file.package, !.Service = ServiceName(s)]
           full == v.Package \o v.Service
           name == <<"async">>
           face == <<"async", "Interface">>
           stub == <<"async_stub_">>
           over == Decl(Stub, name, <<>>, name, "override")
           pointer == <<"unique_ptr", "Stub">>
           new == <<"NewStub">>
           dtor == <<"~">> \o Service
           args == ChannelAndOptions
           H == DueFirst("header", s)
           Full == Decl(<<>>, <<"service_full_name">>, <<>>, full, "inline")
           Face == Decl(StubInterface, name, <<>>, face, "default")
           Over == Body(over, stub, <<>>)
           New(how) == Decl(<<>>, new, args, pointer, how)
           Con(how) == Decl(Stub, Stub, args, <<>>, how)
           Srv(how) == Decl(Service, Service, <<>>, <<>>, how)
           Dtor(how) == Decl(Service, dtor, <<>>, <<>>, how)
<1>1. H = {Full, Face, Over, Con("declared"), New("declared"), Srv("declared"), Dtor("virtual")}
  BY DEF DueFirst, HeaderFixed
<1>2. SourceFixed = {New("defined"), Con("defined"), Srv("defined"), Dtor("defined")}
  BY DEF SourceFixed
<1>3. ASSUME NEW of, NEW n, NEW params, NEW ret, NEW how \in {"virtual", "declared"}
      PROVE  LET d == Decl(of, n, params, ret, how) IN Bodiless(d) /\ Signed(d, Decl(of, n, params, ret, "defined"))
  <2> DEFINE d == Decl(of, n, params, ret, how)
             b == Decl(of, n, params, ret, "defined")
  <2>1. /\ d.of = of /\ d.name = n /\ d.params = params /\ d.ret = ret /\ d.how = how /\ d.call = <<>>
        /\ b.of = of /\ b.name = n /\ b.params = params /\ b.ret = ret
    BY DeclFields
  <2> HIDE DEF d, b
  <2>2. Bodiless(d) /\ Signed(d, b)  BY <2>1 DEF Bodiless, Signed
  <2> QED  BY Zenon, <2>2 DEF d, b
<1>4. ~Bodiless(Full) /\ ~Bodiless(Face)
  <2>1. Full.how = "inline" /\ Face.how = "default"
    <3> HIDE DEF full, name, face
    <3> QED  BY DeclFields
  <2> HIDE DEF Full, Face
  <2> QED  BY <2>1 DEF Bodiless
<1>5. ~Bodiless(Over)
  <2>1. stub # <<>>  OBVIOUS
  <2> HIDE DEF stub, name
  <2>2. DOMAIN over = Fields  BY DeclFields
  <2> HIDE DEF over
  <2>3. Over.call = stub  BY <2>2, BodyFields
  <2> HIDE DEF Over
  <2> QED  BY <2>1, <2>3 DEF Bodiless
<1>6. /\ Bodiless(Con("declared")) /\ Signed(Con("declared"), Con("defined"))
      /\ Bodiless(New("declared")) /\ Signed(New("declared"), New("defined"))
      /\ Bodiless(Srv("declared")) /\ Signed(Srv("declared"), Srv("defined"))
      /\ Bodiless(Dtor("virtual")) /\ Signed(Dtor("virtual"), Dtor("defined"))
  <2> HIDE DEF new, args, pointer, dtor
  <2>1. "declared" \in {"virtual", "declared"} /\ "virtual" \in {"virtual", "declared"}  OBVIOUS
  <2> QED  BY Zenon, <1>3, <2>1
<1> HIDE DEF H, Full, Face, Over, New, Con, Srv, Dtor
<1>7. /\ \A d \in H : Bodiless(d) => \E b \in SourceFixed : Signed(d, b)
      /\ \A b \in SourceFixed : \E d \in H : Bodiless(d) /\ Signed(d, b)
  BY Zenon, <1>1, <1>2, <1>4, <1>5, <1>6
<1> QED  BY Zenon, <1>7 DEF H

\* What a turn of the header declares and leaves to the source, the same turn of the source defines.
LEMMA TurnPairs ==
  ASSUME IInv, NEW s \in DOMAIN file.services, NEW k \in DOMAIN Methods(s)
  PROVE  /\ \A l \in {"Methods", "RawMethods", "Callback"} : \A d \in DueAt(l, s, k) :
              Bodiless(d) => \E b \in DueAt("SourceClient", s, k) : Signed(d, b)
         /\ \A b \in DueAt("SourceClient", s, k) : \E l \in {"Methods", "RawMethods", "Callback"} :
              \E d \in DueAt(l, s, k) : Bodiless(d) /\ Signed(d, b)
         /\ \E d, b : /\ DueAt("Sync", s, k) = {d} /\ DueAt("SourceServer", s, k) = {b}
                      /\ Bodiless(d) /\ Signed(d, b) /\ b.how = "defined"
<1> DEFINE m == Methods(s)[k]
           v == Fresh(s, k)
           P == PublicForm(Stub, m, v, Cq, SyncRet(m, v), AsyncRet(m, v), "override")
           R == PrivateForm(Stub, m, v, Cq, SyncRet(m, v), AsyncRet(m, v), "override")
           C == Callbacks(StubAsync, m, v, "override")
           S == SourceForm(m, v, Cq)
<1>0. Kind(m) /\ Cq \in BOOLEAN /\ Sync \in BOOLEAN  BY MethodKinds
<1>1. DueAt("Methods", s, k) = P /\ DueAt("RawMethods", s, k) = R /\ DueAt("Callback", s, k) = C
      /\ DueAt("SourceClient", s, k) = S
  BY Zenon, ClientForms
<1>2. /\ \A d \in P : d.how = "override" => \E b \in S : Signed(d, b)
      /\ \A d \in R \cup C : \E b \in S : Signed(d, b)
      /\ \A b \in S : \E d \in P \cup R \cup C : d.how = "override" /\ d.call = <<>> /\ Signed(d, b)
  <2> HIDE DEF m, v
  <2> QED  BY Zenon, <1>0, StubPairs
<1>3. \A d \in P : d.how \in {"override", "inline"}  BY <1>1, ClientClasses
<1>4. \E d, b : /\ DueAt("Sync", s, k) = {d} /\ DueAt("SourceServer", s, k) = {b}
                /\ Bodiless(d) /\ Signed(d, b) /\ b.how = "defined"
  <2> DEFINE a == Decl(Service, v.Method, ServerParams(m, v), <<"Status">>, IF Sync THEN "virtual" ELSE "declared")
             b == Body(Decl(Service, v.Method, ServerParams(m, v), <<"Status">>, "defined"),
                       IF Sync THEN <<>> ELSE <<"abort">>, <<>>)
  <2>1. /\ DueAt("Sync", s, k) = {a} /\ DueAt("SourceServer", s, k) = {b}
        /\ a.of = Service /\ a.name = v.Method /\ a.params = ServerParams(m, v) /\ a.ret = <<"Status">>
        /\ a.how = (IF Sync THEN "virtual" ELSE "declared") /\ a.call = <<>>
        /\ b.of = Service /\ b.name = v.Method /\ b.params = ServerParams(m, v) /\ b.ret = <<"Status">>
        /\ b.how = "defined"
    BY Zenon, ServiceClasses
  <2> HIDE DEF a, b, m, v
  <2>2. Bodiless(a) /\ Signed(a, b)  BY <1>0, <2>1 DEF Bodiless, Signed
  <2> QED  BY Zenon, <2>1, <2>2
<1> HIDE DEF P, R, C, S, m, v
<1>5. \A d \in P : Bodiless(d) => \E b \in S : Signed(d, b)  BY <1>2, <1>3 DEF Bodiless
<1>6. \A b \in S : \E d \in P \cup R \cup C : Bodiless(d) /\ Signed(d, b)  BY <1>2 DEF Bodiless
<1>7. \A l \in {"Methods", "RawMethods", "Callback"} : \A d \in DueAt(l, s, k) :
        Bodiless(d) => \E b \in DueAt("SourceClient", s, k) : Signed(d, b)
  BY Zenon, <1>1, <1>2, <1>5
<1>8. \A b \in DueAt("SourceClient", s, k) : \E l \in {"Methods", "RawMethods", "Callback"} :
        \E d \in DueAt(l, s, k) : Bodiless(d) /\ Signed(d, b)
  BY Zenon, <1>1, <1>6
<1> QED  BY Zenon, <1>4, <1>7, <1>8

\* What is signed like a declaration is signed like one printed from it.
LEMMA SignedSame ==
  ASSUME NEW d, NEW e, NEW b, NEW c, SameDecl(d, e), SameDecl(b, c), Signed(e, c)
  PROVE  Signed(d, b)
BY DEF SameDecl, Signed

\* Every function the header declares without a body is defined in the source.
LEMMA HeaderAnswered ==
  ASSUME IInv, TurnsOK, Generated, NEW d \in decls, d.unit = "header", Bodiless(d)
  PROVE  \E b \in decls : /\ b.unit = "source" /\ b.service = d.service /\ b.how = "defined"
                          /\ b.ns = Namespace /\ Signed(d, b)
<1> DEFINE s == d.service
           k == d.method
           Answer(b) == b.unit = "source" /\ b.service = s /\ b.how = "defined" /\ b.ns = Namespace /\ Signed(d, b)
<1>1. s \in DOMAIN file.services  BY Origin
<1>2. "source" \in written /\ Scope("source") = Namespace  BY WrittenUnits DEF Scope
<1>3. ASSUME NEW e, SameDecl(d, e)  PROVE Bodiless(e)  BY <1>3 DEF SameDecl, Bodiless
<1>4. ASSUME NEW e \in DueFirst("header", s), SameDecl(d, e)
      PROVE  \E b \in decls : Answer(b)
  <2>1. PICK c \in SourceFixed : Signed(e, c)  BY Zenon, <1>3, <1>4, FixedPairs
  <2>2. c \in DueFirst("source", s) /\ c.how = "defined"
    <3>1. DueFirst("source", s) = SourceFixed  BY DEF DueFirst
    <3>2. PICK of, name, params, ret : c = Decl(of, name, params, ret, "defined")
      BY Zenon, <2>1 DEF SourceFixed
    <3>3. c.how = "defined"  BY <3>2, DeclFields
    <3> QED  BY <2>1, <3>1, <3>3
  <2>3. PICK b \in decls : SameDecl(b, c) /\ b.unit = "source" /\ b.service = s /\ b.ns = Scope("source")
    BY <1>1, <1>2, <2>2, AllFirst
  <2>4. Signed(d, b)  BY <1>4, <2>1, <2>3, SignedSame
  <2>5. b.how = "defined"  BY <2>2, <2>3 DEF SameDecl
  <2> QED  BY <1>2, <2>3, <2>4, <2>5
<1>5. ASSUME k \in DOMAIN Methods(s), NEW l \in {"SourceClient", "SourceServer"}, NEW c \in DueAt(l, s, k),
             c.how = "defined", NEW e, SameDecl(d, e), Signed(e, c)
      PROVE  \E b \in decls : Answer(b)
  <2> HIDE DEF s, k
  <2>1. l \in LoopSet("source") /\ Allowed(l)  BY LoopSets, AllowedLoops
  <2>2. PICK b \in decls : SameDecl(b, c) /\ b.unit = "source" /\ b.service = s /\ b.ns = Scope("source")
    BY <1>1, <1>2, <1>5, <2>1, AllDue
  <2>3. Signed(d, b)  BY <1>5, <2>2, SignedSame
  <2>4. b.how = "defined"  BY <1>5, <2>2 DEF SameDecl
  <2> QED  BY <1>2, <2>2, <2>3, <2>4
<1>6. ASSUME k \in DOMAIN Methods(s), NEW l \in AllLoops, Allowed(l), l \in LoopSet("header"),
             NEW e \in DueAt(l, s, k), SameDecl(d, e)
      PROVE  \E b \in decls : Answer(b)
  <2> HIDE DEF s, k, Answer
  <2>0. Bodiless(e)  BY <1>3, <1>6
  <2>1. CASE l \in {"Methods", "RawMethods", "Callback"}
    <3>1. PICK c \in DueAt("SourceClient", s, k) : Signed(e, c)
      BY <1>1, <1>6, <2>0, <2>1, TurnPairs
    <3>2. c.how = "defined"  BY <1>1, <1>6, ClientClasses
    <3> QED  BY <1>5, <1>6, <3>1, <3>2
  <2>2. CASE l = "Sync"
    <3>1. PICK x, c : DueAt("Sync", s, k) = {x} /\ DueAt("SourceServer", s, k) = {c} /\ Signed(x, c)
                      /\ c.how = "defined"
      BY <1>1, <1>6, TurnPairs
    <3>2. e = x /\ c \in DueAt("SourceServer", s, k)  BY <1>6, <2>2, <3>1
    <3> QED  BY <1>5, <1>6, <3>1, <3>2
  <2>3. l \notin {"Interfaces", "CallbackInterfaces", "RawInterfaces", "Data", "Inits", "SourceClient", "MockMethods"}
    BY <1>1, <1>6, <2>0, ClientClasses DEF Bodiless
  <2>4. l # "SourceServer"  BY <1>1, <1>6, <2>0, ServiceClasses DEF Bodiless
  <2>5. l \notin MixinLoops
    <3>1. ASSUME l \in MixinLoops  PROVE FALSE
      <4>0. PICK of, m, v, y : Mixed(e, of, m, v, y)  BY Zenon, <1>1, <1>6, <3>1, MixinDue
      <4>1. e.how \in {"inline", "override", "default", "pure"} /\ (e.how = "override" => e.call = <<"abort">>)
        BY <4>0 DEF Mixed
      <4>2. <<"abort">> # <<>>  OBVIOUS
      <4> QED  BY <2>0, <4>1, <4>2 DEF Bodiless
    <3> QED  BY <3>1
  <2>6. l \notin SilentLoops  BY <1>6, NothingDue
  <2> QED  BY <2>1, <2>2, <2>3, <2>4, <2>5, <2>6, LoopCases
<1>7. \E b \in decls : Answer(b)
  <2>1. \/ \E e \in DueFirst("header", s) : SameDecl(d, e)
        \/ /\ k \in DOMAIN Methods(s)
           /\ \E l \in LoopSet("header") \cap AllLoops : Allowed(l) /\ \E e \in DueAt(l, s, k) : SameDecl(d, e)
    BY Zenon, Origin
  <2> HIDE DEF s, k, Answer
  <2> QED  BY <1>4, <1>6, <2>1
<1> QED  BY Zenon, <1>7

\* Every function the source defines is declared in the header.
LEMMA SourceAnswered ==
  ASSUME IInv, TurnsOK, Generated, NEW b \in decls, b.unit = "source", b.how = "defined"
  PROVE  \E d \in decls : d.unit = "header" /\ d.service = b.service /\ Bodiless(d) /\ Signed(d, b)
<1> DEFINE s == b.service
           k == b.method
           Answer(d) == d.unit = "header" /\ d.service = s /\ Bodiless(d) /\ Signed(d, b)
<1>1. s \in DOMAIN file.services  BY Origin
<1>2. "header" \in written  BY WrittenUnits
<1>3. ASSUME NEW d \in decls, NEW e, SameDecl(d, e), Bodiless(e)  PROVE Bodiless(d)
  BY <1>3 DEF SameDecl, Bodiless
<1>4. ASSUME NEW c \in DueFirst("source", s), SameDecl(b, c)
      PROVE  \E d \in decls : Answer(d)
  <2>1. c \in SourceFixed  BY <1>4 DEF DueFirst
  <2>2. PICK e \in DueFirst("header", s) : Bodiless(e) /\ Signed(e, c)  BY Zenon, <2>1, FixedPairs
  <2>3. PICK d \in decls : SameDecl(d, e) /\ d.unit = "header" /\ d.service = s
    BY <1>1, <1>2, <2>2, AllFirst
  <2>4. Signed(d, b)  BY <1>4, <2>2, <2>3, SignedSame
  <2> QED  BY <1>3, <2>2, <2>3, <2>4
<1>5. ASSUME k \in DOMAIN Methods(s), NEW l \in {"Methods", "RawMethods", "Callback", "Sync"}, NEW e \in DueAt(l, s, k),
             Bodiless(e), NEW c, SameDecl(b, c), Signed(e, c)
      PROVE  \E d \in decls : Answer(d)
  <2> HIDE DEF s, k
  <2>1. l \in LoopSet("header") /\ Allowed(l)  BY LoopSets, AllowedLoops
  <2>2. PICK d \in decls : SameDecl(d, e) /\ d.unit = "header" /\ d.service = s
    BY <1>1, <1>2, <1>5, <2>1, AllDue
  <2>3. Signed(d, b)  BY <1>5, <2>2, SignedSame
  <2> QED  BY <1>3, <1>5, <2>2, <2>3
<1>6. ASSUME k \in DOMAIN Methods(s), NEW l \in LoopSet("source"), NEW c \in DueAt(l, s, k), SameDecl(b, c)
      PROVE  \E d \in decls : Answer(d)
  <2> HIDE DEF s, k, Answer
  <2>0. c.how = "defined"  BY <1>6 DEF SameDecl
  <2>1. CASE l = "SourceClient"
    <3>1. PICK q \in {"Methods", "RawMethods", "Callback"} : \E e \in DueAt(q, s, k) : Bodiless(e) /\ Signed(e, c)
      BY <1>1, <1>6, <2>1, TurnPairs
    <3> QED  BY <1>5, <1>6, <3>1
  <2>2. CASE l = "SourceServer"
    <3>1. PICK e, x : DueAt("Sync", s, k) = {e} /\ DueAt("SourceServer", s, k) = {x} /\ Bodiless(e) /\ Signed(e, x)
      BY <1>1, <1>6, TurnPairs
    <3>2. c = x /\ e \in DueAt("Sync", s, k)  BY <1>6, <2>2, <3>1
    <3> QED  BY <1>5, <1>6, <3>1, <3>2
  <2>3. l # "Inits"  BY <1>1, <1>6, <2>0, ClientClasses
  <2>4. l \notin {"Names", "Adds"}  BY <1>6, NothingDue DEF SilentLoops
  <2> QED  BY <1>6, <2>1, <2>2, <2>3, <2>4, SourceLoopSet
<1>7. \E d \in decls : Answer(d)
  <2>1. \/ \E e \in DueFirst("source", s) : SameDecl(b, e)
        \/ /\ k \in DOMAIN Methods(s)
           /\ \E l \in LoopSet("source") \cap AllLoops : Allowed(l) /\ \E e \in DueAt(l, s, k) : SameDecl(b, e)
    BY Zenon, Origin
  <2> HIDE DEF s, k, Answer
  <2> QED  BY <1>4, <1>6, <2>1
<1> QED  BY Zenon, <1>7

\* The types in front, and the queue, by which functions are told apart.
LEMMA TellingTypes ==
  ASSUME NEW v
  PROVE  /\ Tail(Context) = <<"ClientContext*">> /\ Tail(Queue) = <<"CompletionQueue*">>
         /\ Tail(<<"channel", "ChannelInterface">>) = <<"ChannelInterface">>
         /\ Tail(Queue) # Tail(Context) /\ Tail(Queue) # Tail(RequestRef(v)) /\ Tail(Queue) # Tail(ResponsePtr(v))
         /\ Tail(Context) # Tail(<<"channel", "ChannelInterface">>)
<1> DEFINE x == v.Request
           y == v.Response
<1>1. Tail(Context) = <<"ClientContext*">> /\ Tail(Queue) = <<"CompletionQueue*">>
      /\ Tail(<<"channel", "ChannelInterface">>) = <<"ChannelInterface">>
  BY DEF Context, Queue
<1>2. Len(Tail(RequestRef(v))) = 2 /\ Len(Tail(ResponsePtr(v))) = 2
  <2> HIDE DEF x, y
  <2>1. Len(Tail(<<"request", "const&", x>>)) = 2 /\ Len(Tail(<<"response", "*", y>>)) = 2  OBVIOUS
  <2> QED  BY Zenon, <2>1 DEF RequestRef, ResponsePtr, x, y
<1> DEFINE c == <<"ClientContext*">>
           q == <<"CompletionQueue*">>
           i == <<"ChannelInterface">>
<1>3. Len(q) = 1 /\ q # c /\ c # i  OBVIOUS
<1> HIDE DEF c, q, i
<1> DEFINE r == Tail(RequestRef(v))
           p == Tail(ResponsePtr(v))
<1>4. q # r /\ q # p
  <2>1. Len(r) = 2 /\ Len(p) = 2  BY Zenon, <1>2
  <2> HIDE DEF r, p
  <2> QED  BY <1>3, <2>1
<1> QED  BY Zenon, <1>1, <1>3, <1>4 DEF c, q, i

\* A list of parameters begins with the client's context.
Called(params) == 1 \in DOMAIN params /\ Tail(params[1]) = Tail(Context)

\* A list of parameters has the completion queue in it.
Queued(params) == \E n \in DOMAIN params : Tail(params[n]) = Tail(Queue)

\* Lists that begin with the context stay so when more is put last.
LEMMA CalledLonger ==
  ASSUME NEW S, NEW f \in Seq(S), NEW g \in Seq(S), Called(f)
  PROVE  Called(f \o g) /\ (Queued(f) => Queued(f \o g))
<1> DEFINE h == f \o g
<1>1. DOMAIN f \subseteq DOMAIN h /\ \A n \in DOMAIN f : h[n] = f[n]  OBVIOUS
<1> HIDE DEF h
<1>2. Called(h) /\ (Queued(f) => Queued(h))  BY <1>1 DEF Called, Queued
<1> QED  BY Zenon, <1>2 DEF h

\* A synchronous function is called with a context and no queue.
LEMMA SyncCalled ==
  ASSUME NEW m, NEW v
  PROVE  Called(SyncParams(m, v)) /\ ~Queued(SyncParams(m, v))
<1> DEFINE a == Context
           b == RequestRef(v)
           c == ResponsePtr(v)
           q == Tail(Queue)
           f1 == <<a, b, c>>
           f2 == <<a, c>>
           f3 == <<a, b>>
           f4 == <<a>>
<1>1. SyncParams(m, v) \in {f1, f2, f3, f4}  BY Zenon DEF SyncParams
<1>2. Tail(a) # q /\ Tail(b) # q /\ Tail(c) # q  BY Zenon, TellingTypes
<1> HIDE DEF a, b, c, q
<1>3. /\ 1 \in DOMAIN f1 /\ f1[1] = a /\ \A n \in DOMAIN f1 : f1[n] \in {a, b, c}
      /\ 1 \in DOMAIN f2 /\ f2[1] = a /\ \A n \in DOMAIN f2 : f2[n] \in {a, b, c}
      /\ 1 \in DOMAIN f3 /\ f3[1] = a /\ \A n \in DOMAIN f3 : f3[n] \in {a, b, c}
      /\ 1 \in DOMAIN f4 /\ f4[1] = a /\ \A n \in DOMAIN f4 : f4[n] \in {a, b, c}
  OBVIOUS
<1> HIDE DEF f1, f2, f3, f4
<1>4. ASSUME NEW f \in {f1, f2, f3, f4}  PROVE Called(f) /\ ~Queued(f)
  <2>1. 1 \in DOMAIN f /\ f[1] = a /\ \A n \in DOMAIN f : f[n] \in {a, b, c}  BY Zenon, <1>3, <1>4
  <2>2. Called(f)  BY Zenon, <2>1 DEF Called, a
  <2>3. \A n \in DOMAIN f : Tail(f[n]) # q  BY <1>2, <2>1
  <2>4. ~Queued(f)  BY Zenon, <2>3 DEF Queued, q
  <2> QED  BY <2>2, <2>4
<1> QED  BY Zenon, <1>1, <1>4

\* An asynchronous one with a context and a queue.
LEMMA AsyncCalled ==
  ASSUME NEW m, NEW v, NEW p \in AsyncPrefixes
  PROVE  Called(AsyncParams(m, v, p)) /\ Queued(AsyncParams(m, v, p))
<1> DEFINE a == Context
           b == RequestRef(v)
           c == ResponsePtr(v)
           q == Queue
           f1 == <<a, b, q>>
           f2 == <<a, c, q>>
           f3 == <<a, q>>
           t == Tag
<1>1. AsyncParams(m, v, p) = f1 \/ \E f \in {f1, f2, f3} : AsyncParams(m, v, p) = f \o p.params
  BY Zenon DEF AsyncParams
<1>2. p.params \in Seq({t})  BY Prefixes
<1> HIDE DEF a, b, c, q, t
<1>3. /\ 1 \in DOMAIN f1 /\ f1[1] = a /\ 3 \in DOMAIN f1 /\ f1[3] = q
      /\ 1 \in DOMAIN f2 /\ f2[1] = a /\ 3 \in DOMAIN f2 /\ f2[3] = q
      /\ 1 \in DOMAIN f3 /\ f3[1] = a /\ 2 \in DOMAIN f3 /\ f3[2] = q
  OBVIOUS
<1> DEFINE S == {a, b, c, q, t}
<1>4. f1 \in Seq(S) /\ f2 \in Seq(S) /\ f3 \in Seq(S)  OBVIOUS
<1>5. p.params \in Seq(S)  BY <1>2
<1> HIDE DEF f1, f2, f3, S
<1>6. ASSUME NEW f \in {f1, f2, f3}  PROVE f \in Seq(S) /\ Called(f) /\ Queued(f)
  <2>1. /\ f \in Seq(S) /\ 1 \in DOMAIN f /\ f[1] = a /\ \E n \in DOMAIN f : f[n] = q
    BY Zenon, <1>3, <1>4, <1>6
  <2>2. Called(f)  BY Zenon, <2>1 DEF Called, a
  <2>3. Queued(f)  BY Zenon, <2>1 DEF Queued, q
  <2> QED  BY <2>1, <2>2, <2>3
<1>7. ASSUME NEW f \in {f1, f2, f3}  PROVE Called(f \o p.params) /\ Queued(f \o p.params)
  BY Zenon, <1>5, <1>6, <1>7, CalledLonger
<1> QED  BY Zenon, <1>1, <1>6, <1>7

\* A callback with a context.
LEMMA CallbackCalled ==
  ASSUME NEW m, NEW v, NEW c \in CallbackBodies(m, v)
  PROVE  Called(<<Context>> \o c.params)
<1> DEFINE a == Context
           f == <<a>>
           g == c.params
<1>1. \E S : g \in Seq(S)
  <2> DEFINE b == RequestPtr(v)
             r == ResponsePtr(v)
             h1 == <<"f", "function">>
             h2 == <<"reactor", "ClientUnaryReactor">>
             h3 == <<"reactor", "ClientWriteReactor", v.Request>>
             h4 == <<"reactor", "ClientReadReactor", v.Response>>
             h5 == <<"reactor", "ClientBidiReactor", v.Request, v.Response>>
             g1 == <<b, r, h1>>
             g2 == <<b, r, h2>>
             g3 == <<r, h3>>
             g4 == <<b, h4>>
             g5 == <<h5>>
             S == {b, r, h1, h2, h3, h4, h5}
  <2>1. g \in {g1, g2, g3, g4, g5}
    <3>1. \E w : c \in {[params |-> g1, with |-> w], [params |-> g2, with |-> w], [params |-> g3, with |-> w],
                        [params |-> g4, with |-> w], [params |-> g5, with |-> w]}
      BY Zenon DEF CallbackBodies
    <3> HIDE DEF g1, g2, g3, g4, g5
    <3> QED  BY <3>1
  <2> HIDE DEF b, r, h1, h2, h3, h4, h5
  <2>2. g1 \in Seq(S) /\ g2 \in Seq(S) /\ g3 \in Seq(S) /\ g4 \in Seq(S) /\ g5 \in Seq(S)  OBVIOUS
  <2> HIDE DEF g1, g2, g3, g4, g5, S, g
  <2> QED  BY Zenon, <2>1, <2>2
<1>2. PICK S : g \in Seq(S)  BY <1>1
<1> HIDE DEF a, g
<1> DEFINE T == S \cup {a}
<1>3. f \in Seq(T) /\ g \in Seq(T) /\ 1 \in DOMAIN f /\ f[1] = a  BY <1>2
<1> HIDE DEF f, T
<1>4. Called(f)  BY Zenon, <1>3 DEF Called, a
<1>5. Called(f \o g)  BY Zenon, <1>3, <1>4, CalledLonger
<1> QED  BY Zenon, <1>5 DEF f, g, a

\* Functions of the same types are called alike.
LEMMA CalledAlike ==
  ASSUME NEW f, NEW g, Types(f) = Types(g)
  PROVE  /\ DOMAIN f = DOMAIN g /\ (Called(f) <=> Called(g)) /\ (Queued(f) <=> Queued(g))
         /\ \A n \in DOMAIN f : Tail(f[n]) = Tail(g[n])
<1>1. DOMAIN f = DOMAIN g /\ \A n \in DOMAIN f : Tail(f[n]) = Tail(g[n])
  <2>1. DOMAIN Types(f) = DOMAIN f /\ DOMAIN Types(g) = DOMAIN g
        /\ (\A n \in DOMAIN f : Types(f)[n] = Tail(f[n])) /\ \A n \in DOMAIN g : Types(g)[n] = Tail(g[n])
    BY TypesOf
  <2> QED  BY Zenon, <2>1
<1>2. (Called(f) <=> Called(g)) /\ (Queued(f) <=> Queued(g))  BY Zenon, <1>1 DEF Called, Queued
<1> QED  BY <1>1, <1>2

\* What is not called so: the functions a service has before its loops, and the server's.
LEMMA NotCalled ==
  /\ ~Called(ChannelAndOptions) /\ ~Called(<<>>)
  /\ \A m, v : 1 \in DOMAIN ServerParams(m, v)
<1>1. ~Called(ChannelAndOptions)
  <2> DEFINE x == <<"channel", "ChannelInterface">>
             y == <<"options", "StubOptions">>
             f == <<x, y>>
  <2>1. Tail(Context) # Tail(x)  BY Zenon, TellingTypes
  <2> HIDE DEF x, y
  <2>2. f[1] = x  OBVIOUS
  <2> HIDE DEF f
  <2>3. ~Called(f)  BY Zenon, <2>1, <2>2 DEF Called
  <2> QED  BY Zenon, <2>3 DEF f, x, y, ChannelAndOptions
<1>2. ~Called(<<>>)
  <2>1. 1 \notin DOMAIN <<>>  OBVIOUS
  <2> QED  BY Zenon, <2>1 DEF Called
<1>3. ASSUME NEW m, NEW v  PROVE 1 \in DOMAIN ServerParams(m, v)
  <2> DEFINE a == ServerContext
             b == RequestPtr(v)
             r == ResponsePtr(v)
             i == Reader(v)
             o == Writer(v)
             t == Stream(v)
             f1 == <<b, r>>
             f2 == <<i, r>>
             f3 == <<b, o>>
             f4 == <<t>>
             f == <<a>>
             S == {a, b, r, i, o, t}
  <2>1. \E g \in {f1, f2, f3, f4} : ServerParams(m, v) = f \o g  BY Zenon DEF ServerParams
  <2> HIDE DEF a, b, r, i, o, t
  <2>2. f \in Seq(S) /\ Len(f) = 1 /\ f1 \in Seq(S) /\ f2 \in Seq(S) /\ f3 \in Seq(S) /\ f4 \in Seq(S)  OBVIOUS
  <2> HIDE DEF f, f1, f2, f3, f4, S
  <2>3. PICK g \in Seq(S) : ServerParams(m, v) = f \o g  BY Zenon, <2>1, <2>2
  <2> DEFINE h == f \o g
  <2>4. h \in Seq(S) /\ Len(h) = Len(f) + Len(g)  BY Zenon, <2>2, Joined
  <2>5. Len(g) \in Nat  OBVIOUS
  <2> HIDE DEF h
  <2>6. 1 \in DOMAIN h  BY <2>2, <2>4, <2>5
  <2> QED  BY Zenon, <2>3, <2>6 DEF h
<1> QED  BY <1>1, <1>2, <1>3

\* A declaration of the source is e, printed at its turn.
Printed(b, e) ==
  b = [e EXCEPT !.unit = "source", !.service = b.service, !.method = b.method, !.ns = Namespace]

\* The definition of what a service has before its loops.
IsFixed(b) == b.method = 0 /\ \E e \in SourceFixed : Printed(b, e) /\ SameDecl(b, e)

\* The definition of a synchronous function of the stub.
IsSync(b) ==
  LET m == Methods(b.service)[b.method]
      v == Fresh(b.service, b.method)
  IN Printed(b, SyncDefined(m, v)) /\ SyncShape(b, m, v)

\* The definition of a callback function.
IsCallback(b, c) ==
  LET m == Methods(b.service)[b.method]
      v == Fresh(b.service, b.method)
  IN /\ c \in CallbackBodies(m, v) /\ Printed(b, CallbackDefined(v, c))
     /\ b.of = StubAsync /\ b.name = v.Method /\ b.params = <<Context>> \o c.params

\* The definition of an asynchronous function.
IsAsync(b, p) ==
  LET m == Methods(b.service)[b.method]
      v == Fresh(b.service, b.method)
  IN p \in AsyncPrefixes /\ Printed(b, AsyncDefined(m, v, p)) /\ AsyncShape(b, m, v, p)

\* The default implementation of a method in Service.
IsServer(b) ==
  LET m == Methods(b.service)[b.method]
      v == Fresh(b.service, b.method)
  IN /\ \E e : DueAt("SourceServer", b.service, b.method) = {e} /\ Printed(b, e)
     /\ b.of = Service /\ b.name = v.Method /\ b.params = ServerParams(m, v)

\* What is printed from one definition at one turn is one declaration.
LEMMA PrintedOnce ==
  ASSUME NEW b, NEW c, NEW e, NEW f, e = f, Printed(b, e), Printed(c, f), b.service = c.service,
    b.method = c.method
  PROVE  b = c
BY Zenon DEF Printed

\* Shapes read of a declaration what it shares with the one it is printed from.
LEMMA ShapesSame ==
  ASSUME NEW b, NEW e, SameDecl(b, e), NEW m, NEW v
  PROVE  /\ SyncShape(e, m, v) => SyncShape(b, m, v)
         /\ \A p : AsyncShape(e, m, v, p) => AsyncShape(b, m, v, p)
BY DEF SameDecl, SyncShape, AsyncShape

\* What the source defines is of five kinds.
LEMMA SourceKinds ==
  ASSUME IInv, TurnsOK, NEW b \in decls, b.unit = "source", b.how = "defined"
  PROVE  /\ b.service \in DOMAIN file.services
         /\ \/ IsFixed(b)
            \/ /\ b.method \in DOMAIN Methods(b.service)
               /\ IsSync(b) \/ (\E c : IsCallback(b, c)) \/ (\E p : IsAsync(b, p)) \/ IsServer(b)
<1> DEFINE s == b.service
           k == b.method
           m == Methods(s)[k]
           v == Fresh(s, k)
<1>0. s \in DOMAIN file.services /\ "source" \in Units /\ Scope("source") = Namespace
  BY Origin DEF Scope, Units
<1>1. ASSUME NEW e, DOMAIN e = Fields,
             b = [e EXCEPT !.unit = "source", !.service = s, !.method = k, !.ns = Scope("source")]
      PROVE  Printed(b, e) /\ SameDecl(b, e)
  <2>1. Printed(b, e)  BY Zenon, <1>0, <1>1 DEF Printed
  <2>2. SameDecl(b, e)  BY <1>1 DEF SameDecl, Fields
  <2> QED  BY <2>1, <2>2
<1>2. CASE b \in Placed(DueFirst("source", s), "source", s, 0)
  <2>1. PICK e \in DueFirst("source", s) :
          b = [e EXCEPT !.unit = "source", !.service = s, !.method = 0, !.ns = Scope("source")]
    BY <1>2 DEF Placed
  <2>2. DOMAIN e = Fields  BY <1>0, FirstFormed
  <2>3. k = 0  BY <2>1, <2>2 DEF Fields
  <2>4. Printed(b, e) /\ SameDecl(b, e)  BY Zenon, <1>1, <2>1, <2>2, <2>3
  <2>5. e \in SourceFixed  BY DEF DueFirst
  <2> QED  BY <1>0, <2>3, <2>4, <2>5 DEF IsFixed
<1>3. ASSUME k \in DOMAIN Methods(s), NEW n \in DOMAIN LoopsOf("source"), Allowed(LoopsOf("source")[n]),
             b \in Placed(DueAt(LoopsOf("source")[n], s, k), "source", s, k)
      PROVE  IsSync(b) \/ (\E c : IsCallback(b, c)) \/ (\E p : IsAsync(b, p)) \/ IsServer(b)
  <2> DEFINE l == LoopsOf("source")[n]
  <2>1. l \in LoopSet("source") /\ l \in AllLoops  BY <1>0, LoopsNamed DEF LoopSet
  <2>2. PICK e \in DueAt(l, s, k) :
          b = [e EXCEPT !.unit = "source", !.service = s, !.method = k, !.ns = Scope("source")]
    BY <1>3 DEF Placed
  <2>3. DOMAIN e = Fields  BY <1>0, <1>3, <2>1, DueFormed
  <2>4. Printed(b, e) /\ SameDecl(b, e)  BY Zenon, <1>1, <2>2, <2>3
  <2> HIDE DEF l
  <2>5. CASE l = "SourceClient"
    <3>1. e \in SourceForm(m, v, Cq)  BY Zenon, <1>0, <1>3, <2>5, ClientForms
    <3>2. \/ e = SyncDefined(m, v) \/ \E c \in CallbackBodies(m, v) : e = CallbackDefined(v, c)
          \/ \E p \in AsyncPrefixes : e = AsyncDefined(m, v, p)
      BY Zenon, <3>1 DEF SourceForm, When
    <3>3. CASE e = SyncDefined(m, v)
      <4>1. SyncShape(b, m, v)  BY Zenon, <2>4, <3>3, ShapesSame, SyncDefinedShape
      <4> QED  BY Zenon, <2>4, <3>3, <4>1 DEF IsSync
    <3>4. ASSUME NEW c \in CallbackBodies(m, v), e = CallbackDefined(v, c)  PROVE IsCallback(b, c)
      <4> DEFINE name == v.Method
                 params == <<Context>> \o c.params
                 ret == <<"void">>
                 call == RpcMethod(v)
                 with == c.with
      <4>1. e = Defined(StubAsync, name, params, ret, call, with)
        BY Zenon, <3>4 DEF CallbackDefined
      <4> HIDE DEF name, params, ret, call, with
      <4>2. e.of = StubAsync /\ e.name = name /\ e.params = params  BY <4>1, DefinedFields
      <4>3. b.of = StubAsync /\ b.name = name /\ b.params = params  BY <2>4, <4>2 DEF SameDecl
      <4> QED  BY Zenon, <2>4, <3>4, <4>3 DEF IsCallback, name, params
    <3>5. ASSUME NEW p \in AsyncPrefixes, e = AsyncDefined(m, v, p)  PROVE IsAsync(b, p)
      <4>1. AsyncShape(b, m, v, p)  BY Zenon, <2>4, <3>5, ShapesSame, AsyncDefinedShape
      <4> QED  BY Zenon, <2>4, <3>5, <4>1 DEF IsAsync
    <3> QED  BY Zenon, <3>2, <3>3, <3>4, <3>5
  <2>6. CASE l = "SourceServer"
    <3>1. \E c : /\ DueAt("SourceServer", s, k) = {c}
                 /\ c.of = Service /\ c.name = v.Method /\ c.params = ServerParams(m, v)
      <4> DEFINE c == Body(Decl(Service, v.Method, ServerParams(m, v), <<"Status">>, "defined"),
                           IF Sync THEN <<>> ELSE <<"abort">>, <<>>)
      <4>1. /\ DueAt("SourceServer", s, k) = {c}
            /\ c.of = Service /\ c.name = v.Method /\ c.params = ServerParams(m, v)
        BY Zenon, <1>0, <1>3, ServiceClasses
      <4> HIDE DEF c
      <4> QED  BY Zenon, <4>1
    <3>2. /\ DueAt("SourceServer", s, k) = {e}
          /\ e.of = Service /\ e.name = v.Method /\ e.params = ServerParams(m, v)
      BY Zenon, <2>2, <2>6, <3>1
    <3> HIDE DEF m, v
    <3>3. b.of = Service /\ b.name = v.Method /\ b.params = ServerParams(m, v)
      BY <2>4, <3>2 DEF SameDecl
    <3> QED  BY Zenon, <2>4, <3>2, <3>3 DEF IsServer, m, v
  <2>7. l # "Inits"
    <3>1. e.how = "defined"  BY <2>4 DEF SameDecl
    <3>2. \A x \in DueAt("Inits", s, k) : x.how = "init"
      <4> HIDE DEF m, v
      <4> QED  BY <1>0, <1>3, ClientClasses
    <3> QED  BY <3>1, <3>2
  <2>8. l \notin {"Names", "Adds"}  BY NothingDue DEF SilentLoops
  <2> QED  BY <2>1, <2>5, <2>6, <2>7, <2>8, SourceLoopSet
<1>4. \/ b \in Placed(DueFirst("source", s), "source", s, 0)
      \/ /\ k \in DOMAIN Methods(s)
         /\ \E n \in DOMAIN LoopsOf("source") :
              Allowed(LoopsOf("source")[n]) /\ b \in Placed(DueAt(LoopsOf("source")[n], s, k), "source", s, k)
  BY Zenon DEF TurnsOK, NothingElse
<1> QED  BY Zenon, <1>0, <1>2, <1>3, <1>4

\* A method is known by its name.
LEMMA MethodNamed ==
  ASSUME IInv, NEW s \in DOMAIN file.services, NEW k \in DOMAIN Methods(s),
    NEW n \in DOMAIN Methods(s),
         Methods(s)[k].name = Methods(s)[n].name
  PROVE  k = n
<1>1. file \in Files  BY DEF IInv, TypeOK
<1> QED  BY Zenon, <1>1, MethodNamesAssumption DEF Methods

\* What the source defines before its loops, by class, name and parameters.
LEMMA FixedKinds ==
  ASSUME NEW e \in SourceFixed
  PROVE  /\ e.of = Stub => e.params = ChannelAndOptions
         /\ e.of = Service => e.params = <<>>
         /\ e.of # StubAsync
         /\ \A f \in SourceFixed : e.of = f.of /\ e.name = f.name => e = f
<1> DEFINE new == <<"NewStub">>
           args == ChannelAndOptions
           pointer == <<"unique_ptr", "Stub">>
           dtor == <<"~">> \o Service
           a == Decl(<<>>, new, args, pointer, "defined")
           b == Decl(Stub, Stub, args, <<>>, "defined")
           c == Decl(Service, Service, <<>>, <<>>, "defined")
           d == Decl(Service, dtor, <<>>, <<>>, "defined")
<1>1. SourceFixed = {a, b, c, d}  BY DEF SourceFixed
<1>2. dtor # Service
  <2> DEFINE S == {"~", "Service"}
             t == <<"~">>
             w == <<"Service">>
             h == t \o w
  <2>1. t \in Seq(S) /\ w \in Seq(S) /\ Len(t) = 1 /\ Len(w) = 1  OBVIOUS
  <2> HIDE DEF S, t, w
  <2>2. Len(h) = Len(t) + Len(w)  BY Zenon, <2>1, Joined
  <2> HIDE DEF h
  <2>3. h # w  BY <2>1, <2>2
  <2> QED  BY Zenon, <2>3 DEF h, t, w, Service
<1>3. Stub # Service /\ Stub # <<>> /\ Service # <<>> /\ StubAsync # Stub /\ StubAsync # Service /\ StubAsync # <<>>
  <2>1. /\ Stub[1] = "Stub" /\ Service[1] = "Service" /\ StubAsync[1] = "async"
        /\ Len(Stub) = 1 /\ Len(Service) = 1 /\ Len(StubAsync) = 1
    BY DEF Stub, Service, StubAsync
  <2> QED  BY <2>1
<1> HIDE DEF new, args, pointer, dtor
<1>4. /\ a.of = <<>> /\ b.of = Stub /\ b.params = args
      /\ c.of = Service /\ c.name = Service /\ c.params = <<>>
      /\ d.of = Service /\ d.name = dtor /\ d.params = <<>>
  BY DeclFields
<1> HIDE DEF a, b, c, d
<1>5. /\ e.of = Stub => e.params = args
      /\ e.of = Service => e.params = <<>>
      /\ e.of # StubAsync
  BY <1>1, <1>3, <1>4
<1>6. \A f \in SourceFixed : e.of = f.of /\ e.name = f.name => e = f  BY <1>1, <1>2, <1>3, <1>4
<1> QED  BY Zenon, <1>5, <1>6 DEF args

\* The names of the source's functions for a method.
LEMMA NamesOfKinds ==
  ASSUME NEW d
  PROVE  /\ \A x : IsCallback(d, x) => d.name = Methods(d.service)[d.method].name
         /\ \A p : IsAsync(d, p) => p \in AsyncPrefixes /\ d.name = p.prefix \o Methods(d.service)[d.method].name \o Raw
         /\ IsServer(d) => d.name = Methods(d.service)[d.method].name
<1> DEFINE f == Fresh(d.service, d.method).Method
           g == Methods(d.service)[d.method].name
<1>1. f = g  BY FreshMethod
<1>2. ASSUME NEW x, IsCallback(d, x)  PROVE d.name = f  BY Zenon, <1>2 DEF IsCallback
<1>3. ASSUME NEW p, IsAsync(d, p)  PROVE p \in AsyncPrefixes /\ d.name = p.prefix \o f \o Raw
  BY Zenon, <1>3 DEF IsAsync, AsyncShape
<1>4. ASSUME IsServer(d)  PROVE d.name = f  BY Zenon, <1>4 DEF IsServer
<1> HIDE DEF f, g
<1>5. /\ \A x : IsCallback(d, x) => d.name = g
      /\ \A p : IsAsync(d, p) => p \in AsyncPrefixes /\ d.name = p.prefix \o g \o Raw
      /\ IsServer(d) => d.name = g
  BY Zenon, <1>1, <1>2, <1>3, <1>4
<1> QED  BY Zenon, <1>5 DEF g

\* Two asynchronous functions of one name are those of one method and one way to begin.
LEMMA AsyncNames ==
  ASSUME NEW p \in AsyncPrefixes, NEW q \in AsyncPrefixes, NEW n \in Seq(STRING),
    NEW o \in Seq(STRING),
         NamedAlike(p.prefix, n, q.prefix, o)
  PROVE  p = q /\ n = o
<1>1. /\ p.prefix \in {<<"Async">>, <<"PrepareAsync">>} /\ q.prefix \in {<<"Async">>, <<"PrepareAsync">>}
      /\ p.prefix = q.prefix => p = q
  <2>1. <<"Async">> # <<"PrepareAsync">>  OBVIOUS
  <2>2. PICK a, b : AsyncPrefixes = {a, b} /\ a.prefix = <<"Async">> /\ b.prefix = <<"PrepareAsync">>
    <3> DEFINE a == [prefix |-> <<"Async">>, params |-> <<Tag>>, args |-> <<"tag">>,
                     start |-> TRUE, create |-> <<"tag">>, extra |-> 1]
               b == [prefix |-> <<"PrepareAsync">>, params |-> <<>>, args |-> <<>>,
                     start |-> FALSE, create |-> <<"nullptr">>, extra |-> 0]
    <3>1. AsyncPrefixes = {a, b}  BY Zenon DEF AsyncPrefixes
    <3>2. a.prefix = <<"Async">> /\ b.prefix = <<"PrepareAsync">>  OBVIOUS
    <3> HIDE DEF a, b
    <3> QED  BY Zenon, <3>1, <3>2
  <2>3. p \in {a, b} /\ q \in {a, b}  BY Zenon, <2>2
  <2> QED  BY <2>1, <2>2, <2>3
<1>2. \E x, y : p.prefix = <<x>> /\ q.prefix = <<y>>
  <2>1. ASSUME NEW r \in {<<"Async">>, <<"PrepareAsync">>}  PROVE \E x : r = <<x>>  OBVIOUS
  <2> QED  BY Zenon, <1>1, <2>1
<1> PICK x, y : p.prefix = <<x>> /\ q.prefix = <<y>>  BY <1>2
<1>3. NamedAlike(<<x>>, n, <<y>>, o)  BY Zenon
<1>4. x = y /\ n = o  BY Zenon, <1>3, SameBegunRaw
<1> QED  BY Zenon, <1>1, <1>4

\* Two synchronous functions of one name are of one method, unless a method is called like
\* another followed by Raw.
LEMMA SyncNames ==
  ASSUME IInv, NEW s \in DOMAIN file.services, ~RawPair(s),
         NEW k \in DOMAIN Methods(s), NEW n \in DOMAIN Methods(s), NEW d, NEW e,
         SyncShape(d, Methods(s)[k], Fresh(s, k)), SyncShape(e, Methods(s)[n], Fresh(s, n)), d.name = e.name
  PROVE  k = n
<1> DEFINE f == Methods(s)[k].name
           g == Methods(s)[n].name
<1>1. f \in Seq(STRING) /\ g \in Seq(STRING)  BY Zenon, MethodKinds
<1>2. d.name \in {f, f \o Raw} /\ e.name \in {g, g \o Raw}  BY ZenonT(40), FreshMethod DEF SyncShape
<1>3. ASSUME f = g \/ f \o Raw = g \o Raw  PROVE k = n
  <2>1. f = g  BY Zenon, <1>1, <1>3, SameEnd
  <2> QED  BY Zenon, <2>1, MethodNamed
<1>4. f # g \o Raw /\ g # f \o Raw  BY Zenon DEF RawPair
<1> QED  BY Zenon, <1>2, <1>3, <1>4

\* The source defines no function twice, unless a method is called like another followed by Raw.
LEMMA DefinitionsApart ==
  ASSUME IInv, TurnsOK, NEW b \in decls, NEW c \in decls,
         b.unit = "source", b.how = "defined", c.unit = "source", c.how = "defined",
         b.service = c.service, ~RawPair(b.service),
         b.of = c.of, b.name = c.name, Types(b.params) = Types(c.params)
  PROVE  b = c
<1> DEFINE s == b.service
           k == b.method
           n == c.method
           K == DOMAIN Methods(s)
<1>1. /\ s \in DOMAIN file.services
      /\ \/ IsFixed(b)
         \/ k \in K /\ (IsSync(b) \/ (\E x : IsCallback(b, x)) \/ (\E p : IsAsync(b, p)) \/ IsServer(b))
      /\ \/ IsFixed(c)
         \/ n \in K /\ (IsSync(c) \/ (\E x : IsCallback(c, x)) \/ (\E p : IsAsync(c, p)) \/ IsServer(c))
  BY Zenon, SourceKinds
<1>2. /\ DOMAIN b.params = DOMAIN c.params
      /\ Called(b.params) <=> Called(c.params)
      /\ Queued(b.params) <=> Queued(c.params)
  BY Zenon, CalledAlike
<1>3. /\ Stub # StubAsync /\ Stub # Service /\ StubAsync # Service  BY DEF Stub, Service, StubAsync
<1> DEFINE Fits(d) ==
      /\ IsFixed(d) => /\ d.of # StubAsync
                       /\ d.of = Stub => ~Called(d.params)
                       /\ d.of = Service => DOMAIN d.params = {}
      /\ IsSync(d) => d.of = Stub /\ Called(d.params) /\ ~Queued(d.params)
      /\ \A x : IsCallback(d, x) => d.of = StubAsync
      /\ \A p : IsAsync(d, p) => d.of = Stub /\ Called(d.params) /\ Queued(d.params)
      /\ IsServer(d) => d.of = Service /\ DOMAIN d.params # {}
<1>4. ASSUME NEW d  PROVE Fits(d)
  <2>1. IsFixed(d) => /\ d.of # StubAsync
                      /\ d.of = Stub => ~Called(d.params)
                      /\ d.of = Service => DOMAIN d.params = {}
    <3>1. SUFFICES ASSUME NEW e \in SourceFixed, SameDecl(d, e)
                   PROVE  /\ d.of # StubAsync
                          /\ d.of = Stub => ~Called(d.params)
                          /\ d.of = Service => DOMAIN d.params = {}
      BY DEF IsFixed
    <3>2. d.of = e.of /\ d.params = e.params  BY <3>1 DEF SameDecl
    <3>3. DOMAIN <<>> = {}  OBVIOUS
    <3> QED  BY Zenon, <3>2, <3>3, FixedKinds, NotCalled
  <2>2. IsSync(d) => d.of = Stub /\ Called(d.params) /\ ~Queued(d.params)
    BY Zenon, SyncCalled DEF IsSync, SyncShape
  <2>3. \A x : IsCallback(d, x) => d.of = StubAsync  BY Zenon DEF IsCallback
  <2>4. \A p : IsAsync(d, p) => d.of = Stub /\ Called(d.params) /\ Queued(d.params)
    BY Zenon, AsyncCalled DEF IsAsync, AsyncShape
  <2>5. IsServer(d) => d.of = Service /\ DOMAIN d.params # {}
    <3>1. SUFFICES ASSUME NEW m, NEW v, d.params = ServerParams(m, v)  PROVE DOMAIN d.params # {}
      BY Zenon DEF IsServer
    <3>2. 1 \in DOMAIN ServerParams(m, v)  BY Zenon, NotCalled
    <3>3. 1 \notin {}  OBVIOUS
    <3> QED  BY Zenon, <3>1, <3>2, <3>3
  <2> QED  BY Zenon, <2>1, <2>2, <2>3, <2>4, <2>5
<1>5. CASE IsFixed(b) /\ IsFixed(c)
  <2>1. PICK e \in SourceFixed, f \in SourceFixed :
          Printed(b, e) /\ SameDecl(b, e) /\ Printed(c, f) /\ SameDecl(c, f)
    BY Zenon, <1>5 DEF IsFixed
  <2>2. e.of = f.of /\ e.name = f.name  BY <2>1 DEF SameDecl
  <2>3. e = f /\ k = n  BY Zenon, <1>5, <2>2, FixedKinds DEF IsFixed
  <2> QED  BY Zenon, <2>1, <2>3, PrintedOnce
<1>6. CASE k \in K /\ n \in K /\ IsSync(b) /\ IsSync(c)
  <2>1. k = n  BY Zenon, <1>1, <1>6, SyncNames DEF IsSync
  <2> QED  BY Zenon, <1>6, <2>1, PrintedOnce DEF IsSync
<1>7. ASSUME k \in K, n \in K, NEW x, NEW y, IsCallback(b, x), IsCallback(c, y)  PROVE b = c
  <2>1. k = n
    <3>1. b.name = Methods(s)[k].name  BY Zenon, <1>7, NamesOfKinds
    <3>2. c.name = Methods(c.service)[n].name  BY Zenon, <1>7, NamesOfKinds
    <3>3. Methods(s)[k].name = Methods(s)[n].name  BY Zenon, <3>1, <3>2
    <3> QED  BY Zenon, <1>1, <1>7, <3>3, MethodNamed
  <2>2. AlikeCalled(x.params, y.params)  BY Zenon, <1>7 DEF IsCallback, AlikeCalled
  <2>3. x \in CallbackBodies(Methods(s)[k], Fresh(s, k)) /\ y \in CallbackBodies(Methods(s)[k], Fresh(s, k))
    BY Zenon, <1>7, <2>1 DEF IsCallback
  <2>4. x = y  BY Zenon, <2>2, <2>3, CallbackTypes
  <2> QED  BY Zenon, <1>7, <2>1, <2>4, PrintedOnce DEF IsCallback
<1>8. ASSUME k \in K, n \in K, NEW p, NEW q, IsAsync(b, p), IsAsync(c, q)  PROVE b = c
  <2> DEFINE f == Methods(s)[k].name
             g == Methods(s)[n].name
  <2>1. f \in Seq(STRING) /\ g \in Seq(STRING)  BY Zenon, <1>1, <1>8, MethodKinds
  <2>5. b.name = p.prefix \o f \o Raw /\ p \in AsyncPrefixes  BY Zenon, <1>8, NamesOfKinds
  <2>6. c.name = q.prefix \o Methods(c.service)[n].name \o Raw /\ q \in AsyncPrefixes
    BY Zenon, <1>8, NamesOfKinds
  <2>2. NamedAlike(p.prefix, f, q.prefix, g)  BY Zenon, <2>5, <2>6 DEF NamedAlike
  <2>3. p = q /\ f = g
    <3> HIDE DEF f, g
    <3> QED  BY Zenon, <2>1, <2>2, <2>5, <2>6, AsyncNames
  <2>4. k = n  BY Zenon, <1>1, <1>8, <2>3, MethodNamed
  <2> QED  BY Zenon, <1>8, <2>3, <2>4, PrintedOnce DEF IsAsync
<1>9. CASE k \in K /\ n \in K /\ IsServer(b) /\ IsServer(c)
  <2>5. b.name = Methods(s)[k].name  BY Zenon, <1>9, NamesOfKinds
  <2>6. c.name = Methods(c.service)[n].name  BY Zenon, <1>9, NamesOfKinds
  <2>1. Methods(s)[k].name = Methods(s)[n].name  BY Zenon, <2>5, <2>6
  <2>2. k = n  BY Zenon, <1>1, <1>9, <2>1, MethodNamed
  <2>3. PICK e, f : /\ DueAt("SourceServer", s, k) = {e} /\ Printed(b, e)
                    /\ DueAt("SourceServer", s, k) = {f} /\ Printed(c, f)
    BY Zenon, <1>9, <2>2 DEF IsServer
  <2>4. e = f  BY Zenon, <2>3
  <2> QED  BY Zenon, <2>2, <2>3, <2>4, PrintedOnce
<1>10. Fits(b) /\ Fits(c)  BY Zenon, <1>4
<1> QED  BY Zenon, <1>1, <1>2, <1>3, <1>5, <1>6, <1>7, <1>8, <1>9, <1>10

\* The header and the source agree on their functions.
THEOREM DefinedTheorem == Spec => []DefinedOnce
<1>1. ASSUME IInv, TurnsOK  PROVE DefinedOnce
  <2>1. SUFFICES ASSUME Generated, NEW s \in DOMAIN file.services, ~RawPair(s)
        PROVE  LET declared == {d \in In("header") : d.service = s /\ d.call = <<>>
                                  /\ d.how \in {"override", "virtual", "declared"}}
                   defined == {d \in In("source") : d.service = s /\ d.how = "defined"}
                   DefinedBy(d, b) == d.of = b.of /\ Alike(d, b) /\ d.ret = b.ret /\ b.ns = Namespace
               IN /\ \A d \in declared : \E b \in defined :
                       DefinedBy(d, b) /\ \A c \in defined : DefinedBy(d, c) => c = b
                  /\ \A b \in defined : \E d \in declared : DefinedBy(d, b)
    BY Zenon DEF DefinedOnce
  <2> DEFINE declared == {d \in In("header") : d.service = s /\ d.call = <<>>
                            /\ d.how \in {"override", "virtual", "declared"}}
             defined == {d \in In("source") : d.service = s /\ d.how = "defined"}
             DefinedBy(d, b) == d.of = b.of /\ Alike(d, b) /\ d.ret = b.ret /\ b.ns = Namespace
  <2>2. ASSUME NEW d
        PROVE  d \in declared <=> d \in decls /\ d.unit = "header" /\ d.service = s /\ Bodiless(d)
    BY DEF In, Bodiless
  <2>3. ASSUME NEW b
        PROVE  b \in defined <=> b \in decls /\ b.unit = "source" /\ b.service = s /\ b.how = "defined"
    BY DEF In
  <2>4. ASSUME NEW d \in declared, NEW b \in defined, Signed(d, b), b.ns = Namespace  PROVE DefinedBy(d, b)
    BY <2>2, <2>3, <2>4 DEF Signed, Alike
  <2>5. ASSUME NEW b \in defined  PROVE b.ns = Namespace
    <3>1. b \in decls /\ b.unit = "source"  BY Zenon, <2>3
    <3>2. b.ns = Scope("source")  BY <1>1, <3>1, Origin
    <3>3. Scope("source") = Namespace  BY DEF Scope
    <3> QED  BY Zenon, <3>2, <3>3
  <2>6. ASSUME NEW d, NEW b \in defined, NEW c \in defined, DefinedBy(d, b), DefinedBy(d, c)  PROVE c = b
    <3>1. c.of = b.of /\ c.name = b.name /\ Types(c.params) = Types(b.params)
      BY Zenon, <2>6 DEF Alike
    <3>2. b \in decls /\ b.unit = "source" /\ b.how = "defined" /\ b.service = s  BY Zenon, <2>3
    <3>3. c \in decls /\ c.unit = "source" /\ c.how = "defined" /\ c.service = b.service /\ ~RawPair(c.service)
      BY Zenon, <2>1, <2>3, <3>2
    <3> QED  BY Zenon, <1>1, <3>1, <3>2, <3>3, DefinitionsApart
  <2>7. ASSUME NEW d \in declared  PROVE \E b \in defined : DefinedBy(d, b)
    <3>1. d \in decls /\ d.unit = "header" /\ d.service = s /\ Bodiless(d)  BY Zenon, <2>2
    <3>2. PICK b \in decls : /\ b.unit = "source" /\ b.service = d.service /\ b.how = "defined"
                             /\ b.ns = Namespace /\ Signed(d, b)
      BY Zenon, <1>1, <2>1, <3>1, HeaderAnswered
    <3>3. b \in defined  BY Zenon, <2>3, <3>1, <3>2
    <3> QED  BY Zenon, <2>4, <3>2, <3>3
  <2>8. ASSUME NEW b \in defined  PROVE \E d \in declared : DefinedBy(d, b)
    <3>1. b \in decls /\ b.unit = "source" /\ b.service = s /\ b.how = "defined"  BY Zenon, <2>3
    <3>2. PICK d \in decls : d.unit = "header" /\ d.service = b.service /\ Bodiless(d) /\ Signed(d, b)
      BY Zenon, <1>1, <2>1, <3>1, SourceAnswered
    <3>3. d \in declared  BY Zenon, <2>2, <3>1, <3>2
    <3> QED  BY Zenon, <2>4, <2>5, <3>2, <3>3
  <2> HIDE DEF declared, defined, DefinedBy
  <2>9. /\ \A d \in declared : \E b \in defined :
             DefinedBy(d, b) /\ \A c \in defined : DefinedBy(d, c) => c = b
        /\ \A b \in defined : \E d \in declared : DefinedBy(d, b)
    BY Zenon, <2>6, <2>7, <2>8
  <2> QED  BY Zenon, <2>9 DEF declared, defined, DefinedBy
<1> QED  BY <1>1, Invariance, TurnsTheorem, PTL
=============================================================================
