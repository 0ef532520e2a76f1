------------------------------ MODULE CppServer ------------------------------
(***************************************************************************)
(* What the generator prints for one method on the server's side: the      *)
(* Service class, the mixins that change how one method is served, and the *)
(* definitions in the source.  A mixin is a class template over its base;  *)
(* its constructor marks one slot of the method table that Service's       *)
(* constructor fills.  sync is the parameter allow_sync_server_api.        *)
(***************************************************************************)
EXTENDS CppText

Service == <<"Service">>
Reader(v) == <<"reader", "ServerReader", v.Request>>
Writer(v) == <<"writer", "ServerWriter", v.Response>>
Stream(v) == <<"stream", "ServerReaderWriter", v.Response, v.Request>>

\* The method of the Service class.
SyncMethod(m, v, sync) ==
  LET Member(params) == {Decl(Service, v.Method, <<ServerContext>> \o params, <<"Status">>,
                              IF sync THEN "virtual" ELSE "declared")}
  IN CASE NoStreaming(m) -> Member(<<RequestPtr(v), ResponsePtr(v)>>)
       [] ClientOnlyStreaming(m) -> Member(<<Reader(v), ResponsePtr(v)>>)
       [] ServerOnlyStreaming(m) -> Member(<<RequestPtr(v), Writer(v)>>)
       [] BidiStreaming(m) -> Member(<<Stream(v)>>)

\* "disable synchronous version of this method", printed alike in every mixin.
SyncDisabled(of, m, v) ==
  LET Override(params) ==
        {Body(Decl(of, v.Method, <<ServerContext>> \o params, <<"Status">>, "override"),
              <<"abort">>, <<>>)}
  IN CASE NoStreaming(m) -> Override(<<RequestPtr(v), ResponsePtr(v)>>)
       [] ClientOnlyStreaming(m) -> Override(<<Reader(v), ResponsePtr(v)>>)
       [] ServerOnlyStreaming(m) -> Override(<<RequestPtr(v), Writer(v)>>)
       [] BidiStreaming(m) -> Override(<<Stream(v)>>)

Constructor(of, v, call) == OnSlot(Body(Decl(of, of, <<>>, <<>>, "inline"), call, <<>>), v.Idx)
Handling(of, v, call, target, lambda) ==
  OnSlot(Installing(Decl(of, of, <<>>, <<>>, "inline"), call, target, lambda), v.Idx)

-----------------------------------------------------------------------------
(* Mixins on the completion queue: RequestM asks for a call of slot Idx.   *)

AsyncMethodsHelper(of, m, v, sync) ==
  LET RequestPrinted(params, call) ==
        {OnSlot(Body(Decl(of, <<"Request">> \o v.Method,
                          <<ServerContext>> \o params \o
                            <<NewCallQueue, NotificationQueue, <<"tag", "void*">> >>,
                          <<"void">>, "inline"),
                     call,
                     <<"context">> \o Names(params) \o <<"new_call_cq", "notification_cq", "tag">>),
                v.Idx)}
      RealRequest == <<"request", "*", v.RealRequest>>
  IN When(sync, SyncDisabled(of, m, v)) \cup
     CASE NoStreaming(m) ->
            RequestPrinted(<<RealRequest, <<"response", "ServerAsyncResponseWriter", v.RealResponse>> >>,
                    <<"RequestAsyncUnary">>)
       [] ClientOnlyStreaming(m) ->
            RequestPrinted(<< <<"reader", "ServerAsyncReader", v.RealResponse, v.RealRequest>> >>,
                    <<"RequestAsyncClientStreaming">>)
       [] ServerOnlyStreaming(m) ->
            RequestPrinted(<<RealRequest, <<"writer", "ServerAsyncWriter", v.RealResponse>> >>,
                    <<"RequestAsyncServerStreaming">>)
       [] BidiStreaming(m) ->
            RequestPrinted(<< <<"stream", "ServerAsyncReaderWriter", v.RealResponse, v.RealRequest>> >>,
                    <<"RequestAsyncBidiStreaming">>)

WithAsyncMethod(m, v, sync) ==
  LET of == <<"WithAsyncMethod_">> \o v.Method
  IN {Constructor(of, v, <<"MarkMethodAsync">>)} \cup AsyncMethodsHelper(of, m, v, sync)

\* Mutant: the class keeps the name of the mixin it was copied from.
WithRawMethodCopied(m, v, sync) ==
  LET of == <<"WithAsyncMethod_">> \o v.Method
  IN {Constructor(of, v, <<"MarkMethodRaw">>)} \cup AsyncMethodsHelper(of, m, v, sync)

WithRawMethod(m, v, sync) ==
  LET of == <<"WithRawMethod_">> \o v.Method
  IN {Constructor(of, v, <<"MarkMethodRaw">>)} \cup AsyncMethodsHelper(of, m, v, sync)

WithGenericMethod(m, v, sync) ==
  LET of == <<"WithGenericMethod_">> \o v.Method
  IN {Constructor(of, v, <<"MarkMethodGeneric">>)} \cup When(sync, SyncDisabled(of, m, v))

-----------------------------------------------------------------------------
(* Mixins on the callback API: the constructor installs a handler that     *)
(* calls a virtual function returning a reactor.                           *)

RealRequestPtr(v) == <<"request", "const*", v.RealRequest>>
RealResponsePtr(v) == <<"response", "*", v.RealResponse>>

CallbackMethodsHelper(of, m, v, sync) ==
  LET Reactor(params, ret) ==
        {Decl(of, v.Method, <<CallbackContext>> \o params, ret, "default")}
  IN When(sync, SyncDisabled(of, m, v)) \cup
     CASE NoStreaming(m) ->
            Reactor(<<RealRequestPtr(v), RealResponsePtr(v)>>, <<"ServerUnaryReactor">>)
       [] ClientOnlyStreaming(m) ->
            Reactor(<<RealResponsePtr(v)>>, <<"ServerReadReactor", v.RealRequest>>)
       [] ServerOnlyStreaming(m) ->
            Reactor(<<RealRequestPtr(v)>>, <<"ServerWriteReactor", v.RealResponse>>)
       [] BidiStreaming(m) ->
            Reactor(<<>>, <<"ServerBidiReactor", v.RealRequest, v.RealResponse>>)

WithCallbackMethod(m, v, sync) ==
  LET of == <<"WithCallbackMethod_">> \o v.Method
      Marking(handler, params) ==
        {Handling(of, v, <<"MarkMethodCallback", handler, v.RealRequest, v.RealResponse>>,
                  v.Method, <<CallbackContext>> \o params)}
      SetAllocator ==
        OnSlot(Body(Decl(of, <<"SetMessageAllocatorFor_">> \o v.Method,
                         << <<"allocator", "MessageAllocator", v.RealRequest, v.RealResponse>> >>,
                         <<"void">>, "inline"),
                    <<"GetHandler", "CallbackUnaryHandler", v.RealRequest, v.RealResponse>>, <<>>),
               v.Idx)
  IN (CASE NoStreaming(m) ->
             Marking("CallbackUnaryHandler", <<RealRequestPtr(v), RealResponsePtr(v)>>)
             \cup {SetAllocator}
        [] ClientOnlyStreaming(m) ->
             Marking("CallbackClientStreamingHandler", <<RealResponsePtr(v)>>)
        [] ServerOnlyStreaming(m) ->
             Marking("CallbackServerStreamingHandler", <<RealRequestPtr(v)>>)
        [] BidiStreaming(m) -> Marking("CallbackBidiHandler", <<>>))
     \cup CallbackMethodsHelper(of, m, v, sync)

WithRawCallbackMethod(m, v, sync) ==
  LET of == <<"WithRawCallbackMethod_">> \o v.Method
      Marking(handler, params) ==
        {Handling(of, v, <<"MarkMethodRawCallback", handler, v.RealRequest, v.RealResponse>>,
                  v.Method, <<CallbackContext>> \o params)}
  IN (CASE NoStreaming(m) ->
             Marking("CallbackUnaryHandler", <<RealRequestPtr(v), RealResponsePtr(v)>>)
        [] ClientOnlyStreaming(m) ->
             Marking("CallbackClientStreamingHandler", <<RealResponsePtr(v)>>)
        [] ServerOnlyStreaming(m) ->
             Marking("CallbackServerStreamingHandler", <<RealRequestPtr(v)>>)
        [] BidiStreaming(m) -> Marking("CallbackBidiHandler", <<>>))
     \cup CallbackMethodsHelper(of, m, v, sync)

-----------------------------------------------------------------------------
(* Mixins that serve a unary or a server-streaming method as a stream.     *)

Streamed(of, v, handler, params, streamer) ==
  LET stream == <<"streamer", streamer, v.Request, v.Response>>
  IN {Handling(of, v, <<"MarkMethodStreamed", handler, v.Request, v.Response>>,
               <<"Streamed">> \o v.Method, <<ServerContext, stream>>),
      Body(Decl(of, v.Method, <<ServerContext>> \o params, <<"Status">>, "override"),
           <<"abort">>, <<>>),
      Decl(of, <<"Streamed">> \o v.Method, <<ServerContext, stream>>, <<"Status">>, "pure")}

WithStreamedUnaryMethod(m, v) ==
  When(NoStreaming(m),
       Streamed(<<"WithStreamedUnaryMethod_">> \o v.Method, v, "StreamedUnaryHandler",
                <<RequestPtr(v), ResponsePtr(v)>>, "ServerUnaryStreamer"))

\* Mutant: every method whose server streams.
WithSplitStreamingMethodBidi(m, v) ==
  When(m.server,
       Streamed(<<"WithSplitStreamingMethod_">> \o v.Method, v, "SplitServerStreamingHandler",
                <<RequestPtr(v), Writer(v)>>, "ServerSplitStreamer"))

WithSplitStreamingMethod(m, v) ==
  When(ServerOnlyStreaming(m),
       Streamed(<<"WithSplitStreamingMethod_">> \o v.Method, v, "SplitServerStreamingHandler",
                <<RequestPtr(v), Writer(v)>>, "ServerSplitStreamer"))

-----------------------------------------------------------------------------
(* The source: entries of the method table, and default implementations.   *)

\* One AddMethod: the name's slot, the kind of call, and the handler whose
\* lambda calls the member function with these parameters.
AddMethod(m, v) ==
  LET Added(type, handler, params) ==
        [slot |-> v.Idx, type |-> type, handler |-> <<handler, v.Request, v.Response>>,
         call |-> v.Method, lambda |-> <<ServerContext>> \o params]
  IN CASE NoStreaming(m) ->
            Added("NORMAL_RPC", "RpcMethodHandler", <<RequestPtr(v), ResponsePtr(v)>>)
       [] ClientOnlyStreaming(m) ->
            Added("CLIENT_STREAMING", "ClientStreamingHandler", <<Reader(v), ResponsePtr(v)>>)
       [] ServerOnlyStreaming(m) ->
            Added("SERVER_STREAMING", "ServerStreamingHandler", <<RequestPtr(v), Writer(v)>>)
       [] BidiStreaming(m) -> Added("BIDI_STREAMING", "BidiStreamingHandler", <<Stream(v)>>)

SourceServerMethod(m, v, sync) ==
  LET Unimplemented(params) ==
        {Body(Decl(Service, v.Method, <<ServerContext>> \o params, <<"Status">>, "defined"),
              IF sync THEN <<>> ELSE <<"abort">>, <<>>)}
  IN CASE NoStreaming(m) -> Unimplemented(<<RequestPtr(v), ResponsePtr(v)>>)
       [] ClientOnlyStreaming(m) -> Unimplemented(<<Reader(v), ResponsePtr(v)>>)
       [] ServerOnlyStreaming(m) -> Unimplemented(<<RequestPtr(v), Writer(v)>>)
       [] BidiStreaming(m) -> Unimplemented(<<Stream(v)>>)
=============================================================================
