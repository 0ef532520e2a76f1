------------------------------ MODULE CppClient ------------------------------
(***************************************************************************)
(* What the generator prints for one method on the client's side: the      *)
(* interfaces, the stub that implements them, the definitions in the       *)
(* source, and the mock.  m is the method, v the template variables, cq    *)
(* the parameter allow_cq_api.  Every table is written out in the source   *)
(* on its own, and so it is here.                                          *)
(***************************************************************************)
EXTENDS CppText

StubInterface == <<"StubInterface">>
AsyncInterface == <<"async_interface">>
Stub == <<"Stub">>
StubAsync == <<"async">>
MockStub == <<"MockStub">>

-----------------------------------------------------------------------------
(* StubInterface: wrappers in public, pure virtual functions in private.   *)

PublicInterfaces(m, v, cq) ==
  LET Sync(params, ret, with) ==
        Body(Decl(StubInterface, v.Method, params, <<"unique_ptr">> \o ret, "inline"),
             v.Method \o Raw, with)
      Async(params, ret, with) ==
        {Body(Decl(StubInterface, p.prefix \o v.Method, params \o p.params,
                   <<"unique_ptr">> \o ret, "inline"),
              p.prefix \o v.Method \o Raw, with \o p.args) : p \in AsyncPrefixes}
      AsyncUnary ==
        {Body(Decl(StubInterface, p.prefix \o v.Method, <<Context, RequestRef(v), Queue>>,
                   <<"unique_ptr", "ClientAsyncResponseReader", "Interface", v.Response>>, "inline"),
              p.prefix \o v.Method \o Raw, <<"context", "request", "cq">>) : p \in AsyncPrefixes}
  IN CASE NoStreaming(m) ->
            {Decl(StubInterface, v.Method, <<Context, RequestRef(v), ResponsePtr(v)>>,
                  <<"Status">>, "pure")}
            \cup When(cq, AsyncUnary)
       [] ClientOnlyStreaming(m) ->
            {Sync(<<Context, ResponsePtr(v)>>, <<"ClientWriter", "Interface", v.Request>>,
                  <<"context", "response">>)}
            \cup When(cq, Async(<<Context, ResponsePtr(v), Queue>>,
                                <<"ClientAsyncWriter", "Interface", v.Request>>,
                                <<"context", "response", "cq">>))
       [] ServerOnlyStreaming(m) ->
            {Sync(<<Context, RequestRef(v)>>, <<"ClientReader", "Interface", v.Response>>,
                  <<"context", "request">>)}
            \cup When(cq, Async(<<Context, RequestRef(v), Queue>>,
                                <<"ClientAsyncReader", "Interface", v.Response>>,
                                <<"context", "request", "cq">>))
       [] BidiStreaming(m) ->
            {Sync(<<Context>>, <<"ClientReaderWriter", "Interface", v.Request, v.Response>>,
                  <<"context">>)}
            \cup When(cq, Async(<<Context, Queue>>,
                                <<"ClientAsyncReaderWriter", "Interface", v.Request, v.Response>>,
                                <<"context", "cq">>))

PrivateInterfaces(m, v, cq) ==
  LET Pure(name, params, ret) == Decl(StubInterface, name \o Raw, params, ret, "pure")
      Async(params, ret) ==
        {Pure(p.prefix \o v.Method, params \o p.params, ret) : p \in AsyncPrefixes}
  IN CASE NoStreaming(m) ->
            When(cq, {Pure(p.prefix \o v.Method, <<Context, RequestRef(v), Queue>>,
                           <<"ClientAsyncResponseReader", "Interface", v.Response>>)
                      : p \in AsyncPrefixes})
       [] ClientOnlyStreaming(m) ->
            {Pure(v.Method, <<Context, ResponsePtr(v)>>, <<"ClientWriter", "Interface", v.Request>>)}
            \cup When(cq, Async(<<Context, ResponsePtr(v), Queue>>,
                                <<"ClientAsyncWriter", "Interface", v.Request>>))
       [] ServerOnlyStreaming(m) ->
            {Pure(v.Method, <<Context, RequestRef(v)>>, <<"ClientReader", "Interface", v.Response>>)}
            \cup When(cq, Async(<<Context, RequestRef(v), Queue>>,
                                <<"ClientAsyncReader", "Interface", v.Response>>))
       [] BidiStreaming(m) ->
            {Pure(v.Method, <<Context>>,
                  <<"ClientReaderWriter", "Interface", v.Request, v.Response>>)}
            \cup When(cq, Async(<<Context, Queue>>,
                                <<"ClientAsyncReaderWriter", "Interface", v.Request, v.Response>>))

\* async_interface: the callback API of the stub.
CallbackInterfaces(m, v) ==
  LET Pure(params) == Decl(AsyncInterface, v.Method, <<Context>> \o params, <<"void">>, "pure")
  IN CASE NoStreaming(m) ->
            {Pure(<<RequestPtr(v), ResponsePtr(v), <<"", "function">> >>),
             Pure(<<RequestPtr(v), ResponsePtr(v), <<"reactor", "ClientUnaryReactor">> >>)}
       [] ClientOnlyStreaming(m) ->
            {Pure(<<ResponsePtr(v), <<"reactor", "ClientWriteReactor", v.Request>> >>)}
       [] ServerOnlyStreaming(m) ->
            {Pure(<<RequestPtr(v), <<"reactor", "ClientReadReactor", v.Response>> >>)}
       [] BidiStreaming(m) ->
            {Pure(<< <<"reactor", "ClientBidiReactor", v.Request, v.Response>> >>)}

-----------------------------------------------------------------------------
(* Stub: wrappers that return the concrete types, and the overrides.       *)

PublicMethods(m, v, cq) ==
  LET Sync(params, ret, with) ==
        Body(Decl(Stub, v.Method, params, <<"unique_ptr">> \o ret, "inline"),
             v.Method \o Raw, with)
      Async(params, ret, with) ==
        {Body(Decl(Stub, p.prefix \o v.Method, params \o p.params,
                   <<"unique_ptr">> \o ret, "inline"),
              p.prefix \o v.Method \o Raw, with \o p.args) : p \in AsyncPrefixes}
      AsyncUnary ==
        {Body(Decl(Stub, p.prefix \o v.Method, <<Context, RequestRef(v), Queue>>,
                   <<"unique_ptr", "ClientAsyncResponseReader", v.Response>>, "inline"),
              p.prefix \o v.Method \o Raw, <<"context", "request", "cq">>) : p \in AsyncPrefixes}
  IN CASE NoStreaming(m) ->
            {Decl(Stub, v.Method, <<Context, RequestRef(v), ResponsePtr(v)>>,
                  <<"Status">>, "override")}
            \cup When(cq, AsyncUnary)
       [] ClientOnlyStreaming(m) ->
            {Sync(<<Context, ResponsePtr(v)>>, <<"ClientWriter", v.Request>>,
                  <<"context", "response">>)}
            \cup When(cq, Async(<<Context, ResponsePtr(v), Queue>>,
                                <<"ClientAsyncWriter", v.Request>>,
                                <<"context", "response", "cq">>))
       [] ServerOnlyStreaming(m) ->
            {Sync(<<Context, RequestRef(v)>>, <<"ClientReader", v.Response>>,
                  <<"context", "request">>)}
            \cup When(cq, Async(<<Context, RequestRef(v), Queue>>,
                                <<"ClientAsyncReader", v.Response>>,
                                <<"context", "request", "cq">>))
       [] BidiStreaming(m) ->
            {Sync(<<Context>>, <<"ClientReaderWriter", v.Request, v.Response>>, <<"context">>)}
            \cup When(cq, Async(<<Context, Queue>>,
                                <<"ClientAsyncReaderWriter", v.Request, v.Response>>,
                                <<"context", "cq">>))

PrivateMethods(m, v, cq) ==
  LET Override(name, params, ret) == Decl(Stub, name \o Raw, params, ret, "override")
      Async(params, ret) ==
        {Override(p.prefix \o v.Method, params \o p.params, ret) : p \in AsyncPrefixes}
  IN CASE NoStreaming(m) ->
            When(cq, {Override(p.prefix \o v.Method, <<Context, RequestRef(v), Queue>>,
                               <<"ClientAsyncResponseReader", v.Response>>) : p \in AsyncPrefixes})
       [] ClientOnlyStreaming(m) ->
            {Override(v.Method, <<Context, ResponsePtr(v)>>, <<"ClientWriter", v.Request>>)}
            \cup When(cq, Async(<<Context, ResponsePtr(v), Queue>>,
                                <<"ClientAsyncWriter", v.Request>>))
       [] ServerOnlyStreaming(m) ->
            {Override(v.Method, <<Context, RequestRef(v)>>, <<"ClientReader", v.Response>>)}
            \cup When(cq, Async(<<Context, RequestRef(v), Queue>>,
                                <<"ClientAsyncReader", v.Response>>))
       [] BidiStreaming(m) ->
            {Override(v.Method, <<Context>>, <<"ClientReaderWriter", v.Request, v.Response>>)}
            \cup When(cq, Async(<<Context, Queue>>,
                                <<"ClientAsyncReaderWriter", v.Request, v.Response>>))

\* Stub::async, which implements async_interface.
CallbackMethods(m, v) ==
  LET Override(params) == Decl(StubAsync, v.Method, <<Context>> \o params, <<"void">>, "override")
  IN CASE NoStreaming(m) ->
            {Override(<<RequestPtr(v), ResponsePtr(v), <<"", "function">> >>),
             Override(<<RequestPtr(v), ResponsePtr(v), <<"reactor", "ClientUnaryReactor">> >>)}
       [] ClientOnlyStreaming(m) ->
            {Override(<<ResponsePtr(v), <<"reactor", "ClientWriteReactor", v.Request>> >>)}
       [] ServerOnlyStreaming(m) ->
            {Override(<<RequestPtr(v), <<"reactor", "ClientReadReactor", v.Response>> >>)}
       [] BidiStreaming(m) ->
            {Override(<< <<"reactor", "ClientBidiReactor", v.Request, v.Response>> >>)}

\* The stub's RpcMethod of a method.
RpcMethod(v) == <<"rpcmethod_">> \o v.Method
MethodData(v) == {Decl(Stub, RpcMethod(v), <<>>, <<"RpcMethod">>, "data")}

-----------------------------------------------------------------------------
(* The definitions in the source.                                          *)

Defined(of, name, params, ret, call, with) ==
  Body(Decl(of, name, params, ret, "defined"), call, with)

SourceUnary(v, cq) ==
  LET Callback(last, with) ==
        Defined(StubAsync, v.Method, <<Context, RequestPtr(v), ResponsePtr(v), last>>, <<"void">>,
                RpcMethod(v), <<"context", "request", "response", with>>)
      AsyncRaw(prefix, call, with) ==
        Defined(Stub, prefix \o v.Method \o Raw, <<Context, RequestRef(v), Queue>>,
                <<"ClientAsyncResponseReader", v.Response>>, call, with)
  IN {Defined(Stub, v.Method, <<Context, RequestRef(v), ResponsePtr(v)>>, <<"Status">>,
              RpcMethod(v), <<"context", "request", "response">>),
      Callback(<<"f", "function">>, "f"),
      Callback(<<"reactor", "ClientUnaryReactor">>, "reactor")}
     \cup When(cq, {AsyncRaw(<<"PrepareAsync">>, RpcMethod(v), <<"cq", "context", "request">>),
                    Starting(AsyncRaw(<<"Async">>, <<"PrepareAsync">> \o v.Method \o Raw,
                                      <<"context", "request", "cq">>), TRUE)})

SourceStreaming(m, v, cq) ==
  LET Sync(params, ret, with) ==
        Defined(Stub, v.Method \o Raw, params, ret, RpcMethod(v), with)
      Callback(params, with) ==
        Defined(StubAsync, v.Method, <<Context>> \o params, <<"void">>, RpcMethod(v), with)
      Async(params, ret, with) ==
        {Starting(Defined(Stub, p.prefix \o v.Method \o Raw, params \o p.params, ret,
                          RpcMethod(v), <<"cq">> \o with \o p.create), p.start)
         : p \in AsyncPrefixes}
  IN CASE ClientOnlyStreaming(m) ->
            {Sync(<<Context, ResponsePtr(v)>>, <<"ClientWriter", v.Request>>,
                  <<"context", "response">>),
             Callback(<<ResponsePtr(v), <<"reactor", "ClientWriteReactor", v.Request>> >>,
                      <<"context", "response", "reactor">>)}
            \cup When(cq, Async(<<Context, ResponsePtr(v), Queue>>,
                                <<"ClientAsyncWriter", v.Request>>, <<"context", "response">>))
       [] ServerOnlyStreaming(m) ->
            {Sync(<<Context, RequestRef(v)>>, <<"ClientReader", v.Response>>,
                  <<"context", "request">>),
             Callback(<<RequestPtr(v), <<"reactor", "ClientReadReactor", v.Response>> >>,
                      <<"context", "request", "reactor">>)}
            \cup When(cq, Async(<<Context, RequestRef(v), Queue>>,
                                <<"ClientAsyncReader", v.Response>>, <<"context", "request">>))
       [] BidiStreaming(m) ->
            {Sync(<<Context>>, <<"ClientReaderWriter", v.Request, v.Response>>, <<"context">>),
             Callback(<< <<"reactor", "ClientBidiReactor", v.Request, v.Response>> >>,
                      <<"context", "reactor">>)}
            \cup When(cq, Async(<<Context, Queue>>,
                                <<"ClientAsyncReaderWriter", v.Request, v.Response>>, <<"context">>))

\* Mutant: allow_cq_api is not asked.
SourceClientMethodAlways(m, v, cq) ==
  IF NoStreaming(m) THEN SourceUnary(v, TRUE) ELSE SourceStreaming(m, v, TRUE)

SourceClientMethod(m, v, cq) ==
  IF NoStreaming(m) THEN SourceUnary(v, cq) ELSE SourceStreaming(m, v, cq)

-----------------------------------------------------------------------------
(* The mock.  MOCK_METHODn fixes the number of arguments: slot holds n.    *)

MockMethod(n, name, ret, params) == OnSlot(Decl(MockStub, name, params, ret, "mock"), n)

MockMethods(m, v, cq) ==
  LET Async(n, params, ret) ==
        {MockMethod(n + p.extra, p.prefix \o v.Method \o Raw, ret, params \o p.params)
         : p \in AsyncPrefixes}
  IN CASE NoStreaming(m) ->
            {MockMethod(3, v.Method, <<"Status">>, <<Context, RequestRef(v), ResponsePtr(v)>>)}
            \cup When(cq, {MockMethod(3, p.prefix \o v.Method \o Raw,
                                      <<"ClientAsyncResponseReader", "Interface", v.Response>>,
                                      <<Context, RequestRef(v), Queue>>) : p \in AsyncPrefixes})
       [] ClientOnlyStreaming(m) ->
            {MockMethod(2, v.Method \o Raw, <<"ClientWriter", "Interface", v.Request>>,
                        <<Context, ResponsePtr(v)>>)}
            \cup When(cq, Async(3, <<Context, ResponsePtr(v), Queue>>,
                                <<"ClientAsyncWriter", "Interface", v.Request>>))
       [] ServerOnlyStreaming(m) ->
            {MockMethod(2, v.Method \o Raw, <<"ClientReader", "Interface", v.Response>>,
                        <<Context, RequestRef(v)>>)}
            \cup When(cq, Async(3, <<Context, RequestRef(v), Queue>>,
                                <<"ClientAsyncReader", "Interface", v.Response>>))
       [] BidiStreaming(m) ->
            {MockMethod(1, v.Method \o Raw,
                        <<"ClientReaderWriter", "Interface", v.Request, v.Response>>, <<Context>>)}
            \cup When(cq, Async(2, <<Context, Queue>>,
                                <<"ClientAsyncReaderWriter", "Interface", v.Request, v.Response>>))
=============================================================================
