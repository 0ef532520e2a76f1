-------------------------- MODULE CppGeneratorProof --------------------------
(***************************************************************************)
(* Proofs about CppGenerator, for every .proto and every list of options:  *)
(* the inductive invariant, that one numbering of a service's methods runs *)
(* through everything that is printed, and that no file is written alone.  *)
(***************************************************************************)
EXTENDS CppGenerator, SequenceTheorems, TLAPS

-----------------------------------------------------------------------------
(* Declarations: which fields the constructors set.                        *)

Fields == {"of", "name", "params", "ret", "how", "call", "with", "lambda", "start", "slot",
           "unit", "service", "method", "ns"}

\* A declaration that holds no slot, and one that may hold a slot for a class.
Unmarked(d) == DOMAIN d = Fields /\ d.slot = NoSlot
Marked(d, of, slot) == DOMAIN d = Fields /\ (d.slot = NoSlot \/ (d.slot = slot /\ d.of = of))

\* A declaration as Decl makes it.
LEMMA DeclShape ==
  ASSUME NEW of, NEW name, NEW params, NEW ret, NEW how
  PROVE  /\ DOMAIN Decl(of, name, params, ret, how) = Fields
         /\ Decl(of, name, params, ret, how).of = of
         /\ Decl(of, name, params, ret, how).name = name
         /\ Decl(of, name, params, ret, how).ret = ret
         /\ Decl(of, name, params, ret, how).how = how
         /\ Decl(of, name, params, ret, how).slot = NoSlot
BY DEF Decl, Fields

\* A body changes neither the class nor the slot, nor the name.
LEMMA BodyShape ==
  ASSUME NEW d, DOMAIN d = Fields, NEW call, NEW with
  PROVE  /\ DOMAIN Body(d, call, with) = Fields
         /\ Body(d, call, with).name = d.name
         /\ Body(d, call, with).of = d.of
         /\ Body(d, call, with).slot = d.slot
BY DEF Body, Fields

\* A handler changes neither the class nor the slot.
LEMMA InstallingShape ==
  ASSUME NEW d, DOMAIN d = Fields, NEW call, NEW target, NEW lambda
  PROVE  /\ DOMAIN Installing(d, call, target, lambda) = Fields
         /\ Installing(d, call, target, lambda).of = d.of
         /\ Installing(d, call, target, lambda).slot = d.slot
BY DEF Installing, Fields

\* OnSlot sets the slot.
LEMMA OnSlotShape ==
  ASSUME NEW d, DOMAIN d = Fields, NEW slot
  PROVE  /\ DOMAIN OnSlot(d, slot) = Fields
         /\ OnSlot(d, slot).of = d.of
         /\ OnSlot(d, slot).name = d.name
         /\ OnSlot(d, slot).ret = d.ret
         /\ OnSlot(d, slot).how = d.how
         /\ OnSlot(d, slot).slot = slot
BY DEF OnSlot, Fields

\* What the constructors of declarations say of slots.
LEMMA DeclUnmarked ==
  ASSUME NEW of, NEW name, NEW params, NEW ret, NEW how
  PROVE  Unmarked(Decl(of, name, params, ret, how))
BY DeclShape DEF Unmarked

\* A body takes no slot.
LEMMA BodyUnmarked ==
  ASSUME NEW d, Unmarked(d), NEW call, NEW with
  PROVE  Unmarked(Body(d, call, with))
BY BodyShape DEF Unmarked

\* What holds no slot is within any mark.
LEMMA UnmarkedIsMarked ==
  ASSUME NEW d, Unmarked(d), NEW of, NEW slot
  PROVE  Marked(d, of, slot)
BY DEF Unmarked, Marked

\* The constructor of a mixin holds its slot.
LEMMA ConstructorMarked ==
  ASSUME NEW of, NEW v, NEW call
  PROVE  Marked(Constructor(of, v, call), of, v.Idx)
BY DeclShape, BodyShape, OnSlotShape DEF Marked, Constructor

\* A handler of a mixin holds its slot.
LEMMA HandlingMarked ==
  ASSUME NEW of, NEW v, NEW call, NEW target, NEW lambda
  PROVE  Marked(Handling(of, v, call, target, lambda), of, v.Idx)
BY DeclShape, InstallingShape, OnSlotShape DEF Marked, Handling

\* A body keeps the mark.
LEMMA BodyMarked ==
  ASSUME NEW of, NEW v, NEW name, NEW params, NEW ret, NEW how, NEW call, NEW with
  PROVE  Marked(OnSlot(Body(Decl(of, name, params, ret, how), call, with), v.Idx), of, v.Idx)
BY DeclShape, BodyShape, OnSlotShape DEF Marked

-----------------------------------------------------------------------------
(* The tables of the header: which slots they hold.                        *)

Kind(m) == m.client \in BOOLEAN /\ m.server \in BOOLEAN

\* The wrappers of StubInterface hold no slot.
LEMMA PublicInterfacesUnmarked ==
  ASSUME NEW m, Kind(m), NEW v, NEW cq \in BOOLEAN
  PROVE  \A d \in PublicInterfaces(m, v, cq) : Unmarked(d)
BY DeclShape, BodyShape DEF PublicInterfaces, When, Unmarked, Kind,
   NoStreaming, ClientOnlyStreaming, ServerOnlyStreaming, BidiStreaming

\* Its pure virtual functions hold no slot.
LEMMA PrivateInterfacesUnmarked ==
  ASSUME NEW m, Kind(m), NEW v, NEW cq \in BOOLEAN
  PROVE  \A d \in PrivateInterfaces(m, v, cq) : Unmarked(d)
BY DeclShape, BodyShape DEF PrivateInterfaces, When, Unmarked, Kind,
   NoStreaming, ClientOnlyStreaming, ServerOnlyStreaming, BidiStreaming

\* async_interface holds no slot.
LEMMA CallbackInterfacesUnmarked ==
  ASSUME NEW m, Kind(m), NEW v, NEW cq \in BOOLEAN
  PROVE  \A d \in CallbackInterfaces(m, v) : Unmarked(d)
BY DeclUnmarked DEF CallbackInterfaces, Kind,
   NoStreaming, ClientOnlyStreaming, ServerOnlyStreaming, BidiStreaming

\* The wrappers of Stub hold no slot.
LEMMA PublicMethodsUnmarked ==
  ASSUME NEW m, Kind(m), NEW v, NEW cq \in BOOLEAN
  PROVE  \A d \in PublicMethods(m, v, cq) : Unmarked(d)
BY DeclShape, BodyShape DEF PublicMethods, When, Unmarked, Kind,
   NoStreaming, ClientOnlyStreaming, ServerOnlyStreaming, BidiStreaming

\* The overrides of Stub hold no slot.
LEMMA PrivateMethodsUnmarked ==
  ASSUME NEW m, Kind(m), NEW v, NEW cq \in BOOLEAN
  PROVE  \A d \in PrivateMethods(m, v, cq) : Unmarked(d)
BY DeclShape, BodyShape DEF PrivateMethods, When, Unmarked, Kind,
   NoStreaming, ClientOnlyStreaming, ServerOnlyStreaming, BidiStreaming

\* Stub::async holds no slot.
LEMMA CallbackMethodsUnmarked ==
  ASSUME NEW m, Kind(m), NEW v, NEW cq \in BOOLEAN
  PROVE  \A d \in CallbackMethods(m, v) : Unmarked(d)
BY DeclUnmarked DEF CallbackMethods, Kind,
   NoStreaming, ClientOnlyStreaming, ServerOnlyStreaming, BidiStreaming

\* The Service class holds no slot.
LEMMA SyncMethodUnmarked ==
  ASSUME NEW m, Kind(m), NEW v, NEW cq \in BOOLEAN
  PROVE  \A d \in SyncMethod(m, v, cq) : Unmarked(d)
BY DeclShape, BodyShape DEF SyncMethod, When, Unmarked, Kind,
   NoStreaming, ClientOnlyStreaming, ServerOnlyStreaming, BidiStreaming

\* A disabled synchronous version holds no slot.
LEMMA SyncDisabledUnmarked ==
  ASSUME NEW of, NEW m, Kind(m), NEW v
  PROVE  \A d \in SyncDisabled(of, m, v) : Unmarked(d)
BY DeclShape, BodyShape DEF SyncDisabled, Unmarked, Kind,
   NoStreaming, ClientOnlyStreaming, ServerOnlyStreaming, BidiStreaming

\* RequestM asks for the slot of the template.
LEMMA AsyncHelperMarked ==
  ASSUME NEW of, NEW m, Kind(m), NEW v, NEW sync \in BOOLEAN
  PROVE  \A d \in AsyncMethodsHelper(of, m, v, sync) : Marked(d, of, v.Idx)
<1>1. \A d \in When(sync, SyncDisabled(of, m, v)) : Marked(d, of, v.Idx)
  BY SyncDisabledUnmarked DEF When, Unmarked, Marked
<1> QED  BY <1>1, DeclShape, BodyShape, OnSlotShape DEF AsyncMethodsHelper, Marked, Kind,
         NoStreaming, ClientOnlyStreaming, ServerOnlyStreaming, BidiStreaming

\* The reactor's members hold no slot.
LEMMA CallbackHelperMarked ==
  ASSUME NEW of, NEW m, Kind(m), NEW v, NEW sync \in BOOLEAN
  PROVE  \A d \in CallbackMethodsHelper(of, m, v, sync) : Marked(d, of, v.Idx)
<1>1. \A d \in When(sync, SyncDisabled(of, m, v)) : Marked(d, of, v.Idx)
  BY SyncDisabledUnmarked DEF When, Unmarked, Marked
<1> QED  BY <1>1, DeclShape DEF CallbackMethodsHelper, Marked, Kind,
         NoStreaming, ClientOnlyStreaming, ServerOnlyStreaming, BidiStreaming

\* WithAsyncMethod_M marks the slot of the template.
LEMMA WithAsyncMethodMarked ==
  ASSUME NEW m, Kind(m), NEW v, NEW sync \in BOOLEAN
  PROVE  \A d \in WithAsyncMethod(m, v, sync) : Marked(d, <<"WithAsyncMethod_">> \o v.Method, v.Idx)
<1> DEFINE of == <<"WithAsyncMethod_">> \o v.Method
<1>1. \A call, target, lambda : Marked(Constructor(of, v, call), of, v.Idx)
  BY ConstructorMarked, HandlingMarked
<1>2. \A d \in AsyncMethodsHelper(of, m, v, sync) : Marked(d, of, v.Idx)
  BY AsyncHelperMarked
<1> HIDE DEF of
<1> QED  BY <1>1, <1>2 DEF WithAsyncMethod, of, Kind,
         NoStreaming, ClientOnlyStreaming, ServerOnlyStreaming, BidiStreaming

\* WithRawMethod_M marks the slot of the template.
LEMMA WithRawMethodMarked ==
  ASSUME NEW m, Kind(m), NEW v, NEW sync \in BOOLEAN
  PROVE  \A d \in WithRawMethod(m, v, sync) : Marked(d, <<"WithRawMethod_">> \o v.Method, v.Idx)
<1> DEFINE of == <<"WithRawMethod_">> \o v.Method
<1>1. \A call, target, lambda : Marked(Constructor(of, v, call), of, v.Idx)
  BY ConstructorMarked, HandlingMarked
<1>2. \A d \in AsyncMethodsHelper(of, m, v, sync) : Marked(d, of, v.Idx)
  BY AsyncHelperMarked
<1> HIDE DEF of
<1> QED  BY <1>1, <1>2 DEF WithRawMethod, of, Kind,
         NoStreaming, ClientOnlyStreaming, ServerOnlyStreaming, BidiStreaming

\* WithGenericMethod_M marks the slot of the template.
LEMMA WithGenericMethodMarked ==
  ASSUME NEW m, Kind(m), NEW v, NEW sync \in BOOLEAN
  PROVE  \A d \in WithGenericMethod(m, v, sync) : Marked(d, <<"WithGenericMethod_">> \o v.Method, v.Idx)
<1> DEFINE of == <<"WithGenericMethod_">> \o v.Method
<1>1. \A call, target, lambda : Marked(Constructor(of, v, call), of, v.Idx)
  BY ConstructorMarked, HandlingMarked
<1>2. \A d \in When(sync, SyncDisabled(of, m, v)) : Marked(d, of, v.Idx)
  BY SyncDisabledUnmarked, UnmarkedIsMarked DEF When
<1> HIDE DEF of
<1> QED  BY <1>1, <1>2 DEF WithGenericMethod, of, Kind,
         NoStreaming, ClientOnlyStreaming, ServerOnlyStreaming, BidiStreaming

\* WithCallbackMethod_M marks the slot of the template.
LEMMA WithCallbackMethodMarked ==
  ASSUME NEW m, Kind(m), NEW v, NEW sync \in BOOLEAN
  PROVE  \A d \in WithCallbackMethod(m, v, sync) : Marked(d, <<"WithCallbackMethod_">> \o v.Method, v.Idx)
<1> DEFINE of == <<"WithCallbackMethod_">> \o v.Method
<1>1. \A call, target, lambda : Marked(Handling(of, v, call, target, lambda), of, v.Idx)
  BY ConstructorMarked, HandlingMarked
<1>2. \A d \in CallbackMethodsHelper(of, m, v, sync) : Marked(d, of, v.Idx)
  BY CallbackHelperMarked
<1> HIDE DEF of
<1> QED  BY <1>1, <1>2, BodyMarked DEF WithCallbackMethod, of, Kind,
         NoStreaming, ClientOnlyStreaming, ServerOnlyStreaming, BidiStreaming

\* WithRawCallbackMethod_M marks the slot of the template.
LEMMA WithRawCallbackMethodMarked ==
  ASSUME NEW m, Kind(m), NEW v, NEW sync \in BOOLEAN
  PROVE  \A d \in WithRawCallbackMethod(m, v, sync) : Marked(d, <<"WithRawCallbackMethod_">> \o v.Method, v.Idx)
<1> DEFINE of == <<"WithRawCallbackMethod_">> \o v.Method
<1>1. \A call, target, lambda : Marked(Handling(of, v, call, target, lambda), of, v.Idx)
  BY ConstructorMarked, HandlingMarked
<1>2. \A d \in CallbackMethodsHelper(of, m, v, sync) : Marked(d, of, v.Idx)
  BY CallbackHelperMarked
<1> HIDE DEF of
<1> QED  BY <1>1, <1>2 DEF WithRawCallbackMethod, of, Kind,
         NoStreaming, ClientOnlyStreaming, ServerOnlyStreaming, BidiStreaming

\* A streamed mixin marks the slot of the template.
LEMMA StreamedMarked ==
  ASSUME NEW of, NEW v, NEW handler, NEW params, NEW streamer
  PROVE  \A d \in Streamed(of, v, handler, params, streamer) : Marked(d, of, v.Idx)
BY HandlingMarked, DeclUnmarked, BodyUnmarked, UnmarkedIsMarked DEF Streamed

\* WithStreamedUnaryMethod_M marks the slot of the template.
LEMMA WithStreamedUnaryMethodMarked ==
  ASSUME NEW m, NEW v
  PROVE  \A d \in WithStreamedUnaryMethod(m, v) :
            Marked(d, <<"WithStreamedUnaryMethod_">> \o v.Method, v.Idx)
BY StreamedMarked DEF WithStreamedUnaryMethod, When

\* WithSplitStreamingMethod_M marks the slot of the template.
LEMMA WithSplitStreamingMethodMarked ==
  ASSUME NEW m, NEW v
  PROVE  \A d \in WithSplitStreamingMethod(m, v) :
            Marked(d, <<"WithSplitStreamingMethod_">> \o v.Method, v.Idx)
BY StreamedMarked DEF WithSplitStreamingMethod, When

-----------------------------------------------------------------------------
(* The state: what the types say, and which loop belongs to which unit.    *)

MethodRecords == [name : Seq(STRING), client : BOOLEAN, server : BOOLEAN,
                  input : STRING, output : STRING]

\* What the assumption says of the .proto that was picked.
LEMMA FileTypes ==
  ASSUME TypeOK
  PROVE  /\ file.package \in Seq(STRING)
         /\ file.services \in Seq([name : Seq(STRING), methods : Seq(MethodRecords)])
         /\ \A s \in DOMAIN file.services :
              ServiceName(s) \in Seq(STRING) /\ Methods(s) \in Seq(MethodRecords)
<1>1. /\ file.package \in Seq(STRING)
      /\ file.services \in Seq([name : Seq(STRING), methods : Seq(MethodRecords)])
  BY CppGeneratorAssumption DEF TypeOK, MethodRecords
<1>2. ASSUME NEW s \in DOMAIN file.services
      PROVE  ServiceName(s) \in Seq(STRING) /\ Methods(s) \in Seq(MethodRecords)
  <2> DEFINE S == [name : Seq(STRING), methods : Seq(MethodRecords)]
  <2>1. file.services[s] \in S
    <3>1. file.services \in Seq(S)  BY <1>1
    <3> HIDE DEF S
    <3> QED  BY <3>1
  <2> QED  BY <2>1 DEF ServiceName, Methods
<1> QED  BY <1>1, <1>2

\* What the loops of a unit are.
LEMMA LoopUnits ==
  /\ unit = "header" => DOMAIN Loops = 1 .. 25 /\ Len(Loops) = 25
                         /\ \A l \in DOMAIN Loops : Loops[l] = HeaderLoops[l]
  /\ unit = "source" => DOMAIN Loops = 1 .. 5 /\ Len(Loops) = 5
                         /\ Loops[1] = "Names" /\ Loops[2] = "Inits" /\ Loops[3] = "SourceClient"
                         /\ Loops[4] = "Adds" /\ Loops[5] = "SourceServer"
  /\ unit = "mock" => DOMAIN Loops = 1 .. 1 /\ Len(Loops) = 1 /\ Loops[1] = "MockMethods"
<1>1. unit = "header" => Loops = HeaderLoops  BY DEF Loops, LoopsOf
<1>2. unit = "source" => Loops = SourceLoops  BY DEF Loops, LoopsOf
<1>3. unit = "mock" => Loops = MockLoops  BY DEF Loops, LoopsOf
<1>4. DOMAIN HeaderLoops = 1 .. 25 /\ Len(HeaderLoops) = 25  BY DEF HeaderLoops
<1> QED  BY <1>1, <1>2, <1>3, <1>4 DEF SourceLoops, MockLoops

\* The source's loops are not the header's, nor the mock's.
LEMMA LoopNames ==
  ASSUME unit \in Units, loop \in DOMAIN Loops
  PROVE  /\ Loops[loop] \in {"Names", "Inits", "SourceClient", "Adds", "SourceServer"} => unit = "source"
         /\ unit = "header" <=> Loops[loop] \notin
              {"Names", "Inits", "SourceClient", "Adds", "SourceServer", "MockMethods"}
         /\ unit = "source" => /\ Loops[loop] = "Names" <=> loop = 1
                               /\ Loops[loop] = "Inits" <=> loop = 2
                               /\ Loops[loop] = "Adds" <=> loop = 4
<1>1. CASE unit = "header"
  <2>1. loop \in 1 .. 25 /\ Loops[loop] = HeaderLoops[loop]  BY <1>1, LoopUnits
  <2>2. HeaderLoops[loop] \notin {"Names", "Inits", "SourceClient", "Adds", "SourceServer", "MockMethods"}
    BY <2>1 DEF HeaderLoops
  <2> QED  BY <1>1, <2>1, <2>2
<1>2. CASE unit = "source"  BY <1>2, LoopUnits
<1>3. CASE unit = "mock"  BY <1>3, LoopUnits
<1> QED  BY <1>1, <1>2, <1>3 DEF Units

\* What a printer adds to the variables keeps what the frame of the unit put there.
Keeps(v, w) ==
  /\ DOMAIN w = DOMAIN InitialVars
  /\ w.Package = v.Package /\ w.Service = v.Service

\* The three sets of variables of a method keep the rest of the map, and set its name.
LEMMA VarsKept ==
  ASSUME NEW v, DOMAIN v = DOMAIN InitialVars, NEW m
  PROVE  /\ Keeps(v, MethodVars(v, m)) /\ MethodVars(v, m).Method = m.name /\ MethodVars(v, m).Idx = v.Idx
         /\ Keeps(v, TypedVars(v, m)) /\ TypedVars(v, m).Method = m.name /\ TypedVars(v, m).Idx = v.Idx
         /\ Keeps(v, RawVars(v, m)) /\ RawVars(v, m).Method = m.name /\ RawVars(v, m).Idx = v.Idx
BY DEF Keeps, InitialVars, MethodVars, TypedVars, RawVars

\* The index and the name alone, too.
LEMMA IdxKept ==
  ASSUME NEW v, DOMAIN v = DOMAIN InitialVars, NEW name
  PROVE  /\ Keeps(v, WithIdx(v)) /\ WithIdx(v).Idx = method
         /\ Keeps(v, [v EXCEPT !.Method = name]) /\ [v EXCEPT !.Method = name].Method = name
         /\ [v EXCEPT !.Method = name].Idx = v.Idx
BY DEF Keeps, InitialVars, WithIdx

\* Where a declaration is printed does not change what it says.
LEMMA StampedShape ==
  ASSUME NEW printed, \A d \in printed : DOMAIN d = Fields
  PROVE  \A e \in Stamped(printed) :
           /\ e.unit = unit /\ e.service = service /\ e.method = method
           /\ \E d \in printed : /\ e.of = d.of /\ e.name = d.name /\ e.ret = d.ret
                                 /\ e.how = d.how /\ e.slot = d.slot
BY DEF Stamped, Fields

\* Every declaration that was printed is among them.
LEMMA StampedHas ==
  ASSUME NEW d, DOMAIN d = Fields
  PROVE  \E e \in Stamped({d}) : /\ e.service = service /\ e.name = d.name /\ e.ret = d.ret
                                 /\ e.how = d.how /\ e.slot = d.slot
<1> DEFINE e == [d EXCEPT !.unit = unit, !.service = service, !.method = method, !.ns = tpl.ns]
<1>1. e \in Stamped({d})  BY DEF Stamped
<1>2. /\ e.service = service /\ e.name = d.name /\ e.ret = d.ret /\ e.how = d.how /\ e.slot = d.slot
  BY DEF Fields
<1> QED  BY <1>1, <1>2

-----------------------------------------------------------------------------
(* One turn of a loop.                                                     *)

\* What At says, with its types.
LEMMA AtTypes ==
  ASSUME IInv, NEW l, At(l)
  PROVE  /\ unit \in Units /\ service \in DOMAIN file.services /\ loop \in DOMAIN Loops
         /\ Loops[loop] = l /\ loop \in Nat \ {0} /\ service \in Nat
         /\ method \in DOMAIN Methods(service) /\ method \in 1 .. Len(Methods(service))
         /\ Current \in MethodRecords /\ Kind(Current) /\ Printing
         /\ Cq \in BOOLEAN /\ Sync \in BOOLEAN /\ DOMAIN tpl = DOMAIN InitialVars
<1>1. TypeOK  BY DEF IInv
<1>2. /\ unit \in Units /\ service \in DOMAIN file.services /\ loop \in DOMAIN Loops
      /\ Loops[loop] = l /\ method \in DOMAIN Methods(service) /\ Printing
  BY DEF At, Printing
<1>3. Methods(service) \in Seq(MethodRecords)  BY <1>1, <1>2, FileTypes
<1>4. method \in 1 .. Len(Methods(service)) /\ Methods(service)[method] \in MethodRecords
  BY <1>2, <1>3
<1>5. Current \in MethodRecords /\ Kind(Current)
  BY <1>4 DEF Current, MethodRecords, Kind
<1>6. Cq \in BOOLEAN /\ Sync \in BOOLEAN  BY <1>1 DEF TypeOK, Cq, Sync, Flags
<1>7. loop \in Nat \ {0}  BY <1>2, LoopUnits DEF Units
<1>8. service \in Nat /\ DOMAIN tpl = DOMAIN InitialVars  BY <1>1 DEF TypeOK
<1> QED  BY <1>2, <1>4, <1>5, <1>6, <1>7, <1>8

\* What depends on the .proto and the position alone.
LEMMA SamePlace ==
  ASSUME UNCHANGED <<inputVars, unit>>
  PROVE  /\ Loops' = Loops /\ (service' = service => (Printing' <=> Printing))
         /\ \A s : Methods(s)' = Methods(s) /\ ServiceName(s)' = ServiceName(s)
BY DEF inputVars, Loops, LoopsOf, Printing, Methods, ServiceName

\* A turn moves on and leaves the frame of the unit alone.
LEMMA TurnPosition ==
  ASSUME IInv, NEW l, At(l), NEW v, Keeps(tpl, v), Turn(v)
  PROVE  PositionOK' /\ TemplatesOK' /\ WrittenOK'
<1>0. /\ tpl' = v /\ method' = method + 1 /\ UNCHANGED <<inputVars, unit, service, loop, fileVars>>
      /\ UNCHANGED <<file, written>>
  BY DEF Turn, inputVars, fileVars
<1>1. /\ Loops' = Loops /\ (Printing' <=> Printing)
      /\ \A s : Methods(s)' = Methods(s) /\ ServiceName(s)' = ServiceName(s)
  BY <1>0, SamePlace
<1>2. PositionOK'
  <2>1. method + 1 \in 1 .. Len(Methods(service)) + 1 /\ loop # 0 /\ unit # "done"
    <3>1. Methods(service) \in Seq(MethodRecords)  BY FileTypes, AtTypes DEF IInv
    <3> QED  BY <3>1, AtTypes DEF Units
  <2>2. Methods(service)' = Methods(service)  BY <1>0, <1>1 DEF Methods
  <2> QED  BY <1>0, <1>1, <2>1, <2>2 DEF PositionOK, IInv
<1>3. TemplatesOK'
  <2>1. ServiceName(service)' = ServiceName(service)  BY <1>0, <1>1 DEF ServiceName
  <2> QED  BY <1>0, <1>1, <2>1, AtTypes DEF TemplatesOK, Keeps, IInv
<1>4. WrittenOK'  BY <1>0 DEF WrittenOK, IInv
<1> QED  BY <1>2, <1>3, <1>4

\* A step that leaves the tables alone keeps their types.
LEMMA TablesKept ==
  ASSUME TypeOK, UNCHANGED <<file, names, adds>>
  PROVE  /\ names' \in [DOMAIN file.services -> Seq(Seq(STRING))]
         /\ adds' = [s \in DOMAIN file.services |-> adds'[s]]
         /\ \A s \in DOMAIN file.services : IsSequence(adds'[s])
<1>1. names' = names /\ adds' = adds  OBVIOUS
<1>2. names \in [DOMAIN file.services -> Seq(Seq(STRING))]  BY DEF TypeOK
<1>3. adds = [s \in DOMAIN file.services |-> adds[s]]  BY DEF TypeOK
<1>4. \A s \in DOMAIN file.services : IsSequence(adds[s])  BY DEF TypeOK
<1>5. adds' = [s \in DOMAIN file.services |-> adds'[s]]  BY <1>1, <1>3
<1>6. \A s \in DOMAIN file.services : IsSequence(adds'[s])  BY <1>1, <1>4
<1> QED  BY <1>1, <1>2, <1>5, <1>6

\* Printing declarations keeps the types.
LEMMA PrintsTypes ==
  ASSUME IInv, NEW l, At(l), NEW v, Keeps(tpl, v), NEW printed, Prints(v, printed)
  PROVE  TypeOK'
<1>1. /\ tpl' = v /\ method' = method + 1
      /\ UNCHANGED <<file, options, flags, texts, unit, service, loop, text, written, names, adds, typedefs>>
  BY DEF Prints, Turn, inputVars, fileVars
<1>2. /\ names' \in [DOMAIN file.services -> Seq(Seq(STRING))]
      /\ adds' = [s \in DOMAIN file.services |-> adds'[s]]
      /\ \A s \in DOMAIN file.services : IsSequence(adds'[s])
  BY <1>1, TablesKept DEF IInv
<1>3. /\ file' = file /\ DOMAIN v = DOMAIN InitialVars /\ method' \in Nat
  BY <1>1 DEF Keeps, IInv, TypeOK
<1> QED  BY <1>1, <1>2, <1>3 DEF TypeOK, IInv

\* Outside the source's tables, a turn that prints keeps what the tables hold.
LEMMA PrintsTables ==
  ASSUME IInv, NEW l, At(l), NEW v, NEW printed, Prints(v, printed), l \notin {"Names", "Inits", "Adds"}
  PROVE  TablesOK'
<1>1. /\ method' = method + 1 /\ UNCHANGED <<file, unit, service, loop, names, adds>>
      /\ decls \subseteq decls' /\ UNCHANGED <<inputVars, unit>>
  BY DEF Prints, Turn, inputVars
<1>2. \A s : Methods(s)' = Methods(s) /\ ServiceName(s)' = ServiceName(s)
  BY <1>1, SamePlace
<1>3. unit = "source" => loop \notin {1, 2, 4}  BY AtTypes, LoopNames
<1>4. ASSUME NEW s, NEW n \in {1, 2, 4}
      PROVE  Turns(n, s)' = Turns(n, s)
  <2>1. Methods(s)' = Methods(s)  BY <1>2
  <2>2. ~(unit = "source" /\ s = service /\ n = loop)  BY <1>3
  <2> QED  BY <1>1, <2>1, <2>2 DEF Turns
<1>5. ASSUME NEW s \in DOMAIN file.services
      PROVE  NamesOK(s)' /\ InitsOK(s)' /\ AddsOK(s)'
  <2>1. NamesOK(s) /\ InitsOK(s) /\ AddsOK(s)  BY DEF IInv, TablesOK
  <2>2. Turns(1, s)' = Turns(1, s) /\ Turns(2, s)' = Turns(2, s) /\ Turns(4, s)' = Turns(4, s)
    BY <1>4
  <2>3. Methods(s)' = Methods(s) /\ ServiceName(s)' = ServiceName(s)  BY <1>2
  <2>4. NamesOK(s)'  BY <1>1, <2>1, <2>2, <2>3 DEF NamesOK
  <2>5. InitsOK(s)'
    <3>1. \A k \in 1 .. Turns(2, s) : \E d \in decls' : InitFor(d, s, k, Methods(s)[k])
      BY <1>1, <2>1 DEF InitsOK
    <3> QED  BY <2>2, <2>3, <3>1 DEF InitsOK
  <2>6. AddsOK(s)'  BY <1>1, <2>1, <2>2, <2>3 DEF AddsOK
  <2> QED  BY <2>4, <2>5, <2>6
<1> QED  BY <1>1, <1>5 DEF TablesOK

\* What the header prints for a method holds no slot but that method's.
LEMMA HeaderTurn ==
  ASSUME IInv, NEW l, At(l), NEW v, Keeps(tpl, v), NEW printed, Prints(v, printed), unit = "header",
         \A d \in printed :
           Unmarked(d) \/ \E mixin \in Mixins : Marked(d, <<mixin>> \o Current.name, method)
  PROVE  IInv'
<1>1. TypeOK' /\ PositionOK' /\ TemplatesOK' /\ WrittenOK'
  BY PrintsTypes, TurnPosition DEF Prints
<1>2. TablesOK'
  <2>1. l \notin {"Names", "Inits", "Adds"}  BY AtTypes, LoopNames
  <2> QED  BY <2>1, PrintsTables
<1>3. HeaderOK'
  <2>1. /\ UNCHANGED <<inputVars, unit, file>> /\ decls' = decls \cup Stamped(printed)
    BY DEF Prints, Turn, inputVars
  <2>2. \A s : Methods(s)' = Methods(s) /\ ServiceName(s)' = ServiceName(s)
    BY <2>1, SamePlace
  <2>3. ASSUME NEW e \in Stamped(printed)
        PROVE  /\ e.service \in DOMAIN file.services
               /\ e.method # 0
               /\ e.slot # NoSlot =>
                    /\ e.slot \in DOMAIN Methods(e.service)
                    /\ \E mixin \in Mixins : e.of = <<mixin>> \o Methods(e.service)[e.slot].name
    <3>1. \A d \in printed : DOMAIN d = Fields  BY DEF Unmarked, Marked
    <3>2. e.service = service /\ e.method = method  BY <3>1, StampedShape
    <3>3. PICK d \in printed : e.of = d.of /\ e.slot = d.slot  BY <3>1, StampedShape
    <3>4. e.service \in DOMAIN file.services /\ e.method # 0  BY <3>2, AtTypes
    <3>5. CASE Unmarked(d)  BY <3>3, <3>4, <3>5 DEF Unmarked
    <3>6. CASE \E mixin \in Mixins : Marked(d, <<mixin>> \o Current.name, method)
      <4>1. PICK mixin \in Mixins : Marked(d, <<mixin>> \o Current.name, method)  BY <3>6
      <4>2. e.slot # NoSlot => e.slot = method /\ e.of = <<mixin>> \o Current.name
        BY <3>3, <4>1 DEF Marked
      <4> QED  BY <3>2, <3>4, <4>2, AtTypes DEF Current
    <3> QED  BY <3>5, <3>6
  <2>4. \A d \in decls' : d.unit = "header" =>
          /\ d.service \in DOMAIN file.services
          /\ d.name = FullName /\ d.method = 0 => d.ret = file.package \o ServiceName(d.service)
          /\ d.slot # NoSlot =>
               /\ d.slot \in DOMAIN Methods(d.service)
               /\ \E mixin \in Mixins : d.of = <<mixin>> \o Methods(d.service)[d.slot].name
    BY <2>1, <2>3 DEF HeaderOK, IInv
  <2> QED  BY <2>1, <2>2, <2>4 DEF HeaderOK
<1> QED  BY <1>1, <1>2, <1>3 DEF IInv

\* The variables of a turn that stores the index.
LEMMA IndexedKept ==
  ASSUME IInv, NEW l, At(l), NEW v,
         v \in {MethodVars(WithIdx(tpl), Current), TypedVars(WithIdx(tpl), Current),
                RawVars(WithIdx(tpl), Current), [WithIdx(tpl) EXCEPT !.Method = Current.name]}
  PROVE  Keeps(tpl, v) /\ v.Method = Current.name /\ v.Idx = method
<1>1. DOMAIN tpl = DOMAIN InitialVars  BY AtTypes
<1> DEFINE w == WithIdx(tpl)
<1>2. Keeps(tpl, w) /\ w.Idx = method  BY <1>1, IdxKept
<1>3. DOMAIN w = DOMAIN InitialVars  BY <1>2 DEF Keeps
<1> HIDE DEF w
<1>4. Keeps(w, v) /\ v.Method = Current.name /\ v.Idx = w.Idx
  <2>1. v \in {MethodVars(w, Current), TypedVars(w, Current), RawVars(w, Current),
               [w EXCEPT !.Method = Current.name]}
    BY DEF w
  <2>2. CASE v \in {MethodVars(w, Current), TypedVars(w, Current), RawVars(w, Current)}
    <3>1. /\ Keeps(w, MethodVars(w, Current)) /\ MethodVars(w, Current).Method = Current.name
          /\ MethodVars(w, Current).Idx = w.Idx
      BY <1>3, VarsKept
    <3>2. /\ Keeps(w, TypedVars(w, Current)) /\ TypedVars(w, Current).Method = Current.name
          /\ TypedVars(w, Current).Idx = w.Idx
      BY <1>3, VarsKept
    <3>3. /\ Keeps(w, RawVars(w, Current)) /\ RawVars(w, Current).Method = Current.name
          /\ RawVars(w, Current).Idx = w.Idx
      BY <1>3, VarsKept
    <3> QED  BY <2>2, <3>1, <3>2, <3>3
  <2>3. CASE v = [w EXCEPT !.Method = Current.name]
    <3>1. Keeps(w, [w EXCEPT !.Method = Current.name])  BY <1>3, IdxKept
    <3>2. /\ [w EXCEPT !.Method = Current.name].Method = Current.name
          /\ [w EXCEPT !.Method = Current.name].Idx = w.Idx
      BY <1>3, IdxKept
    <3> QED  BY <2>3, <3>1, <3>2
  <2> QED  BY <2>1, <2>2, <2>3
<1> QED  BY <1>2, <1>4 DEF Keeps

-----------------------------------------------------------------------------
(* The header's turns.                                                     *)

\* The loops of StubInterface.
LEMMA PrintHeaderClientMethodInterfacesKeeps == ASSUME IInv, PrintHeaderClientMethodInterfaces PROVE IInv'
<1> DEFINE v == MethodVars(tpl, Current)
<1>1. ASSUME At("Interfaces"), Prints(v, PublicInterfaces(Current, v, Cq))
      PROVE  IInv'
  <2>1. unit = "header"  BY <1>1, AtTypes, LoopNames
  <2>2. Keeps(tpl, v)  BY <1>1, AtTypes, VarsKept, IdxKept
  <2>3. \A d \in PublicInterfaces(Current, v, Cq) : Unmarked(d)  BY <1>1, AtTypes, PublicInterfacesUnmarked
  <2> HIDE DEF v
  <2> QED  BY <1>1, <2>1, <2>2, <2>3, HeaderTurn
<1>2. ASSUME At("RawInterfaces"), Prints(v, PrivateInterfaces(Current, v, Cq))
      PROVE  IInv'
  <2>1. unit = "header"  BY <1>2, AtTypes, LoopNames
  <2>2. Keeps(tpl, v)  BY <1>2, AtTypes, VarsKept, IdxKept
  <2>3. \A d \in PrivateInterfaces(Current, v, Cq) : Unmarked(d)  BY <1>2, AtTypes, PrivateInterfacesUnmarked
  <2> HIDE DEF v
  <2> QED  BY <1>2, <2>1, <2>2, <2>3, HeaderTurn
<1> QED  BY <1>1, <1>2 DEF PrintHeaderClientMethodInterfaces

\* The loop of async_interface.
LEMMA PrintHeaderClientMethodCallbackInterfacesKeeps == ASSUME IInv, PrintHeaderClientMethodCallbackInterfaces PROVE IInv'
<1> DEFINE v == MethodVars(tpl, Current)
<1>1. ASSUME At("CallbackInterfaces"), Prints(v, CallbackInterfaces(Current, v))
      PROVE  IInv'
  <2>1. unit = "header"  BY <1>1, AtTypes, LoopNames
  <2>2. Keeps(tpl, v)  BY <1>1, AtTypes, VarsKept, IdxKept
  <2>3. \A d \in CallbackInterfaces(Current, v) : Unmarked(d)  BY <1>1, AtTypes, CallbackInterfacesUnmarked
  <2> HIDE DEF v
  <2> QED  BY <1>1, <2>1, <2>2, <2>3, HeaderTurn
<1> QED  BY <1>1 DEF PrintHeaderClientMethodCallbackInterfaces

\* The loops of Stub.
LEMMA PrintHeaderClientMethodKeeps == ASSUME IInv, PrintHeaderClientMethod PROVE IInv'
<1> DEFINE v == MethodVars(tpl, Current)
<1>1. ASSUME At("Methods"), Prints(v, PublicMethods(Current, v, Cq))
      PROVE  IInv'
  <2>1. unit = "header"  BY <1>1, AtTypes, LoopNames
  <2>2. Keeps(tpl, v)  BY <1>1, AtTypes, VarsKept, IdxKept
  <2>3. \A d \in PublicMethods(Current, v, Cq) : Unmarked(d)  BY <1>1, AtTypes, PublicMethodsUnmarked
  <2> HIDE DEF v
  <2> QED  BY <1>1, <2>1, <2>2, <2>3, HeaderTurn
<1>2. ASSUME At("RawMethods"), Prints(v, PrivateMethods(Current, v, Cq))
      PROVE  IInv'
  <2>1. unit = "header"  BY <1>2, AtTypes, LoopNames
  <2>2. Keeps(tpl, v)  BY <1>2, AtTypes, VarsKept, IdxKept
  <2>3. \A d \in PrivateMethods(Current, v, Cq) : Unmarked(d)  BY <1>2, AtTypes, PrivateMethodsUnmarked
  <2> HIDE DEF v
  <2> QED  BY <1>2, <2>1, <2>2, <2>3, HeaderTurn
<1> QED  BY <1>1, <1>2 DEF PrintHeaderClientMethod

\* The loop of Stub::async.
LEMMA PrintHeaderClientMethodCallbackKeeps == ASSUME IInv, PrintHeaderClientMethodCallback PROVE IInv'
<1> DEFINE v == MethodVars(tpl, Current)
<1>1. ASSUME At("Callback"), Prints(v, CallbackMethods(Current, v))
      PROVE  IInv'
  <2>1. unit = "header"  BY <1>1, AtTypes, LoopNames
  <2>2. Keeps(tpl, v)  BY <1>1, AtTypes, VarsKept, IdxKept
  <2>3. \A d \in CallbackMethods(Current, v) : Unmarked(d)  BY <1>1, AtTypes, CallbackMethodsUnmarked
  <2> HIDE DEF v
  <2> QED  BY <1>1, <2>1, <2>2, <2>3, HeaderTurn
<1> QED  BY <1>1 DEF PrintHeaderClientMethodCallback

\* The stub's RpcMethods.
LEMMA PrintHeaderClientMethodDataKeeps == ASSUME IInv, PrintHeaderClientMethodData PROVE IInv'
<1> DEFINE v == [tpl EXCEPT !.Method = Current.name]
<1>1. ASSUME At("Data"), Prints(v, MethodData(v))
      PROVE  IInv'
  <2>1. unit = "header"  BY <1>1, AtTypes, LoopNames
  <2>2. Keeps(tpl, v)  BY <1>1, AtTypes, VarsKept, IdxKept
  <2>3. \A d \in MethodData(v) : Unmarked(d)  BY <1>1, AtTypes, DeclUnmarked DEF MethodData
  <2> HIDE DEF v
  <2> QED  BY <1>1, <2>1, <2>2, <2>3, HeaderTurn
<1> QED  BY <1>1 DEF PrintHeaderClientMethodData

\* The Service class.
LEMMA PrintHeaderServerMethodSyncKeeps == ASSUME IInv, PrintHeaderServerMethodSync PROVE IInv'
<1> DEFINE v == MethodVars(tpl, Current)
<1>1. ASSUME At("Sync"), Prints(v, SyncMethod(Current, v, Sync))
      PROVE  IInv'
  <2>1. unit = "header"  BY <1>1, AtTypes, LoopNames
  <2>2. Keeps(tpl, v)  BY <1>1, AtTypes, VarsKept, IdxKept
  <2>3. \A d \in SyncMethod(Current, v, Sync) : Unmarked(d)  BY <1>1, AtTypes, SyncMethodUnmarked
  <2> HIDE DEF v
  <2> QED  BY <1>1, <2>1, <2>2, <2>3, HeaderTurn
<1> QED  BY <1>1 DEF PrintHeaderServerMethodSync

\* The mixins WithAsyncMethod_M.
LEMMA PrintHeaderServerMethodAsyncKeeps == ASSUME IInv, PrintHeaderServerMethodAsync PROVE IInv'
<1> DEFINE v == TypedVars(WithIdx(tpl), Current)
<1>1. ASSUME At("Async"), Prints(v, WithAsyncMethod(Current, v, Sync))
      PROVE  IInv'
  <2>1. unit = "header"  BY <1>1, AtTypes, LoopNames
  <2>2. Keeps(tpl, v) /\ v.Method = Current.name /\ v.Idx = method
    BY <1>1, IndexedKept
  <2>3. \A d \in WithAsyncMethod(Current, v, Sync) : Marked(d, <<"WithAsyncMethod_">> \o v.Method, v.Idx)
    BY <1>1, AtTypes, WithAsyncMethodMarked
  <2>4. \A d \in WithAsyncMethod(Current, v, Sync) : \E mixin \in Mixins : Marked(d, <<mixin>> \o Current.name, method)
    BY <2>2, <2>3 DEF Mixins
  <2> HIDE DEF v
  <2> QED  BY <1>1, <2>1, <2>2, <2>4, HeaderTurn
<1> QED  BY <1>1 DEF PrintHeaderServerMethodAsync

\* The mixins WithCallbackMethod_M.
LEMMA PrintHeaderServerMethodCallbackKeeps == ASSUME IInv, PrintHeaderServerMethodCallback PROVE IInv'
<1> DEFINE v == TypedVars(WithIdx(tpl), Current)
<1>1. ASSUME At("ServerCallback"), Prints(v, WithCallbackMethod(Current, v, Sync))
      PROVE  IInv'
  <2>1. unit = "header"  BY <1>1, AtTypes, LoopNames
  <2>2. Keeps(tpl, v) /\ v.Method = Current.name /\ v.Idx = method
    BY <1>1, IndexedKept
  <2>3. \A d \in WithCallbackMethod(Current, v, Sync) : Marked(d, <<"WithCallbackMethod_">> \o v.Method, v.Idx)
    BY <1>1, AtTypes, WithCallbackMethodMarked
  <2>4. \A d \in WithCallbackMethod(Current, v, Sync) : \E mixin \in Mixins : Marked(d, <<mixin>> \o Current.name, method)
    BY <2>2, <2>3 DEF Mixins
  <2> HIDE DEF v
  <2> QED  BY <1>1, <2>1, <2>2, <2>4, HeaderTurn
<1> QED  BY <1>1 DEF PrintHeaderServerMethodCallback

\* The mixins WithGenericMethod_M.
LEMMA PrintHeaderServerMethodGenericKeeps == ASSUME IInv, PrintHeaderServerMethodGeneric PROVE IInv'
<1> DEFINE v == MethodVars(WithIdx(tpl), Current)
<1>1. ASSUME At("Generic"), Prints(v, WithGenericMethod(Current, v, Sync))
      PROVE  IInv'
  <2>1. unit = "header"  BY <1>1, AtTypes, LoopNames
  <2>2. Keeps(tpl, v) /\ v.Method = Current.name /\ v.Idx = method
    BY <1>1, IndexedKept
  <2>3. \A d \in WithGenericMethod(Current, v, Sync) : Marked(d, <<"WithGenericMethod_">> \o v.Method, v.Idx)
    BY <1>1, AtTypes, WithGenericMethodMarked
  <2>4. \A d \in WithGenericMethod(Current, v, Sync) : \E mixin \in Mixins : Marked(d, <<mixin>> \o Current.name, method)
    BY <2>2, <2>3 DEF Mixins
  <2> HIDE DEF v
  <2> QED  BY <1>1, <2>1, <2>2, <2>4, HeaderTurn
<1> QED  BY <1>1 DEF PrintHeaderServerMethodGeneric

\* The mixins WithRawMethod_M.
LEMMA PrintHeaderServerMethodRawKeeps == ASSUME IInv, PrintHeaderServerMethodRaw PROVE IInv'
<1> DEFINE v == RawVars(WithIdx(tpl), Current)
<1>1. ASSUME At("Raw"), Prints(v, WithRawMethod(Current, v, Sync))
      PROVE  IInv'
  <2>1. unit = "header"  BY <1>1, AtTypes, LoopNames
  <2>2. Keeps(tpl, v) /\ v.Method = Current.name /\ v.Idx = method
    BY <1>1, IndexedKept
  <2>3. \A d \in WithRawMethod(Current, v, Sync) : Marked(d, <<"WithRawMethod_">> \o v.Method, v.Idx)
    BY <1>1, AtTypes, WithRawMethodMarked
  <2>4. \A d \in WithRawMethod(Current, v, Sync) : \E mixin \in Mixins : Marked(d, <<mixin>> \o Current.name, method)
    BY <2>2, <2>3 DEF Mixins
  <2> HIDE DEF v
  <2> QED  BY <1>1, <2>1, <2>2, <2>4, HeaderTurn
<1> QED  BY <1>1 DEF PrintHeaderServerMethodRaw

\* The mixins WithRawCallbackMethod_M.
LEMMA PrintHeaderServerMethodRawCallbackKeeps == ASSUME IInv, PrintHeaderServerMethodRawCallback PROVE IInv'
<1> DEFINE v == RawVars(WithIdx(tpl), Current)
<1>1. ASSUME At("RawCallback"), Prints(v, WithRawCallbackMethod(Current, v, Sync))
      PROVE  IInv'
  <2>1. unit = "header"  BY <1>1, AtTypes, LoopNames
  <2>2. Keeps(tpl, v) /\ v.Method = Current.name /\ v.Idx = method
    BY <1>1, IndexedKept
  <2>3. \A d \in WithRawCallbackMethod(Current, v, Sync) : Marked(d, <<"WithRawCallbackMethod_">> \o v.Method, v.Idx)
    BY <1>1, AtTypes, WithRawCallbackMethodMarked
  <2>4. \A d \in WithRawCallbackMethod(Current, v, Sync) : \E mixin \in Mixins : Marked(d, <<mixin>> \o Current.name, method)
    BY <2>2, <2>3 DEF Mixins
  <2> HIDE DEF v
  <2> QED  BY <1>1, <2>1, <2>2, <2>4, HeaderTurn
<1> QED  BY <1>1 DEF PrintHeaderServerMethodRawCallback

\* The mixins WithStreamedUnaryMethod_M.
LEMMA PrintHeaderServerMethodStreamedUnaryKeeps == ASSUME IInv, PrintHeaderServerMethodStreamedUnary PROVE IInv'
<1> DEFINE v == MethodVars(WithIdx(tpl), Current)
<1>1. ASSUME At("StreamedUnary"), Prints(v, WithStreamedUnaryMethod(Current, v))
      PROVE  IInv'
  <2>1. unit = "header"  BY <1>1, AtTypes, LoopNames
  <2>2. Keeps(tpl, v) /\ v.Method = Current.name /\ v.Idx = method
    BY <1>1, IndexedKept
  <2>3. \A d \in WithStreamedUnaryMethod(Current, v) : Marked(d, <<"WithStreamedUnaryMethod_">> \o v.Method, v.Idx)
    BY <1>1, AtTypes, WithStreamedUnaryMethodMarked
  <2>4. \A d \in WithStreamedUnaryMethod(Current, v) : \E mixin \in Mixins : Marked(d, <<mixin>> \o Current.name, method)
    BY <2>2, <2>3 DEF Mixins
  <2> HIDE DEF v
  <2> QED  BY <1>1, <2>1, <2>2, <2>4, HeaderTurn
<1> QED  BY <1>1 DEF PrintHeaderServerMethodStreamedUnary

\* The mixins WithSplitStreamingMethod_M.
LEMMA PrintHeaderServerMethodSplitStreamingKeeps == ASSUME IInv, PrintHeaderServerMethodSplitStreaming PROVE IInv'
<1> DEFINE v == MethodVars(WithIdx(tpl), Current)
<1>1. ASSUME At("SplitStreaming"), Prints(v, WithSplitStreamingMethod(Current, v))
      PROVE  IInv'
  <2>1. unit = "header"  BY <1>1, AtTypes, LoopNames
  <2>2. Keeps(tpl, v) /\ v.Method = Current.name /\ v.Idx = method
    BY <1>1, IndexedKept
  <2>3. \A d \in WithSplitStreamingMethod(Current, v) : Marked(d, <<"WithSplitStreamingMethod_">> \o v.Method, v.Idx)
    BY <1>1, AtTypes, WithSplitStreamingMethodMarked
  <2>4. \A d \in WithSplitStreamingMethod(Current, v) : \E mixin \in Mixins : Marked(d, <<mixin>> \o Current.name, method)
    BY <2>2, <2>3 DEF Mixins
  <2> HIDE DEF v
  <2> QED  BY <1>1, <2>1, <2>2, <2>4, HeaderTurn
<1> QED  BY <1>1 DEF PrintHeaderServerMethodSplitStreaming

-----------------------------------------------------------------------------
(* The turns of the source and of the mock.                                *)

Formed(d) == DOMAIN d = Fields

\* Constructors make declarations.
LEMMA DeclFormed ==
  ASSUME NEW of, NEW name, NEW params, NEW ret, NEW how
  PROVE  Formed(Decl(of, name, params, ret, how))
BY DeclShape DEF Formed
\* A slot leaves one formed.
LEMMA OnSlotFormed == ASSUME NEW d, Formed(d), NEW slot PROVE Formed(OnSlot(d, slot))
BY OnSlotShape DEF Formed
\* A body leaves one formed.
LEMMA BodyFormed == ASSUME NEW d, Formed(d), NEW call, NEW with PROVE Formed(Body(d, call, with))
BY BodyShape DEF Formed
\* So does starting a call.
LEMMA StartingFormed == ASSUME NEW d, Formed(d), NEW start PROVE Formed(Starting(d, start))
BY DEF Formed, Starting, Fields
\* What the source defines.
LEMMA DefinedFormed ==
  ASSUME NEW of, NEW name, NEW params, NEW ret, NEW call, NEW with
  PROVE  Formed(Defined(of, name, params, ret, call, with))
BY DeclFormed, BodyFormed DEF Defined
\* What the mock declares.
LEMMA MockFormed ==
  ASSUME NEW n, NEW name, NEW ret, NEW params
  PROVE  Formed(MockMethod(n, name, ret, params))
BY DeclFormed, OnSlotFormed DEF MockMethod

\* The definitions of a method.
LEMMA SourceClientFormed ==
  ASSUME NEW m, Kind(m), NEW v, NEW cq \in BOOLEAN
  PROVE  \A d \in SourceClientMethod(m, v, cq) : Formed(d)
<1>1. \A d \in SourceUnary(v, cq) : Formed(d)
  BY DefinedFormed, StartingFormed DEF SourceUnary, When
<1>2. ~NoStreaming(m) => \A d \in SourceStreaming(m, v, cq) : Formed(d)
  BY DefinedFormed, StartingFormed DEF SourceStreaming, When, Kind,
     NoStreaming, ClientOnlyStreaming, ServerOnlyStreaming, BidiStreaming
<1> QED  BY <1>1, <1>2 DEF SourceClientMethod

\* The default implementation of a method.
LEMMA SourceServerFormed ==
  ASSUME NEW m, Kind(m), NEW v, NEW sync \in BOOLEAN
  PROVE  \A d \in SourceServerMethod(m, v, sync) : Formed(d)
BY DeclFormed, BodyFormed DEF SourceServerMethod, Kind,
   NoStreaming, ClientOnlyStreaming, ServerOnlyStreaming, BidiStreaming

\* The mock of a method.
LEMMA MockMethodsFormed ==
  ASSUME NEW m, Kind(m), NEW v, NEW cq \in BOOLEAN
  PROVE  \A d \in MockMethods(m, v, cq) : Formed(d)
BY MockFormed DEF MockMethods, When, Kind,
   NoStreaming, ClientOnlyStreaming, ServerOnlyStreaming, BidiStreaming

\* Outside the header nothing is added to what the header declared.
LEMMA OutsideHeader ==
  ASSUME IInv, NEW printed, \A d \in printed : Formed(d), unit # "header",
         UNCHANGED <<inputVars, unit>>, decls' = decls \cup Stamped(printed)
  PROVE  HeaderOK'
<1>1. \A e \in Stamped(printed) : e.unit # "header"
  BY StampedShape DEF Formed
<1>2. file' = file /\ \A s : Methods(s)' = Methods(s) /\ ServiceName(s)' = ServiceName(s)
  BY SamePlace DEF inputVars
<1>3. \A d \in decls' : d.unit = "header" =>
        /\ d.service \in DOMAIN file.services
        /\ d.name = FullName /\ d.method = 0 => d.ret = file.package \o ServiceName(d.service)
        /\ d.slot # NoSlot =>
             /\ d.slot \in DOMAIN Methods(d.service)
             /\ \E mixin \in Mixins : d.of = <<mixin>> \o Methods(d.service)[d.slot].name
  BY <1>1 DEF HeaderOK, IInv
<1> QED  BY <1>2, <1>3 DEF HeaderOK

\* A turn of the source or of the mock that fills no table.
LEMMA PlainTurn ==
  ASSUME IInv, NEW l, At(l), l \notin {"Names", "Inits", "Adds"}, unit # "header",
         NEW v, Keeps(tpl, v), NEW printed, Prints(v, printed), \A d \in printed : Formed(d)
  PROVE  IInv'
<1>1. TypeOK' /\ PositionOK' /\ TemplatesOK' /\ WrittenOK'
  BY PrintsTypes, TurnPosition DEF Prints
<1>2. TablesOK'  BY PrintsTables
<1>3. HeaderOK'  BY OutsideHeader DEF Prints, Turn
<1> QED  BY <1>1, <1>2, <1>3 DEF IInv

\* The definitions of the stub.
LEMMA PrintSourceClientMethodKeeps == ASSUME IInv, PrintSourceClientMethod PROVE IInv'
<1> DEFINE v == MethodVars(WithIdx(tpl), Current)
<1>1. At("SourceClient") /\ Prints(v, SourceClientMethod(Current, v, Cq))  BY DEF PrintSourceClientMethod
<1>2. Keeps(tpl, v)  BY <1>1, IndexedKept
<1>3. unit # "header"  BY <1>1, AtTypes, LoopNames
<1>4. \A d \in SourceClientMethod(Current, v, Cq) : Formed(d)  BY <1>1, AtTypes, SourceClientFormed
<1> HIDE DEF v
<1> QED  BY <1>1, <1>2, <1>3, <1>4, PlainTurn

\* The definitions of the service.
LEMMA PrintSourceServerMethodKeeps == ASSUME IInv, PrintSourceServerMethod PROVE IInv'
<1> DEFINE v == MethodVars(WithIdx(tpl), Current)
<1>1. At("SourceServer") /\ Prints(v, SourceServerMethod(Current, v, Sync))  BY DEF PrintSourceServerMethod
<1>2. Keeps(tpl, v)  BY <1>1, IndexedKept
<1>3. unit # "header"  BY <1>1, AtTypes, LoopNames
<1>4. \A d \in SourceServerMethod(Current, v, Sync) : Formed(d)  BY <1>1, AtTypes, SourceServerFormed
<1> HIDE DEF v
<1> QED  BY <1>1, <1>2, <1>3, <1>4, PlainTurn

\* The mock.
LEMMA PrintMockClientMethodsKeeps == ASSUME IInv, PrintMockClientMethods PROVE IInv'
<1> DEFINE v == MethodVars(tpl, Current)
<1>1. At("MockMethods") /\ Prints(v, MockMethods(Current, v, Cq))  BY DEF PrintMockClientMethods
<1>2. Keeps(tpl, v)  BY <1>1, AtTypes, VarsKept
<1>3. unit # "header"  BY <1>1, AtTypes, LoopNames
<1>4. \A d \in MockMethods(Current, v, Cq) : Formed(d)  BY <1>1, AtTypes, MockMethodsFormed
<1> HIDE DEF v
<1> QED  BY <1>1, <1>2, <1>3, <1>4, PlainTurn

\* A turn counts for its own loop and service.
LEMMA TurnsMove ==
  ASSUME IInv, NEW l, At(l), NEW v, Turn(v), unit = "source"
  PROVE  /\ \A n \in Nat, s \in DOMAIN file.services :
              n = loop /\ s = service => Turns(n, s) = method - 1 /\ Turns(n, s)' = method
         /\ \A n \in Nat, s \in DOMAIN file.services :
              n # loop \/ s # service => Turns(n, s)' = Turns(n, s)
<1>1. UNCHANGED <<inputVars, unit, service, loop>> /\ method' = method + 1  BY DEF Turn
<1>2. \A s : Methods(s)' = Methods(s)  BY <1>1, SamePlace
<1>3. loop \in Nat /\ service \in Nat /\ method \in Nat
  BY AtTypes DEF IInv, TypeOK
<1>4. ASSUME NEW n \in Nat, NEW s \in DOMAIN file.services, n = loop /\ s = service
      PROVE  Turns(n, s) = method - 1 /\ Turns(n, s)' = method
  BY <1>1, <1>3, <1>4 DEF Turns
<1>5. ASSUME NEW n \in Nat, NEW s \in DOMAIN file.services, n # loop \/ s # service
      PROVE  Turns(n, s)' = Turns(n, s)
  <2>1. Methods(s)' = Methods(s)  BY <1>2
  <2> QED  BY <1>1, <1>5, <2>1 DEF Turns
<1> QED  BY <1>4, <1>5

\* The state's parts that a turn of the source leaves alone.
LEMMA SourceTurnFrame ==
  ASSUME IInv, NEW l, At(l), NEW v, Turn(v), unit = "source"
  PROVE  /\ \A s : Methods(s)' = Methods(s) /\ ServiceName(s)' = ServiceName(s)
         /\ UNCHANGED <<file, options, flags, texts, unit, service, loop, text, written>>
         /\ \A s \in DOMAIN file.services :
              /\ names' = names /\ loop # 1 => NamesOK(s)'
              /\ decls \subseteq decls' /\ loop # 2 => InitsOK(s)'
              /\ adds' = adds /\ loop # 4 => AddsOK(s)'
<1>1. /\ UNCHANGED <<inputVars, unit>>
      /\ UNCHANGED <<file, options, flags, texts, unit, service, loop, text, written>>
  BY DEF Turn, inputVars, fileVars
<1>2. \A s : Methods(s)' = Methods(s) /\ ServiceName(s)' = ServiceName(s)  BY <1>1, SamePlace
<1>3. ASSUME NEW s \in DOMAIN file.services
      PROVE  /\ names' = names /\ loop # 1 => NamesOK(s)'
             /\ decls \subseteq decls' /\ loop # 2 => InitsOK(s)'
             /\ adds' = adds /\ loop # 4 => AddsOK(s)'
  <2>1. NamesOK(s) /\ InitsOK(s) /\ AddsOK(s)  BY DEF IInv, TablesOK
  <2>2. \A n \in {1, 2, 4} : loop # n => Turns(n, s)' = Turns(n, s)  BY TurnsMove
  <2>3. Methods(s)' = Methods(s) /\ ServiceName(s)' = ServiceName(s)  BY <1>2
  <2>4. names' = names /\ loop # 1 => NamesOK(s)'  BY <1>1, <2>1, <2>2, <2>3 DEF NamesOK
  <2>5. ASSUME decls \subseteq decls', loop # 2  PROVE InitsOK(s)'
    <3>1. \A k \in 1 .. Turns(2, s) : \E d \in decls' : InitFor(d, s, k, Methods(s)[k])
      BY <2>1, <2>5 DEF InitsOK
    <3>2. Turns(2, s)' = Turns(2, s)  BY <2>2, <2>5
    <3> QED  BY <2>3, <3>1, <3>2 DEF InitsOK
  <2>6. adds' = adds /\ loop # 4 => AddsOK(s)'  BY <1>1, <2>1, <2>2, <2>3 DEF AddsOK
  <2> QED  BY <2>4, <2>5, <2>6
<1> QED  BY <1>1, <1>2, <1>3

\* A turn keeps the types when what it appends has them.
LEMMA TurnTypes ==
  ASSUME IInv, NEW l, At(l), NEW v, Keeps(tpl, v), Turn(v), unit = "source",
         names' \in [DOMAIN file.services -> Seq(Seq(STRING))],
         adds' = [s \in DOMAIN file.services |-> adds'[s]],
         \A s \in DOMAIN file.services : IsSequence(adds'[s])
  PROVE  TypeOK'
<1>1. /\ tpl' = v /\ method' = method + 1
      /\ UNCHANGED <<file, options, flags, texts, unit, service, loop, text, written>>
  BY DEF Turn, inputVars, fileVars
<1>2. TypeOK  BY DEF IInv
<1> QED  BY <1>1, <1>2 DEF TypeOK, Keeps

\* One more at the end of a table.
LEMMA Appended ==
  ASSUME NEW q, IsSequence(q), NEW n \in Nat, Len(q) = n - 1, NEW e
  PROVE  /\ Len(Append(q, e)) = n /\ DOMAIN Append(q, e) = 1 .. n /\ DOMAIN q = 1 .. n - 1
         /\ Append(q, e)[n] = e /\ \A k \in 1 .. n - 1 : Append(q, e)[k] = q[k]
         /\ \A k \in 1 .. n : k = n \/ k \in 1 .. n - 1
         /\ IsSequence(Append(q, e))
<1> DEFINE S == {q[k] : k \in DOMAIN q}
           T == S \cup {e}
<1>1. q \in Seq(S)  BY DEF IsSequence
<1>2. q \in Seq(T)
  <2>1. DOMAIN q = 1 .. Len(q) /\ Len(q) \in Nat  BY <1>1
  <2>2. \A k \in 1 .. Len(q) : q[k] \in T  BY <2>1
  <2> HIDE DEF T
  <2>3. q = [k \in 1 .. Len(q) |-> q[k]]  BY <1>1, <2>1
  <2> QED  BY <2>1, <2>2, <2>3
<1>3. e \in T  OBVIOUS
<1> DEFINE r == Append(q, e)
<1> HIDE DEF S, T
<1>4. /\ r \in Seq(T) /\ Len(r) = n /\ DOMAIN r = 1 .. n /\ DOMAIN q = 1 .. n - 1
      /\ r[n] = e /\ \A k \in 1 .. n - 1 : r[k] = q[k]
  BY <1>2, <1>3
<1>5. \A k \in 1 .. n : k = n \/ k \in 1 .. n - 1  OBVIOUS
<1>6. IsSequence(r)
  <2> HIDE DEF r
  <2> DEFINE U == {r[k] : k \in DOMAIN r}
  <2>1. \A k \in 1 .. Len(r) : r[k] \in U  BY <1>4
  <2>2. r = [k \in 1 .. Len(r) |-> r[k]]  BY <1>4
  <2>3. r \in Seq(U)
    <3> HIDE DEF U
    <3> QED  BY <1>4, <2>1, <2>2
  <2> QED  BY <2>3 DEF IsSequence
<1> QED  BY <1>4, <1>5, <1>6

\* What has its elements in a set is a sequence.
LEMMA SeqIsSequence == ASSUME NEW S, NEW q \in Seq(S) PROVE IsSequence(q)
<1> DEFINE U == {q[k] : k \in DOMAIN q}
<1>1. \A k \in 1 .. Len(q) : q[k] \in U  OBVIOUS
<1>2. q = [k \in 1 .. Len(q) |-> q[k]] /\ Len(q) \in Nat  OBVIOUS
<1>3. q \in Seq(U)
  <2> HIDE DEF U
  <2> QED  BY <1>1, <1>2
<1> QED  BY <1>3 DEF IsSequence

\* The table of names.
LEMMA PrintMethodNameKeeps == ASSUME IInv, PrintMethodName PROVE IInv'
<1> DEFINE v == [tpl EXCEPT !.Method = Current.name]
           n == v.Package \o v.Service \o v.Method
<1>1. /\ At("Names") /\ Turn(v) /\ names' = [names EXCEPT ![service] = Append(@, n)]
      /\ UNCHANGED <<decls, adds, typedefs>>
  BY DEF PrintMethodName
<1>2. unit = "source" /\ loop = 1  BY <1>1, AtTypes, LoopNames
<1>3. Keeps(tpl, v) /\ v.Method = Current.name  BY <1>1, AtTypes, IdxKept
<1>4. PositionOK' /\ TemplatesOK' /\ WrittenOK'  BY <1>1, <1>3, TurnPosition
<1>5. n = file.package \o ServiceName(service) \o Current.name /\ n \in Seq(STRING)
  <2>1. v.Package = file.package /\ v.Service = ServiceName(service)
    BY <1>1, <1>2, <1>3, AtTypes DEF IInv, TemplatesOK, Keeps, Units
  <2>2. /\ file.package \in Seq(STRING) /\ ServiceName(service) \in Seq(STRING)
        /\ Current.name \in Seq(STRING)
    BY <1>1, AtTypes, FileTypes DEF IInv, MethodRecords
  <2>3. n = file.package \o ServiceName(service) \o Current.name  BY <1>3, <2>1
  <2> HIDE DEF n
  <2> QED  BY <2>2, <2>3
<1> HIDE DEF n, v
<1>6. TypeOK'
  <2>1. names' \in [DOMAIN file.services -> Seq(Seq(STRING))]
    <3>1. names \in [DOMAIN file.services -> Seq(Seq(STRING))]  BY DEF IInv, TypeOK
    <3>2. service \in DOMAIN file.services  BY <1>1, AtTypes
    <3>3. Append(names[service], n) \in Seq(Seq(STRING))  BY <1>5, <3>1, <3>2
    <3> QED  BY <1>1, <3>1, <3>3
  <2>2. /\ adds = [s \in DOMAIN file.services |-> adds[s]] /\ adds' = adds
        /\ \A s \in DOMAIN file.services : IsSequence(adds[s])
    BY <1>1 DEF IInv, TypeOK
  <2>3. adds' = [s \in DOMAIN file.services |-> adds'[s]]  BY <2>2
  <2>4. \A s \in DOMAIN file.services : IsSequence(adds'[s])  BY <2>2
  <2> QED  BY <1>1, <1>2, <1>3, <2>1, <2>3, <2>4, TurnTypes
<1>7. ASSUME NEW s \in DOMAIN file.services
      PROVE  NamesOK(s)' /\ InitsOK(s)' /\ AddsOK(s)'
  <2>1. InitsOK(s)' /\ AddsOK(s)'  BY <1>1, <1>2, SourceTurnFrame
  <2>2. NamesOK(s) /\ names \in [DOMAIN file.services -> Seq(Seq(STRING))]
    BY DEF IInv, TablesOK, TypeOK
  <2>3. /\ Methods(s)' = Methods(s) /\ ServiceName(s)' = ServiceName(s) /\ file' = file
    BY <1>1, <1>2, SourceTurnFrame
  <2>4. CASE s # service
    <3>1. Turns(1, s)' = Turns(1, s)  BY <1>1, <1>2, <2>4, TurnsMove
    <3>2. names'[s] = names[s]  BY <1>1, <2>2, <2>4
    <3>3. NamesOK(s)'  BY <2>2, <2>3, <3>1, <3>2 DEF NamesOK
    <3> QED  BY <2>1, <3>3
  <2>5. CASE s = service
    <3>1. Turns(1, s) = method - 1 /\ Turns(1, s)' = method  BY <1>1, <1>2, <2>5, TurnsMove
    <3>2. names'[s] = Append(names[s], n) /\ names[s] \in Seq(Seq(STRING))
      BY <1>1, <2>2, <2>5, AtTypes
    <3>3. Len(names[s]) = method - 1 /\ method \in Nat  BY <2>2, <3>1, <1>1, AtTypes DEF NamesOK, IInv, TypeOK
    <3>4. /\ Len(names'[s]) = method /\ names'[s][method] = n
          /\ \A k \in 1 .. method - 1 : names'[s][k] = names[s][k]
          /\ DOMAIN names'[s] = 1 .. method /\ DOMAIN names[s] = 1 .. method - 1
          /\ \A k \in 1 .. method : k = method \/ k \in 1 .. method - 1
      <4> DEFINE q == names[s]
      <4>1. IsSequence(q) /\ method \in Nat /\ Len(q) = method - 1  BY <3>2, <3>3, SeqIsSequence
      <4> HIDE DEF q
      <4>2. /\ Len(Append(q, n)) = method /\ DOMAIN Append(q, n) = 1 .. method
            /\ DOMAIN q = 1 .. method - 1 /\ Append(q, n)[method] = n
            /\ \A k \in 1 .. method - 1 : Append(q, n)[k] = q[k]
            /\ \A k \in 1 .. method : k = method \/ k \in 1 .. method - 1
        BY <4>1, Appended
      <4> QED  BY <3>2, <4>2 DEF q
    <3>7. n = file.package \o ServiceName(s) \o Methods(s)[method].name
      BY <1>5, <2>5 DEF Current
    <3>8. \A k \in 1 .. method - 1 : names[s][k] = file.package \o ServiceName(s) \o Methods(s)[k].name
      BY <2>2, <3>4 DEF NamesOK
    <3>9. \A k \in DOMAIN names'[s] : names'[s][k] = file.package \o ServiceName(s) \o Methods(s)[k].name
      <4>1. ASSUME NEW k \in 1 .. method
            PROVE  names'[s][k] = file.package \o ServiceName(s) \o Methods(s)[k].name
        <5>1. CASE k = method  BY <3>4, <3>7, <5>1
        <5>2. CASE k \in 1 .. method - 1  BY <3>4, <3>8, <5>2
        <5> QED  BY <3>4, <5>1, <5>2
      <4> QED  BY <3>4, <4>1
    <3>10. NamesOK(s)'  BY <2>3, <3>1, <3>4, <3>9 DEF NamesOK
    <3> QED  BY <2>1, <3>10
  <2> QED  BY <2>4, <2>5
<1>8. TablesOK'  BY <1>1, <1>2, <1>7, SourceTurnFrame DEF TablesOK
<1>9. HeaderOK'
  <2>1. /\ \A s : Methods(s)' = Methods(s) /\ ServiceName(s)' = ServiceName(s)
        /\ file' = file /\ decls' = decls
    BY <1>1, <1>2, SourceTurnFrame
  <2> QED  BY <2>1 DEF HeaderOK, IInv
<1> QED  BY <1>4, <1>6, <1>8, <1>9 DEF IInv

\* A declaration on a slot.
LEMMA SlottedShape ==
  ASSUME NEW of, NEW name, NEW params, NEW ret, NEW how, NEW slot
  PROVE  /\ Formed(OnSlot(Decl(of, name, params, ret, how), slot))
         /\ OnSlot(Decl(of, name, params, ret, how), slot).name = name
         /\ OnSlot(Decl(of, name, params, ret, how), slot).ret = ret
         /\ OnSlot(Decl(of, name, params, ret, how), slot).how = how
         /\ OnSlot(Decl(of, name, params, ret, how), slot).slot = slot
<1>1. DOMAIN Decl(of, name, params, ret, how) = Fields  BY DeclShape
<1> QED  BY <1>1, DeclShape, OnSlotShape DEF Formed

\* The initialisers of the stub's RpcMethods.
LEMMA PrintMethodInitKeeps == ASSUME IInv, PrintMethodInit PROVE IInv'
<1> DEFINE v == [WithIdx(tpl) EXCEPT !.Method = Current.name]
           d == OnSlot(Decl(Stub, RpcMethod(v), <<>>, <<StreamingType(Current)>>, "init"), v.Idx)
<1>1. At("Inits") /\ Prints(v, {d})  BY DEF PrintMethodInit
<1>2. unit = "source" /\ loop = 2  BY <1>1, AtTypes, LoopNames
<1>3. Keeps(tpl, v) /\ v.Method = Current.name /\ v.Idx = method  BY <1>1, IndexedKept
<1>4. /\ Formed(d) /\ d.name = <<"rpcmethod_">> \o Current.name /\ d.ret = <<StreamingType(Current)>>
      /\ d.how = "init" /\ d.slot = method
  <2> HIDE DEF v
  <2>1. RpcMethod(v) = <<"rpcmethod_">> \o Current.name  BY <1>3 DEF RpcMethod
  <2>2. /\ Formed(d) /\ d.name = RpcMethod(v) /\ d.ret = <<StreamingType(Current)>>
        /\ d.how = "init" /\ d.slot = v.Idx
    BY SlottedShape
  <2> QED  BY <1>3, <2>1, <2>2
<1> HIDE DEF v, d
<1>5. TypeOK' /\ PositionOK' /\ TemplatesOK' /\ WrittenOK'
  BY <1>1, <1>3, PrintsTypes, TurnPosition DEF Prints
<1>6. HeaderOK'
  <2>1. \A e \in {d} : Formed(e)  BY <1>4
  <2>2. unit # "header" /\ UNCHANGED <<inputVars, unit>> /\ decls' = decls \cup Stamped({d})
    BY <1>1, <1>2 DEF Prints, Turn
  <2> QED  BY <2>1, <2>2, OutsideHeader
<1>7. Turn(v) /\ decls' = decls \cup Stamped({d}) /\ UNCHANGED <<names, adds, typedefs>>
  BY <1>1 DEF Prints
<1>8. ASSUME NEW s \in DOMAIN file.services
      PROVE  NamesOK(s)' /\ InitsOK(s)' /\ AddsOK(s)'
  <2>1. NamesOK(s)' /\ AddsOK(s)'  BY <1>1, <1>2, <1>7, SourceTurnFrame
  <2>2. Methods(s)' = Methods(s)  BY <1>1, <1>2, <1>7, SourceTurnFrame
  <2>3. \A k \in 1 .. Turns(2, s) : \E e \in decls' : InitFor(e, s, k, Methods(s)[k])
    BY <1>7 DEF IInv, TablesOK, InitsOK
  <2>4. CASE s # service
    <3>1. Turns(2, s)' = Turns(2, s)  BY <1>1, <1>2, <1>7, <2>4, TurnsMove
    <3>2. InitsOK(s)'  BY <2>2, <2>3, <3>1 DEF InitsOK
    <3> QED  BY <2>1, <3>2
  <2>5. CASE s = service
    <3>1. Turns(2, s) = method - 1 /\ Turns(2, s)' = method  BY <1>1, <1>2, <1>7, <2>5, TurnsMove
    <3>2. \E e \in decls' : InitFor(e, s, method, Methods(s)[method])
      <4>1. PICK e \in Stamped({d}) : /\ e.service = service /\ e.name = d.name /\ e.ret = d.ret
                                     /\ e.how = d.how /\ e.slot = d.slot
        BY <1>4, StampedHas DEF Formed
      <4>2. InitFor(e, s, method, Methods(s)[method])  BY <1>4, <2>5, <4>1 DEF InitFor, Current
      <4> QED  BY <1>7, <4>2
    <3>3. method \in Nat  BY DEF IInv, TypeOK
    <3>4. ASSUME NEW k \in 1 .. method
          PROVE  \E e \in decls' : InitFor(e, s, k, Methods(s)[k])
      <4>1. k = method \/ k \in 1 .. method - 1  BY <3>3
      <4>2. CASE k = method  BY <3>2, <4>2
      <4>3. CASE k \in 1 .. method - 1  BY <2>3, <3>1, <4>3
      <4> QED  BY <4>1, <4>2, <4>3
    <3>5. InitsOK(s)'  BY <2>2, <3>1, <3>4 DEF InitsOK
    <3> QED  BY <2>1, <3>5
  <2> QED  BY <2>4, <2>5
<1>9. TablesOK'  BY <1>1, <1>2, <1>7, <1>8, SourceTurnFrame DEF TablesOK
<1> QED  BY <1>5, <1>6, <1>9 DEF IInv

\* What an AddMethod call holds.
LEMMA AddMethodShape ==
  ASSUME NEW m, Kind(m), NEW v
  PROVE  /\ AddMethod(m, v).slot = v.Idx /\ AddMethod(m, v).call = v.Method
         /\ AddMethod(m, v).type = StreamingType(m)
BY DEF AddMethod, StreamingType, Kind, NoStreaming, ClientOnlyStreaming, ServerOnlyStreaming, BidiStreaming

\* The entries of the service's method table.
LEMMA PrintAddMethodKeeps == ASSUME IInv, PrintAddMethod PROVE IInv'
<1> DEFINE v == MethodVars(WithIdx(tpl), Current)
           a == AddMethod(Current, v)
<1>1. /\ At("Adds") /\ Turn(v) /\ adds' = [adds EXCEPT ![service] = Append(@, a)]
      /\ UNCHANGED <<decls, names, typedefs>>
  BY DEF PrintAddMethod
<1>2. unit = "source" /\ loop = 4  BY <1>1, AtTypes, LoopNames
<1>3. Keeps(tpl, v) /\ v.Method = Current.name /\ v.Idx = method  BY <1>1, IndexedKept
<1>4. PositionOK' /\ TemplatesOK' /\ WrittenOK'  BY <1>1, <1>3, TurnPosition
<1>5. method \in Nat /\ Kind(Current)  BY <1>1, AtTypes DEF IInv, TypeOK
<1>6. a.slot = method /\ a.call = Current.name /\ a.type = StreamingType(Current)
  <2> HIDE DEF v
  <2> QED  BY <1>3, <1>5, AddMethodShape
<1> HIDE DEF a, v
<1>11. adds = [s \in DOMAIN file.services |-> adds[s]] /\ \A s \in DOMAIN file.services : IsSequence(adds[s])
  BY DEF IInv, TypeOK
<1>12. Len(adds[service]) = method - 1
  <2>1. Turns(4, service) = method - 1  BY <1>1, <1>2, AtTypes, TurnsMove
  <2> QED  BY <1>1, <2>1, AtTypes DEF IInv, TablesOK, AddsOK
<1>7. TypeOK'
  <2>1. adds' = [s \in DOMAIN file.services |-> adds'[s]]  BY <1>1, <1>11
  <2>2. ASSUME NEW s \in DOMAIN file.services  PROVE IsSequence(adds'[s])
    <3>1. CASE s = service  BY <1>1, <1>5, <1>11, <1>12, <3>1, Appended
    <3>2. CASE s # service  BY <1>1, <1>11, <3>2
    <3> QED  BY <3>1, <3>2
  <2>3. names' \in [DOMAIN file.services -> Seq(Seq(STRING))]  BY <1>1 DEF IInv, TypeOK
  <2> QED  BY <1>1, <1>2, <1>3, <2>1, <2>2, <2>3, TurnTypes
<1>8. ASSUME NEW s \in DOMAIN file.services
      PROVE  NamesOK(s)' /\ InitsOK(s)' /\ AddsOK(s)'
  <2>1. NamesOK(s)' /\ InitsOK(s)'  BY <1>1, <1>2, SourceTurnFrame
  <2>2. AddsOK(s)  BY DEF IInv, TablesOK
  <2>3. Methods(s)' = Methods(s)  BY <1>1, <1>2, SourceTurnFrame
  <2>4. CASE s # service
    <3>1. Turns(4, s)' = Turns(4, s)  BY <1>1, <1>2, <2>4, TurnsMove
    <3>2. adds'[s] = adds[s]  BY <1>1, <1>11, <2>4
    <3>3. AddsOK(s)'  BY <2>2, <2>3, <3>1, <3>2 DEF AddsOK
    <3> QED  BY <2>1, <3>3
  <2>5. CASE s = service
    <3>1. Turns(4, s) = method - 1 /\ Turns(4, s)' = method  BY <1>1, <1>2, <2>5, TurnsMove
    <3>2. adds'[s] = Append(adds[s], a) /\ IsSequence(adds[s]) /\ Len(adds[s]) = method - 1
      BY <1>1, <1>11, <1>12, <2>5
    <3>4. /\ Len(adds'[s]) = method /\ adds'[s][method] = a
          /\ \A k \in 1 .. method - 1 : adds'[s][k] = adds[s][k]
          /\ DOMAIN adds'[s] = 1 .. method /\ DOMAIN adds[s] = 1 .. method - 1
          /\ \A k \in 1 .. method : k = method \/ k \in 1 .. method - 1
      <4> DEFINE q == adds[s]
      <4>1. IsSequence(q) /\ method \in Nat /\ Len(q) = method - 1  BY <1>5, <3>2
      <4> HIDE DEF q
      <4>2. /\ Len(Append(q, a)) = method /\ DOMAIN Append(q, a) = 1 .. method
            /\ DOMAIN q = 1 .. method - 1 /\ Append(q, a)[method] = a
            /\ \A k \in 1 .. method - 1 : Append(q, a)[k] = q[k]
            /\ \A k \in 1 .. method : k = method \/ k \in 1 .. method - 1
        BY <4>1, Appended
      <4> QED  BY <3>2, <4>2 DEF q
    <3>5. \A k \in 1 .. method - 1 :
            /\ adds[s][k].slot = k /\ adds[s][k].call = Methods(s)[k].name
            /\ adds[s][k].type = StreamingType(Methods(s)[k])
      BY <2>2, <3>4 DEF AddsOK
    <3>6. ASSUME NEW k \in 1 .. method
          PROVE  /\ adds'[s][k].slot = k /\ adds'[s][k].call = Methods(s)[k].name
                 /\ adds'[s][k].type = StreamingType(Methods(s)[k])
      <4>1. CASE k = method  BY <1>6, <2>5, <3>4, <4>1 DEF Current
      <4>2. CASE k \in 1 .. method - 1  BY <3>4, <3>5, <4>2
      <4> QED  BY <3>4, <4>1, <4>2
    <3>7. AddsOK(s)'  BY <2>3, <3>1, <3>4, <3>6 DEF AddsOK
    <3> QED  BY <2>1, <3>7
  <2> QED  BY <2>4, <2>5
<1>9. TablesOK'  BY <1>1, <1>2, <1>8, SourceTurnFrame DEF TablesOK
<1>10. HeaderOK'
  <2>1. /\ \A s : Methods(s)' = Methods(s) /\ ServiceName(s)' = ServiceName(s)
        /\ file' = file /\ decls' = decls
    BY <1>1, <1>2, SourceTurnFrame
  <2> QED  BY <2>1 DEF HeaderOK, IInv
<1> QED  BY <1>4, <1>7, <1>9, <1>10 DEF IInv

-----------------------------------------------------------------------------
(* The steps between the turns.                                            *)

\* A step that is no turn of the source's tables leaves them true.
LEMMA TablesStill ==
  ASSUME IInv, UNCHANGED <<file, names, adds>>, decls \subseteq decls',
         \A n \in {1, 2, 4}, s \in DOMAIN file.services : Turns(n, s)' = Turns(n, s)
  PROVE  TablesOK'
<1>1. ASSUME NEW s \in DOMAIN file.services
      PROVE  NamesOK(s)' /\ InitsOK(s)' /\ AddsOK(s)'
  <2>1. NamesOK(s) /\ InitsOK(s) /\ AddsOK(s)  BY DEF IInv, TablesOK
  <2>2. Turns(1, s)' = Turns(1, s) /\ Turns(2, s)' = Turns(2, s) /\ Turns(4, s)' = Turns(4, s)
    OBVIOUS
  <2>3. Methods(s)' = Methods(s) /\ ServiceName(s)' = ServiceName(s)  BY DEF Methods, ServiceName
  <2>4. NamesOK(s)'  BY <2>1, <2>2, <2>3 DEF NamesOK
  <2>5. InitsOK(s)'
    <3>1. \A k \in 1 .. Turns(2, s) : \E d \in decls' : InitFor(d, s, k, Methods(s)[k])
      BY <2>1 DEF InitsOK
    <3> QED  BY <2>2, <2>3, <3>1 DEF InitsOK
  <2>6. AddsOK(s)'  BY <2>1, <2>2, <2>3 DEF AddsOK
  <2> QED  BY <2>4, <2>5, <2>6
<1> QED  BY <1>1 DEF TablesOK

\* A step that declares nothing leaves the header's declarations true.
LEMMA HeaderStill == ASSUME IInv, UNCHANGED <<file, decls>> PROVE HeaderOK'
<1>1. \A s : Methods(s)' = Methods(s) /\ ServiceName(s)' = ServiceName(s)
  BY DEF Methods, ServiceName
<1> QED  BY <1>1 DEF HeaderOK, IInv

\* Before the source and outside it, no loop of the source has turned.
LEMMA NoTurns ==
  ASSUME unit \in {"options", "rejected", "crashed", "header"}, NEW n, NEW s
  PROVE  Turns(n, s) = 0
BY DEF Turns

\* What the types of a step that moves the position come to.
LEMMA MoveTypes ==
  ASSUME TypeOK, UNCHANGED <<file, options, flags, texts, names, adds>>,
         unit' \in Units \cup {"options", "done", "rejected", "crashed"},
         service' \in Nat, loop' \in Nat, method' \in Nat, DOMAIN tpl' = DOMAIN InitialVars,
         DOMAIN text' = Units, written' \subseteq Units
  PROVE  TypeOK'
<1>1. /\ names' \in [DOMAIN file.services -> Seq(Seq(STRING))]
      /\ adds' = [s \in DOMAIN file.services |-> adds'[s]]
      /\ \A s \in DOMAIN file.services : IsSequence(adds'[s])
  BY TablesKept
<1> QED  BY <1>1 DEF TypeOK

\* The number of services and of a service's methods.
LEMMA Lengths ==
  ASSUME TypeOK
  PROVE  /\ Len(file.services) \in Nat /\ DOMAIN file.services = 1 .. Len(file.services)
         /\ \A s \in DOMAIN file.services :
              Len(Methods(s)) \in Nat /\ DOMAIN Methods(s) = 1 .. Len(Methods(s))
<1> DEFINE S == [name : Seq(STRING), methods : Seq(MethodRecords)]
<1>1. file.services \in Seq(S)  BY FileTypes
<1>2. \A s \in DOMAIN file.services : Methods(s) \in Seq(MethodRecords)  BY FileTypes
<1> HIDE DEF S
<1> QED  BY <1>1, <1>2

\* The first state.
LEMMA InitIInv == Init => IInv
<1> SUFFICES ASSUME Init PROVE IInv  OBVIOUS
<1>1. TypeOK
  <2>1. file \in Files /\ options \in Seq([key : STRING, val : STRING])
    <3>1. Parameters \subseteq Seq([key : STRING, val : STRING])  BY CppGeneratorAssumption, Zenon
    <3>2. file \in Files /\ options \in Parameters  BY DEF Init
    <3> QED  BY <3>1, <3>2, Zenon
  <2>2. flags \in [Flags -> BOOLEAN] /\ DOMAIN texts = Texts
    <3> DEFINE On == {"use_system_headers", "allow_sync_server_api", "allow_cq_api"}
    <3>1. flags = [f \in Flags |-> f \in On] /\ texts = [t \in Texts |-> ""]  BY DEF Init
    <3> HIDE DEF On
    <3>2. [f \in Flags |-> f \in On] \in [Flags -> BOOLEAN]  OBVIOUS
    <3> QED  BY <3>1, <3>2
  <2>3. unit = "options" /\ service = 0 /\ loop = 0 /\ method = 0  BY DEF Init
  <2>4. DOMAIN tpl = DOMAIN InitialVars /\ DOMAIN text = Units /\ written \subseteq Units  BY DEF Init
  <2>5. names \in [DOMAIN file.services -> Seq(Seq(STRING))]
    <3>1. <<>> \in Seq(Seq(STRING))  OBVIOUS
    <3> QED  BY <3>1 DEF Init
  <2>6. adds = [s \in DOMAIN file.services |-> adds[s]] /\ \A s \in DOMAIN file.services : adds[s] = <<>>
    BY DEF Init
  <2>7. IsSequence(<<>>)  BY DEF IsSequence
  <2>8. \A s \in DOMAIN file.services : IsSequence(adds[s])  BY <2>6, <2>7
  <2> QED  BY <2>1, <2>2, <2>3, <2>4, <2>5, <2>6, <2>8 DEF TypeOK
<1>2. PositionOK  BY DEF Init, PositionOK, Printing, Units
<1>3. TemplatesOK  BY DEF Init, TemplatesOK, Printing, Units
<1>4. TablesOK
  <2>1. ASSUME NEW s \in DOMAIN file.services  PROVE NamesOK(s) /\ InitsOK(s) /\ AddsOK(s)
    <3>1. \A n \in {1, 2, 4} : Turns(n, s) = 0  BY NoTurns DEF Init
    <3>2. names[s] = <<>> /\ adds[s] = <<>>  BY DEF Init
    <3>3. NamesOK(s)  BY <3>1, <3>2 DEF NamesOK
    <3>4. InitsOK(s)  BY <3>1 DEF InitsOK
    <3>5. AddsOK(s)  BY <3>1, <3>2 DEF AddsOK
    <3> QED  BY <3>3, <3>4, <3>5
  <2> QED  BY <2>1 DEF TablesOK
<1>5. HeaderOK  BY DEF Init, HeaderOK
<1>6. WrittenOK  BY DEF Init, WrittenOK
<1> QED  BY <1>1, <1>2, <1>3, <1>4, <1>5, <1>6 DEF IInv

\* Generate returns before it has printed anything.
LEMMA StopsKeeps ==
  ASSUME IInv, unit = "options", unit' \in {"rejected", "crashed"},
         UNCHANGED <<inputVars, service, loop, method, tpl, printedVars, fileVars>>
  PROVE  IInv'
<1>1. /\ UNCHANGED <<file, options, flags, texts, service, loop, method, tpl, decls, names, adds>>
      /\ UNCHANGED <<text, written>>
  BY DEF inputVars, printedVars, fileVars
<1>2. TypeOK'  BY <1>1, MoveTypes DEF IInv, TypeOK
<1>3. PositionOK' /\ TemplatesOK'
  BY <1>1 DEF PositionOK, TemplatesOK, Printing, Units, IInv
<1>4. TablesOK'
  <2>1. ASSUME NEW n \in {1, 2, 4}, NEW s \in DOMAIN file.services  PROVE Turns(n, s)' = Turns(n, s)
    BY <1>1 DEF Turns
  <2> QED  BY <1>1, <2>1, TablesStill
<1>5. HeaderOK'  BY <1>1, HeaderStill
<1>6. WrittenOK'  BY <1>1 DEF WrittenOK, IInv
<1> QED  BY <1>2, <1>3, <1>4, <1>5, <1>6 DEF IInv

\* An option.
LEMMA ParseOptionKeeps == ASSUME IInv, ParseOption PROVE IInv'
<1>1. /\ unit = "options" /\ UNCHANGED <<file, unit, service, loop, method, tpl, decls, names, adds>>
      /\ UNCHANGED <<text, written>> /\ options # <<>> /\ options' = Tail(options)
  BY DEF ParseOption, Reading, position, printedVars, fileVars
<1>2. flags' \in [Flags -> BOOLEAN] /\ DOMAIN texts' = Texts
  <2>1. flags \in [Flags -> BOOLEAN] /\ DOMAIN texts = Texts  BY DEF IInv, TypeOK
  <2>2. PICK key, val : SetOption(key, val)  BY DEF ParseOption
  <2> QED  BY <2>1, <2>2 DEF SetOption
<1>3. options' \in Seq([key : STRING, val : STRING])
  <2> DEFINE S == [key : STRING, val : STRING]
  <2>1. options \in Seq(S)  BY DEF IInv, TypeOK
  <2>2. options # <<>> /\ options' = Tail(options)  BY <1>1
  <2> HIDE DEF S
  <2>3. options' \in Seq(S)  BY <2>1, <2>2, HeadTailProperties
  <2> QED  BY <2>3 DEF S
<1>4. TypeOK'
  <2>1. /\ names' \in [DOMAIN file.services -> Seq(Seq(STRING))]
        /\ adds' = [s \in DOMAIN file.services |-> adds'[s]]
        /\ \A s \in DOMAIN file.services : IsSequence(adds'[s])
    BY <1>1, TablesKept DEF IInv
  <2> QED  BY <1>1, <1>2, <1>3, <2>1 DEF TypeOK, IInv
<1>5. PositionOK' /\ TemplatesOK'
  BY <1>1 DEF PositionOK, TemplatesOK, Printing, Units, IInv
<1>6. TablesOK'
  <2>1. ASSUME NEW n \in {1, 2, 4}, NEW s \in DOMAIN file.services  PROVE Turns(n, s)' = Turns(n, s)
    BY <1>1 DEF Turns
  <2> QED  BY <1>1, <2>1, TablesStill
<1>7. HeaderOK'  BY <1>1, HeaderStill
<1>8. WrittenOK'  BY <1>1 DEF WrittenOK, IInv
<1> QED  BY <1>4, <1>5, <1>6, <1>7, <1>8 DEF IInv

\* The map a unit starts from.
LEMMA BeginShape ==
  ASSUME TypeOK, NEW u, Begin(u)
  PROVE  /\ unit' = u /\ service' = 1 /\ loop' = 0 /\ method' = 0
         /\ DOMAIN tpl' = DOMAIN InitialVars /\ tpl'.Package = file.package
BY DEF Begin, InitialVars

\* A unit begins, when the one before it has counted all its turns, or none.
LEMMA BeginKeeps ==
  ASSUME IInv, NEW u \in Units, Begin(u), UNCHANGED <<inputVars, printedVars>>,
         DOMAIN text' = Units, written' \subseteq Units, WrittenOK',
         \/ unit = "options" /\ u = "header"
         \/ unit = "header" /\ u = "source"
         \/ unit = "source" /\ u = "mock" /\ service > Len(file.services)
  PROVE  IInv'
<1>1. UNCHANGED <<file, options, flags, texts, decls, names, adds>>
  BY DEF inputVars, printedVars
<1>2. /\ unit' = u /\ service' = 1 /\ loop' = 0 /\ method' = 0
      /\ DOMAIN tpl' = DOMAIN InitialVars /\ tpl'.Package = file.package
  BY BeginShape DEF IInv
<1>3. TypeOK'  BY <1>1, <1>2, MoveTypes DEF IInv
<1>4. Len(file.services) \in Nat /\ DOMAIN file.services = 1 .. Len(file.services)
  BY Lengths DEF IInv
<1>5. PositionOK'
  <2>1. Printing' => 0 \in 0 .. Len(Loops)' + 1
    <3>1. Len(Loops)' \in {25, 5, 1}
      BY <1>2 DEF Loops, LoopsOf, HeaderLoops, SourceLoops, MockLoops, Units
    <3> QED  BY <3>1
  <2>2. ~(loop' \in DOMAIN Loops')
    BY <1>2 DEF Loops, LoopsOf, HeaderLoops, SourceLoops, MockLoops, Units
  <2> QED  BY <1>1, <1>2, <1>4, <2>1, <2>2 DEF PositionOK, Units
<1>6. TemplatesOK'  BY <1>1, <1>2 DEF TemplatesOK
<1>7. TablesOK'
  <2>1. ASSUME NEW n \in {1, 2, 4}, NEW s \in DOMAIN file.services  PROVE Turns(n, s)' = Turns(n, s)
    <3>1. Methods(s)' = Methods(s)  BY <1>1 DEF Methods
    <3>2. s \in 1 .. Len(file.services) /\ service \in Nat  BY <1>4 DEF IInv, TypeOK
    <3> QED  BY <1>2, <1>4, <3>1, <3>2 DEF Turns
  <2> QED  BY <1>1, <2>1, TablesStill
<1>8. HeaderOK'  BY <1>1, HeaderStill
<1> QED  BY <1>3, <1>5, <1>6, <1>7, <1>8 DEF IInv

\* The header begins.
LEMMA GetHeaderServicesKeeps == ASSUME IInv, GetHeaderServices PROVE IInv'
<1>1. /\ unit = "options" /\ Begin("header") /\ UNCHANGED <<inputVars, printedVars>>
      /\ text' = text /\ written' = written
  BY DEF GetHeaderServices, Reading, fileVars
<1>2. unit' = "header"  BY <1>1 DEF Begin
<1>3. WrittenOK'  BY <1>1, <1>2 DEF WrittenOK, IInv
<1>4. DOMAIN text' = Units /\ written' \subseteq Units  BY <1>1 DEF IInv, TypeOK
<1> QED  BY <1>1, <1>3, <1>4, BeginKeeps DEF Units

\* A file that is written.
LEMMA WriteTypes ==
  ASSUME TypeOK, NEW u \in Units, Write(u)
  PROVE  DOMAIN text' = Units /\ written' \subseteq Units /\ written' = written \cup {u}
BY DEF Write, TypeOK

\* The header is written and the source begins.
LEMMA WriteHeaderKeeps == ASSUME IInv, WriteHeader PROVE IInv'
<1>1. /\ unit = "header" /\ Write("header") /\ Begin("source") /\ UNCHANGED <<inputVars, printedVars>>
  BY DEF WriteHeader, Finished
<1>2. DOMAIN text' = Units /\ written' \subseteq Units /\ written' = written \cup {"header"}
  BY <1>1, WriteTypes DEF IInv, Units
<1>3. unit' = "source"  BY <1>1 DEF Begin
<1>4. WrittenOK'  BY <1>1, <1>2, <1>3 DEF WrittenOK, IInv
<1> QED  BY <1>1, <1>2, <1>4, BeginKeeps DEF Units

\* Generate returns with its files written.
LEMMA ReturnsKeeps ==
  ASSUME IInv, unit \in {"source", "mock"}, service > Len(file.services), unit' = "done",
         Write(unit), UNCHANGED <<inputVars, printedVars, service, loop, method, tpl>>
  PROVE  IInv'
<1>1. UNCHANGED <<file, options, flags, texts, service, loop, method, tpl, decls, names, adds>>
  BY DEF inputVars, printedVars
<1>2. DOMAIN text' = Units /\ written' \subseteq Units /\ written' = written \cup {unit}
  BY WriteTypes DEF IInv, Units
<1>3. TypeOK'  BY <1>1, <1>2, MoveTypes DEF IInv, TypeOK
<1>4. /\ Len(file.services) \in Nat /\ DOMAIN file.services = 1 .. Len(file.services)
      /\ service \in Nat
  BY Lengths DEF IInv, TypeOK
<1>5. service = Len(file.services) + 1
  <2>1. service \in 1 .. Len(file.services) + 1  BY DEF IInv, PositionOK, Units
  <2> QED  BY <1>4, <2>1
<1>6. PositionOK' /\ TemplatesOK'
  <2>1. loop = 0 => method = 0  BY DEF IInv, PositionOK
  <2> QED  BY <1>1, <1>5, <2>1 DEF PositionOK, TemplatesOK, Printing, Units
<1>7. TablesOK'
  <2>1. ASSUME NEW n \in {1, 2, 4}, NEW s \in DOMAIN file.services  PROVE Turns(n, s)' = Turns(n, s)
    <3>1. Methods(s)' = Methods(s)  BY <1>1 DEF Methods
    <3>2. s < service  BY <1>4, <1>5
    <3> QED  BY <1>1, <3>1, <3>2 DEF Turns
  <2> QED  BY <1>1, <2>1, TablesStill
<1>8. HeaderOK'  BY <1>1, HeaderStill
<1>9. WrittenOK'  BY <1>2 DEF WrittenOK, IInv
<1> QED  BY <1>3, <1>6, <1>7, <1>8, <1>9 DEF IInv

\* The source is written.
LEMMA WriteSourceKeeps == ASSUME IInv, WriteSource PROVE IInv'
<1>1. /\ unit = "source" /\ service > Len(file.services) /\ Write("source")
      /\ UNCHANGED <<inputVars, printedVars>>
  BY DEF WriteSource, Finished
<1>2. CASE Begin("mock")
  <2>1. DOMAIN text' = Units /\ written' \subseteq Units /\ written' = written \cup {"source"}
    BY <1>1, WriteTypes DEF IInv, Units
  <2>2. unit' = "mock"  BY <1>2 DEF Begin
  <2>3. WrittenOK'  BY <1>1, <2>1, <2>2 DEF WrittenOK, IInv
  <2> QED  BY <1>1, <1>2, <2>1, <2>3, BeginKeeps DEF Units
<1>3. CASE unit' = "done" /\ UNCHANGED <<service, loop, method, tpl>>
  BY <1>1, <1>3, ReturnsKeeps
<1> QED  BY <1>2, <1>3 DEF WriteSource

\* The mock is written.
LEMMA WriteMockKeeps == ASSUME IInv, WriteMock PROVE IInv'
<1>1. /\ unit = "mock" /\ service > Len(file.services) /\ Write("mock") /\ unit' = "done"
      /\ UNCHANGED <<inputVars, printedVars, service, loop, method, tpl>>
  BY DEF WriteMock, Finished
<1> QED  BY <1>1, ReturnsKeeps

\* What the header says of a service outside its loops: no slot, and one full name.
LEMMA HeaderFixedShape ==
  ASSUME NEW v, NEW d \in HeaderFixed(v)
  PROVE  DOMAIN d = Fields /\ d.slot = NoSlot /\ (d.name = FullName => d.ret = v.Package \o v.Service)
<1> DEFINE full == Decl(<<>>, <<"service_full_name">>, <<>>, v.Package \o v.Service, "inline")
           interface == Decl(StubInterface, <<"async">>, <<>>, <<"async", "Interface">>, "default")
           async == Decl(Stub, <<"async">>, <<>>, <<"async">>, "override")
           stub == Decl(Stub, Stub, ChannelAndOptions, <<>>, "declared")
           new == Decl(<<>>, <<"NewStub">>, ChannelAndOptions, <<"unique_ptr", "Stub">>, "declared")
           ctor == Decl(Service, Service, <<>>, <<>>, "declared")
           dtor == Decl(Service, <<"~">> \o Service, <<>>, <<>>, "virtual")
           body == Body(async, <<"async_stub_">>, <<>>)
<1>1. d \in {full, interface, body, stub, new, ctor, dtor}  BY DEF HeaderFixed
<1>2. /\ full.name = FullName /\ full.ret = v.Package \o v.Service
      /\ interface.name = <<"async">> /\ async.name = <<"async">> /\ stub.name = Stub
      /\ new.name = <<"NewStub">> /\ ctor.name = Service /\ dtor.name = <<"~">> \o Service
  <2>1. full.name = FullName /\ full.ret = v.Package \o v.Service
    <3> DEFINE ret == v.Package \o v.Service
    <3>1. full = Decl(<<>>, FullName, <<>>, ret, "inline")  BY DEF FullName
    <3> HIDE DEF full, ret
    <3>2. full.name = FullName /\ full.ret = ret  BY <3>1, DeclShape
    <3> QED  BY <3>2 DEF ret
  <2>2. interface.name = <<"async">> /\ async.name = <<"async">>  BY DeclShape
  <2>3. stub.name = Stub /\ new.name = <<"NewStub">>  BY DeclShape
  <2>4. ctor.name = Service  BY DeclShape
  <2>5. dtor.name = <<"~">> \o Service
    <3> DEFINE name == <<"~">> \o Service
    <3>1. dtor = Decl(Service, name, <<>>, <<>>, "virtual")  OBVIOUS
    <3> HIDE DEF dtor, name
    <3>2. dtor.name = name  BY <3>1, DeclShape
    <3> QED  BY <3>2 DEF name
  <2> QED  BY <2>1, <2>2, <2>3, <2>4, <2>5
<1>3. \A e \in {full, interface, async, stub, new, ctor, dtor} : DOMAIN e = Fields /\ e.slot = NoSlot
  BY DeclShape
<1> HIDE DEF full, interface, async, stub, new, ctor, dtor
<1>4. DOMAIN body = Fields /\ body.slot = NoSlot /\ body.name = <<"async">>
  BY <1>2, <1>3, BodyShape
<1> HIDE DEF body
<1>5. /\ <<"async">> # FullName /\ Stub # FullName /\ <<"NewStub">> # FullName /\ Service # FullName
      /\ <<"~">> \o Service # FullName
  BY DEF FullName, Stub, Service
<1> QED  BY <1>1, <1>2, <1>3, <1>4, <1>5

\* What the source says of a service outside its loops.
LEMMA SourceFixedShape == \A d \in SourceFixed : DOMAIN d = Fields
BY DeclShape DEF SourceFixed

\* Where the step of a loop or of a service leaves the position.
LEMMA PlaceTypes ==
  ASSUME IInv, Printing
  PROVE  /\ unit \in Units /\ service \in DOMAIN file.services /\ service \in Nat /\ loop \in Nat
         /\ method \in Nat /\ loop \in 0 .. Len(Loops) + 1 /\ Len(Loops) \in {25, 5, 1}
         /\ DOMAIN Loops = 1 .. Len(Loops) /\ DOMAIN tpl = DOMAIN InitialVars
         /\ Len(Methods(service)) \in Nat /\ DOMAIN Methods(service) = 1 .. Len(Methods(service))
         /\ service \in 1 .. Len(file.services) /\ Len(file.services) \in Nat
<1>1. TypeOK /\ unit \in Units /\ service \in DOMAIN file.services  BY DEF Printing, IInv
<1>2. loop \in 0 .. Len(Loops) + 1  BY DEF PositionOK, IInv
<1>3. Len(Loops) \in {25, 5, 1} /\ DOMAIN Loops = 1 .. Len(Loops)  BY <1>1, LoopUnits DEF Units
<1>4. service \in Nat /\ loop \in Nat /\ method \in Nat /\ DOMAIN tpl = DOMAIN InitialVars
  BY <1>1 DEF TypeOK
<1> QED  BY <1>1, <1>2, <1>3, <1>4, Lengths

\* A service is opened.
LEMMA OpenServiceKeeps == ASSUME IInv, OpenService PROVE IInv'
<1> DEFINE v == [tpl EXCEPT !.Service = ServiceName(service)]
           fixed == CASE unit = "header" -> HeaderFixed(v) [] unit = "source" -> SourceFixed
                      [] unit = "mock" -> {}
<1>1. /\ Printing /\ loop = 0 /\ tpl' = v /\ loop' = 1 /\ method' = 1
      /\ UNCHANGED <<inputVars, unit, service, names, adds, typedefs, fileVars>>
      /\ decls' = decls \cup Stamped(fixed)
  BY DEF OpenService
<1>2. UNCHANGED <<file, options, flags, texts, text, written>>  BY <1>1 DEF inputVars, fileVars
<1>3. DOMAIN v = DOMAIN InitialVars /\ v.Service = ServiceName(service) /\ v.Package = tpl.Package
  BY <1>1, PlaceTypes DEF InitialVars
<1>4. tpl.Package = file.package  BY <1>1, PlaceTypes DEF IInv, TemplatesOK
<1>5. /\ Loops' = Loops
      /\ \A s : Methods(s)' = Methods(s) /\ ServiceName(s)' = ServiceName(s)
  BY <1>1, SamePlace
<1> HIDE DEF v
<1>6. TypeOK'  BY <1>1, <1>2, <1>3, MoveTypes DEF IInv, TypeOK
<1>7. PositionOK'
  <2>1. Methods(service)' = Methods(service)  BY <1>1, <1>5 DEF Methods
  <2>2. 1 \in 0 .. Len(Loops) + 1 /\ 1 \in 1 .. Len(Methods(service)) + 1  BY <1>1, PlaceTypes
  <2>3. unit # "done"  BY <1>1, PlaceTypes DEF Units
  <2>4. service \in 1 .. Len(file.services) + 1  BY <1>1, PlaceTypes
  <2> QED  BY <1>1, <1>2, <1>5, <2>1, <2>2, <2>3, <2>4 DEF PositionOK
<1>8. TemplatesOK'
  <2>1. ServiceName(service)' = ServiceName(service)  BY <1>1, <1>5 DEF ServiceName
  <2> QED  BY <1>1, <1>2, <1>3, <1>4, <2>1 DEF TemplatesOK
<1>9. TablesOK'
  <2>1. ASSUME NEW n \in {1, 2, 4}, NEW s \in DOMAIN file.services  PROVE Turns(n, s)' = Turns(n, s)
    <3>1. Methods(s)' = Methods(s)  BY <1>5
    <3> QED  BY <1>1, <3>1 DEF Turns
  <2> QED  BY <1>1, <1>2, <2>1, TablesStill
<1>10. HeaderOK'
  <2>1. CASE unit = "header"
    <3>1. fixed = HeaderFixed(v)  BY <2>1
    <3>2. \A d \in fixed : DOMAIN d = Fields /\ d.slot = NoSlot
                           /\ (d.name = FullName => d.ret = file.package \o ServiceName(service))
      BY <1>3, <1>4, <3>1, HeaderFixedShape
    <3> HIDE DEF fixed
    <3>3. ASSUME NEW e \in Stamped(fixed)
          PROVE  /\ e.service \in DOMAIN file.services /\ e.slot = NoSlot
                 /\ e.name = FullName => e.ret = file.package \o ServiceName(e.service)
      <4>1. e.service = service  BY <3>2, StampedShape
      <4>2. PICK d \in fixed : e.name = d.name /\ e.ret = d.ret /\ e.slot = d.slot
        BY <3>2, StampedShape
      <4> QED  BY <1>1, <3>2, <4>1, <4>2, PlaceTypes
    <3>4. \A d \in decls' : d.unit = "header" =>
            /\ d.service \in DOMAIN file.services
            /\ d.name = FullName /\ d.method = 0 => d.ret = file.package \o ServiceName(d.service)
            /\ d.slot # NoSlot =>
                 /\ d.slot \in DOMAIN Methods(d.service)
                 /\ \E mixin \in Mixins : d.of = <<mixin>> \o Methods(d.service)[d.slot].name
      BY <1>1, <3>3 DEF HeaderOK, IInv
    <3> QED  BY <1>2, <1>5, <3>4 DEF HeaderOK
  <2>2. CASE unit # "header"
    <3>1. \A d \in fixed : DOMAIN d = Fields
      <4>1. CASE unit = "source"  BY <4>1, SourceFixedShape
      <4>2. CASE unit = "mock"  BY <4>2
      <4> QED  BY <1>1, <2>2, <4>1, <4>2, PlaceTypes DEF Units
    <3> HIDE DEF fixed
    <3>2. \A e \in Stamped(fixed) : e.unit # "header"  BY <2>2, <3>1, StampedShape
    <3>3. \A d \in decls' : d.unit = "header" => d \in decls  BY <1>1, <3>2
    <3> QED  BY <1>2, <1>5, <3>3 DEF HeaderOK, IInv
  <2> QED  BY <2>1, <2>2
<1>11. WrittenOK'  BY <1>1, <1>2 DEF WrittenOK, IInv
<1> QED  BY <1>6, <1>7, <1>8, <1>9, <1>10, <1>11 DEF IInv

\* A loop is left, or skipped: in the source, with all its turns counted.
LEMMA LeavesLoop ==
  ASSUME IInv, Printing, loop \in DOMAIN Loops, loop' = loop + 1, method' = 1,
         UNCHANGED <<inputVars, unit, service, tpl, decls, names, adds, fileVars>>,
         unit = "source" /\ loop \in {1, 2, 4} => method > Len(Methods(service))
  PROVE  IInv'
<1>1. UNCHANGED <<file, options, flags, texts, text, written>>  BY DEF inputVars, fileVars
<1>2. /\ Loops' = Loops /\ (Printing' <=> Printing)
      /\ \A s : Methods(s)' = Methods(s) /\ ServiceName(s)' = ServiceName(s)
  BY SamePlace
<1>3. TypeOK'
  <2>1. loop' \in Nat /\ method' \in Nat /\ service' \in Nat  BY PlaceTypes
  <2>2. /\ unit' \in Units \cup {"options", "done", "rejected", "crashed"}
        /\ DOMAIN tpl' = DOMAIN InitialVars
    BY PlaceTypes
  <2>3. TypeOK /\ DOMAIN text' = Units /\ written' \subseteq Units  BY <1>1 DEF IInv, TypeOK
  <2> QED  BY <1>1, <2>1, <2>2, <2>3, MoveTypes
<1>4. PositionOK'
  <2>1. Methods(service)' = Methods(service)  BY <1>2 DEF Methods
  <2>2. loop + 1 \in 0 .. Len(Loops) + 1 /\ 1 \in 1 .. Len(Methods(service)) + 1 /\ loop + 1 # 0
    BY PlaceTypes
  <2>3. unit # "done" /\ service \in 1 .. Len(file.services) + 1  BY PlaceTypes DEF Units
  <2> QED  BY <1>1, <1>2, <2>1, <2>2, <2>3 DEF PositionOK
<1>5. TemplatesOK'
  <2>1. ServiceName(service)' = ServiceName(service) /\ loop # 0  BY <1>2, PlaceTypes DEF ServiceName
  <2> QED  BY <1>1, <1>2, <2>1 DEF TemplatesOK, IInv
<1>6. TablesOK'
  <2>1. ASSUME NEW n \in {1, 2, 4}, NEW s \in DOMAIN file.services  PROVE Turns(n, s)' = Turns(n, s)
    <3>1. Methods(s)' = Methods(s)  BY <1>2
    <3>2. CASE unit = "source" /\ s = service /\ n = loop
      <4>1. method \in 1 .. Len(Methods(service)) + 1  BY DEF PositionOK, IInv
      <4>2. method - 1 = Len(Methods(service))  BY <3>2, <4>1, PlaceTypes
      <4> QED  BY <3>1, <3>2, <4>2, PlaceTypes DEF Turns
    <3>3. CASE ~(unit = "source" /\ s = service /\ n = loop)
      BY <3>1, <3>3, PlaceTypes DEF Turns
    <3> QED  BY <3>2, <3>3
  <2> QED  BY <1>1, <2>1, TablesStill
<1>7. HeaderOK'  BY <1>1, HeaderStill
<1>8. WrittenOK'  BY <1>1 DEF WrittenOK, IInv
<1> QED  BY <1>3, <1>4, <1>5, <1>6, <1>7, <1>8 DEF IInv

\* The next loop.
LEMMA NextLoopKeeps == ASSUME IInv, NextLoop PROVE IInv'
<1>1. /\ Printing /\ loop \in DOMAIN Loops /\ loop' = loop + 1 /\ method' = 1
      /\ UNCHANGED <<inputVars, unit, service, tpl, printedVars, fileVars>>
  BY DEF NextLoop
<1>2. UNCHANGED <<inputVars, unit, service, tpl, decls, names, adds, fileVars>>  BY <1>1 DEF printedVars
<1>3. ASSUME unit = "source", loop \in {1, 2, 4}  PROVE method > Len(Methods(service))
  <2>1. Loops[loop] \in {"Names", "Inits", "Adds"}  BY <1>3, LoopUnits
  <2>2. Allowed(Loops[loop])  BY <2>1 DEF Allowed
  <2> QED  BY <2>2 DEF NextLoop
<1> QED  BY <1>1, <1>2, <1>3, LeavesLoop

\* The loops of a typedef are the header's.
LEMMA TypedefTurn ==
  ASSUME IInv, NEW t \in Typedefs, NEW l \in {t, End(t)}, At(l), Turn(tpl), UNCHANGED <<decls, names, adds>>
  PROVE  IInv'
<1>1. l \notin {"Names", "Inits", "SourceClient", "Adds", "SourceServer", "MockMethods"}
  BY DEF Typedefs, End
<1>2. /\ unit = "header" /\ unit \in Units /\ loop \in Nat /\ service \in Nat
      /\ method \in Nat \ {0} /\ DOMAIN tpl = DOMAIN InitialVars
  BY <1>1, AtTypes, LoopNames
<1>3. /\ tpl' = tpl /\ method' = method + 1
      /\ UNCHANGED <<file, options, flags, texts, unit, service, loop, text, written, names, adds, decls>>
  BY DEF Turn, inputVars, fileVars
<1>4. TypeOK'
  <2>1. TypeOK /\ DOMAIN text' = Units /\ written' \subseteq Units  BY <1>3 DEF IInv, TypeOK
  <2> QED  BY <1>2, <1>3, <2>1, MoveTypes
<1>5. PositionOK' /\ TemplatesOK' /\ WrittenOK'
  <2>1. Keeps(tpl, tpl)  BY <1>2 DEF Keeps
  <2> QED  BY <2>1, TurnPosition
<1>6. \A n \in {1, 2, 4}, s \in DOMAIN file.services : Turns(n, s)' = Turns(n, s)
  BY <1>2, <1>3 DEF Turns
<1> QED  BY <1>3, <1>4, <1>5, <1>6, TablesStill, HeaderStill DEF IInv

\* A mixin of a typedef, and a bracket.
LEMMA PrintTypedefMixinKeeps == ASSUME IInv, PrintTypedefMixin PROVE IInv'
<1>1. PICK t \in Typedefs : At(t) /\ Turn(tpl) /\ UNCHANGED <<decls, names, adds>>
  BY DEF PrintTypedefMixin
<1> QED  BY <1>1, TypedefTurn

LEMMA PrintTypedefBracketKeeps == ASSUME IInv, PrintTypedefBracket PROVE IInv'
<1>1. PICK t \in Typedefs : At(End(t)) /\ Turn(tpl) /\ UNCHANGED <<decls, names, adds>>
  BY DEF PrintTypedefBracket
<1> QED  BY <1>1, TypedefTurn

\* A service is closed.
LEMMA CloseServiceKeeps == ASSUME IInv, CloseService PROVE IInv'
<1>1. /\ Printing /\ loop > Len(Loops) /\ service' = service + 1 /\ loop' = 0 /\ method' = 0
      /\ UNCHANGED <<inputVars, unit, tpl, printedVars, fileVars>>
  BY DEF CloseService
<1>2. UNCHANGED <<file, options, flags, texts, decls, names, adds, text, written>>
  BY <1>1 DEF inputVars, printedVars, fileVars
<1>3. TypeOK'
  <2>1. loop' \in Nat /\ method' \in Nat /\ service' \in Nat  BY <1>1, PlaceTypes
  <2>2. /\ unit' \in Units \cup {"options", "done", "rejected", "crashed"}
        /\ DOMAIN tpl' = DOMAIN InitialVars
    BY <1>1, PlaceTypes
  <2>3. TypeOK /\ DOMAIN text' = Units /\ written' \subseteq Units  BY <1>2 DEF IInv, TypeOK
  <2> QED  BY <1>2, <2>1, <2>2, <2>3, MoveTypes
<1>4. Loops' = Loops  BY <1>1, SamePlace
<1>5. PositionOK'
  <2>1. service + 1 \in 1 .. Len(file.services) + 1 /\ 0 \in 0 .. Len(Loops) + 1 /\ 0 \notin DOMAIN Loops
    BY <1>1, PlaceTypes
  <2>2. unit # "done"  BY <1>1, PlaceTypes DEF Units
  <2> QED  BY <1>1, <1>2, <1>4, <2>1, <2>2 DEF PositionOK
<1>6. TemplatesOK'  BY <1>1, <1>2 DEF TemplatesOK, IInv
<1>7. TablesOK'
  <2>1. ASSUME NEW n \in {1, 2, 4}, NEW s \in DOMAIN file.services  PROVE Turns(n, s)' = Turns(n, s)
    <3>1. Methods(s)' = Methods(s)  BY <1>2 DEF Methods
    <3>2. unit = "source" => n < loop
      <4>1. unit = "source" => Len(Loops) = 5  BY LoopUnits
      <4> QED  BY <1>1, <4>1, PlaceTypes
    <3>3. s \in Nat  BY Lengths DEF IInv
    <3>4. n \in Nat /\ n # 0 /\ ~(n < 0)  OBVIOUS
    <3>5. service \in Nat /\ loop \in Nat  BY <1>1, PlaceTypes
    <3>6. unit' = unit /\ service' = service + 1 /\ loop' = 0  BY <1>1
    <3> QED  BY <3>1, <3>2, <3>3, <3>4, <3>5, <3>6 DEF Turns
  <2> QED  BY <1>2, <2>1, TablesStill
<1>8. HeaderOK'  BY <1>2, HeaderStill
<1>9. WrittenOK'  BY <1>1, <1>2 DEF WrittenOK, IInv
<1> QED  BY <1>3, <1>5, <1>6, <1>7, <1>8, <1>9 DEF IInv

\* A step that changes nothing.
LEMMA StutterKeeps == ASSUME IInv, UNCHANGED vars PROVE IInv'
<1>1. UNCHANGED <<file, options, flags, texts, unit, service, loop, method, tpl>>
  BY DEF vars, inputVars, position
<1>2. UNCHANGED <<decls, names, adds, text, written>>  BY DEF vars, printedVars, fileVars
<1>3. TypeOK'  BY <1>1, <1>2, MoveTypes DEF IInv, TypeOK
<1>4. PositionOK' /\ TemplatesOK'
  <2>1. UNCHANGED <<inputVars, unit>>  BY <1>1 DEF inputVars
  <2>2. Loops' = Loops /\ (Printing' <=> Printing)  BY <1>1, <2>1, SamePlace
  <2>3. Methods(service)' = Methods(service) /\ ServiceName(service)' = ServiceName(service)
    BY <1>1 DEF Methods, ServiceName
  <2> QED  BY <1>1, <2>2, <2>3 DEF PositionOK, TemplatesOK, IInv
<1>5. TablesOK'
  <2>1. ASSUME NEW n \in {1, 2, 4}, NEW s \in DOMAIN file.services  PROVE Turns(n, s)' = Turns(n, s)
    <3>1. Methods(s)' = Methods(s)  BY <1>1 DEF Methods
    <3> QED  BY <1>1, <3>1 DEF Turns
  <2> QED  BY <1>1, <1>2, <2>1, TablesStill
<1>6. HeaderOK'  BY <1>1, <1>2, HeaderStill
<1>7. WrittenOK'  BY <1>1, <1>2 DEF WrittenOK, IInv
<1> QED  BY <1>3, <1>4, <1>5, <1>6, <1>7 DEF IInv

-----------------------------------------------------------------------------
(* The theorems.                                                           *)

\* Every action keeps the invariant.
LEMMA NextKeeps == ASSUME IInv, [Next]_vars PROVE IInv'
<1>1. CASE RefuseGenericServices
  BY <1>1, StopsKeeps DEF RefuseGenericServices
<1>2. CASE ParseOption  BY <1>2, ParseOptionKeeps
<1>3. CASE RejectOption  BY <1>3, StopsKeeps DEF RejectOption, Reading
<1>4. CASE ReadPastTheEnd  BY <1>4, StopsKeeps DEF ReadPastTheEnd, Reading
<1>5. CASE GetHeaderServices  BY <1>5, GetHeaderServicesKeeps
<1>6. CASE WriteHeader  BY <1>6, WriteHeaderKeeps
<1>7. CASE WriteSource  BY <1>7, WriteSourceKeeps
<1>8. CASE WriteMock  BY <1>8, WriteMockKeeps
<1>9. CASE OpenService  BY <1>9, OpenServiceKeeps
<1>10. CASE NextLoop  BY <1>10, NextLoopKeeps
<1>11. CASE CloseService  BY <1>11, CloseServiceKeeps
<1>12. CASE PrintTypedefMixin \/ PrintTypedefBracket  BY <1>12, PrintTypedefMixinKeeps, PrintTypedefBracketKeeps
<1>13. CASE \/ PrintHeaderClientMethodInterfaces \/ PrintHeaderClientMethodCallbackInterfaces
            \/ PrintHeaderClientMethod \/ PrintHeaderClientMethodCallback \/ PrintHeaderClientMethodData
  BY <1>13, PrintHeaderClientMethodInterfacesKeeps, PrintHeaderClientMethodCallbackInterfacesKeeps,
     PrintHeaderClientMethodKeeps, PrintHeaderClientMethodCallbackKeeps, PrintHeaderClientMethodDataKeeps
<1>14. CASE \/ PrintHeaderServerMethodSync \/ PrintHeaderServerMethodAsync
            \/ PrintHeaderServerMethodCallback \/ PrintHeaderServerMethodGeneric
  BY <1>14, PrintHeaderServerMethodSyncKeeps, PrintHeaderServerMethodAsyncKeeps,
     PrintHeaderServerMethodCallbackKeeps, PrintHeaderServerMethodGenericKeeps
<1>15. CASE \/ PrintHeaderServerMethodRaw \/ PrintHeaderServerMethodRawCallback
            \/ PrintHeaderServerMethodStreamedUnary \/ PrintHeaderServerMethodSplitStreaming
  BY <1>15, PrintHeaderServerMethodRawKeeps, PrintHeaderServerMethodRawCallbackKeeps,
     PrintHeaderServerMethodStreamedUnaryKeeps, PrintHeaderServerMethodSplitStreamingKeeps
<1>16. CASE PrintMethodName \/ PrintMethodInit \/ PrintSourceClientMethod
  BY <1>16, PrintMethodNameKeeps, PrintMethodInitKeeps, PrintSourceClientMethodKeeps
<1>17. CASE PrintAddMethod \/ PrintSourceServerMethod \/ PrintMockClientMethods
  BY <1>17, PrintAddMethodKeeps, PrintSourceServerMethodKeeps, PrintMockClientMethodsKeeps
<1>18. CASE UNCHANGED vars  BY <1>18, StutterKeeps
<1>19. CASE Generate
  BY <1>1, <1>2, <1>3, <1>4, <1>5, <1>6, <1>7, <1>8, <1>9, <1>10, <1>11, <1>12, <1>13, <1>14,
     <1>15, <1>16, <1>17, <1>19 DEF Generate
<1> QED  BY <1>18, <1>19 DEF Next, Returned

\* At every turn of every loop, the tables of the source hold the methods it has passed,
\* each at its own slot, and what the header marked, it marked with its method's slot.
THEOREM Invariance == Spec => []IInv
<1>1. Init => IInv  BY InitIInv
<1>2. IInv /\ [Next]_vars => IInv'  BY NextKeeps
<1> QED  BY <1>1, <1>2, PTL DEF Spec

\* For any .proto and any options: the table of names, the stub's RpcMethods, the AddMethod
\* calls and the mixins' indices number a service's methods in one way.
THEOREM SlotsTheorem == Spec => []SlotsAgree
<1>1. ASSUME IInv  PROVE SlotsAgree
  <2>1. SUFFICES ASSUME Generated, NEW s \in DOMAIN file.services
                 PROVE  /\ DOMAIN names[s] = DOMAIN Methods(s) /\ DOMAIN adds[s] = DOMAIN Methods(s)
                        /\ \A k \in DOMAIN Methods(s) :
                             /\ \A d \in In("header") : d.service = s /\ d.name = FullName /\ d.method = 0
                                  => names[s][k] = d.ret \o Methods(s)[k].name
                             /\ adds[s][k].slot = k /\ adds[s][k].call = Methods(s)[k].name
                             /\ \E d \in decls :
                                  d.service = s /\ d.how = "init" /\ d.slot = k
                                  /\ d.name = <<"rpcmethod_">> \o Methods(s)[k].name
                                  /\ d.ret = <<adds[s][k].type>>
                        /\ \A d \in In("header") : d.service = s /\ d.slot # NoSlot =>
                             /\ d.slot \in DOMAIN Methods(s)
                             /\ \E mixin \in Mixins : d.of = <<mixin>> \o Methods(s)[d.slot].name
    BY DEF SlotsAgree
  <2>2. NamesOK(s) /\ InitsOK(s) /\ AddsOK(s) /\ TypeOK  BY <1>1 DEF IInv, TablesOK
  <2>3. Turns(1, s) = Len(Methods(s)) /\ Turns(2, s) = Len(Methods(s)) /\ Turns(4, s) = Len(Methods(s))
    BY <2>1 DEF Generated, Turns
  <2>4. DOMAIN Methods(s) = 1 .. Len(Methods(s)) /\ Len(Methods(s)) \in Nat  BY <2>2, Lengths
  <2>5. DOMAIN names[s] = 1 .. Len(names[s])
    <3>1. names[s] \in Seq(Seq(STRING))  BY <2>2 DEF TypeOK
    <3> QED  BY <3>1
  <2>6. DOMAIN adds[s] = 1 .. Len(adds[s])
    <3>1. IsSequence(adds[s])  BY <2>2 DEF TypeOK
    <3> QED  BY <3>1 DEF IsSequence
  <2>7. DOMAIN names[s] = DOMAIN Methods(s) /\ DOMAIN adds[s] = DOMAIN Methods(s)
    BY <2>2, <2>3, <2>4, <2>5, <2>6 DEF NamesOK, AddsOK
  <2>8. \A d \in In("header") :
          /\ d.name = FullName /\ d.method = 0 => d.ret = file.package \o ServiceName(d.service)
          /\ d.slot # NoSlot =>
               /\ d.slot \in DOMAIN Methods(d.service)
               /\ \E mixin \in Mixins : d.of = <<mixin>> \o Methods(d.service)[d.slot].name
    BY <1>1 DEF In, IInv, HeaderOK
  <2>9. ASSUME NEW k \in DOMAIN Methods(s)
        PROVE  /\ \A d \in In("header") : d.service = s /\ d.name = FullName /\ d.method = 0
                    => names[s][k] = d.ret \o Methods(s)[k].name
               /\ adds[s][k].slot = k /\ adds[s][k].call = Methods(s)[k].name
               /\ \E d \in decls :
                    d.service = s /\ d.how = "init" /\ d.slot = k
                    /\ d.name = <<"rpcmethod_">> \o Methods(s)[k].name
                    /\ d.ret = <<adds[s][k].type>>
    <3>1. names[s][k] = file.package \o ServiceName(s) \o Methods(s)[k].name
      BY <2>2, <2>7 DEF NamesOK
    <3>2. /\ adds[s][k].slot = k /\ adds[s][k].call = Methods(s)[k].name
          /\ adds[s][k].type = StreamingType(Methods(s)[k])
      BY <2>2, <2>7 DEF AddsOK
    <3>3. \E d \in decls : InitFor(d, s, k, Methods(s)[k])  BY <2>2, <2>3, <2>4 DEF InitsOK
    <3>4. \E d \in decls :
            d.service = s /\ d.how = "init" /\ d.slot = k
            /\ d.name = <<"rpcmethod_">> \o Methods(s)[k].name /\ d.ret = <<adds[s][k].type>>
      BY <3>2, <3>3 DEF InitFor
    <3>5. \A d \in In("header") : d.service = s /\ d.name = FullName /\ d.method = 0
            => names[s][k] = d.ret \o Methods(s)[k].name
      BY <2>8, <3>1
    <3> QED  BY <3>2, <3>4, <3>5
  <2>10. \A d \in In("header") : d.service = s /\ d.slot # NoSlot =>
           /\ d.slot \in DOMAIN Methods(s)
           /\ \E mixin \in Mixins : d.of = <<mixin>> \o Methods(s)[d.slot].name
    BY <2>8
  <2>11. \A k \in DOMAIN Methods(s) :
           /\ \A d \in In("header") : d.service = s /\ d.name = FullName /\ d.method = 0
                => names[s][k] = d.ret \o Methods(s)[k].name
           /\ adds[s][k].slot = k /\ adds[s][k].call = Methods(s)[k].name
           /\ \E d \in decls :
                d.service = s /\ d.how = "init" /\ d.slot = k
                /\ d.name = <<"rpcmethod_">> \o Methods(s)[k].name
                /\ d.ret = <<adds[s][k].type>>
    BY <2>9
  <2> QED  BY <2>7, <2>10, <2>11
<1> QED  BY <1>1, Invariance, PTL

\* What was rejected, or crashed, wrote nothing, and what was generated has both its files.
THEOREM WrittenTheorem == Spec => []NothingHalfWritten
<1>1. IInv => NothingHalfWritten  BY DEF IInv, WrittenOK, NothingHalfWritten, Generated
<1> QED  BY <1>1, Invariance, PTL

=============================================================================
