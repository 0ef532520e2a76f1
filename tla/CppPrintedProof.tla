--------------------------- MODULE CppPrintedProof ---------------------------
(***************************************************************************)
(* Proofs about what CppGenerator has printed around the declarations: the *)
(* typedefs a service is made of, the frame of each file, and the classes  *)
(* of the header, none of which declares a function twice. Each closing    *)
(* loop meets the loop that opened what it closes.                         *)
(***************************************************************************)
EXTENDS CppTablesProof

-----------------------------------------------------------------------------
(* The typedefs.                                                           *)

\* The loops that print them.
TypedefLoops == UNION {{t, End(t)} : t \in Typedefs}

\* Where they stand among the header's.
TypedefPlace(l) ==
  CASE l = "AsyncService" -> 10 [] l = "EndAsyncService" -> 11
    [] l = "CallbackService" -> 13 [] l = "EndCallbackService" -> 14
    [] l = "StreamedUnaryService" -> 19 [] l = "EndStreamedUnaryService" -> 20
    [] l = "SplitStreamedService" -> 22 [] l = "EndSplitStreamedService" -> 23
    [] l = "StreamedService" -> 24 [] l = "EndStreamedService" -> 25

\* Each stands in one place, and all are told apart.
LEMMA TypedefPlaces ==
  /\ \A l \in TypedefLoops, n \in 1 .. 25 : HeaderLoops[n] = l <=> n = TypedefPlace(l)
  /\ \A l \in TypedefLoops : TypedefPlace(l) \in 1 .. 25
  /\ \A t, u \in Typedefs : t # End(u) /\ (End(t) = End(u) => t = u)
  /\ \A t \in Typedefs : t \in TypedefLoops /\ End(t) \in TypedefLoops
                         /\ (Allowed(End(t)) <=> Allowed(t))
<1>1. TypedefLoops = SilentLoops \ {"Names", "Adds"}
  BY DEF TypedefLoops, Typedefs, End, SilentLoops
<1>2. ASSUME NEW l \in TypedefLoops
      PROVE  /\ TypedefPlace(l) \in 1 .. 25 /\ HeaderLoops[TypedefPlace(l)] = l
  <2>1. /\ HeaderLoops[10] = "AsyncService" /\ HeaderLoops[11] = "EndAsyncService"
        /\ HeaderLoops[13] = "CallbackService" /\ HeaderLoops[14] = "EndCallbackService"
        /\ HeaderLoops[19] = "StreamedUnaryService" /\ HeaderLoops[20] = "EndStreamedUnaryService"
        /\ HeaderLoops[22] = "SplitStreamedService" /\ HeaderLoops[23] = "EndSplitStreamedService"
        /\ HeaderLoops[24] = "StreamedService" /\ HeaderLoops[25] = "EndStreamedService"
    BY DEF HeaderLoops
  <2> HIDE DEF HeaderLoops
  <2> QED  BY <1>1, <1>2, <2>1 DEF SilentLoops, TypedefPlace
<1>3. ASSUME NEW l \in TypedefLoops, NEW n \in 1 .. 25, HeaderLoops[n] = l
      PROVE  n = TypedefPlace(l)
  BY <1>1, <1>3 DEF SilentLoops, TypedefPlace, HeaderLoops
<1>4. \A t, u \in Typedefs : t # End(u) /\ (End(t) = End(u) => t = u)
  BY DEF Typedefs, End
<1>5. \A t \in Typedefs : t \in TypedefLoops /\ End(t) \in TypedefLoops  BY DEF TypedefLoops
<1>6. \A t \in Typedefs : Allowed(End(t)) <=> Allowed(t)  BY DEF Typedefs, End, Allowed
<1> QED  BY <1>2, <1>3, <1>4, <1>5, <1>6

\* The turns of one of them that are behind.
LEMMA BehindTurned ==
  ASSUME NEW l \in TypedefLoops, NEW s
  PROVE  Behind(l, s) = {k \in DOMAIN Methods(s) : Allowed(l) /\ Turned("header", s, TypedefPlace(l), k)}
<1>1. DOMAIN HeaderLoops = 1 .. 25  BY DEF HeaderLoops
<1> HIDE DEF HeaderLoops
<1> QED  BY <1>1, TypedefPlaces DEF Behind

\* All are behind once the header is written, none before it is begun.
LEMMA BehindEnds ==
  ASSUME NEW l \in TypedefLoops, NEW s
  PROVE  /\ "header" \in written /\ Allowed(l) => Behind(l, s) = DOMAIN Methods(s)
         /\ "header" \notin written /\ unit # "header" => Behind(l, s) = {}
         /\ Behind(l, s) \subseteq DOMAIN Methods(s)
BY BehindTurned DEF Turned

\* A step that passes no turn of theirs.
LEMMA BehindSame ==
  ASSUME UNCHANGED <<file, flags>>, NEW l \in TypedefLoops, NEW s,
         \A k \in DOMAIN Methods(s) :
           Allowed(l) => (Turned("header", s, TypedefPlace(l), k)' <=> Turned("header", s, TypedefPlace(l), k))
  PROVE  Behind(l, s)' = Behind(l, s)
<1>1. Methods(s)' = Methods(s) /\ (Allowed(l)' <=> Allowed(l))  BY DEF Methods, Allowed, Cq, Sync
<1>2. DOMAIN HeaderLoops = 1 .. 25  BY DEF HeaderLoops
<1> HIDE DEF HeaderLoops
<1>3. Behind(l, s)' = {k \in DOMAIN Methods(s) : Allowed(l) /\ Turned("header", s, TypedefPlace(l), k)'}
  BY <1>1, <1>2, TypedefPlaces DEF Behind
<1> QED  BY <1>3, BehindTurned

\* A step that passes no turn of theirs and prints none keeps the typedefs.
LEMMA TypedefsStill ==
  ASSUME TypedefsKept, UNCHANGED <<file, typedefs>>,
         \A l \in TypedefLoops, s \in DOMAIN file.services : Behind(l, s)' = Behind(l, s)
  PROVE  TypedefsKept'
<1>1. \A s : Methods(s)' = Methods(s)  BY DEF Methods
<1>2. ASSUME NEW s \in DOMAIN file.services, NEW t \in Typedefs
      PROVE  Behind(t, s)' = Behind(t, s) /\ Behind(End(t), s)' = Behind(End(t), s)
  BY TypedefPlaces
<1>3. ASSUME NEW s \in DOMAIN file.services, NEW t \in Typedefs
      PROVE  InOrder(typedefs[<<s, t>>].wraps, t, Methods(s), Behind(t, s))'
  BY <1>1, <1>2 DEF TypedefsKept
<1>4. ASSUME NEW s \in DOMAIN file.services, NEW t \in Typedefs
      PROVE  (typedefs[<<s, t>>].closes = Cardinality({k \in Behind(End(t), s) : Closes(t, Methods(s)[k])}))'
  BY <1>1, <1>2 DEF TypedefsKept
<1> QED  BY <1>3, <1>4 DEF TypedefsKept

\* The header was written before anything else is printed.
LEMMA HeaderFirst ==
  ASSUME IInv
  PROVE  /\ unit \in {"source", "mock", "done"} => "header" \in written
         /\ unit \in {"options", "header", "rejected", "crashed"} => written = {}
BY DEF IInv, WrittenOK

\* A step after which no turn is behind that was not before.
LEMMA TypedefsUnmoved ==
  ASSUME TypedefsKept, UNCHANGED <<file, flags, typedefs>>,
         \A l \in TypedefLoops, s \in DOMAIN file.services : \A k \in DOMAIN Methods(s) :
           Allowed(l) => (Turned("header", s, TypedefPlace(l), k)' <=> Turned("header", s, TypedefPlace(l), k))
  PROVE  TypedefsKept'
BY BehindSame, TypedefsStill

\* The options are read before a turn is behind.
LEMMA OptionsTypedefs ==
  ASSUME IInv, TypedefsKept, unit = "options", unit' \in {"options", "rejected", "crashed"},
         UNCHANGED <<file, typedefs, written>>
  PROVE  TypedefsKept'
<1>1. "header" \notin written  BY HeaderFirst
<1>2. ASSUME NEW l, NEW s  PROVE Behind(l, s)' = {} /\ Behind(l, s) = {}
  <2>1. \A n, k : ~Turned("header", s, n, k) /\ ~Turned("header", s, n, k)'  BY <1>1 DEF Turned
  <2> HIDE DEF HeaderLoops
  <2> QED  BY <2>1 DEF Behind
<1> QED  BY <1>2, TypedefsStill

\* The header is begun.
LEMMA GetHeaderServicesTypedefs == ASSUME IInv, TypedefsKept, GetHeaderServices PROVE TypedefsKept'
<1>1. /\ unit = "options" /\ service' = 1 /\ loop' = 0 /\ method' = 0
      /\ UNCHANGED <<file, flags, typedefs, written>>
  BY DEF GetHeaderServices, Reading, Begin, inputVars, printedVars, fileVars
<1>2. \A s \in DOMAIN file.services : s \in Nat \ {0}  BY SMTT(30), FileTypes DEF IInv
<1>3. "header" \notin written  BY <1>1, HeaderFirst
<1>4. ASSUME NEW l \in TypedefLoops, NEW s \in DOMAIN file.services, NEW k
      PROVE  Turned("header", s, TypedefPlace(l), k)' <=> Turned("header", s, TypedefPlace(l), k)
  <2>1. TypedefPlace(l) \in 1 .. 25 /\ s \in Nat \ {0}  BY <1>2, TypedefPlaces
  <2> QED  BY <1>1, <1>3, <2>1 DEF Turned
<1> QED  BY <1>1, <1>4, TypedefsUnmoved

\* The header is written: all turns were behind.  After that all stay so.
LEMMA WritesTypedefs ==
  ASSUME IInv, TypedefsKept, WriteHeader \/ WriteSource \/ WriteMock
  PROVE  TypedefsKept'
<1>1. UNCHANGED <<file, flags, typedefs>>
  BY DEF WriteHeader, WriteSource, WriteMock, inputVars, printedVars
<1>2. \/ "header" \in written /\ written \subseteq written'
      \/ unit = "header" /\ service > Len(file.services) /\ "header" \in written'
  BY HeaderFirst DEF WriteHeader, WriteSource, WriteMock, Finished, Write
<1>3. \A s \in DOMAIN file.services : s \in 1 .. Len(file.services)  BY Lengths DEF IInv
<1>4. ASSUME NEW s \in DOMAIN file.services, NEW n, NEW k
      PROVE  Turned("header", s, n, k)' /\ Turned("header", s, n, k)
  <2>1. CASE "header" \in written /\ written \subseteq written'  BY <2>1 DEF Turned
  <2>2. CASE unit = "header" /\ service > Len(file.services) /\ "header" \in written'
    <3>1. s < service  BY <1>3, <2>2, Lengths DEF IInv, TypeOK
    <3> QED  BY <2>2, <3>1 DEF Turned
  <2> QED  BY <1>2, <2>1, <2>2
<1> QED  BY <1>1, <1>4, TypedefsUnmoved

\* Outside the header a step of a service passes none of its turns.
LEMMA ElsewhereTypedefs ==
  ASSUME IInv, TypedefsKept, unit \in {"source", "mock"}, UNCHANGED <<file, flags, typedefs, written>>
  PROVE  TypedefsKept'
<1>1. "header" \in written /\ "header" \in written'  BY HeaderFirst
<1>2. \A s, n, k : Turned("header", s, n, k)' /\ Turned("header", s, n, k)  BY <1>1 DEF Turned
<1> QED  BY <1>2, TypedefsUnmoved

\* A service is opened, a loop left, a service closed.
LEMMA BetweenTypedefs ==
  ASSUME IInv, TypedefsKept, OpenService \/ NextLoop \/ CloseService
  PROVE  TypedefsKept'
<1>1. /\ Printing /\ UNCHANGED <<file, flags, typedefs, unit, written>>
      /\ \/ loop = 0 /\ loop' = 1 /\ method' = 1 /\ service' = service
         \/ /\ loop \in DOMAIN Loops /\ loop' = loop + 1 /\ method' = 1 /\ service' = service
            /\ ~Allowed(Loops[loop]) \/ method > Len(Methods(service))
         \/ loop > Len(Loops) /\ service' = service + 1 /\ loop' = 0 /\ method' = 0
  BY DEF OpenService, NextLoop, CloseService, inputVars, printedVars, fileVars
<1>2. /\ unit \in Units /\ service \in Nat /\ loop \in Nat /\ method \in Nat
      /\ DOMAIN Methods(service) = 1 .. Len(Methods(service)) /\ Len(Methods(service)) \in Nat
      /\ \A s \in DOMAIN file.services : s \in Nat /\ DOMAIN Methods(s) \subseteq Nat \ {0}
      /\ loop = 0 => method = 0
  BY <1>1, PlaceOf DEF IInv, PositionOK
<1>3. CASE unit \in {"source", "mock"}  BY <1>1, <1>3, ElsewhereTypedefs
<1>4. CASE unit = "header"
  <2>1. "header" \notin written /\ "header" \notin written'  BY <1>1, <1>4, HeaderFirst
  <2>2. Len(Loops) = 25 /\ DOMAIN Loops = 1 .. 25  BY <1>4, LoopUnits
  <2>3. ASSUME NEW l \in TypedefLoops, NEW s \in DOMAIN file.services, NEW k \in DOMAIN Methods(s), Allowed(l)
        PROVE  Turned("header", s, TypedefPlace(l), k)' <=> Turned("header", s, TypedefPlace(l), k)
    <3> DEFINE n == TypedefPlace(l)
    <3>1. n \in 1 .. 25 /\ HeaderLoops[n] = l /\ s \in Nat /\ k \in Nat \ {0}
      BY <1>2, TypedefPlaces
    <3>2. loop \in DOMAIN Loops /\ n = loop => Loops[loop] = l  BY <1>4, <3>1, LoopUnits
    <3>3. s = service => k \in 1 .. Len(Methods(service))  BY <1>2
    <3> HIDE DEF n, HeaderLoops
    <3>4. Turned("header", s, n, k)' <=> Turned("header", s, n, k)
      BY <1>1, <1>2, <1>4, <2>1, <2>2, <2>3, <3>1, <3>2, <3>3 DEF Turned
    <3> QED  BY <3>4 DEF n
  <2> QED  BY <1>1, <2>3, TypedefsUnmoved
<1> QED  BY <1>2, <1>3, <1>4 DEF Units

\* A turn of another loop.
LEMMA OthersTypedefs ==
  ASSUME IInv, TypedefsKept, NEW l, At(l), l \notin TypedefLoops, NEW v, Turn(v), UNCHANGED typedefs
  PROVE  TypedefsKept'
<1>1. /\ unit \in Units /\ loop \in DOMAIN Loops /\ Loops[loop] = l /\ method' = method + 1
      /\ UNCHANGED <<file, flags, typedefs, unit, service, loop, written>>
  BY AtTypes DEF Turn, inputVars, fileVars
<1>2. CASE unit \in {"source", "mock"}  BY <1>1, <1>2, ElsewhereTypedefs
<1>3. CASE unit = "header"
  <2>1. ASSUME NEW m \in TypedefLoops, NEW s, NEW k
        PROVE  Turned("header", s, TypedefPlace(m), k)' <=> Turned("header", s, TypedefPlace(m), k)
    <3>1. TypedefPlace(m) # loop  BY <1>1, <1>3, TypedefPlaces, LoopUnits
    <3> QED  BY <1>1, <3>1 DEF Turned
  <2> QED  BY <1>1, <2>1, TypedefsUnmoved
<1> QED  BY <1>1, <1>2, <1>3 DEF Units

\* A turn of one of them.
LEMMA OneMoreBehind ==
  ASSUME IInv, NEW l \in TypedefLoops, At(l), NEW v, Turn(v), NEW here, here = service
  PROVE  /\ method \in Nat /\ \A k \in Behind(l, here) : k < method
         /\ method \in DOMAIN Methods(here)
         /\ Behind(l, here)' = Behind(l, here) \cup {method}
         /\ \A m \in TypedefLoops, s \in DOMAIN file.services :
              m # l \/ s # here => Behind(m, s)' = Behind(m, s)
<1>1. /\ unit \in Units /\ loop \in DOMAIN Loops /\ Loops[loop] = l /\ method' = method + 1
      /\ UNCHANGED <<file, flags, unit, service, loop, written>>
      /\ method \in DOMAIN Methods(here) /\ service \in Nat /\ Printing /\ Allowed(l)
  BY AtTypes DEF Turn, inputVars, fileVars, At
<1>2. /\ unit = "header"
  <2>1. l \in SilentLoops \ {"Names", "Adds"}  BY DEF TypedefLoops, Typedefs, End, SilentLoops
  <2>2. l \notin {"Names", "Inits", "SourceClient", "Adds", "SourceServer", "MockMethods"}
    BY <2>1 DEF SilentLoops
  <2> QED  BY <1>1, <2>2, LoopNames
<1>3. "header" \notin written  BY <1>2, HeaderFirst
<1>4. loop = TypedefPlace(l)  BY <1>1, <1>2, TypedefPlaces, LoopUnits
<1>5. \A s \in DOMAIN file.services : s \in Nat /\ DOMAIN Methods(s) \subseteq Nat \ {0}
  BY <1>1, PlaceOf
<1>6. service \in DOMAIN file.services /\ loop \in Nat /\ method \in Nat  BY <1>1, PlaceOf
<1>7. ASSUME NEW k \in DOMAIN Methods(here)
      PROVE  /\ Turned("header", here, loop, k) <=> k < method
             /\ Turned("header", here, loop, k)' <=> k < method \/ k = method
  <2>1. k \in Nat  BY <1>5, <1>6
  <2> QED  BY <1>1, <1>2, <1>3, <1>6, <2>1 DEF Turned
<1>8. Behind(l, here) = {k \in DOMAIN Methods(here) : k < method}
  BY <1>1, <1>4, <1>7, BehindTurned
<1>9. Behind(l, here)' = {k \in DOMAIN Methods(here) : k < method \/ k = method}
  <2>1. Methods(here)' = Methods(here) /\ (Allowed(l)' <=> Allowed(l))
    BY <1>1 DEF Methods, Allowed, Cq, Sync
  <2>2. DOMAIN HeaderLoops = 1 .. 25  BY DEF HeaderLoops
  <2> HIDE DEF HeaderLoops
  <2>3. Behind(l, here)' = {k \in DOMAIN Methods(here) : Allowed(l) /\ Turned("header", here, TypedefPlace(l), k)'}
    BY <1>1, <2>1, <2>2, TypedefPlaces DEF Behind
  <2> QED  BY <1>1, <1>4, <1>7, <2>3
<1>10. ASSUME NEW m \in TypedefLoops, NEW s \in DOMAIN file.services, m # l \/ s # here
       PROVE  Behind(m, s)' = Behind(m, s)
  <2>1. s \in Nat /\ (m # l => TypedefPlace(m) # loop)  BY <1>4, <1>5, TypedefPlaces
  <2>2. \A k : Turned("header", s, TypedefPlace(m), k)' <=> Turned("header", s, TypedefPlace(m), k)
    BY <1>1, <1>10, <2>1 DEF Turned
  <2> QED  BY <1>1, <2>2, BehindSame
<1> QED  BY <1>1, <1>6, <1>8, <1>9, <1>10

\* The loop that prints the mixin a typedef takes a method from.
MixinLoop(t, m) ==
  IF t = "AsyncService" THEN "Async" ELSE IF t = "CallbackService" THEN "ServerCallback"
  ELSE IF m.server THEN "SplitStreaming" ELSE "StreamedUnary"

\* The brackets that close are those of the mixins that open.
LEMMA OpensForm ==
  ASSUME NEW t \in Typedefs, NEW m, Kind(m)
  PROVE  /\ MixinLoop(t, m) \in MixinLoops
         /\ Closes(t, m) => Opens(t, m) = << <<MixinOf(MixinLoop(t, m))>> \o m.name>>
         /\ ~Closes(t, m) => Opens(t, m) = <<>>
         /\ Closes(t, m) \in BOOLEAN
<1>1. MixinLoop(t, m) \in MixinLoops  BY DEF MixinLoop, MixinLoops
<1>2. Closes(t, m) \in BOOLEAN
  BY DEF Closes, Typedefs, Kind, NoStreaming, ServerOnlyStreaming
<1> DEFINE w == <<MixinOf(MixinLoop(t, m))>> \o m.name
<1>3. CASE t = "AsyncService"
  <2>1. Closes(t, m) /\ w = <<"WithAsyncMethod_">> \o m.name  BY <1>3 DEF Closes, MixinOf, MixinLoop
  <2>2. Opens(t, m) = << <<"WithAsyncMethod_">> \o m.name>>  BY <1>3 DEF Opens
  <2> HIDE DEF w
  <2>3. Opens(t, m) = <<w>>  BY Zenon, <2>1, <2>2
  <2> QED  BY <1>1, <1>2, <2>1, <2>3 DEF w
<1>4. CASE t = "CallbackService"
  <2>1. Closes(t, m) /\ w = <<"WithCallbackMethod_">> \o m.name  BY <1>4 DEF Closes, MixinOf, MixinLoop
  <2>2. Opens(t, m) = << <<"WithCallbackMethod_">> \o m.name>>  BY <1>4 DEF Opens
  <2> HIDE DEF w
  <2>3. Opens(t, m) = <<w>>  BY Zenon, <2>1, <2>2
  <2> QED  BY <1>1, <1>2, <2>1, <2>3 DEF w
<1>5. ASSUME t \notin {"AsyncService", "CallbackService"}
      PROVE  /\ NoStreaming(m) => Unary(m) = <<w>> /\ Split(m) = <<>>
             /\ ServerOnlyStreaming(m) => Split(m) = <<w>> /\ Unary(m) = <<>>
             /\ ~NoStreaming(m) => Unary(m) = <<>>
             /\ ~ServerOnlyStreaming(m) => Split(m) = <<>>
  <2>1. NoStreaming(m) => ~ServerOnlyStreaming(m) /\ w = <<"WithStreamedUnaryMethod_">> \o m.name
    BY <1>5 DEF MixinOf, MixinLoop, NoStreaming, ServerOnlyStreaming
  <2>2. ServerOnlyStreaming(m) => ~NoStreaming(m) /\ w = <<"WithSplitStreamingMethod_">> \o m.name
    BY <1>5 DEF MixinOf, MixinLoop, NoStreaming, ServerOnlyStreaming
  <2> HIDE DEF w
  <2>3. NoStreaming(m) => Unary(m) = <<w>>  BY Zenon, <2>1 DEF Unary
  <2>4. ServerOnlyStreaming(m) => Split(m) = <<w>>  BY Zenon, <2>2 DEF Split
  <2>5. (~NoStreaming(m) => Unary(m) = <<>>) /\ (~ServerOnlyStreaming(m) => Split(m) = <<>>)
    BY Zenon DEF Unary, Split
  <2> QED  BY Zenon, <2>1, <2>2, <2>3, <2>4, <2>5
<1>6. CASE t = "StreamedUnaryService"
  <2>1. Opens(t, m) = Unary(m) /\ (Closes(t, m) <=> NoStreaming(m))
    BY <1>6 DEF Opens, Closes
  <2> QED  BY <1>1, <1>2, <1>5, <1>6, <2>1
<1>7. CASE t = "SplitStreamedService"
  <2>1. Opens(t, m) = Split(m) /\ (Closes(t, m) <=> ServerOnlyStreaming(m))
    BY <1>7 DEF Opens, Closes
  <2> QED  BY <1>1, <1>2, <1>5, <1>7, <2>1
<1>8. CASE t = "StreamedService"
  <2>1. Opens(t, m) = Split(m) \o Unary(m) /\ (Closes(t, m) <=> NoStreaming(m) \/ ServerOnlyStreaming(m))
    BY <1>8 DEF Opens, Closes
  <2>2. <<>> \o <<w>> = <<w>> /\ <<w>> \o <<>> = <<w>> /\ <<>> \o <<>> = <<>>
    <3> HIDE DEF w
    <3> QED  OBVIOUS
  <2> HIDE DEF w
  <2>3. Closes(t, m) => Opens(t, m) = <<w>>  BY <1>5, <1>8, <2>1, <2>2
  <2>4. ~Closes(t, m) => Opens(t, m) = <<>>  BY <1>5, <1>8, <2>1, <2>2
  <2> QED  BY <1>1, <1>2, <2>3, <2>4 DEF w
<1> QED  BY <1>3, <1>4, <1>6, <1>7, <1>8 DEF Typedefs

\* A mixin is of one method.
LEMMA OpensApart ==
  ASSUME NEW t \in Typedefs, NEW m, NEW n, Kind(m), Kind(n), m.name \in Seq(STRING), n.name \in Seq(STRING),
         Opens(t, m) # <<>>, Opens(t, m) = Opens(t, n)
  PROVE  m.name = n.name
<1> DEFINE x == MixinOf(MixinLoop(t, m))
           y == MixinOf(MixinLoop(t, n))
<1>1. Opens(t, m) = << <<x>> \o m.name>> /\ Opens(t, n) = << <<y>> \o n.name>>
  BY OpensForm
<1> HIDE DEF x, y
<1>2. <<x>> \o m.name = <<y>> \o n.name
  <2> DEFINE a == <<x>> \o m.name
             b == <<y>> \o n.name
  <2>1. <<a>> = <<b>>  BY Zenon, <1>1
  <2> HIDE DEF a, b
  <2>2. a = b  BY <2>1
  <2> QED  BY <2>2 DEF a, b
<1> DEFINE o == m.name
           p == n.name
<1>3. o \in Seq(STRING) /\ p \in Seq(STRING) /\ <<x>> \o o = <<y>> \o p  BY Zenon, <1>2
<1> HIDE DEF o, p
<1>4. o = p  BY SMTT(30), <1>3, SameBegin
<1> QED  BY Zenon, <1>4 DEF o, p

\* A typedef that has the mixins of the methods behind has those of one more.
LEMMA InOrderGrows ==
  ASSUME NEW W, NEW wraps \in Seq(W), NEW t, NEW ms, NEW N \in Nat, NEW behind \in SUBSET (1 .. N),
         InOrder(wraps, t, ms, behind),
         NEW j \in Nat, \A k \in behind : k < j,
         NEW more \in Seq(W), more = Opens(t, ms[j]),
         more = <<>> \/ \E x \in W : more = <<x>>,
         \A k \in behind : Opens(t, ms[k]) # <<>> => Opens(t, ms[k]) # more
  PROVE  InOrder(wraps \o more, t, ms, behind \cup {j})
<1> DEFINE B == {k \in behind : Opens(t, ms[k]) # <<>>}
           C == {k \in behind \cup {j} : Opens(t, ms[k]) # <<>>}
           new == wraps \o more
           By(k, n) == Opens(t, ms[k]) = <<wraps[n]>>
           NewBy(k, n) == Opens(t, ms[k]) = <<new[n]>>
<1>1. /\ \A n \in DOMAIN wraps : \E k \in behind : By(k, n)
      /\ \A k \in behind : Opens(t, ms[k]) # <<>> => \E n \in DOMAIN wraps : By(k, n)
      /\ \A n, p \in DOMAIN wraps : n < p => \A k, l \in behind : By(k, n) /\ By(l, p) => k < l
      /\ Len(wraps) = Cardinality(B)
  BY DEF InOrder
<1>2. SUFFICES /\ \A n \in DOMAIN new : \E k \in behind \cup {j} : NewBy(k, n)
               /\ \A k \in behind \cup {j} : Opens(t, ms[k]) # <<>> => \E n \in DOMAIN new : NewBy(k, n)
               /\ \A n, p \in DOMAIN new : n < p =>
                    \A k, l \in behind \cup {j} : NewBy(k, n) /\ NewBy(l, p) => k < l
               /\ Len(new) = Cardinality(C)
  BY DEF InOrder
<1>3. IsFiniteSet(B) /\ j \notin behind
  <2>1. IsFiniteSet(1 .. N)  BY FS_Interval
  <2>2. B \subseteq 1 .. N  OBVIOUS
  <2> QED  BY <2>1, <2>2, FS_Subset
<1>4. CASE more = <<>>
  <2>1. new = wraps  BY <1>4
  <2>2. C = B  BY <1>4
  <2>3. Opens(t, ms[j]) = <<>>  BY <1>4
  <2>4. \A z : <<z>> # <<>>  OBVIOUS
  <2> HIDE DEF new, B, C
  <2> QED  BY <1>1, <2>1, <2>2, <2>3, <2>4
<1>5. ASSUME NEW x \in W, more = <<x>>  PROVE <1>2!1
  <2>1. /\ DOMAIN wraps = 1 .. Len(wraps) /\ Len(wraps) \in Nat
        /\ DOMAIN new = 1 .. Len(wraps) + 1 /\ Len(new) = Len(wraps) + 1
        /\ \A n \in DOMAIN wraps : new[n] = wraps[n]
        /\ new[Len(wraps) + 1] = x
    BY <1>5
  <2>2. C = B \cup {j} /\ j \notin B
    <3>1. Opens(t, ms[j]) # <<>>  BY <1>5
    <3> QED  BY <1>3, <3>1
  <2>3. Cardinality(C) = Cardinality(B) + 1
    <3> HIDE DEF B, C
    <3> QED  BY <1>3, <2>2, FS_AddElement
  <2>4. Opens(t, ms[j]) = <<x>>  BY <1>5
  <2>5. \A k \in behind : Opens(t, ms[k]) # <<x>>  BY <1>5
  <2>6. \A n \in DOMAIN wraps : wraps[n] # x  BY <1>1, <2>5
  <2>7. ASSUME NEW n \in DOMAIN wraps  PROVE ~NewBy(j, n) /\ \A k : NewBy(k, n) <=> By(k, n)
    BY <2>1, <2>4, <2>6
  <2>8. ASSUME NEW k \in behind  PROVE ~NewBy(k, Len(wraps) + 1)
    BY <2>1, <2>5
  <2>9. NewBy(j, Len(wraps) + 1)  BY <2>1, <2>4
  <2> HIDE DEF new, B, C, By, NewBy
  <2>10. Len(new) = Cardinality(C)  BY <1>1, <2>1, <2>3
  <2>11. \A n \in DOMAIN new : \E k \in behind \cup {j} : NewBy(k, n)
    BY <1>1, <2>1, <2>7, <2>9
  <2>12. \A k \in behind \cup {j} : Opens(t, ms[k]) # <<>> => \E n \in DOMAIN new : NewBy(k, n)
    BY <1>1, <2>1, <2>7, <2>9
  <2>13. ASSUME NEW n \in DOMAIN new, NEW p \in DOMAIN new, n < p, NEW k \in behind \cup {j},
                NEW l \in behind \cup {j}, NewBy(k, n), NewBy(l, p)
         PROVE  k < l
    <3>1. n \in DOMAIN wraps /\ k \in behind /\ By(k, n)  BY <2>1, <2>7, <2>13
    <3>2. CASE p \in DOMAIN wraps
      <4>1. l \in behind /\ By(l, p)  BY <2>7, <2>13, <3>2
      <4> QED  BY <1>1, <2>13, <3>1, <3>2, <4>1
    <3>3. CASE p = Len(wraps) + 1
      <4>1. l = j  BY <2>8, <2>13, <3>3
      <4> QED  BY <3>1, <4>1
    <3> QED  BY <2>1, <3>2, <3>3
  <2> QED  BY <2>10, <2>11, <2>12, <2>13
<1> QED  BY <1>4, <1>5

\* One place of a table of pairs is set.
LEMMA PairSet ==
  ASSUME NEW D, NEW T, NEW R, NEW f \in [D \X T -> R], NEW d \in D, NEW t \in T, NEW x \in R,
         NEW g, g = [f EXCEPT ![<<d, t>>] = x]
  PROVE  /\ g \in [D \X T -> R] /\ g[<<d, t>>] = x
         /\ \A e \in D, u \in T : e # d \/ u # t => g[<<e, u>>] = f[<<e, u>>]
<1>1. <<d, t>> \in D \X T  OBVIOUS
<1>2. \A e \in D, u \in T : <<e, u>> \in D \X T /\ (e # d \/ u # t => <<e, u>> # <<d, t>>)  OBVIOUS
<1> QED  BY <1>1, <1>2

\* What a step has to leave of the typedefs.
LEMMA TypedefsAfter ==
  ASSUME UNCHANGED file,
         typedefs' \in [(DOMAIN file.services) \X Typedefs -> [wraps : Seq(Seq(STRING \cup Mixins)), closes : Nat]],
         \A s \in DOMAIN file.services, t \in Typedefs :
           /\ InOrder(typedefs'[<<s, t>>].wraps, t, Methods(s), Behind(t, s)')
           /\ typedefs'[<<s, t>>].closes = Cardinality({k \in Behind(End(t), s)' : Closes(t, Methods(s)[k])})
  PROVE  TypedefsKept'
<1>1. \A s : Methods(s)' = Methods(s)  BY DEF Methods
<1>2. ASSUME NEW s \in DOMAIN file.services, NEW t \in Typedefs
      PROVE  InOrder(typedefs[<<s, t>>].wraps, t, Methods(s), Behind(t, s))'
  BY <1>1
<1>3. ASSUME NEW s \in DOMAIN file.services, NEW t \in Typedefs
      PROVE  (typedefs[<<s, t>>].closes = Cardinality({k \in Behind(End(t), s) : Closes(t, Methods(s)[k])}))'
  BY <1>1
<1> QED  BY <1>2, <1>3 DEF TypedefsKept

\* The other loops' turns are not behind because of a turn of one.
LEMMA OtherTypedefs ==
  ASSUME TypedefsKept, NEW s \in DOMAIN file.services, NEW t \in Typedefs,
         typedefs'[<<s, t>>] = typedefs[<<s, t>>],
         Behind(t, s)' = Behind(t, s), Behind(End(t), s)' = Behind(End(t), s)
  PROVE  /\ InOrder(typedefs'[<<s, t>>].wraps, t, Methods(s), Behind(t, s)')
         /\ typedefs'[<<s, t>>].closes = Cardinality({k \in Behind(End(t), s)' : Closes(t, Methods(s)[k])})
BY DEF TypedefsKept

\* Opening a mixin keeps every typedef level with its two loops.
LEMMA PrintTypedefMixinTyped == ASSUME IInv, TypedefsKept, PrintTypedefMixin PROVE TypedefsKept'
<1>1. PICK t \in Typedefs :
        /\ At(t) /\ Turn(tpl)
        /\ typedefs' = [typedefs EXCEPT ![<<service, t>>].wraps = @ \o Opens(t, Current)]
  BY DEF PrintTypedefMixin
<1> PICK here : here = service  OBVIOUS
<1> DEFINE W == Seq(STRING \cup Mixins)
           D == DOMAIN file.services
           R == [wraps : Seq(W), closes : Nat]
           ms == Methods(here)
           more == Opens(t, ms[method])
           wraps == typedefs[<<here, t>>].wraps
           x == [typedefs[<<here, t>>] EXCEPT !.wraps = @ \o more]
           behind == Behind(t, here)
<1>2. t \in TypedefLoops /\ End(t) \in TypedefLoops
      /\ \A u \in Typedefs : End(u) # t /\ End(u) \in TypedefLoops /\ u \in TypedefLoops
  BY TypedefPlaces
<1>3. /\ method \in Nat /\ method \in DOMAIN ms /\ \A k \in behind : k < method
      /\ Behind(t, here)' = behind \cup {method}
      /\ \A m \in TypedefLoops, s \in D : m # t \/ s # here => Behind(m, s)' = Behind(m, s)
  BY <1>1, <1>2, OneMoreBehind
<1>4. UNCHANGED file /\ here \in D /\ DOMAIN ms = 1 .. Len(ms) /\ Len(ms) \in Nat
  BY <1>1, PlaceOf DEF Turn, inputVars, At
<1>5. typedefs \in [D \X Typedefs -> R] /\ InOrder(wraps, t, ms, behind)
  BY <1>4 DEF TypedefsKept
<1>6. <<here, t>> \in D \X Typedefs  BY <1>4
<1>7. typedefs[<<here, t>>] \in R  BY <1>5, <1>6
<1>8. more \in Seq(W) /\ (more = <<>> \/ \E y \in W : more = <<y>>)
  <2> DEFINE m == ms[method]
             y == <<MixinOf(MixinLoop(t, m))>> \o m.name
  <2>1. Kind(m) /\ m.name \in Seq(STRING)  BY <1>3, <1>4, MethodKinds
  <2>2. MixinLoop(t, m) \in MixinLoops /\ Closes(t, m) \in BOOLEAN
        /\ (Closes(t, m) => more = <<y>>) /\ (~Closes(t, m) => more = <<>>)
    BY <2>1, OpensForm
  <2>3. MixinOf(MixinLoop(t, m)) \in Mixins
    <3> HIDE DEF m
    <3> QED  BY <2>2 DEF MixinOf, MixinLoops, Mixins
  <2>4. y \in W
    <3> DEFINE name == m.name
               w == MixinOf(MixinLoop(t, m))
               S == STRING \cup Mixins
    <3>1. name \in Seq(S) /\ w \in S  BY <2>1, <2>3
    <3> HIDE DEF name, w, S
    <3>2. <<w>> \o name \in Seq(S)  BY <3>1
    <3> QED  BY <3>2 DEF name, w, S
  <2> HIDE DEF y, more, W, m
  <2>5. <<>> \in Seq(W) /\ <<y>> \in Seq(W)  BY <2>4
  <2> QED  BY Zenon, <2>2, <2>4, <2>5
<1>9. InOrder(wraps \o more, t, ms, behind \cup {method})
  <2>1. wraps \in Seq(W)  BY <1>7
  <2>2. behind \in SUBSET (1 .. Len(ms))  BY <1>2, <1>4, BehindEnds
  <2>3. ASSUME NEW k \in behind, Opens(t, ms[k]) # <<>>  PROVE Opens(t, ms[k]) # more
    <3>1. k \in DOMAIN ms /\ k # method  BY <1>3, <1>4, <2>2
    <3>2. Kind(ms[k]) /\ Kind(ms[method]) /\ ms[k].name \in Seq(STRING) /\ ms[method].name \in Seq(STRING)
      BY <1>3, <1>4, <3>1, MethodKinds
    <3>3. ms[k].name # ms[method].name  BY Zenon, <1>3, <1>4, <3>1, MethodNamed
    <3> HIDE DEF ms
    <3> QED  BY <2>3, <3>2, <3>3, OpensApart DEF more
  <2> DEFINE N == Len(ms)
             j == method
  <2>4. N \in Nat /\ j \in Nat /\ behind \in SUBSET (1 .. N) /\ \A k \in behind : k < j  BY <1>3, <1>4, <2>2
  <2>5. more = Opens(t, ms[j])  OBVIOUS
  <2> HIDE DEF N, W, wraps, ms, behind, more, j
  <2> QED  BY <1>5, <1>8, <2>1, <2>3, <2>4, <2>5, InOrderGrows DEF j
<1>10. x \in R /\ x.wraps = wraps \o more /\ x.closes = typedefs[<<here, t>>].closes
  <2> DEFINE longer == wraps \o more
  <2>1. wraps \in Seq(W)  BY <1>7
  <2>2. longer \in Seq(W)
    <3> HIDE DEF wraps, more, W
    <3> QED  BY <1>8, <2>1
  <2>3. x = [typedefs[<<here, t>>] EXCEPT !.wraps = longer]  OBVIOUS
  <2> HIDE DEF W, longer, x
  <2>4. x \in R /\ x.wraps = longer /\ x.closes = typedefs[<<here, t>>].closes  BY <1>7, <2>2, <2>3
  <2> QED  BY Zenon, <2>4 DEF longer
<1>11. typedefs' = [typedefs EXCEPT ![<<here, t>>] = x]  BY <1>1 DEF Current
<1>12. /\ typedefs' \in [D \X Typedefs -> R] /\ typedefs'[<<here, t>>] = x
       /\ \A s \in D, u \in Typedefs : s # here \/ u # t => typedefs'[<<s, u>>] = typedefs[<<s, u>>]
  <2> HIDE DEF R, x, D
  <2> QED  BY <1>4, <1>5, <1>10, <1>11, PairSet
<1>13. ASSUME NEW s \in D, NEW u \in Typedefs
       PROVE  /\ InOrder(typedefs'[<<s, u>>].wraps, u, Methods(s), Behind(u, s)')
              /\ typedefs'[<<s, u>>].closes = Cardinality({k \in Behind(End(u), s)' : Closes(u, Methods(s)[k])})
  <2>1. CASE s # here \/ u # t
    <3>1. typedefs'[<<s, u>>] = typedefs[<<s, u>>] /\ Behind(u, s)' = Behind(u, s)
          /\ Behind(End(u), s)' = Behind(End(u), s)
      BY <1>2, <1>3, <1>12, <2>1
    <3> QED  BY <3>1, OtherTypedefs
  <2>2. CASE s = here /\ u = t
    <3>1. Behind(End(u), s)' = Behind(End(u), s)  BY <1>2, <1>3, <2>2
    <3>2. typedefs'[<<s, u>>].closes = Cardinality({k \in Behind(End(u), s)' : Closes(u, Methods(s)[k])})
      <4>1. typedefs[<<s, u>>].closes = Cardinality({k \in Behind(End(u), s) : Closes(u, Methods(s)[k])})
        BY DEF TypedefsKept
      <4>2. typedefs'[<<s, u>>].closes = typedefs[<<s, u>>].closes  BY <1>10, <1>12, <2>2
      <4> QED  BY Zenon, <3>1, <4>1, <4>2
    <3>3. typedefs'[<<s, u>>].wraps = wraps \o more  BY <1>10, <1>12, <2>2
    <3>4. InOrder(typedefs'[<<s, u>>].wraps, u, Methods(s), Behind(u, s)')
      <4>1. Behind(u, s)' = behind \cup {method} /\ Methods(s) = ms  BY <1>3, <2>2
      <4> HIDE DEF wraps, more, ms, behind
      <4> QED  BY Zenon, <1>9, <2>2, <3>3, <4>1
    <3> QED  BY <3>2, <3>4
  <2> QED  BY <2>1, <2>2
<1> QED  BY Zenon, <1>4, <1>12, <1>13, TypedefsAfter

\* So does closing a bracket.
LEMMA PrintTypedefBracketTyped == ASSUME IInv, TypedefsKept, PrintTypedefBracket PROVE TypedefsKept'
<1>1. PICK t \in Typedefs :
        /\ At(End(t)) /\ Turn(tpl)
        /\ typedefs' = [typedefs EXCEPT ![<<service, t>>].closes = IF Closes(t, Current) THEN @ + 1 ELSE @]
  BY DEF PrintTypedefBracket
<1> PICK here : here = service  OBVIOUS
<1> DEFINE W == Seq(STRING \cup Mixins)
           D == DOMAIN file.services
           R == [wraps : Seq(W), closes : Nat]
           ms == Methods(here)
           closes == typedefs[<<here, t>>].closes
           x == [typedefs[<<here, t>>] EXCEPT !.closes = IF Closes(t, ms[method]) THEN @ + 1 ELSE @]
           behind == Behind(End(t), here)
<1>2. t \in TypedefLoops /\ End(t) \in TypedefLoops
      /\ \A u \in Typedefs : u # End(t) /\ (u # t => End(u) # End(t)) /\ End(u) \in TypedefLoops /\ u \in TypedefLoops
  BY TypedefPlaces
<1>3. /\ method \in Nat /\ method \in DOMAIN ms /\ \A k \in behind : k < method
      /\ Behind(End(t), here)' = behind \cup {method}
      /\ \A m \in TypedefLoops, s \in D : m # End(t) \/ s # here => Behind(m, s)' = Behind(m, s)
  BY <1>1, <1>2, OneMoreBehind
<1>4. UNCHANGED file /\ here \in D /\ DOMAIN ms = 1 .. Len(ms) /\ Len(ms) \in Nat
  BY <1>1, PlaceOf DEF Turn, inputVars, At
<1>5. typedefs \in [D \X Typedefs -> R] /\ closes = Cardinality({k \in behind : Closes(t, ms[k])})
  BY <1>4 DEF TypedefsKept
<1>6. <<here, t>> \in D \X Typedefs  BY <1>4
<1>7. typedefs[<<here, t>>] \in R  BY <1>5, <1>6
<1>8. Closes(t, ms[method]) \in BOOLEAN  BY <1>3, <1>4, MethodKinds, OpensForm
<1>9. x.closes = Cardinality({k \in behind \cup {method} : Closes(t, ms[k])})
  <2> DEFINE B == {k \in behind : Closes(t, ms[k])}
             C == {k \in behind \cup {method} : Closes(t, ms[k])}
  <2>1. IsFiniteSet(B) /\ method \notin B
    <3>1. behind \subseteq 1 .. Len(ms)  BY <1>2, <1>4, BehindEnds
    <3>2. B \subseteq 1 .. Len(ms)  BY <3>1
    <3>3. method \notin behind  BY <1>3
    <3>4. IsFiniteSet(1 .. Len(ms))  BY <1>4, FS_Interval
    <3> QED  BY <3>2, <3>3, <3>4, FS_Subset
  <2>2. CASE Closes(t, ms[method])
    <3>1. C = B \cup {method}  BY <2>2
    <3> HIDE DEF B, C
    <3>2. Cardinality(C) = Cardinality(B) + 1  BY <2>1, <3>1, FS_AddElement
    <3>3. x.closes = closes + 1  BY <1>7, <2>2
    <3>4. closes = Cardinality(B)  BY <1>5 DEF B
    <3>5. x.closes = Cardinality(C)  BY Zenon, <3>2, <3>3, <3>4
    <3> QED  BY <3>5 DEF C
  <2>3. CASE ~Closes(t, ms[method])
    <3>1. C = B  BY <2>3
    <3>2. x.closes = closes  BY <1>7, <2>3
    <3> QED  BY <1>5, <3>1, <3>2
  <2> QED  BY <1>8, <2>2, <2>3
<1>10. x \in R /\ x.wraps = typedefs[<<here, t>>].wraps
  <2> HIDE DEF W
  <2> QED  BY <1>7, <1>8
<1>11. typedefs' = [typedefs EXCEPT ![<<here, t>>] = x]  BY <1>1 DEF Current
<1>12. /\ typedefs' \in [D \X Typedefs -> R] /\ typedefs'[<<here, t>>] = x
       /\ \A s \in D, u \in Typedefs : s # here \/ u # t => typedefs'[<<s, u>>] = typedefs[<<s, u>>]
  <2> HIDE DEF R, x, D
  <2> QED  BY <1>4, <1>5, <1>10, <1>11, PairSet
<1>13. ASSUME NEW s \in D, NEW u \in Typedefs
       PROVE  /\ InOrder(typedefs'[<<s, u>>].wraps, u, Methods(s), Behind(u, s)')
              /\ typedefs'[<<s, u>>].closes = Cardinality({k \in Behind(End(u), s)' : Closes(u, Methods(s)[k])})
  <2>1. CASE s # here \/ u # t
    <3>1. typedefs'[<<s, u>>] = typedefs[<<s, u>>] /\ Behind(u, s)' = Behind(u, s)
          /\ Behind(End(u), s)' = Behind(End(u), s)
      BY <1>2, <1>3, <1>12, <2>1
    <3> QED  BY <3>1, OtherTypedefs
  <2>2. CASE s = here /\ u = t
    <3>1. Behind(u, s)' = Behind(u, s)  BY <1>2, <1>3, <2>2
    <3>2. InOrder(typedefs'[<<s, u>>].wraps, u, Methods(s), Behind(u, s)')
      <4>1. InOrder(typedefs[<<s, u>>].wraps, u, Methods(s), Behind(u, s))  BY DEF TypedefsKept
      <4>2. typedefs'[<<s, u>>].wraps = typedefs[<<s, u>>].wraps  BY <1>10, <1>12, <2>2
      <4> QED  BY Zenon, <3>1, <4>1, <4>2
    <3>3. typedefs'[<<s, u>>].closes = Cardinality({k \in Behind(End(u), s)' : Closes(u, Methods(s)[k])})
      <4>1. Behind(End(u), s)' = behind \cup {method} /\ Methods(s) = ms  BY <1>3, <2>2
      <4>2. typedefs'[<<s, u>>].closes = x.closes  BY <1>12, <2>2
      <4> HIDE DEF x, ms, behind
      <4> QED  BY Zenon, <1>9, <2>2, <4>1, <4>2
    <3> QED  BY <3>2, <3>3
  <2> QED  BY <2>1, <2>2
<1> QED  BY Zenon, <1>4, <1>12, <1>13, TypedefsAfter

-----------------------------------------------------------------------------
(* The frames.                                                             *)

\* A frame is made of the file and the options.
LEMMA FrameSame == ASSUME UNCHANGED <<file, flags, texts>>, NEW u PROVE Frame(u)' = Frame(u)
<1>1. Namespace' = Namespace /\ Imports' = Imports /\ FileComments' = FileComments
  BY DEF Namespace, Imports, FileComments
<1>2. /\ HeaderPrologue' = HeaderPrologue /\ HeaderIncludes' = HeaderIncludes
      /\ HeaderEpilogue' = HeaderEpilogue
  BY <1>1 DEF HeaderPrologue, HeaderIncludes, HeaderEpilogue
<1>3. SourceIncludes' = SourceIncludes /\ SourceEpilogue' = SourceEpilogue
  BY DEF SourceIncludes, SourceEpilogue
<1>4. /\ MockPrologue' = MockPrologue /\ MockIncludes' = MockIncludes /\ MockEpilogue' = MockEpilogue
  BY <1>1 DEF MockPrologue, MockIncludes, MockEpilogue
<1> QED  BY <1>1, <1>2, <1>3, <1>4 DEF Frame

\* A step that writes nothing.
LEMMA FramesStill ==
  ASSUME FramesKept, UNCHANGED <<file, flags, texts, text, written>>
  PROVE  FramesKept'
<1>1. \A u : Frame(u)' = Frame(u)  BY FrameSame
<1> QED  BY <1>1 DEF FramesKept

\* A step that writes a file.
LEMMA WritesFrames ==
  ASSUME IInv, FramesKept, WriteHeader \/ WriteSource \/ WriteMock
  PROVE  FramesKept'
<1>1. PICK u \in Units : Write(u)
  BY DEF WriteHeader, WriteSource, WriteMock, Units
<1>2. UNCHANGED <<file, flags, texts>>  BY DEF WriteHeader, WriteSource, WriteMock, inputVars
<1>3. \A w : Frame(w)' = Frame(w)  BY <1>2, FrameSame
<1>4. text' = [text EXCEPT ![u] = Frame(u)] /\ written' = written \cup {u} /\ DOMAIN text = Units
      /\ written \subseteq Units
  BY <1>1 DEF Write, IInv, TypeOK
<1> QED  BY <1>3, <1>4 DEF FramesKept

-----------------------------------------------------------------------------
(* Every step.                                                             *)

\* Nothing has been printed at first.
LEMMA InitPrinted == Init => PrintedOK
<1> SUFFICES ASSUME Init PROVE PrintedOK  OBVIOUS
<1>1. FramesKept  BY DEF Init, FramesKept
<1>2. /\ typedefs = [st \in (DOMAIN file.services) \X Typedefs |-> [wraps |-> <<>>, closes |-> 0]]
      /\ unit # "header" /\ "header" \notin written
  BY DEF Init
<1>3. \A l \in TypedefLoops : \A s : Behind(l, s) = {}  BY <1>2, BehindEnds
<1>4. ASSUME NEW s \in DOMAIN file.services, NEW t \in Typedefs
      PROVE  /\ InOrder(typedefs[<<s, t>>].wraps, t, Methods(s), Behind(t, s))
             /\ typedefs[<<s, t>>].closes = Cardinality({k \in Behind(End(t), s) : Closes(t, Methods(s)[k])})
  <2>1. typedefs[<<s, t>>] = [wraps |-> <<>>, closes |-> 0]  BY <1>2
  <2>2. Behind(t, s) = {} /\ Behind(End(t), s) = {}  BY <1>3, TypedefPlaces
  <2>3. Cardinality({}) = 0  BY FS_EmptySet
  <2>4. {k \in Behind(End(t), s) : Closes(t, Methods(s)[k])} = {}  BY <2>2
  <2>5. {k \in Behind(t, s) : Opens(t, Methods(s)[k]) # <<>>} = {}  BY <2>2
  <2>6. /\ typedefs[<<s, t>>].wraps = <<>> /\ Len(<<>>) = 0 /\ DOMAIN <<>> = {}
        /\ typedefs[<<s, t>>].closes = 0
    BY <2>1
  <2>7. InOrder(typedefs[<<s, t>>].wraps, t, Methods(s), Behind(t, s))
    BY <2>2, <2>3, <2>5, <2>6 DEF InOrder
  <2> QED  BY Zenon, <2>3, <2>4, <2>6, <2>7
<1>5. typedefs \in [(DOMAIN file.services) \X Typedefs -> [wraps : Seq(Seq(STRING \cup Mixins)), closes : Nat]]
  <2> DEFINE W == Seq(STRING \cup Mixins)
  <2> HIDE DEF W
  <2>1. [wraps |-> <<>>, closes |-> 0] \in [wraps : Seq(W), closes : Nat]  OBVIOUS
  <2> QED  BY <1>2, <2>1 DEF W
<1>6. TypedefsKept  BY <1>4, <1>5 DEF TypedefsKept
<1> QED  BY <1>1, <1>6 DEF PrintedOK

\* A turn that prints no typedef.
LEMMA TurnPrinted ==
  ASSUME IInv, PrintedOK, NEW l, l \notin TypedefLoops, At(l), NEW v, Turn(v), UNCHANGED typedefs
  PROVE  PrintedOK'
<1>1. UNCHANGED <<file, flags, texts, text, written>>  BY DEF Turn, inputVars, fileVars
<1> QED  BY <1>1, OthersTypedefs, FramesStill DEF PrintedOK

\* The turns of the other loops.
LEMMA OtherTurns ==
  \/ PrintHeaderClientMethodInterfaces \/ PrintHeaderClientMethodCallbackInterfaces
  \/ PrintHeaderClientMethod \/ PrintHeaderClientMethodCallback \/ PrintHeaderClientMethodData
  \/ PrintHeaderServerMethodSync \/ PrintHeaderServerMethodAsync
  \/ PrintHeaderServerMethodCallback \/ PrintHeaderServerMethodGeneric
  \/ PrintHeaderServerMethodRaw \/ PrintHeaderServerMethodRawCallback
  \/ PrintHeaderServerMethodStreamedUnary \/ PrintHeaderServerMethodSplitStreaming
  \/ PrintMethodName \/ PrintMethodInit \/ PrintSourceClientMethod
  \/ PrintAddMethod \/ PrintSourceServerMethod \/ PrintMockClientMethods
  => \E l : l \notin TypedefLoops /\ At(l) /\ (\E v : Turn(v)) /\ UNCHANGED typedefs
<1> DEFINE Others == {"Interfaces", "CallbackInterfaces", "RawInterfaces", "Methods", "Callback", "RawMethods",
             "Data", "Sync", "Async", "ServerCallback", "Generic", "Raw", "RawCallback", "StreamedUnary",
             "SplitStreaming", "Names", "Inits", "SourceClient", "Adds", "SourceServer", "MockMethods"}
           Some == \E l \in Others : At(l) /\ (\E v : Turn(v)) /\ UNCHANGED typedefs
<1>1. Others \cap TypedefLoops = {}
  BY DEF TypedefLoops, Typedefs, End
<1>2. ASSUME NEW l \in Others, At(l), NEW v, NEW printed, Prints(v, printed)  PROVE Some
  BY Zenon, <1>2 DEF Prints
<1>3. PrintHeaderClientMethodInterfaces => Some  BY Zenon, <1>2 DEF PrintHeaderClientMethodInterfaces
<1>4. PrintHeaderClientMethodCallbackInterfaces => Some  BY Zenon, <1>2 DEF PrintHeaderClientMethodCallbackInterfaces
<1>5. PrintHeaderClientMethod => Some  BY Zenon, <1>2 DEF PrintHeaderClientMethod
<1>6. PrintHeaderClientMethodCallback => Some  BY Zenon, <1>2 DEF PrintHeaderClientMethodCallback
<1>7. PrintHeaderClientMethodData => Some  BY Zenon, <1>2 DEF PrintHeaderClientMethodData
<1>8. PrintHeaderServerMethodSync => Some  BY Zenon, <1>2 DEF PrintHeaderServerMethodSync
<1>9. PrintHeaderServerMethodAsync => Some  BY Zenon, <1>2 DEF PrintHeaderServerMethodAsync
<1>10. PrintHeaderServerMethodCallback => Some  BY Zenon, <1>2 DEF PrintHeaderServerMethodCallback
<1>11. PrintHeaderServerMethodGeneric => Some  BY Zenon, <1>2 DEF PrintHeaderServerMethodGeneric
<1>12. PrintHeaderServerMethodRaw => Some  BY Zenon, <1>2 DEF PrintHeaderServerMethodRaw
<1>13. PrintHeaderServerMethodRawCallback => Some  BY Zenon, <1>2 DEF PrintHeaderServerMethodRawCallback
<1>14. PrintHeaderServerMethodStreamedUnary => Some  BY Zenon, <1>2 DEF PrintHeaderServerMethodStreamedUnary
<1>15. PrintHeaderServerMethodSplitStreaming => Some  BY Zenon, <1>2 DEF PrintHeaderServerMethodSplitStreaming
<1>16. PrintMethodInit => Some  BY Zenon, <1>2 DEF PrintMethodInit
<1>17. PrintSourceClientMethod => Some  BY Zenon, <1>2 DEF PrintSourceClientMethod
<1>18. PrintSourceServerMethod => Some  BY Zenon, <1>2 DEF PrintSourceServerMethod
<1>19. PrintMockClientMethods => Some  BY Zenon, <1>2 DEF PrintMockClientMethods
<1>20. PrintMethodName => Some  BY Zenon DEF PrintMethodName
<1>21. PrintAddMethod => Some  BY Zenon DEF PrintAddMethod
<1> HIDE DEF Others
<1> QED  BY Zenon, <1>1, <1>3, <1>4, <1>5, <1>6, <1>7, <1>8, <1>9, <1>10, <1>11,
     <1>12, <1>13, <1>14, <1>15, <1>16, <1>17, <1>18, <1>19, <1>20, <1>21

\* Every step keeps the typedefs to the turns behind, and the files to their frames.
LEMMA NextPrinted == ASSUME IInv, PrintedOK, [Next]_vars PROVE PrintedOK'
<1>1. TypedefsKept /\ FramesKept  BY DEF PrintedOK
<1>2. CASE RefuseGenericServices \/ ParseOption \/ RejectOption \/ ReadPastTheEnd
  <2>1. unit = "options" /\ unit' \in {"options", "rejected", "crashed"} /\ UNCHANGED <<file, typedefs, written>>
    BY <1>2 DEF RefuseGenericServices, ParseOption, RejectOption, ReadPastTheEnd, Reading, inputVars,
       position, printedVars, fileVars
  <2>2. TypedefsKept'  BY <1>1, <2>1, OptionsTypedefs
  <2>3. written' = {}  BY <2>1, HeaderFirst
  <2> QED  BY <2>2, <2>3 DEF PrintedOK, FramesKept
<1>3. CASE GetHeaderServices
  <2>1. UNCHANGED <<file, flags, texts, text, written>>
    BY <1>3 DEF GetHeaderServices, inputVars, fileVars
  <2> QED  BY <1>1, <1>3, <2>1, GetHeaderServicesTypedefs, FramesStill DEF PrintedOK
<1>4. CASE WriteHeader \/ WriteSource \/ WriteMock
  BY <1>1, <1>4, WritesTypedefs, WritesFrames DEF PrintedOK
<1>5. CASE OpenService \/ NextLoop \/ CloseService
  <2>1. UNCHANGED <<file, flags, texts, text, written>>
    BY <1>5 DEF OpenService, NextLoop, CloseService, inputVars, fileVars
  <2> QED  BY <1>1, <1>5, <2>1, BetweenTypedefs, FramesStill DEF PrintedOK
<1>6. CASE PrintTypedefMixin \/ PrintTypedefBracket
  <2>1. UNCHANGED <<file, flags, texts, text, written>>
    BY <1>6 DEF PrintTypedefMixin, PrintTypedefBracket, Turn, inputVars, fileVars
  <2> QED  BY <1>1, <1>6, <2>1, PrintTypedefMixinTyped, PrintTypedefBracketTyped, FramesStill DEF PrintedOK
<1>7. CASE \/ PrintHeaderClientMethodInterfaces \/ PrintHeaderClientMethodCallbackInterfaces
           \/ PrintHeaderClientMethod \/ PrintHeaderClientMethodCallback \/ PrintHeaderClientMethodData
           \/ PrintHeaderServerMethodSync \/ PrintHeaderServerMethodAsync
           \/ PrintHeaderServerMethodCallback \/ PrintHeaderServerMethodGeneric
           \/ PrintHeaderServerMethodRaw \/ PrintHeaderServerMethodRawCallback
           \/ PrintHeaderServerMethodStreamedUnary \/ PrintHeaderServerMethodSplitStreaming
           \/ PrintMethodName \/ PrintMethodInit \/ PrintSourceClientMethod
           \/ PrintAddMethod \/ PrintSourceServerMethod \/ PrintMockClientMethods
  <2>1. PICK l : l \notin TypedefLoops /\ At(l) /\ (\E v : Turn(v)) /\ UNCHANGED typedefs
    BY Zenon, <1>7, OtherTurns
  <2>2. PICK v : Turn(v)  BY <2>1
  <2> QED  BY <2>1, <2>2, TurnPrinted
<1>8. CASE UNCHANGED vars
  <2>1. UNCHANGED <<file, flags, texts, text, written, unit, service, loop, method, typedefs>>
    BY <1>8 DEF vars, inputVars, position, printedVars, fileVars
  <2>2. \A s, n, k : Turned("header", s, n, k)' <=> Turned("header", s, n, k)  BY <2>1 DEF Turned
  <2>3. TypedefsKept'  BY <1>1, <2>1, <2>2, TypedefsUnmoved
  <2> QED  BY <1>1, <2>1, <2>3, FramesStill DEF PrintedOK
<1>9. CASE Generate
  BY <1>2, <1>3, <1>4, <1>5, <1>6, <1>7, <1>9 DEF Generate
<1> QED  BY <1>8, <1>9 DEF Next, Returned

\* At every point of a run a typedef has opened a mixin for each turn behind that has one,
\* in order, and closed a bracket for each its other loop passed; and every file written
\* has the frame its options give it.
THEOREM PrintedTheorem == Spec => []PrintedOK
<1>1. Init => IInv /\ PrintedOK  BY InitIInv, InitPrinted
<1>2. IInv /\ PrintedOK /\ [Next]_vars => (IInv /\ PrintedOK)'  BY NextKeeps, NextPrinted
<1> QED  BY <1>1, <1>2, PTL DEF Spec

-----------------------------------------------------------------------------
(* The namespaces of a frame.                                              *)

\* f is g, of length a, and then h, of length l.
Glues(f, g, a, h, l) ==
  /\ DOMAIN f = 1 .. a + l
  /\ \A n \in 1 .. a : f[n] = g[n]
  /\ \A n \in a + 1 .. a + l : f[n] = h[n - a]

\* Where the lines of two glued texts come from.
LEMMA TwoParts ==
  ASSUME NEW T, NEW p \in Seq(T), NEW o \in Seq(T)
  PROVE  Glues(p \o o, p, Len(p), o, Len(o)) /\ p \o o \in Seq(T) /\ Len(p \o o) = Len(p) + Len(o)
         /\ DOMAIN p = 1 .. Len(p) /\ Len(p) \in Nat /\ DOMAIN o = 1 .. Len(o) /\ Len(o) \in Nat
<1> DEFINE f == p \o o
           a == Len(p)
           l == Len(o)
<1>1. /\ f \in Seq(T) /\ Len(f) = a + l /\ a \in Nat /\ l \in Nat
      /\ \A n \in 1 .. a + l : f[n] = IF n <= a THEN p[n] ELSE o[n - a]
      /\ DOMAIN f = 1 .. Len(f) /\ DOMAIN p = 1 .. a /\ DOMAIN o = 1 .. l
  BY ConcatProperties
<1> HIDE DEF f, a, l
<1>2. \A n \in 1 .. a : n \in 1 .. a + l /\ n <= a  BY <1>1
<1>3. \A n \in a + 1 .. a + l : n \in 1 .. a + l /\ ~(n <= a)  BY <1>1
<1> QED  BY <1>1, <1>2, <1>3 DEF f, a, l, Glues

\* f is p, o, s, c and e, one after the other; s is one line.
Chain(p, o, s, c, e, a, l, z, b, d, g, f) ==
  /\ a \in Nat /\ l \in Nat /\ z \in Nat
  /\ Glues(b, p, a, o, l) /\ Glues(d, b, a + l, s, 1) /\ Glues(g, d, a + l + 1, c, l)
  /\ Glues(f, g, a + l + 1 + l, e, z)
FiveParts(p, o, s, c, e, a, l, z, f) ==
  /\ a \in Nat /\ l \in Nat /\ z \in Nat /\ DOMAIN f = 1 .. a + l + 1 + l + z
  /\ \A n \in 1 .. a : f[n] = p[n]
  /\ \A n \in a + 1 .. a + l : f[n] = o[n - a]
  /\ f[a + l + 1] = s[1]
  /\ \A n \in a + l + 2 .. a + l + 1 + l : f[n] = c[n - (a + l + 1)]
  /\ \A n \in a + l + 1 + l + 1 .. a + l + 1 + l + z : f[n] = e[n - (a + l + 1 + l)]

\* Where the lines of five texts come from, glued two at a time.
LEMMA PartsOfChain ==
  ASSUME NEW p, NEW o, NEW s, NEW c, NEW e, NEW a, NEW l, NEW z, NEW b, NEW d, NEW g, NEW f,
         Chain(p, o, s, c, e, a, l, z, b, d, g, f)
  PROVE  FiveParts(p, o, s, c, e, a, l, z, f)
<1> USE DEF Chain
<1>1. \A n \in 1 .. a : f[n] = p[n]  BY DEF Glues
<1>2. \A n \in a + 1 .. a + l : f[n] = o[n - a]  BY DEF Glues
<1>3. f[a + l + 1] = s[1]
  <2>1. d[a + l + 1] = s[(a + l + 1) - (a + l)] /\ (a + l + 1) - (a + l) = 1  BY DEF Glues
  <2>2. f[a + l + 1] = d[a + l + 1]  BY DEF Glues
  <2> QED  BY <2>1, <2>2
<1>4. \A n \in a + l + 2 .. a + l + 1 + l : f[n] = c[n - (a + l + 1)]  BY DEF Glues
<1>5. \A n \in a + l + 1 + l + 1 .. a + l + 1 + l + z : f[n] = e[n - (a + l + 1 + l)]  BY DEF Glues
<1>6. DOMAIN f = 1 .. a + l + 1 + l + z  BY DEF Glues
<1>7. a \in Nat /\ l \in Nat /\ z \in Nat  OBVIOUS
<1> QED  BY ONLY <1>1, <1>2, <1>3, <1>4, <1>5, <1>6, <1>7 DEF FiveParts

\* What ScopesAgree asks of one file.
Framed(f, path) ==
  LET Marks(kind) == {n \in DOMAIN f : f[n][1] = kind}
      Count(kind) == Cardinality(Marks(kind))
  IN /\ Marks("services") # {}
     /\ \A at \in Marks("services") :
          (\A n \in Marks("open") : n < at) /\ (\A n \in Marks("close") : at < n)
     /\ Count("open") = Len(path) /\ Count("close") = Len(path)
     /\ \A n \in Marks("open") : f[n][2] = path[Cardinality({k \in Marks("open") : k <= n})]
     /\ Count("ifndef") = Count("endif")

\* Nothing of a part is of these kinds.
Without(f, kinds) == \A n \in DOMAIN f : f[n][1] \notin kinds
\* One place of a part is of this kind.
OnlyAt(f, kind, at) == at \in DOMAIN f /\ \A n \in DOMAIN f : f[n][1] = kind <=> n = at
Guarded(p, e) ==
  \/ Without(p, {"ifndef"}) /\ Without(e, {"endif"})
  \/ \E i, j : OnlyAt(p, "ifndef", i) /\ OnlyAt(e, "endif", j)

\* Where the lines of each kind are.
LEMMA KindsAt ==
  ASSUME NEW a \in Nat, NEW l \in Nat, NEW z \in Nat, NEW D, D = 1 .. a + l + 1 + l + z, NEW kind,
         \A n \in 1 .. a : kind[n] \notin {"open", "close", "services", "endif"},
         \A n \in a + 1 .. a + l : kind[n] = "open",
         kind[a + l + 1] = "services",
         \A n \in a + l + 2 .. a + l + 1 + l : kind[n] = "close",
         \A n \in a + l + 1 + l + 1 .. a + l + 1 + l + z : kind[n] \notin {"open", "close", "services", "ifndef"}
  PROVE  /\ {n \in D : kind[n] = "open"} = a + 1 .. a + l
         /\ {n \in D : kind[n] = "close"} = a + l + 2 .. a + l + 1 + l
         /\ {n \in D : kind[n] = "services"} = {a + l + 1}
         /\ \A n \in D : (kind[n] = "ifndef" => n \in 1 .. a)
              /\ (kind[n] = "endif" => n \in a + l + 1 + l + 1 .. a + l + 1 + l + z)
<1>1. ASSUME NEW n \in D
      PROVE  /\ kind[n] = "open" <=> n \in a + 1 .. a + l
             /\ kind[n] = "close" <=> n \in a + l + 2 .. a + l + 1 + l
             /\ kind[n] = "services" <=> n = a + l + 1
             /\ kind[n] = "ifndef" => n \in 1 .. a
             /\ kind[n] = "endif" => n \in a + l + 1 + l + 1 .. a + l + 1 + l + z
  <2>1. n \in Int /\ 1 <= n /\ n <= a + l + 1 + l + z  OBVIOUS
  <2>2. CASE n \in 1 .. a  BY <2>1, <2>2
  <2>3. CASE n \in a + 1 .. a + l  BY <2>1, <2>3
  <2>4. CASE n = a + l + 1  BY <2>1, <2>4
  <2>5. CASE n \in a + l + 2 .. a + l + 1 + l  BY <2>1, <2>5
  <2>6. CASE n \in a + l + 1 + l + 1 .. a + l + 1 + l + z  BY <2>1, <2>6
  <2> QED  BY <2>1, <2>2, <2>3, <2>4, <2>5, <2>6
<1>2. a + 1 .. a + l \subseteq D /\ a + l + 2 .. a + l + 1 + l \subseteq D /\ a + l + 1 \in D  OBVIOUS
<1>3. {n \in D : kind[n] = "open"} = a + 1 .. a + l  BY <1>1, <1>2
<1>4. {n \in D : kind[n] = "close"} = a + l + 2 .. a + l + 1 + l  BY <1>1, <1>2
<1>5. {n \in D : kind[n] = "services"} = {a + l + 1}  BY <1>1, <1>2
<1> QED  BY <1>1, <1>3, <1>4, <1>5

\* How many brackets are open at the n-th.
LEMMA Counted ==
  ASSUME NEW a \in Nat, NEW l \in Nat
  PROVE  /\ Cardinality(a + 1 .. a + l) = l
         /\ \A n \in a + 1 .. a + l : Cardinality({k \in a + 1 .. a + l : k <= n}) = n - a
<1>1. ASSUME NEW m \in Nat  PROVE Cardinality(a + 1 .. a + m) = m
  <2>1. a + 1 \in Int /\ a + m \in Int  OBVIOUS
  <2>2. Cardinality(a + 1 .. a + m) = IF a + 1 > a + m THEN 0 ELSE a + m - (a + 1) + 1  BY <2>1, FS_Interval
  <2> QED  BY <2>2
<1>2. ASSUME NEW n \in a + 1 .. a + l  PROVE Cardinality({k \in a + 1 .. a + l : k <= n}) = n - a
  <2>1. n - a \in Nat /\ a + (n - a) = n  OBVIOUS
  <2>2. {k \in a + 1 .. a + l : k <= n} = a + 1 .. a + (n - a)  OBVIOUS
  <2> QED  BY Zenon, <1>1, <2>1, <2>2
<1> QED  BY <1>1, <1>2

\* The parts hold the brackets of a path and the services between them.
Bracketed(p, o, s, c, e, a, l, z, path) ==
  /\ DOMAIN p = 1 .. a /\ DOMAIN e = 1 .. z /\ Len(path) = l
  /\ \A n \in 1 .. l : o[n][1] = "open" /\ o[n][2] = path[n]
  /\ \A n \in 1 .. l : c[n][1] = "close"
  /\ s[1][1] = "services"
  /\ Without(p, {"open", "close", "services", "endif"})
  /\ Without(e, {"open", "close", "services", "ifndef"})
  /\ Guarded(p, e)

\* Five such parts are a frame of the path that is opened and closed.
LEMMA PartsFramed ==
  ASSUME NEW p, NEW o, NEW s, NEW c, NEW e, NEW a, NEW l, NEW z, NEW f, NEW path,
         FiveParts(p, o, s, c, e, a, l, z, f), Bracketed(p, o, s, c, e, a, l, z, path)
  PROVE  Framed(f, path)
<1>0. /\ a \in Nat /\ l \in Nat /\ z \in Nat /\ DOMAIN f = 1 .. a + l + 1 + l + z
      /\ \A n \in 1 .. a : f[n] = p[n]
      /\ \A n \in a + 1 .. a + l : f[n] = o[n - a]
      /\ f[a + l + 1] = s[1]
      /\ \A n \in a + l + 2 .. a + l + 1 + l : f[n] = c[n - (a + l + 1)]
      /\ \A n \in a + l + 1 + l + 1 .. a + l + 1 + l + z : f[n] = e[n - (a + l + 1 + l)]
      /\ DOMAIN p = 1 .. a /\ DOMAIN e = 1 .. z /\ Len(path) = l
      /\ \A n \in 1 .. l : o[n][1] = "open" /\ o[n][2] = path[n]
      /\ \A n \in 1 .. l : c[n][1] = "close"
      /\ s[1][1] = "services"
      /\ Without(p, {"open", "close", "services", "endif"})
      /\ Without(e, {"open", "close", "services", "ifndef"})
      /\ Guarded(p, e)
  BY Zenon DEF FiveParts, Bracketed
<1> USE <1>0
<1> DEFINE D == DOMAIN f
           kind == [n \in D |-> f[n][1]]
           Marks(x) == {n \in D : f[n][1] = x}
           y == a + l + 1 + l
<1>1. ASSUME NEW n \in 1 .. a  PROVE f[n][1] \notin {"open", "close", "services", "endif"} /\ n \in D
  BY DEF Without
<1>2. ASSUME NEW n \in a + 1 .. a + l  PROVE f[n][1] = "open" /\ f[n][2] = path[n - a] /\ n \in D
  <2>1. n - a \in 1 .. l  OBVIOUS
  <2>2. o[n - a][1] = "open" /\ o[n - a][2] = path[n - a]  BY <2>1
  <2>3. n \in D  OBVIOUS
  <2> QED  BY <2>2, <2>3
<1>3. f[a + l + 1][1] = "services" /\ a + l + 1 \in D  OBVIOUS
<1>4. ASSUME NEW n \in a + l + 2 .. a + l + 1 + l  PROVE f[n][1] = "close" /\ n \in D
  <2>1. n - (a + l + 1) \in 1 .. l  OBVIOUS
  <2>2. c[n - (a + l + 1)][1] = "close"  BY <2>1
  <2>3. n \in D  OBVIOUS
  <2> QED  BY <2>2, <2>3
<1>5. ASSUME NEW n \in y + 1 .. y + z
      PROVE  f[n][1] \notin {"open", "close", "services", "ifndef"} /\ n \in D
  <2>1. n - y \in DOMAIN e  OBVIOUS
  <2>2. e[n - y][1] \notin {"open", "close", "services", "ifndef"}  BY <2>1 DEF Without
  <2>3. n \in D  OBVIOUS
  <2> QED  BY <2>2, <2>3
<1>6. D = 1 .. y + z /\ (\A n \in D : kind[n] = f[n][1])  OBVIOUS
<1>7. /\ {n \in D : kind[n] = "open"} = a + 1 .. a + l
      /\ {n \in D : kind[n] = "close"} = a + l + 2 .. y
      /\ {n \in D : kind[n] = "services"} = {a + l + 1}
      /\ \A n \in D : (kind[n] = "ifndef" => n \in 1 .. a) /\ (kind[n] = "endif" => n \in y + 1 .. y + z)
  <2>1. /\ \A n \in 1 .. a : kind[n] \notin {"open", "close", "services", "endif"}
        /\ \A n \in a + 1 .. a + l : kind[n] = "open"
        /\ kind[a + l + 1] = "services"
        /\ \A n \in a + l + 2 .. y : kind[n] = "close"
        /\ \A n \in y + 1 .. y + z : kind[n] \notin {"open", "close", "services", "ifndef"}
    <3> HIDE DEF kind, D, y
    <3>1. \A n \in 1 .. a : kind[n] \notin {"open", "close", "services", "endif"}  BY ONLY Zenon, <1>1, <1>6
    <3>2. \A n \in a + 1 .. a + l : kind[n] = "open"  BY ONLY Zenon, <1>2, <1>6
    <3>3. kind[a + l + 1] = "services"  BY ONLY Zenon, <1>3, <1>6
    <3>4. \A n \in a + l + 2 .. y : kind[n] = "close"
      <4>1. \A n \in a + l + 2 .. y : f[n][1] = "close" /\ n \in D
        <5> USE DEF y
        <5> QED  BY ONLY Zenon, <1>4
      <4> QED  BY ONLY Zenon, <4>1, <1>6
    <3>5. \A n \in y + 1 .. y + z : kind[n] \notin {"open", "close", "services", "ifndef"}
      BY ONLY Zenon, <1>5, <1>6
    <3> QED  BY ONLY Zenon, <3>1, <3>2, <3>3, <3>4, <3>5
  <2> HIDE DEF kind, D
  <2>2. D = 1 .. a + l + 1 + l + z  BY Zenon, <1>6
  <2>3. a \in Nat /\ l \in Nat /\ z \in Nat /\ y = a + l + 1 + l  OBVIOUS
  <2> HIDE DEF y
  <2> QED  BY ONLY <2>1, <2>2, <2>3, KindsAt
<1>8. ASSUME NEW x  PROVE {n \in D : kind[n] = x} = Marks(x)
  <2> HIDE DEF kind, D
  <2> QED  BY ONLY <1>6
<1>9. /\ Marks("open") = a + 1 .. a + l /\ Marks("close") = a + l + 2 .. y
      /\ Marks("services") = {a + l + 1}
      /\ \A n \in Marks("ifndef") : n \in 1 .. a
      /\ \A n \in Marks("endif") : n \in y + 1 .. y + z
  <2> HIDE DEF Marks, kind, D, y
  <2>1. \A x : \A n \in Marks(x) : n \in D /\ kind[n] = x  BY Zenon, <1>8
  <2> QED  BY Zenon, <1>7, <1>8, <2>1
<1>10. Cardinality(Marks("open")) = l /\ Cardinality(Marks("close")) = l
  <2>1. (a + l + 1) + 1 = a + l + 2 /\ (a + l + 1) + l = y /\ a + l + 1 \in Nat  OBVIOUS
  <2>2. Cardinality((a + l + 1) + 1 .. (a + l + 1) + l) = l  BY Zenon, <2>1, Counted
  <2> HIDE DEF Marks, y
  <2>3. Cardinality(a + 1 .. a + l) = l  BY Counted
  <2> QED  BY ONLY Zenon, <1>9, <2>1, <2>2, <2>3
<1>11. Cardinality(Marks("ifndef")) = Cardinality(Marks("endif"))
  <2>1. CASE Without(p, {"ifndef"}) /\ Without(e, {"endif"})
    <3>1. ASSUME NEW n \in Marks("ifndef")  PROVE FALSE
      <4>1. n \in 1 .. a /\ f[n][1] = "ifndef"  BY <1>9
      <4> QED  BY <2>1, <4>1 DEF Without
    <3>2. ASSUME NEW n \in Marks("endif")  PROVE FALSE
      <4>1. n \in y + 1 .. y + z /\ f[n][1] = "endif"  BY <1>9
      <4>2. n - y \in DOMAIN e  BY <4>1
      <4> QED  BY <2>1, <4>1, <4>2 DEF Without
    <3> HIDE DEF Marks
    <3>3. Marks("ifndef") = {} /\ Marks("endif") = {}  BY Zenon, <3>1, <3>2
    <3> QED  BY Zenon, <3>3
  <2>2. ASSUME NEW i, NEW j, OnlyAt(p, "ifndef", i), OnlyAt(e, "endif", j)
        PROVE  Cardinality(Marks("ifndef")) = Cardinality(Marks("endif"))
    <3>1. i \in 1 .. a /\ f[i][1] = "ifndef" /\ i \in D  BY <2>2 DEF OnlyAt
    <3>2. ASSUME NEW n \in Marks("ifndef")  PROVE n = i
      <4>1. n \in 1 .. a /\ f[n][1] = "ifndef"  BY <1>9
      <4> QED  BY <2>2, <4>1 DEF OnlyAt
    <3>3. j \in 1 .. z /\ e[j][1] = "endif"  BY <2>2 DEF OnlyAt
    <3>4. y + j \in y + 1 .. y + z /\ (y + j) - y = j /\ y + j \in D  BY <3>3
    <3>5. f[y + j][1] = "endif"  BY <3>3, <3>4
    <3>6. ASSUME NEW n \in Marks("endif")  PROVE n = y + j
      <4>1. n \in y + 1 .. y + z /\ f[n][1] = "endif"  BY <1>9
      <4>2. n - y \in DOMAIN e /\ e[n - y][1] = "endif"  BY <4>1
      <4>3. n - y = j  BY <2>2, <4>2 DEF OnlyAt
      <4> QED  BY <3>3, <4>1, <4>3
    <3>7. Marks("ifndef") = {i}
      <4>1. i \in Marks("ifndef")  BY <3>1
      <4> HIDE DEF Marks
      <4> QED  BY Zenon, <3>2, <4>1
    <3>8. Marks("endif") = {y + j}
      <4>1. y + j \in Marks("endif")  BY <3>4, <3>5
      <4> HIDE DEF Marks, y
      <4> QED  BY Zenon, <3>6, <4>1
    <3> HIDE DEF Marks, y
    <3>9. \A x : Cardinality({x}) = 1  BY ONLY Zenon, FS_Singleton
    <3> QED  BY ONLY Zenon, <3>7, <3>8, <3>9
  <2> QED  BY Zenon, <2>1, <2>2 DEF Guarded
<1>12. ASSUME NEW n \in Marks("open")
       PROVE  f[n][2] = path[Cardinality({k \in Marks("open") : k <= n})]
  <2> HIDE DEF Marks
  <2>1. n \in a + 1 .. a + l  BY Zenon, <1>9
  <2>2. Cardinality({k \in a + 1 .. a + l : k <= n}) = n - a  BY <2>1, Counted
  <2>3. Cardinality({k \in Marks("open") : k <= n}) = n - a  BY ONLY Zenon, <1>9, <2>2
  <2> QED  BY ONLY Zenon, <1>2, <2>1, <2>3
<1>13. /\ Marks("services") # {}
       /\ \A at \in Marks("services") :
            (\A n \in Marks("open") : n < at) /\ (\A n \in Marks("close") : at < n)
  <2> HIDE DEF Marks
  <2>1. a \in Nat /\ l \in Nat  OBVIOUS
  <2> QED  BY ONLY <1>9, <2>1
<1>14. Len(path) = l  OBVIOUS
<1> HIDE DEF y
<1> QED  BY Zenon, <1>10, <1>11, <1>12, <1>13, <1>14 DEF Framed

\* The five parts as a frame has them.
Opening(o, path) == Len(o) = Len(path) /\ \A n \in 1 .. Len(path) : o[n][1] = "open" /\ o[n][2] = path[n]
Closing(c, path) == Len(c) = Len(path) /\ \A n \in 1 .. Len(path) : c[n][1] = "close"
Brackets(p, o, s, c, e, path, T) ==
  /\ p \in Seq(T) /\ o \in Seq(T) /\ s \in Seq(T) /\ c \in Seq(T) /\ e \in Seq(T)
  /\ Opening(o, path) /\ Closing(c, path) /\ Len(s) = 1 /\ s[1][1] = "services"
  /\ Without(p, {"open", "close", "services", "endif"})
  /\ Without(e, {"open", "close", "services", "ifndef"})
  /\ Guarded(p, e)

\* The same of the five parts glued by \o.
LEMMA JoinedFramed ==
  ASSUME NEW T, NEW p, NEW o, NEW s, NEW c, NEW e, NEW path, Brackets(p, o, s, c, e, path, T)
  PROVE  Framed(p \o o \o s \o c \o e, path)
<1> USE DEF Brackets, Opening, Closing
<1> DEFINE b == p \o o
           d == b \o s
           g == d \o c
           f == g \o e
           a == Len(p)
           l == Len(path)
           z == Len(e)
<1> DEFINE Both(x, y) == Glues(x \o y, x, Len(x), y, Len(y)) /\ x \o y \in Seq(T) /\ Len(x \o y) = Len(x) + Len(y)
                           /\ DOMAIN x = 1 .. Len(x) /\ Len(x) \in Nat /\ DOMAIN y = 1 .. Len(y) /\ Len(y) \in Nat
<1>0. ASSUME NEW x \in Seq(T), NEW y \in Seq(T)  PROVE Both(x, y)  BY ONLY TwoParts, x \in Seq(T), y \in Seq(T)
<1>1. /\ Glues(b, p, a, o, l) /\ b \in Seq(T) /\ Len(b) = a + l /\ a \in Nat /\ l \in Nat /\ DOMAIN p = 1 .. a
  <2>1. Both(p, o)  BY ONLY Zenon, <1>0, p \in Seq(T), o \in Seq(T)
  <2>2. Len(o) = l  OBVIOUS
  <2> QED  BY ONLY Zenon, <2>1, <2>2
<1> HIDE DEF b
<1>2. Glues(d, b, a + l, s, 1) /\ d \in Seq(T) /\ Len(d) = a + l + 1
  <2>1. Both(b, s)  BY ONLY Zenon, <1>0, <1>1, s \in Seq(T)
  <2>2. Len(s) = 1  OBVIOUS
  <2> QED  BY ONLY Zenon, <1>1, <2>1, <2>2
<1> HIDE DEF d
<1>3. Glues(g, d, a + l + 1, c, l) /\ g \in Seq(T) /\ Len(g) = a + l + 1 + l
  <2>1. Both(d, c)  BY ONLY Zenon, <1>0, <1>2, c \in Seq(T)
  <2>2. Len(c) = l  OBVIOUS
  <2> QED  BY ONLY Zenon, <1>2, <2>1, <2>2
<1> HIDE DEF g
<1>4. Glues(f, g, a + l + 1 + l, e, z) /\ z \in Nat /\ DOMAIN e = 1 .. z
  <2>1. Both(g, e)  BY ONLY Zenon, <1>0, <1>3, e \in Seq(T)
  <2> QED  BY ONLY Zenon, <1>3, <2>1
<1> HIDE DEF f, a, l, z
<1>5. FiveParts(p, o, s, c, e, a, l, z, f)
  <2>1. Chain(p, o, s, c, e, a, l, z, b, d, g, f)  BY ONLY Zenon, <1>1, <1>2, <1>3, <1>4 DEF Chain
  <2> QED  BY ONLY Zenon, <2>1, PartsOfChain
<1>6. Bracketed(p, o, s, c, e, a, l, z, path)
  BY Zenon, <1>1, <1>4 DEF Bracketed, l
<1>7. Framed(f, path)  BY ONLY Zenon, <1>5, <1>6, PartsFramed
<1> QED  BY Zenon, <1>7 DEF f, g, d, b

\* Gluing is associative.
Associates(x, y, w) == x \o (y \o w) = (x \o y) \o w
LEMMA Associative ==
  ASSUME NEW T, NEW x, NEW y, NEW w, x \in Seq(T) /\ y \in Seq(T) /\ w \in Seq(T)
  PROVE  Associates(x, y, w) /\ x \o y \in Seq(T)
<1> DEFINE xy == x \o y
           yw == y \o w
           f == x \o yw
           g == xy \o w
           a == Len(x)
           b == Len(y)
           c == Len(w)
<1>1. /\ Glues(xy, x, a, y, b) /\ xy \in Seq(T) /\ Len(xy) = a + b /\ a \in Nat /\ b \in Nat
      /\ Glues(yw, y, b, w, c) /\ yw \in Seq(T) /\ Len(yw) = b + c /\ c \in Nat
  BY TwoParts
<1> HIDE DEF xy, yw
<1>2. /\ Glues(f, x, a, yw, Len(yw)) /\ f \in Seq(T) /\ Len(f) = a + Len(yw)
      /\ Glues(g, xy, Len(xy), w, c) /\ g \in Seq(T) /\ Len(g) = Len(xy) + c
  BY <1>1, TwoParts
<1> HIDE DEF a, b, c, f, g
<1>3. Len(f) = Len(g) /\ Len(f) = a + b + c  BY ONLY <1>1, <1>2
<1>4. ASSUME NEW n \in 1 .. Len(f)  PROVE f[n] = g[n]
  <2>1. n \in Int /\ 1 <= n /\ n <= a + b + c  BY ONLY <1>1, <1>3, <1>4
  <2>2. CASE n <= a  BY ONLY <1>1, <1>2, <2>1, <2>2 DEF Glues
  <2>3. CASE a < n /\ n <= a + b
    <3>1. n \in a + 1 .. a + (b + c) /\ n - a \in 1 .. b /\ n \in 1 .. a + b /\ n \in a + 1 .. a + b
      BY ONLY <1>1, <2>1, <2>3
    <3>2. f[n] = yw[n - a] /\ yw[n - a] = y[n - a]  BY ONLY <1>1, <1>2, <3>1 DEF Glues
    <3>3. g[n] = xy[n] /\ xy[n] = y[n - a]  BY ONLY <1>1, <1>2, <3>1 DEF Glues
    <3> QED  BY ONLY <3>2, <3>3
  <2>4. CASE a + b < n
    <3>1. n \in a + 1 .. a + (b + c) /\ n - a \in b + 1 .. b + c /\ n \in a + b + 1 .. a + b + c
          /\ (n - a) - b = n - (a + b)
      BY ONLY <1>1, <2>1, <2>4
    <3>2. f[n] = yw[n - a] /\ yw[n - a] = w[(n - a) - b]  BY ONLY <1>1, <1>2, <3>1 DEF Glues
    <3>3. g[n] = w[n - (a + b)]  BY ONLY <1>1, <1>2, <3>1 DEF Glues
    <3> QED  BY ONLY <3>1, <3>2, <3>3
  <2> QED  BY ONLY <1>1, <2>1, <2>2, <2>3, <2>4
<1>5. f = g  BY ONLY Zenon, <1>2, <1>3, <1>4, SeqEqual
<1> QED  BY ONLY Zenon, <1>1, <1>5 DEF Associates, f, g, xy, yw

\* The brackets belong together, wherever the templates divide them.
Regroups(h, q, op, on, s, cn, cp, z) ==
  /\ h \o (q \o op) \o on \o s \o cn \o (cp \o z) = (h \o q) \o (op \o on) \o s \o (cn \o cp) \o z
  /\ h \o (q \o op) \o s \o (cp \o z) = (h \o q) \o op \o s \o cp \o z
LEMMA Regrouped ==
  ASSUME NEW T, NEW h \in Seq(T), NEW q \in Seq(T), NEW op \in Seq(T), NEW on \in Seq(T), NEW s \in Seq(T),
         NEW cn \in Seq(T), NEW cp \in Seq(T), NEW z \in Seq(T)
  PROVE  Regroups(h, q, op, on, s, cn, cp, z)
<1> DEFINE In3(x, y, w) == x \in Seq(T) /\ y \in Seq(T) /\ w \in Seq(T)
           hq == h \o q
           oo == op \o on
           a == hq \o oo \o s
           b == hq \o op \o s
<1>1. ASSUME NEW x, NEW y, NEW w, In3(x, y, w)  PROVE Associates(x, y, w) /\ x \o y \in Seq(T)
  BY ONLY Zenon, Associative, <1>1
<1>2. In3(h, q, op) /\ In3(op, on, s)  OBVIOUS
<1> HIDE DEF In3
<1>4. hq \in Seq(T) /\ oo \in Seq(T) /\ h \o (q \o op) = hq \o op
  <2>1. h \o q \in Seq(T) /\ op \o on \in Seq(T) /\ Associates(h, q, op)  BY ONLY Zenon, <1>1, <1>2
  <2> QED  BY ONLY Zenon, <2>1 DEF Associates
<1> HIDE DEF hq
<1>5. (hq \o op) \o on = hq \o oo
  <2>1. In3(hq, op, on)  BY <1>4 DEF In3
  <2>2. Associates(hq, op, on)  BY ONLY Zenon, <1>1, <2>1
  <2> QED  BY ONLY Zenon, <2>2 DEF Associates
<1> HIDE DEF oo
<1>6. a \in Seq(T) /\ b \in Seq(T)
  <2>1. In3(hq, oo, s) /\ In3(hq, op, s)  BY <1>4 DEF In3
  <2>2. In3(hq \o oo, s, s) /\ In3(hq \o op, s, s)
    <3>1. hq \o oo \in Seq(T) /\ hq \o op \in Seq(T)  BY ONLY Zenon, <1>1, <2>1
    <3> QED  BY Zenon, <3>1 DEF In3
  <2> QED  BY ONLY Zenon, <1>1, <2>2
<1> HIDE DEF a, b
<1>7. (a \o cn) \o (cp \o z) = (a \o (cn \o cp)) \o z
  <2>1. In3(a, cn, cp)  BY <1>6 DEF In3
  <2>2. a \o cn \in Seq(T) /\ Associates(a, cn, cp)  BY ONLY Zenon, <1>1, <2>1
  <2>3. In3(a \o cn, cp, z)  BY Zenon, <2>2 DEF In3
  <2>4. Associates(a \o cn, cp, z)  BY ONLY Zenon, <1>1, <2>3
  <2> QED  BY ONLY Zenon, <2>2, <2>4 DEF Associates
<1>8. b \o (cp \o z) = (b \o cp) \o z
  <2>1. In3(b, cp, z)  BY <1>6 DEF In3
  <2>2. Associates(b, cp, z)  BY ONLY Zenon, <1>1, <2>1
  <2> QED  BY ONLY Zenon, <2>2 DEF Associates
<1> QED  BY ONLY Zenon, <1>4, <1>5, <1>7, <1>8 DEF Regroups, a, b, oo, hq

\* What is not in two sequences is not in the two together.
LEMMA WithoutBoth ==
  ASSUME NEW T, NEW p \in Seq(T), NEW q \in Seq(T), NEW kinds, Without(p, kinds), Without(q, kinds)
  PROVE  Without(p \o q, kinds)
<1> DEFINE f == p \o q
           a == Len(p)
           l == Len(q)
<1>1. Glues(f, p, a, q, l) /\ a \in Nat /\ l \in Nat /\ DOMAIN p = 1 .. a /\ DOMAIN q = 1 .. l
  BY TwoParts
<1> HIDE DEF f, a, l
<1> SUFFICES ASSUME NEW n \in DOMAIN f PROVE f[n][1] \notin kinds  BY DEF Without, f
<1>2. CASE n \in 1 .. a  BY <1>1, <1>2 DEF Without, Glues
<1>3. CASE n \notin 1 .. a
  <2>1. n - a \in DOMAIN q /\ f[n] = q[n - a]  BY <1>1, <1>3 DEF Glues
  <2> QED  BY <2>1 DEF Without
<1> QED  BY <1>2, <1>3

\* What is at one place of a sequence is at one place of it and another.
LEMMA OnlyAtBoth ==
  ASSUME NEW T, NEW p \in Seq(T), NEW q \in Seq(T), NEW kind, NEW i
  PROVE  /\ OnlyAt(p, kind, i) /\ Without(q, {kind}) => OnlyAt(p \o q, kind, i)
         /\ Without(p, {kind}) /\ OnlyAt(q, kind, i) => OnlyAt(p \o q, kind, Len(p) + i)
<1> DEFINE f == p \o q
           a == Len(p)
           l == Len(q)
<1>1. Glues(f, p, a, q, l) /\ a \in Nat /\ l \in Nat /\ DOMAIN p = 1 .. a /\ DOMAIN q = 1 .. l
  BY TwoParts
<1> HIDE DEF f, a, l
<1>2. ASSUME NEW n \in DOMAIN f
      PROVE  (n \in DOMAIN p /\ f[n] = p[n]) \/ (n - a \in DOMAIN q /\ f[n] = q[n - a] /\ n \notin DOMAIN p)
  BY <1>1 DEF Glues
<1>3. ASSUME OnlyAt(p, kind, i), Without(q, {kind})  PROVE OnlyAt(f, kind, i)
  <2>1. i \in DOMAIN f /\ i \in DOMAIN p /\ f[i] = p[i]  BY <1>1, <1>3 DEF OnlyAt, Glues
  <2> QED  BY <1>2, <1>3, <2>1 DEF OnlyAt, Without
<1>4. ASSUME Without(p, {kind}), OnlyAt(q, kind, i)  PROVE OnlyAt(f, kind, a + i)
  <2>1. a + i \in DOMAIN f /\ i \in 1 .. l /\ a + i \in a + 1 .. a + l /\ (a + i) - a = i
    BY <1>1, <1>4 DEF OnlyAt, Glues
  <2>2. f[a + i] = q[i]  BY <1>1, <2>1 DEF Glues
  <2>3. f[a + i][1] = kind  BY <1>4, <2>2 DEF OnlyAt
  <2>4. ASSUME NEW n \in DOMAIN f, f[n][1] = kind  PROVE n = a + i
    <3>1. n - a \in DOMAIN q /\ f[n] = q[n - a]  BY <1>2, <1>4, <2>4 DEF Without
    <3>2. n - a = i  BY <1>4, <2>4, <3>1 DEF OnlyAt
    <3> QED  BY <1>1, <2>1, <2>4, <3>2 DEF Glues
  <2> QED  BY <2>1, <2>3, <2>4 DEF OnlyAt
<1> QED  BY <1>3, <1>4 DEF f, a

\* The opening brackets of a path, and as many closing ones.
LEMMA BracketsOf ==
  ASSUME NEW W, NEW parts \in Seq(W)
  PROVE  /\ Opened(parts) \in Seq({"open"} \X W) /\ Len(Opened(parts)) = Len(parts)
         /\ Closed(parts) \in Seq({"close"} \X W) /\ Len(Closed(parts)) = Len(parts)
<1>1. DOMAIN parts = 1 .. Len(parts) /\ Len(parts) \in Nat  OBVIOUS
<1>2. Opened(parts) \in [1 .. Len(parts) -> {"open"} \X W]  BY <1>1 DEF Opened
<1>3. Closed(parts) \in [1 .. Len(parts) -> {"close"} \X W]
  <2>1. \A n \in DOMAIN parts : Len(parts) + 1 - n \in DOMAIN parts  BY <1>1
  <2>2. \A n \in DOMAIN parts : parts[Len(parts) + 1 - n] \in W  BY <2>1
  <2> QED  BY <1>1, <2>2 DEF Closed
<1>4. ASSUME NEW B, NEW f \in [1 .. Len(parts) -> B]  PROVE f \in Seq(B) /\ Len(f) = Len(parts)
  BY <1>1
<1> QED  BY <1>2, <1>3, <1>4

\* Two paths opened one after the other are opened as one, and closed alike.
LEMMA BracketsJoin ==
  ASSUME NEW W, NEW u \in Seq(W), NEW v \in Seq(W)
  PROVE  Opening(Opened(u) \o Opened(v), u \o v) /\ Closing(Closed(v) \o Closed(u), u \o v)
<1> DEFINE ou == Opened(u)
           ov == Opened(v)
           cu == Closed(u)
           cv == Closed(v)
           o == ou \o ov
           c == cv \o cu
           path == u \o v
           a == Len(u)
           l == Len(v)
<1>1. /\ Glues(path, u, a, v, l) /\ a \in Nat /\ l \in Nat /\ Len(path) = a + l
      /\ DOMAIN u = 1 .. a /\ DOMAIN v = 1 .. l
  BY TwoParts
<1>2. /\ ou \in Seq({"open"} \X W) /\ ov \in Seq({"open"} \X W) /\ Len(ou) = a /\ Len(ov) = l
      /\ cu \in Seq({"close"} \X W) /\ cv \in Seq({"close"} \X W) /\ Len(cu) = a /\ Len(cv) = l
  BY BracketsOf
<1>3. (\A n \in 1 .. a : ou[n] = <<"open", u[n]>>) /\ (\A n \in 1 .. l : ov[n] = <<"open", v[n]>>)
  BY <1>1 DEF Opened
<1>4. (\A n \in 1 .. a : cu[n][1] = "close") /\ (\A n \in 1 .. l : cv[n][1] = "close")
  BY <1>1 DEF Closed
<1> HIDE DEF ou, ov, cu, cv, path, a, l
<1>5. Glues(o, ou, a, ov, l) /\ Len(o) = a + l  BY <1>2, TwoParts
<1>6. Glues(c, cv, l, cu, a) /\ Len(c) = l + a
  <2>1. cu \in Seq({"close"} \X W) /\ cv \in Seq({"close"} \X W) /\ Len(cu) = a /\ Len(cv) = l  BY <1>2
  <2> QED  BY ONLY <2>1, TwoParts DEF c
<1> HIDE DEF o, c
<1>7. ASSUME NEW n \in 1 .. a + l  PROVE o[n][1] = "open" /\ o[n][2] = path[n]
  <2>1. CASE n \in 1 .. a
    <3>1. o[n] = <<"open", u[n]>> /\ path[n] = u[n]  BY ONLY <1>1, <1>3, <1>5, <2>1 DEF Glues
    <3> QED  BY ONLY <3>1
  <2>2. CASE n \notin 1 .. a
    <3>1. n \in a + 1 .. a + l /\ n - a \in 1 .. l  BY <1>1, <2>2
    <3>2. o[n] = <<"open", v[n - a]>> /\ path[n] = v[n - a]  BY ONLY <1>1, <1>3, <1>5, <3>1 DEF Glues
    <3> QED  BY ONLY <3>2
  <2> QED  BY <2>1, <2>2
<1>8. ASSUME NEW n \in 1 .. a + l  PROVE c[n][1] = "close"
  <2>1. CASE n \in 1 .. l  BY ONLY <1>1, <1>4, <1>6, <2>1 DEF Glues
  <2>2. CASE n \notin 1 .. l
    <3>1. n \in l + 1 .. l + a /\ n - l \in 1 .. a  BY <1>1, <2>2
    <3> QED  BY ONLY <1>1, <1>4, <1>6, <3>1 DEF Glues
  <2> QED  BY <2>1, <2>2
<1>9. Len(o) = Len(path) /\ Len(c) = Len(path) /\ Len(path) = a + l  BY <1>1, <1>5, <1>6
<1> QED  BY ONLY Zenon, <1>7, <1>8, <1>9 DEF Opening, Closing, o, c, path, ou, ov, cu, cv

\* Some lines, one after the other.
LEMMA Lines ==
  ASSUME NEW T, NEW a \in T, NEW b \in T, NEW c \in T
  PROVE  <<>> \in Seq(T) /\ <<a>> \in Seq(T) /\ <<a, b>> \in Seq(T) /\ <<a, b, c>> \in Seq(T)
OBVIOUS

\* Which kinds of lines are not in a short text.
LEMMA LinesWithout ==
  ASSUME NEW a, NEW b, NEW c, NEW kinds, a[1] \notin kinds
  PROVE  /\ Without(<<>>, kinds) /\ Without(<<a>>, kinds)
         /\ b[1] \notin kinds => Without(<<a, b>>, kinds)
         /\ b[1] \notin kinds /\ c[1] \notin kinds => Without(<<a, b, c>>, kinds)
BY DEF Without

\* Where the only line of a kind is in a short text.
LEMMA LinesOnlyAt ==
  ASSUME NEW a, NEW b, NEW c, NEW kind
  PROVE  /\ a[1] = kind => OnlyAt(<<a>>, kind, 1)
         /\ a[1] = kind /\ b[1] # kind => OnlyAt(<<a, b>>, kind, 1)
         /\ a[1] # kind /\ b[1] = kind => OnlyAt(<<a, b>>, kind, 2)
         /\ a[1] = kind /\ b[1] # kind /\ c[1] # kind => OnlyAt(<<a, b, c>>, kind, 1)
<1>1. /\ DOMAIN <<a>> = {1} /\ DOMAIN <<a, b>> = {1, 2} /\ DOMAIN <<a, b, c>> = {1, 2, 3}
      /\ <<a>>[1] = a /\ <<a, b>>[1] = a /\ <<a, b>>[2] = b
      /\ <<a, b, c>>[1] = a /\ <<a, b, c>>[2] = b /\ <<a, b, c>>[3] = c
  OBVIOUS
<1> DEFINE f == <<a>>
           g == <<a, b>>
           h == <<a, b, c>>
<1> HIDE DEF f, g, h
<1>2. /\ DOMAIN f = {1} /\ DOMAIN g = {1, 2} /\ DOMAIN h = {1, 2, 3}
      /\ f[1] = a /\ g[1] = a /\ g[2] = b /\ h[1] = a /\ h[2] = b /\ h[3] = c
  BY <1>1 DEF f, g, h
<1>3. /\ a[1] = kind => OnlyAt(f, kind, 1)
      /\ a[1] = kind /\ b[1] # kind => OnlyAt(g, kind, 1)
      /\ a[1] # kind /\ b[1] = kind => OnlyAt(g, kind, 2)
      /\ a[1] = kind /\ b[1] # kind /\ c[1] # kind => OnlyAt(h, kind, 1)
  BY <1>2 DEF OnlyAt
<1> QED  BY <1>3 DEF f, g, h

\* The lines of the frames.
Kinds == {"include", "open", "close", "comment", "ifndef", "endif", "services"}
Words ==
  STRING \cup {"message header", "additional header", "grpcpp headers", "service header", "gmock",
               "grpcpp/ports_def.inc", "grpcpp/ports_undef.inc", "GRPC", "GRPC_MOCK", "dollar dollar",
               texts["services_namespace"]} \cup {""}
Line == Kinds \X Words

\* The lines of every frame are lines.
LEMMA FrameLines ==
  ASSUME IInv
  PROVE  /\ Include("message header") \in Line /\ Include("additional header") \in Line
         /\ Include("grpcpp headers") \in Line /\ Include("service header") \in Line
         /\ Include("gmock") \in Line /\ PortsDef \in Line /\ PortsUndef \in Line
         /\ <<"ifndef", "GRPC">> \in Line /\ <<"endif", "GRPC">> \in Line
         /\ <<"ifndef", "GRPC_MOCK">> \in Line /\ <<"endif", "GRPC_MOCK">> \in Line
         /\ <<"services", "">> \in Line
         /\ FileComments \in Seq(Line) /\ Imports \in Seq(Line)
         /\ Opened(file.package) \in Seq(Line) /\ Closed(file.package) \in Seq(Line)
         /\ Opened(Namespace) \in Seq(Line) /\ Closed(Namespace) \in Seq(Line)
         /\ file.package \in Seq(Words) /\ Namespace \in Seq(Words)
<1>1. /\ file.package \in Seq(STRING) /\ file.imports \in Seq(STRING) /\ file.comment \in STRING
  BY CppGeneratorAssumption DEF IInv, TypeOK
<1>2. STRING \subseteq Words  BY DEF Words
<1>3. file.package \in Seq(Words) /\ file.imports \in Seq(Words) /\ file.comment \in Words
  <2>1. \A A, B : A \subseteq B => Seq(A) \subseteq Seq(B)  OBVIOUS
  <2>2. Seq(STRING) \subseteq Seq(Words)  BY ONLY Zenon, <1>2, <2>1
  <2> QED  BY ONLY Zenon, <1>1, <1>2, <2>2
<1>4. Namespace \in Seq(Words)
  <2>1. texts["services_namespace"] \in Words  BY DEF Words
  <2> DEFINE w == texts["services_namespace"]
  <2>2. Namespace = <<>> \/ Namespace = <<w>>  BY Zenon DEF Namespace
  <2> HIDE DEF w
  <2>3. <<>> \in Seq(Words) /\ <<w>> \in Seq(Words)  BY <2>1, Lines DEF w
  <2> QED  BY ONLY Zenon, <2>2, <2>3
<1>5. ASSUME NEW parts \in Seq(Words)
      PROVE  Opened(parts) \in Seq(Line) /\ Closed(parts) \in Seq(Line)
  <2>1. {"open"} \X Words \subseteq Line /\ {"close"} \X Words \subseteq Line  BY DEF Line, Kinds
  <2>2. \A A : A \subseteq Line => Seq(A) \subseteq Seq(Line)  OBVIOUS
  <2>3. Opened(parts) \in Seq({"open"} \X Words) /\ Closed(parts) \in Seq({"close"} \X Words)
    BY <1>5, BracketsOf
  <2>4. Seq({"open"} \X Words) \subseteq Seq(Line) /\ Seq({"close"} \X Words) \subseteq Seq(Line)
    BY ONLY Zenon, <2>1, <2>2
  <2> QED  BY ONLY Zenon, <2>3, <2>4
<1>6. FileComments \in Seq(Line)
  <2>1. EscapeVariableDelimiters(file.comment) \in Words
    BY <1>3 DEF EscapeVariableDelimiters, Words
  <2>2. <<"comment", EscapeVariableDelimiters(file.comment)>> \in Line  BY <2>1 DEF Line, Kinds
  <2> DEFINE line == <<"comment", EscapeVariableDelimiters(file.comment)>>
  <2>3. FileComments = <<>> \/ FileComments = <<line>>  BY Zenon DEF FileComments
  <2> HIDE DEF line
  <2>4. <<>> \in Seq(Line) /\ <<line>> \in Seq(Line)  BY <2>2, Lines DEF line
  <2> QED  BY ONLY Zenon, <2>3, <2>4
<1>7. Imports \in Seq(Line)
  <2>1. ASSUME NEW n \in DOMAIN file.imports  PROVE Include(file.imports[n]) \in Line
    BY <1>3 DEF Include, Line, Kinds
  <2>2. [n \in DOMAIN file.imports |-> Include(file.imports[n])] \in Seq(Line)
    <3>1. DOMAIN file.imports = 1 .. Len(file.imports) /\ Len(file.imports) \in Nat  BY <1>3
    <3> DEFINE N == Len(file.imports)
               f == [n \in DOMAIN file.imports |-> Include(file.imports[n])]
    <3>2. f \in [1 .. N -> Line]  BY <2>1, <3>1
    <3> HIDE DEF f
    <3>3. f \in Seq(Line)  BY <3>1, <3>2
    <3> QED  BY <3>3 DEF f
  <2>3. <<>> \in Seq(Line)  OBVIOUS
  <2> QED  BY <2>2, <2>3 DEF Imports
<1>8. /\ Include("message header") \in Line /\ Include("additional header") \in Line
      /\ Include("grpcpp headers") \in Line /\ Include("service header") \in Line
      /\ Include("gmock") \in Line /\ PortsDef \in Line /\ PortsUndef \in Line
      /\ <<"ifndef", "GRPC">> \in Line /\ <<"endif", "GRPC">> \in Line
      /\ <<"ifndef", "GRPC_MOCK">> \in Line /\ <<"endif", "GRPC_MOCK">> \in Line
  BY DEF Line, Include, PortsDef, PortsUndef, Kinds, Words
<1>9. <<"services", "">> \in Line
  <2>1. "" \in Words  BY Zenon DEF Words
  <2>2. "services" \in Kinds  BY DEF Kinds
  <2> QED  BY Zenon, <2>1, <2>2 DEF Line
<1> QED  BY Zenon, <1>3, <1>4, <1>5, <1>6, <1>7, <1>8, <1>9

\* The comments and the imports open and close nothing.
LEMMA FrameWithout ==
  ASSUME NEW kinds \in {{"open", "close", "services", "endif"}, {"open", "close", "services", "ifndef"},
                        {"ifndef"}, {"endif"}}
  PROVE  Without(FileComments, kinds) /\ Without(Imports, kinds)
<1>1. Without(FileComments, kinds)
  <2> DEFINE line == <<"comment", EscapeVariableDelimiters(file.comment)>>
  <2>1. line[1] \notin kinds  OBVIOUS
  <2> HIDE DEF line
  <2>2. Without(<<>>, kinds) /\ Without(<<line>>, kinds)  BY ONLY Zenon, <2>1, LinesWithout
  <2>3. FileComments = <<>> \/ FileComments = <<line>>  BY Zenon DEF FileComments, line
  <2> QED  BY Zenon, <2>2, <2>3
<1>2. Without(Imports, kinds)
  BY DEF Imports, Include, Without
<1> QED  BY <1>1, <1>2

\* A frame's lines before its namespaces, and after them.
Prologue(u) ==
  CASE u = "header" -> HeaderPrologue [] u = "source" -> SourcePrologue [] u = "mock" -> MockPrologue
Includes(u) ==
  CASE u = "header" -> (IF texts["additional_header_includes"] = "" THEN <<>> ELSE <<Include("additional header")>>)
                         \o <<Include("grpcpp headers"), PortsDef>> \o Imports
    [] u = "source" -> <<Include("grpcpp headers"), PortsDef>>
    [] u = "mock" -> <<Include("grpcpp headers"), Include("gmock")>>
After(u) ==
  CASE u = "header" -> <<PortsUndef, <<"endif", "GRPC">> >>
    [] u = "source" -> IF file.package = <<>> THEN <<>> ELSE <<PortsUndef>>
    [] u = "mock" -> << <<"endif", "GRPC_MOCK">> >>

\* What stands before and after the namespaces of the header.
LEMMA HeaderEnds ==
  ASSUME IInv
  PROVE  /\ Prologue("header") \in Seq(Line) /\ Includes("header") \in Seq(Line) /\ After("header") \in Seq(Line)
         /\ Without(Prologue("header") \o Includes("header"), {"open", "close", "services", "endif"})
         /\ Without(After("header"), {"open", "close", "services", "ifndef"})
         /\ Guarded(Prologue("header") \o Includes("header"), After("header"))
<1> DEFINE i == <<"ifndef", "GRPC">>
           m == Include("message header")
           g == Include("grpcpp headers")
           a == Include("additional header")
           e == <<"endif", "GRPC">>
           G == <<i, m>>
           X == IF texts["additional_header_includes"] = "" THEN <<>> ELSE <<a>>
           Y == <<g, PortsDef>>
           E == <<PortsUndef, e>>
           K == {"open", "close", "services", "endif"}
           L == {"open", "close", "services", "ifndef"}
<1>1. /\ i[1] = "ifndef" /\ m[1] = "include" /\ g[1] = "include" /\ a[1] = "include" /\ PortsDef[1] = "include"
      /\ PortsUndef[1] = "include" /\ e[1] = "endif"
  BY DEF Include, PortsDef, PortsUndef
<1>2. i \in Line /\ m \in Line /\ g \in Line /\ a \in Line /\ e \in Line /\ PortsDef \in Line /\ PortsUndef \in Line
  BY ONLY Zenon, FrameLines, IInv
<1>3. FileComments \in Seq(Line) /\ Imports \in Seq(Line)  BY ONLY Zenon, FrameLines, IInv
<1>4. /\ Without(FileComments, K) /\ Without(FileComments, {"ifndef"})
      /\ Without(Imports, K) /\ Without(Imports, {"ifndef"})
  BY FrameWithout
<1>5. /\ Prologue("header") = FileComments \o G /\ Includes("header") = (X \o Y) \o Imports
      /\ After("header") = E
  BY Zenon DEF Prologue, Includes, After, HeaderPrologue
<1>6. X = <<>> \/ X = <<a>>  BY Zenon
<1> HIDE DEF i, m, g, a, e, X
<1>7. <<>> \in Seq(Line) /\ <<a>> \in Seq(Line) /\ G \in Seq(Line) /\ Y \in Seq(Line) /\ E \in Seq(Line)
  BY <1>2, Lines
<1>8. X \in Seq(Line)  BY ONLY Zenon, <1>6, <1>7
<1>9. /\ Without(<<a>>, K) /\ Without(<<>>, K) /\ Without(G, K) /\ Without(Y, K)
      /\ Without(<<a>>, {"ifndef"}) /\ Without(<<>>, {"ifndef"}) /\ Without(Y, {"ifndef"})
      /\ Without(E, L)
  BY <1>1, LinesWithout
<1>10. Without(X, K) /\ Without(X, {"ifndef"})  BY ONLY Zenon, <1>6, <1>9
<1>11. OnlyAt(G, "ifndef", 1) /\ OnlyAt(E, "endif", 2)  BY <1>1, LinesOnlyAt
<1> HIDE DEF G, Y, E, K, L
<1> DEFINE FG == FileComments \o G
           XY == X \o Y
           XYI == XY \o Imports
<1>12. FG \in Seq(Line) /\ XY \in Seq(Line)  BY ONLY Zenon, <1>3, <1>7, <1>8, TwoParts
<1>13. Without(FG, K) /\ Without(XY, K) /\ Without(XY, {"ifndef"})
  BY ONLY Zenon, <1>3, <1>4, <1>7, <1>8, <1>9, <1>10, WithoutBoth
<1>14. OnlyAt(FG, "ifndef", Len(FileComments) + 1)  BY ONLY Zenon, <1>3, <1>4, <1>7, <1>11, OnlyAtBoth
<1> HIDE DEF FG, XY
<1>15. XYI \in Seq(Line)  BY ONLY Zenon, <1>3, <1>12, TwoParts
<1>16. Without(XYI, K) /\ Without(XYI, {"ifndef"})  BY ONLY Zenon, <1>3, <1>4, <1>12, <1>13, WithoutBoth
<1> HIDE DEF XYI
<1>18. Without(FG \o XYI, K)  BY ONLY Zenon, <1>12, <1>13, <1>15, <1>16, WithoutBoth
<1>19. OnlyAt(FG \o XYI, "ifndef", Len(FileComments) + 1)  BY ONLY Zenon, <1>12, <1>14, <1>15, <1>16, OnlyAtBoth
<1>20. Guarded(FG \o XYI, E)  BY ONLY Zenon, <1>11, <1>19 DEF Guarded
<1>21. Prologue("header") = FG /\ Includes("header") = XYI  BY ONLY Zenon, <1>5 DEF FG, XYI, XY
<1> QED  BY ONLY Zenon, <1>5, <1>7, <1>9, <1>12, <1>15, <1>18, <1>20, <1>21 DEF K, L

\* The same of the source.
LEMMA SourceEnds ==
  ASSUME IInv
  PROVE  /\ Prologue("source") \in Seq(Line) /\ Includes("source") \in Seq(Line) /\ After("source") \in Seq(Line)
         /\ Without(Prologue("source") \o Includes("source"), {"open", "close", "services", "endif"})
         /\ Without(After("source"), {"open", "close", "services", "ifndef"})
         /\ Guarded(Prologue("source") \o Includes("source"), After("source"))
<1> DEFINE m == Include("message header")
           h == Include("service header")
           g == Include("grpcpp headers")
           X == <<m, h>>
           Y == <<g, PortsDef>>
           E == IF file.package = <<>> THEN <<>> ELSE <<PortsUndef>>
           K == {"open", "close", "services", "endif"}
           L == {"open", "close", "services", "ifndef"}
<1>1. /\ m[1] = "include" /\ g[1] = "include" /\ h[1] = "include" /\ PortsDef[1] = "include"
      /\ PortsUndef[1] = "include"
  BY DEF Include, PortsDef, PortsUndef
<1>2. m \in Line /\ h \in Line /\ g \in Line /\ PortsDef \in Line /\ PortsUndef \in Line
  BY ONLY Zenon, FrameLines, IInv
<1>3. Prologue("source") = X /\ Includes("source") = Y /\ After("source") = E
  BY Zenon DEF Prologue, Includes, After, SourcePrologue
<1>4. E = <<>> \/ E = <<PortsUndef>>  BY Zenon
<1> HIDE DEF m, g, h, E
<1>5. <<>> \in Seq(Line) /\ <<PortsUndef>> \in Seq(Line) /\ X \in Seq(Line) /\ Y \in Seq(Line)
  BY <1>2, Lines
<1>6. /\ Without(X, K) /\ Without(Y, K) /\ Without(X, {"ifndef"}) /\ Without(Y, {"ifndef"})
      /\ Without(<<>>, L) /\ Without(<<PortsUndef>>, L) /\ Without(<<>>, {"endif"})
      /\ Without(<<PortsUndef>>, {"endif"})
  BY <1>1, LinesWithout
<1> HIDE DEF X, Y, K, L
<1>7. E \in Seq(Line) /\ Without(E, L) /\ Without(E, {"endif"})  BY ONLY Zenon, <1>4, <1>5, <1>6
<1>9. Without(X \o Y, K) /\ Without(X \o Y, {"ifndef"})  BY ONLY Zenon, <1>5, <1>6, WithoutBoth
<1>10. Guarded(X \o Y, E)  BY ONLY Zenon, <1>7, <1>9 DEF Guarded
<1> QED  BY ONLY Zenon, <1>3, <1>5, <1>7, <1>9, <1>10 DEF K, L

\* The same of the mock.
LEMMA MockEnds ==
  ASSUME IInv
  PROVE  /\ Prologue("mock") \in Seq(Line) /\ Includes("mock") \in Seq(Line) /\ After("mock") \in Seq(Line)
         /\ Without(Prologue("mock") \o Includes("mock"), {"open", "close", "services", "endif"})
         /\ Without(After("mock"), {"open", "close", "services", "ifndef"})
         /\ Guarded(Prologue("mock") \o Includes("mock"), After("mock"))
<1> DEFINE i == <<"ifndef", "GRPC_MOCK">>
           m == Include("message header")
           h == Include("service header")
           g == Include("grpcpp headers")
           k == Include("gmock")
           e == <<"endif", "GRPC_MOCK">>
           X == <<i, m, h>>
           Y == <<g, k>>
           E == <<e>>
           K == {"open", "close", "services", "endif"}
           L == {"open", "close", "services", "ifndef"}
<1>1. /\ i[1] = "ifndef" /\ m[1] = "include" /\ g[1] = "include" /\ h[1] = "include" /\ k[1] = "include"
      /\ e[1] = "endif"
  BY DEF Include
<1>2. i \in Line /\ m \in Line /\ h \in Line /\ g \in Line /\ k \in Line /\ e \in Line
  BY ONLY Zenon, FrameLines, IInv
<1>3. Imports \in Seq(Line)  BY ONLY Zenon, FrameLines, IInv
<1>4. Without(Imports, K) /\ Without(Imports, {"ifndef"})  BY FrameWithout
<1>5. Prologue("mock") = X \o Imports /\ Includes("mock") = Y /\ After("mock") = E
  BY Zenon DEF Prologue, Includes, After, MockPrologue
<1> HIDE DEF i, m, g, h, k, e
<1>6. X \in Seq(Line) /\ Y \in Seq(Line) /\ E \in Seq(Line)
  <2> HIDE DEF X, Y, E
  <2>1. X \in Seq(Line)  BY ONLY <1>2, Lines DEF X
  <2>2. Y \in Seq(Line) /\ E \in Seq(Line)  BY ONLY <1>2, Lines DEF Y, E
  <2> QED  BY ONLY <2>1, <2>2
<1>7. Without(X, K) /\ Without(Y, K) /\ Without(Y, {"ifndef"}) /\ Without(E, L)
  <2>1. Without(Y, K) /\ Without(Y, {"ifndef"}) /\ Without(E, L)  BY ONLY <1>1, LinesWithout
  <2>2. i[1] \notin K /\ m[1] \notin K /\ h[1] \notin K  BY ONLY <1>1
  <2> HIDE DEF K
  <2>3. Without(X, K)  BY ONLY Zenon, <2>2, LinesWithout
  <2> QED  BY ONLY Zenon, <2>1, <2>3
<1>8. OnlyAt(X, "ifndef", 1) /\ OnlyAt(E, "endif", 1)  BY <1>1, LinesOnlyAt
<1> HIDE DEF X, Y, E, K, L
<1> DEFINE XI == X \o Imports
<1>9. XI \in Seq(Line)  BY ONLY Zenon, <1>3, <1>6, TwoParts
<1>10. Without(XI, K)  BY ONLY Zenon, <1>3, <1>4, <1>6, <1>7, WithoutBoth
<1>11. OnlyAt(XI, "ifndef", 1)  BY ONLY Zenon, <1>3, <1>4, <1>6, <1>8, OnlyAtBoth
<1> HIDE DEF XI
<1>13. Without(XI \o Y, K)  BY ONLY Zenon, <1>6, <1>7, <1>9, <1>10, WithoutBoth
<1>14. OnlyAt(XI \o Y, "ifndef", 1)  BY ONLY Zenon, <1>6, <1>7, <1>9, <1>11, OnlyAtBoth
<1>15. Guarded(XI \o Y, E)  BY ONLY Zenon, <1>8, <1>14 DEF Guarded
<1> QED  BY ONLY Zenon, <1>5, <1>6, <1>7, <1>9, <1>13, <1>15 DEF K, L, XI

\* The frames in their parts.
LEMMA FrameForms ==
  /\ Frame("header") = Prologue("header") \o (Includes("header") \o Opened(file.package)) \o Opened(Namespace)
                         \o Services \o Closed(Namespace) \o (Closed(file.package) \o After("header"))
  /\ Frame("mock") = Prologue("mock") \o (Includes("mock") \o Opened(file.package)) \o Opened(Namespace)
                       \o Services \o Closed(Namespace) \o (Closed(file.package) \o After("mock"))
  /\ Frame("source") = Prologue("source") \o (Includes("source") \o Opened(file.package)) \o Services
                         \o SourceEpilogue
<1>1. Frame("header") = HeaderPrologue \o HeaderIncludes \o Opened(Namespace) \o Services
                          \o Closed(Namespace) \o HeaderEpilogue
  BY Zenon DEF Frame
<1>2. Frame("mock") = MockPrologue \o MockIncludes \o Opened(Namespace) \o Services
                        \o Closed(Namespace) \o MockEpilogue
  BY Zenon DEF Frame
<1>3. Frame("source") = SourcePrologue \o SourceIncludes \o Services \o SourceEpilogue
  BY Zenon DEF Frame
<1>4. /\ HeaderPrologue = Prologue("header") /\ HeaderIncludes = Includes("header") \o Opened(file.package)
      /\ HeaderEpilogue = Closed(file.package) \o After("header")
  BY Zenon DEF Prologue, Includes, After, HeaderIncludes, HeaderEpilogue
<1>5. /\ MockPrologue = Prologue("mock") /\ MockIncludes = Includes("mock") \o Opened(file.package)
      /\ MockEpilogue = Closed(file.package) \o After("mock")
  BY Zenon DEF Prologue, Includes, After, MockIncludes, MockEpilogue
<1>6. SourcePrologue = Prologue("source") /\ SourceIncludes = Includes("source") \o Opened(file.package)
  BY Zenon DEF Prologue, Includes, SourceIncludes
<1> QED  BY ONLY Zenon, <1>1, <1>2, <1>3, <1>4, <1>5, <1>6

\* The services stand on one line of the frame.
LEMMA ServicesLine == IInv => Services \in Seq(Line) /\ Len(Services) = 1 /\ Services[1][1] = "services"
<1> SUFFICES ASSUME IInv PROVE Services \in Seq(Line) /\ Len(Services) = 1 /\ Services[1][1] = "services"
  OBVIOUS
<1> PICK x : x = ""  OBVIOUS
<1> DEFINE line == <<"services", x>>
<1>1. line \in Line  BY Zenon, FrameLines
<1>2. Services = <<line>>  BY Zenon DEF Services
<1>3. line[1] = "services"  OBVIOUS
<1> HIDE DEF line
<1>4. <<line>> \in Seq(Line) /\ Len(<<line>>) = 1 /\ <<line>>[1] = line  BY ONLY <1>1
<1> QED  BY Zenon, <1>2, <1>3, <1>4

\* The header and the mock have the brackets of the package and the namespace.
LEMMA NamespaceFramed ==
  ASSUME IInv, NEW u \in {"header", "mock"}
  PROVE  Framed(Frame(u), file.package \o Namespace)
<1> DEFINE h == Prologue(u)
           q == Includes(u)
           op == Opened(file.package)
           on == Opened(Namespace)
           cn == Closed(Namespace)
           cp == Closed(file.package)
           z == After(u)
           path == file.package \o Namespace
           o == op \o on
           c == cn \o cp
           p == h \o q
<1>1. /\ h \in Seq(Line) /\ q \in Seq(Line) /\ z \in Seq(Line)
      /\ Without(p, {"open", "close", "services", "endif"})
      /\ Without(z, {"open", "close", "services", "ifndef"})
      /\ Guarded(p, z)
  BY Zenon, HeaderEnds, MockEnds
<1>2. op \in Seq(Line) /\ on \in Seq(Line) /\ cn \in Seq(Line) /\ cp \in Seq(Line)
  BY Zenon, FrameLines
<1>3. Services \in Seq(Line) /\ Len(Services) = 1 /\ Services[1][1] = "services"  BY Zenon, ServicesLine
<1>4. Frame(u) = h \o (q \o op) \o on \o Services \o cn \o (cp \o z)
  BY Zenon, FrameForms
<1>5. Opening(o, path) /\ Closing(c, path)
  <2>1. file.package \in Seq(Words) /\ Namespace \in Seq(Words)  BY Zenon, FrameLines
  <2> QED  BY ONLY Zenon, <2>1, BracketsJoin
<1> HIDE DEF h, q, op, on, cn, cp, z, path
<1>6. Frame(u) = p \o o \o Services \o c \o z
  <2>1. Regroups(h, q, op, on, Services, cn, cp, z)  BY ONLY Zenon, <1>1, <1>2, <1>3, Regrouped
  <2> QED  BY ONLY Zenon, <1>4, <2>1 DEF Regroups
<1>7. p \in Seq(Line) /\ o \in Seq(Line) /\ c \in Seq(Line)  BY ONLY Zenon, <1>1, <1>2, TwoParts
<1> HIDE DEF p, o, c
<1>8. Framed(p \o o \o Services \o c \o z, path)
  <2>1. Brackets(p, o, Services, c, z, path, Line)  BY ONLY Zenon, <1>1, <1>3, <1>5, <1>7 DEF Brackets
  <2> QED  BY ONLY Zenon, <2>1, JoinedFramed
<1> QED  BY ONLY Zenon, <1>6, <1>8 DEF path

\* The source has those of the package.
LEMMA PackageFramed == ASSUME IInv PROVE Framed(Frame("source"), file.package)
<1> DEFINE h == Prologue("source")
           q == Includes("source")
           o == Opened(file.package)
           c == [n \in DOMAIN file.package |-> <<"close", file.package[n]>>]
           e == After("source")
           p == h \o q
           path == file.package
<1>1. /\ h \in Seq(Line) /\ q \in Seq(Line) /\ e \in Seq(Line)
      /\ Without(p, {"open", "close", "services", "endif"})
      /\ Without(e, {"open", "close", "services", "ifndef"})
      /\ Guarded(p, e)
  BY Zenon, SourceEnds
<1>2. path \in Seq(Words) /\ o \in Seq(Line)  BY Zenon, FrameLines
<1>3. Opening(o, path)
  <2>1. DOMAIN path = 1 .. Len(path) /\ Len(path) \in Nat  BY <1>2
  <2>2. Len(o) = Len(path)  BY ONLY Zenon, <1>2, BracketsOf
  <2> QED  BY <2>1, <2>2 DEF Opened, Opening
<1>4. c \in Seq(Line) /\ Closing(c, path)
  <2> DEFINE l == Len(path)
  <2>1. DOMAIN path = 1 .. l /\ l \in Nat  BY <1>2
  <2>2. \A n \in DOMAIN path : path[n] \in Words  BY <1>2
  <2>3. c \in [1 .. l -> Line] /\ \A n \in 1 .. l : c[n][1] = "close"  BY <2>1, <2>2 DEF Line, Kinds
  <2> HIDE DEF c, l
  <2>4. c \in Seq(Line) /\ Len(c) = l  BY <2>1, <2>3
  <2> QED  BY <2>3, <2>4 DEF l, Closing
<1>5. Services \in Seq(Line) /\ Len(Services) = 1 /\ Services[1][1] = "services"  BY Zenon, ServicesLine
<1>6. SourceEpilogue = c \o e
  <2>1. CASE file.package # <<>>  BY Zenon, <2>1 DEF SourceEpilogue, After
  <2>2. CASE file.package = <<>>
    <3>1. SourceEpilogue = <<>> /\ e = <<>>  BY Zenon, <2>2 DEF SourceEpilogue, After
    <3>2. Len(c) = 0
      <4>1. Len(path) = 0  BY <2>2
      <4> QED  BY ONLY Zenon, <1>4, <4>1 DEF Closing
    <3> HIDE DEF c
    <3>3. c = <<>>  BY ONLY <1>4, <3>2
    <3>4. <<>> \o <<>> = <<>>  OBVIOUS
    <3> QED  BY ONLY Zenon, <3>1, <3>3, <3>4
  <2> QED  BY <2>1, <2>2
<1>7. Frame("source") = h \o (q \o o) \o Services \o (c \o e)  BY Zenon, <1>6, FrameForms
<1> HIDE DEF h, q, o, c, e, path
<1>8. Frame("source") = p \o o \o Services \o c \o e
  <2>1. Regroups(h, q, o, o, Services, c, c, e)  BY ONLY Zenon, <1>1, <1>2, <1>4, <1>5, Regrouped
  <2> QED  BY ONLY Zenon, <1>7, <2>1 DEF Regroups
<1>9. p \in Seq(Line)  BY ONLY Zenon, <1>1, TwoParts
<1> HIDE DEF p
<1>10. Framed(p \o o \o Services \o c \o e, path)
  <2>1. Brackets(p, o, Services, c, e, path, Line)
    BY ONLY Zenon, <1>1, <1>2, <1>3, <1>4, <1>5, <1>9 DEF Brackets
  <2> QED  BY ONLY Zenon, <2>1, JoinedFramed
<1> QED  BY ONLY Zenon, <1>8, <1>10 DEF path

\* What is written at the end, as every file is when it is written, has the namespaces of
\* its services opened before them, in order, and closed after them.
THEOREM ScopesTheorem == Spec => []ScopesAgree
<1>1. ASSUME IInv, PrintedOK  PROVE ScopesAgree
  <2>1. ASSUME NEW u \in written
        PROVE  Framed(text[u], IF u = "source" THEN file.package ELSE file.package \o Namespace)
    <3>1. text[u] = Frame(u) /\ u \in Units  BY <1>1, <2>1 DEF PrintedOK, FramesKept, IInv, TypeOK
    <3>2. CASE u = "source"  BY Zenon, <1>1, <3>1, <3>2, PackageFramed
    <3>3. CASE u # "source"
      <4>1. u \in {"header", "mock"}  BY <3>1, <3>3 DEF Units
      <4> QED  BY Zenon, <1>1, <3>1, <3>3, <4>1, NamespaceFramed
    <3> QED  BY <3>2, <3>3
  <2> QED  BY Zenon, <2>1 DEF ScopesAgree, Framed
<1>2. Init => IInv /\ PrintedOK  BY InitIInv, InitPrinted
<1>3. IInv /\ PrintedOK /\ [Next]_vars => (IInv /\ PrintedOK)'  BY NextKeeps, NextPrinted
<1> QED  BY <1>1, <1>2, <1>3, PTL DEF Spec

-----------------------------------------------------------------------------
(* The members of a mixin.                                                 *)

\* A function, by its name; by its name and its first parameter; and the constructor of a
\* mixin, by its name and its slot.
IsNamed(e, name) == e.name = name
StartsWith(e, name, p) == e.name = name /\ 1 \in DOMAIN e.params /\ e.params[1] = p
Constructs(e, of, slot) == e.name = of /\ e.slot = slot /\ e.params = <<>>

\* A mixin has a constructor, which marks the slot, and at most three functions more: the
\* synchronous version, the reactor, and one that is called by what it does.
MixinTable(due, of, name, slot) ==
  \E c \in due : \E a, b, x :
    /\ due \subseteq {c, a, b, x}
    /\ Constructs(c, of, slot) /\ StartsWith(a, name, ServerContext) /\ StartsWith(b, name, CallbackContext)
    /\ \E w \in {"Request", "SetMessageAllocatorFor_", "Streamed"} : IsNamed(x, <<w>> \o name)

\* The constructor of a mixin that marks its method.
LEMMA ConstructorSlot ==
  ASSUME NEW of, NEW v, NEW call
  PROVE  Constructs(Constructor(of, v, call), of, v.Idx)
<1> DEFINE d == Decl(of, of, <<>>, <<>>, "inline")
           c == Body(d, call, <<>>)
<1>1. DOMAIN d = Fields /\ d.name = of /\ d.params = <<>>  BY DeclFields
<1> HIDE DEF d
<1>2. DOMAIN c = Fields /\ c.name = of /\ c.params = <<>>  BY <1>1, BodyFields
<1> HIDE DEF c
<1>3. LET e == OnSlot(c, v.Idx) IN e.name = of /\ e.slot = v.Idx /\ e.params = <<>>
  BY <1>2, OnSlotFields
<1> QED  BY Zenon, <1>3 DEF Constructs, Constructor, c, d

\* One that installs a handler.
LEMMA HandlingSlot ==
  ASSUME NEW of, NEW v, NEW call, NEW target, NEW lambda
  PROVE  Constructs(Handling(of, v, call, target, lambda), of, v.Idx)
<1> DEFINE d == Decl(of, of, <<>>, <<>>, "inline")
           c == Installing(d, call, target, lambda)
<1>1. DOMAIN d = Fields /\ d.name = of /\ d.params = <<>>  BY DeclFields
<1> HIDE DEF d
<1>2. DOMAIN c = Fields /\ c.name = of /\ c.params = <<>>  BY <1>1, InstallingFields
<1> HIDE DEF c
<1>3. LET e == OnSlot(c, v.Idx) IN e.name = of /\ e.slot = v.Idx /\ e.params = <<>>
  BY <1>2, OnSlotFields
<1> QED  BY Zenon, <1>3 DEF Constructs, Handling, c, d

\* The synchronous version of a method.
SyncVersion(of, m, v) ==
  Body(Decl(of, v.Method, ServerParams(m, v), <<"Status">>, "override"), <<"abort">>, <<>>)

\* How its name and its parameters begin.
LEMMA SyncVersionStarts ==
  ASSUME NEW of, NEW m, NEW v
  PROVE  StartsWith(SyncVersion(of, m, v), v.Method, ServerContext)
<1> DEFINE params == ServerParams(m, v)
           d == Decl(of, v.Method, params, <<"Status">>, "override")
           a == Body(d, <<"abort">>, <<>>)
<1>1. 1 \in DOMAIN params /\ params[1] = ServerContext
  BY DEF ServerParams
<1> HIDE DEF params
<1>2. DOMAIN d = Fields /\ d.name = v.Method /\ d.params = params  BY DeclFields
<1> HIDE DEF d
<1>3. a.name = v.Method /\ a.params = params  BY <1>2, BodyFields
<1> HIDE DEF a
<1>4. StartsWith(a, v.Method, ServerContext)  BY Zenon, <1>1, <1>3 DEF StartsWith
<1> QED  BY Zenon, <1>4 DEF a, d, params, SyncVersion

\* How those of the reactor begin.
LEMMA ReactorStarts ==
  ASSUME NEW of, NEW m, NEW v
  PROVE  StartsWith(Reactor(of, m, v), v.Method, CallbackContext)
<1> DEFINE params == ReactorParams(m, v)
           d == Decl(of, v.Method, params, ReactorRet(m, v), "default")
<1>1. 1 \in DOMAIN params /\ params[1] = CallbackContext
  BY DEF ReactorParams
<1> HIDE DEF params
<1>2. d.name = v.Method /\ d.params = params  BY DeclFields
<1> HIDE DEF d
<1>4. StartsWith(d, v.Method, CallbackContext)  BY Zenon, <1>1, <1>2 DEF StartsWith
<1> QED  BY Zenon, <1>4 DEF d, params, Reactor

\* A function that is called by what it does to its slot.
LEMMA NamedFields ==
  ASSUME NEW of, NEW name, NEW params, NEW call, NEW with, NEW slot
  PROVE  IsNamed(OnSlot(Body(Decl(of, name, params, <<"void">>, "inline"), call, with), slot), name)
<1> DEFINE d == Decl(of, name, params, <<"void">>, "inline")
           c == Body(d, call, with)
<1>1. DOMAIN d = Fields /\ d.name = name  BY DeclFields
<1> HIDE DEF d
<1>2. DOMAIN c = Fields /\ c.name = name  BY <1>1, BodyFields
<1> HIDE DEF c
<1>3. OnSlot(c, slot).name = name  BY <1>2, OnSlotFields
<1> QED  BY Zenon, <1>3 DEF IsNamed, c, d

\* The function of the allocator.
LEMMA AllocatorName ==
  ASSUME NEW of, NEW v
  PROVE  IsNamed(Allocator(of, v), <<"SetMessageAllocatorFor_">> \o v.Method)
BY Zenon, NamedFields DEF Allocator

\* One function more, by its name.
Beside(due, others, name) == \E x : IsNamed(x, name) /\ due = others \cup {x}

\* The function that asks for a call.
LEMMA AsyncHelperForm ==
  ASSUME NEW of, NEW m, Kind(m), NEW v, NEW sync
  PROVE  Beside(AsyncMethodsHelper(of, m, v, sync), When(sync, SyncDisabled(of, m, v)), <<"Request">> \o v.Method)
<1> DEFINE name == <<"Request">> \o v.Method
           others == When(sync, SyncDisabled(of, m, v))
           real == <<"request", "*", v.RealRequest>>
           Asks(params, call) ==
             OnSlot(Body(Decl(of, name,
                              <<ServerContext>> \o params \o
                                <<NewCallQueue, NotificationQueue, <<"tag", "void*">> >>,
                              <<"void">>, "inline"),
                         call, <<"context">> \o Names(params) \o <<"new_call_cq", "notification_cq", "tag">>),
                    v.Idx)
           one == Asks(<<real, <<"response", "ServerAsyncResponseWriter", v.RealResponse>> >>, <<"RequestAsyncUnary">>)
           reads == Asks(<< <<"reader", "ServerAsyncReader", v.RealResponse, v.RealRequest>> >>,
                         <<"RequestAsyncClientStreaming">>)
           writes == Asks(<<real, <<"writer", "ServerAsyncWriter", v.RealResponse>> >>,
                          <<"RequestAsyncServerStreaming">>)
           both == Asks(<< <<"stream", "ServerAsyncReaderWriter", v.RealResponse, v.RealRequest>> >>,
                        <<"RequestAsyncBidiStreaming">>)
<1>1. \A params, call : IsNamed(Asks(params, call), name)  BY Zenon, NamedFields
<1>2. AsyncMethodsHelper(of, m, v, sync)
        = others \cup CASE NoStreaming(m) -> {one} [] ClientOnlyStreaming(m) -> {reads}
                        [] ServerOnlyStreaming(m) -> {writes} [] BidiStreaming(m) -> {both}
  BY Zenon DEF AsyncMethodsHelper
<1> HIDE DEF Asks
<1>3. IsNamed(one, name) /\ IsNamed(reads, name) /\ IsNamed(writes, name) /\ IsNamed(both, name)
  BY Zenon, <1>1
<1> HIDE DEF others, real, name, one, reads, writes, both
<1>4. \/ AsyncMethodsHelper(of, m, v, sync) = others \cup {one}
      \/ AsyncMethodsHelper(of, m, v, sync) = others \cup {reads}
      \/ AsyncMethodsHelper(of, m, v, sync) = others \cup {writes}
      \/ AsyncMethodsHelper(of, m, v, sync) = others \cup {both}
  BY <1>2 DEF Kind, NoStreaming, ClientOnlyStreaming, ServerOnlyStreaming, BidiStreaming
<1>5. Beside(AsyncMethodsHelper(of, m, v, sync), others, name)  BY Zenon, <1>3, <1>4 DEF Beside
<1> QED  BY Zenon, <1>5 DEF name, others

\* The mixins, one by one.
LEMMA TableOf ==
  ASSUME NEW of, NEW m, NEW v, NEW c, Constructs(c, of, v.Idx), NEW x, NEW w,
         w \in {"Request", "SetMessageAllocatorFor_", "Streamed"}, IsNamed(x, <<w>> \o v.Method),
         NEW due, c \in due, due \subseteq {c, SyncVersion(of, m, v), Reactor(of, m, v), x}
  PROVE  MixinTable(due, of, v.Method, v.Idx)
<1> DEFINE a == SyncVersion(of, m, v)
           b == Reactor(of, m, v)
           name == v.Method
<1>1. StartsWith(a, name, ServerContext) /\ StartsWith(b, name, CallbackContext)
  BY Zenon, SyncVersionStarts, ReactorStarts
<1>2. \E z \in {"Request", "SetMessageAllocatorFor_", "Streamed"} : IsNamed(x, <<z>> \o name)
  BY Zenon
<1>3. c \in due /\ due \subseteq {c, a, b, x}  OBVIOUS
<1> HIDE DEF a, b, name
<1>4. MixinTable(due, of, name, v.Idx)  BY Zenon, <1>1, <1>2, <1>3 DEF MixinTable
<1> QED  BY Zenon, <1>4 DEF name

\* The synchronous version is printed or not.
LEMMA SyncVersionDue ==
  ASSUME NEW of, NEW m, Kind(m), NEW v, NEW sync
  PROVE  When(sync, SyncDisabled(of, m, v)) \subseteq {SyncVersion(of, m, v)}
BY SyncDisabledForm DEF When, SyncVersion

\* The mixins of the completion queue, and the generic one.
LEMMA AsyncTables ==
  ASSUME NEW m, Kind(m), NEW v, NEW sync \in BOOLEAN
  PROVE  /\ MixinTable(WithAsyncMethod(m, v, sync), <<"WithAsyncMethod_">> \o v.Method, v.Method, v.Idx)
         /\ MixinTable(WithRawMethod(m, v, sync), <<"WithRawMethod_">> \o v.Method, v.Method, v.Idx)
         /\ MixinTable(WithGenericMethod(m, v, sync), <<"WithGenericMethod_">> \o v.Method, v.Method, v.Idx)
<1>1. ASSUME NEW of, NEW call
      PROVE  MixinTable({Constructor(of, v, call)} \cup AsyncMethodsHelper(of, m, v, sync), of, v.Method, v.Idx)
  <2> DEFINE c == Constructor(of, v, call)
             a == SyncVersion(of, m, v)
             due == {c} \cup AsyncMethodsHelper(of, m, v, sync)
  <2>1. Constructs(c, of, v.Idx)  BY Zenon, ConstructorSlot
  <2>7. Beside(AsyncMethodsHelper(of, m, v, sync), When(sync, SyncDisabled(of, m, v)), <<"Request">> \o v.Method)
    BY Zenon, AsyncHelperForm
  <2>2. PICK x : IsNamed(x, <<"Request">> \o v.Method)
                 /\ AsyncMethodsHelper(of, m, v, sync) = When(sync, SyncDisabled(of, m, v)) \cup {x}
    BY Zenon, <2>7 DEF Beside
  <2>3. When(sync, SyncDisabled(of, m, v)) \subseteq {a}  BY Zenon, SyncVersionDue
  <2> HIDE DEF c, a
  <2>4. c \in due /\ due \subseteq {c, a, Reactor(of, m, v), x}  BY <2>2, <2>3
  <2> HIDE DEF due
  <2>5. "Request" \in {"Request", "SetMessageAllocatorFor_", "Streamed"}  OBVIOUS
  <2>6. MixinTable(due, of, v.Method, v.Idx)  BY Zenon, <2>1, <2>2, <2>4, <2>5, TableOf DEF a
  <2> QED  BY Zenon, <2>6 DEF due, c
<1>2. ASSUME NEW of, NEW call
      PROVE  MixinTable({Constructor(of, v, call)} \cup When(sync, SyncDisabled(of, m, v)), of, v.Method, v.Idx)
  <2> DEFINE c == Constructor(of, v, call)
             a == SyncVersion(of, m, v)
             x == Allocator(of, v)
             due == {c} \cup When(sync, SyncDisabled(of, m, v))
  <2>1. Constructs(c, of, v.Idx)  BY Zenon, ConstructorSlot
  <2>2. IsNamed(x, <<"SetMessageAllocatorFor_">> \o v.Method)  BY Zenon, AllocatorName
  <2>3. When(sync, SyncDisabled(of, m, v)) \subseteq {a}  BY Zenon, SyncVersionDue
  <2> HIDE DEF c, a, x
  <2>4. c \in due /\ due \subseteq {c, a, Reactor(of, m, v), x}  BY <2>3
  <2> HIDE DEF due
  <2>5. "SetMessageAllocatorFor_" \in {"Request", "SetMessageAllocatorFor_", "Streamed"}  OBVIOUS
  <2>6. MixinTable(due, of, v.Method, v.Idx)  BY Zenon, <2>1, <2>2, <2>4, <2>5, TableOf DEF a
  <2> QED  BY Zenon, <2>6 DEF due, c
<1> QED  BY Zenon, <1>1, <1>2 DEF WithAsyncMethod, WithRawMethod, WithGenericMethod

\* The mixins of the callback API.
LEMMA CallbackTables ==
  ASSUME NEW m, Kind(m), NEW v, NEW sync \in BOOLEAN
  PROVE  /\ MixinTable(WithCallbackMethod(m, v, sync), <<"WithCallbackMethod_">> \o v.Method, v.Method, v.Idx)
         /\ MixinTable(WithRawCallbackMethod(m, v, sync), <<"WithRawCallbackMethod_">> \o v.Method, v.Method, v.Idx)
<1>1. ASSUME NEW of, NEW mark, NEW due, due \subseteq {Marking(of, m, v, mark), Allocator(of, v)}
                                          \cup CallbackMethodsHelper(of, m, v, sync),
             Marking(of, m, v, mark) \in due
      PROVE  MixinTable(due, of, v.Method, v.Idx)
  <2> DEFINE c == Marking(of, m, v, mark)
             a == SyncVersion(of, m, v)
             b == Reactor(of, m, v)
             x == Allocator(of, v)
  <2>1. Constructs(c, of, v.Idx)  BY Zenon, HandlingSlot DEF Marking
  <2>2. IsNamed(x, <<"SetMessageAllocatorFor_">> \o v.Method)  BY Zenon, AllocatorName
  <2>3. When(sync, SyncDisabled(of, m, v)) \subseteq {a}  BY Zenon, SyncVersionDue
  <2>4. CallbackMethodsHelper(of, m, v, sync) = When(sync, SyncDisabled(of, m, v)) \cup {b}
    BY Zenon, CallbackHelperForm
  <2>5. c \in due /\ due \subseteq {c, x} \cup CallbackMethodsHelper(of, m, v, sync)  BY Zenon, <1>1
  <2> HIDE DEF c, a, b, x
  <2>6. due \subseteq {c, a, b, x}  BY <2>3, <2>4, <2>5
  <2>7. "SetMessageAllocatorFor_" \in {"Request", "SetMessageAllocatorFor_", "Streamed"}  OBVIOUS
  <2> QED  BY Zenon, <2>1, <2>2, <2>5, <2>6, <2>7, TableOf DEF a, b
<1>2. ASSUME NEW S, NEW T, NEW c, NEW x, NEW condition
      PROVE  /\ ({c} \cup When(condition, {x})) \cup T \subseteq {c, x} \cup T
             /\ c \in ({c} \cup When(condition, {x})) \cup T
             /\ {c} \cup T \subseteq {c, x} \cup T /\ c \in {c} \cup T
  BY DEF When
<1>3. MixinTable(WithCallbackMethod(m, v, sync), <<"WithCallbackMethod_">> \o v.Method, v.Method, v.Idx)
  <2> DEFINE of == <<"WithCallbackMethod_">> \o v.Method
             due == WithCallbackMethod(m, v, sync)
  <2>1. due = ({Marking(of, m, v, "MarkMethodCallback")} \cup When(NoStreaming(m), {Allocator(of, v)}))
              \cup CallbackMethodsHelper(of, m, v, sync)
    BY WithCallbackForm
  <2> HIDE DEF of, due
  <2>3. /\ due \subseteq {Marking(of, m, v, "MarkMethodCallback"), Allocator(of, v)}
                         \cup CallbackMethodsHelper(of, m, v, sync)
        /\ Marking(of, m, v, "MarkMethodCallback") \in due
    BY Zenon, <1>2, <2>1
  <2>2. MixinTable(due, of, v.Method, v.Idx)  BY Zenon, <1>1, <2>3
  <2> QED  BY Zenon, <2>2 DEF of, due
<1>4. MixinTable(WithRawCallbackMethod(m, v, sync), <<"WithRawCallbackMethod_">> \o v.Method, v.Method, v.Idx)
  <2> DEFINE of == <<"WithRawCallbackMethod_">> \o v.Method
             due == WithRawCallbackMethod(m, v, sync)
  <2>1. due = {Marking(of, m, v, "MarkMethodRawCallback")} \cup CallbackMethodsHelper(of, m, v, sync)
    BY WithRawCallbackForm
  <2> HIDE DEF of, due
  <2>2. MixinTable(due, of, v.Method, v.Idx)  BY Zenon, <1>1, <1>2, <2>1
  <2> QED  BY Zenon, <2>2 DEF of, due
<1> QED  BY Zenon, <1>3, <1>4

\* The streamed mixins.
LEMMA StreamedTables ==
  ASSUME NEW m, Kind(m), NEW v
  PROVE  /\ WithStreamedUnaryMethod(m, v) # {} =>
              MixinTable(WithStreamedUnaryMethod(m, v), <<"WithStreamedUnaryMethod_">> \o v.Method, v.Method, v.Idx)
         /\ WithSplitStreamingMethod(m, v) # {} =>
              MixinTable(WithSplitStreamingMethod(m, v), <<"WithSplitStreamingMethod_">> \o v.Method, v.Method, v.Idx)
         /\ NoStreaming(m) => WithStreamedUnaryMethod(m, v) # {}
         /\ ServerOnlyStreaming(m) => WithSplitStreamingMethod(m, v) # {}
<1>1. ASSUME NEW of, NEW handler, NEW params, <<ServerContext>> \o params = ServerParams(m, v), NEW streamer
      PROVE  MixinTable(Streamed(of, v, handler, params, streamer), of, v.Method, v.Idx)
  <2> DEFINE lambda == <<ServerContext, <<"streamer", streamer, v.Request, v.Response>> >>
             target == <<"Streamed">> \o v.Method
             call == <<"MarkMethodStreamed", handler, v.Request, v.Response>>
             c == Handling(of, v, call, target, lambda)
             a == SyncVersion(of, m, v)
             status == <<"Status">>
             x == Decl(of, target, lambda, status, "pure")
             due == Streamed(of, v, handler, params, streamer)
  <2>1. Constructs(c, of, v.Idx)  BY Zenon, HandlingSlot
  <2>2. IsNamed(x, target)
    <3> HIDE DEF target, lambda, status
    <3> QED  BY DeclFields DEF IsNamed
  <2>3. due = {c, Body(Decl(of, v.Method, <<ServerContext>> \o params, <<"Status">>, "override"), <<"abort">>, <<>>), x}
    BY Zenon DEF Streamed
  <2>4. due = {c, a, x}  BY Zenon, <1>1, <2>3 DEF SyncVersion
  <2> HIDE DEF c, a, x, due
  <2>5. c \in due /\ due \subseteq {c, a, Reactor(of, m, v), x}  BY <2>4
  <2>6. "Streamed" \in {"Request", "SetMessageAllocatorFor_", "Streamed"}  OBVIOUS
  <2>7. MixinTable(due, of, v.Method, v.Idx)  BY Zenon, <2>1, <2>2, <2>5, <2>6, TableOf DEF a
  <2> QED  BY Zenon, <2>7 DEF due
<1>2. NoStreaming(m) => <<ServerContext>> \o <<RequestPtr(v), ResponsePtr(v)>> = ServerParams(m, v)
  BY DEF ServerParams
<1>3. ServerOnlyStreaming(m) => <<ServerContext>> \o <<RequestPtr(v), Writer(v)>> = ServerParams(m, v)
  BY DEF ServerParams, NoStreaming, ClientOnlyStreaming, ServerOnlyStreaming
<1>4. \A of, due, slot : MixinTable(due, of, v.Method, slot) => due # {}  BY DEF MixinTable
<1>5. ~NoStreaming(m) => WithStreamedUnaryMethod(m, v) = {}  BY Zenon DEF WithStreamedUnaryMethod, When
<1>6. ~ServerOnlyStreaming(m) => WithSplitStreamingMethod(m, v) = {}  BY Zenon DEF WithSplitStreamingMethod, When
<1>7. NoStreaming(m) =>
        MixinTable(WithStreamedUnaryMethod(m, v), <<"WithStreamedUnaryMethod_">> \o v.Method, v.Method, v.Idx)
  BY Zenon, <1>1, <1>2 DEF WithStreamedUnaryMethod, When
<1>8. ServerOnlyStreaming(m) =>
        MixinTable(WithSplitStreamingMethod(m, v), <<"WithSplitStreamingMethod_">> \o v.Method, v.Method, v.Idx)
  BY Zenon, <1>1, <1>3 DEF WithSplitStreamingMethod, When
<1> QED  BY Zenon, <1>4, <1>5, <1>6, <1>7, <1>8

\* What the loops of the mixins declare of a method, as one table.
LEMMA MixinTables ==
  ASSUME IInv, NEW s \in DOMAIN file.services, NEW k \in DOMAIN Methods(s), NEW l \in MixinLoops,
         DueAt(l, s, k) # {}
  PROVE  MixinTable(DueAt(l, s, k), <<MixinOf(l)>> \o Methods(s)[k].name, Methods(s)[k].name, k)
<1> DEFINE m == Methods(s)[k]
           v == Fresh(s, k)
           raw == FreshRaw(s, k)
           due == DueAt(l, s, k)
           Tabled(x) == MixinTable(due, <<x>> \o m.name, m.name, k)
<1>0. Kind(m) /\ Sync \in BOOLEAN  BY MethodKinds
<1>1. v.Method = m.name /\ raw.Method = m.name  BY FreshMethod
<1>2. v.Idx = k /\ raw.Idx = k  BY DEF Fresh, FreshRaw, TypedVars, RawVars, MethodVars, InitialVars
<1>11. ASSUME NEW D, due = D, NEW x, NEW y \in {v, raw}, MixinTable(D, <<x>> \o y.Method, y.Method, y.Idx)
       PROVE  Tabled(x)
  <2>1. y.Method = m.name /\ y.Idx = k  BY <1>1, <1>2
  <2> HIDE DEF m, v, raw
  <2>2. MixinTable(D, <<x>> \o m.name, m.name, k)  BY Zenon, <1>11, <2>1
  <2> QED  BY Zenon, <1>11, <2>2
<1>12. v \in {v, raw} /\ raw \in {v, raw} /\ due # {}  OBVIOUS
<1> SUFFICES Tabled(MixinOf(l))  OBVIOUS
<1> HIDE DEF v, raw, Tabled
<1>3. CASE l = "Async"
  <2> DEFINE D == WithAsyncMethod(m, v, Sync)
  <2>1. due = D  BY Zenon, <1>3, ServerDue DEF v
  <2>2. D # {} => MixinTable(D, <<"WithAsyncMethod_">> \o v.Method, v.Method, v.Idx)
    BY Zenon, <1>0, AsyncTables
  <2> HIDE DEF D, due
  <2>3. Tabled("WithAsyncMethod_")  BY Zenon, <1>11, <1>12, <2>1, <2>2
  <2>4. MixinOf(l) = "WithAsyncMethod_"  BY <1>3 DEF MixinOf
  <2> QED  BY Zenon, <2>3, <2>4
<1>4. CASE l = "ServerCallback"
  <2> DEFINE D == WithCallbackMethod(m, v, Sync)
  <2>1. due = D  BY Zenon, <1>4, ServerDue DEF v
  <2>2. D # {} => MixinTable(D, <<"WithCallbackMethod_">> \o v.Method, v.Method, v.Idx)
    BY Zenon, <1>0, CallbackTables
  <2> HIDE DEF D, due
  <2>3. Tabled("WithCallbackMethod_")  BY Zenon, <1>11, <1>12, <2>1, <2>2
  <2>4. MixinOf(l) = "WithCallbackMethod_"  BY <1>4 DEF MixinOf
  <2> QED  BY Zenon, <2>3, <2>4
<1>5. CASE l = "Generic"
  <2> DEFINE D == WithGenericMethod(m, v, Sync)
  <2>1. due = D  BY Zenon, <1>5, ServerDue DEF v
  <2>2. D # {} => MixinTable(D, <<"WithGenericMethod_">> \o v.Method, v.Method, v.Idx)
    BY Zenon, <1>0, AsyncTables
  <2> HIDE DEF D, due
  <2>3. Tabled("WithGenericMethod_")  BY Zenon, <1>11, <1>12, <2>1, <2>2
  <2>4. MixinOf(l) = "WithGenericMethod_"  BY <1>5 DEF MixinOf
  <2> QED  BY Zenon, <2>3, <2>4
<1>6. CASE l = "Raw"
  <2> DEFINE D == WithRawMethod(m, raw, Sync)
  <2>1. due = D  BY Zenon, <1>6, ServerDue DEF raw
  <2>2. D # {} => MixinTable(D, <<"WithRawMethod_">> \o raw.Method, raw.Method, raw.Idx)
    BY Zenon, <1>0, AsyncTables
  <2> HIDE DEF D, due
  <2>3. Tabled("WithRawMethod_")  BY Zenon, <1>11, <1>12, <2>1, <2>2
  <2>4. MixinOf(l) = "WithRawMethod_"  BY <1>6 DEF MixinOf
  <2> QED  BY Zenon, <2>3, <2>4
<1>7. CASE l = "RawCallback"
  <2> DEFINE D == WithRawCallbackMethod(m, raw, Sync)
  <2>1. due = D  BY Zenon, <1>7, ServerDue DEF raw
  <2>2. D # {} => MixinTable(D, <<"WithRawCallbackMethod_">> \o raw.Method, raw.Method, raw.Idx)
    BY Zenon, <1>0, CallbackTables
  <2> HIDE DEF D, due
  <2>3. Tabled("WithRawCallbackMethod_")  BY Zenon, <1>11, <1>12, <2>1, <2>2
  <2>4. MixinOf(l) = "WithRawCallbackMethod_"  BY <1>7 DEF MixinOf
  <2> QED  BY Zenon, <2>3, <2>4
<1>8. CASE l = "StreamedUnary"
  <2> DEFINE D == WithStreamedUnaryMethod(m, v)
  <2>1. due = D  BY Zenon, <1>8, ServerDue DEF v
  <2>2. D # {} => MixinTable(D, <<"WithStreamedUnaryMethod_">> \o v.Method, v.Method, v.Idx)
    BY Zenon, <1>0, StreamedTables
  <2> HIDE DEF D, due
  <2>3. Tabled("WithStreamedUnaryMethod_")  BY Zenon, <1>11, <1>12, <2>1, <2>2
  <2>4. MixinOf(l) = "WithStreamedUnaryMethod_"  BY <1>8 DEF MixinOf
  <2> QED  BY Zenon, <2>3, <2>4
<1>9. CASE l = "SplitStreaming"
  <2> DEFINE D == WithSplitStreamingMethod(m, v)
  <2>1. due = D  BY Zenon, <1>9, ServerDue DEF v
  <2>2. D # {} => MixinTable(D, <<"WithSplitStreamingMethod_">> \o v.Method, v.Method, v.Idx)
    BY Zenon, <1>0, StreamedTables
  <2> HIDE DEF D, due
  <2>3. Tabled("WithSplitStreamingMethod_")  BY Zenon, <1>11, <1>12, <2>1, <2>2
  <2>4. MixinOf(l) = "WithSplitStreamingMethod_"  BY <1>9 DEF MixinOf
  <2> QED  BY Zenon, <2>3, <2>4
<1> QED  BY <1>3, <1>4, <1>5, <1>6, <1>7, <1>8, <1>9 DEF MixinLoops

\* What a table says of a mixin: one member is called like the class, and marks the slot.
LEMMA TableMarks ==
  ASSUME NEW l \in MixinLoops, NEW name \in Seq(STRING), NEW slot, NEW due,
         MixinTable(due, <<MixinOf(l)>> \o name, name, slot)
  PROVE  /\ \E c \in due : Constructs(c, <<MixinOf(l)>> \o name, slot)
         /\ \A e \in due : e.name = <<MixinOf(l)>> \o name => e.slot = slot
<1> DEFINE w == MixinOf(l)
           of == <<w>> \o name
<1>1. PICK c \in due : \E a, b, x :
        /\ due \subseteq {c, a, b, x}
        /\ Constructs(c, of, slot) /\ StartsWith(a, name, ServerContext) /\ StartsWith(b, name, CallbackContext)
        /\ \E z \in {"Request", "SetMessageAllocatorFor_", "Streamed"} : IsNamed(x, <<z>> \o name)
  BY Zenon DEF MixinTable
<1>2. PICK a, b, x :
        /\ due \subseteq {c, a, b, x}
        /\ Constructs(c, of, slot) /\ StartsWith(a, name, ServerContext) /\ StartsWith(b, name, CallbackContext)
        /\ \E z \in {"Request", "SetMessageAllocatorFor_", "Streamed"} : IsNamed(x, <<z>> \o name)
  BY Zenon, <1>1
<1>3. PICK z \in {"Request", "SetMessageAllocatorFor_", "Streamed"} : IsNamed(x, <<z>> \o name)
  BY Zenon, <1>2
<1>4. w # z  BY <1>3 DEF MixinOf, MixinLoops
<1> HIDE DEF w
<1>5. of # name
  <2>1. Len(of) = Len(name) + 1 /\ Len(name) \in Nat  BY Begun
  <2> HIDE DEF of
  <2> QED  BY <2>1
<1>6. of # <<z>> \o name
  <2> DEFINE p == <<z>> \o name
  <2>1. of[1] = w /\ p[1] = z  BY Begun
  <2> HIDE DEF of, p
  <2>2. of # p  BY <1>4, <2>1
  <2> QED  BY Zenon, <2>2 DEF p
<1> DEFINE q == <<z>> \o name
<1>7. /\ c.name = of /\ c.slot = slot /\ a.name = name /\ b.name = name /\ x.name = q /\ of # q /\ of # name
      /\ due \subseteq {c, a, b, x}
  BY Zenon, <1>2, <1>3, <1>5, <1>6 DEF Constructs, StartsWith, IsNamed
<1> HIDE DEF of, q
<1>8. \A e \in due : e.name = of => e.slot = slot  BY <1>7
<1>9. \E d \in due : Constructs(d, of, slot)  BY <1>2
<1> QED  BY Zenon, <1>8, <1>9 DEF of, w

\* The classes that are not mixins.
FixedClasses == {Stub, StubInterface, StubAsync, AsyncInterface, MockStub, Service, <<>>}

\* A declaration in no other class comes from a loop of the mixins.
LEMMA MixinOrigin ==
  ASSUME IInv, TurnsOK, NEW d \in decls, d.of \notin FixedClasses
  PROVE  /\ d.service \in DOMAIN file.services /\ d.method \in DOMAIN Methods(d.service)
         /\ \E l \in MixinLoops : Allowed(l) /\ \E e \in DueAt(l, d.service, d.method) : SameDecl(d, e)
<1> DEFINE s == d.service
           k == d.method
<1>1. d.unit \in Units /\ s \in DOMAIN file.services  BY Origin
<1>2. ~ \E e \in DueFirst(d.unit, s) : SameDecl(d, e)
  BY <1>1, FirstClasses DEF SameDecl, FixedClasses
<1>3. k \in DOMAIN Methods(s)  BY <1>2, Origin
<1>4. PICK l \in AllLoops : Allowed(l) /\ \E e \in DueAt(l, s, k) : SameDecl(d, e)  BY <1>2, Origin
<1>5. PICK e \in DueAt(l, s, k) : SameDecl(d, e)  BY <1>4
<1> HIDE DEF s, k
<1>6. e.of \notin FixedClasses  BY <1>5 DEF SameDecl
<1>7. l \notin {"Interfaces", "CallbackInterfaces", "RawInterfaces", "Methods", "Callback", "RawMethods",
                "Data", "Inits", "SourceClient", "MockMethods"}
  BY <1>1, <1>3, <1>5, <1>6, ClientClasses DEF s, FixedClasses
<1>8. l \notin {"Sync", "SourceServer"}  BY <1>1, <1>3, <1>5, <1>6, ServiceClasses DEF s, FixedClasses
<1>9. l \notin SilentLoops  BY <1>5, NothingDue
<1>10. l \in MixinLoops  BY <1>7, <1>8, <1>9, LoopCases
<1> QED  BY <1>1, <1>3, <1>4, <1>10 DEF s, k

\* A mixin's class says which loop declared it, for which method.
LEMMA MixinApart ==
  ASSUME IInv, NEW s \in DOMAIN file.services, NEW k \in DOMAIN Methods(s), NEW n \in DOMAIN Methods(s),
         NEW x, NEW y, <<x>> \o Methods(s)[k].name = <<y>> \o Methods(s)[n].name
  PROVE  x = y /\ k = n
<1> DEFINE o == Methods(s)[k].name
           p == Methods(s)[n].name
<1>1. o \in Seq(STRING) /\ p \in Seq(STRING)  BY Zenon, MethodKinds
<1>2. <<x>> \o o = <<y>> \o p  OBVIOUS
<1> HIDE DEF o, p
<1>3. x = y /\ o = p  BY SMTT(30), <1>1, <1>2, SameBegin
<1> QED  BY Zenon, <1>3, MethodNamed DEF o, p

\* A declaration of a mixin that is called like its class.
Marker(d, s, of) == d.unit = "header" /\ d.service = s /\ d.of = of /\ d.name = of

\* A mixin that was printed for a method marks that method, and no other.
LEMMA MarkedMethod ==
  ASSUME IInv, TurnsOK, Generated, NEW s \in DOMAIN file.services, NEW k \in DOMAIN Methods(s),
         NEW l \in MixinLoops, Allowed(l), DueAt(l, s, k) # {}
  PROVE  /\ \E d \in decls : Marker(d, s, <<MixinOf(l)>> \o Methods(s)[k].name)
         /\ \A d \in decls : Marker(d, s, <<MixinOf(l)>> \o Methods(s)[k].name) => d.slot = k
<1> DEFINE name == Methods(s)[k].name
           of == <<MixinOf(l)>> \o name
<1>1. name \in Seq(STRING)  BY Zenon, MethodKinds
<1>2. MixinTable(DueAt(l, s, k), of, name, k)  BY Zenon, MixinTables
<1>3. PICK c \in DueAt(l, s, k) : Constructs(c, of, k)  BY Zenon, <1>1, <1>2, TableMarks
<1>4. c.of = of  BY MixinDue DEF Mixed
<1>5. l \in LoopSet("header") /\ "header" \in written  BY LoopSets, WrittenUnits DEF MixinLoops
<1>6. PICK b \in decls : SameDecl(b, c) /\ b.unit = "header" /\ b.service = s  BY <1>5, AllDue
<1>7. Marker(b, s, of)  BY Zenon, <1>3, <1>4, <1>6 DEF SameDecl, Marker, Constructs
<1>8. of \notin FixedClasses  BY Zenon, <1>1, MixinNames DEF FixedClasses
<1>9. ASSUME NEW d \in decls, Marker(d, s, of)  PROVE d.slot = k
  <2> DEFINE n == d.method
  <2>1. n \in DOMAIN Methods(s)
        /\ \E p \in MixinLoops : Allowed(p) /\ \E e \in DueAt(p, s, n) : SameDecl(d, e)
    BY Zenon, <1>8, <1>9, MixinOrigin DEF Marker
  <2>2. PICK p \in MixinLoops : \E e \in DueAt(p, s, n) : SameDecl(d, e)  BY Zenon, <2>1
  <2>3. PICK e \in DueAt(p, s, n) : SameDecl(d, e)  BY Zenon, <2>2
  <2> HIDE DEF n
  <2> DEFINE other == Methods(s)[n].name
  <2>4. e.of = <<MixinOf(p)>> \o other  BY <2>1, MixinDue DEF Mixed
  <2>5. e.of = of /\ e.name = of /\ d.slot = e.slot  BY Zenon, <1>9, <2>3 DEF Marker, SameDecl
  <2>6. <<MixinOf(l)>> \o Methods(s)[k].name = <<MixinOf(p)>> \o Methods(s)[n].name
    BY Zenon, <2>4, <2>5
  <2>7. k = n
    <3> DEFINE x == MixinOf(l)
               y == MixinOf(p)
    <3>1. <<x>> \o Methods(s)[k].name = <<y>> \o Methods(s)[n].name  BY Zenon, <2>6
    <3> HIDE DEF x, y
    <3> QED  BY SMTT(30), <2>1, <3>1, MixinApart
  <2>8. other \in Seq(STRING) /\ DueAt(p, s, n) # {}  BY Zenon, <2>1, <2>3, MethodKinds
  <2>9. MixinTable(DueAt(p, s, n), <<MixinOf(p)>> \o other, other, n)  BY Zenon, <2>1, <2>8, MixinTables
  <2>10. e.name = <<MixinOf(p)>> \o other  BY Zenon, <2>4, <2>5
  <2>12. \A a \in DueAt(p, s, n) : a.name = <<MixinOf(p)>> \o other => a.slot = n
    BY <2>2, <2>8, <2>9, TableMarks
  <2>11. e.slot = n  BY Zenon, <2>10, <2>12
  <2> QED  BY Zenon, <2>5, <2>7, <2>11
<1> QED  BY Zenon, <1>7, <1>9

\* What a typedef wraps was printed.
LEMMA WrappedPrinted ==
  ASSUME IInv, NEW s \in DOMAIN file.services, NEW k \in DOMAIN Methods(s), NEW t \in Typedefs,
         Allowed(t), Closes(t, Methods(s)[k])
  PROVE  LET l == MixinLoop(t, Methods(s)[k]) IN
         l \in MixinLoops /\ Allowed(l) /\ DueAt(l, s, k) # {}
<1> DEFINE m == Methods(s)[k]
           v == Fresh(s, k)
           l == MixinLoop(t, m)
<1>0. Kind(m) /\ Sync \in BOOLEAN  BY MethodKinds
<1>1. l \in MixinLoops  BY Zenon, <1>0, OpensForm
<1>2. Allowed(l)
  BY <1>0 DEF MixinLoop, Allowed, Typedefs
<1>3. \A of, name, due, slot : MixinTable(due, of, name, slot) => due # {}  BY DEF MixinTable
<1>4. WithAsyncMethod(m, v, Sync) # {} /\ WithCallbackMethod(m, v, Sync) # {}
  BY Zenon, <1>0, <1>3, AsyncTables, CallbackTables
<1>5. /\ NoStreaming(m) => WithStreamedUnaryMethod(m, v) # {}
      /\ ServerOnlyStreaming(m) => WithSplitStreamingMethod(m, v) # {}
  BY Zenon, <1>0, StreamedTables
<1>6. /\ DueAt("Async", s, k) # {} /\ DueAt("ServerCallback", s, k) # {}
      /\ NoStreaming(m) => DueAt("StreamedUnary", s, k) # {}
      /\ ServerOnlyStreaming(m) => DueAt("SplitStreaming", s, k) # {}
  <2>1. DueAt("Async", s, k) = WithAsyncMethod(m, v, Sync)  BY Zenon, ServerDue
  <2>2. DueAt("ServerCallback", s, k) = WithCallbackMethod(m, v, Sync)  BY Zenon, ServerDue
  <2>3. DueAt("StreamedUnary", s, k) = WithStreamedUnaryMethod(m, v)  BY Zenon, ServerDue
  <2>4. DueAt("SplitStreaming", s, k) = WithSplitStreamingMethod(m, v)  BY Zenon, ServerDue
  <2> QED  BY Zenon, <1>4, <1>5, <2>1, <2>2, <2>3, <2>4
<1> HIDE DEF m, v
<1>7. Closes(t, m)  BY DEF m
<1>8. DueAt(l, s, k) # {}
  BY <1>0, <1>6, <1>7 DEF MixinLoop, Closes, Typedefs, Kind, NoStreaming, ServerOnlyStreaming
<1> QED  BY Zenon, <1>1, <1>2, <1>8 DEF m

\* Once all is printed a typedef wraps the methods it closes a bracket for, in their order.
LEMMA TypedefWraps ==
  ASSUME IInv, PrintedOK, Generated, NEW s \in DOMAIN file.services, NEW t \in Typedefs, Allowed(t)
  PROVE  LET ms == Methods(s)
             wraps == typedefs[<<s, t>>].wraps
             Of(k) == <<MixinOf(MixinLoop(t, ms[k]))>> \o ms[k].name
         IN /\ Len(wraps) = typedefs[<<s, t>>].closes
            /\ \A n \in DOMAIN wraps : \E k \in DOMAIN ms : Closes(t, ms[k]) /\ wraps[n] = Of(k)
            /\ \A k \in DOMAIN ms : Closes(t, ms[k]) => \E n \in DOMAIN wraps : wraps[n] = Of(k)
            /\ \A n, p \in DOMAIN wraps : n < p =>
                 \A k, l \in DOMAIN ms :
                   Closes(t, ms[k]) /\ Closes(t, ms[l]) /\ wraps[n] = Of(k) /\ wraps[p] = Of(l) => k < l
<1> DEFINE ms == Methods(s)
           wraps == typedefs[<<s, t>>].wraps
           closes == typedefs[<<s, t>>].closes
           Of(k) == <<MixinOf(MixinLoop(t, ms[k]))>> \o ms[k].name
           B == {k \in DOMAIN ms : Opens(t, ms[k]) # <<>>}
           C == {k \in DOMAIN ms : Closes(t, ms[k])}
<1>1. "header" \in written  BY WrittenUnits
<1>2. t \in TypedefLoops /\ End(t) \in TypedefLoops /\ Allowed(End(t))  BY TypedefPlaces
<1>3. Behind(t, s) = DOMAIN ms /\ Behind(End(t), s) = DOMAIN ms  BY Zenon, <1>1, <1>2, BehindEnds
<1>4. InOrder(wraps, t, ms, Behind(t, s)) /\ closes = Cardinality({k \in Behind(End(t), s) : Closes(t, ms[k])})
  BY Zenon DEF PrintedOK, TypedefsKept
<1>5. InOrder(wraps, t, ms, DOMAIN ms) /\ closes = Cardinality(C)  BY Zenon, <1>3, <1>4
<1>6. ASSUME NEW k \in DOMAIN ms
      PROVE  /\ Closes(t, ms[k]) => Opens(t, ms[k]) = <<Of(k)>>
             /\ ~Closes(t, ms[k]) => Opens(t, ms[k]) = <<>>
             /\ Closes(t, ms[k]) \in BOOLEAN
  <2>1. Kind(ms[k])  BY MethodKinds
  <2> QED  BY Zenon, <2>1, OpensForm
<1> HIDE DEF ms, wraps, closes, Of
<1>7. /\ \A n \in DOMAIN wraps : \E k \in DOMAIN ms : Opens(t, ms[k]) = <<wraps[n]>>
      /\ \A k \in DOMAIN ms : Opens(t, ms[k]) # <<>> => \E n \in DOMAIN wraps : Opens(t, ms[k]) = <<wraps[n]>>
      /\ \A n, p \in DOMAIN wraps : n < p =>
           \A k, l \in DOMAIN ms : Opens(t, ms[k]) = <<wraps[n]>> /\ Opens(t, ms[l]) = <<wraps[p]>> => k < l
      /\ Len(wraps) = Cardinality(B)
  BY Zenon, <1>5 DEF InOrder
<1>8. \A x : <<x>> # <<>>  OBVIOUS
<1>9. \A x, y : <<x>> = <<y>> => x = y  OBVIOUS
<1>10. B = C  BY <1>6, <1>8
<1> HIDE DEF B, C
<1>11. Len(wraps) = closes  BY Zenon, <1>5, <1>7, <1>10
<1>12. \A n \in DOMAIN wraps : \E k \in DOMAIN ms : Closes(t, ms[k]) /\ wraps[n] = Of(k)
  <2> SUFFICES ASSUME NEW n \in DOMAIN wraps PROVE \E k \in DOMAIN ms : Closes(t, ms[k]) /\ wraps[n] = Of(k)
    OBVIOUS
  <2>1. PICK k \in DOMAIN ms : Opens(t, ms[k]) = <<wraps[n]>>  BY Zenon, <1>7
  <2>2. Closes(t, ms[k])  BY Zenon, <1>6, <1>8, <2>1
  <2>3. wraps[n] = Of(k)  BY Zenon, <1>6, <1>9, <2>1, <2>2
  <2> QED  BY Zenon, <2>2, <2>3
<1>13. \A k \in DOMAIN ms : Closes(t, ms[k]) => \E n \in DOMAIN wraps : wraps[n] = Of(k)
  <2> SUFFICES ASSUME NEW k \in DOMAIN ms, Closes(t, ms[k]) PROVE \E n \in DOMAIN wraps : wraps[n] = Of(k)
    OBVIOUS
  <2>1. Opens(t, ms[k]) = <<Of(k)>>  BY Zenon, <1>6
  <2>2. PICK n \in DOMAIN wraps : Opens(t, ms[k]) = <<wraps[n]>>  BY Zenon, <1>7, <1>8, <2>1
  <2>3. wraps[n] = Of(k)  BY Zenon, <1>9, <2>1, <2>2
  <2> QED  BY Zenon, <2>3
<1>14. ASSUME NEW n \in DOMAIN wraps, NEW p \in DOMAIN wraps, n < p, NEW k \in DOMAIN ms, NEW l \in DOMAIN ms,
              Closes(t, ms[k]), Closes(t, ms[l]), wraps[n] = Of(k), wraps[p] = Of(l)
       PROVE  k < l
  <2>1. Opens(t, ms[k]) = <<wraps[n]>> /\ Opens(t, ms[l]) = <<wraps[p]>>  BY Zenon, <1>6, <1>14
  <2> QED  BY Zenon, <1>7, <1>14, <2>1
<1> QED  BY Zenon, <1>11, <1>12, <1>13, <1>14 DEF ms, wraps, closes, Of

\* A service made of mixins wraps each method that has the mixin, once, in order, only
\* with mixins that were printed, and closes as many brackets as it opened.
THEOREM TypedefsTheorem == Spec => []TypedefsWrap
<1>1. ASSUME IInv, TurnsOK, PrintedOK PROVE TypedefsWrap
  <2> SUFFICES ASSUME Generated, NEW s \in DOMAIN file.services, NEW t \in Typedefs, Allowed(t)
               PROVE  LET ms == Methods(s)
                          wraps == typedefs[<<s, t>>].wraps
                          Marks(n) == {d \in In("header") : d.service = s /\ d.of = wraps[n] /\ d.name = d.of}
                          Has(k) ==
                            CASE t \in {"AsyncService", "CallbackService"} -> TRUE
                              [] t = "StreamedUnaryService" -> NoStreaming(ms[k])
                              [] t = "SplitStreamedService" -> ServerOnlyStreaming(ms[k])
                              [] t = "StreamedService" -> ~ms[k].client
                      IN /\ Len(wraps) = typedefs[<<s, t>>].closes
                         /\ \A n \in DOMAIN wraps : \E k \in DOMAIN ms :
                              Has(k) /\ Marks(n) # {} /\ \A d \in Marks(n) : d.slot = k
                         /\ \A k \in DOMAIN ms : Has(k) => \E n \in DOMAIN wraps : \E d \in Marks(n) : d.slot = k
                         /\ \A n, p \in DOMAIN wraps : n < p => \A d \in Marks(n), e \in Marks(p) : d.slot < e.slot
    BY Zenon DEF TypedefsWrap
  <2> DEFINE ms == Methods(s)
             wraps == typedefs[<<s, t>>].wraps
             closes == typedefs[<<s, t>>].closes
             Marks(n) == {d \in In("header") : d.service = s /\ d.of = wraps[n] /\ d.name = d.of}
             Has(k) ==
               CASE t \in {"AsyncService", "CallbackService"} -> TRUE
                 [] t = "StreamedUnaryService" -> NoStreaming(ms[k])
                 [] t = "SplitStreamedService" -> ServerOnlyStreaming(ms[k])
                 [] t = "StreamedService" -> ~ms[k].client
             Of(k) == <<MixinOf(MixinLoop(t, ms[k]))>> \o ms[k].name
  <2>1. /\ Len(wraps) = closes
        /\ \A n \in DOMAIN wraps : \E k \in DOMAIN ms : Closes(t, ms[k]) /\ wraps[n] = Of(k)
        /\ \A k \in DOMAIN ms : Closes(t, ms[k]) => \E n \in DOMAIN wraps : wraps[n] = Of(k)
        /\ \A n, p \in DOMAIN wraps : n < p =>
             \A k, l \in DOMAIN ms :
               Closes(t, ms[k]) /\ Closes(t, ms[l]) /\ wraps[n] = Of(k) /\ wraps[p] = Of(l) => k < l
    BY Zenon, <1>1, TypedefWraps
  <2>2. ASSUME NEW k \in DOMAIN ms, Closes(t, ms[k])
        PROVE  /\ \E d \in decls : Marker(d, s, Of(k))
               /\ \A d \in decls : Marker(d, s, Of(k)) => d.slot = k
    <3> DEFINE l == MixinLoop(t, ms[k])
    <3>1. l \in MixinLoops /\ Allowed(l) /\ DueAt(l, s, k) # {}  BY Zenon, <1>1, <2>2, WrappedPrinted
    <3> HIDE DEF l
    <3>2. /\ \E d \in decls : Marker(d, s, <<MixinOf(l)>> \o ms[k].name)
          /\ \A d \in decls : Marker(d, s, <<MixinOf(l)>> \o ms[k].name) => d.slot = k
      BY Zenon, <1>1, <3>1, MarkedMethod
    <3> QED  BY Zenon, <3>2 DEF l
  <2>3. ASSUME NEW k \in DOMAIN ms  PROVE Has(k) <=> Closes(t, ms[k])
    <3>1. Kind(ms[k])  BY <1>1, MethodKinds
    <3> HIDE DEF ms
    <3> QED  BY <3>1 DEF Closes, Typedefs, Kind, NoStreaming, ServerOnlyStreaming
  <2> HIDE DEF ms, wraps, closes, Has, Of
  <2>4. \A n, d : d \in Marks(n) <=> d \in decls /\ Marker(d, s, wraps[n])
    BY DEF In, Marker
  <2> HIDE DEF Marks
  <2>5. ASSUME NEW n \in DOMAIN wraps, NEW k \in DOMAIN ms, Closes(t, ms[k]), wraps[n] = Of(k)
        PROVE  Has(k) /\ (\E d \in Marks(n) : d.slot = k) /\ \A d \in Marks(n) : d.slot = k
    BY <2>2, <2>3, <2>4, <2>5
  <2>6. ASSUME NEW n \in DOMAIN wraps
        PROVE  \E k \in DOMAIN ms : Has(k) /\ Marks(n) # {} /\ \A d \in Marks(n) : d.slot = k
    BY <2>1, <2>5
  <2>7. ASSUME NEW k \in DOMAIN ms, Has(k)  PROVE \E n \in DOMAIN wraps : \E d \in Marks(n) : d.slot = k
    BY <2>1, <2>3, <2>5, <2>7
  <2>8. ASSUME NEW n \in DOMAIN wraps, NEW p \in DOMAIN wraps, n < p, NEW d \in Marks(n), NEW e \in Marks(p)
        PROVE  d.slot < e.slot
    <3>1. PICK k \in DOMAIN ms : Closes(t, ms[k]) /\ wraps[n] = Of(k)  BY Zenon, <2>1
    <3>2. PICK l \in DOMAIN ms : Closes(t, ms[l]) /\ wraps[p] = Of(l)  BY Zenon, <2>1
    <3>3. k < l  BY Zenon, <2>1, <2>8, <3>1, <3>2
    <3>4. d.slot = k /\ e.slot = l  BY Zenon, <2>5, <2>8, <3>1, <3>2
    <3> QED  BY Zenon, <3>3, <3>4
  <2> QED  BY Zenon, <2>1, <2>6, <2>7, <2>8 DEF ms, wraps, closes, Marks, Has
<1> QED  BY <1>1, Invariance, TurnsTheorem, PrintedTheorem, PTL

-----------------------------------------------------------------------------
(* No class declares a function twice.                                     *)

\* A declaration is known by what it was stamped from and where it was put.
LEMMA OneRecord ==
  ASSUME IInv, TurnsOK, NEW d \in decls, NEW e \in decls, SameDecl(d, e), d.unit = e.unit,
         d.service = e.service, d.method = e.method
  PROVE  d = e
<1>1. ASSUME NEW b \in decls  PROVE b = [f \in Fields |-> b[f]]
  <2> DEFINE u == b.unit
             s == b.service
             k == b.method
  <2>1. u \in Units /\ s \in DOMAIN file.services  BY Origin
  <2>2. ASSUME NEW x, DOMAIN x = Fields, NEW n,
               b = [x EXCEPT !.unit = u, !.service = s, !.method = n, !.ns = Scope(u)]
        PROVE  b = [f \in Fields |-> b[f]]
    BY <2>2
  <2>3. CASE b \in Placed(DueFirst(u, s), u, s, 0)
    <3>1. PICK x \in DueFirst(u, s) : b = [x EXCEPT !.unit = u, !.service = s, !.method = 0, !.ns = Scope(u)]
      BY <2>3 DEF Placed
    <3>2. DOMAIN x = Fields  BY <2>1, FirstFormed
    <3> QED  BY Zenon, <2>2, <3>1, <3>2
  <2>4. ASSUME k \in DOMAIN Methods(s), NEW n \in DOMAIN LoopsOf(u),
               b \in Placed(DueAt(LoopsOf(u)[n], s, k), u, s, k)
        PROVE  b = [f \in Fields |-> b[f]]
    <3>1. PICK x \in DueAt(LoopsOf(u)[n], s, k) :
            b = [x EXCEPT !.unit = u, !.service = s, !.method = k, !.ns = Scope(u)]
      BY <2>4 DEF Placed
    <3>2. LoopsOf(u)[n] \in AllLoops  BY <2>1, LoopsNamed
    <3>3. DOMAIN x = Fields  BY <2>1, <2>4, <3>2, DueFormed
    <3> QED  BY Zenon, <2>2, <3>1, <3>3
  <2> QED  BY <2>3, <2>4 DEF TurnsOK, NothingElse
<1>2. d.ns = e.ns  BY Origin
<1>3. \A f \in Fields : d[f] = e[f]  BY <1>2 DEF Fields, SameDecl
<1> QED  BY Zenon, <1>1, <1>3

\* The stub's functions for a method, in the stub or in its interface.
Members(of, m, v) ==
  LET S == IF of = Stub THEN SyncRet(m, v) ELSE Iface(SyncRet(m, v))
      A == IF of = Stub THEN AsyncRet(m, v) ELSE Iface(AsyncRet(m, v))
      how == IF of = Stub THEN "override" ELSE "pure"
  IN PublicForm(of, m, v, Cq, S, A, how) \cup PrivateForm(of, m, v, Cq, S, A, how)

\* The synchronous ones: which it is, its name tells.
IsSyncMember(e, of, m, v) ==
  LET S == IF of = Stub THEN SyncRet(m, v) ELSE Iface(SyncRet(m, v))
      how == IF of = Stub THEN "override" ELSE "pure"
  IN \/ e.name = v.Method /\ e = IF NoStreaming(m) THEN Plain(of, m, v, how) ELSE SyncWrapper(of, m, v, S)
     \/ e.name = v.Method \o Raw /\ e = SyncRaw(of, m, v, S, how)

\* And those on a completion queue.
IsAsyncMember(e, of, m, v, p) ==
  LET A == IF of = Stub THEN AsyncRet(m, v) ELSE Iface(AsyncRet(m, v))
      how == IF of = Stub THEN "override" ELSE "pure"
  IN \/ e.name = p.prefix \o v.Method /\ e = AsyncWrapper(of, m, v, p, A)
     \/ e.name = p.prefix \o v.Method \o Raw /\ e = AsyncRaw(of, m, v, p, A, how)

\* The class, the name and the parameters of a declaration.
Carries(d, of, name, params) == d.of = of /\ d.name = name /\ d.params = params

\* Those of the wrappers, and of what they call.
LEMMA MemberFields ==
  ASSUME NEW of, NEW m, NEW v, NEW ret, NEW how
  PROVE  /\ Carries(Plain(of, m, v, how), of, v.Method, SyncParams(m, v))
         /\ Carries(SyncWrapper(of, m, v, ret), of, v.Method, SyncParams(m, v))
         /\ Carries(SyncRaw(of, m, v, ret, how), of, v.Method \o Raw, SyncParams(m, v))
         /\ \A p : /\ Carries(AsyncWrapper(of, m, v, p, ret), of, p.prefix \o v.Method, AsyncParams(m, v, p))
                   /\ Carries(AsyncRaw(of, m, v, p, ret, how), of, p.prefix \o v.Method \o Raw, AsyncParams(m, v, p))
<1>1. ASSUME NEW name, NEW params, NEW type, NEW call, NEW with
      PROVE  /\ Carries(Decl(of, name, params, type, how), of, name, params)
             /\ Carries(Body(Decl(of, name, params, type, "inline"), call, with), of, name, params)
  BY DeclFields, BodyFields DEF Carries
<1>2. Carries(Plain(of, m, v, how), of, v.Method, SyncParams(m, v))  BY Zenon, <1>1 DEF Plain
<1>3. Carries(SyncWrapper(of, m, v, ret), of, v.Method, SyncParams(m, v))  BY Zenon, <1>1 DEF SyncWrapper
<1>4. Carries(SyncRaw(of, m, v, ret, how), of, v.Method \o Raw, SyncParams(m, v))  BY Zenon, <1>1 DEF SyncRaw
<1>5. ASSUME NEW p
      PROVE  /\ Carries(AsyncWrapper(of, m, v, p, ret), of, p.prefix \o v.Method, AsyncParams(m, v, p))
             /\ Carries(AsyncRaw(of, m, v, p, ret, how), of, p.prefix \o v.Method \o Raw, AsyncParams(m, v, p))
  BY Zenon, <1>1 DEF AsyncWrapper, AsyncRaw
<1> QED  BY Zenon, <1>2, <1>3, <1>4, <1>5

\* Each of a method's functions is of one of the two kinds.
LEMMA MemberKinds ==
  ASSUME NEW of, NEW m, NEW v, NEW e \in Members(of, m, v)
  PROVE  /\ e.of = of /\ Called(e.params)
         /\ \/ IsSyncMember(e, of, m, v) /\ ~Queued(e.params)
            \/ \E p \in AsyncPrefixes : IsAsyncMember(e, of, m, v, p) /\ Queued(e.params)
<1> DEFINE S == IF of = Stub THEN SyncRet(m, v) ELSE Iface(SyncRet(m, v))
           A == IF of = Stub THEN AsyncRet(m, v) ELSE Iface(AsyncRet(m, v))
           how == IF of = Stub THEN "override" ELSE "pure"
           plain == Plain(of, m, v, how)
           wrapper == SyncWrapper(of, m, v, S)
           raw == SyncRaw(of, m, v, S, how)
           Wrapper(p) == AsyncWrapper(of, m, v, p, A)
           Rawly(p) == AsyncRaw(of, m, v, p, A, how)
<1>1. \/ (e = plain /\ NoStreaming(m)) \/ (e = wrapper /\ ~NoStreaming(m)) \/ e = raw
      \/ \E p \in AsyncPrefixes : e = Wrapper(p) \/ e = Rawly(p)
  <2>1. e \in PublicForm(of, m, v, Cq, S, A, how) \cup PrivateForm(of, m, v, Cq, S, A, how)
    BY Zenon DEF Members
  <2> HIDE DEF S, A, how
  <2>2. e \in PublicForm(of, m, v, Cq, S, A, how) =>
          \/ (e = plain /\ NoStreaming(m)) \/ (e = wrapper /\ ~NoStreaming(m))
          \/ \E p \in AsyncPrefixes : e = Wrapper(p)
    BY Zenon DEF PublicForm, When
  <2>3. e \in PrivateForm(of, m, v, Cq, S, A, how) => e = raw \/ \E p \in AsyncPrefixes : e = Rawly(p)
    BY DEF PrivateForm, When
  <2> QED  BY Zenon, <2>1, <2>2, <2>3
<1>2. Carries(plain, of, v.Method, SyncParams(m, v))  BY Zenon, MemberFields
<1>3. Carries(raw, of, v.Method \o Raw, SyncParams(m, v))  BY Zenon, MemberFields
<1>4. Carries(wrapper, of, v.Method, SyncParams(m, v))  BY Zenon, MemberFields
<1>5. \A p : Carries(Wrapper(p), of, p.prefix \o v.Method, AsyncParams(m, v, p))  BY Zenon, MemberFields
<1>6. \A p : Carries(Rawly(p), of, p.prefix \o v.Method \o Raw, AsyncParams(m, v, p))  BY Zenon, MemberFields
<1>7. Called(SyncParams(m, v)) /\ ~Queued(SyncParams(m, v))  BY Zenon, SyncCalled
<1>8. \A p \in AsyncPrefixes : Called(AsyncParams(m, v, p)) /\ Queued(AsyncParams(m, v, p))
  BY Zenon, AsyncCalled
<1>9. \A x : IsSyncMember(x, of, m, v) <=>
        \/ x.name = v.Method /\ x = IF NoStreaming(m) THEN plain ELSE wrapper
        \/ x.name = v.Method \o Raw /\ x = raw
  BY Zenon DEF IsSyncMember
<1>10. \A x, p : IsAsyncMember(x, of, m, v, p) <=>
         \/ x.name = p.prefix \o v.Method /\ x = Wrapper(p)
         \/ x.name = p.prefix \o v.Method \o Raw /\ x = Rawly(p)
  BY Zenon DEF IsAsyncMember
<1> HIDE DEF S, A, how, plain, wrapper, raw, Wrapper, Rawly
<1>11. CASE (e = plain /\ NoStreaming(m)) \/ (e = wrapper /\ ~NoStreaming(m)) \/ e = raw
  BY Zenon, <1>2, <1>3, <1>4, <1>7, <1>9, <1>11 DEF Carries
<1>12. ASSUME NEW p \in AsyncPrefixes, e = Wrapper(p) \/ e = Rawly(p)
       PROVE  e.of = of /\ Called(e.params) /\ IsAsyncMember(e, of, m, v, p) /\ Queued(e.params)
  BY Zenon, <1>5, <1>6, <1>8, <1>10, <1>12 DEF Carries
<1> QED  BY Zenon, <1>1, <1>11, <1>12

\* A name with one word before is another with a word before and Raw behind.
BegunAlike(x, n, y, o) == <<x>> \o n = <<y>> \o o \o Raw

\* Then the word is the same, and so is the rest.
LEMMA BegunThenRaw ==
  ASSUME NEW x, NEW y, NEW n \in Seq(STRING), NEW o \in Seq(STRING), BegunAlike(x, n, y, o)
  PROVE  x = y /\ n = o \o Raw
<1> DEFINE S == STRING \cup {x, y, "Raw"}
           p == <<x>>
           q == <<y>>
           r == <<"Raw">>
           l == o \o r
<1>1. p \in Seq(S) /\ q \in Seq(S) /\ r \in Seq(S) /\ n \in Seq(S) /\ o \in Seq(S)
  <2>1. y \in S /\ x \in S /\ "Raw" \in S  OBVIOUS
  <2>2. n \in Seq(S) /\ o \in Seq(S)  BY SMTT(30)
  <2> HIDE DEF S
  <2>3. q \in Seq(S) /\ r \in Seq(S) /\ p \in Seq(S)  BY ONLY <2>1
  <2> QED  BY Zenon, <2>2, <2>3
<1>2. p[1] = x /\ q[1] = y /\ Len(p) > 0 /\ Len(q) > 0  OBVIOUS
<1> HIDE DEF p, q, r, S
<1>3. l \in Seq(S)  BY Zenon, <1>1, Joined
<1>4. Associates(q, o, r)  BY Zenon, <1>1, Associative
<1> HIDE DEF l
<1>5. p \o n = q \o l  BY Zenon, <1>4 DEF p, q, r, l, Raw, BegunAlike, Associates
<1>6. (p \o n)[1] = x /\ (q \o l)[1] = y
  <2>1. ASSUME NEW f \in Seq(S), NEW g \in Seq(S), Len(f) > 0  PROVE (f \o g)[1] = f[1]
    BY <2>1, Joined
  <2>2. (p \o n)[1] = p[1]  BY Zenon, <1>1, <1>2, <2>1
  <2>3. (q \o l)[1] = q[1]  BY Zenon, <1>1, <1>2, <1>3, <2>1
  <2> QED  BY Zenon, <1>2, <2>2, <2>3
<1>7. x = y  BY Zenon, <1>5, <1>6
<1>8. q \o n = q \o l  BY Zenon, <1>5, <1>7 DEF p, q
<1>9. n = l  BY Zenon, <1>1, <1>3, <1>8, CancelBegin
<1> QED  BY Zenon, <1>7, <1>9 DEF l, r, Raw

\* What two functions of two methods share when their names do.
Apart(d, e, m, v, n, w) == v.Method = w.Method /\ (m = n /\ v = w => d = e)

\* The names of two methods of which neither is the other's followed by Raw.
Unlike(n, o) == n \in Seq(STRING) /\ o \in Seq(STRING) /\ n # o \o Raw /\ o # n \o Raw

\* One of two declarations, which its name tells.
OneOfTwo(e, x, f, y, g) == (e.name = x /\ e = f) \/ (e.name = y /\ e = g)

\* Two that are called alike are one.
LEMMA SameOfTwo ==
  ASSUME NEW d, NEW e, NEW x, NEW f, NEW y, NEW g, x # y,
         OneOfTwo(d, x, f, y, g), OneOfTwo(e, x, f, y, g), d.name = e.name
  PROVE  d = e
<1>1. CASE d.name = x  BY Zenon, <1>1 DEF OneOfTwo
<1>2. CASE d.name = y  BY Zenon, <1>2 DEF OneOfTwo
<1> QED  BY Zenon, <1>1, <1>2 DEF OneOfTwo

\* Two synchronous functions of one name are of methods of one name, and are one if the methods are.
LEMMA SyncMembersApart ==
  ASSUME NEW of, NEW m, NEW v, NEW n, NEW w, NEW d, NEW e, IsSyncMember(d, of, m, v), IsSyncMember(e, of, n, w),
         Unlike(v.Method, w.Method), d.name = e.name
  PROVE  Apart(d, e, m, v, n, w)
<1> DEFINE a == v.Method
           b == w.Method
<1>1. d.name \in {a, a \o Raw} /\ e.name \in {b, b \o Raw}  BY Zenon DEF IsSyncMember
<1>2. a = b
  <2>1. ASSUME a \o Raw = b \o Raw  PROVE a = b  BY Zenon, <2>1, SameEnd DEF Unlike
  <2> QED  BY Zenon, <1>1, <2>1 DEF Unlike
<1>3. ASSUME m = n, v = w  PROVE d = e
  <2>1. a # a \o Raw  BY Zenon, <1>3 DEF Unlike
  <2>2. PICK x, y :
          \A f : IsSyncMember(f, of, m, v) => OneOfTwo(f, a, x, a \o Raw, y)
    BY Zenon DEF IsSyncMember, OneOfTwo
  <2>3. OneOfTwo(d, a, x, a \o Raw, y) /\ OneOfTwo(e, a, x, a \o Raw, y)  BY Zenon, <1>3, <2>2
  <2> QED  BY Zenon, <2>1, <2>3, SameOfTwo
<1> QED  BY Zenon, <1>2, <1>3 DEF Apart

\* So are two on a completion queue.
LEMMA AsyncMembersApart ==
  ASSUME NEW of, NEW m, NEW v, NEW n, NEW w, NEW d, NEW e, NEW p \in AsyncPrefixes, NEW q \in AsyncPrefixes,
         IsAsyncMember(d, of, m, v, p), IsAsyncMember(e, of, n, w, q),
         Unlike(v.Method, w.Method), d.name = e.name
  PROVE  Apart(d, e, m, v, n, w)
<1> DEFINE a == v.Method
           b == w.Method
<1>1. a \in Seq(STRING) /\ b \in Seq(STRING) /\ a # b \o Raw /\ b # a \o Raw  BY Zenon DEF Unlike
<1>2. PICK x, y : p.prefix = <<x>> /\ q.prefix = <<y>> /\ (x = y => p = q)
  <2>1. \A z \in AsyncPrefixes : \E u : z.prefix = <<u>>  BY Prefixes
  <2>2. PICK x, y : p.prefix = <<x>> /\ q.prefix = <<y>>  BY <2>1
  <2>3. p.prefix \o <<>> \o Raw = q.prefix \o <<>> \o Raw => p = q
    <3>1. <<>> \in Seq(STRING)  OBVIOUS
    <3> QED  BY Zenon, <3>1, AsyncNames DEF NamedAlike
  <2>4. x = y => p = q  BY Zenon, <2>2, <2>3
  <2> QED  BY Zenon, <2>2, <2>4
<1>3. /\ d.name = <<x>> \o a \/ d.name = <<x>> \o a \o Raw
      /\ e.name = <<y>> \o b \/ e.name = <<y>> \o b \o Raw
  BY Zenon, <1>2 DEF IsAsyncMember
<1> HIDE DEF a, b
<1>4. ~BegunAlike(x, a, y, b) /\ ~BegunAlike(y, b, x, a)
  BY Zenon, <1>1, BegunThenRaw
<1>5. x = y /\ a = b
  <2>1. <<x>> \o a = <<y>> \o b => x = y /\ a = b  BY SMTT(30), <1>1, SameBegin
  <2>2. <<x>> \o a \o Raw = <<y>> \o b \o Raw => x = y /\ a = b
    BY Zenon, <1>1, SameBegunRaw DEF NamedAlike
  <2> QED  BY Zenon, <1>3, <1>4, <2>1, <2>2 DEF BegunAlike
<1>6. ASSUME m = n, v = w  PROVE d = e
  <2>1. p = q  BY Zenon, <1>2, <1>5
  <2>2. <<x>> \o v.Method # <<x>> \o v.Method \o Raw  BY Zenon, <1>4, <1>5, <1>6 DEF a, b, BegunAlike
  <2>3. p.prefix \o v.Method # p.prefix \o v.Method \o Raw  BY Zenon, <1>2, <2>2
  <2> DEFINE i == p.prefix \o v.Method
             j == p.prefix \o v.Method \o Raw
  <2>4. PICK f, g : \A h : IsAsyncMember(h, of, m, v, p) => OneOfTwo(h, i, f, j, g)
    BY Zenon DEF IsAsyncMember, OneOfTwo
  <2>5. IsAsyncMember(e, of, m, v, p)  BY Zenon, <1>6, <2>1
  <2>6. OneOfTwo(d, i, f, j, g) /\ OneOfTwo(e, i, f, j, g)  BY Zenon, <2>4, <2>5
  <2> QED  BY Zenon, <2>3, <2>6, SameOfTwo
<1> QED  BY Zenon, <1>5, <1>6 DEF a, b, Apart

\* The stub declares no function of two methods alike, and none of one method twice.
LEMMA MembersApart ==
  ASSUME NEW of, NEW m, NEW v, NEW n, NEW w, NEW d \in Members(of, m, v), NEW e \in Members(of, n, w),
         Unlike(v.Method, w.Method), d.name = e.name, Types(d.params) = Types(e.params)
  PROVE  Apart(d, e, m, v, n, w)
<1>1. \/ IsSyncMember(d, of, m, v) /\ ~Queued(d.params)
      \/ \E p \in AsyncPrefixes : IsAsyncMember(d, of, m, v, p) /\ Queued(d.params)
  BY Zenon, MemberKinds
<1>2. \/ IsSyncMember(e, of, n, w) /\ ~Queued(e.params)
      \/ \E p \in AsyncPrefixes : IsAsyncMember(e, of, n, w, p) /\ Queued(e.params)
  BY Zenon, MemberKinds
<1>3. Queued(d.params) <=> Queued(e.params)  BY Zenon, CalledAlike
<1>4. ASSUME IsSyncMember(d, of, m, v), IsSyncMember(e, of, n, w)  PROVE Apart(d, e, m, v, n, w)
  BY Zenon, <1>4, SyncMembersApart
<1>5. ASSUME NEW p \in AsyncPrefixes, NEW q \in AsyncPrefixes,
             IsAsyncMember(d, of, m, v, p), IsAsyncMember(e, of, n, w, q)
      PROVE  Apart(d, e, m, v, n, w)
  BY Zenon, <1>5, AsyncMembersApart
<1> QED  BY Zenon, <1>1, <1>2, <1>3, <1>4, <1>5

\* The callbacks a class declares for a method are told apart by their types.
LEMMA CallbackApart ==
  ASSUME NEW m, NEW v, NEW q \in CallbackParams(m, v), NEW r \in CallbackParams(m, v), AlikeCalled(q, r)
  PROVE  q = r
<1> DEFINE a == Context
           b == RequestPtr(v)
           c == ResponsePtr(v)
           g == <<"reactor", "ClientUnaryReactor">>
           h == <<"", "function">>
<1>1. CASE NoStreaming(m)
  <2>1. CallbackParams(m, v) = {<<b, c, h>>, <<b, c, g>>}  BY Zenon, <1>1 DEF CallbackParams
  <2>2. Tail(g) = <<"ClientUnaryReactor">> /\ Tail(h) = <<"function">> /\ Tail(g) # Tail(h)
    <3>1. Tail(h) = <<"function">>  BY Zenon, UnnamedCallback
    <3>2. Tail(g) = <<"ClientUnaryReactor">>  BY Zenon, UnnamedCallback
    <3> HIDE DEF g, h
    <3> QED  BY Zenon, <3>1, <3>2, LastCallback
  <2> HIDE DEF a, b, c, g, h
  <2>3. <<a>> \o <<b, c, g>> = <<a, b, c, g>> /\ <<a>> \o <<b, c, h>> = <<a, b, c, h>>
    BY Zenon, GluedFirst
  <2>4. Types(<<a, b, c, g>>) # Types(<<a, b, c, h>>)  BY Zenon, <2>2, LastTypes
  <2>5. ~AlikeCalled(<<b, c, g>>, <<b, c, h>>) /\ ~AlikeCalled(<<b, c, h>>, <<b, c, g>>)
    BY Zenon, <2>3, <2>4 DEF AlikeCalled, a
  <2> DEFINE y == <<b, c, g>>
             z == <<b, c, h>>
  <2>6. CallbackParams(m, v) = {y, z} /\ ~AlikeCalled(y, z) /\ ~AlikeCalled(z, y)  BY Zenon, <2>1, <2>5
  <2> HIDE DEF y, z
  <2> QED  BY <2>6
<1>2. CASE ~NoStreaming(m)
  <2>1. \E p : CallbackParams(m, v) = {p}  BY Zenon, <1>2 DEF CallbackParams
  <2> QED  BY <2>1
<1> QED  BY <1>1, <1>2

\* What the header declares before its loops, by class, name and parameters.
LEMMA HeaderFixedKinds ==
  ASSUME NEW s, NEW e \in DueFirst("header", s)
  PROVE  /\ e.of = StubInterface => ~Called(e.params)
         /\ e.of = Stub => ~Called(e.params) /\ \A n \in Seq(STRING) : e.name # <<"rpcmethod_">> \o n
         /\ e.of = Service => e.params = <<>>
         /\ e.of \notin {StubAsync, AsyncInterface}
         /\ \A f \in DueFirst("header", s) : e.of = f.of /\ e.name = f.name => e = f
<1> DEFINE v == [InitialVars EXCEPT !.Package = file.package, !.Service = ServiceName(s)]
           full == v.Package \o v.Service
           long == <<"service_full_name">>
           name == <<"async">>
           face == <<"async", "Interface">>
           stub == <<"async_stub_">>
           over == Decl(Stub, name, <<>>, name, "override")
           pointer == <<"unique_ptr", "Stub">>
           new == <<"NewStub">>
           dtor == <<"~">> \o Service
           args == ChannelAndOptions
           a == Decl(<<>>, long, <<>>, full, "inline")
           b == Decl(StubInterface, name, <<>>, face, "default")
           c == Body(over, stub, <<>>)
           d == Decl(Stub, Stub, args, <<>>, "declared")
           g == Decl(<<>>, new, args, pointer, "declared")
           h == Decl(Service, Service, <<>>, <<>>, "declared")
           i == Decl(Service, dtor, <<>>, <<>>, "virtual")
           H == DueFirst("header", s)
<1>1. H = {a, b, c, d, g, h, i}  BY DEF DueFirst, HeaderFixed
<1>2. dtor # Service
  <2> DEFINE S == {"~", "Service"}
             t == <<"~">>
             w == <<"Service">>
             j == t \o w
  <2>1. t \in Seq(S) /\ w \in Seq(S) /\ Len(t) = 1 /\ Len(w) = 1  OBVIOUS
  <2> HIDE DEF S, t, w
  <2>2. Len(j) = Len(t) + Len(w)  BY Zenon, <2>1, Joined
  <2> HIDE DEF j
  <2>3. j # w  BY <2>1, <2>2
  <2> QED  BY Zenon, <2>3 DEF j, t, w, Service
<1> DEFINE First(f) == f[1]
<1>3. /\ Len(Stub) = 1 /\ Len(StubInterface) = 1 /\ Len(Service) = 1 /\ Len(StubAsync) = 1
      /\ Len(AsyncInterface) = 1 /\ Len(<<>>) = 0
      /\ Stub[1] = "Stub" /\ StubInterface[1] = "StubInterface" /\ Service[1] = "Service"
      /\ StubAsync[1] = "async" /\ AsyncInterface[1] = "async_interface"
  BY DEF Stub, StubInterface, Service, StubAsync, AsyncInterface
<1>4. long # new /\ name[1] = "async"  OBVIOUS
<1>5. \A n \in Seq(STRING) : (<<"rpcmethod_">> \o n)[1] = "rpcmethod_"  BY Begun
<1>6. ~Called(args) /\ ~Called(<<>>)  BY Zenon, NotCalled
<1>7. name # Stub  BY DEF Stub
<1> HIDE DEF full, long, name, face, stub, pointer, new, dtor, args
<1>8. c.of = Stub /\ c.name = name /\ c.params = <<>>
  <2>1. DOMAIN over = Fields /\ over.of = Stub /\ over.name = name /\ over.params = <<>>  BY DeclFields
  <2> HIDE DEF over
  <2> QED  BY <2>1, BodyFields
<1>9. /\ a.of = <<>> /\ a.name = long /\ b.of = StubInterface /\ b.params = <<>>
      /\ d.of = Stub /\ d.name = Stub /\ d.params = args
      /\ g.of = <<>> /\ g.name = new
      /\ h.of = Service /\ h.name = Service /\ h.params = <<>>
      /\ i.of = Service /\ i.name = dtor /\ i.params = <<>>
  BY DeclFields
<1> HIDE DEF a, b, c, d, g, h, i, H
<1>10. /\ Stub # StubInterface /\ Stub # Service /\ Stub # <<>> /\ StubInterface # Service /\ StubInterface # <<>>
       /\ Service # <<>>
       /\ \A of \in {Stub, StubInterface, Service, <<>>} : of # StubAsync /\ of # AsyncInterface
  BY <1>3
<1>11. e \in H  BY DEF H
<1>12. /\ e.of = StubInterface => ~Called(e.params)
       /\ e.of = Stub => ~Called(e.params) /\ e.name \in {name, Stub}
       /\ e.of = Service => e.params = <<>>
       /\ e.of \in {Stub, StubInterface, Service, <<>>}
  BY <1>1, <1>6, <1>8, <1>9, <1>10, <1>11
<1>13. \A f \in H : e.of = f.of /\ e.name = f.name => e = f
  BY <1>1, <1>2, <1>4, <1>7, <1>8, <1>9, <1>10, <1>11
<1>14. ASSUME NEW n \in Seq(STRING), e.of = Stub  PROVE e.name # <<"rpcmethod_">> \o n
  <2> DEFINE p == <<"rpcmethod_">> \o n
  <2>1. p[1] = "rpcmethod_"  BY <1>5
  <2> HIDE DEF p
  <2>2. e.name[1] \in {"async", "Stub"}  BY <1>3, <1>4, <1>12, <1>14
  <2>3. e.name # p  BY <2>1, <2>2
  <2> QED  BY Zenon, <2>3 DEF p
<1> QED  BY Zenon, <1>10, <1>12, <1>13, <1>14 DEF H

\* One of the functions the header declares in a class of its own for every method.
HeaderMember(e, s, k) ==
  LET m == Methods(s)[k]
      v == Fresh(s, k)
  IN \/ e.of \in {Stub, StubInterface} /\ e \in Members(e.of, m, v)
     \/ \E of \in {StubAsync, AsyncInterface}, how \in {"pure", "override"} :
          (how = "override" <=> of = StubAsync) /\ e.of = of /\ e \in Callbacks(of, m, v, how)
     \/ e \in MethodData(v)
     \/ DueAt("Sync", s, k) = {e}

\* What the header's loops declare outside the mixins.
LEMMA HeaderMembers ==
  ASSUME IInv, NEW s \in DOMAIN file.services, NEW k \in DOMAIN Methods(s),
         NEW l \in LoopSet("header") \cap AllLoops, NEW e \in DueAt(l, s, k), e.of \in FixedClasses
  PROVE  HeaderMember(e, s, k)
<1> DEFINE m == Methods(s)[k]
           v == Fresh(s, k)
<1>1. Stub # StubInterface /\ StubAsync # AsyncInterface
  BY DEF Stub, StubInterface, StubAsync, AsyncInterface
<1>2. CASE l \in {"Interfaces", "RawInterfaces"}
  <2>1. e.of = StubInterface  BY <1>2, ClientClasses
  <2>2. e \in Members(StubInterface, m, v)
    <3>1. DueAt("Interfaces", s, k) \subseteq Members(StubInterface, m, v)
          /\ DueAt("RawInterfaces", s, k) \subseteq Members(StubInterface, m, v)
      BY Zenon, <1>1, ClientForms DEF Members
    <3> QED  BY Zenon, <1>2, <3>1
  <2> QED  BY Zenon, <2>1, <2>2 DEF HeaderMember
<1>3. CASE l \in {"Methods", "RawMethods"}
  <2>1. e.of = Stub  BY <1>3, ClientClasses
  <2>2. e \in Members(Stub, m, v)
    <3>1. DueAt("Methods", s, k) \subseteq Members(Stub, m, v)
          /\ DueAt("RawMethods", s, k) \subseteq Members(Stub, m, v)
      BY Zenon, ClientForms DEF Members
    <3> QED  BY Zenon, <1>3, <3>1
  <2> QED  BY Zenon, <2>1, <2>2 DEF HeaderMember
<1>4. CASE l = "CallbackInterfaces"
  <2>1. e.of = AsyncInterface  BY <1>4, ClientClasses
  <2>2. e \in Callbacks(AsyncInterface, m, v, "pure")  BY Zenon, <1>4, ClientForms
  <2>3. "pure" # "override"  OBVIOUS
  <2> QED  BY Zenon, <1>1, <2>1, <2>2, <2>3 DEF HeaderMember
<1>5. CASE l = "Callback"
  <2>1. e.of = StubAsync  BY <1>5, ClientClasses
  <2>2. e \in Callbacks(StubAsync, m, v, "override")  BY Zenon, <1>5, ClientForms
  <2> QED  BY Zenon, <2>1, <2>2 DEF HeaderMember
<1>6. CASE l = "Data"
  <2>1. DueAt("Data", s, k) = MethodData(v)  BY DEF DueAt
  <2> QED  BY Zenon, <1>6, <2>1 DEF HeaderMember
<1>7. CASE l = "Sync"
  <2>1. \E a : DueAt("Sync", s, k) = {a}  BY Zenon, ServiceClasses
  <2> QED  BY Zenon, <1>7, <2>1 DEF HeaderMember
<1>8. l \notin MixinLoops
  <2>1. SUFFICES ASSUME l \in MixinLoops  PROVE FALSE  OBVIOUS
  <2>2. e.of = <<MixinOf(l)>> \o m.name  BY <2>1, MixinDue DEF Mixed
  <2>3. m.name \in Seq(STRING)  BY Zenon, MethodKinds
  <2>4. <<MixinOf(l)>> \o m.name \notin FixedClasses  BY Zenon, <2>1, <2>3, MixinNames DEF FixedClasses
  <2> QED  BY Zenon, <2>2, <2>4
<1>9. l \notin SilentLoops  BY NothingDue
<1>10. l \notin {"Inits", "SourceClient", "MockMethods", "SourceServer"}
  <2>1. \A n \in DOMAIN HeaderLoops : HeaderLoops[n] \notin {"Inits", "SourceClient", "MockMethods", "SourceServer"}
    BY DEF HeaderLoops
  <2> QED  BY <2>1, LoopsOfUnit DEF LoopSet
<1> QED  BY <1>2, <1>3, <1>4, <1>5, <1>6, <1>7, <1>8, <1>9, <1>10, LoopCases

\* They are of four kinds, each with its classes and its parameters.
StubFunction(e, s, k) ==
  e.of \in {Stub, StubInterface} /\ e \in Members(e.of, Methods(s)[k], Fresh(s, k)) /\ Called(e.params)
CallbackFunction(e, s, k) ==
  LET v == Fresh(s, k)
  IN /\ e.of \in {StubAsync, AsyncInterface} /\ e.name = v.Method
     /\ \E how \in {"pure", "override"}, q \in CallbackParams(Methods(s)[k], v) :
          /\ how = "override" <=> e.of = StubAsync
          /\ e = Decl(e.of, v.Method, <<Context>> \o q, <<"void">>, how)
          /\ e.params = <<Context>> \o q
MethodDatum(e, s, k) ==
  LET v == Fresh(s, k)
  IN e \in MethodData(v) /\ e.of = Stub /\ e.name = <<"rpcmethod_">> \o v.Method /\ ~Called(e.params)
ServiceFunction(e, s, k) ==
  DueAt("Sync", s, k) = {e} /\ e.of = Service /\ e.name = Fresh(s, k).Method /\ 1 \in DOMAIN e.params

\* Each of them is of one of the four.
LEMMA HeaderMemberKinds ==
  ASSUME IInv, NEW s \in DOMAIN file.services, NEW k \in DOMAIN Methods(s), NEW e, HeaderMember(e, s, k)
  PROVE  StubFunction(e, s, k) \/ CallbackFunction(e, s, k) \/ MethodDatum(e, s, k) \/ ServiceFunction(e, s, k)
<1> DEFINE m == Methods(s)[k]
           v == Fresh(s, k)
<1>1. CASE e.of \in {Stub, StubInterface} /\ e \in Members(e.of, m, v)
  <2>1. Called(e.params)  BY Zenon, <1>1, MemberKinds
  <2> QED  BY Zenon, <1>1, <2>1 DEF StubFunction
<1>2. ASSUME NEW of \in {StubAsync, AsyncInterface}, NEW how \in {"pure", "override"},
             how = "override" <=> of = StubAsync, e.of = of, e \in Callbacks(of, m, v, how)
      PROVE  CallbackFunction(e, s, k)
  <2>1. PICK q \in CallbackParams(m, v) : e = Decl(of, v.Method, <<Context>> \o q, <<"void">>, how)
    BY Zenon, <1>2 DEF Callbacks
  <2> DEFINE params == <<Context>> \o q
             ret == <<"void">>
             name == v.Method
             d == Decl(of, name, params, ret, how)
  <2>2. e = d  BY <2>1
  <2> HIDE DEF params, ret, name
  <2>3. d.name = name /\ d.params = params  BY DeclFields
  <2> HIDE DEF d
  <2>4. e.name = name /\ e.params = params  BY <2>2, <2>3
  <2>5. e = Decl(e.of, name, params, ret, how)  BY Zenon, <1>2, <2>2 DEF d
  <2> QED  BY Zenon, <1>2, <2>4, <2>5 DEF params, ret, name, CallbackFunction
<1>3. CASE e \in MethodData(v)
  <2> DEFINE name == RpcMethod(v)
             ret == <<"RpcMethod">>
  <2>1. e = Decl(Stub, name, <<>>, ret, "data")  BY Zenon, <1>3 DEF MethodData
  <2> HIDE DEF name, ret
  <2>2. e.of = Stub /\ e.name = name /\ e.params = <<>>  BY <2>1, DeclFields
  <2>3. ~Called(e.params)  BY Zenon, <2>2, NotCalled
  <2> QED  BY Zenon, <1>3, <2>2, <2>3 DEF name, RpcMethod, MethodDatum
<1>4. CASE DueAt("Sync", s, k) = {e}
  <2>1. \E a : DueAt("Sync", s, k) = {a} /\ a.of = Service /\ a.name = v.Method /\ a.params = ServerParams(m, v)
    <3> DEFINE a == Decl(Service, v.Method, ServerParams(m, v), <<"Status">>,
                     IF Sync THEN "virtual" ELSE "declared")
    <3>1. DueAt("Sync", s, k) = {a} /\ a.of = Service /\ a.name = v.Method /\ a.params = ServerParams(m, v)
      BY Zenon, ServiceClasses
    <3> HIDE DEF a
    <3> QED  BY Zenon, <3>1
  <2>2. e.of = Service /\ e.name = v.Method /\ e.params = ServerParams(m, v)  BY Zenon, <1>4, <2>1
  <2>3. 1 \in DOMAIN e.params  BY Zenon, <2>2, NotCalled
  <2> QED  BY Zenon, <1>4, <2>2, <2>3 DEF ServiceFunction
<1> QED  BY Zenon, <1>1, <1>2, <1>3, <1>4 DEF HeaderMember

\* Two functions that are declared alike.
Redeclares(d, e) == d.of = e.of /\ d.name = e.name /\ Types(d.params) = Types(e.params)

\* The methods of a service with no pair of names told apart by Raw.
LEMMA MethodsUnlike ==
  ASSUME IInv, NEW s \in DOMAIN file.services, ~RawPair(s), NEW k \in DOMAIN Methods(s), NEW n \in DOMAIN Methods(s)
  PROVE  /\ Unlike(Fresh(s, k).Method, Fresh(s, n).Method)
         /\ Fresh(s, k).Method = Fresh(s, n).Method => k = n
<1> DEFINE f == Methods(s)[k].name
           g == Methods(s)[n].name
<1>1. f \in Seq(STRING) /\ g \in Seq(STRING)  BY Zenon, MethodKinds
<1>2. f # g \o Raw /\ g # f \o Raw  BY Zenon DEF RawPair
<1>3. f = g => k = n  BY Zenon, MethodNamed
<1>4. Fresh(s, k).Method = f /\ Fresh(s, n).Method = g  BY Zenon, FreshMethod
<1> QED  BY Zenon, <1>1, <1>2, <1>3, <1>4 DEF Unlike

\* Two functions of the stub that are declared alike are one.
LEMMA StubFunctionsOnce ==
  ASSUME IInv, NEW s \in DOMAIN file.services, ~RawPair(s), NEW k \in DOMAIN Methods(s),
         NEW n \in DOMAIN Methods(s), NEW d, NEW e, StubFunction(d, s, k), StubFunction(e, s, n), Redeclares(d, e)
  PROVE  k = n /\ d = e
<1> DEFINE m == Methods(s)[k]
           v == Fresh(s, k)
           o == Methods(s)[n]
           w == Fresh(s, n)
           of == d.of
<1>1. d \in Members(of, m, v) /\ e \in Members(of, o, w)  BY Zenon DEF StubFunction, Redeclares
<1>2. Unlike(v.Method, w.Method) /\ (v.Method = w.Method => k = n)  BY Zenon, MethodsUnlike
<1>3. d.name = e.name /\ Types(d.params) = Types(e.params)  BY DEF Redeclares
<1>4. k = n => m = o /\ v = w  OBVIOUS
<1> HIDE DEF m, v, o, w, of
<1>5. Apart(d, e, m, v, o, w)  BY Zenon, <1>1, <1>2, <1>3, MembersApart
<1> QED  BY Zenon, <1>2, <1>4, <1>5 DEF Apart

\* So are two callbacks: their method and their parameters tell them.
LEMMA CallbackFunctionsOnce ==
  ASSUME IInv, NEW s \in DOMAIN file.services, ~RawPair(s), NEW k \in DOMAIN Methods(s),
         NEW n \in DOMAIN Methods(s), NEW d, NEW e,
         CallbackFunction(d, s, k), CallbackFunction(e, s, n), Redeclares(d, e)
  PROVE  k = n /\ d = e
<1>1. k = n
  <2>1. Fresh(s, k).Method = Fresh(s, n).Method  BY Zenon DEF CallbackFunction, Redeclares
  <2> QED  BY Zenon, <2>1, MethodsUnlike
<1> DEFINE m == Methods(s)[k]
           v == Fresh(s, k)
           ret == <<"void">>
           D(how, q) == Decl(d.of, v.Method, <<Context>> \o q, ret, how)
<1>2. PICK h \in {"pure", "override"}, q \in CallbackParams(m, v) :
        (h = "override" <=> d.of = StubAsync) /\ d = D(h, q) /\ d.params = <<Context>> \o q
  BY Zenon DEF CallbackFunction
<1>3. PICK i \in {"pure", "override"}, r \in CallbackParams(m, v) :
        (i = "override" <=> d.of = StubAsync) /\ e = D(i, r) /\ e.params = <<Context>> \o r
  BY Zenon, <1>1 DEF CallbackFunction, Redeclares
<1>4. h = i  BY <1>2, <1>3
<1>5. AlikeCalled(q, r)  BY Zenon, <1>2, <1>3 DEF Redeclares, AlikeCalled
<1>6. q = r  BY Zenon, <1>2, <1>3, <1>5, CallbackApart
<1> HIDE DEF D
<1> QED  BY Zenon, <1>1, <1>2, <1>3, <1>4, <1>6

\* So are two data, of which a method has one.
LEMMA MethodDataOnce ==
  ASSUME IInv, NEW s \in DOMAIN file.services, ~RawPair(s), NEW k \in DOMAIN Methods(s),
         NEW n \in DOMAIN Methods(s), NEW d, NEW e, MethodDatum(d, s, k), MethodDatum(e, s, n), Redeclares(d, e)
  PROVE  k = n /\ d = e
<1> DEFINE v == Fresh(s, k)
           w == Fresh(s, n)
           f == v.Method
           g == w.Method
           x == "rpcmethod_"
<1>1. <<x>> \o f = <<x>> \o g  BY Zenon DEF MethodDatum, Redeclares
<1>2. f \in Seq(STRING) /\ g \in Seq(STRING) /\ (f = g => k = n)
  BY Zenon, MethodsUnlike DEF Unlike
<1> HIDE DEF f, g, x
<1>3. f = g  BY SMTT(30), <1>1, <1>2, SameBegin
<1>4. k = n  BY Zenon, <1>2, <1>3
<1>5. \E a : MethodData(v) = {a}  BY Zenon DEF MethodData
<1>6. d \in MethodData(v) /\ e \in MethodData(v)  BY Zenon, <1>4 DEF MethodDatum, v
<1>7. d = e  BY <1>5, <1>6
<1> QED  BY <1>4, <1>7

\* So are two functions of Service, of which a method has one.
LEMMA ServiceFunctionsOnce ==
  ASSUME IInv, NEW s \in DOMAIN file.services, ~RawPair(s), NEW k \in DOMAIN Methods(s),
         NEW n \in DOMAIN Methods(s), NEW d, NEW e,
         ServiceFunction(d, s, k), ServiceFunction(e, s, n), Redeclares(d, e)
  PROVE  k = n /\ d = e
<1>1. k = n
  <2>1. Fresh(s, k).Method = Fresh(s, n).Method  BY Zenon DEF ServiceFunction, Redeclares
  <2> QED  BY Zenon, <2>1, MethodsUnlike
<1>2. DueAt("Sync", s, k) = {d} /\ DueAt("Sync", s, k) = {e}  BY Zenon, <1>1 DEF ServiceFunction
<1>3. d = e  BY Zenon, <1>2
<1> QED  BY <1>1, <1>3

\* The functions of the methods, outside the mixins, are declared once.
LEMMA MembersOnce ==
  ASSUME IInv, NEW s \in DOMAIN file.services, ~RawPair(s), NEW k \in DOMAIN Methods(s),
         NEW n \in DOMAIN Methods(s), NEW d, NEW e, HeaderMember(d, s, k), HeaderMember(e, s, n), Redeclares(d, e)
  PROVE  k = n /\ d = e
<1>1. /\ StubFunction(d, s, k) \/ CallbackFunction(d, s, k) \/ MethodDatum(d, s, k) \/ ServiceFunction(d, s, k)
      /\ StubFunction(e, s, n) \/ CallbackFunction(e, s, n) \/ MethodDatum(e, s, n) \/ ServiceFunction(e, s, n)
  BY Zenon, HeaderMemberKinds
<1>2. Stub \notin {StubAsync, AsyncInterface, Service} /\ StubInterface \notin {StubAsync, AsyncInterface, Service}
      /\ Service \notin {StubAsync, AsyncInterface}
  <2>1. /\ Stub[1] = "Stub" /\ StubInterface[1] = "StubInterface" /\ Service[1] = "Service"
        /\ StubAsync[1] = "async" /\ AsyncInterface[1] = "async_interface"
    BY DEF Stub, StubInterface, Service, StubAsync, AsyncInterface
  <2> QED  BY <2>1
<1>3. d.of = e.of /\ (Called(d.params) <=> Called(e.params))  BY Zenon, CalledAlike DEF Redeclares
<1> DEFINE Told(f, j) == /\ StubFunction(f, s, j) => f.of \in {Stub, StubInterface} /\ Called(f.params)
                         /\ CallbackFunction(f, s, j) => f.of \in {StubAsync, AsyncInterface}
                         /\ MethodDatum(f, s, j) => f.of = Stub /\ ~Called(f.params)
                         /\ ServiceFunction(f, s, j) => f.of = Service
<1>4. Told(d, k) /\ Told(e, n)  BY Zenon DEF StubFunction, CallbackFunction, MethodDatum, ServiceFunction
<1>5. \/ StubFunction(d, s, k) /\ StubFunction(e, s, n)
      \/ CallbackFunction(d, s, k) /\ CallbackFunction(e, s, n)
      \/ MethodDatum(d, s, k) /\ MethodDatum(e, s, n)
      \/ ServiceFunction(d, s, k) /\ ServiceFunction(e, s, n)
  BY Zenon, <1>1, <1>2, <1>3, <1>4
<1> QED  BY Zenon, <1>5, StubFunctionsOnce, CallbackFunctionsOnce, MethodDataOnce, ServiceFunctionsOnce

\* None is declared like what the class has before the loops.
LEMMA FixedAndMember ==
  ASSUME IInv, NEW s \in DOMAIN file.services, NEW k \in DOMAIN Methods(s),
         NEW d \in DueFirst("header", s), NEW e, HeaderMember(e, s, k)
  PROVE  ~Redeclares(d, e)
<1> SUFFICES ASSUME Redeclares(d, e)  PROVE FALSE  OBVIOUS
<1>1. StubFunction(e, s, k) \/ CallbackFunction(e, s, k) \/ MethodDatum(e, s, k) \/ ServiceFunction(e, s, k)
  BY Zenon, HeaderMemberKinds
<1>2. d.of = e.of /\ d.name = e.name /\ DOMAIN d.params = DOMAIN e.params /\ (Called(d.params) <=> Called(e.params))
  BY Zenon, CalledAlike DEF Redeclares
<1>3. /\ d.of \in {Stub, StubInterface} => ~Called(d.params)
      /\ d.of = Stub => \A n \in Seq(STRING) : d.name # <<"rpcmethod_">> \o n
      /\ d.of = Service => d.params = <<>>
      /\ d.of \notin {StubAsync, AsyncInterface}
  BY Zenon, HeaderFixedKinds
<1>4. Fresh(s, k).Method \in Seq(STRING)
  <2>1. Fresh(s, k).Method = Methods(s)[k].name  BY Zenon, FreshMethod
  <2>2. Methods(s)[k].name \in Seq(STRING)  BY Zenon, MethodKinds
  <2> QED  BY Zenon, <2>1, <2>2
<1>5. 1 \notin DOMAIN <<>>  OBVIOUS
<1>6. ~StubFunction(e, s, k) /\ ~CallbackFunction(e, s, k)
  BY Zenon, <1>2, <1>3 DEF StubFunction, CallbackFunction
<1>7. ~MethodDatum(e, s, k)  BY Zenon, <1>2, <1>3, <1>4 DEF MethodDatum
<1>8. ~ServiceFunction(e, s, k)  BY Zenon, <1>2, <1>3, <1>5 DEF ServiceFunction
<1> QED  BY Zenon, <1>1, <1>6, <1>7, <1>8

\* The members of a mixin are told apart by their names and types.
LEMMA MixinMembersApart ==
  ASSUME NEW l \in MixinLoops, NEW name \in Seq(STRING), NEW slot, NEW due,
         MixinTable(due, <<MixinOf(l)>> \o name, name, slot),
         NEW f \in due, NEW g \in due, f.name = g.name, Types(f.params) = Types(g.params)
  PROVE  f = g
<1> DEFINE w == MixinOf(l)
           of == <<w>> \o name
<1>1. PICK c \in due : \E a, b, x :
        /\ due \subseteq {c, a, b, x}
        /\ Constructs(c, of, slot) /\ StartsWith(a, name, ServerContext) /\ StartsWith(b, name, CallbackContext)
        /\ \E z \in {"Request", "SetMessageAllocatorFor_", "Streamed"} : IsNamed(x, <<z>> \o name)
  BY Zenon DEF MixinTable
<1>2. PICK a, b, x :
        /\ due \subseteq {c, a, b, x}
        /\ Constructs(c, of, slot) /\ StartsWith(a, name, ServerContext) /\ StartsWith(b, name, CallbackContext)
        /\ \E z \in {"Request", "SetMessageAllocatorFor_", "Streamed"} : IsNamed(x, <<z>> \o name)
  BY Zenon, <1>1
<1>3. PICK z \in {"Request", "SetMessageAllocatorFor_", "Streamed"} : IsNamed(x, <<z>> \o name)
  BY Zenon, <1>2
<1>4. w # z  BY <1>3 DEF MixinOf, MixinLoops
<1> DEFINE q == <<z>> \o name
<1> HIDE DEF w
<1>5. of # name /\ q # name
  <2>1. Len(of) = Len(name) + 1 /\ Len(q) = Len(name) + 1 /\ Len(name) \in Nat  BY Begun
  <2> HIDE DEF of, q
  <2> QED  BY <2>1
<1>6. of # q
  <2>1. of[1] = w /\ q[1] = z  BY Begun
  <2> HIDE DEF of, q
  <2> QED  BY <1>4, <2>1
<1>7. /\ c.name = of /\ a.name = name /\ b.name = name /\ x.name = q /\ due \subseteq {c, a, b, x}
      /\ 1 \in DOMAIN a.params /\ a.params[1] = ServerContext
      /\ 1 \in DOMAIN b.params /\ b.params[1] = CallbackContext
  BY Zenon, <1>2, <1>3 DEF Constructs, StartsWith, IsNamed
<1>8. Types(a.params) # Types(b.params)
  <2>1. Tail(ServerContext) # Tail(CallbackContext)
    <3>1. Len(Tail(ServerContext)) = 1 /\ Tail(ServerContext)[1] = "ServerContext*"
          /\ Len(Tail(CallbackContext)) = 1 /\ Tail(CallbackContext)[1] = "CallbackServerContext*"
      BY DEF ServerContext, CallbackContext
    <3> QED  BY <3>1
  <2>2. ASSUME Types(a.params) = Types(b.params)  PROVE Tail(a.params[1]) = Tail(b.params[1])
    BY Zenon, <1>7, <2>2, CalledAlike
  <2> QED  BY Zenon, <1>7, <2>1, <2>2
<1> HIDE DEF of, q
<1> QED  BY <1>5, <1>6, <1>7, <1>8

\* The functions of the mixins are declared once.
LEMMA MixinsOnce ==
  ASSUME IInv, NEW s \in DOMAIN file.services, NEW k \in DOMAIN Methods(s), NEW n \in DOMAIN Methods(s),
         NEW l \in MixinLoops, NEW p \in MixinLoops, NEW f \in DueAt(l, s, k),
         NEW g \in DueAt(p, s, n), Redeclares(f, g)
  PROVE  k = n /\ f = g
<1> DEFINE o == Methods(s)[k].name
           u == Methods(s)[n].name
           x == MixinOf(l)
           y == MixinOf(p)
<1>1. f.of = <<x>> \o o /\ g.of = <<y>> \o u
  <2>1. f.of = <<x>> \o o  BY MixinDue DEF Mixed
  <2>2. g.of = <<y>> \o u  BY MixinDue DEF Mixed
  <2> QED  BY <2>1, <2>2
<1>2. x = y /\ k = n
  <2>1. <<x>> \o Methods(s)[k].name = <<y>> \o Methods(s)[n].name  BY Zenon, <1>1 DEF Redeclares
  <2> HIDE DEF x, y
  <2> QED  BY SMTT(30), <2>1, MixinApart
<1>3. l = p  BY <1>2 DEF MixinOf, MixinLoops
<1>4. g \in DueAt(l, s, k) /\ DueAt(l, s, k) # {}  BY Zenon, <1>2, <1>3
<1>5. MixinTable(DueAt(l, s, k), <<x>> \o o, o, k)  BY Zenon, <1>4, MixinTables
<1>6. o \in Seq(STRING)  BY Zenon, MethodKinds
<1>7. f.name = g.name /\ Types(f.params) = Types(g.params)  BY Zenon DEF Redeclares
<1>8. f = g
  <2> DEFINE D == DueAt(l, s, k)
  <2>1. f \in D /\ g \in D /\ MixinTable(D, <<MixinOf(l)>> \o o, o, k)  BY Zenon, <1>4, <1>5
  <2> HIDE DEF D, o
  <2> QED  BY Zenon, <1>6, <1>7, <2>1, MixinMembersApart
<1> QED  BY <1>2, <1>8

\* What a declaration of the header was stamped from.
HeaderSource(d, x) ==
  /\ SameDecl(d, x)
  /\ \/ d.method = 0 /\ x \in DueFirst("header", d.service) /\ x.of \in FixedClasses
     \/ /\ d.method \in DOMAIN Methods(d.service)
        /\ \/ HeaderMember(x, d.service, d.method) /\ x.of \in FixedClasses
           \/ x.of \notin FixedClasses /\ \E l \in MixinLoops : x \in DueAt(l, d.service, d.method)

\* Every declaration of the header was stamped from something.
LEMMA HeaderSources ==
  ASSUME IInv, TurnsOK, NEW d \in decls, d.unit = "header"
  PROVE  d.service \in DOMAIN file.services /\ \E x : HeaderSource(d, x)
<1> DEFINE s == d.service
           k == d.method
<1>1. s \in DOMAIN file.services /\ "header" \in Units  BY Origin
<1>2. CASE k = 0 /\ \E e \in DueFirst("header", s) : SameDecl(d, e)
  <2>1. PICK e \in DueFirst("header", s) : SameDecl(d, e)  BY <1>2
  <2>2. e.of \in FixedClasses  BY <1>1, FirstClasses DEF FixedClasses
  <2> QED  BY Zenon, <1>1, <1>2, <2>1, <2>2 DEF HeaderSource
<1>3. ASSUME k \in DOMAIN Methods(s), NEW l \in LoopSet("header") \cap AllLoops,
             NEW e \in DueAt(l, s, k), SameDecl(d, e)
      PROVE  HeaderSource(d, e)
  <2>1. CASE e.of \in FixedClasses
    <3>1. HeaderMember(e, s, k)  BY Zenon, <1>1, <1>3, <2>1, HeaderMembers
    <3> QED  BY Zenon, <1>3, <2>1, <3>1 DEF HeaderSource
  <2>2. CASE e.of \notin FixedClasses
    <3>1. d.of \notin FixedClasses  BY Zenon, <1>3, <2>2 DEF SameDecl
    <3>2. l \notin {"Interfaces", "CallbackInterfaces", "RawInterfaces", "Methods", "Callback", "RawMethods",
                    "Data", "Inits", "SourceClient", "MockMethods"}
      BY <1>1, <1>3, <2>2, ClientClasses DEF FixedClasses
    <3>3. l \notin {"Sync", "SourceServer"}  BY <1>1, <1>3, <2>2, ServiceClasses DEF FixedClasses
    <3>4. l \notin SilentLoops  BY <1>3, NothingDue
    <3>5. l \in MixinLoops  BY <3>2, <3>3, <3>4, LoopCases
    <3> QED  BY Zenon, <1>3, <2>2, <3>5 DEF HeaderSource
  <2> QED  BY <2>1, <2>2
<1>4. \/ k = 0 /\ \E e \in DueFirst("header", s) : SameDecl(d, e)
      \/ /\ k \in DOMAIN Methods(s)
         /\ \E l \in LoopSet("header") \cap AllLoops : \E e \in DueAt(l, s, k) : SameDecl(d, e)
  BY Origin
<1> QED  BY Zenon, <1>1, <1>2, <1>3, <1>4

\* The header declares no function twice, unless a method is called like another followed by Raw.
LEMMA HeaderApart ==
  ASSUME IInv, TurnsOK, NEW d \in decls, NEW e \in decls, d.unit = "header", e.unit = "header",
         d.service = e.service, ~RawPair(d.service), Redeclares(d, e)
  PROVE  d = e
<1> DEFINE s == d.service
           k == d.method
           n == e.method
           First(x) == x \in DueFirst("header", s) /\ x.of \in FixedClasses
           Member(x, j) == j \in DOMAIN Methods(s) /\ HeaderMember(x, s, j) /\ x.of \in FixedClasses
           OfMixin(x, j) == /\ j \in DOMAIN Methods(s) /\ x.of \notin FixedClasses
                            /\ \E l \in MixinLoops : x \in DueAt(l, s, j)
<1>1. s \in DOMAIN file.services  BY Zenon, HeaderSources
<1>2. PICK x : HeaderSource(d, x)  BY Zenon, HeaderSources
<1>3. PICK y : HeaderSource(e, y)  BY Zenon, HeaderSources
<1>4. /\ (k = 0 /\ First(x)) \/ Member(x, k) \/ OfMixin(x, k)
      /\ (n = 0 /\ First(y)) \/ Member(y, n) \/ OfMixin(y, n)
  BY Zenon, <1>2, <1>3 DEF HeaderSource
<1>5. Redeclares(x, y) /\ x.of = y.of  BY Zenon, <1>2, <1>3 DEF HeaderSource, SameDecl, Redeclares
<1>6. Redeclares(y, x)  BY Zenon, <1>5 DEF Redeclares
<1>7. ASSUME First(x), First(y), k = 0, n = 0  PROVE k = n /\ x = y
  <2>1. x.name = y.name  BY Zenon, <1>5 DEF Redeclares
  <2>2. x = y  BY Zenon, <1>5, <1>7, <2>1, HeaderFixedKinds
  <2> QED  BY Zenon, <1>7, <2>2
<1>8. ~(First(x) /\ Member(y, n)) /\ ~(First(y) /\ Member(x, k))
  BY Zenon, <1>1, <1>5, <1>6, FixedAndMember
<1>9. ASSUME Member(x, k), Member(y, n)  PROVE k = n /\ x = y
  BY Zenon, <1>1, <1>5, <1>9, MembersOnce
<1>10. ASSUME OfMixin(x, k), OfMixin(y, n)  PROVE k = n /\ x = y
  BY Zenon, <1>1, <1>5, <1>10, MixinsOnce
<1>11. First(x) => ~OfMixin(y, n)  BY Zenon, <1>5
<1>12. First(y) => ~OfMixin(x, k)  BY Zenon, <1>5
<1>13. Member(x, k) => ~OfMixin(y, n)  BY Zenon, <1>5
<1>14. Member(y, n) => ~OfMixin(x, k)  BY Zenon, <1>5
<1> HIDE DEF First, Member, OfMixin
<1>15. k = n /\ x = y
  <2>1. CASE k = 0 /\ First(x)  BY Zenon, <1>4, <1>7, <1>8, <1>11, <2>1
  <2>2. CASE Member(x, k)  BY Zenon, <1>4, <1>8, <1>9, <1>13, <2>2
  <2>3. CASE OfMixin(x, k)  BY Zenon, <1>4, <1>10, <1>12, <1>14, <2>3
  <2> QED  BY Zenon, <1>4, <2>1, <2>2, <2>3
<1>16. SameDecl(d, e)  BY <1>2, <1>3, <1>15 DEF HeaderSource, SameDecl
<1> QED  BY Zenon, <1>15, <1>16, OneRecord

\* No class of the header declares a function twice, unless a method is called like another of
\* its service followed by Raw.
THEOREM RedeclaresTheorem == Spec => []RedeclaresOnlyRaw
<1>1. ASSUME IInv, TurnsOK  PROVE RedeclaresOnlyRaw
  <2>1. SUFFICES ASSUME NEW d \in In("header"), NEW e \in In("header"),
                        d.of = e.of, Alike(d, e), ~RawPair(d.service)
                 PROVE  d = e
    BY Zenon DEF RedeclaresOnlyRaw
  <2>2. d \in decls /\ e \in decls /\ d.unit = "header" /\ e.unit = "header"  BY DEF In
  <2>3. d.service = e.service /\ Redeclares(d, e)  BY Zenon, <2>1 DEF Alike, Redeclares
  <2> QED  BY Zenon, <1>1, <2>1, <2>2, <2>3, HeaderApart
<1> QED  BY <1>1, Invariance, TurnsTheorem, PTL
=============================================================================
