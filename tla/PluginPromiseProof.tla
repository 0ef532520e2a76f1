------------------------- MODULE PluginPromiseProof -------------------------
(* The generator keeps the promise of a plugin: proofs.                    *)
EXTENDS CppGeneratorProof

Mock == "generate_mock_code"

\* Once something is printed the parameter has been read; a mock was asked for.
Settled ==
  /\ unit \in Units => options = <<>> /\ ~file.cc_generic_services
  /\ unit = "mock" => written = {"header", "source"} /\ flags[Mock]

\* What the steps that print have in common.
LEMMA PrintingStays ==
  ASSUME \/ OpenService \/ NextLoop \/ CloseService \/ PrintTypedefMixin \/ PrintTypedefBracket
         \/ PrintHeaderClientMethodInterfaces \/ PrintHeaderClientMethodCallbackInterfaces
         \/ PrintHeaderClientMethod \/ PrintHeaderClientMethodCallback \/ PrintHeaderClientMethodData
         \/ PrintHeaderServerMethodSync \/ PrintHeaderServerMethodAsync
         \/ PrintHeaderServerMethodCallback \/ PrintHeaderServerMethodGeneric
         \/ PrintHeaderServerMethodRaw \/ PrintHeaderServerMethodRawCallback
         \/ PrintHeaderServerMethodStreamedUnary \/ PrintHeaderServerMethodSplitStreaming
         \/ PrintMethodName \/ PrintMethodInit \/ PrintSourceClientMethod
         \/ PrintAddMethod \/ PrintSourceServerMethod \/ PrintMockClientMethods
  PROVE  UNCHANGED <<file, options, flags, unit, written>>
<1>1. ASSUME NEW v, Turn(v)  PROVE UNCHANGED <<file, options, flags, unit, written>>
  BY <1>1 DEF Turn, inputVars, fileVars
<1>2. ASSUME NEW v, NEW printed, Prints(v, printed)  PROVE UNCHANGED <<file, options, flags, unit, written>>
  BY <1>1, <1>2 DEF Prints
<1>3. CASE OpenService \/ NextLoop \/ CloseService \/ PrintTypedefMixin \/ PrintTypedefBracket
  BY <1>1, <1>3 DEF OpenService, NextLoop, CloseService, PrintTypedefMixin, PrintTypedefBracket,
    inputVars, fileVars
<1>4. CASE \/ PrintHeaderClientMethodInterfaces \/ PrintHeaderClientMethodCallbackInterfaces
           \/ PrintHeaderClientMethod \/ PrintHeaderClientMethodCallback \/ PrintHeaderClientMethodData
  BY <1>2, <1>4, Zenon DEF PrintHeaderClientMethodInterfaces, PrintHeaderClientMethodCallbackInterfaces,
     PrintHeaderClientMethod, PrintHeaderClientMethodCallback, PrintHeaderClientMethodData
<1>5. CASE \/ PrintHeaderServerMethodSync \/ PrintHeaderServerMethodAsync
           \/ PrintHeaderServerMethodCallback \/ PrintHeaderServerMethodGeneric
           \/ PrintHeaderServerMethodRaw \/ PrintHeaderServerMethodRawCallback
           \/ PrintHeaderServerMethodStreamedUnary \/ PrintHeaderServerMethodSplitStreaming
  BY <1>2, <1>5, Zenon DEF PrintHeaderServerMethodSync, PrintHeaderServerMethodAsync,
     PrintHeaderServerMethodCallback, PrintHeaderServerMethodGeneric, PrintHeaderServerMethodRaw,
     PrintHeaderServerMethodRawCallback, PrintHeaderServerMethodStreamedUnary,
     PrintHeaderServerMethodSplitStreaming
<1>6. CASE \/ PrintMethodName \/ PrintMethodInit \/ PrintSourceClientMethod
           \/ PrintAddMethod \/ PrintSourceServerMethod \/ PrintMockClientMethods
  BY <1>1, <1>2, <1>6, Zenon DEF PrintMethodName, PrintMethodInit, PrintSourceClientMethod,
     PrintAddMethod, PrintSourceServerMethod, PrintMockClientMethods
<1> QED  BY <1>3, <1>4, <1>5, <1>6

\* Settled is kept.
LEMMA SettledKept == ASSUME IInv, Settled, [Next]_vars PROVE Settled'
<1>1. CASE UNCHANGED <<file, options, flags, unit, written>>  BY <1>1 DEF Settled
<1>2. CASE RefuseGenericServices \/ RejectOption \/ ReadPastTheEnd
  BY <1>2 DEF RefuseGenericServices, RejectOption, ReadPastTheEnd, Settled, Units
<1>3. CASE ParseOption
  BY <1>3 DEF ParseOption, Reading, position, Settled, Units
<1>4. CASE GetHeaderServices
  BY <1>4 DEF GetHeaderServices, Reading, Begin, inputVars, Settled, Units
<1>5. CASE WriteHeader
  BY <1>5 DEF WriteHeader, Finished, Begin, inputVars, Settled, Units
<1>6. CASE WriteSource
  <2>1. unit = "source" /\ written' = {"header", "source"} /\ UNCHANGED <<file, options, flags>>
    BY <1>6 DEF WriteSource, Finished, Write, inputVars, IInv, WrittenOK
  <2>2. unit' = "done" \/ (unit' = "mock" /\ flags[Mock])  BY <1>6 DEF WriteSource, Begin, Mock
  <2> QED  BY <2>1, <2>2 DEF Settled, Units
<1>7. CASE WriteMock  BY <1>7 DEF WriteMock, Settled, Units
<1>8. CASE UNCHANGED vars  BY <1>1, <1>8 DEF vars, inputVars, position, fileVars
<1> QED  BY <1>1, <1>2, <1>3, <1>4, <1>5, <1>6, <1>7, <1>8, PrintingStays DEF Next, Generate, Returned

\* When the parameter has been read, one answer is left.
LEMMA OneLeft ==
  ASSUME TypeOK, options = <<>>, ~file.cc_generic_services, unit \notin {"rejected", "crashed"}
  PROVE  Possible = {Done(flags[Mock])}
<1>1. Done(TRUE) # Done(FALSE)  BY DEF Done, Units
<1>2. \A answer \in {Refused("rejected"), Refused("crashed")} :
        answer # Done(TRUE) /\ answer # Done(FALSE)
  BY DEF Done, Refused
<1>3. Refused("rejected") # Refused("crashed")  BY DEF Refused
<1>4. DOMAIN options = {} /\ MayReach(Len(options) + 1)  BY DEF MayReach
<1>5. MayAsk("true") = {} /\ MayAsk("false") = {}  BY <1>4 DEF MayAsk
<1>6. flags[Mock] \in BOOLEAN  BY DEF TypeOK, Flags, Mock
<1>7. \A answer \in Answers : MayEnd(answer) <=> answer = Done(flags[Mock])
  <2> HIDE DEF Refused, Done
  <2>1. flags[Mock] = flags["generate_mock_code"]  BY DEF Mock
  <2> QED  BY <1>1, <1>2, <1>3, <1>4, <1>5, <1>6, <2>1 DEF MayEnd, Answers
<1>8. Done(flags[Mock]) \in Answers  BY <1>6 DEF Answers
<1> QED  BY <1>7, <1>8 DEF Possible

\* An option that is taken is one that may be, and what it makes of the mock's flag.
LEMMA OptionTaken ==
  ASSUME TypeOK, NEW key, NEW val, SetOption(key, val)
  PROVE  /\ ~Invalid(key, val)
         /\ flags'[Mock] => flags[Mock] \/ (key = Mock /\ val = "true")
         /\ ~flags'[Mock] => ~flags[Mock] /\ (key # Mock \/ val = "false")
<1>1. flags \in [Flags -> BOOLEAN] /\ Mock \in Flags /\ Mock \in Sticky /\ Mock \notin Texts
  BY DEF TypeOK, Flags, Mock, Sticky, Texts
<1>2. \A k \in Flags : k \notin Texts  BY DEF Flags, Texts
<1>3. CASE key \in Flags /\ val = "true" /\ flags' = [flags EXCEPT ![key] = TRUE]
  BY <1>1, <1>3 DEF Invalid
<1>4. CASE key \in Flags /\ val = "false" /\ flags' = [flags EXCEPT ![key] = @ /\ key \in Sticky]
  <2>1. flags'[Mock] = flags[Mock]  BY <1>1, <1>4
  <2> QED  BY <2>1, <1>4 DEF Invalid
<1>5. CASE key \in Texts /\ flags' = flags  BY <1>1, <1>2, <1>5 DEF Invalid
<1> QED  BY <1>3, <1>4, <1>5 DEF SetOption

\* Reading an option opens no possibility.
LEMMA ParseLearns == ASSUME TypeOK, ParseOption PROVE Possible' \subseteq Possible
<1>1. PICK val \in Values(Head(options)) \ {"crash"} : SetOption(Head(options).key, val)
  BY DEF ParseOption
<1>2. /\ unit = "options" /\ ~file.cc_generic_services /\ options # <<>> /\ options' = Tail(options)
      /\ file' = file /\ unit' = unit
  BY DEF ParseOption, Reading, position
<1>3. options \in Seq([key : STRING, val : STRING])  BY DEF TypeOK
<1> DEFINE m == Len(options)
<1>4. /\ m \in Nat /\ m > 0 /\ 1 \in DOMAIN options /\ options[1] = Head(options)
      /\ DOMAIN options = 1 .. m /\ DOMAIN options' = 1 .. m - 1 /\ Len(options') = m - 1
      /\ \A n \in 1 .. m - 1 : options'[n] = options[n + 1]
  BY <1>2, <1>3
<1> HIDE DEF m
<1>5. MayPass(1)  BY <1>1, <1>4, OptionTaken DEF MayPass
<1>6. \A n \in 1 .. m - 1 :
        /\ (MayPass(n)' <=> MayPass(n + 1))
        /\ (MayReject(n)' <=> MayReject(n + 1))
        /\ (MayCrash(n)' <=> MayCrash(n + 1))
  BY <1>4 DEF MayPass, MayReject, MayCrash
<1>7. \A n \in 1 .. m : MayReach(n)' => MayReach(n + 1)
  <2> SUFFICES ASSUME NEW n \in 1 .. m, MayReach(n)', NEW k \in 1 .. (n + 1) - 1  PROVE MayPass(k)
    BY DEF MayReach
  <2>1. CASE k = 1  BY <1>5, <2>1
  <2>2. CASE k # 1
    <3>1. k - 1 \in 1 .. n - 1 /\ k - 1 \in 1 .. m - 1 /\ (k - 1) + 1 = k  BY <1>4, <2>2
    <3>2. MayPass(k - 1)'  BY <3>1 DEF MayReach
    <3> QED  BY <1>6, <3>1, <3>2
  <2> QED  BY <2>1, <2>2
<1>8. /\ flags'[Mock] => flags[Mock] \/ (options[1].key = Mock /\ val = "true")
      /\ ~flags'[Mock] => ~flags[Mock] /\ (options[1].key # Mock \/ val = "false")
  BY <1>1, <1>4, OptionTaken
<1>9. ASSUME NEW n \in DOMAIN options'
      PROVE  n + 1 \in DOMAIN options /\ options'[n] = options[n + 1] /\ n \in 1 .. m - 1 /\ n \in 1 .. m
  BY <1>4
<1>10. SUFFICES ASSUME NEW answer \in Answers, MayEnd(answer)'  PROVE MayEnd(answer)
  BY <1>2 DEF Possible
<1>11. CASE answer = Refused("rejected") /\ \E n \in DOMAIN options' : MayReach(n)' /\ MayReject(n)'
  <2>1. PICK n \in DOMAIN options' : MayReach(n)' /\ MayReject(n)'  BY <1>11
  <2>2. n + 1 \in DOMAIN options /\ MayReach(n + 1) /\ MayReject(n + 1)  BY <1>6, <1>7, <1>9, <2>1
  <2> QED  BY <1>11, <2>2 DEF MayEnd
<1>12. CASE answer = Refused("crashed") /\ \E n \in DOMAIN options' : MayReach(n)' /\ MayCrash(n)'
  <2>1. PICK n \in DOMAIN options' : MayReach(n)' /\ MayCrash(n)'  BY <1>12
  <2>2. n + 1 \in DOMAIN options /\ MayReach(n + 1) /\ MayCrash(n + 1)  BY <1>6, <1>7, <1>9, <2>1
  <2> QED  BY <1>12, <2>2 DEF MayEnd
<1>13. MayReach(Len(options) + 1)' => MayReach(Len(options) + 1)
  <2> SUFFICES ASSUME MayReach(Len(options) + 1)', NEW k \in 1 .. m  PROVE MayPass(k)
    BY <1>4 DEF MayReach, m
  <2>1. CASE k = 1  BY <1>5, <2>1
  <2>2. CASE k # 1
    <3>1. k - 1 \in 1 .. (Len(options') + 1) - 1 /\ k - 1 \in 1 .. m - 1 /\ (k - 1) + 1 = k
      BY <1>4, <2>2
    <3>2. MayPass(k - 1)'  BY <3>1 DEF MayReach
    <3> QED  BY <1>6, <3>1, <3>2
  <2> QED  BY <2>1, <2>2
<1>14. val \in Values(options[1])  BY <1>1, <1>4
<1>15. CASE /\ answer = Done(TRUE) /\ MayReach(Len(options) + 1)'
            /\ \/ flags'[Mock]
               \/ \E n \in MayAsk("true")' : options'[n].key = Mock
  <2>1. flags[Mock] \/ \E n \in MayAsk("true") : options[n].key = Mock
    <3>1. CASE flags'[Mock]  BY <1>4, <1>8, <1>14, <3>1 DEF MayAsk
    <3>2. CASE \E n \in MayAsk("true")' : options'[n].key = Mock
      <4>1. PICK n \in DOMAIN options' : options'[n].key = Mock /\ "true" \in Values(options'[n])
        BY <3>2 DEF MayAsk, Mock
      <4> QED  BY <1>9, <4>1 DEF MayAsk
    <3> QED  BY <1>15, <3>1, <3>2
  <2> QED  BY <1>13, <1>15, <2>1 DEF MayEnd, Mock
<1>16. CASE /\ answer = Done(FALSE) /\ MayReach(Len(options) + 1)'
            /\ ~flags'[Mock] /\ MayAsk("false")' = DOMAIN options'
  <2>1. ASSUME NEW k \in DOMAIN options  PROVE options[k].key # Mock \/ "false" \in Values(options[k])
    <3>1. CASE k = 1  BY <1>8, <1>14, <1>16, <3>1
    <3>2. CASE k # 1
      <4>1. k - 1 \in DOMAIN options' /\ options'[k - 1] = options[k]  BY <1>4, <3>2
      <4> QED  BY <1>16, <4>1 DEF MayAsk, Mock
    <3> QED  BY <3>1, <3>2
  <2>2. MayAsk("false") = DOMAIN options  BY <2>1 DEF MayAsk, Mock
  <2> QED  BY <1>8, <1>13, <1>16, <2>2 DEF MayEnd, Mock
<1>17. \/ answer = Refused("rejected") /\ \E n \in DOMAIN options' : MayReach(n)' /\ MayReject(n)'
       \/ answer = Refused("crashed") /\ \E n \in DOMAIN options' : MayReach(n)' /\ MayCrash(n)'
       \/ /\ answer = Done(TRUE) /\ MayReach(Len(options) + 1)'
          /\ \/ flags'[Mock]
             \/ \E n \in MayAsk("true")' : options'[n].key = Mock
       \/ /\ answer = Done(FALSE) /\ MayReach(Len(options) + 1)'
          /\ ~flags'[Mock] /\ MayAsk("false")' = DOMAIN options'
  BY <1>10, Zenon DEF MayEnd, Mock
<1> QED  BY <1>11, <1>12, <1>15, <1>16, <1>17

\* An option that is refused, or that crashes the plugin, was one that may be.
LEMMA RefusalWasPossible ==
  ASSUME TypeOK, RejectOption \/ ReadPastTheEnd
  PROVE  Refused(unit') \in Possible
<1>1. /\ unit = "options" /\ ~file.cc_generic_services /\ options # <<>>
      /\ unit' \in {"rejected", "crashed"}
  BY DEF RejectOption, ReadPastTheEnd, Reading
<1>2. 1 \in DOMAIN options /\ options[1] = Head(options) /\ MayReach(1)
  <2>1. options \in Seq([key : STRING, val : STRING])  BY DEF TypeOK
  <2> QED  BY <1>1, <2>1 DEF MayReach
<1>3. (unit' = "rejected" /\ MayReject(1)) \/ (unit' = "crashed" /\ MayCrash(1))
  BY <1>2 DEF RejectOption, ReadPastTheEnd, MayReject, MayCrash
<1>4. MayEnd(Refused(unit'))  BY <1>2, <1>3 DEF MayEnd
<1>5. Refused(unit') \in Answers  BY <1>1 DEF Answers
<1> QED  BY <1>1, <1>4, <1>5 DEF Possible

\* A refusal is one of the promise's.
LEMMA RefusesOK ==
  ASSUME IInv, unit = "options", unit' \in {"rejected", "crashed"}, written' = written,
         Refused(unit') \in Possible
  PROVE  Contract!Refuse(Refused(unit'))
<1>1. written = {}  BY DEF IInv, WrittenOK
<1>2. Possible' = {Refused(unit')}  BY DEF Possible
<1>3. Refused(unit').verdict # "done"  BY DEF Refused
<1> QED  BY <1>1, <1>2, <1>3 DEF Contract!Refuse

\* An output is opened when it is owed.
LEMMA OpensOK ==
  ASSUME IInv, Settled, unit \in Units, UNCHANGED <<file, options, flags>>,
         unit' \in Units \cup {"done"}, NEW f \in Done(flags[Mock]).files \ written,
         written' = written \cup {f}, unit' = "done" <=> written' = Done(flags[Mock]).files
  PROVE  Contract!Open(Done(flags[Mock]), f) /\ Done(flags[Mock]) \in Possible
<1> DEFINE answer == Done(flags[Mock])
<1>1. TypeOK /\ options = <<>> /\ ~file.cc_generic_services /\ unit \notin {"rejected", "crashed", "done"}
  BY DEF IInv, Settled, Units
<1>2. Possible = {answer}  BY <1>1, OneLeft
<1>3. Possible' = Possible  BY <1>1 DEF Possible, MayEnd, MayReach, MayPass, MayReject, MayCrash, MayAsk, Units
<1>4. answer.verdict = "done"  BY DEF Done
<1>5. (unit' \in {"done", "rejected", "crashed"}) = (written' = answer.files)  BY DEF Units
<1> HIDE DEF answer
<1> QED  BY <1>1, <1>2, <1>3, <1>4, <1>5 DEF Contract!Open, answer

\* Every step is one of the promise's, or none.
LEMMA StepsKept ==
  ASSUME IInv, Settled, [Next]_vars
  PROVE  Contract!PromiseNext \/ UNCHANGED Contract!vars
<1>1. CASE UNCHANGED <<file, options, flags, unit, written>>
  <2>1. Possible' = Possible  BY <1>1 DEF Possible, MayEnd, MayReach, MayPass, MayReject, MayCrash, MayAsk
  <2> QED  BY <1>1, <2>1 DEF Contract!vars
<1>2. CASE RefuseGenericServices
  <2>1. unit = "options" /\ unit' = "rejected" /\ written' = written /\ Possible = {Refused("rejected")}
    BY <1>2 DEF RefuseGenericServices, fileVars, Possible
  <2> QED  BY <2>1, RefusesOK DEF Contract!PromiseNext
<1>3. CASE RejectOption \/ ReadPastTheEnd
  <2>1. unit = "options" /\ unit' \in {"rejected", "crashed"} /\ written' = written
    BY <1>3 DEF RejectOption, ReadPastTheEnd, Reading, fileVars
  <2> QED  BY <1>3, <2>1, RefusalWasPossible, RefusesOK DEF Contract!PromiseNext, IInv
<1>4. CASE ParseOption
  <2>1. Possible' \subseteq Possible  BY <1>4, ParseLearns DEF IInv
  <2>2. unit = "options" /\ unit' = unit /\ written' = written
    BY <1>4 DEF ParseOption, Reading, position, fileVars
  <2>3. written = {}  BY <2>2 DEF IInv, WrittenOK
  <2> QED  BY <2>1, <2>2, <2>3 DEF Contract!PromiseNext, Contract!Learn
<1>5. CASE GetHeaderServices
  <2>1. /\ unit = "options" /\ unit' = "header" /\ written' = written
        /\ UNCHANGED <<file, options, flags>>
    BY <1>5 DEF GetHeaderServices, Reading, Begin, inputVars, fileVars
  <2>2. Possible' = Possible
    BY <2>1 DEF Possible, MayEnd, MayReach, MayPass, MayReject, MayCrash, MayAsk
  <2> QED  BY <2>1, <2>2 DEF Contract!vars
<1>6. flags[Mock] \in BOOLEAN  BY DEF IInv, TypeOK, Flags, Mock
<1>7. Done(TRUE).files = Units /\ Done(FALSE).files = {"header", "source"}  BY DEF Done
<1>8. CASE WriteHeader
  <2>1. /\ unit = "header" /\ unit' = "source" /\ written = {} /\ written' = written \cup {"header"}
        /\ UNCHANGED <<file, options, flags>>
    BY <1>8 DEF WriteHeader, Finished, Write, Begin, inputVars, IInv, WrittenOK
  <2>2. "header" \in Done(flags[Mock]).files /\ "source" \in Done(flags[Mock]).files  BY <1>6, <1>7 DEF Units
  <2>3. written' # Done(flags[Mock]).files  BY <2>1, <2>2
  <2>4. Contract!Open(Done(flags[Mock]), "header") /\ Done(flags[Mock]) \in Possible
    BY <2>1, <2>2, <2>3, OpensOK DEF Units
  <2> QED  BY <2>2, <2>4 DEF Contract!PromiseNext
<1>9. CASE WriteSource
  <2>1. /\ unit = "source" /\ written = {"header"} /\ written' = written \cup {"source"}
        /\ UNCHANGED <<file, options, flags>>
    BY <1>9 DEF WriteSource, Finished, Write, inputVars, IInv, WrittenOK
  <2>2. (flags[Mock] /\ unit' = "mock") \/ (~flags[Mock] /\ unit' = "done")
    BY <1>9 DEF WriteSource, Begin, Mock
  <2>3. "source" \in Done(flags[Mock]).files  BY <1>6, <1>7 DEF Units
  <2>4. unit' = "done" <=> written' = Done(flags[Mock]).files  BY <1>6, <1>7, <2>1, <2>2 DEF Units
  <2>5. Contract!Open(Done(flags[Mock]), "source") /\ Done(flags[Mock]) \in Possible
    BY <2>1, <2>2, <2>3, <2>4, OpensOK DEF Units
  <2> QED  BY <2>3, <2>5 DEF Contract!PromiseNext
<1>10. CASE WriteMock
  <2>1. /\ unit = "mock" /\ unit' = "done" /\ written = {"header", "source"} /\ flags[Mock]
        /\ written' = written \cup {"mock"} /\ UNCHANGED <<file, options, flags>>
    BY <1>10 DEF WriteMock, Finished, Write, inputVars, Settled
  <2>2. Done(flags[Mock]).files = Units  BY <1>6, <1>7, <2>1
  <2>3. Contract!Open(Done(flags[Mock]), "mock") /\ Done(flags[Mock]) \in Possible
    BY <2>1, <2>2, OpensOK DEF Units
  <2> QED  BY <2>2, <2>3 DEF Contract!PromiseNext, Units
<1>11. CASE UNCHANGED vars  BY <1>1, <1>11 DEF vars, inputVars, position, fileVars
<1> QED
  BY <1>1, <1>2, <1>3, <1>4, <1>5, <1>8, <1>9, <1>10, <1>11, PrintingStays DEF Next, Generate, Returned

\* For any .proto and any options: what is written is settled by the whole parameter before
\* the first file is opened, and then it is all of it (CppGrpcGenerator::Generate).
THEOREM PromiseKept == Spec => ImplementsPromise
<1>1. Init => Settled
  <2>1. Init => unit = "options"  BY Zenon DEF Init
  <2>2. unit = "options" => Settled  BY DEF Settled, Units
  <2> QED  BY <2>1, <2>2
<1>2. Init => Contract!PromiseInit
  <2>1. Init => unit = "options" /\ written = {}  BY Zenon DEF Init
  <2>2. unit = "options" => Possible \subseteq Answers  BY DEF Possible, Answers
  <2> QED  BY <2>1, <2>2 DEF Contract!PromiseInit
<1>3. Spec => [](IInv /\ Settled)
  <2>1. IInv /\ Settled /\ [Next]_vars => Settled'  BY SettledKept
  <2> QED  BY <1>1, <2>1, Invariance, PTL DEF Spec
<1>4. IInv /\ Settled /\ [Next]_vars => [Contract!PromiseNext]_(Contract!vars)  BY StepsKept
<1> QED  BY <1>2, <1>3, <1>4, PTL DEF Spec, ImplementsPromise, Contract!PromiseSafe
=============================================================================
