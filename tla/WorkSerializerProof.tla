------------------------ MODULE WorkSerializerProof ------------------------
(* Theorems about WorkSerializer, for any clients, callbacks and threads:   *)
(* its invariant, that a deleted object is never used, and that every step  *)
(* is one of the serial executor's, or none of them.                        *)
EXTENDS WorkSerializer, SequenceTheorems, TLAPS

----------------------------------------------------------------------------
(* Reversed lists *)

LEMMA ReverseProperties ==
  ASSUME NEW S, NEW s \in Seq(S)
  PROVE  /\ Reverse(s) \in Seq(S) /\ Len(Reverse(s)) = Len(s)
         /\ \A i \in 1..Len(s) : Reverse(s)[i] = s[Len(s) - i + 1]
<1>1. Len(s) \in Nat /\ \A i \in 1..Len(s) : s[i] \in S
  BY LenProperties
<1>2. \A i \in 1..Len(s) : s[(Len(s) - i) + 1] \in S
  BY <1>1
<1>3. Reverse(s) \in [1..Len(s) -> S]
  BY <1>2 DEF Reverse
<1>4. Reverse(s) \in Seq(S) /\ Len(Reverse(s)) = Len(s)
  BY <1>1, <1>3
<1> QED BY <1>1, <1>4 DEF Reverse

LEMMA FrontProperties ==
  ASSUME NEW S, NEW s \in Seq(S), s # <<>>
  PROVE  /\ Len(s) \in Nat /\ Len(s) >= 1
         /\ Front(s) \in Seq(S) /\ Len(Front(s)) = Len(s) - 1
         /\ \A i \in 1..(Len(s) - 1) : Front(s)[i] = s[i]
         /\ Last(s) \in S
<1>1. Len(s) \in Nat /\ Len(s) >= 1 /\ \A i \in 1..Len(s) : s[i] \in S
  BY LenProperties, EmptySeq
<1>2. Last(s) \in S
  BY <1>1 DEF Last
<1>3. \A i \in 1..(Len(s) - 1) : s[i] \in S
  BY <1>1
<1>4. /\ Front(s) \in Seq(S) /\ Len(Front(s)) = Len(s) - 1
      /\ \A i \in 1..(Len(s) - 1) : Front(s)[i] = s[i]
  <2>1. Len(s) - 1 \in Int /\ 1 \in Int
    BY <1>1
  <2>2. /\ SubSeq(s, 1, Len(s) - 1) \in Seq(S)
        /\ Len(SubSeq(s, 1, Len(s) - 1)) =
             IF 1 <= Len(s) - 1 THEN Len(s) - 1 - 1 + 1 ELSE 0
        /\ \A i \in 1..(Len(s) - 1 - 1 + 1) : SubSeq(s, 1, Len(s) - 1)[i] = s[1 + i - 1]
    BY <2>1, <1>3, SubSeqProperties
  <2>3. Len(s) - 1 - 1 + 1 = Len(s) - 1 /\ \A i \in 1..(Len(s) - 1) : 1 + i - 1 = i
    BY <1>1
  <2>4. Len(Front(s)) = Len(s) - 1
    BY <1>1, <2>2, <2>3 DEF Front
  <2>5. \A i \in 1..(Len(s) - 1) : Front(s)[i] = s[i]
    BY <2>2, <2>3 DEF Front
  <2> QED BY <2>2, <2>4, <2>5 DEF Front
<1> QED BY <1>1, <1>2, <1>4

\* A reversed list starts with the last element.
LEMMA ReverseHead ==
  ASSUME NEW S, NEW s \in Seq(S), s # <<>>
  PROVE  /\ Reverse(s) # <<>> /\ Head(Reverse(s)) = Last(s)
         /\ Tail(Reverse(s)) = Reverse(Front(s))
<1>1. /\ Reverse(s) \in Seq(S) /\ Len(Reverse(s)) = Len(s)
      /\ \A i \in 1..Len(s) : Reverse(s)[i] = s[Len(s) - i + 1]
  BY ReverseProperties
<1>2. /\ Len(s) \in Nat /\ Len(s) >= 1 /\ Front(s) \in Seq(S) /\ Len(Front(s)) = Len(s) - 1
      /\ \A i \in 1..(Len(s) - 1) : Front(s)[i] = s[i]
  BY FrontProperties
<1>3. /\ Reverse(Front(s)) \in Seq(S) /\ Len(Reverse(Front(s))) = Len(s) - 1
      /\ \A i \in 1..(Len(s) - 1) : Reverse(Front(s))[i] = Front(s)[Len(s) - 1 - i + 1]
  BY <1>2, ReverseProperties
<1>4. Reverse(s) # <<>>
  BY <1>1, <1>2
<1>5. /\ Tail(Reverse(s)) \in Seq(S) /\ Len(Tail(Reverse(s))) = Len(s) - 1
      /\ \A i \in 1..(Len(s) - 1) : Tail(Reverse(s))[i] = Reverse(s)[i + 1]
  BY <1>1, <1>4, HeadTailProperties
<1>6. \A i \in 1..(Len(s) - 1) : Tail(Reverse(s))[i] = Reverse(Front(s))[i]
  <2> TAKE i \in 1..(Len(s) - 1)
  <2>1. /\ i + 1 \in 1..Len(s) /\ Len(s) - (i + 1) + 1 = Len(s) - i
        /\ Len(s) - 1 - i + 1 = Len(s) - i /\ Len(s) - i \in 1..(Len(s) - 1)
    BY <1>2
  <2>2. Tail(Reverse(s))[i] = s[Len(s) - (i + 1) + 1]
    BY <1>1, <1>5, <2>1
  <2>3. Reverse(Front(s))[i] = Front(s)[Len(s) - i]
    BY <1>3, <2>1
  <2> QED BY <1>2, <2>1, <2>2, <2>3
<1>7. Tail(Reverse(s)) = Reverse(Front(s))
  BY <1>3, <1>5, <1>6, SeqEqual
<1>8. Head(Reverse(s)) = Last(s)
  BY <1>1, <1>2, <1>4 DEF Last
<1> QED BY <1>4, <1>7, <1>8

LEMMA ReverseTwice ==
  ASSUME NEW S, NEW s \in Seq(S)
  PROVE  Reverse(Reverse(s)) = s
<1> DEFINE r == Reverse(s)
<1>1. r \in Seq(S) /\ Len(r) = Len(s) /\ \A i \in 1..Len(s) : r[i] = s[Len(s) - i + 1]
  BY ReverseProperties
<1>2. /\ Reverse(r) \in Seq(S) /\ Len(Reverse(r)) = Len(s)
      /\ \A i \in 1..Len(s) : Reverse(r)[i] = r[Len(s) - i + 1]
  <2> HIDE DEF r
  <2> QED BY <1>1, ReverseProperties
<1>3. Len(s) \in Nat
  BY LenProperties
<1> HIDE DEF r
<1>4. \A i \in 1..Len(s) : Reverse(r)[i] = s[i]
  <2> TAKE i \in 1..Len(s)
  <2> DEFINE j == Len(s) - i + 1
  <2>1. j \in 1..Len(s) /\ Len(s) - j + 1 = i
    BY <1>3
  <2>2. Reverse(r)[i] = r[j]
    BY <1>2
  <2> HIDE DEF j
  <2>3. r[j] = s[Len(s) - j + 1]
    BY <1>1, <2>1
  <2> QED BY <2>1, <2>2, <2>3
<1>5. Reverse(r) = s
  BY <1>2, <1>4, SeqEqual
<1> QED BY <1>5 DEF r

LEMMA ReverseShort ==
  /\ Reverse(<<>>) = <<>>
  /\ \A x : Reverse(<<x>>) = <<x>>
BY DEF Reverse

\* Both orders hold the same callbacks.
LEMMA ReverseElements ==
  ASSUME NEW S, NEW s \in Seq(S)
  PROVE  ToSet(Reverse(s)) = ToSet(s) /\ (IsInjective(s) => IsInjective(Reverse(s)))
<1>1. /\ Reverse(s) \in Seq(S) /\ Len(Reverse(s)) = Len(s) /\ Len(s) \in Nat
      /\ DOMAIN s = 1..Len(s) /\ DOMAIN Reverse(s) = 1..Len(s)
      /\ \A i \in 1..Len(s) : Reverse(s)[i] = s[Len(s) - i + 1]
  BY ReverseProperties, LenProperties
<1>2. \A i \in 1..Len(s) : Len(s) - i + 1 \in 1..Len(s) /\ Len(s) - (Len(s) - i + 1) + 1 = i
  BY <1>1
<1> DEFINE r == Reverse(s)  Mirror(i) == Len(s) - i + 1
<1>a. /\ \A i \in 1..Len(s) : Mirror(i) \in 1..Len(s) /\ Mirror(Mirror(i)) = i /\ r[i] = s[Mirror(i)]
      /\ DOMAIN r = 1..Len(s)
  BY <1>1, <1>2
<1> HIDE DEF r, Mirror
<1>3. ToSet(r) = ToSet(s)
  <2>1. \A i \in 1..Len(s) : r[i] \in ToSet(s)
    BY <1>1, <1>a DEF ToSet
  <2>2. \A i \in 1..Len(s) : s[i] = r[Mirror(i)]
    BY <1>a
  <2>3. \A i \in 1..Len(s) : s[i] \in ToSet(r)
    BY <1>a, <2>2 DEF ToSet
  <2> QED BY <1>1, <1>a, <2>1, <2>3 DEF ToSet
<1>4. IsInjective(s) => IsInjective(r)
  <2> SUFFICES ASSUME IsInjective(s), NEW i \in 1..Len(s), NEW j \in 1..Len(s), r[i] = r[j]
               PROVE  i = j
    BY <1>a DEF IsInjective
  <2>1. Mirror(i) = Mirror(j)
    BY <1>1, <1>a DEF IsInjective
  <2> QED BY <1>a, <2>1
<1> QED BY <1>3, <1>4 DEF r

\* Taking the last callback away takes it away from everywhere.
LEMMA FrontElements ==
  ASSUME NEW S, NEW s \in Seq(S), s # <<>>, IsInjective(s)
  PROVE  /\ IsInjective(Front(s)) /\ ToSet(Front(s)) = ToSet(s) \ {Last(s)}
         /\ Last(s) \in ToSet(s)
<1>1. /\ Len(s) \in Nat /\ Len(s) >= 1 /\ DOMAIN s = 1..Len(s)
      /\ DOMAIN Front(s) = 1..(Len(s) - 1)
      /\ \A i \in 1..(Len(s) - 1) : Front(s)[i] = s[i]
  BY FrontProperties, LenProperties
<1>2. IsInjective(Front(s))
  BY <1>1 DEF IsInjective
<1>3. \A i \in 1..(Len(s) - 1) : s[i] # s[Len(s)]
  BY <1>1 DEF IsInjective
<1>4. ToSet(Front(s)) = ToSet(s) \ {Last(s)}
  BY <1>1, <1>3 DEF ToSet, Last
<1>5. Last(s) \in ToSet(s)
  BY <1>1 DEF ToSet, Last
<1> QED BY <1>2, <1>4, <1>5

LEMMA AppendElements ==
  ASSUME NEW S, NEW s \in Seq(S), NEW x \in S
  PROVE  /\ ToSet(Append(s, x)) = ToSet(s) \cup {x}
         /\ IsInjective(s) /\ x \notin ToSet(s) => IsInjective(Append(s, x))
         /\ Last(Append(s, x)) = x
<1>1. /\ Len(s) \in Nat /\ DOMAIN s = 1..Len(s) /\ DOMAIN Append(s, x) = 1..(Len(s) + 1)
      /\ \A i \in 1..Len(s) : Append(s, x)[i] = s[i]
      /\ Append(s, x)[Len(s) + 1] = x /\ Len(Append(s, x)) = Len(s) + 1
  BY LenProperties, AppendProperties
<1>2. ToSet(Append(s, x)) = ToSet(s) \cup {x}
  BY <1>1 DEF ToSet
<1>3. IsInjective(s) /\ x \notin ToSet(s) => IsInjective(Append(s, x))
  BY <1>1 DEF ToSet, IsInjective
<1>4. Last(Append(s, x)) = x
  BY <1>1 DEF Last
<1> QED BY <1>2, <1>3, <1>4

----------------------------------------------------------------------------
(* The invariant *)

LEMMA InitIInv == Init => IInv
<1> HAVE Init
<1>1. TypeOK
  BY EmptySeq DEF Init, TypeOK
<1>2. OneRound /\ BatchOK
  BY DEF Init, OneRound, BatchOK, InLoop
<1>3. Unique
  BY DEF Init, Unique, IsInjective, ToSet
<1>4. LifeOK /\ NeverBroken
  BY WorkSerializerAssumption DEF Init, LifeOK, NeverBroken
<1> QED BY <1>1, <1>2, <1>3, <1>4 DEF IInv

\* What a thread in the work loop may rely on: it is the only one, nothing is
\* waiting in EventEngine, and the object lives.
LEMMA InRound ==
  ASSUME IInv, NEW t \in Thread, pc[t] # "idle"
  PROVE  /\ running /\ engine = 0 /\ alive /\ deleting = {}
         /\ \A s \in Thread \ {t} : pc[s] = "idle"
         /\ (processing = <<>>) <=> pc[t] = "refill"
<1>1. running
  BY DEF IInv, TypeOK, OneRound, InLoop
<1>2. engine = 0 /\ InLoop = {t}
  BY <1>1 DEF IInv, OneRound, InLoop
<1>3. \A s \in Thread \ {t} : pc[s] = "idle"
  BY <1>2 DEF InLoop
<1>4. alive /\ deleting = {}
  BY <1>1 DEF IInv, LifeOK
<1>5. (processing = <<>>) <=> pc[t] = "refill"
  BY <1>1, <1>3 DEF IInv, BatchOK
<1> QED BY <1>1, <1>2, <1>3, <1>4, <1>5

\* A round goes on in the same thread.
LEMMA NextPlace ==
  ASSUME IInv, NEW t \in Thread, pc[t] # "idle", NEW to \in Loop,
         pc' = [pc EXCEPT ![t] = to], UNCHANGED <<running, engine>>
  PROVE  /\ pc' \in [Thread -> {"idle"} \cup Loop] /\ pc'[t] = to
         /\ \A s \in Thread \ {t} : pc'[s] = "idle"
         /\ OneRound'
<1>1. running /\ engine = 0 /\ \A s \in Thread \ {t} : pc[s] = "idle"
  BY InRound
<1>2. pc' \in [Thread -> {"idle"} \cup Loop] /\ pc'[t] = to /\ to # "idle"
  BY DEF IInv, TypeOK, Loop
<1>3. \A s \in Thread \ {t} : pc'[s] = "idle"
  BY <1>1 DEF IInv, TypeOK
<1>4. InLoop' = {t}
  BY <1>2, <1>3 DEF InLoop
<1>5. OneRound'
  BY <1>1, <1>4 DEF OneRound
<1> QED BY <1>2, <1>3, <1>5

LEMMA StartStep ==
  ASSUME IInv, NEW t \in Thread, Start(t)
  PROVE  IInv' /\ processing # <<>> /\ alive /\ \A s \in Thread : pc[s] = "idle"
<1>1. /\ engine > 0 /\ engine' = engine - 1 /\ pc[t] = "idle" /\ pc' = [pc EXCEPT ![t] = "call"]
      /\ broken' = (broken \/ ~alive \/ processing = <<>>)
      /\ UNCHANGED <<processing, incoming, running, orphaned, alive, holders, deleting, finished>>
  BY DEF Start, At
<1>2. running /\ engine = 1 /\ InLoop = {}
  BY <1>1 DEF IInv, TypeOK, OneRound
<1>3. \A s \in Thread : pc[s] = "idle"
  BY <1>2 DEF InLoop
<1>4. processing # <<>> /\ alive
  BY <1>2, <1>3 DEF IInv, BatchOK, LifeOK
<1>5. pc' \in [Thread -> {"idle"} \cup Loop] /\ \A s \in Thread : pc'[s] = IF s = t THEN "call" ELSE "idle"
  BY <1>1, <1>3 DEF IInv, TypeOK, Loop
<1>6. TypeOK'
  BY <1>1, <1>2, <1>4, <1>5 DEF IInv, TypeOK
<1>7. OneRound'
  <2>1. InLoop' = {t} /\ engine' = 0 /\ running'
    BY <1>1, <1>2, <1>5 DEF InLoop
  <2> QED BY <2>1 DEF OneRound
<1>8. BatchOK'
  BY <1>1, <1>4, <1>5 DEF BatchOK
<1>9. Unique' /\ LifeOK' /\ NeverBroken'
  BY <1>1, <1>4 DEF IInv, Unique, LifeOK, NeverBroken
<1> QED BY <1>3, <1>4, <1>6, <1>7, <1>8, <1>9 DEF IInv

LEMMA ReturnStep ==
  ASSUME IInv, NEW t \in Thread, Return(t)
  PROVE  IInv'
<1>1. /\ pc[t] = "call" /\ pc' = [pc EXCEPT ![t] = "destroy"]
      /\ finished' = Append(finished, Last(processing)) /\ broken' = (broken \/ ~alive)
      /\ UNCHANGED <<processing, incoming, running, orphaned, alive, engine, holders, deleting>>
  BY DEF Return, At, Touch
<1>2. running /\ alive /\ processing # <<>>
  BY <1>1, InRound
<1>3. /\ pc' \in [Thread -> {"idle"} \cup Loop] /\ pc'[t] = "destroy"
      /\ \A s \in Thread \ {t} : pc'[s] = "idle"
      /\ OneRound'
  BY <1>1, NextPlace DEF Loop
<1>4. processing \in Seq(Callback) /\ finished \in Seq(Callback)
  BY DEF IInv, TypeOK
<1>5. Last(processing) \in Callback
  BY <1>2, <1>4, FrontProperties
<1>6. finished' \in Seq(Callback) /\ finished' # <<>> /\ Last(finished') = Last(processing)
  BY <1>1, <1>4, <1>5, AppendProperties, AppendElements
<1>7. TypeOK'
  BY <1>1, <1>2, <1>3, <1>6 DEF IInv, TypeOK
<1>8. BatchOK'
  BY <1>1, <1>2, <1>3, <1>6 DEF BatchOK
<1>9. Unique' /\ LifeOK' /\ NeverBroken'
  BY <1>1, <1>2 DEF IInv, Unique, LifeOK, NeverBroken
<1> QED BY <1>3, <1>7, <1>8, <1>9 DEF IInv

\* Letting go inside the work loop only ever marks the object.
LEMMA LetGoInRound ==
  ASSUME IInv, NEW t \in Thread, pc[t] # "idle", NEW h \in holders, LetGo(h, t)
  PROVE  /\ holders' = holders \ {h} /\ UNCHANGED <<deleting, broken>>
         /\ orphaned' \in BOOLEAN /\ (orphaned' <=> (orphaned \/ holders = {h}))
<1>1. running /\ alive /\ broken = FALSE /\ orphaned = FALSE
  BY InRound DEF IInv, TypeOK, NeverBroken, LifeOK
<1>2. CASE holders = {h}
  <2>1. LetGo(h, t) => holders' = holders \ {h} /\ orphaned' = TRUE /\ UNCHANGED deleting
                       /\ broken' = (broken \/ ~alive)
    BY <1>1, <1>2 DEF LetGo, Orphan, Touch
  <2> QED BY <1>1, <1>2, <2>1
<1>3. CASE holders # {h}
  BY <1>1, <1>3 DEF LetGo
<1> QED BY <1>2, <1>3

LEMMA LifeInRound ==
  ASSUME IInv, NEW t \in Thread, pc[t] # "idle",
         holders' \subseteq holders, UNCHANGED <<running, alive, deleting>>,
         orphaned' \in BOOLEAN, orphaned' <=> (orphaned \/ holders' = {})
  PROVE  LifeOK'
<1>1. running /\ alive /\ deleting = {}
  BY InRound
<1> QED BY <1>1 DEF IInv, LifeOK

LEMMA DropInsideStep ==
  ASSUME IInv, NEW t \in Thread, DropInside(t)
  PROVE  IInv' /\ UNCHANGED broken
<1>1. /\ pc[t] = "call" /\ Last(processing) \in holders /\ LetGo(Last(processing), t)
      /\ UNCHANGED <<processing, incoming, running, alive, engine, pc, finished>>
  BY DEF DropInside, InCallback
<1>2. /\ holders' = holders \ {Last(processing)} /\ UNCHANGED <<deleting, broken>>
      /\ orphaned' \in BOOLEAN /\ (orphaned' <=> (orphaned \/ holders = {Last(processing)}))
  BY <1>1, LetGoInRound
<1>3. LifeOK'
  <2>1. orphaned' <=> (orphaned \/ holders' = {})
    BY <1>1, <1>2
  <2> QED BY <1>1, <1>2, <2>1, LifeInRound
<1>4. TypeOK'
  BY <1>1, <1>2 DEF IInv, TypeOK
<1>5. OneRound' /\ BatchOK' /\ Unique' /\ NeverBroken'
  BY <1>1, <1>2 DEF IInv, OneRound, InLoop, BatchOK, Unique, NeverBroken
<1> QED BY <1>2, <1>3, <1>4, <1>5 DEF IInv

LEMMA DestroyStep ==
  ASSUME IInv, NEW t \in Thread, Destroy(t)
  PROVE  /\ IInv' /\ UNCHANGED <<processing, incoming, finished, alive>>
         /\ \/ UNCHANGED holders
            \/ holders' = holders \ {Last(processing)} /\ Last(processing) \in holders
<1>1. /\ pc[t] = "destroy" /\ pc' = [pc EXCEPT ![t] = "pop"]
      /\ UNCHANGED <<processing, incoming, running, alive, engine, finished>>
  BY DEF Destroy, At
<1>2. /\ UNCHANGED <<deleting, broken>> /\ orphaned' \in BOOLEAN
      /\ orphaned' <=> (orphaned \/ holders' = {})
      /\ \/ UNCHANGED holders
         \/ holders' = holders \ {Last(processing)} /\ Last(processing) \in holders
  <2>1. CASE Last(processing) \in holders
    <3>1. LetGo(Last(processing), t)
      BY <2>1 DEF Destroy
    <3>2. /\ holders' = holders \ {Last(processing)} /\ UNCHANGED <<deleting, broken>>
          /\ orphaned' \in BOOLEAN
          /\ orphaned' <=> (orphaned \/ holders = {Last(processing)})
      BY <1>1, <2>1, <3>1, LetGoInRound
    <3>3. holders = {Last(processing)} <=> holders' = {}
      BY <2>1, <3>2
    <3> QED BY <2>1, <3>2, <3>3
  <2>2. CASE Last(processing) \notin holders
    <3>1. holders = {} => orphaned
      BY <1>1, InRound DEF IInv, LifeOK
    <3> QED BY <2>2, <3>1 DEF Destroy, IInv, TypeOK
  <2> QED BY <2>1, <2>2
<1>3. /\ pc' \in [Thread -> {"idle"} \cup Loop] /\ pc'[t] = "pop"
      /\ \A s \in Thread \ {t} : pc'[s] = "idle"
      /\ OneRound'
  BY <1>1, NextPlace DEF Loop
<1>4. LifeOK'
  BY <1>1, <1>2, LifeInRound
<1>5. TypeOK'
  BY <1>1, <1>2, <1>3 DEF IInv, TypeOK
<1>6. BatchOK'
  BY <1>1, <1>3, InRound DEF IInv, BatchOK
<1>7. Unique' /\ NeverBroken'
  BY <1>1, <1>2 DEF IInv, Unique, NeverBroken
<1> QED BY <1>1, <1>2, <1>3, <1>4, <1>5, <1>6, <1>7 DEF IInv

LEMMA PopStep ==
  ASSUME IInv, NEW t \in Thread, Pop(t)
  PROVE  IInv'
<1>1. /\ pc[t] = "pop" /\ pc' = [pc EXCEPT ![t] = IF Len(processing) = 1 THEN "refill" ELSE "again"]
      /\ processing' = Front(processing) /\ broken' = (broken \/ ~alive)
      /\ UNCHANGED <<incoming, running, orphaned, alive, engine, holders, deleting, finished>>
  BY DEF Pop, At, Touch
<1>2. running /\ alive /\ processing # <<>> /\ processing \in Seq(Callback)
  BY <1>1, InRound DEF IInv, TypeOK
<1> DEFINE to == IF Len(processing) = 1 THEN "refill" ELSE "again"
<1>4. /\ pc' \in [Thread -> {"idle"} \cup Loop] /\ pc'[t] = to
      /\ \A s \in Thread \ {t} : pc'[s] = "idle"
      /\ OneRound'
  BY <1>1, NextPlace DEF Loop
<1>5. /\ Len(processing) \in Nat /\ Len(processing) >= 1
      /\ processing' \in Seq(Callback) /\ Len(processing') = Len(processing) - 1
  BY <1>1, <1>2, FrontProperties
<1>6. (processing' = <<>>) <=> Len(processing) = 1
  BY <1>5, EmptySeq
<1>7. TypeOK'
  BY <1>1, <1>2, <1>4, <1>5 DEF IInv, TypeOK
<1>8. BatchOK'
  BY <1>1, <1>2, <1>4, <1>6 DEF BatchOK
<1>9. Unique'
  <2>1. IsInjective(processing) /\ ToSet(processing) \cap ToSet(incoming) = {} /\ IsInjective(incoming)
    BY DEF IInv, Unique
  <2>2. IsInjective(processing') /\ ToSet(processing') \subseteq ToSet(processing)
    BY <1>1, <1>2, <2>1, FrontElements
  <2> QED BY <1>1, <2>1, <2>2 DEF Unique
<1>10. LifeOK' /\ NeverBroken'
  BY <1>1, <1>2 DEF IInv, LifeOK, NeverBroken
<1> QED BY <1>4, <1>7, <1>8, <1>9, <1>10 DEF IInv

\* Only the last round of an orphaned object deletes it.
LEMMA RefillStep ==
  ASSUME IInv, NEW t \in Thread, Refill(t)
  PROVE  IInv'
<1>1. /\ pc[t] = "refill" /\ processing' = incoming /\ incoming' = <<>>
      /\ broken' = (broken \/ ~alive)
      /\ UNCHANGED <<orphaned, alive, engine, holders, finished>>
  BY DEF Refill, Touch
<1>2. /\ running /\ alive /\ engine = 0 /\ deleting = {} /\ processing = <<>>
      /\ \A s \in Thread \ {t} : pc[s] = "idle"
  BY <1>1, InRound
<1>3. Unique'
  BY <1>1 DEF IInv, Unique, IsInjective, ToSet
<1>4. NeverBroken'
  BY <1>1, <1>2 DEF IInv, NeverBroken
<1>5. CASE incoming = <<>>
  <2>1. /\ running' = FALSE /\ pc' = [pc EXCEPT ![t] = "idle"]
        /\ deleting' = IF orphaned THEN deleting \cup {t} ELSE deleting
    BY <1>5 DEF Refill
  <2>2. pc' \in [Thread -> {"idle"} \cup Loop] /\ \A s \in Thread : pc'[s] = "idle"
    BY <1>2, <2>1 DEF IInv, TypeOK
  <2>3. TypeOK'
    BY <1>1, <1>2, <2>1, <2>2 DEF IInv, TypeOK
  <2>4. OneRound' /\ BatchOK'
    BY <1>1, <1>2, <1>5, <2>1, <2>2 DEF OneRound, InLoop, BatchOK
  <2>5. LifeOK'
    <3>1. orphaned <=> holders = {}
      BY <1>2 DEF IInv, LifeOK
    <3> QED BY <1>1, <1>2, <2>1, <3>1 DEF LifeOK
  <2> QED BY <1>3, <1>4, <2>3, <2>4, <2>5 DEF IInv
<1>6. CASE incoming # <<>>
  <2>1. pc' = [pc EXCEPT ![t] = "reverse"] /\ UNCHANGED <<running, deleting>>
    BY <1>6 DEF Refill
  <2>2. /\ pc' \in [Thread -> {"idle"} \cup Loop] /\ pc'[t] = "reverse"
        /\ \A s \in Thread \ {t} : pc'[s] = "idle"
        /\ OneRound'
    BY <1>1, <2>1, NextPlace DEF Loop
  <2>3. TypeOK'
    BY <1>1, <1>2, <2>1, <2>2 DEF IInv, TypeOK
  <2>4. BatchOK'
    BY <1>1, <1>6, <2>2 DEF BatchOK
  <2>5. LifeOK'
    BY <1>1, <2>1 DEF IInv, LifeOK
  <2> QED BY <1>3, <1>4, <2>2, <2>3, <2>4, <2>5 DEF IInv
<1> QED BY <1>5, <1>6

LEMMA ReorderStep ==
  ASSUME IInv, NEW t \in Thread, Reorder(t)
  PROVE  IInv'
<1>1. /\ pc[t] = "reverse" /\ pc' = [pc EXCEPT ![t] = "again"]
      /\ processing' = Reverse(processing) /\ broken' = (broken \/ ~alive)
      /\ UNCHANGED <<incoming, running, orphaned, alive, engine, holders, deleting, finished>>
  BY DEF Reorder, At, Touch
<1>2. running /\ alive /\ processing # <<>> /\ processing \in Seq(Callback)
  BY <1>1, InRound DEF IInv, TypeOK
<1>3. /\ pc' \in [Thread -> {"idle"} \cup Loop] /\ pc'[t] = "again"
      /\ \A s \in Thread \ {t} : pc'[s] = "idle"
      /\ OneRound'
  BY <1>1, NextPlace DEF Loop
<1>4. processing' \in Seq(Callback) /\ processing' # <<>>
  BY <1>1, <1>2, ReverseProperties, ReverseHead
<1>5. TypeOK'
  BY <1>1, <1>2, <1>3, <1>4 DEF IInv, TypeOK
<1>6. BatchOK'
  BY <1>1, <1>2, <1>3, <1>4 DEF BatchOK
<1>7. Unique'
  <2>1. IsInjective(processing) /\ ToSet(processing) \cap ToSet(incoming) = {} /\ IsInjective(incoming)
    BY DEF IInv, Unique
  <2>2. IsInjective(processing') /\ ToSet(processing') = ToSet(processing)
    BY <1>1, <1>2, <2>1, ReverseElements
  <2> QED BY <1>1, <2>1, <2>2 DEF Unique
<1>8. LifeOK' /\ NeverBroken'
  BY <1>1, <1>2 DEF IInv, LifeOK, NeverBroken
<1> QED BY <1>3, <1>5, <1>6, <1>7, <1>8 DEF IInv

LEMMA AgainStep ==
  ASSUME IInv, NEW t \in Thread, Again(t)
  PROVE  IInv'
<1>1. /\ pc[t] = "again" /\ pc' = [pc EXCEPT ![t] = "idle"] /\ engine' = engine + 1
      /\ broken' = (broken \/ ~alive)
      /\ UNCHANGED <<processing, incoming, running, orphaned, alive, holders, deleting, finished>>
  BY DEF Again, At, Touch
<1>2. /\ running /\ alive /\ engine = 0 /\ processing # <<>>
      /\ \A s \in Thread \ {t} : pc[s] = "idle"
  BY <1>1, InRound
<1>3. pc' \in [Thread -> {"idle"} \cup Loop] /\ \A s \in Thread : pc'[s] = "idle"
  BY <1>1, <1>2 DEF IInv, TypeOK
<1>4. TypeOK'
  BY <1>1, <1>2, <1>3 DEF IInv, TypeOK
<1>5. OneRound' /\ BatchOK'
  BY <1>1, <1>2, <1>3 DEF OneRound, InLoop, BatchOK
<1>6. Unique' /\ LifeOK' /\ NeverBroken'
  BY <1>1, <1>2 DEF IInv, Unique, LifeOK, NeverBroken
<1> QED BY <1>4, <1>5, <1>6 DEF IInv

\* Nothing is left when the object is deleted.
LEMMA DeleteStep ==
  ASSUME IInv, NEW a, Delete(a)
  PROVE  /\ IInv' /\ alive /\ holders = {} /\ processing = <<>> /\ incoming = <<>>
         /\ \A s \in Thread : pc[s] = "idle"
<1>1. /\ a \in deleting /\ deleting' = deleting \ {a} /\ alive' = FALSE
      /\ broken' = (broken \/ ~alive)
      /\ UNCHANGED <<processing, incoming, running, orphaned, engine, pc, holders, finished>>
  BY DEF Delete, Touch
<1>2. holders = {} /\ ~running /\ alive /\ deleting = {a}
  BY <1>1 DEF IInv, LifeOK
<1>3. processing = <<>> /\ incoming = <<>> /\ InLoop = {}
  BY <1>2 DEF IInv, OneRound
<1>4. \A s \in Thread : pc[s] = "idle"
  BY <1>3 DEF InLoop
<1>5. TypeOK'
  BY <1>1, <1>2 DEF IInv, TypeOK
<1>6. OneRound' /\ BatchOK' /\ Unique' /\ NeverBroken'
  BY <1>1, <1>2 DEF IInv, OneRound, InLoop, BatchOK, Unique, NeverBroken
<1>7. LifeOK'
  BY <1>1, <1>2 DEF IInv, LifeOK
<1> QED BY <1>2, <1>3, <1>4, <1>5, <1>6, <1>7 DEF IInv

LEMMA DropStep ==
  ASSUME IInv, NEW c \in Client, Drop(c)
  PROVE  IInv' /\ holders' = holders \ {c} /\ c \in holders
<1>1. /\ c \in holders /\ holders' = holders \ {c}
      /\ UNCHANGED <<processing, incoming, running, alive, engine, pc, finished>>
  BY DEF Drop, LetGo
<1>2. alive /\ deleting = {} /\ orphaned = FALSE /\ broken = FALSE
  BY <1>1 DEF IInv, TypeOK, LifeOK, NeverBroken
<1>3. /\ broken' = FALSE
      /\ \/ holders' # {} /\ orphaned' = FALSE /\ deleting' = {}
         \/ holders' = {} /\ running /\ orphaned' = TRUE /\ deleting' = {}
         \/ holders' = {} /\ ~running /\ orphaned' = FALSE /\ deleting' = {c}
  <2>1. CASE holders = {c}
    <3>1. holders' = {} /\ Orphan(c) /\ broken' = (broken \/ ~alive)
      BY <1>1, <2>1 DEF Drop, LetGo, Touch
    <3> QED BY <1>2, <3>1 DEF Orphan
  <2>2. CASE holders # {c}
    <3>1. holders' # {} /\ UNCHANGED <<orphaned, deleting, broken>>
      BY <1>1, <2>2 DEF Drop, LetGo
    <3> QED BY <1>2, <3>1
  <2> QED BY <2>1, <2>2
<1>4. TypeOK'
  BY <1>1, <1>3 DEF IInv, TypeOK
<1>5. OneRound' /\ BatchOK' /\ Unique' /\ NeverBroken'
  BY <1>1, <1>3 DEF IInv, OneRound, InLoop, BatchOK, Unique, NeverBroken
<1>6. LifeOK'
  BY <1>1, <1>2, <1>3 DEF LifeOK
<1> QED BY <1>1, <1>4, <1>5, <1>6 DEF IInv

\* What Run does: it appends to incoming_, or starts a round.
Joins(cb) == running /\ incoming' = Append(incoming, cb) /\ UNCHANGED <<processing, running, engine>>
Wakes(cb) == /\ ~running /\ running' = TRUE /\ processing' = <<cb>> /\ engine' = engine + 1
             /\ UNCHANGED incoming

LEMMA RunStep ==
  ASSUME IInv, NEW cb \in Callback \ Scheduled, Schedule(cb),
         holders # {}, holders' \in {holders, holders \cup {cb}}
  PROVE  IInv' /\ alive /\ (Joins(cb) \/ Wakes(cb))
<1>1. alive /\ deleting = {} /\ ~orphaned /\ broken = FALSE
  BY DEF IInv, LifeOK, NeverBroken, TypeOK
<1>2. UNCHANGED <<orphaned, alive, pc, deleting, finished>>
  BY DEF Schedule
<1>3. cb \notin ToSet(processing) /\ cb \notin ToSet(incoming) /\ cb \in Callback
  BY DEF Scheduled
<1>4. LifeOK'
  BY <1>1, <1>2 DEF LifeOK
<1>5. CASE running
  <2>1. Joins(cb) /\ broken' = FALSE
    BY <1>1, <1>5 DEF Schedule, Joins, Touch
  <2>2. incoming' \in Seq(Callback)
    BY <1>3, <2>1, AppendProperties DEF Joins, IInv, TypeOK
  <2>3. TypeOK' /\ NeverBroken'
    BY <1>2, <1>3, <2>1, <2>2 DEF Joins, IInv, TypeOK, NeverBroken
  <2>4. OneRound' /\ BatchOK'
    BY <1>2, <1>5, <2>1 DEF Joins, IInv, OneRound, InLoop, BatchOK
  <2>5. Unique'
    <3>1. ToSet(incoming') = ToSet(incoming) \cup {cb} /\ IsInjective(incoming')
      BY <1>3, <2>1, AppendElements DEF Joins, IInv, TypeOK, Unique
    <3> QED BY <1>3, <2>1, <3>1 DEF Joins, IInv, Unique
  <2> QED BY <1>1, <1>4, <2>1, <2>3, <2>4, <2>5 DEF IInv
<1>6. CASE ~running
  <2>1. engine = 0 /\ InLoop = {} /\ processing = <<>> /\ incoming = <<>>
    BY <1>6 DEF IInv, OneRound
  <2>2. Wakes(cb) /\ broken' = FALSE
    BY <1>1, <1>6, <2>1 DEF Schedule, Wakes
  <2>3. processing' \in Seq(Callback) /\ processing' # <<>>
    BY <1>3, <2>2 DEF Wakes
  <2>4. TypeOK' /\ NeverBroken'
    <3>1. engine' \in Nat /\ running' = TRUE /\ UNCHANGED incoming
      BY <2>1, <2>2 DEF Wakes
    <3>2. TypeOK /\ holders' \subseteq Client \cup Callback
      BY <1>3 DEF IInv, TypeOK
    <3>3. TypeOK'
      BY <1>2, <2>2, <2>3, <3>1, <3>2 DEF TypeOK
    <3>4. NeverBroken'
      BY <2>2 DEF NeverBroken
    <3> QED BY <3>3, <3>4
  <2>5. \A s \in Thread : pc[s] = "idle"
    BY <2>1 DEF InLoop
  <2>6. OneRound' /\ BatchOK'
    BY <1>2, <2>1, <2>2, <2>3, <2>5 DEF Wakes, OneRound, InLoop, BatchOK
  <2>7. Unique'
    BY <2>1, <2>2 DEF Wakes, IInv, Unique, IsInjective, ToSet
  <2> QED BY <1>1, <1>4, <2>2, <2>4, <2>6, <2>7 DEF IInv
<1> QED BY <1>5, <1>6

LEMMA NextIInv == IInv /\ [Next]_vars => IInv'
<1> SUFFICES ASSUME IInv, [Next]_vars PROVE IInv'
  OBVIOUS
<1>1. CASE Run
  BY <1>1, RunStep DEF Run
<1>2. CASE \E c \in Client : Drop(c) \/ Delete(c)
  BY <1>2, DropStep, DeleteStep
<1>3. CASE \E t \in Thread : DropInside(t) \/ ThreadStep(t)
  BY <1>3, DropInsideStep, StartStep, ReturnStep, DestroyStep, PopStep, RefillStep, ReorderStep,
     AgainStep, DeleteStep DEF ThreadStep
<1>4. CASE UNCHANGED vars
  BY <1>4 DEF vars, IInv, TypeOK, OneRound, InLoop, BatchOK, Unique, LifeOK, NeverBroken
<1> QED BY <1>1, <1>2, <1>3, <1>4 DEF Next

\* The inductive invariant.
THEOREM Invariance == Spec => []IInv
<1>1. Init => IInv
  BY InitIInv
<1>2. IInv /\ [Next]_vars => IInv'
  BY NextIInv
<1> QED BY <1>1, <1>2, PTL DEF Spec

\* A deleted serializer is never used or deleted again, and the work loop
\* always has a callback to take, for any number of clients and callbacks.
THEOREM Unbroken == Spec => []NeverBroken
<1>1. IInv => NeverBroken
  BY DEF IInv
<1> QED BY <1>1, Invariance, PTL

----------------------------------------------------------------------------
(* The serial executor *)

LEMMA ConcatAppend ==
  ASSUME NEW S, NEW s \in Seq(S), NEW u \in Seq(S), NEW x \in S
  PROVE  s \o Append(u, x) = Append(s \o u, x)
<1>1. <<x>> \in Seq(S) /\ s \o u \in Seq(S)
  BY ConcatProperties
<1>2. Append(u, x) = u \o <<x>> /\ Append(s \o u, x) = (s \o u) \o <<x>>
  BY <1>1, AppendIsConcat
<1> QED BY <1>1, <1>2, ConcatAssociative

LEMMA ConcatHeadTail ==
  ASSUME NEW S, NEW s \in Seq(S), NEW u \in Seq(S), s # <<>>
  PROVE  s \o u # <<>> /\ Head(s \o u) = Head(s) /\ Tail(s \o u) = Tail(s) \o u
<1>1. /\ s \o u \in Seq(S) /\ Len(s \o u) = Len(s) + Len(u)
      /\ \A i \in 1..(Len(s) + Len(u)) : (s \o u)[i] = IF i <= Len(s) THEN s[i] ELSE u[i - Len(s)]
  BY ConcatProperties
<1>2. Len(s) \in Nat /\ Len(u) \in Nat /\ Len(s) >= 1
  BY EmptySeq, LenProperties
<1>3. s \o u # <<>>
  BY <1>1, <1>2
<1>4. Head(s \o u) = Head(s)
  BY <1>1, <1>2
<1>5. /\ Tail(s) \in Seq(S) /\ Len(Tail(s)) = Len(s) - 1
      /\ \A i \in 1..(Len(s) - 1) : Tail(s)[i] = s[i + 1]
  BY HeadTailProperties
<1>6. /\ Tail(s \o u) \in Seq(S) /\ Len(Tail(s \o u)) = Len(s) + Len(u) - 1
      /\ \A i \in 1..(Len(s) + Len(u) - 1) : Tail(s \o u)[i] = (s \o u)[i + 1]
  BY <1>1, <1>3, HeadTailProperties
<1>7. /\ Tail(s) \o u \in Seq(S) /\ Len(Tail(s) \o u) = Len(s) - 1 + Len(u)
      /\ \A i \in 1..(Len(s) - 1 + Len(u)) :
           (Tail(s) \o u)[i] = IF i <= Len(s) - 1 THEN Tail(s)[i] ELSE u[i - (Len(s) - 1)]
  BY <1>5, ConcatProperties
<1>8. \A i \in 1..(Len(s) + Len(u) - 1) : Tail(s \o u)[i] = (Tail(s) \o u)[i]
  <2> TAKE i \in 1..(Len(s) + Len(u) - 1)
  <2>1. /\ i + 1 \in 1..(Len(s) + Len(u)) /\ i + 1 - Len(s) = i - (Len(s) - 1)
        /\ i \in 1..(Len(s) - 1 + Len(u)) /\ (i + 1 <= Len(s) <=> i <= Len(s) - 1)
        /\ (i <= Len(s) - 1 => i \in 1..(Len(s) - 1))
    BY <1>2
  <2>2. Tail(s \o u)[i] = IF i + 1 <= Len(s) THEN s[i + 1] ELSE u[i + 1 - Len(s)]
    BY <1>1, <1>6, <2>1
  <2>3. (Tail(s) \o u)[i] = IF i <= Len(s) - 1 THEN s[i + 1] ELSE u[i - (Len(s) - 1)]
    BY <1>5, <1>7, <2>1
  <2> QED BY <2>1, <2>2, <2>3
<1>9. Tail(s \o u) = Tail(s) \o u
  <2>1. Len(s) + Len(u) - 1 = Len(s) - 1 + Len(u)
    BY <1>2
  <2> QED BY <1>6, <1>7, <1>8, <2>1, SeqEqual
<1> QED BY <1>3, <1>4, <1>9

LEMMA ConcatElements ==
  ASSUME NEW S, NEW s \in Seq(S), NEW u \in Seq(S)
  PROVE  ToSet(s \o u) = ToSet(s) \cup ToSet(u)
<1>1. ToSet(s \o u) = Range(s \o u) /\ ToSet(s) = Range(s) /\ ToSet(u) = Range(u)
  BY DEF ToSet, Range
<1> QED BY <1>1, RangeConcatenation

\* The batch, by where the one thread in the work loop is.
Alone(t) == \A s \in Thread \ {t} : pc[s] = "idle"
AllIdle == \A s \in Thread : pc[s] = "idle"

BatchFacts ==
  /\ AllIdle => Batch = Reverse(processing) /\ Current = Nobody
  /\ \A t \in Thread : Alone(t) =>
       /\ pc[t] \in {"call", "destroy", "pop"} => Batch = Reverse(Front(processing))
       /\ pc[t] \in {"idle", "refill", "again"} => Batch = Reverse(processing)
       /\ pc[t] = "reverse" => Batch = processing
       /\ Current = IF pc[t] = "call" THEN Last(processing) ELSE Nobody

LEMMA BatchFactsHold == BatchFacts
<1>1. AllIdle => Batch = Reverse(processing) /\ Current = Nobody
  BY DEF AllIdle, Batch, Current, Running, InCallback
<1>2. ASSUME NEW t \in Thread, Alone(t)
      PROVE  /\ pc[t] \in {"call", "destroy", "pop"} => Batch = Reverse(Front(processing))
             /\ pc[t] \in {"idle", "refill", "again"} => Batch = Reverse(processing)
             /\ pc[t] = "reverse" => Batch = processing
             /\ Current = IF pc[t] = "call" THEN Last(processing) ELSE Nobody
  <2>1. \A s \in Thread : pc[s] # "idle" => s = t
    BY <1>2 DEF Alone
  <2>2. Running <=> pc[t] = "call"
    BY <2>1 DEF Running, InCallback
  <2>3. (\E s \in Thread : pc[s] \in {"call", "destroy", "pop"}) <=> pc[t] \in {"call", "destroy", "pop"}
    BY <2>1
  <2>4. (\E s \in Thread : pc[s] = "reverse") <=> pc[t] = "reverse"
    BY <2>1
  <2> QED BY <2>2, <2>3, <2>4 DEF Batch, Current
<1> QED BY <1>1, <1>2 DEF BatchFacts

LEMMA QueueTyped ==
  ASSUME IInv
  PROVE  Batch \in Seq(Callback) /\ Queue \in Seq(Callback)
<1>1. processing \in Seq(Callback) /\ incoming \in Seq(Callback)
  BY DEF IInv, TypeOK
<1>2. Reverse(processing) \in Seq(Callback)
  BY <1>1, ReverseProperties
<1>3. CASE AllIdle
  <2>1. Batch = Reverse(processing)
    BY <1>3, BatchFactsHold DEF BatchFacts
  <2> QED BY <1>1, <1>2, <2>1, ConcatProperties DEF Queue
<1>4. CASE ~AllIdle
  <2>1. PICK t \in Thread : pc[t] # "idle"
    BY <1>4 DEF AllIdle
  <2>2. Alone(t) /\ (processing = <<>> <=> pc[t] = "refill")
    BY <2>1, InRound DEF Alone
  <2>3. pc[t] \in {"call", "destroy", "pop", "refill", "reverse", "again"}
    BY <2>1 DEF IInv, TypeOK, Loop
  <2>4. pc[t] \in {"call", "destroy", "pop"} => Reverse(Front(processing)) \in Seq(Callback)
    BY <1>1, <2>2, FrontProperties, ReverseProperties
  <2>5. Batch \in Seq(Callback)
    BY <1>1, <1>2, <2>2, <2>3, <2>4, BatchFactsHold DEF BatchFacts
  <2> QED BY <1>1, <2>5, ConcatProperties DEF Queue
<1> QED BY <1>3, <1>4

\* Whoever lets go is in no queue: a client is no callback, and the callback
\* of the round is in neither list any more.
NotQueued(h) == h \notin {Queue[i] : i \in DOMAIN Queue}

LEMMA RoundNotQueued ==
  ASSUME IInv, NEW t \in Thread, pc[t] \in {"call", "destroy", "pop"}
  PROVE  NotQueued(Last(processing))
<1>1. processing # <<>> /\ Alone(t) /\ processing \in Seq(Callback) /\ incoming \in Seq(Callback)
  BY InRound DEF Alone, IInv, TypeOK
<1>2. Batch = Reverse(Front(processing))
  BY <1>1, BatchFactsHold DEF BatchFacts
<1>3. /\ Front(processing) \in Seq(Callback) /\ Reverse(Front(processing)) \in Seq(Callback)
  BY <1>1, FrontProperties, ReverseProperties
<1>4. /\ ToSet(Front(processing)) = ToSet(processing) \ {Last(processing)}
      /\ Last(processing) \in ToSet(processing)
      /\ ToSet(processing) \cap ToSet(incoming) = {}
  BY <1>1, FrontElements DEF IInv, Unique
<1>5. ToSet(Queue) = ToSet(Front(processing)) \cup ToSet(incoming)
  BY <1>1, <1>2, <1>3, ReverseElements, ConcatElements DEF Queue
<1>6. Last(processing) \notin ToSet(Queue)
  BY <1>4, <1>5
<1> QED BY <1>6 DEF NotQueued, ToSet

LEMMA ClientNotQueued ==
  ASSUME IInv, NEW c \in Client
  PROVE  NotQueued(c)
<1>1. Queue \in Seq(Callback)
  BY QueueTyped
<1>2. \A i \in DOMAIN Queue : Queue[i] \in Callback
  BY <1>1, LenProperties
<1> QED BY <1>2, WorkSerializerAssumption DEF NotQueued

----------------------------------------------------------------------------
(* Every step is the executor's, or none of them *)

Stutter == UNCHANGED <<holders, Queue, Current, finished, alive>>

LEMMA RunSchedules ==
  ASSUME IInv, Run
  PROVE  Abstract!Schedule
<1>1. PICK cb \in Callback \ Scheduled :
        /\ \E h \in holders :
             h \in Client \/ \E t \in Thread : (InCallback(t) /\ h = Last(processing))
        /\ Schedule(cb)
        /\ holders' \in {holders, holders \cup {cb}}
  BY DEF Run
<1>2. IInv' /\ alive /\ (Joins(cb) \/ Wakes(cb))
  BY <1>1, RunStep
<1>3. UNCHANGED <<alive, pc, finished>>
  BY <1>1 DEF Schedule
<1>4. \E h \in holders : h \in Client \/ h = Current
  BY <1>1 DEF Current, Running
<1>5. Queue' = Append(Queue, cb) /\ Current' = Current
  <2>1. CASE Joins(cb)
    <3>1. UNCHANGED <<pc, processing>> /\ incoming' = Append(incoming, cb)
      BY <1>3, <2>1 DEF Joins
    <3>2. Batch' = Batch /\ Current' = Current
      BY <3>1 DEF Batch, Current, Running, InCallback
    <3>3. Batch \in Seq(Callback) /\ incoming \in Seq(Callback)
      BY QueueTyped DEF IInv, TypeOK
    <3> QED BY <3>1, <3>2, <3>3, ConcatAppend DEF Queue
  <2>2. CASE Wakes(cb)
    <3>1. /\ processing = <<>> /\ incoming = <<>> /\ InLoop = {}
          /\ processing' = <<cb>> /\ incoming' = <<>>
      BY <2>2 DEF Wakes, IInv, OneRound
    <3>2. AllIdle /\ AllIdle'
      BY <1>3, <3>1 DEF AllIdle, InLoop
    <3>3. BatchFacts /\ BatchFacts'
      BY BatchFactsHold, PTL
    <3>4. Batch = <<>> /\ Batch' = <<cb>> /\ Current = Nobody /\ Current' = Nobody
      BY <3>1, <3>2, <3>3, ReverseShort DEF BatchFacts
    <3>5. <<>> \o <<>> = <<>> /\ <<cb>> \o <<>> = <<cb>> /\ Append(<<>>, cb) = <<cb>>
      OBVIOUS
    <3> QED BY <3>1, <3>4, <3>5 DEF Queue
  <2> QED BY <1>2, <2>1, <2>2
<1> QED BY <1>1, <1>2, <1>3, <1>4, <1>5 DEF Abstract!Schedule

LEMMA DropReleases ==
  ASSUME IInv, NEW c \in Client, Drop(c)
  PROVE  Abstract!Release
<1>1. holders' = holders \ {c} /\ c \in holders
  BY DropStep
<1>2. NotQueued(c)
  BY ClientNotQueued
<1>3. UNCHANGED <<processing, incoming, alive, pc, finished>>
  BY DEF Drop
<1>4. UNCHANGED <<Queue, Current>>
  BY <1>3 DEF Queue, Batch, Current, Running, InCallback
<1> QED BY <1>1, <1>2, <1>3, <1>4 DEF Abstract!Release, NotQueued

LEMMA DropInsideReleases ==
  ASSUME IInv, NEW t \in Thread, DropInside(t)
  PROVE  Abstract!Release
<1>1. /\ pc[t] = "call" /\ Last(processing) \in holders /\ holders' = holders \ {Last(processing)}
      /\ UNCHANGED <<processing, incoming, alive, pc, finished>>
  BY DEF DropInside, InCallback, LetGo
<1>2. NotQueued(Last(processing))
  BY <1>1, RoundNotQueued
<1>3. UNCHANGED <<Queue, Current>>
  BY <1>1 DEF Queue, Batch, Current, Running, InCallback
<1> QED BY <1>1, <1>2, <1>3 DEF Abstract!Release, NotQueued

LEMMA StartStarts ==
  ASSUME IInv, NEW t \in Thread, Start(t)
  PROVE  Abstract!Start
<1>1. /\ IInv' /\ processing # <<>> /\ alive /\ AllIdle
      /\ UNCHANGED <<processing, incoming, alive, holders, finished>>
      /\ pc' = [pc EXCEPT ![t] = "call"]
  BY StartStep DEF Start, At, AllIdle
<1>2. BatchFacts /\ BatchFacts'
  BY BatchFactsHold, PTL
<1>3. processing \in Seq(Callback) /\ incoming \in Seq(Callback) /\ pc'[t] = "call" /\ Alone(t)'
  BY <1>1 DEF IInv, TypeOK, AllIdle, Alone
<1>4. Batch = Reverse(processing) /\ Current = Nobody
  BY <1>1, <1>2 DEF BatchFacts
<1>5. Batch' = Reverse(Front(processing)) /\ Current' = Last(processing)
  BY <1>1, <1>2, <1>3 DEF BatchFacts
<1>6. /\ Batch # <<>> /\ Head(Batch) = Last(processing) /\ Tail(Batch) = Reverse(Front(processing))
      /\ Batch \in Seq(Callback)
  BY <1>1, <1>3, <1>4, ReverseHead, QueueTyped
<1>7. Queue # <<>> /\ Head(Queue) = Head(Batch) /\ Tail(Queue) = Tail(Batch) \o incoming
  BY <1>3, <1>6, ConcatHeadTail DEF Queue
<1>8. Queue' = Tail(Queue) /\ Current' = Head(Queue)
  BY <1>1, <1>5, <1>6, <1>7 DEF Queue
<1> QED BY <1>1, <1>4, <1>7, <1>8 DEF Abstract!Start

LEMMA ReturnFinishes ==
  ASSUME IInv, NEW t \in Thread, Return(t)
  PROVE  Abstract!Finish
<1>1. /\ pc[t] = "call" /\ pc' = [pc EXCEPT ![t] = "destroy"]
      /\ finished' = Append(finished, Last(processing))
      /\ UNCHANGED <<processing, incoming, alive, holders>>
  BY DEF Return, At
<1>2. Alone(t) /\ processing # <<>> /\ processing \in Seq(Callback)
  BY <1>1, InRound DEF Alone, IInv, TypeOK
<1>3. pc'[t] = "destroy" /\ Alone(t)'
  BY <1>1, <1>2 DEF IInv, TypeOK, Alone
<1>4. BatchFacts /\ BatchFacts'
  BY BatchFactsHold, PTL
<1>5. /\ Batch' = Batch /\ Current = Last(processing) /\ Current' = Nobody
  BY <1>1, <1>2, <1>3, <1>4 DEF BatchFacts
<1>6. Current # Nobody
  BY <1>2, <1>5, FrontProperties, WorkSerializerAssumption
<1> QED BY <1>1, <1>5, <1>6 DEF Abstract!Finish, Queue

LEMMA DestroyReleases ==
  ASSUME IInv, NEW t \in Thread, Destroy(t)
  PROVE  Abstract!Release \/ Stutter
<1>1. /\ pc[t] = "destroy" /\ pc' = [pc EXCEPT ![t] = "pop"]
      /\ UNCHANGED <<processing, incoming, alive, finished>>
      /\ \/ UNCHANGED holders
         \/ holders' = holders \ {Last(processing)} /\ Last(processing) \in holders
  BY DestroyStep DEF Destroy, At
<1>2. Alone(t)
  BY <1>1, InRound DEF Alone
<1>3. pc'[t] = "pop" /\ Alone(t)'
  BY <1>1, <1>2 DEF IInv, TypeOK, Alone
<1>4. BatchFacts /\ BatchFacts'
  BY BatchFactsHold, PTL
<1>5. Batch' = Batch /\ Current' = Current
  BY <1>1, <1>2, <1>3, <1>4 DEF BatchFacts
<1>6. NotQueued(Last(processing))
  BY <1>1, RoundNotQueued
<1> QED BY <1>1, <1>5, <1>6 DEF Abstract!Release, NotQueued, Stutter, Queue

LEMMA PopStutters ==
  ASSUME IInv, NEW t \in Thread, Pop(t)
  PROVE  Stutter
<1>1. /\ pc[t] = "pop" /\ pc' = [pc EXCEPT ![t] = IF Len(processing) = 1 THEN "refill" ELSE "again"]
      /\ processing' = Front(processing) /\ UNCHANGED <<incoming, alive, holders, finished>>
  BY DEF Pop, At
<1>2. Alone(t)
  BY <1>1, InRound DEF Alone
<1>3. pc'[t] \in {"refill", "again"} /\ Alone(t)'
  BY <1>1, <1>2 DEF IInv, TypeOK, Alone
<1>4. BatchFacts /\ BatchFacts'
  BY BatchFactsHold, PTL
<1>5. Batch' = Batch /\ Current' = Current
  BY <1>1, <1>2, <1>3, <1>4 DEF BatchFacts
<1> QED BY <1>1, <1>5 DEF Stutter, Queue

LEMMA RefillStutters ==
  ASSUME IInv, NEW t \in Thread, Refill(t)
  PROVE  Stutter
<1>1. /\ pc[t] = "refill" /\ processing' = incoming /\ incoming' = <<>>
      /\ UNCHANGED <<alive, holders, finished>>
      /\ pc' = [pc EXCEPT ![t] = IF incoming = <<>> THEN "idle" ELSE "reverse"]
  BY DEF Refill
<1>2. Alone(t) /\ processing = <<>> /\ incoming \in Seq(Callback)
  BY <1>1, InRound DEF Alone, IInv, TypeOK
<1>3. pc'[t] = (IF incoming = <<>> THEN "idle" ELSE "reverse") /\ Alone(t)'
  BY <1>1, <1>2 DEF IInv, TypeOK, Alone
<1>4. BatchFacts /\ BatchFacts'
  BY BatchFactsHold, PTL
<1>5. Batch = <<>> /\ Current = Nobody /\ Current' = Nobody /\ Batch' = incoming
  BY <1>1, <1>2, <1>3, <1>4, ReverseShort DEF BatchFacts
<1>6. <<>> \o incoming = incoming /\ incoming \o <<>> = incoming
  BY <1>2, ConcatEmptySeq
<1> QED BY <1>1, <1>5, <1>6 DEF Stutter, Queue

LEMMA ReorderStutters ==
  ASSUME IInv, NEW t \in Thread, Reorder(t)
  PROVE  Stutter
<1>1. /\ pc[t] = "reverse" /\ pc' = [pc EXCEPT ![t] = "again"]
      /\ processing' = Reverse(processing) /\ UNCHANGED <<incoming, alive, holders, finished>>
  BY DEF Reorder, At
<1>2. Alone(t) /\ processing \in Seq(Callback)
  BY <1>1, InRound DEF Alone, IInv, TypeOK
<1>3. pc'[t] = "again" /\ Alone(t)'
  BY <1>1, <1>2 DEF IInv, TypeOK, Alone
<1>4. BatchFacts /\ BatchFacts'
  BY BatchFactsHold, PTL
<1>5. Batch = processing /\ Batch' = Reverse(Reverse(processing)) /\ Current' = Current
  BY <1>1, <1>2, <1>3, <1>4 DEF BatchFacts
<1> QED BY <1>1, <1>2, <1>5, ReverseTwice DEF Stutter, Queue

LEMMA AgainStutters ==
  ASSUME IInv, NEW t \in Thread, Again(t)
  PROVE  Stutter
<1>1. /\ pc[t] = "again" /\ pc' = [pc EXCEPT ![t] = "idle"]
      /\ UNCHANGED <<processing, incoming, alive, holders, finished>>
  BY DEF Again, At
<1>2. Alone(t)
  BY <1>1, InRound DEF Alone
<1>3. pc'[t] = "idle" /\ Alone(t)'
  BY <1>1, <1>2 DEF IInv, TypeOK, Alone
<1>4. BatchFacts /\ BatchFacts'
  BY BatchFactsHold, PTL
<1>5. Batch' = Batch /\ Current' = Current
  BY <1>1, <1>2, <1>3, <1>4 DEF BatchFacts
<1> QED BY <1>1, <1>5 DEF Stutter, Queue

LEMMA DeleteFrees ==
  ASSUME IInv, NEW a, Delete(a)
  PROVE  Abstract!Free
<1>1. /\ alive /\ alive' = FALSE /\ holders = {} /\ processing = <<>> /\ incoming = <<>> /\ AllIdle
      /\ UNCHANGED <<processing, incoming, pc, holders, finished>>
  BY DeleteStep DEF Delete, AllIdle
<1>2. Batch = <<>> /\ Current = Nobody
  BY <1>1, BatchFactsHold, ReverseShort DEF BatchFacts
<1>3. Queue = <<>>
  BY <1>1, <1>2 DEF Queue
<1>4. UNCHANGED <<Queue, Current>>
  BY <1>1 DEF Queue, Batch, Current, Running, InCallback
<1> QED BY <1>1, <1>2, <1>3, <1>4 DEF Abstract!Free

\* The work serializer implements the serial executor: one at a time, first in
\* first out, and gone only when nobody holds it and nothing is left to run.
THEOREM Refinement == Spec => Abstract!SerialSafe
<1>1. Init => Abstract!SerialInit
  <2> HAVE Init
  <2>1. AllIdle /\ processing = <<>> /\ incoming = <<>>
    BY DEF Init, AllIdle
  <2>2. Batch = <<>> /\ Current = Nobody
    BY <2>1, BatchFactsHold, ReverseShort DEF BatchFacts
  <2>3. Queue = <<>>
    BY <2>1, <2>2 DEF Queue
  <2> QED BY <2>2, <2>3 DEF Init, Abstract!SerialInit
<1>2. IInv /\ [Next]_vars => [Abstract!SerialNext]_Abstract!vars
  <2> SUFFICES ASSUME IInv, [Next]_vars PROVE Abstract!SerialNext \/ Stutter
    BY DEF Stutter, Abstract!vars
  <2>1. CASE Run
    BY <2>1, RunSchedules DEF Abstract!SerialNext
  <2>2. CASE \E c \in Client : Drop(c) \/ Delete(c)
    BY <2>2, DropReleases, DeleteFrees DEF Abstract!SerialNext, Abstract!Serve
  <2>3. CASE \E t \in Thread : DropInside(t) \/ ThreadStep(t)
    BY <2>3, DropInsideReleases, StartStarts, ReturnFinishes, DestroyReleases, PopStutters,
       RefillStutters, ReorderStutters, AgainStutters, DeleteFrees
    DEF ThreadStep, Abstract!SerialNext, Abstract!Serve
  <2>4. CASE UNCHANGED vars
    BY <2>4 DEF vars, Stutter, Queue, Batch, Current, Running, InCallback
  <2> QED BY <2>1, <2>2, <2>3, <2>4 DEF Next
<1> QED BY <1>1, <1>2, Invariance, PTL DEF Spec, Abstract!SerialSafe
=============================================================================
