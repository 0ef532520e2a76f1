------------------------ MODULE CompletionQueueProof ------------------------
(* Theorems about CompletionQueue, for any number of operations and pollers, *)
(* when its callers begin nothing after shutdown: its counters and its       *)
(* references are exact, it is never used after it is freed, and it          *)
(* implements the event queue.                                               *)
EXTENDS CompletionQueue, FiniteSetTheorems, SequenceTheorems, TLAPS

----------------------------------------------------------------------------
(* Sequences without repetition *)

LEMMA AppendElements ==
  ASSUME NEW S, NEW s \in Seq(S), NEW x \in S
  PROVE  /\ Append(s, x) \in Seq(S) /\ Append(s, x) # <<>>
         /\ Range(Append(s, x)) = Range(s) \cup {x}
         /\ IsInjective(s) /\ x \notin Range(s) => IsInjective(Append(s, x))
         /\ s # <<>> => Head(Append(s, x)) = Head(s)
         /\ Len(s) > 1 => Len(Append(s, x)) > 1 /\ Append(s, x)[2] = s[2]
         /\ Len(s) = 1 => Append(s, x)[2] = x
<1>1. /\ Len(s) \in Nat /\ DOMAIN s = 1..Len(s) /\ DOMAIN Append(s, x) = 1..(Len(s) + 1)
      /\ Append(s, x) \in Seq(S)
      /\ \A i \in 1..Len(s) : Append(s, x)[i] = s[i]
      /\ Append(s, x)[Len(s) + 1] = x /\ Len(Append(s, x)) = Len(s) + 1
  BY LenProperties, AppendProperties
<1>2. Range(Append(s, x)) = Range(s) \cup {x}
  BY <1>1 DEF Range
<1>3. IsInjective(s) /\ x \notin Range(s) => IsInjective(Append(s, x))
  BY <1>1 DEF Range, IsInjective
<1>4. Append(s, x) # <<>>
  BY <1>1, EmptySeq
<1>5. s # <<>> => Len(s) >= 1 /\ Head(s) = s[1]
  BY <1>1, EmptySeq, HeadTailProperties
<1>6. Head(Append(s, x)) = Append(s, x)[1]
  BY <1>1, <1>4, HeadTailProperties
<1> QED BY <1>1, <1>2, <1>3, <1>4, <1>5, <1>6

LEMMA TailElements ==
  ASSUME NEW S, NEW s \in Seq(S), s # <<>>, IsInjective(s)
  PROVE  /\ Tail(s) \in Seq(S) /\ IsInjective(Tail(s))
         /\ Range(Tail(s)) = Range(s) \ {Head(s)} /\ Head(s) \in Range(s)
         /\ Len(s) > 1 => Tail(s) # <<>> /\ Head(Tail(s)) = s[2]
<1>1. /\ Len(s) \in Nat /\ Len(s) >= 1 /\ DOMAIN s = 1..Len(s)
      /\ Head(s) = s[1] /\ Tail(s) \in Seq(S) /\ Len(Tail(s)) = Len(s) - 1
      /\ \A i \in 1..Len(Tail(s)) : Tail(s)[i] = s[i + 1]
  BY LenProperties, EmptySeq, HeadTailProperties
<1>2. DOMAIN Tail(s) = 1..(Len(s) - 1)
  BY <1>1, LenProperties
<1>3. IsInjective(Tail(s))
  BY <1>1, <1>2 DEF IsInjective
<1>4. Range(Tail(s)) = Range(s) \ {Head(s)}
  <2>1. ASSUME NEW x \in Range(Tail(s)) PROVE x \in Range(s) \ {Head(s)}
    <3>1. PICK i \in 1..(Len(s) - 1) : x = s[i + 1]
      BY <1>1, <1>2 DEF Range
    <3>2. i + 1 \in 1..Len(s) /\ i + 1 # 1
      BY <1>1
    <3> QED BY <1>1, <3>1, <3>2 DEF Range, IsInjective
  <2>2. ASSUME NEW x \in Range(s) \ {Head(s)} PROVE x \in Range(Tail(s))
    <3>1. PICK i \in 1..Len(s) : x = s[i]
      BY <1>1 DEF Range
    <3>2. i # 1 /\ i - 1 \in 1..(Len(s) - 1) /\ Tail(s)[i - 1] = s[i]
      BY <1>1, <3>1
    <3> QED BY <1>2, <3>1, <3>2 DEF Range
  <2> QED BY <2>1, <2>2
<1>5. Head(s) \in Range(s)
  BY <1>1 DEF Range
<1>6. Len(s) > 1 => Tail(s) # <<>> /\ Head(Tail(s)) = s[2]
  <2> HAVE Len(s) > 1
  <2>1. Tail(s) # <<>>
    <3> DEFINE r == Tail(s)
    <3>1. r \in Seq(S) /\ Len(r) >= 1
      BY <1>1
    <3> HIDE DEF r
    <3>2. r # <<>>
      BY <3>1, EmptySeq
    <3> QED BY <3>2 DEF r
  <2>2. Head(Tail(s)) = Tail(s)[1]
    BY <1>1, <2>1, HeadTailProperties
  <2> QED BY <1>1, <2>1, <2>2
<1> QED BY <1>1, <1>3, <1>4, <1>5, <1>6

CutAt(s, i) == SubSeq(s, 1, i - 1) \o SubSeq(s, i + 1, Len(s))

LEMMA CutElements ==
  ASSUME NEW S, NEW s \in Seq(S), NEW i \in DOMAIN s, IsInjective(s),
         NEW t, t = CutAt(s, i)
  PROVE  /\ t \in Seq(S) /\ IsInjective(t) /\ Range(t) = Range(s) \ {s[i]}
         /\ s # <<>> /\ (t = <<>> <=> s = <<s[i]>>)
<1>1. Len(s) \in Nat /\ DOMAIN s = 1..Len(s) /\ i \in 1..Len(s) /\ i \in Nat
  BY LenProperties
<1> DEFINE a == SubSeq(s, 1, i - 1)  b == SubSeq(s, i + 1, Len(s))
<1>2. /\ a \in Seq(S) /\ Len(a) = i - 1 /\ \A j \in 1..(i - 1) : a[j] = s[j]
  BY <1>1, SubSeqProperties
<1>3. /\ b \in Seq(S) /\ Len(b) = Len(s) - i /\ \A j \in 1..(Len(s) - i) : b[j] = s[i + j]
  <2>1. i + 1 \in Int /\ Len(s) \in Int /\ \A k \in (i + 1)..Len(s) : s[k] \in S
    BY <1>1, LenProperties
  <2>2. /\ b \in Seq(S) /\ Len(b) = (IF i + 1 <= Len(s) THEN Len(s) - (i + 1) + 1 ELSE 0)
        /\ \A j \in 1..(Len(s) - (i + 1) + 1) : b[j] = s[(i + 1) + j - 1]
    BY <2>1, SubSeqProperties
  <2> HIDE DEF b
  <2>3. Len(s) - (i + 1) + 1 = Len(s) - i /\ i <= Len(s)
    BY <1>1
  <2>4. Len(b) = Len(s) - i
    BY <1>1, <2>2, <2>3
  <2>5. \A j \in 1..(Len(s) - i) : (i + 1) + j - 1 = i + j
    BY <1>1
  <2> QED BY <2>2, <2>3, <2>4, <2>5
<1> HIDE DEF a, b
<1>4. /\ t \in Seq(S) /\ Len(t) = Len(s) - 1
      /\ \A j \in 1..(Len(s) - 1) : t[j] = IF j < i THEN s[j] ELSE s[j + 1]
  <2>1. t = a \o b
    BY DEF a, b, CutAt
  <2>2. /\ a \o b \in Seq(S) /\ Len(a \o b) = Len(a) + Len(b)
        /\ \A j \in 1..Len(a) + Len(b) : (a \o b)[j] = IF j <= Len(a) THEN a[j] ELSE b[j - Len(a)]
    BY <1>2, <1>3, ConcatProperties
  <2>3. ASSUME NEW j \in 1..(Len(s) - 1) PROVE t[j] = IF j < i THEN s[j] ELSE s[j + 1]
    <3>1. CASE j < i
      BY <1>1, <1>2, <1>3, <2>1, <2>2, <3>1
    <3>2. CASE ~(j < i)
      <4>1. j \in Int /\ i \in Int /\ Len(s) \in Int /\ 1 <= i /\ j >= i /\ j <= Len(s) - 1
        BY <1>1, <3>2
      <4> DEFINE k == j - (i - 1)
      <4>2. k \in 1..(Len(s) - i) /\ i + k = j + 1 /\ k = j - Len(a) /\ ~(j <= Len(a))
        BY <1>2, <4>1
      <4>3. t[j] = b[j - Len(a)]
        <5>1. j \in 1..(Len(a) + Len(b))
          BY <1>2, <1>3, <4>1
        <5> QED BY <2>1, <2>2, <4>2, <5>1
      <4>4. b[k] = s[i + k]
        BY <1>3, <4>2
      <4> QED BY <3>2, <4>2, <4>3, <4>4
    <3> QED BY <3>1, <3>2
  <2>4. Len(t) = Len(s) - 1 /\ t \in Seq(S)
    <3>1. Len(a) + Len(b) = Len(s) - 1
      BY <1>1, <1>2, <1>3
    <3> QED BY <2>1, <2>2, <3>1
  <2> QED BY <2>3, <2>4
<1>5. DOMAIN t = 1..(Len(s) - 1)
  BY <1>4, LenProperties
<1>6. IsInjective(t)
  <2> SUFFICES ASSUME NEW j \in 1..(Len(s) - 1), NEW k \in 1..(Len(s) - 1), t[j] = t[k]
               PROVE  j = k
    BY <1>5 DEF IsInjective
  <2> DEFINE f(n) == IF n < i THEN n ELSE n + 1
  <2>1. f(j) \in DOMAIN s /\ f(k) \in DOMAIN s /\ (f(j) = f(k) => j = k)
    BY <1>1
  <2>2. t[j] = s[f(j)] /\ t[k] = s[f(k)]
    BY <1>4
  <2> QED BY <2>1, <2>2 DEF IsInjective
<1>7. Range(t) = Range(s) \ {s[i]}
  <2>1. ASSUME NEW x \in Range(t) PROVE x \in Range(s) \ {s[i]}
    <3>1. PICK j \in 1..(Len(s) - 1) : x = IF j < i THEN s[j] ELSE s[j + 1]
      BY <1>4, <1>5 DEF Range
    <3>2. j \in 1..Len(s) /\ j + 1 \in 1..Len(s) /\ (j < i => j # i) /\ (~(j < i) => j + 1 # i)
      BY <1>1
    <3> QED BY <1>1, <3>1, <3>2 DEF Range, IsInjective
  <2>2. ASSUME NEW x \in Range(s) \ {s[i]} PROVE x \in Range(t)
    <3>1. PICK j \in 1..Len(s) : x = s[j]
      BY <1>1 DEF Range
    <3>2. CASE j < i
      <4>1. j \in 1..(Len(s) - 1)
        BY <1>1, <3>2
      <4> QED BY <1>4, <1>5, <3>1, <3>2, <4>1 DEF Range
    <3>3. CASE ~(j < i)
      <4>1. j - 1 \in 1..(Len(s) - 1) /\ ~(j - 1 < i) /\ (j - 1) + 1 = j
        BY <1>1, <3>1, <3>3
      <4> QED BY <1>4, <1>5, <3>1, <4>1 DEF Range
    <3> QED BY <3>2, <3>3
  <2> QED BY <2>1, <2>2
<1>8. s # <<>> /\ (t = <<>> <=> Len(s) = 1)
  <2>1. Len(s) # 0 /\ (Len(t) = 0 <=> Len(s) = 1)
    BY <1>1, <1>4
  <2> QED BY <1>4, <2>1, EmptySeq
<1>9. Len(s) = 1 <=> s = <<s[i]>>
  <2>1. Len(<<s[i]>>) = 1
    OBVIOUS
  <2>2. Len(s) = 1 => i = 1 /\ s = <<s[1]>>
    <3> HAVE Len(s) = 1
    <3>1. i = 1 /\ s \in [1..1 -> S]
      BY <1>1, LenProperties
    <3> QED BY <3>1
  <2> QED BY <2>1, <2>2
<1> QED BY <1>4, <1>6, <1>7, <1>8, <1>9

----------------------------------------------------------------------------
(* Counting operations and pollers by where they are *)

Bit(v, S) == IF v \in S THEN 1 ELSE 0
Among(D, f, S) == {x \in D : f[x] \in S}
MovesCount(D, f, g, x, to, S) ==
  /\ Cardinality(Among(D, f, S)) \in Nat /\ Cardinality(Among(D, g, S)) \in Nat
  /\ Cardinality(Among(D, g, S)) + Bit(f[x], S) = Cardinality(Among(D, f, S)) + Bit(to, S)
  /\ f[x] \in S => Cardinality(Among(D, f, S)) >= 1

\* Moving one member moves the count of a set of places by what it left and
\* what it entered.
LEMMA CountMove ==
  ASSUME NEW D, IsFiniteSet(D), NEW f, DOMAIN f = D, NEW x \in D, NEW to,
         NEW g, g = [f EXCEPT ![x] = to]
  PROVE  \A S : MovesCount(D, f, g, x, to, S)
<1> TAKE S
<1> DEFINE A == {y \in D \ {x} : f[y] \in S}
<1>1. IsFiniteSet(A)
  <2>1. A \subseteq D
    OBVIOUS
  <2> QED BY <2>1, FS_Subset
<1>2. x \notin A /\ Cardinality(A) \in Nat /\ Cardinality(A \cup {x}) = Cardinality(A) + 1
  BY <1>1, FS_AddElement, FS_CardinalityType
<1>3. Among(D, f, S) = IF f[x] \in S THEN A \cup {x} ELSE A
  BY DEF Among
<1>4. Among(D, g, S) = IF to \in S THEN A \cup {x} ELSE A
  BY DEF Among
<1> HIDE DEF A
<1> QED BY <1>2, <1>3, <1>4 DEF Bit, MovesCount

NumOps(S) == Cardinality(Ops(S))
NumPollers(S) == Cardinality(Pollers(S))

Storing == {"refStore", "store"}
Finishing == {"ref", "finish"}
Publishing == {"link", "count"}
Holding == {"store", "finish", "unref"}
Inside == PollerPC \ {"out"}

OpMoved(from, to) ==
  /\ NumOps(Busy)' + Bit(from, Busy) = NumOps(Busy) + Bit(to, Busy)
  /\ NumOps(Storing)' + Bit(from, Storing) = NumOps(Storing) + Bit(to, Storing)
  /\ NumOps(Finishing)' + Bit(from, Finishing) = NumOps(Finishing) + Bit(to, Finishing)
  /\ NumOps(Publishing)' + Bit(from, Publishing) = NumOps(Publishing) + Bit(to, Publishing)
  /\ NumOps(Holding)' + Bit(from, Holding) = NumOps(Holding) + Bit(to, Holding)

PollerMoved(from, to) ==
  /\ NumPollers({"uncount"})' + Bit(from, {"uncount"}) = NumPollers({"uncount"}) + Bit(to, {"uncount"})
  /\ NumPollers(Inside)' + Bit(from, Inside) = NumPollers(Inside) + Bit(to, Inside)

CountsNat ==
  /\ NumOps(Busy) \in Nat /\ NumOps(Storing) \in Nat /\ NumOps(Finishing) \in Nat
  /\ NumOps(Publishing) \in Nat /\ NumOps(Holding) \in Nat
  /\ NumPollers({"uncount"}) \in Nat /\ NumPollers(Inside) \in Nat
  /\ Cardinality(Queued) \in Nat /\ (Queued = {} <=> Cardinality(Queued) = 0)
  /\ NumOps(Storing) <= NumOps(Busy) /\ NumOps(Publishing) <= NumOps(Busy)
  /\ NumPollers({"uncount"}) <= NumPollers(Inside)

CountsTyped ==
  /\ CountsNat
  /\ \A S : NumOps(S) \in Nat /\ NumPollers(S) \in Nat
  /\ \A S : Ops(S) = {} <=> NumOps(S) = 0

LEMMA CountsAlwaysTyped == CountsTyped
<1>1. \A S : IsFiniteSet(Ops(S)) /\ IsFiniteSet(Pollers(S))
  <2> TAKE S
  <2>1. Ops(S) \subseteq Op /\ Pollers(S) \subseteq Poller
    BY DEF Ops, Pollers
  <2> QED BY <2>1, CompletionQueueAssumption, FS_Subset
<1>2. IsFiniteSet(Queued)
  <2>1. Queued \subseteq Op
    BY DEF Queued
  <2> QED BY <2>1, CompletionQueueAssumption, FS_Subset
<1>3. \A S : NumOps(S) \in Nat /\ NumPollers(S) \in Nat
  BY <1>1, FS_CardinalityType DEF NumOps, NumPollers
<1>4. \A S : Ops(S) = {} <=> NumOps(S) = 0
  BY <1>1, FS_EmptySet DEF NumOps
<1>5. Cardinality(Queued) \in Nat /\ (Queued = {} <=> Cardinality(Queued) = 0)
  BY <1>2, FS_CardinalityType, FS_EmptySet
<1>6. Ops(Storing) \subseteq Ops(Busy) /\ Ops(Publishing) \subseteq Ops(Busy)
  BY DEF Ops, Storing, Publishing, Busy
<1>7. NumOps(Storing) <= NumOps(Busy) /\ NumOps(Publishing) <= NumOps(Busy)
  BY <1>1, <1>6, FS_Subset DEF NumOps
<1>8. Pollers({"uncount"}) \subseteq Pollers(Inside)
  BY DEF Pollers, Inside, PollerPC
<1>9. NumPollers({"uncount"}) <= NumPollers(Inside)
  BY <1>1, <1>8, FS_Subset DEF NumPollers
<1> QED BY <1>3, <1>4, <1>5, <1>7, <1>9 DEF CountsTyped, CountsNat

LEMMA OpMove ==
  ASSUME DOMAIN opc = Op, NEW o \in Op, NEW to, opc' = [opc EXCEPT ![o] = to]
  PROVE  /\ OpMoved(opc[o], to) /\ CountsTyped /\ CountsTyped'
         /\ \A S : opc[o] \in S => NumOps(S) >= 1
<1>1. \A S : NumOps(S) = Cardinality(Among(Op, opc, S)) /\ NumOps(S)' = Cardinality(Among(Op, opc', S))
  BY DEF NumOps, Ops, Among
<1>2. \A S : MovesCount(Op, opc, opc', o, to, S)
  BY CountMove, CompletionQueueAssumption
<1>3. \A S : NumOps(S)' + Bit(opc[o], S) = NumOps(S) + Bit(to, S) /\ (opc[o] \in S => NumOps(S) >= 1)
  BY <1>1, <1>2 DEF MovesCount
<1>4. CountsTyped'
  BY CountsAlwaysTyped, PTL
<1> QED BY <1>3, <1>4, CountsAlwaysTyped DEF OpMoved

LEMMA PollerMove ==
  ASSUME DOMAIN ppc = Poller, NEW p \in Poller, NEW to, ppc' = [ppc EXCEPT ![p] = to]
  PROVE  /\ PollerMoved(ppc[p], to) /\ CountsTyped /\ CountsTyped'
         /\ \A S : ppc[p] \in S => NumPollers(S) >= 1
<1>1. \A S : NumPollers(S) = Cardinality(Among(Poller, ppc, S))
             /\ NumPollers(S)' = Cardinality(Among(Poller, ppc', S))
  BY DEF NumPollers, Pollers, Among
<1>2. \A S : MovesCount(Poller, ppc, ppc', p, to, S)
  BY CountMove, CompletionQueueAssumption
<1>3. \A S : NumPollers(S)' + Bit(ppc[p], S) = NumPollers(S) + Bit(to, S)
             /\ (ppc[p] \in S => NumPollers(S) >= 1)
  BY <1>1, <1>2 DEF MovesCount
<1>4. CountsTyped'
  BY CountsAlwaysTyped, PTL
<1> QED BY <1>3, <1>4, CountsAlwaysTyped DEF PollerMoved

LEMMA Unmoved ==
  /\ UNCHANGED opc => \A S : NumOps(S)' = NumOps(S)
  /\ UNCHANGED ppc => \A S : NumPollers(S)' = NumPollers(S)
  /\ UNCHANGED queue => Queued' = Queued /\ Cardinality(Queued)' = Cardinality(Queued)
BY DEF NumOps, Ops, NumPollers, Pollers, Queued

\* The numbers of the invariant, as arithmetic.
PendingNumbers ==
  /\ pending = NumOps(Busy) + One(owner = "open")
  /\ NumOps(Storing) > 0 => pending = 1
  /\ dead => pending = 0
  /\ NumOps(Finishing) = One(pending = 0 /\ ~dead)
ItemsNumbers ==
  numItems = Cardinality(Queued) + NumPollers({"uncount"}) - NumOps(Publishing)
Anchor ==
  One(owner # "gone") + One(owner = "closing") + One(~dead \/ ring # <<>> \/ shutdownDone > 0)
RefsNumbers == refs = Anchor + NumPollers(Inside) + NumOps(Holding)
Numbers == PendingNumbers /\ ItemsNumbers /\ RefsNumbers

LEMMA NumbersMeaning == Numbers <=> PendingExact /\ ItemsExact /\ RefsExact
<1>1. CountsTyped
  BY CountsAlwaysTyped
<1>2. Ops(Storing) # {} <=> NumOps(Storing) > 0
  BY <1>1 DEF CountsTyped
<1> QED BY <1>2 DEF Numbers, PendingNumbers, ItemsNumbers, RefsNumbers, Anchor,
             PendingExact, ItemsExact, RefsExact, NumOps, NumPollers, Storing,
             Finishing, Publishing, Holding, Inside

Parts == TypeOK /\ Numbers /\ QueueOK /\ PopOK /\ ToldOK /\ RingOK /\ NeverBroken

LEMMA PartsMeaning == Parts <=> IInv
BY NumbersMeaning DEF Parts, IInv

LEMMA PartsNext == Parts' => IInv'
BY PartsMeaning, PTL

----------------------------------------------------------------------------
(* What the invariant says of a thread inside the queue *)

\* An operation under way keeps the queue open, whoever is inside keeps it allocated.
LEMMA OpInside ==
  ASSUME IInv, NEW o \in Op
  PROVE  /\ opc[o] \in Busy => pending >= 1 /\ ~dead /\ told = {} /\ refs >= 1
         /\ opc[o] \in Storing => pending = 1 /\ owner # "open"
         /\ opc[o] \in Finishing => pending = 0 /\ ~dead /\ refs >= 1 /\ owner # "open"
         /\ opc[o] \in Holding => refs >= 1
<1>1. Parts
  BY PartsMeaning
<1>2. /\ opc[o] \in Busy => NumOps(Busy) >= 1
      /\ opc[o] \in Storing => NumOps(Storing) >= 1
      /\ opc[o] \in Finishing => NumOps(Finishing) >= 1
      /\ opc[o] \in Holding => NumOps(Holding) >= 1
  <2>1. \A S : opc[o] \in S => Ops(S) # {}
    BY DEF Ops
  <2>2. \A S : NumOps(S) \in Nat /\ (Ops(S) = {} <=> NumOps(S) = 0)
    BY CountsAlwaysTyped DEF CountsTyped
  <2>3. \A S : opc[o] \in S => NumOps(S) >= 1
    <3> TAKE S
    <3> QED BY <2>1, <2>2
  <2> QED BY <2>3
<1>3. /\ NumOps(Busy) \in Nat /\ NumOps(Storing) \in Nat /\ NumOps(Finishing) \in Nat
      /\ NumOps(Holding) \in Nat /\ NumPollers(Inside) \in Nat
      /\ pending \in Int /\ refs \in Nat /\ Numbers
  BY <1>1, CountsAlwaysTyped DEF CountsTyped, Parts, TypeOK
<1>4. opc[o] \in Busy => pending >= 1 /\ ~dead /\ refs >= 1
  BY <1>2, <1>3 DEF Numbers, PendingNumbers, ItemsNumbers, RefsNumbers, Anchor, One
<1>5. opc[o] \in Busy => told = {}
  BY <1>1, <1>4 DEF Parts, ToldOK
<1>6. opc[o] \in Storing => pending = 1 /\ owner # "open"
  <2>1. opc[o] \in Storing => opc[o] \in Busy
    BY DEF Storing, Busy
  <2> QED BY <1>2, <1>3, <2>1 DEF Numbers, PendingNumbers, ItemsNumbers, RefsNumbers, Anchor, One
<1>7. opc[o] \in Finishing => pending = 0 /\ ~dead /\ refs >= 1 /\ owner # "open"
  <2> HAVE opc[o] \in Finishing
  <2>1. One(pending = 0 /\ ~dead) >= 1
    BY <1>2, <1>3 DEF Numbers, PendingNumbers, ItemsNumbers, RefsNumbers, Anchor
  <2>2. pending = 0 /\ ~dead
    BY <2>1 DEF One
  <2> QED BY <1>3, <2>2 DEF Numbers, PendingNumbers, ItemsNumbers, RefsNumbers, Anchor, One
<1>8. opc[o] \in Holding => refs >= 1
  BY <1>2, <1>3 DEF Numbers, PendingNumbers, ItemsNumbers, RefsNumbers, Anchor, One
<1> QED BY <1>4, <1>5, <1>6, <1>7, <1>8

LEMMA OthersInside ==
  ASSUME IInv
  PROVE  /\ \A p \in Poller : ppc[p] # "out" => refs >= 1
         /\ owner # "gone" => refs >= 1
         /\ shutdownDone > 0 => refs >= 1
<1>1. Parts /\ CountsTyped
  BY PartsMeaning, CountsAlwaysTyped
<1>2. /\ \A S : NumOps(S) \in Nat /\ NumPollers(S) \in Nat
      /\ refs \in Nat /\ Numbers
  BY <1>1 DEF CountsTyped, Parts, TypeOK
<1>3. ASSUME NEW p \in Poller, ppc[p] # "out" PROVE refs >= 1
  <2>1. ppc[p] \in Inside /\ DOMAIN ppc = Poller
    BY <1>1, <1>3 DEF Inside, Parts, TypeOK
  <2>2. Pollers(Inside) # {} /\ IsFiniteSet(Pollers(Inside))
    <3>1. p \in Pollers(Inside) /\ Pollers(Inside) \subseteq Poller
      BY <2>1 DEF Pollers
    <3> QED BY <3>1, CompletionQueueAssumption, FS_Subset
  <2>3. NumPollers(Inside) >= 1
    <3>1. NumPollers(Inside) # 0
      BY <2>2, FS_EmptySet DEF NumPollers
    <3> QED BY <1>2, <3>1
  <2> QED BY <1>2, <2>3 DEF Numbers, PendingNumbers, ItemsNumbers, RefsNumbers, Anchor, One
<1>4. owner # "gone" => refs >= 1
  BY <1>2 DEF Numbers, PendingNumbers, ItemsNumbers, RefsNumbers, Anchor, One
<1>5. shutdownDone > 0 => refs >= 1
  BY <1>2 DEF Numbers, PendingNumbers, ItemsNumbers, RefsNumbers, Anchor, One
<1> QED BY <1>3, <1>4, <1>5

\* An operation's step that moves no event leaves queue and pops as they were.
LEMMA OpFrame ==
  ASSUME IInv, NEW o \in Op, NEW to \in OpPC \ {"link"}, opc' = [opc EXCEPT ![o] = to],
         to \in Unpushed => opc[o] \in Unpushed,
         UNCHANGED <<queue, lock, ppc, taken>>
  PROVE  QueueOK' /\ PopOK'
<1>1. TypeOK /\ QueueOK /\ PopOK
  BY DEF IInv
<1>2. DOMAIN opc = Op /\ opc'[o] = to /\ \A q \in Op \ {o} : opc'[q] = opc[q]
  BY <1>1 DEF TypeOK
<1>3. \A n \in Op \cup {Stub} : Linked(n) => Linked(n)'
  BY <1>2 DEF Linked
<1>4. queue \in Seq(Op \cup {Stub})
  BY <1>1 DEF TypeOK
<1>5. Len(queue) \in Nat /\ \A i \in 1..Len(queue) : queue[i] \in Op \cup {Stub}
  BY <1>4, LenProperties
<1>6. Followed(queue) => Followed(queue)'
  BY <1>3, <1>5 DEF Followed
<1>7. queue # <<>> => Head(queue) \in Op \cup {Stub}
  BY <1>4, HeadTailProperties
<1>8. QueueOK'
  <2>1. queue' # <<>> /\ IsInjective(queue') /\ Linked(Head(queue))'
    BY <1>1, <1>3, <1>7 DEF QueueOK
  <2>2. (Queued \cap Ops(Unpushed))' = {}
    BY <1>1, <1>2 DEF QueueOK, Ops, Queued
  <2>3. (Ops({"link"}) \subseteq Queued)'
    BY <1>1, <1>2 DEF QueueOK, Ops, Queued
  <2> QED BY <2>1, <2>2, <2>3 DEF QueueOK
<1>9. PopOK'
  <2>1. Queued' = Queued /\ \A S : Pollers(S)' = Pollers(S)
    BY DEF Queued, Pollers
  <2>2. \A p \in Poller : taken'[p] \notin Ops(Unpushed)'
    BY <1>1, <1>2 DEF PopOK, Ops
  <2>3. \A p \in Pollers({"unlock"})' :
          taken'[p] # Nobody => taken'[p] = Head(queue)' /\ Followed(queue)'
    BY <1>1, <1>6, <2>1 DEF PopOK
  <2> QED BY <1>1, <2>1, <2>2, <2>3 DEF PopOK
<1> QED BY <1>8, <1>9

LEMMA RingFrame ==
  ASSUME IInv, UNCHANGED <<ring, ppc>>, kicked' \subseteq kicked \cup Range(ring),
         shutdownDone' > 0 => dead' /\ ring' = <<>>
  PROVE  RingOK'
<1>1. RingOK
  BY DEF IInv
<1>2. Pollers({"asleep"})' = Pollers({"asleep"})
  BY DEF Pollers
<1> QED BY <1>1, <1>2 DEF RingOK

LEMMA KickKeeps ==
  ASSUME IInv, Kick
  PROVE  /\ UNCHANGED <<ring, dead, shutdownDone>> /\ kicked' \subseteq kicked \cup Range(ring)
         /\ kicked' \subseteq Poller /\ spare' \in BOOLEAN
<1>1. TypeOK /\ RingOK
  BY DEF IInv
<1>2. ring # <<>> => Head(ring) \in Range(ring) /\ Head(ring) \in Poller
  <2> HAVE ring # <<>>
  <2>1. ring \in Seq(Poller) /\ IsInjective(ring)
    BY <1>1 DEF TypeOK, RingOK
  <2> QED BY <2>1, TailElements, HeadTailProperties
<1> QED BY <1>1, <1>2 DEF Kick, TypeOK

\* The poller is shut down once.
LEMMA PollerShutdownKeeps ==
  ASSUME IInv, ~dead, PollerShutdown
  PROVE  /\ UNCHANGED <<ring, kicked, spare>> /\ dead' = TRUE /\ shutdownDone = 0
         /\ shutdownDone' \in 0..1 /\ (shutdownDone' > 0 <=> ring = <<>>)
<1>1. TypeOK /\ RingOK
  BY DEF IInv
<1>2. shutdownDone = 0
  BY <1>1 DEF TypeOK, RingOK
<1> QED BY <1>2 DEF PollerShutdown

----------------------------------------------------------------------------
(* Operations' steps *)

\* What an operation's step owes the invariant when it moves no event: the
\* numbers, the types of what it assigned, and the sleepers.
LEMMA OpStepDone ==
  ASSUME IInv, NEW o \in Op, NEW to \in OpPC \ {"link"}, opc' = [opc EXCEPT ![o] = to],
         to \in Unpushed => opc[o] \in Unpushed,
         UNCHANGED <<queueVars, pollerVars, owner, ring>>,
         numItems' \in Int, pending' \in Int, pending = 0 => pending' = 0,
         kicked' \subseteq kicked \cup Range(ring), kicked' \subseteq Poller,
         spare' \in BOOLEAN, dead' \in BOOLEAN, shutdownDone' \in 0..1,
         shutdownDone' > 0 => dead' /\ ring = <<>>,
         refs' \in Nat, broken' = FALSE, Numbers'
  PROVE  IInv'
<1>1. Parts
  BY PartsMeaning
<1>2. UNCHANGED <<queue, lock, ppc, taken, zero, mayExpire, told, owner, ring>>
  BY DEF queueVars, pollerVars
<1>3. opc' \in [Op -> OpPC]
  BY <1>1 DEF Parts, TypeOK
<1>4. TypeOK'
  BY <1>1, <1>2, <1>3 DEF Parts, TypeOK
<1>5. QueueOK' /\ PopOK'
  BY <1>2, OpFrame
<1>6. ToldOK'
  <2>1. Queued' = Queued /\ Pollers({"drained"})' = Pollers({"drained"})
    BY <1>2 DEF Queued, Pollers
  <2> QED BY <1>1, <1>2, <2>1 DEF Parts, ToldOK
<1>7. RingOK'
  BY <1>2, RingFrame
<1> QED BY <1>4, <1>5, <1>6, <1>7, PartsNext DEF Parts, NeverBroken

\* The numbers after an operation's step that moves no event, in the terms of
\* those before it.
PendingAfterOp ==
  /\ pending' = NumOps(Busy)' + One(owner' = "open")
  /\ NumOps(Storing)' > 0 => pending' = 1
  /\ dead' => pending' = 0
  /\ NumOps(Finishing)' = One(pending' = 0 /\ ~dead')
ItemsAfterOp ==
  numItems' = Cardinality(Queued) + NumPollers({"uncount"}) - NumOps(Publishing)'
RefsAfterOp == refs' = Anchor' + NumPollers(Inside) + NumOps(Holding)'

LEMMA AnchorStays ==
  /\ Anchor \in Nat
  /\ UNCHANGED <<owner, ring, dead, shutdownDone>> => Anchor' = Anchor
BY DEF Anchor, One

LEMMA AfterOp ==
  ASSUME UNCHANGED <<queue, ppc>>, PendingAfterOp, ItemsAfterOp, RefsAfterOp
  PROVE  Numbers'
BY Unmoved DEF PendingAfterOp, ItemsAfterOp, RefsAfterOp, Numbers, PendingNumbers,
               ItemsNumbers, RefsNumbers

\* What is known of the numbers while o is at "from" and moves to "to".
LEMMA OpCounts ==
  ASSUME IInv, NEW o \in Op, NEW to, opc' = [opc EXCEPT ![o] = to]
  PROVE  /\ PendingNumbers /\ ItemsNumbers /\ RefsNumbers /\ OpMoved(opc[o], to) /\ CountsNat /\ CountsNat'
         /\ pending \in Int /\ numItems \in Int /\ refs \in Nat /\ dead \in BOOLEAN
<1>1. Parts /\ DOMAIN opc = Op
  BY PartsMeaning DEF Parts, TypeOK
<1> QED BY <1>1, OpMove DEF Parts, TypeOK, CountsTyped, Numbers

CountsBy(b, s, f, p, h) ==
  /\ NumOps(Busy)' = NumOps(Busy) + b /\ NumOps(Storing)' = NumOps(Storing) + s
  /\ NumOps(Finishing)' = NumOps(Finishing) + f
  /\ NumOps(Publishing)' = NumOps(Publishing) + p /\ NumOps(Holding)' = NumOps(Holding) + h

\* A step between places that count the same.
LEMMA QuietOpStep ==
  ASSUME IInv, NEW o \in Op, NEW to \in OpPC \ {"link"}, opc' = [opc EXCEPT ![o] = to],
         to \in Unpushed => opc[o] \in Unpushed,
         \A S \in {Busy, Storing, Finishing, Publishing, Holding} : opc[o] \in S <=> to \in S,
         UNCHANGED <<queueVars, numItems, pending, pollerVars, ring, dead, shutdownDone, lifeVars>>,
         kicked' \subseteq kicked \cup Range(ring), kicked' \subseteq Poller,
         spare' \in BOOLEAN, broken' = FALSE
  PROVE  IInv'
<1>1. TypeOK /\ RingOK
  BY DEF IInv
<1>2. UNCHANGED <<queue, ppc, ring, dead, shutdownDone, owner, refs>>
  BY DEF queueVars, pollerVars, lifeVars
<1>3. /\ PendingNumbers /\ ItemsNumbers /\ RefsNumbers /\ OpMoved(opc[o], to) /\ CountsNat /\ CountsNat'
      /\ pending \in Int /\ numItems \in Int /\ refs \in Nat /\ dead \in BOOLEAN
  BY OpCounts
<1>4. CountsBy(0, 0, 0, 0, 0)
  <2>1. \A S \in {Busy, Storing, Finishing, Publishing, Holding} : Bit(opc[o], S) = Bit(to, S)
    BY DEF Bit
  <2>2. \A S : Bit(to, S) \in Int
    BY DEF Bit
  <2> QED BY <1>3, <2>1, <2>2 DEF OpMoved, CountsBy, CountsNat
<1>5. PendingAfterOp
  BY <1>2, <1>3, <1>4 DEF PendingNumbers, PendingAfterOp, CountsNat, CountsBy, One
<1>6. ItemsAfterOp
  BY <1>2, <1>3, <1>4 DEF ItemsNumbers, ItemsAfterOp, CountsNat, CountsBy
<1>7. RefsAfterOp
  BY <1>2, <1>3, <1>4, AnchorStays DEF RefsNumbers, RefsAfterOp, CountsNat, CountsBy
<1>8. Numbers'
  BY <1>2, <1>5, <1>6, <1>7, AfterOp
<1>9. /\ numItems' \in Int /\ pending' \in Int /\ refs' \in Nat /\ dead' \in BOOLEAN
      /\ shutdownDone' \in 0..1 /\ (shutdownDone' > 0 => dead' /\ ring = <<>>)
  BY <1>1, <1>2 DEF TypeOK, RingOK
<1> QED BY <1>2, <1>8, <1>9, OpStepDone

\* A step that wakes nobody.
LEMMA AwakeOpStep ==
  ASSUME IInv, NEW o \in Op, NEW to \in OpPC \ {"link"}, opc' = [opc EXCEPT ![o] = to],
         to \in Unpushed => opc[o] \in Unpushed,
         UNCHANGED <<queueVars, pollerVars, sleepVars, owner>>,
         numItems' \in Int, pending' \in Int, refs' \in Nat, pending = 0 => pending' = 0,
         broken' = FALSE, PendingAfterOp, ItemsAfterOp, RefsAfterOp
  PROVE  IInv'
<1>1. TypeOK /\ RingOK
  BY DEF IInv
<1>2. UNCHANGED <<queue, ppc, ring, kicked, spare, dead, shutdownDone>>
  BY DEF queueVars, pollerVars, sleepVars
<1>3. Numbers'
  BY <1>2, AfterOp
<1>4. /\ dead' \in BOOLEAN /\ spare' \in BOOLEAN /\ shutdownDone' \in 0..1
      /\ kicked' \subseteq kicked \cup Range(ring) /\ kicked' \subseteq Poller
      /\ shutdownDone' > 0 => dead' /\ ring = <<>>
  BY <1>1, <1>2 DEF TypeOK, RingOK
<1> QED BY <1>2, <1>3, <1>4, OpStepDone

LEMMA BeginOpStep ==
  ASSUME IInv, NEW o \in Op, BeginOp(o)
  PROVE  IInv'
<1>1. TypeOK /\ RingOK /\ ~broken
  BY DEF IInv, NeverBroken
<1>2. /\ opc[o] = "new" /\ owner # "gone" /\ (owner = "open" \/ pending = 0)
      /\ UNCHANGED <<numItems, queue, ppc, ring, kicked, spare, dead, shutdownDone, owner, refs>>
  BY DEF BeginOp, At, queueVars, pollerVars, sleepVars, lifeVars
<1>3. broken' = FALSE
  BY <1>1, <1>2, OthersInside DEF BeginOp, Touch, TypeOK
<1>4. UNCHANGED <<queueVars, numItems, pollerVars, sleepVars, lifeVars>>
  BY DEF BeginOp
<1>5. CASE pending # 0
  <2>1. opc' = [opc EXCEPT ![o] = "begun"] /\ pending' = pending + 1 /\ owner = "open"
    BY <1>2, <1>5 DEF BeginOp, At
  <2>2. /\ PendingNumbers /\ ItemsNumbers /\ RefsNumbers /\ OpMoved("new", "begun") /\ CountsNat /\ CountsNat'
        /\ pending \in Int /\ numItems \in Int /\ refs \in Nat /\ dead \in BOOLEAN
    BY <1>2, <2>1, OpCounts
  <2>3. CountsBy(1, 0, 0, 0, 0)
    BY <2>2 DEF OpMoved, CountsBy, CountsNat, Bit, Busy, Storing, Finishing, Publishing, Holding
  <2>4. PendingAfterOp
    BY <1>2, <1>5, <2>1, <2>2, <2>3 DEF PendingNumbers, PendingAfterOp, CountsNat, CountsBy, One
  <2>5. ItemsAfterOp
    BY <1>2, <2>1, <2>2, <2>3 DEF ItemsNumbers, ItemsAfterOp, CountsNat, CountsBy
  <2>6. RefsAfterOp
    BY <1>2, <2>1, <2>2, <2>3, AnchorStays DEF RefsNumbers, RefsAfterOp, CountsNat, CountsBy
  <2>7. pending' \in Int /\ (pending = 0 => pending' = 0) /\ numItems' \in Int /\ refs' \in Nat
    BY <1>2, <1>5, <2>1, <2>2
  <2> QED BY <1>2, <1>3, <1>4, <2>1, <2>4, <2>5, <2>6, <2>7, AwakeOpStep DEF OpPC, Unpushed
<1>6. CASE pending = 0
  <2>1. opc' = [opc EXCEPT ![o] = "refused"] /\ pending' = pending
    BY <1>2, <1>6 DEF BeginOp, At
  <2> QED BY <1>1, <1>2, <1>3, <1>4, <2>1, QuietOpStep
          DEF TypeOK, OpPC, Unpushed, Busy, Storing, Finishing, Publishing, Holding
<1> QED BY <1>5, <1>6

\* Steps that only move the operation.
LEMMA QuietOpSteps ==
  ASSUME IInv, NEW o \in Op,
         Cache(o) \/ Flush(o) \/ Link(o) \/ KickOne(o) \/ (LoadPending(o) /\ pending # 1)
  PROVE  IInv'
<1>1. TypeOK /\ ~broken
  BY DEF IInv, NeverBroken
<1>2. PICK from \in {"begun", "cached", "link", "kick", "loadFirst", "load"},
           to \in {"cached", "sub", "count", "kick"} :
        /\ opc[o] = from /\ opc' = [opc EXCEPT ![o] = to]
        /\ to = "cached" => from = "begun"
        /\ from = "link" <=> to = "count"
  BY DEF Cache, Flush, Link, KickOne, LoadPending, At
<1>3. broken' = FALSE
  BY <1>1, <1>2, OpInside DEF Cache, Flush, Link, KickOne, LoadPending, Touch, TypeOK, Busy
<1>4. /\ UNCHANGED <<queueVars, numItems, pending, pollerVars, ring, dead, shutdownDone, lifeVars>>
      /\ kicked' \subseteq kicked \cup Range(ring) /\ kicked' \subseteq Poller
      /\ spare' \in BOOLEAN
  BY <1>1, KickKeeps DEF Cache, Flush, Link, KickOne, LoadPending, sleepVars, TypeOK
<1> QED BY <1>2, <1>3, <1>4, QuietOpStep
        DEF OpPC, Unpushed, Busy, Storing, Finishing, Publishing, Holding

\* The count follows the event.
LEMMA CountItemStep ==
  ASSUME IInv, NEW o \in Op, CountItem(o)
  PROVE  IInv'
<1>1. TypeOK /\ ~broken
  BY DEF IInv, NeverBroken
<1>2. PICK to \in {"loadFirst", "load"} : opc[o] = "count" /\ opc' = [opc EXCEPT ![o] = to]
  BY DEF CountItem, At
<1>3. /\ numItems' = numItems + 1
      /\ UNCHANGED <<pending, queue, ppc, ring, dead, shutdownDone, owner, refs>>
  BY DEF CountItem, queueVars, pollerVars, sleepVars, lifeVars
<1>4. UNCHANGED <<queueVars, pollerVars, sleepVars, owner>>
  BY DEF CountItem, lifeVars
<1>5. broken' = FALSE
  BY <1>1, <1>2, OpInside DEF CountItem, Touch, Busy, TypeOK
<1>6. /\ PendingNumbers /\ ItemsNumbers /\ RefsNumbers /\ OpMoved("count", to) /\ CountsNat /\ CountsNat'
      /\ pending \in Int /\ numItems \in Int /\ refs \in Nat /\ dead \in BOOLEAN
  BY <1>2, OpCounts
<1>7. CountsBy(0, 0, 0, -1, 0)
  BY <1>2, <1>6 DEF OpMoved, CountsBy, CountsNat, Bit, Busy, Storing, Finishing, Publishing, Holding
<1>8. PendingAfterOp
  BY <1>3, <1>6, <1>7 DEF PendingNumbers, PendingAfterOp, CountsNat, CountsBy, One
<1>9. ItemsAfterOp
  BY <1>3, <1>6, <1>7 DEF ItemsNumbers, ItemsAfterOp, CountsNat, CountsBy
<1>10. RefsAfterOp
  BY <1>3, <1>6, <1>7, AnchorStays DEF RefsNumbers, RefsAfterOp, CountsNat, CountsBy
<1>11. pending' \in Int /\ (pending = 0 => pending' = 0) /\ numItems' \in Int /\ refs' \in Nat
  BY <1>3, <1>6
<1> QED BY <1>2, <1>4, <1>5, <1>8, <1>9, <1>10, <1>11, AwakeOpStep DEF OpPC, Unpushed

\* The last event of a queue that shuts down.
LEMMA LoadPendingLastStep ==
  ASSUME IInv, NEW o \in Op, LoadPending(o), pending = 1
  PROVE  IInv'
<1>1. TypeOK /\ ~broken
  BY DEF IInv, NeverBroken
<1>2. PICK from \in {"loadFirst", "load"} : opc[o] = from /\ opc' = [opc EXCEPT ![o] = "refStore"]
  BY DEF LoadPending, At
<1>3. UNCHANGED <<numItems, pending, queue, ppc, ring, dead, shutdownDone, owner, refs>>
  BY DEF LoadPending, queueVars, pollerVars, sleepVars, lifeVars
<1>4. UNCHANGED <<queueVars, pollerVars, sleepVars, owner>>
  BY DEF LoadPending, lifeVars
<1>5. broken' = FALSE
  BY <1>1, <1>2, OpInside DEF LoadPending, Touch, Busy, TypeOK
<1>6. /\ PendingNumbers /\ ItemsNumbers /\ RefsNumbers /\ OpMoved(from, "refStore") /\ CountsNat /\ CountsNat'
      /\ pending \in Int /\ numItems \in Int /\ refs \in Nat /\ dead \in BOOLEAN
  BY <1>2, OpCounts
<1>7. CountsBy(0, 1, 0, 0, 0)
  BY <1>2, <1>6 DEF OpMoved, CountsBy, CountsNat, Bit, Busy, Storing, Finishing, Publishing, Holding
<1>8. PendingAfterOp
  BY <1>3, <1>6, <1>7 DEF PendingNumbers, PendingAfterOp, CountsNat, CountsBy, One
<1>9. ItemsAfterOp
  BY <1>3, <1>6, <1>7 DEF ItemsNumbers, ItemsAfterOp, CountsNat, CountsBy
<1>10. RefsAfterOp
  BY <1>3, <1>6, <1>7, AnchorStays DEF RefsNumbers, RefsAfterOp, CountsNat, CountsBy
<1>11. pending' \in Int /\ (pending = 0 => pending' = 0) /\ numItems' \in Int /\ refs' \in Nat
  BY <1>3, <1>6
<1> QED BY <1>2, <1>4, <1>5, <1>8, <1>9, <1>10, <1>11, AwakeOpStep DEF OpPC, Unpushed

\* The end of an operation; the one that ends last is to finish the shutdown.
LEMMA SubPendingStep ==
  ASSUME IInv, NEW o \in Op, SubPending(o)
  PROVE  IInv'
<1>1. TypeOK /\ ~broken
  BY DEF IInv, NeverBroken
<1>2. PICK to \in {"ref", "done"} :
        opc[o] = "sub" /\ opc' = [opc EXCEPT ![o] = to] /\ (to = "ref" <=> pending = 1)
  BY DEF SubPending, At
<1>3. /\ pending' = pending - 1
      /\ UNCHANGED <<numItems, queue, ppc, ring, dead, shutdownDone, owner, refs>>
  BY DEF SubPending, queueVars, pollerVars, sleepVars, lifeVars
<1>4. UNCHANGED <<queueVars, pollerVars, sleepVars, owner>>
  BY DEF SubPending, lifeVars
<1>5. broken' = FALSE /\ pending >= 1 /\ ~dead
  BY <1>1, <1>2, OpInside DEF SubPending, Touch, Busy, TypeOK
<1>6. /\ PendingNumbers /\ ItemsNumbers /\ RefsNumbers /\ OpMoved("sub", to) /\ CountsNat /\ CountsNat'
      /\ pending \in Int /\ numItems \in Int /\ refs \in Nat /\ dead \in BOOLEAN
  BY <1>2, OpCounts
<1>7. CountsBy(-1, 0, IF to = "ref" THEN 1 ELSE 0, 0, 0)
  BY <1>2, <1>6 DEF OpMoved, CountsBy, CountsNat, Bit, Busy, Storing, Finishing, Publishing, Holding
<1>8. PendingAfterOp
  <2>1. pending' = NumOps(Busy)' + One(owner' = "open") /\ ~dead'
    BY <1>3, <1>5, <1>6, <1>7 DEF PendingNumbers, CountsNat, CountsBy, One
  <2>2. NumOps(Storing)' > 0 => pending' = 1
    <3>1. CASE pending = 1
      BY <1>3, <1>6, <2>1, <3>1 DEF CountsNat, One
    <3>2. CASE pending # 1
      BY <1>6, <1>7, <3>2 DEF PendingNumbers, CountsNat, CountsBy
    <3> QED BY <3>1, <3>2
  <2>3. NumOps(Finishing)' = One(pending' = 0 /\ ~dead')
    BY <1>2, <1>3, <1>5, <1>6, <1>7, <2>1 DEF PendingNumbers, CountsNat, CountsBy, One
  <2> QED BY <2>1, <2>2, <2>3 DEF PendingAfterOp
<1>9. ItemsAfterOp
  BY <1>3, <1>6, <1>7 DEF ItemsNumbers, ItemsAfterOp, CountsNat, CountsBy
<1>10. RefsAfterOp
  BY <1>3, <1>6, <1>7, AnchorStays DEF RefsNumbers, RefsAfterOp, CountsNat, CountsBy
<1>11. pending' \in Int /\ (pending = 0 => pending' = 0) /\ numItems' \in Int /\ refs' \in Nat
  BY <1>3, <1>5, <1>6
<1> QED BY <1>2, <1>4, <1>5, <1>8, <1>9, <1>10, <1>11, AwakeOpStep DEF OpPC, Unpushed

\* A reference of its own for the one that finishes the shutdown.
LEMMA RefOpStep ==
  ASSUME IInv, NEW o \in Op, RefOp(o)
  PROVE  IInv'
<1>1. TypeOK /\ ~broken
  BY DEF IInv, NeverBroken
<1>2. PICK from \in {"ref", "refStore"}, to \in {"finish", "store"} :
        opc[o] = from /\ opc' = [opc EXCEPT ![o] = to] /\ (from = "ref" <=> to = "finish")
  BY DEF RefOp, At
<1>3. /\ refs' = refs + 1
      /\ UNCHANGED <<numItems, pending, queue, ppc, ring, dead, shutdownDone, owner>>
  BY DEF RefOp, queueVars, pollerVars, sleepVars
<1>4. UNCHANGED <<queueVars, pollerVars, sleepVars, owner>>
  BY DEF RefOp
<1>5. broken' = FALSE
  BY <1>1, <1>2, OpInside DEF RefOp, Touch, Busy, Finishing, TypeOK
<1>6. /\ PendingNumbers /\ ItemsNumbers /\ RefsNumbers /\ OpMoved(from, to) /\ CountsNat /\ CountsNat'
      /\ pending \in Int /\ numItems \in Int /\ refs \in Nat /\ dead \in BOOLEAN
  BY <1>2, OpCounts
<1>7. CountsBy(0, 0, 0, 0, 1)
  BY <1>2, <1>6 DEF OpMoved, CountsBy, CountsNat, Bit, Busy, Storing, Finishing, Publishing, Holding
<1>8. PendingAfterOp
  BY <1>3, <1>6, <1>7 DEF PendingNumbers, PendingAfterOp, CountsNat, CountsBy, One
<1>9. ItemsAfterOp
  BY <1>3, <1>6, <1>7 DEF ItemsNumbers, ItemsAfterOp, CountsNat, CountsBy
<1>10. RefsAfterOp
  BY <1>3, <1>6, <1>7, AnchorStays DEF RefsNumbers, RefsAfterOp, CountsNat, CountsBy
<1>11. pending' \in Int /\ (pending = 0 => pending' = 0) /\ numItems' \in Int /\ refs' \in Nat
  BY <1>3, <1>6
<1> QED BY <1>2, <1>4, <1>5, <1>8, <1>9, <1>10, <1>11, AwakeOpStep DEF OpPC, Unpushed

\* The operation that stores zero is the only one under way.
LEMMA StorePendingStep ==
  ASSUME IInv, NEW o \in Op, StorePending(o)
  PROVE  IInv'
<1>1. TypeOK /\ ~broken
  BY DEF IInv, NeverBroken
<1>2. opc[o] = "store" /\ opc' = [opc EXCEPT ![o] = "finish"]
  BY DEF StorePending, At
<1>3. /\ pending' = 0
      /\ UNCHANGED <<numItems, queue, ppc, ring, dead, shutdownDone, owner, refs>>
  BY DEF StorePending, queueVars, pollerVars, sleepVars, lifeVars
<1>4. UNCHANGED <<queueVars, pollerVars, sleepVars, owner>>
  BY DEF StorePending, lifeVars
<1>5. broken' = FALSE /\ pending = 1 /\ ~dead /\ owner # "open"
  BY <1>1, <1>2, OpInside DEF StorePending, Touch, Busy, Storing, TypeOK
<1>6. /\ PendingNumbers /\ ItemsNumbers /\ RefsNumbers /\ OpMoved("store", "finish") /\ CountsNat /\ CountsNat'
      /\ pending \in Int /\ numItems \in Int /\ refs \in Nat /\ dead \in BOOLEAN
  BY <1>2, OpCounts
<1>7. CountsBy(-1, -1, 1, 0, 0)
  BY <1>6 DEF OpMoved, CountsBy, CountsNat, Bit, Busy, Storing, Finishing, Publishing, Holding
<1>8. PendingAfterOp
  BY <1>3, <1>5, <1>6, <1>7 DEF PendingNumbers, PendingAfterOp, CountsNat, CountsBy, One
<1>9. ItemsAfterOp
  BY <1>3, <1>6, <1>7 DEF ItemsNumbers, ItemsAfterOp, CountsNat, CountsBy
<1>10. RefsAfterOp
  BY <1>3, <1>6, <1>7, AnchorStays DEF RefsNumbers, RefsAfterOp, CountsNat, CountsBy
<1>11. pending' \in Int /\ (pending = 0 => pending' = 0) /\ numItems' \in Int /\ refs' \in Nat
  BY <1>3, <1>6
<1> QED BY <1>2, <1>4, <1>5, <1>8, <1>9, <1>10, <1>11, AwakeOpStep DEF OpPC, Unpushed

\* cq_finish_shutdown_next finds what it checks, and hands the poller's
\* reference over to the poller's closure.
LEMMA FinishStep ==
  ASSUME IInv, NEW o \in Op, Finish(o)
  PROVE  IInv'
<1>1. TypeOK /\ ~broken
  BY DEF IInv, NeverBroken
<1>2. opc[o] = "finish" /\ opc' = [opc EXCEPT ![o] = "unref"]
  BY DEF Finish, At
<1>3. UNCHANGED <<numItems, pending, queue, ppc, owner, refs>>
  BY DEF Finish, queueVars, pollerVars, lifeVars
<1>4. pending = 0 /\ ~dead /\ refs >= 1 /\ owner # "open"
  BY <1>2, OpInside DEF Finishing
<1>5. broken' = FALSE
  BY <1>1, <1>4 DEF Finish, FinishShutdown, TypeOK
<1>6. /\ UNCHANGED <<ring, kicked, spare>> /\ dead' = TRUE /\ shutdownDone = 0
      /\ shutdownDone' \in 0..1 /\ (shutdownDone' > 0 <=> ring = <<>>)
  BY <1>4, PollerShutdownKeeps DEF Finish, FinishShutdown
<1>7. /\ PendingNumbers /\ ItemsNumbers /\ RefsNumbers /\ OpMoved("finish", "unref") /\ CountsNat /\ CountsNat'
      /\ pending \in Int /\ numItems \in Int /\ refs \in Nat /\ dead \in BOOLEAN
  BY <1>2, OpCounts
<1>8. CountsBy(0, 0, -1, 0, 0)
  BY <1>7 DEF OpMoved, CountsBy, CountsNat, Bit, Busy, Storing, Finishing, Publishing, Holding
<1>9. PendingAfterOp
  BY <1>3, <1>4, <1>6, <1>7, <1>8 DEF PendingNumbers, PendingAfterOp, CountsNat, CountsBy, One
<1>10. ItemsAfterOp
  BY <1>3, <1>7, <1>8 DEF ItemsNumbers, ItemsAfterOp, CountsNat, CountsBy
<1>11. RefsAfterOp
  <2>1. Anchor' = Anchor
    BY <1>3, <1>4, <1>6 DEF Anchor, One
  <2> QED BY <1>3, <1>7, <1>8, <2>1, AnchorStays DEF RefsNumbers, RefsAfterOp, CountsNat, CountsBy
<1>12. Numbers'
  BY <1>3, <1>9, <1>10, <1>11, AfterOp
<1>13. UNCHANGED <<queueVars, pollerVars, owner, ring>>
  BY <1>3, <1>6 DEF Finish
<1>14. /\ numItems' \in Int /\ pending' \in Int /\ (pending = 0 => pending' = 0) /\ refs' \in Nat
       /\ kicked' \subseteq kicked \cup Range(ring) /\ kicked' \subseteq Poller
       /\ spare' \in BOOLEAN /\ dead' \in BOOLEAN
  BY <1>1, <1>3, <1>6, <1>7 DEF TypeOK
<1> QED BY <1>2, <1>5, <1>6, <1>12, <1>13, <1>14, OpStepDone DEF OpPC, Unpushed

\* A queue whose shutdown was told has nothing counted in it but what a
\* poller has yet to uncount.
LEMMA NothingCounted ==
  ASSUME IInv, told # {}, NumPollers({"uncount"}) = 0
  PROVE  numItems = 0
<1>1. PendingNumbers /\ ItemsNumbers /\ CountsNat /\ pending \in Int /\ ToldOK
  BY PartsMeaning, CountsAlwaysTyped DEF Parts, Numbers, CountsTyped, TypeOK
<1>2. pending = 0 /\ Cardinality(Queued) = 0
  BY <1>1 DEF ToldOK, CountsNat
<1>3. NumOps(Publishing) = 0
  BY <1>1, <1>2 DEF PendingNumbers, CountsNat, One
<1> QED BY <1>1, <1>2, <1>3 DEF ItemsNumbers

LEMMA UnrefOpStep ==
  ASSUME IInv, NEW o \in Op, UnrefOp(o)
  PROVE  IInv'
<1>1. TypeOK /\ ToldOK /\ ~broken
  BY DEF IInv, NeverBroken
<1>2. opc[o] = "unref" /\ opc' = [opc EXCEPT ![o] = "done"]
  BY DEF UnrefOp, At
<1>3. /\ refs' = refs - 1
      /\ UNCHANGED <<numItems, pending, queue, ppc, ring, dead, shutdownDone, owner>>
  BY DEF UnrefOp, Unref, queueVars, pollerVars, sleepVars
<1>4. UNCHANGED <<queueVars, pollerVars, sleepVars, owner>>
  BY DEF UnrefOp
<1>5. /\ PendingNumbers /\ ItemsNumbers /\ RefsNumbers /\ OpMoved("unref", "done") /\ CountsNat /\ CountsNat'
      /\ pending \in Int /\ numItems \in Int /\ refs \in Nat /\ dead \in BOOLEAN
  BY <1>2, OpCounts
<1>6. CountsBy(0, 0, 0, 0, -1)
  BY <1>5 DEF OpMoved, CountsBy, CountsNat, Bit, Busy, Storing, Finishing, Publishing, Holding
<1>7. broken' = FALSE
  <2>1. refs >= 1
    BY <1>2, OpInside DEF Holding
  <2>2. ASSUME refs = 1 PROVE numItems = 0
    <3>1. NumOps(Holding) >= 1
      BY <1>5, <1>6 DEF CountsBy, CountsNat
    <3>2. Anchor = 0 /\ NumPollers(Inside) = 0
      BY <1>5, <2>2, <3>1, AnchorStays DEF RefsNumbers, CountsNat
    <3>3. owner = "gone" /\ NumPollers({"uncount"}) = 0
      BY <1>5, <3>2 DEF Anchor, One, CountsNat
    <3> QED BY <1>1, <3>3, NothingCounted DEF ToldOK
  <2> QED BY <1>1, <2>1, <2>2 DEF UnrefOp, Unref, TypeOK
<1>8. PendingAfterOp
  BY <1>3, <1>5, <1>6 DEF PendingNumbers, PendingAfterOp, CountsNat, CountsBy, One
<1>9. ItemsAfterOp
  BY <1>3, <1>5, <1>6 DEF ItemsNumbers, ItemsAfterOp, CountsNat, CountsBy
<1>10. RefsAfterOp
  BY <1>3, <1>5, <1>6, AnchorStays DEF RefsNumbers, RefsAfterOp, CountsNat, CountsBy
<1>11. pending' \in Int /\ (pending = 0 => pending' = 0) /\ numItems' \in Int /\ refs' \in Nat
  <2>1. refs >= 1
    BY <1>2, OpInside DEF Holding
  <2> QED BY <1>3, <1>5, <2>1
<1> QED BY <1>2, <1>4, <1>7, <1>8, <1>9, <1>10, <1>11, AwakeOpStep DEF OpPC, Unpushed

\* The event of an operation enters the queue, where it was not.
LEMMA PushStep ==
  ASSUME IInv, NEW o \in Op, Push(o)
  PROVE  IInv'
<1>1. TypeOK /\ QueueOK /\ PopOK /\ ToldOK /\ RingOK /\ ~broken
  BY DEF IInv, NeverBroken
<1>2. opc[o] = "begun" /\ opc' = [opc EXCEPT ![o] = "link"] /\ queue' = Append(queue, o)
  BY DEF Push, At
<1>3. UNCHANGED <<lock, numItems, pending, ppc, taken, zero, mayExpire, told, ring, kicked, spare,
                  dead, shutdownDone, owner, refs>>
  BY DEF Push, pollerVars, sleepVars, lifeVars
<1>4. told = {} /\ refs >= 1
  BY <1>2, OpInside DEF Busy
<1>5. broken' = FALSE
  BY <1>1, <1>4 DEF Push, Touch, TypeOK
<1>6. o \notin Range(queue) /\ o # Stub /\ queue \in Seq(Op \cup {Stub}) /\ queue # <<>>
  BY <1>1, <1>2, CompletionQueueAssumption DEF QueueOK, Ops, Queued, TypeOK, Unpushed
<1>7. /\ queue' \in Seq(Op \cup {Stub}) /\ queue' # <<>> /\ IsInjective(queue')
      /\ Range(queue') = Range(queue) \cup {o} /\ Head(queue') = Head(queue)
      /\ Len(queue) > 1 => Len(queue') > 1 /\ queue'[2] = queue[2]
  BY <1>1, <1>2, <1>6, AppendElements DEF QueueOK
<1>8. /\ Head(queue) \in Range(queue) /\ (Len(queue) > 1 => queue[2] \in Range(queue))
      /\ Range(queue) \subseteq Op \cup {Stub}
  <2>1. /\ Len(queue) \in Nat /\ DOMAIN queue = 1..Len(queue)
        /\ \A i \in 1..Len(queue) : queue[i] \in Op \cup {Stub}
    BY <1>6, LenProperties
  <2>2. Len(queue) >= 1 /\ Head(queue) = queue[1]
    BY <1>6, <2>1, EmptySeq, HeadTailProperties
  <2> QED BY <2>1, <2>2 DEF Range
<1>9. opc' \in [Op -> OpPC] /\ DOMAIN opc = Op /\ opc'[o] = "link" /\ \A q \in Op \ {o} : opc'[q] = opc[q]
  BY <1>1, <1>2 DEF TypeOK, OpPC
<1>10. \A n \in Range(queue) : Linked(n) => Linked(n)'
  BY <1>6, <1>8, <1>9 DEF Linked
<1>11. QueueOK'
  <2>1. Queued' = Queued \cup {o}
    BY <1>7 DEF Queued
  <2>2. (Queued \cap Ops(Unpushed))' = {}
    BY <1>1, <1>9, <2>1 DEF QueueOK, Ops, Unpushed
  <2>3. (Ops({"link"}) \subseteq Queued)'
    BY <1>1, <1>9, <2>1 DEF QueueOK, Ops
  <2>4. Linked(Head(queue))'
    BY <1>1, <1>7, <1>8, <1>10 DEF QueueOK
  <2> QED BY <1>7, <2>2, <2>3, <2>4 DEF QueueOK
<1>12. PopOK'
  <2>1. \A S : Pollers(S)' = Pollers(S)
    BY <1>3 DEF Pollers
  <2>2. Followed(queue) => Followed(queue)'
    BY <1>7, <1>8, <1>10 DEF Followed
  <2>3. \A p \in Poller : taken[p] # o
    BY <1>1, <1>2 DEF PopOK, Ops, Unpushed
  <2>4. \A p \in Poller : taken'[p] \in Queued' => ppc'[p] = "unlock"
    BY <1>1, <1>3, <1>7, <2>3 DEF PopOK, Queued
  <2>5. \A p \in Poller : taken'[p] \notin Ops(Unpushed)'
    BY <1>1, <1>3, <1>9, <2>3 DEF PopOK, Ops, Unpushed
  <2>6. \A p \in Pollers({"stub"})' : Head(queue') # Stub /\ Stub \notin Range(queue')
    BY <1>1, <1>6, <1>7, <2>1 DEF PopOK
  <2>7. \A p \in Pollers({"unlock"})' :
          taken'[p] # Nobody => taken'[p] = Head(queue') /\ Followed(queue)'
    BY <1>1, <1>3, <1>7, <2>1, <2>2 DEF PopOK
  <2> QED BY <1>1, <1>3, <2>4, <2>5, <2>6, <2>7 DEF PopOK
<1>13. ToldOK'
  BY <1>1, <1>3, <1>4 DEF ToldOK, Pollers
<1>14. RingOK'
  BY <1>1, <1>3, RingFrame DEF RingOK
<1>15. Numbers'
  <2>1. /\ PendingNumbers /\ ItemsNumbers /\ RefsNumbers /\ OpMoved("begun", "link") /\ CountsNat /\ CountsNat'
        /\ pending \in Int /\ numItems \in Int /\ refs \in Nat /\ dead \in BOOLEAN
    BY <1>2, OpCounts
  <2>2. CountsBy(0, 0, 0, 1, 0)
    BY <2>1 DEF OpMoved, CountsBy, CountsNat, Bit, Busy, Storing, Finishing, Publishing, Holding
  <2>3. Cardinality(Queued)' = Cardinality(Queued) + 1
    <3>1. Queued' = Queued \cup {o} /\ o \notin Queued
      BY <1>6, <1>7 DEF Queued
    <3>2. IsFiniteSet(Queued)
      <4>1. Queued \subseteq Op
        BY DEF Queued
      <4> QED BY <4>1, CompletionQueueAssumption, FS_Subset
    <3> QED BY <3>1, <3>2, FS_AddElement
  <2>4. \A S : NumPollers(S)' = NumPollers(S)
    BY <1>3, Unmoved
  <2>5. PendingNumbers'
    BY <1>3, <2>1, <2>2 DEF PendingNumbers, CountsNat, CountsBy, One
  <2>6. ItemsNumbers'
    BY <1>3, <2>1, <2>2, <2>3, <2>4 DEF ItemsNumbers, CountsNat, CountsBy
  <2>7. RefsNumbers'
    BY <1>3, <2>1, <2>2, <2>4, AnchorStays DEF RefsNumbers, CountsNat, CountsBy
  <2> QED BY <2>5, <2>6, <2>7 DEF Numbers
<1>16. TypeOK'
  BY <1>1, <1>3, <1>5, <1>7, <1>9 DEF TypeOK
<1> QED BY <1>5, <1>11, <1>12, <1>13, <1>14, <1>15, <1>16, PartsNext DEF Parts, NeverBroken

----------------------------------------------------------------------------
(* Pollers' steps *)

Popping == {"read", "stub", "unlock"}
Carrying == {"unlock", "uncount", "leave", "left", "kick", "return"}
Plain == PollerPC \ {"out", "read", "stub", "unlock", "uncount", "asleep"}

PendingStays == UNCHANGED <<opc, pending, owner, dead>>
ItemsAfterPoller ==
  numItems' = Cardinality(Queued)' + NumPollers({"uncount"})' - NumOps(Publishing)
RefsAfterPoller == refs' = Anchor' + NumPollers(Inside)' + NumOps(Holding)

LEMMA AfterPoller ==
  ASSUME Numbers, PendingStays, ItemsAfterPoller, RefsAfterPoller
  PROVE  Numbers'
<1>1. \A S : NumOps(S)' = NumOps(S)
  BY Unmoved DEF PendingStays
<1>2. PendingNumbers'
  BY <1>1 DEF Numbers, PendingStays, PendingNumbers
<1>3. ItemsNumbers' /\ RefsNumbers'
  BY <1>1 DEF ItemsAfterPoller, RefsAfterPoller, ItemsNumbers, RefsNumbers
<1> QED BY <1>2, <1>3 DEF Numbers

LEMMA PollerCounts ==
  ASSUME IInv, NEW p \in Poller, NEW to, ppc' = [ppc EXCEPT ![p] = to]
  PROVE  /\ Numbers /\ PollerMoved(ppc[p], to) /\ CountsNat /\ CountsNat'
         /\ pending \in Int /\ numItems \in Int /\ refs \in Nat /\ dead \in BOOLEAN
         /\ ppc[p] # "out" => NumPollers(Inside) >= 1
<1>1. Parts /\ DOMAIN ppc = Poller /\ ppc[p] \in PollerPC
  BY PartsMeaning DEF Parts, TypeOK
<1>2. PollerMoved(ppc[p], to) /\ CountsTyped /\ CountsTyped' /\ \A S : ppc[p] \in S => NumPollers(S) >= 1
  BY <1>1, PollerMove
<1>3. ppc[p] # "out" => NumPollers(Inside) >= 1
  BY <1>1, <1>2 DEF Inside
<1> QED BY <1>1, <1>2, <1>3 DEF Parts, TypeOK, CountsTyped

\* A poller that neither gets nor gives the spinlock leaves the queue as it was.
LEMMA PollerFrame ==
  ASSUME IInv, NEW p \in Poller, NEW to \in PollerPC \ Popping, ppc' = [ppc EXCEPT ![p] = to],
         ppc[p] \notin Popping, UNCHANGED <<opc, queue, lock>>,
         taken' = taken \/ taken' = [taken EXCEPT ![p] = Nobody],
         taken'[p] = Nobody \/ to \in Carrying
  PROVE  QueueOK' /\ PopOK'
<1>1. TypeOK /\ QueueOK /\ PopOK
  BY DEF IInv
<1>2. /\ ppc'[p] = to /\ \A q \in Poller \ {p} : ppc'[q] = ppc[q] /\ taken'[q] = taken[q]
      /\ taken'[p] \in {taken[p], Nobody} /\ Nobody \notin Op /\ Nobody # p
  BY <1>1, CompletionQueueAssumption DEF TypeOK
<1>3. Queued' = Queued /\ \A S : Ops(S)' = Ops(S)
  BY DEF Queued, Ops
<1>4. Followed(queue)' = Followed(queue) /\ Linked(Head(queue))' = Linked(Head(queue))
  BY DEF Followed, Linked
<1>5. QueueOK'
  BY <1>1, <1>3, <1>4 DEF QueueOK
<1>6. \A q \in Poller : ppc'[q] \in {"read", "stub", "unlock"} <=> lock' = q
  BY <1>1, <1>2 DEF PopOK, Popping
<1>7. Pollers({"stub"})' = Pollers({"stub"}) /\ Pollers({"unlock"})' = Pollers({"unlock"})
  BY <1>2 DEF Pollers, Popping
<1>8. p \notin Pollers({"unlock"}) /\ Pollers({"unlock"}) \subseteq Poller
  BY DEF Pollers, Popping
<1>9. \A q \in Pollers({"unlock"})' :
        taken'[q] # Nobody => taken'[q] = Head(queue)' /\ Followed(queue)'
  BY <1>1, <1>2, <1>4, <1>7, <1>8 DEF PopOK
<1>10. \A q \in Poller : taken'[q] \in Queued' => ppc'[q] = "unlock"
  BY <1>1, <1>2, <1>3 DEF PopOK, Queued, Popping
<1>11. \A q \in Poller : taken'[q] # Nobody =>
         ppc'[q] \in {"unlock", "uncount", "leave", "left", "kick", "return"}
  BY <1>1, <1>2 DEF PopOK, Carrying
<1>12. \A q \in Poller : taken'[q] \notin Ops(Unpushed)'
  BY <1>1, <1>2, <1>3 DEF PopOK, Ops
<1>13. \A q, r \in Poller : q # r /\ taken'[q] # Nobody => taken'[q] # taken'[r]
  BY <1>1, <1>2 DEF PopOK
<1>14. \A q \in Pollers({"stub"})' : Head(queue') # Stub /\ Stub \notin Range(queue')
  BY <1>1, <1>7 DEF PopOK
<1> QED BY <1>5, <1>6, <1>9, <1>10, <1>11, <1>12, <1>13, <1>14 DEF PopOK

LEMMA RingStays ==
  ASSUME IInv, NEW p \in Poller, NEW to \in PollerPC \ {"asleep"}, ppc' = [ppc EXCEPT ![p] = to],
         ppc[p] # "asleep", UNCHANGED ring, kicked' \subseteq kicked \cup Range(ring),
         shutdownDone' > 0 => dead' /\ ring' = <<>>
  PROVE  RingOK'
<1>1. RingOK /\ DOMAIN ppc = Poller
  BY DEF IInv, TypeOK
<1>2. Pollers({"asleep"})' = Pollers({"asleep"})
  BY <1>1 DEF Pollers
<1> QED BY <1>1, <1>2 DEF RingOK

LEMMA ToldStays ==
  ASSUME IInv, NEW p \in Poller, NEW to \in PollerPC, ppc' = [ppc EXCEPT ![p] = to],
         to = "drained" => pending = 0, UNCHANGED <<pending, told, owner>>, Queued' \subseteq Queued
  PROVE  ToldOK'
<1>1. ToldOK /\ DOMAIN ppc = Poller
  BY DEF IInv, TypeOK
<1>2. (Pollers({"drained"}) # {})' => Pollers({"drained"}) # {} \/ to = "drained"
  BY <1>1 DEF Pollers
<1> QED BY <1>1, <1>2 DEF ToldOK

\* What a poller's step owes the invariant when it counts nothing, pops nothing
\* and leaves the sleepers asleep.
LEMMA PlainStepDone ==
  ASSUME IInv, NEW p \in Poller, NEW to \in Plain, ppc' = [ppc EXCEPT ![p] = to], ppc[p] \in Plain,
         taken[p] = Nobody \/ to \in Carrying,
         UNCHANGED <<opc, queueVars, numItems, pending, taken, ring, dead, shutdownDone, lifeVars>>,
         zero' \in [Poller -> BOOLEAN], mayExpire' \subseteq Timed, told' \subseteq Poller,
         kicked' \subseteq kicked \cup Range(ring), kicked' \subseteq Poller, spare' \in BOOLEAN,
         broken' = FALSE, ToldOK'
  PROVE  IInv'
<1>1. TypeOK /\ RingOK
  BY DEF IInv
<1>2. UNCHANGED <<opc, queue, lock, numItems, pending, taken, ring, dead, shutdownDone, owner, refs>>
  BY DEF queueVars, lifeVars
<1>3. to \in PollerPC /\ to \notin Popping /\ to # "asleep" /\ ppc[p] \notin Popping /\ ppc[p] # "asleep"
  BY DEF Plain, Popping
<1>4. QueueOK' /\ PopOK'
  BY <1>2, <1>3, PollerFrame
<1>5. RingOK'
  <2>1. shutdownDone' > 0 => dead' /\ ring' = <<>>
    BY <1>1, <1>2 DEF RingOK
  <2> QED BY <1>2, <1>3, <2>1, RingStays
<1>6. /\ Numbers /\ PollerMoved(ppc[p], to) /\ CountsNat /\ CountsNat'
  BY PollerCounts
<1>7. NumPollers({"uncount"})' = NumPollers({"uncount"}) /\ NumPollers(Inside)' = NumPollers(Inside)
  BY <1>6 DEF PollerMoved, Bit, Inside, Plain, CountsNat, PollerPC
<1>8. Queued' = Queued /\ Anchor' = Anchor
  BY <1>2, AnchorStays DEF Queued
<1>9. Numbers'
  BY <1>2, <1>6, <1>7, <1>8, AfterPoller
     DEF Numbers, PendingStays, ItemsAfterPoller, RefsAfterPoller, ItemsNumbers, RefsNumbers
<1>10. TypeOK'
  <2>1. ppc' \in [Poller -> PollerPC]
    BY <1>1, <1>3 DEF TypeOK
  <2> QED BY <1>1, <1>2, <2>1 DEF TypeOK
<1> QED BY <1>4, <1>5, <1>9, <1>10, PartsNext DEF Parts, NeverBroken

\* Looking at a locked queue, at the counters, and deciding what to do next.
LEMMA PlainSteps ==
  ASSUME IInv, NEW p \in Poller,
         \/ TryLock(p) /\ lock # Nobody
         \/ Missed(p) \/ Check(p) \/ LookBack(p) \/ PassOn(p) \/ KickNext(p)
         \/ Work(p) /\ ppc'[p] # "asleep"
  PROVE  IInv'
<1>1. TypeOK /\ PopOK /\ ~broken
  BY DEF IInv, NeverBroken
<1>2. PICK from \in {"pop", "missed", "check", "work", "leave", "left", "kick"},
           to \in {"missed", "check", "drained", "work", "leave", "pop", "left", "kick", "return"} :
        /\ ppc[p] = from /\ ppc' = [ppc EXCEPT ![p] = to]
        /\ from \in {"pop", "missed", "check", "work"} \/ to \in {"left", "kick", "return"}
        /\ to = "drained" => pending = 0
  <2>1. CASE TryLock(p) /\ lock # Nobody
    BY <2>1 DEF TryLock, In
  <2>2. CASE Missed(p)
    BY <2>2 DEF Missed, In
  <2>3. CASE Check(p)
    BY <2>3 DEF Check, In
  <2>4. CASE LookBack(p)
    BY <2>4 DEF LookBack, In
  <2>5. CASE PassOn(p)
    BY <2>5 DEF PassOn, In
  <2>6. CASE KickNext(p)
    BY <2>6 DEF KickNext, In
  <2>7. CASE Work(p) /\ ppc'[p] # "asleep"
    BY <1>1, <2>7 DEF Work, In, TypeOK
  <2> QED BY <2>1, <2>2, <2>3, <2>4, <2>5, <2>6, <2>7
<1>3. /\ UNCHANGED <<opc, queueVars, numItems, pending, taken, told, ring, dead, shutdownDone, lifeVars>>
      /\ zero' \in [Poller -> BOOLEAN] /\ mayExpire' \subseteq Timed /\ Touch
      /\ kicked' \subseteq kicked \cup Range(ring) /\ kicked' \subseteq Poller /\ spare' \in BOOLEAN
  <2>1. CASE TryLock(p) /\ lock # Nobody
    BY <1>1, <2>1 DEF TryLock, queueVars, sleepVars, TypeOK
  <2>2. CASE Missed(p)
    BY <1>1, <2>2 DEF Missed, sleepVars, TypeOK
  <2>3. CASE Check(p)
    BY <1>1, <2>3 DEF Check, sleepVars, TypeOK
  <2>4. CASE LookBack(p)
    BY <1>1, <2>4 DEF LookBack, sleepVars, TypeOK
  <2>5. CASE PassOn(p)
    BY <1>1, <2>5 DEF PassOn, sleepVars, TypeOK
  <2>6. CASE KickNext(p)
    BY <1>1, <2>6, KickKeeps DEF KickNext, TypeOK
  <2>7. CASE Work(p) /\ ppc'[p] # "asleep"
    <3>1. ring' = ring /\ spare' \in BOOLEAN
      BY <1>1, <2>7 DEF Work, In, TypeOK
    <3> QED BY <1>1, <2>7, <3>1 DEF Work, TypeOK
  <2> QED BY <2>1, <2>2, <2>3, <2>4, <2>5, <2>6, <2>7
<1>4. broken' = FALSE
  <2>1. refs >= 1
    BY <1>2, OthersInside
  <2> QED BY <1>1, <1>3, <2>1 DEF Touch, TypeOK
<1>5. from \in Plain /\ to \in Plain /\ to \in PollerPC
  BY DEF Plain, PollerPC
<1>6. taken[p] = Nobody \/ to \in Carrying
  BY <1>1, <1>2 DEF PopOK, Carrying
<1>7. ToldOK'
  <2>1. Queued' \subseteq Queued /\ UNCHANGED owner
    BY <1>3 DEF Queued, queueVars, lifeVars
  <2> QED BY <1>2, <1>3, <1>5, <2>1, ToldStays
<1>8. told' \subseteq Poller
  BY <1>1, <1>3 DEF TypeOK
<1> QED BY <1>2, <1>3, <1>4, <1>5, <1>6, <1>7, <1>8, PlainStepDone

\* SHUTDOWN is told when the counter is not positive: then nothing is queued.
LEMMA DrainedStep ==
  ASSUME IInv, NEW p \in Poller, Drained(p)
  PROVE  IInv'
<1>1. TypeOK /\ PopOK /\ ToldOK /\ ~broken
  BY DEF IInv, NeverBroken
<1>2. PICK to \in {"pop", "leave"} :
        /\ ppc[p] = "drained" /\ ppc' = [ppc EXCEPT ![p] = to]
        /\ to = "pop" => told' = told
        /\ to = "leave" => told' = told \cup {p} /\ ~(numItems > 0)
  BY DEF Drained, In
<1>3. /\ UNCHANGED <<opc, queueVars, numItems, pending, taken, zero, mayExpire, sleepVars, lifeVars>>
      /\ UNCHANGED <<queue, ring, kicked, spare, dead, shutdownDone, owner>> /\ Touch
  BY DEF Drained, queueVars, sleepVars, lifeVars
<1>4. broken' = FALSE
  <2>1. refs >= 1
    BY <1>2, OthersInside
  <2> QED BY <1>1, <1>3, <2>1 DEF Touch, TypeOK
<1>5. pending = 0
  BY <1>1, <1>2 DEF ToldOK, Pollers
<1>6. to = "leave" => Queued = {}
  <2>1. PendingNumbers /\ ItemsNumbers /\ CountsNat /\ numItems \in Int
    BY <1>1, PartsMeaning, CountsAlwaysTyped DEF Parts, Numbers, CountsTyped, TypeOK
  <2>2. NumOps(Publishing) = 0
    BY <1>5, <2>1 DEF PendingNumbers, CountsNat, One
  <2> QED BY <1>2, <2>1, <2>2 DEF ItemsNumbers, CountsNat
<1>7. ToldOK'
  <2>1. Queued' = Queued
    BY <1>3 DEF Queued
  <2>2. owner' = "gone" => told' # {}
    BY <1>1, <1>2, <1>3 DEF ToldOK
  <2>3. told' # {} => Queued' = {}
    BY <1>1, <1>2, <1>6, <2>1 DEF ToldOK
  <2> QED BY <1>3, <1>5, <2>2, <2>3 DEF ToldOK
<1>8. taken[p] = Nobody
  BY <1>1, <1>2 DEF PopOK
<1>9. /\ zero' \in [Poller -> BOOLEAN] /\ mayExpire' \subseteq Timed /\ told' \subseteq Poller
      /\ kicked' \subseteq kicked \cup Range(ring) /\ kicked' \subseteq Poller /\ spare' \in BOOLEAN
  BY <1>1, <1>2, <1>3 DEF TypeOK
<1>10. to \in Plain /\ "drained" \in Plain
  BY DEF Plain, PollerPC
<1> QED BY <1>2, <1>3, <1>4, <1>7, <1>8, <1>9, <1>10, PlainStepDone

\* A step inside next that moves no counter and no event.
Moving == PollerPC \ {"out", "uncount", "asleep"}

LEMMA InsideStepDone ==
  ASSUME IInv, NEW p \in Poller, NEW to \in Moving \ {"drained"}, ppc' = [ppc EXCEPT ![p] = to],
         ppc[p] \in Moving,
         UNCHANGED <<opc, numItems, pending, told, mayExpire, sleepVars, lifeVars>>,
         Queued' = Queued,
         queue' \in Seq(Op \cup {Stub}), lock' \in Poller \cup {Nobody},
         taken' \in [Poller -> Op \cup {Nobody}], zero' \in [Poller -> BOOLEAN],
         broken' = FALSE, QueueOK', PopOK'
  PROVE  IInv'
<1>1. TypeOK /\ RingOK
  BY DEF IInv
<1>2. UNCHANGED <<opc, pending, ring, kicked, spare, dead, shutdownDone, owner, refs>>
  BY DEF sleepVars, lifeVars
<1>3. to \in PollerPC /\ to # "asleep" /\ ppc[p] # "asleep"
  BY DEF Moving
<1>4. RingOK'
  <2>1. shutdownDone' > 0 => dead' /\ ring' = <<>>
    BY <1>1, <1>2 DEF RingOK
  <2> QED BY <1>2, <1>3, <2>1, RingStays
<1>5. ToldOK'
  BY <1>2, <1>3, ToldStays
<1>6. Numbers /\ PollerMoved(ppc[p], to) /\ CountsNat /\ CountsNat'
  BY PollerCounts
<1>7. NumPollers({"uncount"})' = NumPollers({"uncount"}) /\ NumPollers(Inside)' = NumPollers(Inside)
  <2>1. /\ Bit(ppc[p], Inside) = 1 /\ Bit(to, Inside) = 1
        /\ Bit(ppc[p], {"uncount"}) = 0 /\ Bit(to, {"uncount"}) = 0
    BY DEF Bit, Inside, Moving
  <2> QED BY <1>6, <2>1 DEF PollerMoved, CountsNat
<1>8. Anchor' = Anchor
  BY <1>2, AnchorStays
<1>9. Numbers'
  BY <1>2, <1>6, <1>7, <1>8, AfterPoller
     DEF Numbers, PendingStays, ItemsAfterPoller, RefsAfterPoller, ItemsNumbers, RefsNumbers
<1>10. TypeOK'
  <2>1. ppc' \in [Poller -> PollerPC]
    BY <1>1, <1>3 DEF TypeOK
  <2> QED BY <1>1, <1>2, <2>1 DEF TypeOK
<1> QED BY <1>4, <1>5, <1>9, <1>10, PartsNext DEF Parts, NeverBroken

\* Who has the spinlock has it alone.
LEMMA PoppingAlone ==
  ASSUME IInv, NEW p \in Poller, lock = p \/ lock = Nobody
  PROVE  \A q \in Poller \ {p} : ppc[q] \notin Popping /\ taken[q] \notin Queued
BY CompletionQueueAssumption DEF IInv, PopOK, Popping, Queued

LEMMA TryLockStep ==
  ASSUME IInv, NEW p \in Poller, TryLock(p), lock = Nobody
  PROVE  IInv'
<1>1. TypeOK /\ QueueOK /\ PopOK /\ ~broken
  BY DEF IInv, NeverBroken
<1>2. /\ ppc[p] = "pop" /\ ppc' = [ppc EXCEPT ![p] = "read"] /\ lock' = p
      /\ zero' = [zero EXCEPT ![p] = FALSE] /\ Touch
      /\ UNCHANGED <<opc, queue, numItems, pending, taken, mayExpire, told, sleepVars, lifeVars>>
  BY DEF TryLock, In
<1>3. broken' = FALSE
  <2>1. refs >= 1
    BY <1>2, OthersInside
  <2> QED BY <1>1, <1>2, <2>1 DEF Touch, TypeOK
<1>4. /\ ppc'[p] = "read" /\ \A q \in Poller \ {p} : ppc'[q] = ppc[q] /\ ppc'[q] \notin Popping
      /\ Queued' = Queued /\ \A S : Ops(S)' = Ops(S)
  BY <1>1, <1>2, PoppingAlone DEF TypeOK, Queued, Ops
<1>5. QueueOK'
  BY <1>1, <1>2, <1>4 DEF QueueOK, Linked
<1>6. PopOK'
  <2>1. Pollers({"stub"})' = {} /\ Pollers({"unlock"})' = {}
    BY <1>4 DEF Pollers, Popping
  <2>2. \A q \in Poller : ppc'[q] \in {"read", "stub", "unlock"} <=> lock' = q
    BY <1>2, <1>4 DEF Popping
  <2>3. taken[p] = Nobody
    BY <1>1, <1>2 DEF PopOK
  <2> QED BY <1>1, <1>2, <1>4, <2>1, <2>2, <2>3, CompletionQueueAssumption DEF PopOK, Queued
<1>7. "read" \in Moving \ {"drained"} /\ "pop" \in Moving
  BY DEF Moving, PollerPC
<1>8. zero' \in [Poller -> BOOLEAN] /\ queue' \in Seq(Op \cup {Stub}) /\ lock' \in Poller \cup {Nobody}
      /\ taken' \in [Poller -> Op \cup {Nobody}]
  BY <1>1, <1>2 DEF TypeOK
<1> QED BY <1>2, <1>3, <1>4, <1>5, <1>6, <1>7, <1>8, InsideStepDone

\* What a consumer that ends up before Unlock, with the head if it is followed,
\* owes PopOK.
LEMMA PopTaken ==
  ASSUME IInv, NEW p \in Poller, lock = p, lock' = p, NEW to \in {"stub", "unlock"},
         ppc' = [ppc EXCEPT ![p] = to], UNCHANGED opc, Queued' = Queued, QueueOK',
         queue' \in Seq(Op \cup {Stub}), NEW e \in Op \cup {Nobody},
         taken' = [taken EXCEPT ![p] = e],
         to = "stub" => e = Nobody /\ Head(queue') # Stub /\ Stub \notin Range(queue'),
         e # Nobody => e = Head(queue') /\ Followed(queue)'
  PROVE  PopOK' /\ taken' \in [Poller -> Op \cup {Nobody}]
<1>1. TypeOK /\ QueueOK /\ PopOK
  BY DEF IInv
<1>2. /\ ppc'[p] = to /\ taken'[p] = e
      /\ \A q \in Poller \ {p} : ppc'[q] = ppc[q] /\ taken'[q] = taken[q]
                                 /\ ppc[q] \notin Popping /\ taken[q] \notin Queued
      /\ taken' \in [Poller -> Op \cup {Nobody}]
  BY <1>1, PoppingAlone DEF TypeOK
<1>3. e # Nobody => e \in Queued
  <2> HAVE e # Nobody
  <2>1. queue' # <<>> /\ IsInjective(queue') /\ e = Head(queue') /\ e \in Op
    BY DEF QueueOK
  <2>2. Head(queue') \in Range(queue')
    <3> DEFINE s == queue'
    <3>1. s \in Seq(Op \cup {Stub}) /\ s # <<>> /\ IsInjective(s)
      BY <2>1
    <3> HIDE DEF s
    <3>2. Head(s) \in Range(s)
      BY <3>1, TailElements
    <3> QED BY <3>2 DEF s
  <2> QED BY <2>1, <2>2 DEF Queued
<1>4. \A q \in Poller : ppc'[q] \in {"read", "stub", "unlock"} <=> lock' = q
  BY <1>2 DEF Popping
<1>5. Pollers({"stub"})' \subseteq {p} /\ Pollers({"unlock"})' \subseteq {p}
      /\ (p \in Pollers({"stub"})' => to = "stub")
  BY <1>2 DEF Pollers, Popping
<1>6. \A q \in Pollers({"stub"})' : Head(queue') # Stub /\ Stub \notin Range(queue')
  BY <1>5
<1>7. \A q \in Pollers({"unlock"})' :
        taken'[q] # Nobody => taken'[q] = Head(queue)' /\ Followed(queue)'
  BY <1>2, <1>5
<1>8. \A q \in Poller : taken'[q] \in Queued' => ppc'[q] = "unlock"
  BY <1>2, CompletionQueueAssumption DEF Queued
<1>9. \A q \in Poller : taken'[q] # Nobody =>
        ppc'[q] \in {"unlock", "uncount", "leave", "left", "kick", "return"}
  BY <1>1, <1>2 DEF PopOK
<1>10. \A q \in Poller : taken'[q] \notin Ops(Unpushed)'
  <2>1. Ops(Unpushed)' = Ops(Unpushed) /\ Nobody \notin Ops(Unpushed)
    BY CompletionQueueAssumption DEF Ops
  <2> QED BY <1>1, <1>2, <1>3, <2>1 DEF PopOK, QueueOK
<1>11. \A q, r \in Poller : q # r /\ taken'[q] # Nobody => taken'[q] # taken'[r]
  BY <1>1, <1>2, <1>3 DEF PopOK
<1> QED BY <1>2, <1>4, <1>6, <1>7, <1>8, <1>9, <1>10, <1>11 DEF PopOK

\* Past the stub the head is an event that was reached.
LEMMA ReadTailStep ==
  ASSUME IInv, NEW p \in Poller, ReadTail(p)
  PROVE  IInv'
<1>1. TypeOK /\ QueueOK /\ PopOK /\ ~broken
  BY DEF IInv, NeverBroken
<1> DEFINE q == IF Head(queue) = Stub /\ Followed(queue) THEN Tail(queue) ELSE queue
           alone == Head(q) # Stub /\ Len(q) = 1
           to == IF alone THEN "stub" ELSE "unlock"
           e == IF ~alone /\ Head(q) # Stub /\ Followed(q) THEN Head(q) ELSE Nobody
<1>2. /\ ppc[p] = "read" /\ ppc' = [ppc EXCEPT ![p] = to] /\ queue' = q /\ Touch
      /\ UNCHANGED <<opc, lock, numItems, pending, zero, mayExpire, told, sleepVars, lifeVars>>
  BY DEF ReadTail, In
<1>3. taken' = [taken EXCEPT ![p] = e]
  <2>1. CASE alone
    <3>1. taken[p] = Nobody /\ taken' = taken
      BY <1>1, <1>2, <2>1 DEF ReadTail, PopOK
    <3> QED BY <1>1, <2>1, <3>1 DEF TypeOK
  <2>2. CASE ~alone
    BY <2>2 DEF ReadTail
  <2> QED BY <2>1, <2>2
<1>4. broken' = FALSE
  <2>1. refs >= 1
    BY <1>2, OthersInside
  <2> QED BY <1>1, <1>2, <2>1 DEF Touch, TypeOK
<1>5. queue \in Seq(Op \cup {Stub}) /\ queue # <<>> /\ IsInjective(queue) /\ Stub \notin Op
  BY <1>1, CompletionQueueAssumption DEF TypeOK, QueueOK
<1>6. /\ q \in Seq(Op \cup {Stub}) /\ q # <<>> /\ IsInjective(q) /\ Linked(Head(q))
      /\ Op \cap Range(q) = Op \cap Range(queue)
  <2>1. CASE Head(queue) = Stub /\ Followed(queue)
    <3>1. /\ Tail(queue) \in Seq(Op \cup {Stub}) /\ IsInjective(Tail(queue))
          /\ Range(Tail(queue)) = Range(queue) \ {Stub}
          /\ Tail(queue) # <<>> /\ Head(Tail(queue)) = queue[2]
      BY <1>5, <2>1, TailElements DEF Followed
    <3> QED BY <1>5, <2>1, <3>1 DEF Followed
  <2>2. CASE ~(Head(queue) = Stub /\ Followed(queue))
    BY <1>1, <1>5, <2>2 DEF QueueOK
  <2> QED BY <2>1, <2>2
<1>7. Head(q) \in Op \cup {Stub} /\ e \in Op \cup {Nobody}
  BY <1>6, HeadTailProperties
<1>8. alone => Stub \notin Range(q)
  BY <1>6, LenProperties, HeadTailProperties DEF Range
<1>9. lock = p /\ lock' = p
  BY <1>1, <1>2 DEF PopOK
<1>10. Queued' = Queued
  BY <1>2, <1>6 DEF Queued
<1> HIDE DEF q
<1>11. QueueOK'
  <2>1. \A S : Ops(S)' = Ops(S)
    BY <1>2 DEF Ops
  <2>2. Linked(Head(queue))'
    BY <1>2, <1>6 DEF Linked
  <2> QED BY <1>1, <1>2, <1>6, <1>10, <2>1, <2>2 DEF QueueOK
<1>12. Followed(queue)' <=> Followed(q)
  BY <1>2 DEF Followed, Linked
<1>13. PopOK' /\ taken' \in [Poller -> Op \cup {Nobody}]
  <2>1. to = "stub" => e = Nobody /\ Head(queue') # Stub /\ Stub \notin Range(queue')
    BY <1>2, <1>8
  <2>2. e # Nobody => e = Head(queue') /\ Followed(queue)'
    BY <1>2, <1>12
  <2>3. to \in {"stub", "unlock"} /\ queue' \in Seq(Op \cup {Stub}) /\ UNCHANGED opc
    BY <1>2, <1>6
  <2> HIDE DEF to, e, alone
  <2> QED BY <1>2, <1>3, <1>7, <1>9, <1>10, <1>11, <2>1, <2>2, <2>3, PopTaken
<1>14. to \in Moving \ {"drained"} /\ "read" \in Moving
  BY DEF Moving, PollerPC
<1>15. zero' \in [Poller -> BOOLEAN] /\ queue' \in Seq(Op \cup {Stub}) /\ lock' \in Poller \cup {Nobody}
  BY <1>1, <1>2, <1>6, <1>9 DEF TypeOK
<1> HIDE DEF to, e
<1> QED BY <1>2, <1>4, <1>10, <1>11, <1>13, <1>14, <1>15, InsideStepDone

\* The stub goes behind an event found alone, though a producer may have come
\* between.
LEMMA PushStubStep ==
  ASSUME IInv, NEW p \in Poller, PushStub(p)
  PROVE  IInv'
<1>1. TypeOK /\ QueueOK /\ PopOK /\ ~broken
  BY DEF IInv, NeverBroken
<1> DEFINE q == Append(queue, Stub)
           e == IF Followed(q) THEN Head(queue) ELSE Nobody
<1>2. /\ ppc[p] = "stub" /\ ppc' = [ppc EXCEPT ![p] = "unlock"] /\ queue' = q /\ Touch
      /\ taken' = [taken EXCEPT ![p] = e]
      /\ UNCHANGED <<opc, lock, numItems, pending, zero, mayExpire, told, sleepVars, lifeVars>>
  BY DEF PushStub, In
<1>3. broken' = FALSE
  <2>1. refs >= 1
    BY <1>2, OthersInside
  <2> QED BY <1>1, <1>2, <2>1 DEF Touch, TypeOK
<1>4. Head(queue) # Stub /\ Stub \notin Range(queue)
  BY <1>1, <1>2 DEF PopOK, Pollers
<1>5. queue \in Seq(Op \cup {Stub}) /\ queue # <<>> /\ IsInjective(queue) /\ Stub \notin Op
  BY <1>1, CompletionQueueAssumption DEF TypeOK, QueueOK
<1>6. /\ q \in Seq(Op \cup {Stub}) /\ q # <<>> /\ IsInjective(q) /\ Head(q) = Head(queue)
      /\ Range(q) = Range(queue) \cup {Stub}
  BY <1>4, <1>5, AppendElements
<1>7. Head(queue) \in Op
  BY <1>4, <1>5, HeadTailProperties
<1>8. lock = p /\ lock' = p
  BY <1>1, <1>2 DEF PopOK
<1>9. Queued' = Queued
  BY <1>2, <1>5, <1>6 DEF Queued
<1> HIDE DEF q
<1>10. QueueOK'
  <2>1. \A S : Ops(S)' = Ops(S)
    BY <1>2 DEF Ops
  <2>2. Linked(Head(queue))'
    BY <1>1, <1>2, <1>6 DEF QueueOK, Linked
  <2> QED BY <1>1, <1>2, <1>6, <1>9, <2>1, <2>2 DEF QueueOK
<1>11. Followed(queue)' <=> Followed(q)
  BY <1>2 DEF Followed, Linked
<1>12. PopOK' /\ taken' \in [Poller -> Op \cup {Nobody}]
  <2>1. e # Nobody => e = Head(queue') /\ Followed(queue)'
    BY <1>2, <1>6, <1>11
  <2>2. e \in Op \cup {Nobody} /\ queue' \in Seq(Op \cup {Stub}) /\ UNCHANGED opc
    BY <1>2, <1>6, <1>7
  <2> HIDE DEF e
  <2> QED BY <1>2, <1>8, <1>9, <1>10, <2>1, <2>2, PopTaken
<1>13. "unlock" \in Moving \ {"drained"} /\ "stub" \in Moving
  BY DEF Moving, PollerPC
<1>14. zero' \in [Poller -> BOOLEAN] /\ queue' \in Seq(Op \cup {Stub}) /\ lock' \in Poller \cup {Nobody}
  BY <1>1, <1>2, <1>6, <1>8 DEF TypeOK
<1> HIDE DEF e
<1> QED BY <1>2, <1>3, <1>9, <1>10, <1>12, <1>13, <1>14, InsideStepDone

\* tail_ moves on past the event, which leaves the queue to be uncounted.
LEMMA UnlockStep ==
  ASSUME IInv, NEW p \in Poller, Unlock(p)
  PROVE  IInv'
<1>1. TypeOK /\ QueueOK /\ PopOK /\ ToldOK /\ RingOK /\ ~broken
  BY DEF IInv, NeverBroken
<1> DEFINE to == IF taken[p] = Nobody THEN "missed" ELSE "uncount"
<1>2. /\ ppc[p] = "unlock" /\ ppc' = [ppc EXCEPT ![p] = to] /\ Touch
      /\ queue' = (IF taken[p] = Nobody THEN queue ELSE Tail(queue)) /\ lock' = Nobody
      /\ UNCHANGED <<opc, numItems, pending, taken, zero, mayExpire, told, sleepVars, lifeVars>>
  BY DEF Unlock, In
<1>3. broken' = FALSE
  <2>1. refs >= 1
    BY <1>2, OthersInside
  <2> QED BY <1>1, <1>2, <2>1 DEF Touch, TypeOK
<1>4. lock = p /\ Nobody \notin Op \cup Poller /\ Stub \notin Op
  BY <1>1, <1>2, CompletionQueueAssumption DEF PopOK
<1>5. /\ ppc'[p] = to /\ \A q \in Poller \ {p} : ppc'[q] = ppc[q]
                                 /\ ppc[q] \notin Popping /\ taken[q] \notin Queued
      /\ \A S : Ops(S)' = Ops(S)
  BY <1>1, <1>2, <1>4, PoppingAlone DEF TypeOK, Ops
<1>6. queue \in Seq(Op \cup {Stub}) /\ queue # <<>> /\ IsInjective(queue)
  BY <1>1 DEF TypeOK, QueueOK
<1>7. ASSUME taken[p] # Nobody
      PROVE  /\ taken[p] = Head(queue) /\ Followed(queue) /\ taken[p] \in Op
             /\ taken[p] \in Queued /\ Queued' = Queued \ {taken[p]}
             /\ queue' \in Seq(Op \cup {Stub}) /\ queue' # <<>> /\ IsInjective(queue')
             /\ Head(queue') = queue[2]
  <2>1. taken[p] = Head(queue) /\ Followed(queue) /\ taken[p] \in Op
    BY <1>1, <1>2, <1>7 DEF PopOK, Pollers, TypeOK
  <2>2. /\ Tail(queue) \in Seq(Op \cup {Stub}) /\ IsInjective(Tail(queue))
        /\ Range(Tail(queue)) = Range(queue) \ {Head(queue)} /\ Head(queue) \in Range(queue)
        /\ Tail(queue) # <<>> /\ Head(Tail(queue)) = queue[2]
    BY <1>6, <2>1, TailElements DEF Followed
  <2> QED BY <1>2, <1>7, <2>1, <2>2 DEF Queued
<1>8. /\ queue' \in Seq(Op \cup {Stub}) /\ queue' # <<>> /\ IsInjective(queue')
      /\ Queued' = Queued \ {taken[p]} /\ taken[p] \notin Queued'
  <2>1. CASE taken[p] = Nobody
    BY <1>2, <1>4, <1>6, <2>1 DEF Queued
  <2>2. CASE taken[p] # Nobody
    BY <1>7, <2>2
  <2> QED BY <2>1, <2>2
<1>9. QueueOK'
  <2>1. Linked(Head(queue))'
    <3>1. CASE taken[p] = Nobody
      BY <1>1, <1>2, <3>1 DEF QueueOK, Linked
    <3>2. CASE taken[p] # Nobody
      BY <1>2, <1>7, <3>2 DEF Followed, Linked
    <3> QED BY <3>1, <3>2
  <2>2. (Queued \cap Ops(Unpushed))' = {}
    BY <1>1, <1>5, <1>8 DEF QueueOK
  <2>3. taken[p] \notin Ops({"link"})
    <3>1. CASE taken[p] = Nobody
      BY <1>4, <3>1 DEF Ops
    <3>2. CASE taken[p] # Nobody
      BY <1>1, <1>4, <1>7, <3>2 DEF QueueOK, Linked, Ops
    <3> QED BY <3>1, <3>2
  <2>4. (Ops({"link"}) \subseteq Queued)'
    BY <1>1, <1>5, <1>8, <2>3 DEF QueueOK
  <2> QED BY <1>8, <2>1, <2>2, <2>4 DEF QueueOK
<1>10. PopOK'
  <2>1. Pollers({"stub"})' = {} /\ Pollers({"unlock"})' = {}
    BY <1>5 DEF Pollers, Popping
  <2>2. \A q \in Poller : ppc'[q] \in {"read", "stub", "unlock"} <=> lock' = q
    BY <1>2, <1>4, <1>5 DEF Popping
  <2>3. \A q \in Poller : taken'[q] \in Queued' => ppc'[q] = "unlock"
    BY <1>2, <1>5, <1>8
  <2>4. \A q \in Poller : taken'[q] # Nobody =>
          ppc'[q] \in {"unlock", "uncount", "leave", "left", "kick", "return"}
    BY <1>1, <1>2, <1>5 DEF PopOK
  <2> QED BY <1>1, <1>2, <1>5, <2>1, <2>2, <2>3, <2>4 DEF PopOK
<1>11. UNCHANGED <<ring, kicked, spare, dead, shutdownDone, owner, refs>>
  BY <1>2 DEF sleepVars, lifeVars
<1>12. to \in PollerPC \ {"asleep", "drained"}
  BY DEF PollerPC
<1>13. RingOK'
  <2>1. shutdownDone' > 0 => dead' /\ ring' = <<>>
    BY <1>1, <1>11 DEF RingOK
  <2> HIDE DEF to
  <2> QED BY <1>2, <1>11, <1>12, <2>1, RingStays
<1>14. ToldOK'
  <2> HIDE DEF to
  <2> QED BY <1>2, <1>8, <1>11, <1>12, ToldStays
<1>15. Numbers'
  <2>1. Numbers /\ PollerMoved("unlock", to) /\ CountsNat /\ CountsNat'
    <3> HIDE DEF to
    <3> QED BY <1>2, PollerCounts
  <2>2. NumPollers(Inside)' = NumPollers(Inside)
    BY <2>1 DEF PollerMoved, Bit, Inside, CountsNat, PollerPC
  <2>3. Cardinality(Queued)' + NumPollers({"uncount"})'
          = Cardinality(Queued) + NumPollers({"uncount"})
    <3>1. IsFiniteSet(Queued)
      <4>1. Queued \subseteq Op
        BY DEF Queued
      <4> QED BY <4>1, CompletionQueueAssumption, FS_Subset
    <3>2. CASE taken[p] = Nobody
      <4>1. Cardinality(Queued)' = Cardinality(Queued)
        BY <1>2, <3>2 DEF Queued
      <4>2. NumPollers({"uncount"})' = NumPollers({"uncount"})
        BY <2>1, <3>2 DEF PollerMoved, Bit, CountsNat
      <4> QED BY <4>1, <4>2
    <3>3. CASE taken[p] # Nobody
      <4>1. Cardinality(Queued)' = Cardinality(Queued) - 1
        BY <1>7, <3>1, <3>3, FS_RemoveElement
      <4>2. NumPollers({"uncount"})' = NumPollers({"uncount"}) + 1
        BY <2>1, <3>3 DEF PollerMoved, Bit, CountsNat
      <4> QED BY <2>1, <4>1, <4>2 DEF CountsNat
    <3> QED BY <3>2, <3>3
  <2>4. Anchor' = Anchor
    BY <1>11, AnchorStays
  <2>5. ItemsAfterPoller
    <3>1. /\ numItems' = Cardinality(Queued) + NumPollers({"uncount"}) - NumOps(Publishing)
          /\ NumOps(Publishing) \in Int /\ Cardinality(Queued)' \in Int /\ Cardinality(Queued) \in Int
          /\ NumPollers({"uncount"})' \in Int /\ NumPollers({"uncount"}) \in Int
      BY <1>2, <2>1 DEF Numbers, ItemsNumbers, CountsNat
    <3> QED BY <2>3, <3>1 DEF ItemsAfterPoller
  <2>6. RefsAfterPoller
    BY <1>11, <2>1, <2>2, <2>4 DEF Numbers, RefsNumbers, RefsAfterPoller
  <2> QED BY <1>2, <1>11, <2>1, <2>5, <2>6, AfterPoller DEF PendingStays
<1>16. TypeOK'
  <2>1. ppc' \in [Poller -> PollerPC]
    <3> HIDE DEF to
    <3> QED BY <1>1, <1>2, <1>12 DEF TypeOK
  <2> QED BY <1>1, <1>2, <1>3, <1>8, <1>11, <2>1 DEF TypeOK
<1> QED BY <1>3, <1>9, <1>10, <1>13, <1>14, <1>15, <1>16, PartsNext DEF Parts, NeverBroken

\* The numbers follow the poller.
LEMMA NumbersFollow ==
  ASSUME Numbers, PendingStays, UNCHANGED queue,
         numItems \in Int, refs \in Int, numItems' \in Int, refs' \in Int,
         numItems' + NumPollers({"uncount"}) = numItems + NumPollers({"uncount"})',
         refs' + (Anchor + NumPollers(Inside)) = refs + (Anchor' + NumPollers(Inside)')
  PROVE  Numbers'
<1>1. CountsNat /\ CountsNat'
  BY CountsAlwaysTyped, PTL DEF CountsTyped
<1>2. /\ NumPollers({"uncount"}) \in Int /\ NumPollers({"uncount"})' \in Int
      /\ NumPollers(Inside) \in Int /\ NumPollers(Inside)' \in Int
      /\ NumOps(Publishing) \in Int /\ NumOps(Holding) \in Int /\ Cardinality(Queued) \in Int
  BY <1>1 DEF CountsNat
<1>3. Cardinality(Queued)' = Cardinality(Queued)
  BY Unmoved
<1>4. ItemsAfterPoller
  BY <1>2, <1>3 DEF Numbers, ItemsNumbers, ItemsAfterPoller
<1>5. Anchor \in Int /\ Anchor' \in Int
  BY DEF Anchor, One
<1>6. RefsAfterPoller
  <2> DEFINE u == Anchor + NumPollers(Inside)
             v == Anchor' + NumPollers(Inside)'
  <2>1. u \in Int /\ v \in Int
    BY <1>2, <1>5
  <2>2. refs = u + NumOps(Holding)
    BY DEF Numbers, RefsNumbers
  <2>3. refs' + u = refs + v
    OBVIOUS
  <2> HIDE DEF u, v
  <2>4. refs' = v + NumOps(Holding)
    BY <1>2, <2>1, <2>2, <2>3
  <2> QED BY <2>4 DEF RefsAfterPoller, v
<1> QED BY <1>4, <1>6, AfterPoller

\* What a poller's step away from the spinlock owes the invariant: its counts
\* follow the poller, and the sleepers are in order.
LEMMA CountedStepDone ==
  ASSUME IInv, NEW p \in Poller, NEW to \in PollerPC \ (Popping \cup {"drained"}),
         ppc' = [ppc EXCEPT ![p] = to], ppc[p] \notin Popping,
         UNCHANGED <<opc, queueVars, pending, told, owner, dead>>,
         taken' = taken \/ taken' = [taken EXCEPT ![p] = Nobody],
         taken'[p] = Nobody \/ to \in Carrying,
         zero' \in [Poller -> BOOLEAN], mayExpire' \subseteq Timed, spare' \in BOOLEAN,
         ring' \in Seq(Poller), kicked' \subseteq Poller, shutdownDone' \in 0..1,
         numItems' \in Int, refs' \in Nat, broken' = FALSE, RingOK',
         numItems' + NumPollers({"uncount"}) = numItems + NumPollers({"uncount"})',
         refs' + (Anchor + NumPollers(Inside)) = refs + (Anchor' + NumPollers(Inside)')
  PROVE  IInv'
<1>1. TypeOK
  BY DEF IInv
<1>2. UNCHANGED <<queue, lock>> /\ Queued' = Queued
  BY DEF queueVars, Queued
<1>3. QueueOK' /\ PopOK'
  BY <1>2, PollerFrame
<1>4. ToldOK'
  BY <1>2, ToldStays
<1>5. Numbers'
  <2>1. Numbers /\ numItems \in Int /\ refs \in Int
    BY <1>1, PartsMeaning DEF Parts, TypeOK
  <2> QED BY <1>2, <2>1, NumbersFollow DEF PendingStays
<1>6. TypeOK'
  <2>1. ppc' \in [Poller -> PollerPC] /\ taken' \in [Poller -> Op \cup {Nobody}]
    BY <1>1 DEF TypeOK
  <2> QED BY <1>1, <1>2, <2>1 DEF TypeOK
<1> QED BY <1>3, <1>4, <1>5, <1>6, PartsNext DEF Parts, NeverBroken

LEMMA UncountItemStep ==
  ASSUME IInv, NEW p \in Poller, UncountItem(p)
  PROVE  IInv'
<1>1. TypeOK /\ RingOK /\ ~broken
  BY DEF IInv, NeverBroken
<1>2. /\ ppc[p] = "uncount" /\ ppc' = [ppc EXCEPT ![p] = "leave"] /\ Touch /\ numItems' = numItems - 1
      /\ UNCHANGED <<opc, queueVars, pending, taken, zero, mayExpire, told, sleepVars, lifeVars>>
      /\ UNCHANGED <<ring, kicked, spare, dead, shutdownDone, owner, refs>>
  BY DEF UncountItem, In, sleepVars, lifeVars
<1>3. broken' = FALSE
  <2>1. refs >= 1
    BY <1>2, OthersInside
  <2> QED BY <1>1, <1>2, <2>1 DEF Touch, TypeOK
<1>4. /\ PollerMoved("uncount", "leave") /\ CountsNat /\ CountsNat' /\ numItems \in Int /\ refs \in Nat
  BY <1>2, PollerCounts
<1>5. /\ NumPollers({"uncount"})' = NumPollers({"uncount"}) - 1
      /\ NumPollers(Inside)' = NumPollers(Inside)
  BY <1>4 DEF PollerMoved, Bit, Inside, CountsNat, PollerPC
<1>6. "leave" \in PollerPC \ (Popping \cup {"drained"}) /\ "leave" \in Carrying /\ "uncount" \notin Popping
  BY DEF PollerPC, Popping, Carrying
<1>7. /\ numItems' + NumPollers({"uncount"}) = numItems + NumPollers({"uncount"})'
      /\ refs' + (Anchor + NumPollers(Inside)) = refs + (Anchor' + NumPollers(Inside)')
  BY <1>2, <1>4, <1>5, AnchorStays DEF CountsNat
<1>8. RingOK'
  <2>1. shutdownDone' > 0 => dead' /\ ring' = <<>>
    BY <1>1, <1>2 DEF RingOK
  <2> QED BY <1>2, <1>6, <2>1, RingStays
<1>9. /\ zero' \in [Poller -> BOOLEAN] /\ mayExpire' \subseteq Timed /\ spare' \in BOOLEAN
      /\ ring' \in Seq(Poller) /\ kicked' \subseteq Poller /\ shutdownDone' \in 0..1
      /\ numItems' \in Int /\ refs' \in Nat
  BY <1>1, <1>2 DEF TypeOK
<1> QED BY <1>2, <1>3, <1>6, <1>7, <1>8, <1>9, CountedStepDone

\* A poller goes to sleep at the end of the ring, where it was not.
LEMMA WorkStep ==
  ASSUME IInv, NEW p \in Poller, Work(p), ppc'[p] = "asleep"
  PROVE  IInv'
<1>1. TypeOK /\ RingOK /\ PopOK /\ ~broken
  BY DEF IInv, NeverBroken
<1>2. /\ ppc[p] = "work" /\ ppc' = [ppc EXCEPT ![p] = "asleep"] /\ ~dead /\ ring' = Append(ring, p)
      /\ Touch /\ mayExpire' = mayExpire \cup ({p} \cap Timed)
      /\ UNCHANGED <<opc, queueVars, numItems, pending, taken, zero, told, kicked, dead,
                     shutdownDone, lifeVars>>
      /\ UNCHANGED <<spare, owner, refs>>
  <2>1. ppc'[p] # "pop"
    OBVIOUS
  <2>2. ~(dead /\ In(p, "work", "pop") /\ UNCHANGED <<ring, spare>>)
    BY <1>1, <2>1 DEF In, TypeOK
  <2>3. ~(~dead /\ spare /\ In(p, "work", "pop") /\ spare' = FALSE /\ UNCHANGED ring)
    BY <1>1, <2>1 DEF In, TypeOK
  <2> QED BY <2>2, <2>3 DEF Work, In, lifeVars
<1>3. broken' = FALSE
  <2>1. refs >= 1
    BY <1>2, OthersInside
  <2> QED BY <1>1, <1>2, <2>1 DEF Touch, TypeOK
<1>4. ppc'[p] = "asleep" /\ \A q \in Poller \ {p} : ppc'[q] = ppc[q]
  BY <1>1, <1>2 DEF TypeOK
<1>5. /\ ring' \in Seq(Poller) /\ ring' # <<>> /\ Range(ring') = Range(ring) \cup {p}
      /\ IsInjective(ring')
  <2>1. p \notin Range(ring)
    BY <1>1, <1>2 DEF RingOK, Pollers
  <2>2. ring \in Seq(Poller) /\ IsInjective(ring)
    BY <1>1 DEF TypeOK, RingOK
  <2> QED BY <1>2, <2>1, <2>2, AppendElements
<1>6. RingOK'
  <2>1. Pollers({"asleep"})' = Pollers({"asleep"}) \cup {p}
    BY <1>4 DEF Pollers
  <2> QED BY <1>1, <1>2, <1>5, <2>1 DEF RingOK
<1>7. PollerMoved("work", "asleep") /\ CountsNat /\ CountsNat' /\ numItems \in Int /\ refs \in Nat
  BY <1>2, PollerCounts
<1>8. /\ NumPollers({"uncount"})' = NumPollers({"uncount"})
      /\ NumPollers(Inside)' = NumPollers(Inside)
  BY <1>7 DEF PollerMoved, Bit, Inside, CountsNat, PollerPC
<1>9. Anchor' = Anchor
  BY <1>2 DEF Anchor, One
<1>10. /\ numItems' + NumPollers({"uncount"}) = numItems + NumPollers({"uncount"})'
       /\ refs' + (Anchor + NumPollers(Inside)) = refs + (Anchor' + NumPollers(Inside)')
  BY <1>2, <1>8, <1>9
<1>11. "asleep" \in PollerPC \ (Popping \cup {"drained"}) /\ "work" \notin Popping
  BY DEF PollerPC, Popping
<1>12. taken[p] = Nobody
  BY <1>1, <1>2 DEF PopOK
<1>13. /\ zero' \in [Poller -> BOOLEAN] /\ mayExpire' \subseteq Timed /\ spare' \in BOOLEAN
       /\ kicked' \subseteq Poller /\ shutdownDone' \in 0..1 /\ numItems' \in Int /\ refs' \in Nat
  BY <1>1, <1>2 DEF TypeOK
<1>14. UNCHANGED <<opc, queueVars, pending, told, owner, dead>>
  BY <1>2
<1> QED BY <1>2, <1>3, <1>5, <1>6, <1>10, <1>11, <1>12, <1>13, <1>14, CountedStepDone

\* A poller leaves the ring; the last one out of a poller that is shut down
\* schedules the closure that has the reference.
LEMMA WakeUpStep ==
  ASSUME IInv, NEW p \in Poller, WakeUp(p)
  PROVE  IInv'
<1>1. TypeOK /\ RingOK /\ PopOK /\ ~broken
  BY DEF IInv, NeverBroken
<1>2. PICK i \in DOMAIN ring :
        ring[i] = p /\ ring' = SubSeq(ring, 1, i - 1) \o SubSeq(ring, i + 1, Len(ring))
  BY DEF WakeUp
<1>3. /\ ppc[p] = "asleep" /\ ppc' = [ppc EXCEPT ![p] = "pop"] /\ Touch
      /\ kicked' = kicked \ {p}
      /\ shutdownDone' = (IF dead /\ ring = <<p>> THEN shutdownDone + 1 ELSE shutdownDone)
      /\ UNCHANGED <<opc, queueVars, numItems, pending, taken, zero, mayExpire, told, spare,
                     dead, lifeVars>>
      /\ UNCHANGED <<owner, refs>>
  BY DEF WakeUp, In, lifeVars
<1>4. broken' = FALSE
  <2>1. refs >= 1
    BY <1>3, OthersInside
  <2> QED BY <1>1, <1>3, <2>1 DEF Touch, TypeOK
<1>5. /\ ring' \in Seq(Poller) /\ IsInjective(ring') /\ Range(ring') = Range(ring) \ {p}
      /\ ring # <<>> /\ (ring' = <<>> <=> ring = <<p>>)
  <2>1. ring \in Seq(Poller) /\ IsInjective(ring)
    BY <1>1 DEF TypeOK, RingOK
  <2>2. ring' = CutAt(ring, i)
    BY <1>2 DEF CutAt
  <2>3. \A t : t = CutAt(ring, i) =>
          /\ t \in Seq(Poller) /\ IsInjective(t) /\ Range(t) = Range(ring) \ {ring[i]}
          /\ ring # <<>> /\ (t = <<>> <=> ring = <<ring[i]>>)
    BY <2>1, CutElements
  <2> QED BY <1>2, <2>2, <2>3
<1>6. shutdownDone = 0
  BY <1>1, <1>5 DEF RingOK, TypeOK
<1>7. shutdownDone' \in 0..1 /\ (shutdownDone' > 0 <=> dead /\ ring' = <<>>)
  BY <1>3, <1>5, <1>6
<1>8. RingOK'
  <2>1. Pollers({"asleep"})' = Pollers({"asleep"}) \ {p}
    BY <1>1, <1>3 DEF Pollers, TypeOK
  <2>2. dead' = dead
    BY <1>3
  <2> QED BY <1>1, <1>3, <1>5, <1>7, <2>1, <2>2 DEF RingOK
<1>9. PollerMoved("asleep", "pop") /\ CountsNat /\ CountsNat' /\ numItems \in Int /\ refs \in Nat
  BY <1>3, PollerCounts
<1>10. /\ NumPollers({"uncount"})' = NumPollers({"uncount"})
       /\ NumPollers(Inside)' = NumPollers(Inside)
  BY <1>9 DEF PollerMoved, Bit, Inside, CountsNat, PollerPC
<1>11. Anchor' = Anchor
  <2>1. ~dead \/ ring # <<>> \/ shutdownDone > 0
    BY <1>5
  <2>2. ~dead' \/ ring' # <<>> \/ shutdownDone' > 0
    BY <1>1, <1>3, <1>7 DEF TypeOK
  <2> QED BY <1>3, <2>1, <2>2 DEF Anchor, One
<1>12. /\ numItems' + NumPollers({"uncount"}) = numItems + NumPollers({"uncount"})'
       /\ refs' + (Anchor + NumPollers(Inside)) = refs + (Anchor' + NumPollers(Inside)')
  BY <1>3, <1>10, <1>11
<1>13. "pop" \in PollerPC \ (Popping \cup {"drained"}) /\ "asleep" \notin Popping
  BY DEF PollerPC, Popping
<1>14. taken[p] = Nobody
  BY <1>1, <1>3 DEF PopOK
<1>15. /\ zero' \in [Poller -> BOOLEAN] /\ mayExpire' \subseteq Timed /\ spare' \in BOOLEAN
       /\ kicked' \subseteq Poller /\ numItems' \in Int /\ refs' \in Nat
  BY <1>1, <1>3 DEF TypeOK
<1>16. UNCHANGED <<opc, queueVars, pending, told, owner, dead>>
  BY <1>3
<1> QED BY <1>3, <1>4, <1>5, <1>7, <1>8, <1>12, <1>13, <1>14, <1>15, <1>16, CountedStepDone

\* The last reference may go with a poller that returns: then nothing is counted.
LEMMA ReturnStep ==
  ASSUME IInv, NEW p \in Poller, Return(p)
  PROVE  IInv'
<1>1. TypeOK /\ RingOK /\ ToldOK /\ ~broken
  BY DEF IInv, NeverBroken
<1>2. /\ ppc[p] = "return" /\ ppc' = [ppc EXCEPT ![p] = "out"] /\ Unref
      /\ taken' = [taken EXCEPT ![p] = Nobody] /\ zero' = [zero EXCEPT ![p] = FALSE]
      /\ mayExpire' = mayExpire \ {p}
      /\ UNCHANGED <<opc, queueVars, numItems, pending, told, sleepVars, owner>>
      /\ UNCHANGED <<ring, kicked, spare, dead, shutdownDone>>
  BY DEF Return, In, sleepVars
<1>3. /\ Numbers /\ PollerMoved("return", "out") /\ CountsNat /\ CountsNat'
      /\ numItems \in Int /\ refs \in Nat /\ NumPollers(Inside) >= 1
  BY <1>2, PollerCounts
<1>4. /\ NumPollers({"uncount"})' = NumPollers({"uncount"})
      /\ NumPollers(Inside)' = NumPollers(Inside) - 1
  BY <1>3 DEF PollerMoved, Bit, Inside, CountsNat, PollerPC
<1>5. refs >= 1
  BY <1>2, OthersInside
<1>6. ASSUME refs = 1 PROVE numItems = 0
  <2>1. Anchor = 0 /\ NumPollers(Inside) = 1
    BY <1>3, <1>6, AnchorStays DEF Numbers, RefsNumbers, CountsNat
  <2>2. owner = "gone"
    BY <2>1 DEF Anchor, One
  <2>3. NumPollers({"uncount"}) = 0
    BY <1>3, <1>4, <2>1 DEF CountsNat
  <2> QED BY <1>1, <2>2, <2>3, NothingCounted DEF ToldOK
<1>7. broken' = FALSE /\ refs' = refs - 1
  BY <1>1, <1>2, <1>5, <1>6 DEF Unref, TypeOK
<1>8. RingOK'
  <2>1. shutdownDone' > 0 => dead' /\ ring' = <<>>
    BY <1>1, <1>2 DEF RingOK
  <2>2. "out" \in PollerPC \ {"asleep"}
    BY DEF PollerPC
  <2> QED BY <1>2, <2>1, <2>2, RingStays
<1>9. Anchor' = Anchor /\ Anchor \in Int
  BY <1>2, AnchorStays
<1>10. /\ numItems' + NumPollers({"uncount"}) = numItems + NumPollers({"uncount"})'
       /\ refs' + (Anchor + NumPollers(Inside)) = refs + (Anchor' + NumPollers(Inside)')
  BY <1>2, <1>3, <1>4, <1>7, <1>9 DEF CountsNat
<1>11. "out" \in PollerPC \ (Popping \cup {"drained"}) /\ "return" \notin Popping
  BY DEF PollerPC, Popping
<1>12. /\ zero' \in [Poller -> BOOLEAN] /\ mayExpire' \subseteq Timed /\ spare' \in BOOLEAN
       /\ ring' \in Seq(Poller) /\ kicked' \subseteq Poller /\ shutdownDone' \in 0..1
       /\ numItems' \in Int /\ refs' \in Nat /\ taken'[p] = Nobody
  BY <1>1, <1>2, <1>3, <1>5, <1>7 DEF TypeOK
<1>13. UNCHANGED <<opc, queueVars, pending, told, owner, dead>>
  BY <1>2
<1> QED BY <1>2, <1>7, <1>8, <1>10, <1>11, <1>12, <1>13, CountedStepDone

LEMMA CallStep ==
  ASSUME IInv, NEW p \in Poller, Call(p)
  PROVE  IInv'
<1>1. TypeOK /\ RingOK /\ PopOK /\ ~broken
  BY DEF IInv, NeverBroken
<1>2. /\ owner # "gone" /\ ppc[p] = "out" /\ ppc' = [ppc EXCEPT ![p] = "pop"] /\ Touch
      /\ refs' = refs + 1
      /\ UNCHANGED <<opc, queueVars, numItems, pending, taken, zero, mayExpire, told, sleepVars,
                     owner>>
      /\ UNCHANGED <<ring, kicked, spare, dead, shutdownDone>>
  BY DEF Call, In, sleepVars
<1>3. broken' = FALSE
  <2>1. refs >= 1
    BY <1>2, OthersInside
  <2> QED BY <1>1, <1>2, <2>1 DEF Touch, TypeOK
<1>4. PollerMoved("out", "pop") /\ CountsNat /\ CountsNat' /\ numItems \in Int /\ refs \in Nat
  BY <1>2, PollerCounts
<1>5. /\ NumPollers({"uncount"})' = NumPollers({"uncount"})
      /\ NumPollers(Inside)' = NumPollers(Inside) + 1
  BY <1>4 DEF PollerMoved, Bit, Inside, CountsNat, PollerPC
<1>6. RingOK'
  <2>1. shutdownDone' > 0 => dead' /\ ring' = <<>>
    BY <1>1, <1>2 DEF RingOK
  <2>2. "pop" \in PollerPC \ {"asleep"}
    BY DEF PollerPC
  <2> QED BY <1>2, <2>1, <2>2, RingStays
<1>7. Anchor' = Anchor /\ Anchor \in Int
  BY <1>2, AnchorStays
<1>8. /\ numItems' + NumPollers({"uncount"}) = numItems + NumPollers({"uncount"})'
      /\ refs' + (Anchor + NumPollers(Inside)) = refs + (Anchor' + NumPollers(Inside)')
  BY <1>2, <1>4, <1>5, <1>7 DEF CountsNat
<1>9. "pop" \in PollerPC \ (Popping \cup {"drained"}) /\ "out" \notin Popping
  BY DEF PollerPC, Popping
<1>10. taken[p] = Nobody
  BY <1>1, <1>2 DEF PopOK
<1>11. /\ zero' \in [Poller -> BOOLEAN] /\ mayExpire' \subseteq Timed /\ spare' \in BOOLEAN
       /\ ring' \in Seq(Poller) /\ kicked' \subseteq Poller /\ shutdownDone' \in 0..1
       /\ numItems' \in Int /\ refs' \in Nat
  BY <1>1, <1>2 DEF TypeOK
<1>12. UNCHANGED <<opc, queueVars, pending, told, owner, dead>>
  BY <1>2
<1> QED BY <1>2, <1>3, <1>6, <1>8, <1>9, <1>10, <1>11, <1>12, CountedStepDone

----------------------------------------------------------------------------
(* The owner's steps, and the poller's closure *)

\* What such a step owes the invariant: nothing moves but the numbers.
LEMMA OwnerStepDone ==
  ASSUME IInv, UNCHANGED <<opc, queueVars, numItems, pollerVars, ring, kicked, spare>>,
         pending' \in Int, pending = 0 => pending' = 0, dead' \in BOOLEAN, shutdownDone' \in 0..1,
         shutdownDone' > 0 => dead' /\ ring = <<>>,
         owner' \in {"open", "closing", "closed", "gone"}, owner' = "gone" => told # {},
         refs' \in Nat, broken' = FALSE, PendingNumbers',
         refs' = Anchor' + NumPollers(Inside) + NumOps(Holding)
  PROVE  IInv'
<1>1. TypeOK /\ QueueOK /\ PopOK /\ ToldOK /\ RingOK /\ ItemsNumbers
  BY PartsMeaning DEF IInv, Parts, Numbers
<1>2. /\ UNCHANGED <<queue, lock, ppc, taken, zero, mayExpire, told, ring, kicked>>
      /\ Queued' = Queued /\ (\A S : Ops(S)' = Ops(S) /\ Pollers(S)' = Pollers(S))
  BY DEF queueVars, pollerVars, Queued, Ops, Pollers
<1>3. QueueOK'
  BY <1>1, <1>2 DEF QueueOK, Linked
<1>4. PopOK'
  BY <1>1, <1>2 DEF PopOK, Followed, Linked
<1>5. ToldOK'
  BY <1>1, <1>2 DEF ToldOK
<1>6. RingOK'
  BY <1>1, <1>2 DEF RingOK
<1>7. Numbers'
  <2>1. (\A S : NumOps(S)' = NumOps(S)) /\ (\A S : NumPollers(S)' = NumPollers(S))
        /\ Cardinality(Queued)' = Cardinality(Queued)
    BY <1>2, Unmoved
  <2> QED BY <1>1, <2>1 DEF Numbers, ItemsNumbers, RefsNumbers
<1>8. TypeOK'
  BY <1>1, <1>2 DEF TypeOK
<1> QED BY <1>3, <1>4, <1>5, <1>6, <1>7, <1>8, PartsNext DEF Parts, NeverBroken

LEMMA OwnerCounts ==
  ASSUME IInv
  PROVE  /\ PendingNumbers /\ RefsNumbers /\ CountsNat /\ Anchor \in Nat /\ Anchor' \in Nat
         /\ UNCHANGED opc => \A S : NumOps(S)' = NumOps(S)
BY PartsMeaning, CountsAlwaysTyped, Unmoved DEF Parts, Numbers, CountsTyped, Anchor, One

\* Shutdown drops the count of the open queue; without operations under way it
\* finishes at once.
LEMMA ShutdownStep ==
  ASSUME IInv, Shutdown
  PROVE  IInv'
<1>1. TypeOK /\ RingOK /\ ~broken
  BY DEF IInv, NeverBroken
<1>2. /\ owner = "open" /\ owner' = "closing" /\ pending' = pending - 1 /\ refs' = refs + 1
      /\ UNCHANGED <<opc, queueVars, numItems, pollerVars>>
  BY DEF Shutdown
<1>3. PendingNumbers /\ RefsNumbers /\ CountsNat /\ Anchor \in Nat /\ Anchor' \in Nat
      /\ \A S : NumOps(S)' = NumOps(S)
  BY <1>2, OwnerCounts
<1>4. pending \in Int /\ pending = NumOps(Busy) + 1 /\ NumOps(Busy) \in Nat /\ NumOps(Storing) \in Nat
      /\ NumOps(Storing) <= NumOps(Busy)
  BY <1>1, <1>2, <1>3 DEF PendingNumbers, CountsNat, One, TypeOK
<1>5. ~dead /\ refs >= 1
  BY <1>2, <1>3, <1>4, OthersInside DEF PendingNumbers
<1>6. /\ UNCHANGED <<ring, kicked, spare>> /\ broken' = FALSE
      /\ dead' = (pending = 1) /\ shutdownDone' \in 0..1
      /\ (shutdownDone' > 0 <=> pending = 1 /\ ring = <<>>)
  <2>1. CASE pending = 1
    <3>1. FinishShutdown(TRUE, 0)
      BY <2>1 DEF Shutdown
    <3>2. /\ UNCHANGED <<ring, kicked, spare>> /\ dead' = TRUE
          /\ shutdownDone' \in 0..1 /\ (shutdownDone' > 0 <=> ring = <<>>)
      BY <1>5, <3>1, PollerShutdownKeeps DEF FinishShutdown
    <3>3. broken' = FALSE
      BY <1>1, <1>5, <3>1 DEF FinishShutdown, TypeOK
    <3> QED BY <2>1, <3>2, <3>3
  <2>2. CASE pending # 1
    <3>1. Touch /\ UNCHANGED <<ring, kicked, spare, dead, shutdownDone>>
      BY <2>2 DEF Shutdown, sleepVars
    <3>2. broken' = FALSE
      BY <1>1, <1>5, <3>1 DEF Touch, TypeOK
    <3>3. ~(shutdownDone > 0) /\ dead = FALSE /\ shutdownDone \in 0..1
      BY <1>1, <1>5 DEF RingOK, TypeOK
    <3> QED BY <2>2, <3>1, <3>2, <3>3
  <2> QED BY <2>1, <2>2
<1>7. PendingNumbers'
  <2>1. NumOps(Finishing) = 0 /\ (NumOps(Storing) > 0 => pending = 1)
    BY <1>3, <1>4 DEF PendingNumbers, One
  <2>2. pending' = NumOps(Busy)' + One(owner' = "open")
    BY <1>2, <1>3, <1>4 DEF One
  <2>3. ~(NumOps(Storing)' > 0)
    BY <1>3, <1>4, <2>1
  <2>4. dead' <=> pending' = 0
    <3>1. pending' = 0 <=> pending = 1
      BY <1>2, <1>4
    <3> QED BY <1>6, <3>1
  <2> QED BY <1>3, <2>1, <2>2, <2>3, <2>4 DEF PendingNumbers, One
<1>8. Anchor' = Anchor + 1
  <2>1. ~dead' \/ ring' # <<>> \/ shutdownDone' > 0
    BY <1>6
  <2> QED BY <1>2, <1>5, <2>1 DEF Anchor, One
<1>9. refs' = Anchor' + NumPollers(Inside) + NumOps(Holding)
  BY <1>2, <1>3, <1>8 DEF RefsNumbers, CountsNat
<1>10. pending' \in Int /\ (pending = 0 => pending' = 0) /\ refs' \in Nat /\ dead' \in BOOLEAN
  BY <1>1, <1>2, <1>4, <1>6 DEF TypeOK
<1> QED BY <1>2, <1>6, <1>7, <1>9, <1>10, OwnerStepDone

\* Two references are the owner's while it is inside shutdown.
LEMMA ShutdownEndsStep ==
  ASSUME IInv, ShutdownEnds
  PROVE  IInv'
<1>1. TypeOK /\ RingOK /\ ~broken
  BY DEF IInv, NeverBroken
<1>2. /\ owner = "closing" /\ owner' = "closed" /\ Unref
      /\ UNCHANGED <<opc, queueVars, numItems, pending, pollerVars, sleepVars>>
      /\ UNCHANGED <<ring, kicked, spare, dead, shutdownDone>>
  BY DEF ShutdownEnds, sleepVars
<1>3. PendingNumbers /\ RefsNumbers /\ CountsNat /\ Anchor \in Nat /\ Anchor' \in Nat
      /\ \A S : NumOps(S)' = NumOps(S)
  BY <1>2, OwnerCounts
<1>4. Anchor >= 2 /\ Anchor' = Anchor - 1
  BY <1>2 DEF Anchor, One
<1>5. refs >= 2
  BY <1>3, <1>4 DEF RefsNumbers, CountsNat
<1>6. broken' = FALSE /\ refs' = refs - 1
  BY <1>1, <1>2, <1>5 DEF Unref, TypeOK
<1>7. PendingNumbers'
  BY <1>2, <1>3 DEF PendingNumbers
<1>8. refs' = Anchor' + NumPollers(Inside) + NumOps(Holding)
  BY <1>3, <1>4, <1>6 DEF RefsNumbers, CountsNat
<1>9. /\ pending' \in Int /\ (pending = 0 => pending' = 0) /\ refs' \in Nat /\ dead' \in BOOLEAN
      /\ shutdownDone' \in 0..1 /\ (shutdownDone' > 0 => dead' /\ ring = <<>>)
  BY <1>1, <1>2, <1>5, <1>6 DEF TypeOK, RingOK
<1> QED BY <1>2, <1>6, <1>7, <1>8, <1>9, OwnerStepDone

\* The owner destroys a queue that is drained, and that nobody polls.
LEMMA DestroyStep ==
  ASSUME IInv, Destroy
  PROVE  IInv'
<1>1. TypeOK /\ RingOK /\ ~broken
  BY DEF IInv, NeverBroken
<1>2. /\ owner = "closed" /\ owner' = "gone" /\ Unref /\ told # {}
      /\ \A p \in Poller : ppc[p] = "out"
      /\ UNCHANGED <<opc, queueVars, numItems, pending, pollerVars, sleepVars>>
      /\ UNCHANGED <<ring, kicked, spare, dead, shutdownDone>>
  BY DEF Destroy, sleepVars
<1>3. PendingNumbers /\ RefsNumbers /\ CountsNat /\ Anchor \in Nat /\ Anchor' \in Nat
      /\ \A S : NumOps(S)' = NumOps(S)
  BY <1>2, OwnerCounts
<1>4. Anchor' = Anchor - 1
  BY <1>2 DEF Anchor, One
<1>5. numItems = 0
  <2>1. Pollers({"uncount"}) = {}
    BY <1>2 DEF Pollers
  <2>2. NumPollers({"uncount"}) = 0
    BY <2>1, FS_EmptySet DEF NumPollers
  <2> QED BY <1>2, <2>2, NothingCounted
<1>6. refs >= 1
  BY <1>2, OthersInside
<1>7. broken' = FALSE /\ refs' = refs - 1
  BY <1>1, <1>2, <1>5, <1>6 DEF Unref, TypeOK
<1>8. PendingNumbers'
  BY <1>2, <1>3 DEF PendingNumbers
<1>9. refs' = Anchor' + NumPollers(Inside) + NumOps(Holding)
  BY <1>3, <1>4, <1>7 DEF RefsNumbers, CountsNat
<1>10. /\ pending' \in Int /\ (pending = 0 => pending' = 0) /\ refs' \in Nat /\ dead' \in BOOLEAN
       /\ shutdownDone' \in 0..1 /\ (shutdownDone' > 0 => dead' /\ ring = <<>>)
  BY <1>1, <1>2, <1>6, <1>7 DEF TypeOK, RingOK
<1> QED BY <1>2, <1>7, <1>8, <1>9, <1>10, OwnerStepDone

\* The poller's closure gives up the reference it was scheduled with.
LEMMA PollsetShutdownDoneStep ==
  ASSUME IInv, PollsetShutdownDone
  PROVE  IInv'
<1>1. TypeOK /\ RingOK /\ ToldOK /\ ~broken
  BY DEF IInv, NeverBroken
<1>2. /\ shutdownDone > 0 /\ shutdownDone' = shutdownDone - 1 /\ Unref
      /\ UNCHANGED <<opc, queueVars, numItems, pending, pollerVars, ring, kicked, spare, dead, owner>>
  BY DEF PollsetShutdownDone
<1>3. PendingNumbers /\ RefsNumbers /\ CountsNat /\ Anchor \in Nat /\ Anchor' \in Nat
      /\ \A S : NumOps(S)' = NumOps(S)
  BY <1>2, OwnerCounts
<1>4. shutdownDone = 1 /\ shutdownDone' = 0 /\ dead = TRUE /\ ring = <<>>
  BY <1>1, <1>2 DEF TypeOK, RingOK
<1>5. Anchor' = Anchor - 1
  BY <1>2, <1>4 DEF Anchor, One
<1>6. refs >= 1
  BY <1>2, OthersInside
<1>7. ASSUME refs = 1 PROVE numItems = 0
  <2>1. Anchor = 1 /\ NumPollers(Inside) = 0
    <3>1. Anchor >= 1
      BY <1>3, <1>5
    <3> QED BY <1>3, <1>7, <3>1 DEF RefsNumbers, CountsNat
  <2>2. owner = "gone"
    BY <1>4, <2>1 DEF Anchor, One
  <2>3. NumPollers({"uncount"}) = 0
    BY <1>3, <2>1 DEF CountsNat
  <2> QED BY <1>1, <2>2, <2>3, NothingCounted DEF ToldOK
<1>8. broken' = FALSE /\ refs' = refs - 1
  BY <1>1, <1>2, <1>6, <1>7 DEF Unref, TypeOK
<1>9. PendingNumbers'
  BY <1>2, <1>3 DEF PendingNumbers
<1>10. refs' = Anchor' + NumPollers(Inside) + NumOps(Holding)
  BY <1>3, <1>5, <1>8 DEF RefsNumbers, CountsNat
<1>11. /\ pending' \in Int /\ (pending = 0 => pending' = 0) /\ refs' \in Nat /\ dead' \in BOOLEAN
       /\ shutdownDone' \in 0..1 /\ ~(shutdownDone' > 0)
       /\ owner' \in {"open", "closing", "closed", "gone"} /\ (owner' = "gone" => told # {})
  BY <1>1, <1>2, <1>4, <1>6, <1>8 DEF TypeOK, ToldOK
<1> QED BY <1>2, <1>8, <1>9, <1>10, <1>11, OwnerStepDone

----------------------------------------------------------------------------
(* The invariant *)

LEMMA InitOK == Init => IInv
<1> SUFFICES ASSUME Init PROVE IInv
  OBVIOUS
<1>1. CountsNat /\ \A S : Ops(S) = {} <=> NumOps(S) = 0
  BY CountsAlwaysTyped DEF CountsTyped
<1>2. /\ \A S : "new" \notin S => Ops(S) = {}
      /\ \A S : "out" \notin S => Pollers(S) = {}
  BY DEF Init, Ops, Pollers
<1>3. Range(<<Stub>>) = {Stub} /\ Range(<<>>) = {} /\ Head(<<Stub>>) = Stub
  BY DEF Range
<1>4. Queued = {} /\ Cardinality(Queued) = 0
  <2>1. Queued = {}
    BY <1>3, CompletionQueueAssumption DEF Init, Queued
  <2> QED BY <1>1, <2>1 DEF CountsNat
<1>5. /\ NumOps(Busy) = 0 /\ NumOps(Storing) = 0 /\ NumOps(Finishing) = 0 /\ NumOps(Publishing) = 0
      /\ NumOps(Holding) = 0
  BY <1>1, <1>2 DEF Busy, Storing, Finishing, Publishing, Holding
<1>6. NumPollers(Inside) = 0 /\ NumPollers({"uncount"}) = 0
  BY <1>2, FS_EmptySet DEF NumPollers, Inside
<1>7. Numbers
  BY <1>4, <1>5, <1>6
     DEF Init, Numbers, PendingNumbers, ItemsNumbers, RefsNumbers, Anchor, One
<1>8. TypeOK
  <2>1. queue \in Seq(Op \cup {Stub}) /\ ring \in Seq(Poller)
    BY EmptySeq DEF Init
  <2>2. /\ opc \in [Op -> OpPC] /\ ppc \in [Poller -> PollerPC]
        /\ taken \in [Poller -> Op \cup {Nobody}] /\ zero \in [Poller -> BOOLEAN]
    BY DEF Init, OpPC, PollerPC
  <2>3. /\ lock = Nobody /\ numItems = 0 /\ pending = 1 /\ mayExpire = {} /\ told = {} /\ kicked = {}
        /\ spare = FALSE /\ dead = FALSE /\ shutdownDone = 0 /\ owner = "open" /\ refs = 2
        /\ broken = FALSE
    BY DEF Init
  <2>4. numItems \in Int /\ pending \in Int /\ shutdownDone \in 0..1 /\ refs \in Nat
    BY <2>3
  <2>5. spare \in BOOLEAN /\ dead \in BOOLEAN /\ broken \in BOOLEAN
    BY <2>3
  <2>6. lock \in Poller \cup {Nobody} /\ owner \in {"open", "closing", "closed", "gone"}
    BY <2>3
  <2>7. mayExpire \subseteq Timed /\ told \subseteq Poller /\ kicked \subseteq Poller
    BY <2>3
  <2> QED BY <2>1, <2>2, <2>4, <2>5, <2>6, <2>7 DEF TypeOK
<1>9. QueueOK
  BY <1>2, <1>3, <1>4 DEF Init, QueueOK, Linked, IsInjective
<1>10. PopOK
  BY <1>2, CompletionQueueAssumption DEF Init, PopOK, Queued, Ops
<1>11. ToldOK
  BY <1>2 DEF Init, ToldOK
<1>12. RingOK
  <2>1. IsInjective(<<>>) /\ Pollers({"asleep"}) = {}
    BY <1>2 DEF IsInjective
  <2>2. ring = <<>> /\ kicked = {} /\ ~(shutdownDone > 0)
    BY DEF Init
  <2> QED BY <1>3, <2>1, <2>2 DEF RingOK
<1> QED BY <1>7, <1>8, <1>9, <1>10, <1>11, <1>12, PartsMeaning DEF Parts, Init, NeverBroken

LEMMA OpSteps ==
  ASSUME IInv, NEW o \in Op, BeginOp(o) \/ Cache(o) \/ Push(o) \/ EndOp(o)
  PROVE  IInv'
<1>1. CASE BeginOp(o)
  BY <1>1, BeginOpStep
<1>2. CASE Cache(o) \/ Flush(o) \/ Link(o) \/ KickOne(o) \/ (LoadPending(o) /\ pending # 1)
  BY <1>2, QuietOpSteps
<1>3. CASE Push(o)
  BY <1>3, PushStep
<1>4. CASE CountItem(o)
  BY <1>4, CountItemStep
<1>5. CASE LoadPending(o) /\ pending = 1
  BY <1>5, LoadPendingLastStep
<1>6. CASE SubPending(o)
  BY <1>6, SubPendingStep
<1>7. CASE RefOp(o)
  BY <1>7, RefOpStep
<1>8. CASE StorePending(o)
  BY <1>8, StorePendingStep
<1>9. CASE Finish(o)
  BY <1>9, FinishStep
<1>10. CASE UnrefOp(o)
  BY <1>10, UnrefOpStep
<1> QED BY <1>1, <1>2, <1>3, <1>4, <1>5, <1>6, <1>7, <1>8, <1>9, <1>10 DEF EndOp

LEMMA PollerSteps ==
  ASSUME IInv, NEW p \in Poller, Call(p) \/ Polling(p)
  PROVE  IInv'
<1>1. CASE Call(p)
  BY <1>1, CallStep
<1>2. CASE TryLock(p) /\ lock = Nobody
  BY <1>2, TryLockStep
<1>3. CASE \/ TryLock(p) /\ lock # Nobody
           \/ Missed(p) \/ Check(p) \/ LookBack(p) \/ PassOn(p) \/ KickNext(p)
           \/ Work(p) /\ ppc'[p] # "asleep"
  BY <1>3, PlainSteps
<1>4. CASE ReadTail(p)
  BY <1>4, ReadTailStep
<1>5. CASE PushStub(p)
  BY <1>5, PushStubStep
<1>6. CASE Unlock(p)
  BY <1>6, UnlockStep
<1>7. CASE UncountItem(p)
  BY <1>7, UncountItemStep
<1>8. CASE Drained(p)
  BY <1>8, DrainedStep
<1>9. CASE Work(p) /\ ppc'[p] = "asleep"
  BY <1>9, WorkStep
<1>10. CASE WakeUp(p)
  BY <1>10, WakeUpStep
<1>11. CASE Return(p)
  BY <1>11, ReturnStep
<1> QED BY <1>1, <1>2, <1>3, <1>4, <1>5, <1>6, <1>7, <1>8, <1>9, <1>10, <1>11 DEF Polling

LEMMA NextOK ==
  ASSUME IInv, [Next]_vars
  PROVE  IInv'
<1>1. ASSUME NEW o \in Op, BeginOp(o) \/ Cache(o) \/ Push(o) \/ EndOp(o) PROVE IInv'
  BY <1>1, OpSteps
<1>2. ASSUME NEW p \in Poller, Call(p) \/ Polling(p) PROVE IInv'
  BY <1>2, PollerSteps
<1>3. CASE Shutdown
  BY <1>3, ShutdownStep
<1>4. CASE ShutdownEnds
  BY <1>4, ShutdownEndsStep
<1>5. CASE PollsetShutdownDone
  BY <1>5, PollsetShutdownDoneStep
<1>6. CASE Destroy
  BY <1>6, DestroyStep
<1>7. CASE UNCHANGED vars
  <2>1. UNCHANGED <<opc, queue, numItems, pending, lock, ppc, taken, zero, mayExpire, told, ring,
                    kicked, spare, dead, shutdownDone, owner, refs, broken>>
    BY <1>7 DEF vars, queueVars, pollerVars, sleepVars, lifeVars
  <2> QED BY <2>1 DEF IInv, TypeOK, PendingExact, ItemsExact, QueueOK, PopOK, ToldOK, RingOK,
                      RefsExact, NeverBroken, Ops, Pollers, Queued, Linked, Followed
<1> QED BY <1>1, <1>2, <1>3, <1>4, <1>5, <1>6, <1>7 DEF Next

\* The counters, the list, the
\* spinlock, the ring and the references are what IInv says, for any number of
\* operations and pollers.
THEOREM Invariance == Spec => []IInv
<1>1. IInv /\ [Next]_vars => IInv'
  BY NextOK
<1> QED BY <1>1, InitOK, PTL DEF Spec

\* The queue is never used after its last reference went, is empty when it goes,
\* and cq_finish_shutdown_next always finds what it checks.
THEOREM Unbroken == Spec => []NeverBroken
<1>1. IInv => NeverBroken
  BY DEF IInv
<1> QED BY <1>1, Invariance, PTL

\* No begun operation outlives the shutdown.
THEOREM BegunHold == Spec => []BegunOpsHoldShutdown
<1>1. IInv => BegunOpsHoldShutdown
  BY OpInside DEF BegunOpsHoldShutdown, Ops
<1> QED BY <1>1, Invariance, PTL

----------------------------------------------------------------------------
(* The refinement *)

Stutter == (\A o \in Op : Status(o)' = Status(o)) /\ (owner' # "open" <=> owner # "open") /\ told' = told

LEMMA StutterIs ==
  ASSUME Stutter
  PROVE  UNCHANGED Abstract!vars
<1>1. [o \in Op |-> Status(o)]' = [o \in Op |-> Status(o)]
  BY DEF Stutter
<1>2. (owner # "open")' = (owner # "open")
  BY DEF Stutter
<1> QED BY <1>1, <1>2 DEF Abstract!vars, Stutter

LEMMA StatusMove ==
  ASSUME NEW o \in Op, NEW from, NEW to, Status(o) = from, Status(o)' = to,
         \A q \in Op \ {o} : Status(q)' = Status(q)
  PROVE  Abstract!Move(o, from, to)
<1> DEFINE f == [q \in Op |-> Status(q)]
           g == [q \in Op |-> Status(q)']
<1>1. f[o] = from /\ g = [f EXCEPT ![o] = to]
  OBVIOUS
<1> QED BY <1>1 DEF Abstract!Move

LEMMA StatusFacts ==
  ASSUME IInv, NEW o \in Op
  PROVE  /\ opc[o] = "new" => Status(o) = "new"
         /\ opc[o] = "begun" => Status(o) = "begun"
         /\ opc[o] = "cached" => Status(o) = "ready" /\ o \notin Queued
         /\ opc[o] \notin Unpushed /\ o \in Queued => Status(o) = "ready"
         /\ opc[o] \notin Unpushed /\ o \notin Queued => Status(o) = "delivered"
         /\ Status(o) = "begun" => opc[o] = "begun"
         /\ Status(o) = "ready" => opc[o] = "cached" \/ o \in Queued
<1>1. o \in Queued => opc[o] \notin Unpushed
  BY DEF IInv, QueueOK, Ops
<1> QED BY <1>1 DEF Status, Unpushed

\* When nothing is pending, no operation is under way.
LEMMA NothingBegun ==
  ASSUME IInv, pending = 0
  PROVE  /\ owner # "open" /\ \A o \in Op : opc[o] # "begun" /\ opc[o] # "cached"
<1>1. PendingNumbers /\ CountsNat
  BY PartsMeaning, CountsAlwaysTyped DEF Parts, Numbers, CountsTyped
<1>2. owner # "open"
  BY <1>1 DEF PendingNumbers, CountsNat, One
<1>3. \A o \in Op : opc[o] \notin Busy
  <2> TAKE o \in Op
  <2>1. opc[o] \in Busy => pending >= 1
    BY OpInside
  <2> QED BY <2>1
<1> QED BY <1>2, <1>3 DEF Busy

LEMMA BeginOpBegins ==
  ASSUME IInv, NEW o \in Op, BeginOp(o)
  PROVE  Abstract!BeginOp(o)
<1>1. TypeOK /\ ToldOK
  BY DEF IInv
<1>2. /\ opc[o] = "new" /\ (owner = "open" \/ pending = 0) /\ UNCHANGED <<queue, told, owner>>
  BY DEF BeginOp, At, queueVars, pollerVars, lifeVars
<1>3. Status(o) = "new" /\ Queued' = Queued
  BY <1>2, StatusFacts DEF Queued
<1>4. UNCHANGED <<owner # "open", told>>
  BY <1>2
<1>5. CASE pending # 0
  <2>1. opc' = [opc EXCEPT ![o] = "begun"] /\ told = {}
    BY <1>1, <1>5 DEF BeginOp, At, ToldOK
  <2>2. Status(o)' = "begun" /\ \A q \in Op \ {o} : Status(q)' = Status(q)
    BY <1>1, <1>3, <2>1 DEF Status, TypeOK
  <2>3. Abstract!Move(o, "new", "begun")
    BY <1>3, <2>2, StatusMove
  <2> QED BY <1>4, <2>1, <2>3 DEF Abstract!BeginOp
<1>6. CASE pending = 0
  <2>1. opc' = [opc EXCEPT ![o] = "refused"]
    BY <1>6 DEF BeginOp, At
  <2>2. Status(o)' = "refused" /\ \A q \in Op \ {o} : Status(q)' = Status(q)
    BY <1>1, <1>3, <2>1 DEF Status, TypeOK
  <2>3. Abstract!Move(o, "new", "refused")
    BY <1>3, <2>2, StatusMove
  <2>4. owner # "open" /\ \A q \in Op : Status(q) # "begun"
    BY <1>6, NothingBegun, StatusFacts
  <2>5. Abstract!None("begun")
    BY <2>4 DEF Abstract!None
  <2> QED BY <1>4, <2>3, <2>4, <2>5 DEF Abstract!BeginOp
<1> QED BY <1>5, <1>6

\* An event is ready from the step that hands it over.
LEMMA HandOverEnds ==
  ASSUME IInv, NEW o \in Op, Cache(o) \/ Push(o)
  PROVE  Abstract!EndOp(o)
<1>1. TypeOK /\ QueueOK
  BY DEF IInv
<1>2. opc[o] = "begun" /\ Status(o) = "begun" /\ UNCHANGED <<told, owner>>
  BY StatusFacts DEF Cache, Push, At, pollerVars, lifeVars
<1>3. CASE Cache(o)
  <2>1. opc' = [opc EXCEPT ![o] = "cached"] /\ Queued' = Queued
    BY <1>3 DEF Cache, At, queueVars, Queued
  <2> QED BY <1>1, <2>1 , <1>2, StatusMove DEF Status, TypeOK, Abstract!EndOp
<1>4. CASE Push(o)
  <2>1. opc' = [opc EXCEPT ![o] = "link"] /\ queue' = Append(queue, o)
    BY <1>4 DEF Push, At
  <2>2. Queued' = Queued \cup {o}
    <3>1. Range(queue') = Range(queue) \cup {o}
      BY <1>1, <2>1, AppendElements DEF TypeOK
    <3> QED BY <3>1 DEF Queued
  <2>3. Status(o)' = "ready" /\ \A q \in Op \ {o} : Status(q)' = Status(q)
    BY <1>1, <2>1, <2>2 DEF Status, TypeOK
  <2>4. Abstract!Move(o, "begun", "ready")
    BY <1>2, <2>3, StatusMove
  <2> QED BY <1>2, <2>4 DEF Abstract!EndOp
<1> QED BY <1>3, <1>4

\* The flush of a cache delivers its event.
LEMMA FlushDelivers ==
  ASSUME IInv, NEW o \in Op, Flush(o)
  PROVE  Abstract!Deliver(o)
<1>1. TypeOK
  BY DEF IInv
<1>2. /\ opc[o] = "cached" /\ opc' = [opc EXCEPT ![o] = "sub"] /\ UNCHANGED <<told, owner>>
      /\ Queued' = Queued
  BY DEF Flush, At, pollerVars, lifeVars, queueVars, Queued
<1>3. Status(o) = "ready" /\ o \notin Queued
  BY <1>2, StatusFacts
<1>4. Status(o)' = "delivered" /\ \A q \in Op \ {o} : Status(q)' = Status(q)
  BY <1>1, <1>2, <1>3 DEF Status, TypeOK
<1>5. Abstract!Move(o, "ready", "delivered")
  BY <1>3, <1>4, StatusMove
<1> QED BY <1>2, <1>5 DEF Abstract!Deliver

LEMMA OpStutters ==
  ASSUME IInv, NEW o \in Op,
         \/ Link(o) \/ CountItem(o) \/ LoadPending(o) \/ KickOne(o) \/ SubPending(o) \/ RefOp(o)
         \/ StorePending(o) \/ Finish(o) \/ UnrefOp(o)
  PROVE  Stutter
<1>1. TypeOK
  BY DEF IInv
<1>2. PICK to \in OpPC \ Unpushed : opc[o] \in OpPC \ Unpushed /\ opc' = [opc EXCEPT ![o] = to]
  BY DEF Link, CountItem, LoadPending, KickOne, SubPending, RefOp, StorePending, Finish, UnrefOp, At,
         OpPC, Unpushed
<1>3. UNCHANGED <<queue, told, owner>>
  BY DEF Link, CountItem, LoadPending, KickOne, SubPending, RefOp, StorePending, Finish, UnrefOp,
         queueVars, pollerVars, lifeVars
<1>4. Queued' = Queued
  BY <1>3 DEF Queued
<1>5. \A q \in Op : Status(q)' = Status(q)
  BY <1>1, <1>2, <1>4 DEF Status, TypeOK, Unpushed
<1> QED BY <1>3, <1>5 DEF Stutter

\* An event is delivered when its poller unlinks it.
LEMMA UnlockDelivers ==
  ASSUME IInv, NEW p \in Poller, Unlock(p)
  PROVE  Stutter \/ \E o \in Op : Abstract!Deliver(o)
<1>1. TypeOK /\ QueueOK /\ PopOK
  BY DEF IInv
<1>2. /\ ppc[p] = "unlock" /\ UNCHANGED <<opc, told, owner>>
      /\ queue' = IF taken[p] = Nobody THEN queue ELSE Tail(queue)
  BY DEF Unlock, In, lifeVars
<1>3. CASE taken[p] = Nobody
  BY <1>2, <1>3 DEF Stutter, Status, Queued
<1>4. CASE taken[p] # Nobody
  <2>1. PICK o \in Op : o = taken[p] /\ o = Head(queue)
    BY <1>1, <1>2, <1>4 DEF TypeOK, PopOK, Pollers
  <2>2. Queued' = Queued \ {o} /\ o \in Queued
    <3>1. Range(Tail(queue)) = Range(queue) \ {Head(queue)} /\ Head(queue) \in Range(queue)
      BY <1>1, TailElements DEF TypeOK, QueueOK
    <3> QED BY <1>2, <1>4, <2>1, <3>1 DEF Queued
  <2>3. opc[o] \notin Unpushed
    BY <1>1, <2>1 DEF PopOK, Ops
  <2>4. Status(o) = "ready"
    BY <2>2, <2>3, StatusFacts
  <2>5. Status(o)' = "delivered" /\ \A q \in Op \ {o} : Status(q)' = Status(q)
    BY <1>2, <2>2, <2>3 DEF Status, Unpushed
  <2>6. Abstract!Move(o, "ready", "delivered")
    BY <2>4, <2>5, StatusMove
  <2> QED BY <1>2, <2>6 DEF Abstract!Deliver
<1> QED BY <1>3, <1>4

\* SHUTDOWN is reported when nothing is left.
LEMMA DrainedReports ==
  ASSUME IInv, NEW p \in Poller, Drained(p)
  PROVE  Stutter \/ Abstract!Report(p)
<1>1. TypeOK /\ ToldOK
  BY DEF IInv
<1>2. /\ ppc[p] = "drained" /\ UNCHANGED <<opc, queue, owner>>
      /\ \/ told' = told
         \/ told' = told \cup {p} /\ ~(numItems > 0)
  BY DEF Drained, In, queueVars, lifeVars
<1>3. \A o \in Op : Status(o)' = Status(o)
  BY <1>2 DEF Status, Queued
<1>4. CASE told' = told
  BY <1>2, <1>3, <1>4 DEF Stutter
<1>5. CASE told' = told \cup {p} /\ ~(numItems > 0)
  <2>1. pending = 0
    BY <1>1, <1>2 DEF ToldOK, Pollers
  <2>2. Queued = {}
    <3>1. PendingNumbers /\ ItemsNumbers /\ CountsNat /\ numItems \in Int
      BY <1>1, PartsMeaning, CountsAlwaysTyped DEF Parts, Numbers, CountsTyped, TypeOK
    <3>2. NumOps(Publishing) = 0
      BY <2>1, <3>1 DEF PendingNumbers, CountsNat, One
    <3> QED BY <1>5, <3>1, <3>2 DEF ItemsNumbers, CountsNat
  <2>3. owner # "open" /\ \A o \in Op : Status(o) # "begun" /\ Status(o) # "ready"
    BY <2>1, <2>2, NothingBegun, StatusFacts
  <2>4. Abstract!None("begun") /\ Abstract!None("ready")
    BY <2>3 DEF Abstract!None
  <2>5. UNCHANGED <<[o \in Op |-> Status(o)], owner # "open">>
    BY <1>2, <1>3
  <2> QED BY <1>5, <2>3, <2>4, <2>5 DEF Abstract!Report
<1> QED BY <1>2, <1>4, <1>5

\* The other steps change no status: the stub is no event.
LEMMA PollerStutters ==
  ASSUME IInv, NEW p \in Poller,
         \/ Call(p) \/ TryLock(p) \/ ReadTail(p) \/ PushStub(p) \/ UncountItem(p) \/ Missed(p)
         \/ Check(p) \/ Work(p) \/ WakeUp(p) \/ LookBack(p) \/ PassOn(p) \/ KickNext(p) \/ Return(p)
  PROVE  Stutter
<1>1. queue \in Seq(Op \cup {Stub}) /\ queue # <<>> /\ IsInjective(queue) /\ Stub \notin Op
  BY CompletionQueueAssumption DEF IInv, TypeOK, QueueOK
<1>2. Queued' = Queued
  <2>1. CASE ReadTail(p)
    <3>1. queue' = queue \/ (queue' = Tail(queue) /\ Head(queue) = Stub)
      BY <2>1 DEF ReadTail
    <3>2. Range(Tail(queue)) = Range(queue) \ {Head(queue)}
      BY <1>1, TailElements
    <3> QED BY <1>1, <3>1, <3>2 DEF Queued
  <2>2. CASE PushStub(p)
    <3>1. Range(Append(queue, Stub)) = Range(queue) \cup {Stub}
      BY <1>1, AppendElements
    <3> QED BY <1>1, <2>2, <3>1 DEF PushStub, Queued
  <2>3. CASE UNCHANGED queue
    BY <2>3 DEF Queued
  <2> QED BY <2>1, <2>2, <2>3
          DEF Call, TryLock, UncountItem, Missed, Check, Work, WakeUp, LookBack, PassOn, KickNext,
              Return, queueVars
<1>3. UNCHANGED <<opc, told, owner>>
  BY DEF Call, TryLock, ReadTail, PushStub, UncountItem, Missed, Check, Work, WakeUp, LookBack,
         PassOn, KickNext, Return, lifeVars
<1>4. \A o \in Op : Status(o)' = Status(o)
  BY <1>2, <1>3 DEF Status
<1> QED BY <1>3, <1>4 DEF Stutter

LEMMA OwnerRefines ==
  ASSUME Shutdown \/ ShutdownEnds \/ PollsetShutdownDone \/ Destroy
  PROVE  Stutter \/ Abstract!Close
<1>1. UNCHANGED <<opc, queue, told>>
  BY DEF Shutdown, ShutdownEnds, PollsetShutdownDone, Destroy, queueVars, pollerVars
<1>2. \A o \in Op : Status(o)' = Status(o)
  BY <1>1 DEF Status, Queued
<1>3. CASE Shutdown
  <2>1. (owner # "open")' = TRUE /\ UNCHANGED <<[o \in Op |-> Status(o)], told>>
    BY <1>1, <1>2, <1>3 DEF Shutdown
  <2> QED BY <2>1 DEF Abstract!Close
<1>4. CASE ShutdownEnds \/ PollsetShutdownDone \/ Destroy
  BY <1>1, <1>2, <1>4 DEF ShutdownEnds, PollsetShutdownDone, Destroy, Stutter
<1> QED BY <1>3, <1>4

\* The completion queue implements the event queue: every event is delivered once, and SHUTDOWN is the last word.
THEOREM Refinement == Spec => ImplementsQueue
<1>1. Init => Abstract!QueueInit
  <2> HAVE Init
  <2>1. \A o \in Op : Status(o) = "new"
    <3>1. \A o \in Op : opc[o] = "new"
      BY DEF Init
    <3> QED BY <3>1, InitOK, StatusFacts
  <2>2. (owner # "open") = FALSE /\ told = {}
    BY DEF Init
  <2> QED BY <2>1, <2>2 DEF Abstract!QueueInit
<1>2. IInv /\ [Next]_vars => [Abstract!QueueNext]_Abstract!vars
  <2> SUFFICES ASSUME IInv, [Next]_vars PROVE Abstract!QueueNext \/ Stutter
    BY StutterIs
  <2>1. ASSUME NEW o \in Op, BeginOp(o) \/ Cache(o) \/ Push(o) \/ EndOp(o)
        PROVE  Abstract!QueueNext \/ Stutter
    BY <2>1, BeginOpBegins, HandOverEnds, FlushDelivers, OpStutters DEF EndOp, Abstract!QueueNext
  <2>2. ASSUME NEW p \in Poller, Call(p) \/ Polling(p) PROVE Abstract!QueueNext \/ Stutter
    BY <2>2, UnlockDelivers, DrainedReports, PollerStutters DEF Polling, Abstract!QueueNext
  <2>3. CASE Shutdown \/ ShutdownEnds \/ PollsetShutdownDone \/ Destroy
    BY <2>3, OwnerRefines DEF Abstract!QueueNext
  <2>4. CASE UNCHANGED vars
    BY <2>4 DEF vars, queueVars, pollerVars, lifeVars, Stutter, Status, Queued
  <2> QED BY <2>1, <2>2, <2>3, <2>4 DEF Next
<1>3. Spec => []IInv
  BY Invariance
<1> QED BY <1>1, <1>2, <1>3, PTL DEF Spec, ImplementsQueue, Abstract!Queue


----------------------------------------------------------------------------
(* No lost wakeup, for any number of operations and pollers.  WakeOK is      *)
(* inductive beside IInv: each step that takes a waker away either leaves    *)
(* another or turns an idle poller into one that has decided to look again.  *)

Waking == {"loadFirst", "kick", "refStore", "store", "ref", "finish"}
Waker ==
  \/ kicked # {} \/ spare
  \/ \E p \in Poller : ppc[p] \in Awake \/ (ppc[p] \in Idle /\ zero[p])
  \/ \E o \in Op : opc[o] \in Waking
SomeIdle == \E p \in Poller : ppc[p] \in Idle

\* WakeOK, thread by thread.
LEMMA WakeMeaning ==
  WakeOK <=> (spare => ring = <<>>) /\ (numItems > 0 /\ ~dead /\ SomeIdle => Waker)
BY DEF WakeOK, Waker, SomeIdle, Pollers, Ops, Waking

LEMMA WakeMeaningNext ==
  WakeOK' <=> (spare' => ring' = <<>>) /\ (numItems' > 0 /\ ~dead' /\ SomeIdle' => Waker')
BY DEF WakeOK, Waker, SomeIdle, Pollers, Ops, Waking

\* Whoever made the counter zero has the shutdown to finish (cq_finish_shutdown_next).
LEMMA ZeroWakes ==
  ASSUME IInv, pending = 0, ~dead
  PROVE  \E o \in Op : opc[o] \in Waking
<1>1. Cardinality(Ops({"ref", "finish"})) = 1
  BY DEF IInv, PendingExact, One
<1>2. Ops({"ref", "finish"}) # {}
  BY <1>1, FS_EmptySet
<1> QED BY <1>2 DEF Ops, Waking

LEMMA PendingNatural ==
  ASSUME IInv
  PROVE  pending \in Nat
<1>1. IsFiniteSet(Ops(Busy))
  BY CompletionQueueAssumption, FS_Subset DEF Ops
<1> QED BY <1>1, FS_CardinalityType DEF IInv, PendingExact, One

\* A kick reaches a sleeper, or the next who comes (non_polling_poller_kick).
LEMMA KickWakes ==
  ASSUME WakeOK, Kick
  PROVE  (spare' => ring' = <<>>) /\ (kicked' # {} \/ spare')
BY WakeMeaning DEF Kick

\* An operation's step that gives nothing up.
LEMMA OpKeeps ==
  ASSUME TypeOK, WakeOK, NEW o \in Op, NEW to, opc' = [opc EXCEPT ![o] = to],
         opc[o] \in Waking => to \in Waking,
         numItems' > 0 => numItems > 0 \/ to \in Waking,
         UNCHANGED <<ppc, zero, kicked, spare, ring, dead>>
  PROVE  WakeOK'
<1>1. opc'[o] = to /\ \A x \in Op \ {o} : opc'[x] = opc[x]
  BY DEF TypeOK
<1>2. SUFFICES ASSUME numItems' > 0, ~dead', SomeIdle' PROVE Waker'
  BY WakeMeaning, WakeMeaningNext
<1>3. CASE to \in Waking
  BY <1>1, <1>3 DEF Waker
<1>4. CASE to \notin Waking
  <2>1. Waker
    BY <1>2, <1>4, WakeMeaning DEF SomeIdle
  <2>2. opc[o] \notin Waking
    BY <1>4
  <2>3. (\E x \in Op : opc[x] \in Waking) => \E x \in Op : opc'[x] \in Waking
    BY <1>1, <2>2
  <2> QED BY <2>1, <2>3 DEF Waker
<1> QED BY <1>3, <1>4

LEMMA OpWakes ==
  ASSUME IInv, WakeOK, NEW o \in Op, BeginOp(o) \/ Cache(o) \/ Push(o) \/ EndOp(o)
  PROVE  WakeOK'
<1>1. TypeOK
  BY DEF IInv
<1>2. CASE BeginOp(o) \/ Cache(o) \/ Push(o) \/ Flush(o) \/ Link(o)
  <2>1. /\ UNCHANGED <<ppc, zero, kicked, spare, ring, dead, numItems>>
        /\ \E to \in OpPC : opc[o] \notin Waking /\ opc' = [opc EXCEPT ![o] = to]
    BY <1>2 DEF BeginOp, Cache, Push, Flush, Link, At, pollerVars, sleepVars, Waking, OpPC
  <2> QED BY <1>1, <2>1, OpKeeps
<1>3. CASE CountItem(o)
  <2>1. /\ UNCHANGED <<ppc, zero, kicked, spare, ring, dead>> /\ numItems' = numItems + 1
        /\ opc[o] \notin Waking
        /\ opc' = [opc EXCEPT ![o] = IF numItems = 0 THEN "loadFirst" ELSE "load"]
    BY <1>3 DEF CountItem, At, pollerVars, sleepVars, Waking
  <2>2. numItems' > 0 => numItems > 0 \/ numItems = 0
    BY <1>1, <2>1 DEF TypeOK
  <2>3. (IF numItems = 0 THEN "loadFirst" ELSE "load") \in Waking <=> numItems = 0
    BY DEF Waking
  <2> QED BY <1>1, <2>1, <2>2, <2>3, OpKeeps
<1>4. CASE LoadPending(o)
  <2>1. /\ UNCHANGED <<ppc, zero, kicked, spare, ring, dead, numItems>>
        /\ \E to \in OpPC : (opc[o] \in Waking => to \in Waking) /\ opc' = [opc EXCEPT ![o] = to]
    BY <1>4 DEF LoadPending, At, pollerVars, sleepVars, Waking, OpPC
  <2> QED BY <1>1, <2>1, OpKeeps
<1>5. CASE KickOne(o)
  <2>1. Kick
    BY <1>5 DEF KickOne
  <2> QED BY <2>1, KickWakes, WakeMeaningNext DEF Waker
<1>6. CASE SubPending(o) \/ RefOp(o) \/ StorePending(o) \/ UnrefOp(o)
  <2>1. /\ UNCHANGED <<ppc, zero, kicked, spare, ring, dead, numItems>>
        /\ \E to \in OpPC : (opc[o] \in Waking => to \in Waking) /\ opc' = [opc EXCEPT ![o] = to]
    BY <1>6 DEF SubPending, RefOp, StorePending, UnrefOp, At, pollerVars, sleepVars, Waking, OpPC
  <2> QED BY <1>1, <2>1, OpKeeps
<1>7. CASE Finish(o)
  <2>1. dead' = TRUE /\ UNCHANGED <<spare, ring>>
    BY <1>7 DEF Finish, FinishShutdown, PollerShutdown
  <2> QED BY <2>1, WakeMeaning, WakeMeaningNext
<1> QED BY <1>2, <1>3, <1>4, <1>5, <1>6, <1>7 DEF EndOp

\* A poller that is going to look again is a waker.
LEMMA AwakePoller ==
  ASSUME TypeOK, NEW p \in Poller, NEW to \in Awake, ppc' = [ppc EXCEPT ![p] = to],
         spare' => ring' = <<>>
  PROVE  WakeOK'
<1>1. ppc'[p] \in Awake
  BY DEF TypeOK
<1> QED BY <1>1, WakeMeaningNext DEF Waker

LEMMA LookingWakes ==
  ASSUME IInv, WakeOK, NEW p \in Poller,
         \/ Call(p) \/ TryLock(p) \/ ReadTail(p) \/ PushStub(p) \/ Unlock(p) \/ UncountItem(p)
         \/ Drained(p) \/ WakeUp(p)
  PROVE  WakeOK'
<1>1. TypeOK /\ RingOK /\ (spare => ring = <<>>)
  BY WakeMeaning DEF IInv
<1>2. CASE WakeUp(p)
  <2>1. spare' = spare /\ ppc' = [ppc EXCEPT ![p] = "pop"] /\ DOMAIN ring # {}
    BY <1>2 DEF WakeUp, In
  <2>2. ring # <<>>
    BY <2>1
  <2> QED BY <1>1, <2>1, <2>2, AwakePoller DEF Awake
<1>3. CASE ~WakeUp(p)
  <2>1. /\ UNCHANGED <<spare, ring>>
        /\ \E to \in Awake : ppc' = [ppc EXCEPT ![p] = to]
    BY <1>3 DEF Call, TryLock, ReadTail, PushStub, Unlock, UncountItem, Drained, In, sleepVars, Awake
  <2> QED BY <1>1, <2>1, AwakePoller
<1> QED BY <1>2, <1>3

\* A poller's step that leaves the counter, the kicks and the operations alone, and its
\* own place among the wakers.
LEMMA PollerKeeps ==
  ASSUME TypeOK, WakeOK, NEW p \in Poller, NEW to, ppc' = [ppc EXCEPT ![p] = to],
         UNCHANGED <<opc, numItems, dead, kicked, spare>>, spare' => ring' = <<>>,
         ppc[p] \notin Awake, ppc[p] \in Idle <=> to \in Idle,
         to \in Idle => zero' = zero, \A q \in Poller \ {p} : zero'[q] = zero[q]
  PROVE  WakeOK'
<1>1. ppc'[p] = to /\ \A q \in Poller \ {p} : ppc'[q] = ppc[q]
  BY DEF TypeOK
<1>2. SUFFICES ASSUME numItems' > 0, ~dead', SomeIdle' PROVE Waker'
  BY WakeMeaningNext
<1>3. SomeIdle
  BY <1>1, <1>2 DEF SomeIdle
<1>4. Waker
  BY <1>2, <1>3, WakeMeaning
<1>5. ASSUME NEW q \in Poller, ppc[q] \in Awake \/ (ppc[q] \in Idle /\ zero[q]) PROVE Waker'
  <2>1. CASE q = p
    BY <1>1, <1>5, <2>1 DEF Waker
  <2>2. CASE q # p
    BY <1>1, <1>5, <2>2 DEF Waker
  <2> QED BY <2>1, <2>2
<1> QED BY <1>4, <1>5 DEF Waker

\* A poller that goes away when the counter is zero leaves the shutdown behind it.
LEMMA ZeroLeaves ==
  ASSUME IInv, pending = 0, UNCHANGED <<opc, dead, spare, ring>>, WakeOK
  PROVE  WakeOK'
<1>1. CASE dead
  BY <1>1, WakeMeaning, WakeMeaningNext
<1>2. CASE ~dead
  <2>1. \E o \in Op : opc'[o] \in Waking
    BY <1>2, ZeroWakes
  <2> QED BY <2>1, WakeMeaning, WakeMeaningNext DEF Waker
<1> QED BY <1>1, <1>2

LEMMA DecidingWakes ==
  ASSUME IInv, WakeOK, NEW p \in Poller,
         \/ Missed(p) \/ Check(p) \/ Work(p) \/ LookBack(p) \/ PassOn(p) \/ KickNext(p) \/ Return(p)
  PROVE  WakeOK'
<1>1. TypeOK /\ (spare => ring = <<>>)
  BY WakeMeaning DEF IInv
<1>2. CASE Missed(p)
  <2>1. /\ ppc' = [ppc EXCEPT ![p] = "check"] /\ zero' = [zero EXCEPT ![p] = numItems > 0]
        /\ UNCHANGED <<numItems, spare, ring>>
    BY <1>2 DEF Missed, In, sleepVars
  <2>2. ppc'[p] \in Idle /\ (numItems > 0 => zero'[p])
    BY <1>1, <2>1 DEF TypeOK, Idle
  <2> QED BY <1>1, <2>1, <2>2, WakeMeaningNext DEF Waker
<1>3. CASE Check(p)
  <2>1. UNCHANGED <<opc, numItems, dead, kicked, spare, ring, zero>> /\ ppc[p] = "check"
    BY <1>3 DEF Check, In, sleepVars
  <2>2. CASE pending = 0
    BY <2>1, <2>2, ZeroLeaves
  <2>3. CASE ppc' = [ppc EXCEPT ![p] = "leave"]
    BY <1>1, <2>1, <2>3, AwakePoller DEF Awake
  <2>4. CASE ppc' = [ppc EXCEPT ![p] = "work"]
    BY <1>1, <2>1, <2>4, PollerKeeps DEF Awake, Idle
  <2> QED BY <1>3, <2>2, <2>3, <2>4 DEF Check, In
<1>4. CASE Work(p)
  <2>1. UNCHANGED <<opc, numItems, dead, kicked, zero>> /\ ppc[p] = "work"
    BY <1>4 DEF Work, In
  <2>2. CASE ppc' = [ppc EXCEPT ![p] = "pop"]
    <3>1. spare' => ring' = <<>>
      BY <1>1, <1>4, <2>2 DEF Work, In, TypeOK
    <3> QED BY <1>1, <2>2, <3>1, AwakePoller DEF Awake
  <2>3. CASE ~spare /\ spare' = spare /\ ppc' = [ppc EXCEPT ![p] = "asleep"]
    BY <1>1, <2>1, <2>3, PollerKeeps DEF Awake, Idle
  <2> QED BY <1>4, <2>2, <2>3 DEF Work, In
<1>5. CASE LookBack(p)
  <2>1. UNCHANGED <<numItems, spare, ring>>
    BY <1>5 DEF LookBack, sleepVars
  <2>2. CASE numItems > 0
    <3>1. ppc' = [ppc EXCEPT ![p] = "left"]
      BY <1>5, <2>2 DEF LookBack, In
    <3> QED BY <1>1, <2>1, <3>1, AwakePoller DEF Awake
  <2>3. CASE ~(numItems > 0)
    BY <1>1, <2>1, <2>3, WakeMeaningNext
  <2> QED BY <2>2, <2>3
<1>6. CASE PassOn(p)
  <2>1. UNCHANGED <<opc, dead, spare, ring>>
    BY <1>6 DEF PassOn, sleepVars
  <2>2. CASE pending > 0
    <3>1. ppc' = [ppc EXCEPT ![p] = "kick"]
      BY <1>6, <2>2 DEF PassOn, In
    <3> QED BY <1>1, <2>1, <3>1, AwakePoller DEF Awake
  <2>3. CASE ~(pending > 0)
    <3>1. pending = 0
      BY <2>3, PendingNatural
    <3> QED BY <2>1, <3>1, ZeroLeaves
  <2> QED BY <2>2, <2>3
<1>7. CASE KickNext(p)
  <2>1. Kick
    BY <1>7 DEF KickNext
  <2> QED BY <2>1, KickWakes, WakeMeaningNext DEF Waker
<1>8. CASE Return(p)
  <2>1. /\ UNCHANGED <<opc, numItems, dead, kicked, spare, ring>> /\ ppc[p] = "return"
        /\ ppc' = [ppc EXCEPT ![p] = "out"] /\ zero' = [zero EXCEPT ![p] = FALSE]
    BY <1>8 DEF Return, In, sleepVars
  <2>2. \A q \in Poller \ {p} : zero'[q] = zero[q]
    BY <1>1, <2>1 DEF TypeOK
  <2> QED BY <1>1, <2>1, <2>2, PollerKeeps DEF Awake, Idle
<1> QED BY <1>2, <1>3, <1>4, <1>5, <1>6, <1>7, <1>8

LEMMA NextWakes ==
  ASSUME IInv, WakeOK, [Next]_vars
  PROVE  WakeOK'
<1>1. ASSUME NEW o \in Op, BeginOp(o) \/ Cache(o) \/ Push(o) \/ EndOp(o) PROVE WakeOK'
  BY <1>1, OpWakes
<1>2. ASSUME NEW p \in Poller, Call(p) \/ Polling(p) PROVE WakeOK'
  BY <1>2, LookingWakes, DecidingWakes DEF Polling
<1>3. CASE Shutdown
  <2>1. spare' = spare /\ ring' = ring /\ UNCHANGED <<opc, ppc, zero, numItems>>
        /\ (dead' = TRUE \/ UNCHANGED <<dead, kicked>>)
    BY <1>3 DEF Shutdown, FinishShutdown, PollerShutdown, pollerVars, sleepVars
  <2> QED BY <2>1 DEF WakeOK, Pollers, Ops
<1>4. CASE ShutdownEnds \/ PollsetShutdownDone \/ Destroy \/ UNCHANGED vars
  <2>1. UNCHANGED <<opc, ppc, zero, numItems, dead, kicked, spare, ring>>
    BY <1>4 DEF ShutdownEnds, PollsetShutdownDone, Destroy, vars, pollerVars, sleepVars
  <2> QED BY <2>1 DEF WakeOK, Pollers, Ops
<1> QED BY <1>1, <1>2, <1>3, <1>4 DEF Next

\* Every counted event has a waker while a poller is idle: a kick on its way, a poller
\* that naps or is about to look, or the producer that has yet to kick or to finish.
THEOREM Wakers == Spec => []WakeOK
<1>1. Init => WakeOK
  BY DEF Init, WakeOK
<1>2. IInv /\ WakeOK /\ [Next]_vars => WakeOK'
  BY NextWakes
<1> QED BY <1>1, <1>2, Invariance, PTL DEF Spec

\* While pollers sleep and an event is in the queue, somebody is awake who will take it
\* or wake one of them.  An event that is not counted yet has its producer; one that is
\* makes the counter positive, because nothing but such producers holds it back.
THEOREM NoWakeupLost == Spec => []NoLostWakeup
<1>1. IInv /\ WakeOK => NoLostWakeup
  <2> SUFFICES ASSUME IInv, WakeOK, Queued # {}, ring # <<>>, ~dead,
                      Ops({"link", "count"}) = {}
               PROVE  \/ kicked # {} \/ \E p \in Range(ring) : zero[p]
                      \/ Pollers(PollerPC \ {"out", "asleep", "return"}) # {}
                      \/ Ops({"loadFirst", "kick", "refStore", "store", "ref", "finish"}) # {}
    BY DEF NoLostWakeup, Ops
  <2>1. IsFiniteSet(Queued) /\ IsFiniteSet(Pollers({"uncount"}))
    BY CompletionQueueAssumption, FS_Subset, FS_Intersection DEF Queued, Pollers
  <2>2. /\ Cardinality(Queued) \in Nat /\ Cardinality(Queued) # 0
        /\ Cardinality(Pollers({"uncount"})) \in Nat /\ Cardinality(Ops({"link", "count"})) = 0
    BY <2>1, FS_CardinalityType, FS_EmptySet
  <2>3. numItems > 0
    BY <2>2 DEF IInv, ItemsExact
  <2>4. Range(ring) = Pollers({"asleep"}) /\ Range(ring) # {} /\ ~spare
    <3>1. 1 \in DOMAIN ring
      BY DEF IInv, TypeOK
    <3> QED BY <3>1 DEF IInv, RingOK, Range, WakeOK
  <2>5. SomeIdle
    BY <2>4 DEF SomeIdle, Idle, Pollers
  <2>6. Waker
    BY <2>3, <2>5, WakeMeaning
  <2>7. ASSUME NEW p \in Poller, ppc[p] \in Awake \/ (ppc[p] \in Idle /\ zero[p])
        PROVE  Pollers(PollerPC \ {"out", "asleep", "return"}) # {} \/ \E q \in Range(ring) : zero[q]
    BY <2>4, <2>7 DEF Pollers, PollerPC, Awake, Idle
  <2> QED BY <2>4, <2>6, <2>7 DEF Waker, Ops, Waking
<1> QED BY <1>1, Invariance, Wakers, PTL
=============================================================================
