---------------------------- MODULE GrpcGenProof ----------------------------
(* Proofs about GrpcGen, for every set of files, contents and scripts.     *)
EXTENDS GrpcGen, TLAPS

----------------------------------------------------------------------------
(* What protoc reads *)

\* Reads is the least set of present files that holds e and is closed under
\* imports.
LEMMA ReadsLeast ==
  ASSUME NEW t, NEW incs, NEW e \in Present(t)
  PROVE  /\ Reads(t, incs, e) \subseteq Present(t)
         /\ e \in Reads(t, incs, e)
         /\ ClosedUnderImports(t, incs, Reads(t, incs, e))
         /\ \A S \in SUBSET Present(t) :
              e \in S /\ ClosedUnderImports(t, incs, S) => Reads(t, incs, e) \subseteq S
<1> DEFINE R == Reads(t, incs, e)
<1>1. R \subseteq Present(t) /\ e \in R
  BY DEF Reads
<1>2. \A S \in SUBSET Present(t) :
        e \in S /\ ClosedUnderImports(t, incs, S) => R \subseteq S
  BY DEF Reads
<1>3. ASSUME NEW q \in R, NEW n \in Uses[t[q]], NEW d \in Resolve(t, incs, n)
      PROVE  d \in R
  <2>1. d \in Present(t)
    BY DEF Resolve
  <2>2. ASSUME NEW S \in SUBSET Present(t), e \in S, ClosedUnderImports(t, incs, S)
        PROVE  d \in S
    <3>1. q \in S
      BY <2>2, <1>2
    <3> QED BY <3>1, <2>2 DEF ClosedUnderImports
  <2> QED BY <2>1, <2>2 DEF Reads
<1>4. ClosedUnderImports(t, incs, R)
  BY <1>3 DEF ClosedUnderImports
<1> QED BY <1>1, <1>2, <1>4

\* A file under a generation root that protoc finds for a name in T is the
\* one it finds in t, when t and T agree on what t has under those roots.
LEMMA SameResolution ==
  ASSUME NEW t, NEW T, NEW gens \in Seq(Root), NEW imps \in Seq(Root), NEW n,
         \A i \in Present(t) : i.root \in Range(gens) => T[i] = t[i],
         NEW d \in Present(t), d.root \in Range(gens),
         d \in Resolve(T, gens \o imps, n)
  PROVE  Resolve(t, gens \o imps, n) = {d}
<1> DEFINE incs == gens \o imps
           at(j) == [root |-> incs[j], name |-> n]
<1>1. \A x \in Entry : x = [root |-> x.root, name |-> x.name]
  BY GrpcGenAssumption
<1>2. PICK i \in DOMAIN incs : /\ incs[i] = d.root
                               /\ \A j \in 1..(i-1) : at(j) \notin Present(T)
  BY DEF Resolve
<1>3. d \in Entry /\ d.name = n /\ d = at(i)
  BY <1>1, <1>2 DEF Resolve, Present
<1>4. /\ DOMAIN incs = 1..(Len(gens) + Len(imps)) /\ Len(gens) \in Nat /\ Len(imps) \in Nat
      /\ \A j \in 1..Len(gens) : incs[j] = gens[j]
  OBVIOUS
<1>5. i <= Len(gens)
  <2>1. PICK k \in 1..Len(gens) : gens[k] = d.root
    BY DEF Range
  <2>2. at(k) = d
    BY <2>1, <1>3, <1>4, <1>2
  <2>3. d \in Present(T)
    BY DEF Resolve
  <2>4. ~(k < i)
    BY <2>2, <2>3, <1>2, <1>4
  <2> QED BY <2>1, <2>4, <1>4
<1>6. \A j \in 1..(i-1) : at(j) \notin Present(t)
  <2> SUFFICES ASSUME NEW j \in 1..(i-1), at(j) \in Present(t)
               PROVE  FALSE
    OBVIOUS
  <2>1. j \in 1..Len(gens)
    BY <1>5, <1>4
  <2>2. at(j).root \in Range(gens)
    BY <2>1, <1>4 DEF Range
  <2>3. T[at(j)] = t[at(j)]
    BY <2>2
  <2>4. at(j) \in Present(T)
    BY <2>3 DEF Present
  <2> QED BY <2>4, <1>2
<1>7. d \in Resolve(t, incs, n)
  BY <1>2, <1>3, <1>6 DEF Resolve
<1>8. ASSUME NEW x \in Resolve(t, incs, n)
      PROVE  x = d
  <2>1. PICK k \in DOMAIN incs : /\ incs[k] = x.root
                                 /\ \A j \in 1..(k-1) : at(j) \notin Present(t)
    BY DEF Resolve
  <2>2. x \in Present(t) /\ x = at(k)
    BY <2>1, <1>1 DEF Resolve, Present
  <2>3. ~(k < i)
    BY <2>1, <2>2, <1>6, <1>4, <1>2
  <2>4. ~(i < k)
    BY <2>1, <1>3, <1>4, <1>2
  <2> QED BY <2>2, <2>3, <2>4, <1>3, <1>4, <1>2, <2>1
<1> QED BY <1>7, <1>8

\* protoc searches the roots gens before the roots imps.
Searches(cmd, gens, imps) ==
  gens \in Seq(Root) /\ imps \in Seq(Root) /\ cmd.incs = gens \o imps

\* T has what t has under the given roots.
Agree(t, T, gens) == \A i \in Present(t) : i.root \in Range(gens) => T[i] = t[i]

\* All that protoc read of T is in t, under the given roots.
Within(t, T, gens, cmd, e) ==
  \A r \in Reads(T, cmd.incs, e) : r \in Present(t) /\ r.root \in Range(gens)

\* What protoc read of T it reads again from t, when everything it read is
\* still under the generation roots and t and T agree on what t has there.
LEMMA SameReads ==
  ASSUME NEW t, NEW T, NEW gens, NEW imps, NEW cmd, NEW e,
         Searches(cmd, gens, imps), ProtocAccepts(T, cmd, e),
         Agree(t, T, gens), Within(t, T, gens, cmd, e)
  PROVE  Product(t, cmd, e) = Product(T, cmd, e)
<1> USE DEF Agree, Within, Searches
<1> DEFINE incs == cmd.incs
           R == Reads(T, incs, e)
           Q == Reads(t, incs, e)
<1>1. e \in Present(T)
  BY DEF ProtocAccepts, Resolve
<1>2. /\ R \subseteq Present(T) /\ e \in R /\ ClosedUnderImports(T, incs, R)
      /\ \A S \in SUBSET Present(T) :
           e \in S /\ ClosedUnderImports(T, incs, S) => R \subseteq S
  BY <1>1, ReadsLeast
<1>3. e \in Present(t) /\ R \subseteq Present(t) /\ \A r \in R : T[r] = t[r]
  BY <1>2
<1>4. /\ Q \subseteq Present(t) /\ e \in Q /\ ClosedUnderImports(t, incs, Q)
      /\ \A S \in SUBSET Present(t) :
           e \in S /\ ClosedUnderImports(t, incs, S) => Q \subseteq S
  BY <1>3, ReadsLeast
<1>5. ASSUME NEW r \in R, NEW n \in Uses[T[r]]
      PROVE  Resolve(t, incs, n) = Resolve(T, incs, n) /\ Resolve(T, incs, n) \subseteq R
  <2>1. Resolve(T, incs, n) \subseteq R
    BY <1>2 DEF ClosedUnderImports
  <2>2. \A d \in Resolve(T, incs, n) : Resolve(t, incs, n) = {d}
    <3> SUFFICES ASSUME NEW d \in Resolve(T, incs, n)
                 PROVE  Resolve(t, incs, n) = {d}
      OBVIOUS
    <3>1. d \in Present(t) /\ d.root \in Range(gens)
      BY <2>1
    <3>2. d \in Resolve(T, gens \o imps, n)
      OBVIOUS
    <3>3. Resolve(t, gens \o imps, n) = {d}
      BY ONLY <3>1, <3>2, SameResolution, gens \in Seq(Root), imps \in Seq(Root),
              \A i \in Present(t) : i.root \in Range(gens) => T[i] = t[i]
    <3> QED BY <3>3
  <2>3. Resolve(T, incs, n) # {}
    BY DEF ProtocAccepts
  <2> QED BY <2>1, <2>2, <2>3
<1>6. Q \subseteq R
  <2>1. ClosedUnderImports(t, incs, R)
    BY <1>5, <1>3 DEF ClosedUnderImports
  <2> QED BY <2>1, <1>2, <1>3, <1>4
<1>7. R \subseteq Q
  <2>1. ClosedUnderImports(T, incs, Q)
    BY <1>4, <1>5, <1>6, <1>3 DEF ClosedUnderImports
  <2> QED BY <2>1, <1>2, <1>4, <1>6
<1>8. R = Q
  BY <1>6, <1>7
<1>9. {<<r, t[r]>> : r \in Q} = {<<r, T[r]>> : r \in R}
  BY <1>8, <1>3
<1> QED BY <1>9 DEF Product

----------------------------------------------------------------------------
(* Planned edges *)

\* plan_entries makes well-formed edges.
LEMMA PlanEntriesOK ==
  ASSUME NEW c \in Config, NEW es, \A e \in es : e.root \in Root /\ e.name \in Names,
         NEW g \in PlanEntries(c, es)
  PROVE  EdgeOK(g)
<1>1. PICK e \in es :
        g = [root |-> e.root, name |-> e.name, mentions |-> Mentions(c, e), cmd |-> Command(c, e),
             inputs |-> InputsOf(es, e), outputs |-> Outputs(c, e)]
  BY DEF PlanEntries
<1>2. e.root \in Root /\ e.name \in Names
  OBVIOUS
<1>3. /\ g.name = e.name /\ g.root = e.root /\ g.cmd = Command(c, e)
      /\ g.outputs = Outputs(c, e)
  BY <1>1
<1>4. /\ g.cmd.root = g.root
      /\ g.cmd.plugins = ResolvePlugins(c)
  BY <1>3 DEF Command
<1>5. g.cmd \in Commands
  <2>1. Command(c, e) = Command(c, [root |-> e.root, name |-> e.name])
    BY DEF Command
  <2> QED BY <2>1, <1>2, <1>3 DEF Commands
<1>6. g.outputs = {[name |-> g.name, kind |-> k] : k \in OutputKinds(g.cmd.plugins)}
  BY <1>3, <1>4 DEF Outputs
<1>7. OutputKinds(ResolvePlugins(c)) \subseteq Kinds
  BY DEF Kinds
<1>8. g.outputs \subseteq File
  BY <1>6, <1>7, <1>4, <1>3, <1>2 DEF File
<1> QED BY <1>2, <1>3, <1>4, <1>5, <1>6, <1>8 DEF EdgeOK

\* Every file of the universe has a root and a name.
LEMMA EntryFields ==
  /\ \A e \in Entry : e.root \in Root /\ e.name \in Names /\ e = [root |-> e.root, name |-> e.name]
  /\ \A c \in Config : \A e \in ListedEntries(c) : e.root \in Root /\ e.name \in Names
<1>1. \A e \in Entry : e.root \in Root /\ e.name \in Names /\ e = [root |-> e.root, name |-> e.name]
  BY GrpcGenAssumption DEF Names
<1>2. ASSUME NEW c \in Config, NEW e \in ListedEntries(c)
      PROVE  e.root \in Root /\ e.name \in Names
  <2>1. c.protoDir \in Root /\ c.listed \in Seq(Names)
    BY GrpcGenAssumption DEF Names
  <2>2. PICK n \in Range(c.listed) : e = [root |-> c.protoDir, name |-> n]
    BY DEF ListedEntries
  <2>3. n \in Names
    BY <2>1, <2>2 DEF Range
  <2> QED BY <2>1, <2>2, <2>3
<1> QED BY <1>1, <1>2

\* What a protoc call writes is a product.
LEMMA ProductTyped ==
  ASSUME NEW t \in [Entry -> Content \cup {Absent}], NEW cmd \in Commands, NEW e
  PROVE  Product(t, cmd, e) \in ProductSet /\ Product(t, cmd, e) # Absent
<1>1. \A r \in Reads(t, cmd.incs, e) : r \in Entry /\ t[r] \in Content
  BY DEF Reads, Present
<1>2. {<<r, t[r]>> : r \in Reads(t, cmd.incs, e)} \in SUBSET (Entry \X Content)
  BY <1>1
<1>3. Product(t, cmd, e) \in ProductSet
  BY <1>2 DEF Product, ProductSet
<1> QED BY <1>3, AbsentAssumption

----------------------------------------------------------------------------
(* The invariant *)

\* Every edge writes its name's .pb.cc.
LEMMA CommonFile == \A n \in Names : CC(n) \in File
BY GrpcGenAssumption DEF File, CC, Kinds, MadeKinds

LEMMA InitIInv == Init => IInv
<1> SUFFICES ASSUME Init PROVE IInv
  OBVIOUS
<1>1. \A f \in File : outs[f] = Absent
  BY DEF Init
<1>2. \A n \in Names : CC(n) \in File
  BY CommonFile
<1>3. OutsOK
  BY <1>1, <1>2 DEF OutsOK
<1>4. TypeOK
  BY DEF Init, TypeOK, Never
<1>5. GraphOK /\ PlanOK
  BY DEF Init, GraphOK, PlanOK, Never
<1> QED BY <1>3, <1>4, <1>5 DEF IInv

\* A step that leaves the outputs alone keeps OutsOK if what it makes of the
\* tree is recorded as newer or is a removal.
LEMMA OutsKept ==
  ASSUME OutsOK, UNCHANGED outs,
         \A n \in Names : outs[CC(n)] # Absent =>
           \A i \in Entry \ newer'[n] : i \notin newer[n] /\ tree'[i] \in {tree[i], Absent}
  PROVE  OutsOK'
<1>1. ASSUME NEW n \in Names, outs[CC(n)] # Absent,
             NEW T \in [Entry -> Content \cup {Absent}], MadeFrom(n, T)
      PROVE  MadeFrom(n, T)'
  BY <1>1 DEF MadeFrom
<1>2. \A n \in Names : outs'[CC(n)] # Absent =>
        \E T \in [Entry -> Content \cup {Absent}] : MadeFrom(n, T)'
  BY <1>1 DEF OutsOK
<1>3. \A f \in File : outs'[f] # Absent =>
        outs'[CC(f.name)] # Absent /\ f.kind \in MadeKinds(outs'[f].cmd.plugins)
  BY DEF OutsOK
<1> QED BY <1>2, <1>3 DEF OutsOK

\* The author's steps.
LEMMA AuthorStep ==
  ASSUME IInv, Author
  PROVE  IInv'
<1> USE DEF IInv
<1>1. ASSUME NEW e \in Entry, NEW c \in Content, WriteProto(e, c)
      PROVE  IInv'
  <2>1. TypeOK'
    BY <1>1, EntryFields DEF WriteProto, Edit, TypeOK
  <2>2. GraphOK' /\ PlanOK'
    BY <1>1 DEF WriteProto, Edit, GraphOK, PlanOK
  <2>3. OutsOK'
    <3>1. ASSUME NEW n \in Names, outs[CC(n)] # Absent, NEW i \in Entry \ newer'[n]
          PROVE  i \notin newer[n] /\ tree'[i] \in {tree[i], Absent}
      <4>1. newer'[n] = newer[n] \cup {e}
        BY <1>1, <3>1 DEF WriteProto, Edit, CC
      <4> QED BY <4>1, <1>1, <3>1 DEF WriteProto, TypeOK
    <3> QED BY <3>1, OutsKept, <1>1 DEF WriteProto, Edit
  <2> QED BY <2>1, <2>2, <2>3
<1>2. ASSUME NEW e \in Entry, RemoveProto(e)
      PROVE  IInv'
  <2>1. TypeOK' /\ GraphOK' /\ PlanOK'
    BY <1>2 DEF RemoveProto, Edit, TypeOK, GraphOK, PlanOK
  <2>2. \A i \in Entry : tree'[i] \in {tree[i], Absent}
    BY <1>2 DEF RemoveProto, TypeOK
  <2>3. OutsOK'
    BY <2>2, OutsKept, <1>2 DEF RemoveProto, Edit
  <2> QED BY <2>1, <2>3
<1>3. ASSUME NEW r \in Root, RemoveRoot(r)
      PROVE  IInv'
  <2>1. TypeOK' /\ GraphOK' /\ PlanOK'
    BY <1>3 DEF RemoveRoot, Edit, TypeOK, GraphOK, PlanOK
  <2>2. \A i \in Entry : tree'[i] \in {tree[i], Absent}
    BY <1>3 DEF RemoveRoot, TypeOK
  <2>3. OutsOK'
    BY <2>2, OutsKept, <1>3 DEF RemoveRoot, Edit
  <2> QED BY <2>1, <2>3
<1>4. ASSUME NEW r \in Root, EditorLock(r)
      PROVE  IInv'
  <2>1. TypeOK' /\ GraphOK' /\ PlanOK'
    BY <1>4 DEF EditorLock, Edit, TypeOK, GraphOK, PlanOK
  <2>2. OutsOK'
    BY OutsKept, <1>4 DEF EditorLock, Edit
  <2> QED BY <2>1, <2>2
<1>5. ASSUME NEW c \in Config, EditBuild(c)
      PROVE  IInv'
  <2>1. TypeOK' /\ GraphOK' /\ PlanOK'
    BY <1>5 DEF EditBuild, Edit, TypeOK, GraphOK, PlanOK
  <2>2. OutsOK'
    BY OutsKept, <1>5 DEF EditBuild, Edit
  <2> QED BY <2>1, <2>2
<1> QED BY <1>1, <1>2, <1>3, <1>4, <1>5 DEF Author

\* A planned graph: what is handed to submit() makes GraphOK and PlanOK true.
LEMMA SubmitStep ==
  ASSUME IInv, NEW es, \A e \in es : e.root \in Root /\ e.name \in Names,
         NEW edges, edges = {} \/ edges = PlanEntries(cfg, es),
         NEW record, Submit(edges, record),
         record.ok \in BOOLEAN, record.cfg = cfg,
         cfg.all /\ record.complete => edges = {} \/ record.globbed = es
  PROVE  IInv'
<1> USE DEF IInv
<1>1. CASE edges = {}
  <2>1. ProgramFails
    BY <1>1 DEF Submit
  <2>2. TypeOK' /\ GraphOK'
    BY <2>1 DEF ProgramFails, authorVars, TypeOK, GraphOK, Never
  <2>3. PlanOK'
    BY <2>1 DEF ProgramFails, PlanOK, Never
  <2>4. OutsOK'
    BY <2>1, OutsKept DEF ProgramFails, authorVars
  <2> QED BY <2>2, <2>3, <2>4
<1>2. CASE edges # {}
  <2>1. /\ graph' = edges /\ rec' = record /\ todo' = DirtyEdges(edges)
        /\ phase' = "make" /\ UNCHANGED <<authorVars, outs, newer, status, calm>>
    BY <1>2 DEF Submit
  <2>2. edges = PlanEntries(cfg, es) /\ cfg \in Config
    BY <1>2 DEF TypeOK
  <2>3. \A g \in edges : EdgeOK(g)
    BY <2>2, PlanEntriesOK
  <2>4. GraphOK'
    BY <2>1, <2>3 DEF GraphOK, EdgeOK
  <2>5. TypeOK'
    BY <2>1 DEF TypeOK, authorVars, DirtyEdges
  <2>6. PlanOK'
    BY <2>1, <2>2, <1>2 DEF PlanOK
  <2>7. OutsOK'
    BY <2>1, OutsKept DEF authorVars
  <2> QED BY <2>4, <2>5, <2>6, <2>7
<1> QED BY <1>1, <1>2

\* One run of protoc.
LEMMA RunEdgeStep ==
  ASSUME IInv, NEW g \in todo, RunEdge(g)
  PROVE  IInv'
<1> USE DEF IInv
<1> DEFINE e == [root |-> g.cmd.root, name |-> g.name]
           P == Product(tree, g.cmd, e)
           Made(f) == f.name = g.name /\ f.kind \in MadeKinds(g.cmd.plugins)
<1>1. g \in graph /\ EdgeOK(g) /\ tree \in [Entry -> Content \cup {Absent}]
  BY DEF TypeOK, GraphOK, EdgeOK
<1>2. EntryOf(g) = e /\ ProtocAccepts(tree, g.cmd, e)
  BY <1>1 DEF RunEdge, CanRun, EntryOf, EdgeOK
<1>3. P \in ProductSet /\ P # Absent /\ P.cmd = g.cmd
  BY <1>1, ProductTyped DEF EdgeOK, Product
<1>4. /\ outs' = [f \in File |-> IF Made(f) THEN P ELSE outs[f]]
      /\ newer' = [newer EXCEPT ![g.name] = {}]
      /\ UNCHANGED <<tree, dirs, locks, cfg, rec, graph, phase, status, calm>>
      /\ todo' \subseteq todo
  BY <1>2 DEF RunEdge, authorVars
<1>5. CC(g.name) \in File /\ Made(CC(g.name))
  <2>1. g.name \in Names
    BY <1>1 DEF EdgeOK
  <2> QED BY <2>1, CommonFile DEF CC, MadeKinds
<1>6. TypeOK'
  <2>1. outs' \in [File -> ProductSet \cup {Absent}]
    BY <1>3, <1>4 DEF TypeOK
  <2>2. newer' \in [Names -> SUBSET Entry]
    BY <1>4 DEF TypeOK
  <2> QED BY <2>1, <2>2, <1>4 DEF TypeOK
<1>7. GraphOK' /\ PlanOK'
  BY <1>4 DEF GraphOK, PlanOK
<1>8. \A n \in Names : CC(n) \in File
  BY CommonFile
<1>9. \A f \in File : outs'[f] # Absent =>
        outs'[CC(f.name)] # Absent /\ f.kind \in MadeKinds(outs'[f].cmd.plugins)
  <2> SUFFICES ASSUME NEW f \in File, outs'[f] # Absent
               PROVE  outs'[CC(f.name)] # Absent /\ f.kind \in MadeKinds(outs'[f].cmd.plugins)
    OBVIOUS
  <2>0. CC(f.name) \in File
    BY <1>8 DEF File
  <2>1. CASE Made(f)
    BY <2>0, <2>1, <1>3, <1>4, <1>5
  <2>2. CASE ~Made(f)
    <3>1. outs'[f] = outs[f]
      BY <2>2, <1>4
    <3>2. outs[CC(f.name)] # Absent /\ f.kind \in MadeKinds(outs[f].cmd.plugins)
      BY <3>1 DEF OutsOK
    <3>3. outs'[CC(f.name)] # Absent
      BY <3>2, <2>0, <1>3, <1>4
    <3> QED BY <3>1, <3>2, <3>3
  <2> QED BY <2>1, <2>2
<1>10. ASSUME NEW n \in Names, outs'[CC(n)] # Absent
       PROVE  \E T \in [Entry -> Content \cup {Absent}] : MadeFrom(n, T)'
  <2>1. CASE n = g.name
    <3>1. outs'[CC(n)].cmd = g.cmd
      BY <2>1, <1>3, <1>4, <1>5
    <3>2. ASSUME NEW f \in File, f.name = n, outs'[f] # Absent, outs'[f].cmd = g.cmd
          PROVE  outs'[f] = P
      <4>1. Made(f)
        BY <3>2, <1>9, <2>1
      <4> QED BY <4>1, <1>4
    <3>3. \A i \in Entry \ newer'[n] : tree'[i] \in {tree[i], Absent}
      BY <1>4
    <3>4. ProtocAccepts(tree, outs'[CC(n)].cmd, [root |-> outs'[CC(n)].cmd.root, name |-> n])
      BY <3>1, <2>1, <1>2
    <3>5. \A T : T = tree' => MadeFrom(n, T)'
      BY <3>1, <3>2, <3>3, <3>4, <2>1, <1>4 DEF MadeFrom
    <3> QED BY <3>5, <1>1, <1>4
  <2>2. CASE n # g.name
    <3>1. \A f \in File : f.name = n => outs'[f] = outs[f]
      BY <2>2, <1>4, <1>5
    <3>2. CC(n) \in File /\ CC(n).name = n
      BY <1>8 DEF CC
    <3>3. outs'[CC(n)] = outs[CC(n)] /\ newer'[n] = newer[n]
      BY <3>1, <3>2, <2>2, <1>4 DEF TypeOK
    <3>4. PICK T \in [Entry -> Content \cup {Absent}] : MadeFrom(n, T)
      BY <1>10, <3>3 DEF OutsOK
    <3>5. MadeFrom(n, T)'
      BY <3>1, <3>3, <3>4, <1>4 DEF MadeFrom
    <3> QED BY <3>5
  <2> QED BY <2>1, <2>2
<1>11. OutsOK'
  BY <1>9, <1>10 DEF OutsOK
<1> QED BY <1>6, <1>7, <1>11

LEMMA NextIInv == IInv /\ [Next]_vars => IInv'
<1> SUFFICES ASSUME IInv, [Next]_vars
             PROVE  IInv'
  OBVIOUS
<1> USE DEF IInv
<1>1. CASE Author
  BY <1>1, AuthorStep
<1>2. CASE StartBuild
  <2>1. \/ todo' = {} /\ rec' = Never /\ graph' = {}
        \/ todo' \subseteq graph /\ UNCHANGED <<rec, graph>>
    BY <1>2 DEF StartBuild, DirtyEdges
  <2>2. TypeOK' /\ GraphOK' /\ PlanOK'
    <3>1. UNCHANGED <<tree, dirs, locks, cfg, outs, newer>> /\ calm' = TRUE /\ status' = "none"
          /\ phase' \in {"program", "make"}
      BY <1>2 DEF StartBuild, authorVars
    <3>2. CASE todo' = {} /\ rec' = Never /\ graph' = {}
      BY <3>1, <3>2 DEF TypeOK, GraphOK, PlanOK, Never
    <3>3. CASE todo' \subseteq graph /\ UNCHANGED <<rec, graph>>
      BY <3>1, <3>3 DEF TypeOK, GraphOK, PlanOK
    <3> QED BY <2>1, <3>2, <3>3
  <2>3. OutsOK'
    BY <1>2, OutsKept DEF StartBuild, authorVars
  <2> QED BY <2>2, <2>3
<1>3. CASE GenerateAll
  <2>1. PICK seen \in Listings(tree, locks, cfg) :
          Submit(PlanAll(cfg, dirs, seen),
                 [ok |-> TRUE, cfg |-> cfg, globbed |-> Globbed(tree, cfg),
                  complete |-> seen = GenEntries(tree, cfg)])
    BY <1>3 DEF GenerateAll
  <2> DEFINE record == [ok |-> TRUE, cfg |-> cfg, globbed |-> Globbed(tree, cfg),
                        complete |-> seen = GenEntries(tree, cfg)]
  <2>2. \A e \in seen : e.root \in Root /\ e.name \in Names
    BY EntryFields DEF Listings, GenEntries, Present
  <2>3. PlanAll(cfg, dirs, seen) = {} \/ PlanAll(cfg, dirs, seen) = PlanEntries(cfg, seen)
    BY DEF PlanAll
  <2>4. /\ record.ok \in BOOLEAN /\ record.cfg = cfg
        /\ cfg.all /\ record.complete => record.globbed = seen
    BY DEF Globbed
  <2>5. Submit(PlanAll(cfg, dirs, seen), record)
    BY <2>1
  <2> HIDE DEF record, IInv
  <2> QED BY <2>2, <2>3, <2>4, <2>5, SubmitStep
<1>4. CASE Generate
  <2> DEFINE es == ListedEntries(cfg)
             record == [ok |-> TRUE, cfg |-> cfg, globbed |-> {}, complete |-> TRUE]
  <2>1. Submit(PlanEntries(cfg, es), record) /\ ~cfg.all
    BY <1>4 DEF Generate
  <2>2. \A e \in es : e.root \in Root /\ e.name \in Names
    BY EntryFields DEF TypeOK
  <2>3. record.ok \in BOOLEAN /\ record.cfg = cfg
    OBVIOUS
  <2> HIDE DEF record, es, IInv
  <2> QED BY <2>1, <2>2, <2>3, SubmitStep
<1>5. ASSUME NEW g \in todo, RunEdge(g)
      PROVE  IInv'
  BY <1>5, RunEdgeStep
<1>6. CASE MakeFails
  <2>1. TypeOK' /\ GraphOK' /\ PlanOK'
    BY <1>6 DEF MakeFails, authorVars, TypeOK, GraphOK, PlanOK
  <2>2. OutsOK'
    BY <1>6, OutsKept DEF MakeFails, authorVars
  <2> QED BY <2>1, <2>2
<1>7. CASE FinishBuild
  <2>1. TypeOK' /\ GraphOK' /\ PlanOK'
    BY <1>7 DEF FinishBuild, authorVars, TypeOK, GraphOK, PlanOK
  <2>2. OutsOK'
    BY <1>7, OutsKept DEF FinishBuild, authorVars
  <2> QED BY <2>1, <2>2
<1>8. CASE UNCHANGED vars
  <2>1. TypeOK' /\ GraphOK' /\ PlanOK'
    BY <1>8 DEF vars, TypeOK, GraphOK, PlanOK
  <2>2. OutsOK'
    BY <1>8, OutsKept DEF vars
  <2> QED BY <2>1, <2>2
<1> QED BY <1>1, <1>2, <1>3, <1>4, <1>5, <1>6, <1>7, <1>8 DEF Next, Build

\* The inductive invariant holds in every reachable state, whatever the tree,
\* the contents and the scripts the author switches between.
THEOREM Invariance == Spec => []IInv
<1>1. Init => IInv
  BY InitIInv
<1>2. IInv /\ [Next]_vars => IInv'
  BY NextIInv
<1> QED BY <1>1, <1>2, PTL DEF Spec

----------------------------------------------------------------------------
(* What it gives *)

\* With nothing to do, the graph is the plan of the tree as it stands.
LEMMA UpToDateGraph ==
  ASSUME IInv, UpToDate, PlannedFromWholeTree
  PROVE  /\ cfg \in Config
         /\ graph = PlanEntries(cfg, GenEntries(tree, cfg)) /\ graph # {}
<1>1. rec.cfg = cfg /\ rec.globbed = GenEntries(tree, cfg)
  BY DEF UpToDate, NeedsProgram, PlannedFromWholeTree, Globbed
<1> QED BY <1>1 DEF IInv, PlanOK, TypeOK, PlannedFromWholeTree

\* An edge of that graph is clean and is what plan_entries made of a file
\* that is there.
LEMMA UpToDateEdge ==
  ASSUME IInv, UpToDate, PlannedFromWholeTree, NEW g \in graph
  PROVE  /\ EntryOf(g) \in GenEntries(tree, cfg)
         /\ g.name = EntryOf(g).name /\ g.cmd = Command(cfg, EntryOf(g))
         /\ g.inputs = GenEntries(tree, cfg)
         /\ g.outputs = Outputs(cfg, EntryOf(g))
         /\ GenEntries(tree, cfg) \cap newer[g.name] = {}
         /\ \A f \in g.outputs : outs[f] # Absent /\ outs[f].cmd = g.cmd
<1> DEFINE G == GenEntries(tree, cfg)
<1>1. PICK e \in G :
        g = [root |-> e.root, name |-> e.name, mentions |-> Mentions(cfg, e),
             cmd |-> Command(cfg, e), inputs |-> InputsOf(G, e), outputs |-> Outputs(cfg, e)]
  BY UpToDateGraph DEF PlanEntries
<1>2. EntryOf(g) = e
  BY <1>1, EntryFields DEF EntryOf, GenEntries, Present
<1>3. g.name = e.name /\ g.cmd = Command(cfg, e) /\ g.outputs = Outputs(cfg, e) /\ g.inputs = G
  BY <1>1 DEF InputsOf
<1>4. ~Dirty(g)
  BY DEF UpToDate
<1> QED BY <1>1, <1>2, <1>3, <1>4 DEF Dirty

\* The graph is never the empty plan of a failed run.
LEMMA UpToDateCovers ==
  ASSUME IInv, UpToDate, PlannedFromWholeTree, NEW e \in GenEntries(tree, cfg)
  PROVE  \E g \in graph : EntryOf(g) = e
<1>1. graph # {} /\ graph = PlanEntries(cfg, GenEntries(tree, cfg))
  BY UpToDateGraph
<1> DEFINE g == [root |-> e.root, name |-> e.name, mentions |-> Mentions(cfg, e),
                 cmd |-> Command(cfg, e), inputs |-> InputsOf(GenEntries(tree, cfg), e), outputs |-> Outputs(cfg, e)]
<1>2. g \in graph
  BY <1>1 DEF PlanEntries
<1>3. EntryOf(g) = e
  BY EntryFields DEF EntryOf, GenEntries, Present
<1> QED BY <1>2, <1>3

\* The stubs of an up-to-date tree are those of its files, no more, no fewer.
THEOREM Completeness == Spec => []EveryProtoGenerated
<1>1. ASSUME IInv PROVE EveryProtoGenerated
  <2> SUFFICES ASSUME UpToDate, PlannedFromWholeTree
               PROVE  /\ {EntryOf(g) : g \in graph} = GenEntries(tree, cfg)
                      /\ \A e \in GenEntries(tree, cfg) : \A f \in Outputs(cfg, e) : outs[f] # Absent
    BY DEF EveryProtoGenerated
  <2>1. \A e \in GenEntries(tree, cfg) : \E g \in graph : EntryOf(g) = e
    BY <1>1, UpToDateCovers
  <2>2. \A g \in graph : /\ EntryOf(g) \in GenEntries(tree, cfg)
                         /\ g.outputs = Outputs(cfg, EntryOf(g))
                         /\ \A f \in g.outputs : outs[f] # Absent
    BY <1>1, UpToDateEdge
  <2> QED BY <2>1, <2>2
<1> QED BY <1>1, Invariance, PTL

\* Whatever an up-to-date stub includes from a generation root is declared by
\* the same graph.
THEOREM Headers == Spec => []HeaderClosure
<1>1. ASSUME IInv PROVE HeaderClosure
  <2> SUFFICES ASSUME UpToDate, PlannedFromWholeTree, NEW d \in GenEntries(tree, cfg)
               PROVE  \E h \in graph : [name |-> d.name, kind |-> "pb.h"] \in h.outputs
    BY DEF HeaderClosure
  <2>1. PICK h \in graph : EntryOf(h) = d
    BY <1>1, UpToDateCovers
  <2>2. h.outputs = Outputs(cfg, d)
    BY <1>1, <2>1, UpToDateEdge
  <2> QED BY <2>2 DEF Outputs, OutputKinds
<1> QED BY <1>1, Invariance, PTL

\* An incremental build ends where a clean one would: no sequence of edits,
\* builds, failures and reconfigurations leaves a stale stub behind.
THEOREM NoStaleIncrement == Spec => []IncrementalEqualsClean
<1>1. ASSUME IInv PROVE IncrementalEqualsClean
  <2> SUFFICES ASSUME UpToDate, PlannedFromWholeTree, NEW g \in graph, ReadsSurvive(g),
                      NEW f \in g.outputs
               PROVE  outs[f] = Product(tree, g.cmd, EntryOf(g))
    BY DEF IncrementalEqualsClean
  <2> DEFINE n == g.name
             e == EntryOf(g)
             G == GenEntries(tree, cfg)
  <2>1. /\ g.cmd = Command(cfg, e) /\ G \cap newer[n] = {} /\ g.outputs = Outputs(cfg, e)
        /\ \A x \in g.outputs : outs[x] # Absent /\ outs[x].cmd = g.cmd
    BY <1>1, UpToDateEdge
  <2>2. /\ n \in Names /\ g.cmd.root = g.root /\ g.outputs \subseteq File
        /\ g.outputs = {[name |-> n, kind |-> k] : k \in OutputKinds(g.cmd.plugins)}
    BY <1>1 DEF IInv, GraphOK, EdgeOK
  <2>3. CC(n) \in g.outputs /\ f.name = n /\ f \in File
    BY <2>2 DEF CC, OutputKinds
  <2>4. outs[CC(n)] # Absent /\ outs[CC(n)].cmd = g.cmd /\ outs[f] # Absent /\ outs[f].cmd = g.cmd
    BY <2>1, <2>3
  <2>5. PICK T \in [Entry -> Content \cup {Absent}] : MadeFrom(n, T)
    BY <1>1, <2>2, <2>4 DEF IInv, OutsOK
  <2>6. [root |-> g.cmd.root, name |-> n] = e
    BY <2>2 DEF EntryOf
  <2>7. /\ ProtocAccepts(T, g.cmd, e)
        /\ outs[f] = Product(T, g.cmd, e)
        /\ \A i \in Entry \ newer[n] : tree[i] \in {T[i], Absent}
    BY <2>5, <2>4, <2>3, <2>6 DEF MadeFrom
  <2>8. /\ GenRoots(cfg) \in Seq(Root) /\ cfg.imports \in Seq(Root) /\ cfg \in Config
        /\ g.cmd.incs = GenRoots(cfg) \o cfg.imports
    <3>1. cfg \in Config
      BY <1>1 DEF IInv, TypeOK
    <3>2. cfg.protoDir \in Root /\ cfg.extra \in Seq(Root) /\ cfg.imports \in Seq(Root)
      BY <3>1, GrpcGenAssumption
    <3>3. GenRoots(cfg) \in Seq(Root)
      BY <3>2 DEF GenRoots
    <3> QED BY <3>1, <3>2, <3>3, <2>1 DEF Command, Incs
  <2>9. \A i \in Present(tree) : i.root \in Range(GenRoots(cfg)) => T[i] = tree[i]
    BY <2>1, <2>7 DEF GenEntries, Present
  <2>10. \A r \in Reads(T, g.cmd.incs, e) : r \in Present(tree) /\ r.root \in Range(GenRoots(cfg))
    <3>1. \A r \in Reads(T, g.cmd.incs, e) : <<r, T[r]>> \in outs[f].reads
      BY <2>7 DEF Product
    <3>2. \A p \in outs[f].reads : p[1] \in G
      BY <2>4 DEF ReadsSurvive
    <3> QED BY <3>1, <3>2 DEF GenEntries
  <2>11. Product(tree, g.cmd, e) = Product(T, g.cmd, e)
    <3> DEFINE gens == GenRoots(cfg)
               imps == cfg.imports
               cmd == g.cmd
    <3>1. Searches(cmd, gens, imps)
      BY <2>8 DEF Searches
    <3>2. Agree(tree, T, gens)
      BY <2>9 DEF Agree
    <3>3. ProtocAccepts(T, cmd, e)
      BY <2>7
    <3>4. Within(tree, T, gens, cmd, e)
      BY <2>10 DEF Within
    <3> HIDE DEF e, gens, imps, cmd
    <3>5. Product(tree, cmd, e) = Product(T, cmd, e)
      BY ONLY <3>1, <3>2, <3>3, <3>4, SameReads
    <3> QED BY <3>5 DEF cmd
  <2> QED BY <2>7, <2>11
<1> QED BY <1>1, Invariance, PTL

----------------------------------------------------------------------------
(* One build is enough *)

\* A plugin the author configures writes every file whose suffix he declared for it.
DeclaredAreWritten == \A c \in Config : \A p \in c.plugins : p.kinds \subseteq Emits(p)

\* A build the author leaves alone: its graph is the current plan, and every edge
\* it does not run any more is clean.
CleanOK ==
  /\ phase \in {"program", "make"} => status = "none"
  /\ phase = "make" /\ calm =>
       /\ ~NeedsProgram
       /\ Conflicting(graph) \/ \A g \in graph \ todo : ~Dirty(g)
  /\ status = "ok" /\ calm => UpToDate

\* Every output an edge declares is one its command writes.
LEMMA OutputsWritten ==
  ASSUME DeclaredAreWritten, NEW g, EdgeOK(g)
  PROVE  \A f \in g.outputs : f \in File /\ f.name = g.name /\ f.kind \in MadeKinds(g.cmd.plugins)
<1>1. PICK c \in Config : g.cmd.plugins = ResolvePlugins(c)
  BY DEF EdgeOK, Commands, Command
<1>2. Cpp(c).kinds = Emits(Cpp(c))
  BY DEF Cpp, Emits
<1>3. \A p \in ResolvePlugins(c) : p.kinds \subseteq Emits(p)
  BY <1>2 DEF ResolvePlugins, DeclaredAreWritten
<1>4. OutputKinds(g.cmd.plugins) \subseteq MadeKinds(g.cmd.plugins)
  BY <1>1, <1>3 DEF OutputKinds, MadeKinds
<1> QED BY <1>4 DEF EdgeOK

\* An edge that has run is clean, and the others are as clean as they were.
LEMMA RunEdgeCleans ==
  ASSUME DeclaredAreWritten, IInv, NEW g \in todo, RunEdge(g), NEW h \in graph
  PROVE  IF h = g THEN ~Dirty(h)' ELSE Dirty(h)' <=> Dirty(h)
<1> DEFINE P == Product(tree, g.cmd, EntryOf(g))
<1>1. /\ g \in graph /\ EdgeOK(g) /\ EdgeOK(h) /\ tree \in [Entry -> Content \cup {Absent}]
      /\ newer \in [Names -> SUBSET Entry]
  BY DEF IInv, TypeOK, GraphOK
<1>2. /\ outs' = [f \in File |-> IF f.name = g.name /\ f.kind \in MadeKinds(g.cmd.plugins)
                                  THEN P ELSE outs[f]]
      /\ newer' = [newer EXCEPT ![g.name] = {}] /\ ~Conflicting(graph)
  BY DEF RunEdge
<1>3. P # Absent /\ P.cmd = g.cmd
  <2>1. g.cmd \in Commands  BY <1>1 DEF EdgeOK
  <2>2. P # Absent  BY <1>1, <2>1, ProductTyped
  <2> QED BY <2>2 DEF Product
<1> HIDE DEF P
<1>4. CASE h = g
  <2>1. \A f \in g.outputs : outs'[f] = P
    BY <1>1, <1>2, OutputsWritten
  <2>2. newer'[g.name] = {}
    BY <1>1, <1>2 DEF EdgeOK
  <2> QED BY <1>3, <1>4, <2>1, <2>2 DEF Dirty
<1>5. CASE h # g
  <2>1. h.name # g.name /\ h.name \in Names
    BY <1>1, <1>2, <1>5 DEF Conflicting, EdgeOK
  <2>2. \A f \in h.outputs : outs'[f] = outs[f]
    BY <1>1, <1>2, <2>1, OutputsWritten
  <2>3. newer'[h.name] = newer[h.name]
    BY <1>1, <1>2, <2>1
  <2> QED BY <1>5, <2>2, <2>3 DEF Dirty
<1> QED BY <1>4, <1>5

\* A graph handed to the engine is the current plan, and what is dirty in it will run.
LEMMA SubmitCleans ==
  ASSUME IInv, CleanOK, phase = "program", NEW edges, NEW record, Submit(edges, record),
         record.ok, record.cfg = cfg, record.globbed = Globbed(tree, cfg)
  PROVE  CleanOK'
<1>1. CASE ProgramFails
  BY <1>1 DEF ProgramFails, CleanOK
<1>2. CASE /\ graph' = edges /\ rec' = record /\ todo' = DirtyEdges(edges) /\ phase' = "make"
           /\ UNCHANGED <<authorVars, outs, newer, status, calm>>
  <2>1. ~NeedsProgram'  BY <1>2 DEF authorVars, NeedsProgram, Globbed, GenEntries, Present, EntriesUnder
  <2>2. \A g \in edges : Dirty(g)' <=> Dirty(g)  BY <1>2 DEF Dirty
  <2>3. \A g \in graph' \ todo' : ~Dirty(g)'  BY <1>2, <2>2 DEF DirtyEdges
  <2>4. status' = "none"  BY <1>2 DEF CleanOK
  <2> QED BY <1>2, <2>1, <2>3, <2>4 DEF CleanOK
<1> QED BY <1>1, <1>2 DEF Submit

LEMMA NextCleanOK ==
  ASSUME DeclaredAreWritten, IInv, CleanOK, [Next]_vars
  PROVE  CleanOK'
<1>1. CASE Author
  <2>1. calm' = FALSE /\ UNCHANGED <<phase, status>>
    BY <1>1 DEF Author, WriteProto, RemoveProto, RemoveRoot, EditorLock, EditBuild, Edit
  <2> QED BY <2>1 DEF CleanOK
<1>2. CASE StartBuild
  <2>1. UNCHANGED <<tree, cfg, outs, newer>> /\ status' = "none"
    BY <1>2 DEF StartBuild, authorVars
  <2>2. CASE NeedsProgram
    BY <1>2, <2>1, <2>2 DEF StartBuild, CleanOK
  <2>3. CASE ~NeedsProgram
    <3>1. phase' = "make" /\ todo' = DirtyEdges(graph) /\ UNCHANGED <<rec, graph>>
      BY <1>2, <2>3 DEF StartBuild
    <3>2. ~NeedsProgram'
      BY <2>1, <2>3, <3>1 DEF NeedsProgram, Globbed, GenEntries, Present
    <3>3. \A g \in graph : Dirty(g)' <=> Dirty(g)
      BY <2>1, <3>1 DEF Dirty
    <3> QED BY <2>1, <3>1, <3>2, <3>3 DEF CleanOK, DirtyEdges
  <2> QED BY <2>2, <2>3
<1>3. CASE GenerateAll
  <2>1. PICK seen \in Listings(tree, locks, cfg) :
          Submit(PlanAll(cfg, dirs, seen),
                 [ok |-> TRUE, cfg |-> cfg, globbed |-> Globbed(tree, cfg),
                  complete |-> seen = GenEntries(tree, cfg)])
    BY <1>3 DEF GenerateAll
  <2>2. phase = "program"  BY <1>3 DEF GenerateAll
  <2> DEFINE record == [ok |-> TRUE, cfg |-> cfg, globbed |-> Globbed(tree, cfg),
                        complete |-> seen = GenEntries(tree, cfg)]
  <2>3. record.ok /\ record.cfg = cfg /\ record.globbed = Globbed(tree, cfg)
    OBVIOUS
  <2> HIDE DEF record
  <2>4. Submit(PlanAll(cfg, dirs, seen), record)
    BY <2>1 DEF record
  <2> QED BY <2>2, <2>3, <2>4, SubmitCleans
<1>4. CASE Generate
  <2> DEFINE record == [ok |-> TRUE, cfg |-> cfg, globbed |-> {}, complete |-> TRUE]
  <2>1. phase = "program" /\ ~cfg.all /\ Submit(PlanEntries(cfg, ListedEntries(cfg)), record)
    BY <1>4 DEF Generate
  <2>2. record.ok /\ record.cfg = cfg /\ record.globbed = Globbed(tree, cfg)
    BY <2>1 DEF Globbed
  <2> HIDE DEF record
  <2> QED BY <2>1, <2>2, SubmitCleans
<1>5. ASSUME NEW g \in todo, RunEdge(g) PROVE CleanOK'
  <2>1. /\ UNCHANGED <<tree, cfg, rec, graph, phase, status, calm>> /\ todo' = todo \ {g}
        /\ phase = "make" /\ ~Conflicting(graph)
    BY <1>5 DEF RunEdge, authorVars
  <2>2. status # "ok"  BY <2>1 DEF CleanOK
  <2>3. ~NeedsProgram => ~NeedsProgram'
    BY <2>1 DEF NeedsProgram, Globbed, GenEntries, Present
  <2>4. ASSUME calm, NEW h \in graph \ todo'  PROVE ~Dirty(h)'
    <3>1. CASE h = g  BY <1>5, <3>1, RunEdgeCleans
    <3>2. CASE h # g
      <4>1. ~Dirty(h)  BY <2>1, <2>4, <3>2 DEF CleanOK
      <4> QED BY <1>5, <3>2, <4>1, RunEdgeCleans
    <3> QED BY <3>1, <3>2
  <2> QED BY <2>1, <2>2, <2>3, <2>4 DEF CleanOK
<1>6. CASE MakeFails
  BY <1>6 DEF MakeFails, CleanOK
<1>7. CASE FinishBuild
  <2>1. /\ UNCHANGED <<tree, cfg, rec, graph, outs, newer, calm>> /\ phase' = "idle"
        /\ phase = "make" /\ todo = {} /\ ~Conflicting(graph)
        /\ \A g \in graph : g.inputs \subseteq Present(tree)
    BY <1>7 DEF FinishBuild, authorVars
  <2>2. calm => UpToDate
    BY <2>1 DEF CleanOK, UpToDate
  <2>3. UpToDate => UpToDate'
    BY <2>1 DEF UpToDate, NeedsProgram, Globbed, GenEntries, Present, Conflicting, Dirty
  <2> QED BY <2>1, <2>2, <2>3 DEF CleanOK
<1>8. CASE UNCHANGED vars
  <2>1. UNCHANGED <<tree, cfg, rec, graph, todo, outs, newer, phase, status, calm>>
    BY <1>8 DEF vars
  <2>2. UpToDate => UpToDate'
    BY <2>1 DEF UpToDate, NeedsProgram, Globbed, GenEntries, Present, Conflicting, Dirty
  <2>3. /\ ~NeedsProgram => ~NeedsProgram'
        /\ Conflicting(graph)' <=> Conflicting(graph)
        /\ \A g \in graph : Dirty(g)' <=> Dirty(g)
    BY <2>1 DEF NeedsProgram, Globbed, GenEntries, Present, Conflicting, Dirty
  <2> QED BY <2>1, <2>2, <2>3 DEF CleanOK
<1> QED BY <1>1, <1>2, <1>3, <1>4, <1>5, <1>6, <1>7, <1>8 DEF Next, Build

\* A build that ends well and that the author left alone leaves nothing to do, whatever was
\* edited before it, provided each plugin writes the files its suffixes declare
\* (plugin::suffixes); cpp() sees to that itself.
THEOREM OneBuild == ASSUME DeclaredAreWritten PROVE Spec => []OneBuildSuffices
<1>1. Init => CleanOK
  BY DEF Init, CleanOK
<1>2. IInv /\ CleanOK /\ [Next]_vars => CleanOK'
  BY NextCleanOK
<1>3. CleanOK => OneBuildSuffices
  BY DEF CleanOK, OneBuildSuffices
<1> QED BY <1>1, <1>2, <1>3, Invariance, PTL DEF Spec

=============================================================================
