------------------------------ MODULE GrpcGen ------------------------------
(***************************************************************************)
(* The codegen build rule, rules/src/grpcgen.cppm: how a consumer's tree   *)
(* of .proto files becomes a set of build edges, and how those edges keep  *)
(* the generated stubs in step with the tree while its author edits it.    *)
(*                                                                         *)
(* The rule itself is a build program (plan_all / plan / plan_entries /    *)
(* submit).  Its surroundings are modelled from what the rule says of      *)
(* them and are external: the mcpp engine re-runs the program when the     *)
(* build script or the path set of a declared glob changes; ninja runs an  *)
(* edge when its command changed, an output is missing or an input is      *)
(* newer than the outputs; protoc reads a file and everything it imports.  *)
(***************************************************************************)
EXTENDS Naturals, Sequences, FiniteSets, Functions

CONSTANTS
  Root,       \* directories: the project's proto tree, shared trees, packages
  Entry,      \* the .proto files that may exist, records [root, name]
  Content,    \* the contents a file may have
  Uses,       \* Uses[c]: the names imported by a file with content c
  Config,     \* the build scripts (options + declared tools) the author may write
  LockRoots,  \* roots in which an editor may leave a dangling symlink
  Absent      \* no such file

ASSUME GrpcGenAssumption ==
  /\ Entry \subseteq [root : Root, name : STRING]
  /\ Uses \in [Content -> SUBSET STRING]
  /\ Absent \notin Content
  /\ Config # {}
  /\ \A c \in Config :
       /\ c.protoDir \in Root
       /\ c.extra \in Seq(Root) /\ c.imports \in Seq(Root)
       /\ c.listed \in Seq({e.name : e \in Entry})

VARIABLES
  tree,    \* the content of every file, or Absent
  dirs,    \* the roots that exist as directories
  locks,   \* the roots holding a dangling symlink, such as Emacs' .#x.proto
  cfg,     \* the build script as it is on disk
  rec,     \* the engine's record of the last run of the build program
  graph,   \* the edges of the build graph
  todo,    \* the edges ninja found dirty when this build started
  outs,    \* the generated files: [cmd, reads], or Absent
  newer,   \* newer[n]: the inputs written since n's outputs were generated
  phase,   \* where the running build is
  status,  \* how the last build ended
  calm     \* no author step since the last build started

authorVars == <<tree, dirs, locks, cfg>>
vars == <<tree, dirs, locks, cfg, rec, graph, todo, outs, newer, phase, status, calm>>

Names == {e.name : e \in Entry}
Present(t) == {e \in Entry : t[e] # Absent}

----------------------------------------------------------------------------
(* What the options mean *)

\* A suffix declared without the parameter that makes the plugin write it.
CppMockParamLost(c) ==
  [name |-> "grpc",
   resolved |-> "grpc_cpp_plugin" \in c.tools,
   params |-> {},
   kinds |-> {"grpc.cc", "grpc.h"} \cup (IF c.mock THEN {"mock.h"} ELSE {})]

\* cpp(): the gRPC plugin, with the suffixes of the files it will write.
Cpp(c) ==
  [name |-> "grpc",
   resolved |-> "grpc_cpp_plugin" \in c.tools,
   params |-> IF c.mock THEN {"generate_mock_code=true"} ELSE {},
   kinds |-> {"grpc.cc", "grpc.h"} \cup (IF c.mock THEN {"mock.h"} ELSE {})]

ResolvePlugins(c) ==
  IF c.plugins # {} THEN c.plugins ELSE IF c.grpc THEN {Cpp(c)} ELSE {}

\* The roots code is generated from, in plan_all's order.
GenRoots(c) == <<c.protoDir>> \o c.extra

\* The -I list, in the order protoc searches it.
Incs(c) == GenRoots(c) \o c.imports

----------------------------------------------------------------------------
(* Planning: plan_entries, plan, plan_all *)

\* An edge's command line depends on nothing but these.
Command(c, e) ==
  [root |-> e.root, incs |-> Incs(c), plugins |-> ResolvePlugins(c), args |-> c.args]

\* The files one edge declares: protobuf's pair, then each plugin's.
OutputKinds(plugins) == {"pb.cc", "pb.h"} \cup UNION {p.kinds : p \in plugins}
Outputs(c, e) == {[name |-> e.name, kind |-> k] : k \in OutputKinds(ResolvePlugins(c))}

\* Only an edge's own file an input of it.
InputsOwnOnly(entries, e) == {e}

\* Every planned .proto is an input of every edge.
InputsOf(entries, e) == entries

ToolsResolved(c) ==
  /\ {"protoc", "wkt"} \subseteq c.tools
  /\ \A p \in ResolvePlugins(c) : p.resolved

\* The places of the author's list of roots, or of names, that contribute the
\* entry: a root or a name given twice is planned twice.
Mentions(c, e) ==
  IF c.all THEN {i \in DOMAIN GenRoots(c) : GenRoots(c)[i] = e.root}
           ELSE {i \in DOMAIN c.listed : c.listed[i] = e.name}

PlanEntries(c, entries) ==
  IF ~ToolsResolved(c) THEN {}
  ELSE {[root |-> e.root, name |-> e.name, mentions |-> Mentions(c, e), cmd |-> Command(c, e),
         inputs |-> InputsOf(entries, e), outputs |-> Outputs(c, e)] : e \in entries}

\* plan(): the author lists names, all of them under proto_dir.
ListedEntries(c) == {[root |-> c.protoDir, name |-> n] : n \in Range(c.listed)}

EntriesUnder(t, r) == {e \in Present(t) : e.root = r}
GenEntries(t, c) == {e \in Present(t) : e.root \in Range(GenRoots(c))}

\* What plan_all's directory walk may list.  A dangling symlink sets the
\* error_code the loop tests on its next round, so the walk ends there: in a
\* directory order nobody fixes, any part of the root may remain unseen.
Listings(t, l, c) ==
  {s \in SUBSET GenEntries(t, c) :
     \A r \in Range(GenRoots(c)) \ l : EntriesUnder(t, r) \subseteq s}

\* The extra roots searched but not generated from.
PlanAllOwnRootOnly(c, d, seen) ==
  IF Range(GenRoots(c)) \subseteq d
  THEN PlanEntries(c, {e \in seen : e.root = c.protoDir}) ELSE {}

\* plan_all gives up at a root that is not there and at an empty list.
PlanAll(c, d, seen) ==
  IF Range(GenRoots(c)) \subseteq d THEN PlanEntries(c, seen) ELSE {}

\* One glob, for proto_dir alone; no glob at all.
GlobbedOwnRootOnly(t, c) == IF c.all THEN EntriesUnder(t, c.protoDir) ELSE {}
GlobbedNever(t, c) == {}

\* The paths plan_all's globs match: the engine re-runs the program when they
\* change.  The list form declares no glob.
Globbed(t, c) == IF c.all THEN GenEntries(t, c) ELSE {}

----------------------------------------------------------------------------
(* protoc (external) *)

\* What a plugin writes: the gRPC plugin adds mocks when its parameter says
\* so; another writes what its author declared.
Emits(p) ==
  IF p.name = "grpc"
  THEN {"grpc.cc", "grpc.h"}
       \cup (IF "generate_mock_code=true" \in p.params THEN {"mock.h"} ELSE {})
  ELSE p.kinds

MadeKinds(plugins) == {"pb.cc", "pb.h"} \cup UNION {Emits(p) : p \in plugins}

\* The first root on the -I list that holds the file, if any.
Resolve(t, incs, n) ==
  {e \in Present(t) :
     /\ e.name = n
     /\ \E i \in DOMAIN incs :
          /\ incs[i] = e.root
          /\ \A j \in 1..(i-1) : [root |-> incs[j], name |-> n] \notin Present(t)}

ClosedUnderImports(t, incs, S) ==
  \A e \in S : \A n \in Uses[t[e]] : Resolve(t, incs, n) \subseteq S

\* The file and everything it imports, directly or not.
Reads(t, incs, e) ==
  {r \in Present(t) : \A S \in SUBSET Present(t) :
     (e \in S /\ ClosedUnderImports(t, incs, S)) => r \in S}

\* What one protoc call writes into each of its outputs.
Product(t, cmd, e) ==
  [cmd |-> cmd, reads |-> {<<r, t[r]>> : r \in Reads(t, cmd.incs, e)}]

\* protoc accepts a file that is not shadowed, whose imports all resolve, and
\* which no import chain leads back to.
ProtocAccepts(t, cmd, e) ==
  /\ Resolve(t, cmd.incs, e.name) = {e}
  /\ \A r \in Reads(t, cmd.incs, e) : \A n \in Uses[t[r]] :
       /\ Resolve(t, cmd.incs, n) # {}
       /\ \A d \in Resolve(t, cmd.incs, n) : r \notin Reads(t, cmd.incs, d)

----------------------------------------------------------------------------
(* The engine's view (external) *)

EntryOf(g) == [root |-> g.root, name |-> g.name]

NeedsProgram ==
  ~rec.ok \/ rec.cfg # cfg \/ rec.globbed # Globbed(tree, cfg)

Dirty(g) ==
  \/ \E f \in g.outputs : outs[f] = Absent \/ outs[f].cmd # g.cmd
  \/ g.inputs \cap newer[g.name] # {}

\* Two edges with the same id or output, or one twice: no build graph.
Conflicting(gs) ==
  \/ \E g, h \in gs : g # h /\ g.name = h.name
  \/ \E g \in gs : \E i, j \in g.mentions : i # j

\* A build started now would do nothing.
UpToDate ==
  /\ ~NeedsProgram
  /\ ~Conflicting(graph)
  /\ \A g \in graph : ~Dirty(g) /\ g.inputs \subseteq Present(tree)

----------------------------------------------------------------------------
Kinds == UNION {OutputKinds(ResolvePlugins(c)) \cup MadeKinds(ResolvePlugins(c)) : c \in Config}
File == [name : Names, kind : Kinds]
CC(n) == [name |-> n, kind |-> "pb.cc"]   \* what every edge for n produces
Never == [ok |-> FALSE]

Init ==
  /\ tree \in [Entry -> {Absent}]
  /\ dirs = {}
  /\ locks = {}
  /\ cfg \in Config
  /\ rec = Never
  /\ graph = {} /\ todo = {}
  /\ outs = [f \in File |-> Absent]
  /\ newer = [n \in Names |-> {}]
  /\ phase = "idle" /\ status = "none" /\ calm = FALSE

\* ------------------------------------------------------- the author's steps
Edit == calm' = FALSE /\ UNCHANGED <<rec, graph, todo, outs, phase, status>>

WriteProto(e, c) ==
  /\ tree[e] # c
  /\ tree' = [tree EXCEPT ![e] = c]
  /\ dirs' = dirs \cup {e.root}
  \* A name with nothing generated yet is dirty whatever its inputs' times.
  /\ newer' = [n \in Names |->
       IF outs[CC(n)] = Absent THEN {} ELSE newer[n] \cup {e}]
  /\ Edit /\ UNCHANGED <<locks, cfg>>

RemoveProto(e) ==
  /\ tree[e] # Absent
  /\ tree' = [tree EXCEPT ![e] = Absent]
  /\ Edit /\ UNCHANGED <<dirs, locks, cfg, newer>>

RemoveRoot(r) ==
  /\ r \in dirs
  /\ dirs' = dirs \ {r}
  /\ locks' = locks \ {r}
  /\ tree' = [e \in Entry |-> IF e.root = r THEN Absent ELSE tree[e]]
  /\ Edit /\ UNCHANGED <<cfg, newer>>

EditorLock(r) ==
  /\ r \in LockRoots /\ r \in dirs
  /\ locks' = IF r \in locks THEN locks \ {r} ELSE locks \cup {r}
  /\ Edit /\ UNCHANGED <<tree, dirs, cfg, newer>>

EditBuild(c) ==
  /\ c # cfg
  /\ cfg' = c
  /\ Edit /\ UNCHANGED <<tree, dirs, locks, newer>>

Author ==
  \/ \E e \in Entry : (\E c \in Content : WriteProto(e, c)) \/ RemoveProto(e)
  \/ \E r \in Root : RemoveRoot(r) \/ EditorLock(r)
  \/ \E c \in Config : EditBuild(c)

\* ------------------------------------------------------------ one build run
DirtyEdges(gs) == {g \in gs : Dirty(g)}

\* A build that has to run the program forgets what the last run left.
StartBuild ==
  /\ phase = "idle"
  /\ IF NeedsProgram
     THEN phase' = "program" /\ todo' = {} /\ rec' = Never /\ graph' = {}
     ELSE phase' = "make" /\ todo' = DirtyEdges(graph) /\ UNCHANGED <<rec, graph>>
  /\ status' = "none" /\ calm' = TRUE
  /\ UNCHANGED <<authorVars, outs, newer>>

\* build.mcpp's main returned non-zero: submit() was given no edge.
ProgramFails ==
  /\ phase' = "idle" /\ status' = "failed"
  /\ UNCHANGED <<authorVars, rec, graph, todo, outs, newer, calm>>

\* submit(): every planned edge reaches the engine, or none does.
Submit(edges, record) ==
  IF edges = {} THEN ProgramFails
  ELSE /\ graph' = edges
       /\ rec' = record
       /\ todo' = DirtyEdges(edges)
       /\ phase' = "make"
       /\ UNCHANGED <<authorVars, outs, newer, status, calm>>

\* generate_all().  rec.complete records whether the walk saw everything.
GenerateAll ==
  /\ phase = "program" /\ cfg.all
  /\ \E seen \in Listings(tree, locks, cfg) :
       Submit(PlanAll(cfg, dirs, seen),
              [ok |-> TRUE, cfg |-> cfg, globbed |-> Globbed(tree, cfg),
               complete |-> seen = GenEntries(tree, cfg)])

\* generate({...}).
Generate ==
  /\ phase = "program" /\ ~cfg.all
  /\ Submit(PlanEntries(cfg, ListedEntries(cfg)),
            [ok |-> TRUE, cfg |-> cfg, globbed |-> {}, complete |-> TRUE])

CanRun(g) ==
  /\ g.inputs \subseteq Present(tree)
  /\ ProtocAccepts(tree, g.cmd, EntryOf(g))

\* One protoc call, in one step: the author's edits fall before or after it.
RunEdge(g) ==
  /\ phase = "make" /\ ~Conflicting(graph)
  /\ g \in todo /\ CanRun(g)
  /\ outs' = [f \in File |->
       IF f.name = g.name /\ f.kind \in MadeKinds(g.cmd.plugins)
       THEN Product(tree, g.cmd, EntryOf(g)) ELSE outs[f]]
  /\ newer' = [newer EXCEPT ![g.name] = {}]
  /\ todo' = todo \ {g}
  /\ UNCHANGED <<authorVars, rec, graph, phase, status, calm>>

\* A conflicting graph, a missing input or a failing protoc ends the build;
\* the edges that ran keep what they wrote.
MakeFails ==
  /\ phase = "make"
  /\ \/ Conflicting(graph)
     \/ \E g \in graph : ~(g.inputs \subseteq Present(tree))
     \/ \E g \in todo : ~CanRun(g)
  /\ phase' = "idle" /\ status' = "failed" /\ todo' = {}
  /\ UNCHANGED <<authorVars, rec, graph, outs, newer, calm>>

FinishBuild ==
  /\ phase = "make" /\ todo = {} /\ ~Conflicting(graph)
  /\ \A g \in graph : g.inputs \subseteq Present(tree)
  /\ phase' = "idle" /\ status' = "ok"
  /\ UNCHANGED <<authorVars, rec, graph, todo, outs, newer, calm>>

Build == StartBuild \/ GenerateAll \/ Generate \/ (\E g \in todo : RunEdge(g))
         \/ MakeFails \/ FinishBuild

Next == Author \/ Build

\* The developer who keeps building: a build, once started, runs to its end,
\* and another is started after it.  The author is under no obligation.
Spec == Init /\ [][Next]_vars /\ WF_vars(Build)

----------------------------------------------------------------------------
(* Properties *)

Commands == {Command(c, [root |-> r, name |-> n]) : c \in Config, r \in Root, n \in Names}
ProductSet == [cmd : Commands, reads : SUBSET (Entry \X Content)]

ASSUME AbsentAssumption == Absent \notin ProductSet

\* Type invariant.
TypeOK ==
  /\ tree \in [Entry -> Content \cup {Absent}]
  /\ dirs \subseteq Root /\ locks \subseteq Root
  /\ cfg \in Config
  /\ rec.ok \in BOOLEAN
  /\ todo \subseteq graph
  /\ outs \in [File -> ProductSet \cup {Absent}]
  /\ newer \in [Names -> SUBSET Entry]
  /\ phase \in {"idle", "program", "make"}
  /\ status \in {"none", "ok", "failed"}
  /\ calm \in BOOLEAN

\* Everything the edge's last protoc call read still exists, in a root the
\* rule generates from.
ReadsSurvive(g) ==
  \A f \in g.outputs : outs[f] # Absent =>
    \A p \in outs[f].reads : p[1] \in GenEntries(tree, cfg)

\* The walk the current graph was planned from saw the whole tree.
PlannedFromWholeTree == cfg.all /\ rec.ok /\ rec.complete

\* Incremental equals clean.  When the engine finds nothing to do, every stub
\* is what protoc would write now from the current tree: declaring every
\* .proto an input of every edge (plan_entries) makes up for the imports the
\* rule does not parse, whatever was edited, added, renamed or reconfigured,
\* before, during or after earlier builds.
IncrementalEqualsClean ==
  UpToDate /\ PlannedFromWholeTree =>
    \A g \in graph : ReadsSurvive(g) =>
      \A f \in g.outputs : outs[f] = Product(tree, g.cmd, EntryOf(g))

\* No list to keep in sync.  When the engine finds nothing to do, the stubs
\* that exist as declared outputs are those of exactly the files that are
\* under the generation roots: none missing, none left over (plan_all's globs).
EveryProtoGenerated ==
  UpToDate /\ PlannedFromWholeTree =>
    /\ {EntryOf(g) : g \in graph} = GenEntries(tree, cfg)
    /\ \A e \in GenEntries(tree, cfg) : \A f \in Outputs(cfg, e) : outs[f] # Absent

\* Header closure.  A stub includes <import>.pb.h for every import; when the
\* import lives under a generation root, some edge of the same graph declares
\* and has produced that header, so no stub depends on a header nobody builds
\* (options::extra_dirs).
HeaderClosure ==
  UpToDate /\ PlannedFromWholeTree =>
    \A g \in graph : \A f \in g.outputs : \A p \in outs[f].reads :
      p[1] \in GenEntries(tree, cfg) =>
        \E h \in graph : [name |-> p[1].name, kind |-> "pb.h"] \in h.outputs

\* One build is enough.  A build that ends well and during which the author
\* touched nothing leaves nothing to do: every output an edge declares is one
\* its command produces (plugin::suffixes), and no edge dirties another.
OneBuildSuffices == status = "ok" /\ calm => UpToDate

\* The files the author's script is about.
Planned == IF cfg.all THEN GenEntries(tree, cfg) ELSE ListedEntries(cfg)

\* A tree that plans and that protoc accepts.  No editor holds a lock in it, and
\* none cut short the walk that planned it (EveryProtoUnderRoots is about those).
Buildable ==
  /\ ToolsResolved(cfg)
  /\ cfg.all => /\ Range(GenRoots(cfg)) \subseteq dirs /\ locks = {}
                /\ rec.ok => rec.complete
  /\ Planned # {}
  /\ \A e, d \in Planned : e.name = d.name => e = d
  /\ \A e \in Planned : \A i, j \in Mentions(cfg, e) : i = j
  /\ \A e \in Planned : ProtocAccepts(tree, Command(cfg, e), e)

\* Every file the script is about has all its stubs, made by the command the
\* script asks for, and none reflects an older version of such a file.
Built ==
  \A e \in Planned : \A f \in Outputs(cfg, e) :
    /\ outs[f] # Absent /\ outs[f].cmd = Command(cfg, e)
    /\ \A p \in outs[f].reads : p[1] \in Planned => tree[p[1]] = p[2]

\* If the author stops, whatever he did and whatever failed before, a buildable
\* project gets built: every file the script is about, with nothing left to do.
\* He may have dropped in a .proto or removed and restored a root after the plan
\* was made, or given a root twice and taken it back.
EventuallyBuilt ==
  []<><<TRUE>>_authorVars \/ <>[](Buildable => UpToDate /\ Built)

----------------------------------------------------------------------------
(* Why the first three hold: the parts of an inductive invariant *)

\* An edge is what plan_entries makes of an entry.
EdgeOK(g) ==
  /\ g.name \in Names /\ g.cmd \in Commands /\ g.cmd.root = g.root
  /\ g.outputs \subseteq File
  /\ g.outputs = {[name |-> g.name, kind |-> k] : k \in OutputKinds(g.cmd.plugins)}

GraphOK == \A g \in graph : EdgeOK(g)

\* The graph on record is the plan, not an empty one, for the files the globs
\* matched.
PlanOK ==
  rec.ok /\ rec.cfg.all /\ rec.complete =>
    /\ rec.cfg \in Config
    /\ graph = PlanEntries(rec.cfg, rec.globbed) /\ graph # {}

\* The outputs of a name's last edge run are what protoc made of some tree T
\* that it accepted, and a file not written since is as it was in T, or gone.
MadeFrom(n, T) ==
  LET cmd == outs[CC(n)].cmd
      e == [root |-> cmd.root, name |-> n]
  IN /\ ProtocAccepts(T, cmd, e)
     /\ \A f \in File : f.name = n /\ outs[f] # Absent /\ outs[f].cmd = cmd =>
          outs[f] = Product(T, cmd, e)
     /\ \A i \in Entry \ newer[n] : tree[i] \in {T[i], Absent}

OutsOK ==
  /\ \A f \in File : outs[f] # Absent =>
       /\ outs[CC(f.name)] # Absent
       /\ f.kind \in MadeKinds(outs[f].cmd.plugins)
  /\ \A n \in Names : outs[CC(n)] # Absent =>
       \E T \in [Entry -> Content \cup {Absent}] : MadeFrom(n, T)

IInv == TypeOK /\ GraphOK /\ PlanOK /\ OutsOK

----------------------------------------------------------------------------
(* Two claims of the rule's comments that the code does not keep *)

\* The rule's own claim, without the proviso about editor locks: after a
\* successful build every .proto under the generation roots has its stubs.
EveryProtoUnderRoots ==
  status = "ok" /\ calm /\ cfg.all =>
    \A e \in GenEntries(tree, cfg) : \A f \in Outputs(cfg, e) : outs[f] # Absent

\* The rule's own claim, without the proviso about search-only roots: a
\* finished build leaves no stub that reflects an older version of a file.
NoStaleStubs ==
  status = "ok" /\ calm =>
    \A g \in graph : \A f \in g.outputs : \A p \in outs[f].reads : tree[p[1]] = p[2]

=============================================================================
