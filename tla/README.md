# A verification project for grpc-m

`grpc-m` packages gRPC 1.83.0 as a C++23 module for the mcpp build tool: the gRPC
sources (`third_party/grpc-1.83.0`), a module facade (`src/grpc.cppm`), the C++
code generator (`plugin/`), and a build rule in C++ that turns a tree of `.proto`
files into build edges (`rules/src/grpcgen.cppm`). This directory holds TLA+
specifications of the parts whose correctness depends on the order in which
things happen, TLC configurations that check them on small instances, and proofs
checked by TLAPS that hold for every instance.

Paths below are relative to the repository; `core/` and `cpp/` stand for
`third_party/grpc-1.83.0/src/core/` and `.../src/cpp/`.

## Inventory

| Component | State | Operations | Interacts with | What is hard |
|---|---|---|---|---|
| Build rule, `rules/src/grpcgen.cppm` | none of its own; it fills the engine's build graph | `plan`, `plan_all`, `plan_entries`, `submit`, `generate`, `generate_all` | the mcpp engine (globs, edges), ninja, protoc, the author's editor | staleness: a plan is a snapshot, imports are not parsed; partial failure of a build; edits during a build |
| C++ generator, `plugin/src/compiler` | its parameters, a map of template variables, the text so far | `Generate`: options, header, source, mock | protoc, the rule, the C++ compiler | one map of variables for every printer; every signature spelt out in four to seven places; the numbering of methods |
| Sync server pool, `cpp/thread_manager`, `core/lib/resource_quota/thread_quota.cc` | pollers, threads, shutdown flag, list of finished workers, quota | `Initialize`, `MainWorkLoop`, `MarkAsCompleted`, `Shutdown`, `Wait`, destructor; `Reserve`, `Release` | the completion queue it polls, the quota it shares with the other managers, `Server::ShutdownInternal` | interleaving of critical sections, failing thread creation, lifetime of workers against the manager's |
| Work serializer, `core/util/work_serializer.cc` | two lists, `running_`, `orphaned_` | `Run(callback)`, `Run()`, `Orphan` | EventEngine, every client-channel component | a batch drained without the mutex; self-deletion, possibly from inside a destructor that its own loop runs |
| Completion queue, `core/lib/surface/completion_queue.cc` | a lock-free queue, pending-event count, pollers | `begin_op`, `end_op`, `next`, `pluck`, `shutdown` | calls, pollers | lost wakeups, shutdown against late events |
| Call combiner, `core/lib/iomgr/call_combiner.cc` | a count, a queue, a cancellation word | `Start`, `Stop`, `SetNotifyOnCancel`, `Cancel` | filters of a call | lock-free hand-over, cancellation races |
| Idle filter state, `core/ext/filters/channel_idle` | one atomic word | calls begin and end, timer | the channel | a timer against calls |
| Server and request matcher, `core/server/server.cc` | requested slots, pending calls, shutdown tags | match, request, shutdown | completion queues, transports | matching against shutdown; every request answered |
| pick_first and subchannels, `core/load_balancing/pick_first`, `core/client_channel/subchannel.cc` | connection attempts, states, timers | connect, report, update | the work serializer, the channel | stale reports, happy-eyeballs timer |
| HTTP/2 flow control, `core/ext/transport/chttp2` | announced and committed windows | send, receive, update | the peer | window arithmetic with updates in flight |
| Promise party, `core/lib/promise/party.cc` | one atomic word: wakeups, slots, references, lock | poll, wake, spawn, drop | activities | lock-free |
| Retries, resolvers, xDS | attempts, timers, caches | | the channel | timers against answers |
| Facade, build program, source generator, release scripts | none | sequential | | nothing a model checker adds to a build |

The hazards found while reading, each at its line and with the property that
covers it or the reason why none does, are in `PROJECT.json`.

## Modules

| Module | Models | Kind |
|---|---|---|
| `GrpcGen` | the build rule and the life of its edges | detailed specification |
| `ThreadManager` | the sync server's pool and the quota it draws on | detailed specification |
| `WorkSerializer` | the serializer's two lists, work loop and deletion | detailed specification |
| `SerialExecutor` | what a work serializer promises | abstract specification |
| `CompletionQueue` | a NEXT completion queue with the file's own poller and its lock-free queue | detailed specification |
| `EventQueue` | what a completion queue promises | abstract specification |
| `CppText` | what the C++ generator prints, as data: names, types, declarations, template variables | operators |
| `CppClient`, `CppServer` | what it prints for one method: interfaces, stub, source, mock; service class, mixins, handlers | operators |
| `CppGenerator` | one call of `CppGrpcGenerator::Generate`, printer by printer | detailed specification |
| `PluginPromise` | what protoc and the rule count on from a plugin | abstract specification |
| `MCGrpcGen`, `MCThreadManager`, `MCWorkSerializer`, `MCCompletionQueue`, `MCCppGenerator` | small instances | model checking |
| `GrpcGenProof`, `ThreadManagerProof`, `WorkSerializerProof`, `CompletionQueueProof`, `CppGeneratorProof`, `CppTablesProof`, `CppPrintedProof`, `PluginPromiseProof` | theorems | TLAPS |

`CppGenerator` extends `CppClient` and `CppServer`, which extend `CppText`. The
systems are checked separately. `GrpcGen` and `CppGenerator` meet in one place: the
rule's `Emits` is what `WriteHeader`, `WriteSource` and `WriteMock` open.

### GrpcGen

State of the model and its place in the code: `tree`, `dirs`, `locks` are the file
system under the roots the rule is pointed at; `cfg` is the author's build script
(an `options` value, the form called, and the tools the manifest declares); `rec`
is the engine's record of the last run of the build program (script, path sets of
the declared globs); `graph` is what `submit` handed to the engine; `outs` the
generated files, each represented by what determines it, the command line and the
contents read (`Product`); `newer` abstracts modification times to the question
ninja asks.

The rule is translated as operators: `Cpp`, `ResolvePlugins`, `Incs`, `InputsOf`,
`Outputs`, `PlanEntries`, `PlanAll`, `Globbed`, `Submit`. What surrounds it is
external: the engine re-runs the program when the script or a glob's path set
changed, ninja runs an edge whose command changed, whose output is missing or
whose input is newer, protoc searches `-I` in order and fails on a shadowed file, a
missing import or a cycle. `Emits` says which files the gRPC plugin writes and is
taken from the plugin's own source, so that the suffixes the rule declares are
checked against the files the generator opens.

A build is a sequence of steps (`StartBuild`, `GenerateAll` or `Generate`,
`RunEdge` in any order, `MakeFails` or `FinishBuild`), and the author may write,
remove, reconfigure or leave an editor's lock file between any two. The build
program's own run is one step, and so is one protoc call (`RunEdge`). A build that has
to run the program forgets the last run's record and graph as it starts: until the program
has succeeded every later build runs it first, so nothing reads them again.

An edge keeps where the plan mentions its file (`Mentions`): `plan_all` lists the files of
a root that is given twice twice, and `plan` a name that is listed twice, which is two
rules for one output (`Conflicting`), as two files of one name in two roots are.

`plan_all`'s directory walk is faithful to its error handling: one `error_code`
serves the iterator and `is_regular_file`, so a dangling symbolic link ends the
walk of its root. `Listings` is the set of listings that can result; the record
keeps, as history, whether the walk saw everything.

### ThreadManager

One action is one critical section of `mu_`, `list_mu_` or the quota's mutex, or
one blocking call. `pc[t]` places every `WorkerThread` in `MainWorkLoop` and
`MarkAsCompleted`; `mpc` places the server thread in `Initialize`, `Shutdown`,
`Wait` (twice: the base class and the drain of `SyncRequestThreadManager`) and the
destructor. `mine[o]` is the local list that `CleanupCompletedThreads` swaps out,
one per thread that runs it. A joined worker's identity returns to `"free"` and may be
taken by a new worker. The quota is shared: `others` is what its other users hold.
Three ends of the process are told apart (`Ended`), and nothing moves after them:
`"crashed"` is `Initialize`'s `Crash` without quota; `"refused"` its
`GRPC_CHECK(worker->created())` (thread_manager.cc:144), which fires when the system refuses
one of the first threads; `"aborted"` the checks of what the manager itself keeps, in
`~ThreadManager` and `ThreadQuota::Release`, which `ChecksHold` shows never fire. The completion queue is reduced to what its user sees.

### WorkSerializer and SerialExecutor

`processing` and `incoming` are the code's vectors in the code's order (the next
callback is the last element), `engine` counts closures handed to EventEngine.
Where the code runs without the mutex the model takes separate steps: destroying
the last element and shrinking the vector are two steps of `pop_back`, since the
element's destructor may let go of the handle. `holders` abstracts the
`shared_ptr` count: clients, and callbacks that captured the handle. `broken` is
set by any touch of a deleted object, a failed `CHECK` and the back of an empty
vector.

`SerialExecutor` has a queue, the callback that runs, and a handle. The refinement
maps the queue to the rest of the batch, unreversed, followed by `incoming`; the
batch that has just been swapped in, not reversed yet, is read the other way
round.

### CompletionQueue and EventQueue

One action is one atomic access, one critical section of `cq->mu`, or one of the
spinlock's. `opc[o]` places every operation in `cq_end_op_for_next` (or in a thread's
cache), `ppc[p]` every poller in `cq_next`, `owner` the thread that shuts the queue
down and destroys it. `queue` is the linked list of `mpscq.cc` from `tail_` to
`head_`, the stub node included: a producer takes its place by the exchange
(`Push`), becomes reachable by the store of `next` (`Link`) and is counted
(`CountItem`), and the consumer pushes the stub behind an event it finds alone
(`PushStub`). `ring`, `kicked`, `spare` and `dead` are the non-polling poller, which
EventEngine builds use for every polling type. `refs` is the reference count;
`broken` is set by any use of a queue whose last reference is gone and by the file's
`GRPC_CHECK`s.

The callers' side of the contract is in the guards: no operation is begun after
shutdown except to be refused, and the queue is destroyed
after a poller was told `GRPC_QUEUE_SHUTDOWN` and none is inside `next`. The atomics
are taken as sequentially consistent.

`EventQueue` knows operations that are begun, ready and delivered, and the pollers that
were told the end. An operation becomes ready when its event is pushed, or put into
a cache, and is delivered when a poller unlinks it or its thread flushes the cache.

### CppGenerator, CppText, CppClient, CppServer and PluginPromise

The generator is sequential; what is hard about it is that some twenty loops over the
same methods share one `std::map` of template variables (`tpl`), and that what they
print has to fit together under a C++ compiler that sees it much later. One action is
one call of a print function for one method (`PrintHeaderClientMethod`,
`PrintAddMethod`, ...). `unit`, `service`, `loop` and `method` are the position in the
nest of loops of `GetHeaderServices`, `GetSourceServices`, `GetMockServices` and the
`Print...Service` functions below them. `options`, `flags` and `texts` are
`parameters_list` and `Parameters`; `param[1]` of an option without a `=` is read past
the end of a vector, so its outcome is any (`Values`).

A template is modelled by the declarations it prints. A declaration (`CppText!Decl`)
says its class, name, parameters, result, what it promises (pure, override, mock,
defined in the source), what its body calls with which arguments, and the slot of the
method table it is bound to. `CppClient` and `CppServer` hold one operator per
printer, table by table, as the code does: that the tables agree is what is checked, so
none is derived from another. Identifiers are sequences of words, so that `$Method$Raw`
can meet a method somebody called `FooRaw`. `decls` collects the declarations, `names`,
`adds` and `typedefs` the three tables that have an order: `Service_method_names`, the
`AddMethod` calls of the service's constructor, and the services made by nesting
mixins, `typedef WithA<WithB<Service > > X;`: one loop over the methods prints the
mixins (`Opens`), a second one the brackets (`Closes`), each with a test of its own, so a
typedef is the mixins it has opened so far and the number of brackets it has closed.
`text` is the frame of each file: includes, guards, namespaces.

`PluginPromise` has the answers still possible, the outputs opened and whether Generate
has answered. The refinement maps `possible` to what the options left to read may still
lead to (`Possible`).

What the properties are about: `SlotsAgree`, that one numbering of the methods runs
through names, `RpcMethod`s, `AddMethod`s and mixins; `OverridesMatch`, `DefinedOnce`
and `CallsResolve`, that what is printed compiles and links; `TypedefsWrap`, the
brackets and order of nested mixins; `StartsOnce`, that `AsyncM` starts its call once
and `PrepareAsyncM` never; `ScopesAgree`, namespaces and guards across the three files;
`RedeclaresOnlyRaw`, the only name clash; `NothingHalfWritten`, `ImplementsPromise` and
`GenerateReturns`, what protoc sees. `TurnsOK`, which the proofs of the others stand on,
says it turn by turn: what a file holds is what every method passed is due from templates
whose variables are the method's own, and nothing else. `PrintedOK` says the same of what
is not a declaration: a typedef has opened the mixins of the methods its first loop passed
and closed a bracket for those its second loop passed, and a file was written with the
frame its options give it.

## Runs

| Run | Instance | Shows |
|---|---|---|
| `GrpcGenSafety` | two trees, three files (one name in both trees), three contents (two of them interchangeable), shared tree generated or searched | an up-to-date build equals a clean one, has every stub and every header |
| `GrpcGenOptions` | one tree, two files; mocks, a list of names without gRPC and with a flag for protoc, a root given twice, a lock | the inductive invariant; one build is enough; every file of a buildable tree gets its stubs |
| `GrpcGenLock` | the same tree with an editor's lock, a tool that may be missing | violated: "every .proto under proto_dir" |
| `GrpcGenSearch` | a type reached through `imports` | violated: "silently stale stubs" do occur |
| `ThreadManager` | three workers, pollers 2..2, quota 3 shared with one, two requests | counters, quota, joins, lifetime, checks; requests answered, shutdown completes |
| `ThreadManagerIdle` | three workers, pollers 1..2, one request | violated: "more pollers than we need" finish on a timeout |
| `ThreadManagerQuota` | three workers, one poller, one request | violated: the quota is balanced when the manager is gone |
| `WorkSerializerRefines` | two clients, four callbacks, two threads | the refinement, with its liveness; never broken |
| `CompletionQueueSafety` | two operations, two pollers with deadlines, caches | the invariant, the refinement, no lost wakeup, begun operations hold the shutdown, no use after free |
| `CompletionQueueLive` | one operation, one poller with a deadline and one without | the event is taken; shutdown releases every poller |
| `CppGenerator` | 24 files, 8 option lists | the inductive invariants; header, source and mock fit together; the plugin's promise |
| `CppGeneratorPromises` | files with and without a package, with and without a `$` in their comment | violated: neither `ports_undef.inc` "at end of file" nor "Original file comments" holds of the file without a package and with a `$` |

Bounds. The proto trees need two roots, a name in both, and an import between
roots: shadowing, conflicts, removal and reconfiguration all occur with that. With one
root and two files `GrpcGenOptions` reaches what is about the options: the list form is
re-run by an edit of the script only, and a root given twice makes a build fail until it
is taken back.
Three workers with two pollers and a quota of three that another user may take one of:
a spawn succeeds, fails, and finds the quota exhausted, and a finished worker may
be on the list while the others run. Min equal to max pollers makes workers leave and
spawn often. `ThreadManagerIdle` takes one to two, the default of
`SyncServerSettings`, since a surplus of pollers needs the two to differ.
Four callbacks allow a batch of two or more with a third arriving behind it (the
reversal matters from two on); two threads let a round start on another thread while
the last one is still on its way out.
Two operations are what it takes for a second event whose producer does not kick,
for an event behind an unlinked one, and for an operation that ends alone while
another is counted; two pollers for a contended spinlock, a wakeup passed on and
a ring with a root and another. Pollers with a deadline can do all that those without can,
and leave early besides; the liveness run has one of each.
The generator prints per method and treats methods of a kind alike, so a stale variable
shows with two methods of different kinds or types: `MCFiles` has a service with two
methods for every pair of the four kinds; two services that share method names in another
order, with imports and a nested package; a service without methods, in a file without a
package; a file without services; a refused file; and names that differ by `Raw`.
`MCParameters` turns every flag that changes what is printed, gives one option twice,
and has an invalid value, an unknown key and a value that is missing.
`GrpcGenSafety` compares states up to exchanging the two contents that import
nothing, and without `status` and `calm`, which no action reads (`WithoutHistory`).
No bound is needed for numbers of builds, polls or rounds, which are cyclic.
Deadlock is checked in `GrpcGen` and in `CppGenerator` (where a call that has returned
stutters); the other systems end (everything is freed), and
say so with `CHECK_DEADLOCK FALSE`.

Fairness. `GrpcGen`: a build that was started goes on and another is started after it;
the author owes nothing. `ThreadManager`: every worker step and the server
thread's start and stop are weakly fair, because threads that can run do; requests,
shutdown, spurious wakeups and other users of the quota are not. `WorkSerializer`: EventEngine
runs its closures (one weak-fairness condition over its threads) and a destructor
that started goes on; scheduling and letting go are not fair. `CompletionQueue`: a
thread inside `end_op`, `next` or `shutdown` goes on; beginning and ending
operations, calling `next` and shutting down are not fair. `CppGenerator`: one weak
fairness condition over the whole of `Generate`, which is one call in a process of its own.

## Findings

- `plan_all` (grpcgen.cppm:438): a dangling symbolic link in a proto tree cuts
  the walk short without an error; files listed after it have no edges.
- `plan_entries` (grpcgen.cppm:310): files found through `imports` are not
  inputs, so their edits leave stale stubs.
- `ThreadManager::MainWorkLoop` (thread_manager.cc:186): a failed thread creation
  undoes both counters and keeps the reserved quota for good.
- `ThreadManager::MainWorkLoop` (thread_manager.cc:163): a poller that timed out should
  finish when there are "more pollers than we need", but the test is
  `num_pollers_ > max_pollers_`, after the decrement, and the loop never lets the counter
  pass the maximum. `TimeoutsNeverShrink` proves that it is never true, whatever the
  limits: surplus pollers leave at shutdown only, or after serving a request.
- `GetSourceEpilogue` (cpp_generator.cc:2243): `ports_undef.inc` is included inside the
  test for a package, `ports_def.inc` outside it; the source of a file without a
  package does not close what it opened.
- `GetHeaderPrologue` (cpp_generator.cc:109): comments come with every `$` doubled, for
  `Print`, and are printed with `PrintRaw`: the header says `$$` for the author's `$`.

The last two share a run: `CommentsOrPortsKept` is the disjunction of `CommentsKept` and
`PortsClosed`, so the file that violates it violates both.

Also worth a reader's attention: `cq_end_op_for_next` (completion_queue.cc:813) overwrites the pending counter with
zero after having read a one: right only because nobody begins an operation in between,
which is the callers' contract that the guard of `BeginOp` states and that
`BegunOpsHoldShutdown` depends on. A service whose method names differ by `Raw`
(`RawPair`) gets functions declared twice, which the compiler refuses; some properties
exclude it, and `RedeclaresTheorem` proves that nothing else clashes in the header.

## Proofs

All theorems are for arbitrary constants under the assumptions the modules name
(`GrpcGenAssumption`, `AbsentAssumption`, `ThreadManagerAssumption`,
`WorkSerializerAssumption`, `CompletionQueueAssumption`, `CppGeneratorAssumption`,
`MethodNamesAssumption`), which TLC evaluates in the runs. The last one is protoc's:
it refuses a `.proto` whose service has two methods of one name before a plugin sees it.

- `GrpcGenProof`: `IInv` is inductive. Its core is `OutsOK`: for every name, some
  past tree exists from which protoc made the outputs, and the files not written
  since are unchanged in it or gone. When nothing is dirty, no input is newer, so
  everything read that still exists is as it was: the outputs are what protoc would make
  now. The proof goes through the import closure (`Reads`), which is defined as the
  intersection of all closed sets to avoid recursion. `PlanOK` gives completeness and header
  closure. `OneBuild` adds `CleanOK`, that in a build left alone every edge not to be run
  any more is clean; it needs an edge's outputs to be written by its own command, which
  `Cpp` is shown to satisfy and `DeclaredAreWritten` assumes of plugins the author
  configures himself.
- `ThreadManagerProof`: the counters are cardinalities of sets of workers by
  `pc`; each step moves one worker from one set to another. `QuotaCovers` bounds
  those sets by the quota, `PhaseOK` ties the server thread's position to flags
  and counters, `JoinedOnce` places finished workers. From the conjunction:
  pool never drains, quota respected, no worker outlives, joined once, the checks of
  `~ThreadManager` and `ThreadQuota::Release` never fire, and, by `CountersExact`, no poller
  that merely timed out leaves a running manager (`IdlePollersStay`), which is why
  `SurplusPollersFinish` fails.
- `WorkSerializerProof`: `IInv` (one round, batch, uniqueness, ownership of the
  deletion) is inductive; the refinement maps every step to a step of
  `SerialExecutor` or a stutter, with lemmas on fronts, lasts and reversals of
  sequences.
- `CompletionQueueProof`: `IInv` is inductive. `PendingExact`, `ItemsExact` and `RefsExact` equate the three counters
  with numbers of operations and pollers by place, and are proved as linear arithmetic
  over a lemma on what one move does to such a number (`CountMove`). `QueueOK` and
  `PopOK` follow the linked list, the stub and the holder of the spinlock;
  `RingOK` the sleepers. A reference is the last one only when the owner is gone, so
  a poller was told SHUTDOWN, so nothing is pending, so nothing is counted: that is
  why the destructor's check holds. The refinement maps `Push` and `Cache` to the end of
  an operation, `Unlock` and `Flush` to its delivery, `Drained` to the report. `BegunHold`
  is that a begun operation holds the shutdown up. `WakeOK` is inductive beside `IInv`:
  whenever an event is counted and a poller is idle, there is a waker (a kicked sleeper, the
  spare wakeup, a poller that has decided to look again, or a producer still to kick).
  `NoLostWakeup` follows.
- `CppGeneratorProof`: `IInv` is `TypeOK`, `PositionOK` (where the loops can be),
  `TemplatesOK` (what a template may read that no loop over methods sets), `TablesOK` (at
  every turn the tables hold exactly the methods passed, each at its own slot),
  `HeaderOK` (every slot in the header is its own method's) and `WrittenOK`. Lemmas give
  the fields of every declaration every printer makes, so that a printer that reads
  an index it did not set fails to prove. From it: `SlotsTheorem`, `WrittenTheorem`.
- `CppTablesProof`: what those printers leave behind, for any number of services and
  methods and any names. `IInv` alone cannot say it: it counts slots and knows nothing of
  the declarations that are in the files. `TurnsOK` does, and is inductive beside it: the
  scope is that of the file being written (`ScopesOK`); every turn behind has left what its
  method is due (`TurnsKept`); whatever is in `decls` some turn behind left (`NothingElse`);
  the same of `adds` (`AddsDue`). "Due" is computed from fresh variables (`Fresh`), so that
  a step preserves it only if its printer sets, or inherits unchanged, each variable its
  template reads: that is where an index or a name left over from another loop would show.
  From it, by closed forms of the printers' tables (`PublicForm`, `SourceForm`, `MockForm`,
  `Mixed`), one per kind of method: `OverridesTheorem`, `CallsTheorem`, `StartsTheorem` and
  `DefinedTheorem`. Existence in the last one pairs the header's loops with the source's;
  uniqueness tells the source's definitions apart by class, by what they are called with
  (`Called`, `Queued`) and, within those, by name, which takes the cancellation of
  `Async` and `Raw` from concatenations, `RawPair` excluded, and `MethodNamesAssumption`.
- `CppPrintedProof`: what the header holds besides declarations that are due one by one.
  `PrintedOK` is inductive beside `IInv` (`PrintedTheorem`): a typedef's two loops are
  followed by the sets of turns behind them (`Behind`), and each turn adds one method to a
  set and, if the method qualifies, one mixin or one bracket to the typedef; the frame of a
  file is what `Prologue`, `Includes`, `Services` and the epilogue give when it is written.
  `TypedefsTheorem` then compares the two loops at the end of the header, where both have
  passed every method: the tests they make separately agree (`Opens` is empty exactly where
  `Closes` is false), so brackets and mixins are equally many; by `TurnsOK` each mixin is a
  class the header has, which marks one slot (`MarkedMethod`, from the closed forms of the
  mixins' tables), and the slots grow in the order of the methods. `ScopesTheorem` reads a
  frame as five parts (`FiveParts`), with all that opens before the services and all that
  closes after them (`Framed`), for a package of any depth. `RedeclaresTheorem` compares any
  two declarations of the header: a class of its own mixin tells its loop and its method
  (`MixinApart`), and its members differ in name or first parameter; elsewhere a declaration
  is of one of four kinds (`HeaderMemberKinds`) or stands before the loops, which the class
  and the parameters tell apart, and two of one kind differ in name (`MembersApart`, by the
  cancellation of `Async` and `Raw`), or, for the two callbacks of a unary method, in what
  they take last (`CallbackApart`).
- `PluginPromiseProof`: with `Settled` (once something is printed the options are read; a
  mock is printed only if asked for) every step of the generator is a step of
  `PluginPromise` or a stutter. The core is `ParseLearns`: what is possible after an
  option was read was possible before.

Only model-checked: liveness under fairness (`EventuallyBuilt`,
`EveryRequestAnswered`, `ShutdownCompletes`, `EveryEventTaken`,
`ShutdownReachesAll`, `GenerateReturns`, the fair half of `ImplementsSerial`), which is
out of the prover's reach. Every safety property and action property that a passing run
checks is stated by a theorem.

## Not modelled, and limits

- The run of the build program is atomic, so a file that appears between the
  engine's fingerprint of a glob and the rule's walk is out of scope.
- One protoc call is one step. An edit while protoc runs is not modelled: whether the next
  build notices it depends on which times ninja records for an edge, which is not in this
  repository.
- `EventuallyBuilt` is about trees without an editor's lock whose plan was not cut short by
  one; `EveryProtoUnderRoots` is about those.
- Generation roots are not nested in one another: `plan_all` would list a file of the inner
  root twice, under two names.
- `IncrementalEqualsClean` excludes edges that last read a file that is gone:
  ninja has no reason to re-run them, and what protoc would answer has changed.
- Modification times are exact (an edit is always newer than what was generated before).
- `ThreadQuota::SetMax` is called while the server is built, before its managers.
- `CompletionQueue`: the PLUCK and CALLBACK kinds, pollsets that poll file
  descriptors (`ExecCtxNext`'s stolen completions), weak memory orders.
- `CppGenerator`: the wording of what is printed, comments of methods, deprecation marks,
  the search paths in front of includes and the stripping of import names; a
  `services_namespace` of several parts (`a::b`). `decls` is a set: a template that printed
  one and the same declaration twice in one turn would not be told from one that prints it
  once.
- What the generated tables do at run time (`Service::MarkMethodAsync` and its kin in
  `service_type.h`, `Server::RegisterService`): `SlotsAgree` is about the tables alone.
- The headers of other languages' generators in `plugin/src/compiler`: nothing includes them.
- Debug-only code (`RunningInWorkSerializer`), statistics and tracing.
- The components listed as `not_modelled` in `PROJECT.json`.

## Plan

1. Done, checked and proved: `GrpcGen`, `ThreadManager`, `WorkSerializer` with
   `SerialExecutor`, `CompletionQueue` (the NEXT kind) with `EventQueue`, and
   `CppGenerator` with `PluginPromise`.
2. The PLUCK and CALLBACK kinds of the completion queue, and `ThreadManager`'s `Poll` and
   `ShutdownQueue` composed with `EventQueue`.
3. `GeneratedService`: the method table at run time, marked as async, callback, raw or
   streamed (`include/grpcpp/impl/service_type.h`), on top of `CppGenerator`'s tables.
4. `CallCombiner`, `IdleFilterState`: lock-free words, against locked abstract versions.
5. `Server`: request matching and shutdown, composed with the queue.
6. `PickFirst` and `Subchannel`; HTTP/2 flow control; `Party`; `RetryThrottle`; `PollingResolver`.
7. Proofs for each new module: the type-and-ownership invariant first, then the refinement.
