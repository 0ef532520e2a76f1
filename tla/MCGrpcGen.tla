----------------------------- MODULE MCGrpcGen -----------------------------
(* Small instances of GrpcGen for TLC: a service file that may import a    *)
(* shared type, in the project's tree, a shared tree and a package.        *)
EXTENDS GrpcGen, TLC

CONSTANTS plain, revised, withType, absent

F(r, n) == [root |-> r, name |-> n]

MCRoot == {"proto", "shared", "pkg"}
MCContent == {plain, withType}
RevisedContent == {plain, revised, withType}
MCUses == [c \in Content |-> IF c = withType THEN {"types"} ELSE {}]
\* Two contents with the same imports are interchangeable.
Revisions == Permutations({plain, revised})

\* What a later state depends on: no action reads status or calm.
WithoutHistory == <<tree, dirs, locks, cfg, rec, graph, todo, outs, newer, phase>>

AllTools == {"protoc", "wkt", "grpc_cpp_plugin"}

\* A service and a type in the shared tree, plus the same type in the project's own.
SharedEntries == {F("proto", "svc"), F("shared", "types"), F("proto", "types")}

Base == [all |-> TRUE, protoDir |-> "proto", extra |-> <<"shared">>, imports |-> <<>>,
         listed |-> <<>>, plugins |-> {}, grpc |-> TRUE, mock |-> FALSE, args |-> <<>>,
         tools |-> AllTools]

\* The shared tree generated from, or searched only.
SharedConfigs == {Base, [Base EXCEPT !.extra = <<>>, !.imports = <<"shared">>]}

\* One root an editor may lock: mocks; listed names with a flag for protoc; the
\* root given twice.
OptionEntries == {F("proto", "svc"), F("proto", "types")}
OptionConfigs ==
  {[Base EXCEPT !.extra = <<>>, !.mock = TRUE],
   [Base EXCEPT !.extra = <<>>, !.all = FALSE, !.grpc = FALSE, !.listed = <<"svc">>,
                !.args = <<"--experimental_allow_proto3_optional">>, !.tools = {"protoc", "wkt"}],
   [Base EXCEPT !.extra = <<"proto">>]}

\* A type reached only through -I.
SearchEntries == {F("proto", "svc"), F("pkg", "types")}
SearchConfigs == {[Base EXCEPT !.extra = <<>>, !.imports = <<"pkg">>]}

NoLocks == {}
ProtoLock == {"proto"}

\* One root, which an editor may leave a lock file in; a tool may be missing.
LockEntries == {F("proto", "svc"), F("proto", "types")}
LockConfigs == {[Base EXCEPT !.extra = <<>>, !.tools = T] : T \in {AllTools, AllTools \ {"protoc"}}}
=============================================================================
