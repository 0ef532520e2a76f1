--------------------------- MODULE MCCppGenerator ---------------------------
(* Small files and option lists for CppGenerator.                          *)
EXTENDS CppGenerator

Kind == {"unary", "client", "server", "bidi"}
M(name, kind, input, output) ==
  [name |-> name, client |-> kind \in {"client", "bidi"}, server |-> kind \in {"server", "bidi"},
   input |-> input, output |-> output]
S(name, methods) == [name |-> <<name>>, methods |-> methods]
P(package, imports, services) ==
  [package |-> package, imports |-> imports, services |-> services, comment |-> "",
   cc_generic_services |-> FALSE]

\* A service with two methods of every pair of kinds, and one whose methods share names.
Pairs == {P(<<"pkg">>, <<>>,
            <<S("First", <<M(<<"Get">>, k, "A", "B"), M(<<"Put">>, l, "C", "D")>>)>>) : k, l \in Kind}
Shared == P(<<"pkg", "v1">>, <<"other.pb.h">>,
            <<S("First", <<M(<<"Get">>, "server", "A", "B"), M(<<"Put">>, "unary", "C", "C")>>),
              S("Second", <<M(<<"Put">>, "bidi", "D", "A"), M(<<"Get">>, "client", "A", "B"),
                            M(<<"Add">>, "unary", "B", "A")>>)>>)
\* No package; a service without methods; no service; names that differ by "Raw".
Plain == P(<<>>, <<>>, <<S("Empty", <<>>), S("First", <<M(<<"Get">>, "unary", "A", "B")>>)>>)
RawNames == {P(<<"pkg">>, <<>>,
               <<S("First", <<M(<<"Get">>, k, "A", "B"), M(<<"Get", "Raw">>, l, "A", "B")>>)>>)
             : k, l \in {"bidi", "unary"}}
Messages == P(<<"pkg">>, <<>>, <<>>)
Generic == [Plain EXCEPT !.cc_generic_services = TRUE]
MCFiles == Pairs \cup RawNames \cup {Shared, Plain, Messages, Generic}

O(key, val) == [key |-> key, val |-> val]
MCParameters ==
  {<<>>, <<O("generate_mock_code", "true")>>,
   <<O("allow_cq_api", "false"), O("generate_mock_code", "true")>>,
   <<O("allow_sync_server_api", "false")>>,
   <<O("generate_mock_code", "true"), O("generate_mock_code", "false"),
     O("services_namespace", "ns"), O("include_import_headers", "true")>>,
   <<O("allow_cq_api", "missing"), O("allow_sync_server_api", "other")>>,
   <<O("use_system_headers", "false"), O("generate_mock_code", "missing")>>,
   <<O("services_namespace", "ns"), O("unknown", "true")>>}

\* The findings: a package or none, a comment with a "$" or without; no option.
PromiseFiles == {[f EXCEPT !.comment = c] : f \in {Plain, Shared}, c \in {"plain", "dollar"}}
NoOptions == {<<>>}
=============================================================================
