----------------------------- MODULE MCProposal -----------------------------
(***************************************************************************)
(* Instances of Proposal for TLC.                                          *)
(***************************************************************************)
EXTENDS Proposal

MCTools == {"grep", "fetch"}
MCErrors == {"HTTP404Error", "HTTP503Error"}
MCSqlClass == [c \in MCErrors |-> "HTTP"]
MCSize == [model |-> 2, grep |-> 1, fetch |-> 9, HTTP404Error |-> 3, HTTP503Error |-> 3]

Object(noChange, camel, snake, keys) ==
    [kind |-> "object", noChange |-> noChange, camel |-> camel, snake |-> snake, keys |-> keys,
     null |-> FALSE]
MCAnswers ==
    {Object(n, c, s, k) : n, c, s \in BOOLEAN, k \in {RequiredKeys, {"hypothesis"}}}
        \cup {[Object(FALSE, c, FALSE, RequiredKeys) EXCEPT !.null = TRUE] : c \in BOOLEAN}
        \cup {[Object(FALSE, FALSE, FALSE, {}) EXCEPT !.kind = k] : k \in {"text", "raises"}}

Class(name, methods) == [binds |-> name, kind |-> "class", methods |-> methods]
Whole == Class("Harness", RequiredMethods \cup {"_call_with_retries"})
Part == Class("Harness", {"__init__", "next_action"})
Helper == Class("Policy", {"build_context"})
Imported == [binds |-> "Harness", kind |-> "import", methods |-> {}]

Source(nodes, body) == [parses |-> TRUE, nodes |-> nodes, body |-> body]
Node(kind, name) == [kind |-> kind, name |-> name]
Base == Node("import", <<"self_harness", "core", "harness">>)

MCSources ==
    {[Source({}, <<>>) EXCEPT !.parses = FALSE],
     Source({Base}, <<Imported, Whole>>),
     Source({Node("import", <<>>), Node("import", <<"re">>), Node("call", "len")}, <<Whole>>),
     Source({Node("import", <<"os">>)}, <<Whole>>),
     Source({Node("import", <<"self_harness">>)}, <<Whole>>),
     Source({Node("import", <<"self_harness", "evaluation">>)}, <<Whole>>),
     Source({Node("call", "eval")}, <<Whole>>),
     Source({Node("attribute", "__globals__")}, <<Whole>>),
     Source({Node("name", "__spec__")}, <<Whole>>),
     Source({Base}, <<Imported>>),
     Source({}, <<Helper>>),
     Source({}, <<Part, Helper>>),
     Source({}, <<Whole, Part>>)}
MCPatches ==
    {[specValid |-> v, source |-> s, chars |-> c] : v \in BOOLEAN, s \in MCSources, c \in {4, 40}}

MCBenchmarks ==
    [target : {16, 40}, steps : {1, 4, 5}, depth : {0, 50, 100}, fraction : {0, 10, 50, 100}]
=============================================================================
