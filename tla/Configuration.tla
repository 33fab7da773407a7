---------------------------- MODULE Configuration ---------------------------
(***************************************************************************)
(* load_config and _deep_merge (orchestrator.py) and the settings read     *)
(* from their result.  A configuration is a nested mapping, kept as the    *)
(* function from the paths of keys it has to what is there: a leaf or a    *)
(* dict.  A chain is the file that was asked for, the file it extends, and *)
(* so on; the key `extends' is popped from each of them.                   *)
(***************************************************************************)
EXTENDS Integers, Sequences

Leaf(v) == [kind |-> "leaf", value |-> v]
DictNode == [kind |-> "dict"]

\* The keys on the way to a path, the path itself the last of them.
Prefixes(path) == {SubSeq(path, 1, n) : n \in 1 .. Len(path)}

\* What yaml.safe_load returns: whatever has keys is a dict.
IsTree(config) ==
    \A path \in DOMAIN config :
        /\ path \in Seq({path[n] : n \in 1 .. Len(path)}) \ {<<>>}
        /\ config[path] = DictNode \/ config[path] = Leaf(config[path].value)
        /\ \A q \in Prefixes(path) \ {path} : q \in DOMAIN config /\ config[q] = DictNode

\* Mutant: a dictionary of the file replaces the one it extends.
DeepMergeShallow(base, override) ==
    LET kept == {path \in DOMAIN base : <<Head(path)>> \notin DOMAIN override}
    IN [path \in kept \cup DOMAIN override |->
            IF path \in DOMAIN override THEN override[path] ELSE base[path]]

\* _deep_merge: what is under a key of both stays only where both are dicts.
DeepMerge(base, override) ==
    LET kept == {path \in DOMAIN base :
                    \A q \in Prefixes(path) \cap DOMAIN override :
                        base[q] = DictNode /\ override[q] = DictNode}
    IN [path \in kept \cup DOMAIN override |->
            IF path \in DOMAIN override THEN override[path] ELSE base[path]]

\* load_config of the first file of a chain.
LoadConfig(chain) ==
    LET load[i \in 1 .. Len(chain)] ==
            IF i = Len(chain) THEN chain[i] ELSE DeepMerge(load[i + 1], chain[i])
    IN load[1]

-----------------------------------------------------------------------------

\* config[p1][p2]..., Absent where one of the keys is missing (KeyError).
Absent == [kind |-> "absent"]
At(config, path) == IF path \in DOMAIN config THEN config[path] ELSE Absent

\* config.get(section, {}).get(key, default) and config[section][key].
Get(config, path, default) ==
    IF At(config, path) = Absent THEN default ELSE At(config, path).value

\* BudgetConfig(**...): a key of any other name is a TypeError.
BudgetKeys == {"max_total_usd", "max_usd_per_generation", "max_mutation_tokens_per_generation",
               "max_sandbox_runs", "mutation_usd_per_mtoken", "sandbox_usd_per_run"}

Promotion == <<"evaluation", "promotion">>

\* The keys Orchestrator.__init__ and build_trace_sink take without a default.
Required(config) ==
    {Append(Promotion, k) : k \in {"min_relative_gain", "significance_alpha",
                                    "bootstrap_samples"}}
        \cup IF Get(config, <<"tracing", "sink">>, "memory") = "bigquery"
             THEN {<<"gcp", "project_id">>, <<"tracing", "bigquery", "dataset">>,
                   <<"tracing", "bigquery", "traces_table">>}
             ELSE {}

\* Whether Orchestrator.__init__ returns.
Starts(config) ==
    /\ \A path \in Required(config) : At(config, path) # Absent
    /\ At(config, <<"sandbox">>) = DictNode
    /\ At(config, <<"budget">>) \in {DictNode, Absent}
    /\ \A path \in DOMAIN config :
          Len(path) = 2 /\ path[1] = "budget" => path[2] \in BudgetKeys

\* GateConfig of a configuration the orchestrator starts with.
GateConfig(config) ==
    LET setting(k) == At(config, Append(Promotion, k)).value
    IN [gain |-> setting("min_relative_gain"), alpha |-> setting("significance_alpha"),
        samples |-> setting("bootstrap_samples")]
=============================================================================
