---------------------------- MODULE MCEvaluation ----------------------------
(***************************************************************************)
(* Instances of Evaluation for TLC: configurations of one to three files,  *)
(* and final states whose scores differ on every task.                     *)
(***************************************************************************)
EXTENDS Evaluation, TLC

CONSTANTS salt1, salt2

\* The file with these leaves, and the dicts they are in.
File(leaves) ==
    [path \in UNION {Prefixes(leaf) : leaf \in DOMAIN leaves} |->
        IF path \in DOMAIN leaves THEN Leaf(leaves[path]) ELSE DictNode]
Promo(k) == Append(Promotion, k)
Eval(k) == <<"evaluation", k>>

DefaultFile ==
    File(Eval("suite") :> "longhorizon" @@ Eval("episodes_per_task") :> 1
         @@ Eval("seed") :> 1337 @@ Promo("min_relative_gain") :> 3
         @@ Promo("significance_alpha") :> 40 @@ Promo("bootstrap_samples") :> 2
         @@ <<"sandbox", "backend">> :> "local_docker"
         @@ <<"budget", "max_total_usd">> :> 500 @@ <<"tracing", "sink">> :> "memory")
GcpFile ==
    File(<<"gcp", "project_id">> :> "project" @@ <<"tracing", "sink">> :> "bigquery"
         @@ <<"tracing", "bigquery", "dataset">> :> "d"
         @@ <<"tracing", "bigquery", "traces_table">> :> "t"
         @@ <<"sandbox", "backend">> :> "gke" @@ <<"sandbox", "gke", "cluster">> :> "c")
Strict == File(Promo("min_relative_gain") :> 30)
Single == File(Promo("bootstrap_samples") :> 1)
Training == File(Eval("suite") :> "training" @@ Eval("episodes_per_task") :> 2)
NoPromotion == File(Promotion :> "never")
Unknown == File(Eval("suite") :> "transfer")
Misspelt == File(<<"budget", "max_usd">> :> 1)

MCChains == {<<DefaultFile>>, <<Strict, GcpFile, DefaultFile>>, <<Single, Training, DefaultFile>>,
             <<NoPromotion, DefaultFile>>, <<Strict, NoPromotion, DefaultFile>>,
             <<Misspelt, DefaultFile>>, <<Unknown, DefaultFile>>}
MCSeedChains == {<<DefaultFile>>}

State(done, step, phrases, items) ==
    [done |-> done, step |-> step, phrases |-> phrases, items |-> items]
Lost == State(FALSE, 60, {}, {})
Hasty == State(TRUE, 12, {}, {10})
Thorough == State(TRUE, 50, {"tests passed", "ingestion complete"}, 1 .. 20)
MCFinalStates == [e \in 1 .. 2 |-> IF e = 1 THEN {Lost, Hasty, Thorough} ELSE {Hasty, Thorough}]
MCSeedStates == [e \in 1 .. 1 |-> {Thorough}]

\* A report of one task of the suite, and one of another task too.
MCReports == {"flaky_tool_recovery" :> 60, "flaky_tool_recovery" :> 30 @@ "elsewhere" :> 60}

MCTaskHash ==
    [s \in Salts |-> [t \in {"multi_file_refactor", "dependency_upgrade", "flaky_tool_recovery",
                             "log_pipeline_repair", "schema_migration", "rate_limited_crawl"} |->
        IF s = salt1 THEN 17 ELSE 4242]]
=============================================================================
