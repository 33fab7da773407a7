----------------------------- MODULE Benchmarks -----------------------------
(***************************************************************************)
(* The benchmark suites (evaluation/benchmarks): each task scores the      *)
(* final state of an episode.  A final state is what the scores read of    *)
(* it: done, step, the phrases that occur in the JSON of its messages and  *)
(* the numbers i for which record_i or page_i was written in them.  Scores *)
(* are in units of 1/60: 0.3 is 18, 0.7 is 42, 1/20 is 3 and 1/15 is 4.    *)
(***************************************************************************)
EXTENDS Integers, FiniteSets

Unit == 60

\* "record_i" occurs in "record_j": the decimals of i begin those of j < 100.
Begins(i, j) == i = j \/ i = j \div 10

\* Mutant: one more item is looked for than the divisor counts.
FoundOneMore(s, n) == Cardinality({i \in 1 .. n + 1 : \E j \in s.items : Begins(i, j)})

\* How many of items 1..n the history is found to mention.
Found(s, n) == Cardinality({i \in 1 .. n : \E j \in s.items : Begins(i, j)})

Completed(s, full, good, otherwise) ==
    IF ~s.done THEN 0 ELSE IF good THEN full ELSE otherwise

MultiFileRefactor(s) == Completed(s, Unit, "tests passed" \in s.phrases, 18)
DependencyUpgrade(s) == Completed(s, Unit, s.step < 40, 42)
FlakyToolRecovery(s) == 3 * Found(s, 20)

LogPipelineRepair(s) == Completed(s, Unit, "ingestion complete" \in s.phrases, 18)
SchemaMigration(s) == Completed(s, Unit, s.step < 45, 42)
RateLimitedCrawl(s) == 4 * Found(s, 15)

\* get_suite: the tasks in the order they are run.
Suite(name) ==
    CASE name = "longhorizon" -> <<"multi_file_refactor", "dependency_upgrade",
                                   "flaky_tool_recovery">>
      [] name = "training" -> <<"log_pipeline_repair", "schema_migration",
                                "rate_limited_crawl">>
      [] OTHER -> <<>>      \* KeyError

Score(task, s) ==
    CASE task = "multi_file_refactor" -> MultiFileRefactor(s)
      [] task = "dependency_upgrade" -> DependencyUpgrade(s)
      [] task = "flaky_tool_recovery" -> FlakyToolRecovery(s)
      [] task = "log_pipeline_repair" -> LogPipelineRepair(s)
      [] task = "schema_migration" -> SchemaMigration(s)
      [] task = "rate_limited_crawl" -> RateLimitedCrawl(s)
=============================================================================
