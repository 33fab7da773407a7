------------------------------- MODULE Sandbox -------------------------------
(***************************************************************************)
(* The contract of Sandbox.evaluate (sandbox/base.py), as far as the       *)
(* backends keep it: each call evaluates one candidate in isolation, and   *)
(* its caller gets a result or an exception.  A result says completed only *)
(* for an evaluator that ended well, and only then carries scores, which   *)
(* are that evaluator's; every other result is a discarded candidate.      *)
(*                                                                         *)
(* Nothing a candidate does becomes an exception, base.py says.  Here one  *)
(* thing does, a report that cannot be read; every other exception is a    *)
(* failure of the backend's own infrastructure, and is marked as one.  The *)
(* contract does not promise that an evaluator has stopped when its caller *)
(* gets the answer.                                                        *)
(***************************************************************************)
CONSTANT Evals   \* the calls

VARIABLES
    answer,       \* what each call returned or raised
    evaluator,    \* the process that runs the suite for each call
    unreadable,   \* what the evaluator leaves or prints is not a report
    broken,       \* docker or the Kubernetes API failed the call
    scores        \* whose scores each result carries, NoScores for none

NoScores == 0

CInit ==
    /\ answer = [e \in Evals |-> "none"]
    /\ evaluator = [e \in Evals |-> "none"]
    /\ unreadable = [e \in Evals |-> FALSE]
    /\ broken = [e \in Evals |-> FALSE]
    /\ scores = [e \in Evals |-> NoScores]

CStart(e) ==
    /\ evaluator[e] = "none"
    /\ evaluator' = [evaluator EXCEPT ![e] = "running"]
    /\ UNCHANGED <<answer, unreadable, broken, scores>>

CReport(e) ==
    /\ evaluator[e] = "running"
    /\ \E u \in BOOLEAN : unreadable' = [unreadable EXCEPT ![e] = u]
    /\ UNCHANGED <<answer, evaluator, broken, scores>>

\* One that cannot be started has failed.
CEnd(e) ==
    /\ \E end \in {"passed", "failed"} :
          /\ \/ evaluator[e] = "running"
             \/ evaluator[e] = "none" /\ end = "failed"
          /\ evaluator' = [evaluator EXCEPT ![e] = end]
    /\ UNCHANGED <<answer, unreadable, broken, scores>>

Answer(e, a) ==
    /\ answer[e] = "none"
    /\ answer' = [answer EXCEPT ![e] = a]
    /\ UNCHANGED <<evaluator, unreadable>>

\* A passed evaluator whose report got lost is completed without scores.
CComplete(e) ==
    /\ Answer(e, "completed")
    /\ evaluator[e] = "passed"
    /\ \/ UNCHANGED scores
       \/ ~unreadable[e] /\ scores' = [scores EXCEPT ![e] = e]
    /\ UNCHANGED broken

CDiscard(e) ==
    /\ Answer(e, "discarded")
    /\ UNCHANGED <<broken, scores>>

CRaise(e) ==
    /\ Answer(e, "raised")
    /\ \/ unreadable[e] /\ evaluator[e] # "running" /\ UNCHANGED broken
       \/ broken' = [broken EXCEPT ![e] = TRUE]
    /\ UNCHANGED scores

CNext ==
    \E e \in Evals : \/ CStart(e) \/ CReport(e) \/ CEnd(e)
                     \/ CComplete(e) \/ CDiscard(e) \/ CRaise(e)

CSpec == CInit /\ [][CNext]_<<answer, evaluator, unreadable, broken, scores>>
=============================================================================
