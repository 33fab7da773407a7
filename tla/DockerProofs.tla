---------------------------- MODULE DockerProofs ----------------------------
(***************************************************************************)
(* Type correctness of the docker backend, and that it implements the      *)
(* contract of sandbox/base.py, for any number of evaluations.             *)
(***************************************************************************)
EXTENDS DockerSandbox, TLAPS

\* The calls that have not been answered: later ones, and the one under way.
Unanswered(e) == e > now \/ (e = now /\ pc \in {"run", "wait", "harvest"})

\* TypeOK alone does not say that a call is answered only once, nor that the
\* container has ended, or never started, when its results are harvested.
DockerInv ==
    /\ TypeOK
    /\ \A e \in Evals : Unanswered(e) => result[e] = NoResult
    /\ pc = "harvest" => client = "exited" /\ container[now] \in {"passed", "failed", "none"}

Answers ==
    [answer : {"completed", "discarded", "raised"},
     why : {"", "wall_clock_exceeded", "exit_code", "infrastructure", "unreadable"},
     scores : 0 .. NumEvals]

\* A discarded candidate and an exception say why, a completed one does not.
Explained(r) == r.answer \in {"discarded", "raised"} <=> r.why # ""

ContainerStep(e) ==
    ContainerStarts(e) \/ ContainerWrites(e) \/ ContainerPrintsBytes(e) \/ ContainerEnds(e)

-----------------------------------------------------------------------------
(* Invariance                                                              *)

LEMMA InitDocker == Init => DockerInv
  <1> SUFFICES ASSUME Init PROVE DockerInv
    OBVIOUS
  <1>1. 1 \in Evals
    BY DockerAssumption DEF Evals
  <1>2. NoResult \in [answer : {"none", "completed", "discarded", "raised"},
                      why : {"", "wall_clock_exceeded", "exit_code",
                             "infrastructure", "unreadable"},
                      scores : 0 .. NumEvals]
    BY DockerAssumption DEF NoResult, Result
  <1>3. NoResult.answer = "none" /\ NoResult.why = ""
    BY DEF NoResult, Result
  <1> QED
    BY <1>1, <1>2, <1>3 DEF Init, DockerInv, TypeOK

LEMMA LaterDiffers ==
    ASSUME NEW d \in Evals, NEW e \in Evals, e > d
    PROVE  e # d
  BY DockerAssumption DEF Evals

\* A call that ends with an answer of the right type, and answers only itself.
LEMMA AnswerKeepsInv ==
    ASSUME DockerInv, pc \in {"run", "wait", "harvest"}, UNCHANGED <<now, containerVars>>,
           client' \in {"none", "running", "exited", "killed"},
           NEW r \in Answers, Explained(r), Answer(r)
    PROVE  DockerInv'
  <1>1. TypeOK'
    BY DEF DockerInv, TypeOK, Answer, containerVars, Answers, Explained
  <1>2. ASSUME NEW e \in Evals, Unanswered(e)'
        PROVE  result'[e] = NoResult
    <2>1. now' = now /\ pc' \notin {"run", "wait", "harvest"}
      BY DEF Answer
    <2>2. e > now
      BY <1>2, <2>1 DEF Unanswered
    <2>3. e # now /\ result[e] = NoResult
      <3>1. now \in Evals
        BY DEF DockerInv, TypeOK
      <3>2. e # now
        BY <2>2, <3>1, LaterDiffers
      <3> QED
        BY <2>2, <3>2 DEF DockerInv, Unanswered
    <2> QED
      BY <2>3 DEF Answer, DockerInv, TypeOK
  <1>3. pc' # "harvest"
    BY DEF Answer
  <1> QED
    BY <1>1, <1>2, <1>3 DEF DockerInv

\* What Harvest answers is well typed.
LEMMA HarvestAnswer ==
    ASSUME DockerInv, Harvest
    PROVE  \E r \in Answers : Explained(r) /\ Answer(r)
  <1>0. now \in Evals
    BY DEF DockerInv, TypeOK
  <1>1. now \in 0 .. NumEvals /\ 0 \in 0 .. NumEvals
    BY <1>0, DockerAssumption DEF Evals
  <1>2. \/ Answer(Raised("unreadable"))
        \/ Answer(Discarded("exit_code"))
        \/ Answer(Result("completed", "", now))
    BY DEF Harvest, ResultsOf
  <1>3. Raised("unreadable") \in Answers /\ Explained(Raised("unreadable"))
    BY <1>1 DEF Raised, Result, Answers, Explained
  <1>4. Discarded("exit_code") \in Answers /\ Explained(Discarded("exit_code"))
    BY <1>1 DEF Discarded, Result, Answers, Explained
  <1>5. Result("completed", "", now) \in Answers /\ Explained(Result("completed", "", now))
    BY <1>1 DEF Result, Answers, Explained
  <1> QED
    BY <1>2, <1>3, <1>4, <1>5

LEMMA StepDocker == DockerInv /\ [Next]_vars => DockerInv'
  <1> SUFFICES ASSUME DockerInv, [Next]_vars PROVE DockerInv'
    OBVIOUS
  <1>1. CASE Run
    <2>1. CASE pc' = "wait" /\ client' = "running" /\ UNCHANGED result
      BY <1>1, <2>1 DEF Run, DockerInv, TypeOK, Unanswered, containerVars
    <2>2. CASE Answer(Raised("infrastructure")) /\ UNCHANGED client
      <3>1. Raised("infrastructure") \in Answers /\ Explained(Raised("infrastructure"))
        BY DockerAssumption DEF Raised, Result, Answers, Explained
      <3>3. client' \in {"none", "running", "exited", "killed"}
        BY <2>2 DEF DockerInv, TypeOK
      <3> QED
        BY <1>1, <2>2, <3>1, <3>3, AnswerKeepsInv DEF Run
    <2> QED
      BY <1>1, <2>1, <2>2 DEF Run
  <1>2. CASE ClientExits
    BY <1>2 DEF ClientExits, DockerInv, TypeOK, Unanswered, containerVars
  <1>3. CASE TimedOut
    <2>1. /\ Discarded("wall_clock_exceeded") \in Answers
          /\ Explained(Discarded("wall_clock_exceeded"))
      BY DockerAssumption DEF Discarded, Result, Answers, Explained
    <2> QED
      BY <1>3, <2>1, AnswerKeepsInv DEF TimedOut
  <1>4. CASE Harvest
    <2>1. client' \in {"none", "running", "exited", "killed"}
      BY <1>4 DEF Harvest, DockerInv, TypeOK
    <2> QED
      BY <1>4, <2>1, HarvestAnswer, AnswerKeepsInv DEF Harvest
  <1>5. CASE NextCall
    <2>1. now \in Evals /\ now + 1 \in Evals
      <3>1. now \in Evals
        BY DEF DockerInv, TypeOK
      <3> QED
        BY <1>5, <3>1, DockerAssumption DEF NextCall, Evals
    <2>2. TypeOK'
      BY <1>5, <2>1 DEF NextCall, DockerInv, TypeOK, containerVars
    <2>3. ASSUME NEW e \in Evals, Unanswered(e)'
          PROVE  result'[e] = NoResult
      <3>1. e > now
        BY <1>5, <2>1, <2>3 DEF NextCall, Unanswered, Evals
      <3> QED
        BY <1>5, <3>1 DEF NextCall, DockerInv, Unanswered
    <2>4. pc' # "harvest"
      BY <1>5 DEF NextCall
    <2> QED
      BY <2>2, <2>3, <2>4 DEF DockerInv
  <1>6. CASE \E e \in Evals : ContainerStep(e)
    <2> PICK e \in Evals : ContainerStep(e)
      BY <1>6
    <2>1. CASE ContainerStarts(e)
      <3>1. pc = "harvest" => e # now
        <4>1. pc = "harvest" => client = "exited" /\ result[now] = NoResult
          BY DEF DockerInv, TypeOK, Unanswered
        <4>2. NoResult.why = ""
          BY DEF NoResult, Result
        <4> QED
          BY <2>1, <4>1, <4>2 DEF ContainerStarts
      <3>2. TypeOK' /\ (\A d \in Evals : Unanswered(d)' => result'[d] = NoResult)
        BY <2>1 DEF ContainerStarts, DockerInv, TypeOK, Unanswered
      <3>3. pc' = "harvest" => /\ client' = "exited"
                              /\ container'[now'] \in {"passed", "failed", "none"}
        BY <2>1, <3>1 DEF ContainerStarts, DockerInv, TypeOK
      <3> QED
        BY <3>2, <3>3 DEF DockerInv
    <2>2. CASE ContainerWrites(e)
      <3>1. PICK f \in {"junk", "scores"} : file' = [file EXCEPT ![e] = f]
        BY <2>2 DEF ContainerWrites
      <3> QED
        BY <2>2, <3>1 DEF ContainerWrites, DockerInv, TypeOK, Unanswered
    <2>3. CASE ContainerPrintsBytes(e)
      BY <2>3 DEF ContainerPrintsBytes, DockerInv, TypeOK, Unanswered
    <2>4. CASE ContainerEnds(e)
      <3>1. PICK end \in {"passed", "failed"} : container' = [container EXCEPT ![e] = end]
        BY <2>4 DEF ContainerEnds
      <3>2. UNCHANGED <<pc, now, client, file, output, result>>
        BY <2>4 DEF ContainerEnds
      <3> QED
        BY <3>1, <3>2 DEF DockerInv, TypeOK, Unanswered
    <2> QED
      BY <2>1, <2>2, <2>3, <2>4 DEF ContainerStep
  <1>7. CASE UNCHANGED vars
    BY <1>7 DEF vars, containerVars, DockerInv, TypeOK, Unanswered
  <1> QED
    BY <1>1, <1>2, <1>3, <1>4, <1>5, <1>6, <1>7 DEF Next, CallStep, ContainerStep

LEMMA DockerInvariant == Spec => []DockerInv
  BY InitDocker, StepDocker, PTL DEF Spec

\* Every variable keeps its type, and a result that is not a completed one says
\* why, for any number of evaluations.
THEOREM DockerTypeCorrect == Spec => []TypeOK
  BY DockerInvariant, PTL DEF DockerInv

-----------------------------------------------------------------------------
(* Refinement                                                              *)

AnswerSeen == [e \in Evals |-> result[e].answer]
Unreadable == [e \in Evals |-> output[e] = "bytes" \/ file[e] = "junk"]
Broken == [e \in Evals |-> result[e].why = "infrastructure"]
ScoresSeen == [e \in Evals |-> result[e].scores]

ContractVars == <<AnswerSeen, container, Unreadable, Broken, ScoresSeen>>

LEMMA ContractInit == Init => Contract!CInit
  <1> SUFFICES ASSUME Init PROVE Contract!CInit
    OBVIOUS
  <1>1. NoResult.answer = "none" /\ NoResult.why = "" /\ NoResult.scores = 0
    BY DEF NoResult, Result
  <1>2. \A e \in Evals : /\ result[e].answer = "none" /\ result[e].scores = 0
                         /\ (result[e].why = "infrastructure") = FALSE
    BY <1>1 DEF Init
  <1>3. container = [e \in Evals |-> "none"]
    BY DEF Init
  <1>4. \A e \in Evals : (output[e] = "bytes" \/ file[e] = "junk") = FALSE
    BY DEF Init
  <1> QED
    BY <1>2, <1>3, <1>4 DEF Contract!CInit, Contract!NoScores

\* A running container changes what there is to read of it, and of it only.
LEMMA ReportKeepsContract ==
    ASSUME DockerInv, NEW e \in Evals, container[e] = "running",
           UNCHANGED <<container, result>>,
           \A d \in Evals \ {e} : output'[d] = output[d] /\ file'[d] = file[d]
    PROVE  Contract!CNext
  <1> DEFINE u == output'[e] = "bytes" \/ file'[e] = "junk"
  <1>1. u \in BOOLEAN
    OBVIOUS
  <1>2. Unreadable' = [Unreadable EXCEPT ![e] = u]
    BY DEF Unreadable
  <1>3. UNCHANGED <<AnswerSeen, Broken, ScoresSeen>>
    BY DEF AnswerSeen, Broken, ScoresSeen
  <1>4. Contract!CReport(e)
    BY <1>1, <1>2, <1>3 DEF Contract!CReport, AnswerSeen, Broken, ScoresSeen, Unreadable
  <1> QED
    BY <1>4 DEF Contract!CNext

\* A step of a container starts or ends an evaluator, or changes its report.
LEMMA ContainerKeepsContract ==
    ASSUME DockerInv, NEW e \in Evals, ContainerStep(e)
    PROVE  [Contract!CNext]_ContractVars
  <1>1. UNCHANGED <<AnswerSeen, Broken, ScoresSeen>>
    BY DEF ContainerStep, ContainerStarts, ContainerWrites, ContainerPrintsBytes,
           ContainerEnds, AnswerSeen, Broken, ScoresSeen
  <1>2. CASE ContainerWrites(e)
    <2>1. \A d \in Evals \ {e} : output'[d] = output[d] /\ file'[d] = file[d]
      BY <1>2 DEF ContainerWrites, DockerInv, TypeOK
    <2> QED
      BY <1>2, <2>1, ReportKeepsContract DEF ContainerWrites
  <1>3. CASE ContainerPrintsBytes(e)
    <2>1. \A d \in Evals \ {e} : output'[d] = output[d] /\ file'[d] = file[d]
      BY <1>3 DEF ContainerPrintsBytes, DockerInv, TypeOK
    <2> QED
      BY <1>3, <2>1, ReportKeepsContract DEF ContainerPrintsBytes
  <1>4. CASE ContainerStarts(e)
    <2>1. UNCHANGED Unreadable
      BY <1>4 DEF ContainerStarts, Unreadable
    <2>2. Contract!CStart(e)
      BY <1>1, <1>4, <2>1
      DEF ContainerStarts, Contract!CStart, AnswerSeen, Broken, ScoresSeen, Unreadable
    <2> QED
      BY <2>2 DEF Contract!CNext
  <1>5. CASE ContainerEnds(e)
    <2>1. UNCHANGED Unreadable
      BY <1>5 DEF ContainerEnds, Unreadable
    <2>2. Contract!CEnd(e)
      BY <1>1, <1>5, <2>1
      DEF ContainerEnds, Contract!CEnd, AnswerSeen, Broken, ScoresSeen, Unreadable
    <2> QED
      BY <2>2 DEF Contract!CNext
  <1> QED
    BY <1>2, <1>3, <1>4, <1>5 DEF ContainerStep

\* An answer is the first of its call, and is a discarded candidate, a completed
\* run of a container that passed and can be read, or an exception: of a docker
\* that cannot be run, or about a container that ended and cannot be read.
LEMMA AnswerKeepsContract ==
    ASSUME DockerInv, pc \in {"run", "wait", "harvest"}, UNCHANGED containerVars,
           NEW r,
           \/ r.answer = "discarded" /\ r.scores = 0 /\ r.why # "infrastructure"
           \/ r.answer = "raised" /\ r.scores = 0 /\ r.why = "infrastructure"
           \/ /\ r.answer = "raised" /\ r.scores = 0 /\ r.why # "infrastructure"
              /\ container[now] # "running"
              /\ output[now] = "bytes" \/ file[now] = "junk"
           \/ /\ r.answer = "completed" /\ r.scores = now /\ r.why # "infrastructure"
              /\ container[now] = "passed"
              /\ ~(output[now] = "bytes" \/ file[now] = "junk"),
           Answer(r)
    PROVE  Contract!CNext
  <1>1. now \in Evals /\ result[now] = NoResult
    BY DEF DockerInv, TypeOK, Unanswered
  <1> PICK d \in Evals : d = now
    BY <1>1
  <1>2. result[now].answer = "none" /\ result[now].scores = 0 /\ result[now].why = ""
    <2>1. NoResult.answer = "none" /\ NoResult.scores = 0 /\ NoResult.why = ""
      BY DEF NoResult, Result
    <2> QED
      BY <1>1, <2>1
  <1>3. result' = [result EXCEPT ![now] = r] /\ DOMAIN result = Evals
    BY DEF Answer, DockerInv, TypeOK
  <1>4. AnswerSeen' = [AnswerSeen EXCEPT ![now] = r.answer] /\ AnswerSeen[now] = "none"
    BY <1>1, <1>2, <1>3 DEF AnswerSeen
  <1>5. ScoresSeen' = [ScoresSeen EXCEPT ![now] = r.scores] /\ ScoresSeen[now] = 0
    BY <1>1, <1>2, <1>3 DEF ScoresSeen
  <1>6. Broken' = [Broken EXCEPT ![now] = (r.why = "infrastructure")] /\ Broken[now] = FALSE
    BY <1>1, <1>2, <1>3 DEF Broken
  <1>7. UNCHANGED <<container, Unreadable>>
    BY DEF containerVars, Unreadable
  <1>8. r.scores = 0 => UNCHANGED ScoresSeen
    BY <1>1, <1>5 DEF ScoresSeen
  <1>9. r.why # "infrastructure" => UNCHANGED Broken
    BY <1>1, <1>6 DEF Broken
  <1>10. Unreadable[now] = (output[now] = "bytes" \/ file[now] = "junk")
    BY <1>1 DEF Unreadable
  <1>11. CASE r.answer = "discarded" /\ r.scores = 0 /\ r.why # "infrastructure"
    <2>1. Contract!CDiscard(d)
      BY <1>4, <1>7, <1>8, <1>9, <1>11 
      DEF Contract!CDiscard, Contract!Answer,
          AnswerSeen, ScoresSeen, Broken, Unreadable
    <2> QED
      BY <2>1 DEF Contract!CNext
  <1>12. CASE r.answer = "raised" /\ r.scores = 0 /\ r.why = "infrastructure"
    <2>1. Contract!CRaise(d)
      BY <1>4, <1>6, <1>7, <1>8, <1>12 
      DEF Contract!CRaise, Contract!Answer,
          AnswerSeen, ScoresSeen, Broken, Unreadable
    <2> QED
      BY <2>1 DEF Contract!CNext
  <1>13. CASE /\ r.answer = "raised" /\ r.scores = 0 /\ r.why # "infrastructure"
              /\ container[now] # "running"
              /\ output[now] = "bytes" \/ file[now] = "junk"
    <2>1. Contract!CRaise(d)
      BY <1>4, <1>7, <1>8, <1>9, <1>10, <1>13 
      DEF Contract!CRaise, Contract!Answer,
          AnswerSeen, ScoresSeen, Broken, Unreadable
    <2> QED
      BY <2>1 DEF Contract!CNext
  <1>14. CASE /\ r.answer = "completed" /\ r.scores = now /\ r.why # "infrastructure"
              /\ container[now] = "passed"
              /\ ~(output[now] = "bytes" \/ file[now] = "junk")
    <2>1. Contract!CComplete(d)
      BY <1>4, <1>5, <1>7, <1>9, <1>10, <1>14
      DEF Contract!CComplete, Contract!Answer,
          AnswerSeen, ScoresSeen, Broken, Unreadable
    <2> QED
      BY <2>1 DEF Contract!CNext
  <1> QED
    BY <1>11, <1>12, <1>13, <1>14

LEMMA StepContract == DockerInv /\ [Next]_vars => [Contract!CNext]_ContractVars
  <1> SUFFICES ASSUME DockerInv, [Next]_vars PROVE [Contract!CNext]_ContractVars
    OBVIOUS
  <1>0. ASSUME UNCHANGED <<result, containerVars>>
        PROVE  UNCHANGED ContractVars
    BY <1>0 DEF ContractVars, AnswerSeen, Unreadable, Broken, ScoresSeen, containerVars
  <1>1. CASE Run
    <2>1. CASE UNCHANGED result
      BY <1>0, <1>1, <2>1 DEF Run
    <2>2. CASE Answer(Raised("infrastructure"))
      <3>1. /\ Raised("infrastructure").answer = "raised"
            /\ Raised("infrastructure").scores = 0
            /\ Raised("infrastructure").why = "infrastructure"
        BY DEF Raised, Result
      <3> QED
        BY <1>1, <2>2, <3>1, AnswerKeepsContract DEF Run
    <2> QED
      BY <1>1, <2>1, <2>2 DEF Run
  <1>2. CASE ClientExits
    BY <1>0, <1>2 DEF ClientExits
  <1>3. CASE TimedOut
    <2>1. /\ Discarded("wall_clock_exceeded").answer = "discarded"
          /\ Discarded("wall_clock_exceeded").scores = 0
          /\ Discarded("wall_clock_exceeded").why # "infrastructure"
      BY DEF Discarded, Result
    <2> QED
      BY <1>3, <2>1, AnswerKeepsContract DEF TimedOut
  <1>4. CASE Harvest
    <2>1. /\ Raised("unreadable").answer = "raised" /\ Raised("unreadable").scores = 0
          /\ Raised("unreadable").why # "infrastructure"
          /\ Discarded("exit_code").answer = "discarded" /\ Discarded("exit_code").scores = 0
          /\ Discarded("exit_code").why # "infrastructure"
          /\ Result("completed", "", now).answer = "completed"
          /\ Result("completed", "", now).scores = now
          /\ Result("completed", "", now).why # "infrastructure"
      BY DEF Raised, Discarded, Result
    <2>2. \/ /\ Answer(Raised("unreadable"))
             /\ output[now] = "bytes" \/ file[now] = "junk"
          \/ Answer(Discarded("exit_code"))
          \/ /\ StatusOK(now)
             /\ ~(output[now] = "bytes" \/ file[now] = "junk")
             /\ Answer(Result("completed", "", now))
      BY <1>4 DEF Harvest, ResultsOf
    <2>3. container[now] # "running"
      BY <1>4 DEF Harvest, DockerInv
    <2> QED
      BY <1>4, <2>1, <2>2, <2>3, AnswerKeepsContract DEF Harvest, StatusOK
  <1>5. CASE NextCall
    BY <1>0, <1>5 DEF NextCall
  <1>6. CASE \E e \in Evals : ContainerStep(e)
    BY <1>6, ContainerKeepsContract
  <1>7. CASE UNCHANGED vars
    BY <1>0, <1>7 DEF vars
  <1> QED
    BY <1>1, <1>2, <1>3, <1>4, <1>5, <1>6, <1>7 DEF Next, CallStep, ContainerStep

\* Whatever containers of earlier calls still do, each call keeps the contract:
\* one answer, completed only for its own passed container and with that
\* container's scores, and an exception only when docker cannot be run or the
\* container, having ended, left something that cannot be read.
THEOREM DockerKeepsContract == Spec => KeepsContract
  <1>1. DockerInv /\ [Next]_vars => [Contract!CNext]_ContractVars
    BY StepContract
  <1> QED
    BY <1>1, ContractInit, DockerInvariant, PTL
    DEF Spec, KeepsContract, Contract!CSpec, ContractVars, AnswerSeen, Unreadable,
        Broken, ScoresSeen
=============================================================================
