----------------------------- MODULE GkeProofs ------------------------------
(***************************************************************************)
(* The GKE backend for any template, limits and delays: types, the order   *)
(* of the setup, the teardown, the sufficiency of the grace, and that it   *)
(* implements the contract of sandbox/base.py.                             *)
(***************************************************************************)
EXTENDS GkeSandbox, TLAPS

\* The types of the clock and the cluster.  A Job is submitted by MaxSetup,
\* because the clock of the setup stops there.
ClockType ==
    /\ now \in 0 .. MaxTime
    /\ until \in Nat
    /\ submitted \in 0 .. MaxSetup
    /\ pc \in Setup => now <= MaxSetup

ClusterType ==
    /\ pc \in Setup \cup {"head", "status", "sleep", "scores", "tail",
                          "teardown"} \cup Ended
    /\ namespace \in {"none", "live", "deleted"}
    /\ policies \in 0 .. NumPolicies
    /\ configMap \in BOOLEAN
    /\ layout \in Layouts
    /\ job \in {"none", "pending", "running", "passed", "failed"}
    /\ enforced \in BOOLEAN
    /\ printed \in {"nothing", "scores", "junk"}
    /\ deleteFailed \in BOOLEAN

IsResult(r) ==
    /\ r \in [answer : {"none", "completed", "discarded", "raised"},
              why : {"", "job_failed", "wall_clock_exceeded", "infrastructure",
                     "unreadable"},
              scores : {0, 1}]
    /\ (r.answer \in {"discarded", "raised"}) <=> (r.why # "")

\* What a step of the setup relies on, and that the poll loop has a Job to ask for.
SetupInv ==
    /\ pc \in Setup => job = "none"
    /\ pc \in {"head", "status", "sleep"} => job # "none"
    /\ pc \in {"configMap", "job"} => policies = NumPolicies
    /\ PoliciesBeforeJob

\* There is no answer before the teardown, and a Job that ended stays ended.
AnswerInv ==
    /\ pc \notin {"teardown"} \cup Ended => result = NoResult
    /\ pc = "scores" => job = "passed"
    /\ pc = "tail" => job = "failed"

\* The end of the last sleep that can begin while an enforced Job is unfinished.
LastSleep == submitted + WallClock + JobDelay + StatusDelay + Poll

TimeInv ==
    /\ enforced /\ job \in {"pending", "running"} => now <= submitted + WallClock + JobDelay
    /\ enforced /\ pc = "head" => now <= LastSleep
    /\ enforced /\ pc = "sleep" => now <= until /\ until <= LastSleep

GkeInv ==
    /\ ClockType
    /\ ClusterType
    /\ IsResult(result)
    /\ SetupInv
    /\ AnswerInv
    /\ TimeInv
    /\ NamespaceTornDown
    /\ GraceCoversSetup

-----------------------------------------------------------------------------
(* Results                                                                 *)

\* Every step keeps the result or gives one of these; only the poll loop that
\* has reached its deadline gives wall_clock_exceeded.
NewResult(r) == \/ r = Raised("infrastructure")
                \/ r = Raised("unreadable")
                \/ r = Discarded("job_failed")
                \/ r = Result("completed", "", 0)
                \/ r = Result("completed", "", 1)

LEMMA NewResultShape ==
    ASSUME NEW r, NewResult(r)
    PROVE  IsResult(r) /\ r.why # "wall_clock_exceeded"
  <1>0. CASE r = Raised("infrastructure")
    BY <1>0 DEF Raised, Result, IsResult
  <1>1. CASE r = Raised("unreadable")
    BY <1>1 DEF Raised, Result, IsResult
  <1>2. CASE r = Discarded("job_failed")
    BY <1>2 DEF Discarded, Result, IsResult
  <1>3. CASE r = Result("completed", "", 0)
    BY <1>3 DEF Result, IsResult
  <1>4. CASE r = Result("completed", "", 1)
    BY <1>4 DEF Result, IsResult
  <1> QED
    BY <1>0, <1>1, <1>2, <1>3, <1>4 DEF NewResult

LEMMA NoResultShape == IsResult(NoResult) /\ NoResult.why # "wall_clock_exceeded"
  BY DEF NoResult, Result, IsResult

LEMMA TimeoutShape == IsResult(Discarded("wall_clock_exceeded"))
  BY DEF Discarded, Result, IsResult

LEMMA TypeParts == TypeOK <=> /\ ClusterType
                              /\ IsResult(result)
                              /\ now \in 0 .. MaxTime
                              /\ until \in Nat
                              /\ submitted \in 0 .. MaxSetup
  BY DEF TypeOK, ClusterType, IsResult

LEMMA StepResult ==
    ASSUME TRUE, [Next]_vars
    PROVE  result' = result \/ NewResult(result') \/ Timeout
  <1> USE GkeAssumption DEF NewResult
  <1>1. CASE CreateNamespace
    BY <1>1 DEF CreateNamespace, Request, Raise, cluster
  <1>2. CASE ApplyPolicy
    BY <1>2 DEF ApplyPolicy, PoliciesDone, Request, Raise, cluster
  <1>3. CASE PoliciesApplied
    BY <1>3 DEF PoliciesApplied, PoliciesDone, cluster
  <1>4. CASE MountCandidate
    BY <1>4 DEF MountCandidate, Request, Raise, cluster
  <1>5. CASE SubmitJob
    BY <1>5 DEF SubmitJob, Request, Raise, cluster
  <1>6. CASE Timeout
    BY <1>6 DEF Timeout, Deadline, cluster
  <1>7. CASE AskStatus
    BY <1>7 DEF AskStatus, Poll, cluster
  <1>8. CASE ReadStatus
    BY <1>8 DEF ReadStatus, AfterStatus, Poll, Raise, cluster
  <1>9. CASE Wake
    BY <1>9 DEF Wake, cluster
  <1>10. CASE HarvestScores
    BY <1>10 DEF HarvestScores, Raise, cluster
  <1>11. CASE HarvestTail
    BY <1>11 DEF HarvestTail, Raise, cluster
  <1>12. CASE Teardown
    BY <1>12 DEF Teardown
  <1>13. CASE PodStarts
    BY <1>13 DEF PodStarts, Cluster
  <1>14. CASE PodPrints
    BY <1>14 DEF PodPrints, Cluster
  <1>15. CASE PodPasses
    BY <1>15 DEF PodPasses, Cluster
  <1>16. CASE JobFails
    BY <1>16 DEF JobFails, Cluster
  <1>17. CASE Tick
    BY <1>17 DEF Tick, JobUrgent, cluster
  <1>18. CASE Killed
    BY <1>18 DEF Killed, Ended, cluster
  <1>19. CASE UNCHANGED vars
    BY <1>19 DEF vars, cluster
  <1> QED
    BY <1>1, <1>2, <1>3, <1>4, <1>5, <1>6, <1>7, <1>8, <1>9, <1>10, <1>11, <1>12, <1>13,
       <1>14, <1>15, <1>16, <1>17, <1>18, <1>19
    DEF Next, EvaluateStep, ClusterStep

-----------------------------------------------------------------------------
(* Steps                                                                   *)

LEMMA StepClock ==
    ASSUME ClockType, [Next]_vars
    PROVE  ClockType'
  <1> USE GkeAssumption DEF ClockType, Setup, Ended
  <1>1. CASE CreateNamespace
    BY <1>1 DEF CreateNamespace, Request, Raise, cluster
  <1>2. CASE ApplyPolicy
    BY <1>2 DEF ApplyPolicy, PoliciesDone, Request, Raise, cluster
  <1>3. CASE PoliciesApplied
    BY <1>3 DEF PoliciesApplied, PoliciesDone, cluster
  <1>4. CASE MountCandidate
    BY <1>4 DEF MountCandidate, Request, Raise, cluster
  <1>5. CASE SubmitJob
    BY <1>5 DEF SubmitJob, Request, Raise, cluster
  <1>6. CASE Timeout
    BY <1>6 DEF Timeout, Deadline, cluster
  <1>7. CASE AskStatus
    BY <1>7 DEF AskStatus, Poll, cluster
  <1>8. CASE ReadStatus
    BY <1>8 DEF ReadStatus, AfterStatus, Poll, Raise, cluster
  <1>9. CASE Wake
    BY <1>9 DEF Wake, cluster
  <1>10. CASE HarvestScores
    BY <1>10 DEF HarvestScores, Raise, cluster
  <1>11. CASE HarvestTail
    BY <1>11 DEF HarvestTail, Raise, cluster
  <1>12. CASE Teardown
    BY <1>12 DEF Teardown
  <1>13. CASE PodStarts
    BY <1>13 DEF PodStarts, Cluster
  <1>14. CASE PodPrints
    BY <1>14 DEF PodPrints, Cluster
  <1>15. CASE PodPasses
    BY <1>15 DEF PodPasses, Cluster
  <1>16. CASE JobFails
    BY <1>16 DEF JobFails, Cluster
  <1>17. CASE Tick
    BY <1>17 DEF Tick, JobUrgent, cluster
  <1>18. CASE Killed
    BY <1>18 DEF Killed, Ended, cluster
  <1>19. CASE UNCHANGED vars
    BY <1>19 DEF vars, cluster
  <1> QED
    BY <1>1, <1>2, <1>3, <1>4, <1>5, <1>6, <1>7, <1>8, <1>9, <1>10, <1>11, <1>12, <1>13,
       <1>14, <1>15, <1>16, <1>17, <1>18, <1>19
    DEF Next, EvaluateStep, ClusterStep

LEMMA StepCluster ==
    ASSUME ClusterType, [Next]_vars
    PROVE  ClusterType'
  <1> USE GkeAssumption DEF ClusterType, Setup, Ended
  <1>1. CASE CreateNamespace
    BY <1>1 DEF CreateNamespace, Request, Raise, cluster
  <1>2. CASE ApplyPolicy
    BY <1>2 DEF ApplyPolicy, PoliciesDone, Request, Raise, cluster
  <1>3. CASE PoliciesApplied
    BY <1>3 DEF PoliciesApplied, PoliciesDone, cluster
  <1>4. CASE MountCandidate
    BY <1>4 DEF MountCandidate, Request, Raise, cluster
  <1>5. CASE SubmitJob
    BY <1>5 DEF SubmitJob, Request, Raise, cluster
  <1>6. CASE Timeout
    BY <1>6 DEF Timeout, Deadline, cluster
  <1>7. CASE AskStatus
    BY <1>7 DEF AskStatus, Poll, cluster
  <1>8. CASE ReadStatus
    BY <1>8 DEF ReadStatus, AfterStatus, Poll, Raise, cluster
  <1>9. CASE Wake
    BY <1>9 DEF Wake, cluster
  <1>10. CASE HarvestScores
    BY <1>10 DEF HarvestScores, Raise, cluster
  <1>11. CASE HarvestTail
    BY <1>11 DEF HarvestTail, Raise, cluster
  <1>12. CASE Teardown
    BY <1>12 DEF Teardown
  <1>13. CASE PodStarts
    BY <1>13 DEF PodStarts, Cluster
  <1>14. CASE PodPrints
    BY <1>14 DEF PodPrints, Cluster
  <1>15. CASE PodPasses
    BY <1>15 DEF PodPasses, Cluster
  <1>16. CASE JobFails
    BY <1>16 DEF JobFails, Cluster
  <1>17. CASE Tick
    BY <1>17 DEF Tick, JobUrgent, cluster
  <1>18. CASE Killed
    BY <1>18 DEF Killed, Ended, cluster
  <1>19. CASE UNCHANGED vars
    BY <1>19 DEF vars, cluster
  <1> QED
    BY <1>1, <1>2, <1>3, <1>4, <1>5, <1>6, <1>7, <1>8, <1>9, <1>10, <1>11, <1>12, <1>13,
       <1>14, <1>15, <1>16, <1>17, <1>18, <1>19
    DEF Next, EvaluateStep, ClusterStep

LEMMA StepSetup ==
    ASSUME ClusterType, SetupInv, [Next]_vars
    PROVE  SetupInv'
  <1> USE GkeAssumption DEF ClusterType, SetupInv, PoliciesBeforeJob, Setup, Ended
  <1>1. CASE CreateNamespace
    BY <1>1 DEF CreateNamespace, Request, Raise, cluster
  <1>2. CASE ApplyPolicy
    BY <1>2 DEF ApplyPolicy, PoliciesDone, Request, Raise, cluster
  <1>3. CASE PoliciesApplied
    BY <1>3 DEF PoliciesApplied, PoliciesDone, cluster
  <1>4. CASE MountCandidate
    BY <1>4 DEF MountCandidate, Request, Raise, cluster
  <1>5. CASE SubmitJob
    BY <1>5 DEF SubmitJob, Request, Raise, cluster
  <1>6. CASE Timeout
    BY <1>6 DEF Timeout, Deadline, cluster
  <1>7. CASE AskStatus
    BY <1>7 DEF AskStatus, Poll, cluster
  <1>8. CASE ReadStatus
    BY <1>8 DEF ReadStatus, AfterStatus, Poll, Raise, cluster
  <1>9. CASE Wake
    BY <1>9 DEF Wake, cluster
  <1>10. CASE HarvestScores
    BY <1>10 DEF HarvestScores, Raise, cluster
  <1>11. CASE HarvestTail
    BY <1>11 DEF HarvestTail, Raise, cluster
  <1>12. CASE Teardown
    BY <1>12 DEF Teardown
  <1>13. CASE PodStarts
    BY <1>13 DEF PodStarts, Cluster
  <1>14. CASE PodPrints
    BY <1>14 DEF PodPrints, Cluster
  <1>15. CASE PodPasses
    BY <1>15 DEF PodPasses, Cluster
  <1>16. CASE JobFails
    BY <1>16 DEF JobFails, Cluster
  <1>17. CASE Tick
    BY <1>17 DEF Tick, JobUrgent, cluster
  <1>18. CASE Killed
    BY <1>18 DEF Killed, Ended, cluster
  <1>19. CASE UNCHANGED vars
    BY <1>19 DEF vars, cluster
  <1> QED
    BY <1>1, <1>2, <1>3, <1>4, <1>5, <1>6, <1>7, <1>8, <1>9, <1>10, <1>11, <1>12, <1>13,
       <1>14, <1>15, <1>16, <1>17, <1>18, <1>19
    DEF Next, EvaluateStep, ClusterStep

LEMMA StepAnswer ==
    ASSUME AnswerInv, [Next]_vars
    PROVE  AnswerInv'
  <1> USE GkeAssumption DEF AnswerInv, Setup, Ended
  <1>1. CASE CreateNamespace
    BY <1>1 DEF CreateNamespace, Request, Raise, cluster
  <1>2. CASE ApplyPolicy
    BY <1>2 DEF ApplyPolicy, PoliciesDone, Request, Raise, cluster
  <1>3. CASE PoliciesApplied
    BY <1>3 DEF PoliciesApplied, PoliciesDone, cluster
  <1>4. CASE MountCandidate
    BY <1>4 DEF MountCandidate, Request, Raise, cluster
  <1>5. CASE SubmitJob
    BY <1>5 DEF SubmitJob, Request, Raise, cluster
  <1>6. CASE Timeout
    BY <1>6 DEF Timeout, Deadline, cluster
  <1>7. CASE AskStatus
    BY <1>7 DEF AskStatus, Poll, cluster
  <1>8. CASE ReadStatus
    BY <1>8 DEF ReadStatus, AfterStatus, Poll, Raise, cluster
  <1>9. CASE Wake
    BY <1>9 DEF Wake, cluster
  <1>10. CASE HarvestScores
    BY <1>10 DEF HarvestScores, Raise, cluster
  <1>11. CASE HarvestTail
    BY <1>11 DEF HarvestTail, Raise, cluster
  <1>12. CASE Teardown
    BY <1>12 DEF Teardown
  <1>13. CASE PodStarts
    BY <1>13 DEF PodStarts, Cluster
  <1>14. CASE PodPrints
    BY <1>14 DEF PodPrints, Cluster
  <1>15. CASE PodPasses
    BY <1>15 DEF PodPasses, Cluster
  <1>16. CASE JobFails
    BY <1>16 DEF JobFails, Cluster
  <1>17. CASE Tick
    BY <1>17 DEF Tick, JobUrgent, cluster
  <1>18. CASE Killed
    BY <1>18 DEF Killed, Ended, cluster
  <1>19. CASE UNCHANGED vars
    BY <1>19 DEF vars, cluster
  <1> QED
    BY <1>1, <1>2, <1>3, <1>4, <1>5, <1>6, <1>7, <1>8, <1>9, <1>10, <1>11, <1>12, <1>13,
       <1>14, <1>15, <1>16, <1>17, <1>18, <1>19
    DEF Next, EvaluateStep, ClusterStep

LEMMA StepTime ==
    ASSUME ClockType, ClusterType, SetupInv, TimeInv, [Next]_vars
    PROVE  TimeInv'
  <1> USE GkeAssumption DEF ClockType, ClusterType, SetupInv, TimeInv, LastSleep, Poll, Setup, Ended
  <1>1. CASE CreateNamespace
    BY <1>1 DEF CreateNamespace, Request, Raise, cluster
  <1>2. CASE ApplyPolicy
    BY <1>2 DEF ApplyPolicy, PoliciesDone, Request, Raise, cluster
  <1>3. CASE PoliciesApplied
    BY <1>3 DEF PoliciesApplied, PoliciesDone, cluster
  <1>4. CASE MountCandidate
    BY <1>4 DEF MountCandidate, Request, Raise, cluster
  <1>5. CASE SubmitJob
    BY <1>5 DEF SubmitJob, Request, Raise, cluster
  <1>6. CASE Timeout
    BY <1>6 DEF Timeout, Deadline, cluster
  <1>7. CASE AskStatus
    BY <1>7 DEF AskStatus, Poll, cluster
  <1>8. CASE ReadStatus
    BY <1>8 DEF ReadStatus, AfterStatus, Poll, Raise, cluster
  <1>9. CASE Wake
    BY <1>9 DEF Wake, cluster
  <1>10. CASE HarvestScores
    BY <1>10 DEF HarvestScores, Raise, cluster
  <1>11. CASE HarvestTail
    BY <1>11 DEF HarvestTail, Raise, cluster
  <1>12. CASE Teardown
    BY <1>12 DEF Teardown
  <1>13. CASE PodStarts
    BY <1>13 DEF PodStarts, Cluster
  <1>14. CASE PodPrints
    BY <1>14 DEF PodPrints, Cluster
  <1>15. CASE PodPasses
    BY <1>15 DEF PodPasses, Cluster
  <1>16. CASE JobFails
    BY <1>16 DEF JobFails, Cluster
  <1>17. CASE Tick
    BY <1>17 DEF Tick, JobUrgent, cluster
  <1>18. CASE Killed
    BY <1>18 DEF Killed, Ended, cluster
  <1>19. CASE UNCHANGED vars
    BY <1>19 DEF vars, cluster
  <1> QED
    BY <1>1, <1>2, <1>3, <1>4, <1>5, <1>6, <1>7, <1>8, <1>9, <1>10, <1>11, <1>12, <1>13,
       <1>14, <1>15, <1>16, <1>17, <1>18, <1>19
    DEF Next, EvaluateStep, ClusterStep

LEMMA StepTorn ==
    ASSUME ClusterType, NamespaceTornDown, [Next]_vars
    PROVE  NamespaceTornDown'
  <1> USE GkeAssumption DEF ClusterType, NamespaceTornDown, Setup, Ended
  <1>1. CASE CreateNamespace
    BY <1>1 DEF CreateNamespace, Request, Raise, cluster
  <1>2. CASE ApplyPolicy
    BY <1>2 DEF ApplyPolicy, PoliciesDone, Request, Raise, cluster
  <1>3. CASE PoliciesApplied
    BY <1>3 DEF PoliciesApplied, PoliciesDone, cluster
  <1>4. CASE MountCandidate
    BY <1>4 DEF MountCandidate, Request, Raise, cluster
  <1>5. CASE SubmitJob
    BY <1>5 DEF SubmitJob, Request, Raise, cluster
  <1>6. CASE Timeout
    BY <1>6 DEF Timeout, Deadline, cluster
  <1>7. CASE AskStatus
    BY <1>7 DEF AskStatus, Poll, cluster
  <1>8. CASE ReadStatus
    BY <1>8 DEF ReadStatus, AfterStatus, Poll, Raise, cluster
  <1>9. CASE Wake
    BY <1>9 DEF Wake, cluster
  <1>10. CASE HarvestScores
    BY <1>10 DEF HarvestScores, Raise, cluster
  <1>11. CASE HarvestTail
    BY <1>11 DEF HarvestTail, Raise, cluster
  <1>12. CASE Teardown
    BY <1>12 DEF Teardown
  <1>13. CASE PodStarts
    BY <1>13 DEF PodStarts, Cluster
  <1>14. CASE PodPrints
    BY <1>14 DEF PodPrints, Cluster
  <1>15. CASE PodPasses
    BY <1>15 DEF PodPasses, Cluster
  <1>16. CASE JobFails
    BY <1>16 DEF JobFails, Cluster
  <1>17. CASE Tick
    BY <1>17 DEF Tick, JobUrgent, cluster
  <1>18. CASE Killed
    BY <1>18 DEF Killed, Ended, cluster
  <1>19. CASE UNCHANGED vars
    BY <1>19 DEF vars, cluster
  <1> QED
    BY <1>1, <1>2, <1>3, <1>4, <1>5, <1>6, <1>7, <1>8, <1>9, <1>10, <1>11, <1>12, <1>13,
       <1>14, <1>15, <1>16, <1>17, <1>18, <1>19
    DEF Next, EvaluateStep, ClusterStep

LEMMA StepSubmitted ==
    ASSUME TRUE, [Next]_vars
    PROVE  UNCHANGED <<submitted, enforced>> \/ SubmitJob
  <1> USE GkeAssumption DEF Setup
  <1>1. CASE CreateNamespace
    BY <1>1 DEF CreateNamespace, Request, Raise, cluster
  <1>2. CASE ApplyPolicy
    BY <1>2 DEF ApplyPolicy, PoliciesDone, Request, Raise, cluster
  <1>3. CASE PoliciesApplied
    BY <1>3 DEF PoliciesApplied, PoliciesDone, cluster
  <1>4. CASE MountCandidate
    BY <1>4 DEF MountCandidate, Request, Raise, cluster
  <1>5. CASE SubmitJob
    BY <1>5 DEF SubmitJob, Request, Raise, cluster
  <1>6. CASE Timeout
    BY <1>6 DEF Timeout, Deadline, cluster
  <1>7. CASE AskStatus
    BY <1>7 DEF AskStatus, Poll, cluster
  <1>8. CASE ReadStatus
    BY <1>8 DEF ReadStatus, AfterStatus, Poll, Raise, cluster
  <1>9. CASE Wake
    BY <1>9 DEF Wake, cluster
  <1>10. CASE HarvestScores
    BY <1>10 DEF HarvestScores, Raise, cluster
  <1>11. CASE HarvestTail
    BY <1>11 DEF HarvestTail, Raise, cluster
  <1>12. CASE Teardown
    BY <1>12 DEF Teardown
  <1>13. CASE PodStarts
    BY <1>13 DEF PodStarts, Cluster
  <1>14. CASE PodPrints
    BY <1>14 DEF PodPrints, Cluster
  <1>15. CASE PodPasses
    BY <1>15 DEF PodPasses, Cluster
  <1>16. CASE JobFails
    BY <1>16 DEF JobFails, Cluster
  <1>17. CASE Tick
    BY <1>17 DEF Tick, JobUrgent, cluster
  <1>18. CASE Killed
    BY <1>18 DEF Killed, Ended, cluster
  <1>19. CASE UNCHANGED vars
    BY <1>19 DEF vars, cluster
  <1> QED
    BY <1>1, <1>2, <1>3, <1>4, <1>5, <1>6, <1>7, <1>8, <1>9, <1>10, <1>11, <1>12, <1>13,
       <1>14, <1>15, <1>16, <1>17, <1>18, <1>19
    DEF Next, EvaluateStep, ClusterStep


LEMMA StepGrace ==
    ASSUME GkeInv, [Next]_vars
    PROVE  GraceCoversSetup'
  <1>1. CASE Timeout
    <2>1. submitted' = submitted /\ enforced' = enforced /\ pc = "head" /\ now >= Deadline
      BY <1>1 DEF Timeout, cluster
    <2>2. CASE enforced
      BY <2>1, <2>2, GkeAssumption
      DEF GkeInv, ClockType, TimeInv, LastSleep, Deadline, Poll, GraceCoversSetup
    <2> QED
      BY <2>1, <2>2 DEF GraceCoversSetup
  <1>2. CASE NewResult(result')
    BY <1>2, NewResultShape DEF GraceCoversSetup
  <1>3. CASE result' = result /\ SubmitJob
    <2>1. result = NoResult
      BY <1>3 DEF SubmitJob, Request, GkeInv, AnswerInv, Ended
    <2> QED
      BY <1>3, <2>1, NoResultShape DEF GraceCoversSetup
  <1>4. CASE result' = result /\ UNCHANGED <<submitted, enforced>>
    BY <1>4 DEF GkeInv, GraceCoversSetup
  <1> QED
    BY <1>1, <1>2, <1>3, <1>4, StepResult, StepSubmitted

LEMMA StepGke == GkeInv /\ [Next]_vars => GkeInv'
  <1> SUFFICES ASSUME GkeInv, [Next]_vars PROVE GkeInv'
    OBVIOUS
  <1>1. IsResult(result')
    <2>1. CASE Timeout
      BY <2>1, TimeoutShape DEF Timeout
    <2> QED
      BY <2>1, StepResult, NewResultShape DEF GkeInv
  <1>2. ClockType' /\ ClusterType' /\ SetupInv' /\ AnswerInv'
    BY StepClock, StepCluster, StepSetup, StepAnswer DEF GkeInv
  <1>3. TimeInv' /\ NamespaceTornDown' /\ GraceCoversSetup'
    BY StepTime, StepTorn, StepGrace DEF GkeInv
  <1> QED
    BY <1>1, <1>2, <1>3 DEF GkeInv

LEMMA InitGke == Init => GkeInv
  <1> SUFFICES ASSUME Init PROVE GkeInv
    OBVIOUS
  <1>1. IsResult(result) /\ GraceCoversSetup
    BY NoResultShape DEF Init, GraceCoversSetup
  <1>2. ClockType
    <2>1. 0 \in 0 .. MaxTime /\ 0 \in 0 .. MaxSetup /\ 0 \in Nat /\ 0 <= MaxSetup
      BY GkeAssumption
    <2> QED
      BY <2>1 DEF Init, ClockType
  <1>4. ClusterType
    <2>1. 0 \in 0 .. NumPolicies
      BY GkeAssumption
    <2> QED
      BY <2>1 DEF Init, ClusterType, Setup
  <1>3. SetupInv /\ AnswerInv /\ TimeInv /\ NamespaceTornDown
    BY DEF Init, SetupInv, PoliciesBeforeJob, AnswerInv, TimeInv, NamespaceTornDown
  <1> QED
    BY <1>1, <1>2, <1>3, <1>4 DEF GkeInv

LEMMA GkeInvariant == Spec => []GkeInv
  BY InitGke, StepGke, PTL DEF Spec

-----------------------------------------------------------------------------
(* Safety                                                                  *)

\* Every variable keeps its type, and a result names a violation if and only if
\* it is a discarded candidate.
THEOREM GkeTypeCorrect == Spec => []TypeOK
  <1>1. GkeInv => TypeOK
    BY TypeParts DEF GkeInv, ClockType
  <1> QED
    BY <1>1, GkeInvariant, PTL

\* For every template: the Job is created only when all its network policies
\* are in force, whichever requests of the setup fail.
THEOREM PoliciesPrecedeJob == Spec => []PoliciesBeforeJob
  <1>1. GkeInv => PoliciesBeforeJob
    BY DEF GkeInv, SetupInv
  <1> QED
    BY <1>1, GkeInvariant, PTL

\* No path through evaluate() ends with a live namespace unless its deletion was
\* refused.
THEOREM NamespaceIsTornDown == Spec => []NamespaceTornDown
  <1>1. GkeInv => NamespaceTornDown
    BY DEF GkeInv
  <1> QED
    BY <1>1, GkeInvariant, PTL

\* For every limit, grace and delay: a Job whose deadline Kubernetes enforces is
\* given up on only when it was submitted too late for the grace.
THEOREM GraceIsEnough == Spec => []GraceCoversSetup
  <1>1. GkeInv => GraceCoversSetup
    BY DEF GkeInv
  <1> QED
    BY <1>1, GkeInvariant, PTL

-----------------------------------------------------------------------------
(* Refinement                                                              *)

Evaluator == IF job = "pending" THEN "none" ELSE job
Unreadable == printed = "junk"
Broken == result.why = "infrastructure"

ContractVars == <<[e \in {1} |-> result.answer],
                  [e \in {1} |-> Evaluator],
                  [e \in {1} |-> Unreadable],
                  [e \in {1} |-> Broken],
                  [e \in {1} |-> result.scores]>>

LEMMA OneEval ==
    ASSUME NEW x, NEW y
    PROVE  /\ [e \in {1} |-> y] = [[e \in {1} |-> x] EXCEPT ![1] = y]
           /\ [e \in {1} |-> x][1] = x
  OBVIOUS

\* The answers of a call whose Job is what they say it is.
JustAnswer(r) ==
    \/ r \in {Discarded("job_failed"), Discarded("wall_clock_exceeded"),
              Raised("infrastructure")}
    \/ r = Raised("unreadable") /\ Unreadable /\ Evaluator # "running"
    \/ r = Result("completed", "", 0) /\ Evaluator = "passed"
    \/ r = Result("completed", "", 1) /\ Evaluator = "passed" /\ ~Unreadable

\* What a step does to the Job and to the result, as the contract sees them.
LEMMA StepSeen ==
    ASSUME GkeInv, [Next]_vars
    PROVE  \/ UNCHANGED <<result, Evaluator, printed>>
           \/ /\ UNCHANGED <<result, printed>>
              /\ Evaluator = "none" /\ Evaluator' = "running"
           \/ /\ UNCHANGED <<result, printed>>
              /\ \/ Evaluator \in {"none", "running"} /\ Evaluator' = "failed"
                 \/ Evaluator = "running" /\ Evaluator' = "passed"
           \/ UNCHANGED <<result, Evaluator>> /\ Evaluator = "running"
           \/ /\ UNCHANGED <<Evaluator, printed>>
              /\ result = NoResult /\ JustAnswer(result')
  <1> USE DEF GkeInv, ClusterType, SetupInv, AnswerInv, Evaluator, Unreadable, JustAnswer, Setup, Ended
  <1>1. CASE CreateNamespace
    BY <1>1 DEF CreateNamespace, Request, Raise, cluster
  <1>2. CASE ApplyPolicy
    BY <1>2 DEF ApplyPolicy, PoliciesDone, Request, Raise, cluster
  <1>3. CASE PoliciesApplied
    BY <1>3 DEF PoliciesApplied, PoliciesDone, cluster
  <1>4. CASE MountCandidate
    BY <1>4 DEF MountCandidate, Request, Raise, cluster
  <1>5. CASE SubmitJob
    BY <1>5 DEF SubmitJob, Request, Raise, cluster
  <1>6. CASE Timeout
    BY <1>6 DEF Timeout, Deadline, cluster
  <1>7. CASE AskStatus
    BY <1>7 DEF AskStatus, Poll, cluster
  <1>8. CASE ReadStatus
    BY <1>8 DEF ReadStatus, AfterStatus, Poll, Raise, cluster
  <1>9. CASE Wake
    BY <1>9 DEF Wake, cluster
  <1>10. CASE HarvestScores
    BY <1>10 DEF HarvestScores, Raise, cluster
  <1>11. CASE HarvestTail
    BY <1>11 DEF HarvestTail, Raise, cluster
  <1>12. CASE Teardown
    BY <1>12 DEF Teardown
  <1>13. CASE PodStarts
    BY <1>13 DEF PodStarts, Cluster
  <1>14. CASE PodPrints
    BY <1>14 DEF PodPrints, Cluster
  <1>15. CASE PodPasses
    BY <1>15 DEF PodPasses, Cluster
  <1>16. CASE JobFails
    BY <1>16 DEF JobFails, Cluster
  <1>17. CASE Tick
    BY <1>17 DEF Tick, JobUrgent, cluster
  <1>18. CASE Killed
    BY <1>18 DEF Killed, Ended, cluster
  <1>19. CASE UNCHANGED vars
    BY <1>19 DEF vars, cluster
  <1> QED
    BY <1>1, <1>2, <1>3, <1>4, <1>5, <1>6, <1>7, <1>8, <1>9, <1>10, <1>11, <1>12, <1>13,
       <1>14, <1>15, <1>16, <1>17, <1>18, <1>19
    DEF Next, EvaluateStep, ClusterStep

LEMMA AnswerContract ==
    ASSUME UNCHANGED <<Evaluator, printed>>, result = NoResult, JustAnswer(result')
    PROVE  Contract!CNext
  <1> DEFINE answers == [e \in {1} |-> result.answer]
             brokens == [e \in {1} |-> Broken]
             owners  == [e \in {1} |-> result.scores]
  <1>1. /\ answers' = [answers EXCEPT ![1] = result'.answer]
        /\ brokens' = [brokens EXCEPT ![1] = Broken']
        /\ owners' = [owners EXCEPT ![1] = result'.scores]
    BY OneEval
  <1>2. /\ answers[1] = "none" /\ result.scores = 0 /\ Broken = FALSE
    BY DEF NoResult, Result, Broken
  <1>3. result'.scores = 0 => UNCHANGED owners
    BY <1>2
  <1>4. result'.why # "infrastructure" => UNCHANGED brokens
    BY <1>2 DEF Broken
  <1>5. UNCHANGED <<[e \in {1} |-> Evaluator], [e \in {1} |-> Unreadable]>>
    BY DEF Unreadable
  <1> HIDE DEF answers, brokens, owners
  <1>6. CASE /\ result'.answer = "discarded" /\ result'.scores = 0
             /\ result'.why # "infrastructure"
    <2>1. Contract!CDiscard(1)
      BY <1>1, <1>2, <1>3, <1>4, <1>5, <1>6
      DEF Contract!CDiscard, Contract!Answer, Evaluator, Unreadable, Broken, answers, brokens, owners
    <2> QED
      BY <2>1 DEF Contract!CNext
  <1>7. CASE /\ result'.answer = "raised" /\ result'.scores = 0
             /\ \/ result'.why = "infrastructure"
                \/ result'.why # "infrastructure" /\ Unreadable /\ Evaluator # "running"
    <2>1. Contract!CRaise(1)
      BY <1>1, <1>2, <1>3, <1>4, <1>5, <1>7
      DEF Contract!CRaise, Contract!Answer, Evaluator, Unreadable, Broken, answers, brokens, owners
    <2> QED
      BY <2>1 DEF Contract!CNext
  <1>8. CASE /\ result'.answer = "completed" /\ result'.why # "infrastructure"
             /\ Evaluator = "passed"
             /\ result'.scores = 0 \/ (result'.scores = 1 /\ ~Unreadable)
    <2>1. Contract!CComplete(1)
      BY <1>1, <1>2, <1>3, <1>4, <1>5, <1>8
      DEF Contract!CComplete, Contract!Answer, Evaluator, Unreadable, Broken, answers, brokens, owners
    <2> QED
      BY <2>1 DEF Contract!CNext
  <1>9. CASE result' = Discarded("job_failed") \/ result' = Discarded("wall_clock_exceeded")
    BY <1>6, <1>9 DEF Discarded, Result
  <1>10. CASE \/ result' = Raised("infrastructure")
              \/ result' = Raised("unreadable") /\ Unreadable /\ Evaluator # "running"
    BY <1>7, <1>10 DEF Raised, Result
  <1>11. CASE \/ result' = Result("completed", "", 0) /\ Evaluator = "passed"
              \/ result' = Result("completed", "", 1) /\ Evaluator = "passed" /\ ~Unreadable
    <2>1. /\ Result("completed", "", 0).answer = "completed"
          /\ Result("completed", "", 0).why = "" /\ Result("completed", "", 0).scores = 0
          /\ Result("completed", "", 1).answer = "completed"
          /\ Result("completed", "", 1).why = "" /\ Result("completed", "", 1).scores = 1
      BY DEF Result
    <2>2. Evaluator = "passed" /\ result'.answer = "completed" /\ result'.why = ""
      BY <1>11, <2>1
    <2>3. result'.scores = 0 \/ (result'.scores = 1 /\ ~Unreadable)
      BY <1>11, <2>1
    <2> QED
      BY <1>8, <2>2, <2>3
  <1> QED
    BY <1>9, <1>10, <1>11 DEF JustAnswer

LEMMA StepContract == GkeInv /\ [Next]_vars => [Contract!CNext]_ContractVars
  <1> SUFFICES ASSUME GkeInv, [Next]_vars PROVE [Contract!CNext]_ContractVars
    OBVIOUS
  <1>1. /\ [e \in {1} |-> Evaluator]' = [[e \in {1} |-> Evaluator] EXCEPT ![1] = Evaluator']
        /\ [e \in {1} |-> Unreadable]' = [[e \in {1} |-> Unreadable] EXCEPT ![1] = Unreadable']
        /\ Unreadable' \in BOOLEAN
    BY OneEval DEF Unreadable
  <1>2. CASE UNCHANGED <<result, Evaluator, printed>>
    BY <1>2 DEF ContractVars, Unreadable, Broken
  <1>3. CASE UNCHANGED <<result, printed>> /\ Evaluator = "none" /\ Evaluator' = "running"
    <2>1. Contract!CStart(1)
      BY <1>1, <1>3 DEF Contract!CStart, Evaluator, Unreadable, Broken
    <2> QED
      BY <2>1 DEF Contract!CNext
  <1>4. CASE /\ UNCHANGED <<result, printed>>
             /\ \/ Evaluator \in {"none", "running"} /\ Evaluator' = "failed"
                \/ Evaluator = "running" /\ Evaluator' = "passed"
    <2>1. Contract!CEnd(1)
      BY <1>1, <1>4 DEF Contract!CEnd, Evaluator, Unreadable, Broken
    <2> QED
      BY <2>1 DEF Contract!CNext
  <1>5. CASE UNCHANGED <<result, Evaluator>> /\ Evaluator = "running"
    <2>1. Contract!CReport(1)
      BY <1>1, <1>5 DEF Contract!CReport, Evaluator, Unreadable, Broken
    <2> QED
      BY <2>1 DEF Contract!CNext
  <1>6. CASE /\ UNCHANGED <<Evaluator, printed>>
             /\ result = NoResult /\ JustAnswer(result')
    BY <1>6, AnswerContract
  <1> QED
    BY <1>2, <1>3, <1>4, <1>5, <1>6, StepSeen

LEMMA ContractInit == Init => Contract!CInit
  <1> SUFFICES ASSUME Init PROVE Contract!CInit
    OBVIOUS
  <1>1. result.answer = "none" /\ result.why = "" /\ result.scores = 0
    BY DEF Init, NoResult, Result
  <1>2. job = "none" /\ printed = "nothing"
    BY DEF Init
  <1> QED
    BY <1>1, <1>2 DEF Contract!CInit, Contract!NoScores

\* The backend keeps the contract for every template, limit and delay: one
\* answer, completed only for a Job that succeeded, and an exception only for a
\* request that failed or a last marker line that cannot be parsed.
THEOREM GkeKeepsContract == Spec => KeepsContract
  <1>1. GkeInv /\ [Next]_vars => [Contract!CNext]_ContractVars
    BY StepContract
  <1> QED
    BY <1>1, ContractInit, GkeInvariant, PTL
    DEF Spec, KeepsContract, Contract!CSpec, ContractVars, Evaluator, Unreadable, Broken
=============================================================================
