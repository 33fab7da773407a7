------------------------- MODULE OrchestratorProofs -------------------------
(***************************************************************************)
(* Theorems about the loop, for every configuration, every number of       *)
(* contents and every number of restarts.                                  *)
(***************************************************************************)
EXTENDS Orchestrator, TLAPS

-----------------------------------------------------------------------------
(* Tokens                                                                  *)

\* Characters round down to tokens: the result is a number of tokens.
LEMMA TokensType == \A a \in Nat : Tokens(a) \in Nat
  BY DEF Tokens, CharsPerToken

\* Two texts counted together make at most one token more than counted apart.
LEMMA TokensOfSum ==
    \A a, b \in Nat : Tokens(a + b) <= Tokens(a) + Tokens(b) + 1
  BY DEF Tokens, CharsPerToken

\* More characters never make fewer tokens.
LEMMA TokensMonotone == \A a, b \in Nat : a <= b => Tokens(a) <= Tokens(b)
  BY DEF Tokens, CharsPerToken

\* The price of tokens is a natural number, and grows with them.
LEMMA PriceMonotone ==
    \A p, a, b \in Nat : a <= b => p * a \in Nat /\ p * a <= p * b
  OBVIOUS

-----------------------------------------------------------------------------
(* Type correctness                                                        *)

Working == {"train", "propose", "register", "registering", "evalCandidate",
            "runCandidate", "evalIncumbent", "runIncumbent", "gate",
            "promoting"}

\* TypeOK is not inductive alone: a generation that is under way has an index
\* below the bound, and past the training batch its base is a real version.
TypeInv ==
    /\ TypeOK
    /\ pc \in Working => generation \in 0 .. Generations - 1
    /\ pc \in Working \ {"train"} => base \in Versions

\* What every action does to the guard, the disk and the loop, one lemma for
\* each of the shared operations.
LEMMA GuardTypes ==
    ASSUME BudgetTypeOK, BudgetAssumption, NEW req \in Nat, NEW resp \in Nat,
           \/ UNCHANGED budgetVars
           \/ ResetBudget
           \/ ResetGeneration
           \/ RecordSandboxRun
           \/ RecordMutationCall(req, resp)
    PROVE  BudgetTypeOK'
  <1>1. CASE UNCHANGED budgetVars
    BY <1>1 DEF BudgetTypeOK, budgetVars
  <1>2. CASE ResetBudget
    BY <1>2 DEF BudgetTypeOK, ResetBudget
  <1>3. CASE ResetGeneration
    BY <1>3 DEF BudgetTypeOK, ResetGeneration
  <1>4. CASE RecordSandboxRun
    BY <1>4 DEF BudgetTypeOK, BudgetAssumption, RecordSandboxRun, Charge
  <1>5. CASE RecordMutationCall(req, resp)
    <2>1. Tokens(req + resp) \in Nat
      BY TokensType
    <2>2. UsdPerToken * Tokens(req + resp) \in Nat
      BY <2>1 DEF BudgetAssumption
    <2> QED
      BY <1>5, <2>1, <2>2 DEF BudgetTypeOK, RecordMutationCall, Charge
  <1> QED
    BY <1>1, <1>2, <1>3, <1>4, <1>5

\* What each write of the registry leaves on disk has the registry's types.
LEMMA DiskTypes ==
    ASSUME RegistryTypeOK, RegistryAssumption, NEW v \in Versions, NEW p \in Versions,
           \/ UNCHANGED registryVars
           \/ Register(v, p)
           \/ WriteSpec \/ WriteSource \/ WriteLineage
           \/ Promote(v)
           \/ WriteHead
           \/ Abandon
           \/ \E name \in ArtifactFiles :
                 Write(v, name) /\ UNCHANGED <<head, parent, call>>
    PROVE  RegistryTypeOK'
  <1> USE DEF RegistryTypeOK
  <1>0. Genesis \in Versions
    BY DEF Versions
  <1>1. CASE UNCHANGED registryVars
    BY <1>1 DEF registryVars
  <1>2. CASE Register(v, p)
    BY <1>2 DEF Register, Write, ArtifactFiles
  <1>3. CASE WriteSpec
    BY <1>3 DEF WriteSpec, Write, ArtifactFiles
  <1>4. CASE WriteSource
    BY <1>4 DEF WriteSource, Write, ArtifactFiles
  <1>5. CASE WriteLineage
    BY <1>0, <1>5 DEF WriteLineage, Write, ArtifactFiles, Idle
  <1>6. CASE Promote(v)
    BY <1>0, <1>6 DEF Promote, OpenHead
  <1>7. CASE WriteHead
    BY <1>0, <1>7 DEF WriteHead, Idle
  <1>8. CASE Abandon
    BY <1>0, <1>8 DEF Abandon, Idle
  <1>9. CASE \E name \in ArtifactFiles :
                Write(v, name) /\ UNCHANGED <<head, parent, call>>
    BY <1>9 DEF Write
  <1> QED
    BY <1>1, <1>2, <1>3, <1>4, <1>5, <1>6, <1>7, <1>8, <1>9

Assumptions == BudgetAssumption /\ RegistryAssumption /\ OrchestratorAssumption

\* The assumptions on the constants, under one name.
LEMMA AssumptionsHold == Assumptions
  BY BudgetAssumption, RegistryAssumption, OrchestratorAssumption DEF Assumptions

\* The variables of the loop itself keep their types when a generation ends or
\* the process is gone.
LEMMA LoopTypes ==
    ASSUME Assumptions, generation \in 0 .. Generations - 1 \/ Forget,
           EndGeneration \/ Forget
    PROVE  /\ generation' \in 0 .. Generations
           /\ base' \in Versions
           /\ attempt' \in 0 .. MaxPatchAttempts
           /\ requestChars' \in Nat
           /\ candidate' \in Versions
           /\ measured' \subseteq Versions
  BY DEF Assumptions, RegistryAssumption, OrchestratorAssumption,
         EndGeneration, Forget, Versions

\* Counting one more evaluation, of a content or of none, keeps the counts typed.
LEMMA EvaluationCount ==
    ASSUME NEW f \in [Contents -> Nat], NEW x
    PROVE  [f EXCEPT ![x] = @ + 1] \in [Contents -> Nat]
  <1>1. CASE x \in Contents
    <2>1. f[x] + 1 \in Nat
      BY <1>1
    <2> QED
      BY <2>1
  <1>2. CASE x \notin Contents
    BY <1>2
  <1> QED
    BY <1>1, <1>2

\* HEAD names a version, or nothing can be read from it.
LEMMA CurrentType == RegistryTypeOK => Current \in Versions \cup {Torn}
  BY DEF RegistryTypeOK, Current, Versions

\* The first process starts with well-typed state.
LEMMA InitTypeInv == Init => TypeInv
  <1> SUFFICES ASSUME Init PROVE TypeInv
    OBVIOUS
  <1>1. BudgetTypeOK
    BY DEF Init, BudgetInit, BudgetTypeOK
  <1>2. RegistryTypeOK
    BY DEF Init, RegistryInit, RegistryTypeOK, Idle, Versions, ArtifactFiles
  <1> QED
    BY <1>1, <1>2, AssumptionsHold
    DEF Init, TypeInv, TypeOK, Steps, Working, Versions, Assumptions,
        RegistryAssumption, OrchestratorAssumption

\* Every operation, crash and restart keeps the types.
LEMMA StepTypeInv == TypeInv /\ [Next]_vars => TypeInv'
  <1> SUFFICES ASSUME TypeInv, [Next]_vars PROVE TypeInv'
    OBVIOUS
  <1>0. Assumptions
    BY AssumptionsHold
  <1> USE DEF TypeInv, TypeOK, Steps, Working, Stopped
  <1>1. CASE MakeGenesis
    <2>1. RegistryTypeOK'
      BY <1>0, <1>1, DiskTypes DEF MakeGenesis, Assumptions, ArtifactFiles, Versions
    <2>2. BudgetTypeOK'
      BY <1>0, <1>1, GuardTypes DEF MakeGenesis, Assumptions
    <2> QED
      BY <1>1, <2>1, <2>2 DEF MakeGenesis, loopVars, history
  <1>2. CASE SkipGenesis
    <2>1. RegistryTypeOK' /\ BudgetTypeOK'
      BY <1>2 DEF SkipGenesis, RegistryTypeOK, BudgetTypeOK, registryVars, budgetVars
    <2> QED
      BY <1>2, <2>1 DEF SkipGenesis, loopVars, history
  <1>3. CASE WriteGenesis
    <2>1. RegistryTypeOK'
      BY <1>0, <1>3, DiskTypes DEF WriteGenesis, Assumptions, ArtifactFiles, Versions
    <2>2. BudgetTypeOK'
      BY <1>0, <1>3, GuardTypes DEF WriteGenesis, Assumptions
    <2> QED
      BY <1>3, <2>1, <2>2 DEF WriteGenesis, loopVars, history
  <1>4. CASE StartGeneration
    <2>1. RegistryTypeOK'
      BY <1>4 DEF StartGeneration, RegistryTypeOK, registryVars
    <2>2. BudgetTypeOK'
      BY <1>0, <1>4, GuardTypes DEF StartGeneration, Assumptions
    <2> QED
      BY <1>0, <1>4, <2>1, <2>2, CurrentType
      DEF StartGeneration, history, Assumptions, RegistryAssumption
  <1>5. CASE FinishLoop
    <2>1. RegistryTypeOK' /\ BudgetTypeOK'
      BY <1>5 DEF FinishLoop, RegistryTypeOK, BudgetTypeOK, registryVars, budgetVars
    <2> QED
      BY <1>5, <2>1 DEF FinishLoop, loopVars, history
  <1>6. CASE TrainingBatch
    <2>1. RegistryTypeOK' /\ BudgetTypeOK'
      BY <1>6 DEF TrainingBatch, RegistryTypeOK, BudgetTypeOK, registryVars, budgetVars
    <2>2. base \in Versions
      BY <1>6 DEF TrainingBatch, Loadable
    <2> QED
      BY <1>0, <1>6, <2>1, <2>2 DEF TrainingBatch, Assumptions, OrchestratorAssumption
  <1>7. CASE LoadFails
    <2>1. RegistryTypeOK'
      BY <1>7 DEF LoadFails, RegistryTypeOK, registryVars
    <2>2. BudgetTypeOK'
      BY <1>0, <1>7, GuardTypes DEF LoadFails, Forget, Assumptions
    <2> QED
      BY <1>0, <1>7, <2>1, <2>2, LoopTypes DEF LoadFails, history
  <1>8. CASE NoMoreAttempts
    <2>1. RegistryTypeOK' /\ BudgetTypeOK'
      BY <1>8 DEF NoMoreAttempts, RegistryTypeOK, BudgetTypeOK, registryVars, budgetVars
    <2>2. generation \in 0 .. Generations - 1
      BY <1>8 DEF NoMoreAttempts
    <2>3. pc' = "top"
      BY <1>8 DEF NoMoreAttempts, EndGeneration
    <2> QED
      BY <1>0, <1>8, <2>1, <2>2, <2>3, LoopTypes DEF NoMoreAttempts, history
  <1>9. CASE ProposeNothing
    <2>1. RegistryTypeOK' /\ BudgetTypeOK'
      BY <1>0, <1>9, GuardTypes
      DEF ProposeNothing, PaidCall, RegistryTypeOK, registryVars, Assumptions
    <2>2. generation \in 0 .. Generations - 1
      BY <1>9 DEF ProposeNothing, PaidCall, CanPropose
    <2>3. /\ UNCHANGED <<restarts, executed, gated, evaluations>>
          /\ flagged' \in Nat /\ unheard' \in Nat /\ incidents' \in Nat
      BY <1>9 DEF ProposeNothing, PaidCall
    <2>4. CASE AbortLoop
      BY <2>1, <2>3, <2>4 DEF AbortLoop, loopVars
    <2>5. CASE EndGeneration
      <3>1. pc' = "top"
        BY <2>5 DEF EndGeneration
      <3> QED
        BY <1>0, <2>1, <2>2, <2>3, <2>5, <3>1, LoopTypes
    <2> QED
      BY <1>9, <2>4, <2>5 DEF ProposeNothing
  <1>10. CASE ProposeFlagged
    <2>1. PICK chars \in ResponseChars : PaidCall(chars)
      BY <1>10 DEF ProposeFlagged
    <2>2. RegistryTypeOK' /\ BudgetTypeOK'
      BY <1>0, <2>1, GuardTypes
      DEF PaidCall, RegistryTypeOK, registryVars, Assumptions, OrchestratorAssumption
    <2>3. generation \in 0 .. Generations - 1
      BY <2>1 DEF PaidCall, CanPropose
    <2>4. /\ UNCHANGED <<restarts, executed, gated, evaluations>>
          /\ flagged' \in Nat /\ unheard' \in Nat /\ incidents' \in Nat
      BY <1>10, <2>1 DEF ProposeFlagged, PaidCall
    <2>5. CASE AbortLoop
      BY <2>2, <2>4, <2>5 DEF AbortLoop, loopVars
    <2>6. CASE EndGeneration
      <3>1. pc' = "top"
        BY <2>6 DEF EndGeneration
      <3> QED
        BY <1>0, <2>2, <2>3, <2>4, <2>6, <3>1, LoopTypes
    <2> QED
      BY <1>10, <2>5, <2>6 DEF ProposeFlagged
  <1>11. CASE ProposePatch
    <2>1. PICK chars \in ResponseChars : PaidCall(chars)
      BY <1>11 DEF ProposePatch
    <2>2. RegistryTypeOK' /\ BudgetTypeOK'
      BY <1>0, <2>1, GuardTypes
      DEF PaidCall, RegistryTypeOK, registryVars, Assumptions, OrchestratorAssumption
    <2>3. generation \in 0 .. Generations - 1 /\ attempt < MaxPatchAttempts
          /\ pc = "propose" /\ base \in Versions
      BY <2>1 DEF PaidCall, CanPropose
    <2>4. UNCHANGED <<restarts, executed, gated, evaluations, flagged, unheard, incidents>>
      BY <1>11, <2>1 DEF ProposePatch, PaidCall
    <2>5. CASE AbortLoop
      BY <2>2, <2>4, <2>5 DEF AbortLoop, loopVars
    <2>6. CASE ~AbortLoop
      <3>1. PICK c \in Contents :
               \/ attempt' = attempt + 1 /\ UNCHANGED <<pc, candidate>>
               \/ pc' = "register" /\ candidate' = <<generation, c>> /\ UNCHANGED attempt
        BY <1>11, <2>6 DEF ProposePatch
      <3>2. UNCHANGED <<generation, base, requestChars, measured>>
        BY <1>11, <2>6 DEF ProposePatch
      <3>3. <<generation, c>> \in Versions
        BY <2>3 DEF Versions, Registrable
      <3>4. attempt' \in 0 .. MaxPatchAttempts
        BY <1>0, <2>3, <3>1 DEF Assumptions, OrchestratorAssumption
      <3>5. candidate' \in Versions /\ pc' \in {"propose", "register"}
        BY <2>3, <3>1, <3>3
      <3> QED
        BY <2>2, <2>3, <2>4, <3>2, <3>4, <3>5
    <2> QED
      BY <2>5, <2>6
  <1>12. CASE BeginRegister
    <2>1. RegistryTypeOK'
      BY <1>0, <1>12, DiskTypes DEF BeginRegister, Assumptions
    <2>2. BudgetTypeOK'
      BY <1>0, <1>12, GuardTypes DEF BeginRegister, Assumptions
    <2> QED
      BY <1>12, <2>1, <2>2 DEF BeginRegister, loopVars, history
  <1>13. CASE WriteCandidate
    <2>1. RegistryTypeOK'
      BY <1>0, <1>13, DiskTypes DEF WriteCandidate, Assumptions
    <2>2. BudgetTypeOK'
      BY <1>0, <1>13, GuardTypes DEF WriteCandidate, Assumptions
    <2> QED
      BY <1>13, <2>1, <2>2 DEF WriteCandidate, loopVars, history
  <1>14. CASE SandboxDenied
    <2>1. RegistryTypeOK' /\ BudgetTypeOK'
      BY <1>14 DEF SandboxDenied, RegistryTypeOK, BudgetTypeOK, registryVars, budgetVars
    <2>2. pc' = "top" /\ generation \in 0 .. Generations - 1
      BY <1>14 DEF SandboxDenied, EndGeneration
    <2> QED
      BY <1>0, <1>14, <2>1, <2>2, LoopTypes DEF SandboxDenied, history
  <1>15. ASSUME NEW from \in {"evalCandidate", "evalIncumbent"},
                NEW to \in {"runCandidate", "runIncumbent"},
                StartSandbox(from, to), evaluations' \in [Contents -> Nat]
         PROVE  TypeInv'
    <2>1. RegistryTypeOK' /\ BudgetTypeOK'
      BY <1>0, <1>15, GuardTypes
      DEF StartSandbox, RegistryTypeOK, registryVars, Assumptions
    <2>2. UNCHANGED loopVars /\ pc' \in {"done", to} /\ pc = from
      BY <1>15 DEF StartSandbox, AbortLoop
    <2>3. UNCHANGED <<restarts, executed, gated, flagged, unheard, incidents>>
      BY <1>15 DEF StartSandbox
    <2> QED
      BY <1>15, <2>1, <2>2, <2>3 DEF loopVars
  <1>16. CASE EvaluateCandidate
    <2>1. evaluations' \in [Contents -> Nat]
      BY <1>16, EvaluationCount DEF EvaluateCandidate
    <2>2. StartSandbox("evalCandidate", "runCandidate")
      BY <1>16 DEF EvaluateCandidate
    <2> QED
      BY <1>15, <2>1, <2>2
  <1>17. CASE EvaluateIncumbent
    BY <1>15, <1>17 DEF EvaluateIncumbent
  <1>18. ASSUME NEW from \in {"runCandidate", "runIncumbent"},
                NEW to \in {"evalIncumbent", "gate"},
                NEW v \in Versions, SandboxResult(from, v, to)
         PROVE  TypeInv'
    <2>1. RegistryTypeOK' /\ BudgetTypeOK'
      BY <1>18
      DEF SandboxResult, RegistryTypeOK, BudgetTypeOK, registryVars, budgetVars
    <2>2. pc = from /\ generation \in 0 .. Generations - 1 /\ base \in Versions
      BY <1>18 DEF SandboxResult
    <2>3. UNCHANGED <<restarts, history>>
      BY <1>18 DEF SandboxResult
    <2>4. CASE EndGeneration
      <3>1. pc' = "top"
        BY <2>4 DEF EndGeneration
      <3> QED
        BY <1>0, <2>1, <2>2, <2>3, <2>4, <3>1, LoopTypes DEF history
    <2>5. CASE ~EndGeneration
      BY <1>18, <2>1, <2>2, <2>3, <2>5 DEF SandboxResult, history
    <2> QED
      BY <2>4, <2>5
  <1>19. CASE CandidateResult
    BY <1>18, <1>19 DEF CandidateResult
  <1>20. CASE IncumbentResult
    <2>1. base \in Versions
      BY <1>20 DEF IncumbentResult, SandboxResult
    <2> QED
      BY <1>18, <1>20, <2>1 DEF IncumbentResult
  <1>21. CASE GateRejects
    <2>1. RegistryTypeOK' /\ BudgetTypeOK'
      BY <1>21 DEF GateRejects, RegistryTypeOK, BudgetTypeOK, registryVars, budgetVars
    <2>2. pc' = "top" /\ generation \in 0 .. Generations - 1
      BY <1>21 DEF GateRejects, EndGeneration
    <2> QED
      BY <1>0, <1>21, <2>1, <2>2, LoopTypes DEF GateRejects, history
  <1>22. CASE GateAccepts
    <2>1. RegistryTypeOK'
      BY <1>0, <1>22, DiskTypes DEF GateAccepts, Assumptions
    <2>2. BudgetTypeOK'
      BY <1>0, <1>22, GuardTypes DEF GateAccepts, Assumptions
    <2> QED
      BY <1>22, <2>1, <2>2 DEF GateAccepts, loopVars
  <1>23. CASE FinishPromotion
    <2>1. RegistryTypeOK'
      BY <1>0, <1>23, DiskTypes DEF FinishPromotion, Assumptions
    <2>2. BudgetTypeOK'
      BY <1>0, <1>23, GuardTypes DEF FinishPromotion, Assumptions
    <2>3. pc' = "top" /\ generation \in 0 .. Generations - 1
      BY <1>23 DEF FinishPromotion, EndGeneration
    <2> QED
      BY <1>0, <1>23, <2>1, <2>2, <2>3, LoopTypes DEF FinishPromotion, history
  <1>24. CASE Crash
    <2>1. RegistryTypeOK'
      BY <1>0, <1>24, DiskTypes DEF Crash, Assumptions
    <2>2. BudgetTypeOK'
      BY <1>0, <1>24, GuardTypes DEF Crash, Forget, Assumptions
    <2> QED
      BY <1>0, <1>24, <2>1, <2>2, LoopTypes DEF Crash, history
  <1>25. CASE Restart
    <2>1. RegistryTypeOK'
      BY <1>25 DEF Restart, RegistryTypeOK, registryVars
    <2>2. BudgetTypeOK'
      BY <1>0, <1>25, GuardTypes DEF Restart, Forget, Assumptions
    <2>3. restarts' \in 0 .. MaxRestarts
      BY <1>0, <1>25 DEF Restart, Assumptions, OrchestratorAssumption
    <2> QED
      BY <1>0, <1>25, <2>1, <2>2, <2>3, LoopTypes DEF Restart
  <1>26. CASE UNCHANGED vars
    BY <1>26 DEF vars, budgetVars, registryVars, loopVars, history,
                 BudgetTypeOK, RegistryTypeOK
  <1>27. CASE ProposeRaises
    <2>1. RegistryTypeOK'
      BY <1>27 DEF ProposeRaises, RegistryTypeOK, registryVars
    <2>2. BudgetTypeOK'
      BY <1>0, <1>27, GuardTypes DEF ProposeRaises, Forget, Assumptions
    <2>3. /\ UNCHANGED <<restarts, executed, gated, evaluations>>
          /\ flagged' \in Nat /\ unheard' \in Nat /\ incidents' \in Nat
      BY <1>27 DEF ProposeRaises
    <2> QED
      BY <1>0, <1>27, <2>1, <2>2, <2>3, LoopTypes DEF ProposeRaises
  <1> QED
    BY <1>1, <1>2, <1>3, <1>4, <1>5, <1>6, <1>7, <1>8, <1>9, <1>10, <1>11,
       <1>12, <1>13, <1>14, <1>16, <1>17, <1>19, <1>20, <1>21, <1>22, <1>23,
       <1>24, <1>25, <1>26, <1>27
    DEF Next, LoopStep

\* So the types hold in every run.
LEMMA TypeInvariant == Spec => []TypeInv
  BY InitTypeInv, StepTypeInv, PTL DEF Spec

\* The variables keep their types in every run of the program.
THEOREM TypeCorrect == Spec => []TypeOK
  BY TypeInvariant, PTL DEF TypeInv

-----------------------------------------------------------------------------
(* Money                                                                   *)

Sizes == 0 .. MaxResponseChars

PaidMutation(chars) ==
    /\ AllowMutationCall(requestChars)
    /\ RecordMutationCall(requestChars, chars)
    /\ CeilingCrossed' => pc' \in Stopped

PaidSandbox ==
    /\ AllowSandboxRun
    /\ RecordSandboxRun
    /\ CeilingCrossed' => pc' \in Stopped

\* The discipline every bound rests on: the loop charges the guard only after
\* asking it, and stops when a charge crosses a ceiling; all its other steps
\* leave the guard alone, start a generation or start a process.
LEMMA GuardDiscipline ==
    ASSUME TypeInv, [Next]_vars
    PROVE  \/ UNCHANGED budgetVars /\ (pc \in Stopped => pc' \in Stopped)
           \/ ResetBudget
           \/ ResetGeneration
           \/ \E chars \in Sizes : PaidMutation(chars)
           \/ PaidSandbox
  <1>0. Assumptions
    BY AssumptionsHold
  <1> USE DEF Stopped
  <1>1. CASE MakeGenesis \/ SkipGenesis \/ WriteGenesis
    BY <1>1 DEF MakeGenesis, SkipGenesis, WriteGenesis
  <1>2. CASE StartGeneration
    BY <1>2 DEF StartGeneration
  <1>3. CASE FinishLoop \/ TrainingBatch
    BY <1>3 DEF FinishLoop, TrainingBatch
  <1>4. CASE LoadFails \/ ProposeRaises \/ Crash \/ Restart
    BY <1>4 DEF LoadFails, ProposeRaises, Crash, Restart, Forget
  <1>5. CASE NoMoreAttempts \/ SandboxDenied \/ GateRejects
    BY <1>5 DEF NoMoreAttempts, SandboxDenied, GateRejects
  <1>6. CASE ProposeNothing
    <2>1. PaidMutation(0)
      BY <1>6 DEF ProposeNothing, PaidCall, CanPropose, PaidMutation, AbortLoop
    <2>2. 0 \in Sizes
      BY <1>0 DEF Sizes, Assumptions, OrchestratorAssumption
    <2> QED
      BY <2>1, <2>2
  <1>7. CASE ProposeFlagged
    <2>1. PICK chars \in ResponseChars : PaidCall(chars)
      BY <1>7 DEF ProposeFlagged
    <2>2. PaidMutation(chars)
      BY <1>7, <2>1 DEF ProposeFlagged, PaidCall, CanPropose, PaidMutation, AbortLoop
    <2>3. chars \in Sizes
      BY <1>0, <2>1 DEF Sizes, Assumptions, OrchestratorAssumption
    <2> QED
      BY <2>2, <2>3
  <1>8. CASE ProposePatch
    <2>1. PICK chars \in ResponseChars : PaidCall(chars)
      BY <1>8 DEF ProposePatch
    <2>2. PaidMutation(chars)
      BY <1>8, <2>1 DEF ProposePatch, PaidCall, CanPropose, PaidMutation, AbortLoop
    <2>3. chars \in Sizes
      BY <1>0, <2>1 DEF Sizes, Assumptions, OrchestratorAssumption
    <2> QED
      BY <2>2, <2>3
  <1>9. CASE BeginRegister \/ WriteCandidate
    BY <1>9 DEF BeginRegister, WriteCandidate
  <1>10. CASE EvaluateCandidate
    BY <1>10 DEF EvaluateCandidate, StartSandbox, PaidSandbox, AbortLoop
  <1>11. CASE EvaluateIncumbent
    BY <1>11 DEF EvaluateIncumbent, StartSandbox, PaidSandbox, AbortLoop
  <1>12. CASE CandidateResult
    BY <1>12 DEF CandidateResult, SandboxResult
  <1>13. CASE IncumbentResult
    BY <1>13 DEF IncumbentResult, SandboxResult
  <1>14. CASE GateAccepts \/ FinishPromotion
    BY <1>14 DEF GateAccepts, FinishPromotion
  <1>15. CASE UNCHANGED vars
    BY <1>15 DEF vars
  <1> QED
    BY <1>1, <1>2, <1>3, <1>4, <1>5, <1>6, <1>7, <1>8, <1>9, <1>10, <1>11,
       <1>12, <1>13, <1>14, <1>15
    DEF Next, LoopStep

\* What one mutation call adds: the request fits under the cap, the response
\* adds its own tokens and one more.
LEMMA OneCallBounded ==
    ASSUME TypeInv, NEW chars \in Sizes, PaidMutation(chars)
    PROVE  /\ genTokens' <= MaxMutationTokens + LargestResponse
           /\ Tokens(requestChars + chars) \in Nat
           /\ Tokens(requestChars + chars) <= MaxMutationTokens + LargestResponse
           /\ MaxMutationTokens + LargestResponse \in Nat
  <1>0. Assumptions
    BY AssumptionsHold
  <1>1. /\ chars \in Nat /\ chars <= MaxResponseChars /\ MaxResponseChars \in Nat
        /\ requestChars \in Nat /\ genTokens \in Nat /\ MaxMutationTokens \in Nat
    BY <1>0 DEF Sizes, Assumptions, BudgetAssumption, OrchestratorAssumption,
                TypeInv, TypeOK, BudgetTypeOK
  <1>2. /\ Tokens(requestChars) \in Nat /\ Tokens(chars) \in Nat
        /\ Tokens(MaxResponseChars) \in Nat /\ Tokens(requestChars + chars) \in Nat
    BY <1>1, TokensType
  <1>3. Tokens(requestChars + chars) <= Tokens(requestChars) + Tokens(chars) + 1
    BY <1>1, TokensOfSum
  <1>4. Tokens(chars) <= Tokens(MaxResponseChars)
    BY <1>1, TokensMonotone
  <1>5. /\ genTokens + Tokens(requestChars) <= MaxMutationTokens
        /\ genTokens' = genTokens + Tokens(requestChars + chars)
    BY DEF PaidMutation, AllowMutationCall, RecordMutationCall
  <1> QED
    BY <1>1, <1>2, <1>3, <1>4, <1>5 DEF LargestResponse

MoneyInv == StopsAtCeiling /\ OvershootBounded /\ CapsBounded

\* A new guard satisfies the money invariant.
LEMMA InitMoney == Init => MoneyInv
  <1> SUFFICES ASSUME Init PROVE MoneyInv
    OBVIOUS
  <1>1. Assumptions
    BY AssumptionsHold
  <1>2. LargestResponse \in Nat
    BY <1>1, TokensType DEF LargestResponse, Assumptions, OrchestratorAssumption
  <1> QED
    BY <1>1, <1>2
    DEF Init, BudgetInit, MoneyInv, StopsAtCeiling, OvershootBounded, CapsBounded,
        Assumptions, BudgetAssumption

\* Only charges, new generations and new processes touch the guard, and each keeps it.
LEMMA StepMoney == TypeInv /\ MoneyInv /\ [Next]_vars => MoneyInv'
  <1> SUFFICES ASSUME TypeInv, MoneyInv, [Next]_vars PROVE MoneyInv'
    OBVIOUS
  <1>0. Assumptions
    BY AssumptionsHold
  <1>1. /\ MaxTotalUsd \in Nat /\ UsdPerRun \in Nat /\ UsdPerToken \in Nat
        /\ MaxSandboxRuns \in Nat /\ MaxMutationTokens \in Nat
        /\ totalUsd \in Nat /\ sandboxRuns \in Nat
    BY <1>0 DEF Assumptions, BudgetAssumption, TypeInv, TypeOK, BudgetTypeOK
  <1>2. LargestResponse \in Nat
    BY <1>0, TokensType DEF LargestResponse, Assumptions, OrchestratorAssumption
  <1>3. CASE UNCHANGED budgetVars /\ (pc \in Stopped => pc' \in Stopped)
    BY <1>3 DEF MoneyInv, StopsAtCeiling, OvershootBounded, CapsBounded,
                CeilingCrossed, Exhausted, budgetVars
  <1>4. CASE ResetBudget
    BY <1>1, <1>2, <1>4 DEF ResetBudget, MoneyInv, StopsAtCeiling,
                            OvershootBounded, CapsBounded
  <1>5. CASE ResetGeneration
    BY <1>1, <1>2, <1>5 DEF ResetGeneration, MoneyInv, StopsAtCeiling,
                            OvershootBounded, CapsBounded
  <1>6. ASSUME NEW chars \in Sizes, PaidMutation(chars)
        PROVE  MoneyInv'
    <2> DEFINE cost == Tokens(requestChars + chars)
               most == MaxMutationTokens + LargestResponse
    <2>1. /\ genTokens' <= most /\ cost \in Nat /\ cost <= most /\ most \in Nat
      BY <1>6, OneCallBounded
    <2>2. UsdPerToken * cost <= UsdPerToken * most
      BY <1>1, <2>1, PriceMonotone
    <2>3. UsdPerToken * cost \in Nat /\ UsdPerToken * most \in Nat
      BY <1>1, <2>1
    <2>4. /\ totalUsd < MaxTotalUsd /\ totalUsd' = totalUsd + UsdPerToken * cost
          /\ sandboxRuns' = sandboxRuns
      BY <1>1, <1>6 DEF PaidMutation, AllowMutationCall, RecordMutationCall,
                        Charge, Exhausted
    <2>5. StopsAtCeiling'
      BY <1>6 DEF PaidMutation, StopsAtCeiling
    <2>6. totalUsd' < MaxTotalUsd + UsdPerToken * most
      <3> HIDE DEF cost, most
      <3> QED
        BY <1>1, <2>2, <2>3, <2>4
    <2>7. CapsBounded'
      BY <2>1, <2>4 DEF MoneyInv, CapsBounded
    <2> QED
      BY <2>5, <2>6, <2>7 DEF MoneyInv, OvershootBounded
  <1>7. CASE PaidSandbox
    <2>1. StopsAtCeiling'
      BY <1>7 DEF PaidSandbox, StopsAtCeiling
    <2>2. OvershootBounded' /\ CapsBounded'
      BY <1>1, <1>7 DEF PaidSandbox, AllowSandboxRun, RecordSandboxRun, Charge,
                        Exhausted, MoneyInv, OvershootBounded, CapsBounded
    <2> QED
      BY <2>1, <2>2 DEF MoneyInv
  <1> QED
    BY <1>3, <1>4, <1>5, <1>6, <1>7, GuardDiscipline

\* So the money invariant holds in every run.
LEMMA MoneyInvariant == Spec => []MoneyInv
  BY InitTypeInv, StepTypeInv, InitMoney, StepMoney, PTL DEF Spec

\* A crossed ceiling, of the generation or of the experiment, is the end of the
\* process, for all prices and caps.
THEOREM CeilingStopsProcess == Spec => []StopsAtCeiling
  BY MoneyInvariant, PTL DEF MoneyInv

\* The ceiling is overshot by less than the dearest single operation, though
\* nothing bounds the size of a request.
THEOREM OvershootIsBounded == Spec => []OvershootBounded
  BY MoneyInvariant, PTL DEF MoneyInv

\* The run cap holds exactly, the token cap up to one response and one token.
THEOREM CapsAreBounded == Spec => []CapsBounded
  BY MoneyInvariant, PTL DEF MoneyInv

-----------------------------------------------------------------------------
(* Flags                                                                   *)

\* Nothing but an answer and a restart matters to the flags that are still to be
\* reported; a process that has stopped stays so until it is restarted.
LEMMA FlagDiscipline ==
    ASSUME [Next]_vars
    PROVE  \/ ProposeNothing
           \/ ProposeRaises
           \/ ProposeFlagged
           \/ Restart
           \/ UNCHANGED vars
           \/ pc \notin Stopped /\ UNCHANGED <<restarts, flagged, unheard, incidents>>
  <1> USE DEF history, Stopped
  <1>1. CASE \/ MakeGenesis \/ SkipGenesis \/ WriteGenesis \/ StartGeneration
             \/ FinishLoop \/ TrainingBatch \/ LoadFails
    BY <1>1 DEF MakeGenesis, SkipGenesis, WriteGenesis, StartGeneration, FinishLoop,
                TrainingBatch, LoadFails
  <1>2. CASE NoMoreAttempts \/ ProposePatch
    BY <1>2 DEF NoMoreAttempts, ProposePatch, PaidCall, CanPropose
  <1>3. CASE BeginRegister \/ WriteCandidate \/ SandboxDenied
    BY <1>3 DEF BeginRegister, WriteCandidate, SandboxDenied
  <1>4. CASE EvaluateCandidate \/ EvaluateIncumbent
    BY <1>4 DEF EvaluateCandidate, EvaluateIncumbent, StartSandbox
  <1>5. CASE CandidateResult \/ IncumbentResult
    BY <1>5 DEF CandidateResult, IncumbentResult, SandboxResult
  <1>6. CASE GateRejects \/ GateAccepts \/ FinishPromotion \/ Crash
    BY <1>6 DEF GateRejects, GateAccepts, FinishPromotion, Crash
  <1> QED
    BY <1>1, <1>2, <1>3, <1>4, <1>5, <1>6 DEF Next, LoopStep

\* Every step keeps the account of flags and incidents.
LEMMA StepFlags == TypeInv /\ FlagsReported /\ [Next]_vars => FlagsReported'
  <1> SUFFICES ASSUME TypeInv, FlagsReported, [Next]_vars PROVE FlagsReported'
    OBVIOUS
  <1>0. flagged \in Nat /\ unheard \in Nat /\ incidents \in Nat /\ restarts \in Nat
    BY DEF TypeInv, TypeOK
  <1>1. pc \notin Stopped => /\ incidents + unheard <= flagged
                             /\ flagged <= incidents + unheard + restarts
    BY <1>0 DEF FlagsReported, Stopped
  <1>2. CASE ProposeFlagged
    <2>1. pc = "propose" /\ UNCHANGED <<restarts, unheard>> /\ flagged' = flagged + 1
      BY <1>2 DEF ProposeFlagged, PaidCall, CanPropose
    <2>2. CASE AbortLoop /\ UNCHANGED incidents
      BY <1>0, <1>1, <2>1, <2>2 DEF AbortLoop, FlagsReported, Stopped
    <2>3. CASE incidents' = incidents + 1
      BY <1>0, <1>1, <2>1, <2>3 DEF FlagsReported, Stopped
    <2> QED
      BY <1>2, <2>2, <2>3 DEF ProposeFlagged
  <1>3. CASE ProposeNothing
    <2>1. pc = "propose" /\ UNCHANGED <<restarts, incidents>>
      BY <1>3 DEF ProposeNothing, PaidCall, CanPropose
    <2>2. CASE UNCHANGED <<flagged, unheard>>
      BY <1>0, <1>1, <2>1, <2>2 DEF FlagsReported, Stopped
    <2>3. CASE flagged' = flagged + 1 /\ unheard' = unheard + 1
      BY <1>0, <1>1, <2>1, <2>3 DEF FlagsReported, Stopped
    <2> QED
      BY <1>3, <2>2, <2>3 DEF ProposeNothing
  <1>4. CASE ProposeRaises
    <2>1. /\ pc = "propose" /\ pc' = "down" /\ UNCHANGED <<restarts, unheard, incidents>>
          /\ flagged' \in {flagged, flagged + 1}
      BY <1>4 DEF ProposeRaises, CanPropose
    <2> QED
      BY <1>0, <1>1, <2>1 DEF FlagsReported, Stopped
  <1>5. CASE Restart
    BY <1>0, <1>5 DEF Restart, FlagsReported
  <1>6. CASE UNCHANGED vars
    BY <1>6 DEF vars, budgetVars, history, FlagsReported, CeilingCrossed, Exhausted
  <1>7. CASE pc \notin Stopped /\ UNCHANGED <<restarts, flagged, unheard, incidents>>
    BY <1>0, <1>1, <1>7 DEF FlagsReported
  <1> QED
    BY <1>2, <1>3, <1>4, <1>5, <1>6, <1>7, FlagDiscipline

\* For all prices and restarts: of the flagged answers with a patch, at most the
\* last one of each process goes unreported, and only when recording its cost
\* stopped the loop or an exception ended the process.
THEOREM FlagsAreReported == Spec => []FlagsReported
  <1>1. Init => FlagsReported
    BY DEF Init, FlagsReported
  <1> QED
    BY <1>1, InitTypeInv, StepTypeInv, StepFlags, PTL DEF Spec

-----------------------------------------------------------------------------
(* The disk and the loop                                                   *)

Evaluating == {"evalCandidate", "runCandidate", "evalIncumbent",
               "runIncumbent", "gate", "promoting"}

\* Where register() and promote() are, and what they have written so far.
CallInv ==
    /\ pc \notin {"registering", "promoting"} => call = Idle
    /\ pc = "register" => files[candidate] = {}
    /\ pc = "registering" =>
         /\ call.version = candidate
         /\ call.parent = base
         /\ \/ call.op = "spec.json" /\ files[candidate] = {"dir"}
            \/ call.op = "harness.py" /\ files[candidate] = {"dir", "spec.json"}
            \/ /\ call.op = "lineage.json"
               /\ files[candidate] = {"dir", "spec.json", "harness.py"}
    /\ pc \in Evaluating =>
         /\ files[candidate] = ArtifactFiles
         /\ parent[candidate] = base
    /\ pc = "promoting" => call.op = "HEAD" /\ call.version = candidate /\ head = Torn
    /\ pc \in Evaluating \cup {"register", "registering"} => candidate \in Registrable

\* What HEAD can name, and what the loop remembers of it.
HeadInv ==
    /\ head \in Versions => Complete(head) /\ head \in gated \cup {Genesis}
    /\ pc \in Working \ {"promoting"} => base = Current
    /\ pc = "promoting" => base \in gated \cup {Genesis} /\ candidate \in gated
    /\ executed \subseteq gated \cup {Genesis}

\* A content is evaluated once, and was registered before.
TabuInv ==
    /\ \A c \in Contents : evaluations[c] # 0 =>
          evaluations[c] = 1 /\ c \in ValidContents /\ HasContent(c)
    /\ pc \in {"register", "registering", "evalCandidate"} =>
          candidate[2] \in ValidContents /\ evaluations[candidate[2]] = 0

\* Which of the two versions of the generation have been measured.
RoundInv ==
    /\ pc \in {"evalIncumbent", "runIncumbent"} => candidate \in measured
    /\ pc \in {"gate", "promoting"} => {candidate, base} \subseteq measured

LoopInv == CallInv /\ HeadInv /\ TabuInv /\ RoundInv

\* HEAD's name, when it can be read, is genesis or a version of the gate.
LEMMA CurrentGated ==
    ASSUME RegistryTypeOK, HeadInv, Current # Torn
    PROVE  Current \in gated \cup {Genesis}
  BY DEF RegistryTypeOK, HeadInv, Current

\* Directories are never emptied: what is tabu stays tabu.
LEMMA TabuStays ==
    ASSUME NEW c, HasContent(c), \A v \in Registrable : files[v] # {} => files'[v] # {}
    PROVE  HasContent(c)'
  BY DEF HasContent

\* A step out of the work of a generation, to whatever end, that leaves the
\* registered versions, HEAD and the records alone.
LEMMA LeaveWork ==
    ASSUME TypeInv, LoopInv,
           \A v \in Registrable : files'[v] = files[v],
           UNCHANGED <<head, parent, gated, executed, evaluations>>,
           call' = Idle,
           pc' \notin Working
    PROVE  LoopInv'
  <1>1. CallInv'
    BY DEF CallInv, Working, Evaluating
  <1>2. HeadInv'
    <2>1. head \in Versions => Complete(head)'
      BY DEF LoopInv, HeadInv, Complete, Versions
    <2> QED
      BY <2>1 DEF LoopInv, HeadInv, Working
  <1>3. TabuInv'
    <2>1. \A c \in Contents : HasContent(c) => HasContent(c)'
      BY TabuStays
    <2> QED
      BY <2>1 DEF LoopInv, TabuInv, Working
  <1>4. RoundInv'
    BY DEF RoundInv, Working
  <1> QED
    BY <1>1, <1>2, <1>3, <1>4 DEF LoopInv

\* A step inside the work of a generation that leaves the disk and the records
\* alone disturbs only what the loop remembers of its round.
LEMMA StayAtWork ==
    ASSUME TypeInv, LoopInv,
           UNCHANGED <<registryVars, gated, executed, evaluations>>
    PROVE  /\ head \in Versions => (Complete(head) /\ head \in gated \cup {Genesis})'
           /\ executed' \subseteq gated' \cup {Genesis}
           /\ \A c \in Contents : evaluations'[c] # 0 =>
                 evaluations'[c] = 1 /\ c \in ValidContents /\ HasContent(c)'
  <1>1. Complete(head)' = Complete(head)
    BY DEF Complete, registryVars
  <1>2. \A c \in Contents : HasContent(c)' = HasContent(c)
    BY DEF HasContent, registryVars
  <1> QED
    BY <1>1, <1>2 DEF LoopInv, HeadInv, TabuInv, registryVars

\* Nothing is registered, evaluated or promoted at first.
LEMMA InitLoop == Init => LoopInv
  <1> SUFFICES ASSUME Init PROVE LoopInv
    OBVIOUS
  <1>0. Assumptions
    BY AssumptionsHold
  <1>1. pc = "boot" /\ head \notin Versions /\ call = Idle
    BY <1>0 DEF Init, RegistryInit, Assumptions, RegistryAssumption
  <1> QED
    BY <1>1 DEF Init, LoopInv, CallInv, HeadInv, TabuInv, RoundInv, Working,
                Evaluating

\* A new generation forgets the round before it.
LEMMA StepStartGeneration ==
    ASSUME TypeInv, LoopInv, StartGeneration PROVE LoopInv'
  <1>1. UNCHANGED <<registryVars, gated, executed, evaluations>>
    BY DEF StartGeneration, history
  <1>2. pc = "top" /\ pc' = "train" /\ base' = Current
    BY DEF StartGeneration
  <1>3. call = Idle /\ call' = Idle /\ Current' = Current
    BY <1>1, <1>2 DEF LoopInv, CallInv, registryVars, Current
  <1>4. CallInv'
    BY <1>2, <1>3 DEF CallInv, Evaluating
  <1>5. HeadInv'
    BY <1>1, <1>2, <1>3, StayAtWork DEF HeadInv, Working, registryVars
  <1>6. TabuInv'
    BY <1>1, <1>2, StayAtWork DEF TabuInv
  <1>7. RoundInv'
    BY <1>2 DEF RoundInv
  <1> QED
    BY <1>4, <1>5, <1>6, <1>7 DEF LoopInv

\* The training batch runs HEAD's code, which is gated.
LEMMA StepTrainingBatch ==
    ASSUME TypeInv, LoopInv, TrainingBatch PROVE LoopInv'
  <1>1. pc = "train" /\ pc' = "propose" /\ base' = base /\ executed' = executed \cup {base}
        /\ UNCHANGED <<registryVars, gated, evaluations>> /\ base # Torn
    BY DEF TrainingBatch, Loadable
  <1>2. base = Current /\ call = Idle /\ call' = Idle /\ Current' = Current
    BY <1>1 DEF LoopInv, CallInv, HeadInv, Working, registryVars, Current
  <1>3. base \in gated \cup {Genesis}
    BY <1>1, <1>2, CurrentGated DEF TypeInv, TypeOK, LoopInv
  <1>4. Complete(head)' = Complete(head)
    BY <1>1 DEF Complete, registryVars
  <1>5. HeadInv'
    BY <1>1, <1>2, <1>3, <1>4 DEF LoopInv, HeadInv, Working, registryVars
  <1>6. TabuInv'
    <2>1. \A c \in Contents : HasContent(c)' = HasContent(c)
      BY <1>1 DEF HasContent, registryVars
    <2> QED
      BY <1>1, <2>1 DEF LoopInv, TabuInv
  <1> QED
    BY <1>1, <1>2, <1>5, <1>6 DEF LoopInv, CallInv, RoundInv, Evaluating

\* A patch that goes on is no content of any directory, so it was never evaluated.
LEMMA StepProposePatch ==
    ASSUME TypeInv, LoopInv, ProposePatch PROVE LoopInv'
  <1>1. UNCHANGED <<registryVars, gated, executed, evaluations>> /\ pc = "propose"
    BY DEF ProposePatch, PaidCall, CanPropose
  <1>2. call = Idle /\ call' = Idle
    BY <1>1 DEF LoopInv, CallInv, registryVars
  <1>3. CASE AbortLoop
    BY <1>1, <1>2, <1>3, LeaveWork DEF AbortLoop, Working, registryVars
  <1>4. CASE ~AbortLoop
    <2>1. PICK c \in Contents :
             \/ UNCHANGED <<pc, candidate>>
             \/ /\ ~HasContent(c) /\ c \in ValidContents
                /\ pc' = "register" /\ candidate' = <<generation, c>>
      BY <1>4 DEF ProposePatch
    <2>2. UNCHANGED <<base, measured>>
      BY <1>4 DEF ProposePatch
    <2>3. Current' = Current /\ base = Current
      BY <1>1 DEF Current, registryVars, LoopInv, HeadInv, Working
    <2>4. CASE UNCHANGED <<pc, candidate>>
      BY <1>1, <1>2, <2>2, <2>3, <2>4, StayAtWork
      DEF LoopInv, CallInv, HeadInv, TabuInv, RoundInv, Working, Evaluating, registryVars
    <2>5. CASE ~HasContent(c) /\ c \in ValidContents
               /\ pc' = "register" /\ candidate' = <<generation, c>>
      <3>1. candidate' \in Registrable /\ candidate'[2] = c
        BY <1>1, <2>5 DEF Registrable, TypeInv, Working
      <3>2. files'[candidate'] = {}
        BY <1>1, <2>5, <3>1 DEF HasContent, registryVars
      <3>3. evaluations'[c] = 0
        BY <1>1, <2>5 DEF LoopInv, TabuInv
      <3> QED
        BY <1>1, <1>2, <2>2, <2>3, <2>5, <3>1, <3>2, <3>3, StayAtWork
        DEF LoopInv, CallInv, HeadInv, TabuInv, RoundInv, Working, Evaluating, registryVars
    <2> QED
      BY <2>1, <2>4, <2>5
  <1> QED
    BY <1>3, <1>4

\* Registration reserves a directory for the new content.
LEMMA StepBeginRegister ==
    ASSUME TypeInv, LoopInv, BeginRegister PROVE LoopInv'
  <1>1. /\ pc = "register" /\ pc' = "registering"
        /\ UNCHANGED <<base, candidate, head, parent, gated, executed, evaluations>>
        /\ files' = [files EXCEPT ![candidate] = @ \cup {"dir"}]
        /\ call' = [op |-> "spec.json", version |-> candidate, parent |-> base]
    BY DEF BeginRegister, Register, Write, loopVars, history
  <1>2. candidate \in Registrable /\ candidate \in Versions /\ files[candidate] = {}
    BY <1>1 DEF LoopInv, CallInv, TypeInv, TypeOK
  <1>3. /\ files' \in [Versions -> SUBSET ArtifactFiles] /\ files'[candidate] = {"dir"}
        /\ \A v \in Versions \ {candidate} : files'[v] = files[v]
    BY <1>1, <1>2 DEF TypeInv, TypeOK, RegistryTypeOK, ArtifactFiles
  <1>4. CallInv'
    BY <1>1, <1>2, <1>3 DEF CallInv, Evaluating
  <1>5. HeadInv'
    <2>1. head \in Versions => Complete(head)'
      BY <1>1, <1>2, <1>3 DEF LoopInv, HeadInv, Complete, ArtifactFiles
    <2> QED
      BY <1>1, <2>1 DEF LoopInv, HeadInv, Working, Current
  <1>6. TabuInv'
    <2>1. \A c \in Contents : HasContent(c) => HasContent(c)'
      BY <1>2, <1>3, TabuStays DEF Versions
    <2> QED
      BY <1>1, <2>1 DEF LoopInv, TabuInv
  <1>7. RoundInv'
    BY <1>1 DEF RoundInv
  <1> QED
    BY <1>4, <1>5, <1>6, <1>7 DEF LoopInv

\* The files of the candidate make its directory complete, one by one.
LEMMA StepWriteCandidate ==
    ASSUME TypeInv, LoopInv, WriteCandidate PROVE LoopInv'
  <1>1. /\ pc = "registering" /\ call.version = candidate /\ call.parent = base
        /\ UNCHANGED <<base, candidate, measured, head, gated, executed, evaluations>>
    BY DEF WriteCandidate, WriteSpec, WriteSource, WriteLineage, loopVars, history,
           LoopInv, CallInv
  <1>2. candidate \in Registrable /\ candidate \in Versions
    BY <1>1 DEF LoopInv, CallInv, TypeInv, TypeOK
  <1>3. PICK name \in ArtifactFiles :
           files' = [files EXCEPT ![candidate] = @ \cup {name}]
    BY <1>1 DEF WriteCandidate, WriteSpec, WriteSource, WriteLineage, Write,
                ArtifactFiles
  <1>4. /\ files'[candidate] = files[candidate] \cup {name}
        /\ \A v \in Versions \ {candidate} : files'[v] = files[v]
    BY <1>2, <1>3 DEF TypeInv, TypeOK, RegistryTypeOK
  <1>5. HeadInv'
    <2>1. head \in Versions => Complete(head)'
      BY <1>1, <1>2, <1>4 DEF LoopInv, HeadInv, Complete, ArtifactFiles
    <2> QED
      BY <1>1, <2>1 DEF LoopInv, HeadInv, Working, Current, WriteCandidate
  <1>6. TabuInv'
    <2>1. \A c \in Contents : HasContent(c) => HasContent(c)'
      BY <1>2, <1>4, TabuStays DEF Versions
    <2> QED
      BY <1>1, <2>1 DEF LoopInv, TabuInv, WriteCandidate
  <1>7. RoundInv'
    BY <1>1 DEF RoundInv, WriteCandidate
  <1>8. CallInv'
    <2>1. CASE WriteSpec
      BY <1>1, <1>2, <2>1 DEF WriteSpec, Write, WriteCandidate, WriteLineage, LoopInv,
         CallInv, Evaluating, TypeInv, TypeOK, RegistryTypeOK
    <2>2. CASE WriteSource
      BY <1>1, <1>2, <2>2 DEF WriteSource, Write, WriteCandidate, WriteLineage, LoopInv,
         CallInv, Evaluating, TypeInv, TypeOK, RegistryTypeOK
    <2>3. CASE WriteLineage
      BY <1>1, <1>2, <2>3 DEF WriteLineage, Write, WriteCandidate, WriteSpec, WriteSource,
         LoopInv, CallInv, Evaluating, TypeInv, TypeOK, RegistryTypeOK, ArtifactFiles
    <2> QED
      BY <2>1, <2>2, <2>3 DEF WriteCandidate
  <1> QED
    BY <1>5, <1>6, <1>7, <1>8 DEF LoopInv

\* The candidate is evaluated once its artifact is complete, and for the first time.
LEMMA StepEvaluateCandidate ==
    ASSUME TypeInv, LoopInv, EvaluateCandidate PROVE LoopInv'
  <1>1. UNCHANGED <<registryVars, gated, executed>> /\ pc = "evalCandidate"
        /\ UNCHANGED <<base, candidate, measured>>
    BY DEF EvaluateCandidate, StartSandbox, AbortLoop, loopVars
  <1>2. call = Idle /\ call' = Idle
    BY <1>1 DEF LoopInv, CallInv, registryVars
  <1>3. CASE pc' = "done"
    <2>1. UNCHANGED evaluations
      BY <1>3 DEF EvaluateCandidate
    <2> QED
      BY <1>1, <1>2, <1>3, <2>1, LeaveWork DEF Working, registryVars
  <1>4. CASE pc' = "runCandidate"
    <2> DEFINE x == candidate[2]
    <2>1. evaluations' = [evaluations EXCEPT ![x] = @ + 1]
      BY <1>4 DEF EvaluateCandidate
    <2>2. /\ candidate \in Registrable /\ files[candidate] = ArtifactFiles
          /\ parent[candidate] = base /\ x \in ValidContents /\ evaluations[x] = 0
          /\ x \in Contents
      BY <1>1 DEF LoopInv, CallInv, TabuInv, Evaluating, Registrable
    <2>3. /\ evaluations'[x] = 1
          /\ \A c \in Contents \ {x} : evaluations'[c] = evaluations[c]
      BY <2>1, <2>2 DEF TypeInv, TypeOK
    <2>4. HasContent(x)
      BY <2>2 DEF HasContent, ArtifactFiles
    <2>5. \A c \in Contents : HasContent(c)' = HasContent(c)
      BY <1>1 DEF HasContent, registryVars
    <2>6. TabuInv'
      BY <1>4, <2>2, <2>3, <2>4, <2>5 DEF LoopInv, TabuInv
    <2>7. HeadInv'
      <3>1. Complete(head)' = Complete(head) /\ Current' = Current
        BY <1>1 DEF Complete, Current, registryVars
      <3> QED
        BY <1>1, <1>4, <3>1 DEF LoopInv, HeadInv, Working, registryVars
    <2>8. CallInv' /\ RoundInv'
      BY <1>1, <1>2, <1>4, <2>2 DEF CallInv, RoundInv, Evaluating, registryVars
    <2> QED
      BY <2>6, <2>7, <2>8 DEF LoopInv
  <1> QED
    BY <1>3, <1>4 DEF EvaluateCandidate, StartSandbox, AbortLoop

\* The steps between the first evaluation and the gate touch neither the disk
\* nor the records; what is left to show is the round.
LEMMA StepRound ==
    ASSUME TypeInv, LoopInv,
           UNCHANGED <<registryVars, gated, executed, evaluations>>,
           UNCHANGED <<base, candidate>>,
           pc \in {"runCandidate", "evalIncumbent", "runIncumbent"},
           pc' \in {"evalIncumbent", "runIncumbent", "gate"},
           RoundInv'
    PROVE  LoopInv'
  <1>1. CallInv'
    BY DEF LoopInv, CallInv, Evaluating, registryVars
  <1>2. HeadInv'
    <2>1. Complete(head)' = Complete(head) /\ Current' = Current
      BY DEF Complete, Current, registryVars
    <2> QED
      BY <2>1 DEF LoopInv, HeadInv, Working, registryVars
  <1>3. TabuInv'
    BY StayAtWork DEF TabuInv
  <1> QED
    BY <1>1, <1>2, <1>3 DEF LoopInv

\* The incumbent is evaluated as HEAD, never as a candidate.
LEMMA StepEvaluateIncumbent ==
    ASSUME TypeInv, LoopInv, EvaluateIncumbent PROVE LoopInv'
  <1>1. UNCHANGED <<registryVars, gated, executed, evaluations>>
        /\ pc = "evalIncumbent" /\ UNCHANGED <<base, candidate, measured>>
    BY DEF EvaluateIncumbent, StartSandbox, AbortLoop, loopVars
  <1>2. CASE pc' = "done"
    <2>1. call' = Idle
      BY <1>1 DEF LoopInv, CallInv, registryVars
    <2> QED
      BY <1>1, <1>2, <2>1, LeaveWork DEF Working, registryVars
  <1>3. CASE pc' = "runIncumbent"
    <2>1. RoundInv'
      BY <1>1, <1>3 DEF LoopInv, RoundInv
    <2> QED
      BY <1>1, <1>3, <2>1, StepRound
  <1> QED
    BY <1>2, <1>3 DEF EvaluateIncumbent, StartSandbox, AbortLoop

\* A result moves the round on and leaves the disk alone.
LEMMA StepSandboxResult ==
    ASSUME TypeInv, LoopInv, CandidateResult \/ IncumbentResult PROVE LoopInv'
  <1>1. UNCHANGED <<registryVars, gated, executed, evaluations>>
        /\ pc \in {"runCandidate", "runIncumbent"}
    BY DEF CandidateResult, IncumbentResult, SandboxResult, history
  <1>2. CASE EndGeneration
    <2>1. call' = Idle
      BY <1>1 DEF LoopInv, CallInv, registryVars
    <2> QED
      BY <1>1, <1>2, <2>1, LeaveWork DEF EndGeneration, Working, registryVars
  <1>3. CASE ~EndGeneration
    <2>1. /\ UNCHANGED <<base, candidate>>
          /\ \/ /\ pc = "runCandidate" /\ pc' = "evalIncumbent"
                /\ measured' = measured \cup {candidate}
             \/ /\ pc = "runIncumbent" /\ pc' = "gate"
                /\ measured' = measured \cup {base}
      BY <1>3 DEF CandidateResult, IncumbentResult, SandboxResult
    <2>2. RoundInv'
      BY <2>1 DEF LoopInv, RoundInv
    <2> QED
      BY <1>1, <2>1, <2>2, StepRound
  <1> QED
    BY <1>2, <1>3

\* The gate accepts the complete candidate of this round, before HEAD is written.
LEMMA StepGateAccepts ==
    ASSUME TypeInv, LoopInv, GateAccepts PROVE LoopInv'
  <1>1. /\ pc = "gate" /\ pc' = "promoting" /\ head' = Torn
        /\ call' = [op |-> "HEAD", version |-> candidate, parent |-> Genesis]
        /\ gated' = gated \cup {candidate}
        /\ UNCHANGED <<files, parent, base, candidate, measured, executed, evaluations>>
    BY DEF GateAccepts, Promote, OpenHead, loopVars
  <1>2. base \in Versions /\ base = Current
    BY <1>1 DEF TypeInv, Working, LoopInv, HeadInv
  <1>3. base \in gated \cup {Genesis}
    <2>1. base # Torn
      BY <1>2, AssumptionsHold DEF Assumptions, RegistryAssumption
    <2> QED
      BY <1>2, <2>1, CurrentGated DEF TypeInv, TypeOK, LoopInv
  <1>4. Torn \notin Versions
    BY AssumptionsHold DEF Assumptions, RegistryAssumption
  <1>5. HeadInv'
    BY <1>1, <1>3, <1>4 DEF LoopInv, HeadInv
  <1>6. TabuInv'
    BY <1>1 DEF LoopInv, TabuInv, HasContent
  <1> QED
    BY <1>1, <1>5, <1>6 DEF LoopInv, CallInv, RoundInv, Evaluating

\* HEAD gets the name of an accepted and complete version.
LEMMA StepFinishPromotion ==
    ASSUME TypeInv, LoopInv, FinishPromotion PROVE LoopInv'
  <1>1. /\ pc = "promoting" /\ pc' = "top" /\ head' = candidate /\ call' = Idle
        /\ UNCHANGED <<files, parent, gated, executed, evaluations>>
    BY DEF FinishPromotion, WriteHead, EndGeneration, LoopInv, CallInv, history
  <1>2. candidate \in gated /\ files[candidate] = ArtifactFiles
    BY <1>1 DEF LoopInv, HeadInv, CallInv, Evaluating
  <1>3. HeadInv'
    BY <1>1, <1>2 DEF LoopInv, HeadInv, Complete, Working
  <1>4. TabuInv'
    BY <1>1 DEF LoopInv, TabuInv, HasContent
  <1> QED
    BY <1>1, <1>3, <1>4 DEF LoopInv, CallInv, RoundInv, Evaluating

\* Every step of the loop keeps the invariant.
LEMMA StepLoop == TypeInv /\ LoopInv /\ [Next]_vars => LoopInv'
  <1> SUFFICES ASSUME TypeInv, LoopInv, [Next]_vars PROVE LoopInv'
    OBVIOUS
  <1>0. pc \notin {"registering", "promoting"} => call = Idle
    BY DEF LoopInv, CallInv
  <1>1. CASE MakeGenesis \/ WriteGenesis
    <2>1. \A v \in Registrable : files'[v] = files[v]
      BY <1>1, AssumptionsHold
      DEF MakeGenesis, WriteGenesis, Write, Assumptions, RegistryAssumption, Versions,
          TypeInv, TypeOK, RegistryTypeOK
    <2> QED
      BY <1>0, <1>1, <2>1, LeaveWork DEF MakeGenesis, WriteGenesis, Working, history
  <1>2. CASE SkipGenesis \/ FinishLoop \/ LoadFails \/ ProposeRaises
    BY <1>0, <1>2, LeaveWork
    DEF SkipGenesis, FinishLoop, LoadFails, ProposeRaises, CanPropose, Working, registryVars, history
  <1>3. CASE StartGeneration
    BY <1>3, StepStartGeneration
  <1>4. CASE TrainingBatch
    BY <1>4, StepTrainingBatch
  <1>5. CASE NoMoreAttempts \/ SandboxDenied \/ GateRejects
    BY <1>0, <1>5, LeaveWork
    DEF NoMoreAttempts, SandboxDenied, GateRejects, EndGeneration, Working,
        registryVars, history
  <1>6. CASE ProposeNothing \/ ProposeFlagged
    <2>1. UNCHANGED <<registryVars, gated, executed, evaluations>> /\ pc = "propose"
      BY <1>6 DEF ProposeNothing, ProposeFlagged, PaidCall, CanPropose
    <2>2. pc' \notin Working
      BY <1>6 DEF ProposeNothing, ProposeFlagged, AbortLoop, EndGeneration, Working
    <2> QED
      BY <1>0, <2>1, <2>2, LeaveWork DEF registryVars
  <1>7. CASE ProposePatch
    BY <1>7, StepProposePatch
  <1>8. CASE BeginRegister
    BY <1>8, StepBeginRegister
  <1>9. CASE WriteCandidate
    BY <1>9, StepWriteCandidate
  <1>10. CASE EvaluateCandidate
    BY <1>10, StepEvaluateCandidate
  <1>11. CASE EvaluateIncumbent
    BY <1>11, StepEvaluateIncumbent
  <1>12. CASE CandidateResult \/ IncumbentResult
    BY <1>12, StepSandboxResult
  <1>13. CASE GateAccepts
    BY <1>13, StepGateAccepts
  <1>14. CASE FinishPromotion
    BY <1>14, StepFinishPromotion
  <1>15. CASE Crash
    BY <1>15, LeaveWork DEF Crash, Abandon, Working, history
  <1>16. CASE Restart
    BY <1>0, <1>16, LeaveWork DEF Restart, Working, Stopped, registryVars
  <1>17. CASE UNCHANGED vars
    <2>1. \A c : HasContent(c)' = HasContent(c)
      BY <1>17 DEF vars, registryVars, HasContent
    <2> QED
      BY <1>17, <2>1
      DEF vars, registryVars, loopVars, history, LoopInv, CallInv, HeadInv,
          TabuInv, RoundInv, Complete, Current
  <1> QED
    BY <1>1, <1>2, <1>3, <1>4, <1>5, <1>6, <1>7, <1>8, <1>9, <1>10, <1>11,
       <1>12, <1>13, <1>14, <1>15, <1>16, <1>17
    DEF Next, LoopStep

\* So the loop invariant holds in every run.
LEMMA LoopInvariant == Spec => []LoopInv
  BY InitTypeInv, StepTypeInv, InitLoop, StepLoop, PTL DEF Spec

\* However often the program dies and is run again, a HEAD that can be read
\* names a complete artifact.
THEOREM HeadIsComplete == Spec => []HeadComplete
  <1>1. LoopInv => HeadComplete
    BY DEF LoopInv, HeadInv, HeadComplete
  <1> QED
    BY <1>1, LoopInvariant, PTL

\* The orchestrator process runs no evolved code the gate has not accepted.
THEOREM ExecutedCodeIsGated == Spec => []OnlyGatedCodeExecuted
  <1>1. LoopInv => OnlyGatedCodeExecuted
    BY DEF LoopInv, HeadInv, OnlyGatedCodeExecuted
  <1> QED
    BY <1>1, LoopInvariant, PTL

\* No content is a candidate twice, the content of genesis never, over all
\* generations and all runs of the program.
THEOREM ContentsAreEvaluatedOnce == Spec => []NoContentReevaluated
  <1>1. TypeInv /\ LoopInv => NoContentReevaluated
    BY AssumptionsHold
    DEF TypeInv, TypeOK, LoopInv, TabuInv, NoContentReevaluated, Assumptions,
        OrchestratorAssumption
  <1> QED
    BY <1>1, TypeInvariant, LoopInvariant, PTL

-----------------------------------------------------------------------------
(* The loop implements Evolution: what happens to HEAD, from the invariants  *)
(* above.                                                                  *)

EvolveVars == <<versionInForce, registered, measured>>

-----------------------------------------------------------------------------
(* What a step does to the three things Evolution sees                     *)

\* A directory counts as registered when it gets its lineage file.
LEMMA SameRegistered ==
    ASSUME \A v \in Versions :
              "lineage.json" \in files'[v] <=> "lineage.json" \in files[v],
           UNCHANGED parent
    PROVE  UNCHANGED registered
  BY DEF registered

\* Outside promote(), HEAD is what the file says.
LEMMA SameHead ==
    ASSUME pc # "promoting", pc' # "promoting", UNCHANGED head
    PROVE  UNCHANGED versionInForce
  BY DEF versionInForce, Current

\* A step that leaves the disk alone and keeps the round, or clears it, is a
\* stutter or the beginning of a new round.
LEMMA QuietStep ==
    ASSUME UNCHANGED <<head, files, parent>>,
           pc # "promoting", pc' # "promoting",
           measured' = measured \/ measured' = {}
    PROVE  [Evolve!ENext]_EvolveVars
  <1>1. UNCHANGED registered
    BY SameRegistered
  <1>2. UNCHANGED versionInForce
    BY SameHead
  <1>3. CASE measured' = measured
    BY <1>1, <1>2, <1>3 DEF EvolveVars
  <1>4. CASE measured' = {}
    BY <1>1, <1>2, <1>4 DEF Evolve!ENext, Evolve!ENewRound
  <1> QED
    BY <1>3, <1>4

\* Making genesis is invisible to the abstract evolution.
LEMMA GenesisStep ==
    ASSUME TypeInv, MakeGenesis \/ WriteGenesis
    PROVE  [Evolve!ENext]_EvolveVars
  <1>1. /\ UNCHANGED <<head, parent, measured>>
        /\ pc # "promoting" /\ pc' # "promoting"
    BY DEF MakeGenesis, WriteGenesis, loopVars
  <1>2. PICK name \in {"dir", "spec.json"} : Write(Genesis, name)
    BY DEF MakeGenesis, WriteGenesis
  <1>3. \A v \in Versions :
           "lineage.json" \in files'[v] <=> "lineage.json" \in files[v]
    BY <1>2 DEF Write, TypeInv, TypeOK, RegistryTypeOK
  <1> QED
    BY <1>1, <1>3, SameRegistered, SameHead DEF EvolveVars

\* The last file of an artifact registers it; the writes before it stutter.
LEMMA RegisterStep ==
    ASSUME TypeInv, LoopInv, BeginRegister \/ WriteCandidate
    PROVE  [Evolve!ENext]_EvolveVars
  <1>1. /\ UNCHANGED <<head, measured>> /\ pc # "promoting" /\ pc' # "promoting"
        /\ files \in [Versions -> SUBSET ArtifactFiles]
        /\ parent \in [Versions -> Versions]
        /\ candidate \in Versions
    BY DEF BeginRegister, WriteCandidate, Register, WriteSpec, WriteSource,
           WriteLineage, loopVars, TypeInv, TypeOK, RegistryTypeOK
  <1>2. UNCHANGED versionInForce
    BY <1>1, SameHead
  <1>3. CASE BeginRegister
    <2>1. \A v \in Versions :
             "lineage.json" \in files'[v] <=> "lineage.json" \in files[v]
      BY <1>1, <1>3 DEF BeginRegister, Register, Write
    <2>2. UNCHANGED parent
      BY <1>3 DEF BeginRegister, Register
    <2> QED
      BY <1>1, <1>2, <2>1, <2>2, SameRegistered DEF EvolveVars
  <1>4. CASE WriteSpec \/ WriteSource
    <2>1. \A v \in Versions :
             "lineage.json" \in files'[v] <=> "lineage.json" \in files[v]
      BY <1>1, <1>4 DEF WriteSpec, WriteSource, Write
    <2>2. UNCHANGED parent
      BY <1>4 DEF WriteSpec, WriteSource
    <2> QED
      BY <1>1, <1>2, <2>1, <2>2, SameRegistered DEF EvolveVars
  <1>5. CASE WriteCandidate /\ WriteLineage
    <2>1. /\ pc = "registering" /\ call.op = "lineage.json"
          /\ call.version = candidate /\ call.parent = base
          /\ "lineage.json" \notin files[candidate]
          /\ base = Current /\ base \in Versions
      BY <1>5 DEF WriteCandidate, WriteLineage, LoopInv, CallInv, HeadInv, Working, TypeInv
    <2>2. /\ files' = [files EXCEPT ![candidate] = @ \cup {"lineage.json"}]
          /\ parent' = [parent EXCEPT ![candidate] = base]
      BY <1>5, <2>1 DEF WriteLineage, Write
    <2>3. /\ "lineage.json" \in files'[candidate] /\ parent'[candidate] = base
          /\ \A v \in Versions \ {candidate} :
                files'[v] = files[v] /\ parent'[v] = parent[v]
      BY <1>1, <2>2
    <2>4. registered' = registered \cup {<<candidate, base>>}
      BY <1>1, <2>1, <2>3 DEF registered
    <2>5. candidate \notin {edge[1] : edge \in registered}
      BY <2>1 DEF registered
    <2>6. versionInForce = base /\ versionInForce # Torn
      BY <2>1, AssumptionsHold DEF versionInForce, Assumptions, RegistryAssumption
    <2>7. Evolve!ERegister(candidate)
      BY <1>1, <1>2, <2>4, <2>5, <2>6 DEF Evolve!ERegister
    <2> QED
      BY <1>1, <2>7 DEF Evolve!ENext
  <1> QED
    BY <1>3, <1>4, <1>5 DEF WriteCandidate

\* Both results measure the abstract round, or leave it open.
LEMMA ResultStep ==
    ASSUME TypeInv, LoopInv, CandidateResult \/ IncumbentResult
    PROVE  [Evolve!ENext]_EvolveVars
  <1>1. /\ UNCHANGED <<head, files, parent>>
        /\ pc \in {"runCandidate", "runIncumbent"}
        /\ pc' \in {"top", "evalIncumbent", "gate"}
    BY DEF CandidateResult, IncumbentResult, SandboxResult, EndGeneration, registryVars
  <1>2. CASE EndGeneration
    BY <1>1, <1>2, QuietStep DEF EndGeneration
  <1>3. CASE ~EndGeneration
    <2>1. UNCHANGED registered /\ UNCHANGED versionInForce
      BY <1>1, SameRegistered, SameHead
    <2>2. base \in Versions /\ base = versionInForce
      BY <1>1 DEF TypeInv, Working, LoopInv, HeadInv, versionInForce
    <2>3. PICK v \in {candidate, base} : measured' = measured \cup {v}
      BY <1>3 DEF CandidateResult, IncumbentResult, SandboxResult
    <2>4. <<candidate, base>> \in registered /\ candidate \in Versions
      BY <1>1 DEF registered, LoopInv, CallInv, Evaluating, ArtifactFiles, TypeInv, TypeOK
    <2>5. v \in Versions /\ Evolve!EMeasure(v)
      BY <2>1, <2>2, <2>3, <2>4 DEF Evolve!EMeasure
    <2> QED
      BY <2>5 DEF Evolve!ENext
  <1> QED
    BY <1>2, <1>3

\* The write of HEAD is the abstract promotion.
LEMMA PromotionStep ==
    ASSUME TypeInv, LoopInv, GateAccepts \/ FinishPromotion
    PROVE  [Evolve!ENext]_EvolveVars
  <1>1. UNCHANGED <<files, parent>>
    BY DEF GateAccepts, FinishPromotion, Promote, OpenHead, WriteHead
  <1>2. UNCHANGED registered
    BY <1>1, SameRegistered
  <1>3. CASE GateAccepts
    <2>1. versionInForce' = base /\ versionInForce = base /\ measured' = measured
      BY <1>3 DEF GateAccepts, loopVars, versionInForce, LoopInv, HeadInv, Working
    <2> QED
      BY <1>2, <2>1 DEF EvolveVars
  <1>4. CASE FinishPromotion
    <2>1. /\ pc = "promoting" /\ pc' = "top" /\ head' = candidate /\ measured' = {}
          /\ candidate \in Versions
      BY <1>4 DEF FinishPromotion, WriteHead, EndGeneration, LoopInv, CallInv,
                  TypeInv, TypeOK
    <2>2. candidate # NoHead
      BY <2>1, AssumptionsHold DEF Assumptions, RegistryAssumption
    <2>3. versionInForce = base /\ versionInForce' = candidate
      BY <2>1, <2>2 DEF versionInForce, Current
    <2>4. <<candidate, base>> \in registered /\ {candidate, base} \subseteq measured
      BY <2>1 DEF registered, LoopInv, CallInv, RoundInv, Evaluating, ArtifactFiles
    <2>5. Evolve!EPromote(candidate)
      BY <1>2, <2>1, <2>3, <2>4 DEF Evolve!EPromote
    <2> QED
      BY <2>1, <2>5 DEF Evolve!ENext
  <1> QED
    BY <1>3, <1>4

\* A crash ends the abstract round, and may lose HEAD in the middle of its write.
LEMMA CrashStep ==
    ASSUME TypeInv, LoopInv, Crash
    PROVE  [Evolve!ENext]_EvolveVars
  <1>1. UNCHANGED <<head, files, parent>> /\ pc' = "down" /\ measured' = {}
    BY DEF Crash, Abandon, Forget
  <1>2. CASE pc = "promoting"
    <2>1. head = Torn
      BY <1>2 DEF LoopInv, CallInv
    <2>2. versionInForce' = Torn
      BY <1>1, <2>1, AssumptionsHold
      DEF versionInForce, Current, Assumptions, RegistryAssumption
    <2>3. UNCHANGED registered
      BY <1>1, SameRegistered
    <2> QED
      BY <1>1, <2>2, <2>3 DEF Evolve!ENext, Evolve!ELose
  <1>3. CASE pc # "promoting"
    BY <1>1, <1>3, QuietStep
  <1> QED
    BY <1>2, <1>3

-----------------------------------------------------------------------------
(* The refinement                                                          *)

\* The loop starts as the abstract evolution does.
LEMMA InitEvolution == Init => Evolve!EInit
  <1> SUFFICES ASSUME Init PROVE Evolve!EInit
    OBVIOUS
  <1>1. versionInForce = Genesis
    BY DEF Init, RegistryInit, versionInForce, Current
  <1>2. registered = {}
    BY DEF Init, RegistryInit, registered
  <1> QED
    BY <1>1, <1>2 DEF Init, Evolve!EInit

\* Every step of the loop is a step of the abstract evolution or a stutter.
LEMMA StepEvolution ==
    ASSUME TypeInv, LoopInv, [Next]_vars
    PROVE  [Evolve!ENext]_EvolveVars
  <1>1. CASE MakeGenesis \/ WriteGenesis
    BY <1>1, GenesisStep
  <1>2. CASE \/ SkipGenesis \/ StartGeneration \/ FinishLoop \/ TrainingBatch \/ LoadFails
             \/ ProposeRaises
    BY <1>2, QuietStep
    DEF SkipGenesis, StartGeneration, FinishLoop, TrainingBatch, LoadFails, ProposeRaises,
        CanPropose, Forget, registryVars, loopVars
  <1>3. CASE NoMoreAttempts \/ SandboxDenied \/ GateRejects
    BY <1>3, QuietStep
    DEF NoMoreAttempts, SandboxDenied, GateRejects, EndGeneration, registryVars
  <1>4. CASE ProposeNothing \/ ProposeFlagged
    BY <1>4, QuietStep
    DEF ProposeNothing, ProposeFlagged, PaidCall, CanPropose, AbortLoop,
        EndGeneration, registryVars, loopVars
  <1>5. CASE ProposePatch
    BY <1>5, QuietStep
    DEF ProposePatch, PaidCall, CanPropose, AbortLoop, registryVars, loopVars
  <1>6. CASE BeginRegister \/ WriteCandidate
    BY <1>6, RegisterStep
  <1>7. CASE EvaluateCandidate \/ EvaluateIncumbent
    BY <1>7, QuietStep
    DEF EvaluateCandidate, EvaluateIncumbent, StartSandbox, AbortLoop,
        registryVars, loopVars
  <1>8. CASE CandidateResult \/ IncumbentResult
    BY <1>8, ResultStep
  <1>9. CASE GateAccepts \/ FinishPromotion
    BY <1>9, PromotionStep
  <1>10. CASE Crash
    BY <1>10, CrashStep
  <1>11. CASE Restart
    BY <1>11, QuietStep DEF Restart, Forget, Stopped, registryVars
  <1>12. CASE UNCHANGED vars
    BY <1>12 DEF vars, registryVars, loopVars, versionInForce, Current, registered,
                 EvolveVars
  <1> QED
    BY <1>1, <1>2, <1>3, <1>4, <1>5, <1>6, <1>7, <1>8, <1>9, <1>10, <1>11, <1>12
    DEF Next, LoopStep

\* In every run and over every restart HEAD moves only to its own child that
\* was measured together with it in one generation, or is lost in a crash of
\* promote().
THEOREM LoopImplementsEvolution == Spec => EvolutionSpec
  <1>1. TypeInv /\ LoopInv /\ [Next]_vars => [Evolve!ENext]_EvolveVars
    BY StepEvolution
  <1> QED
    BY <1>1, InitEvolution, TypeInvariant, LoopInvariant, PTL
    DEF Spec, EvolutionSpec, Evolve!ESpec, EvolveVars

-----------------------------------------------------------------------------
(* Immutable artifacts                                                     *)

ArtifactsKept ==
    \A v \in Versions :
        /\ files[v] \subseteq files'[v]
        /\ files[v] = ArtifactFiles => parent'[v] = parent[v]

\* No step changes the files of a complete version.
LEMMA StepImmutable ==
    ASSUME TypeInv, LoopInv, [Next]_vars
    PROVE  [ArtifactsKept]_registryVars
  <1>0. files \in [Versions -> SUBSET ArtifactFiles] /\ parent \in [Versions -> Versions]
    BY DEF TypeInv, TypeOK, RegistryTypeOK
  <1>1. CASE UNCHANGED <<files, parent>>
    BY <1>1 DEF ArtifactsKept
  <1>2. CASE UNCHANGED parent /\ \E v, name : Write(v, name)
    BY <1>0, <1>2 DEF ArtifactsKept, Write
  <1>3. CASE WriteCandidate /\ WriteLineage
    <2>1. call.version = candidate /\ files[candidate] # ArtifactFiles
      BY <1>3 DEF WriteCandidate, WriteLineage, LoopInv, CallInv, ArtifactFiles
    <2> QED
      BY <1>0, <1>3, <2>1 DEF WriteLineage, Write, ArtifactsKept
  <1>4. CASE MakeGenesis \/ WriteGenesis \/ BeginRegister
    BY <1>2, <1>4 DEF MakeGenesis, WriteGenesis, BeginRegister, Register
  <1>5. CASE WriteCandidate
    BY <1>2, <1>3, <1>5 DEF WriteCandidate, WriteSpec, WriteSource
  <1>6. CASE GateAccepts \/ FinishPromotion \/ Crash
    BY <1>1, <1>6 DEF GateAccepts, FinishPromotion, Crash, Promote, OpenHead,
                      WriteHead, Abandon
  <1>7. CASE SkipGenesis \/ StartGeneration \/ FinishLoop \/ TrainingBatch \/ LoadFails
             \/ NoMoreAttempts \/ ProposeRaises \/ SandboxDenied \/ GateRejects \/ Restart
    BY <1>7 DEF SkipGenesis, StartGeneration, FinishLoop, TrainingBatch, LoadFails,
                NoMoreAttempts, ProposeRaises, SandboxDenied, GateRejects, Restart
  <1>8. CASE ProposeNothing \/ ProposeFlagged \/ ProposePatch
    BY <1>8 DEF ProposeNothing, ProposeFlagged, ProposePatch, PaidCall
  <1>9. CASE EvaluateCandidate \/ EvaluateIncumbent \/ CandidateResult \/ IncumbentResult
    BY <1>9 DEF EvaluateCandidate, EvaluateIncumbent, StartSandbox, CandidateResult,
                IncumbentResult, SandboxResult
  <1>10. CASE UNCHANGED vars
    BY <1>10 DEF vars
  <1> QED
    BY <1>4, <1>5, <1>6, <1>7, <1>8, <1>9, <1>10 DEF Next, LoopStep

\* A complete version keeps its files and its parent for ever.
THEOREM ArtifactsAreImmutable == Spec => ArtifactsImmutable
  <1>1. TypeInv /\ LoopInv /\ [Next]_vars => [ArtifactsKept]_registryVars
    BY StepImmutable
  <1> QED
    BY <1>1, TypeInvariant, LoopInvariant, PTL DEF Spec, ArtifactsImmutable, ArtifactsKept
=============================================================================
