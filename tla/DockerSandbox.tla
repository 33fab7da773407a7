---------------------------- MODULE DockerSandbox ----------------------------
(***************************************************************************)
(* LocalDockerSandbox.evaluate (sandbox/local_docker.py), called again and *)
(* again: one `docker run' under a timeout per call.  The command is a     *)
(* client of the docker daemon; the container belongs to the daemon, and   *)
(* killing the client with SIGKILL, which is what the timeout of           *)
(* subprocess.run does, does not stop it.  So a container may outlive its  *)
(* call and still be there during the next ones.                           *)
(***************************************************************************)
EXTENDS Integers

CONSTANT NumEvals   \* bound: evaluations of one orchestrator process

ASSUME DockerAssumption == NumEvals \in Nat \ {0}

Evals == 1 .. NumEvals

VARIABLES
    pc,          \* where evaluate() is
    now,         \* the executing evaluation
    client,      \* its docker command
    container,   \* the container of each evaluation and how it ended
    file,        \* scores.json in the results directory of each evaluation;
                 \* junk is anything but JSON, as before a write is complete
    output,      \* whether what each container printed is decodable text
    result       \* what each evaluation answered

containerVars == <<container, file, output>>
vars == <<pc, now, client, containerVars, result>>

\* why is the violation of a discarded result, or what raised; scores is the
\* evaluation whose container wrote them, 0 for none.
Result(answer, why, scores) == [answer |-> answer, why |-> why, scores |-> scores]

NoResult == Result("none", "", 0)
Raised(why) == Result("raised", why, 0)

\* Mutant: the result does not say why.
DiscardedUnexplained(why) == Result("discarded", "", 0)
Discarded(why) == Result("discarded", why, 0)

TypeOK ==
    /\ pc \in {"run", "wait", "harvest", "ended", "raised"}
    /\ now \in Evals
    /\ client \in {"none", "running", "exited", "killed"}
    /\ container \in [Evals -> {"none", "running", "passed", "failed"}]
    /\ file \in [Evals -> {"none", "junk", "scores"}]
    /\ output \in [Evals -> {"text", "bytes"}]
    /\ result \in [Evals ->
                      [answer : {"none", "completed", "discarded", "raised"},
                       why : {"", "wall_clock_exceeded", "exit_code",
                              "infrastructure", "unreadable"},
                       scores : 0 .. NumEvals]]
    /\ \A e \in Evals :
          (result[e].answer \in {"discarded", "raised"}) <=> (result[e].why # "")

Init ==
    /\ pc = "run"
    /\ now = 1
    /\ client = "none"
    /\ container = [e \in Evals |-> "none"]
    /\ file = [e \in Evals |-> "none"]
    /\ output = [e \in Evals |-> "text"]
    /\ result = [e \in Evals |-> NoResult]

-----------------------------------------------------------------------------
(* A container: it runs the evaluation pipeline, and mutated code.         *)

\* The daemon may carry out the client's request after the client is killed.
ContainerStarts(e) ==
    /\ \/ e = now /\ client = "running"
       \/ result[e].why = "wall_clock_exceeded"
    /\ container[e] = "none"
    /\ container' = [container EXCEPT ![e] = "running"]
    /\ UNCHANGED <<pc, now, client, file, output, result>>

\* pipeline.main writes its scores; mutated code can write to the volume too.
ContainerWrites(e) ==
    /\ container[e] = "running"
    /\ \E f \in {"junk", "scores"} : file' = [file EXCEPT ![e] = f]
    /\ UNCHANGED <<pc, now, client, container, output, result>>

ContainerPrintsBytes(e) ==
    /\ container[e] = "running"
    /\ output[e] = "text"
    /\ output' = [output EXCEPT ![e] = "bytes"]
    /\ UNCHANGED <<pc, now, client, container, file, result>>

\* Status 0 is the end of the pipeline or an exit of mutated code, which leaves
\* any file or none behind; a crash or a quota gives another status.
ContainerEnds(e) ==
    /\ container[e] = "running"
    /\ \E end \in {"passed", "failed"} : container' = [container EXCEPT ![e] = end]
    /\ UNCHANGED <<pc, now, client, file, output, result>>

-----------------------------------------------------------------------------
(* evaluate()                                                              *)

\* An exception ends the orchestrator; a result may be followed by a next call.
Answer(r) ==
    /\ result' = [result EXCEPT ![now] = r]
    /\ pc' = IF r.answer = "raised" THEN "raised" ELSE "ended"

\* subprocess.run: there may be no docker to run.
Run ==
    /\ pc = "run"
    /\ \/ pc' = "wait" /\ client' = "running" /\ UNCHANGED result
       \/ Answer(Raised("infrastructure")) /\ UNCHANGED client
    /\ UNCHANGED <<now, containerVars>>

\* The client ends with the container's status, or with one of its own when
\* there is no container.
ClientExits ==
    /\ pc = "wait"
    /\ container[now] \in {"passed", "failed", "none"}
    /\ client' = "exited"
    /\ pc' = "harvest"
    /\ UNCHANGED <<now, containerVars, result>>

\* Mutant: the client is waited for without a limit.
TimedOutNever == FALSE /\ UNCHANGED vars

TimedOut ==
    /\ pc = "wait"
    /\ client' = "killed"
    /\ Answer(Discarded("wall_clock_exceeded"))
    /\ UNCHANGED <<now, containerVars>>

\* Mutant: all evaluations share one results directory.
ResultsOfShared(e) == IF \E d \in 1 .. e : file[d] # "none"
                      THEN CHOOSE d \in 1 .. e : file[d] # "none"
                      ELSE e

\* The directory mkdtemp made for this call is mounted as /results.
ResultsOf(e) == e

StatusOK(e) == container[e] = "passed" /\ file[ResultsOf(e)] # "none"

\* Output that is not text raises before the status is looked at, and a scores
\* file that is not JSON raises after it.
Harvest ==
    /\ pc = "harvest"
    /\ Answer(IF output[now] = "bytes" THEN Raised("unreadable")
              ELSE IF ~StatusOK(now) THEN Discarded("exit_code")
              ELSE IF file[ResultsOf(now)] = "junk" THEN Raised("unreadable")
              ELSE Result("completed", "", ResultsOf(now)))
    /\ UNCHANGED <<now, client, containerVars>>

NextCall ==
    /\ pc = "ended"
    /\ now < NumEvals
    /\ now' = now + 1
    /\ pc' = "run"
    /\ client' = "none"
    /\ UNCHANGED <<containerVars, result>>

CallStep == Run \/ ClientExits \/ TimedOut \/ Harvest

Next ==
    \/ CallStep
    \/ NextCall
    \/ \E e \in Evals : \/ ContainerStarts(e) \/ ContainerWrites(e)
                        \/ ContainerPrintsBytes(e) \/ ContainerEnds(e)

Spec == Init /\ [][Next]_vars

\* The client exits, or is killed when the wall clock limit is reached.
FairSpec == Spec /\ WF_vars(CallStep)

-----------------------------------------------------------------------------
(* Properties                                                              *)

Contract == INSTANCE Sandbox WITH
    answer     <- [e \in Evals |-> result[e].answer],
    evaluator  <- container,
    unreadable <- [e \in Evals |-> output[e] = "bytes" \/ file[e] = "junk"],
    broken     <- [e \in Evals |-> result[e].why = "infrastructure"],
    scores     <- [e \in Evals |-> result[e].scores]

\* Whatever the containers of earlier calls are still doing, every call has one
\* answer, completed only for a container that passed and with no scores but its
\* own; and a candidate that hangs, crashes, is killed or exits early is a
\* result: the only exceptions are a docker that cannot be run and a container
\* whose output or scores file cannot be read, the case where the code departs
\* from sandbox/base.py:6-8.
KeepsContract == Contract!CSpec

\* Whatever the containers do, hanging for ever included, every call ends.
EvaluateEnds == pc = "run" ~> pc \in {"ended", "raised"}
=============================================================================
