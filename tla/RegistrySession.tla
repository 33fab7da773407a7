--------------------------- MODULE RegistrySession ---------------------------
(***************************************************************************)
(* The whole interface of the registry under any caller that keeps to its  *)
(* documented use: register what is not tabu with HEAD as the parent,      *)
(* promote what register() returned, roll HEAD back, die anywhere.         *)
(* The loop is one such caller; it never calls rollback().                 *)
(***************************************************************************)
EXTENDS Registry

\* A content is what a digest tells apart, and a digest is twelve hexadecimal
\* digits: there are finitely many.
ASSUME SessionAssumption == IsFiniteSet(Contents)

VARIABLE returned   \* versions register() returned to the running caller

sessionVars == <<registryVars, returned>>

SessionInit ==
    /\ head = NoHead
    /\ files = [v \in Versions |-> IF v = Genesis THEN {"dir", "spec.json"} ELSE {}]
    /\ parent = [v \in Versions |-> Genesis]
    /\ call = Idle
    /\ returned = {}

CallRegister(g, c) ==
    /\ ~HasContent(c)
    /\ Current \in Versions
    /\ Register(<<g, c>>, Current)
    /\ UNCHANGED returned

ContinueRegister ==
    \/ (WriteSpec \/ WriteSource) /\ UNCHANGED returned
    \/ WriteLineage /\ returned' = returned \cup {call.version}

CallPromote(v) ==
    /\ v \in returned
    /\ Promote(v)
    /\ UNCHANGED returned

CallRollback == Rollback /\ UNCHANGED returned

FinishHead == WriteHead /\ UNCHANGED returned

CallerDies == Abandon /\ returned' = {}

SessionNext ==
    \/ \E g \in 0 .. Generations - 1, c \in Contents : CallRegister(g, c)
    \/ ContinueRegister
    \/ \E v \in returned : CallPromote(v)
    \/ CallRollback
    \/ FinishHead
    \/ CallerDies

SessionSpec == SessionInit /\ [][SessionNext]_sessionVars
=============================================================================
