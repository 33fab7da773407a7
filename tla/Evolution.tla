------------------------------ MODULE Evolution ------------------------------
(***************************************************************************)
(* What the loop promises (orchestrator.py:3-14), without budget, files or *)
(* processes: HEAD moves only to a registered child of HEAD that was       *)
(* measured in the same round as HEAD itself, or it stays.  The one thing  *)
(* it may do besides is get lost: a HEAD that is not replaced atomically   *)
(* can be left naming nothing, and then nothing moves it again.            *)
(***************************************************************************)
CONSTANTS Versions, Genesis, Lost

VARIABLES
    head,       \* the version in force, or Lost
    children,   \* <<version, parent>> of every registered version
    round       \* the versions measured in the current round

EInit ==
    /\ head = Genesis
    /\ children = {}
    /\ round = {}

\* A version has one parent for ever: the head it was derived from.
ERegister(v) ==
    /\ v \notin {edge[1] : edge \in children}
    /\ head # Lost
    /\ children' = children \cup {<<v, head>>}
    /\ UNCHANGED <<head, round>>

EMeasure(v) ==
    /\ v = head \/ <<v, head>> \in children
    /\ round' = round \cup {v}
    /\ UNCHANGED <<head, children>>

ENewRound ==
    /\ round' = {}
    /\ UNCHANGED <<head, children>>

EPromote(v) ==
    /\ <<v, head>> \in children
    /\ {v, head} \subseteq round
    /\ head' = v
    /\ round' = {}
    /\ UNCHANGED children

ELose ==
    /\ head' = Lost
    /\ round' = {}
    /\ UNCHANGED children

ENext ==
    \/ \E v \in Versions : ERegister(v) \/ EMeasure(v) \/ EPromote(v)
    \/ ENewRound
    \/ ELose

ESpec == EInit /\ [][ENext]_<<head, children, round>>
=============================================================================
