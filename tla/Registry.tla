------------------------------ MODULE Registry ------------------------------
(***************************************************************************)
(* HarnessRegistry (core/registry.py): a directory of harness versions and *)
(* a HEAD file.  register() and promote() are several file system writes;  *)
(* each write is a step here, so that a process can die between two of     *)
(* them.  `call' is the registry method that is executing.                 *)
(*                                                                         *)
(* A version g{generation}-{digest} is the pair <<generation, content>>;   *)
(* a content is what the digest of spec.json and harness.py tells apart.   *)
(* files[v] holds the names written completely in the directory of v, with *)
(* "dir" for the directory itself.                                         *)
(***************************************************************************)
EXTENDS Integers, FiniteSets

CONSTANTS
    Generations,   \* loop.generations: register() is called for 0..Generations-1
    Contents,      \* the contents a patch can have
    Genesis,       \* the version "genesis", which has no digest in its name
    NoHead,        \* there is no HEAD file
    Torn           \* HEAD is an empty file: opened for writing, not yet written

Registrable == (0 .. Generations - 1) \X Contents
Versions == Registrable \cup {Genesis}
ArtifactFiles == {"dir", "spec.json", "harness.py", "lineage.json"}

ASSUME RegistryAssumption ==
    /\ Generations \in Nat
    /\ Genesis \notin Registrable
    /\ Versions \cap {NoHead, Torn} = {}
    /\ NoHead # Torn

VARIABLES
    head,     \* the HEAD file
    files,    \* the artifact directories
    parent,   \* parent_version in lineage.json, Genesis until it is written
    call      \* the next write of the executing method, its version and parent

registryVars == <<head, files, parent, call>>

Idle == [op |-> "idle", version |-> Genesis, parent |-> Genesis]

RegistryTypeOK ==
    /\ head \in Versions \cup {NoHead, Torn}
    /\ files \in [Versions -> SUBSET ArtifactFiles]
    /\ parent \in [Versions -> Versions]
    /\ call \in [op : {"idle", "spec.json", "harness.py", "lineage.json", "HEAD"},
                 version : Versions, parent : Versions]

RegistryInit ==
    /\ head = NoHead
    /\ files = [v \in Versions |-> {}]
    /\ parent = [v \in Versions |-> Genesis]
    /\ call = Idle

-----------------------------------------------------------------------------

\* The name HEAD gives; Torn is the empty name, which names no directory.
Current == IF head = NoHead THEN Genesis ELSE head

\* Mutants: only HEAD is tabu; nothing is.
HasContentOfHead(c) == Current \in Registrable /\ Current[2] = c
HasContentNever(c) == FALSE

HasContent(c) == \E v \in Registrable : v[2] = c /\ files[v] # {}

Complete(v) == v = Genesis \/ files[v] = ArtifactFiles

Write(v, name) == files' = [files EXCEPT ![v] = @ \cup {name}]

\* register(): the directory first, then the files in the order of the code.
Register(v, p) ==
    /\ call = Idle
    /\ Write(v, "dir")
    /\ call' = [op |-> "spec.json", version |-> v, parent |-> p]
    /\ UNCHANGED <<head, parent>>

WriteSpec ==
    /\ call.op = "spec.json"
    /\ Write(call.version, "spec.json")
    /\ call' = [call EXCEPT !.op = "harness.py"]
    /\ UNCHANGED <<head, parent>>

WriteSource ==
    /\ call.op = "harness.py"
    /\ Write(call.version, "harness.py")
    /\ call' = [call EXCEPT !.op = "lineage.json"]
    /\ UNCHANGED <<head, parent>>

\* Mutants: the lineage file is never written; a version is its own parent.
WriteLineageLost ==
    /\ call.op = "lineage.json"
    /\ call' = Idle
    /\ UNCHANGED <<head, files, parent>>
WriteLineageOfItself ==
    /\ call.op = "lineage.json"
    /\ Write(call.version, "lineage.json")
    /\ parent' = [parent EXCEPT ![call.version] = call.version]
    /\ call' = Idle
    /\ UNCHANGED head

WriteLineage ==
    /\ call.op = "lineage.json"
    /\ Write(call.version, "lineage.json")
    /\ parent' = [parent EXCEPT ![call.version] = call.parent]
    /\ call' = Idle
    /\ UNCHANGED head

\* write_text opens HEAD, which empties it, and then writes it.
OpenHead(v) ==
    /\ call = Idle
    /\ head' = Torn
    /\ call' = [op |-> "HEAD", version |-> v, parent |-> Genesis]
    /\ UNCHANGED <<files, parent>>

Promote(v) == files[v] # {} /\ OpenHead(v)

Rollback ==
    /\ Current \in Versions
    /\ "lineage.json" \in files[Current]
    /\ OpenHead(parent[Current])

WriteHead ==
    /\ call.op = "HEAD"
    /\ head' = call.version
    /\ call' = Idle
    /\ UNCHANGED <<files, parent>>

\* The process dies: what is on disk stays as it is.
Abandon ==
    /\ call' = Idle
    /\ UNCHANGED <<head, files, parent>>

-----------------------------------------------------------------------------
(* What every caller of the registry relies on                             *)

\* A HEAD that can be read names genesis or a version whose directory is
\* complete: a process that dies while it registers or promotes never leaves
\* HEAD on a half-written artifact.
HeadComplete == head \in Versions => Complete(head)

\* The n-th ancestor of HEAD by the parent_version of the lineage files.
Ancestor[n \in Nat] == IF n = 0 THEN head ELSE parent[Ancestor[n - 1]]

\* "Lineage links each version to what produced it": from a HEAD that can be
\* read, the parents lead through complete versions to genesis in as many
\* steps as there are versions, so no cycle and no dangling parent is reached.
LineageRooted ==
    head \in Versions =>
        \E n \in 0 .. Cardinality(Versions) :
            /\ Ancestor[n] = Genesis
            /\ \A m \in 0 .. n : Complete(Ancestor[m])

\* "Every harness version is immutable once registered": no later call, in
\* this process or a later one, changes the files or the lineage of a complete
\* version, and no directory ever loses a file.
ArtifactsImmutable ==
    [][\A v \in Versions :
          /\ files[v] \subseteq files'[v]
          /\ files[v] = ArtifactFiles => parent'[v] = parent[v]]_registryVars
=============================================================================
