--------------------------- MODULE RegistryProofs ---------------------------
(***************************************************************************)
(* The lineage of the registry, for every number of generations and of     *)
(* contents, every order of calls and every crash: from HEAD the parents   *)
(* lead to genesis through complete artifacts.                             *)
(***************************************************************************)
EXTENDS RegistrySession, DataInduction

CompleteVersions == {v \in Versions : Complete(v)}

\* Every complete version but genesis has a complete parent one rank below its
\* own: the parents form no cycle, and no chain is longer than the versions
\* are many.
Ranking(rank) ==
    /\ rank \in [CompleteVersions -> Nat]
    /\ rank[Genesis] = 0
    /\ \A v \in CompleteVersions : rank[v] < Cardinality(CompleteVersions)
    /\ \A v \in CompleteVersions \ {Genesis} :
          /\ parent[v] \in CompleteVersions
          /\ rank[v] = rank[parent[v]] + 1

Writing == {"spec.json", "harness.py", "lineage.json"}

\* A call that registers a version has written no lineage file for it yet, and
\* its parent is complete; one that writes HEAD is about a complete version.
CallSound ==
    /\ call.op \in Writing =>
          /\ call.version \in Registrable
          /\ "lineage.json" \notin files[call.version]
          /\ Complete(call.parent)
    /\ call.op = "harness.py" => {"dir", "spec.json"} \subseteq files[call.version]
    /\ call.op = "lineage.json" =>
          {"dir", "spec.json", "harness.py"} \subseteq files[call.version]
    /\ call.op = "spec.json" => "dir" \in files[call.version]
    /\ call.op = "HEAD" => Complete(call.version)

\* The invariant of the lineage.
LineageInv ==
    /\ RegistryTypeOK
    /\ returned \subseteq CompleteVersions
    /\ HeadComplete
    /\ CallSound
    /\ \A v \in Versions : "lineage.json" \in files[v] => Complete(v)
    /\ parent[Genesis] = Genesis
    /\ \E rank : Ranking(rank)

-----------------------------------------------------------------------------

\* There are finitely many versions, so a chain of them has a bound.
LEMMA VersionsFinite == IsFiniteSet(Versions)
  <1>1. IsFiniteSet(0 .. Generations - 1)
    BY FS_Interval, RegistryAssumption DEF RegistryAssumption
  <1>2. IsFiniteSet(Registrable)
    BY <1>1, FS_Product, SessionAssumption DEF Registrable, SessionAssumption
  <1> QED
    BY <1>2, FS_AddElement DEF Versions

\* Complete versions are versions, genesis among them.
LEMMA CompleteAreVersions ==
    /\ CompleteVersions \subseteq Versions
    /\ Genesis \in CompleteVersions
    /\ IsFiniteSet(CompleteVersions)
    /\ Cardinality(CompleteVersions) \in Nat
    /\ Cardinality(CompleteVersions) <= Cardinality(Versions)
    /\ Cardinality(CompleteVersions) > 0
  <1>1. CompleteVersions \subseteq Versions /\ Genesis \in CompleteVersions
    BY DEF CompleteVersions, Complete, Versions
  <1>2. IsFiniteSet(CompleteVersions)
    BY <1>1, VersionsFinite, FS_Subset
  <1>3. Cardinality(CompleteVersions) \in Nat
    BY <1>2, FS_CardinalityType
  <1>4. Cardinality(CompleteVersions) # 0
    BY <1>1, <1>2, FS_EmptySet
  <1>5. Cardinality(CompleteVersions) <= Cardinality(Versions)
    BY <1>1, VersionsFinite, FS_Subset
  <1> QED
    BY <1>1, <1>2, <1>3, <1>4, <1>5

\* A step that completes no version and rewrites no lineage keeps the ranking.
LEMMA RankingKept ==
    ASSUME \E rank : Ranking(rank),
           CompleteVersions' = CompleteVersions, UNCHANGED parent
    PROVE  \E rank : Ranking(rank)'
  <1>1. PICK rank : Ranking(rank)
    OBVIOUS
  <1>2. Ranking(rank)'
    BY <1>1 DEF Ranking
  <1> QED
    BY <1>2

\* The version that a registration completes gets the rank above its parent's,
\* which the bound on ranks leaves room for.
LEMMA RankingExtended ==
    ASSUME \E rank : Ranking(rank), RegistryTypeOK,
           NEW v \in Versions \ CompleteVersions, NEW p \in CompleteVersions,
           CompleteVersions' = CompleteVersions \cup {v},
           parent' = [parent EXCEPT ![v] = p]
    PROVE  \E rank : Ranking(rank)'
  <1>1. PICK rank : Ranking(rank)
    OBVIOUS
  <1> DEFINE C == CompleteVersions
             D == C \cup {v}
             new == [w \in D |-> IF w = v THEN rank[p] + 1 ELSE rank[w]]
  <1>2. Cardinality(D) = Cardinality(C) + 1 /\ Cardinality(C) \in Nat
    BY CompleteAreVersions, FS_AddElement
  <1>3. v # Genesis /\ Genesis \in C /\ v \notin C
    BY CompleteAreVersions
  <1>4. rank \in [C -> Nat] /\ rank[p] < Cardinality(C)
    BY <1>1 DEF Ranking
  <1>5. new \in [D -> Nat] /\ new[Genesis] = 0
    BY <1>1, <1>3, <1>4 DEF Ranking
  <1>6. ASSUME NEW w \in D PROVE new[w] < Cardinality(D)
    <2>1. CASE w = v
      BY <1>2, <1>4, <2>1
    <2>2. CASE w \in C
      <3>1. rank[w] \in Nat /\ rank[w] < Cardinality(C) /\ new[w] = rank[w]
        BY <1>1, <1>3, <2>2 DEF Ranking
      <3> QED
        BY <1>2, <3>1
    <2> QED
      BY <2>1, <2>2
  <1>7. ASSUME NEW w \in D \ {Genesis}
        PROVE  parent'[w] \in D /\ new[w] = new[parent'[w]] + 1
    <2>1. CASE w = v
      <3>1. parent'[w] = p
        BY <2>1 DEF RegistryTypeOK
      <3> QED
        BY <1>3, <2>1, <3>1
    <2>2. CASE w # v
      <3>1. parent'[w] = parent[w] /\ w \in C \ {Genesis}
        BY <2>2, CompleteAreVersions DEF RegistryTypeOK
      <3>2. parent[w] \in C /\ rank[w] = rank[parent[w]] + 1
        BY <1>1, <3>1 DEF Ranking
      <3> QED
        BY <1>3, <2>2, <3>1, <3>2
    <2> QED
      BY <2>1, <2>2
  <1>8. PICK next : next = new
    OBVIOUS
  <1>9. Ranking(next)'
    <2> HIDE DEF new
    <2> QED
      BY <1>5, <1>6, <1>7, <1>8 DEF Ranking
  <1> QED
    BY <1>9

\* HEAD names a version, or the parents of nothing are asked for.
LEMMA CurrentComplete ==
    ASSUME HeadComplete, Current \in Versions
    PROVE  Current \in CompleteVersions
  BY CompleteAreVersions, RegistryAssumption
     DEF HeadComplete, Current, CompleteVersions, RegistryAssumption

\* What is written of a version that is not complete completes no other.
LEMMA OtherVersionsKept ==
    ASSUME RegistryTypeOK, NEW v \in Versions, NEW name \in ArtifactFiles, Write(v, name)
    PROVE  /\ \A w \in Versions \ {v} : files'[w] = files[w]
           /\ files'[v] = files[v] \cup {name}
           /\ files' \in [Versions -> SUBSET ArtifactFiles]
           /\ CompleteVersions \subseteq CompleteVersions'
           /\ CompleteVersions' \subseteq CompleteVersions \cup {v}
  <1>1. /\ \A w \in Versions \ {v} : files'[w] = files[w]
        /\ files'[v] = files[v] \cup {name}
        /\ files' \in [Versions -> SUBSET ArtifactFiles]
    BY DEF RegistryTypeOK, Write
  <1> QED
    BY <1>1 DEF CompleteVersions, Complete, RegistryTypeOK

-----------------------------------------------------------------------------
(* The invariant is inductive                                              *)

\* At the start genesis alone is complete, and has rank 0.
LEMMA LineageStarts == SessionInit => LineageInv
  <1> SUFFICES ASSUME SessionInit PROVE LineageInv
    OBVIOUS
  <1>1. RegistryTypeOK
    BY RegistryAssumption
       DEF SessionInit, RegistryTypeOK, Idle, Versions, ArtifactFiles
  <1>2. CompleteVersions = {Genesis}
    BY RegistryAssumption
       DEF SessionInit, CompleteVersions, Complete, Versions, ArtifactFiles
  <1>3. \E rank : Ranking(rank)
    <2>1. PICK rank : rank = [v \in CompleteVersions |-> 0]
      OBVIOUS
    <2>2. Ranking(rank)
      BY <1>2, <2>1, CompleteAreVersions DEF Ranking
    <2> QED
      BY <2>2
  <1>4. HeadComplete /\ CallSound /\ returned \subseteq CompleteVersions
    BY RegistryAssumption
       DEF SessionInit, HeadComplete, CallSound, Idle, Writing, RegistryAssumption
  <1>5. /\ \A v \in Versions : "lineage.json" \in files[v] => Complete(v)
        /\ parent[Genesis] = Genesis
    BY DEF SessionInit, Versions
  <1> QED
    BY <1>1, <1>3, <1>4, <1>5 DEF LineageInv

\* A write that is not the lineage file completes no version.
LEMMA EarlyWrite ==
    ASSUME LineageInv, NEW v \in Registrable, NEW name \in ArtifactFiles \ {"lineage.json"},
           "lineage.json" \notin files[v], Write(v, name),
           UNCHANGED <<head, parent, returned>>
    PROVE  /\ CompleteVersions' = CompleteVersions
           /\ files' \in [Versions -> SUBSET ArtifactFiles]
           /\ files'[v] = files[v] \cup {name}
           /\ HeadComplete'
           /\ (returned \subseteq CompleteVersions)'
           /\ (\A w \in Versions : "lineage.json" \in files[w] => Complete(w))'
           /\ \E rank : Ranking(rank)'
  <1>1. RegistryTypeOK /\ v \in Versions /\ v # Genesis
    BY RegistryAssumption DEF LineageInv, Versions, RegistryAssumption
  <1>2. /\ \A w \in Versions \ {v} : files'[w] = files[w]
        /\ files'[v] = files[v] \cup {name}
        /\ files' \in [Versions -> SUBSET ArtifactFiles]
        /\ CompleteVersions \subseteq CompleteVersions'
        /\ CompleteVersions' \subseteq CompleteVersions \cup {v}
    BY <1>1, OtherVersionsKept
  <1>3. "lineage.json" \notin files'[v]
    BY <1>2
  <1>4. CompleteVersions' = CompleteVersions
    BY <1>1, <1>2, <1>3 DEF CompleteVersions, Complete, ArtifactFiles
  <1>5. \E rank : Ranking(rank)'
    BY <1>4, RankingKept DEF LineageInv
  <1>6. \A w \in Versions : Complete(w)' <=> Complete(w)
    BY <1>4 DEF CompleteVersions
  <1>7. (\A w \in Versions : "lineage.json" \in files[w] => Complete(w))'
    BY <1>2, <1>3, <1>6 DEF LineageInv
  <1>8. HeadComplete' /\ (returned \subseteq CompleteVersions)'
    BY <1>4, <1>6 DEF HeadComplete, LineageInv
  <1> QED
    BY <1>2, <1>4, <1>5, <1>7, <1>8

\* register() writes a directory that is new, for its content is not tabu.
LEMMA RegisterKeepsLineage ==
    ASSUME LineageInv, NEW g \in 0 .. Generations - 1, NEW c \in Contents, CallRegister(g, c)
    PROVE  LineageInv'
  <1> DEFINE v == <<g, c>>
  <1>1. v \in Registrable /\ v \in Versions /\ files[v] = {}
    BY DEF CallRegister, HasContent, Registrable, Versions
  <1>2. /\ Write(v, "dir")
        /\ call' = [op |-> "spec.json", version |-> v, parent |-> Current]
        /\ UNCHANGED <<head, parent, returned>>
        /\ Current \in Versions
    BY DEF CallRegister, Register
  <1>3. Current \in CompleteVersions
    BY <1>2, CurrentComplete DEF LineageInv
  <1> HIDE DEF v
  <1>4. "dir" \in ArtifactFiles \ {"lineage.json"} /\ "lineage.json" \notin files[v]
    BY <1>1 DEF ArtifactFiles
  <1>5. /\ CompleteVersions' = CompleteVersions
        /\ files' \in [Versions -> SUBSET ArtifactFiles]
        /\ files'[v] = files[v] \cup {"dir"}
        /\ HeadComplete'
        /\ (returned \subseteq CompleteVersions)'
        /\ (\A w \in Versions : "lineage.json" \in files[w] => Complete(w))'
        /\ \E rank : Ranking(rank)'
    BY <1>1, <1>2, <1>4, EarlyWrite
  <1>6. RegistryTypeOK'
    BY <1>1, <1>2, <1>5 DEF RegistryTypeOK, LineageInv
  <1>7. Complete(Current)'
    BY <1>2, <1>3, <1>5 DEF CompleteVersions, Current
  <1>8. CallSound'
    <2>1. /\ call'.op = "spec.json"
          /\ call'.version = v
          /\ call'.parent = Current'
      BY <1>2 DEF Current
    <2> QED
      BY <1>1, <1>5, <1>7, <2>1 DEF CallSound, Complete
  <1> QED
    BY <1>2, <1>5, <1>6, <1>8 DEF LineageInv

\* spec.json and harness.py follow, and complete nothing either.
LEMMA ContentKeepsLineage ==
    ASSUME LineageInv, WriteSpec \/ WriteSource, UNCHANGED returned
    PROVE  LineageInv'
  <1> DEFINE v == call.version
             name == IF call.op = "spec.json" THEN "spec.json" ELSE "harness.py"
  <1>1. /\ Write(v, name)
        /\ UNCHANGED <<head, parent, returned>>
        /\ \/ call.op = "spec.json" /\ call' = [call EXCEPT !.op = "harness.py"]
           \/ call.op = "harness.py" /\ call' = [call EXCEPT !.op = "lineage.json"]
    BY DEF WriteSpec, WriteSource
  <1>2. /\ v \in Registrable
        /\ "lineage.json" \notin files[v]
        /\ call.parent \in CompleteVersions
        /\ "dir" \in files[v]
        /\ call.op = "harness.py" => {"dir", "spec.json"} \subseteq files[v]
    <2>1. CallSound /\ RegistryTypeOK
      BY DEF LineageInv
    <2> QED
      BY <1>1, <2>1 DEF CallSound, Writing, RegistryTypeOK, CompleteVersions
  <1>3. name \in ArtifactFiles \ {"lineage.json"}
    BY DEF ArtifactFiles
  <1>4. /\ call'.version = v
        /\ call'.parent = call.parent
        /\ call' \in [op : {"idle", "spec.json", "harness.py", "lineage.json", "HEAD"},
                      version : Versions, parent : Versions]
        /\ \/ call.op = "spec.json" /\ name = "spec.json" /\ call'.op = "harness.py"
           \/ call.op = "harness.py" /\ name = "harness.py" /\ call'.op = "lineage.json"
    BY <1>1 DEF LineageInv, RegistryTypeOK
  <1> HIDE DEF v, name
  <1>5. /\ CompleteVersions' = CompleteVersions
        /\ files' \in [Versions -> SUBSET ArtifactFiles]
        /\ files'[v] = files[v] \cup {name}
        /\ HeadComplete'
        /\ (returned \subseteq CompleteVersions)'
        /\ (\A w \in Versions : "lineage.json" \in files[w] => Complete(w))'
        /\ \E rank : Ranking(rank)'
    BY <1>1, <1>2, <1>3, EarlyWrite
  <1>6. RegistryTypeOK'
    BY <1>1, <1>4, <1>5 DEF RegistryTypeOK, LineageInv
  <1>7. CallSound'
    <2>1. Complete(call.parent)'
      BY <1>2, <1>4, <1>5 DEF CompleteVersions
    <2>2. "lineage.json" \notin files'[v]
      BY <1>2, <1>3, <1>5
    <2> QED
      BY <1>2, <1>4, <1>5, <2>1, <2>2 DEF CallSound, Writing
  <1> QED
    BY <1>1, <1>5, <1>6, <1>7 DEF LineageInv

\* lineage.json completes the version and links it to its complete parent.
LEMMA LinkKeepsLineage ==
    ASSUME LineageInv, WriteLineage, returned' = returned \cup {call.version}
    PROVE  LineageInv'
  <1> DEFINE v == call.version
  <1>1. /\ Write(v, "lineage.json")
        /\ parent' = [parent EXCEPT ![v] = call.parent]
        /\ call' = Idle
        /\ head' = head
        /\ call.op = "lineage.json"
    BY DEF WriteLineage
  <1>2. /\ v \in Registrable
        /\ "lineage.json" \notin files[v]
        /\ call.parent \in CompleteVersions
        /\ {"dir", "spec.json", "harness.py"} \subseteq files[v]
    <2>1. CallSound /\ RegistryTypeOK
      BY DEF LineageInv
    <2> QED
      BY <1>1, <2>1 DEF CallSound, Writing, RegistryTypeOK, CompleteVersions
  <1>3. RegistryTypeOK /\ v \in Versions /\ v # Genesis
    BY <1>2, RegistryAssumption DEF LineageInv, Versions, RegistryAssumption
  <1> HIDE DEF v
  <1>4. /\ \A w \in Versions \ {v} : files'[w] = files[w]
        /\ files'[v] = files[v] \cup {"lineage.json"}
        /\ files' \in [Versions -> SUBSET ArtifactFiles]
        /\ CompleteVersions \subseteq CompleteVersions'
        /\ CompleteVersions' \subseteq CompleteVersions \cup {v}
    BY <1>1, <1>3, OtherVersionsKept DEF ArtifactFiles
  <1>5. v \notin CompleteVersions
    BY <1>2, <1>3 DEF CompleteVersions, Complete, ArtifactFiles
  <1>6. files'[v] = ArtifactFiles
    BY <1>2, <1>3, <1>4 DEF ArtifactFiles
  <1>7. CompleteVersions' = CompleteVersions \cup {v}
    BY <1>3, <1>4, <1>6 DEF CompleteVersions, Complete
  <1>8. \E rank : Ranking(rank)'
    BY <1>1, <1>2, <1>3, <1>5, <1>7, RankingExtended DEF LineageInv
  <1>9. RegistryTypeOK'
    BY <1>1, <1>2, <1>3, <1>4
       DEF RegistryTypeOK, Idle, Versions, CompleteVersions
  <1>10. \A w \in Versions : Complete(w) => Complete(w)'
    BY <1>7 DEF CompleteVersions
  <1>11. HeadComplete' /\ (returned \subseteq CompleteVersions)'
    BY <1>1, <1>7, <1>10 DEF HeadComplete, LineageInv, v
  <1>12. (\A w \in Versions : "lineage.json" \in files[w] => Complete(w))'
    BY <1>4, <1>6, <1>10 DEF LineageInv, Complete
  <1>13. CallSound' /\ parent'[Genesis] = Genesis
    BY <1>1, <1>3 DEF CallSound, Idle, Writing, LineageInv, RegistryTypeOK, Versions
  <1> QED
    BY <1>8, <1>9, <1>11, <1>12, <1>13 DEF LineageInv

\* HEAD is only opened for a complete version.
LEMMA OpenKeepsLineage ==
    ASSUME LineageInv, NEW v \in CompleteVersions, OpenHead(v), UNCHANGED returned
    PROVE  LineageInv'
  <1>1. /\ head' = Torn
        /\ call' = [op |-> "HEAD", version |-> v, parent |-> Genesis]
        /\ UNCHANGED <<files, parent, returned>>
    BY DEF OpenHead
  <1>2. CompleteVersions' = CompleteVersions /\ v \in Versions /\ Genesis \in Versions
    BY <1>1 DEF CompleteVersions, Complete, Versions
  <1>3. RegistryTypeOK'
    BY <1>1, <1>2 DEF RegistryTypeOK, LineageInv
  <1>4. HeadComplete'
    BY <1>1, RegistryAssumption DEF HeadComplete, RegistryAssumption
  <1>5. CallSound'
    BY <1>1, <1>2 DEF CallSound, Writing, CompleteVersions
  <1>6. \E rank : Ranking(rank)'
    BY <1>1, <1>2, RankingKept DEF LineageInv
  <1>7. (\A w \in Versions : "lineage.json" \in files[w] => Complete(w))'
    BY <1>1 DEF LineageInv, Complete
  <1> QED
    BY <1>1, <1>2, <1>3, <1>4, <1>5, <1>6, <1>7 DEF LineageInv

\* promote() is for a version register() returned; rollback() goes to the
\* parent of HEAD, which is complete as HEAD is.
LEMMA HeadCallsKeepLineage ==
    ASSUME LineageInv, CallRollback \/ \E v \in returned : CallPromote(v)
    PROVE  LineageInv'
  <1>1. CASE \E v \in returned : CallPromote(v)
    <2>1. PICK v \in returned : CallPromote(v)
      BY <1>1
    <2>2. v \in CompleteVersions /\ OpenHead(v) /\ UNCHANGED returned
      BY <2>1 DEF CallPromote, Promote, LineageInv
    <2> QED
      BY <2>2, OpenKeepsLineage
  <1>2. CASE CallRollback
    <2>1. Current \in Versions /\ OpenHead(parent[Current]) /\ UNCHANGED returned
      BY <1>2 DEF CallRollback, Rollback
    <2>2. Current \in CompleteVersions
      BY <2>1, CurrentComplete DEF LineageInv
    <2>3. parent[Current] \in CompleteVersions
      <3>1. CASE Current = Genesis
        BY <3>1, CompleteAreVersions DEF LineageInv
      <3>2. CASE Current # Genesis
        BY <2>2, <3>2 DEF LineageInv, Ranking
      <3> QED
        BY <3>1, <3>2
    <2> QED
      BY <2>1, <2>3, OpenKeepsLineage
  <1> QED
    BY <1>1, <1>2

\* A step keeps the invariant, whoever takes it; dying changes nothing on disk.
LEMMA StepKeepsLineage == LineageInv /\ [SessionNext]_sessionVars => LineageInv'
  <1> SUFFICES ASSUME LineageInv, [SessionNext]_sessionVars PROVE LineageInv'
    OBVIOUS
  <1>1. CASE \E g \in 0 .. Generations - 1, c \in Contents : CallRegister(g, c)
    BY <1>1, RegisterKeepsLineage
  <1>2. CASE ContinueRegister
    BY <1>2, ContentKeepsLineage, LinkKeepsLineage DEF ContinueRegister
  <1>3. CASE CallRollback \/ \E v \in returned : CallPromote(v)
    BY <1>3, HeadCallsKeepLineage
  <1>4. ASSUME UNCHANGED <<files, parent>>
        PROVE  /\ CompleteVersions' = CompleteVersions
               /\ \A v \in Versions : Complete(v)' <=> Complete(v)
               /\ (\A v \in Versions : "lineage.json" \in files[v] => Complete(v))'
               /\ parent'[Genesis] = Genesis
               /\ \E rank : Ranking(rank)'
    <2>1. CompleteVersions' = CompleteVersions
      BY <1>4 DEF CompleteVersions, Complete
    <2>2. \E rank : Ranking(rank)'
      BY <1>4, <2>1, RankingKept DEF LineageInv
    <2> QED
      BY <1>4, <2>1, <2>2 DEF Complete, LineageInv
  <1>5. CASE FinishHead
    <2>1. /\ head' = call.version
          /\ call' = Idle
          /\ UNCHANGED <<files, parent, returned>>
          /\ call.op = "HEAD"
      BY <1>5 DEF FinishHead, WriteHead
    <2>2. call.version \in Versions /\ Complete(call.version)
      BY <2>1 DEF LineageInv, RegistryTypeOK, CallSound
    <2>3. RegistryTypeOK' /\ CallSound'
      BY <2>1, <2>2 DEF LineageInv, RegistryTypeOK, CallSound, Idle, Writing, Versions
    <2>4. HeadComplete'
      BY <1>4, <2>1, <2>2 DEF HeadComplete
    <2> QED
      BY <1>4, <2>1, <2>3, <2>4 DEF LineageInv
  <1>6. CASE CallerDies \/ UNCHANGED sessionVars
    <2>1. /\ call' = Idle \/ call' = call
          /\ returned' = {} \/ returned' = returned
          /\ UNCHANGED <<head, files, parent>>
      BY <1>6 DEF CallerDies, Abandon, sessionVars, registryVars
    <2>2. RegistryTypeOK'
      BY <2>1 DEF LineageInv, RegistryTypeOK, Idle, Versions
    <2>3. CallSound'
      BY <2>1 DEF LineageInv, CallSound, Idle, Writing, Complete
    <2>4. HeadComplete' /\ (returned \subseteq CompleteVersions)'
      BY <1>4, <2>1 DEF HeadComplete, LineageInv
    <2> QED
      BY <1>4, <2>1, <2>2, <2>3, <2>4 DEF LineageInv
  <1> QED
    BY <1>1, <1>2, <1>3, <1>5, <1>6 DEF SessionNext

\* The invariant holds for ever.
THEOREM LineageInvariant == SessionSpec => []LineageInv
  BY LineageStarts, StepKeepsLineage, PTL DEF SessionSpec

-----------------------------------------------------------------------------
(* From the ranking to the ancestors of HEAD                               *)

\* The recursion that defines the ancestors has a solution, so that they
\* obey it.
LEMMA AncestorSteps ==
    ASSUME RegistryTypeOK, head \in Versions
    PROVE  Ancestor[0] = head /\ \A n \in Nat : Ancestor[n + 1] = parent[Ancestor[n]]
  <1> DEFINE Equation(f) ==
               f = [n \in Nat |-> IF n = 0 THEN head ELSE parent[f[n - 1]]]
  <1>1. Ancestor = CHOOSE f : Equation(f)
    BY DEF Ancestor
  <1>2. \E f : Equation(f)
    <2>1. PICK g : g = [s \in Nat \X Versions |-> parent[s[2]]]
      OBVIOUS
    <2>2. g \in [Nat \X Versions -> Versions]
      BY <2>1 DEF RegistryTypeOK
    <2>3. \E f \in [Nat -> Versions] : Follows(f, head, g)
      BY <2>2, NatRecursion
    <2>4. PICK f \in [Nat -> Versions] : Follows(f, head, g)
      BY <2>3
    <2>5. ASSUME NEW n \in Nat
          PROVE  f[n] = IF n = 0 THEN head ELSE parent[f[n - 1]]
      <3>1. CASE n = 0
        BY <2>4, <3>1 DEF Follows
      <3>2. CASE n # 0
        <4>1. n - 1 \in Nat /\ (n - 1) + 1 = n
          BY <3>2
        <4>2. f[n] = g[<<n, f[n - 1]>>] /\ f[n - 1] \in Versions
          BY <2>4, <4>1 DEF Follows
        <4>3. <<n, f[n - 1]>> \in Nat \X Versions
          BY <4>2
        <4>4. g[<<n, f[n - 1]>>] = parent[f[n - 1]]
          BY <2>1, <4>3
        <4> QED
          BY <3>2, <4>2, <4>4
      <3> QED
        BY <3>1, <3>2
    <2>6. Equation(f)
      BY <2>4, <2>5
    <2> QED
      BY <2>6
  <1>3. Equation(Ancestor)
    BY <1>1, <1>2
  <1>4. ASSUME NEW n \in Nat PROVE Ancestor[n + 1] = parent[Ancestor[n]]
    <2>1. n + 1 \in Nat /\ n + 1 # 0 /\ (n + 1) - 1 = n
      OBVIOUS
    <2> QED
      BY <1>3, <2>1
  <1> QED
    BY <1>3, <1>4

\* Each ancestor of HEAD is complete and one rank below the one before it,
\* down to rank 0, which only genesis has.
LEMMA RankingRootsHead == LineageInv => LineageRooted
  <1> SUFFICES ASSUME LineageInv, head \in Versions
               PROVE  \E n \in 0 .. Cardinality(Versions) :
                         /\ Ancestor[n] = Genesis
                         /\ \A m \in 0 .. n : Complete(Ancestor[m])
    BY DEF LineageRooted
  <1>1. PICK rank : Ranking(rank)
    BY DEF LineageInv
  <1>2. head \in CompleteVersions
    BY DEF LineageInv, HeadComplete, CompleteVersions
  <1>3. Ancestor[0] = head /\ \A n \in Nat : Ancestor[n + 1] = parent[Ancestor[n]]
    BY AncestorSteps DEF LineageInv
  <1> DEFINE r == rank[head]
             P == {n \in Nat : n <= r => /\ Ancestor[n] \in CompleteVersions
                                         /\ rank[Ancestor[n]] = r - n}
  <1>4. r \in Nat /\ r < Cardinality(CompleteVersions)
    BY <1>1, <1>2 DEF Ranking
  <1>5. 0 \in P
    BY <1>2, <1>3, <1>4
  <1>6. ASSUME NEW n \in Nat, n \in P PROVE n + 1 \in P
    <2> SUFFICES ASSUME n + 1 <= r
                 PROVE  /\ Ancestor[n + 1] \in CompleteVersions
                        /\ rank[Ancestor[n + 1]] = r - (n + 1)
      OBVIOUS
    <2>1. Ancestor[n] \in CompleteVersions /\ rank[Ancestor[n]] = r - n
      BY <1>4, <1>6
    <2>2. Ancestor[n] # Genesis
      BY <1>1, <1>4, <2>1 DEF Ranking
    <2>3. /\ parent[Ancestor[n]] \in CompleteVersions
          /\ rank[Ancestor[n]] = rank[parent[Ancestor[n]]] + 1
          /\ rank[parent[Ancestor[n]]] \in Nat
      BY <1>1, <2>1, <2>2 DEF Ranking
    <2> QED
      BY <1>3, <1>4, <2>1, <2>3
  <1>7. \A n \in Nat : n \in P
    <2> HIDE DEF P
    <2> QED
      BY <1>5, <1>6, NatSetInduction
  <1>8. Ancestor[r] \in CompleteVersions /\ rank[Ancestor[r]] = 0
    BY <1>4, <1>7
  <1>9. Ancestor[r] = Genesis
    <2> SUFFICES ASSUME Ancestor[r] # Genesis PROVE FALSE
      OBVIOUS
    <2>1. /\ rank[Ancestor[r]] = rank[parent[Ancestor[r]]] + 1
          /\ rank[parent[Ancestor[r]]] \in Nat
      BY <1>1, <1>8 DEF Ranking
    <2> QED
      BY <1>8, <2>1
  <1>10. \A m \in 0 .. r : Complete(Ancestor[m])
    BY <1>4, <1>7 DEF CompleteVersions
  <1>11. r \in 0 .. Cardinality(Versions)
    <2>1. Cardinality(Versions) \in Nat
      BY VersionsFinite, FS_CardinalityType
    <2> QED
      BY <1>4, <2>1, CompleteAreVersions
  <1> QED
    BY <1>9, <1>10, <1>11

\* From a HEAD that can be read, the parents lead through complete versions to
\* genesis, after any calls of register, promote and rollback and any crashes.
THEOREM LineageIsRooted == SessionSpec => []LineageRooted
  BY LineageInvariant, RankingRootsHead, PTL

-----------------------------------------------------------------------------
(* Immutability                                                            *)

\* Only the lineage file writes a lineage, and the version it is for is not
\* complete; every other write adds a file.
LEMMA StepKeepsArtifacts ==
    ASSUME LineageInv, [SessionNext]_sessionVars
    PROVE  \A v \in Versions : /\ files[v] \subseteq files'[v]
                               /\ files[v] = ArtifactFiles => parent'[v] = parent[v]
  <1> TAKE v \in Versions
  <1>1. ASSUME NEW w, NEW name, Write(w, name) PROVE files[v] \subseteq files'[v]
    BY <1>1 DEF Write, LineageInv, RegistryTypeOK
  <1>2. CASE \E g \in 0 .. Generations - 1, c \in Contents : CallRegister(g, c)
    BY <1>1, <1>2 DEF CallRegister, Register
  <1>3. CASE ContinueRegister
    <2>1. CASE WriteSpec \/ WriteSource
      BY <1>1, <2>1 DEF WriteSpec, WriteSource
    <2>2. CASE WriteLineage
      <3>1. files[v] \subseteq files'[v]
        BY <1>1, <2>2 DEF WriteLineage
      <3>2. "lineage.json" \notin files[call.version]
        BY <2>2 DEF WriteLineage, LineageInv, CallSound, Writing
      <3>3. files[v] = ArtifactFiles => v # call.version
        BY <3>2 DEF ArtifactFiles
      <3>4. v # call.version => parent'[v] = parent[v]
        BY <2>2 DEF WriteLineage, LineageInv, RegistryTypeOK
      <3> QED
        BY <3>1, <3>3, <3>4
    <2> QED
      BY <1>3, <2>1, <2>2 DEF ContinueRegister
  <1>4. CASE \/ CallRollback \/ FinishHead \/ CallerDies \/ UNCHANGED sessionVars
             \/ \E w \in returned : CallPromote(w)
    BY <1>4 DEF CallRollback, Rollback, CallPromote, Promote, OpenHead, FinishHead,
                WriteHead, CallerDies, Abandon, sessionVars, registryVars
  <1> QED
    BY <1>2, <1>3, <1>4 DEF SessionNext

\* No call, rollback and promotion of old versions included, changes a complete
\* artifact or takes a file from a directory.
THEOREM SessionKeepsArtifacts == SessionSpec => ArtifactsImmutable
  <1>1. ASSUME LineageInv, [SessionNext]_sessionVars
        PROVE  [\A v \in Versions :
                  /\ files[v] \subseteq files'[v]
                  /\ files[v] = ArtifactFiles => parent'[v] = parent[v]]_registryVars
    BY <1>1, StepKeepsArtifacts
  <1> QED
    BY <1>1, LineageInvariant, PTL DEF SessionSpec, ArtifactsImmutable

\* HEAD never names a half-written artifact, whoever calls and dies.
THEOREM SessionHeadComplete == SessionSpec => []HeadComplete
  <1>1. LineageInv => HeadComplete
    BY DEF LineageInv
  <1> QED
    BY <1>1, LineageInvariant, PTL
=============================================================================
