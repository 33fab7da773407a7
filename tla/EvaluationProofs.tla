-------------------------- MODULE EvaluationProofs --------------------------
(***************************************************************************)
(* From the configuration files to the verdict: theorems about Evaluation, *)
(* for every chain of files, suite, number of episodes, final states and   *)
(* pseudo-random stream.                                                   *)
(***************************************************************************)
EXTENDS Evaluation, DataInduction, SequenceTheorems

-----------------------------------------------------------------------------
(* Merging                                                                 *)

\* The prefixes of a prefix are prefixes.
LEMMA PrefixOfPrefix ==
    ASSUME NEW K, NEW path \in Seq(K), NEW q \in Prefixes(path), NEW r \in Prefixes(q)
    PROVE  /\ r \in Prefixes(path)
           /\ r # q => r # path
  <1>1. PICK n \in 1 .. Len(path) : q = SubSeq(path, 1, n)
    BY DEF Prefixes
  <1>2. PICK m \in 1 .. Len(q) : r = SubSeq(q, 1, m)
    BY DEF Prefixes
  <1>3. Len(path) \in Nat /\ \A i \in 1 .. n : path[i] \in K
    OBVIOUS
  <1>4. Len(q) = n /\ \A i \in 1 .. n : q[i] = path[i]
    BY <1>1, <1>3, SubSeqProperties
  <1>5. Len(r) = m /\ \A i \in 1 .. m : q[i] \in K
    <2>1. \A i \in 1 .. m : q[i] \in K
      BY <1>2, <1>3, <1>4
    <2> QED
      BY <1>2, <2>1, SubSeqProperties
  <1>6. r = SubSeq(path, 1, m)
    <2>1. 1 \in 1 .. Len(path) /\ m \in 1 .. n - 1 + 1 /\ 1 \in 1 .. n - 1 + 1
      BY <1>2, <1>4
    <2>2. q \in Seq(K)
      BY <1>1, <1>3, SubSeqProperties
    <2> QED
      BY <1>1, <1>2, <2>1, <2>2, SubSeqOfSubSeq
  <1>7. r \in Prefixes(path)
    BY <1>2, <1>4, <1>6 DEF Prefixes
  <1>8. ASSUME r # q, r = path PROVE FALSE
    <2>1. m = Len(path) /\ n = Len(path)
      BY <1>2, <1>4, <1>5, <1>8
    <2> QED
      BY <1>1, <1>6, <1>8, <2>1
  <1> QED
    BY <1>7, <1>8

\* The merge of two trees is a tree.
LEMMA MergeIsTree ==
    ASSUME NEW base, NEW override, IsTree(base), IsTree(override)
    PROVE  IsTree(DeepMerge(base, override))
  <1> DEFINE kept == {path \in DOMAIN base :
                        \A q \in Prefixes(path) \cap DOMAIN override :
                            base[q] = DictNode /\ override[q] = DictNode}
             merged == DeepMerge(base, override)
  <1>1. merged = [path \in kept \cup DOMAIN override |->
                    IF path \in DOMAIN override THEN override[path] ELSE base[path]]
    BY DEF DeepMerge
  <1>2. DOMAIN merged = kept \cup DOMAIN override
    BY <1>1
  <1>3. ASSUME NEW path \in DOMAIN merged
        PROVE  /\ path \in Seq({path[n] : n \in 1 .. Len(path)}) \ {<<>>}
               /\ merged[path] = DictNode \/ merged[path] = Leaf(merged[path].value)
    BY <1>1, <1>2 DEF IsTree
  <1>4. ASSUME NEW path \in DOMAIN merged, NEW q \in Prefixes(path) \ {path}
        PROVE  q \in DOMAIN merged /\ merged[q] = DictNode
    <2>1. CASE path \in DOMAIN override
      <3>1. q \in DOMAIN override /\ override[q] = DictNode
        BY <2>1 DEF IsTree
      <3> QED
        BY <1>1, <1>2, <3>1
    <2>2. CASE path \in kept
      <3>1. q \in DOMAIN base /\ base[q] = DictNode
        BY <2>2 DEF IsTree
      <3>2. ASSUME NEW r \in Prefixes(q) \cap DOMAIN override
            PROVE  base[r] = DictNode /\ override[r] = DictNode
        <4>1. r \in Prefixes(path)
          BY <1>3, PrefixOfPrefix
        <4> QED
          BY <2>2, <4>1
      <3>3. q \in kept
        BY <3>1, <3>2
      <3>4. CASE q \in DOMAIN override
        BY <1>1, <1>2, <2>2, <3>3, <3>4
      <3>5. CASE q \notin DOMAIN override
        BY <1>1, <1>2, <3>1, <3>3, <3>5
      <3> QED
        BY <3>4, <3>5
    <2> QED
      BY <1>2, <2>1, <2>2
  <1> QED
    BY <1>2, <1>3, <1>4 DEF IsTree

\* What the override decides is read from it, anything else from the base.
LEMMA MergeReads ==
    ASSUME NEW base, NEW override, IsTree(base), IsTree(override), NEW path
    PROVE  At(DeepMerge(base, override), path) =
              IF Decides(override, path) THEN At(override, path) ELSE At(base, path)
  <1> DEFINE kept == {p \in DOMAIN base :
                        \A q \in Prefixes(p) \cap DOMAIN override :
                            base[q] = DictNode /\ override[q] = DictNode}
             merged == DeepMerge(base, override)
  <1>1. merged = [p \in kept \cup DOMAIN override |->
                    IF p \in DOMAIN override THEN override[p] ELSE base[p]]
    BY DEF DeepMerge
  <1>2. CASE path \in DOMAIN override
    BY <1>1, <1>2 DEF At, Decides
  <1>3. CASE path \notin DOMAIN override /\ Decides(override, path)
    <2>1. PICK q \in Prefixes(path) : At(override, q).kind = "leaf"
      BY <1>3 DEF Decides
    <2>2. q \in DOMAIN override /\ override[q] # DictNode
      BY <2>1 DEF At, Absent, DictNode
    <2>3. path \notin kept
      BY <2>1, <2>2
    <2> QED
      BY <1>1, <1>3, <2>3 DEF At
  <1>4. CASE ~Decides(override, path)
    <2>1. path \notin DOMAIN override
      BY <1>4 DEF Decides
    <2>2. ASSUME path \in DOMAIN base, NEW q \in Prefixes(path) \cap DOMAIN override
          PROVE  base[q] = DictNode /\ override[q] = DictNode
      <3>1. q # path
        BY <2>1
      <3>2. base[q] = DictNode
        BY <2>2, <3>1 DEF IsTree
      <3>3. override[q].kind # "leaf"
        BY <1>4 DEF Decides, At
      <3>4. override[q] = DictNode \/ override[q] = Leaf(override[q].value)
        BY DEF IsTree
      <3> QED
        BY <3>2, <3>3, <3>4 DEF Leaf
    <2>3. path \in kept <=> path \in DOMAIN base
      BY <2>2
    <2> QED
      BY <1>1, <1>4, <2>1, <2>3 DEF At
  <1> QED
    BY <1>2, <1>3, <1>4

-----------------------------------------------------------------------------
(* Loading                                                                 *)

\* What load_config computes, from the file at the end of the chain up.
Loaded(load, files) ==
    load = [i \in 1 .. Len(files) |->
               IF i = Len(files) THEN files[i] ELSE DeepMerge(load[i + 1], files[i])]

\* The recursion over the chain has a solution, and load_config returns its
\* value for the first file.
LEMMA LoadConfigIsLoaded ==
    ASSUME NEW files, Len(files) \in Positive, DOMAIN files = 1 .. Len(files)
    PROVE  \E load : Loaded(load, files) /\ LoadConfig(files) = load[1]
  <1> DEFINE N == Len(files)
             Paths == UNION {DOMAIN files[i] : i \in 1 .. N}
             Values == UNION {{files[i][path] : path \in DOMAIN files[i]} : i \in 1 .. N}
             S == {files[N]} \cup UNION {[D -> Values] : D \in SUBSET Paths}
             g == [s \in Nat \X S |-> IF s[1] < N THEN DeepMerge(s[2], files[N - s[1]]) ELSE s[2]]
  <1>1. N \in Nat /\ N >= 1
    BY DEF Positive
  <1>2. ASSUME NEW base \in S, NEW i \in 1 .. N
        PROVE  DeepMerge(base, files[i]) \in S
    <2>1. DOMAIN base \subseteq Paths /\ \A path \in DOMAIN base : base[path] \in Values
      <3>1. CASE base = files[N]
        BY <1>1, <3>1
      <3>2. CASE \E D \in SUBSET Paths : base \in [D -> Values]
        BY <3>2
      <3> QED
        BY <3>1, <3>2
    <2>2. DOMAIN files[i] \subseteq Paths /\ \A path \in DOMAIN files[i] : files[i][path] \in Values
      OBVIOUS
    <2> HIDE DEF Paths, Values
    <2>3. \E D \in SUBSET Paths : DeepMerge(base, files[i]) \in [D -> Values]
      <3> DEFINE kept == {path \in DOMAIN base :
                            \A q \in Prefixes(path) \cap DOMAIN files[i] :
                                base[q] = DictNode /\ files[i][q] = DictNode}
                 D == kept \cup DOMAIN files[i]
      <3>1. DeepMerge(base, files[i]) =
               [path \in D |-> IF path \in DOMAIN files[i] THEN files[i][path] ELSE base[path]]
        BY DEF DeepMerge
      <3>2. D \in SUBSET Paths
        BY <2>1, <2>2
      <3>3. \A path \in D : (IF path \in DOMAIN files[i] THEN files[i][path] ELSE base[path]) \in Values
        BY <2>1, <2>2
      <3> QED
        BY <3>1, <3>2, <3>3
    <2> QED
      BY <2>3
  <1>3. files[N] \in S
    OBVIOUS
  <1>4. g \in [Nat \X S -> S]
    <2> HIDE DEF S
    <2>1. ASSUME NEW s \in Nat \X S, s[1] < N
          PROVE  DeepMerge(s[2], files[N - s[1]]) \in S
      <3>0. s[1] \in Nat /\ s[2] \in S
        OBVIOUS
      <3>1. N - s[1] \in 1 .. N
        BY <1>1, <2>1, <3>0
      <3> QED
        BY <1>2, <3>0, <3>1
    <2> QED
      BY <2>1
  <1>5. \E f \in [Nat -> S] : Follows(f, files[N], g)
    <2> HIDE DEF S, g
    <2> QED
      BY <1>3, <1>4, NatRecursion
  <1>6. PICK f \in [Nat -> S] : Follows(f, files[N], g)
    BY <1>5
  <1>7. f[0] = files[N]
    BY <1>6 DEF Follows
  <1>8. ASSUME NEW n \in Nat, n + 1 < N
        PROVE  f[n + 1] = DeepMerge(f[n], files[N - (n + 1)])
    <2> HIDE DEF S
    <2>1. f[n + 1] = g[<<n + 1, f[n]>>]
      <3> HIDE DEF g
      <3> QED
        BY <1>6 DEF Follows
    <2>2. n \in Nat /\ f[n] \in S
      OBVIOUS
    <2> QED
      BY <1>8, <2>1, <2>2
  <1> HIDE DEF S, g, N
  <1> DEFINE load == [i \in 1 .. N |-> f[N - i]]
  <1>9. ASSUME NEW i \in 1 .. N
        PROVE  load[i] = IF i = N THEN files[i] ELSE DeepMerge(load[i + 1], files[i])
    <2>1. CASE i = N
      <3>1. N - i = 0
        BY <1>1, <2>1
      <3> QED
        BY <1>7, <2>1, <3>1
    <2>2. CASE i # N
      <3> DEFINE n == N - (i + 1)
      <3>1. n \in Nat /\ n + 1 < N /\ N - (n + 1) = i /\ N - i = n + 1 /\ i + 1 \in 1 .. N
        BY <1>1, <2>2
      <3>2. load[i] = f[n + 1] /\ load[i + 1] = f[n]
        BY <3>1
      <3> HIDE DEF n, load
      <3> QED
        BY <1>8, <2>2, <3>1, <3>2
    <2> QED
      BY <2>1, <2>2
  <1>10. Loaded(load, files)
    <2> SUFFICES load = [i \in 1 .. N |->
                            IF i = N THEN files[i] ELSE DeepMerge(load[i + 1], files[i])]
      BY DEF Loaded, N
    <2> QED
      BY <1>9
  <1>11. \E h : Loaded(h, files)
    BY <1>10
  <1>12. LoadConfig(files) = (CHOOSE h : Loaded(h, files))[1]
    BY DEF LoadConfig, Loaded
  <1> QED
    BY <1>11, <1>12

\* From the i-th file on, a path is read from the first file that decides it.
ReadFromFirst(config_, files, i) ==
    \A path :
        /\ (\A j \in i .. Len(files) : ~Decides(files[j], path)) => At(config_, path) = Absent
        /\ \A j \in i .. Len(files) :
              Decides(files[j], path) /\ (\A k \in i .. j - 1 : ~Decides(files[k], path))
                  => At(config_, path) = At(files[j], path)

\* One more file in front: what it decides is read from it.
LEMMA ReadOneMore ==
    ASSUME NEW files, Len(files) \in Positive, NEW i \in 1 .. Len(files) - 1,
           NEW base, IsTree(base), IsTree(files[i]), ReadFromFirst(base, files, i + 1)
    PROVE  ReadFromFirst(DeepMerge(base, files[i]), files, i)
  <1> DEFINE N == Len(files)
             merged == DeepMerge(base, files[i])
  <1>0. N \in Nat /\ i \in Nat /\ i < N
    BY DEF Positive
  <1> SUFFICES ASSUME NEW path
               PROVE  /\ (\A j \in i .. N : ~Decides(files[j], path)) => At(merged, path) = Absent
                      /\ \A j \in i .. N :
                            Decides(files[j], path) /\ (\A k \in i .. j - 1 : ~Decides(files[k], path))
                                => At(merged, path) = At(files[j], path)
    BY DEF ReadFromFirst
  <1>1. At(merged, path) =
           IF Decides(files[i], path) THEN At(files[i], path) ELSE At(base, path)
    BY MergeReads
  <1>2. /\ (\A j \in i + 1 .. N : ~Decides(files[j], path)) => At(base, path) = Absent
        /\ \A j \in i + 1 .. N :
              Decides(files[j], path) /\ (\A k \in i + 1 .. j - 1 : ~Decides(files[k], path))
                  => At(base, path) = At(files[j], path)
    BY DEF ReadFromFirst
  <1> HIDE DEF merged, N
  <1>3. ASSUME \A j \in i .. N : ~Decides(files[j], path)
        PROVE  At(merged, path) = Absent
    <2>1. ~Decides(files[i], path) /\ \A j \in i + 1 .. N : ~Decides(files[j], path)
      BY <1>0, <1>3
    <2> QED
      BY <1>1, <1>2, <2>1
  <1>4. ASSUME NEW j \in i .. N, Decides(files[j], path),
               \A k \in i .. j - 1 : ~Decides(files[k], path)
        PROVE  At(merged, path) = At(files[j], path)
    <2>1. CASE j = i
      BY <1>1, <1>4, <2>1
    <2>2. CASE j # i
      <3>1. /\ ~Decides(files[i], path)
            /\ j \in i + 1 .. N
            /\ \A k \in i + 1 .. j - 1 : ~Decides(files[k], path)
        BY <1>0, <1>4, <2>2
      <3> QED
        BY <1>1, <1>2, <1>4, <3>1
    <2> QED
      BY <2>1, <2>2
  <1> QED
    BY <1>3, <1>4

\* A loaded chain reads every path from the first file that decides it.
LEMMA LoadReadsFirst ==
    ASSUME NEW files, Len(files) \in Positive, DOMAIN files = 1 .. Len(files),
           \A i \in 1 .. Len(files) : IsTree(files[i])
    PROVE  ReadFromFirst(LoadConfig(files), files, 1)
  <1> DEFINE N == Len(files)
  <1>1. \E h : Loaded(h, files) /\ LoadConfig(files) = h[1]
    BY LoadConfigIsLoaded
  <1>2. PICK load : Loaded(load, files) /\ LoadConfig(files) = load[1]
    BY <1>1
  <1>3. \A i \in 1 .. N :
           load[i] = IF i = N THEN files[i] ELSE DeepMerge(load[i + 1], files[i])
    BY <1>2 DEF Loaded
  <1>4. N \in Nat /\ N >= 1
    BY DEF Positive
  <1> DEFINE P == {n \in Nat : n < N => /\ IsTree(load[N - n])
                                        /\ ReadFromFirst(load[N - n], files, N - n)}
  <1>5. 0 \in P
    <2>1. N - 0 = N /\ load[N] = files[N]
      <3> HIDE DEF N
      <3> QED
        BY <1>3, <1>4
    <2>2. IsTree(files[N])
      BY <1>4
    <2>3. ReadFromFirst(files[N], files, N)
      <3> HIDE DEF N
      <3>1. \A j \in N .. N : j = N
        BY <1>4
      <3>2. N \in N .. N
        BY <1>4
      <3> QED
        BY <3>1, <3>2 DEF ReadFromFirst, Decides, At, N
    <2> HIDE DEF N
    <2> QED
      BY <2>1, <2>2, <2>3
  <1>6. ASSUME NEW n \in Nat, n \in P PROVE n + 1 \in P
    <2> HIDE DEF N
    <2> SUFFICES ASSUME n + 1 < N
                 PROVE  /\ IsTree(load[N - (n + 1)])
                        /\ ReadFromFirst(load[N - (n + 1)], files, N - (n + 1))
      OBVIOUS
    <2> DEFINE i == N - (n + 1)
    <2>1. i \in 1 .. N /\ i # N /\ i \in 1 .. N - 1 /\ i + 1 = N - n /\ n < N
      BY <1>4
    <2>2. IsTree(load[N - n]) /\ ReadFromFirst(load[N - n], files, N - n)
      BY <1>6, <2>1
    <2> HIDE DEF i
    <2>3. load[i] = DeepMerge(load[i + 1], files[i])
      BY <1>3, <2>1
    <2>4. IsTree(files[i]) /\ IsTree(load[i + 1]) /\ ReadFromFirst(load[i + 1], files, i + 1)
      BY <2>1, <2>2 DEF N
    <2>5. i \in 1 .. Len(files) - 1
      BY <2>1 DEF N
    <2>6. ReadFromFirst(load[i], files, i)
      BY <2>3, <2>4, <2>5, ReadOneMore
    <2>7. IsTree(load[i])
      BY <2>3, <2>4, MergeIsTree
    <2> QED
      BY <2>6, <2>7 DEF i
  <1>7. \A n \in Nat : n \in P
    <2> HIDE DEF P
    <2> QED
      BY <1>5, <1>6, NatSetInduction
  <1>8. N - 1 \in Nat /\ N - 1 < N /\ N - (N - 1) = 1
    BY <1>4
  <1> HIDE DEF N
  <1>9. ReadFromFirst(load[1], files, 1)
    BY <1>7, <1>8
  <1> QED
    BY <1>2, <1>9

\* The chains of the model are loaded like that.
LEMMA ChainReadsMostSpecific == chain \in Chains => SettingsMostSpecific
  <1> SUFFICES ASSUME chain \in Chains,
                      NEW path \in Required(Settings) \cup
                             {<<"evaluation", k>> : k \in {"suite", "episodes_per_task"}}
               PROVE  At(Settings, path) = MostSpecific(path)
    BY DEF SettingsMostSpecific
  <1>1. /\ Len(chain) \in Positive /\ DOMAIN chain = 1 .. Len(chain)
        /\ \A i \in 1 .. Len(chain) : IsTree(chain[i])
    BY ConfigurationAssumption
  <1>2. ReadFromFirst(Settings, chain, 1)
    BY <1>1, LoadReadsFirst DEF Settings
  <1> DEFINE N == Len(chain)
             deciding == {i \in DOMAIN chain : Decides(chain[i], path)}
  <1>4. N \in Nat
    BY <1>1 DEF Positive
  <1>5. CASE deciding = {}
    <2>1. \A j \in 1 .. N : ~Decides(chain[j], path)
      BY <1>1, <1>5
    <2>2. At(Settings, path) = Absent
      BY <1>2, <2>1 DEF ReadFromFirst
    <2> QED
      BY <1>5, <2>2 DEF MostSpecific
  <1>6. CASE deciding # {}
    <2>1. deciding \subseteq Nat
      BY <1>1
    <2>2. \E i \in deciding : \A j \in deciding : i <= j
      <3> HIDE DEF deciding
      <3> QED
        BY <1>6, <2>1, LeastOfNaturals
    <2> DEFINE first == CHOOSE i \in deciding : \A j \in deciding : i <= j
    <2>3. first \in deciding /\ \A j \in deciding : first <= j
      BY <2>2
    <2>4. MostSpecific(path) = At(chain[first], path)
      BY <1>6 DEF MostSpecific
    <2> HIDE DEF first
    <2>5. first \in 1 .. N /\ Decides(chain[first], path)
      BY <1>1, <2>3
    <2>6. \A k \in 1 .. first - 1 : ~Decides(chain[k], path)
      <3> SUFFICES ASSUME NEW k \in 1 .. first - 1, Decides(chain[k], path) PROVE FALSE
        OBVIOUS
      <3>1. k \in 1 .. N /\ k < first
        BY <1>4, <2>5
      <3>2. k \in deciding
        BY <1>1, <3>1
      <3> HIDE DEF deciding, N
      <3> QED
        BY <1>4, <2>3, <2>5, <3>1, <3>2
    <2>7. At(Settings, path) = At(chain[first], path)
      BY <1>2, <2>5, <2>6 DEF ReadFromFirst
    <2> QED
      BY <2>4, <2>7
  <1> QED
    BY <1>5, <1>6

-----------------------------------------------------------------------------
(* The gate                                                                *)

\* The scores of finitely many tasks.
ScoresType(scores_) ==
    IsFiniteSet(DOMAIN scores_) /\ scores_ \in [DOMAIN scores_ -> Nat]

GateTypes ==
    /\ ScoresType(compared.incumbent) /\ ScoresType(compared.candidate)
    /\ config.samples \in Nat
    /\ drawn \in 0 .. config.samples /\ worse \in 0 .. drawn
    /\ answer \in {"none", "yes", "no"}

\* What the gate has found so far decides its answer: it draws only past the
\* floor, a candidate that is better on every task never draws a bad mean, and
\* an answer is the one of the floor or of the p-value.
GateInv ==
    /\ GateTypes
    /\ drawn > 0 => Tasks # {} /\ ReachesFloor
    /\ (\A t \in Tasks : Delta[t] > 0) => worse = 0
    /\ answer = "yes" => drawn > 0 /\ drawn = config.samples /\ Significant
    /\ answer = "no" => \/ Tasks = {} \/ BelowFloor
                        \/ drawn > 0 /\ drawn = config.samples /\ ~Significant

\* The deltas and their sums are integers.
LEMMA SumTypes ==
    ASSUME GateTypes
    PROVE  /\ IsFiniteSet(Tasks)
           /\ Delta \in [Tasks -> Int]
           /\ SumDelta \in Int /\ SumIncumbent \in Int
           /\ SumIncumbent >= 0
  <1> DEFINE inc == [t \in Tasks |-> compared.incumbent[t]]
  <1>1. IsFiniteSet(Tasks)
    BY FS_Subset DEF GateTypes, ScoresType, Tasks
  <1>2. \A t \in Tasks : compared.incumbent[t] \in Nat /\ compared.candidate[t] \in Nat
    BY DEF GateTypes, ScoresType, Tasks
  <1>3. Delta \in [Tasks -> Int] /\ inc \in [Tasks -> Int] /\ inc \in [Tasks -> Nat]
    BY <1>2 DEF Delta
  <1>4. DOMAIN Delta = Tasks /\ DOMAIN inc = Tasks
    BY DEF Delta
  <1>5. SumDelta = SumFunctionOnSet(Delta, Tasks) /\ SumIncumbent = SumFunctionOnSet(inc, Tasks)
    BY <1>4 DEF SumDelta, SumIncumbent, SumFunction
  <1>6. SumDelta \in Int /\ SumIncumbent \in Int
    <2> HIDE DEF inc
    <2> QED
      BY <1>1, <1>3, <1>5, SumIsInteger
  <1>7. SumIncumbent >= 0
    <2> HIDE DEF inc
    <2> QED
      BY <1>1, <1>3, <1>5, SumOfNaturals
  <1> QED
    BY <1>1, <1>3, <1>6, <1>7

\* A call of the gate begins with nothing drawn.
LEMMA CallStartsGate ==
    ASSUME NEW incumbent, NEW candidate, NEW gateConfig,
           ScoresType(incumbent), ScoresType(candidate), gateConfig.samples \in Nat,
           ShouldPromote(incumbent, candidate, gateConfig)
    PROVE  GateInv'
  <1>1. /\ compared'.incumbent = incumbent /\ compared'.candidate = candidate
        /\ config' = gateConfig
        /\ drawn' = 0 /\ worse' = 0 /\ answer' = "none"
    BY DEF ShouldPromote
  <1>2. GateTypes'
    BY <1>1 DEF GateTypes
  <1> QED
    BY <1>1, <1>2 DEF GateInv

\* If every task is better, so is every resampled mean.
LEMMA BetterResamples ==
    ASSUME GateTypes, Tasks # {}, \A t \in Tasks : Delta[t] > 0
    PROVE  \A s \in ResampledSums : s > 0
  <1> SUFFICES ASSUME NEW draw \in [1 .. Cardinality(Tasks) -> Tasks]
               PROVE  SumFunction([i \in 1 .. Cardinality(Tasks) |-> Delta[draw[i]]]) > 0
    BY DEF ResampledSums
  <1> DEFINE n == Cardinality(Tasks)
             f == [i \in 1 .. n |-> Delta[draw[i]]]
  <1>1. n \in Nat /\ n # 0
    BY SumTypes, FS_CardinalityType, FS_EmptySet
  <1>2. IsFiniteSet(1 .. n) /\ 1 .. n # {}
    <2>1. IsFiniteSet(1 .. n)
      BY <1>1, FS_Interval
    <2>2. 1 \in 1 .. n
      BY <1>1
    <2> QED
      BY <2>1, <2>2
  <1>3. f \in [1 .. n -> Int] /\ \A i \in 1 .. n : f[i] > 0
    BY SumTypes
  <1>4. SumFunction(f) = SumFunctionOnSet(f, 1 .. n)
    BY DEF SumFunction
  <1> HIDE DEF f, n
  <1>5. SumFunctionOnSet(f, 1 .. n) > 0
    BY <1>2, <1>3, SumOfPositive
  <1> QED
    BY <1>4, <1>5 DEF f, n

\* A resampled mean is the sum of integers.
LEMMA ResampledTypes ==
    ASSUME GateTypes
    PROVE  \A s \in ResampledSums : s \in Int
  <1> SUFFICES ASSUME NEW draw \in [1 .. Cardinality(Tasks) -> Tasks]
               PROVE  SumFunction([i \in 1 .. Cardinality(Tasks) |-> Delta[draw[i]]]) \in Int
    BY DEF ResampledSums
  <1> DEFINE n == Cardinality(Tasks)
             f == [i \in 1 .. n |-> Delta[draw[i]]]
  <1>1. n \in Nat
    BY SumTypes, FS_CardinalityType
  <1>2. IsFiniteSet(1 .. n)
    BY <1>1, FS_Interval
  <1>3. f \in [1 .. n -> Int]
    BY SumTypes
  <1>4. SumFunction(f) = SumFunctionOnSet(f, 1 .. n)
    BY DEF SumFunction
  <1> HIDE DEF f, n
  <1>5. SumFunctionOnSet(f, 1 .. n) \in Int
    BY <1>2, <1>3, SumIsInteger
  <1> QED
    BY <1>4, <1>5 DEF f, n

\* The rest of a call keeps what it was called with and what it found.
LEMMA GateStepKeepsInv ==
    ASSUME GateInv, GateStep
    PROVE  GateInv' /\ UNCHANGED <<compared, config>>
  <1>1. UNCHANGED <<compared, config>>
    BY DEF GateStep, RejectEarly, Resample, Decide
  <1>2. /\ Tasks' = Tasks /\ Delta' = Delta
        /\ (ReachesFloor <=> ReachesFloor') /\ (BelowFloor <=> BelowFloor')
    BY <1>1 DEF Tasks, Delta, ReachesFloor, BelowFloor, SumDelta, SumIncumbent
  <1>3. CASE RejectEarly
    <2>1. UNCHANGED <<drawn, worse>> /\ answer' = "no" /\ (Tasks = {} \/ BelowFloor)
      BY <1>3 DEF RejectEarly
    <2>2. GateTypes'
      BY <1>1, <2>1 DEF GateInv, GateTypes
    <2> QED
      BY <1>1, <1>2, <2>1, <2>2 DEF GateInv
  <1>4. CASE Resample
    <2>1. /\ drawn' = drawn + 1 /\ drawn < config.samples
          /\ answer' = answer /\ answer = "none"
          /\ Tasks # {} /\ (drawn > 0 \/ ReachesFloor)
          /\ \/ (\E s \in ResampledSums : s <= 0) /\ worse' = worse + 1
             \/ worse' = worse
      BY <1>4 DEF Resample
    <2>2. GateTypes'
      BY <1>1, <2>1 DEF GateInv, GateTypes
    <2>3. (\A t \in Tasks : Delta[t] > 0) => worse' = 0
      <3> SUFFICES ASSUME \A t \in Tasks : Delta[t] > 0 PROVE worse' = 0
        OBVIOUS
      <3>1. \A s \in ResampledSums : s > 0
        BY <2>1, BetterResamples DEF GateInv
      <3>2. \A s \in ResampledSums : s \in Int
        BY ResampledTypes DEF GateInv
      <3>3. ~\E s \in ResampledSums : s <= 0
        BY <3>1, <3>2
      <3> QED
        BY <2>1, <3>3 DEF GateInv
    <2>4. ReachesFloor
      BY <2>1 DEF GateInv
    <2> QED
      BY <1>1, <1>2, <2>1, <2>2, <2>3, <2>4 DEF GateInv
  <1>5. CASE Decide
    <2>1. /\ UNCHANGED <<drawn, worse>>
          /\ drawn = config.samples /\ drawn > 0
          /\ answer' = IF Significant THEN "yes" ELSE "no"
      BY <1>5 DEF Decide
    <2>2. Significant <=> Significant'
      BY <1>1, <2>1 DEF Significant
    <2>3. GateTypes'
      BY <1>1, <2>1 DEF GateInv, GateTypes
    <2> QED
      BY <1>1, <1>2, <2>1, <2>2, <2>3 DEF GateInv
  <1> QED
    BY <1>1, <1>3, <1>4, <1>5 DEF GateStep

-----------------------------------------------------------------------------
(* The suites                                                              *)

\* A run starts with numbers the gate and the pipeline can use.
LEMMA StartedSettings ==
    ASSUME chain \in Chains, Starts(Settings)
    PROVE  /\ GateConfig(Settings) \in [gain : Positive, alpha : Positive, samples : Nat]
           /\ EpisodesPerTask \in Positive
  BY ConfigurationAssumption DEF Settings, EpisodesPerTask, EvaluationSetting

TaskNames == {"multi_file_refactor", "dependency_upgrade", "flaky_tool_recovery",
              "log_pipeline_repair", "schema_migration", "rate_limited_crawl"}

\* A suite is empty or three different tasks.
LEMMA SuiteTasksDiffer ==
    /\ Len(Tasklist) \in Nat
    /\ \A k \in 1 .. Len(Tasklist) : Tasklist[k] \in TaskNames
    /\ \A j, k \in 1 .. Len(Tasklist) : Tasklist[j] = Tasklist[k] => j = k
    /\ IsFiniteSet(SuiteTasks)
  <1> DEFINE longhorizon == <<"multi_file_refactor", "dependency_upgrade", "flaky_tool_recovery">>
             training == <<"log_pipeline_repair", "schema_migration", "rate_limited_crawl">>
  <1>1. Tasklist = longhorizon \/ Tasklist = training \/ Tasklist = <<>>
    BY DEF Tasklist, Suite
  <1>2. IsFiniteSet(TaskNames)
    <2> DEFINE pair(x, y) == {} \cup {x} \cup {y}
    <2>1. \A x, y : IsFiniteSet(pair(x, y))
      BY FS_EmptySet, FS_AddElement
    <2>2. TaskNames = pair("multi_file_refactor", "dependency_upgrade")
                      \cup pair("flaky_tool_recovery", "log_pipeline_repair")
                      \cup pair("schema_migration", "rate_limited_crawl")
      BY DEF TaskNames
    <2> HIDE DEF pair
    <2> QED
      BY <2>1, <2>2, FS_Union
  <1>3. Len(Tasklist) \in {0, 3}
    BY <1>1
  <1>4. Len(Tasklist) = 3 =>
           \/ /\ Tasklist[1] = "multi_file_refactor" /\ Tasklist[2] = "dependency_upgrade"
              /\ Tasklist[3] = "flaky_tool_recovery"
           \/ /\ Tasklist[1] = "log_pipeline_repair" /\ Tasklist[2] = "schema_migration"
              /\ Tasklist[3] = "rate_limited_crawl"
    BY <1>1
  <1>5. /\ \A k \in 1 .. Len(Tasklist) : Tasklist[k] \in TaskNames
        /\ \A j, k \in 1 .. Len(Tasklist) : Tasklist[j] = Tasklist[k] => j = k
    <2>1. CASE Len(Tasklist) = 0
      <3>1. 1 .. Len(Tasklist) = {}
        BY <2>1
      <3> QED
        BY <3>1
    <2>2. CASE Len(Tasklist) = 3
      <3>1. 1 .. Len(Tasklist) = {1, 2, 3}
        BY <2>2
      <3> QED
        BY <1>4, <2>2, <3>1 DEF TaskNames
    <2> QED
      BY <1>3, <2>1, <2>2
  <1>6. SuiteTasks \subseteq TaskNames
    BY <1>5 DEF SuiteTasks
  <1> QED
    BY <1>2, <1>3, <1>5, <1>6, FS_Subset

\* A history mentions no more items than are looked for.
LEMMA FoundBounded ==
    ASSUME NEW s, NEW n \in Nat
    PROVE  Found(s, n) \in 0 .. n
  <1> DEFINE found == {i \in 1 .. n : \E j \in s.items : Begins(i, j)}
  <1>1. IsFiniteSet(1 .. n) /\ Cardinality(1 .. n) = n
    BY FS_Interval
  <1>2. IsFiniteSet(found) /\ Cardinality(found) <= n
    <2>1. found \subseteq 1 .. n
      OBVIOUS
    <2> QED
      BY <1>1, <2>1, FS_Subset
  <1>3. Cardinality(found) \in Nat
    BY <1>2, FS_CardinalityType
  <1> QED
    BY <1>2, <1>3 DEF Found

\* A score is between 0 and 1.0.
LEMMA ScoreBounded ==
    ASSUME NEW task \in TaskNames, NEW s
    PROVE  Score(task, s) \in 0 .. Unit
  <1>1. \A full \in 0 .. Unit, otherwise \in 0 .. Unit, good \in BOOLEAN :
           Completed(s, full, good, otherwise) \in 0 .. Unit
    BY DEF Completed, Unit
  <1>2. Found(s, 20) \in 0 .. 20 /\ Found(s, 15) \in 0 .. 15
    BY FoundBounded
  <1>3. FlakyToolRecovery(s) \in 0 .. Unit /\ RateLimitedCrawl(s) \in 0 .. Unit
    BY <1>2 DEF FlakyToolRecovery, RateLimitedCrawl, Unit
  <1>4. /\ MultiFileRefactor(s) \in 0 .. Unit /\ DependencyUpgrade(s) \in 0 .. Unit
        /\ LogPipelineRepair(s) \in 0 .. Unit /\ SchemaMigration(s) \in 0 .. Unit
    BY DEF MultiFileRefactor, DependencyUpgrade, LogPipelineRepair, SchemaMigration,
           Completed, Unit
  <1> QED
    BY <1>3, <1>4 DEF TaskNames, Score

\* The n-th episode is one of the task in whose block n is.
LEMMA BlockOfEpisode ==
    ASSUME NEW E \in Positive, NEW K \in Nat, NEW n \in 1 .. K * E
    PROVE  /\ (n - 1) \div E \in 0 .. K - 1
           /\ E * ((n - 1) \div E) <= n - 1
           /\ n - 1 < E * ((n - 1) \div E) + E
  <1>1. E \in Nat /\ E > 0 /\ n - 1 \in Nat /\ K * E \in Nat
    BY DEF Positive
  <1> DEFINE q == (n - 1) \div E
  <1>2. q \in Nat /\ E * q <= n - 1 /\ n - 1 < E * q + E
    BY <1>1
  <1>3. q < K
    <2> SUFFICES ASSUME q >= K PROVE FALSE
      BY <1>1, <1>2
    <2>1. E * q >= E * K
      <3> HIDE DEF q
      <3>1. PICK d \in Nat : q = K + d
        <4>1. q - K \in Nat /\ q = K + (q - K)
          BY <1>2
        <4> QED
          BY <4>1
      <3>2. E * q = E * K + E * d /\ E * d \in Nat /\ E * K \in Nat
        BY <1>1, <3>1
      <3> QED
        BY <1>1, <1>2, <3>2
    <2>2. E * K = K * E /\ n <= K * E
      BY <1>1
    <2> HIDE DEF q
    <2> QED
      BY <1>1, <1>2, <2>1, <2>2
  <1> HIDE DEF q
  <1>4. q \in 0 .. K - 1
    BY <1>2, <1>3
  <1> QED
    BY <1>2, <1>4 DEF q

\* The scores a process hands over: as many episodes for every task.
LEMMA MeansBounded ==
    ASSUME EpisodesPerTask \in Positive, episodes \in Seq(0 .. Unit),
           Len(episodes) = LastEpisode
    PROVE  Means \in [SuiteTasks -> 0 .. Unit * EpisodesPerTask]
  <1> DEFINE E == EpisodesPerTask
             K == Len(Tasklist)
  <1> SUFFICES ASSUME NEW t \in SuiteTasks
               PROVE  SumFunction([n \in {m \in DOMAIN episodes : TaskOf(m) = t} |-> episodes[n]])
                         \in 0 .. Unit * E
    BY DEF Means
  <1>1. PICK k \in 1 .. K : t = Tasklist[k]
    BY DEF SuiteTasks
  <1>2. K \in Nat /\ E \in Nat /\ E > 0
    BY SuiteTasksDiffer DEF Positive
  <1> DEFINE D == {m \in DOMAIN episodes : TaskOf(m) = t}
             f == [n \in D |-> episodes[n]]
             c == E * (k - 1)
  <1>3. c \in Nat
    BY <1>2
  <1>4. D \subseteq c + 1 .. c + E
    <2> SUFFICES ASSUME NEW m \in D PROVE m \in c + 1 .. c + E
      OBVIOUS
    <2>1. m \in 1 .. K * E /\ Tasklist[(m - 1) \div E + 1] = Tasklist[k]
      BY <1>1 DEF TaskOf, LastEpisode
    <2> DEFINE q == (m - 1) \div E
    <2>2. q \in 0 .. K - 1 /\ E * q <= m - 1 /\ m - 1 < E * q + E
      <3>1. E \in Positive
        OBVIOUS
      <3> HIDE DEF E, K
      <3> QED
        BY <1>2, <2>1, <3>1, BlockOfEpisode
    <2>3. q + 1 \in 1 .. K
      BY <1>2, <2>2
    <2>4. q + 1 = k
      <3> HIDE DEF q
      <3> QED
        BY <1>1, <2>1, <2>3, SuiteTasksDiffer DEF q
    <2>5. q = k - 1
      <3> HIDE DEF q
      <3> QED
        BY <1>2, <2>2, <2>4
    <2>6. E * (k - 1) <= m - 1 /\ m - 1 < E * (k - 1) + E
      <3> HIDE DEF q
      <3> QED
        BY <2>2, <2>5
    <2>7. m \in Nat
      BY <1>2, <2>1
    <2> HIDE DEF E
    <2> QED
      BY <1>2, <1>3, <2>6, <2>7
  <1>5. IsFiniteSet(c + 1 .. c + E) /\ Cardinality(c + 1 .. c + E) = E
    <2> HIDE DEF c, E
    <2>1. c + 1 \in Int /\ c + E \in Int /\ ~(c + 1 > c + E) /\ (c + E) - (c + 1) + 1 = E
      BY <1>2, <1>3
    <2> QED
      BY <2>1, FS_Interval
  <1>6. IsFiniteSet(D) /\ Cardinality(D) <= E /\ Cardinality(D) \in Nat
    <2> HIDE DEF c, E, D
    <2> QED
      BY <1>4, <1>5, FS_Subset, FS_CardinalityType
  <1>7. f \in [D -> Int] /\ \A n \in D : 0 <= f[n] /\ f[n] <= Unit
    <2> HIDE DEF c, E, K
    <2>1. ASSUME NEW n \in D
          PROVE  episodes[n] \in Int /\ 0 <= episodes[n] /\ episodes[n] <= Unit
      <3>1. n \in 1 .. Len(episodes)
        OBVIOUS
      <3>2. episodes[n] \in 0 .. Unit
        BY <3>1, ElementOfSeq
      <3>3. \A x \in 0 .. Unit : x \in Int /\ 0 <= x /\ x <= Unit
        BY DEF Unit
      <3> QED
        BY ONLY <3>2, <3>3
    <2> HIDE DEF D
    <2> QED
      BY <2>1
  <1>8. SumFunction(f) = SumFunctionOnSet(f, D)
    BY DEF SumFunction
  <1> HIDE DEF f, D, E
  <1>9. Unit \in Nat /\ Unit = 60
    BY DEF Unit
  <1>10. /\ 0 <= SumFunctionOnSet(f, D) /\ SumFunctionOnSet(f, D) <= Unit * Cardinality(D)
         /\ SumFunctionOnSet(f, D) \in Int
    BY <1>6, <1>7, <1>9, SumOfBounded, SumIsInteger
  <1>11. SumFunctionOnSet(f, D) \in 0 .. Unit * E
    BY <1>2, <1>6, <1>9, <1>10
  <1> QED
    BY <1>8, <1>11 DEF f, D

-----------------------------------------------------------------------------
(* The invariant                                                           *)

\* The metrics of a process: none, the pipeline's score for every task of the
\* suite, or what mutated code reports.
IsHandedOver(scores_) ==
    \/ scores_ \in Reports \cup {NoScores}
    \/ scores_ \in [SuiteTasks -> 0 .. Unit * EpisodesPerTask]

\* What PromotionIsGain says of a promoted candidate.
Common == DOMAIN scores["candidate"] \cap DOMAIN scores["incumbent"]
CommonTotal(e) == SumFunction([t \in Common |-> scores[e][t]])

Gained ==
    /\ Common # {}
    /\ CommonTotal("candidate") > CommonTotal("incumbent")
    /\ 100 * (CommonTotal("candidate") - CommonTotal("incumbent"))
           >= GateConfig(Settings).gain * CommonTotal("incumbent")

\* The gate compares what the two processes handed over, with the settings of
\* the files; a rollback is asked about the scores of a promotion.
EvalInv ==
    /\ chain \in Chains /\ pc \in Phases /\ salt \in [Evaluators -> Salts]
    /\ pc # "ended" => Starts(Settings)
    /\ episodes \in Seq(0 .. Unit)
    /\ pc \in Evaluators => Len(episodes) <= LastEpisode
    /\ DOMAIN scores = Evaluators /\ \A e \in Evaluators : IsHandedOver(scores[e])
    /\ GateInv
    /\ pc \in {"promoting", "promoted", "not promoted"} =>
          /\ compared = [incumbent |-> scores["incumbent"], candidate |-> scores["candidate"]]
          /\ config = GateConfig(Settings)
    /\ pc = "promoted" => answer = "yes"
    /\ pc = "not promoted" => answer = "no"
    /\ pc = "rolling back" =>
          /\ \E e \in Evaluators :
                compared = [incumbent |-> scores["candidate"], candidate |-> scores[e]]
          /\ config = GateConfig(Settings)
          /\ Gained

\* No process has run and no test has been called.
LEMMA EvalStarts == Init => EvalInv
  <1> SUFFICES ASSUME Init PROVE EvalInv
    OBVIOUS
  <1>1. ScoresType(NoScores)
    BY FS_EmptySet DEF ScoresType, NoScores
  <1>2. GateTypes
    BY <1>1 DEF Init, GateInit, GateTypes
  <1>3. GateInv
    BY <1>2 DEF Init, GateInit, GateInv
  <1>4. pc \in Evaluators => Starts(Settings) /\ Len(episodes) <= LastEpisode
    <2> SUFFICES ASSUME pc \in Evaluators PROVE Starts(Settings) /\ Len(episodes) <= LastEpisode
      OBVIOUS
    <2>1. Starts(Settings)
      BY DEF Init, Settings, Evaluators
    <2>2. EpisodesPerTask \in Nat /\ Len(Tasklist) \in Nat
      BY <2>1, StartedSettings, SuiteTasksDiffer DEF Init, Positive
    <2>3. LastEpisode \in Nat
      BY <2>2 DEF LastEpisode
    <2>4. Len(episodes) = 0
      BY DEF Init
    <2> QED
      BY <2>1, <2>3, <2>4
  <1>5. pc = "candidate" \/ pc = "ended"
    BY DEF Init
  <1>6. DOMAIN scores = Evaluators /\ \A e \in Evaluators : IsHandedOver(scores[e])
    BY DEF Init, IsHandedOver
  <1>7. chain \in Chains /\ salt \in [Evaluators -> Salts] /\ episodes \in Seq(0 .. Unit)
    BY DEF Init
  <1>8. pc \in Phases /\ (pc # "ended" => Starts(Settings))
    BY <1>4, <1>5 DEF Phases, Evaluators
  <1> QED
    BY <1>3, <1>4, <1>5, <1>6, <1>7, <1>8 DEF EvalInv

-----------------------------------------------------------------------------
(* The steps                                                               *)

\* Positive numbers are.
LEMMA PositiveNumbers == \A x \in Positive : x \in Int /\ x > 0
  BY DEF Positive

\* What is handed over can be compared.
LEMMA HandedOverIsScores ==
    ASSUME NEW m, IsHandedOver(m), EpisodesPerTask \in Positive
    PROVE  ScoresType(m)
  <1>1. CASE m = NoScores
    BY <1>1, FS_EmptySet DEF ScoresType, NoScores
  <1>2. CASE m \in [SuiteTasks -> 0 .. Unit * EpisodesPerTask]
    <2>1. DOMAIN m = SuiteTasks
      BY <1>2
    <2>2. \A t \in SuiteTasks : m[t] \in Nat
      BY <1>2 DEF Positive, Unit
    <2>3. m = [t \in SuiteTasks |-> m[t]]
      BY <1>2
    <2> QED
      BY <2>1, <2>2, <2>3, SuiteTasksDiffer DEF ScoresType
  <1>3. CASE m \in Reports
    BY <1>3, ReportAssumption DEF ScoresType
  <1> QED
    BY <1>1, <1>2, <1>3 DEF IsHandedOver

\* The files do not change, nor what is read of them.
LEMMA FilesKept ==
    ASSUME chain' = chain
    PROVE  /\ Settings' = Settings /\ EpisodesPerTask' = EpisodesPerTask
           /\ LastEpisode' = LastEpisode /\ SuiteTasks' = SuiteTasks
           /\ (Starts(Settings))' = Starts(Settings)
           /\ (GateConfig(Settings))' = GateConfig(Settings)
           /\ \A m : IsHandedOver(m)' <=> IsHandedOver(m)
  BY DEF Settings, EpisodesPerTask, EvaluationSetting, LastEpisode, Tasklist, SuiteTasks,
         IsHandedOver

\* An episode has a score, and there are no more of them than the suite has.
LEMMA EpisodeKeepsInv ==
    ASSUME EvalInv, RunEpisode
    PROVE  EvalInv'
  <1>1. /\ UNCHANGED <<gateVars, chain, pc, salt, scores>>
        /\ pc \in Evaluators /\ Len(episodes) < LastEpisode
        /\ chain \in Chains /\ Starts(Settings)
    BY DEF RunEpisode, EvalInv, Evaluators
  <1>2. PICK s : episodes' = Append(episodes, Score(TaskOf(Len(episodes) + 1), s))
    BY DEF RunEpisode
  <1> DEFINE E == EpisodesPerTask
             K == Len(Tasklist)
             n == Len(episodes) + 1
  <1>3. E \in Positive /\ K \in Nat /\ Len(episodes) \in Nat /\ E \in Nat
    <2>1. E \in Positive
      BY <1>1, StartedSettings
    <2>2. Len(episodes) \in Nat
      <3>1. episodes \in Seq(0 .. Unit)
        BY DEF EvalInv
      <3> QED
        BY <3>1, LenProperties
    <2>3. K \in Nat
      BY SuiteTasksDiffer
    <2> QED
      BY <2>1, <2>2, <2>3 DEF Positive
  <1>4. n \in 1 .. K * E
    <2>1. LastEpisode = K * E /\ K * E \in Nat
      BY <1>3 DEF LastEpisode
    <2> HIDE DEF E, K
    <2> QED
      BY <1>1, <1>3, <2>1
  <1>5. TaskOf(n) \in TaskNames
    <2>1. (n - 1) \div E \in 0 .. K - 1
      <3> HIDE DEF E, K, n
      <3> QED
        BY <1>3, <1>4, BlockOfEpisode
    <2>2. (n - 1) \div E + 1 \in 1 .. K
      <3> HIDE DEF n
      <3> QED
        BY <1>3, <2>1
    <2>3. TaskOf(n) = Tasklist[(n - 1) \div E + 1]
      BY DEF TaskOf
    <2> QED
      BY <2>2, <2>3, SuiteTasksDiffer
  <1>6. Score(TaskOf(n), s) \in 0 .. Unit
    BY <1>5, ScoreBounded
  <1>7. episodes' \in Seq(0 .. Unit) /\ Len(episodes') = n
    BY <1>2, <1>6, AppendProperties DEF EvalInv
  <1>8. n <= LastEpisode
    BY <1>3, <1>4 DEF LastEpisode
  <1>9. GateInv'
    BY <1>1 DEF EvalInv, GateInv, GateTypes, gateVars, Tasks, Delta, ReachesFloor, BelowFloor,
                SumDelta, SumIncumbent, Significant
  <1>10. /\ DOMAIN scores' = Evaluators /\ (\A e \in Evaluators : IsHandedOver(scores[e]))'
         /\ (Starts(Settings))' /\ Len(episodes') <= LastEpisode'
    BY <1>1, <1>7, <1>8, FilesKept DEF EvalInv
  <1>11. pc \notin {"promoting", "promoted", "not promoted", "rolling back"}
    BY <1>1 DEF Evaluators
  <1> QED
    BY <1>1, <1>7, <1>9, <1>10, <1>11 DEF EvalInv

\* The gate is called with what the two processes handed over.
LEMMA HandOverKeepsInv ==
    ASSUME EvalInv, HandOver
    PROVE  EvalInv'
  <1>1. /\ UNCHANGED <<chain, salt>> /\ episodes' = <<>>
        /\ pc \in Evaluators /\ chain \in Chains /\ Starts(Settings)
        /\ pc' = IF pc = "candidate" THEN "incumbent" ELSE "promoting"
    BY DEF HandOver, EvalInv, Evaluators, NextPhase
  <1>2. PICK result \in HandedOver : scores' = [scores EXCEPT ![pc] = result]
    BY DEF HandOver
  <1>3. EpisodesPerTask \in Positive /\ GateConfig(Settings).samples \in Nat
    BY <1>1, StartedSettings
  <1>4. IsHandedOver(result)
    <2>1. CASE Len(episodes) = LastEpisode
      <3>1. Means \in [SuiteTasks -> 0 .. Unit * EpisodesPerTask]
        BY <1>1, <1>3, <2>1, MeansBounded DEF EvalInv
      <3>2. result \in Reports \cup {NoScores, Means}
        BY DEF HandedOver
      <3> QED
        BY <3>1, <3>2 DEF IsHandedOver
    <2>2. CASE Len(episodes) # LastEpisode
      BY <2>2 DEF HandedOver, IsHandedOver
    <2> QED
      BY <2>1, <2>2
  <1>5. DOMAIN scores' = Evaluators /\ \A e \in Evaluators : IsHandedOver(scores'[e])
    BY <1>2, <1>4 DEF EvalInv
  <1>6. (\A e \in Evaluators : IsHandedOver(scores[e]))'
    BY <1>1, <1>5, FilesKept
  <1>7. LastEpisode' \in Nat
    BY <1>1, <1>3, FilesKept, SuiteTasksDiffer DEF LastEpisode, Positive
  <1>8. (Starts(Settings))' /\ episodes' \in Seq(0 .. Unit) /\ Len(episodes') <= LastEpisode'
    BY <1>1, <1>7, FilesKept
  <1>9. CASE pc = "candidate"
    <2>1. UNCHANGED gateVars /\ pc' = "incumbent"
      BY <1>1, <1>9 DEF HandOver
    <2>2. GateInv'
      BY <2>1 DEF EvalInv, GateInv, GateTypes, gateVars, Tasks, Delta, ReachesFloor, BelowFloor,
                  SumDelta, SumIncumbent, Significant
    <2> QED
      BY <1>1, <1>5, <1>6, <1>8, <2>1, <2>2 DEF EvalInv, Evaluators, Phases
  <1>10. CASE pc = "incumbent"
    <2>1. /\ ShouldPromote(scores'["incumbent"], scores'["candidate"], GateConfig(Settings))
          /\ pc' = "promoting"
      BY <1>1, <1>10 DEF HandOver
    <2>2. ScoresType(scores'["incumbent"]) /\ ScoresType(scores'["candidate"])
      BY <1>3, <1>5, HandedOverIsScores DEF Evaluators
    <2>3. GateInv'
      BY <1>3, <2>1, <2>2, CallStartsGate
    <2>4. /\ compared' = [incumbent |-> scores'["incumbent"], candidate |-> scores'["candidate"]]
          /\ config' = (GateConfig(Settings))'
      BY <1>1, <2>1, FilesKept DEF ShouldPromote
    <2> QED
      BY <1>1, <1>5, <1>6, <1>8, <2>1, <2>3, <2>4 DEF EvalInv, Evaluators, Phases
  <1> QED
    BY <1>1, <1>9, <1>10 DEF Evaluators

\* A resampling and the return of the call keep what was compared.
LEMMA BootstrapKeepsInv ==
    ASSUME EvalInv, Bootstrap
    PROVE  EvalInv'
  <1>1. /\ UNCHANGED <<chain, pc, salt, episodes, scores>>
        /\ pc = "promoting" \/ pc = "rolling back"
        /\ GateStep
    BY DEF Bootstrap
  <1>2. GateInv' /\ UNCHANGED <<compared, config>>
    BY <1>1, GateStepKeepsInv DEF EvalInv
  <1>3. (\A e \in Evaluators : IsHandedOver(scores[e]))' /\ (Starts(Settings))'
    BY <1>1, FilesKept DEF EvalInv
  <1>4. pc = "rolling back" => Gained'
    BY <1>1, FilesKept DEF EvalInv, Gained, Common, CommonTotal
  <1> QED
    BY <1>1, <1>2, <1>3, <1>4, FilesKept DEF EvalInv, Evaluators

\* A run that ends keeps what it has.
LEMMA DiscardKeepsInv ==
    ASSUME EvalInv, Discard
    PROVE  EvalInv'
  <1>1. /\ UNCHANGED <<gateVars, chain, salt, episodes, scores>>
        /\ pc' = "ended"
    BY DEF Discard
  <1>2. GateInv'
    BY <1>1 DEF EvalInv, GateInv, GateTypes, gateVars, Tasks, Delta, ReachesFloor, BelowFloor,
                SumDelta, SumIncumbent, Significant
  <1>3. (\A e \in Evaluators : IsHandedOver(scores[e]))'
    BY <1>1, FilesKept DEF EvalInv
  <1> QED
    BY <1>1, <1>2, <1>3 DEF EvalInv, Evaluators, Phases

\* The verdict is the answer of the call.
LEMMA VerdictKeepsInv ==
    ASSUME EvalInv, Verdict
    PROVE  EvalInv'
  <1>1. /\ UNCHANGED <<gateVars, chain, salt, episodes, scores>>
        /\ pc = "promoting" /\ answer # "none"
        /\ pc' = IF answer = "yes" THEN "promoted" ELSE "not promoted"
    BY DEF Verdict
  <1>2. GateInv'
    BY <1>1 DEF EvalInv, GateInv, GateTypes, gateVars, Tasks, Delta, ReachesFloor, BelowFloor,
                SumDelta, SumIncumbent, Significant
  <1>3. (\A e \in Evaluators : IsHandedOver(scores[e]))' /\ (Starts(Settings))'
    BY <1>1, FilesKept DEF EvalInv
  <1>4. /\ compared = [incumbent |-> scores["incumbent"], candidate |-> scores["candidate"]]
        /\ config = GateConfig(Settings)
        /\ answer = "yes" \/ answer = "no"
    BY <1>1 DEF EvalInv, GateInv, GateTypes
  <1>5. /\ compared' = [incumbent |-> scores'["incumbent"], candidate |-> scores'["candidate"]]
        /\ config' = (GateConfig(Settings))'
        /\ answer' = answer
    BY <1>1, <1>4, FilesKept DEF gateVars
  <1> QED
    BY <1>1, <1>2, <1>3, <1>4, <1>5 DEF EvalInv, Evaluators, Phases

\* The gate's sums are those of the scores of the tasks both sides have.
LEMMA SumsOfScores ==
    ASSUME GateTypes
    PROVE  LET c == SumFunction([t \in Tasks |-> compared.candidate[t]])
               i == SumFunction([t \in Tasks |-> compared.incumbent[t]])
           IN SumDelta = c - i /\ SumIncumbent = i /\ c \in Nat /\ i \in Nat
  <1> DEFINE c == [t \in Tasks |-> compared.candidate[t]]
             i == [t \in Tasks |-> compared.incumbent[t]]
  <1>1. IsFiniteSet(Tasks) /\ Delta \in [Tasks -> Int] /\ DOMAIN Delta = Tasks
    BY SumTypes DEF Delta
  <1>2. \A t \in Tasks : compared.incumbent[t] \in Nat /\ compared.candidate[t] \in Nat
    BY DEF GateTypes, ScoresType, Tasks
  <1>3. /\ c \in [Tasks -> Nat] /\ i \in [Tasks -> Nat]
        /\ c \in [Tasks -> Int] /\ i \in [Tasks -> Int]
        /\ DOMAIN c = Tasks /\ DOMAIN i = Tasks
    BY <1>2
  <1>4. \A t \in Tasks : Delta[t] = c[t] - i[t]
    BY DEF Delta
  <1>5. SumIncumbent = SumFunction(i)
    BY DEF SumIncumbent
  <1> HIDE DEF c, i
  <1>6. /\ SumDelta = SumFunctionOnSet(Delta, Tasks)
        /\ SumFunction(c) = SumFunctionOnSet(c, Tasks)
        /\ SumFunction(i) = SumFunctionOnSet(i, Tasks)
    BY <1>1, <1>3 DEF SumDelta, SumFunction
  <1>7. SumFunctionOnSet(Delta, Tasks) = SumFunctionOnSet(c, Tasks) - SumFunctionOnSet(i, Tasks)
    BY <1>1, <1>3, <1>4, SumOfDifference
  <1>8. SumFunctionOnSet(c, Tasks) \in Nat /\ SumFunctionOnSet(i, Tasks) \in Nat
    BY <1>1, <1>3, SumOfNaturals
  <1>9. SumDelta = SumFunction(c) - SumFunction(i) /\ SumFunction(c) \in Nat /\ SumFunction(i) \in Nat
    BY <1>6, <1>7, <1>8
  <1> QED
    BY <1>5, <1>9 DEF c, i

\* A candidate that reaches the floor gains, for the gain asked is positive.
LEMMA FloorIsGain ==
    ASSUME GateTypes, config.gain \in Positive, ReachesFloor
    PROVE  SumDelta > 0 /\ 100 * SumDelta >= config.gain * SumIncumbent
  <1>1. SumDelta \in Int /\ SumIncumbent \in Int /\ config.gain \in Nat /\ config.gain > 0
    BY SumTypes DEF Positive
  <1>2. CASE SumIncumbent > 0 /\ 100 * SumDelta >= config.gain * SumIncumbent
    <2>1. config.gain * SumIncumbent > 0 /\ config.gain * SumIncumbent \in Int
      BY <1>1, <1>2
    <2> QED
      BY <1>1, <1>2, <2>1
  <1>3. CASE SumIncumbent = 0 /\ SumDelta > 0
    <2>1. config.gain * SumIncumbent = 0
      BY <1>1, <1>3
    <2> QED
      BY <1>1, <1>3, <2>1
  <1> QED
    BY <1>2, <1>3 DEF ReachesFloor

\* What is promoted was compared on the common tasks and reached the floor.
LEMMA PromotedGains ==
    ASSUME EvalInv, pc = "promoted"
    PROVE  Gained
  <1>1. /\ compared = [incumbent |-> scores["incumbent"], candidate |-> scores["candidate"]]
        /\ config = GateConfig(Settings)
        /\ answer = "yes"
        /\ GateInv /\ GateTypes /\ chain \in Chains /\ Starts(Settings)
    BY DEF EvalInv, GateInv
  <1>2. ReachesFloor /\ Tasks # {}
    BY <1>1 DEF GateInv
  <1>3. GateConfig(Settings).gain \in Positive
    BY <1>1, StartedSettings
  <1>4. SumDelta > 0 /\ 100 * SumDelta >= config.gain * SumIncumbent
    BY <1>1, <1>2, <1>3, FloorIsGain
  <1>5. Tasks = Common
    BY <1>1 DEF Tasks, Common
  <1>6. /\ SumFunction([t \in Tasks |-> compared.candidate[t]]) = CommonTotal("candidate")
        /\ SumFunction([t \in Tasks |-> compared.incumbent[t]]) = CommonTotal("incumbent")
    BY <1>1, <1>5 DEF CommonTotal
  <1>7. /\ SumDelta = CommonTotal("candidate") - CommonTotal("incumbent")
        /\ SumIncumbent = CommonTotal("incumbent")
        /\ CommonTotal("candidate") \in Nat /\ CommonTotal("incumbent") \in Nat
    BY <1>1, <1>6, SumsOfScores
  <1>8. CommonTotal("candidate") > CommonTotal("incumbent")
    BY <1>4, <1>7
  <1> QED
    BY <1>1, <1>2, <1>4, <1>5, <1>7, <1>8 DEF Gained

\* The rollback of a promotion is asked about what was promoted.
LEMMA AskKeepsInv ==
    ASSUME EvalInv, AskRollback
    PROVE  EvalInv'
  <1>1. /\ UNCHANGED <<chain, salt, episodes, scores>>
        /\ pc = "promoted" /\ pc' = "rolling back"
        /\ chain \in Chains /\ Starts(Settings)
    BY DEF AskRollback, EvalInv
  <1>2. PICK e \in Evaluators :
           ShouldPromote(scores["candidate"], scores[e], GateConfig(Settings))
    BY DEF AskRollback, ShouldRollback
  <1>3. EpisodesPerTask \in Positive /\ GateConfig(Settings).samples \in Nat
    BY <1>1, StartedSettings
  <1>4. ScoresType(scores["candidate"]) /\ ScoresType(scores[e])
    BY <1>3, HandedOverIsScores DEF EvalInv, Evaluators
  <1>5. GateInv'
    BY <1>2, <1>3, <1>4, CallStartsGate
  <1>6. /\ compared' = [incumbent |-> scores'["candidate"], candidate |-> scores'[e]]
        /\ config' = (GateConfig(Settings))'
    BY <1>1, <1>2, FilesKept DEF ShouldPromote
  <1>7. Gained
    BY <1>1, PromotedGains
  <1>8. Gained'
    BY <1>1, <1>7, FilesKept DEF Gained, Common, CommonTotal
  <1>9. (\A d \in Evaluators : IsHandedOver(scores[d]))' /\ (Starts(Settings))'
    BY <1>1, FilesKept DEF EvalInv
  <1> QED
    BY <1>1, <1>5, <1>6, <1>8, <1>9 DEF EvalInv, Evaluators, Phases

\* Every step keeps the invariant.
LEMMA EvalStep == EvalInv /\ [Next]_vars => EvalInv'
  <1> SUFFICES ASSUME EvalInv, [Next]_vars PROVE EvalInv'
    OBVIOUS
  <1>1. CASE UNCHANGED vars
    <2>1. UNCHANGED <<gateVars, chain, pc, salt, episodes, scores>>
      BY <1>1 DEF vars
    <2>2. GateInv'
      BY <2>1 DEF EvalInv, GateInv, GateTypes, gateVars, Tasks, Delta, ReachesFloor, BelowFloor,
                  SumDelta, SumIncumbent, Significant
    <2>3. /\ (\A e \in Evaluators : IsHandedOver(scores[e]))'
          /\ (pc # "ended" => Starts(Settings))'
          /\ (pc \in Evaluators => Len(episodes) <= LastEpisode)'
      BY <2>1, FilesKept DEF EvalInv
    <2>4. UNCHANGED <<compared, config, answer>> /\ (Gained => Gained')
          /\ (GateConfig(Settings))' = GateConfig(Settings)
      BY <2>1, FilesKept DEF gateVars, Gained, Common, CommonTotal
    <2> QED
      BY <2>1, <2>2, <2>3, <2>4 DEF EvalInv
  <1> QED
    BY <1>1, EpisodeKeepsInv, HandOverKeepsInv, DiscardKeepsInv, BootstrapKeepsInv,
       VerdictKeepsInv, AskKeepsInv DEF Next

-----------------------------------------------------------------------------
(* The theorems                                                            *)

\* The invariant holds for ever.
THEOREM EvaluationInvariant == Spec => []EvalInv
  BY EvalStarts, EvalStep, PTL DEF Spec

\* Every variable of a comparison keeps its type: scores are a report, none, or
\* those of the suite, each from as many episodes as the files ask for.
THEOREM EvaluationTypeCorrect == Spec => []TypeOK
  <1>1. EvalInv => TypeOK
    <2> SUFFICES ASSUME EvalInv PROVE TypeOK
      OBVIOUS
    <2>1. \A e \in Evaluators : \/ scores[e] \in Reports \cup {NoScores}
                                \/ scores[e] \in [SuiteTasks -> 0 .. Unit * EpisodesPerTask]
      BY DEF EvalInv, IsHandedOver
    <2>2. /\ drawn \in 0 .. config.samples /\ worse \in 0 .. drawn
          /\ answer \in {"none", "yes", "no"}
      BY DEF EvalInv, GateInv, GateTypes
    <2> QED
      BY <2>1, <2>2 DEF EvalInv, TypeOK
  <1> QED
    BY <1>1, EvaluationInvariant, PTL

\* Every setting of evaluations and gate is the one of the most specific file
\* that decides it, for chains of any length and files of any depth.
THEOREM SettingsAreMostSpecific == Spec => []SettingsMostSpecific
  <1>1. EvalInv => SettingsMostSpecific
    BY ChainReadsMostSpecific DEF EvalInv
  <1> QED
    BY <1>1, EvaluationInvariant, PTL

\* A promoted candidate gains what the floor asks for on the tasks both results
\* have, of which there are some, whatever was reported, drawn or lost.
THEOREM PromotionsAreGains == Spec => []PromotionIsGain
  <1>1. EvalInv => PromotionIsGain
    BY PromotedGains DEF PromotionIsGain, Gained, Common, CommonTotal
  <1> QED
    BY <1>1, EvaluationInvariant, PTL

\* On the evaluations it was promoted by, a harness is never rolled back.
THEOREM PromotionsAreNotUndone == Spec => []PromotionNotUndone
  <1>1. EvalInv => PromotionNotUndone
    <2> SUFFICES ASSUME EvalInv, pc = "rolling back", answer = "yes" PROVE FALSE
      BY DEF PromotionNotUndone
    <2>1. /\ GateInv /\ GateTypes /\ Gained /\ config = GateConfig(Settings)
          /\ chain \in Chains /\ Starts(Settings)
      BY DEF EvalInv, GateInv
    <2>2. PICK e \in Evaluators :
             compared = [incumbent |-> scores["candidate"], candidate |-> scores[e]]
      BY DEF EvalInv
    <2>3. ReachesFloor
      BY <2>1 DEF GateInv
    <2>4. config.gain \in Positive
      BY <2>1, StartedSettings
    <2>5. SumDelta > 0 /\ SumDelta \in Int
      BY <2>1, <2>3, <2>4, FloorIsGain, SumTypes
    <2> DEFINE before == SumFunction([t \in Tasks |-> compared.incumbent[t]])
               after  == SumFunction([t \in Tasks |-> compared.candidate[t]])
    <2>6. SumDelta = after - before /\ after \in Nat /\ before \in Nat
      BY <2>1, SumsOfScores
    <2>7. CASE e = "candidate"
      <3>1. after = before
        BY <2>2, <2>7
      <3> HIDE DEF before, after
      <3> QED
        BY ONLY <2>5, <2>6, <3>1
    <2>8. CASE e = "incumbent"
      <3>1. Tasks = Common
        BY <2>2, <2>8 DEF Tasks, Common
      <3>2. after = CommonTotal("incumbent") /\ before = CommonTotal("candidate")
        BY <2>2, <2>8, <3>1 DEF CommonTotal
      <3>3. CommonTotal("candidate") > CommonTotal("incumbent")
        BY <2>1 DEF Gained
      <3>4. before > after
        BY <3>2, <3>3
      <3> HIDE DEF before, after
      <3> QED
        BY ONLY <2>5, <2>6, <3>4
    <2> QED
      BY <2>7, <2>8 DEF Evaluators
  <1> QED
    BY <1>1, EvaluationInvariant, PTL

\* The pseudo-random stream decides mixed results only.
THEOREM StreamDecidesMixed == Spec => []StreamDecidesMixedOnly
  <1>1. EvalInv => StreamDecidesMixedOnly
    <2> SUFFICES ASSUME EvalInv, pc \in {"promoted", "not promoted"}
                 PROVE  /\ ( /\ Tasks # {} /\ \A t \in Tasks : Delta[t] > 0
                             /\ 100 * SumDelta > config.gain * SumIncumbent ) => pc = "promoted"
                        /\ (\A t \in Tasks : Delta[t] <= 0) => pc = "not promoted"
      BY DEF StreamDecidesMixedOnly
    <2>1. /\ GateInv /\ GateTypes /\ config = GateConfig(Settings)
          /\ pc = "promoted" => answer = "yes"
          /\ pc = "not promoted" => answer = "no"
          /\ chain \in Chains /\ Starts(Settings)
      BY DEF EvalInv, GateInv
    <2>2. config.gain \in Positive /\ config.alpha \in Positive /\ config.samples \in Nat
      BY <2>1, StartedSettings
    <2>3. /\ IsFiniteSet(Tasks) /\ Delta \in [Tasks -> Int]
          /\ SumDelta = SumFunctionOnSet(Delta, Tasks)
      <3>1. DOMAIN Delta = Tasks
        BY DEF Delta
      <3> QED
        BY <2>1, <3>1, SumTypes DEF SumDelta, SumFunction
    <2>4. SumDelta \in Int /\ SumIncumbent \in Int
      BY <2>1, SumTypes
    <2>5. /\ config.gain \in Int /\ config.alpha \in Int /\ config.alpha > 0
          /\ config.gain * SumIncumbent \in Int
      <3>1. config.gain \in Int /\ config.alpha \in Int /\ config.alpha > 0
        BY ONLY <2>2, PositiveNumbers
      <3> QED
        BY ONLY <2>4, <3>1
    <2>6. ASSUME Tasks # {}, \A t \in Tasks : Delta[t] > 0,
                 100 * SumDelta > config.gain * SumIncumbent, pc = "not promoted"
          PROVE  FALSE
      <3>1. SumDelta > 0
        BY <2>3, <2>6, SumOfPositive
      <3>2. ~BelowFloor
        <4>1. ~(100 * SumDelta <= config.gain * SumIncumbent) /\ ~(SumDelta <= 0)
          <5>1. 100 * SumDelta > config.gain * SumIncumbent
            BY <2>6
          <5> QED
            BY ONLY <2>4, <2>5, <3>1, <5>1
        <4> QED
          BY <4>1 DEF BelowFloor
      <3>3. worse = 0 /\ drawn > 0 /\ drawn = config.samples /\ ~Significant
        BY <2>1, <2>6, <3>2 DEF GateInv
      <3>4. config.samples \in Nat /\ config.samples > 0
        BY <2>2, <3>3
      <3>5. 0 * 100 < config.alpha * config.samples
        BY ONLY <2>5, <3>4
      <3> QED
        BY <3>3, <3>5 DEF Significant
    <2>7. ASSUME \A t \in Tasks : Delta[t] <= 0, pc = "promoted"
          PROVE  FALSE
      <3>1. SumDelta <= 0
        BY <2>3, <2>7, SumOfNonPositive
      <3>2. ReachesFloor
        BY <2>1, <2>7 DEF GateInv
      <3>3. SumDelta > 0
        BY <2>1, <2>2, <3>2, FloorIsGain
      <3> QED
        BY ONLY <2>4, <3>1, <3>3
    <2> QED
      BY <2>6, <2>7
  <1> QED
    BY <1>1, EvaluationInvariant, PTL
=============================================================================
