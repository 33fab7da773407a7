--------------------------- MODULE ProposalProofs ---------------------------
(***************************************************************************)
(* From the traces to a proposed patch, for any traces, sizes, answers and *)
(* patches: the walk in memory and the queries agree on the traces, the    *)
(* request holds the newest lines that fit, the benchmark measures the     *)
(* engine's own window, no flagged answer is proposed, and a proposed      *)
(* source gives the loader the class the gates have checked.               *)
(*                                                                         *)
(* The window is a fold over the traces.  The folds of the library are     *)
(* functions on the subsets of the positions; each is shown to exist, and  *)
(* then followed from 1 .. k - 1 to 1 .. k.                                *)
(***************************************************************************)
EXTENDS Proposal, DataInduction

-----------------------------------------------------------------------------
(* Greatest elements and folds                                             *)

\* A set of positive numbers up to a bound has a greatest element: the least
\* one among its upper bounds.
LEMMA GreatestExists ==
    ASSUME NEW n \in Nat, NEW S, S \subseteq 1 .. n, S # {}
    PROVE  \E i \in S : \A j \in S : j <= i
  <1> DEFINE Bounds == {k \in Nat : \A j \in S : j <= k}
  <1>1. n \in Bounds
    OBVIOUS
  <1>2. PICK k \in Bounds : \A m \in Bounds : k <= m
    <2>1. Bounds \subseteq Nat /\ Bounds # {}
      BY <1>1
    <2> HIDE DEF Bounds
    <2> QED
      BY <2>1, LeastOfNaturals
  <1>3. k \in S
    <2> SUFFICES ASSUME k \notin S PROVE FALSE
      OBVIOUS
    <2>1. k \in Nat /\ \A j \in S : j \in Int /\ 1 <= j /\ j <= k /\ j # k
      BY <1>2
    <2>2. \A j \in S : j <= k - 1
      BY <2>1
    <2>3. k - 1 \in Nat
      <3>1. PICK j \in S : TRUE
        OBVIOUS
      <3> QED
        BY <2>1, <3>1
    <2>4. k - 1 \in Bounds
      BY <2>2, <2>3
    <2>5. k <= k - 1
      BY <1>2, <2>4
    <2> QED
      BY <2>1, <2>5
  <1> QED
    BY <1>2, <1>3

LEMMA GreatestElement ==
    ASSUME NEW n \in Nat, NEW S, S \subseteq 1 .. n, S # {}
    PROVE  Max(S) \in S
  <1>1. \E i \in S : \A j \in S : i >= j
    BY GreatestExists
  <1> QED
    BY <1>1 DEF Max

LEMMA GreatestOfPrefix ==
    ASSUME NEW k \in Nat \ {0}
    PROVE  Max(1 .. k) = k /\ (1 .. k) \ {k} = 1 .. k - 1 /\ 1 .. k # {}
  <1>1. k \in 1 .. k /\ \A j \in 1 .. k : k >= j
    OBVIOUS
  <1>2. Max(1 .. k) \in 1 .. k /\ \A j \in 1 .. k : Max(1 .. k) >= j
    BY <1>1 DEF Max
  <1>3. Max(1 .. k) >= k /\ Max(1 .. k) <= k /\ Max(1 .. k) \in Int
    BY <1>1, <1>2
  <1> QED
    BY <1>1, <1>3

\* iter is what FoldLeft iterates over the subsets of 1 .. n, when h combines
\* the value for a set without its greatest element with that element.
Iterates(iter, n, base, h) ==
    /\ iter[{}] = base
    /\ \A T \in SUBSET (1 .. n) : T # {} => iter[T] = h[<<Max(T), iter[T \ {Max(T)}]>>]

LEMMA IterationExists ==
    ASSUME NEW n \in Nat, NEW V, NEW base \in V, NEW h \in [(1 .. n) \X V -> V]
    PROVE  \E iter \in [SUBSET (1 .. n) -> V] : Iterates(iter, n, base, h)
  <1> DEFINE S == 1 .. n
             pick == [T \in SUBSET S |-> Max(T)]
  <1>1. ASSUME NEW T \in SUBSET S, T # {} PROVE Max(T) \in T
    BY <1>1, GreatestElement
  <1>2. \A T \in SUBSET S : T # {} => pick[T] \in T
    BY <1>1
  <1>3. IsFiniteSet(S)
    BY FS_Interval
  <1>4. PICK iter \in [SUBSET S -> V] : FollowsSets(iter, S, base, h, pick)
    <2> HIDE DEF S, pick
    <2>1. h \in [S \X V -> V]
      BY DEF S
    <2> QED
      BY <1>2, <1>3, <2>1, FiniteSetRecursion
  <1>5. Iterates(iter, n, base, h)
    BY <1>4 DEF FollowsSets, Iterates
  <1> QED
    BY <1>4, <1>5

-----------------------------------------------------------------------------
(* Sums of sequences                                                       *)

\* sums[k] is b and the first k numbers.
Sums(sums, b, numbers) ==
    /\ sums \in [0 .. Len(numbers) -> Int]
    /\ sums[0] = b
    /\ \A k \in 1 .. Len(numbers) : sums[k] = sums[k - 1] + numbers[k]

LEMMA SumOfSequence ==
    ASSUME NEW numbers \in Seq(Int), NEW b \in Int
    PROVE  \E sums : Sums(sums, b, numbers) /\ FoldLeft(+, b, numbers) = sums[Len(numbers)]
  <1> DEFINE n == Len(numbers)
             Equation(iter) ==
               iter = [T \in SUBSET DOMAIN numbers |->
                         IF T = {} THEN b
                         ELSE iter[T \ {Max(T)}] + numbers[Max(T)]]
             h == [p \in (1 .. n) \X Int |-> p[2] + numbers[p[1]]]
  <1>1. FoldLeft(+, b, numbers) = (CHOOSE iter : Equation(iter))[DOMAIN numbers]
    BY DEF FoldLeft, MapThenFoldSet
  <1>2. n \in Nat /\ DOMAIN numbers = 1 .. n /\ \A i \in 1 .. n : numbers[i] \in Int
    OBVIOUS
  <1> HIDE DEF n
  <1>3. \E iter : Equation(iter)
    <2>1. h \in [(1 .. n) \X Int -> Int]
      BY <1>2
    <2>2. PICK iter \in [SUBSET (1 .. n) -> Int] : Iterates(iter, n, b, h)
      <3> HIDE DEF h
      <3> QED
        BY <1>2, <2>1, IterationExists
    <2>3. ASSUME NEW T \in SUBSET (1 .. n), T # {}
          PROVE  iter[T] = iter[T \ {Max(T)}] + numbers[Max(T)]
      <3>1. Max(T) \in T
        BY <1>2, <2>3, GreatestElement
      <3>2. Max(T) \in 1 .. n /\ iter[T \ {Max(T)}] \in Int
        BY <3>1
      <3> QED
        BY <2>2, <2>3, <3>2 DEF Iterates
    <2>4. Equation(iter)
      BY <1>2, <2>2, <2>3 DEF Iterates
    <2> QED
      BY <2>4
  <1> DEFINE iter == CHOOSE it : Equation(it)
             sums == [k \in 0 .. n |-> iter[1 .. k]]
  <1>4. Equation(iter)
    BY <1>3
  <1> HIDE DEF iter
  <1>5. iter[{}] = b /\ 1 .. 0 = {}
    BY <1>2, <1>4
  <1>6. ASSUME NEW k \in 1 .. n PROVE iter[1 .. k] = iter[1 .. k - 1] + numbers[k]
    <2>1. 1 .. k \in SUBSET DOMAIN numbers
      BY <1>2
    <2>2. Max(1 .. k) = k /\ (1 .. k) \ {k} = 1 .. k - 1 /\ 1 .. k # {}
      BY GreatestOfPrefix
    <2> QED
      BY <1>4, <2>1, <2>2
  <1>7. \A k \in Nat : k <= n => iter[1 .. k] \in Int
    <2> DEFINE P == {k \in Nat : k <= n => iter[1 .. k] \in Int}
    <2>1. 0 \in P
      BY <1>5
    <2>2. ASSUME NEW k \in Nat, k \in P PROVE k + 1 \in P
      <3> SUFFICES ASSUME k + 1 <= n PROVE iter[1 .. k + 1] \in Int
        OBVIOUS
      <3>1. k + 1 \in 1 .. n /\ (k + 1) - 1 = k /\ iter[1 .. k] \in Int
        BY <1>2, <2>2
      <3>2. numbers[k + 1] \in Int /\ iter[1 .. k + 1] = iter[1 .. k] + numbers[k + 1]
        BY <1>2, <1>6, <3>1
      <3> QED
        BY <3>1, <3>2
    <2> HIDE DEF P
    <2>3. \A k \in Nat : k \in P
      BY <2>1, <2>2, NatSetInduction
    <2> QED
      BY <2>3 DEF P
  <1>8. Sums(sums, b, numbers)
    <2>1. sums \in [0 .. n -> Int]
      BY <1>2, <1>7
    <2>2. sums[0] = b
      BY <1>2, <1>5
    <2>3. \A k \in 1 .. n : sums[k] = sums[k - 1] + numbers[k]
      BY <1>2, <1>6
    <2> QED
      BY <2>1, <2>2, <2>3 DEF Sums, n
  <1>9. sums[n] = iter[DOMAIN numbers]
    BY <1>2
  <1> QED
    BY <1>1, <1>8, <1>9 DEF n, iter

-----------------------------------------------------------------------------
(* Windows                                                                 *)

Windows(E) == [open : BOOLEAN, used : Int, out : Seq(E)]
EmptyWindow == [open |-> TRUE, used |-> 0, out |-> <<>>]

\* w[k] is the window after the k newest events.
Serializing(w, lines, E, budget) ==
    /\ w \in [0 .. Len(lines) -> Windows(E)]
    /\ w[0] = EmptyWindow
    /\ \A k \in 1 .. Len(lines) :
          w[k] = Keep(w[k - 1], lines[Len(lines) - k + 1], budget)

LEMMA KeepType ==
    ASSUME NEW E, \A e \in E : e.size \in Nat, NEW w \in Windows(E), NEW e \in E,
           NEW budget \in Int
    PROVE  Keep(w, e, budget) \in Windows(E)
  <1>1. Line(e) \in Int
    BY LineAssumption DEF Line
  <1>2. <<e>> \o w.out \in Seq(E) /\ w.used + Line(e) + 1 \in Int
    BY <1>1 DEF Windows
  <1> QED
    BY <1>2 DEF Keep, Windows

\* The windows that the fold of _serialize_traces goes through, for every set of
\* positions from the end.
Turns(iter, lines, E, budget) ==
    /\ iter \in [SUBSET (1 .. Len(lines)) -> Windows(E)]
    /\ iter[{}] = EmptyWindow
    /\ \A T \in SUBSET (1 .. Len(lines)) :
          T # {} => iter[T] = Keep(iter[T \ {Max(T)}], Reverse(lines)[Max(T)], budget)

LEMMA ReverseElements ==
    ASSUME NEW E, NEW lines \in Seq(E)
    PROVE  /\ Len(lines) \in Nat /\ DOMAIN Reverse(lines) = 1 .. Len(lines)
           /\ \A i \in 1 .. Len(lines) :
                 /\ Reverse(lines)[i] \in E
                 /\ Reverse(lines)[i] = lines[Len(lines) - i + 1]
  BY DEF Reverse

LEMMA TurnsExist ==
    ASSUME NEW E, \A e \in E : e.size \in Nat, NEW lines \in Seq(E), NEW budget \in Int
    PROVE  \E iter : Turns(iter, lines, E, budget)
  <1> DEFINE n == Len(lines)
             r == Reverse(lines)
             h == [p \in (1 .. n) \X Windows(E) |-> Keep(p[2], r[p[1]], budget)]
  <1>1. n \in Nat /\ \A i \in 1 .. n : r[i] \in E
    BY ReverseElements
  <1>2. EmptyWindow \in Windows(E)
    BY DEF EmptyWindow, Windows
  <1> HIDE DEF n, r
  <1>3. h \in [(1 .. n) \X Windows(E) -> Windows(E)]
    BY <1>1, KeepType
  <1>4. PICK iter \in [SUBSET (1 .. n) -> Windows(E)] : Iterates(iter, n, EmptyWindow, h)
    <2> HIDE DEF h
    <2> QED
      BY <1>1, <1>2, <1>3, IterationExists
  <1>5. ASSUME NEW T \in SUBSET (1 .. n), T # {}
        PROVE  iter[T] = Keep(iter[T \ {Max(T)}], r[Max(T)], budget)
    <2>1. Max(T) \in T
      BY <1>1, <1>5, GreatestElement
    <2>2. Max(T) \in 1 .. n /\ iter[T \ {Max(T)}] \in Windows(E)
      BY <2>1
    <2> QED
      BY <1>4, <1>5, <2>2 DEF Iterates
  <1>6. iter[{}] = EmptyWindow
    BY <1>4 DEF Iterates
  <1> QED
    BY <1>4, <1>5, <1>6 DEF Turns, n, r

LEMMA SerializeByLine ==
    ASSUME NEW E, \A e \in E : e.size \in Nat, NEW lines \in Seq(E), NEW tokens \in Int
    PROVE  \E w : /\ Serializing(w, lines, E, tokens * BytesPerToken)
                  /\ Serialize(lines, tokens) = w[Len(lines)].out
  <1> DEFINE n == Len(lines)
             r == Reverse(lines)
             budget == tokens * BytesPerToken
             Equation(iter) ==
               iter = [T \in SUBSET DOMAIN r |->
                         IF T = {} THEN EmptyWindow
                         ELSE Keep(iter[T \ {Max(T)}], r[Max(T)], budget)]
  <1>1. Serialize(lines, tokens) = (CHOOSE iter : Equation(iter))[DOMAIN r].out
    BY DEF Serialize, FoldLeft, MapThenFoldSet, EmptyWindow
  <1>2. /\ n \in Nat /\ DOMAIN r = 1 .. n
        /\ \A i \in 1 .. n : r[i] \in E /\ r[i] = lines[n - i + 1]
    BY ReverseElements
  <1>3. budget \in Int
    BY DEF BytesPerToken
  <1>4. EmptyWindow \in Windows(E)
    BY DEF EmptyWindow, Windows
  <1>5. \E iter : Equation(iter)
    <2>1. PICK iter : Turns(iter, lines, E, budget)
      <3> HIDE DEF budget
      <3> QED
        BY <1>3, TurnsExist
    <2>2. Equation(iter)
      BY <1>2, <2>1 DEF Turns
    <2> QED
      BY <2>2
  <1> HIDE DEF n, r, budget
  <1> DEFINE iter == CHOOSE it : Equation(it)
             w == [k \in 0 .. n |-> iter[1 .. k]]
  <1>6. Equation(iter)
    BY <1>5
  <1> HIDE DEF iter
  <1>7. iter[{}] = EmptyWindow /\ 1 .. 0 = {}
    BY <1>2, <1>6
  <1>8. ASSUME NEW k \in 1 .. n PROVE iter[1 .. k] = Keep(iter[1 .. k - 1], r[k], budget)
    <2>1. 1 .. k \in SUBSET DOMAIN r
      BY <1>2
    <2>2. Max(1 .. k) = k /\ (1 .. k) \ {k} = 1 .. k - 1 /\ 1 .. k # {}
      BY GreatestOfPrefix
    <2> QED
      BY <1>6, <2>1, <2>2
  <1>9. \A k \in Nat : k <= n => iter[1 .. k] \in Windows(E)
    <2> DEFINE P == {k \in Nat : k <= n => iter[1 .. k] \in Windows(E)}
    <2>1. 0 \in P
      BY <1>4, <1>7
    <2>2. ASSUME NEW k \in Nat, k \in P PROVE k + 1 \in P
      <3> SUFFICES ASSUME k + 1 <= n PROVE iter[1 .. k + 1] \in Windows(E)
        OBVIOUS
      <3>1. k + 1 \in 1 .. n /\ (k + 1) - 1 = k /\ iter[1 .. k] \in Windows(E)
        BY <1>2, <2>2
      <3>2. r[k + 1] \in E /\ iter[1 .. k + 1] = Keep(iter[1 .. k], r[k + 1], budget)
        BY <1>2, <1>8, <3>1
      <3> QED
        BY <1>3, <3>1, <3>2, KeepType
    <2> HIDE DEF P
    <2>3. \A k \in Nat : k \in P
      BY <2>1, <2>2, NatSetInduction
    <2> QED
      BY <2>3 DEF P
  <1>10. Serializing(w, lines, E, budget)
    <2>1. w \in [0 .. n -> Windows(E)]
      BY <1>2, <1>9
    <2>2. w[0] = EmptyWindow
      BY <1>2, <1>7
    <2>3. \A k \in 1 .. n : w[k] = Keep(w[k - 1], lines[n - k + 1], budget)
      BY <1>2, <1>8
    <2> QED
      BY <2>1, <2>2, <2>3 DEF Serializing, n
  <1>11. w[n] = iter[DOMAIN r]
    BY <1>2
  <1> QED
    BY <1>1, <1>10, <1>11 DEF n, iter, budget

-----------------------------------------------------------------------------
(* The mirror of the benchmark                                             *)

\* The mirror's state next to a window of the engine, and its turn.
Mirror(w) == [open |-> w.open, used |-> w.used, steps |-> {e.step : e \in ToSet(w.out)}]
MirrorTurn(kept, e, budget) ==
    IF ~kept.open \/ kept.used + Line(e) > budget
    THEN [kept EXCEPT !.open = FALSE]
    ELSE [open |-> TRUE, used |-> kept.used + Line(e) + 1, steps |-> kept.steps \cup {e.step}]

LEMMA PrependedElements ==
    \A E : \A e \in E, s \in Seq(E) : ToSet(<<e>> \o s) = {e} \cup ToSet(s)
  <1> SUFFICES ASSUME NEW E, NEW e \in E, NEW s \in Seq(E)
               PROVE  ToSet(<<e>> \o s) = {e} \cup ToSet(s)
    OBVIOUS
  <1> DEFINE t == <<e>> \o s
  <1>1. /\ t \in Seq(E) /\ Len(t) = Len(s) + 1 /\ t[1] = e
        /\ \A i \in 1 .. Len(s) : t[i + 1] = s[i]
    OBVIOUS
  <1>2. DOMAIN t = 1 .. Len(s) + 1 /\ DOMAIN s = 1 .. Len(s) /\ Len(s) \in Nat
    BY <1>1
  <1> HIDE DEF t
  <1>3. ASSUME NEW x \in ToSet(t) PROVE x \in {e} \cup ToSet(s)
    <2>1. PICK i \in 1 .. Len(s) + 1 : x = t[i]
      BY <1>2, <1>3 DEF ToSet
    <2>2. CASE i = 1
      BY <1>1, <2>1, <2>2
    <2>3. CASE i # 1
      <3>1. i - 1 \in 1 .. Len(s) /\ (i - 1) + 1 = i
        BY <1>2, <2>3
      <3>2. x = s[i - 1]
        BY <1>1, <2>1, <3>1
      <3> QED
        BY <1>2, <3>1, <3>2 DEF ToSet
    <2> QED
      BY <2>2, <2>3
  <1>4. e \in ToSet(t)
    BY <1>1, <1>2 DEF ToSet
  <1>5. ASSUME NEW x \in ToSet(s) PROVE x \in ToSet(t)
    <2>1. PICK i \in 1 .. Len(s) : x = s[i]
      BY <1>2, <1>5 DEF ToSet
    <2>2. i + 1 \in 1 .. Len(s) + 1 /\ x = t[i + 1]
      BY <1>1, <1>2, <2>1
    <2> QED
      BY <1>2, <2>2 DEF ToSet
  <1>6. ToSet(t) = {e} \cup ToSet(s)
    BY <1>3, <1>4, <1>5
  <1> QED
    BY <1>6 DEF t

LEMMA MirrorFollows ==
    ASSUME NEW E, NEW w \in Windows(E), NEW e \in E, NEW budget
    PROVE  Mirror(Keep(w, e, budget)) = MirrorTurn(Mirror(w), e, budget)
  <1>1. CASE ~w.open \/ w.used + Line(e) > budget
    BY <1>1 DEF Mirror, Keep, MirrorTurn, Windows
  <1>2. CASE ~(~w.open \/ w.used + Line(e) > budget)
    <2>1. Mirror(w).open /\ ~(Mirror(w).used + Line(e) > budget)
      BY <1>2 DEF Mirror
    <2>2. ToSet(<<e>> \o w.out) = {e} \cup ToSet(w.out)
      <3>1. w.out \in Seq(E)
        BY DEF Windows
      <3>2. w.out \in Seq(E) => ToSet(<<e>> \o w.out) = {e} \cup ToSet(w.out)
        BY PrependedElements
      <3> QED
        BY <3>1, <3>2
    <2>3. {x.step : x \in ToSet(<<e>> \o w.out)} = {x.step : x \in ToSet(w.out)} \cup {e.step}
      BY <2>2
    <2> QED
      BY <1>2, <2>1, <2>3 DEF Mirror, Keep, MirrorTurn
  <1> QED
    BY <1>1, <1>2

\* The steps the benchmark's mirror keeps are those of the engine's window.
LEMMA MirrorIsExact ==
    ASSUME NEW E, \A e \in E : e.size \in Nat, NEW lines \in Seq(E), NEW tokens \in Int
    PROVE  KeptSteps(lines, tokens) = {e.step : e \in ToSet(Serialize(lines, tokens))}
  <1> DEFINE n == Len(lines)
             r == Reverse(lines)
             budget == tokens * BytesPerToken
             Equation(iter) ==
               iter = [T \in SUBSET DOMAIN r |->
                         IF T = {} THEN [open |-> TRUE, used |-> 0, steps |-> {}]
                         ELSE MirrorTurn(iter[T \ {Max(T)}], r[Max(T)], budget)]
  <1>1. KeptSteps(lines, tokens) = (CHOOSE iter : Equation(iter))[DOMAIN r].steps
    BY DEF KeptSteps, FoldLeft, MapThenFoldSet, MirrorTurn
  <1>2. /\ n \in Nat /\ DOMAIN r = 1 .. n
        /\ \A i \in 1 .. n : r[i] \in E /\ r[i] = lines[n - i + 1]
    BY ReverseElements
  <1>3. budget \in Int
    BY DEF BytesPerToken
  <1>4. Mirror(EmptyWindow) = [open |-> TRUE, used |-> 0, steps |-> {}]
    <2>1. ToSet(<<>>) = {}
      BY DEF ToSet
    <2>2. {e.step : e \in ToSet(EmptyWindow.out)} = {}
      BY <2>1 DEF EmptyWindow
    <2> QED
      BY <2>2 DEF Mirror, EmptyWindow
  <1>5. \E iter : Equation(iter)
    <2>1. PICK turns : Turns(turns, lines, E, budget)
      <3> HIDE DEF budget
      <3> QED
        BY <1>3, TurnsExist
    <2> DEFINE iter == [T \in SUBSET DOMAIN r |-> Mirror(turns[T])]
    <2>2. ASSUME NEW T \in SUBSET DOMAIN r, T # {}
          PROVE  Mirror(turns[T]) = MirrorTurn(Mirror(turns[T \ {Max(T)}]), r[Max(T)], budget)
      <3>1. Max(T) \in T
        BY <1>2, <2>2, GreatestElement
      <3>2. turns[T \ {Max(T)}] \in Windows(E) /\ r[Max(T)] \in E
        BY <1>2, <2>1, <3>1 DEF Turns
      <3>3. turns[T] = Keep(turns[T \ {Max(T)}], r[Max(T)], budget)
        BY <1>2, <2>1, <2>2 DEF Turns
      <3> QED
        BY <3>2, <3>3, MirrorFollows
    <2>3. turns[{}] = EmptyWindow
      BY <2>1 DEF Turns
    <2>4. Equation(iter)
      BY <1>4, <2>2, <2>3
    <2> QED
      BY <2>4
  <1>6. PICK w : /\ Serializing(w, lines, E, budget)
                 /\ Serialize(lines, tokens) = w[n].out
    BY SerializeByLine
  <1> HIDE DEF n, r, budget
  <1> DEFINE iter == CHOOSE it : Equation(it)
  <1>7. Equation(iter)
    BY <1>5
  <1> HIDE DEF iter
  <1>8. \A k \in Nat : k <= n => iter[1 .. k] = Mirror(w[k])
    <2> DEFINE P == {k \in Nat : k <= n => iter[1 .. k] = Mirror(w[k])}
    <2>1. 0 \in P
      <3>1. iter[{}] = Mirror(EmptyWindow) /\ 1 .. 0 = {}
        BY <1>4, <1>7
      <3> QED
        BY <1>6, <3>1 DEF Serializing
    <2>2. ASSUME NEW k \in Nat, k \in P PROVE k + 1 \in P
      <3> SUFFICES ASSUME k + 1 <= n PROVE iter[1 .. k + 1] = Mirror(w[k + 1])
        OBVIOUS
      <3>1. k + 1 \in 1 .. n /\ (k + 1) - 1 = k /\ iter[1 .. k] = Mirror(w[k]) /\ k \in 0 .. n
        BY <1>2, <2>2
      <3>2. Max(1 .. k + 1) = k + 1 /\ (1 .. k + 1) \ {k + 1} = 1 .. k /\ 1 .. k + 1 # {}
        BY <3>1, GreatestOfPrefix
      <3>3. iter[1 .. k + 1] = MirrorTurn(iter[1 .. k], r[k + 1], budget)
        <4>1. 1 .. k + 1 \in SUBSET DOMAIN r
          BY <1>2, <3>1
        <4> QED
          BY <1>7, <3>2, <4>1
      <3>4. w[k + 1] = Keep(w[k], r[k + 1], budget) /\ w[k] \in Windows(E) /\ r[k + 1] \in E
        BY <1>2, <1>6, <3>1 DEF Serializing, n
      <3> QED
        BY <3>1, <3>3, <3>4, MirrorFollows
    <2> HIDE DEF P
    <2>3. \A k \in Nat : k \in P
      BY <2>1, <2>2, NatSetInduction
    <2> QED
      BY <2>3 DEF P
  <1>9. iter[DOMAIN r] = Mirror(w[n])
    BY <1>2, <1>8
  <1> QED
    <2>1. Mirror(w[n]).steps = {e.step : e \in ToSet(w[n].out)}
      BY DEF Mirror
    <2>2. KeptSteps(lines, tokens) = iter[DOMAIN r].steps
      BY <1>1 DEF iter
    <2> QED
      BY <1>6, <1>9, <2>1, <2>2

-----------------------------------------------------------------------------
(* What the window holds                                                   *)

Lengths(lines) == [i \in DOMAIN lines |-> Line(lines[i]) + 1]

LEMMA LengthsType ==
    ASSUME NEW E, \A e \in E : e.size \in Nat, NEW lines \in Seq(E)
    PROVE  /\ Lengths(lines) \in Seq(Int) /\ Len(Lengths(lines)) = Len(lines)
           /\ \A i \in 1 .. Len(lines) :
                 Lengths(lines)[i] = Line(lines[i]) + 1 /\ Line(lines[i]) \in Nat
  <1>1. \A i \in 1 .. Len(lines) : Line(lines[i]) \in Nat
    BY LineAssumption DEF Line
  <1>2. Lengths(lines) = [i \in 1 .. Len(lines) |-> Line(lines[i]) + 1]
    BY DEF Lengths
  <1> QED
    BY <1>1, <1>2

LEMMA TextBySums ==
    ASSUME NEW E, \A e \in E : e.size \in Nat, NEW lines \in Seq(E)
    PROVE  \E F : Sums(F, -1, Lengths(lines)) /\ TextLength(lines) = F[Len(lines)]
  <1> DEFINE numbers == Lengths(lines)
  <1>1. numbers \in Seq(Int) /\ Len(numbers) = Len(lines)
    BY LengthsType
  <1>2. TextLength(lines) = FoldLeft(+, -1, numbers)
    BY DEF TextLength, Lengths
  <1> HIDE DEF numbers
  <1>3. PICK F : Sums(F, -1, numbers) /\ FoldLeft(+, -1, numbers) = F[Len(numbers)]
    <2>1. -1 \in Int
      OBVIOUS
    <2> QED
      BY <1>1, <2>1, SumOfSequence
  <1> QED
    BY <1>1, <1>2, <1>3 DEF numbers

LEMMA TextOfNothing == TextLength(<<>>) = -1
  <1>1. PICK sums : Sums(sums, -1, <<>>) /\ FoldLeft(+, -1, <<>>) = sums[Len(<<>>)]
    <2>1. <<>> \in Seq(Int) /\ -1 \in Int
      OBVIOUS
    <2> QED
      BY <2>1, SumOfSequence
  <1>2. [i \in DOMAIN <<>> |-> Line(<<>>[i]) + 1] = <<>>
    OBVIOUS
  <1>3. sums[0] = -1 /\ Len(<<>>) = 0
    BY <1>1 DEF Sums
  <1> QED
    BY <1>1, <1>2, <1>3 DEF TextLength

\* Text grows in front by a line and its newline.
LEMMA TextOfPrepended ==
    ASSUME NEW E, \A e \in E : e.size \in Nat, NEW e \in E, NEW lines \in Seq(E)
    PROVE  /\ TextLength(lines) \in Int
           /\ TextLength(<<e>> \o lines) = TextLength(lines) + Line(e) + 1
  <1> DEFINE n == Len(lines)
             more == <<e>> \o lines
  <1>1. /\ more \in Seq(E) /\ Len(more) = n + 1 /\ more[1] = e /\ n \in Nat
        /\ \A i \in 1 .. n : more[i + 1] = lines[i]
    OBVIOUS
  <1>2. PICK F : Sums(F, -1, Lengths(lines)) /\ TextLength(lines) = F[n]
    BY TextBySums
  <1> HIDE DEF more
  <1>3. PICK G : Sums(G, -1, Lengths(more)) /\ TextLength(more) = G[n + 1]
    BY <1>1, TextBySums
  <1>4. /\ F[0] = -1 /\ \A k \in 0 .. n : F[k] \in Int
        /\ \A k \in 1 .. n : F[k] = F[k - 1] + (Line(lines[k]) + 1)
    BY <1>2, LengthsType DEF Sums
  <1>5. /\ G[0] = -1
        /\ \A k \in 1 .. n + 1 : G[k] = G[k - 1] + (Line(more[k]) + 1)
        /\ \A k \in 1 .. n + 1 : Line(more[k]) \in Nat
    BY <1>1, <1>3, LengthsType DEF Sums
  <1>6. \A k \in Nat : k <= n => G[k + 1] = F[k] + Line(e) + 1
    <2> DEFINE P == {k \in Nat : k <= n => G[k + 1] = F[k] + Line(e) + 1}
    <2>1. 0 \in P
      <3>1. 1 \in 1 .. n + 1 /\ 0 \in 0 .. n
        BY <1>1
      <3>2. G[1] = G[1 - 1] + (Line(e) + 1) /\ 1 - 1 = 0 /\ Line(e) \in Int
        BY <1>1, <1>5, <3>1
      <3> QED
        BY <1>4, <1>5, <3>2
    <2>2. ASSUME NEW k \in Nat, k \in P PROVE k + 1 \in P
      <3> SUFFICES ASSUME k + 1 <= n PROVE G[(k + 1) + 1] = F[k + 1] + Line(e) + 1
        OBVIOUS
      <3>1. /\ k + 1 \in 1 .. n /\ k \in 0 .. n /\ (k + 1) - 1 = k
            /\ (k + 1) + 1 \in 1 .. n + 1 /\ ((k + 1) + 1) - 1 = k + 1
            /\ G[k + 1] = F[k] + Line(e) + 1
        BY <1>1, <2>2
      <3>2. more[(k + 1) + 1] = lines[k + 1]
        BY <1>1, <3>1
      <3>3. G[(k + 1) + 1] = G[k + 1] + (Line(lines[k + 1]) + 1)
        BY <1>5, <3>1, <3>2
      <3>4. F[k + 1] = F[k] + (Line(lines[k + 1]) + 1) /\ F[k] \in Int
        BY <1>4, <3>1
      <3>5. Line(lines[k + 1]) \in Int
        BY <1>5, <3>1, <3>2
      <3>6. Line(e) \in Int
        <4>1. 1 \in 1 .. n + 1
          BY <1>1
        <4> QED
          BY <1>1, <1>5, <4>1
      <3> QED
        BY <3>1, <3>3, <3>4, <3>5, <3>6
    <2> HIDE DEF P
    <2>3. \A k \in Nat : k \in P
      BY <2>1, <2>2, NatSetInduction
    <2> QED
      BY <2>3 DEF P
  <1> QED
    BY <1>1, <1>2, <1>3, <1>4, <1>6 DEF more

LEMMA TailByOne ==
    ASSUME NEW E, NEW lines \in Seq(E), NEW i \in 1 .. Len(lines)
    PROVE  /\ SubSeq(lines, i, Len(lines)) = <<lines[i]>> \o SubSeq(lines, i + 1, Len(lines))
           /\ SubSeq(lines, i + 1, Len(lines)) \in Seq(E)
           /\ Len(SubSeq(lines, i + 1, Len(lines))) = Len(lines) - i
  OBVIOUS

\* The newest lines that fit and no line less.
KeepsNewest(kept, lines, budget) ==
    LET cut == Len(lines) - Len(kept)
    IN /\ cut \in 0 .. Len(lines)
       /\ kept = SubSeq(lines, cut + 1, Len(lines))
       /\ kept # <<>> => TextLength(kept) <= budget
       /\ cut > 0 => TextLength(SubSeq(lines, cut, Len(lines))) > budget

\* What is known after the k newest lines.
Sound(v, k, lines, budget) ==
    /\ v.used = TextLength(v.out) + 1
    /\ v.out # <<>> => TextLength(v.out) <= budget
    /\ \E m \in 0 .. k :
          /\ v.out = SubSeq(lines, Len(lines) - m + 1, Len(lines))
          /\ v.open => m = k
          /\ ~v.open => m < k /\ v.used + Line(lines[Len(lines) - m]) > budget

LEMMA SoundKeep ==
    ASSUME NEW E, \A e \in E : e.size \in Nat, NEW lines \in Seq(E), NEW budget \in Int,
           NEW v \in Windows(E), NEW k \in Nat, k < Len(lines), Sound(v, k, lines, budget)
    PROVE  Sound(Keep(v, lines[Len(lines) - k], budget), k + 1, lines, budget)
  <1> DEFINE n == Len(lines)
             e == lines[n - k]
  <1>1. n \in Nat /\ n - k \in 1 .. n /\ e \in E
    OBVIOUS
  <1>2. Line(e) \in Int /\ v.used \in Int /\ v.out \in Seq(E) /\ v.open \in BOOLEAN
    BY <1>1, LineAssumption DEF Line, Windows
  <1>3. PICK m \in 0 .. k :
          /\ v.out = SubSeq(lines, n - m + 1, n)
          /\ v.open => m = k
          /\ ~v.open => m < k /\ v.used + Line(lines[n - m]) > budget
    BY DEF Sound
  <1>4. v.used = TextLength(v.out) + 1 /\ (v.out # <<>> => TextLength(v.out) <= budget)
    BY DEF Sound
  <1>5. CASE ~v.open \/ v.used + Line(e) > budget
    <2> DEFINE u == [v EXCEPT !.open = FALSE]
    <2>1. Keep(v, e, budget) = u
      BY <1>5 DEF Keep
    <2>2. u.used = v.used /\ u.out = v.out /\ u.open = FALSE
      BY DEF Windows
    <2>3. m \in 0 .. k + 1 /\ m < k + 1 /\ v.used + Line(lines[n - m]) > budget
      BY <1>2, <1>3, <1>5
    <2> HIDE DEF u, e
    <2>4. Sound(u, k + 1, lines, budget)
      BY <1>3, <1>4, <2>2, <2>3 DEF Sound, n
    <2> QED
      BY <2>1, <2>4 DEF e
  <1>6. CASE v.open /\ ~(v.used + Line(e) > budget)
    <2> DEFINE u == [open |-> TRUE, used |-> v.used + Line(e) + 1, out |-> <<e>> \o v.out]
    <2>1. Keep(v, e, budget) = u
      BY <1>6 DEF Keep
    <2>2. u.used = v.used + Line(e) + 1 /\ u.out = <<e>> \o v.out /\ u.open = TRUE
      OBVIOUS
    <2>3. TextLength(u.out) = TextLength(v.out) + Line(e) + 1 /\ TextLength(v.out) \in Int
      BY <1>1, <1>2, <2>2, TextOfPrepended
    <2>4. m = k /\ v.out = SubSeq(lines, (n - k) + 1, n)
      BY <1>3, <1>6
    <2>5. u.out = SubSeq(lines, n - k, n)
      <3> HIDE DEF u, n, e
      <3>1. SubSeq(lines, n - k, n) = <<e>> \o SubSeq(lines, (n - k) + 1, n)
        BY <1>1, TailByOne DEF n, e
      <3> QED
        BY <2>2, <2>4, <3>1
    <2>6. n - k = n - (k + 1) + 1 /\ k + 1 \in 0 .. k + 1
      BY <1>1
    <2>7. u.out = SubSeq(lines, n - (k + 1) + 1, n)
      BY <2>5, <2>6
    <2> HIDE DEF u, e
    <2>8. u.used = TextLength(u.out) + 1 /\ TextLength(u.out) <= budget
      BY <1>2, <1>4, <1>6, <2>2, <2>3
    <2>9. Sound(u, k + 1, lines, budget)
      BY <2>2, <2>6, <2>7, <2>8 DEF Sound, n
    <2> QED
      BY <2>1, <2>9 DEF e
  <1> QED
    BY <1>2, <1>5, <1>6

LEMMA SerializeKeepsNewest ==
    ASSUME NEW E, \A e \in E : e.size \in Nat, NEW lines \in Seq(E), NEW tokens \in Int
    PROVE  /\ KeepsNewest(Serialize(lines, tokens), lines, tokens * BytesPerToken)
           /\ Serialize(lines, tokens) \in Seq(E)
  <1> DEFINE n == Len(lines)
             budget == tokens * BytesPerToken
  <1>1. PICK w : Serializing(w, lines, E, budget) /\ Serialize(lines, tokens) = w[n].out
    BY SerializeByLine
  <1>2. n \in Nat /\ budget \in Int
    BY DEF BytesPerToken
  <1> HIDE DEF n, budget
  <1>3. /\ \A k \in 0 .. n : w[k] \in Windows(E)
        /\ w[0] = EmptyWindow
        /\ \A k \in 1 .. n : w[k] = Keep(w[k - 1], lines[n - k + 1], budget)
    BY <1>1 DEF Serializing, n
  <1>4. \A k \in Nat : k <= n => Sound(w[k], k, lines, budget)
    <2> DEFINE P == {k \in Nat : k <= n => Sound(w[k], k, lines, budget)}
    <2>1. 0 \in P
      <3>1. SubSeq(lines, n - 0 + 1, n) = <<>>
        BY <1>2 DEF n
      <3>2. 0 \in 0 .. 0
        OBVIOUS
      <3>3. Sound(EmptyWindow, 0, lines, budget)
        BY <3>1, <3>2, TextOfNothing DEF Sound, EmptyWindow, n
      <3> QED
        BY <1>3, <3>3
    <2>2. ASSUME NEW k \in Nat, k \in P PROVE k + 1 \in P
      <3> SUFFICES ASSUME k + 1 <= n PROVE Sound(w[k + 1], k + 1, lines, budget)
        OBVIOUS
      <3>1. k + 1 \in 1 .. n /\ (k + 1) - 1 = k /\ n - (k + 1) + 1 = n - k /\ k < n /\ k \in 0 .. n
        BY <1>2
      <3>2. Sound(w[k], k, lines, budget) /\ w[k] \in Windows(E)
        BY <1>3, <2>2, <3>1
      <3>3. w[k + 1] = Keep(w[k], lines[n - k], budget)
        BY <1>3, <3>1
      <3> QED
        BY <1>2, <3>1, <3>2, <3>3, SoundKeep DEF n
    <2> HIDE DEF P
    <2>3. \A k \in Nat : k \in P
      BY <2>1, <2>2, NatSetInduction
    <2> QED
      BY <2>3 DEF P
  <1> DEFINE v == w[n]
  <1>5. Sound(v, n, lines, budget) /\ v \in Windows(E)
    BY <1>2, <1>3, <1>4
  <1> HIDE DEF v
  <1>6. PICK m \in 0 .. n :
          /\ v.out = SubSeq(lines, n - m + 1, n)
          /\ v.open => m = n
          /\ ~v.open => m < n /\ v.used + Line(lines[n - m]) > budget
    BY <1>5 DEF Sound, n
  <1>7. v.out \in Seq(E) /\ v.used = TextLength(v.out) + 1 /\ v.open \in BOOLEAN
    BY <1>5 DEF Sound, Windows
  <1>8. Len(v.out) = m /\ n - Len(v.out) = n - m /\ n - m \in 0 .. n
    BY <1>2, <1>6 DEF n
  <1>9. ASSUME n - m > 0
        PROVE  TextLength(SubSeq(lines, n - m, n)) > budget
    <2>1. ~v.open /\ v.used + Line(lines[n - m]) > budget
      BY <1>6, <1>9
    <2>2. n - m \in 1 .. n /\ lines[n - m] \in E
      BY <1>2, <1>9 DEF n
    <2>3. SubSeq(lines, n - m, n) = <<lines[n - m]>> \o v.out
      BY <1>6, <2>2, TailByOne DEF n
    <2>4. TextLength(SubSeq(lines, n - m, n)) = TextLength(v.out) + Line(lines[n - m]) + 1
          /\ TextLength(v.out) \in Int
      BY <1>7, <2>2, <2>3, TextOfPrepended
    <2>5. Line(lines[n - m]) \in Int
      BY <2>2, LineAssumption DEF Line
    <2> QED
      BY <1>2, <1>7, <2>1, <2>4, <2>5
  <1>10. v.out # <<>> => TextLength(v.out) <= budget
    BY <1>5 DEF Sound
  <1>11. KeepsNewest(v.out, lines, budget)
    BY <1>6, <1>8, <1>9, <1>10 DEF KeepsNewest, n
  <1> QED
    BY <1>1, <1>7, <1>11 DEF v, budget

\* A tail is no longer than the tails it is the end of.
LEMMA ShorterTail ==
    ASSUME NEW E, \A e \in E : e.size \in Nat, NEW lines \in Seq(E)
    PROVE  \A i, j \in 1 .. Len(lines) + 1 :
              i <= j => /\ TextLength(SubSeq(lines, j, Len(lines))) \in Int
                        /\ TextLength(SubSeq(lines, i, Len(lines))) \in Int
                        /\ TextLength(SubSeq(lines, j, Len(lines)))
                              <= TextLength(SubSeq(lines, i, Len(lines)))
  <1> DEFINE n == Len(lines)
             T(i) == TextLength(SubSeq(lines, i, n))
  <1>1. n \in Nat
    OBVIOUS
  <1>2. ASSUME NEW i \in 1 .. n
        PROVE  T(i) \in Int /\ T(i + 1) \in Int /\ T(i + 1) <= T(i)
    <2>1. /\ SubSeq(lines, i, n) = <<lines[i]>> \o SubSeq(lines, i + 1, n)
          /\ SubSeq(lines, i + 1, n) \in Seq(E) /\ lines[i] \in E
      BY TailByOne
    <2>2. Line(lines[i]) \in Nat
      BY <2>1, LineAssumption DEF Line
    <2>3. T(i + 1) \in Int /\ T(i) = T(i + 1) + Line(lines[i]) + 1
      BY <2>1, TextOfPrepended
    <2> HIDE DEF T
    <2> QED
      BY <2>2, <2>3
  <1>3. T(n + 1) \in Int
    <2>1. SubSeq(lines, n + 1, n) = <<>>
      OBVIOUS
    <2>2. TextLength(<<>>) = -1 /\ -1 \in Int
      BY TextOfNothing
    <2>3. T(n + 1) = TextLength(<<>>)
      BY <2>1
    <2> HIDE DEF T
    <2> QED
      BY <2>2, <2>3
  <1> HIDE DEF T, n
  <1>4. \A i \in 1 .. n + 1 : T(i) \in Int
    <2> TAKE i \in 1 .. n + 1
    <2>1. CASE i = n + 1
      BY <1>3, <2>1
    <2>2. CASE i # n + 1
      <3>1. i \in 1 .. n
        BY <1>1, <2>2
      <3> QED
        BY <1>2, <3>1
    <2> QED
      BY <2>1, <2>2
  <1>5. \A d \in Nat : \A i \in 1 .. n + 1 : i + d <= n + 1 => T(i + d) <= T(i)
    <2> DEFINE P == {d \in Nat : \A i \in 1 .. n + 1 : i + d <= n + 1 => T(i + d) <= T(i)}
    <2>1. 0 \in P
      BY <1>4
    <2>2. ASSUME NEW d \in Nat, d \in P PROVE d + 1 \in P
      <3> SUFFICES ASSUME NEW i \in 1 .. n + 1, i + (d + 1) <= n + 1
                   PROVE  T(i + (d + 1)) <= T(i)
        OBVIOUS
      <3>1. i + d \in 1 .. n /\ i + (d + 1) = (i + d) + 1 /\ (i + d) + 1 \in 1 .. n + 1
        BY <1>1
      <3>2. T((i + d) + 1) <= T(i + d)
        BY <1>2, <3>1
      <3>4. T(i + d) <= T(i)
        <4>1. i + d <= n + 1
          BY <1>1, <3>1
        <4> QED
          BY <2>2, <4>1
      <3>3. T(i) \in Int /\ T(i + d) \in Int /\ T((i + d) + 1) \in Int
        BY <1>2, <1>4, <3>1
      <3> QED
        BY <3>1, <3>2, <3>3, <3>4
    <2> HIDE DEF P
    <2>3. \A d \in Nat : d \in P
      BY <2>1, <2>2, NatSetInduction
    <2> QED
      BY <2>3 DEF P
  <1>6. ASSUME NEW i \in 1 .. n + 1, NEW j \in 1 .. n + 1, i <= j
        PROVE  T(j) <= T(i)
    <2>1. j - i \in Nat /\ i + (j - i) = j /\ j <= n + 1
      BY <1>1, <1>6
    <2> QED
      BY <1>5, <2>1
  <1> QED
    BY <1>4, <1>6 DEF T, n

\* A larger budget keeps every line that a smaller one keeps.
LEMMA WiderWindow ==
    ASSUME NEW E, \A e \in E : e.size \in Nat, NEW lines \in Seq(E),
           NEW few \in Int, NEW many \in Int, few <= many
    PROVE  ToSet(Serialize(lines, few)) \subseteq ToSet(Serialize(lines, many))
  <1> DEFINE n == Len(lines)
             a == Serialize(lines, few)
             b == Serialize(lines, many)
             bytes == few * BytesPerToken
             more == many * BytesPerToken
             i == n - Len(a)
             j == n - Len(b)
  <1>1. bytes \in Int /\ more \in Int /\ bytes <= more
    BY DEF BytesPerToken
  <1>2. KeepsNewest(a, lines, bytes) /\ KeepsNewest(b, lines, more)
    BY SerializeKeepsNewest
  <1>3. n \in Nat
    OBVIOUS
  <1> HIDE DEF n, a, b, bytes, more
  <1>4. /\ i \in 0 .. n /\ a = SubSeq(lines, i + 1, n)
        /\ a # <<>> => TextLength(a) <= bytes
    BY <1>2 DEF KeepsNewest, n
  <1>5. /\ j \in 0 .. n /\ b = SubSeq(lines, j + 1, n)
        /\ j > 0 => TextLength(SubSeq(lines, j, n)) > more
    BY <1>2 DEF KeepsNewest, n
  <1>6. a \in Seq(E) /\ b \in Seq(E)
    BY SerializeKeepsNewest DEF a, b
  <1>7. Len(a) \in Nat /\ Len(b) \in Nat
    BY <1>6
  <1> HIDE DEF i, j
  <1>8. j <= i
    <2> SUFFICES ASSUME i < j PROVE FALSE
      BY <1>4, <1>5
    <2>1. j > 0 /\ i + 1 \in 1 .. n + 1 /\ j \in 1 .. n + 1 /\ i + 1 <= j
      BY <1>3, <1>4, <1>5
    <2>2. a # <<>>
      <3>1. Len(a) = n - i /\ n - i > 0
        BY <1>3, <1>4, <1>5, <1>7 DEF i
      <3> QED
        BY <3>1
    <2>3. /\ TextLength(SubSeq(lines, j, n)) <= TextLength(SubSeq(lines, i + 1, n))
          /\ TextLength(SubSeq(lines, j, n)) \in Int
          /\ TextLength(SubSeq(lines, i + 1, n)) \in Int
      BY <2>1, ShorterTail DEF n
    <2> QED
      BY <1>1, <1>4, <1>5, <2>1, <2>2, <2>3
  <1>9. ASSUME NEW x \in ToSet(a) PROVE x \in ToSet(b)
    <2>1. PICK k \in DOMAIN a : x = a[k]
      BY <1>9 DEF ToSet
    <2>2. k \in 1 .. n - i /\ x = lines[i + k]
      BY <1>3, <1>4, <1>6, <2>1 DEF n
    <2>3. (i - j) + k \in 1 .. n - j /\ j + ((i - j) + k) = i + k
      <3>1. i \in Int /\ j \in Int /\ k \in Int /\ n \in Int
        BY <1>3, <1>4, <1>5, <2>2
      <3> QED
        BY <1>8, <2>2, <3>1
    <2>4. \A m \in 1 .. n - j : m \in DOMAIN b /\ b[m] = lines[j + m]
      BY <1>3, <1>5, <1>6 DEF n
    <2>5. (i - j) + k \in DOMAIN b /\ b[(i - j) + k] = x
      BY <2>2, <2>3, <2>4
    <2> QED
      BY <2>5 DEF ToSet
  <1> QED
    BY <1>9 DEF a, b

-----------------------------------------------------------------------------
(* Invariance                                                              *)

\* The answer in hand is unflagged while the round goes on, and an incident is
\* written for the flagged one that ends it.
ProposalInv ==
    /\ incidents = (IF pc = "reported" THEN 1 ELSE 0)
    /\ pc = "reported" => Flagged(answer)
    /\ pc \in {"acting", "analyzing", "asking", "proposed"} => ~Flagged(answer)
    /\ pc = "nothing" => ~Flagged(answer) \/ Unusable(answer)

LEMMA InitProposal == Init => ProposalInv
  BY DEF Init, ProposalInv, NoAnswer, Flagged

LEMMA StepProposal == ProposalInv /\ [Next]_vars => ProposalInv'
  <1> SUFFICES ASSUME ProposalInv, [Next]_vars PROVE ProposalInv'
    OBVIOUS
  <1> USE DEF ProposalInv
  <1>1. CASE StartRun \/ RecordSpan \/ EndRun
    BY <1>1 DEF StartRun, RecordSpan, EndRun, Collected
  <1>2. CASE Deliver
    BY <1>2 DEF Deliver
  <1>3. CASE BuildRequest
    BY <1>3 DEF BuildRequest
  <1>4. CASE Call
    BY <1>4 DEF Call
  <1>5. CASE GiveUp \/ CallRaises \/ NoProposal \/ Reject
    BY <1>5 DEF GiveUp, CallRaises, NoProposal, Reject, Goto
  <1>6. CASE Parse
    BY <1>6 DEF Parse
  <1>7. CASE FastFail
    BY <1>7 DEF FastFail, Goto
  <1>8. CASE Accept
    BY <1>8 DEF Accept, Goto
  <1>9. CASE Benchmark
    BY <1>9 DEF Benchmark
  <1>10. CASE UNCHANGED vars
    BY <1>10 DEF vars
  <1> QED
    BY <1>1, <1>2, <1>3, <1>4, <1>5, <1>6, <1>7, <1>8, <1>9, <1>10 DEF Next

-----------------------------------------------------------------------------
(* The evidence                                                            *)

Kinds == {"run_start", "run_end", "model_call", "tool_call", "error", "terminate"}
Names == Tools \cup ErrorClasses \cup {"model", "-", NeedleTool}
TraceEvents ==
    [run : 1 .. MaxRuns, kind : Kinds, step : Nat, name : Names, mark : BOOLEAN, size : Nat]

RunsInOrder(lines) == \A i, j \in DOMAIN lines : i <= j => lines[i].run <= lines[j].run

\* What a benchmark has measured.
Measured(b, t) ==
    /\ events = Synthesize(b.target, b.steps, b.depth, t)
    /\ bench = [target |-> b.target, steps |-> b.steps, depth |-> b.depth,
                fraction |-> b.fraction,
                found |-> MockFinds(events, MaxTraceTokens(b.target, b.fraction),
                                    NeedleStep(b.steps, b.depth))]

\* The traces are events in the order of their runs, and the window is the one
\* of these traces as long as no call has been made.
EvidenceInv ==
    /\ TypeOK
    /\ request \in Nat
    /\ events \in Seq(TraceEvents)
    /\ RunsInOrder(events)
    /\ pc \in {"answering", "charged"} => attempt > 0
    /\ pc = "asking" /\ attempt = 0 => window = Serialize(events, MaxTokens)
    /\ pc = "measured" => \E b \in Benchmarks, t \in Tools : Measured(b, t)

LEMMA TraceEventNumbers ==
    \A e \in TraceEvents : e.run \in 1 .. MaxRuns /\ e.run \in Int /\ e.step \in Nat /\ e.size \in Nat
  BY EvidenceAssumption DEF TraceEvents

LEMMA TraceNumbers ==
    ASSUME NEW s \in Seq(TraceEvents)
    PROVE  \A i \in DOMAIN s :
              s[i].run \in 1 .. MaxRuns /\ s[i].run \in Int /\ s[i].step \in Nat
  <1>1. \A i \in DOMAIN s : s[i] \in TraceEvents
    OBVIOUS
  <1> QED
    BY <1>1, TraceEventNumbers

LEMMA EventType ==
    ASSUME NEW r \in 1 .. MaxRuns, NEW kind \in Kinds, NEW k \in Nat, NEW name \in Names,
           NEW mark \in BOOLEAN
    PROVE  Event(r, kind, k, name, mark) \in TraceEvents /\ Event(r, kind, k, name, mark).run = r
  <1>1. (IF name \in DOMAIN Size THEN Size[name] ELSE 0) \in Nat
    BY EvidenceAssumption
  <1> HIDE DEF Names, Kinds
  <1> QED
    BY <1>1 DEF Event, TraceEvents

LEMMA ExtendedInOrder ==
    ASSUME NEW s \in Seq(TraceEvents), NEW t \in Seq(TraceEvents), RunsInOrder(s),
           NEW r \in Int, \A i \in DOMAIN s : s[i].run <= r, \A i \in DOMAIN t : t[i].run = r
    PROVE  s \o t \in Seq(TraceEvents) /\ RunsInOrder(s \o t)
  <1> DEFINE u == s \o t
             m == Len(s)
  <1>1. /\ u \in Seq(TraceEvents) /\ m \in Nat
        /\ \A i \in DOMAIN u : \/ i \in 1 .. m /\ i \in DOMAIN s /\ u[i] = s[i]
                               \/ i - m \in DOMAIN t /\ u[i] = t[i - m] /\ i > m
        /\ \A i \in DOMAIN u : i \in Nat
        /\ \A i \in DOMAIN s : i \in 1 .. m
    OBVIOUS
  <1> HIDE DEF u, m
  <1>3. ASSUME NEW i \in DOMAIN u, NEW j \in DOMAIN u, i <= j
        PROVE  u[i].run <= u[j].run
    <2>1. CASE j \in DOMAIN s /\ u[j] = s[j]
      <3>1. i \in DOMAIN s /\ u[i] = s[i]
        BY <1>1, <1>3, <2>1
      <3> QED
        BY <1>3, <2>1, <3>1 DEF RunsInOrder
    <2>2. CASE j - m \in DOMAIN t /\ u[j] = t[j - m]
      <3>1. u[j].run = r
        BY <2>2
      <3>2. u[i].run <= r
        <4>1. CASE i \in DOMAIN s /\ u[i] = s[i]
          BY <4>1
        <4>2. CASE i - m \in DOMAIN t /\ u[i] = t[i - m]
          <5>1. u[i].run = r
            BY <4>2
          <5> QED
            BY <5>1
        <4> QED
          BY <1>1, <4>1, <4>2
      <3> QED
        BY <3>1, <3>2
    <2> QED
      BY <1>1, <2>1, <2>2
  <1> QED
    BY <1>1, <1>3 DEF RunsInOrder, u

\* The last event is of the greatest run.
LEMMA LastIsGreatest ==
    ASSUME NEW s \in Seq(TraceEvents), RunsInOrder(s), s # <<>>
    PROVE  Last(s) \in TraceEvents /\ \A i \in DOMAIN s : s[i].run <= Last(s).run
  <1>1. Len(s) \in DOMAIN s /\ \A i \in DOMAIN s : i <= Len(s)
    OBVIOUS
  <1> QED
    BY <1>1 DEF Last, RunsInOrder

LEMMA CollectedKeeps ==
    ASSUME EvidenceInv, pc = "acting", NEW new \in Seq(TraceEvents), NEW r \in Int,
           \A i \in DOMAIN events : events[i].run <= r, \A i \in DOMAIN new : new[i].run = r,
           Collected(new)
    PROVE  EvidenceInv'
  <1>1. events' \in Seq(TraceEvents) /\ RunsInOrder(events)'
    BY ExtendedInOrder DEF Collected, EvidenceInv, RunsInOrder
  <1>2. \A i \in DOMAIN events' : events'[i].run \in 1 .. MaxRuns /\ events'[i].step \in Nat
    <2> DEFINE s == events \o new
    <2>1. s \in Seq(TraceEvents) /\ events' = s
      BY <1>1 DEF Collected
    <2> HIDE DEF s
    <2>2. \A i \in DOMAIN s : s[i].run \in 1 .. MaxRuns /\ s[i].step \in Nat
      BY <2>1, TraceNumbers
    <2> QED
      BY <2>1, <2>2
  <1>3. DOMAIN copies' = DOMAIN events'
    BY DEF Collected
  <1> QED
    BY <1>1, <1>2, <1>3
       DEF Collected, EvidenceInv, TypeOK, BudgetTypeOK, budgetVars, RunsInOrder

LEMMA InitEvidence == Init => EvidenceInv
  <1> SUFFICES ASSUME Init PROVE EvidenceInv
    OBVIOUS
  <1>1. /\ BudgetTypeOK
        /\ pc = "acting" /\ incidents \in 0 .. 1
        /\ attempt \in 0 .. MaxAttempts
    BY EvidenceAssumption DEF Init, BudgetInit, BudgetTypeOK
  <1>2. events = <<>> /\ DOMAIN copies = DOMAIN events /\ \A i \in DOMAIN events : FALSE
    BY DEF Init
  <1> QED
    BY <1>1, <1>2 DEF Init, EvidenceInv, TypeOK, RunsInOrder

LEMMA ActingKeeps ==
    ASSUME EvidenceInv, StartRun \/ RecordSpan \/ EndRun
    PROVE  EvidenceInv'
  <1>1. events \in Seq(TraceEvents) /\ RunsInOrder(events)
    BY DEF EvidenceInv
  <1>2. MaxRuns \in Nat \ {0} /\ FALSE \in BOOLEAN /\ TRUE \in BOOLEAN
        /\ "-" \in Names /\ "model" \in Names /\ "run_start" \in Kinds /\ "run_end" \in Kinds
        /\ "model_call" \in Kinds /\ "tool_call" \in Kinds /\ "error" \in Kinds
        /\ "terminate" \in Kinds
    BY EvidenceAssumption DEF Names, Kinds
  <1>3. CASE StartRun
    <2> DEFINE r == LastRun + 1
               e == Event(r, "run_start", 0, "-", FALSE)
    <2>1. r \in 1 .. MaxRuns /\ \A i \in DOMAIN events : events[i].run <= r
      <3>1. CASE events = <<>>
        BY <1>2, <1>3, <3>1 DEF LastRun, StartRun
      <3>2. CASE events # <<>>
        <4>1. Last(events).run \in 1 .. MaxRuns /\ LastRun = Last(events).run
          BY <1>1, <3>2, LastIsGreatest, TraceEventNumbers DEF LastRun
        <4>2. \A i \in DOMAIN events : events[i].run \in Int /\ events[i].run <= LastRun
          BY <1>1, <3>2, <4>1, LastIsGreatest, TraceNumbers
        <4> QED
          BY <1>2, <1>3, <4>1, <4>2 DEF StartRun
      <3> QED
        BY <3>1, <3>2
    <2>2. pc = "acting" /\ Collected(<<e>>)
      BY <1>3 DEF StartRun
    <2> HIDE DEF r
    <2>3. e \in TraceEvents /\ e.run = r
      BY <1>2, <2>1, EventType
    <2> HIDE DEF e
    <2>4. <<e>> \in Seq(TraceEvents) /\ r \in Int /\ \A i \in DOMAIN <<e>> : <<e>>[i].run = r
      BY <2>1, <2>3
    <2> QED
      BY <2>1, <2>2, <2>4, CollectedKeeps
  <1>4. ASSUME RecordSpan \/ EndRun
        PROVE  EvidenceInv'
    <2> DEFINE r == LastRun
               next == Last(events).step + 1
    <2>1. events # <<>> /\ pc = "acting"
      BY <1>4 DEF RecordSpan, EndRun, Between
    <2>2. r \in 1 .. MaxRuns /\ \A i \in DOMAIN events : events[i].run <= r
      BY <1>1, <2>1, LastIsGreatest, TraceEventNumbers DEF LastRun
    <2>3. next \in Nat
      <3>1. Last(events).step \in Nat
        BY <1>1, <2>1, LastIsGreatest, TraceEventNumbers
      <3> QED
        BY <3>1
    <2> HIDE DEF r, next
    <2>4. ASSUME NEW kind \in Kinds, NEW k \in Nat, NEW name \in Names, NEW mark \in BOOLEAN,
                 Collected(<<Event(r, kind, k, name, mark)>>)
          PROVE  EvidenceInv'
      <3> DEFINE e == Event(r, kind, k, name, mark)
      <3>1. e \in TraceEvents /\ e.run = r
        BY <2>2, EventType
      <3>2. Collected(<<e>>)
        BY <2>4
      <3> HIDE DEF e
      <3>3. <<e>> \in Seq(TraceEvents) /\ r \in Int /\ \A i \in DOMAIN <<e>> : <<e>>[i].run = r
        BY <2>2, <3>1
      <3> QED
        BY <2>1, <2>2, <3>2, <3>3, CollectedKeeps
    <2>5. ASSUME NEW kind \in Kinds, NEW name \in Names, NEW success \in BOOLEAN,
                 Collected(<<Event(r, kind, next, name, FALSE),
                             Event(r, "run_end", 0, "-", success)>>)
          PROVE  EvidenceInv'
      <3> DEFINE e == Event(r, kind, next, name, FALSE)
                 f == Event(r, "run_end", 0, "-", success)
      <3>1. e \in TraceEvents /\ e.run = r /\ f \in TraceEvents /\ f.run = r
        BY <1>2, <2>2, <2>3, EventType
      <3>2. Collected(<<e, f>>)
        BY <2>5
      <3> HIDE DEF e, f
      <3>3. <<e, f>> \in Seq(TraceEvents) /\ r \in Int
            /\ \A i \in DOMAIN <<e, f>> : <<e, f>>[i].run = r
        BY <2>2, <3>1
      <3> QED
        BY <2>1, <2>2, <3>2, <3>3, CollectedKeeps
    <2>6. CASE EndRun
      BY <1>2, <2>4, <2>6 DEF EndRun, r
    <2>7. CASE RecordSpan
      <3>1. CASE Collected(<<Event(r, "model_call", next, "model", FALSE)>>)
        BY <1>2, <2>3, <2>4, <3>1
      <3>2. CASE \E t \in Tools, failed \in BOOLEAN :
                    Collected(<<Event(r, "tool_call", next, t, failed)>>)
        <4>1. Tools \subseteq Names
          BY DEF Names
        <4> QED
          BY <1>2, <2>3, <2>4, <3>2, <4>1
      <3>3. CASE \E c \in ErrorClasses :
                    Collected(<<Event(r, "error", next, c, FALSE),
                                Event(r, "run_end", 0, "-", FALSE)>>)
        <4>1. ErrorClasses \subseteq Names
          BY DEF Names
        <4> QED
          BY <1>2, <2>5, <3>3, <4>1
      <3>4. CASE Collected(<<Event(r, "terminate", next, "-", FALSE),
                             Event(r, "run_end", 0, "-", TRUE)>>)
        BY <1>2, <2>5, <3>4
      <3> QED
        BY <2>7, <3>1, <3>2, <3>3, <3>4 DEF RecordSpan, r, next
    <2> QED
      BY <1>4, <2>6, <2>7
  <1> QED
    BY <1>3, <1>4

LEMMA SumOfSizes ==
    ASSUME NEW s \in Seq(TraceEvents)
    PROVE  FoldLeft(+, 0, [i \in DOMAIN s |-> s[i].size]) \in Nat
  <1> DEFINE numbers == [i \in DOMAIN s |-> s[i].size]
             n == Len(s)
  <1>1. numbers \in Seq(Nat) /\ Len(numbers) = n /\ n \in Nat
    <2>1. \A i \in DOMAIN s : s[i].size \in Nat
      <3>1. \A i \in DOMAIN s : s[i] \in TraceEvents
        OBVIOUS
      <3> QED
        BY <3>1, TraceEventNumbers
    <2>2. DOMAIN s = 1 .. n /\ n \in Nat
      OBVIOUS
    <2> QED
      BY <2>1, <2>2
  <1> HIDE DEF numbers, n
  <1>2. numbers \in Seq(Int) /\ 0 \in Int /\ \A i \in 1 .. n : numbers[i] \in Nat
    BY <1>1
  <1>3. PICK sums : Sums(sums, 0, numbers) /\ FoldLeft(+, 0, numbers) = sums[n]
    BY <1>1, <1>2, SumOfSequence
  <1>4. \A k \in Nat : k <= n => sums[k] \in Nat
    <2> DEFINE P == {k \in Nat : k <= n => sums[k] \in Nat}
    <2>1. 0 \in P
      <3>1. sums[0] = 0
        BY <1>3 DEF Sums
      <3> QED
        BY <3>1
    <2>2. ASSUME NEW k \in Nat, k \in P PROVE k + 1 \in P
      <3> SUFFICES ASSUME k + 1 <= n PROVE sums[k + 1] \in Nat
        OBVIOUS
      <3>1. k + 1 \in 1 .. n /\ (k + 1) - 1 = k /\ sums[k] \in Nat
        BY <1>1, <2>2
      <3>2. sums[k + 1] = sums[k] + numbers[k + 1] /\ numbers[k + 1] \in Nat
        BY <1>1, <1>2, <1>3, <3>1 DEF Sums
      <3> QED
        BY <3>1, <3>2
    <2> HIDE DEF P
    <2>3. \A k \in Nat : k \in P
      BY <2>1, <2>2, NatSetInduction
    <2> QED
      BY <2>3 DEF P
  <1> QED
    <2>1. sums[n] \in Nat
      BY <1>1, <1>4
    <2>2. FoldLeft(+, 0, numbers) \in Nat
      BY <1>3, <2>1
    <2> QED
      BY <2>2 DEF numbers

-----------------------------------------------------------------------------
(* The synthetic trace                                                     *)

\* Its events are typed, of one run, and the needle is the only event of its
\* step.
LEMMA SyntheticTrace ==
    ASSUME NEW b \in Benchmarks, NEW t \in Tools
    PROVE  LET trace == Synthesize(b.target, b.steps, b.depth, t)
           IN /\ trace \in Seq(TraceEvents) /\ RunsInOrder(trace)
              /\ \A e \in ToSet(trace) : e.name = NeedleTool
                                           <=> e.step = NeedleStep(b.steps, b.depth)
  <1> DEFINE steps == b.steps
             needle == NeedleStep(b.steps, b.depth)
             filler == AtLeast(MinFiller, (b.target * BytesPerToken) \div AtLeast(1, b.steps))
             first == Span("run_start", 0, "-", 0)
             last == Span("run_end", steps + 1, "-", 0)
             span(step) == IF step = needle THEN Span("tool_call", step, NeedleTool, NeedleSize)
                           ELSE Span("tool_call", step, t, filler)
             middle == [step \in 1 .. steps |-> span(step)]
             trace == (<<first>> \o middle) \o <<last>>
  <1>1. b.target \in Nat /\ steps \in Nat \ {0} /\ b.depth \in 0 .. 100
    BY EvidenceAssumption
  <1>2. needle \in 1 .. steps
    <2>1. steps * b.depth \in Nat /\ steps * b.depth <= steps * 100
      BY <1>1
    <2>2. (steps * b.depth) \div 100 \in Nat /\ (steps * b.depth) \div 100 <= steps
      BY <1>1, <2>1
    <2> QED
      BY <1>1, <2>2 DEF NeedleStep, AtLeast
  <1>3. filler \in Nat
    <2>1. b.target * BytesPerToken \in Nat /\ AtLeast(1, b.steps) \in Nat \ {0}
      BY <1>1 DEF AtLeast, BytesPerToken
    <2> DEFINE x == b.target * BytesPerToken
               y == AtLeast(1, b.steps)
    <2> HIDE DEF x, y
    <2>2. x \in Nat /\ y \in Nat \ {0}
      BY <2>1 DEF x, y
    <2>3. x \div y \in Int
      BY ONLY <2>2
    <2> QED
      BY <2>3, NeedleAssumption DEF AtLeast, x, y
  <1>4. NeedleTool # t /\ NeedleTool # "-" /\ NeedleSize \in Nat /\ 1 \in 1 .. MaxRuns
    BY EvidenceAssumption, NeedleAssumption
  <1> HIDE DEF steps, needle, filler
  <1>5. /\ first \in TraceEvents /\ first.run = 1 /\ first.step = 0 /\ first.name = "-"
        /\ last \in TraceEvents /\ last.run = 1 /\ last.step = steps + 1 /\ last.name = "-"
    BY <1>1, <1>4 DEF Span, TraceEvents, Kinds, Names
  <1>6. ASSUME NEW k \in 1 .. steps
        PROVE  /\ span(k) \in TraceEvents /\ span(k).run = 1
               /\ span(k).name = NeedleTool <=> span(k).step = needle
    BY <1>1, <1>3, <1>4 DEF Span, TraceEvents, Kinds, Names
  <1> HIDE DEF first, last, span
  <1>7. middle \in Seq(TraceEvents)
    BY <1>1, <1>6
  <1>8. ASSUME NEW i \in DOMAIN middle
        PROVE  middle[i].run = 1 /\ (middle[i].name = NeedleTool <=> middle[i].step = needle)
    BY <1>6, <1>8
  <1>9. /\ trace \in Seq(TraceEvents)
        /\ \A i \in DOMAIN trace : \/ trace[i] = first \/ trace[i] = last
                                   \/ \E j \in DOMAIN middle : trace[i] = middle[j]
    <2> HIDE DEF middle
    <2> QED
      BY <1>5, <1>7
  <1> HIDE DEF middle
  <1>10. \A i \in DOMAIN trace :
            trace[i].run = 1 /\ (trace[i].name = NeedleTool <=> trace[i].step = needle)
    <2>1. first.run = 1 /\ ~(first.name = NeedleTool) /\ ~(first.step = needle)
      BY <1>2, <1>4, <1>5
    <2>2. last.run = 1 /\ ~(last.name = NeedleTool) /\ ~(last.step = needle)
      BY <1>1, <1>2, <1>4, <1>5
    <2> QED
      BY <1>8, <1>9, <2>1, <2>2
  <1> HIDE DEF trace
  <1>11. RunsInOrder(trace)
    <2>1. 1 <= 1
      OBVIOUS
    <2> QED
      BY <1>10, <2>1 DEF RunsInOrder
  <1>12. \A e \in ToSet(trace) : e.name = NeedleTool <=> e.step = needle
    BY <1>10 DEF ToSet
  <1>13. trace = Synthesize(b.target, b.steps, b.depth, t)
    BY DEF trace, first, last, middle, span, Synthesize, needle, filler, steps
  <1> QED
    BY <1>9, <1>11, <1>12, <1>13 DEF needle

LEMMA StepEvidence == EvidenceInv /\ ProposalInv /\ [Next]_vars => EvidenceInv'
  <1> SUFFICES ASSUME EvidenceInv, ProposalInv, [Next]_vars PROVE EvidenceInv'
    OBVIOUS
  <1>1. /\ TypeOK /\ BudgetTypeOK /\ request \in Nat /\ events \in Seq(TraceEvents)
        /\ RunsInOrder(events) /\ attempt \in 0 .. MaxAttempts /\ MaxAttempts \in Nat
    BY EvidenceAssumption DEF EvidenceInv, TypeOK
  <1>2. CASE StartRun \/ RecordSpan \/ EndRun
    BY <1>2, ActingKeeps
  <1>3. CASE Deliver
    <2>1. DOMAIN copies' = DOMAIN events' /\ pc' = "analyzing" /\ events' = events
      BY <1>3 DEF Deliver
    <2> QED
      BY <1>1, <1>3, <2>1
         DEF Deliver, EvidenceInv, TypeOK, BudgetTypeOK, budgetVars, RunsInOrder
  <1>4. CASE BuildRequest
    <2>1. request' \in Nat
      <3> DEFINE sum == FoldLeft(+, 0, [i \in DOMAIN events |-> events[i].size])
      <3>1. sum \in Nat
        BY <1>1, SumOfSizes
      <3>2. request' = ArtifactChars + sum
        BY <1>4 DEF BuildRequest
      <3> HIDE DEF sum
      <3> QED
        BY <3>1, <3>2, EvidenceAssumption
    <2> QED
      BY <1>1, <1>4, <2>1
         DEF BuildRequest, EvidenceInv, TypeOK, BudgetTypeOK, budgetVars, RunsInOrder
  <1>5. CASE Call
    <2>1. attempt' \in 0 .. MaxAttempts /\ attempt' > 0
      BY <1>1, <1>5 DEF Call
    <2>2. events' = <<>> /\ copies' = <<>> /\ \A i \in DOMAIN events' : FALSE
      BY <1>5 DEF Call
    <2>3. BudgetTypeOK'
      BY <1>1, <1>5 DEF Call, BudgetTypeOK, budgetVars
    <2>4. events' \in Seq(TraceEvents) /\ RunsInOrder(events)'
      BY <2>2 DEF RunsInOrder
    <2> QED
      BY <1>1, <1>5, <2>1, <2>2, <2>3, <2>4 DEF Call, EvidenceInv, TypeOK
  <1>6. CASE GiveUp \/ CallRaises \/ NoProposal \/ Accept
    BY <1>1, <1>6 DEF GiveUp, CallRaises, NoProposal, Accept, Goto, EvidenceInv, TypeOK,
                      BudgetTypeOK, budgetVars, RunsInOrder, Stopped
  <1>7. CASE Reject
    <2>1. attempt > 0
      BY <1>7 DEF Reject, EvidenceInv
    <2> QED
      BY <1>1, <1>7, <2>1 DEF Reject, Goto, EvidenceInv, TypeOK, BudgetTypeOK, budgetVars,
                              RunsInOrder
  <1>8. CASE Parse
    <2>1. patch' \in Patches \cup {NoPatch} /\ patch'.chars \in Nat
      <3>1. patch' = NoPatch \/ patch' \in Patches
        BY <1>8 DEF Parse
      <3> QED
        BY <3>1, ProposalAssumption DEF NoPatch
    <2>2. BudgetTypeOK'
      <3> DEFINE k == Tokens(request + patch'.chars)
      <3>1. k \in Nat
        BY <1>1, <2>1 DEF Tokens, CharsPerToken
      <3>2. RecordMutationCall(request, patch'.chars)
        BY <1>8 DEF Parse
      <3> HIDE DEF k
      <3>3. UsdPerToken * k \in Nat
        BY <3>1, BudgetAssumption
      <3>4. /\ genTokens' = genTokens + k /\ genUsd' = genUsd + UsdPerToken * k
            /\ totalUsd' = totalUsd + UsdPerToken * k /\ sandboxRuns' = sandboxRuns
        BY <3>2 DEF RecordMutationCall, Charge, k
      <3> QED
        BY <1>1, <3>1, <3>3, <3>4 DEF BudgetTypeOK
    <2>3. pc' \in {"aborted", "charged"} /\ attempt > 0
      BY <1>8 DEF Parse, EvidenceInv
    <2> QED
      BY <1>1, <1>8, <2>1, <2>2, <2>3 DEF Parse, EvidenceInv, TypeOK, RunsInOrder, Stopped
  <1>9. CASE FastFail
    <2>1. incidents' \in 0 .. 1 /\ pc' \in {"reported", "raised"}
      BY <1>9 DEF FastFail, Goto, ProposalInv
    <2> QED
      BY <1>1, <1>9, <2>1 DEF FastFail, Goto, EvidenceInv, TypeOK, BudgetTypeOK, budgetVars,
                              RunsInOrder, Stopped
  <1>10. CASE Benchmark
    <2>1. PICK b \in Benchmarks, t \in Tools :
             /\ events' = Synthesize(b.target, b.steps, b.depth, t)
             /\ bench' = [target |-> b.target, steps |-> b.steps, depth |-> b.depth,
                          fraction |-> b.fraction,
                          found |-> MockFinds(events', MaxTraceTokens(b.target, b.fraction),
                                              NeedleStep(b.steps, b.depth))]
      BY <1>10 DEF Benchmark
    <2> DEFINE trace == Synthesize(b.target, b.steps, b.depth, t)
    <2>2. trace \in Seq(TraceEvents) /\ RunsInOrder(trace)
      BY SyntheticTrace
    <2>3. events' = trace
      BY <2>1
    <2> HIDE DEF trace
    <2>4. events' \in Seq(TraceEvents) /\ RunsInOrder(events)'
      BY <2>2, <2>3 DEF RunsInOrder
    <2>5. \A i \in DOMAIN events' : events'[i].run \in 1 .. MaxRuns /\ events'[i].step \in Nat
      <3>1. \A i \in DOMAIN trace : trace[i].run \in 1 .. MaxRuns /\ trace[i].step \in Nat
        BY <2>2, TraceNumbers
      <3> QED
        BY <2>3, <3>1
    <2>6. DOMAIN copies' = DOMAIN events' /\ pc' = "measured"
      BY <1>10 DEF Benchmark
    <2>7. (\E c \in Benchmarks, u \in Tools : Measured(c, u))'
      BY <2>1 DEF Measured
    <2>8. UNCHANGED <<budgetVars, request, attempt, answer, patch, incidents>>
      BY <1>10 DEF Benchmark
    <2>9. TypeOK'
      BY <1>1, <2>5, <2>6, <2>8 DEF TypeOK, BudgetTypeOK, budgetVars, Stopped
    <2> QED
      BY <1>1, <2>4, <2>6, <2>7, <2>8, <2>9 DEF EvidenceInv
  <1>11. CASE UNCHANGED vars
    BY <1>1, <1>11 DEF vars, EvidenceInv, TypeOK, BudgetTypeOK, budgetVars, RunsInOrder, Measured
  <1> QED
    BY <1>2, <1>3, <1>4, <1>5, <1>6, <1>7, <1>8, <1>9, <1>10, <1>11 DEF Next

LEMMA ProposalInvariant == Spec => []ProposalInv
  BY InitProposal, StepProposal, PTL DEF Spec

LEMMA EvidenceInvariant == Spec => []EvidenceInv
  BY InitEvidence, StepEvidence, ProposalInvariant, PTL DEF Spec

-----------------------------------------------------------------------------
(* The two analyzers                                                       *)

\* In a run the steps grow, and nothing comes after its end.
Ordered(rows) ==
    \A i, j \in DOMAIN rows :
        i < j /\ rows[i].run = rows[j].run =>
            /\ rows[i].kind # "run_end"
            /\ rows[j].kind # "run_end" => rows[i].step < rows[j].step
Finished(rows, r) == \E j \in DOMAIN rows : rows[j].run = r /\ rows[j].kind = "run_end"

\* The table of a batch: its events in order, each stored once or twice.
Stored(s, n) == s \in Seq(TraceEvents) /\ Ordered(s) /\ n \in [DOMAIN s -> {1, 2}]

\* n copies of call i are these rows.
LEMMA RowElements ==
    ASSUME NEW s, NEW n, NEW kind
    PROVE  /\ \A p \in Rows(s, n, kind) : \E i \in Indices(s, kind) : \E c \in 1 .. n[i] : p = <<i, c>>
           /\ \A i \in Indices(s, kind) : \A c \in 1 .. n[i] : <<i, c>> \in Rows(s, n, kind)
  BY DEF Rows

LEMMA RowsAreFinite ==
    ASSUME NEW s, NEW n, Stored(s, n), NEW kind
    PROVE  IsFiniteSet(Indices(s, kind)) /\ IsFiniteSet(Rows(s, n, kind))
  <1>1. IsFiniteSet(1 .. Len(s))
    BY FS_Interval DEF Stored
  <1>2. DOMAIN s = 1 .. Len(s) /\ Indices(s, kind) \subseteq DOMAIN s
    BY DEF Stored, Indices
  <1>3. IsFiniteSet(Indices(s, kind))
    BY <1>1, <1>2, FS_Subset
  <1>4. IsFiniteSet(1 .. 2)
    <2>1. 1 \in Int /\ 2 \in Int
      OBVIOUS
    <2> QED
      BY <2>1, FS_Interval
  <1>5. IsFiniteSet(Indices(s, kind) \X (1 .. 2))
    BY <1>3, <1>4, FS_Product
  <1>6. Rows(s, n, kind) \subseteq Indices(s, kind) \X (1 .. 2)
    <2> SUFFICES ASSUME NEW i \in Indices(s, kind), NEW c \in 1 .. n[i]
                 PROVE  <<i, c>> \in Indices(s, kind) \X (1 .. 2)
      BY RowElements
    <2>1. n[i] \in {1, 2}
      BY <1>2 DEF Stored
    <2> QED
      BY <2>1
  <1> QED
    BY <1>3, <1>5, <1>6, FS_Subset

\* The order of the query is the order of the events, and of the copies of one.
LEMMA RowOrder ==
    ASSUME NEW s, NEW n, Stored(s, n), NEW i \in Indices(s, "tool_call"),
           NEW j \in Indices(s, "tool_call"), NEW c \in Int, NEW d \in Int
    PROVE  Before(s, <<i, c>>, <<j, d>>)
             <=> s[i].run = s[j].run /\ (i < j \/ (i = j /\ c < d))
  <1>1. /\ i \in DOMAIN s /\ j \in DOMAIN s /\ s[i].kind # "run_end" /\ s[j].kind # "run_end"
        /\ i \in Int /\ j \in Int /\ s[i].step \in Int /\ s[j].step \in Int
    <2>1. s \in Seq(TraceEvents) /\ i \in DOMAIN s /\ j \in DOMAIN s
      BY DEF Stored, Indices
    <2>2. s[i].step \in Nat /\ s[j].step \in Nat
      BY <2>1, TraceNumbers
    <2>3. s[i].kind = "tool_call" /\ s[j].kind = "tool_call"
      BY DEF Indices
    <2> QED
      BY <2>1, <2>2, <2>3
  <1>2. s[i].run = s[j].run => /\ i < j => s[i].step < s[j].step
                               /\ j < i => s[j].step < s[i].step
    BY <1>1 DEF Stored, Ordered
  <1>3. Before(s, <<i, c>>, <<j, d>>)
          <=> s[i].run = s[j].run /\ (s[i].step < s[j].step \/ (i = j /\ c < d))
    BY DEF Before
  <1> QED
    BY <1>1, <1>2, <1>3

\* The row before a row is another copy of its event, or the last copy of the
\* call before it.
LEMMA LagOfCalls ==
    ASSUME NEW s, NEW n, Stored(s, n), NEW i \in Indices(s, "tool_call"),
           NEW j \in Indices(s, "tool_call"), NEW c \in 1 .. n[i], NEW d \in 1 .. n[j]
    PROVE  Lag(s, Rows(s, n, "tool_call"), <<i, c>>, <<j, d>>)
             <=> \/ i = j /\ d = c + 1
                 \/ CallBefore(s, i, j) /\ c = n[i] /\ d = 1
  <1> DEFINE calls == Indices(s, "tool_call")
             rows == Rows(s, n, "tool_call")
  <1>1. \A k \in calls : k \in Int /\ n[k] \in {1, 2} /\ n[k] \in Int
    BY DEF Stored, Indices
  <1>2. c \in Int /\ d \in Int /\ 1 <= c /\ c <= n[i] /\ 1 <= d /\ d <= n[j]
    BY <1>1
  <1>3. \A k \in calls : \A e \in 1 .. n[k] : <<k, e>> \in rows
    BY RowElements
  <1>4. \A k, l \in calls : \A e, g \in Int :
           Before(s, <<k, e>>, <<l, g>>) <=> s[k].run = s[l].run /\ (k < l \/ (k = l /\ e < g))
    BY RowOrder
  <1>5. CallBefore(s, i, j) <=> /\ i < j /\ s[i].run = s[j].run
                                /\ \A k \in calls : i < k /\ k < j => s[k].run # s[j].run
    BY DEF CallBefore
  <1>6. Lag(s, rows, <<i, c>>, <<j, d>>)
          <=> /\ Before(s, <<i, c>>, <<j, d>>)
              /\ \A m \in rows : ~(Before(s, <<i, c>>, m) /\ Before(s, m, <<j, d>>))
    BY DEF Lag
  <1>7. ASSUME NEW m \in rows PROVE \E k \in calls : \E e \in 1 .. n[k] : m = <<k, e>>
    BY RowElements
  <1> HIDE DEF calls, rows
  <1>8. ASSUME i = j, d = c + 1 PROVE Lag(s, rows, <<i, c>>, <<j, d>>)
    <2>1. Before(s, <<i, c>>, <<j, d>>)
      BY <1>1, <1>2, <1>4, <1>8 DEF calls
    <2>2. ASSUME NEW k \in calls, NEW e \in 1 .. n[k],
                 Before(s, <<i, c>>, <<k, e>>), Before(s, <<k, e>>, <<j, d>>)
          PROVE  FALSE
      <3>1. e \in Int
        BY <1>1
      <3>2. i < k \/ (i = k /\ c < e)
        BY <1>2, <1>4, <2>2, <3>1 DEF calls
      <3>3. k < j \/ (k = j /\ e < d)
        BY <1>2, <1>4, <2>2, <3>1 DEF calls
      <3> QED
        BY <1>1, <1>2, <1>8, <3>1, <3>2, <3>3 DEF calls
    <2> QED
      BY <1>6, <1>7, <2>1, <2>2
  <1>9. ASSUME CallBefore(s, i, j), c = n[i], d = 1 PROVE Lag(s, rows, <<i, c>>, <<j, d>>)
    <2>1. Before(s, <<i, c>>, <<j, d>>)
      BY <1>1, <1>2, <1>4, <1>5, <1>9 DEF calls
    <2>2. ASSUME NEW k \in calls, NEW e \in 1 .. n[k],
                 Before(s, <<i, c>>, <<k, e>>), Before(s, <<k, e>>, <<j, d>>)
          PROVE  FALSE
      <3>1. e \in Int /\ 1 <= e /\ e <= n[k]
        BY <1>1
      <3>2. i < k \/ (i = k /\ c < e)
        BY <1>2, <1>4, <2>2, <3>1 DEF calls
      <3>3. s[k].run = s[j].run /\ (k < j \/ (k = j /\ e < d))
        BY <1>2, <1>4, <2>2, <3>1 DEF calls
      <3>4. i < k
        BY <1>1, <1>9, <3>1, <3>2
      <3>5. k < j
        BY <1>9, <3>1, <3>3
      <3> QED
        BY <1>5, <1>9, <3>3, <3>4, <3>5
    <2> QED
      BY <1>6, <1>7, <2>1, <2>2
  <1>10. ASSUME Lag(s, rows, <<i, c>>, <<j, d>>)
         PROVE  \/ i = j /\ d = c + 1
                \/ CallBefore(s, i, j) /\ c = n[i] /\ d = 1
    <2>1. s[i].run = s[j].run /\ (i < j \/ (i = j /\ c < d))
      BY <1>2, <1>4, <1>6, <1>10 DEF calls
    <2>2. \A k \in calls : \A e \in 1 .. n[k] :
             ~(Before(s, <<i, c>>, <<k, e>>) /\ Before(s, <<k, e>>, <<j, d>>))
      BY <1>3, <1>6, <1>10
    <2>3. \A k \in calls : \A e \in 1 .. n[k] : s[k].run = s[j].run =>
             ~((i < k \/ (i = k /\ c < e)) /\ (k < j \/ (k = j /\ e < d)))
      <3> SUFFICES ASSUME NEW k \in calls, NEW e \in 1 .. n[k], s[k].run = s[j].run,
                          i < k \/ (i = k /\ c < e), k < j \/ (k = j /\ e < d)
                   PROVE  FALSE
        OBVIOUS
      <3>1. e \in Int
        BY <1>1
      <3>2. Before(s, <<i, c>>, <<k, e>>)
        BY <1>2, <1>4, <2>1, <3>1 DEF calls
      <3>3. Before(s, <<k, e>>, <<j, d>>)
        BY <1>2, <1>4, <3>1 DEF calls
      <3> QED
        BY <2>2, <3>2, <3>3
    <2>4. i \in calls /\ j \in calls
      BY DEF calls
    <2>5. CASE i = j /\ c < d
      <3>1. c + 1 \in 1 .. n[i]
        BY <1>1, <1>2, <2>4, <2>5
      <3>2. ~(c + 1 < d)
        BY <1>2, <2>3, <2>4, <2>5, <3>1
      <3> QED
        BY <1>2, <2>5, <3>2
    <2>6. CASE i < j
      <3>1. n[i] \in 1 .. n[i] /\ 1 \in 1 .. n[j]
        BY <1>1, <1>2, <2>4
      <3>2. ~(c < n[i])
        BY <2>1, <2>3, <2>4, <2>6, <3>1
      <3>3. ~(1 < d)
        BY <2>3, <2>4, <2>6, <3>1
      <3>4. \A k \in calls : i < k /\ k < j => s[k].run # s[j].run
        <4> SUFFICES ASSUME NEW k \in calls, i < k, k < j, s[k].run = s[j].run PROVE FALSE
          OBVIOUS
        <4>1. 1 \in 1 .. n[k]
          BY <1>1
        <4> QED
          BY <2>3, <4>1
      <3> QED
        BY <1>1, <1>2, <1>5, <2>1, <2>4, <2>6, <3>2, <3>3, <3>4
    <2> QED
      BY <2>1, <2>5, <2>6
  <1> QED
    BY <1>8, <1>9, <1>10 DEF rows

LagsAre(s, n) ==
    \A i, j \in Indices(s, "tool_call") : \A c \in 1 .. n[i] : \A d \in 1 .. n[j] :
       Lag(s, Rows(s, n, "tool_call"), <<i, c>>, <<j, d>>)
         <=> \/ i = j /\ d = c + 1
             \/ CallBefore(s, i, j) /\ c = n[i] /\ d = 1

LEMMA LagsOfCalls ==
    ASSUME NEW s, NEW n, Stored(s, n)
    PROVE  LagsAre(s, n)
  <1> SUFFICES ASSUME NEW i \in Indices(s, "tool_call"), NEW j \in Indices(s, "tool_call"),
                      NEW c \in 1 .. n[i], NEW d \in 1 .. n[j]
               PROVE  Lag(s, Rows(s, n, "tool_call"), <<i, c>>, <<j, d>>)
                        <=> \/ i = j /\ d = c + 1
                            \/ CallBefore(s, i, j) /\ c = n[i] /\ d = 1
    BY DEF LagsAre
  <1> QED
    BY LagOfCalls

\* Two rows of the query's graph and two events of the walk in memory lie on the
\* same edge: the edge of another copy leads from a tool to itself.
LEMMA SameTransitions ==
    ASSUME NEW s, NEW n, Stored(s, n), NEW edge \in Tools \X Tools,
           edge[1] # edge[2] \/ \A i \in DOMAIN s : n[i] = 1
    PROVE  SqlTransitions(s, n)[edge] = Transitions(s)[edge]
  <1> DEFINE calls == Indices(s, "tool_call")
             rows == Rows(s, n, "tool_call")
             steps == {j \in calls : \E i \in calls :
                          CallBefore(s, i, j) /\ edge = <<s[i].name, s[j].name>>}
             pairs == {q \in rows : \E p \in rows :
                          Lag(s, rows, p, q) /\ edge = <<s[p[1]].name, s[q[1]].name>>}
             f == [j \in steps |-> <<j, 1>>]
  <1>1. SqlTransitions(s, n)[edge] = Cardinality(pairs)
        /\ Transitions(s)[edge] = Cardinality(steps)
    BY DEF SqlTransitions, Transitions
  <1>2. IsFiniteSet(steps)
    <2>1. steps \subseteq calls
      OBVIOUS
    <2> QED
      BY <2>1, RowsAreFinite, FS_Subset
  <1>3. \A i \in calls : 1 \in 1 .. n[i] /\ n[i] \in 1 .. n[i] /\ i \in DOMAIN s /\ n[i] \in {1, 2}
    BY DEF Stored, Indices
  <1>4. \A i \in calls : \A c \in 1 .. n[i] : <<i, c>> \in rows
    BY RowElements
  <1>5. \A q \in rows : \E i \in calls : \E c \in 1 .. n[i] : q = <<i, c>>
    BY RowElements
  <1>6. \A i, j \in calls : \A c \in 1 .. n[i] : \A d \in 1 .. n[j] :
           Lag(s, rows, <<i, c>>, <<j, d>>)
             <=> (i = j /\ d = c + 1) \/ (CallBefore(s, i, j) /\ c = n[i] /\ d = 1)
    <2>1. LagsAre(s, n)
      BY LagsOfCalls
    <2> QED
      BY <2>1 DEF LagsAre
  <1> HIDE DEF calls, rows
  <1>7. ASSUME NEW j \in steps PROVE <<j, 1>> \in pairs
    <2>1. PICK i \in calls : CallBefore(s, i, j) /\ edge = <<s[i].name, s[j].name>>
      OBVIOUS
    <2>2. j \in calls
      OBVIOUS
    <2>3. Lag(s, rows, <<i, n[i]>>, <<j, 1>>)
      BY <1>3, <1>6, <2>1, <2>2
    <2>4. <<i, n[i]>> \in rows /\ <<j, 1>> \in rows
      BY <1>3, <1>4, <2>1, <2>2
    <2>5. <<i, n[i]>>[1] = i /\ <<j, 1>>[1] = j
      OBVIOUS
    <2> QED
      BY <2>1, <2>3, <2>4, <2>5
  <1>8. ASSUME NEW q \in pairs PROVE \E j \in steps : <<j, 1>> = q
    <2>1. PICK p \in rows : Lag(s, rows, p, q) /\ edge = <<s[p[1]].name, s[q[1]].name>>
      OBVIOUS
    <2>2. PICK i \in calls : \E c \in 1 .. n[i] : p = <<i, c>>
      BY <1>5, <2>1
    <2>3. PICK c \in 1 .. n[i] : p = <<i, c>>
      BY <2>2
    <2>4. PICK j \in calls : \E d \in 1 .. n[j] : q = <<j, d>>
      BY <1>5
    <2>5. PICK d \in 1 .. n[j] : q = <<j, d>>
      BY <2>4
    <2>6. edge = <<s[i].name, s[j].name>>
      BY <2>1, <2>3, <2>5
    <2>7. (i = j /\ d = c + 1) \/ (CallBefore(s, i, j) /\ c = n[i] /\ d = 1)
      BY <1>6, <2>1, <2>2, <2>3, <2>4, <2>5
    <2>8. ~(i = j /\ d = c + 1)
      <3> SUFFICES ASSUME i = j, d = c + 1 PROVE FALSE
        OBVIOUS
      <3>1. edge[1] = edge[2]
        BY <2>6
      <3>2. n[j] = 1 /\ c \in 1 .. 1 /\ d \in 1 .. 1
        BY <1>3, <3>1
      <3> QED
        BY <3>2
    <2> QED
      BY <2>5, <2>6, <2>7, <2>8
  <1>9. \A x, y \in steps : f[x] = f[y] => x = y
    <2>1. \A x, y : <<x, 1>> = <<y, 1>> => x = y
      OBVIOUS
    <2> HIDE DEF steps
    <2> QED
      BY <2>1
  <1>10. f \in [steps -> pairs] /\ \A q \in pairs : \E j \in steps : f[j] = q
    <2> HIDE DEF steps, pairs
    <2> QED
      BY <1>7, <1>8
  <1>11. Cardinality(pairs) = Cardinality(steps)
    <2> HIDE DEF steps, pairs, f
    <2> QED
      BY <1>2, <1>9, <1>10, SameSize
  <1> QED
    BY <1>1, <1>11

\* Two different elements are at least two.
LEMMA TwoElements ==
    ASSUME NEW S, IsFiniteSet(S), NEW a \in S, NEW b \in S, a # b
    PROVE  Cardinality(S) >= 2
  <1>1. IsFiniteSet({a}) /\ Cardinality({a}) = 1
    BY FS_Singleton
  <1>2. Cardinality({a} \cup {b}) = 2
    BY <1>1, FS_AddElement
  <1>3. {a} \cup {b} \in SUBSET S
    OBVIOUS
  <1>4. Cardinality(S) \in Nat /\ Cardinality({a} \cup {b}) <= Cardinality(S)
    BY <1>3, FS_Subset, FS_CardinalityType
  <1> QED
    BY <1>2, <1>4

\* Three calls of one tool in a row are a storm, however often they are stored:
\* the first copy of the third repeats, and so does the last of the second.
LEMMA ThreeCallsAreAStorm ==
    ASSUME NEW s, NEW n, Stored(s, n),
           NEW i \in Indices(s, "tool_call"), NEW j \in Indices(s, "tool_call"),
           NEW k \in Indices(s, "tool_call"), CallBefore(s, i, j), CallBefore(s, j, k),
           s[i].name = s[k].name, s[j].name = s[k].name
    PROVE  <<s[k].run, s[k].name>> \in RetryStorms(s, n)
  <1> DEFINE calls == Indices(s, "tool_call")
             rows == Rows(s, n, "tool_call")
             repeats == {q \in rows : \E p \in rows :
                           Lag(s, rows, p, q) /\ s[p[1]].name = s[q[1]].name}
             preceding(q) == {p \in rows : Lag(s, rows, p, q)}
             win(q) == {q} \cup preceding(q) \cup UNION {preceding(p) : p \in preceding(q)}
             last == <<k, 1>>
             middle == <<j, n[j]>>
             before == IF n[j] = 1 THEN <<i, n[i]>> ELSE <<j, 1>>
  <1>1. \A l \in calls : 1 \in 1 .. n[l] /\ n[l] \in 1 .. n[l] /\ n[l] \in {1, 2}
    BY DEF Stored, Indices
  <1>2. \A l \in calls : \A c \in 1 .. n[l] : <<l, c>> \in rows
    BY RowElements
  <1>3. \A l, m \in calls : \A c \in 1 .. n[l] : \A d \in 1 .. n[m] :
           Lag(s, rows, <<l, c>>, <<m, d>>)
             <=> (l = m /\ d = c + 1) \/ (CallBefore(s, l, m) /\ c = n[l] /\ d = 1)
    <2>1. LagsAre(s, n)
      BY LagsOfCalls
    <2> QED
      BY <2>1 DEF LagsAre
  <1>4. i \in calls /\ j \in calls /\ k \in calls /\ IsFiniteSet(rows)
    BY RowsAreFinite
  <1>5. RetryStorms(s, n) = {<<s[q[1]].run, s[q[1]].name>> :
                               q \in {r \in rows : Cardinality(win(r) \cap repeats) >= 2}}
    BY DEF RetryStorms
  <1> HIDE DEF calls, rows
  <1>6. last \in rows /\ middle \in rows /\ Lag(s, rows, middle, last)
    BY <1>1, <1>2, <1>3, <1>4
  <1>7. before \in rows /\ Lag(s, rows, before, middle) /\ s[before[1]].name = s[j].name
    <2>1. CASE n[j] = 1
      <3>1. before = <<i, n[i]>> /\ middle = <<j, 1>>
        BY <2>1
      <3>2. before[1] = i
        BY <3>1
      <3> QED
        BY <1>1, <1>2, <1>3, <1>4, <3>1, <3>2
    <2>2. CASE n[j] = 2
      <3>1. before = <<j, 1>> /\ middle = <<j, 2>> /\ 1 \in 1 .. n[j] /\ 2 \in 1 .. n[j] /\ 2 = 1 + 1
        BY <2>2
      <3>2. before[1] = j
        BY <3>1
      <3>3. Lag(s, rows, <<j, 1>>, <<j, 2>>)
        BY <1>3, <1>4, <3>1
      <3> QED
        BY <1>2, <1>4, <3>1, <3>2, <3>3
    <2> QED
      BY <1>1, <1>4, <2>1, <2>2
  <1>8. last[1] = k /\ middle[1] = j /\ last # middle
    <2>1. j < k /\ j \in Int /\ k \in Int
      BY <1>4 DEF CallBefore, Stored, Indices, calls
    <2>2. k # j
      BY <2>1
    <2> QED
      BY <2>2
  <1> HIDE DEF before, last, middle
  <1>9. last \in repeats /\ middle \in repeats
    BY <1>6, <1>7, <1>8
  <1>10. last \in win(last) /\ middle \in win(last)
    BY <1>6
  <1>11. Cardinality(win(last) \cap repeats) >= 2
    <2>1. IsFiniteSet(win(last) \cap repeats)
      <3>1. win(last) \cap repeats \in SUBSET rows
        OBVIOUS
      <3> HIDE DEF win, repeats
      <3> QED
        BY <1>4, <3>1, FS_Subset
    <2> HIDE DEF win, repeats
    <2>2. last \in win(last) \cap repeats /\ middle \in win(last) \cap repeats
      BY <1>9, <1>10
    <2> QED
      BY <1>8, <2>1, <2>2, TwoElements
  <1> HIDE DEF win, repeats
  <1>12. <<s[last[1]].run, s[last[1]].name>> \in RetryStorms(s, n)
    BY <1>5, <1>6, <1>11
  <1> QED
    BY <1>8, <1>12

\* The kinds of an event and of the key of its failure are the same.
LEMMA FailureKeys ==
    ASSUME NEW s
    PROVE  /\ \A i \in Indices(s, "error") :
                 SqlFailure(s[i]) = <<"error", SqlClass[s[i].name], Depth(s[i].step)>>
           /\ \A i \in Indices(s, "tool_call") :
                 SqlFailure(s[i]) = <<"tool_call", s[i].name, Depth(s[i].step)>>
  BY DEF Indices, SqlFailure

FailedRows(s, n) ==
    Rows(s, n, "error") \cup {row \in Rows(s, n, "tool_call") : s[row[1]].mark}

\* The query counts the rows of each failure, of which there are finitely many.
Counted(s, n) ==
    /\ IsFiniteSet(FailedRows(s, n))
    /\ IsFiniteSet(DOMAIN SqlFailures(s, n))
    /\ DOMAIN SqlFailures(s, n) = {SqlFailure(s[row[1]]) : row \in FailedRows(s, n)}
    /\ \A key \in DOMAIN SqlFailures(s, n) : SqlFailures(s, n)[key]
          = Cardinality({row \in FailedRows(s, n) : SqlFailure(s[row[1]]) = key})

LEMMA FailuresAreCounted ==
    ASSUME NEW s, NEW n, Stored(s, n)
    PROVE  Counted(s, n)
  <1> DEFINE at == [row \in FailedRows(s, n) |-> SqlFailure(s[row[1]])]
  <1>1. IsFiniteSet(FailedRows(s, n))
    <2>1. IsFiniteSet(Rows(s, n, "error")) /\ IsFiniteSet(Rows(s, n, "tool_call"))
      BY RowsAreFinite
    <2>2. IsFiniteSet({row \in Rows(s, n, "tool_call") : s[row[1]].mark})
      BY <2>1, FS_Subset
    <2> QED
      BY <2>1, <2>2, FS_Union DEF FailedRows
  <1>2. IsFiniteSet({at[row] : row \in FailedRows(s, n)})
    BY <1>1, FiniteValues
  <1>3. {at[row] : row \in FailedRows(s, n)} = {SqlFailure(s[row[1]]) : row \in FailedRows(s, n)}
    OBVIOUS
  <1> QED
    BY <1>1, <1>2, <1>3 DEF SqlFailures, FailedRows, Counted

\* An error of the query is the errors in memory of its class and depth.
LEMMA SameErrors ==
    ASSUME NEW s, NEW n, Stored(s, n), \A i \in DOMAIN s : n[i] = 1,
           NEW key \in DOMAIN SqlFailures(s, n), key[1] = "error"
    PROVE  SqlFailures(s, n)[key] = SumFunctionOnSet(ErrorClusters(s),
              {k \in DOMAIN ErrorClusters(s) : SqlClass[k[1]] = key[2] /\ k[2] = key[3]})
  <1> DEFINE X == Indices(s, "error")
             at == [i \in X |-> <<s[i].name, Depth(s[i].step)>>]
             C == ErrorClusters(s)
             D == {k \in DOMAIN C : SqlClass[k[1]] = key[2] /\ k[2] = key[3]}
             counted == {i \in X : at[i] \in D}
             failed == {row \in FailedRows(s, n) : SqlFailure(s[row[1]]) = key}
             f == [i \in counted |-> <<i, 1>>]
  <1>0. Counted(s, n)
    BY FailuresAreCounted
  <1>1. IsFiniteSet(X)
    BY RowsAreFinite
  <1>2. DOMAIN C = {at[i] : i \in X} /\ \A k \in DOMAIN C : C[k] = Cardinality({i \in X : at[i] = k})
    <2>1. \A k : {i \in X : at[i] = k} = {i \in X : <<s[i].name, Depth(s[i].step)>> = k}
      OBVIOUS
    <2>2. {at[i] : i \in X} = {<<s[i].name, Depth(s[i].step)>> : i \in X}
      OBVIOUS
    <2> QED
      BY <2>1, <2>2 DEF ErrorClusters
  <1>3. SumFunctionOnSet(C, D) = Cardinality(counted)
    <2> HIDE DEF X, at, C
    <2>1. IsFiniteSet(DOMAIN C)
      BY <1>1, <1>2, FiniteValues
    <2>2. IsFiniteSet(D) /\ Tallies(C, X, at, D)
      BY <1>2, <2>1, FS_Subset DEF Tallies
    <2> HIDE DEF D
    <2>3. SumFunctionOnSet(C, D) = Cardinality(Placed(X, at, D))
      BY <1>1, <2>2, SumOfTallies
    <2> QED
      BY <2>3 DEF Placed
  <1>4. SqlFailures(s, n)[key] = Cardinality(failed)
    BY <1>0 DEF Counted
  <1>5. ASSUME NEW i \in X
        PROVE  at[i] \in D <=> SqlFailure(s[i]) = key
    <2>1. at[i] \in DOMAIN C
      BY <1>2
    <2>2. at[i] \in D <=> SqlClass[s[i].name] = key[2] /\ Depth(s[i].step) = key[3]
      BY <2>1
    <2>3. SqlFailure(s[i]) = <<"error", SqlClass[s[i].name], Depth(s[i].step)>>
      BY FailureKeys
    <2>4. PICK row \in FailedRows(s, n) : key = SqlFailure(s[row[1]])
      BY <1>0 DEF Counted
    <2>5. key = <<key[1], key[2], key[3]>>
      BY <2>4 DEF SqlFailure
    <2> QED
      BY <2>2, <2>3, <2>5
  <1>6. \A i \in X : i \in DOMAIN s /\ n[i] = 1 /\ 1 \in 1 .. n[i]
    BY DEF Indices
  <1>7. ASSUME NEW i \in counted PROVE <<i, 1>> \in failed
    <2>1. i \in X /\ SqlFailure(s[i]) = key
      BY <1>5
    <2>2. <<i, 1>> \in FailedRows(s, n) /\ <<i, 1>>[1] = i
      BY <1>6, <2>1, RowElements DEF FailedRows
    <2> QED
      BY <2>1, <2>2
  <1>8. ASSUME NEW row \in failed PROVE \E i \in counted : <<i, 1>> = row
    <2>1. row \in Rows(s, n, "error")
      <3> SUFFICES ASSUME row \in Rows(s, n, "tool_call") PROVE FALSE
        BY DEF FailedRows
      <3>1. PICK i \in Indices(s, "tool_call") : \E c \in 1 .. n[i] : row = <<i, c>>
        BY RowElements
      <3>2. row[1] = i
        BY <3>1
      <3>3. key = <<"tool_call", s[i].name, Depth(s[i].step)>>
        BY <3>2, FailureKeys
      <3> QED
        BY <3>3
    <2>2. PICK i \in X : \E c \in 1 .. n[i] : row = <<i, c>>
      BY <2>1, RowElements
    <2>3. row = <<i, 1>>
      BY <1>6, <2>2
    <2>4. SqlFailure(s[i]) = key
      BY <2>3
    <2> QED
      BY <1>5, <2>3, <2>4
  <1>9. IsFiniteSet(counted)
    <2>1. counted \in SUBSET X
      OBVIOUS
    <2> HIDE DEF X, counted
    <2> QED
      BY <1>1, <2>1, FS_Subset
  <1> HIDE DEF counted, failed
  <1>10. f \in [counted -> failed] /\ \A row \in failed : \E i \in counted : f[i] = row
    BY <1>7, <1>8
  <1>11. \A x, y \in counted : f[x] = f[y] => x = y
    <2>1. \A x, y : <<x, 1>> = <<y, 1>> => x = y
      OBVIOUS
    <2> QED
      BY <2>1
  <1>12. Cardinality(failed) = Cardinality(counted)
    <2> HIDE DEF f
    <2> QED
      BY <1>9, <1>10, <1>11, SameSize
  <1> QED
    BY <1>3, <1>4, <1>12

\* The failed calls of a tool are its failures of the query at all depths.
LEMMA SameToolErrors ==
    ASSUME NEW s, NEW n, Stored(s, n), \A i \in DOMAIN s : n[i] = 1, NEW t \in Tools
    PROVE  ToolErrors(s)[t] = SumFunctionOnSet(SqlFailures(s, n),
              {k \in DOMAIN SqlFailures(s, n) : k[1] = "tool_call" /\ k[2] = t})
  <1> DEFINE F == SqlFailures(s, n)
             X == FailedRows(s, n)
             at == [row \in X |-> SqlFailure(s[row[1]])]
             D == {k \in DOMAIN F : k[1] = "tool_call" /\ k[2] = t}
             counted == {i \in Indices(s, "tool_call") : s[i].name = t /\ s[i].mark}
             failed == {row \in X : at[row] \in D}
             f == [i \in counted |-> <<i, 1>>]
  <1>0. Counted(s, n)
    BY FailuresAreCounted
  <1>1. IsFiniteSet(X) /\ IsFiniteSet(DOMAIN F) /\ DOMAIN F = {at[row] : row \in X}
    BY <1>0 DEF Counted
  <1>2. \A k \in DOMAIN F : F[k] = Cardinality({row \in X : at[row] = k})
    <2>1. \A k : {row \in X : at[row] = k} = {row \in X : SqlFailure(s[row[1]]) = k}
      OBVIOUS
    <2> QED
      BY <1>0, <2>1 DEF Counted
  <1>3. SumFunctionOnSet(F, D) = Cardinality(failed)
    <2> HIDE DEF X, at, F
    <2>1. IsFiniteSet(D) /\ Tallies(F, X, at, D)
      BY <1>1, <1>2, FS_Subset DEF Tallies
    <2> HIDE DEF D
    <2>2. SumFunctionOnSet(F, D) = Cardinality(Placed(X, at, D))
      BY <1>1, <2>1, SumOfTallies
    <2> QED
      BY <2>2 DEF Placed
  <1>4. ToolErrors(s)[t] = Cardinality(counted)
    BY DEF ToolErrors
  <1>5. \A i \in Indices(s, "tool_call") : i \in DOMAIN s /\ n[i] = 1 /\ 1 \in 1 .. n[i]
    BY DEF Indices
  <1>6. ASSUME NEW i \in counted PROVE <<i, 1>> \in failed
    <2>1. i \in Indices(s, "tool_call") /\ s[i].name = t /\ s[i].mark
      OBVIOUS
    <2>2. <<i, 1>> \in Rows(s, n, "tool_call") /\ <<i, 1>>[1] = i
      BY <1>5, <2>1, RowElements
    <2>3. <<i, 1>> \in X
      BY <2>1, <2>2 DEF FailedRows
    <2>4. at[<<i, 1>>] = <<"tool_call", t, Depth(s[i].step)>>
      BY <2>1, <2>2, <2>3, FailureKeys
    <2>5. at[<<i, 1>>] \in DOMAIN F
      BY <1>1, <2>3
    <2>6. at[<<i, 1>>] \in D
      BY <2>4, <2>5
    <2> QED
      BY <2>3, <2>6
  <1>7. ASSUME NEW row \in failed PROVE \E i \in counted : <<i, 1>> = row
    <2>1. row \in X /\ SqlFailure(s[row[1]])[1] = "tool_call" /\ SqlFailure(s[row[1]])[2] = t
      OBVIOUS
    <2>2. row \notin Rows(s, n, "error")
      <3> SUFFICES ASSUME row \in Rows(s, n, "error") PROVE FALSE
        OBVIOUS
      <3>1. PICK i \in Indices(s, "error") : \E c \in 1 .. n[i] : row = <<i, c>>
        BY RowElements
      <3>2. row[1] = i
        BY <3>1
      <3>3. SqlFailure(s[row[1]]) = <<"error", SqlClass[s[i].name], Depth(s[i].step)>>
        BY <3>2, FailureKeys
      <3> QED
        BY <2>1, <3>3
    <2>3. row \in Rows(s, n, "tool_call") /\ s[row[1]].mark
      BY <2>1, <2>2 DEF FailedRows
    <2>4. PICK i \in Indices(s, "tool_call") : \E c \in 1 .. n[i] : row = <<i, c>>
      BY <2>3, RowElements
    <2>5. row = <<i, 1>> /\ row[1] = i
      BY <1>5, <2>4
    <2>6. SqlFailure(s[i]) = <<"tool_call", s[i].name, Depth(s[i].step)>>
      BY FailureKeys
    <2>7. s[i].name = t /\ s[i].mark
      BY <2>1, <2>3, <2>5, <2>6
    <2> QED
      BY <2>5, <2>7
  <1>8. IsFiniteSet(counted)
    BY RowsAreFinite, FS_Subset
  <1> HIDE DEF counted, failed
  <1>9. f \in [counted -> failed] /\ \A row \in failed : \E i \in counted : f[i] = row
    BY <1>6, <1>7
  <1>10. \A x, y \in counted : f[x] = f[y] => x = y
    <2>1. \A x, y : <<x, 1>> = <<y, 1>> => x = y
      OBVIOUS
    <2> QED
      BY <2>1
  <1>11. Cardinality(failed) = Cardinality(counted)
    <2> HIDE DEF f
    <2> QED
      BY <1>8, <1>9, <1>10, SameSize
  <1> QED
    BY <1>3, <1>4, <1>11

\* The query counts the runs that have ended and called a tool or the model.
LEMMA SameRuns ==
    ASSUME NEW s, NEW n, Stored(s, n), \A i \in DOMAIN s : n[i] = 1,
           \A i \in DOMAIN s : Finished(s, s[i].run)
    PROVE  SqlConvergence(s, n).runs
             = Cardinality({s[i].run : i \in Indices(s, "tool_call") \cup Indices(s, "model_call")})
  <1> DEFINE latency == {s[i].run : i \in Indices(s, "model_call") \cup Indices(s, "tool_call")}
             called == {s[i].run : i \in Indices(s, "tool_call") \cup Indices(s, "model_call")}
             rows == Rows(s, n, "run_end")
             joined == {row \in rows : s[row[1]].run \in latency}
             f == [row \in joined |-> s[row[1]].run]
  <1>1. SqlConvergence(s, n).runs = Cardinality(joined)
    BY DEF SqlConvergence
  <1>2. called = latency
    OBVIOUS
  <1>3. IsFiniteSet(joined)
    <2>1. IsFiniteSet(rows)
      BY RowsAreFinite
    <2> HIDE DEF rows
    <2> QED
      BY <2>1, FS_Subset
  <1>4. \A i \in Indices(s, "run_end") : /\ i \in DOMAIN s /\ i \in Int /\ n[i] = 1
                                         /\ 1 \in 1 .. n[i] /\ s[i].kind = "run_end"
    BY DEF Indices, Stored
  <1>5. \A row \in rows : \E i \in Indices(s, "run_end") : row = <<i, 1>>
    <2> SUFFICES ASSUME NEW row \in rows PROVE \E i \in Indices(s, "run_end") : row = <<i, 1>>
      OBVIOUS
    <2>1. PICK i \in Indices(s, "run_end") : \E c \in 1 .. n[i] : row = <<i, c>>
      BY RowElements
    <2> QED
      BY <1>4, <2>1
  <1>6. \A i \in Indices(s, "run_end") : <<i, 1>> \in rows
    BY <1>4, RowElements
  <1> HIDE DEF rows
  <1>7. ASSUME NEW x \in joined, NEW y \in joined, f[x] = f[y] PROVE x = y
    <2>1. PICK i \in Indices(s, "run_end") : x = <<i, 1>>
      BY <1>5
    <2>2. PICK j \in Indices(s, "run_end") : y = <<j, 1>>
      BY <1>5
    <2>3. s[i].run = s[j].run
      BY <1>7, <2>1, <2>2
    <2>4. ~(i < j) /\ ~(j < i)
      BY <1>4, <2>3 DEF Stored, Ordered
    <2> QED
      BY <1>4, <2>1, <2>2, <2>4
  <1>8. ASSUME NEW r \in latency PROVE \E row \in joined : f[row] = r
    <2>1. PICK i \in Indices(s, "model_call") \cup Indices(s, "tool_call") : r = s[i].run
      OBVIOUS
    <2>2. i \in DOMAIN s
      BY DEF Indices
    <2>3. PICK j \in DOMAIN s : s[j].run = r /\ s[j].kind = "run_end"
      BY <2>1, <2>2 DEF Finished
    <2>4. j \in Indices(s, "run_end")
      BY <2>3 DEF Indices
    <2>5. <<j, 1>> \in rows /\ <<j, 1>>[1] = j
      BY <1>6, <2>4
    <2>6. <<j, 1>> \in joined /\ f[<<j, 1>>] = r
      BY <2>3, <2>5
    <2> QED
      BY <2>6
  <1>9. f \in [joined -> latency]
    OBVIOUS
  <1>10. Cardinality(latency) = Cardinality(joined)
    <2> HIDE DEF latency, joined, f
    <2> QED
      BY <1>3, <1>7, <1>8, <1>9, SameSize
  <1> QED
    BY <1>1, <1>2, <1>10

\* The events so far are in order, and every run but the last one has ended.
Tidy(s) ==
    /\ Ordered(s)
    /\ \A i \in DOMAIN s : s[i].run # Last(s).run => Finished(s, s[i].run)

\* The analyzers get the traces of whole runs, as the tasks have collected them.
TableInv ==
    /\ pc \in {"acting", "analyzing"} => Tidy(events)
    /\ pc = "analyzing" => Between /\ copies \in [DOMAIN events -> {1, 2}]

\* The next event of a run that goes on.
LEMMA NextSpan ==
    ASSUME NEW s \in Seq(TraceEvents), s # <<>>, Tidy(s), Last(s).kind # "run_end",
           NEW e \in TraceEvents, e.run = Last(s).run,
           e.kind # "run_end" => e.step = Last(s).step + 1
    PROVE  Tidy(Append(s, e))
  <1> DEFINE t == Append(s, e)
             m == Len(s)
  <1>1. /\ m \in DOMAIN s /\ m \in Nat /\ Last(s) = s[m] /\ Last(t) = e
        /\ \A i \in DOMAIN s : i \in DOMAIN t /\ t[i] = s[i] /\ i \in 1 .. m
        /\ \A i \in DOMAIN t : i \in Nat /\ (i \in DOMAIN s \/ (i = m + 1 /\ t[i] = e))
    BY DEF Last
  <1>2. \A i \in DOMAIN s : s[i].step \in Nat /\ s[i].run \in Int
    BY TraceNumbers
  <1> HIDE DEF t, m
  <1>3. ASSUME NEW i \in DOMAIN s, s[i].run = e.run
        PROVE  s[i].kind # "run_end" /\ s[i].step <= s[m].step
    <2>1. CASE i = m
      BY <1>1, <1>2, <2>1
    <2>2. CASE i < m
      <3>1. s[i].run = s[m].run /\ s[m].kind # "run_end"
        BY <1>1, <1>3
      <3>2. s[i].kind # "run_end" /\ s[i].step < s[m].step
        BY <1>1, <2>2, <3>1 DEF Tidy, Ordered
      <3> QED
        BY <1>1, <1>2, <3>2
    <2> QED
      BY <1>1, <2>1, <2>2
  <1>4. Ordered(t)
    <2> SUFFICES ASSUME NEW i \in DOMAIN t, NEW j \in DOMAIN t, i < j, t[i].run = t[j].run
                 PROVE  /\ t[i].kind # "run_end"
                        /\ t[j].kind # "run_end" => t[i].step < t[j].step
      BY DEF Ordered
    <2>1. i \in DOMAIN s /\ t[i] = s[i]
      BY <1>1
    <2>2. CASE j \in DOMAIN s
      BY <1>1, <2>1, <2>2 DEF Tidy, Ordered
    <2>3. CASE t[j] = e
      <3>1. s[i].kind # "run_end" /\ s[i].step <= s[m].step
        BY <1>3, <2>1, <2>3
      <3>2. e.kind # "run_end" => s[i].step < e.step
        BY <1>1, <1>2, <2>1, <3>1
      <3> QED
        BY <2>1, <2>3, <3>1, <3>2
    <2> QED
      BY <1>1, <2>2, <2>3
  <1>5. ASSUME NEW i \in DOMAIN t, t[i].run # Last(t).run
        PROVE  Finished(t, t[i].run)
    <2>1. i \in DOMAIN s /\ t[i] = s[i] /\ s[i].run # Last(s).run
      BY <1>1, <1>5
    <2>2. Finished(s, s[i].run)
      BY <2>1 DEF Tidy
    <2> QED
      BY <1>1, <2>1, <2>2 DEF Finished
  <1> QED
    BY <1>4, <1>5 DEF Tidy, t

\* The first event of the next run.
LEMMA NextRun ==
    ASSUME NEW s \in Seq(TraceEvents), Tidy(s), s # <<>> => Last(s).kind = "run_end",
           NEW e \in TraceEvents, \A i \in DOMAIN s : s[i].run # e.run
    PROVE  Tidy(Append(s, e))
  <1> DEFINE t == Append(s, e)
             m == Len(s)
  <1>1. /\ m \in Nat /\ Last(t) = e /\ (s # <<>> => m \in DOMAIN s /\ Last(s) = s[m])
        /\ \A i \in DOMAIN s : i \in DOMAIN t /\ t[i] = s[i] /\ i \in 1 .. m /\ s # <<>>
        /\ \A i \in DOMAIN t : i \in Nat /\ (i \in DOMAIN s \/ (i = m + 1 /\ t[i] = e))
    BY DEF Last
  <1> HIDE DEF t, m
  <1>2. Ordered(t)
    <2> SUFFICES ASSUME NEW i \in DOMAIN t, NEW j \in DOMAIN t, i < j, t[i].run = t[j].run
                 PROVE  /\ t[i].kind # "run_end"
                        /\ t[j].kind # "run_end" => t[i].step < t[j].step
      BY DEF Ordered
    <2>1. i \in DOMAIN s /\ t[i] = s[i]
      BY <1>1
    <2>2. j \in DOMAIN s /\ t[j] = s[j]
      BY <1>1, <2>1
    <2> QED
      BY <2>1, <2>2 DEF Tidy, Ordered
  <1>3. ASSUME NEW i \in DOMAIN t, t[i].run # Last(t).run
        PROVE  Finished(t, t[i].run)
    <2>1. i \in DOMAIN s /\ t[i] = s[i] /\ s # <<>>
      BY <1>1, <1>3
    <2>2. Finished(s, s[i].run)
      <3>1. CASE s[i].run # Last(s).run
        BY <2>1, <3>1 DEF Tidy
      <3>2. CASE s[i].run = Last(s).run
        BY <1>1, <2>1, <3>2 DEF Finished
      <3> QED
        BY <3>1, <3>2
    <2> QED
      BY <1>1, <2>1, <2>2 DEF Finished
  <1> QED
    BY <1>2, <1>3 DEF Tidy, t

LEMMA InitTable == Init => TableInv
  <1> SUFFICES ASSUME Init PROVE TableInv
    OBVIOUS
  <1>1. pc = "acting" /\ \A i \in DOMAIN events : FALSE
    BY DEF Init
  <1> QED
    BY <1>1 DEF TableInv, Tidy, Ordered

\* What the events of a task keep.
LEMMA TableOfCollected ==
    ASSUME pc = "acting", NEW new, Collected(new), Tidy(events \o new)
    PROVE  TableInv'
  <1>1. pc' = "acting" /\ events' = events \o new
    BY DEF Collected
  <1>2. Tidy(events')
    BY <1>1
  <1> QED
    BY <1>1, <1>2 DEF TableInv

LEMMA StartKeepsTable == EvidenceInv /\ TableInv /\ StartRun => TableInv'
  <1> SUFFICES ASSUME EvidenceInv, TableInv, StartRun PROVE TableInv'
    OBVIOUS
  <1> DEFINE r == LastRun + 1
             e == Event(r, "run_start", 0, "-", FALSE)
  <1>1. events \in Seq(TraceEvents) /\ RunsInOrder(events) /\ MaxRuns \in Nat \ {0}
    BY EvidenceAssumption DEF EvidenceInv
  <1>2. pc = "acting" /\ Between /\ LastRun < MaxRuns /\ Collected(<<e>>)
    BY DEF StartRun
  <1>3. r \in 1 .. MaxRuns /\ \A i \in DOMAIN events : events[i].run # r
    <2>1. CASE events = <<>>
      BY <1>1, <1>2, <2>1 DEF LastRun
    <2>2. CASE events # <<>>
      <3>1. Last(events).run \in 1 .. MaxRuns /\ LastRun = Last(events).run
        BY <1>1, <2>2, LastIsGreatest, TraceEventNumbers DEF LastRun
      <3>2. \A i \in DOMAIN events : events[i].run \in Int /\ events[i].run <= LastRun
        BY <1>1, <2>2, <3>1, LastIsGreatest, TraceNumbers
      <3> QED
        BY <1>1, <1>2, <3>1, <3>2
    <2> QED
      BY <2>1, <2>2
  <1> HIDE DEF r
  <1>4. e \in TraceEvents /\ e.run = r
    <2>1. "run_start" \in Kinds /\ "-" \in Names /\ FALSE \in BOOLEAN /\ 0 \in Nat
      BY DEF Kinds, Names
    <2> QED
      BY <1>3, <2>1, EventType
  <1> HIDE DEF e
  <1>5. Tidy(Append(events, e))
    BY <1>1, <1>2, <1>3, <1>4, NextRun DEF TableInv, Between
  <1>6. events \o <<e>> = Append(events, e)
    BY <1>1, <1>4
  <1> QED
    BY <1>2, <1>5, <1>6, TableOfCollected

LEMMA SpanKeepsTable == EvidenceInv /\ TableInv /\ (RecordSpan \/ EndRun) => TableInv'
  <1> SUFFICES ASSUME EvidenceInv, TableInv, RecordSpan \/ EndRun PROVE TableInv'
    OBVIOUS
  <1> DEFINE r == LastRun
             next == Last(events).step + 1
  <1>1. /\ events \in Seq(TraceEvents) /\ RunsInOrder(events) /\ Tidy(events)
        /\ events # <<>> /\ pc = "acting" /\ Last(events).kind # "run_end"
    BY DEF EvidenceInv, TableInv, RecordSpan, EndRun, Between
  <1>2. r \in 1 .. MaxRuns /\ next \in Nat /\ r = Last(events).run /\ next = Last(events).step + 1
    <2>1. Last(events).step \in Nat /\ Last(events).run \in 1 .. MaxRuns
      BY <1>1, LastIsGreatest, TraceEventNumbers
    <2> QED
      BY <1>1, <2>1 DEF LastRun
  <1>3. FALSE \in BOOLEAN /\ TRUE \in BOOLEAN /\ "-" \in Names /\ "model" \in Names
        /\ Tools \subseteq Names /\ ErrorClasses \subseteq Names
        /\ \A kind \in {"run_end", "model_call", "tool_call", "error", "terminate"} : kind \in Kinds
    BY DEF Names, Kinds
  <1> HIDE DEF r, next
  <1>4. ASSUME NEW kind \in Kinds, NEW k \in Nat, NEW name \in Names, NEW mark \in BOOLEAN,
               kind # "run_end" => k = next, Collected(<<Event(r, kind, k, name, mark)>>)
        PROVE  TableInv'
    <2> DEFINE e == Event(r, kind, k, name, mark)
    <2>1. e \in TraceEvents /\ e.run = r
      BY <1>2, EventType
    <2>2. e.kind = kind /\ e.step = k
      BY DEF Event
    <2>3. Collected(<<e>>)
      BY <1>4
    <2> HIDE DEF e
    <2>4. Tidy(Append(events, e))
      BY <1>1, <1>2, <1>4, <2>1, <2>2, NextSpan
    <2>5. events \o <<e>> = Append(events, e)
      BY <1>1, <2>1
    <2> QED
      BY <1>1, <2>3, <2>4, <2>5, TableOfCollected
  <1>5. ASSUME NEW kind \in Kinds, NEW name \in Names, NEW success \in BOOLEAN, kind # "run_end",
               Collected(<<Event(r, kind, next, name, FALSE),
                           Event(r, "run_end", 0, "-", success)>>)
        PROVE  TableInv'
    <2> DEFINE e == Event(r, kind, next, name, FALSE)
               f == Event(r, "run_end", 0, "-", success)
    <2>1. e \in TraceEvents /\ e.run = r /\ f \in TraceEvents /\ f.run = r
      <3>1. "run_end" \in Kinds /\ "-" \in Names /\ 0 \in Nat /\ FALSE \in BOOLEAN
        BY <1>3
      <3>2. e \in TraceEvents /\ e.run = r
        BY <1>2, <3>1, EventType
      <3>3. f \in TraceEvents /\ f.run = r
        BY <1>2, <3>1, EventType
      <3> QED
        BY <3>2, <3>3
    <2>2. e.kind = kind /\ e.step = next /\ f.kind = "run_end"
      BY DEF Event
    <2>3. Collected(<<e, f>>)
      BY <1>5
    <2> HIDE DEF e, f
    <2> DEFINE s == Append(events, e)
    <2>4. Tidy(s)
      BY <1>1, <1>2, <2>1, <2>2, NextSpan
    <2>5. s \in Seq(TraceEvents) /\ s # <<>> /\ Last(s) = e
      BY <1>1, <2>1 DEF Last
    <2> HIDE DEF s
    <2>6. Tidy(Append(s, f))
      BY <1>5, <2>1, <2>2, <2>4, <2>5, NextSpan
    <2>7. events \o <<e, f>> = Append(s, f)
      BY <1>1, <2>1 DEF s
    <2> QED
      BY <1>1, <2>3, <2>6, <2>7, TableOfCollected
  <1>6. CASE EndRun
    BY <1>3, <1>4, <1>6 DEF EndRun, r
  <1>7. CASE RecordSpan
    <2>1. CASE Collected(<<Event(r, "model_call", next, "model", FALSE)>>)
      BY <1>2, <1>3, <1>4, <2>1
    <2>2. CASE \E t \in Tools, failed \in BOOLEAN :
                  Collected(<<Event(r, "tool_call", next, t, failed)>>)
      BY <1>2, <1>3, <1>4, <2>2
    <2>3. CASE \E c \in ErrorClasses :
                  Collected(<<Event(r, "error", next, c, FALSE),
                              Event(r, "run_end", 0, "-", FALSE)>>)
      BY <1>3, <1>5, <2>3
    <2>4. CASE Collected(<<Event(r, "terminate", next, "-", FALSE),
                           Event(r, "run_end", 0, "-", TRUE)>>)
      BY <1>3, <1>5, <2>4
    <2> QED
      BY <1>7, <2>1, <2>2, <2>3, <2>4 DEF RecordSpan, r, next
  <1> QED
    BY <1>6, <1>7

LEMMA StepTable == EvidenceInv /\ TableInv /\ [Next]_vars => TableInv'
  <1> SUFFICES ASSUME EvidenceInv, TableInv, [Next]_vars PROVE TableInv'
    OBVIOUS
  <1>1. CASE StartRun
    BY <1>1, StartKeepsTable
  <1>2. CASE RecordSpan \/ EndRun
    BY <1>2, SpanKeepsTable
  <1>3. CASE Deliver
    <2>1. /\ pc = "acting" /\ pc' = "analyzing" /\ events' = events /\ Between
          /\ copies' \in [DOMAIN events -> {1, 2}]
      BY <1>3 DEF Deliver
    <2>2. Between'
      BY <2>1 DEF Between
    <2> QED
      BY <2>1, <2>2 DEF TableInv
  <1>4. CASE \/ BuildRequest \/ Call \/ GiveUp \/ CallRaises \/ Parse \/ NoProposal
             \/ FastFail \/ Reject \/ Accept \/ Benchmark
    <2>1. pc' \notin {"acting", "analyzing"}
      BY <1>4 DEF BuildRequest, Call, GiveUp, CallRaises, Parse, NoProposal, FastFail, Reject,
                  Accept, Benchmark, Goto
    <2> QED
      BY <2>1 DEF TableInv
  <1>5. CASE UNCHANGED vars
    BY <1>5 DEF vars, TableInv, Between
  <1> QED
    BY <1>1, <1>2, <1>3, <1>4, <1>5 DEF Next

LEMMA TableInvariant == Spec => []TableInv
  BY InitTable, StepTable, EvidenceInvariant, PTL DEF Spec

-----------------------------------------------------------------------------

\* Every variable keeps its type, for all runs, sizes, answers and patches.
THEOREM ProposalTypeCorrect == Spec => []TypeOK
  <1>1. EvidenceInv => TypeOK
    BY DEF EvidenceInv
  <1> QED
    BY <1>1, EvidenceInvariant, PTL

\* For every trace and every budget: the request holds the newest lines, as many
\* as fit with their newlines, and cuts no run of which a later one is cut.
THEOREM NewestLinesAreKept == Spec => []WindowKeepsNewest
  <1>1. ASSUME EvidenceInv PROVE WindowKeepsNewest
    <2> SUFFICES ASSUME pc = "asking", attempt = 0
                 PROVE  LET cut == Len(events) - Len(window)
                        IN /\ window = SubSeq(events, cut + 1, Len(events))
                           /\ window # <<>> => TextLength(window) <= MaxTokens * BytesPerToken
                           /\ cut > 0 => TextLength(SubSeq(events, cut, Len(events)))
                                            > MaxTokens * BytesPerToken
                           /\ \A i \in DOMAIN events : \A e \in ToSet(window) :
                                 events[i].run > e.run => events[i] \in ToSet(window)
      BY DEF WindowKeepsNewest
    <2> DEFINE n == Len(events)
               cut == n - Len(window)
    <2>1. events \in Seq(TraceEvents) /\ RunsInOrder(events) /\ window = Serialize(events, MaxTokens)
      BY <1>1 DEF EvidenceInv
    <2>2. (\A e \in TraceEvents : e.size \in Nat) /\ MaxTokens \in Int
      BY TraceEventNumbers, EvidenceAssumption
    <2>3. KeepsNewest(window, events, MaxTokens * BytesPerToken) /\ window \in Seq(TraceEvents)
      BY <2>1, <2>2, SerializeKeepsNewest
    <2>4. /\ cut \in 0 .. n /\ window = SubSeq(events, cut + 1, n) /\ n \in Nat
          /\ window # <<>> => TextLength(window) <= MaxTokens * BytesPerToken
          /\ cut > 0 => TextLength(SubSeq(events, cut, n)) > MaxTokens * BytesPerToken
      BY <2>1, <2>3 DEF KeepsNewest
    <2>5. ASSUME NEW i \in DOMAIN events, NEW e \in ToSet(window), events[i].run > e.run
          PROVE  events[i] \in ToSet(window)
      <3> HIDE DEF cut, n
      <3>1. PICK k \in DOMAIN window : e = window[k]
        BY DEF ToSet
      <3>2. k \in 1 .. n - cut /\ e = events[cut + k] /\ cut + k \in DOMAIN events
        BY <2>1, <2>4, <3>1 DEF n
      <3>3. ~(i <= cut + k)
        <4>1. i <= cut + k => events[i].run <= events[cut + k].run
          BY <2>1, <3>2 DEF RunsInOrder
        <4>2. events[i].run \in Int /\ e.run \in Int
          BY <2>1, <3>2, TraceNumbers
        <4> QED
          BY <2>5, <3>2, <4>1, <4>2
      <3>4. i \in 1 .. n
        BY <2>1 DEF n
      <3>5. i - cut \in 1 .. n - cut /\ cut + (i - cut) = i
        BY <2>4, <3>2, <3>3, <3>4
      <3>6. \A m \in 1 .. n - cut : m \in DOMAIN window /\ window[m] = events[cut + m]
        BY <2>1, <2>4 DEF n
      <3> QED
        BY <3>5, <3>6 DEF ToSet
    <2> QED
      BY <2>4, <2>5
  <1> QED
    BY <1>1, EvidenceInvariant, PTL

\* For every trace of a batch and every insert that was stored twice: the walk in
\* memory and the queries agree on the runs, the errors, the tool errors and the
\* edges, and no row stored twice makes an edge between two tools or hides a storm.
THEOREM AnalyzersNeverDisagree == Spec => []AnalyzersAgree
  <1>1. ASSUME EvidenceInv, TableInv PROVE AnalyzersAgree
    <2> SUFFICES ASSUME pc = "analyzing" PROVE AnalyzersAgree
      BY DEF AnalyzersAgree
    <2> DEFINE s == events
               n == copies
               sql == SqlTransitions(s, n)
               memory == Transitions(s)
               calls == Indices(s, "tool_call")
               once == \A i \in DOMAIN n : n[i] = 1
    <2>1. Stored(s, n) /\ DOMAIN n = DOMAIN s
      BY <1>1 DEF EvidenceInv, TableInv, Tidy, Stored
    <2>2. \A i \in DOMAIN s : Finished(s, s[i].run)
      <3> SUFFICES ASSUME NEW i \in DOMAIN s PROVE Finished(s, s[i].run)
        OBVIOUS
      <3>1. CASE s[i].run # Last(s).run
        BY <1>1, <3>1 DEF TableInv, Tidy
      <3>2. CASE s[i].run = Last(s).run
        <4>1. s # <<>> /\ Len(s) \in DOMAIN s /\ Last(s) = s[Len(s)]
          BY <2>1 DEF Stored, Last
        <4>2. Last(s).kind = "run_end"
          BY <1>1, <4>1 DEF TableInv, Between
        <4> QED
          BY <3>2, <4>1, <4>2 DEF Finished
      <3> QED
        BY <3>1, <3>2
    <2> HIDE DEF s, n
    <2>3. ASSUME once PROVE sql = memory
      <3>1. \A edge \in Tools \X Tools : sql[edge] = memory[edge]
        BY <2>1, <2>3, SameTransitions
      <3>2. /\ sql = [edge \in Tools \X Tools |-> sql[edge]]
            /\ memory = [edge \in Tools \X Tools |-> memory[edge]]
        BY DEF SqlTransitions, Transitions
      <3> HIDE DEF sql, memory
      <3> QED
        BY <3>1, <3>2
    <2>4. ASSUME once, NEW key \in DOMAIN SqlFailures(s, n), key[1] = "error"
          PROVE  SqlFailures(s, n)[key] = SumFunctionOnSet(ErrorClusters(s),
                    {k \in DOMAIN ErrorClusters(s) : SqlClass[k[1]] = key[2] /\ k[2] = key[3]})
      BY <2>1, <2>4, SameErrors
    <2>5. ASSUME once, NEW t \in Tools
          PROVE  ToolErrors(s)[t] = SumFunctionOnSet(SqlFailures(s, n),
                    {k \in DOMAIN SqlFailures(s, n) : k[1] = "tool_call" /\ k[2] = t})
      BY <2>1, <2>5, SameToolErrors
    <2>6. ASSUME once
          PROVE  SqlConvergence(s, n).runs
                   = Cardinality({s[i].run : i \in calls \cup Indices(s, "model_call")})
      BY <2>1, <2>2, <2>6, SameRuns
    <2>7. ASSUME NEW edge \in Tools \X Tools, edge[1] # edge[2] PROVE sql[edge] = memory[edge]
      BY <2>1, <2>7, SameTransitions
    <2>8. ASSUME NEW i \in calls, NEW j \in calls, NEW k \in calls,
                 CallBefore(s, i, j), CallBefore(s, j, k),
                 s[i].name = s[k].name, s[j].name = s[k].name
          PROVE  <<s[k].run, s[k].name>> \in RetryStorms(s, n)
      BY <2>1, <2>8, ThreeCallsAreAStorm
    <2> HIDE DEF calls, sql, memory
    <2> QED
      BY <2>3, <2>4, <2>5, <2>6, <2>7, <2>8 DEF AnalyzersAgree, s, n, calls, sql, memory
  <1> QED
    BY <1>1, EvidenceInvariant, TableInvariant, PTL

\* For every trace the benchmark can make: its verdict is whether the window of
\* the engine has the needle, and a larger fraction never loses it.
THEOREM BenchmarkIsFaithful == Spec => []BenchmarkMeasuresEngine
  <1>1. ASSUME EvidenceInv PROVE BenchmarkMeasuresEngine
    <2> DEFINE Kept(fraction) == Serialize(events, MaxTraceTokens(bench.target, fraction))
               InWindow(fraction) == \E e \in ToSet(Kept(fraction)) : e.name = NeedleTool
    <2> SUFFICES ASSUME pc = "measured"
                 PROVE  /\ bench.found = InWindow(bench.fraction)
                        /\ bench.found => \A f \in bench.fraction .. 100 : InWindow(f)
      BY DEF BenchmarkMeasuresEngine
    <2>1. PICK b \in Benchmarks, t \in Tools : Measured(b, t)
      BY <1>1 DEF EvidenceInv
    <2> DEFINE needle == NeedleStep(b.steps, b.depth)
    <2>2. /\ events \in Seq(TraceEvents)
          /\ \A e \in ToSet(events) : e.name = NeedleTool <=> e.step = needle
      BY <2>1, SyntheticTrace DEF Measured
    <2>3. /\ bench.target = b.target /\ bench.fraction = b.fraction
          /\ bench.found = MockFinds(events, MaxTraceTokens(b.target, b.fraction), needle)
      BY <2>1 DEF Measured
    <2>4. b.target \in Nat /\ b.fraction \in Nat
      BY EvidenceAssumption
    <2>5. \A e \in TraceEvents : e.size \in Nat
      BY TraceEventNumbers
    <2>6. ASSUME NEW f \in Nat PROVE MaxTraceTokens(bench.target, f) \in Int
      <3>1. (b.target * f) \in Nat
        BY <2>4
      <3>2. (b.target * f) \div 100 \in Int
        BY <3>1
      <3> QED
        BY <2>3, <3>2 DEF MaxTraceTokens, AtLeast
    <2> HIDE DEF needle
    <2>7. ASSUME NEW f \in Nat PROVE ToSet(Kept(f)) \subseteq ToSet(events)
      <3> DEFINE kept == Kept(f)
                 cut == Len(events) - Len(kept)
                 tokens == MaxTraceTokens(bench.target, f)
      <3>1. tokens \in Int
        BY <2>6
      <3> HIDE DEF tokens
      <3>2. KeepsNewest(Serialize(events, tokens), events, tokens * BytesPerToken)
        BY <2>2, <2>5, <3>1, SerializeKeepsNewest
      <3>3. KeepsNewest(kept, events, tokens * BytesPerToken)
        BY <3>2 DEF tokens
      <3> HIDE DEF kept
      <3>4. cut \in 0 .. Len(events) /\ kept = SubSeq(events, cut + 1, Len(events))
        BY <3>3 DEF KeepsNewest
      <3> HIDE DEF cut
      <3>5. \A i \in DOMAIN kept : cut + i \in DOMAIN events /\ kept[i] = events[cut + i]
        BY <2>2, <3>4
      <3>6. ToSet(kept) \subseteq ToSet(events)
        BY <3>5 DEF ToSet
      <3> QED
        BY <3>6 DEF kept
    <2>8. KeptSteps(events, MaxTraceTokens(bench.target, b.fraction))
            = {e.step : e \in ToSet(Kept(b.fraction))}
      <3> DEFINE tokens == MaxTraceTokens(bench.target, b.fraction)
      <3>1. tokens \in Int
        BY <2>4, <2>6
      <3> HIDE DEF tokens
      <3>2. KeptSteps(events, tokens) = {e.step : e \in ToSet(Serialize(events, tokens))}
        BY <2>2, <2>5, <3>1, MirrorIsExact
      <3> QED
        BY <3>2 DEF tokens
    <2>9. bench.found <=> needle \in {e.step : e \in ToSet(Kept(b.fraction))}
      BY <2>3, <2>8 DEF MockFinds
    <2>10. bench.found \in BOOLEAN
      BY <2>3 DEF MockFinds
    <2> HIDE DEF Kept
    <2>11. bench.found <=> InWindow(b.fraction)
      BY <2>2, <2>4, <2>7, <2>9
    <2>12. ASSUME bench.found, NEW f \in b.fraction .. 100 PROVE InWindow(f)
      <3> DEFINE few == MaxTraceTokens(bench.target, b.fraction)
                 many == MaxTraceTokens(bench.target, f)
      <3>1. f \in Nat /\ b.fraction <= f
        BY <2>4
      <3>2. few \in Int /\ many \in Int
        BY <2>4, <2>6, <3>1
      <3>3. few <= many
        <4>1. b.target * b.fraction <= b.target * f
              /\ b.target * b.fraction \in Nat /\ b.target * f \in Nat
          BY <2>4, <3>1
        <4>2. (b.target * b.fraction) \div 100 <= (b.target * f) \div 100
              /\ (b.target * b.fraction) \div 100 \in Int /\ (b.target * f) \div 100 \in Int
          BY <4>1
        <4> QED
          BY <2>3, <4>2 DEF MaxTraceTokens, AtLeast
      <3> HIDE DEF few, many
      <3>4. ToSet(Serialize(events, few)) \subseteq ToSet(Serialize(events, many))
        BY <2>2, <2>5, <3>2, <3>3, WiderWindow
      <3>5. ToSet(Kept(b.fraction)) \subseteq ToSet(Kept(f))
        BY <3>4 DEF Kept, few, many
      <3> QED
        BY <2>11, <2>12, <3>5
    <2> QED
      BY <2>3, <2>10, <2>11, <2>12
  <1> QED
    BY <1>1, EvidenceInvariant, PTL

\* Whatever a model answers, in whichever spelling it flags it and whatever the
\* answer costs: a flagged answer is neither proposed nor asked again, one
\* incident is written for it and for no other answer, and a round that ends with
\* a flag and without an incident is one whose answer holds no patch, or one that
\* a ceiling or an exception ended.
THEOREM FlaggedEndsTheRound == Spec => []FlagEndsRound
  <1>1. ProposalInv => FlagEndsRound
    BY DEF ProposalInv, FlagEndsRound, Flagged
  <1> QED
    BY <1>1, ProposalInvariant, PTL
=============================================================================
