------------------------- MODULE Aggregation_proofs -------------------------
(***************************************************************************)
(* For every log: the accumulator of Aggregation, which reads one event    *)
(* after the other and keeps running totals, holds exactly what the log    *)
(* says (ObserveExact), and fails exactly when the log exceeds the budget  *)
(* or holds something bad (BudgetExact).                                   *)
(*                                                                         *)
(* The steps of the argument:                                              *)
(*   - what a fold of the model computes is a function on 0..N, so its     *)
(*     value is proved by going along 0..N (RangeInduction, FoldValue);    *)
(*   - sizes and weights of finite sets, one element more at a time;       *)
(*   - each observation of the accumulator keeps its stock: what is in its *)
(*     maps, and whether it still fits (Stocked, Retained);                *)
(*   - the runs of a sequence of keys, as the code finds them, are its     *)
(*     maximal intervals of one key (RunIsMaximal, MaximalIsRun);          *)
(*   - one event more adds to every count of positions what it adds to the *)
(*     accumulator (EndEvent, ControlEvent, MappingEvent, SequenceEvent),  *)
(*     and to its charts: histograms, and counts per mode, mapping or      *)
(*     control key (HistogramGrows, ObserveCharts).                        *)
(***************************************************************************)
EXTENDS AnalyzeCommand, WellFoundedInduction, FiniteSetTheorems, SequenceTheorems, TLAPS

-----------------------------------------------------------------------------
(* A set of numbers that is not empty holds its least. *)
LEMMA LeastIn ==
  ASSUME NEW S, S \subseteq Nat, S # {}
  PROVE  Least(S) \in S
<1> DEFINE Below == {ss \in Nat \X Nat : ss[1] < ss[2]}
<1>1. IsWellFoundedOn(Below, Nat)
  BY NatLessThanWellFounded DEF OpToRel
<1>2. PICK x \in S : \A y \in S : <<y, x>> \notin Below
  <2> HIDE DEF Below
  <2> QED BY <1>1, WFMin
<1>3. ASSUME NEW y \in S PROVE x <= y
  <2>1. y \in Nat /\ x \in Nat /\ <<y, x>> \notin Below
    BY <1>2
  <2>2. y < x => <<y, x>> \in Below
    BY <2>1
  <2> HIDE DEF Below
  <2> QED BY <2>1, <2>2
<1> QED BY <1>3 DEF Least

-----------------------------------------------------------------------------
(* Induction over an interval, and functions defined along one. *)

(* What holds at 0 and is passed on along 0..N holds all along. *)
LEMMA RangeInduction ==
  ASSUME NEW N \in Nat, NEW S, 0 \in S, \A n \in 1..N : n - 1 \in S => n \in S
  PROVE  0..N \subseteq S
<1> SUFFICES ASSUME NEW m \in 0..N, m \notin S PROVE FALSE
  OBVIOUS
<1> DEFINE Rest == {i \in 0..N : i \notin S}
<1>1. Rest \subseteq Nat /\ Rest # {}
  OBVIOUS
<1>2. Least(Rest) \in Rest /\ \A i \in Rest : Least(Rest) <= i
  <2>1. PICK i \in Rest : \A j \in Rest : i <= j
    <3> DEFINE Below == {ss \in Nat \X Nat : ss[1] < ss[2]}
    <3>1. IsWellFoundedOn(Below, Nat)
      BY NatLessThanWellFounded DEF OpToRel
    <3>2. PICK x \in Rest : \A y \in Rest : <<y, x>> \notin Below
      <4> HIDE DEF Below, Rest
      <4> QED BY <1>1, <3>1, WFMin
    <3>3. ASSUME NEW y \in Rest PROVE x <= y
      <4>1. x \in Nat /\ y \in Nat /\ <<y, x>> \notin Below
        BY <3>2
      <4> QED BY <4>1
    <3> QED BY <3>3
  <2> HIDE DEF Rest
  <2> QED BY <2>1 DEF Least
<1> QED BY <1>2

(* The values of a recursion along 0..N, all in A. *)
Recursion(f, N, A, base, step) ==
  f \in [0..N -> A] /\ f[0] = base /\ \A n \in 1..N : f[n] = step[<<n, f[n - 1]>>]

(* A recursion along 0..N that stays in A. *)
LEMMA RecursionExists ==
  ASSUME NEW N \in Nat, NEW A, NEW base \in A, NEW step \in [(1..N) \X A -> A]
  PROVE  \E f : Recursion(f, N, A, base, step)
<1> USE DEF Recursion
<1> DEFINE Good(d, f) == f[0] = base /\ \A n \in 1..d : f[n] = step[<<n, f[n - 1]>>]
           S == {d \in 0..N : \E f \in [0..d -> A] : Good(d, f)}
<1>1. 0 \in S
  <2> DEFINE f == [i \in 0..0 |-> base]
  <2>1. f \in [0..0 -> A] /\ Good(0, f)
    OBVIOUS
  <2> HIDE DEF f, Good
  <2> QED BY <2>1
<1>2. ASSUME NEW d \in 1..N, d - 1 \in S PROVE d \in S
  <2>1. PICK f \in [0..(d - 1) -> A] : Good(d - 1, f)
    <3> HIDE DEF Good
    <3> QED BY <1>2
  <2> DEFINE g == [i \in 0..d |-> IF i = d THEN step[<<d, f[d - 1]>>] ELSE f[i]]
  <2>2. step[<<d, f[d - 1]>>] \in A
    OBVIOUS
  <2>3. g \in [0..d -> A]
    BY <2>2
  <2>4. Good(d, g)
    <3>1. g[0] = base
      BY <2>1
    <3>2. ASSUME NEW n \in 1..d PROVE g[n] = step[<<n, g[n - 1]>>]
      <4>1. n - 1 \in 0..(d - 1) /\ n - 1 # d
        OBVIOUS
      <4>2. g[n - 1] = f[n - 1]
        BY <4>1
      <4>3. CASE n = d
        <5>1. g[d] = step[<<d, f[d - 1]>>]
          OBVIOUS
        <5> HIDE DEF g
        <5> QED BY <4>2, <4>3, <5>1
      <4>4. CASE n # d
        <5>1. n \in 1..(d - 1) /\ g[n] = f[n]
          BY <4>4
        <5> QED BY <2>1, <4>2, <5>1
      <4> QED BY <4>3, <4>4
    <3> QED BY <3>1, <3>2
  <2> HIDE DEF g, Good
  <2> QED BY <2>3, <2>4
<1>3. 0..N \subseteq S
  <2> HIDE DEF S
  <2> QED BY <1>1, <1>2, RangeInduction
<1> QED BY <1>3

(* The largest of an interval, and of a set that holds its end. *)
LEMMA MaxOfRange ==
  ASSUME NEW n \in Nat \ {0}
  PROVE  Max(1..n) = n /\ (1..n) \ {n} = 1..(n - 1)
<1>1. n \in 1..n /\ \A y \in 1..n : n >= y
  OBVIOUS
<1>2. Max(1..n) \in 1..n /\ \A y \in 1..n : Max(1..n) >= y
  BY <1>1 DEF Max
<1>3. Max(1..n) = n
  BY <1>1, <1>2
<1> QED BY <1>3

(* The end of an interval is the largest of a subset that holds it. *)
LEMMA MaxWithin ==
  ASSUME NEW d \in Nat \ {0}, NEW s \in SUBSET (1..d), d \in s
  PROVE  Max(s) = d
<1>1. \A y \in s : d >= y
  OBVIOUS
<1>2. Max(s) \in s /\ \A y \in s : Max(s) >= y
  BY <1>1 DEF Max
<1>3. Max(s) \in 1..d
  BY <1>2
<1> QED BY <1>1, <1>2, <1>3

(* A nonempty subset of an interval holds its largest number. *)
LEMMA MaxIn ==
  ASSUME NEW N \in Nat, NEW s \in SUBSET (1..N), s # {}
  PROVE  Max(s) \in s
<1> DEFINE S == {d \in 0..N : s \cap (1..d) # {} => \E m \in s : \A y \in s \cap (1..d) : m >= y /\ m \in s \cap (1..d)}
<1>1. 0 \in S
  OBVIOUS
<1>2. ASSUME NEW d \in 1..N, d - 1 \in S PROVE d \in S
  <2>1. CASE d \in s
    <3>1. \A y \in s \cap (1..d) : d >= y /\ d \in s \cap (1..d)
      BY <2>1
    <3> QED BY <2>1, <3>1
  <2>2. CASE d \notin s
    <3>1. s \cap (1..d) = s \cap (1..(d - 1))
      BY <2>2
    <3> QED BY <1>2, <3>1
  <2> QED BY <2>1, <2>2
<1>3. N \in S
  <2> HIDE DEF S
  <2> QED BY <1>1, <1>2, RangeInduction
<1>4. s \cap (1..N) = s
  OBVIOUS
<1>5. \E m \in s : \A y \in s : m >= y
  BY <1>3, <1>4
<1> QED BY <1>5 DEF Max

(* The same over the subsets of 1..N, as the folds take them. *)
SetRecursion(f, N, A, base, step) ==
  /\ f \in [SUBSET (1..N) -> A]
  /\ \A s \in SUBSET (1..N) :
       f[s] = IF s = {} THEN base ELSE step[<<Max(s), f[s \ {Max(s)}]>>]

(* Such a function exists. *)
LEMMA FoldExists ==
  ASSUME NEW N \in Nat, NEW A, NEW base \in A, NEW step \in [(1..N) \X A -> A]
  PROVE  \E f : SetRecursion(f, N, A, base, step)
<1> USE DEF SetRecursion
<1> DEFINE Good(d, f) == \A s \in SUBSET (1..d) :
                           f[s] = IF s = {} THEN base ELSE step[<<Max(s), f[s \ {Max(s)}]>>]
           Defined(d) == \E f \in [SUBSET (1..d) -> A] : Good(d, f)
           S == {d \in 0..N : Defined(d)}
<1>1. Defined(0)
  <2> DEFINE f == [s \in SUBSET (1..0) |-> base]
  <2>1. f \in [SUBSET (1..0) -> A] /\ Good(0, f)
    OBVIOUS
  <2> HIDE DEF f, Good
  <2> QED BY <2>1
<1>2. ASSUME NEW d \in 1..N, Defined(d - 1) PROVE Defined(d)
  <2>1. PICK f \in [SUBSET (1..(d - 1)) -> A] : Good(d - 1, f)
    BY <1>2
  <2> DEFINE g == [s \in SUBSET (1..d) |-> IF d \in s THEN step[<<d, f[s \ {d}]>>] ELSE f[s]]
  <2>2. ASSUME NEW s \in SUBSET (1..d) PROVE s \ {d} \in SUBSET (1..(d - 1))
    OBVIOUS
  <2>3. g \in [SUBSET (1..d) -> A]
    <3>1. ASSUME NEW s \in SUBSET (1..d) PROVE g[s] \in A
      <4>1. f[s \ {d}] \in A
        BY <2>2
      <4>2. CASE d \in s
        <5>1. <<d, f[s \ {d}]>> \in (1..N) \X A
          BY <4>1
        <5> QED BY <4>2, <5>1
      <4>3. CASE d \notin s
        <5>1. s = s \ {d}
          BY <4>3
        <5>2. g[s] = f[s]
          BY <4>3
        <5> QED BY <5>1, <5>2, <4>1
      <4> QED BY <4>2, <4>3
    <3> QED BY <3>1
  <2>4. ASSUME NEW s \in SUBSET (1..d)
        PROVE  g[s] = IF s = {} THEN base ELSE step[<<Max(s), g[s \ {Max(s)}]>>]
    <3>1. CASE d \in s
      <4>1. Max(s) = d
        BY <3>1, MaxWithin
      <4>2. g[s \ {d}] = f[s \ {d}]
        OBVIOUS
      <4> QED BY <3>1, <4>1, <4>2
    <3>2. CASE d \notin s
      <4>1. s \in SUBSET (1..(d - 1)) /\ g[s] = f[s]
        BY <3>2
      <4>2. CASE s # {}
        <5>1. Max(s) \in s
          BY <4>2, MaxIn, d \in Nat
        <5> DEFINE t == s \ {Max(s)}
        <5>2. t \in SUBSET (1..(d - 1)) /\ t \in SUBSET (1..d) /\ d \notin t
          BY <3>2, <4>1
        <5> HIDE DEF t
        <5>3. g[t] = f[t]
          BY <5>2
        <5>4. f[s] = step[<<Max(s), f[s \ {Max(s)}]>>]
          BY <2>1, <4>1, <4>2
        <5> QED BY <4>1, <4>2, <5>3, <5>4 DEF t
      <4>3. CASE s = {}
        BY <2>1, <4>1, <4>3
      <4> QED BY <4>2, <4>3
    <3> QED BY <3>1, <3>2
  <2>5. Good(d, g)
    <3> HIDE DEF g
    <3> QED BY <2>4
  <2> HIDE DEF g, Good
  <2> QED BY <2>3, <2>5
<1>3. N \in S
  <2> HIDE DEF Defined
  <2>1. 0 \in S
    BY <1>1
  <2>2. ASSUME NEW d \in 1..N, d - 1 \in S PROVE d \in S
    BY <1>2, <2>2
  <2> HIDE DEF S
  <2>3. 0..N \subseteq S
    BY <2>1, <2>2, RangeInduction
  <2> QED BY <2>3
<1> QED BY <1>3

-----------------------------------------------------------------------------
(* Types of what is accumulated. *)
Maps(D, V) == UNION {[S -> V] : S \in SUBSET D}
Numbers == Nat \X Nat

OperationNames == {"undo", "redo", "repeat", "search_start", "search_navigation", "other"}
Errors == {NoError, "distinct_keys", "distinct_repeated_keys", "distinct_mappings",
           "retained_token_bytes", "session_duration", "snapshot_mismatch"}

Accumulators ==
  [error : Errors, retained_token_bytes : Nat, total_session_duration_ms : Nat,
   key_sequences : Nat, sequence_keys : Nat, text_runs : Nat, text_keys : Nat,
   control_key_uses : Nat, mode_transitions : Nat, mapping_uses : Nat,
   repeated_key_runs : Nat, repeated_key_presses : Nat,
   modes : Maps(SequenceModes, Numbers), keys : Maps(Token, Nat),
   control_keys : Maps(TextModes \X Token, Nat), mappings : Maps(Token, Nat),
   repeated_keys : Maps(Token, Numbers),
   session_duration : Maps(Nat, Nat), sequence_length : Maps(Nat, Nat), latency : Maps(Nat, Nat),
   operations : Maps(OperationNames, Nat),
   count_occurrences : Nat, count_digit_presses : Nat, transitions : Maps(Modes \X Modes, Nat),
   repeated_motions : Maps(Token, Numbers)]

KeyRuns == [key : Token, presses : Nat \ {0}]

(* A map is a function on its keys. *)
LEMMA MapType ==
  ASSUME NEW D, NEW V, NEW f \in Maps(D, V)
  PROVE  f \in [DOMAIN f -> V] /\ DOMAIN f \subseteq D
BY DEF Maps

(* A function on some of the keys is a map. *)
LEMMA TypeMap ==
  ASSUME NEW D, NEW V, NEW S \in SUBSET D, NEW f \in [S -> V]
  PROVE  f \in Maps(D, V)
BY DEF Maps

(* A map with one entry more, and what counting does to one. *)
PairOf(f, k) == IF k \in DOMAIN f THEN f[k] ELSE <<0, 0>>

(* An entry of the right types leaves a map a map. *)
LEMMA WithMap ==
  ASSUME NEW D, NEW V, NEW f \in Maps(D, V), NEW k \in D, NEW v \in V
  PROVE  With(f, k, v) \in Maps(D, V)
<1>1. f \in [DOMAIN f -> V] /\ DOMAIN f \subseteq D
  BY MapType
<1>2. With(f, k, v) \in [DOMAIN f \cup {k} -> V] /\ DOMAIN f \cup {k} \in SUBSET D
  BY <1>1 DEF With
<1> QED BY <1>2, TypeMap

(* With an entry more the key is there, and no other. *)
LEMMA WithDomain ==
  ASSUME NEW f, NEW k, NEW v
  PROVE  DOMAIN With(f, k, v) = DOMAIN f \cup {k}
BY DEF With

(* A count is a number, also of what is not in the map. *)
LEMMA CountType ==
  ASSUME NEW D, NEW f \in Maps(D, Nat), NEW k
  PROVE  CountOf(f, k) \in Nat
BY MapType DEF CountOf

(* Runs and presses are numbers, also of what is not in the map. *)
LEMMA PairType ==
  ASSUME NEW D, NEW f \in Maps(D, Numbers), NEW k
  PROVE  PairOf(f, k) \in Numbers
<1>1. f \in [DOMAIN f -> Numbers]
  BY MapType
<1> QED BY <1>1 DEF PairOf, Numbers

(* Counting leaves a map of counts one. *)
LEMMA TallyMap ==
  ASSUME NEW D, NEW f \in Maps(D, Nat), NEW k \in D, NEW n \in Nat
  PROVE  Tally(f, k, n) \in Maps(D, Nat)
<1> DEFINE v == IF k \in DOMAIN f THEN f[k] + n ELSE n
<1>1. f \in [DOMAIN f -> Nat]
  BY MapType
<1>2. v \in Nat
  BY <1>1
<1>3. Tally(f, k, n) = With(f, k, v)
  BY DEF Tally
<1> HIDE DEF v
<1> QED BY <1>2, <1>3, WithMap

(* Counting enters the key and no other. *)
LEMMA TallyDomain ==
  ASSUME NEW f, NEW k, NEW n
  PROVE  DOMAIN Tally(f, k, n) = DOMAIN f \cup {k}
BY DEF With, Tally

(* Counting adds to the key's count and to no other. *)
LEMMA TallyCount ==
  ASSUME NEW f, NEW k, NEW n \in Nat, NEW j
  PROVE  CountOf(Tally(f, k, n), j) = IF j = k THEN CountOf(f, k) + n ELSE CountOf(f, j)
BY DEF With, Tally, CountOf

(* Counting a run leaves a map of runs and presses one. *)
LEMMA TallyPairMap ==
  ASSUME NEW D, NEW f \in Maps(D, Numbers), NEW k \in D, NEW n \in Nat
  PROVE  TallyPair(f, k, n) \in Maps(D, Numbers)
<1> DEFINE v == IF k \in DOMAIN f THEN <<f[k][1] + 1, f[k][2] + n>> ELSE <<1, n>>
<1>1. f \in [DOMAIN f -> Numbers]
  BY MapType
<1>2. v \in Numbers
  <2>1. CASE k \in DOMAIN f
    <3>1. f[k] \in Numbers
      BY <1>1, <2>1
    <3> QED BY <2>1, <3>1 DEF Numbers
  <2> QED BY <2>1 DEF Numbers
<1>3. TallyPair(f, k, n) = With(f, k, v)
  BY DEF TallyPair
<1> HIDE DEF v
<1> QED BY <1>2, <1>3, WithMap

(* Counting a run enters its key and no other. *)
LEMMA TallyPairDomain ==
  ASSUME NEW f, NEW k, NEW n
  PROVE  DOMAIN TallyPair(f, k, n) = DOMAIN f \cup {k}
BY DEF With, TallyPair

(* Counting a run adds one run and its presses to its key, and nothing to
   others. *)
LEMMA TallyPairCount ==
  ASSUME NEW f, NEW k, NEW n \in Nat, NEW j
  PROVE  PairOf(TallyPair(f, k, n), j)
           = IF j = k THEN <<PairOf(f, k)[1] + 1, PairOf(f, k)[2] + n>> ELSE PairOf(f, j)
BY DEF With, TallyPair, PairOf

(* A changed entry leaves a map its type and its keys. *)
LEMMA UpdateMap ==
  ASSUME NEW D, NEW V, NEW f \in Maps(D, V), NEW k \in DOMAIN f, NEW v \in V
  PROVE  /\ [f EXCEPT ![k] = v] \in Maps(D, V)
         /\ DOMAIN [f EXCEPT ![k] = v] = DOMAIN f
<1>1. f \in [DOMAIN f -> V] /\ DOMAIN f \subseteq D
  BY MapType
<1>2. [f EXCEPT ![k] = v] \in [DOMAIN f -> V]
  BY <1>1
<1> QED BY <1>1, <1>2, TypeMap

(* There are finitely many tokens: Order lists them all. *)
LEMMA TokensFinite == IsFiniteSet(Token) /\ \A S \in SUBSET Token : IsFiniteSet(S)
<1>1. Order \in Seq(Token) /\ ToSet(Order) = Token
  BY AggregationConstants
<1> DEFINE f == [i \in 1..Len(Order) |-> Order[i]]
<1>2. f \in Surjection(1..Len(Order), Token)
  BY <1>1 DEF Surjection, ToSet
<1>3. IsFiniteSet(1..Len(Order))
  BY <1>1, FS_Interval
<1>4. IsFiniteSet(Token)
  <2> HIDE DEF f
  <2> QED BY <1>2, <1>3, FS_Surjection
<1> QED BY <1>4, FS_Subset

-----------------------------------------------------------------------------
(* Folds: what FoldLeft computes along a sequence. *)
Folding(it, N, A, base, step) ==
  /\ it[{}] = base
  /\ \A s \in SUBSET (1..N) : s # {} /\ it[s \ {Max(s)}] \in A
       => it[s] = step[<<Max(s), it[s \ {Max(s)}]>>]
Unfolding(f, it, N, A, base, step) == Recursion(f, N, A, base, step) /\ it[1..N] = f[N]

(* A fold over 1..N is what the recursion along 0..N gives at N. *)
LEMMA FoldValue ==
  ASSUME NEW N \in Nat, NEW A, NEW base \in A, NEW step \in [(1..N) \X A -> A], NEW it,
         Folding(it, N, A, base, step)
  PROVE  \E f : Unfolding(f, it, N, A, base, step)
<1> USE DEF Folding, Unfolding
<1> DEFINE f == [n \in 0..N |-> it[1..n]]
           S == {n \in 0..N : it[1..n] \in A}
<1>1. 1..0 = {}
  OBVIOUS
<1>2. ASSUME NEW n \in 1..N, it[1..(n - 1)] \in A
      PROVE  it[1..n] = step[<<n, it[1..(n - 1)]>>] /\ it[1..n] \in A
  <2>1. Max(1..n) = n /\ (1..n) \ {n} = 1..(n - 1)
    BY MaxOfRange
  <2>2. 1..n \in SUBSET (1..N) /\ 1..n # {}
    OBVIOUS
  <2>3. it[1..n] = step[<<n, it[1..(n - 1)]>>]
    BY <1>2, <2>1, <2>2
  <2>4. <<n, it[1..(n - 1)]>> \in (1..N) \X A
    BY <1>2
  <2> QED BY <2>3, <2>4
<1>3. 0..N \subseteq S
  <2>1. 0 \in S
    BY <1>1
  <2>2. ASSUME NEW n \in 1..N, n - 1 \in S PROVE n \in S
    <3>1. it[1..(n - 1)] \in A /\ n \in 0..N
      BY <2>2
    <3> HIDE DEF f
    <3> QED BY <1>2, <3>1
  <2> HIDE DEF S
  <2> QED BY <2>1, <2>2, RangeInduction
<1>4. f \in [0..N -> A]
  BY <1>3
<1>5. f[0] = base /\ it[1..N] = f[N]
  BY <1>1
<1>6. ASSUME NEW n \in 1..N PROVE f[n] = step[<<n, f[n - 1]>>]
  <2>1. n - 1 \in 0..N /\ n \in 0..N
    OBVIOUS
  <2>2. it[1..(n - 1)] \in A
    BY <1>3, <2>1
  <2>3. f[n] = it[1..n] /\ f[n - 1] = it[1..(n - 1)]
    BY <2>1
  <2> HIDE DEF f
  <2> QED BY <1>2, <2>2, <2>3
<1>7. Recursion(f, N, A, base, step)
  <2> HIDE DEF f
  <2> QED BY <1>4, <1>5, <1>6 DEF Recursion
<1> HIDE DEF f
<1> QED BY <1>5, <1>7

-----------------------------------------------------------------------------
(* What each fold of Aggregation computes, value by value. *)
CountStates == [digits : Nat, occurrences : Nat, presses : Nat]
NoCounts == [digits |-> 0, occurrences |-> 0, presses |-> 0]
RunStep(runs, k) ==
  IF runs # <<>> /\ Last(runs).key = k
  THEN Append(Front(runs), [key |-> k, presses |-> Last(runs).presses + 1])
  ELSE Append(runs, [key |-> k, presses |-> 1])
OperationStep(f, k) == IF Operation(k) = "other" THEN f ELSE Tally(f, Operation(k), 1)
MotionStep(f, r) == IF r.presses >= 3 /\ r.key \in Motions THEN TallyPair(f, r.key, r.presses) ELSE f

(* The types these steps keep. *)
LEMMA RunStepType ==
  ASSUME NEW runs \in Seq(KeyRuns), NEW k \in Token
  PROVE  RunStep(runs, k) \in Seq(KeyRuns)
<1>1. [key |-> k, presses |-> 1] \in KeyRuns
  BY DEF KeyRuns
<1>2. CASE runs # <<>> /\ Last(runs).key = k
  <2>1. Last(runs) \in KeyRuns
    BY <1>2 DEF Last
  <2>2. Last(runs).presses + 1 \in Nat \ {0}
    BY <2>1 DEF KeyRuns
  <2>3. [key |-> k, presses |-> Last(runs).presses + 1] \in KeyRuns
    BY <2>2 DEF KeyRuns
  <2>4. Front(runs) \in Seq(KeyRuns)
    BY <1>2 DEF Front
  <2>5. Append(Front(runs), [key |-> k, presses |-> Last(runs).presses + 1]) \in Seq(KeyRuns)
    BY <2>3, <2>4
  <2> QED BY <1>2, <2>5 DEF RunStep
<1>3. CASE ~(runs # <<>> /\ Last(runs).key = k)
  <2>1. Append(runs, [key |-> k, presses |-> 1]) \in Seq(KeyRuns)
    BY <1>1
  <2> QED BY <1>3, <2>1 DEF RunStep
<1> QED BY <1>2, <1>3

(* An operation more leaves a map of operations one. *)
LEMMA OperationStepType ==
  ASSUME NEW f \in Maps(OperationNames, Nat), NEW k \in Token
  PROVE  OperationStep(f, k) \in Maps(OperationNames, Nat)
<1>1. Operation(k) \in OperationNames
  BY DEF Operation, OperationNames
<1>2. Tally(f, Operation(k), 1) \in Maps(OperationNames, Nat)
  BY <1>1, TallyMap
<1> QED BY <1>2 DEF OperationStep

(* A run more leaves a map of motions one. *)
LEMMA MotionStepType ==
  ASSUME NEW f \in Maps(Token, Numbers), NEW r \in KeyRuns
  PROVE  MotionStep(f, r) \in Maps(Token, Numbers)
<1>1. r.key \in Token /\ r.presses \in Nat
  BY DEF KeyRuns
<1>2. TallyPair(f, r.key, r.presses) \in Maps(Token, Numbers)
  BY <1>1, TallyPairMap
<1> QED BY <1>2 DEF MotionStep

(* The count prefixes after each key. *)
CountSteps(f, keys) ==
  /\ f \in [0..Len(keys) -> CountStates] /\ f[0] = NoCounts
  /\ \A n \in 1..Len(keys) : f[n] = CountStep(f[n - 1], keys[n])
(* These are the values its fold takes. *)
LEMMA CountFold ==
  ASSUME NEW keys \in Seq(Token)
  PROVE  \E f : CountSteps(f, keys) /\ CountPrefixes(keys) = f[Len(keys)]
<1> DEFINE N == Len(keys)
           step == [p \in (1..N) \X CountStates |-> CountStep(p[2], keys[p[1]])]
           Eq(g) == g = [s \in SUBSET DOMAIN keys |->
                           IF s = {} THEN NoCounts ELSE CountStep(g[s \ {Max(s)}], keys[Max(s)])]
           it == CHOOSE g : Eq(g)
<1>1. N \in Nat /\ DOMAIN keys = 1..N /\ \A i \in 1..N : keys[i] \in Token
  OBVIOUS
<1>2. NoCounts \in CountStates
  BY DEF CountStates, NoCounts
<1>3. ASSUME NEW a \in CountStates, NEW x \in Token
      PROVE  CountStep(a, x) \in CountStates
  BY DEF CountStep, CountStates
<1>4. step \in [(1..N) \X CountStates -> CountStates]
  BY <1>1, <1>3
<1>5. ASSUME NEW i \in 1..N, NEW a \in CountStates PROVE step[<<i, a>>] = CountStep(a, keys[i])
  OBVIOUS
<1>6. CountPrefixes(keys) = it[DOMAIN keys]
  BY DEF FoldLeft, MapThenFoldSet, CountPrefixes, NoCounts
<1> HIDE DEF step, N, it
<1>7. \E g : Eq(g)
  <2>1. PICK g : SetRecursion(g, N, CountStates, NoCounts, step)
    <3> HIDE DEF Eq
    <3> QED BY <1>1, <1>2, <1>4, FoldExists
  <2>2. g \in [SUBSET (1..N) -> CountStates] /\ g[{}] = NoCounts
    BY <2>1 DEF SetRecursion
  <2>3. ASSUME NEW s \in SUBSET (1..N), s # {}
        PROVE  g[s] = CountStep(g[s \ {Max(s)}], keys[Max(s)])
    <3>1. Max(s) \in 1..N
      BY <1>1, <2>3, MaxIn
    <3>2. g[s \ {Max(s)}] \in CountStates
      BY <2>2
    <3>3. g[s] = step[<<Max(s), g[s \ {Max(s)}]>>]
      BY <2>1, <2>3 DEF SetRecursion
    <3> QED BY <1>5, <3>1, <3>2, <3>3
  <2>4. ASSUME NEW s \in SUBSET DOMAIN keys
        PROVE  g[s] = IF s = {} THEN NoCounts ELSE CountStep(g[s \ {Max(s)}], keys[Max(s)])
    BY <1>1, <2>2, <2>3
  <2>5. DOMAIN g = SUBSET DOMAIN keys /\ g = [s \in DOMAIN g |-> g[s]]
    BY <1>1, <2>2
  <2>6. Eq(g)
    BY <2>4, <2>5
  <2> HIDE DEF Eq
  <2> QED BY <2>6
<1>8. Eq(it)
  <2> HIDE DEF Eq
  <2> QED BY <1>7 DEF it
<1>9. it[{}] = NoCounts
  BY <1>8
<1>10. \A s \in SUBSET (1..N) : s # {} /\ it[s \ {Max(s)}] \in CountStates
         => it[s] = step[<<Max(s), it[s \ {Max(s)}]>>]
  <2> SUFFICES ASSUME NEW s \in SUBSET (1..N), s # {}, it[s \ {Max(s)}] \in CountStates
               PROVE  it[s] = step[<<Max(s), it[s \ {Max(s)}]>>]
    OBVIOUS
  <2>1. Max(s) \in 1..N
    BY <1>1, MaxIn
  <2>2. it[s] = CountStep(it[s \ {Max(s)}], keys[Max(s)])
    BY <1>1, <1>8
  <2> QED BY <1>5, <2>1, <2>2
<1>11. Folding(it, N, CountStates, NoCounts, step)
  <2> HIDE DEF Eq
  <2> QED BY <1>9, <1>10 DEF Folding
<1>12. PICK f : Unfolding(f, it, N, CountStates, NoCounts, step)
  <2> HIDE DEF Eq
  <2> QED BY <1>1, <1>2, <1>4, <1>11, FoldValue
<1>13. f \in [0..N -> CountStates] /\ f[0] = NoCounts
  BY <1>12 DEF Recursion, Unfolding
<1>14. ASSUME NEW n \in 1..N PROVE f[n] = CountStep(f[n - 1], keys[n])
  <2>1. f[n - 1] \in CountStates
    BY <1>1, <1>13
  <2>2. f[n] = step[<<n, f[n - 1]>>]
    BY <1>12 DEF Recursion, Unfolding
  <2> QED BY <1>5, <2>1, <2>2
<1>15. CountSteps(f, keys)
  BY <1>13, <1>14 DEF CountSteps, N
<1> QED BY <1>1, <1>6, <1>12, <1>15 DEF N, Unfolding

(* The runs after each key. *)
RunSteps(f, keys) ==
  /\ f \in [0..Len(keys) -> Seq(KeyRuns)] /\ f[0] = <<>>
  /\ \A n \in 1..Len(keys) : f[n] = RunStep(f[n - 1], keys[n])
(* These are the values its fold takes. *)
LEMMA RunFold ==
  ASSUME NEW keys \in Seq(Token)
  PROVE  \E f : RunSteps(f, keys) /\ RunsOf(keys) = f[Len(keys)]
<1> DEFINE N == Len(keys)
           step == [p \in (1..N) \X Seq(KeyRuns) |-> RunStep(p[2], keys[p[1]])]
           Eq(g) == g = [s \in SUBSET DOMAIN keys |->
                           IF s = {} THEN <<>> ELSE RunStep(g[s \ {Max(s)}], keys[Max(s)])]
           it == CHOOSE g : Eq(g)
<1>1. N \in Nat /\ DOMAIN keys = 1..N /\ \A i \in 1..N : keys[i] \in Token
  OBVIOUS
<1>2. <<>> \in Seq(KeyRuns)
  OBVIOUS
<1>3. ASSUME NEW a \in Seq(KeyRuns), NEW x \in Token
      PROVE  RunStep(a, x) \in Seq(KeyRuns)
  BY RunStepType
<1>4. step \in [(1..N) \X Seq(KeyRuns) -> Seq(KeyRuns)]
  BY <1>1, <1>3
<1>5. ASSUME NEW i \in 1..N, NEW a \in Seq(KeyRuns) PROVE step[<<i, a>>] = RunStep(a, keys[i])
  OBVIOUS
<1>6. RunsOf(keys) = it[DOMAIN keys]
  BY DEF FoldLeft, MapThenFoldSet, RunsOf, RunStep
<1> HIDE DEF step, N, it
<1>7. \E g : Eq(g)
  <2>1. PICK g : SetRecursion(g, N, Seq(KeyRuns), <<>>, step)
    <3> HIDE DEF Eq
    <3> QED BY <1>1, <1>2, <1>4, FoldExists
  <2>2. g \in [SUBSET (1..N) -> Seq(KeyRuns)] /\ g[{}] = <<>>
    BY <2>1 DEF SetRecursion
  <2>3. ASSUME NEW s \in SUBSET (1..N), s # {}
        PROVE  g[s] = RunStep(g[s \ {Max(s)}], keys[Max(s)])
    <3>1. Max(s) \in 1..N
      BY <1>1, <2>3, MaxIn
    <3>2. g[s \ {Max(s)}] \in Seq(KeyRuns)
      BY <2>2
    <3>3. g[s] = step[<<Max(s), g[s \ {Max(s)}]>>]
      BY <2>1, <2>3 DEF SetRecursion
    <3> QED BY <1>5, <3>1, <3>2, <3>3
  <2>4. ASSUME NEW s \in SUBSET DOMAIN keys
        PROVE  g[s] = IF s = {} THEN <<>> ELSE RunStep(g[s \ {Max(s)}], keys[Max(s)])
    BY <1>1, <2>2, <2>3
  <2>5. DOMAIN g = SUBSET DOMAIN keys /\ g = [s \in DOMAIN g |-> g[s]]
    BY <1>1, <2>2
  <2>6. Eq(g)
    BY <2>4, <2>5
  <2> HIDE DEF Eq
  <2> QED BY <2>6
<1>8. Eq(it)
  <2> HIDE DEF Eq
  <2> QED BY <1>7 DEF it
<1>9. it[{}] = <<>>
  BY <1>8
<1>10. \A s \in SUBSET (1..N) : s # {} /\ it[s \ {Max(s)}] \in Seq(KeyRuns)
         => it[s] = step[<<Max(s), it[s \ {Max(s)}]>>]
  <2> SUFFICES ASSUME NEW s \in SUBSET (1..N), s # {}, it[s \ {Max(s)}] \in Seq(KeyRuns)
               PROVE  it[s] = step[<<Max(s), it[s \ {Max(s)}]>>]
    OBVIOUS
  <2>1. Max(s) \in 1..N
    BY <1>1, MaxIn
  <2>2. it[s] = RunStep(it[s \ {Max(s)}], keys[Max(s)])
    BY <1>1, <1>8
  <2> QED BY <1>5, <2>1, <2>2
<1>11. Folding(it, N, Seq(KeyRuns), <<>>, step)
  <2> HIDE DEF Eq
  <2> QED BY <1>9, <1>10 DEF Folding
<1>12. PICK f : Unfolding(f, it, N, Seq(KeyRuns), <<>>, step)
  <2> HIDE DEF Eq
  <2> QED BY <1>1, <1>2, <1>4, <1>11, FoldValue
<1>13. f \in [0..N -> Seq(KeyRuns)] /\ f[0] = <<>>
  BY <1>12 DEF Recursion, Unfolding
<1>14. ASSUME NEW n \in 1..N PROVE f[n] = RunStep(f[n - 1], keys[n])
  <2>1. f[n - 1] \in Seq(KeyRuns)
    BY <1>1, <1>13
  <2>2. f[n] = step[<<n, f[n - 1]>>]
    BY <1>12 DEF Recursion, Unfolding
  <2> QED BY <1>5, <2>1, <2>2
<1>15. RunSteps(f, keys)
  BY <1>13, <1>14 DEF RunSteps, N
<1> QED BY <1>1, <1>6, <1>12, <1>15 DEF N, Unfolding

(* The operations after each key. *)
OperationSteps(f, keys, base) ==
  /\ f \in [0..Len(keys) -> Maps(OperationNames, Nat)] /\ f[0] = base
  /\ \A n \in 1..Len(keys) : f[n] = OperationStep(f[n - 1], keys[n])
(* These are the values its fold takes. *)
LEMMA OperationFold ==
  ASSUME NEW keys \in Seq(Token), NEW base \in Maps(OperationNames, Nat)
  PROVE  \E f : OperationSteps(f, keys, base) /\ CountOperations(base, keys) = f[Len(keys)]
<1> DEFINE N == Len(keys)
           step == [p \in (1..N) \X Maps(OperationNames, Nat) |-> OperationStep(p[2], keys[p[1]])]
           Eq(g) == g = [s \in SUBSET DOMAIN keys |->
                           IF s = {} THEN base ELSE OperationStep(g[s \ {Max(s)}], keys[Max(s)])]
           it == CHOOSE g : Eq(g)
<1>1. N \in Nat /\ DOMAIN keys = 1..N /\ \A i \in 1..N : keys[i] \in Token
  OBVIOUS
<1>2. base \in Maps(OperationNames, Nat)
  OBVIOUS
<1>3. ASSUME NEW a \in Maps(OperationNames, Nat), NEW x \in Token
      PROVE  OperationStep(a, x) \in Maps(OperationNames, Nat)
  BY OperationStepType
<1>4. step \in [(1..N) \X Maps(OperationNames, Nat) -> Maps(OperationNames, Nat)]
  BY <1>1, <1>3
<1>5. ASSUME NEW i \in 1..N, NEW a \in Maps(OperationNames, Nat) PROVE step[<<i, a>>] = OperationStep(a, keys[i])
  OBVIOUS
<1>6. CountOperations(base, keys) = it[DOMAIN keys]
  BY DEF FoldLeft, MapThenFoldSet, CountOperations, OperationStep
<1> HIDE DEF step, N, it
<1>7. \E g : Eq(g)
  <2>1. PICK g : SetRecursion(g, N, Maps(OperationNames, Nat), base, step)
    <3> HIDE DEF Eq
    <3> QED BY <1>1, <1>2, <1>4, FoldExists
  <2>2. g \in [SUBSET (1..N) -> Maps(OperationNames, Nat)] /\ g[{}] = base
    BY <2>1 DEF SetRecursion
  <2>3. ASSUME NEW s \in SUBSET (1..N), s # {}
        PROVE  g[s] = OperationStep(g[s \ {Max(s)}], keys[Max(s)])
    <3>1. Max(s) \in 1..N
      BY <1>1, <2>3, MaxIn
    <3>2. g[s \ {Max(s)}] \in Maps(OperationNames, Nat)
      BY <2>2
    <3>3. g[s] = step[<<Max(s), g[s \ {Max(s)}]>>]
      BY <2>1, <2>3 DEF SetRecursion
    <3> QED BY <1>5, <3>1, <3>2, <3>3
  <2>4. ASSUME NEW s \in SUBSET DOMAIN keys
        PROVE  g[s] = IF s = {} THEN base ELSE OperationStep(g[s \ {Max(s)}], keys[Max(s)])
    BY <1>1, <2>2, <2>3
  <2>5. DOMAIN g = SUBSET DOMAIN keys /\ g = [s \in DOMAIN g |-> g[s]]
    BY <1>1, <2>2
  <2>6. Eq(g)
    BY <2>4, <2>5
  <2> HIDE DEF Eq
  <2> QED BY <2>6
<1>8. Eq(it)
  <2> HIDE DEF Eq
  <2> QED BY <1>7 DEF it
<1>9. it[{}] = base
  BY <1>8
<1>10. \A s \in SUBSET (1..N) : s # {} /\ it[s \ {Max(s)}] \in Maps(OperationNames, Nat)
         => it[s] = step[<<Max(s), it[s \ {Max(s)}]>>]
  <2> SUFFICES ASSUME NEW s \in SUBSET (1..N), s # {}, it[s \ {Max(s)}] \in Maps(OperationNames, Nat)
               PROVE  it[s] = step[<<Max(s), it[s \ {Max(s)}]>>]
    OBVIOUS
  <2>1. Max(s) \in 1..N
    BY <1>1, MaxIn
  <2>2. it[s] = OperationStep(it[s \ {Max(s)}], keys[Max(s)])
    BY <1>1, <1>8
  <2> QED BY <1>5, <2>1, <2>2
<1>11. Folding(it, N, Maps(OperationNames, Nat), base, step)
  <2> HIDE DEF Eq
  <2> QED BY <1>9, <1>10 DEF Folding
<1>12. PICK f : Unfolding(f, it, N, Maps(OperationNames, Nat), base, step)
  <2> HIDE DEF Eq
  <2> QED BY <1>1, <1>2, <1>4, <1>11, FoldValue
<1>13. f \in [0..N -> Maps(OperationNames, Nat)] /\ f[0] = base
  BY <1>12 DEF Recursion, Unfolding
<1>14. ASSUME NEW n \in 1..N PROVE f[n] = OperationStep(f[n - 1], keys[n])
  <2>1. f[n - 1] \in Maps(OperationNames, Nat)
    BY <1>1, <1>13
  <2>2. f[n] = step[<<n, f[n - 1]>>]
    BY <1>12 DEF Recursion, Unfolding
  <2> QED BY <1>5, <2>1, <2>2
<1>15. OperationSteps(f, keys, base)
  BY <1>13, <1>14 DEF OperationSteps, N
<1> QED BY <1>1, <1>6, <1>12, <1>15 DEF N, Unfolding

(* The motions after each run. *)
MotionSteps(f, runs, base) ==
  /\ f \in [0..Len(runs) -> Maps(Token, Numbers)] /\ f[0] = base
  /\ \A n \in 1..Len(runs) : f[n] = MotionStep(f[n - 1], runs[n])
(* These are the values its fold takes. *)
LEMMA MotionFold ==
  ASSUME NEW runs \in Seq(KeyRuns), NEW base \in Maps(Token, Numbers)
  PROVE  \E f : MotionSteps(f, runs, base) /\ CountMotions(base, runs) = f[Len(runs)]
<1> DEFINE N == Len(runs)
           step == [p \in (1..N) \X Maps(Token, Numbers) |-> MotionStep(p[2], runs[p[1]])]
           Eq(g) == g = [s \in SUBSET DOMAIN runs |->
                           IF s = {} THEN base ELSE MotionStep(g[s \ {Max(s)}], runs[Max(s)])]
           it == CHOOSE g : Eq(g)
<1>1. N \in Nat /\ DOMAIN runs = 1..N /\ \A i \in 1..N : runs[i] \in KeyRuns
  OBVIOUS
<1>2. base \in Maps(Token, Numbers)
  OBVIOUS
<1>3. ASSUME NEW a \in Maps(Token, Numbers), NEW x \in KeyRuns
      PROVE  MotionStep(a, x) \in Maps(Token, Numbers)
  BY MotionStepType
<1>4. step \in [(1..N) \X Maps(Token, Numbers) -> Maps(Token, Numbers)]
  BY <1>1, <1>3
<1>5. ASSUME NEW i \in 1..N, NEW a \in Maps(Token, Numbers) PROVE step[<<i, a>>] = MotionStep(a, runs[i])
  OBVIOUS
<1>6. CountMotions(base, runs) = it[DOMAIN runs]
  BY DEF FoldLeft, MapThenFoldSet, CountMotions, MotionStep
<1> HIDE DEF step, N, it
<1>7. \E g : Eq(g)
  <2>1. PICK g : SetRecursion(g, N, Maps(Token, Numbers), base, step)
    <3> HIDE DEF Eq
    <3> QED BY <1>1, <1>2, <1>4, FoldExists
  <2>2. g \in [SUBSET (1..N) -> Maps(Token, Numbers)] /\ g[{}] = base
    BY <2>1 DEF SetRecursion
  <2>3. ASSUME NEW s \in SUBSET (1..N), s # {}
        PROVE  g[s] = MotionStep(g[s \ {Max(s)}], runs[Max(s)])
    <3>1. Max(s) \in 1..N
      BY <1>1, <2>3, MaxIn
    <3>2. g[s \ {Max(s)}] \in Maps(Token, Numbers)
      BY <2>2
    <3>3. g[s] = step[<<Max(s), g[s \ {Max(s)}]>>]
      BY <2>1, <2>3 DEF SetRecursion
    <3> QED BY <1>5, <3>1, <3>2, <3>3
  <2>4. ASSUME NEW s \in SUBSET DOMAIN runs
        PROVE  g[s] = IF s = {} THEN base ELSE MotionStep(g[s \ {Max(s)}], runs[Max(s)])
    BY <1>1, <2>2, <2>3
  <2>5. DOMAIN g = SUBSET DOMAIN runs /\ g = [s \in DOMAIN g |-> g[s]]
    BY <1>1, <2>2
  <2>6. Eq(g)
    BY <2>4, <2>5
  <2> HIDE DEF Eq
  <2> QED BY <2>6
<1>8. Eq(it)
  <2> HIDE DEF Eq
  <2> QED BY <1>7 DEF it
<1>9. it[{}] = base
  BY <1>8
<1>10. \A s \in SUBSET (1..N) : s # {} /\ it[s \ {Max(s)}] \in Maps(Token, Numbers)
         => it[s] = step[<<Max(s), it[s \ {Max(s)}]>>]
  <2> SUFFICES ASSUME NEW s \in SUBSET (1..N), s # {}, it[s \ {Max(s)}] \in Maps(Token, Numbers)
               PROVE  it[s] = step[<<Max(s), it[s \ {Max(s)}]>>]
    OBVIOUS
  <2>1. Max(s) \in 1..N
    BY <1>1, MaxIn
  <2>2. it[s] = MotionStep(it[s \ {Max(s)}], runs[Max(s)])
    BY <1>1, <1>8
  <2> QED BY <1>5, <2>1, <2>2
<1>11. Folding(it, N, Maps(Token, Numbers), base, step)
  <2> HIDE DEF Eq
  <2> QED BY <1>9, <1>10 DEF Folding
<1>12. PICK f : Unfolding(f, it, N, Maps(Token, Numbers), base, step)
  <2> HIDE DEF Eq
  <2> QED BY <1>1, <1>2, <1>4, <1>11, FoldValue
<1>13. f \in [0..N -> Maps(Token, Numbers)] /\ f[0] = base
  BY <1>12 DEF Recursion, Unfolding
<1>14. ASSUME NEW n \in 1..N PROVE f[n] = MotionStep(f[n - 1], runs[n])
  <2>1. f[n - 1] \in Maps(Token, Numbers)
    BY <1>1, <1>13
  <2>2. f[n] = step[<<n, f[n - 1]>>]
    BY <1>12 DEF Recursion, Unfolding
  <2> QED BY <1>5, <2>1, <2>2
<1>15. MotionSteps(f, runs, base)
  BY <1>13, <1>14 DEF MotionSteps, N
<1> QED BY <1>1, <1>6, <1>12, <1>15 DEF N, Unfolding

-----------------------------------------------------------------------------
(* Sums of naturals over finite sets, as the number of cells in a diagram. *)
Stack(f, S) == {p \in S \X Nat : 1 <= p[2] /\ p[2] <= f[p[1]]}
Weight(f, S) == Cardinality(Stack(f, S))

(* One element more puts its cells on top. *)
LEMMA StackAdd ==
  ASSUME NEW S, NEW x, x \notin S, NEW f, f[x] \in Nat
  PROVE  /\ Stack(f, S \cup {x}) = Stack(f, S) \cup ({x} \X (1..f[x]))
         /\ Stack(f, S) \cap ({x} \X (1..f[x])) = {}
BY DEF Stack

(* A column has as many cells as it is high. *)
LEMMA ColumnSize ==
  ASSUME NEW x, NEW n \in Nat
  PROVE  IsFiniteSet({x} \X (1..n)) /\ Cardinality({x} \X (1..n)) = n
<1>1. IsFiniteSet({x}) /\ Cardinality({x}) = 1
  BY FS_Singleton
<1>2. IsFiniteSet(1..n) /\ Cardinality(1..n) = n
  BY FS_Interval
<1>3. IsFiniteSet({x} \X (1..n)) /\ Cardinality({x} \X (1..n)) = Cardinality({x}) * Cardinality(1..n)
  BY <1>1, <1>2, FS_Product
<1> QED BY <1>1, <1>2, <1>3

(* What holds of the empty set, and of a subset with one element more, holds *)
(* of a finite set.                                                          *)
LEMMA SetInduction ==
  ASSUME NEW S, IsFiniteSet(S), NEW Good, {} \in Good,
         \A T \in SUBSET S : \A x \in S \ T : T \in Good => T \cup {x} \in Good
  PROVE  S \in Good
<1> DEFINE N == Cardinality(S)
<1>1. N \in Nat /\ ExistsBijection(1..N, S)
  BY FS_CardinalityType
<1>2. PICK q \in Bijection(1..N, S) : TRUE
  BY <1>1 DEF ExistsBijection
<1>3. q \in [1..N -> S] /\ (\A i, j \in 1..N : q[i] = q[j] => i = j) /\ \A x \in S : \E i \in 1..N : q[i] = x
  BY <1>2 DEF Bijection, Injection, Surjection, IsInjective
<1> DEFINE Part(d) == {q[i] : i \in 1..d}
           D == {d \in 0..N : Part(d) \in Good}
<1>4. 0 \in D
  <2>1. Part(0) = {} /\ 0 \in 0..N
    BY <1>1
  <2>2. Part(0) \in Good
    BY <2>1
  <2> HIDE DEF Part, N
  <2> QED BY <2>1, <2>2
<1>5. ASSUME NEW d \in 1..N, d - 1 \in D PROVE d \in D
  <2>1. Part(d - 1) \in SUBSET S /\ q[d] \in S \ Part(d - 1)
    BY <1>1, <1>3
  <2>2. Part(d) = Part(d - 1) \cup {q[d]}
    <3>1. 1..d = (1..(d - 1)) \cup {d}
      BY <1>1
    <3> QED BY <3>1
  <2> HIDE DEF Part, N
  <2>3. Part(d - 1) \in Good
    BY <1>5
  <2> QED BY <1>1, <2>1, <2>2, <2>3
<1>6. N \in D
  <2> HIDE DEF D, N
  <2> QED BY <1>1, <1>4, <1>5, RangeInduction, SMTT(20)
<1>7. Part(N) = S
  BY <1>3
<1> HIDE DEF Part, N
<1> QED BY <1>6, <1>7

(* The cells above a finite set are finitely many. *)
LEMMA StackFinite ==
  ASSUME NEW S, IsFiniteSet(S), NEW f, \A x \in S : f[x] \in Nat
  PROVE  IsFiniteSet(Stack(f, S))
<1> DEFINE Good == {T \in SUBSET S : IsFiniteSet(Stack(f, T))}
<1>1. {} \in Good
  <2>1. Stack(f, {}) = {}
    BY DEF Stack
  <2> QED BY <2>1, FS_EmptySet
<1>2. ASSUME NEW T \in SUBSET S, NEW x \in S \ T, T \in Good PROVE T \cup {x} \in Good
  <2>1. Stack(f, T \cup {x}) = Stack(f, T) \cup ({x} \X (1..f[x]))
    BY StackAdd
  <2>2. IsFiniteSet({x} \X (1..f[x])) /\ IsFiniteSet(Stack(f, T))
    BY <1>2, ColumnSize
  <2>3. IsFiniteSet(Stack(f, T) \cup ({x} \X (1..f[x])))
    BY <2>2, FS_Union
  <2> QED BY <2>1, <2>3
<1>3. S \in Good
  <2> HIDE DEF Good
  <2> QED BY <1>1, <1>2, SetInduction
<1> QED BY <1>3

(* A sum of numbers is a number. *)
LEMMA WeightType ==
  ASSUME NEW S, IsFiniteSet(S), NEW f, \A x \in S : f[x] \in Nat
  PROVE  Weight(f, S) \in Nat
<1>1. IsFiniteSet(Stack(f, S))
  BY StackFinite
<1> QED BY <1>1, FS_CardinalityType DEF Weight

(* The empty sum is 0. *)
LEMMA WeightEmpty ==
  ASSUME NEW f
  PROVE  Weight(f, {}) = 0
<1>1. Stack(f, {}) = {}
  BY DEF Stack
<1> QED BY <1>1, FS_EmptySet DEF Weight

(* One element more adds its number. *)
LEMMA WeightAdd ==
  ASSUME NEW S, IsFiniteSet(S), NEW x, x \notin S, NEW f, \A y \in S \cup {x} : f[y] \in Nat
  PROVE  Weight(f, S \cup {x}) = Weight(f, S) + f[x]
<1> DEFINE C == {x} \X (1..f[x])
           T == Stack(f, S)
<1>1. Stack(f, S \cup {x}) = T \cup C /\ T \cap C = {}
  BY StackAdd
<1>2. IsFiniteSet(T) /\ IsFiniteSet(C) /\ Cardinality(C) = f[x]
  BY StackFinite, ColumnSize
<1> HIDE DEF T, C
<1>3. Cardinality(T \cup C) = Cardinality(T) + Cardinality(C) - Cardinality(T \cap C)
  BY <1>2, FS_Union
<1>4. Cardinality(T \cap C) = 0 /\ Cardinality(T) \in Nat /\ f[x] \in Nat
  BY <1>1, <1>2, FS_EmptySet, FS_CardinalityType
<1>5. Weight(f, S \cup {x}) = Cardinality(T \cup C) /\ Weight(f, S) = Cardinality(T)
  BY <1>1 DEF Weight, T
<1> QED BY <1>2, <1>3, <1>4, <1>5

(* A part weighs no more than the whole. *)
LEMMA WeightSubset ==
  ASSUME NEW S, IsFiniteSet(S), NEW T \in SUBSET S, NEW f, \A x \in S : f[x] \in Nat
  PROVE  Weight(f, T) <= Weight(f, S)
<1>1. IsFiniteSet(Stack(f, S)) /\ Stack(f, T) \in SUBSET Stack(f, S)
  BY StackFinite DEF Stack
<1> QED BY <1>1, FS_Subset DEF Weight

(* A sum depends on the numbers of its elements only. *)
LEMMA WeightSame ==
  ASSUME NEW S, NEW f, NEW g, \A x \in S : f[x] = g[x]
  PROVE  Weight(f, S) = Weight(g, S)
<1>1. Stack(f, S) = Stack(g, S)
  BY DEF Stack
<1> QED BY <1>1 DEF Weight

(* What MapThenSumSet computes. *)
Pick(s) == CHOOSE x \in s : TRUE
Summing(it, f, S) ==
  it[{}] = 0 /\ \A s \in SUBSET S : s # {} => it[s] = f[Pick(s)] + it[s \ {Pick(s)}]

(* What sums element by element sums the weights, whichever is picked
   first. *)
LEMMA SumValue ==
  ASSUME NEW S, IsFiniteSet(S), NEW f, \A x \in S : f[x] \in Nat, NEW it, Summing(it, f, S)
  PROVE  it[S] = Weight(f, S)
<1> DEFINE Right(s) == it[s] = Weight(f, s)
           N == Cardinality(S)
           D == {d \in 0..N : \A s \in SUBSET S : Cardinality(s) = d => Right(s)}
<1>1. N \in Nat
  BY FS_CardinalityType
<1>2. \A s \in SUBSET S : IsFiniteSet(s)
  BY FS_Subset
<1>3. 0 \in D
  <2> SUFFICES ASSUME NEW s \in SUBSET S, Cardinality(s) = 0 PROVE Right(s)
    BY <1>1
  <2>1. s = {}
    BY <1>2, FS_EmptySet
  <2> QED BY <2>1, WeightEmpty DEF Summing
<1>4. ASSUME NEW d \in 1..N, d - 1 \in D PROVE d \in D
  <2> SUFFICES ASSUME NEW s \in SUBSET S, Cardinality(s) = d PROVE Right(s)
    BY <1>1
  <2>1. s # {}
    BY <1>1, FS_EmptySet
  <2>2. Pick(s) \in s
    BY <2>1 DEF Pick
  <2> DEFINE x == Pick(s)
             t == s \ {x}
  <2>3. Cardinality(t) = d - 1
    BY <1>1, <1>2, <2>2, FS_RemoveElement
  <2>4. t \in SUBSET S /\ x \notin t /\ s = t \cup {x} /\ IsFiniteSet(t)
    BY <1>2, <2>2
  <2>5. it[s] = f[x] + it[t]
    BY <2>1 DEF Summing
  <2> HIDE DEF x, t
  <2>6. it[t] = Weight(f, t)
    BY <1>4, <2>3, <2>4
  <2>7. \A y \in t \cup {x} : f[y] \in Nat
    BY <2>4
  <2>8. Weight(f, t \cup {x}) = Weight(f, t) + f[x]
    BY <2>4, <2>7, WeightAdd
  <2>9. Weight(f, t) \in Nat /\ f[x] \in Nat
    BY <2>4, <2>7, WeightType
  <2> QED BY <2>4, <2>5, <2>6, <2>8, <2>9
<1>5. N \in D
  <2> HIDE DEF D, N
  <2> QED BY <1>1, <1>3, <1>4, RangeInduction
<1> QED BY <1>5

(* A weight is that of the element picked and that of the rest. *)
LEMMA WeightRecursion ==
  ASSUME NEW S, IsFiniteSet(S), NEW f, \A x \in S : f[x] \in Nat
  PROVE  \A s \in SUBSET S : s # {} => Weight(f, s) = f[Pick(s)] + Weight(f, s \ {Pick(s)})
<1> SUFFICES ASSUME NEW s \in SUBSET S, s # {} PROVE Weight(f, s) = f[Pick(s)] + Weight(f, s \ {Pick(s)})
  OBVIOUS
<1>1. Pick(s) \in s
  BY DEF Pick
<1> DEFINE x == Pick(s)
           t == s \ {x}
<1>2. IsFiniteSet(t) /\ x \notin t /\ s = t \cup {x} /\ \A y \in t \cup {x} : f[y] \in Nat
  BY <1>1, FS_Subset
<1> HIDE DEF x, t
<1>3. Weight(f, t \cup {x}) = Weight(f, t) + f[x]
  BY <1>2, WeightAdd
<1>4. Weight(f, t) \in Nat /\ f[x] \in Nat
  BY <1>2, WeightType
<1> QED BY <1>2, <1>3, <1>4 DEF t, x

(* The four sums of the model. *)
LEMMA SizeSum ==
  ASSUME NEW S \in SUBSET Token
  PROVE  MapThenSumSet(LAMBDA x : Size[x], S) = Weight(Size, S)
<1> DEFINE Eq(g) == g = [s \in SUBSET S |-> IF s = {} THEN 0
                           ELSE Size[CHOOSE x \in s : TRUE] + g[s \ {CHOOSE x \in s : TRUE}]]
           it == CHOOSE g : Eq(g)
<1>1. MapThenSumSet(LAMBDA x : Size[x], S) = it[S]
  BY DEF MapThenSumSet, MapThenFoldSet
<1>2. IsFiniteSet(S) /\ \A x \in S : Size[x] \in Nat
  BY TokensFinite, AggregationConstants
<1>3. \A s \in SUBSET S : s # {} => Weight(Size, s) = Size[Pick(s)] + Weight(Size, s \ {Pick(s)})
  BY <1>2, WeightRecursion
<1>4. \E g : Eq(g)
  <2> DEFINE g == [s \in SUBSET S |-> Weight(Size, s)]
  <2>1. Eq(g)
    BY <1>3, WeightEmpty DEF Pick
  <2> HIDE DEF g, Eq
  <2> QED BY <2>1
<1>5. Eq(it)
  <2> HIDE DEF Eq
  <2> QED BY <1>4
<1>6. Summing(it, Size, S)
  <2> HIDE DEF it
  <2> QED BY <1>5 DEF Summing, Pick
<1> HIDE DEF it
<1> QED BY <1>1, <1>2, <1>6, SumValue

-----------------------------------------------------------------------------
(* Events, and what one event more adds to each count of positions. *)
Kinds == {"session_start", "session_end", "key_sequence", "text_run", "control_key_use",
          "mode_transition", "mapping_use"}
Logs == Seq(LogEvents)

(* The fields of an event, by its kind. *)
LEMMA EventType ==
  ASSUME NEW e \in LogEvents
  PROVE  /\ e.kind \in Kinds /\ e.session \in Nat /\ e.session # NoSession /\ e.elapsed \in Nat
         /\ e.kind = "key_sequence" =>
              e.mode \in SequenceModes /\ e.keys \in Seq(Token) /\ e.duration \in Nat
         /\ e.kind = "text_run" => e.count \in Nat
         /\ e.kind = "control_key_use" => e.mode \in TextModes /\ e.key \in Token /\ e.count \in Nat
         /\ e.kind = "mode_transition" => e.from \in Modes /\ e.to \in Modes
         /\ e.kind = "mapping_use" =>
              e.mode \in SequenceModes /\ e.mapping_id \in Token /\ e.keys \in Seq(Token)
BY DEF LogEvents, Kinds

(* The entries of a log are events. *)
LEMMA EventAt ==
  ASSUME NEW events \in Logs, NEW i \in DOMAIN events
  PROVE  events[i] \in LogEvents
BY DEF Logs

(* The positions of a log are 1 to its length. *)
LEMMA Indices ==
  ASSUME NEW events \in Logs
  PROVE  /\ DOMAIN events = 1..Len(events) /\ Len(events) \in Nat /\ IsFiniteSet(DOMAIN events)
         /\ Cardinality(DOMAIN events) = Len(events)
<1>1. DOMAIN events = 1..Len(events) /\ Len(events) \in Nat
  BY DEF Logs
<1> DEFINE n == Len(events)
<1> HIDE DEF n
<1>2. IsFiniteSet(1..n) /\ Cardinality(1..n) = IF 1 > n THEN 0 ELSE n - 1 + 1
  BY <1>1, FS_Interval DEF n
<1>3. n \in Nat
  BY <1>1 DEF n
<1>4. Cardinality(1..n) = n
  BY <1>2, <1>3
<1> QED BY <1>1, <1>2, <1>4 DEF n

(* The events of one kind are finitely many positions. *)
LEMMA OfFinite ==
  ASSUME NEW events \in Logs, NEW kind
  PROVE  /\ Of(events, kind) \subseteq DOMAIN events /\ IsFiniteSet(Of(events, kind))
         /\ \A S \in SUBSET Of(events, kind) : IsFiniteSet(S)
<1>1. Of(events, kind) \subseteq DOMAIN events
  BY DEF Of
<1>2. \A S \in SUBSET DOMAIN events : IsFiniteSet(S)
  BY Indices, FS_Subset
<1> QED BY <1>1, <1>2

(* One event more is at the end, and the others stay. *)
LEMMA AppendEvent ==
  ASSUME NEW events \in Logs, NEW e \in LogEvents
  PROVE  /\ Append(events, e) \in Logs /\ Len(Append(events, e)) = Len(events) + 1
         /\ DOMAIN Append(events, e) = DOMAIN events \cup {Len(events) + 1}
         /\ Len(events) + 1 \notin DOMAIN events
         /\ Append(events, e)[Len(events) + 1] = e
         /\ \A i \in DOMAIN events : Append(events, e)[i] = events[i]
BY DEF Logs

(* One event more is one of its own kind. *)
LEMMA OfAppend ==
  ASSUME NEW events \in Logs, NEW e \in LogEvents, NEW kind
  PROVE  /\ Of(Append(events, e), kind) = Of(events, kind) \cup (IF e.kind = kind THEN {Len(events) + 1} ELSE {})
         /\ Len(events) + 1 \notin Of(events, kind)
<1> DEFINE more == Append(events, e)
           n == Len(events) + 1
<1>1. /\ DOMAIN more = DOMAIN events \cup {n} /\ n \notin DOMAIN events
      /\ more[n] = e /\ \A i \in DOMAIN events : more[i] = events[i]
  BY AppendEvent
<1> HIDE DEF more, n
<1>2. /\ Of(more, kind) = Of(events, kind) \cup (IF e.kind = kind THEN {n} ELSE {})
      /\ n \notin Of(events, kind)
  BY <1>1 DEF Of
<1> QED BY <1>2 DEF more, n

(* The positions of keys, one by one. *)
Row(n, m) == {<<n, j>> : j \in 1..m}

(* A row grows at its end, one position at a time. *)
LEMMA RowStep ==
  ASSUME NEW n, NEW m \in Nat
  PROVE  Row(n, m + 1) = Row(n, m) \cup {<<n, m + 1>>} /\ <<n, m + 1>> \notin Row(n, m) /\ Row(n, 0) = {}
<1>1. 1..(m + 1) = (1..m) \cup {m + 1} /\ m + 1 \notin 1..m /\ 1..0 = {}
  OBVIOUS
<1> QED BY <1>1 DEF Row

(* A row has as many positions as it is long. *)
LEMMA RowSize ==
  ASSUME NEW n, NEW m \in Nat
  PROVE  IsFiniteSet(Row(n, m)) /\ Cardinality(Row(n, m)) = m
<1>1. Row(n, m) = {n} \X (1..m)
  BY DEF Row
<1>2. IsFiniteSet({n} \X (1..m)) /\ Cardinality({n} \X (1..m)) = m
  BY ColumnSize
<1> QED BY <1>1, <1>2

(* One event more adds the row of its keys. *)
LEMMA KeyedAppend ==
  ASSUME NEW events \in Logs, NEW e \in LogEvents
  PROVE  Keyed(Append(events, e))
           = Keyed(events) \cup (IF e.kind = "key_sequence" THEN Row(Len(events) + 1, Len(e.keys)) ELSE {})
<1> DEFINE more == Append(events, e)
           n == Len(events) + 1
           kind == "key_sequence"
<1>1. /\ DOMAIN more = DOMAIN events \cup {n} /\ n \notin DOMAIN events
      /\ more[n] = e /\ \A i \in DOMAIN events : more[i] = events[i]
  BY AppendEvent
<1>2. Of(more, kind) = Of(events, kind) \cup (IF e.kind = kind THEN {n} ELSE {}) /\ Of(events, kind) \subseteq DOMAIN events
  BY OfAppend, OfFinite
<1>3. e.kind = kind => DOMAIN e.keys = 1..Len(e.keys)
  BY EventType
<1> HIDE DEF more, n
<1>4. Keyed(more) = Keyed(events) \cup (IF e.kind = kind THEN Row(n, Len(e.keys)) ELSE {})
  BY <1>1, <1>2, <1>3 DEF Keyed, Row
<1> QED BY <1>4 DEF more, n

(* A position of a key is an event and a place among its keys. *)
LEMMA KeyedIn ==
  ASSUME NEW events \in Logs
  PROVE  \A p \in Keyed(events) :
           /\ p = <<p[1], p[2]>> /\ p[1] \in Of(events, "key_sequence") /\ p[1] \in DOMAIN events
           /\ p[2] \in 1..Len(events[p[1]].keys) /\ TokenAt(events, p) \in Token
<1> SUFFICES ASSUME NEW p \in Keyed(events)
             PROVE  /\ p = <<p[1], p[2]>> /\ p[1] \in Of(events, "key_sequence") /\ p[1] \in DOMAIN events
                    /\ p[2] \in 1..Len(events[p[1]].keys) /\ TokenAt(events, p) \in Token
  OBVIOUS
<1>1. PICK i \in Of(events, "key_sequence") : \E j \in DOMAIN events[i].keys : p = <<i, j>>
  BY DEF Keyed
<1>2. PICK j \in DOMAIN events[i].keys : p = <<i, j>>
  BY <1>1
<1>3. i \in DOMAIN events /\ events[i].kind = "key_sequence" /\ events[i] \in LogEvents
  BY EventAt DEF Of
<1>4. events[i].keys \in Seq(Token)
  BY <1>3, EventType
<1> QED BY <1>1, <1>2, <1>3, <1>4 DEF TokenAt

(* There are finitely many positions of keys. *)
LEMMA KeyedFinite ==
  ASSUME NEW events \in Logs
  PROVE  IsFiniteSet(Keyed(events)) /\ \A S \in SUBSET Keyed(events) : IsFiniteSet(S)
<1> DEFINE keys(i) == {<<i, j>> : j \in DOMAIN events[i].keys}
           rows == {keys(i) : i \in Of(events, "key_sequence")}
           f == [i \in Of(events, "key_sequence") |-> keys(i)]
<1>1. f \in Surjection(Of(events, "key_sequence"), rows)
  BY DEF Surjection
<1>2. IsFiniteSet(rows)
  <2> HIDE DEF f, rows
  <2> QED BY <1>1, OfFinite, FS_Surjection
<1>3. \A r \in rows : IsFiniteSet(r)
  <2> SUFFICES ASSUME NEW i \in Of(events, "key_sequence") PROVE IsFiniteSet(keys(i))
    OBVIOUS
  <2>1. events[i] \in LogEvents /\ events[i].kind = "key_sequence"
    BY EventAt DEF Of
  <2>2. DOMAIN events[i].keys = 1..Len(events[i].keys) /\ Len(events[i].keys) \in Nat
    BY <2>1, EventType
  <2>3. keys(i) = Row(i, Len(events[i].keys))
    BY <2>2 DEF Row
  <2> HIDE DEF keys
  <2> QED BY <2>2, <2>3, RowSize
<1>4. Keyed(events) = UNION rows
  BY DEF Keyed
<1>5. IsFiniteSet(Keyed(events))
  <2> HIDE DEF rows
  <2> QED BY <1>2, <1>3, <1>4, FS_UNION
<1> QED BY <1>5, FS_Subset

(* One event more adds as many positions as it has keys. *)
LEMMA KeyedSize ==
  ASSUME NEW events \in Logs, NEW e \in LogEvents
  PROVE  Cardinality(Keyed(Append(events, e)))
           = Cardinality(Keyed(events)) + (IF e.kind = "key_sequence" THEN Len(e.keys) ELSE 0)
<1> DEFINE n == Len(events) + 1
           K == Keyed(events)
           R == Row(n, Len(e.keys))
<1>1. Keyed(Append(events, e)) = K \cup (IF e.kind = "key_sequence" THEN R ELSE {})
  BY KeyedAppend
<1>2. IsFiniteSet(K)
  BY KeyedFinite
<1>3. CASE e.kind = "key_sequence"
  <2>1. IsFiniteSet(R) /\ Cardinality(R) = Len(e.keys) /\ Len(e.keys) \in Nat
    BY <1>3, EventType, RowSize
  <2>2. K \cap R = {}
    BY KeyedIn, Indices DEF Row
  <2> HIDE DEF K, R
  <2>3. Cardinality(K \cup R) = Cardinality(K) + Cardinality(R) - Cardinality(K \cap R)
    BY <1>2, <2>1, FS_Union
  <2>4. Cardinality(K \cap R) = 0 /\ Cardinality(K) \in Nat
    BY <1>2, <2>2, FS_EmptySet, FS_CardinalityType
  <2> QED BY <1>1, <1>3, <2>1, <2>3, <2>4 DEF K
<1>4. CASE e.kind # "key_sequence"
  <2>1. Keyed(Append(events, e)) = K
    BY <1>1, <1>4
  <2>2. Cardinality(K) \in Nat
    BY <1>2, FS_CardinalityType
  <2> QED BY <1>4, <2>1, <2>2
<1> QED BY <1>3, <1>4

(* One event more counts once for its kind. *)
LEMMA OfSize ==
  ASSUME NEW events \in Logs, NEW e \in LogEvents, NEW kind
  PROVE  Cardinality(Of(Append(events, e), kind))
           = Cardinality(Of(events, kind)) + (IF e.kind = kind THEN 1 ELSE 0)
<1>1. IsFiniteSet(Of(events, kind)) /\ Cardinality(Of(events, kind)) \in Nat
  BY OfFinite, FS_CardinalityType
<1>2. /\ Of(Append(events, e), kind) = Of(events, kind) \cup (IF e.kind = kind THEN {Len(events) + 1} ELSE {})
      /\ Len(events) + 1 \notin Of(events, kind)
  BY OfAppend
<1>3. CASE e.kind = kind
  <2>1. Of(Append(events, e), kind) = Of(events, kind) \cup {Len(events) + 1}
    BY <1>2, <1>3
  <2>2. Cardinality(Of(events, kind) \cup {Len(events) + 1}) = Cardinality(Of(events, kind)) + 1
    BY <1>1, <1>2, FS_AddElement
  <2> QED
    BY <1>3, <2>1, <2>2
<1>4. CASE e.kind # kind
  <2>1. Of(Append(events, e), kind) = Of(events, kind)
    BY <1>2, <1>4
  <2> QED
    BY <1>1, <1>4, <2>1
<1> QED BY <1>3, <1>4

-----------------------------------------------------------------------------
(* The budget: what is stocked, and whether it fits. *)
PairSize == [c \in TextModes \X Token |-> Size[c[1]] + Size[c[2]]]
Stocks == [keys : SUBSET Token, repeated_keys : SUBSET Token, mappings : SUBSET Token,
           control_keys : SUBSET (TextModes \X Token)]
Bytes(st) ==
  Weight(Size, st.keys) + Weight(Size, st.repeated_keys) + Weight(Size, st.mappings)
    + Weight(PairSize, st.control_keys)
Fits(st) ==
  /\ Cardinality(st.keys) <= MaxDistinctItems /\ Cardinality(st.repeated_keys) <= MaxDistinctItems
  /\ Cardinality(st.mappings) <= MaxDistinctItems /\ Cardinality(st.control_keys) <= MaxDistinctItems
  /\ Bytes(st) <= MaxRetainedTokenBytes

(* Without an error exactly the stock is retained and fits; an error has a reason. *)
Stocked(acc, st, bad) ==
  /\ acc.error = NoError =>
       /\ DOMAIN acc.keys = st.keys /\ DOMAIN acc.repeated_keys = st.repeated_keys
       /\ DOMAIN acc.mappings = st.mappings /\ DOMAIN acc.control_keys = st.control_keys
       /\ acc.retained_token_bytes = Bytes(st) /\ Fits(st)
  /\ acc.error # NoError => ~Fits(st) \/ bad

(* The limits are numbers (AggregationConstants). *)
LEMMA Limits ==
  /\ MaxSessions \in Nat /\ MaxDistinctItems \in Nat /\ MaxRetainedTokenBytes \in Nat
  /\ MaxRankedItems \in Nat /\ MaxCandidates \in Nat /\ MinSessions \in Nat
  /\ MinSequenceKeys \in Nat /\ MinObservations \in Nat /\ MinObservations > 0 /\ MaxTime \in Nat
BY AggregationConstants

(* A token has a number of bytes. *)
LEMMA SizeType == \A x \in Token : Size[x] \in Nat
BY AggregationConstants

(* A control key has the bytes of its mode and of its key. *)
LEMMA PairSizeType ==
  \A c \in TextModes \X Token : PairSize[c] \in Nat /\ PairSize[c] = Size[c[1]] + Size[c[2]]
<1> SUFFICES ASSUME NEW c \in TextModes \X Token
             PROVE  PairSize[c] \in Nat /\ PairSize[c] = Size[c[1]] + Size[c[2]]
  OBVIOUS
<1>1. c[1] \in Token /\ c[2] \in Token
  BY ScenarioTypes
<1>2. Size[c[1]] \in Nat /\ Size[c[2]] \in Nat
  BY <1>1, SizeType
<1> QED BY <1>2 DEF PairSize

(* There are finitely many control keys. *)
LEMMA PairsFinite == \A S \in SUBSET (TextModes \X Token) : IsFiniteSet(S)
<1>1. IsFiniteSet(TextModes) /\ IsFiniteSet(Token)
  BY TokensFinite, ScenarioTypes
<1>2. IsFiniteSet(TextModes \X Token)
  BY <1>1, FS_Product
<1> QED BY <1>2, FS_Subset

(* A new entry weighs what it adds, and the rest stays. *)
LEMMA TokenWeight ==
  ASSUME NEW S \in SUBSET Token, NEW x \in Token
  PROVE  /\ Weight(Size, S) \in Nat
         /\ x \notin S => Weight(Size, S \cup {x}) = Weight(Size, S) + Size[x]
<1>1. IsFiniteSet(S) /\ \A y \in S \cup {x} : Size[y] \in Nat
  BY TokensFinite, SizeType
<1> QED BY <1>1, WeightType, WeightAdd

(* The same for control keys. *)
LEMMA PairWeight ==
  ASSUME NEW S \in SUBSET (TextModes \X Token), NEW x \in TextModes \X Token
  PROVE  /\ Weight(PairSize, S) \in Nat
         /\ x \notin S => Weight(PairSize, S \cup {x}) = Weight(PairSize, S) + PairSize[x]
<1>1. IsFiniteSet(S) /\ \A y \in S \cup {x} : PairSize[y] \in Nat
  BY PairsFinite, PairSizeType
<1> QED BY <1>1, WeightType, WeightAdd

(* Sets of tokens have a weight and a size. *)
LEMMA TokenWeightType ==
  ASSUME NEW S \in SUBSET Token
  PROVE  Weight(Size, S) \in Nat /\ Cardinality(S) \in Nat /\ IsFiniteSet(S)
<1>1. IsFiniteSet(S) /\ \A y \in S : Size[y] \in Nat
  BY TokensFinite, SizeType
<1> QED BY <1>1, WeightType, FS_CardinalityType

(* Sets of control keys have a weight and a size. *)
LEMMA PairWeightType ==
  ASSUME NEW S \in SUBSET (TextModes \X Token)
  PROVE  Weight(PairSize, S) \in Nat /\ Cardinality(S) \in Nat /\ IsFiniteSet(S)
<1>1. IsFiniteSet(S) /\ \A y \in S : PairSize[y] \in Nat
  BY PairsFinite, PairSizeType
<1> QED BY <1>1, WeightType, FS_CardinalityType

(* The parts of a stock, their sizes and weights. *)
LEMMA StockType ==
  ASSUME NEW st \in Stocks
  PROVE  /\ st.keys \subseteq Token /\ st.repeated_keys \subseteq Token /\ st.mappings \subseteq Token
         /\ st.control_keys \subseteq TextModes \X Token
         /\ Cardinality(st.keys) \in Nat /\ Cardinality(st.repeated_keys) \in Nat
         /\ Cardinality(st.mappings) \in Nat /\ Cardinality(st.control_keys) \in Nat
         /\ Weight(Size, st.keys) \in Nat /\ Weight(Size, st.repeated_keys) \in Nat
         /\ Weight(Size, st.mappings) \in Nat /\ Weight(PairSize, st.control_keys) \in Nat
         /\ Bytes(st) \in Nat
<1>1. /\ st.keys \in SUBSET Token /\ st.repeated_keys \in SUBSET Token /\ st.mappings \in SUBSET Token
      /\ st.control_keys \in SUBSET (TextModes \X Token)
  BY DEF Stocks
<1>2. Weight(Size, st.keys) \in Nat /\ Cardinality(st.keys) \in Nat
  BY <1>1, TokenWeightType
<1>3. Weight(Size, st.repeated_keys) \in Nat /\ Cardinality(st.repeated_keys) \in Nat
  BY <1>1, TokenWeightType
<1>4. Weight(Size, st.mappings) \in Nat /\ Cardinality(st.mappings) \in Nat
  BY <1>1, TokenWeightType
<1>5. Weight(PairSize, st.control_keys) \in Nat /\ Cardinality(st.control_keys) \in Nat
  BY <1>1, PairWeightType
<1>6. Bytes(st) \in Nat
  BY <1>2, <1>3, <1>4, <1>5 DEF Bytes
<1> QED BY <1>1, <1>2, <1>3, <1>4, <1>5, <1>6

(* What does not fit does not fit with more in it. *)
Within(a, b) ==
  /\ a.keys \subseteq b.keys /\ a.repeated_keys \subseteq b.repeated_keys
  /\ a.mappings \subseteq b.mappings /\ a.control_keys \subseteq b.control_keys

(* Fewer tokens are not more and do not weigh more. *)
LEMMA TokensWithin ==
  ASSUME NEW T \in SUBSET Token, NEW S \in SUBSET T
  PROVE  Cardinality(S) <= Cardinality(T) /\ Weight(Size, S) <= Weight(Size, T)
<1>1. IsFiniteSet(T) /\ \A y \in T : Size[y] \in Nat
  BY TokensFinite, SizeType
<1> QED BY <1>1, WeightSubset, FS_Subset

(* Fewer control keys are not more and do not weigh more. *)
LEMMA PairsWithin ==
  ASSUME NEW T \in SUBSET (TextModes \X Token), NEW S \in SUBSET T
  PROVE  Cardinality(S) <= Cardinality(T) /\ Weight(PairSize, S) <= Weight(PairSize, T)
<1>1. IsFiniteSet(T) /\ \A y \in T : PairSize[y] \in Nat
  BY PairsFinite, PairSizeType
<1> QED BY <1>1, WeightSubset, FS_Subset

(* What holds less fits where what holds more does. *)
LEMMA FitsWithin ==
  ASSUME NEW a \in Stocks, NEW b \in Stocks, Within(a, b), Fits(b)
  PROVE  Fits(a)
<1>1. Cardinality(a.keys) <= Cardinality(b.keys) /\ Weight(Size, a.keys) <= Weight(Size, b.keys)
  BY TokensWithin DEF Within, Stocks
<1>2. Cardinality(a.repeated_keys) <= Cardinality(b.repeated_keys) /\ Weight(Size, a.repeated_keys) <= Weight(Size, b.repeated_keys)
  BY TokensWithin DEF Within, Stocks
<1>3. Cardinality(a.mappings) <= Cardinality(b.mappings) /\ Weight(Size, a.mappings) <= Weight(Size, b.mappings)
  BY TokensWithin DEF Within, Stocks
<1>4. Cardinality(a.control_keys) <= Cardinality(b.control_keys) /\ Weight(PairSize, a.control_keys) <= Weight(PairSize, b.control_keys)
  BY PairsWithin DEF Within, Stocks
<1> QED BY <1>1, <1>2, <1>3, <1>4, StockType, Limits DEF Fits, Bytes

(* The first error is kept. *)
LEMMA RecordErrorType ==
  ASSUME NEW acc \in Accumulators, NEW e \in Errors
  PROVE  RecordError(acc, e) \in Accumulators
BY DEF Accumulators, RecordError

(* The cases of a bounded entry, in the order they are tried. *)
KeyCase(acc, k, bytes, new, tooMany) ==
  IF k \in DOMAIN acc.keys THEN acc
  ELSE IF Cardinality(DOMAIN acc.keys) >= MaxDistinctItems THEN RecordError(acc, tooMany)
  ELSE IF acc.retained_token_bytes + bytes > MaxRetainedTokenBytes
  THEN RecordError(acc, "retained_token_bytes")
  ELSE [acc EXCEPT !.keys = With(@, k, new), !.retained_token_bytes = @ + bytes]

(* A bounded entry of a key, case by case. *)
LEMMA KeyCases ==
  ASSUME NEW acc \in Accumulators, NEW k, NEW bytes \in Nat, NEW new, NEW tooMany,
         Cardinality(DOMAIN acc.keys) \in Nat
  PROVE  BoundedEntry(acc, "keys", k, bytes, new, tooMany) = KeyCase(acc, k, bytes, new, tooMany)
<1>1. acc.retained_token_bytes \in Nat /\ acc["keys"] = acc.keys
  BY DEF Accumulators
<1> DEFINE c == Cardinality(DOMAIN acc.keys)
<1>2. c \in Nat /\ (c < MaxDistinctItems <=> ~(c >= MaxDistinctItems))
  BY Limits
<1> QED BY <1>1, <1>2, Limits DEF BoundedEntry, Accumulators, KeyCase

(* What an entry changes has its type. *)
LEMMA KeyChange ==
  ASSUME NEW acc \in Accumulators, NEW w \in Maps(Token, Nat), NEW n \in Nat,
         NEW a, a = [acc EXCEPT !.keys = w, !.retained_token_bytes = n]
  PROVE  a \in Accumulators
BY DEF Accumulators

(* A bounded entry of keys. *)
KeyOnly(a, b) ==
  b = [a EXCEPT !.error = b.error, !.retained_token_bytes = b.retained_token_bytes, !.keys = b.keys]

(* A key is entered if it fits, and the stock is kept; otherwise there is
   an error and a reason for it. *)
LEMMA KeyEntry ==
  ASSUME NEW acc \in Accumulators, NEW st \in Stocks, NEW bad \in BOOLEAN, Stocked(acc, st, bad),
         NEW k \in Token, NEW new \in Nat, NEW tooMany \in Errors, tooMany # NoError,
         NEW a, a = BoundedEntry(acc, "keys", k, Size[k], new, tooMany),
         NEW more, more = [st EXCEPT !.keys = @ \cup {k}]
  PROVE  /\ a \in Accumulators /\ more \in Stocks /\ Stocked(a, more, bad) /\ KeyOnly(acc, a)
         /\ \/ a.keys = acc.keys
            \/ a.keys = With(acc.keys, k, new) /\ k \notin DOMAIN acc.keys
         /\ a.error = NoError => acc.error = NoError /\ k \in DOMAIN a.keys
         /\ a.error # NoError /\ k \notin DOMAIN a.keys => a.keys = acc.keys
<1> DEFINE map == acc.keys
           B == acc.retained_token_bytes
<1>1. /\ map \in Maps(Token, Nat) /\ B \in Nat /\ acc.error \in Errors
  BY DEF Accumulators
<1>2. With(map, k, new) \in Maps(Token, Nat) /\ DOMAIN With(map, k, new) = DOMAIN map \cup {k}
  BY <1>1, WithMap, WithDomain
<1>3. Size[k] \in Nat /\ Size[k] = Size[k] /\ "retained_token_bytes" \in Errors /\ "retained_token_bytes" # NoError
  BY SizeType, PairSizeType DEF Errors, NoError
<1>4. /\ more \in Stocks /\ more.keys = st.keys \cup {k}
      /\ more.repeated_keys = st.repeated_keys /\ more.mappings = st.mappings /\ more.control_keys = st.control_keys
  BY DEF Stocks
<1>5. Within(st, more)
  BY <1>4 DEF Within
<1>6. k \notin st.keys =>
        /\ Cardinality(more.keys) = Cardinality(st.keys) + 1
        /\ Bytes(more) = Bytes(st) + Size[k]
  <2> SUFFICES ASSUME k \notin st.keys
               PROVE  /\ Cardinality(more.keys) = Cardinality(st.keys) + 1
                      /\ Bytes(more) = Bytes(st) + Size[k]
    OBVIOUS
  <2>1. st.keys \in SUBSET (Token) /\ IsFiniteSet(st.keys)
    BY StockType, TokenWeightType
  <2>2. Cardinality(st.keys \cup {k}) = Cardinality(st.keys) + 1
    BY <2>1, FS_AddElement
  <2>3. Weight(Size, st.keys \cup {k}) = Weight(Size, st.keys) + Size[k]
    BY <2>1, TokenWeight
  <2>4. Size[k] \in Nat
    BY <1>3
  <2> QED BY <1>4, <2>2, <2>3, <2>4, StockType DEF Bytes
<1>12. a = IF k \in DOMAIN map THEN acc
           ELSE IF Cardinality(DOMAIN map) >= MaxDistinctItems THEN RecordError(acc, tooMany)
           ELSE IF B + Size[k] > MaxRetainedTokenBytes THEN RecordError(acc, "retained_token_bytes")
           ELSE [acc EXCEPT !.keys = With(@, k, new), !.retained_token_bytes = @ + Size[k]]
  <2>1. map = acc["keys"] /\ Cardinality(DOMAIN map) \in Nat
    BY <1>1, MapType, TokenWeightType
  <2> HIDE DEF map
  <2>2. a = KeyCase(acc, k, Size[k], new, tooMany)
    BY <1>3, <2>1, KeyCases DEF map
  <2> QED BY <2>2 DEF map, KeyCase
<1>7. CASE k \in DOMAIN map
  <2>1. a = acc
    BY <1>7, <1>12
  <2>2. acc.error = NoError => more = st
    <3> SUFFICES ASSUME acc.error = NoError PROVE more = st
      OBVIOUS
    <3>1. k \in st.keys
      BY <1>7 DEF Stocked
    <3> QED BY <3>1 DEF Stocks
  <2>3. Stocked(a, more, bad)
    BY <1>4, <1>5, <2>1, <2>2, FitsWithin DEF Stocked
  <2>4. KeyOnly(acc, a)
    BY <2>1 DEF KeyOnly, Accumulators
  <2> QED BY <1>4, <1>7, <2>1, <2>3, <2>4
<1>8. ASSUME k \notin DOMAIN map, NEW error \in Errors, error # NoError, a = RecordError(acc, error),
             acc.error = NoError => ~Fits(more)
      PROVE  /\ a \in Accumulators /\ Stocked(a, more, bad) /\ KeyOnly(acc, a)
             /\ a.keys = acc.keys /\ a.error # NoError
  <2>1. a \in Accumulators
    BY <1>8, RecordErrorType
  <2>4. a.error # NoError /\ a.keys = acc.keys
    BY <1>8 DEF RecordError, Accumulators
  <2>5. KeyOnly(acc, a)
    BY <1>8 DEF RecordError, Accumulators, KeyOnly
  <2>2. ~Fits(more) \/ bad
    BY <1>4, <1>5, <1>8, FitsWithin DEF Stocked
  <2>3. Stocked(a, more, bad)
    BY <2>2, <2>4 DEF Stocked
  <2> QED BY <2>1, <2>3, <2>4, <2>5
<1>9. CASE k \notin DOMAIN map /\ Cardinality(DOMAIN map) >= MaxDistinctItems
  <2>1. a = RecordError(acc, tooMany)
    BY <1>9, <1>12
  <2>2. acc.error = NoError => ~Fits(more)
    <3> SUFFICES ASSUME acc.error = NoError PROVE ~Fits(more)
      OBVIOUS
    <3>1. DOMAIN map = st.keys
      BY DEF Stocked
    <3>2. Cardinality(more.keys) > MaxDistinctItems
      BY <1>6, <1>9, <3>1, StockType, Limits
    <3>3. Cardinality(more.keys) \in Nat
      BY <1>4, StockType
    <3> QED BY <3>2, <3>3, Limits DEF Fits
  <2> QED BY <1>4, <1>8, <1>9, <2>1, <2>2
<1>10. CASE /\ k \notin DOMAIN map /\ ~(Cardinality(DOMAIN map) >= MaxDistinctItems)
            /\ B + Size[k] > MaxRetainedTokenBytes
  <2>1. a = RecordError(acc, "retained_token_bytes")
    BY <1>10, <1>12
  <2>2. acc.error = NoError => ~Fits(more)
    <3> SUFFICES ASSUME acc.error = NoError PROVE ~Fits(more)
      OBVIOUS
    <3>1. DOMAIN map = st.keys /\ B = Bytes(st)
      BY DEF Stocked
    <3>2. Bytes(more) > MaxRetainedTokenBytes
      BY <1>3, <1>6, <1>10, <3>1, StockType, Limits
    <3> QED BY <1>4, <3>2, StockType, Limits DEF Fits
  <2> QED BY <1>3, <1>4, <1>8, <1>10, <2>1, <2>2
<1>11. CASE /\ k \notin DOMAIN map /\ ~(Cardinality(DOMAIN map) >= MaxDistinctItems)
            /\ ~(B + Size[k] > MaxRetainedTokenBytes)
  <2>1. a = [acc EXCEPT !.keys = With(@, k, new), !.retained_token_bytes = @ + Size[k]]
    BY <1>11, <1>12
  <2>2. /\ a.error = acc.error /\ a.keys = With(map, k, new) /\ a.retained_token_bytes = B + Size[k]
        /\ a.repeated_keys = acc.repeated_keys /\ a.mappings = acc.mappings /\ a.control_keys = acc.control_keys
    BY <2>1 DEF Accumulators
  <2>3. a \in Accumulators /\ KeyOnly(acc, a)
    <3> DEFINE w == With(map, k, new)
    <3> HIDE DEF w
    <3>1. w \in Maps(Token, Nat)
      BY <1>2 DEF w
    <3>2. B + Size[k] \in Nat
      BY <1>1, <1>3
    <3>3. a = [acc EXCEPT !.keys = w, !.retained_token_bytes = B + Size[k]]
      BY <2>1 DEF w, Accumulators
    <3>4. a \in Accumulators
      BY <3>1, <3>2, <3>3, KeyChange
    <3>5. KeyOnly(acc, a)
      BY <3>3 DEF Accumulators, KeyOnly
    <3> QED BY <3>4, <3>5
  <2>4. acc.error = NoError =>
          /\ DOMAIN a.keys = more.keys /\ a.retained_token_bytes = Bytes(more) /\ Fits(more)
    <3> SUFFICES ASSUME acc.error = NoError
                 PROVE  /\ DOMAIN a.keys = more.keys /\ a.retained_token_bytes = Bytes(more) /\ Fits(more)
      OBVIOUS
    <3>1. DOMAIN map = st.keys /\ B = Bytes(st) /\ Fits(st)
      BY DEF Stocked
    <3>2. Cardinality(more.keys) = Cardinality(st.keys) + 1 /\ Bytes(more) = Bytes(st) + Size[k]
      BY <1>6, <1>11, <3>1
    <3>3. Cardinality(more.keys) <= MaxDistinctItems /\ Bytes(more) <= MaxRetainedTokenBytes
      BY <1>3, <1>11, <3>1, <3>2, StockType, Limits
    <3>4. Fits(more)
      BY <1>4, <3>1, <3>3 DEF Fits
    <3>5. DOMAIN a.keys = more.keys
      BY <1>2, <1>4, <2>2, <3>1
    <3> QED BY <1>3, <2>2, <3>1, <3>2, <3>4, <3>5
  <2>5. Stocked(a, more, bad)
    BY <1>4, <1>5, <2>2, <2>4, FitsWithin DEF Stocked
  <2> QED BY <1>2, <1>4, <1>11, <2>2, <2>3, <2>5
<1> QED BY <1>7, <1>9, <1>10, <1>11

(* The cases of a bounded entry, in the order they are tried. *)
RepeatCase(acc, k, bytes, new, tooMany) ==
  IF k \in DOMAIN acc.repeated_keys THEN acc
  ELSE IF Cardinality(DOMAIN acc.repeated_keys) >= MaxDistinctItems THEN RecordError(acc, tooMany)
  ELSE IF acc.retained_token_bytes + bytes > MaxRetainedTokenBytes
  THEN RecordError(acc, "retained_token_bytes")
  ELSE [acc EXCEPT !.repeated_keys = With(@, k, new), !.retained_token_bytes = @ + bytes]

(* A bounded entry of a repeated key, case by case. *)
LEMMA RepeatCases ==
  ASSUME NEW acc \in Accumulators, NEW k, NEW bytes \in Nat, NEW new, NEW tooMany,
         Cardinality(DOMAIN acc.repeated_keys) \in Nat
  PROVE  BoundedEntry(acc, "repeated_keys", k, bytes, new, tooMany) = RepeatCase(acc, k, bytes, new, tooMany)
<1>1. acc.retained_token_bytes \in Nat /\ acc["repeated_keys"] = acc.repeated_keys
  BY DEF Accumulators
<1> DEFINE c == Cardinality(DOMAIN acc.repeated_keys)
<1>2. c \in Nat /\ (c < MaxDistinctItems <=> ~(c >= MaxDistinctItems))
  BY Limits
<1> QED BY <1>1, <1>2, Limits DEF BoundedEntry, Accumulators, RepeatCase

(* What an entry changes has its type. *)
LEMMA RepeatChange ==
  ASSUME NEW acc \in Accumulators, NEW w \in Maps(Token, Numbers), NEW n \in Nat,
         NEW a, a = [acc EXCEPT !.repeated_keys = w, !.retained_token_bytes = n]
  PROVE  a \in Accumulators
BY DEF Accumulators

(* A bounded entry of repeated_keys. *)
RepeatOnly(a, b) ==
  b = [a EXCEPT !.error = b.error, !.retained_token_bytes = b.retained_token_bytes, !.repeated_keys = b.repeated_keys]

(* A repeated key is entered if it fits, as a key is. *)
LEMMA RepeatEntry ==
  ASSUME NEW acc \in Accumulators, NEW st \in Stocks, NEW bad \in BOOLEAN, Stocked(acc, st, bad),
         NEW k \in Token, NEW new \in Numbers, NEW tooMany \in Errors, tooMany # NoError,
         NEW a, a = BoundedEntry(acc, "repeated_keys", k, Size[k], new, tooMany),
         NEW more, more = [st EXCEPT !.repeated_keys = @ \cup {k}]
  PROVE  /\ a \in Accumulators /\ more \in Stocks /\ Stocked(a, more, bad) /\ RepeatOnly(acc, a)
         /\ \/ a.repeated_keys = acc.repeated_keys
            \/ a.repeated_keys = With(acc.repeated_keys, k, new) /\ k \notin DOMAIN acc.repeated_keys
         /\ a.error = NoError => acc.error = NoError /\ k \in DOMAIN a.repeated_keys
         /\ a.error # NoError /\ k \notin DOMAIN a.repeated_keys => a.repeated_keys = acc.repeated_keys
<1> DEFINE map == acc.repeated_keys
           B == acc.retained_token_bytes
<1>1. /\ map \in Maps(Token, Numbers) /\ B \in Nat /\ acc.error \in Errors
  BY DEF Accumulators
<1>2. With(map, k, new) \in Maps(Token, Numbers) /\ DOMAIN With(map, k, new) = DOMAIN map \cup {k}
  BY <1>1, WithMap, WithDomain
<1>3. Size[k] \in Nat /\ Size[k] = Size[k] /\ "retained_token_bytes" \in Errors /\ "retained_token_bytes" # NoError
  BY SizeType, PairSizeType DEF Errors, NoError
<1>4. /\ more \in Stocks /\ more.repeated_keys = st.repeated_keys \cup {k}
      /\ more.keys = st.keys /\ more.mappings = st.mappings /\ more.control_keys = st.control_keys
  BY DEF Stocks
<1>5. Within(st, more)
  BY <1>4 DEF Within
<1>6. k \notin st.repeated_keys =>
        /\ Cardinality(more.repeated_keys) = Cardinality(st.repeated_keys) + 1
        /\ Bytes(more) = Bytes(st) + Size[k]
  <2> SUFFICES ASSUME k \notin st.repeated_keys
               PROVE  /\ Cardinality(more.repeated_keys) = Cardinality(st.repeated_keys) + 1
                      /\ Bytes(more) = Bytes(st) + Size[k]
    OBVIOUS
  <2>1. st.repeated_keys \in SUBSET (Token) /\ IsFiniteSet(st.repeated_keys)
    BY StockType, TokenWeightType
  <2>2. Cardinality(st.repeated_keys \cup {k}) = Cardinality(st.repeated_keys) + 1
    BY <2>1, FS_AddElement
  <2>3. Weight(Size, st.repeated_keys \cup {k}) = Weight(Size, st.repeated_keys) + Size[k]
    BY <2>1, TokenWeight
  <2>4. Size[k] \in Nat
    BY <1>3
  <2> QED BY <1>4, <2>2, <2>3, <2>4, StockType DEF Bytes
<1>12. a = IF k \in DOMAIN map THEN acc
           ELSE IF Cardinality(DOMAIN map) >= MaxDistinctItems THEN RecordError(acc, tooMany)
           ELSE IF B + Size[k] > MaxRetainedTokenBytes THEN RecordError(acc, "retained_token_bytes")
           ELSE [acc EXCEPT !.repeated_keys = With(@, k, new), !.retained_token_bytes = @ + Size[k]]
  <2>1. map = acc["repeated_keys"] /\ Cardinality(DOMAIN map) \in Nat
    BY <1>1, MapType, TokenWeightType
  <2> HIDE DEF map
  <2>2. a = RepeatCase(acc, k, Size[k], new, tooMany)
    BY <1>3, <2>1, RepeatCases DEF map
  <2> QED BY <2>2 DEF map, RepeatCase
<1>7. CASE k \in DOMAIN map
  <2>1. a = acc
    BY <1>7, <1>12
  <2>2. acc.error = NoError => more = st
    <3> SUFFICES ASSUME acc.error = NoError PROVE more = st
      OBVIOUS
    <3>1. k \in st.repeated_keys
      BY <1>7 DEF Stocked
    <3> QED BY <3>1 DEF Stocks
  <2>3. Stocked(a, more, bad)
    BY <1>4, <1>5, <2>1, <2>2, FitsWithin DEF Stocked
  <2>4. RepeatOnly(acc, a)
    BY <2>1 DEF RepeatOnly, Accumulators
  <2> QED BY <1>4, <1>7, <2>1, <2>3, <2>4
<1>8. ASSUME k \notin DOMAIN map, NEW error \in Errors, error # NoError, a = RecordError(acc, error),
             acc.error = NoError => ~Fits(more)
      PROVE  /\ a \in Accumulators /\ Stocked(a, more, bad) /\ RepeatOnly(acc, a)
             /\ a.repeated_keys = acc.repeated_keys /\ a.error # NoError
  <2>1. a \in Accumulators
    BY <1>8, RecordErrorType
  <2>4. a.error # NoError /\ a.repeated_keys = acc.repeated_keys
    BY <1>8 DEF RecordError, Accumulators
  <2>5. RepeatOnly(acc, a)
    BY <1>8 DEF RecordError, Accumulators, RepeatOnly
  <2>2. ~Fits(more) \/ bad
    BY <1>4, <1>5, <1>8, FitsWithin DEF Stocked
  <2>3. Stocked(a, more, bad)
    BY <2>2, <2>4 DEF Stocked
  <2> QED BY <2>1, <2>3, <2>4, <2>5
<1>9. CASE k \notin DOMAIN map /\ Cardinality(DOMAIN map) >= MaxDistinctItems
  <2>1. a = RecordError(acc, tooMany)
    BY <1>9, <1>12
  <2>2. acc.error = NoError => ~Fits(more)
    <3> SUFFICES ASSUME acc.error = NoError PROVE ~Fits(more)
      OBVIOUS
    <3>1. DOMAIN map = st.repeated_keys
      BY DEF Stocked
    <3>2. Cardinality(more.repeated_keys) > MaxDistinctItems
      BY <1>6, <1>9, <3>1, StockType, Limits
    <3>3. Cardinality(more.repeated_keys) \in Nat
      BY <1>4, StockType
    <3> QED BY <3>2, <3>3, Limits DEF Fits
  <2> QED BY <1>4, <1>8, <1>9, <2>1, <2>2
<1>10. CASE /\ k \notin DOMAIN map /\ ~(Cardinality(DOMAIN map) >= MaxDistinctItems)
            /\ B + Size[k] > MaxRetainedTokenBytes
  <2>1. a = RecordError(acc, "retained_token_bytes")
    BY <1>10, <1>12
  <2>2. acc.error = NoError => ~Fits(more)
    <3> SUFFICES ASSUME acc.error = NoError PROVE ~Fits(more)
      OBVIOUS
    <3>1. DOMAIN map = st.repeated_keys /\ B = Bytes(st)
      BY DEF Stocked
    <3>2. Bytes(more) > MaxRetainedTokenBytes
      BY <1>3, <1>6, <1>10, <3>1, StockType, Limits
    <3> QED BY <1>4, <3>2, StockType, Limits DEF Fits
  <2> QED BY <1>3, <1>4, <1>8, <1>10, <2>1, <2>2
<1>11. CASE /\ k \notin DOMAIN map /\ ~(Cardinality(DOMAIN map) >= MaxDistinctItems)
            /\ ~(B + Size[k] > MaxRetainedTokenBytes)
  <2>1. a = [acc EXCEPT !.repeated_keys = With(@, k, new), !.retained_token_bytes = @ + Size[k]]
    BY <1>11, <1>12
  <2>2. /\ a.error = acc.error /\ a.repeated_keys = With(map, k, new) /\ a.retained_token_bytes = B + Size[k]
        /\ a.keys = acc.keys /\ a.mappings = acc.mappings /\ a.control_keys = acc.control_keys
    BY <2>1 DEF Accumulators
  <2>3. a \in Accumulators /\ RepeatOnly(acc, a)
    <3> DEFINE w == With(map, k, new)
    <3> HIDE DEF w
    <3>1. w \in Maps(Token, Numbers)
      BY <1>2 DEF w
    <3>2. B + Size[k] \in Nat
      BY <1>1, <1>3
    <3>3. a = [acc EXCEPT !.repeated_keys = w, !.retained_token_bytes = B + Size[k]]
      BY <2>1 DEF w, Accumulators
    <3>4. a \in Accumulators
      BY <3>1, <3>2, <3>3, RepeatChange
    <3>5. RepeatOnly(acc, a)
      BY <3>3 DEF Accumulators, RepeatOnly
    <3> QED BY <3>4, <3>5
  <2>4. acc.error = NoError =>
          /\ DOMAIN a.repeated_keys = more.repeated_keys /\ a.retained_token_bytes = Bytes(more) /\ Fits(more)
    <3> SUFFICES ASSUME acc.error = NoError
                 PROVE  /\ DOMAIN a.repeated_keys = more.repeated_keys /\ a.retained_token_bytes = Bytes(more) /\ Fits(more)
      OBVIOUS
    <3>1. DOMAIN map = st.repeated_keys /\ B = Bytes(st) /\ Fits(st)
      BY DEF Stocked
    <3>2. Cardinality(more.repeated_keys) = Cardinality(st.repeated_keys) + 1 /\ Bytes(more) = Bytes(st) + Size[k]
      BY <1>6, <1>11, <3>1
    <3>3. Cardinality(more.repeated_keys) <= MaxDistinctItems /\ Bytes(more) <= MaxRetainedTokenBytes
      BY <1>3, <1>11, <3>1, <3>2, StockType, Limits
    <3>4. Fits(more)
      BY <1>4, <3>1, <3>3 DEF Fits
    <3>5. DOMAIN a.repeated_keys = more.repeated_keys
      BY <1>2, <1>4, <2>2, <3>1
    <3> QED BY <1>3, <2>2, <3>1, <3>2, <3>4, <3>5
  <2>5. Stocked(a, more, bad)
    BY <1>4, <1>5, <2>2, <2>4, FitsWithin DEF Stocked
  <2> QED BY <1>2, <1>4, <1>11, <2>2, <2>3, <2>5
<1> QED BY <1>7, <1>9, <1>10, <1>11

(* The cases of a bounded entry, in the order they are tried. *)
MappingCase(acc, k, bytes, new, tooMany) ==
  IF k \in DOMAIN acc.mappings THEN acc
  ELSE IF Cardinality(DOMAIN acc.mappings) >= MaxDistinctItems THEN RecordError(acc, tooMany)
  ELSE IF acc.retained_token_bytes + bytes > MaxRetainedTokenBytes
  THEN RecordError(acc, "retained_token_bytes")
  ELSE [acc EXCEPT !.mappings = With(@, k, new), !.retained_token_bytes = @ + bytes]

(* A bounded entry of a mapping ID, case by case. *)
LEMMA MappingCases ==
  ASSUME NEW acc \in Accumulators, NEW k, NEW bytes \in Nat, NEW new, NEW tooMany,
         Cardinality(DOMAIN acc.mappings) \in Nat
  PROVE  BoundedEntry(acc, "mappings", k, bytes, new, tooMany) = MappingCase(acc, k, bytes, new, tooMany)
<1>1. acc.retained_token_bytes \in Nat /\ acc["mappings"] = acc.mappings
  BY DEF Accumulators
<1> DEFINE c == Cardinality(DOMAIN acc.mappings)
<1>2. c \in Nat /\ (c < MaxDistinctItems <=> ~(c >= MaxDistinctItems))
  BY Limits
<1> QED BY <1>1, <1>2, Limits DEF BoundedEntry, Accumulators, MappingCase

(* What an entry changes has its type. *)
LEMMA MappingChange ==
  ASSUME NEW acc \in Accumulators, NEW w \in Maps(Token, Nat), NEW n \in Nat,
         NEW a, a = [acc EXCEPT !.mappings = w, !.retained_token_bytes = n]
  PROVE  a \in Accumulators
BY DEF Accumulators

(* A bounded entry of mappings. *)
MappingOnly(a, b) ==
  b = [a EXCEPT !.error = b.error, !.retained_token_bytes = b.retained_token_bytes, !.mappings = b.mappings]

(* A mapping ID is entered if it fits, as a key is. *)
LEMMA MappingEntry ==
  ASSUME NEW acc \in Accumulators, NEW st \in Stocks, NEW bad \in BOOLEAN, Stocked(acc, st, bad),
         NEW k \in Token, NEW new \in Nat, NEW tooMany \in Errors, tooMany # NoError,
         NEW a, a = BoundedEntry(acc, "mappings", k, Size[k], new, tooMany),
         NEW more, more = [st EXCEPT !.mappings = @ \cup {k}]
  PROVE  /\ a \in Accumulators /\ more \in Stocks /\ Stocked(a, more, bad) /\ MappingOnly(acc, a)
         /\ \/ a.mappings = acc.mappings
            \/ a.mappings = With(acc.mappings, k, new) /\ k \notin DOMAIN acc.mappings
         /\ a.error = NoError => acc.error = NoError /\ k \in DOMAIN a.mappings
         /\ a.error # NoError /\ k \notin DOMAIN a.mappings => a.mappings = acc.mappings
<1> DEFINE map == acc.mappings
           B == acc.retained_token_bytes
<1>1. /\ map \in Maps(Token, Nat) /\ B \in Nat /\ acc.error \in Errors
  BY DEF Accumulators
<1>2. With(map, k, new) \in Maps(Token, Nat) /\ DOMAIN With(map, k, new) = DOMAIN map \cup {k}
  BY <1>1, WithMap, WithDomain
<1>3. Size[k] \in Nat /\ Size[k] = Size[k] /\ "retained_token_bytes" \in Errors /\ "retained_token_bytes" # NoError
  BY SizeType, PairSizeType DEF Errors, NoError
<1>4. /\ more \in Stocks /\ more.mappings = st.mappings \cup {k}
      /\ more.keys = st.keys /\ more.repeated_keys = st.repeated_keys /\ more.control_keys = st.control_keys
  BY DEF Stocks
<1>5. Within(st, more)
  BY <1>4 DEF Within
<1>6. k \notin st.mappings =>
        /\ Cardinality(more.mappings) = Cardinality(st.mappings) + 1
        /\ Bytes(more) = Bytes(st) + Size[k]
  <2> SUFFICES ASSUME k \notin st.mappings
               PROVE  /\ Cardinality(more.mappings) = Cardinality(st.mappings) + 1
                      /\ Bytes(more) = Bytes(st) + Size[k]
    OBVIOUS
  <2>1. st.mappings \in SUBSET (Token) /\ IsFiniteSet(st.mappings)
    BY StockType, TokenWeightType
  <2>2. Cardinality(st.mappings \cup {k}) = Cardinality(st.mappings) + 1
    BY <2>1, FS_AddElement
  <2>3. Weight(Size, st.mappings \cup {k}) = Weight(Size, st.mappings) + Size[k]
    BY <2>1, TokenWeight
  <2>4. Size[k] \in Nat
    BY <1>3
  <2> QED BY <1>4, <2>2, <2>3, <2>4, StockType DEF Bytes
<1>12. a = IF k \in DOMAIN map THEN acc
           ELSE IF Cardinality(DOMAIN map) >= MaxDistinctItems THEN RecordError(acc, tooMany)
           ELSE IF B + Size[k] > MaxRetainedTokenBytes THEN RecordError(acc, "retained_token_bytes")
           ELSE [acc EXCEPT !.mappings = With(@, k, new), !.retained_token_bytes = @ + Size[k]]
  <2>1. map = acc["mappings"] /\ Cardinality(DOMAIN map) \in Nat
    BY <1>1, MapType, TokenWeightType
  <2> HIDE DEF map
  <2>2. a = MappingCase(acc, k, Size[k], new, tooMany)
    BY <1>3, <2>1, MappingCases DEF map
  <2> QED BY <2>2 DEF map, MappingCase
<1>7. CASE k \in DOMAIN map
  <2>1. a = acc
    BY <1>7, <1>12
  <2>2. acc.error = NoError => more = st
    <3> SUFFICES ASSUME acc.error = NoError PROVE more = st
      OBVIOUS
    <3>1. k \in st.mappings
      BY <1>7 DEF Stocked
    <3> QED BY <3>1 DEF Stocks
  <2>3. Stocked(a, more, bad)
    BY <1>4, <1>5, <2>1, <2>2, FitsWithin DEF Stocked
  <2>4. MappingOnly(acc, a)
    BY <2>1 DEF MappingOnly, Accumulators
  <2> QED BY <1>4, <1>7, <2>1, <2>3, <2>4
<1>8. ASSUME k \notin DOMAIN map, NEW error \in Errors, error # NoError, a = RecordError(acc, error),
             acc.error = NoError => ~Fits(more)
      PROVE  /\ a \in Accumulators /\ Stocked(a, more, bad) /\ MappingOnly(acc, a)
             /\ a.mappings = acc.mappings /\ a.error # NoError
  <2>1. a \in Accumulators
    BY <1>8, RecordErrorType
  <2>4. a.error # NoError /\ a.mappings = acc.mappings
    BY <1>8 DEF RecordError, Accumulators
  <2>5. MappingOnly(acc, a)
    BY <1>8 DEF RecordError, Accumulators, MappingOnly
  <2>2. ~Fits(more) \/ bad
    BY <1>4, <1>5, <1>8, FitsWithin DEF Stocked
  <2>3. Stocked(a, more, bad)
    BY <2>2, <2>4 DEF Stocked
  <2> QED BY <2>1, <2>3, <2>4, <2>5
<1>9. CASE k \notin DOMAIN map /\ Cardinality(DOMAIN map) >= MaxDistinctItems
  <2>1. a = RecordError(acc, tooMany)
    BY <1>9, <1>12
  <2>2. acc.error = NoError => ~Fits(more)
    <3> SUFFICES ASSUME acc.error = NoError PROVE ~Fits(more)
      OBVIOUS
    <3>1. DOMAIN map = st.mappings
      BY DEF Stocked
    <3>2. Cardinality(more.mappings) > MaxDistinctItems
      BY <1>6, <1>9, <3>1, StockType, Limits
    <3>3. Cardinality(more.mappings) \in Nat
      BY <1>4, StockType
    <3> QED BY <3>2, <3>3, Limits DEF Fits
  <2> QED BY <1>4, <1>8, <1>9, <2>1, <2>2
<1>10. CASE /\ k \notin DOMAIN map /\ ~(Cardinality(DOMAIN map) >= MaxDistinctItems)
            /\ B + Size[k] > MaxRetainedTokenBytes
  <2>1. a = RecordError(acc, "retained_token_bytes")
    BY <1>10, <1>12
  <2>2. acc.error = NoError => ~Fits(more)
    <3> SUFFICES ASSUME acc.error = NoError PROVE ~Fits(more)
      OBVIOUS
    <3>1. DOMAIN map = st.mappings /\ B = Bytes(st)
      BY DEF Stocked
    <3>2. Bytes(more) > MaxRetainedTokenBytes
      BY <1>3, <1>6, <1>10, <3>1, StockType, Limits
    <3> QED BY <1>4, <3>2, StockType, Limits DEF Fits
  <2> QED BY <1>3, <1>4, <1>8, <1>10, <2>1, <2>2
<1>11. CASE /\ k \notin DOMAIN map /\ ~(Cardinality(DOMAIN map) >= MaxDistinctItems)
            /\ ~(B + Size[k] > MaxRetainedTokenBytes)
  <2>1. a = [acc EXCEPT !.mappings = With(@, k, new), !.retained_token_bytes = @ + Size[k]]
    BY <1>11, <1>12
  <2>2. /\ a.error = acc.error /\ a.mappings = With(map, k, new) /\ a.retained_token_bytes = B + Size[k]
        /\ a.keys = acc.keys /\ a.repeated_keys = acc.repeated_keys /\ a.control_keys = acc.control_keys
    BY <2>1 DEF Accumulators
  <2>3. a \in Accumulators /\ MappingOnly(acc, a)
    <3> DEFINE w == With(map, k, new)
    <3> HIDE DEF w
    <3>1. w \in Maps(Token, Nat)
      BY <1>2 DEF w
    <3>2. B + Size[k] \in Nat
      BY <1>1, <1>3
    <3>3. a = [acc EXCEPT !.mappings = w, !.retained_token_bytes = B + Size[k]]
      BY <2>1 DEF w, Accumulators
    <3>4. a \in Accumulators
      BY <3>1, <3>2, <3>3, MappingChange
    <3>5. MappingOnly(acc, a)
      BY <3>3 DEF Accumulators, MappingOnly
    <3> QED BY <3>4, <3>5
  <2>4. acc.error = NoError =>
          /\ DOMAIN a.mappings = more.mappings /\ a.retained_token_bytes = Bytes(more) /\ Fits(more)
    <3> SUFFICES ASSUME acc.error = NoError
                 PROVE  /\ DOMAIN a.mappings = more.mappings /\ a.retained_token_bytes = Bytes(more) /\ Fits(more)
      OBVIOUS
    <3>1. DOMAIN map = st.mappings /\ B = Bytes(st) /\ Fits(st)
      BY DEF Stocked
    <3>2. Cardinality(more.mappings) = Cardinality(st.mappings) + 1 /\ Bytes(more) = Bytes(st) + Size[k]
      BY <1>6, <1>11, <3>1
    <3>3. Cardinality(more.mappings) <= MaxDistinctItems /\ Bytes(more) <= MaxRetainedTokenBytes
      BY <1>3, <1>11, <3>1, <3>2, StockType, Limits
    <3>4. Fits(more)
      BY <1>4, <3>1, <3>3 DEF Fits
    <3>5. DOMAIN a.mappings = more.mappings
      BY <1>2, <1>4, <2>2, <3>1
    <3> QED BY <1>3, <2>2, <3>1, <3>2, <3>4, <3>5
  <2>5. Stocked(a, more, bad)
    BY <1>4, <1>5, <2>2, <2>4, FitsWithin DEF Stocked
  <2> QED BY <1>2, <1>4, <1>11, <2>2, <2>3, <2>5
<1> QED BY <1>7, <1>9, <1>10, <1>11

(* The cases of a bounded entry, in the order they are tried. *)
ControlCase(acc, k, bytes, new, tooMany) ==
  IF k \in DOMAIN acc.control_keys THEN acc
  ELSE IF Cardinality(DOMAIN acc.control_keys) >= MaxDistinctItems THEN RecordError(acc, tooMany)
  ELSE IF acc.retained_token_bytes + bytes > MaxRetainedTokenBytes
  THEN RecordError(acc, "retained_token_bytes")
  ELSE [acc EXCEPT !.control_keys = With(@, k, new), !.retained_token_bytes = @ + bytes]

(* A bounded entry of a control key, case by case. *)
LEMMA ControlCases ==
  ASSUME NEW acc \in Accumulators, NEW k, NEW bytes \in Nat, NEW new, NEW tooMany,
         Cardinality(DOMAIN acc.control_keys) \in Nat
  PROVE  BoundedEntry(acc, "control_keys", k, bytes, new, tooMany) = ControlCase(acc, k, bytes, new, tooMany)
<1>1. acc.retained_token_bytes \in Nat /\ acc["control_keys"] = acc.control_keys
  BY DEF Accumulators
<1> DEFINE c == Cardinality(DOMAIN acc.control_keys)
<1>2. c \in Nat /\ (c < MaxDistinctItems <=> ~(c >= MaxDistinctItems))
  BY Limits
<1> QED BY <1>1, <1>2, Limits DEF BoundedEntry, Accumulators, ControlCase

(* What an entry changes has its type. *)
LEMMA ControlChange ==
  ASSUME NEW acc \in Accumulators, NEW w \in Maps(TextModes \X Token, Nat), NEW n \in Nat,
         NEW a, a = [acc EXCEPT !.control_keys = w, !.retained_token_bytes = n]
  PROVE  a \in Accumulators
BY DEF Accumulators

(* A bounded entry of control_keys. *)
ControlOnly(a, b) ==
  b = [a EXCEPT !.error = b.error, !.retained_token_bytes = b.retained_token_bytes, !.control_keys = b.control_keys]

(* A control key is entered if it fits, as a key is. *)
LEMMA ControlEntry ==
  ASSUME NEW acc \in Accumulators, NEW st \in Stocks, NEW bad \in BOOLEAN, Stocked(acc, st, bad),
         NEW k \in TextModes \X Token, NEW new \in Nat, NEW tooMany \in Errors, tooMany # NoError,
         NEW a, a = BoundedEntry(acc, "control_keys", k, (Size[k[1]] + Size[k[2]]), new, tooMany),
         NEW more, more = [st EXCEPT !.control_keys = @ \cup {k}]
  PROVE  /\ a \in Accumulators /\ more \in Stocks /\ Stocked(a, more, bad) /\ ControlOnly(acc, a)
         /\ \/ a.control_keys = acc.control_keys
            \/ a.control_keys = With(acc.control_keys, k, new) /\ k \notin DOMAIN acc.control_keys
         /\ a.error = NoError => acc.error = NoError /\ k \in DOMAIN a.control_keys
         /\ a.error # NoError /\ k \notin DOMAIN a.control_keys => a.control_keys = acc.control_keys
<1> DEFINE map == acc.control_keys
           B == acc.retained_token_bytes
<1>1. /\ map \in Maps(TextModes \X Token, Nat) /\ B \in Nat /\ acc.error \in Errors
  BY DEF Accumulators
<1>2. With(map, k, new) \in Maps(TextModes \X Token, Nat) /\ DOMAIN With(map, k, new) = DOMAIN map \cup {k}
  BY <1>1, WithMap, WithDomain
<1>3. (Size[k[1]] + Size[k[2]]) \in Nat /\ (Size[k[1]] + Size[k[2]]) = PairSize[k] /\ "retained_token_bytes" \in Errors /\ "retained_token_bytes" # NoError
  BY SizeType, PairSizeType DEF Errors, NoError
<1>4. /\ more \in Stocks /\ more.control_keys = st.control_keys \cup {k}
      /\ more.keys = st.keys /\ more.repeated_keys = st.repeated_keys /\ more.mappings = st.mappings
  BY DEF Stocks
<1>5. Within(st, more)
  BY <1>4 DEF Within
<1>6. k \notin st.control_keys =>
        /\ Cardinality(more.control_keys) = Cardinality(st.control_keys) + 1
        /\ Bytes(more) = Bytes(st) + PairSize[k]
  <2> SUFFICES ASSUME k \notin st.control_keys
               PROVE  /\ Cardinality(more.control_keys) = Cardinality(st.control_keys) + 1
                      /\ Bytes(more) = Bytes(st) + PairSize[k]
    OBVIOUS
  <2>1. st.control_keys \in SUBSET (TextModes \X Token) /\ IsFiniteSet(st.control_keys)
    BY StockType, PairWeightType
  <2>2. Cardinality(st.control_keys \cup {k}) = Cardinality(st.control_keys) + 1
    BY <2>1, FS_AddElement
  <2>3. Weight(PairSize, st.control_keys \cup {k}) = Weight(PairSize, st.control_keys) + PairSize[k]
    BY <2>1, PairWeight
  <2>4. PairSize[k] \in Nat
    BY <1>3
  <2> QED BY <1>4, <2>2, <2>3, <2>4, StockType DEF Bytes
<1>12. a = IF k \in DOMAIN map THEN acc
           ELSE IF Cardinality(DOMAIN map) >= MaxDistinctItems THEN RecordError(acc, tooMany)
           ELSE IF B + (Size[k[1]] + Size[k[2]]) > MaxRetainedTokenBytes THEN RecordError(acc, "retained_token_bytes")
           ELSE [acc EXCEPT !.control_keys = With(@, k, new), !.retained_token_bytes = @ + (Size[k[1]] + Size[k[2]])]
  <2>1. map = acc["control_keys"] /\ Cardinality(DOMAIN map) \in Nat
    BY <1>1, MapType, PairWeightType
  <2> HIDE DEF map
  <2>2. a = ControlCase(acc, k, (Size[k[1]] + Size[k[2]]), new, tooMany)
    BY <1>3, <2>1, ControlCases DEF map
  <2> QED BY <2>2 DEF map, ControlCase
<1>7. CASE k \in DOMAIN map
  <2>1. a = acc
    BY <1>7, <1>12
  <2>2. acc.error = NoError => more = st
    <3> SUFFICES ASSUME acc.error = NoError PROVE more = st
      OBVIOUS
    <3>1. k \in st.control_keys
      BY <1>7 DEF Stocked
    <3> QED BY <3>1 DEF Stocks
  <2>3. Stocked(a, more, bad)
    BY <1>4, <1>5, <2>1, <2>2, FitsWithin DEF Stocked
  <2>4. ControlOnly(acc, a)
    BY <2>1 DEF ControlOnly, Accumulators
  <2> QED BY <1>4, <1>7, <2>1, <2>3, <2>4
<1>8. ASSUME k \notin DOMAIN map, NEW error \in Errors, error # NoError, a = RecordError(acc, error),
             acc.error = NoError => ~Fits(more)
      PROVE  /\ a \in Accumulators /\ Stocked(a, more, bad) /\ ControlOnly(acc, a)
             /\ a.control_keys = acc.control_keys /\ a.error # NoError
  <2>1. a \in Accumulators
    BY <1>8, RecordErrorType
  <2>4. a.error # NoError /\ a.control_keys = acc.control_keys
    BY <1>8 DEF RecordError, Accumulators
  <2>5. ControlOnly(acc, a)
    BY <1>8 DEF RecordError, Accumulators, ControlOnly
  <2>2. ~Fits(more) \/ bad
    BY <1>4, <1>5, <1>8, FitsWithin DEF Stocked
  <2>3. Stocked(a, more, bad)
    BY <2>2, <2>4 DEF Stocked
  <2> QED BY <2>1, <2>3, <2>4, <2>5
<1>9. CASE k \notin DOMAIN map /\ Cardinality(DOMAIN map) >= MaxDistinctItems
  <2>1. a = RecordError(acc, tooMany)
    BY <1>9, <1>12
  <2>2. acc.error = NoError => ~Fits(more)
    <3> SUFFICES ASSUME acc.error = NoError PROVE ~Fits(more)
      OBVIOUS
    <3>1. DOMAIN map = st.control_keys
      BY DEF Stocked
    <3>2. Cardinality(more.control_keys) > MaxDistinctItems
      BY <1>6, <1>9, <3>1, StockType, Limits
    <3>3. Cardinality(more.control_keys) \in Nat
      BY <1>4, StockType
    <3> QED BY <3>2, <3>3, Limits DEF Fits
  <2> QED BY <1>4, <1>8, <1>9, <2>1, <2>2
<1>10. CASE /\ k \notin DOMAIN map /\ ~(Cardinality(DOMAIN map) >= MaxDistinctItems)
            /\ B + (Size[k[1]] + Size[k[2]]) > MaxRetainedTokenBytes
  <2>1. a = RecordError(acc, "retained_token_bytes")
    BY <1>10, <1>12
  <2>2. acc.error = NoError => ~Fits(more)
    <3> SUFFICES ASSUME acc.error = NoError PROVE ~Fits(more)
      OBVIOUS
    <3>1. DOMAIN map = st.control_keys /\ B = Bytes(st)
      BY DEF Stocked
    <3>2. Bytes(more) > MaxRetainedTokenBytes
      BY <1>3, <1>6, <1>10, <3>1, StockType, Limits
    <3> QED BY <1>4, <3>2, StockType, Limits DEF Fits
  <2> QED BY <1>3, <1>4, <1>8, <1>10, <2>1, <2>2
<1>11. CASE /\ k \notin DOMAIN map /\ ~(Cardinality(DOMAIN map) >= MaxDistinctItems)
            /\ ~(B + (Size[k[1]] + Size[k[2]]) > MaxRetainedTokenBytes)
  <2>1. a = [acc EXCEPT !.control_keys = With(@, k, new), !.retained_token_bytes = @ + (Size[k[1]] + Size[k[2]])]
    BY <1>11, <1>12
  <2>2. /\ a.error = acc.error /\ a.control_keys = With(map, k, new) /\ a.retained_token_bytes = B + (Size[k[1]] + Size[k[2]])
        /\ a.keys = acc.keys /\ a.repeated_keys = acc.repeated_keys /\ a.mappings = acc.mappings
    BY <2>1 DEF Accumulators
  <2>3. a \in Accumulators /\ ControlOnly(acc, a)
    <3> DEFINE w == With(map, k, new)
    <3> HIDE DEF w
    <3>1. w \in Maps(TextModes \X Token, Nat)
      BY <1>2 DEF w
    <3>2. B + (Size[k[1]] + Size[k[2]]) \in Nat
      BY <1>1, <1>3
    <3>3. a = [acc EXCEPT !.control_keys = w, !.retained_token_bytes = B + (Size[k[1]] + Size[k[2]])]
      BY <2>1 DEF w, Accumulators
    <3>4. a \in Accumulators
      BY <3>1, <3>2, <3>3, ControlChange
    <3>5. ControlOnly(acc, a)
      BY <3>3 DEF Accumulators, ControlOnly
    <3> QED BY <3>4, <3>5
  <2>4. acc.error = NoError =>
          /\ DOMAIN a.control_keys = more.control_keys /\ a.retained_token_bytes = Bytes(more) /\ Fits(more)
    <3> SUFFICES ASSUME acc.error = NoError
                 PROVE  /\ DOMAIN a.control_keys = more.control_keys /\ a.retained_token_bytes = Bytes(more) /\ Fits(more)
      OBVIOUS
    <3>1. DOMAIN map = st.control_keys /\ B = Bytes(st) /\ Fits(st)
      BY DEF Stocked
    <3>2. Cardinality(more.control_keys) = Cardinality(st.control_keys) + 1 /\ Bytes(more) = Bytes(st) + PairSize[k]
      BY <1>6, <1>11, <3>1
    <3>3. Cardinality(more.control_keys) <= MaxDistinctItems /\ Bytes(more) <= MaxRetainedTokenBytes
      BY <1>3, <1>11, <3>1, <3>2, StockType, Limits
    <3>4. Fits(more)
      BY <1>4, <3>1, <3>3 DEF Fits
    <3>5. DOMAIN a.control_keys = more.control_keys
      BY <1>2, <1>4, <2>2, <3>1
    <3> QED BY <1>3, <2>2, <3>1, <3>2, <3>4, <3>5
  <2>5. Stocked(a, more, bad)
    BY <1>4, <1>5, <2>2, <2>4, FitsWithin DEF Stocked
  <2> QED BY <1>2, <1>4, <1>11, <2>2, <2>3, <2>5
<1> QED BY <1>7, <1>9, <1>10, <1>11

-----------------------------------------------------------------------------
(* Counting in a bounded map. *)
(* What counting an item, or a run of presses, does to a map. *)
Incremented(f, g, k, n) == \A j : CountOf(g, j) = IF j = k THEN CountOf(f, j) + n ELSE CountOf(f, j)
Added(f, g, k, n) ==
  \A j : PairOf(g, j) = IF j = k THEN <<PairOf(f, j)[1] + 1, PairOf(f, j)[2] + n>> ELSE PairOf(f, j)

(* A new entry of 0 counts nothing. *)
LEMMA NewCount ==
  ASSUME NEW f, NEW k, k \notin DOMAIN f, NEW j
  PROVE  CountOf(With(f, k, 0), j) = CountOf(f, j)
BY DEF With, CountOf

(* A new entry of no runs counts nothing. *)
LEMMA NewPair ==
  ASSUME NEW f, NEW k, k \notin DOMAIN f, NEW j
  PROVE  PairOf(With(f, k, <<0, 0>>), j) = PairOf(f, j)
BY DEF With, PairOf

(* An entry that grows counts for its key only. *)
LEMMA UpdateCount ==
  ASSUME NEW f, NEW k \in DOMAIN f, NEW n, NEW j
  PROVE  CountOf([f EXCEPT ![k] = @ + n], j) = IF j = k THEN CountOf(f, j) + n ELSE CountOf(f, j)
BY DEF CountOf

(* A key counted. *)
LEMMA KeyChanged ==
  ASSUME NEW acc \in Accumulators, NEW w \in Maps(Token, Nat), NEW a, a = [acc EXCEPT !.keys = w]
  PROVE  a \in Accumulators /\ KeyOnly(acc, a)
<1>1. a \in Accumulators
  BY DEF Accumulators
<1>2. KeyOnly(acc, a)
  BY DEF Accumulators, KeyOnly
<1> QED BY <1>1, <1>2

(* Two changes to the keys are one. *)
LEMMA KeyOnlyTwice ==
  ASSUME NEW a \in Accumulators, NEW b \in Accumulators, NEW c \in Accumulators, KeyOnly(a, b), KeyOnly(b, c)
  PROVE  KeyOnly(a, c)
BY DEF Accumulators, KeyOnly

(* Counting a key keeps the stock and, without an error, adds to its count. *)
LEMMA KeyIncrement ==
  ASSUME NEW acc \in Accumulators, NEW st \in Stocks, NEW bad \in BOOLEAN, Stocked(acc, st, bad),
         NEW k \in Token, NEW n \in Nat, NEW tooMany \in Errors, tooMany # NoError,
         NEW b, b = IncrementBounded(acc, "keys", k, Size[k], n, tooMany),
         NEW more, more = [st EXCEPT !.keys = @ \cup {k}]
  PROVE  /\ b \in Accumulators /\ more \in Stocks /\ Stocked(b, more, bad) /\ KeyOnly(acc, b)
         /\ b.error = NoError =>
              /\ acc.error = NoError
              /\ Incremented(acc.keys, b.keys, k, n)
<1> DEFINE a == BoundedEntry(acc, "keys", k, Size[k], 0, tooMany)
           w == [a.keys EXCEPT ![k] = @ + n]
<1>1. /\ a \in Accumulators /\ more \in Stocks /\ Stocked(a, more, bad) /\ KeyOnly(acc, a)
      /\ \/ a.keys = acc.keys
         \/ a.keys = With(acc.keys, k, 0) /\ k \notin DOMAIN acc.keys
      /\ a.error = NoError => acc.error = NoError /\ k \in DOMAIN a.keys
  BY KeyEntry
<1>2. b = IF k \in DOMAIN a.keys THEN [a EXCEPT !.keys = w] ELSE a
  BY <1>1 DEF IncrementBounded, Accumulators
<1>3. \A j : CountOf(a.keys, j) = CountOf(acc.keys, j)
  BY <1>1, NewCount
<1>4. a.keys \in Maps(Token, Nat)
  BY <1>1 DEF Accumulators
<1> HIDE DEF a
<1>5. CASE k \in DOMAIN a.keys
  <2>1. a.keys[k] \in Nat
    BY <1>4, <1>5, MapType
  <2>2. w \in Maps(Token, Nat) /\ DOMAIN w = DOMAIN a.keys
    BY <1>4, <1>5, <2>1, UpdateMap
  <2>3. \A j : CountOf(w, j) = IF j = k THEN CountOf(a.keys, j) + n ELSE CountOf(a.keys, j)
    BY <1>5, UpdateCount
  <2> HIDE DEF w
  <2>4. b = [a EXCEPT !.keys = w]
    BY <1>2, <1>5
  <2>5. b \in Accumulators /\ KeyOnly(a, b)
    BY <1>1, <2>2, <2>4, KeyChanged
  <2>6. KeyOnly(acc, b)
    BY <1>1, <2>5, KeyOnlyTwice
  <2>7. /\ b.error = a.error /\ b.keys = w /\ b.retained_token_bytes = a.retained_token_bytes
        /\ b.keys = a.keys \/ DOMAIN b.keys = DOMAIN a.keys
        /\ b.repeated_keys = a.repeated_keys \/ DOMAIN b.repeated_keys = DOMAIN a.repeated_keys
        /\ b.mappings = a.mappings \/ DOMAIN b.mappings = DOMAIN a.mappings
        /\ b.control_keys = a.control_keys \/ DOMAIN b.control_keys = DOMAIN a.control_keys
    BY <1>1, <2>2, <2>4 DEF Accumulators
  <2>8. Stocked(b, more, bad)
    BY <1>1, <2>7 DEF Stocked
  <2> QED BY <1>1, <1>3, <2>3, <2>5, <2>6, <2>7, <2>8 DEF Incremented
<1>6. CASE k \notin DOMAIN a.keys
  <2>1. b = a
    BY <1>2, <1>6
  <2> QED BY <1>1, <1>6, <2>1
<1> QED BY <1>5, <1>6

(* A mapping counted. *)
LEMMA MappingChanged ==
  ASSUME NEW acc \in Accumulators, NEW w \in Maps(Token, Nat), NEW a, a = [acc EXCEPT !.mappings = w]
  PROVE  a \in Accumulators /\ MappingOnly(acc, a)
<1>1. a \in Accumulators
  BY DEF Accumulators
<1>2. MappingOnly(acc, a)
  BY DEF Accumulators, MappingOnly
<1> QED BY <1>1, <1>2

(* Two changes to the mappings are one. *)
LEMMA MappingOnlyTwice ==
  ASSUME NEW a \in Accumulators, NEW b \in Accumulators, NEW c \in Accumulators, MappingOnly(a, b), MappingOnly(b, c)
  PROVE  MappingOnly(a, c)
BY DEF Accumulators, MappingOnly

(* Counting a mapping keeps the stock and, without an error, adds to its
   count. *)
LEMMA MappingIncrement ==
  ASSUME NEW acc \in Accumulators, NEW st \in Stocks, NEW bad \in BOOLEAN, Stocked(acc, st, bad),
         NEW k \in Token, NEW n \in Nat, NEW tooMany \in Errors, tooMany # NoError,
         NEW b, b = IncrementBounded(acc, "mappings", k, Size[k], n, tooMany),
         NEW more, more = [st EXCEPT !.mappings = @ \cup {k}]
  PROVE  /\ b \in Accumulators /\ more \in Stocks /\ Stocked(b, more, bad) /\ MappingOnly(acc, b)
         /\ b.error = NoError =>
              /\ acc.error = NoError
              /\ Incremented(acc.mappings, b.mappings, k, n)
<1> DEFINE a == BoundedEntry(acc, "mappings", k, Size[k], 0, tooMany)
           w == [a.mappings EXCEPT ![k] = @ + n]
<1>1. /\ a \in Accumulators /\ more \in Stocks /\ Stocked(a, more, bad) /\ MappingOnly(acc, a)
      /\ \/ a.mappings = acc.mappings
         \/ a.mappings = With(acc.mappings, k, 0) /\ k \notin DOMAIN acc.mappings
      /\ a.error = NoError => acc.error = NoError /\ k \in DOMAIN a.mappings
  BY MappingEntry
<1>2. b = IF k \in DOMAIN a.mappings THEN [a EXCEPT !.mappings = w] ELSE a
  BY <1>1 DEF IncrementBounded, Accumulators
<1>3. \A j : CountOf(a.mappings, j) = CountOf(acc.mappings, j)
  BY <1>1, NewCount
<1>4. a.mappings \in Maps(Token, Nat)
  BY <1>1 DEF Accumulators
<1> HIDE DEF a
<1>5. CASE k \in DOMAIN a.mappings
  <2>1. a.mappings[k] \in Nat
    BY <1>4, <1>5, MapType
  <2>2. w \in Maps(Token, Nat) /\ DOMAIN w = DOMAIN a.mappings
    BY <1>4, <1>5, <2>1, UpdateMap
  <2>3. \A j : CountOf(w, j) = IF j = k THEN CountOf(a.mappings, j) + n ELSE CountOf(a.mappings, j)
    BY <1>5, UpdateCount
  <2> HIDE DEF w
  <2>4. b = [a EXCEPT !.mappings = w]
    BY <1>2, <1>5
  <2>5. b \in Accumulators /\ MappingOnly(a, b)
    BY <1>1, <2>2, <2>4, MappingChanged
  <2>6. MappingOnly(acc, b)
    BY <1>1, <2>5, MappingOnlyTwice
  <2>7. /\ b.error = a.error /\ b.mappings = w /\ b.retained_token_bytes = a.retained_token_bytes
        /\ b.keys = a.keys \/ DOMAIN b.keys = DOMAIN a.keys
        /\ b.repeated_keys = a.repeated_keys \/ DOMAIN b.repeated_keys = DOMAIN a.repeated_keys
        /\ b.mappings = a.mappings \/ DOMAIN b.mappings = DOMAIN a.mappings
        /\ b.control_keys = a.control_keys \/ DOMAIN b.control_keys = DOMAIN a.control_keys
    BY <1>1, <2>2, <2>4 DEF Accumulators
  <2>8. Stocked(b, more, bad)
    BY <1>1, <2>7 DEF Stocked
  <2> QED BY <1>1, <1>3, <2>3, <2>5, <2>6, <2>7, <2>8 DEF Incremented
<1>6. CASE k \notin DOMAIN a.mappings
  <2>1. b = a
    BY <1>2, <1>6
  <2> QED BY <1>1, <1>6, <2>1
<1> QED BY <1>5, <1>6

(* A control key counted. *)
LEMMA ControlChanged ==
  ASSUME NEW acc \in Accumulators, NEW w \in Maps(TextModes \X Token, Nat), NEW a, a = [acc EXCEPT !.control_keys = w]
  PROVE  a \in Accumulators /\ ControlOnly(acc, a)
<1>1. a \in Accumulators
  BY DEF Accumulators
<1>2. ControlOnly(acc, a)
  BY DEF Accumulators, ControlOnly
<1> QED BY <1>1, <1>2

(* Two changes to the control keys are one. *)
LEMMA ControlOnlyTwice ==
  ASSUME NEW a \in Accumulators, NEW b \in Accumulators, NEW c \in Accumulators, ControlOnly(a, b), ControlOnly(b, c)
  PROVE  ControlOnly(a, c)
BY DEF Accumulators, ControlOnly

(* Counting a control key keeps the stock and, without an error, adds to
   its count. *)
LEMMA ControlIncrement ==
  ASSUME NEW acc \in Accumulators, NEW st \in Stocks, NEW bad \in BOOLEAN, Stocked(acc, st, bad),
         NEW k \in TextModes \X Token, NEW n \in Nat, NEW tooMany \in Errors, tooMany # NoError,
         NEW b, b = IncrementBounded(acc, "control_keys", k, (Size[k[1]] + Size[k[2]]), n, tooMany),
         NEW more, more = [st EXCEPT !.control_keys = @ \cup {k}]
  PROVE  /\ b \in Accumulators /\ more \in Stocks /\ Stocked(b, more, bad) /\ ControlOnly(acc, b)
         /\ b.error = NoError =>
              /\ acc.error = NoError
              /\ Incremented(acc.control_keys, b.control_keys, k, n)
<1> DEFINE a == BoundedEntry(acc, "control_keys", k, (Size[k[1]] + Size[k[2]]), 0, tooMany)
           w == [a.control_keys EXCEPT ![k] = @ + n]
<1>1. /\ a \in Accumulators /\ more \in Stocks /\ Stocked(a, more, bad) /\ ControlOnly(acc, a)
      /\ \/ a.control_keys = acc.control_keys
         \/ a.control_keys = With(acc.control_keys, k, 0) /\ k \notin DOMAIN acc.control_keys
      /\ a.error = NoError => acc.error = NoError /\ k \in DOMAIN a.control_keys
  BY ControlEntry
<1>2. b = IF k \in DOMAIN a.control_keys THEN [a EXCEPT !.control_keys = w] ELSE a
  BY <1>1 DEF IncrementBounded, Accumulators
<1>3. \A j : CountOf(a.control_keys, j) = CountOf(acc.control_keys, j)
  BY <1>1, NewCount
<1>4. a.control_keys \in Maps(TextModes \X Token, Nat)
  BY <1>1 DEF Accumulators
<1> HIDE DEF a
<1>5. CASE k \in DOMAIN a.control_keys
  <2>1. a.control_keys[k] \in Nat
    BY <1>4, <1>5, MapType
  <2>2. w \in Maps(TextModes \X Token, Nat) /\ DOMAIN w = DOMAIN a.control_keys
    BY <1>4, <1>5, <2>1, UpdateMap
  <2>3. \A j : CountOf(w, j) = IF j = k THEN CountOf(a.control_keys, j) + n ELSE CountOf(a.control_keys, j)
    BY <1>5, UpdateCount
  <2> HIDE DEF w
  <2>4. b = [a EXCEPT !.control_keys = w]
    BY <1>2, <1>5
  <2>5. b \in Accumulators /\ ControlOnly(a, b)
    BY <1>1, <2>2, <2>4, ControlChanged
  <2>6. ControlOnly(acc, b)
    BY <1>1, <2>5, ControlOnlyTwice
  <2>7. /\ b.error = a.error /\ b.control_keys = w /\ b.retained_token_bytes = a.retained_token_bytes
        /\ b.keys = a.keys \/ DOMAIN b.keys = DOMAIN a.keys
        /\ b.repeated_keys = a.repeated_keys \/ DOMAIN b.repeated_keys = DOMAIN a.repeated_keys
        /\ b.mappings = a.mappings \/ DOMAIN b.mappings = DOMAIN a.mappings
        /\ b.control_keys = a.control_keys \/ DOMAIN b.control_keys = DOMAIN a.control_keys
    BY <1>1, <2>2, <2>4 DEF Accumulators
  <2>8. Stocked(b, more, bad)
    BY <1>1, <2>7 DEF Stocked
  <2> QED BY <1>1, <1>3, <2>3, <2>5, <2>6, <2>7, <2>8 DEF Incremented
<1>6. CASE k \notin DOMAIN a.control_keys
  <2>1. b = a
    BY <1>2, <1>6
  <2> QED BY <1>1, <1>6, <2>1
<1> QED BY <1>5, <1>6

(* One repetition. *)
RepeatedOnly(a, b) ==
  b = [a EXCEPT !.error = b.error, !.retained_token_bytes = b.retained_token_bytes,
                !.repeated_keys = b.repeated_keys, !.repeated_key_runs = b.repeated_key_runs,
                !.repeated_key_presses = b.repeated_key_presses]

(* The totals of repetitions are numbers. *)
LEMMA RepeatCountedType ==
  ASSUME NEW acc \in Accumulators, NEW r \in Nat, NEW p \in Nat,
         NEW a, a = [acc EXCEPT !.repeated_key_runs = r, !.repeated_key_presses = p]
  PROVE  a \in Accumulators
BY DEF Accumulators

CountedRepeat(acc, n, a) == a = [acc EXCEPT !.repeated_key_runs = @ + 1, !.repeated_key_presses = @ + n]

(* A repetition is counted in the totals before it is entered. *)
LEMMA RepeatCounted ==
  ASSUME NEW acc \in Accumulators, NEW n \in Nat, NEW a, CountedRepeat(acc, n, a)
  PROVE  /\ a \in Accumulators /\ RepeatedOnly(acc, a)
         /\ a.error = acc.error /\ a.retained_token_bytes = acc.retained_token_bytes
         /\ a.keys = acc.keys /\ a.repeated_keys = acc.repeated_keys
         /\ a.mappings = acc.mappings /\ a.control_keys = acc.control_keys
         /\ a.repeated_key_runs = acc.repeated_key_runs + 1
         /\ a.repeated_key_presses = acc.repeated_key_presses + n
<1> DEFINE r == acc.repeated_key_runs + 1
           p == acc.repeated_key_presses + n
<1>1. r \in Nat /\ p \in Nat
  BY DEF Accumulators
<1>2. a = [acc EXCEPT !.repeated_key_runs = r, !.repeated_key_presses = p]
  BY DEF Accumulators, CountedRepeat
<1> HIDE DEF r, p
<1>3. a \in Accumulators
  BY <1>1, <1>2, RepeatCountedType
<1>4. RepeatedOnly(acc, a)
  BY <1>1, <1>2 DEF Accumulators, RepeatedOnly
<1>5. /\ a.error = acc.error /\ a.retained_token_bytes = acc.retained_token_bytes
      /\ a.keys = acc.keys /\ a.repeated_keys = acc.repeated_keys
      /\ a.mappings = acc.mappings /\ a.control_keys = acc.control_keys
      /\ a.repeated_key_runs = r /\ a.repeated_key_presses = p
  BY <1>1, <1>2 DEF Accumulators
<1> QED BY <1>3, <1>4, <1>5 DEF r, p

(* A change to the repeated keys changes nothing else. *)
LEMMA RepeatChanged ==
  ASSUME NEW acc \in Accumulators, NEW w \in Maps(Token, Numbers), NEW a, a = [acc EXCEPT !.repeated_keys = w]
  PROVE  a \in Accumulators /\ RepeatOnly(acc, a)
<1>1. a \in Accumulators
  BY DEF Accumulators
<1>2. RepeatOnly(acc, a)
  BY DEF Accumulators, RepeatOnly
<1> QED BY <1>1, <1>2

(* Two changes to what repetitions are counted in are one. *)
LEMMA RepeatedOnlyTwice ==
  ASSUME NEW a \in Accumulators, NEW b \in Accumulators, NEW c \in Accumulators,
         RepeatedOnly(a, b), RepeatedOnly(b, c) \/ RepeatOnly(b, c)
  PROVE  RepeatedOnly(a, c)
<1>1. RepeatedOnly(b, c)
  BY DEF Accumulators, RepeatedOnly, RepeatOnly
<1> QED BY <1>1 DEF Accumulators, RepeatedOnly

(* Counting a repetition keeps the stock and adds its run and presses, in
   total and for its key. *)
LEMMA RepeatStep ==
  ASSUME NEW acc \in Accumulators, NEW st \in Stocks, NEW bad \in BOOLEAN, Stocked(acc, st, bad),
         NEW r \in KeyRuns, r.presses >= 2,
         NEW b, b = ObserveRepeatedKey(acc, r),
         NEW more, more = [st EXCEPT !.repeated_keys = @ \cup {r.key}]
  PROVE  /\ b \in Accumulators /\ more \in Stocks /\ Stocked(b, more, bad) /\ RepeatedOnly(acc, b)
         /\ b.repeated_key_runs = acc.repeated_key_runs + 1
         /\ b.repeated_key_presses = acc.repeated_key_presses + r.presses
         /\ b.error = NoError =>
              /\ acc.error = NoError
              /\ Added(acc.repeated_keys, b.repeated_keys, r.key, r.presses)
<1>0. PICK c : CountedRepeat(acc, r.presses, c)
  BY DEF CountedRepeat
<1> DEFINE k == r.key
           a == BoundedEntry(c, "repeated_keys", k, Size[k], <<0, 0>>, "distinct_repeated_keys")
           w == TallyPair(a.repeated_keys, k, r.presses)
<1>1. k \in Token /\ r.presses \in Nat /\ ~(r.presses < 2)
  BY DEF KeyRuns
<1>2. b = IF k \in DOMAIN a.repeated_keys THEN [a EXCEPT !.repeated_keys = w] ELSE a
  BY <1>0, <1>1 DEF ObserveRepeatedKey, CountedRepeat
<1>3. /\ c \in Accumulators /\ RepeatedOnly(acc, c)
      /\ c.error = acc.error /\ c.retained_token_bytes = acc.retained_token_bytes
      /\ c.keys = acc.keys /\ c.repeated_keys = acc.repeated_keys
      /\ c.mappings = acc.mappings /\ c.control_keys = acc.control_keys
      /\ c.repeated_key_runs = acc.repeated_key_runs + 1
      /\ c.repeated_key_presses = acc.repeated_key_presses + r.presses
  BY <1>0, <1>1, RepeatCounted
<1>4. Stocked(c, st, bad)
  BY <1>3 DEF Stocked
<1>5. /\ <<0, 0>> \in Numbers /\ "distinct_repeated_keys" \in Errors /\ "distinct_repeated_keys" # NoError
  BY DEF Numbers, Errors, NoError
<1>6. /\ a \in Accumulators /\ more \in Stocks /\ Stocked(a, more, bad) /\ RepeatOnly(c, a)
      /\ \/ a.repeated_keys = c.repeated_keys
         \/ a.repeated_keys = With(c.repeated_keys, k, <<0, 0>>) /\ k \notin DOMAIN c.repeated_keys
      /\ a.error = NoError => c.error = NoError /\ k \in DOMAIN a.repeated_keys
  BY <1>1, <1>3, <1>4, <1>5, RepeatEntry
<1>7. \A j : PairOf(a.repeated_keys, j) = PairOf(acc.repeated_keys, j)
  BY <1>3, <1>6, NewPair
<1>8. RepeatedOnly(acc, a)
  BY <1>3, <1>6, RepeatedOnlyTwice
<1>9. a.repeated_keys \in Maps(Token, Numbers)
  BY <1>6 DEF Accumulators
<1>10. a.repeated_key_runs = c.repeated_key_runs /\ a.repeated_key_presses = c.repeated_key_presses
  BY <1>3, <1>6 DEF RepeatOnly, Accumulators
<1> HIDE DEF a
<1>11. CASE k \in DOMAIN a.repeated_keys
  <2>1. w \in Maps(Token, Numbers) /\ DOMAIN w = DOMAIN a.repeated_keys \cup {k}
    BY <1>1, <1>9, TallyPairMap, TallyPairDomain
  <2>2. \A j : PairOf(w, j)
                = IF j = k THEN <<PairOf(a.repeated_keys, j)[1] + 1, PairOf(a.repeated_keys, j)[2] + r.presses>>
                  ELSE PairOf(a.repeated_keys, j)
    BY <1>1, TallyPairCount
  <2> HIDE DEF w
  <2>3. b = [a EXCEPT !.repeated_keys = w]
    BY <1>2, <1>11
  <2>4. b \in Accumulators /\ RepeatOnly(a, b)
    BY <1>6, <2>1, <2>3, RepeatChanged
  <2>5. RepeatedOnly(acc, b)
    BY <1>6, <1>8, <2>4, RepeatedOnlyTwice
  <2>6. /\ b.error = a.error /\ b.repeated_keys = w /\ b.retained_token_bytes = a.retained_token_bytes
        /\ b.keys = a.keys /\ b.mappings = a.mappings /\ b.control_keys = a.control_keys
        /\ b.repeated_key_runs = a.repeated_key_runs /\ b.repeated_key_presses = a.repeated_key_presses
    BY <1>6, <2>3 DEF Accumulators
  <2>7. DOMAIN w = DOMAIN a.repeated_keys
    BY <1>11, <2>1
  <2>8. Stocked(b, more, bad)
    BY <1>6, <2>6, <2>7 DEF Stocked
  <2>9. \A j : PairOf(b.repeated_keys, j)
                = IF j = k THEN <<PairOf(acc.repeated_keys, j)[1] + 1, PairOf(acc.repeated_keys, j)[2] + r.presses>>
                  ELSE PairOf(acc.repeated_keys, j)
    BY <1>7, <2>2, <2>6
  <2> QED BY <1>3, <1>6, <1>10, <2>4, <2>5, <2>6, <2>8, <2>9 DEF Added
<1>12. CASE k \notin DOMAIN a.repeated_keys
  <2>1. b = a
    BY <1>2, <1>12
  <2> QED BY <1>3, <1>6, <1>8, <1>10, <1>12, <2>1
<1> QED BY <1>11, <1>12

-----------------------------------------------------------------------------
(* The runs of a sequence of keys are its maximal intervals of one key.      *)
(* b[j] is the last position of run j.                                       *)
Bounds(b, runs, keys, n) ==
  /\ runs \in Seq(KeyRuns) /\ b \in [0..Len(runs) -> 0..n] /\ b[0] = 0 /\ b[Len(runs)] = n
  /\ \A j \in 1..Len(runs) :
       /\ b[j - 1] < b[j] /\ runs[j].presses = b[j] - b[j - 1]
       /\ \A c \in (b[j - 1] + 1)..b[j] : keys[c] = runs[j].key
  /\ \A j \in 2..Len(runs) : runs[j - 1].key # runs[j].key

(* One key more either makes the last run longer or starts a new one. *)
LEMMA BoundsStep ==
  ASSUME NEW n \in Nat, NEW keys, NEW runs, NEW b, Bounds(b, runs, keys, n), NEW k \in Token, keys[n + 1] = k
  PROVE  \E c : Bounds(c, RunStep(runs, k), keys, n + 1)
<1> DEFINE L == Len(runs)
<1>1. /\ runs \in Seq(KeyRuns) /\ b \in [0..L -> 0..n] /\ b[0] = 0 /\ b[L] = n /\ L \in Nat
      /\ DOMAIN runs = 1..L /\ \A j \in 1..L : runs[j] \in KeyRuns
  BY DEF Bounds
<1>2. /\ \A j \in 1..L : /\ b[j - 1] < b[j] /\ runs[j].presses = b[j] - b[j - 1]
                         /\ \A c \in (b[j - 1] + 1)..b[j] : keys[c] = runs[j].key
      /\ \A j \in 2..L : runs[j - 1].key # runs[j].key
  BY DEF Bounds
<1>5. L = Len(runs)
  OBVIOUS
<1> HIDE DEF L
<1>3. CASE runs # <<>> /\ Last(runs).key = k
  <2>1. L >= 1 /\ Last(runs) = runs[L] /\ runs[L] \in KeyRuns
    BY <1>1, <1>3, <1>5 DEF Last
  <2> DEFINE last == [key |-> k, presses |-> runs[L].presses + 1]
             more == Append(Front(runs), last)
             c == [j \in 0..L |-> IF j = L THEN n + 1 ELSE b[j]]
  <2>2. RunStep(runs, k) = more
    BY <1>3, <2>1 DEF RunStep
  <2>3. Front(runs) \in Seq(KeyRuns) /\ Len(Front(runs)) = L - 1 /\ \A j \in 1..(L - 1) : Front(runs)[j] = runs[j]
    BY <1>1, <1>5, <2>1 DEF Front
  <2>4. last \in KeyRuns /\ runs[L].presses \in Nat /\ last.key = runs[L].key
    BY <1>3, <2>1 DEF KeyRuns
  <2>5. /\ more \in Seq(KeyRuns) /\ Len(more) = L /\ more[L] = last
        /\ \A j \in 1..(L - 1) : more[j] = runs[j]
    <3> HIDE DEF last
    <3> QED BY <1>1, <2>1, <2>3, <2>4
  <2> HIDE DEF more
  <2>6. /\ c \in [0..L -> 0..(n + 1)] /\ c[0] = 0 /\ c[L] = n + 1
        /\ \A j \in 0..(L - 1) : c[j] = b[j]
    <3>1. \A j \in 0..L : (j = L => n + 1 \in 0..(n + 1)) /\ b[j] \in 0..(n + 1)
      BY <1>1
    <3> QED BY <1>1, <2>1, <3>1
  <2> HIDE DEF c
  <2>7. ASSUME NEW j \in 1..L
        PROVE  /\ c[j - 1] < c[j] /\ more[j].presses = c[j] - c[j - 1]
               /\ \A i \in (c[j - 1] + 1)..c[j] : keys[i] = more[j].key
    <3>0. L \in 1..L
      BY <1>1, <2>1
    <3>1. CASE j = L
      <4>1. L - 1 \in 0..(L - 1) /\ L - 1 \in 0..L
        BY <1>1, <2>1
      <4>2. c[L - 1] = b[L - 1] /\ c[L] = b[L] + 1 /\ b[L - 1] < b[L] /\ runs[L].presses = b[L] - b[L - 1] /\ b[L - 1] \in Nat
        BY <1>1, <1>2, <2>6, <3>0, <4>1
      <4>3. more[L].presses = runs[L].presses + 1 /\ more[L].key = k /\ runs[L].key = k
        BY <1>3, <2>1, <2>5
      <4>4. ASSUME NEW i \in (b[L - 1] + 1)..(n + 1) PROVE keys[i] = k
        <5>1. CASE i = n + 1
          BY <5>1
        <5>2. CASE i # n + 1
          <6>1. i \in (b[L - 1] + 1)..b[L]
            BY <1>1, <4>2, <5>2
          <6> QED BY <1>1, <1>2, <2>1, <3>0, <4>3, <6>1
        <5> QED BY <5>1, <5>2
      <4> QED BY <1>1, <3>1, <4>2, <4>3, <4>4
    <3>2. CASE j # L
      <4>1. j \in 1..(L - 1) /\ j - 1 \in 0..(L - 1) /\ j \in 0..(L - 1)
        BY <1>1, <3>2, <2>1
      <4>2. c[j] = b[j] /\ c[j - 1] = b[j - 1] /\ more[j] = runs[j]
        BY <2>5, <2>6, <4>1
      <4> QED BY <1>2, <4>2
    <3> QED BY <3>1, <3>2
  <2>8. ASSUME NEW j \in 2..L PROVE more[j - 1].key # more[j].key
    <3>1. j - 1 \in 1..(L - 1) /\ (j = L \/ j \in 1..(L - 1))
      BY <1>1
    <3>2. more[j].key = runs[j].key /\ more[j - 1].key = runs[j - 1].key
      BY <2>4, <2>5, <3>1
    <3> QED BY <1>2, <3>2
  <2>9. Bounds(c, more, keys, n + 1)
    BY <2>5, <2>6, <2>7, <2>8 DEF Bounds
  <2> QED BY <2>2, <2>9
<1>4. CASE ~(runs # <<>> /\ Last(runs).key = k)
  <2> DEFINE last == [key |-> k, presses |-> 1]
             more == Append(runs, last)
             c == [j \in 0..(L + 1) |-> IF j = L + 1 THEN n + 1 ELSE b[j]]
  <2>1. RunStep(runs, k) = more
    BY <1>4 DEF RunStep
  <2>2. last \in KeyRuns /\ last.key = k /\ last.presses = 1
    BY DEF KeyRuns
  <2> HIDE DEF last
  <2>3. /\ more \in Seq(KeyRuns) /\ Len(more) = L + 1 /\ more[L + 1] = last
        /\ \A j \in 1..L : more[j] = runs[j]
    BY <1>1, <2>2
  <2> HIDE DEF more
  <2>4. /\ c \in [0..(L + 1) -> 0..(n + 1)] /\ c[0] = 0 /\ c[L + 1] = n + 1
        /\ \A j \in 0..L : c[j] = b[j]
    BY <1>1
  <2> HIDE DEF c
  <2>5. ASSUME NEW j \in 1..(L + 1)
        PROVE  /\ c[j - 1] < c[j] /\ more[j].presses = c[j] - c[j - 1]
               /\ \A i \in (c[j - 1] + 1)..c[j] : keys[i] = more[j].key
    <3>1. CASE j = L + 1
      <4>1. c[j - 1] = n /\ c[j] = n + 1 /\ more[j] = last
        BY <1>1, <2>3, <2>4, <3>1
      <4>2. \A i \in (n + 1)..(n + 1) : keys[i] = k
        OBVIOUS
      <4> QED BY <2>2, <4>1, <4>2
    <3>2. CASE j # L + 1
      <4>1. j \in 1..L /\ j - 1 \in 0..L /\ j \in 0..L
        BY <1>1, <3>2
      <4> QED BY <1>2, <2>3, <2>4, <4>1
    <3> QED BY <3>1, <3>2
  <2>6. ASSUME NEW j \in 2..(L + 1) PROVE more[j - 1].key # more[j].key
    <3>1. CASE j = L + 1
      <4>1. L >= 1 /\ Last(runs) = runs[L] /\ runs # <<>>
        BY <1>1, <1>5, <3>1 DEF Last
      <4>2. more[j - 1] = runs[L] /\ more[j] = last
        BY <1>1, <2>3, <3>1, <4>1
      <4> QED BY <1>4, <2>2, <4>1, <4>2
    <3>2. CASE j # L + 1
      <4>1. j \in 2..L /\ j - 1 \in 1..L /\ j \in 1..L
        BY <1>1, <3>2
      <4> QED BY <1>2, <2>3, <4>1
    <3> QED BY <3>1, <3>2
  <2>7. Bounds(c, more, keys, n + 1)
    BY <2>3, <2>4, <2>5, <2>6 DEF Bounds
  <2> QED BY <2>1, <2>7
<1> QED BY <1>3, <1>4

(* The runs of a sequence have bounds: each covers an interval of its key,
   and neighbours differ. *)
LEMMA RunBounds ==
  ASSUME NEW keys \in Seq(Token)
  PROVE  \E b : Bounds(b, RunsOf(keys), keys, Len(keys))
<1>1. PICK f : RunSteps(f, keys) /\ RunsOf(keys) = f[Len(keys)]
  BY RunFold
<1> DEFINE N == Len(keys)
           Bounded(n) == \E b : Bounds(b, f[n], keys, n)
           D == {n \in 0..N : Bounded(n)}
<1>2. N \in Nat /\ \A n \in 1..N : keys[n] \in Token
  OBVIOUS
<1>3. Bounded(0)
  <2>1. f[0] = <<>>
    BY <1>1 DEF RunSteps
  <2>2. Bounds([i \in 0..0 |-> 0], <<>>, keys, 0)
    BY DEF Bounds
  <2> QED BY <2>1, <2>2
<1>4. ASSUME NEW n \in 1..N, Bounded(n - 1) PROVE Bounded(n)
  <2>1. PICK b : Bounds(b, f[n - 1], keys, n - 1)
    BY <1>4
  <2>2. f[n] = RunStep(f[n - 1], keys[n])
    BY <1>1 DEF RunSteps
  <2> DEFINE m == n - 1
  <2>3. m \in Nat /\ n = m + 1 /\ keys[n] \in Token /\ keys[m + 1] = keys[n]
    BY <1>2
  <2> HIDE DEF m
  <2>4. Bounds(b, f[m], keys, m)
    BY <2>1 DEF m
  <2>5. \E c : Bounds(c, RunStep(f[m], keys[n]), keys, m + 1)
    BY <2>3, <2>4, BoundsStep
  <2> QED BY <2>2, <2>3, <2>5 DEF m
<1>5. N \in D
  <2> HIDE DEF Bounded
  <2>1. 0 \in D
    BY <1>2, <1>3
  <2>2. \A n \in 1..N : n - 1 \in D => n \in D
    BY <1>4
  <2>3. N \in Nat
    BY <1>2
  <2> HIDE DEF D, N
  <2>4. 0..N \subseteq D
    BY <2>1, <2>2, <2>3, RangeInduction
  <2> QED BY <2>3, <2>4
<1> QED BY <1>1, <1>5

-----------------------------------------------------------------------------
(* The least number of a set is below all of it. *)
LEMMA LeastBelow ==
  ASSUME NEW S, S \subseteq Nat, S # {}
  PROVE  \A m \in S : Least(S) <= m
<1> DEFINE Below == {ss \in Nat \X Nat : ss[1] < ss[2]}
<1>1. IsWellFoundedOn(Below, Nat)
  BY NatLessThanWellFounded DEF OpToRel
<1>2. PICK x \in S : \A y \in S : <<y, x>> \notin Below
  <2> HIDE DEF Below
  <2> QED BY <1>1, WFMin
<1>3. ASSUME NEW y \in S PROVE x <= y
  <2>1. y \in Nat /\ x \in Nat /\ <<y, x>> \notin Below
    BY <1>2
  <2>2. y < x => <<y, x>> \in Below
    BY <2>1
  <2> HIDE DEF Below
  <2> QED BY <2>1, <2>2
<1> QED BY <1>3 DEF Least

BoundsShape(b, runs, keys, n) ==
  /\ Len(runs) \in Nat /\ b \in [0..Len(runs) -> 0..n] /\ b[0] = 0 /\ b[Len(runs)] = n
  /\ \A j \in 1..Len(runs) :
       /\ runs[j] \in KeyRuns /\ j - 1 \in 0..Len(runs) /\ j \in 0..Len(runs)
       /\ b[j - 1] \in Nat /\ b[j] \in Nat
       /\ b[j - 1] < b[j] /\ runs[j].presses = b[j] - b[j - 1]
       /\ \A c \in (b[j - 1] + 1)..b[j] : keys[c] = runs[j].key
  /\ \A j \in 2..Len(runs) : runs[j - 1].key # runs[j].key

(* What bounds say, with the types that arithmetic needs. *)
LEMMA BoundsFacts ==
  ASSUME NEW b, NEW runs, NEW keys, NEW n \in Nat, Bounds(b, runs, keys, n)
  PROVE  BoundsShape(b, runs, keys, n)
<1>1. runs \in Seq(KeyRuns) /\ b \in [0..Len(runs) -> 0..n]
  BY DEF Bounds
<1>2. Len(runs) \in Nat /\ \A j \in 1..Len(runs) : runs[j] \in KeyRuns
  BY <1>1
<1> HIDE DEF Bounds
<1>3. ASSUME NEW j \in 1..Len(runs)
      PROVE  j - 1 \in 0..Len(runs) /\ j \in 0..Len(runs) /\ b[j - 1] \in Nat /\ b[j] \in Nat
  BY <1>1, <1>2
<1> QED BY <1>1, <1>2, <1>3 DEF Bounds, BoundsShape

(* The ends of the runs rise. *)
LEMMA BoundsRise ==
  ASSUME NEW b, NEW runs, NEW keys, NEW n \in Nat, Bounds(b, runs, keys, n)
  PROVE  \A i, j \in 0..Len(runs) : i <= j => b[i] <= b[j]
<1> DEFINE L == Len(runs)
<1>1. L \in Nat /\ b \in [0..L -> 0..n] /\ \A j \in 1..L : b[j - 1] < b[j]
  BY BoundsFacts DEF BoundsShape
<1> HIDE DEF L
<1> SUFFICES ASSUME NEW i \in 0..L PROVE \A j \in 0..L : i <= j => b[i] <= b[j]
  BY DEF L
<1> DEFINE D == {j \in 0..L : i <= j => b[i] <= b[j]}
<1>2. 0 \in D
  <2>1. i <= 0 => i = 0
    BY <1>1
  <2>2. b[0] \in 0..n /\ 0 \in 0..L
    BY <1>1
  <2> QED BY <2>1, <2>2
<1>3. ASSUME NEW j \in 1..L, j - 1 \in D PROVE j \in D
  <2>1. b[j - 1] \in 0..n /\ b[j] \in 0..n /\ b[i] \in 0..n /\ b[j - 1] < b[j]
    BY <1>1, <1>3
  <2>2. i <= j => i = j \/ i <= j - 1
    BY <1>1
  <2> QED BY <1>1, <1>3, <2>1, <2>2
<1>4. 0..L \subseteq D
  <2> HIDE DEF D
  <2> QED BY <1>1, <1>2, <1>3, RangeInduction
<1> QED BY <1>4

(* Every position lies in a run. *)
LEMMA BoundsCover ==
  ASSUME NEW b, NEW runs, NEW keys, NEW n \in Nat, Bounds(b, runs, keys, n), NEW p \in 1..n
  PROVE  \E j \in 1..Len(runs) : p \in (b[j - 1] + 1)..b[j]
<1> DEFINE L == Len(runs)
           S == {j \in 0..L : p <= b[j]}
<1>1. L \in Nat /\ b \in [0..L -> 0..n] /\ b[0] = 0 /\ b[L] = n
  BY BoundsFacts DEF BoundsShape
<1> HIDE DEF L
<1>2. S \subseteq Nat /\ L \in S
  BY <1>1
<1>3. Least(S) \in S /\ \A j \in S : Least(S) <= j
  <2>1. Least(S) \in S
    <3> HIDE DEF S
    <3> QED BY <1>2, LeastIn
  <2>2. \A j \in S : Least(S) <= j
    <3> HIDE DEF S
    <3> QED BY <1>2, LeastBelow
  <2> QED BY <2>1, <2>2
<1> DEFINE j == Least(S)
<1>4. j \in 0..L /\ p <= b[j] /\ j # 0
  BY <1>1, <1>3
<1>5. j - 1 \in 0..L /\ j - 1 \notin S
  BY <1>1, <1>3, <1>4
<1>6. b[j - 1] \in 0..n /\ b[j] \in 0..n
  BY <1>1, <1>4, <1>5
<1>7. ~(p <= b[j - 1])
  BY <1>5
<1> HIDE DEF j, S
<1>8. p \in (b[j - 1] + 1)..b[j] /\ j \in 1..L
  BY <1>1, <1>4, <1>6, <1>7
<1> QED BY <1>8 DEF L

(* A maximal interval of one key, and the interval of a run. *)
Maximal(keys, a, c, least) ==
  /\ c >= a + least - 1
  /\ \A d \in a..c : keys[d] = keys[a]
  /\ a > 1 => keys[a - 1] # keys[a]
  /\ c < Len(keys) => keys[c + 1] # keys[a]
SpansUpTo(n, b, m, least) ==
  {<<n, b[j - 1] + 1, b[j]>> : j \in {i \in 1..m : b[i] - b[i - 1] >= least}}

RunFrom(b, L, a, c, least) == \E j \in 1..L : b[j] - b[j - 1] >= least /\ a = b[j - 1] + 1 /\ c = b[j]

(* A run that is long enough is a maximal interval. *)
LEMMA RunIsMaximal ==
  ASSUME NEW keys \in Seq(Token), NEW b, NEW runs, Bounds(b, runs, keys, Len(keys)),
         NEW j \in 1..Len(runs), NEW least \in Nat, b[j] - b[j - 1] >= least
  PROVE  /\ b[j - 1] + 1 \in DOMAIN keys /\ b[j] \in DOMAIN keys
         /\ Maximal(keys, b[j - 1] + 1, b[j], least)
<1> DEFINE N == Len(keys)
           L == Len(runs)
           a == b[j - 1] + 1
           c == b[j]
<1>1. N \in Nat /\ DOMAIN keys = 1..N
  OBVIOUS
<1>2. /\ L \in Nat /\ b \in [0..L -> 0..N] /\ b[0] = 0 /\ b[L] = N
      /\ \A i \in 1..L :
              /\ runs[i] \in KeyRuns /\ i - 1 \in 0..L /\ i \in 0..L
              /\ b[i - 1] \in Nat /\ b[i] \in Nat
              /\ b[i - 1] < b[i] /\ runs[i].presses = b[i] - b[i - 1]
              /\ \A d \in (b[i - 1] + 1)..b[i] : keys[d] = runs[i].key
      /\ \A i \in 2..L : runs[i - 1].key # runs[i].key
  <2>1. BoundsShape(b, runs, keys, Len(keys))
    BY <1>1, BoundsFacts
  <2> QED BY <2>1 DEF BoundsShape
<1> HIDE DEF N
<1>3. c \in 0..N /\ b[j - 1] \in Nat /\ b[j - 1] < c /\ a \in 1..N /\ c \in 1..N
  <2>1. b[j] \in 0..N /\ b[j - 1] \in Nat /\ b[j - 1] < b[j]
    BY <1>2
  <2> QED BY <1>1, <2>1
<1>4. \A d \in a..c : keys[d] = runs[j].key
  BY <1>2
<1>5. a \in a..c
  BY <1>3
<1>6. a > 1 => keys[a - 1] # keys[a]
  <2> SUFFICES ASSUME a > 1 PROVE keys[a - 1] # keys[a]
    OBVIOUS
  <2>1. j # 1
    BY <1>2, <1>3
  <2>2. j \in 2..L /\ j - 1 \in 1..L
    BY <1>2, <2>1
  <2>3. b[j - 1 - 1] < b[j - 1] /\ b[j - 1 - 1] \in Nat /\ \A d \in (b[j - 1 - 1] + 1)..b[j - 1] : keys[d] = runs[j - 1].key
    BY <1>2, <2>2
  <2>4. a - 1 = b[j - 1] /\ b[j - 1] \in (b[j - 1 - 1] + 1)..b[j - 1]
    BY <1>3, <2>3
  <2>5. keys[a - 1] = runs[j - 1].key
    BY <2>3, <2>4
  <2>6. keys[a] = runs[j].key
    BY <1>4, <1>5
  <2> QED BY <1>2, <2>2, <2>5, <2>6
<1>7. c < N => keys[c + 1] # keys[a]
  <2> SUFFICES ASSUME c < N PROVE keys[c + 1] # keys[a]
    OBVIOUS
  <2>1. j # L
    BY <1>2, <1>3
  <2>2. j + 1 \in 2..L /\ j + 1 \in 1..L /\ j + 1 - 1 = j
    BY <1>2, <2>1
  <2>3. b[j] < b[j + 1] /\ b[j + 1] \in Nat /\ \A d \in (b[j] + 1)..b[j + 1] : keys[d] = runs[j + 1].key
    BY <1>2, <2>2
  <2>4. c + 1 \in (b[j] + 1)..b[j + 1]
    BY <1>3, <2>3, SMTT(20)
  <2>5. keys[c + 1] = runs[j + 1].key /\ keys[a] = runs[j].key
    BY <1>4, <1>5, <2>3, <2>4
  <2> QED BY <1>2, <2>2, <2>5
<1>8. c >= a + least - 1
  BY <1>3
<1>9. \A d \in a..c : keys[d] = keys[a]
  BY <1>4, <1>5
<1> HIDE DEF a, c
<1>10. Maximal(keys, a, c, least)
  BY <1>6, <1>7, <1>8, <1>9 DEF Maximal, N
<1> QED BY <1>1, <1>3, <1>10 DEF a, c

(* A maximal interval is a run. *)
LEMMA MaximalIsRun ==
  ASSUME NEW keys \in Seq(Token), NEW b, NEW runs, Bounds(b, runs, keys, Len(keys)),
         NEW least \in Nat, least > 0, NEW a \in DOMAIN keys, NEW c \in DOMAIN keys, Maximal(keys, a, c, least)
  PROVE  RunFrom(b, Len(runs), a, c, least)
<1> DEFINE N == Len(keys)
           L == Len(runs)
<1>1. N \in Nat /\ DOMAIN keys = 1..N
  OBVIOUS
<1>2. /\ L \in Nat /\ b \in [0..L -> 0..N] /\ b[0] = 0 /\ b[L] = N
      /\ \A i \in 1..L :
              /\ runs[i] \in KeyRuns /\ i - 1 \in 0..L /\ i \in 0..L
              /\ b[i - 1] \in Nat /\ b[i] \in Nat
              /\ b[i - 1] < b[i] /\ runs[i].presses = b[i] - b[i - 1]
              /\ \A d \in (b[i - 1] + 1)..b[i] : keys[d] = runs[i].key
      /\ \A i \in 2..L : runs[i - 1].key # runs[i].key
  <2>1. BoundsShape(b, runs, keys, Len(keys))
    BY <1>1, BoundsFacts
  <2> QED BY <2>1 DEF BoundsShape
<1>3. a \in 1..N /\ c \in 1..N /\ c >= a
  BY <1>1 DEF Maximal
<1>4. PICK j \in 1..L : a \in (b[j - 1] + 1)..b[j]
  <2> HIDE DEF N
  <2> QED BY <1>1, <1>3, BoundsCover DEF N
<1> HIDE DEF N
<1>5. /\ b[j - 1] \in Nat /\ b[j] \in Nat /\ b[j] \in 0..N /\ b[j - 1] < b[j]
      /\ \A d \in (b[j - 1] + 1)..b[j] : keys[d] = runs[j].key
  BY <1>2
<1>6. keys[a] = runs[j].key
  BY <1>4, <1>5
<1>7. a = b[j - 1] + 1
  <2> SUFFICES ASSUME a # b[j - 1] + 1 PROVE FALSE
    OBVIOUS
  <2>1. a - 1 \in (b[j - 1] + 1)..b[j] /\ a > 1
    BY <1>3, <1>4, <1>5
  <2>2. keys[a - 1] = keys[a]
    BY <1>5, <1>6, <2>1
  <2> QED BY <2>1, <2>2 DEF Maximal
<1>8. ~(c < b[j])
  <2> SUFFICES ASSUME c < b[j] PROVE FALSE
    OBVIOUS
  <2>1. c + 1 \in (b[j - 1] + 1)..b[j] /\ c < N
    BY <1>1, <1>3, <1>5, <1>7
  <2>2. keys[c + 1] = keys[a]
    BY <1>5, <1>6, <2>1
  <2> QED BY <2>1, <2>2 DEF Maximal, N
<1>9. ~(c > b[j])
  <2> SUFFICES ASSUME c > b[j] PROVE FALSE
    OBVIOUS
  <2>1. j # L
    BY <1>1, <1>2, <1>3
  <2>2. j + 1 \in 2..L /\ j + 1 \in 1..L /\ j + 1 - 1 = j
    BY <1>2, <2>1
  <2>3. b[j] < b[j + 1] /\ b[j + 1] \in Nat /\ \A d \in (b[j] + 1)..b[j + 1] : keys[d] = runs[j + 1].key
    BY <1>2, <2>2
  <2>4. b[j] + 1 \in (b[j] + 1)..b[j + 1] /\ b[j] + 1 \in a..c
    BY <1>3, <1>4, <1>5, <2>3, SMTT(20)
  <2>5. keys[b[j] + 1] = runs[j + 1].key
    BY <2>3, <2>4
  <2>6. keys[b[j] + 1] = keys[a]
    BY <2>4 DEF Maximal
  <2>7. runs[j].key # runs[j + 1].key
    <3>1. runs[j + 1 - 1].key # runs[j + 1].key
      BY <1>2, <2>2
    <3>2. j + 1 - 1 = j
      BY <2>2
    <3> DEFINE i == j + 1 - 1
    <3> HIDE DEF i
    <3>3. i = j /\ runs[i].key # runs[j + 1].key
      BY <3>1, <3>2 DEF i
    <3> QED BY <3>3
  <2> QED BY <1>6, <2>5, <2>6, <2>7
<1>10. c = b[j]
  BY <1>3, <1>5, <1>8, <1>9
<1>11. b[j] - b[j - 1] >= least
  BY <1>3, <1>5, <1>7, <1>10 DEF Maximal
<1> QED BY <1>7, <1>10, <1>11 DEF RunFrom

-----------------------------------------------------------------------------
(* The runs of a log are those of its events. *)
EventRuns(n, keys, least) ==
  {r \in {<<n, a, c>> : a \in DOMAIN keys, c \in DOMAIN keys} : Maximal(keys, r[2], r[3], least)}
IsRunIn(r, events, i, least) ==
  \E a, c \in DOMAIN events[i].keys : r = <<i, a, c>> /\ Maximal(events[i].keys, a, c, least)

(* A run of a log is a run in one of its key sequences. *)
LEMMA RunIn ==
  ASSUME NEW events, NEW least, NEW r
  PROVE  r \in Runs(events, least) <=> \E i \in Of(events, "key_sequence") : IsRunIn(r, events, i, least)
<1> DEFINE spans(i) == {<<i, a, b>> : a \in DOMAIN events[i].keys, b \in DOMAIN events[i].keys}
<1>1. Runs(events, least)
        = {q \in UNION {spans(i) : i \in Of(events, "key_sequence")} : Maximal(events[q[1]].keys, q[2], q[3], least)}
  BY DEF Runs, Maximal
<1>2. ASSUME r \in Runs(events, least)
      PROVE  \E i \in Of(events, "key_sequence") : IsRunIn(r, events, i, least)
  <2>1. PICK i \in Of(events, "key_sequence") : r \in spans(i)
    BY <1>1, <1>2
  <2>2. PICK a \in DOMAIN events[i].keys, c \in DOMAIN events[i].keys : r = <<i, a, c>>
    BY <2>1
  <2>3. Maximal(events[r[1]].keys, r[2], r[3], least)
    BY <1>1, <1>2
  <2>4. Maximal(events[i].keys, a, c, least)
    BY <2>2, <2>3
  <2> QED BY <2>2, <2>4 DEF IsRunIn
<1>3. ASSUME NEW i \in Of(events, "key_sequence"), IsRunIn(r, events, i, least)
      PROVE  r \in Runs(events, least)
  <2>1. PICK a \in DOMAIN events[i].keys, c \in DOMAIN events[i].keys : r = <<i, a, c>> /\ Maximal(events[i].keys, a, c, least)
    BY <1>3 DEF IsRunIn
  <2>2. r \in spans(i) /\ r[1] = i /\ r[2] = a /\ r[3] = c
    BY <2>1
  <2> QED BY <1>1, <2>1, <2>2
<1> QED BY <1>2, <1>3

(* The runs of one sequence are its maximal intervals. *)
LEMMA EventRunIn ==
  ASSUME NEW n, NEW keys, NEW least, NEW r
  PROVE  r \in EventRuns(n, keys, least)
           <=> \E a, c \in DOMAIN keys : r = <<n, a, c>> /\ Maximal(keys, a, c, least)
<1>1. ASSUME r \in EventRuns(n, keys, least)
      PROVE  \E a, c \in DOMAIN keys : r = <<n, a, c>> /\ Maximal(keys, a, c, least)
  <2>1. PICK a \in DOMAIN keys, c \in DOMAIN keys : r = <<n, a, c>>
    BY <1>1 DEF EventRuns
  <2>2. Maximal(keys, r[2], r[3], least)
    BY <1>1 DEF EventRuns
  <2> QED BY <2>1, <2>2
<1>2. ASSUME NEW a \in DOMAIN keys, NEW c \in DOMAIN keys, r = <<n, a, c>>, Maximal(keys, a, c, least)
      PROVE  r \in EventRuns(n, keys, least)
  BY <1>2 DEF EventRuns
<1> QED BY <1>1, <1>2

(* One event more adds its own runs. *)
LEMMA RunsAppend ==
  ASSUME NEW events \in Logs, NEW e \in LogEvents, NEW least
  PROVE  Runs(Append(events, e), least)
           = Runs(events, least)
               \cup (IF e.kind = "key_sequence" THEN EventRuns(Len(events) + 1, e.keys, least) ELSE {})
<1> DEFINE more == Append(events, e)
           n == Len(events) + 1
           kind == "key_sequence"
<1>1. /\ DOMAIN more = DOMAIN events \cup {n} /\ n \notin DOMAIN events
      /\ more[n] = e /\ \A i \in DOMAIN events : more[i] = events[i]
  BY AppendEvent
<1>2. Of(more, kind) = Of(events, kind) \cup (IF e.kind = kind THEN {n} ELSE {}) /\ Of(events, kind) \subseteq DOMAIN events
  BY OfAppend, OfFinite
<1> HIDE DEF more, n
<1>3. ASSUME NEW r, NEW i \in Of(events, kind)
      PROVE  IsRunIn(r, more, i, least) <=> IsRunIn(r, events, i, least)
  BY <1>1, <1>2 DEF IsRunIn
<1>4. ASSUME NEW r
      PROVE  IsRunIn(r, more, n, least) <=> r \in EventRuns(n, e.keys, least)
  BY <1>1, EventRunIn DEF IsRunIn
<1>5. ASSUME NEW r
      PROVE  r \in Runs(more, least) <=> r \in Runs(events, least) \/ (e.kind = kind /\ r \in EventRuns(n, e.keys, least))
  BY <1>2, <1>3, <1>4, RunIn
<1> QED BY <1>5 DEF more, n

(* Runs lie within their events. *)
Spans == Nat \X Nat \X Nat

(* A run lies in a key sequence of the log. *)
LEMMA RunsType ==
  ASSUME NEW events \in Logs, NEW least
  PROVE  /\ Runs(events, least) \subseteq Spans
         /\ \A r \in Runs(events, least) :
              /\ r[1] \in Of(events, "key_sequence") /\ r[1] \in DOMAIN events
              /\ r[2] \in DOMAIN events[r[1]].keys /\ r[3] \in DOMAIN events[r[1]].keys
<1> SUFFICES ASSUME NEW r \in Runs(events, least)
             PROVE  /\ r \in Spans
                    /\ r[1] \in Of(events, "key_sequence") /\ r[1] \in DOMAIN events
                    /\ r[2] \in DOMAIN events[r[1]].keys /\ r[3] \in DOMAIN events[r[1]].keys
  OBVIOUS
<1>1. PICK i \in Of(events, "key_sequence") : IsRunIn(r, events, i, least)
  BY RunIn
<1>2. PICK a \in DOMAIN events[i].keys, c \in DOMAIN events[i].keys : r = <<i, a, c>>
  BY <1>1 DEF IsRunIn
<1>3. i \in DOMAIN events /\ events[i] \in LogEvents /\ events[i].kind = "key_sequence"
  BY EventAt DEF Of
<1>4. events[i].keys \in Seq(Token)
  BY <1>3, EventType
<1>5. i \in Nat /\ a \in Nat /\ c \in Nat
  BY <1>2, <1>3, <1>4, Indices
<1> QED BY <1>2, <1>3, <1>5 DEF Spans

(* The spans of runs are numbers. *)
LEMMA SpansUpToType ==
  ASSUME NEW b, NEW runs, NEW keys, NEW N \in Nat, Bounds(b, runs, keys, N), NEW m \in 0..Len(runs),
         NEW n \in Nat, NEW least
  PROVE  SpansUpTo(n, b, m, least) \subseteq Spans
<1>1. \A j \in 1..m : j \in 1..Len(runs)
  <2>1. Len(runs) \in Nat
    BY BoundsFacts DEF BoundsShape
  <2> QED BY <2>1
<1>2. \A j \in 1..m : b[j - 1] \in Nat /\ b[j] \in Nat
  BY <1>1, BoundsFacts DEF BoundsShape
<1> QED BY <1>2 DEF SpansUpTo, Spans

(* The spans of the first runs, one by one. *)
LEMMA SpansStep ==
  ASSUME NEW b, NEW runs, NEW keys, NEW N \in Nat, Bounds(b, runs, keys, N), NEW m \in 1..Len(runs), NEW n, NEW least
  PROVE  /\ SpansUpTo(n, b, m, least)
              = SpansUpTo(n, b, m - 1, least)
                  \cup (IF b[m] - b[m - 1] >= least THEN {<<n, b[m - 1] + 1, b[m]>>} ELSE {})
         /\ \A r \in SpansUpTo(n, b, m - 1, least) : r[3] <= b[m - 1] /\ r[1] = n
         /\ SpansUpTo(n, b, 0, least) = {}
<1>1. m \in Nat /\ 1..m = (1..(m - 1)) \cup {m} /\ 1..0 = {}
  OBVIOUS
<1>2. SpansUpTo(n, b, 0, least) = {}
  BY <1>1 DEF SpansUpTo
<1>3. SpansUpTo(n, b, m, least)
        = SpansUpTo(n, b, m - 1, least)
            \cup (IF b[m] - b[m - 1] >= least THEN {<<n, b[m - 1] + 1, b[m]>>} ELSE {})
  BY <1>1 DEF SpansUpTo
<1>4. ASSUME NEW r \in SpansUpTo(n, b, m - 1, least) PROVE r[3] <= b[m - 1] /\ r[1] = n
  <2>1. PICK j \in 1..(m - 1) : r = <<n, b[j - 1] + 1, b[j]>>
    BY <1>4 DEF SpansUpTo
  <2>2. Len(runs) \in Nat
    BY BoundsFacts DEF BoundsShape
  <2>3. j \in 0..Len(runs) /\ m - 1 \in 0..Len(runs) /\ j <= m - 1
    BY <2>2
  <2>4. b[j] <= b[m - 1]
    BY <2>3, BoundsRise
  <2> QED BY <2>1, <2>4
<1> QED BY <1>2, <1>3, <1>4

(* The runs of an event are the spans that its bounds give. *)
LEMMA EventSpans ==
  ASSUME NEW keys \in Seq(Token), NEW b, NEW runs, Bounds(b, runs, keys, Len(keys)),
         NEW least \in Nat, least > 0, NEW n
  PROVE  EventRuns(n, keys, least) = SpansUpTo(n, b, Len(runs), least)
<1>1. ASSUME NEW r \in SpansUpTo(n, b, Len(runs), least) PROVE r \in EventRuns(n, keys, least)
  <2>1. PICK j \in 1..Len(runs) : b[j] - b[j - 1] >= least /\ r = <<n, b[j - 1] + 1, b[j]>>
    BY <1>1 DEF SpansUpTo
  <2>2. b[j - 1] + 1 \in DOMAIN keys /\ b[j] \in DOMAIN keys /\ Maximal(keys, b[j - 1] + 1, b[j], least)
    BY <2>1, RunIsMaximal
  <2> QED BY <2>1, <2>2, EventRunIn
<1>2. ASSUME NEW r \in EventRuns(n, keys, least) PROVE r \in SpansUpTo(n, b, Len(runs), least)
  <2>1. PICK a \in DOMAIN keys, c \in DOMAIN keys : r = <<n, a, c>> /\ Maximal(keys, a, c, least)
    BY <1>2, EventRunIn
  <2>2. RunFrom(b, Len(runs), a, c, least)
    BY <2>1, MaximalIsRun
  <2>3. PICK j \in 1..Len(runs) : b[j] - b[j - 1] >= least /\ a = b[j - 1] + 1 /\ c = b[j]
    BY <2>2 DEF RunFrom
  <2> QED BY <2>1, <2>3 DEF SpansUpTo
<1> QED BY <1>1, <1>2

-----------------------------------------------------------------------------
(* The positions that runs cover. *)
CellsOf(r) == {<<r[1], c>> : c \in r[2]..r[3]}
Cells(G) == UNION {CellsOf(r) : r \in G}

(* A run covers as many positions as it is long. *)
LEMMA CellsSize ==
  ASSUME NEW r \in Spans
  PROVE  IsFiniteSet(CellsOf(r)) /\ (r[3] + 1 >= r[2] => Cardinality(CellsOf(r)) = r[3] + 1 - r[2])
<1> DEFINE x == r[1]
           a == r[2]
           c == r[3]
<1>1. a \in Nat /\ c \in Nat
  BY DEF Spans
<1>2. CellsOf(r) = {x} \X (a..c)
  BY DEF CellsOf
<1> HIDE DEF x, a, c
<1>3. IsFiniteSet({x}) /\ Cardinality({x}) = 1
  BY FS_Singleton
<1>4. IsFiniteSet(a..c) /\ Cardinality(a..c) = IF a > c THEN 0 ELSE c - a + 1
  BY <1>1, FS_Interval
<1>5. IsFiniteSet({x} \X (a..c)) /\ Cardinality({x} \X (a..c)) = Cardinality({x}) * Cardinality(a..c)
  BY <1>3, <1>4, FS_Product
<1>6. c + 1 >= a => Cardinality(a..c) = c + 1 - a
  BY <1>1, <1>4
<1>7. Cardinality(a..c) \in Nat
  BY <1>4, FS_CardinalityType
<1>8. Cardinality({x} \X (a..c)) = Cardinality(a..c)
  BY <1>3, <1>5, <1>7
<1> QED BY <1>2, <1>5, <1>6, <1>8 DEF a, c

(* A run more covers its own positions. *)
LEMMA CellsStep ==
  ASSUME NEW G, NEW r
  PROVE  Cells(G \cup {r}) = Cells(G) \cup CellsOf(r) /\ Cells({}) = {}
BY DEF Cells

(* Finitely many runs cover finitely many positions. *)
LEMMA CellsFinite ==
  ASSUME NEW G \in SUBSET Spans, IsFiniteSet(G)
  PROVE  IsFiniteSet(Cells(G))
<1> DEFINE Good == {T \in SUBSET G : IsFiniteSet(Cells(T))}
<1>1. {} \in Good
  BY CellsStep, FS_EmptySet
<1>2. ASSUME NEW T \in SUBSET G, NEW x \in G \ T, T \in Good PROVE T \cup {x} \in Good
  <2>1. IsFiniteSet(Cells(T)) /\ IsFiniteSet(CellsOf(x))
    BY <1>2, CellsSize
  <2>2. IsFiniteSet(Cells(T) \cup CellsOf(x))
    BY <2>1, FS_Union
  <2>3. IsFiniteSet(Cells(T \cup {x}))
    BY <2>2, CellsStep
  <2> QED BY <2>3
<1>3. G \in Good
  <2> HIDE DEF Good
  <2> QED BY <1>1, <1>2, SetInduction
<1> QED BY <1>3

(* Presses are the positions covered. *)
LEMMA PressesCells ==
  ASSUME NEW G
  PROVE  PressesIn(G) = Cardinality(Cells(G))
BY DEF PressesIn, Cells, CellsOf

(* A run that covers new positions only adds its own. *)
LEMMA PressesAdd ==
  ASSUME NEW G \in SUBSET Spans, IsFiniteSet(G), NEW r \in Spans, r[3] >= r[2], NEW n, n = r[3] - r[2] + 1,
         Cells(G) \cap CellsOf(r) = {}
  PROVE  /\ PressesIn(G \cup {r}) = PressesIn(G) + n /\ PressesIn(G) \in Nat /\ n \in Nat
         /\ Cardinality(G \cup {r}) = Cardinality(G) + 1 /\ Cardinality(G) \in Nat /\ IsFiniteSet(G \cup {r})
<1>1. IsFiniteSet(Cells(G)) /\ IsFiniteSet(CellsOf(r)) /\ Cardinality(CellsOf(r)) = n /\ n \in Nat
  <2>1. r[2] \in Nat /\ r[3] \in Nat
    BY DEF Spans
  <2>2. r[3] + 1 >= r[2] /\ r[3] + 1 - r[2] = n /\ n \in Nat
    BY <2>1
  <2> QED BY <2>2, CellsFinite, CellsSize
<1>2. Cardinality(Cells(G) \cup CellsOf(r)) = Cardinality(Cells(G)) + Cardinality(CellsOf(r)) - Cardinality(Cells(G) \cap CellsOf(r))
  BY <1>1, FS_Union
<1>3. Cardinality(Cells(G)) \in Nat /\ Cardinality(Cells(G) \cap CellsOf(r)) = 0
  BY <1>1, FS_CardinalityType, FS_EmptySet
<1>4. PressesIn(G \cup {r}) = PressesIn(G) + n /\ PressesIn(G) \in Nat
  <2>1. PressesIn(G \cup {r}) = Cardinality(Cells(G) \cup CellsOf(r)) /\ PressesIn(G) = Cardinality(Cells(G))
    BY CellsStep, PressesCells
  <2> QED BY <1>1, <1>2, <1>3, <2>1
<1>5. r \notin G
  <2>1. <<r[1], r[2]>> \in CellsOf(r)
    BY DEF CellsOf, Spans
  <2> QED BY <2>1 DEF Cells
<1>6. Cardinality(G \cup {r}) = Cardinality(G) + 1 /\ Cardinality(G) \in Nat /\ IsFiniteSet(G \cup {r})
  BY <1>5, FS_AddElement, FS_CardinalityType
<1> QED BY <1>1, <1>4, <1>6

(* Runs and presses, key by key. *)
OfKey(G, K, k) == {r \in G : K[r] = k}
TalliedFor(f, G, K, k) == PairOf(f, k) = <<Cardinality(OfKey(G, K, k)), PressesIn(OfKey(G, K, k))>>

(* A tally that is right stays so with a run that covers new positions. *)
LEMMA TalliedAdd ==
  ASSUME NEW G \in SUBSET Spans, IsFiniteSet(G), NEW r \in Spans, r[3] >= r[2], NEW n, n = r[3] - r[2] + 1,
         Cells(G) \cap CellsOf(r) = {}, NEW f, NEW g, NEW K, Added(f, g, K[r], n), NEW j, TalliedFor(f, G, K, j)
  PROVE  TalliedFor(g, G \cup {r}, K, j)
<1> DEFINE A == OfKey(G, K, j)
<1>1. A \in SUBSET Spans /\ IsFiniteSet(A) /\ Cells(A) \cap CellsOf(r) = {}
  <2>1. A \subseteq G
    BY DEF OfKey
  <2>2. IsFiniteSet(A)
    BY <2>1, FS_Subset
  <2> QED BY <2>1, <2>2 DEF Cells
<1>2. PairOf(f, j) = <<Cardinality(A), PressesIn(A)>>
  BY DEF TalliedFor
<1>3. CASE j = K[r]
  <2>1. OfKey(G \cup {r}, K, j) = A \cup {r}
    BY <1>3 DEF OfKey
  <2> HIDE DEF A
  <2>2. PressesIn(A \cup {r}) = PressesIn(A) + n /\ Cardinality(A \cup {r}) = Cardinality(A) + 1
    BY <1>1, PressesAdd
  <2>3. PairOf(g, j) = <<PairOf(f, j)[1] + 1, PairOf(f, j)[2] + n>>
    BY <1>3 DEF Added
  <2>4. PairOf(f, j)[1] = Cardinality(A) /\ PairOf(f, j)[2] = PressesIn(A)
    BY <1>2
  <2>5. PairOf(g, j) = <<Cardinality(A \cup {r}), PressesIn(A \cup {r})>>
    BY <2>2, <2>3, <2>4
  <2> QED BY <2>1, <2>5 DEF TalliedFor
<1>4. CASE j # K[r]
  <2>1. OfKey(G \cup {r}, K, j) = A
    BY <1>4 DEF OfKey
  <2>2. PairOf(g, j) = PairOf(f, j)
    BY <1>4 DEF Added
  <2> QED BY <1>2, <2>1, <2>2 DEF TalliedFor
<1> QED BY <1>3, <1>4

-----------------------------------------------------------------------------
(* What counting keys and runs keeps, without an error or with one. *)
Retained == {a \in Accumulators : \E st \in Stocks, bad \in BOOLEAN : Stocked(a, st, bad)}

(* A stock is a reason to be retained. *)
LEMMA StockedRetained ==
  ASSUME NEW acc \in Accumulators, NEW st \in Stocks, NEW bad \in BOOLEAN, Stocked(acc, st, bad)
  PROVE  acc \in Retained
BY DEF Retained

(* A key keeps a stock. *)
LEMMA ObserveKeyRetained ==
  ASSUME NEW acc \in Retained, NEW k \in Token
  PROVE  ObserveKey(acc, k) \in Retained
<1>1. PICK st \in Stocks, bad \in BOOLEAN : Stocked(acc, st, bad)
  BY DEF Retained
<1>2. PICK more : more = [st EXCEPT !.keys = @ \cup {k}]
  OBVIOUS
<1>3. PICK b : b = IncrementBounded(acc, "keys", k, Size[k], 1, "distinct_keys")
  OBVIOUS
<1>4. acc \in Accumulators /\ "distinct_keys" \in Errors /\ "distinct_keys" # NoError
  BY DEF Retained, Errors, NoError
<1>5. b \in Accumulators /\ more \in Stocks /\ Stocked(b, more, bad)
  BY <1>1, <1>2, <1>3, <1>4, KeyIncrement
<1>6. b = ObserveKey(acc, k)
  BY <1>3 DEF ObserveKey
<1> QED BY <1>5, <1>6, StockedRetained

(* A key pressed once is no repetition. *)
LEMMA RepeatIgnored ==
  ASSUME NEW acc, NEW r \in KeyRuns, ~(r.presses >= 2)
  PROVE  ObserveRepeatedKey(acc, r) = acc
<1>1. r.presses \in Nat
  BY DEF KeyRuns
<1>2. r.presses < 2
  BY <1>1
<1> QED BY <1>2 DEF ObserveRepeatedKey

(* A run keeps a stock. *)
LEMMA RepeatRetained ==
  ASSUME NEW acc \in Retained, NEW r \in KeyRuns
  PROVE  ObserveRepeatedKey(acc, r) \in Retained
<1>1. CASE r.presses >= 2
  <2>1. PICK st \in Stocks, bad \in BOOLEAN : Stocked(acc, st, bad)
    BY DEF Retained
  <2>2. PICK more : more = [st EXCEPT !.repeated_keys = @ \cup {r.key}]
    OBVIOUS
  <2>3. PICK b : b = ObserveRepeatedKey(acc, r)
    OBVIOUS
  <2>4. acc \in Accumulators
    BY DEF Retained
  <2>5. b \in Accumulators /\ more \in Stocks /\ Stocked(b, more, bad)
    BY <1>1, <2>1, <2>2, <2>3, <2>4, RepeatStep
  <2> QED BY <2>3, <2>5, StockedRetained
<1>2. CASE ~(r.presses >= 2)
  BY <1>2, RepeatIgnored
<1> QED BY <1>1, <1>2

(* The accumulator after each key. *)
ObserveKeySteps(f, keys, base) ==
  /\ f \in [0..Len(keys) -> Retained] /\ f[0] = base
  /\ \A n \in 1..Len(keys) : f[n] = ObserveKey(f[n - 1], keys[n])
(* These are the values its fold takes. *)
LEMMA ObserveKeyFold ==
  ASSUME NEW keys \in Seq(Token), NEW base \in Retained
  PROVE  \E f : ObserveKeySteps(f, keys, base) /\ ObserveKeys(base, keys) = f[Len(keys)]
<1> DEFINE N == Len(keys)
           step == [p \in (1..N) \X Retained |-> ObserveKey(p[2], keys[p[1]])]
           Eq(g) == g = [s \in SUBSET DOMAIN keys |->
                           IF s = {} THEN base ELSE ObserveKey(g[s \ {Max(s)}], keys[Max(s)])]
           it == CHOOSE g : Eq(g)
<1>1. N \in Nat /\ DOMAIN keys = 1..N /\ \A i \in 1..N : keys[i] \in Token
  OBVIOUS
<1>2. base \in Retained
  OBVIOUS
<1>3. ASSUME NEW a \in Retained, NEW x \in Token
      PROVE  ObserveKey(a, x) \in Retained
  BY ObserveKeyRetained
<1>4. step \in [(1..N) \X Retained -> Retained]
  BY <1>1, <1>3
<1>5. ASSUME NEW i \in 1..N, NEW a \in Retained PROVE step[<<i, a>>] = ObserveKey(a, keys[i])
  OBVIOUS
<1>6. ObserveKeys(base, keys) = it[DOMAIN keys]
  BY DEF FoldLeft, MapThenFoldSet, ObserveKeys
<1> HIDE DEF step, N, it
<1>7. \E g : Eq(g)
  <2>1. PICK g : SetRecursion(g, N, Retained, base, step)
    <3> HIDE DEF Eq
    <3> QED BY <1>1, <1>2, <1>4, FoldExists
  <2>2. g \in [SUBSET (1..N) -> Retained] /\ g[{}] = base
    BY <2>1 DEF SetRecursion
  <2>3. ASSUME NEW s \in SUBSET (1..N), s # {}
        PROVE  g[s] = ObserveKey(g[s \ {Max(s)}], keys[Max(s)])
    <3>1. Max(s) \in 1..N
      BY <1>1, <2>3, MaxIn
    <3>2. g[s \ {Max(s)}] \in Retained
      BY <2>2
    <3>3. g[s] = step[<<Max(s), g[s \ {Max(s)}]>>]
      BY <2>1, <2>3 DEF SetRecursion
    <3> QED BY <1>5, <3>1, <3>2, <3>3
  <2>4. ASSUME NEW s \in SUBSET DOMAIN keys
        PROVE  g[s] = IF s = {} THEN base ELSE ObserveKey(g[s \ {Max(s)}], keys[Max(s)])
    BY <1>1, <2>2, <2>3
  <2>5. DOMAIN g = SUBSET DOMAIN keys /\ g = [s \in DOMAIN g |-> g[s]]
    BY <1>1, <2>2
  <2>6. Eq(g)
    BY <2>4, <2>5
  <2> HIDE DEF Eq
  <2> QED BY <2>6
<1>8. Eq(it)
  <2> HIDE DEF Eq
  <2> QED BY <1>7 DEF it
<1>9. it[{}] = base
  BY <1>8
<1>10. \A s \in SUBSET (1..N) : s # {} /\ it[s \ {Max(s)}] \in Retained
         => it[s] = step[<<Max(s), it[s \ {Max(s)}]>>]
  <2> SUFFICES ASSUME NEW s \in SUBSET (1..N), s # {}, it[s \ {Max(s)}] \in Retained
               PROVE  it[s] = step[<<Max(s), it[s \ {Max(s)}]>>]
    OBVIOUS
  <2>1. Max(s) \in 1..N
    BY <1>1, MaxIn
  <2>2. it[s] = ObserveKey(it[s \ {Max(s)}], keys[Max(s)])
    BY <1>1, <1>8
  <2> QED BY <1>5, <2>1, <2>2
<1>11. Folding(it, N, Retained, base, step)
  <2> HIDE DEF Eq
  <2> QED BY <1>9, <1>10 DEF Folding
<1>12. PICK f : Unfolding(f, it, N, Retained, base, step)
  <2> HIDE DEF Eq
  <2> QED BY <1>1, <1>2, <1>4, <1>11, FoldValue
<1>13. f \in [0..N -> Retained] /\ f[0] = base
  BY <1>12 DEF Recursion, Unfolding
<1>14. ASSUME NEW n \in 1..N PROVE f[n] = ObserveKey(f[n - 1], keys[n])
  <2>1. f[n - 1] \in Retained
    BY <1>1, <1>13
  <2>2. f[n] = step[<<n, f[n - 1]>>]
    BY <1>12 DEF Recursion, Unfolding
  <2> QED BY <1>5, <2>1, <2>2
<1>15. ObserveKeySteps(f, keys, base)
  BY <1>13, <1>14 DEF ObserveKeySteps, N
<1> QED BY <1>1, <1>6, <1>12, <1>15 DEF N, Unfolding

(* The accumulator after each run. *)
ObserveRepeatSteps(f, runs, base) ==
  /\ f \in [0..Len(runs) -> Retained] /\ f[0] = base
  /\ \A n \in 1..Len(runs) : f[n] = ObserveRepeatedKey(f[n - 1], runs[n])
(* These are the values its fold takes. *)
LEMMA ObserveRepeatFold ==
  ASSUME NEW runs \in Seq(KeyRuns), NEW base \in Retained
  PROVE  \E f : ObserveRepeatSteps(f, runs, base) /\ ObserveRepeatedKeys(base, runs) = f[Len(runs)]
<1> DEFINE N == Len(runs)
           step == [p \in (1..N) \X Retained |-> ObserveRepeatedKey(p[2], runs[p[1]])]
           Eq(g) == g = [s \in SUBSET DOMAIN runs |->
                           IF s = {} THEN base ELSE ObserveRepeatedKey(g[s \ {Max(s)}], runs[Max(s)])]
           it == CHOOSE g : Eq(g)
<1>1. N \in Nat /\ DOMAIN runs = 1..N /\ \A i \in 1..N : runs[i] \in KeyRuns
  OBVIOUS
<1>2. base \in Retained
  OBVIOUS
<1>3. ASSUME NEW a \in Retained, NEW x \in KeyRuns
      PROVE  ObserveRepeatedKey(a, x) \in Retained
  BY RepeatRetained
<1>4. step \in [(1..N) \X Retained -> Retained]
  BY <1>1, <1>3
<1>5. ASSUME NEW i \in 1..N, NEW a \in Retained PROVE step[<<i, a>>] = ObserveRepeatedKey(a, runs[i])
  OBVIOUS
<1>6. ObserveRepeatedKeys(base, runs) = it[DOMAIN runs]
  BY DEF FoldLeft, MapThenFoldSet, ObserveRepeatedKeys
<1> HIDE DEF step, N, it
<1>7. \E g : Eq(g)
  <2>1. PICK g : SetRecursion(g, N, Retained, base, step)
    <3> HIDE DEF Eq
    <3> QED BY <1>1, <1>2, <1>4, FoldExists
  <2>2. g \in [SUBSET (1..N) -> Retained] /\ g[{}] = base
    BY <2>1 DEF SetRecursion
  <2>3. ASSUME NEW s \in SUBSET (1..N), s # {}
        PROVE  g[s] = ObserveRepeatedKey(g[s \ {Max(s)}], runs[Max(s)])
    <3>1. Max(s) \in 1..N
      BY <1>1, <2>3, MaxIn
    <3>2. g[s \ {Max(s)}] \in Retained
      BY <2>2
    <3>3. g[s] = step[<<Max(s), g[s \ {Max(s)}]>>]
      BY <2>1, <2>3 DEF SetRecursion
    <3> QED BY <1>5, <3>1, <3>2, <3>3
  <2>4. ASSUME NEW s \in SUBSET DOMAIN runs
        PROVE  g[s] = IF s = {} THEN base ELSE ObserveRepeatedKey(g[s \ {Max(s)}], runs[Max(s)])
    BY <1>1, <2>2, <2>3
  <2>5. DOMAIN g = SUBSET DOMAIN runs /\ g = [s \in DOMAIN g |-> g[s]]
    BY <1>1, <2>2
  <2>6. Eq(g)
    BY <2>4, <2>5
  <2> HIDE DEF Eq
  <2> QED BY <2>6
<1>8. Eq(it)
  <2> HIDE DEF Eq
  <2> QED BY <1>7 DEF it
<1>9. it[{}] = base
  BY <1>8
<1>10. \A s \in SUBSET (1..N) : s # {} /\ it[s \ {Max(s)}] \in Retained
         => it[s] = step[<<Max(s), it[s \ {Max(s)}]>>]
  <2> SUFFICES ASSUME NEW s \in SUBSET (1..N), s # {}, it[s \ {Max(s)}] \in Retained
               PROVE  it[s] = step[<<Max(s), it[s \ {Max(s)}]>>]
    OBVIOUS
  <2>1. Max(s) \in 1..N
    BY <1>1, MaxIn
  <2>2. it[s] = ObserveRepeatedKey(it[s \ {Max(s)}], runs[Max(s)])
    BY <1>1, <1>8
  <2> QED BY <1>5, <2>1, <2>2
<1>11. Folding(it, N, Retained, base, step)
  <2> HIDE DEF Eq
  <2> QED BY <1>9, <1>10 DEF Folding
<1>12. PICK f : Unfolding(f, it, N, Retained, base, step)
  <2> HIDE DEF Eq
  <2> QED BY <1>1, <1>2, <1>4, <1>11, FoldValue
<1>13. f \in [0..N -> Retained] /\ f[0] = base
  BY <1>12 DEF Recursion, Unfolding
<1>14. ASSUME NEW n \in 1..N PROVE f[n] = ObserveRepeatedKey(f[n - 1], runs[n])
  <2>1. f[n - 1] \in Retained
    BY <1>1, <1>13
  <2>2. f[n] = step[<<n, f[n - 1]>>]
    BY <1>12 DEF Recursion, Unfolding
  <2> QED BY <1>5, <2>1, <2>2
<1>15. ObserveRepeatSteps(f, runs, base)
  BY <1>13, <1>14 DEF ObserveRepeatSteps, N
<1> QED BY <1>1, <1>6, <1>12, <1>15 DEF N, Unfolding

-----------------------------------------------------------------------------
(* The repeated runs of one event, one after the other. *)
Repeats(acc, G, K) ==
  /\ acc.repeated_key_runs = Cardinality(G) /\ acc.repeated_key_presses = PressesIn(G)
  /\ acc.error = NoError => \A k : TalliedFor(acc.repeated_keys, G, K, k)
WithRepeats(st, S) == [st EXCEPT !.repeated_keys = @ \cup S]
KeysOf(G, K) == {K[r] : r \in G}
RepeatedTo(a, acc, st, bad, G, K, H) ==
  /\ a \in Accumulators /\ WithRepeats(st, KeysOf(H, K)) \in Stocks
  /\ Stocked(a, WithRepeats(st, KeysOf(H, K)), bad)
  /\ RepeatedOnly(acc, a) /\ Repeats(a, G \cup H, K)
  /\ a.error = NoError => acc.error = NoError

(* One repetition more is in the stock, in the totals and in the tally of
   its key. *)
LEMMA RepeatedToStep ==
  ASSUME NEW acc \in Accumulators, NEW st \in Stocks, NEW bad \in BOOLEAN, NEW G \in SUBSET Spans, IsFiniteSet(G),
         NEW K, NEW H \in SUBSET Spans, IsFiniteSet(H), NEW a, RepeatedTo(a, acc, st, bad, G, K, H),
         NEW r \in Spans, r[3] >= r[2], Cells(G \cup H) \cap CellsOf(r) = {},
         NEW kr \in KeyRuns, kr.presses >= 2, kr.key = K[r], kr.presses = r[3] - r[2] + 1
  PROVE  RepeatedTo(ObserveRepeatedKey(a, kr), acc, st, bad, G, K, H \cup {r})
<1> DEFINE now == WithRepeats(st, KeysOf(H, K))
           F == G \cup H
           n == kr.presses
<1>1. /\ a \in Accumulators /\ now \in Stocks /\ Stocked(a, now, bad) /\ RepeatedOnly(acc, a)
      /\ a.repeated_key_runs = Cardinality(F) /\ a.repeated_key_presses = PressesIn(F)
      /\ a.error = NoError => acc.error = NoError
      /\ a.error = NoError => \A k : TalliedFor(a.repeated_keys, F, K, k)
  BY DEF RepeatedTo, Repeats
<1>2. F \in SUBSET Spans /\ IsFiniteSet(F) /\ Cells(F) \cap CellsOf(r) = {}
  BY FS_Union
<1>3. WithRepeats(st, KeysOf(H \cup {r}, K)) = [now EXCEPT !.repeated_keys = @ \cup {kr.key}]
  <2>1. KeysOf(H \cup {r}, K) = KeysOf(H, K) \cup {kr.key}
    BY DEF KeysOf
  <2>2. DOMAIN st = {"keys", "repeated_keys", "mappings", "control_keys"}
    BY DEF Stocks
  <2> QED BY <2>1, <2>2 DEF WithRepeats, Stocks
<1> DEFINE more == WithRepeats(st, KeysOf(H \cup {r}, K))
           b == ObserveRepeatedKey(a, kr)
<1> HIDE DEF now, F, n, more, b
<1>4. /\ b \in Accumulators /\ more \in Stocks /\ Stocked(b, more, bad) /\ RepeatedOnly(a, b)
      /\ b.repeated_key_runs = a.repeated_key_runs + 1
      /\ b.repeated_key_presses = a.repeated_key_presses + kr.presses
      /\ b.error = NoError => a.error = NoError /\ Added(a.repeated_keys, b.repeated_keys, kr.key, kr.presses)
  BY <1>1, <1>3, RepeatStep DEF more, b
<1>5. RepeatedOnly(acc, b)
  BY <1>1, <1>4, RepeatedOnlyTwice
<1>6. PressesIn(F \cup {r}) = PressesIn(F) + n /\ Cardinality(F \cup {r}) = Cardinality(F) + 1
  BY <1>2, PressesAdd DEF n
<1>7. G \cup (H \cup {r}) = F \cup {r}
  BY DEF F
<1>8. ASSUME b.error = NoError, NEW k PROVE TalliedFor(b.repeated_keys, F \cup {r}, K, k)
  <2>1. Added(a.repeated_keys, b.repeated_keys, K[r], n) /\ TalliedFor(a.repeated_keys, F, K, k)
    BY <1>1, <1>4, <1>8 DEF n
  <2>2. n = r[3] - r[2] + 1
    BY DEF n
  <2> QED BY <1>2, <2>1, <2>2, TalliedAdd
<1>9. Repeats(b, F \cup {r}, K)
  BY <1>1, <1>4, <1>6, <1>8 DEF Repeats, n
<1>10. b.error = NoError => acc.error = NoError
  BY <1>1, <1>4
<1> QED BY <1>4, <1>5, <1>7, <1>9, <1>10 DEF RepeatedTo, more, b

(* There are finitely many spans. *)
LEMMA SpansFinite ==
  ASSUME NEW m \in Nat, NEW n, NEW b, NEW least
  PROVE  IsFiniteSet(SpansUpTo(n, b, m, least))
<1> DEFINE J == {i \in 1..m : b[i] - b[i - 1] >= least}
           f == [j \in J |-> <<n, b[j - 1] + 1, b[j]>>]
<1>1. IsFiniteSet(J)
  <2>1. J \subseteq 1..m /\ IsFiniteSet(1..m)
    BY FS_Interval
  <2> QED BY <2>1, FS_Subset
<1>2. f \in Surjection(J, SpansUpTo(n, b, m, least))
  BY DEF Surjection, SpansUpTo
<1> HIDE DEF J, f
<1> QED BY <1>1, <1>2, FS_Surjection

(* A later span of an event covers positions that earlier ones do not. *)
LEMMA SpanApart ==
  ASSUME NEW b, NEW runs, NEW keys, NEW N \in Nat, Bounds(b, runs, keys, N), NEW m \in 1..Len(runs),
         NEW n \in Nat, NEW least, NEW G \in SUBSET Spans, \A r \in G : r[1] # n,
         NEW r, r = <<n, b[m - 1] + 1, b[m]>>
  PROVE  /\ r \in Spans /\ r[3] >= r[2] /\ r[3] - r[2] + 1 = runs[m].presses
         /\ Cells(G \cup SpansUpTo(n, b, m - 1, least)) \cap CellsOf(r) = {}
<1>1. b[m - 1] \in Nat /\ b[m] \in Nat /\ b[m - 1] < b[m] /\ runs[m].presses = b[m] - b[m - 1]
  BY BoundsFacts DEF BoundsShape
<1>2. r \in Spans /\ r[3] >= r[2] /\ r[1] = n /\ r[3] - r[2] + 1 = runs[m].presses
  <2>1. r[1] = n /\ r[2] = b[m - 1] + 1 /\ r[3] = b[m]
    OBVIOUS
  <2>2. r \in Spans
    BY <1>1, SMTT(20) DEF Spans
  <2>3. r[3] >= r[2] /\ r[3] - r[2] + 1 = b[m] - b[m - 1]
    BY <1>1, <2>1, SMTT(20)
  <2> QED BY <1>1, <2>1, <2>2, <2>3
<1>3. ASSUME NEW p \in Cells(G \cup SpansUpTo(n, b, m - 1, least)), p \in CellsOf(r) PROVE FALSE
  <2>1. PICK q \in G \cup SpansUpTo(n, b, m - 1, least) : p \in CellsOf(q)
    BY <1>3 DEF Cells
  <2>2. PICK c \in q[2]..q[3] : p = <<q[1], c>>
    BY <2>1 DEF CellsOf
  <2>3. PICK d \in (b[m - 1] + 1)..b[m] : p = <<n, d>>
    BY <1>3 DEF CellsOf
  <2>4. q[1] = n /\ c = d
    BY <2>2, <2>3
  <2>5. q \in SpansUpTo(n, b, m - 1, least)
    BY <2>1, <2>4
  <2>6. q[3] <= b[m - 1]
    BY <2>5, SpansStep
  <2>7. q \in Spans
    <3>1. Len(runs) \in Nat
      BY BoundsFacts DEF BoundsShape
    <3>2. m - 1 \in 0..Len(runs)
      BY <3>1
    <3> QED BY <2>5, <3>2, SpansUpToType
  <2>8. q[3] \in Nat /\ q[2] \in Nat
    BY <2>7 DEF Spans
  <2> QED BY <1>1, <2>4, <2>6, <2>8
<1> QED BY <1>2, <1>3

(* After an event all of its repetitions are counted. *)
LEMMA RepeatedToEnd ==
  ASSUME NEW keys \in Seq(Token), NEW n \in Nat, NEW G \in SUBSET Spans, IsFiniteSet(G), \A r \in G : r[1] # n,
         NEW K, \A r \in EventRuns(n, keys, 2) : K[r] = keys[r[2]],
         NEW acc \in Accumulators, NEW st \in Stocks, NEW bad \in BOOLEAN, Stocked(acc, st, bad), Repeats(acc, G, K)
  PROVE  RepeatedTo(ObserveRepeatedKeys(acc, RunsOf(keys)), acc, st, bad, G, K, EventRuns(n, keys, 2))
<1> DEFINE runs == RunsOf(keys)
           N == Len(keys)
           L == Len(runs)
<1>1. PICK b : Bounds(b, runs, keys, N)
  BY RunBounds
<1>2. runs \in Seq(KeyRuns) /\ N \in Nat /\ L \in Nat
  BY <1>1 DEF Bounds
<1>3. acc \in Retained
  BY StockedRetained
<1>4. PICK f : ObserveRepeatSteps(f, runs, acc) /\ ObserveRepeatedKeys(acc, runs) = f[L]
  <2> HIDE DEF runs
  <2> QED BY <1>2, <1>3, ObserveRepeatFold
<1> DEFINE H(m) == SpansUpTo(n, b, m, 2)
           To(m) == RepeatedTo(f[m], acc, st, bad, G, K, H(m))
           D == {m \in 0..L : To(m)}
<1>5. EventRuns(n, keys, 2) = H(L)
  <2>1. Bounds(b, runs, keys, Len(keys))
    BY <1>1
  <2> HIDE DEF runs
  <2> QED BY <2>1, EventSpans
<1> HIDE DEF runs, N, L
<1>6. f[0] = acc /\ \A m \in 1..L : f[m] = ObserveRepeatedKey(f[m - 1], runs[m])
  BY <1>4 DEF ObserveRepeatSteps, L
<1>7. To(0)
  <2>1. H(0) = {}
    <3>1. 1..0 = {}
      OBVIOUS
    <3> QED BY <3>1 DEF SpansUpTo
  <2>2. KeysOf({}, K) = {} /\ G \cup {} = G
    BY DEF KeysOf
  <2>3. WithRepeats(st, {}) = st
    BY DEF WithRepeats, Stocks
  <2>4. RepeatedOnly(acc, acc)
    BY DEF RepeatedOnly, Accumulators
  <2> HIDE DEF H
  <2> QED BY <1>6, <2>1, <2>2, <2>3, <2>4 DEF RepeatedTo
<1>8. ASSUME NEW m \in 1..L, To(m - 1) PROVE To(m)
  <2> DEFINE r == <<n, b[m - 1] + 1, b[m]>>
  <2>1. m \in 1..Len(runs) /\ m \in 0..L /\ m - 1 \in 0..L /\ m - 1 \in Nat /\ m \in Nat
    BY <1>2 DEF L
  <2>2. /\ b[m - 1] \in Nat /\ b[m] \in Nat /\ b[m - 1] < b[m] /\ runs[m].presses = b[m] - b[m - 1] /\ runs[m] \in KeyRuns
        /\ \A c \in (b[m - 1] + 1)..b[m] : keys[c] = runs[m].key
    <3>1. BoundsShape(b, runs, keys, N)
      BY <1>1, <1>2, BoundsFacts
    <3> QED BY <2>1, <3>1 DEF BoundsShape
  <2>3. H(m) = H(m - 1) \cup (IF b[m] - b[m - 1] >= 2 THEN {r} ELSE {})
    BY <1>1, <1>2, <2>1, SpansStep
  <2>4. H(m - 1) \in SUBSET Spans /\ IsFiniteSet(H(m - 1)) /\ H(m) \in SUBSET Spans
    BY <1>1, <1>2, <2>1, SpansUpToType, SpansFinite DEF L
  <2>5. f[m] = ObserveRepeatedKey(f[m - 1], runs[m])
    BY <1>6
  <2>6. CASE b[m] - b[m - 1] >= 2
    <3>1. r \in Spans /\ r[3] >= r[2] /\ r[3] - r[2] + 1 = runs[m].presses /\ Cells(G \cup H(m - 1)) \cap CellsOf(r) = {}
      BY <1>1, <1>2, <2>1, SpanApart
    <3>2. H(m) = H(m - 1) \cup {r}
      BY <2>3, <2>6
    <3>3. r \in EventRuns(n, keys, 2)
      <4>1. r \in H(L)
        BY <2>6 DEF SpansUpTo
      <4> QED BY <1>5, <4>1
    <3>4. K[r] = runs[m].key
      <4>1. K[r] = keys[b[m - 1] + 1]
        BY <3>3
      <4>2. b[m - 1] + 1 \in (b[m - 1] + 1)..b[m]
        BY <2>2
      <4> QED BY <2>2, <4>1, <4>2
    <3>5. runs[m].presses >= 2
      BY <2>2, <2>6
    <3>6. RepeatedTo(f[m - 1], acc, st, bad, G, K, H(m - 1))
      BY <1>8
    <3> HIDE DEF r, H
    <3>7. RepeatedTo(ObserveRepeatedKey(f[m - 1], runs[m]), acc, st, bad, G, K, H(m - 1) \cup {r})
      BY <2>2, <2>4, <3>1, <3>4, <3>5, <3>6, RepeatedToStep
    <3> QED BY <2>5, <3>2, <3>7
  <2>7. CASE ~(b[m] - b[m - 1] >= 2)
    <3>1. H(m) = H(m - 1)
      BY <2>3, <2>7
    <3>2. f[m] = f[m - 1]
      BY <2>2, <2>5, <2>7, RepeatIgnored
    <3> HIDE DEF H
    <3> QED BY <1>8, <3>1, <3>2
  <2> QED BY <2>6, <2>7
<1>9. To(L)
  <2> HIDE DEF To
  <2>1. 0 \in D
    BY <1>2, <1>7 DEF L
  <2>2. \A m \in 1..L : m - 1 \in D => m \in D
    BY <1>8
  <2>3. L \in Nat
    BY <1>2 DEF L
  <2> HIDE DEF D
  <2>4. 0..L \subseteq D
    BY <2>1, <2>2, <2>3, RangeInduction
  <2> QED BY <2>3, <2>4 DEF D
<1> QED BY <1>4, <1>5, <1>9 DEF runs, L

-----------------------------------------------------------------------------
(* The repeated motions of one event, one after the other. *)
MotionsTallied(f, G, K) ==
  /\ f \in Maps(Token, Numbers) /\ DOMAIN f = KeysOf(G, K) \cap Motions
  /\ \A k \in Motions : TalliedFor(f, G, K, k)

(* A repeated motion more is in the tally. *)
LEMMA MotionsStep ==
  ASSUME NEW G \in SUBSET Spans, IsFiniteSet(G), NEW K, NEW f, MotionsTallied(f, G, K),
         NEW r \in Spans, r[3] >= r[2], Cells(G) \cap CellsOf(r) = {},
         NEW kr \in KeyRuns, kr.presses >= 3, kr.key = K[r], kr.presses = r[3] - r[2] + 1
  PROVE  MotionsTallied(MotionStep(f, kr), G \cup {r}, K)
<1>1. /\ kr.key \in Token /\ kr.presses \in Nat /\ f \in Maps(Token, Numbers)
      /\ DOMAIN f = KeysOf(G, K) \cap Motions /\ KeysOf(G \cup {r}, K) = KeysOf(G, K) \cup {kr.key}
  BY DEF KeyRuns, MotionsTallied, KeysOf
<1>2. CASE kr.key \in Motions
  <2> DEFINE g == TallyPair(f, kr.key, kr.presses)
  <2>1. MotionStep(f, kr) = g
    BY <1>2 DEF MotionStep
  <2>2. g \in Maps(Token, Numbers) /\ DOMAIN g = DOMAIN f \cup {kr.key}
    BY <1>1, TallyPairMap, TallyPairDomain
  <2>3. Added(f, g, kr.key, kr.presses)
    BY <1>1, TallyPairCount DEF Added
  <2> HIDE DEF g
  <2>4. ASSUME NEW k \in Motions PROVE TalliedFor(g, G \cup {r}, K, k)
    <3>1. TalliedFor(f, G, K, k)
      BY DEF MotionsTallied
    <3>2. Added(f, g, K[r], kr.presses)
      BY <2>3
    <3> QED BY <3>1, <3>2, TalliedAdd
  <2> QED BY <1>1, <1>2, <2>1, <2>2, <2>4 DEF MotionsTallied
<1>3. CASE kr.key \notin Motions
  <2>1. MotionStep(f, kr) = f
    BY <1>3 DEF MotionStep
  <2>2. ASSUME NEW k \in Motions PROVE TalliedFor(f, G \cup {r}, K, k)
    <3>1. OfKey(G \cup {r}, K, k) = OfKey(G, K, k)
      BY <1>3 DEF OfKey
    <3>2. TalliedFor(f, G, K, k)
      BY DEF MotionsTallied
    <3> QED BY <3>1, <3>2 DEF TalliedFor
  <2>3. DOMAIN f = KeysOf(G \cup {r}, K) \cap Motions
    BY <1>1, <1>3
  <2> QED BY <1>1, <2>1, <2>2, <2>3 DEF MotionsTallied
<1> QED BY <1>2, <1>3

(* A motion pressed less than three times is not counted. *)
LEMMA MotionIgnored ==
  ASSUME NEW f, NEW r \in KeyRuns, ~(r.presses >= 3)
  PROVE  MotionStep(f, r) = f
BY DEF MotionStep

(* After an event all of its repeated motions are counted. *)
LEMMA MotionsEnd ==
  ASSUME NEW keys \in Seq(Token), NEW n \in Nat, NEW G \in SUBSET Spans, IsFiniteSet(G), \A r \in G : r[1] # n,
         NEW K, \A r \in EventRuns(n, keys, 3) : K[r] = keys[r[2]], NEW base, MotionsTallied(base, G, K)
  PROVE  MotionsTallied(CountMotions(base, RunsOf(keys)), G \cup EventRuns(n, keys, 3), K)
<1> DEFINE runs == RunsOf(keys)
           N == Len(keys)
           L == Len(runs)
<1>1. PICK b : Bounds(b, runs, keys, N)
  BY RunBounds
<1>2. runs \in Seq(KeyRuns) /\ N \in Nat /\ L \in Nat
  BY <1>1 DEF Bounds
<1>3. base \in Maps(Token, Numbers)
  BY DEF MotionsTallied
<1>4. PICK f : MotionSteps(f, runs, base) /\ CountMotions(base, runs) = f[L]
  <2> HIDE DEF runs
  <2> QED BY <1>2, <1>3, MotionFold
<1> DEFINE H(m) == SpansUpTo(n, b, m, 3)
           To(m) == MotionsTallied(f[m], G \cup H(m), K)
           D == {m \in 0..L : To(m)}
<1>5. EventRuns(n, keys, 3) = H(L)
  <2>1. Bounds(b, runs, keys, Len(keys))
    BY <1>1
  <2> HIDE DEF runs
  <2> QED BY <2>1, EventSpans
<1> HIDE DEF runs, N, L
<1>6. f[0] = base /\ \A m \in 1..L : f[m] = MotionStep(f[m - 1], runs[m])
  BY <1>4 DEF MotionSteps, L
<1>7. To(0)
  <2>1. H(0) = {}
    <3>1. 1..0 = {}
      OBVIOUS
    <3> QED BY <3>1 DEF SpansUpTo
  <2>2. G \cup {} = G
    OBVIOUS
  <2> HIDE DEF H
  <2> QED BY <1>6, <2>1, <2>2
<1>8. ASSUME NEW m \in 1..L, To(m - 1) PROVE To(m)
  <2> DEFINE r == <<n, b[m - 1] + 1, b[m]>>
  <2>1. m \in 1..Len(runs) /\ m \in 0..L /\ m - 1 \in 0..L /\ m - 1 \in Nat /\ m \in Nat
    BY <1>2 DEF L
  <2>2. /\ b[m - 1] \in Nat /\ b[m] \in Nat /\ b[m - 1] < b[m] /\ runs[m].presses = b[m] - b[m - 1] /\ runs[m] \in KeyRuns
        /\ \A c \in (b[m - 1] + 1)..b[m] : keys[c] = runs[m].key
    <3>1. BoundsShape(b, runs, keys, N)
      BY <1>1, <1>2, BoundsFacts
    <3> QED BY <2>1, <3>1 DEF BoundsShape
  <2>3. H(m) = H(m - 1) \cup (IF b[m] - b[m - 1] >= 3 THEN {r} ELSE {})
    BY <1>1, <1>2, <2>1, SpansStep
  <2>4. G \cup H(m - 1) \in SUBSET Spans /\ IsFiniteSet(G \cup H(m - 1))
    <3>1. H(m - 1) \in SUBSET Spans /\ IsFiniteSet(H(m - 1))
      BY <1>1, <1>2, <2>1, SpansUpToType, SpansFinite DEF L
    <3> QED BY <3>1, FS_Union
  <2>5. f[m] = MotionStep(f[m - 1], runs[m])
    BY <1>6
  <2>6. CASE b[m] - b[m - 1] >= 3
    <3>1. r \in Spans /\ r[3] >= r[2] /\ r[3] - r[2] + 1 = runs[m].presses /\ Cells(G \cup H(m - 1)) \cap CellsOf(r) = {}
      BY <1>1, <1>2, <2>1, SpanApart
    <3>2. G \cup H(m) = (G \cup H(m - 1)) \cup {r}
      BY <2>3, <2>6
    <3>3. r \in EventRuns(n, keys, 3)
      <4>1. r \in H(L)
        BY <2>6 DEF SpansUpTo
      <4> QED BY <1>5, <4>1
    <3>4. K[r] = runs[m].key
      <4>1. K[r] = keys[b[m - 1] + 1]
        BY <3>3
      <4>2. b[m - 1] + 1 \in (b[m - 1] + 1)..b[m]
        BY <2>2
      <4> QED BY <2>2, <4>1, <4>2
    <3>5. runs[m].presses >= 3
      BY <2>2, <2>6
    <3>6. MotionsTallied(f[m - 1], G \cup H(m - 1), K)
      BY <1>8
    <3> HIDE DEF r, H
    <3>7. MotionsTallied(MotionStep(f[m - 1], runs[m]), (G \cup H(m - 1)) \cup {r}, K)
      BY <2>2, <2>4, <3>1, <3>4, <3>5, <3>6, MotionsStep
    <3> QED BY <2>5, <3>2, <3>7
  <2>7. CASE ~(b[m] - b[m - 1] >= 3)
    <3>1. H(m) = H(m - 1)
      BY <2>3, <2>7
    <3>2. f[m] = f[m - 1]
      BY <2>2, <2>5, <2>7, MotionIgnored
    <3> HIDE DEF H
    <3> QED BY <1>8, <3>1, <3>2
  <2> QED BY <2>6, <2>7
<1>9. To(L)
  <2> HIDE DEF To
  <2>1. 0 \in D
    BY <1>2, <1>7 DEF L
  <2>2. \A m \in 1..L : m - 1 \in D => m \in D
    BY <1>8
  <2>3. L \in Nat
    BY <1>2 DEF L
  <2> HIDE DEF D
  <2>4. 0..L \subseteq D
    BY <2>1, <2>2, <2>3, RangeInduction
  <2> QED BY <2>3, <2>4 DEF D
<1> QED BY <1>4, <1>5, <1>9 DEF runs, L

(* The keys of one event, one after the other: where a position holds a key. *)
At(C, K, k) == {p \in C : K[p] = k}
CountedFor(f, C, K, k) == CountOf(f, k) = Cardinality(At(C, K, k))
Counts(f, C, K) == \A k : CountedFor(f, C, K, k)

(* A count that is right stays so with a position more. *)
LEMMA CountsAdd ==
  ASSUME NEW C, IsFiniteSet(C), NEW p, p \notin C, NEW f, NEW g, NEW K, Incremented(f, g, K[p], 1), Counts(f, C, K)
  PROVE  Counts(g, C \cup {p}, K)
<1> SUFFICES ASSUME NEW j PROVE CountedFor(g, C \cup {p}, K, j)
  BY DEF Counts
<1> DEFINE A == At(C, K, j)
<1>1. CountOf(f, j) = Cardinality(A) /\ IsFiniteSet(A) /\ p \notin A
  <2>1. A \subseteq C
    BY DEF At
  <2> QED BY <2>1, FS_Subset DEF Counts, CountedFor
<1>2. CASE j = K[p]
  <2>1. At(C \cup {p}, K, j) = A \cup {p}
    BY <1>2 DEF At
  <2> HIDE DEF A
  <2>2. Cardinality(A \cup {p}) = Cardinality(A) + 1
    BY <1>1, FS_AddElement
  <2> QED BY <1>1, <1>2, <2>1, <2>2 DEF Incremented, CountedFor
<1>3. CASE j # K[p]
  <2>1. At(C \cup {p}, K, j) = A
    BY <1>3 DEF At
  <2> QED BY <1>1, <1>3, <2>1 DEF Incremented, CountedFor
<1> QED BY <1>2, <1>3

WithKeys(st, S) == [st EXCEPT !.keys = @ \cup S]
KeysTo(a, acc, st, bad, C, K, R) ==
  /\ a \in Accumulators /\ WithKeys(st, KeysOf(R, K)) \in Stocks
  /\ Stocked(a, WithKeys(st, KeysOf(R, K)), bad) /\ KeyOnly(acc, a)
  /\ a.error = NoError => acc.error = NoError /\ Counts(a.keys, C \cup R, K)

(* One key more is in the stock and in its count. *)
LEMMA KeysToStep ==
  ASSUME NEW acc \in Accumulators, NEW st \in Stocks, NEW bad \in BOOLEAN, NEW C, NEW R, IsFiniteSet(C \cup R),
         NEW K, NEW a, KeysTo(a, acc, st, bad, C, K, R), NEW p, p \notin C \cup R, K[p] \in Token
  PROVE  KeysTo(ObserveKey(a, K[p]), acc, st, bad, C, K, R \cup {p})
<1> DEFINE now == WithKeys(st, KeysOf(R, K))
           more == WithKeys(st, KeysOf(R \cup {p}, K))
           b == ObserveKey(a, K[p])
           k == K[p]
<1>1. /\ a \in Accumulators /\ now \in Stocks /\ Stocked(a, now, bad) /\ KeyOnly(acc, a)
      /\ a.error = NoError => acc.error = NoError /\ Counts(a.keys, C \cup R, K)
  BY DEF KeysTo
<1>2. more = [now EXCEPT !.keys = @ \cup {k}]
  <2>1. KeysOf(R \cup {p}, K) = KeysOf(R, K) \cup {k}
    BY DEF KeysOf
  <2> QED BY <2>1 DEF WithKeys, Stocks
<1>3. b = IncrementBounded(a, "keys", k, Size[k], 1, "distinct_keys") /\ k \in Token
  BY DEF ObserveKey
<1>4. "distinct_keys" \in Errors /\ "distinct_keys" # NoError
  BY DEF Errors, NoError
<1> HIDE DEF now, more, b
<1>5. /\ b \in Accumulators /\ more \in Stocks /\ Stocked(b, more, bad) /\ KeyOnly(a, b)
      /\ b.error = NoError => a.error = NoError /\ Incremented(a.keys, b.keys, k, 1)
  <2> HIDE DEF k
  <2> QED BY <1>1, <1>2, <1>3, <1>4, KeyIncrement
<1>6. KeyOnly(acc, b)
  BY <1>1, <1>5, KeyOnlyTwice
<1>7. ASSUME b.error = NoError PROVE acc.error = NoError /\ Counts(b.keys, C \cup (R \cup {p}), K)
  <2>1. Counts(b.keys, (C \cup R) \cup {p}, K)
    BY <1>1, <1>5, <1>7, CountsAdd
  <2>2. (C \cup R) \cup {p} = C \cup (R \cup {p})
    OBVIOUS
  <2> QED BY <1>1, <1>5, <1>7, <2>1, <2>2
<1> QED BY <1>5, <1>6, <1>7 DEF KeysTo, more, b

(* After an event all of its keys are counted. *)
LEMMA KeysToEnd ==
  ASSUME NEW keys \in Seq(Token), NEW n \in Nat, NEW C, IsFiniteSet(C), \A p \in C : p[1] # n,
         NEW K, \A i \in 1..Len(keys) : K[<<n, i>>] = keys[i],
         NEW acc \in Accumulators, NEW st \in Stocks, NEW bad \in BOOLEAN, Stocked(acc, st, bad),
         acc.error = NoError => Counts(acc.keys, C, K)
  PROVE  KeysTo(ObserveKeys(acc, keys), acc, st, bad, C, K, Row(n, Len(keys)))
<1> DEFINE L == Len(keys)
<1>1. L \in Nat /\ \A i \in 1..L : keys[i] \in Token
  OBVIOUS
<1>2. acc \in Retained
  BY StockedRetained
<1>3. PICK f : ObserveKeySteps(f, keys, acc) /\ ObserveKeys(acc, keys) = f[L]
  BY <1>2, ObserveKeyFold
<1> DEFINE To(m) == KeysTo(f[m], acc, st, bad, C, K, Row(n, m))
           D == {m \in 0..L : To(m)}
<1> HIDE DEF L
<1>4. f[0] = acc /\ \A m \in 1..L : f[m] = ObserveKey(f[m - 1], keys[m])
  BY <1>3 DEF ObserveKeySteps, L
<1>5. To(0)
  <2>1. Row(n, 0) = {}
    BY RowStep
  <2>2. KeysOf({}, K) = {} /\ C \cup {} = C
    BY DEF KeysOf
  <2>3. WithKeys(st, {}) = st
    BY DEF WithKeys, Stocks
  <2>4. KeyOnly(acc, acc)
    BY DEF KeyOnly, Accumulators
  <2> QED BY <1>4, <2>1, <2>2, <2>3, <2>4 DEF KeysTo
<1>6. ASSUME NEW m \in 1..L, To(m - 1) PROVE To(m)
  <2> DEFINE p == <<n, m>>
             q == m - 1
             R == Row(n, q)
  <2>1. q \in Nat /\ q + 1 = m
    BY <1>1
  <2>2. Row(n, m) = R \cup {p} /\ p \notin R
    BY <2>1, RowStep
  <2>3. p \notin C
    OBVIOUS
  <2>4. IsFiniteSet(C \cup R)
    BY <2>1, RowSize, FS_Union
  <2>5. K[p] = keys[m] /\ K[p] \in Token
    BY <1>1 DEF L
  <2>6. KeysTo(f[m - 1], acc, st, bad, C, K, R)
    BY <1>6
  <2> HIDE DEF p, R
  <2>7. KeysTo(ObserveKey(f[m - 1], K[p]), acc, st, bad, C, K, R \cup {p})
    BY <2>2, <2>3, <2>4, <2>5, <2>6, KeysToStep
  <2>8. f[m] = ObserveKey(f[m - 1], K[p])
    BY <1>4, <2>5
  <2> QED BY <2>2, <2>7, <2>8
<1>7. To(L)
  <2> HIDE DEF To
  <2>1. 0 \in D
    BY <1>1, <1>5
  <2>2. \A m \in 1..L : m - 1 \in D => m \in D
    BY <1>6
  <2> HIDE DEF D
  <2>4. 0..L \subseteq D
    BY <1>1, <2>1, <2>2, RangeInduction
  <2> QED BY <1>1, <2>4 DEF D
<1> QED BY <1>3, <1>7 DEF L

-----------------------------------------------------------------------------
(* The digits of a count that is going on after m keys, and the digits of    *)
(* the counts that these keys complete.                                      *)
Active(keys, m) == {j \in 1..m : \E a \in 1..j : keys[a] # "0" /\ \A c \in a..m : keys[c] \in Digits}
Prefixed(keys, m) ==
  {q \in (1..m) \X (1..m) : keys[q[1]] \in Countable \ Digits /\ q[2] \in Active(keys, q[1] - 1)}
Placed(n, q) == <<<<n, q[1]>>, <<n, q[2]>>>>
PrefixDigits(n, keys, m) == {Placed(n, q) : q \in Prefixed(keys, m)}

(* The digits going on after one key more. *)
LEMMA ActiveStep ==
  ASSUME NEW keys, NEW m \in Nat
  PROVE  /\ Active(keys, m + 1)
              = IF keys[m + 1] \notin Digits THEN {}
                ELSE Active(keys, m) \cup (IF keys[m + 1] # "0" \/ Active(keys, m) # {} THEN {m + 1} ELSE {})
         /\ Active(keys, 0) = {} /\ Active(keys, m) \subseteq 1..m
<1>1. Active(keys, 0) = {} /\ Active(keys, m) \subseteq 1..m
  BY DEF Active
<1>2. CASE keys[m + 1] \notin Digits
  <2>1. ASSUME NEW j \in Active(keys, m + 1) PROVE FALSE
    <3>1. PICK a \in 1..j : keys[a] # "0" /\ \A c \in a..(m + 1) : keys[c] \in Digits
      BY <2>1 DEF Active
    <3>2. j \in 1..(m + 1) /\ m + 1 \in a..(m + 1)
      BY <2>1 DEF Active
    <3> QED BY <1>2, <3>1, <3>2
  <2> QED BY <1>1, <1>2, <2>1
<1>3. CASE keys[m + 1] \in Digits
  <2> DEFINE X == IF keys[m + 1] # "0" \/ Active(keys, m) # {} THEN {m + 1} ELSE {}
  <2>1. ASSUME NEW j \in Active(keys, m) PROVE j \in Active(keys, m + 1) /\ m + 1 \in Active(keys, m + 1)
    <3>1. PICK a \in 1..j : keys[a] # "0" /\ \A c \in a..m : keys[c] \in Digits
      BY <2>1 DEF Active
    <3>2. j \in 1..m /\ j \in 1..(m + 1) /\ m + 1 \in 1..(m + 1) /\ a \in 1..(m + 1)
      BY <2>1 DEF Active
    <3>3. \A c \in a..(m + 1) : c = m + 1 \/ c \in a..m
      BY <3>2
    <3>4. \A c \in a..(m + 1) : keys[c] \in Digits
      BY <1>3, <3>1, <3>3
    <3> QED BY <3>1, <3>2, <3>4 DEF Active
  <2>2. ASSUME keys[m + 1] # "0" PROVE m + 1 \in Active(keys, m + 1)
    <3>1. m + 1 \in 1..(m + 1) /\ \A c \in (m + 1)..(m + 1) : keys[c] \in Digits
      BY <1>3
    <3> QED BY <2>2, <3>1 DEF Active
  <2>3. ASSUME NEW j \in Active(keys, m + 1) PROVE j \in Active(keys, m) \cup X
    <3>1. PICK a \in 1..j : keys[a] # "0" /\ \A c \in a..(m + 1) : keys[c] \in Digits
      BY <2>3 DEF Active
    <3>2. j \in 1..(m + 1)
      BY <2>3 DEF Active
    <3>3. \A c \in a..m : keys[c] \in Digits
      BY <3>1, <3>2
    <3>4. CASE j # m + 1
      <4>1. j \in 1..m
        BY <3>2, <3>4
      <4> QED BY <3>1, <3>3, <4>1 DEF Active
    <3>5. CASE j = m + 1 /\ a = m + 1
      BY <3>1, <3>5
    <3>6. CASE j = m + 1 /\ a # m + 1
      <4>1. a \in 1..m /\ a \in 1..a
        BY <3>2, <3>6
      <4>2. a \in Active(keys, m)
        BY <3>1, <3>3, <4>1 DEF Active
      <4> QED BY <3>6, <4>2
    <3> QED BY <3>4, <3>5, <3>6
  <2>4. Active(keys, m + 1) = Active(keys, m) \cup X
    <3>1. ASSUME NEW j \in X PROVE j \in Active(keys, m + 1)
      BY <2>1, <2>2, <3>1
    <3> HIDE DEF X
    <3> QED BY <2>1, <2>3, <3>1
  <2> QED BY <1>1, <1>3, <2>4
<1> QED BY <1>2, <1>3

(* What the validator of counts knows after m keys. *)
Counting(s, keys, m) ==
  /\ s \in CountStates /\ s.digits <= m /\ Active(keys, m) = (m + 1 - s.digits)..m
  /\ IsFiniteSet(Prefixed(keys, m)) /\ s.presses = Cardinality(Prefixed(keys, m))
  /\ s.occurrences = Cardinality({q[1] : q \in Prefixed(keys, m)})

(* The digits of completed counts after one key more. *)
LEMMA PrefixedStep ==
  ASSUME NEW keys, NEW m \in Nat
  PROVE  /\ Prefixed(keys, m + 1)
              = Prefixed(keys, m) \cup (IF keys[m + 1] \in Countable \ Digits THEN {m + 1} \X Active(keys, m) ELSE {})
         /\ \A q \in Prefixed(keys, m) : q[1] \in 1..m
         /\ Prefixed(keys, 0) = {}
<1>1. Active(keys, m) \subseteq 1..m
  BY DEF Active
<1>2. \A q \in Prefixed(keys, m) : q[1] \in 1..m
  BY DEF Prefixed
<1>3. Prefixed(keys, 0) = {}
  BY DEF Prefixed
<1>4. ASSUME NEW q \in Prefixed(keys, m + 1)
      PROVE  q \in Prefixed(keys, m) \/ (q \in {m + 1} \X Active(keys, m) /\ keys[m + 1] \in Countable \ Digits)
  <2>1. /\ q \in (1..(m + 1)) \X (1..(m + 1)) /\ keys[q[1]] \in Countable \ Digits /\ q[2] \in Active(keys, q[1] - 1)
    BY <1>4 DEF Prefixed
  <2>2. CASE q[1] = m + 1
    <3>1. q[1] - 1 = m
      BY <2>2
    <3>2. q[2] \in Active(keys, m)
      BY <2>1, <3>1
    <3> QED BY <2>1, <2>2, <3>2
  <2>3. CASE q[1] # m + 1
    <3>1. q[1] \in 1..m
      BY <2>1, <2>3
    <3>2. q[2] \in 1..(q[1] - 1)
      BY <2>1 DEF Active
    <3>3. q[2] \in 1..m
      BY <3>1, <3>2
    <3>4. q \in (1..m) \X (1..m)
      BY <2>1, <3>1, <3>3
    <3> QED BY <2>1, <3>4 DEF Prefixed
  <2> QED BY <2>2, <2>3
<1>5. ASSUME NEW q \in Prefixed(keys, m) PROVE q \in Prefixed(keys, m + 1)
  <2>1. 1..m \subseteq 1..(m + 1)
    OBVIOUS
  <2> QED BY <1>5, <2>1 DEF Prefixed
<1>6. ASSUME NEW q \in {m + 1} \X Active(keys, m), keys[m + 1] \in Countable \ Digits PROVE q \in Prefixed(keys, m + 1)
  <2>1. q[1] = m + 1 /\ q[2] \in Active(keys, m) /\ q = <<q[1], q[2]>>
    OBVIOUS
  <2>2. q[2] \in 1..(m + 1) /\ q[1] \in 1..(m + 1)
    BY <1>1, <2>1
  <2>3. q[1] - 1 = m
    BY <2>1
  <2>4. q[2] \in Active(keys, q[1] - 1) /\ keys[q[1]] \in Countable \ Digits
    BY <1>6, <2>1, <2>3
  <2>5. q \in (1..(m + 1)) \X (1..(m + 1))
    BY <2>1, <2>2
  <2> QED BY <2>4, <2>5 DEF Prefixed
<1>7. Prefixed(keys, m + 1)
        = Prefixed(keys, m) \cup (IF keys[m + 1] \in Countable \ Digits THEN {m + 1} \X Active(keys, m) ELSE {})
  BY <1>4, <1>5, <1>6
<1> QED BY <1>2, <1>3, <1>7

(* CountStep keeps what it should know of the keys so far. *)
LEMMA CountingStep ==
  ASSUME NEW keys, NEW m \in Nat, NEW s, Counting(s, keys, m)
  PROVE  Counting(CountStep(s, keys[m + 1]), keys, m + 1)
<1> DEFINE k == keys[m + 1]
           d == s.digits
           P == Prefixed(keys, m)
           A == Active(keys, m)
           B == Active(keys, m + 1)
           Q == Prefixed(keys, m + 1)
           heads(S) == {q[1] : q \in S}
           t == CountStep(s, k)
<1>1. /\ s \in CountStates /\ d \in Nat /\ d <= m /\ A = (m + 1 - d)..m
      /\ IsFiniteSet(P) /\ s.presses = Cardinality(P) /\ s.occurrences = Cardinality(heads(P))
      /\ s.presses \in Nat /\ s.occurrences \in Nat
  BY DEF Counting, CountStates
<1>2. /\ B = IF k \notin Digits THEN {} ELSE A \cup (IF k # "0" \/ A # {} THEN {m + 1} ELSE {})
      /\ Q = P \cup (IF k \in Countable \ Digits THEN {m + 1} \X A ELSE {})
      /\ \A q \in P : q[1] \in 1..m
  BY ActiveStep, PrefixedStep
<1>3. d = 0 <=> A = {}
  <2>1. d # 0 => m \in A
    BY <1>1
  <2>2. d = 0 => A = {}
    BY <1>1
  <2> QED BY <2>1, <2>2
<1>4. t = CountStep(s, k) /\ (d = 0 \/ d > 0)
  BY <1>1
<1> HIDE DEF P, A, B, Q, k, t, d
<1>5. ASSUME t \in CountStates, t.digits <= m + 1, B = (m + 2 - t.digits)..(m + 1), IsFiniteSet(Q),
             t.presses = Cardinality(Q), t.occurrences = Cardinality(heads(Q))
      PROVE  Counting(t, keys, m + 1)
  <2>1. m + 1 + 1 - t.digits = m + 2 - t.digits
    BY <1>5 DEF CountStates
  <2> QED BY <1>5, <2>1 DEF Counting, B, Q
<1>6. CASE d = 0 /\ k \in Digits \ {"0"}
  <2>1. B = {m + 1} /\ Q = P
    BY <1>2, <1>3, <1>6
  <2>2. t = [s EXCEPT !.digits = 1]
    BY <1>4, <1>6 DEF CountStep, d
  <2>3. t \in CountStates /\ t.digits = 1 /\ t.presses = s.presses /\ t.occurrences = s.occurrences
    BY <1>1, <2>2 DEF CountStates
  <2>4. (m + 2 - 1)..(m + 1) = {m + 1}
    OBVIOUS
  <2>5. Counting(t, keys, m + 1)
    BY <1>1, <1>5, <2>1, <2>3, <2>4
  <2> QED BY <2>5 DEF t, k
<1>7. CASE d = 0 /\ k \notin Digits \ {"0"}
  <2>1. B = {} /\ Q = P
    BY <1>2, <1>3, <1>7
  <2>2. t = [s EXCEPT !.digits = 0]
    BY <1>4, <1>7 DEF CountStep, d
  <2>3. t \in CountStates /\ t.digits = 0 /\ t.presses = s.presses /\ t.occurrences = s.occurrences
    BY <1>1, <2>2 DEF CountStates
  <2>4. (m + 2 - 0)..(m + 1) = {}
    OBVIOUS
  <2>5. Counting(t, keys, m + 1)
    BY <1>1, <1>5, <2>1, <2>3, <2>4
  <2> QED BY <2>5 DEF t, k
<1>8. CASE d > 0 /\ k \in Digits
  <2>1. B = A \cup {m + 1} /\ Q = P
    BY <1>2, <1>3, <1>8
  <2>2. t = [s EXCEPT !.digits = @ + 1]
    BY <1>1, <1>4, <1>8 DEF CountStep, d
  <2>3. t \in CountStates /\ t.digits = d + 1 /\ t.presses = s.presses /\ t.occurrences = s.occurrences
    BY <1>1, <2>2 DEF CountStates, d
  <2>4. A \cup {m + 1} = (m + 2 - (d + 1))..(m + 1) /\ d + 1 <= m + 1
    BY <1>1
  <2>5. Counting(t, keys, m + 1)
    BY <1>1, <1>5, <2>1, <2>3, <2>4
  <2> QED BY <2>5 DEF t, k
<1>9. CASE d > 0 /\ k \notin Digits /\ k \in Countable
  <2>1. B = {} /\ Q = P \cup ({m + 1} \X A)
    BY <1>2, <1>9
  <2>2. t = [digits |-> 0, occurrences |-> s.occurrences + 1, presses |-> s.presses + d]
    BY <1>1, <1>4, <1>9 DEF CountStep, d
  <2>3. t \in CountStates /\ t.digits = 0 /\ t.presses = s.presses + d /\ t.occurrences = s.occurrences + 1
    BY <1>1, <2>2 DEF CountStates
  <2>4. (m + 2 - 0)..(m + 1) = {}
    OBVIOUS
  <2>5. IsFiniteSet(A) /\ Cardinality(A) = d
    <3>1. m + 1 - d \in Int /\ m \in Int
      BY <1>1
    <3>2. IsFiniteSet((m + 1 - d)..m) /\ Cardinality((m + 1 - d)..m) = IF m + 1 - d > m THEN 0 ELSE m - (m + 1 - d) + 1
      BY <3>1, FS_Interval
    <3>3. ~(m + 1 - d > m) /\ m - (m + 1 - d) + 1 = d
      BY <1>1, <1>9
    <3> QED BY <1>1, <3>2, <3>3
  <2>6. IsFiniteSet({m + 1} \X A) /\ Cardinality({m + 1} \X A) = d
    <3>1. IsFiniteSet({m + 1}) /\ Cardinality({m + 1}) = 1
      BY FS_Singleton
    <3>2. IsFiniteSet({m + 1} \X A) /\ Cardinality({m + 1} \X A) = Cardinality({m + 1}) * Cardinality(A)
      BY <2>5, <3>1, FS_Product
    <3> QED BY <1>1, <2>5, <3>1, <3>2
  <2>7. P \cap ({m + 1} \X A) = {}
    BY <1>2
  <2>8. IsFiniteSet(Q) /\ Cardinality(Q) = s.presses + d
    <3> DEFINE C == {m + 1} \X A
    <3> HIDE DEF C
    <3>1. IsFiniteSet(P \cup C) /\ Cardinality(P \cup C) = Cardinality(P) + Cardinality(C) - Cardinality(P \cap C)
      BY <1>1, <2>6, FS_Union DEF C
    <3>2. Cardinality(P \cap C) = 0
      BY <2>7, FS_EmptySet DEF C
    <3>3. Cardinality(C) = d /\ Q = P \cup C
      BY <2>1, <2>6 DEF C
    <3> QED BY <1>1, <3>1, <3>2, <3>3
  <2>9. heads(Q) = heads(P) \cup {m + 1} /\ m + 1 \notin heads(P)
    <3>1. PICK j \in A : TRUE
      BY <1>3, <1>9
    <3>2. <<m + 1, j>> \in Q
      BY <2>1
    <3>3. \A q \in {m + 1} \X A : q[1] = m + 1
      OBVIOUS
    <3>4. \A q \in Q : q \in P \/ q[1] = m + 1
      BY <2>1, <3>3
    <3>5. m + 1 \in heads(Q) /\ P \subseteq Q
      <4>1. <<m + 1, j>>[1] = m + 1
        OBVIOUS
      <4> QED BY <2>1, <3>2, <4>1
    <3> QED BY <1>2, <3>4, <3>5
  <2>10. Cardinality(heads(Q)) = s.occurrences + 1
    <3>1. IsFiniteSet(heads(P))
      <4> DEFINE g == [q \in P |-> q[1]]
      <4>1. g \in Surjection(P, heads(P))
        BY DEF Surjection
      <4> HIDE DEF g, heads
      <4> QED BY <1>1, <4>1, FS_Surjection
    <3> HIDE DEF heads
    <3> QED BY <1>1, <2>9, <3>1, FS_AddElement
  <2>11. Counting(t, keys, m + 1)
    <3>1. t.digits <= m + 1 /\ B = (m + 2 - t.digits)..(m + 1)
      BY <2>1, <2>3, <2>4
    <3> HIDE DEF heads
    <3> QED BY <1>5, <2>3, <2>8, <2>10, <3>1
  <2> QED BY <2>11 DEF t, k
<1>10. CASE d > 0 /\ k \notin Digits /\ k \notin Countable
  <2>1. B = {} /\ Q = P
    BY <1>2, <1>10
  <2>2. t = [s EXCEPT !.digits = 0]
    BY <1>1, <1>4, <1>10 DEF CountStep, d
  <2>3. t \in CountStates /\ t.digits = 0 /\ t.presses = s.presses /\ t.occurrences = s.occurrences
    BY <1>1, <2>2 DEF CountStates
  <2>4. (m + 2 - 0)..(m + 1) = {}
    OBVIOUS
  <2>5. Counting(t, keys, m + 1)
    BY <1>1, <1>5, <2>1, <2>3, <2>4
  <2> QED BY <2>5 DEF t, k
<1> QED BY <1>4, <1>6, <1>7, <1>8, <1>9, <1>10

(* The fold counts the digits of the counts that are completed, and the
   counts. *)
LEMMA PrefixesCounted ==
  ASSUME NEW keys \in Seq(Token)
  PROVE  /\ CountPrefixes(keys) \in CountStates /\ IsFiniteSet(Prefixed(keys, Len(keys)))
         /\ CountPrefixes(keys).presses = Cardinality(Prefixed(keys, Len(keys)))
         /\ CountPrefixes(keys).occurrences = Cardinality({q[1] : q \in Prefixed(keys, Len(keys))})
<1> DEFINE L == Len(keys)
<1>1. PICK f : CountSteps(f, keys) /\ CountPrefixes(keys) = f[L]
  BY CountFold
<1> DEFINE D == {m \in 0..L : Counting(f[m], keys, m)}
<1>2. L \in Nat
  OBVIOUS
<1> HIDE DEF L
<1>3. f[0] = NoCounts /\ \A m \in 1..L : f[m] = CountStep(f[m - 1], keys[m])
  BY <1>1 DEF CountSteps, L
<1>4. Counting(f[0], keys, 0)
  <2>1. NoCounts \in CountStates /\ NoCounts.digits = 0 /\ NoCounts.presses = 0 /\ NoCounts.occurrences = 0
    BY DEF NoCounts, CountStates
  <2>2. Active(keys, 0) = {} /\ (0 + 1 - 0)..0 = {}
    BY DEF Active
  <2>3. Prefixed(keys, 0) = {} /\ {q[1] : q \in {}} = {}
    BY PrefixedStep
  <2>4. IsFiniteSet({}) /\ Cardinality({}) = 0
    BY FS_EmptySet
  <2>5. NoCounts.digits <= 0 /\ Active(keys, 0) = (0 + 1 - NoCounts.digits)..0
    BY <2>1, <2>2
  <2>6. IsFiniteSet(Prefixed(keys, 0)) /\ NoCounts.presses = Cardinality(Prefixed(keys, 0))
    BY <2>1, <2>3, <2>4
  <2>7. NoCounts.occurrences = Cardinality({q[1] : q \in Prefixed(keys, 0)})
    BY <2>1, <2>3, <2>4
  <2> QED BY <1>3, <2>1, <2>5, <2>6, <2>7 DEF Counting
<1>5. ASSUME NEW m \in 1..L, Counting(f[m - 1], keys, m - 1) PROVE Counting(f[m], keys, m)
  <2> DEFINE q == m - 1
  <2>1. q \in Nat /\ q + 1 = m
    BY <1>2
  <2>2. Counting(f[q], keys, q)
    BY <1>5
  <2> HIDE DEF q
  <2>3. Counting(CountStep(f[q], keys[q + 1]), keys, q + 1)
    BY <2>1, <2>2, CountingStep
  <2>4. f[m] = CountStep(f[q], keys[q + 1])
    BY <1>3, <2>1 DEF q
  <2> QED BY <2>1, <2>3, <2>4
<1>6. Counting(f[L], keys, L)
  <2>1. 0 \in D
    BY <1>2, <1>4
  <2>2. \A m \in 1..L : m - 1 \in D => m \in D
    BY <1>5
  <2> HIDE DEF D
  <2>3. 0..L \subseteq D
    BY <1>2, <2>1, <2>2, RangeInduction
  <2> QED BY <1>2, <2>3 DEF D
<1> QED BY <1>1, <1>6 DEF Counting, L

(* The digits of counts in a log are those of its events. *)
LEMMA DigitIn ==
  ASSUME NEW events \in Logs, NEW r
  PROVE  r \in CountDigits(events)
           <=> \E i \in Of(events, "key_sequence") : r \in PrefixDigits(i, events[i].keys, Len(events[i].keys))
<1>1. ASSUME r \in CountDigits(events)
      PROVE  \E i \in Of(events, "key_sequence") : r \in PrefixDigits(i, events[i].keys, Len(events[i].keys))
  <2> DEFINE p == r[1]
             d == r[2]
             keys == events[p[1]].keys
             q == <<p[2], d[2]>>
  <2>1. /\ p \in Keyed(events) /\ d \in Keyed(events) /\ r = <<p, d>> /\ p[1] = d[1] /\ d[2] < p[2]
        /\ keys[p[2]] \in Countable \ Digits
        /\ \E a \in 1..d[2] : keys[a] # "0" /\ \A c \in a..(p[2] - 1) : keys[c] \in Digits
    BY <1>1 DEF CountDigits
  <2>2. /\ p[1] \in Of(events, "key_sequence") /\ p = <<p[1], p[2]>> /\ d = <<p[1], d[2]>>
        /\ p[2] \in 1..Len(keys) /\ d[2] \in 1..Len(keys)
    BY <2>1, KeyedIn
  <2>3. Len(keys) \in Nat
    <3>1. p[1] \in DOMAIN events /\ events[p[1]].kind = "key_sequence" /\ events[p[1]] \in LogEvents
      BY <2>2, EventAt DEF Of
    <3> QED BY <3>1, EventType
  <2>4. d[2] \in 1..(p[2] - 1)
    BY <2>1, <2>2, <2>3
  <2>5. d[2] \in Active(keys, p[2] - 1)
    <3> HIDE DEF keys, p, d
    <3> QED BY <2>1, <2>4 DEF Active
  <2>6. q \in Prefixed(keys, Len(keys))
    <3> HIDE DEF keys, p, d
    <3> QED BY <2>1, <2>2, <2>5 DEF Prefixed
  <2>7. r = Placed(p[1], q)
    BY <2>1, <2>2 DEF Placed
  <2> QED BY <2>2, <2>6, <2>7 DEF PrefixDigits
<1>2. ASSUME NEW i \in Of(events, "key_sequence"), r \in PrefixDigits(i, events[i].keys, Len(events[i].keys))
      PROVE  r \in CountDigits(events)
  <2> DEFINE keys == events[i].keys
  <2>1. PICK q \in Prefixed(keys, Len(keys)) : r = Placed(i, q)
    BY <1>2 DEF PrefixDigits
  <2>2. i \in DOMAIN events /\ events[i].kind = "key_sequence" /\ events[i] \in LogEvents
    BY EventAt DEF Of
  <2>3. DOMAIN keys = 1..Len(keys) /\ Len(keys) \in Nat
    BY <2>2, EventType
  <2>4. /\ q[1] \in 1..Len(keys) /\ q[2] \in 1..Len(keys) /\ keys[q[1]] \in Countable \ Digits
        /\ q[2] \in Active(keys, q[1] - 1)
    BY DEF Prefixed
  <2>5. PICK a \in 1..q[2] : keys[a] # "0" /\ \A c \in a..(q[1] - 1) : keys[c] \in Digits
    BY <2>4 DEF Active
  <2>6. q[2] \in 1..(q[1] - 1)
    BY <2>4 DEF Active
  <2>7. q[2] < q[1]
    BY <2>3, <2>4, <2>6
  <2>8. <<i, q[1]>> \in Keyed(events) /\ <<i, q[2]>> \in Keyed(events)
    BY <2>3, <2>4 DEF Keyed
  <2>9. r[1] = <<i, q[1]>> /\ r[2] = <<i, q[2]>> /\ r \in Keyed(events) \X Keyed(events)
    BY <2>1, <2>8 DEF Placed
  <2>10. r[1][1] = i /\ r[2][1] = i /\ r[1][2] = q[1] /\ r[2][2] = q[2]
    BY <2>9
  <2> QED BY <2>4, <2>5, <2>7, <2>9, <2>10 DEF CountDigits
<1> QED BY <1>1, <1>2

(* One event more adds the digits of its own counts. *)
LEMMA DigitsAppend ==
  ASSUME NEW events \in Logs, NEW e \in LogEvents
  PROVE  CountDigits(Append(events, e))
           = CountDigits(events)
               \cup (IF e.kind = "key_sequence" THEN PrefixDigits(Len(events) + 1, e.keys, Len(e.keys)) ELSE {})
<1> DEFINE more == Append(events, e)
           n == Len(events) + 1
           kind == "key_sequence"
<1>1. /\ DOMAIN more = DOMAIN events \cup {n} /\ n \notin DOMAIN events /\ more \in Logs
      /\ more[n] = e /\ \A i \in DOMAIN events : more[i] = events[i]
  BY AppendEvent
<1>2. Of(more, kind) = Of(events, kind) \cup (IF e.kind = kind THEN {n} ELSE {}) /\ Of(events, kind) \subseteq DOMAIN events
  BY OfAppend, OfFinite
<1> HIDE DEF more, n
<1>3. ASSUME NEW i \in Of(events, kind) PROVE more[i] = events[i]
  BY <1>1, <1>2
<1>4. ASSUME NEW r
      PROVE  r \in CountDigits(more)
               <=> r \in CountDigits(events) \/ (e.kind = kind /\ r \in PrefixDigits(n, e.keys, Len(e.keys)))
  BY <1>1, <1>2, <1>3, DigitIn
<1> QED BY <1>4 DEF more, n

-----------------------------------------------------------------------------
(* Two sets without a common element. *)
LEMMA ApartSize ==
  ASSUME NEW S, NEW T, IsFiniteSet(S), IsFiniteSet(T), S \cap T = {}
  PROVE  /\ IsFiniteSet(S \cup T) /\ Cardinality(S \cup T) = Cardinality(S) + Cardinality(T)
         /\ Cardinality(S) \in Nat /\ Cardinality(T) \in Nat
<1>1. Cardinality(S \cap T) = 0
  BY FS_EmptySet
<1>2. Cardinality(S) \in Nat /\ Cardinality(T) \in Nat
  BY FS_CardinalityType
<1>3. IsFiniteSet(S \cup T) /\ Cardinality(S \cup T) = Cardinality(S) + Cardinality(T) - Cardinality(S \cap T)
  BY FS_Union
<1> QED BY <1>1, <1>2, <1>3

(* A set has as many elements as its one-to-one image. *)
ImageOf(f, S) == {f[x] : x \in S}
Firsts(D) == {d[1] : d \in D}
OneToOne(f, S) == DOMAIN f = S /\ \A x, y \in S : f[x] = f[y] => x = y

(* A one-to-one image is as large as its preimage. *)
LEMMA ImageSize ==
  ASSUME NEW S, IsFiniteSet(S), NEW f, OneToOne(f, S), NEW T, T = ImageOf(f, S)
  PROVE  IsFiniteSet(T) /\ Cardinality(T) = Cardinality(S)
<1> DEFINE g == [x \in S |-> f[x]]
<1>1. g \in Bijection(S, T)
  <2>1. g \in [S -> T] /\ \A x \in S : g[x] = f[x]
    BY DEF ImageOf
  <2>2. \A x, y \in S : g[x] = g[y] => x = y
    BY <2>1 DEF OneToOne
  <2>3. \A t \in T : \E x \in S : g[x] = t
    BY DEF ImageOf
  <2> HIDE DEF g
  <2> QED BY <2>1, <2>2, <2>3 DEF Bijection, Injection, Surjection, IsInjective
<1> HIDE DEF g
<1>2. ExistsBijection(S, T)
  BY <1>1 DEF ExistsBijection
<1> QED BY <1>2, FS_Bijection

(* What one event adds to the digits of counts. *)
LEMMA PlacedSize ==
  ASSUME NEW keys \in Seq(Token), NEW n, NEW P, P = PrefixDigits(n, keys, Len(keys))
  PROVE  /\ IsFiniteSet(P) /\ Cardinality(P) = CountPrefixes(keys).presses
         /\ IsFiniteSet(Firsts(P))
         /\ Cardinality(Firsts(P)) = CountPrefixes(keys).occurrences
         /\ \A d \in P : d[1][1] = n
<1> DEFINE Q == Prefixed(keys, Len(keys))
           F == Firsts(Q)
           f == [q \in Q |-> Placed(n, q)]
           g == [x \in F |-> <<n, x>>]
<1>1. IsFiniteSet(Q) /\ CountPrefixes(keys).presses = Cardinality(Q) /\ CountPrefixes(keys).occurrences = Cardinality(F)
  BY PrefixesCounted DEF Firsts
<1>2. \A q \in Q : q = <<q[1], q[2]>> /\ q[1] \in 1..Len(keys)
  BY DEF Prefixed
<1>3. P = ImageOf(f, Q)
  BY DEF PrefixDigits, ImageOf
<1>4. \A d \in P : d[1][1] = n
  BY <1>3 DEF Placed, ImageOf
<1>5. Firsts(P) = ImageOf(g, F)
  <2>1. ASSUME NEW q \in Q PROVE f[q][1] = g[q[1]] /\ q[1] \in F
    BY DEF Placed, Firsts
  <2>2. ASSUME NEW x \in F PROVE \E q \in Q : x = q[1]
    BY DEF Firsts
  <2>3. ASSUME NEW d \in P PROVE d[1] \in ImageOf(g, F)
    <3>1. PICK q \in Q : d = f[q]
      <4> HIDE DEF f, g, Q, F
      <4> QED BY <1>3 DEF ImageOf
    <3> HIDE DEF f, g, Q, F
    <3> QED BY <2>1, <3>1 DEF ImageOf
  <2>4. ASSUME NEW x \in F PROVE g[x] \in Firsts(P)
    <3>1. PICK q \in Q : x = q[1]
      <4> HIDE DEF f, g, Q, F
      <4> QED BY <2>2
    <3> HIDE DEF f, g, Q, F
    <3>2. f[q] \in P /\ f[q][1] = g[x]
      BY <1>3, <2>1, <3>1 DEF ImageOf
    <3>3. f[q][1] \in Firsts(P)
      BY <3>2 DEF Firsts
    <3> QED BY <3>2, <3>3
  <2> HIDE DEF f, g, Q, F
  <2>5. Firsts(P) \subseteq ImageOf(g, F)
    BY <2>3 DEF Firsts
  <2>6. ImageOf(g, F) \subseteq Firsts(P)
    BY <2>4 DEF ImageOf
  <2> QED BY <2>5, <2>6
<1>6. OneToOne(f, Q)
  <2> SUFFICES ASSUME NEW x \in Q, NEW y \in Q, f[x] = f[y] PROVE x = y
    BY DEF OneToOne
  <2>1. Placed(n, x) = Placed(n, y)
    OBVIOUS
  <2> HIDE DEF Q
  <2>2. x[1] = y[1] /\ x[2] = y[2]
    BY <2>1 DEF Placed
  <2> QED BY <1>2, <2>2
<1>7. OneToOne(g, F)
  BY DEF OneToOne
<1>8. IsFiniteSet(F)
  <2>1. F \subseteq 1..Len(keys) /\ Len(keys) \in Nat
    BY <1>2 DEF Firsts
  <2>2. IsFiniteSet(1..Len(keys))
    BY <2>1, FS_Interval
  <2> HIDE DEF F
  <2> QED BY <2>1, <2>2, FS_Subset
<1> HIDE DEF f, g, F, Q
<1>9. IsFiniteSet(P) /\ Cardinality(P) = Cardinality(Q)
  BY <1>1, <1>3, <1>6, ImageSize
<1>10. IsFiniteSet(Firsts(P)) /\ Cardinality(Firsts(P)) = Cardinality(F)
  BY <1>5, <1>7, <1>8, ImageSize
<1> QED BY <1>1, <1>4, <1>9, <1>10

(* The digits of counts are where keys are. *)
LEMMA DigitsFinite ==
  ASSUME NEW events \in Logs
  PROVE  /\ IsFiniteSet(CountDigits(events)) /\ IsFiniteSet(Firsts(CountDigits(events)))
         /\ \A d \in CountDigits(events) : d[1] \in Keyed(events)
<1>1. IsFiniteSet(Keyed(events)) /\ \A S \in SUBSET Keyed(events) : IsFiniteSet(S)
  BY KeyedFinite
<1>2. IsFiniteSet(Keyed(events) \X Keyed(events))
  BY <1>1, FS_Product
<1>3. CountDigits(events) \subseteq Keyed(events) \X Keyed(events)
  BY DEF CountDigits
<1>4. Firsts(CountDigits(events)) \subseteq Keyed(events)
  BY <1>3 DEF Firsts
<1>5. \A d \in CountDigits(events) : d[1] \in Keyed(events)
  BY <1>3
<1> QED BY <1>1, <1>2, <1>3, <1>4, <1>5, FS_Subset

DigitsCounted(acc, events) ==
  /\ acc.count_occurrences = Cardinality(Firsts(CountDigits(events)))
  /\ acc.count_digit_presses = Cardinality(CountDigits(events))

(* One event more adds as many as its fold has counted. *)
LEMMA DigitsSize ==
  ASSUME NEW events \in Logs, NEW e \in LogEvents, e.kind = "key_sequence", NEW acc, DigitsCounted(acc, events),
         NEW a, a.count_occurrences = acc.count_occurrences + CountPrefixes(e.keys).occurrences,
         a.count_digit_presses = acc.count_digit_presses + CountPrefixes(e.keys).presses
  PROVE  DigitsCounted(a, Append(events, e))
<1> DEFINE n == Len(events) + 1
           D == CountDigits(events)
           P == PrefixDigits(n, e.keys, Len(e.keys))
           C == CountDigits(Append(events, e))
<1>1. C = D \cup P
  BY DigitsAppend
<1>2. e.keys \in Seq(Token)
  BY EventType
<1>3. /\ IsFiniteSet(P) /\ Cardinality(P) = CountPrefixes(e.keys).presses
      /\ IsFiniteSet(Firsts(P)) /\ Cardinality(Firsts(P)) = CountPrefixes(e.keys).occurrences /\ \A d \in P : d[1][1] = n
  BY <1>2, PlacedSize
<1>4. IsFiniteSet(D) /\ IsFiniteSet(Firsts(D)) /\ \A d \in D : d[1] \in Keyed(events)
  BY DigitsFinite
<1>5. n \notin DOMAIN events
  BY AppendEvent
<1>6. \A d \in D : d[1][1] # n
  BY <1>4, <1>5, KeyedIn
<1> HIDE DEF n, D, P, C
<1>7. D \cap P = {} /\ Firsts(D) \cap Firsts(P) = {} /\ Firsts(C) = Firsts(D) \cup Firsts(P)
  BY <1>1, <1>3, <1>6 DEF Firsts
<1>8. Cardinality(D \cup P) = Cardinality(D) + Cardinality(P)
  BY <1>3, <1>4, <1>7, ApartSize
<1>9. Cardinality(Firsts(D) \cup Firsts(P)) = Cardinality(Firsts(D)) + Cardinality(Firsts(P))
  BY <1>3, <1>4, <1>7, ApartSize
<1>10. acc.count_occurrences = Cardinality(Firsts(D)) /\ acc.count_digit_presses = Cardinality(D)
  BY DEF DigitsCounted, D
<1>11. a.count_occurrences = Cardinality(Firsts(C)) /\ a.count_digit_presses = Cardinality(C)
  BY <1>1, <1>3, <1>7, <1>8, <1>9, <1>10
<1> QED BY <1>11 DEF DigitsCounted, C

-----------------------------------------------------------------------------
(* The sizes of pairs, the times of sessions and the uses of control keys, summed up. *)
LEMMA PairSizeSum ==
  ASSUME NEW S \in SUBSET (TextModes \X Token)
  PROVE  MapThenSumSet(LAMBDA c : Size[c[1]] + Size[c[2]], S) = Weight(PairSize, S)
<1> DEFINE Eq(g) == g = [s \in SUBSET S |-> IF s = {} THEN 0
                           ELSE Size[(CHOOSE x \in s : TRUE)[1]] + Size[(CHOOSE x \in s : TRUE)[2]] + g[s \ {CHOOSE x \in s : TRUE}]]
           it == CHOOSE g : Eq(g)
<1>1. MapThenSumSet(LAMBDA c : Size[c[1]] + Size[c[2]], S) = it[S]
  BY DEF MapThenSumSet, MapThenFoldSet
<1>2. IsFiniteSet(S) /\ \A x \in S : PairSize[x] \in Nat /\ PairSize[x] = Size[x[1]] + Size[x[2]]
  BY PairsFinite, PairSizeType
<1>3. \A s \in SUBSET S : s # {} => Weight(PairSize, s) = PairSize[Pick(s)] + Weight(PairSize, s \ {Pick(s)})
  BY <1>2, WeightRecursion
<1>4. \A s \in SUBSET S : s # {} => Pick(s) \in s /\ PairSize[Pick(s)] = Size[Pick(s)[1]] + Size[Pick(s)[2]]
  <2> SUFFICES ASSUME NEW s \in SUBSET S, s # {} PROVE Pick(s) \in s /\ PairSize[Pick(s)] = Size[Pick(s)[1]] + Size[Pick(s)[2]]
    OBVIOUS
  <2>1. Pick(s) \in s
    BY DEF Pick
  <2> QED BY <1>2, <2>1
<1>5. \E g : Eq(g)
  <2> DEFINE g == [s \in SUBSET S |-> Weight(PairSize, s)]
  <2>1. \A s \in SUBSET S : g[s] = IF s = {} THEN 0 ELSE Size[Pick(s)[1]] + Size[Pick(s)[2]] + g[s \ {Pick(s)}]
    BY <1>3, <1>4, WeightEmpty
  <2>2. Eq(g)
    BY <2>1 DEF Pick
  <2> HIDE DEF g, Eq
  <2> QED BY <2>2
<1>6. Eq(it)
  <2> HIDE DEF Eq
  <2> QED BY <1>5
<1>7. it[{}] = 0 /\ \A s \in SUBSET S : s # {} => it[s] = Size[Pick(s)[1]] + Size[Pick(s)[2]] + it[s \ {Pick(s)}]
  <2> HIDE DEF it
  <2> QED BY <1>6 DEF Pick
<1> HIDE DEF it
<1>8. Summing(it, PairSize, S)
  BY <1>4, <1>7 DEF Summing
<1> QED BY <1>1, <1>2, <1>8, SumValue

Elapsed(events) == [i \in DOMAIN events |-> events[i].elapsed]
Amounts(events) == [i \in Of(events, "control_key_use") |-> events[i].count]

(* The times of ended sessions, summed up. *)
LEMMA ElapsedSum ==
  ASSUME NEW events \in Logs, NEW S \in SUBSET Of(events, "session_end")
  PROVE  MapThenSumSet(LAMBDA i : events[i].elapsed, S) = Weight(Elapsed(events), S)
<1> DEFINE Eq(g) == g = [s \in SUBSET S |-> IF s = {} THEN 0
                           ELSE events[CHOOSE x \in s : TRUE].elapsed + g[s \ {CHOOSE x \in s : TRUE}]]
           it == CHOOSE g : Eq(g)
<1>1. MapThenSumSet(LAMBDA i : events[i].elapsed, S) = it[S]
  BY DEF MapThenSumSet, MapThenFoldSet
<1>2. IsFiniteSet(S) /\ \A x \in S : Elapsed(events)[x] \in Nat /\ Elapsed(events)[x] = events[x].elapsed
  BY OfFinite, EventAt, EventType DEF Elapsed
<1>3. \A s \in SUBSET S : s # {} => Weight(Elapsed(events), s) = Elapsed(events)[Pick(s)] + Weight(Elapsed(events), s \ {Pick(s)})
  BY <1>2, WeightRecursion
<1>4. \A s \in SUBSET S : s # {} => Pick(s) \in s /\ Elapsed(events)[Pick(s)] = events[Pick(s)].elapsed
  <2> SUFFICES ASSUME NEW s \in SUBSET S, s # {} PROVE Pick(s) \in s /\ Elapsed(events)[Pick(s)] = events[Pick(s)].elapsed
    OBVIOUS
  <2>1. Pick(s) \in s
    BY DEF Pick
  <2> QED BY <1>2, <2>1
<1>5. \E g : Eq(g)
  <2> DEFINE g == [s \in SUBSET S |-> Weight(Elapsed(events), s)]
  <2>1. \A s \in SUBSET S : g[s] = IF s = {} THEN 0 ELSE events[Pick(s)].elapsed + g[s \ {Pick(s)}]
    BY <1>3, <1>4, WeightEmpty
  <2>2. Eq(g)
    BY <2>1 DEF Pick
  <2> HIDE DEF g, Eq
  <2> QED BY <2>2
<1>6. Eq(it)
  <2> HIDE DEF Eq
  <2> QED BY <1>5
<1>7. it[{}] = 0 /\ \A s \in SUBSET S : s # {} => it[s] = events[Pick(s)].elapsed + it[s \ {Pick(s)}]
  <2> HIDE DEF it
  <2> QED BY <1>6 DEF Pick
<1> HIDE DEF it
<1>8. Summing(it, Elapsed(events), S)
  BY <1>4, <1>7 DEF Summing
<1> QED BY <1>1, <1>2, <1>8, SumValue

(* The uses of control keys, summed up. *)
LEMMA AmountSum ==
  ASSUME NEW events \in Logs, NEW S \in SUBSET Of(events, "control_key_use")
  PROVE  MapThenSumSet(LAMBDA i : events[i].count, S) = Weight(Amounts(events), S)
<1> DEFINE Eq(g) == g = [s \in SUBSET S |-> IF s = {} THEN 0
                           ELSE events[CHOOSE x \in s : TRUE].count + g[s \ {CHOOSE x \in s : TRUE}]]
           it == CHOOSE g : Eq(g)
<1>1. MapThenSumSet(LAMBDA i : events[i].count, S) = it[S]
  BY DEF MapThenSumSet, MapThenFoldSet
<1>2. IsFiniteSet(S) /\ \A x \in S : Amounts(events)[x] \in Nat /\ Amounts(events)[x] = events[x].count
  BY OfFinite, EventAt, EventType DEF Amounts, Of
<1>3. \A s \in SUBSET S : s # {} => Weight(Amounts(events), s) = Amounts(events)[Pick(s)] + Weight(Amounts(events), s \ {Pick(s)})
  BY <1>2, WeightRecursion
<1>4. \A s \in SUBSET S : s # {} => Pick(s) \in s /\ Amounts(events)[Pick(s)] = events[Pick(s)].count
  <2> SUFFICES ASSUME NEW s \in SUBSET S, s # {} PROVE Pick(s) \in s /\ Amounts(events)[Pick(s)] = events[Pick(s)].count
    OBVIOUS
  <2>1. Pick(s) \in s
    BY DEF Pick
  <2> QED BY <1>2, <2>1
<1>5. \E g : Eq(g)
  <2> DEFINE g == [s \in SUBSET S |-> Weight(Amounts(events), s)]
  <2>1. \A s \in SUBSET S : g[s] = IF s = {} THEN 0 ELSE events[Pick(s)].count + g[s \ {Pick(s)}]
    BY <1>3, <1>4, WeightEmpty
  <2>2. Eq(g)
    BY <2>1 DEF Pick
  <2> HIDE DEF g, Eq
  <2> QED BY <2>2
<1>6. Eq(it)
  <2> HIDE DEF Eq
  <2> QED BY <1>5
<1>7. it[{}] = 0 /\ \A s \in SUBSET S : s # {} => it[s] = events[Pick(s)].count + it[s \ {Pick(s)}]
  <2> HIDE DEF it
  <2> QED BY <1>6 DEF Pick
<1> HIDE DEF it
<1>8. Summing(it, Amounts(events), S)
  BY <1>4, <1>7 DEF Summing
<1> QED BY <1>1, <1>2, <1>8, SumValue

ControlUses(events) == MapThenSumSet(LAMBDA i : events[i].count, Of(events, "control_key_use"))
(* One event more: the time of a session that ends, the uses of a control key. *)
LEMMA ElapsedAppend ==
  ASSUME NEW events \in Logs, NEW e \in LogEvents
  PROVE  /\ Duration(Append(events, e)) = Duration(events) + (IF e.kind = "session_end" THEN e.elapsed ELSE 0)
         /\ Duration(events) \in Nat
<1> DEFINE more == Append(events, e)
           n == Len(events) + 1
           S == Of(events, "session_end")
           T == Of(more, "session_end")
           f == Elapsed(events)
           g == Elapsed(more)
<1>1. /\ DOMAIN more = DOMAIN events \cup {n} /\ n \notin DOMAIN events /\ more \in Logs
      /\ more[n] = e /\ \A i \in DOMAIN events : more[i] = events[i]
  BY AppendEvent
<1>2. T = S \cup (IF e.kind = "session_end" THEN {n} ELSE {}) /\ n \notin S /\ S \subseteq DOMAIN events
  BY OfAppend, OfFinite
<1>3. Duration(events) = Weight(f, S)
  <2> HIDE DEF f, more
  <2> QED BY ElapsedSum DEF Duration, f
<1>4. Duration(more) = Weight(g, T)
  <2> HIDE DEF g, more
  <2> QED BY <1>1, ElapsedSum DEF Duration, g
<1>5. \A i \in S : f[i] \in Nat /\ g[i] = f[i]
  <2> SUFFICES ASSUME NEW i \in S PROVE f[i] \in Nat /\ g[i] = f[i]
    OBVIOUS
  <2>1. i \in DOMAIN events /\ i \in T /\ i \in DOMAIN more /\ events[i] \in LogEvents /\ events[i].kind = "session_end"
    BY <1>1, <1>2, EventAt DEF Of
  <2>2. f[i] = events[i].elapsed /\ g[i] = more[i].elapsed
    <3> HIDE DEF more
    <3> QED BY <2>1 DEF Elapsed, Of
  <2>3. more[i] = events[i] /\ events[i].elapsed \in Nat
    BY <1>1, <2>1, EventType
  <2> QED BY <2>2, <2>3
<1>6. ASSUME e.kind = "session_end" PROVE g[n] = e.elapsed /\ g[n] \in Nat
  <2>1. n \in T /\ n \in DOMAIN more /\ more[n] = e
    BY <1>1, <1>2, <1>6
  <2>2. e.elapsed \in Nat
    BY <1>6, EventType
  <2>3. g[n] = more[n].elapsed
    <3> HIDE DEF more, n
    <3> QED BY <2>1 DEF Elapsed
  <2> QED BY <2>1, <2>2, <2>3
<1>7. IsFiniteSet(S)
  BY OfFinite
<1> HIDE DEF more, n, f, g, S, T
<1>8. Weight(g, S) = Weight(f, S) /\ Weight(f, S) \in Nat
  BY <1>5, <1>7, WeightSame, WeightType
<1>9. CASE e.kind = "session_end"
  <2>1. \A y \in S \cup {n} : g[y] \in Nat
    BY <1>5, <1>6, <1>9
  <2>2. Weight(g, S \cup {n}) = Weight(g, S) + g[n]
    BY <1>2, <1>7, <2>1, WeightAdd
  <2> QED BY <1>2, <1>3, <1>4, <1>6, <1>8, <1>9, <2>2 DEF more
<1>10. CASE e.kind # "session_end"
  <2>1. T = S
    BY <1>2, <1>10
  <2> QED BY <1>3, <1>4, <1>8, <1>10, <2>1 DEF more
<1> QED BY <1>9, <1>10

(* One event more adds its own uses of a control key. *)
LEMMA AmountAppend ==
  ASSUME NEW events \in Logs, NEW e \in LogEvents
  PROVE  /\ ControlUses(Append(events, e)) = ControlUses(events) + (IF e.kind = "control_key_use" THEN e.count ELSE 0)
         /\ ControlUses(events) \in Nat
<1> DEFINE more == Append(events, e)
           n == Len(events) + 1
           S == Of(events, "control_key_use")
           T == Of(more, "control_key_use")
           f == Amounts(events)
           g == Amounts(more)
<1>1. /\ DOMAIN more = DOMAIN events \cup {n} /\ n \notin DOMAIN events /\ more \in Logs
      /\ more[n] = e /\ \A i \in DOMAIN events : more[i] = events[i]
  BY AppendEvent
<1>2. T = S \cup (IF e.kind = "control_key_use" THEN {n} ELSE {}) /\ n \notin S /\ S \subseteq DOMAIN events
  BY OfAppend, OfFinite
<1>3. ControlUses(events) = Weight(f, S)
  <2> HIDE DEF f, more
  <2> QED BY AmountSum DEF ControlUses, f
<1>4. ControlUses(more) = Weight(g, T)
  <2> HIDE DEF g, more
  <2> QED BY <1>1, AmountSum DEF ControlUses, g
<1>5. \A i \in S : f[i] \in Nat /\ g[i] = f[i]
  <2> SUFFICES ASSUME NEW i \in S PROVE f[i] \in Nat /\ g[i] = f[i]
    OBVIOUS
  <2>1. i \in DOMAIN events /\ i \in T /\ i \in DOMAIN more /\ events[i] \in LogEvents /\ events[i].kind = "control_key_use"
    BY <1>1, <1>2, EventAt DEF Of
  <2>2. f[i] = events[i].count /\ g[i] = more[i].count
    <3> HIDE DEF more
    <3> QED BY <2>1 DEF Amounts, Of
  <2>3. more[i] = events[i] /\ events[i].count \in Nat
    BY <1>1, <2>1, EventType
  <2> QED BY <2>2, <2>3
<1>6. ASSUME e.kind = "control_key_use" PROVE g[n] = e.count /\ g[n] \in Nat
  <2>1. n \in T /\ n \in DOMAIN more /\ more[n] = e
    BY <1>1, <1>2, <1>6
  <2>2. e.count \in Nat
    BY <1>6, EventType
  <2>3. g[n] = more[n].count
    <3> HIDE DEF more, n
    <3> QED BY <2>1 DEF Amounts
  <2> QED BY <2>1, <2>2, <2>3
<1>7. IsFiniteSet(S)
  BY OfFinite
<1> HIDE DEF more, n, f, g, S, T
<1>8. Weight(g, S) = Weight(f, S) /\ Weight(f, S) \in Nat
  BY <1>5, <1>7, WeightSame, WeightType
<1>9. CASE e.kind = "control_key_use"
  <2>1. \A y \in S \cup {n} : g[y] \in Nat
    BY <1>5, <1>6, <1>9
  <2>2. Weight(g, S \cup {n}) = Weight(g, S) + g[n]
    BY <1>2, <1>7, <2>1, WeightAdd
  <2> QED BY <1>2, <1>3, <1>4, <1>6, <1>8, <1>9, <2>2 DEF more
<1>10. CASE e.kind # "control_key_use"
  <2>1. T = S
    BY <1>2, <1>10
  <2> QED BY <1>3, <1>4, <1>8, <1>10, <2>1 DEF more
<1> QED BY <1>9, <1>10

-----------------------------------------------------------------------------
(* Everything an accumulator should know after some events, and what it is   *)
(* after one event more.                                                     *)
KeyAt(events) == [r \in Spans |-> events[r[1]].keys[r[2]]]
PosKey(events) == [p \in Keyed(events) |-> TokenAt(events, p)]
StockOf(events) ==
  [keys |-> Tokens(events), repeated_keys |-> KeysOf(Runs(events, 2), KeyAt(events)),
   mappings |-> UsedIds(events), control_keys |-> ControlKeys(events)]
Disagrees(events, snapshot) == \E i \in Of(events, "mapping_use") : Mismatch(events[i], snapshot)
BadIn(events, snapshot) == Duration(events) > MaxTime \/ Disagrees(events, snapshot)

(* Two ways to name the keys of the same runs, or positions. *)
AgreeOn(K, L, G) == \A r \in G : K[r] = L[r]

(* Where two namings agree they sort alike. *)
LEMMA OfKeySame ==
  ASSUME NEW G, NEW K, NEW L, AgreeOn(K, L, G), NEW k
  PROVE  OfKey(G, K, k) = OfKey(G, L, k) /\ At(G, K, k) = At(G, L, k) /\ KeysOf(G, K) = KeysOf(G, L)
BY DEF AgreeOn, OfKey, At, KeysOf

(* Repetitions do not depend on how keys elsewhere are named. *)
LEMMA RepeatsSame ==
  ASSUME NEW G, NEW K, NEW L, AgreeOn(K, L, G), NEW acc, Repeats(acc, G, K)
  PROVE  Repeats(acc, G, L)
<1>1. \A k : OfKey(G, K, k) = OfKey(G, L, k)
  BY OfKeySame
<1>2. acc.repeated_key_runs = Cardinality(G) /\ acc.repeated_key_presses = PressesIn(G)
  BY DEF Repeats
<1>3. ASSUME acc.error = NoError, NEW k PROVE TalliedFor(acc.repeated_keys, G, L, k)
  <2>1. TalliedFor(acc.repeated_keys, G, K, k)
    BY <1>3 DEF Repeats
  <2> QED BY <1>1, <2>1 DEF TalliedFor
<1> QED BY <1>2, <1>3 DEF Repeats

(* Motions do not depend on how keys elsewhere are named. *)
LEMMA MotionsSame ==
  ASSUME NEW G, NEW K, NEW L, AgreeOn(K, L, G), NEW f, MotionsTallied(f, G, K)
  PROVE  MotionsTallied(f, G, L)
<1>1. \A k : OfKey(G, K, k) = OfKey(G, L, k)
  BY OfKeySame
<1>2. f \in Maps(Token, Numbers) /\ DOMAIN f = KeysOf(G, L) \cap Motions
  BY OfKeySame DEF MotionsTallied
<1>3. ASSUME NEW k \in Motions PROVE TalliedFor(f, G, L, k)
  <2>1. TalliedFor(f, G, K, k)
    BY DEF MotionsTallied
  <2> QED BY <1>1, <2>1 DEF TalliedFor
<1> QED BY <1>2, <1>3 DEF MotionsTallied

(* Counts do not depend on how keys elsewhere are named. *)
LEMMA CountsSame ==
  ASSUME NEW C, NEW K, NEW L, AgreeOn(K, L, C), NEW f, Counts(f, C, K)
  PROVE  Counts(f, C, L)
<1> SUFFICES ASSUME NEW k PROVE CountedFor(f, C, L, k)
  BY DEF Counts
<1>1. At(C, K, k) = At(C, L, k)
  BY OfKeySame
<1>2. CountedFor(f, C, K, k)
  BY DEF Counts
<1> QED BY <1>1, <1>2 DEF CountedFor

(* One event more leaves the keys of the earlier ones. *)
LEMMA KeysStay ==
  ASSUME NEW events \in Logs, NEW e \in LogEvents
  PROVE  /\ \A least : AgreeOn(KeyAt(events), KeyAt(Append(events, e)), Runs(events, least))
         /\ AgreeOn(PosKey(events), PosKey(Append(events, e)), Keyed(events))
<1> DEFINE more == Append(events, e)
<1>1. \A i \in DOMAIN events : more[i] = events[i]
  BY AppendEvent
<1> HIDE DEF more
<1>2. ASSUME NEW least, NEW r \in Runs(events, least) PROVE KeyAt(events)[r] = KeyAt(more)[r]
  <2>1. r \in Spans /\ r[1] \in DOMAIN events
    BY RunsType
  <2>2. KeyAt(events)[r] = events[r[1]].keys[r[2]] /\ KeyAt(more)[r] = more[r[1]].keys[r[2]]
    BY <2>1 DEF KeyAt
  <2> QED BY <1>1, <2>1, <2>2
<1>3. ASSUME NEW p \in Keyed(events) PROVE PosKey(events)[p] = PosKey(more)[p]
  <2>1. p \in Keyed(more)
    BY KeyedAppend DEF more
  <2>2. p[1] \in DOMAIN events
    BY KeyedIn
  <2>3. PosKey(events)[p] = TokenAt(events, p) /\ PosKey(more)[p] = TokenAt(more, p)
    BY <2>1 DEF PosKey
  <2>4. TokenAt(events, p) = TokenAt(more, p)
    BY <1>1, <2>2 DEF TokenAt
  <2> QED BY <2>3, <2>4
<1> QED BY <1>2, <1>3 DEF AgreeOn, more

(* Runs are where keys are. *)
LEMMA RunsFinite ==
  ASSUME NEW events \in Logs, NEW least
  PROVE  IsFiniteSet(Runs(events, least))
<1> DEFINE G == Runs(events, least)
           C == Keyed(events)
           f == [r \in G |-> <<<<r[1], r[2]>>, <<r[1], r[3]>>>>]
<1>1. IsFiniteSet(C \X C)
  BY KeyedFinite, FS_Product
<1>2. ASSUME NEW r \in G
      PROVE  /\ r = <<r[1], r[2], r[3]>>
             /\ <<r[1], r[2]>> \in C /\ <<r[1], r[3]>> \in C
  <2>1. r \in Spans /\ r[1] \in Of(events, "key_sequence") /\ r[2] \in DOMAIN events[r[1]].keys /\ r[3] \in DOMAIN events[r[1]].keys
    BY RunsType
  <2> HIDE DEF G
  <2> QED BY <2>1 DEF Spans, Keyed
<1> HIDE DEF G, C
<1>3. f \in [G -> C \X C]
  BY <1>2
<1>4. ASSUME NEW r \in G, NEW s \in G, f[r] = f[s] PROVE r = s
  <2>1. <<<<r[1], r[2]>>, <<r[1], r[3]>>>> = <<<<s[1], s[2]>>, <<s[1], s[3]>>>>
    BY <1>4
  <2>2. r[1] = s[1] /\ r[2] = s[2] /\ r[3] = s[3]
    BY <2>1
  <2> QED BY <1>2, <2>2
<1> HIDE DEF f
<1>5. f \in Injection(G, C \X C)
  BY <1>3, <1>4 DEF Injection, IsInjective
<1>6. IsFiniteSet(G)
  BY <1>1, <1>5, FS_Injection
<1> QED BY <1>6 DEF G

(* What a run or a position names is a token, and the stock of a log. *)
LEMMA RunKeys ==
  ASSUME NEW events \in Logs, NEW least
  PROVE  KeysOf(Runs(events, least), KeyAt(events)) \subseteq Token
<1> SUFFICES ASSUME NEW r \in Runs(events, least) PROVE KeyAt(events)[r] \in Token
  BY DEF KeysOf
<1>1. r \in Spans /\ r[1] \in Of(events, "key_sequence") /\ r[1] \in DOMAIN events /\ r[2] \in DOMAIN events[r[1]].keys
  BY RunsType
<1>2. events[r[1]].keys \in Seq(Token)
  BY <1>1, EventAt, EventType DEF Of
<1>3. events[r[1]].keys[r[2]] \in Token
  BY <1>1, <1>2
<1> QED BY <1>1, <1>3 DEF KeyAt

(* What positions name are the tokens of the log. *)
LEMMA PositionKeys ==
  ASSUME NEW events \in Logs
  PROVE  KeysOf(Keyed(events), PosKey(events)) = Tokens(events) /\ Tokens(events) \subseteq Token
<1>1. \A p \in Keyed(events) : PosKey(events)[p] = TokenAt(events, p) /\ TokenAt(events, p) \in Token
  BY KeyedIn DEF PosKey
<1> QED BY <1>1 DEF KeysOf, Tokens

(* The items of a log are a stock. *)
LEMMA StockOfType ==
  ASSUME NEW events \in Logs
  PROVE  StockOf(events) \in Stocks
<1>1. Tokens(events) \subseteq Token
  BY PositionKeys
<1>2. KeysOf(Runs(events, 2), KeyAt(events)) \subseteq Token
  BY RunKeys
<1>3. UsedIds(events) \subseteq Token
  <2> SUFFICES ASSUME NEW i \in Of(events, "mapping_use") PROVE events[i].mapping_id \in Token
    BY DEF UsedIds
  <2>1. events[i] \in LogEvents /\ events[i].kind = "mapping_use"
    BY EventAt DEF Of
  <2> QED BY <2>1, EventType
<1>4. ControlKeys(events) \subseteq TextModes \X Token
  <2> SUFFICES ASSUME NEW i \in Of(events, "control_key_use") PROVE <<events[i].mode, events[i].key>> \in TextModes \X Token
    BY DEF ControlKeys
  <2>1. events[i] \in LogEvents /\ events[i].kind = "control_key_use"
    BY EventAt DEF Of
  <2> QED BY <2>1, EventType
<1> QED BY <1>1, <1>2, <1>3, <1>4 DEF StockOf, Stocks

-----------------------------------------------------------------------------
(* What two sets of runs name together. *)
LEMMA KeysOfUnion ==
  ASSUME NEW G, NEW H, NEW K
  PROVE  KeysOf(G \cup H, K) = KeysOf(G, K) \cup KeysOf(H, K)
BY DEF KeysOf

(* The keys of an event more. *)
LEMMA EventKeys ==
  ASSUME NEW events \in Logs, NEW e \in LogEvents, e.kind = "key_sequence", NEW n, n = Len(events) + 1
  PROVE  /\ \A i \in 1..Len(e.keys) : PosKey(Append(events, e))[<<n, i>>] = e.keys[i]
         /\ \A least : \A r \in EventRuns(n, e.keys, least) : KeyAt(Append(events, e))[r] = e.keys[r[2]]
<1> DEFINE more == Append(events, e)
<1>1. more[n] = e /\ more \in Logs
  BY AppendEvent
<1>2. Keyed(more) = Keyed(events) \cup Row(n, Len(e.keys))
  BY KeyedAppend
<1>3. \A least : Runs(more, least) = Runs(events, least) \cup EventRuns(n, e.keys, least)
  BY RunsAppend
<1> HIDE DEF more
<1>4. ASSUME NEW i \in 1..Len(e.keys) PROVE PosKey(more)[<<n, i>>] = e.keys[i]
  <2>1. <<n, i>> \in Keyed(more)
    BY <1>2 DEF Row
  <2>2. PosKey(more)[<<n, i>>] = TokenAt(more, <<n, i>>)
    BY <2>1 DEF PosKey
  <2> QED BY <1>1, <2>2 DEF TokenAt
<1>5. ASSUME NEW least, NEW r \in EventRuns(n, e.keys, least) PROVE KeyAt(more)[r] = e.keys[r[2]]
  <2>1. r \in Runs(more, least)
    BY <1>3
  <2>2. r \in Spans
    BY <1>1, <2>1, RunsType
  <2>3. r[1] = n
    <3>1. PICK a \in DOMAIN e.keys, c \in DOMAIN e.keys : r = <<n, a, c>>
      BY EventRunIn
    <3> QED BY <3>1
  <2>4. KeyAt(more)[r] = more[r[1]].keys[r[2]]
    BY <2>2 DEF KeyAt
  <2> QED BY <1>1, <2>3, <2>4
<1> QED BY <1>4, <1>5 DEF more

(* The earlier ones lie elsewhere. *)
LEMMA EarlierKeys ==
  ASSUME NEW events \in Logs, NEW n, n = Len(events) + 1
  PROVE  /\ \A p \in Keyed(events) : p[1] # n
         /\ \A least : \A r \in Runs(events, least) : r[1] # n
<1>1. n \notin DOMAIN events
  BY Indices
<1>2. \A p \in Keyed(events) : p[1] # n
  BY <1>1, KeyedIn
<1>3. ASSUME NEW least, NEW r \in Runs(events, least) PROVE r[1] # n
  <2>1. r[1] \in DOMAIN events
    BY RunsType
  <2> QED BY <1>1, <2>1
<1> QED BY <1>2, <1>3

(* One event more adds its own keys and repeated keys. *)
LEMMA TokensAppend ==
  ASSUME NEW events \in Logs, NEW e \in LogEvents, NEW more, more = Append(events, e)
  PROVE  /\ Tokens(more) = Tokens(events)
              \cup (IF e.kind = "key_sequence" THEN KeysOf(Row(Len(events) + 1, Len(e.keys)), PosKey(more)) ELSE {})
         /\ KeysOf(Runs(more, 2), KeyAt(more)) = KeysOf(Runs(events, 2), KeyAt(events))
              \cup (IF e.kind = "key_sequence" THEN KeysOf(EventRuns(Len(events) + 1, e.keys, 2), KeyAt(more)) ELSE {})
<1>1. more \in Logs
  BY AppendEvent
<1>2. /\ Tokens(more) = KeysOf(Keyed(more), PosKey(more)) /\ Tokens(events) = KeysOf(Keyed(events), PosKey(events))
  BY <1>1, PositionKeys
<1>3. KeysOf(Keyed(events), PosKey(events)) = KeysOf(Keyed(events), PosKey(more))
  <2>1. AgreeOn(PosKey(events), PosKey(more), Keyed(events))
    BY KeysStay
  <2> QED BY <2>1, OfKeySame
<1>4. KeysOf(Runs(events, 2), KeyAt(events)) = KeysOf(Runs(events, 2), KeyAt(more))
  <2>1. AgreeOn(KeyAt(events), KeyAt(more), Runs(events, 2))
    BY KeysStay
  <2> QED BY <2>1, OfKeySame
<1> DEFINE R == Row(Len(events) + 1, Len(e.keys))
           H == EventRuns(Len(events) + 1, e.keys, 2)
<1>5. Keyed(more) = Keyed(events) \cup (IF e.kind = "key_sequence" THEN R ELSE {})
  BY KeyedAppend
<1>6. Runs(more, 2) = Runs(events, 2) \cup (IF e.kind = "key_sequence" THEN H ELSE {})
  BY RunsAppend
<1> HIDE DEF R, H
<1>7. CASE e.kind = "key_sequence"
  <2>1. Keyed(more) = Keyed(events) \cup R /\ Runs(more, 2) = Runs(events, 2) \cup H
    BY <1>5, <1>6, <1>7
  <2>2. KeysOf(Keyed(more), PosKey(more)) = KeysOf(Keyed(events), PosKey(more)) \cup KeysOf(R, PosKey(more))
    BY <2>1, KeysOfUnion
  <2>3. KeysOf(Runs(more, 2), KeyAt(more)) = KeysOf(Runs(events, 2), KeyAt(more)) \cup KeysOf(H, KeyAt(more))
    BY <2>1, KeysOfUnion
  <2> QED BY <1>2, <1>3, <1>4, <1>7, <2>2, <2>3 DEF R, H
<1>8. CASE e.kind # "key_sequence"
  <2>1. Keyed(more) = Keyed(events) /\ Runs(more, 2) = Runs(events, 2)
    BY <1>5, <1>6, <1>8
  <2> QED BY <1>2, <1>3, <1>4, <1>8, <2>1
<1> QED BY <1>7, <1>8

(* One event more adds the mapping, or the control key, that it uses. *)
LEMMA UsedAppend ==
  ASSUME NEW events \in Logs, NEW e \in LogEvents, NEW more, more = Append(events, e)
  PROVE  /\ UsedIds(more) = UsedIds(events) \cup (IF e.kind = "mapping_use" THEN {e.mapping_id} ELSE {})
         /\ ControlKeys(more)
              = ControlKeys(events) \cup (IF e.kind = "control_key_use" THEN {<<e.mode, e.key>>} ELSE {})
         /\ \A snapshot : Disagrees(more, snapshot)
              <=> Disagrees(events, snapshot) \/ (e.kind = "mapping_use" /\ Mismatch(e, snapshot))
<1> DEFINE n == Len(events) + 1
<1>1. more[n] = e /\ \A i \in DOMAIN events : more[i] = events[i]
  BY AppendEvent
<1>2. \A kind : /\ Of(more, kind) = Of(events, kind) \cup (IF e.kind = kind THEN {n} ELSE {})
                /\ Of(events, kind) \subseteq DOMAIN events
  BY OfAppend, OfFinite
<1> HIDE DEF n
<1>3. \A kind : \A i \in Of(events, kind) : more[i] = events[i]
  BY <1>1, <1>2
<1>4. UsedIds(more) = UsedIds(events) \cup (IF e.kind = "mapping_use" THEN {e.mapping_id} ELSE {})
  <2>1. Of(more, "mapping_use") = Of(events, "mapping_use") \cup (IF e.kind = "mapping_use" THEN {n} ELSE {})
    BY <1>2
  <2>2. \A i \in Of(events, "mapping_use") : more[i].mapping_id = events[i].mapping_id
    BY <1>3
  <2>3. CASE e.kind = "mapping_use"
    <3>1. more[n].mapping_id = e.mapping_id /\ Of(more, "mapping_use") = Of(events, "mapping_use") \cup {n}
      BY <1>1, <2>1, <2>3
    <3>2. ASSUME NEW x PROVE x \in UsedIds(more) <=> \E i \in Of(events, "mapping_use") \cup {n} : x = more[i].mapping_id
      BY <3>1 DEF UsedIds
    <3>3. ASSUME NEW x PROVE x \in UsedIds(events) <=> \E i \in Of(events, "mapping_use") : x = more[i].mapping_id
      BY <2>2 DEF UsedIds
    <3>4. UsedIds(more) = UsedIds(events) \cup {e.mapping_id}
      <4>1. ASSUME NEW x \in UsedIds(more) PROVE x \in UsedIds(events) \cup {e.mapping_id}
        <5>1. PICK i \in Of(events, "mapping_use") \cup {n} : x = more[i].mapping_id
          BY <3>2
        <5>2. CASE i = n BY <3>1, <5>1, <5>2
        <5>3. CASE i \in Of(events, "mapping_use") BY <3>3, <5>1, <5>3
        <5> QED BY <5>2, <5>3
      <4>2. e.mapping_id \in UsedIds(more)
        BY <3>1, <3>2
      <4>3. UsedIds(events) \subseteq UsedIds(more)
        BY <3>2, <3>3
      <4> QED BY <4>1, <4>2, <4>3
    <3> QED BY <2>3, <3>4
  <2>4. CASE e.kind # "mapping_use"
    <3>1. Of(more, "mapping_use") = Of(events, "mapping_use")
      BY <2>1, <2>4
    <3>2. UsedIds(more) = UsedIds(events)
      BY <2>2, <3>1 DEF UsedIds
    <3> QED BY <2>4, <3>2
  <2> QED BY <2>3, <2>4
<1>5. ControlKeys(more) = ControlKeys(events) \cup (IF e.kind = "control_key_use" THEN {<<e.mode, e.key>>} ELSE {})
  <2>1. Of(more, "control_key_use") = Of(events, "control_key_use") \cup (IF e.kind = "control_key_use" THEN {n} ELSE {})
    BY <1>2
  <2> QED BY <1>1, <1>3, <2>1 DEF ControlKeys
<1>6. ASSUME NEW snapshot
      PROVE  Disagrees(more, snapshot)
               <=> Disagrees(events, snapshot) \/ (e.kind = "mapping_use" /\ Mismatch(e, snapshot))
  <2>1. Of(more, "mapping_use") = Of(events, "mapping_use") \cup (IF e.kind = "mapping_use" THEN {n} ELSE {})
    BY <1>2
  <2> QED BY <1>1, <1>3, <2>1 DEF Disagrees
<1> QED BY <1>4, <1>5, <1>6

(* One event more is one use of its mapping. *)
LEMMA UsesAppend ==
  ASSUME NEW events \in Logs, NEW e \in LogEvents, NEW id
  PROVE  UsesOf(Append(events, e), id)
           = UsesOf(events, id) + (IF e.kind = "mapping_use" /\ e.mapping_id = id THEN 1 ELSE 0)
<1> DEFINE n == Len(events) + 1
           more == Append(events, e)
           S == {i \in Of(events, "mapping_use") : events[i].mapping_id = id}
           T == {i \in Of(more, "mapping_use") : more[i].mapping_id = id}
<1>1. more[n] = e /\ \A i \in DOMAIN events : more[i] = events[i]
  BY AppendEvent
<1>2. /\ Of(more, "mapping_use") = Of(events, "mapping_use") \cup (IF e.kind = "mapping_use" THEN {n} ELSE {})
      /\ Of(events, "mapping_use") \subseteq DOMAIN events /\ n \notin Of(events, "mapping_use")
  BY OfAppend, OfFinite
<1> HIDE DEF n, more
<1>3. \A i \in Of(events, "mapping_use") : more[i] = events[i]
  BY <1>1, <1>2
<1>4. T = S \cup (IF e.kind = "mapping_use" /\ e.mapping_id = id THEN {n} ELSE {}) /\ n \notin S
  BY <1>1, <1>2, <1>3
<1>5. IsFiniteSet(S)
  <2>1. S \subseteq Of(events, "mapping_use")
    OBVIOUS
  <2> HIDE DEF S
  <2> QED BY <2>1, OfFinite
<1>6. UsesOf(events, id) = Cardinality(S) /\ UsesOf(more, id) = Cardinality(T)
  BY DEF UsesOf
<1> HIDE DEF S, T
<1>7. Cardinality(S) \in Nat /\ Cardinality(S \cup {n}) = Cardinality(S) + 1
  BY <1>4, <1>5, FS_AddElement, FS_CardinalityType
<1>8. CASE e.kind = "mapping_use" /\ e.mapping_id = id
  <2>1. T = S \cup {n}
    BY <1>4, <1>8
  <2> QED BY <1>6, <1>7, <1>8, <2>1 DEF more
<1>9. CASE ~(e.kind = "mapping_use" /\ e.mapping_id = id)
  <2>1. T = S
    BY <1>4, <1>9
  <2> QED BY <1>6, <1>7, <1>9, <2>1 DEF more
<1> QED BY <1>8, <1>9

-----------------------------------------------------------------------------
(* When an accumulator is exact for some events. *)
RepeatsExact(acc, events) == Repeats(acc, Runs(events, 2), KeyAt(events))
MotionsExact(acc, events) == MotionsTallied(acc.repeated_motions, Runs(events, 3), KeyAt(events))
KeyCounts(acc, events) == Counts(acc.keys, Keyed(events), PosKey(events))
UseCounts(acc, events) == \A id : CountOf(acc.mappings, id) = UsesOf(events, id)
Totals(acc, events) ==
  /\ acc.sequence_keys = Cardinality(Keyed(events))
  /\ acc.mapping_uses = Cardinality(Of(events, "mapping_use"))
  /\ acc.control_key_uses = ControlUses(events)
Unfailed(acc, events, snapshot) ==
  /\ acc.total_session_duration_ms = Duration(events) /\ ~BadIn(events, snapshot)
  /\ KeyCounts(acc, events) /\ UseCounts(acc, events)
Accounted(acc, events, snapshot) ==
  /\ acc \in Accumulators /\ Totals(acc, events)
  /\ RepeatsExact(acc, events) /\ DigitsCounted(acc, events) /\ MotionsExact(acc, events)
  /\ Stocked(acc, StockOf(events), BadIn(events, snapshot))
  /\ acc.error = NoError => Unfailed(acc, events, snapshot)

(* Nothing is known of no events. *)
LEMMA EmptyAccounted ==
  ASSUME NEW snapshot
  PROVE  Accounted(NewAccumulator, <<>>, snapshot)
<1> DEFINE acc == NewAccumulator
           none == <<>>
<1>1. none \in Logs /\ DOMAIN none = {}
  BY DEF Logs
<1> HIDE DEF none
<1>2. \A kind : Of(none, kind) = {}
  BY <1>1 DEF Of
<1>3. Keyed(none) = {} /\ Tokens(none) = {} /\ UsedIds(none) = {} /\ ControlKeys(none) = {}
  BY <1>2 DEF Keyed, Tokens, UsedIds, ControlKeys
<1>4. \A least : Runs(none, least) = {}
  BY <1>1, <1>2, RunsType
<1>5. CountDigits(none) = {}
  BY <1>3 DEF CountDigits
<1>6. Duration(none) = 0
  <2>1. Duration(none) = Weight(Elapsed(none), Of(none, "session_end"))
    BY <1>1, ElapsedSum DEF Duration
  <2> QED BY <1>2, <2>1, WeightEmpty
<1>7. ControlUses(none) = 0
  <2>1. ControlUses(none) = Weight(Amounts(none), Of(none, "control_key_use"))
    BY <1>1, AmountSum DEF ControlUses
  <2> QED BY <1>2, <2>1, WeightEmpty
<1>8. Cardinality({}) = 0 /\ IsFiniteSet({})
  BY FS_EmptySet
<1>9. acc \in Accumulators
  <2>1. \A D, V : Empty \in Maps(D, V)
    <3> SUFFICES ASSUME NEW D, NEW V PROVE Empty \in Maps(D, V)
      OBVIOUS
    <3>1. Empty \in [{} -> V]
      BY DEF Empty
    <3>2. {} \in SUBSET D
      OBVIOUS
    <3> QED BY <3>1, <3>2, TypeMap
  <2> HIDE DEF acc
  <2>2. acc = NewAccumulator
    BY DEF acc
  <2> QED BY <2>1, <2>2 DEF NewAccumulator, Accumulators, Errors
<1>10. Totals(acc, none)
  BY <1>2, <1>3, <1>7, <1>8 DEF Totals, NewAccumulator
<1>11. PressesIn({}) = 0
  <2>1. Cells({}) = {}
    BY DEF Cells
  <2> QED BY <1>8, <2>1, PressesCells
<1>12. \A f, K, k : f = Empty => TalliedFor(f, {}, K, k)
  <2> SUFFICES ASSUME NEW K, NEW k PROVE TalliedFor(Empty, {}, K, k)
    OBVIOUS
  <2>1. OfKey({}, K, k) = {}
    BY DEF OfKey
  <2>2. PairOf(Empty, k) = <<0, 0>>
    BY DEF PairOf, Empty
  <2> QED BY <1>8, <1>11, <2>1, <2>2 DEF TalliedFor
<1>13. RepeatsExact(acc, none)
  <2>1. acc.repeated_key_runs = 0 /\ acc.repeated_key_presses = 0 /\ acc.repeated_keys = Empty
    BY DEF NewAccumulator
  <2> HIDE DEF acc
  <2> QED BY <1>4, <1>8, <1>11, <1>12, <2>1 DEF RepeatsExact, Repeats
<1>14. MotionsExact(acc, none)
  <2>1. acc.repeated_motions = Empty /\ DOMAIN Empty = {}
    BY DEF NewAccumulator, Empty
  <2>2. acc.repeated_motions \in Maps(Token, Numbers)
    BY <1>9 DEF Accumulators
  <2>3. KeysOf({}, KeyAt(none)) = {}
    BY DEF KeysOf
  <2> HIDE DEF acc
  <2> QED BY <1>4, <1>12, <2>1, <2>2, <2>3 DEF MotionsExact, MotionsTallied
<1>15. DigitsCounted(acc, none)
  <2>1. Firsts({}) = {}
    BY DEF Firsts
  <2> QED BY <1>5, <1>8, <2>1 DEF DigitsCounted, NewAccumulator
<1>16. KeysOf({}, KeyAt(none)) = {}
  BY DEF KeysOf
<1>17. Stocked(acc, StockOf(none), BadIn(none, snapshot))
  <2>1. /\ StockOf(none).keys = {} /\ StockOf(none).repeated_keys = {} /\ StockOf(none).mappings = {}
        /\ StockOf(none).control_keys = {}
    BY <1>3, <1>4, <1>16 DEF StockOf
  <2>2. Bytes(StockOf(none)) = 0
    BY <2>1, WeightEmpty DEF Bytes
  <2>3. Fits(StockOf(none))
    BY <1>8, <2>1, <2>2, Limits DEF Fits
  <2>4. acc.error = NoError /\ acc.retained_token_bytes = 0
    BY DEF NewAccumulator
  <2>5. acc.keys = Empty /\ acc.repeated_keys = Empty /\ acc.mappings = Empty /\ acc.control_keys = Empty /\ DOMAIN Empty = {}
    BY DEF NewAccumulator, Empty
  <2> HIDE DEF acc
  <2> QED BY <2>1, <2>2, <2>3, <2>4, <2>5 DEF Stocked
<1>18. Unfailed(acc, none, snapshot)
  <2>1. ~Disagrees(none, snapshot)
    BY <1>2 DEF Disagrees
  <2>2. ~BadIn(none, snapshot)
    BY <1>6, <2>1, Limits DEF BadIn
  <2>3. acc.total_session_duration_ms = 0 /\ acc.keys = Empty /\ acc.mappings = Empty
    BY DEF NewAccumulator
  <2>4. \A k : CountOf(Empty, k) = 0
    BY DEF CountOf, Empty
  <2>5. KeyCounts(acc, none)
    <3>1. \A k : At({}, PosKey(none), k) = {}
      BY DEF At
    <3> HIDE DEF acc
    <3> QED BY <1>3, <1>8, <2>3, <2>4, <3>1 DEF KeyCounts, Counts, CountedFor
  <2>6. UseCounts(acc, none)
    <3>1. \A id : UsesOf(none, id) = 0
      BY <1>2, <1>8 DEF UsesOf
    <3> HIDE DEF acc
    <3> QED BY <2>3, <2>4, <3>1 DEF UseCounts
  <2> HIDE DEF acc
  <2> QED BY <1>6, <2>2, <2>3, <2>5, <2>6 DEF Unfailed
<1> QED BY <1>9, <1>10, <1>13, <1>14, <1>15, <1>17, <1>18 DEF Accounted, none

(* What only its own kind of event changes. *)
SameCharts(acc, a) ==
  /\ a.key_sequences = acc.key_sequences /\ a.text_runs = acc.text_runs /\ a.text_keys = acc.text_keys
  /\ a.mode_transitions = acc.mode_transitions /\ a.modes = acc.modes
  /\ a.session_duration = acc.session_duration /\ a.sequence_length = acc.sequence_length
  /\ a.latency = acc.latency /\ a.operations = acc.operations /\ a.transitions = acc.transitions

(* What an event without a key sequence leaves. *)
SameKeys(acc, a) ==
  /\ a.repeated_key_runs = acc.repeated_key_runs /\ a.repeated_key_presses = acc.repeated_key_presses
  /\ a.repeated_keys = acc.repeated_keys /\ a.repeated_motions = acc.repeated_motions
  /\ a.count_occurrences = acc.count_occurrences /\ a.count_digit_presses = acc.count_digit_presses
  /\ a.sequence_keys = acc.sequence_keys
  /\ a.error = NoError => acc.error = NoError /\ a.keys = acc.keys

(* An event without keys leaves what is known of keys. *)
LEMMA SameKeysExact ==
  ASSUME NEW events \in Logs, NEW e \in LogEvents, e.kind # "key_sequence", NEW snapshot,
         NEW acc, Accounted(acc, events, snapshot), NEW a, SameKeys(acc, a), NEW more, more = Append(events, e)
  PROVE  /\ RepeatsExact(a, more) /\ DigitsCounted(a, more) /\ MotionsExact(a, more)
         /\ a.sequence_keys = Cardinality(Keyed(more))
         /\ a.error = NoError => KeyCounts(a, more)
         /\ Tokens(more) = Tokens(events)
         /\ KeysOf(Runs(more, 2), KeyAt(more)) = KeysOf(Runs(events, 2), KeyAt(events))
<1>1. Keyed(more) = Keyed(events) /\ CountDigits(more) = CountDigits(events)
  BY KeyedAppend, DigitsAppend
<1>2. \A least : Runs(more, least) = Runs(events, least)
  BY RunsAppend
<1>3. /\ \A least : AgreeOn(KeyAt(events), KeyAt(more), Runs(events, least))
      /\ AgreeOn(PosKey(events), PosKey(more), Keyed(events))
  BY KeysStay
<1>4. RepeatsExact(a, more)
  <2>1. Repeats(acc, Runs(events, 2), KeyAt(more))
    BY <1>3, RepeatsSame DEF Accounted, RepeatsExact
  <2>2. Repeats(a, Runs(events, 2), KeyAt(more))
    BY <2>1 DEF Repeats, SameKeys
  <2> QED BY <1>2, <2>2 DEF RepeatsExact
<1>5. MotionsExact(a, more)
  <2>1. MotionsTallied(acc.repeated_motions, Runs(events, 3), KeyAt(more))
    BY <1>3, MotionsSame DEF Accounted, MotionsExact
  <2> QED BY <1>2, <2>1 DEF MotionsExact, SameKeys
<1>6. DigitsCounted(a, more)
  BY <1>1 DEF Accounted, DigitsCounted, SameKeys
<1>7. a.sequence_keys = Cardinality(Keyed(more))
  BY <1>1 DEF Accounted, Totals, SameKeys
<1>8. ASSUME a.error = NoError PROVE KeyCounts(a, more)
  <2>1. KeyCounts(acc, events) /\ a.keys = acc.keys
    BY <1>8 DEF Accounted, Unfailed, SameKeys
  <2>2. Counts(acc.keys, Keyed(events), PosKey(more))
    BY <1>3, <2>1, CountsSame DEF KeyCounts
  <2> QED BY <1>1, <2>1, <2>2 DEF KeyCounts
<1>9. /\ Tokens(more) = Tokens(events)
      /\ KeysOf(Runs(more, 2), KeyAt(more)) = KeysOf(Runs(events, 2), KeyAt(events))
  <2>1. Tokens(more) = Tokens(events)
          \cup (IF e.kind = "key_sequence" THEN KeysOf(Row(Len(events) + 1, Len(e.keys)), PosKey(more)) ELSE {})
    BY TokensAppend
  <2>2. KeysOf(Runs(more, 2), KeyAt(more)) = KeysOf(Runs(events, 2), KeyAt(events))
          \cup (IF e.kind = "key_sequence" THEN KeysOf(EventRuns(Len(events) + 1, e.keys, 2), KeyAt(more)) ELSE {})
    BY TokensAppend
  <2>3. Tokens(more) = Tokens(events)
    BY <2>1
  <2>4. KeysOf(Runs(more, 2), KeyAt(more)) = KeysOf(Runs(events, 2), KeyAt(events))
    BY <2>2
  <2> QED BY <2>3, <2>4
<1> QED BY <1>4, <1>5, <1>6, <1>7, <1>8, <1>9

-----------------------------------------------------------------------------
(* Buckets are numbers. *)
LEMMA BucketType ==
  /\ \A x \in Nat : Bucket(SessionDurations, x) \in Nat
  /\ \A x \in Nat : Bucket(SequenceLengths, x) \in Nat
  /\ \A x \in Nat : Bucket(Latencies, x) \in Nat
<1>1. ASSUME NEW S, IsFiniteSet(S), NEW x PROVE Bucket(S, x) \in Nat
  <2> DEFINE T == {b \in S : b <= x}
  <2>1. T \in SUBSET S
    OBVIOUS
  <2> HIDE DEF T
  <2>2. Cardinality(T) \in Nat
    BY <1>1, <2>1, FS_Subset, FS_CardinalityType
  <2> QED BY <2>2 DEF Bucket, T
<1>4. IsFiniteSet(SessionDurations)
  <2>1. SessionDurations \in SUBSET Nat /\ \A x \in SessionDurations : x <= 300000
    BY DEF SessionDurations
  <2> QED BY <2>1, FS_BoundedSetOfNaturals
<1>5. IsFiniteSet(SequenceLengths)
  <2>1. SequenceLengths \in SUBSET Nat /\ \A x \in SequenceLengths : x <= 33
    BY DEF SequenceLengths
  <2> QED BY <2>1, FS_BoundedSetOfNaturals
<1>6. IsFiniteSet(Latencies)
  <2>1. Latencies \in SUBSET Nat /\ \A x \in Latencies : x <= 500
    BY DEF Latencies
  <2> QED BY <2>1, FS_BoundedSetOfNaturals
<1> QED BY <1>1, <1>4, <1>5, <1>6

(* An event that is only counted. *)
Passes(acc, a) ==
  /\ SameKeys(acc, a) /\ a.error = acc.error /\ a.keys = acc.keys
  /\ a.mappings = acc.mappings /\ a.control_keys = acc.control_keys
  /\ a.retained_token_bytes = acc.retained_token_bytes
  /\ a.total_session_duration_ms = acc.total_session_duration_ms
  /\ a.mapping_uses = acc.mapping_uses /\ a.control_key_uses = acc.control_key_uses

(* An event that is only counted keeps the accumulator exact. *)
LEMMA PassExact ==
  ASSUME NEW events \in Logs, NEW e \in LogEvents, e.kind \in {"session_start", "text_run", "mode_transition"},
         NEW snapshot, NEW acc, Accounted(acc, events, snapshot), NEW a \in Accumulators, Passes(acc, a),
         NEW more, more = Append(events, e)
  PROVE  Accounted(a, more, snapshot)
<1>1. SameKeys(acc, a)
  BY DEF Passes
<1>2. /\ RepeatsExact(a, more) /\ DigitsCounted(a, more) /\ MotionsExact(a, more)
      /\ a.sequence_keys = Cardinality(Keyed(more))
      /\ a.error = NoError => KeyCounts(a, more)
      /\ Tokens(more) = Tokens(events)
      /\ KeysOf(Runs(more, 2), KeyAt(more)) = KeysOf(Runs(events, 2), KeyAt(events))
  BY <1>1, SameKeysExact
<1>3. UsedIds(more) = UsedIds(events) /\ ControlKeys(more) = ControlKeys(events)
  BY UsedAppend
<1>4. Disagrees(more, snapshot) <=> Disagrees(events, snapshot)
  BY UsedAppend
<1>5. \A id : UsesOf(more, id) = UsesOf(events, id)
  <2> SUFFICES ASSUME NEW id PROVE UsesOf(more, id) = UsesOf(events, id)
    OBVIOUS
  <2>1. UsesOf(events, id) \in Nat
    <3>1. {i \in Of(events, "mapping_use") : events[i].mapping_id = id} \in SUBSET Of(events, "mapping_use")
      OBVIOUS
    <3>2. IsFiniteSet({i \in Of(events, "mapping_use") : events[i].mapping_id = id})
      BY <3>1, OfFinite
    <3> QED BY <3>2, FS_CardinalityType DEF UsesOf
  <2> QED BY <2>1, UsesAppend
<1>6. Duration(more) = Duration(events) /\ ControlUses(more) = ControlUses(events)
  BY ElapsedAppend, AmountAppend
<1>7. Of(more, "mapping_use") = Of(events, "mapping_use")
  <2>1. e.kind # "mapping_use"
    OBVIOUS
  <2>2. Of(more, "mapping_use") = Of(events, "mapping_use") \cup (IF e.kind = "mapping_use" THEN {Len(events) + 1} ELSE {})
    BY OfAppend
  <2> QED BY <2>1, <2>2
<1>8. StockOf(more) = StockOf(events)
  BY <1>2, <1>3 DEF StockOf
<1>9. BadIn(more, snapshot) = BadIn(events, snapshot)
  <2>1. BadIn(more, snapshot) \in BOOLEAN /\ BadIn(events, snapshot) \in BOOLEAN
    BY DEF BadIn
  <2> QED BY <1>4, <1>6, <2>1 DEF BadIn
<1>10. Stocked(a, StockOf(more), BadIn(more, snapshot))
  <2>1. Stocked(acc, StockOf(more), BadIn(more, snapshot))
    BY <1>8, <1>9 DEF Accounted
  <2> QED BY <2>1 DEF Stocked, Passes, SameKeys
<1>11. Totals(a, more)
  BY <1>2, <1>6, <1>7 DEF Accounted, Totals, Passes
<1>12. ASSUME a.error = NoError PROVE Unfailed(a, more, snapshot)
  <2>1. Unfailed(acc, events, snapshot)
    BY <1>12 DEF Accounted, Passes
  <2>2. UseCounts(a, more)
    BY <1>5, <2>1 DEF Unfailed, UseCounts, Passes
  <2>3. a.total_session_duration_ms = Duration(more)
    BY <1>6, <2>1 DEF Unfailed, Passes
  <2> QED BY <1>2, <1>9, <1>12, <2>1, <2>2, <2>3 DEF Unfailed
<1> QED BY <1>2, <1>10, <1>11, <1>12 DEF Accounted

(* A text run is only counted. *)
LEMMA TextCounted ==
  ASSUME NEW acc \in Accumulators, NEW r \in Nat, NEW k \in Nat,
         NEW a, a = [acc EXCEPT !.text_runs = r, !.text_keys = k]
  PROVE  a \in Accumulators /\ Passes(acc, a)
<1>1. a \in Accumulators
  BY DEF Accumulators
<1>2. Passes(acc, a)
  BY DEF Passes, SameKeys, Accumulators
<1> QED BY <1>1, <1>2

(* A mode transition is only counted. *)
LEMMA TransitionCounted ==
  ASSUME NEW acc \in Accumulators, NEW n \in Nat, NEW t \in Maps(Modes \X Modes, Nat),
         NEW a, a = [acc EXCEPT !.mode_transitions = n, !.transitions = t]
  PROVE  a \in Accumulators /\ Passes(acc, a)
<1>1. a \in Accumulators
  BY DEF Accumulators
<1>2. Passes(acc, a)
  BY DEF Passes, SameKeys, Accumulators
<1> QED BY <1>1, <1>2

(* The start of a session, a text run and a transition keep the accumulator
   exact. *)
LEMMA CountedEvent ==
  ASSUME NEW events \in Logs, NEW e \in LogEvents, e.kind \in {"session_start", "text_run", "mode_transition"},
         NEW snapshot, NEW acc, Accounted(acc, events, snapshot)
  PROVE  Accounted(Observe(acc, e, snapshot), Append(events, e), snapshot)
<1> DEFINE a == Observe(acc, e, snapshot)
<1>1. acc \in Accumulators
  BY DEF Accounted
<1>2. CASE e.kind = "session_start"
  <2>1. a = acc
    BY <1>2 DEF Observe
  <2>2. Passes(acc, a)
    BY <2>1 DEF Passes, SameKeys
  <2> QED BY <1>1, <2>1, <2>2, PassExact
<1>3. CASE e.kind = "text_run"
  <2>1. a = [acc EXCEPT !.text_runs = @ + 1, !.text_keys = @ + e.count]
    BY <1>3 DEF Observe
  <2>2. e.count \in Nat
    BY <1>3, EventType
  <2>3. acc.text_runs + 1 \in Nat /\ acc.text_keys + e.count \in Nat
    BY <1>1, <2>2 DEF Accumulators
  <2> HIDE DEF a
  <2>4. a \in Accumulators /\ Passes(acc, a)
    BY <1>1, <2>1, <2>3, TextCounted
  <2>5. Accounted(a, Append(events, e), snapshot)
    BY <2>4, PassExact
  <2> QED BY <2>5 DEF a
<1>4. CASE e.kind = "mode_transition"
  <2> DEFINE t == Tally(acc.transitions, <<e.from, e.to>>, 1)
  <2>1. a = [acc EXCEPT !.mode_transitions = @ + 1, !.transitions = t]
    BY <1>1, <1>4 DEF Observe, Accumulators
  <2>2. t \in Maps(Modes \X Modes, Nat)
    <3>1. acc.transitions \in Maps(Modes \X Modes, Nat) /\ <<e.from, e.to>> \in Modes \X Modes
      BY <1>1, <1>4, EventType DEF Accumulators
    <3> QED BY <3>1, TallyMap
  <2>3. acc.mode_transitions + 1 \in Nat
    BY <1>1 DEF Accumulators
  <2> HIDE DEF a, t
  <2>4. a \in Accumulators /\ Passes(acc, a)
    BY <1>1, <2>1, <2>2, <2>3, TransitionCounted
  <2>5. Accounted(a, Append(events, e), snapshot)
    BY <2>4, PassExact
  <2> QED BY <2>5 DEF a
<1> QED BY <1>2, <1>3, <1>4

-----------------------------------------------------------------------------
(* What an event of another kind leaves alone. *)
LEMMA OtherKinds ==
  ASSUME NEW events \in Logs, NEW e \in LogEvents, NEW more, more = Append(events, e)
  PROVE  /\ e.kind # "session_end" => Duration(more) = Duration(events)
         /\ e.kind # "control_key_use" =>
              ControlUses(more) = ControlUses(events) /\ ControlKeys(more) = ControlKeys(events)
         /\ e.kind # "mapping_use" =>
              /\ UsedIds(more) = UsedIds(events) /\ Of(more, "mapping_use") = Of(events, "mapping_use")
              /\ \A id : UsesOf(more, id) = UsesOf(events, id)
              /\ \A snapshot : Disagrees(more, snapshot) <=> Disagrees(events, snapshot)
<1>1. ASSUME e.kind # "session_end" PROVE Duration(more) = Duration(events)
  BY <1>1, ElapsedAppend
<1>2. ASSUME e.kind # "control_key_use"
      PROVE  ControlUses(more) = ControlUses(events) /\ ControlKeys(more) = ControlKeys(events)
  <2>1. ControlUses(more) = ControlUses(events) + (IF e.kind = "control_key_use" THEN e.count ELSE 0) /\ ControlUses(events) \in Nat
    BY AmountAppend
  <2>2. ControlUses(more) = ControlUses(events)
    BY <1>2, <2>1
  <2>3. ControlKeys(more) = ControlKeys(events) \cup (IF e.kind = "control_key_use" THEN {<<e.mode, e.key>>} ELSE {})
    BY UsedAppend
  <2>4. ControlKeys(more) = ControlKeys(events)
    BY <1>2, <2>3
  <2> QED BY <2>2, <2>4
<1>3. ASSUME e.kind # "mapping_use"
      PROVE  /\ UsedIds(more) = UsedIds(events) /\ Of(more, "mapping_use") = Of(events, "mapping_use")
             /\ \A id : UsesOf(more, id) = UsesOf(events, id)
             /\ \A snapshot : Disagrees(more, snapshot) <=> Disagrees(events, snapshot)
  <2>1. Of(more, "mapping_use") = Of(events, "mapping_use") \cup (IF e.kind = "mapping_use" THEN {Len(events) + 1} ELSE {})
    BY OfAppend
  <2>2. Of(more, "mapping_use") = Of(events, "mapping_use")
    BY <1>3, <2>1
  <2>3. \A i \in Of(events, "mapping_use") : more[i] = events[i]
    BY OfFinite, AppendEvent
  <2>4. \A id : UsesOf(more, id) = UsesOf(events, id)
    <3> SUFFICES ASSUME NEW id PROVE UsesOf(more, id) = UsesOf(events, id)
      OBVIOUS
    <3>1. {i \in Of(more, "mapping_use") : more[i].mapping_id = id}
            = {i \in Of(events, "mapping_use") : events[i].mapping_id = id}
      BY <2>2, <2>3
    <3> QED BY <3>1 DEF UsesOf
  <2>5. UsedIds(more) = UsedIds(events)
    <3>1. UsedIds(more) = UsedIds(events) \cup (IF e.kind = "mapping_use" THEN {e.mapping_id} ELSE {})
      BY UsedAppend
    <3> QED BY <1>3, <3>1
  <2>6. ASSUME NEW snapshot PROVE Disagrees(more, snapshot) <=> Disagrees(events, snapshot)
    BY <1>3, UsedAppend
  <2> QED BY <2>2, <2>4, <2>5, <2>6
<1> QED BY <1>1, <1>2, <1>3

(* What was bad stays bad, and only an end or a use makes it so. *)
LEMMA BadKinds ==
  ASSUME NEW events \in Logs, NEW e \in LogEvents, NEW more, more = Append(events, e), NEW snapshot
  PROVE  /\ BadIn(events, snapshot) \in BOOLEAN /\ BadIn(more, snapshot) \in BOOLEAN
         /\ BadIn(events, snapshot) => BadIn(more, snapshot)
         /\ e.kind \notin {"session_end", "mapping_use"} => BadIn(more, snapshot) = BadIn(events, snapshot)
<1>1. BadIn(events, snapshot) \in BOOLEAN /\ BadIn(more, snapshot) \in BOOLEAN
  BY DEF BadIn
<1>2. Disagrees(more, snapshot) <=> Disagrees(events, snapshot) \/ (e.kind = "mapping_use" /\ Mismatch(e, snapshot))
  BY UsedAppend
<1>3. /\ Duration(more) = Duration(events) + (IF e.kind = "session_end" THEN e.elapsed ELSE 0)
      /\ Duration(events) \in Nat /\ e.elapsed \in Nat /\ MaxTime \in Nat
  BY ElapsedAppend, EventType, Limits
<1>4. BadIn(events, snapshot) => BadIn(more, snapshot)
  BY <1>2, <1>3 DEF BadIn
<1>5. ASSUME e.kind \notin {"session_end", "mapping_use"}
      PROVE  BadIn(more, snapshot) = BadIn(events, snapshot)
  <2>1. Duration(more) = Duration(events) /\ (Disagrees(more, snapshot) <=> Disagrees(events, snapshot))
    BY <1>2, <1>3, <1>5
  <2> QED BY <1>1, <2>1 DEF BadIn
<1> QED BY <1>1, <1>4, <1>5

(* An error with a reason has one when there are more reasons. *)
LEMMA StockedMore ==
  ASSUME NEW acc, NEW st, NEW bad, NEW worse, Stocked(acc, st, bad), bad => worse
  PROVE  Stocked(acc, st, worse)
BY DEF Stocked

(* What the fields that a stock is about say. *)
SameStock(acc, a) ==
  /\ a.keys = acc.keys /\ a.repeated_keys = acc.repeated_keys /\ a.mappings = acc.mappings
  /\ a.control_keys = acc.control_keys /\ a.retained_token_bytes = acc.retained_token_bytes

(* A stock is kept by what changes no map and no budget. *)
LEMMA StockedSame ==
  ASSUME NEW acc, NEW a, NEW st, NEW bad, Stocked(acc, st, bad), SameStock(acc, a),
         a.error = acc.error \/ (a.error # NoError /\ bad)
  PROVE  Stocked(a, st, bad)
BY DEF Stocked, SameStock

EndCharts(acc, e, a) ==
  /\ a.key_sequences = acc.key_sequences /\ a.text_runs = acc.text_runs /\ a.text_keys = acc.text_keys
  /\ a.mode_transitions = acc.mode_transitions /\ a.modes = acc.modes
  /\ a.sequence_length = acc.sequence_length /\ a.latency = acc.latency
  /\ a.operations = acc.operations /\ a.transitions = acc.transitions
  /\ a.session_duration = Tally(acc.session_duration, Bucket(SessionDurations, e.elapsed), 1)
(* The end of a session. *)
LEMMA EndTimed ==
  ASSUME NEW acc \in Accumulators, NEW e \in LogEvents, NEW total, total = acc.total_session_duration_ms + e.elapsed,
         NEW a, a = ObserveEnd(acc, e)
  PROVE  /\ a \in Accumulators /\ SameKeys(acc, a) /\ SameStock(acc, a)
         /\ a.mapping_uses = acc.mapping_uses /\ a.control_key_uses = acc.control_key_uses
         /\ total > MaxTime => a.error = IF acc.error = NoError THEN "session_duration" ELSE acc.error
         /\ ~(total > MaxTime) => a.error = acc.error /\ a.total_session_duration_ms = total
         /\ EndCharts(acc, e, a)
<1> DEFINE d == Tally(acc.session_duration, Bucket(SessionDurations, e.elapsed), 1)
           timed == [acc EXCEPT !.session_duration = d]
<1>1. d \in Maps(Nat, Nat)
  <2>1. Bucket(SessionDurations, e.elapsed) \in Nat /\ acc.session_duration \in Maps(Nat, Nat)
    BY EventType, BucketType DEF Accumulators
  <2> QED BY <2>1, TallyMap
<1>2. a = IF total > MaxTime THEN RecordError(timed, "session_duration")
          ELSE [timed EXCEPT !.total_session_duration_ms = total]
  BY DEF ObserveEnd, Accumulators
<1>3. total \in Nat
  BY EventType DEF Accumulators
<1> HIDE DEF d
<1>4. /\ timed \in Accumulators /\ SameKeys(acc, timed) /\ SameStock(acc, timed) /\ timed.error = acc.error
      /\ timed.mapping_uses = acc.mapping_uses /\ timed.control_key_uses = acc.control_key_uses
  BY <1>1 DEF Accumulators, SameKeys, SameStock
<1>7. EndCharts(acc, e, timed)
  <2>1. timed.session_duration = d
    BY DEF Accumulators
  <2>2. /\ timed.key_sequences = acc.key_sequences /\ timed.text_runs = acc.text_runs
        /\ timed.text_keys = acc.text_keys
        /\ timed.mode_transitions = acc.mode_transitions /\ timed.modes = acc.modes
        /\ timed.sequence_length = acc.sequence_length /\ timed.latency = acc.latency
        /\ timed.operations = acc.operations /\ timed.transitions = acc.transitions
    BY DEF Accumulators
  <2> QED BY <2>1, <2>2 DEF EndCharts, d
<1> HIDE DEF timed
<1>8. EndCharts(acc, e, a)
  <2>1. a = [timed EXCEPT !.error = a.error, !.total_session_duration_ms = a.total_session_duration_ms]
    BY <1>2, <1>4 DEF RecordError, Accumulators
  <2>2. SameCharts(timed, a)
    BY <1>4, <2>1 DEF Accumulators, SameCharts
  <2> QED BY <1>7, <2>2 DEF EndCharts, SameCharts
<1>5. CASE total > MaxTime
  <2>1. a = IF timed.error = NoError THEN [timed EXCEPT !.error = "session_duration"] ELSE timed
    BY <1>2, <1>5 DEF RecordError
  <2>2. CASE timed.error = NoError
    <3>1. a = [timed EXCEPT !.error = "session_duration"]
      BY <2>1, <2>2
    <3>2. a \in Accumulators /\ a.error = "session_duration" /\ "session_duration" # NoError
      BY <1>4, <3>1 DEF Accumulators, Errors, NoError
    <3>3. SameKeys(acc, a) /\ SameStock(acc, a) /\ a.mapping_uses = acc.mapping_uses /\ a.control_key_uses = acc.control_key_uses
      BY <1>4, <3>1, <3>2 DEF Accumulators, SameKeys, SameStock
    <3> QED BY <1>4, <1>5, <1>8, <2>2, <3>2, <3>3
  <2>3. CASE timed.error # NoError
    BY <1>4, <1>5, <1>8, <2>1, <2>3
  <2> QED BY <2>2, <2>3
<1>6. CASE ~(total > MaxTime)
  <2>1. a = [timed EXCEPT !.total_session_duration_ms = total]
    BY <1>2, <1>6
  <2>2. a \in Accumulators /\ a.error = acc.error /\ a.total_session_duration_ms = total
    BY <1>3, <1>4, <2>1 DEF Accumulators
  <2>3. SameKeys(acc, a) /\ SameStock(acc, a) /\ a.mapping_uses = acc.mapping_uses /\ a.control_key_uses = acc.control_key_uses
    BY <1>4, <2>1 DEF Accumulators, SameKeys, SameStock
  <2> QED BY <1>6, <1>8, <2>2, <2>3
<1> QED BY <1>5, <1>6, <1>8

(* The end of a session keeps the accumulator exact. *)
LEMMA EndEvent ==
  ASSUME NEW events \in Logs, NEW e \in LogEvents, e.kind = "session_end",
         NEW snapshot, NEW acc, Accounted(acc, events, snapshot)
  PROVE  Accounted(Observe(acc, e, snapshot), Append(events, e), snapshot)
<1> DEFINE a == Observe(acc, e, snapshot)
           more == Append(events, e)
           total == acc.total_session_duration_ms + e.elapsed
<1>1. acc \in Accumulators /\ a = ObserveEnd(acc, e)
  BY DEF Accounted, Observe
<1> HIDE DEF a
<1>2. /\ a \in Accumulators /\ SameKeys(acc, a) /\ SameStock(acc, a)
      /\ a.mapping_uses = acc.mapping_uses /\ a.control_key_uses = acc.control_key_uses
      /\ total > MaxTime => a.error = IF acc.error = NoError THEN "session_duration" ELSE acc.error
      /\ ~(total > MaxTime) => a.error = acc.error /\ a.total_session_duration_ms = total
  BY <1>1, EndTimed
<1> HIDE DEF more
<1>3. /\ RepeatsExact(a, more) /\ DigitsCounted(a, more) /\ MotionsExact(a, more)
      /\ a.sequence_keys = Cardinality(Keyed(more))
      /\ a.error = NoError => KeyCounts(a, more)
      /\ Tokens(more) = Tokens(events)
      /\ KeysOf(Runs(more, 2), KeyAt(more)) = KeysOf(Runs(events, 2), KeyAt(events))
  BY <1>2, SameKeysExact DEF more
<1>4. /\ ControlUses(more) = ControlUses(events) /\ ControlKeys(more) = ControlKeys(events)
      /\ UsedIds(more) = UsedIds(events) /\ Of(more, "mapping_use") = Of(events, "mapping_use")
      /\ \A id : UsesOf(more, id) = UsesOf(events, id)
      /\ (Disagrees(more, snapshot) <=> Disagrees(events, snapshot))
  BY OtherKinds DEF more
<1>5. Duration(more) = Duration(events) + e.elapsed /\ Duration(events) \in Nat /\ e.elapsed \in Nat
  BY ElapsedAppend, EventType DEF more
<1>6. StockOf(more) = StockOf(events)
  BY <1>3, <1>4 DEF StockOf
<1>7. BadIn(events, snapshot) => BadIn(more, snapshot)
  BY BadKinds DEF more
<1>8. Totals(a, more)
  BY <1>2, <1>3, <1>4 DEF Accounted, Totals
<1>9. ASSUME acc.error = NoError PROVE total = Duration(more) /\ ~BadIn(events, snapshot)
  BY <1>5, <1>9 DEF Accounted, Unfailed
<1> HIDE DEF total
<1>10. Stocked(a, StockOf(more), BadIn(more, snapshot))
  <2>1. Stocked(acc, StockOf(more), BadIn(more, snapshot))
    <3>1. Stocked(acc, StockOf(more), BadIn(events, snapshot))
      BY <1>6 DEF Accounted
    <3> QED BY <1>7, <3>1, StockedMore
  <2>2. a.error = acc.error \/ (a.error # NoError /\ BadIn(more, snapshot))
    <3>1. CASE total > MaxTime /\ acc.error = NoError
      <4>1. a.error = "session_duration" /\ a.error # NoError
        BY <1>2, <3>1 DEF NoError
      <4>2. Duration(more) > MaxTime
        BY <1>9, <3>1
      <4> QED BY <4>1, <4>2 DEF BadIn
    <3>2. CASE ~(total > MaxTime /\ acc.error = NoError)
      BY <1>2, <3>2
    <3> QED BY <3>1, <3>2
  <2> QED BY <1>2, <2>1, <2>2, StockedSame
<1>11. ASSUME a.error = NoError PROVE Unfailed(a, more, snapshot)
  <2>1. acc.error = NoError /\ ~(total > MaxTime)
    BY <1>2, <1>11 DEF NoError
  <2>2. Unfailed(acc, events, snapshot) /\ total = Duration(more)
    BY <1>9, <2>1 DEF Accounted
  <2>3. a.total_session_duration_ms = Duration(more)
    BY <1>2, <2>1, <2>2
  <2>4. ~BadIn(more, snapshot)
    BY <1>4, <2>1, <2>2 DEF Unfailed, BadIn
  <2>5. UseCounts(a, more)
    BY <1>2, <1>4, <2>2 DEF Unfailed, UseCounts, SameStock
  <2> QED BY <1>3, <1>11, <2>3, <2>4, <2>5 DEF Unfailed
<1>12. Accounted(a, more, snapshot)
  BY <1>2, <1>3, <1>8, <1>10, <1>11 DEF Accounted
<1> QED BY <1>12 DEF a, more

-----------------------------------------------------------------------------
(* The use of a control key. *)
UsedControl(acc, n, a) == a = [acc EXCEPT !.control_key_uses = n]

(* The uses of control keys are counted before the key is entered. *)
LEMMA ControlUsed ==
  ASSUME NEW acc \in Accumulators, NEW n \in Nat, NEW a, UsedControl(acc, n, a)
  PROVE  /\ a \in Accumulators /\ SameKeys(acc, a) /\ SameStock(acc, a) /\ a.error = acc.error
         /\ a.mapping_uses = acc.mapping_uses /\ a.control_key_uses = n
         /\ a.total_session_duration_ms = acc.total_session_duration_ms /\ SameCharts(acc, a)
<1>1. a \in Accumulators /\ a.control_key_uses = n /\ a.error = acc.error
  BY DEF UsedControl, Accumulators
<1>2. SameKeys(acc, a) /\ SameStock(acc, a)
  BY DEF UsedControl, Accumulators, SameKeys, SameStock
<1>3. a.mapping_uses = acc.mapping_uses /\ a.total_session_duration_ms = acc.total_session_duration_ms
  BY DEF UsedControl, Accumulators
<1>4. SameCharts(acc, a)
  BY DEF UsedControl, Accumulators, SameCharts
<1> QED BY <1>1, <1>2, <1>3, <1>4

(* Entering a control key leaves the rest. *)
LEMMA ControlOnlyLeaves ==
  ASSUME NEW u \in Accumulators, NEW a \in Accumulators, ControlOnly(u, a), a.error = NoError => u.error = NoError
  PROVE  /\ SameKeys(u, a) /\ a.mappings = u.mappings
         /\ a.mapping_uses = u.mapping_uses /\ a.control_key_uses = u.control_key_uses
         /\ a.total_session_duration_ms = u.total_session_duration_ms /\ SameCharts(u, a)
<1>1. SameKeys(u, a)
  BY DEF ControlOnly, Accumulators, SameKeys
<1>2. a.mappings = u.mappings /\ a.mapping_uses = u.mapping_uses
  BY DEF ControlOnly, Accumulators
<1>3. a.control_key_uses = u.control_key_uses /\ a.total_session_duration_ms = u.total_session_duration_ms
  BY DEF ControlOnly, Accumulators
<1>4. SameCharts(u, a)
  BY DEF ControlOnly, Accumulators, SameCharts
<1> QED BY <1>1, <1>2, <1>3, <1>4

(* What two steps leave alone, both together do. *)
LEMMA SameKeysTwice ==
  ASSUME NEW a, NEW b, NEW c, SameKeys(a, b), SameKeys(b, c)
  PROVE  SameKeys(a, c)
BY DEF SameKeys

(* The same of charts. *)
LEMMA SameChartsTwice ==
  ASSUME NEW a, NEW b, NEW c, SameCharts(a, b), SameCharts(b, c)
  PROVE  SameCharts(a, c)
BY DEF SameCharts

WithControl(st, k) == [st EXCEPT !.control_keys = @ \cup {k}]
WithMapping(st, k) == [st EXCEPT !.mappings = @ \cup {k}]

(* The use of a control key keeps the accumulator exact. *)
LEMMA ControlEvent ==
  ASSUME NEW events \in Logs, NEW e \in LogEvents, e.kind = "control_key_use",
         NEW snapshot, NEW acc, Accounted(acc, events, snapshot)
  PROVE  /\ Accounted(Observe(acc, e, snapshot), Append(events, e), snapshot)
         /\ SameCharts(acc, Observe(acc, e, snapshot))
         /\ Observe(acc, e, snapshot).error = NoError =>
              /\ acc.error = NoError
              /\ Incremented(acc.control_keys, Observe(acc, e, snapshot).control_keys, <<e.mode, e.key>>, e.count)
<1> DEFINE a == Observe(acc, e, snapshot)
           more == Append(events, e)
           n == acc.control_key_uses + e.count
           k == <<e.mode, e.key>>
           st == StockOf(events)
           bad == BadIn(events, snapshot)
           rest == WithControl(st, k)
<1>1. acc \in Accumulators /\ a = ObserveControlKey(acc, e)
  BY DEF Accounted, Observe
<1>2. e.mode \in TextModes /\ e.key \in Token /\ e.count \in Nat
  BY EventType
<1>3. PICK u : UsedControl(acc, n, u)
  BY DEF UsedControl
<1>4. n \in Nat
  BY <1>1, <1>2 DEF Accumulators
<1> HIDE DEF n
<1>5. /\ u \in Accumulators /\ SameKeys(acc, u) /\ SameStock(acc, u) /\ u.error = acc.error
      /\ u.mapping_uses = acc.mapping_uses /\ u.control_key_uses = n
      /\ u.total_session_duration_ms = acc.total_session_duration_ms /\ SameCharts(acc, u)
  BY <1>1, <1>3, <1>4, ControlUsed
<1>6. a = IncrementBounded(u, "control_keys", k, Size[k[1]] + Size[k[2]], e.count, "distinct_keys")
  <2>1. u = [acc EXCEPT !.control_key_uses = acc.control_key_uses + e.count]
    BY <1>3 DEF UsedControl, n
  <2>2. k[1] = e.mode /\ k[2] = e.key
    OBVIOUS
  <2> HIDE DEF a
  <2> QED BY <1>1, <2>1, <2>2 DEF ObserveControlKey
<1>7. k \in TextModes \X Token
  BY <1>2
<1> HIDE DEF a, k, more
<1>8. st \in Stocks /\ bad \in BOOLEAN
  BY StockOfType DEF BadIn
<1>9. Stocked(u, st, bad)
  <2>1. Stocked(acc, st, bad)
    BY DEF Accounted
  <2> HIDE DEF st, bad
  <2> QED BY <1>5, <2>1, StockedSame
<1> HIDE DEF st, bad
<1>10. "distinct_keys" \in Errors /\ "distinct_keys" # NoError
  BY DEF Errors, NoError
<1>11. rest = [st EXCEPT !.control_keys = @ \cup {k}]
  BY DEF WithControl
<1> HIDE DEF rest
<1>12. /\ a \in Accumulators /\ rest \in Stocks /\ Stocked(a, rest, bad) /\ ControlOnly(u, a)
       /\ a.error = NoError => u.error = NoError /\ Incremented(u.control_keys, a.control_keys, k, e.count)
  BY <1>2, <1>5, <1>6, <1>7, <1>8, <1>9, <1>10, <1>11, ControlIncrement
<1>13. /\ SameKeys(u, a) /\ a.mappings = u.mappings
       /\ a.mapping_uses = u.mapping_uses /\ a.control_key_uses = u.control_key_uses
       /\ a.total_session_duration_ms = u.total_session_duration_ms /\ SameCharts(u, a)
  BY <1>5, <1>12, ControlOnlyLeaves
<1>14. SameKeys(acc, a)
  BY <1>5, <1>13, SameKeysTwice
<1>15. /\ RepeatsExact(a, more) /\ DigitsCounted(a, more) /\ MotionsExact(a, more)
       /\ a.sequence_keys = Cardinality(Keyed(more))
       /\ a.error = NoError => KeyCounts(a, more)
       /\ Tokens(more) = Tokens(events)
       /\ KeysOf(Runs(more, 2), KeyAt(more)) = KeysOf(Runs(events, 2), KeyAt(events))
  BY <1>14, SameKeysExact DEF more
<1>16. /\ Duration(more) = Duration(events)
       /\ UsedIds(more) = UsedIds(events) /\ Of(more, "mapping_use") = Of(events, "mapping_use")
       /\ \A id : UsesOf(more, id) = UsesOf(events, id)
  BY OtherKinds DEF more
<1>17. ControlUses(more) = ControlUses(events) + e.count
  <2>1. ControlUses(more) = ControlUses(events) + (IF e.kind = "control_key_use" THEN e.count ELSE 0)
    BY AmountAppend DEF more
  <2> QED BY <2>1
<1>18. ControlKeys(more) = ControlKeys(events) \cup {k}
  <2>1. ControlKeys(more) = ControlKeys(events) \cup (IF e.kind = "control_key_use" THEN {<<e.mode, e.key>>} ELSE {})
    BY UsedAppend DEF more
  <2> QED BY <2>1 DEF k
<1>19. StockOf(more) = rest
  BY <1>15, <1>16, <1>18 DEF StockOf, rest, WithControl, st
<1>20. BadIn(more, snapshot) = bad
  <2>1. e.kind \notin {"session_end", "mapping_use"}
    OBVIOUS
  <2> QED BY <2>1, BadKinds DEF more, bad
<1>21. Totals(a, more)
  BY <1>5, <1>13, <1>15, <1>16, <1>17 DEF Accounted, Totals, n
<1>22. ASSUME a.error = NoError PROVE Unfailed(a, more, snapshot)
  <2>1. Unfailed(acc, events, snapshot)
    BY <1>5, <1>12, <1>22 DEF Accounted
  <2>2. a.total_session_duration_ms = Duration(more)
    BY <1>5, <1>13, <1>16, <2>1 DEF Unfailed
  <2>3. ~BadIn(more, snapshot)
    BY <1>20, <2>1 DEF Unfailed, bad
  <2>4. UseCounts(a, more)
    BY <1>5, <1>13, <1>16, <2>1 DEF Unfailed, UseCounts, SameStock
  <2> QED BY <1>15, <1>22, <2>2, <2>3, <2>4 DEF Unfailed
<1>23. Accounted(a, more, snapshot)
  BY <1>12, <1>15, <1>19, <1>20, <1>21, <1>22 DEF Accounted
<1>24. SameCharts(acc, a)
  BY <1>5, <1>13, SameChartsTwice
<1>25. ASSUME a.error = NoError PROVE acc.error = NoError /\ Incremented(acc.control_keys, a.control_keys, k, e.count)
  BY <1>5, <1>12, <1>25 DEF SameStock
<1> QED BY <1>23, <1>24, <1>25 DEF a, more, k

(* The use of a mapping. *)
UsedMapping(acc, n, a) == a = [acc EXCEPT !.mapping_uses = n]

(* The uses of mappings are counted before the ID is entered. *)
LEMMA MappingUsed ==
  ASSUME NEW acc \in Accumulators, NEW n \in Nat, NEW a, UsedMapping(acc, n, a)
  PROVE  /\ a \in Accumulators /\ SameKeys(acc, a) /\ SameStock(acc, a) /\ a.error = acc.error
         /\ a.mapping_uses = n /\ a.control_key_uses = acc.control_key_uses
         /\ a.total_session_duration_ms = acc.total_session_duration_ms /\ SameCharts(acc, a)
<1>1. a \in Accumulators /\ a.mapping_uses = n /\ a.error = acc.error
  BY DEF UsedMapping, Accumulators
<1>2. SameKeys(acc, a) /\ SameStock(acc, a)
  BY DEF UsedMapping, Accumulators, SameKeys, SameStock
<1>3. a.control_key_uses = acc.control_key_uses /\ a.total_session_duration_ms = acc.total_session_duration_ms
  BY DEF UsedMapping, Accumulators
<1>4. SameCharts(acc, a)
  BY DEF UsedMapping, Accumulators, SameCharts
<1> QED BY <1>1, <1>2, <1>3, <1>4

(* A first error, and nothing else. *)
LEMMA ErrorOnly ==
  ASSUME NEW acc \in Accumulators, NEW error \in Errors, error # NoError, NEW a, a = RecordError(acc, error)
  PROVE  /\ a \in Accumulators /\ SameKeys(acc, a) /\ SameStock(acc, a) /\ a.error # NoError
         /\ a.mapping_uses = acc.mapping_uses /\ a.control_key_uses = acc.control_key_uses
         /\ a.error = acc.error \/ acc.error = NoError
         /\ SameCharts(acc, a)
<1>1. CASE acc.error = NoError
  <2>1. a = [acc EXCEPT !.error = error]
    BY <1>1 DEF RecordError
  <2>2. a \in Accumulators /\ a.error = error
    BY <2>1 DEF Accumulators
  <2>3. SameKeys(acc, a) /\ SameStock(acc, a) /\ a.mapping_uses = acc.mapping_uses /\ a.control_key_uses = acc.control_key_uses
    BY <2>1, <2>2 DEF Accumulators, SameKeys, SameStock
  <2>4. SameCharts(acc, a)
    BY <2>1 DEF Accumulators, SameCharts
  <2> QED BY <1>1, <2>2, <2>3, <2>4
<1>2. CASE acc.error # NoError
  BY <1>2 DEF RecordError, SameKeys, SameStock, SameCharts
<1> QED BY <1>1, <1>2

(* Entering a mapping ID leaves the rest. *)
LEMMA MappingOnlyLeaves ==
  ASSUME NEW u \in Accumulators, NEW a \in Accumulators, MappingOnly(u, a), a.error = NoError => u.error = NoError
  PROVE  /\ SameKeys(u, a) /\ SameCharts(u, a) /\ a.control_keys = u.control_keys
         /\ a.mapping_uses = u.mapping_uses /\ a.control_key_uses = u.control_key_uses
         /\ a.total_session_duration_ms = u.total_session_duration_ms
<1>1. SameKeys(u, a)
  BY DEF MappingOnly, Accumulators, SameKeys
<1>2. a.mapping_uses = u.mapping_uses
  BY DEF MappingOnly, Accumulators
<1>3. a.control_key_uses = u.control_key_uses /\ a.total_session_duration_ms = u.total_session_duration_ms
  BY DEF MappingOnly, Accumulators
<1>4. SameCharts(u, a) /\ a.control_keys = u.control_keys
  BY DEF MappingOnly, Accumulators, SameCharts
<1> QED BY <1>1, <1>2, <1>3, <1>4

(* A use is checked against the snapshot before it is counted. *)
Checked(u, c, e, snapshot) == c = IF Mismatch(e, snapshot) THEN RecordError(u, "snapshot_mismatch") ELSE u

(* The use of a mapping keeps the accumulator exact. *)
LEMMA MappingEvent ==
  ASSUME NEW events \in Logs, NEW e \in LogEvents, e.kind = "mapping_use",
         NEW snapshot, NEW acc, Accounted(acc, events, snapshot)
  PROVE  /\ Accounted(Observe(acc, e, snapshot), Append(events, e), snapshot)
         /\ SameCharts(acc, Observe(acc, e, snapshot))
         /\ Observe(acc, e, snapshot).control_keys = acc.control_keys
         /\ Observe(acc, e, snapshot).error = NoError => acc.error = NoError
<1> DEFINE a == Observe(acc, e, snapshot)
           more == Append(events, e)
           n == acc.mapping_uses + 1
           id == e.mapping_id
           st == StockOf(events)
           bad == BadIn(more, snapshot)
           rest == WithMapping(st, id)
<1>1. acc \in Accumulators /\ a = ObserveMapping(acc, e, snapshot)
  BY DEF Accounted, Observe
<1>2. id \in Token
  BY EventType
<1>3. PICK u : UsedMapping(acc, n, u)
  BY DEF UsedMapping
<1>4. n \in Nat
  BY <1>1 DEF Accumulators
<1> HIDE DEF n
<1>5. /\ u \in Accumulators /\ SameKeys(acc, u) /\ SameStock(acc, u) /\ u.error = acc.error
      /\ u.mapping_uses = n /\ u.control_key_uses = acc.control_key_uses
      /\ u.total_session_duration_ms = acc.total_session_duration_ms /\ SameCharts(acc, u)
  BY <1>1, <1>3, <1>4, MappingUsed
<1>6. PICK c : Checked(u, c, e, snapshot)
  BY DEF Checked
<1>7. a = IncrementBounded(c, "mappings", id, Size[id], 1, "distinct_mappings")
  <2>1. u = [acc EXCEPT !.mapping_uses = acc.mapping_uses + 1]
    BY <1>3 DEF UsedMapping, n
  <2> HIDE DEF a
  <2> QED BY <1>1, <1>6, <2>1 DEF ObserveMapping, Checked
<1> HIDE DEF a, id, more
<1>8. st \in Stocks /\ bad \in BOOLEAN /\ (BadIn(events, snapshot) => bad)
  BY StockOfType, BadKinds DEF more
<1>9. Mismatch(e, snapshot) => bad
  BY UsedAppend DEF BadIn, more
<1>10. Stocked(u, st, bad)
  <2>1. Stocked(acc, st, BadIn(events, snapshot))
    BY DEF Accounted
  <2> HIDE DEF st, bad
  <2>2. Stocked(acc, st, bad)
    BY <1>8, <2>1, StockedMore
  <2> QED BY <1>5, <2>2, StockedSame
<1>11. /\ c \in Accumulators /\ SameKeys(u, c) /\ SameStock(u, c) /\ Stocked(c, st, bad)
       /\ c.mapping_uses = u.mapping_uses /\ c.control_key_uses = u.control_key_uses
       /\ c.error = NoError => u.error = NoError /\ c = u /\ ~Mismatch(e, snapshot)
       /\ SameCharts(u, c)
  <2> HIDE DEF st, bad
  <2>1. CASE Mismatch(e, snapshot)
    <3>1. c = RecordError(u, "snapshot_mismatch")
      BY <1>6, <2>1 DEF Checked
    <3>2. "snapshot_mismatch" \in Errors /\ "snapshot_mismatch" # NoError
      BY DEF Errors, NoError
    <3>3. /\ c \in Accumulators /\ SameKeys(u, c) /\ SameStock(u, c) /\ c.error # NoError
          /\ c.mapping_uses = u.mapping_uses /\ c.control_key_uses = u.control_key_uses /\ SameCharts(u, c)
      BY <1>5, <3>1, <3>2, ErrorOnly
    <3>4. Stocked(c, st, bad)
      BY <1>9, <1>10, <2>1, <3>3, StockedSame
    <3> QED BY <3>3, <3>4
  <2>2. CASE ~Mismatch(e, snapshot)
    <3>1. c = u
      BY <1>6, <2>2 DEF Checked
    <3> QED BY <1>5, <1>10, <2>2, <3>1 DEF SameKeys, SameStock, SameCharts
  <2> QED BY <2>1, <2>2
<1> HIDE DEF st, bad
<1>12. "distinct_mappings" \in Errors /\ "distinct_mappings" # NoError
  BY DEF Errors, NoError
<1>13. rest = [st EXCEPT !.mappings = @ \cup {id}]
  BY DEF WithMapping
<1> HIDE DEF rest
<1>14. /\ a \in Accumulators /\ rest \in Stocks /\ Stocked(a, rest, bad) /\ MappingOnly(c, a)
       /\ a.error = NoError => c.error = NoError /\ Incremented(c.mappings, a.mappings, id, 1)
  BY <1>2, <1>7, <1>8, <1>11, <1>12, <1>13, MappingIncrement
<1>15. /\ SameKeys(c, a) /\ SameCharts(c, a) /\ a.control_keys = c.control_keys
       /\ a.mapping_uses = c.mapping_uses /\ a.control_key_uses = c.control_key_uses
       /\ a.total_session_duration_ms = c.total_session_duration_ms
  BY <1>11, <1>14, MappingOnlyLeaves
<1>16. SameKeys(acc, a)
  BY <1>5, <1>11, <1>15, SameKeysTwice
<1>17. /\ RepeatsExact(a, more) /\ DigitsCounted(a, more) /\ MotionsExact(a, more)
       /\ a.sequence_keys = Cardinality(Keyed(more))
       /\ a.error = NoError => KeyCounts(a, more)
       /\ Tokens(more) = Tokens(events)
       /\ KeysOf(Runs(more, 2), KeyAt(more)) = KeysOf(Runs(events, 2), KeyAt(events))
  BY <1>16, SameKeysExact DEF more
<1>18. /\ Duration(more) = Duration(events)
       /\ ControlUses(more) = ControlUses(events) /\ ControlKeys(more) = ControlKeys(events)
  BY OtherKinds DEF more
<1>19. Cardinality(Of(more, "mapping_use")) = Cardinality(Of(events, "mapping_use")) + 1
  <2>1. Cardinality(Of(more, "mapping_use"))
          = Cardinality(Of(events, "mapping_use")) + (IF e.kind = "mapping_use" THEN 1 ELSE 0)
    BY OfSize DEF more
  <2> QED BY <2>1
<1>20. UsedIds(more) = UsedIds(events) \cup {id}
  <2>1. UsedIds(more) = UsedIds(events) \cup (IF e.kind = "mapping_use" THEN {e.mapping_id} ELSE {})
    BY UsedAppend DEF more
  <2> QED BY <2>1 DEF id
<1>21. StockOf(more) = rest
  BY <1>17, <1>18, <1>20 DEF StockOf, rest, WithMapping, st
<1>22. Totals(a, more)
  BY <1>5, <1>11, <1>15, <1>17, <1>18, <1>19 DEF Accounted, Totals, n
<1>23. ASSUME a.error = NoError PROVE Unfailed(a, more, snapshot)
  <2>1. acc.error = NoError /\ c = u /\ ~Mismatch(e, snapshot)
    BY <1>5, <1>11, <1>14, <1>23
  <2>2. Unfailed(acc, events, snapshot)
    BY <2>1 DEF Accounted
  <2>3. a.total_session_duration_ms = Duration(more)
    BY <1>5, <1>15, <1>18, <2>1, <2>2 DEF Unfailed
  <2>4. ~BadIn(more, snapshot)
    <3>1. ~Disagrees(more, snapshot)
      BY <2>1, <2>2, UsedAppend DEF Unfailed, BadIn, more
    <3> QED BY <1>18, <2>2, <3>1 DEF Unfailed, BadIn
  <2>5. UseCounts(a, more)
    <3> SUFFICES ASSUME NEW j PROVE CountOf(a.mappings, j) = UsesOf(more, j)
      BY DEF UseCounts
    <3>1. CountOf(a.mappings, j) = IF j = id THEN CountOf(c.mappings, j) + 1 ELSE CountOf(c.mappings, j)
      BY <1>14, <1>23 DEF Incremented
    <3>2. CountOf(c.mappings, j) = UsesOf(events, j)
      BY <1>5, <2>1, <2>2 DEF Unfailed, UseCounts, SameStock
    <3>3. UsesOf(more, j) = UsesOf(events, j) + (IF e.kind = "mapping_use" /\ e.mapping_id = j THEN 1 ELSE 0)
      BY UsesAppend DEF more
    <3>4. UsesOf(events, j) \in Nat
      <4>1. c.mappings \in Maps(Token, Nat)
        BY <1>11 DEF Accumulators
      <4> QED BY <3>2, <4>1, CountType
    <3> QED BY <3>1, <3>2, <3>3, <3>4 DEF id
  <2> QED BY <1>17, <1>23, <2>3, <2>4, <2>5 DEF Unfailed
<1>24. Accounted(a, more, snapshot)
  BY <1>14, <1>17, <1>21, <1>22, <1>23 DEF Accounted, bad
<1>25. SameCharts(acc, a)
  BY <1>5, <1>11, <1>15, SameChartsTwice
<1>26. a.control_keys = acc.control_keys
  BY <1>5, <1>11, <1>15 DEF SameStock
<1>27. a.error = NoError => acc.error = NoError
  BY <1>5, <1>11, <1>14
<1> QED BY <1>24, <1>25, <1>26, <1>27 DEF a, more

-----------------------------------------------------------------------------
(* A key sequence: what is counted of it as a whole. *)
ErgonomicTo(acc, a, length, latency, operations, occurrences, presses, motions) ==
  a = [acc EXCEPT !.sequence_length = length, !.latency = latency, !.operations = operations,
                  !.count_occurrences = occurrences, !.count_digit_presses = presses, !.repeated_motions = motions]
CountedTo(acc, a, sequences, keys, modes) ==
  a = [acc EXCEPT !.key_sequences = sequences, !.sequence_keys = keys, !.modes = modes]
SameCounts(acc, a) ==
  /\ a.text_runs = acc.text_runs /\ a.text_keys = acc.text_keys /\ a.mode_transitions = acc.mode_transitions
  /\ a.transitions = acc.transitions /\ a.session_duration = acc.session_duration
SameBut(acc, a) ==
  /\ SameStock(acc, a) /\ a.error = acc.error
  /\ a.mapping_uses = acc.mapping_uses /\ a.control_key_uses = acc.control_key_uses
  /\ a.total_session_duration_ms = acc.total_session_duration_ms
  /\ a.repeated_key_runs = acc.repeated_key_runs /\ a.repeated_key_presses = acc.repeated_key_presses

(* The ergonomic measures change and nothing else. *)
LEMMA ErgonomicType ==
  ASSUME NEW acc \in Accumulators, NEW length \in Maps(Nat, Nat), NEW latency \in Maps(Nat, Nat),
         NEW operations \in Maps(OperationNames, Nat), NEW occurrences \in Nat, NEW presses \in Nat,
         NEW motions \in Maps(Token, Numbers),
         NEW a, ErgonomicTo(acc, a, length, latency, operations, occurrences, presses, motions)
  PROVE  /\ a \in Accumulators /\ SameBut(acc, a) /\ a.sequence_keys = acc.sequence_keys
         /\ a.key_sequences = acc.key_sequences /\ a.modes = acc.modes
         /\ a.count_occurrences = occurrences /\ a.count_digit_presses = presses /\ a.repeated_motions = motions
         /\ SameCounts(acc, a)
         /\ a.sequence_length = length /\ a.latency = latency /\ a.operations = operations
<1>1. a \in Accumulators
  BY DEF ErgonomicTo, Accumulators
<1>2. SameBut(acc, a)
  BY DEF ErgonomicTo, Accumulators, SameBut, SameStock
<1>3. a.sequence_keys = acc.sequence_keys /\ a.key_sequences = acc.key_sequences /\ a.modes = acc.modes
  BY DEF ErgonomicTo, Accumulators
<1>4. a.count_occurrences = occurrences /\ a.count_digit_presses = presses /\ a.repeated_motions = motions
  BY DEF ErgonomicTo, Accumulators
<1>5. SameCounts(acc, a)
  BY DEF ErgonomicTo, Accumulators, SameCounts
<1>6. a.sequence_length = length /\ a.latency = latency /\ a.operations = operations
  BY DEF ErgonomicTo, Accumulators
<1> QED BY <1>1, <1>2, <1>3, <1>4, <1>5, <1>6

(* The totals of sequences change and nothing else. *)
LEMMA CountedToType ==
  ASSUME NEW acc \in Accumulators, NEW sequences \in Nat, NEW keys \in Nat, NEW modes \in Maps(SequenceModes, Numbers),
         NEW a, CountedTo(acc, a, sequences, keys, modes)
  PROVE  /\ a \in Accumulators /\ SameBut(acc, a) /\ a.sequence_keys = keys
         /\ a.count_occurrences = acc.count_occurrences /\ a.count_digit_presses = acc.count_digit_presses
         /\ a.repeated_motions = acc.repeated_motions
         /\ SameCounts(acc, a) /\ a.key_sequences = sequences /\ a.modes = modes
         /\ a.sequence_length = acc.sequence_length /\ a.latency = acc.latency /\ a.operations = acc.operations
<1>1. a \in Accumulators
  BY DEF CountedTo, Accumulators
<1>2. SameBut(acc, a)
  BY DEF CountedTo, Accumulators, SameBut, SameStock
<1>3. /\ a.sequence_keys = keys
      /\ a.count_occurrences = acc.count_occurrences /\ a.count_digit_presses = acc.count_digit_presses
      /\ a.repeated_motions = acc.repeated_motions
  BY DEF CountedTo, Accumulators
<1>4. SameCounts(acc, a) /\ a.key_sequences = sequences /\ a.modes = modes
  BY DEF CountedTo, Accumulators, SameCounts
<1>5. a.sequence_length = acc.sequence_length /\ a.latency = acc.latency /\ a.operations = acc.operations
  BY DEF CountedTo, Accumulators
<1> QED BY <1>1, <1>2, <1>3, <1>4, <1>5

SequenceCharts(acc, e, a) ==
  /\ SameCounts(acc, a) /\ a.key_sequences = acc.key_sequences + 1
  /\ a.modes = TallyPair(acc.modes, e.mode, Len(e.keys))
  /\ a.sequence_length = Tally(acc.sequence_length, Bucket(SequenceLengths, Len(e.keys)), 1)
  /\ a.latency = IF Len(e.keys) >= 2
                 THEN Tally(acc.latency, Bucket(Latencies, e.duration \div (Len(e.keys) - 1)), 1)
                 ELSE acc.latency
  /\ a.operations = CountOperations(acc.operations, e.keys)
SequenceCounted(acc, e) ==
  [ObserveErgonomics(acc, e) EXCEPT !.key_sequences = @ + 1, !.sequence_keys = @ + Len(e.keys),
                                    !.modes = TallyPair(@, e.mode, Len(e.keys))]

(* What a key sequence adds to the totals. *)
LEMMA SequenceTotals ==
  ASSUME NEW acc \in Accumulators, NEW e \in LogEvents, e.kind = "key_sequence", NEW a, a = SequenceCounted(acc, e),
         CountMotions(acc.repeated_motions, RunsOf(e.keys)) \in Maps(Token, Numbers)
  PROVE  /\ a \in Accumulators /\ SameBut(acc, a) /\ a.sequence_keys = acc.sequence_keys + Len(e.keys)
         /\ a.count_occurrences = acc.count_occurrences + CountPrefixes(e.keys).occurrences
         /\ a.count_digit_presses = acc.count_digit_presses + CountPrefixes(e.keys).presses
         /\ a.repeated_motions = CountMotions(acc.repeated_motions, RunsOf(e.keys))
         /\ SequenceCharts(acc, e, a)
<1> DEFINE n == Len(e.keys)
           length == Tally(acc.sequence_length, Bucket(SequenceLengths, n), 1)
           latency == IF n >= 2 THEN Tally(acc.latency, Bucket(Latencies, e.duration \div (n - 1)), 1) ELSE acc.latency
           operations == CountOperations(acc.operations, e.keys)
           occurrences == acc.count_occurrences + CountPrefixes(e.keys).occurrences
           presses == acc.count_digit_presses + CountPrefixes(e.keys).presses
           motions == CountMotions(acc.repeated_motions, RunsOf(e.keys))
           u == ObserveErgonomics(acc, e)
<1>1. e.mode \in SequenceModes /\ e.keys \in Seq(Token) /\ e.duration \in Nat /\ n \in Nat
  BY EventType
<1>2. length \in Maps(Nat, Nat)
  <2>1. Bucket(SequenceLengths, n) \in Nat /\ acc.sequence_length \in Maps(Nat, Nat)
    BY <1>1, BucketType DEF Accumulators
  <2> HIDE DEF n
  <2> QED BY <2>1, TallyMap
<1>3. latency \in Maps(Nat, Nat)
  <2>1. acc.latency \in Maps(Nat, Nat)
    BY DEF Accumulators
  <2>2. CASE n >= 2
    <3> DEFINE m == n - 1
               q == e.duration \div m
    <3>1. m \in Nat /\ m > 0
      <4> HIDE DEF n
      <4> QED BY <1>1, <2>2
    <3> HIDE DEF m, n
    <3>2. q \in Nat
      BY <1>1, <3>1
    <3> HIDE DEF q
    <3>3. Bucket(Latencies, q) \in Nat
      BY <3>2, BucketType
    <3>4. Tally(acc.latency, Bucket(Latencies, q), 1) \in Maps(Nat, Nat)
      BY <2>1, <3>3, TallyMap
    <3> QED BY <2>2, <3>4 DEF q, m
  <2>3. CASE ~(n >= 2)
    <3> HIDE DEF n
    <3> QED BY <2>1, <2>3
  <2> QED BY <2>2, <2>3
<1>4. operations \in Maps(OperationNames, Nat)
  <2>1. acc.operations \in Maps(OperationNames, Nat)
    BY DEF Accumulators
  <2>2. PICK f : OperationSteps(f, e.keys, acc.operations) /\ operations = f[n]
    BY <1>1, <2>1, OperationFold
  <2>3. f \in [0..n -> Maps(OperationNames, Nat)] /\ n \in 0..n
    BY <1>1, <2>2 DEF OperationSteps
  <2> HIDE DEF n, operations
  <2> QED BY <2>2, <2>3
<1>5. occurrences \in Nat /\ presses \in Nat
  <2>1. CountPrefixes(e.keys) \in CountStates
    BY <1>1, PrefixesCounted
  <2> QED BY <2>1 DEF CountStates, Accumulators
<1>6. ErgonomicTo(acc, u, length, latency, operations, occurrences, presses, motions)
  <2> HIDE DEF length, operations, occurrences, presses, motions, latency, n
  <2>1. ObserveErgonomics(acc, e)
          = [acc EXCEPT !.sequence_length = length, !.latency = latency, !.operations = operations,
                        !.count_occurrences = occurrences, !.count_digit_presses = presses, !.repeated_motions = motions]
    BY DEF ObserveErgonomics, Accumulators, length, latency, operations, occurrences, presses, motions, n
  <2> QED BY <2>1 DEF ErgonomicTo
<1>7. motions \in Maps(Token, Numbers)
  OBVIOUS
<1> HIDE DEF u, length, latency, operations, occurrences, presses, motions
<1>8. /\ u \in Accumulators /\ SameBut(acc, u) /\ u.sequence_keys = acc.sequence_keys
      /\ u.key_sequences = acc.key_sequences /\ u.modes = acc.modes
      /\ u.count_occurrences = occurrences /\ u.count_digit_presses = presses /\ u.repeated_motions = motions
      /\ SameCounts(acc, u) /\ u.sequence_length = length /\ u.latency = latency /\ u.operations = operations
  BY <1>2, <1>3, <1>4, <1>5, <1>6, <1>7, ErgonomicType
<1> DEFINE sequences == u.key_sequences + 1
           keys == u.sequence_keys + n
           modes == TallyPair(u.modes, e.mode, n)
<1>9. sequences \in Nat /\ keys \in Nat
  <2>1. u.key_sequences \in Nat /\ u.sequence_keys \in Nat
    BY <1>8 DEF Accumulators
  <2> HIDE DEF n
  <2> QED BY <1>1, <2>1
<1>10. modes \in Maps(SequenceModes, Numbers)
  <2>1. u.modes \in Maps(SequenceModes, Numbers)
    BY <1>8 DEF Accumulators
  <2> HIDE DEF n
  <2> QED BY <1>1, <2>1, TallyPairMap
<1>11. CountedTo(u, a, sequences, keys, modes)
  BY DEF SequenceCounted, CountedTo, u
<1>12. /\ keys = acc.sequence_keys + n /\ sequences = acc.key_sequences + 1
       /\ modes = TallyPair(acc.modes, e.mode, n)
  BY <1>8
<1> HIDE DEF sequences, keys, modes, n
<1>13. /\ a \in Accumulators /\ SameBut(u, a) /\ a.sequence_keys = keys
       /\ a.count_occurrences = u.count_occurrences /\ a.count_digit_presses = u.count_digit_presses
       /\ a.repeated_motions = u.repeated_motions
      /\ SameCounts(u, a) /\ a.key_sequences = sequences /\ a.modes = modes
      /\ a.sequence_length = u.sequence_length /\ a.latency = u.latency /\ a.operations = u.operations
  BY <1>8, <1>9, <1>10, <1>11, CountedToType
<1>14. SameBut(acc, a)
  BY <1>8, <1>13 DEF SameBut, SameStock
<1>15. SameCounts(acc, a)
  BY <1>8, <1>13 DEF SameCounts
<1>16. /\ a.key_sequences = acc.key_sequences + 1 /\ a.modes = TallyPair(acc.modes, e.mode, n)
       /\ a.sequence_length = length /\ a.latency = latency /\ a.operations = operations
  BY <1>8, <1>12, <1>13
<1>17. SequenceCharts(acc, e, a)
  BY <1>15, <1>16 DEF SequenceCharts, length, latency, operations, n
<1> QED BY <1>8, <1>12, <1>13, <1>14, <1>17 DEF occurrences, presses, motions, n

-----------------------------------------------------------------------------
(* Totals leave the repetitions. *)
LEMMA SameButRepeats ==
  ASSUME NEW acc, NEW a, SameBut(acc, a), NEW G, NEW K, Repeats(acc, G, K)
  PROVE  Repeats(a, G, K)
BY DEF SameBut, SameStock, Repeats

(* The keys are counted before the repetitions. *)
KeyOnlyFields(u, b) ==
  /\ b.error = NoError => u.error = NoError
  /\ SameCharts(u, b) /\ b.control_keys = u.control_keys
  /\ b.repeated_key_runs = u.repeated_key_runs /\ b.repeated_key_presses = u.repeated_key_presses
  /\ b.repeated_keys = u.repeated_keys /\ b.repeated_motions = u.repeated_motions
  /\ b.count_occurrences = u.count_occurrences /\ b.count_digit_presses = u.count_digit_presses
  /\ b.sequence_keys = u.sequence_keys /\ b.mappings = u.mappings
  /\ b.mapping_uses = u.mapping_uses /\ b.control_key_uses = u.control_key_uses
  /\ b.total_session_duration_ms = u.total_session_duration_ms

(* Counting keys leaves the rest. *)
LEMMA KeyOnlyLeaves ==
  ASSUME NEW u \in Accumulators, NEW b \in Accumulators, KeyOnly(u, b), b.error = NoError => u.error = NoError
  PROVE  KeyOnlyFields(u, b)
<1>1. b.repeated_key_runs = u.repeated_key_runs /\ b.repeated_key_presses = u.repeated_key_presses
  BY DEF KeyOnly, Accumulators
<1>2. b.repeated_keys = u.repeated_keys /\ b.repeated_motions = u.repeated_motions
  BY DEF KeyOnly, Accumulators
<1>3. b.count_occurrences = u.count_occurrences /\ b.count_digit_presses = u.count_digit_presses
  BY DEF KeyOnly, Accumulators
<1>4. b.sequence_keys = u.sequence_keys /\ b.mappings = u.mappings
  BY DEF KeyOnly, Accumulators
<1>5. b.mapping_uses = u.mapping_uses /\ b.control_key_uses = u.control_key_uses
  BY DEF KeyOnly, Accumulators
<1>6. b.total_session_duration_ms = u.total_session_duration_ms
  BY DEF KeyOnly, Accumulators
<1>7. SameCharts(u, b) /\ b.control_keys = u.control_keys
  BY DEF KeyOnly, Accumulators, SameCharts
<1> QED BY <1>1, <1>2, <1>3, <1>4, <1>5, <1>6, <1>7 DEF KeyOnlyFields

RepeatedFields(b, c) ==
  /\ c.error = NoError => b.error = NoError
  /\ SameCharts(b, c) /\ c.control_keys = b.control_keys
  /\ c.repeated_motions = b.repeated_motions
  /\ c.count_occurrences = b.count_occurrences /\ c.count_digit_presses = b.count_digit_presses
  /\ c.sequence_keys = b.sequence_keys /\ c.mappings = b.mappings /\ c.keys = b.keys
  /\ c.mapping_uses = b.mapping_uses /\ c.control_key_uses = b.control_key_uses
  /\ c.total_session_duration_ms = b.total_session_duration_ms

(* Counting repetitions leaves the rest. *)
LEMMA RepeatedOnlyLeaves ==
  ASSUME NEW b \in Accumulators, NEW c \in Accumulators, RepeatedOnly(b, c), c.error = NoError => b.error = NoError
  PROVE  RepeatedFields(b, c)
<1>1. c.repeated_motions = b.repeated_motions /\ c.sequence_keys = b.sequence_keys
  BY DEF RepeatedOnly, Accumulators
<1>2. c.count_occurrences = b.count_occurrences /\ c.count_digit_presses = b.count_digit_presses
  BY DEF RepeatedOnly, Accumulators
<1>3. c.mappings = b.mappings /\ c.keys = b.keys
  BY DEF RepeatedOnly, Accumulators
<1>4. c.mapping_uses = b.mapping_uses /\ c.control_key_uses = b.control_key_uses
  BY DEF RepeatedOnly, Accumulators
<1>5. c.total_session_duration_ms = b.total_session_duration_ms
  BY DEF RepeatedOnly, Accumulators
<1>6. SameCharts(b, c) /\ c.control_keys = b.control_keys
  BY DEF RepeatedOnly, Accumulators, SameCharts
<1> QED BY <1>1, <1>2, <1>3, <1>4, <1>5, <1>6 DEF RepeatedFields

(* Keys, then repetitions, added to a stock. *)
Holds(st, k, r, m, c) == st = [keys |-> k, repeated_keys |-> r, mappings |-> m, control_keys |-> c]

(* Keys enter a stock. *)
LEMMA KeysStocked ==
  ASSUME NEW k, NEW r, NEW m, NEW c, NEW S, NEW st, Holds(st, k, r, m, c)
  PROVE  Holds(WithKeys(st, S), k \cup S, r, m, c)
BY DEF WithKeys, Holds

(* Repeated keys enter a stock. *)
LEMMA RepeatsStocked ==
  ASSUME NEW k, NEW r, NEW m, NEW c, NEW S, NEW st, Holds(st, k, r, m, c)
  PROVE  Holds(WithRepeats(st, S), k, r \cup S, m, c)
BY DEF WithRepeats, Holds

(* Keys and repeated keys enter a stock, one after the other. *)
LEMMA StockedTwice ==
  ASSUME NEW st \in Stocks, NEW S, NEW T
  PROVE  Holds(WithRepeats(WithKeys(st, S), T), st.keys \cup S, st.repeated_keys \cup T,
               st.mappings, st.control_keys)
<1>1. Holds(st, st.keys, st.repeated_keys, st.mappings, st.control_keys)
  BY DEF Stocks, Holds
<1>2. Holds(WithKeys(st, S), st.keys \cup S, st.repeated_keys, st.mappings, st.control_keys)
  BY <1>1, KeysStocked
<1> QED BY <1>2, RepeatsStocked

(* A key sequence keeps the accumulator exact. *)
LEMMA SequenceEvent ==
  ASSUME NEW events \in Logs, NEW e \in LogEvents, e.kind = "key_sequence",
         NEW snapshot, NEW acc, Accounted(acc, events, snapshot)
  PROVE  /\ Accounted(Observe(acc, e, snapshot), Append(events, e), snapshot)
         /\ SameCharts(SequenceCounted(acc, e), Observe(acc, e, snapshot))
         /\ Observe(acc, e, snapshot).control_keys = acc.control_keys
         /\ Observe(acc, e, snapshot).error = NoError => acc.error = NoError
         /\ CountMotions(acc.repeated_motions, RunsOf(e.keys)) \in Maps(Token, Numbers)
<1> DEFINE more == Append(events, e)
           n == Len(events) + 1
           L == KeyAt(more)
           P == PosKey(more)
           R == Row(n, Len(e.keys))
           C == Keyed(events)
           G == Runs(events, 2)
           H == EventRuns(n, e.keys, 2)
           M == Runs(events, 3)
           st == StockOf(events)
           bad == BadIn(events, snapshot)
<1>1. acc \in Accumulators /\ e.keys \in Seq(Token) /\ e.mode \in SequenceModes /\ n \in Nat
  BY EventType, Indices DEF Accounted
<1>2. /\ \A i \in 1..Len(e.keys) : P[<<n, i>>] = e.keys[i]
      /\ \A least : \A r \in EventRuns(n, e.keys, least) : L[r] = e.keys[r[2]]
  BY EventKeys
<1>3. (\A p \in C : p[1] # n) /\ (\A r \in G : r[1] # n) /\ (\A r \in M : r[1] # n)
  BY EarlierKeys
<1>4. AgreeOn(KeyAt(events), L, G) /\ AgreeOn(KeyAt(events), L, M) /\ AgreeOn(PosKey(events), P, C)
  BY KeysStay
<1>5. /\ IsFiniteSet(G) /\ IsFiniteSet(M) /\ IsFiniteSet(C)
      /\ G \in SUBSET Spans /\ M \in SUBSET Spans
  BY RunsFinite, RunsType, KeyedFinite
<1>6. Keyed(more) = C \cup R
  BY KeyedAppend
<1>7. Runs(more, 2) = G \cup H /\ Runs(more, 3) = M \cup EventRuns(n, e.keys, 3)
  BY RunsAppend
<1>8. st \in Stocks /\ bad \in BOOLEAN /\ Stocked(acc, st, bad)
  BY StockOfType DEF Accounted, BadIn
<1>9. /\ Tokens(more) = Tokens(events) \cup KeysOf(R, P)
      /\ KeysOf(Runs(more, 2), L) = KeysOf(G, KeyAt(events)) \cup KeysOf(H, L)
  BY TokensAppend
<1>10. /\ UsedIds(more) = UsedIds(events) /\ ControlKeys(more) = ControlKeys(events)
       /\ Of(more, "mapping_use") = Of(events, "mapping_use") /\ ControlUses(more) = ControlUses(events)
       /\ Duration(more) = Duration(events) /\ \A id : UsesOf(more, id) = UsesOf(events, id)
  BY OtherKinds
<1>11. BadIn(more, snapshot) = bad
  <2>1. e.kind \notin {"session_end", "mapping_use"}
    OBVIOUS
  <2> QED BY <2>1, BadKinds
<1>12. StockOf(more) = WithRepeats(WithKeys(st, KeysOf(R, P)), KeysOf(H, L))
  <2>1. st.keys = Tokens(events) /\ st.repeated_keys = KeysOf(G, KeyAt(events))
        /\ st.mappings = UsedIds(events) /\ st.control_keys = ControlKeys(events)
    BY DEF StockOf
  <2>2. Holds(StockOf(more), Tokens(more), KeysOf(Runs(more, 2), L), UsedIds(more), ControlKeys(more))
    BY DEF StockOf, Holds
  <2> HIDE DEF st, more, L, P, R, G, H
  <2>3. st \in Stocks
    BY <1>8
  <2>4. Holds(WithRepeats(WithKeys(st, KeysOf(R, P)), KeysOf(H, L)),
              st.keys \cup KeysOf(R, P), st.repeated_keys \cup KeysOf(H, L), st.mappings, st.control_keys)
    BY <2>3, StockedTwice
  <2>5. Holds(StockOf(more), st.keys \cup KeysOf(R, P), st.repeated_keys \cup KeysOf(H, L),
              st.mappings, st.control_keys)
    BY <1>9, <1>10, <2>1, <2>2
  <2> QED BY <2>4, <2>5 DEF Holds
<1> HIDE DEF more, n, L, P, R, C, G, H, M, st, bad
<1>13. MotionsTallied(CountMotions(acc.repeated_motions, RunsOf(e.keys)), M \cup EventRuns(n, e.keys, 3), L)
  <2>1. MotionsTallied(acc.repeated_motions, M, L)
    BY <1>4, MotionsSame DEF Accounted, MotionsExact, M
  <2>2. \A r \in EventRuns(n, e.keys, 3) : L[r] = e.keys[r[2]]
    BY <1>2
  <2> QED BY <1>1, <1>3, <1>5, <2>1, <2>2, MotionsEnd
<1>14. CountMotions(acc.repeated_motions, RunsOf(e.keys)) \in Maps(Token, Numbers)
  BY <1>13 DEF MotionsTallied
<1>15. PICK u : u = SequenceCounted(acc, e)
  OBVIOUS
<1>16. /\ u \in Accumulators /\ SameBut(acc, u) /\ u.sequence_keys = acc.sequence_keys + Len(e.keys)
       /\ u.count_occurrences = acc.count_occurrences + CountPrefixes(e.keys).occurrences
       /\ u.count_digit_presses = acc.count_digit_presses + CountPrefixes(e.keys).presses
       /\ u.repeated_motions = CountMotions(acc.repeated_motions, RunsOf(e.keys))
  BY <1>1, <1>14, <1>15, SequenceTotals
<1>17. u.error = acc.error /\ SameStock(acc, u) /\ Stocked(u, st, bad)
  <2>1. u.error = acc.error /\ SameStock(acc, u)
    BY <1>16 DEF SameBut
  <2> QED BY <1>8, <2>1, StockedSame
<1>18. u.error = NoError => Counts(u.keys, C, P)
  <2> SUFFICES ASSUME u.error = NoError PROVE Counts(u.keys, C, P)
    OBVIOUS
  <2>1. KeyCounts(acc, events) /\ u.keys = acc.keys
    BY <1>17 DEF Accounted, Unfailed, SameStock
  <2> QED BY <1>4, <2>1, CountsSame DEF KeyCounts, C
<1>19. PICK b : b = ObserveKeys(u, e.keys)
  OBVIOUS
<1>20. KeysTo(b, u, st, bad, C, P, R)
  <2>1. \A i \in 1..Len(e.keys) : P[<<n, i>>] = e.keys[i]
    BY <1>2
  <2>2. /\ e.keys \in Seq(Token) /\ n \in Nat /\ IsFiniteSet(C) /\ (\A p \in C : p[1] # n)
        /\ u \in Accumulators /\ st \in Stocks /\ bad \in BOOLEAN /\ Stocked(u, st, bad)
    BY <1>1, <1>3, <1>5, <1>8, <1>16, <1>17
  <2>3. KeysTo(ObserveKeys(u, e.keys), u, st, bad, C, P, Row(n, Len(e.keys)))
    <3> HIDE DEF R
    <3> QED BY <1>18, <2>1, <2>2, KeysToEnd
  <2> QED BY <1>19, <2>3 DEF R
<1>21. PICK st2 : st2 = WithKeys(st, KeysOf(R, P))
  OBVIOUS
<1>22. /\ b \in Accumulators /\ st2 \in Stocks /\ Stocked(b, st2, bad) /\ KeyOnly(u, b)
       /\ b.error = NoError => u.error = NoError /\ Counts(b.keys, C \cup R, P)
  BY <1>20, <1>21 DEF KeysTo
<1>23. KeyOnlyFields(u, b)
  BY <1>16, <1>22, KeyOnlyLeaves
<1>24. Repeats(b, G, L)
  <2>1. Repeats(acc, G, L)
    BY <1>4, RepeatsSame DEF Accounted, RepeatsExact, G
  <2>2. Repeats(u, G, L)
    BY <1>16, <2>1, SameButRepeats
  <2> QED BY <1>23, <2>2 DEF Repeats, KeyOnlyFields
<1>25. PICK c : c = ObserveRepeatedKeys(b, RunsOf(e.keys))
  OBVIOUS
<1>26. RepeatedTo(c, b, st2, bad, G, L, H)
  <2>1. \A r \in EventRuns(n, e.keys, 2) : L[r] = e.keys[r[2]]
    BY <1>2
  <2>2. /\ e.keys \in Seq(Token) /\ n \in Nat /\ G \in SUBSET Spans /\ IsFiniteSet(G) /\ (\A r \in G : r[1] # n)
        /\ b \in Accumulators /\ st2 \in Stocks /\ bad \in BOOLEAN /\ Stocked(b, st2, bad) /\ Repeats(b, G, L)
    BY <1>1, <1>3, <1>5, <1>8, <1>22, <1>24
  <2>3. RepeatedTo(ObserveRepeatedKeys(b, RunsOf(e.keys)), b, st2, bad, G, L, EventRuns(n, e.keys, 2))
    <3> HIDE DEF H
    <3> QED BY <2>1, <2>2, RepeatedToEnd
  <2> QED BY <1>25, <2>3 DEF H
<1>27. /\ c \in Accumulators /\ Stocked(c, WithRepeats(st2, KeysOf(H, L)), bad)
       /\ RepeatedOnly(b, c) /\ Repeats(c, G \cup H, L) /\ (c.error = NoError => b.error = NoError)
  BY <1>26 DEF RepeatedTo
<1>28. RepeatedFields(b, c)
  BY <1>22, <1>27, RepeatedOnlyLeaves
<1>29. Observe(acc, e, snapshot) = c
  BY <1>15, <1>19, <1>25 DEF Observe, ObserveSequence, SequenceCounted
<1>30. Stocked(c, StockOf(more), BadIn(more, snapshot))
  BY <1>11, <1>12, <1>21, <1>27
<1>31. RepeatsExact(c, more)
  BY <1>7, <1>27 DEF RepeatsExact, L
<1>32. MotionsExact(c, more)
  <2>1. c.repeated_motions = CountMotions(acc.repeated_motions, RunsOf(e.keys))
    BY <1>16, <1>23, <1>28 DEF KeyOnlyFields, RepeatedFields
  <2> QED BY <1>7, <1>13, <2>1 DEF MotionsExact, L
<1>33. DigitsCounted(c, more)
  <2>1. /\ c.count_occurrences = acc.count_occurrences + CountPrefixes(e.keys).occurrences
        /\ c.count_digit_presses = acc.count_digit_presses + CountPrefixes(e.keys).presses
    BY <1>16, <1>23, <1>28 DEF KeyOnlyFields, RepeatedFields
  <2>2. DigitsCounted(acc, events)
    BY DEF Accounted
  <2> QED BY <2>1, <2>2, DigitsSize DEF more
<1>34. Totals(c, more)
  <2>1. Cardinality(Keyed(more)) = Cardinality(Keyed(events)) + Len(e.keys)
    <3>1. Cardinality(Keyed(more)) = Cardinality(Keyed(events)) + (IF e.kind = "key_sequence" THEN Len(e.keys) ELSE 0)
      BY KeyedSize DEF more
    <3> QED BY <3>1
  <2>2. c.sequence_keys = acc.sequence_keys + Len(e.keys)
    BY <1>16, <1>23, <1>28 DEF KeyOnlyFields, RepeatedFields
  <2>3. c.mapping_uses = acc.mapping_uses /\ c.control_key_uses = acc.control_key_uses
    BY <1>16, <1>23, <1>28 DEF KeyOnlyFields, RepeatedFields, SameBut
  <2> QED BY <1>10, <2>1, <2>2, <2>3 DEF Accounted, Totals
<1>35. ASSUME c.error = NoError PROVE Unfailed(c, more, snapshot)
  <2>1. b.error = NoError /\ u.error = NoError /\ acc.error = NoError
    BY <1>17, <1>22, <1>27, <1>35
  <2>2. Unfailed(acc, events, snapshot)
    BY <2>1 DEF Accounted
  <2>3. KeyCounts(c, more)
    <3>1. Counts(b.keys, C \cup R, P) /\ c.keys = b.keys
      BY <1>22, <1>28, <2>1 DEF RepeatedFields
    <3> QED BY <1>6, <3>1 DEF KeyCounts, P
  <2>4. c.mappings = acc.mappings
    BY <1>17, <1>23, <1>28 DEF KeyOnlyFields, RepeatedFields, SameStock
  <2>5. UseCounts(c, more)
    BY <1>10, <2>2, <2>4 DEF Unfailed, UseCounts
  <2>6. c.total_session_duration_ms = Duration(more)
    BY <1>10, <1>16, <1>23, <1>28, <2>2 DEF KeyOnlyFields, RepeatedFields, SameBut, Unfailed
  <2>7. ~BadIn(more, snapshot)
    BY <1>11, <2>2 DEF Unfailed, bad
  <2> QED BY <2>3, <2>5, <2>6, <2>7 DEF Unfailed
<1>36. Accounted(c, more, snapshot)
  BY <1>27, <1>30, <1>31, <1>32, <1>33, <1>34, <1>35 DEF Accounted
<1>37. SameCharts(u, c)
  BY <1>23, <1>28, SameChartsTwice DEF KeyOnlyFields, RepeatedFields
<1>38. c.control_keys = acc.control_keys /\ (c.error = NoError => acc.error = NoError)
  BY <1>17, <1>23, <1>28 DEF KeyOnlyFields, RepeatedFields, SameStock
<1> QED BY <1>14, <1>15, <1>29, <1>36, <1>37, <1>38 DEF more

(* One event, whatever it is. *)
LEMMA ObserveAccounted ==
  ASSUME NEW events \in Logs, NEW e \in LogEvents, NEW snapshot, NEW acc, Accounted(acc, events, snapshot)
  PROVE  Accounted(Observe(acc, e, snapshot), Append(events, e), snapshot)
<1>1. e.kind \in Kinds
  BY EventType
<1>2. CASE e.kind \in {"session_start", "text_run", "mode_transition"} BY <1>2, CountedEvent
<1>3. CASE e.kind = "session_end" BY <1>3, EndEvent
<1>4. CASE e.kind = "key_sequence" BY <1>4, SequenceEvent
<1>5. CASE e.kind = "control_key_use" BY <1>5, ControlEvent
<1>6. CASE e.kind = "mapping_use" BY <1>6, MappingEvent
<1> QED BY <1>1, <1>2, <1>3, <1>4, <1>5, <1>6 DEF Kinds

-----------------------------------------------------------------------------
(* The charts: the histograms, pairs of counts and tables of a summary.      *)

(* A position more adds one to the count of its value. *)
LEMMA HistogramGrows ==
  ASSUME NEW at, IsFiniteSet(DOMAIN at), NEW x, x \notin DOMAIN at,
         NEW more, more = [y \in DOMAIN at \cup {x} |-> more[y]], \A y \in DOMAIN at : more[y] = at[y]
  PROVE  Tally(Histogram(at), more[x], 1) = Histogram(more)
<1> DEFINE D == DOMAIN at
           S(v) == {p \in D : at[p] = v}
           T(v) == {p \in DOMAIN more : more[p] = v}
           f == Histogram(at)
           g == Tally(f, more[x], 1)
<1>1. DOMAIN more = D \cup {x} /\ Range(more) = Range(at) \cup {more[x]}
  BY DEF Range
<1>2. \A v : S(v) \subseteq D /\ IsFiniteSet(S(v)) /\ Cardinality(S(v)) \in Nat
  BY FS_Subset, FS_CardinalityType
<1>3. DOMAIN f = Range(at) /\ \A v \in Range(at) : f[v] = Cardinality(S(v))
  BY DEF Histogram
<1>4. DOMAIN g = Range(more) /\ g = [v \in Range(more) |-> g[v]]
  BY <1>1, <1>3 DEF Tally, With
<1>5. ASSUME NEW v \in Range(more) PROVE g[v] = Cardinality(T(v))
  <2>1. CASE v = more[x]
    <3>1. T(v) = S(v) \cup {x} /\ x \notin S(v)
      BY <1>1, <2>1
    <3> HIDE DEF S, T
    <3>2. Cardinality(T(v)) = Cardinality(S(v)) + 1
      BY <1>2, <3>1, FS_AddElement
    <3>3. CASE v \in Range(at)
      <4>1. g[v] = f[v] + 1
        BY <1>3, <2>1, <3>3 DEF Tally, With
      <4> QED BY <1>3, <3>2, <3>3, <4>1
    <3>4. CASE v \notin Range(at)
      <4>1. g[v] = 1
        BY <1>3, <2>1, <3>4 DEF Tally, With
      <4>2. S(v) = {}
        BY <3>4 DEF Range, S
      <4> QED BY <3>2, <4>1, <4>2, FS_EmptySet
    <3> QED BY <3>3, <3>4
  <2>2. CASE v # more[x]
    <3>1. T(v) = S(v)
      BY <1>1, <2>2
    <3>2. v \in Range(at) /\ g[v] = f[v]
      BY <1>1, <1>3, <2>2 DEF Tally, With
    <3> QED BY <1>3, <3>1, <3>2
  <2> QED BY <2>1, <2>2
<1>6. Histogram(more) = [v \in Range(more) |-> Cardinality(T(v))]
  BY DEF Histogram
<1> HIDE DEF g, f, S, T
<1>7. g = Histogram(more)
  BY <1>4, <1>5, <1>6
<1> QED BY <1>7 DEF g, f

(* A chart of values grows with an event of its kind, and with no other. *)
LEMMA ChartAppend ==
  ASSUME NEW at, IsFiniteSet(DOMAIN at), at = [y \in DOMAIN at |-> at[y]], NEW n, n \notin DOMAIN at,
         NEW b \in BOOLEAN, NEW more, more = [y \in DOMAIN at \cup (IF b THEN {n} ELSE {}) |-> more[y]],
         \A y \in DOMAIN at : more[y] = at[y], NEW v, b => more[n] = v
  PROVE  Histogram(more) = IF b THEN Tally(Histogram(at), v, 1) ELSE Histogram(at)
<1>1. CASE b
  <2>1. more = [y \in DOMAIN at \cup {n} |-> more[y]]
    BY <1>1
  <2>2. Tally(Histogram(at), more[n], 1) = Histogram(more)
    BY <2>1, HistogramGrows
  <2> QED BY <1>1, <2>2
<1>2. CASE ~b
  <2>1. more = at
    BY <1>2
  <2> QED BY <1>2, <2>1
<1> QED BY <1>1, <1>2

(* The mode transitions, with one event more. *)
LEMMA TransitionsAppend ==
  ASSUME NEW events \in Logs, NEW e \in LogEvents
  PROVE  Transitions(Append(events, e))
           = IF e.kind = "mode_transition" THEN Tally(Transitions(events), <<e.from, e.to>>, 1)
             ELSE Transitions(events)
<1> DEFINE more == Append(events, e)
           n == Len(events) + 1
           b == e.kind = "mode_transition"
           S == Of(events, "mode_transition")
           at == [i \in S |-> <<events[i].from, events[i].to>>]
           to == [i \in Of(more, "mode_transition") |-> <<more[i].from, more[i].to>>]
<1>1. more[n] = e /\ \A i \in DOMAIN events : more[i] = events[i]
  BY AppendEvent
<1>2. /\ Of(more, "mode_transition") = S \cup (IF b THEN {n} ELSE {}) /\ n \notin S
      /\ S \subseteq DOMAIN events /\ IsFiniteSet(S)
  BY OfAppend, OfFinite
<1> HIDE DEF more, n, b
<1>3. \A i \in S : to[i] = at[i]
  BY <1>1, <1>2
<1>4. DOMAIN at = S /\ to = [y \in S \cup (IF b THEN {n} ELSE {}) |-> to[y]] /\ b \in BOOLEAN
  BY <1>2 DEF b
<1>5. b => to[n] = <<e.from, e.to>>
  BY <1>1, <1>2
<1>6. Transitions(events) = Histogram(at) /\ Transitions(more) = Histogram(to)
  BY DEF Transitions
<1>7. at = [y \in DOMAIN at |-> at[y]]
  OBVIOUS
<1> HIDE DEF at, to, S
<1> DEFINE v == <<e.from, e.to>>
<1> HIDE DEF v
<1>8. b => to[n] = v
  BY <1>5 DEF v
<1>9. Histogram(to) = IF b THEN Tally(Histogram(at), v, 1) ELSE Histogram(at)
  BY <1>2, <1>3, <1>4, <1>7, <1>8, ChartAppend
<1> QED BY <1>6, <1>9 DEF more, b, v

(* The durations of the sessions, with one event more. *)
LEMMA DurationsAppend ==
  ASSUME NEW events \in Logs, NEW e \in LogEvents
  PROVE  Durations(Append(events, e))
           = IF e.kind = "session_end"
             THEN Tally(Durations(events), Bucket(SessionDurations, e.elapsed), 1) ELSE Durations(events)
<1> DEFINE more == Append(events, e)
           n == Len(events) + 1
           b == e.kind = "session_end"
           S == Of(events, "session_end")
           at == [i \in S |-> Bucket(SessionDurations, events[i].elapsed)]
           to == [i \in Of(more, "session_end") |-> Bucket(SessionDurations, more[i].elapsed)]
<1>1. more[n] = e /\ \A i \in DOMAIN events : more[i] = events[i]
  BY AppendEvent
<1>2. /\ Of(more, "session_end") = S \cup (IF b THEN {n} ELSE {}) /\ n \notin S
      /\ S \subseteq DOMAIN events /\ IsFiniteSet(S)
  BY OfAppend, OfFinite
<1> HIDE DEF more, n, b
<1>3. \A i \in S : to[i] = at[i]
  BY <1>1, <1>2
<1>4. DOMAIN at = S /\ to = [y \in S \cup (IF b THEN {n} ELSE {}) |-> to[y]] /\ b \in BOOLEAN
  BY <1>2 DEF b
<1>5. b => to[n] = Bucket(SessionDurations, e.elapsed)
  BY <1>1, <1>2
<1>6. Durations(events) = Histogram(at) /\ Durations(more) = Histogram(to)
  BY DEF Durations
<1>7. at = [y \in DOMAIN at |-> at[y]]
  OBVIOUS
<1> HIDE DEF at, to, S
<1> DEFINE v == Bucket(SessionDurations, e.elapsed)
<1> HIDE DEF v
<1>8. b => to[n] = v
  BY <1>5 DEF v
<1>9. Histogram(to) = IF b THEN Tally(Histogram(at), v, 1) ELSE Histogram(at)
  BY <1>2, <1>3, <1>4, <1>7, <1>8, ChartAppend
<1> QED BY <1>6, <1>9 DEF more, b, v

(* The lengths of the key sequences, with one event more. *)
LEMMA LengthsAppend ==
  ASSUME NEW events \in Logs, NEW e \in LogEvents
  PROVE  Lengths(Append(events, e))
           = IF e.kind = "key_sequence"
             THEN Tally(Lengths(events), Bucket(SequenceLengths, Len(e.keys)), 1) ELSE Lengths(events)
<1> DEFINE more == Append(events, e)
           n == Len(events) + 1
           b == e.kind = "key_sequence"
           S == Of(events, "key_sequence")
           at == [i \in S |-> Bucket(SequenceLengths, Len(events[i].keys))]
           to == [i \in Of(more, "key_sequence") |-> Bucket(SequenceLengths, Len(more[i].keys))]
<1>1. more[n] = e /\ \A i \in DOMAIN events : more[i] = events[i]
  BY AppendEvent
<1>2. /\ Of(more, "key_sequence") = S \cup (IF b THEN {n} ELSE {}) /\ n \notin S
      /\ S \subseteq DOMAIN events /\ IsFiniteSet(S)
  BY OfAppend, OfFinite
<1> HIDE DEF more, n, b
<1>3. \A i \in S : to[i] = at[i]
  BY <1>1, <1>2
<1>4. DOMAIN at = S /\ to = [y \in S \cup (IF b THEN {n} ELSE {}) |-> to[y]] /\ b \in BOOLEAN
  BY <1>2 DEF b
<1>5. b => to[n] = Bucket(SequenceLengths, Len(e.keys))
  BY <1>1, <1>2
<1>6. Lengths(events) = Histogram(at) /\ Lengths(more) = Histogram(to)
  BY DEF Lengths
<1>7. at = [y \in DOMAIN at |-> at[y]]
  OBVIOUS
<1> HIDE DEF at, to, S
<1> DEFINE v == Bucket(SequenceLengths, Len(e.keys))
<1> HIDE DEF v
<1>8. b => to[n] = v
  BY <1>5 DEF v
<1>9. Histogram(to) = IF b THEN Tally(Histogram(at), v, 1) ELSE Histogram(at)
  BY <1>2, <1>3, <1>4, <1>7, <1>8, ChartAppend
<1> QED BY <1>6, <1>9 DEF more, b, v

(* The paces of the key sequences with two keys, with one event more. *)
LEMMA PacesAppend ==
  ASSUME NEW events \in Logs, NEW e \in LogEvents
  PROVE  Paces(Append(events, e))
           = IF e.kind = "key_sequence" /\ Len(e.keys) >= 2
             THEN Tally(Paces(events), Bucket(Latencies, e.duration \div (Len(e.keys) - 1)), 1)
             ELSE Paces(events)
<1> DEFINE more == Append(events, e)
           n == Len(events) + 1
           b == e.kind = "key_sequence" /\ Len(e.keys) >= 2
           S == {i \in Of(events, "key_sequence") : Len(events[i].keys) >= 2}
           T == {i \in Of(more, "key_sequence") : Len(more[i].keys) >= 2}
           at == [i \in S |-> Bucket(Latencies, events[i].duration \div (Len(events[i].keys) - 1))]
           to == [i \in T |-> Bucket(Latencies, more[i].duration \div (Len(more[i].keys) - 1))]
<1>1. more[n] = e /\ \A i \in DOMAIN events : more[i] = events[i]
  BY AppendEvent
<1>2. /\ Of(more, "key_sequence")
           = Of(events, "key_sequence") \cup (IF e.kind = "key_sequence" THEN {n} ELSE {})
      /\ n \notin Of(events, "key_sequence") /\ Of(events, "key_sequence") \subseteq DOMAIN events
  BY OfAppend, OfFinite
<1>3. S \subseteq Of(events, "key_sequence") /\ IsFiniteSet(S)
  BY OfFinite
<1> HIDE DEF more, n
<1>4. T = S \cup (IF b THEN {n} ELSE {}) /\ n \notin S
  BY <1>1, <1>2
<1>5. b \in BOOLEAN
  OBVIOUS
<1> HIDE DEF b
<1>6. \A i \in S : to[i] = at[i]
  BY <1>1, <1>2, <1>3, <1>4
<1>7. DOMAIN at = S /\ to = [y \in S \cup (IF b THEN {n} ELSE {}) |-> to[y]]
  BY <1>4
<1>8. b => to[n] = Bucket(Latencies, e.duration \div (Len(e.keys) - 1))
  BY <1>1, <1>4
<1>9. Paces(events) = Histogram(at) /\ Paces(more) = Histogram(to)
  BY DEF Paces
<1>10. at = [y \in DOMAIN at |-> at[y]]
  OBVIOUS
<1> HIDE DEF at, to, S
<1> DEFINE v == Bucket(Latencies, e.duration \div (Len(e.keys) - 1))
<1> HIDE DEF v
<1>11. b => to[n] = v
  BY <1>8 DEF v
<1>12. Histogram(to) = IF b THEN Tally(Histogram(at), v, 1) ELSE Histogram(at)
  BY <1>3, <1>4, <1>5, <1>6, <1>7, <1>10, <1>11, ChartAppend
<1> QED BY <1>9, <1>12 DEF more, b, v

SumOfCounts(events, S) == MapThenSumSet(LAMBDA i : events[i].count, S)

(* The counts of some events, summed up. *)
LEMMA CountSum ==
  ASSUME NEW events, NEW S, IsFiniteSet(S), \A i \in S : events[i].count \in Nat
  PROVE  SumOfCounts(events, S) = Weight([i \in S |-> events[i].count], S)
<1> DEFINE f == [i \in S |-> events[i].count]
           Eq(g) == g = [s \in SUBSET S |-> IF s = {} THEN 0
                           ELSE events[CHOOSE x \in s : TRUE].count + g[s \ {CHOOSE x \in s : TRUE}]]
           it == CHOOSE g : Eq(g)
<1>1. SumOfCounts(events, S) = it[S]
  BY DEF SumOfCounts, MapThenSumSet, MapThenFoldSet
<1>2. \A x \in S : f[x] \in Nat /\ f[x] = events[x].count
  OBVIOUS
<1> HIDE DEF f
<1>3. \A s \in SUBSET S : s # {} => Weight(f, s) = f[Pick(s)] + Weight(f, s \ {Pick(s)})
  BY <1>2, WeightRecursion
<1>4. \A s \in SUBSET S : s # {} => Pick(s) \in s /\ f[Pick(s)] = events[Pick(s)].count
  <2> SUFFICES ASSUME NEW s \in SUBSET S, s # {} PROVE Pick(s) \in s /\ f[Pick(s)] = events[Pick(s)].count
    OBVIOUS
  <2>1. Pick(s) \in s
    BY DEF Pick
  <2> QED BY <1>2, <2>1
<1>5. \E g : Eq(g)
  <2> DEFINE g == [s \in SUBSET S |-> Weight(f, s)]
  <2>1. \A s \in SUBSET S : g[s] = IF s = {} THEN 0 ELSE events[Pick(s)].count + g[s \ {Pick(s)}]
    BY <1>3, <1>4, WeightEmpty
  <2>2. Eq(g)
    BY <2>1 DEF Pick
  <2> HIDE DEF g, Eq
  <2> QED BY <2>2
<1>6. Eq(it)
  <2> HIDE DEF Eq
  <2> QED BY <1>5
<1>7. it[{}] = 0 /\ \A s \in SUBSET S : s # {} => it[s] = events[Pick(s)].count + it[s \ {Pick(s)}]
  <2> HIDE DEF it
  <2> QED BY <1>6 DEF Pick
<1> HIDE DEF it
<1>8. Summing(it, f, S)
  BY <1>4, <1>7 DEF Summing
<1>9. it[S] = Weight(f, S)
  BY <1>2, <1>8, SumValue
<1> QED BY <1>1, <1>9 DEF f

(* An event more adds its own count, if it is one of them. *)
LEMMA CountSumAppend ==
  ASSUME NEW events, NEW S, IsFiniteSet(S), \A i \in S : events[i].count \in Nat, NEW n, n \notin S,
         NEW b \in BOOLEAN, NEW more, \A i \in S : more[i] = events[i], b => more[n].count \in Nat
  PROVE  /\ SumOfCounts(more, S \cup (IF b THEN {n} ELSE {}))
              = SumOfCounts(events, S) + (IF b THEN more[n].count ELSE 0)
         /\ SumOfCounts(events, S) \in Nat
<1> DEFINE T == S \cup (IF b THEN {n} ELSE {})
           f == [i \in S |-> events[i].count]
           g == [i \in T |-> more[i].count]
<1>1. IsFiniteSet(T) /\ \A i \in T : more[i].count \in Nat
  BY FS_AddElement
<1>2. SumOfCounts(events, S) = Weight(f, S)
  BY CountSum
<1>3. SumOfCounts(more, T) = Weight(g, T)
  <2> HIDE DEF T
  <2> QED BY <1>1, CountSum
<1>4. (\A i \in S : f[i] \in Nat /\ g[i] = f[i]) /\ (b => g[n] = more[n].count)
  OBVIOUS
<1>5. T = S \cup (IF b THEN {n} ELSE {})
  OBVIOUS
<1> HIDE DEF f, g, T
<1>6. Weight(g, S) = Weight(f, S) /\ Weight(f, S) \in Nat
  BY <1>4, WeightSame, WeightType
<1>7. CASE b
  <2>1. T = S \cup {n} /\ \A y \in S \cup {n} : g[y] \in Nat
    BY <1>4, <1>5, <1>7
  <2>2. Weight(g, S \cup {n}) = Weight(g, S) + g[n]
    BY <2>1, WeightAdd
  <2> QED BY <1>2, <1>3, <1>4, <1>6, <1>7, <2>1, <2>2 DEF T
<1>8. CASE ~b
  <2>1. T = S
    BY <1>5, <1>8
  <2> QED BY <1>2, <1>3, <1>6, <1>8, <2>1 DEF T
<1> QED BY <1>7, <1>8

TextKeys(events) == SumOfCounts(events, Of(events, "text_run"))

(* The keys of text runs, with one event more. *)
LEMMA TextAppend ==
  ASSUME NEW events \in Logs, NEW e \in LogEvents
  PROVE  TextKeys(Append(events, e)) = TextKeys(events) + (IF e.kind = "text_run" THEN e.count ELSE 0)
<1> DEFINE more == Append(events, e)
           n == Len(events) + 1
           b == e.kind = "text_run"
           S == Of(events, "text_run")
<1>1. more[n] = e /\ \A i \in DOMAIN events : more[i] = events[i]
  BY AppendEvent
<1>2. /\ Of(more, "text_run") = S \cup (IF b THEN {n} ELSE {}) /\ n \notin S
      /\ S \subseteq DOMAIN events /\ IsFiniteSet(S)
  BY OfAppend, OfFinite
<1>3. ASSUME NEW i \in S PROVE events[i].count \in Nat
  BY EventAt, EventType DEF Of
<1>4. (b => e.count \in Nat) /\ b \in BOOLEAN
  BY EventType
<1> HIDE DEF more, n, b
<1>5. (\A i \in S : more[i] = events[i]) /\ (b => more[n].count \in Nat)
  BY <1>1, <1>2, <1>4
<1>6. TextKeys(more) = SumOfCounts(more, S \cup (IF b THEN {n} ELSE {}))
  BY <1>2 DEF TextKeys
<1> HIDE DEF S
<1>7. SumOfCounts(more, S \cup (IF b THEN {n} ELSE {}))
        = SumOfCounts(events, S) + (IF b THEN more[n].count ELSE 0)
  BY <1>2, <1>3, <1>4, <1>5, CountSumAppend
<1> QED BY <1>1, <1>6, <1>7 DEF TextKeys, S, b, more

(* The positions of keys with a name, and their names. *)
NamedKeys(events, C) == {p \in C : Operation(TokenAt(events, p)) # "other"}
NamesOfKeys(events, C) == [p \in NamedKeys(events, C) |-> Operation(TokenAt(events, p))]

(* One key more is counted by its name, if it has one. *)
LEMMA NamesGrow ==
  ASSUME NEW events, NEW C, IsFiniteSet(C), NEW p, p \notin C
  PROVE  Histogram(NamesOfKeys(events, C \cup {p})) = OperationStep(Histogram(NamesOfKeys(events, C)), TokenAt(events, p))
<1> DEFINE at == NamesOfKeys(events, C)
           to == NamesOfKeys(events, C \cup {p})
           b == Operation(TokenAt(events, p)) # "other"
           v == Operation(TokenAt(events, p))
<1>1. NamedKeys(events, C) \subseteq C /\ IsFiniteSet(NamedKeys(events, C))
  <2>1. NamedKeys(events, C) \subseteq C
    BY DEF NamedKeys
  <2> QED BY <2>1, FS_Subset
<1>2. NamedKeys(events, C \cup {p}) = NamedKeys(events, C) \cup (IF b THEN {p} ELSE {})
  BY DEF NamedKeys
<1>3. b \in BOOLEAN
  OBVIOUS
<1>4. DOMAIN at = NamedKeys(events, C) /\ at = [y \in DOMAIN at |-> at[y]]
  BY DEF NamesOfKeys
<1>5. /\ to = [y \in NamedKeys(events, C) \cup (IF b THEN {p} ELSE {}) |-> to[y]]
      /\ \A y \in NamedKeys(events, C) : to[y] = at[y]
      /\ b => to[p] = v
  BY <1>2 DEF NamesOfKeys
<1>6. OperationStep(Histogram(at), TokenAt(events, p)) = IF b THEN Tally(Histogram(at), v, 1) ELSE Histogram(at)
  BY DEF OperationStep
<1> HIDE DEF at, to, b, v
<1>7. Histogram(to) = IF b THEN Tally(Histogram(at), v, 1) ELSE Histogram(at)
  BY <1>1, <1>3, <1>4, <1>5, ChartAppend
<1> QED BY <1>6, <1>7 DEF at, to

(* The operations on all keys, with one event more. *)
LEMMA OperationsAppend ==
  ASSUME NEW events \in Logs, NEW e \in LogEvents, Operations(events) \in Maps(OperationNames, Nat)
  PROVE  Operations(Append(events, e))
           = IF e.kind = "key_sequence" THEN CountOperations(Operations(events), e.keys) ELSE Operations(events)
<1> DEFINE more == Append(events, e)
           n == Len(events) + 1
           C == Keyed(events)
           L == Len(e.keys)
           base == Operations(events)
<1>1. more[n] = e /\ \A i \in DOMAIN events : more[i] = events[i]
  BY AppendEvent
<1>2. Keyed(more) = C \cup (IF e.kind = "key_sequence" THEN Row(n, L) ELSE {})
  BY KeyedAppend
<1>3. \A p \in C : p[1] \in DOMAIN events /\ p[1] # n
  BY KeyedIn, AppendEvent
<1>4. IsFiniteSet(C) /\ n \in Nat
  BY KeyedFinite, Indices
<1> HIDE DEF more, n
<1>5. \A p \in C : TokenAt(more, p) = TokenAt(events, p)
  BY <1>1, <1>3 DEF TokenAt
<1>6. Histogram(NamesOfKeys(more, C)) = base
  <2>1. base = Histogram(NamesOfKeys(events, C))
    BY DEF Operations, NamesOfKeys, NamedKeys
  <2>2. NamesOfKeys(more, C) = NamesOfKeys(events, C)
    BY <1>5 DEF NamesOfKeys, NamedKeys
  <2> QED BY <2>1, <2>2
<1>7. Operations(more) = Histogram(NamesOfKeys(more, Keyed(more)))
  BY DEF Operations, NamesOfKeys, NamedKeys
<1> HIDE DEF C
<1>8. CASE e.kind = "key_sequence"
  <2>1. e.keys \in Seq(Token) /\ L \in Nat
    BY <1>8, EventType
  <2>2. PICK f : OperationSteps(f, e.keys, base) /\ CountOperations(base, e.keys) = f[L]
    BY <2>1, OperationFold
  <2>3. f[0] = base /\ \A m \in 1..L : f[m] = OperationStep(f[m - 1], e.keys[m])
    BY <2>2 DEF OperationSteps
  <2> HIDE DEF L, base
  <2> DEFINE To(m) == f[m] = Histogram(NamesOfKeys(more, C \cup Row(n, m)))
             D == {m \in 0..L : To(m)}
  <2>4. To(0)
    <3>1. C \cup Row(n, 0) = C
      BY RowStep
    <3> QED BY <1>6, <2>3, <3>1
  <2>5. ASSUME NEW m \in 1..L, To(m - 1) PROVE To(m)
    <3> DEFINE p == <<n, m>>
               q == m - 1
               R == C \cup Row(n, q)
    <3>1. q \in Nat /\ q + 1 = m
      BY <2>1
    <3>2. Row(n, m) = Row(n, q) \cup {p} /\ p \notin Row(n, q) /\ IsFiniteSet(Row(n, q))
      BY <3>1, RowStep, RowSize
    <3>3. C \cup Row(n, m) = R \cup {p} /\ p \notin R
      BY <1>3, <3>2
    <3>4. IsFiniteSet(R)
      BY <1>4, <3>2, FS_Union
    <3>5. TokenAt(more, p) = e.keys[m]
      BY <1>1 DEF TokenAt
    <3> HIDE DEF p
    <3>6. f[m] = OperationStep(Histogram(NamesOfKeys(more, R)), TokenAt(more, p))
      BY <2>3, <2>5, <3>5
    <3> HIDE DEF R
    <3>7. Histogram(NamesOfKeys(more, R \cup {p})) = OperationStep(Histogram(NamesOfKeys(more, R)), TokenAt(more, p))
      BY <3>3, <3>4, NamesGrow
    <3> QED BY <3>3, <3>6, <3>7
  <2>6. To(L)
    <3> HIDE DEF To
    <3>1. 0 \in D
      BY <2>1, <2>4
    <3>2. \A m \in 1..L : m - 1 \in D => m \in D
      BY <2>1, <2>5
    <3> HIDE DEF D
    <3>3. 0..L \subseteq D
      BY <2>1, <3>1, <3>2, RangeInduction
    <3> QED BY <2>1, <3>3 DEF D
  <2> QED BY <1>2, <1>7, <1>8, <2>2, <2>6 DEF more, L, base
<1>9. CASE e.kind # "key_sequence"
  <2>1. Keyed(more) = C
    BY <1>2, <1>9
  <2> QED BY <1>6, <1>7, <1>9, <2>1 DEF more
<1> QED BY <1>8, <1>9

(* The sequences and the keys of each mode, with one event more. *)
SequencesIn(events, m) == {i \in Of(events, "key_sequence") : events[i].mode = m}
KeysIn(events, m) == {p \in Keyed(events) : events[p[1]].mode = m}
SequenceModesOf(events) == {events[i].mode : i \in Of(events, "key_sequence")}
LEMMA ModeUseAppend ==
  ASSUME NEW events \in Logs, NEW e \in LogEvents
  PROVE  ModeUse(Append(events, e))
           = IF e.kind = "key_sequence" THEN TallyPair(ModeUse(events), e.mode, Len(e.keys)) ELSE ModeUse(events)
<1> DEFINE more == Append(events, e)
           n == Len(events) + 1
           L == Len(e.keys)
           S == Of(events, "key_sequence")
           C == Keyed(events)
           count(ev, m) == <<Cardinality(SequencesIn(ev, m)), Cardinality(KeysIn(ev, m))>>
           f == ModeUse(events)
<1>1. more[n] = e /\ \A i \in DOMAIN events : more[i] = events[i]
  BY AppendEvent
<1>2. /\ Of(more, "key_sequence") = S \cup (IF e.kind = "key_sequence" THEN {n} ELSE {}) /\ n \notin S
      /\ S \subseteq DOMAIN events
  BY OfAppend, OfFinite
<1>3. Keyed(more) = C \cup (IF e.kind = "key_sequence" THEN Row(n, L) ELSE {})
  BY KeyedAppend
<1>4. \A p \in C : p[1] \in S /\ p[1] \in DOMAIN events
  BY KeyedIn
<1>5. ASSUME NEW m
      PROVE  /\ IsFiniteSet(SequencesIn(events, m)) /\ IsFiniteSet(KeysIn(events, m))
             /\ Cardinality(SequencesIn(events, m)) \in Nat /\ Cardinality(KeysIn(events, m)) \in Nat
  <2>1. SequencesIn(events, m) \in SUBSET Of(events, "key_sequence") /\ KeysIn(events, m) \in SUBSET Keyed(events)
    BY DEF SequencesIn, KeysIn
  <2> QED BY <2>1, OfFinite, KeyedFinite, FS_CardinalityType
<1>6. \A ev : ModeUse(ev) = [m \in SequenceModesOf(ev) |-> count(ev, m)]
  BY DEF ModeUse, SequenceModesOf, SequencesIn, KeysIn
<1> HIDE DEF more, n, L
<1>7. CASE e.kind = "key_sequence"
  <2> DEFINE g == TallyPair(f, e.mode, L)
  <2>1. L \in Nat
    BY <1>7, EventType DEF L
  <2>2. SequenceModesOf(more) = SequenceModesOf(events) \cup {e.mode}
    BY <1>1, <1>2, <1>7 DEF SequenceModesOf
  <2>3. ASSUME NEW m
        PROVE  /\ SequencesIn(more, m) = SequencesIn(events, m) \cup (IF m = e.mode THEN {n} ELSE {})
               /\ KeysIn(more, m) = KeysIn(events, m) \cup (IF m = e.mode THEN Row(n, L) ELSE {})
               /\ n \notin SequencesIn(events, m) /\ KeysIn(events, m) \cap Row(n, L) = {}
    BY <1>1, <1>2, <1>3, <1>4, <1>7 DEF SequencesIn, KeysIn, Row
  <2>4. DOMAIN g = SequenceModesOf(more) /\ g = [m \in SequenceModesOf(more) |-> g[m]]
    BY <1>6, <2>2 DEF TallyPair, With
  <2>5. ASSUME NEW m \in SequenceModesOf(more) PROVE g[m] = count(more, m)
    <3>1. CASE m = e.mode
      <4>1. Cardinality(SequencesIn(more, m)) = Cardinality(SequencesIn(events, m)) + 1
        BY <1>5, <2>3, <3>1, FS_AddElement
      <4>2. Cardinality(KeysIn(more, m)) = Cardinality(KeysIn(events, m)) + L
        <5>1. IsFiniteSet(Row(n, L)) /\ Cardinality(Row(n, L)) = L
          BY <2>1, RowSize
        <5> DEFINE A == KeysIn(events, m)
                   B == Row(n, L)
        <5>2. KeysIn(more, m) = A \cup B /\ A \cap B = {} /\ IsFiniteSet(A) /\ IsFiniteSet(B) /\ Cardinality(B) = L
              /\ Cardinality(A) \in Nat
          BY <1>5, <2>3, <3>1, <5>1
        <5> HIDE DEF A, B
        <5>3. Cardinality(A \cup B) = Cardinality(A) + Cardinality(B) - Cardinality(A \cap B)
          BY <5>2, FS_Union
        <5>4. Cardinality(A \cap B) = 0
          BY <5>2, FS_EmptySet
        <5>5. Cardinality(KeysIn(more, m)) = Cardinality(A) + L
          BY <2>1, <5>2, <5>3, <5>4
        <5> QED BY <5>5 DEF A
      <4>3. CASE m \in SequenceModesOf(events)
        <5>1. f[m] = count(events, m) /\ m \in DOMAIN f
          BY <1>6, <4>3
        <5>2. g[m] = <<f[m][1] + 1, f[m][2] + L>>
          BY <3>1, <5>1 DEF TallyPair, With
        <5> QED BY <4>1, <4>2, <5>1, <5>2
      <4>4. CASE m \notin SequenceModesOf(events)
        <5>1. g[m] = <<1, L>>
          BY <1>6, <3>1, <4>4 DEF TallyPair, With
        <5>2. SequencesIn(events, m) = {} /\ KeysIn(events, m) = {}
          BY <1>4, <4>4 DEF SequenceModesOf, SequencesIn, KeysIn
        <5>3. Cardinality({}) = 0
          BY FS_EmptySet
        <5> QED BY <2>1, <4>1, <4>2, <5>1, <5>2, <5>3
      <4> QED BY <4>3, <4>4
    <3>2. CASE m # e.mode
      <4>1. m \in SequenceModesOf(events)
        BY <2>2, <3>2
      <4>2. f[m] = count(events, m) /\ m \in DOMAIN f
        BY <1>6, <4>1
      <4>3. g[m] = f[m]
        BY <1>6, <3>2, <4>1 DEF TallyPair, With
      <4>4. SequencesIn(more, m) = SequencesIn(events, m) /\ KeysIn(more, m) = KeysIn(events, m)
        BY <2>3, <3>2
      <4> QED BY <4>2, <4>3, <4>4
    <3> QED BY <3>1, <3>2
  <2> HIDE DEF g, count
  <2>6. g = ModeUse(more)
    BY <1>6, <2>4, <2>5
  <2> QED BY <1>7, <2>6 DEF g, more, L
<1>8. CASE e.kind # "key_sequence"
  <2>1. Of(more, "key_sequence") = S /\ Keyed(more) = C
    BY <1>2, <1>3, <1>8
  <2>2. SequenceModesOf(more) = SequenceModesOf(events)
    BY <1>1, <1>2, <2>1 DEF SequenceModesOf
  <2>3. ASSUME NEW m PROVE SequencesIn(more, m) = SequencesIn(events, m) /\ KeysIn(more, m) = KeysIn(events, m)
    BY <1>1, <1>2, <1>4, <2>1 DEF SequencesIn, KeysIn
  <2>4. ModeUse(more) = ModeUse(events)
    BY <1>6, <2>2, <2>3
  <2> QED BY <1>8, <2>4 DEF more
<1> QED BY <1>7, <1>8

ControlsOf(events, c) == {i \in Of(events, "control_key_use") : <<events[i].mode, events[i].key>> = c}
UsesOfControl(events, c) == SumOfCounts(events, ControlsOf(events, c))

(* The uses of one control key, with one event more. *)
LEMMA ControlAppend ==
  ASSUME NEW events \in Logs, NEW e \in LogEvents, NEW c
  PROVE  /\ UsesOfControl(Append(events, e), c)
              = UsesOfControl(events, c)
                  + (IF e.kind = "control_key_use" /\ <<e.mode, e.key>> = c THEN e.count ELSE 0)
         /\ UsesOfControl(events, c) \in Nat
<1> DEFINE more == Append(events, e)
           n == Len(events) + 1
           b == e.kind = "control_key_use" /\ <<e.mode, e.key>> = c
           S == ControlsOf(events, c)
<1>1. more[n] = e /\ \A i \in DOMAIN events : more[i] = events[i]
  BY AppendEvent
<1>2. /\ Of(more, "control_key_use")
           = Of(events, "control_key_use") \cup (IF e.kind = "control_key_use" THEN {n} ELSE {})
      /\ n \notin Of(events, "control_key_use") /\ Of(events, "control_key_use") \subseteq DOMAIN events
  BY OfAppend, OfFinite
<1>3. S \subseteq Of(events, "control_key_use") /\ IsFiniteSet(S)
  <2>1. S \subseteq Of(events, "control_key_use")
    BY DEF ControlsOf
  <2> QED BY <2>1, OfFinite
<1>4. ASSUME NEW i \in S PROVE events[i].count \in Nat
  BY <1>3, EventAt, EventType DEF Of
<1>5. (b => e.count \in Nat) /\ b \in BOOLEAN
  BY EventType
<1> HIDE DEF more, n
<1>6. ControlsOf(more, c) = S \cup (IF b THEN {n} ELSE {}) /\ n \notin S
  BY <1>1, <1>2, <1>3 DEF ControlsOf
<1> HIDE DEF S, b
<1>7. (\A i \in S : more[i] = events[i]) /\ (b => more[n].count \in Nat)
  BY <1>1, <1>2, <1>3, <1>5
<1>8. /\ SumOfCounts(more, S \cup (IF b THEN {n} ELSE {}))
           = SumOfCounts(events, S) + (IF b THEN more[n].count ELSE 0)
      /\ SumOfCounts(events, S) \in Nat
  BY <1>3, <1>4, <1>5, <1>6, <1>7, CountSumAppend
<1> QED BY <1>1, <1>6, <1>8 DEF UsesOfControl, S, b, more

(* A control key that is not used is used no times. *)
LEMMA ControlUnused ==
  ASSUME NEW events, NEW c, c \notin ControlKeys(events)
  PROVE  UsesOfControl(events, c) = 0
<1>1. ControlsOf(events, c) = {}
  BY DEF ControlsOf, ControlKeys
<1>2. SumOfCounts(events, {}) = Weight([i \in {} |-> events[i].count], {})
  BY CountSum, FS_EmptySet
<1> QED BY <1>1, <1>2, WeightEmpty DEF UsesOfControl

(* What the model counts of each control key. *)
LEMMA ControlUseIs ==
  ASSUME NEW events
  PROVE  /\ DOMAIN ControlUse(events) = ControlKeys(events)
         /\ ControlUse(events) = [c \in ControlKeys(events) |-> UsesOfControl(events, c)]
BY DEF ControlUse, UsesOfControl, ControlsOf, SumOfCounts

(* The uses of all control keys, with one event more: what is entered for it *)
(* is what is counted.                                                       *)
LEMMA ControlUseAppend ==
  ASSUME NEW events \in Logs, NEW e \in LogEvents, NEW g \in Maps(TextModes \X Token, Nat)
  PROVE  /\ e.kind # "control_key_use" => ControlUse(Append(events, e)) = ControlUse(events)
         /\ /\ e.kind = "control_key_use" /\ DOMAIN g = ControlKeys(Append(events, e))
            /\ Incremented(ControlUse(events), g, <<e.mode, e.key>>, e.count)
            => g = ControlUse(Append(events, e))
<1> DEFINE more == Append(events, e)
           f == ControlUse(events)
           k == <<e.mode, e.key>>
           u(ev) == [c \in ControlKeys(ev) |-> UsesOfControl(ev, c)]
<1>1. ControlKeys(more) = ControlKeys(events) \cup (IF e.kind = "control_key_use" THEN {k} ELSE {})
  BY UsedAppend
<1>2. \A c : /\ UsesOfControl(more, c)
                  = UsesOfControl(events, c) + (IF e.kind = "control_key_use" /\ k = c THEN e.count ELSE 0)
             /\ UsesOfControl(events, c) \in Nat
  BY ControlAppend
<1>3. f = u(events) /\ ControlUse(more) = u(more)
  BY ControlUseIs
<1> HIDE DEF more, f, k
<1>4. ASSUME e.kind # "control_key_use" PROVE ControlUse(more) = f
  <2>1. ControlKeys(more) = ControlKeys(events) /\ \A c : UsesOfControl(more, c) = UsesOfControl(events, c)
    BY <1>1, <1>2, <1>4
  <2> QED BY <1>3, <2>1
<1>5. ASSUME e.kind = "control_key_use", DOMAIN g = ControlKeys(more), Incremented(f, g, k, e.count)
      PROVE  g = ControlUse(more)
  <2>1. g = [c \in ControlKeys(more) |-> g[c]]
    BY <1>5, MapType
  <2>2. \A c : CountOf(f, c) = UsesOfControl(events, c)
    BY <1>3, ControlUnused DEF CountOf
  <2>3. ASSUME NEW c \in ControlKeys(more) PROVE g[c] = UsesOfControl(more, c)
    <3>1. g[c] = CountOf(g, c)
      BY <1>5 DEF CountOf
    <3>2. CountOf(g, c) = IF c = k THEN CountOf(f, c) + e.count ELSE CountOf(f, c)
      BY <1>5 DEF Incremented
    <3> QED BY <1>2, <1>5, <2>2, <3>1, <3>2
  <2> HIDE DEF u
  <2>4. ControlUse(more) = [c \in ControlKeys(more) |-> UsesOfControl(more, c)]
    BY <1>3 DEF u
  <2> QED BY <2>1, <2>3, <2>4
<1> QED BY <1>4, <1>5 DEF more, f, k

-----------------------------------------------------------------------------
(* Everything that the charts of an accumulator should show.                 *)
Charted(acc, events) ==
  /\ acc.key_sequences = Cardinality(Of(events, "key_sequence"))
  /\ acc.text_runs = Cardinality(Of(events, "text_run")) /\ acc.text_keys = TextKeys(events)
  /\ acc.mode_transitions = Cardinality(Of(events, "mode_transition"))
  /\ acc.modes = ModeUse(events) /\ acc.session_duration = Durations(events)
  /\ acc.sequence_length = Lengths(events) /\ acc.latency = Paces(events)
  /\ acc.operations = Operations(events) /\ acc.transitions = Transitions(events)
  /\ acc.error = NoError => acc.control_keys = ControlUse(events)

(* An accumulator that holds exactly what some events say. *)
Exact(acc, events, snapshot) == Accounted(acc, events, snapshot) /\ Charted(acc, events)

(* Nothing is known of no events. *)
LEMMA EmptyExact ==
  ASSUME NEW snapshot
  PROVE  Exact(NewAccumulator, <<>>, snapshot)
<1> DEFINE acc == NewAccumulator
           none == <<>>
<1>1. none \in Logs /\ DOMAIN none = {}
  BY DEF Logs
<1> HIDE DEF none
<1>2. \A kind : Of(none, kind) = {}
  BY <1>1 DEF Of
<1>3. Keyed(none) = {} /\ ControlKeys(none) = {}
  BY <1>2 DEF Keyed, ControlKeys
<1>4. Cardinality({}) = 0
  BY FS_EmptySet
<1>5. \A at : DOMAIN at = {} => Histogram(at) = Empty
  BY DEF Histogram, Range, Empty
<1>6. TextKeys(none) = 0
  <2>1. SumOfCounts(none, {}) = Weight([i \in {} |-> none[i].count], {})
    BY CountSum, FS_EmptySet
  <2> QED BY <1>2, <2>1, WeightEmpty DEF TextKeys
<1>7. ModeUse(none) = Empty /\ ControlUse(none) = Empty
  BY <1>2, <1>3 DEF ModeUse, ControlUse, Empty
<1>8. Durations(none) = Empty /\ Lengths(none) = Empty /\ Transitions(none) = Empty
  BY <1>2, <1>5 DEF Durations, Lengths, Transitions
<1>9. Paces(none) = Empty /\ Operations(none) = Empty
  BY <1>2, <1>3, <1>5 DEF Paces, Operations
<1>10. Charted(acc, none)
  BY <1>2, <1>4, <1>6, <1>7, <1>8, <1>9 DEF NewAccumulator, Charted
<1> QED BY <1>10, EmptyAccounted DEF Exact, none

(* An event adds its own to the charts. *)
ChartedTo(acc, e, a) ==
  /\ a.key_sequences = acc.key_sequences + (IF e.kind = "key_sequence" THEN 1 ELSE 0)
  /\ a.text_runs = acc.text_runs + (IF e.kind = "text_run" THEN 1 ELSE 0)
  /\ a.text_keys = acc.text_keys + (IF e.kind = "text_run" THEN e.count ELSE 0)
  /\ a.mode_transitions = acc.mode_transitions + (IF e.kind = "mode_transition" THEN 1 ELSE 0)
  /\ a.modes = IF e.kind = "key_sequence" THEN TallyPair(acc.modes, e.mode, Len(e.keys)) ELSE acc.modes
  /\ a.session_duration
       = IF e.kind = "session_end" THEN Tally(acc.session_duration, Bucket(SessionDurations, e.elapsed), 1)
         ELSE acc.session_duration
  /\ a.sequence_length
       = IF e.kind = "key_sequence" THEN Tally(acc.sequence_length, Bucket(SequenceLengths, Len(e.keys)), 1)
         ELSE acc.sequence_length
  /\ a.latency = IF e.kind = "key_sequence" /\ Len(e.keys) >= 2
                 THEN Tally(acc.latency, Bucket(Latencies, e.duration \div (Len(e.keys) - 1)), 1)
                 ELSE acc.latency
  /\ a.operations = IF e.kind = "key_sequence" THEN CountOperations(acc.operations, e.keys) ELSE acc.operations
  /\ a.transitions = IF e.kind = "mode_transition" THEN Tally(acc.transitions, <<e.from, e.to>>, 1)
                     ELSE acc.transitions

(* Only the use of a control key changes what is counted of control keys. *)
ControlTo(acc, e, a) ==
  a.error = NoError =>
    /\ acc.error = NoError
    /\ IF e.kind = "control_key_use"
       THEN Incremented(acc.control_keys, a.control_keys, <<e.mode, e.key>>, e.count)
       ELSE a.control_keys = acc.control_keys

(* A chart that is left alone shows nothing more. *)
LEMMA SameChartsTo ==
  ASSUME NEW acc \in Accumulators, NEW e,
         e.kind \notin {"session_end", "key_sequence", "text_run", "mode_transition"}, NEW a, SameCharts(acc, a)
  PROVE  ChartedTo(acc, e, a)
<1>1. /\ e.kind # "session_end" /\ e.kind # "key_sequence" /\ e.kind # "text_run" /\ e.kind # "mode_transition"
  OBVIOUS
<1>2. /\ acc.key_sequences \in Nat /\ acc.text_runs \in Nat /\ acc.text_keys \in Nat /\ acc.mode_transitions \in Nat
  BY DEF Accumulators
<1> QED BY <1>1, <1>2 DEF SameCharts, ChartedTo

(* What one event adds to the charts, by its kind. *)
LEMMA ObserveCharts ==
  ASSUME NEW events \in Logs, NEW e \in LogEvents, NEW snapshot, NEW acc, Accounted(acc, events, snapshot),
         NEW a, a = Observe(acc, e, snapshot)
  PROVE  ChartedTo(acc, e, a) /\ ControlTo(acc, e, a)
<1>1. /\ acc \in Accumulators /\ e.kind \in Kinds
      /\ acc.key_sequences \in Nat /\ acc.text_runs \in Nat /\ acc.text_keys \in Nat /\ acc.mode_transitions \in Nat
  BY EventType DEF Accounted, Accumulators
<1>2. CASE e.kind = "session_start"
  <2>1. a = acc
    BY <1>2 DEF Observe
  <2>2. ChartedTo(acc, e, a)
    BY <1>1, <1>2, <2>1, SameChartsTo DEF SameCharts
  <2> QED BY <1>2, <2>1, <2>2 DEF ControlTo
<1>3. CASE e.kind = "text_run"
  <2>1. a = [acc EXCEPT !.text_runs = @ + 1, !.text_keys = @ + e.count]
    BY <1>3 DEF Observe
  <2>2. ChartedTo(acc, e, a)
    BY <1>1, <1>3, <2>1 DEF Accumulators, ChartedTo
  <2>3. a.error = acc.error /\ a.control_keys = acc.control_keys
    BY <1>1, <2>1 DEF Accumulators
  <2> QED BY <1>3, <2>2, <2>3 DEF ControlTo
<1>4. CASE e.kind = "mode_transition"
  <2>1. a = [acc EXCEPT !.mode_transitions = @ + 1, !.transitions = Tally(@, <<e.from, e.to>>, 1)]
    BY <1>4 DEF Observe
  <2>2. ChartedTo(acc, e, a)
    BY <1>1, <1>4, <2>1 DEF Accumulators, ChartedTo
  <2>3. a.error = acc.error /\ a.control_keys = acc.control_keys
    BY <1>1, <2>1 DEF Accumulators
  <2> QED BY <1>4, <2>2, <2>3 DEF ControlTo
<1>5. CASE e.kind = "session_end"
  <2>1. a = ObserveEnd(acc, e)
    BY <1>5 DEF Observe
  <2> DEFINE total == acc.total_session_duration_ms + e.elapsed
  <2>2. /\ EndCharts(acc, e, a) /\ SameStock(acc, a)
        /\ total > MaxTime => a.error = IF acc.error = NoError THEN "session_duration" ELSE acc.error
        /\ ~(total > MaxTime) => a.error = acc.error
    BY <1>1, <2>1, EndTimed
  <2>3. ChartedTo(acc, e, a)
    BY <1>1, <1>5, <2>2 DEF EndCharts, ChartedTo
  <2>4. a.error = NoError => acc.error = NoError
    <3> HIDE DEF total
    <3> QED BY <2>2 DEF NoError
  <2> QED BY <1>5, <2>2, <2>3, <2>4 DEF ControlTo, SameStock
<1>6. CASE e.kind = "key_sequence"
  <2>1. /\ SameCharts(SequenceCounted(acc, e), a) /\ a.control_keys = acc.control_keys
        /\ a.error = NoError => acc.error = NoError
        /\ CountMotions(acc.repeated_motions, RunsOf(e.keys)) \in Maps(Token, Numbers)
    BY <1>6, SequenceEvent
  <2>2. PICK u : u = SequenceCounted(acc, e)
    OBVIOUS
  <2>3. SequenceCharts(acc, e, u) /\ SameCharts(u, a)
    BY <1>1, <1>6, <2>1, <2>2, SequenceTotals
  <2>4. ChartedTo(acc, e, a)
    BY <1>1, <1>6, <2>3 DEF SequenceCharts, SameCounts, SameCharts, ChartedTo
  <2> QED BY <1>6, <2>1, <2>4 DEF ControlTo
<1>7. CASE e.kind = "control_key_use"
  <2>1. /\ SameCharts(acc, a)
        /\ a.error = NoError =>
             /\ acc.error = NoError
             /\ Incremented(acc.control_keys, a.control_keys, <<e.mode, e.key>>, e.count)
    BY <1>7, ControlEvent
  <2> QED BY <1>1, <1>7, <2>1, SameChartsTo DEF ControlTo
<1>8. CASE e.kind = "mapping_use"
  <2>1. /\ SameCharts(acc, a) /\ a.control_keys = acc.control_keys /\ (a.error = NoError => acc.error = NoError)
    BY <1>8, MappingEvent
  <2> QED BY <1>1, <1>8, <2>1, SameChartsTo DEF ControlTo
<1> QED BY <1>1, <1>2, <1>3, <1>4, <1>5, <1>6, <1>7, <1>8 DEF Kinds

(* One event, whatever it is. *)
THEOREM ObserveExact ==
  ASSUME NEW events \in Logs, NEW e \in LogEvents, NEW snapshot, NEW acc, Exact(acc, events, snapshot)
  PROVE  Exact(Observe(acc, e, snapshot), Append(events, e), snapshot)
<1> DEFINE a == Observe(acc, e, snapshot)
           more == Append(events, e)
<1>1. Accounted(acc, events, snapshot) /\ Charted(acc, events) /\ acc \in Accumulators
  BY DEF Exact, Accounted
<1>2. Accounted(a, more, snapshot) /\ a \in Accumulators
  BY <1>1, ObserveAccounted DEF Accounted
<1>3. ChartedTo(acc, e, a) /\ ControlTo(acc, e, a)
  BY <1>1, ObserveCharts
<1>4. /\ Cardinality(Of(more, "key_sequence"))
           = Cardinality(Of(events, "key_sequence")) + (IF e.kind = "key_sequence" THEN 1 ELSE 0)
      /\ Cardinality(Of(more, "text_run"))
           = Cardinality(Of(events, "text_run")) + (IF e.kind = "text_run" THEN 1 ELSE 0)
      /\ Cardinality(Of(more, "mode_transition"))
           = Cardinality(Of(events, "mode_transition")) + (IF e.kind = "mode_transition" THEN 1 ELSE 0)
  BY OfSize
<1>5. TextKeys(more) = TextKeys(events) + (IF e.kind = "text_run" THEN e.count ELSE 0)
  BY TextAppend
<1>6. /\ ModeUse(more) = IF e.kind = "key_sequence" THEN TallyPair(ModeUse(events), e.mode, Len(e.keys))
                         ELSE ModeUse(events)
      /\ Durations(more) = IF e.kind = "session_end"
                           THEN Tally(Durations(events), Bucket(SessionDurations, e.elapsed), 1)
                           ELSE Durations(events)
      /\ Lengths(more) = IF e.kind = "key_sequence"
                         THEN Tally(Lengths(events), Bucket(SequenceLengths, Len(e.keys)), 1) ELSE Lengths(events)
  BY ModeUseAppend, DurationsAppend, LengthsAppend
<1>7. /\ Paces(more) = IF e.kind = "key_sequence" /\ Len(e.keys) >= 2
                       THEN Tally(Paces(events), Bucket(Latencies, e.duration \div (Len(e.keys) - 1)), 1)
                       ELSE Paces(events)
      /\ Transitions(more) = IF e.kind = "mode_transition" THEN Tally(Transitions(events), <<e.from, e.to>>, 1)
                             ELSE Transitions(events)
  BY PacesAppend, TransitionsAppend
<1>8. Operations(more) = IF e.kind = "key_sequence" THEN CountOperations(Operations(events), e.keys)
                         ELSE Operations(events)
  <2>1. Operations(events) \in Maps(OperationNames, Nat)
    BY <1>1 DEF Charted, Accumulators
  <2> QED BY <2>1, OperationsAppend
<1>9. ASSUME a.error = NoError PROVE a.control_keys = ControlUse(more)
  <2>1. acc.error = NoError /\ acc.control_keys = ControlUse(events)
    BY <1>1, <1>3, <1>9 DEF ControlTo, Charted
  <2>2. a.control_keys \in Maps(TextModes \X Token, Nat)
    BY <1>2 DEF Accumulators
  <2>3. DOMAIN a.control_keys = ControlKeys(more)
    BY <1>2, <1>9 DEF Accounted, Stocked, StockOf
  <2> HIDE DEF a, more
  <2>4. CASE e.kind = "control_key_use"
    BY <1>3, <1>9, <2>1, <2>2, <2>3, <2>4, ControlUseAppend DEF ControlTo, more
  <2>5. CASE e.kind # "control_key_use"
    BY <1>3, <1>9, <2>1, <2>2, <2>5, ControlUseAppend DEF ControlTo, more
  <2> QED BY <2>4, <2>5
<1> HIDE DEF a, more
<1>10. /\ a.key_sequences = Cardinality(Of(more, "key_sequence"))
       /\ a.text_runs = Cardinality(Of(more, "text_run")) /\ a.text_keys = TextKeys(more)
       /\ a.mode_transitions = Cardinality(Of(more, "mode_transition"))
  BY <1>1, <1>3, <1>4, <1>5 DEF Charted, ChartedTo
<1>11. /\ a.modes = ModeUse(more) /\ a.session_duration = Durations(more)
       /\ a.sequence_length = Lengths(more)
  BY <1>1, <1>3, <1>6 DEF Charted, ChartedTo
<1>12. a.latency = Paces(more) /\ a.operations = Operations(more) /\ a.transitions = Transitions(more)
  BY <1>1, <1>3, <1>7, <1>8 DEF Charted, ChartedTo
<1>13. Charted(a, more)
  BY <1>9, <1>10, <1>11, <1>12 DEF Charted
<1> QED BY <1>2, <1>13 DEF Exact, a, more

-----------------------------------------------------------------------------
(* The budget of the model, which counts and weighs the items of a log, is   *)
(* exceeded when its stock does not fit or something in it is bad.           *)
Repeated(events) == {events[r[1]].keys[r[2]] : r \in Runs(events, 2)}

(* The keys of repeated runs, named as the model does. *)
LEMMA RepeatedKeys ==
  ASSUME NEW events \in Logs
  PROVE  Repeated(events) = KeysOf(Runs(events, 2), KeyAt(events))
<1>1. Runs(events, 2) \in SUBSET Spans
  BY RunsType
<1>2. ASSUME NEW r \in Runs(events, 2) PROVE KeyAt(events)[r] = events[r[1]].keys[r[2]]
  BY <1>1 DEF KeyAt
<1> QED BY <1>2 DEF Repeated, KeysOf

(* The time of all sessions is a number. *)
LEMMA DurationType ==
  ASSUME NEW events \in Logs
  PROVE  Duration(events) \in Nat
<1>1. [kind |-> "session_start", session |-> 1, elapsed |-> 0] \in LogEvents
  BY DEF LogEvents, NoSession
<1> QED BY <1>1, ElapsedAppend

Over(events, snapshot) == ~Fits(StockOf(events)) \/ BadIn(events, snapshot)

(* The budget of the model is exceeded exactly when the stock does not fit
   or is bad. *)
THEOREM BudgetExact ==
  ASSUME NEW events \in Logs
  PROVE  OverBudget(events) <=> Over(events, keymap.snapshot)
<1> DEFINE st == StockOf(events)
           R == Repeated(events)
           U == UsedIds(events)
           C == ControlKeys(events)
<1>1. st \in Stocks
  BY StockOfType
<1>2. st.keys = Tokens(events) /\ st.repeated_keys = R /\ st.mappings = U /\ st.control_keys = C
  BY RepeatedKeys DEF StockOf
<1>3. Tokens(events) \in SUBSET Token /\ R \in SUBSET Token /\ U \in SUBSET Token
      /\ C \in SUBSET (TextModes \X Token)
  BY <1>1, <1>2, StockType
<1>4. /\ MapThenSumSet(LAMBDA x : Size[x], Tokens(events)) = Weight(Size, st.keys)
      /\ MapThenSumSet(LAMBDA x : Size[x], R) = Weight(Size, st.repeated_keys)
      /\ MapThenSumSet(LAMBDA x : Size[x], U) = Weight(Size, st.mappings)
      /\ MapThenSumSet(LAMBDA c : Size[c[1]] + Size[c[2]], C) = Weight(PairSize, st.control_keys)
  BY <1>2, <1>3, SizeSum, PairSizeSum
<1>5. /\ Cardinality(Tokens(events)) \in Nat /\ Cardinality(R) \in Nat
      /\ Cardinality(U) \in Nat /\ Cardinality(C) \in Nat /\ MaxDistinctItems \in Nat
  BY <1>1, <1>2, StockType, Limits
<1>6. Duration(events) \in Nat /\ MaxTime \in Nat
  BY DurationType, Limits
<1>7. /\ Bytes(st) \in Nat /\ MaxRetainedTokenBytes \in Nat
  BY <1>1, StockType, Limits
<1> HIDE DEF st
<1>8. Fits(st) <=>
        /\ Cardinality(Tokens(events)) <= MaxDistinctItems /\ Cardinality(R) <= MaxDistinctItems
        /\ Cardinality(U) <= MaxDistinctItems /\ Cardinality(C) <= MaxDistinctItems
        /\ Bytes(st) <= MaxRetainedTokenBytes
  BY <1>2 DEF Fits
<1>9. OverBudget(events) <=>
        \/ \E S \in {Tokens(events), R, U} : Cardinality(S) > MaxDistinctItems
        \/ Cardinality(C) > MaxDistinctItems
        \/ Bytes(st) > MaxRetainedTokenBytes
        \/ BadIn(events, keymap.snapshot)
  BY <1>4 DEF OverBudget, Repeated, Bytes, BadIn, Disagrees
<1> HIDE DEF R, U, C
<1>10. Fits(st) <=> ~(\/ \E S \in {Tokens(events), R, U} : Cardinality(S) > MaxDistinctItems
                     \/ Cardinality(C) > MaxDistinctItems
                     \/ Bytes(st) > MaxRetainedTokenBytes)
  BY <1>5, <1>7, <1>8
<1> QED BY <1>9, <1>10 DEF Over, st
=============================================================================
