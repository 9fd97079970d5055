---------------------------- MODULE ModelsProofs ----------------------------
(* Theorems about Models, for any callers, models, setups, pool and times. *)
EXTENDS Models, SequenceTheorems, Induction, TLAPS

-----------------------------------------------------------------------------
(* The registry *)

\* An entry the router can compare with others.
Sound(e) == /\ e.name \in Nat \ {None} /\ e.priority \in Int
            /\ IsFiniteSet(e.capabilities)

\* A registry lists entries of E, none of them twice.
Lists(models, E) ==
  /\ models \in Seq(E)
  /\ \A i, j \in 1..Len(models) : i # j => models[i].name # models[j].name

Registry(models) ==
  Lists(models, ToSet(models)) /\ \A e \in ToSet(models) : Sound(e)

LEMMA RegistryOf ==
  ASSUME NEW E, NEW models, Lists(models, E), \A e \in E : Sound(e)
  PROVE  Registry(models)
<1>1. /\ models \in Seq(E) /\ Len(models) \in Nat /\ DOMAIN models = 1..Len(models)
      /\ \A i \in 1..Len(models) : models[i] \in E
  BY DEF Lists
<1>2. ToSet(models) \subseteq E /\ \A i \in 1..Len(models) : models[i] \in ToSet(models)
  BY <1>1 DEF ToSet
<1>3. models \in Seq(ToSet(models))
  <2>1. models \in [1..Len(models) -> ToSet(models)]
    BY <1>1, <1>2
  <2> QED BY <1>1, <2>1
<1> QED BY <1>2, <1>3 DEF Registry, Lists

LEMMA Register ==
  ASSUME NEW E, NEW models, Lists(models, E), NEW entry \in E
  PROVE  Lists(register(models, entry), E)
<1>1. models \in Seq(E) /\ Len(models) \in Nat /\ DOMAIN models = 1..Len(models)
  BY DEF Lists
<1>2. CASE \E i \in DOMAIN models : models[i].name = entry.name
  <2> DEFINE new == [i \in DOMAIN models |->
                       IF models[i].name = entry.name THEN entry ELSE models[i]]
  <2>1. register(models, entry) = new
    BY <1>2 DEF register
  <2>2. new \in [1..Len(models) -> E]
    BY <1>1
  <2>3. new \in Seq(E) /\ Len(new) = Len(models)
    BY <1>1, <2>2
  <2>4. \A i \in 1..Len(models) : new[i].name = models[i].name
    BY <1>1
  <2> HIDE DEF new
  <2> QED BY <2>1, <2>3, <2>4 DEF Lists
<1>3. CASE ~\E i \in DOMAIN models : models[i].name = entry.name
  <2> DEFINE new == Append(models, entry)
             n == Len(models)
  <2>1. register(models, entry) = new
    BY <1>3 DEF register
  <2>2. /\ new \in Seq(E) /\ Len(new) = n + 1 /\ new[n + 1] = entry
        /\ \A i \in 1..n : new[i] = models[i]
    BY <1>1, AppendProperties
  <2>3. \A i \in 1..n : models[i].name # entry.name
    BY <1>1, <1>3
  <2> HIDE DEF new
  <2>4. \A i, j \in 1..n : i # j => models[i].name # models[j].name
    BY DEF Lists
  <2>5. \A i \in 1..n + 1 : i = n + 1 \/ i \in 1..n
    BY <1>1
  <2>6. ASSUME NEW i \in 1..n + 1, NEW j \in 1..n + 1, i # j
        PROVE  new[i].name # new[j].name
    <3>1. CASE i \in 1..n /\ j \in 1..n
      BY <2>2, <2>4, <2>6, <3>1
    <3>2. CASE i = n + 1 /\ j \in 1..n
      BY <2>2, <2>3, <3>2
    <3>3. CASE j = n + 1 /\ i \in 1..n
      BY <2>2, <2>3, <3>3
    <3> QED BY <2>5, <2>6, <3>1, <3>2, <3>3
  <2> QED BY <2>1, <2>2, <2>6 DEF Lists
<1> QED BY <1>2, <1>3

-----------------------------------------------------------------------------
(* The registry of a file: a fold, whose intermediate values are a table. *)

Table(list) ==
  CHOOSE table :
    table = [s \in SUBSET DOMAIN list |->
               IF s = {} THEN <<>> ELSE register(table[s \ {Max(s)}], list[Max(s)])]

LEMMA LoadedByTable ==
  ASSUME NEW list
  PROVE  FoldLeft(register, <<>>, list) = Table(list)[DOMAIN list]
BY DEF FoldLeft, MapThenFoldSet, Table

LEMMA TableDefined ==
  ASSUME NEW E, NEW list \in Seq(E)
  PROVE  Table(list) = [s \in SUBSET DOMAIN list |->
           IF s = {} THEN <<>> ELSE register(Table(list)[s \ {Max(s)}], list[Max(s)])]
<1> DEFINE S == DOMAIN list
           R == {models \in Seq(E) : Lists(models, E)}
           F == [x \in S \X R |-> register(x[2], list[x[1]])]
           pick == [s \in SUBSET S |-> Max(s)]
<1>1. Len(list) \in Nat /\ S = 1..Len(list) /\ \A i \in S : list[i] \in E
  OBVIOUS
<1>2. IsFiniteSet(S)
  BY <1>1, FS_Interval
<1>3. <<>> \in R
  BY DEF Lists
<1>4. ASSUME NEW models \in R, NEW i \in S
      PROVE  register(models, list[i]) \in R
  BY <1>1, Register DEF Lists
<1>5. F \in [S \X R -> R]
  <2>1. ASSUME NEW x \in S \X R
        PROVE  register(x[2], list[x[1]]) \in R
    <3>1. x[1] \in S /\ x[2] \in R
      OBVIOUS
    <3> HIDE DEF S, R
    <3> QED BY <3>1, <1>4
  <2> HIDE DEF S, R
  <2> QED BY <2>1
<1>6. \A s \in SUBSET S : s # {} => pick[s] \in s
  BY <1>1, MaxInInterval
<1>7. PICK g \in [SUBSET S -> R] : FoldEquation(S, <<>>, F, pick, g)
  <2> HIDE DEF S, R, F, pick
  <2> QED BY <1>2, <1>3, <1>5, <1>6, FoldExists
<1> DEFINE Solves(table) ==
      table = [s \in SUBSET S |->
                 IF s = {} THEN <<>> ELSE register(table[s \ {Max(s)}], list[Max(s)])]
<1>8. ASSUME NEW s \in SUBSET S, s # {}
      PROVE  F[<<pick[s], g[s \ {pick[s]}]>>] = register(g[s \ {Max(s)}], list[Max(s)])
  <2>1. pick[s] = Max(s) /\ Max(s) \in S /\ g[s \ {Max(s)}] \in R
    <3>1. pick[s] = Max(s)
      OBVIOUS
    <3> HIDE DEF S, R, pick
    <3> QED BY <3>1, <1>6, <1>8
  <2>2. <<pick[s], g[s \ {pick[s]}]>> \in S \X R
    BY <2>1
  <2> HIDE DEF S, R, pick
  <2> QED BY <2>1, <2>2
<1>9. Solves(g)
  <2>1. \A s \in SUBSET S :
          g[s] = IF s = {} THEN <<>> ELSE register(g[s \ {Max(s)}], list[Max(s)])
    <3> HIDE DEF S, R, F, pick
    <3> QED BY <1>7, <1>8 DEF FoldEquation
  <2> HIDE DEF S, R
  <2> QED BY <2>1
<1>10. Solves(Table(list))
  <2> HIDE DEF Solves
  <2>1. Table(list) = CHOOSE table : Solves(table)
    BY DEF Table, Solves
  <2> QED BY <1>9, <2>1
<1> QED BY <1>10

\* Whatever a file lists, its registry has none of the names twice.
LEMMA Loaded ==
  ASSUME NEW E, NEW list \in Seq(E)
  PROVE  Lists(FoldLeft(register, <<>>, list), E)
<1> DEFINE n == Len(list)
           holds == {k \in 0..n : Lists(Table(list)[1..k], E)}
<1>1. n \in Nat /\ DOMAIN list = 1..n /\ \A i \in 1..n : list[i] \in E
  OBVIOUS
<1>2. \A s \in SUBSET (1..n) :
        Table(list)[s] =
          IF s = {} THEN <<>> ELSE register(Table(list)[s \ {Max(s)}], list[Max(s)])
  <2> DEFINE T == Table(list)
  <2>1. T = [s \in SUBSET (1..n) |->
               IF s = {} THEN <<>> ELSE register(T[s \ {Max(s)}], list[Max(s)])]
    BY <1>1, TableDefined
  <2> HIDE DEF T, n
  <2>2. \A s \in SUBSET (1..n) :
          T[s] = IF s = {} THEN <<>> ELSE register(T[s \ {Max(s)}], list[Max(s)])
    BY <2>1
  <2> QED BY <2>2 DEF T
<1> HIDE DEF n
<1>3. 0 \in holds
  <2>1. 1..0 = {} /\ 1..0 \in SUBSET (1..n)
    OBVIOUS
  <2>2. Table(list)[1..0] = <<>>
    BY <1>2, <2>1
  <2>3. Lists(<<>>, E)
    BY DEF Lists
  <2> QED BY <1>1, <2>2, <2>3
<1>4. ASSUME NEW k \in 0..(n - 1), k \in holds
      PROVE  k + 1 \in holds
  <2>1. 1..(k + 1) \in SUBSET (1..n) /\ 1..(k + 1) # {}
    BY <1>1
  <2>2. Max(1..(k + 1)) = k + 1
    <3>1. Max(1..(k + 1)) \in 1..(k + 1) /\ \A m \in 1..(k + 1) : m <= Max(1..(k + 1))
      BY <1>1, <2>1, MaxInInterval
    <3>2. k + 1 \in 1..(k + 1)
      BY <1>1
    <3> QED BY <3>1, <3>2
  <2>3. 1..(k + 1) \ {k + 1} = 1..k
    BY <1>1
  <2>4. Table(list)[1..(k + 1)] = register(Table(list)[1..k], list[k + 1])
    BY <1>2, <2>1, <2>2, <2>3
  <2>5. k + 1 \in 0..n /\ k + 1 \in 1..n
    BY <1>1
  <2>6. Lists(Table(list)[1..k], E)
    BY <1>4
  <2>7. Lists(register(Table(list)[1..k], list[k + 1]), E)
    BY <1>1, <2>5, <2>6, Register
  <2> QED BY <2>4, <2>5, <2>7
<1> HIDE DEF holds
<1>5. 0..n \subseteq holds
  BY <1>1, <1>3, <1>4, IntervalInduction
<1>6. Lists(Table(list)[1..n], E)
  <2>1. n \in 0..n
    BY <1>1
  <2> QED BY <1>5, <2>1 DEF holds
<1> QED BY <1>1, <1>6, LoadedByTable

-----------------------------------------------------------------------------
(* The router *)

\* The promise speaks of the same models as the router.
LEMMA AbleIsEligible ==
  ASSUME NEW entry, NEW request
  PROVE  Able(entry, request) <=> Eligible(entry, request)
BY DEF Able, Eligible

\* Among those that can do the work, the score goes by the weight alone: what
\* the request asks for counts the same for all of them.
LEMMA ScoreIsWeight ==
  ASSUME NEW request, NEW entry, Sound(entry), Eligible(entry, request)
  PROVE  /\ Weight(entry) \in Int
         /\ Cardinality(required_capabilities(request)) \in Nat
         /\ Score(entry, request) =
              150 + Cardinality(required_capabilities(request)) + Weight(entry)
<1> DEFINE required == required_capabilities(request)
           owned == entry.capabilities
<1>1. IsFiniteSet(owned) /\ entry.priority \in Int
  BY DEF Sound
<1>2. required \in SUBSET owned /\ required \cap owned = required
      /\ owned \cap required = required
  BY DEF Eligible
<1>3. IsFiniteSet(required)
  BY <1>1, <1>2, FS_Subset
<1>4. Cardinality(owned \ required) = Cardinality(owned) - Cardinality(required)
  <2>1. Cardinality(owned \ required) =
          Cardinality(owned) - Cardinality(owned \cap required)
    BY <1>1, FS_Difference
  <2>2. owned \cap required = required
    BY <1>2
  <2> QED BY <2>1, <2>2
<1>5. Cardinality(owned) \in Nat /\ Cardinality(required) \in Nat
  BY <1>1, <1>3, FS_CardinalityType
<1>6. Score(entry, request) =
        100 + 50 + 2 * Cardinality(required) + Cardinality(owned \ required) + entry.priority
  BY <1>2 DEF Score
<1> HIDE DEF required, owned
<1>7. Score(entry, request) = 150 + Cardinality(required) + (entry.priority + Cardinality(owned))
  <2> DEFINE all == Cardinality(owned)
             some == Cardinality(required)
             score == Score(entry, request)
  <2>1. /\ all \in Int /\ some \in Int /\ entry.priority \in Int
        /\ score = 100 + 50 + 2 * some + (all - some) + entry.priority
    BY <1>1, <1>4, <1>5, <1>6
  <2> HIDE DEF all, some, score
  <2>2. score = 150 + some + (entry.priority + all)
    BY <2>1
  <2> QED BY <2>2 DEF all, some, score
<1>8. Weight(entry) = entry.priority + Cardinality(owned)
  BY DEF Weight, owned
<1> QED BY <1>1, <1>5, <1>7, <1>8 DEF required

\* Places of a list, with a weight and a name each, have a first one in the order
\* by weight, name and place.
Leads(W, N, i, j) ==
  \/ W[i] > W[j]
  \/ W[i] = W[j] /\ N[i] < N[j]
  \/ W[i] = W[j] /\ N[i] = N[j] /\ i < j

LEMMA LeaderExists ==
  ASSUME NEW n \in Nat, NEW S \in SUBSET (1..n), S # {},
         NEW W \in [S -> Int], NEW N \in [S -> Int]
  PROVE  \E i \in S : \A j \in S \ {i} : Leads(W, N, i, j)
<1> DEFINE Led(k) == S \cap (1..k) = {} \/
                       \E i \in S \cap (1..k) : \A j \in (S \cap (1..k)) \ {i} : Leads(W, N, i, j)
           holds == {k \in 0..n : Led(k)}
<1>1. 0 \in holds
  <2>1. S \cap (1..0) = {}
    OBVIOUS
  <2> QED BY <2>1
<1>2. ASSUME NEW k \in 0..(n - 1), k \in holds
      PROVE  k + 1 \in holds
  <2> DEFINE A == S \cap (1..k)
             B == S \cap (1..(k + 1))
  <2>0. k + 1 \in 0..n /\ k \in Nat
    OBVIOUS
  <2>1. Led(k)
    BY <1>2
  <2>2. CASE k + 1 \notin S
    <3>1. A = B
      BY <2>0, <2>2
    <3>2. Led(k + 1)
      BY <2>1, <3>1
    <3> QED BY <2>0, <3>2
  <2>3. CASE k + 1 \in S
    <3>1. B = A \cup {k + 1} /\ k + 1 \notin A /\ k + 1 \in B
      BY <2>0, <2>3
    <3>2. CASE A = {}
      <4>1. Led(k + 1)
        BY <3>1, <3>2
      <4> QED BY <2>0, <4>1
    <3>3. CASE A # {}
      <4>1. PICK i \in A : \A j \in A \ {i} : Leads(W, N, i, j)
        BY <2>1, <3>3
      <4>2. /\ i \in S /\ i \in Int /\ i < k + 1 /\ W[i] \in Int /\ N[i] \in Int
            /\ W[k + 1] \in Int /\ N[k + 1] \in Int
        BY <2>0, <2>3
      <4>3. CASE Leads(W, N, i, k + 1)
        <5>1. \A j \in B \ {i} : Leads(W, N, i, j)
          BY <3>1, <4>1, <4>3
        <5>2. Led(k + 1)
          BY <3>1, <5>1
        <5> QED BY <2>0, <5>2
      <4>4. CASE ~Leads(W, N, i, k + 1)
        <5>1. W[k + 1] > W[i] \/ (W[k + 1] = W[i] /\ N[k + 1] < N[i])
          BY <4>2, <4>4 DEF Leads
        <5>2. ASSUME NEW j \in B \ {k + 1}
              PROVE  Leads(W, N, k + 1, j)
          <6>1. j \in A /\ W[j] \in Int /\ N[j] \in Int
            BY <3>1
          <6>2. j = i \/ Leads(W, N, i, j)
            BY <4>1, <6>1
          <6>3. \/ W[i] > W[j]
                \/ W[i] = W[j] /\ N[i] <= N[j]
            BY <4>2, <6>1, <6>2 DEF Leads
          <6> HIDE DEF A, B
          <6> QED BY <4>2, <5>1, <6>1, <6>3 DEF Leads
        <5>3. Led(k + 1)
          BY <3>1, <5>2
        <5> QED BY <2>0, <5>3
      <4> QED BY <4>3, <4>4
    <3> QED BY <3>2, <3>3
  <2> QED BY <2>2, <2>3
<1> HIDE DEF holds
<1>3. 0..n \subseteq holds
  BY <1>1, <1>2, IntervalInduction
<1>4. Led(n)
  <2>1. n \in 0..n
    OBVIOUS
  <2> QED BY <1>3, <2>1 DEF holds
<1>5. S \cap (1..n) = S
  OBVIOUS
<1> QED BY <1>4, <1>5

\* The first of the candidates of a registry: no other is better, and of those
\* as good none has a smaller name.
LEMMA BestCandidate ==
  ASSUME NEW models, Registry(models), NEW request, candidates(models, request) # {}
  PROVE  LET best == best_candidate(models, request) IN
         /\ best \in candidates(models, request)
         /\ \A j \in candidates(models, request) \ {best} :
              \/ Weight(models[best]) > Weight(models[j])
              \/ Weight(models[best]) = Weight(models[j]) /\ models[best].name < models[j].name
<1> DEFINE S == candidates(models, request)
           W == [i \in S |-> Score(models[i], request)]
           N == [i \in S |-> models[i].name]
           n == Len(models)
           best == best_candidate(models, request)
<1> DEFINE E == ToSet(models)
<1>1. Lists(models, E) /\ \A e \in E : Sound(e)
  BY DEF Registry
<1>2. n \in Nat /\ DOMAIN models = 1..n /\ \A i \in 1..n : models[i] \in E
  BY <1>1 DEF Lists
<1>3. S \in SUBSET (1..n)
  BY <1>2 DEF candidates
<1>4. ASSUME NEW i \in S
      PROVE  /\ Sound(models[i]) /\ Eligible(models[i], request)
             /\ models[i].name \in Int /\ Weight(models[i]) \in Int
             /\ Cardinality(required_capabilities(request)) \in Nat
             /\ Score(models[i], request) =
                  150 + Cardinality(required_capabilities(request)) + Weight(models[i])
  <2>1. Sound(models[i]) /\ Eligible(models[i], request)
    BY <1>1, <1>2, <1>3 DEF candidates
  <2>2. models[i].name \in Int
    BY <2>1 DEF Sound
  <2> QED BY <2>1, <2>2, ScoreIsWeight
<1>5. W \in [S -> Int] /\ N \in [S -> Int]
  <2>1. \A i \in S : Score(models[i], request) \in Int /\ models[i].name \in Int
    BY <1>4
  <2> HIDE DEF S
  <2> QED BY <2>1
<1>6. PICK i \in S : \A j \in S \ {i} : Leads(W, N, i, j)
  <2> HIDE DEF S, W, N, n
  <2>1. S # {}
    BY DEF S
  <2> QED BY <1>2, <1>3, <1>5, <2>1, LeaderExists
<1> DEFINE Leading(k) ==
      \A j \in S \ {k} :
        \/ Before(request, models[k], models[j])
        \/ ~Before(request, models[j], models[k]) /\ k < j
<1>7. ASSUME NEW j \in S \ {i}
      PROVE  \/ Before(request, models[i], models[j])
             \/ ~Before(request, models[j], models[i]) /\ i < j
  <2>1. /\ W[i] = Score(models[i], request) /\ W[j] = Score(models[j], request)
        /\ N[i] = models[i].name /\ N[j] = models[j].name
    OBVIOUS
  <2>2. Leads(W, N, i, j)
    BY <1>6
  <2>3. /\ Score(models[i], request) \in Int /\ Score(models[j], request) \in Int
        /\ models[i].name \in Int /\ models[j].name \in Int
    BY <1>4
  <2> HIDE DEF W, N, S
  <2> QED BY <2>1, <2>2, <2>3 DEF Leads, Before
<1>8. best \in S /\ Leading(best)
  <2>1. Leading(i)
    BY <1>7
  <2>2. best = CHOOSE k \in S : Leading(k)
    BY DEF best_candidate
  <2> HIDE DEF Leading, best, S
  <2> QED BY <2>1, <2>2
<1>9. ASSUME NEW j \in S \ {best}
      PROVE  \/ Weight(models[best]) > Weight(models[j])
             \/ Weight(models[best]) = Weight(models[j]) /\ models[best].name < models[j].name
  <2> DEFINE a == models[best]
             b == models[j]
             r == Cardinality(required_capabilities(request))
  <2>1. Before(request, a, b) \/ ~Before(request, b, a)
    BY <1>8
  <2>2. /\ a.name \in Int /\ b.name \in Int /\ Weight(a) \in Int /\ Weight(b) \in Int
        /\ r \in Nat
        /\ Score(a, request) = 150 + r + Weight(a) /\ Score(b, request) = 150 + r + Weight(b)
    BY <1>4, <1>8
  <2>3. a.name # b.name
    <3>1. best \in 1..n /\ j \in 1..n /\ best # j
      BY <1>3, <1>8, <1>9
    <3> HIDE DEF best
    <3> QED BY <1>1, <3>1 DEF Lists
  <2> HIDE DEF a, b, r
  <2>4. \/ Score(a, request) > Score(b, request)
        \/ Score(a, request) = Score(b, request) /\ a.name < b.name
    BY <2>1, <2>2, <2>3 DEF Before
  <2>5. Weight(a) > Weight(b) \/ (Weight(a) = Weight(b) /\ a.name < b.name)
    <3> DEFINE wa == Weight(a)
               wb == Weight(b)
    <3>1. wa \in Int /\ wb \in Int /\ r \in Int
      BY <2>2
    <3>2. 150 + r + wa > 150 + r + wb \/ (150 + r + wa = 150 + r + wb /\ a.name < b.name)
      BY <2>2, <2>4
    <3> HIDE DEF wa, wb
    <3>3. wa > wb \/ (wa = wb /\ a.name < b.name)
      BY <3>1, <3>2
    <3> QED BY <3>3 DEF wa, wb
  <2> QED BY <2>5 DEF a, b
<1> HIDE DEF best, S
<1>10. best \in S
  BY <1>8
<1> QED BY <1>9, <1>10 DEF best, S

\* The router keeps its promise for every registry and every request.
LEMMA RouteRight ==
  ASSUME NEW models, Registry(models), NEW request
  PROVE  RightChoice(models, request, route(models, request))
<1> DEFINE able == {e \in ToSet(models) : Able(e, request)}
           S == candidates(models, request)
           name == route(models, request)
<1> DEFINE E == ToSet(models)
<1>1. Lists(models, E) /\ \A e \in E : Sound(e)
  BY DEF Registry
<1>2. DOMAIN models = 1..Len(models) /\ \A i \in DOMAIN models : models[i] \in E
  BY <1>1 DEF Lists
<1>3. able = {models[i] : i \in S}
  BY AbleIsEligible DEF candidates, ToSet
<1>4. \A i \in DOMAIN models : models[i].name # None
  BY <1>1, <1>2 DEF Sound
<1>5. CASE \E i \in DOMAIN models :
              models[i].name = request.preferred /\ Eligible(models[i], request)
  <2>1. PICK i \in DOMAIN models :
               models[i].name = request.preferred /\ Eligible(models[i], request)
    BY <1>5
  <2>2. name = request.preferred /\ models[i].name = name /\ name # None
    BY <1>4, <1>5, <2>1 DEF route
  <2>3. models[i] \in able
    BY <1>3, <2>1 DEF candidates
  <2> HIDE DEF able, name
  <2>4. \E e \in able : e.name = name /\ name = request.preferred
    BY <2>2, <2>3
  <2> QED BY <2>2, <2>4 DEF RightChoice, able, name
<1>6. CASE /\ ~\E i \in DOMAIN models :
                   models[i].name = request.preferred /\ Eligible(models[i], request)
           /\ S = {}
  <2>1. name = None /\ able = {}
    BY <1>3, <1>6 DEF route
  <2> QED BY <2>1 DEF RightChoice
<1>7. CASE /\ ~\E i \in DOMAIN models :
                   models[i].name = request.preferred /\ Eligible(models[i], request)
           /\ S # {}
  <2> DEFINE best == best_candidate(models, request)
  <2>1. name = models[best].name
    BY <1>7 DEF route
  <2>2. /\ best \in S
        /\ \A j \in S \ {best} :
             \/ Weight(models[best]) > Weight(models[j])
             \/ Weight(models[best]) = Weight(models[j]) /\ models[best].name < models[j].name
    BY <1>7, BestCandidate
  <2> HIDE DEF best
  <2>3. models[best] \in able /\ name # None
    BY <1>3, <1>4, <2>1, <2>2 DEF candidates
  <2>4. ASSUME NEW o \in able \ {models[best]}
        PROVE  /\ o.name # request.preferred
               /\ \/ Weight(models[best]) > Weight(o)
                  \/ Weight(models[best]) = Weight(o) /\ models[best].name < o.name
    <3>1. PICK j \in S : o = models[j]
      BY <1>3
    <3>2. j # best
      BY <3>1
    <3>3. o.name # request.preferred
      BY <1>7, <3>1 DEF candidates
    <3> QED BY <2>2, <3>1, <3>2, <3>3
  <2> HIDE DEF able, name, S
  <2>5. \E e \in able :
          /\ e.name = name
          /\ \A o \in able \ {e} :
               /\ o.name # request.preferred
               /\ \/ Weight(e) > Weight(o)
                  \/ Weight(e) = Weight(o) /\ e.name < o.name
    BY <2>1, <2>3, <2>4
  <2> QED BY <2>3, <2>5 DEF RightChoice, able, name
<1> QED BY <1>5, <1>6, <1>7

\* It names a model of the registry, or none.
LEMMA RouteType ==
  ASSUME NEW models, Registry(models), NEW request
  PROVE  route(models, request) \in Nat
<1>1. DOMAIN models = 1..Len(models) /\ \A i \in DOMAIN models : models[i].name \in Nat
  <2>1. \A e \in ToSet(models) : e.name \in Nat
    BY DEF Registry, Sound
  <2> QED BY <2>1 DEF Registry, Lists, ToSet
<1>2. CASE \E i \in DOMAIN models :
              models[i].name = request.preferred /\ Eligible(models[i], request)
  BY <1>1, <1>2 DEF route
<1>3. CASE /\ ~\E i \in DOMAIN models :
                   models[i].name = request.preferred /\ Eligible(models[i], request)
           /\ candidates(models, request) # {}
  <2>1. best_candidate(models, request) \in candidates(models, request)
    BY <1>3, BestCandidate
  <2>2. best_candidate(models, request) \in DOMAIN models
    BY <2>1 DEF candidates
  <2> QED BY <1>1, <1>3, <2>2 DEF route
<1>4. CASE /\ ~\E i \in DOMAIN models :
                   models[i].name = request.preferred /\ Eligible(models[i], request)
           /\ candidates(models, request) = {}
  BY <1>4 DEF route, None
<1> QED BY <1>2, <1>3, <1>4

\* The models that are built in, and those of any file.
LEMMA RegistryLoaded ==
  ASSUME NEW s \in Setups
  PROVE  Registry(load_default_registry(s.file).models)
<1> DEFINE list == s.file[1]
<1>1. CASE s.file = <<>>
  <2> DEFINE b == builtin_default_registry
  <2>1. /\ Len(b) = 3 /\ DOMAIN b = 1..3 /\ b \in Seq(ToSet(b))
        /\ b[1].name = 2 /\ b[2].name = 1 /\ b[3].name = 3
        /\ b[1].priority = 25 /\ b[2].priority = 20 /\ b[3].priority = 20
        /\ b[1].capabilities = {"general", "reasoning", "document_analysis"}
        /\ b[2].capabilities = {"coding"} /\ b[3].capabilities = {"vision"}
    <3>1. Len(b) = 3 /\ DOMAIN b = 1..3
      BY DEF builtin_default_registry
    <3>2. b[1].name = 2 /\ b[2].name = 1 /\ b[3].name = 3
      BY DEF builtin_default_registry
    <3>3. b[1].priority = 25 /\ b[2].priority = 20 /\ b[3].priority = 20
      BY DEF builtin_default_registry
    <3>4. /\ b[1].capabilities = {"general", "reasoning", "document_analysis"}
          /\ b[2].capabilities = {"coding"} /\ b[3].capabilities = {"vision"}
      BY DEF builtin_default_registry
    <3>5. b \in Seq(ToSet(b))
      <4>1. \A i \in 1..3 : b[i] \in ToSet(b)
        BY <3>1 DEF ToSet
      <4>2. b = << b[1], b[2], b[3] >>
        BY DEF builtin_default_registry
      <4> HIDE DEF b
      <4>3. b[1] \in ToSet(b) /\ b[2] \in ToSet(b) /\ b[3] \in ToSet(b)
        BY <4>1
      <4>4. \A x, y, z \in ToSet(b) : <<x, y, z>> \in Seq(ToSet(b))
        OBVIOUS
      <4> QED BY <4>2, <4>3, <4>4
    <3> QED BY <3>1, <3>2, <3>3, <3>4, <3>5
  <2>2. /\ IsFiniteSet({"coding"}) /\ IsFiniteSet({"vision"})
        /\ IsFiniteSet({"general", "reasoning", "document_analysis"})
    <3>1. IsFiniteSet({"coding"}) /\ IsFiniteSet({"vision"}) /\ IsFiniteSet({"general"})
      BY FS_Singleton
    <3>2. IsFiniteSet({"general"} \cup {"reasoning"})
      BY <3>1, FS_AddElement
    <3>3. IsFiniteSet(({"general"} \cup {"reasoning"}) \cup {"document_analysis"})
      BY <3>2, FS_AddElement
    <3>4. ({"general"} \cup {"reasoning"}) \cup {"document_analysis"}
            = {"general", "reasoning", "document_analysis"}
      OBVIOUS
    <3> QED BY <3>1, <3>3, <3>4
  <2> HIDE DEF b
  <2>3. \A i \in 1..3 : Sound(b[i])
    <3>1. \A i \in 1..3 : i = 1 \/ i = 2 \/ i = 3
      OBVIOUS
    <3>2. Sound(b[1]) /\ Sound(b[2]) /\ Sound(b[3])
      BY <2>1, <2>2 DEF Sound, None
    <3> QED BY <3>1, <3>2
  <2>4. \A i, j \in 1..3 : i # j => b[i].name # b[j].name
    BY <2>1
  <2>5. Registry(b)
    BY <2>1, <2>3, <2>4 DEF Registry, Lists, ToSet
  <2> QED BY <1>1, <2>5 DEF load_default_registry, b
<1>2. CASE s.file # <<>> /\ \E i \in DOMAIN list : ~list[i].valid
  <2>1. load_default_registry(s.file).models = <<>>
    BY <1>2 DEF load_default_registry
  <2>2. Lists(<<>>, {})
    BY DEF Lists
  <2> QED BY <2>1, <2>2, RegistryOf
<1>3. CASE s.file # <<>> /\ ~\E i \in DOMAIN list : ~list[i].valid
  <2> DEFINE E == ToSet(list)
  <2>1. Entries(list)
    BY <1>3, ModelsAssumption DEF ModelsAssumption
  <2>2. list \in Seq(E)
    BY <2>1 DEF Entries
  <2>3. \A e \in E : Sound(e)
    BY <1>3, <2>1 DEF Entries, Sound, ToSet
  <2>4. load_default_registry(s.file).models = FoldLeft(register, <<>>, list)
    BY <1>3 DEF load_default_registry
  <2> HIDE DEF E, list
  <2>5. Lists(FoldLeft(register, <<>>, list), E)
    BY <2>2, Loaded
  <2> QED BY <2>3, <2>4, <2>5, RegistryOf
<1> QED BY <1>1, <1>2, <1>3

-----------------------------------------------------------------------------
(* The invariant *)

Pieces   == {"stream", "generate", "thoughts"} \X Kinds
Stages == {"none", "queued", "sent", "answered"}
States   == {"none", "reachable", "unavailable", "timeout", "error", "no model",
             "bad response", "alien", "500"}

Answer ==
  [pc : Calling \cup {"idle", "done"}, type : TaskTypes, mode : {"direct", "synthesis"},
   model : Nat, content : Seq(Pieces), thinking : BOOLEAN, shown : Seq(Pieces),
   status : {"none", "error", "failed", "complete"}]

OneCall(content) == \A i, j \in DOMAIN content : content[i][1] = content[j][1]

\* Of a text that still comes, what is shown is the text, or its end after the
\* thoughts, or its beginning before them.
ShownFits(shown, content) ==
  /\ ~Has(content, "close") =>
       /\ Len(shown) <= Len(content) /\ SubSeq(content, 1, Len(shown)) = shown
       /\ ~Has(content, "open") => shown = content
  /\ (Has(content, "close") /\ AfterClose(content) # <<>>) => shown = AfterClose(content)

\* What an agent has of an answer, by how far it has come.  A text is that of a
\* stream until the stream is over; whoever asks again starts with no text.
Fine(r) ==
  /\ r \in Answer
  /\ r.pc \in {"idle", "generating"} => r.content = <<>> /\ r.shown = <<>>
  /\ r.pc = "streaming" =>
       /\ \A i \in DOMAIN r.content : r.content[i][1] = "stream"
       /\ ShownFits(r.shown, r.content)
  /\ r.pc # "done" => r.status = "none"
  /\ r.status = "complete" =>
       /\ r.content # <<>> /\ OneCall(r.content) /\ Within(r.shown, r.content)

Poll ==
  [pc : {"idle", "asking", "told"}, asked : Nat, seen : Nat, stored : Nat, at : Nat,
   state : States]

\* What a poller was told it was told in time; what it waits for was asked before
\* now, and an answer that is under way was seen after it was asked.
PollFine(r, sent, time) ==
  /\ r \in Poll
  /\ r.pc = "told" => /\ r.asked <= r.seen /\ r.seen <= r.stored
                      /\ r.stored <= r.at /\ r.at <= r.stored + TTL
  /\ r.pc = "asking" => r.asked <= time
  /\ sent # "none" => r.pc = "asking"
  /\ sent = "answered" => r.asked <= r.seen /\ r.seen <= time

\* What is in the cache expires TTL after it was stored.
CacheFine(r, time) ==
  /\ r \in [until : Int, asked : Nat, seen : Nat, stored : Nat, state : States]
  /\ r.until # -1 => /\ r.asked <= r.seen /\ r.seen <= r.stored /\ r.stored <= time
                      /\ r.until = r.stored + TTL

ChoiceFine(r, models) ==
  /\ r \in [pc : {"idle", "told"}, request : Requests \cup {Plain("chat")}, model : Nat]
  /\ r.pc = "told" => r.model = route(models, r.request)

NetFine ==
  /\ net \in [Everyone -> Stages]
  /\ IsFiniteSet(Pool) /\ Cardinality(Pool) <= PoolSize

ModelsInv ==
  /\ cast \subseteq Everyone /\ up \in BOOLEAN /\ now \in 0..MaxTime
  /\ Registry(registry.models)
  /\ NetFine
  /\ agent \in [Agents -> Answer] /\ \A a \in Agents : Fine(agent[a])
  /\ poll \in [Pollers -> Poll] /\ \A p \in Pollers : PollFine(poll[p], net[p], now)
  /\ DOMAIN choice = Askers /\ \A k \in Askers : ChoiceFine(choice[k], registry.models)
  /\ CacheFine(cache, now)

-----------------------------------------------------------------------------
(* Texts *)

\* The end of a text, after its first closing tag.
LEMMA Ending ==
  ASSUME NEW content \in Seq(Pieces), Has(content, "close")
  PROVE  /\ AfterClose(content) \in Seq(Pieces)
         /\ OneCall(content) => OneCall(AfterClose(content))
<1> DEFINE n == Len(content)
           Closes(i) == content[i][2] = "close" /\ \A j \in 1..(i - 1) : content[j][2] # "close"
           closing == {i \in Nat : i \in 1..n /\ content[i][2] = "close"}
           first == First(content, "close")
           ending == AfterClose(content)
<1>1. n \in Nat /\ DOMAIN content = 1..n /\ \A i \in 1..n : content[i] \in Pieces
  OBVIOUS
<1>2. PICK k \in closing : \A m \in closing : k <= m
  <2>1. closing # {}
    BY <1>1 DEF Has
  <2>2. closing \in SUBSET Nat
    OBVIOUS
  <2> HIDE DEF closing
  <2> QED BY <2>1, <2>2, LeastNumber
<1>3. k \in DOMAIN content /\ Closes(k)
  <2>1. k \in 1..n /\ content[k][2] = "close"
    OBVIOUS
  <2>2. ASSUME NEW j \in 1..(k - 1), content[j][2] = "close"
        PROVE  FALSE
    <3>1. j \in closing /\ ~(k <= j)
      BY <1>1, <2>1, <2>2
    <3> QED BY <1>2, <3>1
  <2> QED BY <1>1, <2>1, <2>2
<1>4. first \in DOMAIN content
  <2>1. first = CHOOSE i \in DOMAIN content : Closes(i)
    BY DEF First
  <2> HIDE DEF Closes, first
  <2> QED BY <1>3, <2>1
<1>5. ending = SubSeq(content, first + 1, n)
  BY DEF AfterClose
<1> HIDE DEF first, n
<1>6. first \in 1..n /\ \A i \in (first + 1)..n : content[i] \in Pieces
  BY <1>1, <1>4
<1>7. /\ ending \in Seq(Pieces)
      /\ Len(ending) = IF first + 1 <= n THEN n - (first + 1) + 1 ELSE 0
      /\ \A i \in 1..n - (first + 1) + 1 : ending[i] = content[(first + 1) + i - 1]
  <2>1. first + 1 \in Int /\ n \in Int
    BY <1>1, <1>6
  <2> HIDE DEF ending
  <2> QED BY <1>5, <1>6, <2>1, SubSeqProperties
<1>8. ASSUME NEW i \in DOMAIN ending
      PROVE  \E k2 \in DOMAIN content : ending[i] = content[k2]
  <2>1. i \in 1..Len(ending)
    BY <1>7
  <2>2. i \in 1..n - (first + 1) + 1 /\ (first + 1) + i - 1 \in 1..n
    BY <1>1, <1>6, <1>7, <2>1
  <2> QED BY <1>1, <1>7, <2>2
<1>9. ASSUME OneCall(content)
      PROVE  OneCall(ending)
  <2> HIDE DEF ending
  <2> QED BY <1>8, <1>9 DEF OneCall
<1> QED BY <1>7, <1>9

\* Nothing is within every text, and a text within itself.
LEMMA WithinItself ==
  ASSUME NEW content \in Seq(Pieces)
  PROVE  Within(<<>>, content) /\ Within(content, content)
<1> DEFINE n == Len(content)
<1>1. n \in Nat
  OBVIOUS
<1>2. SubSeq(content, 1, n) = content
  OBVIOUS
<1>3. SubSeq(content, 1, 0) = <<>>
  BY SubSeqEmpty
<1>4. Within(<<>>, content)
  <2>1. 0 \in 0..(n - Len(<<>>)) /\ 0 + Len(<<>>) = 0 /\ 0 + 1 = 1
    BY <1>1
  <2>2. SubSeq(content, 0 + 1, 0 + Len(<<>>)) = <<>>
    BY <1>3, <2>1
  <2> HIDE DEF n
  <2> QED BY <2>1, <2>2 DEF Within, n
<1>5. Within(content, content)
  <2>1. 0 \in 0..(n - n) /\ 0 + n = n /\ 0 + 1 = 1
    BY <1>1
  <2>2. SubSeq(content, 0 + 1, 0 + n) = content
    BY <1>2, <2>1
  <2> QED BY <2>1, <2>2 DEF Within
<1> QED BY <1>4, <1>5

\* What was shown of a stream is in the answer it comes to.
LEMMA ShownIsWithin ==
  ASSUME NEW content \in Seq(Pieces), NEW shown \in Seq(Pieces), NEW mode,
         ShownFits(shown, content), Clean(mode, content) # <<>>
  PROVE  Within(shown, Clean(mode, content))
<1>1. CASE Has(content, "close")
  <2>1. Clean(mode, content) = AfterClose(content) /\ shown = AfterClose(content)
    BY <1>1 DEF Clean, ShownFits
  <2> QED BY <1>1, <2>1, WithinItself, Ending
<1>2. CASE ~Has(content, "close")
  <2>1. Clean(mode, content) = content
    BY <1>2 DEF Clean
  <2>2. Len(shown) <= Len(content) /\ SubSeq(content, 1, Len(shown)) = shown
    BY <1>2 DEF ShownFits
  <2>3. 0 \in 0..(Len(content) - Len(shown)) /\ 0 + 1 = 1 /\ 0 + Len(shown) = Len(shown)
    BY <2>2
  <2>4. SubSeq(content, 0 + 1, 0 + Len(shown)) = shown
    BY <2>2, <2>3
  <2> QED BY <2>1, <2>3, <2>4 DEF Within
<1> QED BY <1>1, <1>2

\* The text without its thoughts is a text of the same call.
LEMMA Cleaned ==
  ASSUME NEW content \in Seq(Pieces), NEW mode
  PROVE  /\ Clean(mode, content) \in Seq(Pieces)
         /\ OneCall(content) => OneCall(Clean(mode, content))
<1>1. <<>> \in Seq(Pieces) /\ OneCall(<<>>)
  BY DEF OneCall
<1> QED BY <1>1, Ending DEF Clean

\* Another chunk of a stream, and what is shown then.
LEMMA Shows ==
  ASSUME NEW content \in Seq(Pieces), NEW shown \in Seq(Pieces), ShownFits(shown, content),
         NEW kind \in Kinds
  PROVE  LET new == Append(content, <<"stream", kind>>) IN
         /\ new \in Seq(Pieces) /\ Emitted(shown, new) \in Seq(Pieces)
         /\ ShownFits(Emitted(shown, new), new)
         /\ (\A i \in DOMAIN content : content[i][1] = "stream") =>
              \A i \in DOMAIN new : new[i][1] = "stream"
<1> DEFINE new == Append(content, <<"stream", kind>>)
           n == Len(content)
           now_shown == Emitted(shown, new)
<1>1. <<"stream", kind>> \in Pieces
  BY DEF Pieces
<1>2. /\ new \in Seq(Pieces) /\ Len(new) = n + 1 /\ n \in Nat
      /\ \A i \in 1..n : new[i] = content[i]
      /\ new[n + 1] = <<"stream", kind>>
  BY <1>1, AppendProperties
<1>3. \A k : Has(content, k) => Has(new, k)
  <2>1. DOMAIN content = 1..n /\ DOMAIN new = 1..(n + 1)
    BY <1>2
  <2> HIDE DEF new
  <2> QED BY <1>2, <2>1 DEF Has
<1>4. (\A i \in DOMAIN content : content[i][1] = "stream") =>
        \A i \in DOMAIN new : new[i][1] = "stream"
  <2>1. DOMAIN content = 1..n /\ DOMAIN new = 1..(n + 1)
    BY <1>2
  <2>2. \A i \in 1..(n + 1) : i = n + 1 \/ i \in 1..n
    BY <1>2
  <2> HIDE DEF new, n
  <2> QED BY <1>2, <2>1, <2>2
<1> HIDE DEF new
<1>5. CASE Has(new, "close")
  <2>1. AfterClose(new) \in Seq(Pieces)
    BY <1>2, <1>5, Ending
  <2>2. now_shown \in Seq(Pieces)
    BY <1>5, <2>1 DEF Emitted
  <2>3. ShownFits(now_shown, new)
    BY <1>5 DEF Emitted, ShownFits
  <2> QED BY <1>2, <1>4, <2>2, <2>3 DEF new
<1>6. CASE ~Has(new, "close") /\ Has(new, "open")
  <2>1. now_shown = shown
    BY <1>6 DEF Emitted
  <2>2. Len(shown) <= n /\ SubSeq(content, 1, Len(shown)) = shown /\ Len(shown) \in Nat
    BY <1>3, <1>6 DEF ShownFits
  <2>3. SubSeq(new, 1, Len(shown)) = SubSeq(content, 1, Len(shown))
    <3> DEFINE l == Len(shown)
    <3>1. l \in Nat /\ l <= n /\ \A i \in 1..l : i \in 1..n
      BY <1>2, <2>2
    <3> HIDE DEF l
    <3>2. \A i \in 1..l : new[i] \in Pieces /\ content[i] \in Pieces /\ new[i] = content[i]
      BY <1>2, <3>1
    <3>3. /\ SubSeq(new, 1, l) \in Seq(Pieces)
          /\ Len(SubSeq(new, 1, l)) = IF 1 <= l THEN l - 1 + 1 ELSE 0
          /\ \A i \in 1..l - 1 + 1 : SubSeq(new, 1, l)[i] = new[1 + i - 1]
      BY <3>1, <3>2, SubSeqProperties
    <3>4. /\ SubSeq(content, 1, l) \in Seq(Pieces)
          /\ Len(SubSeq(content, 1, l)) = IF 1 <= l THEN l - 1 + 1 ELSE 0
          /\ \A i \in 1..l - 1 + 1 : SubSeq(content, 1, l)[i] = content[1 + i - 1]
      BY <3>1, <3>2, SubSeqProperties
    <3>5. (IF 1 <= l THEN l - 1 + 1 ELSE 0) = l /\ l - 1 + 1 = l
          /\ \A i \in 1..l : 1 + i - 1 = i
      BY <3>1
    <3> DEFINE a == SubSeq(new, 1, l)
               b == SubSeq(content, 1, l)
    <3>6. /\ a \in Seq(Pieces) /\ b \in Seq(Pieces) /\ Len(a) = l /\ Len(b) = l
          /\ \A i \in 1..l : a[i] = b[i]
      BY <3>2, <3>3, <3>4, <3>5
    <3> HIDE DEF a, b
    <3>7. a = b
      BY <3>6
    <3> QED BY <3>7 DEF a, b, l
  <2>4. Len(shown) <= Len(new)
    BY <1>2, <2>2
  <2>5. ShownFits(shown, new)
    BY <1>6, <2>2, <2>3, <2>4 DEF ShownFits
  <2> QED BY <1>2, <1>4, <2>1, <2>5 DEF new
<1>7. CASE ~Has(new, "close") /\ ~Has(new, "open")
  <2>1. now_shown = new
    BY <1>7 DEF Emitted
  <2>2. SubSeq(new, 1, Len(new)) = new /\ Len(new) <= Len(new)
    BY <1>2
  <2>3. ShownFits(new, new)
    BY <1>7, <2>2 DEF ShownFits
  <2> QED BY <1>2, <1>4, <2>1, <2>3 DEF new
<1> QED BY <1>5, <1>6, <1>7

-----------------------------------------------------------------------------
(* The answer of an agent *)

\* The agent has come to r, and its request may be another.
Comes(a, r) ==
  /\ agent' = [agent EXCEPT ![a] = r]
  /\ net' = net \/ \E stage \in {"none", "queued"} : net' = [net EXCEPT ![a] = stage]
  /\ UNCHANGED <<cast, registry, up, now, poll, view, choice, cache>>

LEMMA Settles ==
  ASSUME NEW a, NEW r, Settle(a, r)
  PROVE  Comes(a, r)
BY DEF Settle, Comes

\* An answer that is over; a complete one is what was shown, from one call.
LEMMA DoneFine ==
  ASSUME NEW a \in Agents, agent[a] \in Answer,
         NEW status \in {"error", "failed", "complete"}, NEW content \in Seq(Pieces),
         status = "complete" =>
           content # <<>> /\ OneCall(content) /\ Within(agent[a].shown, content)
  PROVE  Fine(Done(a, status, content))
<1> DEFINE r == Done(a, status, content)
<1>1. r \in Answer
  BY DEF Done, Answer
<1>2. /\ r.pc = "done" /\ r.status = status /\ r.content = content
      /\ r.shown = agent[a].shown
  BY DEF Done, Answer
<1> HIDE DEF r
<1>3. Fine(r)
  BY <1>1, <1>2 DEF Fine
<1> QED BY <1>3 DEF r

\* A text that is over is an answer, or asks for one, or fails.
LEMMA Concludes ==
  ASSUME NEW a \in Agents, agent[a] \in Answer, agent[a].status = "none",
         NEW content \in Seq(Pieces), OneCall(content), NEW thinking,
         LET answer == Clean(agent[a].mode, content) IN
           answer # <<>> => Within(agent[a].shown, answer),
         Conclude(a, content, thinking)
  PROVE  \E r : Fine(r) /\ Comes(a, r)
<1> DEFINE answer == Clean(agent[a].mode, content)
           again == [agent[a] EXCEPT !.pc = "recovering", !.content = <<>>, !.thinking = TRUE]
           over == Done(a, IF answer = <<>> THEN "failed" ELSE "complete", answer)
<1>1. Settle(a, again) \/ Settle(a, over)
  BY DEF Conclude
<1>2. Fine(again)
  <2>1. again \in Answer
    <3>1. <<>> \in Seq(Pieces) /\ "recovering" \in Calling \cup {"idle", "done"}
      BY DEF Calling
    <3> QED BY <3>1 DEF Answer
  <2>2. again.pc = "recovering" /\ again.status = "none"
    BY DEF Answer
  <2> HIDE DEF again
  <2> QED BY <2>1, <2>2 DEF Fine
<1>3. Fine(over)
  <2>1. answer \in Seq(Pieces) /\ OneCall(answer)
    BY Cleaned
  <2>2. CASE answer = <<>>
    <3>1. over = Done(a, "failed", answer)
      BY <2>2
    <3> HIDE DEF answer, over
    <3> QED BY <2>1, <3>1, DoneFine
  <2>3. CASE answer # <<>>
    <3>1. over = Done(a, "complete", answer) /\ Within(agent[a].shown, answer)
      BY <2>3
    <3> HIDE DEF answer, over
    <3> QED BY <2>1, <2>3, <3>1, DoneFine
  <2> QED BY <2>2, <2>3
<1> HIDE DEF again, over
<1> QED BY <1>1, <1>2, <1>3, Settles

\* A generation is a text of one call.
LEMMA GeneratedText ==
  ASSUME NEW reply \in Replies
  PROVE  Generated(reply) \in Seq(Pieces) /\ OneCall(Generated(reply))
<1> DEFINE words == reply.content
           text == [i \in DOMAIN words |-> <<"generate", words[i]>>]
<1>1. /\ words \in Seq(Kinds) /\ Len(words) \in Nat /\ DOMAIN words = 1..Len(words)
      /\ \A i \in DOMAIN words : words[i] \in Kinds
  BY ModelsAssumption DEF ModelsAssumption
<1>2. text \in Seq(Pieces) /\ OneCall(text)
  <2>1. \A i \in DOMAIN words : <<"generate", words[i]>> \in Pieces
    BY <1>1 DEF Pieces
  <2>2. text \in [1..Len(words) -> Pieces]
    BY <1>1, <2>1
  <2>3. text \in Seq(Pieces)
    BY <1>1, <2>2
  <2>4. OneCall(text)
    BY DEF OneCall
  <2> QED BY <2>3, <2>4
<1>3. << <<"generate", "text">> >> \in Seq(Pieces) /\ OneCall(<< <<"generate", "text">> >>)
  <2>1. <<"generate", "text">> \in Pieces
    BY DEF Pieces, Kinds
  <2>2. \A x \in Pieces : <<x>> \in Seq(Pieces) /\ OneCall(<<x>>)
    BY DEF OneCall
  <2> QED BY <2>1, <2>2
<1>4. <<>> \in Seq(Pieces) /\ OneCall(<<>>)
  BY DEF OneCall
<1>5. Generated(reply) \in {text, << <<"generate", "text">> >>, <<>>}
  BY DEF Generated
<1> HIDE DEF text
<1> QED BY <1>2, <1>3, <1>4, <1>5

\* What is recovered is shown.
LEMMA Recovers ==
  ASSUME NEW a \in Agents, agent[a] \in Answer, NEW content \in Seq(Pieces), OneCall(content),
         Recover(a, content)
  PROVE  \E r : Fine(r) /\ Comes(a, r)
<1> DEFINE answer == IF content = <<>> THEN << <<"thoughts", "text">> >> ELSE content
           r == [Done(a, "complete", answer) EXCEPT !.shown = answer]
<1>1. answer \in Seq(Pieces) /\ OneCall(answer) /\ answer # <<>>
  <2>1. <<"thoughts", "text">> \in Pieces
    BY DEF Pieces, Kinds
  <2>2. \A x \in Pieces : <<x>> \in Seq(Pieces) /\ OneCall(<<x>>) /\ <<x>> # <<>>
    BY DEF OneCall
  <2> QED BY <2>1, <2>2
<1> HIDE DEF answer
<1>2. Within(answer, answer)
  BY <1>1, WithinItself
<1>3. r \in Answer
  BY <1>1 DEF Done, Answer
<1>4. r.pc = "done" /\ r.status = "complete" /\ r.content = answer /\ r.shown = answer
  BY DEF Done, Answer
<1>5. Settle(a, r)
  BY DEF Recover, answer
<1> HIDE DEF r
<1>6. Fine(r)
  BY <1>1, <1>2, <1>3, <1>4 DEF Fine
<1> QED BY <1>5, <1>6, Settles

\* Whatever an agent does next, its answer stays fine.
LEMMA AgentStepFine ==
  ASSUME ModelsInv, NEW a \in Agents, AgentStep(a)
  PROVE  \E r : Fine(r) /\ Comes(a, r)
<1>1. /\ agent[a] \in Answer /\ Fine(agent[a]) /\ agent[a].content \in Seq(Pieces)
      /\ agent[a].shown \in Seq(Pieces) /\ agent[a].thinking \in BOOLEAN
  BY DEF ModelsInv, Answer
<1>2. ASSUME NEW status \in {"error", "failed"}
      PROVE  Fine(Done(a, status, <<>>))
  <2>1. <<>> \in Seq(Pieces)
    OBVIOUS
  <2> QED BY <1>1, <2>1, DoneFine
<1>3. CASE Start(a)
  <2>1. PICK type \in TaskTypes, mode \in {"direct", "synthesis"} :
          LET model == RouteOrChat(registry.models, type) IN
          IF Routable(registry) /\ model # None
          THEN Settle(a, [agent[a] EXCEPT !.pc = "streaming", !.type = type,
                                          !.mode = mode, !.model = model])
          ELSE Settle(a, [Done(a, "error", <<>>) EXCEPT !.type = type])
    BY <1>3 DEF Start
  <2> DEFINE model == RouteOrChat(registry.models, type)
             r == [agent[a] EXCEPT !.pc = "streaming", !.type = type,
                                   !.mode = mode, !.model = model]
             over == [Done(a, "error", <<>>) EXCEPT !.type = type]
  <2>2. model \in Nat
    BY RouteType DEF RouteOrChat, ModelsInv
  <2>3. agent[a].content = <<>> /\ agent[a].shown = <<>> /\ agent[a].status = "none"
    BY <1>1, <1>3 DEF Start, Fine
  <2> HIDE DEF model
  <2>4. r \in Answer
    <3>1. "streaming" \in Calling \cup {"idle", "done"}
      BY DEF Calling
    <3> QED BY <1>1, <2>2, <3>1 DEF Answer
  <2>5. /\ r.pc = "streaming" /\ r.content = <<>> /\ r.shown = <<>> /\ r.status = "none"
    BY <1>1, <2>3 DEF Answer
  <2>6. ShownFits(<<>>, <<>>) /\ \A i \in DOMAIN <<>> : <<>>[i][1] = "stream"
    <3>1. ~Has(<<>>, "close") /\ Len(<<>>) = 0 /\ Len(<<>>) <= Len(<<>>)
      BY DEF Has
    <3>2. SubSeq(<<>>, 1, Len(<<>>)) = <<>>
      BY <3>1, SubSeqEmpty
    <3> QED BY <3>1, <3>2 DEF ShownFits
  <2>7. Fine(r)
    <3> HIDE DEF r
    <3> QED BY <2>4, <2>5, <2>6 DEF Fine
  <2>8. Fine(over)
    <3> DEFINE ended == Done(a, "error", <<>>)
    <3>1. Fine(ended) /\ over = [ended EXCEPT !.type = type]
      BY <1>2
    <3>2. ended.pc = "done" /\ ended.status = "error" /\ ended \in Answer
      BY <1>1, <3>1 DEF Fine, Done, Answer
    <3> HIDE DEF ended, over
    <3>3. over \in Answer /\ over.pc = "done" /\ over.status = "error"
      BY <3>1, <3>2 DEF Answer
    <3> HIDE DEF r
    <3> QED BY <3>3 DEF Fine
  <2>9. Settle(a, r) \/ Settle(a, over)
    BY <2>1 DEF model
  <2> HIDE DEF r, over
  <2> QED BY <2>7, <2>8, <2>9, Settles
<1>4. CASE Chunk(a)
  <2>1. PICK kind \in Kinds :
          LET content == Append(agent[a].content, <<"stream", kind>>) IN
          agent' = [agent EXCEPT ![a].content = content,
                                 ![a].shown = Emitted(agent[a].shown, content)]
    BY <1>4 DEF Chunk
  <2> DEFINE new == Append(agent[a].content, <<"stream", kind>>)
             show == Emitted(agent[a].shown, new)
             r == [agent[a] EXCEPT !.content = new, !.shown = show]
  <2>2. agent[a].pc = "streaming"
    BY <1>4 DEF Chunk, Receives
  <2>3. /\ \A i \in DOMAIN agent[a].content : agent[a].content[i][1] = "stream"
        /\ ShownFits(agent[a].shown, agent[a].content)
    BY <1>1, <2>2 DEF Fine
  <2>4. /\ new \in Seq(Pieces) /\ show \in Seq(Pieces) /\ ShownFits(show, new)
        /\ \A i \in DOMAIN new : new[i][1] = "stream"
    BY <1>1, <2>3, Shows
  <2>5. agent' = [agent EXCEPT ![a] = r]
    BY <2>1 DEF ModelsInv
  <2> HIDE DEF new, show
  <2>6. r \in Answer
    BY <1>1, <2>4 DEF Answer
  <2>7. r.pc = "streaming" /\ r.content = new /\ r.shown = show /\ r.status = "none"
    BY <1>1, <2>2 DEF Answer, Fine
  <2> HIDE DEF r
  <2>8. Fine(r)
    BY <2>4, <2>6, <2>7 DEF Fine
  <2> QED BY <1>4, <2>5, <2>8 DEF Chunk, Comes
<1>5. CASE Think(a)
  <2> DEFINE r == [agent[a] EXCEPT !.thinking = TRUE]
  <2>1. agent' = [agent EXCEPT ![a] = r]
    BY <1>5 DEF Think, ModelsInv
  <2>2. r \in Answer
    BY <1>1 DEF Answer
  <2>3. /\ r.pc = agent[a].pc /\ r.content = agent[a].content /\ r.shown = agent[a].shown
        /\ r.status = agent[a].status
    BY <1>1 DEF Answer
  <2> HIDE DEF r
  <2>4. Fine(r)
    BY <1>1, <2>2, <2>3 DEF Fine
  <2> QED BY <1>5, <2>1, <2>4 DEF Think, Comes
<1>6. ASSUME agent[a].pc = "streaming", Conclude(a, agent[a].content, agent[a].thinking)
      PROVE  \E r : Fine(r) /\ Comes(a, r)
  <2>1. /\ \A i \in DOMAIN agent[a].content : agent[a].content[i][1] = "stream"
        /\ ShownFits(agent[a].shown, agent[a].content) /\ agent[a].status = "none"
    BY <1>1, <1>6 DEF Fine
  <2>2. OneCall(agent[a].content)
    BY <2>1 DEF OneCall
  <2>3. LET answer == Clean(agent[a].mode, agent[a].content) IN
          answer # <<>> => Within(agent[a].shown, answer)
    BY <1>1, <2>1, ShownIsWithin
  <2> QED BY <1>1, <1>6, <2>1, <2>2, <2>3, Concludes
<1>7. CASE StreamEnds(a)
  BY <1>6, <1>7 DEF StreamEnds, Receives
<1>8. CASE StreamFails(a)
  <2>1. CASE agent[a].content # <<>>
    BY <1>6, <1>8, <2>1 DEF StreamFails
  <2>2. CASE agent[a].content = <<>>
    <3> DEFINE r == [agent[a] EXCEPT !.pc = "generating"]
    <3>1. agent[a].pc = "streaming" /\ agent[a].status = "none"
          /\ ShownFits(agent[a].shown, agent[a].content)
      BY <1>1, <1>8 DEF StreamFails, Fine
    <3>2. agent[a].shown = <<>>
      <4>1. ~Has(<<>>, "close") /\ ~Has(<<>>, "open")
        BY DEF Has
      <4> QED BY <2>2, <3>1, <4>1 DEF ShownFits
    <3>3. Settle(a, r)
      BY <1>8, <2>2 DEF StreamFails
    <3>4. r \in Answer
      <4>1. "generating" \in Calling \cup {"idle", "done"}
        BY DEF Calling
      <4> QED BY <1>1, <4>1 DEF Answer
    <3>5. r.pc = "generating" /\ r.content = <<>> /\ r.shown = <<>> /\ r.status = "none"
      BY <1>1, <2>2, <3>1, <3>2 DEF Answer
    <3> HIDE DEF r
    <3>6. Fine(r)
      BY <3>4, <3>5 DEF Fine
    <3> QED BY <3>3, <3>6, Settles
  <2> QED BY <2>1, <2>2
<1>9. CASE Generate(a)
  <2>1. PICK reply \in Replies :
          Conclude(a, agent[a].content \o Generated(reply), agent[a].thinking \/ reply.thinking)
    BY <1>9 DEF Generate
  <2>2. agent[a].content = <<>> /\ agent[a].shown = <<>> /\ agent[a].status = "none"
    BY <1>1, <1>9 DEF Generate, Answered, Fine
  <2> DEFINE text == Generated(reply)
  <2>3. text \in Seq(Pieces) /\ OneCall(text)
    BY GeneratedText
  <2> HIDE DEF text
  <2>4. agent[a].content \o text = text
    BY <2>2, <2>3
  <2>5. Conclude(a, text, agent[a].thinking \/ reply.thinking)
    BY <2>1, <2>4 DEF text
  <2>6. LET answer == Clean(agent[a].mode, text) IN
          answer # <<>> => Within(agent[a].shown, answer)
    BY <2>2, <2>3, Cleaned, WithinItself
  <2> QED BY <1>1, <2>2, <2>3, <2>5, <2>6, Concludes
<1>10. CASE GenerateFails(a)
  BY <1>2, <1>10, Settles DEF GenerateFails
<1>11. CASE Recovered(a)
  <2>1. PICK reply \in Replies :
          LET content == Generated(reply) IN
          Recover(a, IF Has(content, "close") THEN AfterClose(content) ELSE content)
    BY <1>11 DEF Recovered
  <2> DEFINE text == Generated(reply)
             kept == IF Has(text, "close") THEN AfterClose(text) ELSE text
  <2>2. text \in Seq(Pieces) /\ OneCall(text)
    BY GeneratedText
  <2>3. kept \in Seq(Pieces) /\ OneCall(kept)
    <3> HIDE DEF text
    <3> QED BY <2>2, Ending
  <2>4. Recover(a, kept)
    BY <2>1
  <2> HIDE DEF kept
  <2> QED BY <1>1, <2>3, <2>4, Recovers
<1>12. CASE RecoverFails(a)
  <2>1. <<>> \in Seq(Pieces) /\ OneCall(<<>>)
    BY DEF OneCall
  <2>2. Recover(a, <<>>)
    BY <1>12 DEF RecoverFails
  <2> QED BY <1>1, <2>1, <2>2, Recovers
<1> QED BY <1>3, <1>4, <1>5, <1>7, <1>8, <1>9, <1>10, <1>11, <1>12 DEF AgentStep

-----------------------------------------------------------------------------
(* The connections *)

\* A request that does not go out takes no connection.
LEMMA NetChanges ==
  ASSUME NetFine, UNCHANGED cast, NEW c \in Everyone,
         NEW stage \in {"none", "queued", "answered"}, net' = [net EXCEPT ![c] = stage]
  PROVE  NetFine'
<1>1. net' \in [Everyone -> Stages]
  BY DEF NetFine, Stages
<1>2. Pool' \in SUBSET Pool
  <2>1. \A x : net'[x] = "sent" /\ x \in Everyone => net[x] = "sent"
    BY DEF NetFine
  <2>2. \A x : x \notin Everyone => net'[x] = net[x]
    BY DEF NetFine
  <2> QED BY <2>1, <2>2 DEF Pool
<1>3. IsFiniteSet(Pool') /\ Cardinality(Pool') <= Cardinality(Pool)
      /\ Cardinality(Pool) <= PoolSize
  BY <1>2, FS_Subset DEF NetFine
<1>4. /\ Cardinality(Pool') \in Nat /\ Cardinality(Pool) \in Nat /\ PoolSize \in Nat
  BY <1>3, FS_CardinalityType, ModelsAssumption DEF NetFine, ModelsAssumption
<1> QED BY <1>1, <1>3, <1>4 DEF NetFine

LEMMA NetStays ==
  ASSUME NetFine, UNCHANGED <<cast, net>>
  PROVE  NetFine'
BY DEF NetFine, Pool

\* A request goes out when there is a connection for it.
LEMMA Connects ==
  ASSUME ModelsInv, NEW c \in cast, Connect(c)
  PROVE  NetFine' /\ net' = [net EXCEPT ![c] = "sent"] /\ net[c] = "queued"
         /\ UNCHANGED <<cast, registry, up, now, agent, poll, view, choice, cache>>
<1>1. /\ net' = [net EXCEPT ![c] = "sent"] /\ net[c] = "queued"
      /\ UNCHANGED <<cast, registry, up, now, agent, poll, view, choice, cache>>
  BY DEF Connect
<1>2. c \in Everyone /\ NetFine
  BY DEF ModelsInv
<1>3. net' \in [Everyone -> Stages]
  BY <1>1, <1>2 DEF NetFine, Stages
<1>4. CASE c \in Viewers
  <2>1. Pool' = Pool
    BY <1>1, <1>2, <1>4 DEF Pool, NetFine
  <2> QED BY <1>1, <1>2, <1>3, <2>1 DEF NetFine
<1>5. CASE c \notin Viewers
  <2>1. Pool' = Pool \cup {c}
    BY <1>1, <1>2, <1>5 DEF Pool, NetFine
  <2>2. Cardinality(Pool) < PoolSize
    BY <1>5 DEF Connect, SlotFor
  <2>3. /\ IsFiniteSet(Pool')
        /\ Cardinality(Pool') = IF c \in Pool THEN Cardinality(Pool) ELSE Cardinality(Pool) + 1
    BY <1>2, <2>1, FS_AddElement DEF NetFine
  <2>4. Cardinality(Pool) \in Nat /\ PoolSize \in Nat
    BY <1>2, FS_CardinalityType, ModelsAssumption DEF NetFine, ModelsAssumption
  <2>5. Cardinality(Pool') <= PoolSize
    BY <2>2, <2>3, <2>4
  <2>6. NetFine'
    BY <1>3, <2>3, <2>5 DEF NetFine
  <2> QED BY <1>1, <2>6
<1> QED BY <1>1, <1>4, <1>5

-----------------------------------------------------------------------------
(* The health of the provider *)

\* Every fault of a poll's request becomes one of the states.
LEMMA FaultsOfPolls ==
  ASSUME NEW p, NEW fault \in Faults(p)
  PROVE  Raised("get", fault) \in States
<1>1. fault \in {"read timeout", "connect timeout", "pool timeout", "refused", "broken",
                 "odd JSON", "404", "500", "400", "error line", "no JSON"}
  <2>1. TimeLimits(p) \subseteq {"read timeout", "connect timeout", "pool timeout"}
    BY DEF TimeLimits
  <2> QED BY <2>1 DEF Faults
<1> QED BY <1>1 DEF Raised, States

\* A poll is told what a good cache holds.
LEMMA Told ==
  ASSUME NEW p \in Pollers, poll \in [Pollers -> Poll], now \in Nat, NEW health,
         NEW asked \in Nat, NEW seen \in Nat, NEW stored \in Nat, NEW state \in States,
         health.asked = asked, health.seen = seen, health.stored = stored,
         health.state = state,
         asked <= seen, seen <= stored, stored <= now, now <= stored + TTL,
         Tell(p, health)
  PROVE  \E r : PollFine(r, "none", now) /\ poll' = [poll EXCEPT ![p] = r]
<1> DEFINE r == [pc |-> "told", asked |-> health.asked, seen |-> health.seen,
                 stored |-> health.stored, at |-> now, state |-> health.state]
<1>1. poll' = [poll EXCEPT ![p] = r]
  BY DEF Tell
<1>2. PollFine(r, "none", now)
  BY DEF PollFine, Poll
<1> QED BY <1>1, <1>2

PollComes(p) ==
  /\ \E r : PollFine(r, net'[p], now) /\ poll' = [poll EXCEPT ![p] = r]
  /\ net' = net \/ \E stage \in {"none", "queued", "answered"} : net' = [net EXCEPT ![p] = stage]
  /\ CacheFine(cache', now)
  /\ UNCHANGED <<cast, registry, up, now, agent, view, choice>>

\* An answer that replaces the one in the cache.
LEMMA Stores ==
  ASSUME ModelsInv, NEW p \in Pollers, poll[p].pc = "asking", NEW seen \in Nat,
         poll[p].asked <= seen, seen <= now, NEW state \in States, Store(p, seen, state)
  PROVE  PollComes(p)
<1> DEFINE asked == poll[p].asked
           health == [until |-> now + TTL, asked |-> asked, seen |-> seen,
                      stored |-> now, state |-> state]
<1>1. now \in Nat /\ TTL \in Nat /\ asked \in Nat /\ poll \in [Pollers -> Poll]
  BY ModelsAssumption DEF ModelsInv, ModelsAssumption, Poll
<1>2. /\ cache' = health /\ Tell(p, health) /\ net' = [net EXCEPT ![p] = "none"]
      /\ UNCHANGED <<cast, registry, up, now, agent, view, choice>>
  BY DEF Store
<1>3. /\ health.asked = asked /\ health.seen = seen /\ health.stored = now
      /\ health.state = state /\ health.until = now + TTL
      /\ asked <= seen /\ now <= now /\ now <= now + TTL
  BY <1>1
<1>4. CacheFine(health, now)
  BY <1>1 DEF CacheFine
<1>5. net'[p] = "none"
  BY <1>2 DEF ModelsInv, NetFine, Everyone
<1> HIDE DEF health, asked
<1>6. \E r : PollFine(r, "none", now) /\ poll' = [poll EXCEPT ![p] = r]
  BY <1>1, <1>2, <1>3, Told
<1> QED BY <1>2, <1>4, <1>5, <1>6 DEF PollComes

LEMMA PollStepFine ==
  ASSUME ModelsInv, NEW p \in Pollers, PollStep(p)
  PROVE  PollComes(p)
<1>1. /\ now \in Nat /\ TTL \in Nat /\ poll \in [Pollers -> Poll] /\ poll[p] \in Poll
      /\ PollFine(poll[p], net[p], now) /\ CacheFine(cache, now)
      /\ poll[p].asked \in Nat /\ poll[p].seen \in Nat /\ poll[p].state \in States
  BY ModelsAssumption DEF ModelsInv, ModelsAssumption, Poll
<1>2. p \in Everyone /\ net \in [Everyone -> Stages]
  BY DEF Everyone, ModelsInv, NetFine
<1>3. CASE PollCached(p)
  <2>1. /\ poll[p].pc # "asking" /\ ~is_stale(cache) /\ Tell(p, cache)
        /\ UNCHANGED <<cast, registry, up, now, net, agent, view, choice, cache>>
    BY <1>3 DEF PollCached
  <2>2. /\ cache.asked \in Nat /\ cache.seen \in Nat /\ cache.stored \in Nat
        /\ cache.state \in States /\ cache.until \in Int
    BY <1>1 DEF CacheFine
  <2>3. now <= cache.until
    BY <1>1, <2>1, <2>2 DEF is_stale
  <2>4. cache.until # -1
    BY <1>1, <2>3
  <2>5. /\ cache.asked <= cache.seen /\ cache.seen <= cache.stored
        /\ cache.stored <= now /\ now <= cache.stored + TTL
    BY <1>1, <2>3, <2>4 DEF CacheFine
  <2>6. \E r : PollFine(r, "none", now) /\ poll' = [poll EXCEPT ![p] = r]
    BY <1>1, <2>1, <2>2, <2>5, Told
  <2>7. net'[p] = "none"
    BY <1>1, <1>2, <2>1 DEF PollFine, Stages
  <2>8. net' = net /\ cache' = cache
    BY <2>1
  <2> QED BY <1>1, <2>1, <2>6, <2>7, <2>8 DEF PollComes
<1>4. CASE PollAsks(p)
  <2> DEFINE r == [NotAsked EXCEPT !.pc = "asking", !.asked = now]
  <2>1. /\ poll' = [poll EXCEPT ![p] = r] /\ net' = [net EXCEPT ![p] = "queued"]
        /\ UNCHANGED <<cast, registry, up, now, agent, view, choice, cache>>
    BY <1>4 DEF PollAsks
  <2>2. net'[p] = "queued" /\ cache' = cache
    BY <1>2, <2>1
  <2>3. r \in Poll /\ r.pc = "asking" /\ r.asked = now
    BY <1>1 DEF Poll, NotAsked, States
  <2> HIDE DEF r
  <2>4. PollFine(r, "queued", now)
    BY <1>1, <2>3 DEF PollFine
  <2> QED BY <1>1, <2>1, <2>2, <2>4 DEF PollComes
<1>5. CASE HealthServed(p)
  <2> DEFINE r == [poll[p] EXCEPT !.seen = now, !.state = "reachable"]
  <2>1. /\ poll[p].pc = "asking" /\ net' = [net EXCEPT ![p] = "answered"]
        /\ UNCHANGED <<cast, registry, up, now, agent, view, choice, cache>>
    BY <1>5 DEF HealthServed
  <2>2. poll' = [poll EXCEPT ![p] = r]
    BY <1>1, <1>5 DEF HealthServed
  <2>3. net'[p] = "answered" /\ cache' = cache
    BY <1>2, <2>1
  <2>4. poll[p].asked <= now
    BY <1>1, <2>1 DEF PollFine
  <2>5. r \in Poll
    BY <1>1 DEF Poll, States
  <2>6. r.pc = "asking" /\ r.asked = poll[p].asked /\ r.seen = now
    BY <1>1, <2>1 DEF Poll
  <2> HIDE DEF r
  <2>7. PollFine(r, "answered", now)
    BY <1>1, <2>4, <2>5, <2>6 DEF PollFine
  <2> QED BY <1>1, <2>1, <2>2, <2>3, <2>7 DEF PollComes
<1>6. CASE HealthArrives(p)
  <2>1. net[p] = "answered" /\ Store(p, poll[p].seen, poll[p].state)
    BY <1>6 DEF HealthArrives
  <2>2. poll[p].pc = "asking" /\ poll[p].asked <= poll[p].seen /\ poll[p].seen <= now
    BY <1>1, <2>1 DEF PollFine
  <2> QED BY <1>1, <2>1, <2>2, Stores
<1>7. ASSUME Faults(p) # {}
      PROVE  poll[p].pc = "asking" /\ poll[p].asked <= now
  <2>1. net[p] # "none"
    BY <1>7 DEF Faults, TimeLimits
  <2> QED BY <1>1, <2>1 DEF PollFine
<1>8. CASE HealthFails(p)
  <2>1. PICK fault \in Faults(p) : Store(p, now, Raised("get", fault))
    BY <1>8 DEF HealthFails
  <2>2. Raised("get", fault) \in States
    BY FaultsOfPolls
  <2>3. poll[p].pc = "asking" /\ poll[p].asked <= now /\ now <= now
    BY <1>1, <1>7
  <2> QED BY <1>1, <2>1, <2>2, <2>3, Stores
<1>9. CASE HealthBreaks(p)
  <2> DEFINE r == [NotAsked EXCEPT !.pc = "told", !.asked = now, !.seen = now,
                                   !.stored = now, !.at = now, !.state = "500"]
  <2>1. /\ poll' = [poll EXCEPT ![p] = r] /\ net' = [net EXCEPT ![p] = "none"]
        /\ UNCHANGED <<cast, registry, up, now, agent, view, choice, cache>>
    BY <1>9 DEF HealthBreaks
  <2>2. net'[p] = "none" /\ cache' = cache
    BY <1>2, <2>1
  <2>3. /\ r \in Poll /\ r.pc = "told"
        /\ r.asked = now /\ r.seen = now /\ r.stored = now /\ r.at = now
    BY <1>1 DEF Poll, NotAsked, States
  <2> HIDE DEF r
  <2>4. PollFine(r, "none", now)
    BY <1>1, <2>3 DEF PollFine
  <2> QED BY <1>1, <2>1, <2>2, <2>4 DEF PollComes
<1> QED BY <1>3, <1>4, <1>5, <1>6, <1>8, <1>9 DEF PollStep

-----------------------------------------------------------------------------
(* Invariance *)

LEMMA ModelsInit ==
  ASSUME Init
  PROVE  ModelsInv
<1>1. PICK s \in Setups : cast = s.cast /\ registry = load_default_registry(s.file)
  BY DEF Init
<1>2. cast \subseteq Everyone /\ up \in BOOLEAN /\ now \in 0..MaxTime /\ now = 0
  BY <1>1, ModelsAssumption DEF Init, ModelsAssumption
<1>3. Registry(registry.models)
  BY <1>1, RegistryLoaded
<1>4. NetFine
  <2>1. net \in [Everyone -> Stages] /\ Pool = {}
    BY <1>2 DEF Init, Stages, Pool
  <2>2. IsFiniteSet({}) /\ Cardinality({}) = 0 /\ 0 <= PoolSize
    BY FS_EmptySet, ModelsAssumption DEF ModelsAssumption
  <2> QED BY <2>1, <2>2 DEF NetFine
<1>5. NoAnswer \in Answer /\ Fine(NoAnswer)
  <2>1. <<>> \in Seq(Pieces)
    OBVIOUS
  <2>2. NoAnswer \in Answer
    BY <2>1 DEF NoAnswer, Answer, None, TaskTypes
  <2>3. /\ NoAnswer.pc = "idle" /\ NoAnswer.status = "none"
        /\ NoAnswer.content = <<>> /\ NoAnswer.shown = <<>>
    BY DEF NoAnswer
  <2> QED BY <2>2, <2>3 DEF Fine
<1>6. NotAsked \in Poll /\ PollFine(NotAsked, "none", now)
  BY DEF NotAsked, Poll, States, PollFine
<1>7. /\ poll \in [Pollers -> Poll] /\ \A p \in Pollers : PollFine(poll[p], net[p], now)
      /\ agent \in [Agents -> Answer] /\ \A a \in Agents : Fine(agent[a])
  BY <1>5, <1>6 DEF Init, Everyone
<1>8. CacheFine(cache, now)
  BY DEF Init, NoCache, CacheFine, States
<1>9. DOMAIN choice = Askers /\ \A k \in Askers : ChoiceFine(choice[k], registry.models)
  <2> DEFINE r == [pc |-> "idle", request |-> Plain("chat"), model |-> None]
  <2>1. ChoiceFine(r, registry.models)
    BY DEF ChoiceFine, None
  <2> HIDE DEF r
  <2>2. choice = [k \in Askers |-> r]
    BY DEF Init, r
  <2> QED BY <2>1, <2>2
<1> QED BY <1>2, <1>3, <1>4, <1>7, <1>8, <1>9 DEF ModelsInv

\* Time passes for a poll and for the cache.
LEMMA Later ==
  ASSUME NEW time \in Nat
  PROVE  /\ \A r, stage : PollFine(r, stage, time) => PollFine(r, stage, time + 1)
         /\ \A r : CacheFine(r, time) => CacheFine(r, time + 1)
<1>1. ASSUME NEW r, NEW stage, PollFine(r, stage, time)
      PROVE  PollFine(r, stage, time + 1)
  <2>1. r \in Poll /\ r.asked \in Nat /\ r.seen \in Nat
    BY <1>1 DEF PollFine, Poll
  <2> QED BY <1>1, <2>1 DEF PollFine
<1>2. ASSUME NEW r, CacheFine(r, time)
      PROVE  CacheFine(r, time + 1)
  <2>1. r.stored \in Nat
    BY <1>2 DEF CacheFine
  <2> QED BY <1>2, <2>1 DEF CacheFine
<1> QED BY <1>1, <1>2

LEMMA ModelsNext ==
  ASSUME ModelsInv, [Next]_vars
  PROVE  ModelsInv'
<1> USE DEF ModelsInv
<1>1. CASE UNCHANGED vars
  BY <1>1, NetStays DEF vars
<1>2. CASE Flip
  BY <1>2, NetStays DEF Flip
<1>3. CASE Tick
  <2>1. /\ now' = now + 1 /\ now' \in 0..MaxTime /\ now \in Nat
        /\ UNCHANGED <<cast, registry, up, net, agent, poll, view, choice, cache>>
    BY <1>3, ModelsAssumption DEF Tick, ModelsAssumption
  <2>2. NetFine'
    BY <2>1, NetStays
  <2>3. \A p \in Pollers : PollFine(poll[p], net[p], now')
    BY <2>1, Later
  <2>4. CacheFine(cache, now')
    BY <2>1, Later
  <2> QED BY <2>1, <2>2, <2>3, <2>4
<1>4. ASSUME NEW c \in cast, Connect(c)
      PROVE  ModelsInv'
  <2>1. /\ NetFine' /\ net' = [net EXCEPT ![c] = "sent"] /\ net[c] = "queued"
        /\ UNCHANGED <<cast, registry, up, now, agent, poll, view, choice, cache>>
    BY <1>4, Connects
  <2>2. ASSUME NEW p \in Pollers
        PROVE  PollFine(poll[p], net'[p], now)
    <3>1. net'[p] = net[p] \/ (net'[p] = "sent" /\ net[p] = "queued")
      BY <2>1 DEF NetFine, Everyone
    <3> QED BY <3>1 DEF PollFine
  <2> QED BY <2>1, <2>2
<1>5. ASSUME NEW a \in Agents \cap cast, AgentStep(a)
      PROVE  ModelsInv'
  <2>1. PICK r : Fine(r) /\ Comes(a, r)
    BY <1>5, AgentStepFine
  <2>2. agent' \in [Agents -> Answer] /\ \A b \in Agents : Fine(agent'[b])
    BY <2>1 DEF Comes, Fine
  <2>3. a \in Everyone
    BY DEF Everyone
  <2>4. NetFine'
    BY <2>1, <2>3, NetStays, NetChanges DEF Comes
  <2>5. \A p \in Pollers : p # a
    BY ModelsAssumption DEF ModelsAssumption
  <2>6. \A p \in Pollers : net'[p] = net[p]
    BY <2>1, <2>5 DEF Comes, NetFine, Everyone
  <2> QED BY <2>1, <2>2, <2>4, <2>6 DEF Comes
<1>6. ASSUME NEW p \in Pollers \cap cast, PollStep(p)
      PROVE  ModelsInv'
  <2>1. PollComes(p)
    BY <1>6, PollStepFine
  <2>2. PICK r : PollFine(r, net'[p], now) /\ poll' = [poll EXCEPT ![p] = r]
    BY <2>1 DEF PollComes
  <2>3. p \in Everyone
    BY DEF Everyone
  <2>4. NetFine'
    BY <2>1, <2>3, NetStays, NetChanges DEF PollComes
  <2>5. poll' \in [Pollers -> Poll]
    BY <2>2 DEF PollFine
  <2>6. ASSUME NEW q \in Pollers
        PROVE  PollFine(poll'[q], net'[q], now)
    <3>1. CASE q = p
      BY <2>2, <3>1
    <3>2. CASE q # p
      <4>1. net'[q] = net[q] /\ poll'[q] = poll[q]
        BY <2>1, <2>2, <3>2 DEF PollComes, NetFine, Everyone
      <4> QED BY <4>1
    <3> QED BY <3>1, <3>2
  <2> QED BY <2>1, <2>4, <2>5, <2>6 DEF PollComes
<1>7. ASSUME NEW v \in Viewers \cap cast, ViewStep(v)
      PROVE  ModelsInv'
  <2>1. /\ UNCHANGED <<cast, registry, up, now, agent, poll, choice, cache>>
        /\ net' = net \/ \E stage \in {"none", "queued"} : net' = [net EXCEPT ![v] = stage]
    BY <1>7 DEF ViewStep, View, BodyRead, Described, VisionFails, Reply
  <2>2. v \in Everyone /\ \A p \in Pollers : p # v
    BY ModelsAssumption DEF ModelsAssumption, Everyone
  <2>3. NetFine'
    BY <2>1, <2>2, NetStays, NetChanges
  <2>4. \A p \in Pollers : net'[p] = net[p]
    BY <2>1, <2>2 DEF NetFine, Everyone
  <2> QED BY <2>1, <2>3, <2>4
<1>8. ASSUME NEW k \in Askers \cap cast, Ask(k)
      PROVE  ModelsInv'
  <2>1. PICK request \in Requests :
          choice' = [choice EXCEPT ![k] = [pc |-> "told", request |-> request,
                                           model |-> route(registry.models, request)]]
    BY <1>8 DEF Ask
  <2> DEFINE r == [pc |-> "told", request |-> request, model |-> route(registry.models, request)]
  <2>2. ChoiceFine(r, registry.models)
    <3>1. route(registry.models, request) \in Nat
      BY RouteType
    <3> QED BY <3>1 DEF ChoiceFine
  <2>3. UNCHANGED <<cast, registry, up, now, net, agent, poll, view, cache>>
    BY <1>8 DEF Ask
  <2> HIDE DEF r
  <2>4. choice' = [choice EXCEPT ![k] = r]
    BY <2>1 DEF r
  <2>5. DOMAIN choice' = Askers /\ \A j \in Askers : ChoiceFine(choice'[j], registry.models)
    BY <2>2, <2>4
  <2>6. NetFine'
    BY <2>3, NetStays
  <2> QED BY <2>3, <2>5, <2>6
<1> QED BY <1>1, <1>2, <1>3, <1>4, <1>5, <1>6, <1>7, <1>8 DEF Next

\* The invariant the theorems below rest on.
THEOREM ModelsCorrect == Spec => []ModelsInv
<1>1. Init => ModelsInv
  BY ModelsInit
<1>2. ModelsInv /\ [Next]_vars => ModelsInv'
  BY ModelsNext
<1> QED BY <1>1, <1>2, PTL DEF Spec

\* Type correctness, and the pool of connections: no more requests are out at a
\* time than it has connections, whoever makes them.
THEOREM ModelsTypes == Spec => []TypeOK
<1>1. ModelsInv => TypeOK
  BY DEF ModelsInv, NetFine, Stages, TypeOK
<1> QED BY <1>1, ModelsCorrect, PTL

-----------------------------------------------------------------------------
(* Which model an agent has: the one the router chose when it started.       *)

Routed(r, models) ==
  r.model = IF r.pc = "idle" THEN None ELSE RouteOrChat(models, r.type)

RoutedInv ==
  /\ ~registry.ok => registry.models = <<>>
  /\ \A a \in Agents : Routed(agent[a], registry.models)

\* The agent has come to r, on its way from the model it had.
Keeps(a, r) ==
  /\ agent' = [agent EXCEPT ![a] = r]
  /\ agent[a].pc # "idle" /\ r.pc # "idle"
  /\ r.type = agent[a].type /\ r.model = agent[a].model

\* No model for any task without a registry.
LEMMA NothingRoutes ==
  ASSUME NEW type
  PROVE  RouteOrChat(<<>>, type) = None
<1>1. DOMAIN <<>> = {} /\ \A request : candidates(<<>>, request) = {}
  BY DEF candidates
<1>2. \A request : route(<<>>, request) = None
  BY <1>1 DEF route
<1> QED BY <1>2 DEF RouteOrChat

\* An agent starts with the router's choice, or gives up without a model.
LEMMA StartRoutes ==
  ASSUME ModelsInv, RoutedInv, NEW a \in Agents, Start(a)
  PROVE  \E r : agent' = [agent EXCEPT ![a] = r] /\ Routed(r, registry.models)
<1>1. agent[a] \in Answer /\ agent[a].model = None
  BY DEF ModelsInv, RoutedInv, Routed, Start
<1>2. PICK type \in TaskTypes, mode \in {"direct", "synthesis"} :
        LET model == RouteOrChat(registry.models, type) IN
        IF Routable(registry) /\ model # None
        THEN Settle(a, [agent[a] EXCEPT !.pc = "streaming", !.type = type,
                                        !.mode = mode, !.model = model])
        ELSE Settle(a, [Done(a, "error", <<>>) EXCEPT !.type = type])
  BY DEF Start
<1> DEFINE model == RouteOrChat(registry.models, type)
           r == [agent[a] EXCEPT !.pc = "streaming", !.type = type,
                                 !.mode = mode, !.model = model]
           over == [Done(a, "error", <<>>) EXCEPT !.type = type]
<1>3. CASE Routable(registry) /\ model # None
  <2>1. agent' = [agent EXCEPT ![a] = r]
    BY <1>2, <1>3 DEF Settle
  <2>2. r.pc = "streaming" /\ r.type = type /\ r.model = model
    BY <1>1 DEF Answer
  <2>3. Routed(r, registry.models)
    BY <2>2 DEF Routed
  <2> HIDE DEF r
  <2> QED BY <2>1, <2>3
<1>4. CASE ~(Routable(registry) /\ model # None)
  <2>1. agent' = [agent EXCEPT ![a] = over]
    BY <1>2, <1>4 DEF Settle
  <2>2. over.pc = "done" /\ over.type = type /\ over.model = None
    BY <1>1 DEF Answer, Done
  <2>3. model = None
    BY <1>4, NothingRoutes DEF Routable, RoutedInv
  <2>4. Routed(over, registry.models)
    BY <2>2, <2>3 DEF Routed
  <2> HIDE DEF over
  <2> QED BY <2>1, <2>4
<1> QED BY <1>3, <1>4

\* From then on it keeps its model and its task.
LEMMA StepKeeps ==
  ASSUME NEW a \in Agents, agent[a] \in Answer, AgentStep(a), ~Start(a)
  PROVE  \E r : Keeps(a, r)
<1>1. agent[a].pc # "idle"
  BY DEF AgentStep, Start, Chunk, Think, StreamEnds, StreamFails, Receives, Generate,
         GenerateFails, Recovered, RecoverFails, Answered
<1>2. ASSUME NEW status, NEW content, NEW shown
      PROVE  /\ Settle(a, Done(a, status, content)) => \E r : Keeps(a, r)
             /\ Settle(a, [Done(a, status, content) EXCEPT !.shown = shown]) =>
                  \E r : Keeps(a, r)
  <2> DEFINE over == Done(a, status, content)
             told == [over EXCEPT !.shown = shown]
  <2>1. over.pc = "done" /\ over.type = agent[a].type /\ over.model = agent[a].model
    BY DEF Done, Answer
  <2>2. told.pc = over.pc /\ told.type = over.type /\ told.model = over.model
    BY DEF Done, Answer
  <2> HIDE DEF over, told
  <2>3. Settle(a, over) => Keeps(a, over)
    BY <1>1, <2>1 DEF Settle, Keeps
  <2>4. Settle(a, told) => Keeps(a, told)
    BY <1>1, <2>1, <2>2 DEF Settle, Keeps
  <2> QED BY <2>3, <2>4 DEF over, told
<1>3. ASSUME NEW content, NEW thinking, Conclude(a, content, thinking)
      PROVE  \E r : Keeps(a, r)
  <2>1. ASSUME Settle(a, [agent[a] EXCEPT !.pc = "recovering", !.content = <<>>,
                                          !.thinking = TRUE])
        PROVE  \E r : Keeps(a, r)
    <3> DEFINE r == [agent[a] EXCEPT !.pc = "recovering", !.content = <<>>, !.thinking = TRUE]
    <3>1. r.pc = "recovering" /\ r.type = agent[a].type /\ r.model = agent[a].model
      BY DEF Answer
    <3>2. agent' = [agent EXCEPT ![a] = r]
      BY <2>1 DEF Settle
    <3> HIDE DEF r
    <3> QED BY <1>1, <3>1, <3>2 DEF Keeps
  <2> QED BY <1>2, <1>3, <2>1 DEF Conclude
<1>4. ASSUME NEW content, Recover(a, content)
      PROVE  \E r : Keeps(a, r)
  BY <1>2, <1>4 DEF Recover
<1>5. CASE Chunk(a)
  <2>1. PICK kind \in Kinds :
          LET content == Append(agent[a].content, <<"stream", kind>>) IN
          agent' = [agent EXCEPT ![a].content = content,
                                 ![a].shown = Emitted(agent[a].shown, content)]
    BY <1>5 DEF Chunk
  <2> DEFINE content == Append(agent[a].content, <<"stream", kind>>)
             shown == Emitted(agent[a].shown, content)
             r == [agent[a] EXCEPT !.content = content, !.shown = shown]
  <2>2. agent' = [agent EXCEPT ![a] = r]
    BY <2>1
  <2> HIDE DEF content, shown
  <2>3. r.pc = agent[a].pc /\ r.type = agent[a].type /\ r.model = agent[a].model
    BY DEF Answer
  <2> HIDE DEF r
  <2> QED BY <1>1, <2>2, <2>3 DEF Keeps
<1>6. CASE Think(a)
  <2> DEFINE r == [agent[a] EXCEPT !.thinking = TRUE]
  <2>1. agent' = [agent EXCEPT ![a] = r]
    BY <1>6 DEF Think
  <2>2. r.pc = agent[a].pc /\ r.type = agent[a].type /\ r.model = agent[a].model
    BY DEF Answer
  <2> HIDE DEF r
  <2> QED BY <1>1, <2>1, <2>2 DEF Keeps
<1>7. CASE StreamFails(a)
  <2>1. ASSUME Settle(a, [agent[a] EXCEPT !.pc = "generating"])
        PROVE  \E r : Keeps(a, r)
    <3> DEFINE r == [agent[a] EXCEPT !.pc = "generating"]
    <3>1. r.pc = "generating" /\ r.type = agent[a].type /\ r.model = agent[a].model
      BY DEF Answer
    <3>2. agent' = [agent EXCEPT ![a] = r]
      BY <2>1 DEF Settle
    <3> HIDE DEF r
    <3> QED BY <1>1, <3>1, <3>2 DEF Keeps
  <2> QED BY <1>3, <1>7, <2>1 DEF StreamFails
<1>8. CASE StreamEnds(a) \/ Generate(a)
  BY <1>3, <1>8 DEF StreamEnds, Generate
<1>9. CASE GenerateFails(a)
  BY <1>2, <1>9 DEF GenerateFails
<1>10. CASE Recovered(a) \/ RecoverFails(a)
  BY <1>4, <1>10 DEF Recovered, RecoverFails
<1> QED BY <1>5, <1>6, <1>7, <1>8, <1>9, <1>10 DEF AgentStep

LEMMA RoutedNext ==
  ASSUME ModelsInv, RoutedInv, [Next]_vars
  PROVE  RoutedInv'
<1>1. ASSUME UNCHANGED <<agent, registry>>
      PROVE  RoutedInv'
  BY <1>1 DEF RoutedInv
<1>2. ASSUME NEW a \in Agents, AgentStep(a)
      PROVE  RoutedInv'
  <2>1. agent \in [Agents -> Answer] /\ Routed(agent[a], registry.models)
    BY DEF ModelsInv, RoutedInv
  <2>2. UNCHANGED registry
    BY <1>2, AgentStepFine DEF Comes
  <2>3. PICK r : agent' = [agent EXCEPT ![a] = r] /\ Routed(r, registry.models)
    <3>1. CASE Start(a)
      BY <3>1, StartRoutes
    <3>2. CASE ~Start(a)
      BY <1>2, <2>1, <3>2, StepKeeps DEF Keeps, Routed
    <3> QED BY <3>1, <3>2
  <2> QED BY <2>1, <2>2, <2>3 DEF RoutedInv
<1>3. ASSUME NEW p, PollStep(p)
      PROVE  UNCHANGED <<agent, registry>>
  BY <1>3 DEF PollStep, PollCached, PollAsks, HealthServed, HealthArrives, HealthFails,
              HealthBreaks, Store
<1>4. ASSUME NEW v, ViewStep(v)
      PROVE  UNCHANGED <<agent, registry>>
  BY <1>4 DEF ViewStep, View, BodyRead, Described, VisionFails, Reply
<1>5. ASSUME NEW c, Flip \/ Tick \/ Connect(c) \/ Ask(c) \/ UNCHANGED vars
      PROVE  UNCHANGED <<agent, registry>>
  BY <1>5 DEF Flip, Tick, Connect, Ask, vars
<1> QED BY <1>1, <1>2, <1>3, <1>4, <1>5 DEF Next

\* An agent has the right model for its task, or for a chat.
LEMMA AgentsRouted ==
  ASSUME ModelsInv, RoutedInv, NEW a \in Agents, agent[a].pc # "idle"
  PROVE  RightForTask(registry.models, agent[a].type, agent[a].model)
<1> DEFINE models == registry.models
           type == agent[a].type
           special == route(models, Plain(type))
           able == {e \in ToSet(models) : Able(e, Plain(type))}
<1>1. Registry(models) /\ agent[a].model = RouteOrChat(models, type)
  BY DEF ModelsInv, RoutedInv, Routed
<1>2. RightChoice(models, Plain(type), special)
  BY <1>1, RouteRight
<1>3. RightChoice(models, Plain("chat"), route(models, Plain("chat")))
  BY <1>1, RouteRight
<1> HIDE DEF models, type, special
<1>4. special = None <=> ~\E e \in ToSet(models) : Able(e, Plain(type))
  BY <1>2 DEF RightChoice
<1>5. agent[a].model = IF special # None THEN special ELSE route(models, Plain("chat"))
  BY <1>1 DEF RouteOrChat, special
<1> QED BY <1>2, <1>3, <1>4, <1>5 DEF RightForTask, models, type

\* The router's choice is right (RoutesRight), whatever models.yaml lists, in
\* whatever order and how often, and whatever is asked; an agent works with the
\* right model for its task, or for a chat where there is none.
THEOREM RoutesCorrect == Spec => []RoutesRight
<1>1. Init => RoutedInv
  <2>1. ASSUME NEW s \in Setups, ~load_default_registry(s.file).ok
        PROVE  load_default_registry(s.file).models = <<>>
    BY <2>1 DEF load_default_registry
  <2>2. NoAnswer.pc = "idle" /\ NoAnswer.model = None
    BY DEF NoAnswer
  <2> QED BY <2>1, <2>2 DEF Init, RoutedInv, Routed
<1>2. ModelsInv /\ RoutedInv /\ [Next]_vars => RoutedInv'
  BY RoutedNext
<1>3. ModelsInv /\ RoutedInv => RoutesRight
  BY RouteRight, AgentsRouted DEF ModelsInv, ChoiceFine, RoutesRight
<1> QED BY <1>1, <1>2, <1>3, ModelsCorrect, PTL DEF Spec

\* A task's answer is what was shown of it, from one call of the model
\* (AnswerAsShown), however long the stream, wherever it breaks and whatever is
\* in the text.
THEOREM AnswerCorrect == Spec => []AnswerAsShown
<1>1. ModelsInv => AnswerAsShown
  BY DEF ModelsInv, Fine, OneCall, AnswerAsShown
<1> QED BY <1>1, ModelsCorrect, PTL

\* A status is told in time (StatusRecent), for any number of clients that poll
\* at the same time and any time to live.
THEOREM StatusCorrect == Spec => []StatusRecent
<1>1. ModelsInv => StatusRecent
  BY DEF ModelsInv, PollFine, StatusRecent
<1> QED BY <1>1, ModelsCorrect, PTL

=============================================================================
