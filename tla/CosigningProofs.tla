--------------------------- MODULE CosigningProofs ---------------------------
(***************************************************************************)
(* Cosigning, for every set of requests, every list of rules of every      *)
(* policy, every transaction and every moment of a shutdown: velocity      *)
(* rules hold, the dry run agrees with the evaluation where no rule throws, *)
(* a signature that a client received is on record, and a process that     *)
(* exits has drained.                                                      *)
(***************************************************************************)
EXTENDS Cosigning, FoldTheorems, TLAPS

---------------------------------------------------------------------------
(* What counts over a list of times do when it grows by the present *)

LEMMA CountIsSum == ASSUME NEW f, NEW S PROVE Count(f, S) = Sum(f, S)
BY DEF Count, Sum

LEMMA TimesAreFinite ==
  ASSUME NEW S, S \subseteq Time
  PROVE  IsFiniteSet(S)
<1>1. IsFiniteSet(Time)
  BY EngineAssumption, FS_Interval DEF Time
<1> QED BY <1>1, FS_Subset

LEMMA CountTypes ==
  ASSUME NEW f \in [Time -> Nat], NEW S, S \subseteq Time
  PROVE  Count(f, S) \in Nat
<1>1. IsFiniteSet(S) /\ \A t \in S : f[t] \in Nat
  BY TimesAreFinite
<1>2. Sum(f, S) \in Nat
  BY <1>1, SumNat
<1> QED BY <1>2, CountIsSum

LEMMA CountMonotone ==
  ASSUME NEW f \in [Time -> Nat], NEW g \in [Time -> Nat], NEW S, S \subseteq Time,
         \A t \in S : f[t] <= g[t]
  PROVE  Count(f, S) <= Count(g, S)
<1>1. IsFiniteSet(S) /\ IntOn(f, S) /\ IntOn(g, S)
  BY TimesAreFinite DEF IntOn
<1>2. Sum(f, S) <= Sum(g, S)
  BY <1>1, SumMonotone
<1> QED BY <1>2, CountIsSum

LEMMA PushCounts ==
  ASSUME NEW f \in [Time -> Nat], clock \in Time, NEW S, S \subseteq Time
  PROVE  /\ Push(f) \in [Time -> Nat]
         /\ \A t \in Time : Push(f)[t] = IF t = clock THEN f[t] + 1 ELSE f[t]
         /\ Count(Push(f), S) <= Count(f, S) + 1
         /\ clock \in S => Count(Push(f), S) = Count(f, S) + 1
<1> DEFINE g == Push(f)
<1>1. g \in [Time -> Nat] /\ \A t \in Time : g[t] = IF t = clock THEN f[t] + 1 ELSE f[t]
  BY DEF Push
<1> HIDE DEF g
<1>2. IsFiniteSet(S) /\ IntOn(f, S)
  BY TimesAreFinite DEF IntOn
<1>3. Count(f, S) \in Nat
  BY CountTypes
<1>4. CASE clock \in S
  <2>1. g[clock] \in Int /\ \A t \in S \ {clock} : g[t] = f[t]
    BY <1>1
  <2>2. Sum(g, S) = Sum(f, S) - f[clock] + g[clock]
    BY <1>2, <1>4, <2>1, SumChange
  <2>3. Count(g, S) = Count(f, S) - f[clock] + (f[clock] + 1)
    BY <1>1, <2>2, CountIsSum
  <2>4. f[clock] \in Nat
    OBVIOUS
  <2>5. Count(g, S) = Count(f, S) + 1
    BY <1>3, <2>3, <2>4
  <2> QED BY <1>1, <1>3, <2>5 DEF g
<1>5. CASE clock \notin S
  <2>1. \A t \in S : f[t] = g[t]
    BY <1>1, <1>5
  <2>2. Sum(f, S) = Sum(g, S)
    BY <1>2, <2>1, SumAgree
  <2>3. Count(g, S) = Count(f, S)
    BY <2>2, CountIsSum
  <2> QED BY <1>1, <1>3, <1>5, <2>3 DEF g
<1> QED BY <1>4, <1>5

LEMMA RecentCounts ==
  ASSUME NEW f \in [Time -> Nat], NEW rule
  PROVE  /\ Recent(rule, f) \in [Time -> Nat]
         /\ \A t \in Within(rule) : Recent(rule, f)[t] = f[t]
         /\ Count(Recent(rule, f), Time) = Count(f, Within(rule))
<1> DEFINE g == Recent(rule, f)
           W == Within(rule)
<1>1. g \in [Time -> Nat] /\ W \subseteq Time /\ (\A t \in W : g[t] = f[t]) /\ (\A t \in Time \ W : g[t] = 0)
  BY DEF Recent, Within
<1> HIDE DEF g, W
<1>2. IsFiniteSet(Time) /\ IsFiniteSet(W) /\ IntOn(g, Time)
  BY <1>1, TimesAreFinite DEF IntOn
<1>3. Sum(g, Time) = Sum(g, W)
  BY <1>1, <1>2, SumSupport
<1>4. Sum(g, W) = Sum(f, W)
  BY <1>1, <1>2, SumAgree
<1> QED BY <1>1, <1>3, <1>4, CountIsSum DEF g, W

---------------------------------------------------------------------------
(* What one rule does to the list *)

Evaluations == [approved : BOOLEAN, times : [Time -> Nat], cutoff : Int]

\* The verdict of a rule on the list it is given.
Verdict(rule, tx, times) ==
  IF rule.type = "velocity" THEN Count(times, Within(rule)) + 1 <= rule.maxTransactions
  ELSE Permits(rule, tx)

LEMMA PermitsIsBoolean ==
  ASSUME NEW rule \in Rule, NEW tx
  PROVE  Permits(rule, tx) \in BOOLEAN
<1>1. /\ Allowlist(rule, tx) \in BOOLEAN /\ Blocklist(rule, tx) \in BOOLEAN
      /\ AssetAllowlist(rule, tx) \in BOOLEAN /\ MaxOperations(rule, tx) \in BOOLEAN
      /\ FeeLimit(rule, tx) \in BOOLEAN /\ ContractAllowlist(rule, tx) \in BOOLEAN
  BY DEF Allowlist, Blocklist, AssetAllowlist, MaxOperations, FeeLimit, ContractAllowlist
<1>2. rule.type = "timebounds" => TimeBounds(rule, tx) \in BOOLEAN
  <2> SUFFICES ASSUME rule.type = "timebounds" PROVE TimeBounds(rule, tx) \in BOOLEAN
    OBVIOUS
  <2>1. rule.allowUnbounded \in BOOLEAN
    BY EngineAssumption
  <2>2. CASE tx.validFor = 0
    BY <2>1, <2>2 DEF TimeBounds
  <2>3. CASE tx.validFor # 0
    <3>1. (tx.validFor <= rule.maxWindow) \in BOOLEAN
      OBVIOUS
    <3> QED BY <2>3, <3>1, Zenon DEF TimeBounds
  <2> QED BY <2>2, <2>3
<1> QED BY <1>1, <1>2 DEF Permits, SpendLimit, SessionKey

\* A velocity rule adds the present to what its window holds and forgets the
\* rest; no other rule touches the list.
LEMMA RuleCounts ==
  ASSUME NEW rule \in Rule, NEW tx \in Transaction, NEW was \in Evaluations, clock \in Time,
         NEW r, r = EvaluateRule(rule, tx, was)
  PROVE  /\ r \in Evaluations
         /\ r.approved <=> Verdict(rule, tx, was.times)
         /\ r.cutoff >= was.cutoff
         /\ \A t \in Time : t > r.cutoff => r.times[t] >= was.times[t]
         /\ rule.type = "velocity" => (clock > r.cutoff => r.times[clock] >= was.times[clock] + 1)
         /\ rule.type # "velocity" => r.times = was.times /\ r.cutoff = was.cutoff
<1>1. was.times \in [Time -> Nat] /\ was.cutoff \in Int /\ clock \in Nat
  BY EngineAssumption DEF Evaluations, Time
<1>2. CASE rule.type = "velocity"
  <2> DEFINE recent == Recent(rule, was.times)
             times == Push(recent)
             within == Count(times, Time) <= rule.maxTransactions
             latest == IF was.cutoff > clock - rule.window THEN was.cutoff ELSE clock - rule.window
  <2>1. rule.window \in Nat /\ rule.maxTransactions \in Nat
    BY <1>2, EngineAssumption
  <2>2. /\ recent \in [Time -> Nat] /\ \A t \in Within(rule) : recent[t] = was.times[t]
        /\ Count(recent, Time) = Count(was.times, Within(rule))
    BY <1>1, RecentCounts
  <2> HIDE DEF recent
  <2>3. /\ times \in [Time -> Nat] /\ Count(times, Time) = Count(recent, Time) + 1
        /\ \A t \in Time : times[t] = IF t = clock THEN recent[t] + 1 ELSE recent[t]
    BY <2>2, PushCounts
  <2>4. r = [approved |-> within, times |-> times, cutoff |-> latest]
    BY <1>2 DEF EvaluateRule, Velocity, Counted, recent
  <2>5. latest \in Int /\ latest >= was.cutoff /\ latest >= clock - rule.window
    BY <1>1, <2>1
  <2>6. within <=> Verdict(rule, tx, was.times)
    BY <1>2, <2>2, <2>3 DEF Verdict
  <2>7. within \in BOOLEAN
    OBVIOUS
  <2> HIDE DEF times, within, latest
  <2>8. r \in Evaluations /\ r.approved = within /\ r.times = times /\ r.cutoff = latest
    BY <2>3, <2>4, <2>5, <2>7 DEF Evaluations
  <2>9. \A t \in Time : t > latest =>
          times[t] = IF t = clock THEN was.times[t] + 1 ELSE was.times[t]
    <3> SUFFICES ASSUME NEW t \in Time, t > latest
                 PROVE  times[t] = IF t = clock THEN was.times[t] + 1 ELSE was.times[t]
      OBVIOUS
    <3>1. t \in Int /\ clock - rule.window \in Int
      BY <1>1, <2>1 DEF Time
    <3>2. t > clock - rule.window
      BY <2>5, <3>1
    <3>3. t \in Within(rule)
      BY <3>2 DEF Within
    <3> QED BY <2>2, <2>3, <3>3
  <2>10. \A t \in Time : was.times[t] \in Nat
    BY <1>1
  <2> QED BY <1>2, <2>5, <2>6, <2>8, <2>9, <2>10
<1>3. CASE rule.type # "velocity"
  <2> DEFINE permits == Permits(rule, tx)
  <2>1. permits \in BOOLEAN
    BY PermitsIsBoolean
  <2>2. permits <=> Verdict(rule, tx, was.times)
    BY <1>3 DEF Verdict
  <2>3. r = [was EXCEPT !.approved = permits]
    BY <1>3 DEF EvaluateRule
  <2> HIDE DEF permits
  <2>4. r \in Evaluations /\ r.approved = permits /\ r.times = was.times /\ r.cutoff = was.cutoff
    BY <2>1, <2>3 DEF Evaluations
  <2>5. \A t \in Time : was.times[t] >= was.times[t]
    BY <1>1
  <2> QED BY <1>1, <1>3, <2>2, <2>4, <2>5
<1> QED BY <1>2, <1>3

---------------------------------------------------------------------------
(* What a list of rules does to it *)

Before == [approved |-> policy # NoPolicy \/ DefaultAllows, times |-> velocityTracking, cutoff |-> cutoff]

Rules == IF policy = NoPolicy THEN <<>> ELSE policy.rules

LEMMA BeforeIsEvaluation ==
  ASSUME EngineTypeOK
  PROVE  /\ Before \in Evaluations /\ Before.times = velocityTracking /\ Before.cutoff = cutoff
         /\ Before.approved <=> (policy # NoPolicy \/ DefaultAllows)
         /\ Rules \in Seq(Rule) /\ (policy # NoPolicy => policy.rules \in Seq(Rule))
<1> DEFINE b == policy # NoPolicy \/ DefaultAllows
<1>1. b \in BOOLEAN
  OBVIOUS
<1>2. b <=> (policy # NoPolicy \/ DefaultAllows)
  OBVIOUS
<1>3. Before = [approved |-> b, times |-> velocityTracking, cutoff |-> cutoff]
  BY DEF Before
<1> HIDE DEF b
<1>4. Before \in Evaluations /\ Before.times = velocityTracking /\ Before.cutoff = cutoff /\ Before.approved = b
  BY <1>1, <1>3 DEF EngineTypeOK, Evaluations
<1>5. policy # NoPolicy => policy.rules \in Seq(Rule)
  BY EngineAssumption DEF EngineTypeOK
<1>6. Rules \in Seq(Rule)
  BY <1>5 DEF Rules
<1> QED BY <1>2, <1>4, <1>5, <1>6

LEMMA EvaluationIsLoop ==
  ASSUME EngineTypeOK, NEW tx \in Transaction
  PROVE  \E after :
           /\ EvaluateWithAudit(tx) = after[Len(Rules)]
           /\ \A i \in 0..Len(Rules) :
                /\ after[i] \in Evaluations
                /\ i = 0 => after[i] = Before
                /\ i # 0 => after[i] = IF after[i - 1].approved THEN EvaluateRule(Rules[i], tx, after[i - 1])
                                       ELSE after[i - 1]
<1> DEFINE n == Len(Rules)
           turn(i, was) == IF was.approved THEN EvaluateRule(Rules[i], tx, was) ELSE was
           step == [p \in (1..n) \X Evaluations |-> turn(p[1], p[2])]
           Is(k) == k = [i \in 0..n |-> IF i = 0 THEN Before ELSE turn(i, k[i - 1])]
<1>1. n \in Nat /\ (\A i \in 1..n : Rules[i] \in Rule) /\ Before \in Evaluations /\ clock \in Time
  BY BeforeIsEvaluation DEF EngineTypeOK
<1>2. \A i \in 1..n, was \in Evaluations : turn(i, was) \in Evaluations
  BY <1>1, RuleCounts
<1> HIDE DEF n, turn
<1>3. step \in [(1..n) \X Evaluations -> Evaluations]
  BY <1>1, <1>2
<1>4. PICK g \in [0..n -> Evaluations] : IsLoop(g, Before, step, n)
  <2> HIDE DEF step
  <2> QED BY <1>1, <1>3, LoopExists
<1>5. Is(g)
  <2>1. ASSUME NEW i \in 0..n PROVE g[i] = IF i = 0 THEN Before ELSE turn(i, g[i - 1])
    <3>1. CASE i = 0
      BY <1>4, <3>1 DEF IsLoop
    <3>2. CASE i # 0
      <4>1. g[i] = step[<<i, g[i - 1]>>]
        <5> HIDE DEF step
        <5> QED BY <1>4, <3>2 DEF IsLoop
      <4>2. <<i, g[i - 1]>> \in (1..n) \X Evaluations
        BY <1>1, <1>4, <3>2
      <4> QED BY <3>2, <4>1, <4>2
    <3> QED BY <3>1, <3>2
  <2> HIDE DEF step
  <2> QED BY <1>4, <2>1
<1> DEFINE c == CHOOSE k : Is(k)
<1>6. Is(c)
  <2> HIDE DEF Is
  <2> QED BY <1>5
<1>7. EvaluateWithAudit(tx) = c[n]
  BY DEF EvaluateWithAudit, n, turn, Rules, Before
<1> HIDE DEF c
<1>8. \A i \in 0..n : c[i] = IF i = 0 THEN Before ELSE turn(i, c[i - 1])
  BY <1>6
<1> DEFINE P == {i \in 0..n : c[i] \in Evaluations}
<1>9. 0 \in P /\ \A i \in 1..n : i - 1 \in P => i \in P
  <2>1. c[0] = Before /\ 0 \in 0..n
    BY <1>1, <1>8
  <2>2. ASSUME NEW i \in 1..n, i - 1 \in P PROVE i \in P
    <3>1. i \in 0..n /\ i # 0 /\ c[i - 1] \in Evaluations
      BY <1>1, <2>2
    <3>2. c[i] = turn(i, c[i - 1])
      BY <1>8, <3>1
    <3> QED BY <1>2, <3>1, <3>2
  <2> QED BY <1>1, <2>1, <2>2
<1>10. \A i \in 0..n : c[i] \in Evaluations
  <2>1. \A i \in 0..n : i \in P
    <3> HIDE DEF P
    <3> QED BY <1>1, <1>9, UpTo
  <2> QED BY <2>1
<1> QED BY <1>7, <1>8, <1>10 DEF n, turn

\* An evaluation keeps what lies after its last cutoff, counts what it approves
\* under a velocity rule, and has room under every rule whose window it kept.
LEMMA EvaluationCounts ==
  ASSUME EngineTypeOK, NEW tx \in Transaction, NEW after, after = EvaluateWithAudit(tx)
  PROVE  /\ after \in Evaluations
         /\ after.cutoff >= cutoff
         /\ \A t \in Time : t > after.cutoff => after.times[t] >= velocityTracking[t]
         /\ after.approved =>
              \A i \in 1..Len(Rules) : Rules[i].type = "velocity" =>
                /\ clock > after.cutoff => after.times[clock] >= velocityTracking[clock] + 1
                /\ (\A t \in Within(Rules[i]) : t > after.cutoff) =>
                     Count(velocityTracking, Within(Rules[i])) + 1 <= Rules[i].maxTransactions
<1> DEFINE n == Len(Rules)
           vt == velocityTracking
           Paces(j) == Rules[j].type = "velocity"
           Keeps(e) == e.cutoff >= cutoff /\ \A t \in Time : t > e.cutoff => e.times[t] >= vt[t]
           Room(e, j) ==
             /\ clock > e.cutoff => e.times[clock] >= vt[clock] + 1
             /\ (\A t \in Within(Rules[j]) : t > e.cutoff) =>
                  Count(vt, Within(Rules[j])) + 1 <= Rules[j].maxTransactions
<1>1. PICK c :
        /\ after = c[n]
        /\ \A i \in 0..n :
             /\ c[i] \in Evaluations
             /\ i = 0 => c[i] = Before
             /\ i # 0 => c[i] = IF c[i - 1].approved THEN EvaluateRule(Rules[i], tx, c[i - 1]) ELSE c[i - 1]
  BY EvaluationIsLoop
<1>2. /\ n \in Nat /\ \A i \in 1..n : Rules[i] \in Rule
      /\ Before \in Evaluations /\ Before.times = vt /\ Before.cutoff = cutoff
      /\ clock \in Time /\ clock \in Int /\ vt \in [Time -> Nat] /\ cutoff \in Int
  BY BeforeIsEvaluation DEF EngineTypeOK, Time
<1> DEFINE Good(i) == Keeps(c[i]) /\ (c[i].approved => \A j \in 1..i : Paces(j) => Room(c[i], j))
           P == {i \in 0..n : Good(i)}
<1>3. Good(0)
  <2>1. c[0] = Before
    BY <1>1, <1>2
  <2>2. \A t \in Time : vt[t] >= vt[t]
    BY <1>2
  <2> QED BY <1>2, <2>1, <2>2
<1>4. ASSUME NEW i \in 1..n, Good(i - 1) PROVE Good(i)
  <2> DEFINE was == c[i - 1]
             r == c[i]
             rule == Rules[i]
  <2>1. i \in 0..n /\ i - 1 \in 0..n /\ i # 0 /\ rule \in Rule
    BY <1>2
  <2>2. was \in Evaluations /\ r \in Evaluations /\ r = IF was.approved THEN EvaluateRule(rule, tx, was) ELSE was
    BY <1>1, <2>1
  <2>3. Keeps(was) /\ (was.approved => \A j \in 1..(i - 1) : Paces(j) => Room(was, j))
    BY <1>4
  <2> SUFFICES Keeps(r) /\ (r.approved => \A j \in 1..i : Paces(j) => Room(r, j))
    OBVIOUS
  <2> HIDE DEF was, r
  <2>4. CASE ~was.approved
    BY <2>2, <2>3, <2>4
  <2>5. CASE was.approved
    <3>1. r = EvaluateRule(rule, tx, was)
      BY <2>2, <2>5
    <3>2. /\ r.approved <=> Verdict(rule, tx, was.times)
          /\ r.cutoff >= was.cutoff
          /\ \A t \in Time : t > r.cutoff => r.times[t] >= was.times[t]
          /\ rule.type = "velocity" => (clock > r.cutoff => r.times[clock] >= was.times[clock] + 1)
          /\ rule.type # "velocity" => r.times = was.times /\ r.cutoff = was.cutoff
      <4> HIDE DEF rule
      <4> QED BY <1>2, <2>1, <2>2, <3>1, RuleCounts
    <3>3. /\ was.times \in [Time -> Nat] /\ r.times \in [Time -> Nat] /\ was.cutoff \in Int /\ r.cutoff \in Int
          /\ \A t \in Time : t \in Int /\ was.times[t] \in Nat /\ r.times[t] \in Nat /\ vt[t] \in Nat
      <4>1. \A e \in Evaluations : e.times \in [Time -> Nat] /\ e.cutoff \in Int
        BY DEF Evaluations
      <4>2. \A t \in Time : t \in Int
        BY DEF Time
      <4> QED BY <1>2, <2>2, <4>1, <4>2
    <3>4. Keeps(r)
      <4>1. r.cutoff >= cutoff
        BY <1>2, <2>3, <3>2, <3>3
      <4>2. ASSUME NEW t \in Time, t > r.cutoff PROVE r.times[t] >= vt[t]
        <5>1. t > was.cutoff
          BY <3>2, <3>3, <4>2
        <5> QED BY <2>3, <3>2, <3>3, <4>2, <5>1
      <4> QED BY <4>1, <4>2
    <3>5. ASSUME r.approved, NEW j \in 1..i, Paces(j) PROVE Room(r, j)
      <4> DEFINE W == Within(Rules[j])
      <4>1. W \subseteq Time
        BY DEF Within
      <4>2. CASE j = i
        <5>1. rule.type = "velocity"
          BY <3>5, <4>2
        <5>2. clock > r.cutoff => r.times[clock] >= vt[clock] + 1
          <6> SUFFICES ASSUME clock > r.cutoff PROVE r.times[clock] >= vt[clock] + 1
            OBVIOUS
          <6>1. clock > was.cutoff
            BY <1>2, <3>2, <3>3
          <6>2. was.times[clock] >= vt[clock] /\ r.times[clock] >= was.times[clock] + 1
            BY <1>2, <2>3, <3>2, <5>1, <6>1
          <6> QED BY <1>2, <3>3, <6>2
        <5>3. (\A t \in W : t > r.cutoff) => Count(vt, W) + 1 <= Rules[j].maxTransactions
          <6> SUFFICES ASSUME \A t \in W : t > r.cutoff
                       PROVE  Count(vt, W) + 1 <= Rules[j].maxTransactions
            OBVIOUS
          <6>1. Count(was.times, W) + 1 <= Rules[j].maxTransactions
            BY <3>2, <3>5, <4>2, <5>1 DEF Verdict
          <6>2. \A t \in W : vt[t] <= was.times[t]
            <7> SUFFICES ASSUME NEW t \in W PROVE vt[t] <= was.times[t]
              OBVIOUS
            <7> HIDE DEF W
            <7>1. t \in Time /\ t > r.cutoff
              BY <4>1
            <7>2. t > was.cutoff
              BY <3>2, <3>3, <7>1
            <7> QED BY <2>3, <3>3, <7>1, <7>2
          <6> HIDE DEF W
          <6>3. Count(vt, W) <= Count(was.times, W)
            BY <1>2, <3>3, <4>1, <6>2, CountMonotone
          <6>4. Count(vt, W) \in Nat /\ Count(was.times, W) \in Nat
            BY <1>2, <3>3, <4>1, CountTypes
          <6>5. Rules[j].maxTransactions \in Nat
            BY <1>2, <3>5, EngineAssumption
          <6> QED BY <6>1, <6>3, <6>4, <6>5
        <5> QED BY <5>2, <5>3
      <4>3. CASE j # i
        <5>1. j \in 1..(i - 1)
          BY <1>2, <4>3
        <5>2. Room(was, j)
          BY <2>3, <2>5, <3>5, <5>1
        <5>3. clock > r.cutoff => r.times[clock] >= vt[clock] + 1
          <6> SUFFICES ASSUME clock > r.cutoff PROVE r.times[clock] >= vt[clock] + 1
            OBVIOUS
          <6>1. clock > was.cutoff
            BY <1>2, <3>2, <3>3
          <6>2. was.times[clock] >= vt[clock] + 1 /\ r.times[clock] >= was.times[clock]
            BY <1>2, <3>2, <5>2, <6>1
          <6> QED BY <1>2, <3>3, <6>2
        <5>4. (\A t \in W : t > r.cutoff) => (\A t \in W : t > was.cutoff)
          <6> HIDE DEF W
          <6> QED BY <3>2, <3>3, <4>1
        <5> QED BY <5>2, <5>3, <5>4
      <4> QED BY <4>2, <4>3
    <3> QED BY <3>4, <3>5
  <2> QED BY <2>4, <2>5
<1>5. Good(n)
  <2>1. 0 \in P /\ \A i \in 1..n : i - 1 \in P => i \in P
    <3> HIDE DEF Good
    <3> QED BY <1>2, <1>3, <1>4
  <2>2. \A i \in 0..n : i \in P
    <3> HIDE DEF P
    <3> QED BY <1>2, <2>1, UpTo
  <2> HIDE DEF Good
  <2> QED BY <1>2, <2>2
<1>6. after \in Evaluations
  BY <1>1, <1>2
<1> QED BY <1>1, <1>5, <1>6

---------------------------------------------------------------------------
(* The dry run *)

LEMMA DryRunIsVerdict ==
  ASSUME NEW rule \in Rule, rule.type \notin Throwing, NEW tx \in Transaction
  PROVE  EvaluateRuleDryRun(rule, tx) <=> Verdict(rule, tx, velocityTracking)
<1>1. rule.type # "spend_limit" /\ rule.type # "session_key"
  BY DEF Throwing
<1>2. CASE rule.type = "velocity"
  BY <1>2 DEF EvaluateRuleDryRun, VelocityDryRun, Verdict
<1>3. CASE rule.type # "velocity"
  BY <1>1, <1>3 DEF EvaluateRuleDryRun, Verdict
<1> QED BY <1>2, <1>3

LEMMA DryRun ==
  ASSUME EngineTypeOK, NEW tx \in Transaction, policy # NoPolicy,
         \A i, j \in Paced : i = j,
         \A i \in DOMAIN policy.rules : policy.rules[i].type \notin Throwing
  PROVE  EvaluateWithAudit(tx).approved <=> EvaluateWithDetails(tx)
<1> DEFINE n == Len(Rules)
           dry(j) == EvaluateRuleDryRun(Rules[j], tx)
           Paces(j) == Rules[j].type = "velocity"
<1>1. PICK c :
        /\ EvaluateWithAudit(tx) = c[n]
        /\ \A i \in 0..n :
             /\ c[i] \in Evaluations
             /\ i = 0 => c[i] = Before
             /\ i # 0 => c[i] = IF c[i - 1].approved THEN EvaluateRule(Rules[i], tx, c[i - 1]) ELSE c[i - 1]
  BY EvaluationIsLoop
<1>2. /\ n \in Nat /\ (\A i \in 1..n : Rules[i] \in Rule) /\ clock \in Time
      /\ Before.approved /\ Before.times = velocityTracking
      /\ Rules = policy.rules /\ DOMAIN Rules = 1..n
  <2>1. Rules \in Seq(Rule) /\ Rules = policy.rules
    BY BeforeIsEvaluation DEF Rules
  <2>2. Before.approved /\ Before.times = velocityTracking
    BY BeforeIsEvaluation
  <2> QED BY <2>1, <2>2 DEF EngineTypeOK
<1>3. /\ \A i, j \in 1..n : Paces(i) /\ Paces(j) => i = j
      /\ \A i \in 1..n : Rules[i].type \notin Throwing
  BY <1>2 DEF Paced
<1> HIDE DEF n
<1> DEFINE Same(i) == (\A j \in 1..i : ~Paces(j)) => c[i].times = velocityTracking
           Good(i) == /\ c[i].approved <=> \A j \in 1..i : dry(j)
                      /\ c[i].approved => Same(i)
           P == {i \in 0..n : Good(i)}
<1>4. Good(0)
  <2>1. c[0] = Before
    BY <1>1, <1>2
  <2> QED BY <1>2, <2>1
<1>5. ASSUME NEW i \in 1..n, Good(i - 1) PROVE Good(i)
  <2> DEFINE was == c[i - 1]
             r == c[i]
             rule == Rules[i]
  <2>1. i \in 0..n /\ i - 1 \in 0..n /\ i # 0 /\ rule \in Rule
        /\ (\A j \in 1..i : j = i \/ j \in 1..(i - 1)) /\ (\A j \in 1..(i - 1) : j \in 1..i /\ j # i /\ j \in 1..n)
        /\ i \in 1..i
    BY <1>2
  <2>2. was \in Evaluations /\ r \in Evaluations /\ r = IF was.approved THEN EvaluateRule(rule, tx, was) ELSE was
    BY <1>1, <2>1
  <2>3. CASE ~was.approved
    <3>1. r = was
      BY <2>2, <2>3
    <3>2. ~(\A j \in 1..(i - 1) : dry(j))
      BY <1>5, <2>3
    <3>3. ~(\A j \in 1..i : dry(j))
      BY <2>1, <3>2
    <3> QED BY <2>3, <3>1, <3>3
  <2>4. CASE was.approved
    <3>1. r = EvaluateRule(rule, tx, was)
      BY <2>2, <2>4
    <3>2. /\ \A j \in 1..(i - 1) : dry(j)
          /\ Same(i - 1)
      BY <1>5, <2>4
    <3> HIDE DEF was, r
    <3>3. /\ r.approved <=> Verdict(rule, tx, was.times)
          /\ rule.type # "velocity" => r.times = was.times
      BY <1>2, <2>1, <2>2, <3>1, RuleCounts
    <3>4. rule.type = "velocity" => was.times = velocityTracking
      <4> SUFFICES ASSUME rule.type = "velocity" PROVE was.times = velocityTracking
        OBVIOUS
      <4>1. \A j \in 1..(i - 1) : ~Paces(j)
        BY <1>3, <2>1
      <4> QED BY <3>2, <4>1 DEF was
    <3>5. Verdict(rule, tx, was.times) <=> Verdict(rule, tx, velocityTracking)
      BY <3>4 DEF Verdict
    <3>6. r.approved <=> dry(i)
      BY <1>3, <2>1, <3>3, <3>5, DryRunIsVerdict
    <3>7. r.approved <=> \A j \in 1..i : dry(j)
      <4> HIDE DEF dry
      <4> QED BY <2>1, <3>2, <3>6
    <3>8. Same(i)
      <4> SUFFICES ASSUME \A j \in 1..i : ~Paces(j) PROVE r.times = velocityTracking
        BY DEF r
      <4>1. rule.type # "velocity" /\ \A j \in 1..(i - 1) : ~Paces(j)
        BY <2>1
      <4> QED BY <3>2, <3>3, <4>1 DEF was
    <3> HIDE DEF Same, dry
    <3> QED BY <3>7, <3>8 DEF r
  <2> QED BY <2>3, <2>4
<1>6. Good(n)
  <2>1. 0 \in P /\ \A i \in 1..n : i - 1 \in P => i \in P
    <3> HIDE DEF Good
    <3> QED BY <1>2, <1>4, <1>5
  <2>2. \A i \in 0..n : i \in P
    <3> HIDE DEF P
    <3> QED BY <1>2, <2>1, UpTo
  <2> HIDE DEF Good
  <2> QED BY <1>2, <2>2
<1>7. EvaluateWithDetails(tx) <=> \A j \in 1..n : dry(j)
  BY <1>2 DEF EvaluateWithDetails, n
<1> QED BY <1>1, <1>6, <1>7

\* What the list holds does not matter: types suffice.
LEMMA DryRunAlwaysAgrees == EngineTypeOK => DryRunAgrees
<1> SUFFICES ASSUME EngineTypeOK, NEW tx \in Transaction, \A i, j \in Paced : i = j,
                    policy # NoPolicy =>
                      \A i \in DOMAIN policy.rules : policy.rules[i].type \notin Throwing
             PROVE  EvaluateWithDetails(tx) = EvaluateWithAudit(tx).approved
  BY DEF DryRunAgrees
<1>1. EvaluateWithAudit(tx) \in Evaluations
  BY EvaluationCounts
<1>2. EvaluateWithAudit(tx).approved \in BOOLEAN
  BY <1>1 DEF Evaluations
<1>3. CASE policy = NoPolicy
  <2>1. PICK c : EvaluateWithAudit(tx) = c[Len(Rules)] /\ c[0] = Before
    BY EvaluationIsLoop, BeforeIsEvaluation
  <2>2. Len(Rules) = 0
    BY <1>3 DEF Rules
  <2>3. EvaluateWithAudit(tx).approved <=> DefaultAllows
    BY <1>3, <2>1, <2>2, BeforeIsEvaluation
  <2>4. EvaluateWithDetails(tx) = DefaultAllows
    BY <1>3 DEF EvaluateWithDetails
  <2> QED BY <1>2, <2>3, <2>4, EngineAssumption
<1>4. CASE policy # NoPolicy
  <2>1. EvaluateWithAudit(tx).approved <=> EvaluateWithDetails(tx)
    BY <1>4, DryRun
  <2>2. EvaluateWithDetails(tx) \in BOOLEAN
    BY <1>4 DEF EvaluateWithDetails
  <2> QED BY <1>2, <2>1, <2>2
<1> QED BY <1>3, <1>4

---------------------------------------------------------------------------
(* The list of the engine: its type, and what it counts *)

\* After the last cutoff the list holds whatever was approved.
PassedIsCounted == \A t \in Time : t > cutoff => passed[t] <= velocityTracking[t]

EngineInv == EngineTypeOK /\ PassedIsCounted

\* VelocityHolds, of one step.
PaceStep ==
  passed'[clock] > passed[clock] =>
    \A i \in Paced :
      (\A t \in Within(policy.rules[i]) : t > cutoff')
        => Count(passed', Within(policy.rules[i])) <= policy.rules[i].maxTransactions

LEMMA EngineInitially == EngineInit => EngineInv
<1> SUFFICES ASSUME EngineInit PROVE EngineInv
  OBVIOUS
<1>1. NoTimes \in [Time -> Nat] /\ \A t \in Time : NoTimes[t] <= NoTimes[t]
  BY DEF NoTimes
<1>2. clock \in Time
  BY EngineAssumption DEF EngineInit, Time
<1> QED BY <1>1, <1>2 DEF EngineInit, EngineInv, EngineTypeOK, PassedIsCounted

\* The steps that evaluate nothing keep the list or drop it.
LEMMA EngineKeeps == EngineInv /\ EngineNext => EngineInv' /\ PaceStep
<1> SUFFICES ASSUME EngineInv, EngineNext PROVE EngineInv' /\ PaceStep
  OBVIOUS
<1>1. NoTimes \in [Time -> Nat] /\ \A t \in Time : NoTimes[t] = 0
  BY DEF NoTimes
<1>2. clock' \in Time
  <2>1. LastTime \in Nat /\ clock \in 0..LastTime
    BY EngineAssumption DEF EngineInv, EngineTypeOK, Time
  <2> QED BY <2>1 DEF EngineNext, CreatePolicy, UpdatePolicy, RemovePolicy, TimePasses, Time
<1>3. policy' \in [rules : RuleList, version : 1..MaxVersion] \cup {NoPolicy}
  <2>1. ASSUME NEW rules \in RuleList, CreatePolicy(rules) \/ \E v \in 1..MaxVersion : UpdatePolicy(rules, v)
        PROVE  policy' \in [rules : RuleList, version : 1..MaxVersion] \cup {NoPolicy}
    BY <2>1, EngineAssumption DEF CreatePolicy, UpdatePolicy
  <2> QED BY <2>1 DEF EngineNext, RemovePolicy, TimePasses, EngineInv, EngineTypeOK
<1>4. \/ velocityTracking' = velocityTracking /\ passed' = passed /\ cutoff' = cutoff
      \/ velocityTracking' = NoTimes /\ passed' = NoTimes /\ cutoff' = -1
  BY DEF EngineNext, CreatePolicy, UpdatePolicy, RemovePolicy, ForgetTimes, TimePasses
<1>5. EngineTypeOK'
  BY <1>1, <1>2, <1>3, <1>4 DEF EngineInv, EngineTypeOK, Time
<1>6. PassedIsCounted'
  <2>1. \A t \in Time : t > cutoff' => passed'[t] <= velocityTracking'[t]
    <3>1. CASE velocityTracking' = velocityTracking /\ passed' = passed /\ cutoff' = cutoff
      BY <3>1 DEF EngineInv, PassedIsCounted
    <3>2. CASE velocityTracking' = NoTimes /\ passed' = NoTimes
      BY <1>1, <3>2
    <3> QED BY <1>4, <3>1, <3>2
  <2> QED BY <2>1 DEF PassedIsCounted, Time
<1>7. ~(passed'[clock] > passed[clock])
  <2>1. clock \in Time /\ passed[clock] \in Nat
    BY DEF EngineInv, EngineTypeOK
  <2> QED BY <1>1, <1>4, <2>1
<1> QED BY <1>5, <1>6, <1>7 DEF EngineInv, PaceStep

\* An evaluation counts what it approves, and approves it with room for it.
LEMMA EvaluateKeeps ==
  ASSUME EngineInv, NEW tx \in Transaction, Evaluate(tx)
  PROVE  EngineInv' /\ PaceStep
<1> DEFINE after == EvaluateWithAudit(tx)
           grows == after.approved /\ Paced # {}
<1>1. EngineTypeOK /\ clock \in Time /\ clock \in Int /\ passed \in [Time -> Nat] /\ cutoff \in Int
      /\ velocityTracking \in [Time -> Nat] /\ \A t \in Time : t \in Int
  BY DEF EngineInv, EngineTypeOK, Time
<1>2. /\ velocityTracking' = after.times /\ cutoff' = after.cutoff
      /\ passed' = IF grows THEN Push(passed) ELSE passed
      /\ clock' = clock /\ policy' = policy
  BY DEF Evaluate
<1>3. /\ after \in Evaluations
      /\ after.cutoff >= cutoff
      /\ \A t \in Time : t > after.cutoff => after.times[t] >= velocityTracking[t]
      /\ after.approved =>
           \A i \in 1..Len(Rules) : Rules[i].type = "velocity" =>
             /\ clock > after.cutoff => after.times[clock] >= velocityTracking[clock] + 1
             /\ (\A t \in Within(Rules[i]) : t > after.cutoff) =>
                  Count(velocityTracking, Within(Rules[i])) + 1 <= Rules[i].maxTransactions
  BY <1>1, EvaluationCounts
<1> HIDE DEF after
<1>4. after.times \in [Time -> Nat] /\ after.cutoff \in Int
  BY <1>3 DEF Evaluations
<1>5. \A i \in Paced : i \in 1..Len(Rules) /\ Rules[i] = policy.rules[i] /\ Rules[i].type = "velocity"
                       /\ Rules[i] \in Rule
  BY <1>1, BeforeIsEvaluation DEF Paced, Rules
<1>6. /\ Push(passed) \in [Time -> Nat]
      /\ \A t \in Time : Push(passed)[t] = IF t = clock THEN passed[t] + 1 ELSE passed[t]
  BY <1>1, PushCounts
<1>7. passed' \in [Time -> Nat]
  BY <1>1, <1>2, <1>6
<1>8. EngineTypeOK'
  BY <1>1, <1>2, <1>4, <1>7 DEF EngineTypeOK, Time
<1>9. PassedIsCounted'
  <2> SUFFICES ASSUME NEW t \in Time, t > after.cutoff PROVE passed'[t] <= after.times[t]
    BY <1>2 DEF PassedIsCounted, Time
  <2>1. t > cutoff
    BY <1>1, <1>3, <1>4
  <2>2. passed[t] <= velocityTracking[t] /\ after.times[t] >= velocityTracking[t]
    BY <1>3, <2>1 DEF EngineInv, PassedIsCounted
  <2>3. passed[t] \in Nat /\ velocityTracking[t] \in Nat /\ after.times[t] \in Nat
    BY <1>1, <1>4
  <2>4. CASE grows /\ t = clock
    <3>1. after.times[clock] >= velocityTracking[clock] + 1
      BY <1>3, <1>5, <2>4
    <3>2. passed'[t] = passed[t] + 1
      BY <1>2, <1>6, <2>4
    <3> QED BY <2>2, <2>3, <2>4, <3>1, <3>2
  <2>5. CASE ~(grows /\ t = clock)
    <3>1. passed'[t] = passed[t]
      BY <1>2, <1>6, <2>5
    <3> QED BY <2>2, <2>3, <3>1
  <2> QED BY <2>4, <2>5
<1>10. PaceStep
  <2> SUFFICES ASSUME passed'[clock] > passed[clock], NEW i \in Paced,
                      \A t \in Within(policy.rules[i]) : t > cutoff'
               PROVE  Count(passed', Within(policy.rules[i])) <= policy.rules[i].maxTransactions
    BY DEF PaceStep
  <2> DEFINE W == Within(policy.rules[i])
  <2>1. W \subseteq Time
    BY DEF Within
  <2>2. grows
    <3>1. passed[clock] \in Nat
      BY <1>1
    <3> QED BY <1>2, <3>1
  <2>3. Count(velocityTracking, W) + 1 <= policy.rules[i].maxTransactions
    <3>1. \A t \in Within(Rules[i]) : t > after.cutoff
      BY <1>2, <1>5
    <3>2. Count(velocityTracking, Within(Rules[i])) + 1 <= Rules[i].maxTransactions
      BY <1>3, <1>5, <2>2, <3>1
    <3> QED BY <1>5, <3>2
  <2>4. policy.rules[i].maxTransactions \in Nat
    BY <1>5, EngineAssumption
  <2>5. \A t \in W : t > cutoff
    <3>1. \A t \in W : t > after.cutoff
      BY <1>2
    <3> HIDE DEF W
    <3> QED BY <1>1, <1>3, <1>4, <2>1, <3>1
  <2> HIDE DEF W
  <2>6. Count(passed, W) <= Count(velocityTracking, W)
    <3>1. \A t \in W : passed[t] <= velocityTracking[t]
      BY <2>1, <2>5 DEF EngineInv, PassedIsCounted
    <3> QED BY <1>1, <2>1, <3>1, CountMonotone
  <2>7. Count(Push(passed), W) <= Count(passed, W) + 1
    BY <1>1, <2>1, PushCounts
  <2>8. /\ Count(passed, W) \in Nat /\ Count(velocityTracking, W) \in Nat
        /\ Count(Push(passed), W) \in Nat
    BY <1>1, <1>6, <2>1, CountTypes
  <2>9. Count(Push(passed), W) <= policy.rules[i].maxTransactions
    BY <2>3, <2>4, <2>6, <2>7, <2>8
  <2>10. passed' = Push(passed)
    BY <1>2, <2>2
  <2> QED BY <2>9, <2>10 DEF W
<1> QED BY <1>8, <1>9, <1>10 DEF EngineInv

LEMMA EngineStutters == EngineInv /\ UNCHANGED engineVars => EngineInv' /\ PaceStep
<1> SUFFICES ASSUME EngineInv, UNCHANGED engineVars PROVE EngineInv' /\ PaceStep
  OBVIOUS
<1>1. EngineInv'
  BY DEF EngineInv, EngineTypeOK, PassedIsCounted, Time, engineVars
<1>2. ~(passed'[clock] > passed[clock])
  <2>1. passed' = passed /\ passed[clock] \in Nat
    BY DEF EngineInv, EngineTypeOK, engineVars
  <2> QED BY <2>1
<1> QED BY <1>1, <1>2 DEF PaceStep

---------------------------------------------------------------------------
(* The handlers *)

HandlerTypeOK ==
  /\ stage \in [Request -> {"idle", "entering", "assessing", "signing", "recording", "done"}]
  /\ verdicts \in [Request -> Seq(BOOLEAN)]
  /\ next \in [Request -> Nat \ {0}]
  /\ answer \in [Request -> {"none", "signed", "refused", "error"}]
  /\ connections \subseteq Request /\ inFlight \subseteq Request

\* Where a handler is says how far its verdicts have come.
Progress(r) ==
  CASE stage[r] = "assessing" -> Len(verdicts[r]) < Size(r) /\ next[r] = Len(verdicts[r]) + 1
    [] stage[r] = "signing" -> Len(verdicts[r]) = Size(r) /\ next[r] <= Size(r)
    [] stage[r] = "recording" -> Len(verdicts[r]) = Size(r)
    [] OTHER -> verdicts[r] = <<>> /\ next[r] = 1

\* cosign() is tracked while it runs.
Tracked(r) == r \in inFlight <=> (stage[r] \in {"assessing", "signing"} /\ r \notin BatchRequest)

\* Once the server is closed no connection is left, and what shutdown() waits
\* for has been entered and is never entered again.
Draining ==
  /\ phase \in {"running", "closing", "draining", "quitting", "exited"}
  /\ phase \in {"running", "closing"} => drainSet = {}
  /\ phase \notin {"running", "closing"} => connections = {}
  /\ \A r \in Request : r \in drainSet => stage[r] \notin {"idle", "entering"} /\ r \notin BatchRequest
  /\ phase \in {"quitting", "exited"} /\ exitCode = 0 => drainSet \cap inFlight = {}

HandlerInv ==
  HandlerTypeOK /\ (\A r \in Request : Progress(r) /\ Tracked(r)) /\ Draining /\ ReturnedIsRecorded

\* What a step of the handler of r does.
Moves(r) ==
  /\ HandlerTypeOK' /\ Progress(r)' /\ Tracked(r)'
  /\ \A q \in Request \ {r} :
       /\ stage'[q] = stage[q] /\ verdicts'[q] = verdicts[q] /\ next'[q] = next[q]
       /\ answer'[q] = answer[q] /\ (q \in inFlight' <=> q \in inFlight)
  /\ r \in inFlight' => r \in inFlight \/ stage[r] = "entering"
  /\ stage'[r] \in {"idle", "entering"} => phase = "running"
  /\ connections' \subseteq connections \/ phase = "running"
  /\ UNCHANGED shutdownVars
  /\ audited \subseteq audited'
  /\ answer'[r] = "signed" =>
       answer[r] = "signed" \/ [request |-> r, index |-> 1, approved |-> TRUE] \in audited'

LEMMA SizePositive == \A r \in Request : Size(r) \in Nat \ {0}
BY CosigningAssumption DEF Size

LEMMA ProceedMoves ==
  ASSUME HandlerInv, NEW r \in Request, NEW vs \in Seq(BOOLEAN), NEW i \in Nat \ {0}, Proceed(r, vs, i),
         \/ stage[r] = "assessing" /\ Len(vs) <= Size(r)
         \/ stage[r] = "signing" /\ Len(vs) = Size(r),
         UNCHANGED <<connections, shutdownVars, answer>>, audited \subseteq audited'
  PROVE  Moves(r)
<1> DEFINE toSign == {j \in i..Size(r) : vs[j]}
<1>1. Size(r) \in Nat \ {0} /\ Len(vs) \in Nat
  BY SizePositive
<1>2. /\ stage[r] \in {"assessing", "signing"} /\ Tracked(r)
      /\ HandlerTypeOK
  BY DEF HandlerInv
<1>3. verdicts' = [verdicts EXCEPT ![r] = vs]
  BY DEF Proceed
<1>4. verdicts' \in [Request -> Seq(BOOLEAN)] /\ verdicts'[r] = vs
      /\ \A q \in Request \ {r} : verdicts'[q] = verdicts[q]
  BY <1>2, <1>3 DEF HandlerTypeOK
<1>5. ASSUME NEW s \in {"assessing", "signing", "recording"}, NEW k \in Nat \ {0},
             stage' = [stage EXCEPT ![r] = s], next' = [next EXCEPT ![r] = k],
             inFlight' = IF s = "recording" THEN inFlight \ {r} ELSE inFlight,
             s = "assessing" => Len(vs) < Size(r) /\ k = Len(vs) + 1,
             s = "signing" => Len(vs) = Size(r) /\ k <= Size(r),
             s = "recording" => Len(vs) = Size(r)
      PROVE  Moves(r)
  <2>1. /\ stage' \in [Request -> {"idle", "entering", "assessing", "signing", "recording", "done"}]
        /\ stage'[r] = s /\ \A q \in Request \ {r} : stage'[q] = stage[q]
    BY <1>2, <1>5 DEF HandlerTypeOK
  <2>2. /\ next' \in [Request -> Nat \ {0}]
        /\ next'[r] = k /\ \A q \in Request \ {r} : next'[q] = next[q]
    BY <1>2, <1>5 DEF HandlerTypeOK
  <2>3. HandlerTypeOK'
    BY <1>2, <1>4, <1>5, <2>1, <2>2 DEF HandlerTypeOK
  <2>4. Progress(r)'
    BY <1>4, <1>5, <2>1, <2>2 DEF Progress, Size
  <2>5. Tracked(r)'
    BY <1>2, <1>5, <2>1 DEF Tracked
  <2> QED BY <1>2, <1>4, <1>5, <2>1, <2>2, <2>3, <2>4, <2>5 DEF Moves, HandlerTypeOK
<1>6. CASE Len(vs) < Size(r)
  <2>1. stage' = stage /\ next' = [next EXCEPT ![r] = Len(vs) + 1] /\ inFlight' = inFlight /\ stage[r] = "assessing"
    BY <1>1, <1>6 DEF Proceed
  <2>2. stage' = [stage EXCEPT ![r] = "assessing"]
    BY <1>2, <2>1 DEF HandlerTypeOK
  <2>3. PICK k \in Nat \ {0} : k = Len(vs) + 1
    BY <1>1
  <2>4. inFlight' = IF "assessing" = "recording" THEN inFlight \ {r} ELSE inFlight
    BY <2>1
  <2>5. next' = [next EXCEPT ![r] = k]
    BY <2>1, <2>3
  <2> QED BY <1>5, <1>6, <2>2, <2>3, <2>4, <2>5
<1>7. CASE ~(Len(vs) < Size(r)) /\ toSign # {}
  <2>1. Goto(r, "signing") /\ next' = [next EXCEPT ![r] = Min(toSign)] /\ inFlight' = inFlight
    BY <1>7 DEF Proceed
  <2>2. Min(toSign) \in toSign
    <3>1. toSign \in SUBSET Nat
      BY <1>1
    <3> HIDE DEF toSign
    <3>2. PICK m \in toSign : \A k \in 0..(m - 1) : k \notin toSign
      BY <1>7, <3>1, LeastNat
    <3>3. \A k \in toSign : m <= k
      BY <3>1, <3>2
    <3> QED BY <3>2, <3>3 DEF Min
  <2>3. Min(toSign) \in Nat \ {0} /\ Min(toSign) <= Size(r)
    BY <1>1, <2>2
  <2>4. Len(vs) = Size(r)
    BY <1>1, <1>7
  <2> HIDE DEF toSign
  <2> QED BY <1>5, <2>1, <2>3, <2>4 DEF Goto
<1>8. CASE ~(Len(vs) < Size(r)) /\ toSign = {}
  <2>1. Goto(r, "recording") /\ next' = [next EXCEPT ![r] = 1] /\ inFlight' = inFlight \ {r}
    BY <1>8 DEF Proceed
  <2>2. Len(vs) = Size(r)
    BY <1>1, <1>8
  <2>3. inFlight' = IF "recording" = "recording" THEN inFlight \ {r} ELSE inFlight
    BY <2>1
  <2>4. stage' = [stage EXCEPT ![r] = "recording"] /\ next' = [next EXCEPT ![r] = 1] /\ 1 \in Nat \ {0}
    BY <2>1 DEF Goto
  <2> HIDE DEF toSign
  <2> QED BY <1>5, <2>2, <2>3, <2>4
<1> QED BY <1>6, <1>7, <1>8

LEMMA ReplyMoves ==
  ASSUME HandlerInv, NEW r \in Request, NEW a \in {"signed", "refused", "error"}, Reply(r, a),
         inFlight' = inFlight \ {r}, UNCHANGED shutdownVars, audited \subseteq audited',
         a = "signed" => [request |-> r, index |-> 1, approved |-> TRUE] \in audited'
  PROVE  Moves(r)
<1>1. HandlerTypeOK
  BY DEF HandlerInv
<1>2. /\ stage' = [stage EXCEPT ![r] = "done"]
      /\ verdicts' = [verdicts EXCEPT ![r] = <<>>] /\ next' = [next EXCEPT ![r] = 1]
      /\ answer' = IF r \in connections THEN [answer EXCEPT ![r] = a] ELSE answer
      /\ connections' = connections \ {r}
  BY DEF Reply, Goto
<1>3. /\ stage' \in [Request -> {"idle", "entering", "assessing", "signing", "recording", "done"}]
      /\ stage'[r] = "done" /\ \A q \in Request \ {r} : stage'[q] = stage[q]
  BY <1>1, <1>2 DEF HandlerTypeOK
<1>4. /\ verdicts' \in [Request -> Seq(BOOLEAN)]
      /\ verdicts'[r] = <<>> /\ \A q \in Request \ {r} : verdicts'[q] = verdicts[q]
  <2>1. <<>> \in Seq(BOOLEAN)
    OBVIOUS
  <2> QED BY <1>1, <1>2, <2>1 DEF HandlerTypeOK
<1>5. /\ next' \in [Request -> Nat \ {0}]
      /\ next'[r] = 1 /\ \A q \in Request \ {r} : next'[q] = next[q]
  BY <1>1, <1>2 DEF HandlerTypeOK
<1>6. /\ answer' \in [Request -> {"none", "signed", "refused", "error"}]
      /\ answer'[r] \in {answer[r], a} /\ \A q \in Request \ {r} : answer'[q] = answer[q]
  BY <1>1, <1>2 DEF HandlerTypeOK
<1>7. HandlerTypeOK'
  BY <1>1, <1>2, <1>3, <1>4, <1>5, <1>6 DEF HandlerTypeOK
<1>8. Progress(r)' /\ Tracked(r)'
  BY <1>3, <1>4, <1>5 DEF Progress, Tracked
<1> QED BY <1>2, <1>3, <1>4, <1>5, <1>6, <1>7, <1>8 DEF Moves

\* The steps that leave the stage of r before "done" and call nothing.
LEMMA EntryMoves ==
  ASSUME HandlerInv, NEW r \in Request, Receive(r) \/ Enter(r)
  PROVE  Moves(r)
<1>1. HandlerTypeOK /\ Progress(r) /\ Tracked(r) /\ Size(r) \in Nat \ {0}
  BY SizePositive DEF HandlerInv
<1>2. CASE Receive(r)
  <2>1. /\ stage[r] = "idle" /\ phase = "running" /\ stage' = [stage EXCEPT ![r] = "entering"]
        /\ connections' = connections \cup {r}
        /\ UNCHANGED <<inFlight, shutdownVars, verdicts, next, answer, audited>>
    BY <1>2 DEF Receive, Goto
  <2>2. /\ stage' \in [Request -> {"idle", "entering", "assessing", "signing", "recording", "done"}]
        /\ stage'[r] = "entering" /\ \A q \in Request \ {r} : stage'[q] = stage[q]
    BY <1>1, <2>1 DEF HandlerTypeOK
  <2>3. HandlerTypeOK'
    BY <1>1, <2>1, <2>2 DEF HandlerTypeOK
  <2>4. Progress(r)' /\ Tracked(r)'
    BY <1>1, <2>1, <2>2 DEF Progress, Tracked
  <2> QED BY <2>1, <2>2, <2>3, <2>4 DEF Moves
<1>3. CASE Enter(r)
  <2>1. /\ stage[r] = "entering" /\ stage' = [stage EXCEPT ![r] = "assessing"]
        /\ inFlight' = IF r \in BatchRequest THEN inFlight ELSE inFlight \cup {r}
        /\ UNCHANGED <<connections, shutdownVars, verdicts, next, answer, audited>>
    BY <1>3 DEF Enter, Goto
  <2>2. /\ stage' \in [Request -> {"idle", "entering", "assessing", "signing", "recording", "done"}]
        /\ stage'[r] = "assessing" /\ \A q \in Request \ {r} : stage'[q] = stage[q]
    BY <1>1, <2>1 DEF HandlerTypeOK
  <2>3. HandlerTypeOK'
    BY <1>1, <2>1, <2>2 DEF HandlerTypeOK
  <2>4. verdicts[r] = <<>> /\ next[r] = 1
    BY <1>1, <2>1 DEF Progress
  <2>5. Progress(r)'
    BY <1>1, <2>1, <2>2, <2>4 DEF Progress, Size
  <2>6. Tracked(r)'
    BY <1>1, <2>1, <2>2 DEF Tracked
  <2> QED BY <2>1, <2>2, <2>3, <2>5, <2>6 DEF Moves
<1> QED BY <1>2, <1>3

LEMMA AssessMoves ==
  ASSUME HandlerInv, NEW r \in Request,
         \/ stage[r] = "assessing" /\ UNCHANGED <<connections, shutdownVars, answer, audited>>
            /\ \E b \in BOOLEAN : Proceed(r, Append(verdicts[r], b), 1)
         \/ AssessThrows(r)
  PROVE  Moves(r)
<1>1. HandlerTypeOK /\ Progress(r) /\ Size(r) \in Nat \ {0}
  BY SizePositive DEF HandlerInv
<1>2. CASE stage[r] = "assessing" /\ UNCHANGED <<connections, shutdownVars, answer, audited>>
           /\ \E b \in BOOLEAN : Proceed(r, Append(verdicts[r], b), 1)
  <2>1. PICK b \in BOOLEAN : Proceed(r, Append(verdicts[r], b), 1)
    BY <1>2
  <2>2. verdicts[r] \in Seq(BOOLEAN) /\ Len(verdicts[r]) < Size(r)
    BY <1>1, <1>2 DEF HandlerTypeOK, Progress
  <2>3. Append(verdicts[r], b) \in Seq(BOOLEAN) /\ Len(Append(verdicts[r], b)) = Len(verdicts[r]) + 1
    BY <2>2
  <2> DEFINE vs == Append(verdicts[r], b)
  <2>4. vs \in Seq(BOOLEAN) /\ Len(vs) <= Size(r)
    <3>1. Len(verdicts[r]) \in Nat
      BY <2>2
    <3> QED BY <1>1, <2>2, <2>3, <3>1
  <2>5. Proceed(r, vs, 1)
    BY <2>1
  <2>6. stage[r] = "assessing" /\ 1 \in Nat \ {0} /\ audited \subseteq audited'
        /\ UNCHANGED <<connections, shutdownVars, answer>>
    BY <1>2
  <2> HIDE DEF vs
  <2> QED BY <2>4, <2>5, <2>6, ProceedMoves
<1>3. CASE AssessThrows(r)
  <2>1. Reply(r, "error") /\ inFlight' = inFlight \ {r} /\ UNCHANGED shutdownVars /\ audited \subseteq audited'
    BY <1>3 DEF AssessThrows
  <2> QED BY <2>1, ReplyMoves
<1> QED BY <1>2, <1>3

LEMMA SignMoves ==
  ASSUME HandlerInv, NEW r \in Request, Sign(r) \/ SignThrows(r)
  PROVE  Moves(r)
<1>1. HandlerTypeOK /\ Progress(r) /\ Size(r) \in Nat \ {0} /\ stage[r] = "signing"
  BY SizePositive DEF HandlerInv, Sign, SignThrows
<1>2. /\ verdicts[r] \in Seq(BOOLEAN) /\ Len(verdicts[r]) = Size(r)
      /\ next[r] \in 1..Size(r)
  BY <1>1 DEF HandlerTypeOK, Progress
<1>3. PICK i \in Nat \ {0} : i = next[r] + 1
  BY <1>1, <1>2
<1>4. CASE Sign(r)
  <2>1. Proceed(r, verdicts[r], i) /\ UNCHANGED <<connections, shutdownVars, answer>> /\ audited \subseteq audited'
    BY <1>3, <1>4 DEF Sign
  <2> QED BY <1>1, <1>2, <2>1, ProceedMoves
<1>5. CASE SignThrows(r) /\ r \in BatchRequest
  <2> DEFINE vs == [verdicts[r] EXCEPT ![next[r]] = FALSE]
  <2>1. vs \in Seq(BOOLEAN) /\ Len(vs) = Size(r)
    BY <1>1, <1>2
  <2>2. Proceed(r, [verdicts[r] EXCEPT ![next[r]] = FALSE], next[r] + 1)
        /\ UNCHANGED <<connections, shutdownVars, answer>> /\ audited \subseteq audited'
    BY <1>5 DEF SignThrows
  <2>3. Proceed(r, vs, i)
    BY <1>3, <2>2
  <2> HIDE DEF vs
  <2> QED BY <1>1, <2>1, <2>2, <2>3, ProceedMoves
<1>6. CASE SignThrows(r) /\ r \notin BatchRequest
  <2>1. Reply(r, "error") /\ inFlight' = inFlight \ {r} /\ UNCHANGED shutdownVars /\ audited \subseteq audited'
    BY <1>6 DEF SignThrows
  <2> QED BY <2>1, ReplyMoves
<1> QED BY <1>4, <1>5, <1>6

LEMMA RecordMoves ==
  ASSUME HandlerInv, NEW r \in Request, Record(r) \/ RecordThrows(r) \/ RecordBatch(r)
  PROVE  Moves(r)
<1>1. /\ HandlerTypeOK /\ Progress(r) /\ Tracked(r) /\ Size(r) \in Nat \ {0} /\ stage[r] = "recording"
  BY SizePositive DEF HandlerInv, Record, RecordThrows, RecordBatch
<1>2. inFlight' = inFlight /\ r \notin inFlight
  BY <1>1 DEF Tracked, Record, RecordThrows, RecordBatch
<1>3. inFlight' = inFlight \ {r}
  BY <1>2
<1>4. UNCHANGED shutdownVars /\ audited \subseteq audited'
  BY DEF Record, RecordThrows, RecordBatch
<1>5. verdicts[r][1] \in BOOLEAN
  <2>1. verdicts[r] \in Seq(BOOLEAN) /\ Len(verdicts[r]) = Size(r)
    BY <1>1 DEF HandlerTypeOK, Progress
  <2> QED BY <1>1, <2>1
<1>6. CASE Record(r) /\ verdicts[r][1]
  <2>1. Reply(r, "signed") /\ SingleEntry(r) \in audited'
    BY <1>6 DEF Record
  <2>2. verdicts[r][1] = TRUE
    BY <1>5, <1>6, Zenon
  <2>3. [request |-> r, index |-> 1, approved |-> TRUE] \in audited'
    BY <2>1, <2>2, Zenon DEF SingleEntry
  <2> QED BY <1>3, <1>4, <2>1, <2>3, ReplyMoves
<1>7. CASE Record(r) /\ ~verdicts[r][1]
  <2>1. Reply(r, "refused")
    BY <1>7 DEF Record
  <2> QED BY <1>3, <1>4, <2>1, ReplyMoves
<1>8. CASE RecordThrows(r) \/ RecordBatch(r)
  <2>1. Reply(r, "error")
    BY <1>8 DEF RecordThrows, RecordBatch
  <2> QED BY <1>3, <1>4, <2>1, ReplyMoves
<1> QED BY <1>6, <1>7, <1>8

\* The transaction that is assessed is one of the request's.
LEMMA AssessedTransaction ==
  ASSUME HandlerInv, NEW r \in Request, stage[r] = "assessing"
  PROVE  TransactionsOf[r][next[r]] \in Transaction
<1>1. HandlerTypeOK /\ Progress(r) /\ TransactionsOf[r] \in Seq(Transaction)
  BY CosigningAssumption DEF HandlerInv
<1>2. Len(verdicts[r]) \in Nat /\ Len(verdicts[r]) < Size(r) /\ next[r] = Len(verdicts[r]) + 1
  BY <1>1 DEF HandlerTypeOK, Progress
<1>3. next[r] \in 1..Len(TransactionsOf[r])
  BY <1>1, <1>2, SizePositive DEF Size
<1> QED BY <1>1, <1>3

LEMMA HandlerMoves ==
  ASSUME EngineInv, HandlerInv, NEW r \in Request, Handler(r)
  PROVE  Moves(r)
<1>1. CASE Assess(r)
  <2> DEFINE tx == TransactionsOf[r][next[r]]
             b == EvaluateWithAudit(tx).approved
  <2>1. /\ stage[r] = "assessing" /\ UNCHANGED <<connections, shutdownVars, answer, audited>>
        /\ Proceed(r, Append(verdicts[r], b), 1)
    BY <1>1 DEF Assess
  <2>2. b \in BOOLEAN
    <3>1. tx \in Transaction /\ EngineTypeOK
      BY <2>1, AssessedTransaction DEF EngineInv
    <3>2. EvaluateWithAudit(tx) \in Evaluations
      BY <3>1, EvaluationCounts
    <3> QED BY <3>2 DEF Evaluations
  <2> HIDE DEF b
  <2> QED BY <2>1, <2>2, AssessMoves
<1>2. CASE Decline(r)
  <2>1. /\ stage[r] = "assessing" /\ UNCHANGED <<connections, shutdownVars, answer, audited>>
        /\ Proceed(r, Append(verdicts[r], FALSE), 1)
    BY <1>2 DEF Decline
  <2> QED BY <2>1, AssessMoves
<1> QED BY <1>1, <1>2, EntryMoves, AssessMoves, SignMoves, RecordMoves DEF Handler

LEMMA MovesKeep ==
  ASSUME HandlerInv, NEW r \in Request, Moves(r)
  PROVE  HandlerInv'
<1>1. HandlerTypeOK' /\ UNCHANGED <<phase, drainSet, exitCode>> /\ Draining
  BY DEF HandlerInv, Moves, shutdownVars
<1>2. \A q \in Request : Progress(q)' /\ Tracked(q)'
  <2> SUFFICES ASSUME NEW q \in Request, q # r PROVE Progress(q)' /\ Tracked(q)'
    BY DEF Moves
  <2>1. /\ stage'[q] = stage[q] /\ verdicts'[q] = verdicts[q] /\ next'[q] = next[q]
        /\ (q \in inFlight' <=> q \in inFlight) /\ Progress(q) /\ Tracked(q)
    BY DEF Moves, HandlerInv
  <2> QED BY <2>1 DEF Progress, Tracked, Size
<1>3. /\ \A q \in Request \ {r} : stage'[q] = stage[q] /\ (q \in inFlight' <=> q \in inFlight)
      /\ r \in inFlight' => r \in inFlight \/ stage[r] = "entering"
      /\ stage'[r] \in {"idle", "entering"} => phase = "running"
      /\ connections' \subseteq connections \/ phase = "running"
      /\ inFlight' \subseteq Request
  BY <1>1 DEF Moves, HandlerTypeOK
<1>4. Draining'
  BY <1>1, <1>3 DEF Draining
<1>5. ReturnedIsRecorded'
  <2> SUFFICES ASSUME NEW q \in Request, answer'[q] = "signed"
               PROVE  [request |-> q, index |-> 1, approved |-> TRUE] \in audited'
    BY DEF ReturnedIsRecorded
  <2> QED BY DEF HandlerInv, ReturnedIsRecorded, Moves
<1> QED BY <1>1, <1>2, <1>4, <1>5 DEF HandlerInv

LEMMA HandlerInitially == Init => HandlerInv
<1> SUFFICES ASSUME Init PROVE HandlerInv
  OBVIOUS
<1>1. HandlerTypeOK
  BY DEF Init, LifecycleInit, HandlerTypeOK
<1>2. \A r \in Request : Progress(r) /\ Tracked(r)
  BY DEF Init, LifecycleInit, Progress, Tracked
<1>3. Draining
  BY DEF Init, LifecycleInit, Draining
<1>4. ReturnedIsRecorded
  BY DEF Init, ReturnedIsRecorded
<1> QED BY <1>1, <1>2, <1>3, <1>4 DEF HandlerInv

LEMMA HandlerSteps == EngineInv /\ HandlerInv /\ [Next]_vars => HandlerInv'
<1> SUFFICES ASSUME EngineInv, HandlerInv, [Next]_vars PROVE HandlerInv'
  OBVIOUS
\* A step of shutdown() or of a client.
<1>1. ASSUME UNCHANGED handlerVars, inFlight' = inFlight, connections' \subseteq connections, Draining'
      PROVE  HandlerInv'
  <2>1. HandlerTypeOK' /\ \A r \in Request : Progress(r)' /\ Tracked(r)'
    BY <1>1 DEF HandlerInv, HandlerTypeOK, Progress, Tracked, Size, handlerVars
  <2>2. ReturnedIsRecorded'
    BY <1>1 DEF HandlerInv, ReturnedIsRecorded, handlerVars
  <2> QED BY <1>1, <2>1, <2>2 DEF HandlerInv
<1>2. ASSUME NEW r \in Request, Handler(r) PROVE HandlerInv'
  BY <1>2, HandlerMoves, MovesKeep
<1>3. ASSUME NEW r \in Request, HangUp(r) PROVE HandlerInv'
  <2>1. UNCHANGED <<handlerVars, inFlight, shutdownVars>> /\ connections' \subseteq connections
    BY <1>3 DEF HangUp
  <2>2. Draining'
    BY <2>1 DEF HandlerInv, Draining, handlerVars, shutdownVars
  <2> QED BY <1>1, <2>1, <2>2
<1>4. CASE Edit \/ UNCHANGED vars
  <2>1. UNCHANGED <<handlerVars, inFlight, shutdownVars, connections>>
    BY <1>4 DEF Edit, vars, lifecycleVars, shutdownVars
  <2>2. Draining'
    BY <2>1 DEF HandlerInv, Draining, handlerVars, shutdownVars
  <2> QED BY <1>1, <2>1, <2>2
<1>5. CASE Stop \/ Shutdown
  <2>1. UNCHANGED <<handlerVars, inFlight, connections>>
    BY <1>5 DEF Stop, Shutdown, Sigterm, LifecycleNext, Drain, ServerClosed, Drained, DrainTimeout, Exit
  <2>2. stage' = stage /\ inFlight' = inFlight /\ connections' = connections
    BY <2>1 DEF handlerVars
  <2>3. Draining /\ \A r \in Request : Tracked(r)
    BY DEF HandlerInv
  <2>4. Draining'
    <3>1. CASE Sigterm
      BY <2>2, <2>3, <3>1 DEF Sigterm, Draining
    <3>2. CASE ServerClosed
      <4>1. drainSet' = inFlight /\ connections = {} /\ exitCode' = exitCode /\ inFlight \subseteq Request
            /\ \/ inFlight = {} /\ phase' = "quitting"
               \/ inFlight # {} /\ phase' = "draining"
        BY <3>2 DEF ServerClosed, HandlerInv, HandlerTypeOK
      <4> QED BY <2>2, <2>3, <4>1 DEF Draining, Tracked
    <3>3. CASE Drained
      BY <2>2, <2>3, <3>3 DEF Drained, Draining
    <3>4. CASE DrainTimeout
      BY <2>2, <2>3, <3>4 DEF DrainTimeout, Draining
    <3>5. CASE Exit
      BY <2>2, <2>3, <3>5 DEF Exit, Draining
    <3> QED BY <1>5, <3>1, <3>2, <3>3, <3>4, <3>5 DEF Stop, Shutdown, LifecycleNext, Drain
  <2> QED BY <1>1, <2>1, <2>4
<1> QED BY <1>2, <1>3, <1>4, <1>5 DEF Next

LEMMA EngineSteps == EngineInv /\ HandlerInv /\ [Next]_vars => EngineInv' /\ PaceStep
<1> SUFFICES ASSUME EngineInv, HandlerInv, [Next]_vars PROVE EngineInv' /\ PaceStep
  OBVIOUS
<1>1. ASSUME NEW r \in Request, Assess(r) PROVE EngineInv' /\ PaceStep
  <2>1. TransactionsOf[r][next[r]] \in Transaction /\ Evaluate(TransactionsOf[r][next[r]])
    BY <1>1, AssessedTransaction DEF Assess
  <2> QED BY <2>1, EvaluateKeeps
<1>2. CASE EngineNext
  BY <1>2, EngineKeeps
<1>3. CASE UNCHANGED engineVars
  BY <1>3, EngineStutters
<1>4. (\E r \in Request : Assess(r)) \/ EngineNext \/ UNCHANGED engineVars
  <2>1. ASSUME NEW r \in Request, Handler(r) \/ HangUp(r)
        PROVE  Assess(r) \/ UNCHANGED engineVars
    BY <2>1 DEF Handler, HangUp, Receive, Enter, Decline, AssessThrows, Sign, SignThrows, Record,
                RecordThrows, RecordBatch
  <2>2. Edit => EngineNext
    BY DEF Edit
  <2>3. Stop \/ Shutdown \/ UNCHANGED vars => UNCHANGED engineVars
    BY DEF Stop, Shutdown, vars
  <2> QED BY <2>1, <2>2, <2>3 DEF Next
<1> QED BY <1>1, <1>2, <1>3, <1>4

---------------------------------------------------------------------------
(* Theorems *)

CosigningInv == EngineInv /\ HandlerInv

\* In every reachable state of one process the list of times has its type and
\* counts what was approved, and handlers and shutdown are where they say they are.
THEOREM CosigningInvariant == Spec => []CosigningInv
<1>1. Init => CosigningInv
  BY EngineInitially, HandlerInitially DEF Init, CosigningInv
<1>2. CosigningInv /\ [Next]_vars => CosigningInv'
  BY HandlerSteps, EngineSteps DEF CosigningInv
<1> QED BY <1>1, <1>2, PTL DEF Spec

\* engine.ts: under any sequence of policies, evaluations, removals and ticks, an
\* approval leaves every velocity rule in force with no more than it allows, unless
\* the list was pruned inside its window.
THEOREM VelocityKept == Spec => VelocityHolds
<1>1. CosigningInv /\ [Next]_vars => [PaceStep]_engineVars
  BY EngineSteps DEF CosigningInv
<1>2. Spec => [][PaceStep]_engineVars
  BY <1>1, CosigningInvariant, PTL DEF Spec
<1> QED BY <1>2 DEF PaceStep, VelocityHolds

\* engine.ts:223: in every state, and under policies whose rules do not throw, the
\* dry run approves what evaluation would.
THEOREM DryRunIsSafe == Spec => []DryRunAgrees
<1>1. CosigningInv => DryRunAgrees
  BY DryRunAlwaysAgrees DEF CosigningInv, EngineInv
<1> QED BY <1>1, CosigningInvariant, PTL

\* server.ts: a client that has received a signature finds the approval audited.
THEOREM SignaturesAreRecorded == Spec => []ReturnedIsRecorded
<1>1. CosigningInv => ReturnedIsRecorded
  BY DEF CosigningInv, HandlerInv
<1> QED BY <1>1, CosigningInvariant, PTL

\* lifecycle.ts: a process that has exited has drained.
THEOREM ExitsAreDrained == Spec => []DrainedBeforeExit
<1>1. CosigningInv => DrainedBeforeExit
  <2> SUFFICES ASSUME HandlerInv, phase = "exited", NEW r \in Request
               PROVE  /\ stage[r] \in Active => r \notin connections
                      /\ r \in drainSet /\ exitCode = 0 => stage[r] \notin {"assessing", "signing"}
    BY DEF CosigningInv, DrainedBeforeExit
  <2>1. connections = {}
    BY DEF HandlerInv, Draining
  <2>2. ASSUME r \in drainSet, exitCode = 0 PROVE stage[r] \notin {"assessing", "signing"}
    BY <2>2 DEF HandlerInv, Draining, Tracked
  <2> QED BY <2>1, <2>2
<1> QED BY <1>1, CosigningInvariant, PTL
=============================================================================
