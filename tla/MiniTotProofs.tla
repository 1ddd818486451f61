---------------------------- MODULE MiniTotProofs ----------------------------
(* Proofs about MiniTot for any requests, budgets, pool sizes and retries. *)
EXTENDS MiniTot, FiniteSetTheorems, TLAPS

BranchRow == [state : {"submitted", "calling", "done"}, attempt : Nat,
              score : Scores \cup {0}, result : BOOLEAN]
State == Scores \cup {0, QuestionScore}
Searching == {"normal", "bfs", "dfs"}

(* What TypeOK says of each variable, to be cited by name. *)
LEMMA TypeParts ==
  ASSUME TypeOK
  PROVE  /\ call.mode \in Modes /\ call.effort \in Efforts /\ call.stream \in BOOLEAN
         /\ step \in {"idle", "expanding", "analysing", "answering", "done", "failed"}
         /\ level \in Nat /\ position \in Nat /\ candidates \in Nat /\ attempt \in Nat
         /\ frontier \in Seq(State)
         /\ branch \in Seq(BranchRow)
         /\ budget \in [calls : Nat, usage : Nat]
         /\ reply \in [deltas : BOOLEAN, usage : Nat]
         /\ posted \in Nat /\ answered \in Nat
BY DEF TypeOK, State, BranchRow

LEMMA Budgets ==
  ASSUME TypeOK
  PROVE  /\ Reserved \in [calls : Nat, usage : Nat]
         /\ Recorded \in [calls : Nat, usage : Nat]
         /\ Reserved.calls = budget.calls + 1 /\ Reserved.usage = budget.usage
         /\ Recorded.calls = budget.calls /\ Recorded.usage = budget.usage + 1
BY TypeParts DEF Reserved, Recorded

LEMMA Tables ==
  ASSUME NEW e \in Efforts
  PROVE  /\ CriticalCount[e] \in Nat /\ ExpandCount[e] \in Nat
         /\ BeamDepth[e] \in Nat /\ DfsDepth[e] \in Nat
         /\ BeamWidth[e] \in Nat /\ BeamWidth[e] >= 1
         /\ PruneBelow[e] \in Nat /\ AcceptFrom[e] \in Nat
         /\ AtLeastOne(MaxCallsOf[e]) \in Nat /\ AtLeastOne(MaxCallsOf[e]) >= 1
BY SettingsAreNaturals DEF Efforts, CriticalCount, ExpandCount, BeamDepth, DfsDepth, BeamWidth,
   PruneBelow, AcceptFrom, AtLeastOne

LEMMA Resolved ==
  ASSUME NEW r \in Requests, NEW e \in EffectiveEfforts(r)
  PROVE  e \in Efforts /\ r.stream \in BOOLEAN
<1>1. /\ r.effort \in Efforts \cup {"smart"} /\ r.thinking \in BOOLEAN /\ r.stream \in BOOLEAN
  BY RequestsAreNormalized
<1>2. CASE r.effort # "smart"
  BY <1>1, <1>2 DEF EffectiveEfforts, Efforts
<1>3. CASE r.effort = "smart" /\ r.thinking
  BY <1>1, <1>3 DEF EffectiveEfforts, Efforts
<1>4. CASE r.effort = "smart" /\ ~r.thinking
  BY <1>1, <1>4 DEF EffectiveEfforts, Efforts
<1> QED
  BY <1>1, <1>2, <1>3, <1>4

(* Rows a branch may get. *)
LEMMA Rows ==
  /\ Submitted \in BranchRow /\ Dropped \in BranchRow
  /\ \A k \in Nat : Calling(k) \in BranchRow
  /\ \A s \in Scores : Analysed(s) \in BranchRow
BY DEF Submitted, Dropped, Calling, Analysed, BranchRow

LEMMA RowParts ==
  ASSUME NEW b \in BranchRow
  PROVE  b.score \in Scores \cup {0} /\ b.score \in Nat /\ b.attempt \in Nat
<1>1. b.score \in Scores \cup {0} /\ b.attempt \in Nat
  BY DEF BranchRow
<1>2. \A x \in Scores \cup {0} : x \in Nat
  BY SettingsAreNaturals
<1> QED
  BY <1>1, <1>2

(* Writing one row of the pool. *)
LEMMA WriteRow ==
  ASSUME branch \in Seq(BranchRow), NEW i \in DOMAIN branch, NEW b \in BranchRow, SetBranch(i, b)
  PROVE  /\ branch' \in Seq(BranchRow)
         /\ DOMAIN branch' = DOMAIN branch
         /\ branch'[i] = b /\ \A j \in DOMAIN branch : j # i => branch'[j] = branch[j]
BY DEF SetBranch

(* A ranking is a sequence of scores of the set, not empty unless the set  *)
(* is, no longer than asked for, and the best first.                       *)
LEMMA Ranked ==
  ASSUME branch \in Seq(BranchRow), NEW S, S \subseteq DOMAIN branch, NEW n \in Nat, n >= 1,
         NEW f \in Rankings(S, n)
  PROVE  /\ f \in Seq(State)
         /\ Len(f) \in 0..n /\ (S # {} => Len(f) >= 1)
         /\ \A i \in 2..Len(f) : f[i] <= f[i-1]
         /\ \A i \in 1..Len(f) : \E x \in S : f[i] = Score(x)
         /\ \A i \in 1..Len(f) : f[i] \in Nat
<1>1. IsFiniteSet(S) /\ Cardinality(S) \in Nat /\ (S # {} => Cardinality(S) >= 1)
  <2>1. IsFiniteSet(DOMAIN branch)
    BY FS_Interval
  <2>2. IsFiniteSet(S)
    BY <2>1, FS_Subset
  <2>3. Cardinality(S) \in Nat /\ (Cardinality(S) = 0 <=> S = {})
    BY <2>2, FS_CardinalityType, FS_EmptySet
  <2> QED
    BY <2>2, <2>3
<1> DEFINE k == Least(n, Cardinality(S))
<1>2. k \in 0..n /\ (S # {} => k >= 1)
  BY <1>1 DEF Least
<1>3. f \in [1..k -> {Score(i) : i \in S}]
  BY DEF Rankings
<1>4. \A x \in S : Score(x) \in Scores \cup {0} /\ Score(x) \in Nat
  <2>1. \A x \in S : branch[x] \in BranchRow
    OBVIOUS
  <2> QED
    BY <2>1, RowParts DEF Score
<1>5. PICK p \in [1..k -> S] :
        /\ \A i, j \in 1..k : i < j => p[i] # p[j] /\ Score(p[i]) >= Score(p[j])
        /\ \A i \in 1..k, x \in S \ {p[j] : j \in 1..k} : Score(p[i]) >= Score(x)
        /\ f = [i \in 1..k |-> Score(p[i])]
  BY DEF Rankings, Best
<1> HIDE DEF k
<1>6. /\ Len(f) = k /\ f \in Seq(State)
      /\ \A i \in 1..k : p[i] \in S /\ f[i] = Score(p[i]) /\ f[i] \in Nat
  <2>1. \A i \in 1..k : p[i] \in S
    BY <1>5
  <2>2. \A i \in 1..k : f[i] = Score(p[i])
    BY <1>5
  <2>3. \A i \in 1..k : f[i] \in State /\ f[i] \in Nat
    BY <1>4, <2>1, <2>2 DEF State
  <2>4. f \in [1..k -> State] /\ k \in Nat
    BY <1>2, <1>3, <2>3
  <2> QED
    BY <2>1, <2>2, <2>3, <2>4
<1>7. \A i \in 2..k : f[i] <= f[i-1]
  <2> TAKE i \in 2..k
  <2>1. i - 1 \in 1..k /\ i \in 1..k /\ i - 1 < i
    BY <1>2
  <2>2. Score(p[i-1]) >= Score(p[i])
    BY <1>5, <2>1
  <2> QED
    BY <1>6, <2>1, <2>2
<1> QED
  BY <1>2, <1>6, <1>7
(* The same for a set that is not empty. *)
LEMMA RankedBest ==
  ASSUME branch \in Seq(BranchRow), NEW S, S \subseteq DOMAIN branch, S # {},
         NEW n, n \in Nat, n >= 1, NEW f, f \in Rankings(S, n)
  PROVE  Len(f) \in 1..n /\ \A i \in 2..Len(f) : f[i] <= f[i-1]
<1>1. /\ Len(f) \in 0..n /\ Len(f) >= 1
      /\ \A i \in 2..Len(f) : f[i] <= f[i-1]
  BY Ranked
<1> QED
  BY <1>1

(* The first of a ranking of one is the score of a member. *)
LEMMA BestOfOne ==
  ASSUME branch \in Seq(BranchRow), NEW S, S \subseteq DOMAIN branch, S # {},
         NEW f \in Rankings(S, 1)
  PROVE  Len(f) = 1 /\ \E x \in S : f[1] = Score(x)
<1>1. /\ Len(f) \in 0..1 /\ Len(f) >= 1
      /\ \A i \in 1..Len(f) : \E x \in S : f[i] = Score(x)
  <2>1. 1 \in Nat /\ 1 >= 1
    OBVIOUS
  <2> QED
    BY <2>1, Ranked
<1>2. Len(f) = 1 /\ 1 \in 1..Len(f)
  BY <1>1
<1> QED
  BY <1>1, <1>2
-----------------------------------------------------------------------------
(* What the steps of the search do to the pool. *)
LEMMA StartPoolRows ==
  ASSUME NEW n \in Nat, StartPool(n)
  PROVE  branch' \in Seq(BranchRow) /\ InFlight' = {} /\ step' = "analysing" /\ attempt' = 0
<1>1. branch' = [i \in 1..n |-> Submitted]
  BY DEF StartPool
<1>2. branch' \in Seq(BranchRow)
  BY <1>1, Rows
<1> QED
  BY <1>1, <1>2 DEF StartPool, InFlight, Submitted

(* The end of an expansion keeps the types and starts no request of a      *)
(* branch.                                                                 *)
LEMMA ExpandedRows ==
  ASSUME TypeOK, NEW n \in Nat, Expanded(n), InFlight = {}
  PROVE  /\ branch' \in Seq(BranchRow) /\ InFlight' = {}
         /\ step # "analysing" /\ step' = "analysing" => attempt' = 0
         /\ step' \in {step, "analysing", "answering"}
         /\ frontier' = frontier /\ level' = level
         /\ position' \in Nat /\ candidates' \in Nat /\ attempt' \in Nat /\ posted' \in Nat
<1> DEFINE found == candidates + n
<1>1. found \in Nat /\ position + 1 \in Nat /\ posted + 1 \in Nat
  BY TypeParts
<1>2. CASE /\ position < Len(frontier)
           /\ position' = position + 1 /\ candidates' = found /\ attempt' = 0
           /\ UNCHANGED <<step, level, frontier, branch, posted>>
  BY <1>1, <1>2, TypeParts DEF InFlight
<1>3. CASE /\ position = Len(frontier) /\ found > 0
           /\ StartPool(found) /\ candidates' = found
           /\ UNCHANGED <<level, frontier, position, posted>>
  BY <1>1, <1>3, TypeParts, StartPoolRows
<1>4. CASE /\ position = Len(frontier) /\ found = 0
           /\ StartAnswer
           /\ UNCHANGED search
  BY <1>1, <1>4, TypeParts DEF StartAnswer, search, InFlight
<1> QED
  BY <1>2, <1>3, <1>4 DEF Expanded

(* A finished pool has nothing in flight. *)
LEMMA DonePool == ASSUME PoolIsDone PROVE InFlight = {}
BY DEF PoolIsDone, InFlight

(* A chosen ranking, as the frontier of the next level or of the answer. *)
LEMMA AnswersParts ==
  ASSUME TypeOK, NEW f, Answers(f)
  PROVE  /\ step' = "answering" /\ attempt' = 1 /\ posted' = posted + 1 /\ frontier' = f
         /\ UNCHANGED <<call, level, position, candidates, branch, budget, reply, answered>>
BY DEF Answers, StartAnswer

LEMMA DescendsParts ==
  ASSUME TypeOK, NEW f, Descends(f)
  PROVE  /\ step' = "expanding" /\ attempt' = 0 /\ frontier' = f /\ branch' = <<>>
         /\ level' = level + 1 /\ position' = 1 /\ candidates' = 0
         /\ UNCHANGED <<call, budget, reply, posted, answered>>
BY DEF Descends, StartLevel

LEMMA Subsets ==
  /\ Results \subseteq DOMAIN branch /\ Viable \subseteq Results
  /\ InFlight \subseteq DOMAIN branch
BY DEF Results, Viable, InFlight

(* A join answers with, or descends to, the old frontier or a ranking of   *)
(* the results.                                                            *)
LEMMA JoinChoice ==
  ASSUME TypeOK, Join
  PROVE  /\ PoolIsDone
         /\ \E f : /\ Answers(f) \/ Descends(f)
                   /\ \/ f = frontier
                      \/ call.mode = "critical" /\ f \in Rankings(Results, BeamWidth[call.effort])
                      \/ /\ call.mode \in {"bfs", "normal"} /\ Results # {}
                         /\ f \in Rankings(Results, BeamWidth[call.effort])
                      \/ call.mode = "dfs" /\ Viable # {} /\ f \in Rankings(Viable, 1)
<1>1. CASE CriticalJoin
  BY <1>1, Zenon DEF CriticalJoin
<1>2. CASE BeamJoin
  BY <1>2, Zenon DEF BeamJoin
<1>3. CASE DfsJoin
  BY <1>3, Zenon DEF DfsJoin
<1> QED
  BY <1>1, <1>2, <1>3 DEF Join

LEMMA TypeSearch == ASSUME TypeOK, Chat \/ Expand \/ Retry, InFlight # {} => step = "analysing" PROVE TypeOK'
<1> USE TypeParts
<1> USE DEF State, BranchRow
<1>1. ASSUME NEW r \in Requests, NEW e \in EffectiveEfforts(r), ChatDirect(r, e) PROVE TypeOK'
  BY <1>1, Resolved DEF ChatDirect, StartAnswer, search, TypeOK, Modes
<1>2. ASSUME NEW r \in Requests, NEW e \in EffectiveEfforts(r), ChatCritical(r, e) PROVE TypeOK'
  <2>1. e \in Efforts /\ r.stream \in BOOLEAN /\ CriticalCount[e] \in Nat
    BY Resolved, Tables
  <2>2. branch' \in Seq(BranchRow) /\ step' = "analysing" /\ attempt' = 0
    BY <1>2, <2>1, StartPoolRows DEF ChatCritical
  <2> QED
    BY <1>2, <2>1, <2>2 DEF ChatCritical, TypeOK, Modes
<1>3. ASSUME NEW r \in Requests, NEW e \in EffectiveEfforts(r), ChatSearch(r, e) PROVE TypeOK'
  <2>1. ResolveMode(r, e) \in Modes
    BY <1>3 DEF ChatSearch, Modes
  <2>2. <<QuestionScore>> \in Seq(State) /\ <<>> \in Seq(BranchRow)
    OBVIOUS
  <2> QED
    BY <1>3, <2>1, <2>2, Resolved DEF ChatSearch, StartLevel, TypeOK
<1>4. CASE ExpandPost
  BY <1>4, Budgets DEF ExpandPost, search, TypeOK
<1>5. ASSUME NEW n \in Nat, step = "expanding", Expanded(n), budget' \in {budget, Recorded},
             answered' \in {answered, answered + 1}, UNCHANGED <<call, reply>>
      PROVE  TypeOK'
  <2>1. InFlight = {}
    BY <1>5
  <2>2. /\ branch' \in Seq(BranchRow) /\ step' \in {step, "analysing", "answering"}
        /\ frontier' = frontier /\ level' = level
        /\ position' \in Nat /\ candidates' \in Nat /\ attempt' \in Nat /\ posted' \in Nat
    BY <1>5, <2>1, ExpandedRows
  <2>3. budget' \in [calls : Nat, usage : Nat] /\ answered' \in Nat
    BY <1>5, Budgets
  <2> QED
    BY <1>5, <2>2, <2>3 DEF TypeOK
<1>6. CASE ExpandRefused
  BY <1>5, <1>6 DEF ExpandRefused
<1>7. CASE ExpandAnswer
  <2>1. ExpandCount[call.effort] \in Nat
    BY Tables
  <2>2. PICK n \in 0..ExpandCount[call.effort] : Expanded(n)
    BY <1>7 DEF ExpandAnswer
  <2> QED
    BY <1>5, <1>7, <2>1, <2>2 DEF ExpandAnswer
<1>8. CASE ExpandFails
  BY <1>5, <1>8 DEF ExpandFails
<1>9. CASE Retry
  BY <1>9 DEF Retry, search, TypeOK
<1> QED
  BY <1>1, <1>2, <1>3, <1>4, <1>6, <1>7, <1>8, <1>9 DEF Chat, Expand

LEMMA TypeThread ==
  ASSUME TypeOK, NEW i \in DOMAIN branch, Thread(i)
  PROVE  /\ TypeOK'
         /\ DOMAIN branch' = DOMAIN branch
         /\ \A j \in DOMAIN branch : j # i => branch'[j] = branch[j]
<1> USE TypeParts
<1>1. \A b \in BranchRow : SetBranch(i, b) =>
        /\ branch' \in Seq(BranchRow) /\ DOMAIN branch' = DOMAIN branch
        /\ \A j \in DOMAIN branch : j # i => branch'[j] = branch[j]
  BY WriteRow
<1>2. PICK b \in BranchRow : SetBranch(i, b)
  <2>1. branch[i] \in BranchRow
    OBVIOUS
  <2>2. branch[i].attempt \in Nat /\ branch[i].attempt + 1 \in Nat
    BY <2>1, RowParts
  <2> QED
    BY <2>2, Rows DEF Thread, BranchPost, BranchRefused, BranchRetry, BranchAnswer, BranchFails
<1>3. /\ UNCHANGED <<call, step, level, frontier, position, candidates, attempt, reply>>
      /\ budget' \in {budget, Reserved, Recorded}
      /\ posted' \in {posted, posted + 1} /\ answered' \in {answered, answered + 1}
  BY DEF Thread, BranchPost, BranchRefused, BranchRetry, BranchAnswer, BranchFails
<1> QED
  BY <1>1, <1>2, <1>3, Budgets DEF TypeOK, State, BranchRow

LEMMA TypeJoin == ASSUME TypeOK, Join PROVE TypeOK'
<1> USE TypeParts
<1>1. PICK f : /\ Answers(f) \/ Descends(f)
               /\ \/ f = frontier
                  \/ f \in Rankings(Results, BeamWidth[call.effort])
                  \/ f \in Rankings(Viable, 1)
  BY JoinChoice
<1>2. BeamWidth[call.effort] \in Nat /\ BeamWidth[call.effort] >= 1
  BY Tables
<1>3. f \in Seq(State)
  <2>1. CASE f = frontier
    BY <2>1
  <2>2. CASE f \in Rankings(Results, BeamWidth[call.effort])
    BY <1>2, <2>2, Ranked, Subsets
  <2>3. CASE f \in Rankings(Viable, 1)
    <3>1. Viable \subseteq DOMAIN branch /\ 1 \in Nat /\ 1 >= 1
      BY Subsets
    <3> QED
      BY <2>3, <3>1, Ranked
  <2> QED
    BY <1>1, <2>1, <2>2, <2>3
<1>4. CASE Answers(f)
  BY <1>3, <1>4, AnswersParts DEF TypeOK, State, BranchRow
<1>5. CASE Descends(f)
  <2>1. /\ step' = "expanding" /\ attempt' = 0 /\ level' \in Nat /\ position' = 1
        /\ candidates' = 0 /\ branch' \in Seq(BranchRow) /\ frontier' \in Seq(State)
    <3>1. <<>> \in Seq(BranchRow)
      OBVIOUS
    <3>2. /\ step' = "expanding" /\ attempt' = 0 /\ frontier' = f /\ branch' = <<>>
          /\ level' = level + 1 /\ position' = 1 /\ candidates' = 0
      BY <1>5, DescendsParts
    <3> QED
      BY <1>3, <3>1, <3>2
  <2>2. UNCHANGED <<call, budget, reply, posted, answered>>
    BY <1>5, DescendsParts
  <2> QED
    BY <2>1, <2>2 DEF TypeOK, State, BranchRow
<1> QED
  BY <1>1, <1>4, <1>5

LEMMA TypeAnswer == ASSUME TypeOK, Answer \/ AnswerDelta PROVE TypeOK'
<1> USE TypeParts
<1>1. CASE AnswerArrives
  <2>1. Total \in Nat
    <3>1. budget.usage \in Nat
      OBVIOUS
    <3> QED
      BY <3>1 DEF Total
  <2>2. reply' \in [deltas : BOOLEAN, usage : Nat] /\ answered' \in Nat
    BY <1>1, <2>1 DEF AnswerArrives
  <2> QED
    BY <1>1, <2>2 DEF AnswerArrives, search, TypeOK, State, BranchRow
<1>2. CASE AnswerFails
  BY <1>2 DEF AnswerFails, search, TypeOK, State, BranchRow
<1>3. CASE AnswerDelta
  BY <1>3 DEF AnswerDelta, search, TypeOK, State, BranchRow
<1> QED
  BY <1>1, <1>2, <1>3 DEF Answer
-----------------------------------------------------------------------------
(* Requests in flight.  Outside the pool there are none, which is what the *)
(* other steps need.                                                       *)
LEMMA LimitSearch ==
  ASSUME TypeOK, RequestsWithinLimit, Chat \/ Expand \/ Retry
  PROVE  RequestsWithinLimit'
<1> USE TypeParts
<1>0. Cardinality({}) <= AtLeastOne(MaxParallel)
  BY FS_EmptySet, SettingsAreNaturals DEF AtLeastOne
<1>1. step = "analysing" \/ InFlight = {}
  BY DEF RequestsWithinLimit
<1>2. InFlight' = {} /\ (step' = "analysing" => attempt' = 0)
  <2>1. ASSUME NEW r \in Requests, NEW e \in EffectiveEfforts(r), ChatDirect(r, e)
        PROVE  InFlight' = {} /\ step' # "analysing"
    BY <1>1, <2>1 DEF ChatDirect, StartAnswer, search, InFlight
  <2>2. ASSUME NEW r \in Requests, NEW e \in EffectiveEfforts(r), ChatCritical(r, e)
        PROVE  InFlight' = {} /\ attempt' = 0
    <3>1. e \in Efforts /\ CriticalCount[e] \in Nat
      BY Resolved, Tables
    <3> QED
      BY <2>2, <3>1, StartPoolRows DEF ChatCritical
  <2>3. ASSUME NEW r \in Requests, NEW e \in EffectiveEfforts(r), ChatSearch(r, e)
        PROVE  InFlight' = {} /\ attempt' = 0
    BY <2>3 DEF ChatSearch, StartLevel, InFlight
  <2>4. ASSUME NEW n \in Nat, step = "expanding", Expanded(n)
        PROVE  InFlight' = {} /\ (step' = "analysing" => attempt' = 0)
    BY <1>1, <2>4, ExpandedRows
  <2>5. CASE ExpandPost
    BY <1>1, <2>5 DEF ExpandPost, search, InFlight
  <2>6. CASE ExpandRefused \/ ExpandFails
    BY <2>4, <2>6 DEF ExpandRefused, ExpandFails
  <2>7. CASE ExpandAnswer
    <3>1. ExpandCount[call.effort] \in Nat
      BY Tables
    <3>2. PICK n \in 0..ExpandCount[call.effort] : Expanded(n)
      BY <2>7 DEF ExpandAnswer
    <3> QED
      BY <2>4, <2>7, <3>1, <3>2 DEF ExpandAnswer
  <2>8. CASE Retry
    BY <1>1, <2>8 DEF Retry, search, InFlight
  <2> QED
    BY <2>1, <2>2, <2>3, <2>5, <2>6, <2>7, <2>8 DEF Chat, Expand
<1> QED
  BY <1>0, <1>2 DEF RequestsWithinLimit

LEMMA LimitThread ==
  ASSUME TypeOK, RequestsWithinLimit, NEW i \in DOMAIN branch, Thread(i)
  PROVE  RequestsWithinLimit'
<1> USE TypeParts
<1>1. /\ DOMAIN branch' = DOMAIN branch
      /\ \A j \in DOMAIN branch : j # i => branch'[j] = branch[j]
  BY TypeThread
<1>2. IsFiniteSet(InFlight) /\ Cardinality(InFlight) \in Nat
  <2>1. IsFiniteSet(DOMAIN branch)
    BY FS_Interval
  <2> QED
    BY <2>1, Subsets, FS_Subset, FS_CardinalityType
<1>3. step = "analysing" /\ step' = step /\ attempt' = 0
  <2>1. step = "analysing" \/ InFlight # {}
    BY DEF Thread, BranchPost, BranchRefused, BranchRetry, BranchAnswer, BranchFails, Takes
  <2>2. UNCHANGED <<step, attempt>>
    BY DEF Thread, BranchPost, BranchRefused, BranchRetry, BranchAnswer, BranchFails
  <2> QED
    BY <2>1, <2>2 DEF RequestsWithinLimit
<1>4. ASSUME \/ branch'[i].state # "calling"
             \/ branch[i].state = "calling"
             \/ Cardinality(InFlight) < PoolSize
      PROVE  Cardinality(InFlight') <= AtLeastOne(MaxParallel)
  <2>1. InFlight' \subseteq InFlight \cup {i}
    BY <1>1 DEF InFlight
  <2>2. Cardinality(InFlight) <= AtLeastOne(MaxParallel) /\ AtLeastOne(MaxParallel) \in Nat
    BY SettingsAreNaturals DEF RequestsWithinLimit, AtLeastOne
  <2>3. CASE InFlight' \subseteq InFlight
    <3>1. Cardinality(InFlight') <= Cardinality(InFlight) /\ Cardinality(InFlight') \in Nat
      BY <1>2, <2>3, FS_Subset, FS_CardinalityType
    <3> QED
      BY <1>2, <2>2, <3>1
  <2>4. CASE ~(InFlight' \subseteq InFlight)
    <3>1. branch'[i].state = "calling" /\ branch[i].state # "calling" /\ InFlight' = InFlight \cup {i}
      BY <1>1, <2>1, <2>4 DEF InFlight
    <3>2. i \notin InFlight
      BY <3>1 DEF InFlight
    <3>3. Cardinality(InFlight') = Cardinality(InFlight) + 1
      BY <1>2, <3>1, <3>2, FS_AddElement
    <3>4. PoolSize <= AtLeastOne(MaxParallel) /\ PoolSize \in Nat
      BY SettingsAreNaturals DEF PoolSize, AtLeastOne, Least
    <3> QED
      BY <1>2, <1>4, <2>2, <3>1, <3>3, <3>4
  <2> QED
    BY <2>3, <2>4
<1>5. \/ branch'[i].state # "calling"
      \/ branch[i].state = "calling"
      \/ Cardinality(InFlight) < PoolSize
  <2>1. \A b \in BranchRow : SetBranch(i, b) => branch'[i] = b
    BY WriteRow
  <2>2. CASE BranchPost(i)
    BY <2>2 DEF BranchPost, Takes
  <2>3. CASE BranchRefused(i) \/ BranchFails(i)
    BY <2>1, <2>3, Rows DEF BranchRefused, BranchFails, Dropped
  <2>4. CASE BranchRetry(i) \/ BranchAnswer(i)
    BY <2>4 DEF BranchRetry, BranchAnswer, InFlight
  <2> QED
    BY <2>2, <2>3, <2>4 DEF Thread
<1> QED
  BY <1>3, <1>4, <1>5 DEF RequestsWithinLimit

LEMMA LimitJoin ==
  ASSUME TypeOK, RequestsWithinLimit, Join
  PROVE  RequestsWithinLimit'
<1>1. PICK f : Answers(f) \/ Descends(f)
  BY JoinChoice
<1>2. InFlight = {}
  BY JoinChoice, DonePool
<1>3. InFlight' = {} /\ step' # "analysing"
  <2>1. CASE Answers(f)
    BY <1>2, <2>1, AnswersParts DEF InFlight
  <2>2. CASE Descends(f)
    BY <2>2, DescendsParts DEF InFlight
  <2> QED
    BY <1>1, <2>1, <2>2
<1>4. Cardinality({}) <= AtLeastOne(MaxParallel)
  BY FS_EmptySet, SettingsAreNaturals DEF AtLeastOne
<1> QED
  BY <1>3, <1>4 DEF RequestsWithinLimit

LEMMA LimitAnswer ==
  ASSUME TypeOK, RequestsWithinLimit, Answer \/ AnswerDelta
  PROVE  RequestsWithinLimit'
<1>1. step = "answering" /\ step' # "analysing" /\ UNCHANGED branch
  BY TypeParts DEF Answer, AnswerArrives, AnswerFails, AnswerDelta, search
<1> QED
  BY <1>1 DEF RequestsWithinLimit, InFlight

LEMMA LimitStep ==
  ASSUME TypeOK, RequestsWithinLimit, [Next]_vars
  PROVE  TypeOK' /\ RequestsWithinLimit'
<1>0. InFlight # {} => step = "analysing"
  BY DEF RequestsWithinLimit
<1>1. CASE Chat \/ Expand \/ Retry
  BY <1>0, <1>1, TypeSearch, LimitSearch
<1>2. CASE Join
  BY <1>2, TypeJoin, LimitJoin
<1>3. CASE Answer \/ AnswerDelta
  BY <1>3, TypeAnswer, LimitAnswer
<1>4. CASE \E i \in DOMAIN branch : Thread(i)
  BY <1>4, TypeThread, LimitThread
<1>5. CASE UNCHANGED vars
  <2>1. TypeOK'
    BY <1>5 DEF vars, TypeOK
  <2> QED
    BY <1>5, <2>1 DEF vars, RequestsWithinLimit, InFlight
<1> QED
  BY <1>1, <1>2, <1>3, <1>4, <1>5 DEF Next

LEMMA LimitInit == Init => TypeOK /\ RequestsWithinLimit
<1> SUFFICES ASSUME Init PROVE TypeOK /\ RequestsWithinLimit
  OBVIOUS
<1>1. TypeOK
  BY DEF Init, TypeOK, NoCall, Modes, Efforts
<1>2. InFlight = {}
  BY DEF Init, InFlight
<1> QED
  BY <1>1, <1>2, FS_EmptySet, SettingsAreNaturals DEF Init, RequestsWithinLimit, AtLeastOne

(* Every variable keeps its type. *)
THEOREM TypeCorrect == Spec => []TypeOK
BY LimitInit, LimitStep, PTL DEF Spec

(* No more requests are open at once than max_reasoning_parallel_calls,    *)
(* and while the pool works the caller's thread has none of its own        *)
(* (_analyze_parallel).                                                    *)
THEOREM LimitCorrect == Spec => []RequestsWithinLimit
BY LimitInit, LimitStep, PTL DEF Spec
-----------------------------------------------------------------------------
(* Usage.  While the call goes on, what is recorded is what was answered;  *)
(* that no branch answers after the end is the limit's second part.        *)
UsageInv ==
  /\ step \in {"idle", "expanding", "analysing", "answering"} => budget.usage = answered
  /\ UsageIsComplete

LEMMA ThreadUsage ==
  ASSUME TypeOK, RequestsWithinLimit, UsageInv, NEW i \in DOMAIN branch, Thread(i)
  PROVE  UsageInv'
<1>1. step = "analysing" /\ step' = step
  <2>1. step = "analysing" \/ InFlight # {}
    BY DEF Thread, BranchPost, BranchRefused, BranchRetry, BranchAnswer, BranchFails, Takes
  <2>2. UNCHANGED step
    BY DEF Thread, BranchPost, BranchRefused, BranchRetry, BranchAnswer, BranchFails
  <2> QED
    BY <2>1, <2>2 DEF RequestsWithinLimit
<1>2. \/ budget' \in {budget, Reserved} /\ answered' = answered
      \/ budget' = Recorded /\ answered' = answered + 1
  BY DEF Thread, BranchPost, BranchRefused, BranchRetry, BranchAnswer, BranchFails
<1> QED
  BY <1>1, <1>2, Budgets, TypeParts DEF UsageInv, UsageIsComplete

LEMMA UsageStep ==
  ASSUME TypeOK, RequestsWithinLimit, UsageInv, [Next]_vars
  PROVE  UsageInv'
<1> USE TypeParts
<1>1. ASSUME step \in {"idle", "expanding", "analysing", "answering"}, step' # "done",
             \/ budget' \in {budget, Reserved} /\ answered' = answered
             \/ budget' = Recorded /\ answered' = answered + 1
      PROVE  UsageInv'
  BY <1>1, Budgets DEF UsageInv, UsageIsComplete
<1>2. CASE Chat
  <2>1. PICK r \in Requests : \E e \in EffectiveEfforts(r) :
          ChatDirect(r, e) \/ ChatCritical(r, e) \/ ChatSearch(r, e)
    BY <1>2 DEF Chat
  <2> QED
    BY <1>1, <2>1 DEF ChatDirect, ChatCritical, ChatSearch, StartAnswer, StartPool, StartLevel
<1>3. ASSUME NEW n, Expanded(n), step = "expanding" PROVE step' # "done"
  BY <1>3 DEF Expanded, StartPool, StartAnswer
<1>4. CASE Expand
  <2>1. CASE ExpandPost
    BY <1>1, <2>1 DEF ExpandPost
  <2>2. CASE ExpandRefused \/ ExpandFails
    BY <1>1, <1>3, <2>2 DEF ExpandRefused, ExpandFails
  <2>3. CASE ExpandAnswer
    BY <1>1, <1>3, <2>3 DEF ExpandAnswer
  <2> QED
    BY <1>4, <2>1, <2>2, <2>3 DEF Expand
<1>5. CASE Retry
  BY <1>1, <1>5 DEF Retry
<1>6. CASE Join
  <2>1. PICK f : Answers(f) \/ Descends(f)
    BY <1>6, JoinChoice
  <2>2. step = "analysing"
    BY <1>6, JoinChoice DEF PoolIsDone
  <2> QED
    BY <1>1, <2>1, <2>2, AnswersParts, DescendsParts
<1>7. CASE \E i \in DOMAIN branch : Thread(i)
  BY <1>7, ThreadUsage
<1>8. CASE AnswerArrives
  <2>1. budget.usage = answered /\ reply'.usage = budget.usage + 1
    BY <1>8 DEF AnswerArrives, UsageInv, Total
  <2> QED
    BY <1>8, <2>1 DEF AnswerArrives, UsageInv, UsageIsComplete
<1>9. CASE AnswerFails \/ AnswerDelta
  BY <1>9 DEF AnswerFails, AnswerDelta, UsageInv, UsageIsComplete
<1>10. CASE UNCHANGED vars
  BY <1>10 DEF vars, UsageInv, UsageIsComplete
<1> QED
  BY <1>2, <1>4, <1>5, <1>6, <1>7, <1>8, <1>9, <1>10 DEF Next, Answer

(* The usage a caller books is that of all answers, whatever became of     *)
(* their branches (_ReasoningBudget.record, chat).                         *)
THEOREM UsageCorrect == Spec => []UsageIsComplete
<1>1. Init => UsageInv
  BY DEF Init, UsageInv, UsageIsComplete
<1>2. UsageInv => UsageIsComplete
  BY DEF UsageInv
<1> QED
  BY <1>1, <1>2, LimitInit, LimitStep, UsageStep, PTL DEF Spec
-----------------------------------------------------------------------------
(* The frontier.  SearchKeepsAState speaks of its end; it holds from the   *)
(* first level on.                                                         *)
GoodFrontier ==
  /\ Len(frontier) \in 1..BeamWidth[call.effort]
  /\ \A i \in 2..Len(frontier) : frontier[i] <= frontier[i-1]
  /\ frontier = <<QuestionScore>> \/ call.mode # "dfs" \/ frontier[1] >= PruneBelow[call.effort]

FrontierInv ==
  step \in {"expanding", "analysing", "answering"} /\ call.mode \in Searching => GoodFrontier

LEMMA FrontierJoin ==
  ASSUME TypeOK, FrontierInv, Join, call.mode \in Searching
  PROVE  GoodFrontier'
<1> USE TypeParts
<1>1. step = "analysing" /\ GoodFrontier
  BY JoinChoice DEF PoolIsDone, FrontierInv
<1>2. PICK f : /\ Answers(f) \/ Descends(f)
               /\ \/ f = frontier
                  \/ /\ call.mode \in {"bfs", "normal"} /\ Results # {}
                     /\ f \in Rankings(Results, BeamWidth[call.effort])
                  \/ call.mode = "dfs" /\ Viable # {} /\ f \in Rankings(Viable, 1)
  BY JoinChoice DEF Searching
<1>3. BeamWidth[call.effort] \in Nat /\ BeamWidth[call.effort] >= 1 /\ PruneBelow[call.effort] \in Nat
  BY Tables
<1>4. frontier' = f /\ call' = call
  BY <1>2, AnswersParts, DescendsParts
<1>5. CASE f = frontier
  BY <1>1, <1>4, <1>5 DEF GoodFrontier
<1>6. CASE /\ call.mode \in {"bfs", "normal"} /\ Results # {}
           /\ f \in Rankings(Results, BeamWidth[call.effort])
  <2>1. Len(f) \in 1..BeamWidth[call.effort] /\ \A i \in 2..Len(f) : f[i] <= f[i-1]
    <3>1. Results \subseteq DOMAIN branch /\ branch \in Seq(BranchRow)
      BY Subsets
    <3>2. Results # {} /\ f \in Rankings(Results, BeamWidth[call.effort])
      BY <1>6
    <3> QED
      BY <1>3, <3>1, <3>2, RankedBest, Zenon
  <2> QED
    BY <1>4, <1>6, <2>1 DEF GoodFrontier
<1>7. CASE call.mode = "dfs" /\ Viable # {} /\ f \in Rankings(Viable, 1)
  <2>1. Viable \subseteq DOMAIN branch /\ 1 \in Nat /\ 1 >= 1
    BY Subsets
  <2>2. Len(f) = 1 /\ \E x \in Viable : f[1] = Score(x)
    <3>1. f \in Rankings(Viable, 1) /\ Viable # {} /\ branch \in Seq(BranchRow)
      BY <1>7
    <3> QED
      BY <2>1, <3>1, BestOfOne
  <2>3. f[1] >= PruneBelow[call.effort]
    BY <2>2 DEF Viable
  <2> QED
    BY <1>3, <1>4, <2>2, <2>3 DEF GoodFrontier
<1> QED
  BY <1>2, <1>5, <1>6, <1>7

LEMMA FrontierStep ==
  ASSUME TypeOK, RequestsWithinLimit, FrontierInv, [Next]_vars
  PROVE  FrontierInv'
<1> USE TypeParts
<1>1. ASSUME call' = call, frontier' = frontier,
             step \in {"expanding", "analysing", "answering"} \/ step' \in {"done", "failed"}
                \/ step' = step
      PROVE  FrontierInv'
  BY <1>1 DEF FrontierInv, GoodFrontier
<1>2. ASSUME NEW r \in Requests, NEW e \in EffectiveEfforts(r), ChatDirect(r, e) \/ ChatCritical(r, e)
      PROVE  FrontierInv'
  BY <1>2 DEF ChatDirect, ChatCritical, FrontierInv, Searching
<1>3. ASSUME NEW r \in Requests, NEW e \in EffectiveEfforts(r), ChatSearch(r, e)
      PROVE  FrontierInv'
  <2>1. frontier' = <<QuestionScore>> /\ call'.effort = e
    BY <1>3 DEF ChatSearch, StartLevel
  <2>2. BeamWidth[e] \in Nat /\ BeamWidth[e] >= 1
    BY Resolved, Tables
  <2> QED
    BY <2>1, <2>2 DEF FrontierInv, GoodFrontier
<1>4. CASE Chat
  BY <1>2, <1>3, <1>4 DEF Chat
<1>5. ASSUME NEW n, Expanded(n) PROVE frontier' = frontier
  BY <1>5 DEF Expanded, search
<1>6. CASE Expand
  <2>1. CASE ExpandPost
    BY <1>1, <2>1 DEF ExpandPost, search
  <2>2. CASE ExpandRefused \/ ExpandAnswer \/ ExpandFails
    BY <1>1, <1>5, <2>2 DEF ExpandRefused, ExpandAnswer, ExpandFails
  <2> QED
    BY <1>6, <2>1, <2>2 DEF Expand
<1>7. CASE Retry
  BY <1>1, <1>7 DEF Retry, search
<1>8. CASE Join
  <2>1. call' = call
    BY <1>8, JoinChoice, AnswersParts, DescendsParts
  <2> QED
    BY <1>8, <2>1, FrontierJoin DEF FrontierInv
<1>9. CASE Answer \/ AnswerDelta
  BY <1>1, <1>9 DEF Answer, AnswerArrives, AnswerFails, AnswerDelta, search
<1>10. ASSUME NEW i \in DOMAIN branch, Thread(i) PROVE FrontierInv'
  BY <1>1, <1>10 DEF Thread, BranchPost, BranchRefused, BranchRetry, BranchAnswer, BranchFails
<1>11. CASE UNCHANGED vars
  BY <1>1, <1>11 DEF vars
<1> QED
  BY <1>4, <1>6, <1>7, <1>8, <1>9, <1>10, <1>11 DEF Next

(* However the budget runs out and whichever branches fail, a search keeps *)
(* a state to answer from, at most a beam wide and best first, and a       *)
(* depth-first one never a pruned state (_beam, _dfs).                     *)
THEOREM FrontierCorrect == Spec => []SearchKeepsAState
<1>1. Init => FrontierInv
  BY DEF Init, FrontierInv
<1>2. FrontierInv => SearchKeepsAState
  BY DEF FrontierInv, GoodFrontier, SearchKeepsAState, Searching
<1> QED
  BY <1>1, <1>2, LimitInit, LimitStep, FrontierStep, PTL DEF Spec
-----------------------------------------------------------------------------
(* The budget.  Both kinds of reservation ask HasBudget in the same step,  *)
(* which is what the lock of _ReasoningBudget is for.                      *)
BudgetKept == budget.calls <= MaxCalls

BudgetInv == BudgetKept /\ (step = "idle" => budget.calls = 0)

LEMMA BudgetStep ==
  ASSUME TypeOK, RequestsWithinLimit, BudgetInv, [Next]_vars
  PROVE  BudgetInv'
<1> USE TypeParts
<1>0. MaxCalls \in Nat
  BY Tables DEF MaxCalls
<1>1. ASSUME call' = call, step' # "idle" \/ step' = step,
             budget' \in {budget, Recorded} \/ (HasBudget /\ budget' = Reserved /\ step # "idle")
      PROVE  BudgetInv'
  <2>1. MaxCalls' = MaxCalls
    BY <1>1 DEF MaxCalls
  <2>2. budget'.calls = budget.calls \/
        (budget.calls < MaxCalls /\ budget'.calls = budget.calls + 1 /\ step # "idle")
    BY <1>1, Budgets DEF HasBudget
  <2> QED
    BY <1>0, <1>1, <2>1, <2>2 DEF BudgetInv, BudgetKept
<1>2. CASE Chat
  <2>1. PICK r \in Requests : \E e \in EffectiveEfforts(r) :
          ChatDirect(r, e) \/ ChatCritical(r, e) \/ ChatSearch(r, e)
    BY <1>2 DEF Chat
  <2>2. budget' = budget /\ step = "idle" /\ step' # "idle" /\ call'.effort \in Efforts
    BY <2>1, Resolved DEF ChatDirect, ChatCritical, ChatSearch, StartAnswer, StartPool, StartLevel
  <2>3. MaxCalls' \in Nat
    BY <2>2, Tables DEF MaxCalls
  <2> QED
    BY <2>2, <2>3 DEF BudgetInv, BudgetKept
<1>3. ASSUME NEW n, Expanded(n) PROVE step' # "idle" \/ step' = step
  BY <1>3 DEF Expanded, StartPool, StartAnswer
<1>4. CASE Expand
  <2>1. CASE ExpandPost
    BY <1>1, <2>1 DEF ExpandPost
  <2>2. CASE ExpandRefused \/ ExpandAnswer \/ ExpandFails
    BY <1>1, <1>3, <2>2 DEF ExpandRefused, ExpandAnswer, ExpandFails
  <2> QED
    BY <1>4, <2>1, <2>2 DEF Expand
<1>5. CASE Retry
  BY <1>1, <1>5 DEF Retry
<1>6. CASE Join
  BY <1>1, <1>6, JoinChoice, AnswersParts, DescendsParts
<1>7. CASE \E i \in DOMAIN branch : Thread(i)
  <2>1. PICK i \in DOMAIN branch : Thread(i)
    BY <1>7
  <2>2. call' = call /\ step' = step
    BY <2>1 DEF Thread, BranchPost, BranchRefused, BranchRetry, BranchAnswer, BranchFails
  <2>3. budget' \in {budget, Recorded} \/ (HasBudget /\ budget' = Reserved /\ step = "analysing")
    BY <2>1 DEF Thread, BranchPost, BranchRefused, BranchRetry, BranchAnswer, BranchFails, Takes
  <2> QED
    BY <1>1, <2>2, <2>3
<1>8. CASE Answer \/ AnswerDelta
  BY <1>1, <1>8 DEF Answer, AnswerArrives, AnswerFails, AnswerDelta
<1>9. CASE UNCHANGED vars
  BY <1>1, <1>9 DEF vars
<1> QED
  BY <1>2, <1>4, <1>5, <1>6, <1>7, <1>8, <1>9 DEF Next

(* However many threads reserve at once, a search makes no more calls than *)
(* the setting of its effort allows (_ReasoningBudget.reserve).            *)
THEOREM BudgetCorrect == Spec => []BudgetKept
<1>1. Init => BudgetInv
  <2> SUFFICES ASSUME Init PROVE BudgetInv
    OBVIOUS
  <2>1. MaxCalls \in Nat
    BY LimitInit, TypeParts, Tables DEF MaxCalls
  <2> QED
    BY <2>1 DEF Init, BudgetInv, BudgetKept
<1>2. BudgetInv => BudgetKept
  BY DEF BudgetInv
<1> QED
  BY <1>1, <1>2, LimitInit, LimitStep, BudgetStep, PTL DEF Spec
-----------------------------------------------------------------------------
(* The POSTs.  Each call of the budget pays for PerCall of them.  The ones *)
(* a call in the pool may still make are counted as pairs, so that a POST  *)
(* takes one pair away and nothing needs to be summed over the threads.    *)
PerCall == MaxRetries + 1

Unused == {p \in (DOMAIN branch) \X (1..PerCall) :
             branch[p[1]].state = "calling" /\ p[2] > branch[p[1]].attempt}

(* What the calls of the budget pay for.                                   *)
Paid == budget.calls * PerCall

(* What has been posted, and may yet be for the calls that are open, is    *)
(* paid for.                                                               *)
PostsPaid ==
  /\ step = "idle" => posted = 0 /\ budget.calls = 0
  /\ step = "expanding" => /\ attempt <= PerCall
                           /\ posted + (IF attempt > 0 THEN PerCall - attempt ELSE 0) <= Paid
  /\ step = "analysing" => posted + Cardinality(Unused) <= Paid
  /\ step = "answering" => attempt \in 1..PerCall /\ posted <= Paid + attempt
  /\ step \in {"done", "failed"} => posted <= Paid + PerCall

LEMMA Paying ==
  PerCall \in Nat /\ PerCall >= 1 /\ PerCall' = PerCall
BY SettingsAreNaturals DEF PerCall

LEMMA PaidIsNatural ==
  ASSUME TypeOK
  PROVE  /\ Paid \in Nat /\ (budget.calls + 1) * PerCall = Paid + PerCall
         /\ budget.calls = 0 => Paid = 0
<1>1. \A c, k \in Nat : c * k \in Nat /\ (c + 1) * k = c * k + k /\ 0 * k = 0
  OBVIOUS
<1> QED
  BY <1>1, TypeParts, Paying DEF Paid

LEMMA PaidGrows ==
  ASSUME TypeOK
  PROVE  /\ budget'.calls = budget.calls => Paid' = Paid
         /\ budget'.calls = budget.calls + 1 => Paid' = Paid + PerCall
BY PaidIsNatural, Paying DEF Paid

LEMMA UnusedIsFinite ==
  ASSUME TypeOK
  PROVE  /\ IsFiniteSet(Unused) /\ Cardinality(Unused) \in Nat
         /\ InFlight = {} => Unused = {}
<1>1. IsFiniteSet(DOMAIN branch) /\ IsFiniteSet(1..PerCall)
  <2>1. DOMAIN branch = 1..Len(branch) /\ Len(branch) \in Nat
    BY TypeParts
  <2> QED
    BY <2>1, Paying, FS_Interval
<1>2. IsFiniteSet((DOMAIN branch) \X (1..PerCall))
  BY <1>1, FS_Product
<1>3. Unused \subseteq (DOMAIN branch) \X (1..PerCall)
  BY DEF Unused
<1>4. IsFiniteSet(Unused)
  BY <1>2, <1>3, FS_Subset
<1> QED
  BY <1>4, FS_CardinalityType DEF Unused, InFlight

(* A row that loses its call takes its pairs along.                        *)
LEMMA UnusedShrinks ==
  ASSUME TypeOK, NEW S, S \subseteq Unused
  PROVE  IsFiniteSet(S) /\ Cardinality(S) \in Nat /\ Cardinality(S) <= Cardinality(Unused)
<1>1. IsFiniteSet(Unused)
  BY UnusedIsFinite
<1> QED
  BY <1>1, FS_Subset, FS_CardinalityType

(* A new call in the pool may be posted PerCall - 1 times more.            *)
LEMMA UnusedOfPost ==
  ASSUME TypeOK, NEW i \in DOMAIN branch, branch[i].state # "calling", SetBranch(i, Calling(1))
  PROVE  Cardinality(Unused') \in Nat /\ Cardinality(Unused') <= Cardinality(Unused) + PerCall - 1
<1> DEFINE new == {i} \X (2..PerCall)
<1>1. branch \in Seq(BranchRow) /\ Calling(1) \in BranchRow
  BY TypeParts, Rows
<1>2. /\ DOMAIN branch' = DOMAIN branch /\ branch'[i] = Calling(1)
      /\ \A j \in DOMAIN branch : j # i => branch'[j] = branch[j]
  BY <1>1, WriteRow
<1>3. Unused' = Unused \cup new
  <2>1. ASSUME NEW p \in Unused'  PROVE p \in Unused \cup new
    BY <1>2, <2>1, Paying DEF Unused, Calling
  <2>2. ASSUME NEW p \in Unused \cup new  PROVE p \in Unused'
    BY <1>2, <2>2, Paying DEF Unused, Calling
  <2> QED
    BY <2>1, <2>2
<1>4. IsFiniteSet(Unused) /\ Cardinality(Unused) \in Nat
  BY UnusedIsFinite
<1>5. IsFiniteSet(new) /\ Cardinality(new) = PerCall - 1
  <2>1. IsFiniteSet({i}) /\ Cardinality({i}) = 1
    BY FS_Singleton
  <2>2. IsFiniteSet(2..PerCall) /\ Cardinality(2..PerCall) = PerCall - 1
    BY Paying, FS_Interval
  <2>3. IsFiniteSet(new) /\ Cardinality(new) = Cardinality({i}) * Cardinality(2..PerCall)
    BY <2>1, <2>2, FS_Product
  <2> QED
    BY <2>1, <2>2, <2>3, Paying
<1>6. /\ IsFiniteSet(Unused \cup new) /\ Cardinality(Unused \cap new) \in Nat
      /\ Cardinality(Unused \cup new) = Cardinality(Unused) + Cardinality(new) - Cardinality(Unused \cap new)
  <2>1. Unused \cap new \subseteq Unused
    OBVIOUS
  <2> QED
    BY <2>1, <1>4, <1>5, FS_Union, UnusedShrinks
<1>7. Cardinality(Unused \cup new) \in Nat
  BY <1>6, FS_CardinalityType
<1> HIDE DEF new
<1> QED
  BY <1>3, <1>4, <1>5, <1>6, <1>7, Paying

(* A retry uses up the next pair of its call.                              *)
LEMMA UnusedOfRetry ==
  ASSUME TypeOK, NEW i \in InFlight, MayRetry(branch[i].attempt),
         SetBranch(i, Calling(branch[i].attempt + 1))
  PROVE  Cardinality(Unused') \in Nat /\ Cardinality(Unused') + 1 <= Cardinality(Unused)
<1> DEFINE k == branch[i].attempt + 1
           used == <<i, k>>
<1>1. branch \in Seq(BranchRow) /\ i \in DOMAIN branch /\ branch[i].state = "calling"
  BY TypeParts DEF InFlight
<1>2. branch[i].attempt \in Nat /\ k \in 1..PerCall /\ Calling(k) \in BranchRow
  <2>1. branch[i] \in BranchRow
    BY <1>1
  <2>2. branch[i].attempt \in Nat
    BY <2>1, RowParts
  <2> QED
    BY <2>2, Rows, SettingsAreNaturals DEF MayRetry, PerCall
<1>3. /\ DOMAIN branch' = DOMAIN branch /\ branch'[i] = Calling(k)
      /\ \A j \in DOMAIN branch : j # i => branch'[j] = branch[j]
  BY <1>1, <1>2, WriteRow
<1>4. used \in Unused
  BY <1>1, <1>2 DEF Unused
<1>5. Unused' \subseteq Unused \ {used}
  BY <1>1, <1>2, <1>3, Paying DEF Unused, Calling
<1>6. IsFiniteSet(Unused) /\ Cardinality(Unused) \in Nat
  BY UnusedIsFinite
<1>7. IsFiniteSet(Unused \ {used}) /\ Cardinality(Unused \ {used}) = Cardinality(Unused) - 1
  BY <1>4, <1>6, FS_RemoveElement
<1>8. IsFiniteSet(Unused') /\ Cardinality(Unused') <= Cardinality(Unused \ {used})
  BY <1>5, <1>7, FS_Subset
<1>9. Cardinality(Unused') \in Nat
  BY <1>8, FS_CardinalityType
<1> QED
  BY <1>6, <1>7, <1>8, <1>9

LEMMA UnusedOfEnd ==
  ASSUME TypeOK, NEW i \in DOMAIN branch, NEW b \in BranchRow, b.state = "done", SetBranch(i, b)
  PROVE  Cardinality(Unused') \in Nat /\ Cardinality(Unused') <= Cardinality(Unused)
<1>1. branch \in Seq(BranchRow)
  BY TypeParts
<1>2. /\ DOMAIN branch' = DOMAIN branch /\ branch'[i] = b
      /\ \A j \in DOMAIN branch : j # i => branch'[j] = branch[j]
  BY <1>1, WriteRow
<1>3. Unused' \subseteq Unused
  BY <1>2 DEF Unused
<1> QED
  BY <1>3, UnusedShrinks

LEMMA ThreadPosts ==
  ASSUME TypeOK, RequestsWithinLimit, PostsPaid, NEW i \in DOMAIN branch, Thread(i)
  PROVE  PostsPaid'
<1>1. step = "analysing" /\ step' = step
  <2>1. step = "analysing" \/ InFlight # {}
    BY DEF Thread, BranchPost, BranchRefused, BranchRetry, BranchAnswer, BranchFails, Takes
  <2>2. UNCHANGED step
    BY DEF Thread, BranchPost, BranchRefused, BranchRetry, BranchAnswer, BranchFails
  <2> QED
    BY <2>1, <2>2 DEF RequestsWithinLimit
<1>2. posted + Cardinality(Unused) <= Paid /\ Cardinality(Unused) \in Nat
      /\ posted \in Nat /\ Paid \in Nat /\ PerCall \in Nat
  BY <1>1, TypeParts, UnusedIsFinite, Paying, PaidIsNatural DEF PostsPaid
<1>3. posted' + Cardinality(Unused') <= Paid'
  <2>1. CASE BranchPost(i)
    <3>1. branch[i].state # "calling"
      BY <2>1 DEF BranchPost, Takes, Waiting
    <3>2. Cardinality(Unused') \in Nat /\ Cardinality(Unused') <= Cardinality(Unused) + PerCall - 1
      BY <2>1, <3>1, UnusedOfPost DEF BranchPost
    <3>3. posted' = posted + 1 /\ Paid' = Paid + PerCall
      BY <2>1, Budgets, PaidGrows DEF BranchPost
    <3>4. \A p, u, v, k, b \in Nat : p + u <= b /\ v <= u + k - 1 => p + 1 + v <= b + k
      OBVIOUS
    <3> QED
      BY <1>2, <3>2, <3>3, <3>4
  <2>2. CASE BranchRetry(i)
    <3>1. Cardinality(Unused') \in Nat /\ Cardinality(Unused') + 1 <= Cardinality(Unused)
      BY <2>2, UnusedOfRetry DEF BranchRetry
    <3>2. posted' = posted + 1 /\ Paid' = Paid
      BY <2>2, PaidGrows DEF BranchRetry
    <3> QED
      BY <1>2, <3>1, <3>2
  <2>3. CASE BranchRefused(i) \/ BranchAnswer(i) \/ BranchFails(i)
    <3>1. PICK b \in BranchRow : b.state = "done" /\ SetBranch(i, b)
      <4>1. \A s \in Scores : Analysed(s).state = "done" /\ Analysed(s) \in BranchRow
        BY Rows DEF Analysed
      <4>2. Dropped.state = "done" /\ Dropped \in BranchRow
        BY Rows DEF Dropped
      <4> QED
        BY <2>3, <4>1, <4>2 DEF BranchRefused, BranchAnswer, BranchFails
    <3>2. posted' = posted /\ Paid' = Paid
      BY <2>3, Budgets, PaidGrows DEF BranchRefused, BranchAnswer, BranchFails
    <3>3. Cardinality(Unused') \in Nat /\ Cardinality(Unused') <= Cardinality(Unused)
      BY <3>1, UnusedOfEnd
    <3> QED
      BY <1>2, <3>2, <3>3
  <2> QED
    BY <2>1, <2>2, <2>3 DEF Thread
<1> QED
  BY <1>1, <1>3 DEF PostsPaid

(* A pool that has just been filled has no open call.                      *)
LEMMA FreshPool ==
  ASSUME NEW n \in Nat, StartPool(n)
  PROVE  step' = "analysing" /\ Cardinality(Unused') = 0
<1>1. Unused' = {}
  BY DEF StartPool, Submitted, Unused
<1> QED
  BY <1>1, FS_EmptySet DEF StartPool

LEMMA ExpandedPosts ==
  ASSUME TypeOK, PostsPaid, step = "expanding", budget'.calls = budget.calls,
         NEW n \in Nat, Expanded(n)
  PROVE  PostsPaid'
<1>1. /\ posted <= Paid /\ Paid' = Paid /\ posted \in Nat /\ Paid \in Nat /\ attempt \in Nat
      /\ PerCall \in Nat /\ PerCall >= 1 /\ PerCall' = PerCall /\ candidates \in Nat
  BY TypeParts, PaidGrows, PaidIsNatural, Paying DEF PostsPaid
<1>2. CASE step' = step /\ attempt' = 0 /\ posted' = posted
  BY <1>1, <1>2 DEF PostsPaid
<1>3. CASE StartPool(candidates + n) /\ posted' = posted
  BY <1>1, <1>3, FreshPool DEF PostsPaid
<1>4. CASE StartAnswer
  BY <1>1, <1>4 DEF PostsPaid, StartAnswer
<1> QED
  BY <1>2, <1>3, <1>4 DEF Expanded

(* The pool is done: no call is open.                                      *)
LEMMA NothingUnused ==
  ASSUME TypeOK, InFlight = {}
  PROVE  Cardinality(Unused) = 0
BY UnusedIsFinite, FS_EmptySet

LEMMA PostsStep ==
  ASSUME TypeOK, RequestsWithinLimit, PostsPaid, [Next]_vars
  PROVE  PostsPaid'
<1>0. /\ posted \in Nat /\ Paid \in Nat /\ attempt \in Nat
      /\ PerCall \in Nat /\ PerCall >= 1 /\ PerCall' = PerCall
  BY TypeParts, PaidIsNatural, Paying
<1>1. CASE Chat
  <2>1. PICK r \in Requests : \E e \in EffectiveEfforts(r) :
          ChatDirect(r, e) \/ ChatCritical(r, e) \/ ChatSearch(r, e)
    BY <1>1 DEF Chat
  <2>2. PICK e \in EffectiveEfforts(r) : ChatDirect(r, e) \/ ChatCritical(r, e) \/ ChatSearch(r, e)
    BY <2>1
  <2>3. posted = 0 /\ Paid' = 0
    BY <2>2, PaidIsNatural, PaidGrows DEF ChatDirect, ChatCritical, ChatSearch, PostsPaid
  <2>4. CASE ChatDirect(r, e)
    BY <1>0, <2>3, <2>4 DEF ChatDirect, StartAnswer, PostsPaid
  <2>5. CASE ChatCritical(r, e)
    <3>1. CriticalCount[e] \in Nat
      BY Resolved, Tables
    <3> QED
      BY <1>0, <2>3, <2>5, <3>1, FreshPool DEF ChatCritical, PostsPaid
  <2>6. CASE ChatSearch(r, e)
    BY <1>0, <2>3, <2>6 DEF ChatSearch, StartLevel, PostsPaid
  <2> QED
    BY <2>2, <2>4, <2>5, <2>6
<1>2. CASE Expand
  <2>1. CASE ExpandPost
    <3>1. /\ step = "expanding" /\ step' = step /\ attempt = 0 /\ attempt' = 1
          /\ posted' = posted + 1 /\ Paid' = Paid + PerCall
      BY <2>1, Budgets, PaidGrows DEF ExpandPost
    <3> QED
      BY <1>0, <3>1 DEF PostsPaid
  <2>2. CASE ExpandRefused \/ ExpandFails
    BY <2>2, ExpandedPosts DEF ExpandRefused, ExpandFails
  <2>3. CASE ExpandAnswer
    <3>1. ExpandCount[call.effort] \in Nat
      BY TypeParts, Tables
    <3>2. PICK n \in Nat : Expanded(n)
      BY <2>3, <3>1 DEF ExpandAnswer
    <3> QED
      BY <2>3, <3>2, Budgets, ExpandedPosts DEF ExpandAnswer
  <2> QED
    BY <1>2, <2>1, <2>2, <2>3 DEF Expand
<1>3. CASE Retry
  <2>1. /\ attempt' = attempt + 1 /\ posted' = posted + 1 /\ UNCHANGED step /\ Paid' = Paid
        /\ (step = "expanding" /\ attempt > 0) \/ step = "answering"
    BY <1>3, PaidGrows DEF Retry
  <2>2. attempt + 1 <= PerCall
    BY <1>3, <1>0, SettingsAreNaturals DEF Retry, MayRetry, PerCall
  <2> QED
    BY <1>0, <2>1, <2>2 DEF PostsPaid
<1>4. CASE Join
  <2>1. PICK f : Answers(f) \/ Descends(f)
    BY <1>4, JoinChoice
  <2>2. step = "analysing" /\ Cardinality(Unused) = 0
    BY <1>4, JoinChoice, DonePool, NothingUnused DEF PoolIsDone
  <2>3. posted <= Paid
    BY <1>0, <2>2 DEF PostsPaid
  <2>4. CASE Answers(f)
    <3>1. step' = "answering" /\ attempt' = 1 /\ posted' = posted + 1 /\ Paid' = Paid
      BY <2>4, AnswersParts, PaidGrows
    <3> QED
      BY <1>0, <2>3, <3>1 DEF PostsPaid
  <2>5. CASE Descends(f)
    <3>1. step' = "expanding" /\ attempt' = 0 /\ posted' = posted /\ Paid' = Paid
      BY <2>5, DescendsParts, PaidGrows
    <3> QED
      BY <1>0, <2>3, <3>1 DEF PostsPaid
  <2> QED
    BY <2>1, <2>4, <2>5
<1>5. CASE \E i \in DOMAIN branch : Thread(i)
  BY <1>5, ThreadPosts
<1>6. CASE Answer \/ AnswerDelta
  <2>1. /\ step = "answering" /\ UNCHANGED <<attempt, posted>> /\ Paid' = Paid
        /\ step' \in {"answering", "done", "failed"}
    BY <1>6, PaidGrows DEF Answer, AnswerArrives, AnswerFails, AnswerDelta
  <2> QED
    BY <1>0, <2>1 DEF PostsPaid
<1>7. CASE UNCHANGED vars
  BY <1>7 DEF vars, PostsPaid, Unused, Paid, PerCall
<1> QED
  BY <1>1, <1>2, <1>3, <1>4, <1>5, <1>6, <1>7 DEF Next

(* The whole call, retries, branches and the final answer included, posts  *)
(* no more than its effort's calls pay for (_raw_chat, _analyze_parallel,  *)
(* _request_json).                                                         *)
THEOREM PostsCorrect == Spec => []PostsWithinBudget
<1>1. Init => PostsPaid /\ BudgetInv
  <2> SUFFICES ASSUME Init PROVE PostsPaid /\ BudgetInv
    OBVIOUS
  <2>1. MaxCalls \in Nat
    BY LimitInit, TypeParts, Tables DEF MaxCalls
  <2> QED
    BY <2>1 DEF Init, PostsPaid, BudgetInv, BudgetKept
<1>2. TypeOK /\ BudgetInv /\ PostsPaid => PostsWithinBudget
  <2> SUFFICES ASSUME TypeOK, BudgetInv, PostsPaid PROVE PostsWithinBudget
    OBVIOUS
  <2>1. /\ posted \in Nat /\ Paid \in Nat /\ PerCall \in Nat /\ budget.calls \in Nat
        /\ step \in {"idle", "expanding", "analysing", "answering", "done", "failed"}
    BY TypeParts, Paying, PaidIsNatural
  <2>2. budget.calls <= MaxCalls
    BY DEF BudgetInv, BudgetKept
  <2>3. CASE step \in {"answering", "done", "failed"}
    <3>1. posted <= (budget.calls + 1) * PerCall
      BY <2>1, <2>3, PaidIsNatural DEF PostsPaid
    <3> QED
      BY <2>2, <2>3, <3>1 DEF PostsWithinBudget, PerCall
  <2>4. CASE step \in {"idle", "expanding", "analysing"}
    <3>1. posted <= Paid
      <4>1. CASE step = "analysing"
        BY <2>1, <4>1, UnusedIsFinite DEF PostsPaid
      <4>2. CASE step = "idle"
        BY <2>1, <4>2 DEF PostsPaid
      <4>3. CASE step = "expanding"
        BY <2>1, <4>3, TypeParts DEF PostsPaid
      <4> QED
        BY <2>4, <4>1, <4>2, <4>3
    <3>2. Paid = (budget.calls + 0) * (MaxRetries + 1)
      BY <2>1 DEF Paid, PerCall
    <3> QED
      BY <2>2, <2>4, <3>1, <3>2 DEF PostsWithinBudget
  <2> QED
    BY <2>1, <2>3, <2>4
<1> QED
  BY <1>1, <1>2, LimitInit, LimitStep, BudgetStep, PostsStep, PTL DEF Spec
=============================================================================
