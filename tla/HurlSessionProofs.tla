--------------------------- MODULE HurlSessionProofs ---------------------------
(***************************************************************************)
(* Verdicts, requests, what feeds them and the time they are granted, for   *)
(* any scenarios that lowering lets pass: how many steps, entries, retries  *)
(* and variables they have.                                                 *)
(***************************************************************************)
EXTENDS HurlSession, FiniteSetTheorems, WellFoundedInduction, TLAPS

-----------------------------------------------------------------------------
(* The least and the greatest *)

LEMMA LeastNumber ==
    ASSUME NEW S, S \subseteq Nat, S # {}
    PROVE  \E n \in S : \A m \in S : n <= m
  <1> DEFINE R == {ss \in Nat \X Nat : ss[1] < ss[2]}
  <1>1. IsWellFoundedOn(R, Nat)
    BY NatLessThanWellFounded DEF OpToRel
  <1> HIDE DEF R
  <1>2. PICK n \in S : \A m \in S : ~(<<m, n>> \in R)
    BY <1>1, WFMin
  <1>3. \A m, k \in Nat : m < k => <<m, k>> \in R
    BY DEF R
  <1>4. \A m \in S : ~(m < n)
    BY <1>2, <1>3
  <1> QED
    BY <1>4

LEMMA GreatestNumber ==
    ASSUME NEW S, S \subseteq Nat, S # {}, NEW b \in Nat, \A n \in S : n <= b
    PROVE  \E n \in S : \A m \in S : m <= n
  <1> DEFINE D == {b - n : n \in S}
  <1>1. D \subseteq Nat /\ D # {}
    <2>1. \A n \in S : n \in Nat /\ n <= b
      OBVIOUS
    <2>2. \A n \in S : b - n \in Nat
      BY <2>1
    <2> QED
      BY <2>2
  <1>2. PICK d \in D : \A e \in D : d <= e
    BY <1>1, LeastNumber
  <1>3. PICK n \in S : d = b - n
    OBVIOUS
  <1>4. \A m \in S : b - m \in D
    OBVIOUS
  <1>5. ASSUME NEW m \in S PROVE m <= n
    <2>1. b - n <= b - m
      BY <1>2, <1>3, <1>4
    <2> QED
      BY <2>1
  <1> QED
    BY <1>5

LEMMA MaxIs ==
    ASSUME NEW S, S \subseteq Nat, NEW n \in S, \A m \in S : m <= n
    PROVE  Max(S) = n
  <1>1. \A m \in S : n >= m
    OBVIOUS
  <1>2. Max(S) \in S /\ \A m \in S : Max(S) >= m
    <2>1. \E x \in S : \A y \in S : x >= y
      BY <1>1
    <2> QED
      BY <2>1, Zenon DEF Max
  <1>3. Max(S) \in Nat /\ n \in Nat /\ n >= Max(S) /\ Max(S) >= n
    BY <1>1, <1>2
  <1> QED
    BY <1>3

LEMMA MinIs ==
    ASSUME NEW S, S \subseteq Nat, S # {}
    PROVE  Min(S) \in S /\ \A m \in S : Min(S) <= m
  <1>1. PICK n \in S : \A m \in S : n <= m
    BY LeastNumber
  <1>2. \E x \in S : \A y \in S : x =< y
    BY <1>1
  <1> QED
    BY <1>2, Zenon DEF Min

LEMMA MaxIsIn ==
    ASSUME NEW S, S \subseteq Nat, S # {}, NEW b \in Nat, \A n \in S : n <= b
    PROVE  Max(S) \in S /\ \A m \in S : m <= Max(S)
  <1>1. PICK n \in S : \A m \in S : m <= n
    BY GreatestNumber
  <1> QED
    BY <1>1, MaxIs

\* Numbers between bounds are counted, and a set with one more counts more.
LEMMA CountsUp ==
    ASSUME NEW b \in Nat, NEW S, NEW T, T \subseteq S, \A n \in S : n \in Nat /\ n <= b
    PROVE  /\ Cardinality(T) \in Nat /\ Cardinality(S) \in Nat
           /\ Cardinality(T) <= Cardinality(S)
           /\ S # T => Cardinality(T) < Cardinality(S)
  <1>1. S \in SUBSET (0..b) /\ IsFiniteSet(0..b)
    BY FS_Interval
  <1>2. IsFiniteSet(S)
    BY <1>1, FS_Subset
  <1>3. /\ IsFiniteSet(T) /\ Cardinality(T) <= Cardinality(S)
        /\ Cardinality(S) = Cardinality(T) => S = T
    BY <1>2, FS_Subset
  <1>4. Cardinality(T) \in Nat /\ Cardinality(S) \in Nat
    BY <1>2, <1>3, FS_CardinalityType
  <1> QED
    BY <1>3, <1>4

-----------------------------------------------------------------------------
(* Steps, hosts and batches *)

Sound(s) == s \in Scenarios /\ Lowers(s)

LEMMA StepFacts ==
    ASSUME NEW s \in Scenarios
    PROVE  /\ Len(s) \in Nat /\ Steps(s) = 1..Len(s)
           /\ \A k \in Steps(s) :
                /\ k \in Nat /\ k >= 1 /\ k <= Len(s)
                /\ s[k].form \in Forms /\ s[k].entries \in Nat /\ s[k].off \in BOOLEAN
                /\ s[k].optional \in BOOLEAN
                /\ s[k].retry \in Nat /\ s[k].repeat \in Nat
                /\ s[k].caps \subseteq Vars /\ s[k].save \subseteq Vars
                /\ s[k].form = "then" => s[k].entries = 0 /\ ~s[k].off /\ s[k].caps = {}
                /\ s[k].form # "then" => s[k].entries > 0 /\ s[k].repeat > 0
  <1>1. s \in Seq(StepType) /\ \A k \in Steps(s) : Pushed(s[k])
    BY BudgetAssumption
  <1>2. Len(s) \in Nat /\ Steps(s) = 1..Len(s)
    BY <1>1 DEF Steps
  <1>3. ASSUME NEW k \in Steps(s)
        PROVE  /\ k \in Nat /\ k >= 1 /\ k <= Len(s)
               /\ s[k].form \in Forms /\ s[k].entries \in Nat /\ s[k].off \in BOOLEAN
               /\ s[k].optional \in BOOLEAN
               /\ s[k].retry \in Nat /\ s[k].repeat \in Nat
               /\ s[k].caps \subseteq Vars /\ s[k].save \subseteq Vars
               /\ s[k].form = "then" => s[k].entries = 0 /\ ~s[k].off /\ s[k].caps = {}
               /\ s[k].form # "then" => s[k].entries > 0 /\ s[k].repeat > 0
    <2>1. k \in Nat /\ k >= 1 /\ k <= Len(s)
      BY <1>2
    <2>2. s[k] \in StepType
      BY <1>1, <1>2
    <2>3. Pushed(s[k])
      BY <1>1
    <2>4. /\ s[k].form \in Forms /\ s[k].entries \in Nat /\ s[k].off \in BOOLEAN
          /\ s[k].optional \in BOOLEAN
          /\ s[k].retry \in Nat /\ s[k].repeat \in Nat
          /\ s[k].caps \subseteq Vars /\ s[k].save \subseteq Vars
      BY <2>2 DEF StepType
    <2> QED
      BY <2>1, <2>3, <2>4 DEF Pushed
  <1> QED
    BY <1>2, <1>3

LEMMA HostIs ==
    ASSUME NEW s, Sound(s), NEW t \in Steps(s), s[t].form = "then"
    PROVE  /\ Host(s, t) \in Requests(s) /\ Host(s, t) < t
           /\ \A i \in Requests(s) : i < t => i <= Host(s, t)
  <1>1. /\ Steps(s) \subseteq Nat /\ \A k \in Steps(s) : k <= Len(s)
        /\ Len(s) \in Nat
    BY StepFacts DEF Sound
  <1>2. HasHost(s, t)
    <2>1. SUFFICES ASSUME ~HasHost(s, t) PROVE "then_before_when" \in Errors(s)
      BY DEF Sound, Lowers
    <2> QED
      BY <2>1 DEF Errors
  <1> DEFINE B == {j \in Requests(s) : j < t}
  <1>3. B \subseteq Nat /\ B # {} /\ \A j \in B : j <= t
    BY <1>1, <1>2 DEF HasHost, Requests
  <1>4. t \in Nat
    BY <1>1
  <1>5. PICK h \in B : \A j \in B : j <= h
    BY <1>3, <1>4, GreatestNumber
  <1>6. \E j \in Requests(s) : j < t /\ \A i \in Requests(s) : i < t => i <= j
    BY <1>5
  <1> QED
    BY <1>6, Zenon DEF Host

LEMMA BatchFacts ==
    ASSUME NEW s, Sound(s)
    PROVE  /\ BatchCount(s) \in Nat
           /\ \A k \in Steps(s) : /\ BatchOf(s, k) \in Nat /\ 1 <= BatchOf(s, k)
                                  /\ BatchOf(s, k) <= BatchCount(s)
           /\ \A j, k \in Steps(s) : j <= k => BatchOf(s, j) <= BatchOf(s, k)
           /\ \A j, k \in Steps(s) : j < k /\ Opens(s, k) => BatchOf(s, j) < BatchOf(s, k)
  <1> DEFINE Opened(k) == {j \in 1..k : Opens(s, j)}
  <1>1. /\ Steps(s) = 1..Len(s) /\ Len(s) \in Nat
        /\ \A k \in Steps(s) : k \in Nat /\ 1 <= k /\ k <= Len(s)
    BY StepFacts DEF Sound
  <1>2. \A k \in Steps(s) : \A n \in Opened(k) : n \in Nat /\ n <= k
    BY <1>1
  <1>3. \A j, k \in Steps(s) : j <= k => Opened(j) \subseteq Opened(k)
    BY <1>1
  <1>4. \A j, k \in Steps(s) : j < k /\ Opens(s, k) => Opened(k) # Opened(j)
    <2>1. SUFFICES ASSUME NEW j \in Steps(s), NEW k \in Steps(s), j < k, Opens(s, k)
                   PROVE  k \in Opened(k) /\ k \notin Opened(j)
      OBVIOUS
    <2> QED
      BY <1>1, <2>1
  <1>5. \A k \in Steps(s) : BatchOf(s, k) = Cardinality(Opened(k))
    BY DEF BatchOf
  <1>6. \A k \in Steps(s) : 1 \in Opened(k)
    BY <1>1 DEF Opens
  <1> HIDE DEF Opened
  <1>7. ASSUME NEW j \in Steps(s), NEW k \in Steps(s), j <= k
        PROVE  /\ BatchOf(s, j) \in Nat /\ BatchOf(s, k) \in Nat /\ BatchOf(s, j) <= BatchOf(s, k)
               /\ j < k /\ Opens(s, k) => BatchOf(s, j) < BatchOf(s, k)
    <2>1. /\ Cardinality(Opened(j)) \in Nat /\ Cardinality(Opened(k)) \in Nat
          /\ Cardinality(Opened(j)) <= Cardinality(Opened(k))
          /\ Opened(k) # Opened(j) => Cardinality(Opened(j)) < Cardinality(Opened(k))
      <3>1. /\ k \in Nat /\ Opened(j) \subseteq Opened(k)
            /\ \A n \in Opened(k) : n \in Nat /\ n <= k
        BY <1>1, <1>2, <1>3, <1>7
      <3> QED
        BY <3>1, CountsUp
    <2> QED
      BY <1>4, <1>5, <2>1
  <1>8. ASSUME NEW k \in Steps(s) PROVE 1 <= BatchOf(s, k)
    <2>1. k \in Nat /\ {} \subseteq Opened(k) /\ \A n \in Opened(k) : n \in Nat /\ n <= k
      BY <1>1, <1>2
    <2>2. /\ Cardinality({}) \in Nat /\ Cardinality(Opened(k)) \in Nat
          /\ Opened(k) # {} => Cardinality({}) < Cardinality(Opened(k))
      BY <2>1, CountsUp
    <2>3. Cardinality(Opened(k)) >= 1
      BY <1>6, <2>2
    <2> QED
      BY <1>5, <2>2, <2>3
  <1>9. \A k \in Steps(s) : k <= k
    BY <1>1
  <1>10. CASE s = <<>>
    <2>1. BatchCount(s) = 0 /\ Steps(s) = {}
      BY <1>1, <1>10 DEF BatchCount
    <2> QED
      BY <2>1
  <1>11. CASE s # <<>>
    <2>1. s \in Seq(StepType)
      BY BudgetAssumption DEF Sound
    <2>2. Len(s) \in Steps(s)
      BY <1>1, <1>11, <2>1
    <2>3. BatchCount(s) = BatchOf(s, Len(s))
      BY <1>11 DEF BatchCount
    <2>4. \A k \in Steps(s) : BatchOf(s, k) <= BatchOf(s, Len(s))
      BY <1>1, <1>7, <2>2
    <2> QED
      BY <1>7, <1>8, <1>9, <2>2, <2>3, <2>4, <1>1
  <1> QED
    BY <1>10, <1>11

\* A "then" never opens a batch, so that it is in its host's.
LEMMA HostBatch ==
    ASSUME NEW s, Sound(s), NEW t \in Steps(s), s[t].form = "then"
    PROVE  BatchOf(s, t) = BatchOf(s, Host(s, t))
  <1> DEFINE h == Host(s, t)
  <1>1. h \in Steps(s) /\ h < t /\ \A i \in Requests(s) : i < t => i <= h
    BY HostIs DEF Requests
  <1>2. \A k \in Steps(s) : k \in Nat /\ 1 <= k /\ k <= Len(s)
    BY StepFacts DEF Sound
  <1>3. Steps(s) = 1..Len(s) /\ Len(s) \in Nat
    BY StepFacts DEF Sound
  <1> HIDE DEF h
  <1>4. ASSUME NEW j \in 1..t, Opens(s, j) PROVE j \in 1..h
    <2>1. j \in Steps(s) /\ j \in Nat
      BY <1>2, <1>3
    <2>2. CASE j = 1
      BY <1>1, <1>2, <2>2
    <2>3. CASE j # 1
      <3>1. s[j].form # "then"
        BY <1>4, <2>3 DEF Opens
      <3>2. j \in Requests(s) /\ j # t
        BY <2>1, <3>1 DEF Requests
      <3>3. j < t
        <4>1. t \in Nat /\ j <= t
          BY <1>2
        <4> QED
          BY <2>1, <3>2, <4>1
      <3>4. j <= h
        BY <1>1, <3>2, <3>3
      <3>5. j \in Nat /\ h \in Nat /\ 1 <= j
        BY <1>1, <1>2, <2>1
      <3> QED
        BY <3>4, <3>5
    <2> QED
      BY <2>2, <2>3
  <1>5. {j \in 1..t : Opens(s, j)} = {j \in 1..h : Opens(s, j)}
    <2>1. \A j \in 1..h : j \in 1..t
      BY <1>1, <1>2
    <2> QED
      BY <1>4, <2>1
  <1> QED
    BY <1>5 DEF BatchOf, h

\* An optional request shares its batch with its own asserts only.
LEMMA OptionalAlone ==
    ASSUME NEW s, Sound(s), NEW h \in Requests(s), Optional(s, h),
           NEW k \in Steps(s), BatchOf(s, k) = BatchOf(s, h)
    PROVE  k = h \/ (s[k].form = "then" /\ Host(s, k) = h)
  <1>1. \A i \in Steps(s) : i \in Nat /\ 1 <= i /\ i <= Len(s)
    BY StepFacts DEF Sound
  <1>2. Steps(s) = 1..Len(s) /\ Len(s) \in Nat
    BY StepFacts DEF Sound
  <1>3. /\ \A i \in Steps(s) : BatchOf(s, i) \in Nat
        /\ \A i, j \in Steps(s) : i <= j => BatchOf(s, i) <= BatchOf(s, j)
        /\ \A i, j \in Steps(s) : i < j /\ Opens(s, j) => BatchOf(s, i) < BatchOf(s, j)
    BY BatchFacts
  <1>4. h \in Steps(s) /\ s[h].form # "then"
    BY DEF Requests
  <1>5. Requests(s) \subseteq Steps(s)
    BY DEF Requests
  \* The request that comes next opens a batch.
  <1>6. ASSUME NEW r \in Requests(s), h < r PROVE BatchOf(s, h) < BatchOf(s, r)
    <2> DEFINE N == {i \in Requests(s) : h < i}
    <2>1. N \subseteq Nat /\ r \in N
      BY <1>1, <1>5, <1>6
    <2>2. PICK n \in N : \A i \in N : n <= i
      BY <2>1, LeastNumber
    <2>3. n \in Steps(s) /\ n \in Nat /\ h \in Nat /\ h < n /\ n <= r /\ r \in Steps(s) /\ n # 1
      BY <1>1, <1>4, <1>5, <2>1, <2>2
    <2>4. s[n].form # "then"
      BY <2>2 DEF Requests
    <2>5. Optional(s, n - 1)
      <3>1. CASE n - 1 = h
        BY <3>1
      <3>2. CASE n - 1 # h
        <4>1. n - 1 \in Steps(s) /\ h < n - 1
          BY <1>1, <1>2, <2>3, <3>2
        <4>2. n - 1 \notin N
          BY <2>2, <2>3
        <4>3. s[n - 1].form = "then"
          BY <4>1, <4>2 DEF Requests
        <4>4. /\ Host(s, n - 1) \in Requests(s) /\ Host(s, n - 1) < n - 1
              /\ h <= Host(s, n - 1)
          BY <4>1, <4>3, HostIs
        <4>5. Host(s, n - 1) = h
          <5>1. Host(s, n - 1) \in Nat /\ h \in Nat
            BY <1>1, <1>4, <1>5, <4>4
          <5>2. Host(s, n - 1) \notin N
            <6>1. ~(n <= Host(s, n - 1))
              BY <2>3, <4>4, <5>1
            <6> QED
              BY <2>2, <6>1, Zenon
          <5>3. ~(h < Host(s, n - 1))
            BY <4>4, <5>2
          <5> QED
            BY <4>4, <5>1, <5>3
        <4> QED
          BY <1>4, <4>3, <4>5 DEF Optional
      <3> QED
        BY <3>1, <3>2
    <2>6. Opens(s, n)
      BY <2>4, <2>5 DEF Opens
    <2>7. BatchOf(s, h) < BatchOf(s, n) /\ BatchOf(s, n) <= BatchOf(s, r)
      BY <1>3, <1>4, <2>3, <2>6
    <2>8. BatchOf(s, h) \in Nat /\ BatchOf(s, n) \in Nat /\ BatchOf(s, r) \in Nat
      BY <1>3, <1>4, <2>3
    <2> QED
      BY <2>7, <2>8
  <1>7. ASSUME NEW r \in Requests(s), BatchOf(s, r) = BatchOf(s, h) PROVE r = h
    <2>1. r \in Steps(s) /\ r \in Nat /\ h \in Nat /\ s[r].form # "then"
      BY <1>1, <1>4 DEF Requests
    <2>2. CASE h < r
      BY <1>3, <1>4, <1>6, <1>7, <2>1, <2>2
    <2>3. CASE r < h
      <3>1. Opens(s, h)
        BY <1>1, <1>4, <2>1, <2>3 DEF Opens
      <3> QED
        BY <1>3, <1>4, <1>7, <2>1, <2>3, <3>1
    <2> QED
      BY <2>1, <2>2, <2>3
  <1>8. CASE s[k].form # "then"
    BY <1>7, <1>8 DEF Requests
  <1>9. CASE s[k].form = "then"
    <2>1. Host(s, k) \in Requests(s) /\ BatchOf(s, Host(s, k)) = BatchOf(s, h)
      BY <1>9, HostIs, HostBatch
    <2> QED
      BY <1>7, <1>9, <2>1
  <1> QED
    BY <1>8, <1>9

-----------------------------------------------------------------------------
(* Runs *)

LEMMA RunFacts ==
    ASSUME Sound(scn), NEW b
    PROVE  /\ \A k \in Steps(scn) : RunOf(b, k) \in Nat
           /\ \A j, k \in Steps(scn) : j <= k => RunOf(b, j) <= RunOf(b, k)
           /\ \A j \in Steps(scn) : \A k \in Plan(b) :
                 j < k /\ OpensRun(b, k) => RunOf(b, j) < RunOf(b, k)
  <1> DEFINE Opened(k) == {j \in Plan(b) : j <= k /\ OpensRun(b, j)}
  <1>1. /\ Plan(b) \subseteq Steps(scn)
        /\ \A k \in Steps(scn) : k \in Nat
    BY StepFacts DEF Sound, Plan, Batch
  <1>2. \A k \in Steps(scn) : \A n \in Opened(k) : n \in Nat /\ n <= k
    BY <1>1
  <1>3. \A j, k \in Steps(scn) : j <= k => Opened(j) \subseteq Opened(k)
    <2>1. SUFFICES ASSUME NEW j \in Steps(scn), NEW k \in Steps(scn), j <= k, NEW i \in Plan(b), i <= j
                   PROVE  i <= k
      OBVIOUS
    <2> QED
      BY <1>1, <2>1
  <1>4. \A j \in Steps(scn) : \A k \in Plan(b) : j < k /\ OpensRun(b, k) => Opened(k) # Opened(j)
    <2>1. SUFFICES ASSUME NEW j \in Steps(scn), NEW k \in Plan(b), j < k, OpensRun(b, k)
                   PROVE  k \in Opened(k) /\ k \notin Opened(j)
      OBVIOUS
    <2> QED
      BY <1>1, <2>1
  <1>5. \A k : RunOf(b, k) = Cardinality(Opened(k))
    BY DEF RunOf
  <1> HIDE DEF Opened
  <1>6. ASSUME NEW j \in Steps(scn), NEW k \in Steps(scn), j <= k
        PROVE  /\ RunOf(b, j) \in Nat /\ RunOf(b, k) \in Nat /\ RunOf(b, j) <= RunOf(b, k)
               /\ Opened(k) # Opened(j) => RunOf(b, j) < RunOf(b, k)
    <2>1. /\ k \in Nat /\ Opened(j) \subseteq Opened(k)
          /\ \A n \in Opened(k) : n \in Nat /\ n <= k
      BY <1>1, <1>2, <1>3, <1>6
    <2>2. /\ Cardinality(Opened(j)) \in Nat /\ Cardinality(Opened(k)) \in Nat
          /\ Cardinality(Opened(j)) <= Cardinality(Opened(k))
          /\ Opened(k) # Opened(j) => Cardinality(Opened(j)) < Cardinality(Opened(k))
      BY <2>1, CountsUp
    <2> QED
      BY <1>5, <2>2
  <1>7. \A k \in Steps(scn) : k <= k
    BY <1>1
  <1>8. \A j, k \in Steps(scn) : j < k => j <= k
    BY <1>1
  <1> QED
    BY <1>1, <1>4, <1>6, <1>7, <1>8

\* Asserts are in the run of their request, if that one is in the plan.
LEMMA HostRun ==
    ASSUME Sound(scn), NEW b, NEW t \in Plan(b), scn[t].form = "then", ~scn[Host(scn, t)].off
    PROVE  Host(scn, t) \in Plan(b) /\ RunOf(b, t) = RunOf(b, Host(scn, t))
  <1> DEFINE h == Host(scn, t)
  <1>1. t \in Steps(scn) /\ BatchOf(scn, t) = b
    BY DEF Plan, Batch
  <1>2. h \in Steps(scn) /\ h < t /\ \A i \in Requests(scn) : i < t => i <= h
    BY <1>1, HostIs DEF Requests
  <1>3. BatchOf(scn, h) = b
    BY <1>1, HostBatch
  <1>4. h \in Plan(b)
    BY <1>2, <1>3 DEF Plan, Batch
  <1>5. /\ \A k \in Steps(scn) : k \in Nat /\ (scn[k].form = "then" => ~HasEntries(k))
        /\ Plan(b) \subseteq Steps(scn)
    BY StepFacts DEF Sound, HasEntries, Plan, Batch
  <1> HIDE DEF h
  <1>6. ASSUME NEW j \in Plan(b), OpensRun(b, j), j <= t PROVE j <= h
    <2>1. HasEntries(j)
      BY <1>6 DEF OpensRun
    <2>2. j \in Requests(scn) /\ j # t
      BY <1>5, <2>1 DEF Requests
    <2>3. j < t
      <3>1. j \in Nat /\ t \in Nat
        BY <1>1, <1>5
      <3> QED
        BY <1>6, <2>2, <3>1
    <2> QED
      BY <1>2, <2>2, <2>3
  <1>7. ASSUME NEW j \in Plan(b), j <= h PROVE j <= t
    <2>1. j \in Nat /\ t \in Nat /\ h \in Nat
      BY <1>1, <1>2, <1>5
    <2> QED
      BY <1>2, <1>7, <2>1
  <1>8. {j \in Plan(b) : j <= t /\ OpensRun(b, j)} = {j \in Plan(b) : j <= h /\ OpensRun(b, j)}
    BY <1>6, <1>7
  <1>9. RunOf(b, t) = RunOf(b, h)
    BY <1>8 DEF RunOf
  <1> QED
    BY <1>4, <1>9 DEF h

\* Between two steps of one run there is no entry of a step that left the plan.
LEMMA NoGap ==
    ASSUME Sound(scn), NEW b, NEW j \in Plan(b), NEW k \in Plan(b), HasEntries(j), HasEntries(k),
           RunOf(b, j) = RunOf(b, k), NEW i \in Nat, j <= i, i <= k, HasEntries(i)
    PROVE  i \in Plan(b) /\ RunOf(b, i) = RunOf(b, j)
  <1>1. /\ Steps(scn) = 1..Len(scn) /\ Len(scn) \in Nat
        /\ \A n \in Steps(scn) : n \in Nat /\ 1 <= n /\ n <= Len(scn) /\ scn[n].off \in BOOLEAN
        /\ Plan(b) \subseteq Steps(scn)
    BY StepFacts DEF Sound, Plan, Batch
  <1>2. i \in Steps(scn)
    <2>1. j \in Nat /\ k \in Nat /\ 1 <= j /\ k <= Len(scn)
      BY <1>1
    <2> QED
      BY <1>1, <2>1
  <1>3. BatchOf(scn, i) = b
    <2>1. BatchOf(scn, j) = b /\ BatchOf(scn, k) = b
      BY DEF Plan, Batch
    <2>2. /\ BatchOf(scn, j) <= BatchOf(scn, i) /\ BatchOf(scn, i) <= BatchOf(scn, k)
          /\ BatchOf(scn, j) \in Nat /\ BatchOf(scn, i) \in Nat
      BY <1>1, <1>2, BatchFacts
    <2> QED
      BY <2>1, <2>2
  <1>4. /\ RunOf(b, j) \in Nat /\ RunOf(b, i) \in Nat /\ RunOf(b, k) \in Nat
        /\ RunOf(b, j) <= RunOf(b, i) /\ RunOf(b, i) <= RunOf(b, k)
    BY <1>1, <1>2, RunFacts
  <1>5. RunOf(b, i) = RunOf(b, j)
    BY <1>4
  <1>6. ASSUME i \notin Plan(b) PROVE FALSE
    <2> DEFINE Next1 == {n \in Plan(b) : HasEntries(n) /\ i < n}
               Last1 == {n \in Plan(b) : HasEntries(n) /\ n < i}
    <2>1. i # j /\ i # k /\ j < i /\ i < k
      <3>1. j \in Nat /\ k \in Nat /\ i # j /\ i # k
        BY <1>1, <1>6
      <3> QED
        BY <3>1
    <2>2. Next1 \subseteq Nat /\ k \in Next1 /\ Last1 \subseteq Nat /\ j \in Last1
      BY <1>1, <2>1
    <2>3. PICK c \in Next1 : \A n \in Next1 : c <= n
      BY <2>2, LeastNumber
    <2>4. \A n \in Last1 : n <= i
      BY <1>1
    <2>5. PICK p \in Last1 : \A n \in Last1 : n <= p
      <3>1. Last1 # {}
        BY <2>2
      <3> HIDE DEF Last1
      <3> QED
        BY <2>2, <2>4, <3>1, GreatestNumber
    <2>6. p \in Plan(b) /\ c \in Plan(b) /\ HasEntries(p) /\ HasEntries(c) /\ p < i /\ i < c
      OBVIOUS
    <2>7. p \in Nat /\ c \in Nat /\ p \in Steps(scn) /\ c \in Steps(scn)
      BY <1>1, <2>6
    <2>8. \A q \in Plan(b) : q < c /\ HasEntries(q) => q <= p
      <3>1. SUFFICES ASSUME NEW q \in Plan(b), q < c, HasEntries(q) PROVE q <= p
        OBVIOUS
      <3>2. q \in Nat /\ q # i
        BY <1>1, <1>6
      <3>3. ~(i < q)
        <4>1. ~(c <= q)
          BY <2>7, <3>1, <3>2
        <4> QED
          BY <2>3, <3>1, <4>1, Zenon
      <3>4. q < i
        BY <3>2, <3>3
      <3> QED
        BY <2>5, <3>1, <3>4
    <2>9. i \in (p + 1)..(c - 1)
      BY <2>6, <2>7
    <2>10. p < c
      BY <2>6, <2>7
    <2>11. OpensRun(b, c)
      BY <2>6, <2>8, <2>9, <2>10 DEF OpensRun
    <2>12. RunOf(b, p) < RunOf(b, c)
      BY <2>6, <2>7, <2>10, <2>11, RunFacts
    <2>13. RunOf(b, j) <= RunOf(b, p)
      BY <1>1, <2>2, <2>5, <2>7, RunFacts
    <2>14. RunOf(b, c) <= RunOf(b, k)
      BY <1>1, <2>2, <2>3, <2>7, RunFacts
    <2>15. RunOf(b, p) \in Nat /\ RunOf(b, c) \in Nat
      BY <2>7, RunFacts
    <2> QED
      BY <1>4, <2>12, <2>13, <2>14, <2>15
  <1> QED
    BY <1>5, <1>6

\* What runs next: all that waits and is no later than any other.
LEMMA RunIs ==
    ASSUME Sound(scn), Waiting(batch) # {}
    PROVE  /\ Run # {} /\ Run \subseteq Waiting(batch)
           /\ \A k \in Run : \A j \in Waiting(batch) : RunOf(batch, j) <= RunOf(batch, k) => j \in Run
           /\ \A j, k \in Run : RunOf(batch, j) = RunOf(batch, k)
  <1>1. /\ Waiting(batch) \subseteq Steps(scn)
        /\ \A k \in Waiting(batch) : RunOf(batch, k) \in Nat
    BY RunFacts DEF Waiting, Plan, Batch
  <1> DEFINE N == {RunOf(batch, k) : k \in Waiting(batch)}
  <1>2. N \subseteq Nat /\ N # {}
    BY <1>1
  <1>3. PICK n \in N : \A m \in N : n <= m
    BY <1>2, LeastNumber
  <1>4. PICK f \in Waiting(batch) : n = RunOf(batch, f)
    OBVIOUS
  <1>5. \A j \in Waiting(batch) : RunOf(batch, f) <= RunOf(batch, j)
    BY <1>3, <1>4
  <1>6. f \in Run
    BY <1>5 DEF Run
  <1>7. ASSUME NEW k \in Run, NEW j \in Waiting(batch), RunOf(batch, j) <= RunOf(batch, k)
        PROVE  j \in Run
    <2>1. ASSUME NEW i \in Waiting(batch) PROVE RunOf(batch, j) <= RunOf(batch, i)
      <3>1. RunOf(batch, k) <= RunOf(batch, i) /\ k \in Waiting(batch)
        BY DEF Run
      <3>2. RunOf(batch, i) \in Nat /\ RunOf(batch, j) \in Nat /\ RunOf(batch, k) \in Nat
        BY <1>1, <3>1
      <3> QED
        BY <1>7, <3>1, <3>2
    <2> QED
      BY <2>1 DEF Run
  <1>8. ASSUME NEW j \in Run, NEW k \in Run PROVE RunOf(batch, j) = RunOf(batch, k)
    <2>1. /\ j \in Waiting(batch) /\ k \in Waiting(batch)
          /\ RunOf(batch, j) <= RunOf(batch, k) /\ RunOf(batch, k) <= RunOf(batch, j)
      BY DEF Run
    <2>2. RunOf(batch, j) \in Nat /\ RunOf(batch, k) \in Nat
      BY <1>1, <2>1
    <2> QED
      BY <2>1, <2>2
  <1>9. Run \subseteq Waiting(batch)
    BY DEF Run
  <1> QED
    BY <1>6, <1>7, <1>8, <1>9

\* A step of the run waits, is in the plan of the batch, and has its asserts beside it.
LEMMA RunMembers ==
    ASSUME Sound(scn), NEW k \in Run
    PROVE  /\ k \in Steps(scn) /\ k \in Batch(scn, batch) /\ BatchOf(scn, k) = batch
           /\ k \in Plan(batch) /\ ~scn[k].off /\ outcome[k] = "none" /\ k \in Waiting(batch)
  <1>1. k \in Waiting(batch)
    BY DEF Run
  <1> QED
    BY <1>1 DEF Waiting, Plan, Batch

\* hurl is given the entries of the run's steps, and no other one.
LEMMA SliceIs ==
    ASSUME Sound(scn), InOrder, Inside, \E k \in Run : HasEntries(k)
    PROVE  /\ Slice(Run) = UNION {EntriesOf(scn, k) : k \in Run}
           /\ Slice(Run) \subseteq AllEntries(scn) /\ Slice(Run) # {}
           /\ \A e \in AllEntries(scn) : e \in Slice(Run) <=> e[1] \in Run
  <1> DEFINE O == {k \in Run : HasEntries(k)}
             lo == Min(O)
             hi == Max(O)
  <1>1. Waiting(batch) # {}
    BY DEF Run
  <1>2. /\ Run \subseteq Waiting(batch) /\ Waiting(batch) \subseteq Plan(batch)
        /\ Plan(batch) \subseteq Steps(scn)
    BY <1>1, RunIs DEF Waiting, Plan, Batch
  <1>3. \A k \in Steps(scn) : k \in Nat /\ k <= Len(scn) /\ scn[k].entries \in Nat
    BY StepFacts DEF Sound
  <1>4. Len(scn) \in Nat
    BY StepFacts DEF Sound
  <1>5. O \subseteq Nat /\ O # {} /\ \A k \in O : k <= Len(scn)
    BY <1>2, <1>3
  <1>6. lo \in O /\ \A k \in O : lo <= k
    <2> HIDE DEF O
    <2> QED
      BY <1>5, MinIs
  <1>7. hi \in O /\ \A k \in O : k <= hi
    <2> HIDE DEF O
    <2> QED
      BY <1>4, <1>5, MaxIsIn
  <1>8. Slice(Run) = UNION {EntriesOf(scn, k) : k \in lo..hi}
    BY DEF Slice
  <1> HIDE DEF lo, hi
  <1>9. ASSUME NEW k \in lo..hi, HasEntries(k) PROVE k \in Run
    <2>1. /\ lo \in Plan(batch) /\ hi \in Plan(batch) /\ HasEntries(lo) /\ HasEntries(hi)
          /\ lo \in Run /\ hi \in Run /\ lo \in Nat /\ hi \in Nat
      BY <1>2, <1>3, <1>6, <1>7
    <2>2. RunOf(batch, lo) = RunOf(batch, hi)
      BY <1>1, <2>1, RunIs
    <2>3. k \in Nat /\ lo <= k /\ k <= hi
      BY <2>1
    <2>4. k \in Plan(batch) /\ RunOf(batch, k) = RunOf(batch, lo)
      BY <1>9, <2>1, <2>2, <2>3, NoGap
    <2>5. RunOf(batch, lo) \in Nat /\ outcome[lo] = "none"
      BY <1>2, <2>1, RunFacts, RunMembers
    <2>6. outcome[k] = "none"
      <3>1. RunOf(batch, lo) <= RunOf(batch, k)
        BY <2>4, <2>5
      <3> QED
        BY <2>1, <2>4, <2>5, <3>1 DEF InOrder
    <2>7. k \in Waiting(batch) /\ RunOf(batch, k) <= RunOf(batch, lo)
      BY <2>4, <2>5, <2>6 DEF Waiting
    <2> QED
      BY <1>1, <2>1, <2>7, RunIs
  <1>10. \A k \in Run : k \in O \/ EntriesOf(scn, k) = {}
    <2>1. ASSUME NEW k \in Run, ~HasEntries(k) PROVE EntriesOf(scn, k) = {}
      <3>1. scn[k].entries = 0
        BY <1>2, <1>3, <2>1 DEF HasEntries
      <3>2. 1..0 = {}
        OBVIOUS
      <3> QED
        BY <3>1, <3>2 DEF EntriesOf
    <2> QED
      BY <2>1
  <1>11. \A k \in O : k \in lo..hi
    <2>1. \A k \in O : k \in Nat /\ lo \in Nat /\ hi \in Nat
      BY <1>5, <1>6, <1>7
    <2> QED
      BY <1>6, <1>7, <2>1
  <1>12. ASSUME NEW k \in lo..hi, ~HasEntries(k) PROVE EntriesOf(scn, k) = {}
    <2>1. k \in Steps(scn)
      <3>1. lo \in Steps(scn) /\ hi \in Steps(scn) /\ Steps(scn) = 1..Len(scn)
        BY <1>2, <1>6, <1>7, StepFacts DEF Sound
      <3>2. lo \in Nat /\ hi \in Nat /\ 1 <= lo /\ hi <= Len(scn)
        BY <1>4, <3>1
      <3> QED
        BY <1>4, <3>1, <3>2
    <2>2. scn[k].entries = 0
      BY <1>3, <1>12, <2>1 DEF HasEntries
    <2>3. 1..0 = {}
      OBVIOUS
    <2> QED
      BY <2>2, <2>3 DEF EntriesOf
  <1> HIDE DEF O
  <1>13. Slice(Run) = UNION {EntriesOf(scn, k) : k \in Run}
    <2>1. ASSUME NEW e, NEW k \in lo..hi, e \in EntriesOf(scn, k) PROVE \E j \in Run : e \in EntriesOf(scn, j)
      BY <1>9, <1>12, <2>1
    <2>2. ASSUME NEW e, NEW k \in Run, e \in EntriesOf(scn, k) PROVE \E j \in lo..hi : e \in EntriesOf(scn, j)
      BY <1>10, <1>11, <2>2
    <2> QED
      BY <1>8, <2>1, <2>2
  <1>14. \A k \in Run : EntriesOf(scn, k) \subseteq AllEntries(scn)
    BY <1>2 DEF AllEntries
  <1>15. \A e \in AllEntries(scn) : e \in EntriesOf(scn, e[1])
    BY DEF AllEntries, EntriesOf
  <1>16. \A k : \A e \in EntriesOf(scn, k) : e[1] = k
    BY DEF EntriesOf
  <1>17. PICK k \in Run : HasEntries(k)
    OBVIOUS
  <1>18. <<k, 1>> \in EntriesOf(scn, k)
    BY <1>2, <1>3, <1>17 DEF EntriesOf, HasEntries
  <1> QED
    BY <1>13, <1>14, <1>15, <1>16, <1>18

-----------------------------------------------------------------------------
(* Entries, one before the other *)

LEMMA EntryFacts ==
    ASSUME NEW s \in Scenarios
    PROVE  /\ AllEntries(s) \subseteq Nat \X Nat
           /\ \A e \in AllEntries(s) :
                /\ e = <<e[1], e[2]>> /\ e[1] \in Steps(s) /\ e[2] \in 1..s[e[1]].entries
                /\ e \in EntriesOf(s, e[1]) /\ s[e[1]].form # "then" /\ e # <<0, 0>>
           /\ \A k \in Steps(s) : \A e \in EntriesOf(s, k) : e \in AllEntries(s) /\ e[1] = k
           /\ \A k \in Steps(s) : s[k].form # "then" =>
                 <<k, s[k].entries>> \in EntriesOf(s, k) /\ <<k, s[k].entries>> \in AllEntries(s)
  <1>1. \A k \in Steps(s) : /\ k \in Nat /\ k >= 1 /\ s[k].entries \in Nat
                            /\ s[k].form = "then" => s[k].entries = 0
                            /\ s[k].form # "then" => s[k].entries > 0
    BY StepFacts
  <1>2. ASSUME NEW k \in Steps(s), NEW e \in EntriesOf(s, k)
        PROVE  /\ e \in Nat \X Nat /\ e = <<e[1], e[2]>> /\ e[1] = k /\ e[2] \in 1..s[e[1]].entries
               /\ e[2] \in Nat /\ s[k].form # "then" /\ e # <<0, 0>> /\ e \in AllEntries(s)
    <2>1. e = <<e[1], e[2]>> /\ e[1] = k /\ e[2] \in 1..s[k].entries
      BY DEF EntriesOf
    <2>2. e[2] \in Nat /\ 1 <= e[2] /\ e[2] <= s[k].entries
      BY <1>1, <2>1
    <2>3. s[k].form # "then" /\ e[1] # 0
      BY <1>1, <2>1, <2>2
    <2>4. e \in AllEntries(s)
      BY DEF AllEntries
    <2> QED
      BY <1>1, <2>1, <2>2, <2>3, <2>4
  <1>3. \A e \in AllEntries(s) : \E k \in Steps(s) : e \in EntriesOf(s, k)
    BY DEF AllEntries
  <1>4. ASSUME NEW k \in Steps(s), s[k].form # "then" PROVE <<k, s[k].entries>> \in EntriesOf(s, k)
    BY <1>1, <1>4 DEF EntriesOf
  <1> QED
    BY <1>2, <1>3, <1>4

LEMMA BeforeOrders ==
    /\ \A e, f \in Nat \X Nat : e = f \/ Before(e, f) \/ Before(f, e)
    /\ \A e, f \in Nat \X Nat : ~(Before(e, f) /\ Before(f, e)) /\ ~Before(e, e)
    /\ \A e, f, g \in Nat \X Nat : Before(e, f) /\ Before(f, g) => Before(e, g)
  BY DEF Before

LEMMA FirstIs ==
    ASSUME NEW E, E \subseteq Nat \X Nat, E # {}
    PROVE  FirstOf(E) \in E /\ \A f \in E : f = FirstOf(E) \/ Before(FirstOf(E), f)
  <1> DEFINE A == {e[1] : e \in E}
  <1>1. A \subseteq Nat /\ A # {}
    OBVIOUS
  <1>2. PICK a \in A : \A n \in A : a <= n
    BY <1>1, LeastNumber
  <1> DEFINE B == {e[2] : e \in {f \in E : f[1] = a}}
  <1>3. B \subseteq Nat /\ B # {}
    OBVIOUS
  <1>4. PICK b \in B : \A n \in B : b <= n
    <2> HIDE DEF B
    <2> QED
      BY <1>3, LeastNumber
  <1>5. PICK e \in E : e[1] = a /\ e[2] = b
    OBVIOUS
  <1>6. ASSUME NEW f \in E, f # e PROVE Before(e, f)
    <2>1. f[1] \in Nat /\ f[2] \in Nat /\ e[1] \in Nat /\ e[2] \in Nat
      OBVIOUS
    <2>2. e[1] <= f[1]
      BY <1>2, <1>5
    <2>3. f[1] = e[1] => e[2] <= f[2]
      BY <1>4, <1>5
    <2>4. ~(f[1] = e[1] /\ f[2] = e[2])
      BY <1>6
    <2> QED
      BY <2>1, <2>2, <2>3, <2>4 DEF Before
  <1>7. \E x \in E : \A f \in E \ {x} : Before(x, f)
    BY <1>6
  <1>8. FirstOf(E) \in E /\ \A f \in E \ {FirstOf(E)} : Before(FirstOf(E), f)
    BY <1>7, Zenon DEF FirstOf
  <1> QED
    BY <1>8

-----------------------------------------------------------------------------
(* What a step leaves as it is *)

LEMMA SameScenario ==
    ASSUME scn' = scn
    PROVE  /\ \A k : HasEntries(k)' <=> HasEntries(k)
           /\ \A b : Plan(b)' = Plan(b) /\ (AllOptional(b)' <=> AllOptional(b))
           /\ \A b, k : RunOf(b, k)' = RunOf(b, k)
           /\ \A e : (LastEntry(e)' <=> LastEntry(e)) /\ Mergeable(e)' = Mergeable(e)
                     /\ ErrsOf(e)' = ErrsOf(e)
           /\ \A k : HostEntry(k)' = HostEntry(k) /\ OwnEntries(k)' = OwnEntries(k)
                     /\ Attempts(k)' = Attempts(k)
  <1>1. \A k : HasEntries(k)' <=> HasEntries(k)
    BY DEF HasEntries
  <1>2. \A b : Plan(b)' = Plan(b) /\ (AllOptional(b)' <=> AllOptional(b))
    BY DEF Plan, AllOptional
  <1>3. \A b, k : OpensRun(b, k)' <=> OpensRun(b, k)
    BY <1>1, <1>2 DEF OpensRun
  <1>4. \A b, k : RunOf(b, k)' = RunOf(b, k)
    BY <1>2, <1>3 DEF RunOf
  <1>5. \A e : (LastEntry(e)' <=> LastEntry(e)) /\ Mergeable(e)' = Mergeable(e)
    BY DEF LastEntry, Mergeable
  <1>6. \A e : ErrsOf(e)' = ErrsOf(e)
    BY <1>5 DEF ErrsOf
  <1>7. \A k : HostEntry(k)' = HostEntry(k)
    BY DEF HostEntry
  <1>8. \A k : OwnEntries(k)' = OwnEntries(k)
    BY <1>7 DEF OwnEntries
  <1>9. \A k : Attempts(k)' = Attempts(k)
    BY DEF Attempts
  <1> QED
    BY <1>1, <1>2, <1>4, <1>5, <1>6, <1>7, <1>8, <1>9

LEMMA SameRun ==
    ASSUME UNCHANGED <<scn, batch, outcome>>
    PROVE  /\ Waiting(batch)' = Waiting(batch) /\ Run' = Run /\ Slice(Run)' = Slice(Run)
           /\ \A e : Rest(e)' = Rest(e)
           /\ \A k : Excused(k)' <=> Excused(k)
  <1>1. /\ \A k : HasEntries(k)' <=> HasEntries(k)
        /\ \A b : Plan(b)' = Plan(b)
        /\ \A b, k : RunOf(b, k)' = RunOf(b, k)
    BY SameScenario
  <1>2. Waiting(batch)' = Waiting(batch)
    BY <1>1 DEF Waiting
  <1>3. Run' = Run
    BY <1>1, <1>2 DEF Run
  <1>4. Slice(Run)' = Slice(Run)
    BY <1>1, <1>3 DEF Slice
  <1>5. \A e : Rest(e)' = Rest(e)
    BY <1>4 DEF Rest
  <1>6. \A k : Excused(k)' <=> Excused(k)
    BY DEF Excused
  <1> QED
    BY <1>2, <1>3, <1>4, <1>5, <1>6

VerdictOf(k) ==
    /\ outcome[k] = "passed" => \A e \in OwnEntries(k) : told[e].n > 0 /\ k \notin told[e].errs
    /\ outcome[k] = "failed" => \E e \in OwnEntries(k) : k \in told[e].errs
    /\ outcome[k] = "warned" => \/ \E e \in OwnEntries(k) : k \in told[e].errs /\ Optional(scn, k)
                                \/ scn[k].save # {}
    /\ outcome[k] = "skipped" => \A e \in OwnEntries(k) \cap EntriesOf(scn, k) : told[e].n = 0

LEMMA VerdictsByStep == VerdictsTrue <=> \A k \in Steps(scn) : VerdictOf(k)
  BY DEF VerdictsTrue, VerdictOf

LEMMA VerdictStays ==
    ASSUME NEW k, VerdictOf(k), scn' = scn, outcome'[k] = outcome[k],
           \A e \in OwnEntries(k) : told'[e] = told[e]
    PROVE  VerdictOf(k)'
  <1>1. OwnEntries(k)' = OwnEntries(k)
    BY SameScenario
  <1> QED
    BY <1>1 DEF VerdictOf

LEMMA VerdictsStay ==
    ASSUME VerdictsTrue, UNCHANGED <<scn, outcome, told>>
    PROVE  VerdictsTrue'
  <1>1. \A k \in Steps(scn) : VerdictOf(k)'
    BY VerdictsByStep, VerdictStays
  <1>2. Steps(scn)' = Steps(scn)
    OBVIOUS
  <1> QED
    BY <1>1, <1>2 DEF VerdictsTrue, VerdictOf

LEMMA OrderStays ==
    ASSUME InOrder, UNCHANGED <<scn, batch, outcome>>, pc' = pc \/ (pc = "run" /\ pc' = "call")
    PROVE  InOrder'
  <1>1. /\ \A b : Plan(b)' = Plan(b)
        /\ \A b, k : RunOf(b, k)' = RunOf(b, k)
    BY SameScenario
  <1>2. Inside' <=> Inside
    BY DEF Inside
  <1> QED
    BY <1>1, <1>2 DEF InOrder

-----------------------------------------------------------------------------
(* Each action keeps the invariant *)

LEMMA CancelKeeps ==
    ASSUME SessionInv, cancelled' \in BOOLEAN, cancelled => cancelled',
           UNCHANGED <<scn, batch, pc, at, tries, results, vars, world, jar, outcome, error,
                       broken, failed, told, saw>>
    PROVE  SessionInv'
  <1>1. /\ SessionType /\ InOrder /\ SentInCalls /\ (pc = "call" => CallGoesOn)
        /\ VerdictsTrue /\ FailuresCount /\ CookiesKept /\ CapturesKept
    BY DEF SessionInv
  <1>2. /\ \A k : HasEntries(k)' <=> HasEntries(k)
        /\ \A b : AllOptional(b)' <=> AllOptional(b)
        /\ \A e : ErrsOf(e)' = ErrsOf(e)
        /\ \A k : Attempts(k)' = Attempts(k)
    BY SameScenario
  <1>3. /\ Waiting(batch)' = Waiting(batch) /\ Run' = Run /\ Slice(Run)' = Slice(Run)
        /\ \A e : Rest(e)' = Rest(e)
        /\ \A k : Excused(k)' <=> Excused(k)
    BY SameRun
  <1>4. /\ Inside' <=> Inside
        /\ \A k : Calling(k)' <=> Calling(k)
        /\ \A k : Tried(k)' <=> Tried(k)
        /\ \A k : Answered(k)' <=> Answered(k)
        /\ Cursor' = Cursor
        /\ \A e : ResultsOf(e)' = ResultsOf(e)
        /\ \A e : Final(e)' = Final(e)
    <2>1. \A e : ResultsOf(e)' = ResultsOf(e)
      BY DEF ResultsOf
    <2> QED
      BY <1>3, <2>1 DEF Inside, Calling, Tried, Answered, Cursor, Final
  <1>5. SessionType'
    BY <1>1, <1>2 DEF SessionType
  <1>6. InOrder'
    BY <1>1, OrderStays
  <1>7. SentInCalls'
    BY <1>1, <1>2, <1>4 DEF SentInCalls
  <1>8. (pc = "call" => CallGoesOn)'
    BY <1>1, <1>2, <1>3, <1>4 DEF CallGoesOn
  <1>9. VerdictsTrue'
    BY <1>1, VerdictsStay
  <1>10. FailuresCount'
    BY <1>1, <1>2, <1>3, <1>4 DEF FailuresCount
  <1>11. CookiesKept'
    BY <1>1, <1>4 DEF CookiesKept
  <1>12. CapturesKept'
    BY <1>1, <1>4 DEF CapturesKept
  <1> QED
    BY <1>5, <1>6, <1>7, <1>8, <1>9, <1>10, <1>11, <1>12 DEF SessionInv

\* A step that was never tried, though told of: nothing of it was sent.
LEMMA Untold ==
    ASSUME SessionType, NEW k \in Steps(scn), ~Tried(k), NEW e \in EntriesOf(scn, k)
    PROVE  told[e].n = 0
  <1>1. e \in AllEntries(scn)
    BY EntryFacts DEF SessionType
  <1>2. told[e].n \in Nat /\ ~(told[e].n > 0)
    BY <1>1 DEF SessionType, Tried
  <1> QED
    BY <1>2

LEMMA StopKeeps ==
    ASSUME SessionInv, StopScenario
    PROVE  SessionInv'
  <1>1. /\ SessionType /\ InOrder /\ SentInCalls /\ VerdictsTrue /\ FailuresCount
        /\ CookiesKept /\ CapturesKept
    BY DEF SessionInv
  <1>2. /\ pc = "batch" /\ pc' = "ended"
        /\ batch > BatchCount(scn) \/ failed \/ cancelled
        /\ UNCHANGED <<scn, batch, at, tries, results, vars, world, jar, error, broken,
                       cancelled, failed, told, saw>>
        /\ outcome' = [k \in Steps(scn) |-> IF outcome[k] = "none" THEN "skipped" ELSE outcome[k]]
    BY DEF StopScenario
  <1>3. /\ \A e : ErrsOf(e)' = ErrsOf(e)
        /\ \A k : Attempts(k)' = Attempts(k)
    BY <1>2, SameScenario
  <1>4. /\ ~Inside /\ ~Inside'
        /\ \A k : ~Calling(k) /\ ~Calling(k)'
        /\ \A k : Tried(k)' <=> Tried(k)
        /\ \A k : Answered(k)' <=> Answered(k)
    BY <1>2 DEF Inside, Calling, Tried, Answered
  <1>5. SessionType'
    BY <1>1, <1>2, <1>3 DEF SessionType
  <1>6. \A k \in Steps(scn) : /\ outcome'[k] # "none"
                              /\ outcome[k] # "none" => outcome'[k] = outcome[k]
                              /\ outcome[k] = "none" => outcome'[k] = "skipped"
    BY <1>2
  <1>7. InOrder'
    BY <1>2, <1>4, <1>6 DEF InOrder
  <1>8. SentInCalls'
    BY <1>1, <1>2, <1>3, <1>4, <1>6 DEF SentInCalls
  <1>9. VerdictsTrue'
    <2>1. ASSUME NEW k \in Steps(scn), outcome[k] = "none" PROVE VerdictOf(k)'
      <3>1. ~Tried(k)
        BY <1>1, <1>4, <2>1 DEF SentInCalls
      <3>2. \A e \in EntriesOf(scn, k) : told[e].n = 0
        BY <1>1, <3>1, Untold
      <3>3. \A e \in EntriesOf(scn, k)' : told'[e].n = 0
        BY <1>2, <3>2
      <3> QED
        BY <1>6, <2>1, <3>3 DEF VerdictOf
    <2>2. ASSUME NEW k \in Steps(scn), outcome[k] # "none" PROVE VerdictOf(k)'
      <3>1. VerdictOf(k) /\ outcome'[k] = outcome[k]
        BY <1>1, <1>6, <2>2, VerdictsByStep
      <3> QED
        BY <1>2, <3>1, VerdictStays
    <2> QED
      BY <1>2, <2>1, <2>2 DEF VerdictsTrue, VerdictOf
  <1>10. ASSUME NEW k \in Steps(scn), Excused(k) PROVE Excused(k)'
    <2>1. CASE scn[k].off
      BY <1>2, <2>1 DEF Excused
    <2>2. CASE scn[k].form = "then"
      <3>1. Host(scn, k) \in Steps(scn)
        BY <1>1, <2>2, HostIs DEF SessionType, Sound, Requests
      <3>2. outcome[Host(scn, k)] = "warned" => outcome'[Host(scn, k)] = "warned"
        BY <1>6, <3>1
      <3> QED
        BY <1>2, <1>10, <3>2 DEF Excused
    <2> QED
      BY <1>10, <2>1, <2>2 DEF Excused
  <1>11. FailuresCount'
    <2>1. ASSUME NEW k \in Steps(scn), outcome[k] = "none" PROVE failed \/ cancelled
      <3>1. SUFFICES ASSUME batch > BatchCount(scn) PROVE FALSE
        BY <1>2
      <3>2. BatchOf(scn, k) < batch
        <4>1. BatchOf(scn, k) \in Nat /\ BatchCount(scn) \in Nat /\ BatchOf(scn, k) <= BatchCount(scn)
          BY <1>1, BatchFacts DEF SessionType, Sound
        <4>2. batch \in Nat
          BY <1>1 DEF SessionType
        <4> QED
          BY <3>1, <4>1, <4>2
      <3> QED
        BY <1>1, <2>1, <3>2 DEF InOrder
    <2>2. ASSUME NEW k \in Steps(scn)
          PROVE  /\ outcome'[k] = "failed" => ~Optional(scn, k) /\ failed
                 /\ outcome'[k] = "skipped" => Excused(k)' \/ failed \/ cancelled
      BY <1>1, <1>4, <1>6, <1>10, <2>1 DEF FailuresCount
    <2> QED
      BY <1>2, <1>4, <2>2 DEF FailuresCount
  <1>12. CookiesKept'
    BY <1>1, <1>2, <1>4 DEF CookiesKept
  <1>13. CapturesKept'
    BY <1>1, <1>2, <1>4 DEF CapturesKept
  <1> QED
    BY <1>2, <1>5, <1>7, <1>8, <1>9, <1>11, <1>12, <1>13 DEF SessionInv

LEMMA BeginKeeps ==
    ASSUME SessionInv, BeginBatch
    PROVE  SessionInv'
  <1>1. /\ SessionType /\ InOrder /\ SentInCalls /\ VerdictsTrue /\ FailuresCount
        /\ CookiesKept /\ CapturesKept
    BY DEF SessionInv
  <1>2. /\ pc = "batch" /\ pc' = "run" /\ ~failed /\ ~cancelled /\ error' = "none" /\ broken' = FALSE
        /\ UNCHANGED <<scn, batch, at, tries, results, vars, world, jar, cancelled, failed, told, saw>>
        /\ outcome' = [k \in Steps(scn) |->
                         IF k \in Batch(scn, batch) /\ scn[k].off THEN "skipped" ELSE outcome[k]]
    BY DEF BeginBatch
  <1>3. /\ \A e : ErrsOf(e)' = ErrsOf(e)
        /\ \A k : Attempts(k)' = Attempts(k)
        /\ \A b : Plan(b)' = Plan(b)
        /\ \A b, k : RunOf(b, k)' = RunOf(b, k)
    BY <1>2, SameScenario
  <1>4. /\ ~Inside /\ Inside'
        /\ \A k : ~Calling(k) /\ ~Calling(k)'
        /\ \A k : Tried(k)' <=> Tried(k)
        /\ \A k : Answered(k)' <=> Answered(k)
    BY <1>2 DEF Inside, Calling, Tried, Answered
  <1>5. SessionType'
    BY <1>1, <1>2, <1>3 DEF SessionType
  <1>6. \A k \in Batch(scn, batch) : outcome[k] = "none" /\ k \in Steps(scn)
    BY <1>1, <1>2 DEF InOrder, Batch
  <1>7. \A k \in Steps(scn) : /\ ~(k \in Batch(scn, batch) /\ scn[k].off) => outcome'[k] = outcome[k]
                              /\ k \in Batch(scn, batch) /\ scn[k].off => outcome'[k] = "skipped"
                              /\ outcome[k] # "none" => outcome'[k] = outcome[k]
    BY <1>2, <1>6
  <1>8. InOrder'
    <2>1. ASSUME NEW k \in Steps(scn)
          PROVE  /\ BatchOf(scn, k) < batch => outcome'[k] # "none"
                 /\ BatchOf(scn, k) > batch => outcome'[k] = "none"
      <3>1. BatchOf(scn, k) \in Nat /\ batch \in Nat
        BY <1>1, BatchFacts DEF SessionType, Sound
      <3>2. BatchOf(scn, k) > batch => k \notin Batch(scn, batch)
        BY <3>1 DEF Batch
      <3> QED
        BY <1>1, <1>2, <1>7, <3>2 DEF InOrder
    <2>2. \A k \in Plan(batch) : outcome'[k] = "none"
      BY <1>6, <1>7 DEF Plan
    <2> QED
      BY <1>2, <1>3, <1>6, <1>7, <2>1, <2>2 DEF InOrder
  <1>9. SentInCalls'
    BY <1>1, <1>2, <1>3, <1>4, <1>7 DEF SentInCalls
  <1>10. VerdictsTrue'
    <2>1. ASSUME NEW k \in Steps(scn), k \in Batch(scn, batch) /\ scn[k].off PROVE VerdictOf(k)'
      <3>1. ~Tried(k)
        BY <1>1, <2>1 DEF SentInCalls
      <3>2. \A e \in EntriesOf(scn, k) : told[e].n = 0
        BY <1>1, <3>1, Untold
      <3>3. \A e \in EntriesOf(scn, k)' : told'[e].n = 0
        BY <1>2, <3>2
      <3> QED
        BY <1>7, <2>1, <3>3 DEF VerdictOf
    <2>2. ASSUME NEW k \in Steps(scn), ~(k \in Batch(scn, batch) /\ scn[k].off) PROVE VerdictOf(k)'
      <3>1. VerdictOf(k) /\ outcome'[k] = outcome[k]
        BY <1>1, <1>7, <2>2, VerdictsByStep
      <3> QED
        BY <1>2, <3>1, VerdictStays
    <2> QED
      BY <1>2, <2>1, <2>2 DEF VerdictsTrue, VerdictOf
  <1>11. ASSUME NEW k \in Steps(scn), Excused(k) PROVE Excused(k)'
    <2>1. CASE scn[k].off
      BY <1>2, <2>1 DEF Excused
    <2>2. CASE scn[k].form = "then"
      <3>1. Host(scn, k) \in Steps(scn)
        BY <1>1, <2>2, HostIs DEF SessionType, Sound, Requests
      <3>2. outcome[Host(scn, k)] = "warned" => outcome'[Host(scn, k)] = "warned"
        BY <1>7, <3>1
      <3> QED
        BY <1>2, <1>11, <3>2 DEF Excused
    <2> QED
      BY <1>11, <2>1, <2>2 DEF Excused
  <1>12. FailuresCount'
    <2>1. ASSUME NEW k \in Steps(scn)
          PROVE  /\ outcome'[k] # "failed"
                 /\ outcome'[k] = "skipped" => Excused(k)'
      <3>1. outcome[k] # "failed" /\ (outcome[k] = "skipped" => Excused(k))
        BY <1>1, <1>2, <1>4 DEF FailuresCount
      <3>2. scn[k].off => Excused(k)'
        BY <1>2 DEF Excused
      <3> QED
        BY <1>7, <1>11, <3>1, <3>2
    <2> QED
      BY <1>2, <2>1 DEF FailuresCount
  <1>13. CookiesKept'
    BY <1>1, <1>2, <1>4 DEF CookiesKept
  <1>14. CapturesKept'
    BY <1>1, <1>2, <1>4 DEF CapturesKept
  <1> QED
    BY <1>2, <1>5, <1>8, <1>9, <1>10, <1>12, <1>13, <1>14 DEF SessionInv

LEMMA EndBatchKeeps ==
    ASSUME SessionInv, EndBatch
    PROVE  SessionInv'
  <1>1. /\ SessionType /\ InOrder /\ SentInCalls /\ VerdictsTrue /\ FailuresCount
        /\ CookiesKept /\ CapturesKept
    BY DEF SessionInv
  <1>2. /\ pc = "run" /\ pc' = "batch" /\ batch' = batch + 1 /\ Waiting(batch) = {}
        /\ failed' = (error # "none" /\ ~AllOptional(batch))
        /\ UNCHANGED <<scn, at, tries, results, vars, world, jar, outcome, error, broken,
                       cancelled, told, saw>>
    BY DEF EndBatch
  <1>3. /\ \A e : ErrsOf(e)' = ErrsOf(e)
        /\ \A k : Attempts(k)' = Attempts(k)
    BY <1>2, SameScenario
  <1>4. /\ Inside /\ ~Inside'
        /\ \A k : ~Calling(k) /\ ~Calling(k)'
        /\ \A k : Tried(k)' <=> Tried(k)
        /\ \A k : Answered(k)' <=> Answered(k)
        /\ \A k : Excused(k)' <=> Excused(k)
    BY <1>2 DEF Inside, Calling, Tried, Answered, Excused
  <1>5. batch \in Nat /\ \A k \in Steps(scn) : BatchOf(scn, k) \in Nat
    BY <1>1, BatchFacts DEF SessionType, Sound
  <1>6. SessionType'
    <2>1. failed' \in BOOLEAN
      BY <1>2, Zenon
    <2>2. batch' \in Nat \ {0}
      BY <1>2, <1>5
    <2> QED
      BY <1>1, <1>2, <1>3, <2>1, <2>2 DEF SessionType
  <1>7. InOrder'
    <2>1. ASSUME NEW k \in Steps(scn)
          PROVE  /\ BatchOf(scn, k) < batch + 1 => outcome[k] # "none"
                 /\ BatchOf(scn, k) >= batch + 1 => outcome[k] = "none"
      <3>1. BatchOf(scn, k) = batch => outcome[k] # "none"
        BY <1>1, <1>2, <1>4 DEF InOrder, Waiting, Plan, Batch
      <3>2. /\ BatchOf(scn, k) < batch => outcome[k] # "none"
            /\ BatchOf(scn, k) > batch => outcome[k] = "none"
        BY <1>1, <1>2 DEF InOrder
      <3>3. BatchOf(scn, k) \in Nat /\ batch \in Nat
        BY <1>5
      <3> QED
        BY <3>1, <3>2, <3>3
    <2>2. ASSUME NEW k \in Steps(scn)
          PROVE  /\ BatchOf(scn, k) > batch + 1 => BatchOf(scn, k) >= batch + 1
                 /\ BatchOf(scn, k) = batch + 1 => BatchOf(scn, k) >= batch + 1
      BY <1>5
    <2> QED
      BY <1>2, <1>4, <2>1, <2>2 DEF InOrder
  <1>8. SentInCalls'
    BY <1>1, <1>2, <1>3, <1>4 DEF SentInCalls
  <1>9. VerdictsTrue'
    BY <1>1, <1>2, VerdictsStay
  <1>10. \A k \in Batch(scn, batch) : Optional(scn, k) \/ ~AllOptional(batch)
    BY DEF AllOptional
  <1>11. FailuresCount'
    <2>1. ASSUME NEW k \in Steps(scn)
          PROVE  /\ outcome[k] = "failed" => ~Optional(scn, k) /\ failed'
                 /\ outcome[k] = "skipped" => Excused(k) \/ failed' \/ cancelled
      BY <1>1, <1>2, <1>4, <1>10 DEF FailuresCount
    <2> QED
      BY <1>2, <1>4, <2>1 DEF FailuresCount
  <1>12. CookiesKept'
    <2>1. ASSUME NEW k \in Steps(scn), Tried(k)
          PROVE  k \in jar \/ Optional(scn, k) \/ failed'
      BY <1>1, <1>2, <1>4, <1>10, <2>1 DEF CookiesKept, FailuresCount
    <2> QED
      BY <1>2, <1>4, <2>1 DEF CookiesKept
  <1>13. CapturesKept'
    BY <1>1, <1>2, <1>4 DEF CapturesKept
  <1> QED
    BY <1>2, <1>6, <1>7, <1>8, <1>9, <1>11, <1>12, <1>13 DEF SessionInv

\* A run settles as a whole: what is before it is settled, what is after it waits.
LEMMA RunSettles ==
    ASSUME SessionType, InOrder, Inside, pc' = "run", UNCHANGED <<scn, batch>>,
           \A k \in Steps(scn) : k \notin Run => outcome'[k] = outcome[k],
           \A k \in Run : outcome'[k] # "none"
    PROVE  InOrder'
  <1>1. /\ \A b : Plan(b)' = Plan(b)
        /\ \A b, k : RunOf(b, k)' = RunOf(b, k)
    BY SameScenario
  <1>2. Inside' /\ Sound(scn)
    BY DEF Inside, SessionType, Sound
  <1>3. ASSUME NEW k \in Steps(scn)
        PROVE  /\ BatchOf(scn, k) < batch => outcome'[k] # "none"
               /\ BatchOf(scn, k) > batch => outcome'[k] = "none"
    <2>1. k \in Run => BatchOf(scn, k) = batch /\ batch \in Nat
      BY <1>2, RunMembers DEF SessionType
    <2>2. /\ BatchOf(scn, k) < batch => outcome[k] # "none"
          /\ BatchOf(scn, k) > batch => outcome[k] = "none"
      BY DEF InOrder, Inside
    <2> QED
      BY <2>1, <2>2
  <1>4. ASSUME NEW k \in Batch(scn, batch), scn[k].off PROVE outcome'[k] = "skipped"
    <2>1. k \notin Run /\ k \in Steps(scn)
      BY <1>2, <1>4, RunMembers DEF Batch
    <2> QED
      BY <1>4, <2>1 DEF InOrder
  <1>5. ASSUME NEW j \in Plan(batch), NEW k \in Plan(batch),
               RunOf(batch, j) <= RunOf(batch, k), outcome'[k] # "none"
        PROVE  outcome'[j] # "none"
    <2>1. j \in Steps(scn) /\ k \in Steps(scn)
      BY DEF Plan, Batch
    <2>2. CASE outcome[j] # "none"
      BY <2>1, <2>2
    <2>3. CASE outcome[j] = "none"
      <3>1. j \in Waiting(batch)
        BY <2>3 DEF Waiting
      <3>2. outcome[k] = "none"
        BY <1>5, <2>3 DEF InOrder
      <3>3. k \in Run
        BY <1>5, <2>1, <3>2
      <3>4. j \in Run
        BY <1>2, <1>5, <3>1, <3>3, RunIs
      <3> QED
        BY <3>4
    <2> QED
      BY <2>2, <2>3
  <1>6. pc' # "ended" /\ pc' # "batch"
    OBVIOUS
  <1> QED
    BY <1>1, <1>3, <1>4, <1>5, <1>6 DEF InOrder

\* The asserts of a request wait with it, and it with them, unless it is off.
LEMMA AssertsWait ==
    ASSUME SessionType, InOrder, Inside, NEW t \in Steps(scn), scn[t].form = "then"
    PROVE  /\ t \in Run /\ ~scn[Host(scn, t)].off => Host(scn, t) \in Run
           /\ Host(scn, t) \in Run => t \in Run
  <1> DEFINE h == Host(scn, t)
  <1>1. Sound(scn)
    BY DEF SessionType, Sound
  <1>2. h \in Steps(scn) /\ BatchOf(scn, t) = BatchOf(scn, h) /\ ~scn[t].off
    BY <1>1, HostIs, HostBatch, StepFacts DEF Requests, Sound
  <1>3. ASSUME t \in Run, ~scn[h].off PROVE h \in Run
    <2>1. t \in Plan(batch) /\ outcome[t] = "none"
      BY <1>1, <1>3, RunMembers
    <2>2. h \in Plan(batch) /\ RunOf(batch, t) = RunOf(batch, h) /\ RunOf(batch, h) \in Nat
      BY <1>1, <1>2, <1>3, <2>1, HostRun, RunFacts
    <2>3. RunOf(batch, t) <= RunOf(batch, h) /\ RunOf(batch, h) <= RunOf(batch, t)
      BY <2>2
    <2>4. outcome[h] = "none"
      BY <2>1, <2>2, <2>3 DEF InOrder
    <2>5. h \in Waiting(batch)
      BY <2>2, <2>4 DEF Waiting
    <2> QED
      BY <1>1, <1>3, <2>3, <2>5, RunIs
  <1>4. ASSUME h \in Run PROVE t \in Run
    <2>1. h \in Plan(batch) /\ outcome[h] = "none" /\ ~scn[h].off /\ BatchOf(scn, h) = batch
      BY <1>1, <1>4, RunMembers
    <2>2. t \in Plan(batch)
      BY <1>2, <2>1 DEF Plan, Batch
    <2>3. RunOf(batch, t) = RunOf(batch, h) /\ RunOf(batch, h) \in Nat
      BY <1>1, <1>2, <2>1, <2>2, HostRun, RunFacts
    <2>4. RunOf(batch, t) <= RunOf(batch, h) /\ RunOf(batch, h) <= RunOf(batch, t)
      BY <2>3
    <2>5. outcome[t] = "none"
      BY <2>1, <2>2, <2>4 DEF InOrder
    <2>6. t \in Waiting(batch)
      BY <2>2, <2>5 DEF Waiting
    <2> QED
      BY <1>1, <1>4, <2>4, <2>6, RunIs
  <1> QED
    BY <1>3, <1>4

\* What excuses a skipped step goes on to do so when a run settles.
LEMMA ExcuseStays ==
    ASSUME SessionType, scn' = scn, NEW k \in Steps(scn), Excused(k),
           \A j \in Steps(scn) : outcome[j] # "none" => outcome'[j] = outcome[j]
    PROVE  Excused(k)'
  <1>1. CASE scn[k].off
    BY <1>1 DEF Excused
  <1>2. CASE scn[k].form = "then"
    <2>1. Host(scn, k) \in Steps(scn)
      BY <1>2, HostIs DEF SessionType, Sound, Requests
    <2>2. outcome[Host(scn, k)] = "warned" => outcome'[Host(scn, k)] = "warned"
      BY <2>1
    <2> QED
      BY <2>2 DEF Excused
  <1> QED
    BY <1>1, <1>2 DEF Excused

LEMMA SkipKeeps ==
    ASSUME SessionInv, SkipRun
    PROVE  SessionInv'
  <1>1. /\ SessionType /\ InOrder /\ SentInCalls /\ VerdictsTrue /\ FailuresCount
        /\ CookiesKept /\ CapturesKept
    BY DEF SessionInv
  <1>2. /\ pc = "run" /\ pc' = "run" /\ Waiting(batch) # {}
        /\ broken \/ cancelled \/ \A k \in Run : ~HasEntries(k)
        /\ UNCHANGED <<scn, batch, at, tries, results, vars, world, jar, error, broken,
                       cancelled, failed, told, saw>>
        /\ outcome' = [k \in Steps(scn) |-> IF k \in Run THEN "skipped" ELSE outcome[k]]
    BY DEF SkipRun
  <1>3. /\ \A e : ErrsOf(e)' = ErrsOf(e)
        /\ \A k : Attempts(k)' = Attempts(k)
        /\ \A b : AllOptional(b)' <=> AllOptional(b)
    BY <1>2, SameScenario
  <1>4. /\ Inside /\ Inside' /\ Sound(scn)
        /\ \A k : ~Calling(k) /\ ~Calling(k)'
        /\ \A k : Tried(k)' <=> Tried(k)
        /\ \A k : Answered(k)' <=> Answered(k)
    BY <1>1, <1>2 DEF Inside, Calling, Tried, Answered, SessionType, Sound
  <1>5. SessionType'
    BY <1>1, <1>2, <1>3 DEF SessionType
  <1>6. Run \subseteq Steps(scn) /\ \A k \in Run : outcome[k] = "none" /\ k \in Batch(scn, batch)
    BY <1>4, RunMembers
  <1>7. \A k \in Steps(scn) : /\ k \in Run => outcome'[k] = "skipped"
                              /\ k \notin Run => outcome'[k] = outcome[k]
                              /\ outcome[k] # "none" => outcome'[k] = outcome[k]
    BY <1>2, <1>6
  <1>8. InOrder'
    BY <1>1, <1>2, <1>4, <1>6, <1>7, RunSettles
  <1>9. SentInCalls'
    BY <1>1, <1>2, <1>3, <1>4, <1>7 DEF SentInCalls
  <1>10. VerdictsTrue'
    <2>1. ASSUME NEW k \in Steps(scn), k \in Run PROVE VerdictOf(k)'
      <3>1. ~Tried(k)
        BY <1>1, <1>4, <1>6, <2>1 DEF SentInCalls
      <3>2. \A e \in EntriesOf(scn, k) : told[e].n = 0
        BY <1>1, <3>1, Untold
      <3>3. \A e \in EntriesOf(scn, k)' : told'[e].n = 0
        BY <1>2, <3>2
      <3> QED
        BY <1>7, <2>1, <3>3 DEF VerdictOf
    <2>2. ASSUME NEW k \in Steps(scn), k \notin Run PROVE VerdictOf(k)'
      <3>1. VerdictOf(k) /\ outcome'[k] = outcome[k]
        BY <1>1, <1>7, <2>2, VerdictsByStep
      <3> QED
        BY <1>2, <3>1, VerdictStays
    <2> QED
      BY <1>2, <2>1, <2>2 DEF VerdictsTrue, VerdictOf
  <1>11. FailuresCount'
    <2>1. ~(broken /\ AllOptional(batch))
      BY <1>1, <1>2, <1>4 DEF FailuresCount
    <2>2. ASSUME NEW k \in Run
          PROVE  Excused(k)' \/ cancelled \/ (k \in Batch(scn, batch) /\ error # "none" /\ ~AllOptional(batch))
      <3>1. CASE broken \/ cancelled
        BY <1>1, <1>4, <1>6, <2>1, <3>1 DEF FailuresCount
      <3>2. CASE \A j \in Run : ~HasEntries(j)
        <4>1. scn[k].form = "then"
          BY <1>4, <1>6, <3>2, StepFacts DEF HasEntries, Sound
        <4>2. Host(scn, k) \in Run \/ scn[Host(scn, k)].off
          BY <1>1, <1>4, <1>6, <4>1, AssertsWait
        <4>3. HasEntries(Host(scn, k))
          <5>1. Host(scn, k) \in Steps(scn) /\ scn[Host(scn, k)].form # "then"
            BY <1>4, <1>6, <4>1, HostIs DEF Requests
          <5> QED
            BY <1>4, <5>1, StepFacts DEF HasEntries, Sound
        <4>4. scn[Host(scn, k)].off
          BY <3>2, <4>2, <4>3
        <4> QED
          BY <1>2, <4>1, <4>4 DEF Excused
      <3> QED
        BY <1>2, <3>1, <3>2
    <2>3. ASSUME NEW k \in Steps(scn)
          PROVE  /\ outcome'[k] = "failed" =>
                      /\ ~Optional(scn, k)
                      /\ failed \/ (k \in Batch(scn, batch) /\ error # "none")
                 /\ outcome'[k] = "skipped" =>
                      \/ Excused(k)' \/ failed \/ cancelled
                      \/ k \in Batch(scn, batch) /\ error # "none" /\ ~AllOptional(batch)
      <3>1. CASE k \in Run
        BY <1>7, <2>2, <3>1
      <3>2. CASE k \notin Run
        <4>1. Excused(k) => Excused(k)'
          BY <1>1, <1>2, <1>7, ExcuseStays
        <4> QED
          BY <1>1, <1>4, <1>7, <3>2, <4>1 DEF FailuresCount
      <3> QED
        BY <3>1, <3>2
    <2>4. ~failed /\ (broken => error # "none")
      BY <1>1, <1>4 DEF FailuresCount
    <2> QED
      BY <1>2, <1>3, <1>4, <2>1, <2>3, <2>4 DEF FailuresCount
  <1>12. CookiesKept'
    BY <1>1, <1>2, <1>4 DEF CookiesKept
  <1>13. CapturesKept'
    BY <1>1, <1>2, <1>4 DEF CapturesKept
  <1> QED
    BY <1>2, <1>5, <1>8, <1>9, <1>10, <1>11, <1>12, <1>13 DEF SessionInv

LEMMA AttemptsPositive ==
    ASSUME NEW s \in Scenarios, NEW k \in Steps(s), s[k].form # "then", s = scn
    PROVE  Attempts(k) \in Nat /\ Attempts(k) > 0
  <1>1. /\ scn[k].retry \in Nat /\ scn[k].repeat \in Nat /\ scn[k].repeat > 0
    BY StepFacts
  <1>2. \A m, n \in Nat : n > 0 => (m + 1) * n \in Nat /\ (m + 1) * n > 0
    OBVIOUS
  <1> QED
    BY <1>1, <1>2 DEF Attempts

LEMMA StartKeeps ==
    ASSUME SessionInv, StartCall
    PROVE  SessionInv'
  <1>1. /\ SessionType /\ InOrder /\ SentInCalls /\ VerdictsTrue /\ FailuresCount
        /\ CookiesKept /\ CapturesKept
    BY DEF SessionInv
  <1>2. /\ pc = "run" /\ pc' = "call" /\ Waiting(batch) # {} /\ ~broken /\ ~cancelled
        /\ \E k \in Run : HasEntries(k)
        /\ at' = FirstOf(Slice(Run)) /\ tries' = 0 /\ results' = <<>> /\ vars' = Seed
        /\ UNCHANGED <<scn, batch, world, jar, outcome, error, broken, cancelled, failed, told, saw>>
    BY DEF StartCall
  <1>3. /\ \A e : ErrsOf(e)' = ErrsOf(e)
        /\ \A k : Attempts(k)' = Attempts(k)
        /\ \A k : HasEntries(k)' <=> HasEntries(k)
        /\ \A b : AllOptional(b)' <=> AllOptional(b)
    BY <1>2, SameScenario
  <1>4. /\ Waiting(batch)' = Waiting(batch) /\ Run' = Run /\ Slice(Run)' = Slice(Run)
        /\ \A k : Excused(k)' <=> Excused(k)
    BY <1>2, SameRun
  <1>5. /\ Inside /\ Inside' /\ Sound(scn)
        /\ \A k : ~Calling(k) /\ (Calling(k)' <=> k \in Run)
        /\ \A k : Tried(k)' <=> Tried(k)
        /\ \A k : Answered(k)' <=> Answered(k)
    BY <1>1, <1>2, <1>4 DEF Inside, Calling, Tried, Answered, SessionType, Sound
  <1>6. /\ Slice(Run) \subseteq AllEntries(scn) /\ Slice(Run) # {}
        /\ \A e \in AllEntries(scn) : e \in Slice(Run) <=> e[1] \in Run
    BY <1>1, <1>2, <1>5, SliceIs
  <1>7. AllEntries(scn) \subseteq Nat \X Nat
    BY <1>5, EntryFacts DEF Sound
  <1>8. at' \in Slice(Run) /\ \A e \in Slice(Run) : e = at' \/ Before(at', e)
    BY <1>2, <1>6, <1>7, FirstIs
  <1>9. at' \in AllEntries(scn) /\ at' # <<0, 0>> /\ at'[1] \in Steps(scn) /\ scn[at'[1]].form # "then"
    BY <1>5, <1>6, <1>8, EntryFacts DEF Sound
  <1>10. SessionType'
    BY <1>1, <1>2, <1>3, <1>9 DEF SessionType
  <1>11. InOrder'
    BY <1>1, <1>2, OrderStays
  <1>12. SentInCalls'
    BY <1>1, <1>2, <1>3, <1>5 DEF SentInCalls
  <1>13. \A e \in Slice(Run) : told[e].n = 0
    <2>1. SUFFICES ASSUME NEW e \in Slice(Run) PROVE told[e].n = 0
      OBVIOUS
    <2>2. e[1] \in Run /\ e \in AllEntries(scn)
      BY <1>6
    <2>3. outcome[e[1]] = "none" /\ e[1] \in Steps(scn) /\ e \in EntriesOf(scn, e[1])
      BY <1>5, <2>2, RunMembers, EntryFacts DEF Sound
    <2>4. ~Tried(e[1])
      BY <1>1, <1>5, <2>3 DEF SentInCalls
    <2> QED
      BY <1>1, <2>3, <2>4, Untold
  <1>14. CallGoesOn'
    <2> DEFINE a == FirstOf(Slice(Run))
    <2>1. /\ at' = a /\ a \in Slice(Run) /\ a # <<0, 0>> /\ scn[a[1]].form # "then"
          /\ a[1] \in Steps(scn) /\ \A e \in Slice(Run) : e = a \/ Before(a, e)
      BY <1>2, <1>8, <1>9
    <2> HIDE DEF a
    <2>2. Cursor' = a
      BY <2>1 DEF Cursor
    <2>3. \A e : ResultsOf(e)' = {}
      BY <1>2 DEF ResultsOf
    <2>4. Attempts(a[1]) \in Nat /\ Attempts(a[1]) > 0
      BY <1>5, <2>1, AttemptsPositive DEF Sound
    <2>5. \A e \in Slice(Run) : ~Before(e, a)
      BY <1>6, <1>7, <2>1, BeforeOrders
    <2>6. tries' = 0 /\ told[a].n = 0 /\ 0 < Attempts(a[1]) /\ told[a].n <= 0
      BY <1>2, <1>13, <2>1, <2>4
    <2>7. DOMAIN results' = {}
      BY <1>2
    <2>8. \A e \in Slice(Run)' : ~Before(e, Cursor)'
      BY <1>4, <2>2, <2>5
    <2>9. (at # <<0, 0>> => tries < Attempts(at[1]) /\ told[at].n <= tries)'
      BY <1>2, <1>3, <2>1, <2>6
    <2>10. (at # <<0, 0>> /\ (\E k \in Run : HasEntries(k)) /\ ~broken /\ Cursor \in Slice(Run))'
      BY <1>2, <1>3, <1>4, <2>1, <2>2
    <2>11. (\A e \in Slice(Run) : told[e].n = 0 /\ ResultsOf(e) = {})'
      BY <1>2, <1>4, <1>13, <2>3
    <2> QED
      BY <2>7, <2>8, <2>9, <2>10, <2>11 DEF CallGoesOn
  <1>15. VerdictsTrue'
    BY <1>1, <1>2, VerdictsStay
  <1>16. FailuresCount'
    BY <1>1, <1>2, <1>3, <1>4, <1>5 DEF FailuresCount
  <1>17. CookiesKept'
    BY <1>1, <1>2, <1>5 DEF CookiesKept
  <1>18. CapturesKept'
    <2>1. ASSUME NEW v, v \in Vars, world[v] # Nobody PROVE vars'[v] # Nobody
      BY <1>2, <2>1 DEF Seed, Nobody
    <2>2. \A j \in Steps(scn) : scn[j].caps \subseteq Vars
      BY <1>5, StepFacts DEF Sound
    <2> QED
      BY <1>1, <1>2, <1>5, <2>1, <2>2 DEF CapturesKept
  <1> QED
    BY <1>10, <1>11, <1>12, <1>14, <1>15, <1>16, <1>17, <1>18 DEF SessionInv

\* Whose entries a step answers for.
LEMMA OwnFacts ==
    ASSUME Sound(scn), NEW k \in Steps(scn)
    PROVE  /\ OwnEntries(k) \subseteq AllEntries(scn)
           /\ scn[k].form # "then" => OwnEntries(k) = EntriesOf(scn, k)
           /\ scn[k].form = "then" => /\ OwnEntries(k) = {HostEntry(k)}
                                      /\ HostEntry(k)[1] = Host(scn, k)
                                      /\ LastEntry(HostEntry(k))
                                      /\ EntriesOf(scn, k) = {}
           /\ \A e \in OwnEntries(k) : e[1] = IF scn[k].form = "then" THEN Host(scn, k) ELSE k
  <1>1. CASE scn[k].form # "then"
    BY <1>1, EntryFacts DEF OwnEntries, Sound
  <1>2. CASE scn[k].form = "then"
    <2>1. Host(scn, k) \in Steps(scn) /\ scn[Host(scn, k)].form # "then"
      BY <1>2, HostIs DEF Requests
    <2>2. HostEntry(k) \in AllEntries(scn)
      BY <2>1, EntryFacts DEF HostEntry, Sound
    <2>3. HostEntry(k)[1] = Host(scn, k) /\ LastEntry(HostEntry(k))
      BY DEF HostEntry, LastEntry
    <2>4. OwnEntries(k) = {HostEntry(k)}
      BY <1>2 DEF OwnEntries
    <2>5. EntriesOf(scn, k) = {}
      BY <1>2, EntryFacts DEF Sound
    <2> QED
      BY <1>2, <2>2, <2>3, <2>4, <2>5
  <1> QED
    BY <1>1, <1>2

LEMMA RoundsGrow ==
    ASSUME NEW m \in Nat, m > 0, NEW n \in Nat
    PROVE  (n \div m + 1) * m \in Nat /\ n < (n \div m + 1) * m
  <1>1. n \div m \in Nat /\ n = m * (n \div m) + (n % m) /\ (n % m) < m /\ (n % m) \in Nat
    OBVIOUS
  <1>2. \A q \in Nat : (q + 1) * m = q * m + m /\ q * m \in Nat
    OBVIOUS
  <1> QED
    BY <1>1, <1>2

\* hurl adds a result for the entry it is at, which is then the last of that one.
LEMMA ResultsGrow ==
    ASSUME NEW X, results \in Seq(X), NEW r, results' = Append(results, r), NEW c, r.entry = c
    PROVE  /\ \A e : ResultsOf(e)' = IF e = c THEN ResultsOf(e) \cup {Len(results) + 1}
                                     ELSE ResultsOf(e)
           /\ Final(c)' = r /\ results'[Len(results')] = r /\ results' # <<>>
           /\ Len(results) + 1 \in DOMAIN results' /\ results'[Len(results) + 1] = r
           /\ \A e : e # c /\ ResultsOf(e) # {} => Final(e)' = Final(e)
           /\ DOMAIN results \subseteq DOMAIN results'
           /\ \A i \in DOMAIN results : results'[i] = results[i]
           /\ \A i \in DOMAIN results' : i \in DOMAIN results \/ results'[i] = r
  <1>1. /\ Len(results) \in Nat /\ DOMAIN results = 1..Len(results)
        /\ DOMAIN results' = 1..(Len(results) + 1) /\ Len(results') = Len(results) + 1
        /\ \A i \in DOMAIN results : results'[i] = results[i]
        /\ results'[Len(results) + 1] = r /\ results' # <<>>
    OBVIOUS
  <1>2. \A i \in DOMAIN results' : i \in DOMAIN results \/ i = Len(results) + 1
    BY <1>1
  <1>3. ASSUME NEW e
        PROVE  ResultsOf(e)' = IF e = c THEN ResultsOf(e) \cup {Len(results) + 1} ELSE ResultsOf(e)
    <2>1. \A i \in DOMAIN results : i \in DOMAIN results'
      BY <1>1
    <2>2. Len(results) + 1 \in DOMAIN results'
      BY <1>1
    <2> QED
      BY <1>1, <1>2, <2>1, <2>2 DEF ResultsOf
  <1>4. Final(c)' = r
    <2> DEFINE S == ResultsOf(c)'
    <2>1. \A i \in S : i \in Nat /\ i <= Len(results) + 1
      BY <1>1 DEF ResultsOf
    <2>2. Len(results) + 1 \in S
      BY <1>3
    <2> HIDE DEF S
    <2>3. Max(S) = Len(results) + 1
      BY <2>1, <2>2, MaxIs
    <2> QED
      BY <1>1, <2>3 DEF Final, S
  <1>5. ASSUME NEW e, e # c, ResultsOf(e) # {} PROVE Final(e)' = Final(e)
    <2> DEFINE S == ResultsOf(e)
    <2>1. \A i \in S : i \in Nat /\ i <= Len(results)
      BY <1>1 DEF ResultsOf
    <2>2. S # {} /\ S \subseteq DOMAIN results
      BY <1>5 DEF ResultsOf
    <2> HIDE DEF S
    <2>3. Max(S) \in S
      BY <1>1, <2>1, <2>2, MaxIsIn
    <2>4. S = ResultsOf(e) /\ S = ResultsOf(e)'
      BY <1>3, <1>5 DEF S
    <2>5. results'[Max(S)] = results[Max(S)]
      BY <1>1, <2>2, <2>3
    <2> QED
      BY <2>4, <2>5 DEF Final
  <1> QED
    BY <1>1, <1>2, <1>3, <1>4, <1>5

\* What an attempt does, c being the entry that hurl is at and a its answer: the
\* entry is tried again, or the next one is, or the call ends.
AttemptBy(c, a) ==
    /\ told' = [e \in AllEntries(scn) |-> told'[e]]
    /\ told'[c] = [entry |-> c, errs |-> a.errs, class |-> a.class,
                   answered |-> a.answered, n |-> told[c].n + 1]
    /\ \A e \in AllEntries(scn) : e # c => told'[e] = told[e]
    /\ saw' = [k \in Steps(scn) |-> IF k = c[1] THEN Options(k) ELSE saw[k]]
    /\ results' = Append(results, [entry |-> c, errs |-> a.errs, class |-> a.class,
                                   answered |-> a.answered])
    /\ vars' = Overlay(Options(c[1]),
                       IF a.answered /\ LastEntry(c) THEN Captured(c[1]) ELSE Unset)
    /\ \/ /\ at' = c /\ tries' \in Nat
          /\ tries' < Attempts(c[1]) /\ tries + 1 <= tries'
       \/ a.errs = {} /\ Rest(c) # {} /\ at' = FirstOf(Rest(c)) /\ tries' = 0
       \/ (a.errs = {} => Rest(c) = {}) /\ at' = <<0, 0>> /\ tries' = 0

LEMMA AttemptIs ==
    ASSUME SessionType, Attempt, NEW c, c = at
    PROVE  /\ pc = "call" /\ c # <<0, 0>> /\ c \in AllEntries(scn)
           /\ UNCHANGED <<scn, batch, pc, world, jar, outcome, error, broken, cancelled, failed>>
           /\ \E a \in AnswersOf(c) : AttemptBy(c, a)
  <1>1. /\ pc = "call" /\ c # <<0, 0>> /\ c \in AllEntries(scn) /\ scn \in Scenarios /\ tries \in Nat
        /\ told = [e \in AllEntries(scn) |-> told[e]] /\ saw = [k \in Steps(scn) |-> saw[k]]
    BY DEF Attempt, SessionType
  <1>2. UNCHANGED <<scn, batch, pc, world, jar, outcome, error, broken, cancelled, failed>>
    BY DEF Attempt
  <1> DEFINE Used(a) == IF a.errs = {} THEN NextRound(c[1], tries) ELSE tries + 1
             Again(a) == /\ Used(a) < Attempts(c[1])
                         /\ a.errs = {} \/ RoundOf(c[1], Used(a)) = RoundOf(c[1], tries)
             On(a) == a.errs = {} /\ ~Again(a) /\ Rest(c) # {}
  <1>3. PICK a \in AnswersOf(c) :
            /\ told' = [told EXCEPT ![c] = [entry |-> c, errs |-> a.errs, class |-> a.class,
                                            answered |-> a.answered, n |-> @.n + 1]]
            /\ saw' = [saw EXCEPT ![c[1]] = Options(c[1])]
            /\ results' = Append(results, [entry |-> c, errs |-> a.errs, class |-> a.class,
                                           answered |-> a.answered])
            /\ vars' = Overlay(Options(c[1]),
                               IF a.answered /\ LastEntry(c) THEN Captured(c[1]) ELSE Unset)
            /\ at' = IF Again(a) THEN c ELSE IF On(a) THEN FirstOf(Rest(c)) ELSE <<0, 0>>
            /\ tries' = IF Again(a) THEN Used(a) ELSE 0
    BY DEF Attempt
  <1>4. Used(a) \in Nat /\ tries + 1 <= Used(a)
    <2>1. /\ c[1] \in Steps(scn) /\ scn[c[1]].retry \in Nat
      BY <1>1, EntryFacts, StepFacts
    <2>2. NextRound(c[1], tries) \in Nat /\ tries < NextRound(c[1], tries)
      <3> DEFINE m == scn[c[1]].retry + 1
      <3>1. m \in Nat /\ m > 0 /\ tries \in Nat
        BY <1>1, <2>1
      <3>2. NextRound(c[1], tries) = (tries \div m + 1) * m
        BY DEF NextRound, RoundOf
      <3> HIDE DEF m
      <3> QED
        BY <3>1, <3>2, RoundsGrow
    <2>3. tries \in Nat
      BY <1>1
    <2> QED
      BY <2>2, <2>3
  <1>5. \/ /\ at' = c /\ tries' \in Nat
           /\ tries' < Attempts(c[1]) /\ tries + 1 <= tries'
        \/ a.errs = {} /\ Rest(c) # {} /\ at' = FirstOf(Rest(c)) /\ tries' = 0
        \/ (a.errs = {} => Rest(c) = {}) /\ at' = <<0, 0>> /\ tries' = 0
    <2> HIDE DEF Used
    <2>1. CASE Again(a)
      BY <1>3, <1>4, <2>1
    <2>2. CASE ~Again(a) /\ On(a)
      BY <1>3, <2>2
    <2>3. CASE ~Again(a) /\ ~On(a)
      BY <1>3, <2>3
    <2> QED
      BY <2>1, <2>2, <2>3
  <1>6. /\ told' = [e \in AllEntries(scn) |-> told'[e]]
        /\ told'[c] = [entry |-> c, errs |-> a.errs, class |-> a.class,
                       answered |-> a.answered, n |-> told[c].n + 1]
        /\ \A e \in AllEntries(scn) : e # c => told'[e] = told[e]
    BY <1>1, <1>3
  <1>7. saw' = [k \in Steps(scn) |-> IF k = c[1] THEN Options(k) ELSE saw[k]]
    BY <1>1, <1>3
  <1>8. AttemptBy(c, a)
    BY <1>3, <1>5, <1>6, <1>7 DEF AttemptBy
  <1> QED
    BY <1>1, <1>2, <1>8

LEMMA AnswerFacts ==
    ASSUME Sound(scn), NEW c \in AllEntries(scn), NEW a \in AnswersOf(c)
    PROVE  /\ a.errs \in ErrsOf(c) /\ a.errs \subseteq Steps(scn) /\ a.answered \in BOOLEAN
           /\ a.class \in {"user", "assert", "infra"}
  <1>1. c[1] \in Steps(scn) /\ Mergeable(c) \subseteq Steps(scn)
    BY EntryFacts DEF Sound, Mergeable, ThensOf
  <1>2. /\ a.errs \in ErrsOf(c) /\ a.answered \in BOOLEAN
        /\ a.class \in {"user", "assert", "infra"}
    <2>1. CASE Undefined(c[1]) # {}
      <3>1. a = [errs |-> {c[1]}, class |-> "user", answered |-> FALSE]
        BY <2>1 DEF AnswersOf
      <3> QED
        BY <3>1 DEF ErrsOf
    <2>2. CASE a \in {[errs |-> {c[1]}, class |-> x, answered |-> FALSE] : x \in {"infra", "assert"}}
      <3>1. PICK x \in {"infra", "assert"} :
                a = [errs |-> {c[1]}, class |-> x, answered |-> FALSE]
        BY <2>2
      <3> QED
        BY <3>1 DEF ErrsOf
    <2>3. CASE a \in [errs : SUBSET ({c[1]} \cup Mergeable(c)), class : {"assert"}, answered : {TRUE}]
      BY <2>3 DEF ErrsOf
    <2>4. Undefined(c[1]) # {} \/ a \in {[errs |-> {c[1]}, class |-> x, answered |-> FALSE] : x \in {"infra", "assert"}}
            \/ a \in [errs : SUBSET ({c[1]} \cup Mergeable(c)), class : {"assert"}, answered : {TRUE}]
      BY Zenon DEF AnswersOf
    <2> QED
      BY <2>1, <2>2, <2>3, <2>4
  <1> QED
    BY <1>1, <1>2 DEF ErrsOf

LEMMA CallSlice ==
    ASSUME SessionInv, pc = "call"
    PROVE  /\ SessionType /\ InOrder /\ SentInCalls /\ CallGoesOn /\ Inside /\ Sound(scn)
           /\ Slice(Run) \subseteq AllEntries(scn) /\ AllEntries(scn) \subseteq Nat \X Nat
           /\ \A e \in AllEntries(scn) : e \in Slice(Run) <=> e[1] \in Run
           /\ Cursor \in Slice(Run) /\ Cursor[1] \in Run
  <1>1. /\ SessionType /\ InOrder /\ SentInCalls /\ CallGoesOn /\ Inside /\ Sound(scn)
    BY DEF SessionInv, SessionType, Inside, Sound
  <1>2. (\E k \in Run : HasEntries(k)) /\ Cursor \in Slice(Run)
    BY <1>1 DEF CallGoesOn
  <1>3. /\ Slice(Run) \subseteq AllEntries(scn)
        /\ \A e \in AllEntries(scn) : e \in Slice(Run) <=> e[1] \in Run
    BY <1>1, <1>2, SliceIs
  <1>4. AllEntries(scn) \subseteq Nat \X Nat
    BY <1>1, EntryFacts DEF Sound
  <1> QED
    BY <1>1, <1>2, <1>3, <1>4

\* No later step was sent yet when hurl is at an entry of an earlier one.
LEMMA LaterWaits ==
    ASSUME SessionInv, pc = "call", NEW c \in Slice(Run), c = Cursor,
           NEW k \in Steps(scn), c[1] < k
    PROVE  ~Tried(k)
  <1>1. SessionType /\ InOrder /\ SentInCalls /\ CallGoesOn
    BY DEF SessionInv
  <1>2. Sound(scn) /\ Inside
    BY <1>1 DEF SessionType, Sound, Inside
  <1>3. /\ Slice(Run) \subseteq AllEntries(scn)
        /\ \A e \in AllEntries(scn) : e \in Slice(Run) <=> e[1] \in Run
    BY <1>1, <1>2, SliceIs DEF CallGoesOn
  <1>4. c[1] \in Run /\ c \in AllEntries(scn)
    BY <1>3
  <1>5. /\ c[1] \in Steps(scn) /\ c[1] \in Plan(batch) /\ BatchOf(scn, c[1]) = batch
        /\ outcome[c[1]] = "none"
    BY <1>2, <1>4, RunMembers
  <1>6. ASSUME Tried(k) PROVE FALSE
    <2>1. PICK e \in EntriesOf(scn, k) : told[e].n > 0
      BY <1>6 DEF Tried
    <2>2. e \in AllEntries(scn) /\ e[1] = k
      BY <1>2, <2>1, EntryFacts DEF Sound
    <2>3. k \notin Run
      <3>1. SUFFICES ASSUME k \in Run PROVE FALSE
        OBVIOUS
      <3>2. e \in Slice(Run)
        BY <1>3, <2>2, <3>1
      <3>3. Before(c, e)
        BY <2>2 DEF Before
      <3>4. told[e].n = 0
        BY <1>1, <3>2, <3>3 DEF CallGoesOn
      <3> QED
        BY <2>1, <3>4
    <2>4. outcome[k] # "none" /\ ~scn[k].off
      BY <1>1, <1>6, <2>3 DEF SentInCalls, Calling
    <2>5. /\ c[1] <= k /\ k \in Nat /\ BatchOf(scn, c[1]) <= BatchOf(scn, k)
          /\ BatchOf(scn, k) \in Nat /\ batch \in Nat
      <3>1. k \in Nat /\ c[1] \in Nat /\ batch \in Nat
        BY <1>1, <1>2, <1>5, StepFacts DEF Sound, SessionType
      <3>2. c[1] <= k
        BY <3>1
      <3> QED
        BY <1>2, <1>5, <3>1, <3>2, BatchFacts
    <2>6. ~(BatchOf(scn, k) > batch)
      BY <1>1, <1>2, <2>4 DEF InOrder, Inside
    <2>7. BatchOf(scn, k) = batch
      BY <1>5, <2>5, <2>6
    <2>8. k \in Plan(batch)
      BY <2>4, <2>7 DEF Plan, Batch
    <2>9. RunOf(batch, c[1]) <= RunOf(batch, k)
      BY <1>2, <1>5, <2>5, RunFacts
    <2> QED
      BY <1>1, <1>2, <1>5, <2>4, <2>8, <2>9 DEF InOrder
  <1> QED
    BY <1>6

LEMMA AttemptCaptures ==
    ASSUME SessionInv, Attempt
    PROVE  CapturesKept'
  <1>1. PICK c : c = at
    OBVIOUS
  <1>2. SessionType /\ CallGoesOn /\ CapturesKept /\ pc = "call"
    BY DEF SessionInv, Attempt
  <1>3. Sound(scn) /\ Inside
    BY <1>2 DEF SessionType, Sound, Inside
  <1>4. /\ c # <<0, 0>> /\ c \in AllEntries(scn)
        /\ UNCHANGED <<scn, batch, pc, world, outcome>>
        /\ \E a \in AnswersOf(c) : AttemptBy(c, a)
    BY <1>1, <1>2, AttemptIs
  <1>a. PICK a \in AnswersOf(c) : AttemptBy(c, a)
    BY <1>4
  <1>5. /\ told'[c].answered = a.answered /\ told'[c].n = told[c].n + 1
        /\ \A e \in AllEntries(scn) : e # c => told'[e] = told[e]
        /\ saw' = [k \in Steps(scn) |-> IF k = c[1] THEN Options(k) ELSE saw[k]]
        /\ vars' = Overlay(Options(c[1]),
                           IF a.answered /\ LastEntry(c) THEN Captured(c[1]) ELSE Unset)
    BY <1>a DEF AttemptBy
  <1>6. c = Cursor /\ c \in Slice(Run)
    <2>1. c = Cursor
      BY <1>1, <1>4 DEF Cursor
    <2> QED
      BY <1>2, <2>1 DEF CallGoesOn
  <1>7. c[1] \in Run /\ c[1] \in Steps(scn) /\ c \in EntriesOf(scn, c[1]) /\ c = <<c[1], c[2]>>
    <2>1. c[1] \in Run
      BY <1>2, <1>6, CallSlice
    <2> QED
      BY <1>3, <1>4, <2>1, EntryFacts DEF Sound
  <1>8. Run' = Run
    BY <1>4, SameRun
  <1>9. ASSUME NEW j \in Steps(scn), j # c[1] PROVE Answered(j)' <=> Answered(j)
    <2>1. scn[j].entries > 0 => <<j, scn[j].entries>> \in AllEntries(scn)
      BY <1>3, EntryFacts, StepFacts DEF Sound
    <2>2. <<j, scn[j].entries>> # c
      BY <1>7, <1>9
    <2> QED
      BY <1>4, <1>5, <2>1, <2>2 DEF Answered
  <1>10. ASSUME NEW k \in Steps(scn), k # c[1] PROVE Tried(k)' <=> Tried(k)
    <2>1. \A e \in EntriesOf(scn, k) : e \in AllEntries(scn) /\ e # c
      BY <1>3, <1>10, EntryFacts DEF Sound
    <2> QED
      BY <1>4, <1>5, <2>1 DEF Tried
  \* What an option sets is set, and so is what was.
  <1>11. ASSUME NEW v \in Vars, vars[v] # Nobody PROVE Options(c[1])[v] # Nobody
    BY <1>11 DEF Options, Nobody
  <1>12. \A v \in Vars : Options(c[1])[v] # Nobody => vars'[v] # Nobody
    BY <1>5 DEF Overlay
  <1>13. ASSUME NEW j \in Steps(scn), NEW v \in scn[j].caps, Answered(j)'
         PROVE  (~Calling(j)' => world'[v] # Nobody) /\ vars'[v] # Nobody
    <2>1. v \in Vars
      BY <1>3, StepFacts DEF Sound
    <2>2. CASE Answered(j)
      <3>1. (~Calling(j) => world[v] # Nobody) /\ vars[v] # Nobody
        BY <1>2, <2>2 DEF CapturesKept
      <3>2. Calling(j)' <=> Calling(j)
        BY <1>4, <1>8 DEF Calling
      <3> QED
        BY <1>4, <1>11, <1>12, <2>1, <3>1, <3>2
    <2>3. CASE ~Answered(j)
      <3>1. j = c[1]
        BY <1>9, <1>13, <2>3
      <3>2. Calling(j)'
        BY <1>2, <1>4, <1>7, <1>8, <3>1 DEF Calling
      <3>3. <<j, scn[j].entries>> = c
        <4>1. SUFFICES ASSUME <<j, scn[j].entries>> # c PROVE FALSE
          OBVIOUS
        <4>2. scn[j].entries > 0 => <<j, scn[j].entries>> \in AllEntries(scn)
          BY <1>3, EntryFacts, StepFacts DEF Sound
        <4> QED
          BY <1>4, <1>5, <1>13, <2>3, <4>1, <4>2 DEF Answered
      <3>4. a.answered /\ LastEntry(c)
        <4>1. told'[c].answered
          BY <1>4, <1>13, <3>3 DEF Answered
        <4>2. c[2] = scn[c[1]].entries
          BY <3>1, <3>3
        <4> QED
          BY <1>5, <4>1, <4>2 DEF LastEntry
      <3>5. Captured(c[1])[v] = <<"capture", c[1]>>
        BY <2>1, <3>1 DEF Captured
      <3>6. vars'[v] = <<"capture", c[1]>>
        BY <1>5, <2>1, <3>4, <3>5 DEF Overlay, Nobody
      <3> QED
        BY <3>2, <3>6 DEF Nobody
    <2> QED
      BY <2>2, <2>3
  <1>14. ASSUME NEW k \in Steps(scn), NEW v \in Vars, Tried(k)', saw'[k][v] = Nobody,
                NEW j \in 1..(k - 1), v \in scn[j].caps
         PROVE  ~Answered(j)'
    <2>1. j \in Steps(scn) /\ j < k /\ j \in Nat /\ k \in Nat
      <3>1. /\ Steps(scn) = 1..Len(scn) /\ Len(scn) \in Nat /\ k \in Nat /\ k <= Len(scn)
        BY <1>3, StepFacts DEF Sound
      <3> QED
        BY <3>1
    <2>2. CASE k = c[1]
      <3>1. Options(k)[v] = Nobody
        BY <1>5, <1>14, <2>2
      <3>2. vars[v] = Nobody
        BY <1>11, <2>2, <3>1
      <3>3. ~Answered(j)
        BY <1>2, <1>14, <2>1, <3>2 DEF CapturesKept
      <3> QED
        BY <1>9, <2>1, <2>2, <3>3
    <2>3. CASE k # c[1] /\ j # c[1]
      <3>1. Tried(k) /\ saw[k][v] = Nobody
        BY <1>5, <1>10, <1>14, <2>3
      <3>2. ~Answered(j)
        BY <1>2, <1>14, <3>1 DEF CapturesKept
      <3> QED
        BY <1>9, <2>1, <2>3, <3>2
    <2>4. CASE k # c[1] /\ j = c[1]
      <3>1. Tried(k)
        BY <1>10, <1>14, <2>4
      <3>2. c[1] < k
        BY <2>1, <2>4
      <3> QED
        BY <1>2, <1>6, <3>1, <3>2, LaterWaits
    <2> QED
      BY <2>2, <2>3, <2>4
  <1> QED
    BY <1>4, <1>13, <1>14 DEF CapturesKept

LEMMA AttemptCall ==
    ASSUME SessionInv, Attempt
    PROVE  CallGoesOn'
  <1>1. PICK c : c = at
    OBVIOUS
  <1>2. PICK d : d = at'
    OBVIOUS
  <1>3. SessionType /\ CallGoesOn /\ pc = "call" /\ Sound(scn)
    BY DEF SessionInv, Attempt, SessionType, Sound
  <1>4. /\ c # <<0, 0>> /\ c \in AllEntries(scn)
        /\ UNCHANGED <<scn, batch, pc, outcome, broken>>
        /\ \E a \in AnswersOf(c) : AttemptBy(c, a)
    BY <1>1, <1>3, AttemptIs
  <1>5. PICK a \in AnswersOf(c) : AttemptBy(c, a)
    BY <1>4
  <1> DEFINE r == [entry |-> c, errs |-> a.errs, class |-> a.class, answered |-> a.answered]
  <1>6. /\ told'[c].errs = a.errs /\ told'[c].answered = a.answered /\ told'[c].n = told[c].n + 1
        /\ \A e \in AllEntries(scn) : e # c => told'[e] = told[e]
        /\ results' = Append(results, r)
        /\ \/ /\ d = c /\ tries' \in Nat
              /\ tries' < Attempts(c[1]) /\ tries + 1 <= tries'
           \/ a.errs = {} /\ Rest(c) # {} /\ d = FirstOf(Rest(c)) /\ tries' = 0
           \/ (a.errs = {} => Rest(c) = {}) /\ d = <<0, 0>> /\ tries' = 0
    BY <1>2, <1>5 DEF AttemptBy
  <1>7. r.entry = c /\ r.errs = a.errs /\ r.answered = a.answered
    OBVIOUS
  <1> HIDE DEF r
  <1>8. /\ Slice(Run) \subseteq AllEntries(scn) /\ AllEntries(scn) \subseteq Nat \X Nat
        /\ \A e \in AllEntries(scn) : e \in Slice(Run) <=> e[1] \in Run
        /\ c = Cursor /\ c \in Slice(Run) /\ c[1] \in Run
    <2>1. c = Cursor
      BY <1>1, <1>4 DEF Cursor
    <2> QED
      BY <1>3, <2>1, CallSlice
  <1>9. /\ Run' = Run /\ Slice(Run)' = Slice(Run) /\ Rest(c)' = Rest(c)
        /\ \A k : (HasEntries(k)' <=> HasEntries(k)) /\ Attempts(k)' = Attempts(k)
    BY <1>4, SameRun, SameScenario
  <1>10. /\ \A e : ResultsOf(e)' = IF e = c THEN ResultsOf(e) \cup {Len(results) + 1}
                                   ELSE ResultsOf(e)
         /\ Final(c)' = r /\ results'[Len(results')] = r /\ results' # <<>>
         /\ Len(results) + 1 \in DOMAIN results' /\ results'[Len(results) + 1] = r
         /\ \A e : e # c /\ ResultsOf(e) # {} => Final(e)' = Final(e)
         /\ DOMAIN results \subseteq DOMAIN results'
         /\ \A i \in DOMAIN results : results'[i] = results[i]
         /\ \A i \in DOMAIN results' : i \in DOMAIN results \/ results'[i] = r
    <2> DEFINE X == [entry : AllEntries(scn), errs : SUBSET Steps(scn),
                     class : {"user", "assert", "infra"}, answered : BOOLEAN]
    <2>1. results \in Seq(X)
      BY <1>3 DEF SessionType
    <2> HIDE DEF X
    <2> QED
      BY <1>6, <1>7, <2>1, ResultsGrow
  <1>n. ResultsOf(c)' # {}
    <2>1. ResultsOf(c)' = ResultsOf(c) \cup {Len(results) + 1}
      BY <1>10
    <2> QED
      BY <2>1
  <1>11. /\ told[c].n \in Nat /\ tries \in Nat /\ told[c].n <= tries
         /\ Attempts(c[1]) \in Nat
         /\ scn[c[1]].form # "then" /\ c[1] \in Steps(scn)
    <2>1. told[c].n \in Nat /\ tries \in Nat
      BY <1>3, <1>4 DEF SessionType
    <2>2. told[c].n <= tries
      BY <1>1, <1>3, <1>4 DEF CallGoesOn
    <2>3. scn[c[1]].form # "then" /\ c[1] \in Steps(scn)
      BY <1>3, <1>4, EntryFacts DEF Sound
    <2>4. Attempts(c[1]) \in Nat
      BY <1>3, <2>3, AttemptsPositive DEF Sound
    <2> QED
      BY <2>1, <2>2, <2>3, <2>4
  \* Where hurl is next.
  <1>12. /\ Rest(c) \subseteq Slice(Run)
         /\ \A e : e \in Rest(c) <=> e \in Slice(Run) /\ Before(c, e)
    BY DEF Rest
  <1>13. d = FirstOf(Rest(c)) /\ Rest(c) # {} =>
            d \in Rest(c) /\ \A e \in Rest(c) : e = d \/ Before(d, e)
    <2>1. Rest(c) \subseteq Nat \X Nat
      BY <1>8, <1>12
    <2> QED
      BY <2>1, FirstIs
  <1>14. PICK f : f = Cursor'
    OBVIOUS
  <1>15. \/ d = c /\ f = c
         \/ d = <<0, 0>> /\ f = c /\ (a.errs = {} => Rest(c) = {})
         \/ d \in Rest(c) /\ f = d /\ a.errs = {} /\ \A e \in Rest(c) : e = d \/ Before(d, e)
    <2>1. d # <<0, 0>> => f = d
      BY <1>2, <1>14 DEF Cursor
    <2>2. d = <<0, 0>> => f = c
      BY <1>2, <1>7, <1>10, <1>14 DEF Cursor
    <2>3. d \in Rest(c) => d # <<0, 0>>
      BY <1>3, <1>8, <1>12, EntryFacts DEF Sound
    <2> QED
      BY <1>4, <1>6, <1>13, <2>1, <2>2, <2>3
  <1>16. f \in Slice(Run) /\ (f = c \/ (d = f /\ f \in Rest(c) /\ a.errs = {}
                                        /\ \A e \in Rest(c) : e = f \/ Before(f, e)))
    BY <1>8, <1>12, <1>15
  <1>17. d # <<0, 0>> => tries' < Attempts(d[1]) /\ told'[d].n <= tries'
    <2>1. CASE d = c
      <3>1. \/ tries' \in Nat /\ tries' < Attempts(c[1]) /\ tries + 1 <= tries'
            \/ d \in Rest(c)
        BY <1>4, <1>6, <1>13, <2>1
      <3>2. ~Before(c, c)
        BY <1>8, BeforeOrders
      <3> QED
        BY <1>6, <1>11, <1>12, <2>1, <3>1, <3>2
    <2>2. CASE d # c /\ d # <<0, 0>>
      <3>1. d \in Rest(c) /\ tries' = 0
        BY <1>6, <1>13, <2>2
      <3>2. d \in Slice(Run) /\ Before(c, d) /\ d \in AllEntries(scn)
        BY <1>8, <1>12, <3>1
      <3>3. told[d].n = 0
        BY <1>3, <1>8, <3>2 DEF CallGoesOn
      <3>4. told'[d].n = 0
        BY <1>6, <2>2, <3>2, <3>3
      <3>5. Attempts(d[1]) \in Nat /\ Attempts(d[1]) > 0
        <4>1. d[1] \in Steps(scn) /\ scn[d[1]].form # "then"
          BY <1>3, <3>2, EntryFacts DEF Sound
        <4> QED
          BY <1>3, <4>1, AttemptsPositive DEF Sound
      <3> QED
        BY <3>1, <3>4, <3>5
    <2> QED
      BY <2>1, <2>2
  <1>18. d = <<0, 0>> => /\ ResultsOf(f)' # {}
                         /\ told'[f].errs = {} => Rest(f)' = {}
    <2>1. SUFFICES ASSUME d = <<0, 0>> PROVE ResultsOf(f)' # {} /\ (told'[f].errs = {} => Rest(f)' = {})
      OBVIOUS
    <2>2. d \notin Rest(c)
      BY <1>3, <1>8, <1>12, <2>1, EntryFacts DEF Sound
    <2>3. f = c /\ (a.errs = {} => Rest(c) = {})
      BY <1>4, <1>15, <2>1, <2>2
    <2> QED
      BY <1>6, <1>9, <1>n, <2>3
  <1>19. \A i \in DOMAIN results' : results'[i].entry \in Slice(Run)
    <2>1. \A i \in DOMAIN results : results[i].entry \in Slice(Run)
      BY <1>3 DEF CallGoesOn
    <2> QED
      BY <1>7, <1>8, <1>10, <2>1
  <1>20. ASSUME NEW e \in Slice(Run)
         PROVE  /\ ResultsOf(e)' = {} => told'[e].n = 0
                /\ ResultsOf(e)' # {} =>
                      /\ told'[e].n > 0 /\ told'[e].errs = Final(e)'.errs
                      /\ told'[e].answered => \E i \in ResultsOf(e)' : results'[i].answered
                /\ Before(e, f) => ResultsOf(e)' # {} /\ told'[e].errs = {}
                /\ Before(f, e) => ResultsOf(e)' = {}
    <2>1. \A g, h \in AllEntries(scn) : ~(Before(g, h) /\ Before(h, g)) /\ ~Before(g, g)
      BY <1>8, BeforeOrders
    <2>2. CASE e = c
      <3>1. ResultsOf(e)' # {} /\ told'[e].n > 0
        BY <1>6, <1>n, <1>11, <2>2
      <3>2. told'[e].errs = Final(e)'.errs
        BY <1>6, <1>7, <1>10, <2>2
      <3>3. told'[e].answered => results'[Len(results) + 1].answered /\ Len(results) + 1 \in ResultsOf(e)'
        BY <1>6, <1>7, <1>10, <2>2
      <3>4. Before(e, f) => told'[e].errs = {}
        BY <1>6, <1>8, <1>16, <2>1, <2>2
      <3>5. ~Before(f, e)
        BY <1>8, <1>12, <1>16, <2>1, <2>2
      <3> QED
        BY <3>1, <3>2, <3>3, <3>4, <3>5
    <2>3. CASE e # c
      <3>1. told'[e] = told[e] /\ ResultsOf(e)' = ResultsOf(e)
        BY <1>6, <1>8, <1>10, <2>3
      <3>2. /\ ResultsOf(e) = {} => told[e].n = 0
            /\ ResultsOf(e) # {} =>
                  /\ told[e].n > 0 /\ told[e].errs = Final(e).errs
                  /\ told[e].answered => \E i \in ResultsOf(e) : results[i].answered
            /\ Before(e, c) => ResultsOf(e) # {} /\ told[e].errs = {}
            /\ Before(c, e) => ResultsOf(e) = {}
        BY <1>3, <1>8 DEF CallGoesOn
      <3>3. Before(e, f) => Before(e, c)
        <4>1. SUFFICES ASSUME f # c, Before(e, f), ~Before(e, c) PROVE FALSE
          OBVIOUS
        <4>2. Before(c, e)
          BY <1>8, <2>3, <4>1, BeforeOrders
        <4>3. e = f \/ Before(f, e)
          BY <1>12, <1>16, <4>1, <4>2
        <4> QED
          BY <1>8, <1>16, <2>1, <4>1, <4>3
      <3>4. Before(f, e) => Before(c, e)
        <4>1. SUFFICES ASSUME f # c, Before(f, e) PROVE Before(c, e)
          OBVIOUS
        <4>2. Before(c, f)
          BY <1>12, <1>16, <4>1
        <4> QED
          BY <1>8, <1>16, <4>1, <4>2, BeforeOrders
      <3>5. \A i \in ResultsOf(e) : results'[i] = results[i]
        BY <1>10 DEF ResultsOf
      <3>6. ResultsOf(e) # {} => Final(e)' = Final(e)
        BY <1>10, <2>3
      <3> QED
        BY <3>1, <3>2, <3>3, <3>4, <3>5, <3>6
    <2> QED
      BY <2>2, <2>3
  <1>21. (\E k \in Run : HasEntries(k))' /\ broken' = FALSE
    <2>1. (\E k \in Run : HasEntries(k)) /\ ~broken
      BY <1>3 DEF CallGoesOn
    <2>2. broken \in BOOLEAN
      BY <1>3 DEF SessionType
    <2> QED
      BY <1>4, <1>9, <2>1, <2>2
  <1>22. (at # <<0, 0>> => tries < Attempts(at[1]) /\ told[at].n <= tries)'
    BY <1>2, <1>9, <1>17
  <1>23. (at = <<0, 0>> => /\ results # <<>> /\ ResultsOf(Cursor) # {}
                           /\ told[Cursor].errs = {} => Rest(Cursor) = {})'
    BY <1>2, <1>10, <1>14, <1>18
  <1>24. Cursor' \in Slice(Run)' /\ (\A i \in DOMAIN results : results[i].entry \in Slice(Run))'
    BY <1>9, <1>14, <1>16, <1>19
  <1>25. (\A e \in Slice(Run) :
            /\ ResultsOf(e) = {} => told[e].n = 0
            /\ ResultsOf(e) # {} => /\ told[e].n > 0 /\ told[e].errs = Final(e).errs
                                    /\ told[e].answered => \E i \in ResultsOf(e) : results[i].answered
            /\ Before(e, Cursor) => ResultsOf(e) # {} /\ told[e].errs = {}
            /\ Before(Cursor, e) => ResultsOf(e) = {})'
    BY <1>9, <1>14, <1>20
  <1> QED
    BY <1>21, <1>22, <1>23, <1>24, <1>25 DEF CallGoesOn

\* Verdicts that were given hold: a call's entries are of steps that have none.
LEMMA AttemptVerdicts ==
    ASSUME SessionInv, Attempt
    PROVE  VerdictsTrue'
  <1>1. PICK c : c = at
    OBVIOUS
  <1>2. SessionType /\ InOrder /\ CallGoesOn /\ VerdictsTrue /\ pc = "call" /\ Sound(scn) /\ Inside
    BY DEF SessionInv, Attempt, SessionType, Sound, Inside
  <1>3. /\ c # <<0, 0>> /\ c \in AllEntries(scn) /\ UNCHANGED <<scn, outcome>>
        /\ \E a \in AnswersOf(c) : AttemptBy(c, a)
    BY <1>1, <1>2, AttemptIs
  <1>4. \A e \in AllEntries(scn) : e # c => told'[e] = told[e]
    BY <1>3 DEF AttemptBy
  <1>5. c[1] \in Run
    <2>1. c = Cursor
      BY <1>1, <1>3 DEF Cursor
    <2> QED
      BY <1>2, <2>1, CallSlice
  <1>6. ASSUME NEW k \in Steps(scn) PROVE VerdictOf(k)'
    <2>1. CASE outcome[k] = "none"
      <3>1. outcome'[k] = "none"
        BY <1>3, <2>1
      <3> QED
        BY <3>1 DEF VerdictOf
    <2>2. CASE outcome[k] # "none"
      <3>1. k \notin Run
        BY <1>2, <2>2, RunMembers
      <3>2. \A e \in OwnEntries(k) : e \in AllEntries(scn) /\ e[1] = IF scn[k].form = "then" THEN Host(scn, k) ELSE k
        BY <1>2, OwnFacts
      <3>3. c \notin OwnEntries(k)
        <4>1. CASE scn[k].form = "then"
          <5>1. Host(scn, k) \notin Run
            BY <1>2, <3>1, <4>1, AssertsWait
          <5> QED
            BY <1>5, <3>2, <4>1, <5>1
        <4>2. CASE scn[k].form # "then"
          BY <1>5, <3>1, <3>2, <4>2
        <4> QED
          BY <4>1, <4>2
      <3>4. \A e \in OwnEntries(k) : told'[e] = told[e]
        BY <1>4, <3>2, <3>3
      <3>5. VerdictOf(k)
        BY <1>2, VerdictsByStep
      <3> QED
        BY <1>3, <3>4, <3>5, VerdictStays
    <2> QED
      BY <2>1, <2>2
  <1> QED
    BY <1>3, <1>6 DEF VerdictsTrue, VerdictOf

LEMMA AttemptKeeps ==
    ASSUME SessionInv, Attempt
    PROVE  SessionInv'
  <1>1. PICK c : c = at
    OBVIOUS
  <1>2. /\ SessionType /\ InOrder /\ SentInCalls /\ CallGoesOn /\ FailuresCount /\ CookiesKept
        /\ pc = "call" /\ Sound(scn) /\ Inside
    BY DEF SessionInv, Attempt, SessionType, Sound, Inside
  <1>3. /\ c # <<0, 0>> /\ c \in AllEntries(scn)
        /\ UNCHANGED <<scn, batch, pc, world, jar, outcome, error, broken, cancelled, failed>>
        /\ \E a \in AnswersOf(c) : AttemptBy(c, a)
    BY <1>1, <1>2, AttemptIs
  <1>4. PICK a \in AnswersOf(c) : AttemptBy(c, a)
    BY <1>3
  <1> DEFINE r == [entry |-> c, errs |-> a.errs, class |-> a.class, answered |-> a.answered]
  <1>5. /\ told' = [e \in AllEntries(scn) |-> told'[e]]
        /\ told'[c].errs = a.errs /\ told'[c].answered = a.answered /\ told'[c].n = told[c].n + 1
        /\ \A e \in AllEntries(scn) : e # c => told'[e] = told[e]
        /\ saw' = [k \in Steps(scn) |-> IF k = c[1] THEN Options(k) ELSE saw[k]]
        /\ results' = Append(results, r)
        /\ \/ /\ at' = c /\ tries' \in Nat
              /\ tries' < Attempts(c[1]) /\ tries + 1 <= tries'
           \/ a.errs = {} /\ Rest(c) # {} /\ at' = FirstOf(Rest(c)) /\ tries' = 0
           \/ (a.errs = {} => Rest(c) = {}) /\ at' = <<0, 0>> /\ tries' = 0
    BY <1>4 DEF AttemptBy
  <1>6. /\ a.errs \in ErrsOf(c) /\ a.errs \subseteq Steps(scn) /\ a.answered \in BOOLEAN
        /\ a.class \in {"user", "assert", "infra"}
    BY <1>2, <1>3, AnswerFacts
  <1>7. /\ Slice(Run) \subseteq AllEntries(scn) /\ AllEntries(scn) \subseteq Nat \X Nat
        /\ c \in Slice(Run) /\ c[1] \in Run
    <2>1. c = Cursor
      BY <1>1, <1>3 DEF Cursor
    <2> QED
      BY <1>2, <2>1, CallSlice
  <1>8. /\ Waiting(batch)' = Waiting(batch) /\ Run' = Run
        /\ \A k : Excused(k)' <=> Excused(k)
        /\ \A k : Attempts(k)' = Attempts(k)
        /\ \A e : ErrsOf(e)' = ErrsOf(e)
        /\ \A b : AllOptional(b)' <=> AllOptional(b)
    BY <1>3, SameRun, SameScenario
  <1>9. Inside' /\ \A k : Calling(k)' <=> Calling(k)
    BY <1>2, <1>3, <1>8 DEF Inside, Calling
  <1>10. told[c].n \in Nat /\ tries \in Nat /\ told[c].n <= tries /\ tries < Attempts(c[1])
         /\ Attempts(c[1]) \in Nat
    <2>1. told[c].n \in Nat /\ tries \in Nat
      BY <1>2, <1>3 DEF SessionType
    <2>2. told[c].n <= tries /\ tries < Attempts(c[1])
      BY <1>1, <1>2, <1>3 DEF CallGoesOn
    <2>3. scn[c[1]].form # "then" /\ c[1] \in Steps(scn)
      BY <1>2, <1>3, EntryFacts DEF Sound
    <2>4. Attempts(c[1]) \in Nat
      BY <1>2, <2>3, AttemptsPositive DEF Sound
    <2> QED
      BY <2>1, <2>2, <2>4
  <1>11. ASSUME NEW k \in Steps(scn), k # c[1] PROVE Tried(k)' <=> Tried(k)
    <2>1. \A e \in EntriesOf(scn, k) : e \in AllEntries(scn) /\ e # c
      BY <1>2, <1>11, EntryFacts DEF Sound
    <2> QED
      BY <1>3, <1>5, <2>1 DEF Tried
  <1>12. SessionType'
    <2>1. at' \in AllEntries(scn) \cup {<<0, 0>>} /\ tries' \in Nat
      <3>1. Rest(c) # {} => FirstOf(Rest(c)) \in Rest(c)
        BY <1>7, FirstIs DEF Rest
      <3>2. Rest(c) \subseteq AllEntries(scn)
        BY <1>7 DEF Rest
      <3> QED
        BY <1>3, <1>5, <3>1, <3>2
    <2>2. results' \in Seq([entry : AllEntries(scn), errs : SUBSET Steps(scn),
                            class : {"user", "assert", "infra"}, answered : BOOLEAN])
      <3> DEFINE X == [entry : AllEntries(scn), errs : SUBSET Steps(scn),
                       class : {"user", "assert", "infra"}, answered : BOOLEAN]
      <3>1. r \in X
        BY <1>3, <1>6
      <3>2. results \in Seq(X)
        BY <1>2 DEF SessionType
      <3> HIDE DEF X, r
      <3>3. results' \in Seq(X)
        BY <1>5, <3>1, <3>2
      <3> QED
        BY <3>3 DEF X
    <2>3. \A e \in AllEntries(scn) : /\ told'[e].errs \in ErrsOf(e) /\ told'[e].answered \in BOOLEAN
                                     /\ told'[e].n \in Nat /\ (told'[e].answered => told'[e].n > 0)
      <3>1. told'[c].n \in Nat /\ told'[c].n > 0
        BY <1>5, <1>10
      <3>2. ASSUME NEW e \in AllEntries(scn), e # c
            PROVE  /\ told'[e].errs \in ErrsOf(e) /\ told'[e].answered \in BOOLEAN
                   /\ told'[e].n \in Nat /\ (told'[e].answered => told'[e].n > 0)
        BY <1>2, <1>5, <3>2 DEF SessionType
      <3> QED
        BY <1>5, <1>6, <3>1, <3>2
    <2>4. saw' = [k \in Steps(scn) |-> saw'[k]]
      BY <1>5
    <2>5. (\A e \in AllEntries(scn) : /\ told[e].errs \in ErrsOf(e) /\ told[e].answered \in BOOLEAN
                                      /\ told[e].n \in Nat
                                      /\ told[e].answered => told[e].n > 0)'
      BY <1>3, <1>8, <2>3
    <2>6. told' = [e \in AllEntries(scn) |-> told'[e]]
      BY <1>5
    <2> QED
      BY <1>2, <1>3, <2>1, <2>2, <2>4, <2>5, <2>6 DEF SessionType
  <1>13. InOrder'
    BY <1>2, <1>3, OrderStays
  <1>14. SentInCalls'
    <2>1. ASSUME NEW k \in Steps(scn), Tried(k)' PROVE ~scn[k].off /\ (outcome[k] # "none" \/ Calling(k))
      <3>1. CASE k = c[1]
        BY <1>2, <1>7, <3>1, RunMembers DEF Calling
      <3>2. CASE k # c[1]
        BY <1>2, <1>11, <2>1, <3>2 DEF SentInCalls
      <3> QED
        BY <3>1, <3>2
    <2>2. ASSUME NEW e \in AllEntries(scn) PROVE told'[e].n <= Attempts(e[1])
      <3>1. CASE e = c
        BY <1>5, <1>10, <3>1
      <3>2. CASE e # c
        BY <1>2, <1>5, <3>2 DEF SentInCalls
      <3> QED
        BY <3>1, <3>2
    <2> QED
      BY <1>3, <1>8, <1>9, <2>1, <2>2 DEF SentInCalls
  <1>15. (pc = "call" => CallGoesOn)'
    BY AttemptCall
  <1>16. VerdictsTrue'
    BY AttemptVerdicts
  <1>17. FailuresCount'
    BY <1>2, <1>3, <1>8, <1>9 DEF FailuresCount
  <1>18. CookiesKept'
    <2>1. ASSUME NEW k \in Steps(scn), Tried(k)', ~Calling(k) PROVE Tried(k)
      BY <1>2, <1>7, <1>11, <2>1 DEF Calling
    <2> QED
      BY <1>2, <1>3, <1>9, <2>1 DEF CookiesKept
  <1>19. CapturesKept'
    BY AttemptCaptures
  <1> QED
    BY <1>12, <1>13, <1>14, <1>15, <1>16, <1>17, <1>18, <1>19 DEF SessionInv

\* A call that is over stopped at its last entry, or at one that failed.
LEMMA CallOver ==
    ASSUME SessionInv, pc = "call", at = <<0, 0>>, NEW c, c = Cursor
    PROVE  /\ c \in AllEntries(scn) /\ c[1] \in Run /\ ResultsOf(c) # {}
           /\ \A e \in AllEntries(scn) : e[1] \in Run =>
                /\ ResultsOf(e) = {} => told[e].n = 0 /\ Before(c, e) /\ told[c].errs # {}
                /\ ResultsOf(e) # {} => /\ told[e].n > 0 /\ told[e].errs = Final(e).errs
                                        /\ e = c \/ Before(e, c)
           /\ \A e \in AllEntries(scn) : e[1] \notin Run => ResultsOf(e) = {}
           /\ \A e \in AllEntries(scn) : told[e].errs \subseteq {e[1]} \cup Mergeable(e)
  <1>1. /\ CallGoesOn /\ SessionType /\ Sound(scn)
        /\ Slice(Run) \subseteq AllEntries(scn) /\ AllEntries(scn) \subseteq Nat \X Nat
        /\ \A e \in AllEntries(scn) : e \in Slice(Run) <=> e[1] \in Run
        /\ c \in Slice(Run) /\ c[1] \in Run
    BY CallSlice
  <1>2. ResultsOf(c) # {} /\ (told[c].errs = {} => Rest(c) = {})
    BY <1>1 DEF CallGoesOn
  <1>3. \A e \in Slice(Run) :
          /\ ResultsOf(e) = {} => told[e].n = 0
          /\ ResultsOf(e) # {} => told[e].n > 0 /\ told[e].errs = Final(e).errs
          /\ Before(e, c) => ResultsOf(e) # {}
          /\ Before(c, e) => ResultsOf(e) = {}
    BY <1>1 DEF CallGoesOn
  <1>4. \A e \in Slice(Run) : e = c \/ Before(e, c) \/ Before(c, e)
    BY <1>1, BeforeOrders
  <1>5. \A e \in Slice(Run) : Before(c, e) => told[c].errs # {}
    BY <1>2 DEF Rest
  <1>6. \A e \in AllEntries(scn) : e[1] \notin Run => ResultsOf(e) = {}
    <2>1. \A i \in DOMAIN results : results[i].entry \in Slice(Run)
      BY <1>1 DEF CallGoesOn
    <2>2. \A e \in AllEntries(scn) : e[1] \notin Run => e \notin Slice(Run)
      BY <1>1
    <2> QED
      BY <2>1, <2>2 DEF ResultsOf
  <1>7. \A e \in AllEntries(scn) : told[e].errs \subseteq {e[1]} \cup Mergeable(e)
    BY <1>1 DEF SessionType, ErrsOf
  <1> QED
    BY <1>1, <1>2, <1>3, <1>4, <1>5, <1>6, <1>7

\* What an error of a request's last attempt is charged to: the request, or asserts
\* that are in the run with it.
LEMMA ErrorsAre ==
    ASSUME SessionInv, pc = "call", at = <<0, 0>>, NEW e \in AllEntries(scn), e[1] \in Run,
           NEW x \in told[e].errs
    PROVE  x = e[1] \/ (x \in MergedIn(Run) /\ LastEntry(e) /\ e = HostEntry(x) /\ Host(scn, x) = e[1]
                        /\ x \in Steps(scn))
  <1>1. SessionType /\ InOrder /\ Inside /\ Sound(scn)
    BY CallSlice
  <1>2. x = e[1] \/ x \in Mergeable(e)
    BY CallOver
  <1>3. ASSUME x \in Mergeable(e)
        PROVE  x \in MergedIn(Run) /\ LastEntry(e) /\ e = HostEntry(x) /\ Host(scn, x) = e[1] /\ x \in Steps(scn)
    <2>1. LastEntry(e) /\ x \in Steps(scn) /\ scn[x].form = "then" /\ Host(scn, x) = e[1]
      BY <1>3 DEF Mergeable, ThensOf
    <2>2. x \in Run
      BY <1>1, <2>1, AssertsWait
    <2>3. e = <<e[1], e[2]>> /\ e[2] = scn[e[1]].entries
      BY <1>1, <2>1, EntryFacts DEF Sound, LastEntry
    <2> QED
      BY <2>1, <2>2, <2>3 DEF MergedIn, HostEntry
  <1> QED
    BY <1>2, <1>3

LEMMA CallVerdict ==
    ASSUME SessionInv, pc = "call", at = <<0, 0>>, NEW k \in Run, NEW tainted,
           NEW out, out = Verdict(Run, k, tainted)
    PROVE  /\ out \in {"skipped", "passed", "warned", "failed"}
           /\ out = "passed" => \A e \in OwnEntries(k) : told[e].n > 0 /\ k \notin told[e].errs
           /\ out = "failed" => ~Optional(scn, k) /\ \E e \in OwnEntries(k) : k \in told[e].errs
           /\ out = "warned" => \/ \E e \in OwnEntries(k) : k \in told[e].errs /\ Optional(scn, k)
                                \/ scn[k].save # {}
           /\ out = "skipped" => \A e \in EntriesOf(scn, k) : told[e].n = 0
  <1>1. /\ SessionType /\ InOrder /\ Inside /\ Sound(scn)
        /\ AllEntries(scn) \subseteq Nat \X Nat
    BY CallSlice
  <1>2. PICK c : c = Cursor
    OBVIOUS
  <1>3. /\ c \in AllEntries(scn) /\ c[1] \in Run /\ ResultsOf(c) # {}
        /\ \A e \in AllEntries(scn) : e[1] \in Run =>
              /\ ResultsOf(e) = {} => told[e].n = 0 /\ Before(c, e) /\ told[c].errs # {}
              /\ ResultsOf(e) # {} => /\ told[e].n > 0 /\ told[e].errs = Final(e).errs
                                      /\ e = c \/ Before(e, c)
        /\ \A e \in AllEntries(scn) : e[1] \notin Run => ResultsOf(e) = {}
    BY <1>2, CallOver
  <1>4. k \in Steps(scn)
    BY <1>1, RunMembers
  <1>5. /\ OwnEntries(k) \subseteq AllEntries(scn)
        /\ scn[k].form # "then" => OwnEntries(k) = EntriesOf(scn, k)
        /\ scn[k].form = "then" => /\ OwnEntries(k) = {HostEntry(k)}
                                   /\ HostEntry(k)[1] = Host(scn, k) /\ EntriesOf(scn, k) = {}
    BY <1>1, <1>4, OwnFacts
  <1>6. /\ out = "skipped" <=> ~Reached(Run, k)
        /\ out = "failed" => Reached(Run, k) /\ FinallyFailed(Run, k) /\ ~Optional(scn, k)
        /\ out = "warned" => \/ Reached(Run, k) /\ FinallyFailed(Run, k) /\ Optional(scn, k)
                             \/ Refused(k, tainted) # {}
        /\ out = "passed" => Reached(Run, k) /\ ~FinallyFailed(Run, k)
        /\ out \in {"skipped", "passed", "warned", "failed"}
    BY DEF Verdict
  <1>7. Refused(k, tainted) # {} => scn[k].save # {}
    BY DEF Refused
  <1>8. Reached(Run, k) /\ FinallyFailed(Run, k) => \E e \in OwnEntries(k) : k \in told[e].errs
    <2>1. SUFFICES ASSUME Reached(Run, k), FinallyFailed(Run, k)
                   PROVE  \E e \in OwnEntries(k) : k \in told[e].errs
      OBVIOUS
    <2>2. CASE scn[k].form = "then"
      <3>1. HostEntry(k) \in AllEntries(scn) /\ HostEntry(k) \in OwnEntries(k)
        BY <1>5, <2>2
      <3>2. ResultsOf(HostEntry(k)) # {} /\ k \in Final(HostEntry(k)).errs
        BY <2>1, <2>2 DEF FinallyFailed
      <3>3. told[HostEntry(k)].errs = Final(HostEntry(k)).errs
        BY <1>3, <3>1, <3>2
      <3> QED
        BY <3>1, <3>2, <3>3
    <2>3. CASE scn[k].form # "then"
      <3>1. PICK e \in EntriesOf(scn, k) : ResultsOf(e) # {} /\ Final(e).errs \ MergedIn(Run) # {}
        BY <2>1, <2>3 DEF FinallyFailed, ReachedEntries
      <3>2. e \in AllEntries(scn) /\ e[1] = k /\ e \in OwnEntries(k)
        BY <1>1, <1>4, <1>5, <2>3, EntryFacts DEF Sound
      <3>3. told[e].errs = Final(e).errs
        BY <1>3, <3>1, <3>2
      <3>4. PICK x \in told[e].errs : x \notin MergedIn(Run)
        BY <3>1, <3>3
      <3>5. x = k
        BY <3>2, <3>4, ErrorsAre
      <3> QED
        BY <3>2, <3>4, <3>5
    <2> QED
      BY <2>2, <2>3
  <1>9. ASSUME Reached(Run, k), ~FinallyFailed(Run, k), NEW e \in OwnEntries(k)
        PROVE  told[e].n > 0 /\ k \notin told[e].errs
    <2>1. CASE scn[k].form = "then"
      <3>1. e = HostEntry(k) /\ e \in AllEntries(scn) /\ ResultsOf(e) # {} /\ k \notin Final(e).errs
        BY <1>5, <1>9, <2>1 DEF Reached, FinallyFailed
      <3>2. e[1] \in Run
        BY <1>3, <3>1
      <3> QED
        BY <1>3, <3>1, <3>2
    <2>2. CASE scn[k].form # "then"
      <3>1. e \in EntriesOf(scn, k) /\ e \in AllEntries(scn) /\ e[1] = k
        BY <1>1, <1>4, <1>5, <2>2, EntryFacts DEF Sound
      <3>2. k \notin MergedIn(Run)
        BY <2>2 DEF MergedIn
      <3>3. \A f \in EntriesOf(scn, k) : ResultsOf(f) # {} => k \notin Final(f).errs
        BY <1>9, <2>2, <3>2 DEF FinallyFailed, ReachedEntries
      <3>4. PICK g \in EntriesOf(scn, k) : ResultsOf(g) # {}
        BY <1>9, <2>2 DEF Reached, ReachedEntries
      <3>5. g \in AllEntries(scn) /\ g[1] = k
        BY <1>1, <1>4, <3>4, EntryFacts DEF Sound
      <3>6. ASSUME ResultsOf(e) = {} PROVE FALSE
        <4>1. Before(c, e) /\ told[c].errs # {}
          BY <1>3, <3>1, <3>6
        <4>2. g = c \/ Before(g, c)
          BY <1>3, <3>4, <3>5
        <4>3. /\ c[1] \in Nat /\ c[2] \in Nat /\ e[1] \in Nat /\ e[2] \in Nat
              /\ g[1] \in Nat /\ c = <<c[1], c[2]>>
          BY <1>1, <1>3, <3>1, <3>5
        <4>4. c[1] = k /\ c[2] < e[2]
          BY <3>1, <3>5, <4>1, <4>2, <4>3 DEF Before
        <4>5. c \in EntriesOf(scn, k)
          BY <1>1, <1>3, <4>4, EntryFacts DEF Sound
        <4>6. e[2] <= scn[k].entries /\ scn[k].entries \in Nat
          BY <1>1, <1>4, <3>1, EntryFacts, StepFacts DEF Sound
        <4>7. ~LastEntry(c)
          BY <4>3, <4>4, <4>6 DEF LastEntry
        <4>8. PICK x \in told[c].errs : TRUE
          BY <4>1
        <4>9. x = k
          BY <1>3, <4>4, <4>7, <4>8, ErrorsAre
        <4>10. told[c].errs = Final(c).errs
          BY <1>3
        <4> QED
          BY <1>3, <3>3, <4>5, <4>8, <4>9, <4>10
      <3>7. told[e].n > 0 /\ told[e].errs = Final(e).errs
        BY <1>3, <3>1, <3>6
      <3> QED
        BY <3>1, <3>3, <3>6, <3>7
    <2> QED
      BY <2>1, <2>2
  <1>10. ASSUME ~Reached(Run, k), NEW e \in EntriesOf(scn, k) PROVE told[e].n = 0
    <2>1. scn[k].form # "then"
      BY <1>5, <1>10
    <2>2. ResultsOf(e) = {}
      BY <1>10, <2>1 DEF Reached, ReachedEntries
    <2>3. e \in AllEntries(scn) /\ e[1] = k
      BY <1>1, <1>4, EntryFacts DEF Sound
    <2> QED
      BY <1>3, <2>2, <2>3
  <1> QED
    BY <1>6, <1>7, <1>8, <1>9, <1>10

\* Why a step of a call is skipped: its host is off, or a step of the call failed, or
\* it is an assert of the optional request that did.
LEMMA WhySkipped ==
    ASSUME SessionInv, pc = "call", at = <<0, 0>>, NEW k \in Run, NEW tainted,
           Verdict(Run, k, tainted) = "skipped"
    PROVE  \/ scn[k].form = "then" /\ scn[Host(scn, k)].off
           \/ ~AllOptional(batch) /\ \E x \in Run : Verdict(Run, x, tainted) = "failed"
           \/ /\ scn[k].form = "then" /\ scn[Host(scn, k)].optional /\ Host(scn, k) \in Run
              /\ Verdict(Run, Host(scn, k), tainted) = "warned"
  <1>1. /\ SessionType /\ InOrder /\ Inside /\ Sound(scn)
        /\ AllEntries(scn) \subseteq Nat \X Nat
    BY CallSlice
  <1>2. PICK c : c = Cursor
    OBVIOUS
  <1>3. /\ c \in AllEntries(scn) /\ c[1] \in Run /\ ResultsOf(c) # {}
        /\ \A e \in AllEntries(scn) : e[1] \in Run =>
              /\ ResultsOf(e) = {} => Before(c, e) /\ told[c].errs # {}
              /\ ResultsOf(e) # {} => told[e].errs = Final(e).errs
    BY <1>2, CallOver
  <1>4. k \in Steps(scn) /\ BatchOf(scn, k) = batch /\ c[1] \in Steps(scn) /\ BatchOf(scn, c[1]) = batch
    BY <1>1, <1>3, RunMembers
  <1>5. ~Reached(Run, k)
    BY DEF Verdict
  <1>6. scn[c[1]].form # "then" /\ c \in EntriesOf(scn, c[1]) /\ c = <<c[1], c[2]>>
    BY <1>1, <1>3, EntryFacts DEF Sound
  <1>7. CASE scn[k].form = "then" /\ scn[Host(scn, k)].off
    BY <1>7
  <1>8. CASE ~(scn[k].form = "then" /\ scn[Host(scn, k)].off)
    \* An entry of k, or of its host, that the call did not reach.
    <2>1. \E e \in AllEntries(scn) : e[1] \in Run /\ ResultsOf(e) = {}
      <3>1. CASE scn[k].form = "then"
        <4>1. Host(scn, k) \in Run
          BY <1>1, <1>4, <1>8, <3>1, AssertsWait
        <4>2. HostEntry(k) \in AllEntries(scn) /\ HostEntry(k)[1] = Host(scn, k)
          BY <1>1, <1>4, <3>1, OwnFacts
        <4>3. ResultsOf(HostEntry(k)) = {}
          BY <1>5, <3>1 DEF Reached
        <4> QED
          BY <4>1, <4>2, <4>3
      <3>2. CASE scn[k].form # "then"
        <4>1. /\ <<k, scn[k].entries>> \in EntriesOf(scn, k)
              /\ <<k, scn[k].entries>> \in AllEntries(scn)
          BY <1>1, <1>4, <3>2, EntryFacts DEF Sound
        <4>2. ResultsOf(<<k, scn[k].entries>>) = {}
          BY <1>5, <3>2, <4>1 DEF Reached, ReachedEntries
        <4> QED
          BY <4>1, <4>2
      <3> QED
        BY <3>1, <3>2
    <2>2. told[c].errs # {} /\ told[c].errs = Final(c).errs
      BY <1>3, <2>1
    <2>3. PICK x \in told[c].errs : TRUE
      BY <2>2
    <2>4. x = c[1] \/ (x \in MergedIn(Run) /\ LastEntry(c) /\ c = HostEntry(x) /\ Host(scn, x) = c[1]
                       /\ x \in Steps(scn))
      BY <1>3, ErrorsAre
    <2>5. /\ x \in Run /\ x \in Steps(scn) /\ Reached(Run, x) /\ FinallyFailed(Run, x)
          /\ Optional(scn, x) = scn[c[1]].optional
      <3>1. CASE x = c[1]
        <4>1. c \in ReachedEntries(x) /\ x \notin MergedIn(Run)
          BY <1>3, <1>6, <3>1 DEF ReachedEntries, MergedIn
        <4>2. Reached(Run, x) /\ FinallyFailed(Run, x)
          BY <1>6, <2>2, <2>3, <3>1, <4>1 DEF Reached, FinallyFailed
        <4>3. Optional(scn, x) = scn[c[1]].optional
          BY <1>6, <3>1 DEF Optional
        <4> QED
          BY <1>3, <1>4, <3>1, <4>2, <4>3
      <3>2. CASE x \in MergedIn(Run) /\ LastEntry(c) /\ c = HostEntry(x) /\ Host(scn, x) = c[1] /\ x \in Steps(scn)
        <4>1. x \in Run /\ scn[x].form = "then"
          BY <3>2 DEF MergedIn
        <4>2. Reached(Run, x) /\ FinallyFailed(Run, x)
          BY <1>3, <2>2, <2>3, <3>2, <4>1 DEF Reached, FinallyFailed
        <4>3. Optional(scn, x) = scn[c[1]].optional
          BY <3>2, <4>1 DEF Optional
        <4> QED
          BY <3>2, <4>1, <4>2, <4>3
      <3> QED
        BY <2>4, <3>1, <3>2
    <2>6. CASE ~scn[c[1]].optional
      <3>1. Verdict(Run, x, tainted) = "failed"
        BY <2>5, <2>6 DEF Verdict
      <3>2. x \in Batch(scn, batch) /\ ~Optional(scn, x)
        BY <1>1, <2>5, <2>6, RunMembers
      <3> QED
        BY <2>5, <3>1, <3>2 DEF AllOptional
    <2>7. CASE scn[c[1]].optional
      <3>1. c[1] \in Requests(scn) /\ Optional(scn, c[1])
        BY <1>4, <1>6, <2>7 DEF Requests, Optional
      <3>2. k = c[1] \/ (scn[k].form = "then" /\ Host(scn, k) = c[1])
        BY <1>1, <1>4, <3>1, OptionalAlone
      <3>3. k # c[1]
        <4>1. c \in ReachedEntries(c[1])
          BY <1>3, <1>6 DEF ReachedEntries
        <4> QED
          BY <1>5, <1>6, <4>1 DEF Reached
      <3>4. ~LastEntry(c)
        <4>1. ResultsOf(HostEntry(k)) = {}
          BY <1>5, <3>2, <3>3 DEF Reached
        <4>2. c # HostEntry(k)
          BY <1>3, <4>1
        <4> QED
          BY <1>6, <3>2, <3>3, <4>2 DEF HostEntry, LastEntry
      <3>5. x = c[1]
        BY <2>4, <3>4
      <3>6. Verdict(Run, c[1], tainted) = "warned"
        BY <2>5, <2>7, <3>5 DEF Verdict
      <3> QED
        BY <1>3, <2>7, <3>2, <3>3, <3>6
    <2> QED
      BY <2>6, <2>7
  <1> QED
    BY <1>7, <1>8

\* A failure in a batch of optional steps leaves none of them waiting.
LEMMA OptionalCallIsAll ==
    ASSUME SessionInv, pc = "call", AllOptional(batch)
    PROVE  Plan(batch) \subseteq Run
  <1>1. /\ SessionType /\ InOrder /\ Inside /\ Sound(scn) /\ Cursor \in AllEntries(scn) /\ Cursor[1] \in Run
    BY CallSlice
  <1>2. PICK r : r = Cursor[1]
    OBVIOUS
  <1>3. r \in Run /\ r \in Steps(scn) /\ r \in Batch(scn, batch) /\ BatchOf(scn, r) = batch
    BY <1>1, <1>2, RunMembers
  <1>4. r \in Requests(scn) /\ Optional(scn, r)
    BY <1>1, <1>2, <1>3, EntryFacts DEF Sound, Requests, AllOptional
  <1>5. ASSUME NEW k \in Plan(batch) PROVE k \in Run
    <2>1. k \in Steps(scn) /\ BatchOf(scn, k) = BatchOf(scn, r)
      BY <1>3 DEF Plan, Batch
    <2>2. k = r \/ (scn[k].form = "then" /\ Host(scn, k) = r)
      BY <1>1, <1>4, <2>1, OptionalAlone
    <2> QED
      BY <1>1, <1>3, <2>1, <2>2, AssertsWait
  <1> QED
    BY <1>5

\* What the call answered is harvested.
LEMMA HarvestKeeps ==
    ASSUME SessionInv, pc = "call", at = <<0, 0>>, NEW j \in Run, NEW v \in scn[j].caps, Answered(j)
    PROVE  Harvest[v] # Nobody
  <1>1. /\ SessionType /\ Sound(scn) /\ CallGoesOn
        /\ \A e \in AllEntries(scn) : e \in Slice(Run) <=> e[1] \in Run
    BY CallSlice
  <1>2. j \in Steps(scn)
    BY <1>1, RunMembers
  <1> DEFINE e == <<j, scn[j].entries>>
  <1>3. e \in AllEntries(scn) /\ e[1] = j
    BY <1>1, <1>2, EntryFacts, StepFacts DEF Sound, Answered
  <1>4. told[e].answered /\ told[e].n \in Nat /\ told[e].n > 0
    BY <1>1, <1>3 DEF Answered, SessionType
  <1>5. e \in Slice(Run)
    BY <1>1, <1>3
  <1>6. /\ ResultsOf(e) = {} => told[e].n = 0
        /\ ResultsOf(e) # {} => (told[e].answered => \E i \in ResultsOf(e) : results[i].answered)
    BY <1>1, <1>5 DEF CallGoesOn
  <1>7. \E i \in ResultsOf(e) : results[i].answered
    BY <1>4, <1>6
  <1>8. j \in CapturesOfCall
    BY <1>2, <1>7 DEF CapturesOfCall, ResultsOf
  <1>9. v \in Vars
    BY <1>1, <1>2, StepFacts DEF Sound
  <1>10. {k \in CapturesOfCall : v \in scn[k].caps} # {}
    BY <1>8
  <1>11. Harvest[v] = <<"capture", Max({k \in CapturesOfCall : v \in scn[k].caps})>>
    BY <1>9, <1>10 DEF Harvest
  <1> QED
    BY <1>11 DEF Nobody

LEMMA EndCallKeeps ==
    ASSUME SessionInv, EndCall
    PROVE  SessionInv'
  <1>1. /\ SessionType /\ InOrder /\ SentInCalls /\ CallGoesOn /\ VerdictsTrue /\ FailuresCount
        /\ CookiesKept /\ CapturesKept /\ pc = "call" /\ at = <<0, 0>> /\ Sound(scn) /\ Inside
    BY DEF SessionInv, EndCall, SessionType, Sound, Inside
  <1> DEFINE Bad(tainted) == {k \in Run : Verdict(Run, k, tainted) = "failed"}
  <1>2. \E written \in BOOLEAN, tainted \in {{}, Vars} :
            /\ jar' = IF written THEN jar \cup {results[i].entry[1] : i \in DOMAIN results} ELSE jar
            /\ world' = Overlay(world, Harvest)
            /\ outcome' = [k \in Steps(scn) |->
                              IF k \in Run THEN Verdict(Run, k, tainted) ELSE outcome[k]]
            /\ broken' = (broken \/ Stops(written, Bad(tainted)))
            /\ error' = IF ~ written THEN "infra"
                        ELSE IF Bad(tainted) # {} THEN ClassOf(Min(Bad(tainted))) ELSE error
    BY DEF EndCall
  <1>3. PICK written \in BOOLEAN, tainted \in {{}, Vars} :
            /\ jar' = IF written THEN jar \cup {results[i].entry[1] : i \in DOMAIN results} ELSE jar
            /\ world' = Overlay(world, Harvest)
            /\ outcome' = [k \in Steps(scn) |->
                              IF k \in Run THEN Verdict(Run, k, tainted) ELSE outcome[k]]
            /\ broken' = (broken \/ Stops(written, Bad(tainted)))
            /\ error' = IF ~ written THEN "infra"
                        ELSE IF Bad(tainted) # {} THEN ClassOf(Min(Bad(tainted))) ELSE error
    BY <1>2
  <1>4. /\ pc' = "run" /\ results' = <<>>
        /\ UNCHANGED <<scn, batch, at, tries, vars, cancelled, failed, told, saw>>
    BY DEF EndCall
  <1>5. /\ \A e : ErrsOf(e)' = ErrsOf(e)
        /\ \A k : Attempts(k)' = Attempts(k)
        /\ \A b : (AllOptional(b)' <=> AllOptional(b)) /\ Plan(b)' = Plan(b)
    BY <1>4, SameScenario
  <1>6. /\ Inside' /\ \A k : ~Calling(k)'
        /\ \A k : Calling(k) <=> k \in Run
        /\ \A k : Tried(k)' <=> Tried(k)
        /\ \A k : Answered(k)' <=> Answered(k)
    BY <1>1, <1>4 DEF Inside, Calling, Tried, Answered
  <1>7. \A k \in Run : /\ k \in Steps(scn) /\ outcome[k] = "none" /\ k \in Batch(scn, batch)
                       /\ outcome'[k] = Verdict(Run, k, tainted)
    BY <1>1, <1>3, RunMembers
  <1>8. \A k \in Steps(scn) : /\ k \notin Run => outcome'[k] = outcome[k]
                              /\ outcome[k] # "none" => outcome'[k] = outcome[k]
    BY <1>3, <1>7
  <1>9. \A k \in Run :
           /\ outcome'[k] \in {"skipped", "passed", "warned", "failed"}
           /\ outcome'[k] = "passed" => \A e \in OwnEntries(k) : told[e].n > 0 /\ k \notin told[e].errs
           /\ outcome'[k] = "failed" => ~Optional(scn, k) /\ \E e \in OwnEntries(k) : k \in told[e].errs
           /\ outcome'[k] = "warned" => \/ \E e \in OwnEntries(k) : k \in told[e].errs /\ Optional(scn, k)
                                        \/ scn[k].save # {}
           /\ outcome'[k] = "skipped" => \A e \in EntriesOf(scn, k) : told[e].n = 0
    BY <1>1, <1>7, CallVerdict
  <1>10. ~broken /\ ~failed
    BY <1>1 DEF CallGoesOn, FailuresCount
  <1>11. /\ broken' <=> (~written \/ Bad(tainted) # {})
         /\ broken' \in BOOLEAN
         /\ \A k : ClassOf(k) \in {"user", "assert", "infra"}
         /\ error' \in {"none", "user", "assert", "infra"}
         /\ broken' => error' # "none"
         /\ error # "none" => error' # "none"
    <2>1. broken' <=> (~written \/ Bad(tainted) # {})
      BY <1>3, <1>10, Zenon DEF Stops
    <2>2. \A k : ClassOf(k) \in {"user", "assert", "infra"}
      BY DEF ClassOf
    <2>3. broken' \in BOOLEAN
      BY <1>3, Zenon
    <2>4. error \in {"none", "user", "assert", "infra"}
      BY <1>1 DEF SessionType
    <2> HIDE DEF Bad
    <2>5. /\ error' \in {"none", "user", "assert", "infra"}
          /\ error # "none" => error' # "none"
          /\ ~written \/ Bad(tainted) # {} => error' # "none"
      BY <1>3, <2>2, <2>4
    <2> QED
      BY <2>1, <2>2, <2>3, <2>5
  <1>12. \A k \in Run : outcome'[k] = "failed" => broken'
    <2>1. \A k \in Run : outcome'[k] = "failed" => k \in Bad(tainted)
      BY <1>7
    <2> QED
      BY <1>11, <2>1
  <1> HIDE DEF Bad
  <1>13. SessionType'
    <2>1. outcome' \in [Steps(scn) -> {"none", "skipped", "passed", "warned", "failed"}]
      <3>1. \A k \in Steps(scn) : outcome'[k] \in {"none", "skipped", "passed", "warned", "failed"}
        BY <1>1, <1>8, <1>9 DEF SessionType
      <3>2. outcome' = [k \in Steps(scn) |-> outcome'[k]]
        BY <1>3
      <3> QED
        BY <3>1, <3>2
    <2> QED
      BY <1>1, <1>4, <1>5, <1>11, <2>1 DEF SessionType
  <1>14. InOrder'
    <2>1. \A k \in Run : outcome'[k] # "none"
      BY <1>9
    <2> QED
      BY <1>1, <1>4, <1>8, <2>1, RunSettles
  <1>15. SentInCalls'
    <2>1. \A k \in Steps(scn) : Tried(k) => ~scn[k].off /\ outcome'[k] # "none"
      BY <1>1, <1>6, <1>8, <1>9 DEF SentInCalls
    <2> QED
      BY <1>1, <1>4, <1>5, <1>6, <2>1 DEF SentInCalls
  <1>16. VerdictsTrue'
    <2>1. ASSUME NEW k \in Steps(scn), k \in Run PROVE VerdictOf(k)'
      <3>1. OwnEntries(k)' = OwnEntries(k)
        BY <1>4, SameScenario
      <3> QED
        BY <1>4, <1>9, <2>1, <3>1 DEF VerdictOf
    <2>2. ASSUME NEW k \in Steps(scn), k \notin Run PROVE VerdictOf(k)'
      <3>1. VerdictOf(k) /\ outcome'[k] = outcome[k]
        BY <1>1, <1>8, <2>2, VerdictsByStep
      <3> QED
        BY <1>4, <3>1, VerdictStays
    <2> QED
      BY <1>4, <2>1, <2>2 DEF VerdictsTrue, VerdictOf
  <1>17. FailuresCount'
    <2>1. ASSUME AllOptional(batch) PROVE Waiting(batch)' = {}
      <3>1. \A k \in Plan(batch) : outcome'[k] # "none"
        BY <1>1, <1>9, <2>1, OptionalCallIsAll
      <3> QED
        BY <1>4, <1>5, <3>1 DEF Waiting
    <2>2. ASSUME NEW k \in Steps(scn), outcome'[k] = "failed"
          PROVE  ~Optional(scn, k) /\ k \in Batch(scn, batch) /\ error' # "none"
      <3>1. CASE k \in Run
        BY <1>7, <1>9, <1>11, <1>12, <2>2, <3>1
      <3>2. CASE k \notin Run
        BY <1>1, <1>8, <1>10, <1>11, <2>2, <3>2 DEF FailuresCount
      <3> QED
        BY <3>1, <3>2
    <2>3. ASSUME NEW k \in Steps(scn), outcome'[k] = "skipped"
          PROVE  \/ Excused(k)' \/ cancelled
                 \/ k \in Batch(scn, batch) /\ error' # "none" /\ ~AllOptional(batch)
      <3>1. CASE k \notin Run
        <4>1. Excused(k) => Excused(k)'
          BY <1>1, <1>4, <1>8, ExcuseStays
        <4> QED
          BY <1>1, <1>8, <1>10, <1>11, <2>3, <3>1, <4>1 DEF FailuresCount
      <3>2. CASE k \in Run
        <4>1. \/ scn[k].form = "then" /\ scn[Host(scn, k)].off
              \/ ~AllOptional(batch) /\ \E x \in Run : Verdict(Run, x, tainted) = "failed"
              \/ /\ scn[k].form = "then" /\ scn[Host(scn, k)].optional /\ Host(scn, k) \in Run
                 /\ Verdict(Run, Host(scn, k), tainted) = "warned"
          BY <1>1, <1>7, <2>3, <3>2, WhySkipped
        <4>2. CASE scn[k].form = "then" /\ scn[Host(scn, k)].off
          BY <1>4, <4>2 DEF Excused
        <4>3. CASE ~AllOptional(batch) /\ \E x \in Run : Verdict(Run, x, tainted) = "failed"
          BY <1>7, <1>11, <1>12, <3>2, <4>3
        <4>4. CASE /\ scn[k].form = "then" /\ scn[Host(scn, k)].optional /\ Host(scn, k) \in Run
                   /\ Verdict(Run, Host(scn, k), tainted) = "warned"
          <5>1. outcome'[Host(scn, k)] = "warned"
            BY <1>7, <4>4
          <5> QED
            BY <1>4, <4>4, <5>1 DEF Excused
        <4> QED
          BY <4>1, <4>2, <4>3, <4>4
      <3> QED
        BY <3>1, <3>2
    <2> QED
      BY <1>4, <1>5, <1>6, <1>10, <1>11, <2>1, <2>2, <2>3 DEF FailuresCount
  <1>18. CookiesKept'
    <2>1. ASSUME NEW k \in Steps(scn), Tried(k)
          PROVE  k \in jar' \/ Optional(scn, k) \/ (broken' /\ k \in Batch(scn, batch))
      <3>1. CASE k \notin Run
        <4>1. k \in jar \/ Optional(scn, k)
          BY <1>1, <1>6, <1>10, <2>1, <3>1 DEF CookiesKept
        <4> QED
          BY <1>3, <4>1
      <3>2. CASE k \in Run /\ ~written
        BY <1>7, <1>11, <3>2
      <3>3. CASE k \in Run /\ written
        <4>1. PICK e \in EntriesOf(scn, k) : told[e].n > 0
          BY <2>1 DEF Tried
        <4>2. e \in AllEntries(scn) /\ e[1] = k
          BY <1>1, <4>1, EntryFacts DEF Sound
        <4>3. ResultsOf(e) # {}
          <5>1. ResultsOf(e) = {} => told[e].n = 0
            BY <1>1, <3>3, <4>2, CallOver
          <5> QED
            BY <4>1, <5>1
        <4>4. \E i \in DOMAIN results : results[i].entry[1] = k
          BY <4>2, <4>3 DEF ResultsOf
        <4> QED
          BY <1>3, <3>3, <4>4
      <3> QED
        BY <3>1, <3>2, <3>3
    <2> QED
      BY <1>4, <1>6, <2>1 DEF CookiesKept
  <1>19. CapturesKept'
    <2>1. ASSUME NEW j \in Steps(scn), NEW v \in scn[j].caps, Answered(j) PROVE world'[v] # Nobody
      <3>1. v \in Vars
        BY <1>1, StepFacts DEF Sound
      <3>2. world[v] # Nobody \/ Harvest[v] # Nobody
        <4>1. CASE j \in Run
          BY <1>1, <2>1, <4>1, HarvestKeeps
        <4>2. CASE j \notin Run
          BY <1>1, <1>6, <2>1, <4>2 DEF CapturesKept
        <4> QED
          BY <4>1, <4>2
      <3> QED
        BY <1>3, <3>1, <3>2 DEF Overlay
    <2> QED
      BY <1>1, <1>4, <1>6, <2>1 DEF CapturesKept
  <1> QED
    BY <1>4, <1>13, <1>14, <1>15, <1>16, <1>17, <1>18, <1>19 DEF SessionInv

-----------------------------------------------------------------------------

LEMMA SessionStarts == Init => SessionInv
  <1> SUFFICES ASSUME Init PROVE SessionInv
    OBVIOUS
  <1>1. /\ Sound(scn) /\ batch = 1 /\ pc = "batch" /\ at = <<0, 0>> /\ tries = 0 /\ results = <<>>
        /\ outcome = [k \in Steps(scn) |-> "none"]
        /\ error = "none" /\ broken = FALSE /\ cancelled = FALSE /\ failed = FALSE
        /\ told = [e \in AllEntries(scn) |-> Untried]
        /\ saw = [k \in Steps(scn) |-> Unset]
    BY DEF Init, Sound
  <1>2. \A e \in AllEntries(scn) : told[e].n = 0 /\ told[e].errs = {} /\ told[e].answered = FALSE
    BY <1>1 DEF Untried
  <1>3. \A k \in Steps(scn) : ~Tried(k) /\ ~Answered(k)
    <2>1. \A k \in Steps(scn) : \A e \in EntriesOf(scn, k) : e \in AllEntries(scn)
      BY <1>1, EntryFacts DEF Sound
    <2>2. \A k \in Steps(scn) : scn[k].entries > 0 => <<k, scn[k].entries>> \in AllEntries(scn)
      BY <1>1, EntryFacts, StepFacts DEF Sound
    <2> QED
      BY <1>2, <2>1, <2>2 DEF Tried, Answered
  <1>4. SessionType
    <2>1. \A e : {} \in ErrsOf(e)
      BY DEF ErrsOf
    <2>2. told = [e \in AllEntries(scn) |-> told[e]]
      BY <1>1
    <2>3. saw = [k \in Steps(scn) |-> saw[k]]
      BY <1>1
    <2>4. \A e \in AllEntries(scn) : /\ told[e].errs \in ErrsOf(e) /\ told[e].answered \in BOOLEAN
                                     /\ told[e].n \in Nat
                                     /\ told[e].answered => told[e].n > 0
      <3>1. SUFFICES ASSUME NEW e \in AllEntries(scn)
                     PROVE  /\ told[e].errs \in ErrsOf(e) /\ told[e].answered \in BOOLEAN
                            /\ told[e].n \in Nat /\ (told[e].answered => told[e].n > 0)
        OBVIOUS
      <3>2. told[e].errs \in ErrsOf(e) /\ told[e].n \in Nat
        <4>1. told[e].errs = {} /\ told[e].n = 0
          BY <1>2, Zenon
        <4>2. {} \in ErrsOf(e)
          BY <2>1, Zenon
        <4> QED
          BY <4>1, <4>2
      <3>3. told[e].answered \in BOOLEAN /\ ~told[e].answered
        BY <1>2, Zenon
      <3> QED
        BY <3>2, <3>3, Zenon
    <2>5. results \in Seq([entry : AllEntries(scn), errs : SUBSET Steps(scn),
                           class : {"user", "assert", "infra"}, answered : BOOLEAN])
      BY <1>1
    <2>6. outcome \in [Steps(scn) -> {"none", "skipped", "passed", "warned", "failed"}]
      BY <1>1
    <2>7. scn \in Scenarios /\ Lowers(scn)
      BY <1>1 DEF Sound
    <2>8. broken \in BOOLEAN /\ cancelled \in BOOLEAN /\ failed \in BOOLEAN
      BY <1>1, Zenon
    <2>9. /\ batch \in Nat \ {0} /\ pc \in {"batch", "run", "call", "ended"}
          /\ at \in AllEntries(scn) \cup {<<0, 0>>} /\ tries \in Nat
          /\ error \in {"none", "user", "assert", "infra"}
      BY <1>1
    <2> QED
      BY <2>2, <2>3, <2>4, <2>5, <2>6, <2>7, <2>8, <2>9, Zenon DEF SessionType
  <1>5. InOrder
    <2>1. ASSUME NEW k \in Steps(scn) PROVE ~(BatchOf(scn, k) < batch)
      BY <1>1, BatchFacts
    <2> QED
      BY <1>1, <2>1 DEF InOrder, Inside
  <1>6. SentInCalls
    <2>1. ASSUME NEW e \in AllEntries(scn) PROVE told[e].n <= Attempts(e[1])
      <3>1. e[1] \in Steps(scn) /\ scn[e[1]].form # "then"
        BY <1>1, EntryFacts DEF Sound
      <3>2. Attempts(e[1]) \in Nat
        BY <1>1, <3>1, AttemptsPositive DEF Sound
      <3> QED
        BY <1>2, <3>2
    <2> QED
      BY <1>3, <2>1 DEF SentInCalls
  <1>7. VerdictsTrue
    BY <1>1 DEF VerdictsTrue
  <1>8. FailuresCount
    BY <1>1 DEF FailuresCount, Inside
  <1>9. CookiesKept /\ CapturesKept
    <2>1. \A k \in Steps(scn) : \A j \in 1..(k - 1) : j \in Steps(scn)
      BY <1>1, StepFacts DEF Sound
    <2> QED
      BY <1>3, <2>1 DEF CookiesKept, CapturesKept
  <1> QED
    BY <1>1, <1>4, <1>5, <1>6, <1>7, <1>8, <1>9 DEF SessionInv

LEMMA SessionStays == SessionInv /\ [Next]_svars => SessionInv'
  <1> SUFFICES ASSUME SessionInv, [Next]_svars PROVE SessionInv'
    OBVIOUS
  <1>1. CASE Cancel
    <2>1. cancelled' \in BOOLEAN /\ (cancelled => cancelled')
      BY <1>1 DEF Cancel
    <2>2. UNCHANGED <<scn, batch, pc, at, tries, results, vars, world, jar, outcome, error,
                      broken, failed, told, saw>>
      BY <1>1 DEF Cancel
    <2> QED
      BY <2>1, <2>2, CancelKeeps
  <1>2. CASE Done \/ UNCHANGED svars
    <2>1. UNCHANGED svars
      BY <1>2 DEF Done
    <2>2. cancelled' \in BOOLEAN /\ (cancelled => cancelled')
      BY <2>1 DEF svars, SessionInv, SessionType
    <2>3. UNCHANGED <<scn, batch, pc, at, tries, results, vars, world, jar, outcome, error,
                      broken, failed, told, saw>>
      BY <2>1 DEF svars
    <2> QED
      BY <2>2, <2>3, CancelKeeps
  <1> QED
    BY <1>1, <1>2, StopKeeps, BeginKeeps, SkipKeeps, StartKeeps, AttemptKeeps, EndCallKeeps,
       EndBatchKeeps DEF Next

LEMMA SessionAlways == Spec => []SessionInv
  BY SessionStarts, SessionStays, PTL DEF Spec

(***************************************************************************)
(* A step is reported as what the last attempts of its entries showed, for  *)
(* every scenario, with any retries, repeats and merged asserts             *)
(* (engine-hurl/session.rs, step_outcome).                                  *)
(***************************************************************************)
THEOREM VerdictsTrueHolds == Spec => []VerdictsTrue
  <1>1. SessionInv => VerdictsTrue
    BY DEF SessionInv
  <1> QED
    BY <1>1, SessionAlways, PTL

(***************************************************************************)
(* No request is sent more often than its author allowed, or at all when it *)
(* is guarded off, and a green scenario has left out only what excuses it   *)
(* (core/runner.rs, run_batches; engine-hurl/session.rs, run_batch).        *)
(***************************************************************************)
THEOREM RanAsAuthoredHolds == Spec => []RanAsAuthored
  <1>1. SessionInv => RanAsAuthored
    <2> SUFFICES ASSUME SessionInv PROVE RanAsAuthored
      OBVIOUS
    <2>1. SessionType /\ SentInCalls /\ FailuresCount /\ Sound(scn)
      BY DEF SessionInv, SessionType, Sound
    <2>2. ASSUME NEW e \in AllEntries(scn)
          PROVE  told[e].n <= Attempts(e[1]) /\ (scn[e[1]].off => told[e].n = 0)
      <3>1. e[1] \in Steps(scn) /\ e \in EntriesOf(scn, e[1])
        BY <2>1, EntryFacts DEF Sound
      <3>2. scn[e[1]].off => ~Tried(e[1])
        BY <2>1, <3>1 DEF SentInCalls
      <3> QED
        BY <2>1, <3>1, <3>2, Untold DEF SentInCalls
    <2>3. ASSUME Green, NEW k \in Steps(scn)
          PROVE  outcome[k] # "failed" /\ (outcome[k] = "skipped" => Excused(k))
      BY <2>1, <2>3 DEF Green, FailuresCount, Inside
    <2> QED
      BY <2>2, <2>3 DEF RanAsAuthored
  <1> QED
    BY <1>1, SessionAlways, PTL

(***************************************************************************)
(* A request reads what the requests before it captured, whatever calls the *)
(* batch was cut into, and is sent with their cookies                       *)
(* (engine-hurl/session.rs, seed_variables and run_slice).                  *)
(***************************************************************************)
THEOREM RequestsFedHolds == Spec => []RequestsFed
  <1>1. SessionInv => RequestsFed
    <2> SUFFICES ASSUME SessionInv PROVE RequestsFed
      OBVIOUS
    <2>1. SessionType /\ CapturesKept /\ CookiesKept /\ FailuresCount /\ Sound(scn)
          /\ (pc = "call" => CallGoesOn)
      BY DEF SessionInv, SessionType, Sound
    <2>2. ReadsSupplied
      <3>1. ASSUME NEW k \in Steps(scn), NEW v \in scn[k].reads, Tried(k), saw[k][v] = Nobody,
                   NEW j \in 1..(k - 1), v \in scn[j].caps
            PROVE  ~Answered(j)
        <4>1. v \in Vars
          <5>1. j \in Steps(scn)
            BY <2>1, StepFacts DEF Sound
          <5> QED
            BY <2>1, <3>1, <5>1, StepFacts DEF Sound
        <4> QED
          BY <2>1, <3>1, <4>1 DEF CapturesKept
      <3> QED
        BY <3>1 DEF ReadsSupplied, Tried
    <2>3. CookiesChained
      <3>1. ASSUME pc = "call", NEW k \in Steps(scn), k \notin Run, Tried(k)
            PROVE  k \in jar \/ Optional(scn, k)
        <4>1. ~broken /\ ~failed
          BY <2>1, <3>1 DEF CallGoesOn, FailuresCount, Inside
        <4> QED
          BY <2>1, <3>1, <4>1 DEF CookiesKept, Calling
      <3> QED
        BY <3>1 DEF CookiesChained, Tried
    <2> QED
      BY <2>2, <2>3 DEF RequestsFed
  <1> QED
    BY <1>1, SessionAlways, PTL

-----------------------------------------------------------------------------
(* What is granted, and what is spent *)

LEMMA CountingOn ==
    ASSUME NEW S, 0 \in S, \A n \in Nat : n \in S => n + 1 \in S
    PROVE  Nat \subseteq S
  <1> SUFFICES ASSUME Nat \ S # {} PROVE FALSE
    OBVIOUS
  <1>1. PICK n \in Nat \ S : \A m \in Nat \ S : n <= m
    BY LeastNumber
  <1>2. n # 0 /\ n - 1 \in Nat
    BY <1>1
  <1>3. n - 1 \in S
    BY <1>1, <1>2
  <1> QED
    BY <1>1, <1>2, <1>3

LEMMA SumExists ==
    ASSUME NEW M \in Nat, NEW c \in [1..M -> Nat]
    PROVE  \E f \in [0..M -> Nat] : f[0] = 0 /\ \A k \in 1..M : f[k] = f[k - 1] + c[k]
  <1> DEFINE Sums(n) == \E f \in [0..n -> Nat] : f[0] = 0 /\ \A k \in 1..n : f[k] = f[k - 1] + c[k]
             P == {n \in Nat : n <= M => Sums(n)}
  <1>1. Sums(0)
    <2>1. PICK f \in [0..0 -> Nat] : f[0] = 0
      <3> DEFINE z == [k \in 0..0 |-> 0]
      <3>1. z \in [0..0 -> Nat] /\ z[0] = 0
        OBVIOUS
      <3> HIDE DEF z
      <3> QED
        BY <3>1
    <2> QED
      BY <2>1
  <1>2. ASSUME NEW n \in Nat, n + 1 <= M, Sums(n) PROVE Sums(n + 1)
    <2>1. PICK f \in [0..n -> Nat] : f[0] = 0 /\ \A k \in 1..n : f[k] = f[k - 1] + c[k]
      BY <1>2
    <2>2. n + 1 \in 1..M /\ c[n + 1] \in Nat /\ f[n] \in Nat
      BY <1>2
    <2> DEFINE g == [k \in 0..(n + 1) |-> IF k = n + 1 THEN f[n] + c[n + 1] ELSE f[k]]
    <2>3. g \in [0..(n + 1) -> Nat]
      BY <2>2
    <2>4. \A k \in 0..n : k \in 0..(n + 1) /\ k # n + 1 /\ g[k] = f[k]
      OBVIOUS
    <2>5. g[n + 1] = f[n] + c[n + 1]
      OBVIOUS
    <2> HIDE DEF g
    <2>6. ASSUME NEW k \in 1..(n + 1) PROVE g[k] = g[k - 1] + c[k]
      <3>1. k - 1 \in 0..n /\ g[k - 1] = f[k - 1]
        BY <2>4
      <3>2. CASE k = n + 1
        BY <2>5, <3>1, <3>2
      <3>3. CASE k \in 1..n
        BY <2>1, <2>4, <3>1, <3>3
      <3> QED
        BY <3>2, <3>3
    <2>7. g[0] = 0
      BY <2>1, <2>4
    <2> QED
      BY <2>3, <2>6, <2>7
  <1> HIDE DEF Sums
  <1>3. 0 \in P
    BY <1>1
  <1>4. ASSUME NEW n \in Nat, n \in P PROVE n + 1 \in P
    BY <1>2, <1>4
  <1> HIDE DEF P
  <1>5. M \in P
    BY <1>3, <1>4, CountingOn
  <1>6. Sums(M)
    BY <1>5 DEF P
  <1> QED
    BY <1>6 DEF Sums

LEMMA Products ==
    /\ \A a, b \in Nat : a * b \in Nat
    /\ \A a, b, c \in Nat : a <= b => a * c <= b * c
    /\ \A a, b, c \in Nat : (a + b) * c = (a * c) + (b * c)
    /\ \A a, b \in Nat : a * b = b * a
  <1>1. \A a, b \in Nat : a * b \in Nat
    OBVIOUS
  <1>2. \A a, b, c \in Nat : (a + b) * c = (a * c) + (b * c)
    OBVIOUS
  <1>3. ASSUME NEW a \in Nat, NEW b \in Nat, NEW c \in Nat, a <= b PROVE a * c <= b * c
    <2>1. PICK d \in Nat : b = a + d
      <3>1. b - a \in Nat /\ b = a + (b - a)
        BY <1>3
      <3> QED
        BY <3>1
    <2>2. (a + d) * c = (a * c) + (d * c) /\ d * c \in Nat /\ a * c \in Nat
      BY <1>1, <1>2
    <2> QED
      BY <2>1, <2>2
  <1>4. \A a, b \in Nat : a * b = b * a
    OBVIOUS
  <1> QED
    BY <1>1, <1>2, <1>3, <1>4

LEMMA BudgetsAre ==
    ASSUME Sound(scn), NEW k \in Steps(scn)
    PROVE  /\ {Timeout, Interval, Delay, Margin, MaxBudget} \subseteq Nat
           /\ scn[k].retry \in Nat /\ scn[k].repeat \in Nat /\ scn[k].entries \in Nat
           /\ RoundBudget(k) \in Nat /\ EntryBudget(k) \in Nat
           /\ scn[k].entries * EntryBudget(k) \in Nat
  <1>1. /\ {Timeout, Interval, Delay, Margin, MaxBudget} \subseteq Nat
        /\ scn[k].retry \in Nat /\ scn[k].repeat \in Nat /\ scn[k].entries \in Nat
    BY StepFacts, BudgetAssumption DEF Sound
  <1>2. RoundBudget(k) \in Nat
    <2>1. PICK r, n : r = scn[k].retry /\ n = scn[k].retry + 1
      OBVIOUS
    <2>2. r \in Nat /\ n \in Nat
      BY <1>1, <2>1
    <2>3. Timeout * n \in Nat /\ Interval * r \in Nat /\ Delay * n \in Nat
      BY <1>1, <2>2, Products
    <2>4. RoundBudget(k) = Timeout * n + Interval * r + Delay * n
      BY <2>1, Zenon DEF RoundBudget
    <2>5. PICK a, b, c : a = Timeout * n /\ b = Interval * r /\ c = Delay * n
      OBVIOUS
    <2> QED
      BY <2>3, <2>4, <2>5
  <1>3. EntryBudget(k) \in Nat
    BY <1>1, <1>2, Products DEF EntryBudget
  <1> QED
    BY <1>1, <1>2, <1>3, Products

LEMMA GrantedIs ==
    ASSUME Sound(scn), NEW b, NEW G, G = Granted(b)
    PROVE  /\ \A n \in 0..Len(scn) : G[n] \in Nat
           /\ G[0] = 0
           /\ \A k \in Steps(scn) :
                G[k] = G[k - 1] + (IF k \in Batch(scn, b) THEN scn[k].entries * EntryBudget(k) ELSE 0)
  <1> DEFINE Part(k) == IF k \in Batch(scn, b) THEN scn[k].entries * EntryBudget(k) ELSE 0
             Is(f) == f = [k \in 0..Len(scn) |-> IF k = 0 THEN 0 ELSE f[k - 1] + Part(k)]
  <1>1. Len(scn) \in Nat /\ Steps(scn) = 1..Len(scn)
    BY StepFacts DEF Sound
  <1>2. \A k \in 1..Len(scn) : Part(k) \in Nat
    BY <1>1, BudgetsAre
  <1>3. PICK c \in [1..Len(scn) -> Nat] : \A k \in 1..Len(scn) : c[k] = Part(k)
    <2>1. [k \in 1..Len(scn) |-> Part(k)] \in [1..Len(scn) -> Nat]
      BY <1>2
    <2> HIDE DEF Part
    <2> QED
      BY <2>1
  <1> HIDE DEF Part
  <1>4. PICK f \in [0..Len(scn) -> Nat] : f[0] = 0 /\ \A k \in 1..Len(scn) : f[k] = f[k - 1] + c[k]
    BY <1>1, SumExists
  <1>5. ASSUME NEW k \in 0..Len(scn), k # 0 PROVE k \in 1..Len(scn) /\ k - 1 \in 0..Len(scn)
    BY <1>1, <1>5
  <1>6. Is(f)
    BY <1>3, <1>4, <1>5
  <1>7. G = CHOOSE g : Is(g)
    BY Zenon DEF Granted, Part
  <1>8. Is(G)
    <2> HIDE DEF Is
    <2> QED
      BY <1>6, <1>7, Zenon
  <1>9. /\ DOMAIN G = 0..Len(scn) /\ G[0] = 0
        /\ \A k \in 1..Len(scn) : G[k] = G[k - 1] + Part(k)
    BY <1>1, <1>8
  <1>10. \A n \in 0..Len(scn) : G[n] \in Nat
    <2> DEFINE P == {n \in Nat : n <= Len(scn) => G[n] \in Nat}
    <2>1. 0 \in P
      BY <1>9
    <2>2. ASSUME NEW n \in Nat, n \in P PROVE n + 1 \in P
      <3> SUFFICES ASSUME n + 1 <= Len(scn) PROVE G[n + 1] \in Nat
        OBVIOUS
      <3>1. G[n] \in Nat /\ n + 1 \in 1..Len(scn) /\ (n + 1) - 1 = n
        BY <1>1, <2>2
      <3>2. G[n + 1] = G[(n + 1) - 1] + Part(n + 1) /\ Part(n + 1) \in Nat
        BY <1>2, <1>9, <3>1 DEF Part
      <3> QED
        BY <3>1, <3>2
    <2> HIDE DEF P
    <2>3. Nat \subseteq P
      BY <2>1, <2>2, CountingOn
    <2> QED
      BY <1>1, <2>3 DEF P
  <1> QED
    BY <1>1, <1>9, <1>10 DEF Part

LEMMA GrantedGrows ==
    ASSUME Sound(scn), NEW b, NEW m \in 0..Len(scn), NEW n \in 0..Len(scn), m <= n
    PROVE  Granted(b)[m] <= Granted(b)[n]
  <1>1. PICK G : G = Granted(b)
    OBVIOUS
  <1>2. Len(scn) \in Nat /\ Steps(scn) = 1..Len(scn)
    BY StepFacts DEF Sound
  <1>3. /\ \A i \in 0..Len(scn) : G[i] \in Nat
        /\ \A k \in 1..Len(scn) : G[k - 1] <= G[k]
    <2>1. /\ \A i \in 0..Len(scn) : G[i] \in Nat
          /\ \A k \in Steps(scn) :
               G[k] = G[k - 1] + (IF k \in Batch(scn, b) THEN scn[k].entries * EntryBudget(k) ELSE 0)
      BY <1>1, GrantedIs
    <2>2. ASSUME NEW k \in 1..Len(scn) PROVE G[k - 1] <= G[k]
      <3>1. scn[k].entries * EntryBudget(k) \in Nat /\ G[k - 1] \in Nat
        BY <1>2, <2>1, BudgetsAre
      <3> QED
        BY <1>2, <2>1, <3>1
    <2> QED
      BY <2>1, <2>2
  <1> DEFINE P == {d \in Nat : m + d <= Len(scn) => G[m] <= G[m + d]}
  <1>4. 0 \in P
    BY <1>2, <1>3
  <1>5. ASSUME NEW d \in Nat, d \in P PROVE d + 1 \in P
    <2> SUFFICES ASSUME m + (d + 1) <= Len(scn) PROVE G[m] <= G[m + (d + 1)]
      OBVIOUS
    <2>1. G[m] <= G[m + d] /\ m + (d + 1) \in 1..Len(scn) /\ (m + (d + 1)) - 1 = m + d
      BY <1>2, <1>5
    <2>2. G[m + d] <= G[m + (d + 1)]
      BY <1>3, <2>1
    <2>3. G[m] \in Nat /\ G[m + d] \in Nat /\ G[m + (d + 1)] \in Nat
      BY <1>2, <1>3, <2>1
    <2> QED
      BY <2>1, <2>2, <2>3
  <1> HIDE DEF P
  <1>6. n - m \in P
    BY <1>2, <1>4, <1>5, CountingOn
  <1> QED
    BY <1>1, <1>2, <1>6 DEF P

\* What the entries before one were granted, in numbers: of the n entries of
\* step k, whose budget is w, i - 1 are before it; theirs is a, and with its own
\* it is c, of d; up to the step p was granted, with it q, and before it b.
Names(f, G, k, i, n, w, p, q, b) ==
    /\ k = f[1] /\ i = f[2] /\ n = scn[k].entries /\ w = EntryBudget(k)
    /\ p = G[k - 1] /\ q = G[k] /\ b = GrantedBefore(f)
    /\ k \in 1..Len(scn)

Adds(i, n, w, a, c, d, p, q, b) ==
    /\ i \in Nat /\ i - 1 \in Nat /\ i <= n /\ n \in Nat /\ w \in Nat
    /\ a \in Nat /\ c \in Nat /\ d \in Nat /\ a + w = c /\ c <= d
    /\ p \in Nat /\ q \in Nat /\ b \in Nat /\ b = p + a /\ q = p + d

LEMMA GrantsAre ==
    ASSUME Sound(scn), NEW f \in AllEntries(scn), f[1] \in Batch(scn, batch),
           NEW G, G = Granted(batch)
    PROVE  \E k, i, n, w, a, c, d, p, q, b :
              /\ Names(f, G, k, i, n, w, p, q, b) /\ Adds(i, n, w, a, c, d, p, q, b)
              /\ a = (i - 1) * w /\ c = i * w
  <1>1. PICK k, i : k = f[1] /\ i = f[2]
    OBVIOUS
  <1>2. PICK n, w : n = scn[k].entries /\ w = EntryBudget(k)
    OBVIOUS
  <1>3. Len(scn) \in Nat /\ Steps(scn) = 1..Len(scn)
    BY StepFacts DEF Sound
  <1>4. k \in Steps(scn) /\ i \in 1..n
    BY <1>1, <1>2, EntryFacts DEF Sound
  <1>5. n \in Nat /\ w \in Nat /\ n * w \in Nat
    BY <1>2, <1>4, BudgetsAre
  <1>6. /\ \A m \in 0..Len(scn) : G[m] \in Nat
        /\ G[k] = G[k - 1] + (IF k \in Batch(scn, batch) THEN scn[k].entries * EntryBudget(k) ELSE 0)
    BY <1>4, GrantedIs
  <1>7. k \in 1..Len(scn) /\ k - 1 \in 0..Len(scn) /\ k \in 0..Len(scn)
    BY <1>3, <1>4
  <1>8. G[k] = G[k - 1] + (n * w) /\ G[k] \in Nat /\ G[k - 1] \in Nat
    BY <1>1, <1>2, <1>6, <1>7
  <1>9. GrantedBefore(f) = G[k - 1] + ((i - 1) * w)
    BY <1>1, <1>2 DEF GrantedBefore
  <1>10. i \in Nat /\ i - 1 \in Nat /\ (i - 1) + 1 = i /\ 1 * w = w /\ i <= n
    BY <1>4, <1>5
  <1>11. (i - 1) * w \in Nat /\ i * w \in Nat /\ i * w <= n * w
    BY <1>5, <1>10, Products
  <1>12. ((i - 1) + 1) * w = ((i - 1) * w) + (1 * w)
    BY <1>5, <1>10, Products
  <1>13. ((i - 1) * w) + w = i * w
    BY <1>10, <1>12
  <1>14. PICK a, c, d : a = (i - 1) * w /\ c = i * w /\ d = n * w
    OBVIOUS
  <1>15. PICK p, q, b : p = G[k - 1] /\ q = G[k] /\ b = GrantedBefore(f)
    OBVIOUS
  <1>16. Names(f, G, k, i, n, w, p, q, b)
    BY <1>1, <1>2, <1>7, <1>15 DEF Names
  <1>17. /\ a \in Nat /\ c \in Nat /\ d \in Nat /\ a + w = c /\ c <= d
         /\ p \in Nat /\ q \in Nat /\ b = p + a /\ q = p + d
    BY <1>5, <1>8, <1>9, <1>11, <1>13, <1>14, <1>15
  <1>18. Adds(i, n, w, a, c, d, p, q, b)
    BY <1>5, <1>10, <1>17 DEF Adds
  <1> QED
    BY <1>14, <1>16, <1>18

\* What the entries up to one were granted, and those before the next.
LEMMA GrantsAdd ==
    ASSUME Sound(scn), NEW e \in AllEntries(scn), e[1] \in Batch(scn, batch)
    PROVE  /\ GrantedBefore(e) \in Nat /\ EntryBudget(e[1]) \in Nat
           /\ Granted(batch)[e[1] - 1] <= GrantedBefore(e)
           /\ GrantedBefore(e) + EntryBudget(e[1]) <= Granted(batch)[e[1]]
           /\ \A f \in AllEntries(scn) : f[1] \in Batch(scn, batch) /\ Before(e, f) =>
                GrantedBefore(e) + EntryBudget(e[1]) <= GrantedBefore(f)
  <1>1. PICK G : G = Granted(batch)
    OBVIOUS
  <1>2. PICK k, i, n, w, a, c, d, p, q, b :
            /\ Names(e, G, k, i, n, w, p, q, b) /\ Adds(i, n, w, a, c, d, p, q, b)
            /\ a = (i - 1) * w /\ c = i * w
    BY <1>1, GrantsAre
  <1>3. Adds(i, n, w, a, c, d, p, q, b)
    BY <1>2
  <1>4. /\ k = e[1] /\ i = e[2] /\ n = scn[k].entries /\ w = EntryBudget(e[1])
        /\ p = G[e[1] - 1] /\ q = G[e[1]] /\ b = GrantedBefore(e) /\ k \in 1..Len(scn)
        /\ p = G[k - 1] /\ q = G[k] /\ w = EntryBudget(k)
    BY <1>2, Zenon DEF Names
  <1>5. b \in Nat /\ w \in Nat /\ p <= b /\ b + w <= q
    BY <1>3 DEF Adds
  <1>6. Len(scn) \in Nat
    BY StepFacts DEF Sound
  <1>7. ASSUME NEW f \in AllEntries(scn), f[1] \in Batch(scn, batch), Before(e, f)
        PROVE  b + w <= GrantedBefore(f)
    <2>1. PICK l, j, m, u, x, y, z, r, s, v :
              /\ Names(f, G, l, j, m, u, r, s, v) /\ Adds(j, m, u, x, y, z, r, s, v)
              /\ x = (j - 1) * u /\ y = j * u
      BY <1>1, <1>7, GrantsAre
    <2>2. Adds(j, m, u, x, y, z, r, s, v)
      BY <2>1
    <2>3. /\ l = f[1] /\ j = f[2] /\ u = EntryBudget(l) /\ l \in 1..Len(scn)
          /\ r = G[l - 1] /\ s = G[l] /\ v = GrantedBefore(f)
      BY <2>1, Zenon DEF Names
    <2>4. k < l \/ (k = l /\ i < j)
      BY <1>4, <1>7, <2>3 DEF Before
    <2>5. CASE k = l /\ i < j
      <3>1. u = w /\ r = p
        BY <1>4, <2>3, <2>5, Zenon
      <3>2. i <= j - 1 /\ j - 1 \in Nat /\ i \in Nat /\ w \in Nat
        BY <1>3, <2>2, <2>5 DEF Adds
      <3>3. i * w <= (j - 1) * w
        BY <3>2, Products
      <3>4. c <= x
        <4>1. c = i * w /\ x = (j - 1) * w
          BY <1>2, <2>1, <3>1
        <4> QED
          BY <3>3, <4>1
      <3>5. b + w <= v
        BY <1>3, <2>2, <3>1, <3>4 DEF Adds
      <3> QED
        BY <2>3, <3>5
    <2>6. CASE k < l
      <3>1. k <= l - 1 /\ k \in 0..Len(scn) /\ l - 1 \in 0..Len(scn)
        BY <1>4, <1>6, <2>3, <2>6
      <3>2. Granted(batch)[k] <= Granted(batch)[l - 1]
        BY <3>1, GrantedGrows
      <3>3. q <= r
        BY <1>1, <1>4, <2>3, <3>2
      <3>4. b + w <= v
        BY <1>3, <2>2, <3>3 DEF Adds
      <3> QED
        BY <2>3, <3>4
    <2> QED
      BY <2>4, <2>5, <2>6
  <1> QED
    BY <1>1, <1>4, <1>5, <1>7

LEMMA Divides ==
    ASSUME NEW m \in Nat, m > 0, NEW n \in Nat, NEW q \in Nat, NEW i \in Nat, i < m,
           n = (q * m) + i
    PROVE  n \div m = q /\ n % m = i
  <1>1. PICK p, j : p = n \div m /\ j = n % m
    OBVIOUS
  <1>2. p \in Nat /\ j \in Nat /\ j < m /\ n = (m * p) + j
    BY <1>1
  <1>3. n = (p * m) + j
    BY <1>2, Products
  <1>4. ASSUME NEW x \in Nat, NEW y \in Nat, x < y PROVE (x * m) + m <= y * m
    <2>1. x + 1 \in Nat /\ x + 1 <= y /\ 1 * m = m
      BY <1>4
    <2>2. (x + 1) * m <= y * m /\ (x + 1) * m = (x * m) + (1 * m)
      BY <2>1, Products
    <2> QED
      BY <2>1, <2>2
  <1>5. PICK a, b : a = q * m /\ b = p * m
    OBVIOUS
  <1>6. a \in Nat /\ b \in Nat /\ n = a + i /\ n = b + j
    BY <1>2, <1>3, <1>5, Products
  <1>7. (p < q => b + m <= a) /\ (q < p => a + m <= b)
    BY <1>2, <1>4, <1>5
  <1>8. p = q
    BY <1>2, <1>6, <1>7
  <1>9. a = b
    BY <1>5, <1>8
  <1>10. i = j
    BY <1>2, <1>6, <1>9
  <1> QED
    BY <1>1, <1>8, <1>10

\* The longest that a try may take: the interval is waited for before a retry.
Longest(k, n) == Timeout + Delay + (IF n % (scn[k].retry + 1) = 0 THEN 0 ELSE Interval)

\* What i tries of a round may take, v being that of one and t the interval.
InRound(i, v, t) == (i * v) + (IF i = 0 THEN 0 ELSE (i - 1) * t)

LEMMA RoundAdds ==
    ASSUME NEW i \in Nat, NEW v \in Nat, NEW t \in Nat
    PROVE  /\ InRound(i, v, t) \in Nat
           /\ InRound(i, v, t) + (v + (IF i = 0 THEN 0 ELSE t)) = InRound(i + 1, v, t)
           /\ \A r \in Nat : i <= r => InRound(i, v, t) <= InRound(r, v, t)
  <1>1. i + 1 # 0 /\ (i + 1) - 1 = i /\ 1 * v = v /\ 1 * t = t /\ 0 * t = 0 /\ i + 1 \in Nat
    OBVIOUS
  <1>2. i * v \in Nat /\ i * t \in Nat /\ (i + 1) * v = (i * v) + v
    BY <1>1, Products
  <1>3. InRound(i + 1, v, t) = ((i + 1) * v) + (i * t)
    BY <1>1 DEF InRound
  <1>4. PICK a, b, c : a = i * v /\ b = i * t /\ c = (i + 1) * v
    OBVIOUS
  <1>5. a \in Nat /\ b \in Nat /\ c = a + v /\ InRound(i + 1, v, t) = c + b
    BY <1>2, <1>3, <1>4
  <1>6. /\ InRound(i, v, t) \in Nat
        /\ InRound(i, v, t) + (v + (IF i = 0 THEN 0 ELSE t)) = InRound(i + 1, v, t)
    <2>1. CASE i = 0
      <3>1. InRound(i, v, t) = a
        BY <1>4, <1>5, <2>1 DEF InRound
      <3>2. b = 0
        BY <1>1, <1>4, <2>1
      <3> QED
        BY <1>5, <2>1, <3>1, <3>2
    <2>2. CASE i # 0
      <3>1. i - 1 \in Nat /\ (i - 1) + 1 = i
        BY <2>2
      <3>2. PICK d : d = (i - 1) * t
        OBVIOUS
      <3>3. d \in Nat
        BY <3>1, <3>2, Products
      <3>4. ((i - 1) + 1) * t = ((i - 1) * t) + (1 * t)
        BY <3>1, Products
      <3>5. b = d + t
        BY <1>1, <1>4, <3>1, <3>2, <3>4
      <3>6. InRound(i, v, t) = a + d
        BY <1>4, <2>2, <3>2 DEF InRound
      <3> QED
        BY <1>5, <2>2, <3>3, <3>5, <3>6
    <2> QED
      BY <2>1, <2>2
  <1>7. ASSUME NEW r \in Nat, i <= r PROVE InRound(i, v, t) <= InRound(r, v, t)
    <2>1. i * v <= r * v /\ r * v \in Nat
      BY <1>7, Products
    <2>2. CASE i = 0
      <3>1. InRound(i, v, t) = i * v
        BY <1>2, <2>2 DEF InRound
      <3>2. CASE r = 0
        BY <1>6, <2>2, <3>2
      <3>3. CASE r # 0
        <4>1. r - 1 \in Nat
          BY <3>3
        <4>2. (r - 1) * t \in Nat
          BY <4>1, Products
        <4>3. InRound(r, v, t) = (r * v) + ((r - 1) * t)
          BY <3>3 DEF InRound
        <4>4. PICK x, y, z : x = i * v /\ y = r * v /\ z = (r - 1) * t
          OBVIOUS
        <4> QED
          BY <1>2, <2>1, <3>1, <4>2, <4>3, <4>4
      <3> QED
        BY <3>2, <3>3
    <2>3. CASE i # 0
      <3>1. r # 0 /\ i - 1 \in Nat /\ r - 1 \in Nat /\ i - 1 <= r - 1
        BY <1>7, <2>3
      <3>2. (i - 1) * t <= (r - 1) * t /\ (i - 1) * t \in Nat /\ (r - 1) * t \in Nat
        BY <3>1, Products
      <3>3. /\ InRound(i, v, t) = (i * v) + ((i - 1) * t)
            /\ InRound(r, v, t) = (r * v) + ((r - 1) * t)
        BY <2>3, <3>1 DEF InRound
      <3>4. PICK w, x, y, z : w = (i - 1) * t /\ x = i * v /\ y = r * v /\ z = (r - 1) * t
        OBVIOUS
      <3> QED
        BY <1>2, <2>1, <3>2, <3>3, <3>4
    <2> QED
      BY <2>2, <2>3
  <1> QED
    BY <1>6, <1>7

\* A try fits into the round, and the rounds into what the entry is granted.
LEMMA TriesAre ==
    ASSUME Sound(scn), NEW k \in Steps(scn), scn[k].form # "then", NEW n \in Nat
    PROVE  /\ Spent(k, n) \in Nat /\ Longest(k, n) \in Nat
           /\ Spent(k, 0) = 0
           /\ RoundOf(k, n + 1) = RoundOf(k, n) => Spent(k, n) + Longest(k, n) <= Spent(k, n + 1)
           /\ Spent(k, n) + Longest(k, n) <= Spent(k, NextRound(k, n))
           /\ n < Attempts(k) => Spent(k, n) + Longest(k, n) <= EntryBudget(k)
  <1>1. PICK r, v, t : r = scn[k].retry + 1 /\ v = Timeout + Delay /\ t = Interval
    OBVIOUS
  <1>2. /\ r \in Nat /\ r > 0 /\ r - 1 = scn[k].retry /\ r - 1 \in Nat /\ v \in Nat /\ t \in Nat
        /\ scn[k].repeat \in Nat /\ RoundBudget(k) \in Nat /\ r # 0
    BY <1>1, BudgetsAre
  <1>3. RoundBudget(k) = InRound(r, v, t)
    <2>1. RoundBudget(k) = ((Timeout * r) + (Interval * (r - 1))) + (Delay * r)
      BY <1>1, <1>2 DEF RoundBudget
    <2>2. InRound(r, v, t) = (r * v) + ((r - 1) * t)
      BY <1>2 DEF InRound
    <2>3. {Timeout, Interval, Delay} \subseteq Nat
      BY BudgetsAre
    <2>4. /\ Timeout * r \in Nat /\ Delay * r \in Nat /\ (Timeout + Delay) * r = (Timeout * r) + (Delay * r)
          /\ r * v = v * r /\ Interval * (r - 1) = (r - 1) * Interval /\ (r - 1) * Interval \in Nat
      BY <1>2, <2>3, Products
    <2>5. r * v = (Timeout * r) + (Delay * r) /\ Interval * (r - 1) = (r - 1) * t
      BY <1>1, <2>4
    <2>6. PICK a, b, c, d : a = Timeout * r /\ b = (r - 1) * t /\ c = Delay * r /\ d = r * v
      OBVIOUS
    <2>7. a \in Nat /\ b \in Nat /\ c \in Nat /\ d = a + c
      BY <1>1, <2>4, <2>5, <2>6
    <2>8. RoundBudget(k) = (a + b) + c /\ InRound(r, v, t) = d + b
      BY <2>1, <2>2, <2>5, <2>6
    <2> QED
      BY <2>7, <2>8
  <1>4. PICK w : w = InRound(r, v, t)
    OBVIOUS
  <1>5. w \in Nat /\ w = RoundBudget(k)
    BY <1>2, <1>3, <1>4
  <1>6. ASSUME NEW m \in Nat, NEW q \in Nat, NEW i \in Nat, q = m \div r, i = m % r
        PROVE  Spent(k, m) = (q * w) + InRound(i, v, t)
    <2>1. Spent(k, m) = ((q * w) + (i * v)) + (IF i = 0 THEN 0 ELSE (i - 1) * t)
      BY <1>1, <1>5, <1>6, Zenon DEF Spent
    <2>2. InRound(i, v, t) = (i * v) + (IF i = 0 THEN 0 ELSE (i - 1) * t)
      BY DEF InRound
    <2>3. q * w \in Nat /\ i * v \in Nat /\ (i # 0 => (i - 1) * t \in Nat)
      <3>1. i # 0 => i - 1 \in Nat
        OBVIOUS
      <3> QED
        BY <1>2, <1>5, <3>1, Products
    <2>4. PICK a, b, c : a = q * w /\ b = i * v /\ c = (IF i = 0 THEN 0 ELSE (i - 1) * t)
      OBVIOUS
    <2>5. a \in Nat /\ b \in Nat /\ c \in Nat
      BY <2>3, <2>4
    <2> QED
      BY <2>1, <2>2, <2>4, <2>5
  <1>7. PICK q, i : q = n \div r /\ i = n % r
    OBVIOUS
  <1>8. q \in Nat /\ i \in Nat /\ i < r /\ n = (r * q) + i
    BY <1>2, <1>7
  <1>9. n = (q * r) + i /\ q * r \in Nat
    BY <1>2, <1>8, Products
  <1>10. PICK u, x, y : u = InRound(i, v, t) /\ x = Longest(k, n) /\ y = InRound(i + 1, v, t)
    OBVIOUS
  <1>11. u \in Nat /\ u + (v + (IF i = 0 THEN 0 ELSE t)) = y /\ y <= w
    <2>1. i + 1 \in Nat /\ i + 1 <= r
      BY <1>2, <1>8
    <2> QED
      BY <1>2, <1>4, <1>8, <1>10, <2>1, RoundAdds
  <1>12. x = v + (IF i = 0 THEN 0 ELSE t)
    BY <1>1, <1>7, <1>10, Zenon DEF Longest
  <1>13. x \in Nat /\ u + x = y
    BY <1>2, <1>11, <1>12
  <1>14. PICK p : p = q * w
    OBVIOUS
  <1>15. p \in Nat /\ Spent(k, n) = p + u
    <2>1. p \in Nat
      BY <1>5, <1>8, <1>14, Products
    <2>2. Spent(k, n) = (q * w) + InRound(i, v, t)
      BY <1>6, <1>7, <1>8
    <2> QED
      BY <1>10, <1>14, <2>1, <2>2
  <1>16. (q + 1) * w = p + w
    <2>1. (q + 1) * w = (q * w) + (1 * w) /\ 1 * w = w
      BY <1>5, <1>8, Products
    <2> QED
      BY <1>14, <2>1
  <1>17. Spent(k, n) + Longest(k, n) <= (q + 1) * w /\ Spent(k, n) \in Nat /\ Longest(k, n) \in Nat
    BY <1>5, <1>10, <1>11, <1>13, <1>15, <1>16
  <1>18. Spent(k, 0) = 0
    <2>1. 0 \div r = 0 /\ 0 % r = 0
      <3>1. 0 = (0 * r) + 0
        BY <1>2
      <3> QED
        BY <1>2, <3>1, Divides
    <2>2. Spent(k, 0) = (0 * w) + InRound(0, v, t)
      BY <1>6, <2>1
    <2>3. InRound(0, v, t) = (0 * v) + 0
      BY DEF InRound
    <2> QED
      BY <1>2, <1>5, <2>2, <2>3
  <1>19. Spent(k, NextRound(k, n)) = (q + 1) * w
    <2>1. NextRound(k, n) = (q + 1) * r
      BY <1>1, <1>7, Zenon DEF NextRound, RoundOf
    <2>2. q + 1 \in Nat /\ (q + 1) * r \in Nat /\ (q + 1) * r = ((q + 1) * r) + 0
      BY <1>2, <1>8, Products
    <2>3. ((q + 1) * r) \div r = q + 1 /\ ((q + 1) * r) % r = 0
      BY <1>2, <2>2, Divides
    <2>4. Spent(k, (q + 1) * r) = ((q + 1) * w) + InRound(0, v, t)
      BY <1>6, <2>2, <2>3
    <2>5. InRound(0, v, t) = 0
      BY <1>2 DEF InRound
    <2> QED
      BY <1>5, <1>15, <1>16, <2>1, <2>4, <2>5
  <1>20. ASSUME RoundOf(k, n + 1) = RoundOf(k, n)
         PROVE  Spent(k, n) + Longest(k, n) <= Spent(k, n + 1)
    <2>1. PICK j : j = (n + 1) % r
      OBVIOUS
    <2>2. (n + 1) \div r = q
      BY <1>1, <1>7, <1>20 DEF RoundOf
    <2>3. n + 1 = (r * q) + j /\ j \in Nat
      <3>1. n + 1 \in Nat
        OBVIOUS
      <3>2. n + 1 = (r * ((n + 1) \div r)) + ((n + 1) % r) /\ (n + 1) % r \in Nat
        BY <1>2, <3>1
      <3> QED
        BY <2>1, <2>2, <3>2
    <2>4. j = i + 1
      <3>1. PICK z : z = r * q
        OBVIOUS
      <3>2. z \in Nat
        BY <1>2, <1>8, <3>1, Products
      <3> QED
        BY <1>8, <2>3, <3>1, <3>2
    <2>5. Spent(k, n + 1) = (q * w) + InRound(i + 1, v, t)
      BY <1>6, <1>8, <2>1, <2>2, <2>3, <2>4
    <2> QED
      BY <1>5, <1>10, <1>11, <1>13, <1>14, <1>15, <2>5
  <1>21. ASSUME n < Attempts(k) PROVE Spent(k, n) + Longest(k, n) <= EntryBudget(k)
    <2>1. PICK g : g = scn[k].repeat
      OBVIOUS
    <2>2. g \in Nat /\ n < r * g
      BY <1>1, <1>2, <1>21, <2>1 DEF Attempts
    <2>3. q < g
      <3>1. SUFFICES ASSUME g <= q PROVE FALSE
        BY <1>8, <2>2
      <3>2. g * r <= q * r /\ g * r = r * g /\ g * r \in Nat
        BY <1>2, <1>8, <2>2, <3>1, Products
      <3>3. PICK a, b : a = g * r /\ b = q * r
        OBVIOUS
      <3>4. a <= b /\ a \in Nat /\ b \in Nat /\ n < a /\ n = b + i
        BY <1>9, <2>2, <3>2, <3>3
      <3> QED
        BY <1>8, <3>4
    <2>4. q + 1 \in Nat /\ q + 1 <= g
      BY <1>8, <2>2, <2>3
    <2>5. (q + 1) * w <= g * w /\ g * w = w * g /\ g * w \in Nat
      BY <1>5, <2>2, <2>4, Products
    <2>6. EntryBudget(k) = w * g
      BY <1>5, <2>1 DEF EntryBudget
    <2>7. (q + 1) * w \in Nat
      BY <1>5, <1>15, <1>16
    <2>8. PICK a, b, c : a = (q + 1) * w /\ b = g * w /\ c = Spent(k, n) + Longest(k, n)
      OBVIOUS
    <2>9. a <= b /\ a \in Nat /\ b \in Nat /\ EntryBudget(k) = b /\ c \in Nat /\ c <= a
      BY <1>17, <2>5, <2>6, <2>7, <2>8
    <2> QED
      BY <2>8, <2>9
  <1> QED
    BY <1>17, <1>18, <1>19, <1>20, <1>21

LEMMA SameGrants ==
    ASSUME UNCHANGED <<scn, batch>>
    PROVE  /\ Granted(batch)' = Granted(batch)
           /\ \A e : GrantedBefore(e)' = GrantedBefore(e)
           /\ \A k, n : Spent(k, n)' = Spent(k, n)
  <1>1. \A k : RoundBudget(k)' = RoundBudget(k)
    BY DEF RoundBudget
  <1>2. \A k : EntryBudget(k)' = EntryBudget(k)
    BY <1>1 DEF EntryBudget
  <1>3. Granted(batch)' = Granted(batch)
    BY <1>2 DEF Granted
  <1>4. \A e : GrantedBefore(e)' = GrantedBefore(e)
    BY <1>2, <1>3 DEF GrantedBefore
  <1>5. \A k, n : Spent(k, n)' = Spent(k, n)
    BY <1>1 DEF Spent
  <1> QED
    BY <1>3, <1>4, <1>5

\* A batch's redirects set apart.
LEMMA ApartKept ==
    ASSUME UNCHANGED <<elapsed, followed>>
    PROVE  Apart' = Apart
  BY DEF Apart

LEMMA ApartGrows ==
    ASSUME elapsed \in Nat, followed \in Nat, NEW hops \in Nat, NEW x \in Nat,
           followed' = followed + hops, elapsed' = elapsed + Timeout * (hops + 1) + Delay + x
    PROVE  elapsed' \in Nat /\ followed' \in Nat /\ Apart' = Apart + (Timeout + Delay + x)
  <1>1. Timeout \in Nat /\ Delay \in Nat
    BY BudgetAssumption
  <1>2. PICK t, f, d : t = Timeout /\ f = followed /\ d = Delay
    OBVIOUS
  <1>3. t * (hops + 1) = t * hops + t /\ t * (f + hops) = t * f + t * hops
    BY <1>1, <1>2
  <1>4. t * hops \in Nat /\ t * f \in Nat
    BY <1>1, <1>2
  <1>5. PICK th, tf : th = t * hops /\ tf = t * f
    OBVIOUS
  <1>6. elapsed' = elapsed + (th + t) + d + x
    BY <1>2, <1>3, <1>5
  <1>7. Apart = elapsed - tf /\ Apart' = elapsed' - (tf + th)
    BY <1>2, <1>3, <1>5 DEF Apart
  <1> QED
    BY <1>1, <1>2, <1>4, <1>5, <1>6, <1>7

\* What an attempt does to the clock and to where hurl is.
LEMMA AttemptTimes ==
    ASSUME SessionInv, elapsed \in Nat, followed \in Nat, Attempt, NEW c, c = at
    PROVE  /\ elapsed' \in Nat /\ followed' \in Nat
           /\ Apart' = Apart + Longest(c[1], tries)
           /\ Cursor' = c \/ at' # <<0, 0>>
           /\ \/ at' = c /\ (tries' = NextRound(c[1], tries)
                             \/ (tries' = tries + 1 /\ RoundOf(c[1], tries + 1) = RoundOf(c[1], tries)))
              \/ Rest(c) # {} /\ at' = FirstOf(Rest(c)) /\ tries' = 0
              \/ at' = <<0, 0>>
  <1> DEFINE Used(a) == IF a.errs = {} THEN NextRound(c[1], tries) ELSE tries + 1
             Again(a) == /\ Used(a) < Attempts(c[1])
                         /\ a.errs = {} \/ RoundOf(c[1], Used(a)) = RoundOf(c[1], tries)
             On(a) == a.errs = {} /\ ~Again(a) /\ Rest(c) # {}
  <1>1. PICK a \in AnswersOf(c), hops \in 0..MaxHops :
            /\ followed' = followed + hops
            /\ elapsed' = elapsed + Timeout * (hops + 1) + Delay
                            + (IF tries % (scn[c[1]].retry + 1) = 0 THEN 0 ELSE Interval)
            /\ at' = IF Again(a) THEN c ELSE IF On(a) THEN FirstOf(Rest(c)) ELSE <<0, 0>>
            /\ tries' = IF Again(a) THEN Used(a) ELSE 0
    BY DEF Attempt
  <1>2. elapsed' \in Nat /\ followed' \in Nat /\ Apart' = Apart + Longest(c[1], tries)
    <2>1. PICK x : x = (IF tries % (scn[c[1]].retry + 1) = 0 THEN 0 ELSE Interval)
      OBVIOUS
    <2>2. x \in Nat /\ Timeout \in Nat /\ Delay \in Nat
      BY <2>1, BudgetAssumption
    <2>3. /\ elapsed' = elapsed + Timeout * (hops + 1) + Delay + x
          /\ Longest(c[1], tries) = Timeout + Delay + x
      BY <1>1, <2>1, Zenon DEF Longest
    <2>4. hops \in Nat
      BY BudgetAssumption DEF MaxHops
    <2>5. elapsed' \in Nat /\ followed' \in Nat /\ Apart' = Apart + (Timeout + Delay + x)
      BY <1>1, <2>2, <2>3, <2>4, ApartGrows
    <2> QED
      BY <2>3, <2>5
  <1>3. \/ at' = c /\ (tries' = NextRound(c[1], tries)
                       \/ (tries' = tries + 1 /\ RoundOf(c[1], tries + 1) = RoundOf(c[1], tries)))
        \/ Rest(c) # {} /\ at' = FirstOf(Rest(c)) /\ tries' = 0
        \/ at' = <<0, 0>>
    <2>1. CASE Again(a)
      <3>0. at' = c /\ tries' = Used(a)
        BY <1>1, <2>1, Zenon
      <3>1. CASE a.errs = {}
        BY <3>0, <3>1, Zenon
      <3>2. CASE a.errs # {}
        <4>1. Used(a) = tries + 1
          BY <3>2, Zenon
        <4>2. RoundOf(c[1], Used(a)) = RoundOf(c[1], tries)
          BY <2>1, <3>2, Zenon
        <4> QED
          BY <3>0, <4>1, <4>2, Zenon
      <3> QED
        BY <3>1, <3>2
    <2>2. CASE ~Again(a)
      BY <1>1, <2>2, Zenon
    <2> QED
      BY <2>1, <2>2
  <1>4. Cursor' = c \/ at' # <<0, 0>>
    <2>2. SessionType
      BY DEF SessionInv
    <2>3. PICK X : results \in Seq(X)
      BY <2>2 DEF SessionType
    <2>4. \E r : results' = Append(results, r) /\ r.entry = c
      <3>1. PICK b : AttemptBy(c, b)
        BY <2>2, AttemptIs
      <3> DEFINE r == [entry |-> c, errs |-> b.errs, class |-> b.class, answered |-> b.answered]
      <3>2. results' = Append(results, r) /\ r.entry = c
        BY <3>1 DEF AttemptBy
      <3> QED
        BY <3>2
    <2>5. PICK r : results' = Append(results, r) /\ r.entry = c
      BY <2>4
    <2>6. results'[Len(results')] = r
      BY <2>3, <2>5, ResultsGrow
    <2> QED
      BY <2>5, <2>6 DEF Cursor
  <1> QED
    BY <1>2, <1>3, <1>4

LEMMA AttemptInTime ==
    ASSUME SessionInv, InTime, Attempt
    PROVE  InTime'
  <1>1. PICK c : c = at
    OBVIOUS
  <1>2. /\ elapsed \in Nat /\ followed \in Nat /\ Apart \in Nat
        /\ pc = "call" /\ SessionType
    BY DEF InTime, Attempt, SessionInv
  <1>3. /\ c # <<0, 0>> /\ c \in AllEntries(scn) /\ pc' = "call"
        /\ UNCHANGED <<scn, batch, outcome>>
    BY <1>1, <1>2, AttemptIs
  <1>4. /\ CallGoesOn /\ Sound(scn) /\ Slice(Run) \subseteq AllEntries(scn)
        /\ AllEntries(scn) \subseteq Nat \X Nat
        /\ \A e \in AllEntries(scn) : e \in Slice(Run) <=> e[1] \in Run
        /\ Cursor \in Slice(Run) /\ Cursor[1] \in Run
    BY <1>2, CallSlice
  <1>5. c[1] \in Run /\ tries < Attempts(c[1]) /\ tries \in Nat
    BY <1>1, <1>2, <1>3, <1>4 DEF Cursor, CallGoesOn, SessionType
  <1>6. c[1] \in Steps(scn) /\ scn[c[1]].form # "then" /\ c[1] \in Batch(scn, batch)
    BY <1>3, <1>4, <1>5, EntryFacts, RunMembers DEF Sound
  <1>7. PICK n, g, x, b : n = tries /\ g = GrantedBefore(c) /\ x = Longest(c[1], tries)
                          /\ b = EntryBudget(c[1])
    OBVIOUS
  <1>8. Apart <= g + Spent(c[1], n)
    BY <1>1, <1>2, <1>3, <1>7 DEF InTime
  <1>9. /\ Spent(c[1], n) \in Nat /\ x \in Nat
        /\ RoundOf(c[1], n + 1) = RoundOf(c[1], n) => Spent(c[1], n) + x <= Spent(c[1], n + 1)
        /\ Spent(c[1], n) + x <= Spent(c[1], NextRound(c[1], n))
        /\ Spent(c[1], n) + x <= b
    BY <1>4, <1>5, <1>6, <1>7, TriesAre
  <1>10. /\ g \in Nat /\ b \in Nat
         /\ g + b <= Granted(batch)[c[1]]
         /\ \A f \in AllEntries(scn) : f[1] \in Batch(scn, batch) /\ Before(c, f) =>
                g + b <= GrantedBefore(f)
    BY <1>3, <1>4, <1>6, <1>7, GrantsAdd
  <1>11. PICK u : u = Spent(c[1], n)
    OBVIOUS
  <1>12. /\ elapsed' \in Nat /\ followed' \in Nat /\ Apart' = Apart + x
         /\ Cursor' = c \/ at' # <<0, 0>>
         /\ \/ at' = c /\ (tries' = NextRound(c[1], n)
                           \/ (tries' = n + 1 /\ RoundOf(c[1], n + 1) = RoundOf(c[1], n)))
            \/ Rest(c) # {} /\ at' = FirstOf(Rest(c)) /\ tries' = 0
            \/ at' = <<0, 0>>
    BY <1>1, <1>2, <1>7, AttemptTimes
  <1>13. /\ elapsed' \in Nat /\ followed' \in Nat /\ Apart' \in Nat
         /\ Apart' <= g + (u + x) /\ u \in Nat
    BY <1>2, <1>8, <1>9, <1>10, <1>11, <1>12
  <1>14. /\ Granted(batch)' = Granted(batch)
         /\ \A e : GrantedBefore(e)' = GrantedBefore(e)
         /\ \A k, m : Spent(k, m)' = Spent(k, m)
    BY <1>3, SameGrants
  <1>15. CASE at' = c /\ (tries' = NextRound(c[1], n)
                          \/ (tries' = n + 1 /\ RoundOf(c[1], n + 1) = RoundOf(c[1], n)))
    <2>1. PICK m : m = tries'
      OBVIOUS
    <2>2. u + x <= Spent(c[1], m)
      BY <1>9, <1>11, <1>15, <2>1
    <2>3. m \in Nat
      <3>1. SessionType'
        BY AttemptKeeps DEF SessionInv
      <3> QED
        BY <2>1, <3>1 DEF SessionType
    <2>4. Spent(c[1], m) \in Nat
      BY <1>4, <1>6, <2>3, TriesAre
    <2>5. Apart' <= g + Spent(c[1], m)
      BY <1>9, <1>10, <1>13, <2>2, <2>4
    <2>6. (GrantedBefore(at) + Spent(at[1], tries))' = g + Spent(c[1], m)
      <3>1. (GrantedBefore(at) + Spent(at[1], tries))' = GrantedBefore(c)' + Spent(c[1], m)'
        BY <1>15, <2>1
      <3> QED
        BY <1>7, <1>14, <3>1
    <2> QED
      BY <1>3, <1>13, <1>15, <2>5, <2>6 DEF InTime
  <1>16. CASE Rest(c) # {} /\ at' = FirstOf(Rest(c)) /\ tries' = 0
    <2>1. Rest(c) \subseteq AllEntries(scn) /\ Rest(c) \subseteq Slice(Run) /\ \A f \in Rest(c) : Before(c, f)
      BY <1>4 DEF Rest
    <2>2. PICK f : f = FirstOf(Rest(c))
      OBVIOUS
    <2>3. f \in Rest(c)
      BY <1>4, <1>16, <2>1, <2>2, FirstIs
    <2>4. f \in AllEntries(scn) /\ Before(c, f) /\ f[1] \in Run
      BY <1>4, <2>1, <2>3
    <2>5. f[1] \in Batch(scn, batch) /\ f[1] \in Steps(scn) /\ scn[f[1]].form # "then" /\ f # <<0, 0>>
      BY <1>4, <2>4, EntryFacts, RunMembers DEF Sound
    <2>6. g + b <= GrantedBefore(f) /\ GrantedBefore(f) \in Nat
      BY <1>4, <1>10, <2>4, <2>5, GrantsAdd
    <2>7. Spent(f[1], 0) = 0
      BY <1>4, <2>5, TriesAre
    <2>8. (GrantedBefore(at) + Spent(at[1], tries))' = GrantedBefore(f) + Spent(f[1], 0)
      <3>1. (GrantedBefore(at) + Spent(at[1], tries))' = GrantedBefore(f)' + Spent(f[1], 0)'
        BY <1>16, <2>2
      <3> QED
        BY <1>14, <3>1
    <2>9. Apart' <= GrantedBefore(f) + Spent(f[1], 0)
      BY <1>9, <1>10, <1>11, <1>13, <2>6, <2>7
    <2> QED
      BY <1>3, <1>13, <1>16, <2>2, <2>5, <2>8, <2>9 DEF InTime
  <1>17. CASE at' = <<0, 0>>
    <2>1. Cursor' = c
      BY <1>12, <1>17
    <2>2. (Granted(batch)[Cursor[1]])' = Granted(batch)[c[1]]
      BY <1>14, <2>1
    <2>3. Granted(batch)[c[1]] \in Nat
      <3>1. c[1] \in 0..Len(scn)
        BY <1>4, <1>6, StepFacts DEF Sound
      <3> QED
        BY <1>4, <3>1, GrantedIs
    <2>4. Apart' <= Granted(batch)[c[1]]
      BY <1>9, <1>10, <1>11, <1>13, <2>3
    <2> QED
      BY <1>3, <1>13, <1>17, <2>2, <2>4 DEF InTime
  <1> QED
    BY <1>12, <1>15, <1>16, <1>17

LEMMA SkipInTime ==
    ASSUME SessionInv, InTime, SkipRun
    PROVE  InTime'
  <1>1. /\ elapsed \in Nat /\ followed \in Nat /\ Apart \in Nat /\ Apart' = Apart
        /\ pc = "run" /\ pc' = "run" /\ Sound(scn)
        /\ UNCHANGED <<scn, batch, elapsed, followed>>
        /\ outcome' = [k \in Steps(scn) |-> IF k \in Run THEN "skipped" ELSE outcome[k]]
    BY ApartKept DEF InTime, SkipRun, SessionInv, SessionType, Sound
  <1>2. PICK n \in 0..Len(scn) : /\ Apart <= Granted(batch)[n]
                                 /\ \A k \in Waiting(batch) : HasEntries(k) => n < k
    BY <1>1 DEF InTime
  <1>3. /\ Plan(batch)' = Plan(batch) /\ \A k : HasEntries(k)' <=> HasEntries(k)
    BY <1>1, SameScenario
  <1>4. Granted(batch)' = Granted(batch)
    BY <1>1, SameGrants
  <1>5. ASSUME NEW k \in Waiting(batch)' PROVE k \in Waiting(batch)
    <2>1. k \in Plan(batch) /\ outcome'[k] = "none" /\ k \in Steps(scn)
      BY <1>1, <1>3 DEF Waiting, Plan, Batch
    <2> QED
      BY <1>1, <2>1 DEF Waiting
  <1>6. \A k \in Waiting(batch)' : HasEntries(k)' => n < k
    BY <1>2, <1>3, <1>5
  <1>7. Apart' <= Granted(batch)'[n] /\ n \in 0..Len(scn')
    BY <1>1, <1>2, <1>4
  <1> QED
    BY <1>1, <1>6, <1>7 DEF InTime

LEMMA StartInTime ==
    ASSUME SessionInv, InTime, StartCall
    PROVE  InTime'
  <1>1. /\ elapsed \in Nat /\ followed \in Nat /\ Apart \in Nat /\ Apart' = Apart
        /\ pc = "run" /\ pc' = "call" /\ Sound(scn) /\ InOrder /\ Inside
        /\ Waiting(batch) # {} /\ \E k \in Run : HasEntries(k)
        /\ at' = FirstOf(Slice(Run)) /\ tries' = 0
        /\ UNCHANGED <<scn, batch, elapsed, followed>>
    BY ApartKept DEF InTime, StartCall, SessionInv, SessionType, Sound, Inside
  <1>2. PICK n \in 0..Len(scn) : /\ Apart <= Granted(batch)[n]
                                 /\ \A k \in Waiting(batch) : HasEntries(k) => n < k
    BY <1>1 DEF InTime
  <1>3. PICK c : c = FirstOf(Slice(Run))
    OBVIOUS
  <1>4. c \in Slice(Run) /\ c \in AllEntries(scn) /\ c[1] \in Run
    <2>1. /\ Slice(Run) \subseteq AllEntries(scn) /\ Slice(Run) # {}
          /\ \A e \in AllEntries(scn) : e \in Slice(Run) <=> e[1] \in Run
      BY <1>1, SliceIs
    <2>2. AllEntries(scn) \subseteq Nat \X Nat
      BY <1>1, EntryFacts DEF Sound
    <2>3. c \in Slice(Run)
      BY <1>3, <2>1, <2>2, FirstIs
    <2> QED
      BY <2>1, <2>3
  <1>5. PICK k : k = c[1]
    OBVIOUS
  <1>6. /\ k \in Steps(scn) /\ scn[k].form # "then" /\ c # <<0, 0>>
        /\ k \in Batch(scn, batch) /\ k \in Waiting(batch)
    BY <1>1, <1>4, <1>5, EntryFacts, RunMembers DEF Sound
  <1>7. HasEntries(k)
    BY <1>1, <1>6, StepFacts DEF HasEntries, Sound
  <1>8. n < k
    BY <1>2, <1>6, <1>7
  <1>9. n <= k - 1 /\ k - 1 \in 0..Len(scn)
    <2>1. k \in Nat /\ k >= 1 /\ k <= Len(scn) /\ Len(scn) \in Nat
      BY <1>1, <1>6, StepFacts DEF Sound
    <2> QED
      BY <1>2, <1>8, <2>1
  <1>10. Granted(batch)[n] <= Granted(batch)[k - 1]
    BY <1>1, <1>2, <1>9, GrantedGrows
  <1>11. Granted(batch)[k - 1] <= GrantedBefore(c) /\ GrantedBefore(c) \in Nat
    BY <1>1, <1>4, <1>5, <1>6, GrantsAdd
  <1>12. Granted(batch)[n] \in Nat /\ Granted(batch)[k - 1] \in Nat
    BY <1>1, <1>2, <1>9, GrantedIs
  <1>13. Spent(k, 0) = 0
    BY <1>1, <1>6, TriesAre
  <1>14. Apart <= GrantedBefore(c) + Spent(k, 0)
    BY <1>1, <1>2, <1>10, <1>11, <1>12, <1>13
  <1>15. (GrantedBefore(at) + Spent(at[1], tries))' = GrantedBefore(c) + Spent(k, 0)
    <2>1. (GrantedBefore(at) + Spent(at[1], tries))' = GrantedBefore(c)' + Spent(k, 0)'
      BY <1>1, <1>3, <1>5
    <2> QED
      BY <1>1, <2>1, SameGrants
  <1> QED
    BY <1>1, <1>3, <1>6, <1>14, <1>15 DEF InTime

LEMMA EndCallInTime ==
    ASSUME SessionInv, InTime, EndCall
    PROVE  InTime'
  <1>1. /\ elapsed \in Nat /\ followed \in Nat /\ Apart \in Nat /\ Apart' = Apart
        /\ pc = "call" /\ pc' = "run" /\ at = <<0, 0>>
        /\ UNCHANGED <<scn, batch, elapsed, followed>>
    BY ApartKept DEF InTime, EndCall
  <1>2. PICK n : n = Cursor[1]
    OBVIOUS
  <1>3. Apart <= Granted(batch)[n]
    BY <1>1, <1>2 DEF InTime
  <1>4. Sound(scn) /\ n \in Run
    BY <1>1, <1>2, CallSlice
  <1>5. n \in Steps(scn) /\ n \in Waiting(batch) /\ n \in 0..Len(scn) /\ n \in Plan(batch)
    <2>1. n \in Steps(scn) /\ n \in Waiting(batch) /\ n \in Plan(batch)
      BY <1>4, RunMembers
    <2> QED
      BY <1>4, <2>1, StepFacts DEF Sound
  <1>6. PICK tainted :
            outcome' = [k \in Steps(scn) |-> IF k \in Run THEN Verdict(Run, k, tainted) ELSE outcome[k]]
    BY DEF EndCall
  <1>7. \A k \in Run : Verdict(Run, k, tainted) # "none"
    BY <1>1, CallVerdict
  <1>8. /\ Plan(batch)' = Plan(batch) /\ \A k : HasEntries(k)' <=> HasEntries(k)
    BY <1>1, SameScenario
  <1>9. ASSUME NEW k \in Waiting(batch)' PROVE n < k
    <2>1. k \in Plan(batch) /\ outcome'[k] = "none" /\ k \in Steps(scn)
      BY <1>1, <1>8 DEF Waiting, Plan, Batch
    <2>2. k \notin Run /\ outcome[k] = "none"
      BY <1>6, <1>7, <2>1
    <2>3. k \in Waiting(batch)
      BY <2>1, <2>2 DEF Waiting
    <2>4. ~(RunOf(batch, k) <= RunOf(batch, n))
      BY <1>4, <1>5, <2>2, <2>3, RunIs
    <2>5. ~(k <= n)
      BY <1>4, <1>5, <2>1, <2>4, RunFacts
    <2>6. k \in Nat /\ n \in Nat
      BY <1>4, <1>5, <2>1, StepFacts DEF Sound
    <2> QED
      BY <2>5, <2>6
  <1>10. Apart' <= Granted(batch)'[n] /\ n \in 0..Len(scn')
    BY <1>1, <1>3, <1>5, SameGrants
  <1> QED
    BY <1>1, <1>9, <1>10 DEF InTime

LEMMA BudgetStays == SessionInv /\ InTime /\ [Next]_svars => InTime'
  <1> SUFFICES ASSUME SessionInv, InTime, [Next]_svars PROVE InTime'
    OBVIOUS
  <1>1. CASE SkipRun
    BY <1>1, SkipInTime
  <1>2. CASE StartCall
    BY <1>2, StartInTime
  <1>3. CASE Attempt
    BY <1>3, AttemptInTime
  <1>4. CASE EndCall
    BY <1>4, EndCallInTime
  <1>5. CASE StopScenario \/ EndBatch
    BY <1>5, ApartKept DEF StopScenario, EndBatch, InTime
  <1>6. CASE BeginBatch
    <2>1. /\ elapsed' = 0 /\ followed' = 0 /\ Apart' = 0
          /\ pc' = "run" /\ UNCHANGED <<scn, batch>> /\ Sound(scn)
      BY <1>6, BudgetAssumption DEF BeginBatch, SessionInv, SessionType, Sound, Apart
    <2>2. Granted(batch)'[0] = 0
      BY <2>1, GrantedIs, SameGrants
    <2>3. 0 \in 0..Len(scn)' /\ \A k \in Waiting(batch)' : 0 < k
      <3>1. Len(scn) \in Nat /\ \A k \in Steps(scn) : 0 < k
        BY <2>1, StepFacts DEF Sound
      <3>2. Waiting(batch)' \subseteq Steps(scn)
        BY <2>1 DEF Waiting, Plan, Batch
      <3> QED
        BY <2>1, <3>1, <3>2
    <2>4. Apart' <= Granted(batch)'[0]
      BY <2>1, <2>2
    <2> QED
      BY <2>1, <2>3, <2>4 DEF InTime
  <1>7. CASE Cancel \/ Done \/ UNCHANGED svars
    <2>1. UNCHANGED <<scn, batch, pc, at, tries, results, outcome, elapsed, followed>> /\ Apart' = Apart
      BY <1>7, ApartKept DEF Cancel, Done, svars
    <2>2. Waiting(batch)' = Waiting(batch) /\ \A k : HasEntries(k)' <=> HasEntries(k)
      BY <2>1, SameRun, SameScenario
    <2>3. /\ Granted(batch)' = Granted(batch)
          /\ \A e : GrantedBefore(e)' = GrantedBefore(e)
          /\ \A k, n : Spent(k, n)' = Spent(k, n)
      BY <2>1, SameGrants
    <2>4. Cursor' = Cursor
      BY <2>1 DEF Cursor
    <2>5. elapsed' \in Nat /\ followed' \in Nat /\ Apart' \in Nat
      BY <2>1 DEF InTime
    <2>6. (pc = "run" => \E n \in 0..Len(scn) :
             /\ Apart <= Granted(batch)[n]
             /\ \A k \in Waiting(batch) : HasEntries(k) => n < k)'
      BY <2>1, <2>2, <2>3 DEF InTime
    <2>7. (pc = "call" => Apart <= IF at # <<0, 0>> THEN GrantedBefore(at) + Spent(at[1], tries)
                                     ELSE Granted(batch)[Cursor[1]])'
      <3>1. GrantedBefore(at)' = GrantedBefore(at) /\ Spent(at[1], tries)' = Spent(at[1], tries)
        BY <2>1, <2>3
      <3> QED
        BY <2>1, <2>3, <2>4, <3>1 DEF InTime
    <2> QED
      BY <2>5, <2>6, <2>7 DEF InTime
  <1> QED
    BY <1>1, <1>2, <1>3, <1>4, <1>5, <1>6, <1>7 DEF Next

(***************************************************************************)
(* The budget covers the longest that hurl may take for a batch, whatever   *)
(* its retries, repeats and delays, and however it is cut into calls, but   *)
(* for a timeout for each redirect that was followed: the watchdog abandons *)
(* no batch that does as it was authored and is not redirected              *)
(* (engine-hurl/session.rs, batch_budget).                                  *)
(***************************************************************************)
THEOREM BudgetSufficesHolds == Spec => []BudgetSuffices
  <1>1. Init => InTime
    BY BudgetAssumption DEF Init, InTime, Apart
  <1>2. SessionInv /\ InTime => BudgetSuffices
    <2> SUFFICES ASSUME SessionInv, InTime, pc \in {"run", "call"}, BatchBudget(batch) < MaxBudget
                 PROVE  elapsed + Margin <= BatchBudget(batch) + Timeout * followed
      BY DEF BudgetSuffices
    <2>1. Sound(scn)
      BY DEF SessionInv, SessionType, Sound
    <2>2. PICK G, m : G = Granted(batch) /\ m = Len(scn)
      OBVIOUS
    <2>3. m \in Nat /\ Steps(scn) = 1..m /\ m \in 0..m
      BY <2>1, <2>2, StepFacts DEF Sound
    <2>4. \A n \in 0..m : G[n] \in Nat /\ G[n] <= G[m]
      BY <2>1, <2>2, <2>3, GrantedIs, GrantedGrows
    <2>5. \E n \in 0..m : Apart <= G[n]
      <3>1. CASE pc = "run"
        BY <2>2, <3>1 DEF InTime
      <3>2. CASE pc = "call" /\ at = <<0, 0>>
        <4>1. Cursor[1] \in Run /\ Apart <= G[Cursor[1]]
          BY <2>2, <3>2, CallSlice DEF InTime
        <4>2. Cursor[1] \in 0..m
          BY <2>1, <2>3, <4>1, RunMembers
        <4> QED
          BY <4>1, <4>2
      <3>3. CASE pc = "call" /\ at # <<0, 0>>
        <4>1. PICK c : c = at
          OBVIOUS
        <4>2. /\ c \in AllEntries(scn) /\ c[1] \in Run /\ tries < Attempts(c[1]) /\ tries \in Nat
              /\ Apart <= GrantedBefore(c) + Spent(c[1], tries)
          <5>1. SessionType /\ CallGoesOn
            BY <3>3 DEF SessionInv
          <5> QED
            BY <3>3, <4>1, <5>1, CallSlice DEF Cursor, CallGoesOn, SessionType, InTime
        <4>3. c[1] \in Steps(scn) /\ scn[c[1]].form # "then" /\ c[1] \in Batch(scn, batch)
          BY <2>1, <4>2, EntryFacts, RunMembers DEF Sound
        <4>4. PICK u, x, g, b : /\ u = Spent(c[1], tries) /\ x = Longest(c[1], tries)
                                /\ g = GrantedBefore(c) /\ b = EntryBudget(c[1])
          OBVIOUS
        <4>5. u \in Nat /\ x \in Nat /\ u + x <= b
          BY <2>1, <4>2, <4>3, <4>4, TriesAre
        <4>6. g \in Nat /\ b \in Nat /\ g + b <= G[c[1]]
          BY <2>1, <2>2, <4>2, <4>3, <4>4, GrantsAdd
        <4>7. c[1] \in 0..m
          BY <2>3, <4>3
        <4>8. Apart <= G[c[1]]
          <5>1. G[c[1]] \in Nat /\ Apart \in Nat
            BY <2>4, <4>7 DEF InTime
          <5> QED
            BY <4>2, <4>4, <4>5, <4>6, <5>1
        <4> QED
          BY <4>7, <4>8
      <3> QED
        BY <3>1, <3>2, <3>3
    <2>6. Apart <= G[m] /\ G[m] \in Nat /\ Apart \in Nat /\ Margin \in Nat /\ MaxBudget \in Nat
      <3>1. Apart \in Nat /\ Margin \in Nat /\ MaxBudget \in Nat
        BY BudgetAssumption DEF InTime
      <3>2. PICK n \in 0..m : Apart <= G[n]
        BY <2>5
      <3>3. G[n] \in Nat /\ G[n] <= G[m] /\ G[m] \in Nat
        BY <2>3, <2>4
      <3> QED
        BY <3>1, <3>2, <3>3
    <2> DEFINE S == {G[m] + Margin, MaxBudget}
    <2>7. Min(S) \in S
      <3>1. S \subseteq Nat /\ S # {}
        BY <2>6
      <3> HIDE DEF S
      <3> QED
        BY <3>1, MinIs
    <2>8. BatchBudget(batch) = G[m] + Margin
      <3>1. BatchBudget(batch) = Min(S)
        BY <2>2 DEF BatchBudget
      <3>2. Min(S) = G[m] + Margin \/ Min(S) = MaxBudget
        BY <2>7
      <3> QED
        BY <2>6, <3>1, <3>2
    <2>9. Apart + Margin <= BatchBudget(batch) /\ BatchBudget(batch) \in Nat
      BY <2>6, <2>8
    <2>10. PICK t : t = Timeout * followed
      OBVIOUS
    <2>11. t \in Nat /\ elapsed \in Nat /\ Apart = elapsed - t
      <3>1. elapsed \in Nat /\ followed \in Nat /\ Timeout \in Nat
        BY BudgetAssumption DEF InTime
      <3>2. Apart = elapsed - t
        BY <2>10 DEF Apart
      <3> QED
        BY <2>10, <3>1, <3>2
    <2>12. elapsed + Margin <= BatchBudget(batch) + t
      BY <2>6, <2>9, <2>11
    <2> QED
      BY <2>10, <2>12
  <1>3. Spec => []InTime
    BY <1>1, BudgetStays, SessionAlways, PTL DEF Spec
  <1> QED
    BY <1>2, <1>3, SessionAlways, PTL

=============================================================================
