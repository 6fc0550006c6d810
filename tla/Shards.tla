------------------------------- MODULE Shards -------------------------------
(***************************************************************************)
(* --shard I/N with --shard-weights (cli/timings.rs, assign; cli/exec.rs,   *)
(* the selection of execute): every job of a matrix deals the weights file  *)
(* to the same shards, heaviest scenario first, and runs what falls to its  *)
(* own; a scenario that the file does not mention goes by the hash of its   *)
(* identity.  Identities are numbers, in their order.  Loads are unbounded  *)
(* here and saturate at 2^64 - 1 ms in the code.                            *)
(***************************************************************************)
EXTENDS Integers, FiniteSets

CONSTANTS
    N,              \* the count of --shard
    Tables,         \* weights files: functions from identities to ms
    Suites          \* the selections to share out: sets of identities

ASSUME ShardsAssumption ==
    /\ N \in Nat \ {0}
    /\ \A w \in Tables :
          IsFiniteSet(DOMAIN w) /\ DOMAIN w \subseteq Nat /\ w \in [DOMAIN w -> Nat]

VARIABLES
    weights,    \* the file
    placed,     \* the scenarios dealt so far, and their shard
    load,       \* per shard: the ms
    taken       \* per shard: the scenarios

svars == <<weights, placed, load, taken>>

Buckets == 0..(N - 1)

\* The order of the deal.
\* A bug: the sort is lost, and the file is dealt in the order of its rows.
EarlierByIdentity(a, b) == a < b

Earlier(a, b) == weights[a] > weights[b] \/ (weights[a] = weights[b] /\ a < b)

\* Lightest shard, then fewest scenarios, then lowest index.
Before(i, j) ==
    \/ load[i] < load[j]
    \/ load[i] = load[j] /\ taken[i] < taken[j]
    \/ load[i] = load[j] /\ taken[i] = taken[j] /\ i <= j

DealInit ==
    /\ weights \in Tables
    /\ placed = <<>>
    /\ load = [i \in Buckets |-> 0]
    /\ taken = [i \in Buckets |-> 0]

Deal(s, i) ==
    /\ s \in DOMAIN weights \ DOMAIN placed
    /\ \A other \in DOMAIN weights \ (DOMAIN placed \cup {s}) : Earlier(s, other)
    /\ \A j \in Buckets : Before(i, j)
    /\ placed' = [x \in DOMAIN placed \cup {s} |-> IF x = s THEN i ELSE placed[x]]
    /\ load' = [load EXCEPT ![i] = @ + weights[s]]
    /\ taken' = [taken EXCEPT ![i] = @ + 1]
    /\ UNCHANGED weights

DealStep == \E s \in DOMAIN weights, i \in Buckets : Deal(s, i)

DealSpec == DealInit /\ [][DealStep]_svars

-----------------------------------------------------------------------------
Dealt == DOMAIN placed = DOMAIN weights

\* What a job runs of its selection, given the frozen hash (shard_bucket).
Mine(suite, hash, i) ==
    {s \in suite : i = IF s \in DOMAIN placed THEN placed[s] ELSE hash[s]}

Weigh(deal, i) ==
    LET sum[S \in SUBSET DOMAIN weights] ==
            IF S = {} THEN 0
            ELSE LET s == CHOOSE x \in S : TRUE IN weights[s] + sum[S \ {s}]
    IN  sum[{s \in DOMAIN deal : deal[s] = i}]

Longest(deal) == CHOOSE ms \in {Weigh(deal, i) : i \in Buckets} :
                    \A i \in Buckets : Weigh(deal, i) <= ms

\* No step leaves a shard further ahead of another one than one scenario.
Level(most) == \A i, j \in Buckets : load[i] <= load[j] + most
LevelInv == \A s \in DOMAIN weights : (\A x \in DOMAIN weights : weights[x] <= weights[s]) => Level(weights[s])

\* The books are those of the deal.
BooksTrue ==
    \A i \in Buckets :
        load[i] = Weigh(placed, i) /\ taken[i] = Cardinality({s \in DOMAIN placed : placed[s] = i})

\* Equal cost, equal share, zero included.
EqualShare ==
    (\A s, x \in DOMAIN weights : weights[s] = weights[x])
        => \A i, j \in Buckets : taken[i] <= taken[j] + 1

\* The longest shard is within 4/3 - 1/3N of the best split there is.
NearBest ==
    Dealt => \A best \in [DOMAIN weights -> Buckets] :
                3 * N * Longest(placed) <= (4 * N - 1) * Longest(best)

\* The jobs of a matrix share out every selection, whatever the hash does.
SharedOut ==
    Dealt => \A suite \in Suites : \A hash \in [suite -> Buckets] :
        /\ UNION {Mine(suite, hash, i) : i \in Buckets} = suite
        /\ \A i, j \in Buckets : i # j => Mine(suite, hash, i) \cap Mine(suite, hash, j) = {}

(***************************************************************************)
(* ShardsEven: the split that --shard-weights makes (timings.rs, assign) is *)
(* one, level at every step of the deal, fair when the weights say nothing, *)
(* and as near to the best split as its comment says.                       *)
(***************************************************************************)
ShardsEven == LevelInv /\ BooksTrue /\ EqualShare /\ NearBest /\ SharedOut

=============================================================================
