------------------------------ MODULE UseGraph ------------------------------
(***************************************************************************)
(* The pass over the `use:` graph of the loaded packs                       *)
(* (core/pack/validate.rs, use_graph_passes): a depth-first search with an  *)
(* explicit work stack that colours macros, memoizes the longest chain      *)
(* below each of them, and reports the cycles.  Expansion (core/lower.rs)   *)
(* then recurses through `use:` and trusts that the pass kept it finite.    *)
(***************************************************************************)
EXTENDS Naturals, Sequences, FiniteSets

CONSTANTS
    Macros,        \* names; their order is the order of names
    MaxUse         \* MAX_USE_DEPTH

ASSUME MacrosAssumption == Macros \subseteq Nat /\ IsFiniteSet(Macros)
ASSUME MaxUseAssumption == MaxUse \in Nat \ {0}

VARIABLES
    uses,       \* macro -> its resolvable `use:` targets, in step order
    colors,     \* "none", "gray" on the path, "black" when its chain is known
    chains,     \* macro -> length of the longest chain that starts there, 0 unknown
    work,       \* the stack of frames; its end is its top
    path,       \* the gray macros
    left,       \* targets of the top of the path still to look at
    rings       \* the cycles that were reported

gvars == <<uses, colors, chains, work, path, left, rings>>

Graphs == [Macros -> Seq(Macros)]
Frames == {"enter", "exit"} \X Macros

Targets(m) == {uses[m][i] : i \in DOMAIN uses[m]}
Top(s) == s[Len(s)]
Pop(s) == SubSeq(s, 1, Len(s) - 1)

InitGraph(graph) ==
    /\ uses = graph
    /\ colors = [m \in Macros |-> "none"]
    /\ chains = [m \in Macros |-> 0]
    /\ work = <<>> /\ path = <<>> /\ left = 0
    /\ rings = {}

\* The next root: macros are visited in the order of their names, and a
\* coloured one is passed over.
Uncoloured == {m \in Macros : colors[m] = "none"}

Searched == work = <<>> /\ Uncoloured = {}

Root ==
    /\ work = <<>>
    /\ \E m \in Uncoloured :
        /\ \A n \in Uncoloured : m <= n
        /\ work' = <<<<"enter", m>>>>
    /\ path' = <<>>
    /\ UNCHANGED <<uses, colors, chains, left, rings>>

\* "finished via an earlier multi-edge"
EnterAgain ==
    /\ left = 0 /\ work # <<>>
    /\ Top(work)[1] = "enter" /\ colors[Top(work)[2]] # "none"
    /\ work' = Pop(work)
    /\ UNCHANGED <<uses, colors, chains, path, left, rings>>

Enter ==
    /\ left = 0 /\ work # <<>>
    /\ Top(work)[1] = "enter" /\ colors[Top(work)[2]] = "none"
    /\ LET m == Top(work)[2]
       IN  /\ colors' = [colors EXCEPT ![m] = "gray"]
           /\ path' = Append(path, m)
           /\ work' = Append(Pop(work), <<"exit", m>>)
           /\ left' = Len(uses[m])
    /\ UNCHANGED <<uses, chains, rings>>

\* report_use_cycle: the part of the path from the target on, a ring.
RingFrom(n) ==
    LET pos == CHOOSE i \in DOMAIN path : path[i] = n
    IN  {path[i] : i \in pos..Len(path)}

\* The targets of the macro just entered, last one first.
\* A bug: a target that is on the path is taken for one that is finished.
LookAway ==
    /\ left > 0
    /\ LET n == uses[Top(path)][left]
       IN  work' = IF colors[n] = "none" THEN Append(work, <<"enter", n>>) ELSE work
    /\ left' = left - 1
    /\ UNCHANGED <<uses, colors, chains, path, rings>>

Look ==
    /\ left > 0
    /\ LET n == uses[Top(path)][left]
       IN  /\ rings' = IF colors[n] = "gray" THEN rings \cup {RingFrom(n)} ELSE rings
           /\ work' = IF colors[n] = "none" THEN Append(work, <<"enter", n>>) ELSE work
    /\ left' = left - 1
    /\ UNCHANGED <<uses, colors, chains, path>>

\* The longest chain below a macro, 0 where there is none.
Longest(m, c) ==
    /\ c \in {0} \cup {chains[n] : n \in Targets(m)}
    /\ \A n \in Targets(m) : chains[n] <= c

Exit ==
    /\ left = 0 /\ work # <<>> /\ Top(work)[1] = "exit"
    /\ \E c \in {0} \cup {chains[n] : n \in Targets(Top(work)[2])} :
        /\ Longest(Top(work)[2], c)
        /\ chains' = [chains EXCEPT ![Top(work)[2]] = 1 + c]
    /\ colors' = [colors EXCEPT ![Top(work)[2]] = "black"]
    /\ path' = Pop(path)
    /\ work' = Pop(work)
    /\ UNCHANGED <<uses, left, rings>>

Search == Root \/ EnterAgain \/ Enter \/ Look \/ Exit

\* What the load refuses.
TooDeep == {m \in Macros : chains[m] > MaxUse}
Refused == rings # {} \/ TooDeep # {}

GraphSpec == (\E graph \in Graphs : InitGraph(graph)) /\ [][Search]_gvars

-----------------------------------------------------------------------------

GraphTypeOK ==
    /\ uses \in Graphs
    /\ colors \in [Macros -> {"none", "gray", "black"}]
    /\ chains \in [Macros -> Nat]
    /\ work \in Seq(Frames) /\ path \in Seq(Macros)
    /\ left \in Nat
    /\ rings \subseteq SUBSET Macros

(***************************************************************************)
(* A graph in which no cycle is reported is ranked by its chains: whatever  *)
(* a macro uses has a smaller one, and a chain is as long as it is said to  *)
(* be.  So expansion, which recurses through `use:`, ends within the chain  *)
(* of the macro it begins with, and a chain is refused as too deep only     *)
(* when it is.                                                              *)
(***************************************************************************)
Ranked ==
    \A m \in Macros :
        /\ \A n \in Targets(m) : 0 < chains[n] /\ chains[n] < chains[m]
        /\ chains[m] = 1 \/ \E n \in Targets(m) : chains[m] = chains[n] + 1

RankedWhenClean == Searched /\ rings = {} => Ranked

(***************************************************************************)
(* A cycle that is reported is one: every macro of it uses another of it.   *)
(***************************************************************************)
CyclesReal == \A ring \in rings : ring # {} /\ \A m \in ring : Targets(m) \cap ring # {}

=============================================================================
