--------------------------- MODULE ReportsProofs ----------------------------
(***************************************************************************)
(* What runs leave behind: the state file of several processes, the matrix  *)
(* and the readers of its project, the trends of the runs kept and the      *)
(* asset roots of the scenarios.                                            *)
(***************************************************************************)
EXTENDS Trends, Commands, World, Staging, FiniteSetTheorems, WellFoundedInduction, TLAPS

-----------------------------------------------------------------------------
(***************************************************************************)
(* The state file is sound and clean, for any number of processes, any      *)
(* secrets and any answers.                                                 *)
(***************************************************************************)

(***************************************************************************)
(* Facts about stores put over one another.                                 *)
(***************************************************************************)
IsStore(f) == f = [x \in DOMAIN f |-> f[x]]

LEMMA OverIsStore ==
    ASSUME NEW f, NEW g
    PROVE  IsStore(Over(f, g))
  BY DEF Over, IsStore

\* What a scenario promotes goes over what the run has promoted, and both over
\* what it had loaded.
LEMMA OverAssoc ==
    ASSUME NEW f, NEW g, NEW h
    PROVE  Over(f, Over(g, h)) = Over(Over(f, g), h)
  BY DEF Over

\* Nothing put over a store is that store.
LEMMA NothingOver ==
    ASSUME NEW g, IsStore(g)
    PROVE  Over(<<>>, g) = g
  <1>1. DOMAIN <<>> = {}
    OBVIOUS
  <1>2. Over(<<>>, g) = [x \in DOMAIN g |-> g[x]]
    BY <1>1 DEF Over
  <1> QED
    BY <1>2 DEF IsStore

-----------------------------------------------------------------------------
(***************************************************************************)
(* The invariant.  A run's store is what it has loaded under what its       *)
(* scenarios have promoted; its temporary file, once it is written, holds   *)
(* that store; the author of the state file does nothing any more; and no   *)
(* store, nor what a scenario sees of one, has a secret in it.              *)
(***************************************************************************)
Shape(r) ==
    /\ r = [at |-> r.at, base |-> r.base, store |-> r.store, promotions |-> r.promotions,
            world |-> r.world, left |-> r.left, detail |-> r.detail]
    /\ r.world = [scope |-> r.world.scope, global |-> r.world.global, promoted |-> r.world.promoted]

ShapeInv == DOMAIN runs = Procs /\ \A p \in Procs : Shape(runs[p])

FileInv == ~ stateFile.torn /\ IsStore(stateFile.values) /\ author \subseteq Procs

RunInv(p) ==
    /\ runs[p].at # "refused"
    /\ runs[p].at = "begun" => runs[p].promotions = <<>>
    /\ runs[p].at \in {"between", "scenario", "writing", "renaming", "over"}
         => runs[p].store = Over(runs[p].promotions, runs[p].base)
    /\ runs[p].at = "renaming" => p \in DOMAIN scratch /\ scratch[p] = Whole(runs[p].store)
    /\ p \in author => runs[p].at = "over" /\ stateFile = Whole(runs[p].store)

CleanRun(p) ==
    /\ CleanStore(runs[p].store)
    /\ CleanStore(runs[p].world.global)
    /\ runs[p].world.promoted \subseteq DOMAIN runs[p].world.global

WorldInv ==
    /\ ShapeInv /\ FileInv /\ StoresClean
    /\ \A p \in Procs : RunInv(p) /\ CleanRun(p)

LEMMA InvImpliesSound == WorldInv => StateSound
  BY DEF WorldInv, FileInv, RunInv, StateSound

LEMMA InitInv == WorldInit => WorldInv
  <1> SUFFICES ASSUME WorldInit PROVE WorldInv
    OBVIOUS
  <1> USE DEF WorldInit
  <1>1. ShapeInv
    BY DEF ShapeInv, Shape, NewRun, NoScenario
  <1>2. FileInv
    BY DEF FileInv, Missing, IsStore
  <1>3. \A p \in Procs : RunInv(p)
    BY DEF RunInv, NewRun
  <1>4. StoresClean
    BY DEF StoresClean, CleanStore, Missing
  <1>5. \A p \in Procs : CleanRun(p)
    BY DEF CleanRun, CleanStore, NewRun, NoScenario
  <1> QED
    BY <1>1, <1>2, <1>3, <1>4, <1>5 DEF WorldInv

-----------------------------------------------------------------------------
\* What a step of one process does not touch.
OneMoves(p) ==
    /\ DOMAIN runs' = Procs /\ Shape(runs[p])' 
    /\ \A q \in Procs \ {p} : runs'[q] = runs[q]

\* A step that leaves the files alone.
LEMMA RunsOnly ==
    ASSUME WorldInv, NEW p \in Procs, OneMoves(p),
           UNCHANGED <<stateFile, scratch, author>>, RunInv(p)', CleanRun(p)'
    PROVE  WorldInv'
  <1>1. ShapeInv'
    BY DEF WorldInv, ShapeInv, OneMoves
  <1>2. FileInv' /\ StoresClean'
    BY DEF WorldInv, FileInv, StoresClean
  <1>3. \A q \in Procs \ {p} : RunInv(q)' /\ CleanRun(q)'
    BY DEF WorldInv, RunInv, CleanRun, OneMoves
  <1> QED
    BY <1>1, <1>2, <1>3 DEF WorldInv

\* A step that leaves all but one temporary file alone.
LEMMA ScratchOnly ==
    ASSUME WorldInv, NEW p \in Procs, OneMoves(p), NEW file,
           UNCHANGED <<stateFile, author>>, scratch' = Put(scratch, p, file),
           CleanStore(file.values), RunInv(p)', CleanRun(p)'
    PROVE  WorldInv'
  <1>1. ShapeInv'
    BY DEF WorldInv, ShapeInv, OneMoves
  <1>2. /\ DOMAIN scratch' = DOMAIN scratch \cup {p}
        /\ scratch'[p] = file
        /\ \A q \in DOMAIN scratch \ {p} : scratch'[q] = scratch[q]
    BY DEF Put
  <1>3. FileInv'
    BY DEF WorldInv, FileInv
  <1>4. StoresClean'
    BY <1>2 DEF WorldInv, StoresClean
  <1>5. \A q \in Procs \ {p} : RunInv(q)' /\ CleanRun(q)'
    BY <1>2 DEF WorldInv, RunInv, CleanRun, OneMoves
  <1> QED
    BY <1>1, <1>3, <1>4, <1>5 DEF WorldInv

-----------------------------------------------------------------------------
LEMMA OverClean ==
    ASSUME NEW f, NEW g, CleanStore(f), CleanStore(g)
    PROVE  CleanStore(Over(f, g))
  BY DEF CleanStore, Over

LEMMA RunFacts ==
    ASSUME WorldInv, NEW p \in Procs
    PROVE  DOMAIN runs = Procs /\ Shape(runs[p]) /\ RunInv(p) /\ CleanRun(p)
  BY DEF WorldInv, ShapeInv

LEMMA LoadStep ==
    ASSUME WorldInv, NEW p \in Procs, LoadState(p)
    PROVE  WorldInv'
  <1>0. DOMAIN runs = Procs /\ Shape(runs[p])
    BY RunFacts
  <1>1. /\ runs[p].at = "begun" /\ runs[p].promotions = <<>> /\ p \notin author
        /\ ~ stateFile.torn /\ IsStore(stateFile.values) /\ CleanStore(stateFile.values)
    BY RunFacts DEF WorldInv, FileInv, RunInv, StoresClean, LoadState, Stands
  <1>2. /\ OneMoves(p)
        /\ runs'[p].at = "between" /\ runs'[p].store = stateFile.values
        /\ runs'[p].base = stateFile.values /\ runs'[p].promotions = <<>>
        /\ runs'[p].world = runs[p].world
    BY <1>0, <1>1 DEF LoadState, Shape, OneMoves
  <1>3. UNCHANGED <<stateFile, scratch, author>>
    BY DEF LoadState
  <1>4. RunInv(p)'
    BY <1>1, <1>2, <1>3, NothingOver DEF RunInv
  <1>5. CleanRun(p)'
    BY <1>1, <1>2, RunFacts DEF CleanRun
  <1> QED
    BY <1>2, <1>3, <1>4, <1>5, RunsOnly

LEMMA OpenStep ==
    ASSUME WorldInv, NEW p \in Procs, OpenWorld(p)
    PROVE  WorldInv'
  <1>0. DOMAIN runs = Procs /\ Shape(runs[p])
    BY RunFacts
  <1>1. runs[p].at = "between" /\ p \notin author
    BY RunFacts DEF RunInv, OpenWorld, Stands
  <1>2. /\ OneMoves(p)
        /\ runs'[p].at = "scenario" /\ runs'[p].store = runs[p].store
        /\ runs'[p].base = runs[p].base /\ runs'[p].promotions = runs[p].promotions
        /\ runs'[p].world.global = runs[p].store /\ runs'[p].world.promoted = {}
    BY <1>0 DEF OpenWorld, Shape, OneMoves
  <1>3. UNCHANGED <<stateFile, scratch, author>>
    BY DEF OpenWorld
  <1>4. RunInv(p)'
    BY <1>1, <1>2, <1>3, RunFacts DEF RunInv
  <1>5. CleanRun(p)'
    BY <1>2, RunFacts DEF CleanRun
  <1> QED
    BY <1>2, <1>3, <1>4, <1>5, RunsOnly

\* A step of a scenario keeps what its run has.
LEMMA InScenario ==
    ASSUME WorldInv, NEW p \in Procs, OneMoves(p), runs[p].at = "scenario", runs'[p].at \in {"scenario", "between"},
           runs'[p].store = runs[p].store, runs'[p].base = runs[p].base,
           runs'[p].promotions = runs[p].promotions,
           UNCHANGED <<stateFile, scratch, author>>, CleanRun(p)'
    PROVE  WorldInv'
  <1>1. RunInv(p)'
    BY RunFacts DEF RunInv
  <1> QED
    BY <1>1, RunsOnly

LEMMA CaptureStep ==
    ASSUME WorldInv, NEW p \in Procs, NEW name, NEW value, NEW saveAs \in BOOLEAN,
           Capture(p, name, value, saveAs)
    PROVE  WorldInv'
  <1> DEFINE kept == saveAs /\ ~ Refused(value)
             global == runs[p].world.global
  <1>0. DOMAIN runs = Procs /\ Shape(runs[p])
    BY RunFacts
  <1>1. /\ OneMoves(p)
        /\ runs[p].at = "scenario" /\ runs'[p].at = "scenario"
        /\ runs'[p].store = runs[p].store
        /\ runs'[p].base = runs[p].base /\ runs'[p].promotions = runs[p].promotions
        /\ runs'[p].world.global = IF kept THEN Put(global, name, value) ELSE global
        /\ runs'[p].world.promoted = IF kept THEN runs[p].world.promoted \cup {name} ELSE runs[p].world.promoted
    BY <1>0 DEF Capture, Stands, Shape, OneMoves
  <1>2. UNCHANGED <<stateFile, scratch, author>>
    BY DEF Capture
  <1>3. CASE kept
    <2>1. value.kind = "text" => ~ Taints(value.text)
      BY <1>3 DEF Refused
    <2>2. CleanStore(Put(global, name, value)) /\ DOMAIN Put(global, name, value) = DOMAIN global \cup {name}
      BY <2>1, RunFacts DEF CleanRun, CleanStore, Put
    <2>3. CleanRun(p)'
      BY <1>1, <1>3, <2>2, RunFacts DEF CleanRun
    <2> QED
      BY <1>1, <1>2, <2>3, InScenario
  <1>4. CASE ~ kept
    <2>1. CleanRun(p)'
      BY <1>1, <1>4, RunFacts DEF CleanRun
    <2> QED
      BY <1>1, <1>2, <2>1, InScenario
  <1> QED
    BY <1>3, <1>4

LEMMA FailStep ==
    ASSUME WorldInv, NEW p \in Procs, NEW text, Fail(p, text)
    PROVE  WorldInv'
  <1>0. DOMAIN runs = Procs /\ Shape(runs[p])
    BY RunFacts
  <1>1. /\ OneMoves(p)
        /\ runs[p].at = "scenario" /\ runs'[p].at = "scenario"
        /\ runs'[p].store = runs[p].store /\ runs'[p].world = runs[p].world
        /\ runs'[p].base = runs[p].base /\ runs'[p].promotions = runs[p].promotions
    BY <1>0 DEF Fail, Stands, Shape, OneMoves
  <1>2. CleanRun(p)'
    BY <1>1, RunFacts DEF CleanRun
  <1> QED
    BY <1>1, <1>2, InScenario DEF Fail

LEMMA PanicStep ==
    ASSUME WorldInv, NEW p \in Procs, PanicInScenario(p)
    PROVE  WorldInv'
  <1>0. DOMAIN runs = Procs /\ Shape(runs[p])
    BY RunFacts
  <1>1. /\ OneMoves(p)
        /\ runs[p].at = "scenario" /\ runs'[p].at = "between"
        /\ runs'[p].store = runs[p].store /\ runs'[p].world = NoScenario
        /\ runs'[p].base = runs[p].base /\ runs'[p].promotions = runs[p].promotions
    BY <1>0 DEF PanicInScenario, Stands, Shape, OneMoves, NoScenario
  <1>2. CleanRun(p)'
    BY <1>1, RunFacts DEF CleanRun, CleanStore, NoScenario
  <1> QED
    BY <1>1, <1>2, InScenario DEF PanicInScenario

LEMMA MergeStep ==
    ASSUME WorldInv, NEW p \in Procs, Merge(p)
    PROVE  WorldInv'
  <1> DEFINE world == runs[p].world
             writeSet == [name \in world.promoted |-> world.global[name]]
  <1>0. DOMAIN runs = Procs /\ Shape(runs[p])
    BY RunFacts
  <1>1. /\ OneMoves(p)
        /\ runs[p].at = "scenario" /\ runs'[p].at = "between"
        /\ runs'[p].store = Over(writeSet, runs[p].store) /\ runs'[p].world = NoScenario
        /\ runs'[p].base = runs[p].base /\ runs'[p].promotions = Over(writeSet, runs[p].promotions)
    BY <1>0 DEF Merge, Stands, Shape, OneMoves, NoScenario
  <1>2. UNCHANGED <<stateFile, scratch, author>>
    BY DEF Merge
  <1>3. CleanStore(writeSet)
    BY RunFacts DEF CleanRun, CleanStore
  <1> HIDE DEF writeSet
  <1>4. CleanRun(p)'
    <2>1. CleanStore(Over(writeSet, runs[p].store))
      BY <1>3, OverClean, RunFacts DEF CleanRun
    <2> QED
      BY <1>1, <2>1 DEF CleanRun, CleanStore, NoScenario
  <1>5. RunInv(p)'
    <2>1. runs[p].store = Over(runs[p].promotions, runs[p].base) /\ p \notin author
      BY <1>1, RunFacts DEF RunInv
    <2>2. runs'[p].store = Over(runs'[p].promotions, runs'[p].base)
      BY <1>1, <2>1, OverAssoc
    <2> QED
      BY <1>1, <1>2, <2>1, <2>2 DEF RunInv
  <1> QED
    BY <1>1, <1>2, <1>4, <1>5, RunsOnly

-----------------------------------------------------------------------------
LEMMA OpenTmpStep ==
    ASSUME WorldInv, NEW p \in Procs, OpenTmp(p)
    PROVE  WorldInv'
  <1>0. DOMAIN runs = Procs /\ Shape(runs[p])
    BY RunFacts
  <1>1. /\ OneMoves(p)
        /\ runs[p].at = "between" /\ runs'[p].at = "writing"
        /\ runs'[p].store = runs[p].store /\ runs'[p].world = runs[p].world
        /\ runs'[p].base = runs[p].base /\ runs'[p].promotions = runs[p].promotions
    BY <1>0 DEF OpenTmp, Stands, Shape, OneMoves
  <1>2. UNCHANGED <<stateFile, author>> /\ scratch' = Put(scratch, p, Torn)
    BY DEF OpenTmp, TmpPath
  <1>3. CleanStore(Torn.values)
    BY DEF CleanStore, Torn
  <1>4. RunInv(p)' /\ CleanRun(p)'
    BY <1>1, <1>2, RunFacts DEF RunInv, CleanRun
  <1> QED
    BY <1>1, <1>2, <1>3, <1>4, ScratchOnly

LEMMA WriteTmpStep ==
    ASSUME WorldInv, NEW p \in Procs, WriteTmp(p)
    PROVE  WorldInv'
  <1>0. DOMAIN runs = Procs /\ Shape(runs[p])
    BY RunFacts
  <1>1. /\ OneMoves(p)
        /\ runs[p].at = "writing" /\ runs'[p].at = "renaming"
        /\ runs'[p].store = runs[p].store /\ runs'[p].world = runs[p].world
        /\ runs'[p].base = runs[p].base /\ runs'[p].promotions = runs[p].promotions
    BY <1>0 DEF WriteTmp, Stands, Shape, OneMoves
  <1>2. UNCHANGED <<stateFile, author>> /\ scratch' = Put(scratch, p, Whole(runs[p].store))
    BY DEF WriteTmp, TmpPath
  <1>3. CleanStore(Whole(runs[p].store).values)
    BY RunFacts DEF CleanRun, Whole
  <1>4. p \in DOMAIN scratch' /\ scratch'[p] = Whole(runs[p].store)
    BY <1>2 DEF Put
  <1>5. RunInv(p)' /\ CleanRun(p)'
    BY <1>1, <1>2, <1>4, RunFacts DEF RunInv, CleanRun
  <1> QED
    BY <1>1, <1>2, <1>3, <1>5, ScratchOnly

\* The file becomes the store of this process, and of no other one.
LEMMA RenameStep ==
    ASSUME WorldInv, NEW p \in Procs, Rename(p)
    PROVE  WorldInv'
  <1>0. DOMAIN runs = Procs /\ Shape(runs[p])
    BY RunFacts
  <1>1. /\ OneMoves(p)
        /\ runs[p].at = "renaming" /\ runs'[p].at = "over"
        /\ runs'[p].store = runs[p].store /\ runs'[p].world = runs[p].world
        /\ runs'[p].base = runs[p].base /\ runs'[p].promotions = runs[p].promotions
    BY <1>0 DEF Rename, Stands, Shape, OneMoves
  <1>2. p \in DOMAIN scratch /\ scratch[p] = Whole(runs[p].store)
    BY <1>1, RunFacts DEF RunInv
  <1>3. /\ stateFile' = Whole(runs[p].store) /\ author' = {p}
        /\ DOMAIN scratch' = DOMAIN scratch \ {p}
        /\ \A q \in DOMAIN scratch \ {p} : scratch'[q] = scratch[q]
    BY <1>2 DEF Rename, TmpPath
  <1>4. runs[p].store = Over(runs[p].promotions, runs[p].base) /\ CleanStore(runs[p].store)
    BY <1>1, RunFacts DEF RunInv, CleanRun
  <1>5. ShapeInv'
    BY <1>1 DEF WorldInv, ShapeInv, OneMoves
  <1>6. FileInv'
    BY <1>3, <1>4, OverIsStore DEF FileInv, Whole
  <1>7. StoresClean'
    BY <1>3, <1>4 DEF WorldInv, StoresClean, Whole
  <1>8. RunInv(p)' /\ CleanRun(p)'
    BY <1>1, <1>3, <1>4, RunFacts DEF RunInv, CleanRun
  <1>9. \A q \in Procs \ {p} : RunInv(q)' /\ CleanRun(q)'
    BY <1>1, <1>3 DEF WorldInv, RunInv, CleanRun, OneMoves
  <1> QED
    BY <1>5, <1>6, <1>7, <1>8, <1>9 DEF WorldInv

LEMMA SaveFailsStep ==
    ASSUME WorldInv, NEW p \in Procs, SaveFails(p)
    PROVE  WorldInv'
  <1>0. DOMAIN runs = Procs /\ Shape(runs[p])
    BY RunFacts
  <1>1. /\ OneMoves(p)
        /\ runs[p].at \in {"writing", "renaming"} /\ runs'[p].at = "over"
        /\ runs'[p].store = runs[p].store /\ runs'[p].world = runs[p].world
        /\ runs'[p].base = runs[p].base /\ runs'[p].promotions = runs[p].promotions
    BY <1>0 DEF SaveFails, Shape, OneMoves
  <1>2. UNCHANGED <<stateFile, scratch, author>>
    BY DEF SaveFails
  <1>3. RunInv(p)' /\ CleanRun(p)'
    BY <1>1, <1>2, RunFacts DEF RunInv, CleanRun
  <1> QED
    BY <1>1, <1>2, <1>3, RunsOnly

LEMMA KillStep ==
    ASSUME WorldInv, NEW p \in Procs, KillRun(p)
    PROVE  WorldInv'
  <1>0. DOMAIN runs = Procs /\ Shape(runs[p])
    BY RunFacts
  <1>1. /\ OneMoves(p)
        /\ runs[p].at # "over" /\ runs'[p].at = "killed"
        /\ runs'[p].store = runs[p].store /\ runs'[p].world = NoScenario
        /\ runs'[p].base = runs[p].base /\ runs'[p].promotions = runs[p].promotions
    BY <1>0 DEF KillRun, Shape, OneMoves, NoScenario
  <1>2. UNCHANGED <<stateFile, scratch, author>>
    BY DEF KillRun
  <1>3. RunInv(p)'
    BY <1>1, <1>2, RunFacts DEF RunInv
  <1>4. CleanRun(p)'
    BY <1>1, RunFacts DEF CleanRun, CleanStore, NoScenario
  <1> QED
    BY <1>1, <1>2, <1>3, <1>4, RunsOnly

LEMMA StepInv == WorldInv /\ [WorldStep]_wvars => WorldInv'
  <1> SUFFICES ASSUME WorldInv, [WorldStep]_wvars PROVE WorldInv'
    OBVIOUS
  <1>1. CASE UNCHANGED wvars
    BY <1>1 DEF wvars, WorldInv, ShapeInv, FileInv, StoresClean, RunInv, CleanRun
  <1>2. CASE WorldStep
    <2> PICK p \in Procs :
          \/ LoadState(p) \/ OpenWorld(p) \/ Merge(p) \/ PanicInScenario(p)
          \/ \E name \in Names, value \in Values, saveAs \in BOOLEAN : Capture(p, name, value, saveAs)
          \/ \E text \in Quoted(p) : Fail(p, text)
          \/ OpenTmp(p) \/ WriteTmp(p) \/ Rename(p) \/ SaveFails(p) \/ KillRun(p)
      BY <1>2, Zenon DEF WorldStep
    <2>1. CASE LoadState(p)
      BY <2>1, LoadStep
    <2>2. CASE OpenWorld(p)
      BY <2>2, OpenStep
    <2>3. CASE Merge(p)
      BY <2>3, MergeStep
    <2>4. CASE PanicInScenario(p)
      BY <2>4, PanicStep
    <2>5. CASE \E name \in Names, value \in Values, saveAs \in BOOLEAN : Capture(p, name, value, saveAs)
      BY <2>5, CaptureStep
    <2>6. CASE \E text \in Quoted(p) : Fail(p, text)
      BY <2>6, FailStep
    <2>7. CASE OpenTmp(p)
      BY <2>7, OpenTmpStep
    <2>8. CASE WriteTmp(p)
      BY <2>8, WriteTmpStep
    <2>9. CASE Rename(p)
      BY <2>9, RenameStep
    <2>10. CASE SaveFails(p)
      BY <2>10, SaveFailsStep
    <2>11. CASE KillRun(p)
      BY <2>11, KillStep
    <2> QED
      BY <2>1, <2>2, <2>3, <2>4, <2>5, <2>6, <2>7, <2>8, <2>9, <2>10, <2>11
  <1> QED
    BY <1>1, <1>2

(***************************************************************************)
(* The state file is whole, loads, and holds what its author had loaded     *)
(* under its promotions, for any number of processes that save over one     *)
(* another, fail to or are killed (GlobalStore::load, save; World).         *)
(***************************************************************************)
THEOREM StateIsSound == WorldSpec => []StateSound
  <1> QED
    BY InitInv, StepInv, InvImpliesSound, PTL DEF WorldSpec

(***************************************************************************)
(* Neither the state file nor what an interrupted save leaves behind has a  *)
(* text with a secret in it, whatever the secrets are, in whatever forms,   *)
(* and whatever a server answers (World::set_global).                       *)
(***************************************************************************)
THEOREM StoresStayClean == WorldSpec => []StoresClean
  <1>1. WorldInv => StoresClean
    BY DEF WorldInv
  <1> QED
    BY <1>1, InitInv, StepInv, PTL DEF WorldSpec

-----------------------------------------------------------------------------
(***************************************************************************)
(* Numbers: a least one, and counting on.                                   *)
(***************************************************************************)
LEMMA LeastNumber ==
    ASSUME NEW S, S \subseteq Nat, S # {}
    PROVE  \E n \in S : \A m \in S : n <= m
  <1> DEFINE R == {ss \in Nat \X Nat : ss[1] < ss[2]}
  <1>1. IsWellFoundedOn(R, Nat)
    BY NatLessThanWellFounded DEF OpToRel
  <1> HIDE DEF R
  <1>2. PICK n \in S : \A m \in S : ~(<<m, n>> \in R)
    BY <1>1, WFMin
  <1>3. \A m, k \in Nat : m < k => <<m, k>> \in R
    BY DEF R
  <1>4. \A m \in S : ~(m < n)
    BY <1>2, <1>3
  <1> QED
    BY <1>4

LEMMA CountingOn ==
    ASSUME NEW S, 0 \in S, \A n \in Nat : n \in S => n + 1 \in S
    PROVE  Nat \subseteq S
  <1> SUFFICES ASSUME Nat \ S # {} PROVE FALSE
    OBVIOUS
  <1>1. PICK n \in Nat \ S : \A m \in Nat \ S : n <= m
    BY LeastNumber
  <1>2. n # 0 /\ n - 1 \in Nat
    BY <1>1
  <1>3. n - 1 \in S
    BY <1>1, <1>2
  <1> QED
    BY <1>1, <1>2, <1>3

-----------------------------------------------------------------------------
(***************************************************************************)
(* What masking does to a text, whatever the text and the secrets.          *)
(***************************************************************************)
Occurs(text, n, needle) ==
    /\ n + Len(needle) - 1 <= Len(text)
    /\ \A x \in 1..Len(needle) : text[n + x - 1] = needle[x]

LEMMA StartsIs ==
    ASSUME NEW X, NEW text \in Seq(X), NEW needle \in Seq(X), NEW n \in 1..(Len(text) + 1),
           n + Len(needle) - 1 <= Len(text)
    PROVE  Starts(text, n, needle) <=> Occurs(text, n, needle)
  <1> DEFINE part == SubSeq(text, n, n + Len(needle) - 1)
  <1>1. /\ part \in Seq(X) /\ Len(part) = Len(needle)
        /\ \A x \in 1..Len(needle) : part[x] = text[n + x - 1]
    OBVIOUS
  <1>2. Starts(text, n, needle) <=> part = needle
    BY DEF Starts
  <1> HIDE DEF part
  <1>3. part = needle <=> \A x \in 1..Len(needle) : part[x] = needle[x]
    <2>1. part = [x \in 1..Len(needle) |-> part[x]] /\ needle = [x \in 1..Len(needle) |-> needle[x]]
      BY <1>1
    <2> QED
      BY <2>1
  <1> QED
    BY <1>1, <1>2, <1>3 DEF Occurs

\* The output of Replaced, character by character: pos says where in the text
\* each one is from.
NextPlace(text, needle, n) == IF Occurs(text, n, needle) THEN n + Len(needle) ELSE n + 1

Traces(out, text, needle, pos, n) ==
    /\ pos \in [1..(Len(out) + 1) -> n..(Len(text) + 1)]
    /\ pos[1] = n /\ pos[Len(out) + 1] = Len(text) + 1
    /\ \A i \in 1..Len(out) :
          /\ pos[i] \in 1..Len(text) /\ pos[i + 1] = NextPlace(text, needle, pos[i])
          /\ out[i] = IF Occurs(text, pos[i], needle) THEN Mask ELSE text[pos[i]]

LEMMA TraceOn ==
    ASSUME NEW X, Mask \in X, NEW text \in Seq(X), NEW needle \in Seq(X), needle # <<>>,
           NEW n \in 1..Len(text), NEW out \in Seq(X), NEW pos,
           Traces(out, text, needle, pos, NextPlace(text, needle, n)), NEW c,
           c = IF Occurs(text, n, needle) THEN Mask ELSE text[n]
    PROVE  <<c>> \o out \in Seq(X) /\ \E p : Traces(<<c>> \o out, text, needle, p, n)
  <1>1. c \in X
    OBVIOUS
  <1> DEFINE longer == <<c>> \o out
             p == [i \in 1..(Len(out) + 2) |-> IF i = 1 THEN n ELSE pos[i - 1]]
  <1>2. /\ longer \in Seq(X) /\ Len(longer) = Len(out) + 1 /\ longer[1] = c
        /\ \A i \in 2..(Len(out) + 1) : longer[i] = out[i - 1]
    BY <1>1
  <1>3. Len(out) \in Nat /\ Len(text) \in Nat /\ Len(needle) \in Nat \ {0}
    OBVIOUS
  <1>4. NextPlace(text, needle, n) \in (n + 1)..(Len(text) + 1)
    BY <1>3 DEF NextPlace, Occurs
  <1> HIDE DEF longer
  <1>5. p \in [1..(Len(out) + 2) -> n..(Len(text) + 1)]
    BY <1>3, <1>4 DEF Traces
  <1>6. p[1] = n /\ \A i \in 2..(Len(out) + 2) : p[i] = pos[i - 1]
    BY <1>3
  <1> HIDE DEF p
  <1>7. p[Len(out) + 2] = Len(text) + 1
    BY <1>3, <1>6 DEF Traces
  <1>8. ASSUME NEW i \in 1..(Len(out) + 1)
        PROVE  /\ p[i] \in 1..Len(text) /\ p[i + 1] = NextPlace(text, needle, p[i])
               /\ longer[i] = IF Occurs(text, p[i], needle) THEN Mask ELSE text[p[i]]
    <2>1. CASE i = 1
      <3>1. p[2] = pos[1]
        BY <1>3, <1>6
      <3> QED
        BY <1>2, <1>6, <2>1, <3>1 DEF Traces
    <2>2. CASE i # 1
      <3>1. i - 1 \in 1..Len(out) /\ i \in 2..(Len(out) + 1) /\ i + 1 \in 2..(Len(out) + 2) /\ (i - 1) + 1 = i
        BY <1>3, <2>2
      <3>2. p[i] = pos[i - 1] /\ p[i + 1] = pos[i]
        BY <1>3, <1>6, <3>1
      <3>3. /\ pos[i - 1] \in 1..Len(text) /\ pos[i] = NextPlace(text, needle, pos[i - 1])
            /\ out[i - 1] = IF Occurs(text, pos[i - 1], needle) THEN Mask ELSE text[pos[i - 1]]
        BY <3>1 DEF Traces
      <3> QED
        BY <1>2, <3>1, <3>2, <3>3
    <2> QED
      BY <2>1, <2>2
  <1>9. Traces(longer, text, needle, p, n)
    BY <1>2, <1>3, <1>5, <1>6, <1>7, <1>8 DEF Traces
  <1> QED
    BY <1>2, <1>9 DEF longer

\* Replaced's recursion, one place at a time.
Rest(from, text, needle, n) ==
    IF n > Len(text) THEN <<>>
    ELSE IF n + Len(needle) - 1 <= Len(text) /\ Starts(text, n, needle)
         THEN <<Mask>> \o from[n + Len(needle)]
         ELSE <<text[n]>> \o from[n + 1]

Scans(from, text, needle) ==
    from = [n \in 1..(Len(text) + 1) |->
              IF n > Len(text) THEN <<>>
              ELSE IF n + Len(needle) - 1 <= Len(text) /\ Starts(text, n, needle)
                   THEN <<Mask>> \o from[n + Len(needle)]
                   ELSE <<text[n]>> \o from[n + 1]]

ScansDown(from, text, needle, k) ==
    \A n \in 1..(Len(text) + 1) : n >= Len(text) + 1 - k => from[n] = Rest(from, text, needle, n)

LEMMA ScansOn ==
    ASSUME NEW X, NEW text \in Seq(X), NEW needle \in Seq(X), needle # <<>>,
           NEW k \in Nat, NEW f, ScansDown(f, text, needle, k)
    PROVE  \E g : ScansDown(g, text, needle, k + 1)
  <1> DEFINE L == Len(text)
             g == [n \in 1..(L + 1) |-> IF n >= L + 1 - k THEN f[n] ELSE Rest(f, text, needle, n)]
  <1>1. L \in Nat /\ Len(needle) \in Nat \ {0}
    OBVIOUS
  <1>2. \A n \in 1..(L + 1) : g[n] = IF n >= L + 1 - k THEN f[n] ELSE Rest(f, text, needle, n)
    OBVIOUS
  <1> HIDE DEF g
  <1>3. ASSUME NEW n \in 1..(L + 1), n >= L + 1 - (k + 1)
        PROVE  g[n] = Rest(g, text, needle, n)
    <2>1. g[n] = Rest(f, text, needle, n)
      BY <1>2 DEF ScansDown
    <2>2. CASE n > L
      BY <2>1, <2>2 DEF Rest
    <2>3. CASE n <= L
      <3>1. n + 1 \in 1..(L + 1) /\ n + 1 >= L + 1 - k
        BY <1>1, <1>3, <2>3
      <3>2. g[n + 1] = f[n + 1]
        BY <1>2, <3>1
      <3>3. ASSUME n + Len(needle) - 1 <= L PROVE g[n + Len(needle)] = f[n + Len(needle)]
        <4>1. n + Len(needle) \in 1..(L + 1) /\ n + Len(needle) >= L + 1 - k
          BY <1>1, <1>3, <2>3, <3>3
        <4> QED
          BY <1>2, <4>1
      <3> QED
        BY <2>1, <2>3, <3>2, <3>3 DEF Rest
    <2> QED
      BY <1>1, <2>2, <2>3
  <1> QED
    BY <1>3 DEF ScansDown

LEMMA ScansExist ==
    ASSUME NEW X, NEW text \in Seq(X), NEW needle \in Seq(X), needle # <<>>
    PROVE  \E from : Scans(from, text, needle)
  <1> DEFINE P == {k \in Nat : \E f : ScansDown(f, text, needle, k)}
             L == Len(text)
  <1>1. 0 \in P
    <2> DEFINE f == [n \in 1..(L + 1) |-> <<>>]
    <2>1. ASSUME NEW n \in 1..(L + 1), n >= L + 1 - 0 PROVE f[n] = Rest(f, text, needle, n)
      <3>1. n > L /\ f[n] = <<>>
        BY <2>1
      <3> QED
        BY <3>1 DEF Rest
    <2>2. ScansDown(f, text, needle, 0)
      BY <2>1 DEF ScansDown
    <2> QED
      BY <2>2
  <1>2. \A k \in Nat : k \in P => k + 1 \in P
    BY ScansOn
  <1>3. L \in Nat
    OBVIOUS
  <1> HIDE DEF P
  <1>4. L \in P
    BY <1>1, <1>2, <1>3, CountingOn
  <1>5. PICK f : ScansDown(f, text, needle, L)
    BY <1>4 DEF P
  <1> DEFINE g == [n \in 1..(L + 1) |-> f[n]]
  <1>6. \A n \in 1..(L + 1) : g[n] = f[n]
    OBVIOUS
  <1>7. g = [n \in 1..(L + 1) |-> g[n]]
    OBVIOUS
  <1> HIDE DEF g
  <1>8. ASSUME NEW n \in 1..(L + 1) PROVE g[n] = Rest(g, text, needle, n)
    <2>1. f[n] = Rest(f, text, needle, n)
      BY <1>3, <1>5 DEF ScansDown
    <2>2. n <= L => g[n + 1] = f[n + 1]
      BY <1>3, <1>6
    <2>3. n + Len(needle) - 1 <= L => g[n + Len(needle)] = f[n + Len(needle)]
      <3>1. Len(needle) \in Nat
        OBVIOUS
      <3>2. n + Len(needle) - 1 <= L => n + Len(needle) \in 1..(L + 1)
        BY <1>3, <3>1
      <3> QED
        BY <1>6, <3>2
    <2> QED
      BY <1>3, <1>6, <2>1, <2>2, <2>3 DEF Rest
  <1>9. Scans(g, text, needle)
    BY <1>7, <1>8 DEF Scans, Rest
  <1> QED
    BY <1>9

LEMMA ReplacedIs ==
    ASSUME NEW X, Mask \in X, NEW text \in Seq(X), NEW needle \in Seq(X), needle # <<>>
    PROVE  /\ Replaced(text, needle) \in Seq(X)
           /\ \E pos : Traces(Replaced(text, needle), text, needle, pos, 1)
  <1> DEFINE L == Len(text)
  <1>1. PICK from : from = CHOOSE f : Scans(f, text, needle)
    OBVIOUS
  <1>2. Scans(from, text, needle)
    BY <1>1, ScansExist, Zenon
  <1>3. Replaced(text, needle) = from[1]
    BY <1>1, Zenon DEF Replaced, Scans
  <1>4. L \in Nat /\ Len(needle) \in Nat \ {0}
    OBVIOUS
  <1>5. \A n \in 1..(L + 1) : from[n] = Rest(from, text, needle, n)
    BY <1>2 DEF Scans, Rest
  <1> DEFINE Fine(n) == from[n] \in Seq(X) /\ \E pos : Traces(from[n], text, needle, pos, n)
             P == {k \in Nat : \A n \in 1..(L + 1) : n >= L + 1 - k => Fine(n)}
  <1>6. Fine(L + 1)
    <2>1. from[L + 1] = <<>>
      <3>1. L + 1 \in 1..(L + 1) /\ L + 1 > Len(text)
        BY <1>4
      <3>2. from[L + 1] = Rest(from, text, needle, L + 1)
        BY <1>5, <3>1
      <3> QED
        BY <3>1, <3>2, Zenon DEF Rest
    <2> DEFINE p == [i \in 1..1 |-> L + 1]
    <2>2. Traces(<<>>, text, needle, p, L + 1)
      BY <1>4 DEF Traces
    <2>3. <<>> \in Seq(X)
      OBVIOUS
    <2> QED
      BY <2>1, <2>2, <2>3
  <1>7. ASSUME NEW n \in 1..L, \A m \in (n + 1)..(L + 1) : Fine(m) PROVE Fine(n)
    <2> DEFINE c == IF Occurs(text, n, needle) THEN Mask ELSE text[n]
               m == NextPlace(text, needle, n)
    <2>1. m \in (n + 1)..(L + 1)
      BY <1>4 DEF NextPlace, Occurs
    <2>2. from[n] = <<c>> \o from[m]
      <3>1. n \in 1..(L + 1) /\ ~ (n > L)
        BY <1>4
      <3>2. n + Len(needle) - 1 <= L => (Starts(text, n, needle) <=> Occurs(text, n, needle))
        BY <1>4, StartsIs
      <3>3. Occurs(text, n, needle) => n + Len(needle) - 1 <= L
        BY DEF Occurs
      <3> QED
        BY <1>5, <3>1, <3>2, <3>3, Zenon DEF Rest, NextPlace
    <2>3. from[m] \in Seq(X) /\ \E pos : Traces(from[m], text, needle, pos, m)
      BY <1>7, <2>1
    <2> HIDE DEF c, Fine
    <2>4. <<c>> \o from[m] \in Seq(X) /\ \E p : Traces(<<c>> \o from[m], text, needle, p, n)
      BY <2>3, TraceOn DEF c
    <2> QED
      BY <2>2, <2>4, Zenon DEF Fine
  <1> HIDE DEF Fine
  <1>8. 0 \in P
    BY <1>4, <1>6
  <1>9. \A k \in Nat : k \in P => k + 1 \in P
    <2> SUFFICES ASSUME NEW k \in Nat, k \in P PROVE k + 1 \in P
      OBVIOUS
    <2>1. \A n \in 1..(L + 1) : n >= L + 1 - k => Fine(n)
      OBVIOUS
    <2>2. ASSUME NEW n \in 1..(L + 1), n >= L + 1 - (k + 1) PROVE Fine(n)
      <3>1. CASE n >= L + 1 - k
        BY <2>1, <3>1
      <3>2. CASE ~ (n >= L + 1 - k)
        <4>1. n \in 1..L /\ \A m \in (n + 1)..(L + 1) : m >= L + 1 - k /\ m \in 1..(L + 1)
          BY <1>4, <2>2, <3>2
        <4> QED
          BY <1>7, <2>1, <4>1
      <3> QED
        BY <3>1, <3>2
    <2> HIDE DEF L
    <2> QED
      BY <2>2
  <1> HIDE DEF P
  <1>10. L \in P
    BY <1>4, <1>8, <1>9, CountingOn
  <1>11. Fine(1)
    BY <1>4, <1>10 DEF P
  <1> QED
    BY <1>3, <1>11, Zenon DEF Fine

LEMMA TraceRises ==
    ASSUME NEW X, NEW text \in Seq(X), NEW needle \in Seq(X), needle # <<>>, NEW out \in Seq(X), NEW pos,
           Traces(out, text, needle, pos, 1)
    PROVE  \A i, j \in 1..(Len(out) + 1) : i < j => pos[i] < pos[j]
  <1> DEFINE M == Len(out)
  <1>1. M \in Nat /\ Len(text) \in Nat /\ Len(needle) \in Nat \ {0}
    OBVIOUS
  <1>2. \A i \in 1..(M + 1) : pos[i] \in Nat
    BY <1>1 DEF Traces
  <1>3. \A i \in 1..M : pos[i] < pos[i + 1]
    <2> SUFFICES ASSUME NEW i \in 1..M PROVE pos[i] < pos[i + 1]
      OBVIOUS
    <2>1. pos[i + 1] = NextPlace(text, needle, pos[i]) /\ pos[i] \in 1..Len(text)
      BY DEF Traces
    <2> QED
      BY <1>1, <2>1 DEF NextPlace
  <1> SUFFICES ASSUME NEW i \in 1..(M + 1) PROVE \A j \in 1..(M + 1) : i < j => pos[i] < pos[j]
    OBVIOUS
  <1> DEFINE P == {d \in Nat : (i + d) + 1 <= M + 1 => pos[i] < pos[(i + d) + 1]}
  <1> HIDE DEF M
  <1>4. 0 \in P
    BY <1>1, <1>2, <1>3
  <1>5. \A d \in Nat : d \in P => d + 1 \in P
    <2> SUFFICES ASSUME NEW d \in Nat, d \in P, (i + (d + 1)) + 1 <= M + 1
                 PROVE  pos[i] < pos[(i + (d + 1)) + 1]
      OBVIOUS
    <2>1. pos[i] < pos[(i + d) + 1] /\ (i + d) + 1 \in 1..M /\ i + (d + 1) = (i + d) + 1
      BY <1>1
    <2>2. pos[(i + d) + 1] < pos[((i + d) + 1) + 1]
      BY <1>3, <2>1
    <2>3. pos[(i + d) + 1] \in Nat /\ pos[((i + d) + 1) + 1] \in Nat /\ pos[i] \in Nat
      BY <1>1, <1>2, <2>1
    <2>4. pos[(i + (d + 1)) + 1] = pos[((i + d) + 1) + 1]
      BY <2>1
    <2> QED
      BY <2>1, <2>2, <2>3, <2>4
  <1>6. Nat \subseteq P
    <2> HIDE DEF P
    <2> QED
      BY <1>4, <1>5, CountingOn
  <1> SUFFICES ASSUME NEW j \in 1..(M + 1), i < j PROVE pos[i] < pos[j]
    OBVIOUS
  <1>7. j - i - 1 \in Nat /\ (i + (j - i - 1)) + 1 = j
    BY <1>1
  <1>8. j - i - 1 \in P
    BY <1>6, <1>7
  <1> QED
    BY <1>1, <1>7, <1>8

\* Where nothing is masked, text and output go in step.
LEMMA InStep ==
    ASSUME NEW X, NEW text \in Seq(X), NEW needle \in Seq(X), NEW out \in Seq(X), NEW pos,
           Traces(out, text, needle, pos, 1),
           NEW i \in 1..(Len(out) + 1), NEW m \in Nat, i + m <= Len(out) + 1,
           \A x \in 0..(m - 1) : ~ Occurs(text, pos[i + x], needle)
    PROVE  \A x \in 0..m : pos[i + x] = pos[i] + x
  <1> DEFINE M == Len(out)
             P == {x \in Nat : x <= m => pos[i + x] = pos[i] + x}
  <1>1. M \in Nat /\ pos[i] \in Nat /\ i \in Nat /\ i >= 1 /\ i + m <= M + 1
    BY DEF Traces
  <1>2. \A k \in 1..M : ~ Occurs(text, pos[k], needle) => pos[k + 1] = pos[k] + 1
    BY DEF Traces, NextPlace
  <1> HIDE DEF M
  <1>3. 0 \in P
    BY <1>1
  <1>4. \A x \in Nat : x \in P => x + 1 \in P
    <2> SUFFICES ASSUME NEW x \in Nat, x \in P, x + 1 <= m PROVE pos[i + (x + 1)] = pos[i] + (x + 1)
      OBVIOUS
    <2>1. i + x \in 1..M /\ x \in 0..(m - 1) /\ (i + x) + 1 = i + (x + 1)
      BY <1>1
    <2>2. pos[i + (x + 1)] = pos[i + x] + 1
      BY <1>2, <2>1
    <2>3. pos[i + x] = pos[i] + x
      BY <2>1
    <2> QED
      BY <1>1, <2>2, <2>3
  <1>5. Nat \subseteq P
    <2> HIDE DEF P
    <2> QED
      BY <1>3, <1>4, CountingOn
  <1> QED
    BY <1>5

\* The scan stops at a place that no occurrence runs over.
LEMMA Stops ==
    ASSUME NEW X, NEW text \in Seq(X), NEW needle \in Seq(X), needle # <<>>, NEW out \in Seq(X), NEW pos,
           Traces(out, text, needle, pos, 1), NEW a \in 1..Len(text),
           \A k \in 1..Len(text) : Occurs(text, k, needle) => ~ (k < a /\ a < k + Len(needle))
    PROVE  \E j \in 1..Len(out) : pos[j] = a
  <1> DEFINE M == Len(out)
             S == {j \in 1..(M + 1) : pos[j] >= a}
  <1>1. M \in Nat /\ Len(text) \in Nat /\ Len(needle) \in Nat \ {0}
    OBVIOUS
  <1>2. M + 1 \in S
    BY <1>1 DEF Traces
  <1>3. PICK j \in S : \A m \in S : j <= m
    <2>1. S \subseteq Nat /\ S # {}
      BY <1>2
    <2> HIDE DEF S
    <2> QED
      BY <2>1, LeastNumber
  <1>4. j \in 1..(M + 1) /\ pos[j] >= a /\ pos[j] \in Nat
    BY <1>1 DEF Traces
  <1>5. CASE pos[j] = a
    <2>1. j # M + 1
      BY <1>1, <1>5 DEF Traces
    <2> QED
      BY <1>1, <1>4, <1>5, <2>1
  <1>6. CASE pos[j] # a
    <2>1. j # 1
      BY <1>1, <1>4, <1>6 DEF Traces
    <2>2. j - 1 \in 1..M /\ (j - 1) + 1 = j
      BY <1>1, <1>4, <2>1
    <2>3. /\ pos[j - 1] \in 1..Len(text) /\ pos[j] = NextPlace(text, needle, pos[j - 1])
      BY <2>2 DEF Traces
    <2>4. j - 1 \notin S
      BY <1>1, <1>3, <1>4
    <2>5. pos[j - 1] < a
      BY <1>1, <2>2, <2>3, <2>4
    <2>6. ~ Occurs(text, pos[j - 1], needle)
      BY <1>1, <1>4, <1>6, <2>3, <2>5 DEF NextPlace
    <2> QED
      BY <1>1, <1>4, <1>6, <2>3, <2>5, <2>6 DEF NextPlace
  <1> QED
    BY <1>5, <1>6

-----------------------------------------------------------------------------
\* Characters that show nothing of a secret.
Safe == Plain \cup {Mask, Cut}

Unsafe(needle) == needle # <<>> /\ \A x \in 1..Len(needle) : needle[x] \notin Safe

\* A secret of K that stands apart at n.
StandsAt(text, n, needle) ==
    /\ n \in 1..Len(text) /\ Occurs(text, n, needle)
    /\ n = 1 \/ text[n - 1] \in Safe
    /\ n + Len(needle) = Len(text) + 1 \/ text[n + Len(needle)] \in Safe

Spelled(text, K) ==
    \A p \in 1..Len(text) :
        \/ text[p] \in Safe
        \/ \E w \in K, a \in 1..Len(text) : StandsAt(text, a, w) /\ a <= p /\ p < a + Len(w)

LEMMA OccursUnsafe ==
    ASSUME NEW X, NEW text \in Seq(X), NEW w \in Seq(X), Unsafe(w), NEW b \in 1..Len(text), Occurs(text, b, w),
           NEW k \in Nat, b <= k, k < b + Len(w)
    PROVE  k \in 1..Len(text) /\ text[k] \notin Safe
  <1> HIDE DEF Safe
  <1>1. Len(text) \in Nat /\ Len(w) \in Nat
    OBVIOUS
  <1>2. k - b + 1 \in 1..Len(w) /\ b + (k - b + 1) - 1 = k
    BY <1>1
  <1>3. text[k] = w[k - b + 1]
    BY <1>2 DEF Occurs
  <1> QED
    BY <1>1, <1>2, <1>3 DEF Occurs, Unsafe

\* A secret that stands apart holds no other one that is as long.
LEMMA NoLongerInside ==
    ASSUME NEW X, NEW text \in Seq(X), NEW w \in Seq(X), Unsafe(w), NEW w0 \in Seq(X), Unsafe(w0),
           Len(w) <= Len(w0), NEW a, StandsAt(text, a, w),
           NEW b \in 1..Len(text), Occurs(text, b, w0), a <= b, b < a + Len(w)
    PROVE  w = w0 /\ b = a
  <1> HIDE DEF Safe
  <1>1. Len(text) \in Nat /\ Len(w) \in Nat /\ Len(w0) \in Nat /\ a \in 1..Len(text)
    BY DEF StandsAt
  <1>2. b + Len(w0) <= a + Len(w)
    <2> SUFFICES ASSUME b + Len(w0) > a + Len(w) PROVE FALSE
      BY <1>1
    <2>1. a + Len(w) \in Nat /\ b <= a + Len(w) /\ a + Len(w) < b + Len(w0)
      BY <1>1
    <2>2. a + Len(w) \in 1..Len(text) /\ text[a + Len(w)] \notin Safe
      BY <2>1, OccursUnsafe
    <2> QED
      BY <1>1, <2>2 DEF StandsAt
  <1>3. b = a /\ Len(w0) = Len(w)
    BY <1>1, <1>2
  <1>4. \A x \in 1..Len(w) : w[x] = w0[x]
    BY <1>3 DEF StandsAt, Occurs
  <1>5. w = [x \in 1..Len(w) |-> w[x]] /\ w0 = [x \in 1..Len(w0) |-> w0[x]]
    OBVIOUS
  <1> QED
    BY <1>3, <1>4, <1>5

LEMMA Between ==
    ASSUME NEW a \in Nat, NEW j \in Nat, NEW p \in Nat, NEW m \in Nat, NEW M \in Nat,
           1 <= j, a <= p, p < a + m, j + m <= M + 1
    PROVE  \E d \in Nat : p = a + d /\ d \in 0..m /\ j + d \in 1..(M + 1) /\ j <= j + d /\ j + d < j + m
  <1>1. p - a \in Nat /\ p = a + (p - a) /\ p - a <= m /\ p - a < m
    OBVIOUS
  <1> QED
    BY <1>1

\* A place of the text in a stretch that goes in step is from a place of that stretch.
LEMMA PlaceOf ==
    ASSUME NEW a \in Nat, NEW j \in Nat, NEW m \in Nat, NEW M \in Nat, NEW pos, NEW q \in 1..M,
           \A i, n \in 1..(M + 1) : i < n => pos[i] < pos[n], \A x \in 0..m : pos[j + x] = a + x,
           1 <= j, j + m <= M + 1, pos[q] \in Nat, a <= pos[q], pos[q] < a + m
    PROVE  j <= q /\ q < j + m
  <1>1. PICK p \in Nat : p = pos[q] /\ a <= p /\ p < a + m
    OBVIOUS
  <1>2. PICK d \in Nat : p = a + d /\ d \in 0..m /\ j + d \in 1..(M + 1) /\ j <= j + d /\ j + d < j + m
    BY <1>1, Between
  <1>3. PICK k \in 1..(M + 1) : k = j + d
    BY <1>2
  <1>4. pos[k] = p
    BY <1>2, <1>3
  <1>5. q \in 1..(M + 1)
    OBVIOUS
  <1>6. ~ (k < q) /\ ~ (q < k)
    BY <1>1, <1>4, <1>5
  <1>7. k = q
    BY <1>5, <1>6
  <1> QED
    BY <1>2, <1>3, <1>7

LEMMA NotPast ==
    ASSUME NEW j \in Nat, NEW m \in Nat, NEW M \in Nat, 1 <= j, j + m <= M + 1, j + m # M + 1
    PROVE  j + m \in 1..M
  OBVIOUS

\* Once the longest one is masked, what is left of the others is whole and apart.
LEMMA MaskOne ==
    ASSUME NEW X, NEW text \in Seq(X), NEW K, K \subseteq Seq(X), NEW w0 \in K,
           \A w \in K : Unsafe(w) /\ Len(w) <= Len(w0), Spelled(text, K),
           NEW out \in Seq(X), NEW pos, Traces(out, text, w0, pos, 1)
    PROVE  Spelled(out, K \ {w0})
  <1>0. PICK M, L \in Nat : M = Len(out) /\ L = Len(text)
    OBVIOUS
  <1>1. M \in Nat /\ L \in Nat /\ M = Len(out) /\ L = Len(text) /\ w0 \in Seq(X) /\ w0 # <<>> /\ Len(w0) \in Nat \ {0} /\ Unsafe(w0)
    <2>1. w0 \in Seq(X) /\ Unsafe(w0) /\ w0 # <<>>
      BY DEF Unsafe
    <2> QED
      BY <1>0, <2>1
  <1>2. Mask \in Safe
    BY DEF Safe
  <1> HIDE DEF Safe
  <1> SUFFICES ASSUME NEW q \in 1..M, out[q] \notin Safe
               PROVE  \E w \in K \ {w0}, n \in 1..M : StandsAt(out, n, w) /\ n <= q /\ q < n + Len(w)
    BY <1>0 DEF Spelled
  <1> PICK p : p = pos[q]
    OBVIOUS
  <1>3. p = pos[q] /\ p \in 1..L /\ ~ Occurs(text, p, w0) /\ out[q] = text[p]
    BY <1>0, <1>2 DEF Traces
  <1>4. PICK w \in K, a \in 1..L : StandsAt(text, a, w) /\ a <= p /\ p < a + Len(w)
    BY <1>0, <1>3 DEF Spelled
  <1>5. w \in Seq(X) /\ Unsafe(w) /\ Len(w) \in Nat \ {0} /\ Len(w) <= Len(w0)
    BY <1>4 DEF Unsafe
  \* The scan comes to a.
  <1>6. PICK j \in 1..M : pos[j] = a
    <2>1. ASSUME NEW k \in 1..L, Occurs(text, k, w0), k < a, a < k + Len(w0) PROVE FALSE
      <3>1. a - 1 \in Nat /\ k <= a - 1 /\ a - 1 < k + Len(w0) /\ a # 1
        BY <1>1, <1>4, <2>1
      <3>2. text[a - 1] \notin Safe
        BY <1>1, <2>1, <3>1, OccursUnsafe
      <3> QED
        BY <1>4, <3>1, <3>2 DEF StandsAt
    <2> QED
      BY <1>1, <2>1, Stops
  <1>m. PICK m \in Nat : m = Len(w) /\ m >= 1 /\ m <= Len(w0)
    BY <1>1, <1>5
  <1>s. /\ Occurs(text, a, w) /\ \A x \in 1..m : text[a + x - 1] = w[x]
        /\ a = 1 \/ text[a - 1] \in Safe
        /\ a + m = L + 1 \/ text[a + m] \in Safe
    <2>1. /\ Occurs(text, a, w)
          /\ a = 1 \/ text[a - 1] \in Safe
          /\ a + Len(w) = Len(text) + 1 \/ text[a + Len(w)] \in Safe
      BY <1>4 DEF StandsAt
    <2> QED
      BY <1>1, <1>m, <2>1 DEF Occurs
  \* And masks nothing from there to the end of w.
  <1>7. w # w0 /\ \A b \in 1..L : a <= b /\ b < a + m => ~ Occurs(text, b, w0)
    <2>1. ASSUME NEW b \in 1..L, a <= b, b < a + m, Occurs(text, b, w0) PROVE w = w0 /\ b = a
      BY <1>1, <1>4, <1>5, <1>m, <2>1, NoLongerInside
    <2>2. w # w0
      <3> SUFFICES ASSUME w = w0 PROVE FALSE
        OBVIOUS
      <3>1. Occurs(text, a, w0)
        BY <1>1, <1>4 DEF StandsAt
      <3>2. p # a /\ p > a /\ p < a + Len(w0)
        BY <1>3, <1>4, <3>1
      <3>3. pos[j + 1] = a + Len(w0)
        BY <1>1, <1>6, <3>1 DEF Traces, NextPlace
      <3>4. \A i, k \in 1..(M + 1) : i < k => pos[i] < pos[k]
        BY <1>1, TraceRises
      <3>5. j < q
        <4>1. q < j => pos[q] < pos[j]
          BY <1>1, <3>4
        <4> QED
          BY <1>1, <1>3, <1>4, <1>6, <3>2, <4>1
      <3>6. j + 1 <= q
        BY <1>1, <3>5
      <3>7. j + 1 < q => pos[j + 1] < pos[q]
        BY <1>1, <3>4
      <3> QED
        BY <1>1, <1>3, <1>4, <3>2, <3>3, <3>6, <3>7
    <2> QED
      BY <2>1, <2>2
  <1>8. a + m <= L + 1
    BY <1>1, <1>4, <1>5, <1>m DEF StandsAt, Occurs
  <1>9. ASSUME NEW n \in Nat, n <= m, j + n <= M + 1 PROVE \A x \in 0..n : pos[j + x] = a + x
    <2> DEFINE P == {y \in Nat : y <= n => pos[j + y] = a + y}
    <2>1. 0 \in P
      BY <1>1, <1>6
    <2>2. \A y \in Nat : y \in P => y + 1 \in P
      <3> SUFFICES ASSUME NEW y \in Nat, y \in P, y + 1 <= n PROVE pos[j + (y + 1)] = a + (y + 1)
        OBVIOUS
      <3>1. pos[j + y] = a + y /\ j + y \in 1..M /\ (j + y) + 1 = j + (y + 1)
        BY <1>1, <1>9
      <3>2. a + y \in 1..L /\ a <= a + y /\ a + y < a + m
        BY <1>1, <1>4, <1>5, <1>m, <1>8, <1>9
      <3>3. pos[(j + y) + 1] = (a + y) + 1
        BY <1>1, <1>7, <3>1, <3>2 DEF Traces, NextPlace
      <3> QED
        BY <1>1, <3>1, <3>3
    <2>3. Nat \subseteq P
      <3> HIDE DEF P
      <3> QED
        BY <2>1, <2>2, CountingOn
    <2> QED
      BY <2>3
  <1>10. j + m <= M + 1
    <2> SUFFICES ASSUME j + m > M + 1 PROVE FALSE
      BY <1>1, <1>5, <1>m
    <2>1. M + 1 - j \in Nat /\ M + 1 - j <= m /\ j + (M + 1 - j) = M + 1 /\ M + 1 - j \in 0..(M + 1 - j)
      BY <1>1, <1>5, <1>m
    <2>2. pos[M + 1] = a + (M + 1 - j)
      <3> DEFINE n == M + 1 - j
      <3>1. n \in Nat /\ n <= m /\ j + n <= M + 1 /\ n \in 0..n
        BY <1>1, <2>1
      <3> HIDE DEF n
      <3>2. pos[j + n] = a + n
        BY <1>9, <3>1
      <3> QED
        BY <2>1, <3>2 DEF n
    <2>3. pos[M + 1] = L + 1
      BY <1>1 DEF Traces
    <2> QED
      BY <1>1, <1>4, <1>5, <1>m, <1>8, <2>1, <2>2, <2>3
  <1>11. \A x \in 0..m : pos[j + x] = a + x
    BY <1>5, <1>m, <1>9, <1>10
  <1>12. \A k \in 1..M : ~ Occurs(text, pos[k], w0) => out[k] = text[pos[k]]
    BY <1>1 DEF Traces
  <1>13. ASSUME NEW x \in 1..m PROVE out[j + x - 1] = w[x]
    <2>1. x - 1 \in 0..m /\ j + x - 1 \in 1..M /\ j + (x - 1) = j + x - 1 /\ a + (x - 1) = a + x - 1
      BY <1>1, <1>5, <1>m, <1>10
    <2>2. pos[j + x - 1] = a + x - 1
      BY <1>11, <2>1
    <2>3. a + x - 1 \in 1..L /\ a <= a + x - 1 /\ a + x - 1 < a + m
      BY <1>1, <1>5, <1>m, <1>8
    <2>4. out[j + x - 1] = text[a + x - 1]
      BY <1>7, <1>12, <2>1, <2>2, <2>3
    <2> QED
      BY <1>s, <2>4
  <1>14. Occurs(out, j, w)
    BY <1>1, <1>5, <1>m, <1>10, <1>13 DEF Occurs
  <1>15. j = 1 \/ out[j - 1] \in Safe
    <2> SUFFICES ASSUME j # 1 PROVE out[j - 1] \in Safe
      OBVIOUS
    <2>1. j - 1 \in 1..M /\ (j - 1) + 1 = j
      BY <1>1
    <2>2. /\ pos[j - 1] \in 1..L /\ pos[j] = NextPlace(text, w0, pos[j - 1])
          /\ out[j - 1] = IF Occurs(text, pos[j - 1], w0) THEN Mask ELSE text[pos[j - 1]]
      BY <1>1, <2>1 DEF Traces
    <2>3. CASE Occurs(text, pos[j - 1], w0)
      BY <1>2, <2>2, <2>3
    <2>4. CASE ~ Occurs(text, pos[j - 1], w0)
      <3>1. a = pos[j - 1] + 1
        BY <1>6, <2>2, <2>4 DEF NextPlace
      <3>2. a # 1 /\ a - 1 = pos[j - 1]
        BY <2>2, <3>1
      <3>3. text[a - 1] \in Safe
        BY <1>1, <1>4, <3>2 DEF StandsAt
      <3> QED
        BY <2>2, <2>4, <3>2, <3>3
    <2> QED
      BY <2>3, <2>4
  <1>16. j + m = M + 1 \/ out[j + m] \in Safe
    <2> SUFFICES ASSUME j + m # M + 1 PROVE out[j + m] \in Safe
      OBVIOUS
    <2>0. j \in Nat /\ 1 <= j /\ m \in 0..m
      BY <1>1, <1>m
    <2>1. j + m \in 1..M /\ pos[j + m] = a + m
      <3>1. j + m \in 1..M
        BY <1>1, <1>10, <2>0, NotPast
      <3> QED
        BY <1>11, <2>0, <3>1
    <2>2. /\ a + m \in 1..L
          /\ out[j + m] = IF Occurs(text, a + m, w0) THEN Mask ELSE text[a + m]
      BY <1>1, <2>1 DEF Traces
    <2>3. text[a + m] \in Safe
      <3>1. a + m # L + 1
        BY <1>1, <2>2
      <3> QED
        BY <1>s, <3>1
    <2> QED
      BY <1>2, <2>2, <2>3
  <1>17. j <= q /\ q < j + m
    <2>0. p \in Nat /\ a \in Nat /\ j \in Nat /\ 1 <= j /\ a <= p /\ p < a + m
      <3>1. p \in Nat /\ a \in Nat /\ j \in Nat /\ 1 <= j
        BY <1>1, <1>3
      <3>2. a <= p /\ p < a + m
        BY <1>4, <1>m, Zenon
      <3> QED
        BY <3>1, <3>2
    <2>1. \A i, n \in 1..(M + 1) : i < n => pos[i] < pos[n]
      BY <1>1, TraceRises
    <2>2. pos[q] \in Nat /\ a <= pos[q] /\ pos[q] < a + m
      BY <2>0
    <2>3. m \in Nat /\ M \in Nat /\ a \in Nat /\ j \in Nat /\ 1 <= j /\ q \in 1..M
      BY <2>0, Zenon
    <2> QED
      BY <1>10, <1>11, <2>1, <2>2, <2>3, PlaceOf, ZenonT(60)
  <1>18. StandsAt(out, j, w) /\ w \in K \ {w0}
    BY <1>1, <1>4, <1>7, <1>m, <1>14, <1>15, <1>16 DEF StandsAt
  <1> QED
    BY <1>6, <1>17, <1>18, <1>m

-----------------------------------------------------------------------------
\* A finite set of sequences has an order in which the longest come first.
Sorted(s, S) ==
    /\ \A needle \in S : \E i \in DOMAIN s : s[i] = needle
    /\ \A i, j \in DOMAIN s : i < j => Len(s[i]) >= Len(s[j])

LEMMA SortedOn ==
    ASSUME NEW X, NEW n \in Nat,
           \A S \in SUBSET Seq(X) : IsFiniteSet(S) /\ Cardinality(S) = n => \E s \in [1..n -> S] : Sorted(s, S),
           NEW S \in SUBSET Seq(X), IsFiniteSet(S), Cardinality(S) = n + 1
    PROVE  \E s \in [1..(n + 1) -> S] : Sorted(s, S)
  <1>1. S # {}
    BY FS_EmptySet
  <1>2. PICK e0 \in S : \A e \in S : Len(e0) <= Len(e)
    <2> DEFINE lens == {Len(e) : e \in S}
    <2>1. lens \subseteq Nat /\ lens # {}
      <3>1. \A e \in S : e \in Seq(X) /\ Len(e) \in Nat
        OBVIOUS
      <3> QED
        BY <1>1, <3>1
    <2>2. PICK l \in lens : \A k \in lens : l <= k
      <3> HIDE DEF lens
      <3> QED
        BY <2>1, LeastNumber
    <2> QED
      BY <2>2
  <1> DEFINE T == S \ {e0}
  <1>3. T \in SUBSET Seq(X) /\ IsFiniteSet(T) /\ Cardinality(T) = n
    <2>1. IsFiniteSet(T) /\ Cardinality(T) = Cardinality(S) - 1
      BY FS_RemoveElement
    <2> QED
      BY <2>1
  <1>4. PICK s \in [1..n -> T] : Sorted(s, T)
    <2> HIDE DEF T
    <2> QED
      BY <1>3
  <1> DEFINE r == [i \in 1..(n + 1) |-> IF i = n + 1 THEN e0 ELSE s[i]]
  <1>5. \A i \in 1..n : s[i] \in S /\ s[i] # e0
    OBVIOUS
  <1>6. r \in [1..(n + 1) -> S]
    BY <1>5
  <1>7. r[n + 1] = e0 /\ DOMAIN r = 1..(n + 1) /\ \A i \in 1..n : r[i] = s[i]
    OBVIOUS
  <1> HIDE DEF r
  <1>8. ASSUME NEW e \in S PROVE \E i \in 1..(n + 1) : r[i] = e
    <2>1. CASE e = e0
      BY <1>7, <2>1
    <2>2. CASE e # e0
      <3>1. PICK i \in 1..n : s[i] = e
        BY <1>4, <2>2 DEF Sorted
      <3> QED
        BY <1>7, <3>1
    <2> QED
      BY <2>1, <2>2
  <1>9. ASSUME NEW i \in 1..(n + 1), NEW j \in 1..(n + 1), i < j PROVE Len(r[i]) >= Len(r[j])
    <2>1. i \in 1..n /\ r[i] = s[i] /\ s[i] \in S
      BY <1>5, <1>7, <1>9
    <2>2. CASE j = n + 1
      <3>1. Len(e0) <= Len(s[i]) /\ Len(e0) \in Nat /\ Len(s[i]) \in Nat
        BY <1>2, <2>1
      <3> QED
        BY <1>7, <2>1, <2>2, <3>1
    <2>3. CASE j # n + 1
      <3>1. j \in 1..n
        BY <2>3
      <3> QED
        BY <1>4, <1>7, <1>9, <2>1, <3>1 DEF Sorted
    <2> QED
      BY <2>2, <2>3
  <1> QED
    BY <1>6, <1>7, <1>8, <1>9 DEF Sorted

LEMMA SortedExists ==
    ASSUME NEW X, NEW S \in SUBSET Seq(X), IsFiniteSet(S)
    PROVE  Cardinality(S) \in Nat /\ \E s \in [1..Cardinality(S) -> S] : Sorted(s, S)
  <1> DEFINE Fine(n) == \A R \in SUBSET Seq(X) :
                            IsFiniteSet(R) /\ Cardinality(R) = n => \E s \in [1..n -> R] : Sorted(s, R)
             P == {n \in Nat : Fine(n)}
  <1>1. Fine(0)
    <2> SUFFICES ASSUME NEW R \in SUBSET Seq(X), IsFiniteSet(R), Cardinality(R) = 0
                 PROVE  \E s \in [1..0 -> R] : Sorted(s, R)
      OBVIOUS
    <2>1. R = {}
      BY FS_EmptySet
    <2> DEFINE s == [i \in 1..0 |-> i]
    <2>2. s \in [1..0 -> R] /\ Sorted(s, R)
      BY <2>1 DEF Sorted
    <2> QED
      BY <2>2
  <1>2. \A n \in Nat : n \in P => n + 1 \in P
    <2> SUFFICES ASSUME NEW n \in Nat, Fine(n) PROVE Fine(n + 1)
      OBVIOUS
    <2> QED
      BY SortedOn
  <1>3. 0 \in P
    BY <1>1
  <1> HIDE DEF P
  <1>4. Nat \subseteq P
    BY <1>2, <1>3, CountingOn
  <1>5. Cardinality(S) \in Nat
    BY FS_CardinalityType
  <1>6. Fine(Cardinality(S))
    BY <1>4, <1>5 DEF P
  <1> QED
    BY <1>5, <1>6

LEMMA LongestFirstIs ==
    /\ Cardinality(Needles) \in Nat
    /\ LongestFirst \in [1..Cardinality(Needles) -> Needles]
    /\ Sorted(LongestFirst, Needles)
  <1>1. Needles \in SUBSET Seq(Characters) /\ IsFiniteSet(Needles)
    BY SecretsAssumption
  <1>2. Cardinality(Needles) \in Nat /\ \E s \in [1..Cardinality(Needles) -> Needles] : Sorted(s, Needles)
    BY <1>1, SortedExists
  <1>3. LongestFirst = CHOOSE s \in [1..Cardinality(Needles) -> Needles] : Sorted(s, Needles)
    BY Zenon DEF LongestFirst, Sorted
  <1> HIDE DEF Sorted
  <1> QED
    BY <1>2, <1>3, Zenon

LEMMA NeedlesUnsafe == \A needle \in Needles : needle \in Seq(Characters) /\ Unsafe(needle)
  <1> SUFFICES ASSUME NEW needle \in Needles PROVE needle \in Seq(Characters) /\ Unsafe(needle)
    OBVIOUS
  <1>1. needle \in Seq(Characters) /\ ToSet(needle) \cap Safe = {}
    BY SecretsAssumption DEF Safe
  <1>2. needle # <<>>
    BY WorldAssumption DEF Needles
  <1>3. \A x \in 1..Len(needle) : needle[x] \in ToSet(needle)
    BY <1>1 DEF ToSet
  <1> QED
    BY <1>1, <1>2, <1>3 DEF Unsafe

-----------------------------------------------------------------------------
(***************************************************************************)
(* Apply, needle by needle: after all of them no character is left that is  *)
(* not safe.                                                                *)
(***************************************************************************)
NeedleCount == Cardinality(Needles)

Masked(after, text) ==
    after = [i \in 0..NeedleCount |-> IF i = 0 THEN text ELSE Replaced(after[i - 1], LongestFirst[i])]

MaskedTo(after, text, k) ==
    \A i \in 0..NeedleCount : i <= k => after[i] = IF i = 0 THEN text ELSE Replaced(after[i - 1], LongestFirst[i])

LEMMA MaskedOn ==
    ASSUME NeedleCount \in Nat, NEW text, NEW k \in Nat, NEW f, MaskedTo(f, text, k)
    PROVE  \E g : MaskedTo(g, text, k + 1)
  <1> DEFINE g == [i \in 0..NeedleCount |-> IF i <= k THEN f[i] ELSE Replaced(f[i - 1], LongestFirst[i])]
  <1>1. \A i \in 0..NeedleCount : g[i] = IF i <= k THEN f[i] ELSE Replaced(f[i - 1], LongestFirst[i])
    OBVIOUS
  <1> HIDE DEF g
  <1>2. ASSUME NEW i \in 0..NeedleCount, i <= k + 1
        PROVE  g[i] = IF i = 0 THEN text ELSE Replaced(g[i - 1], LongestFirst[i])
    <2>1. i # 0 => i - 1 \in 0..NeedleCount /\ i - 1 <= k
      BY <1>2
    <2>2. i # 0 => g[i - 1] = f[i - 1]
      BY <1>1, <2>1
    <2>3. CASE i <= k
      <3>1. f[i] = IF i = 0 THEN text ELSE Replaced(f[i - 1], LongestFirst[i])
        BY <2>3 DEF MaskedTo
      <3> QED
        BY <1>1, <2>2, <2>3, <3>1, Zenon
    <2>4. CASE ~ (i <= k)
      <3>1. i # 0
        BY <2>4
      <3> QED
        BY <1>1, <2>2, <2>4, <3>1, Zenon
    <2> QED
      BY <2>3, <2>4
  <1> QED
    BY <1>2 DEF MaskedTo

LEMMA MaskedExists ==
    ASSUME NeedleCount \in Nat, NEW text
    PROVE  \E after : Masked(after, text)
  <1> DEFINE P == {k \in Nat : \E f : MaskedTo(f, text, k)}
  <1>1. 0 \in P
    <2> DEFINE f == [i \in 0..NeedleCount |-> text]
    <2>1. MaskedTo(f, text, 0)
      BY DEF MaskedTo
    <2> QED
      BY <2>1
  <1>2. \A k \in Nat : k \in P => k + 1 \in P
    BY MaskedOn
  <1> HIDE DEF P
  <1>3. NeedleCount \in P
    BY <1>1, <1>2, CountingOn
  <1>4. PICK f : MaskedTo(f, text, NeedleCount)
    BY <1>3 DEF P
  <1> DEFINE g == [i \in 0..NeedleCount |-> f[i]]
  <1>5. \A i \in 0..NeedleCount : g[i] = f[i]
    OBVIOUS
  <1>6. g = [i \in 0..NeedleCount |-> g[i]]
    OBVIOUS
  <1> HIDE DEF g
  <1>7. ASSUME NEW i \in 0..NeedleCount
        PROVE  g[i] = IF i = 0 THEN text ELSE Replaced(g[i - 1], LongestFirst[i])
    <2>1. i # 0 => i - 1 \in 0..NeedleCount
      OBVIOUS
    <2>2. f[i] = IF i = 0 THEN text ELSE Replaced(f[i - 1], LongestFirst[i])
      BY <1>4 DEF MaskedTo
    <2> QED
      BY <1>5, <2>1, <2>2, Zenon
  <1>8. Masked(g, text)
    BY <1>6, <1>7, Zenon DEF Masked
  <1> QED
    BY <1>8

AllSafe(text) == \A p \in 1..Len(text) : text[p] \in Safe

LEMMA ApplySafe ==
    ASSUME NEW text \in Seq(Characters), Spelled(text, Needles)
    PROVE  Apply(text) \in Seq(Characters) /\ AllSafe(Apply(text))
  <1>1. NeedleCount \in Nat /\ LongestFirst \in [1..NeedleCount -> Needles] /\ Sorted(LongestFirst, Needles)
    BY LongestFirstIs DEF NeedleCount
  <1>2. PICK after : after = CHOOSE f : Masked(f, text)
    OBVIOUS
  <1>3. Masked(after, text)
    BY <1>1, <1>2, MaskedExists, Zenon
  <1>4. Apply(text) = after[NeedleCount]
    BY <1>2, Zenon DEF Apply, Masked, NeedleCount
  <1> DEFINE Left(i) == {LongestFirst[k] : k \in (i + 1)..NeedleCount}
             Fine(i) == after[i] \in Seq(Characters) /\ Spelled(after[i], Left(i))
             P == {i \in Nat : i <= NeedleCount => Fine(i)}
  <1>5. /\ after[0] = text
        /\ \A i \in 0..NeedleCount : i + 1 <= NeedleCount => after[i + 1] = Replaced(after[i], LongestFirst[i + 1])
    <2> HIDE DEF NeedleCount
    <2>1. \A i \in 0..NeedleCount : after[i] = IF i = 0 THEN text ELSE Replaced(after[i - 1], LongestFirst[i])
      BY <1>3 DEF Masked
    <2>2. 0 \in 0..NeedleCount
      BY <1>1
    <2>3. ASSUME NEW i \in 0..NeedleCount, i + 1 <= NeedleCount PROVE after[i + 1] = Replaced(after[i], LongestFirst[i + 1])
      <3>1. i + 1 \in 0..NeedleCount /\ i + 1 # 0 /\ (i + 1) - 1 = i
        BY <1>1, <2>3
      <3>2. after[i + 1] = Replaced(after[(i + 1) - 1], LongestFirst[i + 1])
        BY <2>1, <3>1, Zenon
      <3> QED
        BY <3>1, <3>2, Zenon
    <2> QED
      BY <2>1, <2>2, <2>3
  <1> HIDE DEF NeedleCount
  <1>6. \A i \in Nat : \A w \in Left(i) : w \in Needles /\ w \in Seq(Characters) /\ Unsafe(w)
    BY <1>1, NeedlesUnsafe
  <1>7. Fine(0)
    <2>1. Needles \subseteq Left(0)
      BY <1>1 DEF Sorted
    <2>2. Spelled(text, Left(0))
      <3> HIDE DEF Left
      <3> QED
        BY <2>1 DEF Spelled
    <2> QED
      BY <1>5, <2>2
  <1>8. ASSUME NEW i \in Nat, i + 1 <= NeedleCount, Fine(i) PROVE Fine(i + 1)
    <2> DEFINE w0 == LongestFirst[i + 1]
               K == Left(i)
    <2>0. i + 1 \in 1..NeedleCount /\ i \in 0..NeedleCount
      BY <1>1, <1>8
    <2>1. w0 \in K /\ w0 \in Needles /\ w0 \in Seq(Characters) /\ w0 # <<>>
      BY <1>1, <2>0, NeedlesUnsafe DEF Unsafe
    <2>2. \A w \in K : Len(w) <= Len(w0)
      <3> SUFFICES ASSUME NEW k \in (i + 1)..NeedleCount PROVE Len(LongestFirst[k]) <= Len(w0)
        OBVIOUS
      <3>1. k \in 1..NeedleCount /\ (k = i + 1 \/ i + 1 < k)
        BY <1>1
      <3>2. LongestFirst[k] \in Seq(Characters)
        BY <1>1, <3>1, NeedlesUnsafe
      <3>3. Len(LongestFirst[k]) \in Nat /\ Len(w0) \in Nat
        BY <2>1, <3>2
      <3>4. CASE k = i + 1
        BY <3>3, <3>4
      <3>5. CASE i + 1 < k
        <4>1. i + 1 \in DOMAIN LongestFirst /\ k \in DOMAIN LongestFirst
          BY <1>1, <2>0, <3>1
        <4>2. Len(LongestFirst[i + 1]) >= Len(LongestFirst[k])
          BY <1>1, <3>5, <4>1 DEF Sorted
        <4> QED
          BY <3>3, <4>2
      <3> QED
        BY <3>1, <3>4, <3>5
    <2>3. K \ {w0} \subseteq Left(i + 1)
      <3> SUFFICES ASSUME NEW k \in (i + 1)..NeedleCount, LongestFirst[k] # w0 PROVE LongestFirst[k] \in Left(i + 1)
        OBVIOUS
      <3>1. k \in ((i + 1) + 1)..NeedleCount
        BY <1>1
      <3> QED
        BY <3>1
    <2>4. K \subseteq Seq(Characters) /\ \A w \in K : Unsafe(w)
      BY <1>6
    <2> HIDE DEF K, w0, Left
    <2> DEFINE old == after[i]
               new == after[i + 1]
    <2>5. new = Replaced(old, w0) /\ old \in Seq(Characters) /\ Spelled(old, K)
      BY <1>5, <1>8, <2>0 DEF K, w0
    <2> HIDE DEF old, new
    <2>6. Mask \in Characters
      BY DEF Characters
    <2>7. new \in Seq(Characters) /\ \E pos : Traces(new, old, w0, pos, 1)
      BY <2>1, <2>5, <2>6, ReplacedIs, Zenon
    <2>8. Spelled(new, K \ {w0})
      BY <2>1, <2>2, <2>4, <2>5, <2>7, MaskOne
    <2>9. Spelled(new, Left(i + 1))
      BY <2>3, <2>8 DEF Spelled
    <2> QED
      BY <2>7, <2>9 DEF new
  <1> HIDE DEF Fine
  <1>9. NeedleCount \in P
    <2>1. 0 \in P
      BY <1>7
    <2>2. \A i \in Nat : i \in P => i + 1 \in P
      BY <1>1, <1>8
    <2> HIDE DEF P
    <2> QED
      BY <1>1, <2>1, <2>2, CountingOn
  <1>10. Fine(NeedleCount)
    BY <1>1, <1>9
  <1>11. Left(NeedleCount) = {}
    BY <1>1
  <1>12. after[NeedleCount] \in Seq(Characters) /\ Spelled(after[NeedleCount], {})
    BY <1>10, <1>11, Zenon DEF Fine
  <1> QED
    BY <1>4, <1>12 DEF Spelled, AllSafe

LEMMA SafeSpelled ==
    ASSUME NEW text, AllSafe(text)
    PROVE  Spelled(text, Needles)
  BY DEF AllSafe, Spelled

LEMMA TextSpelled ==
    ASSUME NEW text \in Texts
    PROVE  text \in Seq(Characters) /\ Spelled(text, Needles)
  <1>1. text \in Seq(Characters)
    BY TextsAssumption
  <1>2. Plain \subseteq Safe
    BY DEF Safe
  <1> HIDE DEF Safe
  <1> SUFFICES ASSUME NEW p \in 1..Len(text), text[p] \notin Safe
               PROVE  \E w \in Needles, a \in 1..Len(text) : StandsAt(text, a, w) /\ a <= p /\ p < a + Len(w)
    BY <1>1 DEF Spelled
  <1>3. PICK w \in Needles, n \in 1..p : Apart(text, n, w) /\ p < n + Len(w)
    BY <1>2, TextsAssumption
  <1>4. w \in Seq(Characters) /\ n \in 1..Len(text) /\ n \in 1..(Len(text) + 1) /\ n <= p
    BY <1>1, NeedlesUnsafe
  <1>5. Occurs(text, n, w)
    BY <1>1, <1>3, <1>4, StartsIs DEF Apart
  <1>6. StandsAt(text, n, w)
    BY <1>2, <1>3, <1>4, <1>5 DEF StandsAt, Apart
  <1> QED
    BY <1>3, <1>4, <1>6

LEMMA AroundCut ==
    ASSUME NEW X, NEW head \in Seq(X), NEW tail \in Seq(X), NEW c \in X,
           NEW h \in Nat, h = Len(head), NEW t \in Nat, t = Len(tail)
    PROVE  /\ head \o <<c>> \o tail \in Seq(X) /\ Len(head \o <<c>> \o tail) = h + 1 + t
           /\ \A i \in 1..(h + 1 + t) :
                 (head \o <<c>> \o tail)[i] = IF i <= h THEN head[i] ELSE IF i = h + 1 THEN c ELSE tail[i - (h + 1)]
  <1> DEFINE first == head \o <<c>>
  <1>1. /\ first \in Seq(X) /\ Len(first) = h + 1
        /\ \A i \in 1..(h + 1) : first[i] = IF i <= h THEN head[i] ELSE c
    OBVIOUS
  <1> HIDE DEF first
  <1>2. /\ first \o tail \in Seq(X) /\ Len(first \o tail) = h + 1 + t
        /\ \A i \in 1..(h + 1 + t) : (first \o tail)[i] = IF i <= h + 1 THEN first[i] ELSE tail[i - (h + 1)]
    BY <1>1
  <1>3. ASSUME NEW i \in 1..(h + 1 + t)
        PROVE  (first \o tail)[i] = IF i <= h THEN head[i] ELSE IF i = h + 1 THEN c ELSE tail[i - (h + 1)]
    <2>1. CASE i <= h + 1
      <3>1. i \in 1..(h + 1) /\ (~ (i <= h) => i = h + 1)
        BY <2>1
      <3>2. (first \o tail)[i] = first[i]
        BY <1>2, <2>1
      <3> QED
        BY <1>1, <3>1, <3>2
    <2>2. CASE ~ (i <= h + 1)
      <3>1. ~ (i <= h) /\ i # h + 1
        BY <2>2
      <3> QED
        BY <1>2, <2>2, <3>1
    <2> QED
      BY <2>1, <2>2
  <1> QED
    BY <1>2, <1>3 DEF first

\* What is left on either side of a cut is what was there.
LEMMA CapSafe ==
    ASSUME NEW text \in Seq(Characters), AllSafe(text)
    PROVE  Cap(text) \in Seq(Characters) /\ AllSafe(Cap(text))
  <1>1. Most \in Nat
    BY TextsAssumption
  <1>2. Cut \in Safe /\ Cut \in Characters
    BY DEF Safe, Characters
  <1> HIDE DEF Safe
  <1>3. CASE Len(text) <= Most
    BY <1>3 DEF Cap
  <1>4. CASE ~ (Len(text) <= Most)
    <2> DEFINE head == SubSeq(text, 1, Most \div 2)
               tail == SubSeq(text, Len(text) - (Most \div 8) + 1, Len(text))
               short == head \o <<Cut>> \o tail
    <2>1. PICK h, t \in Nat : h = Most \div 2 /\ t = Most \div 8 /\ h <= Len(text) /\ t <= Len(text)
      BY <1>1, <1>4
    <2>2. /\ head \in Seq(Characters) /\ Len(head) = h
          /\ \A i \in 1..h : head[i] = text[i]
      BY <2>1
    <2>3. /\ tail \in Seq(Characters) /\ Len(tail) = t
          /\ \A i \in 1..t : tail[i] = text[Len(text) - t + i]
      BY <2>1
    <2>4. Cap(text) = short
      BY <1>4 DEF Cap
    <2> HIDE DEF head, tail
    <2>5. /\ short \in Seq(Characters) /\ Len(short) = h + 1 + t
          /\ \A i \in 1..(h + 1 + t) :
                short[i] = IF i <= h THEN head[i] ELSE IF i = h + 1 THEN Cut ELSE tail[i - (h + 1)]
      <3>1. PICK hd \in Seq(Characters), tl \in Seq(Characters) : hd = head /\ tl = tail
        BY <2>2, <2>3, Zenon
      <3>2. Cut \in Characters /\ h \in Nat /\ h = Len(hd) /\ t \in Nat /\ t = Len(tl)
        BY <1>2, <2>1, <2>2, <2>3, <3>1
      <3>3. /\ hd \o <<Cut>> \o tl \in Seq(Characters) /\ Len(hd \o <<Cut>> \o tl) = h + 1 + t
            /\ \A i \in 1..(h + 1 + t) :
                  (hd \o <<Cut>> \o tl)[i] = IF i <= h THEN hd[i] ELSE IF i = h + 1 THEN Cut ELSE tl[i - (h + 1)]
        <4> HIDE DEF short
        <4> QED
          BY <3>2, AroundCut
      <3>4. short = hd \o <<Cut>> \o tl
        BY <3>1, Zenon
      <3> HIDE DEF short
      <3> QED
        BY <3>1, <3>3, <3>4, Zenon
    <2> HIDE DEF short
    <2>6. ASSUME NEW i \in 1..(h + 1 + t) PROVE short[i] \in Safe
      <3>1. CASE i <= h
        <4>1. i \in 1..h /\ i \in 1..Len(text)
          BY <2>1, <3>1
        <4> QED
          BY <2>2, <2>5, <3>1, <4>1 DEF AllSafe
      <3>2. CASE i = h + 1
        BY <1>2, <2>1, <2>5, <3>2
      <3>3. CASE i > h + 1
        <4>1. i - (h + 1) \in 1..t /\ ~ (i <= h) /\ i # h + 1
          BY <2>1, <3>3
        <4>2. Len(text) - t + (i - (h + 1)) \in 1..Len(text)
          BY <2>1, <4>1
        <4>3. short[i] = text[Len(text) - t + (i - (h + 1))]
          BY <2>3, <2>5, <4>1
        <4> QED
          BY <4>2, <4>3 DEF AllSafe
      <3> QED
        BY <2>1, <3>1, <3>2, <3>3
    <2> QED
      BY <2>4, <2>5, <2>6 DEF AllSafe
  <1> QED
    BY <1>3, <1>4

LEMMA DetailSafe ==
    ASSUME NEW text \in Texts
    PROVE  ToSet(Detail(text)) \subseteq Safe
  <1>1. Apply(text) \in Seq(Characters) /\ AllSafe(Apply(text))
    BY TextSpelled, ApplySafe
  <1>2. Cap(Apply(text)) \in Seq(Characters) /\ AllSafe(Cap(Apply(text)))
    BY <1>1, CapSafe
  <1>3. Detail(text) \in Seq(Characters) /\ AllSafe(Detail(text))
    BY <1>2, SafeSpelled, ApplySafe DEF Detail
  <1> QED
    BY <1>3 DEF AllSafe, ToSet

-----------------------------------------------------------------------------
(***************************************************************************)
(* What a store, a World or a file holds is what an answer was captured     *)
(* from, and so what a detail quotes is a text of an answer; and every      *)
(* detail is safe.                                                          *)
(***************************************************************************)
Known(store) == \A name \in DOMAIN store : store[name] \in Values

KnownRun(p) ==
    /\ Known(runs[p].store) /\ Known(runs[p].world.scope) /\ Known(runs[p].world.global)
    /\ ToSet(runs[p].detail) \subseteq Safe

KnownFiles ==
    /\ Known(stateFile.values)
    /\ \A path \in DOMAIN scratch : Known(scratch[path].values)

KnownInv == KnownFiles /\ \A p \in Procs : KnownRun(p)

LEMMA OverKnown ==
    ASSUME NEW f, NEW g, Known(f), Known(g)
    PROVE  Known(Over(f, g))
  BY DEF Known, Over

LEMMA KnownInit == WorldInit => KnownInv
  BY DEF WorldInit, KnownInv, KnownFiles, KnownRun, Known, Missing, NewRun, NoScenario, ToSet

LEMMA QuotedTexts ==
    ASSUME NEW p \in Procs, KnownRun(p)
    PROVE  Quoted(p) \subseteq Texts
  <1>1. Known(Seen(runs[p].world))
    BY OverKnown DEF KnownRun, Seen
  <1>2. ASSUME NEW v \in Values, v.kind = "text" PROVE v.text \in Texts
    BY <1>2 DEF Values, Text, Number
  <1> SUFFICES ASSUME NEW x \in Quoted(p), x \notin Texts PROVE FALSE
    OBVIOUS
  <1>3. PICK n \in DOMAIN Seen(runs[p].world) : x = Seen(runs[p].world)[n].text /\ Seen(runs[p].world)[n].kind = "text"
    BY Zenon DEF Quoted
  <1> QED
    BY <1>1, <1>2, <1>3 DEF Known

\* A step of one process that leaves the files alone.
LEMMA KnownOnly ==
    ASSUME WorldInv, KnownInv, NEW p \in Procs, OneMoves(p), UNCHANGED <<stateFile, scratch>>, KnownRun(p)'
    PROVE  KnownInv'
  <1>1. KnownFiles'
    BY DEF KnownInv, KnownFiles
  <1>2. \A q \in Procs \ {p} : KnownRun(q)'
    BY DEF KnownInv, KnownRun, OneMoves
  <1> QED
    BY <1>1, <1>2 DEF KnownInv

LEMMA KnownStep == WorldInv /\ KnownInv /\ [WorldStep]_wvars => KnownInv'
  <1> SUFFICES ASSUME WorldInv, KnownInv, [WorldStep]_wvars PROVE KnownInv'
    OBVIOUS
  <1>1. CASE UNCHANGED wvars
    BY <1>1 DEF wvars, KnownInv, KnownFiles, KnownRun
  <1>2. CASE WorldStep
    <2> PICK p \in Procs :
          \/ LoadState(p) \/ OpenWorld(p) \/ Merge(p) \/ PanicInScenario(p)
          \/ \E name \in Names, value \in Values, saveAs \in BOOLEAN : Capture(p, name, value, saveAs)
          \/ \E text \in Quoted(p) : Fail(p, text)
          \/ OpenTmp(p) \/ WriteTmp(p) \/ Rename(p) \/ SaveFails(p) \/ KillRun(p)
      BY <1>2, Zenon DEF WorldStep
    <2>0. /\ DOMAIN runs = Procs /\ Shape(runs[p]) /\ KnownRun(p) /\ KnownFiles
          /\ runs[p].world.promoted \subseteq DOMAIN runs[p].world.global
      BY RunFacts DEF KnownInv, CleanRun
    <2>1. CASE LoadState(p)
      <3>1. /\ OneMoves(p) /\ UNCHANGED <<stateFile, scratch>>
            /\ runs'[p].store = stateFile.values /\ runs'[p].world = runs[p].world /\ runs'[p].detail = runs[p].detail
        BY <2>0, <2>1 DEF LoadState, Shape, OneMoves
      <3>2. KnownRun(p)'
        BY <2>0, <3>1 DEF KnownRun, KnownFiles
      <3> QED
        BY <3>1, <3>2, KnownOnly
    <2>2. CASE OpenWorld(p)
      <3>1. /\ OneMoves(p) /\ UNCHANGED <<stateFile, scratch>>
            /\ runs'[p].store = runs[p].store /\ runs'[p].detail = runs[p].detail
            /\ runs'[p].world.scope = <<>> /\ runs'[p].world.global = runs[p].store
        BY <2>0, <2>2 DEF OpenWorld, Shape, OneMoves
      <3>2. KnownRun(p)'
        BY <2>0, <3>1 DEF KnownRun, Known
      <3> QED
        BY <3>1, <3>2, KnownOnly
    <2>3. CASE Merge(p)
      <3> DEFINE world == runs[p].world
                 writeSet == [name \in world.promoted |-> world.global[name]]
      <3>1. /\ OneMoves(p) /\ UNCHANGED <<stateFile, scratch>>
            /\ runs'[p].store = Over(writeSet, runs[p].store) /\ runs'[p].detail = runs[p].detail
            /\ runs'[p].world = NoScenario
        BY <2>0, <2>3 DEF Merge, Shape, OneMoves, NoScenario
      <3>2. Known(writeSet)
        BY <2>0 DEF KnownRun, Known
      <3> HIDE DEF writeSet
      <3>3. Known(Over(writeSet, runs[p].store))
        BY <2>0, <3>2, OverKnown DEF KnownRun
      <3>4. KnownRun(p)'
        BY <2>0, <3>1, <3>3 DEF KnownRun, Known, NoScenario
      <3> QED
        BY <3>1, <3>4, KnownOnly
    <2>4. CASE PanicInScenario(p)
      <3>1. /\ OneMoves(p) /\ UNCHANGED <<stateFile, scratch>>
            /\ runs'[p].store = runs[p].store /\ runs'[p].detail = runs[p].detail
            /\ runs'[p].world = NoScenario
        BY <2>0, <2>4 DEF PanicInScenario, Shape, OneMoves, NoScenario
      <3>2. KnownRun(p)'
        BY <2>0, <3>1 DEF KnownRun, Known, NoScenario
      <3> QED
        BY <3>1, <3>2, KnownOnly
    <2>5. CASE \E name \in Names, value \in Values, saveAs \in BOOLEAN : Capture(p, name, value, saveAs)
      <3> PICK name \in Names, value \in Values, saveAs \in BOOLEAN : Capture(p, name, value, saveAs)
        BY <2>5
      <3>1. /\ OneMoves(p) /\ UNCHANGED <<stateFile, scratch>>
            /\ runs'[p].store = runs[p].store /\ runs'[p].detail = runs[p].detail
            /\ runs'[p].world.scope = Put(runs[p].world.scope, name, value)
            /\ runs'[p].world.global \in {runs[p].world.global, Put(runs[p].world.global, name, value)}
        BY <2>0 DEF Capture, Shape, OneMoves
      <3>2. ASSUME NEW store, Known(store) PROVE Known(Put(store, name, value))
        BY <3>2 DEF Known, Put
      <3>3. KnownRun(p)'
        BY <2>0, <3>1, <3>2 DEF KnownRun
      <3> QED
        BY <3>1, <3>3, KnownOnly
    <2>6. CASE \E text \in Quoted(p) : Fail(p, text)
      <3> PICK text \in Quoted(p) : Fail(p, text)
        BY <2>6
      <3>1. /\ OneMoves(p) /\ UNCHANGED <<stateFile, scratch>>
            /\ runs'[p].store = runs[p].store /\ runs'[p].world = runs[p].world
            /\ runs'[p].detail = Detail(text)
        BY <2>0 DEF Fail, Shape, OneMoves
      <3>2. ToSet(Detail(text)) \subseteq Safe
        BY <2>0, QuotedTexts, DetailSafe
      <3>3. KnownRun(p)'
        BY <2>0, <3>1, <3>2 DEF KnownRun
      <3> QED
        BY <3>1, <3>3, KnownOnly
    <2>7. ASSUME OpenTmp(p) \/ WriteTmp(p) PROVE KnownInv'
      <3>1. /\ OneMoves(p) /\ UNCHANGED stateFile
            /\ runs'[p].store = runs[p].store /\ runs'[p].world = runs[p].world /\ runs'[p].detail = runs[p].detail
        BY <2>0, <2>7 DEF OpenTmp, WriteTmp, Shape, OneMoves
      <3>2. scratch' = Put(scratch, p, Torn) \/ scratch' = Put(scratch, p, Whole(runs[p].store))
        BY <2>7 DEF OpenTmp, WriteTmp, TmpPath
      <3>3. Known(Torn.values) /\ Known(Whole(runs[p].store).values)
        BY <2>0 DEF Known, Torn, Whole, KnownRun
      <3>4. KnownFiles'
        BY <2>0, <3>1, <3>2, <3>3 DEF KnownFiles, Put
      <3>5. \A q \in Procs : KnownRun(q)'
        BY <2>0, <3>1 DEF KnownInv, KnownRun, OneMoves
      <3> QED
        BY <3>4, <3>5 DEF KnownInv
    <2>8. CASE Rename(p)
      <3>1. /\ OneMoves(p)
            /\ runs'[p].store = runs[p].store /\ runs'[p].world = runs[p].world /\ runs'[p].detail = runs[p].detail
        BY <2>0, <2>8 DEF Rename, Shape, OneMoves
      <3>2. /\ p \in DOMAIN scratch /\ stateFile' = scratch[p]
            /\ DOMAIN scratch' \subseteq DOMAIN scratch
            /\ \A path \in DOMAIN scratch' : scratch'[path] = scratch[path]
        BY <2>8 DEF Rename, TmpPath
      <3>3. KnownFiles'
        BY <2>0, <3>2 DEF KnownFiles
      <3>4. \A q \in Procs : KnownRun(q)'
        BY <2>0, <3>1 DEF KnownInv, KnownRun, OneMoves
      <3> QED
        BY <3>3, <3>4 DEF KnownInv
    <2>9. CASE SaveFails(p)
      <3>1. /\ OneMoves(p) /\ UNCHANGED <<stateFile, scratch>>
            /\ runs'[p].store = runs[p].store /\ runs'[p].world = runs[p].world /\ runs'[p].detail = runs[p].detail
        BY <2>0, <2>9 DEF SaveFails, Shape, OneMoves
      <3>2. KnownRun(p)'
        BY <2>0, <3>1 DEF KnownRun
      <3> QED
        BY <3>1, <3>2, KnownOnly
    <2>10. CASE KillRun(p)
      <3>1. /\ OneMoves(p) /\ UNCHANGED <<stateFile, scratch>>
            /\ runs'[p].store = runs[p].store /\ runs'[p].detail = runs[p].detail
            /\ runs'[p].world = NoScenario
        BY <2>0, <2>10 DEF KillRun, Shape, OneMoves, NoScenario
      <3>2. KnownRun(p)'
        BY <2>0, <3>1 DEF KnownRun, Known, NoScenario
      <3> QED
        BY <3>1, <3>2, KnownOnly
    <2> QED
      BY <2>1, <2>2, <2>3, <2>4, <2>5, <2>6, <2>7, <2>8, <2>9, <2>10
  <1> QED
    BY <1>1, <1>2

(***************************************************************************)
(* No secret gets into the state file, into what an interrupted save leaves *)
(* or into a failure's detail, and a detail shows no rest of one: for any   *)
(* number of processes, secrets and forms of them, and for every answer     *)
(* that quotes what it quotes of a secret in full and apart from other such *)
(* quotes (World::set_global, Redactions, cap_detail).                      *)
(***************************************************************************)
THEOREM SecretsStayOutHolds == WorldSpec => []SecretsStayOut
  <1>1. WorldInv /\ KnownInv => SecretsStayOut
    BY DEF WorldInv, KnownInv, KnownRun, SecretsStayOut, Safe
  <1>2. WorldInit => WorldInv /\ KnownInv
    BY InitInv, KnownInit
  <1>3. WorldInv /\ KnownInv /\ [WorldStep]_wvars => (WorldInv /\ KnownInv)'
    BY StepInv, KnownStep
  <1> QED
    BY <1>1, <1>2, <1>3, PTL DEF WorldSpec


-----------------------------------------------------------------------------
(***************************************************************************)
(* Sums over finite sets: of the weights of what a shard was dealt, and of  *)
(* whatever else a scenario is charged with.                                *)
(***************************************************************************)
\* Weigh's sum, over any set and for any charge.
SumOf(w, T) ==
    LET sum[S \in SUBSET DOMAIN w] ==
            IF S = {} THEN 0
            ELSE LET s == CHOOSE x \in S : TRUE IN w[s] + sum[S \ {s}]
    IN  sum[T]

Sums(sum, w) ==
    sum = [S \in SUBSET DOMAIN w |->
             IF S = {} THEN 0
             ELSE LET s == CHOOSE x \in S : TRUE IN w[s] + sum[S \ {s}]]

Charges(w) == IsFiniteSet(DOMAIN w) /\ \A x \in DOMAIN w : w[x] \in Nat

Small(D, n) == {S \in SUBSET D : Cardinality(S) <= n}

SumsTo(sum, w, n) ==
    \A S \in Small(DOMAIN w, n) :
        sum[S] = IF S = {} THEN 0
                 ELSE LET s == CHOOSE x \in S : TRUE IN w[s] + sum[S \ {s}]

LEMMA SumsOn ==
    ASSUME NEW w, Charges(w), NEW n \in Nat, NEW f, SumsTo(f, w, n)
    PROVE  \E g : SumsTo(g, w, n + 1)
  <1> DEFINE g == [S \in SUBSET DOMAIN w |->
                     IF Cardinality(S) <= n THEN f[S]
                     ELSE LET s == CHOOSE x \in S : TRUE IN w[s] + f[S \ {s}]]
  <1>1. ASSUME NEW S \in Small(DOMAIN w, n + 1)
        PROVE  g[S] = IF S = {} THEN 0
                      ELSE LET s == CHOOSE x \in S : TRUE IN w[s] + g[S \ {s}]
    <2> DEFINE s == CHOOSE x \in S : TRUE
    <2>1. S \in SUBSET DOMAIN w /\ Cardinality(S) <= n + 1
      BY DEF Small
    <2>2. IsFiniteSet(S) /\ Cardinality(S) \in Nat
      BY <2>1, FS_Subset, FS_CardinalityType DEF Charges
    <2>3. CASE S = {}
      <3>1. Cardinality(S) = 0
        BY <2>3, FS_EmptySet
      <3>2. S \in Small(DOMAIN w, n)
        BY <2>1, <3>1 DEF Small
      <3> QED
        BY <2>1, <2>3, <3>1, <3>2 DEF SumsTo
    <2>4. CASE S # {}
      <3>1. s \in S
        BY <2>4
      <3>2. Cardinality(S \ {s}) = Cardinality(S) - 1
        BY <2>2, <3>1, FS_RemoveElement
      <3>3. S \ {s} \in SUBSET DOMAIN w /\ Cardinality(S \ {s}) <= n
        BY <2>1, <2>2, <3>2
      <3>4. g[S \ {s}] = f[S \ {s}]
        BY <3>3
      <3>5. g[S] = w[s] + f[S \ {s}]
        <4>1. CASE Cardinality(S) <= n
          <5>1. S \in Small(DOMAIN w, n)
            BY <2>1, <4>1 DEF Small
          <5>2. f[S] = w[s] + f[S \ {s}]
            BY <2>4, <5>1 DEF SumsTo
          <5> QED
            BY <2>1, <4>1, <5>2
        <4>2. CASE ~ (Cardinality(S) <= n)
          BY <2>1, <4>2
        <4> QED
          BY <4>1, <4>2
      <3> HIDE DEF g
      <3> QED
        BY <2>4, <3>4, <3>5
    <2> QED
      BY <2>3, <2>4
  <1> HIDE DEF g
  <1> QED
    BY <1>1 DEF SumsTo

LEMMA SumsExist ==
    ASSUME NEW w, Charges(w)
    PROVE  \E sum : Sums(sum, w)
  <1> DEFINE P == {n \in Nat : \E f : SumsTo(f, w, n)}
             n == Cardinality(DOMAIN w)
  <1>1. 0 \in P
    <2> DEFINE f == [S \in SUBSET DOMAIN w |-> 0]
    <2>1. \A S \in Small(DOMAIN w, 0) : S = {} /\ S \in SUBSET DOMAIN w
      <3> SUFFICES ASSUME NEW S \in Small(DOMAIN w, 0) PROVE S = {}
        BY DEF Small
      <3>1. IsFiniteSet(S) /\ Cardinality(S) \in Nat /\ Cardinality(S) <= 0
        BY FS_Subset, FS_CardinalityType DEF Charges, Small
      <3> QED
        BY <3>1, FS_EmptySet
    <2>2. SumsTo(f, w, 0)
      BY <2>1 DEF SumsTo
    <2> HIDE DEF f
    <2> QED
      BY <2>2
  <1>2. \A k \in Nat : k \in P => k + 1 \in P
    BY SumsOn
  <1>3. n \in Nat
    BY FS_CardinalityType DEF Charges
  <1> HIDE DEF P
  <1>4. n \in P
    BY <1>1, <1>2, <1>3, CountingOn
  <1>5. PICK f : SumsTo(f, w, n)
    BY <1>4 DEF P
  <1>6. \A S \in SUBSET DOMAIN w : S \in Small(DOMAIN w, n)
    BY FS_Subset DEF Charges, Small
  <1> DEFINE g == [S \in SUBSET DOMAIN w |-> f[S]]
  <1>7. ASSUME NEW S \in SUBSET DOMAIN w
        PROVE  g[S] = IF S = {} THEN 0
                      ELSE LET s == CHOOSE x \in S : TRUE IN w[s] + g[S \ {s}]
    <2>1. f[S] = IF S = {} THEN 0
                 ELSE LET s == CHOOSE x \in S : TRUE IN w[s] + f[S \ {s}]
      BY <1>5, <1>6 DEF SumsTo
    <2> QED
      BY <2>1
  <1>8. g = [S \in SUBSET DOMAIN w |-> g[S]]
    OBVIOUS
  <1>9. Sums(g, w)
    <2> HIDE DEF g
    <2> QED
      BY <1>7, <1>8 DEF Sums
  <1> QED
    BY <1>9

LEMMA SumIs ==
    ASSUME NEW w, Charges(w)
    PROVE  /\ SumOf(w, {}) = 0
           /\ \A S \in SUBSET DOMAIN w : S # {} =>
                \E s \in S : SumOf(w, S) = w[s] + SumOf(w, S \ {s})
  <1>1. PICK sum : sum = CHOOSE f : Sums(f, w)
    OBVIOUS
  <1>2. Sums(sum, w)
    BY <1>1, SumsExist, Zenon
  <1>3. \A S : SumOf(w, S) = sum[S]
    BY <1>1, Zenon DEF SumOf, Sums
  <1>4. sum[{}] = 0
    BY <1>2 DEF Sums
  <1>5. ASSUME NEW S \in SUBSET DOMAIN w, S # {}
        PROVE  \E s \in S : sum[S] = w[s] + sum[S \ {s}]
    <2> DEFINE s == CHOOSE x \in S : TRUE
    <2>1. s \in S
      BY <1>5
    <2>2. sum[S] = w[s] + sum[S \ {s}]
      BY <1>2, <1>5 DEF Sums
    <2> QED
      BY <2>1, <2>2
  <1> QED
    BY <1>3, <1>4, <1>5

\* What holds of a finite set if it does of the sets that lack one element.
LEMMA Shrinking ==
    ASSUME NEW D, IsFiniteSet(D), NEW Q,
           \A S \in SUBSET D : (\A x \in S : S \ {x} \in Q) => S \in Q
    PROVE  SUBSET D \subseteq Q
  <1> DEFINE P == {n \in Nat : \A S \in SUBSET D : Cardinality(S) = n => S \in Q}
  <1>1. \A S \in SUBSET D : IsFiniteSet(S) /\ Cardinality(S) \in Nat
    BY FS_Subset, FS_CardinalityType
  <1>2. 0 \in P
    <2> SUFFICES ASSUME NEW S \in SUBSET D, Cardinality(S) = 0 PROVE S \in Q
      OBVIOUS
    <2>1. S = {}
      BY <1>1, FS_EmptySet
    <2> QED
      BY <2>1
  <1>3. \A n \in Nat : n \in P => n + 1 \in P
    <2> SUFFICES ASSUME NEW n \in Nat, n \in P, NEW S \in SUBSET D, Cardinality(S) = n + 1 PROVE S \in Q
      OBVIOUS
    <2>1. ASSUME NEW x \in S PROVE S \ {x} \in Q
      <3>1. Cardinality(S \ {x}) = n
        BY <1>1, FS_RemoveElement
      <3> QED
        BY <3>1
    <2> QED
      BY <2>1
  <1> HIDE DEF P
  <1>4. Nat \subseteq P
    BY <1>2, <1>3, CountingOn
  <1> SUFFICES ASSUME NEW S \in SUBSET D PROVE S \in Q
    OBVIOUS
  <1> QED
    BY <1>1, <1>4 DEF P

LEMMA SumTypes ==
    ASSUME NEW w, Charges(w)
    PROVE  \A S \in SUBSET DOMAIN w : SumOf(w, S) \in Nat
  <1> DEFINE D == DOMAIN w
             Q == {S \in SUBSET D : SumOf(w, S) \in Nat}
  <1>1. ASSUME NEW S \in SUBSET D, \A x \in S : S \ {x} \in Q
        PROVE  S \in Q
    <2>1. CASE S = {}
      BY <2>1, SumIs
    <2>2. CASE S # {}
      <3>1. PICK s \in S : SumOf(w, S) = w[s] + SumOf(w, S \ {s})
        BY <2>2, SumIs
      <3>2. w[s] \in Nat /\ SumOf(w, S \ {s}) \in Nat
        BY <1>1 DEF Charges
      <3> QED
        BY <3>1, <3>2
    <2> QED
      BY <2>1, <2>2
  <1>2. IsFiniteSet(D)
    BY DEF Charges
  <1>3. SUBSET D \subseteq Q
    <2> HIDE DEF Q, D
    <2> QED
      BY <1>1, <1>2, Shrinking
  <1> QED
    BY <1>3

\* A sum may be taken apart at whatever element.
LEMMA SumTakes ==
    ASSUME NEW w, Charges(w)
    PROVE  \A S \in SUBSET DOMAIN w : \A x \in S : SumOf(w, S) = w[x] + SumOf(w, S \ {x})
  <1> DEFINE D == DOMAIN w
             Q == {S \in SUBSET D : \A x \in S : SumOf(w, S) = w[x] + SumOf(w, S \ {x})}
  <1>1. ASSUME NEW S \in SUBSET D, \A x \in S : S \ {x} \in Q
        PROVE  S \in Q
    <2> SUFFICES ASSUME NEW x \in S PROVE SumOf(w, S) = w[x] + SumOf(w, S \ {x})
      OBVIOUS
    <2>1. PICK s \in S : SumOf(w, S) = w[s] + SumOf(w, S \ {s})
      BY SumIs
    <2>2. CASE s = x
      BY <2>1, <2>2
    <2>3. CASE s # x
      <3>1. SumOf(w, S \ {s}) = w[x] + SumOf(w, (S \ {s}) \ {x})
        BY <1>1, <2>3
      <3>2. SumOf(w, S \ {x}) = w[s] + SumOf(w, (S \ {x}) \ {s})
        BY <1>1, <2>3
      <3>3. SumOf(w, (S \ {s}) \ {x}) = SumOf(w, (S \ {x}) \ {s})
        <4>1. (S \ {s}) \ {x} = (S \ {x}) \ {s}
          OBVIOUS
        <4> QED
          BY <4>1, Zenon
      <3>4. w[x] \in Nat /\ w[s] \in Nat /\ SumOf(w, (S \ {x}) \ {s}) \in Nat
        BY SumTypes DEF Charges
      <3> QED
        BY <2>1, <3>1, <3>2, <3>3, <3>4
    <2> QED
      BY <2>2, <2>3
  <1>2. IsFiniteSet(D)
    BY DEF Charges
  <1>3. SUBSET D \subseteq Q
    <2> HIDE DEF Q, D
    <2> QED
      BY <1>1, <1>2, Shrinking
  <1> QED
    BY <1>3

LEMMA SumJoins ==
    ASSUME NEW w, Charges(w), NEW A \in SUBSET DOMAIN w, NEW B \in SUBSET DOMAIN w, A \cap B = {}
    PROVE  SumOf(w, A \cup B) = SumOf(w, A) + SumOf(w, B)
  <1> DEFINE Q == {S \in SUBSET A : SumOf(w, S \cup B) = SumOf(w, S) + SumOf(w, B)}
  <1>1. ASSUME NEW S \in SUBSET A, \A x \in S : S \ {x} \in Q
        PROVE  S \in Q
    <2>1. SumOf(w, B) \in Nat
      BY SumTypes
    <2>2. CASE S = {}
      <3>1. SumOf(w, S) = 0
        BY <2>2, SumIs
      <3>2. SumOf(w, S \cup B) = SumOf(w, B)
        <4>1. S \cup B = B
          BY <2>2
        <4> QED
          BY <4>1, Zenon
      <3> QED
        BY <2>1, <3>1, <3>2
    <2>3. CASE S # {}
      <3>1. PICK s \in S : s \notin B
        BY <2>3
      <3>2. SumOf(w, S) = w[s] + SumOf(w, S \ {s})
        BY SumTakes
      <3>3. S \cup B \in SUBSET DOMAIN w /\ s \in S \cup B
        OBVIOUS
      <3>4. SumOf(w, S \cup B) = w[s] + SumOf(w, (S \cup B) \ {s})
        BY <3>3, SumTakes
      <3>5. SumOf(w, (S \cup B) \ {s}) = SumOf(w, (S \ {s}) \cup B)
        <4>1. (S \cup B) \ {s} = (S \ {s}) \cup B
          BY <3>1
        <4> QED
          BY <4>1, Zenon
      <3>6. SumOf(w, (S \ {s}) \cup B) = SumOf(w, S \ {s}) + SumOf(w, B)
        BY <1>1
      <3>7. w[s] \in Nat /\ SumOf(w, S \ {s}) \in Nat
        BY SumTypes DEF Charges
      <3> QED
        BY <2>1, <3>2, <3>4, <3>5, <3>6, <3>7
    <2> QED
      BY <2>2, <2>3
  <1>2. IsFiniteSet(A)
    BY FS_Subset DEF Charges
  <1>3. SUBSET A \subseteq Q
    <2> HIDE DEF Q
    <2> QED
      BY <1>1, <1>2, Shrinking
  <1> QED
    BY <1>3

\* What shard k of a split has of a set.
Part(S, f, k) == {x \in S : f[x] = k}

\* N shards of which none has more than `most`, or none less than `least`.
LEMMA SharesBound ==
    ASSUME NEW w, Charges(w), NEW S \in SUBSET DOMAIN w, NEW f, NEW m \in Nat,
           \A x \in S : f[x] \in 0..(m - 1), NEW most \in Nat
    PROVE  /\ (\A k \in 0..(m - 1) : SumOf(w, Part(S, f, k)) <= most) => SumOf(w, S) <= m * most
           /\ (\A k \in 0..(m - 1) : SumOf(w, Part(S, f, k)) >= most) => SumOf(w, S) >= m * most
  <1> DEFINE Upto(n) == {x \in S : f[x] \in 0..(n - 1)}
             P == {n \in Nat : n <= m =>
                     /\ (\A k \in 0..(m - 1) : SumOf(w, Part(S, f, k)) <= most)
                           => SumOf(w, Upto(n)) <= n * most
                     /\ (\A k \in 0..(m - 1) : SumOf(w, Part(S, f, k)) >= most)
                           => SumOf(w, Upto(n)) >= n * most}
  <1>0. \A n \in Nat : (n + 1) * most = n * most + most /\ n * most \in Nat
    OBVIOUS
  <1>1. 0 \in P
    <2>1. Upto(0) = {}
      OBVIOUS
    <2>2. SumOf(w, Upto(0)) = 0
      BY <2>1, SumIs, Zenon
    <2>3. 0 * most = 0
      OBVIOUS
    <2> HIDE DEF Upto
    <2> QED
      BY <2>2, <2>3
  <1>2. \A n \in Nat : n \in P => n + 1 \in P
    <2> SUFFICES ASSUME NEW n \in Nat, n \in P, n + 1 <= m
                 PROVE  /\ (\A k \in 0..(m - 1) : SumOf(w, Part(S, f, k)) <= most)
                              => SumOf(w, Upto(n + 1)) <= (n + 1) * most
                        /\ (\A k \in 0..(m - 1) : SumOf(w, Part(S, f, k)) >= most)
                              => SumOf(w, Upto(n + 1)) >= (n + 1) * most
      OBVIOUS
    <2>1. Upto(n + 1) = Upto(n) \cup Part(S, f, n) /\ Upto(n) \cap Part(S, f, n) = {}
      <3>1. \A x \in S : f[x] \in Int
        OBVIOUS
      <3>2. \A x \in S : f[x] \in 0..(n + 1 - 1) <=> f[x] \in 0..(n - 1) \/ f[x] = n
        BY <3>1
      <3>3. \A x \in S : f[x] = n => f[x] \notin 0..(n - 1)
        BY <3>1
      <3>4. \A x : x \in Upto(n + 1) <=> x \in Upto(n) \cup Part(S, f, n)
        BY <3>1, <3>2 DEF Part
      <3>5. \A x : ~ (x \in Upto(n) /\ x \in Part(S, f, n))
        BY <3>3, Zenon DEF Part
      <3> HIDE DEF Upto
      <3> QED
        BY <3>4, <3>5
    <2>2. Upto(n) \in SUBSET DOMAIN w /\ Part(S, f, n) \in SUBSET DOMAIN w /\ n \in 0..(m - 1)
      BY DEF Part
    <2>3. SumOf(w, Upto(n + 1)) = SumOf(w, Upto(n)) + SumOf(w, Part(S, f, n))
      <3> DEFINE A == Upto(n)
                 B == Part(S, f, n)
      <3>1. SumOf(w, Upto(n + 1)) = SumOf(w, A \cup B)
        BY <2>1, Zenon
      <3>2. A \in SUBSET DOMAIN w /\ B \in SUBSET DOMAIN w /\ A \cap B = {}
        BY <2>1, <2>2, Zenon
      <3> HIDE DEF A, B
      <3>3. SumOf(w, A \cup B) = SumOf(w, A) + SumOf(w, B)
        BY <3>2, SumJoins
      <3> QED
        BY <3>1, <3>3 DEF A, B
    <2>4. SumOf(w, Upto(n)) \in Nat /\ SumOf(w, Part(S, f, n)) \in Nat
      <3> HIDE DEF Upto
      <3> QED
        BY <2>2, SumTypes
    <2>5. (n + 1) * most = n * most + most /\ n * most \in Nat
      BY <1>0
    <2>6. /\ (\A k \in 0..(m - 1) : SumOf(w, Part(S, f, k)) <= most)
                => SumOf(w, Upto(n)) <= n * most
          /\ (\A k \in 0..(m - 1) : SumOf(w, Part(S, f, k)) >= most)
                => SumOf(w, Upto(n)) >= n * most
      OBVIOUS
    <2> HIDE DEF Upto
    <2> QED
      BY <2>2, <2>3, <2>4, <2>5, <2>6
  <1> HIDE DEF P
  <1>3. m \in P
    BY <1>1, <1>2, CountingOn
  <1>4. SumOf(w, Upto(m)) = SumOf(w, S)
    <2>1. Upto(m) = S
      OBVIOUS
    <2> QED
      BY <2>1, Zenon
  <1> HIDE DEF Upto
  <1> QED
    BY <1>3, <1>4 DEF P

LEMMA SumNone ==
    ASSUME NEW w, Charges(w), NEW S \in SUBSET DOMAIN w, \A x \in S : w[x] = 0
    PROVE  SumOf(w, S) = 0
  <1> DEFINE Q == {R \in SUBSET S : SumOf(w, R) = 0}
  <1>1. ASSUME NEW R \in SUBSET S, \A x \in R : R \ {x} \in Q
        PROVE  R \in Q
    <2>1. CASE R = {}
      BY <2>1, SumIs
    <2>2. CASE R # {}
      <3>1. PICK x \in R : TRUE
        BY <2>2
      <3>2. SumOf(w, R) = w[x] + SumOf(w, R \ {x})
        BY SumTakes
      <3> QED
        BY <1>1, <3>2
    <2> QED
      BY <2>1, <2>2
  <1>2. IsFiniteSet(S)
    BY FS_Subset DEF Charges
  <1>3. S \in Q
    <2> HIDE DEF Q
    <2> QED
      BY <1>1, <1>2, Shrinking
  <1> QED
    BY <1>3

LEMMA SumMore ==
    ASSUME NEW w, Charges(w), NEW S \in SUBSET DOMAIN w, NEW x \in DOMAIN w \ S
    PROVE  SumOf(w, S) + w[x] <= SumOf(w, DOMAIN w)
  <1> DEFINE B == DOMAIN w \ S
  <1>1. S \cup B = DOMAIN w /\ S \cap B = {} /\ B \in SUBSET DOMAIN w /\ x \in B
    OBVIOUS
  <1>2. SumOf(w, DOMAIN w) = SumOf(w, S \cup B)
    BY <1>1, Zenon
  <1> HIDE DEF B
  <1>3. SumOf(w, S \cup B) = SumOf(w, S) + SumOf(w, B)
    BY <1>1, SumJoins
  <1>4. SumOf(w, B) = w[x] + SumOf(w, B \ {x})
    BY <1>1, SumTakes
  <1>5. SumOf(w, S) \in Nat /\ w[x] \in Nat /\ SumOf(w, B \ {x}) \in Nat
    BY <1>1, SumTypes DEF Charges
  <1> QED
    BY <1>2, <1>3, <1>4, <1>5

-----------------------------------------------------------------------------
(***************************************************************************)
(* The deal of --shard-weights is level at every step, near the best split, *)
(* fair between equals and shares out every selection, for any count of     *)
(* shards and any weights.                                                  *)
(***************************************************************************)
DealType ==
    /\ IsFiniteSet(DOMAIN weights) /\ DOMAIN weights \subseteq Nat /\ weights \in [DOMAIN weights -> Nat]
    /\ DOMAIN placed \subseteq DOMAIN weights
    /\ placed \in [DOMAIN placed -> Buckets]
    /\ load \in [Buckets -> Nat]
    /\ taken \in [Buckets -> Nat]

\* With one weight for all, a shard is ahead of another one by one scenario at
\* most, and exactly then by that weight.
Even ==
    \A w \in Nat : (\A s \in DOMAIN weights : weights[s] = w) =>
        \A i, j \in Buckets :
            /\ taken[i] <= taken[j] + 1
            /\ taken[i] = taken[j] => load[i] = load[j]
            /\ taken[i] = taken[j] + 1 => load[i] = load[j] + w

DealInv == DealType /\ LevelInv /\ Even

LEMMA InitDeal == DealInit => DealInv
  <1> SUFFICES ASSUME DealInit PROVE DealInv
    OBVIOUS
  <1>1. DealType
    BY ShardsAssumption DEF DealInit, DealType
  <1>2. LevelInv
    BY <1>1 DEF DealInit, DealType, LevelInv, Level
  <1>3. Even
    BY <1>1 DEF DealInit, DealType, Even
  <1> QED
    BY <1>1, <1>2, <1>3 DEF DealInv

LEMMA DealKeeps ==
    ASSUME DealInv, NEW s \in DOMAIN weights, NEW i \in Buckets, Deal(s, i)
    PROVE  DealInv'
  <1>1. /\ weights' = weights /\ s \notin DOMAIN placed
        /\ load' = [load EXCEPT ![i] = @ + weights[s]]
        /\ taken' = [taken EXCEPT ![i] = @ + 1]
    BY DEF Deal
  <1>2. DealType /\ weights[s] \in Nat
    BY DEF DealInv, DealType
  <1>3. \A j \in Buckets :
          \/ load[i] < load[j]
          \/ load[i] = load[j] /\ taken[i] <= taken[j]
    BY <1>2 DEF Deal, Before, DealType
  <1>4. DealType'
    <2>1. /\ DOMAIN placed' = DOMAIN placed \cup {s}
          /\ placed' \in [DOMAIN placed' -> Buckets]
      BY <1>2 DEF Deal, DealType
    <2> QED
      BY <1>1, <1>2, <2>1 DEF DealType
  <1>5. \A j \in Buckets :
          /\ load'[j] = IF j = i THEN load[i] + weights[s] ELSE load[j]
          /\ taken'[j] = IF j = i THEN taken[i] + 1 ELSE taken[j]
    BY <1>1, <1>2 DEF DealType
  <1>6. LevelInv'
    <2> SUFFICES ASSUME NEW big \in DOMAIN weights, \A x \in DOMAIN weights : weights[x] <= weights[big],
                        NEW j \in Buckets, NEW k \in Buckets
                 PROVE  load'[j] <= load'[k] + weights[big]
      BY <1>1 DEF LevelInv, Level
    <2>1. load[j] <= load[k] + weights[big] /\ weights[s] <= weights[big]
      BY DEF DealInv, LevelInv, Level
    <2>2. /\ load[i] \in Nat /\ load[j] \in Nat /\ load[k] \in Nat
          /\ weights[big] \in Nat /\ load[i] <= load[k]
      BY <1>2, <1>3 DEF DealType
    <2> QED
      BY <1>2, <1>5, <2>1, <2>2
  <1>7. Even'
    <2> SUFFICES ASSUME NEW w \in Nat, \A x \in DOMAIN weights : weights[x] = w,
                        NEW j \in Buckets, NEW k \in Buckets
                 PROVE  /\ taken'[j] <= taken'[k] + 1
                        /\ taken'[j] = taken'[k] => load'[j] = load'[k]
                        /\ taken'[j] = taken'[k] + 1 => load'[j] = load'[k] + w
      BY <1>1 DEF Even
    <2>1. \A a, b \in Buckets :
            /\ taken[a] <= taken[b] + 1
            /\ taken[a] = taken[b] => load[a] = load[b]
            /\ taken[a] = taken[b] + 1 => load[a] = load[b] + w
      BY DEF DealInv, Even
    <2>2. \A a \in Buckets : load[a] \in Nat /\ taken[a] \in Nat
      BY <1>2 DEF DealType
    <2>3. \A a \in Buckets : taken[i] <= taken[a]
      BY <1>3, <2>1, <2>2
    <2>4. weights[s] = w
      OBVIOUS
    <2> QED
      BY <1>5, <2>1, <2>2, <2>3, <2>4
  <1> QED
    BY <1>4, <1>6, <1>7 DEF DealInv

LEMMA StepDeal == DealInv /\ [DealStep]_svars => DealInv'
  <1>1. ASSUME DealInv, UNCHANGED svars PROVE DealInv'
    BY <1>1 DEF svars, DealInv, DealType, LevelInv, Level, Even, Buckets
  <1> QED
    BY <1>1, DealKeeps DEF DealStep

LEMMA EvenShares ==
    ASSUME DealInv
    PROVE  EqualShare
  <1> SUFFICES ASSUME \A s, x \in DOMAIN weights : weights[s] = weights[x],
                      NEW i \in Buckets, NEW j \in Buckets
               PROVE  taken[i] <= taken[j] + 1
    BY DEF EqualShare
  <1>1. PICK w \in Nat : \A s \in DOMAIN weights : weights[s] = w
    <2>1. CASE DOMAIN weights = {}
      BY <2>1
    <2>2. CASE DOMAIN weights # {}
      <3> PICK s \in DOMAIN weights : TRUE
        BY <2>2
      <3>1. weights[s] \in Nat
        BY DEF DealInv, DealType
      <3> QED
        BY <3>1
    <2> QED
      BY <2>1, <2>2
  <1> QED
    BY <1>1 DEF DealInv, Even

LEMMA PlacedShares ==
    ASSUME DealInv
    PROVE  SharedOut
  <1> SUFFICES ASSUME NEW suite \in Suites, NEW h \in [suite -> Buckets]
               PROVE  /\ UNION {Mine(suite, h, i) : i \in Buckets} = suite
                      /\ \A i, j \in Buckets : i # j => Mine(suite, h, i) \cap Mine(suite, h, j) = {}
    BY DEF SharedOut
  <1>1. \A s \in suite : (IF s \in DOMAIN placed THEN placed[s] ELSE h[s]) \in Buckets
    BY DEF DealInv, DealType
  <1> QED
    BY <1>1 DEF Mine

\* What shard i was dealt.
Pile(i) == Part(DOMAIN placed, placed, i)

Books == \A i \in Buckets : load[i] = SumOf(weights, Pile(i)) /\ taken[i] = Cardinality(Pile(i))

Heavier == \A x \in DOMAIN placed, y \in DOMAIN weights \ DOMAIN placed : weights[x] >= weights[y]

\* A split of the whole file with no shard above `most`.
Splits(best, most) ==
    /\ best \in [DOMAIN weights -> Buckets] /\ most \in Nat
    /\ \A k \in Buckets : SumOf(weights, Part(DOMAIN weights, best, k)) <= most

Near ==
    \A best, most : Splits(best, most) => \A j \in Buckets : 3 * N * load[j] <= (4 * N - 1) * most

LEMMA WeighIs ==
    ASSUME NEW deal, NEW i
    PROVE  Weigh(deal, i) = SumOf(weights, Part(DOMAIN deal, deal, i))
  BY Zenon DEF Weigh, SumOf, Part

LEMMA BooksKept ==
    ASSUME DealType, Books, NEW s \in DOMAIN weights, NEW i \in Buckets, Deal(s, i)
    PROVE  Books'
  <1>1. /\ weights' = weights /\ s \notin DOMAIN placed
        /\ DOMAIN placed' = DOMAIN placed \cup {s}
        /\ \A x \in DOMAIN placed' : placed'[x] = IF x = s THEN i ELSE placed[x]
        /\ \A j \in Buckets : /\ load'[j] = IF j = i THEN load[i] + weights[s] ELSE load[j]
                              /\ taken'[j] = IF j = i THEN taken[i] + 1 ELSE taken[j]
    BY DEF Deal, DealType
  <1>2. Charges(weights) /\ DOMAIN placed \in SUBSET DOMAIN weights
    BY DEF DealType, Charges
  <1> SUFFICES ASSUME NEW j \in Buckets
               PROVE  load'[j] = SumOf(weights', Pile(j)') /\ taken'[j] = Cardinality(Pile(j)')
    BY DEF Books, Buckets
  <1>3. load[j] = SumOf(weights, Pile(j)) /\ taken[j] = Cardinality(Pile(j))
    BY DEF Books
  <1>4. Pile(j) \in SUBSET DOMAIN weights /\ s \notin Pile(j)
    BY <1>1, <1>2 DEF Pile, Part
  <1>5. IsFiniteSet(Pile(j))
    BY <1>2, <1>4, FS_Subset DEF Charges
  <1>6. CASE j = i
    <2> DEFINE new == Pile(j) \cup {s}
    <2>1. Pile(j)' = new
      BY <1>1, <1>6 DEF Pile, Part
    <2>2. SumOf(weights, new) = weights[s] + SumOf(weights, new \ {s})
      <3>1. new \in SUBSET DOMAIN weights /\ s \in new
        BY <1>4
      <3> HIDE DEF new
      <3> QED
        BY <1>2, <3>1, SumTakes
    <2>3. SumOf(weights, new \ {s}) = SumOf(weights, Pile(j))
      <3>1. new \ {s} = Pile(j)
        BY <1>4
      <3> QED
        BY <3>1, Zenon
    <2>4. Cardinality(new) = Cardinality(Pile(j)) + 1
      BY <1>4, <1>5, FS_AddElement
    <2>5. SumOf(weights', Pile(j)') = SumOf(weights, new) /\ Cardinality(Pile(j)') = Cardinality(new)
      BY <1>1, <2>1, Zenon
    <2>6. SumOf(weights, Pile(j)) \in Nat /\ weights[s] \in Nat
      BY <1>2, <1>4, SumTypes DEF Charges
    <2> HIDE DEF new
    <2> QED
      BY <1>1, <1>3, <1>6, <2>2, <2>3, <2>4, <2>5, <2>6
  <1>7. CASE j # i
    <2>1. Pile(j)' = Pile(j)
      BY <1>1, <1>7 DEF Pile, Part
    <2>2. SumOf(weights', Pile(j)') = SumOf(weights, Pile(j)) /\ Cardinality(Pile(j)') = Cardinality(Pile(j))
      BY <1>1, <2>1, Zenon
    <2> QED
      BY <1>1, <1>3, <1>7, <2>2
  <1> QED
    BY <1>6, <1>7

\* A light scenario: the lightest shard is no heavier than the average one, and
\* that is no heavier than the best split's longest.
LEMMA LightFits ==
    ASSUME DealType, Books, NEW s \in DOMAIN weights \ DOMAIN placed, NEW i \in Buckets,
           \A j \in Buckets : load[i] <= load[j],
           NEW best, NEW most, Splits(best, most), 3 * weights[s] <= most
    PROVE  3 * N * (load[i] + weights[s]) <= (4 * N - 1) * most
  <1>1. Charges(weights) /\ DOMAIN placed \in SUBSET DOMAIN weights
    BY DEF DealType, Charges
  <1>2. load[i] \in Nat /\ weights[s] \in Nat /\ most \in Nat /\ N \in Nat \ {0}
    BY ShardsAssumption DEF DealType, Splits
  <1>3. SumOf(weights, DOMAIN placed) >= N * load[i]
    <2>1. \A x \in DOMAIN placed : placed[x] \in 0..(N - 1)
      BY DEF DealType, Buckets
    <2>2. \A k \in 0..(N - 1) : SumOf(weights, Part(DOMAIN placed, placed, k)) >= load[i]
      <3> SUFFICES ASSUME NEW k \in 0..(N - 1)
                   PROVE  SumOf(weights, Part(DOMAIN placed, placed, k)) >= load[i]
        OBVIOUS
      <3>1. load[k] = SumOf(weights, Part(DOMAIN placed, placed, k)) /\ load[i] <= load[k] /\ load[k] \in Nat
        BY DEF Books, Pile, Buckets, DealType
      <3> QED
        BY <1>2, <3>1
    <2> QED
      BY <1>1, <1>2, <2>1, <2>2, SharesBound
  <1>4. SumOf(weights, DOMAIN weights) <= N * most
    <2>1. \A x \in DOMAIN weights : best[x] \in 0..(N - 1)
      BY DEF Splits, Buckets
    <2>2. \A k \in 0..(N - 1) : SumOf(weights, Part(DOMAIN weights, best, k)) <= most
      BY DEF Splits, Buckets
    <2> QED
      BY <1>1, <1>2, <2>1, <2>2, SharesBound
  <1>5. SumOf(weights, DOMAIN placed) + weights[s] <= SumOf(weights, DOMAIN weights)
    BY <1>1, SumMore
  <1>6. SumOf(weights, DOMAIN placed) \in Nat /\ SumOf(weights, DOMAIN weights) \in Nat
    BY <1>1, SumTypes
  <1> DEFINE a == N * load[i]
             b == N * weights[s]
             c == N * most
  <1>7. a \in Nat /\ b \in Nat /\ c \in Nat
    BY <1>2
  <1>8. a + weights[s] <= c
    <2> HIDE DEF a, c
    <2> QED
      BY <1>2, <1>3, <1>4, <1>5, <1>6, <1>7 DEF a, c
  <1>9. 3 * N * (load[i] + weights[s]) = 3 * a + 3 * b /\ (4 * N - 1) * most = 4 * c - most
    BY <1>2
  <1>10. (N - 1) * (3 * weights[s]) <= (N - 1) * most
    BY <1>2
  <1>11. (N - 1) * (3 * weights[s]) = 3 * b - 3 * weights[s] /\ (N - 1) * most = c - most
    BY <1>2
  <1> HIDE DEF a, b, c
  <1> QED
    BY <1>2, <1>7, <1>8, <1>9, <1>10, <1>11

\* A heavy scenario, more than a third of the best split's longest shard, like
\* all that were dealt before it.  Charge 2 for one that is alone in its pile
\* and 1 for the others: no shard of the best split bears more than 2, and if
\* this one did not fit, every pile would bear 2 without it.
LEMMA HeavyFits ==
    ASSUME DealType, Books, Heavier, NEW s \in DOMAIN weights \ DOMAIN placed,
           \A x \in DOMAIN placed : weights[x] >= weights[s],
           NEW i \in Buckets, \A j \in Buckets : load[i] <= load[j],
           NEW best, NEW most, Splits(best, most), 3 * weights[s] > most
    PROVE  load[i] + weights[s] <= most
  <1> SUFFICES ASSUME load[i] + weights[s] > most PROVE FALSE
    BY DEF DealType, Splits
  <1> DEFINE T == DOMAIN placed \cup {s}
             D == DOMAIN weights
             c == [x \in D |-> IF x \notin T THEN 0
                               ELSE IF x \in DOMAIN placed /\ Pile(placed[x]) = {x} THEN 2 ELSE 1]
  <1>1. Charges(weights) /\ DOMAIN placed \in SUBSET D /\ s \in D
    BY DEF DealType, Charges
  <1>2. most \in Nat /\ N \in Nat \ {0} /\ \A j \in Buckets : load[j] \in Nat
    BY ShardsAssumption DEF DealType, Splits
  <1>3. \A x \in D : weights[x] \in Nat
    BY <1>1 DEF Charges
  <1>4. \A x \in T : weights[x] >= weights[s] /\ 3 * weights[x] > most
    <2> SUFFICES ASSUME NEW x \in T PROVE weights[x] >= weights[s] /\ 3 * weights[x] > most
      OBVIOUS
    <2>1. weights[x] \in Nat /\ weights[s] \in Nat
      BY <1>1, <1>3
    <2>2. weights[x] >= weights[s]
      BY <2>1
    <2> QED
      BY <1>2, <2>1, <2>2
  <1>5. Charges(c) /\ DOMAIN c = D
    BY <1>1 DEF Charges
  <1>6. /\ \A x \in D : c[x] \in Nat /\ (x \notin T => c[x] = 0)
        /\ \A x \in T : c[x] \in {1, 2}
        /\ \A x \in DOMAIN placed : Pile(placed[x]) = {x} => c[x] = 2
        /\ \A x \in T : c[x] = 2 => x \in DOMAIN placed /\ Pile(placed[x]) = {x}
    BY <1>1
  <1>7. c[s] = 1
    BY <1>1
  <1>8. T \in SUBSET D
    BY <1>1
  <1> HIDE DEF c
  <1>9. ASSUME NEW x \in T, c[x] = 2 PROVE weights[x] + weights[s] > most
    <2>1. x \in DOMAIN placed /\ Pile(placed[x]) = {x} /\ placed[x] \in Buckets
      BY <1>6, <1>9 DEF DealType
    <2>2. load[placed[x]] = SumOf(weights, {x})
      BY <2>1, Zenon DEF Books
    <2>3. SumOf(weights, {x}) = weights[x]
      <3>1. SumOf(weights, {x}) = weights[x] + SumOf(weights, {x} \ {x})
        BY <1>1, <2>1, SumTakes
      <3>2. SumOf(weights, {x} \ {x}) = 0
        <4>1. {x} \ {x} = {}
          OBVIOUS
        <4> QED
          BY <1>1, <4>1, SumIs, Zenon
      <3> QED
        BY <1>1, <1>3, <2>1, <3>1, <3>2
    <2> QED
      BY <1>1, <1>2, <1>3, <2>1, <2>2, <2>3
  <1>10. \A k \in 0..(N - 1) : SumOf(c, Part(D, best, k)) <= 2
    <2> SUFFICES ASSUME NEW k \in Buckets PROVE SumOf(c, Part(D, best, k)) <= 2
      BY DEF Buckets
    <2> DEFINE F == Part(D, best, k)
    <2>1. F \in SUBSET D /\ SumOf(weights, F) <= most
      BY DEF Splits, Part
    <2> HIDE DEF F
    <2>2. ASSUME NEW S \in SUBSET D, S \cap T = {} PROVE SumOf(c, S) = 0
      BY <1>5, <1>6, <2>2, SumNone
    <2>3. ASSUME NEW S \in SUBSET D, NEW x \in S
          PROVE  /\ SumOf(c, S) = c[x] + SumOf(c, S \ {x})
                 /\ SumOf(weights, S) = weights[x] + SumOf(weights, S \ {x})
                 /\ SumOf(weights, S \ {x}) \in Nat /\ S \ {x} \in SUBSET D
      <3>1. SumOf(c, S) = c[x] + SumOf(c, S \ {x})
        BY <1>5, SumTakes
      <3>2. SumOf(weights, S) = weights[x] + SumOf(weights, S \ {x})
        BY <1>1, SumTakes
      <3>3. S \ {x} \in SUBSET D
        OBVIOUS
      <3>4. SumOf(weights, S \ {x}) \in Nat
        BY <1>1, <3>3, SumTypes
      <3> QED
        BY <3>1, <3>2, <3>3, <3>4
    <2>4. CASE F \cap T = {}
      BY <2>1, <2>2, <2>4 DEF F
    <2>5. CASE F \cap T # {}
      <3>1. PICK x \in F : x \in T
        BY <2>5
      <3>2. PICK G : G = F \ {x}
        OBVIOUS
      <3>3. /\ SumOf(c, F) = c[x] + SumOf(c, G)
            /\ SumOf(weights, F) = weights[x] + SumOf(weights, G)
            /\ SumOf(weights, G) \in Nat /\ G \in SUBSET D
        BY <2>1, <2>3, <3>2, Zenon
      <3>4. CASE G \cap T = {}
        <4>1. SumOf(c, G) = 0
          BY <2>2, <3>3, <3>4
        <4> QED
          BY <1>6, <3>1, <3>3, <4>1 DEF F
      <3>5. CASE G \cap T # {}
        <4>1. PICK y \in G : y \in T
          BY <3>5
        <4>2. PICK H : H = G \ {y}
          OBVIOUS
        <4>3. /\ SumOf(c, G) = c[y] + SumOf(c, H)
              /\ SumOf(weights, G) = weights[y] + SumOf(weights, H)
              /\ SumOf(weights, H) \in Nat /\ H \in SUBSET D
          BY <2>3, <3>3, <4>2, Zenon
        <4>4. /\ weights[x] \in Nat /\ weights[y] \in Nat /\ weights[s] \in Nat
              /\ weights[x] >= weights[s] /\ weights[y] >= weights[s]
              /\ 3 * weights[x] > most /\ 3 * weights[y] > most
          BY <1>1, <1>3, <1>4, <1>8, <3>1, <4>1
        <4>5. weights[x] + weights[y] + SumOf(weights, H) <= most
          BY <1>2, <2>1, <3>3, <4>3, <4>4
        <4>6. c[x] = 1 /\ c[y] = 1
          <5>1. c[x] # 2
            <6>1. ~ (weights[x] + weights[s] > most)
              BY <1>2, <4>3, <4>4, <4>5
            <6> QED
              BY <1>9, <3>1, <6>1
          <5>2. c[y] # 2
            <6>1. ~ (weights[y] + weights[s] > most)
              BY <1>2, <4>3, <4>4, <4>5
            <6> QED
              BY <1>9, <4>1, <6>1
          <5> QED
            BY <1>6, <3>1, <4>1, <5>1, <5>2
        <4>7. H \cap T = {}
          <5> SUFFICES ASSUME NEW z \in H, z \in T PROVE FALSE
            OBVIOUS
          <5>1. weights[z] \in Nat /\ 3 * weights[z] > most
            BY <1>3, <1>4, <1>8
          <5>2. SumOf(weights, H) = weights[z] + SumOf(weights, H \ {z}) /\ SumOf(weights, H \ {z}) \in Nat
            BY <2>3, <4>3
          <5> QED
            BY <1>2, <4>4, <4>5, <5>1, <5>2
        <4>8. SumOf(c, H) = 0
          BY <2>2, <4>3, <4>7
        <4> QED
          BY <3>3, <4>3, <4>6, <4>8 DEF F
      <3> QED
        BY <3>4, <3>5
    <2> QED
      BY <2>4, <2>5
  <1>11. \A k \in 0..(N - 1) : SumOf(c, Part(DOMAIN placed, placed, k)) >= 2
    <2> SUFFICES ASSUME NEW k \in Buckets PROVE SumOf(c, Pile(k)) >= 2
      BY DEF Buckets, Pile
    <2>1. load[k] = SumOf(weights, Pile(k)) /\ load[i] <= load[k]
      BY DEF Books
    <2>2. \A x \in Pile(k) : x \in DOMAIN placed /\ placed[x] = k
      BY DEF Pile, Part
    <2>3. Pile(k) \in SUBSET D
      BY <1>1, <2>2
    <2>4. PICK F : F = Pile(k)
      OBVIOUS
    <2>5. F \in SUBSET D /\ \A x \in F : x \in DOMAIN placed /\ placed[x] = k
      BY <2>2, <2>3, <2>4, Zenon
    <2>6. F # {}
      <3> SUFFICES ASSUME F = {} PROVE FALSE
        OBVIOUS
      <3>1. SumOf(weights, Pile(k)) = 0
        BY <1>1, <2>4, SumIs, Zenon
      <3>2. load[i] = 0
        BY <1>2, <2>1, <3>1
      <3>3. PICK R : R = Part(D, best, best[s])
        OBVIOUS
      <3>4. R \in SUBSET D /\ s \in R /\ SumOf(weights, R) <= most
        <4>1. best[s] \in Buckets /\ s \in Part(D, best, best[s]) /\ Part(D, best, best[s]) \in SUBSET D
          BY <1>1 DEF Splits, Part
        <4>2. SumOf(weights, Part(D, best, best[s])) <= most
          BY <4>1 DEF Splits
        <4> QED
          BY <3>3, <4>1, <4>2, Zenon
      <3>5. SumOf(weights, R) = weights[s] + SumOf(weights, R \ {s})
        BY <1>1, <3>4, SumTakes
      <3>6. SumOf(weights, R \ {s}) \in Nat
        <4>1. R \ {s} \in SUBSET DOMAIN weights
          BY <3>4
        <4> QED
          BY <1>1, <4>1, SumTypes
      <3> QED
        BY <1>1, <1>2, <1>3, <3>2, <3>4, <3>5, <3>6
    <2>7. PICK x \in F : TRUE
      BY <2>6
    <2>8. PICK G : G = F \ {x}
      OBVIOUS
    <2>9. SumOf(c, F) = c[x] + SumOf(c, G)
      <3>1. SumOf(c, F) = c[x] + SumOf(c, F \ {x})
        BY <1>5, <2>5, SumTakes
      <3> QED
        BY <2>8, <3>1, Zenon
    <2>10. G \in SUBSET D /\ SumOf(c, G) \in Nat
      <3>1. G \in SUBSET D
        BY <2>5, <2>8
      <3> QED
        BY <1>5, <3>1, SumTypes
    <2>11. CASE G = {}
      <3>1. F = {x}
        BY <2>8, <2>11
      <3>2. Pile(placed[x]) = {x}
        BY <2>4, <2>5, <3>1, Zenon
      <3>3. c[x] = 2
        BY <1>6, <2>5, <3>2
      <3>4. SumOf(c, F) >= 2
        BY <2>9, <2>10, <3>3
      <3> QED
        BY <2>4, <3>4, Zenon
    <2>12. CASE G # {}
      <3>1. PICK y \in G : TRUE
        BY <2>12
      <3>2. SumOf(c, G) = c[y] + SumOf(c, G \ {y})
        BY <1>5, <2>10, SumTakes
      <3>3. SumOf(c, G \ {y}) \in Nat
        <4>1. G \ {y} \in SUBSET DOMAIN c
          BY <1>5, <2>10
        <4> QED
          BY <1>5, <4>1, SumTypes
      <3>4. x \in T /\ y \in T
        BY <2>5, <2>8, <3>1
      <3>5. c[x] \in {1, 2} /\ c[y] \in {1, 2}
        BY <1>6, <3>4
      <3>6. SumOf(c, F) >= 2
        BY <2>9, <3>2, <3>3, <3>5
      <3> QED
        BY <2>4, <3>6, Zenon
    <2> QED
      BY <2>11, <2>12
  <1>12. SumOf(c, D) <= N * 2
    <2>1. \A x \in D : best[x] \in 0..(N - 1)
      BY DEF Splits, Buckets
    <2> QED
      BY <1>2, <1>5, <1>10, <2>1, SharesBound
  <1>13. SumOf(c, DOMAIN placed) >= N * 2
    <2>1. \A x \in DOMAIN placed : placed[x] \in 0..(N - 1)
      BY DEF DealType, Buckets
    <2> QED
      BY <1>1, <1>2, <1>5, <1>11, <2>1, SharesBound
  <1>14. SumOf(c, DOMAIN placed) + c[s] <= SumOf(c, D)
    BY <1>1, <1>5, SumMore
  <1>15. SumOf(c, DOMAIN placed) \in Nat /\ SumOf(c, D) \in Nat
    BY <1>1, <1>5, SumTypes
  <1> HIDE DEF D
  <1> QED
    BY <1>2, <1>7, <1>12, <1>13, <1>14, <1>15

LEMMA NearKept ==
    ASSUME DealType, Books, Heavier, Near, NEW s \in DOMAIN weights, NEW i \in Buckets, Deal(s, i)
    PROVE  Near' /\ Heavier'
  <1>1. /\ weights' = weights /\ s \notin DOMAIN placed
        /\ DOMAIN placed' = DOMAIN placed \cup {s}
        /\ \A j \in Buckets : load'[j] = IF j = i THEN load[i] + weights[s] ELSE load[j]
    BY DEF Deal, DealType
  <1>2. \A j \in Buckets : load[i] <= load[j]
    BY DEF Deal, Before, DealType
  <1>3. \A x \in DOMAIN weights : weights[x] \in Nat
    BY DEF DealType
  <1>4. \A other \in DOMAIN weights \ (DOMAIN placed \cup {s}) : weights[s] >= weights[other]
    BY <1>3 DEF Deal, Earlier
  <1>5. \A x \in DOMAIN placed : weights[x] >= weights[s]
    BY <1>1 DEF Heavier
  <1>6. Heavier'
    <2> SUFFICES ASSUME NEW x \in DOMAIN placed', NEW y \in DOMAIN weights' \ DOMAIN placed'
                 PROVE  weights'[x] >= weights'[y]
      BY DEF Heavier
    <2>1. x \in DOMAIN placed \/ x = s
      BY <1>1
    <2>2. y \in DOMAIN weights \ (DOMAIN placed \cup {s})
      BY <1>1
    <2> QED
      BY <1>1, <1>4, <2>1, <2>2 DEF Heavier
  <1>7. Near'
    <2> SUFFICES ASSUME NEW best, NEW most, Splits(best, most)', NEW j \in Buckets
                 PROVE  3 * N * load'[j] <= (4 * N - 1) * most
      BY DEF Near, Buckets
    <2>1. Splits(best, most)
      BY <1>1 DEF Splits, Buckets
    <2>2. CASE j # i
      BY <1>1, <2>1, <2>2 DEF Near
    <2>3. CASE j = i
      <3>1. 3 * N * (load[i] + weights[s]) <= (4 * N - 1) * most
        <4>1. CASE 3 * weights[s] <= most
          BY <1>1, <1>2, <2>1, <4>1, LightFits
        <4>2. CASE ~ (3 * weights[s] <= most)
          <5>1. most \in Nat /\ load[i] \in Nat /\ weights[s] \in Nat /\ N \in Nat \ {0}
            BY <1>3, <2>1, ShardsAssumption DEF Splits, DealType
          <5>2. 3 * weights[s] > most
            BY <4>2, <5>1
          <5>3. load[i] + weights[s] <= most
            BY <1>1, <1>2, <1>5, <2>1, <5>2, HeavyFits
          <5>4. 3 * N * (load[i] + weights[s]) <= 3 * N * most
            BY <5>1, <5>3
          <5>5. 3 * N * most <= (4 * N - 1) * most
            <6>1. (4 * N - 1) * most = 3 * N * most + (N - 1) * most
              BY <5>1
            <6>2. (N - 1) * most \in Nat /\ 3 * N * most \in Nat
              BY <5>1
            <6> QED
              BY <6>1, <6>2
          <5>6. /\ 3 * N * (load[i] + weights[s]) \in Nat /\ 3 * N * most \in Nat
                /\ (4 * N - 1) * most \in Nat
            BY <5>1
          <5> QED
            BY <5>4, <5>5, <5>6
        <4> QED
          BY <4>1, <4>2
      <3> QED
        BY <1>1, <2>3, <3>1
    <2> QED
      BY <2>2, <2>3
  <1> QED
    BY <1>6, <1>7

LEMMA LongestIs ==
    ASSUME DealType, NEW deal, DOMAIN deal \in SUBSET DOMAIN weights
    PROVE  /\ \E i \in Buckets : Longest(deal) = Weigh(deal, i)
           /\ \A i \in Buckets : Weigh(deal, i) <= Longest(deal)
  <1> DEFINE all == {Weigh(deal, i) : i \in Buckets}
             bounds == {n \in Nat : \A i \in Buckets : Weigh(deal, i) <= n}
  <1>1. N \in Nat \ {0} /\ Charges(weights)
    BY ShardsAssumption DEF DealType, Charges
  <1>2. ASSUME NEW i \in Buckets
        PROVE  Weigh(deal, i) \in Nat /\ Weigh(deal, i) <= SumOf(weights, DOMAIN weights)
    <2> DEFINE A == Part(DOMAIN deal, deal, i)
               B == DOMAIN weights \ A
    <2>1. A \in SUBSET DOMAIN weights /\ B \in SUBSET DOMAIN weights /\ A \cap B = {}
      BY DEF Part
    <2>2. SumOf(weights, A \cup B) = SumOf(weights, DOMAIN weights)
      <3>1. A \cup B = DOMAIN weights
        BY <2>1
      <3> QED
        BY <3>1, Zenon
    <2>3. Weigh(deal, i) = SumOf(weights, A)
      BY WeighIs
    <2> HIDE DEF A, B
    <2>4. SumOf(weights, A \cup B) = SumOf(weights, A) + SumOf(weights, B)
      BY <1>1, <2>1, SumJoins
    <2>5. SumOf(weights, A) \in Nat /\ SumOf(weights, B) \in Nat
      BY <1>1, <2>1, SumTypes
    <2> QED
      BY <2>2, <2>3, <2>4, <2>5
  <1>3. SumOf(weights, DOMAIN weights) \in bounds
    BY <1>1, <1>2, SumTypes
  <1>4. PICK n \in bounds : \A m \in bounds : n <= m
    <2> HIDE DEF bounds
    <2>1. bounds \subseteq Nat
      BY DEF bounds
    <2> QED
      BY <1>3, <2>1, LeastNumber
  <1>5. \E i \in Buckets : Weigh(deal, i) = n
    <2> SUFFICES ASSUME \A i \in Buckets : Weigh(deal, i) # n PROVE FALSE
      OBVIOUS
    <2>1. \A i \in Buckets : Weigh(deal, i) <= n - 1
      BY <1>2, <1>4
    <2>2. 0 \in Buckets
      BY <1>1 DEF Buckets
    <2>3. n - 1 \in Nat
      BY <1>2, <1>4, <2>1, <2>2
    <2>4. n - 1 \in bounds
      BY <2>1, <2>3
    <2> QED
      BY <1>4, <2>3, <2>4
  <1>6. \E ms \in all : \A i \in Buckets : Weigh(deal, i) <= ms
    BY <1>4, <1>5
  <1>7. Longest(deal) \in all /\ \A i \in Buckets : Weigh(deal, i) <= Longest(deal)
    BY <1>6, Zenon DEF Longest
  <1> QED
    BY <1>7

LEMMA NearIsNearBest ==
    ASSUME DealType, Books, Near
    PROVE  NearBest
  <1> SUFFICES ASSUME Dealt, NEW best \in [DOMAIN weights -> Buckets]
               PROVE  3 * N * Longest(placed) <= (4 * N - 1) * Longest(best)
    BY DEF NearBest
  <1>1. DOMAIN placed \in SUBSET DOMAIN weights /\ DOMAIN best \in SUBSET DOMAIN weights
    BY DEF DealType
  <1>2. PICK i \in Buckets : Longest(placed) = Weigh(placed, i)
    BY <1>1, LongestIs
  <1>3. Longest(placed) = load[i]
    BY <1>2, WeighIs DEF Books, Pile
  <1>4. PICK j \in Buckets : Longest(best) = Weigh(best, j)
    BY <1>1, LongestIs
  <1>5. \A k \in Buckets : Weigh(best, k) <= Longest(best)
    BY <1>1, LongestIs
  <1>6. \A k \in Buckets : Weigh(best, k) = SumOf(weights, Part(DOMAIN weights, best, k))
    <2> SUFFICES ASSUME NEW k \in Buckets
                 PROVE  Weigh(best, k) = SumOf(weights, Part(DOMAIN weights, best, k))
      OBVIOUS
    <2>1. Weigh(best, k) = SumOf(weights, Part(DOMAIN best, best, k))
      BY WeighIs
    <2>2. DOMAIN best = DOMAIN weights
      OBVIOUS
    <2> QED
      BY <2>1, <2>2, Zenon
  <1>7. Longest(best) \in Nat
    <2>1. Charges(weights) /\ Part(DOMAIN weights, best, j) \in SUBSET DOMAIN weights
      BY DEF DealType, Charges, Part
    <2>2. SumOf(weights, Part(DOMAIN weights, best, j)) \in Nat
      BY <2>1, SumTypes
    <2> QED
      BY <1>4, <1>6, <2>2
  <1>8. Splits(best, Longest(best))
    BY <1>5, <1>6, <1>7 DEF Splits
  <1> QED
    BY <1>3, <1>8 DEF Near

ShardsInv == DealInv /\ Books /\ Heavier /\ Near

LEMMA InitShards == DealInit => ShardsInv
  <1> SUFFICES ASSUME DealInit PROVE ShardsInv
    OBVIOUS
  <1>1. DealInv
    BY InitDeal
  <1>2. DealType /\ Charges(weights)
    BY <1>1 DEF DealInv, DealType, Charges
  <1>3. placed = <<>> /\ \A j \in Buckets : load[j] = 0 /\ taken[j] = 0
    BY DEF DealInit
  <1>4. DOMAIN placed = {}
    BY <1>3
  <1>5. Heavier
    BY <1>4 DEF Heavier
  <1>6. Books
    <2> SUFFICES ASSUME NEW j \in Buckets
                 PROVE  load[j] = SumOf(weights, Pile(j)) /\ taken[j] = Cardinality(Pile(j))
      BY DEF Books
    <2>1. Pile(j) = {}
      BY <1>4 DEF Pile, Part
    <2>2. SumOf(weights, Pile(j)) = 0 /\ Cardinality(Pile(j)) = 0
      BY <1>2, <2>1, SumIs, FS_EmptySet, Zenon
    <2> QED
      BY <1>3, <2>2
  <1>7. Near
    <2> SUFFICES ASSUME NEW best, NEW most, Splits(best, most), NEW j \in Buckets
                 PROVE  3 * N * load[j] <= (4 * N - 1) * most
      BY DEF Near
    <2>1. most \in Nat /\ N \in Nat \ {0}
      BY ShardsAssumption DEF Splits
    <2>2. 3 * N * 0 = 0 /\ (4 * N - 1) * most \in Nat
      BY <2>1
    <2> QED
      BY <1>3, <2>2
  <1> QED
    BY <1>1, <1>5, <1>6, <1>7 DEF ShardsInv

LEMMA StepShards == ShardsInv /\ [DealStep]_svars => ShardsInv'
  <1>1. ASSUME ShardsInv, UNCHANGED svars PROVE ShardsInv'
    <2>1. DealInv'
      BY <1>1, StepDeal DEF ShardsInv
    <2>2. weights' = weights /\ placed' = placed /\ load' = load /\ taken' = taken
      BY <1>1 DEF svars
    <2>3. Heavier'
      BY <1>1, <2>2 DEF ShardsInv, Heavier
    <2>4. Books'
      BY <1>1, <2>2, Zenon DEF ShardsInv, Books, Pile, Part, Buckets
    <2>5. Near'
      BY <1>1, <2>2, Zenon DEF ShardsInv, Near, Splits, Part, Buckets
    <2> QED
      BY <2>1, <2>3, <2>4, <2>5 DEF ShardsInv
  <1>2. ASSUME ShardsInv, NEW s \in DOMAIN weights, NEW i \in Buckets, Deal(s, i) PROVE ShardsInv'
    <2>1. DealType /\ Books /\ Heavier /\ Near /\ DealInv
      BY <1>2 DEF ShardsInv, DealInv
    <2>2. Books'
      BY <1>2, <2>1, BooksKept
    <2>3. Near' /\ Heavier'
      BY <1>2, <2>1, NearKept
    <2>4. DealInv'
      BY <1>2, <2>1, DealKeeps
    <2> QED
      BY <2>2, <2>3, <2>4 DEF ShardsInv
  <1> QED
    BY <1>1, <1>2 DEF DealStep

LEMMA ShardsHold == ShardsInv => ShardsEven
  <1> SUFFICES ASSUME ShardsInv PROVE ShardsEven
    OBVIOUS
  <1>1. DealInv /\ DealType /\ Books /\ Near /\ LevelInv
    BY DEF ShardsInv, DealInv
  <1>2. BooksTrue
    <2> SUFFICES ASSUME NEW i \in Buckets
                 PROVE  /\ load[i] = Weigh(placed, i)
                        /\ taken[i] = Cardinality({s \in DOMAIN placed : placed[s] = i})
      BY DEF BooksTrue
    <2>1. load[i] = SumOf(weights, Pile(i)) /\ taken[i] = Cardinality(Pile(i))
      BY <1>1 DEF Books
    <2>2. Weigh(placed, i) = SumOf(weights, Pile(i))
      BY WeighIs DEF Pile
    <2> QED
      BY <2>1, <2>2, Zenon DEF Pile, Part
  <1> QED
    BY <1>1, <1>2, EvenShares, PlacedShares, NearIsNearBest DEF ShardsEven

(***************************************************************************)
(* The split of --shard-weights (timings.rs, assign; exec.rs), for any      *)
(* count of shards and any weights file: at every step of the deal the      *)
(* books are those of what was dealt, and no shard is further ahead of      *)
(* another one than the heaviest scenario; with equal weights (zero         *)
(* included) no shard gets two scenarios more than another one; the longest *)
(* shard is within 4/3 - 1/3N of that of the best split there is, as the    *)
(* comment of assign says; and every job of a matrix, whatever its          *)
(* selection and the hash of what the file does not know, runs what no      *)
(* other one does, with nothing left over.                                  *)
(***************************************************************************)
THEOREM DealIsEven == DealSpec => []ShardsEven
  BY InitShards, StepShards, ShardsHold, PTL DEF DealSpec

-----------------------------------------------------------------------------
(***************************************************************************)
(* The gate, the listings and the jobs of a matrix, for any project, any    *)
(* command line and any count of shards.                                    *)
(***************************************************************************)

(***************************************************************************)
(* What an answer is: the code of some stop that applies, or that none      *)
(* does.                                                                    *)
(***************************************************************************)
LEMMA AnswerIs ==
    ASSUME NEW stops, NEW n \in Nat, DOMAIN stops = 1..n,
           \A k \in 1..n : stops[k].code # "Success"
    PROVE  /\ Answer(stops) = "Success" <=> \A k \in 1..n : ~ stops[k].when
           /\ Answer(stops) # "Success" => \E k \in 1..n : stops[k].when /\ Answer(stops) = stops[k].code
  <1> DEFINE hit == {k \in DOMAIN stops : stops[k].when}
  <1>1. CASE hit = {}
    BY <1>1 DEF Answer
  <1>2. CASE hit # {}
    <2>1. PICK k \in hit : \A l \in hit : k <= l
      <3>1. hit \subseteq Nat
        OBVIOUS
      <3> HIDE DEF hit
      <3> QED
        BY <1>2, <3>1, LeastNumber, Zenon
    <2> DEFINE least == CHOOSE l \in hit : \A m \in hit : l <= m
    <2>2. least \in hit /\ Answer(stops) = stops[least].code
      BY <1>2, <2>1 DEF Answer
    <2> QED
      BY <1>2, <2>2
  <1> QED
    BY <1>1, <1>2

LEMMA StopIs == \A when, code : Stop(when, code).when = when /\ Stop(when, code).code = code
  BY DEF Stop

GateOpens ==
    /\ project.exclusive # "malformed" /\ Loads(project.suite) /\ "missing" \notin Ends(Suite)
    /\ ~ (Filtered /\ Picked(Suite) = {}) /\ PhasesLoad

LEMMA GateSays == Gate.exit = "Success" <=> GateOpens
  <1> DEFINE a1 == Stop(project.exclusive = "malformed", "UserError")
             a2 == Stop(~Loads(project.suite), "UserError")
             a3 == Stop("missing" \in Ends(Suite), "UserError")
             a4 == Stop(Filtered /\ Picked(Suite) = {}, "UserError")
             a5 == Stop(~PhasesLoad, "UserError")
             stops == <<a1, a2, a3, a4, a5>>
  <1>1. Gate.exit = Answer(stops)
    BY DEF Gate, Refuse
  <1>2. /\ a1.when = (project.exclusive = "malformed") /\ a2.when = ~Loads(project.suite)
        /\ a3.when = ("missing" \in Ends(Suite)) /\ a4.when = (Filtered /\ Picked(Suite) = {})
        /\ a5.when = ~PhasesLoad
    BY StopIs, Zenon
  <1>3. /\ a1.code = "UserError" /\ a2.code = "UserError" /\ a3.code = "UserError"
        /\ a4.code = "UserError" /\ a5.code = "UserError"
    BY StopIs, Zenon
  <1> HIDE DEF a1, a2, a3, a4, a5
  <1>4. /\ DOMAIN stops = 1..5
        /\ stops[1] = a1 /\ stops[2] = a2 /\ stops[3] = a3 /\ stops[4] = a4 /\ stops[5] = a5
    OBVIOUS
  <1> HIDE DEF stops
  <1>5. \A k \in 1..5 : stops[k].code # "Success"
    BY <1>3, <1>4
  <1>6. Answer(stops) = "Success" <=> \A k \in 1..5 : ~ stops[k].when
    BY <1>4, <1>5, AnswerIs
  <1>7. (\A k \in 1..5 : ~ stops[k].when)
          <=> /\ ~ a1.when /\ ~ a2.when /\ ~ a3.when /\ ~ a4.when /\ ~ a5.when
    BY <1>4
  <1>8. GateOpens <=> /\ ~ a1.when /\ ~ a2.when /\ ~ a3.when /\ ~ a4.when /\ ~ a5.when
    BY <1>2, Zenon DEF GateOpens
  <1> QED
    BY <1>1, <1>6, <1>7, <1>8

LEMMA ListSays == MacroList.exit = "Success" <=> Loads(project.suite)
  <1> DEFINE stops == <<Stop(~Loads(project.suite), "UserError")>>
  <1>1. MacroList.exit = Answer(stops) /\ DOMAIN stops = 1..1 /\ stops[1] = Stop(~Loads(project.suite), "UserError")
    BY DEF MacroList
  <1> HIDE DEF stops
  <1>2. \A k \in 1..1 : stops[k].code # "Success"
    BY <1>1, StopIs
  <1>3. Answer(stops) = "Success" <=> \A k \in 1..1 : ~ stops[k].when
    BY <1>1, <1>2, AnswerIs
  <1>4. (\A k \in 1..1 : ~ stops[k].when) <=> ~ stops[1].when
    OBVIOUS
  <1> QED
    BY <1>1, <1>3, <1>4, StopIs, Zenon

LEMMA CheckSays ==
    FragmentCheck.exit = "Success" => Counted /\ project.corpus /\ NeverRun = {}
  <1> DEFINE stops == <<Stop(~Counted, "UserError"), Stop(~project.corpus, "UserError"),
                        Stop(NeverRun # {}, "TestFailure"),
                        Stop(asked.annotated /\ project.bare, "TestFailure")>>
  <1>1. /\ FragmentCheck.exit = Answer(stops) /\ DOMAIN stops = 1..4
        /\ stops[1] = Stop(~Counted, "UserError") /\ stops[2] = Stop(~project.corpus, "UserError")
        /\ stops[3] = Stop(NeverRun # {}, "TestFailure")
        /\ stops[4] = Stop(asked.annotated /\ project.bare, "TestFailure")
    BY DEF FragmentCheck
  <1> HIDE DEF stops
  <1>2. \A k \in 1..4 : stops[k].code # "Success"
    BY <1>1, StopIs
  <1>3. Answer(stops) = "Success" <=> \A k \in 1..4 : ~ stops[k].when
    BY <1>1, <1>2, AnswerIs
  <1>4. (\A k \in 1..4 : ~ stops[k].when) => ~ stops[1].when /\ ~ stops[2].when /\ ~ stops[3].when
    OBVIOUS
  <1> QED
    BY <1>1, <1>3, <1>4, StopIs, Zenon

\* The setup that a job stops at, and what it goes on with otherwise.
Built ==
    /\ project.setup \notin project.broken
    /\ ~ (project.setup # "none" /\ Ends(In({project.setup})) = {})
    /\ Ends(In({project.setup})) \cap {"missing", "failed"} = {}

Loaded ==
    /\ project.exclusive # "malformed" /\ Loads(project.suite) /\ project.teardown \notin project.broken

Goes(own) == Loaded /\ (NothingToRerun \/ (Built /\ ~ NothingToRun(own)))

LEMMA RefusalSaysClean ==
    ASSUME NEW own, NothingToRerun
    PROVE  /\ Refusal(own) = "Success" <=> Loaded
           /\ Refusal(own) \in {"Success", "UserError"}
  <1> DEFINE a1 == Stop(project.exclusive = "malformed", "UserError")
             a2 == Stop(~Loads(project.suite), "UserError")
             a3 == Stop(project.teardown \in project.broken, "UserError")
             stops == <<a1, a2, a3>>
  <1>1. Refusal(own) = Answer(stops)
    <2>1. LoadStops = stops
      BY DEF LoadStops
    <2> HIDE DEF stops
    <2>2. Refusal(own) = Answer(LoadStops \o <<>>)
      BY DEF Refusal
    <2>3. LoadStops \o <<>> = LoadStops
      BY DEF LoadStops
    <2> QED
      BY <2>1, <2>2, <2>3
  <1>2. /\ a1.when = (project.exclusive = "malformed") /\ a2.when = ~Loads(project.suite)
        /\ a3.when = (project.teardown \in project.broken)
    BY StopIs, Zenon
  <1>3. a1.code = "UserError" /\ a2.code = "UserError" /\ a3.code = "UserError"
    BY StopIs, Zenon
  <1> HIDE DEF a1, a2, a3
  <1>4. DOMAIN stops = 1..3 /\ stops[1] = a1 /\ stops[2] = a2 /\ stops[3] = a3
    OBVIOUS
  <1> HIDE DEF stops
  <1>5. \A k \in 1..3 : stops[k].code = "UserError"
    BY <1>3, <1>4
  <1>6. /\ Answer(stops) = "Success" <=> \A k \in 1..3 : ~ stops[k].when
        /\ Answer(stops) # "Success" => \E k \in 1..3 : stops[k].when /\ Answer(stops) = stops[k].code
    BY <1>4, <1>5, AnswerIs
  <1>7. (\A k \in 1..3 : ~ stops[k].when) <=> ~ a1.when /\ ~ a2.when /\ ~ a3.when
    BY <1>4
  <1>8. Loaded <=> ~ a1.when /\ ~ a2.when /\ ~ a3.when
    BY <1>2, Zenon DEF Loaded
  <1> QED
    BY <1>1, <1>5, <1>6, <1>7, <1>8

LEMMA RefusalSaysElse ==
    ASSUME NEW own, ~ NothingToRerun
    PROVE  /\ Refusal(own) = "Success" <=> Goes(own)
           /\ Refusal(own) \in {"Success", "UserError"}
  <1> DEFINE ends == Ends(In({project.setup}))
             a1 == Stop(project.exclusive = "malformed", "UserError")
             a2 == Stop(~Loads(project.suite), "UserError")
             a3 == Stop(project.teardown \in project.broken, "UserError")
             a4 == Stop(project.setup \in project.broken, "UserError")
             a5 == Stop(project.setup # "none" /\ ends = {}, "UserError")
             a6 == Stop(ends \cap {"missing", "failed"} # {}, "UserError")
             a7 == Stop(NothingToRun(own), "UserError")
             stops == <<a1, a2, a3>> \o (SetupStops \o <<Refuse(NothingToRun(own))>>)
  <1>1. Refusal(own) = Answer(stops)
    BY DEF Refusal, LoadStops
  <1>2. SetupStops = <<a4, a5, a6>> /\ Refuse(NothingToRun(own)) = a7
    BY DEF SetupStops, Refuse
  <1>3. /\ a1.when = (project.exclusive = "malformed") /\ a2.when = ~Loads(project.suite)
        /\ a3.when = (project.teardown \in project.broken)
        /\ a4.when = (project.setup \in project.broken)
        /\ a5.when = (project.setup # "none" /\ ends = {})
        /\ a6.when = (ends \cap {"missing", "failed"} # {})
        /\ a7.when = NothingToRun(own)
    BY StopIs, Zenon
  <1>4. /\ a1.code = "UserError" /\ a2.code = "UserError" /\ a3.code = "UserError"
        /\ a4.code = "UserError" /\ a5.code = "UserError" /\ a6.code = "UserError" /\ a7.code = "UserError"
    BY StopIs, Zenon
  <1> HIDE DEF a1, a2, a3, a4, a5, a6, a7
  <1>5. /\ DOMAIN stops = 1..7
        /\ stops[1] = a1 /\ stops[2] = a2 /\ stops[3] = a3 /\ stops[4] = a4
        /\ stops[5] = a5 /\ stops[6] = a6 /\ stops[7] = a7
    BY <1>2
  <1> HIDE DEF stops
  <1>6. \A k \in 1..7 : stops[k].code = "UserError"
    BY <1>4, <1>5
  <1>7. /\ Answer(stops) = "Success" <=> \A k \in 1..7 : ~ stops[k].when
        /\ Answer(stops) # "Success" => Answer(stops) = "UserError"
    <2>1. \A k \in 1..7 : stops[k].code # "Success"
      BY <1>6
    <2>2. /\ Answer(stops) = "Success" <=> \A k \in 1..7 : ~ stops[k].when
          /\ Answer(stops) # "Success" => \E k \in 1..7 : stops[k].when /\ Answer(stops) = stops[k].code
      BY <1>5, <2>1, AnswerIs
    <2> QED
      BY <1>6, <2>2
  <1>8. (\A k \in 1..7 : ~ stops[k].when)
          <=> /\ ~ a1.when /\ ~ a2.when /\ ~ a3.when /\ ~ a4.when
              /\ ~ a5.when /\ ~ a6.when /\ ~ a7.when
    BY <1>5
  <1>9. Goes(own) <=> /\ ~ a1.when /\ ~ a2.when /\ ~ a3.when /\ ~ a4.when
                      /\ ~ a5.when /\ ~ a6.when /\ ~ a7.when
    BY <1>3, Zenon DEF Goes, Loaded, Built
  <1> QED
    BY <1>1, <1>7, <1>8, <1>9

LEMMA RefusalSays ==
    ASSUME NEW own
    PROVE  /\ Refusal(own) = "Success" <=> Goes(own)
           /\ Refusal(own) \in {"Success", "UserError"}
  <1>1. CASE NothingToRerun
    <2>1. Goes(own) <=> Loaded
      BY <1>1, Zenon DEF Goes
    <2> QED
      BY <1>1, <2>1, RefusalSaysClean, Zenon
  <1>2. CASE ~ NothingToRerun
    BY <1>2, RefusalSaysElse, Zenon
  <1> QED
    BY <1>1, <1>2

LEMMA VerdictSays ==
    ASSUME NEW own, own # {}
    PROVE  /\ Ended(own) = "Success" => "missing" \notin Ends(own) /\ "failed" \notin Ends(own)
           /\ /\ ~ (project.teardown # "none" /\ Ends(In({project.teardown})) = {})
              /\ Ends(In({project.teardown})) \cap {"missing", "failed"} = {}
              /\ "missing" \notin Ends(own)
              => Ended(own) \in {"Success", "TestFailure"}
  <1> DEFINE ends == Ends(In({project.teardown}))
             b1 == Stop(project.teardown # "none" /\ ends = {}, "UserError")
             b2 == Stop(ends \cap {"missing", "failed"} # {}, "SystemError")
             b3 == Stop("missing" \in Ends(own), "UserError")
             b4 == Stop("failed" \in Ends(own), "TestFailure")
             stops == TeardownStops \o <<b3, b4>>
  <1>1. Ended(own) = Answer(stops)
    BY DEF Ended
  <1>2. TeardownStops = <<b1, b2>>
    BY DEF TeardownStops
  <1>3. /\ b1.when = (project.teardown # "none" /\ ends = {})
        /\ b2.when = (ends \cap {"missing", "failed"} # {})
        /\ b3.when = ("missing" \in Ends(own)) /\ b4.when = ("failed" \in Ends(own))
        /\ b1.code = "UserError" /\ b2.code = "SystemError" /\ b3.code = "UserError" /\ b4.code = "TestFailure"
    BY StopIs, Zenon
  <1> HIDE DEF b1, b2, b3, b4
  <1>4. DOMAIN stops = 1..4 /\ stops[1] = b1 /\ stops[2] = b2 /\ stops[3] = b3 /\ stops[4] = b4
    BY <1>2
  <1> HIDE DEF stops
  <1>5. \A k \in 1..4 : stops[k].code # "Success"
    BY <1>3, <1>4
  <1>6. /\ Answer(stops) = "Success" <=> \A k \in 1..4 : ~ stops[k].when
        /\ Answer(stops) # "Success" => \E k \in 1..4 : stops[k].when /\ Answer(stops) = stops[k].code
    BY <1>4, <1>5, AnswerIs
  <1>7. Ended(own) = "Success" => ~ b3.when /\ ~ b4.when
    BY <1>1, <1>4, <1>6
  <1>8. ~ b1.when /\ ~ b2.when /\ ~ b3.when => Ended(own) \in {"Success", b4.code}
    <2> SUFFICES ASSUME ~ b1.when, ~ b2.when, ~ b3.when, Answer(stops) # "Success" PROVE Answer(stops) = b4.code
      BY <1>1
    <2>1. PICK k \in 1..4 : stops[k].when /\ Answer(stops) = stops[k].code
      BY <1>6
    <2>2. k = 4
      BY <1>4, <2>1
    <2> QED
      BY <1>4, <2>1, <2>2
  <1> HIDE DEF ends
  <1> QED
    BY <1>3, <1>7, <1>8 DEF ends

\* A shard without scenarios: no teardown, nothing failed.
LEMMA EmptyPasses == Ended({}) \in {"Success", "TestFailure"}
  <1> DEFINE b3 == Stop("missing" \in Ends({}), "UserError")
             b4 == Stop("failed" \in Ends({}), "TestFailure")
             stops == <<>> \o <<b3, b4>>
  <1>1. Ended({}) = Answer(stops)
    BY DEF Ended
  <1>2. Ends({}) = {}
    BY DEF Ends
  <1>3. /\ ~ b3.when /\ ~ b4.when /\ b3.code = "UserError" /\ b4.code = "TestFailure"
    <2>1. b3.when = ("missing" \in Ends({})) /\ b4.when = ("failed" \in Ends({}))
      BY StopIs, Zenon
    <2>2. b3.code = "UserError" /\ b4.code = "TestFailure"
      BY StopIs, Zenon
    <2> HIDE DEF b3, b4
    <2> QED
      BY <1>2, <2>1, <2>2
  <1> HIDE DEF b3, b4
  <1>4. DOMAIN stops = 1..2 /\ stops[1] = b3 /\ stops[2] = b4
    OBVIOUS
  <1> HIDE DEF stops
  <1>5. \A k \in 1..2 : stops[k].code # "Success" /\ ~ stops[k].when
    BY <1>3, <1>4
  <1> QED
    BY <1>1, <1>4, <1>5, AnswerIs

(***************************************************************************)
(* The invariant: each answer is what its reader makes of the project, and  *)
(* the jobs that are over had, from the first on, the shares of their       *)
(* places in a deal that was done before.                                   *)
(***************************************************************************)
MatrixInv ==
    /\ DealInv
    /\ project \in Projects /\ hash \in Hashes
    /\ dry # Unasked => dry = Gate
    /\ listed # Unasked => listed = MacroList
    /\ checked # Unasked => checked = FragmentCheck /\ listed # Unasked
    /\ jobs # <<>> => Dealt
    /\ Len(jobs) \in 0..JobCount
    /\ jobs = [i \in 1..Len(jobs) |-> JobOf(Own(i - 1))]

LEMMA MatrixStarts == DealInit /\ CommandInit => MatrixInv
  <1> SUFFICES ASSUME DealInit, CommandInit PROVE MatrixInv
    OBVIOUS
  <1>1. DealInv
    BY InitDeal
  <1>2. /\ dry = Unasked /\ listed = Unasked /\ checked = Unasked /\ jobs = <<>>
        /\ project \in Projects /\ hash \in Hashes
    BY DEF CommandInit
  <1>3. JobCount \in Nat
    BY ShardsAssumption DEF JobCount
  <1>4. Len(jobs) \in 0..JobCount /\ jobs = [i \in 1..Len(jobs) |-> JobOf(Own(i - 1))]
    <2>1. Len(jobs) = 0 /\ jobs = [i \in 1..0 |-> JobOf(Own(i - 1))]
      BY <1>2
    <2> QED
      BY <1>3, <2>1
  <1> QED
    BY <1>1, <1>2, <1>4 DEF MatrixInv

\* What the readers say depends on the project, the command line, the hash and
\* the deal.
LEMMA SaidAlike ==
    ASSUME UNCHANGED <<project, asked, hash>>
    PROVE  /\ Gate' = Gate /\ MacroList' = MacroList /\ FragmentCheck' = FragmentCheck
           /\ JobCount' = JobCount
           /\ placed' = placed => \A i : JobOf(Own(i))' = JobOf(Own(i))
  <1>1. /\ Suite' = Suite /\ PhaseFiles' = PhaseFiles /\ In(PhaseFiles)' = In(PhaseFiles)
        /\ In({project.setup})' = In({project.setup}) /\ In({project.teardown})' = In({project.teardown})
        /\ Loads(project.suite)' = Loads(project.suite) /\ PhasesLoad' = PhasesLoad
    BY DEF Suite, In, PhaseFiles, Loads, PhasesLoad
  <1>2. Gate' = Gate
    BY <1>1 DEF Gate, Answer, Stop, Refuse, Ends, Filtered, Picked, NoneExclusive
  <1>3. MacroList' = MacroList
    BY <1>1 DEF MacroList, Answer, Stop, IsDead, Says
  <1>4. FragmentCheck' = FragmentCheck
    <2>1. Counted' = Counted /\ NeverRun' = NeverRun
      BY <1>1 DEF Counted, NeverRun, Runs, Reach, Says
    <2> QED
      BY <2>1 DEF FragmentCheck, Answer, Stop, Unreachable, Unreferenced, Refers
  <1>5. JobCount' = JobCount
    BY DEF JobCount
  <1>6. ASSUME placed' = placed, NEW i PROVE JobOf(Own(i))' = JobOf(Own(i))
    <2>1. Chosen' = Chosen
      BY <1>1 DEF Chosen, Picked, Excluded
    <2>2. Own(i)' = Own(i)
      BY <1>6, <2>1 DEF Own, Mine
    <2>3. /\ NothingToRun(Own(i))' = NothingToRun(Own(i)) /\ Ends(Own(i))' = Ends(Own(i))
          /\ SetupStops' = SetupStops /\ TeardownStops' = TeardownStops
      <3>1. NothingToRun(Own(i))' = NothingToRun(Own(i))
        BY <2>1, <2>2 DEF NothingToRun
      <3>2. /\ Ends(Own(i))' = Ends(Own(i))
            /\ Ends(In({project.setup}))' = Ends(In({project.setup}))
            /\ Ends(In({project.teardown}))' = Ends(In({project.teardown}))
        BY <1>1, <2>2 DEF Ends
      <3>3. SetupStops' = SetupStops /\ TeardownStops' = TeardownStops
        BY <3>2 DEF SetupStops, TeardownStops, Stop
      <3> QED
        BY <3>1, <3>2, <3>3
    <2>4. Refusal(Own(i))' = Refusal(Own(i))
      BY <1>1, <2>3 DEF Refusal, LoadStops, NothingToRerun, Answer, Stop, Refuse
    <2>5. Ended(Own(i))' = Ended(Own(i))
      BY <2>2, <2>3 DEF Ended, Answer, Stop
    <2> QED
      BY <1>1, <2>2, <2>4, <2>5 DEF JobOf, NothingToRerun
  <1> QED
    BY <1>2, <1>3, <1>4, <1>5, <1>6

LEMMA DealtInv == MatrixInv /\ DealStep /\ UNCHANGED cvars => MatrixInv'
  <1> SUFFICES ASSUME MatrixInv, DealStep, UNCHANGED cvars PROVE MatrixInv'
    OBVIOUS
  <1>1. UNCHANGED <<project, asked, hash, dry, listed, checked, jobs>>
    BY DEF cvars
  <1>2. DealInv'
    BY StepDeal DEF MatrixInv
  <1>3. ~ Dealt
    BY DEF DealStep, Deal, Dealt
  <1>4. jobs = <<>>
    BY <1>3 DEF MatrixInv
  <1>5. /\ Gate' = Gate /\ MacroList' = MacroList /\ FragmentCheck' = FragmentCheck /\ JobCount' = JobCount
    BY <1>1, SaidAlike
  <1>6. Unasked' = Unasked
    BY DEF Unasked
  <1>7. jobs' = <<>> /\ Len(jobs') = 0 /\ (Len(jobs) \in 0..JobCount)'
    BY <1>1, <1>4, <1>5 DEF MatrixInv
  <1>8. (jobs = [i \in 1..Len(jobs) |-> JobOf(Own(i - 1))])'
    BY <1>7
  <1> QED
    BY <1>1, <1>2, <1>5, <1>6, <1>7, <1>8 DEF MatrixInv

LEMMA CommandKeeps == MatrixInv /\ (CommandStep \/ UNCHANGED cvars) /\ UNCHANGED svars => MatrixInv'
  <1> SUFFICES ASSUME MatrixInv, CommandStep \/ UNCHANGED cvars, UNCHANGED svars PROVE MatrixInv'
    OBVIOUS
  <1>1. UNCHANGED <<project, asked, hash, weights, placed, load, taken>>
    BY DEF cvars, svars, CommandStep, DryRun, ListMacros, CheckFragments, Job
  <1>2. DealInv'
    BY StepDeal DEF MatrixInv
  <1>3. /\ Gate' = Gate /\ MacroList' = MacroList /\ FragmentCheck' = FragmentCheck
        /\ JobCount' = JobCount /\ \A i : JobOf(Own(i))' = JobOf(Own(i))
    BY <1>1, SaidAlike
  <1>4. Unasked' = Unasked /\ Dealt' = Dealt
    BY <1>1 DEF Unasked, Dealt
  <1>5. /\ dry' # Unasked => dry' = Gate
        /\ listed' # Unasked => listed' = MacroList
        /\ checked' # Unasked => checked' = FragmentCheck /\ listed' # Unasked
    BY DEF MatrixInv, cvars, CommandStep, DryRun, ListMacros, CheckFragments, Job
  <1>6. /\ jobs' # <<>> => Dealt
        /\ Len(jobs') \in 0..JobCount
        /\ jobs' = [i \in 1..Len(jobs') |-> JobOf(Own(i - 1))]
    <2>1. CASE UNCHANGED jobs
      BY <2>1 DEF MatrixInv
    <2>2. CASE Job
      <3> DEFINE n == Len(jobs)
                 JobAt(i) == JobOf(Own(i - 1))
      <3>1. /\ n \in 0..JobCount /\ n < JobCount /\ JobCount \in Nat
            /\ jobs = [i \in 1..n |-> JobAt(i)] /\ jobs' = Append(jobs, JobAt(n + 1)) /\ Dealt
        <4>1. JobCount \in Nat
          BY ShardsAssumption DEF JobCount
        <4>2. (n + 1) - 1 = n
          BY DEF MatrixInv
        <4> QED
          BY <2>2, <4>1, <4>2 DEF Job, MatrixInv
      <3> HIDE DEF n, JobAt
      <3>2. jobs' = [i \in 1..(n + 1) |-> JobAt(i)]
        BY <3>1
      <3>3. Len(jobs') = n + 1
        BY <3>1, <3>2
      <3> QED
        BY <3>1, <3>2, <3>3 DEF JobAt
    <2> QED
      BY <2>1, <2>2 DEF cvars, CommandStep, DryRun, ListMacros, CheckFragments
  <1>7. (jobs = [i \in 1..Len(jobs) |-> JobOf(Own(i - 1))])'
    BY <1>3, <1>6
  <1> QED
    BY <1>1, <1>2, <1>3, <1>4, <1>5, <1>6, <1>7 DEF MatrixInv

-----------------------------------------------------------------------------
(***************************************************************************)
(* What follows for the jobs.                                               *)
(***************************************************************************)

\* What the jobs are given is the selection, and nothing twice.
LEMMA SharesAre ==
    ASSUME MatrixInv, Dealt
    PROVE  /\ JobCount \in Nat \ {0}
           /\ UNION {Own(i - 1) : i \in 1..JobCount} = Chosen
           /\ \A i, j \in 1..JobCount : i # j => Own(i - 1) \cap Own(j - 1) = {}
           /\ Chosen \subseteq Suite
  <1>1. JobCount \in Nat \ {0}
    BY ShardsAssumption DEF JobCount
  <1>2. Chosen \subseteq Suite /\ Suite \subseteq DOMAIN project.scenarios
    BY DEF Chosen, Picked, Suite, In
  <1>3. CASE ~ asked.sharded
    <2>1. JobCount = 1 /\ \A i : Own(i) = Chosen
      BY <1>3 DEF JobCount, Own
    <2> QED
      BY <1>1, <1>2, <2>1
  <1>4. CASE asked.sharded
    <2> DEFINE Falls(s) == IF s \in DOMAIN placed THEN placed[s] ELSE hash[s]
    <2>1. JobCount = N /\ N \in Nat \ {0} /\ \A i : Own(i) = Mine(Chosen, hash, i)
      BY <1>4, ShardsAssumption DEF JobCount, Own
    <2>2. \A s \in Chosen : Falls(s) \in 0..(N - 1)
      <3> SUFFICES ASSUME NEW s \in Chosen PROVE Falls(s) \in 0..(N - 1)
        OBVIOUS
      <3>1. hash[s] \in 0..(N - 1)
        BY <1>2, ProjectsAssumption DEF MatrixInv
      <3>2. s \in DOMAIN placed => placed[s] \in 0..(N - 1)
        BY DEF MatrixInv, DealInv, DealType, Buckets
      <3> QED
        BY <3>1, <3>2
    <2>3. \A i : Own(i) = {s \in Chosen : i = Falls(s)}
      BY <2>1 DEF Mine
    <2> HIDE DEF Falls
    <2>4. ASSUME NEW s \in Chosen PROVE \E i \in 1..JobCount : s \in Own(i - 1)
      <3>1. Falls(s) + 1 \in 1..JobCount /\ (Falls(s) + 1) - 1 = Falls(s)
        BY <2>1, <2>2
      <3>2. s \in Own((Falls(s) + 1) - 1)
        BY <2>3, <3>1
      <3> QED
        BY <3>1, <3>2
    <2>5. \A i, j \in 1..JobCount : i # j => i - 1 # j - 1
      BY <1>1
    <2>6. \A i, j : i # j => Own(i) \cap Own(j) = {}
      BY <2>3
    <2>7. UNION {Own(i - 1) : i \in 1..JobCount} = Chosen
      BY <2>3, <2>4
    <2> QED
      BY <1>1, <1>2, <2>5, <2>6, <2>7
  <1> QED
    BY <1>3, <1>4

LEMMA JobsAre ==
    ASSUME MatrixInv, Done
    PROVE  /\ Dealt /\ dry = Gate /\ DOMAIN jobs = 1..JobCount
           /\ \A i \in DOMAIN jobs : jobs[i] = JobOf(Own(i - 1))
           /\ JobCount \in Nat \ {0}
  <1>1. JobCount \in Nat \ {0}
    BY ShardsAssumption DEF JobCount
  <1>2. Len(jobs) = JobCount /\ dry = Gate
    BY DEF Done, MatrixInv
  <1>3. jobs # <<>>
    BY <1>1, <1>2
  <1>4. jobs = [i \in 1..JobCount |-> JobOf(Own(i - 1))] /\ Dealt
    BY <1>2, <1>3 DEF MatrixInv
  <1> QED
    BY <1>1, <1>2, <1>4

LEMMA JobIs ==
    ASSUME NEW own
    PROVE  /\ Goes(own) /\ ~ NothingToRerun => JobOf(own).exit = Ended(own) /\ JobOf(own).ran = own
           /\ Goes(own) /\ NothingToRerun => JobOf(own).exit = "Success" /\ JobOf(own).ran = {}
           /\ ~ Goes(own) => JobOf(own).exit = "UserError" /\ JobOf(own).ran = {}
  BY RefusalSays DEF JobOf

LEMMA GateHolds ==
    ASSUME MatrixInv
    PROVE  GateTrue
  <1> SUFFICES ASSUME Done
               PROVE  /\ Promised /\ dry.exit = "Success" =>
                           /\ \A i \in DOMAIN jobs : jobs[i].exit \in {"Success", "TestFailure"}
                           /\ Ran = dry.selected
                      /\ dry.exit # "Success" /\ "missing" \notin Ends(Suite) =>
                           \A i \in DOMAIN jobs :
                              /\ jobs[i].ran = {}
                              /\ \/ jobs[i].exit = "UserError"
                                 \/ NothingToRerun /\ Loads(project.suite) /\ project.exclusive # "malformed"
                      /\ dry.warned => \A s \in Ran : project.exclusive \notin project.scenarios[s].tags
    BY DEF GateTrue
  <1>1. /\ Dealt /\ dry = Gate /\ DOMAIN jobs = 1..JobCount
        /\ \A i \in DOMAIN jobs : jobs[i] = JobOf(Own(i - 1))
    BY JobsAre
  <1>2. /\ UNION {Own(i - 1) : i \in 1..JobCount} = Chosen /\ Chosen \subseteq Suite
    BY <1>1, SharesAre
  <1>3. \A i \in DOMAIN jobs : Own(i - 1) \subseteq Chosen
    BY <1>1, <1>2
  <1>4. ASSUME Promised, dry.exit = "Success"
        PROVE  /\ \A i \in DOMAIN jobs : jobs[i].exit \in {"Success", "TestFailure"}
               /\ Ran = dry.selected
    <2>1. GateOpens
      BY <1>1, <1>4, GateSays
    <2>2. Chosen = Picked(Suite)
      <3>1. Suite \ Excluded = Suite
        BY <1>4 DEF Promised, Excluded
      <3>2. Picked(Suite) \subseteq asked.rerun
        BY <1>4 DEF Promised, Picked
      <3> QED
        BY <3>1, <3>2 DEF Chosen
    <2>3. Chosen # {}
      <3>1. CASE Filtered
        BY <2>1, <2>2, <3>1 DEF GateOpens
      <3>2. CASE ~ Filtered
        <4>1. asked.tag = "any" /\ asked.name = "any" /\ asked.file = "any"
          BY <3>2 DEF Filtered
        <4>2. Picked(Suite) = Suite
          BY <4>1 DEF Picked
        <4> QED
          BY <1>4, <2>2, <4>2 DEF Promised
      <3> QED
        BY <3>1, <3>2
    <2>4. /\ project.setup \notin project.broken /\ project.teardown \notin project.broken
      <3>1. "none" \notin project.broken
        BY ProjectsAssumption DEF MatrixInv
      <3>2. PhaseFiles \cap project.broken = {}
        BY <2>1 DEF GateOpens, PhasesLoad, Loads
      <3> QED
        BY <3>1, <3>2 DEF PhaseFiles
    <2>5. ASSUME NEW file \in {project.setup, project.teardown}
          PROVE  /\ ~ (file # "none" /\ Ends(In({file})) = {})
                 /\ Ends(In({file})) \cap {"missing", "failed"} = {}
      <3>1. CASE file = "none"
        <4>1. In({file}) = {}
          BY <3>1, ProjectsAssumption DEF In, MatrixInv
        <4> QED
          BY <3>1, <4>1 DEF Ends
      <3>2. CASE file # "none"
        <4>1. file \in PhaseFiles
          BY <3>2 DEF PhaseFiles
        <4>2. In({file}) # {} /\ In({file}) \subseteq In(PhaseFiles)
          BY <1>4, <4>1 DEF Promised, In
        <4>3. Ends(In({file})) \subseteq {"passed"}
          BY <1>4, <4>2 DEF Promised, Ends
        <4>4. Ends(In({file})) # {}
          BY <4>2 DEF Ends
        <4> QED
          BY <4>3, <4>4
      <3> QED
        BY <3>1, <3>2
    <2>6. Built
      BY <2>4, <2>5, Zenon DEF Built
    <2>7. ASSUME NEW i \in DOMAIN jobs
          PROVE  jobs[i].exit \in {"Success", "TestFailure"} /\ jobs[i].ran = Own(i - 1)
      <3> DEFINE own == Own(i - 1)
      <3>1. own \subseteq Chosen /\ own \subseteq Suite
        BY <1>2, <1>3
      <3>2. "missing" \notin Ends(own)
        BY <2>1, <3>1 DEF GateOpens, Ends
      <3>3. ~ NothingToRun(own)
        <4>1. ~ asked.sharded => own = Chosen
          BY DEF Own
        <4> QED
          BY <2>3, <4>1 DEF NothingToRun
      <3>4. Goes(own)
        BY <2>1, <2>4, <2>6, <3>3 DEF Goes, Loaded, GateOpens
      <3>5. jobs[i].exit = Ended(own) /\ jobs[i].ran = own
        BY <1>1, <1>4, <3>4, JobIs DEF Promised
      <3> HIDE DEF own
      <3>6. Ended(own) \in {"Success", "TestFailure"}
        <4>1. CASE own # {}
          BY <2>5, <3>2, <4>1, VerdictSays
        <4>2. CASE own = {}
          BY <3>2, <4>2, EmptyPasses
        <4> QED
          BY <4>1, <4>2
      <3> QED
        BY <3>5, <3>6 DEF own
    <2>8. Ran = UNION {Own(i - 1) : i \in 1..JobCount}
      BY <1>1, <2>7 DEF Ran
    <2> QED
      BY <1>1, <1>2, <2>2, <2>7, <2>8 DEF Gate
  <1>5. ASSUME dry.exit # "Success", "missing" \notin Ends(Suite), NEW i \in DOMAIN jobs
        PROVE  /\ jobs[i].ran = {}
               /\ \/ jobs[i].exit = "UserError"
                  \/ NothingToRerun /\ Loads(project.suite) /\ project.exclusive # "malformed"
    <2> DEFINE own == Own(i - 1)
    <2>1. ~ GateOpens
      BY <1>1, <1>5, GateSays
    <2>2. Goes(own) => NothingToRerun
      <3> SUFFICES ASSUME ~ NothingToRerun PROVE ~ Goes(own)
        OBVIOUS
      <3>1. CASE project.exclusive = "malformed" \/ ~ Loads(project.suite)
        BY <3>1 DEF Goes, Loaded
      <3>2. CASE Filtered /\ Picked(Suite) = {}
        <4>1. Chosen = {}
          BY <3>2 DEF Chosen, Picked
        <4>2. own = {}
          BY <1>3, <4>1
        <4> QED
          BY <4>1, <4>2 DEF Goes, NothingToRun
      <3>3. CASE ~ PhasesLoad
        <4>1. project.setup \in project.broken \/ project.teardown \in project.broken
          BY <3>3 DEF PhasesLoad, Loads, PhaseFiles
        <4> QED
          BY <4>1 DEF Goes, Loaded, Built
      <3> QED
        BY <1>5, <2>1, <3>1, <3>2, <3>3 DEF GateOpens
    <2>3. CASE Goes(own)
      BY <1>1, <2>2, <2>3, JobIs DEF Goes, Loaded
    <2>4. CASE ~ Goes(own)
      BY <1>1, <2>4, JobIs
    <2> QED
      BY <2>3, <2>4
  <1>6. ASSUME dry.warned, NEW s \in Ran PROVE project.exclusive \notin project.scenarios[s].tags
    <2>1. s \in Suite
      <3>1. PICK i \in DOMAIN jobs : s \in jobs[i].ran
        BY DEF Ran
      <3>2. jobs[i].ran \subseteq Own(i - 1)
        BY <1>1, JobIs
      <3> QED
        BY <1>2, <1>3, <3>1, <3>2
    <2>2. NoneExclusive
      BY <1>1, <1>6 DEF Gate
    <2> QED
      BY <2>1, <2>2 DEF NoneExclusive
  <1> QED
    BY <1>4, <1>5, <1>6

LEMMA GreenHolds ==
    ASSUME MatrixInv
    PROVE  GreenMatrix
  <1> SUFFICES ASSUME Done, \A i \in DOMAIN jobs : jobs[i].exit = "Success"
               PROVE  /\ NothingToRerun => Ran = {}
                      /\ ~ NothingToRerun => RanOnce
    BY DEF GreenMatrix
  <1>1. /\ Dealt /\ DOMAIN jobs = 1..JobCount /\ JobCount \in Nat \ {0}
        /\ \A i \in DOMAIN jobs : jobs[i] = JobOf(Own(i - 1))
    BY JobsAre
  <1>c. ASSUME NothingToRerun PROVE Ran = {}
    <2>1. \A i \in DOMAIN jobs : jobs[i].ran = {}
      BY <1>1, <1>c, JobIs
    <2> QED
      BY <2>1 DEF Ran
  <1> SUFFICES ASSUME ~ NothingToRerun PROVE RanOnce
    BY <1>c
  <1>2. /\ UNION {Own(i - 1) : i \in 1..JobCount} = Chosen /\ Chosen \subseteq Suite
        /\ \A i, j \in 1..JobCount : i # j => Own(i - 1) \cap Own(j - 1) = {}
    BY <1>1, SharesAre
  <1>3. ASSUME NEW i \in DOMAIN jobs
        PROVE  /\ Goes(Own(i - 1)) /\ jobs[i].ran = Own(i - 1) /\ Ended(Own(i - 1)) = "Success"
    BY <1>1, JobIs
  <1>4. Ran = Chosen
    BY <1>1, <1>2, <1>3 DEF Ran
  <1>5. Ran # {}
    <2>1. 1 \in DOMAIN jobs
      BY <1>1
    <2>2. ~ NothingToRun(Own(1 - 1))
      BY <1>3, <2>1 DEF Goes
    <2>3. Chosen = {} => Own(1 - 1) = {}
      BY <1>1, <1>2, <2>1
    <2> QED
      BY <1>4, <2>2, <2>3 DEF NothingToRun
  <1>6. Ends(Ran) = {"passed"}
    <2>1. ASSUME NEW s \in Ran PROVE project.scenarios[s].ends = "passed"
      <3>1. PICK i \in DOMAIN jobs : s \in Own(i - 1)
        BY <1>3 DEF Ran
      <3>2. s \in DOMAIN project.scenarios
        BY <1>2, <1>4 DEF Suite, In
      <3>3. project.scenarios[s].ends \in {"passed", "failed", "missing"}
        BY <3>2, ProjectsAssumption DEF MatrixInv
      <3>4. "missing" \notin Ends(Own(i - 1)) /\ "failed" \notin Ends(Own(i - 1))
        BY <1>3, <3>1, VerdictSays
      <3>5. project.scenarios[s].ends \in Ends(Own(i - 1))
        BY <3>1 DEF Ends
      <3> QED
        BY <3>3, <3>4, <3>5
    <2> QED
      BY <1>5, <2>1 DEF Ends
  <1>7. ASSUME ~ asked.below PROVE Ran \cap In(PhaseFiles) = {}
    BY <1>4, <1>7 DEF Chosen, Picked, Excluded
  <1>8. \A i, j \in DOMAIN jobs : i # j => jobs[i].ran \cap jobs[j].ran = {}
    BY <1>1, <1>2, <1>3
  <1> QED
    BY <1>4, <1>5, <1>6, <1>7, <1>8 DEF RanOnce

LEMMA ListingsHold ==
    ASSUME MatrixInv
    PROVE  ListingsTrue
  <1> SUFFICES ASSUME checked # Unasked
               PROVE  /\ checked.exit = "Success" =>
                           project.corpus /\ \A f \in project.fragments : \E s \in Everything : RunBy(f, s)
                      /\ \A f \in checked.unreachable \cup checked.unreferenced : \A s \in Everything \cup Ran : ~RunBy(f, s)
                      /\ \A f \in checked.unreachable, m \in DOMAIN project.macros :
                            Refers(m, f) /\ project.macros[m].said => m \in listed.unused
                      /\ \A m \in listed.unused, s \in Ran : m \notin project.scenarios[s].says
    BY DEF ListingsTrue
  <1>1. checked = FragmentCheck /\ listed = MacroList
    BY DEF MatrixInv
  <1>2. Everything = Suite \cup In(PhaseFiles)
    BY DEF Everything
  <1>3. \A f : f \in Runs(Suite) \cup Runs(In(PhaseFiles)) <=> \E s \in Everything : RunBy(f, s)
    <2>1. \A f, m : f \in Reach(m) <=> Refers(m, f) \/ \E n \in project.macros[m].uses : Refers(n, f)
      BY DEF Reach, Refers
    <2>2. \A f, group : f \in Runs(group) <=> \E s \in group : \E m \in project.scenarios[s].says : f \in Reach(m)
      BY DEF Runs, Says
    <2>3. \A f, s : RunBy(f, s) <=> \E m \in project.scenarios[s].says : f \in Reach(m)
      BY <2>1 DEF RunBy
    <2> QED
      BY <1>2, <2>2, <2>3
  <1>4. checked.exit = "Success" =>
          project.corpus /\ \A f \in project.fragments : \E s \in Everything : RunBy(f, s)
    <2> SUFFICES ASSUME checked.exit = "Success"
                 PROVE  project.corpus /\ \A f \in project.fragments : \E s \in Everything : RunBy(f, s)
      OBVIOUS
    <2>1. project.corpus /\ NeverRun = {}
      BY <1>1, CheckSays
    <2> QED
      BY <1>3, <2>1 DEF NeverRun
  <1>5. Ran \subseteq Suite
    <2>1. CASE jobs = <<>>
      BY <2>1 DEF Ran
    <2>2. CASE jobs # <<>>
      <3>1. Dealt /\ jobs = [i \in 1..Len(jobs) |-> JobOf(Own(i - 1))] /\ Len(jobs) \in 0..JobCount
        BY <2>2 DEF MatrixInv
      <3>2. UNION {Own(i - 1) : i \in 1..JobCount} = Chosen /\ Chosen \subseteq Suite /\ JobCount \in Nat
        BY <3>1, SharesAre
      <3>3. \A i \in DOMAIN jobs : jobs[i].ran \subseteq Own(i - 1)
        BY <3>1, JobIs
      <3>4. DOMAIN jobs \subseteq 1..JobCount
        BY <3>1, <3>2
      <3> QED
        BY <3>2, <3>3, <3>4 DEF Ran
    <2> QED
      BY <2>1, <2>2
  <1>6. \A f \in checked.unreachable \cup checked.unreferenced : f \in NeverRun
    BY <1>1 DEF FragmentCheck, Unreachable, Unreferenced
  <1>7. \A f \in checked.unreachable \cup checked.unreferenced : \A s \in Everything \cup Ran : ~RunBy(f, s)
    BY <1>2, <1>3, <1>5, <1>6 DEF NeverRun
  <1>8. ASSUME NEW f \in checked.unreachable, NEW m \in DOMAIN project.macros,
               Refers(m, f), project.macros[m].said
        PROVE  m \in listed.unused
    <2>1. Loads(project.suite) /\ f \in NeverRun
      BY <1>1 DEF FragmentCheck, Unreachable, Counted
    <2>2. m \notin Says(Suite)
      <3>1. f \in Reach(m)
        BY <1>8 DEF Reach, Refers
      <3> QED
        BY <2>1, <3>1 DEF NeverRun, Runs
    <2> QED
      BY <1>1, <1>8, <2>1, <2>2 DEF MacroList, IsDead
  <1>9. \A m \in listed.unused, s \in Ran : m \notin project.scenarios[s].says
    <2>1. \A m \in listed.unused : m \notin Says(Suite)
      BY <1>1 DEF MacroList, IsDead
    <2> QED
      BY <1>5, <2>1 DEF Says
  <1> QED
    BY <1>4, <1>7, <1>8, <1>9

LEMMA MatrixKeeps == MatrixSpec => []MatrixInv
  <1>1. MatrixInv /\ [(DealStep /\ UNCHANGED cvars) \/ (CommandStep /\ UNCHANGED svars)]_<<svars, cvars>> => MatrixInv'
    BY DealtInv, CommandKeeps
  <1> QED
    BY <1>1, MatrixStarts, PTL DEF MatrixSpec

LEMMA MatrixDeals == MatrixSpec => []ShardsInv
  <1>1. ShardsInv /\ [(DealStep /\ UNCHANGED cvars) \/ (CommandStep /\ UNCHANGED svars)]_<<svars, cvars>> => ShardsInv'
    BY StepShards
  <1> QED
    BY <1>1, InitShards, PTL DEF MatrixSpec

(***************************************************************************)
(* The matrix is an even split of the selection; what the gate lets         *)
(* through, no job of it refuses, and the jobs run what it counted; what it *)
(* refuses, no job runs and all refuse, unless there is nothing to rerun; a *)
(* green matrix has run its whole selection once, or had nothing to rerun   *)
(* and ran nothing; and a verdict of `macros` or `fragments --check` is about what the *)
(* jobs do.  For any projects, command lines, weights, hashes and counts of *)
(* shards (cli/commands.rs, cli/exec.rs, cli/timings.rs).                   *)
(***************************************************************************)
THEOREM MatrixIsTrue == MatrixSpec => []MatrixTrue
  <1>1. ShardsInv /\ MatrixInv => MatrixTrue
    BY ShardsHold, GateHolds, GreenHolds, ListingsHold DEF MatrixTrue
  <1> QED
    BY <1>1, MatrixKeeps, MatrixDeals, PTL

-----------------------------------------------------------------------------
(***************************************************************************)
(* What the runs kept say together, for any runs and thresholds.            *)
(***************************************************************************)

(***************************************************************************)
(* The record read back: an event after the other.                          *)
(***************************************************************************)
Reads(read, stream, m) ==
    read = [n \in 0..m |-> IF n = 0 THEN Blank ELSE ReadEvent(read[n - 1], stream[n])]

LEMMA ReadsOn ==
    ASSUME NEW stream, NEW m \in Nat, NEW f, Reads(f, stream, m)
    PROVE  \E g : Reads(g, stream, m + 1)
  <1> DEFINE g == [n \in 0..(m + 1) |->
                     IF n = m + 1 THEN ReadEvent(f[m], stream[m + 1]) ELSE f[n]]
  <1>1. \A n \in 0..m : g[n] = f[n]
    OBVIOUS
  <1>2. g[m + 1] = ReadEvent(f[m], stream[m + 1])
    OBVIOUS
  <1>3. ASSUME NEW n \in 0..(m + 1)
        PROVE  g[n] = IF n = 0 THEN Blank ELSE ReadEvent(g[n - 1], stream[n])
    <2> HIDE DEF g
    <2>1. CASE n = m + 1
      <3>1. n # 0 /\ n - 1 = m /\ m \in 0..m
        BY <2>1
      <3> QED
        BY <1>1, <1>2, <2>1, <3>1
    <2>2. CASE n \in 0..m
      <3>1. f[n] = IF n = 0 THEN Blank ELSE ReadEvent(f[n - 1], stream[n])
        BY <2>2 DEF Reads
      <3>2. n # 0 => n - 1 \in 0..m
        BY <2>2
      <3> QED
        BY <1>1, <2>2, <3>1, <3>2
    <2> QED
      BY <2>1, <2>2
  <1>4. g = [n \in 0..(m + 1) |-> g[n]]
    OBVIOUS
  <1> HIDE DEF g
  <1>5. Reads(g, stream, m + 1)
    BY <1>3, <1>4 DEF Reads
  <1> QED
    BY <1>5

LEMMA ReadsExist ==
    ASSUME NEW stream, NEW m \in Nat
    PROVE  \E f : Reads(f, stream, m)
  <1> DEFINE P == {n \in Nat : \E f : Reads(f, stream, n)}
  <1>1. 0 \in P
    <2>1. Reads([n \in 0..0 |-> Blank], stream, 0)
      BY DEF Reads
    <2> QED
      BY <2>1
  <1>2. \A n \in Nat : n \in P => n + 1 \in P
    BY ReadsOn
  <1> HIDE DEF P
  <1>3. m \in P
    BY <1>1, <1>2, CountingOn
  <1> QED
    BY <1>3 DEF P

LEMMA RecordIs ==
    ASSUME NEW stream, Len(stream) \in Nat
    PROVE  \E read : /\ Record(stream) = read[Len(stream)] /\ read[0] = Blank
                     /\ \A n \in 1..Len(stream) : read[n] = ReadEvent(read[n - 1], stream[n])
  <1>1. PICK read : read = CHOOSE f : Reads(f, stream, Len(stream))
    OBVIOUS
  <1>2. Reads(read, stream, Len(stream))
    BY <1>1, ReadsExist, Zenon
  <1>3. Record(stream) = read[Len(stream)]
    BY <1>1, Zenon DEF Record, Reads
  <1>4. read[0] = Blank /\ \A n \in 1..Len(stream) : read[n] = ReadEvent(read[n - 1], stream[n])
    BY <1>2 DEF Reads
  <1> QED
    BY <1>3, <1>4

(***************************************************************************)
(* What the record, and so the history, holds.                              *)
(***************************************************************************)
StepsTyped(f) == \A x \in DOMAIN f : f[x].attempts \in 0..2

RecordTyped(r) ==
    /\ r = [pending |-> r.pending, seen |-> r.seen, scenarios |-> r.scenarios,
            completion |-> r.completion, totals |-> r.totals, legacy |-> r.legacy]
    /\ \A k \in DOMAIN r.pending : StepsTyped(r.pending[k])
    /\ \A k \in DOMAIN r.scenarios : /\ r.scenarios[k].status \in Statuses
                                     /\ StepsTyped(r.scenarios[k].steps)

EventTyped(e) ==
    /\ e.ev = "step" => e.attempts \in 0..2
    /\ e.ev = "finished" => e.status \in Statuses

RunTyped(r) ==
    \A k \in DOMAIN r.scenarios : r.scenarios[k].status \in Statuses /\ r.scenarios[k].attempts \in Nat

LEMMA AtTyped ==
    ASSUME NEW f, NEW x, \A k \in DOMAIN f : StepsTyped(f[k])
    PROVE  StepsTyped(At(f, x, <<>>))
  <1>1. CASE x \in DOMAIN f
    BY <1>1 DEF At
  <1>2. CASE x \notin DOMAIN f
    <2>1. At(f, x, <<>>) = <<>> /\ DOMAIN <<>> = {}
      BY <1>2 DEF At
    <2> QED
      BY <2>1 DEF StepsTyped
  <1> QED
    BY <1>1, <1>2

LEMMA InsertedIs ==
    ASSUME NEW f, NEW x, NEW v, NEW g, g = Inserted(f, x, v)
    PROVE  \A y \in DOMAIN g : (y = x /\ g[y] = v) \/ (y \in DOMAIN f /\ g[y] = f[y])
  BY DEF Inserted

LEMMA ReadTyped ==
    ASSUME NEW r, RecordTyped(r), NEW e, EventTyped(e)
    PROVE  RecordTyped(ReadEvent(r, e))
  <1>1. CASE e.ev = "step"
    <2>1. PICK key, inner, name, run :
              /\ run = [attempts |-> e.attempts, ms |-> e.ms]
              /\ inner = Inserted(At(r.pending, key, <<>>), name, run)
              /\ \E seen : ReadEvent(r, e) = [r EXCEPT !.seen = seen, !.pending = Inserted(r.pending, key, inner)]
      <3> DEFINE text == <<e.file, e.name, e.text>>
                 ordinal == At(r.seen, text, 0)
                 run == [attempts |-> e.attempts, ms |-> e.ms]
                 inner == Inserted(At(r.pending, Key(e), <<>>), <<e.text, ordinal>>, run)
      <3>1. ReadEvent(r, e) = ReadStep(r, e)
        BY <1>1 DEF ReadEvent
      <3>2. ReadStep(r, e) = [r EXCEPT !.seen = Inserted(r.seen, text, ordinal + 1),
                                       !.pending = Inserted(r.pending, Key(e), inner)]
        BY DEF ReadStep, RecordTyped
      <3> QED
        BY <3>1, <3>2
    <2>2. PICK seen : ReadEvent(r, e) = [r EXCEPT !.seen = seen, !.pending = Inserted(r.pending, key, inner)]
      BY <2>1
    <2>3. StepsTyped(inner)
      <3>1. StepsTyped(At(r.pending, key, <<>>))
        BY AtTyped DEF RecordTyped
      <3>2. run.attempts \in 0..2
        BY <1>1, <2>1 DEF EventTyped
      <3>3. PICK f : f = At(r.pending, key, <<>>)
        OBVIOUS
      <3>4. \A y \in DOMAIN inner : (y = name /\ inner[y] = run) \/ (y \in DOMAIN f /\ inner[y] = f[y])
        BY <2>1, <3>3, InsertedIs
      <3> QED
        BY <3>1, <3>2, <3>3, <3>4 DEF StepsTyped
    <2>4. PICK p : p = Inserted(r.pending, key, inner)
      OBVIOUS
    <2>5. \A k \in DOMAIN p : StepsTyped(p[k])
      <3>1. \A k \in DOMAIN p : (k = key /\ p[k] = inner) \/ (k \in DOMAIN r.pending /\ p[k] = r.pending[k])
        BY <2>4, InsertedIs
      <3> QED
        BY <2>3, <3>1 DEF RecordTyped
    <2>6. /\ ReadEvent(r, e).pending = p /\ ReadEvent(r, e).scenarios = r.scenarios
          /\ ReadEvent(r, e) = [pending |-> p, seen |-> seen, scenarios |-> r.scenarios,
                                completion |-> r.completion, totals |-> r.totals, legacy |-> r.legacy]
      BY <2>2, <2>4 DEF RecordTyped
    <2> QED
      BY <2>4, <2>5, <2>6 DEF RecordTyped
  <1>2. CASE e.ev = "finished"
    <2>1. PICK key, run, pending :
              /\ run.status = e.status /\ run.steps = At(r.pending, key, <<>>)
              /\ pending = [k \in DOMAIN r.pending \ {key} |-> r.pending[k]]
              /\ ReadEvent(r, e) = [r EXCEPT !.pending = pending, !.scenarios = Inserted(r.scenarios, key, run)]
      <3> DEFINE key == Adopted(r.pending, Key(e))
                 run == [status |-> e.status, phase |-> e.phase, tags |-> e.tags,
                         steps |-> At(r.pending, key, <<>>)]
                 pending == [k \in DOMAIN r.pending \ {key} |-> r.pending[k]]
      <3>1. ReadEvent(r, e) = ReadFinished(r, e)
        BY <1>2 DEF ReadEvent
      <3>2. ReadFinished(r, e) = [r EXCEPT !.pending = pending, !.scenarios = Inserted(r.scenarios, key, run)]
        BY DEF ReadFinished, RecordTyped
      <3>3. run.status = e.status /\ run.steps = At(r.pending, key, <<>>)
        OBVIOUS
      <3> HIDE DEF key, run
      <3> QED
        BY <3>1, <3>2, <3>3
    <2>2. run.status \in Statuses /\ StepsTyped(run.steps)
      <3>1. StepsTyped(At(r.pending, key, <<>>))
        BY AtTyped DEF RecordTyped
      <3> QED
        BY <1>2, <2>1, <3>1 DEF EventTyped
    <2>3. PICK s : s = Inserted(r.scenarios, key, run)
      OBVIOUS
    <2>4. \A k \in DOMAIN s : s[k].status \in Statuses /\ StepsTyped(s[k].steps)
      <3>1. \A k \in DOMAIN s : (k = key /\ s[k] = run) \/ (k \in DOMAIN r.scenarios /\ s[k] = r.scenarios[k])
        BY <2>3, InsertedIs
      <3> QED
        BY <2>2, <3>1 DEF RecordTyped
    <2>5. \A k \in DOMAIN pending : StepsTyped(pending[k])
      BY <2>1 DEF RecordTyped
    <2>6. /\ ReadEvent(r, e).pending = pending /\ ReadEvent(r, e).scenarios = s
          /\ ReadEvent(r, e) = [pending |-> pending, seen |-> r.seen, scenarios |-> s,
                                completion |-> r.completion, totals |-> r.totals, legacy |-> r.legacy]
      BY <2>1, <2>3 DEF RecordTyped
    <2> QED
      BY <2>4, <2>5, <2>6 DEF RecordTyped
  <1>3. CASE e.ev = "tail"
    BY <1>3 DEF ReadEvent, ReadTail, RecordTyped
  <1>4. CASE e.ev \notin {"step", "finished", "tail"}
    BY <1>4 DEF ReadEvent
  <1> QED
    BY <1>1, <1>2, <1>3, <1>4

LEMMA StreamTyped ==
    ASSUME NEW stream, Len(stream) \in Nat, \A n \in 1..Len(stream) : EventTyped(stream[n])
    PROVE  RecordTyped(Record(stream))
  <1>1. PICK read : /\ Record(stream) = read[Len(stream)] /\ read[0] = Blank
                    /\ \A n \in 1..Len(stream) : read[n] = ReadEvent(read[n - 1], stream[n])
    BY RecordIs
  <1> DEFINE P == {n \in Nat : n <= Len(stream) => RecordTyped(read[n])}
  <1>2. RecordTyped(Blank)
    <2>1. DOMAIN <<>> = {}
      OBVIOUS
    <2> QED
      BY <2>1 DEF RecordTyped, Blank
  <1>3. 0 \in P
    BY <1>1, <1>2
  <1>4. ASSUME NEW n \in Nat, n \in P PROVE n + 1 \in P
    <2> SUFFICES ASSUME n + 1 <= Len(stream) PROVE RecordTyped(read[n + 1])
      OBVIOUS
    <2>1. RecordTyped(read[n]) /\ n + 1 \in 1..Len(stream) /\ (n + 1) - 1 = n
      BY <1>4
    <2>2. read[n + 1] = ReadEvent(read[n], stream[n + 1]) /\ EventTyped(stream[n + 1])
      BY <1>1, <2>1
    <2> QED
      BY <2>1, <2>2, ReadTyped
  <1> HIDE DEF P
  <1>5. Len(stream) \in P
    BY <1>3, <1>4, CountingOn
  <1> QED
    BY <1>1, <1>5 DEF P

IsSequence(s) == \E X : s \in Seq(X)

LEMMA AppendIs ==
    ASSUME NEW s, IsSequence(s), NEW e
    PROVE  /\ IsSequence(Append(s, e)) /\ Len(s) \in Nat /\ Len(Append(s, e)) = Len(s) + 1
           /\ \A n \in 1..Len(s) : Append(s, e)[n] = s[n]
           /\ Append(s, e)[Len(s) + 1] = e
  <1>1. PICK X : s \in Seq(X)
    BY DEF IsSequence
  <1>2. s \in Seq(X \cup {e})
    BY <1>1
  <1>3. Append(s, e) \in Seq(X \cup {e})
    BY <1>2
  <1> QED
    BY <1>2, <1>3 DEF IsSequence

RunningTyped ==
    /\ IsSequence(events) /\ \A n \in 1..Len(events) : EventTyped(events[n])
    /\ told = [i \in DOMAIN plan |-> told[i]]
    /\ \A i \in DOMAIN plan : plan[i].kind \in Kinds /\ told[i] \in Nat

HistoryTyped ==
    /\ IsSequence(history) /\ \A n \in 1..Len(history) : RunTyped(history[n])

LEMMA KindFacts ==
    ASSUME NEW kind \in Kinds
    PROVE  /\ Status(kind) \in Statuses /\ Len(Steps(kind)) \in Nat
           /\ \A n \in 1..Len(Steps(kind)) : Steps(kind)[n].attempts \in 0..2
  <1>1. Status(kind) \in Statuses
    BY DEF Kinds, Status, Statuses
  <1> DEFINE Brief(s) == Len(s) \in Nat /\ \A n \in 1..Len(s) : s[n].attempts \in 0..2
             G == [text |-> "step", status |-> "Passed", attempts |-> 1, ms |-> 1]
  <1>2. Brief(<<>>)
    OBVIOUS
  <1>3. ASSUME NEW a, a.attempts \in 0..2 PROVE Brief(<<a>>)
    BY <1>3
  <1>4. ASSUME NEW a, NEW b, a.attempts \in 0..2, b.attempts \in 0..2 PROVE Brief(<<a, b>>)
    <2>1. Len(<<a, b>>) = 2 /\ <<a, b>>[1] = a /\ <<a, b>>[2] = b
      OBVIOUS
    <2>2. \A n \in 1..2 : n = 1 \/ n = 2
      OBVIOUS
    <2> QED
      BY <1>4, <2>1, <2>2
  <1>5. \A status, attempts, ms : Step(status, attempts, ms).attempts = attempts
    BY DEF Step
  <1>6. Good.attempts = 1
    BY <1>5 DEF Good
  <1> HIDE DEF Brief
  <1>7. Brief(Steps(kind))
    <2>1. CASE kind \in {"passed", "unclosed"}
      <3>1. Steps(kind) = <<Good>>
        BY <2>1 DEF Steps
      <3> QED
        BY <1>3, <1>6, <3>1
    <2>2. CASE kind = "retried"
      <3>1. Steps(kind) = <<Good, Step("Passed", 2, 2)>>
        BY <2>2 DEF Steps
      <3> QED
        BY <1>4, <1>5, <1>6, <3>1
    <2>3. CASE kind = "slow"
      <3>1. Steps(kind) = <<Step("Passed", 1, 9)>>
        BY <2>3 DEF Steps
      <3> QED
        BY <1>3, <1>5, <3>1
    <2>4. CASE kind = "warned"
      <3>1. Steps(kind) = <<Step("Warned", 1, 1)>>
        BY <2>4 DEF Steps
      <3> QED
        BY <1>3, <1>5, <3>1
    <2>5. CASE kind = "failed"
      <3>1. Steps(kind) = <<Good, Step("Failed", 1, 1)>>
        BY <2>5 DEF Steps
      <3> QED
        BY <1>4, <1>5, <1>6, <3>1
    <2>6. CASE kind = "system"
      <3>1. Steps(kind) = <<Step("Failed", 1, 1)>>
        BY <2>6 DEF Steps
      <3> QED
        BY <1>3, <1>5, <3>1
    <2>7. CASE kind = "cut"
      <3>1. Steps(kind) = <<Good, Step("Skipped", 0, 0)>>
        BY <2>7 DEF Steps
      <3> QED
        BY <1>4, <1>5, <1>6, <3>1
    <2>8. CASE kind = "unopened"
      <3>1. Steps(kind) = <<Step("Skipped", 0, 0)>>
        BY <2>8 DEF Steps
      <3> QED
        BY <1>3, <1>5, <3>1
    <2>9. CASE kind \in {"user", "unreached", "parked"}
      <3>1. Steps(kind) = <<>>
        BY <2>9 DEF Steps
      <3> QED
        BY <1>2, <3>1
    <2> QED
      BY <2>1, <2>2, <2>3, <2>4, <2>5, <2>6, <2>7, <2>8, <2>9 DEF Kinds
  <1> QED
    BY <1>1, <1>7 DEF Brief

LEMMA Told ==
    ASSUME RunningTyped, NEW e, EventTyped(e), events' = Append(events, e), plan' = plan,
           told' = [i \in DOMAIN plan |-> told'[i]], \A i \in DOMAIN plan : told'[i] \in Nat
    PROVE  RunningTyped'
  <1>1. /\ IsSequence(events') /\ Len(events) \in Nat /\ Len(events') = Len(events) + 1
        /\ \A n \in 1..Len(events) : events'[n] = events[n]
        /\ events'[Len(events) + 1] = e
    BY AppendIs DEF RunningTyped
  <1>2. \A n \in 1..Len(events') : EventTyped(events'[n])
    <2>1. \A n \in 1..Len(events') : n \in 1..Len(events) \/ n = Len(events) + 1
      BY <1>1
    <2> QED
      BY <1>1, <2>1 DEF RunningTyped
  <1> QED
    BY <1>1, <1>2 DEF RunningTyped

LEMMA RunningStays == RunningTyped /\ RunStep => RunningTyped'
  <1> SUFFICES ASSUME RunningTyped, RunStep PROVE RunningTyped'
    OBVIOUS
  <1>1. ASSUME NEW i \in DOMAIN plan, Begin(i) PROVE RunningTyped'
    <2>1. \A worker : EventTyped(StartedEvent(plan[i], worker))
      BY DEF EventTyped, StartedEvent
    <2>2. /\ events' = Append(events, StartedEvent(plan[i], FreeSlot))
          /\ UNCHANGED <<plan, told>>
      BY <1>1 DEF Begin
    <2> QED
      BY <2>1, <2>2, Told DEF RunningTyped
  <1>2. ASSUME NEW i \in DOMAIN plan, FinishStep(i) PROVE RunningTyped'
    <2>1. /\ told[i] \in Nat /\ plan[i].kind \in Kinds
          /\ told[i] < Len(Steps(plan[i].kind)) /\ plan' = plan
          /\ told' = [told EXCEPT ![i] = @ + 1]
          /\ events' = Append(events, StepEvent(plan[i], Steps(plan[i].kind)[told[i] + 1]))
      BY <1>2 DEF FinishStep, RunningTyped
    <2>2. told[i] + 1 \in 1..Len(Steps(plan[i].kind))
      BY <2>1, KindFacts
    <2>3. Steps(plan[i].kind)[told[i] + 1].attempts \in 0..2
      BY <2>1, <2>2, KindFacts
    <2>4. EventTyped(StepEvent(plan[i], Steps(plan[i].kind)[told[i] + 1]))
      BY <2>3 DEF EventTyped, StepEvent
    <2>5. told' = [j \in DOMAIN plan |-> told'[j]] /\ \A j \in DOMAIN plan : told'[j] \in Nat
      BY <2>1 DEF RunningTyped
    <2> QED
      BY <2>1, <2>4, <2>5, Told
  <1>3. ASSUME NEW i \in DOMAIN plan, Settle(i) PROVE RunningTyped'
    <2>1. events' = Append(events, FinishedEvent(plan[i])) /\ UNCHANGED <<plan, told>>
      BY <1>3 DEF Settle
    <2>2. EventTyped(FinishedEvent(plan[i]))
      BY KindFacts DEF EventTyped, FinishedEvent, RunningTyped
    <2> QED
      BY <2>1, <2>2, Told DEF RunningTyped
  <1>4. CASE CloseRecord
    <2>1. \A tallies : EventTyped(TailEvent(tallies))
      BY DEF EventTyped, TailEvent
    <2>2. (\E tallies : events' = Append(events, TailEvent(tallies))) /\ UNCHANGED <<plan, told>>
      BY <1>4 DEF CloseRecord
    <2> QED
      BY <2>1, <2>2, Told DEF RunningTyped
  <1>5. CASE Die
    BY <1>5 DEF Die, RunningTyped
  <1> QED
    BY <1>1, <1>2, <1>3, <1>4, <1>5 DEF RunStep

LEMMA KeptTyped ==
    ASSUME NEW rec, RecordTyped(rec), NEW inputs
    PROVE  RunTyped(Kept(rec, inputs))
  <1>1. ASSUME NEW T \in SUBSET (0..2), 1 \in T PROVE Worst(T) \in Nat
    <2>1. \E c \in T : \A d \in T : d <= c
      <3>1. CASE 2 \in T
        BY <3>1
      <3>2. CASE 2 \notin T
        BY <1>1, <3>2
      <3> QED
        BY <3>1, <3>2
    <2>2. Worst(T) \in T
      BY <2>1, Zenon DEF Worst
    <2>3. T \subseteq Nat
      BY <1>1
    <2> QED
      BY <2>2, <2>3
  <1>2. ASSUME NEW k \in DOMAIN rec.scenarios
        PROVE  Worst({1} \cup {rec.scenarios[k].steps[x].attempts : x \in DOMAIN rec.scenarios[k].steps}) \in Nat
    <2> DEFINE T == {1} \cup {rec.scenarios[k].steps[x].attempts : x \in DOMAIN rec.scenarios[k].steps}
    <2>1. T \in SUBSET (0..2) /\ 1 \in T
      BY DEF RecordTyped, StepsTyped
    <2> HIDE DEF T
    <2>2. Worst(T) \in Nat
      BY <1>1, <2>1
    <2> QED
      BY <2>2 DEF T
  <1>3. PICK f : f = Kept(rec, inputs).scenarios
    OBVIOUS
  <1>4. DOMAIN f = DOMAIN rec.scenarios
    BY <1>3 DEF Kept
  <1>5. ASSUME NEW k \in DOMAIN rec.scenarios
        PROVE  f[k].status = rec.scenarios[k].status /\ f[k].attempts \in Nat
    <2>1. PICK n : n = Worst({1} \cup {rec.scenarios[k].steps[x].attempts : x \in DOMAIN rec.scenarios[k].steps})
      OBVIOUS
    <2>2. f[k].status = rec.scenarios[k].status /\ f[k].attempts = n
      BY <1>3, <2>1 DEF Kept
    <2> QED
      BY <1>2, <2>1, <2>2
  <1>6. \A k \in DOMAIN rec.scenarios : rec.scenarios[k].status \in Statuses
    BY DEF RecordTyped
  <1>7. \A k \in DOMAIN f : f[k].status \in Statuses /\ f[k].attempts \in Nat
    BY <1>4, <1>5, <1>6
  <1> QED
    BY <1>3, <1>7 DEF RunTyped

LEMMA HistoryStarts == TrendsInit => RunningTyped /\ HistoryTyped
  <1> SUFFICES ASSUME TrendsInit PROVE RunningTyped /\ HistoryTyped
    OBVIOUS
  <1>1. IsSequence(<<>>) /\ 1..Len(<<>>) = {}
    <2>1. <<>> \in Seq({})
      OBVIOUS
    <2> QED
      BY <2>1 DEF IsSequence
  <1>2. HistoryTyped
    BY <1>1 DEF TrendsInit, HistoryTyped
  <1>3. /\ events = <<>> /\ told = [i \in DOMAIN plan |-> 0]
        /\ \A i \in DOMAIN plan : plan[i].kind \in Kinds
    BY PlansAssumption DEF TrendsInit, RunInit
  <1> QED
    BY <1>1, <1>2, <1>3 DEF RunningTyped

LEMMA HistoryStays ==
    RunningTyped /\ HistoryTyped /\ [TrendsStep]_<<rvars, history>> => RunningTyped' /\ HistoryTyped'
  <1> SUFFICES ASSUME RunningTyped, HistoryTyped, [TrendsStep]_<<rvars, history>>
               PROVE  RunningTyped' /\ HistoryTyped'
    OBVIOUS
  <1>1. CASE RunStep /\ UNCHANGED history
    <2>1. HistoryTyped'
      BY <1>1 DEF HistoryTyped
    <2> QED
      BY <1>1, <2>1, RunningStays
  <1>2. CASE Archive
    <2>1. IsSequence(<<>>) /\ 1..Len(<<>>) = {} /\ DOMAIN <<>> = {}
      <3>1. <<>> \in Seq({})
        OBVIOUS
      <3> QED
        BY <3>1 DEF IsSequence
    <2>2. plan' = <<>> /\ told' = <<>> /\ events' = <<>> /\ history' = <<Kept(Record(events), 1)>>
      BY <1>2 DEF Archive
    <2>3. RunningTyped'
      BY <2>1, <2>2 DEF RunningTyped
    <2>4. RunTyped(Kept(Record(events), 1))
      <3>1. Len(events) \in Nat
        BY DEF RunningTyped, IsSequence
      <3> QED
        BY <3>1, StreamTyped, KeptTyped DEF RunningTyped
    <2>5. PICK k : k = Kept(Record(events), 1)
      OBVIOUS
    <2>6. history' = <<k>> /\ RunTyped(k)
      BY <2>2, <2>4, <2>5
    <2>7. <<k>> \in Seq({k}) /\ Len(<<k>>) = 1 /\ <<k>>[1] = k
      OBVIOUS
    <2>8. IsSequence(history') /\ \A n \in 1..Len(history') : RunTyped(history'[n])
      <3>1. \A n \in 1..Len(<<k>>) : n = 1
        BY <2>7
      <3>2. IsSequence(<<k>>) /\ \A n \in 1..Len(<<k>>) : RunTyped(<<k>>[n])
        BY <2>6, <2>7, <3>1 DEF IsSequence
      <3> QED
        BY <2>6, <3>2
    <2> QED
      BY <2>3, <2>8 DEF HistoryTyped
  <1>3. CASE LaterRun
    <2>1. PICK run \in LaterRuns, inputs \in {1, 2} :
              history' = Append(history, [scenarios |-> run.scenarios, completion |-> run.completion,
                                          inputs |-> inputs])
      BY <1>3 DEF LaterRun
    <2>2. PICK r : r = [scenarios |-> run.scenarios, completion |-> run.completion, inputs |-> inputs]
      OBVIOUS
    <2>3. RunTyped(r)
      BY <2>2, TrendsAssumption DEF RunTyped
    <2>4. /\ IsSequence(history') /\ Len(history) \in Nat /\ Len(history') = Len(history) + 1
          /\ \A n \in 1..Len(history) : history'[n] = history[n]
          /\ history'[Len(history) + 1] = r
      BY <2>1, <2>2, AppendIs DEF HistoryTyped
    <2>5. \A n \in 1..Len(history') : n \in 1..Len(history) \/ n = Len(history) + 1
      BY <2>4
    <2>6. HistoryTyped'
      BY <2>3, <2>4, <2>5 DEF HistoryTyped
    <2>7. UNCHANGED rvars
      BY <1>3 DEF LaterRun
    <2> QED
      BY <2>6, <2>7 DEF rvars, RunningTyped
  <1>4. CASE UNCHANGED <<rvars, history>>
    BY <1>4 DEF rvars, RunningTyped, HistoryTyped
  <1> QED
    BY <1>1, <1>2, <1>3, <1>4 DEF TrendsStep

(***************************************************************************)
(* Windows.                                                                 *)
(***************************************************************************)
LEMMA TwoOf ==
    ASSUME NEW S, IsFiniteSet(S)
    PROVE  Cardinality(S) \in Nat /\ (Cardinality(S) >= 2 <=> \E a, b \in S : a # b)
  <1>1. Cardinality(S) \in Nat
    BY FS_CardinalityType
  <1>2. ASSUME Cardinality(S) >= 2 PROVE \E a, b \in S : a # b
    <2>1. S # {}
      BY <1>2, FS_EmptySet
    <2>2. PICK a : a \in S
      BY <2>1
    <2>3. SUFFICES ASSUME S = {a} PROVE FALSE
      BY <2>2
    <2> QED
      BY <1>2, <2>3, FS_Singleton
  <1>3. ASSUME NEW a \in S, NEW b \in S, a # b PROVE Cardinality(S) >= 2
    <2>1. IsFiniteSet({b}) /\ Cardinality({b}) = 1
      BY FS_Singleton
    <2>2. a \notin {b}
      BY <1>3
    <2>3. IsFiniteSet({b} \cup {a}) /\ Cardinality({b} \cup {a}) = 2
      BY <2>1, <2>2, FS_AddElement
    <2>4. {b} \cup {a} \subseteq S
      BY <1>3
    <2> QED
      BY <1>1, <2>3, <2>4, FS_Subset
  <1> QED
    BY <1>1, <1>2, <1>3

\* A history, and the observations of one scenario in it.
RunsTyped(kept) ==
    Len(kept) \in Nat /\ DOMAIN kept = 1..Len(kept) /\ \A n \in 1..Len(kept) : RunTyped(kept[n])

Observes(w, kept, inputs, key) ==
    /\ DOMAIN w = {n \in 1..Len(kept) : /\ ~ Outage(kept[n]) /\ kept[n].inputs = inputs
                                        /\ key \in Observed(kept[n])}
    /\ w = [n \in DOMAIN w |-> w[n]]
    /\ IsFiniteSet(DOMAIN w)
    /\ \A n \in DOMAIN w :
         /\ n \in 1..Len(kept) /\ kept[n].inputs = inputs /\ key \in DOMAIN kept[n].scenarios
         /\ w[n] = kept[n].scenarios[key]
         /\ w[n].status \in Statuses /\ w[n].status # "Skipped" /\ ~ Outage(kept[n])

LEMMA WindowIs ==
    ASSUME NEW kept, RunsTyped(kept), NEW inputs, NEW key
    PROVE  Observes(Window(kept, inputs, key), kept, inputs, key)
  <1>a. PICK w : w = Window(kept, inputs, key)
    OBVIOUS
  <1>b. /\ Len(kept) \in Nat /\ DOMAIN kept = 1..Len(kept)
        /\ \A n \in 1..Len(kept) : RunTyped(kept[n])
    BY DEF RunsTyped
  <1>1. /\ DOMAIN w = {n \in 1..Len(kept) : /\ ~ Outage(kept[n]) /\ kept[n].inputs = inputs
                                            /\ key \in Observed(kept[n])}
        /\ w = [n \in DOMAIN w |-> w[n]]
        /\ \A n \in DOMAIN w : w[n] = kept[n].scenarios[key]
    BY <1>a, <1>b DEF Window
  <1>2. IsFiniteSet(DOMAIN w)
    <2>1. IsFiniteSet(1..Len(kept))
      BY FS_Interval
    <2>2. DOMAIN w \subseteq 1..Len(kept)
      BY <1>1
    <2> QED
      BY <2>1, <2>2, FS_Subset
  <1>3. ASSUME NEW n \in DOMAIN w
        PROVE  /\ n \in 1..Len(kept) /\ kept[n].inputs = inputs /\ key \in DOMAIN kept[n].scenarios
               /\ w[n].status \in Statuses /\ w[n].status # "Skipped" /\ ~ Outage(kept[n])
    <2>1. /\ n \in 1..Len(kept) /\ kept[n].inputs = inputs /\ key \in Observed(kept[n])
          /\ ~ Outage(kept[n]) /\ w[n] = kept[n].scenarios[key]
      BY <1>1
    <2>2. key \in DOMAIN kept[n].scenarios /\ kept[n].scenarios[key].status # "Skipped"
      BY <2>1 DEF Observed, Evidence
    <2>3. kept[n].scenarios[key].status \in Statuses
      BY <1>b, <2>1, <2>2 DEF RunTyped
    <2> QED
      BY <2>1, <2>2, <2>3
  <1> QED
    BY <1>a, <1>1, <1>2, <1>3 DEF Observes

LEMMA FlakyIs ==
    ASSUME NEW w, IsFiniteSet(DOMAIN w), DOMAIN w \subseteq Nat, Verdict(w) = "Flaky"
    PROVE  /\ Observations(w) \in Nat /\ Observations(w) >= MinSamples
           /\ ~ (QuarantinedOnce(w) /\ Fails(w) = DOMAIN w)
           /\ ~ CleanTail(w, RecoveryRuns)
           /\ \E a, b \in Turns(w) : a < b
  <1>1. Observations(w) \in Nat /\ MinSamples \in Nat
    BY FS_CardinalityType, TrendsAssumption DEF Observations
  <1>2. /\ ~ (Observations(w) < MinSamples)
        /\ ~ (QuarantinedOnce(w) /\ Fails(w) = DOMAIN w)
        /\ ~ CleanTail(w, RecoveryRuns) /\ Transitions(w) >= 2
    BY Zenon DEF Verdict
  <1>3. Turns(w) \subseteq DOMAIN w
    BY DEF Turns
  <1>4. IsFiniteSet(Turns(w))
    BY <1>3, FS_Subset
  <1>5. PICK a \in Turns(w), b \in Turns(w) : a # b
    BY <1>2, <1>4, TwoOf DEF Transitions
  <1>6. a \in Nat /\ b \in Nat
    BY <1>3
  <1>7. a < b \/ b < a
    BY <1>5, <1>6
  <1> QED
    BY <1>1, <1>2, <1>7

\* A flake took opposite turns.
LEMMA FlakeFlaps ==
    ASSUME NEW w, IsFiniteSet(DOMAIN w), DOMAIN w \subseteq Nat, Verdict(w) = "Flaky"
    PROVE  \E i, j, k \in DOMAIN w :
              /\ i < j /\ j < k
              /\ Failing(w[i]) # Failing(w[j]) /\ Failing(w[j]) # Failing(w[k])
  <1>1. PICK a \in Turns(w), b \in Turns(w) : a < b
    BY FlakyIs
  <1>2. PICK i \in DOMAIN w : Follows(w, i, a) /\ Failing(w[i]) # Failing(w[a])
    BY DEF Turns
  <1>3. PICK k \in DOMAIN w : Follows(w, k, b) /\ Failing(w[k]) # Failing(w[b])
    BY DEF Turns
  <1>4. a \in DOMAIN w /\ b \in DOMAIN w /\ i < a /\ k < b /\ ~ (k < a /\ a < b)
    BY <1>2, <1>3 DEF Turns, Follows
  <1>5. a \in Nat /\ b \in Nat /\ k \in Nat /\ i \in Nat
    BY <1>4
  <1>6. \A o : Failing(o) \in BOOLEAN
    BY DEF Failing
  <1>7. CASE Failing(w[b]) # Failing(w[a])
    BY <1>1, <1>2, <1>4, <1>7
  <1>8. CASE Failing(w[b]) = Failing(w[a])
    <2>1. a <= k
      BY <1>1, <1>4, <1>5
    <2>2. a # k
      BY <1>3, <1>8
    <2>3. a < k
      BY <1>5, <2>1, <2>2
    <2>4. Failing(w[a]) # Failing(w[k])
      BY <1>3, <1>8
    <2> QED
      BY <1>2, <1>4, <2>3, <2>4
  <1> QED
    BY <1>7, <1>8

LEMMA HistoryFacts ==
    ASSUME HistoryTyped
    PROVE  /\ RunsTyped(history)
           /\ history # <<>> => Len(history) > 0
           /\ Last(history) = history[Len(history)]
  BY DEF HistoryTyped, IsSequence, Last, RunsTyped

LEMMA FlapsHold == HistoryTyped => FlakesFlapped
  <1> SUFFICES ASSUME HistoryTyped, NEW key \in Keys, NEW inputs \in {1, 2},
                      VerdictOf(history, inputs, key) = "Flaky"
               PROVE  \E i, j, k \in DOMAIN history :
                        /\ i < j /\ j < k
                        /\ \A n \in {i, j, k} : history[n].inputs = inputs /\ key \in DOMAIN history[n].scenarios
                        /\ LET Fell(n) == history[n].scenarios[key].status = "Failed"
                               Rose(n) == history[n].scenarios[key].status \in {"Passed", "Warned"}
                           IN  (Fell(i) /\ Rose(j) /\ Fell(k)) \/ (Rose(i) /\ Fell(j) /\ Rose(k))
    BY DEF FlakesFlapped
  <1>1. PICK w : w = Window(history, inputs, key)
    OBVIOUS
  <1>2. /\ DOMAIN history = 1..Len(history) /\ Len(history) \in Nat
        /\ IsFiniteSet(DOMAIN w)
        /\ \A n \in DOMAIN w :
                /\ n \in 1..Len(history) /\ history[n].inputs = inputs
                /\ key \in DOMAIN history[n].scenarios
                /\ w[n] = history[n].scenarios[key]
                /\ w[n].status \in Statuses /\ w[n].status # "Skipped"
    <2>1. RunsTyped(history)
      BY HistoryFacts
    <2>2. Observes(w, history, inputs, key)
      BY <1>1, <2>1, WindowIs
    <2> QED
      BY <2>1, <2>2 DEF RunsTyped, Observes
  <1>3. PICK i \in DOMAIN w, j \in DOMAIN w, k \in DOMAIN w :
            i < j /\ j < k /\ Failing(w[i]) # Failing(w[j]) /\ Failing(w[j]) # Failing(w[k])
    <2>1. Verdict(w) = "Flaky" /\ DOMAIN w \subseteq Nat
      BY <1>1, <1>2 DEF VerdictOf
    <2> QED
      BY <1>2, <2>1, FlakeFlaps
  <1>4. \A n \in DOMAIN w : /\ Failing(w[n]) => history[n].scenarios[key].status = "Failed"
                            /\ ~ Failing(w[n]) => history[n].scenarios[key].status \in {"Passed", "Warned"}
    BY <1>2 DEF Failing, Statuses
  <1>5. \/ Failing(w[i]) /\ ~ Failing(w[j]) /\ Failing(w[k])
        \/ ~ Failing(w[i]) /\ Failing(w[j]) /\ ~ Failing(w[k])
    BY <1>3 DEF Failing
  <1>6. \A n \in {i, j, k} : history[n].inputs = inputs /\ key \in DOMAIN history[n].scenarios
    BY <1>2
  <1>7. i \in DOMAIN history /\ j \in DOMAIN history /\ k \in DOMAIN history
    BY <1>2
  <1>8. LET Fell(n) == history[n].scenarios[key].status = "Failed"
            Rose(n) == history[n].scenarios[key].status \in {"Passed", "Warned"}
        IN  (Fell(i) /\ Rose(j) /\ Fell(k)) \/ (Rose(i) /\ Fell(j) /\ Rose(k))
    BY <1>4, <1>5
  <1> QED
    BY <1>3, <1>6, <1>7, <1>8

\* One observation more, later than the others.
Longer(w, v, L) ==
    /\ DOMAIN v = DOMAIN w \cup {L} /\ L \notin DOMAIN w /\ L \in Nat
    /\ IsFiniteSet(DOMAIN w) /\ DOMAIN w \subseteq Nat
    /\ \A n \in DOMAIN w : n < L /\ v[n] = w[n]

LEMMA LongerIs ==
    ASSUME NEW w, NEW v, NEW L, Longer(w, v, L)
    PROVE  /\ IsFiniteSet(DOMAIN v) /\ DOMAIN v \subseteq Nat
           /\ Observations(w) \in Nat /\ Observations(v) = Observations(w) + 1
           /\ Turns(w) \subseteq Turns(v)
           /\ Fails(v) = DOMAIN v => Fails(w) = DOMAIN w
           /\ QuarantinedOnce(w) => QuarantinedOnce(v)
  <1>1. IsFiniteSet(DOMAIN v) /\ DOMAIN v \subseteq Nat
    BY FS_AddElement DEF Longer
  <1>2. Observations(w) \in Nat /\ Observations(v) = Observations(w) + 1
    BY FS_AddElement, FS_CardinalityType DEF Longer, Observations
  <1>3. Turns(w) \subseteq Turns(v)
    <2>1. ASSUME NEW n \in Turns(w) PROVE n \in Turns(v)
      <3>1. n \in DOMAIN w
        BY DEF Turns
      <3>2. PICK m \in DOMAIN w : Follows(w, m, n) /\ Failing(w[m]) # Failing(w[n])
        BY DEF Turns
      <3>3. Follows(v, m, n)
        <4>1. m < n /\ \A k \in DOMAIN w : ~ (m < k /\ k < n)
          BY <3>2 DEF Follows
        <4>2. ~ (L < n)
          BY <3>1 DEF Longer
        <4> QED
          BY <4>1, <4>2 DEF Longer, Follows
      <3>4. v[m] = w[m] /\ v[n] = w[n] /\ m \in DOMAIN v /\ n \in DOMAIN v
        BY <3>1, <3>2 DEF Longer
      <3> QED
        BY <3>2, <3>3, <3>4 DEF Turns
    <2> QED
      BY <2>1
  <1>4. Fails(v) = DOMAIN v => Fails(w) = DOMAIN w
    BY DEF Fails, Longer
  <1>5. QuarantinedOnce(w) => QuarantinedOnce(v)
    BY DEF QuarantinedOnce, Longer
  <1> QED
    BY <1>1, <1>2, <1>3, <1>4, <1>5

\* A flake stays one, or its tail is clean.
LEMMA FlakeStays ==
    ASSUME NEW w, NEW v, NEW L, Longer(w, v, L), Verdict(w) = "Flaky", Verdict(v) # "Flaky"
    PROVE  Verdict(v) = "Healthy" /\ Observations(v) >= RecoveryRuns /\ Clean(v[L])
  <1>1. /\ IsFiniteSet(DOMAIN v) /\ DOMAIN v \subseteq Nat
        /\ Observations(w) \in Nat /\ Observations(v) = Observations(w) + 1
        /\ Turns(w) \subseteq Turns(v) /\ IsFiniteSet(DOMAIN w) /\ DOMAIN w \subseteq Nat
    BY LongerIs DEF Longer
  <1>2. Observations(w) >= MinSamples /\ \E a, b \in Turns(w) : a < b
    BY <1>1, FlakyIs
  <1>3. MinSamples \in Nat /\ RecoveryRuns \in Nat
    BY TrendsAssumption
  <1>4. ~ (Observations(v) < MinSamples)
    BY <1>1, <1>2, <1>3
  <1>5. PICK a \in Turns(v), b \in Turns(v) : a < b
    BY <1>1, <1>2
  <1>6. PICK m \in DOMAIN v : Failing(v[m]) # Failing(v[a])
    BY <1>5 DEF Turns
  <1>7. Fails(v) # DOMAIN v /\ Fails(v) # {}
    <2>1. a \in DOMAIN v /\ m \in DOMAIN v
      BY <1>6 DEF Turns
    <2>2. CASE Failing(v[a])
      BY <1>6, <2>1, <2>2 DEF Fails
    <2>3. CASE ~ Failing(v[a])
      <3>1. Failing(v[m])
        BY <1>6, <2>3 DEF Failing
      <3> QED
        BY <2>1, <2>3, <3>1 DEF Fails
    <2> QED
      BY <2>2, <2>3
  <1>8. Transitions(v) >= 2
    <2>1. Turns(v) \subseteq DOMAIN v
      BY DEF Turns
    <2>2. IsFiniteSet(Turns(v))
      BY <1>1, <2>1, FS_Subset
    <2>3. a # b
      <3>1. a \in Nat /\ b \in Nat
        BY <1>1, <2>1
      <3> QED
        BY <1>5, <3>1
    <2> QED
      BY <2>2, <2>3, TwoOf DEF Transitions
  <1>9. CleanTail(v, RecoveryRuns) /\ Verdict(v) = "Healthy"
    BY <1>4, <1>7, <1>8, Zenon DEF Verdict
  <1>10. RecoveryRuns > 0 /\ Cardinality(CleanRuns(v)) >= RecoveryRuns
    BY <1>9 DEF CleanTail
  <1>11. CleanRuns(v) \subseteq DOMAIN v
    BY DEF CleanRuns
  <1>12. /\ IsFiniteSet(CleanRuns(v)) /\ Cardinality(CleanRuns(v)) \in Nat
         /\ Cardinality(CleanRuns(v)) <= Observations(v)
    BY <1>1, <1>11, FS_Subset, FS_CardinalityType DEF Observations
  <1>13. CleanRuns(v) # {}
    BY <1>3, <1>10, FS_EmptySet
  <1>14. PICK t : t \in CleanRuns(v)
    BY <1>13
  <1>15. t \in DOMAIN v /\ L \in DOMAIN v /\ t <= L
    BY <1>11, <1>14 DEF Longer
  <1>16. Clean(v[L])
    BY <1>14, <1>15 DEF CleanRuns
  <1>17. Observations(v) >= RecoveryRuns
    BY <1>1, <1>3, <1>10, <1>12
  <1> QED
    BY <1>9, <1>16, <1>17

\* What has always failed had no verdict, or this one.
LEMMA BrokenStays ==
    ASSUME NEW w, NEW v, NEW L, Longer(w, v, L), Verdict(v) = "Broken"
    PROVE  Verdict(w) \in {"Broken", "InsufficientData"}
  <1>1. Fails(v) = DOMAIN v /\ ~ QuarantinedOnce(v)
    BY Zenon DEF Verdict
  <1>2. Fails(w) = DOMAIN w /\ ~ QuarantinedOnce(w)
    BY <1>1, LongerIs
  <1>3. CASE Observations(w) < MinSamples
    BY <1>3, Zenon DEF Verdict
  <1>4. CASE ~ (Observations(w) < MinSamples)
    <2>1. Verdict(w) = "Broken"
      BY <1>2, <1>4, Zenon DEF Verdict
    <2> QED
      BY <2>1
  <1> QED
    BY <1>3, <1>4

LEMMA FrontIs ==
    ASSUME NEW s, IsSequence(s), RunsTyped(s), Len(s) > 1
    PROVE  /\ RunsTyped(Front(s)) /\ Len(Front(s)) = Len(s) - 1
           /\ \A n \in 1..(Len(s) - 1) : Front(s)[n] = s[n]
  <1>1. PICK X : s \in Seq(X)
    BY DEF IsSequence
  <1>2. Len(s) \in Nat /\ \A n \in 1..Len(s) : RunTyped(s[n])
    BY DEF RunsTyped
  <1>3. PICK f : f = Front(s)
    OBVIOUS
  <1>4. /\ f \in Seq(X) /\ Len(f) = Len(s) - 1
        /\ \A n \in 1..(Len(s) - 1) : f[n] = s[n]
    BY <1>1, <1>2, <1>3 DEF Front
  <1>5. Len(f) \in Nat /\ DOMAIN f = 1..Len(f)
    BY <1>4
  <1>6. \A n \in 1..Len(f) : f[n] = s[n] /\ n \in 1..Len(s)
    BY <1>2, <1>4
  <1>7. RunsTyped(f)
    BY <1>2, <1>5, <1>6 DEF RunsTyped
  <1> QED
    BY <1>3, <1>4, <1>7

\* What the last run adds to a window: an observation, or nothing.
LEMMA WindowGrows ==
    ASSUME NEW s, IsSequence(s), RunsTyped(s), Len(s) > 1, NEW inputs, NEW key,
           NEW v, v = Window(s, inputs, key), NEW w, w = Window(Front(s), inputs, key)
    PROVE  /\ Len(s) \notin DOMAIN v => v = w
           /\ Len(s) \in DOMAIN v => Longer(w, v, Len(s))
  <1>1. PICK L : L = Len(s)
    OBVIOUS
  <1>2. PICK f : f = Front(s)
    OBVIOUS
  <1>3. /\ RunsTyped(f) /\ Len(f) = L - 1 /\ L > 1 /\ L \in Nat
        /\ \A n \in 1..(L - 1) : f[n] = s[n]
    BY <1>1, <1>2, FrontIs DEF RunsTyped
  <1>4. Observes(v, s, inputs, key) /\ Observes(w, f, inputs, key)
    BY <1>2, <1>3, WindowIs
  <1> DEFINE Use(r) == ~ Outage(r) /\ r.inputs = inputs /\ key \in Observed(r)
  <1>5. /\ DOMAIN v = {n \in 1..L : Use(s[n])}
        /\ \A n \in DOMAIN v : v[n] = s[n].scenarios[key]
        /\ v = [n \in DOMAIN v |-> v[n]]
    BY <1>1, <1>4 DEF Observes
  <1>6. /\ DOMAIN w = {n \in 1..(L - 1) : Use(f[n])}
        /\ \A n \in DOMAIN w : w[n] = f[n].scenarios[key]
        /\ w = [n \in DOMAIN w |-> w[n]] /\ IsFiniteSet(DOMAIN w)
    BY <1>3, <1>4 DEF Observes
  <1> HIDE DEF Use
  <1>7. \A n \in 1..(L - 1) : n \in DOMAIN w <=> n \in DOMAIN v
    <2> TAKE n \in 1..(L - 1)
    <2>1. f[n] = s[n] /\ n \in 1..L
      BY <1>3
    <2> QED
      BY <1>5, <1>6, <2>1
  <1>8. \A n \in DOMAIN w : n \in 1..(L - 1) /\ v[n] = w[n]
    <2> TAKE n \in DOMAIN w
    <2>1. n \in 1..(L - 1)
      BY <1>6
    <2>2. f[n] = s[n] /\ n \in DOMAIN v
      BY <1>3, <1>7, <2>1
    <2> QED
      BY <1>5, <1>6, <2>1, <2>2
  <1>9. \A n \in DOMAIN v : n \in 1..(L - 1) \/ n = L
    BY <1>3, <1>5
  <1>10. ASSUME L \notin DOMAIN v PROVE v = w
    <2>1. DOMAIN v = DOMAIN w
      BY <1>7, <1>8, <1>9, <1>10
    <2> QED
      BY <1>5, <1>6, <1>8, <2>1
  <1>11. ASSUME L \in DOMAIN v PROVE Longer(w, v, L)
    <2>1. DOMAIN v = DOMAIN w \cup {L}
      BY <1>7, <1>8, <1>9, <1>11
    <2>2. L \notin DOMAIN w /\ DOMAIN w \subseteq Nat /\ \A n \in DOMAIN w : n < L
      BY <1>3, <1>8
    <2> QED
      BY <1>3, <1>6, <1>8, <2>1, <2>2 DEF Longer
  <1> QED
    BY <1>1, <1>10, <1>11

LEMMA VerdictsKept == HistoryTyped => VerdictsHold
  <1> SUFFICES ASSUME HistoryTyped, Len(history) > 1, NEW key \in Keys, NEW inputs \in {1, 2}
               PROVE  LET before == VerdictOf(Front(history), inputs, key)
                          after == VerdictOf(history, inputs, key)
                          last == Last(history)
                          silent == \/ last.inputs # inputs
                                    \/ key \notin DOMAIN last.scenarios
                                    \/ last.scenarios[key].status = "Skipped"
                                    \/ Outage(last)
                      IN  /\ silent => after = before
                          /\ before = "Flaky" /\ after # "Flaky" =>
                               /\ after = "Healthy"
                               /\ Observations(Window(history, inputs, key)) >= RecoveryRuns
                               /\ ~ silent /\ last.scenarios[key].status # "Failed"
                               /\ last.scenarios[key].attempts = 1
                          /\ after = "Broken" => before \in {"Broken", "InsufficientData"}
    BY DEF VerdictsHold
  <1>1. PICK s, L, r : s = history /\ L = Len(s) /\ r = s[L]
    OBVIOUS
  <1>2. IsSequence(s) /\ RunsTyped(s) /\ L > 1 /\ Last(history) = r
    BY <1>1, HistoryFacts DEF HistoryTyped
  <1>3. PICK v, w : v = Window(s, inputs, key) /\ w = Window(Front(s), inputs, key)
    OBVIOUS
  <1>4. Observes(v, s, inputs, key)
    BY <1>2, <1>3, WindowIs
  <1>5. (L \notin DOMAIN v => v = w) /\ (L \in DOMAIN v => Longer(w, v, L))
    BY <1>1, <1>2, <1>3, WindowGrows
  <1>6. L \in DOMAIN v =>
          /\ r.inputs = inputs /\ key \in DOMAIN r.scenarios /\ v[L] = r.scenarios[key]
          /\ r.scenarios[key].status # "Skipped" /\ ~ Outage(r)
    BY <1>1, <1>4 DEF Observes
  <1>7. VerdictOf(history, inputs, key) = Verdict(v) /\ VerdictOf(Front(history), inputs, key) = Verdict(w)
    BY <1>1, <1>3 DEF VerdictOf
  <1>8. CASE L \notin DOMAIN v
    <2>1. Verdict(v) = Verdict(w)
      BY <1>5, <1>8
    <2> QED
      BY <1>2, <1>7, <2>1
  <1>9. CASE L \in DOMAIN v
    <2>1. Longer(w, v, L)
      BY <1>5, <1>9
    <2>2. Verdict(w) = "Flaky" /\ Verdict(v) # "Flaky" =>
            Verdict(v) = "Healthy" /\ Observations(v) >= RecoveryRuns /\ Clean(v[L])
      BY <2>1, FlakeStays
    <2>3. Verdict(v) = "Broken" => Verdict(w) \in {"Broken", "InsufficientData"}
      BY <2>1, BrokenStays
    <2>4. Clean(v[L]) => r.scenarios[key].status # "Failed" /\ r.scenarios[key].attempts = 1
      BY <1>6, <1>9 DEF Clean, Failing
    <2>5. v = Window(history, inputs, key)
      BY <1>1, <1>3
    <2> QED
      BY <1>2, <1>6, <1>7, <1>9, <2>2, <2>3, <2>4, <2>5
  <1> QED
    BY <1>8, <1>9

(***************************************************************************)
(* Differences.                                                             *)
(***************************************************************************)
Rises(o) == o.status \in {"Passed", "Warned"}

LEMMA BucketIs ==
    ASSUME NEW was, NEW now, was.status \in Statuses, now.status \in Statuses
    PROVE  /\ Bucket(was, now) = "regressed" <=> Rises(was) /\ Failing(now)
           /\ Bucket(was, now) = "fixed" <=> Failing(was) /\ Rises(now)
           /\ Bucket(was, now) = "still_failing" <=> Failing(was) /\ Failing(now)
           /\ Bucket(was, now) = "now_skipped" <=> was.status # "Skipped" /\ now.status = "Skipped"
           /\ Bucket(was, now) = "added" <=> was.status = "Skipped" /\ now.status # "Skipped"
  <1>1. CASE was.status = "Skipped" /\ now.status = "Skipped"
    <2>1. Bucket(was, now) = "none"
      BY <1>1 DEF Bucket
    <2> QED
      BY <1>1, <2>1 DEF Rises, Failing
  <1>2. CASE was.status # "Skipped" /\ now.status = "Skipped"
    <2>1. Bucket(was, now) = "now_skipped"
      BY <1>2 DEF Bucket
    <2> QED
      BY <1>2, <2>1 DEF Rises, Failing
  <1>3. CASE was.status = "Skipped" /\ now.status # "Skipped"
    <2>1. Bucket(was, now) = "added"
      BY <1>3 DEF Bucket
    <2> QED
      BY <1>3, <2>1 DEF Rises, Failing
  <1>4. CASE was.status # "Skipped" /\ now.status # "Skipped"
    <2>1. Bucket(was, now) = IF Failing(was) /\ Failing(now) THEN "still_failing"
                             ELSE IF Failing(was) THEN "fixed"
                             ELSE IF Failing(now) THEN "regressed" ELSE "none"
      BY <1>4 DEF Bucket
    <2>2. (Rises(was) <=> ~ Failing(was)) /\ (Rises(now) <=> ~ Failing(now))
      BY <1>4 DEF Rises, Failing, Statuses
    <2>3. CASE Failing(was) /\ Failing(now)
      <3>1. Bucket(was, now) = "still_failing"
        BY <2>1, <2>3
      <3> QED
        BY <1>4, <2>2, <2>3, <3>1
    <2>4. CASE Failing(was) /\ ~ Failing(now)
      <3>1. Bucket(was, now) = "fixed"
        BY <2>1, <2>4
      <3> QED
        BY <1>4, <2>2, <2>4, <3>1
    <2>5. CASE ~ Failing(was) /\ Failing(now)
      <3>1. Bucket(was, now) = "regressed"
        BY <2>1, <2>5
      <3> QED
        BY <1>4, <2>2, <2>5, <3>1
    <2>6. CASE ~ Failing(was) /\ ~ Failing(now)
      <3>1. Bucket(was, now) = "none"
        BY <2>1, <2>6
      <3> QED
        BY <1>4, <2>2, <2>6, <3>1
    <2> QED
      BY <2>3, <2>4, <2>5, <2>6
  <1> QED
    BY <1>1, <1>2, <1>3, <1>4

SuiteKeys(r) == {k \in DOMAIN r.scenarios : r.scenarios[k].phase = "suite"}

LEMMA DiffIs ==
    ASSUME NEW b, NEW n, RunTyped(b), RunTyped(n), NEW d, d = Diff(b, n),
           NEW P, P = SuiteKeys(b), NEW Q, Q = SuiteKeys(n),
           NEW B, B = b.scenarios, NEW C, C = n.scenarios
    PROVE  /\ d.regressed = {k \in P \cap Q : Rises(B[k]) /\ Failing(C[k])}
           /\ d.fixed = {k \in P \cap Q : Failing(B[k]) /\ Rises(C[k])}
           /\ d.still_failing = {k \in P \cap Q : Failing(B[k]) /\ Failing(C[k])}
           /\ d.now_skipped = {k \in P \cap Q : B[k].status # "Skipped" /\ C[k].status = "Skipped"}
           /\ d.added = {k \in P \cap Q : B[k].status = "Skipped" /\ C[k].status # "Skipped"} \cup (Q \ P)
           /\ d.removed = P \ Q
           /\ d.flaky = {k \in P \cap Q : C[k].attempts > B[k].attempts}
           /\ DOMAIN d = {"regressed", "fixed", "still_failing", "now_skipped", "added", "removed", "flaky"}
  <1>1. SuiteOf(b) = [k \in P |-> B[k]] /\ SuiteOf(n) = [k \in Q |-> C[k]]
    BY DEF SuiteOf, SuiteKeys
  <1>2. PICK was, now : was = SuiteOf(b) /\ now = SuiteOf(n)
    OBVIOUS
  <1>3. /\ DOMAIN was = P /\ DOMAIN now = Q
        /\ \A k \in P : was[k] = B[k]
        /\ \A k \in Q : now[k] = C[k]
    BY <1>1, <1>2
  <1> DEFINE Of(bucket) == {k \in P \cap Q : Bucket(was[k], now[k]) = bucket}
  <1>4. d = [regressed |-> Of("regressed"), fixed |-> Of("fixed"),
             still_failing |-> Of("still_failing"), now_skipped |-> Of("now_skipped"),
             added |-> Of("added") \cup (Q \ P), removed |-> P \ Q,
             flaky |-> {k \in P \cap Q : now[k].attempts > was[k].attempts}]
    BY <1>2, <1>3, Zenon DEF Diff
  <1>5. \A k \in P \cap Q :
           /\ Bucket(was[k], now[k]) = "regressed" <=> Rises(B[k]) /\ Failing(C[k])
           /\ Bucket(was[k], now[k]) = "fixed" <=> Failing(B[k]) /\ Rises(C[k])
           /\ Bucket(was[k], now[k]) = "still_failing" <=> Failing(B[k]) /\ Failing(C[k])
           /\ Bucket(was[k], now[k]) = "now_skipped" <=> B[k].status # "Skipped" /\ C[k].status = "Skipped"
           /\ Bucket(was[k], now[k]) = "added" <=> B[k].status = "Skipped" /\ C[k].status # "Skipped"
    <2> TAKE k \in P \cap Q
    <2>1. was[k] = B[k] /\ now[k] = C[k]
      BY <1>3
    <2>2. B[k].status \in Statuses /\ C[k].status \in Statuses
      BY DEF RunTyped, SuiteKeys
    <2> QED
      BY <2>1, <2>2, BucketIs
  <1>6. Of("regressed") = {k \in P \cap Q : Rises(B[k]) /\ Failing(C[k])}
    BY <1>5, Zenon
  <1>7. Of("fixed") = {k \in P \cap Q : Failing(B[k]) /\ Rises(C[k])}
    BY <1>5, Zenon
  <1>8. Of("still_failing") = {k \in P \cap Q : Failing(B[k]) /\ Failing(C[k])}
    BY <1>5, Zenon
  <1>9. Of("now_skipped") = {k \in P \cap Q : B[k].status # "Skipped" /\ C[k].status = "Skipped"}
    BY <1>5, Zenon
  <1>10. Of("added") = {k \in P \cap Q : B[k].status = "Skipped" /\ C[k].status # "Skipped"}
    BY <1>5, Zenon
  <1>11. {k \in P \cap Q : now[k].attempts > was[k].attempts}
            = {k \in P \cap Q : C[k].attempts > B[k].attempts}
    BY <1>3
  <1> HIDE DEF Of
  <1> QED
    BY <1>4, <1>6, <1>7, <1>8, <1>9, <1>10, <1>11

LEMMA Mirrors ==
    ASSUME NEW b, NEW n, RunTyped(b), RunTyped(n),
           NEW there, there = Diff(b, n), NEW back, back = Diff(n, b)
    PROVE  /\ there.regressed = back.fixed
           /\ there.still_failing = back.still_failing
           /\ \A key \in there.fixed : n.scenarios[key].status \in {"Passed", "Warned"}
           /\ there.now_skipped \subseteq back.added
           /\ there.removed \subseteq back.added
           /\ b = n => \A bucket \in DOMAIN there \ {"still_failing"} : there[bucket] = {}
  <1>1. PICK P, Q, B, C : P = SuiteKeys(b) /\ Q = SuiteKeys(n) /\ B = b.scenarios /\ C = n.scenarios
    OBVIOUS
  <1>2. /\ there.regressed = {k \in P \cap Q : Rises(B[k]) /\ Failing(C[k])}
        /\ there.fixed = {k \in P \cap Q : Failing(B[k]) /\ Rises(C[k])}
        /\ there.still_failing = {k \in P \cap Q : Failing(B[k]) /\ Failing(C[k])}
        /\ there.now_skipped = {k \in P \cap Q : B[k].status # "Skipped" /\ C[k].status = "Skipped"}
        /\ there.added = {k \in P \cap Q : B[k].status = "Skipped" /\ C[k].status # "Skipped"} \cup (Q \ P)
        /\ there.removed = P \ Q
        /\ there.flaky = {k \in P \cap Q : C[k].attempts > B[k].attempts}
        /\ DOMAIN there = {"regressed", "fixed", "still_failing", "now_skipped", "added", "removed", "flaky"}
    BY <1>1, DiffIs
  <1>3. /\ back.fixed = {k \in Q \cap P : Failing(C[k]) /\ Rises(B[k])}
        /\ back.still_failing = {k \in Q \cap P : Failing(C[k]) /\ Failing(B[k])}
        /\ back.added = {k \in Q \cap P : C[k].status = "Skipped" /\ B[k].status # "Skipped"} \cup (P \ Q)
    BY <1>1, DiffIs
  <1>4. there.regressed = back.fixed /\ there.still_failing = back.still_failing
    BY <1>2, <1>3, Zenon
  <1>5. \A key \in there.fixed : n.scenarios[key].status \in {"Passed", "Warned"}
    BY <1>1, <1>2 DEF Rises
  <1>6. there.now_skipped \subseteq back.added /\ there.removed \subseteq back.added
    BY <1>2, <1>3, Zenon
  <1>7. ASSUME b = n PROVE \A bucket \in DOMAIN there \ {"still_failing"} : there[bucket] = {}
    <2>1. P = Q /\ B = C
      BY <1>1, <1>7
    <2>2. \A k : ~ (Rises(B[k]) /\ Failing(B[k]))
      BY DEF Rises, Failing
    <2>3. there.regressed = {} /\ there.fixed = {} /\ there.now_skipped = {} /\ there.removed = {}
      BY <1>2, <2>1, <2>2, Zenon
    <2>4. there.added = {}
      BY <1>2, <2>1, Zenon
    <2>5. \A k \in P : B[k].attempts \in Nat
      BY <1>1 DEF RunTyped, SuiteKeys
    <2>6. there.flaky = {}
      BY <1>2, <2>1, <2>5
    <2> QED
      BY <1>2, <2>3, <2>4, <2>6
  <1> QED
    BY <1>4, <1>5, <1>6, <1>7

LEMMA MirrorsKept == HistoryTyped => DiffMirrors
  <1> SUFFICES ASSUME HistoryTyped, NEW m \in DOMAIN history
               PROVE  LET n == Len(history)
                          there == Diff(history[m], history[n])
                          back == Diff(history[n], history[m])
                      IN  /\ there.regressed = back.fixed
                          /\ there.still_failing = back.still_failing
                          /\ \A key \in there.fixed :
                                history[n].scenarios[key].status \in {"Passed", "Warned"}
                          /\ there.now_skipped \subseteq back.added
                          /\ there.removed \subseteq back.added
                          /\ m = n => \A bucket \in DOMAIN there \ {"still_failing"} : there[bucket] = {}
    BY DEF DiffMirrors
  <1>1. RunsTyped(history)
    BY HistoryFacts
  <1>2. m \in 1..Len(history) /\ Len(history) \in 1..Len(history)
    BY <1>1 DEF RunsTyped
  <1>3. PICK b, n : b = history[m] /\ n = history[Len(history)]
    OBVIOUS
  <1>4. RunTyped(b) /\ RunTyped(n)
    BY <1>1, <1>2, <1>3 DEF RunsTyped
  <1>5. PICK there, back : there = Diff(b, n) /\ back = Diff(n, b)
    OBVIOUS
  <1>6. /\ there.regressed = back.fixed
        /\ there.still_failing = back.still_failing
        /\ \A key \in there.fixed : n.scenarios[key].status \in {"Passed", "Warned"}
        /\ there.now_skipped \subseteq back.added
        /\ there.removed \subseteq back.added
        /\ b = n => \A bucket \in DOMAIN there \ {"still_failing"} : there[bucket] = {}
    BY <1>4, <1>5, Mirrors
  <1> QED
    BY <1>3, <1>5, <1>6

\* Along a chain of passing gates nothing turns to failed.
LEMMA GatesKept == HistoryTyped => GatesHold
  <1> SUFFICES ASSUME HistoryTyped, NEW m \in DOMAIN history,
                      \A k \in m..(Len(history) - 1) : GatePasses(history[k], history[k + 1]),
                      NEW key \in Keys,
                      \A k \in m..Len(history) : key \in Observed(history[k]),
                      Last(history).scenarios[key].status = "Failed"
               PROVE  history[m].scenarios[key].status = "Failed"
    BY DEF GatesHold
  <1>1. PICK s, L : s = history /\ L = Len(s)
    OBVIOUS
  <1>2. /\ RunsTyped(s) /\ L \in Nat /\ m \in 1..L /\ s[L].scenarios[key].status = "Failed"
        /\ \A k \in 1..L : RunTyped(s[k])
    BY <1>1, HistoryFacts DEF RunsTyped
  <1>3. ASSUME NEW k \in m..(L - 1), ~ Failing(s[k].scenarios[key])
        PROVE  ~ Failing(s[k + 1].scenarios[key])
    <2>1. k \in m..L /\ k + 1 \in m..L /\ k \in 1..L /\ k + 1 \in 1..L
      BY <1>2, <1>3
    <2>2. PICK b, n : b = s[k] /\ n = s[k + 1]
      OBVIOUS
    <2>3. key \in Observed(b) /\ key \in Observed(n) /\ RunTyped(b) /\ RunTyped(n)
      BY <1>1, <1>2, <2>1, <2>2
    <2>4. /\ key \in SuiteKeys(b) /\ key \in SuiteKeys(n)
          /\ b.scenarios[key].status # "Skipped" /\ b.scenarios[key].status \in Statuses
      BY <2>3 DEF Observed, Evidence, SuiteKeys, RunTyped
    <2>5. GatePasses(b, n)
      BY <1>1, <1>3, <2>2
    <2>6. Diff(b, n).regressed = {}
      BY <2>5 DEF GatePasses
    <2>7. PICK d, P, Q, B, C : /\ d = Diff(b, n) /\ P = SuiteKeys(b) /\ Q = SuiteKeys(n)
                               /\ B = b.scenarios /\ C = n.scenarios
      OBVIOUS
    <2>8. d.regressed = {x \in P \cap Q : Rises(B[x]) /\ Failing(C[x])}
      BY <2>3, <2>7, DiffIs
    <2>9. Rises(B[key])
      BY <1>3, <2>2, <2>4, <2>7 DEF Rises, Failing, Statuses
    <2>10. ~ Failing(C[key])
      BY <2>4, <2>6, <2>7, <2>8, <2>9, Zenon
    <2> QED
      BY <2>2, <2>7, <2>10
  <1> DEFINE S == {x \in Nat : m + x \in m..L /\ ~ Failing(s[m].scenarios[key])
                                 => ~ Failing(s[m + x].scenarios[key])}
  <1>4. 0 \in S
    <2>1. m + 0 = m
      BY <1>2
    <2> QED
      BY <2>1
  <1>5. ASSUME NEW x \in Nat, x \in S PROVE x + 1 \in S
    <2> SUFFICES ASSUME m + (x + 1) \in m..L, ~ Failing(s[m].scenarios[key])
                 PROVE  ~ Failing(s[m + (x + 1)].scenarios[key])
      OBVIOUS
    <2>1. PICK k : k = m + x
      OBVIOUS
    <2>2. k \in m..(L - 1) /\ k \in m..L /\ m + (x + 1) = k + 1
      BY <1>2, <2>1
    <2>3. ~ Failing(s[k].scenarios[key])
      BY <1>5, <2>1, <2>2
    <2>4. ~ Failing(s[k + 1].scenarios[key])
      BY <1>3, <2>2, <2>3
    <2> QED
      BY <2>2, <2>4
  <1>6. Nat \subseteq S
    <2> HIDE DEF S
    <2> QED
      BY <1>4, <1>5, CountingOn
  <1>7. L - m \in Nat /\ m + (L - m) = L /\ m + (L - m) \in m..L
    BY <1>2
  <1>8. ~ Failing(s[m].scenarios[key]) => ~ Failing(s[m + (L - m)].scenarios[key])
    <2>1. L - m \in S
      BY <1>6, <1>7
    <2> QED
      BY <1>7, <2>1
  <1>9. Failing(s[m].scenarios[key])
    BY <1>2, <1>7, <1>8 DEF Failing
  <1> QED
    BY <1>1, <1>9 DEF Failing

LEMMA TrendsTold == HistoryTyped => TrendsTrue
  BY FlapsHold, VerdictsKept, MirrorsKept, GatesKept DEF TrendsTrue

\* The verdicts of `flaky` (flaky.rs, History::verdict) are earned and steady
\* over every history of runs, and the gate of `diff --fail-on-regression`
\* (diff.rs) cannot be walked past in steps.
THEOREM TrendsTrueHolds == TrendsSpec => []TrendsTrue
  <1>1. TrendsInit => RunningTyped /\ HistoryTyped
    BY HistoryStarts
  <1>2. RunningTyped /\ HistoryTyped /\ [TrendsStep]_<<rvars, history>>
          => (RunningTyped /\ HistoryTyped)'
    BY HistoryStays
  <1>3. RunningTyped /\ HistoryTyped => TrendsTrue
    BY TrendsTold
  <1> QED
    BY <1>1, <1>2, <1>3, PTL DEF TrendsSpec

-----------------------------------------------------------------------------
(***************************************************************************)
(* The assets of a scenario whose slug is its own, for any scenarios that    *)
(* stage and run side by side, any volume and any leftovers.                 *)
(***************************************************************************)
USE StagingAssumption

\* Where a scenario's staging is.
StagerPlaces == {"preparing", "refused", "staging", "failed", "running", "over"}

StagersType ==
    /\ cast \in Casts
    /\ stagers = [s \in DOMAIN cast |-> stagers[s]]
    /\ \A s \in DOMAIN cast :
          stagers[s] = [at |-> stagers[s].at, next |-> stagers[s].next, landed |-> stagers[s].landed]
    /\ \A s \in DOMAIN cast : stagers[s].at \in StagerPlaces /\ stagers[s].next \in Nat \ {0}

\* What is there of a scenario's assets after the first few, and under which name
\* each of its files came.
Landed(s) ==
    /\ stagers[s].at = "preparing" => stagers[s].next = 1 /\ DOMAIN stagers[s].landed = {}
    /\ stagers[s].at = "staging" =>
        /\ \A i \in DOMAIN Wants(s) : ~Unstageable(s, i)
        /\ stagers[s].next <= Len(Wants(s)) + 1
        /\ \A file \in DOMAIN stagers[s].landed :
              \E j \in 1..(stagers[s].next - 1) : file = FileOf(Wants(s)[j].name)
        /\ \A j \in 1..(stagers[s].next - 1) :
              /\ FileOf(Wants(s)[j].name) \in DOMAIN stagers[s].landed
              /\ stagers[s].landed[FileOf(Wants(s)[j].name)] = Wants(s)[j].name

\* What a refusal may come from.
Cause(s) ==
    \/ \E asset \in ToSet(Wants(s)) : Escapes(asset.name) \/ DirOf(s, asset.from) = "none" \/ ~ Exists(asset)
    \/ \E i, j \in DOMAIN Wants(s) : i # j /\ FileOf(Wants(s)[i].name) = FileOf(Wants(s)[j].name)

LEMMA RefusedForCause == \A s : HasCause(s) <=> (stagers[s].at = "refused" => Cause(s))
  BY DEF HasCause, Cause

Alone(s) == \A other \in DOMAIN cast \ {s} : ArtifactSlug(other) # ArtifactSlug(s)

InPlace(s, i) == There(ArtifactSlug(s), FileOf(Wants(s)[i].name)) = Source(s, Wants(s)[i])

Placed(s) ==
    Alone(s) =>
        /\ stagers[s].at = "staging" => \A i \in 1..(stagers[s].next - 1) : InPlace(s, i)
        /\ stagers[s].at = "running" => \A i \in DOMAIN Wants(s) : InPlace(s, i)
        /\ stagers[s].at \in {"running", "over"} =>
              ArtifactSlug(s) \in DOMAIN records /\ records[ArtifactSlug(s)] = s

StagingInv == StagersType /\ \A s \in DOMAIN cast : HasCause(s) /\ Landed(s) /\ Placed(s)

\* What a scenario wants, and what its files are called, is the same throughout.
LEMMA SameWants ==
    ASSUME UNCHANGED <<cast, volume>>
    PROVE  /\ \A s : Wants(s)' = Wants(s) /\ ArtifactSlug(s)' = ArtifactSlug(s)
           /\ \A s, from : DirOf(s, from)' = DirOf(s, from)
           /\ \A name : FileOf(name)' = FileOf(name)
           /\ \A s, asset : Source(s, asset)' = Source(s, asset)
           /\ \A s, i : Unstageable(s, i)' = Unstageable(s, i)
           /\ \A s : Alone(s)' = Alone(s)
           /\ \A s : Cause(s)' = Cause(s)
  <1>1. \A s : Wants(s)' = Wants(s) /\ ArtifactSlug(s)' = ArtifactSlug(s)
    BY DEF Wants, ArtifactSlug
  <1>2. \A s, from : DirOf(s, from)' = DirOf(s, from)
    BY DEF DirOf
  <1>3. \A name : FileOf(name)' = FileOf(name)
    BY DEF FileOf
  <1>4. \A s, asset : Source(s, asset)' = Source(s, asset)
    BY <1>2, <1>3 DEF Source
  <1>5. \A s, i : Unstageable(s, i)' = Unstageable(s, i)
    BY <1>1, <1>2 DEF Unstageable
  <1>6. \A s : Alone(s)' = Alone(s)
    BY <1>1 DEF Alone
  <1>7. \A s : Cause(s)' = Cause(s)
    BY DEF Cause, Wants, DirOf, FileOf
  <1> QED
    BY <1>1, <1>2, <1>3, <1>4, <1>5, <1>6, <1>7

\* The step of one scenario does not move another one, and touches its root only.
LEMMA StagesAlone ==
    ASSUME StagersType, NEW s \in DOMAIN cast,
           Resolve(s) \/ Stage(s) \/ StageFails(s) \/ RunStaged(s) \/ RunOver(s)
    PROVE  /\ UNCHANGED <<cast, volume>>
           /\ DOMAIN stagers' = DOMAIN stagers
           /\ \A t \in DOMAIN cast \ {s} : stagers'[t] = stagers[t]
           /\ \A slug, file : slug # ArtifactSlug(s) => There(slug, file)' = There(slug, file)
           /\ \A slug : slug # ArtifactSlug(s) /\ slug \in DOMAIN records =>
                 slug \in DOMAIN records' /\ records'[slug] = records[slug]
  <1>1. UNCHANGED <<cast, volume>>
    BY DEF Resolve, Stage, StageFails, RunStaged, RunOver
  <1>2. DOMAIN stagers' = DOMAIN stagers
    BY DEF StagersType, Resolve, Stage, StageFails, RunStaged, RunOver
  <1>3. \A t \in DOMAIN cast \ {s} : stagers'[t] = stagers[t]
    BY DEF StagersType, Resolve, Stage, StageFails, RunStaged, RunOver
  <1>4. roots' = roots \/ \E file, value : roots' = With(roots, <<ArtifactSlug(s), file>>, value)
    BY DEF Resolve, Stage, StageFails, RunStaged, RunOver
  <1>5. ASSUME NEW slug, NEW file, slug # ArtifactSlug(s)
        PROVE  There(slug, file)' = There(slug, file)
    <2>1. <<slug, file>> \in DOMAIN roots' <=> <<slug, file>> \in DOMAIN roots
      BY <1>4, <1>5 DEF With
    <2>2. <<slug, file>> \in DOMAIN roots => roots'[<<slug, file>>] = roots[<<slug, file>>]
      BY <1>4, <1>5 DEF With
    <2> QED
      BY <2>1, <2>2 DEF There
  <1>6. records' = records \/ records' = With(records, ArtifactSlug(s), s)
    BY DEF Resolve, Stage, StageFails, RunStaged, RunOver
  <1>7. \A slug : slug # ArtifactSlug(s) /\ slug \in DOMAIN records =>
                 slug \in DOMAIN records' /\ records'[slug] = records[slug]
    BY <1>6 DEF With
  <1> QED
    BY <1>1, <1>2, <1>3, <1>5, <1>7

LEMMA OthersStaged ==
    ASSUME StagingInv, NEW s \in DOMAIN cast,
           Resolve(s) \/ Stage(s) \/ StageFails(s) \/ RunStaged(s) \/ RunOver(s),
           NEW t \in DOMAIN cast, t # s
    PROVE  HasCause(t)' /\ Landed(t)' /\ Placed(t)'
  <1>1. /\ UNCHANGED <<cast, volume>> /\ stagers'[t] = stagers[t]
        /\ \A slug, file : slug # ArtifactSlug(s) => There(slug, file)' = There(slug, file)
        /\ \A slug : slug # ArtifactSlug(s) /\ slug \in DOMAIN records =>
              slug \in DOMAIN records' /\ records'[slug] = records[slug]
    BY StagesAlone DEF StagingInv
  <1>2. HasCause(t) /\ Landed(t) /\ Placed(t)
    BY DEF StagingInv
  <1>3. /\ Wants(t)' = Wants(t) /\ ArtifactSlug(t)' = ArtifactSlug(t)
        /\ \A from : DirOf(t, from)' = DirOf(t, from)
        /\ \A name : FileOf(name)' = FileOf(name)
        /\ \A asset : Source(t, asset)' = Source(t, asset)
        /\ \A i : Unstageable(t, i)' = Unstageable(t, i)
        /\ Alone(t)' = Alone(t)
    BY <1>1, SameWants
  <1>4. HasCause(t)'
    BY <1>1, <1>2, <1>3 DEF HasCause
  <1>5. Landed(t)'
    BY <1>1, <1>2, <1>3 DEF Landed
  <1>6. Placed(t)'
    <2>1. Alone(t) => ArtifactSlug(s) # ArtifactSlug(t)
      BY <1>1 DEF Alone
    <2>2. ASSUME NEW i, Alone(t) PROVE InPlace(t, i)' = InPlace(t, i)
      BY <1>1, <1>3, <2>1, <2>2 DEF InPlace
    <2> QED
      BY <1>1, <1>2, <1>3, <2>1, <2>2 DEF Placed
  <1> QED
    BY <1>4, <1>5, <1>6

LEMMA StagingTyped ==
    ASSUME StagersType, StageStep
    PROVE  StagersType'
  <1>1. PICK s \in DOMAIN cast : Resolve(s) \/ Stage(s) \/ StageFails(s) \/ RunStaged(s) \/ RunOver(s)
    BY DEF StageStep
  <1>2. /\ UNCHANGED <<cast, volume>>
        /\ \A t \in DOMAIN cast \ {s} : stagers'[t] = stagers[t]
    BY <1>1, StagesAlone
  <1>3. stagers' = [t \in DOMAIN cast |-> stagers'[t]]
    BY <1>1 DEF StagersType, Resolve, Stage, StageFails, RunStaged, RunOver
  <1>4. stagers'[s] = [at |-> stagers'[s].at, next |-> stagers'[s].next, landed |-> stagers'[s].landed]
    BY <1>1 DEF StagersType, Resolve, Stage, StageFails, RunStaged, RunOver
  <1>5. stagers'[s].at \in StagerPlaces /\ stagers'[s].next \in Nat \ {0}
    BY <1>1 DEF StagersType, StagerPlaces, Resolve, Stage, StageFails, RunStaged, RunOver
  <1> QED
    BY <1>2, <1>3, <1>4, <1>5 DEF StagersType

\* The scenario that takes the step.
LEMMA OwnStaged ==
    ASSUME StagingInv, NEW s \in DOMAIN cast,
           Resolve(s) \/ Stage(s) \/ StageFails(s) \/ RunStaged(s) \/ RunOver(s)
    PROVE  HasCause(s)' /\ Landed(s)' /\ Placed(s)'
  <1> DEFINE W == Wants(s)
             n == stagers[s].next
  <1>1. /\ UNCHANGED <<cast, volume>>
        /\ StagersType /\ HasCause(s) /\ Landed(s) /\ Placed(s)
    BY StagesAlone DEF StagingInv
  <1>2. /\ Wants(s)' = W /\ ArtifactSlug(s)' = ArtifactSlug(s)
        /\ \A from : DirOf(s, from)' = DirOf(s, from)
        /\ \A name : FileOf(name)' = FileOf(name)
        /\ \A asset : Source(s, asset)' = Source(s, asset)
        /\ \A i : Unstageable(s, i)' = Unstageable(s, i)
        /\ Alone(s)' = Alone(s) /\ Cause(s)' = Cause(s)
    BY <1>1, SameWants
  <1>3. Len(W) \in Nat /\ DOMAIN W = 1..Len(W)
    BY <1>1 DEF StagersType, Wants
  <1>4. n \in Nat \ {0}
    BY <1>1 DEF StagersType
  <1>5. CASE Resolve(s)
    <2>1. /\ stagers[s].at = "preparing" /\ stagers'[s].next = n /\ stagers'[s].landed = stagers[s].landed
          /\ stagers'[s].at = IF \E i \in DOMAIN W : Unstageable(s, i) THEN "refused" ELSE "staging"
          /\ roots' = roots
      BY <1>1, <1>5 DEF Resolve, StagersType
    <2>2. CASE \E i \in DOMAIN W : Unstageable(s, i)
      <3>1. PICK i \in DOMAIN W : Unstageable(s, i)
        BY <2>2
      <3>2. W[i] \in ToSet(W)
        BY DEF ToSet
      <3>3. ASSUME Escapes(W[i].name) \/ DirOf(s, W[i].from) = "none" \/ ~Exists(W[i])
            PROVE  Cause(s)
        BY <3>2, <3>3 DEF Cause
      <3>4. ASSUME \E j \in 1..(i - 1) : W[j].name = W[i].name
            PROVE  Cause(s)
        <4>1. PICK j \in 1..(i - 1) : W[j].name = W[i].name
          BY <3>4
        <4>2. j \in DOMAIN W /\ j # i
          BY <1>3, <4>1
        <4>3. FileOf(W[i].name) = FileOf(W[j].name)
          BY <4>1
        <4> QED
          BY <4>2, <4>3 DEF Cause
      <3>5. Cause(s)
        BY <3>1, <3>3, <3>4 DEF Unstageable
      <3>6. stagers'[s].at = "refused"
        BY <2>1, <2>2
      <3>7. HasCause(s)'
        BY <1>2, <3>5 DEF HasCause, Cause
      <3> QED
        BY <3>6, <3>7 DEF Landed, Placed
    <2>3. CASE ~(\E i \in DOMAIN W : Unstageable(s, i))
      <3>1. stagers'[s].at = "staging"
        BY <2>1, <2>3
      <3>2. n = 1 /\ DOMAIN stagers[s].landed = {}
        BY <1>1, <2>1 DEF Landed
      <3> QED
        BY <1>2, <1>3, <2>1, <2>3, <3>1, <3>2 DEF HasCause, Landed, Placed
    <2> QED
      BY <2>2, <2>3
  <1>6. CASE Stage(s)
    <2> DEFINE name == W[n].name
               file == FileOf(name)
               landed == stagers[s].landed
    <2>1. /\ stagers[s].at = "staging" /\ n <= Len(W)
          /\ stagers'[s].at = IF Converges(s, name) THEN "refused" ELSE "staging"
          /\ stagers'[s].next = n + 1 /\ stagers'[s].landed = With(landed, file, name)
          /\ roots' = With(roots, <<ArtifactSlug(s), file>>, Source(s, W[n]))
      BY <1>1, <1>6 DEF Stage, StagersType
    <2>2. n \in DOMAIN W
      BY <1>3, <1>4, <2>1
    <2>3. /\ \A i \in DOMAIN W : ~Unstageable(s, i)
          /\ \A f \in DOMAIN landed : \E j \in 1..(n - 1) : f = FileOf(W[j].name)
          /\ \A j \in 1..(n - 1) : /\ FileOf(W[j].name) \in DOMAIN landed
                                  /\ landed[FileOf(W[j].name)] = W[j].name
      BY <1>1, <2>1 DEF Landed
    <2>4. CASE Converges(s, name)
      <3>1. PICK j \in 1..(n - 1) : file = FileOf(W[j].name)
        BY <2>3, <2>4 DEF Converges
      <3>2. j \in DOMAIN W /\ j # n
        BY <1>3, <1>4, <2>1, <3>1
      <3>3. HasCause(s)'
        BY <1>2, <2>2, <3>1, <3>2 DEF HasCause
      <3>4. stagers'[s].at = "refused"
        BY <2>1, <2>4
      <3> QED
        BY <3>3, <3>4 DEF Landed, Placed
    <2>5. CASE ~Converges(s, name)
      <3>1. stagers'[s].at = "staging"
        BY <2>1, <2>5
      <3>2. file \in DOMAIN landed => landed[file] = name
        BY <2>5 DEF Converges
      <3>3. ASSUME NEW j \in 1..(n - 1), FileOf(W[j].name) = file
            PROVE  W[j].name = name /\ Source(s, W[j]) = Source(s, W[n])
        <4>1. W[j].name = name
          BY <2>3, <3>2, <3>3
        <4>2. DirOf(s, W[j].from) = DirOf(s, W[n].from)
          BY <2>2, <2>3, <3>3, <4>1 DEF Unstageable
        <4> QED
          BY <4>1, <4>2 DEF Source
      <3>4. \A j \in 1..n : j = n \/ j \in 1..(n - 1)
        BY <1>4
      <3>5. DOMAIN With(landed, file, name) = DOMAIN landed \cup {file}
        BY DEF With
      <3>6. ASSUME NEW j \in 1..n
            PROVE  /\ FileOf(W[j].name) \in DOMAIN With(landed, file, name)
                   /\ With(landed, file, name)[FileOf(W[j].name)] = W[j].name
        BY <2>3, <3>3, <3>4, <3>6 DEF With
      <3>7. \A f \in DOMAIN With(landed, file, name) : \E j \in 1..n : f = FileOf(W[j].name)
        <4>1. \A j \in 1..(n - 1) : j \in 1..n
          BY <1>4
        <4>2. n \in 1..n
          BY <1>4
        <4> QED
          BY <2>3, <3>5, <4>1, <4>2
      <3>8. Landed(s)'
        <4>1. (n + 1) - 1 = n /\ n + 1 <= Len(W) + 1
          BY <1>3, <1>4, <2>1
        <4>2. stagers'[s].at = "staging" /\ stagers'[s].next = n + 1
              /\ stagers'[s].landed = With(landed, file, name)
          BY <2>1, <3>1
        <4>3. \A i \in DOMAIN W : ~Unstageable(s, i)
          BY <2>3
        <4> HIDE DEF name, file, landed
        <4> QED
          BY <1>2, <3>6, <3>7, <4>1, <4>2, <4>3 DEF Landed
      <3>9. Placed(s)'
        <4> SUFFICES ASSUME Alone(s) PROVE Placed(s)'
          BY <1>2 DEF Placed
        <4>1. \A i \in 1..(n - 1) : InPlace(s, i)
          BY <1>1, <2>1 DEF Placed
        <4>2. ASSUME NEW i \in 1..n PROVE InPlace(s, i)'
          <5>1. CASE FileOf(W[i].name) = file
            <6>1. Source(s, W[i]) = Source(s, W[n])
              BY <3>3, <3>4, <5>1
            <6>2. <<ArtifactSlug(s), file>> \in DOMAIN roots'
                  /\ roots'[<<ArtifactSlug(s), file>>] = Source(s, W[n])
              BY <2>1 DEF With
            <6>3. /\ FileOf(Wants(s)[i].name)' = file /\ ArtifactSlug(s)' = ArtifactSlug(s)
                  /\ Source(s, Wants(s)[i])' = Source(s, W[n])
              BY <1>2, <5>1, <6>1
            <6> QED
              BY <6>2, <6>3 DEF InPlace, There
          <5>2. CASE FileOf(W[i].name) # file
            <6>1. InPlace(s, i)
              BY <3>4, <4>1, <5>2
            <6>2. There(ArtifactSlug(s), FileOf(W[i].name))' = There(ArtifactSlug(s), FileOf(W[i].name))
              BY <1>2, <2>1, <5>2 DEF There, With
            <6> QED
              BY <1>2, <6>1, <6>2 DEF InPlace
          <5> QED
            BY <5>1, <5>2
        <4>3. (n + 1) - 1 = n
          BY <1>4
        <4> QED
          BY <1>2, <2>1, <3>1, <4>2, <4>3 DEF Placed
      <3>10. HasCause(s)'
        BY <3>1 DEF HasCause
      <3> QED
        BY <3>8, <3>9, <3>10
    <2> QED
      BY <2>4, <2>5
  <1>7. CASE StageFails(s)
    <2>1. stagers'[s].at = "failed"
      BY <1>1, <1>7 DEF StageFails, StagersType
    <2> QED
      BY <2>1 DEF HasCause, Landed, Placed
  <1>8. CASE RunStaged(s)
    <2>1. /\ stagers[s].at = "staging" /\ n > Len(W) /\ stagers'[s].at = "running"
          /\ roots' = roots /\ records' = With(records, ArtifactSlug(s), s)
      BY <1>1, <1>8 DEF RunStaged, StagersType
    <2>2. ArtifactSlug(s) \in DOMAIN records' /\ records'[ArtifactSlug(s)] = s
      BY <2>1 DEF With
    <2>3. ASSUME NEW i, InPlace(s, i) PROVE InPlace(s, i)'
      BY <1>2, <2>1, <2>3 DEF InPlace, There
    <2>4. \A i \in DOMAIN W : i \in 1..(n - 1)
      BY <1>3, <1>4, <2>1
    <2> QED
      BY <1>1, <1>2, <2>1, <2>2, <2>3, <2>4 DEF HasCause, Landed, Placed
  <1>9. CASE RunOver(s)
    <2>1. stagers[s].at = "running" /\ stagers'[s].at = "over" /\ records' = records
      BY <1>1, <1>9 DEF RunOver, StagersType
    <2> QED
      BY <1>1, <1>2, <2>1 DEF HasCause, Landed, Placed
  <1> QED
    BY <1>5, <1>6, <1>7, <1>8, <1>9

LEMMA StagingStarts == StageInit => StagingInv
  <1> SUFFICES ASSUME StageInit PROVE StagingInv
    OBVIOUS
  <1>1. StagersType
    BY DEF StageInit, StagersType, StagerPlaces
  <1>2. \A s \in DOMAIN cast : HasCause(s) /\ Landed(s) /\ Placed(s)
    BY DEF StageInit, HasCause, Landed, Placed
  <1> QED
    BY <1>1, <1>2 DEF StagingInv

LEMMA StagingStuttersOn == StagingInv /\ UNCHANGED gvars => StagingInv'
  <1> SUFFICES ASSUME StagingInv, UNCHANGED gvars PROVE StagingInv'
    OBVIOUS
  <1> USE DEF gvars
  <1>1. StagersType'
    BY DEF StagingInv, StagersType
  <1>2. ASSUME NEW s \in DOMAIN cast PROVE HasCause(s)' /\ Landed(s)' /\ Placed(s)'
    <2>1. HasCause(s) /\ Landed(s) /\ Placed(s)
      BY DEF StagingInv
    <2>2. /\ Wants(s)' = Wants(s) /\ ArtifactSlug(s)' = ArtifactSlug(s)
          /\ \A from : DirOf(s, from)' = DirOf(s, from)
          /\ \A name : FileOf(name)' = FileOf(name)
          /\ \A asset : Source(s, asset)' = Source(s, asset)
          /\ \A i : Unstageable(s, i)' = Unstageable(s, i)
          /\ Alone(s)' = Alone(s)
      BY SameWants
    <2>3. \A i : InPlace(s, i)' = InPlace(s, i)
      BY <2>2 DEF InPlace, There
    <2> QED
      BY <2>1, <2>2, <2>3 DEF HasCause, Landed, Placed
  <1> QED
    BY <1>1, <1>2 DEF StagingInv

LEMMA StagingGoesOn == StagingInv /\ [StageStep]_gvars => StagingInv'
  <1> SUFFICES ASSUME StagingInv, [StageStep]_gvars PROVE StagingInv'
    OBVIOUS
  <1>1. CASE UNCHANGED gvars
    BY <1>1, StagingStuttersOn
  <1>2. CASE StageStep
    <2>1. StagersType'
      BY <1>2, StagingTyped DEF StagingInv
    <2>2. PICK s \in DOMAIN cast :
             Resolve(s) \/ Stage(s) \/ StageFails(s) \/ RunStaged(s) \/ RunOver(s)
      BY <1>2 DEF StageStep
    <2>3. cast' = cast
      BY <2>2, StagesAlone DEF StagingInv
    <2>4. HasCause(s)' /\ Landed(s)' /\ Placed(s)'
      BY <2>2, OwnStaged
    <2>5. \A t \in DOMAIN cast : t # s => HasCause(t)' /\ Landed(t)' /\ Placed(t)'
      BY <2>2, OthersStaged
    <2> QED
      BY <2>1, <2>3, <2>4, <2>5 DEF StagingInv
  <1> QED
    BY <1>1, <1>2

\* A scenario whose slug is its own reads what its authors meant, or does not run
\* (cli/assets.rs, resolve_assets and stage_assets).
THEOREM StagedTrueHolds == StageSpec => []StagedTrue
  <1>1. StagingInv => StagedTrue
    BY DEF StagingInv, StagedTrue, Placed, InPlace, Alone, ReadsItsOwn
  <1> QED
    BY <1>1, StagingStarts, StagingGoesOn, PTL DEF StageSpec
=============================================================================
