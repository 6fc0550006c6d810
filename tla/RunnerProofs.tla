---------------------------- MODULE RunnerProofs ----------------------------
(* Theorems about the scenario runner, for any scenarios, pool and engines:  *)
(* first its types, its queue and its pool; then what reaches the record;    *)
(* then the scenario threads and what they leave behind.                     *)
EXTENDS Runner, FiniteSetTheorems, TLAPS

USE NAssumption

(***************************************************************************)
(* Type correctness                                                        *)
(***************************************************************************)

LEMMA CountType ==
    ASSUME outcomes \in Seq(Outcome), NEW S
    PROVE  CountOf(S) \in Nat
<1> DEFINE I == {i \in 1..Len(outcomes) : outcomes[i].status \in S}
<1>1. Len(outcomes) \in Nat
  OBVIOUS
<1>2. IsFiniteSet(1..Len(outcomes))
  BY <1>1, FS_Interval
<1>3. I \in SUBSET (1..Len(outcomes))
  OBVIOUS
<1>4. IsFiniteSet(I)
  BY <1>2, <1>3, FS_Subset
<1> QED
  BY <1>4, FS_CardinalityType DEF CountOf

\* What the gate does to the terminal event keeps the gate's types.
LEMMA FinishScenarioType ==
    ASSUME TypeOK, NEW s \in Scenarios, NEW status \in Statuses,
           FinishScenario(s, status)
    PROVE  /\ record' \in [Scenarios -> Seq(Progress \cup Terminal)]
           /\ closed' \subseteq Scenarios
           /\ failCount' \in Nat
           /\ cancelled' \in BOOLEAN
           /\ runClosed' \in BOOLEAN
           /\ runFinished' \in Tally \cup {None}
<1>1. [ev |-> "finished", status |-> status] \in Progress \cup Terminal
  BY DEF Terminal
<1>2. record' \in [Scenarios -> Seq(Progress \cup Terminal)]
  BY <1>1 DEF TypeOK, FinishScenario
<1> QED
  BY <1>2 DEF TypeOK, FinishScenario, TripOnMaxFail

LEMMA EmitType ==
    ASSUME TypeOK, NEW s \in Scenarios, NEW b \in Nat,
           NEW ev \in {"started", "batch", "steps", "unreached"}, Emit(s, ev, b)
    PROVE  record' \in [Scenarios -> Seq(Progress \cup Terminal)]
<1>1. [ev |-> ev, batch |-> b] \in Progress \cup Terminal
  BY DEF Progress
<1> QED
  BY <1>1 DEF TypeOK, Emit

LEMMA SettleType ==
    ASSUME TypeOK, NEW o \in Outcome, Settle(o)
    PROVE  outcomes' \in Seq(Outcome)
  BY DEF TypeOK, Settle

LEMMA OutcomeOfType ==
    ASSUME TypeOK, NEW s \in Scenarios
    PROVE  OutcomeOf(s) \in Outcome
  BY DEF TypeOK, OutcomeOf, StatusOf, Outcome, Statuses, Reasons, Faults

LEMMA NextTurnType ==
    ASSUME NEW outs, NEW act, NEW flag \in BOOLEAN, NextTurn(outs, act, flag)
    PROVE  pc' \in DispatchPC /\ exclusiveActive' \in BOOLEAN
  BY DEF NextTurn, DispatchPC

LEMMA SweepType ==
    ASSUME TypeOK, NEW outs, NEW act, NEW late, Sweep(outs, act, late)
    PROVE  pc' \in DispatchPC /\ exclusiveActive' \in BOOLEAN /\ doomed' = late
  BY NextTurnType DEF TypeOK, Sweep, DispatchPC

\* The message at the head of the channel, and what remains behind it.
LEMMA HeadType ==
    ASSUME TypeOK, chan # <<>>
    PROVE  /\ Head(chan) \in Message
           /\ Tail(chan) \in Seq(Message)
           /\ Head(chan).type = "Done" => Head(chan).outcome \in Outcome
           /\ Head(chan).type = "BatchBegin" => Head(chan).s \in Scenarios
<1>1. Head(chan) \in Message /\ Tail(chan) \in Seq(Message)
  BY DEF TypeOK
<1> QED
  BY <1>1 DEF Message

LEMMA InitType == Init => TypeOK
<1> SUFFICES ASSUME Init PROVE TypeOK
  OBVIOUS
<1>1. head \in 1..(N + 1) /\ pc \in DispatchPC
  BY DEF Init, DispatchPC
<1>2. outcomes \in Seq(Outcome) /\ chan \in Seq(Message)
  BY DEF Init
<1>3. record \in [Scenarios -> Seq(Progress \cup Terminal)]
  BY DEF Init
<1>4. wpc \in [Scenarios -> WorkerPC] /\ flags \in [Scenarios -> SUBSET Flags]
  BY DEF Init, WorkerPC
<1>5. fault \in [Scenarios -> Faults]
  BY DEF Init, Faults
<1>6. /\ snapshot \in [Scenarios -> [Keys -> 0..N]]
      /\ store \in [Keys -> 0..N]
      /\ promoted \in [Scenarios -> SUBSET Keys]
      /\ processed \in [Scenarios -> Nat]
  BY DEF Init
<1> QED
  BY <1>1, <1>2, <1>3, <1>4, <1>5, <1>6 DEF Init, TypeOK

\* One lemma for each half of the state a dispatcher action leaves alone.
LEMMA FillSkipType == TypeOK /\ FillSkip => TypeOK'
<1> SUFFICES ASSUME TypeOK, FillSkip PROVE TypeOK'
  OBVIOUS
<1>1. head \in Scenarios /\ head' \in 1..(N + 1)
  BY DEF TypeOK, FillSkip, SlotFree, Scenarios
<1>2. /\ FinishScenario(head, "Skipped")
      /\ "Skipped" \in Statuses
  BY DEF FillSkip, Statuses
<1>3. [s |-> head, status |-> "Skipped", fault |-> "none", reason |-> "authored"] \in Outcome
  BY <1>1 DEF Outcome, Statuses, Faults, Reasons
<1>4. outcomes' \in Seq(Outcome)
  BY <1>3, SettleType DEF FillSkip
<1> QED
  BY <1>1, <1>2, <1>4, FinishScenarioType DEF TypeOK, FillSkip, localVars

LEMMA FillCancelledType == TypeOK /\ FillCancelled => TypeOK'
<1> SUFFICES ASSUME TypeOK, FillCancelled PROVE TypeOK'
  OBVIOUS
<1>1. head \in Scenarios /\ head' \in 1..(N + 1)
  BY DEF TypeOK, FillCancelled, SlotFree, Scenarios
<1>2. /\ FinishScenario(head, "Skipped")
      /\ "Skipped" \in Statuses
  BY DEF FillCancelled, Statuses
<1>3. [s |-> head, status |-> "Skipped", fault |-> "none", reason |-> "cancelled"] \in Outcome
  BY <1>1 DEF Outcome, Statuses, Faults, Reasons
<1>4. outcomes' \in Seq(Outcome)
  BY <1>3, SettleType DEF FillCancelled
<1>5. exclusiveActive' \in BOOLEAN
  BY DEF FillCancelled
<1> QED
  BY <1>1, <1>2, <1>4, <1>5, FinishScenarioType DEF TypeOK, FillCancelled, localVars

LEMMA FillSpawnType == TypeOK /\ FillSpawn => TypeOK'
<1> SUFFICES ASSUME TypeOK, FillSpawn PROVE TypeOK'
  OBVIOUS
<1>1. head \in Scenarios /\ head' \in 1..(N + 1)
  BY DEF TypeOK, FillSpawn, SlotFree, Scenarios
<1>2. wpc' \in [Scenarios -> WorkerPC]
  BY DEF TypeOK, FillSpawn, WorkerPC
<1>3. active' \subseteq Scenarios /\ expired' \subseteq active' /\ exclusiveActive' \in BOOLEAN
  BY <1>1 DEF TypeOK, FillSpawn
<1> QED
  BY <1>1, <1>2, <1>3 DEF TypeOK, FillSpawn, localVars, gateVars

LEMMA FillDoneType == TypeOK /\ FillDone => TypeOK'
<1> SUFFICES ASSUME TypeOK, FillDone PROVE TypeOK'
  OBVIOUS
<1>1. pc' \in DispatchPC /\ exclusiveActive' \in BOOLEAN
  <2>1. CASE active = {}
    BY <2>1, NextTurnType DEF FillDone, TypeOK
  <2>2. CASE active # {}
    BY <2>2 DEF FillDone, TypeOK, DispatchPC
  <2> QED
    BY <2>1, <2>2
<1> QED
  BY <1>1 DEF TypeOK, FillDone, localVars, gateVars

LEMMA RecvBatchBeginType == TypeOK /\ RecvBatchBegin => TypeOK'
<1> SUFFICES ASSUME TypeOK, RecvBatchBegin PROVE TypeOK'
  OBVIOUS
<1>1. expired' \subseteq active
  BY DEF TypeOK, RecvBatchBegin
<1>2. pc' \in DispatchPC /\ exclusiveActive' \in BOOLEAN /\ doomed' = expired'
  BY SweepType DEF RecvBatchBegin
<1>3. chan' \in Seq(Message)
  BY HeadType DEF RecvBatchBegin
<1> QED
  BY <1>1, <1>2, <1>3 DEF TypeOK, RecvBatchBegin, localVars, gateVars

LEMMA RecvDoneType == TypeOK /\ RecvDone => TypeOK'
<1> SUFFICES ASSUME TypeOK, RecvDone PROVE TypeOK'
  OBVIOUS
<1> DEFINE o == Head(chan).outcome
<1>1. o \in Outcome /\ chan' \in Seq(Message)
  BY HeadType DEF RecvDone
<1>2. o.s \in Scenarios /\ o.status \in Statuses
  BY <1>1 DEF Outcome
<1>3. FinishScenario(o.s, o.status) /\ Settle(o)
  BY DEF RecvDone
<1>4. outcomes' \in Seq(Outcome)
  BY <1>1, <1>3, SettleType
<1>5. active' \subseteq Scenarios /\ expired' \subseteq active'
  BY DEF TypeOK, RecvDone
<1>6. pc' \in DispatchPC /\ exclusiveActive' \in BOOLEAN /\ doomed' = expired'
  BY SweepType DEF RecvDone
<1>7. /\ record' \in [Scenarios -> Seq(Progress \cup Terminal)]
      /\ closed' \subseteq Scenarios
      /\ failCount' \in Nat
      /\ cancelled' \in BOOLEAN
      /\ runClosed' \in BOOLEAN
      /\ runFinished' \in Tally \cup {None}
  BY <1>2, <1>3, FinishScenarioType
<1> QED
  BY <1>1, <1>4, <1>5, <1>6, <1>7 DEF TypeOK, RecvDone, localVars

LEMMA RecvLateDoneType == TypeOK /\ RecvLateDone => TypeOK'
<1> SUFFICES ASSUME TypeOK, RecvLateDone PROVE TypeOK'
  OBVIOUS
<1>1. pc' \in DispatchPC /\ exclusiveActive' \in BOOLEAN /\ doomed' = expired
  BY SweepType DEF RecvLateDone
<1>2. chan' \in Seq(Message)
  BY HeadType DEF RecvLateDone
<1> QED
  BY <1>1, <1>2 DEF TypeOK, RecvLateDone, localVars, gateVars

LEMMA RecvTimeoutType == TypeOK /\ RecvTimeout => TypeOK'
<1> SUFFICES ASSUME TypeOK, RecvTimeout PROVE TypeOK'
  OBVIOUS
<1>1. pc' \in DispatchPC /\ exclusiveActive' \in BOOLEAN /\ doomed' = expired
  BY SweepType DEF RecvTimeout
<1> QED
  BY <1>1 DEF TypeOK, RecvTimeout, localVars, gateVars

LEMMA AbandonType == ASSUME TypeOK, NEW s \in doomed, Abandon(s) PROVE TypeOK'
<1>1. s \in Scenarios
  BY DEF TypeOK
<1>2. FinishScenario(s, "Failed") /\ "Failed" \in Statuses
  BY DEF Abandon, Statuses
<1>3. [s |-> s, status |-> "Failed", fault |-> "system", reason |-> "none"] \in Outcome
  BY <1>1 DEF Outcome, Statuses, Faults, Reasons
<1>4. outcomes' \in Seq(Outcome)
  BY <1>3, SettleType DEF Abandon
<1>5. pc' \in DispatchPC /\ exclusiveActive' \in BOOLEAN
  <2>1. CASE doomed = {s}
    BY <2>1, NextTurnType DEF Abandon, TypeOK
  <2>2. CASE doomed # {s}
    BY <2>2 DEF Abandon, TypeOK
  <2> QED
    BY <2>1, <2>2
<1>6. /\ active' \subseteq Scenarios /\ expired' \subseteq active'
      /\ doomed' \subseteq expired' /\ abandoned' \subseteq Scenarios
  BY <1>1 DEF TypeOK, Abandon
<1>7. /\ record' \in [Scenarios -> Seq(Progress \cup Terminal)]
      /\ closed' \subseteq Scenarios
      /\ failCount' \in Nat
      /\ cancelled' \in BOOLEAN
      /\ runClosed' \in BOOLEAN
      /\ runFinished' \in Tally \cup {None}
  BY <1>1, <1>2, FinishScenarioType
<1> QED
  BY <1>4, <1>5, <1>6, <1>7 DEF TypeOK, Abandon, localVars

LEMMA EmitRunFinishedType == TypeOK /\ EmitRunFinished => TypeOK'
<1> SUFFICES ASSUME TypeOK, EmitRunFinished PROVE TypeOK'
  OBVIOUS
<1>1. \A S : CountOf(S) \in Nat
  BY CountType DEF TypeOK
<1>2. runFinished' \in Tally \cup {None}
  BY <1>1 DEF EmitRunFinished, TypeOK, Tally
<1> QED
  BY <1>2 DEF TypeOK, EmitRunFinished, DispatchPC, localVars

LEMMA CloseRunType == TypeOK /\ CloseRun => TypeOK'
  BY DEF TypeOK, CloseRun, DispatchPC, localVars

LEMMA SendType ==
    ASSUME TypeOK, NEW m \in Message, Send(m)
    PROVE  chan' \in Seq(Message)
  BY DEF TypeOK, Send

LEMMA PanickedType ==
    ASSUME TypeOK, NEW s \in Scenarios, Panicked(s)
    PROVE  /\ flags' \in [Scenarios -> SUBSET Flags]
           /\ fault' \in [Scenarios -> Faults]
           /\ wpc' \in [Scenarios -> WorkerPC]
  BY DEF TypeOK, Panicked, Flags, Faults, WorkerPC

LEMMA FlagsGrow ==
    ASSUME TypeOK, NEW s \in Scenarios, NEW more \in SUBSET Flags,
           flags' = [flags EXCEPT ![s] = @ \cup more]
    PROVE  flags' \in [Scenarios -> SUBSET Flags]
  BY DEF TypeOK

LEMMA ThreadType ==
    ASSUME TypeOK, NEW s \in Scenarios, Thread(s)
    PROVE  TypeOK'
<1> USE DEF dispatcherVars, gateVars, localVars
<1>1. CASE Begin(s)
  <2>1. record' \in [Scenarios -> Seq(Progress \cup Terminal)]
    BY <1>1, EmitType DEF Begin
  <2>2. wpc' \in [Scenarios -> WorkerPC]
    BY <1>1 DEF Begin, TypeOK, WorkerPC
  <2> QED
    BY <1>1, <2>1, <2>2 DEF Begin, TypeOK
<1>2. CASE Prepare(s)
  <2>1. snapshot' \in [Scenarios -> [Keys -> 0..N]]
    BY <1>2 DEF Prepare, TypeOK
  <2>2. /\ flags' \in [Scenarios -> SUBSET Flags]
        /\ fault' \in [Scenarios -> Faults]
        /\ wpc' \in [Scenarios -> WorkerPC]
    <3>1. CASE Panicked(s)
      BY <3>1, PanickedType
    <3>2. CASE UNCHANGED <<flags, fault>> /\ wpc' = [wpc EXCEPT ![s] = "next"]
      BY <3>2 DEF TypeOK, WorkerPC
    <3>3. CASE /\ flags' = [flags EXCEPT ![s] = @ \cup {"failed", "unprepared"}]
               /\ fault' = [fault EXCEPT ![s] = "user"]
               /\ wpc' = [wpc EXCEPT ![s] = "send"]
      <4>1. {"failed", "unprepared"} \in SUBSET Flags
        BY DEF Flags
      <4>2. fault' \in [Scenarios -> Faults] /\ wpc' \in [Scenarios -> WorkerPC]
        BY <3>3 DEF TypeOK, Faults, WorkerPC
      <4> QED
        BY <3>3, <4>1, <4>2, FlagsGrow
    <3> QED
      BY <1>2, <3>1, <3>2, <3>3 DEF Prepare
  <2> QED
    BY <1>2, <2>1, <2>2 DEF Prepare, TypeOK
<1>3. CASE StartBatch(s)
  <2>1. processed[s] + 1 \in Nat
    BY DEF TypeOK
  <2>2. record' \in [Scenarios -> Seq(Progress \cup Terminal)]
    BY <1>3, <2>1, EmitType DEF StartBatch
  <2>3. chan' \in Seq(Message)
    BY <1>3, SendType DEF StartBatch, Message
  <2>4. wpc' \in [Scenarios -> WorkerPC]
    BY <1>3 DEF StartBatch, TypeOK, WorkerPC
  <2> QED
    BY <1>3, <2>2, <2>3, <2>4 DEF StartBatch, TypeOK
<1>4. CASE EndBatches(s)
  <2>1. processed[s] + 1 \in Nat
    BY DEF TypeOK
  <2>2. record' \in [Scenarios -> Seq(Progress \cup Terminal)]
    <3>1. CASE BatchesLeft(s)
      BY <1>4, <2>1, <3>1, EmitType DEF EndBatches
    <3>2. CASE ~BatchesLeft(s)
      BY <1>4, <3>2 DEF EndBatches, TypeOK
    <3> QED
      BY <3>1, <3>2
  <2>3. CASE Panicked(s)
    BY <1>4, <2>2, <2>3, PanickedType DEF EndBatches, TypeOK
  <2>4. CASE ~Panicked(s)
    <3> DEFINE more == IF StopReason(s) = "interrupted" THEN {"interrupted"}
                       ELSE IF StopReason(s) = "noSession" THEN {"failed"} ELSE {}
    <3>0. more \in SUBSET Flags /\ flags' = [flags EXCEPT ![s] = @ \cup more]
      BY <1>4, <2>4 DEF EndBatches, Flags
    <3>1. flags' \in [Scenarios -> SUBSET Flags]
      BY <3>0, FlagsGrow
    <3>2. fault' \in [Scenarios -> Faults]
      BY <1>4, <2>4 DEF EndBatches, StopReason, TypeOK, Faults
    <3>3. wpc' \in [Scenarios -> WorkerPC]
      BY <1>4, <2>4 DEF EndBatches, TypeOK, WorkerPC
    <3> QED
      BY <1>4, <2>2, <3>1, <3>2, <3>3 DEF EndBatches, TypeOK
  <2> QED
    BY <2>3, <2>4
<1>5. ASSUME NEW result \in Results("plain"), FinishBatch(s, result)
      PROVE  TypeOK'
  <2>1. processed[s] + 1 \in Nat
    BY DEF TypeOK
  <2>2. record' \in [Scenarios -> Seq(Progress \cup Terminal)]
    BY <1>5, <2>1, EmitType DEF FinishBatch
  <2>3. flags' \in [Scenarios -> SUBSET Flags]
    BY <1>5 DEF FinishBatch, TypeOK, Flags
  <2>4. fault' \in [Scenarios -> Faults]
    BY <1>5 DEF FinishBatch, FaultOf, TypeOK, Faults
  <2>5. promoted' \in [Scenarios -> SUBSET Keys]
    <3>1. Promotes[s] \in SUBSET Keys
      BY PromotesAssumption
    <3>2. PICK more \in SUBSET Promotes[s] : promoted' = [promoted EXCEPT ![s] = @ \cup more]
      BY <1>5 DEF FinishBatch
    <3> QED
      BY <3>1, <3>2 DEF TypeOK
  <2>6. processed' \in [Scenarios -> Nat] /\ wpc' \in [Scenarios -> WorkerPC]
    BY <1>5 DEF FinishBatch, TypeOK, WorkerPC
  <2> QED
    BY <1>5, <2>2, <2>3, <2>4, <2>5, <2>6 DEF FinishBatch, TypeOK
<1>6. CASE CutBatch(s)
  <2>1. processed[s] + 1 \in Nat
    BY DEF TypeOK
  <2>2. record' \in [Scenarios -> Seq(Progress \cup Terminal)]
    BY <1>6, <2>1, EmitType DEF CutBatch
  <2>3. flags' \in [Scenarios -> SUBSET Flags]
    <3>1. PICK seen \in SUBSET {"warned"} : flags' = [flags EXCEPT ![s] = @ \cup {"cut"} \cup seen]
      BY <1>6 DEF CutBatch
    <3>2. {"cut"} \in SUBSET Flags /\ seen \in SUBSET Flags
      BY DEF Flags
    <3> QED
      BY <3>1, <3>2 DEF TypeOK
  <2>4. promoted' \in [Scenarios -> SUBSET Keys]
    <3>1. Promotes[s] \in SUBSET Keys
      BY PromotesAssumption
    <3>2. PICK more \in SUBSET Promotes[s] : promoted' = [promoted EXCEPT ![s] = @ \cup more]
      BY <1>6 DEF CutBatch
    <3> QED
      BY <3>1, <3>2 DEF TypeOK
  <2>5. processed' \in [Scenarios -> Nat] /\ wpc' \in [Scenarios -> WorkerPC]
    BY <1>6 DEF CutBatch, TypeOK, WorkerPC
  <2> QED
    BY <1>6, <2>2, <2>3, <2>4, <2>5 DEF CutBatch, TypeOK
<1>7. CASE Merge(s)
  <2>1. store' \in [Keys -> 0..N] /\ wpc' \in [Scenarios -> WorkerPC]
    BY <1>7 DEF Merge, TypeOK, WorkerPC, Scenarios
  <2> QED
    BY <1>7, <2>1 DEF Merge, TypeOK
<1>8. CASE SendDone(s)
  <2>1. [type |-> "Done", outcome |-> OutcomeOf(s)] \in Message
    BY OutcomeOfType DEF Message
  <2>2. chan' \in Seq(Message)
    BY <1>8, <2>1, SendType DEF SendDone
  <2>3. wpc' \in [Scenarios -> WorkerPC]
    BY <1>8 DEF SendDone, TypeOK, WorkerPC
  <2> QED
    BY <1>8, <2>2, <2>3 DEF SendDone, TypeOK
<1>9. CASE Panic(s)
  BY <1>9, PanickedType DEF Panic, TypeOK
<1> QED
  BY <1>1, <1>2, <1>3, <1>4, <1>5, <1>6, <1>7, <1>8, <1>9 DEF Thread

LEMMA TypeStep == TypeOK /\ [Next]_vars => TypeOK'
<1> SUFFICES ASSUME TypeOK, [Next]_vars PROVE TypeOK'
  OBVIOUS
<1>1. CASE Dispatch
  BY <1>1, FillSkipType, FillCancelledType, FillSpawnType, FillDoneType,
     RecvBatchBeginType, RecvDoneType, RecvLateDoneType, RecvTimeoutType,
     AbandonType, EmitRunFinishedType, CloseRunType DEF Dispatch
<1>2. ASSUME NEW s \in Scenarios, Thread(s) PROVE TypeOK'
  BY <1>2, ThreadType
<1>3. ASSUME NEW s \in Scenarios, Elapse(s) PROVE TypeOK'
  BY <1>3 DEF Elapse, TypeOK, gateVars, localVars
<1>4. CASE Interrupt
  BY <1>4 DEF Interrupt, TypeOK, dispatcherVars, gateVars, localVars
<1>5. CASE UNCHANGED vars
  BY <1>5, CountType DEF vars, TypeOK, dispatcherVars, gateVars, localVars
<1> QED
  BY <1>1, <1>2, <1>3, <1>4, <1>5 DEF Next, Returned

(* Every reachable state of the runner is well typed, for any number of
   scenarios and jobs and any behaviour of the engines. *)
THEOREM TypeCorrect == Spec => []TypeOK
  BY InitType, TypeStep, PTL DEF Spec

(***************************************************************************)
(* The dispatcher's bookkeeping                                            *)
(***************************************************************************)

\* One more outcome.
LEMMA Appended ==
    ASSUME outcomes \in Seq(Outcome), NEW o \in Outcome, Settle(o)
    PROVE  /\ Len(outcomes') = Len(outcomes) + 1
           /\ \A i \in 1..Len(outcomes) : outcomes'[i] = outcomes[i]
           /\ outcomes'[Len(outcomes) + 1] = o
           /\ Settled' = Settled \cup {o.s}
<1>1. outcomes' = Append(outcomes, o) /\ Len(outcomes) \in Nat
  BY DEF Settle
<1>2. /\ Len(outcomes') = Len(outcomes) + 1
      /\ \A i \in 1..Len(outcomes) : outcomes'[i] = outcomes[i]
      /\ outcomes'[Len(outcomes) + 1] = o
  BY <1>1
<1>3. 1..Len(outcomes') = (1..Len(outcomes)) \cup {Len(outcomes) + 1}
  BY <1>1, <1>2
<1>4. Settled' = {outcomes'[i].s : i \in 1..Len(outcomes')}
  BY DEF Settled
<1>5. Settled' = Settled \cup {o.s}
  BY <1>2, <1>3, <1>4 DEF Settled
<1> QED
  BY <1>2, <1>5

\* The scenarios with an outcome are scenarios.
LEMMA SettledType ==
    ASSUME TypeOK PROVE Settled \subseteq Scenarios
<1> SUFFICES ASSUME NEW i \in 1..Len(outcomes) PROVE outcomes[i].s \in Scenarios
  BY DEF Settled
<1>1. outcomes[i] \in Outcome
  BY DEF TypeOK
<1> QED
  BY <1>1 DEF Outcome

LEMMA ActiveFinite ==
    ASSUME TypeOK
    PROVE  IsFiniteSet(active) /\ Cardinality(active) \in Nat
<1>1. IsFiniteSet(1..N) /\ active \subseteq 1..N
  BY FS_Interval DEF TypeOK, Scenarios
<1>2. IsFiniteSet(active)
  BY <1>1, FS_Subset
<1> QED
  BY <1>2, FS_CardinalityType

\* A scenario that has no outcome yet gets one: by a skip at the head of the
\* queue, by its Done, or by the sweep.
LEMMA SettleKeeps ==
    ASSUME TypeOK, Bookkeeping, NEW o \in Outcome, o.s \notin Settled,
           Settle(o), FinishScenario(o.s, o.status)
    PROVE  /\ Settled' = Settled \cup {o.s}
           /\ closed' = Settled'
           /\ Len(outcomes') = Len(outcomes) + 1
           /\ (\A i, j \in 1..Len(outcomes) :
                 outcomes[i].s = outcomes[j].s => i = j)'
<1>0. outcomes \in Seq(Outcome) /\ Len(outcomes) \in Nat
  BY DEF TypeOK
<1>1. /\ Len(outcomes') = Len(outcomes) + 1
      /\ \A i \in 1..Len(outcomes) : outcomes'[i] = outcomes[i]
      /\ outcomes'[Len(outcomes) + 1] = o
      /\ Settled' = Settled \cup {o.s}
  BY <1>0, Appended
<1>2. closed' = Settled'
  BY <1>1 DEF Bookkeeping, FinishScenario
<1>3. ASSUME NEW i \in 1..(Len(outcomes) + 1), NEW j \in 1..(Len(outcomes) + 1),
             outcomes'[i].s = outcomes'[j].s
      PROVE  i = j
  <2>1. \A k \in 1..Len(outcomes) : outcomes'[k].s \in Settled
    BY <1>1 DEF Settled
  <2>2. CASE i \in 1..Len(outcomes) /\ j \in 1..Len(outcomes)
    BY <1>1, <1>3, <2>2 DEF Bookkeeping, SettledOnce
  <2>3. CASE i = Len(outcomes) + 1 \/ j = Len(outcomes) + 1
    BY <1>0, <1>1, <1>3, <2>1, <2>3
  <2> QED
    BY <1>0, <2>2, <2>3
<1> QED
  BY <1>1, <1>2, <1>3

\* The threads stay known when the dispatcher takes a message or gives one of
\* them up, as long as it does not forget one that lives.
LEMMA ThreadsKeep ==
    ASSUME TypeOK, ThreadsKnown, UNCHANGED wpc, head' = head \/ head' = head + 1,
           chan' = chan \/ chan' = <<>> \/ (chan # <<>> /\ chan' = Tail(chan)),
           active' \subseteq active, Live \subseteq active' \cup abandoned'
    PROVE  ThreadsKnown'
<1>1. \A s \in Scenarios : wpc'[s] # "none" => s < head'
  BY DEF ThreadsKnown, TypeOK, Scenarios
<1>2. \A s \in active' : wpc'[s] # "none"
  BY DEF ThreadsKnown
<1>3. Live' \subseteq active' \cup abandoned'
  BY DEF Live
<1>4. ASSUME NEW i \in 1..Len(chan'), chan'[i].type = "Done"
      PROVE  wpc'[chan'[i].outcome.s] = "gone"
  <2>0. chan \in Seq(Message)
    BY DEF TypeOK
  <2>1. CASE chan' = chan
    BY <1>4, <2>1 DEF ThreadsKnown
  <2>2. CASE chan' = <<>>
    BY <2>2
  <2>3. CASE chan # <<>> /\ chan' = Tail(chan)
    <3>1. i + 1 \in 1..Len(chan) /\ chan'[i] = chan[i + 1]
      BY <2>0, <2>3
    <3> QED
      BY <1>4, <3>1 DEF ThreadsKnown
  <2> QED
    BY <2>1, <2>2, <2>3
<1> QED
  BY <1>1, <1>2, <1>3, <1>4 DEF ThreadsKnown

\* With fewer scenarios in the pool, who owns it still does.
LEMMA PoolKeeps ==
    ASSUME TypeOK, PoolOwned, NEW s, active' = active \ {s},
           \/ exclusiveActive' = exclusiveActive
           \/ exclusiveActive' = (exclusiveActive /\ active' # {})
    PROVE  PoolOwned'
<1>1. IsFiniteSet(active) /\ Cardinality(active) \in Nat
  BY ActiveFinite
<1>2. /\ Cardinality(active') \in Nat
      /\ Cardinality(active') <= Cardinality(active)
  BY <1>1, FS_Subset, FS_CardinalityType
<1>3. Slots \in Nat /\ Slots' = Slots
  BY JobsAssumption DEF Slots
<1>4. Cardinality(active') <= Slots'
  BY <1>1, <1>2, <1>3 DEF PoolOwned
<1>5. ASSUME NEW e \in Exclusive \cap active'
      PROVE  active' = {e} /\ exclusiveActive'
  <2>1. active = {e} /\ exclusiveActive
    BY <1>5 DEF PoolOwned
  <2>2. active' = {e} /\ active' # {}
    BY <1>5, <2>1
  <2> QED
    BY <2>1, <2>2
<1> QED
  BY <1>4, <1>5 DEF PoolOwned

\* How a turn ends: the loop is left only when everyone has an outcome.
LEMMA TurnKeepsLoop ==
    ASSUME TypeOK, LoopLeft, pc \in {"fill", "wait", "abandon"},
           NEW act, NEW flag, NextTurn(outcomes', act, flag),
           Len(outcomes') \in Nat, Len(outcomes') <= N,
           UNCHANGED <<runFinished, runClosed>>
    PROVE  LoopLeft'
  BY DEF LoopLeft, NextTurn

LEMMA SweepKeepsLoop ==
    ASSUME TypeOK, LoopLeft, pc \in {"fill", "wait", "abandon"},
           NEW act, NEW late, Sweep(outcomes', act, late),
           Len(outcomes') \in Nat, Len(outcomes') <= N,
           UNCHANGED <<runFinished, runClosed>>
    PROVE  LoopLeft' /\ (\/ exclusiveActive' = exclusiveActive
                         \/ exclusiveActive' = (exclusiveActive /\ act # {}))
  BY DEF LoopLeft, Sweep, NextTurn

\* An authored or a cancelled skip: the head of the queue goes straight to
\* the outcomes.
LEMMA SkipHead ==
    ASSUME TypeOK, Bookkeeping, NEW o \in Outcome, o.s = head, head <= N,
           pc = "fill", Settle(o), FinishScenario(o.s, o.status), head' = head + 1,
           UNCHANGED <<pc, active, chan, abandoned, wpc>>, PoolOwned'
    PROVE  Bookkeeping'
<1>1. head \in Nat /\ Len(outcomes) \in Nat
  BY DEF TypeOK
<1>2. head \notin Settled /\ head \notin active
  BY <1>1 DEF Bookkeeping, SettledOnce
<1>3. /\ Settled' = Settled \cup {head}
      /\ closed' = Settled'
      /\ Len(outcomes') = Len(outcomes) + 1
      /\ (\A i, j \in 1..Len(outcomes) : outcomes[i].s = outcomes[j].s => i = j)'
  BY <1>2, SettleKeeps
<1>4. 1..(head' - 1) = (1..(head - 1)) \cup {head}
  BY <1>1, NAssumption DEF TypeOK
<1>5. SettledOnce'
  BY <1>2, <1>3, <1>4 DEF Bookkeeping, SettledOnce
<1>6. Cardinality(active) \in Nat
  BY ActiveFinite
<1>7. (Len(outcomes) + Cardinality(active) = head - 1)'
  BY <1>1, <1>3, <1>6 DEF Bookkeeping
<1>8. LoopLeft'
  BY DEF Bookkeeping, LoopLeft, FinishScenario
<1>9. ThreadsKnown'
  BY ThreadsKeep DEF Bookkeeping, ThreadsKnown
<1> QED
  BY <1>3, <1>5, <1>7, <1>8, <1>9 DEF Bookkeeping

LEMMA FillSkipBook == TypeOK /\ Bookkeeping /\ FillSkip => Bookkeeping'
<1> SUFFICES ASSUME TypeOK, Bookkeeping, FillSkip PROVE Bookkeeping'
  OBVIOUS
<1> DEFINE o == [s |-> head, status |-> "Skipped", fault |-> "none", reason |-> "authored"]
<1>1. head <= N /\ head \in Scenarios
  BY DEF FillSkip, SlotFree, TypeOK, Scenarios
<1>2. o \in Outcome
  BY <1>1 DEF Outcome, Statuses, Faults, Reasons
<1>3. /\ o.s = head /\ pc = "fill" /\ Settle(o) /\ FinishScenario(o.s, o.status)
      /\ head' = head + 1 /\ UNCHANGED <<pc, active, chan, abandoned, wpc>>
  BY DEF FillSkip
<1>4. PoolOwned'
  BY DEF FillSkip, Bookkeeping, PoolOwned, Slots
<1> HIDE DEF o
<1> QED
  BY <1>1, <1>2, <1>3, <1>4, SkipHead

LEMMA FillCancelledBook == TypeOK /\ Bookkeeping /\ FillCancelled => Bookkeeping'
<1> SUFFICES ASSUME TypeOK, Bookkeeping, FillCancelled PROVE Bookkeeping'
  OBVIOUS
<1> DEFINE o == [s |-> head, status |-> "Skipped", fault |-> "none", reason |-> "cancelled"]
<1>1. head <= N /\ head \in Scenarios
  BY DEF FillCancelled, SlotFree, TypeOK, Scenarios
<1>2. o \in Outcome
  BY <1>1 DEF Outcome, Statuses, Faults, Reasons
<1>3. /\ o.s = head /\ pc = "fill" /\ Settle(o) /\ FinishScenario(o.s, o.status)
      /\ head' = head + 1 /\ UNCHANGED <<pc, active, chan, abandoned, wpc>>
  BY DEF FillCancelled
<1>4. PoolOwned'
  BY DEF FillCancelled, Bookkeeping, PoolOwned, Slots, Blocked
<1> HIDE DEF o
<1> QED
  BY <1>1, <1>2, <1>3, <1>4, SkipHead

LEMMA FillSpawnBook == TypeOK /\ Bookkeeping /\ FillSpawn => Bookkeeping'
<1> SUFFICES ASSUME TypeOK, Bookkeeping, FillSpawn PROVE Bookkeeping'
  OBVIOUS
<1>1. head \in Scenarios /\ head \in Nat /\ Len(outcomes) \in Nat
  BY DEF FillSpawn, SlotFree, TypeOK, Scenarios
<1>2. /\ active' = active \cup {head} /\ head' = head + 1
      /\ wpc' = [wpc EXCEPT ![head] = "begin"]
      /\ UNCHANGED <<pc, outcomes, chan, abandoned, closed, runClosed, runFinished>>
  BY DEF FillSpawn, gateVars
<1>3. head \notin Settled /\ head \notin active
  BY <1>1 DEF Bookkeeping, SettledOnce
<1>4. 1..(head' - 1) = (1..(head - 1)) \cup {head}
  BY <1>1, <1>2, NAssumption DEF TypeOK
<1>5. Settled' = Settled
  BY <1>2 DEF Settled
<1>6. SettledOnce'
  BY <1>2, <1>3, <1>4, <1>5 DEF Bookkeeping, SettledOnce
<1>7. /\ IsFiniteSet(active) /\ Cardinality(active) \in Nat
      /\ Cardinality(active') = Cardinality(active) + 1
  BY <1>2, <1>3, ActiveFinite, FS_AddElement
<1>8. (Len(outcomes) + Cardinality(active) = head - 1)'
  BY <1>1, <1>2, <1>7 DEF Bookkeeping
<1>9. LoopLeft'
  BY <1>2 DEF Bookkeeping, LoopLeft
<1>10. wpc[head] = "none"
  BY <1>1 DEF Bookkeeping, ThreadsKnown
<1>11. ThreadsKnown'
  <2>1. \A s \in Scenarios : wpc'[s] = IF s = head THEN "begin" ELSE wpc[s]
    BY <1>1, <1>2 DEF TypeOK
  <2>2. \A s \in Scenarios : wpc'[s] # "none" => s < head'
    BY <1>1, <1>2, <2>1 DEF Bookkeeping, ThreadsKnown, Scenarios
  <2>3. \A s \in active' : wpc'[s] # "none"
    <3>1. active \subseteq Scenarios /\ \A s \in active : wpc[s] # "none"
      BY DEF Bookkeeping, ThreadsKnown, TypeOK
    <3> QED
      BY <1>1, <1>2, <2>1, <3>1
  <2>4. Live' \subseteq active' \cup abandoned'
    BY <1>2, <2>1 DEF Bookkeeping, ThreadsKnown, Live
  <2>5. ASSUME NEW i \in 1..Len(chan), chan[i].type = "Done"
        PROVE  wpc'[chan[i].outcome.s] = "gone"
    <3>1. wpc[chan[i].outcome.s] = "gone"
      BY <2>5 DEF Bookkeeping, ThreadsKnown
    <3>2. chan[i] \in Message
      BY DEF TypeOK
    <3>3. chan[i].outcome.s \in Scenarios
      BY <2>5, <3>2 DEF Message, Outcome
    <3> QED
      BY <1>10, <2>1, <3>1, <3>3
  <2> QED
    BY <1>2, <2>2, <2>3, <2>4, <2>5 DEF ThreadsKnown
<1>12. PoolOwned'
  <2>1. Cardinality(active') <= Slots'
    BY <1>7, JobsAssumption DEF FillSpawn, SlotFree, Slots
  <2>2. ASSUME NEW e \in Exclusive \cap active'
        PROVE  active' = {e} /\ exclusiveActive'
    BY <1>2 DEF FillSpawn, Blocked, Bookkeeping, PoolOwned
  <2> QED
    BY <2>1, <2>2 DEF PoolOwned
<1> QED
  BY <1>2, <1>5, <1>6, <1>8, <1>9, <1>11, <1>12 DEF Bookkeeping

LEMMA OutcomesBound ==
    ASSUME TypeOK, Bookkeeping
    PROVE  Len(outcomes) \in Nat /\ Len(outcomes) <= N
<1>1. Len(outcomes) + Cardinality(active) = head - 1
  BY DEF Bookkeeping
<1>2. Cardinality(active) \in Nat
  BY ActiveFinite
<1>3. Len(outcomes) \in Nat /\ head \in 1..(N + 1)
  BY DEF TypeOK
<1> QED
  BY <1>1, <1>2, <1>3

LEMMA FillDoneBook == TypeOK /\ Bookkeeping /\ FillDone => Bookkeeping'
<1> SUFFICES ASSUME TypeOK, Bookkeeping, FillDone PROVE Bookkeeping'
  OBVIOUS
<1>1. UNCHANGED <<head, active, outcomes, chan, abandoned, wpc,
                  closed, runClosed, runFinished>>
  BY DEF FillDone, gateVars
<1>2. LoopLeft' /\ PoolOwned'
  <2>1. Len(outcomes) \in Nat /\ Len(outcomes) <= N
    BY OutcomesBound
  <2>2. CASE active = {}
    <3>1. NextTurn(outcomes', active, exclusiveActive)
      BY <1>1, <2>2 DEF FillDone
    <3>2. LoopLeft'
      BY <1>1, <2>1, <3>1, TurnKeepsLoop DEF Bookkeeping, FillDone
    <3>3. PoolOwned'
      BY <1>1, <2>2 DEF Bookkeeping, PoolOwned, Slots
    <3> QED
      BY <3>2, <3>3
  <2>3. CASE active # {}
    BY <1>1, <2>3 DEF FillDone, Bookkeeping, LoopLeft, PoolOwned, Slots
  <2> QED
    BY <2>2, <2>3
<1>3. Settled' = Settled
  BY <1>1 DEF Settled
<1>4. SettledOnce' /\ ThreadsKnown'
  BY <1>1, <1>3 DEF Bookkeeping, SettledOnce, ThreadsKnown, Live
<1> QED
  BY <1>1, <1>2, <1>3, <1>4 DEF Bookkeeping

\* Receiving something that settles nobody: a heartbeat, a Done that comes too
\* late, or nothing at all before the earliest deadline.
LEMMA TurnBook ==
    ASSUME TypeOK, Bookkeeping, pc = "wait",
           NEW late, Sweep(outcomes, active, late),
           chan' = chan \/ (chan # <<>> /\ chan' = Tail(chan)),
           UNCHANGED <<head, active, outcomes, abandoned, gateVars, wpc>>
    PROVE  Bookkeeping'
<1>1. UNCHANGED <<closed, runClosed, runFinished>> /\ Settled' = Settled
  BY DEF gateVars, Settled
<1>2. Len(outcomes') \in Nat /\ Len(outcomes') <= N
  BY OutcomesBound
<1>3. /\ LoopLeft'
      /\ \/ exclusiveActive' = exclusiveActive
         \/ exclusiveActive' = (exclusiveActive /\ active # {})
  <2>1. Sweep(outcomes', active, late)
    OBVIOUS
  <2> QED
    BY <1>1, <1>2, <2>1, SweepKeepsLoop DEF Bookkeeping
<1>4. PoolOwned'
  <2>1. Cardinality(active') <= Slots'
    BY DEF Bookkeeping, PoolOwned, Slots
  <2>2. ASSUME NEW e \in Exclusive \cap active'
        PROVE  active' = {e} /\ exclusiveActive'
    <3>1. active = {e} /\ exclusiveActive
      BY <2>2 DEF Bookkeeping, PoolOwned
    <3>2. active # {} /\ active' = {e}
      BY <3>1
    <3> QED
      BY <1>3, <3>1, <3>2
  <2> QED
    BY <2>1, <2>2 DEF PoolOwned
<1>5. ThreadsKnown'
  BY ThreadsKeep DEF Bookkeeping, ThreadsKnown
<1>6. SettledOnce'
  BY <1>1 DEF Bookkeeping, SettledOnce
<1> QED
  BY <1>1, <1>3, <1>4, <1>5, <1>6 DEF Bookkeeping

\* A scenario leaves the pool for the outcomes.
LEMMA LeavePool ==
    ASSUME TypeOK, Bookkeeping, NEW o \in Outcome, o.s \in active,
           Settle(o), FinishScenario(o.s, o.status), active' = active \ {o.s},
           UNCHANGED head
    PROVE  /\ SettledOnce'
           /\ closed' = Settled'
           /\ (Len(outcomes) + Cardinality(active) = head - 1)'
           /\ Len(outcomes') \in Nat /\ Len(outcomes') <= N
<1>1. o.s \notin Settled
  BY DEF Bookkeeping, SettledOnce
<1>2. /\ Settled' = Settled \cup {o.s}
      /\ closed' = Settled'
      /\ Len(outcomes') = Len(outcomes) + 1
      /\ (\A i, j \in 1..Len(outcomes) : outcomes[i].s = outcomes[j].s => i = j)'
  BY <1>1, SettleKeeps
<1>3. active' \cup Settled' = active \cup Settled /\ active' \cap Settled' = {}
  BY <1>2 DEF Bookkeeping, SettledOnce
<1>4. SettledOnce'
  BY <1>2, <1>3 DEF Bookkeeping, SettledOnce
<1>5. /\ IsFiniteSet(active) /\ Cardinality(active) \in Nat
      /\ Cardinality(active') = Cardinality(active) - 1
      /\ Cardinality(active') \in Nat
  BY ActiveFinite, FS_RemoveElement, FS_CardinalityType
<1>6. Len(outcomes) \in Nat /\ head \in Nat /\ head <= N + 1
  BY DEF TypeOK
<1> QED
  BY <1>2, <1>4, <1>5, <1>6 DEF Bookkeeping

LEMMA RecvDoneBook == TypeOK /\ Bookkeeping /\ RecvDone => Bookkeeping'
<1> SUFFICES ASSUME TypeOK, Bookkeeping, RecvDone PROVE Bookkeeping'
  OBVIOUS
<1> DEFINE o == Head(chan).outcome
<1>1. o \in Outcome
  BY HeadType DEF RecvDone
<1>2. /\ pc = "wait" /\ chan # <<>> /\ Head(chan).type = "Done" /\ chan' = Tail(chan)
      /\ o.s \in active /\ active' = active \ {o.s}
      /\ FinishScenario(o.s, o.status) /\ Settle(o)
      /\ Sweep(outcomes', active', expired')
      /\ UNCHANGED <<head, abandoned, wpc>>
  BY DEF RecvDone
<1>3. wpc[o.s] = "gone"
  <2>1. 1 \in 1..Len(chan) /\ Head(chan) = chan[1]
    BY <1>2 DEF TypeOK
  <2> QED
    BY <1>2, <2>1 DEF Bookkeeping, ThreadsKnown
<1> HIDE DEF o
<1>4. UNCHANGED <<runClosed, runFinished>>
  BY <1>2 DEF FinishScenario
<1>5. /\ SettledOnce'
      /\ closed' = Settled'
      /\ (Len(outcomes) + Cardinality(active) = head - 1)'
      /\ Len(outcomes') \in Nat /\ Len(outcomes') <= N
  BY <1>1, <1>2, LeavePool
<1>6. /\ LoopLeft'
      /\ \/ exclusiveActive' = exclusiveActive
         \/ exclusiveActive' = (exclusiveActive /\ active' # {})
  BY <1>2, <1>4, <1>5, SweepKeepsLoop DEF Bookkeeping
<1>7. PoolOwned'
  BY <1>2, <1>6, PoolKeeps DEF Bookkeeping
<1>8. Live \subseteq active' \cup abandoned'
  BY <1>2, <1>3 DEF Bookkeeping, ThreadsKnown, Live
<1>9. ThreadsKnown'
  BY <1>2, <1>8, ThreadsKeep DEF Bookkeeping
<1> QED
  BY <1>5, <1>6, <1>7, <1>9 DEF Bookkeeping

LEMMA AbandonBook ==
    ASSUME TypeOK, Bookkeeping, NEW s \in doomed, Abandon(s) PROVE Bookkeeping'
<1> DEFINE o == [s |-> s, status |-> "Failed", fault |-> "system", reason |-> "none"]
<1>1. s \in Scenarios /\ s \in active
  BY DEF TypeOK
<1>2. o \in Outcome
  BY <1>1 DEF Outcome, Statuses, Faults, Reasons
<1>3. /\ o.s = s /\ o.s \in active /\ active' = active \ {o.s}
      /\ FinishScenario(o.s, o.status) /\ Settle(o)
      /\ pc = "abandon" /\ abandoned' = abandoned \cup {s}
      /\ UNCHANGED <<head, chan, wpc>>
  BY <1>1 DEF Abandon
<1> HIDE DEF o
<1>4. UNCHANGED <<runClosed, runFinished>>
  BY <1>3 DEF FinishScenario
<1>5. /\ SettledOnce'
      /\ closed' = Settled'
      /\ (Len(outcomes) + Cardinality(active) = head - 1)'
      /\ Len(outcomes') \in Nat /\ Len(outcomes') <= N
  BY <1>2, <1>3, LeavePool
<1>6. /\ LoopLeft'
      /\ \/ exclusiveActive' = exclusiveActive
         \/ exclusiveActive' = (exclusiveActive /\ active' # {})
  <2>1. CASE doomed = {s}
    <3>1. NextTurn(outcomes', active', exclusiveActive)
      BY <2>1 DEF Abandon
    <3> QED
      BY <1>3, <1>4, <1>5, <3>1, TurnKeepsLoop DEF Bookkeeping, NextTurn
  <2>2. CASE doomed # {s}
    BY <1>3, <1>4, <2>2 DEF Abandon, Bookkeeping, LoopLeft
  <2> QED
    BY <2>1, <2>2
<1>7. PoolOwned'
  BY <1>3, <1>6, PoolKeeps DEF Bookkeeping
<1>8. Live \subseteq active' \cup abandoned'
  BY <1>3 DEF Bookkeeping, ThreadsKnown
<1>9. ThreadsKnown'
  BY <1>3, <1>8, ThreadsKeep DEF Bookkeeping
<1> QED
  BY <1>5, <1>6, <1>7, <1>9 DEF Bookkeeping

\* The last two steps, the tail and the close of the gate.
LEMMA LastStepsBook ==
    TypeOK /\ Bookkeeping /\ (EmitRunFinished \/ CloseRun) => Bookkeeping'
<1> SUFFICES ASSUME TypeOK, Bookkeeping, EmitRunFinished \/ CloseRun
             PROVE  Bookkeeping'
  OBVIOUS
<1>1. /\ UNCHANGED <<head, active, exclusiveActive, outcomes, abandoned, closed, wpc>>
      /\ chan' = chan \/ chan' = <<>>
  BY DEF EmitRunFinished, CloseRun
<1>2. Settled' = Settled
  BY <1>1 DEF Settled
<1>3. SettledOnce' /\ (Len(outcomes) + Cardinality(active) = head - 1)'
  BY <1>1, <1>2 DEF Bookkeeping, SettledOnce
<1>4. LoopLeft'
  <2>1. CASE EmitRunFinished
    <3>1. pc = "close" /\ pc' = "closeGate" /\ runFinished = None /\ ~runClosed
      BY <2>1 DEF EmitRunFinished, Bookkeeping, LoopLeft
    <3>2. runFinished'.failed = CountOf({"Failed"}) /\ DOMAIN runFinished' # {"passed"}
      BY <2>1, <3>1 DEF EmitRunFinished
    <3>3. runFinished' # None
      BY <3>2 DEF None
    <3> QED
      BY <1>1, <2>1, <3>1, <3>3 DEF EmitRunFinished, Bookkeeping, LoopLeft
  <2>2. CASE CloseRun
    BY <2>2 DEF CloseRun, Bookkeeping, LoopLeft
  <2> QED
    BY <2>1, <2>2
<1>5. ThreadsKnown'
  BY <1>1, ThreadsKeep DEF Bookkeeping, ThreadsKnown
<1>6. PoolOwned'
  BY <1>1 DEF Bookkeeping, PoolOwned, Slots
<1> QED
  BY <1>1, <1>2, <1>3, <1>4, <1>5, <1>6 DEF Bookkeeping

\* What a step of a thread can touch of the bookkeeping: its own place, and
\* the channel's end, where a Done is its last word.
LEMMA ThreadMoves ==
    ASSUME TypeOK, NEW s \in Scenarios, Thread(s)
    PROVE  /\ UNCHANGED <<dispatcherVars, abandoned, closed, runClosed, runFinished>>
           /\ wpc[s] \notin {"none", "gone"}
           /\ wpc'[s] # "none"
           /\ \A t \in Scenarios \ {s} : wpc'[t] = wpc[t]
           /\ \/ chan' = chan
              \/ \E m \in Message :
                    /\ chan' = Append(chan, m)
                    /\ m.type = "Done" => m.outcome.s = s /\ wpc'[s] = "gone"
<1> USE DEF gateVars, TypeOK
<1>1. CASE Begin(s)
  BY <1>1 DEF Begin
<1>2. CASE Prepare(s)
  BY <1>2 DEF Prepare, Panicked
<1>3. CASE StartBatch(s)
  <2> DEFINE m == [type |-> "BatchBegin", s |-> s]
  <2>1. m \in Message /\ m.type # "Done"
    BY DEF Message
  <2>2. chan' = chan \/ chan' = Append(chan, m)
    BY <1>3 DEF StartBatch, Send
  <2>3. wpc[s] = "next" /\ wpc' = [wpc EXCEPT ![s] = "batch"]
    BY <1>3 DEF StartBatch
  <2> HIDE DEF m
  <2> QED
    BY <1>3, <2>1, <2>2, <2>3 DEF StartBatch
<1>4. CASE EndBatches(s)
  <2>1. /\ UNCHANGED <<dispatcherVars, chan, abandoned, closed, runClosed, runFinished>>
        /\ wpc[s] = "next"
    BY <1>4 DEF EndBatches
  <2>2. wpc' = [wpc EXCEPT ![s] = "merge"] \/ wpc' = [wpc EXCEPT ![s] = "send"]
    BY <1>4 DEF EndBatches, Panicked
  <2> QED
    BY <2>1, <2>2
<1>5. ASSUME NEW result \in Results("plain"), FinishBatch(s, result)
      PROVE  /\ UNCHANGED <<dispatcherVars, abandoned, closed, runClosed, runFinished>>
             /\ wpc[s] \notin {"none", "gone"}
             /\ wpc'[s] # "none"
             /\ \A t \in Scenarios \ {s} : wpc'[t] = wpc[t]
             /\ chan' = chan
  BY <1>5 DEF FinishBatch
<1>6. CASE CutBatch(s)
  BY <1>6 DEF CutBatch
<1>7. CASE Merge(s)
  BY <1>7 DEF Merge
<1>8. CASE SendDone(s)
  <2> DEFINE m == [type |-> "Done", outcome |-> OutcomeOf(s)]
  <2>1. m \in Message /\ m.outcome.s = s
    BY OutcomeOfType DEF Message, OutcomeOf
  <2>2. chan' = chan \/ chan' = Append(chan, m)
    BY <1>8 DEF SendDone, Send
  <2>3. wpc[s] = "send" /\ wpc' = [wpc EXCEPT ![s] = "gone"]
    BY <1>8 DEF SendDone
  <2> HIDE DEF m
  <2> QED
    BY <1>8, <2>1, <2>2, <2>3 DEF SendDone
<1>9. CASE Panic(s)
  BY <1>9 DEF Panic, Panicked
<1> QED
  BY <1>1, <1>2, <1>3, <1>4, <1>5, <1>6, <1>7, <1>8, <1>9 DEF Thread

LEMMA ThreadBook ==
    ASSUME TypeOK, Bookkeeping, NEW s \in Scenarios, Thread(s) PROVE Bookkeeping'
<1>1. /\ UNCHANGED <<dispatcherVars, abandoned, closed, runClosed, runFinished>>
      /\ wpc[s] \notin {"none", "gone"}
      /\ wpc'[s] # "none"
      /\ \A t \in Scenarios \ {s} : wpc'[t] = wpc[t]
      /\ \/ chan' = chan
         \/ \E m \in Message :
               /\ chan' = Append(chan, m)
               /\ m.type = "Done" => m.outcome.s = s /\ wpc'[s] = "gone"
  BY ThreadMoves
<1>2. UNCHANGED <<pc, head, active, exclusiveActive, outcomes>>
  BY <1>1 DEF dispatcherVars
<1>3. Settled' = Settled
  BY <1>2 DEF Settled
<1>4. SettledOnce' /\ LoopLeft' /\ PoolOwned' /\ closed' = Settled'
      /\ (Len(outcomes) + Cardinality(active) = head - 1)'
  BY <1>1, <1>2, <1>3 DEF Bookkeeping, SettledOnce, LoopLeft, PoolOwned, Slots
<1>5. ThreadsKnown'
  <2>1. \A t \in Scenarios : wpc'[t] # "none" => t < head'
    BY <1>1, <1>2 DEF Bookkeeping, ThreadsKnown
  <2>2. \A t \in active' : wpc'[t] # "none"
    BY <1>1, <1>2 DEF Bookkeeping, ThreadsKnown, TypeOK
  <2>3. Live' \subseteq active' \cup abandoned'
    BY <1>1, <1>2 DEF Bookkeeping, ThreadsKnown, Live
  <2>4. ASSUME NEW i \in 1..Len(chan), chan[i].type = "Done"
        PROVE  chan[i].outcome.s \in Scenarios \ {s} /\ wpc[chan[i].outcome.s] = "gone"
    <3>1. chan[i] \in Message
      BY DEF TypeOK
    <3>2. chan[i].outcome.s \in Scenarios
      BY <2>4, <3>1 DEF Message, Outcome
    <3> QED
      BY <1>1, <2>4, <3>2 DEF Bookkeeping, ThreadsKnown
  <2>5. ASSUME NEW i \in 1..Len(chan'), chan'[i].type = "Done"
        PROVE  wpc'[chan'[i].outcome.s] = "gone"
    <3>1. CASE chan' = chan
      BY <1>1, <2>4, <2>5, <3>1
    <3>2. ASSUME NEW m \in Message, chan' = Append(chan, m),
                 m.type = "Done" => m.outcome.s = s /\ wpc'[s] = "gone"
          PROVE  wpc'[chan'[i].outcome.s] = "gone"
      <4>1. chan \in Seq(Message) /\ Len(chan) \in Nat
        BY DEF TypeOK
      <4>2. \/ i \in 1..Len(chan) /\ chan'[i] = chan[i]
            \/ i = Len(chan) + 1 /\ chan'[i] = m
        BY <3>2, <4>1
      <4> QED
        BY <1>1, <2>4, <2>5, <3>2, <4>2
    <3> QED
      BY <1>1, <3>1, <3>2
  <2> QED
    BY <2>1, <2>2, <2>3, <2>5 DEF ThreadsKnown
<1> QED
  BY <1>4, <1>5 DEF Bookkeeping

\* Time, the user and stuttering leave all of it alone.
LEMMA OutsideBook ==
    ASSUME Bookkeeping,
           UNCHANGED <<pc, head, active, exclusiveActive, outcomes, chan, abandoned,
                       closed, runClosed, runFinished, wpc>>
    PROVE  Bookkeeping'
<1>1. Settled' = Settled /\ Live' = Live
  BY DEF Settled, Live
<1>2. SettledOnce' /\ LoopLeft' /\ PoolOwned' /\ ThreadsKnown'
  BY <1>1 DEF Bookkeeping, SettledOnce, LoopLeft, PoolOwned, ThreadsKnown, Slots
<1> QED
  BY <1>1, <1>2 DEF Bookkeeping

LEMMA InitBook == Init => Bookkeeping
<1> SUFFICES ASSUME Init PROVE Bookkeeping
  OBVIOUS
<1>1. Len(outcomes) = 0 /\ Settled = {} /\ active = {} /\ head = 1 /\ closed = {}
  BY DEF Init, Settled
<1>2. SettledOnce
  BY <1>1 DEF SettledOnce
<1>3. Cardinality(active) = 0
  BY <1>1, FS_EmptySet
<1>4. LoopLeft
  BY <1>1 DEF LoopLeft, Init
<1>5. ThreadsKnown
  BY DEF ThreadsKnown, Live, Init
<1>6. PoolOwned
  BY <1>1, <1>3, JobsAssumption DEF PoolOwned, Slots
<1> QED
  BY <1>1, <1>2, <1>3, <1>4, <1>5, <1>6 DEF Bookkeeping

LEMMA BookStep == TypeOK /\ Bookkeeping /\ [Next]_vars => Bookkeeping'
<1> SUFFICES ASSUME TypeOK, Bookkeeping, [Next]_vars PROVE Bookkeeping'
  OBVIOUS
<1>1. CASE RecvBatchBegin
  BY <1>1, TurnBook DEF RecvBatchBegin
<1>2. CASE RecvLateDone
  BY <1>2, TurnBook DEF RecvLateDone
<1>3. CASE RecvTimeout
  BY <1>3, TurnBook DEF RecvTimeout
<1>4. CASE Dispatch
  BY <1>1, <1>2, <1>3, <1>4, FillSkipBook, FillCancelledBook, FillSpawnBook,
     FillDoneBook, RecvDoneBook, AbandonBook, LastStepsBook DEF Dispatch
<1>5. ASSUME NEW s \in Scenarios, Thread(s) PROVE Bookkeeping'
  BY <1>5, ThreadBook
<1>6. ASSUME NEW s \in Scenarios, Elapse(s) PROVE Bookkeeping'
  BY <1>6, OutsideBook DEF Elapse, gateVars
<1>7. CASE Interrupt
  BY <1>7, OutsideBook DEF Interrupt, dispatcherVars, gateVars
<1>8. CASE UNCHANGED vars
  BY <1>8, OutsideBook DEF vars, dispatcherVars, gateVars
<1> QED
  BY <1>4, <1>5, <1>6, <1>7, <1>8 DEF Next, Returned

(* The inductive invariant: at every moment the queue, the pool, the outcomes,
   the gate and the threads account for each scenario in agreement. *)
THEOREM BookkeepingHolds == Spec => []Bookkeeping
<1>1. Init => TypeOK /\ Bookkeeping
  BY InitType, InitBook
<1>2. TypeOK /\ Bookkeeping /\ [Next]_vars => (TypeOK /\ Bookkeeping)'
  BY TypeStep, BookStep
<1> QED
  BY <1>1, <1>2, PTL DEF Spec

(* No scenario is settled twice, and none is lost between the queue, the pool
   and the outcomes, whichever of a skip, its Done and the watchdog wins. *)
THEOREM SettledOnceHolds == Spec => []SettledOnce
<1>1. Bookkeeping => SettledOnce
  BY DEF Bookkeeping
<1> QED
  BY <1>1, BookkeepingHolds, PTL

(* While an exclusive scenario is in the pool nothing else runs, save threads
   the watchdog has given up. *)
THEOREM ExclusiveAloneHolds == Spec => []ExclusiveAlone
<1>1. Bookkeeping => ExclusiveAlone
  BY DEF Bookkeeping, PoolOwned, ThreadsKnown, ExclusiveAlone
<1> QED
  BY <1>1, BookkeepingHolds, PTL

(* At most Slots threads that have not been given up run at any moment. *)
THEOREM PoolBoundHolds == Spec => []PoolBound
<1>1. TypeOK /\ Bookkeeping => PoolBound
  <2> SUFFICES ASSUME TypeOK, Bookkeeping PROVE PoolBound
    OBVIOUS
  <2>1. Live \ abandoned \subseteq active
    BY DEF Bookkeeping, ThreadsKnown
  <2>2. IsFiniteSet(active) /\ Cardinality(active) \in Nat
    BY ActiveFinite
  <2>3. /\ Cardinality(Live \ abandoned) \in Nat
        /\ Cardinality(Live \ abandoned) <= Cardinality(active)
    BY <2>1, <2>2, FS_Subset, FS_CardinalityType
  <2>4. Cardinality(active) <= Slots /\ Slots \in Nat
    BY JobsAssumption DEF Bookkeeping, PoolOwned, Slots
  <2> QED
    BY <2>2, <2>3, <2>4 DEF PoolBound
<1> QED
  BY <1>1, TypeCorrect, BookkeepingHolds, PTL

-----------------------------------------------------------------------------
(* Theorems about what reaches the record: nothing after a scenario's       *)
(* terminal event or after the run's tail, the tail tells the truth, and    *)
(* the runner keeps the contract of RunContract.                            *)


(***************************************************************************)
(* The tail is the tail                                                    *)
(***************************************************************************)

\* Once the tail is written, everyone is settled and the queue is empty.
LEMMA TailMeansAll ==
    ASSUME TypeOK, Bookkeeping, pc \in {"close", "closeGate", "returned"}
    PROVE  Settled = Scenarios /\ closed = Scenarios /\ active = {} /\ head = N + 1
<1>1. Len(outcomes) = N /\ Len(outcomes) + Cardinality(active) = head - 1
  BY DEF Bookkeeping, LoopLeft
<1>2. head \in 1..(N + 1) /\ IsFiniteSet(active) /\ Cardinality(active) \in Nat
  BY ActiveFinite DEF TypeOK
<1>3. Cardinality(active) = 0 /\ head = N + 1
  BY <1>1, <1>2
<1>4. active = {}
  BY <1>2, <1>3, FS_EmptySet
<1>5. Settled = 1..(head - 1) /\ closed = Settled
  BY <1>4 DEF Bookkeeping, SettledOnce
<1>6. head - 1 = N
  BY <1>3
<1> QED
  BY <1>3, <1>4, <1>5, <1>6 DEF Scenarios

LEMMA EmitKeepsClosed ==
    ASSUME TypeOK, NEW s \in Scenarios, NEW ev, NEW b, Emit(s, ev, b),
           NEW t \in closed
    PROVE  record'[t] = record[t]
  BY DEF TypeOK, Emit

LEMMA FinishKeepsClosed ==
    ASSUME TypeOK, NEW s \in Scenarios \ closed, NEW status,
           FinishScenario(s, status), NEW t \in closed
    PROVE  record'[t] = record[t]
  BY DEF TypeOK, FinishScenario

\* Every thread writes to the record through the gate, or not at all.
LEMMA ThreadEmits ==
    ASSUME NEW s \in Scenarios, Thread(s)
    PROVE  record' = record \/ \E ev, b : Emit(s, ev, b) /\ ev # "finished"
<1> USE DEF gateVars
<1>1. CASE Begin(s)
  BY <1>1 DEF Begin
<1>2. CASE Prepare(s)
  BY <1>2 DEF Prepare
<1>3. CASE StartBatch(s)
  BY <1>3 DEF StartBatch
<1>4. CASE EndBatches(s)
  BY <1>4 DEF EndBatches
<1>5. ASSUME NEW result \in Results("plain"), FinishBatch(s, result)
      PROVE  \E ev, b : Emit(s, ev, b) /\ ev # "finished"
  BY <1>5 DEF FinishBatch
<1>6. CASE CutBatch(s)
  BY <1>6 DEF CutBatch
<1>7. CASE Merge(s)
  BY <1>7 DEF Merge
<1>8. CASE SendDone(s)
  BY <1>8 DEF SendDone
<1>9. CASE Panic(s)
  BY <1>9 DEF Panic
<1> QED
  BY <1>1, <1>2, <1>3, <1>4, <1>5, <1>6, <1>7, <1>8, <1>9 DEF Thread

\* The four steps that settle a scenario write its terminal event; no other
\* step of the dispatcher touches the record.
LEMMA DispatchEmits ==
    ASSUME TypeOK, Bookkeeping, Dispatch
    PROVE  \/ UNCHANGED <<record, outcomes, closed>>
           \/ \E o \in Outcome : /\ o.s \in Scenarios \ closed
                                 /\ FinishScenario(o.s, o.status) /\ Settle(o)
                                 /\ pc \in {"fill", "wait", "abandon"}
<1> DEFINE G == \E o \in Outcome : /\ o.s \in Scenarios \ closed
                                   /\ FinishScenario(o.s, o.status) /\ Settle(o)
                                   /\ pc \in {"fill", "wait", "abandon"}
<1>0. closed = Settled /\ closed \cap active = {} /\ closed \subseteq 1..(head - 1)
  BY DEF Bookkeeping, SettledOnce
<1>1. ASSUME FillSkip \/ FillCancelled PROVE G
  <2>1. head \in Scenarios \ closed
    BY <1>0, <1>1 DEF FillSkip, FillCancelled, SlotFree, TypeOK, Scenarios
  <2>2. PICK r \in {"authored", "cancelled"} :
          LET o == [s |-> head, status |-> "Skipped", fault |-> "none", reason |-> r]
          IN  pc = "fill" /\ FinishScenario(o.s, o.status) /\ Settle(o)
    BY <1>1 DEF FillSkip, FillCancelled
  <2> DEFINE o == [s |-> head, status |-> "Skipped", fault |-> "none", reason |-> r]
  <2>3. o \in Outcome /\ o.s = head
    BY <2>1 DEF Outcome, Statuses, Faults, Reasons
  <2>4. pc = "fill" /\ FinishScenario(o.s, o.status) /\ Settle(o)
    BY <2>2
  <2> HIDE DEF o
  <2> QED
    BY <2>1, <2>3, <2>4
<1>2. ASSUME RecvDone PROVE G
  <2> DEFINE o == Head(chan).outcome
  <2>1. o \in Outcome
    BY <1>2, HeadType DEF RecvDone
  <2>2. /\ o.s \in active /\ pc = "wait"
        /\ FinishScenario(o.s, o.status) /\ Settle(o)
    BY <1>2 DEF RecvDone
  <2>3. o.s \in Scenarios \ closed
    BY <1>0, <2>2 DEF TypeOK
  <2> HIDE DEF o
  <2> QED
    BY <2>1, <2>2, <2>3
<1>3. ASSUME NEW s \in doomed, Abandon(s) PROVE G
  <2> DEFINE o == [s |-> s, status |-> "Failed", fault |-> "system", reason |-> "none"]
  <2>1. s \in Scenarios \ closed
    BY <1>0 DEF TypeOK
  <2>2. o \in Outcome /\ o.s = s
    BY <2>1 DEF Outcome, Statuses, Faults, Reasons
  <2>3. pc = "abandon" /\ FinishScenario(o.s, o.status) /\ Settle(o)
    BY <1>3 DEF Abandon
  <2> HIDE DEF o
  <2> QED
    BY <2>1, <2>2, <2>3
<1>4. ASSUME FillSpawn \/ FillDone \/ RecvBatchBegin \/ RecvLateDone \/ RecvTimeout
             \/ EmitRunFinished \/ CloseRun
      PROVE  UNCHANGED <<record, outcomes, closed>>
  BY <1>4 DEF FillSpawn, FillDone, RecvBatchBegin, RecvLateDone, RecvTimeout,
              EmitRunFinished, CloseRun, gateVars
<1> HIDE DEF G
<1>5. UNCHANGED <<record, outcomes, closed>> \/ G
  BY <1>1, <1>2, <1>3, <1>4 DEF Dispatch
<1> QED
  BY <1>5 DEF G

LEMMA ClosedStaysPut ==
    ASSUME TypeOK, Bookkeeping, [Next]_vars, NEW t \in closed
    PROVE  record'[t] = record[t]
<1>1. CASE Dispatch
  BY <1>1, DispatchEmits, FinishKeepsClosed
<1>2. ASSUME NEW s \in Scenarios, Thread(s) PROVE record'[t] = record[t]
  BY <1>2, ThreadEmits, EmitKeepsClosed
<1>3. ASSUME NEW s \in Scenarios, Elapse(s) PROVE record'[t] = record[t]
  BY <1>3 DEF Elapse, gateVars
<1>4. CASE Interrupt
  BY <1>4 DEF Interrupt, gateVars
<1>5. CASE UNCHANGED vars
  BY <1>5 DEF vars, gateVars
<1> QED
  BY <1>1, <1>2, <1>3, <1>4, <1>5 DEF Next, Returned

LEMMA RunFinishedOnce ==
    ASSUME TypeOK, Bookkeeping, [Next]_vars, runFinished # None
    PROVE  UNCHANGED runFinished
<1>0. pc \in {"closeGate", "returned"}
  BY DEF Bookkeeping, LoopLeft
<1>1. CASE Dispatch
  BY <1>0, <1>1 DEF Dispatch, FillSkip, FillCancelled, FillSpawn, FillDone,
     RecvBatchBegin, RecvDone, RecvLateDone, RecvTimeout, Abandon, EmitRunFinished, CloseRun
<1>2. ASSUME NEW s \in Scenarios, Thread(s) PROVE UNCHANGED runFinished
  BY <1>2, ThreadMoves
<1>3. ASSUME NEW s \in Scenarios, Elapse(s) PROVE UNCHANGED runFinished
  BY <1>3 DEF Elapse, gateVars
<1>4. CASE Interrupt
  BY <1>4 DEF Interrupt, gateVars
<1>5. CASE UNCHANGED vars
  BY <1>5 DEF vars, gateVars
<1> QED
  BY <1>1, <1>2, <1>3, <1>4, <1>5 DEF Next, Returned

(* No step, of the dispatcher or of a detached thread, adds to a scenario's
   events after its terminal one, or to any after the tail of the record. *)
THEOREM TailIsTailHolds == Spec => TailIsTail
<1> DEFINE A == /\ \A s \in closed : record'[s] = record[s]
                /\ runFinished # None => UNCHANGED <<record, runFinished>>
<1>1. TypeOK /\ TypeOK' /\ Bookkeeping /\ [Next]_vars => [A]_vars
  <2> SUFFICES ASSUME TypeOK, TypeOK', Bookkeeping, [Next]_vars PROVE A
    OBVIOUS
  <2>1. \A s \in closed : record'[s] = record[s]
    BY ClosedStaysPut
  <2>2. ASSUME runFinished # None PROVE UNCHANGED <<record, runFinished>>
    <3>1. closed = Scenarios
      BY <2>2, TailMeansAll DEF Bookkeeping, LoopLeft
    <3>2. record' = record
      BY <2>1, <3>1 DEF TypeOK
    <3> QED
      BY <2>2, <3>2, RunFinishedOnce
  <2> QED
    BY <2>1, <2>2
<1>2. Spec => [][A]_vars
  BY <1>1, TypeCorrect, BookkeepingHolds, PTL DEF Spec
<1> QED
  BY <1>2 DEF TailIsTail

(***************************************************************************)
(* The record and the summary agree                                        *)
(***************************************************************************)

\* A step writes into the record and settles nobody, or it settles one
\* scenario with the terminal event of its outcome.
LEMMA StepEmits ==
    ASSUME TypeOK, Bookkeeping, [Next]_vars
    PROVE  \/ UNCHANGED <<record, outcomes>>
           \/ /\ UNCHANGED outcomes
              /\ \E s \in Scenarios : \E ev, b : Emit(s, ev, b) /\ ev # "finished"
           \/ \E o \in Outcome : /\ o.s \in Scenarios \ closed
                                 /\ FinishScenario(o.s, o.status) /\ Settle(o)
                                 /\ pc \in {"fill", "wait", "abandon"}
<1>1. CASE Dispatch
  BY <1>1, DispatchEmits
<1>2. ASSUME NEW s \in Scenarios, Thread(s)
      PROVE  \/ UNCHANGED <<record, outcomes>>
             \/ UNCHANGED outcomes /\ \E ev, b : Emit(s, ev, b) /\ ev # "finished"
  <2>1. UNCHANGED outcomes
    BY <1>2, ThreadMoves DEF dispatcherVars
  <2> QED
    BY <1>2, <2>1, ThreadEmits
<1>3. ASSUME NEW s \in Scenarios, Elapse(s) PROVE UNCHANGED <<record, outcomes>>
  BY <1>3 DEF Elapse, gateVars
<1>4. CASE Interrupt
  BY <1>4 DEF Interrupt, gateVars, dispatcherVars
<1>5. CASE UNCHANGED vars
  BY <1>5 DEF vars, gateVars, dispatcherVars
<1> QED
  BY <1>1, <1>2, <1>3, <1>4, <1>5 DEF Next, Returned

LEMMA FinishTold ==
    ASSUME TypeOK, Bookkeeping, RecordTold, NEW o \in Outcome,
           o.s \in Scenarios \ closed,
           FinishScenario(o.s, o.status), Settle(o),
           pc \in {"fill", "wait", "abandon"}
    PROVE  RecordTold'
<1> DEFINE e == [ev |-> "finished", status |-> o.status]
<1>1. record' = [record EXCEPT ![o.s] = Append(@, e)]
  <2>1. ~runClosed
    BY DEF Bookkeeping, LoopLeft
  <2> QED
    BY <2>1 DEF FinishScenario
<1>2. record \in [Scenarios -> Seq(Progress \cup Terminal)]
  BY DEF TypeOK
<1> DEFINE r == record[o.s]
<1>3. r \in Seq(Progress \cup Terminal) /\ Len(r) \in Nat /\ record'[o.s] = Append(r, e)
  BY <1>1, <1>2
<1>4. /\ record'[o.s] # <<>>
      /\ Len(record'[o.s]) = Len(r) + 1
      /\ record'[o.s][Len(r) + 1] = e
      /\ \A j \in 1..Len(r) : record'[o.s][j] = r[j]
  BY <1>3
<1>5. o.s \notin Settled
  BY DEF Bookkeeping
<1>6. \A j \in 1..Len(r) : r[j].ev # "finished"
  BY <1>5 DEF RecordTold
<1>7. /\ Len(outcomes) \in Nat
      /\ Len(outcomes') = Len(outcomes) + 1
      /\ \A i \in 1..Len(outcomes) : outcomes'[i] = outcomes[i]
      /\ outcomes'[Len(outcomes) + 1] = o
      /\ Settled' = Settled \cup {o.s}
  BY Appended DEF TypeOK
<1>8. ASSUME NEW i \in 1..Len(outcomes')
      PROVE  Told(record'[outcomes'[i].s], outcomes'[i].status)
  <2>1. CASE i = Len(outcomes) + 1
    <3>1. outcomes'[i] = o /\ Len(record'[o.s]) - 1 = Len(r)
      BY <1>3, <1>4, <1>7, <2>1
    <3>2. /\ record'[o.s] # <<>>
          /\ record'[o.s][Len(record'[o.s])] = e
          /\ \A j \in 1..(Len(record'[o.s]) - 1) : record'[o.s][j].ev # "finished"
      BY <1>4, <1>6, <3>1
    <3> QED
      BY <3>1, <3>2 DEF Told
  <2>2. CASE i \in 1..Len(outcomes)
    <3>1. outcomes'[i] = outcomes[i] /\ outcomes[i].s \in Settled
      BY <1>7, <2>2 DEF Settled
    <3>2. outcomes[i].s \in Scenarios /\ outcomes[i].s # o.s
      BY <1>5, <3>1, SettledType
    <3>3. record'[outcomes[i].s] = record[outcomes[i].s]
      BY <1>1, <1>2, <3>2
    <3> QED
      BY <2>2, <3>1, <3>3 DEF RecordTold
  <2> QED
    BY <1>7, <2>1, <2>2
<1>9. ASSUME NEW s \in Scenarios \ Settled', NEW j \in 1..Len(record'[s])
      PROVE  record'[s][j].ev # "finished"
  <2>1. s # o.s /\ s \notin Settled /\ record'[s] = record[s]
    BY <1>1, <1>2, <1>7
  <2> QED
    BY <2>1 DEF RecordTold
<1> QED
  BY <1>8, <1>9 DEF RecordTold

LEMMA EmitTold ==
    ASSUME TypeOK, Bookkeeping, RecordTold, UNCHANGED outcomes,
           NEW s \in Scenarios, NEW ev, NEW b, Emit(s, ev, b), ev # "finished"
    PROVE  RecordTold'
<1>1. CASE record' = record
  BY <1>1 DEF RecordTold, Settled
<1>2. CASE record' # record
  <2> DEFINE e == [ev |-> ev, batch |-> b]
  <2>1. s \notin Settled /\ record' = [record EXCEPT ![s] = Append(@, e)]
    BY <1>2 DEF Emit, Bookkeeping
  <2>2. record \in [Scenarios -> Seq(Progress \cup Terminal)]
    BY DEF TypeOK
  <2>3. ASSUME NEW i \in 1..Len(outcomes)
        PROVE  Told(record'[outcomes[i].s], outcomes[i].status)
    <3>1. outcomes[i].s \in Scenarios /\ outcomes[i].s # s
      BY <2>1, SettledType DEF Settled
    <3> QED
      BY <2>1, <2>2, <3>1 DEF RecordTold
  <2>4. Settled' = Settled
    BY DEF Settled
  <2>5. ASSUME NEW t \in Scenarios \ Settled, NEW j \in 1..Len(record'[t])
        PROVE  record'[t][j].ev # "finished"
    <3>1. CASE t # s
      BY <2>1, <2>2, <2>5, <3>1 DEF RecordTold
    <3>2. CASE t = s
      <4>1. record[s] \in Seq(Progress \cup Terminal) /\ record'[s] = Append(record[s], e)
        BY <2>1, <2>2
      <4>2. \/ j \in 1..Len(record[s]) /\ record'[s][j] = record[s][j]
            \/ record'[s][j] = e
        BY <3>2, <4>1
      <4>3. e.ev # "finished"
        OBVIOUS
      <4> QED
        BY <2>1, <3>2, <4>2, <4>3 DEF RecordTold
    <3> QED
      BY <3>1, <3>2
  <2> QED
    BY <2>3, <2>4, <2>5 DEF RecordTold
<1> QED
  BY <1>1, <1>2

LEMMA ToldStep ==
    ASSUME TypeOK, Bookkeeping, RecordTold, [Next]_vars PROVE RecordTold'
<1>1. CASE UNCHANGED <<record, outcomes>>
  BY <1>1 DEF RecordTold, Settled
<1> QED
  BY <1>1, StepEmits, FinishTold, EmitTold

\* The tallies of the tail are the counts of the summary.
LEMMA TallyStep ==
    ASSUME TypeOK, Bookkeeping, TallyTold, [Next]_vars PROVE TallyTold'
<1>1. CASE runFinished # None
  <2>1. UNCHANGED runFinished
    BY <1>1, RunFinishedOnce
  <2>2. UNCHANGED outcomes
    <3>1. pc \notin {"fill", "wait", "abandon"}
      BY <1>1 DEF Bookkeeping, LoopLeft
    <3> QED
      BY <3>1, StepEmits
  <2> QED
    BY <1>1, <2>1, <2>2 DEF TallyTold, CountOf
<1>2. CASE runFinished = None
  <2>1. CASE EmitRunFinished
    <3>1. ~runClosed /\ UNCHANGED outcomes
      BY <2>1 DEF Bookkeeping, LoopLeft, EmitRunFinished
    <3>2. runFinished' = [passed    |-> CountOf({"Passed", "Warned"}),
                          failed    |-> CountOf({"Failed"}),
                          skipped   |-> CountOf({"Skipped"}),
                          cancelled |-> cancelled]
      BY <2>1, <3>1 DEF EmitRunFinished
    <3>3. \A S : CountOf(S)' = CountOf(S)
      BY <3>1 DEF CountOf
    <3> QED
      BY <3>2, <3>3 DEF TallyTold
  <2>2. CASE ~EmitRunFinished
    <3>1. UNCHANGED runFinished
      <4>1. CASE Dispatch
        BY <2>2, <4>1 DEF Dispatch, FillSkip, FillCancelled, FillSpawn, FillDone,
           RecvBatchBegin, RecvDone, RecvLateDone, RecvTimeout, Abandon, CloseRun,
           FinishScenario, gateVars
      <4>2. ASSUME NEW s \in Scenarios, Thread(s) PROVE UNCHANGED runFinished
        BY <4>2, ThreadMoves
      <4>3. ASSUME NEW s \in Scenarios, Elapse(s) PROVE UNCHANGED runFinished
        BY <4>3 DEF Elapse, gateVars
      <4>4. CASE Interrupt
        BY <4>4 DEF Interrupt, gateVars
      <4>5. CASE UNCHANGED vars
        BY <4>5 DEF vars, gateVars
      <4> QED
        BY <4>1, <4>2, <4>3, <4>4, <4>5 DEF Next, Returned
    <3> QED
      BY <1>2, <3>1 DEF TallyTold
  <2> QED
    BY <2>1, <2>2
<1> QED
  BY <1>1, <1>2

\* Three kinds of status, one count each, and nobody counted twice.
LEMMA CountsAddUp ==
    ASSUME outcomes \in Seq(Outcome)
    PROVE  CountOf({"Passed", "Warned"}) + CountOf({"Failed"}) + CountOf({"Skipped"})
             = Len(outcomes)
<1> DEFINE I == 1..Len(outcomes)
           K(T) == {i \in I : outcomes[i].status \in T}
           P == K({"Passed", "Warned"})
           F == K({"Failed"})
           S == K({"Skipped"})
<1>1. Len(outcomes) \in Nat /\ IsFiniteSet(I) /\ Cardinality(I) = Len(outcomes)
  <2>1. Len(outcomes) \in Nat
    OBVIOUS
  <2>2. /\ IsFiniteSet(I)
        /\ Cardinality(I) = IF 1 > Len(outcomes) THEN 0 ELSE Len(outcomes) - 1 + 1
    BY <2>1, FS_Interval
  <2> QED
    BY <2>1, <2>2
<1>2. \A i \in I : outcomes[i].status \in Statuses
  <2>1. \A i \in I : outcomes[i] \in Outcome
    OBVIOUS
  <2> QED
    BY <2>1 DEF Outcome
<1>3. P \subseteq I /\ F \subseteq I /\ S \subseteq I
  OBVIOUS
<1>4. IsFiniteSet(P) /\ IsFiniteSet(F) /\ IsFiniteSet(S)
  BY <1>1, <1>3, FS_Subset
<1>5. P \cap F = {} /\ (P \cup F) \cap S = {} /\ (P \cup F) \cup S = I
  BY <1>2 DEF Statuses
<1>6. /\ Cardinality(P) \in Nat /\ Cardinality(F) \in Nat /\ Cardinality(S) \in Nat
      /\ Cardinality({}) = 0
  BY <1>4, FS_CardinalityType, FS_EmptySet
<1> HIDE DEF I, K, P, F, S
<1>7. /\ IsFiniteSet(P \cup F)
      /\ Cardinality(P \cup F) = Cardinality(P) + Cardinality(F)
  <2>1. /\ IsFiniteSet(P \cup F)
        /\ Cardinality(P \cup F)
             = Cardinality(P) + Cardinality(F) - Cardinality(P \cap F)
    BY <1>4, FS_Union
  <2>2. Cardinality(P \cap F) = 0
    BY <1>5, <1>6, Zenon
  <2> QED
    BY <1>6, <2>1, <2>2
<1>8. Cardinality(I) = Cardinality(P \cup F) + Cardinality(S)
  <2>1. Cardinality((P \cup F) \cup S)
             = Cardinality(P \cup F) + Cardinality(S) - Cardinality((P \cup F) \cap S)
    BY <1>4, <1>7, FS_Union
  <2>2. Cardinality(P \cup F) \in Nat
    BY <1>7, FS_CardinalityType
  <2>3. Cardinality((P \cup F) \cap S) = 0
    BY <1>5, <1>6, Zenon
  <2>4. Cardinality((P \cup F) \cup S) = Cardinality(I)
    BY <1>5, Zenon
  <2> QED
    BY <1>6, <2>1, <2>2, <2>3, <2>4
<1>9. Cardinality(P) + Cardinality(F) + Cardinality(S) = Len(outcomes)
  BY <1>1, <1>6, <1>7, <1>8
<1> QED
  BY <1>9 DEF I, K, P, F, S, CountOf

(* When the run returns, every scenario has exactly one terminal event in the
   record, its last, with the status the summary has, and the tallies of the
   tail add up to the number of scenarios. *)
THEOREM RecordAgreesHolds == Spec => []RecordAgrees
<1>1. Init => RecordTold /\ TallyTold
  BY DEF Init, RecordTold, TallyTold, Settled
<1>2. Spec => [](RecordTold /\ TallyTold)
  <2>1. TypeOK /\ Bookkeeping /\ RecordTold /\ TallyTold /\ [Next]_vars
           => (RecordTold /\ TallyTold)'
    BY ToldStep, TallyStep
  <2> QED
    BY <1>1, <2>1, TypeCorrect, BookkeepingHolds, PTL DEF Spec
<1>3. TypeOK /\ Bookkeeping /\ RecordTold /\ TallyTold => RecordAgrees
  <2> SUFFICES ASSUME TypeOK, Bookkeeping, RecordTold, TallyTold, pc = "returned"
               PROVE  RecordAgrees
    BY DEF RecordAgrees
  <2>1. Settled = Scenarios
    BY TailMeansAll
  <2>2. Len(outcomes) = N /\ outcomes \in Seq(Outcome)
    BY DEF Bookkeeping, LoopLeft, TypeOK
  <2>3. runFinished # None
    BY DEF Bookkeeping, LoopLeft
  <2>4. runFinished.passed + runFinished.failed + runFinished.skipped = N
    BY <2>2, <2>3, CountsAddUp DEF TallyTold
  <2> QED
    BY <2>1, <2>4 DEF RecordAgrees, RecordTold, Told
<1> QED
  BY <1>2, <1>3, TypeCorrect, BookkeepingHolds, PTL

(***************************************************************************)
(* The runner implements RunContract: its initial states are initial states *)
(* of the contract, and each of its steps is a step of it or a stutter.     *)
(***************************************************************************)

\* Who is where, as the contract sees it.
LEMMA Phases ==
    ASSUME TypeOK, Bookkeeping
    PROVE  /\ {s \in 1..N : PhaseOf(s) = "settled"} = Settled
           /\ {s \in 1..N : PhaseOf(s) = "running"} = active
           /\ \A s \in 1..N : PhaseOf(s) = "queued" <=> s >= head
<1>1. Settled \subseteq 1..N /\ active \subseteq 1..N /\ head \in 1..(N + 1)
  BY SettledType DEF TypeOK, Scenarios
<1>2. active \cup Settled = 1..(head - 1) /\ active \cap Settled = {}
  BY DEF Bookkeeping, SettledOnce
<1>3. {s \in 1..N : PhaseOf(s) = "settled"} = Settled
  BY <1>1 DEF PhaseOf
<1>4. {s \in 1..N : PhaseOf(s) = "running"} = active
  BY <1>1, <1>2 DEF PhaseOf
<1>5. \A s \in 1..N : PhaseOf(s) = "queued" <=> s \notin active \cup Settled
  BY DEF PhaseOf
<1>6. \A s \in 1..N : s \notin 1..(head - 1) <=> s >= head
  BY <1>1
<1> QED
  BY <1>2, <1>3, <1>4, <1>5, <1>6

\* A new outcome gives its scenario a verdict and changes nobody else's.
LEMMA VerdictGiven ==
    ASSUME TypeOK, Bookkeeping, Bookkeeping', NEW o \in Outcome, o.s \notin Settled,
           Settle(o), NEW s \in Scenarios
    PROVE  VerdictOf(s)' = IF s = o.s THEN o.status ELSE VerdictOf(s)
<1>1. /\ Len(outcomes) \in Nat
      /\ Len(outcomes') = Len(outcomes) + 1
      /\ \A i \in 1..Len(outcomes) : outcomes'[i] = outcomes[i]
      /\ outcomes'[Len(outcomes) + 1] = o
      /\ Settled' = Settled \cup {o.s}
  BY Appended DEF TypeOK
<1>2. /\ \A i, j \in 1..Len(outcomes) : outcomes[i].s = outcomes[j].s => i = j
      /\ \A i, j \in 1..Len(outcomes') : outcomes'[i].s = outcomes'[j].s => i = j
  BY DEF Bookkeeping, SettledOnce
<1>3. CASE s = o.s
  <2>1. Len(outcomes) + 1 \in 1..Len(outcomes') /\ outcomes'[Len(outcomes) + 1].s = s
    BY <1>1, <1>3
  <2>2. (CHOOSE i \in 1..Len(outcomes') : outcomes'[i].s = s) = Len(outcomes) + 1
    BY <1>2, <2>1
  <2>3. VerdictOf(s)' = outcomes'[CHOOSE i \in 1..Len(outcomes') : outcomes'[i].s = s].status
    BY <1>1, <1>3, Zenon DEF VerdictOf
  <2>4. VerdictOf(s)' = outcomes'[Len(outcomes) + 1].status
    BY <2>2, <2>3, Zenon
  <2> QED
    BY <1>1, <1>3, <2>4
<1>4. CASE s # o.s /\ s \in Settled
  <2>1. PICK k \in 1..Len(outcomes) : outcomes[k].s = s
    BY <1>4 DEF Settled
  <2>2. k \in 1..Len(outcomes') /\ outcomes'[k].s = s
    BY <1>1, <2>1
  <2>3. /\ (CHOOSE i \in 1..Len(outcomes) : outcomes[i].s = s) = k
        /\ (CHOOSE i \in 1..Len(outcomes') : outcomes'[i].s = s) = k
    BY <1>2, <2>1, <2>2
  <2>4. s \in Settled'
    BY <1>1, <1>4
  <2>5. /\ VerdictOf(s) = outcomes[CHOOSE i \in 1..Len(outcomes) : outcomes[i].s = s].status
        /\ VerdictOf(s)' = outcomes'[CHOOSE i \in 1..Len(outcomes') : outcomes'[i].s = s].status
    BY <1>4, <2>4, Zenon DEF VerdictOf
  <2>6. VerdictOf(s) = outcomes[k].status /\ VerdictOf(s)' = outcomes'[k].status
    BY <2>3, <2>5, Zenon
  <2> QED
    BY <1>1, <1>4, <2>6
<1>5. CASE s # o.s /\ s \notin Settled
  BY <1>1, <1>5 DEF VerdictOf
<1> QED
  BY <1>3, <1>4, <1>5

\* A settling step, as the contract sees it: one scenario's phase and verdict.
LEMMA SettleMaps ==
    ASSUME TypeOK, Bookkeeping, Bookkeeping', NEW o \in Outcome,
           o.s \in Scenarios \ Settled, Settle(o),
           active' = active \ {o.s}, UNCHANGED runFinished
    PROVE  /\ [s \in Scenarios |-> PhaseOf(s)]'
                = [[s \in Scenarios |-> PhaseOf(s)] EXCEPT ![o.s] = "settled"]
           /\ [s \in Scenarios |-> VerdictOf(s)]'
                = [[s \in Scenarios |-> VerdictOf(s)] EXCEPT ![o.s] = o.status]
<1>1. Settled' = Settled \cup {o.s}
  BY Appended DEF TypeOK
<1>2. \A s \in Scenarios : PhaseOf(s)' = IF s = o.s THEN "settled" ELSE PhaseOf(s)
  BY <1>1 DEF PhaseOf
<1>3. \A s \in Scenarios : VerdictOf(s)' = IF s = o.s THEN o.status ELSE VerdictOf(s)
  BY VerdictGiven
<1> QED
  BY <1>2, <1>3

\* The head of the queue is the contract's first in queue.
LEMMA HeadIsFirst ==
    ASSUME TypeOK, Bookkeeping, head <= N
    PROVE  Contract!FirstInQueue(head) /\ head \in 1..N
<1>1. head \in 1..N
  BY DEF TypeOK
<1> QED
  BY <1>1, Phases DEF Contract!FirstInQueue, Scenarios

LEMMA SkipMaps ==
    ASSUME TypeOK, Bookkeeping, Bookkeeping', FillSkip \/ FillCancelled
    PROVE  Contract!PassOver(head) /\ head \in 1..N
<1>1. head <= N /\ pc = "fill" /\ UNCHANGED <<active, runFinished>>
  BY DEF FillSkip, FillCancelled, SlotFree, FinishScenario
<1>2. Contract!FirstInQueue(head) /\ head \in Scenarios
  BY <1>1, HeadIsFirst DEF Scenarios
<1>3. head \notin Settled /\ head \notin active
  BY <1>2 DEF Bookkeeping, SettledOnce, TypeOK
<1>4. PICK r \in {"authored", "cancelled"} :
        Settle([s |-> head, status |-> "Skipped", fault |-> "none", reason |-> r])
  BY DEF FillSkip, FillCancelled
<1> DEFINE o == [s |-> head, status |-> "Skipped", fault |-> "none", reason |-> r]
<1>5. o \in Outcome /\ o.s = head /\ o.status = "Skipped" /\ Settle(o)
  BY <1>2, <1>4 DEF Outcome, Statuses, Faults, Reasons
<1> HIDE DEF o
<1>6. active' = active \ {o.s}
  BY <1>1, <1>3, <1>5
<1>7. /\ [s \in Scenarios |-> PhaseOf(s)]'
           = [[s \in Scenarios |-> PhaseOf(s)] EXCEPT ![head] = "settled"]
      /\ [s \in Scenarios |-> VerdictOf(s)]'
           = [[s \in Scenarios |-> VerdictOf(s)] EXCEPT ![head] = "Skipped"]
  BY <1>1, <1>2, <1>3, <1>5, <1>6, SettleMaps
<1>8. runFinished = None
  BY <1>1 DEF Bookkeeping, LoopLeft
<1> QED
  BY <1>1, <1>2, <1>7, <1>8 DEF Contract!PassOver, Scenarios

LEMMA SpawnMaps ==
    ASSUME TypeOK, Bookkeeping, FillSpawn
    PROVE  Contract!Start(head) /\ head \in 1..N
<1>1. /\ head <= N /\ pc = "fill" /\ active' = active \cup {head}
      /\ UNCHANGED <<outcomes, runFinished>>
      /\ Cardinality(active) < Slots /\ ~Blocked
  BY DEF FillSpawn, SlotFree, gateVars
<1>2. Contract!FirstInQueue(head) /\ head \in 1..N
  BY <1>1, HeadIsFirst
<1>3. {s \in 1..N : PhaseOf(s) = "running"} = active
  BY Phases
<1>4. Contract!In("running") = active
  BY <1>3 DEF Contract!In, Scenarios
<1>5. \A t \in active : head \notin Exclusive /\ t \notin Exclusive
  BY <1>1 DEF Blocked, Bookkeeping, PoolOwned
<1>6. Settled' = Settled
  BY <1>1 DEF Settled
<1>7. head \notin Settled
  BY <1>2 DEF Bookkeeping, SettledOnce, TypeOK
<1>8. \A s \in Scenarios : PhaseOf(s)' = IF s = head THEN "running" ELSE PhaseOf(s)
  BY <1>1, <1>6, <1>7 DEF PhaseOf
<1>9. [s \in Scenarios |-> PhaseOf(s)]'
        = [[s \in Scenarios |-> PhaseOf(s)] EXCEPT ![head] = "running"]
  BY <1>8
<1>10. \A s \in Scenarios : VerdictOf(s)' = VerdictOf(s)
  BY <1>1, <1>6 DEF VerdictOf
<1>11. runFinished = None
  BY <1>1 DEF Bookkeeping, LoopLeft
<1>12. Contract!Cardinality(Contract!In("running")) < Slots
  <2>1. Contract!Cardinality(active) = Cardinality(active)
    BY DEF Contract!Cardinality, Cardinality
  <2> QED
    BY <1>1, <1>4, <2>1, Zenon
<1>13. \A t \in Contract!In("running") : head \notin Exclusive /\ t \notin Exclusive
  BY <1>4, <1>5, Zenon
<1>14. /\ [s \in Scenarios |-> VerdictOf(s)]' = [s \in Scenarios |-> VerdictOf(s)]
       /\ (runFinished = None)' = (runFinished = None)
  BY <1>1, <1>10 DEF None
<1> QED
  BY <1>2, <1>9, <1>11, <1>12, <1>13, <1>14 DEF Contract!Start

\* A scenario leaves the pool by its Done or by the sweep.
LEMMA LeaveMaps ==
    ASSUME TypeOK, Bookkeeping, Bookkeeping', NEW o \in Outcome, o.s \in active,
           Settle(o), active' = active \ {o.s}, UNCHANGED runFinished,
           pc \in {"wait", "abandon"}
    PROVE  Contract!Settle(o.s) /\ o.s \in 1..N
<1>1. o.s \in Scenarios /\ o.s \notin Settled
  BY DEF Bookkeeping, SettledOnce, TypeOK
<1>2. PhaseOf(o.s) = "running"
  BY <1>1 DEF PhaseOf
<1>3. /\ [s \in Scenarios |-> PhaseOf(s)]'
           = [[s \in Scenarios |-> PhaseOf(s)] EXCEPT ![o.s] = "settled"]
      /\ [s \in Scenarios |-> VerdictOf(s)]'
           = [[s \in Scenarios |-> VerdictOf(s)] EXCEPT ![o.s] = o.status]
  BY <1>1, SettleMaps
<1>4. runFinished = None
  BY DEF Bookkeeping, LoopLeft
<1>5. o.status \in Contract!Status
  BY DEF Outcome, Statuses, Contract!Status
<1> QED
  BY <1>1, <1>2, <1>3, <1>4, <1>5 DEF Contract!Settle, Scenarios

LEMMA CloseMaps ==
    ASSUME TypeOK, Bookkeeping, Bookkeeping', EmitRunFinished
    PROVE  Contract!Close
<1>1. /\ pc = "close" /\ UNCHANGED <<active, outcomes>>
      /\ runFinished = None /\ runFinished' # None
  BY DEF EmitRunFinished, Bookkeeping, LoopLeft
<1>2. Settled = 1..N
  BY <1>1, TailMeansAll DEF Scenarios
<1>3. {s \in 1..N : PhaseOf(s) = "settled"} = Settled
  BY Phases
<1>4. Contract!In("settled") = 1..N
  BY <1>2, <1>3 DEF Contract!In, Scenarios
<1>5. Settled' = Settled
  BY <1>1 DEF Settled
<1>6. /\ [s \in Scenarios |-> PhaseOf(s)]' = [s \in Scenarios |-> PhaseOf(s)]
      /\ [s \in Scenarios |-> VerdictOf(s)]' = [s \in Scenarios |-> VerdictOf(s)]
  BY <1>1, <1>5 DEF PhaseOf, VerdictOf
<1>7. (runFinished = None) = TRUE /\ (runFinished = None)' = FALSE
  BY <1>1 DEF None
<1> QED
  BY <1>4, <1>6, <1>7, Zenon DEF Contract!Close

\* Everything else is invisible to the contract.
LEMMA StutterMaps ==
    ASSUME UNCHANGED <<active, outcomes, runFinished>>
    PROVE  UNCHANGED Contract!vars
<1>1. Settled' = Settled
  BY DEF Settled
<1>2. /\ [s \in Scenarios |-> PhaseOf(s)]' = [s \in Scenarios |-> PhaseOf(s)]
      /\ [s \in Scenarios |-> VerdictOf(s)]' = [s \in Scenarios |-> VerdictOf(s)]
      /\ (runFinished = None)' = (runFinished = None)
  BY <1>1 DEF PhaseOf, VerdictOf, None
<1> QED
  BY <1>2, Zenon DEF Contract!vars

LEMMA InitMaps == Init => Contract!Init
<1> SUFFICES ASSUME Init PROVE Contract!Init
  OBVIOUS
<1>1. Settled = {} /\ active = {} /\ runFinished = None
  BY DEF Init, Settled
<1>2. /\ [s \in Scenarios |-> PhaseOf(s)] = [s \in 1..N |-> "queued"]
      /\ [s \in Scenarios |-> VerdictOf(s)] = [s \in 1..N |-> "none"]
  BY <1>1 DEF PhaseOf, VerdictOf, Scenarios
<1> QED
  BY <1>1, <1>2 DEF Contract!Init

LEMMA StepMaps ==
    ASSUME TypeOK, Bookkeeping, Bookkeeping', [Next]_vars
    PROVE  [Contract!Next]_(Contract!vars)
<1>1. CASE FillSkip \/ FillCancelled
  BY <1>1, SkipMaps DEF Contract!Next
<1>2. CASE FillSpawn
  BY <1>2, SpawnMaps DEF Contract!Next
<1>3. CASE RecvDone
  <2> DEFINE o == Head(chan).outcome
  <2>1. o \in Outcome
    BY <1>3, HeadType DEF RecvDone
  <2>2. /\ o.s \in active /\ active' = active \ {o.s} /\ Settle(o)
        /\ UNCHANGED runFinished /\ pc = "wait"
    BY <1>3 DEF RecvDone, FinishScenario
  <2> HIDE DEF o
  <2> QED
    BY <2>1, <2>2, LeaveMaps DEF Contract!Next
<1>4. ASSUME NEW s \in doomed, Abandon(s)
      PROVE  [Contract!Next]_(Contract!vars)
  <2> DEFINE o == [s |-> s, status |-> "Failed", fault |-> "system", reason |-> "none"]
  <2>1. s \in Scenarios /\ s \in active
    BY DEF TypeOK
  <2>2. o \in Outcome /\ o.s = s
    BY <2>1 DEF Outcome, Statuses, Faults, Reasons
  <2>3. /\ active' = active \ {o.s} /\ Settle(o)
        /\ UNCHANGED runFinished /\ pc = "abandon"
    BY <1>4 DEF Abandon, FinishScenario
  <2> HIDE DEF o
  <2> QED
    BY <2>1, <2>2, <2>3, LeaveMaps DEF Contract!Next
<1>5. CASE EmitRunFinished
  BY <1>5, CloseMaps DEF Contract!Next
<1>6. CASE FillDone \/ RecvBatchBegin \/ RecvLateDone \/ RecvTimeout \/ CloseRun
  <2>1. UNCHANGED <<active, outcomes, runFinished>>
    BY <1>6 DEF FillDone, RecvBatchBegin, RecvLateDone, RecvTimeout, CloseRun, gateVars
  <2> QED
    BY <2>1, StutterMaps
<1>7. ASSUME NEW s \in Scenarios, Thread(s) PROVE UNCHANGED Contract!vars
  <2>1. UNCHANGED <<active, outcomes, runFinished>>
    BY <1>7, ThreadMoves DEF dispatcherVars
  <2> QED
    BY <2>1, StutterMaps
<1>8. ASSUME NEW s \in Scenarios, Elapse(s) PROVE UNCHANGED Contract!vars
  <2>1. UNCHANGED <<active, outcomes, runFinished>>
    BY <1>8 DEF Elapse, gateVars
  <2> QED
    BY <2>1, StutterMaps
<1>9. CASE Interrupt \/ UNCHANGED vars
  <2>1. UNCHANGED <<active, outcomes, runFinished>>
    BY <1>9 DEF Interrupt, vars, dispatcherVars, gateVars
  <2> QED
    BY <2>1, StutterMaps
<1> QED
  BY <1>1, <1>2, <1>3, <1>4, <1>5, <1>6, <1>7, <1>8, <1>9 DEF Next, Dispatch, Returned

(* The runner implements its contract: scenarios leave the queue in order, the
   pool is never wider than its slots, an exclusive scenario starts alone,
   each is settled once, and the run is closed when all are - for any number
   of scenarios and jobs, and whatever the engines and the clock do. *)
THEOREM RunnerKeepsContract == Spec => Contract!Safety
<1>1. TypeOK /\ Bookkeeping /\ Bookkeeping' /\ [Next]_vars
        => [Contract!Next]_(Contract!vars)
  BY StepMaps
<1> QED
  BY <1>1, InitMaps, TypeCorrect, BookkeepingHolds, PTL DEF Spec, Contract!Safety

-----------------------------------------------------------------------------
(* Theorems about the scenario threads and what they leave behind: the      *)
(* store keeps what is handed on, a run that stops early is accounted for,  *)
(* and a run that exits 0 ran everything.                                   *)


(***************************************************************************)
(* Where a thread is, and what its flags and its progress say of it        *)
(***************************************************************************)

LEMMA BatchesType ==
    ASSUME NEW s \in Scenarios PROVE Len(Batches[s]) \in Nat
  BY BatchesAssumption

\* A step of one thread is its own: nobody else's place or state changes.
LEMMA OthersStay ==
    ASSUME TypeOK, NEW s \in Scenarios, Thread(s), NEW t \in Scenarios \ {s}
    PROVE  /\ wpc'[t] = wpc[t] /\ flags'[t] = flags[t] /\ fault'[t] = fault[t]
           /\ processed'[t] = processed[t] /\ promoted'[t] = promoted[t]
           /\ snapshot'[t] = snapshot[t]
<1> USE DEF localVars, TypeOK
<1>1. CASE Begin(s)
  BY <1>1 DEF Begin
<1>2. CASE Prepare(s)
  BY <1>2 DEF Prepare, Panicked
<1>3. CASE StartBatch(s)
  BY <1>3 DEF StartBatch
<1>4. CASE EndBatches(s)
  <2>1. flags'[t] = flags[t] /\ fault'[t] = fault[t] /\ wpc'[t] = wpc[t]
    BY <1>4 DEF EndBatches, Panicked
  <2> QED
    BY <1>4, <2>1 DEF EndBatches
<1>5. ASSUME NEW result \in Results("plain"), FinishBatch(s, result)
      PROVE  /\ wpc'[t] = wpc[t] /\ flags'[t] = flags[t] /\ fault'[t] = fault[t]
             /\ processed'[t] = processed[t] /\ promoted'[t] = promoted[t]
             /\ snapshot'[t] = snapshot[t]
  BY <1>5 DEF FinishBatch
<1>6. CASE CutBatch(s)
  BY <1>6 DEF CutBatch
<1>7. CASE Merge(s)
  BY <1>7 DEF Merge
<1>8. CASE SendDone(s)
  BY <1>8 DEF SendDone
<1>9. CASE Panic(s)
  BY <1>9 DEF Panic, Panicked
<1> QED
  BY <1>1, <1>2, <1>3, <1>4, <1>5, <1>6, <1>7, <1>8, <1>9 DEF Thread

LEMMA ThreadCancelsNone ==
    ASSUME NEW s \in Scenarios, Thread(s)
    PROVE  UNCHANGED <<cancelled, abandoned, closed, runClosed, runFinished, failCount>>
  BY DEF Thread, Begin, Prepare, StartBatch, EndBatches, FinishBatch, CutBatch,
         Merge, SendDone, Panic, gateVars

\* Each step of a thread leaves a true account of it.
LEMMA OwnTrue ==
    ASSUME TypeOK, NEW s \in Scenarios, ThreadTrue(s), Thread(s)
    PROVE  ThreadTrue(s)'
<1> USE DEF localVars, TypeOK, ThreadTrue, Dropped, Ended, BatchesLeft
<1>0. Len(Batches[s]) \in Nat /\ processed[s] \in Nat /\ (TokenCancelled(s) => TokenCancelled(s)')
  <2>1. cancelled' = cancelled /\ abandoned' = abandoned
    BY ThreadCancelsNone
  <2> QED
    BY <2>1, BatchesType DEF TokenCancelled
<1>1. CASE Begin(s)
  BY <1>0, <1>1 DEF Begin
<1>2. CASE Prepare(s)
  <2>1. wpc[s] = "snapshot" /\ flags[s] = {} /\ processed'[s] = 0
    BY <1>2 DEF Prepare
  <2>2. CASE Panicked(s)
    BY <1>0, <2>1, <2>2 DEF Panicked
  <2>3. CASE wpc' = [wpc EXCEPT ![s] = "next"] /\ UNCHANGED flags
    BY <1>0, <2>1, <2>3
  <2>4. CASE /\ flags' = [flags EXCEPT ![s] = @ \cup {"failed", "unprepared"}]
             /\ wpc' = [wpc EXCEPT ![s] = "send"]
    BY <1>0, <2>1, <2>4
  <2> QED
    BY <1>2, <2>2, <2>3, <2>4 DEF Prepare
<1>3. CASE StartBatch(s)
  BY <1>0, <1>3 DEF StartBatch, MoreToRun
<1>4. CASE EndBatches(s)
  <2>1. CASE Panicked(s)
    BY <1>0, <1>4, <2>1 DEF EndBatches, Panicked
  <2>2. CASE ~Panicked(s)
    <3> DEFINE more == IF StopReason(s) = "interrupted" THEN {"interrupted"}
                       ELSE IF StopReason(s) = "noSession" THEN {"failed"} ELSE {}
    <3>1. /\ flags'[s] = flags[s] \cup more /\ wpc[s] = "next" /\ wpc'[s] = "merge"
          /\ processed'[s] = processed[s]
      BY <1>4, <2>2 DEF EndBatches
    <3>2. \/ more = {"interrupted"} /\ TokenCancelled(s)
          \/ more = {"failed"}
          \/ more = {} /\ (BatchesLeft(s) => "failed" \in flags[s])
      BY DEF StopReason, MoreToRun
    <3> HIDE DEF more
    <3> QED
      BY <1>0, <3>1, <3>2
  <2> QED
    BY <2>1, <2>2
<1>5. ASSUME NEW result \in Results("plain"), FinishBatch(s, result)
      PROVE  ThreadTrue(s)'
  BY <1>0, <1>5 DEF FinishBatch
<1>6. CASE CutBatch(s)
  BY <1>0, <1>6 DEF CutBatch
<1>7. CASE Merge(s)
  BY <1>0, <1>7 DEF Merge
<1>8. CASE SendDone(s)
  BY <1>0, <1>8 DEF SendDone
<1>9. CASE Panic(s)
  BY <1>0, <1>9 DEF Panic, Panicked
<1> QED
  BY <1>1, <1>2, <1>3, <1>4, <1>5, <1>6, <1>7, <1>8, <1>9 DEF Thread

\* The dispatcher spawns threads; beyond that it only tells them to stop.
LEMMA DispatchSpawns ==
    ASSUME Dispatch
    PROVE  /\ UNCHANGED <<localVars, store>>
           /\ wpc' = wpc \/ FillSpawn
           /\ cancelled => cancelled'
           /\ abandoned \subseteq abandoned'
<1> USE DEF Dispatch, FillSkip, FillCancelled, FillSpawn, FillDone, RecvBatchBegin, RecvDone,
         RecvLateDone, RecvTimeout, Abandon, EmitRunFinished, CloseRun
<1>1. UNCHANGED <<localVars, store>> /\ (wpc' = wpc \/ FillSpawn)
  BY Zenon
<1>2. cancelled' = cancelled \/ \E s, status : FinishScenario(s, status)
  BY Zenon DEF gateVars
<1>3. abandoned' = abandoned \/ \E s : abandoned' = abandoned \cup {s}
  BY Zenon
<1>4. cancelled => cancelled'
  BY <1>2, Zenon DEF FinishScenario, TripOnMaxFail
<1> QED
  BY <1>1, <1>3, <1>4

\* A spawn starts the thread of the scenario at the head, which had none.
LEMMA SpawnStarts ==
    ASSUME TypeOK, Bookkeeping, FillSpawn
    PROVE  /\ head \in Scenarios /\ wpc[head] = "none" /\ wpc'[head] = "begin"
           /\ \A t \in Scenarios \ {head} : wpc'[t] = wpc[t]
<1>1. head \in Scenarios /\ wpc' = [wpc EXCEPT ![head] = "begin"]
  BY DEF FillSpawn, SlotFree, TypeOK, Scenarios
<1>2. wpc[head] = "none"
  BY <1>1 DEF Bookkeeping, ThreadsKnown, TypeOK
<1> QED
  BY <1>1, <1>2 DEF TypeOK

\* Outside of the dispatcher and the threads, at most the token moves.
LEMMA OutsideMoves ==
    ASSUME \/ \E s \in Scenarios : Elapse(s)
           \/ Interrupt \/ UNCHANGED vars
    PROVE  /\ UNCHANGED <<pc, head, active, outcomes, chan, abandoned, gateVars,
                           wpc, localVars, store>>
           /\ cancelled => cancelled'
  BY DEF Elapse, Interrupt, vars, dispatcherVars

LEMMA TrueStep == TypeOK /\ Bookkeeping /\ ThreadsTrue /\ [Next]_vars => ThreadsTrue'
<1> SUFFICES ASSUME TypeOK, Bookkeeping, ThreadsTrue, [Next]_vars, NEW t \in Scenarios
             PROVE  ThreadTrue(t)'
  BY DEF ThreadsTrue
<1>0. ThreadTrue(t) /\ Len(Batches[t]) \in Nat
  BY BatchesType DEF ThreadsTrue
<1>1. ASSUME wpc'[t] = wpc[t], flags'[t] = flags[t], processed'[t] = processed[t],
             cancelled => cancelled', abandoned \subseteq abandoned'
      PROVE  ThreadTrue(t)'
  BY <1>0, <1>1 DEF ThreadTrue, Dropped, Ended, BatchesLeft, TokenCancelled
<1>2. CASE Dispatch
  <2>1. UNCHANGED localVars /\ (cancelled => cancelled') /\ abandoned \subseteq abandoned'
    BY <1>2, DispatchSpawns
  <2>2. CASE wpc'[t] = wpc[t]
    BY <1>1, <2>1, <2>2 DEF localVars
  <2>3. CASE wpc'[t] # wpc[t]
    <3>1. wpc[t] = "none" /\ wpc'[t] = "begin"
      BY <1>2, <2>3, DispatchSpawns, SpawnStarts
    <3> QED
      BY <1>0, <2>1, <3>1 DEF localVars, ThreadTrue, Dropped, Ended, BatchesLeft
  <2> QED
    BY <2>2, <2>3
<1>3. ASSUME NEW s \in Scenarios, Thread(s) PROVE ThreadTrue(t)'
  <2>1. CASE s = t
    BY <1>0, <1>3, <2>1, OwnTrue
  <2>2. CASE s # t
    <3>1. wpc'[t] = wpc[t] /\ flags'[t] = flags[t] /\ processed'[t] = processed[t]
      BY <1>3, <2>2, OthersStay
    <3>2. cancelled' = cancelled /\ abandoned' = abandoned
      BY <1>3, ThreadCancelsNone
    <3> QED
      BY <1>1, <3>1, <3>2
  <2> QED
    BY <2>1, <2>2
<1>4. CASE (\E s \in Scenarios : Elapse(s)) \/ Interrupt \/ UNCHANGED vars
  BY <1>1, <1>4, OutsideMoves DEF localVars
<1> QED
  BY <1>2, <1>3, <1>4 DEF Next, Returned

LEMMA InitTrue == Init => ThreadsTrue
  BY BatchesType DEF Init, ThreadsTrue, ThreadTrue, Dropped, Ended, BatchesLeft

(* A thread's place, its flags and its progress agree at every moment: a batch
   is left out only after a failure or an interrupt, an interrupt was asked
   for, and a dropped thread failed and never merges. *)
THEOREM ThreadsTrueHolds == Spec => []ThreadsTrue
  BY InitTrue, TrueStep, TypeCorrect, BookkeepingHolds, PTL DEF Spec

(***************************************************************************)
(* What scenarios hand on through the store                                *)
(***************************************************************************)

\* A thread merges once, when it is not dropped; nothing else of a thread
\* changes who has merged, what they promoted, or the store.
LEMMA OneMerges ==
    ASSUME TypeOK, ThreadsTrue, NEW s \in Scenarios, Thread(s), ~Merge(s),
           NEW t \in Scenarios
    PROVE  /\ store' = store
           /\ Merged(t)' <=> Merged(t)
           /\ Merged(t) => promoted'[t] = promoted[t]
<1> USE DEF Merged
<1>0. CASE t # s
  <2>1. wpc'[t] = wpc[t] /\ flags'[t] = flags[t] /\ promoted'[t] = promoted[t]
    BY <1>0, OthersStay
  <2>2. store' = store
    BY DEF Thread, Begin, Prepare, StartBatch, EndBatches, FinishBatch, CutBatch,
           SendDone, Panic
  <2> QED
    BY <2>1, <2>2
<1>a. CASE t = s
  <2> USE <1>a DEF localVars, TypeOK
  <2>1. CASE Begin(s)
    BY <2>1 DEF Begin
  <2>2. CASE Prepare(s)
    <3>1. wpc[s] = "snapshot" /\ UNCHANGED <<store, promoted>>
      BY <2>2 DEF Prepare
    <3>2. \/ wpc'[s] = "next" \/ flags'[s] = {"failed", "panicked"}
          \/ flags'[s] = flags[s] \cup {"failed", "unprepared"}
      BY <2>2 DEF Prepare, Panicked
    <3> QED
      BY <3>1, <3>2
  <2>3. CASE StartBatch(s)
    BY <2>3 DEF StartBatch
  <2>4. CASE EndBatches(s)
    <3>1. wpc[s] = "next" /\ UNCHANGED <<store, promoted>>
      BY <2>4 DEF EndBatches
    <3>2. wpc'[s] = "merge" \/ flags'[s] = {"failed", "panicked"}
      BY <2>4 DEF EndBatches, Panicked
    <3> QED
      BY <3>1, <3>2
  <2>5. ASSUME NEW result \in Results("plain"), FinishBatch(s, result)
        PROVE  wpc[s] = "batch" /\ wpc'[s] = "next" /\ store' = store
    BY <2>5 DEF FinishBatch
  <2>6. CASE CutBatch(s)
    BY <2>6 DEF CutBatch
  <2>8. CASE SendDone(s)
    BY <2>8 DEF SendDone
  <2>9. CASE Panic(s)
    BY <2>9 DEF Panic, Panicked
  <2> QED
    BY <2>1, <2>2, <2>3, <2>4, <2>5, <2>6, <2>8, <2>9 DEF Thread
<1> QED
  BY <1>0, <1>a

\* The merge itself: the write set goes to the store, and the thread has merged.
LEMMA MergeWrites ==
    ASSUME TypeOK, ThreadsTrue, NEW s \in Scenarios, Merge(s), NEW t \in Scenarios
    PROVE  /\ store' = [k \in Keys |-> IF k \in promoted[s] THEN s ELSE store[k]]
           /\ promoted' = promoted /\ snapshot' = snapshot
           /\ Merged(t)' <=> (t = s \/ Merged(t))
<1>1. wpc[s] = "merge" /\ wpc' = [wpc EXCEPT ![s] = "send"] /\ ~Dropped(s)
  BY DEF Merge, ThreadsTrue, ThreadTrue
<1>2. flags' = flags /\ promoted' = promoted /\ snapshot' = snapshot
  BY DEF Merge, localVars
<1> QED
  BY <1>1, <1>2 DEF Merge, Merged, Dropped, TypeOK

\* The dispatcher and the rest leave all of this alone.
LEMMA RestMergesNone ==
    ASSUME TypeOK, Bookkeeping, NEW t \in Scenarios,
           \/ Dispatch
           \/ (\E s \in Scenarios : Elapse(s)) \/ Interrupt \/ UNCHANGED vars
    PROVE  /\ UNCHANGED <<store, promoted, snapshot>>
           /\ Merged(t)' <=> Merged(t)
<1>1. UNCHANGED <<localVars, store>>
  BY DispatchSpawns, OutsideMoves
<1>2. wpc'[t] = wpc[t] \/ (wpc[t] = "none" /\ wpc'[t] = "begin")
  BY DispatchSpawns, OutsideMoves, SpawnStarts
<1> QED
  BY <1>1, <1>2 DEF localVars, Merged

LEMMA SurviveStep ==
    TypeOK /\ Bookkeeping /\ ThreadsTrue /\ PromotionsSurvive /\ [Next]_vars
        => PromotionsSurvive'
<1> SUFFICES ASSUME TypeOK, Bookkeeping, ThreadsTrue, PromotionsSurvive, [Next]_vars
             PROVE  PromotionsSurvive'
  OBVIOUS
<1> DEFINE W(k) == {s \in Scenarios : Merged(s) /\ k \in promoted[s]}
<1>1. \A k \in Keys : IF W(k) = {} THEN store[k] = 0 ELSE store[k] \in W(k)
  BY DEF PromotionsSurvive
<1>2. ASSUME store' = store, \A t \in Scenarios : Merged(t)' <=> Merged(t),
             \A t \in Scenarios : Merged(t) => promoted'[t] = promoted[t]
      PROVE  PromotionsSurvive'
  <2>1. \A k \in Keys : W(k)' = W(k)
    BY <1>2
  <2> HIDE DEF W
  <2>2. \A k \in Keys : IF W(k)' = {} THEN store'[k] = 0 ELSE store'[k] \in W(k)'
    BY <1>1, <1>2, <2>1
  <2> QED
    BY <2>2 DEF PromotionsSurvive, W
<1>3. ASSUME NEW s \in Scenarios, Merge(s) PROVE PromotionsSurvive'
  <2>1. \A k \in Keys : W(k)' = IF k \in promoted[s] THEN W(k) \cup {s} ELSE W(k)
    BY <1>3, MergeWrites
  <2>2. \A k \in Keys : store'[k] = IF k \in promoted[s] THEN s ELSE store[k]
    BY <1>3, MergeWrites
  <2> HIDE DEF W
  <2>3. \A k \in Keys : IF W(k)' = {} THEN store'[k] = 0 ELSE store'[k] \in W(k)'
    BY <1>1, <2>1, <2>2
  <2> QED
    BY <2>3 DEF PromotionsSurvive, W
<1>4. ASSUME NEW s \in Scenarios, Thread(s), ~Merge(s) PROVE PromotionsSurvive'
  BY <1>2, <1>4, OneMerges
<1>5. CASE Dispatch \/ (\E s \in Scenarios : Elapse(s)) \/ Interrupt \/ UNCHANGED vars
  <2>1. UNCHANGED <<store, promoted>>
    BY <1>5, DispatchSpawns, OutsideMoves DEF localVars
  <2>2. \A u \in Scenarios : Merged(u)' <=> Merged(u)
    BY <1>5, RestMergesNone
  <2> QED
    BY <1>2, <2>1, <2>2
<1> QED
  BY <1>3, <1>4, <1>5 DEF Next, Returned

\* A scenario enters the pool only when those it is kept apart from have left.
LEMMA ApartStep ==
    TypeOK /\ Bookkeeping /\ EarlierGone /\ [Next]_vars => EarlierGone'
<1> SUFFICES ASSUME TypeOK, Bookkeeping, EarlierGone, [Next]_vars,
                    NEW t \in Scenarios, wpc'[t] # "none",
                    NEW s \in 1..(t - 1), s \notin abandoned', KeptApart(s, t)
             PROVE  wpc'[s] \in {"none", "gone"}
  BY DEF EarlierGone, KeptApart, Slots
<1>0. s \in Scenarios /\ s # t /\ s < t
  BY DEF Scenarios
<1>1. CASE Dispatch
  <2>1. s \notin abandoned
    BY <1>1, DispatchSpawns
  <2>2. CASE wpc' = wpc
    BY <2>1, <2>2 DEF EarlierGone
  <2>3. CASE FillSpawn /\ t = head
    <3>1. ~Blocked /\ Cardinality(active) < Slots /\ wpc'[s] = wpc[s]
      BY <1>0, <2>3, SpawnStarts DEF FillSpawn, SlotFree
    <3>2. CASE active = {}
      BY <1>0, <2>1, <3>1, <3>2 DEF Bookkeeping, ThreadsKnown, Live
    <3>3. CASE active # {}
      <4>1. Slots # 1
        <5>1. IsFiniteSet(active) /\ Cardinality(active) \in Nat
          BY ActiveFinite
        <5>2. Cardinality(active) # 0
          BY <3>3, <5>1, FS_EmptySet
        <5> QED
          BY <3>1, <5>1, <5>2
      <4>2. t \notin Exclusive /\ ~exclusiveActive
        BY <2>3, <3>1, <3>3 DEF Blocked
      <4>3. s \in Exclusive
        BY <4>1, <4>2 DEF KeptApart
      <4>4. s \notin active
        BY <4>2, <4>3 DEF Bookkeeping, PoolOwned
      <4> QED
        BY <1>0, <2>1, <3>1, <4>4 DEF Bookkeeping, ThreadsKnown, Live
    <3> QED
      BY <3>2, <3>3
  <2>4. CASE FillSpawn /\ t # head
    <3>1. wpc[t] = wpc'[t] /\ wpc[t] # "none"
      BY <2>4, SpawnStarts
    <3>2. t < head
      BY <3>1 DEF Bookkeeping, ThreadsKnown
    <3>3. wpc'[s] = wpc[s]
      <4>1. s # head
        BY <1>0, <3>2 DEF Scenarios, TypeOK
      <4> QED
        BY <1>0, <2>4, <4>1, SpawnStarts
    <3> QED
      BY <2>1, <3>1, <3>3 DEF EarlierGone
  <2> QED
    BY <1>1, <2>2, <2>3, <2>4, DispatchSpawns
<1>2. ASSUME NEW u \in Scenarios, Thread(u) PROVE wpc'[s] \in {"none", "gone"}
  <2>1. s \notin abandoned /\ wpc[u] \notin {"none", "gone"}
    BY <1>2, ThreadCancelsNone, ThreadMoves
  <2>2. wpc[t] # "none"
    BY <1>2, <2>1, OthersStay
  <2>3. wpc[s] \in {"none", "gone"}
    BY <2>1, <2>2 DEF EarlierGone
  <2> QED
    BY <1>0, <1>2, <2>1, <2>3, OthersStay
<1>3. CASE (\E u \in Scenarios : Elapse(u)) \/ Interrupt \/ UNCHANGED vars
  BY <1>3, OutsideMoves DEF EarlierGone
<1> QED
  BY <1>1, <1>2, <1>3 DEF Next, Returned

\* What a thread reads when it clones the store, and that it keeps it.
LEMMA SnapshotTaken ==
    ASSUME TypeOK, NEW t \in Scenarios, Thread(t),
           wpc'[t] \notin {"none", "begin", "snapshot"}
    PROVE  IF wpc[t] \in {"none", "begin", "snapshot"}
           THEN snapshot'[t] = store ELSE snapshot'[t] = snapshot[t]
<1> USE DEF localVars, TypeOK
<1>1. CASE Begin(t)
  BY <1>1 DEF Begin
<1>2. CASE Prepare(t)
  BY <1>2 DEF Prepare
<1>3. CASE ~Begin(t) /\ ~Prepare(t)
  BY <1>3 DEF Thread, StartBatch, EndBatches, FinishBatch, CutBatch, Merge, SendDone, Panic
<1> QED
  BY <1>1, <1>2, <1>3

LEMMA VisibleStep ==
    TypeOK /\ Bookkeeping /\ ThreadsTrue /\ EarlierGone /\ PromotionsSurvive
      /\ SequentialVisibility /\ [Next]_vars => SequentialVisibility'
<1> SUFFICES ASSUME TypeOK, Bookkeeping, ThreadsTrue, EarlierGone, PromotionsSurvive,
                    SequentialVisibility, [Next]_vars
             PROVE  SequentialVisibility'
  OBVIOUS
<1> SUFFICES ASSUME NEW t \in Scenarios, wpc'[t] \notin {"none", "begin", "snapshot"},
                    NEW s \in 1..(t - 1), s \notin abandoned', Merged(s)', KeptApart(s, t),
                    NEW k \in promoted'[s]
             PROVE  snapshot'[t][k] # 0
  BY DEF SequentialVisibility, KeptApart, Slots
<1>0. s \in Scenarios /\ s # t
  BY DEF Scenarios
\* Enough: nothing moved that matters here.
<1>1. ASSUME wpc[t] \notin {"none", "begin", "snapshot"}, s \notin abandoned, Merged(s),
             promoted'[s] = promoted[s], snapshot'[t] = snapshot[t]
      PROVE  snapshot'[t][k] # 0
  BY <1>1 DEF SequentialVisibility
<1>2. CASE Dispatch \/ (\E u \in Scenarios : Elapse(u)) \/ Interrupt \/ UNCHANGED vars
  <2>1. s \notin abandoned /\ wpc[t] \notin {"none", "begin", "snapshot"}
    BY <1>2, DispatchSpawns, OutsideMoves, SpawnStarts
  <2>2. UNCHANGED <<promoted, snapshot>> /\ Merged(s)
    BY <1>0, <1>2, RestMergesNone
  <2> QED
    BY <1>1, <2>1, <2>2
<1>3. ASSUME NEW u \in Scenarios, Merge(u) PROVE snapshot'[t][k] # 0
  <2>0. Thread(u)
    BY <1>3 DEF Thread
  <2>1. s \notin abandoned /\ promoted' = promoted /\ snapshot' = snapshot
    BY <1>3, <2>0, MergeWrites, ThreadCancelsNone
  <2>2. wpc[t] \notin {"none", "begin", "snapshot"}
    BY <1>3 DEF Merge, TypeOK
  <2>3. u # s
    BY <1>3, <2>1, <2>2 DEF EarlierGone, Merge
  <2>4. Merged(s)
    BY <1>0, <1>3, <2>3, MergeWrites
  <2> QED
    BY <1>1, <2>1, <2>2, <2>4
<1>4. ASSUME NEW u \in Scenarios, Thread(u), ~Merge(u) PROVE snapshot'[t][k] # 0
  <2>1. s \notin abandoned /\ Merged(s) /\ promoted'[s] = promoted[s]
    BY <1>0, <1>4, OneMerges, ThreadCancelsNone
  <2>2. CASE wpc[t] \notin {"none", "begin", "snapshot"}
    <3>1. snapshot'[t] = snapshot[t]
      BY <1>4, <2>2, OthersStay, SnapshotTaken
    <3> QED
      BY <1>1, <2>1, <2>2, <3>1
  <2>3. CASE wpc[t] \in {"none", "begin", "snapshot"}
    <3>1. t = u
      BY <1>4, <2>3, OthersStay
    <3>2. snapshot'[t] = store
      BY <1>4, <2>3, <3>1, SnapshotTaken
    <3>3. k \in Keys /\ k \in promoted[s]
      BY <1>0, <2>1 DEF TypeOK
    <3>4. store[k] \in Scenarios
      BY <1>0, <2>1, <3>3 DEF PromotionsSurvive
    <3> QED
      BY <3>2, <3>4 DEF Scenarios
  <2> QED
    BY <2>2, <2>3
<1> QED
  BY <1>2, <1>3, <1>4 DEF Next, Returned

(* Nothing a scenario promoted is lost from the store, whatever else merges
   and in whatever order, and a scenario the pool keeps apart from an earlier
   one reads all that the earlier one promoted. *)
THEOREM StoreKeptHolds == Spec => []StoreKept
<1>1. Init => PromotionsSurvive /\ EarlierGone /\ SequentialVisibility
  BY DEF Init, PromotionsSurvive, EarlierGone, SequentialVisibility, Merged
<1>2. TypeOK /\ Bookkeeping /\ ThreadsTrue
        /\ (PromotionsSurvive /\ EarlierGone /\ SequentialVisibility) /\ [Next]_vars
        => (PromotionsSurvive /\ EarlierGone /\ SequentialVisibility)'
  BY SurviveStep, ApartStep, VisibleStep
<1>3. PromotionsSurvive /\ SequentialVisibility => StoreKept
  BY DEF StoreKept
<1> QED
  BY <1>1, <1>2, <1>3, TypeCorrect, BookkeepingHolds, ThreadsTrueHolds, PTL DEF Spec

(***************************************************************************)
(* A run that stops early                                                  *)
(***************************************************************************)

\* One more outcome counts once, among those of its status.
LEMMA CountMore ==
    ASSUME outcomes \in Seq(Outcome), NEW o \in Outcome, Settle(o), NEW S
    PROVE  CountOf(S)' = IF o.status \in S THEN CountOf(S) + 1 ELSE CountOf(S)
<1> DEFINE n == Len(outcomes)
           I == {i \in 1..n : outcomes[i].status \in S}
           J == {i \in 1..(n + 1) : outcomes'[i].status \in S}
<1>1. /\ n \in Nat /\ Len(outcomes') = n + 1
      /\ \A i \in 1..n : outcomes'[i] = outcomes[i]
      /\ outcomes'[n + 1] = o
  BY Appended
<1>2. CountOf(S)' = Cardinality(J) /\ CountOf(S) = Cardinality(I)
  BY <1>1 DEF CountOf
<1>3. IsFiniteSet(I)
  <2>1. IsFiniteSet(1..n)
    BY <1>1, FS_Interval
  <2>2. I \in SUBSET (1..n)
    OBVIOUS
  <2> QED
    BY <2>1, <2>2, FS_Subset
<1>4. J = IF o.status \in S THEN I \cup {n + 1} ELSE I
  BY <1>1
<1>5. n + 1 \notin I
  BY <1>1
<1> HIDE DEF I, J
<1> QED
  BY <1>2, <1>3, <1>4, <1>5, FS_AddElement

\* Whoever leaves the pool makes it smaller by one.
LEMMA PoolShrinks ==
    ASSUME TypeOK, NEW s \in active
    PROVE  Cardinality(active \ {s}) = Cardinality(active) - 1
  BY ActiveFinite, FS_RemoveElement

\* A settled scenario is counted by the wrapper if it failed, and the failure
\* that reaches the threshold cancels the run.
LEMMA SettleCounts ==
    ASSUME TypeOK, Bookkeeping, FailuresCounted, NEW o \in Outcome,
           pc \in {"fill", "wait", "abandon"},
           Settle(o), FinishScenario(o.s, o.status),
           \/ active' = active /\ o.status # "Failed"
           \/ o.s \in active /\ active' = active \ {o.s}
    PROVE  FailuresCounted'
<1>1. ~runClosed /\ outcomes \in Seq(Outcome) /\ failCount \in Nat
  BY DEF Bookkeeping, LoopLeft, TypeOK
<1>2. CountOf({"Failed"})' = IF o.status = "Failed" THEN CountOf({"Failed"}) + 1
                                                    ELSE CountOf({"Failed"})
  BY <1>1, CountMore
<1>3. failCount' = IF o.status = "Failed" THEN failCount + 1 ELSE failCount
  BY <1>1 DEF FinishScenario, TripOnMaxFail
<1>4. (failCount = CountOf({"Failed"}))'
  BY <1>2, <1>3 DEF FailuresCounted
<1>5. /\ Cardinality(active) \in Nat /\ Cardinality(active) <= Slots
      /\ Slots \in Nat /\ Slots >= 1 /\ Slots' = Slots /\ MaxFail \in Nat
  BY ActiveFinite, JobsAssumption, MaxFailAssumption DEF Bookkeeping, PoolOwned, Slots
<1>6. cancelled => cancelled'
  BY DEF FinishScenario, TripOnMaxFail
<1>7. o.status = "Failed" /\ failCount + 1 = MaxFail => cancelled'
  BY <1>1 DEF FinishScenario, TripOnMaxFail
<1>8. \/ Cardinality(active') = Cardinality(active) /\ o.status # "Failed"
      \/ Cardinality(active') = Cardinality(active) - 1
  BY PoolShrinks
<1>9. MaxFail > 0 =>
         \/ failCount' < MaxFail
         \/ cancelled' /\ failCount' + Cardinality(active') <= MaxFail + Slots - 1
  <2> DEFINE room  == failCount + Cardinality(active) <= MaxFail + Slots - 1
             room2 == failCount' + Cardinality(active') <= MaxFail + Slots - 1
  <2>1. MaxFail > 0 => failCount < MaxFail \/ (cancelled /\ room)
    BY DEF FailuresCounted
  <2>2. room => room2
    BY <1>1, <1>3, <1>5, <1>8
  <2>3. failCount < MaxFail => \/ failCount' < MaxFail
                               \/ room2 /\ o.status = "Failed" /\ failCount + 1 = MaxFail
    BY <1>1, <1>3, <1>5, <1>8
  <2> HIDE DEF room, room2
  <2>4. MaxFail > 0 => failCount' < MaxFail \/ (cancelled' /\ room2)
    BY <1>6, <1>7, <2>1, <2>2, <2>3
  <2> QED
    BY <2>4 DEF room2
<1>10. ASSUME MaxFail > 0, Exclusive \cap active' # {} PROVE failCount' < MaxFail
  <2>1. PICK e \in Exclusive : e \in active'
    BY <1>10
  <2>2. e \in active /\ active = {e}
    BY <2>1 DEF Bookkeeping, PoolOwned
  <2>3. o.status # "Failed"
    BY <2>1, <2>2
  <2> QED
    BY <1>1, <1>3, <1>10, <2>1, <2>2, <2>3 DEF FailuresCounted
<1> QED
  BY <1>4, <1>9, <1>10 DEF FailuresCounted

LEMMA FailuresStep ==
    TypeOK /\ Bookkeeping /\ FailuresCounted /\ [Next]_vars => FailuresCounted'
<1> SUFFICES ASSUME TypeOK, Bookkeeping, FailuresCounted, [Next]_vars
             PROVE  FailuresCounted'
  OBVIOUS
<1>0. Slots' = Slots
  BY DEF Slots
<1>1. ASSUME UNCHANGED <<outcomes, failCount, active>>, cancelled => cancelled'
      PROVE  FailuresCounted'
  BY <1>0, <1>1 DEF FailuresCounted, CountOf
<1>2. CASE FillSkip \/ FillCancelled
  <2>1. PICK r \in {"authored", "cancelled"} :
          LET o == [s |-> head, status |-> "Skipped", fault |-> "none", reason |-> r]
          IN  pc = "fill" /\ FinishScenario(o.s, o.status) /\ Settle(o)
    BY <1>2 DEF FillSkip, FillCancelled
  <2> DEFINE o == [s |-> head, status |-> "Skipped", fault |-> "none", reason |-> r]
  <2>2. pc = "fill" /\ FinishScenario(o.s, o.status) /\ Settle(o)
    BY <2>1
  <2>3. o \in Outcome /\ o.status # "Failed"
    BY <1>2 DEF Outcome, Statuses, Faults, Reasons, FillSkip, FillCancelled, SlotFree, TypeOK, Scenarios
  <2>4. active' = active
    BY <1>2 DEF FillSkip, FillCancelled
  <2> HIDE DEF o
  <2> QED
    BY <2>2, <2>3, <2>4, SettleCounts
<1>3. CASE RecvDone
  <2> DEFINE o == Head(chan).outcome
  <2>1. o \in Outcome
    BY <1>3, HeadType DEF RecvDone
  <2>2. /\ o.s \in active /\ pc = "wait" /\ active' = active \ {o.s}
        /\ FinishScenario(o.s, o.status) /\ Settle(o)
    BY <1>3 DEF RecvDone
  <2> HIDE DEF o
  <2> QED
    BY <2>1, <2>2, SettleCounts
<1>4. ASSUME NEW s \in doomed, Abandon(s) PROVE FailuresCounted'
  <2> DEFINE o == [s |-> s, status |-> "Failed", fault |-> "system", reason |-> "none"]
  <2>1. o \in Outcome /\ o.s = s /\ s \in active
    BY DEF Outcome, Statuses, Faults, Reasons, TypeOK
  <2>2. /\ pc = "abandon" /\ active' = active \ {s}
        /\ FinishScenario(o.s, o.status) /\ Settle(o)
    BY <1>4 DEF Abandon
  <2> HIDE DEF o
  <2> QED
    BY <2>1, <2>2, SettleCounts
<1>5. CASE FillSpawn
  <2>1. ~cancelled /\ UNCHANGED <<outcomes, failCount>>
    BY <1>5 DEF FillSpawn, gateVars
  <2>2. MaxFail > 0 => failCount < MaxFail
    BY <2>1 DEF FailuresCounted
  <2> QED
    BY <2>1, <2>2 DEF FailuresCounted, CountOf
<1>6. CASE FillDone \/ RecvBatchBegin \/ RecvLateDone \/ RecvTimeout
             \/ EmitRunFinished \/ CloseRun
  BY <1>1, <1>6 DEF FillDone, RecvBatchBegin, RecvLateDone, RecvTimeout,
                    EmitRunFinished, CloseRun, gateVars
<1>7. ASSUME NEW s \in Scenarios, Thread(s) PROVE FailuresCounted'
  BY <1>1, <1>7, ThreadMoves, ThreadCancelsNone DEF dispatcherVars
<1>8. CASE (\E s \in Scenarios : Elapse(s)) \/ Interrupt \/ UNCHANGED vars
  BY <1>1, <1>8, OutsideMoves DEF gateVars
<1> QED
  BY <1>2, <1>3, <1>4, <1>5, <1>6, <1>7, <1>8 DEF Next, Dispatch, Returned

LEMMA BoundFollows ==
    ASSUME TypeOK, FailuresCounted PROVE MaxFailBound
<1>1. Slots \in Nat /\ Slots >= 1 /\ Cardinality(active) \in Nat /\ failCount \in Nat
  BY ActiveFinite, JobsAssumption DEF Slots, TypeOK
<1> QED
  BY <1>1, MaxFailAssumption DEF FailuresCounted, MaxFailBound

\* One more event of a scenario, and what it is among those of a kind.
LEMMA EventAdded ==
    ASSUME TypeOK, NEW s \in Scenarios, NEW e,
           record' = [record EXCEPT ![s] = Append(@, e)]
    PROVE  /\ Len(record[s]) \in Nat /\ Len(record'[s]) = Len(record[s]) + 1
           /\ \A i \in 1..Len(record[s]) : record'[s][i] = record[s][i]
           /\ record'[s][Len(record[s]) + 1] = e
<1>1. record[s] \in Seq(Progress \cup Terminal) /\ record'[s] = Append(record[s], e)
  BY DEF TypeOK
<1> QED
  BY <1>1

LEMMA EventCounted ==
    ASSUME TypeOK, NEW s \in Scenarios, NEW e, NEW ev, e.ev = ev,
           record' = [record EXCEPT ![s] = Append(@, e)]
    PROVE  EventsOf(s, ev)' = EventsOf(s, ev) \cup {Len(record[s]) + 1}
<1>1. /\ Len(record[s]) \in Nat /\ Len(record'[s]) = Len(record[s]) + 1
      /\ \A i \in 1..Len(record[s]) : record'[s][i] = record[s][i]
      /\ record'[s][Len(record[s]) + 1] = e
  BY EventAdded
<1> QED
  BY <1>1 DEF EventsOf

LEMMA EventPassed ==
    ASSUME TypeOK, NEW s \in Scenarios, NEW e, NEW ev, e.ev # ev,
           record' = [record EXCEPT ![s] = Append(@, e)]
    PROVE  EventsOf(s, ev)' = EventsOf(s, ev)
<1>1. /\ Len(record[s]) \in Nat /\ Len(record'[s]) = Len(record[s]) + 1
      /\ \A i \in 1..Len(record[s]) : record'[s][i] = record[s][i]
      /\ record'[s][Len(record[s]) + 1] = e
  BY EventAdded
<1> QED
  BY <1>1 DEF EventsOf

LEMMA EventsFinite ==
    ASSUME TypeOK, NEW s \in Scenarios, NEW ev
    PROVE  /\ EventsOf(s, ev) \subseteq 1..Len(record[s])
           /\ IsFiniteSet(EventsOf(s, ev))
<1>1. Len(record[s]) \in Nat
  BY DEF TypeOK
<1>2. EventsOf(s, ev) \subseteq 1..Len(record[s])
  BY DEF EventsOf
<1>3. IsFiniteSet(1..Len(record[s]))
  BY <1>1, FS_Interval
<1> QED
  BY <1>2, <1>3, FS_Subset

\* An event that is no account of a batch, or none at all, changes none.
LEMMA NoteTold ==
    ASSUME TypeOK, NEW s \in Scenarios, BatchTold(s),
           processed'[s] = processed[s], Ended(s)' <=> Ended(s), NEW note,
           \/ record'[s] = record[s]
           \/ /\ record' = [record EXCEPT ![s] = Append(@, note)]
              /\ note.ev \notin {"steps", "unreached"}
    PROVE  BatchTold(s)'
<1>1. CASE record'[s] = record[s]
  BY <1>1 DEF BatchTold, EventsOf, BatchesLeft
<1>2. CASE /\ record' = [record EXCEPT ![s] = Append(@, note)]
           /\ note.ev \notin {"steps", "unreached"}
  <2>0. /\ note.ev # "steps" /\ note.ev # "unreached"
        /\ record' = [record EXCEPT ![s] = Append(@, note)]
    BY <1>2
  <2>1. /\ Len(record[s]) \in Nat /\ Len(record'[s]) = Len(record[s]) + 1
        /\ \A i \in 1..Len(record[s]) : record'[s][i] = record[s][i]
        /\ EventsOf(s, "steps")' = EventsOf(s, "steps")
        /\ EventsOf(s, "unreached")' = EventsOf(s, "unreached")
    <3>1. EventsOf(s, "steps")' = EventsOf(s, "steps")
      BY <2>0, EventPassed
    <3>2. EventsOf(s, "unreached")' = EventsOf(s, "unreached")
      BY <2>0, EventPassed
    <3> QED
      BY <2>0, <3>1, <3>2, EventAdded
  <2>2. \A i \in EventsOf(s, "steps") : record'[s][i] = record[s][i]
    BY <2>1, EventsFinite
  <2>3. {record'[s][i].batch : i \in EventsOf(s, "steps")} = 1..processed[s]
    BY <2>2 DEF BatchTold
  <2>4. BatchesLeft(s)' <=> BatchesLeft(s)
    BY DEF BatchesLeft
  <2>5. (Ended(s) /\ BatchesLeft(s))' =>
          \E i \in 1..Len(record'[s]) : /\ EventsOf(s, "unreached")' = {i}
                                        /\ record'[s][i].batch = processed'[s] + 1
    <3> SUFFICES ASSUME Ended(s) /\ BatchesLeft(s)
                 PROVE  \E i \in 1..Len(record'[s]) :
                           /\ EventsOf(s, "unreached")' = {i}
                           /\ record'[s][i].batch = processed'[s] + 1
      BY <2>4
    <3>1. PICK i \in 1..Len(record[s]) : /\ EventsOf(s, "unreached") = {i}
                                         /\ record[s][i].batch = processed[s] + 1
      BY DEF BatchTold
    <3> QED
      BY <2>1, <3>1
  <2>6. (~(Ended(s) /\ BatchesLeft(s)) => EventsOf(s, "unreached") = {})'
    BY <2>1, <2>4 DEF BatchTold
  <2> QED
    BY <2>1, <2>3, <2>5, <2>6 DEF BatchTold
<1> QED
  BY <1>1, <1>2

\* A batch's own steps are the account of it.
LEMMA StepsTold ==
    ASSUME TypeOK, NEW s \in Scenarios, BatchTold(s), ~Ended(s), ~Ended(s)',
           processed'[s] = processed[s] + 1,
           record' = [record EXCEPT ![s] =
                        Append(@, [ev |-> "steps", batch |-> processed[s] + 1])]
    PROVE  BatchTold(s)'
<1> DEFINE e == [ev |-> "steps", batch |-> processed[s] + 1]
           n == Len(record[s])
           A == EventsOf(s, "steps")
<1>0. processed[s] \in Nat /\ record' = [record EXCEPT ![s] = Append(@, e)]
  BY DEF TypeOK
<1> HIDE DEF e
<1>1. e.ev = "steps" /\ e.batch = processed[s] + 1
  BY DEF e
<1>2. /\ n \in Nat
      /\ \A i \in 1..n : record'[s][i] = record[s][i]
      /\ record'[s][n + 1] = e
      /\ EventsOf(s, "steps")' = A \cup {n + 1}
      /\ EventsOf(s, "unreached")' = EventsOf(s, "unreached")
  <2>1. EventsOf(s, "steps")' = A \cup {n + 1}
    BY <1>0, <1>1, EventCounted
  <2>2. EventsOf(s, "unreached")' = EventsOf(s, "unreached")
    BY <1>0, <1>1, EventPassed
  <2> QED
    BY <1>0, <2>1, <2>2, EventAdded
<1>3. A \subseteq 1..n /\ IsFiniteSet(A)
  BY EventsFinite
<1>4. n + 1 \notin A
  BY <1>2, <1>3
<1> HIDE DEF A, n
<1>5. Cardinality(A \cup {n + 1}) = processed'[s]
  BY <1>3, <1>4, FS_AddElement DEF BatchTold, A
<1>6. {record[s][i].batch : i \in A} = 1..processed[s]
  BY DEF BatchTold, A
<1>7. {record'[s][i].batch : i \in A} = 1..processed[s]
  BY <1>2, <1>3, <1>6
<1>8. {record'[s][i].batch : i \in A \cup {n + 1}} = (1..processed[s]) \cup {processed[s] + 1}
  BY <1>1, <1>2, <1>7
<1>9. (1..processed[s]) \cup {processed[s] + 1} = 1..processed'[s]
  BY <1>0
<1> QED
  BY <1>2, <1>5, <1>8, <1>9 DEF BatchTold

\* What the loop does not reach is reported once, from the batch it stopped at.
LEMMA RestTold ==
    ASSUME TypeOK, NEW s \in Scenarios, BatchTold(s), ~Ended(s), Ended(s)',
           processed'[s] = processed[s],
           IF BatchesLeft(s)
           THEN record' = [record EXCEPT ![s] =
                             Append(@, [ev |-> "unreached", batch |-> processed[s] + 1])]
           ELSE record' = record
    PROVE  BatchTold(s)'
<1>1. CASE ~BatchesLeft(s)
  <2>1. record' = record /\ ~BatchesLeft(s)'
    BY <1>1 DEF BatchesLeft
  <2>2. EventsOf(s, "steps")' = EventsOf(s, "steps") /\ EventsOf(s, "unreached")' = {}
    BY <2>1 DEF BatchTold, EventsOf
  <2> QED
    BY <2>1, <2>2 DEF BatchTold
<1>2. CASE BatchesLeft(s)
  <2> DEFINE e == [ev |-> "unreached", batch |-> processed[s] + 1]
             n == Len(record[s])
  <2>0. record' = [record EXCEPT ![s] = Append(@, e)] /\ BatchesLeft(s)'
    BY <1>2 DEF BatchesLeft
  <2> HIDE DEF e
  <2>1. e.ev = "unreached" /\ e.ev # "steps" /\ e.batch = processed[s] + 1
    BY DEF e
  <2>2. /\ n \in Nat /\ Len(record'[s]) = n + 1
        /\ \A i \in 1..n : record'[s][i] = record[s][i]
        /\ record'[s][n + 1] = e
        /\ EventsOf(s, "steps")' = EventsOf(s, "steps")
        /\ EventsOf(s, "unreached")' = EventsOf(s, "unreached") \cup {n + 1}
    <3>1. EventsOf(s, "steps")' = EventsOf(s, "steps")
      BY <2>0, <2>1, EventPassed
    <3>2. EventsOf(s, "unreached")' = EventsOf(s, "unreached") \cup {n + 1}
      BY <2>0, <2>1, EventCounted
    <3> QED
      BY <2>0, <3>1, <3>2, EventAdded
  <2>3. EventsOf(s, "unreached") = {}
    BY DEF BatchTold
  <2>4. \E i \in 1..Len(record'[s]) : /\ EventsOf(s, "unreached")' = {i}
                                      /\ record'[s][i].batch = processed'[s] + 1
    BY <2>1, <2>2, <2>3
  <2>5. \A i \in EventsOf(s, "steps") : record'[s][i] = record[s][i]
    BY <2>2, EventsFinite
  <2>6. {record'[s][i].batch : i \in EventsOf(s, "steps")} = 1..processed[s]
    BY <2>5 DEF BatchTold
  <2> QED
    BY <2>0, <2>2, <2>4, <2>6 DEF BatchTold
<1> QED
  BY <1>1, <1>2

\* The gate is open to a thread that runs and was not abandoned.
LEMMA EmitPasses ==
    ASSUME TypeOK, Bookkeeping, NEW s \in Scenarios \ abandoned,
           wpc[s] \notin {"none", "gone"}, NEW ev, NEW b, Emit(s, ev, b)
    PROVE  record' = [record EXCEPT ![s] = Append(@, [ev |-> ev, batch |-> b])]
<1>1. s \in active
  BY DEF Bookkeeping, ThreadsKnown, Live
<1>2. s \notin closed
  BY <1>1 DEF Bookkeeping, SettledOnce
<1>3. ~runClosed
  BY <1>1, TailMeansAll DEF Bookkeeping, LoopLeft
<1> QED
  BY <1>2, <1>3 DEF Emit

\* A dropped thread stays dropped.
LEMMA DroppedStays ==
    ASSUME TypeOK, NEW s \in Scenarios, ThreadTrue(s), Thread(s), Dropped(s)
    PROVE  Dropped(s)'
<1>1. wpc[s] = "send"
  BY ThreadMoves DEF ThreadTrue
<1>2. flags' = flags
  BY <1>1 DEF Thread, Begin, Prepare, StartBatch, EndBatches, FinishBatch, CutBatch,
              Merge, SendDone, Panic, localVars
<1> QED
  BY <1>2 DEF Dropped

\* A panic drops the thread, and so does a scenario that does not lower.
LEMMA PanicDrops ==
    ASSUME TypeOK, NEW s \in Scenarios, Panicked(s)
    PROVE  Dropped(s)'
<1>1. flags'[s] = {"failed", "panicked"}
  BY DEF Panicked, TypeOK
<1> QED
  BY <1>1 DEF Dropped

\* Each step of a thread leaves its batches accounted for.
LEMMA OwnTold ==
    ASSUME TypeOK, Bookkeeping, NEW s \in Scenarios \ abandoned, ThreadTrue(s),
           Thread(s), BatchTold(s), ~Dropped(s)'
    PROVE  BatchTold(s)'
<1>0. wpc[s] \notin {"none", "gone"}
  BY ThreadMoves
<1> USE DEF localVars, Ended
<1>1. CASE Begin(s)
  <2> DEFINE e == [ev |-> "started", batch |-> 0]
  <2>1. record' = [record EXCEPT ![s] = Append(@, e)]
    BY <1>0, <1>1, EmitPasses DEF Begin
  <2>2. e.ev \notin {"steps", "unreached"}
    OBVIOUS
  <2>3. processed'[s] = processed[s] /\ (Ended(s)' <=> Ended(s))
    BY <1>1 DEF Begin, TypeOK
  <2> HIDE DEF e
  <2> QED
    BY <2>1, <2>2, <2>3, NoteTold
<1>2. CASE Prepare(s)
  <2>1. record' = record /\ processed' = processed /\ ~Ended(s)
    BY <1>2 DEF Prepare, gateVars
  <2>2. ~Panicked(s)
    BY PanicDrops
  <2>3. flags'[s] # flags[s] \cup {"failed", "unprepared"}
    BY DEF Dropped
  <2>4. wpc'[s] = "next"
    BY <1>2, <2>2, <2>3 DEF Prepare, TypeOK
  <2> QED
    BY <2>1, <2>4, NoteTold
<1>3. CASE StartBatch(s)
  <2> DEFINE e == [ev |-> "batch", batch |-> processed[s] + 1]
  <2>1. record' = [record EXCEPT ![s] = Append(@, e)]
    BY <1>0, <1>3, EmitPasses DEF StartBatch
  <2>2. e.ev \notin {"steps", "unreached"}
    OBVIOUS
  <2>3. processed'[s] = processed[s] /\ (Ended(s)' <=> Ended(s))
    BY <1>3 DEF StartBatch, TypeOK
  <2> HIDE DEF e
  <2> QED
    BY <2>1, <2>2, <2>3, NoteTold
<1>4. CASE EndBatches(s)
  <2>1. ~Panicked(s)
    BY PanicDrops
  <2>2. wpc[s] = "next" /\ wpc'[s] = "merge" /\ processed'[s] = processed[s]
    BY <1>4, <2>1 DEF EndBatches, TypeOK
  <2>3. IF BatchesLeft(s)
        THEN record' = [record EXCEPT ![s] =
                          Append(@, [ev |-> "unreached", batch |-> processed[s] + 1])]
        ELSE record' = record
    BY <1>0, <1>4, EmitPasses DEF EndBatches
  <2> QED
    BY <2>2, <2>3, RestTold
<1>5. ASSUME NEW result \in Results("plain"), FinishBatch(s, result)
      PROVE  BatchTold(s)'
  <2>1. /\ wpc[s] = "batch" /\ wpc'[s] = "next" /\ processed'[s] = processed[s] + 1
        /\ Emit(s, "steps", processed[s] + 1)
    BY <1>5 DEF FinishBatch, TypeOK
  <2> QED
    BY <1>0, <2>1, EmitPasses, StepsTold
<1>6. CASE CutBatch(s)
  <2>1. /\ wpc[s] = "batch" /\ wpc'[s] = "next" /\ processed'[s] = processed[s] + 1
        /\ Emit(s, "steps", processed[s] + 1)
    BY <1>6 DEF CutBatch, TypeOK
  <2> QED
    BY <1>0, <2>1, EmitPasses, StepsTold
<1>7. CASE Merge(s) \/ SendDone(s)
  <2>1. record' = record /\ processed' = processed
    BY <1>7 DEF Merge, SendDone, gateVars
  <2>2. Ended(s) /\ Ended(s)'
    BY <1>7 DEF Merge, SendDone, TypeOK
  <2> QED
    BY <2>1, <2>2, NoteTold
<1>8. CASE Panic(s)
  BY <1>8, PanicDrops DEF Panic
<1> QED
  BY <1>1, <1>2, <1>3, <1>4, <1>5, <1>6, <1>7, <1>8 DEF Thread

LEMMA BatchesStep ==
    TypeOK /\ Bookkeeping /\ ThreadsTrue /\ BatchesTold /\ [Next]_vars => BatchesTold'
<1> SUFFICES ASSUME TypeOK, Bookkeeping, ThreadsTrue, BatchesTold, [Next]_vars,
                    NEW s \in Scenarios \ abandoned', ~Dropped(s)'
             PROVE  BatchTold(s)'
  BY DEF BatchesTold
<1>1. CASE Dispatch \/ (\E u \in Scenarios : Elapse(u)) \/ Interrupt \/ UNCHANGED vars
  <2>1. UNCHANGED localVars /\ abandoned \subseteq abandoned'
    BY <1>1, DispatchSpawns, OutsideMoves
  <2>2. s \notin abandoned /\ processed'[s] = processed[s] /\ ~Dropped(s)
    BY <2>1 DEF localVars, Dropped
  <2>3. BatchTold(s)
    BY <2>2 DEF BatchesTold
  <2>4. Ended(s)' <=> Ended(s)
    BY <1>1, DispatchSpawns, OutsideMoves, SpawnStarts DEF Ended
  <2>5. \/ record'[s] = record[s]
        \/ \E status : record' = [record EXCEPT ![s] =
                                    Append(@, [ev |-> "finished", status |-> status])]
    <3>1. CASE Dispatch
      <4>1. CASE UNCHANGED record
        BY <4>1
      <4>2. ASSUME NEW o \in Outcome, FinishScenario(o.s, o.status)
            PROVE  \/ record'[s] = record[s]
                   \/ record' = [record EXCEPT ![s] =
                                   Append(@, [ev |-> "finished", status |-> o.status])]
        BY <4>2 DEF FinishScenario, TypeOK
      <4> QED
        BY <3>1, <4>1, <4>2, DispatchEmits
    <3>2. CASE (\E u \in Scenarios : Elapse(u)) \/ Interrupt \/ UNCHANGED vars
      BY <3>2, OutsideMoves DEF gateVars
    <3> QED
      BY <1>1, <3>1, <3>2
  <2>6. ASSUME NEW status,
               record' = [record EXCEPT ![s] =
                            Append(@, [ev |-> "finished", status |-> status])]
        PROVE  BatchTold(s)'
    <3> DEFINE e == [ev |-> "finished", status |-> status]
    <3>1. record' = [record EXCEPT ![s] = Append(@, e)] /\ e.ev \notin {"steps", "unreached"}
      BY <2>6
    <3> HIDE DEF e
    <3> QED
      BY <2>2, <2>3, <2>4, <3>1, NoteTold
  <2> QED
    BY <2>2, <2>3, <2>4, <2>5, <2>6, NoteTold
<1>2. ASSUME NEW u \in Scenarios, Thread(u) PROVE BatchTold(s)'
  <2>1. s \notin abandoned
    BY <1>2, ThreadCancelsNone
  <2>2. CASE u = s
    <3>1. ~Dropped(s) /\ ThreadTrue(s)
      BY <1>2, <2>2, DroppedStays DEF ThreadsTrue
    <3>2. BatchTold(s)
      BY <2>1, <3>1 DEF BatchesTold
    <3> QED
      BY <1>2, <2>1, <2>2, <3>1, <3>2, OwnTold
  <2>3. CASE u # s
    <3>1. /\ wpc'[s] = wpc[s] /\ flags'[s] = flags[s] /\ processed'[s] = processed[s]
      BY <1>2, <2>3, OthersStay
    <3>2. ~Dropped(s) /\ (Ended(s)' <=> Ended(s))
      BY <3>1 DEF Dropped, Ended
    <3>3. BatchTold(s)
      BY <2>1, <3>2 DEF BatchesTold
    <3>4. record'[s] = record[s]
      BY <1>2, <2>3, ThreadEmits DEF Emit, TypeOK
    <3> QED
      BY <3>1, <3>2, <3>3, <3>4, NoteTold
  <2> QED
    BY <2>2, <2>3
<1> QED
  BY <1>1, <1>2 DEF Next, Returned

LEMMA ReportedFollows ==
    ASSUME TypeOK, ThreadsTrue, BatchesTold PROVE BatchesReportedOnce
<1> SUFFICES ASSUME NEW s \in Scenarios \ abandoned, wpc[s] = "gone", ~Dropped(s)
             PROVE  LET steps == EventsOf(s, "steps")
                        rest  == EventsOf(s, "unreached")
                    IN  /\ {record[s][i].batch : i \in steps} = 1..Cardinality(steps)
                        /\ Cardinality(steps) = Len(Batches[s]) <=> rest = {}
                        /\ \A i \in rest : /\ record[s][i].batch = Cardinality(steps) + 1
                                           /\ Cardinality(rest) = 1
  BY DEF BatchesReportedOnce, EventsOf, Dropped
<1>1. BatchTold(s) /\ ThreadTrue(s) /\ Ended(s)
  BY DEF BatchesTold, ThreadsTrue, Ended
<1>2. processed[s] \in Nat /\ Len(Batches[s]) \in Nat
  BY BatchesType DEF TypeOK
<1>3. CASE BatchesLeft(s)
  <2>1. PICK i \in 1..Len(record[s]) : /\ EventsOf(s, "unreached") = {i}
                                       /\ record[s][i].batch = processed[s] + 1
    BY <1>1, <1>3 DEF BatchTold
  <2>2. Cardinality({i}) = 1
    BY FS_Singleton
  <2>3. processed[s] # Len(Batches[s])
    BY <1>2, <1>3 DEF BatchesLeft
  <2> QED
    BY <1>1, <2>1, <2>2, <2>3 DEF BatchTold
<1>4. CASE ~BatchesLeft(s)
  <2>1. EventsOf(s, "unreached") = {} /\ processed[s] = Len(Batches[s])
    BY <1>1, <1>2, <1>4 DEF BatchTold, ThreadTrue, BatchesLeft
  <2> QED
    BY <1>1, <2>1 DEF BatchTold
<1> QED
  BY <1>3, <1>4

(* However a run is stopped early, no more fail past --max-fail than were in
   the pool, and each batch of a scenario that ran to its end is told of once:
   by its own steps, or by the one report of what was not reached. *)
THEOREM StopsCleanlyHolds == Spec => []StopsCleanly
<1>1. Init => FailuresCounted /\ BatchesTold
  <2> SUFFICES ASSUME Init PROVE FailuresCounted /\ BatchesTold
    OBVIOUS
  <2>1. {i \in 1..Len(outcomes) : outcomes[i].status \in {"Failed"}} = {}
    BY DEF Init
  <2>2. FailuresCounted
    BY <2>1, FS_EmptySet, MaxFailAssumption DEF Init, FailuresCounted, CountOf
  <2>3. ASSUME NEW s \in Scenarios PROVE BatchTold(s)
    <3>1. EventsOf(s, "steps") = {} /\ EventsOf(s, "unreached") = {}
      BY DEF Init, EventsOf
    <3>2. processed[s] = 0 /\ ~Ended(s)
      BY DEF Init, Ended
    <3>3. {record[s][i].batch : i \in EventsOf(s, "steps")} = 1..processed[s]
      BY <3>1, <3>2
    <3>4. Cardinality(EventsOf(s, "steps")) = processed[s]
      BY <3>1, <3>2, FS_EmptySet
    <3> QED
      BY <3>1, <3>2, <3>3, <3>4 DEF BatchTold
  <2> QED
    BY <2>2, <2>3 DEF BatchesTold
<1>2. TypeOK /\ Bookkeeping /\ ThreadsTrue /\ (FailuresCounted /\ BatchesTold) /\ [Next]_vars
        => (FailuresCounted /\ BatchesTold)'
  BY FailuresStep, BatchesStep
<1>3. TypeOK /\ ThreadsTrue /\ FailuresCounted /\ BatchesTold => StopsCleanly
  BY BoundFollows, ReportedFollows DEF StopsCleanly
<1> QED
  BY <1>1, <1>2, <1>3, TypeCorrect, BookkeepingHolds, ThreadsTrueHolds, PTL DEF Spec

(***************************************************************************)
(* A run that exits 0                                                      *)
(***************************************************************************)

\* What a thread that is gone has left does not change any more.
LEMMA GoneStays ==
    ASSUME TypeOK, Bookkeeping, [Next]_vars, NEW t \in Scenarios, wpc[t] = "gone"
    PROVE  wpc'[t] = "gone" /\ OutcomeOf(t)' = OutcomeOf(t)
<1>1. wpc'[t] = "gone" /\ flags'[t] = flags[t] /\ fault'[t] = fault[t]
  <2>1. CASE Dispatch \/ (\E u \in Scenarios : Elapse(u)) \/ Interrupt \/ UNCHANGED vars
    <3>1. UNCHANGED localVars
      BY <2>1, DispatchSpawns, OutsideMoves
    <3>2. wpc'[t] = "gone"
      BY <2>1, DispatchSpawns, OutsideMoves, SpawnStarts
    <3> QED
      BY <3>1, <3>2 DEF localVars
  <2>2. ASSUME NEW u \in Scenarios, Thread(u)
        PROVE  wpc'[t] = "gone" /\ flags'[t] = flags[t] /\ fault'[t] = fault[t]
    <3>1. u # t
      BY <2>2, ThreadMoves
    <3> QED
      BY <2>2, <3>1, OthersStay
  <2> QED
    BY <2>1, <2>2 DEF Next, Returned
<1> QED
  BY <1>1 DEF OutcomeOf

\* A cause stands: of a scenario that is settled, nothing it rests on changes.
LEMMA CauseStands ==
    ASSUME TypeOK, Bookkeeping, [Next]_vars, NEW o \in Outcome, o.s \in Settled, Justified(o),
           cancelled => cancelled', abandoned \subseteq abandoned',
           o.s \in abandoned' => o.s \in abandoned
    PROVE  Justified(o)'
<1>0. o.s \in Scenarios
  BY DEF Outcome
<1>1. CASE o.s \in AuthoredSkip /\ o.reason = "authored"
  BY <1>1 DEF Justified
<1>2. CASE o.s \notin abandoned /\ wpc[o.s] = "none" /\ o.status = "Skipped" /\ cancelled
  <2>1. wpc'[o.s] = "none"
    <3>1. CASE FillSpawn
      <4>1. o.s # head
        BY DEF Bookkeeping, SettledOnce, TypeOK
      <4> QED
        BY <1>0, <1>2, <3>1, <4>1, SpawnStarts
    <3>2. CASE Dispatch /\ ~FillSpawn
      BY <1>2, <3>2, DispatchSpawns
    <3>3. CASE (\E u \in Scenarios : Elapse(u)) \/ Interrupt \/ UNCHANGED vars
      BY <1>2, <3>3, OutsideMoves
    <3>4. ASSUME NEW u \in Scenarios, Thread(u) PROVE wpc'[o.s] = "none"
      <4>1. u # o.s
        BY <1>2, <3>4, ThreadMoves
      <4> QED
        BY <1>0, <1>2, <3>4, <4>1, OthersStay
    <3> QED
      BY <3>1, <3>2, <3>3, <3>4 DEF Next, Returned
  <2> QED
    BY <1>2, <2>1 DEF Justified
<1>3. CASE o.s \in abandoned /\ o.fault = "system"
  BY <1>3 DEF Justified
<1>4. CASE o.s \notin abandoned /\ wpc[o.s] = "gone" /\ o = OutcomeOf(o.s)
  <2>1. wpc'[o.s] = "gone" /\ OutcomeOf(o.s)' = OutcomeOf(o.s)
    BY <1>0, <1>4, GoneStays
  <2> QED
    BY <1>4, <2>1 DEF Justified
<1> QED
  BY <1>1, <1>2, <1>3, <1>4 DEF Justified

\* Whoever is given up is settled by it, with a fault of the system; who is
\* settled otherwise has its cause.
LEMMA SettledWithCause ==
    ASSUME TypeOK, Bookkeeping, OutcomesTrue, Dispatch
    PROVE  \/ UNCHANGED <<outcomes, abandoned>>
           \/ \E o \in Outcome : /\ Settle(o) /\ Justified(o)'
                                 /\ o.s \notin Settled
                                 /\ abandoned' \subseteq abandoned \cup {o.s}
<1> DEFINE G == \E o \in Outcome : /\ Settle(o) /\ Justified(o)'
                                   /\ o.s \notin Settled
                                   /\ abandoned' \subseteq abandoned \cup {o.s}
<1>1. ASSUME FillSkip PROVE G
  <2>0. head \in Scenarios /\ head \in AuthoredSkip /\ head \notin Settled
    BY <1>1 DEF FillSkip, SlotFree, TypeOK, Scenarios, Bookkeeping, SettledOnce
  <2>1. PICK o \in Outcome :
          o = [s |-> head, status |-> "Skipped", fault |-> "none", reason |-> "authored"]
    BY <2>0 DEF Outcome, Statuses, Faults, Reasons
  <2>2. o.s = head /\ o.reason = "authored"
    BY <2>1
  <2>3. Settle(o) /\ abandoned' = abandoned
    BY <1>1, <2>1 DEF FillSkip
  <2>4. Justified(o)'
    BY <2>0, <2>2 DEF Justified
  <2> QED
    BY <2>0, <2>2, <2>3, <2>4
<1>2. ASSUME FillCancelled PROVE G
  <2>0. /\ head \in Scenarios /\ head \notin Settled /\ head \notin abandoned
        /\ wpc[head] = "none"
    BY <1>2 DEF FillCancelled, SlotFree, TypeOK, Scenarios, Bookkeeping, SettledOnce,
                ThreadsKnown, OutcomesTrue
  <2>1. PICK o \in Outcome :
          o = [s |-> head, status |-> "Skipped", fault |-> "none", reason |-> "cancelled"]
    BY <2>0 DEF Outcome, Statuses, Faults, Reasons
  <2>2. o.s = head /\ o.status = "Skipped"
    BY <2>1
  <2>3. Settle(o) /\ abandoned' = abandoned /\ wpc' = wpc
    BY <1>2, <2>1 DEF FillCancelled
  <2>4. cancelled'
    BY <1>2, DispatchSpawns DEF FillCancelled, Dispatch
  <2>5. Justified(o)'
    BY <2>0, <2>2, <2>3, <2>4 DEF Justified
  <2> QED
    BY <2>0, <2>2, <2>3, <2>5
<1>3. ASSUME RecvDone PROVE G
  <2>1. PICK o \in Outcome : o = Head(chan).outcome
    BY <1>3, HeadType DEF RecvDone
  <2>2. /\ o.s \in active /\ Settle(o) /\ abandoned' = abandoned
        /\ UNCHANGED <<wpc, localVars>>
    BY <1>3, <2>1 DEF RecvDone
  <2>3. o.s \notin Settled /\ o.s \notin abandoned
    BY <2>2 DEF Bookkeeping, SettledOnce, OutcomesTrue
  <2>4. o = OutcomeOf(o.s) /\ wpc[o.s] = "gone"
    <3>1. chan # <<>> /\ Head(chan).type = "Done"
      BY <1>3 DEF RecvDone
    <3>2. 1 \in 1..Len(chan) /\ Head(chan) = chan[1]
      BY <3>1 DEF TypeOK
    <3>3. Head(chan) \in Sent
      BY <3>2 DEF Sent
    <3> QED
      BY <2>1, <3>1, <3>2, <3>3 DEF OutcomesTrue, Bookkeeping, ThreadsKnown
  <2>5. OutcomeOf(o.s)' = OutcomeOf(o.s)
    BY <2>2 DEF OutcomeOf, localVars
  <2>6. Justified(o)'
    BY <2>2, <2>3, <2>4, <2>5 DEF Justified
  <2> QED
    BY <2>2, <2>3, <2>6
<1>4. ASSUME NEW s \in doomed, Abandon(s) PROVE G
  <2>1. PICK o \in Outcome :
          o = [s |-> s, status |-> "Failed", fault |-> "system", reason |-> "none"]
    BY DEF Outcome, Statuses, Faults, Reasons, TypeOK
  <2>2. o.s = s /\ o.fault = "system" /\ s \notin Settled
    BY <2>1 DEF TypeOK, Bookkeeping, SettledOnce
  <2>3. Settle(o) /\ abandoned' = abandoned \cup {s}
    BY <1>4, <2>1 DEF Abandon
  <2>4. Justified(o)'
    BY <2>2, <2>3 DEF Justified
  <2> QED
    BY <2>2, <2>3, <2>4
<1>5. ASSUME FillSpawn \/ FillDone \/ RecvBatchBegin \/ RecvLateDone \/ RecvTimeout
             \/ EmitRunFinished \/ CloseRun
      PROVE  UNCHANGED <<outcomes, abandoned>>
  BY <1>5 DEF FillSpawn, FillDone, RecvBatchBegin, RecvLateDone, RecvTimeout,
              EmitRunFinished, CloseRun
<1> HIDE DEF G
<1>6. UNCHANGED <<outcomes, abandoned>> \/ G
  BY <1>1, <1>2, <1>3, <1>4, <1>5 DEF Dispatch
<1> QED
  BY <1>6 DEF G

\* The Done messages on their way say what their threads left.
LEMMA DoneStep ==
    ASSUME TypeOK, Bookkeeping, OutcomesTrue, [Next]_vars, NEW m \in Sent', m.type = "Done"
    PROVE  m.outcome = OutcomeOf(m.outcome.s)'
<1>0. chan \in Seq(Message) /\ Len(chan) \in Nat
  BY DEF TypeOK
<1>1. CASE m \in Sent
  <2>1. PICK j \in 1..Len(chan) : m = chan[j]
    BY <1>1 DEF Sent
  <2>2. m \in Message
    BY <1>0, <2>1
  <2>3. m.outcome.s \in Scenarios
    BY <2>2 DEF Message, Outcome
  <2>4. wpc[m.outcome.s] = "gone" /\ m.outcome = OutcomeOf(m.outcome.s)
    BY <1>1, <2>1 DEF Bookkeeping, ThreadsKnown, OutcomesTrue
  <2> QED
    BY <2>3, <2>4, GoneStays
<1>2. ASSUME chan' = chan \/ chan' = <<>> \/ (chan # <<>> /\ chan' = Tail(chan))
      PROVE  m \in Sent
  <2>1. CASE chan' = chan
    BY <2>1 DEF Sent
  <2>2. CASE chan' = <<>>
    BY <2>2 DEF Sent
  <2>3. CASE chan # <<>> /\ chan' = Tail(chan)
    <3>1. \A i \in 1..Len(chan') : i + 1 \in 1..Len(chan) /\ chan'[i] = chan[i + 1]
      BY <1>0, <2>3
    <3> QED
      BY <3>1 DEF Sent
  <2> QED
    BY <1>2, <2>1, <2>2, <2>3
<1>3. ASSUME NEW n, chan' = chan \/ chan' = Append(chan, n)
      PROVE  m \in Sent \/ m = n
  <2>1. CASE chan' = chan
    BY <1>2, <2>1
  <2>2. CASE chan' = Append(chan, n)
    <3>1. \A i \in 1..Len(chan') : chan'[i] = n \/ (i \in 1..Len(chan) /\ chan'[i] = chan[i])
      BY <1>0, <2>2
    <3> QED
      BY <3>1 DEF Sent
  <2> QED
    BY <1>3, <2>1, <2>2
<1>4. CASE Dispatch
  <2>1. chan' = chan \/ chan' = <<>> \/ (chan # <<>> /\ chan' = Tail(chan))
    BY <1>4 DEF Dispatch, FillSkip, FillCancelled, FillSpawn, FillDone, RecvBatchBegin,
       RecvDone, RecvLateDone, RecvTimeout, Abandon, EmitRunFinished, CloseRun
  <2> QED
    BY <1>1, <1>2, <2>1
<1>5. ASSUME NEW s \in Scenarios, Thread(s)
      PROVE  m.outcome = OutcomeOf(m.outcome.s)'
  <2>1. CASE SendDone(s)
    <3>1. PICK n : n = [type |-> "Done", outcome |-> OutcomeOf(s)]
      OBVIOUS
    <3>2. chan' = chan \/ chan' = Append(chan, n)
      BY <2>1, <3>1 DEF SendDone, Send
    <3>3. n.outcome = OutcomeOf(s) /\ n.outcome.s = s
      BY <3>1 DEF OutcomeOf
    <3>4. OutcomeOf(s)' = OutcomeOf(s)
      BY <2>1 DEF SendDone, OutcomeOf, localVars
    <3> QED
      BY <1>1, <1>3, <3>2, <3>3, <3>4
  <2>2. CASE StartBatch(s)
    <3>1. PICK n : n = [type |-> "BatchBegin", s |-> s]
      OBVIOUS
    <3>2. chan' = chan \/ chan' = Append(chan, n)
      BY <2>2, <3>1 DEF StartBatch, Send
    <3>3. n.type # "Done"
      BY <3>1
    <3> QED
      BY <1>1, <1>3, <3>2, <3>3
  <2>3. CASE ~SendDone(s) /\ ~StartBatch(s)
    <3>1. chan' = chan
      BY <1>5, <2>3 DEF Thread, Begin, Prepare, EndBatches, FinishBatch, CutBatch,
                        Merge, Panic
    <3> QED
      BY <1>1, <1>2, <3>1
  <2> QED
    BY <2>1, <2>2, <2>3
<1>6. CASE (\E u \in Scenarios : Elapse(u)) \/ Interrupt \/ UNCHANGED vars
  BY <1>1, <1>2, <1>6, OutsideMoves
<1> QED
  BY <1>4, <1>5, <1>6 DEF Next, Returned

LEMMA OutcomesStep ==
    TypeOK /\ Bookkeeping /\ OutcomesTrue /\ [Next]_vars => OutcomesTrue'
<1> SUFFICES ASSUME TypeOK, Bookkeeping, OutcomesTrue, [Next]_vars
             PROVE  OutcomesTrue'
  OBVIOUS
<1>1. cancelled => cancelled'
  BY DispatchSpawns, OutsideMoves, ThreadCancelsNone DEF Next, Returned
<1>2. ASSUME NEW o \in Given
      PROVE  o \in Outcome /\ o.s \in Settled /\ Justified(o)
  <2>1. \A i \in 1..Len(outcomes) : outcomes[i] \in Outcome
    BY DEF TypeOK
  <2> QED
    BY <1>2, <2>1 DEF Given, Settled, OutcomesTrue
<1>3. CASE UNCHANGED <<outcomes, abandoned>>
  <2>1. Given' = Given /\ Settled' = Settled
    BY <1>3 DEF Given, Settled
  <2>2. \A o \in Given : Justified(o)'
    BY <1>1, <1>2, <1>3, CauseStands
  <2>3. abandoned' \subseteq Settled'
    BY <1>3, <2>1 DEF OutcomesTrue
  <2> QED
    BY <2>1, <2>2, <2>3, DoneStep DEF OutcomesTrue
<1>4. CASE Dispatch /\ ~UNCHANGED <<outcomes, abandoned>>
  <2>1. PICK o \in Outcome : /\ Settle(o) /\ Justified(o)'
                             /\ o.s \notin Settled
                             /\ abandoned' \subseteq abandoned \cup {o.s}
    BY <1>4, SettledWithCause
  <2>2. Settled' = Settled \cup {o.s}
    BY <2>1, Appended DEF TypeOK
  <2>3. Given' = Given \cup {o}
    <3>1. Len(outcomes) \in Nat /\ Len(outcomes') = Len(outcomes) + 1
      BY <2>1, Appended DEF TypeOK
    <3>2. /\ \A i \in 1..Len(outcomes) : outcomes'[i] = outcomes[i]
          /\ outcomes'[Len(outcomes) + 1] = o
      BY <2>1, Appended DEF TypeOK
    <3>3. 1..Len(outcomes') = (1..Len(outcomes)) \cup {Len(outcomes) + 1}
      BY <3>1
    <3> QED
      BY <3>2, <3>3 DEF Given
  <2>4. abandoned \subseteq abandoned'
    BY <1>4, DispatchSpawns
  <2>5. \A g \in Given : Justified(g)'
    BY <1>1, <1>2, <2>1, <2>4, CauseStands
  <2>6. abandoned' \subseteq Settled'
    BY <2>1, <2>2 DEF OutcomesTrue
  <2> QED
    BY <2>1, <2>3, <2>5, <2>6, DoneStep DEF OutcomesTrue
<1>5. ASSUME NEW s \in Scenarios, Thread(s) PROVE UNCHANGED <<outcomes, abandoned>>
  BY <1>5, ThreadMoves DEF dispatcherVars
<1>6. CASE (\E u \in Scenarios : Elapse(u)) \/ Interrupt \/ UNCHANGED vars
  BY <1>3, <1>6, OutsideMoves
<1> QED
  BY <1>3, <1>4, <1>5, <1>6 DEF Next, Returned

\* Once the tail is written, nobody who was not given up is still running.
LEMMA AllGone ==
    ASSUME TypeOK, Bookkeeping, pc \in {"close", "closeGate", "returned"},
           NEW s \in Scenarios \ abandoned
    PROVE  wpc[s] \in {"none", "gone"}
  BY TailMeansAll DEF Bookkeeping, ThreadsKnown, Live

LEMMA TailStep ==
    TypeOK /\ Bookkeeping /\ ThreadsTrue /\ OutcomesTrue /\ TailUncancelled /\ [Next]_vars
        => TailUncancelled'
<1> SUFFICES ASSUME TypeOK, Bookkeeping, ThreadsTrue, OutcomesTrue, TailUncancelled,
                    [Next]_vars, runFinished' # None, ~runFinished'.cancelled,
                    NEW s \in Scenarios, s \notin abandoned'
             PROVE  /\ flags'[s] \cap {"interrupted", "cut"} = {}
                    /\ s \notin AuthoredSkip => wpc'[s] = "gone"
  BY DEF TailUncancelled
<1>1. CASE runFinished # None
  <2>1. UNCHANGED runFinished /\ pc \in {"closeGate", "returned"}
    BY <1>1, RunFinishedOnce DEF Bookkeeping, LoopLeft
  <2>2. s \notin abandoned
    BY DispatchSpawns, OutsideMoves, ThreadCancelsNone DEF Next, Returned
  <2>3. /\ flags[s] \cap {"interrupted", "cut"} = {}
        /\ s \notin AuthoredSkip => wpc[s] = "gone"
    BY <1>1, <2>1, <2>2 DEF TailUncancelled
  <2>4. wpc[s] \in {"none", "gone"}
    BY <2>1, <2>2, AllGone
  <2>5. flags'[s] = flags[s]
    <3>1. CASE Dispatch \/ (\E u \in Scenarios : Elapse(u)) \/ Interrupt \/ UNCHANGED vars
      BY <3>1, DispatchSpawns, OutsideMoves DEF localVars
    <3>2. ASSUME NEW u \in Scenarios, Thread(u) PROVE flags'[s] = flags[s]
      BY <2>4, <3>2, ThreadMoves, OthersStay
    <3> QED
      BY <3>1, <3>2 DEF Next, Returned
  <2> QED
    BY <2>3, <2>5, GoneStays
<1>2. CASE runFinished = None
  <2>1. EmitRunFinished
    <3>1. CASE Dispatch
      BY <1>2, <3>1 DEF Dispatch, FillSkip, FillCancelled, FillSpawn, FillDone,
         RecvBatchBegin, RecvDone, RecvLateDone, RecvTimeout, Abandon, CloseRun,
         FinishScenario, gateVars
    <3>2. ASSUME NEW u \in Scenarios, Thread(u) PROVE FALSE
      BY <1>2, <3>2, ThreadCancelsNone
    <3>3. CASE (\E u \in Scenarios : Elapse(u)) \/ Interrupt \/ UNCHANGED vars
      BY <1>2, <3>3, OutsideMoves DEF gateVars
    <3> QED
      BY <3>1, <3>2, <3>3 DEF Next, Returned
  <2>2. /\ pc = "close" /\ UNCHANGED <<abandoned, wpc, localVars>>
        /\ runFinished' = [passed    |-> CountOf({"Passed", "Warned"}),
                           failed    |-> CountOf({"Failed"}),
                           skipped   |-> CountOf({"Skipped"}),
                           cancelled |-> cancelled]
    BY <2>1 DEF EmitRunFinished, Bookkeeping, LoopLeft
  <2>3. ~cancelled
    BY <2>2
  <2>4. flags'[s] \cap {"interrupted", "cut"} = {}
    BY <2>2, <2>3 DEF ThreadsTrue, ThreadTrue, TokenCancelled, localVars
  <2>5. s \in Settled
    BY <2>2, TailMeansAll
  <2>6. PICK i \in 1..Len(outcomes) : outcomes[i].s = s
    BY <2>5 DEF Settled
  <2>7. Justified(outcomes[i])
    BY DEF OutcomesTrue, Given
  <2> QED
    BY <2>2, <2>3, <2>4, <2>6, <2>7 DEF Justified
<1> QED
  BY <1>1, <1>2

\* What an exit code of 0 says of the outcomes.
LEMMA SuccessMeans ==
    ASSUME ExitCode = "Success", NEW i \in 1..Len(outcomes)
    PROVE  /\ ~runFinished.cancelled
           /\ outcomes[i].fault # "system" /\ outcomes[i].fault # "user"
           /\ outcomes[i].s \notin Quarantined =>
                ~(outcomes[i].fault = "none" /\ outcomes[i].status = "Failed")
  BY DEF ExitCode

(* A run that exits 0 ran everything: each scenario its author did not park
   has a thread that ended, was given up by nobody, went through every batch,
   was cut nowhere and failed nowhere, quarantine aside. *)
THEOREM NoSilentGreenHolds == Spec => []NoSilentGreen
<1>1. Init => OutcomesTrue /\ TailUncancelled
  BY DEF Init, OutcomesTrue, TailUncancelled, Given, Sent
<1>2. TypeOK /\ Bookkeeping /\ ThreadsTrue /\ (OutcomesTrue /\ TailUncancelled) /\ [Next]_vars
        => (OutcomesTrue /\ TailUncancelled)'
  BY OutcomesStep, TailStep
<1>3. TypeOK /\ Bookkeeping /\ ThreadsTrue /\ OutcomesTrue /\ TailUncancelled
        => NoSilentGreen
  <2> SUFFICES ASSUME TypeOK, Bookkeeping, ThreadsTrue, OutcomesTrue, TailUncancelled,
                      pc = "returned", ExitCode = "Success",
                      NEW s \in Scenarios \ AuthoredSkip
               PROVE  /\ wpc[s] = "gone" /\ s \notin abandoned
                      /\ s \notin Quarantined =>
                           /\ flags[s] \subseteq {"warned"}
                           /\ processed[s] = Len(Batches[s])
    BY DEF NoSilentGreen
  <2>1. s \in Settled /\ runFinished # None
    BY TailMeansAll DEF Bookkeeping, LoopLeft
  <2>2. PICK i \in 1..Len(outcomes) : outcomes[i].s = s
    BY <2>1 DEF Settled
  <2>3. ~runFinished.cancelled /\ outcomes[i].fault # "system" /\ outcomes[i].fault # "user"
    BY SuccessMeans
  <2>4. Justified(outcomes[i])
    BY DEF OutcomesTrue, Given
  <2>5. s \notin abandoned
    <3>1. CASE s \in abandoned
      BY <2>2, <2>3, <2>4, <3>1 DEF Justified
    <3> QED
      BY <3>1
  <2>6. wpc[s] = "gone" /\ flags[s] \cap {"interrupted", "cut"} = {}
    BY <2>1, <2>3, <2>5 DEF TailUncancelled
  <2>7. ASSUME s \notin Quarantined
        PROVE  flags[s] \subseteq {"warned"} /\ processed[s] = Len(Batches[s])
    <3>1. outcomes[i] = OutcomeOf(s)
      BY <2>2, <2>4, <2>5, <2>6 DEF Justified
    <3>2. "failed" \notin flags[s]
      <4>1. outcomes[i].fault = fault[s] /\ outcomes[i].status = StatusOf(flags[s])
        BY <3>1 DEF OutcomeOf
      <4>2. outcomes[i].fault = "none"
        BY <2>3, <4>1 DEF TypeOK, Faults
      <4>3. StatusOf(flags[s]) # "Failed"
        BY <2>2, <2>7, <4>1, <4>2, SuccessMeans
      <4> QED
        BY <4>3 DEF StatusOf
    <3>3. ThreadTrue(s) /\ Ended(s)
      BY <2>6 DEF ThreadsTrue, Ended
    <3>4. flags[s] \subseteq {"warned"}
      BY <2>6, <3>2, <3>3 DEF ThreadTrue, Dropped, TypeOK, Flags
    <3>5. processed[s] \in Nat /\ Len(Batches[s]) \in Nat
      BY BatchesType DEF TypeOK
    <3> QED
      BY <2>6, <3>2, <3>3, <3>4, <3>5 DEF ThreadTrue, BatchesLeft
  <2> QED
    BY <2>5, <2>6, <2>7
<1> QED
  BY <1>1, <1>2, <1>3, TypeCorrect, BookkeepingHolds, ThreadsTrueHolds, PTL DEF Spec
=============================================================================
