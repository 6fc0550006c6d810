--------------------------- MODULE RunHistoryProofs ---------------------------
(***************************************************************************)
(* What a green --rerun stands on, and that its two reports agree, for any  *)
(* processes, any suite and any number of runs.                             *)
(***************************************************************************)
EXTENDS RunHistory, FiniteSetTheorems, WellFoundedInduction, TLAPS

USE RunsAssumption

-----------------------------------------------------------------------------
(* What a step changes *)

\* A command that ends forgets everything.
LEMMA LeaveForgets ==
    ASSUME TypeOK, NEW p \in Procs, Leave(p)
    PROVE  /\ at' = [at EXCEPT ![p] = "idle"]
           /\ at'[p] = "idle" /\ own'[p] = 0 /\ rerun'[p] = FALSE /\ base'[p] = NoBase
           /\ todo'[p] = {} /\ cancelled'[p] = FALSE /\ verdict'[p] = "none"
           /\ \A q \in Procs : q # p =>
                 /\ at'[q] = at[q] /\ own'[q] = own[q] /\ rerun'[q] = rerun[q]
                 /\ base'[q] = base[q] /\ todo'[q] = todo[q]
                 /\ cancelled'[q] = cancelled[q] /\ verdict'[q] = verdict[q]
  BY DEF TypeOK, Leave, Goto

LEMMA LeaveTyped ==
    ASSUME TypeOK, NEW p \in Procs, Leave(p)
    PROVE  /\ at' \in [Procs -> {"idle"} \cup Ahead \cup Running]
           /\ own' \in [Procs -> Runs \cup {0}]
           /\ rerun' \in [Procs -> BOOLEAN]
           /\ base' \in [Procs -> Base]
           /\ todo' \in [Procs -> SUBSET Scenarios]
           /\ cancelled' \in [Procs -> BOOLEAN]
           /\ verdict' \in [Procs -> {"none", "red", "green"}]
  <1>1. NoBase \in Base
    BY DEF NoBase, Base, Unheard, Verdicts, Tails
  <1> QED
    BY <1>1 DEF TypeOK, Leave, Goto

\* The process of a step is the only one that moves.
Alone(p) == \A q \in Procs : q # p =>
    /\ at'[q] = at[q] /\ own'[q] = own[q] /\ rerun'[q] = rerun[q]
    /\ base'[q] = base[q] /\ todo'[q] = todo[q]
    /\ cancelled'[q] = cancelled[q] /\ verdict'[q] = verdict[q]

LEMMA CommandIsAlone ==
    ASSUME TypeOK, NEW p \in Procs, Command(p)
    PROVE  Alone(p)
  <1>1. CASE Leave(p)
    BY <1>1, LeaveForgets DEF Alone
  <1>2. CASE \E again \in BOOLEAN : Start(p, again)
    BY <1>2 DEF Alone, Start, Goto, TypeOK
  <1>3. CASE FindBase(p) /\ ~Leave(p)
    BY <1>3 DEF Alone, FindBase, Goto, TypeOK
  <1>4. CASE ReadBase(p) /\ ~Leave(p)
    BY <1>4 DEF Alone, ReadBase, LeaveGreen, Goto, TypeOK
  <1>5. CASE Rotate(p)
    BY <1>5 DEF Alone, Rotate, Goto, TypeOK
  <1>6. CASE Create(p)
    BY <1>6 DEF Alone, Create, Goto, TypeOK
  <1>7. CASE Select(p)
    BY <1>7 DEF Alone, Select, Goto, TypeOK
  <1>8. CASE \E s \in Scenarios, v \in Verdicts : Finish(p, s, v)
    BY <1>8 DEF Alone, Finish, TypeOK
  <1>9. CASE EndSuite(p)
    BY <1>9 DEF Alone, EndSuite, Goto, TypeOK
  <1>10. CASE CloseRecord(p)
    BY <1>10 DEF Alone, CloseRecord, Goto, TypeOK
  <1>11. CASE Cancel(p)
    BY <1>11 DEF Alone, Cancel, TypeOK
  <1>12. Abort(p) \/ NothingMatched(p) \/ Report(p) \/ Kill(p) => Leave(p)
    BY DEF Abort, NothingMatched, EndEarly, Report, LeaveGreen, Kill
  <1> QED
    BY <1>1, <1>2, <1>3, <1>4, <1>5, <1>6, <1>7, <1>8, <1>9, <1>10, <1>11, <1>12 DEF Command

LEMMA TouchKeeps ==
    ASSUME TypeOK, NEW r \in Runs, NEW rec \in Record
    PROVE  /\ Touch(r, rec) \in Record
           /\ Touch(r, rec).onDisk = rec.onDisk /\ Touch(r, rec).verdict = rec.verdict
           /\ Touch(r, rec).tail = rec.tail /\ Touch(r, rec).of = rec.of
  BY DEF Touch, TypeOK, Record

\* What each step does to the records.
LEMMA StartWrites ==
    ASSUME TypeOK, NEW p \in Procs, NEW again \in BOOLEAN, Start(p, again)
    PROVE  /\ records' \in [Runs -> Record]
           /\ \A r \in Runs : /\ records'[r].onDisk = records[r].onDisk
                              /\ records'[r].verdict = records[r].verdict
                              /\ records'[r].tail = records[r].tail
                              /\ records'[r].of = records[r].of
  <1>1. minted + 1 \in Runs /\ clock + 1 \in Nat
    BY DEF TypeOK, Start, Runs
  <1>2. records' = [records EXCEPT ![minted + 1] = [records[minted + 1] EXCEPT !.began = clock + 1]]
    BY <1>1 DEF Start, TypeOK
  <1> QED
    BY <1>1, <1>2 DEF TypeOK, Record

LEMMA RotateWrites ==
    ASSUME TypeOK, NEW p \in Procs, Rotate(p)
    PROVE  /\ records' \in [Runs -> Record]
           /\ \A r \in Runs : /\ records'[r].onDisk => records[r].onDisk
                              /\ records'[r].verdict = records[r].verdict
                              /\ records'[r].tail = records[r].tail
                              /\ records'[r].of = records[r].of
  BY DEF TypeOK, Rotate, Record

LEMMA CreateWrites ==
    ASSUME TypeOK, NEW p \in Procs, Create(p), own[p] \in Runs
    PROVE  /\ records' \in [Runs -> Record]
           /\ \A r \in Runs : r # own[p] => records'[r] = records[r]
           /\ records'[own[p]].onDisk /\ records'[own[p]].of = base[p].of
           /\ records'[own[p]].verdict = records[own[p]].verdict
           /\ records'[own[p]].tail = records[own[p]].tail
  <1> DEFINE r == own[p]
             rec == [records[r] EXCEPT !.onDisk = TRUE, !.of = base[p].of]
  <1>1. base[p].of \in Runs \cup {0} /\ records[r] \in Record
    BY DEF TypeOK, Base
  <1>2. rec \in Record /\ rec.onDisk /\ rec.of = base[p].of
        /\ rec.verdict = records[r].verdict /\ rec.tail = records[r].tail
    BY <1>1 DEF Record
  <1>3. records' = [records EXCEPT ![r] = Touch(r, rec)]
    BY DEF Create, TypeOK
  <1> HIDE DEF rec
  <1>4. Touch(r, rec) \in Record
        /\ Touch(r, rec).onDisk = rec.onDisk /\ Touch(r, rec).verdict = rec.verdict
        /\ Touch(r, rec).tail = rec.tail /\ Touch(r, rec).of = rec.of
    BY <1>2, TouchKeeps
  <1> QED
    BY <1>2, <1>3, <1>4 DEF TypeOK

LEMMA FinishWrites ==
    ASSUME TypeOK, NEW p \in Procs, NEW s \in Scenarios, NEW v \in Verdicts, Finish(p, s, v),
           own[p] \in Runs
    PROVE  /\ records' \in [Runs -> Record]
           /\ \A r \in Runs : r # own[p] => records'[r] = records[r]
           /\ records'[own[p]].onDisk = records[own[p]].onDisk
           /\ records'[own[p]].of = records[own[p]].of
           /\ records'[own[p]].tail = records[own[p]].tail
           /\ records'[own[p]].verdict[s] = v
           /\ \A t \in Scenarios : t # s =>
                 records'[own[p]].verdict[t] = records[own[p]].verdict[t]
  BY DEF TypeOK, Finish, Record

LEMMA TailWrites ==
    ASSUME TypeOK, NEW p \in Procs, own[p] \in Runs,
           records' = [records EXCEPT ![own[p]].tail = TailOf(p)]
    PROVE  /\ records' \in [Runs -> Record]
           /\ \A r \in Runs : r # own[p] => records'[r] = records[r]
           /\ records'[own[p]].onDisk = records[own[p]].onDisk
           /\ records'[own[p]].of = records[own[p]].of
           /\ records'[own[p]].verdict = records[own[p]].verdict
           /\ records'[own[p]].tail = TailOf(p)
           /\ TailOf(p) # "none"
  BY DEF TypeOK, Record, TailOf, Tails

LEMMA ReportWrites ==
    ASSUME TypeOK, NEW p \in Procs, Report(p), own[p] \in Runs
    PROVE  /\ records' \in [Runs -> Record]
           /\ \A r \in Runs : /\ records'[r].onDisk = records[r].onDisk
                              /\ records'[r].verdict = records[r].verdict
                              /\ records'[r].tail = records[r].tail
                              /\ records'[r].of = records[r].of
  <1>1. records' = [records EXCEPT ![own[p]] = Touch(own[p], records[own[p]])]
    BY DEF Report, TypeOK
  <1> QED
    BY <1>1, TouchKeeps DEF TypeOK

-----------------------------------------------------------------------------
(* Types and owners *)

LEMMA InitTyped == Init => TypeOK
  <1> SUFFICES ASSUME Init PROVE TypeOK
    OBVIOUS
  <1>1. NoBase \in Base
    BY DEF NoBase, Base, Unheard, Verdicts, Tails
  <1>2. NoRecord \in Record
    BY DEF NoRecord, Record, Unheard, Verdicts, Tails
  <1> QED
    BY <1>1, <1>2 DEF Init, TypeOK, Tails

LEMMA CommandTyped ==
    ASSUME TypeOK, Owned, BasesTrue, NEW p \in Procs, Command(p)
    PROVE  TypeOK'
  <1>1. ASSUME at[p] # "idle" PROVE own[p] \in Runs
    BY <1>1 DEF Owned, TypeOK, Runs
  <1>2. CASE \E again \in BOOLEAN : Start(p, again)
    <2>1. PICK again \in BOOLEAN : Start(p, again)
      BY <1>2
    <2>2. minted + 1 \in Runs /\ minted + 1 \in 0..MaxRuns /\ clock + 1 \in Nat
      BY <2>1 DEF TypeOK, Start, Runs
    <2> QED
      BY <2>1, <2>2, StartWrites DEF TypeOK, Start, Goto, Ahead
  <1>3. CASE FindBase(p)
    <2>1. CASE Leave(p)
      BY <1>3, <2>1, LeaveTyped DEF FindBase, TypeOK
    <2>2. CASE ~Leave(p)
      <3>1. PICK r \in Runs : base' = [base EXCEPT ![p].of = r] /\ Goto(p, "read")
        BY <1>3, <2>2 DEF FindBase, OnDisk
      <3>2. base' \in [Procs -> Base]
        BY <3>1 DEF TypeOK, Base
      <3>3. at' \in [Procs -> {"idle"} \cup Ahead \cup Running]
        BY <3>1 DEF TypeOK, Goto, Ahead
      <3> QED
        BY <1>3, <2>2, <3>2, <3>3 DEF FindBase, TypeOK
    <2> QED
      BY <2>1, <2>2
  <1>4. CASE ReadBase(p)
    <2>1. CASE Leave(p)
      <3>1. base[p].of \in Runs
        BY <1>4 DEF TypeOK, Base, ReadBase, BasesTrue
      <3>2. green' \subseteq Runs
        BY <1>4, <2>1, <3>1 DEF ReadBase, LeaveGreen, TypeOK
      <3> QED
        BY <1>4, <2>1, <3>2, LeaveTyped DEF ReadBase, TypeOK
    <2>2. CASE ~Leave(p)
      <3> DEFINE b == [of |-> base[p].of, verdict |-> records[base[p].of].verdict,
                       tail |-> records[base[p].of].tail]
      <3>1. b \in Base
        BY <1>4 DEF TypeOK, Base, ReadBase, BasesTrue, Record
      <3>2. base' = [base EXCEPT ![p] = b] /\ Goto(p, "rotate")
            /\ UNCHANGED <<own, rerun, todo, cancelled, verdict, green>>
        BY <1>4, <2>2 DEF ReadBase, LeaveGreen
      <3> HIDE DEF b
      <3> QED
        BY <1>4, <3>1, <3>2 DEF ReadBase, TypeOK, Goto, Ahead
    <2> QED
      BY <2>1, <2>2
  <1>5. CASE Rotate(p)
    BY <1>5, RotateWrites DEF Rotate, TypeOK, Goto, Ahead
  <1>6. CASE Create(p)
    <2>1. own[p] \in Runs /\ records' \in [Runs -> Record]
      BY <1>1, <1>6, CreateWrites DEF Create
    <2>2. base[p].tail \in Tails /\ clock' \in Nat
      BY <1>6 DEF Create, TypeOK, Base, Tick
    <2>3. saw' \in [Runs -> Tails]
      BY <1>6, <2>1, <2>2 DEF Create, TypeOK
    <2> QED
      BY <1>6, <2>1, <2>2, <2>3 DEF Create, TypeOK, Goto, Running
  <1>7. CASE Abort(p) \/ NothingMatched(p)
    BY <1>1, <1>7, TailWrites, LeaveTyped DEF Abort, NothingMatched, EndEarly, TypeOK
  <1>8. CASE Select(p)
    BY <1>8 DEF Select, TypeOK, Goto, Running, Selected
  <1>9. CASE \E s \in Scenarios, v \in Verdicts : Finish(p, s, v)
    <2>1. PICK s \in Scenarios, v \in Verdicts : Finish(p, s, v)
      BY <1>9
    <2>2. own[p] \in Runs
      BY <1>1, <2>1 DEF Finish
    <2>3. records' \in [Runs -> Record]
      BY <2>1, <2>2, FinishWrites
    <2> QED
      BY <2>1, <2>3 DEF Finish, TypeOK
  <1>10. CASE EndSuite(p)
    BY <1>10 DEF EndSuite, TypeOK, Goto, Running
  <1>11. CASE CloseRecord(p)
    BY <1>1, <1>11, TailWrites DEF CloseRecord, TypeOK, Goto, Running
  <1>12. CASE Report(p)
    <2>1. own[p] \in Runs /\ Leave(p)
      BY <1>1, <1>12 DEF Report, LeaveGreen
    <2>2. records' \in [Runs -> Record]
      BY <1>12, <2>1, ReportWrites
    <2>3. clock' \in Nat /\ green' \subseteq Runs
      BY <1>12, <2>1 DEF Report, LeaveGreen, TypeOK, Tick
    <2> QED
      BY <1>12, <2>1, <2>2, <2>3, LeaveTyped DEF Report, TypeOK
  <1>13. CASE Cancel(p)
    BY <1>13 DEF Cancel, TypeOK
  <1>14. CASE Kill(p)
    BY <1>14, LeaveTyped DEF Kill, TypeOK
  <1> QED
    BY <1>2, <1>3, <1>4, <1>5, <1>6, <1>7, <1>8, <1>9, <1>10, <1>11, <1>12, <1>13, <1>14
    DEF Command

-----------------------------------------------------------------------------
(* What a record says stays said *)

\* A record says the same after the step, and is not on disk unless it was.
Same(r) ==
    /\ records'[r].onDisk => records[r].onDisk
    /\ records'[r].verdict = records[r].verdict
    /\ records'[r].tail = records[r].tail
    /\ records'[r].of = records[r].of
    /\ saw'[r] = saw[r]

\* What it has said stays.
Stays(r) ==
    /\ records[r].tail # "none" =>
          /\ records'[r].tail = records[r].tail
          /\ records'[r].verdict = records[r].verdict
          /\ saw'[r] = saw[r]
    /\ \A s \in Scenarios :
          records[r].verdict[s] # "none" => records'[r].verdict[s] = records[r].verdict[s]
    /\ records[r].of # 0 => records'[r].of = records[r].of

LEMMA SameStays ==
    ASSUME NEW r, Same(r)
    PROVE  Stays(r)
  BY DEF Same, Stays

\* The steps that write nothing that is about a verdict, a tail or a base.
LEMMA NothingSaid ==
    ASSUME TypeOK, NEW p \in Procs, Command(p),
           ~Create(p), ~Abort(p), ~NothingMatched(p), ~CloseRecord(p),
           ~(\E s \in Scenarios, v \in Verdicts : Finish(p, s, v)),
           at[p] # "idle" => own[p] \in Runs
    PROVE  \A r \in Runs : Same(r)
  <1>1. CASE \E again \in BOOLEAN : Start(p, again)
    <2>1. PICK again \in BOOLEAN : Start(p, again)
      BY <1>1
    <2>2. saw' = saw
      BY <2>1 DEF Start
    <2> QED
      BY <2>1, <2>2, StartWrites DEF Same
  <1>2. CASE FindBase(p)
    BY <1>2 DEF FindBase, Same
  <1>3. CASE ReadBase(p)
    BY <1>3 DEF ReadBase, Same
  <1>4. CASE Rotate(p)
    <2>1. saw' = saw
      BY <1>4 DEF Rotate
    <2> QED
      BY <1>4, <2>1, RotateWrites DEF Same
  <1>5. CASE Select(p)
    BY <1>5 DEF Select, Same
  <1>6. CASE EndSuite(p)
    BY <1>6 DEF EndSuite, Same
  <1>7. CASE Report(p)
    <2>1. saw' = saw /\ own[p] \in Runs
      BY <1>7 DEF Report
    <2> QED
      BY <1>7, <2>1, ReportWrites DEF Same
  <1>8. CASE Cancel(p)
    BY <1>8 DEF Cancel, Same
  <1>9. CASE Kill(p)
    BY <1>9 DEF Kill, Same
  <1> QED
    BY <1>1, <1>2, <1>3, <1>4, <1>5, <1>6, <1>7, <1>8, <1>9 DEF Command

LEMMA OwnedRun ==
    ASSUME TypeOK, Owned, NEW p \in Procs, at[p] # "idle"
    PROVE  own[p] \in Runs
  BY DEF TypeOK, Owned, Runs

\* A command writes to its own record only.
LEMMA OthersSame ==
    ASSUME TypeOK, Owned, NEW p \in Procs, Command(p), NEW r \in Runs, r # own[p]
    PROVE  Same(r)
  <1>1. CASE Create(p)
    <2>1. own[p] \in Runs
      BY <1>1, OwnedRun DEF Create
    <2>2. records'[r] = records[r]
      BY <1>1, <2>1, CreateWrites
    <2>3. saw'[r] = saw[r]
      BY <1>1 DEF Create, TypeOK
    <2> QED
      BY <2>2, <2>3 DEF Same
  <1>2. CASE Abort(p) \/ NothingMatched(p) \/ CloseRecord(p)
    <2>1. own[p] \in Runs
      BY <1>2, OwnedRun DEF Abort, NothingMatched, CloseRecord
    <2>2. records' = [records EXCEPT ![own[p]].tail = TailOf(p)] /\ saw' = saw
      BY <1>2 DEF Abort, NothingMatched, CloseRecord, EndEarly
    <2>3. records'[r] = records[r]
      BY <2>1, <2>2, TailWrites
    <2> QED
      BY <2>2, <2>3 DEF Same
  <1>3. CASE \E s \in Scenarios, v \in Verdicts : Finish(p, s, v)
    <2>1. PICK s \in Scenarios, v \in Verdicts : Finish(p, s, v)
      BY <1>3
    <2>2. own[p] \in Runs /\ saw' = saw
      BY <2>1, OwnedRun DEF Finish
    <2>3. records'[r] = records[r]
      BY <2>1, <2>2, FinishWrites
    <2> QED
      BY <2>2, <2>3 DEF Same
  <1> QED
    BY <1>1, <1>2, <1>3, NothingSaid, OwnedRun

\* Its own record, too, keeps what it has said.
LEMMA RecordsStay ==
    ASSUME TypeOK, Owned, TailsTrue, RunsTrue, NEW p \in Procs, Command(p), NEW r \in Runs
    PROVE  Stays(r)
  <1>1. CASE r # own[p]
    BY <1>1, OthersSame, SameStays
  <1>2. CASE r = own[p] /\ Create(p)
    <2>1. Fresh(r)
      BY <1>2 DEF Create, Owned, Ahead
    <2>2. records'[r].verdict = records[r].verdict
      BY <1>2, CreateWrites
    <2> QED
      BY <2>1, <2>2 DEF Fresh, Stays
  <1>3. CASE r = own[p] /\ (Abort(p) \/ NothingMatched(p) \/ CloseRecord(p))
    <2>1. records' = [records EXCEPT ![own[p]].tail = TailOf(p)]
      BY <1>3 DEF Abort, NothingMatched, CloseRecord, EndEarly
    <2>2. records[r].tail = "none"
      BY <1>3 DEF Abort, NothingMatched, CloseRecord, TailsTrue
    <2>3. records'[r].verdict = records[r].verdict /\ records'[r].of = records[r].of
      BY <1>3, <2>1, TailWrites
    <2> QED
      BY <2>2, <2>3 DEF Stays
  <1>4. CASE r = own[p] /\ \E s \in Scenarios, v \in Verdicts : Finish(p, s, v)
    <2>1. PICK s \in Scenarios, v \in Verdicts : Finish(p, s, v)
      BY <1>4
    <2>2. records[r].tail = "none" /\ records[r].verdict[s] = "none"
      BY <1>4, <2>1 DEF Finish, TailsTrue, RunsTrue, RunTrue
    <2>3. /\ records'[r].of = records[r].of
          /\ \A t \in Scenarios : t # s => records'[r].verdict[t] = records[r].verdict[t]
      BY <1>4, <2>1, FinishWrites
    <2> QED
      BY <2>2, <2>3 DEF Stays
  <1>5. ASSUME r = own[p], ~Create(p), ~Abort(p), ~NothingMatched(p), ~CloseRecord(p),
               ~(\E s \in Scenarios, v \in Verdicts : Finish(p, s, v))
        PROVE  Stays(r)
    <2>1. Same(r)
      BY <1>5, NothingSaid
    <2> QED
      BY <2>1, SameStays
  <1> QED
    BY <1>1, <1>2, <1>3, <1>4, <1>5

-----------------------------------------------------------------------------
(* Every process has a run of its own *)

\* Where the command of a step leads.
LEMMA CommandGoes ==
    ASSUME TypeOK, NEW p \in Procs, Command(p)
    PROVE  \/ at'[p] = "idle" /\ own'[p] = 0 /\ minted' = minted
           \/ /\ at[p] = "idle" /\ at'[p] \in {"find", "rotate"}
              /\ minted < MaxRuns /\ minted' = minted + 1 /\ own'[p] = minted + 1
           \/ /\ at[p] # "idle" /\ own'[p] = own[p] /\ minted' = minted
              /\ at'[p] # "idle"
              /\ at'[p] \in Ahead =>
                    /\ at[p] \in Ahead /\ ~Create(p) /\ ~Abort(p) /\ ~NothingMatched(p)
                    /\ ~CloseRecord(p)
                    /\ ~(\E s \in Scenarios, v \in Verdicts : Finish(p, s, v))
  <1>1. CASE Leave(p)
    <2>1. minted' = minted
      BY <1>1, LeaveForgets DEF Command, Start, Goto, FindBase, ReadBase, Rotate, Create, Abort,
         NothingMatched, EndEarly, Select, Finish, EndSuite, CloseRecord, Report, Cancel, Kill,
         TypeOK
    <2> QED
      BY <1>1, <2>1, LeaveForgets
  <1>2. CASE \E again \in BOOLEAN : Start(p, again)
    BY <1>2 DEF Start, Goto, TypeOK
  <1>3. CASE FindBase(p) /\ ~Leave(p)
    BY <1>3 DEF FindBase, Goto, TypeOK, Ahead, Create, Abort, NothingMatched, CloseRecord, Finish
  <1>4. CASE ReadBase(p) /\ ~Leave(p)
    BY <1>4 DEF ReadBase, LeaveGreen, Goto, TypeOK, Ahead, Create, Abort, NothingMatched,
       CloseRecord, Finish
  <1>5. CASE Rotate(p)
    BY <1>5 DEF Rotate, Goto, TypeOK, Ahead, Create, Abort, NothingMatched, CloseRecord, Finish
  <1>6. CASE Create(p)
    BY <1>6 DEF Create, Goto, TypeOK, Ahead
  <1>7. CASE Select(p)
    BY <1>7 DEF Select, Goto, TypeOK, Ahead
  <1>8. CASE \E s \in Scenarios, v \in Verdicts : Finish(p, s, v)
    BY <1>8 DEF Finish, Ahead
  <1>9. CASE EndSuite(p)
    BY <1>9 DEF EndSuite, Goto, TypeOK, Ahead
  <1>10. CASE CloseRecord(p)
    BY <1>10 DEF CloseRecord, Goto, TypeOK, Ahead
  <1>11. CASE Cancel(p)
    BY <1>11 DEF Cancel, Ahead
  <1>12. Abort(p) \/ NothingMatched(p) \/ Report(p) \/ Kill(p) => Leave(p)
    BY DEF Abort, NothingMatched, EndEarly, Report, LeaveGreen, Kill
  <1> QED
    BY <1>1, <1>2, <1>3, <1>4, <1>5, <1>6, <1>7, <1>8, <1>9, <1>10, <1>11, <1>12 DEF Command

LEMMA CommandOwned ==
    ASSUME TypeOK, Owned, TypeOK', NEW p \in Procs, Command(p)
    PROVE  Owned'
  <1> USE CommandIsAlone DEF Alone
  <1>1. minted \in Nat /\ minted' \in Nat /\ minted <= minted'
        /\ (\A q \in Procs : own[q] \in Int /\ own'[q] \in Int)
    BY CommandGoes DEF TypeOK, Runs
  <1>2. \A q \in Procs : at[q] # "idle" => own[q] \in 1..minted
    BY DEF Owned
  <1>3. \A q \in Procs : at[q] = "idle" => own[q] = 0
    BY DEF Owned
  <1>4. \A q \in Procs : (at'[q] = "idle" => own'[q] = 0)
                      /\ (at'[q] # "idle" => own'[q] \in 1..minted')
    BY <1>1, <1>2, <1>3, CommandGoes
  <1>5. \A q \in Procs : own[q] <= minted
    BY <1>1, <1>2, <1>3
  <1>6. ASSUME NEW q1 \in Procs, NEW q2 \in Procs, own'[q1] = own'[q2], own'[q1] # 0
        PROVE  q1 = q2
    BY <1>1, <1>5, <1>6, CommandGoes DEF Owned
  <1>7. ASSUME NEW r \in Runs, r > minted' PROVE Fresh(r)'
    <2>1. r > minted /\ r # own[p]
      BY <1>1, <1>5, <1>7 DEF Runs
    <2>2. Fresh(r) /\ Same(r)
      BY <2>1, OthersSame DEF Owned
    <2> QED
      BY <2>2 DEF Fresh, Same
  <1>8. ASSUME NEW q \in Procs, at'[q] \in Ahead PROVE Fresh(own[q])'
    <2>1. at'[q] # "idle" /\ own'[q] \in Runs
      BY <1>4, <1>8 DEF Ahead, TypeOK, Runs
    <2>2. CASE q # p
      <3>1. at[q] \in Ahead /\ own[q] = own'[q] /\ own[q] # own[p]
        BY <1>8, <2>1, <2>2 DEF Owned, Runs
      <3>2. Fresh(own[q]) /\ Same(own[q])
        BY <2>1, <3>1, OthersSame DEF Owned
      <3> QED
        BY <3>1, <3>2 DEF Fresh, Same
    <2>3. CASE q = p /\ at[p] = "idle"
      <3>1. own'[p] = minted + 1
        BY <2>1, <2>3, CommandGoes
      <3>2. Fresh(own'[p]) /\ own'[p] # own[p]
        BY <1>1, <1>3, <2>1, <2>3, <3>1 DEF Owned, Runs
      <3>3. Same(own'[p])
        BY <2>1, <2>3, <3>2, OthersSame
      <3> QED
        BY <2>3, <3>2, <3>3 DEF Fresh, Same
    <2>4. CASE q = p /\ at[p] # "idle"
      <3>1. own'[p] = own[p] /\ at[p] \in Ahead /\ ~Create(p) /\ ~Abort(p) /\ ~NothingMatched(p)
            /\ ~CloseRecord(p) /\ ~(\E s \in Scenarios, v \in Verdicts : Finish(p, s, v))
        BY <1>8, <2>1, <2>4, CommandGoes
      <3>2. Fresh(own[p]) /\ Same(own[p])
        BY <2>1, <2>4, <3>1, NothingSaid DEF Owned
      <3> QED
        BY <2>4, <3>1, <3>2 DEF Fresh, Same
    <2> QED
      BY <2>2, <2>3, <2>4
  <1> QED
    BY <1>4, <1>6, <1>7, <1>8 DEF Owned

-----------------------------------------------------------------------------
(* What a rerun knows of its base *)

LEMMA AsReadStays ==
    ASSUME NEW b \in Base, AsRead(b), \A r \in Runs : Stays(r)
    PROVE  AsRead(b)'
  <1>1. b.of \in Runs /\ Stays(b.of) /\ b.tail \in Tails
    BY DEF Base, AsRead
  <1> QED
    BY <1>1 DEF AsRead, Stays

LEMMA CommandBased ==
    ASSUME TypeOK, Owned, BasesTrue, TailsTrue, RunsTrue, TypeOK', NEW p \in Procs, Command(p)
    PROVE  BasesTrue'
  <1> DEFINE Fine(q) == /\ at[q] = "idle" => ~rerun[q]
                        /\ at[q] \in {"find", "read"} => rerun[q]
                        /\ ~rerun[q] => base[q] = NoBase
                        /\ at[q] = "read" => base[q].of # 0
                        /\ rerun[q] /\ at[q] \in {"rotate", "create"} \cup Running => AsRead(base[q])
  <1>1. \A r \in Runs : Stays(r)
    BY RecordsStay
  <1>2. ASSUME NEW q \in Procs, base'[q] = base[q], AsRead(base[q]) PROVE AsRead(base[q])'
    <2>1. PICK b \in Base : b = base[q]
      BY DEF TypeOK
    <2>2. AsRead(b)'
      BY <1>1, <1>2, <2>1, AsReadStays
    <2> QED
      BY <1>2, <2>1, <2>2 DEF AsRead
  <1>3. \A q \in Procs : Fine(q)
    BY DEF BasesTrue
  <1>4. ASSUME NEW q \in Procs, q # p PROVE Fine(q)'
    <2>1. at'[q] = at[q] /\ rerun'[q] = rerun[q] /\ base'[q] = base[q]
      BY <1>4, CommandIsAlone DEF Alone
    <2> QED
      BY <1>2, <1>3, <2>1
  <1>5. Fine(p)'
    <2>1. CASE Leave(p)
      BY <2>1, LeaveForgets DEF Running
    <2>2. CASE \E again \in BOOLEAN : Start(p, again)
      BY <1>3, <2>2 DEF Start, Goto, TypeOK, Running
    <2>3. CASE FindBase(p) /\ ~Leave(p)
      <3>1. PICK r \in Runs : base' = [base EXCEPT ![p].of = r]
        BY <2>3 DEF FindBase, OnDisk
      <3>2. base'[p].of # 0
        BY <3>1 DEF TypeOK, Base, Runs
      <3> QED
        BY <1>3, <2>3, <3>2 DEF FindBase, Goto, TypeOK, Running
    <2>4. CASE ReadBase(p) /\ ~Leave(p)
      <3> DEFINE b == [of |-> base[p].of, verdict |-> records[base[p].of].verdict,
                       tail |-> records[base[p].of].tail]
      <3>1. base' = [base EXCEPT ![p] = b] /\ Goto(p, "rotate") /\ rerun' = rerun
            /\ records' = records /\ at[p] = "read"
        BY <2>4 DEF ReadBase, LeaveGreen
      <3>2. base'[p] = b /\ at'[p] = "rotate"
        BY <3>1 DEF Goto, TypeOK
      <3>3. b.of # 0 /\ b.verdict = records[b.of].verdict /\ b.tail = records[b.of].tail
        BY <1>3, <3>1
      <3> HIDE DEF b
      <3>4. AsRead(base[p])'
        BY <3>1, <3>2, <3>3 DEF AsRead
      <3> QED
        BY <1>3, <3>1, <3>2, <3>4
    <2>5. CASE Rotate(p) \/ Create(p) \/ Select(p) \/ EndSuite(p) \/ CloseRecord(p) \/ Cancel(p)
               \/ \E s \in Scenarios, v \in Verdicts : Finish(p, s, v)
      <3>1. /\ rerun'[p] = rerun[p] /\ base'[p] = base[p]
            /\ at[p] \in {"rotate", "create"} \cup Running
            /\ at'[p] \in {"rotate", "create"} \cup Running
        BY <2>5 DEF Rotate, Create, Select, EndSuite, CloseRecord, Cancel, Finish, Goto, TypeOK,
           Running
      <3>2. at'[p] \notin {"idle", "find", "read"}
        BY <3>1 DEF Running
      <3> QED
        BY <1>2, <1>3, <3>1, <3>2
    <2>6. Abort(p) \/ NothingMatched(p) \/ Report(p) \/ Kill(p) => Leave(p)
      BY DEF Abort, NothingMatched, EndEarly, Report, LeaveGreen, Kill
    <2> QED
      BY <2>1, <2>2, <2>3, <2>4, <2>5, <2>6 DEF Command
  <1> QED
    BY <1>4, <1>5 DEF BasesTrue

-----------------------------------------------------------------------------
(* Tails *)

\* A command that has left the step before, or is before its record, has no record
\* to answer for.
LEMMA OtherRunSame ==
    ASSUME TypeOK, Owned, NEW p \in Procs, Command(p), NEW q \in Procs, q # p, at[q] # "idle"
    PROVE  own[q] \in Runs /\ own[q] # own[p] /\ Same(own[q])
  <1>1. own[q] \in Runs
    BY OwnedRun
  <1>2. own[q] # own[p]
    BY <1>1 DEF Owned, Runs
  <1> QED
    BY <1>1, <1>2, OthersSame

LEMMA CommandTails ==
    ASSUME TypeOK, Owned, TailsTrue, RunsTrue, TypeOK', NEW p \in Procs, Command(p)
    PROVE  TailsTrue'
  <1> DEFINE Closes == Abort(p) \/ NothingMatched(p) \/ CloseRecord(p)
             Finishes == \E s \in Scenarios, v \in Verdicts : Finish(p, s, v)
  <1>1. ASSUME NEW q \in Procs, q # p
        PROVE  /\ at'[q] \in {"setup", "suite", "close"} => records'[own'[q]].tail = "none"
               /\ at'[q] = "report" => records'[own'[q]].tail # "none"
    <2>1. at'[q] = at[q] /\ own'[q] = own[q]
      BY <1>1, CommandIsAlone DEF Alone
    <2> QED
      BY <1>1, <2>1, OtherRunSame DEF TailsTrue, Same
  <1>2. CASE Create(p)
    <2>1. own[p] \in Runs /\ Fresh(own[p]) /\ own'[p] = own[p] /\ at'[p] = "setup"
      BY <1>2, OwnedRun DEF Create, Owned, Ahead, Goto, TypeOK
    <2>2. records'[own[p]].tail = "none"
      BY <1>2, <2>1, CreateWrites DEF Fresh
    <2>3. \A r \in Runs : r # own[p] => records'[r] = records[r]
      BY <1>2, <2>1, CreateWrites
    <2> QED
      BY <1>1, <2>1, <2>2, <2>3 DEF TailsTrue
  <1>3. CASE Closes
    <2>1. /\ own[p] \in Runs /\ records' = [records EXCEPT ![own[p]].tail = TailOf(p)]
          /\ at[p] \in {"setup", "close"}
      BY <1>3, OwnedRun DEF Abort, NothingMatched, CloseRecord, EndEarly
    <2>2. /\ \A r \in Runs : r # own[p] => records'[r] = records[r]
          /\ records'[own[p]].verdict = records[own[p]].verdict
          /\ records'[own[p]].tail = TailOf(p) /\ TailOf(p) # "none"
      BY <2>1, TailWrites
    <2>3. at'[p] = "idle" \/ (at'[p] = "report" /\ own'[p] = own[p])
      BY <1>3, LeaveForgets DEF Abort, NothingMatched, CloseRecord, EndEarly, Goto, TypeOK
    <2>4. TailOf(p) = "Completed" =>
            \A s \in Scenarios : records[own[p]].verdict[s] # "Skipped"
      <3>1. RunTrue(p)
        BY DEF RunsTrue
      <3>2. CASE at[p] = "setup"
        BY <3>1, <3>2 DEF RunTrue
      <3>3. CASE at[p] = "close"
        <4>1. ASSUME NEW s \in Scenarios, records[own[p]].verdict[s] = "Skipped"
              PROVE  cancelled[p]
          BY <3>1, <3>3, <4>1 DEF RunTrue
        <4>2. cancelled[p] => TailOf(p) # "Completed"
          BY DEF TailOf
        <4> QED
          BY <4>1, <4>2
      <3> QED
        BY <2>1, <3>2, <3>3
    <2> QED
      BY <1>1, <2>1, <2>2, <2>3, <2>4 DEF TailsTrue
  <1>4. CASE Finishes
    <2>1. PICK s \in Scenarios, v \in Verdicts : Finish(p, s, v)
      BY <1>4
    <2>2. /\ own[p] \in Runs /\ own'[p] = own[p] /\ at[p] = "suite" /\ at'[p] = "suite"
          /\ records[own[p]].tail = "none"
      BY <2>1, OwnedRun DEF Finish, TailsTrue
    <2>3. /\ \A r \in Runs : r # own[p] => records'[r] = records[r]
          /\ records'[own[p]].tail = records[own[p]].tail
      BY <2>1, <2>2, FinishWrites
    <2> QED
      BY <1>1, <2>2, <2>3 DEF TailsTrue
  <1>5. CASE ~Create(p) /\ ~Closes /\ ~Finishes
    <2>1. \A r \in Runs : Same(r)
      BY <1>5, NothingSaid, OwnedRun
    <2>2. CASE Leave(p)
      <3>1. at'[p] = "idle"
        BY <2>2, LeaveForgets
      <3>2. \A r \in Runs : records'[r].tail = records[r].tail
                           /\ records'[r].verdict = records[r].verdict
        BY <2>1 DEF Same
      <3> QED
        BY <1>1, <3>1, <3>2 DEF TailsTrue
    <2>3. CASE ~Leave(p)
      <3>1. \/ at'[p] \in Ahead
            \/ at[p] # "idle" /\ own'[p] = own[p] /\ at'[p] = at[p]
            \/ at[p] \in {"setup", "suite"} /\ own'[p] = own[p] /\ at'[p] \in {"suite", "close"}
        BY <1>5, <2>3 DEF Command, Start, FindBase, ReadBase, LeaveGreen, Rotate, Select, EndSuite,
           Report, Cancel, Kill, Goto, TypeOK, Ahead
      <3>2. at'[p] \in {"setup", "suite", "close", "report"} => own[p] \in Runs
        BY <3>1, OwnedRun DEF Ahead
      <3> QED
        BY <1>1, <2>1, <3>1, <3>2 DEF TailsTrue, Same, Ahead
    <2> QED
      BY <2>2, <2>3
  <1> QED
    BY <1>2, <1>3, <1>4, <1>5

-----------------------------------------------------------------------------
(* A command's own record *)

LEMMA CommandRuns ==
    ASSUME TypeOK, Owned, TailsTrue, RunsTrue, TypeOK', NEW p \in Procs, Command(p)
    PROVE  RunsTrue'
  <1>1. ASSUME NEW q \in Procs, q # p PROVE RunTrue(q)'
    <2>1. /\ at'[q] = at[q] /\ own'[q] = own[q] /\ rerun'[q] = rerun[q] /\ base'[q] = base[q]
          /\ todo'[q] = todo[q] /\ cancelled'[q] = cancelled[q] /\ verdict'[q] = verdict[q]
      BY <1>1, CommandIsAlone DEF Alone
    <2>2. Selected(q)' = Selected(q)
      BY <2>1 DEF Selected
    <2>3. CASE at[q] = "idle"
      BY <2>1, <2>3 DEF RunTrue, Running
    <2>4. CASE at[q] # "idle"
      <3>1. own[q] \in Runs /\ Same(own[q])
        BY <1>1, <2>4, OtherRunSame
      <3>2. RunTrue(q)
        BY DEF RunsTrue
      <3> HIDE DEF Selected
      <3> QED
        BY <2>1, <2>2, <3>1, <3>2 DEF RunTrue, Same
    <2> QED
      BY <2>3, <2>4
  <1>2. RunTrue(p)'
    <2> RunTrue(p)
      BY DEF RunsTrue
    <2>1. CASE Leave(p) \/ at'[p] \in Ahead
      <3>1. at'[p] \notin Running
        BY <2>1, LeaveForgets DEF Ahead, Running
      <3> QED
        BY <3>1 DEF RunTrue, Running
    <2>2. CASE Create(p)
      <3>1. own[p] \in Runs /\ Fresh(own[p]) /\ own'[p] = own[p] /\ at'[p] = "setup"
            /\ base'[p] = base[p] /\ saw'[own[p]] = base[p].tail
        BY <2>2, OwnedRun DEF Create, Owned, Ahead, Goto, TypeOK
      <3>2. /\ records'[own[p]].of = base[p].of
            /\ \A s \in Scenarios : records'[own[p]].verdict[s] = "none"
        BY <2>2, <3>1, CreateWrites DEF Fresh
      <3> QED
        BY <3>1, <3>2 DEF RunTrue
    <2>3. CASE CloseRecord(p)
      <3>1. /\ own[p] \in Runs /\ records' = [records EXCEPT ![own[p]].tail = TailOf(p)]
            /\ saw' = saw
            /\ own'[p] = own[p] /\ base'[p] = base[p] /\ rerun'[p] = rerun[p]
            /\ verdict'[p] = verdict[p] /\ at[p] = "close" /\ at'[p] = "report"
        BY <2>3, OwnedRun DEF CloseRecord, Goto, TypeOK
      <3>2. /\ records'[own[p]].verdict = records[own[p]].verdict
            /\ records'[own[p]].of = records[own[p]].of
        BY <3>1, TailWrites
      <3>3. Selected(p)' = Selected(p)
        BY <3>1 DEF Selected
      <3> QED
        BY <3>1, <3>2, <3>3 DEF RunTrue, Running
    <2>4. CASE \E s \in Scenarios, v \in Verdicts : Finish(p, s, v)
      <3>1. PICK s \in Scenarios, v \in Verdicts : Finish(p, s, v)
        BY <2>4
      <3>2. /\ own[p] \in Runs /\ saw' = saw
            /\ own'[p] = own[p] /\ base'[p] = base[p] /\ rerun'[p] = rerun[p]
            /\ cancelled'[p] = cancelled[p] /\ at[p] = "suite" /\ at'[p] = "suite"
            /\ s \in todo[p] /\ todo'[p] = todo[p] \ {s}
            /\ v # "none" /\ (v = "Skipped" => cancelled[p])
        BY <3>1, OwnedRun DEF Finish, TypeOK, Outcomes
      <3>3. /\ records'[own[p]].of = records[own[p]].of
            /\ records'[own[p]].verdict[s] = v
            /\ \A t \in Scenarios : t # s =>
                 records'[own[p]].verdict[t] = records[own[p]].verdict[t]
        BY <3>1, <3>2, FinishWrites
      <3>4. Selected(p)' = Selected(p) /\ Selected(p) \subseteq Scenarios
        BY <3>2 DEF Selected
      <3>5. PICK S \in SUBSET Scenarios : S = Selected(p)
        BY <3>4
      <3> QED
        BY <3>2, <3>3, <3>4, <3>5 DEF RunTrue, Running
    <2>5. CASE Select(p)
      <3>1. /\ own[p] \in Runs /\ saw' = saw /\ records' = records
            /\ own'[p] = own[p] /\ base'[p] = base[p] /\ rerun'[p] = rerun[p]
            /\ at[p] = "setup" /\ at'[p] = "suite" /\ todo'[p] = Selected(p) /\ Selected(p) # {}
        BY <2>5, OwnedRun DEF Select, Goto, TypeOK
      <3>2. Selected(p)' = Selected(p)
        BY <3>1 DEF Selected
      <3>3. \A s \in Scenarios : records[own[p]].verdict[s] = "none"
        BY <3>1 DEF RunTrue
      <3>4. Selected(p) \subseteq Scenarios
        BY DEF Selected
      <3> QED
        BY <3>1, <3>2, <3>3, <3>4 DEF RunTrue, Running
    <2>6. CASE EndSuite(p)
      <3> DEFINE red == cancelled[p] \/ \E s \in Scenarios : records[own[p]].verdict[s] = "Failed"
      <3>1. /\ own[p] \in Runs /\ saw' = saw /\ records' = records
            /\ own'[p] = own[p] /\ base'[p] = base[p] /\ rerun'[p] = rerun[p]
            /\ cancelled'[p] = cancelled[p]
            /\ at[p] = "suite" /\ at'[p] = "close" /\ todo[p] = {}
        BY <2>6, OwnedRun DEF EndSuite, Goto, TypeOK
      <3>2. verdict'[p] = "green" => ~red
        BY <2>6 DEF EndSuite, TypeOK
      <3>3. Selected(p)' = Selected(p) /\ Selected(p) \subseteq Scenarios
        BY <3>1 DEF Selected
      <3>4. \A s \in Scenarios : records[own[p]].verdict[s] = "Skipped" => cancelled[p]
        BY <3>1 DEF RunTrue
      <3>5. verdict'[p] = "green" =>
              \A s \in Scenarios : records[own[p]].verdict[s] \in {"none", "Passed"}
        BY <3>1, <3>2, <3>4 DEF TypeOK, Record, Verdicts
      <3> HIDE DEF red
      <3> QED
        BY <3>1, <3>3, <3>5 DEF RunTrue, Running
    <2>7. CASE Cancel(p)
      <3>1. /\ own[p] \in Runs /\ saw' = saw /\ records' = records
            /\ own'[p] = own[p] /\ base'[p] = base[p] /\ rerun'[p] = rerun[p]
            /\ todo'[p] = todo[p] /\ cancelled'[p] = TRUE /\ verdict'[p] = verdict[p]
            /\ at'[p] = at[p]
        BY <2>7, OwnedRun DEF Cancel, TypeOK
      <3>2. Selected(p)' = Selected(p)
        BY <3>1 DEF Selected
      <3> QED
        BY <3>1, <3>2 DEF RunTrue, Running
    <2>8. \/ Leave(p) \/ at'[p] \in Ahead \/ Create(p) \/ CloseRecord(p) \/ Select(p) \/ EndSuite(p)
          \/ Cancel(p) \/ \E s \in Scenarios, v \in Verdicts : Finish(p, s, v)
      BY DEF Command, Start, FindBase, ReadBase, LeaveGreen, Rotate, Abort, NothingMatched,
         EndEarly, Report, Kill, Goto, TypeOK, Ahead
    <2> QED
      BY <2>1, <2>2, <2>3, <2>4, <2>5, <2>6, <2>7, <2>8
  <1> QED
    BY <1>1, <1>2 DEF RunsTrue

-----------------------------------------------------------------------------
(* From a finished record to the one behind it *)

LEMMA SettledStays ==
    ASSUME TypeOK, NEW t \in Runs, NEW s \in Scenarios, SettledBehind(t, s), Same(t) \/ Stays(t),
           records[t].tail # "none", \A r \in Runs : Stays(r)
    PROVE  SettledBehind(t, s)'
  <1> DEFINE b == records[t].of
  <1>1. b \in Runs /\ records'[t].of = b /\ saw'[t] = saw[t]
    BY DEF SettledBehind, Stays, TypeOK, Record, Same
  <1>2. Stays(b)
    BY <1>1
  <1>3. records[b].verdict[s] # "none" => records'[b].verdict[s] = records[b].verdict[s]
    BY <1>2 DEF Stays
  <1>4. records[b].tail # "none" =>
          records'[b].tail = records[b].tail /\ records'[b].verdict = records[b].verdict
    BY <1>2 DEF Stays
  <1> QED
    BY <1>1, <1>3, <1>4 DEF SettledBehind

\* What a rerun does not select, its base has settled.
LEMMA UnselectedSettled ==
    ASSUME TypeOK, BasesTrue, TailsTrue, RunsTrue, NEW p \in Procs, at[p] = "close",
           own[p] \in Runs, NEW s \in Scenarios, records[own[p]].verdict[s] = "none"
    PROVE  SettledBehind(own[p], s)
  <1>1. RunTrue(p)
    BY DEF RunsTrue
  <1>2. s \notin Selected(p)
    BY <1>1 DEF RunTrue
  <1>3. rerun[p] /\ ~Keeps(base[p], s)
    BY <1>2 DEF Selected
  <1>4. PICK b \in Base : b = base[p]
    BY DEF TypeOK
  <1>5. AsRead(b)
    BY <1>3, <1>4 DEF BasesTrue, Running
  <1>6. records[own[p]].of = b.of /\ saw[own[p]] = b.tail
    BY <1>1, <1>4 DEF RunTrue, Running
  <1>7. b.of \in Runs /\ b.verdict[s] \in Verdicts /\ b.tail \in Tails
    BY <1>5 DEF AsRead, Base
  <1>8. /\ b.verdict[s] # "Failed"
        /\ b.verdict[s] = "Skipped" => b.tail # "Cancelled"
        /\ b.verdict[s] = "none" => b.tail # "none"
    BY <1>3, <1>4 DEF Keeps, Queued, Truncated, Heard
  <1>9. CASE b.verdict[s] = "Passed"
    BY <1>5, <1>6, <1>7, <1>9 DEF AsRead, SettledBehind
  <1>10. CASE b.verdict[s] = "Skipped"
    <2>1. records[b.of].verdict[s] = "Skipped"
      BY <1>5, <1>10 DEF AsRead
    <2>2. b.tail # "Completed"
      BY <1>5, <1>7, <2>1 DEF AsRead, TailsTrue
    <2>3. b.tail = "none"
      BY <1>7, <1>8, <1>10, <2>2 DEF Tails
    <2> QED
      BY <1>5, <1>6, <2>1, <2>3 DEF AsRead, SettledBehind
  <1>11. CASE b.verdict[s] = "none"
    BY <1>5, <1>6, <1>8, <1>11 DEF AsRead, SettledBehind
  <1> QED
    BY <1>7, <1>8, <1>9, <1>10, <1>11 DEF Verdicts

LEMMA CommandChains ==
    ASSUME TypeOK, Owned, BasesTrue, TailsTrue, RunsTrue, ChainTrue, TypeOK',
           NEW p \in Procs, Command(p)
    PROVE  ChainTrue'
  <1>1. \A r \in Runs : Stays(r)
    BY RecordsStay
  <1> SUFFICES ASSUME NEW t \in Runs, records'[t].tail # "none",
                      \E s \in Scenarios : records'[t].verdict[s] # "none",
                      NEW s \in Scenarios, records'[t].verdict[s] = "none"
               PROVE  SettledBehind(t, s)'
    BY DEF ChainTrue
  <1>2. CASE records[t].tail # "none"
    <2>1. records'[t].verdict = records[t].verdict /\ Stays(t)
      BY <1>1, <1>2 DEF Stays
    <2>2. SettledBehind(t, s)
      BY <1>2, <2>1 DEF ChainTrue
    <2> QED
      BY <1>1, <1>2, <2>1, <2>2, SettledStays
  <1>3. CASE records[t].tail = "none"
    <2>1. ~Same(t)
      BY <1>3 DEF Same
    <2>2. t = own[p]
      BY <2>1, OthersSame
    <2>3. at[p] # "idle"
      BY <2>2 DEF Owned, Runs
    <2>4. ~Create(p) /\ ~(\E sc \in Scenarios, v \in Verdicts : Finish(p, sc, v))
      BY <1>3, <2>2, CreateWrites, FinishWrites
    <2>5. Abort(p) \/ NothingMatched(p) \/ CloseRecord(p)
      BY <2>1, <2>2, <2>3, <2>4, NothingSaid
    <2>6. records' = [records EXCEPT ![t].tail = TailOf(p)] /\ saw' = saw
      BY <2>2, <2>5 DEF Abort, NothingMatched, CloseRecord, EndEarly
    <2>7. /\ records'[t].verdict = records[t].verdict /\ records'[t].of = records[t].of
          /\ \A r \in Runs : r # t => records'[r] = records[r]
      BY <2>2, <2>6, TailWrites
    <2>8. at[p] # "setup"
      BY <2>2, <2>7 DEF RunsTrue, RunTrue
    <2>9. at[p] = "close"
      BY <2>5, <2>8 DEF Abort, NothingMatched, CloseRecord
    <2>10. SettledBehind(t, s)
      BY <2>2, <2>7, <2>9, UnselectedSettled
    <2>11. /\ records[records[t].of].tail # "none" =>
                records'[records[t].of].tail # "none"
           /\ records'[records[t].of].verdict = records[records[t].of].verdict
      BY <1>3, <2>7, <2>10 DEF SettledBehind, TypeOK, Record
    <2> QED
      BY <2>6, <2>7, <2>10, <2>11 DEF SettledBehind
  <1> QED
    BY <1>2, <1>3

-----------------------------------------------------------------------------
(* The greens *)

LEMMA CommandGreens ==
    ASSUME TypeOK, Owned, BasesTrue, TailsTrue, RunsTrue, GreenTrue, TypeOK',
           NEW p \in Procs, Command(p)
    PROVE  GreenTrue'
  <1> DEFINE Clean(r) == /\ records[r].tail # "none"
                         /\ \A s \in Scenarios : records[r].verdict[s] \in {"none", "Passed"}
  <1>1. ASSUME NEW r \in green PROVE Clean(r)'
    <2>1. r \in Runs /\ Clean(r)
      BY DEF TypeOK, GreenTrue
    <2>2. Stays(r)
      BY <2>1, RecordsStay
    <2> QED
      BY <2>1, <2>2 DEF Stays
  <1>2. CASE green' \subseteq green
    BY <1>1, <1>2 DEF GreenTrue
  <1>3. CASE ReadBase(p) /\ LeaveGreen(p, base[p].of)
    <2> DEFINE r == base[p].of
               b == [of |-> r, verdict |-> records[r].verdict, tail |-> records[r].tail]
    <2>1. r \in Runs /\ records' = records
      BY <1>3 DEF ReadBase, BasesTrue, TypeOK, Base
    <2>2. CASE NothingToRerun(b)
      <3>1. b.tail # "none" /\ Queued(b) = {}
        BY <2>2 DEF NothingToRerun, Truncated
      <3>2. \A s \in Scenarios : b.verdict[s] # "Failed"
                                 /\ (b.verdict[s] = "Skipped" => b.tail # "Cancelled")
        BY <3>1 DEF Queued
      <3>3. records[r].tail \in Tails /\ \A s \in Scenarios : records[r].verdict[s] \in Verdicts
        BY <2>1 DEF TypeOK, Record
      <3>4. records[r].tail = "Completed" => \A s \in Scenarios : records[r].verdict[s] # "Skipped"
        BY <2>1 DEF TailsTrue
      <3>5. Clean(r)
        BY <3>1, <3>2, <3>3, <3>4 DEF Tails, Verdicts
      <3>6. \A g \in green' : g \in green \/ g = r
        BY <1>3 DEF LeaveGreen
      <3> QED
        BY <1>1, <2>1, <3>5, <3>6 DEF GreenTrue
    <2>3. CASE ~NothingToRerun(b)
      BY <1>2, <1>3, <2>3 DEF ReadBase
    <2> QED
      BY <2>2, <2>3
  <1>4. CASE Report(p) /\ verdict[p] = "green"
    <2>1. own[p] \in Runs /\ RunTrue(p) /\ at[p] = "report"
      BY <1>4, OwnedRun DEF Report, RunsTrue
    <2>2. Clean(own[p])
      BY <1>4, <2>1 DEF RunTrue, TailsTrue
    <2>3. records'[own[p]].verdict = records[own[p]].verdict
          /\ records'[own[p]].tail = records[own[p]].tail
      BY <1>4, <2>1, ReportWrites
    <2>4. \A g \in green' : g \in green \/ g = own[p]
      BY <1>4 DEF Report, LeaveGreen
    <2> QED
      BY <1>1, <2>1, <2>2, <2>3, <2>4 DEF GreenTrue
  <1>5. green' = green \/ ReadBase(p) \/ Report(p)
    BY DEF Command, Start, FindBase, Rotate, Create, Abort, NothingMatched, EndEarly, Select, Finish,
       EndSuite, CloseRecord, Cancel, Kill
  <1>6. ReadBase(p) => green' = green \/ LeaveGreen(p, base[p].of)
    BY DEF ReadBase
  <1>7. Report(p) => green' = green \/ verdict[p] = "green"
    BY DEF Report
  <1> QED
    BY <1>2, <1>3, <1>4, <1>5, <1>6, <1>7

-----------------------------------------------------------------------------
(* No chain is a cycle *)

LEMMA RunsFinite == IsFiniteSet(Runs) /\ Cardinality(Runs) = MaxRuns
  BY FS_Interval DEF Runs

LEMMA RankFinite ==
    ASSUME NEW rank \in [Runs -> Nat]
    PROVE  /\ IsFiniteSet({t \in Runs : rank[t] # 0})
           /\ Cardinality({t \in Runs : rank[t] # 0}) \in 0..MaxRuns
  <1> DEFINE S == {t \in Runs : rank[t] # 0}
  <1>1. S \subseteq Runs
    OBVIOUS
  <1>2. IsFiniteSet(S) /\ Cardinality(S) <= MaxRuns
    BY <1>1, RunsFinite, FS_Subset
  <1>3. Cardinality(S) \in Nat
    BY <1>2, FS_CardinalityType
  <1> QED
    BY <1>2, <1>3

\* A step that creates no record keeps the order.
LEMMA RankStays ==
    ASSUME TypeOK, Owned, TypeOK', NEW p \in Procs, Command(p), ~Create(p),
           NEW rank \in [Runs -> Nat], Ranked(rank)
    PROVE  Ranked(rank)'
  <1>1. \A r \in Runs : records'[r].of = records[r].of
                        /\ (records'[r].onDisk => records[r].onDisk)
    <2> SUFFICES ASSUME NEW r \in Runs
                 PROVE  records'[r].of = records[r].of
                        /\ (records'[r].onDisk => records[r].onDisk)
      OBVIOUS
    <2>1. CASE r # own[p]
      BY <2>1, OthersSame DEF Same
    <2>2. CASE r = own[p] /\ (Abort(p) \/ NothingMatched(p) \/ CloseRecord(p))
      <3>1. records' = [records EXCEPT ![own[p]].tail = TailOf(p)]
        BY <2>2 DEF Abort, NothingMatched, CloseRecord, EndEarly
      <3> QED
        BY <2>2, <3>1, TailWrites
    <2>3. CASE r = own[p] /\ \E s \in Scenarios, v \in Verdicts : Finish(p, s, v)
      BY <2>3, FinishWrites
    <2>4. CASE /\ ~(Abort(p) \/ NothingMatched(p) \/ CloseRecord(p))
               /\ ~(\E s \in Scenarios, v \in Verdicts : Finish(p, s, v))
      BY <2>4, NothingSaid, OwnedRun DEF Same
    <2> QED
      BY <2>1, <2>2, <2>3, <2>4
  <1>2. ASSUME NEW q \in Procs, base'[q].of # 0 PROVE rank[base'[q].of] # 0
    <2>1. CASE base'[q] = base[q]
      BY <1>2, <2>1 DEF Ranked
    <2>2. CASE q # p
      <3>1. base'[q] = base[q]
        BY <2>2, CommandIsAlone DEF Alone
      <3> QED
        BY <2>1, <3>1
    <2>3. CASE q = p /\ Leave(p)
      <3>1. base'[q] = NoBase
        BY <2>3, LeaveForgets
      <3>2. NoBase.of = 0
        BY DEF NoBase
      <3> QED
        BY <1>2, <3>1, <3>2
    <2>4. CASE q = p /\ FindBase(p) /\ ~Leave(p)
      <3>1. PICK r \in OnDisk : base' = [base EXCEPT ![p].of = r]
        BY <2>4 DEF FindBase
      <3>2. base'[p].of = r
        BY <3>1 DEF TypeOK, Base
      <3> QED
        BY <2>4, <3>1, <3>2 DEF Ranked, OnDisk
    <2>5. CASE q = p /\ ReadBase(p) /\ ~Leave(p)
      <3>1. base'[p].of = base[p].of
        BY <2>5 DEF ReadBase, LeaveGreen, TypeOK
      <3> QED
        BY <1>2, <2>5, <3>1 DEF Ranked
    <2>6. Leave(p) \/ FindBase(p) \/ ReadBase(p) \/ base' = base
      BY DEF Command, Start, Rotate, Create, Abort, NothingMatched, EndEarly, Select, Finish,
         EndSuite, CloseRecord, Report, LeaveGreen, Cancel, Kill
    <2> QED
      BY <2>1, <2>2, <2>3, <2>4, <2>5, <2>6
  <1>3. minted \in Nat /\ minted' \in Nat /\ minted <= minted'
        /\ (minted' = minted \/ minted' = minted + 1)
    BY CommandGoes DEF TypeOK
  <1>4. ASSUME NEW r \in Runs, r > minted' PROVE rank[r] = 0
    BY <1>3, <1>4 DEF Ranked, Runs
  <1>5. ASSUME NEW q \in Procs, at'[q] \in Ahead PROVE rank[own'[q]] = 0
    <2>1. at'[q] # "idle"
      BY <1>5 DEF Ahead
    <2>2. CASE q # p
      BY <1>5, <2>2, CommandIsAlone DEF Alone, Ranked
    <2>3. CASE q = p /\ at[p] = "idle"
      <3>1. own'[p] = minted + 1 /\ minted + 1 \in Runs
        BY <1>3, <2>1, <2>3, CommandGoes DEF TypeOK, Runs
      <3> QED
        BY <1>3, <2>3, <3>1 DEF Ranked
    <2>4. CASE q = p /\ at[p] # "idle"
      <3>1. own'[p] = own[p] /\ at[p] \in Ahead
        BY <1>5, <2>1, <2>4, CommandGoes
      <3> QED
        BY <2>4, <3>1 DEF Ranked
    <2> QED
      BY <2>2, <2>3, <2>4
  <1> QED
    BY <1>1, <1>2, <1>4, <1>5 DEF Ranked

\* The record that is created is the last in the order.
LEMMA CreateRanks ==
    ASSUME TypeOK, Owned, TypeOK', NEW p \in Procs, Create(p),
           NEW rank \in [Runs -> Nat], Ranked(rank)
    PROVE  \E next \in [Runs -> Nat] : Ranked(next)'
  <1> DEFINE r == own[p]
             S == {t \in Runs : rank[t] # 0}
  <1>1. PICK o \in Runs : o = own[p]
    BY OwnedRun DEF Create
  <1>2. PICK n \in Nat : n = Cardinality(S)
    BY RankFinite
  <1>3. PICK next \in [Runs -> Nat] : next = [rank EXCEPT ![o] = n + 1]
    <2>1. [rank EXCEPT ![o] = n + 1] \in [Runs -> Nat]
      OBVIOUS
    <2> QED
      BY <2>1
  <1>4. rank[o] = 0 /\ at[p] = "create"
    BY <1>1 DEF Create, Ranked, Ahead
  <1>5. {t \in Runs : next[t] # 0} = S \cup {o} /\ o \notin S
    BY <1>3, <1>4
  <1>6. Cardinality({t \in Runs : next[t] # 0}) = n + 1
    BY <1>2, <1>5, RankFinite, FS_AddElement
  <1>7. \A t \in Runs : t # o => next[t] = rank[t]
    BY <1>3
  <1>8. next[o] = n + 1
    BY <1>3
  <1>9. \A t \in Runs : rank[t] # 0 => next[t] = rank[t] /\ t # o
    BY <1>4, <1>7
  <1>10. \A t \in Runs : rank[t] <= n
    BY <1>2 DEF Ranked
  <1>11. PICK b \in Runs \cup {0} : b = base[p].of
    BY DEF TypeOK, Base
  <1>12. b # 0 => rank[b] \in 1..n
    BY <1>2, <1>10, <1>11 DEF Ranked
  <1>13. /\ records'[o].of = b
         /\ \A t \in Runs : t # o => records'[t] = records[t]
    BY <1>1, <1>11, CreateWrites
  <1>14. UNCHANGED <<own, base, minted>>
    BY DEF Create
  <1>15. \A q \in Procs : q # p => at'[q] = at[q]
    BY DEF Create, Goto, TypeOK
  <1>16. at'[p] = "setup"
    BY DEF Create, Goto, TypeOK
  <1>17. \A t \in Runs : next[t] <= n + 1
    BY <1>3, <1>7, <1>8, <1>10
  <1>18. ASSUME NEW t \in Runs, records'[t].of # 0
         PROVE  next[records'[t].of] \in 1..(next[t] - 1)
    <2>1. CASE t = o
      BY <1>8, <1>9, <1>12, <1>13, <1>18, <2>1
    <2>2. CASE t # o
      <3>1. rank[records[t].of] \in 1..(rank[t] - 1) /\ records[t].of \in Runs
        BY <1>13, <1>18, <2>2 DEF Ranked, TypeOK, Record
      <3> QED
        BY <1>7, <1>9, <1>13, <2>2, <3>1
    <2> QED
      BY <2>1, <2>2
  <1>19. ASSUME NEW t \in Runs, records'[t].onDisk PROVE next[t] # 0
    BY <1>2, <1>7, <1>8, <1>13, <1>19 DEF Ranked
  <1>20. ASSUME NEW q \in Procs, base'[q].of # 0 PROVE next[base'[q].of] # 0
    <2>1. base[q].of \in Runs /\ rank[base[q].of] # 0
      BY <1>14, <1>20 DEF Ranked, TypeOK, Base
    <2> QED
      BY <1>9, <1>14, <2>1
  <1>21. ASSUME NEW t \in Runs, t > minted' PROVE next[t] = 0
    <2>1. o <= minted
      BY <1>1, <1>4 DEF Owned
    <2>2. t # o /\ rank[t] = 0
      BY <1>14, <1>21, <2>1 DEF Runs, Ranked, TypeOK
    <2> QED
      BY <1>7, <2>2
  <1>22. ASSUME NEW q \in Procs, at'[q] \in Ahead PROVE next[own'[q]] = 0
    <2>1. q # p /\ at[q] \in Ahead
      BY <1>15, <1>16, <1>22 DEF Ahead
    <2>2. own[q] \in Runs
      BY <2>1, OwnedRun DEF Ahead
    <2>3. own[q] # o
      BY <1>1, <2>1, <2>2 DEF Owned, Runs
    <2> QED
      BY <1>7, <1>14, <2>1, <2>2, <2>3 DEF Ranked
  <1>23. Ranked(next)'
    BY <1>6, <1>17, <1>18, <1>19, <1>20, <1>21, <1>22 DEF Ranked
  <1> QED
    BY <1>23

LEMMA CommandOrders ==
    ASSUME TypeOK, Owned, NoCycle, TypeOK', NEW p \in Procs, Command(p)
    PROVE  NoCycle'
  <1>1. PICK rank \in [Runs -> Nat] : Ranked(rank)
    BY DEF NoCycle
  <1>2. CASE Create(p)
    BY <1>1, <1>2, CreateRanks DEF NoCycle
  <1>3. CASE ~Create(p)
    BY <1>1, <1>3, RankStays DEF NoCycle
  <1> QED
    BY <1>2, <1>3

-----------------------------------------------------------------------------
(* The inductive invariant *)

LEMMA HistoryStarts == Init => HistoryInv
  <1> SUFFICES ASSUME Init PROVE HistoryInv
    OBVIOUS
  <1>1. TypeOK
    BY InitTyped
  <1>2. Owned
    BY DEF Init, Owned, Fresh, NoRecord, Unheard, Ahead
  <1>3. BasesTrue
    BY DEF Init, BasesTrue, Running
  <1>4. TailsTrue
    BY DEF Init, TailsTrue, NoRecord
  <1>5. RunsTrue
    BY DEF Init, RunsTrue, RunTrue, Running
  <1>6. ChainTrue /\ GreenTrue
    BY DEF Init, ChainTrue, GreenTrue, NoRecord
  <1>7. NoCycle
    <2>1. PICK rank \in [Runs -> Nat] : rank = [r \in Runs |-> 0]
      <3>1. [r \in Runs |-> 0] \in [Runs -> Nat]
        OBVIOUS
      <3> QED
        BY <3>1
    <2>2. Cardinality({t \in Runs : rank[t] # 0}) >= 0
      BY RankFinite
    <2>3. \A r \in Runs : rank[r] <= Cardinality({t \in Runs : rank[t] # 0})
      BY <2>1, <2>2, RankFinite
    <2>4. /\ \A r \in Runs : records[r].of = 0 /\ ~records[r].onDisk
          /\ \A p \in Procs : base[p].of = 0 /\ at[p] = "idle"
      BY DEF Init, NoRecord, NoBase
    <2>5. Ranked(rank)
      BY <2>1, <2>3, <2>4 DEF Ranked, Ahead
    <2> QED
      BY <2>5 DEF NoCycle
  <1> QED
    BY <1>1, <1>2, <1>3, <1>4, <1>5, <1>6, <1>7 DEF HistoryInv

LEMMA HistoryStuttersOn == HistoryInv /\ UNCHANGED vars => HistoryInv'
  <1> SUFFICES ASSUME HistoryInv, UNCHANGED vars PROVE HistoryInv'
    OBVIOUS
  <1> USE DEF HistoryInv, vars, procVars
  <1>1. TypeOK'
    BY DEF TypeOK
  <1>2. Owned'
    BY DEF Owned, Fresh
  <1>3. BasesTrue'
    BY DEF BasesTrue, AsRead
  <1>4. TailsTrue'
    BY DEF TailsTrue
  <1>5. RunsTrue'
    BY DEF RunsTrue, RunTrue, Selected
  <1>6. ChainTrue' /\ GreenTrue'
    BY DEF ChainTrue, GreenTrue, SettledBehind
  <1>7. NoCycle'
    BY DEF NoCycle, Ranked
  <1> QED
    BY <1>1, <1>2, <1>3, <1>4, <1>5, <1>6, <1>7

LEMMA HistoryGoesOn == HistoryInv /\ [Next]_vars => HistoryInv'
  <1> SUFFICES ASSUME HistoryInv, [Next]_vars PROVE HistoryInv'
    OBVIOUS
  <1>1. CASE UNCHANGED vars
    BY <1>1, HistoryStuttersOn
  <1>2. ASSUME NEW p \in Procs, Command(p) PROVE HistoryInv'
    <2>1. TypeOK /\ Owned /\ BasesTrue /\ TailsTrue /\ RunsTrue /\ ChainTrue /\ GreenTrue /\ NoCycle
      BY DEF HistoryInv
    <2>2. TypeOK'
      BY <1>2, <2>1, CommandTyped
    <2>3. Owned' /\ NoCycle'
      BY <1>2, <2>1, <2>2, CommandOwned, CommandOrders
    <2>4. BasesTrue' /\ TailsTrue' /\ RunsTrue'
      BY <1>2, <2>1, <2>2, CommandBased, CommandTails, CommandRuns
    <2>5. ChainTrue' /\ GreenTrue'
      BY <1>2, <2>1, <2>2, CommandChains, CommandGreens
    <2> QED
      BY <2>2, <2>3, <2>4, <2>5 DEF HistoryInv
  <1> QED
    BY <1>1, <1>2 DEF Next, Done

LEMMA HistoryInvariant == Spec => []HistoryInv
  BY HistoryStarts, HistoryGoesOn, PTL DEF Spec

-----------------------------------------------------------------------------
(* Counting on *)

\* Every set of numbers has a least one, ...
LEMMA LeastNumber ==
    ASSUME NEW S, S \subseteq Nat, S # {}
    PROVE  \E n \in S : \A m \in S : n <= m
  <1> DEFINE R == {ss \in Nat \X Nat : ss[1] < ss[2]}
  <1>1. IsWellFoundedOn(R, Nat)
    BY NatLessThanWellFounded DEF OpToRel
  <1> HIDE DEF R
  <1>2. PICK n \in S : \A m \in S : ~(<<m, n>> \in R)
    BY <1>1, WFMin
  <1>3. \A m, k \in Nat : m < k => <<m, k>> \in R
    BY DEF R
  <1>4. \A m \in S : ~(m < n)
    BY <1>2, <1>3
  <1> QED
    BY <1>4

\* ... so that what holds of 0, and of the next number with each, holds of all.
LEMMA CountingOn ==
    ASSUME NEW S, 0 \in S, \A n \in Nat : n \in S => n + 1 \in S
    PROVE  Nat \subseteq S
  <1> SUFFICES ASSUME Nat \ S # {} PROVE FALSE
    OBVIOUS
  <1>1. PICK n \in Nat \ S : \A m \in Nat \ S : n <= m
    BY LeastNumber
  <1>2. n # 0 /\ n - 1 \in Nat
    BY <1>1
  <1>3. n - 1 \in S
    BY <1>1, <1>2
  <1> QED
    BY <1>1, <1>2, <1>3

\* A function that takes one step after another, at each number its own, is one.
LEMMA IterationExists ==
    ASSUME NEW S, NEW a \in S, NEW M \in Nat, NEW step \in [1..M -> [S -> S]]
    PROVE  \E f \in [0..M -> S] : f[0] = a /\ \A k \in 1..M : f[k] = step[k][f[k - 1]]
  <1> DEFINE Good(f, n) == f[0] = a /\ \A k \in 1..n : f[k] = step[k][f[k - 1]]
             P == {n \in Nat : n <= M => \E f \in [0..n -> S] : Good(f, n)}
  <1>1. 0 \in P
    <2>1. [k \in 0..0 |-> a] \in [0..0 -> S]
      OBVIOUS
    <2>2. Good([k \in 0..0 |-> a], 0)
      OBVIOUS
    <2> QED
      BY <2>1, <2>2
  <1>2. ASSUME NEW n \in Nat, n \in P PROVE n + 1 \in P
    <2> SUFFICES ASSUME n + 1 <= M PROVE \E f \in [0..(n + 1) -> S] : Good(f, n + 1)
      OBVIOUS
    <2>1. PICK f \in [0..n -> S] : Good(f, n)
      BY <1>2
    <2>2. step[n + 1] \in [S -> S]
      OBVIOUS
    <2>3. step[n + 1][f[n]] \in S
      BY <2>2
    <2> DEFINE g == [k \in 0..(n + 1) |-> IF k = n + 1 THEN step[n + 1][f[n]] ELSE f[k]]
    <2>4. g \in [0..(n + 1) -> S]
      BY <2>3
    <2>5. ASSUME NEW k \in 1..(n + 1) PROVE g[k] = step[k][g[k - 1]]
      <3>1. k - 1 \in 0..n /\ g[k - 1] = f[k - 1]
        BY <2>5
      <3>2. k # n + 1 => f[k] = step[k][f[k - 1]]
        BY <2>1, <2>5
      <3> QED
        BY <3>1, <3>2
    <2>6. g[0] = a
      BY <2>1
    <2>7. Good(g, n + 1)
      <3> HIDE DEF g
      <3> QED
        BY <2>4, <2>5, <2>6
    <2> QED
      BY <2>4, <2>7
  <1> HIDE DEF P
  <1>3. M \in P
    BY <1>1, <1>2, CountingOn
  <1> QED
    BY <1>3 DEF P

-----------------------------------------------------------------------------
(* The chain of runs behind a run *)

LEMMA LineIs ==
    ASSUME TypeOK, NEW r \in Runs
    PROVE  /\ Line(r) \in [0..MaxRuns -> Runs \cup {0}]
           /\ Line(r)[0] = r
           /\ \A k \in 1..MaxRuns :
                 Line(r)[k] = IF Line(r)[k - 1] = 0 THEN 0 ELSE records[Line(r)[k - 1]].of
  <1> DEFINE S == Runs \cup {0}
             Is(line) == line = [k \in 0..MaxRuns |->
                            IF k = 0 THEN r ELSE IF line[k - 1] = 0 THEN 0
                                                 ELSE records[line[k - 1]].of]
  <1>1. PICK behind \in [S -> S] :
           \A x \in S : behind[x] = IF x = 0 THEN 0 ELSE records[x].of
    <2>1. [x \in S |-> IF x = 0 THEN 0 ELSE records[x].of] \in [S -> S]
      BY DEF TypeOK, Record
    <2> QED
      BY <2>1
  <1>2. PICK step \in [1..MaxRuns -> [S -> S]] : \A k \in 1..MaxRuns : step[k] = behind
    <2>1. [k \in 1..MaxRuns |-> behind] \in [1..MaxRuns -> [S -> S]]
      OBVIOUS
    <2> QED
      BY <2>1
  <1>3. PICK f \in [0..MaxRuns -> S] :
           f[0] = r /\ \A k \in 1..MaxRuns : f[k] = step[k][f[k - 1]]
    <2>1. r \in S /\ MaxRuns \in Nat
      OBVIOUS
    <2> HIDE DEF S
    <2> QED
      BY <2>1, IterationExists
  <1>4. ASSUME NEW k \in 0..MaxRuns, k # 0 PROVE k \in 1..MaxRuns /\ f[k - 1] \in S
    BY <1>4
  <1>5. Is(f)
    BY <1>1, <1>2, <1>3, <1>4
  <1>6. Line(r) = CHOOSE line : Is(line)
    BY Zenon DEF Line
  <1>7. Is(Line(r))
    <2> HIDE DEF Is
    <2> QED
      BY <1>5, <1>6, Zenon
  <1> DEFINE L == Line(r)
  <1>8. /\ DOMAIN L = 0..MaxRuns /\ L[0] = r
        /\ \A k \in 1..MaxRuns : L[k] = IF L[k - 1] = 0 THEN 0 ELSE records[L[k - 1]].of
    <2> HIDE DEF L
    <2>1. Is(L)
      BY <1>7 DEF L
    <2>2. DOMAIN L = 0..MaxRuns /\ L[0] = r
      BY <2>1
    <2>3. ASSUME NEW k \in 1..MaxRuns
          PROVE  L[k] = IF L[k - 1] = 0 THEN 0 ELSE records[L[k - 1]].of
      BY <2>1
    <2> QED
      BY <2>2, <2>3
  <1> HIDE DEF L
  <1>9. \A k \in 0..MaxRuns : L[k] \in S
    <2> DEFINE P == {k \in Nat : k <= MaxRuns => L[k] \in S}
    <2>1. 0 \in P
      BY <1>8
    <2>2. ASSUME NEW k \in Nat, k \in P PROVE k + 1 \in P
      <3> SUFFICES ASSUME k + 1 <= MaxRuns PROVE L[k + 1] \in S
        OBVIOUS
      <3>1. L[k] \in S /\ k + 1 \in 1..MaxRuns
        BY <2>2
      <3>2. L[k + 1] = IF L[k] = 0 THEN 0 ELSE records[L[k]].of
        BY <1>8, <3>1
      <3> QED
        BY <3>1, <3>2 DEF TypeOK, Record
    <2> HIDE DEF P
    <2>3. Nat \subseteq P
      BY <2>1, <2>2, CountingOn
    <2> QED
      BY <2>3 DEF P
  <1> QED
    BY <1>7, <1>8, <1>9 DEF L

\* No chain of bases is as long as the bound on runs.
LEMMA ChainEnds ==
    ASSUME TypeOK, NoCycle, NEW r \in Runs
    PROVE  Line(r)[MaxRuns] = 0
  <1>1. PICK L \in [0..MaxRuns -> Runs \cup {0}] : L = Line(r)
    BY LineIs
  <1>2. \A k \in 1..MaxRuns : L[k] = IF L[k - 1] = 0 THEN 0 ELSE records[L[k - 1]].of
    BY <1>1, LineIs
  <1>3. PICK rank \in [Runs -> Nat] : Ranked(rank)
    BY DEF NoCycle
  <1>4. \A t \in Runs : rank[t] <= MaxRuns
    <2>1. PICK n \in 0..MaxRuns : n = Cardinality({t \in Runs : rank[t] # 0})
      BY RankFinite
    <2> QED
      BY <1>3, <2>1 DEF Ranked
  <1> DEFINE P == {k \in Nat : k <= MaxRuns /\ L[k] # 0 => rank[L[k]] + k <= MaxRuns}
  <1>5. 0 \in P
    BY <1>4
  <1>6. ASSUME NEW k \in Nat, k \in P PROVE k + 1 \in P
    <2> SUFFICES ASSUME k + 1 <= MaxRuns, L[k + 1] # 0 PROVE rank[L[k + 1]] + (k + 1) <= MaxRuns
      OBVIOUS
    <2>1. L[k + 1] = IF L[k] = 0 THEN 0 ELSE records[L[k]].of
      BY <1>2
    <2>2. L[k] \in Runs /\ records[L[k]].of # 0 /\ L[k + 1] = records[L[k]].of
      BY <2>1
    <2>3. rank[L[k + 1]] \in 1..(rank[L[k]] - 1)
      BY <1>3, <2>2 DEF Ranked
    <2>4. rank[L[k]] + k <= MaxRuns
      <3>1. k <= MaxRuns /\ L[k] # 0 => rank[L[k]] + k <= MaxRuns
        BY <1>6
      <3>2. k <= MaxRuns /\ L[k] # 0
        BY <2>2 DEF Runs
      <3> QED
        BY <3>1, <3>2
    <2>5. PICK m, n \in Nat : m = rank[L[k]] /\ n = rank[L[k + 1]]
      <3>1. L[k + 1] \in Runs
        BY <2>1, <2>2
      <3> QED
        BY <2>2, <3>1
    <2> QED
      BY <2>3, <2>4, <2>5
  <1> HIDE DEF P
  <1>7. MaxRuns \in P
    BY <1>5, <1>6, CountingOn
  <1>8. SUFFICES ASSUME L[MaxRuns] # 0 PROVE FALSE
    BY <1>1
  <1>9. rank[L[MaxRuns]] = 0 /\ MaxRuns # 0
    <2>1. MaxRuns \in 1..MaxRuns
      BY DEF Runs
    <2>2. rank[L[MaxRuns]] + MaxRuns <= MaxRuns
      BY <1>7, <1>8 DEF P
    <2> QED
      BY <1>8, <2>1, <2>2
  <1>10. L[MaxRuns] = records[L[MaxRuns - 1]].of /\ L[MaxRuns - 1] \in Runs
    BY <1>2, <1>8, <1>9
  <1>11. rank[L[MaxRuns]] \in 1..(rank[L[MaxRuns - 1]] - 1)
    BY <1>3, <1>8, <1>10 DEF Ranked
  <1> QED
    BY <1>9, <1>11

-----------------------------------------------------------------------------
(* A green --rerun stands on a green suite *)

\* The last word is at the first record of the chain that says one.
LEMMA SaidAtIs ==
    ASSUME TypeOK, NEW r \in Runs, NEW s \in Scenarios
    PROVE  \/ /\ SaidAt(r, s) = MaxRuns + 1
              /\ \A k \in 0..MaxRuns : Line(r)[k] # 0 => records[Line(r)[k]].verdict[s] = "none"
           \/ /\ SaidAt(r, s) \in 0..MaxRuns /\ Line(r)[SaidAt(r, s)] # 0
              /\ records[Line(r)[SaidAt(r, s)]].verdict[s] # "none"
              /\ \A k \in 0..MaxRuns : k < SaidAt(r, s) /\ Line(r)[k] # 0 =>
                    records[Line(r)[k]].verdict[s] = "none"
  <1> DEFINE said == {k \in 0..MaxRuns : /\ Line(r)[k] # 0
                                         /\ records[Line(r)[k]].verdict[s] # "none"}
             First(k) == k \in said /\ \A j \in said : k <= j
  <1>1. SaidAt(r, s) = IF said = {} THEN MaxRuns + 1 ELSE CHOOSE k \in said : \A j \in said : k <= j
    BY Zenon DEF SaidAt
  <1>2. CASE said = {}
    BY <1>1, <1>2
  <1>3. CASE said # {}
    <2>1. \E k \in said : \A j \in said : k <= j
      <3>1. said \subseteq Nat
        OBVIOUS
      <3> HIDE DEF said
      <3> QED
        BY <1>3, <3>1, LeastNumber
    <2>2. First(SaidAt(r, s))
      <3>1. SaidAt(r, s) = CHOOSE k \in said : \A j \in said : k <= j
        BY <1>1, <1>3, Zenon
      <3> HIDE DEF said
      <3> QED
        BY <2>1, <3>1, Zenon
    <2>3. PICK k \in 0..MaxRuns : k = SaidAt(r, s)
      BY <2>2
    <2>4. ASSUME NEW j \in 0..MaxRuns, j < k, Line(r)[j] # 0
          PROVE  records[Line(r)[j]].verdict[s] = "none"
      <3>1. j \notin said
        BY <2>2, <2>3, <2>4
      <3> QED
        BY <2>4, <3>1
    <2> QED
      BY <2>2, <2>3, <2>4
  <1> QED
    BY <1>2, <1>3

\* From a green record back to the first that says something on s: each of them is
\* finished, and the next one settles what it leaves out.
LEMMA WordIsBehind ==
    ASSUME HistoryInv, NEW r \in green, NEW s \in Scenarios, ~NeverBegan(r),
           NEW L \in [0..MaxRuns -> Runs \cup {0}], L = Line(r), NEW n \in 0..MaxRuns,
           \A k \in 0..MaxRuns : k < n /\ L[k] # 0 => records[L[k]].verdict[s] = "none"
    PROVE  /\ L[n] # 0
           /\ n = 0 => records[L[0]].verdict[s] \in {"none", "Passed"}
           /\ n > 0 => \/ records[L[n]].verdict[s] \in {"none", "Passed"}
                       \/ records[L[n]].verdict[s] = "Skipped" /\ saw[L[n - 1]] = "none"
  <1> DEFINE Word(k) ==
               \/ records[L[k]].verdict[s] = "Passed"
               \/ records[L[k]].verdict[s] = "none" /\ records[L[k]].tail # "none"
               \/ /\ k > 0 /\ records[L[k]].verdict[s] = "Skipped"
                  /\ saw[L[k - 1]] = "none"
             P == {k \in Nat : k <= n => L[k] # 0 /\ Word(k)}
  <1>1. r \in Runs /\ TypeOK /\ ChainTrue /\ GreenTrue
    BY DEF HistoryInv, TypeOK
  <1>2. L[0] = r /\ \A k \in 1..MaxRuns : L[k] = IF L[k - 1] = 0 THEN 0 ELSE records[L[k - 1]].of
    BY <1>1, LineIs
  <1>3. 0 \in P
    BY <1>1, <1>2 DEF GreenTrue, Runs
  <1>4. ASSUME NEW k \in Nat, k \in P PROVE k + 1 \in P
    <2> SUFFICES ASSUME k + 1 <= n PROVE L[k + 1] # 0 /\ Word(k + 1)
      OBVIOUS
    <2>1. k \in 0..MaxRuns /\ k + 1 \in 1..MaxRuns /\ k < n
      OBVIOUS
    <2>2. L[k] # 0 /\ Word(k)
      BY <1>4, <2>1
    <2>3. PICK t \in Runs : t = L[k]
      BY <2>1, <2>2
    <2>4. records[t].verdict[s] = "none"
      BY <2>1, <2>2, <2>3
    <2>5. records[t].tail # "none"
      BY <2>2, <2>3, <2>4
    <2>6. \E sc \in Scenarios : records[t].verdict[sc] # "none"
      <3>1. t \in Behind(r)
        BY <2>1, <2>2, <2>3 DEF Behind
      <3> QED
        BY <2>5, <3>1 DEF NeverBegan
    <2>7. SettledBehind(t, s)
      BY <1>1, <2>4, <2>5, <2>6 DEF ChainTrue
    <2>8. L[k + 1] = records[t].of /\ t = L[(k + 1) - 1]
      BY <1>2, <2>1, <2>2, <2>3
    <2> QED
      BY <2>7, <2>8 DEF SettledBehind
  <1> HIDE DEF P
  <1>5. n \in P
    BY <1>3, <1>4, CountingOn
  <1>6. L[n] # 0 /\ Word(n)
    BY <1>5 DEF P
  <1> QED
    BY <1>6

LEMMA GreenIsProven == HistoryInv => GreenRerunProven
  <1> SUFFICES ASSUME HistoryInv, NEW r \in green, NEW s \in Scenarios,
                      ~NeverBegan(r), LastWord(r, s) # "Passed"
               PROVE  SkippedUnseen(r, s)
    BY DEF GreenRerunProven
  <1>1. r \in Runs /\ TypeOK /\ NoCycle
    BY DEF HistoryInv, TypeOK
  <1>2. PICK L \in [0..MaxRuns -> Runs \cup {0}] : L = Line(r)
    BY <1>1, LineIs
  <1>3. ASSUME NEW k \in 0..MaxRuns, SaidAt(r, s) = k, L[k] # 0, records[L[k]].verdict[s] # "none",
               \A j \in 0..MaxRuns : j < k /\ L[j] # 0 => records[L[j]].verdict[s] = "none"
        PROVE  SkippedUnseen(r, s)
    <2>1. LastWord(r, s) = records[L[k]].verdict[s]
      BY <1>2, <1>3 DEF LastWord
    <2>2. /\ k = 0 => records[L[0]].verdict[s] \in {"none", "Passed"}
          /\ k > 0 => \/ records[L[k]].verdict[s] \in {"none", "Passed"}
                      \/ records[L[k]].verdict[s] = "Skipped" /\ saw[L[k - 1]] = "none"
      BY <1>2, <1>3, WordIsBehind
    <2>3. k > 0 /\ records[L[k]].verdict[s] = "Skipped" /\ saw[L[k - 1]] = "none"
      BY <1>3, <2>1, <2>2
    <2> QED
      BY <1>2, <1>3, <2>1, <2>3 DEF SkippedUnseen
  <1>4. ASSUME \A k \in 0..MaxRuns : L[k] # 0 => records[L[k]].verdict[s] = "none"
        PROVE  FALSE
    <2>1. MaxRuns \in 0..MaxRuns
      OBVIOUS
    <2>2. L[MaxRuns] # 0
      BY <1>2, <1>4, <2>1, WordIsBehind
    <2> QED
      BY <1>1, <1>2, <2>2, ChainEnds
  <1> QED
    BY <1>1, <1>2, <1>3, <1>4, SaidAtIs

\* A green --rerun means a green suite (exec.rs and record.rs, `rerun_candidates`).
THEOREM GreenRerunProvenHolds == Spec => []GreenRerunProven
  BY HistoryInvariant, GreenIsProven, PTL

-----------------------------------------------------------------------------
(* The two reports of a rerun agree *)

LEMMA LinkIs ==
    ASSUME TypeOK, NEW r \in Runs
    PROVE  /\ LinkOf(r) \in [0..MaxRuns -> Runs \cup {0}]
           /\ LinkOf(r)[0] = r
           /\ \A k \in 1..MaxRuns :
                 LinkOf(r)[k] = LET of == IF LinkOf(r)[k - 1] = 0 THEN 0
                                          ELSE records[LinkOf(r)[k - 1]].of
                                IN  IF of # 0 /\ records[of].onDisk THEN of ELSE 0
  <1> DEFINE S == Runs \cup {0}
             Of(x) == IF x = 0 THEN 0 ELSE records[x].of
             Next1(x) == IF Of(x) # 0 /\ records[Of(x)].onDisk THEN Of(x) ELSE 0
             Is(link) == link = [k \in 0..MaxRuns |-> IF k = 0 THEN r ELSE
                            LET of == IF link[k - 1] = 0 THEN 0 ELSE records[link[k - 1]].of
                            IN  IF of # 0 /\ records[of].onDisk THEN of ELSE 0]
  <1>1. \A x \in S : Next1(x) \in S
    BY DEF TypeOK, Record
  <1>2. PICK behind \in [S -> S] : \A x \in S : behind[x] = Next1(x)
    <2>1. [x \in S |-> Next1(x)] \in [S -> S]
      BY <1>1
    <2> QED
      BY <2>1
  <1>3. PICK step \in [1..MaxRuns -> [S -> S]] : \A k \in 1..MaxRuns : step[k] = behind
    <2>1. [k \in 1..MaxRuns |-> behind] \in [1..MaxRuns -> [S -> S]]
      OBVIOUS
    <2> QED
      BY <2>1
  <1>4. PICK f \in [0..MaxRuns -> S] :
           f[0] = r /\ \A k \in 1..MaxRuns : f[k] = step[k][f[k - 1]]
    <2>1. r \in S /\ MaxRuns \in Nat
      OBVIOUS
    <2> HIDE DEF S
    <2> QED
      BY <2>1, IterationExists
  <1>5. ASSUME NEW k \in 0..MaxRuns, k # 0
        PROVE  k \in 1..MaxRuns /\ f[k] = Next1(f[k - 1])
    <2>1. k \in 1..MaxRuns /\ f[k - 1] \in S
      BY <1>5
    <2> QED
      BY <1>2, <1>3, <1>4, <2>1
  <1>6. Is(f)
    BY <1>4, <1>5
  <1>7. LinkOf(r) = CHOOSE link : Is(link)
    BY Zenon DEF LinkOf
  <1>8. Is(LinkOf(r))
    <2> HIDE DEF Is
    <2> QED
      BY <1>6, <1>7, Zenon
  <1> DEFINE L == LinkOf(r)
  <1>9. DOMAIN L = 0..MaxRuns /\ L[0] = r /\ \A k \in 1..MaxRuns : L[k] = Next1(L[k - 1])
    <2> HIDE DEF L
    <2>1. Is(L)
      BY <1>8 DEF L
    <2>2. L = [k \in 0..MaxRuns |-> IF k = 0 THEN r ELSE Next1(L[k - 1])]
      BY <2>1, Zenon
    <2> HIDE DEF Next1
    <2>3. \A k \in 1..MaxRuns : L[k] = Next1(L[k - 1])
      BY <2>2
    <2> QED
      BY <2>2, <2>3
  <1> HIDE DEF L
  <1>10. \A k \in 0..MaxRuns : L[k] \in S
    <2> DEFINE P == {k \in Nat : k <= MaxRuns => L[k] \in S}
    <2>1. 0 \in P
      BY <1>9
    <2>2. ASSUME NEW k \in Nat, k \in P PROVE k + 1 \in P
      <3> SUFFICES ASSUME k + 1 <= MaxRuns PROVE L[k + 1] \in S
        OBVIOUS
      <3>1. L[k] \in S /\ k + 1 \in 1..MaxRuns
        BY <2>2
      <3>2. L[k + 1] = Next1(L[k])
        BY <1>9, <3>1
      <3> HIDE DEF Next1
      <3> QED
        BY <1>1, <3>1, <3>2
    <2> HIDE DEF P
    <2>3. Nat \subseteq P
      BY <2>1, <2>2, CountingOn
    <2> QED
      BY <2>3 DEF P
  <1>11. L \in [0..MaxRuns -> S]
    <2>1. L = [k \in 0..MaxRuns |-> L[k]]
      BY <1>8 DEF L
    <2> HIDE DEF S
    <2> QED
      BY <1>10, <2>1
  <1> QED
    BY <1>9, <1>11 DEF L

LEMMA PageIs ==
    ASSUME TypeOK, NEW r \in Runs,
           NEW L \in [0..MaxRuns -> Runs \cup {0}], L = LinkOf(r)
    PROVE  \E page \in [0..MaxRuns -> [Scenarios -> Verdicts]] :
              /\ PageOf(r) = page[MaxRuns] /\ page[0] = records[r].verdict
              /\ \A k \in 1..MaxRuns :
                    page[k] = IF L[k] = 0 THEN page[k - 1]
                              ELSE Overlay(page[k - 1], records[L[k]])
  <1> DEFINE S == [Scenarios -> Verdicts]
             Turn(k, x) == IF L[k] = 0 THEN x ELSE Overlay(x, records[L[k]])
             Is(page) == page = [k \in 0..MaxRuns |->
                            IF k = 0 THEN records[r].verdict
                            ELSE IF L[k] = 0 THEN page[k - 1]
                            ELSE Overlay(page[k - 1], records[L[k]])]
  <1>1. \A k \in 1..MaxRuns : \A x \in S : Turn(k, x) \in S
    BY DEF TypeOK, Record, Overlay
  <1>2. PICK step \in [1..MaxRuns -> [S -> S]] :
           \A k \in 1..MaxRuns : step[k] = [x \in S |-> Turn(k, x)]
    <2>1. [k \in 1..MaxRuns |-> [x \in S |-> Turn(k, x)]] \in [1..MaxRuns -> [S -> S]]
      <3> HIDE DEF S, Turn
      <3> QED
        BY <1>1
    <2> HIDE DEF S, Turn
    <2> QED
      BY <2>1
  <1>3. PICK f \in [0..MaxRuns -> S] :
           f[0] = records[r].verdict /\ \A k \in 1..MaxRuns : f[k] = step[k][f[k - 1]]
    <2>1. PICK a \in S : a = records[r].verdict
      BY DEF TypeOK, Record
    <2> HIDE DEF S
    <2>2. MaxRuns \in Nat /\ a \in S /\ step \in [1..MaxRuns -> [S -> S]]
      OBVIOUS
    <2>3. \E f \in [0..MaxRuns -> S] :
             f[0] = a /\ \A k \in 1..MaxRuns : f[k] = step[k][f[k - 1]]
      BY <2>2, IterationExists
    <2> QED
      BY <2>1, <2>3
  <1>4. \A k \in 1..MaxRuns : f[k] = Turn(k, f[k - 1])
    <2> SUFFICES ASSUME NEW k \in 1..MaxRuns PROVE f[k] = Turn(k, f[k - 1])
      OBVIOUS
    <2> HIDE DEF Turn, S
    <2>1. f[k - 1] \in S
      OBVIOUS
    <2> QED
      BY <1>2, <1>3, <2>1
  <1>5. f = [k \in 0..MaxRuns |-> IF k = 0 THEN records[r].verdict ELSE Turn(k, f[k - 1])]
    <2> HIDE DEF Turn, S
    <2>1. \A k \in 0..MaxRuns : k # 0 => k \in 1..MaxRuns
      OBVIOUS
    <2> QED
      BY <1>3, <1>4, <2>1
  <1>6. Is(f)
    BY <1>5, Zenon
  <1>7. PageOf(r) = (CHOOSE page : Is(page))[MaxRuns]
    BY Zenon DEF PageOf
  <1>8. Is(CHOOSE page : Is(page))
    <2> HIDE DEF Is
    <2> QED
      BY <1>6, Zenon
  <1> DEFINE page == CHOOSE g : Is(g)
  <1>9. page = [k \in 0..MaxRuns |-> IF k = 0 THEN records[r].verdict ELSE Turn(k, page[k - 1])]
    <2> HIDE DEF page
    <2>1. Is(page)
      BY <1>8, Zenon DEF page
    <2> QED
      BY <2>1, Zenon
  <1>10. PageOf(r) = page[MaxRuns]
    BY <1>7, Zenon
  <1> HIDE DEF page, Is, Turn
  <1>11. page[0] = records[r].verdict /\ \A k \in 1..MaxRuns : page[k] = Turn(k, page[k - 1])
    BY <1>9
  <1>12. \A k \in 0..MaxRuns : page[k] \in S
    <2> DEFINE P == {k \in Nat : k <= MaxRuns => page[k] \in S}
    <2>1. 0 \in P
      BY <1>11 DEF TypeOK, Record
    <2> HIDE DEF S
    <2>2. ASSUME NEW k \in Nat, k \in P PROVE k + 1 \in P
      <3> SUFFICES ASSUME k + 1 <= MaxRuns PROVE page[k + 1] \in S
        OBVIOUS
      <3>1. page[k] \in S /\ k + 1 \in 1..MaxRuns
        BY <2>2
      <3>2. page[k + 1] = Turn(k + 1, page[k])
        BY <1>11, <3>1
      <3> QED
        BY <1>1, <3>1, <3>2
    <2> HIDE DEF P
    <2>3. Nat \subseteq P
      BY <2>1, <2>2, CountingOn
    <2> QED
      BY <2>3 DEF P
  <1>13. page \in [0..MaxRuns -> S]
    <2>1. page = [k \in 0..MaxRuns |-> page[k]]
      BY <1>9
    <2> HIDE DEF S
    <2> QED
      BY <1>12, <2>1
  <1>14. \A k \in 1..MaxRuns : page[k] = IF L[k] = 0 THEN page[k - 1]
                                         ELSE Overlay(page[k - 1], records[L[k]])
    BY <1>11 DEF Turn
  <1> HIDE DEF S
  <1>15. \E g \in [0..MaxRuns -> S] :
              /\ PageOf(r) = g[MaxRuns] /\ g[0] = records[r].verdict
              /\ \A k \in 1..MaxRuns : g[k] = IF L[k] = 0 THEN g[k - 1]
                                              ELSE Overlay(g[k - 1], records[L[k]])
    BY <1>10, <1>11, <1>13, <1>14
  <1> QED
    BY <1>15 DEF S

LEMMA ReportsDoAgree == HistoryInv => ReportsAgree
  <1> SUFFICES ASSUME HistoryInv, NEW p \in Procs, at[p] = "report", NEW s \in Scenarios,
                      JUnitOf(p)[s] # "none"
               PROVE  PageOf(own[p])[s] \in {"none", JUnitOf(p)[s]}
    BY DEF ReportsAgree
  <1>1. TypeOK /\ Owned /\ BasesTrue /\ RunTrue(p)
    BY DEF HistoryInv, RunsTrue
  <1>2. PICK r \in Runs : r = own[p]
    BY <1>1, OwnedRun
  <1>3. PICK b \in Base : b = base[p]
    BY <1>1 DEF TypeOK
  <1>4. PICK J \in Verdicts : J = JUnitOf(p)[s]
    BY <1>1, <1>2, <1>3 DEF JUnitOf, Carried, TypeOK, Record, Base
  <1>5. J = IF records[r].verdict[s] # "none" THEN records[r].verdict[s] ELSE b.verdict[s]
    BY <1>2, <1>3, <1>4 DEF JUnitOf, Carried
  <1>6. records[r].of = b.of
    BY <1>1, <1>2, <1>3 DEF RunTrue, Running
  <1>7. b.verdict[s] # "none" => b.of \in Runs /\ records[b.of].verdict[s] = b.verdict[s]
    <2> SUFFICES ASSUME b.verdict[s] # "none"
                 PROVE  b.of \in Runs /\ records[b.of].verdict[s] = b.verdict[s]
      OBVIOUS
    <2>1. b # NoBase
      BY DEF NoBase, Unheard
    <2>2. AsRead(b)
      BY <1>1, <1>3, <2>1 DEF BasesTrue, Running
    <2> QED
      BY <2>2 DEF AsRead, Base
  <1>8. PICK L \in [0..MaxRuns -> Runs \cup {0}] : L = LinkOf(r)
    BY <1>1, LinkIs
  <1>9. /\ L[0] = r
        /\ \A k \in 1..MaxRuns : L[k - 1] = 0 => L[k] = 0
        /\ \A k \in 1..MaxRuns : L[k] # 0 => L[k] = records[L[k - 1]].of
    BY <1>1, <1>8, LinkIs
  <1>10. PICK page \in [0..MaxRuns -> [Scenarios -> Verdicts]] :
              /\ PageOf(r) = page[MaxRuns] /\ page[0] = records[r].verdict
              /\ \A k \in 1..MaxRuns :
                    page[k] = IF L[k] = 0 THEN page[k - 1]
                              ELSE Overlay(page[k - 1], records[L[k]])
    BY <1>1, <1>8, PageIs
  <1>11. \A k \in 1..MaxRuns : page[k][s] = IF L[k] # 0 /\ page[k - 1][s] = "none"
                                           THEN records[L[k]].verdict[s] ELSE page[k - 1][s]
    <2> SUFFICES ASSUME NEW k \in 1..MaxRuns
                 PROVE  page[k][s] = IF L[k] # 0 /\ page[k - 1][s] = "none"
                                     THEN records[L[k]].verdict[s] ELSE page[k - 1][s]
      OBVIOUS
    <2>1. page[k] = IF L[k] = 0 THEN page[k - 1] ELSE Overlay(page[k - 1], records[L[k]])
      BY <1>10
    <2>2. PICK before \in [Scenarios -> Verdicts] : before = page[k - 1]
      OBVIOUS
    <2>3. L[k] # 0 => page[k] = [t \in Scenarios |-> IF before[t] = "none"
                                    THEN records[L[k]].verdict[t] ELSE before[t]]
      BY <2>1, <2>2 DEF Overlay
    <2> QED
      BY <2>1, <2>2, <2>3
  \* So far the page says what the file says, or nothing, and has no base to add.
  <1> DEFINE P == {k \in Nat : k <= MaxRuns =>
                     page[k][s] = J \/ (page[k][s] = "none" /\ (k = 0 \/ L[k] = 0))}
  <1>12. 0 \in P
    BY <1>5, <1>10
  <1>13. ASSUME NEW k \in Nat, k \in P PROVE k + 1 \in P
    <2> SUFFICES ASSUME k + 1 <= MaxRuns
                 PROVE  \/ page[k + 1][s] = J
                        \/ page[k + 1][s] = "none" /\ L[k + 1] = 0
      OBVIOUS
    <2>1. k + 1 \in 1..MaxRuns /\ (k + 1) - 1 = k /\ k <= MaxRuns
      OBVIOUS
    <2>2. page[k + 1][s] = IF L[k + 1] # 0 /\ page[k][s] = "none"
                           THEN records[L[k + 1]].verdict[s] ELSE page[k][s]
      BY <1>11, <2>1
    <2>3. CASE page[k][s] = J
      BY <1>4, <2>2, <2>3
    <2>4. CASE page[k][s] = "none" /\ L[k + 1] = 0
      BY <2>2, <2>4
    <2>5. CASE page[k][s] = "none" /\ L[k + 1] # 0
      <3>1. L[k] # 0
        BY <1>9, <2>1, <2>5
      <3>2. k = 0
        BY <1>4, <1>13, <2>1, <2>5, <3>1
      <3>3. L[k + 1] = b.of /\ records[r].verdict[s] = "none"
        BY <1>6, <1>9, <1>10, <2>1, <2>5, <3>2
      <3> QED
        BY <1>4, <1>5, <1>7, <2>2, <2>5, <3>3
    <2> QED
      BY <1>13, <2>1, <2>3, <2>4, <2>5
  <1> HIDE DEF P
  <1>14. MaxRuns \in P
    BY <1>12, <1>13, CountingOn
  <1> QED
    BY <1>2, <1>4, <1>10, <1>14 DEF P

\* The JUnit file of a rerun and the page of its record agree (record.rs,
\* `carried_outcomes`; report.rs).
THEOREM ReportsAgreeHolds == Spec => []ReportsAgree
  BY HistoryInvariant, ReportsDoAgree, PTL
=============================================================================
