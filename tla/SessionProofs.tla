---------------------------- MODULE SessionProofs ----------------------------
(***************************************************************************)
(* The two sessions that stay up beside an editor: the language server,     *)
(* whose answers and screen are true of the text that the client gave it,   *)
(* for any suite, and the watch loop, whose interrupts reach the run and    *)
(* whose own output is never a notice, for any set of run directories.      *)
(***************************************************************************)
EXTENDS LanguageServer, Watch, TLAPS

-----------------------------------------------------------------------------
(***************************************************************************)
(* The language server.                                                     *)
(***************************************************************************)
\* The corpus is that of the overlay, unless a rebuild is still to come.
CorpusFresh == torn \/ fragmentsDirty \/ \A f \in Fragments : corpus[f] = docs[f]
RebuildDue  == fragmentsDirty => dirty # "clean"

\* Whatever is on the screen is in `published`, so that it can be cleared.
ShownTracked == torn \/ \A f \in Files \ published : shown[f] = {}

ServerInv == /\ TypeOK /\ CorpusFresh /\ RebuildDue /\ ShownTracked
             /\ AnswersFresh /\ ScreenTrue

USE FilesAssumption, DiskAssumption

-----------------------------------------------------------------------------
(* The initial state satisfies the invariant. *)
LEMMA InitInv == Init => ServerInv
<1> SUFFICES ASSUME Init PROVE ServerInv
  OBVIOUS
<1> USE DEF Init
<1>1. TypeOK
  BY DEF TypeOK, Files, Texts
<1>2. CorpusFresh /\ RebuildDue
  BY DEF CorpusFresh, RebuildDue
<1>3. ShownTracked
  BY DEF ShownTracked
<1>4. AnswersFresh /\ ScreenTrue
  BY DEF AnswersFresh, ScreenTrue
<1> QED
  BY <1>1, <1>2, <1>3, <1>4 DEF ServerInv

(* The analysis that a request or a recompute works with: it covers all files, and
   agrees with the overlay wherever the corpus it is made from does (`compute_analysis`). *)
LEMMA AnalysisCovers ==
    ASSUME TypeOK, NEW cache \in {NoAnalysis, analysis}, NEW fragments \in [Fragments -> Texts]
    PROVE  /\ AnalysisOf(cache, fragments) \in [Files -> Texts]
           /\ cache = NoAnalysis => AnalysisOf(cache, fragments) = Recomputed(fragments)
<1>1. Recomputed(fragments) \in [Files -> Texts]
  BY DEF Recomputed, TypeOK
<1> QED
  BY <1>1 DEF AnalysisOf, TypeOK

(* The corpus that a recompute goes by has its type. *)
LEMMA CorpusNowType == TypeOK => CorpusNow \in [Fragments -> Texts]
<1> QED
  BY DEF TypeOK, CorpusNow, Files

(* A recompute works with the texts of the overlay: with those of features and packs
   always, with those of fragments unless a panic has torn a rebuild (`run_recompute`). *)
LEMMA RecomputeSeesOverlay ==
    ASSUME ServerInv
    PROVE  LET texts == AnalysisOf(CacheNow, CorpusNow) IN
           /\ texts \in [Files -> Texts]
           /\ \A f \in Files \ Fragments : texts[f] = docs[f]
           /\ ~torn => texts = docs
<1> DEFINE texts == AnalysisOf(CacheNow, CorpusNow)
<1>1. CorpusNow \in [Fragments -> Texts] /\ CacheNow \in {NoAnalysis, analysis}
  BY CorpusNowType DEF ServerInv, CacheNow
<1>2. texts \in [Files -> Texts]
  BY <1>1, AnalysisCovers DEF ServerInv
<1>3. ~torn => \A f \in Fragments : CorpusNow[f] = docs[f]
  BY DEF ServerInv, CorpusFresh, CorpusNow
<1>4. CASE CacheNow = NoAnalysis
  <2>1. texts = Recomputed(CorpusNow)
    BY <1>1, <1>4, AnalysisCovers DEF ServerInv
  <2>2. \A f \in Files \ Fragments : texts[f] = docs[f]
    BY <2>1 DEF Recomputed
  <2>3. ~torn => \A f \in Files : texts[f] = docs[f]
    BY <2>1, <1>3 DEF Recomputed
  <2> QED
    BY <1>2, <2>2, <2>3 DEF ServerInv, TypeOK
<1>5. CASE CacheNow # NoAnalysis
  <2>1. ~fragmentsDirty /\ CacheNow = analysis
    BY <1>5 DEF CacheNow
  <2>2. texts = analysis /\ analysis # NoAnalysis
    BY <1>5, <2>1 DEF AnalysisOf
  <2>3. \A f \in Files \ Fragments : texts[f] = docs[f]
    BY <2>2 DEF ServerInv, AnswersFresh
  <2>4. ~torn => \A f \in Fragments : texts[f] = docs[f]
    BY <2>1, <2>2 DEF ServerInv, AnswersFresh
  <2>5. ~torn => \A f \in Files : texts[f] = docs[f]
    BY <2>3, <2>4
  <2> QED
    BY <1>2, <2>3, <2>5 DEF ServerInv, TypeOK
<1> QED
  BY <1>4, <1>5

-----------------------------------------------------------------------------
(* The steps of the loop that leave the screen alone keep the invariant. *)
LEMMA ElapseKeeps == ServerInv /\ Elapse => ServerInv'
<1> SUFFICES ASSUME ServerInv, Elapse PROVE ServerInv'
  OBVIOUS
<1> USE DEF ServerInv, Elapse
<1>1. TypeOK'
  BY DEF TypeOK
<1>2. CorpusFresh' /\ RebuildDue' /\ ShownTracked'
  BY DEF CorpusFresh, RebuildDue, ShownTracked
<1>3. AnswersFresh' /\ ScreenTrue'
  BY DEF AnswersFresh, ScreenTrue
<1> QED
  BY <1>1, <1>2, <1>3

(* So does a step that only moves the loop. *)
LEMMA MovesKeep == ServerInv /\ (Turn \/ Ignore \/ Leave \/ UNCHANGED vars) => ServerInv'
<1> SUFFICES ASSUME ServerInv, Turn \/ Ignore \/ Leave \/ UNCHANGED vars PROVE ServerInv'
  OBVIOUS
<1>1. /\ pc' \in {"turn", "wait", "done"}
      /\ UNCHANGED <<docs, corpus, fragmentsDirty, analysis, panicReported, dirty,
                     published, shown, torn>>
  BY DEF Turn, Ignore, Leave, Receive, vars, serverVars, ServerInv, TypeOK
<1> USE <1>1 DEF ServerInv
<1>2. TypeOK'
  BY DEF TypeOK
<1>3. CorpusFresh' /\ RebuildDue' /\ ShownTracked'
  BY DEF CorpusFresh, RebuildDue, ShownTracked
<1>4. AnswersFresh' /\ ScreenTrue'
  BY DEF AnswersFresh, ScreenTrue
<1> QED
  BY <1>2, <1>3, <1>4

(* An edit drops the cache and marks the suite dirty. *)
LEMMA EditKeeps ==
    ASSUME NEW f \in Files, NEW text \in Texts, ServerInv, ApplyEdit(f, text)
    PROVE  ServerInv'
<1> USE DEF ServerInv, ApplyEdit, DirtyByEdit
<1>1. TypeOK'
  BY DEF TypeOK
<1>2. dirty' # "clean"
  OBVIOUS
<1>3. CorpusFresh'
  <2>1. CASE f \in Fragments
    BY <2>1 DEF CorpusFresh
  <2>2. CASE f \notin Fragments
    BY <2>2 DEF CorpusFresh, TypeOK, Files
  <2> QED
    BY <2>1, <2>2
<1>4. RebuildDue' /\ ScreenTrue'
  BY <1>2 DEF RebuildDue, ScreenTrue
<1>5. ShownTracked'
  BY DEF ShownTracked
<1>6. AnswersFresh'
  BY DEF AnswersFresh, NoAnalysis
<1> QED
  BY <1>1, <1>3, <1>4, <1>5, <1>6

(* A request may fill the cache from a corpus that is one rebuild behind. *)
LEMMA AnswerKeeps == ServerInv /\ (Answer \/ AnswerPanics) => ServerInv'
<1> SUFFICES ASSUME ServerInv, Answer \/ AnswerPanics PROVE ServerInv'
  OBVIOUS
<1>1. /\ pc' = "turn" /\ panicReported' \in {panicReported, TRUE}
      /\ UNCHANGED <<docs, corpus, fragmentsDirty, dirty, published, shown, torn>>
      /\ analysis' \in {analysis, AnalysisOf(analysis, corpus)}
  BY DEF Answer, AnswerPanics
<1> USE <1>1 DEF ServerInv
<1>2. /\ AnalysisOf(analysis, corpus) \in [Files -> Texts]
      /\ analysis = NoAnalysis => AnalysisOf(analysis, corpus) = Recomputed(corpus)
      /\ analysis # NoAnalysis => AnalysisOf(analysis, corpus) = analysis
  BY AnalysisCovers DEF TypeOK, AnalysisOf
<1>3. TypeOK'
  BY <1>2 DEF TypeOK
<1>4. CorpusFresh' /\ RebuildDue' /\ ShownTracked' /\ ScreenTrue'
  <2>1. CorpusFresh' /\ RebuildDue' /\ ShownTracked'
    BY DEF CorpusFresh, RebuildDue, ShownTracked
  <2>2. panicReported => panicReported'
    BY Zenon
  <2>3. ScreenTrue'
    BY <2>2 DEF ScreenTrue
  <2> QED
    BY <2>1, <2>3
<1>5. AnswersFresh'
  <2>1. CASE analysis' = analysis
    BY <2>1 DEF AnswersFresh
  <2>2. CASE analysis = NoAnalysis /\ analysis' = Recomputed(corpus)
    <3>1. \A f \in Files \ Fragments : analysis'[f] = docs'[f]
      BY <2>2 DEF Recomputed
    <3>2. \A f \in Fragments : analysis'[f] = corpus[f]
      BY <2>2 DEF Recomputed, Files
    <3> QED
      BY <3>1, <3>2 DEF AnswersFresh, CorpusFresh, RebuildDue
  <2> QED
    BY <1>2, <2>1, <2>2
<1> QED
  BY <1>3, <1>4, <1>5

(* The recompute makes the screen true. *)
LEMMA RecomputeKeeps == ServerInv /\ Recompute => ServerInv'
<1> SUFFICES ASSUME ServerInv, Recompute PROVE ServerInv'
  OBVIOUS
<1> DEFINE texts == AnalysisOf(CacheNow, CorpusNow)
<1>1. /\ texts \in [Files -> Texts]
      /\ \A f \in Files \ Fragments : texts[f] = docs[f]
      /\ ~torn => texts = docs
  BY RecomputeSeesOverlay
<1>2. /\ pc' = "turn" /\ dirty' = "clean" /\ fragmentsDirty' = FALSE
      /\ corpus' = CorpusNow /\ analysis' = texts
      /\ shown' = Screen(texts) /\ published' = Diagnosed(texts)
      /\ UNCHANGED <<docs, panicReported, torn>>
  BY DEF Recompute
<1> HIDE DEF texts
<1>3. \A f \in Files : Diagnosis(f, texts) \subseteq Files
  BY DEF Diagnosis, Reads, Files
<1>4. TypeOK'
  BY <1>1, <1>2, <1>3, CorpusNowType DEF ServerInv, TypeOK, Screen, Diagnosed, Files
<1>5. CorpusFresh'
  BY <1>2 DEF CorpusFresh, CorpusNow, ServerInv
<1>6. RebuildDue'
  BY <1>2 DEF RebuildDue
<1>7. ~torn => \A f \in Files : shown'[f] = Diagnosis(f, texts)
  BY <1>2 DEF ServerInv, ShownTracked, Screen, Diagnosed
<1>8. ShownTracked'
  BY <1>2, <1>7 DEF ShownTracked, Diagnosed
<1>9. AnswersFresh'
  BY <1>1, <1>2 DEF AnswersFresh, Files
<1>10. ScreenTrue'
  <2>1. ~torn => shown' = [f \in Files |-> Diagnosis(f, docs)]
    BY <1>1, <1>2, <1>7 DEF Screen
  <2>2. [f \in Files |-> Diagnosis(f, docs)] = [f \in Files |-> Diagnosis(f, docs')]
    BY <1>2
  <2> QED
    BY <1>2, <2>1, <2>2 DEF ScreenTrue
<1> QED
  BY <1>4, <1>5, <1>6, <1>8, <1>9, <1>10 DEF ServerInv

(* A panic leaves a report, and what is cached is still fresh. *)
LEMMA PanicKeeps == ServerInv /\ (RebuildPanics \/ AnalysisPanics \/ PublishPanics) => ServerInv'
<1>1. ASSUME ServerInv, RebuildPanics PROVE ServerInv'
  <2> USE <1>1 DEF ServerInv, RebuildPanics
  <2>1. TypeOK'
    BY DEF TypeOK
  <2>2. CorpusFresh' /\ RebuildDue' /\ ShownTracked'
    BY DEF CorpusFresh, RebuildDue, ShownTracked
  <2>3. AnswersFresh' /\ ScreenTrue'
    BY DEF AnswersFresh, ScreenTrue
  <2> QED
    BY <2>1, <2>2, <2>3
<1>2. ASSUME ServerInv, AnalysisPanics PROVE ServerInv'
  <2> USE <1>2 DEF ServerInv, AnalysisPanics
  <2>1. TypeOK'
    BY CorpusNowType DEF TypeOK
  <2>2. CorpusFresh'
    BY DEF CorpusFresh, CorpusNow
  <2>3. RebuildDue' /\ ShownTracked'
    BY DEF RebuildDue, ShownTracked
  <2>4. AnswersFresh' /\ ScreenTrue'
    BY DEF AnswersFresh, ScreenTrue, NoAnalysis
  <2> QED
    BY <2>1, <2>2, <2>3, <2>4
<1>3. ASSUME ServerInv, PublishPanics PROVE ServerInv'
  <2> DEFINE texts == AnalysisOf(CacheNow, CorpusNow)
  <2>1. /\ texts \in [Files -> Texts]
        /\ \A f \in Files \ Fragments : texts[f] = docs[f]
    BY <1>3, RecomputeSeesOverlay
  <2>2. /\ pc' = "turn" /\ dirty' = "clean" /\ fragmentsDirty' = FALSE
        /\ corpus' = CorpusNow /\ analysis' = texts
        /\ panicReported' = TRUE /\ torn' = TRUE
        /\ UNCHANGED <<docs, published>>
    BY <1>3 DEF PublishPanics
  <2>3. PICK sent \in SUBSET Diagnosed(texts) :
            shown' = [f \in Files |-> IF f \in sent THEN Screen(texts)[f] ELSE shown[f]]
    BY <1>3 DEF PublishPanics
  <2> HIDE DEF texts
  <2>4. \A f \in Files : Screen(texts)[f] \subseteq Files
    BY <1>3 DEF Screen, Diagnosis, Reads, Files, ServerInv, TypeOK
  <2>5. shown' \in [Files -> SUBSET Files]
    BY <1>3, <2>3, <2>4 DEF ServerInv, TypeOK
  <2>6. TypeOK'
    BY <1>3, <2>1, <2>2, <2>5, CorpusNowType DEF ServerInv, TypeOK
  <2>7. CorpusFresh' /\ RebuildDue' /\ ShownTracked' /\ ScreenTrue'
    BY <2>2 DEF CorpusFresh, RebuildDue, ShownTracked, ScreenTrue
  <2>8. AnswersFresh'
    BY <2>1, <2>2 DEF AnswersFresh
  <2> QED
    BY <2>6, <2>7, <2>8 DEF ServerInv
<1> QED
  BY <1>1, <1>2, <1>3

-----------------------------------------------------------------------------
(* The invariant is inductive. *)
LEMMA NextKeeps == ServerInv /\ [Next]_vars => ServerInv'
<1> QED
  BY ElapseKeeps, MovesKeep, EditKeeps, AnswerKeeps, RecomputeKeeps, PanicKeeps
     DEF Next, Loop, Messages, Panic, Gone

(* Every variable keeps its type, whatever the suite (server.rs, `State`). *)
THEOREM TypeCorrect == Spec => []TypeOK
<1>1. ServerInv => TypeOK
  BY DEF ServerInv
<1> QED
  BY InitInv, NextKeeps, <1>1, PTL DEF Spec

(* No request is answered from text that no longer exists, but for fragments whose
   rebuild is due (server.rs, `analysis`). *)
THEOREM AnswersFreshHolds == Spec => []AnswersFresh
<1>1. ServerInv => AnswersFresh
  BY DEF ServerInv
<1> QED
  BY InitInv, NextKeeps, <1>1, PTL DEF Spec

(* A screen at rest shows what is wrong with the client's text, for any suite
   (server.rs, `run_recompute`; diagnostics.rs, `publish`). *)
THEOREM ScreenTrueHolds == Spec => []ScreenTrue
<1>1. ServerInv => ScreenTrue
  BY DEF ServerInv
<1> QED
  BY InitInv, NextKeeps, <1>1, PTL DEF Spec

-----------------------------------------------------------------------------
(***************************************************************************)
(* The watch loop: both properties are read off one inductive invariant.    *)
(***************************************************************************)
USE DirsAssumption

WInv == WatchTypeOK /\ FlagTold /\ WritesRegistered /\ InterruptReachesRun /\ NeverSelfFed

(* The loop starts with nothing written, nothing signalled (watch.rs,
   `watch_loop`). *)
LEMMA InitWInv == WatchInit => WInv
  BY DEF WatchInit, WInv, WatchTypeOK, FlagTold, WritesRegistered, InterruptReachesRun,
         NeverSelfFed, Places, Notices

(* Each step of the loop, of the handler and of the watcher keeps it. *)
LEMMA NextWInv == WInv /\ [WatchNext]_watchVars => WInv'
<1> SUFFICES ASSUME WInv, [WatchNext]_watchVars PROVE WInv'
  OBVIOUS
<1> USE DEF WInv, WatchTypeOK, FlagTold, WritesRegistered, InterruptReachesRun,
            NeverSelfFed, Places, Notices
<1>1. CASE StoreToken   BY <1>1 DEF StoreToken
<1>2. CASE CheckStop    BY <1>2 DEF CheckStop
<1>3. CASE Reload       BY <1>3 DEF Reload
<1>4. CASE RunEnds      BY <1>4 DEF RunEnds
<1>5. CASE AfterRun     BY <1>5 DEF AfterRun
<1>6. CASE WaitStop     BY <1>6 DEF WaitStop
<1>7. ASSUME TakeNotice PROVE chan' \subseteq chan
  BY <1>7 DEF TakeNotice
<1>8. CASE WaitTake     BY <1>7, <1>8 DEF WaitTake
<1>9. CASE Drain        BY <1>7, <1>9 DEF Drain
<1>10. CASE FirstSignal  BY <1>10 DEF FirstSignal, Ended
<1>11. CASE SecondSignal BY <1>11 DEF SecondSignal, Ended
<1>12. CASE Edit         BY <1>12 DEF Edit
<1>13. CASE RunWrites    BY <1>13 DEF RunWrites
<1>14. CASE Deliver
  \* What notify hands over was written by a run, so it is registered.
  <2>1. PICK d \in undelivered :
            /\ undelivered' \in {undelivered, undelivered \ {d}}
            /\ chan' = IF d \in registered THEN chan ELSE chan \cup {"ownOutput"}
    BY <1>14 DEF Deliver
  <2>2. chan' = chan /\ undelivered' \subseteq undelivered
    BY <2>1
  <2> QED
    BY <1>14, <2>2 DEF Deliver
<1>15. CASE WatcherError BY <1>15 DEF WatcherError
<1>16. CASE UNCHANGED watchVars BY <1>16 DEF watchVars
<1> QED
  BY <1>1, <1>2, <1>3, <1>4, <1>5, <1>6, <1>8, <1>9, <1>10, <1>11, <1>12,
     <1>13, <1>14, <1>15, <1>16 DEF WatchNext, WatchLoop, Over

LEMMA WInvHolds == WatchSpec => []WInv
  BY InitWInv, NextWInv, PTL DEF WatchSpec

(* When the handler is through, the run under way or about to be is cancelled,
   between which two runs it may have come (watch.rs, `watch_loop`). *)
THEOREM InterruptReachesRunHolds == WatchSpec => []InterruptReachesRun
<1>1. WInv => InterruptReachesRun
  BY DEF WInv
<1> QED
  BY <1>1, WInvHolds, PTL

(* Whatever the runs dir is changed to, and however late its events come, the
   session's own output is never a notice (watch.rs, `RunsDirs`). *)
THEOREM NeverSelfFedHolds == WatchSpec => []NeverSelfFed
<1>1. WInv => NeverSelfFed
  BY DEF WInv
<1> QED
  BY <1>1, WInvHolds, PTL
=============================================================================
