--------------------------- MODULE LanguageServer ---------------------------
(***************************************************************************)
(* The language server, proef-lsp: one thread that reads the client's      *)
(* messages, applies edits to the overlay, answers requests from a cached  *)
(* analysis of the whole suite, and republishes diagnostics when an edit is*)
(* one debounce window old (server.rs, documents.rs, diagnostics.rs).      *)
(*                                                                         *)
(* A text is good or bad, and the diagnostics of a file are the bad files  *)
(* that it reads.  Files change through the client only; a document that   *)
(* is closed has the text it has on disk.  The channel keeps the order of  *)
(* what the client sends, so that a message appears here when it is        *)
(* received; what the server sends is on the screen at once.               *)
(***************************************************************************)
CONSTANTS
    Features, Packs, Fragments,  \* the files of the suite
    OnDisk                       \* their texts on disk

Files == Features \cup Packs \cup Fragments
Texts == {"good", "bad"}

ASSUME FilesAssumption ==
    /\ Features # {}
    /\ Features \cap Packs = {} /\ Features \cap Fragments = {} /\ Packs \cap Fragments = {}
ASSUME DiskAssumption == OnDisk \in [Files -> Texts]

VARIABLES
    pc,             \* main_loop: at the top of a turn, in recv, or gone
    docs,           \* the text that the overlay gives to each file
    corpus,         \* the texts of the fragments, as read_fragments found them
    fragmentsDirty,
    analysis,       \* the texts that the cached analysis was made from, or NoAnalysis
    panicReported,
    dirty,          \* dirty_since: "clean", "pending", or "due" after the debounce
    published,      \* the files of the latest publish
    shown,          \* the client's screen: the diagnostics of each file
    torn            \* history: a panic has struck in the middle of a rebuild of
                    \* the corpus, or of a publish

serverVars == <<pc, docs, corpus, fragmentsDirty, analysis, panicReported, dirty, published>>
vars == <<serverVars, shown, torn>>

-----------------------------------------------------------------------------
(* The analysis *)

NoAnalysis == [f \in {} |-> "good"]

\* What the diagnostics of a file depend on.
Reads(f) == {f} \cup (IF f \in Features THEN Packs \cup Fragments
                      ELSE IF f \in Packs THEN Fragments ELSE {})
Diagnosis(f, texts) == {g \in Reads(f) : texts[g] = "bad"}

\* A feature has an entry though it is clean; packs and fragments have not.
Diagnosed(texts) == Features \cup {f \in Files : Diagnosis(f, texts) # {}}

\* recompute: packs and features through the overlay, fragments from the corpus.
Recomputed(fragments) == [f \in Files |-> IF f \in Fragments THEN fragments[f] ELSE docs[f]]
AnalysisOf(cache, fragments) == IF cache = NoAnalysis THEN Recomputed(fragments) ELSE cache

-----------------------------------------------------------------------------
(* main_loop *)

Init ==
    /\ pc = "turn"
    /\ docs = OnDisk
    /\ corpus = [f \in Fragments |-> OnDisk[f]]
    /\ fragmentsDirty = FALSE
    /\ analysis = NoAnalysis
    /\ panicReported = FALSE
    /\ dirty = "clean"
    /\ published = {}
    /\ shown = [f \in Files |-> {}]
    /\ torn = FALSE

\* The debounce window ends.
Elapse ==
    /\ pc # "done" /\ dirty = "pending"
    /\ dirty' = "due"
    /\ UNCHANGED <<pc, docs, corpus, fragmentsDirty, analysis, panicReported, published,
                   shown, torn>>

\* A turn that finds nothing due goes to recv; the clock may run out on it there.
Turn ==
    /\ pc = "turn" /\ dirty # "due"
    /\ pc' = "wait"
    /\ UNCHANGED <<docs, corpus, fragmentsDirty, analysis, panicReported, dirty, published,
                   shown, torn>>

\* A message arrives.
Receive == pc = "wait"

\* Mutant: every edit restarts the debounce.
DirtyRestarted == "pending"

DirtyByEdit == IF dirty = "clean" THEN "pending" ELSE dirty

\* didOpen, didChange, didClose: apply_notification, and what the loop makes of it.
ApplyEdit(f, text) ==
    /\ Receive
    /\ docs' = [docs EXCEPT ![f] = text]
    /\ fragmentsDirty' = (fragmentsDirty \/ f \in Fragments)
    /\ analysis' = NoAnalysis
    /\ panicReported' = FALSE
    /\ dirty' = DirtyByEdit
    /\ pc' = "turn"
    /\ UNCHANGED <<corpus, published, shown, torn>>

\* answer: the analysis is in the cache from then on, even if the handler panics.
Answer ==
    /\ Receive
    /\ analysis' = AnalysisOf(analysis, corpus)
    /\ panicReported' \in {panicReported, TRUE}
    /\ pc' = "turn"
    /\ UNCHANGED <<docs, corpus, fragmentsDirty, dirty, published, shown, torn>>

\* The analysis panics under a request.
AnswerPanics ==
    /\ Receive /\ analysis = NoAnalysis
    /\ panicReported' = TRUE
    /\ pc' = "turn"
    /\ UNCHANGED <<docs, corpus, fragmentsDirty, analysis, dirty, published, shown, torn>>

\* Malformed params, an unknown method, a notification of no concern, a response.
Ignore ==
    /\ Receive
    /\ pc' = "turn"
    /\ UNCHANGED <<docs, corpus, fragmentsDirty, analysis, panicReported, dirty, published,
                   shown, torn>>

\* Shutdown, or the client is gone, or does not take an answer.
Leave ==
    /\ Receive
    /\ pc' = "done"
    /\ UNCHANGED <<docs, corpus, fragmentsDirty, analysis, panicReported, dirty, published,
                   shown, torn>>

-----------------------------------------------------------------------------
(* run_recompute *)

Due == pc \in {"turn", "wait"} /\ dirty = "due"

\* The corpus, and the cache it retires.
CorpusNow == IF fragmentsDirty THEN [f \in Fragments |-> docs[f]] ELSE corpus

\* Mutant: a rebuilt corpus does not retire what was computed against the old one.
CacheNowKept == analysis

CacheNow == IF fragmentsDirty THEN NoAnalysis ELSE analysis

\* Mutant: a file that has become clean is not cleared.
ScreenUncleared(texts) ==
    [f \in Files |-> IF f \in Diagnosed(texts) THEN Diagnosis(f, texts) ELSE shown[f]]

\* publish: every diagnosed file, and those of the latest publish that are clean.
Screen(texts) == [f \in Files |-> IF f \in Diagnosed(texts) THEN Diagnosis(f, texts)
                                  ELSE IF f \in published THEN {} ELSE shown[f]]

Recompute ==
    LET texts == AnalysisOf(CacheNow, CorpusNow) IN
    /\ Due
    /\ corpus' = CorpusNow
    /\ fragmentsDirty' = FALSE
    /\ analysis' = texts
    /\ shown' = Screen(texts)
    /\ published' = Diagnosed(texts)
    /\ dirty' = "clean"
    /\ pc' = "turn"
    /\ UNCHANGED <<docs, panicReported, torn>>

\* read_fragments panics: the flag is taken already.
RebuildPanics ==
    /\ Due /\ fragmentsDirty
    /\ fragmentsDirty' = FALSE
    /\ panicReported' = TRUE
    /\ torn' = TRUE
    /\ dirty' = "clean"
    /\ pc' = "turn"
    /\ UNCHANGED <<docs, corpus, analysis, published, shown>>

\* The analysis panics.
AnalysisPanics ==
    /\ Due /\ CacheNow = NoAnalysis
    /\ corpus' = CorpusNow
    /\ fragmentsDirty' = FALSE
    /\ analysis' = NoAnalysis
    /\ panicReported' = TRUE
    /\ dirty' = "clean"
    /\ pc' = "turn"
    /\ UNCHANGED <<docs, published, shown, torn>>

\* publish panics in the loop over the diagnosed files: some have been sent, and
\* `published` is as it was.
PublishPanics ==
    LET texts == AnalysisOf(CacheNow, CorpusNow) IN
    /\ Due
    /\ corpus' = CorpusNow
    /\ fragmentsDirty' = FALSE
    /\ analysis' = texts
    /\ \E sent \in SUBSET Diagnosed(texts) :
           shown' = [f \in Files |-> IF f \in sent THEN Screen(texts)[f] ELSE shown[f]]
    /\ panicReported' = TRUE
    /\ torn' = TRUE
    /\ dirty' = "clean"
    /\ pc' = "turn"
    /\ UNCHANGED <<docs, published>>

Loop     == Turn \/ Recompute
Messages == \/ \E f \in Files, text \in Texts : ApplyEdit(f, text)
            \/ Answer \/ Ignore \/ Leave
Panic    == AnswerPanics \/ RebuildPanics \/ AnalysisPanics \/ PublishPanics

\* The server has left.
Gone == pc = "done" /\ UNCHANGED vars

Next == Elapse \/ Loop \/ Messages \/ Panic \/ Gone

\* The loop's thread is scheduled and time passes; nothing is expected of the client.
Spec == Init /\ [][Next]_vars /\ WF_vars(Loop) /\ WF_vars(Elapse)

-----------------------------------------------------------------------------
(* Properties *)

\* Every variable has its type.
TypeOK ==
    /\ pc \in {"turn", "wait", "done"}
    /\ docs \in [Files -> Texts]
    /\ corpus \in [Fragments -> Texts]
    /\ fragmentsDirty \in BOOLEAN
    /\ analysis \in {NoAnalysis} \cup [Files -> Texts]
    /\ panicReported \in BOOLEAN
    /\ dirty \in {"clean", "pending", "due"}
    /\ published \subseteq Files
    /\ shown \in [Files -> SUBSET Files]
    /\ torn \in BOOLEAN

(* No request is answered from text that no longer exists: the cached analysis has
   seen every edit of a feature or a pack that was taken from the channel, and of a
   fragment every one but those that the pending recompute brings in (server.rs,
   `analysis`, `apply_notification`). *)
AnswersFresh ==
    analysis # NoAnalysis =>
        /\ \A f \in Files \ Fragments : analysis[f] = docs[f]
        /\ \A f \in Fragments : \/ torn \/ analysis[f] = docs[f]
                                  \/ (fragmentsDirty /\ dirty # "clean")

(* A screen at rest is a true one: once the recompute has run, every file shows what
   is wrong with the text that the client gave it, files that became clean are
   cleared - or the user has been told that analysis failed on this very edit. *)
ScreenTrue ==
    dirty = "clean" =>
        \/ torn \/ panicReported \/ published = {}
        \/ shown = [f \in Files |-> Diagnosis(f, docs)]

(* However fast the client types and asks, an edit is followed by a recompute; the
   debounce runs from the first edit of a burst (server.rs, `dirty_since`). *)
EditsReachScreen == dirty = "pending" ~> dirty = "clean" \/ pc = "done"
=============================================================================
