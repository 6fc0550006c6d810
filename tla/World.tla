-------------------------------- MODULE World --------------------------------
(***************************************************************************)
(* The values a run captures and where they end up (core/world.rs): the     *)
(* scenario's World, the run's store, and the state file that processes     *)
(* share; and the masks between a secret and whatever is kept or shown      *)
(* (core/report.rs, Redactions; the details of proef-engine-hurl).          *)
(* Scenarios come one after the other; Runner has them in parallel.         *)
(***************************************************************************)
EXTENDS Integers, FiniteSets, SequencesExt

CONSTANTS
    Procs,      \* the processes, each one `proef test`
    Names,      \* variables
    Plain,      \* characters that are no part of a secret
    Forms,      \* the forms of each secret: itself, base64 with and without padding, hex ...
    Texts,      \* texts that a server may answer
    Numbers,    \* numbers that it may answer
    Scenarios,  \* how many scenarios a run has
    Most        \* MAX_BYTES of a detail (8 KiB)

ASSUME WorldAssumption == \A forms \in Forms : <<>> \notin forms

VARIABLES
    stateFile,  \* .proef-state.json: a store, Missing or Torn
    scratch,    \* temporary files, by path: likewise
    runs,       \* the processes
    author      \* the process whose store is in the file

wvars == <<stateFile, scratch, runs, author>>

\* One store over another, and one entry over a function: what @@ and :> do,
\* spelled out because the provers do not know them.
Over(f, g) == [x \in DOMAIN f \cup DOMAIN g |-> IF x \in DOMAIN f THEN f[x] ELSE g[x]]
Put(f, at, value) == [x \in DOMAIN f \cup {at} |-> IF x = at THEN value ELSE f[x]]

Missing == [torn |-> FALSE, exists |-> FALSE, values |-> <<>>]
Torn == [torn |-> TRUE, exists |-> TRUE, values |-> <<>>]
Whole(store) == [torn |-> FALSE, exists |-> TRUE, values |-> store]

-----------------------------------------------------------------------------
(***************************************************************************)
(* Redactions: every form of every secret, longest first, since one may be  *)
(* the beginning of another.                                                *)
(***************************************************************************)
Mask == "*"
Cut == "~"

Needles == UNION Forms

\* Redactions::new sorts and drops doubles; equal lengths come in some order.
LongestFirst ==
    CHOOSE s \in [1..Cardinality(Needles) -> Needles] :
        /\ \A needle \in Needles : \E i \in DOMAIN s : s[i] = needle
        /\ \A i, j \in DOMAIN s : i < j => Len(s[i]) >= Len(s[j])

\* str::replace, from left to right.
Starts(text, n, needle) == SubSeq(text, n, n + Len(needle) - 1) = needle

Replaced(text, needle) ==
    LET from[n \in 1..(Len(text) + 1)] ==
            IF n > Len(text) THEN <<>>
            ELSE IF n + Len(needle) - 1 <= Len(text) /\ Starts(text, n, needle)
                 THEN <<Mask>> \o from[n + Len(needle)]
                 ELSE <<text[n]>> \o from[n + 1]
    IN  from[1]

Apply(text) ==
    LET after[i \in 0..Cardinality(Needles)] ==
            IF i = 0 THEN text ELSE Replaced(after[i - 1], LongestFirst[i])
    IN  after[Cardinality(Needles)]

Characters == Plain \cup {Mask, Cut} \cup UNION {ToSet(needle) : needle \in Needles}

\* Secrets are not written with what a text around them, a mask or a cut is
\* written with, and are not empty (Redactions::new leaves those out).
ASSUME SecretsAssumption ==
    /\ IsFiniteSet(Needles) /\ Needles \subseteq Seq(Characters)
    /\ \A needle \in Needles : ToSet(needle) \cap (Plain \cup {Mask, Cut}) = {}

\* A form of a secret with plain characters, or nothing, on either side.
Apart(text, n, needle) ==
    /\ n + Len(needle) - 1 <= Len(text) /\ Starts(text, n, needle)
    /\ n = 1 \/ text[n - 1] \in Plain
    /\ n + Len(needle) = Len(text) + 1 \/ text[n + Len(needle)] \in Plain

\* What an answer quotes of a secret it quotes in full.
ASSUME TextsAssumption ==
    /\ Most \in Nat /\ Texts \subseteq Seq(Characters)
    /\ \A text \in Texts : \A p \in 1..Len(text) :
          \/ text[p] \in Plain
          \/ \E needle \in Needles, n \in 1..p : Apart(text, n, needle) /\ p < n + Len(needle)

Taints(text) == \E needle \in Needles : \E n \in 1..(Len(text) - Len(needle) + 1) : Starts(text, n, needle)

\* cap_detail: the middle of a long detail is cut out.
Cap(text) ==
    IF Len(text) <= Most THEN text
    ELSE SubSeq(text, 1, Most \div 2) \o <<Cut>> \o SubSeq(text, Len(text) - (Most \div 8) + 1, Len(text))

\* A bug: a detail is cut before it is masked.
DetailCutFirst(text) == Apply(Cap(text))

\* A failure's detail: masked by the engine, cut, and masked again on its way
\* to the record (apply_event) and to the summary's readers (apply_outcome).
Detail(text) == Apply(Cap(Apply(text)))

-----------------------------------------------------------------------------
Text(t) == [kind |-> "text", text |-> t]
Number(n) == [kind |-> "number", text |-> n]
Values == {Text(t) : t \in Texts} \cup {Number(n) : n \in Numbers}

NoScenario == [scope |-> <<>>, global |-> <<>>, promoted |-> {}]

NewRun == [at |-> "begun", base |-> <<>>, store |-> <<>>, promotions |-> <<>>,
           world |-> NoScenario, left |-> Scenarios, detail |-> <<>>]

\* World::get: what the scenario sees of a name.
Seen(world) == Over(world.scope, world.global)

WorldInit ==
    /\ stateFile = Missing
    /\ scratch = <<>>
    /\ runs = [p \in Procs |-> NewRun]
    /\ author = {}

Stands(p, stage) == runs[p].at = stage

(***************************************************************************)
(* GlobalStore::load.  A file that is no JSON is a system error.            *)
(***************************************************************************)
LoadState(p) ==
    /\ Stands(p, "begun")
    /\ runs' = [runs EXCEPT ![p].at = IF stateFile.torn THEN "refused" ELSE "between",
                            ![p].base = stateFile.values, ![p].store = stateFile.values]
    /\ UNCHANGED <<stateFile, scratch, author>>

\* World::new, over a snapshot of the store.
OpenWorld(p) ==
    /\ Stands(p, "between") /\ runs[p].left > 0
    /\ runs' = [runs EXCEPT ![p].at = "scenario", ![p].left = @ - 1,
                            ![p].world = [scope |-> <<>>, global |-> runs[p].store, promoted |-> {}]]
    /\ UNCHANGED <<stateFile, scratch, author>>

(***************************************************************************)
(* A capture.  World::set takes it in any case; World::set_global, when     *)
(* `saveAs: global` is asked for, only when it is no text with a secret.    *)
(***************************************************************************)
Refused(value) == value.kind = "text" /\ Taints(value.text)

Capture(p, name, value, saveAs) ==
    /\ Stands(p, "scenario")
    /\ LET kept == saveAs /\ ~ Refused(value) IN
       runs' = [runs EXCEPT
           ![p].world.scope = Put(@, name, value),
           ![p].world.global = IF kept THEN Put(@, name, value) ELSE @,
           ![p].world.promoted = IF kept THEN @ \cup {name} ELSE @]
    /\ UNCHANGED <<stateFile, scratch, author>>

\* A step fails, and its detail quotes an answer or a variable.
Fail(p, text) ==
    /\ Stands(p, "scenario")
    /\ runs' = [runs EXCEPT ![p].detail = Detail(text)]
    /\ UNCHANGED <<stateFile, scratch, author>>

\* The scenario ends: its promotions, and nothing else of its World, are merged.
Merge(p) ==
    /\ Stands(p, "scenario")
    /\ LET world == runs[p].world
           writeSet == [name \in world.promoted |-> world.global[name]]
       IN  runs' = [runs EXCEPT ![p].at = "between", ![p].world = NoScenario,
                                ![p].store = Over(writeSet, @),
                                ![p].promotions = Over(writeSet, @)]
    /\ UNCHANGED <<stateFile, scratch, author>>

\* Its thread panics, and the World is gone with it.
PanicInScenario(p) ==
    /\ Stands(p, "scenario")
    /\ runs' = [runs EXCEPT ![p].at = "between", ![p].world = NoScenario]
    /\ UNCHANGED <<stateFile, scratch, author>>

(***************************************************************************)
(* GlobalStore::save: create or empty the temporary file, write it, rename  *)
(* it.  An error at any point is a warning, and leaves that file behind.    *)
(***************************************************************************)
\* A bug: the temporary file has one name for all processes.
TmpShared(p) == "tmp"

TmpPath(p) == p

OpenTmp(p) ==
    /\ Stands(p, "between") /\ runs[p].left = 0
    /\ runs' = [runs EXCEPT ![p].at = "writing"]
    /\ scratch' = Put(scratch, TmpPath(p), Torn)
    /\ UNCHANGED <<stateFile, author>>

WriteTmp(p) ==
    /\ Stands(p, "writing")
    /\ runs' = [runs EXCEPT ![p].at = "renaming"]
    /\ scratch' = Put(scratch, TmpPath(p), Whole(runs[p].store))
    /\ UNCHANGED <<stateFile, author>>

Rename(p) ==
    /\ Stands(p, "renaming")
    /\ TmpPath(p) \in DOMAIN scratch
    /\ stateFile' = scratch[TmpPath(p)]
    /\ scratch' = [path \in DOMAIN scratch \ {TmpPath(p)} |-> scratch[path]]
    /\ author' = {p}
    /\ runs' = [runs EXCEPT ![p].at = "over"]

SaveFails(p) ==
    /\ runs[p].at \in {"writing", "renaming"}
    /\ runs' = [runs EXCEPT ![p].at = "over"]
    /\ UNCHANGED <<stateFile, scratch, author>>

KillRun(p) ==
    /\ runs[p].at \notin {"over", "refused", "killed"}
    /\ runs' = [runs EXCEPT ![p].at = "killed", ![p].world = NoScenario]
    /\ UNCHANGED <<stateFile, scratch, author>>

Quoted(p) == Texts \cup {v.text : v \in {w \in {Seen(runs[p].world)[n] : n \in DOMAIN Seen(runs[p].world)} : w.kind = "text"}}

WorldStep ==
    \E p \in Procs :
        \/ LoadState(p) \/ OpenWorld(p) \/ Merge(p) \/ PanicInScenario(p)
        \/ \E name \in Names, value \in Values, saveAs \in BOOLEAN : Capture(p, name, value, saveAs)
        \/ \E text \in Quoted(p) : Fail(p, text)
        \/ OpenTmp(p) \/ WriteTmp(p) \/ Rename(p) \/ SaveFails(p) \/ KillRun(p)

WorldSpec == WorldInit /\ [][WorldStep]_wvars

-----------------------------------------------------------------------------
(***************************************************************************)
(* StateSound: however processes overlap, fail or are killed while they     *)
(* save, the state file is whole, a later run can load it, and it holds     *)
(* what its author had loaded and, over that, the promotions of that run's  *)
(* scenarios that came to their end (GlobalStore::load, save; World).       *)
(***************************************************************************)
StateSound ==
    /\ ~ stateFile.torn
    /\ \A p \in Procs : runs[p].at # "refused"
    /\ \A p \in author : stateFile = Whole(Over(runs[p].promotions, runs[p].base))

(***************************************************************************)
(* SecretsStayOut: no text with a secret, in any of its forms, gets into    *)
(* the state file, into what is left of an interrupted save or into a       *)
(* failure's detail, and a detail shows nothing but plain text, masks and   *)
(* cuts: no rest of a secret that was masked or cut in part (World,         *)
(* Redactions, cap_detail).                                                 *)
(***************************************************************************)
CleanStore(store) == \A name \in DOMAIN store : store[name].kind = "text" => ~ Taints(store[name].text)

StoresClean ==
    /\ CleanStore(stateFile.values)
    /\ \A path \in DOMAIN scratch : CleanStore(scratch[path].values)

SecretsStayOut ==
    /\ StoresClean
    /\ \A p \in Procs : ToSet(runs[p].detail) \subseteq Plain \cup {Mask, Cut}

=============================================================================
