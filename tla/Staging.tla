------------------------------- MODULE Staging -------------------------------
(***************************************************************************)
(* The files that a scenario's requests send (cli/assets.rs): each is       *)
(* copied from beside the source that names it into the scenario's own      *)
(* asset root, which is what the engine reads from while the scenario runs. *)
(* The root is named by the scenario's slug (core/emit.rs); scenarios stage *)
(* and run side by side.  The cap of a slug (120 bytes and a hash) is left  *)
(* out: no text here is that long.                                          *)
(***************************************************************************)
EXTENDS Integers, SequencesExt

CONSTANTS
    Casts,      \* the scenarios of a run: sequences of [file, name, beside, wants]
    Folding,    \* volumes on which `D` and `d` are one file
    Volumes,    \* the volumes to choose from
    Leftovers   \* what an earlier run of the same id may have left at `d`

ASSUME StagingAssumption ==
    \A c \in Casts : \A s \in DOMAIN c : Len(c[s].wants) \in Nat /\ DOMAIN c[s].wants = 1..Len(c[s].wants)

VARIABLES
    cast,       \* the scenarios
    volume,     \* the volume
    roots,      \* the asset roots: from slug and file to what is there
    stagers,    \* per scenario: where its thread is, its next asset, what has landed
    records     \* per slug: whose artifact is in the run's directory

gvars == <<cast, volume, roots, stagers, records>>

-----------------------------------------------------------------------------
(***************************************************************************)
(* slugify: letters in lower case, all else one dash between them; and      *)
(* artifact_slug, of a path and a scenario's name.                          *)
(***************************************************************************)
Letters == {"a", "b", "c"}

SlugStep(slug, c) ==
    IF c \notin Letters THEN [slug EXCEPT !.pending = TRUE]
    ELSE [pending |-> FALSE,
          out |-> slug.out \o (IF slug.pending /\ slug.out # <<>> THEN <<"-", c>> ELSE <<c>>)]

Slugify(text) == FoldLeft(SlugStep, [out |-> <<>>, pending |-> FALSE], text).out

ArtifactSlug(s) == <<Slugify(cast[s].file), Slugify(cast[s].name)>>

-----------------------------------------------------------------------------
\* The directory that a source was read from (AssetRoots::source_dir); two
\* fragment files may share one, and a fragment may be in no corpus.
DirOf(s, from) ==
    CASE from = "feature" -> cast[s].beside
      [] from \in {"one.hurl", "two.hurl"} -> "fragments"
      [] from = "three.hurl" -> "more"
      [] OTHER -> "none"

Escapes(name) == name = "../d"

\* The file that a reference is to the volume.
FileOf(name) ==
    CASE name = "./d" -> "d"
      [] name = "D" /\ volume \in Folding -> "d"
      [] OTHER -> name

Source(s, asset) == <<DirOf(s, asset.from), FileOf(asset.name)>>
Exists(asset) == asset.name # "gone"

Wants(s) == cast[s].wants

\* resolve_assets refuses before anything is touched.
Unstageable(s, i) ==
    LET asset == Wants(s)[i] IN
    \/ Escapes(asset.name)
    \/ DirOf(s, asset.from) = "none"
    \/ \E j \in 1..(i - 1) : Wants(s)[j].name = asset.name /\ DirOf(s, Wants(s)[j].from) # DirOf(s, asset.from)
    \/ ~ Exists(asset)

\* One entry more in a function, or another one: what :> and @@ do, spelled out
\* because the provers do not know them.
With(f, at, value) == [x \in DOMAIN f \cup {at} |-> IF x = at THEN value ELSE f[x]]

\* What a reader of the root gets: the bytes of a source, or of none.
Half == <<"half", "half">>
There(slug, file) == IF <<slug, file>> \in DOMAIN roots THEN roots[<<slug, file>>] ELSE <<"none", "none">>

StageInit ==
    /\ cast \in Casts
    /\ volume \in Volumes
    /\ \E left \in Leftovers : roots = [at \in {<<ArtifactSlug(s), "d">> : s \in DOMAIN cast} |-> left]
    /\ stagers = [s \in DOMAIN cast |-> [at |-> "preparing", next |-> 1, landed |-> <<>>]]
    /\ records = <<>>

Resolve(s) ==
    /\ stagers[s].at = "preparing"
    /\ stagers' = [stagers EXCEPT ![s].at =
                     IF \E i \in DOMAIN Wants(s) : Unstageable(s, i) THEN "refused" ELSE "staging"]
    /\ UNCHANGED <<cast, volume, roots, records>>

(***************************************************************************)
(* stage_assets copies one asset after the other.  A link that is there in  *)
(* its place is taken away first; and two references that turn out to be    *)
(* one file are refused, since the bytes are those of the second.           *)
(***************************************************************************)
\* A bug: references are kept apart by their spelling alone.
ConvergesNever(s, name) == FALSE

Converges(s, name) ==
    LET landed == stagers[s].landed IN
    FileOf(name) \in DOMAIN landed /\ landed[FileOf(name)] # name

Stage(s) ==
    /\ stagers[s].at = "staging" /\ stagers[s].next <= Len(Wants(s))
    /\ LET asset == Wants(s)[stagers[s].next]
           file == FileOf(asset.name)
       IN  /\ roots' = With(roots, <<ArtifactSlug(s), file>>, Source(s, asset))
           /\ stagers' = [stagers EXCEPT ![s].next = @ + 1,
                             ![s].at = IF Converges(s, asset.name) THEN "refused" ELSE @,
                             ![s].landed = With(@, file, asset.name)]
    /\ UNCHANGED <<cast, volume, records>>

\* A copy fails, and may leave half a file.
StageFails(s) ==
    /\ stagers[s].at = "staging" /\ stagers[s].next <= Len(Wants(s))
    /\ \E left \in {There(ArtifactSlug(s), FileOf(Wants(s)[stagers[s].next].name)), Half} :
          roots' = With(roots, <<ArtifactSlug(s), FileOf(Wants(s)[stagers[s].next].name)>>, left)
    /\ stagers' = [stagers EXCEPT ![s].at = "failed"]
    /\ UNCHANGED <<cast, volume, records>>

\* write_run_record, and the engine runs with this root.
RunStaged(s) ==
    /\ stagers[s].at = "staging" /\ stagers[s].next > Len(Wants(s))
    /\ stagers' = [stagers EXCEPT ![s].at = "running"]
    /\ records' = With(records, ArtifactSlug(s), s)
    /\ UNCHANGED <<cast, volume, roots>>

RunOver(s) ==
    /\ stagers[s].at = "running"
    /\ stagers' = [stagers EXCEPT ![s].at = "over"]
    /\ UNCHANGED <<cast, volume, roots, records>>

StageStep ==
    \E s \in DOMAIN cast : Resolve(s) \/ Stage(s) \/ StageFails(s) \/ RunStaged(s) \/ RunOver(s)

StageSpec == StageInit /\ [][StageStep]_gvars

-----------------------------------------------------------------------------
\* While it runs, a scenario reads under each name the bytes beside the source
\* that names it, and its artifact stays its own.
ReadsItsOwn(s) ==
    /\ stagers[s].at = "running" =>
          \A i \in DOMAIN Wants(s) : There(ArtifactSlug(s), FileOf(Wants(s)[i].name)) = Source(s, Wants(s)[i])
    /\ stagers[s].at \in {"running", "over"} => records[ArtifactSlug(s)] = s

\* A refusal has a cause: a name that leads out, a fragment from nowhere, a
\* file that is not there, or two references to one staged file.
HasCause(s) ==
    stagers[s].at = "refused" =>
        \/ \E asset \in ToSet(Wants(s)) : Escapes(asset.name) \/ DirOf(s, asset.from) = "none" \/ ~ Exists(asset)
        \/ \E i, j \in DOMAIN Wants(s) : i # j /\ FileOf(Wants(s)[i].name) = FileOf(Wants(s)[j].name)

(***************************************************************************)
(* StagedTrue: whatever an earlier run has left, whatever the volume takes  *)
(* for one file, and whoever stages beside it, a scenario whose slug is its *)
(* own reads what its authors meant, or does not run (resolve_assets,       *)
(* stage_assets, stage_and_record).                                         *)
(***************************************************************************)
StagedTrue ==
    \A s \in DOMAIN cast :
        /\ HasCause(s)
        /\ (\A other \in DOMAIN cast \ {s} : ArtifactSlug(other) # ArtifactSlug(s)) => ReadsItsOwn(s)

(***************************************************************************)
(* OwnRoot: the same of every scenario, since "two same-named features in   *)
(* different directories cannot collide" (docs/AUTHORING.md).               *)
(***************************************************************************)
OwnRoot == \A s \in DOMAIN cast : ReadsItsOwn(s)

=============================================================================
