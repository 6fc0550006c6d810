---------------------------- MODULE MCHurlSession ----------------------------
(* Instances of HurlSession: scenarios over three menus of steps. *)
EXTENDS HurlSession, TLC

Plain == [form |-> "inline", entries |-> 1, optional |-> FALSE, off |-> FALSE,
          reads |-> {}, caps |-> {}, own |-> {}, secrets |-> {}, bind |-> <<>>, save |-> {},
          retry |-> 0, repeat |-> 1, known |-> TRUE]
Ref == [Plain EXCEPT !.form = "ref"]
Then == [Plain EXCEPT !.form = "then", !.entries = 0]

\* Who supplies x (1) and y (2): captures, literals, secrets, the fragment.
Supply == {[Plain EXCEPT !.caps = {1}], [Ref EXCEPT !.reads = {1}],
           [Ref EXCEPT !.bind = 1 :> {}, !.reads = {1}],
           [Ref EXCEPT !.secrets = {1}, !.reads = {1}],
           [Ref EXCEPT !.own = {1}, !.reads = {1, 2}, !.bind = 2 :> {1}],
           [Plain EXCEPT !.optional = TRUE, !.caps = {1}],
           [Plain EXCEPT !.off = TRUE, !.caps = {1}]}

\* How batches are cut: guards, optional steps, asserts, steps of two entries.
Shape == {[Plain EXCEPT !.entries = 2], [Plain EXCEPT !.off = TRUE],
          [Plain EXCEPT !.entries = 2, !.optional = TRUE], Then,
          [Plain EXCEPT !.retry = 1, !.caps = {1}, !.save = {1}]}

\* What a batch may take.
Pace == {[Plain EXCEPT !.retry = 1], [Plain EXCEPT !.repeat = 2, !.retry = 1],
         [Plain EXCEPT !.known = FALSE], [Plain EXCEPT !.entries = 2, !.retry = 1]}

Paced == [1..2 -> Pace]
Redirected == {s \in Paced : s[2] = [Plain EXCEPT !.retry = 1]}
Shaped == {s \in [1..3 -> Shape] : Cardinality({k \in 1..3 : s[k].entries = 2}) <= 2}
MCScenarios == [1..3 -> Supply] \cup Shaped \cup Paced
MCVars == 1..2
=============================================================================
