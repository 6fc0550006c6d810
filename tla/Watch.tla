------------------------------- MODULE Watch -------------------------------
(***************************************************************************)
(* The `--watch` loop of proef-cli (watch.rs): the loop that reruns a      *)
(* suite, the interrupt handler on ctrlc's thread, and the file watcher on *)
(* notify's.  They share the `stop` flag, the slot with the current run's  *)
(* token, the channel of change notices, and the registry of the           *)
(* directories the session has written run records to.                     *)
(*                                                                         *)
(* A notice is only a unit value to the loop; here it also says what it    *)
(* came from, and the channel is the set of the notices in it.             *)
(***************************************************************************)
EXTENDS Naturals

CONSTANTS
    Dirs,      \* names `[run] runs-dir` may end in (one without a name, which
               \* the loop warns it cannot exclude, is left out)
    FirstDir   \* the one configured when the loop is entered

ASSUME DirsAssumption == FirstDir \in Dirs

VARIABLES
    place,       \* where the loop is
    stop,        \* the flag of that name
    cancelled,   \* the token in `current` is cancelled
    handler,     \* where the interrupt handler is
    configured,  \* what proef.toml says of the runs dir now
    writing,     \* the runs dir of the latest run
    registered,  \* RunsDirs
    undelivered, \* run dirs with events notify has not handed over yet
    chan         \* the notices in the channel

watchVars == <<place, stop, cancelled, handler, configured, writing, registered,
               undelivered, chan>>

Notices == {"edit", "watcherError", "ownOutput"}
Places  == {"top", "check", "reload", "running", "after", "wait", "drain",
            "left", "killed"}
Ended   == {"left", "killed"}

-----------------------------------------------------------------------------
(* The loop *)

\* A fresh token goes into the slot, whatever became of the old one.
StoreToken ==
    /\ place = "top"
    /\ cancelled' = FALSE
    /\ place' = "check"
    /\ UNCHANGED <<stop, handler, configured, writing, registered, undelivered, chan>>

\* Mutant: the flag is not looked at between the token and the run.
CheckNothing ==
    /\ place = "check"
    /\ place' = "reload"
    /\ UNCHANGED <<stop, cancelled, handler, configured, writing, registered,
                   undelivered, chan>>

CheckStop ==
    /\ place = "check"
    /\ place' = IF stop THEN "left" ELSE "reload"
    /\ UNCHANGED <<stop, cancelled, handler, configured, writing, registered,
                   undelivered, chan>>

\* Mutant: the startup directory is the only one that is excluded.
ReloadUnregistered ==
    /\ place = "reload"
    /\ place' = "running" /\ writing' = configured
    /\ UNCHANGED <<stop, cancelled, handler, configured, registered,
                   undelivered, chan>>

\* The rerun reads the config again and registers where it will write before
\* it writes.  A config that does not parse fails the rerun.
Reload ==
    /\ place = "reload"
    /\ \/ /\ place' = "running" /\ writing' = configured
          /\ registered' = registered \cup {configured}
       \/ place' = "after" /\ UNCHANGED <<writing, registered>>
    /\ UNCHANGED <<stop, cancelled, handler, configured, undelivered, chan>>

RunEnds ==
    /\ place = "running"
    /\ place' = "after"
    /\ UNCHANGED <<stop, cancelled, handler, configured, writing, registered,
                   undelivered, chan>>

AfterRun ==
    /\ place = "after"
    /\ place' = IF stop THEN "left" ELSE "wait"
    /\ UNCHANGED <<stop, cancelled, handler, configured, writing, registered,
                   undelivered, chan>>

\* The wait polls the flag, and may still take a notice after it was set.
WaitStop ==
    /\ place = "wait" /\ stop
    /\ place' = "left"
    /\ UNCHANGED <<stop, cancelled, handler, configured, writing, registered,
                   undelivered, chan>>

\* Another notice of the same kind may be behind the one taken.
TakeNotice == \E n \in chan : chan' \in {chan, chan \ {n}}

WaitTake ==
    /\ place = "wait"
    /\ TakeNotice
    /\ place' = "drain"
    /\ UNCHANGED <<stop, cancelled, handler, configured, writing, registered,
                   undelivered>>

\* Mutant: the drain is deaf to the flag.
DrainDeaf ==
    /\ place = "drain"
    /\ IF chan = {} THEN place' = "top" /\ UNCHANGED chan
                    ELSE TakeNotice /\ UNCHANGED place
    /\ UNCHANGED <<stop, cancelled, handler, configured, writing, registered,
                   undelivered>>

\* The burst is drained until the channel has been quiet for a moment.
Drain ==
    /\ place = "drain"
    /\ IF chan = {} THEN place' = "top" /\ UNCHANGED chan
       ELSE TakeNotice /\ place' = (IF stop THEN "left" ELSE "drain")
    /\ UNCHANGED <<stop, cancelled, handler, configured, writing, registered,
                   undelivered>>

WatchLoop == StoreToken \/ CheckStop \/ Reload \/ RunEnds \/ AfterRun
            \/ WaitStop \/ WaitTake \/ Drain

-----------------------------------------------------------------------------
(* The interrupt handler *)

\* The flag first, then the token that is current at that moment.
FirstSignal ==
    \/ /\ handler = "idle" /\ place \notin Ended
       /\ stop' = TRUE /\ handler' = "half"
       /\ UNCHANGED <<place, cancelled, configured, writing, registered, undelivered, chan>>
    \/ /\ handler = "half"
       /\ cancelled' = TRUE /\ handler' = "done"
       /\ UNCHANGED <<place, stop, configured, writing, registered, undelivered, chan>>

SecondSignal ==
    /\ handler # "idle" /\ place \notin Ended
    /\ place' = "killed"
    /\ UNCHANGED <<stop, cancelled, handler, configured, writing, registered,
                   undelivered, chan>>

-----------------------------------------------------------------------------
(* The file system, and notify's thread *)

\* An authored input changes; if it is the config, so may the runs dir.
Edit ==
    /\ place \notin Ended
    /\ configured' \in Dirs
    /\ chan' = chan \cup {"edit"}
    /\ UNCHANGED <<place, stop, cancelled, handler, writing, registered, undelivered>>

\* The run writes artifacts that look like authored fragments.
RunWrites ==
    /\ place = "running"
    /\ undelivered' = undelivered \cup {writing}
    /\ UNCHANGED <<place, stop, cancelled, handler, configured, writing, registered, chan>>

\* on_fs_event on a run's own output, any time after it was written.
Deliver ==
    /\ place \notin Ended
    /\ \E d \in undelivered :
         /\ undelivered' \in {undelivered, undelivered \ {d}}
         /\ chan' = IF d \in registered THEN chan ELSE chan \cup {"ownOutput"}
    /\ UNCHANGED <<place, stop, cancelled, handler, configured, writing, registered>>

\* A lost or overflowed watch counts as a change.
WatcherError ==
    /\ place \notin Ended
    /\ chan' = chan \cup {"watcherError"}
    /\ UNCHANGED <<place, stop, cancelled, handler, configured, writing, registered,
                   undelivered>>

Over == place \in Ended /\ UNCHANGED watchVars

-----------------------------------------------------------------------------
WatchInit ==
    /\ place = "top" /\ stop = FALSE /\ cancelled = FALSE /\ handler = "idle"
    /\ configured \in Dirs        \* edited since the loop read it, perhaps
    /\ writing = FirstDir /\ registered = {FirstDir}
    /\ undelivered = {} /\ chan = {}

WatchNext == WatchLoop \/ FirstSignal \/ SecondSignal \/ Edit \/ RunWrites \/ Deliver
            \/ WatcherError \/ Over

\* The loop's thread is scheduled, and a run comes to its end (RunReturns in
\* Runner).  Neither signals nor edits are owed.
WatchSpec == WatchInit /\ [][WatchNext]_watchVars /\ WF_watchVars(WatchLoop)
-----------------------------------------------------------------------------
(* Properties *)

(* Every variable stays in its range. *)
WatchTypeOK ==
    /\ place \in Places
    /\ stop \in BOOLEAN /\ cancelled \in BOOLEAN
    /\ handler \in {"idle", "half", "done"}
    /\ configured \in Dirs /\ writing \in Dirs
    /\ registered \subseteq Dirs /\ undelivered \subseteq Dirs
    /\ chan \subseteq Notices

(* An interrupt reaches the run it is meant for: when the handler is through,
   whatever run is under way or about to be is running under a cancelled
   token, even if the handler came between two runs (watch.rs, the check after
   the store). *)
InterruptReachesRun ==
    (handler = "done" /\ place \in {"reload", "running"}) => cancelled

(* The session never feeds itself: no output of its own runs, delivered however
   late, under whichever runs dir it was written, is ever a notice (watch.rs,
   `RunsDirs::record` before the run writes). *)
NeverSelfFed == "ownOutput" \notin chan

\* What the two rest on: the flag tells whether the handler has begun, and all
\* that was ever written was registered first.
FlagTold == stop <=> handler # "idle"
WritesRegistered ==
    /\ undelivered \subseteq registered
    /\ place = "running" => writing \in registered

(* An interrupt ends the session, however fast files keep changing (watch.rs,
   the drain that polls the flag). *)
InterruptLeaves == stop ~> (place \in Ended)
=============================================================================
