---------------------------- MODULE SecretStore ----------------------------
(***************************************************************************)
(* The secret store of proef-cli (secretstore.rs): processes that share    *)
(* one project key file and one store file, without a server between them. *)
(* A process is one command: `secret set`, `secret rm`, or a run that      *)
(* resolves the secrets its features reference.  The advisory lock on the  *)
(* store's sidecar serializes the mutations; the store is replaced by a    *)
(* rename; the key file is created by whoever comes first.                 *)
(*                                                                         *)
(* A secret's value is abstracted to the key its token was sealed with.    *)
(* The names a run overrides in its environment are not among the names    *)
(* it asks the store for.                                                  *)
(***************************************************************************)
EXTENDS FiniteSets

CONSTANTS
    Procs,      \* the processes; a key is named after the one that made it
    Names,      \* the names of secrets
    Commands,   \* which commands each process may be
    EnvKeyed    \* the processes that may have PROEF_KEY in their environment

ASSUME CommandsAssumption ==
    Commands \in [Procs -> SUBSET {"set", "rm", "resolve"}]
ASSUME EnvKeyedAssumption == EnvKeyed \subseteq Procs
\* The constants are told apart from the markers below.
ASSUME MarkersAssumption ==
    Procs \cap {"none", "foreign", "env", "absent", "blank"} = {}

VARIABLES
    op,        \* which command each process is
    asks,      \* the name it sets or removes, or the names it resolves
    pc,        \* where it is
    result,    \* how it ended
    key,       \* the key it has loaded
    mem,       \* the store as it read it
    keyFile,   \* the key file: absent, created and not yet written, or a key
    store,     \* per name, the key its token is sealed with
    damaged,   \* the store file does not parse
    holder     \* who holds the lock

files == <<keyFile, store, damaged, holder>>
vars  == <<op, asks, pc, result, key, mem, files>>

Nobody  == "none"
Missing == "none"
\* Sealed elsewhere (a committed store), by PROEF_KEY, or by a key made here.
Tokens   == {Missing, "foreign", "env"} \cup Procs
KeyFiles == {"absent", "blank"} \cup Procs
Keyless  == "none"
Stores   == [Names -> Tokens]
Empty    == [n \in Names |-> Missing]
Results  == {"none", "ok", "user", "system", "badKey", "unresolved", "killed"}
ProcPC   == {"prompt", "load", "key", "create", "write", "reread", "lock",
             "read", "save", "open", "ended"}

Goto(p, l) == pc' = [pc EXCEPT ![p] = l]

\* A process that ends takes its memory along, and its lock.
Forget(p, r) ==
    /\ Goto(p, "ended")
    /\ result' = [result EXCEPT ![p] = r]
    /\ key' = [key EXCEPT ![p] = Keyless]
    /\ mem' = [mem EXCEPT ![p] = Empty]
EndWith(p, r) == Forget(p, r) /\ holder' = IF holder = p THEN Nobody ELSE holder

-----------------------------------------------------------------------------
(* The project key: load_or_create_key *)

\* A set goes on to the lock, a run to its tokens.
HaveKey(p, k) ==
    /\ key' = [key EXCEPT ![p] = k]
    /\ Goto(p, IF op[p] = "set" THEN "lock" ELSE "open")
    /\ UNCHANGED <<result, mem, holder>>

\* What a process makes of the content of the key file.
DecodeKey(p) == IF keyFile = "blank" THEN EndWith(p, "badKey")
                                     ELSE HaveKey(p, keyFile)

\* PROEF_KEY, even an invalid one, keeps the key file out of it.
FindKey(p) ==
    /\ pc[p] = "key"
    /\ \/ p \in EnvKeyed /\ HaveKey(p, "env")
       \/ p \in EnvKeyed /\ EndWith(p, "user")
       \/ keyFile = "absent" /\ Goto(p, "create") /\ UNCHANGED <<result, key, mem, holder>>
       \/ keyFile # "absent" /\ DecodeKey(p)
    /\ UNCHANGED <<op, asks, keyFile, store, damaged>>

\* Mutant: the file is opened whether or not it is there.
CreateKeyOver(p) ==
    /\ pc[p] = "create"
    /\ keyFile' = "blank" /\ Goto(p, "write")
    /\ UNCHANGED <<op, asks, result, key, mem, store, damaged, holder>>

\* create_new: one process creates the file, the others find it there.
CreateKey(p) ==
    /\ pc[p] = "create"
    /\ \/ keyFile = "absent" /\ keyFile' = "blank" /\ Goto(p, "write")
       \/ keyFile # "absent" /\ Goto(p, "reread") /\ UNCHANGED keyFile
    /\ UNCHANGED <<op, asks, result, key, mem, store, damaged, holder>>

\* The content comes after the creation.
WriteKey(p) ==
    /\ pc[p] = "write"
    /\ keyFile' = p /\ HaveKey(p, p)
    /\ UNCHANGED <<op, asks, store, damaged>>

\* The creation race was lost: the winner's key is the project key.
RereadKey(p) ==
    /\ pc[p] = "reread"
    /\ DecodeKey(p)
    /\ UNCHANGED <<op, asks, keyFile, store, damaged>>

-----------------------------------------------------------------------------
(* `secret set` and `secret rm` *)

\* The value is read before anything is taken; nobody says when it comes.
Prompt(p) ==
    /\ pc[p] = "prompt"
    /\ \/ Goto(p, "key") /\ UNCHANGED <<result, key, mem, holder>>
       \/ EndWith(p, "user")
    /\ UNCHANGED <<op, asks, keyFile, store, damaged>>

\* Mutant: nothing is locked.
LockNothing(p) ==
    /\ pc[p] = "lock"
    /\ Goto(p, "read")
    /\ UNCHANGED <<op, asks, result, key, mem, files>>

Lock(p) ==
    /\ pc[p] = "lock"
    /\ holder = Nobody /\ holder' = p
    /\ Goto(p, "read")
    /\ UNCHANGED <<op, asks, result, key, mem, keyFile, store, damaged>>

\* A set moves a corrupt store aside and starts fresh; rm refuses it.
ReadToSet(p) ==
    /\ pc[p] = "read" /\ op[p] = "set"
    /\ mem' = [mem EXCEPT ![p] = store]
    /\ damaged' = FALSE
    /\ Goto(p, "save")
    /\ UNCHANGED <<op, asks, result, key, keyFile, store, holder>>

ReadToRemove(p) ==
    /\ pc[p] = "read" /\ op[p] = "rm"
    /\ \/ /\ ~damaged /\ \A n \in asks[p] : store[n] # Missing
          /\ mem' = [mem EXCEPT ![p] = store]
          /\ Goto(p, "save") /\ UNCHANGED <<result, key, holder>>
       \/ /\ damaged \/ \E n \in asks[p] : store[n] = Missing
          /\ EndWith(p, "user")
    /\ UNCHANGED <<op, asks, keyFile, store, damaged>>

\* The temp file is renamed over the store; then the lock goes.
Save(p) ==
    /\ pc[p] = "save"
    /\ store' = [n \in Names |-> IF n \notin asks[p] THEN mem[p][n]
                                 ELSE IF op[p] = "set" THEN key[p] ELSE Missing]
    /\ EndWith(p, "ok")
    /\ UNCHANGED <<op, asks, keyFile, damaged>>

-----------------------------------------------------------------------------
(* A run: resolve_all *)

\* Mutant: the key is loaded whether or not a token needs it.
LoadForKey(p) ==
    /\ pc[p] = "load" /\ ~damaged
    /\ mem' = [mem EXCEPT ![p] = store]
    /\ Goto(p, "key")
    /\ UNCHANGED <<op, asks, result, key, files>>

\* One read of the store for all the names; the key only if a token needs it.
Load(p) ==
    /\ pc[p] = "load" /\ ~damaged
    /\ \E n \in asks[p] : store[n] # Missing
    /\ mem' = [mem EXCEPT ![p] = store]
    /\ Goto(p, "key")
    /\ UNCHANGED <<op, asks, result, key, files>>

\* None of the names is there, or the file cannot be read or parsed.
LoadNothing(p) ==
    /\ pc[p] = "load"
    /\ EndWith(p, "unresolved")
    /\ UNCHANGED <<op, asks, keyFile, store, damaged>>

Open(p) ==
    /\ pc[p] = "open"
    /\ EndWith(p, IF \A n \in asks[p] : mem[p][n] = key[p] THEN "ok" ELSE "unresolved")
    /\ UNCHANGED <<op, asks, keyFile, store, damaged>>

-----------------------------------------------------------------------------
(* The environment *)

\* Whatever touches a file may fail, and ends the command; what it did before
\* stays: a created key file without its content, a corrupt store moved aside.
Fail(p) ==
    /\ pc[p] \in {"create", "write", "lock", "read", "save"}
    /\ EndWith(p, "system")
    /\ UNCHANGED <<op, asks, keyFile, store, damaged>>

\* Mutant: the lock is a file that stays behind.
KillLeavingLock(p) ==
    /\ pc[p] # "ended"
    /\ Forget(p, "killed")
    /\ UNCHANGED <<op, asks, files>>

\* A process may be killed anywhere; the system drops its lock.
Kill(p) ==
    /\ pc[p] # "ended"
    /\ EndWith(p, "killed")
    /\ UNCHANGED <<op, asks, keyFile, store, damaged>>

Finished == (\A p \in Procs : pc[p] = "ended") /\ UNCHANGED vars

-----------------------------------------------------------------------------
\* A fresh machine, perhaps with a store that came with the repository and
\* perhaps with one that does not parse.
Init ==
    /\ op \in [Procs -> {"set", "rm", "resolve"}] /\ \A p \in Procs : op[p] \in Commands[p]
    /\ asks \in [Procs -> SUBSET Names \ {{}}]
    /\ \A p \in Procs : op[p] # "resolve" => \E n \in Names : asks[p] = {n}
    /\ pc = [p \in Procs |-> IF op[p] = "set" THEN "prompt"
                             ELSE IF op[p] = "rm" THEN "lock" ELSE "load"]
    /\ result = [p \in Procs |-> "none"]
    /\ key = [p \in Procs |-> Keyless]
    /\ mem = [p \in Procs |-> Empty]
    /\ keyFile = "absent"
    /\ store \in [Names -> {Missing, "foreign"}]
    /\ damaged \in BOOLEAN
    /\ damaged => store = Empty
    /\ holder = Nobody

\* What a process does once it is not waiting for its user.
Work(p) ==
    \/ FindKey(p) \/ CreateKey(p) \/ WriteKey(p) \/ RereadKey(p)
    \/ Lock(p) \/ ReadToSet(p) \/ ReadToRemove(p) \/ Save(p)
    \/ Load(p) \/ LoadNothing(p) \/ Open(p)

Next == (\E p \in Procs : Work(p) \/ Prompt(p) \/ Fail(p) \/ Kill(p)) \/ Finished

\* Processes are scheduled; nobody has to answer a prompt, and nothing has to
\* fail.
Spec == Init /\ [][Next]_vars /\ \A p \in Procs : WF_vars(Work(p))

-----------------------------------------------------------------------------
(* Properties *)

(* Every variable stays in its range. *)
TypeOK ==
    /\ op \in [Procs -> {"set", "rm", "resolve"}]
    /\ asks \in [Procs -> SUBSET Names]
    /\ pc \in [Procs -> ProcPC]
    /\ result \in [Procs -> Results]
    /\ key \in [Procs -> Tokens]
    /\ mem \in [Procs -> Stores]
    /\ keyFile \in KeyFiles
    /\ store \in Stores
    /\ damaged \in BOOLEAN
    /\ holder \in Procs \cup {Nobody}

(* Concurrent commands all land: whatever a process read and however long ago,
   a step replaces the token of the one name its command is about, and leaves
   what others have set and removed (secretstore.rs, `lock_store`). *)
NoLostUpdate ==
    [][ store' # store =>
          \E p \in Procs :
             /\ op[p] # "resolve" /\ result'[p] = "ok" /\ result[p] = "none"
             /\ \A n \in Names \ asks[p] : store'[n] = store[n] ]_vars

(* Every secret that was set on this machine opens with its key file, however
   many processes raced to create it (secretstore.rs, `load_or_create_key`). *)
TokensOpen ==
    \A n \in Names : store[n] \in Procs => store[n] = keyFile

(* A run that races the very first `set` never holds a token without its key:
   what it read opens with the key file, which it has no need to create
   (secretstore.rs, `set`, `resolve_all`). *)
KeyBeforeToken ==
    \A p \in Procs : op[p] = "resolve" =>
        /\ \A n \in asks[p] : mem[p][n] \in Procs =>
             mem[p][n] = keyFile /\ (pc[p] = "open" => key[p] \in {keyFile, "env"})
        /\ pc[p] \in {"create", "write"} =>
             \E n \in asks[p] : mem[p][n] \in {"foreign", "env"}

(* A command that is not waiting for its user ends, although others wait for
   theirs or are killed with the lock in hand (secretstore.rs, `set`,
   `lock_store`). *)
CommandsEnd ==
    \A p \in Procs : pc[p] # "prompt" ~> pc[p] = "ended"

-----------------------------------------------------------------------------
(* The inductive invariant behind the theorems of SecretStoreProofs. *)

\* Where each command can be, and that it has not ended before it ends.
OnItsWay ==
    \A p \in Procs :
        /\ pc[p] \in {"lock", "read", "save"} => op[p] # "resolve"
        /\ pc[p] \in {"load", "open"} => op[p] = "resolve"
        /\ pc[p] = "prompt" => op[p] = "set"
        /\ pc[p] \in {"key", "create", "write", "reread"} => op[p] # "rm"
        /\ pc[p] # "ended" => result[p] = "none"

\* The lock's holder is the one that reads and saves, and what it has read is
\* still the store.
LockHeld ==
    \A p \in Procs :
        /\ pc[p] \in {"read", "save"} <=> holder = p
        /\ pc[p] = "save" => mem[p] = store

\* One process writes the key file, and it is blank until then.
OneWriter ==
    \A p \in Procs :
        /\ pc[p] = "write" => keyFile = "blank"
        /\ pc[p] = "reread" => keyFile # "absent"
        /\ \A q \in Procs : (pc[p] = "write" /\ pc[q] = "write") => p = q

\* A loaded key is the project key or the environment's.
KeysGood ==
    \A p \in Procs : key[p] \in {Keyless, "env"} \/ key[p] = keyFile

\* A token of this machine that a process has read opens with the key file.
CopiesOpen ==
    \A p \in Procs : \A n \in Names : mem[p][n] \in Procs => mem[p][n] = keyFile

\* A run goes for the key with a token in hand.
AsksFound ==
    \A p \in Procs : (op[p] = "resolve" /\ pc[p] \in {"key", "create", "write", "reread"}) =>
        \E n \in asks[p] : mem[p][n] # Missing

StoreInv == TypeOK /\ OnItsWay /\ AsksFound /\ LockHeld /\ OneWriter /\ KeysGood
                   /\ CopiesOpen /\ TokensOpen /\ KeyBeforeToken
=============================================================================
