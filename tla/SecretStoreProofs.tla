------------------------- MODULE SecretStoreProofs -------------------------
(***************************************************************************)
(* Proofs about SecretStore: StoreInv is inductive, and with it no command *)
(* loses another's update, every token opens with the project key, and a   *)
(* run never holds a token without its key, for any number of processes.   *)
(***************************************************************************)
EXTENDS SecretStore, TLAPS

(* The processes are none of the markers. *)
LEMMA Apart ==
    ASSUME NEW p \in Procs
    PROVE  /\ p # "none" /\ p # "foreign" /\ p # "env"
           /\ p # "absent" /\ p # "blank"
  BY MarkersAssumption

(* A fresh machine satisfies the invariant. *)
LEMMA InvInit == Init => StoreInv
<1> SUFFICES ASSUME Init PROVE StoreInv
  OBVIOUS
<1> USE Apart
<1>1. TypeOK
  BY SMT DEF Init, TypeOK, Stores, Tokens, Missing, ProcPC, Results, Keyless,
             KeyFiles, Empty, Nobody
<1>2. OnItsWay /\ OneWriter /\ AsksFound
  BY DEF Init, OnItsWay, OneWriter, AsksFound
<1>3. LockHeld
  BY DEF Init, LockHeld, Nobody
<1>4. KeysGood /\ CopiesOpen /\ TokensOpen
  BY DEF Init, KeysGood, CopiesOpen, TokensOpen, Empty, Missing, Keyless
<1>5. KeyBeforeToken
  <2>1. \A p \in Procs : pc[p] \in {"prompt", "lock", "load"}
    BY DEF Init
  <2>2. \A p \in Procs : \A n \in Names : mem[p][n] \notin Procs
    BY DEF Init, Empty, Missing
  <2> QED
    BY <2>1, <2>2, <1>1 DEF KeyBeforeToken, TypeOK
<1> QED
  BY <1>1, <1>2, <1>3, <1>4, <1>5 DEF StoreInv

(* A process that ends, for whatever reason, keeps the invariant. *)
LEMMA EndKeepsInv ==
    ASSUME StoreInv, NEW p \in Procs, NEW r \in Results, EndWith(p, r),
           UNCHANGED <<op, asks, keyFile, store, damaged>>
    PROVE  StoreInv'
<1> USE Apart DEF StoreInv, EndWith, Forget, Goto
<1>1. TypeOK'
  BY DEF TypeOK, ProcPC, Stores, Tokens, Missing, Empty, Keyless, Nobody
<1>2. OnItsWay'
  BY DEF TypeOK, OnItsWay
<1>3. LockHeld'
  BY DEF TypeOK, LockHeld, Nobody
<1>4. OneWriter'
  BY DEF TypeOK, OneWriter
<1>5. KeysGood'
  BY DEF TypeOK, KeysGood, Keyless
<1>6. CopiesOpen'
  BY DEF TypeOK, CopiesOpen, Empty, Missing
<1>7. TokensOpen'
  BY DEF TokensOpen
<1>9. AsksFound'
  BY DEF TypeOK, AsksFound
<1>8. KeyBeforeToken'
  <2> SUFFICES ASSUME NEW q \in Procs, op'[q] = "resolve"
               PROVE  /\ \A n \in asks'[q] : mem'[q][n] \in Procs =>
                           mem'[q][n] = keyFile' /\ (pc'[q] = "open" => key'[q] \in {keyFile', "env"})
                      /\ pc'[q] \in {"create", "write"} =>
                           \E n \in asks'[q] : mem'[q][n] \in {"foreign", "env"}
    BY DEF KeyBeforeToken
  <2>1. CASE q = p
    BY <2>1 DEF TypeOK, Empty, Missing
  <2>2. CASE q # p
    BY <2>2 DEF TypeOK, KeyBeforeToken
  <2> QED
    BY <2>1, <2>2
<1> QED
  BY <1>1, <1>2, <1>3, <1>4, <1>5, <1>6, <1>7, <1>8, <1>9

(* What a process decodes is the project key. *)
LEMMA HaveKeyKeepsInv ==
    ASSUME StoreInv, NEW p \in Procs, NEW k, k = "env" \/ (k = keyFile /\ k \in Procs),
           pc[p] \in {"key", "reread"}, op[p] # "rm", HaveKey(p, k),
           UNCHANGED <<op, asks, keyFile, store, damaged>>
    PROVE  StoreInv'
<1> USE Apart DEF StoreInv, HaveKey, Goto
<1>0. holder' = holder /\ mem' = mem /\ result' = result
  OBVIOUS
<1>1. TypeOK'
  BY <1>0 DEF TypeOK, ProcPC, Tokens
<1>2. OnItsWay'
  BY <1>0 DEF TypeOK, OnItsWay
<1>3. LockHeld'
  BY <1>0 DEF TypeOK, LockHeld
<1>4. OneWriter'
  BY <1>0 DEF TypeOK, OneWriter
<1>5. KeysGood'
  BY <1>0 DEF TypeOK, KeysGood
<1>6. CopiesOpen' /\ TokensOpen'
  BY <1>0 DEF CopiesOpen, TokensOpen
<1>9. AsksFound'
  BY DEF TypeOK, AsksFound
<1>8. KeyBeforeToken'
  BY <1>0 DEF TypeOK, KeyBeforeToken
<1> QED
  BY <1>1, <1>2, <1>3, <1>4, <1>5, <1>6, <1>8, <1>9

(* What a process makes of the key file keeps the invariant. *)
LEMMA DecodeKeyKeepsInv ==
    ASSUME StoreInv, NEW p \in Procs, pc[p] \in {"key", "reread"},
           keyFile # "absent", op[p] # "rm", DecodeKey(p),
           UNCHANGED <<op, asks, keyFile, store, damaged>>
    PROVE  StoreInv'
<1>1. CASE keyFile = "blank"
  <2>1. EndWith(p, "badKey") /\ "badKey" \in Results
    BY <1>1 DEF DecodeKey, Results
  <2> QED
    BY <2>1, EndKeepsInv
<1>2. CASE keyFile # "blank"
  <2>1. keyFile \in Procs
    BY <1>2 DEF StoreInv, TypeOK, KeyFiles
  <2>2. HaveKey(p, keyFile)
    BY <1>2 DEF DecodeKey
  <2> QED
    BY <2>1, <2>2, HaveKeyKeepsInv
<1> QED
  BY <1>1, <1>2

(* Creating the key file: one creator, and nobody had a key before. *)
LEMMA CreateKeyKeepsInv ==
    ASSUME StoreInv, NEW p \in Procs, CreateKey(p)
    PROVE  StoreInv'
<1> USE Apart DEF StoreInv, CreateKey, Goto, files
<1>1. TypeOK'
  BY DEF TypeOK, ProcPC, Stores, Tokens, KeyFiles, Missing, Nobody
<1>2. OnItsWay'
  BY DEF TypeOK, OnItsWay
<1>3. LockHeld'
  BY DEF TypeOK, LockHeld, OnItsWay, Nobody
<1>4. OneWriter'
  BY DEF TypeOK, OneWriter
<1>5. KeysGood'
  BY DEF TypeOK, KeysGood, Tokens, Missing
<1>6. CopiesOpen'
  BY DEF TypeOK, CopiesOpen, TokensOpen
<1>7. TokensOpen'
  BY DEF TokensOpen
<1>9. AsksFound'
  BY DEF TypeOK, AsksFound
<1>8. KeyBeforeToken'
  BY DEF TypeOK, KeyBeforeToken, OnItsWay, CopiesOpen, TokensOpen, Stores, Tokens, Missing
<1> QED
  BY <1>1, <1>2, <1>3, <1>4, <1>5, <1>6, <1>7, <1>8, <1>9

(* Taking the lock. *)
LEMMA LockKeepsInv ==
    ASSUME StoreInv, NEW p \in Procs, Lock(p)
    PROVE  StoreInv'
<1> USE Apart DEF StoreInv, Lock, Goto, files
<1>1. TypeOK'
  BY DEF TypeOK, ProcPC, Stores, Tokens, KeyFiles, Missing, Nobody
<1>2. OnItsWay'
  BY DEF TypeOK, OnItsWay
<1>3. LockHeld'
  BY DEF TypeOK, LockHeld, OnItsWay, Nobody
<1>4. OneWriter'
  BY DEF TypeOK, OneWriter
<1>5. KeysGood'
  BY DEF TypeOK, KeysGood, Tokens, Missing
<1>6. CopiesOpen'
  BY DEF TypeOK, CopiesOpen, TokensOpen
<1>7. TokensOpen'
  BY DEF TokensOpen
<1>9. AsksFound'
  BY DEF TypeOK, AsksFound
<1>8. KeyBeforeToken'
  BY DEF TypeOK, KeyBeforeToken, OnItsWay, CopiesOpen, TokensOpen, Stores, Tokens, Missing
<1> QED
  BY <1>1, <1>2, <1>3, <1>4, <1>5, <1>6, <1>7, <1>8, <1>9

(* Reading the store under the lock. *)
LEMMA ReadToSetKeepsInv ==
    ASSUME StoreInv, NEW p \in Procs, ReadToSet(p)
    PROVE  StoreInv'
<1> USE Apart DEF StoreInv, ReadToSet, Goto, files
<1>1. TypeOK'
  BY DEF TypeOK, ProcPC, Stores, Tokens, KeyFiles, Missing, Nobody
<1>2. OnItsWay'
  BY DEF TypeOK, OnItsWay
<1>3. LockHeld'
  BY DEF TypeOK, LockHeld, OnItsWay, Nobody
<1>4. OneWriter'
  BY DEF TypeOK, OneWriter
<1>5. KeysGood'
  BY DEF TypeOK, KeysGood, Tokens, Missing
<1>6. CopiesOpen'
  BY DEF TypeOK, CopiesOpen, TokensOpen
<1>7. TokensOpen'
  BY DEF TokensOpen
<1>9. AsksFound'
  BY DEF TypeOK, AsksFound
<1>8. KeyBeforeToken'
  BY DEF TypeOK, KeyBeforeToken, OnItsWay, CopiesOpen, TokensOpen, Stores, Tokens, Missing
<1> QED
  BY <1>1, <1>2, <1>3, <1>4, <1>5, <1>6, <1>7, <1>8, <1>9

(* A run's read of the store. *)
LEMMA LoadKeepsInv ==
    ASSUME StoreInv, NEW p \in Procs, Load(p)
    PROVE  StoreInv'
<1> USE Apart DEF StoreInv, Load, Goto, files
<1>1. TypeOK'
  BY DEF TypeOK, ProcPC, Stores, Tokens, KeyFiles, Missing, Nobody
<1>2. OnItsWay'
  BY DEF TypeOK, OnItsWay
<1>3. LockHeld'
  BY DEF TypeOK, LockHeld, OnItsWay, Nobody
<1>4. OneWriter'
  BY DEF TypeOK, OneWriter
<1>5. KeysGood'
  BY DEF TypeOK, KeysGood, Tokens, Missing
<1>6. CopiesOpen'
  BY DEF TypeOK, CopiesOpen, TokensOpen
<1>7. TokensOpen'
  BY DEF TokensOpen
<1>9. AsksFound'
  BY DEF TypeOK, AsksFound
<1>8. KeyBeforeToken'
  BY DEF TypeOK, KeyBeforeToken, OnItsWay, CopiesOpen, TokensOpen, Stores, Tokens, Missing
<1> QED
  BY <1>1, <1>2, <1>3, <1>4, <1>5, <1>6, <1>7, <1>8, <1>9

(* Writing the key file: it was blank, so no token and no loaded key of this
   machine is there to disagree with the new one. *)
LEMMA WriteKeyKeepsInv ==
    ASSUME StoreInv, NEW p \in Procs, WriteKey(p)
    PROVE  StoreInv'
<1> USE Apart DEF StoreInv, WriteKey, HaveKey, Goto
<1>1. keyFile = "blank" /\ keyFile' = p
  BY DEF OneWriter
<1>2. \A q \in Procs : key[q] \in {Keyless, "env"}
  BY <1>1 DEF KeysGood, TypeOK, Tokens, Missing
<1>3. \A q \in Procs : \A n \in Names : mem[q][n] \notin Procs
  BY <1>1 DEF CopiesOpen
<1>4. TypeOK'
  BY <1>1 DEF TypeOK, ProcPC, Tokens, KeyFiles
<1>5. OnItsWay'
  BY DEF TypeOK, OnItsWay
<1>6. LockHeld'
  BY DEF TypeOK, LockHeld
<1>7. OneWriter'
  BY <1>1 DEF TypeOK, OneWriter
<1>8. KeysGood'
  BY <1>1, <1>2 DEF TypeOK, KeysGood
<1>9. CopiesOpen'
  BY <1>3 DEF CopiesOpen
<1>10. TokensOpen'
  BY <1>1 DEF TokensOpen
<1>12. AsksFound'
  BY DEF TypeOK, AsksFound
<1>11. KeyBeforeToken'
  BY <1>3 DEF TypeOK, KeyBeforeToken
<1> QED
  BY <1>4, <1>5, <1>6, <1>7, <1>8, <1>9, <1>10, <1>11, <1>12

\* What a save puts into the store.
Saved(p) == [n \in Names |-> IF n \notin asks[p] THEN mem[p][n]
                             ELSE IF op[p] = "set" THEN key[p] ELSE Missing]

(* A save writes back what is in the store, but for its own name: nobody else
   held the lock since it read. *)
LEMMA SaveIsOwn ==
    ASSUME StoreInv, NEW p \in Procs, Save(p)
    PROVE  /\ op[p] # "resolve" /\ result[p] = "none" /\ result'[p] = "ok"
           /\ \A n \in Names \ asks[p] : store'[n] = store[n]
<1>1. op[p] # "resolve" /\ result[p] = "none"
  BY DEF StoreInv, OnItsWay, Save
<1>2. result'[p] = "ok"
  BY DEF StoreInv, TypeOK, Save, EndWith, Forget
<1>3. mem[p] = store
  BY DEF StoreInv, LockHeld, Save
<1> QED
  BY <1>1, <1>2, <1>3 DEF Save

(* A save keeps the invariant: as the end of its process, and with a token
   that was sealed with the project key. *)
LEMMA SaveKeepsInv ==
    ASSUME StoreInv, NEW p \in Procs, Save(p)
    PROVE  StoreInv'
<1> USE Apart DEF StoreInv
<1>1. EndWith(p, "ok") /\ "ok" \in Results /\ UNCHANGED <<op, asks, keyFile, damaged>>
  BY DEF Save, Results
<1>2. pc[p] = "save" /\ holder = p /\ mem[p] = store
  BY DEF Save, LockHeld
<1>3. store' = Saved(p) /\ store' \in Stores
  BY DEF Save, Saved, TypeOK, Stores, Tokens, Missing
<1>4. TokensOpen'
  <2>1. \A n \in Names : store'[n] \in Procs => store'[n] \in {mem[p][n], key[p]}
    BY <1>3 DEF Saved, Missing
  <2>2. \A n \in Names : store'[n] \in Procs => store'[n] = keyFile
    BY <2>1 DEF CopiesOpen, KeysGood, Keyless
  <2> QED
    BY <2>2, <1>1 DEF TokensOpen
<1> USE DEF EndWith, Forget, Goto
<1>5. TypeOK'
  BY <1>1, <1>3 DEF TypeOK, ProcPC, Stores, Tokens, Missing, Empty, Keyless, Nobody
<1>6. OnItsWay'
  BY <1>1 DEF TypeOK, OnItsWay
<1>7. LockHeld'
  BY <1>1, <1>2 DEF TypeOK, LockHeld, Nobody
<1>8. OneWriter'
  BY <1>1 DEF TypeOK, OneWriter
<1>9. KeysGood'
  BY <1>1 DEF TypeOK, KeysGood, Keyless
<1>10. CopiesOpen'
  BY <1>1 DEF TypeOK, CopiesOpen, Empty, Missing
<1>12. AsksFound'
  BY <1>1 DEF TypeOK, AsksFound
<1>11. KeyBeforeToken'
  BY <1>1, <1>2 DEF TypeOK, KeyBeforeToken, OnItsWay
<1> QED
  BY <1>4, <1>5, <1>6, <1>7, <1>8, <1>9, <1>10, <1>11, <1>12

(* Reading the store to remove a name. *)
LEMMA ReadToRemoveKeepsInv ==
    ASSUME StoreInv, NEW p \in Procs, ReadToRemove(p)
    PROVE  StoreInv'
<1>1. CASE pc'[p] = "ended"
  <2>1. EndWith(p, "user") /\ "user" \in Results
    BY <1>1 DEF StoreInv, TypeOK, ReadToRemove, Goto, Results
  <2> QED
    BY <2>1, EndKeepsInv DEF ReadToRemove
<1>2. CASE pc'[p] # "ended"
  <2> USE Apart DEF StoreInv, ReadToRemove, Goto, EndWith, Forget
  <2>0. /\ mem' = [mem EXCEPT ![p] = store] /\ pc' = [pc EXCEPT ![p] = "save"]
        /\ UNCHANGED <<op, asks, result, key, keyFile, store, damaged, holder>>
    BY <1>2 DEF TypeOK
  <2> QED
    BY <2>0 DEF TypeOK, ProcPC, Stores, OnItsWay, LockHeld, OneWriter, KeysGood,
                CopiesOpen, TokensOpen, KeyBeforeToken, AsksFound
<1> QED
  BY <1>1, <1>2

-----------------------------------------------------------------------------
(* Every step keeps the invariant. *)
LEMMA InvStep == StoreInv /\ [Next]_vars => StoreInv'
<1> SUFFICES ASSUME StoreInv, [Next]_vars PROVE StoreInv'
  OBVIOUS
<1>1. CASE UNCHANGED vars
  BY <1>1 DEF vars, files, StoreInv, TypeOK, OnItsWay, LockHeld, OneWriter,
              KeysGood, CopiesOpen, TokensOpen, KeyBeforeToken, AsksFound
<1>2. ASSUME NEW p \in Procs, Work(p) \/ Prompt(p) \/ Fail(p) \/ Kill(p)
      PROVE  StoreInv'
  <2>0. /\ \A r \in {"user", "system", "unresolved", "ok", "killed"} : r \in Results
        /\ pc \in [Procs -> ProcPC]
    BY DEF Results, StoreInv, TypeOK
  <2>1. CASE FindKey(p)
    <3>0. pc[p] = "key" /\ op[p] # "rm" /\ UNCHANGED <<op, asks, keyFile, store, damaged>>
      BY <2>1 DEF FindKey, StoreInv, OnItsWay
    <3>1. CASE HaveKey(p, "env")
      BY <3>0, <3>1, HaveKeyKeepsInv
    <3>2. CASE EndWith(p, "user")
      BY <3>0, <3>2, <2>0, EndKeepsInv
    <3>3. CASE keyFile # "absent" /\ DecodeKey(p)
      BY <3>0, <3>3, DecodeKeyKeepsInv
    <3>4. CASE keyFile = "absent" /\ Goto(p, "create") /\ UNCHANGED <<result, key, mem, holder>>
      <4>1. KeyBeforeToken'
        <5> SUFFICES ASSUME op[p] = "resolve"
                     PROVE  \E n \in asks[p] : mem[p][n] \in {"foreign", "env"}
          BY <3>0, <3>4, Apart DEF StoreInv, TypeOK, KeyBeforeToken, Goto
        <5>1. PICK n \in asks[p] : mem[p][n] # Missing
          BY <3>0 DEF StoreInv, AsksFound
        <5>2. n \in Names /\ mem[p][n] \in Tokens /\ mem[p][n] \notin Procs
          BY <3>4, Apart DEF StoreInv, TypeOK, Stores, CopiesOpen
        <5> QED
          BY <5>1, <5>2 DEF Tokens
      <4> QED
        BY <3>0, <3>4, <4>1, Apart
           DEF Goto, StoreInv, TypeOK, ProcPC, OnItsWay, LockHeld, OneWriter, AsksFound,
               KeysGood, CopiesOpen, TokensOpen
    <3> QED
      BY <2>1, <3>1, <3>2, <3>3, <3>4 DEF FindKey
  <2>2. CASE RereadKey(p)
    <3>1. pc[p] = "reread" /\ op[p] # "rm" /\ keyFile # "absent"
      BY <2>2 DEF RereadKey, StoreInv, OnItsWay, OneWriter
    <3> QED
      BY <2>2, <3>1, DecodeKeyKeepsInv DEF RereadKey
  <2>3. CASE Prompt(p)
    <3>1. CASE EndWith(p, "user")
      BY <2>3, <3>1, <2>0, EndKeepsInv DEF Prompt
    <3>2. CASE Goto(p, "key") /\ UNCHANGED <<result, key, mem, holder>>
      BY <2>3, <3>2, Apart
         DEF Prompt, Goto, StoreInv, TypeOK, ProcPC, OnItsWay, LockHeld, OneWriter,
             KeysGood, CopiesOpen, TokensOpen, KeyBeforeToken, AsksFound
    <3> QED
      BY <2>3, <3>1, <3>2 DEF Prompt
  <2>4. CASE LoadNothing(p)
    BY <2>4, <2>0, EndKeepsInv DEF LoadNothing
  <2>5. CASE Open(p)
    BY <2>5, <2>0, EndKeepsInv DEF Open
  <2>6. CASE Fail(p)
    BY <2>6, <2>0, EndKeepsInv DEF Fail
  <2>7. CASE Kill(p)
    BY <2>7, <2>0, EndKeepsInv DEF Kill
  <2> QED
    BY <1>2, <2>1, <2>2, <2>3, <2>4, <2>5, <2>6, <2>7, CreateKeyKeepsInv,
       WriteKeyKeepsInv, LockKeepsInv, ReadToSetKeepsInv, ReadToRemoveKeepsInv,
       SaveKeepsInv, LoadKeepsInv DEF Work
<1>3. CASE Finished
  BY <1>3, <1>1 DEF Finished
<1> QED
  BY <1>1, <1>2, <1>3 DEF Next

(* In every behaviour the invariant holds. *)
THEOREM StoreInvHolds == Spec => []StoreInv
<1>1. Init => StoreInv
  BY InvInit
<1>2. StoreInv /\ [Next]_vars => StoreInv'
  BY InvStep
<1> QED
  BY <1>1, <1>2, PTL DEF Spec

(* Every secret set on this machine opens with its key file, however many
   processes raced to create it. *)
THEOREM TokensOpenHolds == Spec => []TokensOpen
<1>1. StoreInv => TokensOpen
  BY DEF StoreInv
<1> QED
  BY <1>1, StoreInvHolds, PTL

(* A run that races the very first `set` never holds a token without its key,
   and creates no key but for tokens from elsewhere. *)
THEOREM KeyBeforeTokenHolds == Spec => []KeyBeforeToken
<1>1. StoreInv => KeyBeforeToken
  BY DEF StoreInv
<1> QED
  BY <1>1, StoreInvHolds, PTL

(* No command loses what another has set or removed: a step that changes the
   store is a save, and it changes only the name its command is about. *)
THEOREM NoLostUpdateHolds == Spec => NoLostUpdate
<1> DEFINE Own == store' # store =>
                    \E p \in Procs :
                       /\ op[p] # "resolve" /\ result'[p] = "ok" /\ result[p] = "none"
                       /\ \A n \in Names \ asks[p] : store'[n] = store[n]
<1>1. StoreInv /\ [Next]_vars => [Own]_vars
  <2> SUFFICES ASSUME StoreInv, Next, store' # store PROVE Own
    BY DEF vars, files
  <2>1. PICK p \in Procs : Save(p)
    BY DEF Next, Work, Finished, vars, files, FindKey, CreateKey, WriteKey, RereadKey,
           Lock, ReadToSet, ReadToRemove, Load, LoadNothing, Open, Prompt, Fail, Kill
  <2> QED
    BY <2>1, SaveIsOwn
<1>2. NoLostUpdate <=> [][Own]_vars
  BY DEF NoLostUpdate
<1> HIDE DEF Own
<1> QED
  BY <1>1, <1>2, StoreInvHolds, PTL DEF Spec
=============================================================================
