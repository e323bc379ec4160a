---------------------------- MODULE StoresProofs ----------------------------
(***************************************************************************)
(* What processes and tasks keep on disk and change in several steps: the  *)
(* vault file, a user's long-term memory and its migration, the documents  *)
(* of skills and their versions, for any number of them at once.           *)
(***************************************************************************)
EXTENDS VaultFile, EngramStore, EngramMigration, SkillVersions, ArithmeticProofs,
        FiniteSetTheorems

-----------------------------------------------------------------------------
(***************************************************************************)
(* The vault file is whole and keeps the database key: as long as no two   *)
(* processes have the temporary file open at once, the one that has it     *)
(* fills an inode the vault is not.                                        *)
(***************************************************************************)

Places == {"rest", "generated", "changed", "opened", "written", "keyed"}
Secrets == [Names -> 0..MaxWrites]
ProcState == [at : Places, key : 0..MaxWrites, secrets : Secrets, inode : Inodes \cup {NoFile}]

LEMMA TypeForms ==
  /\ VaultTypeOK => /\ proc \in [Processes -> ProcState]
                    /\ contents \in [Inodes -> Text]
                    /\ vault \in Inodes \cup {NoFile}
                    /\ temp \in Inodes \cup {NoFile}
                    /\ issued \in 0..MaxWrites
                    /\ db \in 0..MaxWrites
                    /\ Loaded \in Secrets
  /\ NoSecrets \in Secrets
  /\ Torn \in Text
  /\ AtRest \in ProcState
  /\ \A s \in Secrets : Whole(s) \in Text
<1>1. NoSecrets \in Secrets
  BY VaultAssumption DEF NoSecrets, Secrets
<1>2. Torn \in Text
  BY <1>1 DEF Torn, Text, Secrets
<1>3. AtRest \in ProcState
  BY <1>1, VaultAssumption DEF AtRest, ProcState, Places
<1>4. \A s \in Secrets : Whole(s) \in Text
  BY DEF Whole, Text, Secrets
<1>5. ASSUME VaultTypeOK PROVE Loaded \in Secrets
  <2>1. vault # NoFile => contents[vault] \in Text
    BY <1>5 DEF VaultTypeOK
  <2>. QED BY <1>1, <2>1 DEF Loaded, Text, Secrets
<1>. QED BY <1>1, <1>2, <1>3, <1>4, <1>5 DEF VaultTypeOK, ProcState, Places, Secrets

\* A process in ProcState holds a handle exactly between truncation and write.
Handles(s) == s.inode # NoFile <=> s.at = "opened"

LEMMA StepKeepsType ==
  ASSUME VaultTypeOK, NEW p \in Processes, NEW next \in ProcState, Handles(next), Go(p, next),
         vault' \in Inodes \cup {NoFile}, temp' \in Inodes \cup {NoFile},
         contents' \in [Inodes -> Text], issued' \in 0..MaxWrites, db' \in 0..MaxWrites,
         stale' \subseteq Processes, raced' \in BOOLEAN, overlapped' \in BOOLEAN
  PROVE  VaultTypeOK'
<1>1. proc' \in [Processes -> ProcState]
  BY TypeForms DEF Go
<1>2. \A q \in Processes : Handles(proc'[q])
  BY TypeForms DEF Go, Handles, VaultTypeOK
<1>. QED BY <1>1, <1>2 DEF VaultTypeOK, ProcState, Places, Secrets, Handles

LEMMA RestForms == AtRest \in ProcState /\ Handles(AtRest)
  BY TypeForms DEF Handles, AtRest

LEMMA StepType ==
  ASSUME VaultTypeOK, NEW p \in Processes, VaultStep(p)
  PROVE  VaultTypeOK'
<1>. USE TypeForms DEF vaultPast
<1>0. stale \subseteq Processes /\ raced \in BOOLEAN /\ overlapped \in BOOLEAN
  BY DEF VaultTypeOK
<1>1. ASSUME NEW n \in Names, Change(p, n) PROVE VaultTypeOK'
  <2>1. PICK v \in {0, issued + 1} :
          /\ v \in 0..MaxWrites
          /\ Go(p, [AtRest EXCEPT !.at = "changed", !.secrets = [Loaded EXCEPT ![n] = v]])
          /\ issued' \in 0..MaxWrites
    BY <1>1, VaultAssumption DEF Change
  <2>2. [Loaded EXCEPT ![n] = v] \in Secrets
    BY <2>1 DEF Secrets
  <2> DEFINE next == [AtRest EXCEPT !.at = "changed", !.secrets = [Loaded EXCEPT ![n] = v]]
  <2>3. next \in ProcState /\ Handles(next)
    BY <2>2 DEF ProcState, Places, Handles, AtRest
  <2>. QED BY <1>0, <1>1, <2>1, <2>3, StepKeepsType DEF Change
<1>2. CASE LookUpKey(p)
  <2>1. Loaded[DbKeyName] \in 0..MaxWrites
    BY VaultAssumption DEF Secrets
  <2>2. PICK at \in {"keyed", "generated"}, k \in 0..MaxWrites :
          /\ Go(p, [AtRest EXCEPT !.at = at, !.key = k])
          /\ issued' \in 0..MaxWrites
    <3>1. CASE Readable /\ Loaded[DbKeyName] # 0
      BY <1>2, <2>1, <3>1 DEF LookUpKey
    <3>2. CASE ~(Readable /\ Loaded[DbKeyName] # 0)
      <4>1. issued + 1 \in 0..MaxWrites
        BY <1>2, <3>2, VaultAssumption DEF LookUpKey
      <4>2. Go(p, [AtRest EXCEPT !.at = "generated", !.key = issued + 1]) /\ issued' = issued + 1
        BY <1>2, <3>2 DEF LookUpKey
      <4>. QED BY <4>1, <4>2
    <3>. QED BY <3>1, <3>2
  <2> DEFINE next == [AtRest EXCEPT !.at = at, !.key = k]
  <2>3. next \in ProcState /\ Handles(next)
    BY DEF ProcState, Places, Handles, AtRest
  <2>. QED BY <1>0, <1>2, <2>2, <2>3, StepKeepsType DEF LookUpKey
<1>3. CASE InsertKey(p)
  <2>1. CASE ~Readable
    BY <1>0, <1>3, <2>1, RestForms, StepKeepsType DEF InsertKey, Rest
  <2>2. CASE Readable
    <3> DEFINE sec  == [Loaded EXCEPT ![DbKeyName] = proc[p].key]
               next == [proc[p] EXCEPT !.at = "changed", !.secrets = sec]
    <3>1. sec \in Secrets /\ proc[p] \in ProcState /\ proc[p].inode = NoFile
      BY <1>3, VaultAssumption DEF Secrets, ProcState, InsertKey, VaultTypeOK
    <3>2. next \in ProcState /\ Handles(next)
      BY <3>1 DEF ProcState, Places, Handles
    <3>. QED BY <1>0, <1>3, <2>2, <3>2, StepKeepsType DEF InsertKey
  <2>. QED BY <2>1, <2>2
<1>4. CASE OpenTemp(p)
  <2>1. PICK i \in Inodes :
          /\ temp' = i
          /\ contents' = [contents EXCEPT ![i] = Torn]
          /\ Go(p, [proc[p] EXCEPT !.at = "opened", !.inode = i])
    BY <1>4 DEF OpenTemp
  <2> DEFINE next == [proc[p] EXCEPT !.at = "opened", !.inode = i]
  <2>2. next \in ProcState /\ Handles(next)
    BY VaultAssumption DEF ProcState, Places, Handles, NoFile
  <2>. QED BY <1>0, <1>4, <2>1, <2>2, StepKeepsType DEF OpenTemp
<1>5. CASE WriteTemp(p)
  <2>1. proc[p] \in ProcState /\ proc[p].inode \in Inodes
    BY <1>5 DEF WriteTemp, VaultTypeOK, ProcState
  <2>2. PICK text \in {Whole(proc[p].secrets), Torn} :
          contents' = [contents EXCEPT ![proc[p].inode] = text]
    BY <1>5 DEF WriteTemp
  <2>3. contents' \in [Inodes -> Text]
    BY <2>1, <2>2 DEF ProcState
  <2> DEFINE next == [proc[p] EXCEPT !.at = "written", !.inode = NoFile]
  <2>4. next \in ProcState /\ Handles(next)
    BY <2>1 DEF ProcState, Places, Handles
  <2>. QED BY <1>0, <1>5, <2>3, <2>4, StepKeepsType DEF WriteTemp
<1>6. CASE RenameTemp(p)
  <2>1. CASE temp = NoFile
    BY <1>0, <1>6, <2>1, RestForms, StepKeepsType DEF RenameTemp, Rest
  <2>2. CASE temp # NoFile
    <3>1. contents' \in [Inodes -> Text] /\ vault' \in Inodes \cup {NoFile}
      BY <1>6, <2>2 DEF RenameTemp
    <3> DEFINE keyed == [AtRest EXCEPT !.at = "keyed", !.key = proc[p].key]
    <3>2. proc[p].key \in 0..MaxWrites
      BY DEF ProcState
    <3>3. keyed \in ProcState /\ Handles(keyed)
      BY <3>2 DEF ProcState, Places, Handles, AtRest
    <3>4. PICK next \in {keyed, AtRest} : Go(p, next)
      BY <1>6, <2>2 DEF RenameTemp
    <3>5. next \in ProcState /\ Handles(next)
      BY <3>3, RestForms
    <3>6. temp' \in Inodes \cup {NoFile} /\ stale' \subseteq Processes /\ raced' \in BOOLEAN
          /\ overlapped' \in BOOLEAN /\ issued' \in 0..MaxWrites /\ db' \in 0..MaxWrites
      BY <1>0, <1>6, <2>2 DEF RenameTemp
    <3>. QED BY <3>1, <3>4, <3>5, <3>6, StepKeepsType
  <2>. QED BY <2>1, <2>2
<1>7. CASE SaveFails(p) \/ VaultCrash(p)
  BY <1>0, <1>7, RestForms, StepKeepsType DEF SaveFails, VaultCrash, Rest
<1>8. CASE OpenDatabase(p)
  <2>1. db' \in 0..MaxWrites
    BY <1>8 DEF OpenDatabase, ProcState
  <2>. QED BY <1>0, <1>8, <2>1, RestForms, StepKeepsType DEF OpenDatabase, Rest
<1>. QED BY <1>1, <1>2, <1>3, <1>4, <1>5, <1>6, <1>7, <1>8 DEF VaultStep

LEMMA NextVaultType == VaultTypeOK /\ [VaultNext]_vaultVars => VaultTypeOK'
<1> SUFFICES ASSUME VaultTypeOK, [VaultNext]_vaultVars PROVE VaultTypeOK'
  OBVIOUS
<1>1. CASE VaultNext
  BY <1>1, StepType DEF VaultNext
<1>2. CASE UNCHANGED vaultVars
  BY <1>2 DEF vaultVars, vaultPast, VaultTypeOK
<1>. QED BY <1>1, <1>2

LEMMA InitVaultType == VaultInit => VaultTypeOK
<1> SUFFICES ASSUME VaultInit PROVE VaultTypeOK
  OBVIOUS
<1>1. proc \in [Processes -> ProcState] /\ \A q \in Processes : Handles(proc[q])
  BY RestForms DEF VaultInit
<1>2. contents \in [Inodes -> Text]
  BY TypeForms DEF VaultInit
<1>3. 0 \in 0..MaxWrites
  BY VaultAssumption
<1>. QED BY <1>1, <1>2, <1>3 DEF VaultInit, VaultTypeOK, ProcState, Places, Secrets, Handles

\* The vault and its processes keep their types, handles included.
THEOREM VaultTypeCorrect == VaultSpec => []VaultTypeOK
<1>. QED BY InitVaultType, NextVaultType, PTL DEF VaultSpec

-----------------------------------------------------------------------------
(* The vault is whole.                                                     *)

Saving(p) == proc[p].at \in {"opened", "written"}

\* At most one process saves; what it fills is not the vault, is torn until it
\* wrote, and then holds its copy.
SaverInv ==
  /\ Readable
  /\ temp # NoFile => temp # vault
  /\ \A p, q \in Processes : Saving(p) /\ Saving(q) => p = q
  /\ \A p \in Processes : proc[p].at = "opened" => proc[p].inode = temp /\ ~contents[temp].whole
  /\ \A p \in Processes : proc[p].at = "written" =>
       temp # NoFile /\ contents[temp] = Whole(proc[p].secrets)

\* What a step of p leaves alone.
LEMMA OthersStay ==
  ASSUME VaultTypeOK, NEW p \in Processes, NEW next, Go(p, next)
  PROVE  /\ proc'[p] = next
         /\ \A q \in Processes \ {p} : proc'[q] = proc[q]
  BY TypeForms DEF Go

\* A step that ends outside a save and changes no file keeps the invariant.
LEMMA NotSaving ==
  ASSUME VaultTypeOK, SaverInv, NEW p \in Processes, proc' = [proc EXCEPT ![p] = proc'[p]],
         proc'[p].at \notin {"opened", "written"}, UNCHANGED <<vault, temp, contents>>
  PROVE  SaverInv'
<1>1. \A q \in Processes \ {p} : proc'[q] = proc[q]
  BY TypeForms
<1>. QED BY <1>1 DEF SaverInv, Saving, Readable

LEMMA StepSaver ==
  ASSUME VaultTypeOK, SaverInv, ~overlapped', NEW p \in Processes, VaultStep(p)
  PROVE  SaverInv'
<1>. USE DEF vaultPast
<1>0. /\ proc \in [Processes -> ProcState]
      /\ vault \in Inodes \cup {NoFile}
      /\ temp \in Inodes \cup {NoFile}
      /\ contents \in [Inodes -> Text]
      /\ NoFile \notin Inodes
  BY TypeForms, VaultAssumption DEF NoFile
<1>1. CASE \/ \E n \in Names : Change(p, n)
           \/ LookUpKey(p) \/ InsertKey(p) \/ OpenDatabase(p)
           \/ SaveFails(p) \/ VaultCrash(p)
           \/ RenameTemp(p) /\ temp = NoFile
  <2>1. ASSUME NEW next, Go(p, next), next.at \notin {"opened", "written"}
        PROVE  /\ proc' = [proc EXCEPT ![p] = proc'[p]]
               /\ proc'[p].at \notin {"opened", "written"}
    BY <1>0, <2>1 DEF Go
  <2>2. UNCHANGED <<vault, temp, contents>>
    BY <1>1 DEF Change, LookUpKey, InsertKey, OpenDatabase, SaveFails, VaultCrash, RenameTemp
  <2>3. /\ proc' = [proc EXCEPT ![p] = proc'[p]]
        /\ proc'[p].at \notin {"opened", "written"}
    <3>1. AtRest.at = "rest" /\ proc[p] \in ProcState
      BY <1>0 DEF AtRest
    <3>2. ASSUME NEW n \in Names, Change(p, n)
          PROVE  /\ proc' = [proc EXCEPT ![p] = proc'[p]]
                 /\ proc'[p].at \notin {"opened", "written"}
      BY <2>1, <3>2 DEF Change, AtRest
    <3>3. CASE LookUpKey(p)
      BY <2>1, <3>3 DEF LookUpKey, AtRest
    <3>4. CASE InsertKey(p)
      BY <2>1, <3>1, <3>4 DEF InsertKey, Rest, ProcState
    <3>5. CASE Go(p, AtRest)
      BY <2>1, <3>1, <3>5
    <3>. QED BY <1>1, <3>2, <3>3, <3>4, <3>5
             DEF OpenDatabase, SaveFails, VaultCrash, RenameTemp, Rest
  <2>. QED BY <2>2, <2>3, NotSaving
<1>2. CASE OpenTemp(p)
  <2>1. PICK i \in Inodes :
          /\ IF temp = NoFile THEN Fresh(i) ELSE i = temp
          /\ temp' = i
          /\ contents' = [contents EXCEPT ![i] = Torn]
          /\ Go(p, [proc[p] EXCEPT !.at = "opened", !.inode = i])
    BY <1>2 DEF OpenTemp
  <2>2. i # vault
    BY <2>1 DEF Fresh, InUse, SaverInv
  <2>3. \A q \in Processes : ~Saving(q)
    BY <1>2 DEF OpenTemp, Saving
  <2>4. proc'[p].at = "opened" /\ proc'[p].inode = i /\ \A q \in Processes \ {p} : proc'[q] = proc[q]
    BY <1>0, <2>1 DEF Go, ProcState
  <2>5. contents'[i] = Torn /\ ~contents'[i].whole /\ vault' = vault
        /\ (vault # NoFile => contents'[vault] = contents[vault])
    BY <1>0, <1>2, <2>1, <2>2 DEF OpenTemp, Torn
  <2>6. Readable'
    BY <2>5 DEF SaverInv, Readable
  <2>7. \A q \in Processes \ {p} : proc'[q].at \notin {"opened", "written"}
    BY <2>3, <2>4 DEF Saving
  <2>. QED BY <2>1, <2>2, <2>4, <2>5, <2>6, <2>7 DEF SaverInv, Saving
<1>3. CASE WriteTemp(p)
  <2>1. proc[p].inode = temp /\ temp # NoFile /\ ~contents[temp].whole /\ temp # vault
    BY <1>3 DEF WriteTemp, SaverInv, VaultTypeOK
  <2>2. contents' = [contents EXCEPT ![temp] = Whole(proc[p].secrets)]
    BY <1>3, <2>1 DEF WriteTemp
  <2>3. /\ proc'[p].at = "written" /\ proc'[p].secrets = proc[p].secrets
        /\ \A q \in Processes \ {p} : proc'[q] = proc[q]
    BY <1>0, <1>3 DEF WriteTemp, Go, ProcState
  <2>4. \A q \in Processes \ {p} : proc'[q].at \notin {"opened", "written"}
    BY <1>3, <2>3 DEF WriteTemp, SaverInv, Saving
  <2>5. /\ UNCHANGED <<vault, temp>>
        /\ contents'[temp] = Whole(proc[p].secrets)
        /\ vault # NoFile => contents'[vault] = contents[vault]
    BY <1>0, <1>3, <2>1, <2>2 DEF WriteTemp
  <2>6. Readable'
    BY <2>5 DEF SaverInv, Readable
  <2>. QED BY <2>1, <2>3, <2>4, <2>5, <2>6 DEF SaverInv, Saving
<1>4. CASE RenameTemp(p) /\ temp # NoFile
  <2>1. contents[temp] = Whole(proc[p].secrets) /\ temp # vault
    BY <1>4 DEF RenameTemp, SaverInv
  <2>2. vault' = temp /\ temp' = NoFile /\ contents'[temp] = contents[temp]
    BY <1>0, <1>4, <2>1 DEF RenameTemp
  <2>3. Readable'
    BY <2>1, <2>2 DEF Readable, Whole
  <2>4. \E next : Go(p, next) /\ next.at \notin {"opened", "written"}
    <3>1. AtRest.at = "rest" /\ \A k : [AtRest EXCEPT !.at = "keyed", !.key = k].at = "keyed"
      BY DEF AtRest
    <3>. QED BY <1>4, <3>1 DEF RenameTemp
  <2>5. /\ proc'[p].at \notin {"opened", "written"}
        /\ \A q \in Processes \ {p} : proc'[q] = proc[q]
    BY <2>4, OthersStay
  <2>6. \A q \in Processes : ~Saving(q)'
    BY <1>4, <2>5 DEF RenameTemp, SaverInv, Saving
  <2>. QED BY <2>2, <2>3, <2>6 DEF SaverInv, Saving
<1>. QED BY <1>1, <1>2, <1>3, <1>4 DEF VaultStep

WholeInv == VaultTypeOK /\ (~overlapped => SaverInv)

LEMMA InitWhole == VaultInit => WholeInv
<1>1. AtRest.at = "rest"
  BY DEF AtRest
<1>2. VaultInit => SaverInv
  BY <1>1 DEF VaultInit, SaverInv, Saving, Readable
<1>. QED BY <1>2, InitVaultType DEF WholeInv

LEMMA OverlapStays == VaultTypeOK /\ [VaultNext]_vaultVars /\ ~overlapped' => ~overlapped
  BY DEF VaultTypeOK, VaultNext, VaultStep, Change, LookUpKey, InsertKey, OpenTemp, WriteTemp,
         RenameTemp, SaveFails, OpenDatabase, VaultCrash, vaultVars, vaultPast

LEMMA NextWhole == WholeInv /\ [VaultNext]_vaultVars => WholeInv'
<1> SUFFICES ASSUME WholeInv, [VaultNext]_vaultVars, ~overlapped' PROVE SaverInv'
  BY NextVaultType DEF WholeInv
<1>1. SaverInv
  BY OverlapStays DEF WholeInv
<1>2. CASE VaultNext
  BY <1>1, <1>2, StepSaver DEF VaultNext, WholeInv
<1>3. CASE UNCHANGED vaultVars
  BY <1>1, <1>3 DEF vaultVars, SaverInv, Saving, Readable
<1>. QED BY <1>2, <1>3

\* Whatever fails or crashes, the vault is a complete save of some process,
\* unless two had the temporary file open at once.
THEOREM VaultAlwaysWhole == VaultSpec => []VaultIsWhole
<1>1. VaultInit => WholeInv
  BY InitWhole
<1>2. WholeInv /\ [VaultNext]_vaultVars => WholeInv'
  BY NextWhole
<1>3. WholeInv => VaultIsWhole
  BY DEF WholeInv, SaverInv, VaultIsWhole
<1>. QED BY <1>1, <1>2, <1>3, PTL DEF VaultSpec

-----------------------------------------------------------------------------
(* The database key is kept.                                               *)

SavedKey == Loaded[DbKeyName]

\* What a process in state s knows of the saved key: one that was given the key
\* has the saved one; one whose copy nobody overtook writes back the saved key,
\* or has made one because there is none.
KeyKnown(s, saved, fresh) ==
  /\ s.at = "keyed" => s.key = saved /\ saved # 0
  /\ fresh =>
       /\ s.at = "generated" => s.key # 0
       /\ s.at \in {"generated", "changed", "opened", "written"} /\ s.key # 0 => saved = 0
       /\ s.at \in {"changed", "opened", "written"} =>
            s.secrets[DbKeyName] = IF s.key = 0 THEN saved ELSE s.key

KeyInv ==
  /\ db # 0 => SavedKey = db
  /\ \A p \in Processes : KeyKnown(proc[p], SavedKey, p \notin stale)

\* A step of p that does not change the saved key.
LEMMA LocalKey ==
  ASSUME VaultTypeOK, KeyInv, NEW p \in Processes, SavedKey' = SavedKey, db' \in {db, SavedKey},
         \A q \in Processes \ {p} : proc'[q] = proc[q], stale \ {p} \subseteq stale',
         KeyKnown(proc'[p], SavedKey, p \notin stale')
  PROVE  KeyInv'
<1>1. ASSUME NEW q \in Processes PROVE KeyKnown(proc'[q], SavedKey, q \notin stale')
  <2>1. CASE q = p
    BY <2>1
  <2>2. CASE q # p
    <3>1. proc'[q] = proc[q] /\ (q \in stale => q \in stale')
      BY <2>2
    <3>. QED BY <3>1 DEF KeyInv, KeyKnown
  <2>. QED BY <2>1, <2>2
<1>2. db' # 0 => SavedKey = db'
  BY DEF KeyInv
<1>. QED BY <1>1, <1>2 DEF KeyInv

LEMMA StepKey ==
  ASSUME VaultTypeOK, SaverInv, KeyInv, ~raced', NEW p \in Processes, VaultStep(p)
  PROVE  KeyInv'
<1>. USE DEF vaultPast
<1>0. /\ proc \in [Processes -> ProcState]
      /\ vault \in Inodes \cup {NoFile}
      /\ contents \in [Inodes -> Text]
      /\ Loaded \in Secrets
      /\ stale \subseteq Processes
      /\ NoFile \notin Inodes
      /\ DbKeyName \in Names
  BY TypeForms, VaultAssumption DEF NoFile, VaultTypeOK
<1>1. ASSUME UNCHANGED vault, vault # NoFile => contents'[vault] = contents[vault]
      PROVE  Loaded' = Loaded /\ SavedKey' = SavedKey
  BY <1>1 DEF SavedKey, Loaded
<1>2. KeyKnown(proc[p], SavedKey, p \notin stale)
  BY DEF KeyInv
<1>3. CASE Go(p, AtRest) /\ UNCHANGED <<vault, contents>> /\ stale' = stale \ {p}
           /\ db' \in {db, SavedKey}
  <2>1. proc'[p] = AtRest /\ \A q \in Processes \ {p} : proc'[q] = proc[q]
    BY <1>0, <1>3 DEF Go
  <2>2. KeyKnown(AtRest, SavedKey, TRUE)
    BY DEF KeyKnown, AtRest
  <2>3. stale \ {p} \subseteq stale' /\ p \notin stale' /\ SavedKey' = SavedKey
    BY <1>1, <1>3
  <2>4. KeyKnown(proc'[p], SavedKey, p \notin stale')
    BY <2>1, <2>2, <2>3
  <2>. QED BY <1>3, <2>1, <2>3, <2>4, LocalKey
<1>4. ASSUME NEW n \in Names, Change(p, n) PROVE KeyInv'
  <2>1. PICK v : Go(p, [AtRest EXCEPT !.at = "changed", !.secrets = [Loaded EXCEPT ![n] = v]])
    BY <1>4 DEF Change
  <2>2. /\ proc'[p].at = "changed" /\ proc'[p].key = 0
        /\ proc'[p].secrets = [Loaded EXCEPT ![n] = v]
        /\ \A q \in Processes \ {p} : proc'[q] = proc[q]
    BY <1>0, <2>1 DEF Go, AtRest
  <2>3. proc'[p].secrets[DbKeyName] = SavedKey
    BY <1>0, <1>4, <2>2 DEF Change, SavedKey, Secrets
  <2>. QED BY <1>1, <1>4, <2>2, <2>3, LocalKey DEF Change, KeyKnown
<1>5. CASE LookUpKey(p)
  <2>1. CASE Readable /\ Loaded[DbKeyName] # 0
    <3>1. /\ proc'[p].at = "keyed" /\ proc'[p].key = SavedKey /\ SavedKey # 0
          /\ \A q \in Processes \ {p} : proc'[q] = proc[q]
      BY <1>0, <1>5, <2>1 DEF LookUpKey, Go, AtRest, SavedKey
    <3>. QED BY <1>1, <1>5, <3>1, LocalKey DEF LookUpKey, KeyKnown
  <2>2. CASE ~(Readable /\ Loaded[DbKeyName] # 0)
    <3>1. SavedKey = 0 /\ issued + 1 # 0
      BY <2>2, TypeForms DEF SavedKey, SaverInv
    <3>2. /\ proc'[p].at = "generated" /\ proc'[p].key # 0
          /\ \A q \in Processes \ {p} : proc'[q] = proc[q]
      BY <1>0, <1>5, <2>2, <3>1 DEF LookUpKey, Go, AtRest
    <3>. QED BY <1>1, <1>5, <3>1, <3>2, LocalKey DEF LookUpKey, KeyKnown
  <2>. QED BY <2>1, <2>2
<1>6. CASE InsertKey(p)
  <2>1. /\ Go(p, [proc[p] EXCEPT !.at = "changed",
                                 !.secrets = [Loaded EXCEPT ![DbKeyName] = proc[p].key]])
        /\ UNCHANGED stale
    BY <1>6 DEF InsertKey, SaverInv
  <2>2. /\ proc'[p].at = "changed" /\ proc'[p].key = proc[p].key
        /\ proc'[p].secrets = [Loaded EXCEPT ![DbKeyName] = proc[p].key]
        /\ \A q \in Processes \ {p} : proc'[q] = proc[q]
    BY <1>0, <2>1 DEF Go, ProcState
  <2>3. proc'[p].secrets[DbKeyName] = proc[p].key
    BY <1>0, <2>2 DEF Secrets
  <2>. QED BY <1>1, <1>2, <1>6, <2>1, <2>2, <2>3, LocalKey DEF InsertKey, KeyKnown
<1>7. CASE OpenTemp(p) \/ WriteTemp(p)
  <2>1. /\ UNCHANGED <<vault, db, stale>>
        /\ vault # NoFile => contents'[vault] = contents[vault]
    <3>1. CASE OpenTemp(p)
      BY <1>0, <1>7, <3>1 DEF OpenTemp, Fresh, InUse, SaverInv
    <3>2. CASE WriteTemp(p)
      <4>1. proc[p].inode # vault \/ vault = NoFile
        BY <3>2 DEF WriteTemp, SaverInv, VaultTypeOK
      <4>. QED BY <1>0, <3>2, <4>1 DEF WriteTemp
    <3>. QED BY <1>7, <3>1, <3>2
  <2>2. /\ proc[p].at \in {"changed", "opened"}
        /\ proc'[p].at \in {"opened", "written"} /\ proc'[p].key = proc[p].key
        /\ proc'[p].secrets = proc[p].secrets
        /\ \A q \in Processes \ {p} : proc'[q] = proc[q]
    <3>1. CASE OpenTemp(p)
      <4>1. PICK i \in Inodes : Go(p, [proc[p] EXCEPT !.at = "opened", !.inode = i])
        BY <3>1 DEF OpenTemp
      <4>. QED BY <1>0, <3>1, <4>1 DEF OpenTemp, Go, ProcState
    <3>2. CASE WriteTemp(p)
      BY <1>0, <3>2 DEF WriteTemp, Go, ProcState
    <3>. QED BY <1>7, <3>1, <3>2
  <2>. QED BY <1>1, <1>2, <2>1, <2>2, LocalKey DEF KeyKnown
<1>8. CASE RenameTemp(p)
  <2>1. /\ proc[p].at = "written" /\ temp # NoFile /\ temp # vault
        /\ contents[temp] = Whole(proc[p].secrets) /\ p \notin stale
    BY <1>8 DEF RenameTemp, SaverInv
  <2>2. vault' = temp /\ contents'[temp] = contents[temp] /\ db' = db
    BY <1>0, <1>8, <2>1, TypeForms DEF RenameTemp
  <2>3. SavedKey' = proc[p].secrets[DbKeyName]
    BY <2>1, <2>2 DEF SavedKey, Loaded, Whole
  <2>4. \A q \in Processes \ {p} : q \notin stale' => proc[q].at \in {"rest", "keyed"}
    BY <1>8, <2>1 DEF RenameTemp
  <2>5. \A q \in Processes \ {p} : proc'[q] = proc[q]
    BY <1>0, <1>8, <2>1 DEF RenameTemp, Go
  <2>6. CASE proc[p].key = 0
    <3>1. SavedKey' = SavedKey
      BY <1>2, <2>1, <2>3, <2>6 DEF KeyKnown
    <3>2. proc'[p].at = "rest"
      BY <1>0, <1>8, <2>1, <2>6 DEF RenameTemp, Go, AtRest
    <3>3. ASSUME NEW q \in Processes PROVE KeyKnown(proc'[q], SavedKey, q \notin stale')
      BY <2>4, <2>5, <3>2 DEF KeyInv, KeyKnown
    <3>. QED BY <2>2, <3>1, <3>3 DEF KeyInv
  <2>7. CASE proc[p].key # 0
    <3>1. SavedKey = 0 /\ SavedKey' = proc[p].key
      BY <1>2, <2>1, <2>3, <2>7 DEF KeyKnown
    <3>2. proc'[p].at = "keyed" /\ proc'[p].key = proc[p].key
      <4>1. Go(p, [AtRest EXCEPT !.at = "keyed", !.key = proc[p].key])
        BY <1>8, <2>1, <2>7 DEF RenameTemp
      <4>2. proc'[p] = [AtRest EXCEPT !.at = "keyed", !.key = proc[p].key]
        BY <1>0, <4>1 DEF Go
      <4>. QED BY <4>2 DEF AtRest
    <3>3. db = 0 /\ \A q \in Processes : proc[q].at # "keyed"
      BY <3>1 DEF KeyInv, KeyKnown
    <3>4. ASSUME NEW q \in Processes PROVE KeyKnown(proc'[q], proc[p].key, q \notin stale')
      BY <2>4, <2>5, <2>7, <3>2, <3>3 DEF KeyKnown
    <3>. QED BY <2>2, <3>1, <3>3, <3>4 DEF KeyInv
  <2>. QED BY <2>6, <2>7
<1>9. CASE OpenDatabase(p)
  <2>1. db' \in {db, SavedKey}
    BY <1>2, <1>9 DEF OpenDatabase, KeyKnown
  <2>. QED BY <1>3, <1>9, <2>1 DEF OpenDatabase, Rest
<1>10. CASE SaveFails(p) \/ VaultCrash(p)
  BY <1>3, <1>10 DEF SaveFails, VaultCrash, Rest
<1>. QED BY <1>4, <1>5, <1>6, <1>7, <1>8, <1>9, <1>10 DEF VaultStep

KeptInv == WholeInv /\ (~overlapped /\ ~raced => KeyInv)

LEMMA RaceStays == VaultTypeOK /\ [VaultNext]_vaultVars /\ ~raced' => ~raced
  BY DEF VaultTypeOK, VaultNext, VaultStep, Change, LookUpKey, InsertKey, OpenTemp, WriteTemp,
         RenameTemp, SaveFails, OpenDatabase, VaultCrash, vaultVars, vaultPast

LEMMA NextKept == KeptInv /\ [VaultNext]_vaultVars => KeptInv'
<1> SUFFICES ASSUME KeptInv, [VaultNext]_vaultVars, ~overlapped', ~raced' PROVE KeyInv'
  BY NextWhole DEF KeptInv
<1>1. VaultTypeOK /\ SaverInv /\ KeyInv
  BY OverlapStays, RaceStays DEF KeptInv, WholeInv
<1>2. CASE VaultNext
  BY <1>1, <1>2, StepKey DEF VaultNext
<1>3. CASE UNCHANGED vaultVars
  BY <1>1, <1>3 DEF vaultVars, vaultPast, KeyInv, SavedKey, Loaded
<1>. QED BY <1>2, <1>3

\* The key a database was created with is never lost from the vault, unless two
\* saves overlapped or one overtook another.
THEOREM DatabaseKeyAlwaysKept == VaultSpec => []DatabaseKeyKept
<1>1. VaultInit => KeptInv
  <2>1. VaultInit => WholeInv
    BY InitWhole
  <2>2. VaultInit => KeyInv
    <3> SUFFICES ASSUME VaultInit PROVE KeyInv
      OBVIOUS
    <3>1. \A p \in Processes : proc[p].at = "rest"
      BY DEF VaultInit, AtRest
    <3>. QED BY <3>1 DEF VaultInit, KeyInv, KeyKnown
  <2>. QED BY <2>1, <2>2 DEF KeptInv
<1>2. KeptInv /\ [VaultNext]_vaultVars => KeptInv'
  BY NextKept
<1>3. KeptInv => DatabaseKeyKept
  BY DEF KeptInv, KeyInv, SavedKey, DatabaseKeyKept
<1>. QED BY <1>1, <1>2, <1>3, PTL DEF VaultSpec

-----------------------------------------------------------------------------
(***************************************************************************)
(* The long-term memory: the index tells what the rows tell, and the       *)
(* chains of memories that supersede each other end.                       *)
(***************************************************************************)

MemoryRow == [row : 0..MaxMemories, tells : SUBSET Ids, by : 0..MaxMemories]
Work ==
  [at : {"rest", "supersede", "index", "unindex", "overwrite", "delete", "reflect", "merge"},
   id : 0..MaxMemories, row : 0..MaxMemories, set : SUBSET Ids]

\* What the type invariant leaves unsaid.
EngramForms ==
  /\ made \in 0..MaxMemories
  /\ memory \in [Ids -> MemoryRow]
  /\ indexed \in [Ids -> SUBSET Ids]
  /\ work \in [EngramTasks -> Work]
  /\ recorded \subseteq 1..made
  /\ forgotten \subseteq Ids /\ strayed \subseteq Ids
  /\ leftover \subseteq Ids /\ unmerged \subseteq Ids
  /\ crossed \in BOOLEAN

\* A row is of a memory that was recorded, once, and no higher than there were
\* memories; the fact of a stored memory is told by no other.
RowsAreMemories ==
  /\ \A i \in Ids : ~Stored(i) => memory[i].tells = {}
  /\ \A i \in Ids : Stored(i) => i \in recorded /\ memory[i].row <= Cardinality(recorded)
  /\ \A i, j \in Ids : Stored(i) /\ memory[i].row = memory[j].row => i = j
  /\ \A i \in Ids : memory[i].tells \subseteq recorded
  /\ \A i, j \in Ids : Stored(i) /\ i \in memory[j].tells => i = j

\* What a task works on is what it found, or gone.
WorkIsCurrent(w) ==
  /\ w.at = "supersede" => w.id \in 1..made /\ w.id \notin recorded
  /\ w.at \in {"index", "unindex", "overwrite", "delete"} =>
       w.id \in recorded /\ w.row \in Ids /\ memory[w.id].row \in {0, w.row}
  /\ w.at \in {"unindex", "overwrite"} => memory[w.id].tells \subseteq w.set \cup strayed
  /\ w.at = "delete" => memory[w.id].tells \subseteq forgotten \cup strayed
  /\ w.at \in {"overwrite", "delete"} /\ Stored(w.id) =>
       indexed[w.row] \subseteq strayed \cup leftover
  /\ w.at = "reflect" => w.set \subseteq recorded
  /\ w.at = "merge" => {w.id, w.row} \subseteq recorded /\ w.id # w.row

WorksAreCurrent ==
  /\ \A t \in EngramTasks : WorkIsCurrent(work[t])
  /\ \A s, t \in EngramTasks : Working(s, "supersede") /\ Working(t, "supersede")
                               /\ work[s].id = work[t].id => s = t

\* The chains of supersession in a table: C holds what its facts lead to; n leads
\* to none of the facts of S; no set of facts leads only into itself.
LeadsInto(table, C) ==
  \A f \in C, i \in Ids : f \in table[i].tells => table[i].by \in {0} \cup C
Apart(table, n, S) == \E C \in SUBSET Ids : n \in C /\ LeadsInto(table, C) /\ C \cap S = {}
ChainsEnd(table, facts) ==
  \A D \in SUBSET facts :
    D # {} => \E f \in D, i \in Ids : f \in table[i].tells /\ table[i].by \in {0} \cup (Ids \ D)

\* What a reflection has still to supersede or to merge leads to nothing that would
\* lead back.
ReflectionIsSafe(table, w) ==
  /\ w.at = "reflect" => \A m, b \in w.set : m # b => Apart(table, b, table[m].tells)
  /\ w.at = "merge" /\ table[w.row].by # 0 =>
       Apart(table, table[w.row].by, table[w.id].tells \cup table[w.row].tells)

OneReflects ==
  /\ \A s, t \in Reflecting : s = t
  /\ \A t \in EngramTasks : ReflectionIsSafe(memory, work[t])
  /\ ChainsEnd(memory, recorded \ (forgotten \cup strayed \cup unmerged))

EngramInv ==
  /\ EngramForms
  /\ RowsAreMemories
  /\ WorksAreCurrent
  /\ IndexTellsItsMemory
  /\ ~crossed => OneReflects

LEMMA EngramInvTypes == EngramInv => EngramTypeOK /\ FactsAreSettled
<1> SUFFICES ASSUME EngramInv PROVE EngramTypeOK /\ FactsAreSettled
  OBVIOUS
<1>1. \A t \in EngramTasks : work[t] \in Work
  BY DEF EngramInv, EngramForms
<1>2. EngramTypeOK
  <2>1. \A t \in EngramTasks :
          /\ work[t].at \in {"rest", "supersede", "index", "unindex", "overwrite", "delete",
                             "reflect", "merge"}
          /\ work[t].id \in 0..MaxMemories
          /\ work[t].row \in 0..MaxMemories
          /\ work[t].set \subseteq Ids
    BY <1>1 DEF Work
  <2>2. recorded \subseteq Ids
    BY EngramAssumption DEF EngramInv, EngramForms, Ids
  <2>. QED BY <2>1, <2>2 DEF EngramInv, EngramForms, RowsAreMemories, EngramTypeOK, MemoryRow
<1>3. FactsAreSettled
  BY DEF EngramInv, OneReflects, ChainsEnd, FactsAreSettled, Settled
<1>. QED BY <1>2, <1>3

LEMMA InitEngram == EngramInit => EngramInv
<1> SUFFICES ASSUME EngramInit PROVE EngramInv
  OBVIOUS
<1>0. MaxMemories \in Nat
  BY EngramAssumption
<1>1. /\ memory \in [Ids -> MemoryRow] /\ \A i \in Ids : memory[i] = NoMemory
      /\ work \in [EngramTasks -> Work] /\ \A t \in EngramTasks : work[t] = AtEase
      /\ recorded = {} /\ forgotten = {} /\ strayed = {} /\ made = 0
      /\ leftover = {} /\ unmerged = {}
      /\ indexed \in [Ids -> SUBSET Ids] /\ \A r \in Ids : indexed[r] = {}
  BY <1>0 DEF EngramInit, MemoryRow, NoMemory, Work, AtEase
<1>2. EngramForms
  <2>1. crossed = FALSE
    BY DEF EngramInit
  <2>2. made \in 0..MaxMemories
    BY <1>0, <1>1
  <2>. QED BY <1>1, <2>1, <2>2 DEF EngramForms
<1>3. \A i \in Ids : ~Stored(i)
  BY <1>1 DEF Stored, NoMemory
<1>4. RowsAreMemories
  BY <1>1, <1>3 DEF RowsAreMemories, NoMemory
<1>5. WorksAreCurrent
  BY <1>1 DEF WorksAreCurrent, WorkIsCurrent, Working, AtEase
<1>6. IndexTellsItsMemory
  BY <1>1 DEF IndexTellsItsMemory
<1>7. OneReflects
  BY <1>1 DEF OneReflects, Reflecting, ReflectionIsSafe, ChainsEnd, AtEase
<1>. QED BY <1>2, <1>4, <1>5, <1>6, <1>7 DEF EngramInv

-----------------------------------------------------------------------------
(* Rows and chains.                                                        *)

\* A new row comes after every row there is.
LEMMA NextRowIsFree ==
  ASSUME EngramForms, RowsAreMemories
  PROVE  /\ Cardinality(recorded) \in Nat
         /\ NextRow \in 1..(Cardinality(recorded) + 1)
         /\ \A i \in Ids : memory[i].row < NextRow
<1>0. MaxMemories \in Nat /\ made \in Nat
  BY EngramAssumption DEF EngramForms
<1>1. IsFiniteSet(recorded) /\ Cardinality(recorded) \in Nat /\ Cardinality(recorded) <= made
  <2>1. IsFiniteSet(1..made) /\ Cardinality(1..made) = made
    BY <1>0, FS_Interval
  <2>2. recorded \in SUBSET (1..made)
    BY DEF EngramForms
  <2>. QED BY <2>1, <2>2, FS_Subset, FS_CardinalityType
<1> DEFINE c == Cardinality(recorded)
           T == {r \in Nat : r >= 1 /\ \A i \in Ids : memory[i].row < r}
<1>2. \A i \in Ids : memory[i].row \in Nat /\ memory[i].row <= c
  <2>1. TAKE i \in Ids
  <2>2. memory[i] \in MemoryRow
    BY DEF EngramForms
  <2>3. CASE Stored(i)
    BY <1>0, <2>2, <2>3 DEF RowsAreMemories, MemoryRow
  <2>4. CASE ~Stored(i)
    BY <1>1, <2>4 DEF Stored
  <2>. QED BY <2>3, <2>4
<1>3. c + 1 \in T /\ T \subseteq Nat
  BY <1>1, <1>2
<1>4. PICK m \in T : \A k \in T : m <= k
  <2> HIDE DEF T
  <2>. QED BY <1>3, LeastNat
<1>5. m \in Nat /\ m >= 1 /\ m <= c + 1 /\ \A i \in Ids : memory[i].row < m
  BY <1>3, <1>4
<1>6. m = 1 \/ \E i \in Ids : memory[i].row = m - 1
  <2>1. SUFFICES ASSUME m # 1, \A i \in Ids : memory[i].row # m - 1 PROVE FALSE
    OBVIOUS
  <2>2. m - 1 \in T
    BY <1>2, <1>5, <2>1
  <2>3. m <= m - 1
    BY <1>4, <2>2
  <2>. QED BY <1>5, <2>3
<1>7. m \in 1..(MaxMemories + 1)
  BY <1>0, <1>1, <1>5 DEF EngramForms
<1>8. \E r \in 1..(MaxMemories + 1) :
         /\ \A i \in Ids : memory[i].row < r
         /\ r = 1 \/ \E i \in Ids : memory[i].row = r - 1
  BY <1>5, <1>6, <1>7
<1>9. /\ NextRow \in 1..(MaxMemories + 1)
      /\ \A i \in Ids : memory[i].row < NextRow
      /\ NextRow = 1 \/ \E i \in Ids : memory[i].row = NextRow - 1
  BY <1>8 DEF NextRow
<1>10. NextRow <= c + 1
  BY <1>0, <1>1, <1>2, <1>9
<1>. QED BY <1>0, <1>1, <1>9, <1>10

\* What a table that tells less, and supersedes as before, does to chains.
LEMMA TellingLess ==
  ASSUME NEW old, NEW new,
         \A i \in Ids : /\ new[i].tells \subseteq old[i].tells
                        /\ new[i].tells # {} => new[i].by = old[i].by
  PROVE  /\ \A C : LeadsInto(old, C) => LeadsInto(new, C)
         /\ \A n, S, R : Apart(old, n, S) /\ R \subseteq S => Apart(new, n, R)
<1>1. \A C : LeadsInto(old, C) => LeadsInto(new, C)
  BY DEF LeadsInto
<1>2. \A n, S, R : Apart(old, n, S) /\ R \subseteq S => Apart(new, n, R)
  BY <1>1 DEF Apart
<1>. QED BY <1>1, <1>2

\* It ends the chains of the facts it tells as before.
LEMMA TellingLessEnds ==
  ASSUME NEW old, NEW new, NEW facts, NEW left \in SUBSET facts, ChainsEnd(old, facts),
         \A i \in Ids : /\ old[i].tells \cap left \subseteq new[i].tells
                        /\ old[i].tells \cap left # {} => new[i].by = old[i].by
  PROVE  ChainsEnd(new, left)
<1>1. SUFFICES ASSUME NEW D \in SUBSET left, D # {}
               PROVE  \E f \in D, i \in Ids : f \in new[i].tells /\ new[i].by \in {0} \cup (Ids \ D)
  BY DEF ChainsEnd
<1>2. D \in SUBSET facts
  OBVIOUS
<1>3. PICK f \in D, i \in Ids : f \in old[i].tells /\ old[i].by \in {0} \cup (Ids \ D)
  BY <1>1, <1>2 DEF ChainsEnd
<1>4. f \in old[i].tells \cap left
  BY <1>1, <1>3
<1>. QED BY <1>3, <1>4

\* Superseding by a memory that is not there yet.
LEMMA SupersededByNew ==
  ASSUME NEW old, NEW new, NEW n \in Ids,
         \A i \in Ids : n \notin old[i].tells /\ n # 0,
         \A i \in Ids : new[i].tells = old[i].tells /\ new[i].by \in {old[i].by, n}
  PROVE  /\ \A m, S : Apart(old, m, S) /\ n \notin S => Apart(new, m, S)
         /\ \A S : n \notin S => Apart(new, n, S)
         /\ \A facts : ChainsEnd(old, facts) /\ n \notin facts => ChainsEnd(new, facts)
<1>1. ASSUME NEW m, NEW S, Apart(old, m, S), n \notin S PROVE Apart(new, m, S)
  <2>1. PICK C \in SUBSET Ids : m \in C /\ LeadsInto(old, C) /\ C \cap S = {}
    BY <1>1 DEF Apart
  <2>2. LeadsInto(new, C \cup {n})
    BY <2>1 DEF LeadsInto
  <2>3. C \cup {n} \in SUBSET Ids /\ m \in C \cup {n} /\ (C \cup {n}) \cap S = {}
    BY <1>1, <2>1
  <2>. QED BY <2>2, <2>3 DEF Apart
<1>2. ASSUME NEW S, n \notin S PROVE Apart(new, n, S)
  <2>1. LeadsInto(new, {n})
    BY DEF LeadsInto
  <2>2. {n} \in SUBSET Ids /\ n \in {n} /\ {n} \cap S = {}
    BY <1>2
  <2>. QED BY <2>1, <2>2 DEF Apart
<1>3. ASSUME NEW facts, ChainsEnd(old, facts), n \notin facts PROVE ChainsEnd(new, facts)
  <2>1. SUFFICES ASSUME NEW D \in SUBSET facts, D # {}
                 PROVE  \E f \in D, i \in Ids : f \in new[i].tells /\ new[i].by \in {0} \cup (Ids \ D)
    BY DEF ChainsEnd
  <2>2. PICK f \in D, i \in Ids : f \in old[i].tells /\ old[i].by \in {0} \cup (Ids \ D)
    BY <1>3, <2>1 DEF ChainsEnd
  <2>3. n \in Ids \ D
    BY <1>3, <2>1
  <2>. QED BY <2>2, <2>3
<1>. QED BY <1>1, <1>2, <1>3

\* Superseding memory a by one that leads to none of its facts.
LEMMA SupersededApart ==
  ASSUME NEW old, NEW new, NEW a \in Ids, NEW b \in Ids,
         Apart(old, b, old[a].tells),
         \A i \in Ids : new[i].tells = old[i].tells /\ (i # a => new[i].by = old[i].by),
         new[a].by = b
  PROVE  /\ \A n, S : Apart(old, n, S) /\ Apart(old, n, old[a].tells) => Apart(new, n, S)
         /\ \A facts : ChainsEnd(old, facts) => ChainsEnd(new, facts)
<1>1. ASSUME NEW C, LeadsInto(old, C), C \cap old[a].tells = {} PROVE LeadsInto(new, C)
  BY <1>1 DEF LeadsInto
<1>2. ASSUME NEW n, NEW S, Apart(old, n, S), Apart(old, n, old[a].tells) PROVE Apart(new, n, S)
  <2>1. PICK C \in SUBSET Ids : n \in C /\ LeadsInto(old, C) /\ C \cap S = {}
    BY <1>2 DEF Apart
  <2>2. PICK E \in SUBSET Ids : n \in E /\ LeadsInto(old, E) /\ E \cap old[a].tells = {}
    BY <1>2 DEF Apart
  <2>3. LeadsInto(old, C \cap E)
    BY <2>1, <2>2 DEF LeadsInto
  <2>4. /\ C \cap E \in SUBSET Ids /\ n \in C \cap E /\ (C \cap E) \cap S = {}
        /\ (C \cap E) \cap old[a].tells = {}
    BY <2>1, <2>2
  <2>5. LeadsInto(new, C \cap E)
    BY <1>1, <2>3, <2>4
  <2>. QED BY <2>4, <2>5 DEF Apart
<1>3. ASSUME NEW facts, ChainsEnd(old, facts) PROVE ChainsEnd(new, facts)
  <2>1. SUFFICES ASSUME NEW D \in SUBSET facts, D # {},
                        \A f \in D, i \in Ids : f \in new[i].tells => new[i].by \notin {0} \cup (Ids \ D)
                 PROVE  FALSE
    BY DEF ChainsEnd
  <2>2. PICK C \in SUBSET Ids : b \in C /\ LeadsInto(old, C) /\ C \cap old[a].tells = {}
    BY DEF Apart
  <2>3. CASE D \cap old[a].tells = {}
    <3>1. PICK f \in D, i \in Ids : f \in old[i].tells /\ old[i].by \in {0} \cup (Ids \ D)
      BY <1>3, <2>1 DEF ChainsEnd
    <3>2. i # a
      BY <2>3, <3>1
    <3>. QED BY <2>1, <3>1, <3>2
  <2>4. CASE D \cap old[a].tells # {}
    <3>1. b \in D
      BY <2>1, <2>4
    <3>2. D \cap C # {} /\ D \cap C \in SUBSET facts
      BY <2>1, <2>2, <3>1
    <3>3. PICK f \in D \cap C, i \in Ids :
            f \in old[i].tells /\ old[i].by \in {0} \cup (Ids \ (D \cap C))
      BY <1>3, <3>2 DEF ChainsEnd
    <3>4. i # a /\ new[i].by = old[i].by /\ f \in new[i].tells
      BY <2>2, <3>3
    <3>5. old[i].by \in {0} \cup C
      BY <2>2, <3>3 DEF LeadsInto
    <3>6. old[i].by \in {0} \cup (Ids \ D)
      BY <3>3, <3>5
    <3>. QED BY <2>1, <3>3, <3>4, <3>6
  <2>. QED BY <2>3, <2>4
<1>. QED BY <1>2, <1>3

\* The older memory has gone into the newer one, whose chain is apart from both.
MergedInto(old, new, older, newer) ==
  /\ older # newer
  /\ new[older].tells = {}
  /\ new[newer].tells = old[newer].tells \cup old[older].tells
  /\ new[newer].by = old[newer].by
  /\ \A i \in Ids \ {older, newer} : new[i] = old[i]
  /\ old[newer].by \in {0} \cup Ids
  /\ old[newer].by # 0 => Apart(old, old[newer].by, old[older].tells \cup old[newer].tells)

\* Merging: newer takes over what older told, and leads to none of it.
LEMMA MergedApart ==
  ASSUME NEW old, NEW new, NEW older \in Ids, NEW newer \in Ids,
         MergedInto(old, new, older, newer)
  PROVE  \A facts : ChainsEnd(old, facts) => ChainsEnd(new, facts)
<1> USE DEF MergedInto
<1>1. SUFFICES ASSUME NEW facts, ChainsEnd(old, facts), NEW D \in SUBSET facts, D # {},
                      \A f \in D, i \in Ids : f \in new[i].tells => new[i].by \notin {0} \cup (Ids \ D)
               PROVE  FALSE
  BY DEF ChainsEnd
<1> DEFINE both == old[older].tells \cup old[newer].tells
<1>2. CASE D \cap both = {}
  <2>1. PICK f \in D, i \in Ids : f \in old[i].tells /\ old[i].by \in {0} \cup (Ids \ D)
    BY <1>1 DEF ChainsEnd
  <2>2. i \in Ids \ {older, newer}
    BY <1>2, <2>1
  <2>. QED BY <1>1, <2>1, <2>2
<1>3. CASE D \cap both # {}
  <2>1. old[newer].by # 0 /\ old[newer].by \in D
    BY <1>1, <1>3
  <2>2. PICK C \in SUBSET Ids : old[newer].by \in C /\ LeadsInto(old, C) /\ C \cap both = {}
    BY <2>1 DEF Apart
  <2>3. D \cap C # {} /\ D \cap C \in SUBSET facts
    BY <1>1, <2>1, <2>2
  <2>4. PICK f \in D \cap C, i \in Ids :
          f \in old[i].tells /\ old[i].by \in {0} \cup (Ids \ (D \cap C))
    BY <1>1, <2>3 DEF ChainsEnd
  <2>5. i \in Ids \ {older, newer} /\ new[i] = old[i]
    BY <2>2, <2>4
  <2>6. old[i].by \in {0} \cup C
    BY <2>2, <2>4 DEF LeadsInto
  <2>. QED BY <1>1, <2>4, <2>5, <2>6
<1>. QED BY <1>2, <1>3

-----------------------------------------------------------------------------
(* The tasks.                                                              *)

\* A step of t, whose new work is next, keeps the works current.
LEMMA WorksStayCurrent ==
  ASSUME EngramInv, NEW t \in EngramTasks, NEW next \in Work, Task(t, next),
         \A w \in Work : (\E s \in EngramTasks \ {t} : work[s] = w) /\ WorkIsCurrent(w)
                           => WorkIsCurrent(w)',
         WorkIsCurrent(next)',
         next.at = "supersede" => \A s \in EngramTasks \ {t} :
                                    Working(s, "supersede") => work[s].id # next.id
  PROVE  WorksAreCurrent' /\ work' \in [EngramTasks -> Work]
<1>0. work \in [EngramTasks -> Work] /\ WorksAreCurrent
  BY DEF EngramInv, EngramForms
<1>1. /\ work' \in [EngramTasks -> Work] /\ work'[t] = next
      /\ \A s \in EngramTasks \ {t} : work'[s] = work[s]
  BY <1>0 DEF Task
<1>2. \A s \in EngramTasks : WorkIsCurrent(work[s])'
  <2>1. SUFFICES ASSUME NEW s \in EngramTasks PROVE WorkIsCurrent(work[s])'
    OBVIOUS
  <2>2. PICK w \in Work : w = work'[s]
    BY <1>1
  <2>3. WorkIsCurrent(w)'
    <3>1. CASE s = t
      BY <1>1, <2>2, <3>1
    <3>2. CASE s # t
      <4>1. work[s] = w /\ WorkIsCurrent(w)
        BY <1>0, <1>1, <2>2, <3>2 DEF WorksAreCurrent
      <4>. QED BY <3>2, <4>1
    <3>. QED BY <3>1, <3>2
  <2>. QED BY <2>2, <2>3 DEF WorkIsCurrent, Stored
<1>3. WorksAreCurrent'
  BY <1>0, <1>1, <1>2 DEF WorksAreCurrent, Working
<1>. QED BY <1>1, <1>3

\* And it keeps one reflection at a time.
LEMMA OneStillReflects ==
  ASSUME EngramInv, NEW t \in EngramTasks, NEW next \in Work, Task(t, next), ~crossed,
         next.at \in {"reflect", "merge"} => t \in Reflecting \/ Reflecting = {},
         \A s \in EngramTasks \ {t} : ReflectionIsSafe(memory, work[s])
                                        => ReflectionIsSafe(memory', work[s]),
         ReflectionIsSafe(memory', next),
         ChainsEnd(memory', recorded' \ (forgotten' \cup strayed' \cup unmerged'))
  PROVE  OneReflects'
<1>0. work \in [EngramTasks -> Work] /\ OneReflects
  BY DEF EngramInv, EngramForms
<1>1. /\ work' \in [EngramTasks -> Work] /\ work'[t] = next
      /\ \A s \in EngramTasks \ {t} : work'[s] = work[s]
  BY <1>0 DEF Task
<1>2. \A r, s \in Reflecting' : r = s
  <2>1. \A s \in Reflecting' : s \in Reflecting \/ (s = t /\ (t \in Reflecting \/ Reflecting = {}))
    BY <1>1 DEF Reflecting
  <2>. QED BY <1>0, <2>1 DEF OneReflects
<1>3. \A s \in EngramTasks : ReflectionIsSafe(memory', work'[s])
  BY <1>0, <1>1 DEF OneReflects
<1>. QED BY <1>2, <1>3 DEF OneReflects

\* A step that changes nothing but the work of t.
LEMMA TaskMoves ==
  ASSUME EngramInv, NEW t \in EngramTasks, NEW next \in Work, Task(t, next),
         UNCHANGED <<memory, indexed, recorded, forgotten, strayed, leftover, unmerged>>,
         made' \in 0..MaxMemories, made <= made',
         crossed' \in BOOLEAN, crossed => crossed',
         IF next.at = "supersede"
           THEN /\ next.id \in 1..made' /\ next.id \notin recorded
                /\ \A s \in EngramTasks \ {t} : Working(s, "supersede") => work[s].id # next.id
           ELSE WorkIsCurrent(next),
         ~crossed' => /\ next.at \in {"reflect", "merge"} => t \in Reflecting \/ Reflecting = {}
                      /\ ReflectionIsSafe(memory, next)
  PROVE  EngramInv'
<1>0. /\ EngramForms /\ RowsAreMemories /\ IndexTellsItsMemory
      /\ made \in Nat /\ MaxMemories \in Nat /\ made' \in Nat
  BY EngramAssumption DEF EngramInv, EngramForms
<1>1. \A n \in 1..made : n \in 1..made'
  BY <1>0
<1>2. \A w \in Work : WorkIsCurrent(w) => WorkIsCurrent(w)'
  BY <1>0, <1>1 DEF WorkIsCurrent, Stored
<1>3. WorkIsCurrent(next)'
  <2>1. CASE next.at = "supersede"
    BY <2>1 DEF WorkIsCurrent
  <2>2. CASE next.at # "supersede"
    BY <1>2, <2>2
  <2>. QED BY <2>1, <2>2
<1>4. WorksAreCurrent' /\ work' \in [EngramTasks -> Work]
  BY <1>2, <1>3, WorksStayCurrent
<1>5. EngramForms'
  BY <1>0, <1>1, <1>4 DEF EngramForms
<1>6. RowsAreMemories'
  BY <1>0 DEF RowsAreMemories, Stored
<1>7. IndexTellsItsMemory'
  BY <1>0 DEF IndexTellsItsMemory
<1>8. ASSUME ~crossed' PROVE OneReflects'
  <2>1. ~crossed
    BY <1>8
  <2>2. ChainsEnd(memory', recorded' \ (forgotten' \cup strayed' \cup unmerged'))
    BY <2>1 DEF EngramInv, OneReflects
  <2>3. memory' = memory
    OBVIOUS
  <2>. QED BY <1>8, <2>1, <2>2, <2>3, OneStillReflects
<1>. QED BY <1>4, <1>5, <1>6, <1>7, <1>8 DEF EngramInv

\* The steps that only look, and stopping.
LEMMA LookingSteps ==
  ASSUME EngramInv, NEW t \in EngramTasks,
         \/ Compare(t)
         \/ \E i \in Ids : FindMemory(t, i)
         \/ LoadLive(t)
         \/ FindPair(t)
         \/ Stop(t)
  PROVE  EngramInv'
<1>0. /\ EngramForms /\ RowsAreMemories /\ WorksAreCurrent
      /\ made \in 0..MaxMemories /\ MaxMemories \in Nat /\ made \in Nat
      /\ memory \in [Ids -> MemoryRow] /\ work \in [EngramTasks -> Work]
      /\ crossed \in BOOLEAN /\ recorded \subseteq 1..made /\ 0 \notin Ids
      /\ \A i \in Ids : i \in 0..MaxMemories
  BY EngramAssumption DEF EngramInv, EngramForms, Ids
<1>1. \A i \in Ids : /\ memory[i].row \in 0..MaxMemories /\ memory[i].tells \subseteq Ids
                     /\ memory[i].by \in 0..MaxMemories
  BY <1>0 DEF MemoryRow
<1>2. AtEase \in Work /\ AtEase.at = "rest"
  BY <1>0 DEF AtEase, Work
<1>3. CASE Compare(t)
  <2>1. PICK similar \in SUBSET {memory[i].row : i \in {j \in Ids : Stored(j)}} :
          Task(t, [at |-> "supersede", id |-> made + 1, row |-> 0, set |-> similar])
    BY <1>3 DEF Compare
  <2>2. similar \subseteq Ids
    BY <1>1 DEF Stored, Ids
  <2>3. made + 1 \in 0..MaxMemories /\ made' = made + 1
    BY <1>0, <1>3 DEF Compare
  <2>4. PICK next \in Work : next.at = "supersede" /\ next.id = made' /\ Task(t, next)
    BY <1>0, <2>1, <2>2, <2>3 DEF Work
  <2>5. \A s \in EngramTasks : Working(s, "supersede") => work[s].id # made'
    BY <1>0, <2>3 DEF WorksAreCurrent, WorkIsCurrent, Working
  <2>6. UNCHANGED <<memory, indexed, recorded, forgotten, strayed, leftover, unmerged, crossed>>
    BY <1>3 DEF Compare, engramPast
  <2>7. made' \in 0..MaxMemories /\ made <= made' /\ made' \in 1..made' /\ made' \notin recorded
    BY <1>0, <2>3
  <2>8. ReflectionIsSafe(memory, next)
    BY <2>4 DEF ReflectionIsSafe
  <2>. QED BY <1>0, <2>4, <2>5, <2>6, <2>7, <2>8, TaskMoves
<1>4. ASSUME NEW i \in Ids, FindMemory(t, i) PROVE EngramInv'
  <2>1. PICK next \in Work : /\ next.at = "unindex" /\ next.id = i /\ next.row = memory[i].row
                             /\ next.set = memory[i].tells /\ Task(t, next)
    BY <1>0, <1>1, <1>4 DEF FindMemory, Work
  <2>2. Stored(i) /\ i \in recorded /\ memory[i].row \in Ids
    BY <1>0, <1>1, <1>4 DEF FindMemory, RowsAreMemories, Stored, Ids
  <2>3. WorkIsCurrent(next)
    BY <2>1, <2>2 DEF WorkIsCurrent
  <2>4. UNCHANGED <<memory, indexed, recorded, forgotten, strayed, leftover, unmerged, crossed, made>>
    BY <1>4 DEF FindMemory, engramPast
  <2>5. ReflectionIsSafe(memory, next)
    BY <2>1 DEF ReflectionIsSafe
  <2>. QED BY <1>0, <2>1, <2>3, <2>4, <2>5, TaskMoves
<1>5. CASE LoadLive(t)
  <2>1. PICK next \in Work : next.at = "reflect" /\ next.set = Live /\ Task(t, next)
    <3>1. Live \in SUBSET Ids
      BY DEF Live
    <3>2. \A S \in SUBSET Ids : \E next \in Work :
            /\ next.at = "reflect" /\ next.set = S
            /\ next = [AtEase EXCEPT !.at = "reflect", !.set = S]
      <4>1. TAKE S \in SUBSET Ids
      <4>2. AtEase \in Work
        BY <1>2
      <4>3. [[AtEase EXCEPT !.at = "reflect"] EXCEPT !.set = S] \in Work
        BY <4>2 DEF Work
      <4>. QED BY <4>2, <4>3 DEF Work
    <3>3. Task(t, [AtEase EXCEPT !.at = "reflect", !.set = Live])
      BY <1>5 DEF LoadLive
    <3>. QED BY <3>1, <3>2, <3>3
  <2>2. /\ UNCHANGED <<memory, indexed, recorded, forgotten, strayed, leftover, unmerged, made>>
        /\ crossed' \in BOOLEAN /\ (crossed => crossed') /\ (~crossed' => Reflecting = {})
    BY <1>0, <1>5 DEF LoadLive
  <2>3. WorkIsCurrent(next)
    BY <1>0, <2>1 DEF WorkIsCurrent, Live, RowsAreMemories
  <2>4. ASSUME NEW m \in Live, NEW b \in Live, m # b PROVE Apart(memory, b, memory[m].tells)
    <3>1. Stored(b) /\ memory[b].by = 0 /\ m \in Ids /\ b \in Ids
      BY DEF Live
    <3>2. b \notin memory[m].tells /\ \A i \in Ids : b \in memory[i].tells => i = b
      BY <1>0, <2>4, <3>1 DEF RowsAreMemories
    <3>3. LeadsInto(memory, {b})
      BY <3>1, <3>2 DEF LeadsInto
    <3>4. {b} \in SUBSET Ids /\ b \in {b} /\ {b} \cap memory[m].tells = {}
      BY <3>1, <3>2
    <3>. QED BY <3>3, <3>4 DEF Apart
  <2>5. ReflectionIsSafe(memory, next)
    BY <2>1, <2>4 DEF ReflectionIsSafe
  <2>. QED BY <1>0, <2>1, <2>2, <2>3, <2>5, TaskMoves
<1>6. CASE FindPair(t)
  <2>1. PICK older, newer \in Live :
          older # newer /\ Task(t, [AtEase EXCEPT !.at = "merge", !.id = older, !.row = newer])
    BY <1>6 DEF FindPair
  <2>2. /\ older \in Ids /\ newer \in Ids /\ memory[newer].by = 0
        /\ older \in recorded /\ newer \in recorded
    BY <1>0 DEF Live, RowsAreMemories
  <2>3. PICK next \in Work : next.at = "merge" /\ next.id = older /\ next.row = newer /\ Task(t, next)
    <3>1. [AtEase EXCEPT !.at = "merge", !.id = older, !.row = newer] \in Work
      BY <1>0, <2>2 DEF AtEase, Work
    <3>. QED BY <2>1, <3>1 DEF AtEase
  <2>4. UNCHANGED <<memory, indexed, recorded, forgotten, strayed, leftover, unmerged, crossed, made>>
        /\ t \in Reflecting
    BY <1>6 DEF FindPair, engramPast, Working, Reflecting
  <2>5. WorkIsCurrent(next) /\ ReflectionIsSafe(memory, next)
    BY <2>1, <2>2, <2>3 DEF WorkIsCurrent, ReflectionIsSafe
  <2>. QED BY <1>0, <2>3, <2>4, <2>5, TaskMoves
<1>7. CASE Stop(t)
  <2>1. /\ UNCHANGED <<memory, indexed, recorded, forgotten, strayed, leftover, unmerged, crossed, made>>
        /\ Task(t, AtEase)
    BY <1>7 DEF Stop, engramPast
  <2>2. WorkIsCurrent(AtEase) /\ ReflectionIsSafe(memory, AtEase)
    BY <1>2 DEF WorkIsCurrent, ReflectionIsSafe
  <2>. QED BY <1>0, <1>2, <2>1, <2>2, TaskMoves
<1>. QED BY <1>3, <1>4, <1>5, <1>6, <1>7

-----------------------------------------------------------------------------
(* Ingestion.                                                              *)

LEMMA SupersedeRowStep ==
  ASSUME EngramInv, NEW t \in EngramTasks, SupersedeRow(t)
  PROVE  EngramInv'
<1> DEFINE n == work[t].id
<1>0. /\ EngramForms /\ RowsAreMemories /\ WorksAreCurrent /\ IndexTellsItsMemory
      /\ memory \in [Ids -> MemoryRow] /\ work \in [EngramTasks -> Work] /\ work[t] \in Work
      /\ recorded \subseteq 1..made /\ made \in 0..MaxMemories /\ MaxMemories \in Nat
      /\ WorkIsCurrent(work[t])
  BY EngramAssumption DEF EngramInv, EngramForms, WorksAreCurrent
<1>1. /\ work[t].at = "supersede" /\ n \in 1..made /\ n \notin recorded
  BY <1>0 DEF SupersedeRow, Working, WorkIsCurrent
<1>2. PICK r \in work[t].set :
        /\ memory' \in {memory, [i \in Ids |-> IF memory[i].row = r
                                                 THEN [memory[i] EXCEPT !.by = n] ELSE memory[i]]}
        /\ Task(t, [work[t] EXCEPT !.set = @ \ {r}])
  BY DEF SupersedeRow
<1>3. UNCHANGED <<indexed, made, recorded, forgotten, strayed, leftover, unmerged, crossed>>
  BY DEF SupersedeRow, engramPast
<1>4. PICK next \in Work : next.at = "supersede" /\ next.id = n /\ Task(t, next)
  <2>1. [work[t] EXCEPT !.set = @ \ {r}] \in Work
    BY <1>0 DEF Work
  <2>. QED BY <1>0, <1>1, <1>2, <2>1 DEF Work
<1>5. n \in Ids /\ n # 0 /\ n \in 0..MaxMemories /\ r # 0
  BY <1>0, <1>1 DEF Ids, Work
<1>6. \A i \in Ids : \/ memory'[i] = memory[i]
                     \/ Stored(i) /\ memory'[i] = [memory[i] EXCEPT !.by = n]
  BY <1>0, <1>2, <1>5 DEF Stored
<1>7. /\ memory' \in [Ids -> MemoryRow]
      /\ \A i \in Ids : /\ memory'[i].row = memory[i].row
                        /\ memory'[i].tells = memory[i].tells
                        /\ memory'[i].by \in {memory[i].by, n}
                        /\ ~Stored(i) => memory'[i] = memory[i]
  <2>1. \A i \in Ids : [memory[i] EXCEPT !.by = n] \in MemoryRow
    BY <1>0, <1>5 DEF MemoryRow
  <2>2. memory' \in [Ids -> MemoryRow]
    BY <1>0, <1>2, <2>1
  <2>3. \A i \in Ids : memory[i] \in MemoryRow
    BY <1>0
  <2>. QED BY <1>6, <2>2, <2>3 DEF MemoryRow
<1>8. RowsAreMemories'
  BY <1>0, <1>3, <1>7 DEF RowsAreMemories, Stored
<1>9. \A w \in Work : WorkIsCurrent(w) => WorkIsCurrent(w)'
  <2>1. \A i \in Ids : i \in 0..MaxMemories
    BY <1>0 DEF Ids
  <2>2. recorded \subseteq Ids
    BY <1>0 DEF Ids
  <2>. QED BY <1>3, <1>7, <2>2 DEF WorkIsCurrent, Stored
<1>10. WorkIsCurrent(next)'
  BY <1>1, <1>3, <1>4 DEF WorkIsCurrent
<1>11. \A s \in EngramTasks \ {t} : Working(s, "supersede") => work[s].id # next.id
  BY <1>0, <1>1, <1>4 DEF WorksAreCurrent, Working
<1>12. WorksAreCurrent' /\ work' \in [EngramTasks -> Work]
  BY <1>4, <1>9, <1>10, <1>11, WorksStayCurrent
<1>13. EngramForms'
  BY <1>0, <1>3, <1>7, <1>12 DEF EngramForms
<1>14. IndexTellsItsMemory'
  BY <1>0, <1>3, <1>7 DEF IndexTellsItsMemory
<1>15. ASSUME ~crossed' PROVE OneReflects'
  <2> DEFINE facts == recorded \ (forgotten \cup strayed \cup unmerged)
  <2>0. OneReflects /\ ~crossed
    BY <1>3, <1>15 DEF EngramInv
  <2>1. \A i \in Ids : n \notin memory[i].tells /\ n # 0
    BY <1>0, <1>1, <1>5 DEF RowsAreMemories
  <2>2. /\ \A m, S : Apart(memory, m, S) /\ n \notin S => Apart(memory', m, S)
        /\ \A S : n \notin S => Apart(memory', n, S)
        /\ \A f : ChainsEnd(memory, f) /\ n \notin f => ChainsEnd(memory', f)
    BY <1>5, <1>7, <2>1, SupersededByNew
  <2>3. ASSUME NEW s \in EngramTasks, ReflectionIsSafe(memory, work[s])
        PROVE  ReflectionIsSafe(memory', work[s])
    <3>1. ASSUME work[s].at = "reflect", NEW m \in work[s].set, NEW b \in work[s].set, m # b
          PROVE  Apart(memory', b, memory'[m].tells)
      <4>1. m \in Ids /\ Apart(memory, b, memory[m].tells)
        BY <1>0, <2>3, <3>1 DEF ReflectionIsSafe, Work
      <4>. QED BY <1>7, <2>1, <2>2, <4>1
    <3>2. ASSUME work[s].at = "merge", memory'[work[s].row].by # 0
          PROVE  Apart(memory', memory'[work[s].row].by,
                       memory'[work[s].id].tells \cup memory'[work[s].row].tells)
      <4>1. work[s].row \in Ids /\ work[s].id \in Ids
        <5>1. recorded \subseteq Ids
          BY <1>0 DEF Ids
        <5>. QED BY <1>0, <3>2, <5>1 DEF WorksAreCurrent, WorkIsCurrent
      <4> DEFINE both == memory[work[s].id].tells \cup memory[work[s].row].tells
      <4>2. both = memory'[work[s].id].tells \cup memory'[work[s].row].tells /\ n \notin both
        BY <1>7, <2>1, <4>1
      <4>3. CASE memory'[work[s].row].by = n
        BY <2>2, <4>2, <4>3
      <4>4. CASE memory'[work[s].row].by = memory[work[s].row].by
        <5>1. Apart(memory, memory[work[s].row].by, both)
          BY <2>3, <3>2, <4>4 DEF ReflectionIsSafe
        <5> HIDE DEF both
        <5>. QED BY <2>2, <4>2, <4>4, <5>1
      <4>. QED BY <1>7, <4>1, <4>3, <4>4
    <3>. QED BY <3>1, <3>2 DEF ReflectionIsSafe
  <2>4. ReflectionIsSafe(memory', next)
    BY <1>4 DEF ReflectionIsSafe
  <2>5. ChainsEnd(memory', recorded' \ (forgotten' \cup strayed' \cup unmerged'))
    <3>1. ChainsEnd(memory, facts) /\ n \notin facts
      BY <1>1, <2>0 DEF OneReflects
    <3>2. facts = recorded' \ (forgotten' \cup strayed' \cup unmerged')
      BY <1>3
    <3> HIDE DEF facts
    <3>. QED BY <2>2, <3>1, <3>2
  <2>. QED BY <1>4, <2>0, <2>3, <2>4, <2>5, OneStillReflects
<1>. QED BY <1>8, <1>12, <1>13, <1>14, <1>15 DEF EngramInv

LEMMA InsertMemoryStep ==
  ASSUME EngramInv, NEW t \in EngramTasks, InsertMemory(t)
  PROVE  EngramInv'
<1>0. /\ EngramForms /\ RowsAreMemories /\ WorksAreCurrent /\ IndexTellsItsMemory
      /\ memory \in [Ids -> MemoryRow] /\ work \in [EngramTasks -> Work] /\ work[t] \in Work
      /\ recorded \subseteq 1..made /\ made \in 0..MaxMemories /\ MaxMemories \in Nat
      /\ WorkIsCurrent(work[t])
  BY EngramAssumption DEF EngramInv, EngramForms, WorksAreCurrent
<1>1. PICK i \in Ids : /\ i = work[t].id /\ i \in 1..made /\ i \notin recorded
                       /\ i # 0 /\ i \in 0..MaxMemories
  BY <1>0 DEF InsertMemory, Working, WorkIsCurrent, Ids
<1>2. PICK c \in Nat : c = Cardinality(recorded)
  BY <1>0, NextRowIsFree
<1>3. PICK r \in 1..(c + 1) : r = NextRow /\ \A j \in Ids : memory[j].row < r
  BY <1>0, <1>2, NextRowIsFree
<1>4. /\ memory' = [memory EXCEPT ![i] = [row |-> r, tells |-> {i}, by |-> 0]]
      /\ recorded' = recorded \cup {i}
      /\ Task(t, [AtEase EXCEPT !.at = "index", !.id = i, !.row = r])
      /\ UNCHANGED <<indexed, made, forgotten, strayed, leftover, unmerged, crossed>>
  BY <1>1, <1>3 DEF InsertMemory
<1>5. Cardinality(recorded') = c + 1 /\ c + 1 <= MaxMemories
  <2>1. IsFiniteSet(1..made) /\ Cardinality(1..made) = made
    BY <1>0, FS_Interval
  <2>2. recorded \in SUBSET (1..made) /\ recorded' \in SUBSET (1..made)
    BY <1>0, <1>1, <1>4
  <2>3. IsFiniteSet(recorded) /\ Cardinality(recorded') <= made
    BY <2>1, <2>2, FS_Subset
  <2>4. Cardinality(recorded') = c + 1
    BY <1>1, <1>2, <1>4, <2>3, FS_AddElement
  <2>. QED BY <1>0, <2>1, <2>3, <2>4
<1>6. r \in Ids /\ r \in 0..MaxMemories /\ r <= c + 1
  BY <1>0, <1>2, <1>3, <1>5 DEF Ids
<1> DEFINE new == [row |-> r, tells |-> {i}, by |-> 0]
<1>7. /\ memory' \in [Ids -> MemoryRow] /\ memory'[i] = new
      /\ new.row = r /\ new.tells = {i} /\ new.by = 0
      /\ \A j \in Ids \ {i} : memory'[j] = memory[j]
  <2>1. new \in MemoryRow
    BY <1>0, <1>6 DEF MemoryRow
  <2>2. new.row = r /\ new.tells = {i} /\ new.by = 0
    OBVIOUS
  <2> HIDE DEF new
  <2>3. memory' = [memory EXCEPT ![i] = new]
    BY <1>4 DEF new
  <2>. QED BY <1>0, <2>1, <2>2, <2>3
<1> HIDE DEF new
<1>8. ~Stored(i) /\ memory[i].tells = {} /\ memory[i].row = 0
      /\ \A j \in Ids : i \notin memory[j].tells
  BY <1>0, <1>1 DEF RowsAreMemories, Stored
<1>9. Stored(i)' /\ \A j \in Ids \ {i} : Stored(j)' <=> Stored(j)
  BY <1>3, <1>7 DEF Stored
<1>10. RowsAreMemories'
  <2>1. \A j \in Ids : ~Stored(j)' => memory'[j].tells = {}
    BY <1>0, <1>7, <1>9 DEF RowsAreMemories
  <2>2. \A j \in Ids : Stored(j)' => j \in recorded' /\ memory'[j].row <= Cardinality(recorded')
    <3>1. SUFFICES ASSUME NEW j \in Ids, Stored(j)'
                   PROVE  j \in recorded' /\ memory'[j].row <= c + 1
      BY <1>5
    <3>2. CASE j = i
      BY <1>4, <1>6, <1>7, <3>2
    <3>3. CASE j # i
      <4>1. j \in recorded /\ memory[j].row <= c
        BY <1>0, <1>2, <1>9, <3>1, <3>3 DEF RowsAreMemories
      <4>2. memory[j].row \in Nat
        BY <1>0 DEF MemoryRow
      <4>. QED BY <1>2, <1>4, <1>7, <3>3, <4>1, <4>2
    <3>. QED BY <3>2, <3>3
  <2>3. \A j, k \in Ids : Stored(j)' /\ memory'[j].row = memory'[k].row => j = k
    <3>1. \A j \in Ids : memory[j].row # r
      <4>1. TAKE j \in Ids
      <4>2. memory[j].row < r /\ memory[j].row \in Nat
        BY <1>0, <1>3 DEF MemoryRow
      <4>. QED BY <4>2
    <3>. QED BY <1>0, <1>7, <1>9, <3>1 DEF RowsAreMemories
  <2>4. \A j \in Ids : memory'[j].tells \subseteq recorded'
    BY <1>0, <1>4, <1>7 DEF RowsAreMemories
  <2>5. \A j, k \in Ids : Stored(j)' /\ j \in memory'[k].tells => j = k
    BY <1>0, <1>7, <1>8, <1>9 DEF RowsAreMemories
  <2>. QED BY <2>1, <2>2, <2>3, <2>4, <2>5 DEF RowsAreMemories
<1>11. PICK next \in Work : next.at = "index" /\ next.id = i /\ next.row = r /\ Task(t, next)
  <2>1. AtEase \in Work
    BY <1>0 DEF AtEase, Work
  <2>2. [AtEase EXCEPT !.at = "index", !.id = i, !.row = r] \in Work
    BY <1>1, <1>6, <2>1 DEF Work
  <2>. QED BY <1>4, <2>1, <2>2 DEF Work
<1>12. \A w \in Work : (\E s \in EngramTasks \ {t} : work[s] = w) /\ WorkIsCurrent(w)
                         => WorkIsCurrent(w)'
  <2>1. SUFFICES ASSUME NEW w \in Work, NEW s \in EngramTasks \ {t}, work[s] = w,
                        WorkIsCurrent(w)
                 PROVE  WorkIsCurrent(w)'
    OBVIOUS
  <2>2. w.at = "supersede" => w.id # i
    BY <1>0, <1>1, <2>1 DEF WorksAreCurrent, Working, InsertMemory
  <2>3. CASE w.id = i
    BY <1>1, <1>4, <2>1, <2>2, <2>3 DEF WorkIsCurrent
  <2>4. CASE w.id # i
    <3>1. w.id \in recorded => memory'[w.id] = memory[w.id] /\ (Stored(w.id)' <=> Stored(w.id))
      <4>1. recorded \subseteq Ids
        BY <1>0 DEF Ids
      <4>. QED BY <1>7, <1>9, <2>4, <4>1
    <3>. QED BY <1>4, <2>1, <2>4, <3>1 DEF WorkIsCurrent
  <2>. QED BY <2>3, <2>4
<1>13. WorkIsCurrent(next)'
  BY <1>4, <1>6, <1>7, <1>11 DEF WorkIsCurrent
<1>14. WorksAreCurrent' /\ work' \in [EngramTasks -> Work]
  BY <1>11, <1>12, <1>13, WorksStayCurrent
<1>15. EngramForms'
  BY <1>0, <1>1, <1>4, <1>7, <1>14 DEF EngramForms
<1>16. IndexTellsItsMemory'
  <2>1. \A j \in Ids : memory[j].row \in Ids => j # i
    BY <1>0, <1>8 DEF Ids
  <2>. QED BY <1>0, <1>4, <1>7, <2>1 DEF IndexTellsItsMemory
<1>17. ASSUME ~crossed' PROVE OneReflects'
  <2>0. OneReflects /\ ~crossed
    BY <1>4, <1>17 DEF EngramInv
  <2>1. \A C : LeadsInto(memory, C) => LeadsInto(memory', C)
    BY <1>7 DEF LeadsInto
  <2>2. \A n, S : Apart(memory, n, S) => Apart(memory', n, S)
    BY <2>1 DEF Apart
  <2>3. \A j \in recorded : memory'[j] = memory[j]
    <3>1. recorded \subseteq Ids
      BY <1>0 DEF Ids
    <3>. QED BY <1>1, <1>7, <3>1
  <2>4. ASSUME NEW s \in EngramTasks, ReflectionIsSafe(memory, work[s])
        PROVE  ReflectionIsSafe(memory', work[s])
    <3>1. WorkIsCurrent(work[s])
      BY <1>0 DEF WorksAreCurrent
    <3>. QED BY <2>2, <2>3, <2>4, <3>1 DEF ReflectionIsSafe, WorkIsCurrent
  <2>5. ReflectionIsSafe(memory', next)
    BY <1>11 DEF ReflectionIsSafe
  <2>6. ChainsEnd(memory', recorded' \ (forgotten' \cup strayed' \cup unmerged'))
    <3>1. SUFFICES ASSUME NEW D \in SUBSET (recorded' \ (forgotten \cup strayed \cup unmerged)), D # {}
                   PROVE  \E f \in D, j \in Ids : /\ f \in memory'[j].tells
                                                  /\ memory'[j].by \in {0} \cup (Ids \ D)
      BY <1>4 DEF ChainsEnd
    <3>2. CASE i \in D
      BY <1>7, <3>2
    <3>3. CASE i \notin D
      <4>1. D \in SUBSET (recorded \ (forgotten \cup strayed \cup unmerged))
        BY <1>4, <3>3
      <4>2. PICK f \in D, j \in Ids : f \in memory[j].tells /\ memory[j].by \in {0} \cup (Ids \ D)
        BY <2>0, <3>1, <4>1 DEF OneReflects, ChainsEnd
      <4>3. j # i
        BY <1>8, <4>2
      <4>. QED BY <1>7, <4>2, <4>3
    <3>. QED BY <3>2, <3>3
  <2>7. next.at \notin {"reflect", "merge"}
    BY <1>11
  <2>. QED BY <1>11, <2>0, <2>4, <2>5, <2>6, <2>7, OneStillReflects
<1>. QED BY <1>10, <1>14, <1>15, <1>16, <1>17 DEF EngramInv

LEMMA InsertTextStep ==
  ASSUME EngramInv, NEW t \in EngramTasks, InsertText(t)
  PROVE  EngramInv'
<1>0. /\ EngramForms /\ RowsAreMemories /\ WorksAreCurrent /\ IndexTellsItsMemory
      /\ memory \in [Ids -> MemoryRow] /\ work \in [EngramTasks -> Work] /\ work[t] \in Work
      /\ indexed \in [Ids -> SUBSET Ids] /\ made \in 0..MaxMemories /\ MaxMemories \in Nat
      /\ recorded \subseteq Ids /\ strayed \subseteq Ids
      /\ WorkIsCurrent(work[t])
  BY EngramAssumption DEF EngramInv, EngramForms, WorksAreCurrent, Ids
<1>1. PICK i, r \in Ids : /\ i = work[t].id /\ r = work[t].row /\ work[t].at = "index"
                          /\ i \in recorded /\ memory[i].row \in {0, r}
  BY <1>0 DEF InsertText, Working, WorkIsCurrent
<1>2. /\ indexed' \in {indexed, [indexed EXCEPT ![r] = IF @ = {} THEN {i} ELSE @]}
      /\ strayed' = IF i \in memory[i].tells /\ ~Deleting(i) THEN strayed ELSE strayed \cup {i}
      /\ Task(t, AtEase)
      /\ UNCHANGED <<memory, made, recorded, forgotten, leftover, unmerged, crossed>>
  BY <1>1 DEF InsertText
<1>3. /\ strayed \subseteq strayed' /\ strayed' \subseteq Ids
      /\ i \notin strayed' => /\ i \in memory[i].tells /\ ~Deleting(i)
                              /\ Stored(i) /\ memory[i].row = r
  <2>1. strayed \subseteq strayed' /\ strayed' \subseteq Ids
    BY <1>0, <1>2
  <2>2. i \notin strayed' => i \in memory[i].tells /\ ~Deleting(i)
    BY <1>2
  <2>3. i \in memory[i].tells => Stored(i)
    BY <1>0 DEF RowsAreMemories
  <2>. QED BY <1>1, <2>1, <2>2, <2>3 DEF Stored
<1>4. /\ indexed' \in [Ids -> SUBSET Ids]
      /\ \A k \in Ids : k # r => indexed'[k] = indexed[k]
      /\ indexed'[r] \subseteq indexed[r] \cup {i}
      /\ indexed'[r] = indexed[r] \/ indexed'[r] = {i}
  BY <1>0, <1>2
<1>5. AtEase \in Work /\ AtEase.at = "rest"
  BY <1>0 DEF AtEase, Work
<1>6. \A w \in Work : (\E s \in EngramTasks \ {t} : work[s] = w) /\ WorkIsCurrent(w)
                        => WorkIsCurrent(w)'
  <2>1. SUFFICES ASSUME NEW w \in Work, NEW s \in EngramTasks \ {t}, work[s] = w,
                        WorkIsCurrent(w)
                 PROVE  WorkIsCurrent(w)'
    OBVIOUS
  <2>2. ASSUME w.at \in {"overwrite", "delete"}, Stored(w.id)
        PROVE  indexed'[w.row] \subseteq strayed' \cup leftover
    <3>1. /\ w.id \in Ids /\ w.row \in Ids /\ memory[w.id].row = w.row
          /\ indexed[w.row] \subseteq strayed \cup leftover
      BY <1>0, <2>1, <2>2 DEF WorkIsCurrent, Stored
    <3>2. w.row = r /\ i \notin strayed' => w.id = i
      BY <1>0, <1>3, <3>1 DEF RowsAreMemories
    <3>3. Deleting(w.id)
      BY <2>1, <2>2 DEF Deleting
    <3>4. w.row = r => i \in strayed'
      BY <1>3, <3>2, <3>3
    <3>. QED BY <1>3, <1>4, <3>1, <3>4
  <2>. QED BY <1>2, <1>3, <2>1, <2>2 DEF WorkIsCurrent, Stored
<1>7. WorkIsCurrent(AtEase)'
  BY <1>5 DEF WorkIsCurrent
<1>8. WorksAreCurrent' /\ work' \in [EngramTasks -> Work]
  BY <1>2, <1>5, <1>6, <1>7, WorksStayCurrent
<1>9. EngramForms'
  BY <1>0, <1>2, <1>3, <1>4, <1>8 DEF EngramForms
<1>10. RowsAreMemories'
  BY <1>0, <1>2 DEF RowsAreMemories, Stored
<1>11. IndexTellsItsMemory'
  <2>1. SUFFICES ASSUME NEW k \in Ids, NEW f \in indexed'[k] \ (strayed' \cup leftover')
                 PROVE  \E j \in Ids : memory[j].row = k /\ f \in memory[j].tells
    BY <1>2 DEF IndexTellsItsMemory
  <2>2. CASE f \in indexed[k]
    BY <1>0, <1>2, <1>3, <2>1, <2>2 DEF IndexTellsItsMemory
  <2>3. CASE f \notin indexed[k]
    BY <1>3, <1>4, <2>1, <2>3
  <2>. QED BY <2>2, <2>3
<1>12. ASSUME ~crossed' PROVE OneReflects'
  <2> DEFINE facts == recorded \ (forgotten \cup strayed \cup unmerged)
             left == recorded \ (forgotten \cup strayed' \cup unmerged')
  <2>0. OneReflects /\ ~crossed
    BY <1>2, <1>12 DEF EngramInv
  <2>1. left \in SUBSET facts /\ left = recorded' \ (forgotten' \cup strayed' \cup unmerged')
    BY <1>2, <1>3
  <2>2. ChainsEnd(memory, facts)
    BY <2>0 DEF OneReflects
  <2>3. ChainsEnd(memory', left)
    <3> HIDE DEF left, facts
    <3>. QED BY <1>2, <2>1, <2>2, TellingLessEnds
  <2>4. ReflectionIsSafe(memory', AtEase)
    BY <1>5 DEF ReflectionIsSafe
  <2>5. ChainsEnd(memory', recorded' \ (forgotten' \cup strayed' \cup unmerged'))
    <3> HIDE DEF left
    <3>. QED BY <2>1, <2>3
  <2>. QED BY <1>2, <1>5, <2>0, <2>4, <2>5, OneStillReflects
<1>. QED BY <1>8, <1>9, <1>10, <1>11, <1>12 DEF EngramInv

-----------------------------------------------------------------------------
(* Deletion.                                                               *)

LEMMA DeleteTextStep ==
  ASSUME EngramInv, NEW t \in EngramTasks, DeleteText(t)
  PROVE  EngramInv'
<1>0. /\ EngramForms /\ RowsAreMemories /\ WorksAreCurrent /\ IndexTellsItsMemory
      /\ memory \in [Ids -> MemoryRow] /\ work \in [EngramTasks -> Work] /\ work[t] \in Work
      /\ indexed \in [Ids -> SUBSET Ids] /\ leftover \subseteq Ids
      /\ WorkIsCurrent(work[t])
  BY DEF EngramInv, EngramForms, WorksAreCurrent
<1>1. PICK r \in Ids : r = work[t].row /\ work[t].at = "unindex"
  BY <1>0 DEF DeleteText, Working, WorkIsCurrent
<1>2. /\ \/ indexed' = [indexed EXCEPT ![r] = {}] /\ leftover' = leftover
         \/ leftover' = leftover \cup indexed[r] /\ indexed' = indexed
      /\ Task(t, [work[t] EXCEPT !.at = "overwrite"])
      /\ UNCHANGED <<memory, made, recorded, forgotten, strayed, unmerged, crossed>>
  BY <1>1 DEF DeleteText, TextDeleted
<1>3. PICK next \in Work : /\ next.at = "overwrite" /\ next.id = work[t].id /\ next.row = r
                           /\ next.set = work[t].set /\ Task(t, next)
  <2>1. [work[t] EXCEPT !.at = "overwrite"] \in Work
    BY <1>0 DEF Work
  <2>. QED BY <1>0, <1>1, <1>2, <2>1 DEF Work
<1>4. /\ indexed' \in [Ids -> SUBSET Ids] /\ \A k \in Ids : indexed'[k] \subseteq indexed[k]
      /\ leftover \subseteq leftover' /\ leftover' \subseteq Ids /\ indexed'[r] \subseteq leftover'
  BY <1>0, <1>2
<1>5. \A w \in Work : WorkIsCurrent(w) => WorkIsCurrent(w)'
  <2>1. SUFFICES ASSUME NEW w \in Work, WorkIsCurrent(w) PROVE WorkIsCurrent(w)'
    OBVIOUS
  <2>2. w.row \in Ids => indexed'[w.row] \subseteq indexed[w.row]
    BY <1>4
  <2>. QED BY <1>2, <1>4, <2>1, <2>2 DEF WorkIsCurrent, Stored
<1>6. WorkIsCurrent(next)'
  BY <1>0, <1>1, <1>2, <1>3, <1>4 DEF WorkIsCurrent
<1>7. WorksAreCurrent' /\ work' \in [EngramTasks -> Work]
  BY <1>3, <1>5, <1>6, WorksStayCurrent
<1>8. EngramForms'
  BY <1>0, <1>2, <1>4, <1>7 DEF EngramForms
<1>9. RowsAreMemories'
  BY <1>0, <1>2 DEF RowsAreMemories, Stored
<1>10. IndexTellsItsMemory'
  BY <1>0, <1>2, <1>4 DEF IndexTellsItsMemory
<1>11. ASSUME ~crossed' PROVE OneReflects'
  <2>0. OneReflects /\ ~crossed
    BY <1>2, <1>11 DEF EngramInv
  <2>3. ChainsEnd(memory', recorded' \ (forgotten' \cup strayed' \cup unmerged'))
    BY <1>2, <2>0 DEF OneReflects
  <2>4. ReflectionIsSafe(memory', next)
    BY <1>3 DEF ReflectionIsSafe
  <2>. QED BY <1>2, <1>3, <2>0, <2>3, <2>4, OneStillReflects
<1>. QED BY <1>7, <1>8, <1>9, <1>10, <1>11 DEF EngramInv

\* delete_memory's two statements leave a memory that tells nothing.
LEMMA DeleteMemorySteps ==
  ASSUME EngramInv, NEW t \in EngramTasks, Overwrite(t) \/ DeleteRow(t)
  PROVE  EngramInv'
<1>0. /\ EngramForms /\ RowsAreMemories /\ WorksAreCurrent /\ IndexTellsItsMemory
      /\ memory \in [Ids -> MemoryRow] /\ work \in [EngramTasks -> Work] /\ work[t] \in Work
      /\ indexed \in [Ids -> SUBSET Ids] /\ MaxMemories \in Nat
      /\ recorded \subseteq Ids /\ forgotten \subseteq Ids
      /\ WorkIsCurrent(work[t])
  BY EngramAssumption DEF EngramInv, EngramForms, WorksAreCurrent, Ids
<1>1. PICK i, r \in Ids : /\ i = work[t].id /\ r = work[t].row /\ i \in recorded
                          /\ work[t].at \in {"overwrite", "delete"}
                          /\ memory[i].row \in {0, r}
                          /\ Stored(i) => indexed[r] \subseteq strayed \cup leftover
                          /\ work[t].at = "overwrite" => memory[i].tells \subseteq work[t].set \cup strayed
                          /\ work[t].at = "delete" => memory[i].tells \subseteq forgotten \cup strayed
  BY <1>0 DEF Overwrite, DeleteRow, Working, WorkIsCurrent
<1>2. PICK old \in MemoryRow, new \in MemoryRow :
        /\ old = memory[i] /\ memory' = [memory EXCEPT ![i] = new]
        /\ new.tells = {} /\ new.row \in {0, old.row} /\ new.by \in {0, old.by}
  <2>1. CASE Overwrite(t)
    <3>1. memory[i] \in MemoryRow /\ memory' = [memory EXCEPT ![i].tells = {}]
      BY <1>0, <1>1, <2>1 DEF Overwrite
    <3>2. [memory[i] EXCEPT !.tells = {}] \in MemoryRow
      BY <3>1 DEF MemoryRow
    <3>3. memory' = [memory EXCEPT ![i] = [memory[i] EXCEPT !.tells = {}]]
      BY <3>1
    <3>. QED BY <3>1, <3>2, <3>3 DEF MemoryRow
  <2>2. CASE DeleteRow(t)
    <3>1. NoMemory \in MemoryRow /\ NoMemory.tells = {} /\ NoMemory.row = 0 /\ NoMemory.by = 0
      BY <1>0 DEF NoMemory, MemoryRow
    <3>2. memory[i] \in MemoryRow /\ memory' = [memory EXCEPT ![i] = NoMemory]
      BY <1>0, <1>1, <2>2 DEF DeleteRow
    <3>. QED BY <3>1, <3>2
  <2>. QED BY <2>1, <2>2
<1>3. /\ memory' \in [Ids -> MemoryRow]
      /\ memory'[i].tells = {} /\ memory'[i].row \in {0, memory[i].row}
      /\ memory'[i].by \in {0, memory[i].by}
      /\ \A j \in Ids \ {i} : memory'[j] = memory[j]
  BY <1>0, <1>2
<1>4. /\ forgotten \subseteq forgotten' /\ forgotten' \subseteq Ids
      /\ memory[i].tells \subseteq forgotten' \cup strayed
  <2>1. CASE Overwrite(t)
    BY <1>0, <1>1, <2>1 DEF Overwrite, Working, Work
  <2>2. CASE DeleteRow(t)
    BY <1>0, <1>1, <2>2 DEF DeleteRow, Working, engramPast
  <2>. QED BY <2>1, <2>2
<1>5. UNCHANGED <<indexed, made, recorded, strayed, leftover, unmerged, crossed>>
  BY DEF Overwrite, DeleteRow, engramPast
<1>6. PICK next \in Work : /\ next.at \in {"rest", "delete"} /\ Task(t, next)
                           /\ next.at = "delete" => next.id = i /\ next.row = r
  <2>1. CASE Overwrite(t)
    <3>1. [work[t] EXCEPT !.at = "delete"] \in Work
      BY <1>0 DEF Work
    <3>2. Task(t, [work[t] EXCEPT !.at = "delete"])
      BY <2>1 DEF Overwrite
    <3>. QED BY <1>0, <1>1, <3>1, <3>2 DEF Work
  <2>2. CASE DeleteRow(t)
    <3>1. AtEase \in Work /\ AtEase.at = "rest" /\ Task(t, AtEase)
      BY <1>0, <2>2 DEF AtEase, Work, DeleteRow
    <3>. QED BY <3>1
  <2>. QED BY <2>1, <2>2
<1>7. /\ \A j \in Ids : memory'[j].tells \subseteq memory[j].tells
      /\ \A j \in Ids : memory'[j].row \in {0, memory[j].row}
      /\ \A j \in Ids : memory'[j].by \in {0, memory[j].by}
      /\ \A j \in Ids : memory'[j].tells # {} => memory'[j] = memory[j]
      /\ \A j \in Ids : Stored(j)' => Stored(j)
  BY <1>3 DEF Stored
<1>8. RowsAreMemories'
  <2>1. \A j \in Ids : ~Stored(j)' => memory'[j].tells = {}
    BY <1>0, <1>3 DEF RowsAreMemories, Stored
  <2>2. \A j \in Ids : Stored(j)' => j \in recorded' /\ memory'[j].row = memory[j].row
    BY <1>0, <1>5, <1>7 DEF RowsAreMemories, Stored
  <2>3. \A j \in Ids : Stored(j)' => memory'[j].row <= Cardinality(recorded')
    BY <1>0, <1>5, <1>7, <2>2 DEF RowsAreMemories
  <2>4. \A j, k \in Ids : Stored(j)' /\ memory'[j].row = memory'[k].row => j = k
    <3>1. TAKE j, k \in Ids
    <3>2. Stored(j)' /\ memory'[j].row = memory'[k].row
             => Stored(j) /\ memory[j].row = memory[k].row
      BY <1>7 DEF Stored
    <3>. QED BY <1>0, <3>2 DEF RowsAreMemories
  <2>5. /\ \A j \in Ids : memory'[j].tells \subseteq recorded'
        /\ \A j, k \in Ids : Stored(j)' /\ j \in memory'[k].tells => j = k
    BY <1>0, <1>5, <1>7 DEF RowsAreMemories
  <2>. QED BY <2>1, <2>2, <2>3, <2>4, <2>5 DEF RowsAreMemories
<1>9. \A w \in Work : WorkIsCurrent(w) => WorkIsCurrent(w)'
  <2>1. SUFFICES ASSUME NEW w \in Work, WorkIsCurrent(w) PROVE WorkIsCurrent(w)'
    OBVIOUS
  <2>2. w.at \in {"index", "unindex", "overwrite", "delete"} =>
          /\ w.id \in Ids /\ memory'[w.id].row \in {0, w.row}
          /\ memory'[w.id].tells \subseteq memory[w.id].tells
          /\ Stored(w.id)' => Stored(w.id)
    BY <1>0, <1>7, <2>1 DEF WorkIsCurrent
  <2>. QED BY <1>4, <1>5, <2>1, <2>2 DEF WorkIsCurrent
<1>10. WorkIsCurrent(next)'
  <2>1. memory'[i].row \in {0, r} /\ (Stored(i)' => Stored(i)) /\ memory'[i].tells = {}
    BY <1>1, <1>3, <1>7
  <2>. QED BY <1>1, <1>5, <1>6, <2>1 DEF WorkIsCurrent
<1>11. WorksAreCurrent' /\ work' \in [EngramTasks -> Work]
  BY <1>6, <1>9, <1>10, WorksStayCurrent
<1>12. EngramForms'
  BY <1>0, <1>3, <1>4, <1>5, <1>11 DEF EngramInv, EngramForms
<1>13. IndexTellsItsMemory'
  <2>1. SUFFICES ASSUME NEW k \in Ids, NEW f \in indexed[k] \ (strayed \cup leftover)
                 PROVE  \E j \in Ids : memory'[j].row = k /\ f \in memory'[j].tells
    BY <1>5 DEF IndexTellsItsMemory
  <2>2. PICK j \in Ids : memory[j].row = k /\ f \in memory[j].tells
    BY <1>0, <2>1 DEF IndexTellsItsMemory
  <2>3. j # i
    <3>1. Stored(j) /\ (j = i => k = r)
      BY <1>0, <1>1, <2>2 DEF RowsAreMemories, Stored
    <3>. QED BY <1>1, <2>1, <3>1
  <2>. QED BY <1>3, <2>2, <2>3
<1>14. ASSUME ~crossed' PROVE OneReflects'
  <2> DEFINE facts == recorded \ (forgotten \cup strayed \cup unmerged)
             left == recorded \ (forgotten' \cup strayed \cup unmerged)
  <2>0. OneReflects /\ ~crossed
    BY <1>5, <1>14 DEF EngramInv
  <2>1. left \in SUBSET facts /\ left = recorded' \ (forgotten' \cup strayed' \cup unmerged')
        /\ memory[i].tells \cap left = {}
    BY <1>4, <1>5
  <2>2. ChainsEnd(memory, facts)
    BY <2>0 DEF OneReflects
  <2>3. ChainsEnd(memory', recorded' \ (forgotten' \cup strayed' \cup unmerged'))
    <3>1. \A j \in Ids : /\ memory[j].tells \cap left \subseteq memory'[j].tells
                         /\ memory[j].tells \cap left # {} => memory'[j].by = memory[j].by
      BY <1>3, <2>1
    <3> HIDE DEF left, facts
    <3>. QED BY <2>1, <2>2, <3>1, TellingLessEnds
  <2>4. \A n, S, R : Apart(memory, n, S) /\ R \subseteq S => Apart(memory', n, R)
    BY <1>7, TellingLess
  <2>5. ASSUME NEW s \in EngramTasks, ReflectionIsSafe(memory, work[s])
        PROVE  ReflectionIsSafe(memory', work[s])
    <3>1. WorkIsCurrent(work[s])
      BY <1>0 DEF WorksAreCurrent
    <3>2. ASSUME work[s].at = "reflect", NEW m \in work[s].set, NEW b \in work[s].set, m # b
          PROVE  Apart(memory', b, memory'[m].tells)
      <4>1. m \in Ids /\ Apart(memory, b, memory[m].tells)
        BY <1>0, <2>5, <3>1, <3>2 DEF ReflectionIsSafe, WorkIsCurrent
      <4>. QED BY <1>7, <2>4, <4>1
    <3>3. ASSUME work[s].at = "merge", memory'[work[s].row].by # 0
          PROVE  Apart(memory', memory'[work[s].row].by,
                       memory'[work[s].id].tells \cup memory'[work[s].row].tells)
      <4>1. work[s].id \in Ids /\ work[s].row \in Ids
        BY <1>0, <3>1, <3>3 DEF WorkIsCurrent
      <4>2. memory'[work[s].row].by = memory[work[s].row].by
        BY <1>7, <3>3, <4>1
      <4>3. Apart(memory, memory[work[s].row].by,
                  memory[work[s].id].tells \cup memory[work[s].row].tells)
        BY <2>5, <3>3, <4>2 DEF ReflectionIsSafe
      <4>4. memory'[work[s].id].tells \cup memory'[work[s].row].tells
              \subseteq memory[work[s].id].tells \cup memory[work[s].row].tells
        BY <1>7, <4>1
      <4>. QED BY <2>4, <4>2, <4>3, <4>4
    <3>. QED BY <3>2, <3>3 DEF ReflectionIsSafe
  <2>6. ReflectionIsSafe(memory', next)
    BY <1>6 DEF ReflectionIsSafe
  <2>. QED BY <1>6, <2>0, <2>3, <2>5, <2>6, OneStillReflects
<1>. QED BY <1>8, <1>11, <1>12, <1>13, <1>14 DEF EngramInv

-----------------------------------------------------------------------------
(* Reflection.                                                             *)

\* Of the tasks only t reflects.
LEMMA OthersDoNotReflect ==
  ASSUME OneReflects, NEW t \in Reflecting
  PROVE  \A table : \A s \in EngramTasks \ {t} : ReflectionIsSafe(table, work[s])
BY DEF OneReflects, Reflecting, ReflectionIsSafe

LEMMA SupersedeStaleStep ==
  ASSUME EngramInv, NEW t \in EngramTasks, SupersedeStale(t)
  PROVE  EngramInv'
<1>0. /\ EngramForms /\ RowsAreMemories /\ WorksAreCurrent /\ IndexTellsItsMemory
      /\ memory \in [Ids -> MemoryRow] /\ work \in [EngramTasks -> Work] /\ work[t] \in Work
      /\ MaxMemories \in Nat /\ recorded \subseteq Ids
      /\ WorkIsCurrent(work[t])
  BY EngramAssumption DEF EngramInv, EngramForms, WorksAreCurrent, Ids
<1>1. PICK outdated \in work[t].set, newer \in work[t].set :
        /\ outdated # newer
        /\ memory' = [memory EXCEPT ![outdated].by = IF Stored(outdated) THEN newer ELSE 0]
        /\ Task(t, [work[t] EXCEPT !.set = @ \ {outdated}])
  BY DEF SupersedeStale
<1>2. /\ work[t].at = "reflect" /\ work[t].set \subseteq recorded /\ work[t].set \subseteq Ids
      /\ outdated \in Ids /\ newer \in Ids /\ newer \in 0..MaxMemories
      /\ UNCHANGED <<indexed, made, recorded, forgotten, strayed, leftover, unmerged, crossed>>
  BY <1>0 DEF SupersedeStale, Working, WorkIsCurrent, engramPast, Ids
<1>3. PICK next \in Work : /\ next.at = "reflect" /\ next.set = work[t].set \ {outdated}
                           /\ Task(t, next)
  <2>1. [work[t] EXCEPT !.set = @ \ {outdated}] \in Work
    BY <1>0 DEF Work
  <2>. QED BY <1>0, <1>1, <1>2, <2>1 DEF Work
<1>4. /\ memory' \in [Ids -> MemoryRow]
      /\ \A j \in Ids : /\ memory'[j].row = memory[j].row
                        /\ memory'[j].tells = memory[j].tells
                        /\ j # outdated => memory'[j].by = memory[j].by
      /\ memory'[outdated].by = IF Stored(outdated) THEN newer ELSE 0
  <2> DEFINE b == IF Stored(outdated) THEN newer ELSE 0
  <2>1. b \in 0..MaxMemories /\ memory[outdated] \in MemoryRow
    BY <1>0, <1>2
  <2>2. memory' = [memory EXCEPT ![outdated].by = b]
    BY <1>1
  <2> HIDE DEF b
  <2>3. [memory[outdated] EXCEPT !.by = b] \in MemoryRow
    BY <2>1 DEF MemoryRow
  <2>4. memory'[outdated] = [memory[outdated] EXCEPT !.by = b]
        /\ \A j \in Ids : j # outdated => memory'[j] = memory[j]
    BY <1>0, <1>2, <2>2
  <2>5. memory' \in [Ids -> MemoryRow]
    BY <1>0, <1>2, <2>2, <2>3
  <2>6. memory'[outdated].by = b /\ memory'[outdated].row = memory[outdated].row
        /\ memory'[outdated].tells = memory[outdated].tells
    BY <2>1, <2>4 DEF MemoryRow
  <2>. QED BY <2>4, <2>5, <2>6 DEF b
<1>5. RowsAreMemories'
  BY <1>0, <1>2, <1>4 DEF RowsAreMemories, Stored
<1>6. \A w \in Work : WorkIsCurrent(w) => WorkIsCurrent(w)'
  BY <1>0, <1>2, <1>4 DEF WorkIsCurrent, Stored
<1>7. WorkIsCurrent(next)'
  BY <1>2, <1>3 DEF WorkIsCurrent
<1>8. WorksAreCurrent' /\ work' \in [EngramTasks -> Work]
  BY <1>3, <1>6, <1>7, WorksStayCurrent
<1>9. EngramForms'
  BY <1>0, <1>2, <1>4, <1>8 DEF EngramForms
<1>10. IndexTellsItsMemory'
  <2>1. \A k \in Ids : \A f \in indexed[k] \ (strayed \cup leftover) :
          \E j \in Ids : memory'[j].row = k /\ f \in memory'[j].tells
    BY <1>0, <1>4 DEF IndexTellsItsMemory
  <2>. QED BY <1>2, <2>1 DEF IndexTellsItsMemory
<1>11. ASSUME ~crossed' PROVE OneReflects'
  <2> DEFINE facts == recorded \ (forgotten \cup strayed \cup unmerged)
  <2>0. OneReflects /\ ~crossed /\ t \in Reflecting
    BY <1>2, <1>11 DEF EngramInv, Reflecting
  <2>1. \A m, b \in work[t].set : m # b => Apart(memory, b, memory[m].tells)
    BY <1>2, <2>0 DEF OneReflects, ReflectionIsSafe
  <2>2. /\ ChainsEnd(memory', facts)
        /\ \A m, b \in next.set : m # b => Apart(memory', b, memory'[m].tells)
    <3>1. ChainsEnd(memory, facts)
      BY <2>0 DEF OneReflects
    <3>2. CASE Stored(outdated)
      <4>1. Apart(memory, newer, memory[outdated].tells) /\ memory'[outdated].by = newer
        BY <1>1, <1>4, <2>1, <3>2
      <4>2. /\ \A n, S : Apart(memory, n, S) /\ Apart(memory, n, memory[outdated].tells)
                           => Apart(memory', n, S)
            /\ \A f : ChainsEnd(memory, f) => ChainsEnd(memory', f)
        BY <1>2, <1>4, <4>1, SupersededApart
      <4>3. ChainsEnd(memory', facts)
        <5> HIDE DEF facts
        <5>. QED BY <3>1, <4>2
      <4>4. ASSUME NEW m \in next.set, NEW b \in next.set, m # b
            PROVE  Apart(memory', b, memory'[m].tells)
        <5>1. /\ m \in work[t].set /\ b \in work[t].set /\ b # outdated /\ m \in Ids
          BY <1>2, <1>3, <4>4
        <5>2. Apart(memory, b, memory[m].tells) /\ Apart(memory, b, memory[outdated].tells)
          BY <2>1, <4>4, <5>1
        <5>. QED BY <1>4, <4>2, <5>1, <5>2
      <4>. QED BY <4>3, <4>4
    <3>3. CASE ~Stored(outdated)
      <4>1. memory[outdated].tells = {}
        BY <1>0, <1>2, <3>3 DEF RowsAreMemories
      <4>2. \A j \in Ids : /\ memory'[j].tells = memory[j].tells
                           /\ memory'[j].tells # {} => memory'[j].by = memory[j].by
        BY <1>4, <4>1
      <4>3. \A n, S : Apart(memory, n, S) => Apart(memory', n, S)
        BY <4>2, TellingLess
      <4>4. ChainsEnd(memory', facts)
        <5> HIDE DEF facts
        <5>1. \A j \in Ids : /\ memory[j].tells \cap facts \subseteq memory'[j].tells
                             /\ memory[j].tells \cap facts # {} => memory'[j].by = memory[j].by
          BY <4>2
        <5>. QED BY <3>1, <5>1, TellingLessEnds
      <4>5. ASSUME NEW m \in next.set, NEW b \in next.set, m # b
            PROVE  Apart(memory', b, memory'[m].tells)
        BY <1>2, <1>3, <2>1, <4>2, <4>3, <4>5
      <4>. QED BY <4>4, <4>5
    <3>. QED BY <3>2, <3>3
  <2>3. ReflectionIsSafe(memory', next)
    BY <1>3, <2>2 DEF ReflectionIsSafe
  <2>4. ChainsEnd(memory', recorded' \ (forgotten' \cup strayed' \cup unmerged'))
    BY <1>2, <2>2
  <2>5. \A s \in EngramTasks \ {t} : ReflectionIsSafe(memory', work[s])
    BY <2>0, OthersDoNotReflect
  <2>. QED BY <1>3, <2>0, <2>3, <2>4, <2>5, OneStillReflects
<1>. QED BY <1>5, <1>8, <1>9, <1>10, <1>11 DEF EngramInv

LEMMA MergeStep ==
  ASSUME EngramInv, NEW t \in EngramTasks, Merge(t)
  PROVE  EngramInv'
<1>0. /\ EngramForms /\ RowsAreMemories /\ WorksAreCurrent /\ IndexTellsItsMemory
      /\ memory \in [Ids -> MemoryRow] /\ work \in [EngramTasks -> Work] /\ work[t] \in Work
      /\ indexed \in [Ids -> SUBSET Ids] /\ made \in 0..MaxMemories /\ crossed \in BOOLEAN
      /\ MaxMemories \in Nat /\ recorded \subseteq Ids /\ strayed \subseteq Ids
      /\ leftover \subseteq Ids /\ unmerged \subseteq Ids
      /\ WorkIsCurrent(work[t])
  BY EngramAssumption DEF EngramInv, EngramForms, WorksAreCurrent, Ids
<1>1. PICK older, newer \in Ids :
        /\ older = work[t].id /\ newer = work[t].row /\ work[t].at = "merge"
        /\ older \in recorded /\ newer \in recorded /\ older # newer
  BY <1>0 DEF Merge, Working, WorkIsCurrent
<1>2. /\ Task(t, AtEase) /\ UNCHANGED <<made, recorded, forgotten, crossed>>
      /\ \/ /\ Stored(older)
            /\ RowMerged(older, newer)
            /\ TextDeleted(memory[older].row)
            /\ strayed' = IF Deleting(older) \/ Deleting(newer) \/ ~Stored(newer)
                            THEN strayed \cup memory[older].tells ELSE strayed
         \/ /\ ~Stored(older)
            /\ UNCHANGED <<memory, indexed, strayed, leftover, unmerged>>
  BY <1>1 DEF Merge
<1>3. AtEase \in Work /\ AtEase.at = "rest" /\ WorkIsCurrent(AtEase)
      /\ \A table : ReflectionIsSafe(table, AtEase)
  <2>1. AtEase \in Work /\ AtEase.at = "rest"
    BY <1>0 DEF AtEase, Work
  <2>. QED BY <2>1 DEF WorkIsCurrent, ReflectionIsSafe
<1>4. CASE ~Stored(older)
  <2>2. UNCHANGED <<memory, indexed, recorded, forgotten, strayed, leftover, unmerged,
                    made, crossed>>
    BY <1>2, <1>4
  <2>3. made' \in 0..MaxMemories /\ made <= made'
    BY <1>0, <2>2
  <2>. QED BY <1>0, <1>2, <1>3, <2>2, <2>3, TaskMoves
<1>5. CASE Stored(older)
  <2>0. PICK text \in {memory[older].tells, {}} :
          /\ memory' = [j \in Ids |->
               IF j = older THEN NoMemory
               ELSE IF j = newer /\ Stored(j) THEN [memory[j] EXCEPT !.tells = @ \cup text]
               ELSE memory[j]]
          /\ unmerged' = unmerged \cup (memory[older].tells \ text)
    BY <1>2, <1>5 DEF RowMerged
  <2>1. /\ memory' \in [Ids -> MemoryRow]
        /\ memory'[older].row = 0 /\ memory'[older].tells = {}
        /\ \A j \in Ids : j # older =>
             /\ memory'[j].row = memory[j].row /\ memory'[j].by = memory[j].by
             /\ memory'[j].tells = memory[j].tells
                  \cup (IF j = newer /\ Stored(j) THEN text ELSE {})
             /\ (j # newer \/ ~Stored(newer)) => memory'[j] = memory[j]
    <3>1. NoMemory \in MemoryRow /\ NoMemory.row = 0 /\ NoMemory.tells = {}
      BY <1>0 DEF NoMemory, MemoryRow
    <3> DEFINE joined == [memory[newer] EXCEPT !.tells = @ \cup text]
    <3>2. text \subseteq Ids /\ memory[newer] \in MemoryRow
      BY <1>0, <1>1 DEF MemoryRow
    <3>3. /\ joined \in MemoryRow /\ joined.row = memory[newer].row
          /\ joined.by = memory[newer].by /\ joined.tells = memory[newer].tells \cup text
      BY <3>2 DEF MemoryRow
    <3>4. memory' = [j \in Ids |-> IF j = older THEN NoMemory
                                   ELSE IF j = newer /\ Stored(j) THEN joined ELSE memory[j]]
      BY <2>0
    <3> HIDE DEF joined
    <3>5. /\ memory' \in [Ids -> MemoryRow]
          /\ memory'[older] = NoMemory
          /\ \A j \in Ids : j # older =>
               memory'[j] = IF j = newer /\ Stored(j) THEN joined ELSE memory[j]
      BY <1>0, <1>1, <3>1, <3>3, <3>4
    <3>. QED BY <3>1, <3>3, <3>5
  <2>2. /\ memory[older].row \in Ids
        /\ indexed' \in [Ids -> SUBSET Ids] /\ leftover' \subseteq Ids
        /\ indexed'[memory[older].row] \subseteq leftover' /\ leftover \subseteq leftover'
        /\ \A k \in Ids : indexed'[k] \subseteq indexed[k]
    <3>1. memory[older].row \in Ids
      BY <1>0, <1>5 DEF Stored, MemoryRow, Ids
    <3>. QED BY <1>0, <1>2, <1>5, <3>1 DEF TextDeleted
  <2>3. /\ strayed \subseteq strayed' /\ strayed' \subseteq Ids
        /\ Deleting(newer) \/ ~Stored(newer) => memory[older].tells \subseteq strayed'
        /\ unmerged \subseteq unmerged' /\ unmerged' \subseteq Ids
    BY <1>0, <1>2, <1>5, <2>0 DEF MemoryRow
  <2>4. \A j \in Ids : Stored(j)' <=> Stored(j) /\ j # older
    BY <2>1 DEF Stored
  <2>5. RowsAreMemories'
    <3>1. \A j \in Ids : ~Stored(j)' => memory'[j].tells = {}
      BY <1>0, <2>1, <2>4 DEF RowsAreMemories
    <3>2. \A j \in Ids : Stored(j)' => j \in recorded' /\ memory'[j].row = memory[j].row
      BY <1>0, <1>2, <2>1, <2>4 DEF RowsAreMemories
    <3>3. \A j \in Ids : Stored(j)' => memory'[j].row <= Cardinality(recorded')
      BY <1>0, <1>2, <2>4, <3>2 DEF RowsAreMemories
    <3>4. \A j, k \in Ids : Stored(j)' /\ memory'[j].row = memory'[k].row => j = k
      <4>1. TAKE j, k \in Ids
      <4>2. Stored(j)' /\ memory'[j].row = memory'[k].row => Stored(j) /\ memory[j].row = memory[k].row
        BY <2>1, <2>4 DEF Stored
      <4>. QED BY <1>0, <4>2 DEF RowsAreMemories
    <3>5. \A j \in Ids : memory'[j].tells \subseteq recorded'
      BY <1>0, <1>2, <2>1 DEF RowsAreMemories
    <3>6. \A j, k \in Ids : Stored(j)' /\ j \in memory'[k].tells => j = k
      BY <1>0, <2>1, <2>4 DEF RowsAreMemories
    <3>. QED BY <3>1, <3>2, <3>3, <3>4, <3>5, <3>6 DEF RowsAreMemories
  <2>6. \A w \in Work : (\E s \in EngramTasks \ {t} : work[s] = w) /\ WorkIsCurrent(w)
                          => WorkIsCurrent(w)'
    <3>1. SUFFICES ASSUME NEW w \in Work, NEW s \in EngramTasks \ {t}, work[s] = w,
                          WorkIsCurrent(w)
                   PROVE  WorkIsCurrent(w)'
      OBVIOUS
    <3>2. w.at \in {"index", "unindex", "overwrite", "delete"} =>
            /\ w.id \in Ids /\ w.row \in Ids
            /\ memory'[w.id].row \in {0, w.row} /\ (Stored(w.id)' => Stored(w.id))
            /\ indexed'[w.row] \subseteq indexed[w.row]
      BY <1>0, <2>1, <2>2, <2>4, <3>1 DEF WorkIsCurrent
    <3>3. w.at \in {"unindex", "overwrite", "delete"} =>
            memory'[w.id].tells \subseteq memory[w.id].tells \cup strayed'
      <4>1. SUFFICES ASSUME w.at \in {"unindex", "overwrite", "delete"}
                     PROVE  memory'[w.id].tells \subseteq memory[w.id].tells \cup strayed'
        OBVIOUS
      <4>2. Deleting(w.id) /\ w.id \in Ids
        BY <3>1, <3>2, <4>1 DEF Deleting
      <4>. QED BY <2>0, <2>1, <2>3, <4>2
    <3>. QED BY <1>2, <2>2, <2>3, <3>1, <3>2, <3>3 DEF WorkIsCurrent
  <2>7. WorkIsCurrent(AtEase)'
    BY <1>3 DEF WorkIsCurrent
  <2>8. WorksAreCurrent' /\ work' \in [EngramTasks -> Work]
    BY <1>2, <1>3, <2>6, <2>7, WorksStayCurrent
  <2>9. EngramForms'
    BY <1>0, <1>2, <2>1, <2>2, <2>3, <2>8 DEF EngramForms
  <2>10. IndexTellsItsMemory'
    <3>1. SUFFICES ASSUME NEW k \in Ids, NEW f \in indexed'[k] \ (strayed' \cup leftover')
                   PROVE  \E j \in Ids : memory'[j].row = k /\ f \in memory'[j].tells
      BY DEF IndexTellsItsMemory
    <3>2. PICK j \in Ids : memory[j].row = k /\ f \in memory[j].tells
      BY <1>0, <2>2, <2>3, <3>1 DEF IndexTellsItsMemory
    <3>3. j # older
      BY <2>2, <3>1, <3>2
    <3>. QED BY <2>1, <3>2, <3>3
  <2>11. ASSUME ~crossed' PROVE OneReflects'
    <3> DEFINE facts == recorded \ (forgotten \cup strayed \cup unmerged)
               left == recorded \ (forgotten \cup strayed' \cup unmerged')
    <3>0. OneReflects /\ ~crossed /\ t \in Reflecting
      BY <1>1, <1>2, <2>11 DEF EngramInv, Reflecting
    <3>1. left \in SUBSET facts
          /\ left = recorded' \ (forgotten' \cup strayed' \cup unmerged')
      BY <1>2, <2>3
    <3>2. ChainsEnd(memory, facts)
      BY <3>0 DEF OneReflects
    <3>3. CASE Stored(newer) /\ text = memory[older].tells
      <4> DEFINE both == memory[older].tells \cup memory[newer].tells
      <4>1. memory[newer].by # 0 => Apart(memory, memory[newer].by, both)
        BY <1>1, <3>0 DEF OneReflects, ReflectionIsSafe
      <4>2. memory[newer].by \in {0} \cup Ids
        BY <1>0 DEF MemoryRow, Ids
      <4>3. /\ memory'[older].tells = {}
            /\ memory'[newer].tells = memory[newer].tells \cup memory[older].tells
            /\ memory'[newer].by = memory[newer].by
            /\ \A j \in Ids \ {older, newer} : memory'[j] = memory[j]
        BY <1>1, <2>1, <3>3
      <4>4. \A f : ChainsEnd(memory, f) => ChainsEnd(memory', f)
        <5>1. memory[newer].by # 0 =>
                Apart(memory, memory[newer].by, memory[older].tells \cup memory[newer].tells)
          BY <4>1
        <5>2. MergedInto(memory, memory', older, newer)
          BY <1>1, <4>2, <4>3, <5>1 DEF MergedInto
        <5>. QED BY <5>2, MergedApart
      <4>5. ChainsEnd(memory', facts)
        <5> HIDE DEF facts
        <5>. QED BY <3>2, <4>4
      <4>6. ChainsEnd(memory', left)
        <5> HIDE DEF facts, left
        <5>. QED BY <3>1, <4>5, TellingLessEnds
      <4> HIDE DEF left
      <4>. QED BY <1>2, <1>3, <3>0, <3>1, <4>6, OthersDoNotReflect, OneStillReflects
    <3>4. CASE ~Stored(newer) \/ text = {}
      <4>1. memory[older].tells \cap left = {}
        BY <2>0, <2>3, <3>4
      <4>2. \A j \in Ids : /\ memory[j].tells \cap left \subseteq memory'[j].tells
                           /\ memory[j].tells \cap left # {} => memory'[j].by = memory[j].by
        BY <2>1, <4>1
      <4>3. ChainsEnd(memory', left)
        <5> HIDE DEF facts, left
        <5>. QED BY <3>1, <3>2, <4>2, TellingLessEnds
      <4> HIDE DEF left
      <4>. QED BY <1>2, <1>3, <3>0, <3>1, <4>3, OthersDoNotReflect, OneStillReflects
    <3>. QED BY <2>0, <3>3, <3>4
  <2>. QED BY <2>5, <2>8, <2>9, <2>10, <2>11 DEF EngramInv
<1>. QED BY <1>4, <1>5

LEMMA NextEngram == EngramInv /\ [EngramNext]_engramVars => EngramInv'
<1> SUFFICES ASSUME EngramInv, [EngramNext]_engramVars PROVE EngramInv'
  OBVIOUS
<1>1. ASSUME NEW t \in EngramTasks, EngramStep(t) PROVE EngramInv'
  BY <1>1, LookingSteps, SupersedeRowStep, InsertMemoryStep, InsertTextStep, DeleteTextStep,
     DeleteMemorySteps, SupersedeStaleStep, MergeStep DEF EngramStep
<1>2. CASE UNCHANGED engramVars
  BY <1>2 DEF engramVars, engramPast, EngramInv, EngramForms, RowsAreMemories, Stored,
     WorksAreCurrent, WorkIsCurrent, Working, IndexTellsItsMemory, OneReflects, Reflecting
<1>. QED BY <1>1, <1>2 DEF EngramNext

\* The memory's table, index and tasks keep to their types, and no two rows share a rowid.
THEOREM EngramTypeCorrect == EngramSpec => []EngramTypeOK
BY InitEngram, NextEngram, EngramInvTypes, PTL DEF EngramSpec

\* What the search finds under a rowid is told by the memory in that row, however many
\* tasks record, delete and merge memories at once.
THEOREM IndexedTextsAreTold == EngramSpec => []IndexTellsItsMemory
<1>1. EngramInv => IndexTellsItsMemory
  BY DEF EngramInv
<1>. QED BY <1>1, InitEngram, NextEngram, PTL DEF EngramSpec

\* However memories supersede and absorb each other, a fact that was stored is told by
\* a live memory or leads to one: superseding makes no circle.
THEOREM ChainsOfMemoriesEnd == EngramSpec => []FactsAreSettled
BY InitEngram, NextEngram, EngramInvTypes, PTL DEF EngramSpec

-----------------------------------------------------------------------------
(***************************************************************************)
(* The migration of a version-1 store keeps its facts: an opening that was *)
(* killed, or ran beside another, or failed to read, leaves the first      *)
(* facts in memories_v2, in their order, and a facts table that is out of  *)
(* the way is there whole unless it was cut off.                           *)
(***************************************************************************)

\* Positions count the facts, in the order of their ids.
LEMMA PositionsInOrder ==
  /\ FactCount \in Nat
  /\ \A f \in FactIds : f \in Nat /\ f # NewMemory /\ Position(f) \in 1..FactCount
  /\ \A f, h \in FactIds : f < h => Position(f) < Position(h)
<1> DEFINE upTo(f) == {g \in FactIds : g <= f}
<1>1. FactCount \in Nat
  BY MigrationAssumption, FS_CardinalityType DEF FactCount
<1>0. \A f \in FactIds : f \in Nat /\ f # NewMemory
  BY MigrationAssumption DEF NewMemory
<1>2. \A f \in FactIds : IsFiniteSet(upTo(f)) /\ Position(f) \in 1..FactCount
  <2>1. TAKE f \in FactIds
  <2>2. IsFiniteSet(upTo(f)) /\ Cardinality(upTo(f)) <= FactCount
    <3>1. upTo(f) \in SUBSET FactIds
      OBVIOUS
    <3>. QED BY <3>1, MigrationAssumption, FS_Subset DEF FactCount
  <2>3. Cardinality(upTo(f)) \in Nat /\ Cardinality(upTo(f)) # 0
    <3>1. f \in upTo(f)
      BY MigrationAssumption
    <3>2. upTo(f) # {}
      BY <3>1
    <3> HIDE DEF upTo
    <3>. QED BY <2>2, <3>2, FS_CardinalityType, FS_EmptySet
  <2>. QED BY <1>1, <2>2, <2>3 DEF Position
<1>3. \A f, h \in FactIds : f < h => Position(f) < Position(h)
  <2>1. SUFFICES ASSUME NEW f \in FactIds, NEW h \in FactIds, f < h
                 PROVE  Position(f) < Position(h)
    OBVIOUS
  <2>2. upTo(f) \in SUBSET upTo(h) /\ h \in upTo(h) /\ h \notin upTo(f)
    BY <1>0, <2>1
  <2>3. IsFiniteSet(upTo(h)) /\ Position(f) \in Nat /\ Position(h) \in Nat
    <3> HIDE DEF upTo
    <3>. QED BY <1>1, <1>2
  <2>4. Position(f) = Cardinality(upTo(f)) /\ Position(h) = Cardinality(upTo(h))
    BY DEF Position
  <2>5. Cardinality(upTo(f)) <= Cardinality(upTo(h)) /\ Cardinality(upTo(f)) # Cardinality(upTo(h))
    <3> HIDE DEF upTo
    <3>. QED BY <2>2, <2>3, FS_Subset
  <2>. QED BY <2>3, <2>4, <2>5
<1> HIDE DEF upTo
<1>. QED BY <1>0, <1>1, <1>2, <1>3

-----------------------------------------------------------------------------
OpeningRecord ==
  [at : {"closed", "count", "guard", "select", "insert", "sync", "rename", "create", "open"},
   offset : Nat, last : BOOLEAN, todo : SUBSET FactIds, row : Nat]

MigrationForms ==
  /\ renamed \in BOOLEAN /\ indexMade \in BOOLEAN /\ cut \in BOOLEAN /\ recopied \in BOOLEAN
  /\ rows \in Seq(FactIds \cup {NewMemory})
  /\ inIndex \subseteq 1..Len(rows)
  /\ opening \in [Openers -> OpeningRecord]
  /\ unread \subseteq FactIds

InTable(table, f) == \E r \in 1..Len(table) : table[r] = f
AllCopied(table, skipped) == \A f \in FactIds \ skipped : InTable(table, f)

InCopy(w) == w.at \in {"select", "insert", "sync"}

\* Where a copying stands in its batch, which is the last one only if no fact comes
\* after it.
BatchIsRead(w, length, lost) ==
  /\ w.at \in {"closed", "count", "guard"} => w.offset = 0
  /\ w.at \in {"closed", "count", "guard", "select"} => w.todo = {} /\ ~w.last
  /\ w.at = "insert" => w.todo # {}
  /\ w.at = "sync" => w.row \in 1..length
  /\ InCopy(w) => /\ \A f \in w.todo : Position(f) <= w.offset
                  /\ w.last => lost \/ FactCount <= w.offset

\* What a copying has passed is in memories_v2.
Copied(table, skipped, w) ==
  \A f \in FactIds \ (skipped \cup w.todo) : Position(f) <= w.offset => InTable(table, f)

CopyingsAreSound ==
  \A o \in Openers :
    /\ BatchIsRead(opening[o], Len(rows), cut)
    /\ InCopy(opening[o]) => Copied(rows, unread, opening[o])

\* Before facts is renamed, a memory that is there, or an opening about to rename,
\* tells of a copying that goes on or that is complete.
CopyingGoesOn ==
  ~cut => IF renamed THEN AllCopied(rows, unread)
          ELSE (rows # <<>> \/ \E o \in Openers : Reached(o, "rename")) =>
                 AllCopied(rows, unread) \/ \E o \in Openers : Unfinished(o)

\* What is copied comes before what w has still to copy.
CopiedBefore(table, w) ==
  \A r \in 1..Len(table) : table[r] # NewMemory =>
    /\ \A g \in w.todo : table[r] < g
    /\ ~w.last => Position(table[r]) <= w.offset

\* One opening copies, in order.
OneCopies ==
  /\ \A o, p \in Openers : Copying(o) /\ Copying(p) => o = p
  /\ \A o \in Openers : Copying(o) => CopiedBefore(rows, opening[o])
  /\ CopiedInOrder

\* A store is opened when facts is out of the way, or was not found.
OpenAfterRename == \A o \in Openers : opening[o].at \in {"create", "open"} => renamed \/ cut

MigrationInv ==
  /\ MigrationForms
  /\ OpenAfterRename
  /\ CopyingsAreSound
  /\ CopyingGoesOn
  /\ ~recopied => OneCopies

LEMMA MigrationInvTypes == MigrationInv => MigrationTypeOK
BY DEF MigrationInv, MigrationForms, MigrationTypeOK, OpeningRecord

LEMMA ClosedType == Closed \in OpeningRecord /\ LoopLeft \in OpeningRecord
BY DEF Closed, LoopLeft, OpeningRecord

LEMMA InitMigration == MigrationInit => MigrationInv
<1> SUFFICES ASSUME MigrationInit PROVE MigrationInv
  OBVIOUS
<1>2. opening \in [Openers -> OpeningRecord] /\ \A o \in Openers : opening[o] = Closed
  BY ClosedType DEF MigrationInit
<1>3. MigrationForms
  <2>1. <<>> \in Seq(FactIds \cup {NewMemory}) /\ Len(<<>>) = 0
    OBVIOUS
  <2>2. /\ renamed \in BOOLEAN /\ indexMade \in BOOLEAN /\ cut \in BOOLEAN /\ recopied \in BOOLEAN
        /\ unread = {}
    BY DEF MigrationInit
  <2>. QED BY <1>2, <2>1, <2>2 DEF MigrationInit, MigrationForms
<1>4. \A o \in Openers : ~Copying(o) /\ ~Reached(o, "rename") /\ ~InCopy(opening[o])
  BY <1>2 DEF Copying, InCopy, Reached, Closed
<1>5. CopyingsAreSound
  BY <1>2, <1>4 DEF CopyingsAreSound, BatchIsRead, Closed
<1>6. CopyingGoesOn /\ OpenAfterRename
  BY <1>2, <1>4 DEF MigrationInit, CopyingGoesOn, OpenAfterRename, Closed
<1>7. OneCopies
  BY <1>4 DEF MigrationInit, OneCopies, CopiedInOrder
<1>. QED BY <1>3, <1>5, <1>6, <1>7 DEF MigrationInv

\* How a step of o keeps the invariant when memories_v2 only grows: next is o's
\* new record.
LEMMA OpeningMoves ==
  ASSUME MigrationInv, NEW o \in Openers, NEW next \in OpeningRecord,
         opening' = [opening EXCEPT ![o] = next],
         MigrationForms', renamed => renamed', cut => cut', unread \subseteq unread',
         next.at \in {"create", "open"} => renamed' \/ cut',
         Len(rows') >= Len(rows), \A r \in 1..Len(rows) : rows'[r] = rows[r],
         BatchIsRead(next, Len(rows'), cut'),
         InCopy(next) => Copied(rows', unread', next),
         CopyingGoesOn', (~recopied => OneCopies)'
  PROVE  MigrationInv'
<1>1. /\ \A p \in Openers \ {o} : opening'[p] = opening[p]
      /\ opening'[o] = next
      /\ Len(rows) \in Nat /\ Len(rows') \in Nat
      /\ opening \in [Openers -> OpeningRecord]
  BY DEF MigrationInv, MigrationForms
<1>2. \A r \in 1..Len(rows) : r \in 1..Len(rows')
  BY <1>1
<1>3. \A f : InTable(rows, f) => InTable(rows', f)
  BY <1>2 DEF InTable
<1>4. CopyingsAreSound'
  <2>1. SUFFICES ASSUME NEW p \in Openers
                 PROVE  /\ BatchIsRead(opening'[p], Len(rows'), cut')
                        /\ InCopy(opening'[p]) => Copied(rows', unread', opening'[p])
    BY DEF CopyingsAreSound, InCopy, Copied, BatchIsRead, InTable
  <2>2. CASE p = o
    BY <1>1, <2>2 DEF BatchIsRead, InCopy
  <2>3. CASE p # o
    <3>1. /\ opening'[p] = opening[p] /\ BatchIsRead(opening[p], Len(rows), cut)
          /\ InCopy(opening[p]) => Copied(rows, unread, opening[p])
      BY <1>1, <2>3 DEF MigrationInv, CopyingsAreSound
    <3>2. BatchIsRead(opening'[p], Len(rows'), cut')
      BY <1>2, <3>1 DEF BatchIsRead, InCopy
    <3>3. Copied(rows, unread, opening[p]) => Copied(rows', unread', opening[p])
      BY <1>3 DEF Copied
    <3>. QED BY <3>1, <3>2, <3>3
  <2>. QED BY <2>2, <2>3
<1>5. OpenAfterRename'
  BY <1>1 DEF MigrationInv, OpenAfterRename
<1>. QED BY <1>4, <1>5 DEF MigrationInv

\* The same when memories_v2 and facts stay as they are: what goes on copying, or
\* goes on to rename, must have a reason.
LEMMA QuietMoves ==
  ASSUME MigrationInv, NEW o \in Openers, NEW next \in OpeningRecord,
         opening' = [opening EXCEPT ![o] = next],
         UNCHANGED <<renamed, rows, unread>>,
         indexMade' \in BOOLEAN, cut' \in BOOLEAN, recopied' \in BOOLEAN,
         inIndex' \subseteq 1..Len(rows), cut => cut', recopied => recopied',
         next.at \in {"create", "open"} => renamed \/ cut',
         BatchIsRead(next, Len(rows'), cut'),
         InCopy(next) =>
           \/ /\ Copying(o)
              /\ next.todo = opening[o].todo
              /\ next.offset = opening[o].offset /\ next.last = opening[o].last
           \/ /\ ~Copying(o) /\ next.todo = {} /\ next.offset = 0
              /\ ~recopied' => rows = <<>> /\ \A p \in Openers : ~Copying(p),
         ~cut' /\ ~renamed /\ Unfinished(o) => InCopy(next) \/ AllCopied(rows, unread),
         ~cut' /\ ~renamed /\ next.at = "rename" =>
           rows # <<>> \/ Reached(o, "rename") \/ AllCopied(rows, unread)
  PROVE  MigrationInv'
<1>1. /\ \A p \in Openers \ {o} : opening'[p] = opening[p]
      /\ opening'[o] = next
      /\ opening' \in [Openers -> OpeningRecord]
      /\ opening \in [Openers -> OpeningRecord]
      /\ rows \in Seq(FactIds \cup {NewMemory}) /\ Len(rows) \in Nat /\ FactCount \in Nat
      /\ renamed \in BOOLEAN /\ unread \subseteq FactIds
  BY PositionsInOrder DEF MigrationInv, MigrationForms
<1>2. MigrationForms'
  BY <1>1 DEF MigrationForms
<1>3. InCopy(next) => Copied(rows', unread', next)
  <2>1. SUFFICES ASSUME InCopy(next) PROVE Copied(rows, unread, next)
    BY DEF Copied, InTable
  <2>2. next.offset = 0 => Copied(rows, unread, next)
    <3>1. \A f \in FactIds : ~(Position(f) <= 0)
      BY <1>1, PositionsInOrder
    <3>. QED BY <3>1 DEF Copied
  <2>3. Copying(o) => Copied(rows, unread, opening[o])
    BY DEF MigrationInv, CopyingsAreSound, Copying, InCopy
  <2>. QED BY <2>1, <2>2, <2>3 DEF Copied
<1>5. AllCopied(rows', unread') <=> AllCopied(rows, unread)
  BY DEF AllCopied, InTable
<1>6. ASSUME NEW p \in Openers, p # o
      PROVE  /\ Copying(p)' <=> Copying(p)
             /\ Unfinished(p)' <=> Unfinished(p)
             /\ Reached(p, "rename")' <=> Reached(p, "rename")
  BY <1>1, <1>6 DEF Copying, Unfinished, Reached
<1>7. CopyingGoesOn'
  <2>1. SUFFICES ASSUME ~cut'
                 PROVE  IF renamed THEN AllCopied(rows, unread)
                        ELSE (rows # <<>> \/ \E p \in Openers : Reached(p, "rename")') =>
                               AllCopied(rows, unread) \/ \E p \in Openers : Unfinished(p)'
    BY <1>5 DEF CopyingGoesOn
  <2>2. IF renamed THEN AllCopied(rows, unread)
        ELSE (rows # <<>> \/ \E p \in Openers : Reached(p, "rename")) =>
               AllCopied(rows, unread) \/ \E p \in Openers : Unfinished(p)
    BY <2>1 DEF MigrationInv, CopyingGoesOn
  <2>3. CASE renamed \/ AllCopied(rows, unread)
    BY <2>2, <2>3
  <2>4. CASE ~renamed /\ ~AllCopied(rows, unread)
    <3>1. SUFFICES ASSUME rows # <<>> \/ \E p \in Openers : Reached(p, "rename")'
                   PROVE  \E p \in Openers : Unfinished(p)'
      BY <2>4
    <3>2. rows # <<>> \/ \E p \in Openers : Reached(p, "rename")
      BY <1>1, <1>6, <2>1, <2>4, <3>1 DEF Reached
    <3>3. PICK p \in Openers : Unfinished(p)
      BY <2>2, <2>4, <3>2
    <3>4. CASE p = o
      <4>1. InCopy(next) /\ Copying(o)
        BY <2>1, <2>4, <3>3, <3>4 DEF Unfinished
      <4>2. next.todo = opening[o].todo /\ next.offset = opening[o].offset
        BY <4>1
      <4>. QED BY <1>1, <3>3, <3>4, <4>1, <4>2 DEF Unfinished, Copying, InCopy
    <3>. QED BY <1>6, <3>3, <3>4
  <2>. QED BY <2>3, <2>4
<1>8. (~recopied => OneCopies)'
  <2>1. SUFFICES ASSUME ~recopied', OneCopies PROVE OneCopies'
    BY DEF MigrationInv
  <2>2. Copying(o)' => InCopy(next)
    BY <1>1 DEF Copying, InCopy
  <2>3. CopiedInOrder'
    BY <2>1 DEF OneCopies, CopiedInOrder
  <2>4. CASE Copying(o) \/ ~Copying(o)'
    <3>1. \A p \in Openers : Copying(p)' => Copying(p)
      BY <1>6, <2>4
    <3>2. \A p \in Openers : Copying(p)' => /\ opening'[p].todo = opening[p].todo
                                            /\ opening'[p].offset = opening[p].offset
                                            /\ opening'[p].last = opening[p].last
      BY <1>1, <2>1, <2>2, <2>4
    <3>3. \A p \in Openers : Copying(p)' => CopiedBefore(rows', opening'[p])
      BY <2>1, <3>1, <3>2 DEF OneCopies, CopiedBefore
    <3>. QED BY <2>1, <2>3, <3>1, <3>3 DEF OneCopies
  <2>5. CASE ~Copying(o) /\ Copying(o)'
    <3>1. rows = <<>> /\ \A p \in Openers : ~Copying(p)
      BY <2>1, <2>2, <2>5
    <3>2. \A p \in Openers : CopiedBefore(rows', opening'[p])
      BY <3>1 DEF CopiedBefore
    <3>. QED BY <1>6, <2>3, <3>1, <3>2 DEF OneCopies
  <2>. QED BY <2>4, <2>5
<1>9. Len(rows') >= Len(rows) /\ \A r \in 1..Len(rows) : rows'[r] = rows[r]
  BY <1>1
<1>. QED BY <1>2, <1>3, <1>7, <1>8, <1>9, OpeningMoves

LEMMA QuietSteps ==
  ASSUME MigrationInv, NEW o \in Openers,
         \/ LookForFacts(o) \/ CountFacts(o) \/ CountMemories(o)
         \/ SelectBatch(o) /\ renamed
         \/ SyncFact(o) \/ CreateIndex(o) \/ CloseStore(o)
  PROVE  MigrationInv'
<1> DEFINE w == opening[o]
<1>0. /\ w \in OpeningRecord /\ opening \in [Openers -> OpeningRecord]
      /\ renamed \in BOOLEAN /\ indexMade \in BOOLEAN /\ cut \in BOOLEAN /\ recopied \in BOOLEAN
      /\ inIndex \subseteq 1..Len(rows) /\ unread \subseteq FactIds
      /\ BatchIsRead(w, Len(rows), cut)
  BY DEF MigrationInv, MigrationForms, CopyingsAreSound
<1>1. /\ Closed.at = "closed" /\ Closed.todo = {} /\ Closed.offset = 0 /\ ~Closed.last
      /\ LoopLeft.at = "rename" /\ Closed \in OpeningRecord /\ LoopLeft \in OpeningRecord
  BY ClosedType DEF Closed, LoopLeft
<1>2. /\ BatchIsRead(Closed, Len(rows'), cut') /\ ~InCopy(Closed)
      /\ BatchIsRead(LoopLeft, Len(rows'), cut') /\ ~InCopy(LoopLeft)
  BY <1>1 DEF BatchIsRead, InCopy
<1>3. ASSUME NEW where \in {"count", "guard", "select", "rename", "create", "open"},
             MoveOn(o, where)
      PROVE  \E next \in OpeningRecord :
               /\ next.at = where
               /\ next.todo = w.todo /\ next.offset = w.offset /\ next.last = w.last
               /\ opening' = [opening EXCEPT ![o] = next]
  <2> DEFINE next == [w EXCEPT !.at = where]
  <2>1. /\ next \in OpeningRecord /\ next.at = where
        /\ next.todo = w.todo /\ next.offset = w.offset /\ next.last = w.last
    BY <1>0 DEF OpeningRecord
  <2>2. opening' = [opening EXCEPT ![o] = next]
    BY <1>0, <1>3 DEF MoveOn
  <2> HIDE DEF next
  <2>. QED BY <2>1, <2>2
<1> HIDE DEF w
<1>4. CASE LookForFacts(o)
  <2>1. /\ UNCHANGED <<renamed, rows, indexMade, inIndex, unread, recopied>>
        /\ w.at = "closed" /\ ~Copying(o) /\ ~Unfinished(o)
    BY <1>4 DEF LookForFacts, Reached, Copying, Unfinished, w
  <2>2. w.offset = 0 /\ w.todo = {} /\ ~w.last
    BY <1>0, <2>1 DEF BatchIsRead
  <2>3. \E where \in {"count", "create"} :
          /\ MoveOn(o, where) /\ cut' \in BOOLEAN /\ (cut => cut')
          /\ where = "create" => renamed \/ cut'
    <3>1. \/ ~renamed /\ MoveOn(o, "count") /\ cut' = cut
          \/ MoveOn(o, "create") /\ cut' = (cut \/ ~renamed)
      BY <1>4 DEF LookForFacts, Cut
    <3>2. CASE MoveOn(o, "count") /\ cut' = cut
      BY <1>0, <3>2
    <3>3. CASE MoveOn(o, "create") /\ cut' = (cut \/ ~renamed)
      BY <1>0, <3>3
    <3>. QED BY <3>1, <3>2, <3>3
  <2>4. PICK next \in OpeningRecord :
          /\ next.at \in {"count", "create"}
          /\ next.todo = {} /\ next.offset = 0 /\ ~next.last
          /\ opening' = [opening EXCEPT ![o] = next]
          /\ cut' \in BOOLEAN /\ (cut => cut') /\ (next.at = "create" => renamed \/ cut')
    BY <1>3, <2>2, <2>3
  <2>5. BatchIsRead(next, Len(rows'), cut') /\ ~InCopy(next)
    BY <2>4 DEF BatchIsRead, InCopy
  <2>. QED BY <1>0, <2>1, <2>4, <2>5, QuietMoves
<1>5. CASE CountFacts(o)
  <2>1. /\ UNCHANGED <<renamed, rows, indexMade, inIndex, unread, recopied>>
        /\ w.at = "count" /\ ~Copying(o) /\ ~Unfinished(o)
    BY <1>5 DEF CountFacts, Reached, Copying, Unfinished, w
  <2>2. w.offset = 0 /\ w.todo = {} /\ ~w.last
    BY <1>0, <2>1 DEF BatchIsRead
  <2>3. \E where \in {"guard", "rename"} :
          /\ MoveOn(o, where) /\ cut' \in BOOLEAN /\ (cut => cut')
          /\ where = "rename" => cut' \/ renamed \/ FactIds = {}
    <3> DEFINE some == ~renamed /\ FactIds # {}
    <3>1. (MoveOn(o, "guard") /\ cut' = cut) \/ (MoveOn(o, "rename") /\ cut' = (cut \/ some))
      BY <1>5 DEF CountFacts, Cut
    <3>2. CASE MoveOn(o, "guard") /\ cut' = cut
      BY <1>0, <3>2
    <3>3. CASE MoveOn(o, "rename") /\ cut' = (cut \/ some)
      BY <1>0, <3>3
    <3>. QED BY <3>1, <3>2, <3>3
  <2>4. PICK next \in OpeningRecord :
          /\ next.at \in {"guard", "rename"}
          /\ next.todo = {} /\ next.offset = 0 /\ ~next.last
          /\ opening' = [opening EXCEPT ![o] = next]
          /\ cut' \in BOOLEAN /\ (cut => cut')
          /\ next.at = "rename" => cut' \/ renamed \/ FactIds = {}
    BY <1>3, <2>2, <2>3
  <2>5. BatchIsRead(next, Len(rows'), cut') /\ ~InCopy(next)
    BY <2>4 DEF BatchIsRead, InCopy
  <2>6. FactIds = {} => AllCopied(rows, unread)
    BY DEF AllCopied
  <2>. QED BY <1>0, <2>1, <2>4, <2>5, <2>6, QuietMoves
<1>6. CASE CountMemories(o)
  <2>1. /\ UNCHANGED <<renamed, rows, indexMade, inIndex, unread, cut>>
        /\ w.at = "guard" /\ ~Copying(o) /\ ~Unfinished(o)
    BY <1>6 DEF CountMemories, Reached, Copying, Unfinished, w
  <2>2. w.offset = 0 /\ w.todo = {} /\ ~w.last
    BY <1>0, <2>1 DEF BatchIsRead
  <2>3. \E where \in {"select", "rename"} :
          /\ MoveOn(o, where) /\ recopied' \in BOOLEAN /\ (recopied => recopied')
          /\ where = "rename" => rows # <<>>
          /\ where = "select" /\ ~recopied' => rows = <<>> /\ \A p \in Openers : ~Copying(p)
    <3> DEFINE twice == rows # <<>> \/ \E p \in Openers : Copying(p)
    <3>1. \/ rows # <<>> /\ MoveOn(o, "rename") /\ recopied' = recopied
          \/ MoveOn(o, "select") /\ recopied' = (recopied \/ twice)
      BY <1>6 DEF CountMemories
    <3>2. CASE rows # <<>> /\ MoveOn(o, "rename") /\ recopied' = recopied
      BY <1>0, <3>2
    <3>3. CASE MoveOn(o, "select") /\ recopied' = (recopied \/ twice)
      BY <1>0, <3>3
    <3>. QED BY <3>1, <3>2, <3>3
  <2>4. PICK next \in OpeningRecord :
          /\ next.at \in {"select", "rename"}
          /\ next.todo = {} /\ next.offset = 0 /\ ~next.last
          /\ opening' = [opening EXCEPT ![o] = next]
          /\ recopied' \in BOOLEAN /\ (recopied => recopied')
          /\ next.at = "rename" => rows # <<>>
          /\ next.at = "select" /\ ~recopied' => rows = <<>> /\ \A p \in Openers : ~Copying(p)
    BY <1>3, <2>2, <2>3
  <2>5. BatchIsRead(next, Len(rows'), cut') /\ (InCopy(next) => next.at = "select")
    BY <2>4 DEF BatchIsRead, InCopy
  <2>. QED BY <1>0, <2>1, <2>4, <2>5, QuietMoves
<1>7. CASE SelectBatch(o) /\ renamed
  <2>1. /\ UNCHANGED <<renamed, rows, indexMade, inIndex, unread, recopied>>
        /\ opening' = [opening EXCEPT ![o] = Closed]
        /\ cut' \in BOOLEAN /\ (cut => cut') /\ (Unfinished(o) => cut')
    BY <1>0, <1>7 DEF SelectBatch, Cut
  <2>. QED BY <1>0, <1>1, <1>2, <2>1, QuietMoves
<1>8. CASE SyncFact(o)
  <2>1. /\ UNCHANGED <<renamed, rows, indexMade, unread, cut, recopied>>
        /\ w.at = "sync" /\ Copying(o) /\ InCopy(w)
        /\ inIndex' \in {inIndex} \cup (IF indexMade THEN {inIndex \cup {w.row}} ELSE {})
        /\ opening' = [opening EXCEPT ![o] =
             IF AfterRow(o) = "rename" THEN LoopLeft ELSE [@ EXCEPT !.at = AfterRow(o), !.row = 0]]
    BY <1>8 DEF SyncFact, migrationPast, Reached, Copying, InCopy, w
  <2>2. /\ w.row \in 1..Len(rows) /\ \A f \in w.todo : Position(f) <= w.offset
        /\ w.last => cut \/ FactCount <= w.offset
        /\ Copied(rows, unread, w)
    BY <1>0, <2>1 DEF BatchIsRead, MigrationInv, CopyingsAreSound, w
  <2>3. inIndex' \subseteq 1..Len(rows)
    BY <1>0, <2>1, <2>2
  <2>4. CASE AfterRow(o) = "rename"
    <3>1. w.todo = {} /\ w.last
      BY <2>4 DEF AfterRow, w
    <3>2. ~cut => AllCopied(rows, unread)
      <4>1. SUFFICES ASSUME ~cut, NEW f \in FactIds \ unread PROVE InTable(rows, f)
        BY DEF AllCopied
      <4>2. Position(f) <= w.offset
        <5>1. Position(f) \in 1..FactCount /\ FactCount \in Nat /\ w.offset \in Nat
          BY <1>0, PositionsInOrder DEF OpeningRecord
        <5>. QED BY <2>2, <3>1, <4>1, <5>1
      <4>. QED BY <2>2, <3>1, <4>2 DEF Copied
    <3>3. opening' = [opening EXCEPT ![o] = LoopLeft]
      BY <2>1, <2>4
    <3>. QED BY <1>0, <1>1, <1>2, <2>1, <2>3, <3>2, <3>3, QuietMoves
  <2>5. CASE AfterRow(o) # "rename"
    <3> DEFINE next == [w EXCEPT !.at = AfterRow(o), !.row = 0]
    <3>1. /\ AfterRow(o) \in {"insert", "select"}
          /\ AfterRow(o) = "insert" => w.todo # {}
          /\ AfterRow(o) = "select" => w.todo = {} /\ ~w.last
      BY <2>5 DEF AfterRow, w
    <3>2. /\ next \in OpeningRecord /\ next.at = AfterRow(o)
          /\ next.todo = w.todo /\ next.offset = w.offset /\ next.last = w.last
      BY <1>0, <3>1 DEF OpeningRecord
    <3>3. opening' = [opening EXCEPT ![o] = next]
      BY <1>0, <2>1, <2>5 DEF w
    <3> HIDE DEF next
    <3>4. BatchIsRead(next, Len(rows'), cut') /\ InCopy(next)
      BY <2>1, <2>2, <3>1, <3>2 DEF BatchIsRead, InCopy
    <3>5. next.todo = opening[o].todo /\ next.offset = opening[o].offset
          /\ next.last = opening[o].last /\ next.at \in {"insert", "select"}
      BY <3>1, <3>2 DEF w
    <3>. QED BY <1>0, <2>1, <2>3, <3>2, <3>3, <3>4, <3>5, QuietMoves
  <2>. QED BY <2>4, <2>5
<1>9. CASE CreateIndex(o)
  <2>1. /\ UNCHANGED <<renamed, rows, inIndex, unread, cut, recopied>> /\ indexMade' = TRUE
        /\ MoveOn(o, "open") /\ ~Unfinished(o) /\ (renamed \/ cut)
    BY <1>9 DEF CreateIndex, migrationPast, Reached, Unfinished, Copying, MigrationInv,
                OpenAfterRename
  <2>2. PICK next \in OpeningRecord :
               next.at = "open" /\ opening' = [opening EXCEPT ![o] = next]
    BY <1>3, <2>1
  <2>3. BatchIsRead(next, Len(rows'), cut') /\ ~InCopy(next)
    BY <2>2 DEF BatchIsRead, InCopy
  <2>. QED BY <1>0, <2>1, <2>2, <2>3, QuietMoves
<1>10. CASE CloseStore(o)
  <2>1. /\ UNCHANGED <<renamed, rows, indexMade, inIndex, unread, recopied>>
        /\ opening' = [opening EXCEPT ![o] = Closed]
        /\ cut' \in BOOLEAN /\ (cut => cut') /\ (Unfinished(o) => cut')
    BY <1>0, <1>10 DEF CloseStore, Cut
  <2>. QED BY <1>0, <1>1, <1>2, <2>1, QuietMoves
<1>. QED BY <1>4, <1>5, <1>6, <1>7, <1>8, <1>9, <1>10

\* A batch: what it reads comes after what is copied, and what it cannot read is unread.
LEMMA ReadBatchStep ==
  ASSUME MigrationInv, NEW o \in Openers, SelectBatch(o), ~renamed
  PROVE  MigrationInv'
<1> DEFINE w == opening[o]
           batch == BatchAt(w.offset)
           end == w.offset + BatchSize
<1>0. /\ w \in OpeningRecord /\ opening \in [Openers -> OpeningRecord] /\ w.at = "select"
      /\ rows \in Seq(FactIds \cup {NewMemory}) /\ cut \in BOOLEAN
      /\ unread \subseteq FactIds /\ Copying(o) /\ MigrationForms
      /\ w.todo = {} /\ ~w.last /\ Copied(rows, unread, w)
  BY DEF SelectBatch, Reached, Copying, InCopy, MigrationInv, MigrationForms, CopyingsAreSound,
         BatchIsRead
<1>1. w.offset \in Nat /\ BatchSize \in Nat \ {0} /\ FactCount \in Nat /\ end \in Nat
  BY <1>0, MigrationAssumption, PositionsInOrder DEF OpeningRecord
<1>2. PICK failed \in SUBSET (batch \cap Unreadable) :
        LET read == batch \ failed
            short == Cardinality(read) < BatchSize
        IN /\ opening' = [opening EXCEPT ![o] =
                IF read = {} THEN LoopLeft
                ELSE [at |-> "insert", offset |-> end, last |-> short, todo |-> read, row |-> 0]]
           /\ unread' = unread \cup failed
           /\ Cut(short /\ end < FactCount)
  BY DEF SelectBatch, ReadBatch
<1> DEFINE read == batch \ failed
           short == Cardinality(read) < BatchSize
           next == IF read = {} THEN LoopLeft
                   ELSE [at |-> "insert", offset |-> end, last |-> short, todo |-> read, row |-> 0]
<1>3. /\ opening' = [opening EXCEPT ![o] = next]
      /\ unread' = unread \cup failed
      /\ cut' = (cut \/ (short /\ end < FactCount))
      /\ UNCHANGED <<renamed, rows, indexMade, inIndex, recopied>>
  BY <1>2 DEF SelectBatch, Cut
<1>4. batch \subseteq FactIds /\ failed \subseteq FactIds /\ read \subseteq FactIds
  BY DEF BatchAt
<1>5. \A f \in FactIds : /\ Position(f) \in Nat
                         /\ f \in batch <=> w.offset < Position(f) /\ Position(f) <= end
  BY <1>1, PositionsInOrder DEF BatchAt
<1>6. short \in BOOLEAN /\ (read = {} => short)
  <2>1. Cardinality({}) = 0
    BY FS_EmptySet
  <2>. QED BY <1>1, <2>1
<1>7. next \in OpeningRecord
  BY <1>1, <1>4, <1>6, ClosedType DEF OpeningRecord
<1>8. /\ read = {} => next = LoopLeft /\ LoopLeft.at = "rename"
      /\ read # {} => /\ next.at = "insert" /\ next.todo = read /\ next.offset = end
                      /\ next.last = short
  BY DEF LoopLeft
<1>9. \A f \in FactIds \ (unread' \cup read) : Position(f) <= end => InTable(rows, f)
  <2>1. SUFFICES ASSUME NEW f \in FactIds \ (unread' \cup read), Position(f) <= end
                 PROVE  InTable(rows, f)
    OBVIOUS
  <2>2. f \notin batch
    BY <1>3, <2>1
  <2>3. Position(f) <= w.offset
    BY <1>1, <1>5, <2>1, <2>2
  <2>. QED BY <1>0, <1>3, <2>1, <2>3 DEF Copied
<1> HIDE DEF next, read, short, end, batch, w
<1>10. ~cut' /\ short => FactCount <= end
  <2>1. ~cut' => ~(short /\ end < FactCount)
    BY <1>3
  <2>2. end < FactCount \/ FactCount <= end
    BY <1>1
  <2>. QED BY <2>1, <2>2
<1>11. /\ opening' \in [Openers -> OpeningRecord] /\ opening'[o] = next
       /\ \A p \in Openers \ {o} : opening'[p] = opening[p]
  BY <1>0, <1>3, <1>7
<1>12. MigrationForms'
  BY <1>0, <1>3, <1>4, <1>6, <1>11 DEF MigrationForms
<1>13. BatchIsRead(next, Len(rows'), cut')
  <2>1. CASE read = {}
    BY <1>8, <2>1 DEF BatchIsRead, InCopy
  <2>2. CASE read # {}
    <3>1. \A f \in next.todo : Position(f) <= next.offset
      BY <1>4, <1>5, <1>8, <2>2 DEF read
    <3>2. next.last => cut' \/ FactCount <= next.offset
      BY <1>8, <1>10, <2>2
    <3>. QED BY <1>8, <2>2, <3>1, <3>2 DEF BatchIsRead, InCopy
  <2>. QED BY <2>1, <2>2
<1>14. InCopy(next) => Copied(rows', unread', next)
  BY <1>3, <1>8, <1>9 DEF InCopy, Copied, InTable
<1>15. CopyingGoesOn'
  <2>1. SUFFICES ASSUME ~cut' PROVE AllCopied(rows', unread') \/ Unfinished(o)'
    BY <1>3 DEF CopyingGoesOn
  <2>2. CASE read = {}
    <3>1. FactCount <= end
      BY <1>6, <1>10, <2>1, <2>2
    <3>2. \A f \in FactIds : Position(f) <= end
      BY <1>1, <3>1, PositionsInOrder
    <3>. QED BY <1>3, <1>9, <2>2, <3>2 DEF AllCopied, InTable
  <2>3. CASE read # {}
    BY <1>8, <1>11, <2>3 DEF Unfinished, Copying
  <2>. QED BY <2>2, <2>3
<1>16. (~recopied => OneCopies)'
  <2>1. SUFFICES ASSUME OneCopies PROVE OneCopies'
    BY <1>3 DEF MigrationInv
  <2>2. \A p \in Openers : Copying(p) => p = o
    BY <1>0, <2>1 DEF OneCopies
  <2>3. \A p \in Openers : Copying(p)' => p = o
    BY <1>11, <2>2 DEF Copying
  <2>4. read # {} => CopiedBefore(rows, next)
    <3>1. SUFFICES ASSUME read # {}, NEW r \in 1..Len(rows), rows[r] # NewMemory
                   PROVE  /\ \A g \in read : rows[r] < g
                          /\ Position(rows[r]) <= end
      BY <1>8 DEF CopiedBefore
    <3>2. rows[r] \in FactIds /\ Position(rows[r]) <= w.offset
      BY <1>0, <2>1, <3>1 DEF OneCopies, CopiedBefore, w
    <3>3. ASSUME NEW g \in read PROVE rows[r] < g
      <4>1. g \in FactIds /\ w.offset < Position(g)
        BY <1>4, <1>5, <3>3 DEF read
      <4>2. Position(rows[r]) < Position(g)
        BY <1>1, <1>5, <3>2, <4>1
      <4>3. rows[r] \in Nat /\ g \in Nat
        BY <3>2, <4>1, PositionsInOrder
      <4>4. ~(g < rows[r])
        BY <1>5, <3>2, <4>1, <4>2, PositionsInOrder
      <4>5. g # rows[r]
        BY <1>5, <3>2, <4>1, <4>2
      <4>. QED BY <4>3, <4>4, <4>5
    <3>4. Position(rows[r]) <= end
      BY <1>1, <1>5, <3>2 DEF end
    <3>. QED BY <3>3, <3>4
  <2>5. Copying(o)' => read # {}
    BY <1>8, <1>11 DEF Copying
  <2>6. CopiedInOrder'
    BY <1>3, <2>1 DEF OneCopies, CopiedInOrder
  <2>7. \A p \in Openers : Copying(p)' => CopiedBefore(rows', opening'[p])
    BY <1>3, <1>11, <2>3, <2>4, <2>5 DEF CopiedBefore
  <2>. QED BY <2>3, <2>6, <2>7 DEF OneCopies
<1>17. /\ Len(rows') >= Len(rows) /\ \A r \in 1..Len(rows) : rows'[r] = rows[r]
       /\ unread \subseteq unread' /\ (cut => cut') /\ next.at \notin {"create", "open"}
  BY <1>0, <1>3, <1>8
<1>18. /\ renamed => renamed'
       /\ next.at \in {"create", "open"} => renamed' \/ cut'
  <2>1. next.at \in {"create", "open"} => renamed' \/ cut'
    BY <1>17
  <2>2. renamed => renamed'
    BY <1>3
  <2>. QED BY <2>1, <2>2
<1>. QED BY <1>3, <1>7, <1>12, <1>13, <1>14, <1>15, <1>16, <1>17, <1>18, OpeningMoves

\* The first fact of the batch comes after all that is copied, and after it what is left.
LEMMA InsertFactStep ==
  ASSUME MigrationInv, NEW o \in Openers, InsertFact(o)
  PROVE  MigrationInv'
<1> DEFINE w == opening[o]
<1>0. /\ w \in OpeningRecord /\ opening \in [Openers -> OpeningRecord] /\ w.at = "insert"
      /\ rows \in Seq(FactIds \cup {NewMemory}) /\ Len(rows) \in Nat
      /\ Copying(o) /\ MigrationForms /\ InCopy(w)
      /\ BatchIsRead(w, Len(rows), cut) /\ Copied(rows, unread, w)
  <2>1. MigrationForms /\ CopyingsAreSound
    BY DEF MigrationInv
  <2>2. /\ w \in OpeningRecord /\ opening \in [Openers -> OpeningRecord]
        /\ rows \in Seq(FactIds \cup {NewMemory}) /\ Len(rows) \in Nat
    BY <2>1 DEF MigrationForms
  <2>3. w.at = "insert" /\ Copying(o) /\ InCopy(w)
    BY DEF InsertFact, Reached, Copying, InCopy
  <2>4. BatchIsRead(w, Len(rows), cut) /\ Copied(rows, unread, w)
    BY <2>1, <2>3 DEF CopyingsAreSound
  <2>. QED BY <2>1, <2>2, <2>3, <2>4
<1>1. /\ w.todo # {} /\ w.todo \subseteq FactIds /\ w.offset \in Nat
      /\ \A g \in w.todo : Position(g) <= w.offset
      /\ w.last => cut \/ FactCount <= w.offset
  BY <1>0 DEF BatchIsRead, OpeningRecord
<1>2. PICK f \in w.todo : /\ \A g \in w.todo : f <= g
                          /\ f = CHOOSE g \in w.todo : \A h \in w.todo : g <= h
  <2>1. w.todo \subseteq Nat
    BY <1>1, PositionsInOrder
  <2>2. \E g \in w.todo : \A h \in w.todo : g <= h
    <3> HIDE DEF w
    <3>. QED BY <1>1, <2>1, LeastNat
  <2>. QED BY <2>2
<1> DEFINE next == [w EXCEPT !.at = "sync", !.todo = w.todo \ {f}, !.row = Len(rows) + 1]
<1>3. /\ rows' = Append(rows, f)
      /\ opening' = [opening EXCEPT ![o] = next]
      /\ UNCHANGED <<renamed, indexMade, inIndex, unread, cut, recopied>>
  BY <1>0, <1>2 DEF InsertFact, migrationPast
<1>4. /\ next \in OpeningRecord /\ next.at = "sync" /\ next.todo = w.todo \ {f}
      /\ next.row = Len(rows) + 1 /\ next.offset = w.offset /\ next.last = w.last
  <2>1. Len(rows) + 1 \in Nat /\ w.todo \ {f} \in SUBSET FactIds
    BY <1>0, <1>1
  <2>. QED BY <1>0, <2>1 DEF OpeningRecord
<1> HIDE DEF next, w
<1>5. /\ f \in FactIds /\ f \in Nat /\ f # NewMemory /\ Position(f) <= w.offset
      /\ \A g \in w.todo \ {f} : f < g
  <2>1. w.todo \subseteq Nat
    BY <1>1, PositionsInOrder
  <2>. QED BY <1>1, <1>2, <2>1, PositionsInOrder
<1>6. /\ rows' \in Seq(FactIds \cup {NewMemory}) /\ Len(rows') = Len(rows) + 1
      /\ rows'[Len(rows) + 1] = f
      /\ \A r \in 1..Len(rows) : rows'[r] = rows[r]
  BY <1>0, <1>3, <1>5
<1>7. /\ opening' \in [Openers -> OpeningRecord] /\ opening'[o] = next
      /\ \A p \in Openers \ {o} : opening'[p] = opening[p]
  BY <1>0, <1>3, <1>4
<1>8. /\ \A r \in 1..(Len(rows) + 1) : r \in 1..Len(rows) \/ r = Len(rows) + 1
      /\ \A r \in 1..Len(rows) : r \in 1..(Len(rows) + 1)
      /\ Len(rows) + 1 \in 1..(Len(rows) + 1)
  BY <1>0
<1>9. MigrationForms'
  BY <1>0, <1>3, <1>6, <1>7, <1>8 DEF MigrationForms
<1>10. InTable(rows', f) /\ \A g : InTable(rows, g) => InTable(rows', g)
  BY <1>6, <1>8 DEF InTable
<1>11. BatchIsRead(next, Len(rows'), cut')
  BY <1>1, <1>3, <1>4, <1>6, <1>8 DEF BatchIsRead, InCopy
<1>12. Copied(rows', unread', next)
  <2>1. SUFFICES ASSUME NEW g \in FactIds \ (unread \cup next.todo), Position(g) <= w.offset
                 PROVE  InTable(rows', g)
    BY <1>3, <1>4 DEF Copied
  <2>2. g = f \/ g \notin w.todo
    BY <1>4, <2>1
  <2>3. g \notin w.todo => InTable(rows, g)
    BY <1>0, <2>1 DEF Copied
  <2>. QED BY <1>10, <2>2, <2>3
<1>13. CopyingGoesOn'
  <2>1. AllCopied(rows, unread) => AllCopied(rows', unread')
    BY <1>3, <1>10 DEF AllCopied
  <2>2. Unfinished(o)' \/ AllCopied(rows', unread')
    <3>1. CASE next.todo # {} \/ next.offset < FactCount
      BY <1>4, <1>7, <3>1 DEF Unfinished, Copying
    <3>2. CASE next.todo = {} /\ ~(next.offset < FactCount)
      <4>1. \A g \in FactIds : Position(g) <= next.offset
        <5>1. next.offset \in Nat /\ FactCount \in Nat
          BY <1>1, <1>4, PositionsInOrder
        <5>. QED BY <3>2, <5>1, PositionsInOrder
      <4>. QED BY <1>12, <3>2, <4>1 DEF Copied, AllCopied
    <3>. QED BY <3>1, <3>2
  <2>3. renamed /\ ~cut => AllCopied(rows, unread)
    BY DEF MigrationInv, CopyingGoesOn
  <2>. QED BY <1>3, <2>1, <2>2, <2>3 DEF CopyingGoesOn
<1>14. (~recopied => OneCopies)'
  <2>1. SUFFICES ASSUME OneCopies PROVE OneCopies'
    BY <1>3 DEF MigrationInv
  <2>2. /\ \A p \in Openers : Copying(p) => p = o
        /\ CopiedBefore(rows, w) /\ CopiedInOrder
    BY <1>0, <2>1 DEF OneCopies, w
  <2>3. \A p \in Openers : Copying(p)' => p = o
    BY <1>7, <2>2 DEF Copying
  <2>4. \A r \in 1..Len(rows) : rows[r] < f
    <3>1. TAKE r \in 1..Len(rows)
    <3>2. CASE rows[r] = NewMemory
      BY <1>5, <3>2 DEF NewMemory
    <3>3. CASE rows[r] # NewMemory
      BY <1>2, <2>2, <3>3 DEF CopiedBefore
    <3>. QED BY <3>2, <3>3
  <2>5. CopiedBefore(rows', next)
    <3>1. SUFFICES ASSUME NEW r \in 1..Len(rows'), rows'[r] # NewMemory
                   PROVE  /\ \A g \in next.todo : rows'[r] < g
                          /\ ~next.last => Position(rows'[r]) <= next.offset
      BY DEF CopiedBefore
    <3>2. CASE r = Len(rows) + 1
      BY <1>4, <1>5, <1>6, <3>2
    <3>3. CASE r \in 1..Len(rows)
      <4>1. rows'[r] = rows[r]
        BY <1>6, <3>3
      <4>. QED BY <1>4, <2>2, <3>1, <3>3, <4>1 DEF CopiedBefore
    <3>. QED BY <1>6, <1>8, <3>1, <3>2, <3>3
  <2>6. CopiedInOrder'
    <3>1. SUFFICES ASSUME NEW s \in 1..Len(rows'), rows'[s] # NewMemory
                   PROVE  /\ \A r \in 1..(s - 1) : rows'[r] < rows'[s]
                          /\ \A g \in FactIds \ unread :
                               g < rows'[s] => \E r \in 1..(s - 1) : rows'[r] = g
      BY <1>3 DEF CopiedInOrder
    <3>2. CASE s = Len(rows) + 1
      <4>1. s - 1 = Len(rows) /\ rows'[s] = f
        BY <1>0, <1>6, <3>2
      <4>2. \A r \in 1..(s - 1) : rows'[r] < rows'[s]
        BY <1>6, <2>4, <4>1
      <4>3. ASSUME NEW g \in FactIds \ unread, g < f PROVE \E r \in 1..(s - 1) : rows'[r] = g
        <5>1. g \in Nat /\ Position(g) < Position(f) /\ Position(g) \in Nat /\ Position(f) \in Nat
          BY <1>5, <4>3, PositionsInOrder
        <5>2. g \notin w.todo
          BY <1>2, <1>5, <4>3, <5>1
        <5>3. Position(g) <= w.offset
          BY <1>1, <1>5, <5>1
        <5>4. InTable(rows, g)
          BY <1>0, <4>3, <5>2, <5>3 DEF Copied
        <5>. QED BY <1>6, <4>1, <5>4 DEF InTable
      <4>. QED BY <4>1, <4>2, <4>3
    <3>3. CASE s \in 1..Len(rows)
      <4>1. rows'[s] = rows[s] /\ \A r \in 1..(s - 1) : r \in 1..Len(rows) /\ rows'[r] = rows[r]
        BY <1>0, <1>6, <3>3
      <4>2. /\ \A r \in 1..(s - 1) : rows[r] < rows[s]
            /\ \A g \in FactIds \ unread : g < rows[s] => \E r \in 1..(s - 1) : rows[r] = g
        BY <2>2, <3>1, <3>3, <4>1 DEF CopiedInOrder
      <4>. QED BY <4>1, <4>2
    <3>. QED BY <1>6, <1>8, <3>1, <3>2, <3>3
  <2>7. \A p \in Openers : Copying(p)' => CopiedBefore(rows', opening'[p])
    BY <1>7, <2>3, <2>5
  <2>. QED BY <2>3, <2>6, <2>7 DEF OneCopies
<1>15. Len(rows') >= Len(rows)
  BY <1>0, <1>6
<1>. QED BY <1>3, <1>4, <1>6, <1>9, <1>11, <1>12, <1>13, <1>14, <1>15, OpeningMoves

LEMMA RenameFactsStep ==
  ASSUME MigrationInv, NEW o \in Openers, RenameFacts(o)
  PROVE  MigrationInv'
<1> DEFINE next == IF renamed THEN Closed ELSE [Closed EXCEPT !.at = "create"]
<1>0. /\ MigrationForms /\ opening \in [Openers -> OpeningRecord] /\ Len(rows) \in Nat
  BY DEF MigrationInv, MigrationForms
<1>1. /\ next \in OpeningRecord /\ next.at \in {"closed", "create"}
      /\ next.todo = {} /\ next.offset = 0 /\ ~next.last
  BY DEF Closed, OpeningRecord
<1>2. /\ opening' = [opening EXCEPT ![o] = next]
      /\ renamed' = TRUE
      /\ cut' = (cut \/ \E other \in Openers : Unfinished(other))
      /\ UNCHANGED <<rows, indexMade, inIndex, unread, recopied>>
      /\ Reached(o, "rename")
  BY DEF RenameFacts, Cut
<1> HIDE DEF next
<1>3. /\ opening' \in [Openers -> OpeningRecord] /\ opening'[o] = next
      /\ \A p \in Openers \ {o} : opening'[p] = opening[p]
  BY <1>0, <1>1, <1>2
<1>4. MigrationForms'
  BY <1>0, <1>2, <1>3 DEF MigrationForms
<1>5. CopyingGoesOn'
  <2>1. ~cut' => AllCopied(rows, unread)
    BY <1>2 DEF MigrationInv, CopyingGoesOn
  <2>. QED BY <1>2, <2>1 DEF CopyingGoesOn
<1>6. (~recopied => OneCopies)'
  <2>1. SUFFICES ASSUME OneCopies PROVE OneCopies'
    BY <1>2 DEF MigrationInv
  <2>2. \A p \in Openers : Copying(p)' => Copying(p) /\ opening'[p] = opening[p]
    BY <1>1, <1>3 DEF Copying
  <2>3. CopiedInOrder'
    BY <1>2, <2>1 DEF OneCopies, CopiedInOrder
  <2>4. \A p \in Openers : Copying(p)' => CopiedBefore(rows', opening'[p])
    BY <1>2, <2>1, <2>2 DEF OneCopies, CopiedBefore
  <2>. QED BY <2>1, <2>2, <2>3, <2>4 DEF OneCopies
<1>7. Len(rows') >= Len(rows) /\ \A r \in 1..Len(rows) : rows'[r] = rows[r]
  BY <1>0, <1>2
<1>8. BatchIsRead(next, Len(rows'), cut') /\ ~InCopy(next)
  BY <1>1 DEF BatchIsRead, InCopy
<1>. QED BY <1>1, <1>2, <1>4, <1>5, <1>6, <1>7, <1>8, OpeningMoves

LEMMA RememberStep ==
  ASSUME MigrationInv, NEW o \in Openers, Remember(o)
  PROVE  MigrationInv'
<1> DEFINE next == opening[o]
<1>0. /\ MigrationForms /\ opening \in [Openers -> OpeningRecord] /\ next \in OpeningRecord
      /\ rows \in Seq(FactIds \cup {NewMemory}) /\ Len(rows) \in Nat
      /\ inIndex \subseteq 1..Len(rows)
  BY DEF MigrationInv, MigrationForms
<1>1. /\ rows' = Append(rows, NewMemory)
      /\ inIndex' \in {inIndex, inIndex \cup {Len(rows) + 1}}
      /\ UNCHANGED <<renamed, indexMade, opening, unread, cut, recopied>>
      /\ next.at = "open" /\ (renamed \/ cut)
  BY DEF Remember, migrationPast, Reached, MigrationInv, OpenAfterRename
<1>2. opening' = [opening EXCEPT ![o] = next]
  BY <1>0, <1>1
<1> HIDE DEF next
<1>3. /\ rows' \in Seq(FactIds \cup {NewMemory}) /\ Len(rows') = Len(rows) + 1
      /\ rows'[Len(rows) + 1] = NewMemory
      /\ \A r \in 1..Len(rows) : rows'[r] = rows[r]
  BY <1>0, <1>1
<1>4. /\ \A r \in 1..(Len(rows) + 1) : r \in 1..Len(rows) \/ r = Len(rows) + 1
      /\ \A r \in 1..Len(rows) : r \in 1..(Len(rows) + 1)
      /\ Len(rows) + 1 \in 1..(Len(rows) + 1)
  BY <1>0
<1>5. MigrationForms'
  BY <1>0, <1>1, <1>3, <1>4 DEF MigrationForms
<1>6. CopyingGoesOn'
  <2>1. AllCopied(rows, unread) => AllCopied(rows', unread')
    BY <1>1, <1>3, <1>4 DEF AllCopied, InTable
  <2>2. ~cut => AllCopied(rows, unread)
    BY <1>1 DEF MigrationInv, CopyingGoesOn
  <2>. QED BY <1>1, <2>1, <2>2 DEF CopyingGoesOn
<1>7. (~recopied => OneCopies)'
  <2>1. SUFFICES ASSUME OneCopies PROVE OneCopies'
    BY <1>1 DEF MigrationInv
  <2>2. \A p \in Openers : Copying(p)' <=> Copying(p)
    BY <1>1 DEF Copying
  <2>3. \A r \in 1..Len(rows') : rows'[r] # NewMemory => r \in 1..Len(rows) /\ rows'[r] = rows[r]
    BY <1>3, <1>4
  <2>4. \A p \in Openers : Copying(p)' => CopiedBefore(rows', opening'[p])
    BY <1>1, <2>1, <2>2, <2>3 DEF OneCopies, CopiedBefore
  <2>5. CopiedInOrder'
    <3>1. SUFFICES ASSUME NEW s \in 1..Len(rows), rows[s] # NewMemory
                   PROVE  /\ \A r \in 1..(s - 1) : rows'[r] < rows[s]
                          /\ \A g \in FactIds \ unread :
                               g < rows[s] => \E r \in 1..(s - 1) : rows'[r] = g
      BY <1>1, <2>3 DEF CopiedInOrder
    <3>2. \A r \in 1..(s - 1) : r \in 1..Len(rows) /\ rows'[r] = rows[r]
      BY <1>0, <1>3
    <3>3. /\ \A r \in 1..(s - 1) : rows[r] < rows[s]
          /\ \A g \in FactIds \ unread : g < rows[s] => \E r \in 1..(s - 1) : rows[r] = g
      BY <2>1, <3>1 DEF OneCopies, CopiedInOrder
    <3>. QED BY <3>2, <3>3
  <2>. QED BY <2>1, <2>2, <2>4, <2>5 DEF OneCopies
<1>8. Len(rows') >= Len(rows)
  BY <1>0, <1>3
<1>9. BatchIsRead(next, Len(rows'), cut') /\ ~InCopy(next)
  BY <1>1 DEF BatchIsRead, InCopy
<1>. QED BY <1>0, <1>1, <1>2, <1>3, <1>5, <1>6, <1>7, <1>8, <1>9, OpeningMoves

LEMMA NextMigration == MigrationInv /\ [MigrationNext]_migrationVars => MigrationInv'
<1> SUFFICES ASSUME MigrationInv, [MigrationNext]_migrationVars PROVE MigrationInv'
  OBVIOUS
<1>1. CASE UNCHANGED migrationVars
  BY <1>1 DEF migrationVars, migrationPast, MigrationInv, MigrationForms, OpenAfterRename,
              CopyingsAreSound, BatchIsRead, InCopy, Copied, CopyingGoesOn, AllCopied, InTable,
              OneCopies, CopiedBefore, CopiedInOrder, Reached, Copying, Unfinished
<1>2. ASSUME NEW o \in Openers, SelectBatch(o) PROVE MigrationInv'
  BY <1>2, QuietSteps, ReadBatchStep
<1>. QED BY <1>1, <1>2, QuietSteps, InsertFactStep, RenameFactsStep, RememberStep DEF MigrationNext

\* The tables and the openings keep their types, for any facts and batch size.
THEOREM MigrationTypeCorrect == MigrationSpec => []MigrationTypeOK
BY MigrationInvTypes, InitMigration, NextMigration, PTL DEF MigrationSpec

\* However many openings copy, fail and rename at once, and whatever they cannot read or
\* count: memories_v2 holds the first facts once and in their order unless they were
\* copied to a table that had rows or twice at once, and when facts is out of the way it
\* holds all that could be read unless the facts were cut off.
THEOREM FactsAreKept == MigrationSpec => []MigrationKeepsFacts
<1>1. MigrationInv => MigrationKeepsFacts
  BY DEF MigrationInv, CopyingGoesOn, AllCopied, InTable, OneCopies, MigrationKeepsFacts
<1>. QED BY <1>1, InitMigration, NextMigration, PTL DEF MigrationSpec

-----------------------------------------------------------------------------
(***************************************************************************)
(* The history of a skill tells no lie, with and without foreign keys, and *)
(* what it misses was lost by a transaction that committed a stale         *)
(* snapshot.                                                               *)
(***************************************************************************)

(* Types.                                                                  *)

LEMMA IdleType == OpType(NoWork)
BY DEF OpType

LEMMA AdvanceType ==
  ASSUME SkillsTypeOK, NEW o \in Operations, NEW next, OpType(next), Advance(o, next)
  PROVE  DOMAIN op' = Operations /\ \A x \in Operations : OpType(op'[x])
<1>1. op' = [op EXCEPT ![o] = next] /\ DOMAIN op = Operations
  BY DEF Advance, SkillsTypeOK
<1>2. DOMAIN op' = Operations /\ \A x \in Operations : op'[x] = IF x = o THEN next ELSE op[x]
  BY <1>1
<1>. QED BY <1>2 DEF SkillsTypeOK

\* An existing skill is a row of the table.
LEMMA ExistsType ==
  ASSUME SkillsTypeOK, NEW id, Exists(id)
  PROVE  /\ id \in Nat /\ id \in 1..Len(skills)
         /\ skills[id] \in Skill
         /\ LiveVersion(id) \in Version
<1>1. id \in 1..Len(skills) /\ skills[id] # Deleted /\ skills \in Seq(Skill \cup {Deleted})
  BY DEF Exists, SkillIds, SkillsTypeOK
<1>2. id \in Nat /\ skills[id] \in Skill
  BY <1>1
<1>. QED BY <1>1, <1>2 DEF LiveVersion, Skill, Version

\* What an operation holds before its transaction.
LEMMA BeforeCommit ==
  ASSUME SkillsTypeOK, NEW o \in Operations, op[o].at \in {"save", "restore"}
  PROVE  /\ op[o].skill_id \in Nat
         /\ op[o].new \in Procedures
         /\ op[o].old \in Version
         /\ op[o].old.version \in Nat
         /\ op[o].at = "restore" => op[o].target \in Nat
BY DEF SkillsTypeOK, OpType, NoWork, Version

\* A commit replaces one row and appends one snapshot.
LEMMA CommitFacts ==
  ASSUME SkillsTypeOK, NEW o, NEW id, Exists(id), NEW old \in Version, NEW v \in Nat,
         NEW p \in Procedures, Commit(o, id, old, v, p)
  PROVE  /\ skills' \in Seq(Skill \cup {Deleted})
         /\ Len(skills') = Len(skills)
         /\ \A x \in 1..Len(skills) : x # id => skills'[x] = skills[x]
         /\ skills'[id].version = v /\ skills'[id].procedure = p
         /\ skills'[id] \in Skill
         /\ versions' \in Seq(Version)
         /\ Len(versions') = Len(versions) + 1
         /\ \A i \in 1..Len(versions) : versions'[i] = versions[i]
         /\ versions'[Len(versions) + 1] = old
<1>1. skills \in Seq(Skill \cup {Deleted}) /\ versions \in Seq(Version)
  BY DEF SkillsTypeOK
<1>2. id \in 1..Len(skills) /\ skills[id] \in Skill
  BY ExistsType
<1> DEFINE row == [skills[id] EXCEPT !.version = v, !.procedure = p]
<1>3. row \in Skill /\ row.version = v /\ row.procedure = p
  BY <1>2 DEF Skill
<1>4. skills' = [skills EXCEPT ![id] = row]
  BY <1>1, <1>2 DEF Commit, Skill
<1>5. versions' = Append(versions, old)
  BY DEF Commit
<1>. HIDE DEF row
<1>6. skills' \in Seq(Skill \cup {Deleted}) /\ Len(skills') = Len(skills)
  BY <1>1, <1>2, <1>3, <1>4
<1>7. skills'[id] = row /\ \A x \in 1..Len(skills) : x # id => skills'[x] = skills[x]
  BY <1>1, <1>2, <1>4
<1>8. /\ versions' \in Seq(Version) /\ Len(versions') = Len(versions) + 1
      /\ \A i \in 1..Len(versions) : versions'[i] = versions[i]
      /\ versions'[Len(versions) + 1] = old
  BY <1>1, <1>5
<1>. QED BY <1>3, <1>6, <1>7, <1>8 DEF row

LEMMA CommitType ==
  ASSUME SkillsTypeOK, NEW o \in Operations, NEW id, Exists(id), NEW old \in Version,
         NEW v \in Nat, NEW p \in Procedures, Commit(o, id, old, v, p)
  PROVE  SkillsTypeOK'
<1>1. Advance(o, NoWork)
  BY DEF Commit
<1>2. DOMAIN op' = Operations /\ \A x \in Operations : OpType(op'[x])
  BY <1>1, IdleType, AdvanceType
<1>3. id \in Nat
  BY ExistsType
<1>4. lived' \subseteq Version /\ outpaced' \subseteq Nat
  BY <1>3 DEF Commit, SkillsTypeOK, Version
<1>. QED BY <1>2, <1>4, CommitFacts DEF SkillsTypeOK

\* Every transaction is a commit or comes too late.
LEMMA Transaction ==
  ASSUME SkillsTypeOK, NEW o \in Operations, SaveVersionAndUpdate(o) \/ RestoreTarget(o)
  PROVE  LET me == op[o] IN
         /\ me.at \in {"save", "restore"}
         /\ \/ /\ Exists(me.skill_id)
               /\ \E v \in Nat : Commit(o, me.skill_id, me.old, v, me.new)
            \/ /\ ~Exists(me.skill_id)
               /\ CommitDeleted(o, me.old)
<1>1. op[o].at \in {"save", "restore"}
  BY DEF SaveVersionAndUpdate, RestoreTarget
<1>2. op[o].old.version + 1 \in Nat
  BY <1>1, BeforeCommit
<1>3. op[o].at = "restore" => op[o].target \in Nat
  BY <1>1, BeforeCommit
<1>. QED BY <1>1, <1>2, <1>3 DEF SaveVersionAndUpdate, RestoreTarget

LEMMA CommitDeletedType ==
  ASSUME SkillsTypeOK, NEW o \in Operations, NEW old \in Version, CommitDeleted(o, old)
  PROVE  SkillsTypeOK'
<1>1. Advance(o, NoWork)
  BY DEF CommitDeleted
<1>2. DOMAIN op' = Operations /\ \A x \in Operations : OpType(op'[x])
  BY <1>1, IdleType, AdvanceType
<1>3. versions' \in Seq(Version)
  BY DEF CommitDeleted, SkillsTypeOK
<1>. QED BY <1>2, <1>3 DEF CommitDeleted, skillsPast, SkillsTypeOK

\* Steps of an operation that touch no table.
Unchanging(o) ==
  \/ \E id \in SkillIds : StartRefine(o, id)
  \/ \E p \in Procedures : RefinementArrives(o, p)
  \/ \E id \in SkillIds, p \in Procedures : StartEdit(o, id, p)
  \/ ReadCurrent(o)
  \/ \E i \in 1..Len(versions) : StartRollback(o, versions[i].skill_id, versions[i].version)
  \/ ReadBeforeRollback(o)
  \/ Fails(o)

\* The operation a quiet step leads to is well-typed, and what it snapshots is live.
LEMMA UnchangingGoes ==
  ASSUME SkillsTypeOK, NEW o \in Operations, Unchanging(o)
  PROVE  /\ UNCHANGED <<skills, versions, lived, outpaced>>
         /\ \E next : /\ Advance(o, next)
                      /\ OpType(next)
                      /\ next.at \in {"save", "restore"} =>
                           /\ Exists(next.skill_id)
                           /\ next.old = LiveVersion(next.skill_id)
<1>1. UNCHANGED <<skills, versions, lived, outpaced>>
  BY DEF Unchanging, StartRefine, RefinementArrives, StartEdit, ReadCurrent, StartRollback,
         ReadBeforeRollback, Fails, skillsPast
<1>2. ASSUME Advance(o, NoWork)
      PROVE  \E next : /\ Advance(o, next)
                       /\ OpType(next)
                       /\ next.at \in {"save", "restore"} =>
                            Exists(next.skill_id) /\ next.old = LiveVersion(next.skill_id)
  BY <1>2, IdleType DEF NoWork
<1>3. ASSUME NEW id \in SkillIds, StartRefine(o, id)
      PROVE  \E next : /\ Advance(o, next)
                       /\ OpType(next)
                       /\ next.at \in {"save", "restore"} =>
                            Exists(next.skill_id) /\ next.old = LiveVersion(next.skill_id)
  <2>1. id \in Nat /\ skills[id].procedure \in Procedures
    BY <1>3, ExistsType DEF StartRefine, Skill
  <2>2. OpType(Asked(id, skills[id].procedure))
    BY <2>1 DEF Asked, OpType
  <2>3. Asked(id, skills[id].procedure).at = "asked"
    BY DEF Asked
  <2>. QED BY <1>3, <2>2, <2>3 DEF StartRefine
<1>4. ASSUME NEW p \in Procedures, NEW id \in Nat, Advance(o, Update(id, p))
      PROVE  \E next : /\ Advance(o, next)
                       /\ OpType(next)
                       /\ next.at \in {"save", "restore"} =>
                            Exists(next.skill_id) /\ next.old = LiveVersion(next.skill_id)
  <2>1. OpType(Update(id, p)) /\ Update(id, p).at = "update"
    BY DEF Update, OpType
  <2>. QED BY <1>4, <2>1
<1>5. ASSUME NEW p \in Procedures, RefinementArrives(o, p)
      PROVE  Advance(o, NoWork) \/ (op[o].skill_id \in Nat /\ Advance(o, Update(op[o].skill_id, p)))
  <2>1. OpType(op[o]) /\ op[o].at = "asked"
    BY <1>5 DEF RefinementArrives, SkillsTypeOK
  <2>2. op[o].skill_id \in Nat
    BY <2>1 DEF OpType, NoWork
  <2>. QED BY <1>5, <2>2 DEF RefinementArrives
<1>6. CASE ReadCurrent(o)
  <2>1. OpType(op[o]) /\ op[o].at = "update"
    BY <1>6 DEF ReadCurrent, SkillsTypeOK
  <2>2. op[o].new \in Procedures
    BY <2>1 DEF OpType, NoWork
  <2>3. CASE Exists(op[o].skill_id)
    <3> DEFINE next == Save(op[o].skill_id, LiveVersion(op[o].skill_id), op[o].new)
    <3>1. op[o].skill_id \in Nat /\ LiveVersion(op[o].skill_id) \in Version
      BY <2>3, ExistsType
    <3>2. OpType(next) /\ next.skill_id = op[o].skill_id /\ next.old = LiveVersion(op[o].skill_id)
      BY <2>2, <3>1 DEF Save, OpType
    <3>3. Advance(o, next)
      BY <1>6, <2>3 DEF ReadCurrent
    <3>. QED BY <1>1, <2>3, <3>2, <3>3
  <2>4. CASE ~Exists(op[o].skill_id)
    BY <1>1, <1>2, <1>6, <2>4 DEF ReadCurrent
  <2>. QED BY <2>3, <2>4
<1>7. ASSUME NEW i \in 1..Len(versions),
             StartRollback(o, versions[i].skill_id, versions[i].version)
      PROVE  \E next : /\ Advance(o, next)
                       /\ OpType(next)
                       /\ next.at \in {"save", "restore"} =>
                            Exists(next.skill_id) /\ next.old = LiveVersion(next.skill_id)
  <2> DEFINE id == versions[i].skill_id
             v  == versions[i].version
  <2>1. versions \in Seq(Version) /\ id \in Nat /\ v \in Nat
    <3>1. versions \in Seq(Version)
      BY DEF SkillsTypeOK
    <3>2. versions[i] \in Version
      BY <3>1
    <3>. QED BY <3>1, <3>2 DEF Version
  <2>2. i \in RowsOf(id, v)
    BY DEF RowsOf
  <2>. HIDE DEF id, v
  <2>3. RowsOf(id, v) \subseteq 1..Len(versions)
    BY DEF RowsOf
  <2>4. \E j \in RowsOf(id, v) : \A k \in RowsOf(id, v) : j <= k
    <3>1. RowsOf(id, v) \in SUBSET Nat /\ RowsOf(id, v) # {}
      BY <2>1, <2>2, <2>3
    <3>. QED BY <3>1, LeastNat
  <2>5. Saved(id, v) \in Procedures
    <3> DEFINE first == CHOOSE j \in RowsOf(id, v) : \A k \in RowsOf(id, v) : j <= k
    <3>1. first \in RowsOf(id, v)
      BY <2>4
    <3>2. Saved(id, v) = versions[first].procedure
      BY DEF Saved
    <3>. HIDE DEF first
    <3>3. versions[first] \in Version
      BY <2>1, <2>3, <3>1
    <3>. QED BY <3>2, <3>3 DEF Version
  <2>6. OpType(Current(id, v, Saved(id, v))) /\ Current(id, v, Saved(id, v)).at = "current"
    BY <2>1, <2>5 DEF Current, OpType
  <2>7. Advance(o, Current(id, v, Saved(id, v)))
    BY <1>7 DEF StartRollback, id, v
  <2>. QED BY <2>6, <2>7
<1>8. CASE ReadBeforeRollback(o)
  <2>1. OpType(op[o]) /\ op[o].at = "current"
    BY <1>8 DEF ReadBeforeRollback, SkillsTypeOK
  <2>2. op[o].new \in Procedures /\ op[o].target \in Nat
    BY <2>1 DEF OpType, NoWork
  <2>3. CASE Exists(op[o].skill_id)
    <3> DEFINE next == Restore(op[o].skill_id, op[o].target, op[o].new, LiveVersion(op[o].skill_id))
    <3>1. op[o].skill_id \in Nat /\ LiveVersion(op[o].skill_id) \in Version
      BY <2>3, ExistsType
    <3>2. OpType(next) /\ next.skill_id = op[o].skill_id /\ next.old = LiveVersion(op[o].skill_id)
      BY <2>2, <3>1 DEF Restore, OpType
    <3>3. Advance(o, next)
      BY <1>8, <2>3 DEF ReadBeforeRollback
    <3>. QED BY <1>1, <2>3, <3>2, <3>3
  <2>4. CASE ~Exists(op[o].skill_id)
    BY <1>1, <1>2, <1>8, <2>4 DEF ReadBeforeRollback
  <2>. QED BY <2>3, <2>4
<1>9. ASSUME NEW id \in SkillIds, NEW p \in Procedures, StartEdit(o, id, p)
      PROVE  id \in Nat /\ Advance(o, Update(id, p))
  BY <1>9 DEF StartEdit, SkillIds, SkillsTypeOK
<1>10. Fails(o) => Advance(o, NoWork)
  BY DEF Fails
<1>. QED BY <1>1, <1>2, <1>3, <1>4, <1>5, <1>6, <1>7, <1>8, <1>9, <1>10 DEF Unchanging

LEMMA NextSplit ==
  ASSUME [SkillsNext]_skillVars
  PROVE  \/ \E p \in Procedures : InsertSkill(p)
         \/ \E id \in SkillIds : RecordSuccess(id)
         \/ \E id \in SkillIds : Delete(id)
         \/ \E o \in Operations : SaveVersionAndUpdate(o) \/ RestoreTarget(o)
         \/ \E o \in Operations : Unchanging(o)
         \/ UNCHANGED skillVars
BY DEF SkillsNext, Step, Unchanging

LEMMA NextSkillsType == SkillsTypeOK /\ [SkillsNext]_skillVars => SkillsTypeOK'
<1> SUFFICES ASSUME SkillsTypeOK, [SkillsNext]_skillVars PROVE SkillsTypeOK'
  OBVIOUS
<1>1. ASSUME NEW p \in Procedures, InsertSkill(p) PROVE SkillsTypeOK'
  <2>1. [version |-> 1, procedure |-> p, success_count |-> 0] \in Skill
    BY DEF Skill
  <2>2. [skill_id |-> Len(skills) + 1, version |-> 1, procedure |-> p] \in Version
    BY DEF Version, SkillsTypeOK
  <2>3. skills' \in Seq(Skill \cup {Deleted}) /\ Len(skills') = Len(skills) + 1
    BY <1>1, <2>1 DEF InsertSkill, SkillsTypeOK
  <2>. QED BY <1>1, <2>2, <2>3 DEF InsertSkill, SkillsTypeOK
<1>2. ASSUME NEW id \in SkillIds, RecordSuccess(id) PROVE SkillsTypeOK'
  <2>1. id \in 1..Len(skills) /\ skills[id] \in Skill
    BY <1>2, ExistsType DEF RecordSuccess
  <2> DEFINE row == [skills[id] EXCEPT !.success_count = @ + 1]
  <2>2. row \in Skill
    BY <2>1 DEF Skill
  <2>3. skills' = [skills EXCEPT ![id] = row]
    BY <1>2, <2>1 DEF RecordSuccess, Skill
  <2>. HIDE DEF row
  <2>4. skills' \in Seq(Skill \cup {Deleted}) /\ Len(skills') = Len(skills)
    BY <2>1, <2>2, <2>3 DEF SkillsTypeOK
  <2>. QED BY <1>2, <2>4 DEF RecordSuccess, skillsPast, SkillsTypeOK
<1>3. ASSUME NEW id \in SkillIds, Delete(id) PROVE SkillsTypeOK'
  <2>1. skills' \in Seq(Skill \cup {Deleted}) /\ Len(skills') = Len(skills)
    BY <1>3 DEF Delete, SkillIds, SkillsTypeOK
  <2>. QED BY <1>3, <2>1 DEF Delete, skillsPast, SkillsTypeOK
<1>4. ASSUME NEW o \in Operations, SaveVersionAndUpdate(o) \/ RestoreTarget(o) PROVE SkillsTypeOK'
  <2>1. op[o].at \in {"save", "restore"}
    BY <1>4, Transaction
  <2>2. op[o].new \in Procedures /\ op[o].old \in Version
    BY <2>1, BeforeCommit
  <2>. QED BY <1>4, <2>2, Transaction, CommitType, CommitDeletedType
<1>5. ASSUME NEW o \in Operations, Unchanging(o) PROVE SkillsTypeOK'
  <2>1. DOMAIN op' = Operations /\ \A x \in Operations : OpType(op'[x])
    BY <1>5, UnchangingGoes, AdvanceType
  <2>. QED BY <1>5, <2>1, UnchangingGoes DEF SkillsTypeOK
<1>6. CASE UNCHANGED skillVars
  BY <1>6 DEF skillVars, skillsPast, SkillsTypeOK
<1>. QED BY <1>1, <1>2, <1>3, <1>4, <1>5, <1>6, NextSplit

\* Both tables and every operation keep their types.
THEOREM SkillsTypeCorrect == SkillsSpec => []SkillsTypeOK
<1>1. SkillsInit => SkillsTypeOK
  BY IdleType DEF SkillsInit, SkillsTypeOK
<1>2. SkillsTypeOK /\ [SkillsNext]_skillVars => SkillsTypeOK'
  BY NextSkillsType
<1>. QED BY <1>1, <1>2, PTL DEF SkillsSpec

-----------------------------------------------------------------------------
(* What was live.                                                          *)

\* An operation that is about to commit holds a pair that was live.
SnapshotsLived ==
  \A o \in Operations :
    op[o].at \in {"save", "restore"} =>
      op[o].old \in lived /\ op[o].old.skill_id = op[o].skill_id

\* Only inserted skills have lived.
LivedKnown == \A was \in lived : was.skill_id \in SkillIds

\* The inductive invariant: the properties need each other, because a commit
\* appends what an operation read before other commits took place.
SkillsInv ==
  /\ SkillsTypeOK
  /\ HistoryIsGenuine
  /\ SnapshotsLived
  /\ LivedKnown
  /\ LostOnlyByARace

LEMMA SnapshotsKept ==
  ASSUME SkillsTypeOK, SnapshotsLived, lived \subseteq lived', NEW o \in Operations, NEW next,
         Advance(o, next),
         next.at \in {"save", "restore"} => next.old \in lived' /\ next.old.skill_id = next.skill_id
  PROVE  SnapshotsLived'
<1>1. \A x \in Operations : op'[x] = IF x = o THEN next ELSE op[x]
  BY DEF Advance, SkillsTypeOK
<1>. QED BY <1>1 DEF SnapshotsLived

LEMMA InsertInv == ASSUME SkillsInv, NEW p \in Procedures, InsertSkill(p) PROVE SkillsInv'
<1> PICK new : new = Len(skills) + 1
  OBVIOUS
<1> DEFINE row == [version |-> 1, procedure |-> p, success_count |-> 0]
<1>0. SkillsTypeOK /\ HistoryIsGenuine /\ SnapshotsLived /\ LivedKnown /\ LostOnlyByARace
  BY DEF SkillsInv
<1>1. SkillsTypeOK'
  BY <1>0, NextSkillsType DEF SkillsNext
<1>2. /\ Len(skills') = new /\ new \in Nat
      /\ skills'[new] = row
      /\ \A id \in 1..Len(skills) : skills'[id] = skills[id]
  BY <1>0 DEF InsertSkill, SkillsTypeOK
<1>3. UNCHANGED <<versions, op, outpaced>>
  BY DEF InsertSkill
<1>4. lived' = lived \cup {[skill_id |-> new, version |-> 1, procedure |-> p]}
  BY DEF InsertSkill
<1>5. \A id \in SkillIds : LiveVersion(id)' = LiveVersion(id) /\ (Exists(id)' <=> Exists(id))
  BY <1>2 DEF LiveVersion, Exists, SkillIds
<1>6. LiveVersion(new)' = [skill_id |-> new, version |-> 1, procedure |-> p]
  BY <1>2 DEF LiveVersion
<1>7. SkillIds' = SkillIds \cup {new}
  BY <1>0, <1>2 DEF SkillIds, SkillsTypeOK
<1>. HIDE DEF row
<1>8. HistoryIsGenuine'
  <2>1. \A i \in 1..Len(versions') : versions'[i] \in lived'
    BY <1>0, <1>3, <1>4 DEF HistoryIsGenuine
  <2>2. ASSUME NEW id \in SkillIds', skills'[id] # Deleted PROVE LiveVersion(id)' \in lived'
    <3>1. CASE id = new
      BY <1>4, <1>6, <3>1
    <3>2. CASE id \in SkillIds
      BY <1>0, <1>2, <1>4, <1>5, <2>2, <3>2 DEF HistoryIsGenuine, SkillIds
    <3>. QED BY <1>7, <3>1, <3>2
  <2>. QED BY <2>1, <2>2 DEF HistoryIsGenuine
<1>9. SnapshotsLived'
  BY <1>0, <1>3, <1>4 DEF SnapshotsLived
<1>10. LivedKnown'
  BY <1>0, <1>4, <1>7 DEF LivedKnown
<1>11. LostOnlyByARace'
  <2> SUFFICES ASSUME NEW was \in lived', Exists(was.skill_id)', was.skill_id \notin outpaced'
               PROVE  \/ LiveVersion(was.skill_id)' = was
                      \/ \E i \in 1..Len(versions') : versions'[i] = was
    BY DEF LostOnlyByARace
  <2>1. CASE was \in lived
    <3>1. was.skill_id \in SkillIds
      BY <1>0, <2>1 DEF LivedKnown
    <3>. QED BY <1>0, <1>3, <1>5, <2>1, <3>1 DEF LostOnlyByARace
  <2>2. CASE was \notin lived
    BY <1>4, <1>6, <2>2
  <2>. QED BY <2>1, <2>2
<1>. QED BY <1>1, <1>8, <1>9, <1>10, <1>11 DEF SkillsInv

\* A success changes no version, no procedure and no history.
LEMMA RecordSuccessInv ==
  ASSUME SkillsInv, NEW id \in SkillIds, RecordSuccess(id) PROVE SkillsInv'
<1>0. SkillsTypeOK /\ HistoryIsGenuine /\ SnapshotsLived /\ LivedKnown /\ LostOnlyByARace
  BY DEF SkillsInv
<1>1. SkillsTypeOK'
  BY <1>0, NextSkillsType DEF SkillsNext
<1>2. id \in 1..Len(skills) /\ skills[id] \in Skill /\ skills[id] # Deleted
  BY <1>0, ExistsType DEF RecordSuccess, Exists
<1> DEFINE row == [skills[id] EXCEPT !.success_count = @ + 1]
<1>3. skills' = [skills EXCEPT ![id] = row]
  BY <1>2 DEF RecordSuccess, Skill
<1>4. row.version = skills[id].version /\ row.procedure = skills[id].procedure /\ row \in Skill
  BY <1>2 DEF Skill
<1>5. row # Deleted
  BY <1>4, SkillsAssumption
<1>. HIDE DEF row
<1>6. Len(skills') = Len(skills) /\ \A x \in SkillIds : skills'[x] = IF x = id THEN row ELSE skills[x]
  BY <1>0, <1>3 DEF SkillIds, SkillsTypeOK
<1>7. SkillIds' = SkillIds
  BY <1>6 DEF SkillIds
<1>8. \A x \in SkillIds : LiveVersion(x)' = LiveVersion(x) /\ (skills'[x] # Deleted <=> skills[x] # Deleted)
  BY <1>2, <1>4, <1>5, <1>6 DEF LiveVersion
<1>9. UNCHANGED <<versions, op, lived, outpaced>>
  BY DEF RecordSuccess, skillsPast
<1>10. HistoryIsGenuine' /\ SnapshotsLived' /\ LivedKnown'
  BY <1>0, <1>7, <1>8, <1>9 DEF HistoryIsGenuine, SnapshotsLived, LivedKnown
<1>11. LostOnlyByARace'
  BY <1>0, <1>7, <1>8, <1>9 DEF LostOnlyByARace, Exists
<1>. QED BY <1>1, <1>10, <1>11 DEF SkillsInv

LEMMA DeleteInv == ASSUME SkillsInv, NEW id \in SkillIds, Delete(id) PROVE SkillsInv'
<1>0. SkillsTypeOK /\ HistoryIsGenuine /\ SnapshotsLived /\ LivedKnown /\ LostOnlyByARace
  BY DEF SkillsInv
<1>1. SkillsTypeOK'
  BY <1>0, NextSkillsType DEF SkillsNext
<1>2. Len(skills') = Len(skills) /\ \A x \in SkillIds : skills'[x] = IF x = id THEN Deleted ELSE skills[x]
  BY <1>0 DEF Delete, SkillIds, SkillsTypeOK
<1>3. SkillIds' = SkillIds
  BY <1>2 DEF SkillIds
<1>4. \A x \in SkillIds : skills'[x] # Deleted => LiveVersion(x)' = LiveVersion(x) /\ skills[x] # Deleted
  BY <1>2 DEF LiveVersion
<1>5. UNCHANGED <<versions, op, lived, outpaced>>
  BY DEF Delete, skillsPast
<1>6. HistoryIsGenuine' /\ SnapshotsLived' /\ LivedKnown'
  BY <1>0, <1>3, <1>4, <1>5 DEF HistoryIsGenuine, SnapshotsLived, LivedKnown
<1>7. LostOnlyByARace'
  BY <1>0, <1>3, <1>4, <1>5 DEF LostOnlyByARace, Exists
<1>. QED BY <1>1, <1>6, <1>7 DEF SkillsInv

LEMMA CommitInv ==
  ASSUME SkillsInv, NEW o \in Operations, NEW id, NEW old \in Version, NEW v \in Nat,
         NEW p \in Procedures, old \in lived,
         Exists(id), Commit(o, id, old, v, p), SkillsTypeOK'
  PROVE  SkillsInv'
<1> DEFINE now == [skill_id |-> id, version |-> v, procedure |-> p]
<1>0. SkillsTypeOK /\ HistoryIsGenuine /\ SnapshotsLived /\ LivedKnown /\ LostOnlyByARace
  BY DEF SkillsInv
<1>2. id \in SkillIds /\ skills[id] # Deleted /\ skills[id] \in Skill
  BY <1>0, ExistsType DEF Exists
<1>. HIDE DEF now
<1>4. /\ skills' \in Seq(Skill \cup {Deleted})
      /\ Len(skills') = Len(skills)
      /\ \A x \in 1..Len(skills) : x # id => skills'[x] = skills[x]
      /\ skills'[id].version = v /\ skills'[id].procedure = p
      /\ skills'[id] \in Skill
      /\ versions' \in Seq(Version)
      /\ Len(versions') = Len(versions) + 1
      /\ \A i \in 1..Len(versions) : versions'[i] = versions[i]
      /\ versions'[Len(versions) + 1] = old
  BY <1>0, CommitFacts
<1>5. lived' = lived \cup {now} /\ Advance(o, NoWork)
  BY DEF Commit, now
<1>6. outpaced \subseteq outpaced' /\ (id \notin outpaced' => LiveVersion(id) = old)
  BY DEF Commit
<1>7. SkillIds' = SkillIds
  BY <1>4 DEF SkillIds
<1>8. LiveVersion(id)' = now
  BY <1>2, <1>4 DEF LiveVersion, Skill, now
<1>9. \A x \in SkillIds : x # id => LiveVersion(x)' = LiveVersion(x) /\ skills'[x] = skills[x]
  BY <1>4 DEF LiveVersion, SkillIds
<1>10. Len(versions) \in Nat
  BY <1>0 DEF SkillsTypeOK
<1>11. HistoryIsGenuine'
  <2>1. ASSUME NEW i \in 1..Len(versions') PROVE versions'[i] \in lived'
    <3>1. i \in 1..Len(versions) \/ i = Len(versions) + 1
      BY <1>4, <1>10
    <3>. QED BY <1>0, <1>4, <1>5, <3>1 DEF HistoryIsGenuine
  <2>2. ASSUME NEW x \in SkillIds', skills'[x] # Deleted PROVE LiveVersion(x)' \in lived'
    BY <1>0, <1>5, <1>7, <1>8, <1>9, <2>2 DEF HistoryIsGenuine
  <2>. QED BY <2>1, <2>2 DEF HistoryIsGenuine
<1>12. SnapshotsLived'
  <2>1. NoWork.at = "idle"
    BY DEF NoWork
  <2>. QED BY <1>0, <1>5, <2>1, SnapshotsKept
<1>13. LivedKnown'
  BY <1>0, <1>2, <1>5, <1>7 DEF LivedKnown, now
<1>14. LostOnlyByARace'
  <2> SUFFICES ASSUME NEW was \in lived', Exists(was.skill_id)', was.skill_id \notin outpaced'
               PROVE  \/ LiveVersion(was.skill_id)' = was
                      \/ \E i \in 1..Len(versions') : versions'[i] = was
    BY DEF LostOnlyByARace
  <2>1. CASE was = now
    BY <1>8, <2>1 DEF now
  <2>2. CASE was \in lived
    <3>1. was.skill_id \in SkillIds /\ was.skill_id \notin outpaced
      BY <1>0, <1>6, <2>2 DEF LivedKnown
    <3>2. skills[was.skill_id] # Deleted
      <4>1. CASE was.skill_id = id
        BY <1>2, <4>1
      <4>2. CASE was.skill_id # id
        BY <1>9, <3>1, <4>2 DEF Exists
      <4>. QED BY <4>1, <4>2
    <3>3. LiveVersion(was.skill_id) = was \/ \E i \in 1..Len(versions) : versions[i] = was
      BY <1>0, <2>2, <3>1, <3>2 DEF LostOnlyByARace, Exists
    <3>4. CASE \E i \in 1..Len(versions) : versions[i] = was
      <4>1. PICK i \in 1..Len(versions) : versions[i] = was
        BY <3>4
      <4>2. i \in 1..Len(versions') /\ versions'[i] = was
        BY <1>4, <1>10, <4>1
      <4>. QED BY <4>2
    <3>5. CASE LiveVersion(was.skill_id) = was /\ was.skill_id = id
      <4>1. Len(versions) + 1 \in 1..Len(versions') /\ versions'[Len(versions) + 1] = was
        BY <1>4, <1>6, <1>10, <3>5
      <4>. QED BY <4>1
    <3>6. CASE LiveVersion(was.skill_id) = was /\ was.skill_id # id
      BY <1>9, <3>1, <3>6
    <3>. QED BY <3>3, <3>4, <3>5, <3>6
  <2>. QED BY <1>5, <2>1, <2>2
<1>. QED BY <1>11, <1>12, <1>13, <1>14 DEF SkillsInv

LEMMA CommitDeletedInv ==
  ASSUME SkillsInv, NEW o \in Operations, op[o].at \in {"save", "restore"},
         CommitDeleted(o, op[o].old), SkillsTypeOK'
  PROVE  SkillsInv'
<1>0. SkillsTypeOK /\ HistoryIsGenuine /\ SnapshotsLived /\ LivedKnown /\ LostOnlyByARace
  BY DEF SkillsInv
<1>1. op[o].old \in lived /\ op[o].old \in Version
  BY <1>0, BeforeCommit DEF SnapshotsLived
<1>2. UNCHANGED <<skills, lived, outpaced>> /\ Advance(o, NoWork)
  BY DEF CommitDeleted, skillsPast
<1>3. /\ Len(versions) \in Nat
      /\ Len(versions') \in Nat
      /\ \A i \in 1..Len(versions') : \/ i \in 1..Len(versions) /\ versions'[i] = versions[i]
                                      \/ versions'[i] = op[o].old
      /\ \A i \in 1..Len(versions) : i \in 1..Len(versions') /\ versions'[i] = versions[i]
  BY <1>0, <1>1 DEF CommitDeleted, SkillsTypeOK
<1>4. \A id : LiveVersion(id)' = LiveVersion(id) /\ (Exists(id)' <=> Exists(id))
  BY <1>2 DEF LiveVersion, Exists, SkillIds
<1>5. SkillIds' = SkillIds
  BY <1>2 DEF SkillIds
<1>6. HistoryIsGenuine'
  BY <1>0, <1>1, <1>2, <1>3, <1>4, <1>5 DEF HistoryIsGenuine
<1>7. SnapshotsLived'
  <2>1. NoWork.at = "idle"
    BY DEF NoWork
  <2>. QED BY <1>0, <1>2, <2>1, SnapshotsKept
<1>8. LivedKnown'
  BY <1>0, <1>2, <1>5 DEF LivedKnown
<1>9. LostOnlyByARace'
  <2> SUFFICES ASSUME NEW was \in lived', Exists(was.skill_id)', was.skill_id \notin outpaced'
               PROVE  \/ LiveVersion(was.skill_id)' = was
                      \/ \E i \in 1..Len(versions') : versions'[i] = was
    BY DEF LostOnlyByARace
  <2>1. LiveVersion(was.skill_id) = was \/ \E i \in 1..Len(versions) : versions[i] = was
    BY <1>0, <1>2, <1>4 DEF LostOnlyByARace
  <2>. QED BY <1>3, <1>4, <2>1
<1>. QED BY <1>6, <1>7, <1>8, <1>9 DEF SkillsInv

LEMMA UnchangingInv == ASSUME SkillsInv, NEW o \in Operations, Unchanging(o), SkillsTypeOK' PROVE SkillsInv'
<1>0. SkillsTypeOK /\ HistoryIsGenuine /\ SnapshotsLived /\ LivedKnown /\ LostOnlyByARace
  BY DEF SkillsInv
<1>1. UNCHANGED <<skills, versions, lived, outpaced>>
  BY <1>0, UnchangingGoes
<1>2. PICK next : /\ Advance(o, next)
                  /\ next.at \in {"save", "restore"} =>
                       Exists(next.skill_id) /\ next.old = LiveVersion(next.skill_id)
  BY <1>0, UnchangingGoes
<1>3. ASSUME next.at \in {"save", "restore"}
      PROVE  next.old \in lived' /\ next.old.skill_id = next.skill_id
  BY <1>0, <1>1, <1>2, <1>3 DEF HistoryIsGenuine, Exists, LiveVersion
<1>4. SnapshotsLived'
  BY <1>0, <1>1, <1>2, <1>3, SnapshotsKept
<1>5. HistoryIsGenuine' /\ LivedKnown' /\ LostOnlyByARace'
  BY <1>0, <1>1 DEF HistoryIsGenuine, LivedKnown, LostOnlyByARace, LiveVersion, Exists, SkillIds
<1>. QED BY <1>4, <1>5 DEF SkillsInv

LEMMA NextInv == SkillsInv /\ [SkillsNext]_skillVars => SkillsInv'
<1> SUFFICES ASSUME SkillsInv, [SkillsNext]_skillVars PROVE SkillsInv'
  OBVIOUS
<1>0. SkillsTypeOK /\ SkillsTypeOK'
  BY NextSkillsType DEF SkillsInv
<1>1. ASSUME NEW o \in Operations, SaveVersionAndUpdate(o) \/ RestoreTarget(o)
      PROVE  SkillsInv'
  <2>1. op[o].at \in {"save", "restore"}
    BY <1>0, <1>1, Transaction
  <2>2. /\ op[o].old \in Version /\ op[o].new \in Procedures
        /\ op[o].old \in lived /\ op[o].old.skill_id = op[o].skill_id
    BY <1>0, <2>1, BeforeCommit DEF SkillsInv, SnapshotsLived
  <2>. QED BY <1>0, <1>1, <2>1, <2>2, Transaction, CommitInv, CommitDeletedInv
<1>2. ASSUME NEW o \in Operations, Unchanging(o) PROVE SkillsInv'
  BY <1>0, <1>2, UnchangingInv
<1>3. CASE UNCHANGED skillVars
  BY <1>0, <1>3 DEF skillVars, skillsPast, SkillsInv, HistoryIsGenuine, SnapshotsLived, LivedKnown,
                    LostOnlyByARace, LiveVersion, Exists, SkillIds
<1>. QED BY <1>1, <1>2, <1>3, NextSplit, InsertInv, RecordSuccessInv, DeleteInv

LEMMA SkillsInvariant == SkillsSpec => []SkillsInv
<1>1. SkillsInit => SkillsInv
  <2> SUFFICES ASSUME SkillsInit PROVE SkillsInv
    OBVIOUS
  <2>1. SkillsTypeOK
    BY IdleType DEF SkillsInit, SkillsTypeOK
  <2>2. SkillIds = {} /\ lived = {} /\ versions = <<>> /\ \A o \in Operations : op[o].at = "idle"
    BY DEF SkillsInit, SkillIds, NoWork
  <2>. QED BY <2>1, <2>2 DEF SkillsInv, HistoryIsGenuine, SnapshotsLived, LivedKnown,
                             LostOnlyByARace
<1>2. SkillsInv /\ [SkillsNext]_skillVars => SkillsInv'
  BY NextInv
<1>. QED BY <1>1, <1>2, PTL DEF SkillsSpec

\* The version history never holds a pair that was not live.
THEOREM HistoryAlwaysGenuine == SkillsSpec => []HistoryIsGenuine
<1>1. SkillsInv => HistoryIsGenuine
  BY DEF SkillsInv
<1>. QED BY <1>1, SkillsInvariant, PTL

\* Without a race no procedure is ever lost, whatever the number of operations.
THEOREM OnlyRacesLoseVersions == SkillsSpec => []LostOnlyByARace
<1>1. SkillsInv => LostOnlyByARace
  BY DEF SkillsInv
<1>. QED BY <1>1, SkillsInvariant, PTL

-----------------------------------------------------------------------------
(* Deletions and successes.                                                *)

NoOrphans == \A i \in 1..Len(versions) : Exists(versions[i].skill_id)

\* A row is fine if it was there and its skill stays, or its skill exists now.
LEMMA NoOrphansKept ==
  ASSUME NoOrphans,
         \A i \in 1..Len(versions') :
           LET id == versions'[i].skill_id IN
           \/ i \in 1..Len(versions) /\ versions'[i] = versions[i]
              /\ (id \in SkillIds /\ skills[id] # Deleted => id \in SkillIds' /\ skills'[id] # Deleted)
           \/ id \in SkillIds' /\ skills'[id] # Deleted
  PROVE  NoOrphans'
BY DEF NoOrphans, Exists

LEMMA NextNoOrphans == SkillsInv /\ ForeignKeys /\ NoOrphans /\ [SkillsNext]_skillVars => NoOrphans'
<1> SUFFICES ASSUME SkillsInv, ForeignKeys, NoOrphans, [SkillsNext]_skillVars PROVE NoOrphans'
  OBVIOUS
<1>0. SkillsTypeOK /\ SnapshotsLived
  BY DEF SkillsInv
<1>2. ASSUME NEW p \in Procedures, InsertSkill(p) PROVE NoOrphans'
  <2>1. \A id \in SkillIds : id \in SkillIds' /\ skills'[id] = skills[id]
    BY <1>0, <1>2 DEF InsertSkill, SkillIds, SkillsTypeOK
  <2>. QED BY <1>2, <2>1, NoOrphansKept DEF InsertSkill
<1>3. ASSUME NEW id \in SkillIds, RecordSuccess(id) PROVE NoOrphans'
  <2>1. id \in SkillIds /\ skills[id] \in Skill
    BY <1>0, <1>3, ExistsType DEF RecordSuccess
  <2>2. skills'[id] \in Skill /\ SkillIds' = SkillIds /\ \A x \in SkillIds : x # id => skills'[x] = skills[x]
    BY <1>0, <1>3, <2>1 DEF RecordSuccess, Skill, SkillIds, SkillsTypeOK
  <2>. QED BY <1>3, <2>2, SkillsAssumption, NoOrphansKept DEF RecordSuccess
<1>4. ASSUME NEW id \in SkillIds, Delete(id) PROVE NoOrphans'
  <2>1. SkillIds' = SkillIds /\ \A x \in SkillIds : x # id => skills'[x] = skills[x]
    BY <1>0, <1>4 DEF Delete, SkillIds, SkillsTypeOK
  <2>2. versions' = versions /\ \A i \in 1..Len(versions) : versions[i].skill_id # id
    BY <1>4 DEF Delete, skillsPast
  <2>. QED BY <2>1, <2>2, NoOrphansKept
<1>5. ASSUME NEW o \in Operations, SaveVersionAndUpdate(o) \/ RestoreTarget(o) PROVE NoOrphans'
  <2>1. op[o].at \in {"save", "restore"}
    BY <1>0, <1>5, Transaction
  <2>2. op[o].old \in Version /\ op[o].new \in Procedures /\ op[o].old.skill_id = op[o].skill_id
    BY <1>0, <2>1, BeforeCommit DEF SnapshotsLived
  <2>3. ASSUME NEW old \in Version, NEW p \in Procedures, NEW v \in Nat,
               Exists(old.skill_id), Commit(o, old.skill_id, old, v, p)
        PROVE  NoOrphans'
    <3>0. PICK id : id = old.skill_id /\ Exists(id) /\ Commit(o, id, old, v, p)
      BY <2>3
    <3>1. /\ Len(skills') = Len(skills)
          /\ \A x \in 1..Len(skills) : x # id => skills'[x] = skills[x]
          /\ skills'[id] \in Skill
      <4>1. skills'[id] \in Skill
        BY <1>0, <3>0, CommitFacts
      <4>2. id \in 1..Len(skills)
        BY <3>0 DEF Exists, SkillIds
      <4>. QED BY <1>0, <3>0, <4>1, <4>2 DEF Commit, SkillsTypeOK
    <3>2. /\ Len(versions') = Len(versions) + 1
          /\ \A i \in 1..Len(versions) : versions'[i] = versions[i]
          /\ versions'[Len(versions) + 1] = old
      BY <1>0, <3>0, CommitFacts
    <3>3. Len(versions) \in Nat /\ id \in SkillIds /\ SkillIds' = SkillIds
      BY <1>0, <3>0, <3>1 DEF SkillsTypeOK, Exists, SkillIds
    <3>4. \A x \in SkillIds : skills[x] # Deleted => skills'[x] # Deleted
      BY <3>1, SkillsAssumption DEF SkillIds
    <3>5. skills'[id] # Deleted
      BY <3>1, SkillsAssumption
    <3>6. \A i \in 1..Len(versions') : i \in 1..Len(versions) \/ i = Len(versions) + 1
      BY <3>2, <3>3
    <3>. QED BY <3>0, <3>2, <3>3, <3>4, <3>5, <3>6, NoOrphansKept
  <2>4. CASE CommitDeleted(o, op[o].old)
    BY <2>4, NoOrphansKept DEF CommitDeleted, SkillIds
  <2>. QED BY <1>0, <1>5, <2>2, <2>3, <2>4, Transaction
<1>6. ASSUME NEW o \in Operations, Unchanging(o) PROVE NoOrphans'
  BY <1>0, <1>6, UnchangingGoes, NoOrphansKept DEF SkillIds
<1>7. CASE UNCHANGED skillVars
  BY <1>7, NoOrphansKept DEF skillVars, SkillIds
<1>. QED BY <1>2, <1>3, <1>4, <1>5, <1>6, <1>7, NextSplit

\* A delete between the reads and the transaction of an operation leaves no row.
THEOREM NoVersionOrphaned == SkillsSpec => []NoOrphanVersions
<1>1. NoOrphanVersions <=> (ForeignKeys => NoOrphans)
  BY DEF NoOrphanVersions, NoOrphans
<1>2. SkillsInit => NoOrphans
  BY DEF SkillsInit, NoOrphans
<1>3. SkillsInv /\ (ForeignKeys => NoOrphans) /\ [SkillsNext]_skillVars => (ForeignKeys => NoOrphans)'
  BY NextNoOrphans
<1>. QED BY <1>1, <1>2, <1>3, SkillsInvariant, PTL DEF SkillsSpec
=============================================================================
