----------------------------- MODULE VaultFile -----------------------------
(***************************************************************************)
(* The encrypted vault file (crates/lumina-core/src/vault/mod.rs) and the  *)
(* database keys kept in it (get_or_create_users_key in users/mod.rs).     *)
(*                                                                         *)
(* The server, its tasks and the command-line tools each load the file     *)
(* afresh, change their copy and save all of it: through one temporary     *)
(* file, then a rename.  No lock is taken.  A file is an inode; a process  *)
(* that has the temporary file open keeps writing its inode after another  *)
(* process renamed it.  Encryption is left out: an inode that no complete  *)
(* save fills cannot be decrypted.                                         *)
(***************************************************************************)
EXTENDS Integers, FiniteSets

CONSTANTS
  Processes,   \* who opens the vault
  Names,       \* names of secrets
  DbKeyName,   \* the name of a database key, LUMINA_USERS_DB_KEY
  Inodes,      \* files the file system can hold at once
  MaxWrites    \* Bound: values that are ever generated

ASSUME VaultAssumption ==
  /\ DbKeyName \in Names
  /\ Inodes \subseteq Nat \ {0}
  /\ MaxWrites \in Nat

VARIABLES
  vault,       \* the inode of vault.enc, NoFile before the first save
  temp,        \* the inode of vault.enc.tmp
  contents,    \* contents[i]: what is in inode i
  proc,        \* proc[p]: where p is, and its locals
  issued,      \* values generated so far
  db,          \* the key the database file was created with, 0 before
  (* history *)
  stale,       \* processes whose copy another save has overtaken
  raced,       \* whether a stale copy was saved
  overlapped   \* whether two processes had the temporary file open at once

vaultPast == <<stale, raced, overlapped>>
vaultVars == <<vault, temp, contents, proc, issued, db, vaultPast>>

-----------------------------------------------------------------------------
NoFile == 0
NoSecrets == [n \in Names |-> 0]
Torn == [whole |-> FALSE, secrets |-> NoSecrets]
Whole(secrets) == [whole |-> TRUE, secrets |-> secrets]

AtRest == [at |-> "rest", key |-> 0, secrets |-> NoSecrets, inode |-> NoFile]

\* decrypt_from_disk: a torn file is an error, a missing one an empty vault.
Readable == vault # NoFile => contents[vault].whole
Loaded == IF vault = NoFile THEN NoSecrets ELSE contents[vault].secrets

Go(p, next) == proc' = [proc EXCEPT ![p] = next]

\* A process that gave up or is done holds no copy.
Rest(p) == Go(p, AtRest) /\ stale' = stale \ {p}

InUse == {vault, temp} \cup {proc[p].inode : p \in Processes}
Fresh(i) == i \notin InUse /\ \A j \in Inodes \ InUse : i <= j

VaultInit ==
  /\ vault = NoFile
  /\ temp = NoFile
  /\ contents = [i \in Inodes |-> Torn]
  /\ proc = [p \in Processes |-> AtRest]
  /\ issued = 0
  /\ db = 0
  /\ stale = {}
  /\ raced = FALSE
  /\ overlapped = FALSE

\* VaultStore::load, then set or remove on the copy.
Change(p, n) ==
  /\ proc[p].at = "rest"
  /\ n # DbKeyName
  /\ Readable
  /\ \/ /\ issued < MaxWrites
        /\ issued' = issued + 1
        /\ Go(p, [AtRest EXCEPT !.at = "changed", !.secrets = [Loaded EXCEPT ![n] = issued + 1]])
     \/ /\ Go(p, [AtRest EXCEPT !.at = "changed", !.secrets = [Loaded EXCEPT ![n] = 0]])
        /\ UNCHANGED issued
  /\ UNCHANGED <<vault, temp, contents, db, vaultPast>>

\* get_or_create_users_key: the key that is there, or a new one.
LookUpKey(p) ==
  /\ proc[p].at = "rest"
  /\ IF Readable /\ Loaded[DbKeyName] # 0
       THEN /\ Go(p, [AtRest EXCEPT !.at = "keyed", !.key = Loaded[DbKeyName]])
            /\ UNCHANGED issued
       ELSE /\ issued < MaxWrites
            /\ issued' = issued + 1
            /\ Go(p, [AtRest EXCEPT !.at = "generated", !.key = issued + 1])
  /\ UNCHANGED <<vault, temp, contents, db, vaultPast>>

\* The second load, and set on its copy.
InsertKey(p) ==
  /\ proc[p].at = "generated"
  /\ IF Readable
       THEN /\ Go(p, [proc[p] EXCEPT !.at = "changed",
                                     !.secrets = [Loaded EXCEPT ![DbKeyName] = proc[p].key]])
            /\ UNCHANGED stale
       ELSE Rest(p)
  /\ UNCHANGED <<vault, temp, contents, issued, db, raced, overlapped>>

\* Wrong: the vault file itself is truncated and written.
OpenTempInPlace(p) ==
  /\ proc[p].at = "changed"
  /\ \E i \in Inodes :
       /\ IF vault = NoFile THEN Fresh(i) ELSE i = vault
       /\ temp' = i
       /\ contents' = [contents EXCEPT ![i] = Torn]
       /\ Go(p, [proc[p] EXCEPT !.at = "opened", !.inode = i])
  /\ overlapped' = (overlapped \/ \E q \in Processes : proc[q].at \in {"opened", "written"})
  /\ UNCHANGED <<vault, issued, db, stale, raced>>

\* save: fs::write creates or truncates the temporary file ...
OpenTemp(p) ==
  /\ proc[p].at = "changed"
  /\ \E i \in Inodes :
       /\ IF temp = NoFile THEN Fresh(i) ELSE i = temp
       /\ temp' = i
       /\ contents' = [contents EXCEPT ![i] = Torn]
       /\ Go(p, [proc[p] EXCEPT !.at = "opened", !.inode = i])
  /\ overlapped' = (overlapped \/ \E q \in Processes : proc[q].at \in {"opened", "written"})
  /\ UNCHANGED <<vault, issued, db, stale, raced>>

\* ... and fills it; over a longer text of another process the tail remains.
WriteTemp(p) ==
  /\ proc[p].at = "opened"
  /\ \E text \in {Whole(proc[p].secrets)} \cup (IF contents[proc[p].inode].whole THEN {Torn} ELSE {}) :
       contents' = [contents EXCEPT ![proc[p].inode] = text]
  /\ Go(p, [proc[p] EXCEPT !.at = "written", !.inode = NoFile])
  /\ UNCHANGED <<vault, temp, issued, db, vaultPast>>

\* The rename, which takes whatever the temporary file is by now; the old vault
\* file is gone.
RenameTemp(p) ==
  /\ proc[p].at = "written"
  /\ IF temp = NoFile
       THEN /\ Rest(p)
            /\ UNCHANGED <<vault, temp, contents, raced>>
       ELSE /\ vault' = temp
            /\ temp' = NoFile
            /\ contents' = [i \in Inodes |-> IF i = vault THEN Torn ELSE contents[i]]
            /\ raced' = (raced \/ p \in stale)
            /\ stale' = {q \in Processes \ {p} : proc[q].at \notin {"rest", "keyed"}}
            /\ Go(p, IF proc[p].key # 0 THEN [AtRest EXCEPT !.at = "keyed", !.key = proc[p].key]
                                        ELSE AtRest)
  /\ UNCHANGED <<issued, db, overlapped>>

\* Wrong: the key is used although it could not be saved.
SaveFailsUnnoticed(p) ==
  /\ proc[p].at \in {"changed", "opened", "written"}
  /\ Go(p, IF proc[p].key # 0 THEN [AtRest EXCEPT !.at = "keyed", !.key = proc[p].key] ELSE AtRest)
  /\ stale' = stale \ {p}
  /\ UNCHANGED <<vault, temp, contents, issued, db, raced, overlapped>>

\* An I/O error of the save: the key is not returned.
SaveFails(p) ==
  /\ proc[p].at \in {"changed", "opened", "written"}
  /\ Rest(p)
  /\ UNCHANGED <<vault, temp, contents, issued, db, raced, overlapped>>

\* UserStore::new: the first to open the database creates it with its key.
OpenDatabase(p) ==
  /\ proc[p].at = "keyed"
  /\ db' = IF db = 0 THEN proc[p].key ELSE db
  /\ Rest(p)
  /\ UNCHANGED <<vault, temp, contents, issued, raced, overlapped>>

VaultCrash(p) ==
  /\ proc[p].at # "rest"
  /\ Rest(p)
  /\ UNCHANGED <<vault, temp, contents, issued, db, raced, overlapped>>

VaultStep(p) ==
  \/ \E n \in Names : Change(p, n)
  \/ LookUpKey(p)
  \/ InsertKey(p)
  \/ OpenTemp(p)
  \/ WriteTemp(p)
  \/ RenameTemp(p)
  \/ SaveFails(p)
  \/ OpenDatabase(p)
  \/ VaultCrash(p)

VaultNext == \E p \in Processes : VaultStep(p)

VaultSpec == VaultInit /\ [][VaultNext]_vaultVars

-----------------------------------------------------------------------------
(* What the vault promises.                                                *)

Text == [whole : BOOLEAN, secrets : [Names -> 0..MaxWrites]]

\* The type invariant: only a process between truncation and write has a handle.
VaultTypeOK ==
  /\ vault \in Inodes \cup {NoFile}
  /\ temp \in Inodes \cup {NoFile}
  /\ contents \in [Inodes -> Text]
  /\ proc \in [Processes -> [at : {"rest", "generated", "changed", "opened", "written", "keyed"},
                             key : 0..MaxWrites,
                             secrets : [Names -> 0..MaxWrites],
                             inode : Inodes \cup {NoFile}]]
  /\ \A p \in Processes : proc[p].inode # NoFile <=> proc[p].at = "opened"
  /\ issued \in 0..MaxWrites
  /\ db \in 0..MaxWrites
  /\ stale \subseteq Processes
  /\ raced \in BOOLEAN
  /\ overlapped \in BOOLEAN

\* vault/mod.rs:183 "Atomic write: write to temp file then rename": whatever
\* fails or crashes, the vault can be decrypted, unless two processes have had
\* the one temporary file open at once.
VaultIsWhole == ~overlapped => Readable

\* users/mod.rs:607 "using an ephemeral key would make the database permanently
\* unreadable": the key a database was created with is the one in the vault,
\* as long as saves neither overlap nor overtake each other.
DatabaseKeyKept ==
  /\ ~overlapped
  /\ ~raced
  /\ db # 0
  => Loaded[DbKeyName] = db
=============================================================================
