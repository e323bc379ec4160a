----------------------------- MODULE SleepTime -----------------------------
(***************************************************************************)
(* Sleep-time consolidation (crates/lumina-core/src/prompt/sleep_time.rs): *)
(* nightly, weekly and immediate runs over all users, the guard and the    *)
(* deep model they share, and the queue of reflexa actions they work off   *)
(* (prompt/retrieval_reflexa.rs) while turns add to it.                    *)
(*                                                                         *)
(* The contents of layers, digests and resolutions are left out, and so    *)
(* are the proactive scan's own files.  The language model, the VRAM       *)
(* controller and the disk answer or fail, and the process can be killed   *)
(* at any time.  A save of the queue empties the file before it writes to  *)
(* it.  A user turn that waits for the guard changes nothing:              *)
(* wait_for_user_turn gives up what it claims.                             *)
(***************************************************************************)
EXTENDS Integers, FiniteSets

CONSTANTS
  ConsolidationRuns,  \* runs, each made once
  NoRun,
  LastUser,           \* the users are 1..LastUser, consolidated in order
  Contradictions,     \* actions that ask the language model
  OtherActions        \* stale memories, clusters, digest gaps

ASSUME SleepAssumption ==
  /\ NoRun \notin ConsolidationRuns
  /\ LastUser \in Nat \ {0}

VARIABLES
  lease,       \* UserTurnGuard.busy: the run that holds it, or NoRun
  resident,    \* whether the deep model is loaded
  run,         \* run[r]: its kind, user and place
  queue,       \* queue[u]: the actions in reflexa-queue.json of user u
  unreadable,  \* users whose file holds the beginning of a text
  saves,       \* saves[s]: the copy of a queue that s works on, and its save
  (* history *)
  evicted,     \* runs whose model another run released
  owed,        \* owed[u]: actions queued and not yet resolved
  overtaken,   \* savers whose copy is not the user's queue any more
  spoiled      \* users whose last save was made from such a copy, or not to its end

sleepPast == <<evicted, owed, overtaken, spoiled>>
guarded == <<lease, resident>>
queueVars == <<queue, unreadable, saves, owed, overtaken, spoiled>>
sleepVars == <<guarded, run, queueVars, evicted>>

-----------------------------------------------------------------------------
SleepUsers == 1..LastUser
Actions == Contradictions \cup OtherActions
NotYet == [kind |-> "none", at |-> "not started", user |-> 1]

\* Who loads and saves a queue: the runs, and a turn that is no run.
QueueingTurn == NoRun
Savers == ConsolidationRuns \cup {QueueingTurn}
NoSave == [at |-> "none", user |-> 1, loaded |-> {}, text |-> {}, resolved |-> {}]

RunAt(r, where) == run[r].at = where
MoveRun(r, where) == run' = [run EXCEPT ![r].at = where]
FirstStep(kind) == IF kind = "nightly" THEN "traits" ELSE "ensure"
AfterDeepStep(r) == CASE run[r].kind = "nightly" -> "reflexa"
                      [] run[r].kind = "weekly" -> "opinions"
                      [] OTHER -> "log"

SleepInit ==
  /\ lease = NoRun
  /\ resident = FALSE
  /\ run = [r \in ConsolidationRuns |-> NotYet]
  /\ queue = [u \in SleepUsers |-> {}]
  /\ unreadable = {}
  /\ saves = [s \in Savers |-> NoSave]
  /\ evicted = {}
  /\ owed = [u \in SleepUsers |-> {}]
  /\ overtaken = {}
  /\ spoiled = {}

\* run_nightly, run_weekly, run_immediate
StartRun(r) ==
  /\ RunAt(r, "not started")
  /\ \E kind \in {"nightly", "weekly", "immediate"} :
       run' = [run EXCEPT ![r] = [NotYet EXCEPT !.kind = kind, !.at = FirstStep(kind)]]
  /\ UNCHANGED <<guarded, queueVars, evicted>>

\* begin_step: waits until nobody holds the guard.
BeginStep(r, here, inside) ==
  /\ RunAt(r, here)
  /\ lease = NoRun
  /\ lease' = r
  /\ MoveRun(r, inside)
  /\ UNCHANGED <<resident, queueVars, evicted>>

\* Step 1 of the night: applied, skipped or failed, the lease is dropped.
TuneTraits(r) ==
  /\ RunAt(r, "tuning")
  /\ lease' = NoRun
  /\ MoveRun(r, "ensure")
  /\ UNCHANGED <<resident, queueVars, evicted>>

\* Wrong: the deep step is made whatever the swap answered.
EnsureModelUnchecked(r) ==
  /\ RunAt(r, "ensure")
  /\ resident' \in {resident, TRUE}
  /\ MoveRun(r, "deep step")
  /\ evicted' = evicted \ {r}
  /\ UNCHANGED <<lease, queueVars>>

\* ensure_deep_model, outside any lease; without it the deep step is left out.
EnsureModel(r) ==
  /\ RunAt(r, "ensure")
  /\ \E ok \in BOOLEAN :
       /\ resident' = (resident \/ ok)
       /\ MoveRun(r, IF ok THEN "deep step" ELSE AfterDeepStep(r))
  /\ evicted' = evicted \ {r}
  /\ UNCHANGED <<lease, queueVars>>

\* Wrong: an error leaves the step before its end.
RebuildKeepingLease(r) ==
  /\ RunAt(r, "rebuilding")
  /\ lease' \in {lease, NoRun}
  /\ resident' = FALSE
  /\ evicted' = {q \in ConsolidationRuns \ {r} : RunAt(q, "deep step")}
  /\ MoveRun(r, AfterDeepStep(r))
  /\ UNCHANGED queueVars

\* The digest or the personality vector, rebuilt or failed; then release, for
\* every run alike, and the end of the lease.
Rebuild(r) ==
  /\ RunAt(r, "rebuilding")
  /\ lease' = NoRun
  /\ resident' = FALSE
  /\ evicted' = {q \in ConsolidationRuns \ {r} : RunAt(q, "deep step")}
  /\ MoveRun(r, AfterDeepStep(r))
  /\ UNCHANGED queueVars

\* hook_opinion_formation, which asks the language model as well.
FormOpinions(r) ==
  /\ RunAt(r, "opinions")
  /\ MoveRun(r, "log")
  /\ UNCHANGED <<guarded, queueVars, evicted>>

-----------------------------------------------------------------------------
(* The reflexa queue.                                                      *)

SavesAt(s, where) == saves[s].at = where
SavesOn(u, where) == {s \in Savers : SavesAt(s, where) /\ saves[s].user = u}

\* load_queue, which takes an empty file for no actions; text is what a save will
\* write, as far as it is known.
LoadCopy(s, u, text) ==
  /\ u \notin unreadable
  /\ saves' = [saves EXCEPT ![s] = [NoSave EXCEPT !.at = "loaded", !.user = u, !.loaded = queue[u],
                                                  !.text = text]]
  /\ overtaken' = IF SavesOn(u, "emptied") = {} THEN overtaken ELSE overtaken \cup {s}

\* save_queue, std::fs::write: the file is opened and emptied ...
EmptyFile(s, text, resolved) ==
  LET u == saves[s].user
  IN /\ queue' = [queue EXCEPT ![u] = {}]
     /\ unreadable' = unreadable \ {u}
     /\ saves' = [saves EXCEPT ![s].at = "emptied", ![s].text = text, ![s].resolved = resolved]
     /\ overtaken' = (overtaken \cup SavesOn(u, "loaded")) \ {s}
     /\ IF s \in overtaken
          THEN /\ spoiled' = spoiled \cup {u}
               /\ UNCHANGED owed
          ELSE /\ spoiled' = spoiled \ {u}
               /\ owed' = [owed EXCEPT ![u] = IF u \in spoiled THEN saves[s].loaded ELSE @]

\* ... and the text written to it, or a part of it, or nothing.
FillFile(s) ==
  LET u == saves[s].user
  IN /\ SavesAt(s, "emptied")
     /\ saves' = [saves EXCEPT ![s] = NoSave]
     /\ overtaken' = overtaken \ {s}
     /\ \/ /\ queue' = [queue EXCEPT ![u] = saves[s].text]
           /\ unreadable' = unreadable \ {u}
           /\ owed' = [owed EXCEPT ![u] = (@ \ saves[s].resolved)
                                            \cup (saves[s].text \ saves[s].loaded)]
           /\ UNCHANGED spoiled
        \/ /\ unreadable' \in {unreadable, unreadable \cup {u}}
           /\ spoiled' = spoiled \cup {u}
           /\ UNCHANGED <<queue, owed>>

\* The copy is given up: the file could not be opened, or nothing is to be saved.
DropCopy(s) ==
  /\ saves' = [saves EXCEPT ![s] = NoSave]
  /\ overtaken' = overtaken \ {s}
  /\ UNCHANGED <<queue, unreadable, owed, spoiled>>

\* hook_reflexa_queue, process_queue: the user's actions are taken, if the file
\* can be read and has some ...
LoadQueue(r) ==
  /\ RunAt(r, "reflexa")
  /\ \/ /\ queue[run[r].user] # {}
        /\ LoadCopy(r, run[r].user, {})
        /\ MoveRun(r, "resolving")
     \/ /\ MoveRun(r, "log")
        /\ UNCHANGED <<saves, overtaken>>
  /\ UNCHANGED <<guarded, queue, unreadable, owed, spoiled, evicted>>

\* Wrong: the user's bucket is cleared, whatever the language model answered.
SaveQueueCleared(r) ==
  /\ RunAt(r, "resolving")
  /\ SavesAt(r, "loaded")
  /\ \E deferred \in SUBSET (saves[r].loaded \cap Contradictions) :
       EmptyFile(r, {}, saves[r].loaded \ deferred)
  /\ UNCHANGED <<guarded, run, evicted>>

\* ... and resolved, except contradictions the language model failed on, which
\* are left to be saved.
SaveQueue(r) ==
  /\ RunAt(r, "resolving")
  /\ SavesAt(r, "loaded")
  /\ \/ /\ \E deferred \in SUBSET (saves[r].loaded \cap Contradictions) :
             EmptyFile(r, deferred, saves[r].loaded \ deferred)
        /\ UNCHANGED run
     \/ /\ DropCopy(r)
        /\ MoveRun(r, "log")
  /\ UNCHANGED <<guarded, evicted>>

\* Failed or not, the save is the last step of process_queue.
QueueSaved(r) ==
  /\ RunAt(r, "resolving")
  /\ FillFile(r)
  /\ MoveRun(r, "log")
  /\ UNCHANGED <<guarded, evicted>>

\* queue_action in a turn, one turn at a time: load, dedup, push ...
LoadToQueue(u, a) ==
  /\ SavesAt(QueueingTurn, "none")
  /\ a \notin queue[u]
  /\ LoadCopy(QueueingTurn, u, queue[u] \cup {a})
  /\ UNCHANGED <<guarded, run, queue, unreadable, owed, spoiled, evicted>>

\* ... and save.
SaveToQueue ==
  /\ SavesAt(QueueingTurn, "loaded")
  /\ EmptyFile(QueueingTurn, saves[QueueingTurn].text, {}) \/ DropCopy(QueueingTurn)
  /\ UNCHANGED <<guarded, run, evicted>>

ActionQueued ==
  /\ FillFile(QueueingTurn)
  /\ UNCHANGED <<guarded, run, evicted>>

-----------------------------------------------------------------------------
(* The end of a run, and of the process.                                   *)

\* log.append: its failure ends the run, and the users after this one are left.
AppendLog(r) ==
  /\ RunAt(r, "log")
  /\ \/ /\ run[r].user < LastUser
        /\ run' = [run EXCEPT ![r] = [NotYet EXCEPT !.kind = run[r].kind, !.user = run[r].user + 1,
                                                    !.at = FirstStep(run[r].kind)]]
     \/ run' = [run EXCEPT ![r] = [NotYet EXCEPT !.kind = run[r].kind, !.at = "done"]]
  /\ UNCHANGED <<guarded, queueVars, evicted>>

\* The process is killed: the runs and turns are gone, and so is the guard; the
\* model stays where it is, and a file that was emptied is left to what had been
\* written.
ProcessKilled ==
  LET halfway == {u \in SleepUsers : SavesOn(u, "emptied") # {}}
  IN /\ lease' = NoRun
     /\ run' = [r \in ConsolidationRuns |->
                  IF RunAt(r, "not started") THEN run[r]
                  ELSE [NotYet EXCEPT !.kind = run[r].kind, !.at = "done"]]
     /\ \E begun \in SUBSET halfway : unreadable' = unreadable \cup begun
     /\ saves' = [s \in Savers |-> NoSave]
     /\ spoiled' = spoiled \cup halfway
     /\ overtaken' = {}
     /\ evicted' = {}
     /\ UNCHANGED <<resident, queue, owed>>

RunStep(r) ==
  \/ BeginStep(r, "traits", "tuning")
  \/ TuneTraits(r)
  \/ EnsureModel(r)
  \/ BeginStep(r, "deep step", "rebuilding")
  \/ Rebuild(r)
  \/ FormOpinions(r)
  \/ LoadQueue(r)
  \/ SaveQueue(r)
  \/ QueueSaved(r)
  \/ AppendLog(r)

SleepNext ==
  \/ \E r \in ConsolidationRuns : StartRun(r) \/ RunStep(r)
  \/ \E u \in SleepUsers, a \in Actions : LoadToQueue(u, a)
  \/ SaveToQueue
  \/ ActionQueued
  \/ ProcessKilled

SleepSpec == SleepInit /\ [][SleepNext]_sleepVars

\* The runtime goes on with every run that can go on; nothing obliges one to start.
SleepFairness == \A r \in ConsolidationRuns : WF_sleepVars(RunStep(r))

-----------------------------------------------------------------------------
(* What consolidation promises.                                            *)

\* The type invariant: the guard is held by the one run that is inside a step, and
\* a run has a copy of its user's queue exactly while it resolves it.
SleepTypeOK ==
  /\ lease \in ConsolidationRuns \cup {NoRun}
  /\ resident \in BOOLEAN
  /\ run \in [ConsolidationRuns ->
               [kind : {"none", "nightly", "weekly", "immediate"},
                at : {"not started", "traits", "tuning", "ensure", "deep step", "rebuilding",
                      "opinions", "reflexa", "resolving", "log", "done"},
                user : SleepUsers]]
  /\ \A r \in ConsolidationRuns :
       /\ run[r].at \in {"tuning", "rebuilding"} <=> lease = r
       /\ RunAt(r, "resolving") <=> ~SavesAt(r, "none")
  /\ queue \in [SleepUsers -> SUBSET Actions]
  /\ saves \in [Savers -> [at : {"none", "loaded", "emptied"}, user : SleepUsers,
                           loaded : SUBSET Actions, text : SUBSET Actions,
                           resolved : SUBSET Actions]]
  /\ evicted \subseteq ConsolidationRuns
  /\ owed \in [SleepUsers -> SUBSET Actions]
  /\ overtaken \subseteq Savers
  /\ unreadable \cup spoiled \subseteq SleepUsers

\* sleep_time.rs:146 "swaps it into VRAM for the duration of a consolidation
\* step": a layer is rebuilt with the deep model loaded, unless another run
\* released it after this one had made sure of it.
RebuildsWithTheModel ==
  \A r \in ConsolidationRuns : RunAt(r, "rebuilding") => resident \/ r \in evicted

\* retrieval_reflexa.rs:485 "now cleared (minus anything re-deferred)": the file
\* holds the actions that were queued and are not resolved, no other and no fewer,
\* but for those a save under way has in hand; so it is over loads, deferrals,
\* saves that cannot open it and kills outside a save.  Two things are excepted,
\* until the next save that goes well: a save from a copy that another save had
\* overtaken, and a save that failed or was killed after it emptied the file, as
\* std::fs::write is no replacement of the file.
QueuedActionsAreKept ==
  \A u \in SleepUsers \ spoiled :
    /\ u \notin unreadable
    /\ owed[u] = queue[u] \cup UNION {saves[s].loaded : s \in SavesOn(u, "emptied")}

\* Every run comes to its end, its own or the process's, whatever fails on the way
\* and however runs and user turns wait for each other.
RunsFinish ==
  \A r \in ConsolidationRuns : ~RunAt(r, "not started") ~> RunAt(r, "done")
=============================================================================
