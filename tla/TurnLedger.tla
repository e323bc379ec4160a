------------------------------ MODULE TurnLedger ------------------------------
(***************************************************************************)
(* What conversation memory promises about a turn, whatever the buffer,    *)
(* the summarizer, the sweep and the retry queue do.                       *)
(*                                                                         *)
(* A recorded turn is live until its session closes.  A session closes as  *)
(* a whole; it is archived as a whole and at most once; and what is        *)
(* archived or lost stays so.  A turn can be lost only by the eviction of  *)
(* a live turn when its session grows, by the replacement of a session by  *)
(* a fresh one, by the drop of a whole closed session, or by a crash.      *)
(***************************************************************************)
EXTENDS Integers, Sequences

VARIABLES
  where,    \* where[i]: "live", "closed", "archived" or "lost", for turn i
  session   \* session[i]: the session of turn i, named by its first turn

ledger == <<where, session>>

Turns == 1..Len(where)

Sessions(w) == {session[i] : i \in {j \in Turns : where[j] = w}}

At(s, w) == {i \in Turns : session[i] = s /\ where[i] = w}

Move(S, w) == where' = [i \in Turns |-> IF i \in S THEN w ELSE where[i]]

Add(s, L) ==
  /\ where' = [i \in 1..(Len(session) + 1) |->
                 IF i > Len(session) THEN "live"
                 ELSE IF i \in L THEN "lost" ELSE where[i]]
  /\ session' = Append(session, s)

Init == where = <<>> /\ session = <<>>

\* A turn joins a live session, which may lose live turns of its own for it.
Extend == \E s \in Sessions("live") : \E L \in SUBSET At(s, "live") : Add(s, L)

\* A turn opens a session, alone or over the live session it replaces.
Open == \/ Add(Len(session) + 1, {})
        \/ \E s \in Sessions("live") : Add(Len(session) + 1, At(s, "live"))

\* Some sessions close, each with all its live turns.
Close == \E S \in SUBSET Sessions("live") :
           /\ Move(UNION {At(s, "live") : s \in S}, "closed")
           /\ UNCHANGED session

\* The store receives a closed session, all of it in one episode.
Archive == \E s \in Sessions("closed") : Move(At(s, "closed"), "archived") /\ UNCHANGED session

\* The retry queue drops a closed session.
Drop == \E s \in Sessions("closed") : Move(At(s, "closed"), "lost") /\ UNCHANGED session

\* A crash: what is not archived is lost.
Crash == /\ Move({i \in Turns : where[i] \in {"live", "closed"}}, "lost")
         /\ UNCHANGED session

Next == Extend \/ Open \/ Close \/ Archive \/ Drop \/ Crash

Spec == Init /\ [][Next]_ledger
=============================================================================
