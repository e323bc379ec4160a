----------------------------- MODULE ToolGrants -----------------------------
(***************************************************************************)
(* The tools granted to a user: one comma-separated setting that `users    *)
(* grant-tool` (crates/lumina-core/src/users/cli.rs) and the Matrix        *)
(* command /admin grant read, extend and write whole, each over a          *)
(* connection of its own and without a transaction.                        *)
(***************************************************************************)
EXTENDS Naturals, FiniteSets

CONSTANTS
  Granters,    \* commands that run at once
  Grantees,    \* users
  GrantTools

VARIABLES
  toolGrants,  \* toolGrants[u]: table user_settings, key granted_tools
  granting,    \* granting[c]: for whom c writes, and which list
  (* history *)
  outOfDate,   \* commands whose list another one's write overtook
  lateGrant    \* whether such a list was written

grantVars == <<toolGrants, granting, outOfDate, lateGrant>>

-----------------------------------------------------------------------------
NoGrant == [users |-> {}, list |-> {}]
Granting(u) == {c \in Granters : u \in granting[c].users}

GrantsInit ==
  /\ toolGrants = [u \in Grantees |-> {}]
  /\ granting = [c \in Granters |-> NoGrant]
  /\ outOfDate = {}
  /\ lateGrant = FALSE

\* Wrong: the setting becomes the tool.
ReadGrantsOnly(c, u, t) ==
  /\ granting[c] = NoGrant
  /\ t \notin toolGrants[u]
  /\ granting' = [granting EXCEPT ![c] = [users |-> {u}, list |-> {t}]]
  /\ UNCHANGED <<toolGrants, outOfDate, lateGrant>>

\* get_user_setting; a tool that is there already ends the command.
ReadGrants(c, u, t) ==
  /\ granting[c] = NoGrant
  /\ t \notin toolGrants[u]
  /\ granting' = [granting EXCEPT ![c] = [users |-> {u}, list |-> toolGrants[u] \cup {t}]]
  /\ UNCHANGED <<toolGrants, outOfDate, lateGrant>>

\* set_user_setting: an upsert.
WriteGrants(c) ==
  /\ granting[c] # NoGrant
  /\ toolGrants' = [u \in Grantees |-> IF u \in granting[c].users THEN granting[c].list ELSE toolGrants[u]]
  /\ granting' = [granting EXCEPT ![c] = NoGrant]
  /\ outOfDate' = (outOfDate \cup UNION {Granting(u) : u \in granting[c].users}) \ {c}
  /\ lateGrant' = (lateGrant \/ c \in outOfDate)

\* The user is gone, the database is locked, or the process is killed.
GrantFails(c) ==
  /\ granting[c] # NoGrant
  /\ granting' = [granting EXCEPT ![c] = NoGrant]
  /\ outOfDate' = outOfDate \ {c}
  /\ UNCHANGED <<toolGrants, lateGrant>>

GrantsNext ==
  \E c \in Granters :
    \/ \E u \in Grantees, t \in GrantTools : ReadGrants(c, u, t)
    \/ WriteGrants(c)
    \/ GrantFails(c)

GrantsSpec == GrantsInit /\ [][GrantsNext]_grantVars

-----------------------------------------------------------------------------
(* What the grants promise.                                                *)

\* The type invariant.
GrantsTypeOK ==
  /\ toolGrants \in [Grantees -> SUBSET GrantTools]
  /\ granting \in [Granters -> [users : SUBSET Grantees, list : SUBSET GrantTools]]
  /\ \A c \in Granters : Cardinality(granting[c].users) <= 1
  /\ outOfDate \subseteq Granters
  /\ lateGrant \in BOOLEAN

\* cli.rs:234 "Tool grants are stored": a tool that was granted stays granted,
\* whoever grants others to the same user, unless two grants for one user
\* overlapped.
GrantsAreKept ==
  [][~lateGrant' => \A u \in Grantees : toolGrants[u] \subseteq toolGrants'[u]]_grantVars
=============================================================================
