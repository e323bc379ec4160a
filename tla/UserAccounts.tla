---------------------------- MODULE UserAccounts ----------------------------
(***************************************************************************)
(* The users database (crates/lumina-core/src/users): accounts, their      *)
(* roles and linked channels, as the commands `lumina-core users ...`      *)
(* change them.                                                            *)
(*                                                                         *)
(* Every command is a process of its own with a connection of its own, and *)
(* no transaction spans two statements: what one command reads, another    *)
(* may change before the first one writes.  A command looks its user up    *)
(* twice in a row; the second look-up stands for both, as either ends the  *)
(* command when the user is not there.                                     *)
(***************************************************************************)
EXTENDS Integers, FiniteSets

CONSTANTS
  Commands,    \* command processes that run at once
  UserIds,     \* ids an INSERT can draw; a row is never inserted twice
  NoUser,
  Channels     \* identities on Matrix, Telegram, HTTP ...

ASSUME UsersAssumption == IsFiniteSet(UserIds) /\ NoUser \notin UserIds

VARIABLES
  account,     \* table users: account[u] is a row, or a state without one
  owner,       \* table channel_identities: the user a channel is linked to
  command,     \* command[c]: what c does next, and for whom
  (* history *)
  outdated,    \* commands whose last read another command's write overtook
  lateRole,    \* whether an outdated demotion or disabling was written
  lateLinks,   \* channels linked while their user was being removed
  removedAdmin \* whether an enabled admin was removed

usersPast == <<outdated, lateRole, lateLinks, removedAdmin>>
tables == <<account, owner>>
usersVars == <<tables, command, usersPast>>

-----------------------------------------------------------------------------
Roles == {"admin", "member"}   \* a guest is to these commands what a member is
Unused == [role |-> "none", enabled |-> FALSE]
Removed == [role |-> "removed", enabled |-> FALSE]
Row(role) == [role |-> role, enabled |-> TRUE]

Idle == [next |-> "read", user |-> NoUser, arg |-> {}]

Present(u) == account[u].role \in Roles
Admins == {u \in UserIds : account[u] = Row("admin")}   \* count_admins

Plan(c, what, u, arg) == command' = [command EXCEPT ![c] = [next |-> what, user |-> u, arg |-> arg]]
Doing(c, what) == command[c].next = what

\* The command is over, having written rows the other commands read.
Done(c) == command' = [command EXCEPT ![c] = Idle]
Quiet(c) == Done(c) /\ outdated' = outdated \ {c}
Overtake(c, others) == Done(c) /\ outdated' = (outdated \cup others) \ {c}
Planning(whats) == {c \in Commands : command[c].next \in whats}
Demotions == Planning({"demote", "disable"})
Staying(u) == Present(u) /\ \A c \in Commands : ~(Doing(c, "drop") /\ command[c].user = u)

UsersInit ==
  /\ account = [u \in UserIds |-> Unused]
  /\ owner = [ch \in Channels |-> NoUser]
  /\ command = [c \in Commands |-> Idle]
  /\ outdated = {}
  /\ lateRole = FALSE
  /\ lateLinks = {}
  /\ removedAdmin = FALSE

-----------------------------------------------------------------------------
(* What a command reads.                                                   *)

\* create_user: the first user is an admin, whatever was asked for.
CountUsers(c, role) ==
  /\ Doing(c, "read")
  /\ Plan(c, "insert", NoUser, {IF \E u \in UserIds : Present(u) THEN role ELSE "admin"})
  /\ UNCHANGED <<tables, usersPast>>

\* Wrong: the guard counts the disabled admins.
CheckAdminsAny(c, u, what, role) ==
  /\ Doing(c, "read")
  /\ Present(u)
  /\ account[u].role = "admin" => Cardinality({v \in UserIds : account[v].role = "admin"}) > 1
  /\ Plan(c, what, u, {role})
  /\ UNCHANGED <<tables, usersPast>>

\* set_role and set_enabled: an admin is left out of the ones that count only
\* while there is another; the write names no row it has read.
CheckAdmins(c, u, what, role) ==
  /\ Doing(c, "read")
  /\ Present(u)
  /\ account[u].role = "admin" => Cardinality(Admins) > 1
  /\ Plan(c, what, u, {role})
  /\ UNCHANGED <<tables, usersPast>>

\* get_by_id, in the commands that have no guard.
FindUser(c, u, what, arg) ==
  /\ Doing(c, "read")
  /\ Present(u)
  /\ Plan(c, what, u, arg)
  /\ UNCHANGED <<tables, usersPast>>

\* link_channel: a channel of another user is refused, one of this user only
\* verified again.
FindChannel(c, ch) ==
  /\ Doing(c, "found")
  /\ IF owner[ch] = NoUser
       THEN Plan(c, "link", command[c].user, {ch}) /\ UNCHANGED outdated
       ELSE Quiet(c)
  /\ UNCHANGED <<tables, lateRole, lateLinks, removedAdmin>>

-----------------------------------------------------------------------------
(* What it writes.                                                         *)

InsertUser(c) ==
  /\ Doing(c, "insert")
  /\ \E u \in UserIds, role \in command[c].arg :
       /\ account[u] = Unused
       /\ account' = [account EXCEPT ![u] = Row(role)]
  /\ Quiet(c)
  /\ UNCHANGED <<owner, lateRole, lateLinks, removedAdmin>>

\* An UPDATE of a row that is gone changes nothing.
WriteRole(c) ==
  /\ command[c].next \in {"demote", "set"}
  /\ LET u == command[c].user
     IN account' = IF Present(u)
                     THEN [account EXCEPT ![u].role = CHOOSE role \in command[c].arg : TRUE]
                     ELSE account
  /\ lateRole' = (lateRole \/ (Doing(c, "demote") /\ c \in outdated))
  /\ Overtake(c, Demotions)
  /\ UNCHANGED <<owner, lateLinks, removedAdmin>>

WriteEnabled(c) ==
  /\ command[c].next \in {"disable", "enable"}
  /\ LET u == command[c].user
     IN account' = IF Present(u)
                     THEN [account EXCEPT ![u].enabled = Doing(c, "enable")]
                     ELSE account
  /\ lateRole' = (lateRole \/ (Doing(c, "disable") /\ c \in outdated))
  /\ Overtake(c, Demotions)
  /\ UNCHANGED <<owner, lateLinks, removedAdmin>>

\* Wrong: the channels are left to a cascade the database does not do.
DeleteNoChannels(c) ==
  /\ Doing(c, "remove")
  /\ Plan(c, "drop", command[c].user, {})
  /\ UNCHANGED <<account, owner, usersPast>>

\* delete: the channels first, in a statement of their own ...
DeleteChannels(c) ==
  /\ Doing(c, "remove")
  /\ owner' = [ch \in Channels |-> IF owner[ch] = command[c].user THEN NoUser ELSE owner[ch]]
  /\ Plan(c, "drop", command[c].user, {})
  /\ UNCHANGED <<account, usersPast>>

\* ... then the row.
DeleteUser(c) ==
  /\ Doing(c, "drop")
  /\ LET u == command[c].user
     IN /\ account' = [account EXCEPT ![u] = Removed]
        /\ removedAdmin' = (removedAdmin \/ u \in Admins)
  /\ Overtake(c, Demotions)
  /\ UNCHANGED <<owner, lateRole, lateLinks>>

\* INSERT into channel_identities: the primary key refuses a channel that was
\* linked meanwhile.
LinkChannel(c) ==
  /\ Doing(c, "link")
  /\ LET u == command[c].user
         free == {ch \in command[c].arg : owner[ch] = NoUser}
     IN /\ owner' = [ch \in Channels |-> IF ch \in free THEN u ELSE owner[ch]]
        /\ lateLinks' = IF Staying(u) THEN lateLinks ELSE lateLinks \cup free
  /\ Quiet(c)
  /\ UNCHANGED <<account, lateRole, removedAdmin>>

UnlinkChannel(c, ch) ==
  /\ Doing(c, "read")
  /\ owner' = [owner EXCEPT ![ch] = NoUser]
  /\ lateLinks' = lateLinks \ {ch}
  /\ UNCHANGED <<account, command, outdated, lateRole, removedAdmin>>

\* The process is killed, or a statement finds the database locked.
CommandFails(c) ==
  /\ ~Doing(c, "read")
  /\ Quiet(c)
  /\ UNCHANGED <<tables, lateRole, lateLinks, removedAdmin>>

CommandReads(c) ==
  \/ \E role \in Roles : CountUsers(c, role)
  \/ \E ch \in Channels : FindChannel(c, ch)
  \/ \E u \in UserIds :
       \/ \E role \in Roles \ {"admin"} : CheckAdmins(c, u, "demote", role)
       \/ CheckAdmins(c, u, "disable", "none")
       \/ FindUser(c, u, "set", {"admin"})
       \/ FindUser(c, u, "enable", {})
       \/ FindUser(c, u, "remove", {})
       \/ FindUser(c, u, "found", {})

CommandWrites(c) ==
  \/ InsertUser(c)
  \/ WriteRole(c)
  \/ WriteEnabled(c)
  \/ DeleteChannels(c)
  \/ DeleteUser(c)
  \/ LinkChannel(c)
  \/ \E ch \in Channels : UnlinkChannel(c, ch)

UsersNext == \E c \in Commands : CommandReads(c) \/ CommandWrites(c) \/ CommandFails(c)

UsersSpec == UsersInit /\ [][UsersNext]_usersVars

-----------------------------------------------------------------------------
(* What the users database promises.                                       *)

\* The type invariant: a command that has nothing to write names no user.
UsersTypeOK ==
  /\ account \in [UserIds -> {Unused, Removed} \cup [role : Roles, enabled : BOOLEAN]]
  /\ owner \in [Channels -> UserIds \cup {NoUser}]
  /\ \A c \in Commands :
       /\ command[c].user \in UserIds \cup {NoUser}
       /\ command[c].user = NoUser <=> command[c].next \in {"read", "insert"}
       /\ command[c].next = "insert" => command[c].arg \subseteq Roles
       /\ command[c].next = "link" => command[c].arg \subseteq Channels
  /\ outdated \subseteq Commands
  /\ lateLinks \subseteq Channels
  /\ {lateRole, removedAdmin} \subseteq BOOLEAN

\* users/mod.rs:261 "Prevents the last Admin from being demoted" and 287
\* "Refuses to disable the last active admin": somebody can always administer
\* the users, unless an admin was removed, which nothing refuses, or a role was
\* written after another command had changed what its guard read.
AnAdminRemains ==
  (\E u \in UserIds : Present(u)) /\ ~removedAdmin /\ ~lateRole => Admins # {}

\* users/mod.rs:226 "removes all channel_identities rows for this user so they
\* cannot be returned by subsequent channel lookups": a linked channel belongs
\* to a user, unless the link was made while that user was being removed.
NoOrphanChannels ==
  \A ch \in Channels \ lateLinks : owner[ch] # NoUser => Present(owner[ch])
=============================================================================
