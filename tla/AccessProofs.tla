---------------------------- MODULE AccessProofs ----------------------------
(***************************************************************************)
(* Who may do what, and what was approved: users, channels and tool        *)
(* grants, and the Matrix bot with its approvals, for any number of        *)
(* commands and messages.                                                  *)
(***************************************************************************)
EXTENDS UserAccounts, ToolGrants, MatrixDelivery, FiniteSetTheorems, TLAPS

-----------------------------------------------------------------------------
(***************************************************************************)
(* Users, channels and tool grants: an admin remains, no channel outlives  *)
(* its user, and grants are kept, where no write came between a command's  *)
(* read and its own write.                                                 *)
(***************************************************************************)

Nexts == {"read", "insert", "demote", "disable", "set", "enable", "remove", "found", "link", "drop"}
Accounts == {Unused, Removed} \cup [role : Roles, enabled : BOOLEAN]
Plans == [next : Nexts, user : UserIds \cup {NoUser}, arg : SUBSET (Roles \cup Channels \cup {"none"})]

\* A plan names a user unless it reads or inserts, and the role it writes.
Sound(k) ==
  /\ k.user = NoUser <=> k.next \in {"read", "insert"}
  /\ k.next \in {"insert", "demote"} => \E role \in Roles : k.arg = {role}
  /\ k.next = "set" => k.arg = {"admin"}
  /\ k.next = "link" => k.arg \subseteq Channels

UsersForms ==
  /\ account \in [UserIds -> Accounts]
  /\ owner \in [Channels -> UserIds \cup {NoUser}]
  /\ command \in [Commands -> Plans]
  /\ \A c \in Commands : Sound(command[c])
  /\ outdated \subseteq Commands
  /\ lateLinks \subseteq Channels
  /\ lateRole \in BOOLEAN
  /\ removedAdmin \in BOOLEAN

LEMMA FormsImplyType == UsersForms => UsersTypeOK
  BY DEF UsersForms, UsersTypeOK, Sound, Accounts, Plans

LEMMA IdleForms == Idle \in Plans /\ Sound(Idle)
  BY DEF Idle, Plans, Sound, Nexts

LEMMA InitForms == UsersInit => UsersForms
  BY IdleForms DEF UsersInit, UsersForms, Accounts

\* c goes on to a plan that is sound.
Planned(c) == \E k \in Plans : Sound(k) /\ command' = [command EXCEPT ![c] = k]

LEMMA PlanForms ==
  ASSUME NEW c \in Commands, NEW what \in Nexts, NEW u \in UserIds \cup {NoUser},
         NEW arg \in SUBSET (Roles \cup Channels \cup {"none"}), Plan(c, what, u, arg),
         Sound([next |-> what, user |-> u, arg |-> arg])
  PROVE  Planned(c)
<1> DEFINE k == [next |-> what, user |-> u, arg |-> arg]
<1>1. k \in Plans /\ command' = [command EXCEPT ![c] = k]
  BY DEF Plans, Plan
<1>. QED BY <1>1 DEF Planned

LEMMA DoneForms ==
  ASSUME NEW c \in Commands, Done(c)
  PROVE  Planned(c)
  BY IdleForms DEF Done, Planned

\* A step of c is one of its plan, everything else typed.
LEMMA FormsKept ==
  ASSUME UsersForms, NEW c \in Commands, Planned(c),
         account' \in [UserIds -> Accounts], owner' \in [Channels -> UserIds \cup {NoUser}],
         outdated' \subseteq Commands, lateLinks' \subseteq Channels,
         lateRole' \in BOOLEAN, removedAdmin' \in BOOLEAN
  PROVE  UsersForms'
<1>1. command' \in [Commands -> Plans] /\ \A d \in Commands : Sound(command'[d])
  BY DEF UsersForms, Planned
<1>. QED BY <1>1 DEF UsersForms

LEMMA ReadsPlan ==
  ASSUME UsersForms, NEW c \in Commands, CommandReads(c)
  PROVE  /\ Planned(c)
         /\ UNCHANGED <<account, owner, lateRole, lateLinks, removedAdmin>>
         /\ outdated' \subseteq Commands
<1>0. command[c] \in Plans /\ Sound(command[c]) /\ outdated \subseteq Commands
  BY DEF UsersForms
<1>. USE DEF tables, usersPast
<1>1. ASSUME NEW role \in Roles, CountUsers(c, role) PROVE Planned(c)
  <2>1. PICK given \in Roles : Plan(c, "insert", NoUser, {given})
    BY <1>1 DEF CountUsers, Roles
  <2>2. Sound([next |-> "insert", user |-> NoUser, arg |-> {given}])
    BY DEF Sound
  <2>3. "insert" \in Nexts /\ {given} \in SUBSET (Roles \cup Channels \cup {"none"})
    BY DEF Nexts
  <2>. QED BY <2>1, <2>2, <2>3, PlanForms
<1>2. ASSUME NEW u \in UserIds, NEW role \in Roles \ {"admin"}, CheckAdmins(c, u, "demote", role)
      PROVE  Planned(c)
  <2>1. Sound([next |-> "demote", user |-> u, arg |-> {role}])
    BY UsersAssumption DEF Sound
  <2>2. Plan(c, "demote", u, {role})
    BY <1>2 DEF CheckAdmins
  <2>3. "demote" \in Nexts /\ {role} \in SUBSET (Roles \cup Channels \cup {"none"})
    BY DEF Nexts
  <2>. QED BY <2>1, <2>2, <2>3, PlanForms
<1>3. ASSUME NEW u \in UserIds, CheckAdmins(c, u, "disable", "none") PROVE Planned(c)
  <2>1. Sound([next |-> "disable", user |-> u, arg |-> {"none"}])
    BY UsersAssumption DEF Sound
  <2>2. Plan(c, "disable", u, {"none"})
    BY <1>3 DEF CheckAdmins
  <2>3. "disable" \in Nexts /\ {"none"} \in SUBSET (Roles \cup Channels \cup {"none"})
    BY DEF Nexts
  <2>. QED BY <2>1, <2>2, <2>3, PlanForms
<1>4. ASSUME NEW u \in UserIds, NEW what \in {"set", "enable", "remove", "found"},
             NEW arg \in {{}, {"admin"}}, what = "set" => arg = {"admin"}, FindUser(c, u, what, arg)
      PROVE  Planned(c)
  <2>1. Sound([next |-> what, user |-> u, arg |-> arg])
    BY <1>4, UsersAssumption DEF Sound
  <2>2. Plan(c, what, u, arg)
    BY <1>4 DEF FindUser
  <2>3. what \in Nexts /\ arg \in SUBSET (Roles \cup Channels \cup {"none"})
    BY DEF Nexts, Roles
  <2>. QED BY <2>1, <2>2, <2>3, PlanForms
<1>5. ASSUME NEW ch \in Channels, FindChannel(c, ch) PROVE Planned(c)
  <2>1. command[c].user \in UserIds
    BY <1>0, <1>5 DEF FindChannel, Doing, Sound, Plans
  <2>2. Sound([next |-> "link", user |-> command[c].user, arg |-> {ch}])
    BY <2>1, UsersAssumption DEF Sound
  <2>3. CASE owner[ch] = NoUser
    <3>1. Plan(c, "link", command[c].user, {ch})
      BY <1>5, <2>3 DEF FindChannel
    <3>2. "link" \in Nexts /\ {ch} \in SUBSET (Roles \cup Channels \cup {"none"})
      BY DEF Nexts
    <3>. QED BY <2>1, <2>2, <3>1, <3>2, PlanForms
  <2>4. CASE owner[ch] # NoUser
    BY <1>5, <2>4, DoneForms DEF FindChannel, Quiet
  <2>. QED BY <2>3, <2>4
<1>6. Planned(c)
  BY <1>1, <1>2, <1>3, <1>4, <1>5 DEF CommandReads
<1>7. UNCHANGED <<account, owner, lateRole, lateLinks, removedAdmin>> /\ outdated' \subseteq Commands
  BY <1>0 DEF CommandReads, CountUsers, FindChannel, CheckAdmins, FindUser, Quiet
<1>. QED BY <1>6, <1>7

\* The row a role or a switch leaves.
LEMMA RowForms ==
  ASSUME UsersForms, NEW u \in UserIds, Present(u)
  PROVE  /\ \A role \in Roles : [account EXCEPT ![u].role = role] \in [UserIds -> Accounts]
         /\ \A on \in BOOLEAN : [account EXCEPT ![u].enabled = on] \in [UserIds -> Accounts]
<1>1. account[u] \in [role : Roles, enabled : BOOLEAN]
  BY DEF UsersForms, Accounts, Present, Roles, Unused, Removed
<1>. QED BY <1>1 DEF UsersForms, Accounts

LEMMA WritesForms ==
  ASSUME UsersForms, NEW c \in Commands, CommandWrites(c) \/ CommandFails(c)
  PROVE  UsersForms' /\ Planned(c)
<1>0. /\ command[c] \in Plans /\ Sound(command[c]) /\ outdated \subseteq Commands
      /\ account \in [UserIds -> Accounts] /\ owner \in [Channels -> UserIds \cup {NoUser}]
      /\ lateLinks \subseteq Channels /\ lateRole \in BOOLEAN /\ removedAdmin \in BOOLEAN
      /\ Demotions \subseteq Commands
  BY DEF UsersForms, Demotions, Planning
<1>. USE DEF tables, usersPast, Quiet, Overtake
<1>1. CASE InsertUser(c)
  <2>1. PICK u \in UserIds, role \in command[c].arg : account' = [account EXCEPT ![u] = Row(role)]
    BY <1>1 DEF InsertUser
  <2>2. Row(role) \in Accounts
    BY <1>0, <1>1, <2>1 DEF InsertUser, Doing, Sound, Row, Accounts
  <2>3. account' \in [UserIds -> Accounts]
    BY <1>0, <2>1, <2>2
  <2>. QED BY <1>0, <1>1, <2>3, DoneForms, FormsKept DEF InsertUser
<1>2. CASE WriteRole(c)
  <2>1. PICK role \in Roles : command[c].arg = {role}
    BY <1>0, <1>2 DEF WriteRole, Sound, Roles
  <2>2. command[c].user \in UserIds
    BY <1>0, <1>2 DEF WriteRole, Sound, Plans
  <2>3. account' \in [UserIds -> Accounts]
    BY <1>0, <1>2, <2>1, <2>2, RowForms DEF WriteRole
  <2>4. lateRole' \in BOOLEAN
    BY <1>2 DEF WriteRole
  <2>. QED BY <1>0, <1>2, <2>3, <2>4, DoneForms, FormsKept DEF WriteRole
<1>3. CASE WriteEnabled(c)
  <2>1. command[c].user \in UserIds
    BY <1>0, <1>3 DEF WriteEnabled, Sound, Plans
  <2>2. account' \in [UserIds -> Accounts]
    BY <1>0, <1>3, <2>1, RowForms DEF WriteEnabled, Doing
  <2>3. lateRole' \in BOOLEAN
    BY <1>3 DEF WriteEnabled
  <2>. QED BY <1>0, <1>3, <2>2, <2>3, DoneForms, FormsKept DEF WriteEnabled
<1>4. CASE DeleteChannels(c)
  <2>1. command[c].user \in UserIds
    BY <1>0, <1>4 DEF DeleteChannels, Doing, Sound, Plans
  <2>2. Planned(c)
    <3>1. Sound([next |-> "drop", user |-> command[c].user, arg |-> {}])
      BY <2>1, UsersAssumption DEF Sound
    <3>2. Plan(c, "drop", command[c].user, {})
      BY <1>4 DEF DeleteChannels
    <3>3. "drop" \in Nexts /\ {} \in SUBSET (Roles \cup Channels \cup {"none"})
      BY DEF Nexts
    <3>. HIDE DEF tables, usersPast, Quiet, Overtake
    <3>. QED BY <2>1, <3>1, <3>2, <3>3, PlanForms
  <2>3. owner' \in [Channels -> UserIds \cup {NoUser}]
    BY <1>0, <1>4 DEF DeleteChannels
  <2>. QED BY <1>0, <1>4, <2>2, <2>3, FormsKept DEF DeleteChannels
<1>5. CASE DeleteUser(c)
  <2>1. account' \in [UserIds -> Accounts]
    BY <1>0, <1>5 DEF DeleteUser, Accounts
  <2>2. removedAdmin' \in BOOLEAN
    BY <1>5 DEF DeleteUser
  <2>. QED BY <1>0, <1>5, <2>1, <2>2, DoneForms, FormsKept DEF DeleteUser
<1>6. CASE LinkChannel(c)
  <2>1. command[c].user \in UserIds /\ command[c].arg \subseteq Channels
    BY <1>0, <1>6 DEF LinkChannel, Doing, Sound, Plans
  <2>2. owner' \in [Channels -> UserIds \cup {NoUser}] /\ lateLinks' \subseteq Channels
    BY <1>0, <1>6, <2>1 DEF LinkChannel
  <2>. QED BY <1>0, <1>6, <2>2, DoneForms, FormsKept DEF LinkChannel
<1>7. ASSUME NEW ch \in Channels, UnlinkChannel(c, ch) PROVE UsersForms' /\ Planned(c)
  <2>1. Planned(c)
    <3>1. command' = [command EXCEPT ![c] = command[c]]
      BY <1>7 DEF UnlinkChannel, UsersForms
    <3>. QED BY <1>0, <3>1 DEF Planned
  <2>2. owner' \in [Channels -> UserIds \cup {NoUser}] /\ lateLinks' \subseteq Channels
    BY <1>0, <1>7 DEF UnlinkChannel
  <2>. QED BY <1>0, <1>7, <2>1, <2>2, FormsKept DEF UnlinkChannel
<1>8. CASE CommandFails(c)
  BY <1>0, <1>8, DoneForms, FormsKept DEF CommandFails
<1>. QED BY <1>1, <1>2, <1>3, <1>4, <1>5, <1>6, <1>7, <1>8 DEF CommandWrites

LEMMA StepForms ==
  ASSUME UsersForms, NEW c \in Commands, CommandReads(c) \/ CommandWrites(c) \/ CommandFails(c)
  PROVE  UsersForms' /\ \A d \in Commands \ {c} : command'[d] = command[d]
<1>1. UsersForms' /\ Planned(c)
  <2>1. CASE CommandReads(c)
    BY <2>1, ReadsPlan, FormsKept DEF UsersForms
  <2>2. CASE CommandWrites(c) \/ CommandFails(c)
    BY <2>2, WritesForms
  <2>. QED BY <2>1, <2>2
<1>2. command \in [Commands -> Plans]
  BY DEF UsersForms
<1>. QED BY <1>1, <1>2 DEF Planned

LEMMA UnchangedForms == UsersForms /\ UNCHANGED usersVars => UsersForms'
  BY DEF UsersForms, usersVars, tables, usersPast

-----------------------------------------------------------------------------
(* No channel outlives its user.                                           *)

\* A user about to be dropped has no channel left, but one linked meanwhile.
ChannelsInv ==
  /\ NoOrphanChannels
  /\ \A c \in Commands : Doing(c, "drop") =>
       \A ch \in Channels \ lateLinks : owner[ch] # command[c].user

LEMMA NewPlan ==
  ASSUME UsersForms, NEW c \in Commands, NEW what, NEW u, NEW arg,
         Plan(c, what, u, arg)
  PROVE  command'[c].next = what /\ command'[c].user = u /\ command'[c].arg = arg
  BY DEF UsersForms, Plan

LEMMA NewIdle ==
  ASSUME UsersForms, NEW c \in Commands, Done(c)
  PROVE  command'[c] = Idle /\ command'[c].next = "read"
  BY DEF UsersForms, Done, Idle

LEMMA NotDropping ==
  ASSUME UsersForms, NEW c \in Commands, CommandReads(c)
  PROVE  command'[c].next # "drop"
  BY NewPlan, NewIdle DEF CommandReads, CountUsers, CheckAdmins, FindUser, FindChannel, Quiet

LEMMA StepChannels ==
  ASSUME UsersForms, ChannelsInv, NEW c \in Commands,
         CommandReads(c) \/ CommandWrites(c) \/ CommandFails(c)
  PROVE  ChannelsInv'
<1>0. /\ UsersForms' /\ \A d \in Commands \ {c} : command'[d] = command[d]
      /\ account \in [UserIds -> Accounts] /\ owner \in [Channels -> UserIds \cup {NoUser}]
      /\ command[c] \in Plans /\ Sound(command[c])
  BY StepForms DEF UsersForms
<1>. USE DEF tables, usersPast
<1>1. ASSUME UNCHANGED <<owner, lateLinks>>, \A u \in UserIds : Present(u) => Present(u)',
             command'[c].next # "drop"
      PROVE  ChannelsInv'
  BY <1>0, <1>1 DEF ChannelsInv, NoOrphanChannels, Doing
<1>2. CASE CommandReads(c)
  <2>1. UNCHANGED <<account, owner, lateLinks>>
    BY <1>2, ReadsPlan
  <2>. QED BY <1>1, <1>2, <2>1, NotDropping DEF Present
<1>3. CASE InsertUser(c)
  <2>1. PICK u \in UserIds, role \in command[c].arg :
          account[u] = Unused /\ account' = [account EXCEPT ![u] = Row(role)]
    BY <1>3 DEF InsertUser
  <2>2. ~Present(u)
    BY <2>1 DEF Present, Unused, Roles
  <2>3. \A v \in UserIds : Present(v) => Present(v)'
    BY <1>0, <2>1, <2>2 DEF Present
  <2>. QED BY <1>1, <1>3, <2>3, NewIdle DEF InsertUser, Quiet
<1>4. CASE WriteRole(c)
  <2>1. PICK role \in Roles : command[c].arg = {role}
    BY <1>0, <1>4 DEF WriteRole, Sound, Roles
  <2>2. \A v \in UserIds : Present(v) => Present(v)'
    BY <1>0, <1>4, <2>1 DEF WriteRole, Present, UsersForms, Accounts, Unused, Removed
  <2>. QED BY <1>1, <1>4, <2>2, NewIdle DEF WriteRole, Overtake
<1>5. CASE WriteEnabled(c)
  <2>2. \A v \in UserIds : Present(v) => Present(v)'
    BY <1>0, <1>5 DEF WriteEnabled, Present, UsersForms, Accounts, Unused, Removed
  <2>. QED BY <1>1, <1>5, <2>2, NewIdle DEF WriteEnabled, Overtake
<1>6. CASE DeleteChannels(c)
  <2>1. \A ch \in Channels : owner'[ch] # command[c].user /\ owner'[ch] \in {owner[ch], NoUser}
    <3>1. command[c].user # NoUser
      BY <1>0, <1>6 DEF DeleteChannels, Doing, Sound
    <3>. QED BY <1>0, <1>6, <3>1 DEF DeleteChannels
  <2>2. command'[c].user = command[c].user /\ UNCHANGED <<account, lateLinks>>
    BY <1>6, NewPlan DEF DeleteChannels
  <2>3. NoOrphanChannels'
    BY <2>1, <2>2 DEF ChannelsInv, NoOrphanChannels, Present
  <2>4. ASSUME NEW d \in Commands, Doing(d, "drop")', NEW ch \in Channels \ lateLinks'
        PROVE  owner'[ch] # command'[d].user
    <3>1. CASE d = c
      BY <2>1, <2>2, <3>1
    <3>2. CASE d # c
      <4>1. Doing(d, "drop") /\ command'[d].user = command[d].user /\ command[d].user # NoUser
        BY <1>0, <2>4, <3>2 DEF Doing, UsersForms, Sound
      <4>. QED BY <2>1, <2>2, <2>4, <4>1 DEF ChannelsInv
    <3>. QED BY <3>1, <3>2
  <2>. QED BY <2>3, <2>4 DEF ChannelsInv
<1>7. CASE DeleteUser(c)
  <2>1. UNCHANGED <<owner, lateLinks>> /\ command'[c].next # "drop"
    BY <1>7, NewIdle DEF DeleteUser, Overtake
  <2>2. \A v \in UserIds : v # command[c].user /\ Present(v) => Present(v)'
    BY <1>0, <1>7 DEF DeleteUser, Present
  <2>3. \A ch \in Channels \ lateLinks : owner[ch] # command[c].user
    BY <1>7 DEF DeleteUser, ChannelsInv
  <2>4. NoOrphanChannels'
    BY <1>0, <2>1, <2>2, <2>3 DEF ChannelsInv, NoOrphanChannels
  <2>. QED BY <1>0, <2>1, <2>4 DEF ChannelsInv, Doing
<1>8. CASE LinkChannel(c)
  <2> DEFINE u    == command[c].user
             free == {ch \in command[c].arg : owner[ch] = NoUser}
  <2>0. command'[c].next # "drop" /\ UNCHANGED account
    BY <1>8, NewIdle DEF LinkChannel, Quiet
  <2>1. \A ch \in Channels : owner'[ch] = IF ch \in free THEN u ELSE owner[ch]
    BY <1>0, <1>8 DEF LinkChannel
  <2>2. CASE Staying(u)
    <3>1. lateLinks' = lateLinks
      BY <1>8, <2>2 DEF LinkChannel
    <3>2. Present(u) /\ \A d \in Commands : Doing(d, "drop") => command[d].user # u
      BY <2>2 DEF Staying
    <3>3. NoOrphanChannels'
      BY <2>0, <2>1, <3>1, <3>2 DEF ChannelsInv, NoOrphanChannels, Present
    <3>4. ASSUME NEW d \in Commands, Doing(d, "drop")', NEW ch \in Channels \ lateLinks'
          PROVE  owner'[ch] # command'[d].user
      <4>1. Doing(d, "drop") /\ command'[d] = command[d]
        BY <1>0, <2>0, <3>4 DEF Doing
      <4>. QED BY <2>1, <3>1, <3>2, <3>4, <4>1 DEF ChannelsInv
    <3>. QED BY <3>3, <3>4 DEF ChannelsInv
  <2>3. CASE ~Staying(u)
    <3>1. lateLinks' = lateLinks \cup free
      BY <1>8, <2>3 DEF LinkChannel
    <3>2. \A ch \in Channels \ lateLinks' : ch \notin lateLinks /\ owner'[ch] = owner[ch]
      BY <2>1, <3>1
    <3>. QED BY <1>0, <2>0, <3>2 DEF ChannelsInv, NoOrphanChannels, Present, Doing
  <2>. QED BY <2>2, <2>3
<1>9. ASSUME NEW ch \in Channels, UnlinkChannel(c, ch) PROVE ChannelsInv'
  <2>1. \A x \in Channels \ lateLinks' : x = ch \/ x \in Channels \ lateLinks
    BY <1>9 DEF UnlinkChannel
  <2>2. owner'[ch] = NoUser /\ \A x \in Channels \ {ch} : owner'[x] = owner[x]
    BY <1>0, <1>9 DEF UnlinkChannel
  <2>3. UNCHANGED <<account, command>>
    BY <1>9 DEF UnlinkChannel
  <2>4. \A d \in Commands : Doing(d, "drop") => command[d].user # NoUser
    BY DEF UsersForms, Sound, Doing
  <2>. QED BY <2>1, <2>2, <2>3, <2>4 DEF ChannelsInv, NoOrphanChannels, Present, Doing
<1>10. CASE CommandFails(c)
  <2>1. UNCHANGED <<account, owner, lateLinks>> /\ command'[c].next # "drop"
    BY <1>10, NewIdle DEF CommandFails, Quiet
  <2>. QED BY <1>1, <2>1 DEF Present
<1>. QED BY <1>2, <1>3, <1>4, <1>5, <1>6, <1>7, <1>8, <1>9, <1>10 DEF CommandWrites

\* Accounts, owners and commands keep their types: a command past its reads has a user
\* and writes a value of the kind it plans, for any number of users and commands.
THEOREM UsersTypeCorrect == UsersSpec => []UsersTypeOK
<1>1. UsersForms /\ [UsersNext]_usersVars => UsersForms'
  BY StepForms, UnchangedForms DEF UsersNext
<1>. QED BY <1>1, InitForms, FormsImplyType, PTL DEF UsersSpec

\* A linked channel belongs to a user there is, for any commands at once, unless it
\* was linked while its user was being removed.
THEOREM NoChannelOrphaned == UsersSpec => []NoOrphanChannels
<1> DEFINE Inv == UsersForms /\ ChannelsInv
<1>1. UsersInit => Inv
  <2>1. UsersInit => ChannelsInv
    BY DEF UsersInit, ChannelsInv, NoOrphanChannels, Doing, Idle
  <2>. QED BY <2>1, InitForms
<1>2. Inv /\ [UsersNext]_usersVars => Inv'
  <2> SUFFICES ASSUME Inv, [UsersNext]_usersVars PROVE Inv'
    OBVIOUS
  <2>1. CASE UsersNext
    BY <2>1, StepForms, StepChannels DEF UsersNext
  <2>2. CASE UNCHANGED usersVars
    <3>1. ChannelsInv'
      BY <2>2 DEF usersVars, tables, usersPast, ChannelsInv, NoOrphanChannels, Present, Doing
    <3>. QED BY <2>2, <3>1, UnchangedForms
  <2>. QED BY <2>1, <2>2
<1>3. Inv => NoOrphanChannels
  BY DEF ChannelsInv
<1>. QED BY <1>1, <1>2, <1>3, PTL DEF UsersSpec

-----------------------------------------------------------------------------
(* An admin remains.                                                       *)

\* A demotion whose read is still true leaves another admin, and a command that
\* would insert a member has seen an admin that is still there.
Covered(k, fresh, admins) ==
  /\ k.next \in {"demote", "disable"} /\ fresh => \E v \in admins : v # k.user
  /\ k.next = "insert" => k.arg = {"admin"} \/ admins # {}

AdminsInv ==
  ~removedAdmin /\ ~lateRole =>
    /\ (\E u \in UserIds : Present(u)) => Admins # {}
    /\ \A c \in Commands : Covered(command[c], c \notin outdated, Admins)

LEMMA AnotherAdmin ==
  ASSUME NEW u \in UserIds, Cardinality(Admins) > 1
  PROVE  \E v \in Admins : v # u
<1> SUFFICES ASSUME Admins \subseteq {u} PROVE FALSE
  OBVIOUS
<1>1. IsFiniteSet({u}) /\ Cardinality({u}) = 1
  BY FS_Singleton
<1>2. IsFiniteSet(Admins) /\ Cardinality(Admins) <= 1
  BY <1>1, FS_Subset
<1>3. Cardinality(Admins) \in Nat
  BY <1>2, FS_CardinalityType
<1>. QED BY <1>2, <1>3

LEMMA CheckedIsCovered ==
  ASSUME UsersForms, (\E v \in UserIds : Present(v)) => Admins # {},
         NEW u \in UserIds, Present(u), account[u].role = "admin" => Cardinality(Admins) > 1
  PROVE  \E v \in Admins : v # u
<1>1. CASE account[u].role = "admin"
  BY <1>1, AnotherAdmin
<1>2. CASE account[u].role # "admin"
  <2>1. u \notin Admins
    BY <1>2 DEF Admins, Row
  <2>. QED BY <2>1
<1>. QED BY <1>1, <1>2

\* What a step that changes no account must show.
LEMMA SameAdmins ==
  ASSUME AdminsInv, NEW c \in Commands, \A d \in Commands \ {c} : command'[d] = command[d],
         UNCHANGED <<account, lateRole, removedAdmin>>, outdated \ {c} \subseteq outdated',
         ~removedAdmin /\ ~lateRole => Covered(command'[c], c \notin outdated', Admins)
  PROVE  AdminsInv'
<1>1. Admins' = Admins /\ \A u \in UserIds : Present(u)' <=> Present(u)
  BY DEF Admins, Present
<1>2. ASSUME ~removedAdmin, ~lateRole, NEW d \in Commands
      PROVE  Covered(command'[d], d \notin outdated', Admins)
  <2>1. CASE d = c
    BY <1>2, <2>1
  <2>2. CASE d # c
    <3>1. command'[d] = command[d] /\ (d \in outdated => d \in outdated')
      BY <2>2
    <3>. QED BY <1>2, <3>1 DEF AdminsInv, Covered
  <2>. QED BY <2>1, <2>2
<1>. QED BY <1>1, <1>2 DEF AdminsInv

\* What a step that writes an account, and overtakes all that counted, must show.
LEMMA NewAdmins ==
  ASSUME UsersForms, AdminsInv, NEW c \in Commands, Overtake(c, Demotions),
         removedAdmin => removedAdmin', lateRole => lateRole',
         \A u \in UserIds : Present(u)' => Present(u),
         ~removedAdmin' /\ ~lateRole' /\ Admins # {} => Admins' # {}
  PROVE  AdminsInv'
<1> SUFFICES ASSUME ~removedAdmin', ~lateRole'
             PROVE  /\ (\E u \in UserIds : Present(u)') => Admins' # {}
                    /\ \A d \in Commands : Covered(command'[d], d \notin outdated', Admins')
  BY DEF AdminsInv
<1>1. (\E u \in UserIds : Present(u)') => Admins' # {}
  BY DEF AdminsInv
<1>2. ASSUME NEW d \in Commands PROVE Covered(command'[d], d \notin outdated', Admins')
  <2>1. CASE d = c
    BY <2>1, NewIdle DEF Covered, Overtake
  <2>2. CASE d # c
    <3>1. command'[d] = command[d]
      BY <2>2 DEF Overtake, Done, UsersForms
    <3>2. command[d].next \in {"demote", "disable"} => d \in outdated'
      BY <2>2 DEF Overtake, Demotions, Planning
    <3>3. command[d].next = "insert" => command[d].arg = {"admin"} \/ Admins' # {}
      BY DEF AdminsInv, Covered
    <3>. QED BY <3>1, <3>2, <3>3 DEF Covered
  <2>. QED BY <2>1, <2>2
<1>. QED BY <1>1, <1>2

LEMMA SameField ==
  ASSUME NEW role, NEW b
  PROVE  [[role |-> role, enabled |-> b] EXCEPT !.enabled = b] = [role |-> role, enabled |-> b]
  OBVIOUS

LEMMA KeptAdmin ==
  ASSUME NEW v \in UserIds, v \in Admins, account'[v] = account[v]
  PROVE  v \in Admins'
  BY DEF Admins

LEMMA NowAdmin ==
  ASSUME NEW v \in UserIds, account'[v] = Row("admin")
  PROVE  v \in Admins'
  BY DEF Admins, Row

LEMMA ReadsAdmins ==
  ASSUME UsersForms, AdminsInv, NEW c \in Commands, CommandReads(c)
  PROVE  AdminsInv'
<1>0. /\ \A d \in Commands \ {c} : command'[d] = command[d]
      /\ UNCHANGED <<account, lateRole, removedAdmin>>
      /\ outdated \ {c} \subseteq outdated'
  <2>1. outdated \ {c} \subseteq outdated'
    BY DEF CommandReads, CountUsers, FindChannel, CheckAdmins, FindUser, Quiet, usersPast
  <2>. QED BY <2>1, StepForms, ReadsPlan
<1>1. ASSUME ~removedAdmin, ~lateRole PROVE Covered(command'[c], c \notin outdated', Admins)
  <2>1. (\E v \in UserIds : Present(v)) => Admins # {}
    BY <1>1 DEF AdminsInv
  <2>2. ASSUME NEW role \in Roles, CountUsers(c, role) PROVE Covered(command'[c], TRUE, Admins)
    BY <2>1, <2>2, NewPlan DEF CountUsers, Covered
  <2>3. ASSUME NEW u \in UserIds, NEW what, NEW role, CheckAdmins(c, u, what, role),
               what \in {"demote", "disable"}
        PROVE  Covered(command'[c], TRUE, Admins)
    <3>1. \E v \in Admins : v # u
      BY <2>1, <2>3, CheckedIsCovered DEF CheckAdmins
    <3>2. command'[c].next = what /\ command'[c].user = u
      BY <2>3, NewPlan DEF CheckAdmins
    <3>. QED BY <2>3, <3>1, <3>2 DEF Covered
  <2>4. ASSUME NEW u \in UserIds, NEW what, NEW arg, FindUser(c, u, what, arg),
               what \in {"set", "enable", "remove", "found"}
        PROVE  Covered(command'[c], TRUE, Admins)
    BY <2>4, NewPlan DEF FindUser, Covered
  <2>5. ASSUME NEW ch \in Channels, FindChannel(c, ch) PROVE Covered(command'[c], TRUE, Admins)
    <3>1. command'[c].next \in {"link", "read"}
      BY <2>5, NewPlan, NewIdle DEF FindChannel, Quiet
    <3>. QED BY <3>1 DEF Covered
  <2>6. Covered(command'[c], TRUE, Admins)
    BY <2>2, <2>3, <2>4, <2>5 DEF CommandReads
  <2>. QED BY <2>6 DEF Covered
<1>. QED BY <1>0, <1>1, SameAdmins

LEMMA WritesAdmins ==
  ASSUME UsersForms, AdminsInv, NEW c \in Commands, CommandWrites(c) \/ CommandFails(c)
  PROVE  AdminsInv'
<1>0. /\ \A d \in Commands \ {c} : command'[d] = command[d]
      /\ account \in [UserIds -> Accounts]
      /\ command[c] \in Plans /\ Sound(command[c])
  BY StepForms DEF UsersForms
<1>. USE DEF tables, usersPast
<1>1. CASE InsertUser(c)
  <2>1. PICK u \in UserIds, role \in command[c].arg :
          account[u] = Unused /\ account' = [account EXCEPT ![u] = Row(role)]
    BY <1>1 DEF InsertUser
  <2>2. Admins \subseteq Admins' /\ (role = "admin" => Admins' # {})
    <3>1. account'[u] = Row(role) /\ \A v \in UserIds \ {u} : account'[v] = account[v]
      BY <1>0, <2>1
    <3>2. u \notin Admins
      <4>1. account[u].role = "none" /\ Row("admin").role = "admin"
        BY <2>1 DEF Unused, Row
      <4>. QED BY <4>1 DEF Admins
    <3>3. role = "admin" => u \in Admins'
      BY <3>1, NowAdmin
    <3>. QED BY <3>1, <3>2, <3>3, KeptAdmin DEF Admins
  <2>3. command[c].arg = {"admin"} => role = "admin"
    BY <2>1
  <2>4. ASSUME ~removedAdmin, ~lateRole PROVE Admins' # {}
    BY <1>1, <2>2, <2>3, <2>4 DEF AdminsInv, Covered, InsertUser, Doing
  <2>5. ASSUME ~removedAdmin, ~lateRole, NEW d \in Commands
        PROVE  Covered(command'[d], d \notin outdated', Admins')
    <3>1. CASE d = c
      BY <1>1, <3>1, NewIdle DEF InsertUser, Quiet, Covered
    <3>2. CASE d # c
      <4>1. command'[d] = command[d] /\ (d \in outdated <=> d \in outdated')
        BY <1>0, <1>1, <3>2 DEF InsertUser, Quiet
      <4>. QED BY <2>2, <2>5, <4>1 DEF AdminsInv, Covered
    <3>. QED BY <3>1, <3>2
  <2>6. UNCHANGED <<lateRole, removedAdmin>>
    BY <1>1 DEF InsertUser
  <2>. QED BY <2>4, <2>5, <2>6 DEF AdminsInv
<1>2. CASE WriteRole(c)
  <2>1. PICK role \in Roles : command[c].arg = {role}
    BY <1>0, <1>2 DEF WriteRole, Sound, Roles
  <2>2. account' = IF Present(command[c].user) THEN [account EXCEPT ![command[c].user].role = role]
                                               ELSE account
    BY <1>2, <2>1 DEF WriteRole
  <2>3. ASSUME NEW v \in Admins, v # command[c].user \/ role = "admin" PROVE v \in Admins'
    <3>0. v \in UserIds /\ account[v] = Row("admin")
      BY DEF Admins
    <3>1. CASE v # command[c].user \/ ~Present(v)
      BY <1>0, <2>2, <3>0, <3>1, KeptAdmin
    <3>2. CASE v = command[c].user /\ Present(v)
      <4>1. account'[v] = [account[v] EXCEPT !.role = "admin"]
        BY <1>0, <2>2, <2>3, <3>0, <3>2
      <4>2. account'[v] = Row("admin")
        BY <3>0, <4>1 DEF Row
      <4>. QED BY <3>0, <4>2, NowAdmin
    <3>. QED BY <3>1, <3>2
  <2>5. ~removedAdmin' /\ ~lateRole' /\ Admins # {} => Admins' # {}
    <3>1. CASE Doing(c, "set")
      <4>1. role = "admin"
        BY <1>0, <2>1, <3>1 DEF Doing, Sound
      <4>. QED BY <2>3, <4>1
    <3>2. CASE Doing(c, "demote")
      <4>1. ASSUME ~removedAdmin', ~lateRole' PROVE \E v \in Admins : v # command[c].user
        BY <1>2, <3>2, <4>1 DEF WriteRole, Doing, AdminsInv, Covered
      <4>. QED BY <2>3, <4>1
    <3>. QED BY <1>2, <3>1, <3>2 DEF WriteRole, Doing
  <2>6. \A v \in UserIds : Present(v)' => Present(v)
    BY <1>0, <2>2 DEF Present
  <2>. QED BY <1>2, <2>5, <2>6, NewAdmins DEF WriteRole
<1>3. CASE WriteEnabled(c)
  <2>1. ASSUME NEW v \in Admins, v # command[c].user \/ Doing(c, "enable") PROVE v \in Admins'
    <3>0. v \in UserIds /\ account[v] = Row("admin")
      BY DEF Admins
    <3>1. CASE v # command[c].user \/ ~Present(v)
      BY <1>0, <1>3, <3>0, <3>1, KeptAdmin DEF WriteEnabled
    <3>2. CASE v = command[c].user /\ Present(v)
      <4>1. account'[v] = [account[v] EXCEPT !.enabled = TRUE]
        BY <1>0, <1>3, <2>1, <3>0, <3>2 DEF WriteEnabled
      <4>2. [Row("admin") EXCEPT !.enabled = TRUE] = Row("admin")
        BY SameField DEF Row
      <4>3. account'[v] = Row("admin")
        BY <3>0, <4>1, <4>2
      <4>. QED BY <3>0, <4>3, NowAdmin
    <3>. QED BY <3>1, <3>2
  <2>2. ~removedAdmin' /\ ~lateRole' /\ Admins # {} => Admins' # {}
    <3>1. CASE Doing(c, "enable")
      BY <2>1, <3>1
    <3>2. CASE Doing(c, "disable")
      <4>1. ASSUME ~removedAdmin', ~lateRole' PROVE \E v \in Admins : v # command[c].user
        BY <1>3, <3>2, <4>1 DEF WriteEnabled, Doing, AdminsInv, Covered
      <4>. QED BY <2>1, <4>1
    <3>. QED BY <1>3, <3>1, <3>2 DEF WriteEnabled, Doing
  <2>3. \A v \in UserIds : Present(v)' => Present(v)
    BY <1>0, <1>3 DEF WriteEnabled, Present
  <2>. QED BY <1>3, <2>2, <2>3, NewAdmins DEF WriteEnabled
<1>4. CASE DeleteUser(c)
  <2>1. ~removedAdmin' => Admins \subseteq Admins'
    BY <1>0, <1>4 DEF DeleteUser, Admins
  <2>2. \A v \in UserIds : Present(v)' => Present(v)
    BY <1>0, <1>4 DEF DeleteUser, Present, Removed, Roles
  <2>. QED BY <1>4, <2>1, <2>2, NewAdmins DEF DeleteUser
<1>5. CASE DeleteChannels(c) \/ LinkChannel(c) \/ CommandFails(c)
  <2>1. command'[c].next \in {"drop", "read"}
    BY <1>5, NewPlan, NewIdle DEF DeleteChannels, LinkChannel, CommandFails, Quiet
  <2>2. Covered(command'[c], c \notin outdated', Admins)
    BY <2>1 DEF Covered
  <2>3. UNCHANGED <<account, lateRole, removedAdmin>> /\ outdated \ {c} \subseteq outdated'
    BY <1>5 DEF DeleteChannels, LinkChannel, CommandFails, Quiet
  <2>. QED BY <1>0, <2>2, <2>3, SameAdmins
<1>6. ASSUME NEW ch \in Channels, UnlinkChannel(c, ch) PROVE AdminsInv'
  BY <1>6 DEF UnlinkChannel, AdminsInv, Covered, Admins, Present
<1>. QED BY <1>1, <1>2, <1>3, <1>4, <1>5, <1>6 DEF CommandWrites

\* Somebody can always administer the users, unless an admin was removed or a
\* demotion was written after its guard had gone stale.
THEOREM AnAdminAlwaysRemains == UsersSpec => []AnAdminRemains
<1> DEFINE Inv == UsersForms /\ AdminsInv
<1>1. UsersInit => Inv
  <2>1. UsersInit => AdminsInv
    BY DEF UsersInit, AdminsInv, Covered, Idle, Present, Unused, Roles
  <2>. QED BY <2>1, InitForms
<1>2. Inv /\ [UsersNext]_usersVars => Inv'
  <2> SUFFICES ASSUME Inv, [UsersNext]_usersVars PROVE Inv'
    OBVIOUS
  <2>1. CASE UsersNext
    BY <2>1, StepForms, ReadsAdmins, WritesAdmins DEF UsersNext
  <2>2. CASE UNCHANGED usersVars
    <3>1. AdminsInv'
      BY <2>2 DEF usersVars, tables, usersPast, AdminsInv, Covered, Admins, Present
    <3>. QED BY <2>2, <3>1, UnchangedForms
  <2>. QED BY <2>1, <2>2
<1>3. Inv => AnAdminRemains
  BY DEF AdminsInv, AnAdminRemains
<1>. QED BY <1>1, <1>2, <1>3, PTL DEF UsersSpec

-----------------------------------------------------------------------------
(* The grants.                                                             *)

\* A command grants to one user at a time, for any number of commands and users.
THEOREM GrantsTypeCorrect == GrantsSpec => []GrantsTypeOK
<1> DEFINE Grants == [users : SUBSET Grantees, list : SUBSET GrantTools]
           Small(k) == k \in Grants /\ Cardinality(k.users) <= 1
           Put(c, k) == granting' = [granting EXCEPT ![c] = k]
<1>1. Small(NoGrant)
  BY FS_EmptySet DEF NoGrant
<1>2. \A u \in Grantees, list \in SUBSET GrantTools : Small([users |-> {u}, list |-> list])
  BY FS_Singleton
<1>3. GrantsInit => GrantsTypeOK
  BY <1>1 DEF GrantsInit, GrantsTypeOK
<1>4. ASSUME GrantsTypeOK, NEW c \in Granters, NEW k, Small(k), Put(c, k),
             toolGrants' \in [Grantees -> SUBSET GrantTools], outOfDate' \subseteq Granters,
             lateGrant' \in BOOLEAN
      PROVE  GrantsTypeOK'
  BY <1>4 DEF GrantsTypeOK
<1>5. ASSUME GrantsTypeOK, GrantsNext PROVE GrantsTypeOK'
  <2>. PICK c \in Granters : \/ \E u \in Grantees, t \in GrantTools : ReadGrants(c, u, t)
                            \/ WriteGrants(c)
                            \/ GrantFails(c)
    BY <1>5 DEF GrantsNext
  <2>1. ASSUME NEW u \in Grantees, NEW t \in GrantTools, ReadGrants(c, u, t) PROVE GrantsTypeOK'
    <3>1. toolGrants[u] \cup {t} \in SUBSET GrantTools
      BY <1>5 DEF GrantsTypeOK
    <3>2. Put(c, [users |-> {u}, list |-> toolGrants[u] \cup {t}])
      BY <2>1 DEF ReadGrants
    <3>3. /\ toolGrants' \in [Grantees -> SUBSET GrantTools] /\ outOfDate' \subseteq Granters
          /\ lateGrant' \in BOOLEAN
      BY <1>5, <2>1 DEF ReadGrants, GrantsTypeOK
    <3>. QED BY <1>2, <1>4, <1>5, <3>1, <3>2, <3>3
  <2>2. CASE WriteGrants(c)
    <3>1. Put(c, NoGrant)
      BY <2>2 DEF WriteGrants
    <3>2. granting[c].list \subseteq GrantTools /\ toolGrants \in [Grantees -> SUBSET GrantTools]
      BY <1>5 DEF GrantsTypeOK
    <3>3. toolGrants' \in [Grantees -> SUBSET GrantTools]
      BY <2>2, <3>2 DEF WriteGrants
    <3>4. outOfDate' \subseteq Granters /\ lateGrant' \in BOOLEAN
      BY <1>5, <2>2 DEF WriteGrants, GrantsTypeOK, Granting
    <3>. QED BY <1>1, <1>4, <1>5, <3>1, <3>3, <3>4
  <2>3. CASE GrantFails(c)
    <3>1. Put(c, NoGrant)
      BY <2>3 DEF GrantFails
    <3>2. /\ toolGrants' \in [Grantees -> SUBSET GrantTools] /\ outOfDate' \subseteq Granters
          /\ lateGrant' \in BOOLEAN
      BY <1>5, <2>3 DEF GrantFails, GrantsTypeOK
    <3>. QED BY <1>1, <1>4, <1>5, <3>1, <3>2
  <2>. QED BY <2>1, <2>2, <2>3
<1>6. GrantsTypeOK /\ UNCHANGED grantVars => GrantsTypeOK'
  BY DEF GrantsTypeOK, grantVars
<1>. QED BY <1>3, <1>5, <1>6, PTL DEF GrantsSpec

\* A list whose user nobody else has written still holds all of his grants.
GrantsInv ==
  /\ toolGrants \in [Grantees -> SUBSET GrantTools]
  /\ granting \in [Granters -> [users : SUBSET Grantees, list : SUBSET GrantTools]]
  /\ \A c \in Granters \ outOfDate : \A u \in granting[c].users : toolGrants[u] \subseteq granting[c].list

LEMMA StepGrants ==
  ASSUME GrantsInv, GrantsNext
  PROVE  GrantsInv' /\ (~lateGrant' => \A u \in Grantees : toolGrants[u] \subseteq toolGrants'[u])
<1>1. ASSUME NEW c \in Granters, NEW u \in Grantees, NEW t \in GrantTools, ReadGrants(c, u, t)
      PROVE  GrantsInv' /\ UNCHANGED toolGrants
  <2> DEFINE k == [users |-> {u}, list |-> toolGrants[u] \cup {t}]
  <2>1. k \in [users : SUBSET Grantees, list : SUBSET GrantTools]
    BY DEF GrantsInv
  <2>2. granting' = [granting EXCEPT ![c] = k] /\ UNCHANGED <<toolGrants, outOfDate>>
    BY <1>1 DEF ReadGrants
  <2>3. k.users = {u} /\ toolGrants[u] \subseteq k.list
    OBVIOUS
  <2> HIDE DEF k
  <2>. QED BY <2>1, <2>2, <2>3 DEF GrantsInv
<1>2. ASSUME NEW c \in Granters, GrantFails(c)
      PROVE  GrantsInv' /\ UNCHANGED toolGrants
  <2>1. NoGrant \in [users : SUBSET Grantees, list : SUBSET GrantTools] /\ NoGrant.users = {}
    BY DEF NoGrant
  <2>2. granting' = [granting EXCEPT ![c] = NoGrant] /\ UNCHANGED toolGrants /\ outOfDate' = outOfDate \ {c}
    BY <1>2 DEF GrantFails
  <2>. QED BY <2>1, <2>2 DEF GrantsInv
<1>3. ASSUME NEW c \in Granters, WriteGrants(c)
      PROVE  GrantsInv' /\ (~lateGrant' => \A u \in Grantees : toolGrants[u] \subseteq toolGrants'[u])
  <2>1. NoGrant \in [users : SUBSET Grantees, list : SUBSET GrantTools] /\ NoGrant.users = {}
    BY DEF NoGrant
  <2>2. granting' = [granting EXCEPT ![c] = NoGrant]
    BY <1>3 DEF WriteGrants
  <2>3. \A u \in Grantees : toolGrants'[u] = IF u \in granting[c].users THEN granting[c].list ELSE toolGrants[u]
    BY <1>3 DEF WriteGrants
  <2>4. toolGrants' \in [Grantees -> SUBSET GrantTools]
    BY <1>3 DEF WriteGrants, GrantsInv
  <2>5. ASSUME NEW d \in Granters \ outOfDate', NEW u \in granting'[d].users
        PROVE  toolGrants'[u] \subseteq granting'[d].list
    <3>1. d # c /\ granting'[d] = granting[d] /\ u \in Grantees
      BY <2>1, <2>2, <2>5 DEF GrantsInv
    <3>2. d \notin outOfDate /\ (u \in granting[c].users => d \notin Granting(u))
      BY <1>3, <2>5, <3>1 DEF WriteGrants
    <3>3. u \notin granting[c].users
      BY <2>5, <3>1, <3>2 DEF Granting
    <3>. QED BY <2>3, <2>5, <3>1, <3>2, <3>3 DEF GrantsInv
  <2>6. GrantsInv'
    BY <2>1, <2>2, <2>4, <2>5 DEF GrantsInv
  <2>7. ~lateGrant' => c \notin outOfDate
    BY <1>3 DEF WriteGrants
  <2>. QED BY <2>3, <2>6, <2>7 DEF GrantsInv
<1>. QED BY <1>1, <1>2, <1>3 DEF GrantsNext

\* Whatever other commands grant to the same user meanwhile, a granted tool
\* stays granted unless a command writes a list another one has overtaken.
THEOREM GrantsAlwaysKept == GrantsSpec => GrantsAreKept
<1>1. GrantsInit => GrantsInv
  <2>1. NoGrant \in [users : SUBSET Grantees, list : SUBSET GrantTools] /\ NoGrant.users = {}
    BY DEF NoGrant
  <2>. QED BY <2>1 DEF GrantsInit, GrantsInv
<1>2. GrantsInv /\ [GrantsNext]_grantVars => GrantsInv'
  <2>1. GrantsInv /\ UNCHANGED grantVars => GrantsInv'
    BY DEF GrantsInv, grantVars
  <2>. QED BY <2>1, StepGrants
<1>3. GrantsInv /\ [GrantsNext]_grantVars
        => [~lateGrant' => \A u \in Grantees : toolGrants[u] \subseteq toolGrants'[u]]_grantVars
  BY StepGrants
<1>. QED BY <1>1, <1>2, <1>3, PTL DEF GrantsSpec, GrantsAreKept

-----------------------------------------------------------------------------
(***************************************************************************)
(* The Matrix bot: a message is handled again only after the seen list has *)
(* forgotten it, an approval is spent once, and a reply is kept whole.     *)
(***************************************************************************)

HandlerPlace == {"waiting", "started", "granted", "turn", "reply", "done"}
HandlerRun ==
  [event : Nat, at : HandlerPlace, acked : BOOLEAN, chunks : 0..MaxChunks, sent : 0..MaxChunks]

\* What the type invariant leaves unsaid.
MatrixForms ==
  /\ timeline \in Seq({"ignored", "chat", "approve", "deny"})
  /\ bot \in {"down", "connected", "running", "backoff"}
  /\ position \in 0..Len(timeline)
  /\ handler \in Seq(HandlerRun)
  /\ \A i \in Runs : handler[i].event \in Posted
  /\ lock \in {0} \cup Runs
  /\ approval \in {"none", "pending", "granted", "denied"}

\* The seen set holds the events of the last handlers, in their order: of all of
\* them, or of more than SeenKeep.
SeenIsTheTail ==
  /\ seen \in Seq(Nat)
  /\ Len(seen) <= SeenCap
  /\ Len(seen) <= Len(handler)
  /\ Len(seen) = Len(handler) \/ Len(seen) > SeenKeep
  /\ \A k \in 1..Len(seen) : seen[k] = handler[Len(handler) - Len(seen) + k].event
  /\ \A k, m \in 1..Len(seen) : seen[k] = seen[m] => k = m
  /\ seenIds = {seen[k] : k \in 1..Len(seen)}

\* The handler that has begun and not ended is the holder of the lock.
LockHolderRuns ==
  \A i \in Runs : lock = i <=> handler[i].at \notin {"waiting", "done"}

\* A call that may still go out is the first one of the approval.
GrantIsUnspent ==
  /\ ran \in {0, 1}
  /\ ran = 1 => approval = "granted"
  /\ \A i \in Runs : HandlerAt(i, "granted") => ran = 0 /\ approval = "granted"

\* How far a handler's reply is tells what the bot said last.
SaidTellsTheReply ==
  /\ said \in [run : Nat, part : Nat]
  /\ said.run # 0 => said.run \in Runs
  /\ \A i \in Runs :
       /\ handler[i].at \in {"waiting", "started", "granted"} => said.run # i /\ handler[i].sent = 0
       /\ HandlerAt(i, "turn") => /\ handler[i].sent = 0
                                  /\ said.run = i => handler[i].acked /\ said.part = 0
       /\ HandlerAt(i, "reply") => IF said.run = i THEN said.part = handler[i].sent
                                                   ELSE handler[i].sent = 0

MatrixInv ==
  /\ MatrixForms
  /\ SeenIsTheTail
  /\ RepeatsAreFarApart
  /\ LockHolderRuns
  /\ GrantIsUnspent
  /\ SaidTellsTheReply

LEMMA MatrixInvTypes == MatrixInv => MatrixTypeOK
<1> SUFFICES ASSUME MatrixInv PROVE MatrixTypeOK
  OBVIOUS
<1>1. handler \in Seq(HandlerRun) /\ \A i \in Runs : handler[i] \in HandlerRun
  BY DEF MatrixInv, MatrixForms, Runs
<1>2. \A i \in Runs :
        /\ handler[i].event \in Posted
        /\ handler[i].at \in HandlerPlace
        /\ handler[i].chunks \in 0..MaxChunks
        /\ handler[i].sent \in 0..MaxChunks
  BY <1>1 DEF MatrixInv, MatrixForms, HandlerRun
<1>. QED BY <1>2 DEF MatrixInv, MatrixForms, SeenIsTheTail, MatrixTypeOK, HandlerPlace

LEMMA InitMatrix == MatrixInit => MatrixInv
BY MatrixAssumption
   DEF MatrixInit, MatrixInv, MatrixForms, SeenIsTheTail, RepeatsAreFarApart, LockHolderRuns,
       GrantIsUnspent, SaidTellsTheReply, Runs, Posted, Nothing

-----------------------------------------------------------------------------
(* The room and the connection.                                            *)

LEMMA ConnectionSteps ==
  ASSUME MatrixInv,
         \/ \E what \in {"ignored", "chat", "approve", "deny"} : Post(what)
         \/ Connect
         \/ InitialSync
         \/ SyncLost
         \/ Reconnect
  PROVE  MatrixInv'
<1>1. /\ timeline' \in Seq({"ignored", "chat", "approve", "deny"})
      /\ Len(timeline') >= Len(timeline)
      /\ bot' \in {"down", "connected", "running", "backoff"}
      /\ position' \in 0..Len(timeline')
      /\ UNCHANGED <<seen, seenIds, handler, lock, said, approval, ran>>
  <2>0. /\ timeline \in Seq({"ignored", "chat", "approve", "deny"}) /\ Len(timeline) \in Nat
        /\ position \in 0..Len(timeline)
        /\ bot \in {"down", "connected", "running", "backoff"}
    BY DEF MatrixInv, MatrixForms
  <2>1. CASE \E what \in {"ignored", "chat", "approve", "deny"} : Post(what)
    BY <2>0, <2>1 DEF Post, chord
  <2>2. CASE Connect
    BY <2>0, <2>2 DEF Connect, chord
  <2>3. CASE InitialSync
    BY <2>0, <2>3 DEF InitialSync, chord
  <2>4. CASE SyncLost
    BY <2>0, <2>4 DEF SyncLost, chord
  <2>5. CASE Reconnect
    BY <2>0, <2>5 DEF Reconnect, chord
  <2>. QED BY <2>1, <2>2, <2>3, <2>4, <2>5
<1>2. Len(timeline) \in Nat /\ Len(timeline') \in Nat
  BY <1>1 DEF MatrixInv, MatrixForms
<1>3. MatrixForms'
  BY <1>1, <1>2 DEF MatrixInv, MatrixForms, Runs, Posted
<1>4. SeenIsTheTail' /\ RepeatsAreFarApart'
  BY <1>1 DEF MatrixInv, SeenIsTheTail, RepeatsAreFarApart, Runs
<1>5. LockHolderRuns' /\ GrantIsUnspent' /\ SaidTellsTheReply'
  BY <1>1 DEF MatrixInv, LockHolderRuns, GrantIsUnspent, SaidTellsTheReply, Runs, HandlerAt
<1>. QED BY <1>3, <1>4, <1>5 DEF MatrixInv

LEMMA BotStopsStep ==
  ASSUME MatrixInv, BotStops
  PROVE  MatrixInv'
<1>1. ran \in {0, 1} /\ (ran = 1 => approval = "granted")
  BY DEF MatrixInv, GrantIsUnspent
<1>. QED BY <1>1, MatrixAssumption
         DEF BotStops, chord, MatrixInv, MatrixForms, SeenIsTheTail, RepeatsAreFarApart,
             LockHolderRuns, GrantIsUnspent, SaidTellsTheReply, Runs, Posted, Nothing

\* What the new seen set is: the old one or its last SeenKeep ids, then e.
LEMMA InsertKeepsTheTail ==
  ASSUME MatrixInv, NEW e \in Nat, e \notin seenIds, Insert(e),
         NEW h \in HandlerRun, h.event = e, handler' = Append(handler, h)
  PROVE  SeenIsTheTail' /\ RepeatsAreFarApart'
<1> DEFINE runs == Len(handler)
           old == Len(seen)
           kept == IF old >= SeenCap THEN SubSeq(seen, old - SeenKeep + 1, old) ELSE seen
           n == Len(kept)
           gone == old - n
<1>0. /\ SeenIsTheTail /\ RepeatsAreFarApart
      /\ seen \in Seq(Nat) /\ old \in Nat /\ old <= SeenCap
      /\ handler \in Seq(HandlerRun) /\ runs \in Nat /\ old <= runs
      /\ SeenKeep \in Nat /\ SeenCap \in Nat /\ SeenKeep < SeenCap
      /\ old = runs \/ old > SeenKeep
  <2>1. SeenIsTheTail /\ RepeatsAreFarApart /\ handler \in Seq(HandlerRun)
    BY DEF MatrixInv, MatrixForms
  <2>2. /\ seen \in Seq(Nat) /\ old <= SeenCap /\ old <= runs
        /\ old = runs \/ old > SeenKeep
    BY <2>1 DEF SeenIsTheTail
  <2>3. old \in Nat /\ runs \in Nat
    BY <2>1, <2>2
  <2>. QED BY <2>1, <2>2, <2>3, MatrixAssumption
<1>1. /\ kept \in Seq(Nat) /\ n \in Nat /\ n < SeenCap /\ gone \in Nat
      /\ gone = 0 \/ n = SeenKeep
      /\ \A k \in 1..n : kept[k] = seen[k + gone]
  <2>1. CASE old >= SeenCap
    <3>1. kept = SubSeq(seen, old - SeenKeep + 1, old) /\ kept \in Seq(Nat)
      BY <1>0, <2>1
    <3>2. n = SeenKeep
      BY <1>0, <2>1, <3>1
    <3>. QED BY <1>0, <2>1, <3>1, <3>2
  <2>2. CASE ~(old >= SeenCap)
    BY <1>0, <2>2
  <2>. QED BY <2>1, <2>2
<1>2. /\ seen' = Append(kept, e)
      /\ seenIds' = (seenIds \ {seen[k] : k \in 1..gone}) \cup {e}
  BY DEF Insert
<1>3. /\ seen' \in Seq(Nat) /\ Len(seen') = n + 1 /\ seen'[n + 1] = e
      /\ \A k \in 1..n : seen'[k] = seen[k + gone]
  <2>1. kept \in Seq(Nat) /\ n = Len(kept) /\ seen' = Append(kept, e)
    BY <1>1, <1>2
  <2>2. \A k \in 1..n : kept[k] = seen[k + gone]
    BY <1>1
  <2> HIDE DEF gone, n, kept
  <2>. QED BY <2>1, <2>2
<1>4. /\ Len(handler') = runs + 1 /\ handler'[runs + 1] = h
      /\ \A i \in 1..runs : handler'[i] = handler[i]
  BY <1>0
<1>5. /\ \A k \in 1..old : seen[k] = handler[runs - old + k].event
      /\ \A k, m \in 1..old : seen[k] = seen[m] => k = m
      /\ seenIds = {seen[k] : k \in 1..old}
      /\ \A i, j \in 1..runs : i < j /\ handler[i].event = handler[j].event => j - i > SeenKeep + 1
  BY <1>0 DEF SeenIsTheTail, RepeatsAreFarApart, Runs
<1>6. \A k \in 1..old : seen[k] # e
  BY <1>5
<1>7. old = n + gone
  BY <1>0, <1>1
<1> HIDE DEF gone, n, kept, old, runs
<1>8. /\ \A k \in 1..n : k + gone \in 1..old /\ k + gone \notin 1..gone
      /\ \A k \in 1..old : k \in 1..gone \/ (k - gone \in 1..n /\ (k - gone) + gone = k)
      /\ \A k \in 1..gone : k \in 1..old
      /\ \A k \in 1..(n + 1) : k = n + 1 \/ k \in 1..n
      /\ n + 1 \in 1..(n + 1) /\ \A k \in 1..n : k \in 1..(n + 1)
  BY <1>1, <1>7
<1>9. \A k \in 1..(n + 1) : seen'[k] = handler'[(runs + 1) - (n + 1) + k].event
  <2>1. SUFFICES ASSUME NEW k \in 1..(n + 1)
                 PROVE  seen'[k] = handler'[(runs + 1) - (n + 1) + k].event
    OBVIOUS
  <2>2. CASE k = n + 1
    <3>1. (runs + 1) - (n + 1) + k = runs + 1
      BY <1>0, <1>1, <2>2
    <3>. QED BY <1>3, <1>4, <2>2, <3>1
  <2>3. CASE k \in 1..n
    <3>1. /\ (runs + 1) - (n + 1) + k = runs - old + (k + gone)
          /\ runs - old + (k + gone) \in 1..runs
      BY <1>0, <1>1, <1>7, <2>3
    <3>2. handler'[runs - old + (k + gone)] = handler[runs - old + (k + gone)]
      BY <1>4, <3>1
    <3>3. seen'[k] = handler[runs - old + (k + gone)].event
      BY <1>3, <1>5, <1>8, <2>3
    <3>. QED BY <3>1, <3>2, <3>3
  <2>. QED BY <1>8, <2>2, <2>3
<1>10. \A k, m \in 1..(n + 1) : seen'[k] = seen'[m] => k = m
  <2>1. \A k \in 1..n : seen'[k] # e
    BY <1>3, <1>6, <1>8
  <2>2. ASSUME NEW k \in 1..n, NEW m \in 1..n, seen'[k] = seen'[m] PROVE k = m
    <3>1. k + gone = m + gone
      BY <1>3, <1>5, <1>8, <2>2
    <3>. QED BY <1>1, <3>1
  <2>. QED BY <1>3, <1>8, <2>1, <2>2
<1>11. seenIds' = {seen'[k] : k \in 1..(n + 1)}
  <2>1. ASSUME NEW x \in seenIds' PROVE \E k \in 1..(n + 1) : x = seen'[k]
    <3>1. CASE x = e
      BY <1>3, <1>8, <3>1
    <3>2. CASE x # e
      <4>1. PICK k \in 1..old : x = seen[k]
        BY <1>2, <1>5, <2>1, <3>2
      <4>2. k \notin 1..gone
        BY <1>2, <2>1, <3>2, <4>1
      <4> DEFINE m == k - gone
      <4>3. m \in 1..n /\ m + gone = k
        BY <1>8, <4>1, <4>2
      <4> HIDE DEF m
      <4>. QED BY <1>3, <1>8, <4>1, <4>3
    <3>. QED BY <3>1, <3>2
  <2>2. ASSUME NEW k \in 1..(n + 1) PROVE seen'[k] \in seenIds'
    <3>1. CASE k = n + 1
      BY <1>2, <1>3, <3>1
    <3>2. CASE k \in 1..n
      <4>1. seen'[k] \in seenIds
        BY <1>3, <1>5, <1>8, <3>2
      <4>2. \A m \in 1..gone : seen[m] # seen[k + gone]
        BY <1>5, <1>8, <3>2
      <4>. QED BY <1>2, <1>3, <3>2, <4>1, <4>2
    <3>. QED BY <1>8, <3>1, <3>2
  <2>. QED BY <2>1, <2>2
<1>12. SeenIsTheTail'
  <2>1. n + 1 <= SeenCap /\ n + 1 <= runs + 1 /\ (n + 1 = runs + 1 \/ n + 1 > SeenKeep)
    BY <1>0, <1>1, <1>7
  <2>. QED BY <1>3, <1>4, <1>9, <1>10, <1>11, <2>1 DEF SeenIsTheTail
<1>13. RepeatsAreFarApart'
  <2>1. SUFFICES ASSUME NEW i \in 1..(runs + 1), NEW j \in 1..(runs + 1), i < j,
                        handler'[i].event = handler'[j].event
                 PROVE  j - i > SeenKeep + 1
    BY <1>4 DEF RepeatsAreFarApart, Runs
  <2>2. i \in 1..runs /\ (j \in 1..runs \/ j = runs + 1)
    BY <1>0, <2>1
  <2>3. CASE j \in 1..runs
    BY <1>4, <1>5, <2>1, <2>2, <2>3
  <2>4. CASE j = runs + 1
    <3>1. handler[i].event = e
      BY <1>4, <2>1, <2>2, <2>4
    <3>2. ~(i > runs - old)
      <4>1. SUFFICES ASSUME i > runs - old PROVE FALSE
        OBVIOUS
      <4> DEFINE k == i - (runs - old)
      <4>2. k \in 1..old /\ runs - old + k = i
        BY <1>0, <2>2, <4>1
      <4> HIDE DEF k
      <4>. QED BY <1>5, <1>6, <3>1, <4>2
    <3>. QED BY <1>0, <2>2, <2>4, <3>2
  <2>. QED BY <2>2, <2>3, <2>4
<1>. QED BY <1>12, <1>13

LEMMA ReceiveStep ==
  ASSUME MatrixInv, NEW e \in Posted, Receive(e), position' \in 0..Len(timeline),
         UNCHANGED <<timeline, bot, lock, said, chord>>
  PROVE  MatrixInv'
<1>0. /\ MatrixForms /\ LockHolderRuns /\ GrantIsUnspent /\ SaidTellsTheReply
      /\ timeline \in Seq({"ignored", "chat", "approve", "deny"}) /\ Len(timeline) \in Nat
      /\ handler \in Seq(HandlerRun) /\ Len(handler) \in Nat
      /\ e \in Nat
      /\ UNCHANGED <<approval, ran>>
  BY DEF MatrixInv, MatrixForms, Posted, chord
<1>1. CASE UNCHANGED <<seen, seenIds, handler>>
  <2>1. MatrixForms'
    BY <1>0, <1>1 DEF MatrixForms, Runs, Posted
  <2>2. SeenIsTheTail' /\ RepeatsAreFarApart'
    BY <1>1 DEF MatrixInv, SeenIsTheTail, RepeatsAreFarApart, Runs
  <2>3. LockHolderRuns' /\ GrantIsUnspent' /\ SaidTellsTheReply'
    BY <1>0, <1>1 DEF LockHolderRuns, GrantIsUnspent, SaidTellsTheReply, Runs, HandlerAt
  <2>. QED BY <2>1, <2>2, <2>3 DEF MatrixInv
<1>2. CASE ~UNCHANGED <<seen, seenIds, handler>>
  <2> DEFINE h == Handler(e, "waiting")
  <2>1. e \notin seenIds /\ Insert(e) /\ handler' = Append(handler, h)
    BY <1>2 DEF Receive
  <2>2. /\ h \in HandlerRun /\ h.event = e /\ h.at = "waiting" /\ h.sent = 0
    BY <1>0, MatrixAssumption DEF Handler, HandlerRun, HandlerPlace
  <2> HIDE DEF h
  <2>3. SeenIsTheTail' /\ RepeatsAreFarApart'
    BY <1>0, <2>1, <2>2, InsertKeepsTheTail
  <2>4. /\ handler' \in Seq(HandlerRun) /\ Len(handler') = Len(handler) + 1
        /\ handler'[Len(handler) + 1] = h
        /\ \A i \in 1..Len(handler) : handler'[i] = handler[i]
    BY <1>0, <2>1, <2>2
  <2>5. Runs' = Runs \cup {Len(handler) + 1} /\ Len(handler) + 1 \notin Runs /\ 0 \notin Runs'
        /\ \A i \in Runs : handler'[i] = handler[i]
    BY <1>0, <2>4 DEF Runs
  <2>6. MatrixForms'
    BY <1>0, <2>2, <2>4, <2>5 DEF MatrixForms, Posted
  <2>7. LockHolderRuns'
    BY <1>0, <2>2, <2>4, <2>5 DEF LockHolderRuns, MatrixForms
  <2>8. GrantIsUnspent'
    BY <1>0, <2>2, <2>4, <2>5 DEF GrantIsUnspent, HandlerAt
  <2>9. SaidTellsTheReply'
    <3>1. said.run # Len(handler) + 1 /\ said \in [run : Nat, part : Nat]
      BY <1>0, <2>5 DEF SaidTellsTheReply
    <3>2. said' = said
      OBVIOUS
    <3>3. \A i \in Runs' : \/ i = Len(handler) + 1 /\ handler'[i] = h
                           \/ i \in Runs /\ handler'[i] = handler[i]
      BY <2>4, <2>5
    <3>. QED BY <1>0, <2>2, <2>5, <3>1, <3>2, <3>3 DEF SaidTellsTheReply, HandlerAt
  <2>. QED BY <2>3, <2>6, <2>7, <2>8, <2>9 DEF MatrixInv
<1>. QED BY <1>1, <1>2

-----------------------------------------------------------------------------
(* The handlers.                                                           *)

\* A step of handler i whose new record is next.
LEMMA HandlerMoves ==
  ASSUME MatrixInv, NEW i \in Runs, NEW next \in HandlerRun,
         next.event = handler[i].event, handler' = [handler EXCEPT ![i] = next],
         HandlerUnchanged,
         lock' = IF next.at \in {"waiting", "done"} THEN 0 ELSE i,
         lock \in {0, i},
         approval' \in {"none", "pending", "granted", "denied"},
         ran' \in {0, 1}, ran' = 1 => approval' = "granted",
         next.at = "granted" => ran' = 0 /\ approval' = "granted",
         said' \in [run : Nat, part : Nat], said' = said \/ said'.run = i,
         next.at \in {"waiting", "started", "granted"} => said'.run # i /\ next.sent = 0,
         next.at = "turn" => next.sent = 0 /\ (said'.run = i => next.acked /\ said'.part = 0),
         next.at = "reply" => IF said'.run = i THEN said'.part = next.sent ELSE next.sent = 0
  PROVE  MatrixInv'
<1>0. /\ MatrixForms /\ SeenIsTheTail /\ RepeatsAreFarApart /\ LockHolderRuns
      /\ GrantIsUnspent /\ SaidTellsTheReply
      /\ handler \in Seq(HandlerRun) /\ Len(handler) \in Nat /\ i \in 1..Len(handler)
      /\ UNCHANGED <<timeline, bot, position, seen, seenIds>>
  BY DEF MatrixInv, MatrixForms, Runs, HandlerUnchanged
<1>1. /\ handler' \in Seq(HandlerRun) /\ Len(handler') = Len(handler) /\ Runs' = Runs
      /\ handler'[i] = next
      /\ \A j \in Runs \ {i} : handler'[j] = handler[j]
      /\ \A j \in Runs : handler'[j].event = handler[j].event
  BY <1>0 DEF Runs
<1>2. 0 \notin Runs /\ \A j \in Runs \ {i} : handler[j].at \in {"waiting", "done"}
  BY <1>0 DEF LockHolderRuns, Runs
<1>3. MatrixForms'
  BY <1>0, <1>1 DEF MatrixForms, Posted
<1>4. SeenIsTheTail'
  <2>1. \A k \in 1..Len(seen) : Len(handler) - Len(seen) + k \in Runs
    BY <1>0 DEF SeenIsTheTail, Runs
  <2>2. \A k \in 1..Len(seen) : handler'[Len(handler) - Len(seen) + k].event
                                  = handler[Len(handler) - Len(seen) + k].event
    BY <1>1, <2>1
  <2>. QED BY <1>0, <1>1, <2>2 DEF SeenIsTheTail
<1>5. RepeatsAreFarApart'
  BY <1>0, <1>1 DEF RepeatsAreFarApart
<1>6. LockHolderRuns'
  BY <1>0, <1>1, <1>2 DEF LockHolderRuns, HandlerRun, HandlerPlace
<1>7. GrantIsUnspent'
  BY <1>1, <1>2 DEF GrantIsUnspent, HandlerAt
<1>8. SaidTellsTheReply'
  BY <1>0, <1>1, <1>2 DEF SaidTellsTheReply, HandlerAt
<1>. QED BY <1>3, <1>4, <1>5, <1>6, <1>7, <1>8 DEF MatrixInv

LEMMA HandlerSteps ==
  ASSUME MatrixInv, NEW i \in Runs, HandlerStep(i) \/ Ack(i)
  PROVE  MatrixInv'
<1>0. /\ LockHolderRuns /\ GrantIsUnspent /\ SaidTellsTheReply
      /\ handler \in Seq(HandlerRun) /\ handler[i] \in HandlerRun
      /\ i \in Nat /\ i # 0
      /\ lock \in {0} \cup Runs
      /\ approval \in {"none", "pending", "granted", "denied"}
      /\ MaxChunks \in Nat \ {0}
  BY MatrixAssumption DEF MatrixInv, MatrixForms, Runs
<1>1. /\ said \in [run : Nat, part : Nat]
      /\ ran \in {0, 1} /\ (ran = 1 => approval = "granted")
  BY <1>0 DEF GrantIsUnspent, SaidTellsTheReply
<1>2. HandlerUnchanged
  BY DEF HandlerStep, Lock, Deny, Grant, Dispatch, BeginTurn, EndTurn, Send, Ack
<1>3. CASE Lock(i)
  <2> DEFINE next == [handler[i] EXCEPT !.at = "started"]
  <2>1. /\ next \in HandlerRun /\ next.event = handler[i].event
        /\ next.at = "started" /\ next.sent = handler[i].sent
    BY <1>0 DEF HandlerRun, HandlerPlace
  <2>2. /\ handler' = [handler EXCEPT ![i] = next]
        /\ lock = 0 /\ lock' = i
        /\ UNCHANGED <<said, approval, ran>>
    BY <1>3 DEF Lock, Move, chord
  <2>3. said.run # i /\ handler[i].sent = 0
    BY <1>0, <1>3 DEF Lock, HandlerAt, SaidTellsTheReply
  <2> HIDE DEF next
  <2>. QED BY <1>0, <1>1, <1>2, <2>1, <2>2, <2>3, HandlerMoves
<1>4. ASSUME \/ Deny(i) \/ Grant(i) \/ Dispatch(i) \/ BeginTurn(i) \/ EndTurn(i) \/ Ack(i)
             \/ Send(i)
      PROVE  lock = i
  BY <1>0, <1>4 DEF Deny, Grant, Dispatch, BeginTurn, EndTurn, Ack, Send, HandlerAt,
                    LockHolderRuns
\* A handler whose reply is ready has said at most the acknowledgement.
<1>5. ASSUME NEW n \in 1..MaxChunks, Reply(i, n)
      PROVE  \E next \in HandlerRun :
               /\ next.event = handler[i].event /\ next.at = "reply"
               /\ next.sent = handler[i].sent
               /\ handler' = [handler EXCEPT ![i] = next]
  <2> DEFINE next == [handler[i] EXCEPT !.at = "reply", !.chunks = n]
  <2>1. n \in 0..MaxChunks
    BY <1>0
  <2>2. next \in HandlerRun
    BY <1>0, <2>1 DEF HandlerRun, HandlerPlace
  <2>. QED BY <1>0, <1>5, <2>2 DEF Reply, HandlerRun
<1>6. 1 \in 1..MaxChunks
  BY <1>0
<1>7. CASE Deny(i)
  <2>1. PICK next \in HandlerRun : /\ next.event = handler[i].event /\ next.at = "reply"
                                   /\ next.sent = handler[i].sent
                                   /\ handler' = [handler EXCEPT ![i] = next]
    BY <1>5, <1>6, <1>7 DEF Deny
  <2>2. /\ UNCHANGED <<lock, said, ran>>
        /\ approval' \in {"none", "pending", "granted", "denied"}
        /\ ran = 1 => approval' = "granted"
    BY <1>0, <1>1, <1>7 DEF Deny
  <2>3. said.run # i /\ handler[i].sent = 0
    BY <1>0, <1>7 DEF Deny, HandlerAt, SaidTellsTheReply
  <2>. QED BY <1>0, <1>1, <1>2, <1>4, <1>7, <2>1, <2>2, <2>3, HandlerMoves
<1>8. CASE Grant(i)
  <2>1. said.run # i /\ handler[i].sent = 0
    BY <1>0, <1>8 DEF Grant, HandlerAt, SaidTellsTheReply
  <2>2. UNCHANGED <<lock, said, ran>>
    BY <1>8 DEF Grant
  <2>3. CASE approval = "pending" /\ approval' = "granted" /\ Move(i, "granted")
    <3> DEFINE next == [handler[i] EXCEPT !.at = "granted"]
    <3>1. /\ next \in HandlerRun /\ next.event = handler[i].event
          /\ next.at = "granted" /\ next.sent = 0
      BY <1>0, <2>1 DEF HandlerRun, HandlerPlace
    <3>2. handler' = [handler EXCEPT ![i] = next] /\ ran' = 0
      BY <1>1, <2>2, <2>3 DEF Move
    <3> HIDE DEF next
    <3>. QED BY <1>0, <1>1, <1>2, <1>4, <1>8, <2>1, <2>2, <2>3, <3>1, <3>2, HandlerMoves
  <2>4. CASE Reply(i, 1) /\ ((approval = "pending" /\ approval' = "granted") \/ UNCHANGED approval)
    <3>1. PICK next \in HandlerRun : /\ next.event = handler[i].event /\ next.at = "reply"
                                     /\ next.sent = handler[i].sent
                                     /\ handler' = [handler EXCEPT ![i] = next]
      BY <1>5, <1>6, <2>4
    <3>. QED BY <1>0, <1>1, <1>2, <1>4, <1>8, <2>1, <2>2, <2>4, <3>1, HandlerMoves
  <2>. QED BY <1>8, <2>3, <2>4 DEF Grant
<1>9. CASE Dispatch(i)
  <2>1. PICK next \in HandlerRun : /\ next.event = handler[i].event /\ next.at = "reply"
                                   /\ next.sent = handler[i].sent
                                   /\ handler' = [handler EXCEPT ![i] = next]
    BY <1>5, <1>6, <1>9 DEF Dispatch
  <2>2. /\ UNCHANGED <<lock, said, approval>>
        /\ ran' \in {0, 1} /\ approval = "granted"
    BY <1>0, <1>9 DEF Dispatch, GrantIsUnspent
  <2>3. said.run # i /\ handler[i].sent = 0
    BY <1>0, <1>9 DEF Dispatch, HandlerAt, SaidTellsTheReply
  <2>. QED BY <1>0, <1>1, <1>2, <1>4, <1>9, <2>1, <2>2, <2>3, HandlerMoves
<1>10. CASE BeginTurn(i)
  <2> DEFINE next == [handler[i] EXCEPT !.at = "turn"]
  <2>1. /\ next \in HandlerRun /\ next.event = handler[i].event
        /\ next.at = "turn" /\ next.sent = handler[i].sent
    BY <1>0 DEF HandlerRun, HandlerPlace
  <2>2. handler' = [handler EXCEPT ![i] = next] /\ UNCHANGED <<lock, said, approval, ran>>
    BY <1>10 DEF BeginTurn, Move, chord
  <2>3. said.run # i /\ handler[i].sent = 0
    BY <1>0, <1>10 DEF BeginTurn, HandlerAt, SaidTellsTheReply
  <2> HIDE DEF next
  <2>. QED BY <1>0, <1>1, <1>2, <1>4, <1>10, <2>1, <2>2, <2>3, HandlerMoves
<1>11. CASE EndTurn(i)
  <2>1. PICK next \in HandlerRun : /\ next.event = handler[i].event /\ next.at = "reply"
                                   /\ next.sent = handler[i].sent
                                   /\ handler' = [handler EXCEPT ![i] = next]
    BY <1>5, <1>11 DEF EndTurn
  <2>2. /\ UNCHANGED <<lock, said, ran>>
        /\ approval' \in {"none", "pending", "granted", "denied"}
        /\ ran = 1 => approval' = "granted"
    BY <1>0, <1>1, <1>11 DEF EndTurn
  <2>3. handler[i].sent = 0 /\ (said.run = i => said.part = 0)
    BY <1>0, <1>11 DEF EndTurn, HandlerAt, SaidTellsTheReply
  <2>. QED BY <1>0, <1>1, <1>2, <1>4, <1>11, <2>1, <2>2, <2>3, HandlerMoves
<1>12. CASE Ack(i)
  <2> DEFINE next == [handler[i] EXCEPT !.acked = TRUE]
  <2>1. handler[i].at = "turn" /\ handler[i].sent = 0 /\ said.run # i
    BY <1>0, <1>12 DEF Ack, HandlerAt, SaidTellsTheReply
  <2>2. /\ next \in HandlerRun /\ next.event = handler[i].event
        /\ next.at = "turn" /\ next.sent = 0 /\ next.acked
    BY <1>0, <2>1 DEF HandlerRun, HandlerPlace
  <2>3. /\ handler' = [handler EXCEPT ![i] = next]
        /\ UNCHANGED <<lock, approval, ran>>
        /\ said' = said \/ said' = [run |-> i, part |-> 0]
    BY <1>12 DEF Ack, chord
  <2>4. /\ said' \in [run : Nat, part : Nat] /\ (said' = said \/ said'.run = i)
        /\ said'.run = i => said'.part = 0
    BY <1>0, <1>1, <2>1, <2>3
  <2> HIDE DEF next
  <2>. QED BY <1>0, <1>1, <1>2, <1>4, <1>12, <2>2, <2>3, <2>4, HandlerMoves
<1>13. CASE Send(i)
  <2>1. PICK sent \in BOOLEAN :
          /\ said' = IF sent THEN [run |-> i, part |-> handler[i].sent + 1] ELSE said
          /\ IF sent /\ handler[i].sent + 1 < handler[i].chunks
               THEN /\ handler' = [handler EXCEPT ![i].sent = @ + 1]
                    /\ UNCHANGED lock
               ELSE /\ handler' = [handler EXCEPT ![i] = Handler(@.event, "done")]
                    /\ lock' = IF lock = i THEN 0 ELSE lock
    BY <1>13 DEF Send
  <2>2. /\ UNCHANGED <<approval, ran>>
        /\ handler[i].at = "reply"
        /\ handler[i].sent \in 0..MaxChunks /\ handler[i].chunks \in 0..MaxChunks
    BY <1>0, <1>13 DEF Send, HandlerAt, chord, HandlerRun
  <2>3. said' \in [run : Nat, part : Nat] /\ (said' = said \/ said'.run = i)
    BY <1>0, <1>1, <2>1, <2>2
  <2>4. CASE sent /\ handler[i].sent + 1 < handler[i].chunks
    <3> DEFINE next == [handler[i] EXCEPT !.sent = handler[i].sent + 1]
    <3>1. handler[i].sent + 1 \in 0..MaxChunks
      BY <1>0, <2>2, <2>4
    <3>2. /\ next \in HandlerRun /\ next.event = handler[i].event
          /\ next.at = "reply" /\ next.sent = handler[i].sent + 1
      BY <1>0, <2>2, <3>1 DEF HandlerRun, HandlerPlace
    <3>3. handler' = [handler EXCEPT ![i] = next] /\ UNCHANGED lock
      BY <2>1, <2>4
    <3>4. said'.run = i /\ said'.part = handler[i].sent + 1
      BY <2>1, <2>4
    <3> HIDE DEF next
    <3>. QED BY <1>0, <1>1, <1>2, <1>4, <1>13, <2>2, <2>3, <3>2, <3>3, <3>4, HandlerMoves
  <2>5. CASE ~(sent /\ handler[i].sent + 1 < handler[i].chunks)
    <3> DEFINE next == Handler(handler[i].event, "done")
    <3>1. next \in HandlerRun /\ next.event = handler[i].event /\ next.at = "done"
      BY <1>0 DEF Handler, HandlerRun, HandlerPlace
    <3>2. handler' = [handler EXCEPT ![i] = next] /\ lock' = 0
      BY <1>4, <1>13, <2>1, <2>5
    <3> HIDE DEF next
    <3>. QED BY <1>0, <1>1, <1>2, <1>4, <1>13, <2>2, <2>3, <3>1, <3>2, HandlerMoves
  <2>. QED BY <2>4, <2>5
<1>. QED BY <1>3, <1>7, <1>8, <1>9, <1>10, <1>11, <1>12, <1>13 DEF HandlerStep

-----------------------------------------------------------------------------
LEMMA NextMatrix == MatrixInv /\ [MatrixNext]_matrixVars => MatrixInv'
<1> SUFFICES ASSUME MatrixInv, [MatrixNext]_matrixVars PROVE MatrixInv'
  OBVIOUS
<1>1. CASE UNCHANGED matrixVars
  <2>1. UNCHANGED <<timeline, bot, position, seen, seenIds, handler, lock, said, approval, ran>>
    BY <1>1 DEF matrixVars, chord
  <2>2. MatrixForms' /\ SeenIsTheTail' /\ RepeatsAreFarApart' /\ LockHolderRuns'
    BY <2>1 DEF MatrixInv, MatrixForms, SeenIsTheTail, RepeatsAreFarApart, LockHolderRuns, Runs,
                Posted
  <2>3. GrantIsUnspent' /\ SaidTellsTheReply'
    BY <2>1 DEF MatrixInv, GrantIsUnspent, SaidTellsTheReply, Runs, HandlerAt
  <2>. QED BY <2>2, <2>3 DEF MatrixInv
<1>2. CASE Deliver
  <2>1. /\ timeline \in Seq({"ignored", "chat", "approve", "deny"})
        /\ position \in 0..Len(timeline)
    BY DEF MatrixInv, MatrixForms
  <2>2. position + 1 \in Posted /\ position' \in 0..Len(timeline) /\ Receive(position + 1)
    BY <1>2, <2>1 DEF Deliver, Posted
  <2>. QED BY <1>2, <2>2, ReceiveStep DEF Deliver
<1>3. ASSUME NEW e \in Posted, Redeliver(e) PROVE MatrixInv'
  <2>1. position' \in 0..Len(timeline)
    BY <1>3 DEF Redeliver, MatrixInv, MatrixForms
  <2>. QED BY <1>3, <2>1, ReceiveStep DEF Redeliver
<1>. QED BY <1>1, <1>2, <1>3, ConnectionSteps, BotStopsStep, HandlerSteps DEF MatrixNext, Handle

\* The bot's types: the two halves of the seen set agree and stay within the cap,
\* for every cap.
THEOREM MatrixTypeCorrect == MatrixSpec => []MatrixTypeOK
BY MatrixInvTypes, InitMatrix, NextMatrix, PTL DEF MatrixSpec

\* An event delivered again is answered again only after more than SeenKeep others,
\* for every cap and every order of deliveries, losses and restarts.
THEOREM RepeatedRepliesAreFarApart == MatrixSpec => []RepeatsAreFarApart
<1>1. MatrixInv => RepeatsAreFarApart
  BY DEF MatrixInv
<1>. QED BY <1>1, InitMatrix, NextMatrix, PTL DEF MatrixSpec

\* However many handlers and restarts there are, one approval runs its tool at
\* most once, and only when it was granted.
THEOREM ApprovedToolRunsOnce == MatrixSpec => []ToolRunsOncePerApproval
<1>1. MatrixInv => ToolRunsOncePerApproval
  BY DEF MatrixInv, GrantIsUnspent, ToolRunsOncePerApproval
<1>. QED BY <1>1, InitMatrix, NextMatrix, PTL DEF MatrixSpec

\* The chunks of every reply stand in the room in order and with nothing between
\* them, whatever number of handlers wait for the lock.
THEOREM RepliesStayWhole == MatrixSpec => RepliesAreWhole
<1> DEFINE Whole == said' \notin {said, Nothing} =>
                      IF said'.run = said.run
                        THEN said'.part = said.part + 1
                        ELSE /\ said'.part \in {0, 1}
                             /\ said.run # 0 => HandlerAt(said.run, "done")
<1>1. MatrixInv /\ [MatrixNext]_matrixVars => [Whole]_matrixVars
  <2> SUFFICES ASSUME MatrixInv, MatrixNext PROVE Whole
    OBVIOUS
  <2>1. CASE said' \in {said, Nothing}
    BY <2>1
  <2>2. CASE said' \notin {said, Nothing}
    <3>1. PICK i \in Runs : Ack(i) \/ Send(i)
      BY <2>2 DEF MatrixNext, Post, Connect, InitialSync, SyncLost, Reconnect, BotStops, Deliver,
                  Redeliver, Handle, HandlerStep, Lock, Deny, Grant, Dispatch, BeginTurn, EndTurn
    <3>2. /\ handler[i] \in HandlerRun /\ handler \in Seq(HandlerRun)
          /\ LockHolderRuns /\ SaidTellsTheReply /\ i \in Nat /\ i # 0
      BY DEF MatrixInv, MatrixForms, Runs
    <3>3. \A j \in Runs \ {i} : handler[j].at \in {"waiting", "done"}
      BY <3>1, <3>2 DEF Ack, Send, HandlerAt, LockHolderRuns
    <3>4. said.run \notin {0, i} => HandlerAt(said.run, "done")
      BY <3>2, <3>3 DEF SaidTellsTheReply, HandlerAt
    <3>5. CASE Ack(i)
      <4>1. said' = [run |-> i, part |-> 0] /\ said.run # i
        BY <2>2, <3>2, <3>5 DEF Ack, HandlerAt, SaidTellsTheReply
      <4>. QED BY <3>2, <3>4, <4>1
    <3>6. CASE Send(i)
      <4>1. said' = [run |-> i, part |-> handler[i].sent + 1]
        BY <2>2, <3>6 DEF Send
      <4>2. IF said.run = i THEN said.part = handler[i].sent ELSE handler[i].sent = 0
        BY <3>2, <3>6 DEF Send, HandlerAt, SaidTellsTheReply
      <4>. QED BY <3>2, <3>4, <4>1, <4>2
    <3>. QED BY <3>1, <3>5, <3>6
  <2>. QED BY <2>1, <2>2
<1>. QED BY <1>1, InitMatrix, NextMatrix, PTL DEF MatrixSpec, RepliesAreWhole
=============================================================================
