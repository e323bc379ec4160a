-------------------------- MODULE SharedStateProofs --------------------------
(***************************************************************************)
(* The components whose state is shared, side by side: a behaviour of the  *)
(* composition is one of every component, so that whatever is proved of a  *)
(* component holds in the composition.                                     *)
(***************************************************************************)
EXTENDS MCSharedState, DailyRateLimiterProofs, StoresProofs, AccessProofs, ChordProofs

\* A step of the composition is one of the component in focus, and the others stay.
LEMMA StepOfEach ==
  ASSUME [SharedNext]_sharedVars
  PROVE  /\ [Next]_limiterVars
         /\ [VaultNext]_vaultVars
         /\ [UsersNext]_usersVars
         /\ [GrantsNext]_grantVars
         /\ [RoutingNext]_routingVars
         /\ [SleepNext]_sleepVars
         /\ [MatrixNext]_matrixVars
         /\ [EngramNext]_engramVars
         /\ [MigrationNext]_migrationVars
         /\ [SkillsNext]_skillVars
         /\ [AgenticNext]_agenticVars
<1>1. CASE SharedNext
  BY <1>1 DEF SharedNext, Alone
<1>2. CASE UNCHANGED sharedVars
  BY <1>2 DEF sharedVars
<1>. QED BY <1>1, <1>2

\* The composition implements each component: its steps are that component's, or leave
\* its state alone.
THEOREM SharedImplementsAll ==
  SharedSpec => /\ Spec
                /\ VaultSpec
                /\ UsersSpec
                /\ GrantsSpec
                /\ RoutingSpec
                /\ SleepSpec
                /\ MatrixSpec
                /\ EngramSpec
                /\ MigrationSpec
                /\ SkillsSpec
                /\ AgenticSpec
<1>1. SharedInit => /\ Init /\ VaultInit /\ UsersInit /\ GrantsInit /\ RoutingInit /\ SleepInit
                    /\ MatrixInit /\ EngramInit /\ MigrationInit /\ SkillsInit /\ AgenticInit
  BY DEF SharedInit
<1>. QED
  BY <1>1, StepOfEach, PTL DEF SharedSpec, limiterVars, Spec, VaultSpec, UsersSpec, GrantsSpec,
     RoutingSpec, SleepSpec, MatrixSpec, EngramSpec, MigrationSpec, SkillsSpec, AgenticSpec

\* The type invariant of the composition, for every value of the constants.
THEOREM SharedTypesCorrect == SharedSpec => []SharedTypesOK
BY SharedImplementsAll, LimiterTypeCorrect, VaultTypeCorrect, UsersTypeCorrect,
   GrantsTypeCorrect, RoutingTypeCorrect, SleepTypeCorrect, MatrixTypeCorrect,
   EngramTypeCorrect, MigrationTypeCorrect, SkillsTypeCorrect, AgenticTypeCorrect,
   PTL DEF SharedTypesOK

\* What the components promise holds in the composition, for every value of the constants.
THEOREM SharedStateIsSafe ==
  SharedSpec => /\ [](CountIsExact /\ VaultIsWhole /\ DatabaseKeyKept)
                /\ [](AnAdminRemains /\ NoOrphanChannels)
                /\ [](FastModelReturns /\ RebuildsWithTheModel /\ QueuedActionsAreKept)
                /\ [](RepeatsAreFarApart /\ ToolRunsOncePerApproval)
                /\ [](IndexTellsItsMemory /\ FactsAreSettled /\ MigrationKeepsFacts)
                /\ [](HistoryIsGenuine /\ LostOnlyByARace /\ NoOrphanVersions)
                /\ []LogTellsTheCalls
                /\ GrantsAreKept
                /\ RepliesAreWhole
BY SharedImplementsAll, CountStaysExact, VaultAlwaysWhole, DatabaseKeyAlwaysKept,
   AnAdminAlwaysRemains, NoChannelOrphaned, FastModelAlwaysReturns, LayersAreRebuiltWithTheModel,
   ActionsStayQueued, RepeatedRepliesAreFarApart, ApprovedToolRunsOnce, IndexedTextsAreTold,
   ChainsOfMemoriesEnd, FactsAreKept, HistoryAlwaysGenuine, OnlyRacesLoseVersions,
   NoVersionOrphaned, StreamIsReadAsSent, GrantsAlwaysKept, RepliesStayWhole, PTL
=============================================================================
