--------------------------- MODULE MCSharedState ---------------------------
(***************************************************************************)
(* The state that threads, tasks and processes share and change in several *)
(* steps: the request limiter, the vault file, the users database, the     *)
(* tool grants, the GPU, the queues of consolidation, the Matrix bot, the  *)
(* long-term memory and its migration, the skills and the agentic stream.  *)
(* These components have no variable in common: a behaviour is one of the  *)
(* component in focus, and the others stay as they were.  So one run       *)
(* explores the sum of their states, not the product.                      *)
(***************************************************************************)
EXTENDS DailyRateLimiter, VaultFile, UserAccounts, ToolGrants, ModelRouting, SleepTime,
        MatrixDelivery, EngramStore, EngramMigration, SkillVersions, AgenticStream, TLC

VARIABLE focus

limiterVars == vars
sharedVars ==
  <<focus, limiterVars, vaultVars, usersVars, grantVars, routingVars, sleepVars, matrixVars,
    engramVars, migrationVars, skillVars, agenticVars>>

Components == {"limiter", "vault", "users", "grants", "routing", "sleep", "matrix", "engram",
               "migration", "skills", "agentic"}

\* Only the component in focus takes steps.
Alone ==
  /\ UNCHANGED focus
  /\ focus # "limiter" => UNCHANGED limiterVars
  /\ focus # "vault" => UNCHANGED vaultVars
  /\ focus # "users" => UNCHANGED usersVars
  /\ focus # "grants" => UNCHANGED grantVars
  /\ focus # "routing" => UNCHANGED routingVars
  /\ focus # "sleep" => UNCHANGED sleepVars
  /\ focus # "matrix" => UNCHANGED matrixVars
  /\ focus # "engram" => UNCHANGED engramVars
  /\ focus # "migration" => UNCHANGED migrationVars
  /\ focus # "skills" => UNCHANGED skillVars
  /\ focus # "agentic" => UNCHANGED agenticVars

SharedInit ==
  /\ focus \in Components
  /\ Init
  /\ VaultInit
  /\ UsersInit
  /\ GrantsInit
  /\ RoutingInit
  /\ SleepInit
  /\ MatrixInit
  /\ EngramInit
  /\ MigrationInit
  /\ SkillsInit
  /\ AgenticInit

SharedNext ==
  \/ focus = "limiter" /\ Next /\ Alone
  \/ focus = "vault" /\ VaultNext /\ Alone
  \/ focus = "users" /\ UsersNext /\ Alone
  \/ focus = "grants" /\ GrantsNext /\ Alone
  \/ focus = "routing" /\ RoutingNext /\ Alone
  \/ focus = "sleep" /\ SleepNext /\ Alone
  \/ focus = "matrix" /\ MatrixNext /\ Alone
  \/ focus = "engram" /\ EngramNext /\ Alone
  \/ focus = "migration" /\ MigrationNext /\ Alone
  \/ focus = "skills" /\ SkillsNext /\ Alone
  \/ focus = "agentic" /\ AgenticNext /\ Alone

SharedSpec == SharedInit /\ [][SharedNext]_sharedVars

\* The components take their actors from one set, p and q among them: the run is
\* symmetric in these two and in the users.
SharedSymmetry == Permutations(Processes) \cup Permutations(UserIds)

\* Facts that were copied twice and cut off stay so: MigrationKeepsFacts claims
\* nothing of such a state nor of any after it, and the run does not look further.
MigrationIsClaimed == ~(cut /\ recopied)

\* The types of all.
SharedTypesOK ==
  /\ TypeOK
  /\ VaultTypeOK
  /\ UsersTypeOK
  /\ GrantsTypeOK
  /\ RoutingTypeOK
  /\ SleepTypeOK
  /\ MatrixTypeOK
  /\ EngramTypeOK
  /\ MigrationTypeOK
  /\ SkillsTypeOK
  /\ AgenticTypeOK
=============================================================================
