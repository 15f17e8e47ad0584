------------------------------- MODULE MCRules -------------------------------
(* Two machines that have nothing to do with each other: the reviews of a   *)
(* document (StatusRules), and a process that starts (Startup).  Only the   *)
(* one that was chosen at the beginning moves.                              *)
EXTENDS StatusRules, Startup

NoEnvironment == [name \in {} |-> "unset"]

MCInit ==
  /\ RulesInit
  /\ StartupInit \/ (env = NoEnvironment /\ phase = "none")

MCNext ==
  \/ phase = "none" /\ RulesNext /\ UNCHANGED startupVars
  \/ (ValidateEnv \/ ServeRequest) /\ UNCHANGED rulesVars

MCSpec == MCInit /\ [][MCNext]_<<rulesVars, startupVars>>
=============================================================================
