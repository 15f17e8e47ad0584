------------------------------- MODULE Startup -------------------------------
(***************************************************************************)
(* The two ways a process comes up, server.js with the check of            *)
(* config/env.js and api/index.js without it, and what the rest of the     *)
(* program then makes of the same variables.  A variable is "unset",       *)
(* "blank", or what matters of it: its value; a secret's length; whether   *)
(* it is well-formed.  Those with a type and a default only, on which      *)
(* nothing here depends, are left out.                                     *)
(***************************************************************************)

VARIABLES
  env,  \* process.env
  phase \* "starting", "up" by server.js, "serving" by api/index.js, or "exited"

startupVars == <<env, phase>>

\* Lengths of a secret: below 8, below 16, below 32, and from 32 on.
Environments ==
  [NODE_ENV : {"unset", "development", "production"},
   SOROBAN_ADAPTER : {"unset", "blank", "stub", "real", "other"},
   USE_SOROBAN_STUB : {"unset", "true", "false"},
   RPC_URL : {"unset", "malformed", "set"},
   CONTRACT_ID : {"unset", "set"},
   SERVICE_SECRET : {"blank", "set"},
   MONGO_URI : {"unset", "set"},
   JWT_ACCESS_SECRET : {"unset", "below8", "below16", "below32", "long"},
   KEY_ENCRYPTION_SECRET : {"unset", "below16", "below32"},
   ENABLE_SCHEDULER : {"unset", "blank", "other", "false"}]

IsProd(e) == e.NODE_ENV = "production"

\* Mutant: the toggle goes first.
ToggledAdapter(e) ==
  CASE e.USE_SOROBAN_STUB = "true"           -> "stub"
    [] e.USE_SOROBAN_STUB = "false"          -> "real"
    [] e.SOROBAN_ADAPTER \in {"real", "stub"} -> e.SOROBAN_ADAPTER
    [] OTHER                                   -> "stub"

SelectedAdapter(e) ==
  CASE e.SOROBAN_ADAPTER \in {"real", "stub"} -> e.SOROBAN_ADAPTER
    [] OTHER -> IF e.USE_SOROBAN_STUB = "false" THEN "real" ELSE "stub"

-----------------------------------------------------------------------------
Optional == [required |-> FALSE, def |-> "none", ok |-> {}]
Required == [Optional EXCEPT !.required = TRUE]

\* ok: the values that pass; only those named are checked.
BuildSpecs(e) ==
  LET real == SelectedAdapter(e) = "real"
      atLeast8 == {"below16", "below32", "long"}
  IN [NODE_ENV              |-> [Optional EXCEPT !.def = "development", !.ok = {"development", "production"}],
      MONGO_URI             |-> [Required EXCEPT !.ok = {"set"}],
      JWT_ACCESS_SECRET     |-> [Required EXCEPT !.ok = IF IsProd(e) THEN {"long"} ELSE atLeast8],
      KEY_ENCRYPTION_SECRET |-> [Optional EXCEPT !.required = IsProd(e), !.ok = {"below32", "long"}],
      SOROBAN_ADAPTER       |-> [Optional EXCEPT !.def = "stub", !.ok = {"stub", "real"}],
      RPC_URL               |-> [Optional EXCEPT !.required = real, !.ok = {"set"}],
      CONTRACT_ID           |-> [Optional EXCEPT !.required = real, !.ok = {"set"}],
      SERVICE_SECRET        |-> [Optional EXCEPT !.required = real, !.ok = {"set"}],
      ENABLE_SCHEDULER      |-> [Optional EXCEPT !.def = IF IsProd(e) THEN "true" ELSE "false",
                                                 !.ok = {"true", "false"}]]

Absent(value) == value \in {"unset", "blank"}

IsProblem(spec, value) == IF Absent(value) THEN spec.required ELSE value \notin spec.ok

\* A default is for a variable that is unset, not for one that is blank.
Defaulted(e) ==
  LET specs == BuildSpecs(e)
  IN [name \in DOMAIN e |->
        IF name \in DOMAIN specs /\ e[name] = "unset" /\ ~specs[name].required /\ specs[name].def # "none"
        THEN specs[name].def ELSE e[name]]

StartupInit == env \in Environments /\ phase = "starting"

Passes ==
  /\ \A name \in DOMAIN BuildSpecs(env) : ~IsProblem(BuildSpecs(env)[name], env[name])
  /\ IsProd(Defaulted(env)) => SelectedAdapter(Defaulted(env)) = "real"

\* validateEnv sets the defaults in any case.
ValidateEnv ==
  /\ phase = "starting"
  /\ env' = Defaulted(env)
  /\ phase' = IF Passes THEN "up" ELSE "exited"

\* A serverless function connects and serves: nothing checks the variables, nor
\* sets their defaults.  Without MONGO_URI it answers 503, and the next
\* invocation tries again.
ServeRequest ==
  /\ phase = "starting"
  /\ ~Absent(env.MONGO_URI)
  /\ phase' = "serving"
  /\ UNCHANGED env

-----------------------------------------------------------------------------
(* What is read of the environment later. *)

\* Of services/sorobanAdapter/index.js, which has a copy of the rule.
SelectMode ==
  CASE env.SOROBAN_ADAPTER = "real"    -> "real"
    [] env.SOROBAN_ADAPTER = "stub"    -> "stub"
    [] env.USE_SOROBAN_STUB = "false"  -> "real"
    [] OTHER                           -> "stub"

\* getConfig of rpc.js, without which the real adapter makes no call.
ChainConfigured ==
  \A name \in {"RPC_URL", "CONTRACT_ID", "SERVICE_SECRET"} : ~Absent(env[name])

\* A custodial key is encrypted, or storing it is refused (ALLOW_PLAINTEXT_KEYS is not set).
CanStoreKeys == ~Absent(env.KEY_ENCRYPTION_SECRET)

(***************************************************************************)
(* A process that server.js starts has what it needs, although the check   *)
(* reads the variables before the defaults are set and the program after:  *)
(* the adapter it gets is the chain's in production, the chain's adapter   *)
(* always finds its credentials, and production can store custodial keys.  *)
(* One that api/index.js starts is "serving" and is promised none of it:   *)
(* docs/API.md:137 and .env.example:24 say the app refuses to boot without,*)
(* but that entry never calls validateEnv.                                 *)
(***************************************************************************)
StartsConfigured ==
  phase = "up" =>
    /\ IsProd(env) => SelectMode = "real" /\ CanStoreKeys
    /\ SelectMode = "real" => ChainConfigured
=============================================================================
