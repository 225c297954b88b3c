--------------------------- MODULE Configuration ----------------------------
(***************************************************************************)
(* AppConfig::load (configuration/src/lib.rs): what the bot makes of its   *)
(* environment and of the files .env and .secrets.                         *)
(*                                                                         *)
(* A text is what the parsers tell apart.  dotenvy, a library, adds the    *)
(* variables of a file to the environment and replaces none, so that the   *)
(* first source that sets a variable decides.                              *)
(***************************************************************************)
EXTENDS Integers

RequiredVariables ==
    {"MMA_SYMBOL", "MMA_COIN", "MMA_ORDER_SIZE", "MMA_TESTNET", "API_KEY", "API_SECRET"}

OptionalVariables == {"RUST_LOG", "RUST_LOG_STYLE"}

Variables == RequiredVariables \cup OptionalVariables

\* "number" and "nonpositive" (also "inf" and "NaN") are what parse::<f64> accepts, "bool"
\* is true or false, "style" one of auto, always and never in any case, "other" any other
\* text that is not blank.
Texts == {"unset", "blank", "number", "nonpositive", "bool", "style", "other"}

\* What the process was started with, and the two files; a file may be missing.
Environments ==
    [process : [Variables -> Texts], dotenv_found : BOOLEAN, dotenv : [Variables -> Texts],
     secrets_found : BOOLEAN, secrets : [Variables -> Texts]]

\* env::var once both files are loaded.
EnvVar(env, name) ==
    CASE env.process[name] # "unset" -> env.process[name]
      [] env.process[name] = "unset" /\ env.dotenv[name] # "unset" -> env.dotenv[name]
      [] OTHER -> env.secrets[name]

\* Defect: a variable that is set to nothing falls back on the next source.
RequiredEnvOrFallback(env, name) ==
    \E source \in {env.process, env.dotenv, env.secrets} : source[name] \notin {"unset", "blank"}

RequiredEnv(env, name) == EnvVar(env, name) \notin {"unset", "blank"}

ParseOrderSize(text) == text = "number"

\* trim is only for the check: a text with blanks around it fails parse::<bool>.
ParseTestnet(text) == text = "bool"

\* "always" unless it is set.
ParseLogStyle(text) == text \in {"unset", "style"}

\* Does load return a configuration?
Loads(env) ==
    /\ env.dotenv_found /\ env.secrets_found
    /\ \A name \in RequiredVariables : RequiredEnv(env, name)
    /\ ParseOrderSize(EnvVar(env, "MMA_ORDER_SIZE"))
    /\ ParseTestnet(EnvVar(env, "MMA_TESTNET"))
    /\ ParseLogStyle(EnvVar(env, "RUST_LOG_STYLE"))
=============================================================================
