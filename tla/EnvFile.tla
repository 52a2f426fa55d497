------------------------------- MODULE EnvFile -------------------------------
(***************************************************************************)
(* The file `--docbrain-env` names, which the CLI and the MCP connector    *)
(* read under one table (DOCBRAIN_VARIABLES and load_docbrain_env of       *)
(* crates/docbrain-cli/src/main.rs and crates/docbrain-mcp/src/lib.rs).    *)
(*                                                                         *)
(* A file is the set of names it sets, or Unusable: a relative path,       *)
(* one that cannot be read or parsed, a `$`, a NUL.  An empty variable is  *)
(* unset.                                                                  *)
(***************************************************************************)

Unusable == {"not a variable"}

DOCBRAIN_VARIABLES ==
  [API_KEY |-> {"connector"}, SERVER_URL |-> {"connector"}, PROFILE |-> {},
   CORPUS_DROP_ALERT |-> {"cli"}, GENERATE_TIMEOUT_SECS |-> {"cli"}, CLI_CALLBACK_HOST |-> {}]

Variable == DOMAIN DOCBRAIN_VARIABLES
Foreign == "HTTPS_PROXY"

File == (SUBSET {"API_KEY", "CORPUS_DROP_ALERT", Foreign}) \cup {Unusable}

file_may_set(name, this) == name \in Variable /\ this \in DOCBRAIN_VARIABLES[name]

(* One name it may not set refuses the whole file, and so does Unusable.   *)
Accepted(file, this) == \A name \in file : file_may_set(name, this)

(* What is set already wins over the file.                                 *)
load_docbrain_env(file, environment) ==
  [name \in DOMAIN environment |->
     IF environment[name] = "unset" /\ name \in file THEN "file" ELSE environment[name]]
=============================================================================
