---------------------------- MODULE CommandLine ----------------------------
(***************************************************************************)
(* The front of `docbrain`: read the command line, load the named file,    *)
(* settle server and key, and run the command (main, run and parse_cli of  *)
(* crates/docbrain-cli/src/main.rs), with every command that is a single   *)
(* request.  The commands in Handed have modules of their own; login and   *)
(* logout, and how server and key are settled, are Profiles'.              *)
(***************************************************************************)
EXTENDS EnvFile, Naturals

CONSTANT None

VARIABLES
  front,         \* how far the program is
  command,
  changed,       \* has the server made the change? (external)
  file,          \* the --output file
  said,          \* what standard output says: a result, or that there is none
  code           \* the exit status

vars == <<front, command, changed, file, said, code>>

Init ==
  /\ front = "off"
  /\ command = None
  /\ changed = FALSE
  /\ file = "untouched"
  /\ said = None
  /\ code = None

----------------------------------------------------------------------------
Handed == {"ask", "incident", "generate", "check_claims", "connect",
           "evidence_offline", "evidence_export"}

(* Commands that change something at the server, and those that only read. *)
Changing ==
  {"token_create", "token_revoke", "thumbs", "thumbsdown_source", "feedback",
   "autopilot_analyze", "autopilot_generate", "autopilot_dismiss", "autopilot_publish",
   "ingest_trigger", "ci_analyze", "deploy_capture"}
Reading ==
  {"version", "connect_list", "token_list", "trace_query", "freshness", "analytics",
   "autopilot_summary", "autopilot_gaps", "autopilot_drafts", "access_coverage",
   "license_show", "attest_show", "attest_export", "findings", "kf_schema", "validate"}
Command == Handed \cup Changing \cup Reading \cup {"validate_schema"}

NeedsKey ==
  {"generate", "connect", "connect_list", "token_create", "token_list", "token_revoke",
   "trace_query", "ingest_trigger", "access_coverage", "license_show", "attest_show",
   "attest_export", "ci_analyze", "deploy_capture", "findings", "kf_schema", "validate"}

ConstantsOK == None \notin Command

uses_target(c) == c \notin {"evidence_offline", "validate_schema"}

(* What is checked on this side: a rating, the answer the source is one of, *)
(* --format with --state, --export without --output, a file to validate.   *)
Checked == {"feedback", "thumbsdown_source", "findings", "attest_export", "validate",
            "validate_schema"}

(* An id is cut at a byte to be shown: inside a character, that is a panic. *)
Cut == {"autopilot_generate", "autopilot_publish"}

(* The answers a server, or the way to it, may give: "unreadable" is a     *)
(* success whose body breaks off or is not of the type expected, and       *)
(* "incomplete" one read as any JSON, without the part that matters.       *)
Answer == {"unreachable", "refused", "conflict", "unreadable", "incomplete", "ok"}

(* A handler that reads one type cannot be given an incomplete answer.     *)
Typed == Answer \ {"incomplete"}

End(status) == front' = "ended" /\ code' = status

----------------------------------------------------------------------------
(* Help and the version are printed; a line clap cannot read ends with 2,  *)
(* as does a --profile or --docbrain-env given twice with different values *)
(* (target_flags_given), and nothing that was typed is repeated.           *)
UsageError ==
  /\ front = "off"
  /\ \E status \in {0, 2} : End(status)
  /\ UNCHANGED <<command, changed, file, said>>

Parse ==
  /\ front = "off"
  /\ command' \in Command /\ front' = "parsed"
  /\ UNCHANGED <<changed, file, said, code>>

(* The file sets how an ask or a generate behaves, never who runs it.      *)
LoadEnv ==
  /\ front = "parsed"
  /\ \/ front' = "loaded" /\ UNCHANGED code
     \/ \E named \in File :
          IF Accepted(named, "cli") THEN front' = "loaded" /\ UNCHANGED code ELSE End(1)
  /\ UNCHANGED <<command, changed, file, said>>

(* A name that is no sign-in's ends every command, the offline ones too.   *)
BadProfile ==
  /\ front = "loaded"
  /\ End(1)
  /\ UNCHANGED <<command, changed, file, said>>

(* `version` still answers where no server is settled; other commands that *)
(* need one end, and so do those that need a key where there is none.      *)
Resolve ==
  /\ front = "loaded"
  /\ \E target \in {None, "keyless", "keyed"} :
       IF target = None /\ uses_target(command)
         THEN End(IF command = "version" THEN 0 ELSE 1)
       ELSE IF target # "keyed" /\ command \in NeedsKey THEN End(1)
       ELSE front' = "dispatched" /\ UNCHANGED code
  /\ UNCHANGED <<command, changed, file, said>>

(* The command's own module takes over, and its status is the program's.   *)
HandOver ==
  /\ front = "dispatched" /\ command \in Handed
  /\ front' = "handed"
  /\ UNCHANGED <<command, changed, file, said, code>>

Exit(status) ==
  /\ front = "handed"
  /\ End(status)
  /\ UNCHANGED <<command, changed, file, said>>

Refuse ==
  /\ front = "dispatched" /\ command \in Checked
  /\ End(1)
  /\ UNCHANGED <<command, changed, file, said>>

Panic ==
  /\ front = "dispatched" /\ command \in Cut
  /\ End(101)
  /\ UNCHANGED <<command, changed, file, said>>

Valid ==
  /\ front = "dispatched" /\ command = "validate_schema"
  /\ said' = "result"
  /\ End(0)
  /\ UNCHANGED <<command, changed, file>>

Send ==
  /\ front = "dispatched" /\ command \in Reading \cup Changing
  /\ front' = "sent"
  /\ UNCHANGED <<command, changed, file, said, code>>

(* What the server has made of a request that was answered so.             *)
Made(answer) ==
  CASE answer \in {"ok", "incomplete", "unreadable"} -> {(command \in Changing)}
    [] answer = "unreachable" -> {FALSE, (command \in Changing)}
    [] OTHER -> {FALSE}

(* A handler: which answers it may get, and which of them end it with 0.   *)
(* Nothing is retried: a change may be made although its answer is lost.   *)
Receive(c, answers, done) ==
  /\ front = "sent" /\ command = c
  /\ \E answer \in answers :
       /\ changed' \in Made(answer)
       /\ said' = IF answer \notin done THEN None
                  ELSE IF answer = "conflict" THEN "nothing new" ELSE "result"
       /\ End(IF answer \in done THEN 0 ELSE 1)
  /\ UNCHANGED <<command, file>>

Full == {"ok"}
Any == {"ok", "incomplete"}

(* A revocation and a dismissal are done by their status; nobody reads the *)
(* answer.                                                                 *)
token_create == Receive("token_create", Answer, Any)
token_list == Receive("token_list", Answer, Any)
token_revoke == Receive("token_revoke", Typed, {"ok", "unreadable"})
trace_query == Receive("trace_query", Answer, Full)

submit_quick_feedback == Receive("thumbs", Typed, Full)
submit_source_feedback == Receive("thumbsdown_source", Typed, Full)
submit_feedback == Receive("feedback", Typed, Full)
show_freshness == Receive("freshness", Typed, Full)
show_analytics == Receive("analytics", Typed, Full)

autopilot_summary == Receive("autopilot_summary", Typed, Full)
autopilot_gaps == Receive("autopilot_gaps", Typed, Full)
autopilot_analyze == Receive("autopilot_analyze", Answer, Any)
autopilot_drafts == Receive("autopilot_drafts", Typed, Full)
autopilot_generate == Receive("autopilot_generate", Answer, Any)

(* Mutant of autopilot_dismiss: a refusal that nobody looked at.           *)
autopilot_dismiss_unchecked == Receive("autopilot_dismiss", Typed, Typed \ {"unreachable"})

autopilot_dismiss == Receive("autopilot_dismiss", Typed, {"ok", "unreadable"})
autopilot_publish == Receive("autopilot_publish", Answer, Any)

(* An ingest that is under way already, and an attestation that was never  *)
(* computed, are told as nothing to do.                                    *)
admin_access_coverage == Receive("access_coverage", Answer, Any)
admin_ingest_trigger == Receive("ingest_trigger", Typed, {"ok", "conflict"})
license_show == Receive("license_show", Typed, Full)
attest_show == Receive("attest_show", Answer, Full)

(* The export is written whole, or the command fails.                      *)
attest_export ==
  \/ Receive("attest_export", Typed \ {"ok"}, {"conflict"})
  \/ /\ front = "sent" /\ command = "attest_export"
     /\ \/ End(0) /\ file' = "written" /\ said' = "result"
        \/ End(1) /\ file' \in {file, "torn"} /\ said' = None
     /\ UNCHANGED <<command, changed>>

ci_analyze == Receive("ci_analyze", Typed, Full)
ci_deploy_capture == Receive("deploy_capture", Typed, Full)

(* A schema that breaks off is printed as an empty one; a file to validate *)
(* may violate the schema that was fetched for it.                         *)
fetch_kf_schema == Receive("kf_schema", Typed, {"ok", "unreadable"})
validate ==
  \/ Receive("validate", Typed, Full)
  \/ Receive("validate", Full, {})
health_findings == Receive("findings", Answer, Any)

(* `version` answers, whatever the server does.                            *)
show_version == Receive("version", Typed, Typed)
handle_connect_list == Receive("connect_list", Answer, Any)

Answered ==
  \/ token_create \/ token_list \/ token_revoke \/ trace_query
  \/ submit_quick_feedback \/ submit_source_feedback \/ submit_feedback
  \/ show_freshness \/ show_analytics
  \/ autopilot_summary \/ autopilot_gaps \/ autopilot_analyze \/ autopilot_drafts
  \/ autopilot_generate \/ autopilot_dismiss \/ autopilot_publish
  \/ admin_access_coverage \/ admin_ingest_trigger \/ license_show
  \/ attest_show \/ attest_export \/ ci_analyze \/ ci_deploy_capture
  \/ fetch_kf_schema \/ validate \/ health_findings
  \/ show_version \/ handle_connect_list

(* What the program does by itself, once it is started.                    *)
Run ==
  \/ UsageError \/ Parse \/ LoadEnv \/ BadProfile \/ Resolve
  \/ Refuse \/ Panic \/ Valid \/ Send \/ Answered

Next == Run \/ HandOver \/ \E status \in 0 .. 3 : Exit(status)

(* Requests under a timeout; every other one waits as long as it takes.    *)
Bounded == {"version", "connect_list", "autopilot_publish", "kf_schema"}
Waiting == front = "sent" /\ command \notin Bounded

----------------------------------------------------------------------------
TypeOK ==
  /\ front \in {"off", "parsed", "loaded", "dispatched", "handed", "sent", "ended"}
  /\ command \in Command \cup {None}
  /\ changed \in BOOLEAN
  /\ file \in {"untouched", "written", "torn"}
  /\ said \in {None, "result", "nothing new"}
  /\ code \in {None, 101} \cup 0 .. 3

(* A script may go by the exit status: 0 is only given for a change the    *)
(* server has made, or for the two refusals that are told as `nothing to   *)
(* do`, whatever broke on the way; and a command that stopped on this side *)
(* has changed nothing (run, and every handler's check of its answer).     *)
ZeroIsDone ==
  front = "ended" /\ command \in Changing \cup {"attest_export"} =>
    /\ code = 0 => \/ changed \/ file = "written"
                   \/ said = "nothing new" /\ command \in {"ingest_trigger", "attest_export"}
    /\ code \in {2, 101} => ~changed
    /\ file = "written" => code = 0
=============================================================================
