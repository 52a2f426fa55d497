----------------------------- MODULE CheckClaims -----------------------------
(***************************************************************************)
(* `docbrain ci check-claims`, the gate of a pipeline: read a diff, name   *)
(* the repository it is in, ask the server what the change falsifies       *)
(* there, and say so in the exit status (check_claims of                   *)
(* crates/docbrain-cli/src/main.rs; repository.rs).                        *)
(*                                                                         *)
(* A repository is what `name` makes of a typed name, a variable or a      *)
(* remote: Alias is an address whose host is an alias of ~/.ssh/config,    *)
(* Junk one that names nothing.                                            *)
(***************************************************************************)
CONSTANTS
  Here,          \* the repository the change is in
  Elsewhere,     \* another one
  Alias, Junk,
  None

ConstantsOK ==
  /\ Elsewhere # Here /\ Alias \notin {Here, Elsewhere} /\ Junk \notin {Here, Elsewhere, Alias}
  /\ None \notin {Here, Elsewhere, Alias, Junk, 0, 2, 3}

VARIABLES
  gate,          \* how far the command is
  place,         \* where it runs: its variables, its checkout, its options
  diff,          \* "read", "empty" or "unreadable", and where from
  asked,         \* the repository the server was asked about
  answer,        \* what the server answered
  code           \* the exit status

vars == <<gate, place, diff, asked, answer, code>>

Init ==
  /\ gate = "off"
  /\ place = None
  /\ diff = None
  /\ asked = None
  /\ answer = None
  /\ code = None

----------------------------------------------------------------------------
Repo == {Here, Elsewhere}
Remote == {Here, Alias, Junk, None}

Shell ==
  [github_actions |-> FALSE, foreign_actions |-> FALSE, github_repository |-> None,
   gitlab_ci |-> FALSE, merge_request_path |-> None, project_path |-> None,
   origin |-> Here, ssh_hostname |-> None, flag |-> None, warn_only |-> FALSE]

(* Gitea and Forgejo runners set GitHub's variables too, about themselves; *)
(* the pipeline of a merge request may run in the fork.                    *)
Runner ==
  [Shell EXCEPT !.github_actions = TRUE, !.github_repository = Here]
Foreign ==
  [Shell EXCEPT !.github_actions = TRUE, !.github_repository = Elsewhere,
                !.foreign_actions = TRUE]
GitLab ==
  [Shell EXCEPT !.gitlab_ci = TRUE, !.project_path = Here]
MergeRequest ==
  [Shell EXCEPT !.gitlab_ci = TRUE, !.merge_request_path = Here, !.project_path = Elsewhere,
                !.origin = Elsewhere]

Pipeline ==
  {Runner, GitLab, MergeRequest}
  \cup {[p EXCEPT !.origin = o] : p \in {Shell, Foreign}, o \in Remote}

Given(p, flag, warn_only, host) ==
  [p EXCEPT !.flag = flag, !.warn_only = warn_only, !.ssh_hostname = host]

Configured ==
  {Given(p, flag, warn_only, host) :
     p \in Pipeline, flag \in {Here, Alias, Junk, None}, warn_only \in BOOLEAN,
     host \in {Here, Junk, None}}

(* An address only matters where there is an alias to look up.             *)
Place == {p \in Configured : p.ssh_hostname # None => Alias \in {p.flag, p.origin}}

----------------------------------------------------------------------------
name(input) == IF input \in Repo THEN input ELSE None

(* An alias is looked up once, with `ssh -G`, and never twice.             *)
name_via_alias(input, run) ==
  IF input = Alias THEN name(run.ssh_hostname) ELSE name(input)

(* Mutant of derive: a runner that only looks like GitHub's is believed.   *)
derive_unguarded(run) ==
  IF run.flag # None THEN name_via_alias(run.flag, run)
  ELSE IF run.github_actions /\ run.github_repository # None THEN name(run.github_repository)
  ELSE IF run.gitlab_ci /\ run.merge_request_path # None THEN name(run.merge_request_path)
  ELSE IF run.gitlab_ci /\ run.project_path # None THEN name(run.project_path)
  ELSE IF run.origin # None THEN name_via_alias(run.origin, run)
  ELSE None

(* The first arm that yields a value decides, even if it names nothing.    *)
derive(run) ==
  IF run.flag # None THEN name_via_alias(run.flag, run)
  ELSE IF run.github_actions /\ ~run.foreign_actions /\ run.github_repository # None
    THEN name(run.github_repository)
  ELSE IF run.gitlab_ci /\ run.merge_request_path # None THEN name(run.merge_request_path)
  ELSE IF run.gitlab_ci /\ run.project_path # None THEN name(run.project_path)
  ELSE IF run.origin # None THEN name_via_alias(run.origin, run)
  ELSE None

exit_code(a, warn_only) ==
  IF ~a.paths_checked THEN 0
  ELSE IF a.findings /\ ~warn_only THEN 2
  ELSE IF ~a.repository_known \/ a.could_not_tell THEN 3
  ELSE 0

(* A server that checked no path has found nothing; one that ignores the   *)
(* repository answers about all of them, and names none.                   *)
Answer ==
  {a \in [repository : Repo \cup {None}, scoped_to_spaces : {"all", "some", "none"},
          paths_checked : BOOLEAN, findings : BOOLEAN, could_not_tell : BOOLEAN,
          repository_known : BOOLEAN] :
     a.findings \/ a.could_not_tell => a.paths_checked}

EXIT_CLI_ERROR == 3
End(status) == gate' = "ended" /\ code' = status

----------------------------------------------------------------------------
Start ==
  /\ gate = "off"
  /\ place' \in Place
  /\ diff' \in [from : {"stdin", "file"}, text : {"read", "empty", "unreadable"}]
  /\ gate' = "reading"
  /\ UNCHANGED <<asked, answer, code>>

(* An empty stream is what a failed producer looks like; a file is not.    *)
ReadDiff ==
  /\ gate = "reading"
  /\ IF diff.text = "unreadable" \/ (diff.from = "stdin" /\ diff.text = "empty")
       THEN End(EXIT_CLI_ERROR)
       ELSE gate' = "naming" /\ UNCHANGED code
  /\ UNCHANGED <<place, diff, asked, answer>>

Name ==
  /\ gate = "naming"
  /\ asked' = derive(place)
  /\ IF asked' = None THEN End(EXIT_CLI_ERROR) ELSE gate' = "asking" /\ UNCHANGED code
  /\ UNCHANGED <<place, diff, answer>>

(* Unreachable, refused, or not an answer that can be read.                *)
Unanswered ==
  /\ gate = "asking"
  /\ End(EXIT_CLI_ERROR)
  /\ UNCHANGED <<place, diff, asked, answer>>

Decide ==
  /\ gate = "asking"
  /\ answer' \in Answer
  /\ End(IF answer'.repository # asked \/ answer'.scoped_to_spaces = "none"
           THEN EXIT_CLI_ERROR
           ELSE exit_code(answer', place.warn_only))
  /\ UNCHANGED <<place, diff, asked>>

Work == ReadDiff \/ Name \/ Unanswered \/ Decide

Next == Start \/ Work

(* The request of this command is under no timeout of its own.             *)
Waiting == gate = "asking"

Spec == Init /\ [][Next]_vars /\ WF_vars(Next)

----------------------------------------------------------------------------
TypeOK ==
  /\ gate \in {"off", "reading", "naming", "asking", "ended"}
  /\ place \in Place \cup {None}
  /\ diff \in [from : {"stdin", "file"}, text : {"read", "empty", "unreadable"}] \cup {None}
  /\ asked \in Repo \cup {None}
  /\ answer \in Answer \cup {None}
  /\ code \in {None, 0, 2, 3}

(* `Could not tell` is never shown as clean: a step only passes when a     *)
(* diff was read and the server was asked, and answered, about the         *)
(* repository the change is in, wherever the pipeline runs; and only fails *)
(* on claims when some were found there (check_claims, derive, exit_code). *)
CleanMeansChecked ==
  /\ code \in {0, 2} =>
       /\ diff.text = "read" \/ diff = [from |-> "file", text |-> "empty"]
       /\ asked = Here /\ answer.repository = Here
       /\ answer.scoped_to_spaces # "none"
  /\ code = 2 => answer.findings /\ ~place.warn_only
  /\ code = 0 /\ answer.paths_checked =>
       /\ answer.repository_known /\ ~answer.could_not_tell
       /\ answer.findings => place.warn_only
=============================================================================
