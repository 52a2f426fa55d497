---------------------------- MODULE McpConnector ----------------------------
(***************************************************************************)
(* `docbrain-mcp`, the connector an editor's agent starts and talks to     *)
(* over its standard streams: start up, then answer one line at a time     *)
(* (main, serve and parse_cli; handle_tools_call and the tools of          *)
(* crates/docbrain-mcp/src/lib.rs).                                        *)
(*                                                                         *)
(* The server and the agent are the environment, and outlive a connector   *)
(* the host has killed.  The agent asks, captures or uses the other tools  *)
(* as `task` says; it goes on asking until it is answered.                 *)
(***************************************************************************)
EXTENDS EnvFile, Naturals, Sequences, SequencesExt

CONSTANTS
  Capture,       \* [tool, place, text]: what the agent may want saved
  MaxFaults,     \* bound: answers to questions that go wrong
  None

VARIABLES
  connector,     \* "off", "keyed", "serving" or "ended"
  task,
  request,       \* the line being answered
  told,          \* the last answer the agent got
  store,         \* the captures at the server, by source (external)
  knows,         \* what the agent knows of each capture (history)
  made,          \* did the server do what the last other tool asks? (external)
  asking,        \* has the agent a question open?
  session,       \* the conversation it goes on with: None or "open"
  alive,         \* will the server go on with it? (external)
  faults,
  code           \* the exit status

agent == <<request, told, store, knows, made, asking, session, alive, faults>>
vars == <<connector, task, agent, code>>

Init ==
  /\ connector = "off"
  /\ task = None
  /\ request = None /\ told = None
  /\ store = [s \in {} |-> None]
  /\ knows = [c \in Capture |-> "no"]
  /\ made = FALSE
  /\ asking = FALSE
  /\ session = None /\ alive = FALSE
  /\ faults = 0
  /\ code = None

----------------------------------------------------------------------------
End(status) == connector' = "ended" /\ code' = status

(* Help and the version; a command line that is refused.  The other        *)
(* arguments are counted and passed over.  A host may start a connector    *)
(* again after its end, whatever that was.                                 *)
parse_cli ==
  /\ connector \in {"off", "ended"}
  /\ task' \in IF task = None THEN {"ask", "capture", "tools"} ELSE {task}
  /\ \/ \E status \in {0, 2} : End(status)
     \/ connector' = "named" /\ code' = None
  /\ request' = None /\ told' = None
  /\ UNCHANGED <<store, knows, made, asking, session, alive, faults>>

(* The file may set the key and the server; without a key there is no      *)
(* start.                                                                  *)
LoadKey ==
  /\ connector = "named"
  /\ \E file \in File \cup {{}}, key \in {"unset", "shell"} :
       LET environment == load_docbrain_env(file, [API_KEY |-> key])
       IN  IF Accepted(file, "connector") /\ environment.API_KEY # "unset"
             THEN connector' = "keyed" /\ UNCHANGED code
             ELSE End(1)
  /\ UNCHANGED <<task, agent>>

(* One request, to /auth/me, whatever it fails of.                         *)
validate_connection ==
  /\ connector = "keyed"
  /\ \/ connector' = "serving" /\ UNCHANGED code
     \/ End(1)
  /\ UNCHANGED <<task, agent>>

Idle == connector = "serving" /\ request = None

(* Standard input ends, or holds a line that is not UTF-8.                 *)
InputEnds ==
  /\ Idle
  /\ \E status \in {0, 1} : End(status)
  /\ UNCHANGED <<task, agent>>

Told(about, says) == [about |-> about, says |-> says]

----------------------------------------------------------------------------
(* Lines that make no request: a blank one is skipped, one that cannot be  *)
(* parsed is answered under no id.  Without an id of its own a line is     *)
(* carried out, and never answered.                                        *)
Line ==
  [blank |-> None, garbled |-> "parse error", initialize |-> "result", ping |-> "result",
   initialized |-> "empty", tools_list |-> "result", unknown_method |-> "method not found",
   no_tool |-> "invalid params", unknown_tool |-> "invalid params", bad_arguments |-> "tool error"]

handle_request ==
  /\ task = "tools" /\ Idle
  /\ \E line \in DOMAIN Line, notification \in BOOLEAN :
       told' = IF line = "blank" \/ (notification /\ line # "garbled")
                 THEN told ELSE Told(line, Line[line])
  /\ UNCHANGED <<connector, task, request, store, knows, made, asking, session, alive, faults, code>>

Reading ==
  {"incident", "freshness", "autopilot_gaps", "autopilot_summary", "suggest_capture", "context"}
Changing == {"feedback", "autopilot_generate"}
Use == [tool : Reading \cup Changing, notification : BOOLEAN]

Call ==
  /\ task = "tools" /\ Idle
  /\ request' \in Use
  /\ told' = None /\ made' = FALSE
  /\ UNCHANGED <<connector, task, store, knows, asking, session, alive, faults, code>>

(* A tool's one request, and what it makes of an answer that is `ok` but   *)
(* lacks the part that matters.                                            *)
Tool(tool, incomplete) ==
  /\ task = "tools" /\ request # None /\ connector = "serving"
  /\ request.tool = tool
  /\ \E answer \in {"lost", "refused", "unreadable", "incomplete", "ok"} :
       /\ told' = IF request.notification THEN told
                  ELSE Told(tool, CASE answer = "ok" -> "done"
                                    [] answer = "incomplete" -> incomplete
                                    [] OTHER -> "failed")
       /\ made' \in CASE answer = "lost" -> {FALSE, (tool \in Changing)}
                      [] answer = "refused" -> {FALSE}
                      [] OTHER -> {(tool \in Changing)}
  /\ request' = None
  /\ UNCHANGED <<connector, task, store, knows, asking, session, alive, faults, code>>

(* A list that is none is an error, but what is known of a path reads as   *)
(* nothing known.                                                          *)
tool_incident == Tool("incident", "done")
tool_freshness == Tool("freshness", "done")
tool_autopilot_gaps == Tool("autopilot_gaps", "failed")
tool_autopilot_generate == Tool("autopilot_generate", "done")
tool_autopilot_summary == Tool("autopilot_summary", "done")
tool_suggest_capture == Tool("suggest_capture", "failed")
tool_context == Tool("context", "nothing")
tool_feedback == Tool("feedback", "done")

tools_call ==
  \/ tool_incident \/ tool_freshness \/ tool_autopilot_gaps \/ tool_autopilot_generate
  \/ tool_autopilot_summary \/ tool_suggest_capture \/ tool_context \/ tool_feedback

----------------------------------------------------------------------------
(* A capture's source: the place in the code and the hash of the snippet,  *)
(* never the annotation; or the commit message and the intent, with        *)
(* nothing between them.                                                   *)
source_id(c) ==
  IF c.tool = "annotate" THEN <<"ide", c.place>> ELSE <<"commit", c.place \o c.text>>

content(c) == c.place \o <<"/">> \o c.text
Edited == <<"edited">>
Withdrawn == <<"withdrawn">>
Another == <<"another">>

Source == {source_id(c) : c \in Capture}

(* A capture is told from others by its source and its text, and no text   *)
(* is a revision of it.                                                    *)
ConstantsOK ==
  /\ MaxFaults \in Nat
  /\ \A c \in Capture :
       /\ c.tool \in {"annotate", "commit_capture"}
       /\ content(c) \notin {Edited, Withdrawn, Another, None}
       /\ \A d \in Capture : source_id(c) = source_id(d) /\ content(c) = content(d) => c = d
  /\ None \notin {Edited, Withdrawn, Another}
  /\ None \notin {"ask", "capture", "tools"}

At(s) == IF s \in DOMAIN store THEN store[s] ELSE None
Put(s, what) == [t \in DOMAIN store \cup {s} |-> IF t = s THEN what ELSE store[t]]

Revision == [tool : {"revise"}, source : Source, what : {Edited, Withdrawn}]

Sends(r) ==
  /\ task = "capture" /\ Idle
  /\ request' = r
  /\ told' = None
  /\ UNCHANGED <<connector, task, store, knows, made, asking, session, alive, faults, code>>

tool_annotate == \E c \in Capture : c.tool = "annotate" /\ Sends(c)
tool_commit_capture == \E c \in Capture : c.tool = "commit_capture" /\ Sends(c)
tool_revise == \E r \in Revision : At(r.source) # None /\ Sends(r)

Save == tool_annotate \/ tool_commit_capture \/ tool_revise

(* The store once the server has done what is asked.                       *)
Done ==
  IF request.tool = "revise" THEN Put(request.source, request.what)
  ELSE IF At(source_id(request)) = None THEN Put(source_id(request), content(request))
  ELSE store

(* Refusals of the server: it knows a capture it has by its source and its *)
(* text, whoever sent it.                                                  *)
Refusals ==
  {"capture_limit", "other"} \cup
  (IF request.tool = "revise" THEN {"capture_changed", "secret"}
   ELSE IF At(source_id(request)) = None THEN {"secret", "not_checked", "premise_removed"}
   ELSE IF At(source_id(request)) = content(request) THEN {"already_captured"}
   ELSE {"duplicate_source"})

Taken == request.tool = "revise" \/ At(source_id(request)) = None

(* Mutant of describe_refusal: any duplicate is a capture that is there.   *)
describe_refusal_any(kind, verb) ==
  IF kind \in {"already_captured", "duplicate_source"} THEN "already saved" ELSE verb

(* The verb is the caller's, "not saved" or "not changed"; only the kind   *)
(* says that a capture is there already.                                   *)
describe_refusal(kind, verb) == IF kind = "already_captured" THEN "already saved" ELSE verb

Unknown == {"lost", "unreadable", "gateway"}

(* What the agent is told of an answer.  A gateway's error is the server's *)
(* refusal to a connector.                                                 *)
api_request(answer) ==
  LET revise == request.tool = "revise"
  IN  CASE answer = "ok" -> IF revise THEN "changed" ELSE "saved"
        [] answer \in {"lost", "unreadable"} -> "failed"
        [] OTHER -> describe_refusal(answer, IF revise THEN "not changed" ELSE "not saved")

create_fragment ==
  /\ task = "capture" /\ request # None /\ connector = "serving"
  /\ \E answer \in Refusals \cup Unknown \cup (IF Taken THEN {"ok"} ELSE {}) :
       /\ store' \in IF answer \in {"ok", "unreadable"} THEN {Done}
                     ELSE IF answer \in Unknown THEN {store, Done}
                     ELSE {store}
       /\ told' = Told(request, api_request(answer))
       /\ knows' = IF request.tool = "revise" \/ knows[request] = "saved" THEN knows
                   ELSE [knows EXCEPT ![request] =
                           IF told'.says \in {"saved", "already saved"} THEN "saved"
                           ELSE IF answer \in Unknown THEN "unsure" ELSE @]
  /\ request' = None
  /\ UNCHANGED <<connector, task, made, asking, session, alive, faults, code>>

----------------------------------------------------------------------------
NewQuestion ==
  /\ task = "ask" /\ Idle /\ ~asking
  /\ asking' = TRUE
  /\ UNCHANGED <<connector, task, request, told, store, knows, made, session, alive, faults, code>>

Question(s) == [tool |-> "ask", session |-> s]

(* The agent may leave the session out, which opens a new conversation.    *)
Ask ==
  /\ task = "ask" /\ Idle /\ asking
  /\ told = Told("ask", "start a new conversation") => session = None
  /\ request' \in {Question(session), Question(None)}
  /\ UNCHANGED <<connector, task, told, store, knows, made, asking, session, alive, faults, code>>

(* Mutant of names_a_dead_session: a session that expired is not one.      *)
names_a_dead_session_forbidden(status) == status \in {"403", "400 Invalid session_id"}

names_a_dead_session(status) == status \in {"403", "409", "400 Invalid session_id"}

(* Someone else's, expired, or no id at all.                               *)
Dead == request.session # None /\ ~alive

tool_ask ==
  /\ task = "ask" /\ request # None /\ connector = "serving"
  /\ \E status \in {"200", "fault"} \cup (IF Dead THEN {"403", "409", "400 Invalid session_id"} ELSE {}) :
       /\ status = "200" => ~Dead
       /\ status = "fault" => faults < MaxFaults
       /\ faults' = IF status = "fault" THEN faults + 1 ELSE faults
       /\ told' = Told("ask", IF status = "200" THEN "answer"
                              ELSE IF request.session # None /\ names_a_dead_session(status)
                                THEN "start a new conversation"
                              ELSE "failed")
       /\ IF status = "200" THEN asking' = FALSE /\ session' = "open" /\ alive' = TRUE
          ELSE UNCHANGED <<asking, session, alive>>
  /\ request' = None
  /\ UNCHANGED <<connector, task, store, knows, made, code>>

(* The agent omits the session, as it is told.                             *)
Obey ==
  /\ task = "ask" /\ Idle /\ told = Told("ask", "start a new conversation") /\ session # None
  /\ session' = None
  /\ UNCHANGED <<connector, task, request, told, store, knows, made, asking, alive, faults, code>>

----------------------------------------------------------------------------
(* The host kills the connector; the server may still do what was asked.   *)
Kill ==
  /\ connector \in {"named", "keyed", "serving"}
  /\ connector' = "ended"
  /\ IF task = "capture" /\ request # None
       THEN /\ store' \in {store, Done}
            /\ knows' = IF request.tool = "revise" \/ knows[request] = "saved" THEN knows
                        ELSE [knows EXCEPT ![request] = "unsure"]
       ELSE UNCHANGED <<store, knows>>
  /\ UNCHANGED <<task, request, told, made, asking, session, alive, faults, code>>

(* Another connector saves something else of the same source first.        *)
Elsewhere ==
  /\ task = "capture"
  /\ \E s \in Source : At(s) = None /\ store' = Put(s, Another)
  /\ UNCHANGED <<connector, task, request, told, knows, made, asking, session, alive, faults, code>>

Expire ==
  /\ alive
  /\ alive' = FALSE
  /\ UNCHANGED <<connector, task, request, told, store, knows, made, asking, session, faults, code>>

(* What the connector and an agent with a question open do by themselves.  *)
Serve ==
  \/ LoadKey \/ validate_connection \/ tools_call \/ create_fragment \/ tool_ask
  \/ Ask \/ Obey

Next ==
  \/ parse_cli \/ Serve \/ InputEnds \/ handle_request \/ Call \/ Save \/ NewQuestion
  \/ Kill \/ Elsewhere \/ Expire

Spec == Init /\ [][Next]_vars /\ WF_vars(Serve)

----------------------------------------------------------------------------
RequestType ==
  \/ request = None
  \/ task = "tools" /\ request \in Use
  \/ task = "capture" /\ request \in Capture \cup Revision
  \/ task = "ask" /\ request \in {Question(None), Question("open")}

TypeOK ==
  /\ connector \in {"off", "named", "keyed", "serving", "ended"}
  /\ task \in {None, "ask", "capture", "tools"}
  /\ RequestType
  /\ DOMAIN store \subseteq Source
  /\ \A s \in DOMAIN store :
       store[s] \in {content(c) : c \in Capture} \cup {Edited, Withdrawn, Another}
  /\ knows \in [Capture -> {"no", "unsure", "saved"}]
  /\ made \in BOOLEAN /\ asking \in BOOLEAN /\ alive \in BOOLEAN
  /\ session \in {None, "open"}
  /\ faults \in 0 .. MaxFaults
  /\ code \in {None, 0, 1, 2}

(* What the agent is told is so: a capture it was told is saved is at the  *)
(* server in its own words, or was revised since, whatever else has its    *)
(* source; what is at the server it was told of, unless no answer told it  *)
(* whether; a revision or a rating it was told of was made ("Not `Already  *)
(* saved`: the text sent may differ from the one already there";           *)
(* describe_refusal, api_request).                                         *)
SaidIsSo ==
  /\ \A c \in Capture :
       /\ knows[c] = "saved" => At(source_id(c)) \in {content(c), Edited, Withdrawn}
       /\ At(source_id(c)) = content(c) => knows[c] # "no"
  /\ told # None =>
       /\ told.says = "changed" => At(told.about.source) = told.about.what
       /\ told.says = "done" /\ told.about \in Changing => made

(* A question the agent goes on asking is answered, unless the connector   *)
(* ends, however many answers go wrong and whenever its conversation       *)
(* expires at the server (names_a_dead_session, tool_ask).                 *)
QuestionAnswered == asking ~> ~asking \/ connector = "ended"
=============================================================================
