-------------------------- MODULE McpConnectorProofs --------------------------
(***************************************************************************)
(* What the connector tells an agent of its captures is so, for any        *)
(* captures, any agent and any number of answers that go wrong.            *)
(***************************************************************************)
EXTENDS McpConnector, TLAPS

(* The requests a task may have under way.                                 *)
RequestOK ==
  /\ task = "tools" /\ request # None => request \in Use
  /\ task = "capture" /\ request # None => request \in Capture \cup Revision
  /\ task \in {"tools", "capture"} /\ request # None => told = None

(* What is known of a capture, and what is at the server.                  *)
KnowsOK ==
  /\ knows \in [Capture -> {"no", "unsure", "saved"}]
  /\ \A c \in Capture :
       /\ knows[c] = "saved" => At(source_id(c)) \in {content(c), Edited, Withdrawn}
       /\ At(source_id(c)) = content(c) => knows[c] # "no"

(* What the last answer said is still so.                                  *)
ToldOK ==
  told # None =>
    /\ told.says = "changed" =>
         /\ At(told.about.source) = told.about.what
         /\ told.about.what \in {Edited, Withdrawn}
    /\ told.says = "done" /\ told.about \in Changing => made

IInv == RequestOK /\ KnowsOK /\ ToldOK

(* A store with one source put into it.                                    *)
LEMMA PutAt ==
  ASSUME NEW s, NEW what, store' = Put(s, what), what # None
  PROVE  \A t : At(t)' = IF t = s THEN what ELSE At(t)
BY DEF Put, At

(* Captures and revisions are told apart by their tool.                    *)
LEMMA RequestKinds ==
  ASSUME ConstantsOK, NEW r \in Capture \cup Revision
  PROVE  /\ r.tool = "revise" => r \in Revision /\ r.what \in {Edited, Withdrawn}
         /\ r.tool # "revise" => r \in Capture
BY DEF ConstantsOK, Revision

(* Something else comes to a source, or a revision does: no capture's text *)
(* appears there.                                                          *)
LEMMA OtherPut ==
  ASSUME ConstantsOK, KnowsOK, NEW s, NEW what \in {Edited, Withdrawn, Another},
         store' = Put(s, what), knows' = knows,
         what = Another => At(s) = None
  PROVE  KnowsOK'
<1>1. \A t : At(t)' = IF t = s THEN what ELSE At(t)
  BY PutAt DEF ConstantsOK
<1> SUFFICES ASSUME NEW c \in Capture
             PROVE  /\ knows[c] = "saved" => At(source_id(c))' \in {content(c), Edited, Withdrawn}
                    /\ At(source_id(c))' = content(c) => knows[c] # "no"
  BY DEF KnowsOK
<1>2. content(c) \notin {Edited, Withdrawn, Another, None} /\ None \notin {Edited, Withdrawn}
  BY DEF ConstantsOK
<1>3. /\ knows[c] = "saved" => At(source_id(c)) \in {content(c), Edited, Withdrawn}
      /\ At(source_id(c)) = content(c) => knows[c] # "no"
  BY DEF KnowsOK
<1>4. CASE source_id(c) = s
  <2>1. At(source_id(c))' = what
    BY <1>1, <1>4
  <2>2. what = Another => knows[c] # "saved"
    BY <1>2, <1>3, <1>4
  <2> QED
    BY <1>2, <2>1, <2>2
<1>5. CASE source_id(c) # s
  BY <1>1, <1>3, <1>5
<1> QED
  BY <1>4, <1>5

(* A capture comes to a source where nothing was, and the agent is not     *)
(* left to think it was refused.                                           *)
LEMMA CapturePut ==
  ASSUME ConstantsOK, KnowsOK, NEW r \in Capture, At(source_id(r)) = None,
         store' = Put(source_id(r), content(r)),
         NEW word \in {"unsure", "saved"}, knows' = [knows EXCEPT ![r] = word]
  PROVE  KnowsOK'
<1>1. \A t : At(t)' = IF t = source_id(r) THEN content(r) ELSE At(t)
  BY PutAt DEF ConstantsOK
<1>2. knows' \in [Capture -> {"no", "unsure", "saved"}] /\ knows'[r] = word
  BY DEF KnowsOK
<1> SUFFICES ASSUME NEW c \in Capture
             PROVE  /\ knows'[c] = "saved" => At(source_id(c))' \in {content(c), Edited, Withdrawn}
                    /\ At(source_id(c))' = content(c) => knows'[c] # "no"
  BY <1>2 DEF KnowsOK
<1>3. /\ knows[c] = "saved" => At(source_id(c)) \in {content(c), Edited, Withdrawn}
      /\ At(source_id(c)) = content(c) => knows[c] # "no"
  BY DEF KnowsOK
<1>4. content(c) # None /\ None \notin {Edited, Withdrawn}
  BY DEF ConstantsOK
<1>5. CASE c = r
  BY <1>1, <1>2, <1>5
<1>6. CASE c # r /\ source_id(c) = source_id(r)
  <2>1. content(c) # content(r)
    BY <1>6 DEF ConstantsOK
  <2>2. knows'[c] = knows[c] /\ knows[c] # "saved"
    BY <1>3, <1>4, <1>6 DEF KnowsOK
  <2> QED
    BY <1>1, <1>6, <2>1, <2>2
<1>7. CASE c # r /\ source_id(c) # source_id(r)
  <2>1. knows'[c] = knows[c] /\ At(source_id(c))' = At(source_id(c))
    BY <1>1, <1>7 DEF KnowsOK
  <2> QED
    BY <1>3, <2>1
<1> QED
  BY <1>5, <1>6, <1>7

(* The store stays, and the agent may only come to know what is so.        *)
LEMMA StoreStays ==
  ASSUME KnowsOK, NEW r \in Capture, store' = store,
         NEW word \in {"no", "unsure", "saved"},
         word = "saved" => At(source_id(r)) \in {content(r), Edited, Withdrawn},
         word = "no" => knows[r] = "no",
         knows' = [knows EXCEPT ![r] = word]
  PROVE  KnowsOK'
<1>1. knows' \in [Capture -> {"no", "unsure", "saved"}] /\ knows'[r] = word
  BY DEF KnowsOK
<1>2. \A t : At(t)' = At(t)
  BY DEF At
<1>3. \A c \in Capture : c # r => knows'[c] = knows[c]
  BY DEF KnowsOK
<1> QED
  BY <1>1, <1>2, <1>3 DEF KnowsOK

(* Nothing that is said of, and nothing at the server, moves.              *)
LEMMA Quiet ==
  ASSUME IInv, UNCHANGED <<store, knows, made>>,
         told' = told \/ told' = None,
         RequestOK'
  PROVE  IInv'
<1>1. \A t : At(t)' = At(t)
  BY DEF At
<1> QED
  BY <1>1 DEF IInv, KnowsOK, ToldOK

(* An answer is told that says neither of the two.                         *)
LEMMA Neutral ==
  ASSUME IInv, UNCHANGED <<store, knows, made>>,
         NEW about, NEW says, told' = Told(about, says), says \notin {"changed", "done"},
         RequestOK'
  PROVE  IInv'
<1>1. \A t : At(t)' = At(t)
  BY DEF At
<1> QED
  BY <1>1 DEF IInv, KnowsOK, ToldOK, Told

LEMMA InitInv == ConstantsOK /\ Init => IInv
<1> SUFFICES ASSUME ConstantsOK, Init PROVE IInv
  OBVIOUS
<1>1. \A s : At(s) = None
  BY DEF Init, At
<1>2. KnowsOK
  BY <1>1 DEF Init, KnowsOK, ConstantsOK
<1> QED
  BY <1>2 DEF Init, IInv, RequestOK, ToldOK

LEMMA ToolInv ==
  ASSUME IInv, NEW tool \in Reading \cup Changing, NEW incomplete \in {"done", "failed", "nothing"},
         Tool(tool, incomplete)
  PROVE  IInv'
<1>1. PICK answer \in {"lost", "refused", "unreadable", "incomplete", "ok"} :
        /\ told' = IF request.notification THEN told
                   ELSE Told(tool, CASE answer = "ok" -> "done"
                                     [] answer = "incomplete" -> incomplete
                                     [] OTHER -> "failed")
        /\ made' \in CASE answer = "lost" -> {FALSE, (tool \in Changing)}
                       [] answer = "refused" -> {FALSE}
                       [] OTHER -> {(tool \in Changing)}
  BY DEF Tool
<1>2. told = None /\ request' = None /\ UNCHANGED <<task, store, knows>>
  BY DEF Tool, IInv, RequestOK
<1>3. \A t : At(t)' = At(t)
  BY <1>2 DEF At
<1>4. RequestOK' /\ KnowsOK'
  BY <1>2, <1>3 DEF RequestOK, IInv, KnowsOK
<1>5. ToldOK'
  <2> SUFFICES ASSUME told' # None PROVE ToldOK'
    BY DEF ToldOK
  <2>1. told'.about = tool /\ told'.says # "changed"
    BY <1>1, <1>2 DEF Told
  <2>2. told'.says = "done" => answer \in {"ok", "incomplete"}
    BY <1>1, <1>2 DEF Told
  <2>3. answer \in {"ok", "incomplete"} /\ tool \in Changing => made'
    BY <1>1
  <2> QED
    BY <2>1, <2>2, <2>3 DEF ToldOK
<1> QED
  BY <1>4, <1>5 DEF IInv

LEMMA ToolsCallInv == ASSUME IInv, tools_call PROVE IInv'
<1>1. {"incident", "freshness", "autopilot_gaps", "autopilot_summary", "suggest_capture",
       "context", "feedback", "autopilot_generate"} = Reading \cup Changing
  BY DEF Reading, Changing
<1> QED
  BY <1>1, ToolInv
  DEF tools_call, tool_incident, tool_freshness, tool_autopilot_gaps, tool_autopilot_generate,
      tool_autopilot_summary, tool_suggest_capture, tool_context, tool_feedback

(* The answer to a capture.                                                *)
LEMMA CaptureAnswered ==
  ASSUME ConstantsOK, IInv, task = "capture", request \in Capture, create_fragment
  PROVE  KnowsOK' /\ ToldOK'
<1>1. request.tool # "revise"
  BY DEF ConstantsOK
<1>2. PICK answer \in Refusals \cup Unknown \cup (IF Taken THEN {"ok"} ELSE {}) :
        /\ store' \in IF answer \in {"ok", "unreadable"} THEN {Done}
                      ELSE IF answer \in Unknown THEN {store, Done}
                      ELSE {store}
        /\ told' = Told(request, api_request(answer))
        /\ knows' = IF request.tool = "revise" \/ knows[request] = "saved" THEN knows
                    ELSE [knows EXCEPT ![request] =
                            IF told'.says \in {"saved", "already saved"} THEN "saved"
                            ELSE IF answer \in Unknown THEN "unsure" ELSE @]
  BY DEF create_fragment
<1> DEFINE Missing == At(source_id(request)) = None
<1>3. Done = IF Missing THEN Put(source_id(request), content(request)) ELSE store
  BY <1>1 DEF Done
<1>4. told'.about = request /\ told'.says = api_request(answer)
  BY <1>2 DEF Told
<1>5. told'.says \in {"saved", "already saved"} <=> answer \in {"ok", "already_captured"}
  BY <1>1, <1>2, <1>4 DEF api_request, describe_refusal, Refusals, Unknown
<1>6. answer = "ok" => Missing
  BY <1>1, <1>2 DEF Refusals, Unknown, Taken
<1>7. answer = "already_captured" => ~Missing /\ At(source_id(request)) = content(request)
  BY <1>1, <1>2 DEF Refusals, Unknown
<1>8. knows \in [Capture -> {"no", "unsure", "saved"}] /\ KnowsOK
  BY DEF IInv, KnowsOK
<1>9. KnowsOK'
  <2>1. CASE store' = store
    <3>1. CASE knows' = knows
      <4>1. \A t : At(t)' = At(t)
        BY <2>1 DEF At
      <4> QED
        BY <1>8, <3>1, <4>1 DEF KnowsOK
    <3>2. CASE knows' # knows
      <4> DEFINE word == IF answer \in {"ok", "already_captured"} THEN "saved"
                         ELSE IF answer \in Unknown THEN "unsure" ELSE knows[request]
      <4>1. knows' = [knows EXCEPT ![request] = word]
        BY <1>2, <1>5, <3>2
      <4>2. word = "saved" => At(source_id(request)) \in {content(request), Edited, Withdrawn}
        <5>1. answer = "ok" => store' = Done
          BY <1>2
        <5>2. answer # "ok"
          <6> SUFFICES ASSUME answer = "ok" PROVE FALSE
            OBVIOUS
          <6>1. store = Put(source_id(request), content(request)) /\ At(source_id(request)) = None
            BY <1>3, <1>6, <2>1, <5>1
          <6>2. content(request) # None
            BY DEF ConstantsOK
          <6> QED
            BY <6>1, <6>2 DEF Put, At
        <5>3. answer \in Unknown \/ answer = "already_captured" \/ knows[request] = word
          BY <5>2
        <5> QED
          BY <1>7, <1>8, <5>2, <5>3 DEF KnowsOK, Unknown
      <4>3. word \in {"no", "unsure", "saved"} /\ (word = "no" => knows[request] = "no")
        BY <1>8
      <4> HIDE DEF word
      <4> QED
        BY <1>8, <2>1, <4>1, <4>2, <4>3, StoreStays
    <3> QED
      BY <3>1, <3>2
  <2>2. CASE store' # store
    <3>1. Missing /\ store' = Put(source_id(request), content(request))
      BY <1>2, <1>3, <2>2
    <3>2. answer \in {"ok"} \cup Unknown
      BY <1>2, <2>2 DEF Unknown
    <3>3. knows[request] # "saved"
      BY <1>8, <3>1 DEF KnowsOK, ConstantsOK
    <3>4. PICK word \in {"unsure", "saved"} : knows' = [knows EXCEPT ![request] = word]
      BY <1>1, <1>2, <1>5, <3>2, <3>3
    <3> QED
      BY <1>8, <3>1, <3>4, CapturePut
  <2> QED
    BY <2>1, <2>2
<1>10. ToldOK'
  <2>1. told'.says \notin {"changed", "done"}
    BY <1>1, <1>2, <1>4 DEF api_request, describe_refusal, Refusals, Unknown
  <2> QED
    BY <2>1 DEF ToldOK
<1> QED
  BY <1>9, <1>10

(* The answer to a revision.                                               *)
LEMMA RevisionAnswered ==
  ASSUME ConstantsOK, IInv, task = "capture", request \in Revision, create_fragment
  PROVE  KnowsOK' /\ ToldOK'
<1>1. request.tool = "revise" /\ request.what \in {Edited, Withdrawn}
  BY DEF Revision
<1>2. PICK answer \in Refusals \cup Unknown \cup (IF Taken THEN {"ok"} ELSE {}) :
        /\ store' \in IF answer \in {"ok", "unreadable"} THEN {Done}
                      ELSE IF answer \in Unknown THEN {store, Done}
                      ELSE {store}
        /\ told' = Told(request, api_request(answer))
        /\ knows' = knows
  BY <1>1 DEF create_fragment
<1>3. store' = store \/ store' = Put(request.source, request.what)
  BY <1>1, <1>2 DEF Done
<1>4. KnowsOK'
  <2>1. CASE store' = store
    <3>1. \A t : At(t)' = At(t)
      BY <2>1 DEF At
    <3> QED
      BY <1>2, <3>1 DEF IInv, KnowsOK
  <2>2. CASE store' = Put(request.source, request.what)
    <3>1. request.what = Another => At(request.source) = None
      BY <1>1 DEF Another, Edited, Withdrawn
    <3> QED
      BY <1>1, <1>2, <2>2, <3>1, OtherPut DEF IInv
  <2> QED
    BY <1>3, <2>1, <2>2
<1>5. ToldOK'
  <2> SUFFICES ASSUME told' # None PROVE ToldOK'
    BY DEF ToldOK
  <2>1. told'.about = request /\ told'.says = api_request(answer)
    BY <1>2 DEF Told
  <2>2. told'.says # "done"
    BY <1>1, <1>2, <2>1 DEF api_request, describe_refusal, Refusals, Unknown
  <2>3. told'.says = "changed" => answer = "ok"
    BY <1>1, <1>2, <2>1 DEF api_request, describe_refusal, Refusals, Unknown
  <2>4. answer = "ok" => store' = Put(request.source, request.what)
    BY <1>1, <1>2 DEF Done
  <2>5. ASSUME answer = "ok"
        PROVE  \A t : At(t)' = IF t = request.source THEN request.what ELSE At(t)
    BY <1>1, <2>4, <2>5, PutAt DEF ConstantsOK
  <2>6. told'.says = "changed" =>
          /\ At(told.about.source)' = told'.about.what
          /\ told'.about.what \in {Edited, Withdrawn}
    BY <1>1, <2>1, <2>3, <2>5 DEF At
  <2> QED
    BY <2>2, <2>6 DEF ToldOK
<1> QED
  BY <1>4, <1>5

(* The connector ends: what was asked may have been done all the same.     *)
LEMMA KillInv ==
  ASSUME ConstantsOK, IInv, Kill
  PROVE  IInv'
<1>1. RequestOK' /\ UNCHANGED <<task, request, told, made>>
  BY DEF Kill, IInv, RequestOK
<1>2. CASE ~(task = "capture" /\ request # None)
  BY <1>1, <1>2, Quiet DEF Kill
<1>3. CASE task = "capture" /\ request # None
  <2>1. told' = None /\ request \in Capture \cup Revision
    BY <1>1, <1>3 DEF IInv, RequestOK
  <2>2. ToldOK'
    BY <2>1 DEF ToldOK
  <2>3. CASE store' = store
    <3>1. \A t : At(t)' = At(t)
      BY <2>3 DEF At
    <3> QED
      BY <1>1, <1>3, <2>1, <2>2, <3>1, RequestKinds DEF Kill, IInv, KnowsOK
  <2>4. CASE store' # store /\ request.tool = "revise"
    <3>1. request \in Revision /\ request.what \in {Edited, Withdrawn}
      BY <2>1, <2>4, RequestKinds
    <3>2. store' = Put(request.source, request.what) /\ knows' = knows
      BY <1>3, <2>4 DEF Kill, Done
    <3>3. request.what # Another
      BY <3>1 DEF Edited, Withdrawn, Another
    <3>4. KnowsOK'
      BY <3>1, <3>2, <3>3, OtherPut DEF IInv
    <3> QED
      BY <1>1, <2>2, <3>4 DEF IInv
  <2>5. CASE store' # store /\ request.tool # "revise"
    <3>1. request \in Capture
      BY <2>1, <2>5, RequestKinds
    <3>2. At(source_id(request)) = None /\ store' = Put(source_id(request), content(request))
      BY <1>3, <2>5 DEF Kill, Done
    <3>3. knows[request] # "saved"
      BY <3>1, <3>2 DEF IInv, KnowsOK, ConstantsOK
    <3>4. knows' = [knows EXCEPT ![request] = "unsure"]
      BY <1>3, <2>5, <3>3 DEF Kill
    <3>5. KnowsOK'
      BY <3>1, <3>2, <3>4, CapturePut DEF IInv
    <3> QED
      BY <1>1, <2>2, <3>5 DEF IInv
  <2> QED
    BY <2>3, <2>4, <2>5
<1> QED
  BY <1>2, <1>3

LEMMA ElsewhereInv ==
  ASSUME ConstantsOK, IInv, Elsewhere
  PROVE  IInv'
<1>1. PICK s \in Source : At(s) = None /\ store' = Put(s, Another)
  BY DEF Elsewhere
<1>2. UNCHANGED <<task, request, told, knows, made>>
  BY DEF Elsewhere
<1>3. KnowsOK'
  BY <1>1, <1>2, OtherPut DEF IInv
<1>4. \A t : At(t)' = IF t = s THEN Another ELSE At(t)
  BY <1>1, PutAt DEF ConstantsOK
<1>5. None \notin {Edited, Withdrawn}
  BY DEF ConstantsOK
<1>6. ToldOK'
  BY <1>1, <1>2, <1>4, <1>5 DEF IInv, ToldOK, At
<1> QED
  BY <1>2, <1>3, <1>6 DEF IInv, RequestOK

LEMMA StepInv == ConstantsOK /\ IInv /\ [Next]_vars => IInv'
<1> SUFFICES ASSUME ConstantsOK, IInv, [Next]_vars PROVE IInv'
  OBVIOUS
<1>1. ASSUME parse_cli \/ LoadKey \/ validate_connection \/ InputEnds \/ Call \/ NewQuestion
             \/ Ask \/ Obey \/ Expire \/ UNCHANGED vars
      PROVE  IInv'
  <2>1. UNCHANGED <<store, knows>> /\ (told' = told \/ told' = None)
    BY <1>1 DEF parse_cli, LoadKey, validate_connection, InputEnds, Call, NewQuestion, Ask, Obey,
                Expire, vars, agent
  <2>2. made' = made \/ told' = None
    BY <1>1 DEF parse_cli, LoadKey, validate_connection, InputEnds, Call, NewQuestion, Ask, Obey,
                Expire, vars, agent
  <2>3. RequestOK'
    BY <1>1 DEF IInv, RequestOK, parse_cli, LoadKey, validate_connection, InputEnds, Call,
                NewQuestion, Ask, Obey, Expire, vars, agent, Idle, ConstantsOK
  <2>4. \A t : At(t)' = At(t)
    BY <2>1 DEF At
  <2> QED
    BY <2>1, <2>2, <2>3, <2>4 DEF IInv, KnowsOK, ToldOK
<1>2. ASSUME tool_annotate \/ tool_commit_capture \/ tool_revise PROVE IInv'
  <2>1. PICK r \in Capture \cup Revision : Sends(r)
    BY <1>2 DEF tool_annotate, tool_commit_capture, tool_revise
  <2>2. RequestOK'
    BY <2>1 DEF Sends, RequestOK, ConstantsOK
  <2> QED
    BY <2>1, <2>2, Quiet DEF Sends
<1>3. ASSUME handle_request PROVE IInv'
  <2>1. RequestOK' /\ UNCHANGED <<store, knows, made>>
    BY <1>3 DEF handle_request, RequestOK, Idle
  <2>2. CASE told' = told
    BY <2>1, <2>2, Quiet
  <2>3. CASE told' # told
    <3>1. PICK line \in DOMAIN Line : line # "blank" /\ told' = Told(line, Line[line])
      BY <1>3, <2>3 DEF handle_request
    <3>2. line \in {"garbled", "initialize", "ping", "initialized", "tools_list", "unknown_method",
                   "no_tool", "unknown_tool", "bad_arguments"}
      BY <3>1 DEF Line
    <3>3. Line[line] \in {"parse error", "result", "empty", "method not found", "invalid params",
                         "tool error"}
      <4>1. /\ Line.garbled = "parse error" /\ Line.initialize = "result" /\ Line.ping = "result"
            /\ Line.initialized = "empty" /\ Line.tools_list = "result"
            /\ Line.unknown_method = "method not found" /\ Line.no_tool = "invalid params"
            /\ Line.unknown_tool = "invalid params" /\ Line.bad_arguments = "tool error"
        BY DEF Line
      <4> QED
        BY <3>2, <4>1
    <3> QED
      BY <2>1, <3>1, <3>2, <3>3, Neutral
  <2> QED
    BY <2>2, <2>3
<1>4. ASSUME tool_ask PROVE IInv'
  <2>1. RequestOK' /\ UNCHANGED <<store, knows, made>>
    BY <1>4 DEF tool_ask, RequestOK, ConstantsOK
  <2>2. PICK says \in {"answer", "start a new conversation", "failed"} : told' = Told("ask", says)
    BY <1>4 DEF tool_ask
  <2> QED
    BY <2>1, <2>2, Neutral
<1>5. ASSUME create_fragment PROVE IInv'
  <2>1. task = "capture" /\ request \in Capture \cup Revision
    BY <1>5 DEF create_fragment, IInv, RequestOK
  <2>2. KnowsOK' /\ ToldOK'
    BY <1>5, <2>1, CaptureAnswered, RevisionAnswered
  <2>3. RequestOK'
    BY <1>5 DEF create_fragment, RequestOK
  <2> QED
    BY <2>2, <2>3 DEF IInv
<1> QED
  BY <1>1, <1>2, <1>3, <1>4, <1>5, ToolsCallInv, KillInv, ElsewhereInv DEF Next, Serve, Save

(* A store that has one more source of the captures' is still a store.     *)
LEMMA PutType ==
  ASSUME NEW s \in Source, NEW what,
         what \in {content(c) : c \in Capture} \cup {Edited, Withdrawn, Another},
         DOMAIN store \subseteq Source,
         \A t \in DOMAIN store :
           store[t] \in {content(c) : c \in Capture} \cup {Edited, Withdrawn, Another}
  PROVE  /\ DOMAIN Put(s, what) \subseteq Source
         /\ \A t \in DOMAIN Put(s, what) :
              Put(s, what)[t] \in {content(c) : c \in Capture} \cup {Edited, Withdrawn, Another}
BY DEF Put

(* What the server does with a request keeps the store one.                *)
LEMMA DoneType ==
  ASSUME ConstantsOK, TypeOK, task = "capture", request # None
  PROVE  /\ DOMAIN Done \subseteq Source
         /\ \A t \in DOMAIN Done :
              Done[t] \in {content(c) : c \in Capture} \cup {Edited, Withdrawn, Another}
<1>1. request \in Capture \cup Revision
  BY DEF TypeOK, RequestType
<1>2. CASE request.tool = "revise"
  <2>1. request.source \in Source /\ request.what \in {Edited, Withdrawn}
    BY <1>1, <1>2, RequestKinds DEF Revision
  <2> QED
    BY <1>2, <2>1, PutType DEF Done, TypeOK
<1>3. CASE request.tool # "revise"
  <2>1. request \in Capture /\ source_id(request) \in Source
    BY <1>1, <1>3, RequestKinds DEF Source
  <2> QED
    BY <1>3, <2>1, PutType DEF Done, TypeOK
<1> QED
  BY <1>2, <1>3

(* What a tool may have made at the server is a truth value.               *)
LEMMA EitherWay ==
  ASSUME NEW tool
  PROVE  /\ {FALSE, (tool \in Changing)} \subseteq BOOLEAN
         /\ {FALSE} \subseteq BOOLEAN /\ {(tool \in Changing)} \subseteq BOOLEAN
OBVIOUS

(* A step leaves the request alone, answers it, or makes one the task may. *)
LEMMA RequestStep ==
  ASSUME ConstantsOK, TypeOK, [Next]_vars
  PROVE  RequestType'
<1>1. CASE request' = None
  BY <1>1 DEF RequestType
<1>2. CASE request' = request /\ task' = task
  BY <1>2 DEF TypeOK, RequestType
<1>3. CASE Call
  BY <1>3 DEF RequestType, Call
<1>4. CASE Ask
  <2>1. session \in {None, "open"}
    BY DEF TypeOK
  <2>2. {Question(session), Question(None)} \subseteq {Question(None), Question("open")}
    BY <2>1
  <2> QED
    BY <1>4, <2>2 DEF RequestType, Ask
<1>5. CASE Save
  <2>1. PICK r \in Capture \cup Revision : Sends(r)
    BY <1>5 DEF Save, tool_annotate, tool_commit_capture, tool_revise
  <2> QED
    BY <2>1 DEF RequestType, Sends
<1>6. ASSUME \/ parse_cli \/ create_fragment \/ tool_ask
             \/ \E tool, incomplete : Tool(tool, incomplete)
      PROVE  request' = None
  BY <1>6 DEF parse_cli, Tool, create_fragment, tool_ask
<1>7. ASSUME LoadKey \/ validate_connection \/ InputEnds \/ handle_request \/ NewQuestion \/ Obey
             \/ Kill \/ Elsewhere \/ Expire \/ UNCHANGED vars
      PROVE  request' = request /\ task' = task
  BY <1>7 DEF LoadKey, validate_connection, InputEnds, handle_request, NewQuestion, Obey, Kill,
              Elsewhere, Expire, vars, agent
<1>8. tools_call => \E tool, incomplete : Tool(tool, incomplete)
  BY DEF tools_call, tool_incident, tool_freshness, tool_autopilot_gaps, tool_autopilot_generate,
         tool_autopilot_summary, tool_suggest_capture, tool_context, tool_feedback
<1> QED
  BY <1>1, <1>2, <1>3, <1>4, <1>5, <1>6, <1>7, <1>8 DEF Next, Serve

(* A step keeps every part of the state in its type.                       *)
LEMMA StepType == ConstantsOK /\ TypeOK /\ [Next]_vars => TypeOK'
<1> SUFFICES ASSUME ConstantsOK, TypeOK, [Next]_vars PROVE TypeOK'
  OBVIOUS
<1>0. RequestType'
  BY RequestStep
<1>1. ASSUME parse_cli PROVE TypeOK'
  BY <1>0, <1>1 DEF parse_cli, TypeOK, End
<1>2. ASSUME LoadKey \/ validate_connection \/ InputEnds PROVE TypeOK'
  <2>1. /\ connector' \in {"keyed", "serving", "ended"} /\ code' \in {code, 0, 1}
        /\ UNCHANGED <<task, agent>>
    BY <1>2 DEF LoadKey, validate_connection, InputEnds, End
  <2> QED
    BY <1>0, <2>1 DEF TypeOK, agent
<1>10. ASSUME handle_request \/ NewQuestion \/ Obey \/ Expire \/ UNCHANGED vars PROVE TypeOK'
  BY <1>0, <1>10 DEF TypeOK, handle_request, NewQuestion, Obey, Expire, vars, agent
<1>3. ASSUME Call \/ Ask PROVE TypeOK'
  BY <1>0, <1>3 DEF TypeOK, Call, Ask
<1>4. ASSUME Save PROVE TypeOK'
  BY <1>0, <1>4 DEF TypeOK, Save, tool_annotate, tool_commit_capture, tool_revise, Sends
<1>5. ASSUME NEW tool, NEW incomplete, Tool(tool, incomplete) PROVE TypeOK'
  <2>2. made' \in BOOLEAN
    <3>1. PICK answer \in {"lost", "refused", "unreadable", "incomplete", "ok"} :
            made' \in CASE answer = "lost" -> {FALSE, (tool \in Changing)}
                       [] answer = "refused" -> {FALSE}
                       [] OTHER -> {(tool \in Changing)}
      BY <1>5 DEF Tool
    <3>2. CASE answer = "lost"
      <4>1. made' \in {FALSE, (tool \in Changing)}
        BY <3>1, <3>2
      <4> QED
        BY <4>1, EitherWay, Zenon
    <3>3. CASE answer = "refused"
      <4>1. made' \in {FALSE}
        BY <3>1, <3>3
      <4> QED
        BY <4>1, EitherWay, Zenon
    <3>4. CASE answer \notin {"lost", "refused"}
      <4>1. made' \in {(tool \in Changing)}
        BY <3>1, <3>4
      <4> QED
        BY <4>1, EitherWay, Zenon
    <3> QED
      BY <3>2, <3>3, <3>4
  <2>3. UNCHANGED <<connector, task, store, knows, asking, session, alive, faults, code>>
    BY <1>5 DEF Tool
  <2> QED
    BY <1>0, <2>2, <2>3 DEF TypeOK
<1>6. ASSUME tool_ask PROVE TypeOK'
  <2>1. /\ request' = None /\ asking' \in {asking, FALSE} /\ session' \in {session, "open"}
        /\ alive' \in {alive, TRUE}
        /\ UNCHANGED <<connector, task, store, knows, made, code>>
    BY <1>6 DEF tool_ask
  <2>2. faults' \in 0 .. MaxFaults
    <3>1. faults' = faults \/ (faults < MaxFaults /\ faults' = faults + 1)
      BY <1>6 DEF tool_ask
    <3>2. faults \in 0 .. MaxFaults /\ MaxFaults \in Nat
      BY DEF TypeOK, ConstantsOK
    <3> QED
      BY <3>1, <3>2
  <2> QED
    BY <1>0, <2>1, <2>2 DEF TypeOK
<1>7. ASSUME create_fragment PROVE TypeOK'
  <2>1. task = "capture" /\ request # None /\ store' \in {store, Done}
    BY <1>7 DEF create_fragment
  <2>2. knows' \in [Capture -> {"no", "unsure", "saved"}]
    BY <1>7 DEF create_fragment, TypeOK
  <2> QED
    BY <1>0, <1>7, <2>1, <2>2, DoneType DEF TypeOK, create_fragment
<1>8. ASSUME Kill PROVE TypeOK'
  <2>1. knows' \in [Capture -> {"no", "unsure", "saved"}]
    BY <1>8 DEF Kill, TypeOK
  <2> QED
    BY <1>0, <1>8, <2>1, DoneType DEF TypeOK, Kill
<1>9. ASSUME Elsewhere PROVE TypeOK'
  BY <1>0, <1>9, PutType DEF TypeOK, Elsewhere
<1> QED
  BY <1>1, <1>2, <1>3, <1>4, <1>5, <1>6, <1>7, <1>8, <1>9, <1>10
  DEF Next, Serve, tools_call, tool_incident, tool_freshness, tool_autopilot_gaps,
      tool_autopilot_generate, tool_autopilot_summary, tool_suggest_capture, tool_context,
      tool_feedback

(* The connector's state has its type, with any captures (serve).          *)
THEOREM ConnectorTypes == ASSUME ConstantsOK PROVE Spec => []TypeOK
<1>1. Init => TypeOK
  <2> SUFFICES ASSUME Init PROVE TypeOK
    OBVIOUS
  <2>1. RequestType /\ session \in {None, "open"} /\ code \in {None, 0, 1, 2}
    BY DEF Init, RequestType
  <2>2. DOMAIN store = {}
    BY DEF Init
  <2>3. knows \in [Capture -> {"no", "unsure", "saved"}]
    BY DEF Init
  <2>4. faults \in 0 .. MaxFaults
    BY DEF Init, ConstantsOK
  <2> QED
    BY <2>1, <2>2, <2>3, <2>4 DEF Init, TypeOK
<1>2. TypeOK /\ [Next]_vars => TypeOK'
  BY StepType
<1> QED
  BY <1>1, <1>2, PTL DEF Spec

(* What the agent is told is so: a capture that is told as saved is at the *)
(* server, what is there was told of, and a revision or a rating that was  *)
(* told of was made, whatever is lost, refused or sent twice               *)
(* (describe_refusal, api_request).                                        *)
THEOREM WhatIsSaidIsSo == ASSUME ConstantsOK PROVE Spec => []SaidIsSo
<1>1. Init => IInv
  BY InitInv
<1>2. IInv /\ [Next]_vars => IInv'
  BY StepInv
<1>3. IInv => SaidIsSo
  BY DEF IInv, KnowsOK, ToldOK, SaidIsSo
<1> QED
  BY <1>1, <1>2, <1>3, PTL DEF Spec
=============================================================================
