------------------------------- MODULE Clients -------------------------------
(***************************************************************************)
(* The programs a person, a pipeline or an editor starts beside a DocBrain *)
(* server: one run of `docbrain`, from its command line to its exit        *)
(* status, or one `docbrain-mcp` and the agent it serves.                  *)
(*                                                                         *)
(* CommandLine reads the command line; HandOver opens the command's own    *)
(* module, whose state starts `off` and whose status becomes the           *)
(* program's.  Sign-ins, the instance check and how a verdict is reached   *)
(* are modules of their own: Profiles, InstanceCheck, EvidencePipeline.    *)
(***************************************************************************)
EXTENDS Naturals, Sequences

CONSTANTS
  Claim, Cited, MaxRounds, Grounding,
  Here, There, Alias, Junk,
  Genesis, Record, MaxLength,
  Feeds,
  CONNECT_WAIT, STATE_TTL, MaxWritten, Slowest, Faults,
  Capture, MaxFaults,
  None

VARIABLES
  program,
  front, command, changed, file, said, code,
  gen, opts, disk, round, prior, artifact, answered, shipped, summary, draft_code,
  gate, place, diff, asked, answer, claims_code,
  ev, sub, bundle, earlier, outcome, rendered, written, evidence_code,
  asking, flags, feed, arrived, buffer, handled, saved, ask_code,
  reports, grant, danced, time, at, before, deadline, misled, wait_code,
  connector, task, request, told, store, knows, made, open, session, alive, faults, mcp_code

Line == INSTANCE CommandLine
Draft == INSTANCE Generate WITH told <- summary, code <- draft_code
Claims == INSTANCE CheckClaims WITH Elsewhere <- There, code <- claims_code
Evidence == INSTANCE EvidenceCommands WITH command <- sub, file <- written, code <- evidence_code
Question == INSTANCE AskStream WITH code <- ask_code
Wait == INSTANCE Connect WITH code <- wait_code
Mcp == INSTANCE McpConnector WITH asking <- open, code <- mcp_code

ASSUME ConstantsOK ==
  /\ Line!ConstantsOK /\ Draft!ConstantsOK /\ Claims!ConstantsOK /\ Evidence!ConstantsOK
  /\ Question!ConstantsOK /\ Wait!ConstantsOK /\ Mcp!ConstantsOK

line == <<front, command, changed, file, said, code>>
draft == <<gen, opts, disk, round, prior, artifact, answered, shipped, summary, draft_code>>
claims == <<gate, place, diff, asked, answer, claims_code>>
evidence == <<ev, sub, bundle, earlier, outcome, rendered, written, evidence_code>>
question == <<asking, flags, feed, arrived, buffer, handled, saved, ask_code>>
wait == <<reports, grant, danced, time, at, before, deadline, misled, wait_code>>
mcp ==
  <<connector, task, request, told, store, knows, made, open, session, alive, faults, mcp_code>>

vars == <<program, line, draft, claims, evidence, question, wait, mcp>>

Init ==
  /\ program \in {"docbrain", "docbrain-mcp"}
  /\ Line!Init /\ Draft!Init /\ Claims!Init /\ Evidence!Init /\ Question!Init /\ Wait!Init
  /\ Mcp!Init

----------------------------------------------------------------------------
ExceptLine ==
  UNCHANGED <<program, draft, claims, evidence, question, wait, mcp>>
ExceptDraft ==
  UNCHANGED <<program, claims, evidence, question, wait, mcp>>
ExceptClaims ==
  UNCHANGED <<program, draft, evidence, question, wait, mcp>>
ExceptEvidence ==
  UNCHANGED <<program, draft, claims, question, wait, mcp>>
ExceptQuestion ==
  UNCHANGED <<program, draft, claims, evidence, wait, mcp>>
ExceptWait ==
  UNCHANGED <<program, draft, claims, evidence, question, mcp>>

Offline == {"verify", "against", "why", "tables"}

(* run calls the command's handler.                                        *)
HandOver ==
  /\ Line!HandOver
  /\ \/ command = "generate" /\ Draft!Start /\ ExceptDraft
     \/ command = "check_claims" /\ Claims!Start /\ ExceptClaims
     \/ /\ command \in {"evidence_offline", "evidence_export"}
        /\ Evidence!Start
        /\ command = "evidence_offline" <=> sub'.sub \in Offline
        /\ ExceptEvidence
     \/ command \in {"ask", "incident"} /\ Question!Start /\ ExceptQuestion
     \/ command = "connect" /\ Wait!Start /\ ExceptWait

(* The handler runs, as it would alone.                                    *)
Handler ==
  /\ front = "handed"
  /\ \/ Draft!Work /\ ExceptDraft
     \/ Claims!Work /\ ExceptClaims
     \/ Evidence!Work /\ ExceptEvidence
     \/ Question!Work /\ ExceptQuestion
     \/ Wait!Work /\ ExceptWait
  /\ UNCHANGED line

(* main: the handler's status is the program's; an error is status 1.      *)
Finish ==
  /\ \E status \in {draft_code, claims_code, evidence_code, ask_code, wait_code} \ {None} :
       Line!Exit(status)
  /\ ExceptLine

(* Someone else uses the --out name, a dance completes in the browser, the *)
(* server refreshes a grant or loses one.                                  *)
Meanwhile ==
  /\ front # "off"
  /\ \/ Draft!Elsewhere /\ ExceptDraft
     \/ (Wait!Dance \/ Wait!Refresh \/ Wait!Revoke) /\ ExceptWait
  /\ UNCHANGED line

Docbrain == (Line!Run /\ ExceptLine) \/ HandOver \/ Handler \/ Finish

ExceptMcp ==
  UNCHANGED <<program, line, draft, claims, evidence, question, wait>>

Next ==
  \/ program = "docbrain" /\ (Docbrain \/ Meanwhile)
  \/ program = "docbrain-mcp" /\ Mcp!Next /\ ExceptMcp

(* Waiting for an answer that no timeout of the command's own bounds.      *)
Waiting ==
  \/ Line!Waiting
  \/ /\ front = "handed"
     /\ Claims!Waiting \/ Question!Waiting \/ (ev = "reading" /\ Evidence!Waiting)

(* Nothing keeps a program that waits for nothing from its next step.      *)
OwnStep ==
  \/ program = "docbrain" /\ ~Waiting /\ Docbrain
  \/ program = "docbrain-mcp" /\ Mcp!Serve /\ ExceptMcp

Spec == Init /\ [][Next]_vars /\ WF_vars(OwnStep)

----------------------------------------------------------------------------
TypeOK ==
  /\ Line!TypeOK /\ Draft!TypeOK /\ Claims!TypeOK /\ Evidence!TypeOK /\ Question!TypeOK
  /\ Wait!TypeOK /\ Mcp!TypeOK

(* A script may go by the exit status, whatever the network broke: 0 is    *)
(* only given for a change the server made (run and its handlers).         *)
ZeroIsDone == Line!ZeroIsDone

(* The document that ships is the last one made, and what is said and the  *)
(* exit status are about that document (handle_generate).                  *)
LatestIsShipped == Draft!LatestIsShipped

(* A gate only passes, or fails on claims, when the server was asked, and  *)
(* answered, about the repository the change is in (check_claims).         *)
CleanMeansChecked == Claims!CleanMeansChecked

(* FORK only ever accuses two VALID bundles that hold two histories of one *)
(* journal (compare_against).                                              *)
ForkIsFork == Evidence!ForkIsFork

(* However the chunks fall, the events of a stream are handled as they     *)
(* were sent (handle_sse_stream).                                          *)
HandledAsSent == Question!HandledAsSent

(* "The server's text is rendered verbatim and the CLI adds no words"      *)
(* (block_text_coloured, handle_sse_stream).                               *)
ShownVerbatim == Question!ShownVerbatim

(* `connect` never reports a dance nobody did, and never times out on a    *)
(* link that still works (connect_wait_state).                             *)
WaitIsHonest == Wait!WaitIsHonest

(* What the connector tells an agent of its captures, revisions and        *)
(* ratings is so at the server (describe_refusal).                         *)
SaidIsSo == Mcp!SaidIsSo

(* A question the agent goes on asking is answered, whenever its           *)
(* conversation expires, or the connector ends (names_a_dead_session).     *)
QuestionAnswered == Mcp!QuestionAnswered

(* A command that is started ends, whatever the reader, the browser, the   *)
(* critic and the server do, unless it waits for an answer that no timeout *)
(* bounds: the wait of `connect`, the rounds of `generate` and the events  *)
(* of a stream all come to an end (CONNECT_WAIT, handle_generate).         *)
CommandEnds == front # "off" ~> front = "ended" \/ Waiting
=============================================================================
