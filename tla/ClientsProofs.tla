---------------------------- MODULE ClientsProofs ----------------------------
(***************************************************************************)
(* In the composition a handler behaves as it does alone, so what is so of *)
(* every run of a handler is so of every run of the program.  Proved here  *)
(* for the rounds of `generate`, the wait of `connect`, the gate of        *)
(* check-claims, the stream of `ask`, the commands of one request and the  *)
(* evidence commands; what McpConnector does alone is proved in its own    *)
(* module and carried over.                                                *)
(***************************************************************************)
EXTENDS Clients, SequenceTheorems, WellFoundedInduction, TLAPS

(* What Clients assumes of the constants, module by module.                *)
LEMMA Constants ==
  /\ Line!ConstantsOK /\ Draft!ConstantsOK /\ Claims!ConstantsOK
  /\ Evidence!ConstantsOK /\ Question!ConstantsOK /\ Wait!ConstantsOK /\ Mcp!ConstantsOK
BY ConstantsOK DEF ConstantsOK

----------------------------------------------------------------------------
(* A step of a program is a step of one handler at most, and leaves the    *)
(* state of the others alone.                                              *)
LEMMA HandlerSteps ==
  ASSUME [Next]_vars
  PROVE  /\ [Draft!Next]_draft
         /\ [Claims!Next]_claims
         /\ [Evidence!Next]_evidence
         /\ [Question!Next]_question
         /\ [Wait!Next]_wait
         /\ [Mcp!Next]_mcp
<1>1. CASE UNCHANGED vars
  BY <1>1 DEF vars
<1>2. CASE program = "docbrain-mcp" /\ Mcp!Next /\ ExceptMcp
  BY <1>2 DEF ExceptMcp
<1>3. CASE (Line!Run /\ ExceptLine) \/ Finish
  BY <1>3 DEF Finish, ExceptLine
<1>4. CASE HandOver
  BY <1>4 DEF HandOver, ExceptDraft, ExceptClaims, ExceptEvidence, ExceptQuestion, ExceptWait,
              Draft!Next, Draft!Command, Claims!Next, Evidence!Next, Question!Next, Wait!Next,
              Wait!Command
<1>5. CASE Handler
  BY <1>5 DEF Handler, ExceptDraft, ExceptClaims, ExceptEvidence, ExceptQuestion, ExceptWait,
              Draft!Next, Draft!Command, Claims!Next, Evidence!Next, Question!Next, Wait!Next,
              Wait!Command
<1>6. CASE Meanwhile
  BY <1>6 DEF Meanwhile, ExceptDraft, ExceptWait, Draft!Next, Wait!Next
<1> QED
  BY <1>1, <1>2, <1>3, <1>4, <1>5, <1>6 DEF Next, Docbrain

----------------------------------------------------------------------------
(* Before a round is sent, as many drafts came as the round says.          *)
CountOK ==
  /\ gen \in {"off", "reading", "asking"} => answered.count = 0 /\ round = 1
  /\ gen \in {"reviewing", "resubmitted", "drafted"} => answered.count = round
  /\ gen = "resubmitted" => round <= opts.max
  /\ gen \in {"reviewing", "drafted"} => round <= opts.max + 1

(* What the command holds is what the server made last.                    *)
HeldOK ==
  /\ gen \in {"reviewing", "resubmitted", "drafted"} =>
       artifact = answered.artifact /\ artifact \in Draft!Artifact
  /\ gen # "ended" => shipped = None /\ draft_code = None /\ disk \in {"absent", "theirs"}

DraftInv ==
  /\ answered.count \in Nat /\ round \in Nat
  /\ gen # "off" => opts.max \in 0 .. MaxRounds
  /\ CountOK /\ HeldOK /\ Draft!LatestIsShipped

LEMMA DraftInit == Draft!Init => DraftInv
BY DEF Draft!Init, DraftInv, CountOK, HeldOK, Draft!LatestIsShipped

LEMMA DraftStep ==
  Draft!ConstantsOK /\ DraftInv /\ [Draft!Next]_draft => DraftInv'
<1> SUFFICES ASSUME Draft!ConstantsOK, DraftInv, [Draft!Next]_draft
             PROVE  DraftInv'
  OBVIOUS
<1> USE DEF Draft!ConstantsOK, DraftInv, CountOK, HeldOK, Draft!LatestIsShipped
<1>1. CASE Draft!Start
  BY <1>1 DEF Draft!Start, Draft!End
<1>2. CASE Draft!Unusable \/ Draft!Send \/ Draft!Elsewhere
  BY <1>2 DEF Draft!Unusable, Draft!Send, Draft!Elsewhere, Draft!End
<1>3. CASE Draft!RequestFails
  BY <1>3 DEF Draft!RequestFails, Draft!End
<1>4. CASE Draft!FirstDraft
  BY <1>4 DEF Draft!FirstDraft, Draft!Answered, Draft!Answers
<1>5. CASE Draft!Review
  BY <1>5 DEF Draft!Review
<1>6. CASE Draft!NextDraft
  BY <1>6 DEF Draft!NextDraft, Draft!Answered, Draft!Answers
<1>7. CASE Draft!Emit
  BY <1>7 DEF Draft!Emit, Draft!End, Draft!print_generate_summary, Draft!render_trust_summary
<1>8. CASE Draft!WriteFails
  BY <1>8 DEF Draft!WriteFails, Draft!End
<1>9. CASE UNCHANGED draft
  BY <1>9 DEF draft
<1> QED
  BY <1>1, <1>2, <1>3, <1>4, <1>5, <1>6, <1>7, <1>8, <1>9 DEF Draft!Next, Draft!Command, Draft!Work

(* The document that ships is the last one the server made, what is said   *)
(* and the exit status speak of that document, and the server is asked at  *)
(* most one round more than the reader allows (handle_generate).           *)
THEOREM LatestShips == Spec => []LatestIsShipped
<1>1. Init => DraftInv
  BY DraftInit DEF Init
<1>2. DraftInv /\ [Next]_vars => DraftInv'
  BY DraftStep, HandlerSteps, Constants
<1>3. DraftInv => LatestIsShipped
  BY DEF DraftInv, LatestIsShipped
<1> QED
  BY <1>1, <1>2, <1>3, PTL DEF Spec

----------------------------------------------------------------------------
(* While nobody has danced and nothing has misled it, the command holds    *)
(* the time at which the grant there is was written.                       *)
BeforeOK ==
  at \in {"captured", "waiting"} /\ ~danced /\ ~misled =>
    before.written_at = IF reports /\ grant.written > 0 THEN grant.written ELSE None

WaitInv ==
  /\ time \in Nat /\ deadline \in Nat
  /\ at \in {"off", "started", "captured"} => ~danced
  /\ at = "waiting" => deadline >= CONNECT_WAIT
  /\ BeforeOK /\ Wait!WaitIsHonest

LEMMA WaitInit == Wait!Init => WaitInv
BY DEF Wait!Init, WaitInv, BeforeOK, Wait!WaitIsHonest

(* A poll only says `connected` for a time other than the one it holds.    *)
LEMMA PollConnects ==
  ASSUME Wait!Poll, at' = "connected", BeforeOK
  PROVE  danced \/ misled
<1>1. PICK now \in Wait!connection_of :
        now.written_at # None /\ now.written_at # before.written_at
  <2>1. PICK now \in Wait!connection_of :
          LET state == Wait!connect_wait_state(before, now)
          IN  IF state = "pending" THEN UNCHANGED <<at, wait_code>>
              ELSE at' = state /\ wait_code' = 0
    BY DEF Wait!Poll
  <2>2. at # "connected"
    BY DEF Wait!Poll
  <2>3. Wait!connect_wait_state(before, now) = "connected"
    BY <2>1, <2>2
  <2> QED
    BY <2>3 DEF Wait!connect_wait_state
<1>2. CASE now = Wait!Unreachable
  BY <1>1, <1>2 DEF Wait!Unreachable
<1>3. CASE now # Wait!Unreachable
  <2>1. now = [status |-> grant.status,
               written_at |-> IF reports /\ grant.written > 0 THEN grant.written ELSE None]
    BY <1>3 DEF Wait!connection_of
  <2>2. before.written_at # IF reports /\ grant.written > 0 THEN grant.written ELSE None
    BY <1>1, <2>1
  <2> QED
    BY <2>2 DEF BeforeOK, Wait!Poll
<1> QED
  BY <1>2, <1>3

LEMMA WaitStep ==
  Wait!ConstantsOK /\ CONNECT_WAIT >= STATE_TTL /\ WaitInv /\ [Wait!Next]_wait => WaitInv'
<1> SUFFICES ASSUME Wait!ConstantsOK, CONNECT_WAIT >= STATE_TTL, WaitInv, [Wait!Next]_wait
             PROVE  WaitInv'
  OBVIOUS
<1>0. CONNECT_WAIT \in Nat /\ STATE_TTL \in Nat /\ Slowest \in Nat
  BY DEF Wait!ConstantsOK
<1> USE DEF WaitInv, BeforeOK, Wait!WaitIsHonest
<1>1. CASE Wait!Start
  BY <1>1 DEF Wait!Start
<1>2. CASE Wait!CaptureBefore
  <2>1. CASE before' = Wait!Unreachable
    <3>1. misled'
      BY <1>2, <2>1 DEF Wait!CaptureBefore
    <3> QED
      BY <1>2, <3>1 DEF Wait!CaptureBefore
  <2>2. CASE before' # Wait!Unreachable
    <3>1. before' = [status |-> grant.status,
                     written_at |-> IF reports /\ grant.written > 0 THEN grant.written ELSE None]
      BY <1>2, <2>2 DEF Wait!CaptureBefore, Wait!connection_of
    <3>2. BeforeOK'
      BY <1>2, <3>1 DEF Wait!CaptureBefore
    <3> QED
      BY <1>2, <3>2 DEF Wait!CaptureBefore
  <2> QED
    BY <2>1, <2>2
<1>3. CASE Wait!InitLink
  <2>1. time' \in Nat /\ deadline' \in Nat /\ deadline' >= CONNECT_WAIT
    <3>1. time' \in 0 .. Slowest /\ deadline' = time' + CONNECT_WAIT
      BY <1>3 DEF Wait!InitLink
    <3>2. \A t \in 0 .. Slowest :
            t \in Nat /\ t + CONNECT_WAIT \in Nat /\ t + CONNECT_WAIT >= CONNECT_WAIT
      BY <1>0
    <3> QED
      BY <3>1, <3>2, Zenon
  <2>2. BeforeOK'
    BY <1>3 DEF Wait!InitLink
  <2> QED
    BY <1>3, <2>1, <2>2 DEF Wait!InitLink
<1>4. CASE Wait!Refused
  BY <1>4 DEF Wait!Refused
<1>5. CASE Wait!Poll
  <2>1. at' = "connected" => danced \/ misled
    BY <1>5, PollConnects
  <2>2. time' \in Nat /\ at' \in {"waiting", "connected", "unknowable"}
    BY <1>0, <1>5 DEF Wait!Poll, Wait!connect_wait_state
  <2> QED
    BY <1>5, <2>1, <2>2 DEF Wait!Poll
<1>6. CASE Wait!TimeOut
  BY <1>0, <1>6 DEF Wait!TimeOut
<1>7. CASE Wait!Dance
  BY <1>7 DEF Wait!Dance, Wait!LinkValid
<1>8. CASE Wait!Refresh
  BY <1>8 DEF Wait!Refresh
<1>9. CASE Wait!Revoke
  BY <1>9 DEF Wait!Revoke
<1>10. CASE UNCHANGED wait
  BY <1>10 DEF wait
<1> QED
  BY <1>1, <1>2, <1>3, <1>4, <1>5, <1>6, <1>7, <1>8, <1>9, <1>10
  DEF Wait!Next, Wait!Command, Wait!Work

(* `connect` never reports a dance nobody did, unless its first request    *)
(* failed or the server refreshed a grant, and never gives up on a link    *)
(* that still works, as long as it waits no less than a link is valid      *)
(* ("the authorize link has expired too"; connect_wait_state).             *)
THEOREM WaitsHonestly ==
  ASSUME CONNECT_WAIT >= STATE_TTL
  PROVE  Spec => []WaitIsHonest
<1>1. Init => WaitInv
  BY WaitInit DEF Init
<1>2. WaitInv /\ [Next]_vars => WaitInv'
  BY WaitStep, HandlerSteps, Constants
<1>3. WaitInv => WaitIsHonest
  BY DEF WaitInv, WaitIsHonest
<1> QED
  BY <1>1, <1>2, <1>3, PTL DEF Spec

----------------------------------------------------------------------------
(* Where a pipeline may run, field by field.                               *)
LEMMA PlaceFields ==
  ASSUME NEW run \in Claims!Place
  PROVE  /\ run.flag \in {Here, Alias, Junk, None}
         /\ run.ssh_hostname \in {Here, Junk, None}
         /\ \/ run.github_actions /\ ~run.foreign_actions /\ run.github_repository = Here
            \/ /\ ~run.github_actions \/ run.foreign_actions
               /\ run.gitlab_ci
               /\ \/ run.merge_request_path = None /\ run.project_path = Here
                  \/ run.merge_request_path = Here
            \/ /\ ~run.github_actions \/ run.foreign_actions
               /\ ~run.gitlab_ci
               /\ run.origin \in {Here, Alias, Junk, None}
<1>1. PICK p \in Claims!Pipeline, flag \in {Here, Alias, Junk, None}, warn_only \in BOOLEAN,
              host \in {Here, Junk, None} :
        run = Claims!Given(p, flag, warn_only, host)
  <2>1. run \in Claims!Configured
    BY DEF Claims!Place
  <2> QED
    BY <2>1 DEF Claims!Configured
<1>2. DOMAIN p = DOMAIN Claims!Shell
  <2>1. /\ DOMAIN Claims!Runner = DOMAIN Claims!Shell /\ DOMAIN Claims!GitLab = DOMAIN Claims!Shell
        /\ DOMAIN Claims!MergeRequest = DOMAIN Claims!Shell
        /\ DOMAIN Claims!Foreign = DOMAIN Claims!Shell
    BY DEF Claims!Runner, Claims!GitLab, Claims!MergeRequest, Claims!Foreign
  <2>2. \A o : /\ DOMAIN [Claims!Shell EXCEPT !.origin = o] = DOMAIN Claims!Shell
              /\ DOMAIN [Claims!Foreign EXCEPT !.origin = o] = DOMAIN Claims!Foreign
    OBVIOUS
  <2>3. \/ p \in {Claims!Runner, Claims!GitLab, Claims!MergeRequest}
        \/ \E o : p = [Claims!Shell EXCEPT !.origin = o] \/ p = [Claims!Foreign EXCEPT !.origin = o]
    BY DEF Claims!Pipeline
  <2> QED
    BY <2>1, <2>2, <2>3
<1>3. /\ run.flag = flag /\ run.ssh_hostname = host
      /\ run.github_actions = p.github_actions /\ run.foreign_actions = p.foreign_actions
      /\ run.github_repository = p.github_repository /\ run.gitlab_ci = p.gitlab_ci
      /\ run.merge_request_path = p.merge_request_path /\ run.project_path = p.project_path
      /\ run.origin = p.origin
  BY <1>1, <1>2 DEF Claims!Shell, Claims!Given
<1>4. CASE p = Claims!Runner
  BY <1>3, <1>4 DEF Claims!Runner, Claims!Shell
<1>5. CASE p = Claims!GitLab
  BY <1>3, <1>5 DEF Claims!GitLab, Claims!Shell
<1>6. CASE p = Claims!MergeRequest
  BY <1>3, <1>6 DEF Claims!MergeRequest, Claims!Shell
<1>7. ASSUME NEW o \in Claims!Remote,
             p = [Claims!Shell EXCEPT !.origin = o] \/ p = [Claims!Foreign EXCEPT !.origin = o]
      PROVE  /\ ~run.github_actions \/ run.foreign_actions
             /\ ~run.gitlab_ci
             /\ run.origin \in {Here, Alias, Junk, None}
  BY <1>3, <1>7 DEF Claims!Foreign, Claims!Shell, Claims!Remote
<1>8. \/ p \in {Claims!Runner, Claims!GitLab, Claims!MergeRequest}
      \/ \E o \in Claims!Remote :
           p = [Claims!Shell EXCEPT !.origin = o] \/ p = [Claims!Foreign EXCEPT !.origin = o]
  BY DEF Claims!Pipeline
<1> QED
  BY <1>1, <1>3, <1>4, <1>5, <1>6, <1>7, <1>8

(* Wherever it runs, the gate names the repository the change is in, or    *)
(* none (derive).                                                          *)
LEMMA DerivesHere ==
  ASSUME Claims!ConstantsOK, NEW run \in Claims!Place
  PROVE  Claims!derive(run) \in {Here, None}
<1>1. Claims!name(Here) = Here /\ Claims!name(Junk) = None /\ Claims!name(Alias) = None
  BY DEF Claims!name, Claims!Repo, Claims!ConstantsOK
<1>2. Claims!name(None) = None
  BY DEF Claims!name, Claims!Repo
<1>3. \A x \in {Here, Alias, Junk} : Claims!name_via_alias(x, run) \in {Here, None}
  BY <1>1, <1>2, PlaceFields DEF Claims!name_via_alias, Claims!ConstantsOK
<1> QED
  BY <1>1, <1>3, PlaceFields DEF Claims!derive, Claims!ConstantsOK

(* There is no status before the end, and the server is only asked of what *)
(* was read and named.                                                     *)
ClaimsInv ==
  /\ gate # "ended" => claims_code = None
  /\ gate # "off" =>
       /\ place \in Claims!Place
       /\ diff \in [from : {"stdin", "file"}, text : {"read", "empty", "unreadable"}]
  /\ gate \in {"naming", "asking"} =>
       diff.text = "read" \/ diff = [from |-> "file", text |-> "empty"]
  /\ gate = "asking" => asked = Here
  /\ Claims!CleanMeansChecked

LEMMA ClaimsInit == Claims!ConstantsOK /\ Claims!Init => ClaimsInv
BY DEF Claims!ConstantsOK, Claims!Init, ClaimsInv, Claims!CleanMeansChecked

LEMMA ClaimsStep == Claims!ConstantsOK /\ ClaimsInv /\ [Claims!Next]_claims => ClaimsInv'
<1> SUFFICES ASSUME Claims!ConstantsOK, ClaimsInv, [Claims!Next]_claims PROVE ClaimsInv'
  OBVIOUS
<1>0. claims_code = None => claims_code \notin {0, 2}
  BY DEF Claims!ConstantsOK
<1> USE DEF ClaimsInv, Claims!CleanMeansChecked
<1>1. CASE Claims!Start
  <2>1. /\ place' \in Claims!Place
        /\ diff' \in [from : {"stdin", "file"}, text : {"read", "empty", "unreadable"}]
        /\ gate' = "reading" /\ claims_code' = claims_code /\ gate = "off"
    BY <1>1 DEF Claims!Start
  <2>2. claims_code' = None /\ claims_code' \notin {0, 2}
    BY <1>0, <2>1
  <2> QED
    BY <2>1, <2>2
<1>2. CASE Claims!ReadDiff
  <2>1. diff \in [from : {"stdin", "file"}, text : {"read", "empty", "unreadable"}]
    BY <1>2 DEF Claims!ReadDiff
  <2>2. \/ gate' = "ended" /\ claims_code' = 3
        \/ /\ gate' = "naming" /\ claims_code' = None
           /\ diff.text # "unreadable" /\ ~(diff.from = "stdin" /\ diff.text = "empty")
    BY <1>2 DEF Claims!ReadDiff, Claims!End, Claims!EXIT_CLI_ERROR
  <2>3. gate' = "naming" => diff.text = "read" \/ diff = [from |-> "file", text |-> "empty"]
    BY <2>1, <2>2
  <2> QED
    BY <1>0, <1>2, <2>1, <2>2, <2>3 DEF Claims!ReadDiff
<1>3. CASE Claims!Name
  BY <1>0, <1>3, DerivesHere DEF Claims!Name, Claims!End, Claims!EXIT_CLI_ERROR
<1>4. CASE Claims!Unanswered
  BY <1>4 DEF Claims!Unanswered, Claims!End, Claims!EXIT_CLI_ERROR
<1>5. CASE Claims!Decide
  BY <1>5 DEF Claims!Decide, Claims!End, Claims!EXIT_CLI_ERROR, Claims!exit_code, Claims!Answer
<1>6. CASE UNCHANGED claims
  BY <1>6 DEF claims
<1> QED
  BY <1>1, <1>2, <1>3, <1>4, <1>5, <1>6 DEF Claims!Next, Claims!Work

(* A gate only passes, or fails on claims, when the server was asked, and  *)
(* answered, about the repository the change is in, wherever the pipeline  *)
(* runs (check_claims, derive).                                            *)
THEOREM CleanIsChecked == Spec => []CleanMeansChecked
<1>1. Init => ClaimsInv
  BY ClaimsInit, Constants DEF Init
<1>2. ClaimsInv /\ [Next]_vars => ClaimsInv'
  BY ClaimsStep, HandlerSteps, Constants
<1>3. ClaimsInv => CleanMeansChecked
  BY DEF ClaimsInv, CleanMeansChecked
<1> QED
  BY <1>1, <1>2, <1>3, PTL DEF Spec

----------------------------------------------------------------------------
(* What the buffer holds starts at an event's first byte: of every four    *)
(* entries the first carries the event's name and the last two end it.     *)
Framed ==
  /\ Len(buffer) = arrived - 4 * Len(handled)
  /\ \A i \in 1 .. Len(buffer) :
       /\ (i - 1) % 4 = 0 => buffer[i].event = feed[Len(handled) + (i - 1) \div 4 + 1]
       /\ (i - 1) % 4 \in {0, 1} => buffer[i] # Question!Newline
       /\ (i - 1) % 4 \in {2, 3} => buffer[i] = Question!Newline

InOrder ==
  /\ Len(handled) <= Len(feed)
  /\ \A i \in 1 .. Len(handled) : handled[i].event = feed[i]

(* A stream that ended without an error was handled to its last event.     *)
Finished ==
  ask_code = 0 => \/ Len(handled) = arrived \div 4
                  \/ handled # <<>> /\ handled[Len(handled)].event = "done"

AnswerSaved == (\E i \in DOMAIN handled : handled[i].event = "answer") => saved

QuestionInv ==
  /\ Question!TypeOK
  /\ asking \in {"off", "sent"} => feed = <<>> /\ arrived = 0 /\ buffer = <<>> /\ handled = <<>>
  /\ asking # "ended" => ask_code = None
  /\ asking = "reading" => Framed /\ InOrder
  /\ asking = "ended" /\ feed # <<>> => InOrder /\ Finished
  /\ AnswerSaved

Characters == [event : Question!Event \cup {"newline", "nothing"}, whole : BOOLEAN]

(* Four bytes on: the same part of the next event.                         *)
LEMMA Parts ==
  ASSUME NEW h \in Nat, NEW i \in Nat \ {0}
  PROVE  /\ (4 * h + i - 1) % 4 = (i - 1) % 4
         /\ (4 * h + i - 1) \div 4 = h + (i - 1) \div 4
         /\ (i - 1) % 4 \in 0 .. 3
         /\ (i + 3) % 4 = (i - 1) % 4 /\ (i + 3) \div 4 = (i - 1) \div 4 + 1
  OBVIOUS

(* An event is complete when its four bytes are there, and the first       *)
(* complete one is the first of the buffer.                                *)
LEMMA FirstEvent ==
  ASSUME Question!TypeOK, Framed
  PROVE  /\ Question!Ends = {} => Len(buffer) < 4
         /\ Question!Ends # {} => Len(buffer) >= 4 /\ Question!EndOf = 3
<1>1. Len(buffer) \in Nat
  BY DEF Question!TypeOK
<1>2. Len(buffer) >= 4 => 3 \in Question!Ends
  BY <1>1 DEF Framed, Question!Ends
<1>3. ASSUME NEW j \in Question!Ends
      PROVE  j \in Nat /\ j >= 3 /\ Len(buffer) >= 4
  <2>1. /\ j \in 1 .. Len(buffer) - 1
        /\ buffer[j] = Question!Newline /\ buffer[j + 1] = Question!Newline
    BY <1>3 DEF Question!Ends
  <2>2. (j - 1) % 4 \notin {0, 1} /\ j + 1 - 1 = j /\ j % 4 \notin {0, 1}
    BY <1>1, <2>1 DEF Framed
  <2>3. j >= 3
    BY <2>1, <2>2
  <2> QED
    BY <1>1, <2>1, <2>3
<1>4. Question!Ends # {} => Question!EndOf = 3
  <2> SUFFICES ASSUME Question!Ends # {} PROVE Question!EndOf = 3
    OBVIOUS
  <2>1. 3 \in Question!Ends /\ \A j \in Question!Ends : 3 <= j
    BY <1>2, <1>3
  <2>2. /\ Question!EndOf \in Question!Ends
        /\ \A j \in Question!Ends : Question!EndOf <= j
    BY <2>1 DEF Question!EndOf
  <2> QED
    BY <1>3, <2>1, <2>2
<1> QED
  BY <1>1, <1>2, <1>3, <1>4

LEMMA FeedLength ==
  ASSUME Question!ConstantsOK, Question!TypeOK
  PROVE  feed \in Seq(Question!Event) /\ Len(feed) \in Nat /\ Question!Wire = 4 * Len(feed)
<1>1. feed \in Seq(Question!Event)
  <2>1. feed \in Feeds \cup {<<>>}
    BY DEF Question!TypeOK
  <2>2. Feeds \subseteq Seq(Question!Event)
    BY DEF Question!ConstantsOK
  <2>3. <<>> \in Seq(Question!Event)
    OBVIOUS
  <2> QED
    BY <2>1, <2>2, <2>3, Zenon
<1> QED
  BY <1>1 DEF Question!Wire, Question!BytesPerEvent

(* What a byte decodes to tells which part of its event it is.             *)
LEMMA DecodedPart ==
  ASSUME Question!ConstantsOK, Question!TypeOK, NEW from \in Nat, NEW to \in Nat,
         to <= Question!Wire, NEW k \in from + 1 .. to
  PROVE  /\ Question!Decoded(k, from, to) \in Characters
         /\ (k - 1) % 4 = 0 => Question!Decoded(k, from, to).event = feed[(k - 1) \div 4 + 1]
         /\ (k - 1) % 4 \in {0, 1} => Question!Decoded(k, from, to) # Question!Newline
         /\ (k - 1) % 4 \in {2, 3} => Question!Decoded(k, from, to) = Question!Newline
<1> DEFINE c == Question!Decoded(k, from, to)
           event == feed[(k - 1) \div 4 + 1]
           part == (k - 1) % 4
<1>1. event \in Question!Event
  <2>1. (k - 1) \div 4 + 1 \in 1 .. Len(feed)
    BY FeedLength
  <2> QED
    BY <2>1, FeedLength
<1>2. part \in 0 .. 3
  OBVIOUS
<1>3. CASE part = 0
  BY <1>1, <1>3 DEF Question!Decoded, Question!BytesPerEvent, Question!Text, Question!Newline,
                    Question!Event, Characters
<1>4. CASE part = 1
  <2>1. CASE k - 1 > from
    BY <1>4, <2>1 DEF Question!Decoded, Question!BytesPerEvent, Question!Text, Question!Newline,
                      Question!Nothing, Question!Event, Characters
  <2>2. CASE ~(k - 1 > from)
    <3>1. c = [event |-> event, whole |-> FALSE]
      BY <1>4, <2>2 DEF Question!Decoded, Question!BytesPerEvent, Question!Text
    <3> HIDE DEF c, event
    <3>2. c \in Characters /\ c # Question!Newline
      BY <1>1, <3>1 DEF Question!Text, Question!Newline, Question!Event, Characters
    <3> QED
      BY <1>4, <3>2 DEF c
  <2> QED
    BY <2>1, <2>2
<1>5. CASE part \in {2, 3}
  BY <1>5 DEF Question!Decoded, Question!BytesPerEvent, Question!Text, Question!Newline, Characters
<1> QED
  BY <1>2, <1>3, <1>4, <1>5

LEMMA QuestionInit == Question!ConstantsOK /\ Question!Init => QuestionInv
<1> SUFFICES ASSUME Question!ConstantsOK, Question!Init PROVE QuestionInv
  OBVIOUS
<1>1. Question!TypeOK
  <2>1. \A S : <<>> \in Seq(S)
    OBVIOUS
  <2>2. feed = <<>> /\ Question!Wire = 0
    BY DEF Question!Init, Question!Wire, Question!BytesPerEvent
  <2>3. arrived \in 0 .. Question!Wire
    BY <2>2 DEF Question!Init
  <2> QED
    BY <2>1, <2>2, <2>3, Zenon DEF Question!Init, Question!TypeOK
<1>2. None # 0
  BY DEF Question!ConstantsOK
<1> QED
  BY <1>1, <1>2 DEF Question!Init, QuestionInv, AnswerSaved

(* What is appended, and what is left of a sequence after four elements.   *)
LEMMA Joined ==
  ASSUME NEW S, NEW s \in Seq(S), NEW t \in Seq(S)
  PROVE  /\ s \o t \in Seq(S) /\ Len(s \o t) = Len(s) + Len(t)
         /\ \A i \in 1 .. Len(s) : (s \o t)[i] = s[i]
         /\ \A i \in Len(s) + 1 .. Len(s) + Len(t) : (s \o t)[i] = t[i - Len(s)]
OBVIOUS

LEMMA Left ==
  ASSUME NEW S, NEW s \in Seq(S), Len(s) >= 4
  PROVE  /\ SubSeq(s, 5, Len(s)) \in Seq(S) /\ Len(SubSeq(s, 5, Len(s))) = Len(s) - 4
         /\ \A i \in 1 .. Len(s) - 4 : SubSeq(s, 5, Len(s))[i] = s[i + 4]
<1>1. \A n \in Nat : Len(SubSeq(s, 5, n)) = IF 5 <= n THEN n - 4 ELSE 0
  OBVIOUS
<1>2. \A n \in Nat : n >= 4 => (IF 5 <= n THEN n - 4 ELSE 0) = n - 4
  OBVIOUS
<1>3. Len(s) \in Nat
  OBVIOUS
<1>4. Len(SubSeq(s, 5, Len(s))) = Len(s) - 4
  BY <1>1, <1>2, <1>3, Zenon
<1>5. SubSeq(s, 5, Len(s)) \in Seq(S)
  OBVIOUS
<1>6. \A i \in 1 .. Len(s) - 4 : SubSeq(s, 5, Len(s))[i] = s[i + 4]
  OBVIOUS
<1> QED
  BY <1>4, <1>5, <1>6, Zenon

LEMMA Added ==
  ASSUME NEW S, NEW s \in Seq(S), NEW e \in S
  PROVE  /\ Append(s, e) \in Seq(S) /\ Len(Append(s, e)) = Len(s) + 1
         /\ Append(s, e)[Len(s) + 1] = e /\ Append(s, e) # <<>>
         /\ \A i \in 1 .. Len(s) : Append(s, e)[i] = s[i]
OBVIOUS

(* What a chunk adds goes on where the buffer left off.                    *)
LEMMA ChunkStep ==
  ASSUME Question!ConstantsOK, Question!TypeOK, Framed, NEW to \in arrived + 1 .. Question!Wire,
         buffer' = buffer \o Question!from_utf8_lossy(arrived, to), arrived' = to,
         UNCHANGED <<feed, handled>>
  PROVE  buffer' \in Seq(Characters) /\ Framed'
<1> DEFINE chunk == Question!from_utf8_lossy(arrived, to)
           h == Len(handled)
<1>1. /\ arrived \in Nat /\ to \in Nat /\ to > arrived /\ to <= Question!Wire
      /\ buffer \in Seq(Characters) /\ h \in Nat /\ Len(buffer) = arrived - 4 * h
  <2>1. Question!Wire \in Nat
    BY FeedLength
  <2> QED
    BY <2>1 DEF Question!TypeOK, Characters, Framed
<1>2. \A i \in 1 .. to - arrived : chunk[i] = Question!Decoded(arrived + i, arrived, to)
  BY <1>1 DEF Question!from_utf8_lossy
<1>3. \A i \in 1 .. to - arrived : Question!Decoded(arrived + i, arrived, to) \in Characters
  <2> SUFFICES ASSUME NEW i \in 1 .. to - arrived
               PROVE  Question!Decoded(arrived + i, arrived, to) \in Characters
    OBVIOUS
  <2>1. arrived + i \in arrived + 1 .. to
    BY <1>1
  <2> QED
    BY <1>1, <2>1, DecodedPart
<1>4. chunk \in Seq(Characters) /\ Len(chunk) = to - arrived
  <2>1. chunk = [i \in 1 .. to - arrived |-> Question!Decoded(arrived + i, arrived, to)]
    BY DEF Question!from_utf8_lossy
  <2>2. to - arrived \in Nat
    BY <1>1
  <2> HIDE DEF chunk
  <2> QED
    BY <1>3, <2>1, <2>2
<1> HIDE DEF chunk
<1>5. /\ buffer' \in Seq(Characters) /\ Len(buffer') = to - 4 * h
      /\ \A i \in 1 .. Len(buffer) : buffer'[i] = buffer[i]
      /\ \A i \in Len(buffer) + 1 .. to - 4 * h : buffer'[i] = chunk[i - Len(buffer)]
  <2>1. buffer' = buffer \o chunk
    BY DEF chunk
  <2>2. Len(buffer) + Len(chunk) = to - 4 * h
    BY <1>1, <1>4
  <2>3. /\ buffer' \in Seq(Characters) /\ Len(buffer') = Len(buffer) + Len(chunk)
        /\ \A i \in 1 .. Len(buffer) : buffer'[i] = buffer[i]
        /\ \A i \in Len(buffer) + 1 .. Len(buffer) + Len(chunk) :
             buffer'[i] = chunk[i - Len(buffer)]
    <3>1. buffer \in Seq(Characters) /\ chunk \in Seq(Characters)
      BY <1>1, <1>4
    <3>2. /\ buffer \o chunk \in Seq(Characters) /\ Len(buffer \o chunk) = Len(buffer) + Len(chunk)
          /\ \A i \in 1 .. Len(buffer) : (buffer \o chunk)[i] = buffer[i]
          /\ \A i \in Len(buffer) + 1 .. Len(buffer) + Len(chunk) :
               (buffer \o chunk)[i] = chunk[i - Len(buffer)]
      BY <3>1, Joined, Zenon
    <3> QED
      BY <2>1, <3>2, Zenon
  <2> QED
    BY <2>2, <2>3
<1>6. ASSUME NEW i \in 1 .. Len(buffer')
      PROVE  /\ (i - 1) % 4 = 0 => buffer'[i].event = feed[h + (i - 1) \div 4 + 1]
             /\ (i - 1) % 4 \in {0, 1} => buffer'[i] # Question!Newline
             /\ (i - 1) % 4 \in {2, 3} => buffer'[i] = Question!Newline
  <2>1. CASE i \in 1 .. Len(buffer)
    BY <1>5, <2>1 DEF Framed
  <2>2. CASE i \in Len(buffer) + 1 .. to - 4 * h
    <3> DEFINE k == 4 * h + i
    <3>1. k \in arrived + 1 .. to /\ i - Len(buffer) \in 1 .. to - arrived
          /\ arrived + (i - Len(buffer)) = k
      BY <1>1, <2>2
    <3>2. buffer'[i] = Question!Decoded(k, arrived, to)
      BY <1>2, <1>5, <2>2, <3>1
    <3>3. (k - 1) % 4 = (i - 1) % 4 /\ (k - 1) \div 4 + 1 = h + (i - 1) \div 4 + 1
      <4>1. i \in Nat \ {0} /\ h \in Nat /\ (i - 1) \div 4 \in Nat
        BY <1>1, <2>2
      <4>2. (4 * h + i - 1) % 4 = (i - 1) % 4 /\ (4 * h + i - 1) \div 4 = h + (i - 1) \div 4
        BY <4>1, Parts
      <4> HIDE DEF h
      <4>3. k - 1 = 4 * h + i - 1
        BY <4>1
      <4> QED
        BY <4>1, <4>2, <4>3
    <3> HIDE DEF k
    <3>4. /\ (k - 1) % 4 = 0 =>
               Question!Decoded(k, arrived, to).event = feed[(k - 1) \div 4 + 1]
          /\ (k - 1) % 4 \in {0, 1} => Question!Decoded(k, arrived, to) # Question!Newline
          /\ (k - 1) % 4 \in {2, 3} => Question!Decoded(k, arrived, to) = Question!Newline
      BY <1>1, <3>1, DecodedPart
    <3> QED
      BY <3>2, <3>3, <3>4
  <2> QED
    BY <1>1, <1>5, <2>1, <2>2
<1>7. Question!Newline' = Question!Newline
  BY DEF Question!Newline, Question!Text
<1> QED
  BY <1>1, <1>5, <1>6, <1>7 DEF Framed

(* The event that is handled is the next one the server sent, and what is  *)
(* left of the buffer starts at the one after it.                          *)
LEMMA HandleStep ==
  ASSUME Question!ConstantsOK, Question!TypeOK, Framed, InOrder, AnswerSaved, Question!HandleEvent
  PROVE  /\ buffer' \in Seq(Characters)
         /\ handled' \in Seq([event : Question!Event, whole : BOOLEAN])
         /\ saved' \in BOOLEAN
         /\ Framed' /\ InOrder' /\ AnswerSaved'
         /\ \/ UNCHANGED <<asking, ask_code>>
            \/ /\ asking' = "ended" /\ ask_code' = 0
               /\ handled' # <<>> /\ handled'[Len(handled')].event = "done"
<1> DEFINE h == Len(handled)
           block == SubSeq(buffer, 1, 2)
           event == Question!parse_sse_event(block)
<1>1. /\ h \in Nat /\ Len(buffer) \in Nat /\ buffer \in Seq(Characters) /\ arrived \in Nat
      /\ handled \in Seq([event : Question!Event, whole : BOOLEAN]) /\ saved \in BOOLEAN
      /\ Len(buffer) = arrived - 4 * h
  BY FeedLength DEF Question!TypeOK, Characters, Framed
<1>2. Len(buffer) >= 4 /\ Question!EndOf = 3
  BY FirstEvent DEF Question!HandleEvent
<1>3. h + 1 \in 1 .. Len(feed)
  <2>1. arrived <= 4 * Len(feed) /\ Len(buffer) = arrived - 4 * h
    BY FeedLength DEF Question!TypeOK, Framed
  <2> QED
    BY <1>1, <1>2, <2>1, FeedLength
<1>4. event.event = feed[h + 1] /\ event \in [event : Question!Event, whole : BOOLEAN]
  <2>1. block # <<>> /\ block[1] = buffer[1]
    BY <1>1, <1>2
  <2>2. buffer[1].event = feed[h + 1]
    <3>1. (1 - 1) % 4 = 0 /\ (1 - 1) \div 4 = 0 /\ 1 \in 1 .. Len(buffer)
      BY <1>2
    <3>2. buffer[1].event = feed[h + (1 - 1) \div 4 + 1]
      BY <3>1 DEF Framed
    <3> QED
      BY <1>1, <3>1, <3>2
  <2>3. event = [event |-> block[1].event, whole |-> \A i \in DOMAIN block : block[i].whole]
    BY <2>1 DEF Question!parse_sse_event
  <2>4. feed[h + 1] \in Question!Event
    BY <1>3, FeedLength
  <2> HIDE DEF block, event
  <2> QED
    BY <2>1, <2>2, <2>3, <2>4
<1>5. /\ handled' = Append(handled, event)
      /\ saved' = (saved \/ event.event = "answer")
      /\ IF event.event = "done" THEN asking' = "ended" /\ ask_code' = 0
         ELSE UNCHANGED <<asking, ask_code>>
      /\ buffer' = SubSeq(buffer, 5, Len(buffer))
      /\ UNCHANGED <<feed, arrived>>
  BY <1>2 DEF Question!HandleEvent, Question!End
<1> HIDE DEF block, event
<1>6. /\ handled' \in Seq([event : Question!Event, whole : BOOLEAN])
      /\ Len(handled') = h + 1 /\ handled'[h + 1] = event /\ handled' # <<>>
      /\ \A i \in 1 .. h : handled'[i] = handled[i]
  <2> DEFINE R == [event : Question!Event, whole : BOOLEAN]
  <2>1. handled \in Seq(R) /\ event \in R /\ handled' = Append(handled, event)
    BY <1>1, <1>4, <1>5
  <2> HIDE DEF R
  <2>2. /\ Append(handled, event) \in Seq(R) /\ Len(Append(handled, event)) = Len(handled) + 1
        /\ Append(handled, event)[Len(handled) + 1] = event /\ Append(handled, event) # <<>>
        /\ \A i \in 1 .. Len(handled) : Append(handled, event)[i] = handled[i]
    BY <2>1, Added
  <2>3. /\ handled' \in Seq(R) /\ Len(handled') = h + 1 /\ handled'[h + 1] = event
        /\ handled' # <<>> /\ \A i \in 1 .. h : handled'[i] = handled[i]
    BY <2>1, <2>2
  <2> QED
    BY <2>3 DEF R
<1>7. /\ buffer' \in Seq(Characters) /\ Len(buffer') = Len(buffer) - 4
      /\ \A i \in 1 .. Len(buffer') : buffer'[i] = buffer[i + 4]
  <2>1. buffer' = SubSeq(buffer, 5, Len(buffer))
    BY <1>5
  <2>2. buffer \in Seq(Characters) /\ Len(buffer) >= 4
    BY <1>1, <1>2
  <2>3. /\ buffer' \in Seq(Characters) /\ Len(buffer') = Len(buffer) - 4
        /\ \A i \in 1 .. Len(buffer) - 4 : buffer'[i] = buffer[i + 4]
    BY <2>1, <2>2, Left, Zenon
  <2> QED
    BY <2>3, Zenon
<1>8. Framed'
  <2>1. Len(buffer') = arrived' - 4 * Len(handled')
    <3>1. Len(buffer') = Len(buffer) - 4 /\ Len(handled') = h + 1 /\ arrived' = arrived
      BY <1>5, <1>6, <1>7
    <3> QED
      BY <1>1, <3>1
  <2>2. ASSUME NEW i \in 1 .. Len(buffer')
        PROVE  /\ (i - 1) % 4 = 0 => buffer'[i].event = feed[h + 1 + (i - 1) \div 4 + 1]
               /\ (i - 1) % 4 \in {0, 1} => buffer'[i] # Question!Newline
               /\ (i - 1) % 4 \in {2, 3} => buffer'[i] = Question!Newline
    <3> DEFINE j == i + 4
    <3>1. j \in 1 .. Len(buffer) /\ buffer'[i] = buffer[j]
      <4>1. Len(buffer') = Len(buffer) - 4 /\ buffer'[i] = buffer[i + 4]
        BY <1>7, <2>2
      <4>2. i \in 1 .. Len(buffer) - 4
        BY <2>2, <4>1
      <4> QED
        BY <1>1, <4>1, <4>2
    <3>2. (j - 1) % 4 = (i - 1) % 4 /\ (j - 1) \div 4 = (i - 1) \div 4 + 1
      BY <1>1, <1>7, <2>2, Parts
    <3>3. (i - 1) \div 4 \in Nat
      BY <1>1, <1>7, <2>2
    <3> HIDE DEF j
    <3>4. /\ (j - 1) % 4 = 0 => buffer[j].event = feed[h + (j - 1) \div 4 + 1]
          /\ (j - 1) % 4 \in {0, 1} => buffer[j] # Question!Newline
          /\ (j - 1) % 4 \in {2, 3} => buffer[j] = Question!Newline
      BY <3>1 DEF Framed
    <3>5. h + (j - 1) \div 4 + 1 = h + 1 + (i - 1) \div 4 + 1
      BY <1>1, <3>2, <3>3
    <3> QED
      BY <3>1, <3>2, <3>4, <3>5
  <2>3. Question!Newline' = Question!Newline
    BY DEF Question!Newline, Question!Text
  <2> QED
    BY <1>5, <1>6, <2>1, <2>2, <2>3 DEF Framed
<1>9. InOrder'
  <2>1. \A i \in 1 .. h + 1 : i \in 1 .. h \/ i = h + 1
    BY <1>1
  <2> QED
    BY <1>3, <1>4, <1>5, <1>6, <2>1, FeedLength DEF InOrder
<1>10. saved' \in BOOLEAN /\ AnswerSaved'
  <2>1. saved' \in BOOLEAN
    BY <1>5
  <2>2. ASSUME NEW i \in 1 .. h + 1, handled'[i].event = "answer" PROVE saved'
    <3>1. CASE i \in 1 .. h
      BY <1>1, <1>5, <1>6, <2>2, <3>1 DEF AnswerSaved
    <3>2. CASE i = h + 1
      BY <1>5, <1>6, <2>2, <3>2
    <3> QED
      BY <1>1, <3>1, <3>2
  <2>3. DOMAIN handled' = 1 .. h + 1
    BY <1>6
  <2> QED
    BY <2>1, <2>2, <2>3 DEF AnswerSaved
<1>11. event.event = "done" => handled'[Len(handled')].event = "done"
  BY <1>6
<1> QED
  BY <1>5, <1>6, <1>7, <1>8, <1>9, <1>10, <1>11

LEMMA QuestionStep ==
  Question!ConstantsOK /\ QuestionInv /\ [Question!Next]_question => QuestionInv'
<1> SUFFICES ASSUME Question!ConstantsOK, QuestionInv, [Question!Next]_question
             PROVE  QuestionInv'
  OBVIOUS
<1>0. None # 0 /\ Question!TypeOK
  BY DEF Question!ConstantsOK, QuestionInv
<1>1. CASE Question!Start
  <2>1. Question!TypeOK'
    BY <1>0, <1>1 DEF Question!Start, Question!TypeOK, Question!Wire
  <2> QED
    BY <1>0, <1>1, <2>1 DEF Question!Start, QuestionInv, AnswerSaved
<1>2. CASE Question!Unanswered
  <2>1. Question!TypeOK'
    BY <1>0, <1>2 DEF Question!Unanswered, Question!End, Question!TypeOK, Question!Wire
  <2> QED
    BY <1>2, <2>1 DEF Question!Unanswered, Question!End, QuestionInv, AnswerSaved
<1>3. CASE Question!Document
  <2>1. /\ feed = <<>> /\ UNCHANGED <<flags, feed, arrived, buffer>>
        /\ saved' = TRUE /\ asking' = "ended" /\ ask_code' \in {0, 1}
        /\ handled' = handled \/ handled' = <<Question!Text("answer", TRUE)>>
    BY <1>3 DEF Question!Document, Question!End, QuestionInv
  <2>2. handled' \in Seq([event : Question!Event, whole : BOOLEAN])
    <3>1. Question!Text("answer", TRUE) \in [event : Question!Event, whole : BOOLEAN]
      BY DEF Question!Text, Question!Event
    <3>2. \A S : \A e \in S : <<e>> \in Seq(S)
      OBVIOUS
    <3>3. <<Question!Text("answer", TRUE)>> \in Seq([event : Question!Event, whole : BOOLEAN])
      BY <3>1, <3>2, Zenon
    <3> QED
      BY <1>0, <2>1, <3>3, Zenon DEF Question!TypeOK
  <2>3. Question!TypeOK'
    BY <1>0, <2>1, <2>2 DEF Question!TypeOK, Question!Wire
  <2> QED
    BY <2>1, <2>3 DEF QuestionInv, AnswerSaved
<1>4. CASE Question!Stream
  <2>1. /\ asking = "sent" /\ arrived = 0 /\ buffer = <<>> /\ handled = <<>>
        /\ feed' \in Feeds /\ asking' = "reading"
        /\ UNCHANGED <<flags, arrived, buffer, handled, saved, ask_code>>
    BY <1>4 DEF Question!Stream, QuestionInv
  <2>2. Len(feed') \in Nat
    BY <2>1 DEF Question!ConstantsOK
  <2>3. Question!Wire' \in Nat
    BY <2>2 DEF Question!Wire, Question!BytesPerEvent
  <2>4. Question!TypeOK'
    <3>1. arrived' \in 0 .. Question!Wire'
      BY <2>1, <2>3
    <3> QED
      BY <1>0, <2>1, <3>1, Zenon DEF Question!TypeOK
  <2>5. Framed' /\ InOrder'
    <3>1. buffer' = <<>> /\ handled' = <<>> /\ arrived' = 0
      BY <2>1
    <3>2. Len(buffer') = 0 /\ Len(handled') = 0
      BY <3>1
    <3>3. 1 .. Len(buffer') = {} /\ 1 .. Len(handled') = {}
      BY <3>2
    <3>4. Len(buffer') = arrived' - 4 * Len(handled')
      <4>1. 0 = 0 - 4 * 0
        OBVIOUS
      <4> QED
        BY <3>1, <3>2, <4>1, Zenon
    <3>5. Len(handled') <= Len(feed')
      BY <2>2, <3>2
    <3> QED
      BY <3>3, <3>4, <3>5, Zenon DEF Framed, InOrder
  <2> QED
    BY <2>1, <2>4, <2>5 DEF QuestionInv, AnswerSaved
<1>5. CASE Question!Chunk
  <2>1. PICK to \in arrived + 1 .. Question!Wire :
          buffer' = buffer \o Question!from_utf8_lossy(arrived, to) /\ arrived' = to
    BY <1>5 DEF Question!Chunk
  <2>2. UNCHANGED <<asking, flags, feed, handled, saved, ask_code>> /\ asking = "reading"
    BY <1>5 DEF Question!Chunk
  <2>3. Framed /\ InOrder /\ AnswerSaved
    BY <2>2 DEF QuestionInv
  <2>4. buffer' \in Seq(Characters) /\ Framed'
    BY <1>0, <2>1, <2>2, <2>3, ChunkStep
  <2>5. Question!TypeOK'
    <3>1. arrived \in Nat /\ Question!Wire \in Nat
      BY <1>0, FeedLength DEF Question!TypeOK
    <3>2. arrived' \in 0 .. Question!Wire'
      BY <2>1, <2>2, <3>1 DEF Question!Wire
    <3> QED
      BY <1>0, <2>2, <2>4, <3>2, Zenon DEF Question!TypeOK, Characters
  <2> QED
    BY <2>2, <2>3, <2>4, <2>5 DEF QuestionInv, InOrder, AnswerSaved
<1>6. CASE Question!HandleEvent
  <2>1. UNCHANGED <<flags, feed, arrived>> /\ asking = "reading" /\ ask_code = None
    BY <1>6 DEF Question!HandleEvent, QuestionInv
  <2>2. Framed /\ InOrder /\ AnswerSaved
    BY <2>1 DEF QuestionInv
  <2>3. /\ buffer' \in Seq(Characters)
        /\ handled' \in Seq([event : Question!Event, whole : BOOLEAN])
        /\ saved' \in BOOLEAN
        /\ Framed' /\ InOrder' /\ AnswerSaved'
        /\ \/ UNCHANGED <<asking, ask_code>>
           \/ /\ asking' = "ended" /\ ask_code' = 0
              /\ handled' # <<>> /\ handled'[Len(handled')].event = "done"
    BY <1>0, <1>6, <2>2, HandleStep
  <2>4. asking' \in {"reading", "ended"} /\ ask_code' \in {None, 0, 1}
    BY <2>1, <2>3
  <2>5. Question!TypeOK'
    BY <1>0, <2>1, <2>3, <2>4 DEF Question!TypeOK, Question!Wire, Characters
  <2> QED
    BY <2>1, <2>3, <2>5 DEF QuestionInv, Finished
<1>7. CASE Question!Closed \/ Question!BrokenOff
  <2>1. /\ asking = "reading" /\ Question!Ends = {} /\ asking' = "ended" /\ ask_code' \in {0, 1}
        /\ UNCHANGED <<flags, feed, arrived, buffer, handled, saved>>
    BY <1>7 DEF Question!Closed, Question!BrokenOff, Question!End
  <2>2. Framed /\ InOrder /\ AnswerSaved
    BY <2>1 DEF QuestionInv
  <2>3. Len(handled) = arrived \div 4
    <3>1. Len(buffer) < 4 /\ Len(buffer) = arrived - 4 * Len(handled)
      BY <1>0, <2>1, <2>2, FirstEvent DEF Framed
    <3>2. arrived \in Nat /\ Len(buffer) \in Nat /\ Len(handled) \in Nat
      BY <1>0, FeedLength DEF Question!TypeOK
    <3>3. \A a, b, h \in Nat : b < 4 /\ b = a - 4 * h => h = a \div 4
      OBVIOUS
    <3> QED
      BY <3>1, <3>2, <3>3, Zenon
  <2>4. Question!TypeOK'
    BY <1>0, <2>1 DEF Question!TypeOK, Question!Wire
  <2> QED
    BY <2>1, <2>2, <2>3, <2>4 DEF QuestionInv, InOrder, Finished, AnswerSaved
<1>8. CASE UNCHANGED question
  <2>1. Question!TypeOK'
    BY <1>0, <1>8 DEF question, Question!TypeOK, Question!Wire
  <2>2. (Framed /\ InOrder => Framed' /\ InOrder') /\ (Finished => Finished')
    BY <1>8 DEF question, Framed, InOrder, Finished, Question!Newline, Question!Text
  <2> QED
    BY <1>8, <2>1, <2>2 DEF question, QuestionInv, InOrder, AnswerSaved
<1> QED
  BY <1>1, <1>2, <1>3, <1>4, <1>5, <1>6, <1>7, <1>8 DEF Question!Next, Question!Work

(* However the chunks fall, the events of a stream are handled as they     *)
(* were sent, none twice, none out of order and none that arrived whole    *)
(* left out, and what goes on after an answer was kept (handle_sse_stream).*)
THEOREM StreamHandledAsSent == Spec => []HandledAsSent
<1>1. Init => QuestionInv
  BY QuestionInit, Constants DEF Init
<1>2. QuestionInv /\ [Next]_vars => QuestionInv'
  BY QuestionStep, HandlerSteps, Constants
<1>3. QuestionInv => HandledAsSent
  <2> SUFFICES ASSUME QuestionInv PROVE HandledAsSent
    OBVIOUS
  <2>1. Len(handled) \in Nat /\ DOMAIN handled = 1 .. Len(handled)
    BY DEF QuestionInv, Question!TypeOK
  <2>2. asking = "reading" => ask_code # 0
    BY Constants DEF QuestionInv, Question!ConstantsOK
  <2> QED
    BY <2>1, <2>2
    DEF QuestionInv, HandledAsSent, Question!HandledAsSent, InOrder, Finished, AnswerSaved,
        Question!BytesPerEvent
<1> QED
  BY <1>1, <1>2, <1>3, PTL DEF Spec

----------------------------------------------------------------------------
(* Nothing has changed, or was said, before the end, which a handler may   *)
(* reach too, and only for a command that was handed to one.               *)
LineInv ==
  /\ front # "ended" => changed = FALSE /\ file = "untouched" /\ code = None
  /\ front = "off" => command = None
  /\ front = "handed" => command \in Line!Handed
  /\ Line!ZeroIsDone

LEMMA LineInit == Line!Init => LineInv
BY DEF Line!Init, LineInv, Line!ZeroIsDone

(* A status ends a command that made no change, or was handed over.        *)
LEMMA EndsUnchanged ==
  ASSUME LineInv, front # "ended", front' = "ended", UNCHANGED <<command, changed, file>>,
         command \notin Line!Changing \cup {"attest_export"} \/ code' \in {1, 2, 101}
  PROVE  LineInv'
<1>1. changed' = FALSE /\ file' = "untouched"
  BY DEF LineInv
<1>2. command' \in Line!Changing \cup {"attest_export"} => code' # 0
  OBVIOUS
<1> QED
  BY <1>1, <1>2 DEF LineInv, Line!ZeroIsDone

(* A handler whose answers that end it with 0 are all of changes made, or  *)
(* of a refusal that is told as nothing to do.                             *)
LEMMA ReceiveInv ==
  ASSUME LineInv, NEW c, NEW answers, NEW done, Line!Receive(c, answers, done),
         \/ c \notin Line!Changing \cup {"attest_export"}
         \/ c \in Line!Changing /\ done \subseteq {"ok", "incomplete", "unreadable"}
         \/ c = "ingest_trigger" /\ done \subseteq {"ok", "conflict"}
         \/ c = "attest_export" /\ done = {"conflict"}
  PROVE  LineInv'
<1>1. PICK sent \in answers :
        /\ changed' \in Line!Made(sent)
        /\ said' = IF sent \notin done THEN None
                   ELSE IF sent = "conflict" THEN "nothing new" ELSE "result"
        /\ front' = "ended" /\ code' = IF sent \in done THEN 0 ELSE 1
  BY DEF Line!Receive, Line!End
<1>2. front = "sent" /\ command = c /\ command' = command /\ file' = "untouched"
  BY DEF Line!Receive, LineInv
<1>3. CASE sent \in done /\ sent \in {"ok", "incomplete", "unreadable"}
  <2>1. changed' \in {(command \in Line!Changing)}
    <3>1. Line!Made(sent) = {(command \in Line!Changing)}
      BY <1>3 DEF Line!Made
    <3> QED
      BY <1>1, <3>1, Zenon
  <2>2. c \in Line!Changing => changed'
    BY <1>2, <2>1, Zenon
  <2>3. c # "attest_export"
    BY <1>3 DEF Line!Changing
  <2>4. code' = 0
    BY <1>1, <1>3
  <2>5. Line!ZeroIsDone'
    <3> SUFFICES ASSUME command' \in Line!Changing \cup {"attest_export"}
                 PROVE  /\ code' = 0 => \/ changed' \/ file' = "written"
                                        \/ /\ said' = "nothing new"
                                           /\ command' \in {"ingest_trigger", "attest_export"}
                        /\ code' \in {2, 101} => ~changed'
                        /\ file' = "written" => code' = 0
      BY DEF Line!ZeroIsDone
    <3>1. changed'
      BY <1>2, <2>2, <2>3
    <3>2. code' \notin {2, 101}
      BY <2>4
    <3> QED
      BY <3>1, <3>2, <2>4
  <2> QED
    BY <1>1, <2>5 DEF LineInv
<1>4. CASE sent \in done /\ sent \notin {"ok", "incomplete", "unreadable"}
  <2>1. c \in Line!Changing \cup {"attest_export"} =>
          c \in {"ingest_trigger", "attest_export"} /\ sent = "conflict"
    BY <1>4
  <2>2. code' = 0
    BY <1>1, <1>4
  <2>3. sent = "conflict" => said' = "nothing new"
    BY <1>1, <1>4
  <2>4. Line!ZeroIsDone'
    <3> SUFFICES ASSUME command' \in Line!Changing \cup {"attest_export"}
                 PROVE  /\ code' = 0 => \/ changed' \/ file' = "written"
                                        \/ /\ said' = "nothing new"
                                           /\ command' \in {"ingest_trigger", "attest_export"}
                        /\ code' \in {2, 101} => ~changed'
                        /\ file' = "written" => code' = 0
      BY DEF Line!ZeroIsDone
    <3>1. said' = "nothing new" /\ command' \in {"ingest_trigger", "attest_export"}
      BY <1>2, <2>1, <2>3
    <3>2. code' \notin {2, 101}
      BY <2>2
    <3> QED
      BY <3>1, <3>2, <2>2
  <2> QED
    BY <1>1, <2>4 DEF LineInv
<1>5. CASE sent \notin done
  BY <1>1, <1>2, <1>5 DEF LineInv, Line!ZeroIsDone
<1> QED
  BY <1>3, <1>4, <1>5

(* Every handler of a single request is such a one.                        *)
LEMMA AnsweredInv == LineInv /\ Line!Answered => LineInv'
<1> SUFFICES ASSUME LineInv, Line!Answered PROVE LineInv'
  OBVIOUS
<1>1. CASE Line!attest_export
  <2>1. CASE Line!Receive("attest_export", Line!Typed \ {"ok"}, {"conflict"})
    BY <2>1, ReceiveInv
  <2>2. CASE ~Line!Receive("attest_export", Line!Typed \ {"ok"}, {"conflict"})
    <3>1. /\ front = "sent" /\ front' = "ended" /\ changed' = changed
          /\ command' = "attest_export"
          /\ \/ code' = 0 /\ file' = "written"
             \/ code' = 1 /\ file' \in {file, "torn"}
      BY <1>1, <2>2 DEF Line!attest_export, Line!End
    <3>2. file = "untouched"
      BY <3>1 DEF LineInv
    <3>3. Line!ZeroIsDone'
      <4> SUFFICES ASSUME command' \in Line!Changing \cup {"attest_export"}
                   PROVE  /\ code' = 0 => \/ changed' \/ file' = "written"
                                          \/ /\ said' = "nothing new"
                                             /\ command' \in {"ingest_trigger", "attest_export"}
                          /\ code' \in {2, 101} => ~changed'
                          /\ file' = "written" => code' = 0
        BY DEF Line!ZeroIsDone
      <4>1. code' \notin {2, 101}
        BY <3>1
      <4>2. code' = 1 => file' # "written"
        BY <3>1, <3>2
      <4> QED
        BY <3>1, <4>1, <4>2
    <3> QED
      BY <3>1, <3>3 DEF LineInv
  <2> QED
    BY <2>1, <2>2
<1>2. CASE \/ Line!token_create \/ Line!token_revoke \/ Line!autopilot_analyze
          \/ Line!autopilot_generate \/ Line!autopilot_dismiss \/ Line!autopilot_publish
          \/ Line!submit_quick_feedback \/ Line!submit_source_feedback \/ Line!submit_feedback
          \/ Line!ci_analyze \/ Line!ci_deploy_capture \/ Line!admin_ingest_trigger
  BY <1>2, ReceiveInv
  DEF Line!Changing, Line!Any, Line!Full, Line!token_create, Line!token_revoke,
      Line!autopilot_analyze, Line!autopilot_generate, Line!autopilot_dismiss,
      Line!autopilot_publish, Line!submit_quick_feedback, Line!submit_source_feedback,
      Line!submit_feedback, Line!ci_analyze, Line!ci_deploy_capture, Line!admin_ingest_trigger
<1>3. CASE \/ Line!token_list \/ Line!trace_query \/ Line!show_freshness \/ Line!show_analytics
          \/ Line!autopilot_summary \/ Line!autopilot_gaps \/ Line!autopilot_drafts
          \/ Line!admin_access_coverage \/ Line!license_show \/ Line!attest_show
          \/ Line!fetch_kf_schema \/ Line!validate \/ Line!health_findings
          \/ Line!show_version \/ Line!handle_connect_list
  BY <1>3, ReceiveInv
  DEF Line!Changing, Line!token_list, Line!trace_query, Line!show_freshness, Line!show_analytics,
      Line!autopilot_summary, Line!autopilot_gaps, Line!autopilot_drafts,
      Line!admin_access_coverage, Line!license_show, Line!attest_show, Line!fetch_kf_schema,
      Line!validate, Line!health_findings, Line!show_version, Line!handle_connect_list
<1> QED
  BY <1>1, <1>2, <1>3 DEF Line!Answered

LEMMA LineStep ==
  ASSUME Line!ConstantsOK, LineInv,
         Line!Run \/ Line!HandOver \/ (\E status : Line!Exit(status)) \/ UNCHANGED line
  PROVE  LineInv'
<1>1. CASE Line!UsageError
  <2>1. command \notin Line!Changing \cup {"attest_export"}
    BY <1>1 DEF Line!UsageError, LineInv, Line!ConstantsOK, Line!Command, Line!Reading
  <2> QED
    BY <1>1, <2>1, EndsUnchanged DEF Line!UsageError, Line!End
<1>2. CASE Line!Parse \/ Line!Send \/ Line!HandOver
  BY <1>2 DEF Line!Parse, Line!Send, Line!HandOver, LineInv, Line!ZeroIsDone
<1>3. CASE Line!LoadEnv
  <2>1. \/ front' = "loaded" /\ UNCHANGED <<command, changed, file, said, code>>
        \/ front = "parsed" /\ front' = "ended" /\ code' = 1 /\ UNCHANGED <<command, changed, file>>
    BY <1>3 DEF Line!LoadEnv, Line!End
  <2>2. front = "parsed"
    BY <1>3 DEF Line!LoadEnv
  <2> QED
    BY <2>1, <2>2, EndsUnchanged DEF LineInv, Line!ZeroIsDone
<1>4. CASE Line!Resolve
  <2>1. \/ front' = "dispatched" /\ UNCHANGED <<command, changed, file, said, code>>
        \/ /\ front' = "ended" /\ UNCHANGED <<command, changed, file>>
           /\ code' = 1 \/ command = "version"
    BY <1>4 DEF Line!Resolve, Line!End
  <2>2. front = "loaded"
    BY <1>4 DEF Line!Resolve
  <2> QED
    BY <2>1, <2>2, EndsUnchanged DEF LineInv, Line!ZeroIsDone, Line!Changing
<1>5. CASE Line!BadProfile \/ Line!Refuse \/ Line!Panic
  BY <1>5, EndsUnchanged DEF Line!BadProfile, Line!Refuse, Line!Panic, Line!End
<1>6. CASE Line!Valid
  BY <1>6, EndsUnchanged DEF Line!Valid, Line!End, Line!Changing
<1>7. ASSUME NEW status, Line!Exit(status) PROVE LineInv'
  <2>1. command \notin Line!Changing \cup {"attest_export"}
    BY <1>7 DEF Line!Exit, LineInv, Line!Handed, Line!Changing
  <2> QED
    BY <1>7, <2>1, EndsUnchanged DEF Line!Exit, Line!End
<1>8. CASE UNCHANGED line
  BY <1>8 DEF line, LineInv, Line!ZeroIsDone
<1> QED
  BY <1>1, <1>2, <1>3, <1>4, <1>5, <1>6, <1>7, <1>8, AnsweredInv DEF Line!Run

LEMMA LineSteps ==
  ASSUME [Next]_vars
  PROVE  Line!Run \/ Line!HandOver \/ (\E status : Line!Exit(status)) \/ UNCHANGED line
BY DEF Next, Docbrain, Meanwhile, HandOver, Handler, Finish, ExceptMcp, vars

(* A script may go by the exit status of every command: 0 is only given    *)
(* for a change the server made, or for the two refusals that are told as  *)
(* nothing to do, and a usage error or a panic has changed nothing (run).  *)
THEOREM ZeroMeansDone == Spec => []ZeroIsDone
<1>1. Init => LineInv
  BY LineInit DEF Init
<1>2. LineInv /\ [Next]_vars => LineInv'
  BY LineStep, LineSteps, Constants
<1>3. LineInv => ZeroIsDone
  BY DEF LineInv, ZeroIsDone
<1> QED
  BY <1>1, <1>2, <1>3, PTL DEF Spec

----------------------------------------------------------------------------
(* Every run of the program is, for each handler, a run of that handler    *)
(* alone, or one in which it takes no step (run).                          *)
THEOREM HandlersAsAlone ==
  Spec => /\ Draft!Init /\ [][Draft!Next]_draft
          /\ Claims!Init /\ [][Claims!Next]_claims
          /\ Evidence!Init /\ [][Evidence!Next]_evidence
          /\ Question!Init /\ [][Question!Next]_question
          /\ Wait!Init /\ [][Wait!Next]_wait
          /\ Mcp!Init /\ [][Mcp!Next]_mcp
<1>1. Init => /\ Draft!Init /\ Claims!Init /\ Evidence!Init /\ Question!Init /\ Wait!Init
              /\ Mcp!Init
  BY DEF Init
<1>2. [Next]_vars => /\ [Draft!Next]_draft /\ [Claims!Next]_claims /\ [Evidence!Next]_evidence
                     /\ [Question!Next]_question /\ [Wait!Next]_wait /\ [Mcp!Next]_mcp
  BY HandlerSteps
<1> QED
  BY <1>1, <1>2, PTL DEF Spec

----------------------------------------------------------------------------
(* A head at every position of the range a bundle covers.                  *)
Heads(b) == Evidence!chain_heads_for_bundle(b)

(* A set of positions that is not empty has a lowest one.                  *)
LEMMA LowestExists ==
  ASSUME NEW T \in SUBSET Nat, T # {}
  PROVE  Evidence!LowestOf(T) \in T
<1>1. PICK p \in T : \A q \in T : <<q, p>> \notin OpToRel(<, Nat)
  BY NatLessThanWellFounded, WFMin
<1>2. ASSUME NEW q \in T PROVE ~(q < p)
  <2>1. <<q, p>> \in Nat \X Nat /\ <<q, p>> \notin OpToRel(<, Nat)
    BY <1>1
  <2> QED
    BY <2>1 DEF OpToRel
<1>3. \A q \in T : p <= q
  BY <1>2
<1> QED
  BY <1>3 DEF Evidence!LowestOf

(* A journal is a sequence, and a bundle's range lies within it.           *)
LEMMA ValidBundle ==
  ASSUME Evidence!ConstantsOK, NEW b \in Evidence!Valid
  PROVE  /\ b.verdict = "VALID"
         /\ b.journal \in Seq(Record)
         /\ Len(b.journal) \in 0 .. MaxLength
         /\ b.start \in Nat /\ b.end \in Nat
         /\ b.start <= b.end /\ b.end <= Len(b.journal)
<1>1. b.journal \in Evidence!Journal /\ b.start \in 0 .. MaxLength /\ b.end \in 0 .. MaxLength
  BY DEF Evidence!Valid
<1>2. PICK m \in 0 .. MaxLength : b.journal \in [1 .. m -> Record]
  BY <1>1 DEF Evidence!Journal, Evidence!BoundedSeq, Evidence!SeqOf
<1>3. m \in Nat
  BY DEF Evidence!ConstantsOK
<1>4. b.journal \in Seq(Record) /\ Len(b.journal) = m
  BY <1>2, <1>3
<1> QED
  BY <1>1, <1>4 DEF Evidence!Valid, Evidence!ConstantsOK

(* The first p records of a journal, one by one.                           *)
LEMMA HeadHolds ==
  ASSUME NEW s \in Seq(Record), NEW p \in 0 .. Len(s)
  PROVE  /\ SubSeq(s, 1, p) \in Seq(Record)
         /\ Len(SubSeq(s, 1, p)) = p
         /\ \A i \in 1 .. p : SubSeq(s, 1, p)[i] = s[i]
<1>1. p \in Int /\ 1 \in Int /\ \A i \in 1 .. p : s[i] \in Record
  OBVIOUS
<1> QED
  BY <1>1, SubSeqProperties

(* Heads at a position are the same when, and only when, all records up to *)
(* it are.                                                                 *)
LEMMA SameHead ==
  ASSUME NEW s \in Seq(Record), NEW t \in Seq(Record), NEW p \in 0 .. Len(s), p <= Len(t)
  PROVE  SubSeq(s, 1, p) = SubSeq(t, 1, p) <=> \A i \in 1 .. p : s[i] = t[i]
<1>1. p \in 0 .. Len(t)
  OBVIOUS
<1>2. /\ SubSeq(s, 1, p) \in Seq(Record) /\ Len(SubSeq(s, 1, p)) = p
      /\ \A i \in 1 .. p : SubSeq(s, 1, p)[i] = s[i]
  BY HeadHolds
<1>3. /\ SubSeq(t, 1, p) \in Seq(Record) /\ Len(SubSeq(t, 1, p)) = p
      /\ \A i \in 1 .. p : SubSeq(t, 1, p)[i] = t[i]
  BY <1>1, HeadHolds
<1>4. ASSUME SubSeq(s, 1, p) = SubSeq(t, 1, p) PROVE \A i \in 1 .. p : s[i] = t[i]
  BY <1>2, <1>3, <1>4
<1>5. ASSUME \A i \in 1 .. p : s[i] = t[i] PROVE SubSeq(s, 1, p) = SubSeq(t, 1, p)
  <2>1. \A i \in 1 .. Len(SubSeq(s, 1, p)) : SubSeq(s, 1, p)[i] = SubSeq(t, 1, p)[i]
    BY <1>2, <1>3, <1>5
  <2> QED
    BY <1>2, <1>3, <2>1, SeqEqual
<1> QED
  BY <1>4, <1>5

(* A journal that grew holds the records it held before.                   *)
LEMMA GrewShares ==
  ASSUME NEW s \in Seq(Record), NEW t \in Seq(Record), Evidence!IsPrefix(s, t)
  PROVE  \A i \in 1 .. Len(s) : s[i] = t[i]
<1>1. Len(s) \in 0 .. Len(s) /\ Len(s) <= Len(t)
  BY DEF Evidence!IsPrefix
<1>2. SubSeq(s, 1, Len(s)) = SubSeq(t, 1, Len(s))
  BY DEF Evidence!IsPrefix
<1> QED
  BY <1>1, <1>2, SameHead

(* The positions both bundles hold a head for, the anchor at 0 aside.      *)
LEMMA SharedPositions ==
  ASSUME NEW this, NEW that
  PROVE  Evidence!Shared(Heads(this), Heads(that)) =
           ((this.start .. this.end) \cap (that.start .. that.end)) \ {0}
BY DEF Heads, Evidence!Shared, Evidence!chain_heads_for_bundle

LEMMA ForkPositions ==
  ASSUME NEW this, NEW that
  PROVE  Evidence!Forks(Heads(this), Heads(that)) =
           {p \in ((this.start .. this.end) \cap (that.start .. that.end)) \ {0} :
              SubSeq(this.journal, 1, p) # SubSeq(that.journal, 1, p)}
BY SharedPositions DEF Heads, Evidence!Forks, Evidence!Shared, Evidence!chain_heads_for_bundle

(* What a fork shows of the two journals.                                  *)
LEMMA ForkShows ==
  ASSUME Evidence!ConstantsOK, NEW this \in Evidence!Valid, NEW that \in Evidence!Valid,
         Evidence!Forks(Heads(this), Heads(that)) # {}
  PROVE  LET lowest == Evidence!LowestOf(Evidence!Forks(Heads(this), Heads(that)))
         IN  /\ ~Evidence!Grew(this, that)
             /\ \E p \in 1 .. lowest : this.journal[p] # that.journal[p]
<1> DEFINE F == Evidence!Forks(Heads(this), Heads(that))
<1> DEFINE lowest == Evidence!LowestOf(F)
<1> DEFINE s == this.journal
<1> DEFINE t == that.journal
<1>1. /\ s \in Seq(Record) /\ Len(s) \in Nat /\ this.start \in Nat /\ this.end \in Nat
      /\ this.end <= Len(s)
  BY ValidBundle DEF Evidence!ConstantsOK
<1>2. /\ t \in Seq(Record) /\ Len(t) \in Nat /\ that.start \in Nat /\ that.end \in Nat
      /\ that.end <= Len(t)
  BY ValidBundle DEF Evidence!ConstantsOK
<1>3. F \in SUBSET Nat /\ F # {}
  BY <1>1, ForkPositions
<1>4. lowest \in F
  BY <1>3, LowestExists
<1>5. /\ lowest \in 1 .. Len(s) /\ lowest \in 1 .. Len(t)
      /\ SubSeq(s, 1, lowest) # SubSeq(t, 1, lowest)
  BY <1>1, <1>2, <1>4, ForkPositions
<1>6. PICK p \in 1 .. lowest : s[p] # t[p]
  <2>1. lowest \in 0 .. Len(s) /\ lowest <= Len(t)
    BY <1>1, <1>2, <1>5
  <2> QED
    BY <1>1, <1>2, <1>5, <2>1, SameHead
<1>7. p \in 1 .. Len(s) /\ p \in 1 .. Len(t)
  BY <1>1, <1>2, <1>5
<1>8. ~Evidence!IsPrefix(s, t) /\ ~Evidence!IsPrefix(t, s)
  BY <1>1, <1>2, <1>6, <1>7, GrewShares
<1> QED
  BY <1>6, <1>8 DEF Evidence!Grew

(* What two consistent bundles share, up to the last position of both.     *)
LEMMA ConsistentShares ==
  ASSUME Evidence!ConstantsOK, NEW this \in Evidence!Valid, NEW that \in Evidence!Valid,
         Evidence!Forks(Heads(this), Heads(that)) = {},
         Evidence!Shared(Heads(this), Heads(that)) # {}
  PROVE  \E last \in 1 .. MaxLength :
           /\ last \in this.start .. this.end /\ last \in that.start .. that.end
           /\ SubSeq(this.journal, 1, last) = SubSeq(that.journal, 1, last)
           /\ last + 1 \notin this.start .. this.end \cap that.start .. that.end
<1> DEFINE last == IF this.end <= that.end THEN this.end ELSE that.end
<1>1. /\ this.start \in Nat /\ this.end \in Nat /\ that.start \in Nat /\ that.end \in Nat
      /\ this.end <= MaxLength /\ that.end <= MaxLength
  BY ValidBundle DEF Evidence!ConstantsOK
<1>2. PICK both : both \in this.start .. this.end /\ both \in that.start .. that.end /\ both # 0
  BY SharedPositions
<1>3. /\ last \in this.start .. this.end /\ last \in that.start .. that.end
      /\ last # 0 /\ last \in 1 .. MaxLength
      /\ last + 1 \notin (this.start .. this.end) \cap (that.start .. that.end)
  BY <1>1, <1>2 DEF Evidence!ConstantsOK
<1>4. SubSeq(this.journal, 1, last) = SubSeq(that.journal, 1, last)
  <2>1. last \in ((this.start .. this.end) \cap (that.start .. that.end)) \ {0}
    BY <1>3
  <2>2. {p \in ((this.start .. this.end) \cap (that.start .. that.end)) \ {0} :
           SubSeq(this.journal, 1, p) # SubSeq(that.journal, 1, p)} = {}
    BY ForkPositions
  <2> HIDE DEF last
  <2> QED
    BY <2>1, <2>2
<1> QED
  BY <1>3, <1>4

----------------------------------------------------------------------------
(* What was read is a bundle, and there is no outcome before the end.      *)
EvidenceInv ==
  /\ ev = "verified" =>
       bundle \in Evidence!Bundle /\ (sub.sub = "against" => earlier \in Evidence!Bundle)
  /\ ev # "ended" => outcome = None
  /\ Evidence!ForkIsFork

LEMMA EvidenceInit == Evidence!Init => EvidenceInv
BY DEF Evidence!Init, EvidenceInv, Evidence!ForkIsFork

(* Two bundles that are compared are both VALID ones.                      *)
LEMMA ComparedValid ==
  ASSUME NEW b \in Evidence!Bundle, b.verdict = "VALID"
  PROVE  b \in Evidence!Valid
<1>1. Evidence!NoBundle.verdict = "CANNOT VERIFY"
  BY DEF Evidence!NoBundle
<1>2. [Evidence!NoBundle EXCEPT !.verdict = "TAMPERED"].verdict = "TAMPERED"
  BY DEF Evidence!NoBundle
<1>3. \/ b \in Evidence!Valid \/ b = Evidence!NoBundle
      \/ b = [Evidence!NoBundle EXCEPT !.verdict = "TAMPERED"]
  BY DEF Evidence!Bundle
<1> QED
  BY <1>1, <1>2, <1>3

LEMMA AgainstInv == Evidence!ConstantsOK /\ EvidenceInv /\ Evidence!Against => Evidence!ForkIsFork'
<1> SUFFICES ASSUME Evidence!ConstantsOK, EvidenceInv, Evidence!Against PROVE Evidence!ForkIsFork'
  OBVIOUS
<1>1. /\ bundle \in Evidence!Bundle /\ earlier \in Evidence!Bundle
      /\ bundle' = bundle /\ earlier' = earlier
      /\ outcome' = Evidence!compare_against(bundle, earlier)
      /\ evidence_code' = IF outcome'.result = "fork_detected"
                            THEN Evidence!verdict_exit_code("TAMPERED")
                          ELSE Evidence!verdict_exit_code(bundle.verdict)
  BY DEF Evidence!Against, EvidenceInv, Evidence!End
<1> DEFINE a == Heads(bundle)
<1> DEFINE b == Heads(earlier)
<1> USE DEF Heads
<1>2. CASE outcome'.result = "fork_detected"
  <2>1. /\ bundle.verdict = "VALID" /\ earlier.verdict = "VALID"
        /\ bundle.genesis = earlier.genesis /\ Evidence!Forks(a, b) # {}
        /\ outcome'.position = Evidence!LowestOf(Evidence!Forks(a, b))
    BY <1>1, <1>2 DEF Evidence!compare_against, Evidence!Outcome
  <2>2. bundle \in Evidence!Valid /\ earlier \in Evidence!Valid
    BY <1>1, <2>1, ComparedValid
  <2>3. /\ ~Evidence!Grew(bundle, earlier)
        /\ \E p \in 1 .. outcome'.position : bundle.journal[p] # earlier.journal[p]
    BY <2>1, <2>2, ForkShows
  <2>4. evidence_code' = 1
    BY <1>1, <1>2 DEF Evidence!verdict_exit_code
  <2> QED
    BY <1>1, <1>2, <2>1, <2>3, <2>4 DEF Evidence!ForkIsFork, Evidence!Grew
<1>3. CASE outcome'.result = "consistent"
  <2>1. /\ bundle.verdict = "VALID" /\ earlier.verdict = "VALID"
        /\ bundle.genesis = earlier.genesis /\ Evidence!Forks(a, b) = {}
        /\ Evidence!Shared(a, b) # {}
    BY <1>1, <1>3 DEF Evidence!compare_against, Evidence!Outcome
  <2>2. bundle \in Evidence!Valid /\ earlier \in Evidence!Valid
    BY <1>1, <2>1, ComparedValid
  <2> QED
    BY <1>1, <1>3, <2>1, <2>2, ConsistentShares DEF Evidence!ForkIsFork
<1>4. CASE outcome'.result \notin {"fork_detected", "consistent"}
  BY <1>1, <1>4 DEF Evidence!ForkIsFork
<1> QED
  BY <1>2, <1>3, <1>4

LEMMA EvidenceStep ==
  Evidence!ConstantsOK /\ EvidenceInv /\ [Evidence!Next]_evidence => EvidenceInv'
<1> SUFFICES ASSUME Evidence!ConstantsOK, EvidenceInv, [Evidence!Next]_evidence PROVE EvidenceInv'
  OBVIOUS
<1>1. CASE Evidence!Against
  BY <1>1, AgainstInv DEF Evidence!Against, Evidence!End, EvidenceInv
<1>2. CASE Evidence!Start
  BY <1>2 DEF Evidence!Start, EvidenceInv, Evidence!ForkIsFork
<1>3. CASE Evidence!Read
  BY <1>3 DEF Evidence!Read, EvidenceInv, Evidence!ForkIsFork
<1>4. CASE \/ Evidence!Unreadable \/ Evidence!Verify \/ Evidence!Refuse
           \/ Evidence!Why \/ Evidence!Tables \/ Evidence!Export
  <2>1. outcome = None /\ outcome' = None /\ ev' = "ended"
    BY <1>4 DEF EvidenceInv, Evidence!Unreadable, Evidence!Verify, Evidence!Refuse,
              Evidence!Why, Evidence!Tables, Evidence!Export, Evidence!End
  <2> QED
    BY <2>1 DEF EvidenceInv, Evidence!ForkIsFork
<1>5. CASE UNCHANGED evidence
  BY <1>5 DEF evidence, EvidenceInv, Evidence!ForkIsFork, Evidence!Grew
<1> QED
  BY <1>1, <1>2, <1>3, <1>4, <1>5 DEF Evidence!Next, Evidence!Work

(* FORK only ever accuses two VALID bundles that hold two histories of one *)
(* journal, and `consistent` means they hold the same up to the last       *)
(* position of both (compare_against), in any run of the program.          *)
THEOREM ForksAreForks == Spec => []ForkIsFork
<1>1. Init => EvidenceInv
  BY EvidenceInit DEF Init
<1>2. EvidenceInv /\ [Next]_vars => EvidenceInv'
  BY Constants, HandlerSteps, EvidenceStep
<1>3. EvidenceInv => ForkIsFork
  BY DEF EvidenceInv, ForkIsFork
<1> QED
  BY <1>1, <1>2, <1>3, PTL DEF Spec

----------------------------------------------------------------------------
(* What is proved of the connector alone, in a module of the same          *)
(* definitions.                                                            *)
Connector == INSTANCE McpConnectorProofs WITH asking <- open, code <- mcp_code

LEMMA ConnectorSame ==
  /\ Mcp!ConstantsOK => Connector!ConstantsOK
  /\ Mcp!Init => Connector!Init
  /\ Connector!SaidIsSo => Mcp!SaidIsSo
<1>1. Mcp!ConstantsOK => Connector!ConstantsOK
  BY DEF Mcp!ConstantsOK, Connector!ConstantsOK, Mcp!content, Connector!content, Mcp!source_id,
      Connector!source_id, Mcp!Edited, Connector!Edited, Mcp!Withdrawn, Connector!Withdrawn,
      Mcp!Another, Connector!Another
<1>2. Mcp!Init => Connector!Init
  BY DEF Mcp!Init, Connector!Init
<1>3. Connector!SaidIsSo => Mcp!SaidIsSo
  BY DEF Mcp!SaidIsSo, Connector!SaidIsSo, Mcp!At, Connector!At, Mcp!source_id,
      Connector!source_id, Mcp!content, Connector!content, Mcp!Edited, Connector!Edited,
      Mcp!Withdrawn, Connector!Withdrawn, Mcp!Changing, Connector!Changing
<1> QED
  BY <1>1, <1>2, <1>3

LEMMA ConnectorTools == Mcp!tools_call => Connector!tools_call
<1>1. ASSUME NEW tool, NEW incomplete, Mcp!Tool(tool, incomplete)
      PROVE  Connector!Tool(tool, incomplete)
  BY <1>1 DEF Mcp!Tool, Connector!Tool, Mcp!Told, Connector!Told, Mcp!Changing, Connector!Changing
<1> QED
  BY <1>1 DEF Mcp!tools_call, Connector!tools_call, Mcp!tool_incident, Connector!tool_incident,
      Mcp!tool_freshness, Connector!tool_freshness, Mcp!tool_autopilot_gaps,
      Connector!tool_autopilot_gaps, Mcp!tool_autopilot_generate,
      Connector!tool_autopilot_generate, Mcp!tool_autopilot_summary,
      Connector!tool_autopilot_summary, Mcp!tool_suggest_capture,
      Connector!tool_suggest_capture, Mcp!tool_context, Connector!tool_context,
      Mcp!tool_feedback, Connector!tool_feedback

LEMMA ConnectorStep == [Mcp!Next]_mcp => [Connector!Next]_(Connector!vars)
<1>1. UNCHANGED mcp => UNCHANGED Connector!vars
  BY DEF mcp, Connector!vars, Connector!agent
<1>2. /\ Mcp!parse_cli => Connector!parse_cli
      /\ Mcp!validate_connection => Connector!validate_connection
      /\ Mcp!InputEnds => Connector!InputEnds
  BY DEF Mcp!parse_cli, Connector!parse_cli, Mcp!validate_connection,
      Connector!validate_connection, Mcp!InputEnds, Connector!InputEnds, Mcp!End, Connector!End,
      Mcp!agent, Connector!agent, Mcp!Idle, Connector!Idle
<1>3. Mcp!LoadKey => Connector!LoadKey
  BY DEF Mcp!LoadKey, Connector!LoadKey, Mcp!End, Connector!End, Mcp!agent, Connector!agent,
      Mcp!File, Connector!File, Mcp!load_docbrain_env, Connector!load_docbrain_env,
      Mcp!Accepted, Connector!Accepted, Mcp!file_may_set, Connector!file_may_set, Mcp!Variable,
      Connector!Variable, Mcp!DOCBRAIN_VARIABLES, Connector!DOCBRAIN_VARIABLES, Mcp!Foreign,
      Connector!Foreign, Mcp!Unusable, Connector!Unusable
<1>4. /\ Mcp!handle_request => Connector!handle_request
      /\ Mcp!Call => Connector!Call
  BY DEF Mcp!handle_request, Connector!handle_request, Mcp!Call, Connector!Call, Mcp!Idle,
      Connector!Idle, Mcp!Line, Connector!Line, Mcp!Told, Connector!Told, Mcp!Use,
      Connector!Use, Mcp!Reading, Connector!Reading, Mcp!Changing, Connector!Changing
<1>5. Mcp!Save => Connector!Save
  BY DEF Mcp!Save, Connector!Save, Mcp!tool_annotate, Connector!tool_annotate,
      Mcp!tool_commit_capture, Connector!tool_commit_capture, Mcp!tool_revise,
      Connector!tool_revise, Mcp!Sends, Connector!Sends, Mcp!Idle, Connector!Idle, Mcp!Revision,
      Connector!Revision, Mcp!Source, Connector!Source, Mcp!At, Connector!At, Mcp!source_id,
      Connector!source_id, Mcp!Edited, Connector!Edited, Mcp!Withdrawn, Connector!Withdrawn
<1>6. Mcp!create_fragment => Connector!create_fragment
  BY DEF Mcp!create_fragment, Connector!create_fragment, Mcp!Refusals, Connector!Refusals,
      Mcp!Unknown, Connector!Unknown, Mcp!Taken, Connector!Taken, Mcp!Done, Connector!Done,
      Mcp!Put, Connector!Put, Mcp!At, Connector!At, Mcp!source_id, Connector!source_id,
      Mcp!content, Connector!content, Mcp!Told, Connector!Told, Mcp!api_request,
      Connector!api_request, Mcp!describe_refusal, Connector!describe_refusal
<1>7. /\ Mcp!NewQuestion => Connector!NewQuestion
      /\ Mcp!Ask => Connector!Ask
      /\ Mcp!tool_ask => Connector!tool_ask
      /\ Mcp!Obey => Connector!Obey
      /\ Mcp!Expire => Connector!Expire
  BY DEF Mcp!NewQuestion, Connector!NewQuestion, Mcp!Ask, Connector!Ask, Mcp!tool_ask,
      Connector!tool_ask, Mcp!Obey, Connector!Obey, Mcp!Expire, Connector!Expire, Mcp!Idle,
      Connector!Idle, Mcp!Question, Connector!Question, Mcp!Told, Connector!Told, Mcp!Dead,
      Connector!Dead, Mcp!names_a_dead_session, Connector!names_a_dead_session
<1>8. /\ Mcp!Kill => Connector!Kill
      /\ Mcp!Elsewhere => Connector!Elsewhere
  BY DEF Mcp!Kill, Connector!Kill, Mcp!Elsewhere, Connector!Elsewhere, Mcp!Done, Connector!Done,
      Mcp!Put, Connector!Put, Mcp!At, Connector!At, Mcp!source_id, Connector!source_id,
      Mcp!content, Connector!content, Mcp!Source, Connector!Source, Mcp!Another,
      Connector!Another
<1> QED
  BY <1>1, <1>2, <1>3, <1>4, <1>5, <1>6, <1>7, <1>8, ConnectorTools
  DEF Mcp!Next, Connector!Next, Mcp!Serve, Connector!Serve

(* What the connector tells an agent of its captures, revisions and        *)
(* ratings is so at the server (describe_refusal), in any run.             *)
THEOREM WhatIsSaidIsSo == Spec => []SaidIsSo
<1>1. Init => Connector!IInv
  BY Constants, ConnectorSame, Connector!InitInv DEF Init
<1>2. Connector!IInv /\ [Next]_vars => Connector!IInv'
  BY Constants, ConnectorSame, ConnectorStep, HandlerSteps, Connector!StepInv
<1>3. Connector!IInv => SaidIsSo
  <2> SUFFICES ASSUME Connector!IInv PROVE SaidIsSo
    OBVIOUS
  <2>1. Connector!SaidIsSo
    BY DEF Connector!IInv, Connector!KnowsOK, Connector!ToldOK, Connector!SaidIsSo
  <2> QED
    BY <2>1, ConnectorSame DEF SaidIsSo
<1> QED
  BY <1>1, <1>2, <1>3, PTL DEF Spec

----------------------------------------------------------------------------
(* A draft is flagged for claims.                                          *)
LEMMA FlagsAreClaims == ASSUME NEW a \in Draft!Artifact PROVE Draft!Flags(a) \in SUBSET Claim
<1>1. a.freshness \in SUBSET Claim \/ a.freshness = None
  BY DEF Draft!Artifact
<1> QED
  BY <1>1, Zenon DEF Draft!Flags

(* The drafts that were made are no more than the rounds there may be.     *)
LEMMA DraftType ==
  Draft!ConstantsOK /\ DraftInv /\ Draft!TypeOK /\ [Draft!Next]_draft => Draft!TypeOK'
<1> SUFFICES ASSUME Draft!ConstantsOK, DraftInv, Draft!TypeOK, [Draft!Next]_draft
             PROVE  Draft!TypeOK'
  OBVIOUS
<1>0. MaxRounds \in Nat
  BY DEF Draft!ConstantsOK
<1>1. CASE Draft!Start
  BY <1>1 DEF Draft!Start, Draft!End, Draft!TypeOK
<1>2. CASE Draft!Unusable \/ Draft!Send \/ Draft!Elsewhere
  BY <1>2 DEF Draft!Unusable, Draft!Send, Draft!Elsewhere, Draft!End, Draft!TypeOK
<1>3. ASSUME NEW a \in Draft!Answers, answered.count <= MaxRounds, answered.count \in Nat
      PROVE  [artifact |-> a, count |-> answered.count + 1]
               \in [artifact : Draft!Artifact \cup {None}, count : 0 .. MaxRounds + 1]
  BY <1>0, <1>3 DEF Draft!Answers
<1>4. CASE Draft!RequestFails
  <2>1. answered.count \in Nat /\ answered.count <= MaxRounds
    BY <1>0, <1>4 DEF Draft!RequestFails, DraftInv, CountOK
  <2>2. answered' \in [artifact : Draft!Artifact \cup {None}, count : 0 .. MaxRounds + 1]
    BY <1>3, <1>4, <2>1 DEF Draft!RequestFails, Draft!TypeOK
  <2> QED
    BY <1>4, <2>2 DEF Draft!RequestFails, Draft!End, Draft!TypeOK
<1>5. CASE Draft!FirstDraft
  <2>1. answered.count \in Nat /\ answered.count <= MaxRounds
    BY <1>0, <1>5 DEF Draft!FirstDraft, DraftInv, CountOK
  <2>2. answered' \in [artifact : Draft!Artifact \cup {None}, count : 0 .. MaxRounds + 1]
    BY <1>3, <1>5, <2>1 DEF Draft!FirstDraft, Draft!Answered
  <2> QED
    BY <1>5, <2>2 DEF Draft!FirstDraft, Draft!Answered, Draft!Answers, Draft!TypeOK
<1>6. CASE Draft!Review
  <2>1. Draft!Flags(artifact) \in SUBSET Claim
    BY <1>6, FlagsAreClaims DEF Draft!Review, DraftInv, HeldOK
  <2>2. Draft!regen_flag_keys(Draft!Flags(artifact)) \subseteq {Cited[c] : c \in Claim}
    BY <2>1 DEF Draft!regen_flag_keys
  <2> QED
    BY <1>6, <2>2 DEF Draft!Review, Draft!TypeOK
<1>7. CASE Draft!NextDraft
  <2>1. /\ answered.count \in Nat /\ answered.count <= MaxRounds
        /\ round + 1 \in 1 .. MaxRounds + 1
    BY <1>0, <1>7 DEF Draft!NextDraft, DraftInv, CountOK
  <2>2. answered' \in [artifact : Draft!Artifact \cup {None}, count : 0 .. MaxRounds + 1]
    BY <1>3, <1>7, <2>1 DEF Draft!NextDraft, Draft!Answered
  <2> QED
    BY <1>7, <2>1, <2>2 DEF Draft!NextDraft, Draft!Answered, Draft!Answers, Draft!TypeOK
<1>8. CASE Draft!Emit
  <2>1. Draft!Flags(artifact) \in SUBSET Claim
    BY <1>8, FlagsAreClaims DEF Draft!Emit, DraftInv, HeldOK
  <2>2. Draft!print_generate_summary(artifact)
          \in [unresolved : SUBSET Claim, trust : {"number", "unavailable"}]
    BY <2>1 DEF Draft!print_generate_summary, Draft!render_trust_summary
  <2> QED
    BY <1>8, <2>2 DEF Draft!Emit, Draft!End, Draft!TypeOK
<1>9. CASE Draft!WriteFails
  BY <1>9 DEF Draft!WriteFails, Draft!End, Draft!TypeOK
<1>10. CASE UNCHANGED draft
  BY <1>10 DEF draft, Draft!TypeOK
<1> QED
  BY <1>1, <1>2, <1>4, <1>5, <1>6, <1>7, <1>8, <1>9, <1>10
  DEF Draft!Next, Draft!Command, Draft!Work

LEMMA ClaimsType == Claims!TypeOK /\ [Claims!Next]_claims => Claims!TypeOK'
<1> SUFFICES ASSUME Claims!TypeOK, [Claims!Next]_claims PROVE Claims!TypeOK'
  OBVIOUS
<1>1. CASE Claims!Start
  BY <1>1 DEF Claims!Start, Claims!TypeOK
<1>2. CASE Claims!ReadDiff \/ Claims!Unanswered
  BY <1>2 DEF Claims!ReadDiff, Claims!Unanswered, Claims!End, Claims!EXIT_CLI_ERROR, Claims!TypeOK
<1>3. CASE Claims!Name
  <2>1. Claims!derive(place) \in Claims!Repo \cup {None}
    BY DEF Claims!derive, Claims!name_via_alias, Claims!name
  <2> QED
    BY <1>3, <2>1 DEF Claims!Name, Claims!End, Claims!EXIT_CLI_ERROR, Claims!TypeOK
<1>4. CASE Claims!Decide
  <2>1. claims_code' \in {0, 2, 3}
    BY <1>4 DEF Claims!Decide, Claims!End, Claims!EXIT_CLI_ERROR, Claims!exit_code
  <2> QED
    BY <1>4, <2>1 DEF Claims!Decide, Claims!End, Claims!TypeOK
<1>5. CASE UNCHANGED claims
  BY <1>5 DEF claims, Claims!TypeOK
<1> QED
  BY <1>1, <1>2, <1>3, <1>4, <1>5 DEF Claims!Next, Claims!Work

LEMMA WaitType == Wait!ConstantsOK /\ Wait!TypeOK /\ [Wait!Next]_wait => Wait!TypeOK'
<1> SUFFICES ASSUME Wait!ConstantsOK, Wait!TypeOK, [Wait!Next]_wait PROVE Wait!TypeOK'
  OBVIOUS
<1>0. CONNECT_WAIT \in Nat /\ Slowest \in Nat /\ MaxWritten \in Nat \ {0}
  BY DEF Wait!ConstantsOK
<1>1. CASE Wait!Start
  <2>1. grant' \in [status : Wait!Status, written : 0 .. MaxWritten]
    BY <1>0, <1>1 DEF Wait!Start
  <2> QED
    BY <1>1, <2>1 DEF Wait!Start, Wait!TypeOK
<1>2. CASE Wait!CaptureBefore
  <2>1. before' \in Wait!Connection
    BY <1>0, <1>2 DEF Wait!CaptureBefore, Wait!connection_of, Wait!Connection, Wait!Unreachable,
                      Wait!TypeOK
  <2>2. misled' \in BOOLEAN
    BY <1>2 DEF Wait!CaptureBefore
  <2> QED
    BY <1>2, <2>1, <2>2 DEF Wait!CaptureBefore, Wait!TypeOK
<1>3. CASE Wait!InitLink
  <2>1. \A t \in 0 .. Slowest :
          t \in 0 .. CONNECT_WAIT + 2 * Slowest /\ t + CONNECT_WAIT \in 0 .. CONNECT_WAIT + Slowest
    BY <1>0
  <2>2. time' \in 0 .. CONNECT_WAIT + 2 * Slowest /\ deadline' \in 0 .. CONNECT_WAIT + Slowest
    BY <1>3, <2>1 DEF Wait!InitLink
  <2> QED
    BY <1>3, <2>2 DEF Wait!InitLink, Wait!TypeOK
<1>4. CASE Wait!Poll
  <2>1. time' \in 0 .. CONNECT_WAIT + 2 * Slowest
    BY <1>0, <1>4 DEF Wait!Poll, Wait!TypeOK
  <2>2. at' \in {"waiting", "connected", "unknowable"} /\ wait_code' \in {wait_code, 0}
    BY <1>4 DEF Wait!Poll, Wait!connect_wait_state
  <2> QED
    BY <1>4, <2>1, <2>2 DEF Wait!Poll, Wait!TypeOK, Wait!Ended
<1>5. CASE Wait!Refused \/ Wait!TimeOut
  BY <1>5 DEF Wait!Refused, Wait!TimeOut, Wait!TypeOK, Wait!Ended
<1>6. ASSUME NEW status \in Wait!Status, Wait!Write(status)
      PROVE  grant' \in [status : Wait!Status, written : 0 .. MaxWritten]
  <2>1. grant.written + 1 \in 0 .. MaxWritten
    BY <1>0, <1>6 DEF Wait!Write, Wait!TypeOK
  <2> QED
    BY <1>6, <2>1 DEF Wait!Write
<1>7. CASE Wait!Dance
  <2>1. grant' \in [status : Wait!Status, written : 0 .. MaxWritten]
    BY <1>6, <1>7 DEF Wait!Dance, Wait!Status
  <2> QED
    BY <1>7, <2>1 DEF Wait!Dance, Wait!TypeOK
<1>8. CASE Wait!Refresh
  <2>1. grant' \in [status : Wait!Status, written : 0 .. MaxWritten]
    BY <1>6, <1>8 DEF Wait!Refresh, Wait!Status
  <2>2. misled' \in BOOLEAN
    BY <1>8 DEF Wait!Refresh
  <2> QED
    BY <1>8, <2>1, <2>2 DEF Wait!Refresh, Wait!TypeOK
<1>9. CASE Wait!Revoke
  BY <1>9 DEF Wait!Revoke, Wait!TypeOK, Wait!Status
<1>10. CASE UNCHANGED wait
  BY <1>10 DEF wait, Wait!TypeOK
<1> QED
  BY <1>1, <1>2, <1>3, <1>4, <1>5, <1>7, <1>8, <1>9, <1>10
  DEF Wait!Next, Wait!Command, Wait!Work
(* A name is one of a set of positions; what is shown is in the range.     *)
LEMMA LowestPosition ==
  ASSUME NEW T \in SUBSET (1 .. MaxLength), T # {}, MaxLength \in Nat
  PROVE  Evidence!LowestOf(T) \in 1 .. MaxLength
<1>1. T \in SUBSET Nat
  OBVIOUS
<1> QED
  BY <1>1, LowestExists

LEMMA ComparedType ==
  ASSUME Evidence!ConstantsOK, NEW this \in Evidence!Bundle, NEW that \in Evidence!Bundle
  PROVE  Evidence!compare_against(this, that) \in
           [result : {"consistent", "fork_detected", "not_comparable",
                      "different_journals", "skipped"},
            position : 1 .. MaxLength \cup {None}]
<1> DEFINE F == Evidence!Forks(Heads(this), Heads(that))
<1>1. CASE this.verdict = "VALID" /\ that.verdict = "VALID"
  <2>1. this \in Evidence!Valid /\ that \in Evidence!Valid
    BY <1>1, ComparedValid
  <2>2. /\ this.start \in Nat /\ this.end \in Nat /\ this.end <= MaxLength /\ MaxLength \in Nat
    BY <2>1, ValidBundle DEF Evidence!ConstantsOK
  <2>3. F \in SUBSET (1 .. MaxLength)
    BY <2>2, ForkPositions
  <2>4. F # {} => Evidence!LowestOf(F) \in 1 .. MaxLength
    BY <2>2, <2>3, LowestPosition
  <2> QED
    BY <2>4 DEF Heads, Evidence!compare_against, Evidence!Outcome
<1>2. CASE ~(this.verdict = "VALID" /\ that.verdict = "VALID")
  BY <1>2 DEF Evidence!compare_against, Evidence!Outcome
<1> QED
  BY <1>1, <1>2

LEMMA EvidenceType ==
  /\ Evidence!ConstantsOK /\ EvidenceInv /\ Evidence!TypeOK /\ [Evidence!Next]_evidence
  => Evidence!TypeOK'
<1> SUFFICES ASSUME Evidence!ConstantsOK, EvidenceInv, Evidence!TypeOK, [Evidence!Next]_evidence
             PROVE  Evidence!TypeOK'
  OBVIOUS
<1>0. \A verdict : Evidence!verdict_exit_code(verdict) \in 0 .. 3
  BY DEF Evidence!verdict_exit_code
<1>1. CASE Evidence!Start
  <2>1. sub' \in [sub : {"verify", "against", "why", "tables", "export"},
                   selector : Evidence!Selector]
    BY <1>1 DEF Evidence!Start, Evidence!Selector
  <2> QED
    BY <1>1, <2>1 DEF Evidence!Start, Evidence!TypeOK
<1>2. CASE Evidence!Unreadable \/ Evidence!Verify \/ Evidence!Refuse
  <2>1. \/ evidence_code' = 3
        \/ \E verdict \in {bundle.verdict, "CANNOT VERIFY"} :
             evidence_code' = Evidence!verdict_exit_code(verdict)
    BY <1>2 DEF Evidence!Unreadable, Evidence!Verify, Evidence!Refuse, Evidence!End,
                Evidence!EXIT_CLI_ERROR
  <2>2. ASSUME evidence_code' = 3 PROVE evidence_code' \in 0 .. 3
    BY <2>2
  <2>3. ASSUME NEW verdict, evidence_code' = Evidence!verdict_exit_code(verdict)
        PROVE  evidence_code' \in 0 .. 3
    BY <1>0, <2>3
  <2>4. evidence_code' \in 0 .. 3
    BY <2>1, <2>2, <2>3
  <2> QED
    BY <1>2, <2>4 DEF Evidence!Unreadable, Evidence!Verify, Evidence!Refuse, Evidence!End,
                      Evidence!TypeOK
<1>3. CASE Evidence!Read
  BY <1>3 DEF Evidence!Read, Evidence!TypeOK
<1>4. CASE Evidence!Against
  <2>1. bundle \in Evidence!Bundle /\ earlier \in Evidence!Bundle
    BY <1>4 DEF Evidence!Against, EvidenceInv
  <2>2. evidence_code' \in 0 .. 3
    BY <1>0, <1>4 DEF Evidence!Against, Evidence!End
  <2> QED
    BY <1>4, <2>1, <2>2, ComparedType DEF Evidence!Against, Evidence!End, Evidence!TypeOK
<1>5. bundle.verdict = "VALID" /\ ev = "verified" =>
        DOMAIN Evidence!read_records(bundle) \subseteq 1 .. MaxLength
  <2> SUFFICES ASSUME bundle.verdict = "VALID", ev = "verified"
               PROVE  DOMAIN Evidence!read_records(bundle) \subseteq 1 .. MaxLength
    OBVIOUS
  <2>1. bundle \in Evidence!Valid
    BY ComparedValid DEF EvidenceInv
  <2>2. /\ bundle.start \in Nat /\ bundle.end \in Nat
        /\ bundle.end <= MaxLength /\ MaxLength \in Nat
    BY <2>1, ValidBundle DEF Evidence!ConstantsOK
  <2> QED
    BY <2>2 DEF Evidence!read_records
<1>6. CASE Evidence!Why
  <2> DEFINE records == Evidence!read_records(bundle)
  <2>1. ASSUME NEW p \in DOMAIN records
        PROVE  Evidence!render_why(p, records) \subseteq DOMAIN records
    BY DEF Evidence!render_why, Evidence!premise_history_lines
  <2>2. Evidence!find_record(records, sub.selector) \subseteq DOMAIN records
    BY DEF Evidence!find_record
  <2>3. rendered' \subseteq DOMAIN records
    <3> HIDE DEF records
    <3> QED
      BY <1>6, <2>1, <2>2 DEF Evidence!Why, records
  <2>4. rendered' \subseteq 1 .. MaxLength
    BY <1>5, <1>6, <2>3 DEF Evidence!Why
  <2>5. evidence_code' = 0
    BY <1>6 DEF Evidence!Why, Evidence!End
  <2> QED
    BY <1>6, <2>4, <2>5 DEF Evidence!Why, Evidence!End, Evidence!TypeOK
<1>7. CASE Evidence!Tables
  <2>1. rendered' \subseteq 1 .. MaxLength
    BY <1>5, <1>7 DEF Evidence!Tables, Evidence!TypeOK
  <2> QED
    BY <1>7, <2>1 DEF Evidence!Tables, Evidence!End, Evidence!EXIT_CLI_ERROR, Evidence!TypeOK
<1>8. CASE Evidence!Export
  BY <1>8 DEF Evidence!Export, Evidence!End, Evidence!TypeOK
<1>9. CASE UNCHANGED evidence
  BY <1>9 DEF evidence, Evidence!TypeOK
<1> QED
  BY <1>1, <1>2, <1>3, <1>4, <1>6, <1>7, <1>8, <1>9 DEF Evidence!Next, Evidence!Work
----------------------------------------------------------------------------
(* The statuses the handlers end with.                                     *)
Statuses == {draft_code, claims_code, evidence_code, ask_code, wait_code} \ {None}

LEMMA HandlerStatuses ==
  ASSUME Draft!TypeOK, Claims!TypeOK, Evidence!TypeOK, Question!TypeOK, Wait!TypeOK
  PROVE  Statuses \subseteq 0 .. 3
<1>1. draft_code \in {None} \cup 0 .. 3
  BY DEF Draft!TypeOK
<1>2. claims_code \in {None} \cup 0 .. 3
  BY DEF Claims!TypeOK
<1>3. evidence_code \in {None} \cup 0 .. 3
  BY DEF Evidence!TypeOK
<1>4. ask_code \in {None} \cup 0 .. 3
  BY DEF Question!TypeOK
<1>5. wait_code \in {None} \cup 0 .. 3
  BY DEF Wait!TypeOK
<1> QED
  BY <1>1, <1>2, <1>3, <1>4, <1>5 DEF Statuses

LEMMA FrontSteps ==
  ASSUME [Next]_vars
  PROVE  \/ Line!Run \/ Line!HandOver \/ UNCHANGED line
         \/ \E status \in Statuses : Line!Exit(status)
<1>1. Finish => \E status \in Statuses : Line!Exit(status)
  BY DEF Finish, Statuses
<1> QED
  BY <1>1 DEF Next, Docbrain, Meanwhile, HandOver, Handler, ExceptMcp, vars

LEMMA EitherWay ==
  /\ {(command \in Line!Changing)} \subseteq BOOLEAN /\ {FALSE} \subseteq BOOLEAN
  /\ {FALSE, (command \in Line!Changing)} \subseteq BOOLEAN
OBVIOUS

(* The type of the front, in the parts a step may change.                  *)
Fronts == {"off", "parsed", "loaded", "dispatched", "handed", "sent", "ended"}

LEMMA LineParts ==
  ASSUME front' \in Fronts, code' \in {None, 101} \cup 0 .. 3,
         command' \in Line!Command \cup {None}, changed' \in BOOLEAN,
         file' \in {"untouched", "written", "torn"}, said' \in {None, "result", "nothing new"}
  PROVE  Line!TypeOK'
BY DEF Line!TypeOK, Fronts

LEMMA SettledType ==
  ASSUME Line!TypeOK, front' \in Fronts, UNCHANGED code \/ code' \in {101} \cup 0 .. 3,
         UNCHANGED <<command, changed, file, said>>
  PROVE  Line!TypeOK'
<1>1. code' \in {None, 101} \cup 0 .. 3
  BY DEF Line!TypeOK
<1>2. /\ command' \in Line!Command \cup {None} /\ changed' \in BOOLEAN
      /\ file' \in {"untouched", "written", "torn"} /\ said' \in {None, "result", "nothing new"}
  BY DEF Line!TypeOK
<1> QED
  BY <1>1, <1>2, LineParts

LEMMA ReceiveType ==
  ASSUME Line!TypeOK, NEW c, NEW answers, NEW done, Line!Receive(c, answers, done)
  PROVE  Line!TypeOK'
<1>1. PICK sent \in answers :
        /\ changed' \in Line!Made(sent)
        /\ said' = IF sent \notin done THEN None
                   ELSE IF sent = "conflict" THEN "nothing new" ELSE "result"
        /\ Line!End(IF sent \in done THEN 0 ELSE 1)
  BY DEF Line!Receive
<1>2. changed' \in BOOLEAN
  <2>1. \/ Line!Made(sent) = {(command \in Line!Changing)}
        \/ Line!Made(sent) = {FALSE, (command \in Line!Changing)}
        \/ Line!Made(sent) = {FALSE}
    BY DEF Line!Made
  <2>2. changed' \in Line!Made(sent)
    BY <1>1
  <2>3. CASE Line!Made(sent) = {(command \in Line!Changing)}
    BY <2>2, <2>3, EitherWay, Zenon
  <2>4. CASE Line!Made(sent) = {FALSE, (command \in Line!Changing)}
    BY <2>2, <2>4, EitherWay, Zenon
  <2>5. CASE Line!Made(sent) = {FALSE}
    BY <2>2, <2>5, EitherWay, Zenon
  <2> QED
    BY <2>1, <2>3, <2>4, <2>5, Zenon
<1>3. said' \in {None, "result", "nothing new"}
  BY <1>1
<1>4. front' \in Fronts /\ code' \in {0, 1}
  BY <1>1 DEF Line!End, Fronts
<1>6. code' \in {None, 101} \cup 0 .. 3
  BY <1>4
<1>5. command' \in Line!Command \cup {None} /\ file' \in {"untouched", "written", "torn"}
  BY DEF Line!TypeOK, Line!Receive
<1> QED
  BY <1>2, <1>3, <1>4, <1>5, <1>6, LineParts

LEMMA AnsweredReceives ==
  ASSUME Line!Answered
  PROVE  Line!attest_export \/ \E c, answers, done : Line!Receive(c, answers, done)
BY DEF Line!Answered, Line!token_create, Line!token_list, Line!token_revoke, Line!trace_query,
       Line!submit_quick_feedback, Line!submit_source_feedback, Line!submit_feedback,
       Line!show_freshness, Line!show_analytics, Line!autopilot_summary, Line!autopilot_gaps,
       Line!autopilot_analyze, Line!autopilot_drafts, Line!autopilot_generate,
       Line!autopilot_dismiss, Line!autopilot_publish, Line!admin_access_coverage,
       Line!admin_ingest_trigger, Line!license_show, Line!attest_show, Line!ci_analyze,
       Line!ci_deploy_capture, Line!fetch_kf_schema, Line!validate, Line!health_findings,
       Line!show_version, Line!handle_connect_list

LEMMA LineType ==
  ASSUME Line!TypeOK, Statuses \subseteq 0 .. 3,
         \/ Line!Run \/ Line!HandOver \/ UNCHANGED line
         \/ \E status \in Statuses : Line!Exit(status)
  PROVE  Line!TypeOK'
<1>1. CASE \/ Line!UsageError \/ Line!LoadEnv \/ Line!BadProfile \/ Line!Resolve
           \/ Line!Refuse \/ Line!Panic \/ Line!Send \/ Line!HandOver \/ UNCHANGED line
  <2>1. front' \in Fronts /\ UNCHANGED <<command, changed, file, said>>
    BY <1>1 DEF Line!UsageError, Line!LoadEnv, Line!BadProfile, Line!Resolve, Line!Refuse,
                Line!Panic, Line!Send, Line!HandOver, Line!End, line, Line!TypeOK, Fronts
  <2>2. UNCHANGED code \/ code' \in {101} \cup 0 .. 3
    BY <1>1 DEF Line!UsageError, Line!LoadEnv, Line!BadProfile, Line!Resolve, Line!Refuse,
                Line!Panic, Line!Send, Line!HandOver, Line!End, line
  <2> QED
    BY <2>1, <2>2, SettledType
<1>2. CASE Line!Parse \/ Line!Valid
  <2>1. /\ front' \in Fronts /\ command' \in Line!Command \cup {None} /\ changed' \in BOOLEAN
        /\ file' \in {"untouched", "written", "torn"} /\ said' \in {None, "result", "nothing new"}
    BY <1>2 DEF Line!Parse, Line!Valid, Line!End, Line!TypeOK, Fronts
  <2>2. code' = code \/ code' = 0
    BY <1>2 DEF Line!Parse, Line!Valid, Line!End
  <2>3. code' \in {None, 101} \cup 0 .. 3
    <3>1. code \in {None, 101} \cup 0 .. 3
      BY Zenon DEF Line!TypeOK
    <3>2. 0 \in 0 .. 3
      OBVIOUS
    <3> QED
      BY <2>2, <3>1, <3>2, Zenon
  <2> QED
    BY <2>1, <2>3, LineParts
<1>3. ASSUME NEW status \in Statuses, Line!Exit(status) PROVE Line!TypeOK'
  <2>1. front' \in Fronts /\ code' \in 0 .. 3 /\ UNCHANGED <<command, changed, file, said>>
    BY <1>3 DEF Line!Exit, Line!End, Fronts
  <2> QED
    BY <2>1, SettledType
<1>4. CASE Line!attest_export /\ ~ \E c, answers, done : Line!Receive(c, answers, done)
  <2>1. /\ front' \in Fronts /\ command' \in Line!Command \cup {None} /\ changed' \in BOOLEAN
        /\ file' \in {"untouched", "written", "torn"} /\ said' \in {None, "result", "nothing new"}
    BY <1>4 DEF Line!attest_export, Line!End, Line!TypeOK, Fronts
  <2>2. code' \in {None, 101} \cup 0 .. 3
    BY <1>4 DEF Line!attest_export, Line!End
  <2> QED
    BY <2>1, <2>2, LineParts
<1>5. ASSUME NEW c, NEW answers, NEW done, Line!Receive(c, answers, done) PROVE Line!TypeOK'
  BY <1>5, ReceiveType
<1> QED
  BY <1>1, <1>2, <1>3, <1>4, <1>5, AnsweredReceives DEF Line!Run

LEMMA McpType == Mcp!ConstantsOK /\ Mcp!TypeOK /\ [Mcp!Next]_mcp => Mcp!TypeOK'
<1>1. Mcp!TypeOK <=> Connector!TypeOK
  BY DEF Mcp!TypeOK, Connector!TypeOK, Mcp!RequestType, Connector!RequestType, Mcp!Use,
      Connector!Use, Mcp!Reading, Connector!Reading, Mcp!Changing, Connector!Changing,
      Mcp!Revision, Connector!Revision, Mcp!Source, Connector!Source, Mcp!source_id,
      Connector!source_id, Mcp!content, Connector!content, Mcp!Edited, Connector!Edited,
      Mcp!Withdrawn, Connector!Withdrawn, Mcp!Another, Connector!Another, Mcp!Question,
      Connector!Question
<1>2. Mcp!TypeOK' <=> Connector!TypeOK'
  BY DEF Mcp!TypeOK, Connector!TypeOK, Mcp!RequestType, Connector!RequestType, Mcp!Use,
      Connector!Use, Mcp!Reading, Connector!Reading, Mcp!Changing, Connector!Changing,
      Mcp!Revision, Connector!Revision, Mcp!Source, Connector!Source, Mcp!source_id,
      Connector!source_id, Mcp!content, Connector!content, Mcp!Edited, Connector!Edited,
      Mcp!Withdrawn, Connector!Withdrawn, Mcp!Another, Connector!Another, Mcp!Question,
      Connector!Question
<1> QED
  BY <1>1, <1>2, ConnectorSame, ConnectorStep, Connector!StepType

(* The types, and what they rest on.                                       *)
TypeInv == TypeOK /\ DraftInv /\ EvidenceInv /\ QuestionInv

LEMMA TypesInit == Init => TypeInv
<1> SUFFICES ASSUME Init PROVE TypeInv
  OBVIOUS
<1>1. Line!TypeOK
  BY DEF Init, Line!Init, Line!TypeOK
<1>2. Draft!TypeOK
  BY Constants DEF Init, Draft!Init, Draft!TypeOK, Draft!ConstantsOK
<1>3. Claims!TypeOK
  BY DEF Init, Claims!Init, Claims!TypeOK
<1>4. Evidence!TypeOK
  BY DEF Init, Evidence!Init, Evidence!TypeOK
<1>5. Wait!TypeOK
  <2>1. Wait!Init /\ CONNECT_WAIT \in Nat /\ Slowest \in Nat /\ MaxWritten \in Nat
    BY Constants DEF Init, Wait!ConstantsOK
  <2>2. grant \in [status : Wait!Status, written : 0 .. MaxWritten]
    BY <2>1 DEF Wait!Init, Wait!Status
  <2>3. before \in Wait!Connection
    BY <2>1 DEF Wait!Init, Wait!Connection, Wait!Unreachable
  <2>4. time \in 0 .. CONNECT_WAIT + 2 * Slowest /\ deadline \in 0 .. CONNECT_WAIT + Slowest
    BY <2>1 DEF Wait!Init
  <2> QED
    BY <2>1, <2>2, <2>3, <2>4 DEF Wait!Init, Wait!TypeOK
<1>6. Mcp!TypeOK
  <2>1. Mcp!RequestType /\ session \in {None, "open"} /\ mcp_code \in {None, 0, 1, 2}
    BY DEF Init, Mcp!Init, Mcp!RequestType
  <2>2. DOMAIN store = {}
    BY DEF Init, Mcp!Init
  <2>3. knows \in [Capture -> {"no", "unsure", "saved"}]
    BY DEF Init, Mcp!Init
  <2>4. faults \in 0 .. MaxFaults
    BY Constants DEF Init, Mcp!Init, Mcp!ConstantsOK
  <2> QED
    BY <2>1, <2>2, <2>3, <2>4 DEF Init, Mcp!Init, Mcp!TypeOK
<1>7. DraftInv /\ EvidenceInv /\ QuestionInv
  BY DraftInit, EvidenceInit, QuestionInit, Constants DEF Init
<1> QED
  BY <1>1, <1>2, <1>3, <1>4, <1>5, <1>6, <1>7 DEF TypeInv, TypeOK, QuestionInv

LEMMA TypesStep == TypeInv /\ [Next]_vars => TypeInv'
<1> SUFFICES ASSUME TypeInv, [Next]_vars PROVE TypeInv'
  OBVIOUS
<1>1. DraftInv' /\ EvidenceInv' /\ QuestionInv'
  BY HandlerSteps, Constants, DraftStep, EvidenceStep, QuestionStep DEF TypeInv
<1>2. Draft!TypeOK' /\ Claims!TypeOK' /\ Evidence!TypeOK' /\ Wait!TypeOK' /\ Mcp!TypeOK'
  BY HandlerSteps, Constants, DraftType, ClaimsType, EvidenceType, WaitType, McpType
  DEF TypeInv, TypeOK
<1>3. Question!TypeOK'
  BY <1>1 DEF QuestionInv
<1>4. Line!TypeOK'
  BY FrontSteps, HandlerStatuses, LineType DEF TypeInv, TypeOK
<1> QED
  BY <1>1, <1>2, <1>3, <1>4 DEF TypeInv, TypeOK

(* Every state of either program is of the types it is modelled with,      *)
(* however many rounds, chunks, positions and captures there may be: the   *)
(* rounds of `generate` stay within --max-regen-rounds and the program's   *)
(* status is one of a handler's (run).                                     *)
THEOREM TypeCorrect == Spec => []TypeOK
<1>1. TypeInv => TypeOK
  BY DEF TypeInv
<1> QED
  BY <1>1, TypesInit, TypesStep, PTL DEF Spec
=============================================================================
