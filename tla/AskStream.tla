------------------------------ MODULE AskStream ------------------------------
(***************************************************************************)
(* `docbrain ask` and `docbrain incident` after the instance check: send   *)
(* the question, and read the answer, one document or a stream of events   *)
(* in chunks that may end anywhere (ask, handle_sse_stream and             *)
(* print_response of crates/docbrain-cli/src/main.rs).                     *)
(*                                                                         *)
(* On the wire an event is four bytes: a character of two bytes, which     *)
(* stands for its text, and the two newlines that end it.                  *)
(***************************************************************************)
EXTENDS Integers, Sequences

CONSTANTS
  Feeds,         \* streams a server may send, as sequences of events
  None

Event == {"message", "phase", "token", "answer", "unreadable", "error", "done"}

ConstantsOK == Feeds \subseteq Seq(Event) /\ None # 0

VARIABLES
  asking,        \* how far the command is
  flags,         \* its options; --evidence implies --json
  feed,          \* the events the server sends
  arrived,       \* bytes received
  buffer,        \* what each byte not yet part of a complete event decoded to
  handled,       \* what became of each event, in order
  saved,         \* are the session and the answer's sources kept for later?
  code           \* the exit status

vars == <<asking, flags, feed, arrived, buffer, handled, saved, code>>

Init ==
  /\ asking = "off"
  /\ flags = None
  /\ feed = <<>>
  /\ arrived = 0
  /\ buffer = <<>> /\ handled = <<>>
  /\ saved = FALSE
  /\ code = None

----------------------------------------------------------------------------
BytesPerEvent == 4
Wire == BytesPerEvent * Len(feed)

Text(event, whole) == [event |-> event, whole |-> whole]
Newline == Text("newline", TRUE)

(* A byte that completes the character before it adds none.                *)
Nothing == Text("nothing", TRUE)

(* A character whose bytes fall into two chunks becomes two replacement    *)
(* characters.                                                             *)
Decoded(k, from, to) ==
  LET event == feed[(k - 1) \div BytesPerEvent + 1]
      part  == (k - 1) % BytesPerEvent
  IN  CASE part = 0 -> Text(event, k < to)
        [] part = 1 -> IF k - 1 > from THEN Nothing ELSE Text(event, FALSE)
        [] OTHER -> Newline

(* Mutant of from_utf8_lossy: what a chunk begins with is lost.            *)
from_utf8_lossy_cut(from, to) == [i \in 1 .. to - from - 1 |-> Decoded(from + i + 1, from, to)]

from_utf8_lossy(from, to) == [i \in 1 .. to - from |-> Decoded(from + i, from, to)]

(* Where the first complete event of the buffer ends.                      *)
Ends == {i \in 1 .. Len(buffer) - 1 : buffer[i] = Newline /\ buffer[i + 1] = Newline}
EndOf == CHOOSE i \in Ends : \A j \in Ends : i <= j

(* The type is plain text, and survives; the data may not.  A block without *)
(* a type is a message, which nothing is done with.                        *)
parse_sse_event(block) ==
  [event |-> IF block = <<>> THEN "message" ELSE block[1].event,
   whole |-> \A i \in DOMAIN block : block[i].whole]

End(status) == asking' = "ended" /\ code' = status

----------------------------------------------------------------------------
Start ==
  /\ asking = "off"
  /\ flags' \in {f \in [json : BOOLEAN, evidence : BOOLEAN] : f.evidence => f.json}
  /\ asking' = "sent"
  /\ UNCHANGED <<feed, arrived, buffer, handled, saved, code>>

(* Unreachable, or an answer that is no success: 401 and 409 have a text   *)
(* of their own (ask_error_message).  Or one that cannot be read, or is    *)
(* streamed though one document was asked for.                             *)
Unanswered ==
  /\ asking = "sent"
  /\ End(1)
  /\ UNCHANGED <<flags, feed, arrived, buffer, handled, saved>>

(* One document.  Under --json what is needed to go on with the            *)
(* conversation is kept before the evidence is looked for.                 *)
Document ==
  /\ asking = "sent"
  /\ saved' = TRUE
  /\ \E evidence \in BOOLEAN :
       IF flags.json /\ flags.evidence /\ ~evidence
         THEN End(1) /\ UNCHANGED handled
         ELSE End(0) /\ handled' = <<Text("answer", TRUE)>>
  /\ UNCHANGED <<flags, feed, arrived, buffer>>

Stream ==
  /\ asking = "sent" /\ ~flags.json
  /\ feed' \in Feeds
  /\ asking' = "reading"
  /\ UNCHANGED <<flags, arrived, buffer, handled, saved, code>>

Chunk ==
  /\ asking = "reading" /\ Ends = {}
  /\ \E to \in arrived + 1 .. Wire :
       /\ buffer' = buffer \o from_utf8_lossy(arrived, to)
       /\ arrived' = to
  /\ UNCHANGED <<asking, flags, feed, handled, saved, code>>

(* Nothing is printed until the answer is complete: a token is dropped, an *)
(* answer is printed and kept, one that cannot be parsed is an error that  *)
(* is told of, and `done` ends the command.                                *)
HandleEvent ==
  /\ asking = "reading" /\ Ends # {}
  /\ LET event == parse_sse_event(SubSeq(buffer, 1, EndOf - 1))
     IN  /\ handled' = Append(handled, event)
         /\ saved' = (saved \/ event.event = "answer")
         /\ IF event.event = "done" THEN End(0) ELSE UNCHANGED <<asking, code>>
  /\ buffer' = SubSeq(buffer, EndOf + 2, Len(buffer))
  /\ UNCHANGED <<flags, feed, arrived>>

(* The stream ends, wherever the server or a proxy closed it; an event     *)
(* without its end is dropped.                                             *)
Closed ==
  /\ asking = "reading" /\ Ends = {}
  /\ End(0)
  /\ UNCHANGED <<flags, feed, arrived, buffer, handled, saved>>

BrokenOff ==
  /\ asking = "reading" /\ Ends = {}
  /\ End(1)
  /\ UNCHANGED <<flags, feed, arrived, buffer, handled, saved>>

Work ==
  \/ Unanswered \/ Document \/ Stream \/ Chunk \/ HandleEvent \/ Closed \/ BrokenOff

Next == Start \/ Work

(* "The HTTP client of ask carries no timeout of its own."                 *)
Waiting == asking = "sent" \/ (asking = "reading" /\ Ends = {})

Spec == Init /\ [][Next]_vars /\ WF_vars(Next)

----------------------------------------------------------------------------
TypeOK ==
  /\ asking \in {"off", "sent", "reading", "ended"}
  /\ flags \in [json : BOOLEAN, evidence : BOOLEAN] \cup {None}
  /\ feed \in Feeds \cup {<<>>}
  /\ arrived \in 0 .. Wire
  /\ buffer \in Seq([event : Event \cup {"newline", "nothing"}, whole : BOOLEAN])
  /\ handled \in Seq([event : Event, whole : BOOLEAN])
  /\ saved \in BOOLEAN
  /\ code \in {None, 0, 1}

(* However the chunks fall, the events are handled as they were sent, none *)
(* twice, none out of order and none that arrived whole left out: a run    *)
(* that ends without an error has told of every answer and every error the *)
(* server finished sending, and the conversation of an answer can be gone  *)
(* on with (handle_sse_stream, handle_sse_answer).                         *)
HandledAsSent ==
  /\ asking \in {"reading", "ended"} /\ feed # <<>> =>
       /\ Len(handled) <= Len(feed)
       /\ \A i \in DOMAIN handled : handled[i].event = feed[i]
       /\ code = 0 => \/ Len(handled) = arrived \div BytesPerEvent
                      \/ handled # <<>> /\ handled[Len(handled)].event = "done"
  /\ (\E i \in DOMAIN handled : handled[i].event = "answer") => saved

(* "The server's text is rendered verbatim and the CLI adds no words"      *)
(* (block_text_coloured, print_response).                                  *)
ShownVerbatim == \A i \in DOMAIN handled : handled[i].event = "answer" => handled[i].whole
=============================================================================
