------------------------------ MODULE MCClients ------------------------------
(* Values for Clients: three flags on two pieces of evidence, captures two  *)
(* of which share their source, records that name one fragment, streams.    *)
EXTENDS Clients

MCCited == [c \in {"a", "b", "c"} |-> IF c = "c" THEN {"s"} ELSE {"t"}]

MCRecord == {[kind |-> "created", id |-> "c", fragment_id |-> None],
             [kind |-> "retired", id |-> None, fragment_id |-> "c"]}

MCFeeds == {<<"phase", "token", "answer", "done">>, <<"phase", "error">>,
            <<"unreadable", "done", "answer">>}

MCCapture ==
  {[tool |-> "commit_capture", place |-> <<"x">>, text |-> <<"y">>],
   [tool |-> "commit_capture", place |-> <<>>, text |-> <<"x", "y">>],
   [tool |-> "annotate", place |-> <<"f">>, text |-> <<"y">>]}
=============================================================================
