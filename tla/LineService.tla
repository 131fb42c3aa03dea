----------------------------- MODULE LineService -----------------------------
(***************************************************************************)
(* What the warm daemon promises a client (crates/habitat-graph-daemon):   *)
(* each line of the stream it sends is answered once and in order, over    *)
(* one graph that was served at some moment since the line arrived; a line *)
(* that is too long may be refused, and ends the connection.  How the      *)
(* stream is cut when it is read does not show.                            *)
(***************************************************************************)
EXTENDS Integers, Sequences, SequencesExt

CONSTANTS
  Client,
  Graph,          \* the graphs served
  Messages,       \* Messages[c]: what c may send at once, bytes
  NL, CR, Blank,  \* newline, carriage return and the bytes of a blank line
  Right(_, _, _), \* Right(graph, line, reply)
  NoReply,        \* the reply to a notification: none
  TooLong,        \* the reply that refuses a line
  MAX_LINE_BYTES, \* lines up to here are never refused
  CHUNK           \* most bytes read at once

VARIABLES
  graph,    \* the graph served
  stream,   \* stream[c]: the bytes c sent that are not answered
  ended,    \* ended[c]: c sends no more
  gone,     \* gone[c]: c neither sends nor reads
  state,    \* state[c]: away, waiting, open, refused or closed
  answers   \* answers[c]: the replies to c

vars == <<graph, stream, ended, gone, state, answers>>

Init ==
  /\ graph \in Graph
  /\ stream = [c \in Client |-> <<>>]
  /\ ended = [c \in Client |-> FALSE]
  /\ gone = [c \in Client |-> FALSE]
  /\ state = [c \in Client |-> "away"]
  /\ answers = [c \in Client |-> <<>>]

Newlines(s) == {i \in DOMAIN s : s[i] = NL}
HasLine(s) == Newlines(s) # {}
LineEnd(s) == CHOOSE i \in Newlines(s) : \A j \in Newlines(s) : i <= j

(* The content of the first line; the rest after it.                       *)
Unterminated(s) == IF s # <<>> /\ Last(s) = CR THEN Front(s) ELSE s
Content(s) == IF HasLine(s) THEN Unterminated(SubSeq(s, 1, LineEnd(s) - 1)) ELSE s
Rest(s) == IF HasLine(s) THEN SubSeq(s, LineEnd(s) + 1, Len(s)) ELSE <<>>
Length(s) == IF HasLine(s) THEN LineEnd(s) - 1 ELSE Len(s)

Moves(c, from, to) == state[c] = from /\ state' = [state EXCEPT ![c] = to]

Connect(c) ==
  /\ Moves(c, "away", "waiting")
  /\ UNCHANGED <<graph, stream, ended, gone, answers>>

Send(c) ==
  /\ ~ended[c]
  /\ \E m \in Messages[c] : stream' = [stream EXCEPT ![c] = @ \o m]
  /\ UNCHANGED <<graph, ended, gone, state, answers>>

End(c) ==
  /\ ended' = [ended EXCEPT ![c] = TRUE]
  /\ gone' = gone \/ gone' = [gone EXCEPT ![c] = TRUE]
  /\ UNCHANGED <<graph, stream, state, answers>>

Open(c) ==
  /\ Moves(c, "waiting", "open")
  /\ UNCHANGED <<graph, stream, ended, gone, answers>>

(* A line that asks nothing has no answer, every other has one.            *)
Pass(c, line) ==
  /\ ToSet(line) \subseteq Blank \/ Right(graph, line, NoReply)
  /\ UNCHANGED answers

Answer(c, line) ==
  /\ ~(ToSet(line) \subseteq Blank)
  /\ answers'[c] # <<>>
  /\ \E reply \in {Last(answers'[c])} :
       /\ answers' = [answers EXCEPT ![c] = Append(@, reply)]
       /\ Right(graph, line, reply)

(* One line, or what is left when the client has ended.                    *)
Serve(c) ==
  /\ state[c] = "open"
  /\ HasLine(stream[c]) \/ (ended[c] /\ stream[c] # <<>>)
  /\ Length(stream[c]) < MAX_LINE_BYTES + CHUNK
  /\ stream' = [stream EXCEPT ![c] = Rest(@)]
  /\ \E line \in {Content(stream[c])} : Pass(c, line) \/ Answer(c, line)
  /\ UNCHANGED <<graph, ended, gone, state>>

Refuse(c) ==
  /\ Moves(c, "open", "refused")
  /\ Length(stream[c]) > MAX_LINE_BYTES
  /\ answers' = [answers EXCEPT ![c] = Append(@, TooLong)]
  /\ UNCHANGED <<graph, stream, ended, gone>>

(* A connection is closed when it is not let in, was refused, has answered *)
(* everything, or the client has gone.                                     *)
Close(c) ==
  /\ \/ state[c] \in {"waiting", "refused"}
     \/ state[c] = "open" /\ ended[c] /\ stream[c] = <<>>
     \/ state[c] = "open" /\ gone[c]
  /\ state' = [state EXCEPT ![c] = "closed"]
  /\ UNCHANGED <<graph, stream, ended, gone, answers>>

Reload ==
  /\ graph' \in Graph
  /\ UNCHANGED <<stream, ended, gone, state, answers>>

Next ==
  \/ \E c \in Client : \/ Connect(c) \/ Send(c) \/ End(c) \/ Open(c)
                       \/ Serve(c) \/ Refuse(c) \/ Close(c)
  \/ Reload

Spec == Init /\ [][Next]_vars
=============================================================================
