-------------------------------- MODULE Discovery --------------------------------
(***************************************************************************)
(* The WS-Discovery responder: DiscoveryManager                            *)
(* (onvif_services/discovery_service.cpp).                                 *)
(*                                                                         *)
(* One thread runs an io_context with one loop: receive a datagram into    *)
(* data_, answer it if it is a probe for an ONVIF device, post the next    *)
(* receive.  The answer's text is response_: the shipped file, in which    *)
(* each probe replaces the MessageID and the RelatesTo of the answer       *)
(* before.  It is sent asynchronously: a socket whose buffer is full takes *)
(* it later, from the memory of response_ as it is then.                   *)
(*                                                                         *)
(* Left out: the handler of a completed send, which only writes log lines; *)
(* the rest of the text.  A datagram that is lost never arrives, and one   *)
(* the network doubles arrives twice; after a bind that failed, which is   *)
(* only logged, none arrives, and a Start that throws is none.  An empty   *)
(* datagram is treated as an error, and an error of a send as a loss.      *)
(***************************************************************************)
EXTENDS Integers, Sequences

CONSTANTS
  Clients,
  Ids,            \* the MessageIDs of probes
  DigitIds,       \* those that begin with a digit, or repeat a tag with "$&", "$1" or "$3"
  MultiLineIds,   \* those that hold a line break
  AlteredIds,     \* those with another '$' of a replacement ("$$", "$2"), or '<' or '&'
  MaxProbes       \* bound: datagrams that arrive

\* What RelatesTo holds that is no probe's id: what the file ships with, and what
\* is left of one that lost its opening tag and its first digit or was changed
\* otherwise on its way into the text.
Shipped == "shipped"
Garbled == "garbled"
NoId == ""

ASSUME IdsAssumption ==
  /\ DigitIds \subseteq Ids
  /\ MultiLineIds \subseteq Ids
  /\ AlteredIds \subseteq Ids
  /\ {Shipped, Garbled, NoId} \cap Ids = {}
  /\ MaxProbes \in Nat

\* A probe for an ONVIF device, with a MessageID or none; another probe; a datagram
\* that is no XML, as one of more than max_length bytes that was cut off.
Datagram == [from : Clients, kind : {"probe"}, id : Ids \cup {NoId}]
            \cup [from : Clients, kind : {"other", "malformed"}, id : {NoId}]

\* The texts of the two elements, and whether the search for RelatesTo finds it.
Response == [messageID : Nat, relatesTo : Ids \cup {Shipped, Garbled}, found : BOOLEAN]

\* An answer: to the n-th datagram (history).  It is overtaken when a later one has
\* been prepared before the socket took it.
Answer == [n : Nat, to : Clients, text : Response, overtaken : BOOLEAN]

VARIABLES
  phase,      \* "initial", "running", "stopping" (main is in Stop), or "ended"
  arrived,    \* the datagrams that arrived, in order
  taken,      \* how many of them have been received
  receives,   \* pending async_receive_from operations
  ready,      \* the io_context's queue
  data,       \* the datagram in data_ and remote_endpoint_
  response,   \* response_
  ID,         \* the counter of generate_uuid
  sends,      \* async_send_to operations the socket has not taken yet
  answers     \* what the socket has taken, sent or lost

networkVars == <<arrived, taken>>
loopVars == <<receives, ready, data>>
answerVars == <<response, ID, sends, answers>>
vars == <<phase, networkVars, loopVars, answerVars>>

Handlers == {"do_receive", "received", "failed"}
Nothing == <<>>

Init ==
  /\ phase = "initial"
  /\ arrived = <<>>
  /\ taken = 0
  /\ receives = 0
  /\ ready = <<>>
  /\ data = Nothing
  /\ response = [messageID |-> 0, relatesTo |-> Shipped, found |-> TRUE]
  /\ ID = 0
  /\ sends = {}
  /\ answers = {}

Working == phase \in {"running", "stopping"}

Start ==
  /\ phase = "initial"
  /\ phase' = "running"
  /\ ready' = Append(ready, "do_receive")
  /\ UNCHANGED <<networkVars, receives, data, answerVars>>

\* The io_context's work guard goes, and main joins the worker.  That returns when
\* the io_context has nothing left to wait for: see LoopHasOneReceive.
Stop ==
  /\ phase = "running"
  /\ phase' = "stopping"
  /\ UNCHANGED <<networkVars, loopVars, answerVars>>

-----------------------------------------------------------------------------
(* The socket.                                                             *)

Arrive(d) ==
  /\ Working
  /\ Len(arrived) < MaxProbes   \* bound
  /\ arrived' = Append(arrived, d)
  /\ UNCHANGED <<phase, taken, loopVars, answerVars>>

ReceiveCompletes ==
  /\ Working
  /\ receives > 0
  /\ taken < Len(arrived)
  /\ taken' = taken + 1
  /\ data' = arrived[taken + 1]
  /\ receives' = receives - 1
  /\ ready' = Append(ready, "received")
  /\ UNCHANGED <<phase, arrived, answerVars>>

ReceiveFails ==
  /\ Working
  /\ receives > 0
  /\ receives' = receives - 1
  /\ ready' = Append(ready, "failed")
  /\ UNCHANGED <<phase, networkVars, data, answerVars>>

\* The socket takes an answer that waits.  The memory of one that was overtaken
\* holds the old text, the new one or anything.
SendCompletes(a) ==
  /\ Working
  /\ \E text \in IF a.overtaken
                 THEN {a.text, response, [response EXCEPT !.relatesTo = Garbled]}
                 ELSE {a.text} :
       answers' = answers \cup {[a EXCEPT !.text = text]}
  /\ sends' = sends \ {a}
  /\ UNCHANGED <<phase, networkVars, loopVars, response, ID>>

-----------------------------------------------------------------------------
(* The worker's handlers.                                                  *)

DoReceive ==
  /\ Working
  /\ ready # <<>>
  /\ Head(ready) = "do_receive"
  /\ ready' = Tail(ready)
  /\ receives' = receives + 1
  /\ UNCHANGED <<phase, networkVars, data, answerVars>>

\* Mutant: a receive that failed is the last one.
NoMore == receives
OneMore == receives + 1
ReceiveAfterError ==
  /\ Working
  /\ ready # <<>>
  /\ Head(ready) = "failed"
  /\ ready' = Tail(ready)
  /\ receives' = OneMore
  /\ UNCHANGED <<phase, networkVars, data, answerVars>>

\* Mutant: a probe without a MessageID is answered.
AnyProbe(d) == d.kind = "probe"
Matches(d) == d.kind = "probe" /\ d.id # NoId

\* The MessageID is the counter's value (the width of int is out of reach).
generate_uuid == ID' = ID + 1

\* RelatesTo replaced by id.  The replacement "$1" + id reads the first digit of an
\* id as part of the group's number: the group does not exist, and the tag it should
\* repeat is lost with the digit.  A tag that is repeated is part of what all later
\* replacements keep.  The dot of the pattern matches no line break.  Other sequences
\* with '$' are replaced, and the characters of XML not escaped, in this answer only.
\* Mutant: the value in the shipped file is searched, not the element.
FirstOnly(r, id) == IF r.relatesTo = Shipped THEN [r EXCEPT !.relatesTo = id] ELSE r
WithRelatesTo(r, id) ==
  IF ~r.found THEN r
  ELSE IF id \in DigitIds THEN [r EXCEPT !.relatesTo = Garbled, !.found = FALSE]
  ELSE [r EXCEPT !.relatesTo = IF id \in AlteredIds THEN Garbled ELSE id,
                 !.found = id \notin MultiLineIds]

prepare_response(messageID, relatesTo) ==
  WithRelatesTo([response EXCEPT !.messageID = messageID], relatesTo)

\* do_send ends by posting the next receive, and the handler by returning.
\* Mutant: the handler does not return and receives once more.
ReceivesToo == ready' = Append(Tail(ready), "do_receive") /\ receives' = receives + 1
ReceiveNext == ready' = Append(Tail(ready), "do_receive") /\ UNCHANGED receives

TakesDatagram ==
  /\ Working
  /\ ready # <<>>
  /\ Head(ready) = "received"

\* The socket takes the answer at once or later, and sends that wait are overtaken.
DoSend ==
  /\ TakesDatagram
  /\ Matches(data)
  /\ response' = prepare_response(ID, data.id)
  /\ generate_uuid
  /\ LET answer == [n |-> taken, to |-> data.from, text |-> response', overtaken |-> FALSE]
         waiting == {[a EXCEPT !.overtaken = TRUE] : a \in sends}
     IN  \/ answers' = answers \cup {answer} /\ sends' = waiting
         \/ sends' = waiting \cup {answer} /\ UNCHANGED answers
  /\ ReceiveNext
  /\ UNCHANGED <<phase, networkVars, data>>

Ignore ==
  /\ TakesDatagram
  /\ data.kind # "malformed"
  /\ ~Matches(data)
  /\ ReceiveNext
  /\ UNCHANGED <<phase, networkVars, data, answerVars>>

\* read_xml throws, nothing on the worker's stack catches, and the process ends.
ParseFails ==
  /\ TakesDatagram
  /\ data.kind = "malformed"
  /\ phase' = "ended"
  /\ UNCHANGED <<networkVars, loopVars, answerVars>>

RunHandler == DoReceive \/ ReceiveAfterError \/ DoSend \/ Ignore \/ ParseFails

Next ==
  \/ Start
  \/ Stop
  \/ \E d \in Datagram : Arrive(d)
  \/ ReceiveCompletes
  \/ ReceiveFails
  \/ \E a \in sends : SendCompletes(a)
  \/ DoReceive
  \/ ReceiveAfterError
  \/ DoSend
  \/ Ignore
  \/ ParseFails

Spec == Init /\ [][Next]_vars

\* The worker runs on, the socket can be written again, and a receive does not fail
\* for ever while a datagram waits: each error is reported once.
Fairness ==
  /\ WF_vars(RunHandler)
  /\ SF_vars(ReceiveCompletes)
  /\ WF_vars(\E a \in sends : SendCompletes(a))

FairSpec == Spec /\ Fairness

-----------------------------------------------------------------------------
(* Properties.                                                             *)

\* Every variable keeps its type: what is sent has the id of a probe.
TypeOK ==
  /\ phase \in {"initial", "running", "stopping", "ended"}
  /\ arrived \in Seq(Datagram)
  /\ taken \in 0..Len(arrived)
  /\ receives \in Nat
  /\ ready \in Seq(Handlers)
  /\ data \in Datagram \cup {Nothing}
  /\ response \in Response
  /\ ID \in Nat
  /\ sends \subseteq Answer
  /\ answers \subseteq Answer

\* Whatever arrives and fails, the loop has exactly one receive: pending, completed
\* or posted.  One less, and the responder is deaf; one more, and a datagram is read
\* over another.  So there is always something left to wait for, and the join in
\* Stop does not return.
LoopHasOneReceive == Working => receives + Len(ready) = 1

\* An answer that was not overtaken goes to the sender of the probe it was made for
\* and names that probe, whatever has been answered before.
AnswersRelateToTheirProbes ==
  \A a \in answers : ~a.overtaken =>
    a.to = arrived[a.n].from /\ a.text.relatesTo = arrived[a.n].id

\* No datagram is answered twice, now or by a send that waits, and no two answers
\* that are sent as they were made have the same MessageID.
AnsweredAtMostOnce ==
  \A a, b \in answers \cup sends : a # b =>
    /\ a.n # b.n
    /\ a.overtaken \/ b.overtaken \/ a.text.messageID # b.text.messageID

\* Each probe for an ONVIF device that arrives is answered, through failed receives
\* and sends that wait, during Stop too, unless the process ends.
EveryProbeIsAnswered ==
  \A n \in 1..MaxProbes :
    (n <= Len(arrived) /\ Matches(arrived[n]))
      ~> (phase = "ended" \/ \E a \in answers : a.n = n)

=============================================================================
