----------------------------- MODULE DiscoveryProofs -----------------------------
(***************************************************************************)
(* Proofs about Discovery for any clients, ids and number of datagrams.    *)
(***************************************************************************)
EXTENDS Discovery, SequenceTheorems, TLAPS

-----------------------------------------------------------------------------
(* The inductive invariant.                                                *)

\* Before Start the loop has no receive.
NoReceiveYet == phase = "initial" => receives = 0 /\ ready = <<>>

\* Between the completion of a receive and its handler, the buffer holds the last
\* datagram that was taken, and no answer to it exists.
Received == Working /\ ready # <<>> /\ Head(ready) = "received"
BufferIsKept ==
  Received => /\ taken > 0
              /\ data = arrived[taken]
              /\ \A a \in answers \cup sends : a.n < taken

\* Answers were made for datagrams that were taken, with MessageIDs given out.
AnswersAreOld ==
  \A a \in answers \cup sends :
    /\ a.n \in 1..taken
    /\ a.overtaken \/ a.text.messageID < ID

\* No answer both waits and has been sent.
WaitingOrSent == \A a \in answers, b \in sends : a.n # b.n

IInv ==
  /\ TypeOK
  /\ LoopHasOneReceive
  /\ NoReceiveYet
  /\ BufferIsKept
  /\ AnswersAreOld
  /\ WaitingOrSent
  /\ AnsweredAtMostOnce

-----------------------------------------------------------------------------
(* The queue of a loop with one receive holds one handler at most.         *)

LEMMA OneHandler ==
  ASSUME IInv, Working, ready # <<>>
  PROVE  /\ receives = 0
         /\ Len(ready) = 1
         /\ Tail(ready) = <<>>
<1>1. receives + Len(ready) = 1 /\ receives \in Nat /\ ready \in Seq(Handlers)
  BY DEF IInv, LoopHasOneReceive, TypeOK
<1>2. Len(ready) \in Nat /\ Len(ready) # 0
  BY <1>1, EmptySeq, LenProperties
<1>3. Len(ready) = 1 /\ receives = 0
  <2>1. \A r, n \in Nat : r + n = 1 /\ n # 0 => n = 1 /\ r = 0
    OBVIOUS
  <2> QED
    BY <1>1, <1>2, <2>1
<1>4. Tail(ready) \in Seq(Handlers) /\ Len(Tail(ready)) = 0
  BY <1>1, <1>3, HeadTailProperties
<1> QED
  BY <1>3, <1>4, EmptySeq

LEMMA EmptyQueue ==
  ASSUME IInv, Working, receives > 0
  PROVE  receives = 1 /\ ready = <<>>
<1>1. receives + Len(ready) = 1 /\ receives \in Nat /\ ready \in Seq(Handlers)
  BY DEF IInv, LoopHasOneReceive, TypeOK
<1>2. Len(ready) \in Nat
  BY <1>1, LenProperties
<1>3. receives = 1 /\ Len(ready) = 0
  BY <1>1, <1>2
<1> QED
  BY <1>1, <1>3, EmptySeq

\* A queue of one handler that is appended to the empty one.
LEMMA QueueOfOne ==
  ASSUME NEW h \in Handlers
  PROVE  /\ Append(<<>>, h) \in Seq(Handlers)
         /\ Append(<<>>, h) # <<>>
         /\ Len(Append(<<>>, h)) = 1
         /\ Head(Append(<<>>, h)) = h
OBVIOUS

\* Whatever the id, the text that is prepared is a text with the counter's value.
LEMMA ResponseType ==
  ASSUME TypeOK, NEW id \in Ids
  PROVE  /\ prepare_response(ID, id) \in Response
         /\ prepare_response(ID, id).messageID = ID
BY DEF TypeOK, prepare_response, WithRelatesTo, Response

-----------------------------------------------------------------------------
(* The invariant holds, one lemma for each action that disturbs it.        *)

LEMMA InitIInv == Init => IInv
<1> SUFFICES ASSUME Init PROVE IInv
  OBVIOUS
<1>1. TypeOK
  <2>1. arrived \in Seq(Datagram) /\ Len(arrived) = 0 /\ ready \in Seq(Handlers)
    BY DEF Init
  <2> QED
    BY <2>1 DEF Init, TypeOK, Nothing, Response
<1> QED
  BY <1>1 DEF Init, IInv, LoopHasOneReceive, NoReceiveYet, BufferIsKept, Received,
              Working, AnswersAreOld, WaitingOrSent, AnsweredAtMostOnce

LEMMA StartIInv == IInv /\ Start => IInv'
<1> SUFFICES ASSUME IInv, Start PROVE IInv'
  OBVIOUS
<1>1. receives = 0 /\ ready = <<>> /\ ready' = Append(<<>>, "do_receive") /\ "do_receive" \in Handlers
  BY DEF Start, IInv, NoReceiveYet, Handlers
<1>2. ready' \in Seq(Handlers) /\ Len(ready') = 1 /\ Head(ready') = "do_receive"
  BY <1>1, QueueOfOne
<1>3. TypeOK'
  BY <1>2 DEF Start, IInv, TypeOK, networkVars, answerVars
<1>4. LoopHasOneReceive' /\ NoReceiveYet' /\ BufferIsKept'
  BY <1>1, <1>2 DEF Start, LoopHasOneReceive, NoReceiveYet, BufferIsKept, Received
<1>5. AnswersAreOld' /\ WaitingOrSent' /\ AnsweredAtMostOnce'
  BY DEF Start, IInv, AnswersAreOld, WaitingOrSent, AnsweredAtMostOnce, networkVars, answerVars
<1> QED
  BY <1>3, <1>4, <1>5 DEF IInv

LEMMA StopIInv == IInv /\ Stop => IInv'
<1> SUFFICES ASSUME IInv, Stop PROVE IInv'
  OBVIOUS
<1> QED
  BY DEF Stop, IInv, TypeOK, LoopHasOneReceive, NoReceiveYet, BufferIsKept, Received, Working,
         AnswersAreOld, WaitingOrSent, AnsweredAtMostOnce, networkVars, loopVars, answerVars

LEMMA ArriveIInv == \A d \in Datagram : IInv /\ Arrive(d) => IInv'
<1> SUFFICES ASSUME NEW d \in Datagram, IInv, Arrive(d) PROVE IInv'
  OBVIOUS
<1>1. arrived \in Seq(Datagram) /\ taken \in 0..Len(arrived) /\ Len(arrived) \in Nat
  BY LenProperties DEF IInv, TypeOK
<1>2. /\ arrived' \in Seq(Datagram)
      /\ Len(arrived') = Len(arrived) + 1
      /\ \A i \in 1..Len(arrived) : arrived'[i] = arrived[i]
  BY <1>1, AppendProperties DEF Arrive
<1>3. TypeOK'
  BY <1>1, <1>2 DEF Arrive, IInv, TypeOK, loopVars, answerVars
<1>4. BufferIsKept'
  BY <1>1, <1>2 DEF Arrive, IInv, BufferIsKept, Received, Working, loopVars, answerVars
<1> QED
  BY <1>3, <1>4 DEF Arrive, IInv, LoopHasOneReceive, NoReceiveYet, Working, AnswersAreOld,
                    WaitingOrSent, AnsweredAtMostOnce, loopVars, answerVars

LEMMA ReceiveCompletesIInv == IInv /\ ReceiveCompletes => IInv'
<1> SUFFICES ASSUME IInv, ReceiveCompletes PROVE IInv'
  OBVIOUS
<1>1. receives = 1 /\ ready = <<>> /\ Working
  BY EmptyQueue DEF ReceiveCompletes
<1>2. ready' = Append(<<>>, "received") /\ "received" \in Handlers
  BY <1>1 DEF ReceiveCompletes, Handlers
<1>3. ready' \in Seq(Handlers) /\ Len(ready') = 1 /\ receives' = 0
  BY <1>1, <1>2, QueueOfOne DEF ReceiveCompletes
<1>4. arrived \in Seq(Datagram) /\ taken \in 0..Len(arrived) /\ Len(arrived) \in Nat
  BY LenProperties DEF IInv, TypeOK
<1>5. taken + 1 \in 1..Len(arrived) /\ taken' = taken + 1 /\ arrived' = arrived
  BY <1>4 DEF ReceiveCompletes, networkVars
<1>6. data' = arrived'[taken'] /\ data' \in Datagram
  BY <1>4, <1>5, ElementOfSeq DEF ReceiveCompletes
<1>7. TypeOK'
  BY <1>3, <1>4, <1>5, <1>6 DEF ReceiveCompletes, IInv, TypeOK, answerVars
<1>8. \A a \in answers \cup sends : a.n \in 1..taken
  BY DEF IInv, AnswersAreOld
<1>9. BufferIsKept' /\ AnswersAreOld'
  BY <1>4, <1>5, <1>6, <1>8 DEF ReceiveCompletes, IInv, BufferIsKept, AnswersAreOld, answerVars
<1>10. LoopHasOneReceive' /\ NoReceiveYet'
  BY <1>1, <1>3 DEF ReceiveCompletes, LoopHasOneReceive, NoReceiveYet, Working
<1> QED
  BY <1>7, <1>9, <1>10 DEF ReceiveCompletes, IInv, WaitingOrSent, AnsweredAtMostOnce, answerVars

LEMMA ReceiveFailsIInv == IInv /\ ReceiveFails => IInv'
<1> SUFFICES ASSUME IInv, ReceiveFails PROVE IInv'
  OBVIOUS
<1>1. receives = 1 /\ ready = <<>> /\ Working
  BY EmptyQueue DEF ReceiveFails
<1>2. ready' = Append(<<>>, "failed") /\ "failed" \in Handlers
  BY <1>1 DEF ReceiveFails, Handlers
<1>3. ready' \in Seq(Handlers) /\ Len(ready') = 1 /\ Head(ready') = "failed" /\ receives' = 0
  BY <1>1, <1>2, QueueOfOne DEF ReceiveFails
<1>4. TypeOK'
  BY <1>3 DEF ReceiveFails, IInv, TypeOK, networkVars, answerVars
<1>5. LoopHasOneReceive' /\ NoReceiveYet' /\ BufferIsKept'
  BY <1>1, <1>3 DEF ReceiveFails, LoopHasOneReceive, NoReceiveYet, BufferIsKept, Received, Working
<1> QED
  BY <1>4, <1>5 DEF ReceiveFails, IInv, AnswersAreOld, WaitingOrSent, AnsweredAtMostOnce, networkVars, answerVars

\* The two handlers that only receive.
LEMMA DoReceiveIInv == IInv /\ (DoReceive \/ ReceiveAfterError) => IInv'
<1> SUFFICES ASSUME IInv, DoReceive \/ ReceiveAfterError PROVE IInv'
  OBVIOUS
<1>1. Working /\ ready # <<>> /\ ready' = Tail(ready) /\ receives' = receives + 1
      /\ UNCHANGED <<phase, networkVars, data, answerVars>>
  BY DEF DoReceive, ReceiveAfterError, OneMore
<1>2. receives' = 1 /\ ready' = <<>>
  BY <1>1, OneHandler
<1>3. TypeOK'
  <2>1. ready' \in Seq(Handlers)
    BY <1>2
  <2> QED
    BY <1>1, <1>2, <2>1 DEF IInv, TypeOK, networkVars, answerVars
<1>4. LoopHasOneReceive'
  <2>1. Len(ready') = 0
    BY <1>2
  <2> QED
    BY <1>2, <2>1 DEF LoopHasOneReceive
<1>5. NoReceiveYet' /\ BufferIsKept'
  BY <1>1, <1>2 DEF NoReceiveYet, BufferIsKept, Received, Working
<1> QED
  BY <1>1, <1>3, <1>4, <1>5 DEF IInv, AnswersAreOld, WaitingOrSent, AnsweredAtMostOnce, networkVars, answerVars

\* What both handlers of a datagram do to the loop.
LEMMA NextReceiveIsPosted ==
  ASSUME IInv, Working, ready # <<>>, ReceiveNext
  PROVE  /\ receives' = 0
         /\ ready' \in Seq(Handlers)
         /\ Len(ready') = 1
         /\ Head(ready') = "do_receive"
<1>1. ready' = Append(<<>>, "do_receive") /\ "do_receive" \in Handlers /\ receives' = 0
  BY OneHandler DEF ReceiveNext, Handlers
<1> QED
  BY <1>1, QueueOfOne

LEMMA IgnoreIInv == IInv /\ Ignore => IInv'
<1> SUFFICES ASSUME IInv, Ignore PROVE IInv'
  OBVIOUS
<1>1. Working /\ ready # <<>> /\ ReceiveNext
  BY DEF Ignore, TakesDatagram
<1>2. receives' = 0 /\ ready' \in Seq(Handlers) /\ Len(ready') = 1 /\ Head(ready') = "do_receive"
  BY <1>1, NextReceiveIsPosted
<1>3. TypeOK'
  BY <1>2 DEF Ignore, IInv, TypeOK, networkVars, answerVars
<1>4. LoopHasOneReceive' /\ NoReceiveYet' /\ BufferIsKept'
  BY <1>1, <1>2 DEF Ignore, LoopHasOneReceive, NoReceiveYet, BufferIsKept, Received, Working
<1> QED
  BY <1>3, <1>4 DEF Ignore, IInv, AnswersAreOld, WaitingOrSent, AnsweredAtMostOnce, networkVars, answerVars

LEMMA ParseFailsIInv == IInv /\ ParseFails => IInv'
<1> SUFFICES ASSUME IInv, ParseFails PROVE IInv'
  OBVIOUS
<1> QED
  BY DEF ParseFails, IInv, TypeOK, LoopHasOneReceive, NoReceiveYet, BufferIsKept, Received, Working,
         AnswersAreOld, WaitingOrSent, AnsweredAtMostOnce, networkVars, loopVars, answerVars

LEMMA SendCompletesIInv == \A a \in sends : IInv /\ SendCompletes(a) => IInv'
<1> SUFFICES ASSUME NEW a \in sends, IInv, SendCompletes(a) PROVE IInv'
  OBVIOUS
<1>1. a \in Answer /\ response \in Response /\ ID \in Nat
  BY DEF IInv, TypeOK
<1>2. PICK text : /\ text \in IF a.overtaken
                              THEN {a.text, response, [response EXCEPT !.relatesTo = Garbled]}
                              ELSE {a.text}
                  /\ answers' = answers \cup {[a EXCEPT !.text = text]}
  BY DEF SendCompletes
<1>3. text \in Response
  BY <1>1, <1>2 DEF Answer, Response
<1> DEFINE b == [a EXCEPT !.text = text]
<1>4. /\ b \in Answer
      /\ b.n = a.n
      /\ b.overtaken = a.overtaken
      /\ ~a.overtaken => b.text = a.text
  BY <1>1, <1>2, <1>3 DEF Answer
<1>5. sends' = sends \ {a} /\ answers' = answers \cup {b}
  BY <1>2 DEF SendCompletes
<1> HIDE DEF b
<1>6. TypeOK'
  BY <1>4, <1>5 DEF SendCompletes, IInv, TypeOK, networkVars, loopVars
<1>7. BufferIsKept' /\ AnswersAreOld'
  BY <1>4, <1>5 DEF SendCompletes, IInv, BufferIsKept, Received, Working, AnswersAreOld,
                    networkVars, loopVars
<1>8. \A c \in answers \cup (sends \ {a}) :
        /\ c.n # a.n
        /\ c.overtaken \/ a.overtaken \/ c.text.messageID # a.text.messageID
  <2>1. a \notin answers
    BY DEF IInv, WaitingOrSent
  <2> QED
    BY <2>1 DEF IInv, AnsweredAtMostOnce
<1>9. WaitingOrSent'
  BY <1>4, <1>5, <1>8 DEF IInv, WaitingOrSent
<1>10. AnsweredAtMostOnce'
  <2> SUFFICES ASSUME NEW c \in (answers \cup sends)', NEW d \in (answers \cup sends)', c # d
               PROVE  /\ c.n # d.n
                      /\ c.overtaken \/ d.overtaken \/ c.text.messageID # d.text.messageID
    BY DEF AnsweredAtMostOnce
  <2>1. CASE c # b /\ d # b
    BY <2>1, <1>5 DEF IInv, AnsweredAtMostOnce
  <2>2. CASE c = b
    BY <2>2, <1>4, <1>5, <1>8
  <2>3. CASE d = b
    BY <2>3, <1>4, <1>5, <1>8
  <2> QED
    BY <2>1, <2>2, <2>3
<1> QED
  BY <1>6, <1>7, <1>9, <1>10 DEF SendCompletes, IInv, LoopHasOneReceive, NoReceiveYet, Working, loopVars


LEMMA DoSendIInv == IInv /\ DoSend => IInv'
<1> SUFFICES ASSUME IInv, DoSend PROVE IInv'
  OBVIOUS
<1>1. Received /\ Working /\ ready # <<>> /\ ReceiveNext /\ Matches(data)
  BY DEF DoSend, TakesDatagram, Received
<1>2. receives' = 0 /\ ready' \in Seq(Handlers) /\ Len(ready') = 1 /\ Head(ready') = "do_receive"
  BY <1>1, NextReceiveIsPosted
<1>3. UNCHANGED <<phase, arrived, taken, data>> /\ ID' = ID + 1 /\ ID \in Nat
  BY DEF DoSend, generate_uuid, networkVars, IInv, TypeOK
<1>4. /\ arrived \in Seq(Datagram) /\ taken \in 0..Len(arrived) /\ Len(arrived) \in Nat
      /\ taken \in Nat /\ taken > 0 /\ data = arrived[taken]
      /\ \A a \in answers \cup sends : a.n < taken
  BY <1>1, LenProperties DEF IInv, TypeOK, BufferIsKept
<1>5. data \in Datagram
  BY <1>4, ElementOfSeq
<1>6. data.id \in Ids /\ data.from \in Clients
  BY <1>1, <1>5 DEF Matches, Datagram
<1>7. response' \in Response /\ response'.messageID = ID
  BY <1>6, ResponseType DEF DoSend, IInv
<1> DEFINE answer == [n |-> taken, to |-> data.from, text |-> response', overtaken |-> FALSE]
           late(a) == [a EXCEPT !.overtaken = TRUE]
           waiting == {late(a) : a \in sends}
<1>8. /\ answer \in Answer
      /\ answer.n = taken
      /\ answer.text.messageID = ID
      /\ ~answer.overtaken
  BY <1>4, <1>6, <1>7 DEF Answer
<1>9. \A a \in sends : /\ late(a) \in Answer
                       /\ late(a).n = a.n
                       /\ late(a).overtaken
  BY DEF IInv, TypeOK, Answer
<1>10. \/ answers' = answers \cup {answer} /\ sends' = waiting
       \/ sends' = waiting \cup {answer} /\ answers' = answers
  BY DEF DoSend
<1> HIDE DEF answer, late
<1>11. waiting \subseteq Answer /\ sends \subseteq Answer /\ answers \subseteq Answer
  BY <1>9 DEF IInv, TypeOK
<1>12. TypeOK'
  BY <1>2, <1>3, <1>7, <1>8, <1>10, <1>11 DEF IInv, TypeOK
<1>13. LoopHasOneReceive' /\ NoReceiveYet' /\ BufferIsKept'
  BY <1>1, <1>2, <1>3 DEF LoopHasOneReceive, NoReceiveYet, BufferIsKept, Received, Working
\* Every other answer is to an earlier datagram and has an earlier MessageID.
<1>14. \A a \in answers \cup waiting :
         /\ a.n \in 1..taken
         /\ a.n # answer.n
         /\ a.overtaken \/ (a.text.messageID < ID /\ a.text.messageID # answer.text.messageID)
  <2>1. \A a \in answers \cup sends : a.n \in 1..taken /\ a.n # taken
    BY <1>4 DEF IInv, AnswersAreOld
  <2>2. \A a \in answers : a.overtaken \/ a.text.messageID < ID
    BY DEF IInv, AnswersAreOld
  <2>3. \A a \in answers : a.text.messageID \in Nat
    BY <1>11 DEF Answer, Response
  <2>4. \A a \in answers : a.overtaken \/ (a.text.messageID < ID /\ a.text.messageID # ID)
    BY <2>2, <2>3, <1>3
  <2> QED
    BY <2>1, <2>4, <1>8, <1>9
<1>15. AnswersAreOld'
  <2>1. answer.n \in 1..taken /\ answer.text.messageID < ID'
    BY <1>3, <1>4, <1>8
  <2>2. \A a \in answers \cup waiting : a.overtaken \/ a.text.messageID < ID'
    <3>1. \A a \in answers \cup waiting : a.text.messageID \in Nat
      BY <1>11 DEF Answer, Response
    <3> QED
      BY <3>1, <1>3, <1>14
  <2>3. (answers \cup sends)' = answers \cup waiting \cup {answer}
    BY <1>10
  <2> HIDE DEF waiting
  <2> QED
    BY <2>1, <2>2, <2>3, <1>3, <1>14 DEF AnswersAreOld
<1>16. \A a \in answers, b \in waiting : a.n # b.n
  BY <1>9 DEF IInv, WaitingOrSent
<1>17. WaitingOrSent'
  <2> HIDE DEF waiting
  <2> QED
    BY <1>10, <1>14, <1>16 DEF WaitingOrSent
<1>18. \A a, b \in answers \cup waiting : a # b =>
         /\ a.n # b.n
         /\ a.overtaken \/ b.overtaken \/ a.text.messageID # b.text.messageID
  <2>1. \A a, b \in answers : a # b =>
          a.n # b.n /\ (a.overtaken \/ b.overtaken \/ a.text.messageID # b.text.messageID)
    BY DEF IInv, AnsweredAtMostOnce
  <2>2. \A a, b \in sends : a # b => a.n # b.n
    BY DEF IInv, AnsweredAtMostOnce
  <2>3. \A a, b \in waiting : a # b => a.n # b.n
    BY <2>2, <1>9
  <2>4. \A a \in waiting : a.overtaken
    BY <1>9
  <2> HIDE DEF waiting
  <2> QED
    BY <2>1, <2>3, <2>4, <1>16
<1>19. AnsweredAtMostOnce'
  <2>1. (answers \cup sends)' = answers \cup waiting \cup {answer}
    BY <1>10
  <2> HIDE DEF waiting
  <2> QED
    BY <2>1, <1>14, <1>18 DEF AnsweredAtMostOnce
<1> QED
  BY <1>12, <1>13, <1>15, <1>17, <1>19 DEF IInv

LEMMA NextIInv == IInv /\ [Next]_vars => IInv'
<1> SUFFICES ASSUME IInv, [Next]_vars PROVE IInv'
  OBVIOUS
<1>1. CASE Start
  BY <1>1, StartIInv
<1>2. CASE Stop
  BY <1>2, StopIInv
<1>3. ASSUME NEW d \in Datagram, Arrive(d) PROVE IInv'
  BY <1>3, ArriveIInv
<1>4. CASE ReceiveCompletes
  BY <1>4, ReceiveCompletesIInv
<1>5. CASE ReceiveFails
  BY <1>5, ReceiveFailsIInv
<1>6. ASSUME NEW a \in sends, SendCompletes(a) PROVE IInv'
  BY <1>6, SendCompletesIInv
<1>7. CASE DoReceive \/ ReceiveAfterError
  BY <1>7, DoReceiveIInv
<1>8. CASE DoSend
  BY <1>8, DoSendIInv
<1>9. CASE Ignore
  BY <1>9, IgnoreIInv
<1>10. CASE ParseFails
  BY <1>10, ParseFailsIInv
<1>11. CASE UNCHANGED vars
  BY <1>11 DEF vars, IInv, TypeOK, LoopHasOneReceive, NoReceiveYet, BufferIsKept, Received, Working,
               AnswersAreOld, WaitingOrSent, AnsweredAtMostOnce, networkVars, loopVars, answerVars
<1> QED
  BY <1>1, <1>2, <1>3, <1>4, <1>5, <1>6, <1>7, <1>8, <1>9, <1>10, <1>11 DEF Next

\* The invariant holds in every behaviour.
THEOREM Invariance == Spec => []IInv
BY InitIInv, NextIInv, PTL DEF Spec

-----------------------------------------------------------------------------
(* The theorems.                                                           *)

\* Every variable of the responder keeps its type.
THEOREM TypeCorrect == Spec => []TypeOK
<1>1. IInv => TypeOK
  BY DEF IInv
<1> QED
  BY <1>1, Invariance, PTL

\* The loop of do_receive and do_send has one receive, whatever arrives and fails:
\* it never goes deaf, never reads over a datagram, and never runs dry for Stop.
THEOREM OneReceive == Spec => []LoopHasOneReceive
<1>1. IInv => LoopHasOneReceive
  BY DEF IInv
<1> QED
  BY <1>1, Invariance, PTL

\* do_send answers no datagram twice, and MessageIDs are not repeated.
THEOREM AnsweredOnce == Spec => []AnsweredAtMostOnce
<1>1. IInv => AnsweredAtMostOnce
  BY DEF IInv
<1> QED
  BY <1>1, Invariance, PTL

-----------------------------------------------------------------------------
(* What the answers say, when the replacement takes every id as it is.      *)

PlainIds == DigitIds = {} /\ MultiLineIds = {} /\ AlteredIds = {}

\* An answer as it was made: it goes to the sender of its probe and names it.
Related(a) == a.to = arrived[a.n].from /\ a.text.relatesTo = arrived[a.n].id

\* RelatesTo is still found in the text, and what waits is related to its probe too.
RInv ==
  /\ response.found
  /\ \A a \in sends : Related(a)
  /\ AnswersRelateToTheirProbes

LEMMA PlainResponse ==
  ASSUME PlainIds, TypeOK, response.found, NEW id \in Ids
  PROVE  prepare_response(ID, id).relatesTo = id /\ prepare_response(ID, id).found
<1>1. id \notin DigitIds /\ id \notin MultiLineIds /\ id \notin AlteredIds
  BY DEF PlainIds
<1>2. response \in Response /\ ID \in Nat
  BY DEF TypeOK
<1> DEFINE r == [response EXCEPT !.messageID = ID]
<1>3. r \in Response /\ r.found
  BY <1>2 DEF Response
<1> HIDE DEF r
<1>4. WithRelatesTo(r, id) = [r EXCEPT !.relatesTo = id, !.found = TRUE]
  BY <1>1, <1>3 DEF WithRelatesTo
<1>5. WithRelatesTo(r, id).relatesTo = id /\ WithRelatesTo(r, id).found
  BY <1>3, <1>4 DEF Response
<1> QED
  BY <1>5 DEF prepare_response, r

LEMMA DoSendRelated ==
  ASSUME PlainIds, IInv, RInv, DoSend
  PROVE  RInv'
<1>1. Received /\ Working /\ Matches(data) /\ UNCHANGED <<arrived, taken, data>>
  BY DEF DoSend, TakesDatagram, Received, networkVars
<1>2. /\ arrived \in Seq(Datagram) /\ taken \in 0..Len(arrived) /\ Len(arrived) \in Nat
      /\ taken > 0 /\ data = arrived[taken]
  BY <1>1, LenProperties DEF IInv, TypeOK, BufferIsKept
<1>3. data \in Datagram
  BY <1>2, ElementOfSeq
<1>4. data.id \in Ids
  BY <1>1, <1>3 DEF Matches, Datagram
<1>5. response'.relatesTo = data.id /\ response'.found
  BY <1>4, PlainResponse DEF DoSend, IInv, RInv
<1> DEFINE answer == [n |-> taken, to |-> data.from, text |-> response', overtaken |-> FALSE]
           late(a) == [a EXCEPT !.overtaken = TRUE]
<1>6. Related(answer)
  BY <1>2, <1>5 DEF Related
<1>7. \A a \in sends : Related(late(a))
  BY DEF RInv, Related, IInv, TypeOK, Answer
<1>8. \/ answers' = answers \cup {answer} /\ sends' = {late(a) : a \in sends}
      \/ sends' = {late(a) : a \in sends} \cup {answer} /\ answers' = answers
  BY DEF DoSend
<1> HIDE DEF answer, late
<1>9. \A a : Related(a) => Related(a)'
  BY <1>1 DEF Related
<1>10. \A a \in sends' : Related(a)'
  BY <1>6, <1>7, <1>8, <1>9
<1>11. \A a \in answers' : a \in answers \/ Related(a)
  BY <1>6, <1>8
<1>12. AnswersRelateToTheirProbes'
  BY <1>1, <1>11 DEF RInv, AnswersRelateToTheirProbes, Related
<1> QED
  BY <1>5, <1>10, <1>12 DEF RInv, Related

LEMMA NextRelated ==
  ASSUME PlainIds
  PROVE  IInv /\ RInv /\ [Next]_vars => RInv'
<1> SUFFICES ASSUME IInv, RInv, [Next]_vars PROVE RInv'
  OBVIOUS
<1>1. ASSUME NEW d \in Datagram, Arrive(d) PROVE RInv'
  <2>1. arrived \in Seq(Datagram) /\ taken \in 0..Len(arrived) /\ Len(arrived) \in Nat
    BY LenProperties DEF IInv, TypeOK
  <2>2. \A i \in 1..taken : arrived'[i] = arrived[i]
    BY <1>1, <2>1, AppendProperties DEF Arrive
  <2>3. \A a \in answers \cup sends : arrived'[a.n] = arrived[a.n]
    BY <2>2 DEF IInv, AnswersAreOld
  <2>4. UNCHANGED <<response, sends, answers>>
    BY <1>1 DEF Arrive, answerVars
  <2> QED
    BY <2>3, <2>4 DEF RInv, Related, AnswersRelateToTheirProbes
<1>2. ASSUME NEW a \in sends, SendCompletes(a) PROVE RInv'
  <2>1. UNCHANGED <<arrived, response>> /\ sends' = sends \ {a}
    BY <1>2 DEF SendCompletes, networkVars
  <2>2. \A b \in answers' : b \in answers \/ (~b.overtaken => Related(b))
    <3>1. a \in Answer /\ Related(a)
      BY DEF IInv, TypeOK, RInv
    <3>2. PICK text : /\ ~a.overtaken => text = a.text
                      /\ answers' = answers \cup {[a EXCEPT !.text = text]}
      BY <1>2 DEF SendCompletes
    <3> DEFINE b == [a EXCEPT !.text = text]
    <3>3. b.n = a.n /\ b.to = a.to /\ b.overtaken = a.overtaken /\ b.text = text
      BY <3>1 DEF Answer
    <3> HIDE DEF b
    <3>4. ~b.overtaken => Related(b)
      BY <3>1, <3>2, <3>3 DEF Related
    <3> QED
      BY <3>2, <3>4 DEF b
  <2>3. AnswersRelateToTheirProbes'
    BY <2>1, <2>2 DEF RInv, AnswersRelateToTheirProbes, Related
  <2> QED
    BY <2>1, <2>3 DEF RInv, Related
<1>3. CASE DoSend
  BY <1>3, DoSendRelated
<1>4. CASE UNCHANGED <<arrived, response, sends, answers>>
  BY <1>4 DEF RInv, Related, AnswersRelateToTheirProbes
<1>5. Start \/ Stop \/ ReceiveCompletes \/ ReceiveFails \/ DoReceive \/ ReceiveAfterError
      \/ Ignore \/ ParseFails \/ UNCHANGED vars => UNCHANGED <<arrived, response, sends, answers>>
  BY DEF Start, Stop, ReceiveCompletes, ReceiveFails, DoReceive, ReceiveAfterError, Ignore,
         ParseFails, vars, networkVars, answerVars
<1> QED
  BY <1>1, <1>2, <1>3, <1>4, <1>5 DEF Next

\* When the replacement takes every MessageID as it is (no digit in front, no line break,
\* no '$', nothing to escape), each answer that is not overtaken goes to the sender of its
\* probe and relates to it.
THEOREM AnswersAreRelated ==
  ASSUME PlainIds
  PROVE  Spec => []AnswersRelateToTheirProbes
<1>1. Init => RInv
  BY DEF Init, RInv, AnswersRelateToTheirProbes
<1>2. IInv /\ RInv /\ [Next]_vars => RInv'
  BY NextRelated
<1>3. RInv => AnswersRelateToTheirProbes
  BY DEF RInv
<1> QED
  BY <1>1, <1>2, <1>3, Invariance, PTL DEF Spec

=============================================================================
