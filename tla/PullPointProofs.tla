---------------------------- MODULE PullPointProofs ----------------------------
(***************************************************************************)
(* Proofs about PullPointService for any number of pull points, exchanges, *)
(* generators and sources.                                                 *)
(***************************************************************************)
EXTENDS PullPointService, SequenceFacts

-----------------------------------------------------------------------------
(* Typing.                                                                 *)

LEMMA SyncMessagesType ==
  ASSUME TypeOK
  PROVE  SyncMessages \in Seq(Message)
<1>1. SyncSources \in [1..Len(SyncSources) -> Sources] /\ Len(SyncSources) \in Nat
  BY SourcesAssumption, LenProperties
<1>2. DOMAIN SyncSources = 1..Len(SyncSources)
  BY SourcesAssumption, LenProperties
<1>3. ASSUME NEW i \in 1..Len(SyncSources) PROVE SyncMessages[i] \in Message
  <2>1. SyncSources[i] \in Sources
    BY <1>1
  <2>2. changes[SyncSources[i]] \in Nat
    BY <2>1 DEF TypeOK
  <2>3. (SyncSources[i] \in Sensed /\ logical[SyncSources[i]]) \in BOOLEAN
    OBVIOUS
  <2> QED
    BY <1>2, <2>1, <2>2, <2>3 DEF SyncMessages, Message
<1>4. SyncMessages \in [1..Len(SyncSources) -> Message]
  BY <1>2, <1>3 DEF SyncMessages
<1> QED
  BY <1>1, <1>4, SeqDef

LEMMA BurstType ==
  ASSUME TypeOK, NEW g \in Generators
  PROVE  Burst(g) \in Seq(Message)
<1>0. Signals[g] \in Seq(Sources)
  BY SourcesAssumption
<1>1. Signals[g] \in [1..Len(Signals[g]) -> Sources] /\ Len(Signals[g]) \in Nat
  BY <1>0, LenProperties
<1>2. DOMAIN Signals[g] = 1..Len(Signals[g])
  BY <1>0, LenProperties
<1>3. ASSUME NEW i \in 1..Len(Signals[g]) PROVE Burst(g)[i] \in Message
  <2>1. Signals[g][i] \in Sources
    BY <1>1
  <2>2. changes[Signals[g][i]] + 1 \in Nat
    BY <2>1 DEF TypeOK
  <2>3. (~logical[Signals[g][i]]) \in BOOLEAN
    OBVIOUS
  <2> QED
    BY <1>2, <2>1, <2>2, <2>3 DEF Burst, Message
<1>4. Burst(g) \in [1..Len(Signals[g]) -> Message]
  BY <1>2, <1>3 DEF Burst
<1> QED
  BY <1>1, <1>4, SeqDef

\* An exchange that is answered gets a reply, whatever pull point released it.
LEMMA ReplyTypes ==
  /\ {Unsent, Open, Ok, Fault, Dropped} \subseteq Reply
  /\ \A msgs \in Seq(Message) : PullMessagesResponse(msgs) \in Reply
<1>1. <<>> \in Seq(Message)
  OBVIOUS
<1> QED
  BY <1>1 DEF Reply, Statuses, Plain, Unsent, Open, Ok, Fault, Dropped, PullMessagesResponse

LEMMA ReleasedType ==
  ASSUME TypeOK, NEW p \in PullPoints
  PROVE  Released(p) \in [Requests -> Reply]
  BY ReplyTypes DEF Released, TypeOK

\* The pull point an address names is in the list, at its head.
LEMMA FoundPullPoint ==
  ASSUME TypeOK, NEW to, FindPullPoint(to) # None
  PROVE  /\ pullpoints # <<>>
         /\ FindPullPoint(to) = Head(pullpoints)
         /\ FindPullPoint(to) \in PullPoints
         /\ FindPullPoint(to) \in Live
<1>1. pullpoints # <<>> /\ FindPullPoint(to) = Head(pullpoints)
  BY DEF FindPullPoint
<1>2. pullpoints \in Seq(PullPoints)
  BY DEF TypeOK
<1> QED
  BY <1>1, <1>2, HeadTailProperties, TailElements DEF Live

LEMMA TimeoutAnswerType ==
  ASSUME TypeOK, NEW p \in PullPoints, AnswerWaiter(p)
  PROVE  /\ events' \in [PullPoints -> Seq(Message)]
         /\ is_client_waiting' \in [PullPoints -> BOOLEAN]
         /\ response_writer' \in [PullPoints -> Requests \cup {None}]
         /\ reply' \in [Requests -> Reply]
         /\ stream' \in [PullPoints -> Seq(Message)]
         /\ UNCHANGED <<pullpoints, created, timeout_timer, alarm_timer, logical, changes, base>>
<1>1. events[p] \in Seq(Message) /\ stream[p] \in Seq(Message)
  BY DEF TypeOK
<1>2. stream[p] \o events[p] \in Seq(Message)
  BY <1>1, ConcatProperties
<1>3. PullMessagesResponse(events[p]) \in Reply
  BY <1>1, ReplyTypes
<1>4. CASE is_client_waiting[p]
  <2>0. events' = [events EXCEPT ![p] = <<>>]
    BY <1>4 DEF AnswerWaiter, SwappedOut
  <2>1. events' \in [PullPoints -> Seq(Message)]
    BY <2>0 DEF TypeOK
  <2>2. /\ is_client_waiting' \in [PullPoints -> BOOLEAN]
        /\ response_writer' \in [PullPoints -> Requests \cup {None}]
    BY <1>4 DEF AnswerWaiter, StopsWaiting, TypeOK
  <2>3. reply' \in [Requests -> Reply]
    BY <1>3, <1>4 DEF AnswerWaiter, TypeOK
  <2>4. stream' \in [PullPoints -> Seq(Message)]
    BY <1>2, <1>4 DEF AnswerWaiter, TypeOK
  <2> QED
    BY <2>1, <2>2, <2>3, <2>4 DEF AnswerWaiter, alarmVars
<1>5. CASE ~is_client_waiting[p]
  BY <1>5 DEF AnswerWaiter, TypeOK, alarmVars
<1> QED
  BY <1>4, <1>5

LEMMA InitType == Init => TypeOK
<1> SUFFICES ASSUME Init PROVE TypeOK
  OBVIOUS
<1>1. changes \in [Sources -> Nat]
  BY DEF Init
<1>2. base \in [PullPoints -> [Sources -> Nat]]
  BY <1>1 DEF Init
<1> QED
  BY <1>1, <1>2, ReplyTypes DEF Init, TypeOK

LEMMA CreatePullPointType ==
  ASSUME TypeOK, NEW r \in Requests, NEW p \in PullPoints, CreatePullPoint(r, p)
  PROVE  TypeOK'
<1>1. pullpoints' \in Seq(PullPoints)
  BY AppendProperties DEF CreatePullPoint, TypeOK
<1>2. base' \in [PullPoints -> [Sources -> Nat]]
  BY DEF CreatePullPoint, TypeOK
<1>3. reply' \in [Requests -> Reply]
  BY ReplyTypes DEF CreatePullPoint, TypeOK
<1> QED
  BY <1>1, <1>2, <1>3 DEF CreatePullPoint, StoppedAndRun, TypeOK, pullVars

LEMMA PullMessagesType ==
  ASSUME TypeOK, NEW r \in Requests, NEW to,
         PullMessagesAtOnce(r, to) \/ PullMessagesWait(r, to)
  PROVE  TypeOK'
<1> DEFINE p == FindPullPoint(to)
<1>1. p \in PullPoints
  BY FoundPullPoint DEF PullMessagesAtOnce, PullMessagesWait
<1> HIDE DEF p
<1>2. Released(p) \in [Requests -> Reply]
  BY <1>1, ReleasedType
<1>3. events[p] \in Seq(Message) /\ stream[p] \in Seq(Message)
  BY <1>1 DEF TypeOK
<1>4. CASE PullMessagesAtOnce(r, to)
  <2>1. stream[p] \o events[p] \in Seq(Message)
    BY <1>3, ConcatProperties
  <2>2. reply' \in [Requests -> Reply]
    BY <1>2, <1>3, <1>4, ReplyTypes DEF PullMessagesAtOnce, p
  <2>3. stream' \in [PullPoints -> Seq(Message)]
    BY <1>1, <1>4, <2>1 DEF PullMessagesAtOnce, TypeOK, p
  <2>4. events' \in [PullPoints -> Seq(Message)]
    BY <1>1, <1>4 DEF PullMessagesAtOnce, SwappedOut, TypeOK, p
  <2> QED
    BY <1>1, <1>4, <2>2, <2>3, <2>4 DEF PullMessagesAtOnce, StopsWaiting, Charged, TypeOK, alarmVars, p
<1>5. CASE PullMessagesWait(r, to)
  <2>1. reply' \in [Requests -> Reply]
    BY <1>2, <1>5, ReplyTypes DEF PullMessagesWait, p
  <2> QED
    BY <1>1, <1>5, <2>1 DEF PullMessagesWait, Charged, TypeOK, alarmVars, p
<1> QED
  BY <1>4, <1>5

LEMMA SetSynchronizationPointType ==
  ASSUME TypeOK, NEW r \in Requests, NEW to, SetSynchronizationPoint(r, to)
  PROVE  TypeOK'
<1> DEFINE p == FindPullPoint(to)
<1>1. reply' \in [Requests -> Reply]
  BY ReplyTypes DEF SetSynchronizationPoint, TypeOK
<1>2. events' \in [PullPoints -> Seq(Message)]
  BY SyncMessagesType DEF SetSynchronizationPoint, TypeOK
<1> QED
  BY <1>1, <1>2 DEF SetSynchronizationPoint, TypeOK, alarmVars

LEMMA UnsubscribeType ==
  ASSUME TypeOK, NEW r \in Requests, NEW to, UnsubscribeFound(r, to)
  PROVE  TypeOK'
<1> DEFINE p == FindPullPoint(to)
<1>1. p \in PullPoints /\ pullpoints # <<>>
  BY FoundPullPoint DEF UnsubscribeFound
<1>2. pullpoints' \in Seq(PullPoints)
  BY <1>1, HeadTailProperties DEF UnsubscribeFound, TypeOK
<1>3. reply' \in [Requests -> Reply]
  BY <1>1, ReleasedType, ReplyTypes DEF UnsubscribeFound
<1>4. events' \in [PullPoints -> Seq(Message)]
  BY <1>1 DEF UnsubscribeFound, TypeOK
<1> QED
  BY <1>1, <1>2, <1>3, <1>4 DEF UnsubscribeFound, TypeOK, alarmVars

\* The requests that change nothing but the reply.
LEMMA ReplyOnlyType ==
  ASSUME TypeOK, NEW r \in Requests, NEW to,
         PullMessagesNotFound(r, to) \/ UnsubscribeNotFound(r, to) \/ Renew(r) \/ NotUnderstood(r)
  PROVE  TypeOK'
<1>1. reply' \in [Requests -> Reply]
  BY ReplyTypes DEF PullMessagesNotFound, UnsubscribeNotFound, Renew, NotUnderstood,
                    AnswerOk, TypeOK
<1> QED
  BY <1>1 DEF PullMessagesNotFound, UnsubscribeNotFound, Renew, NotUnderstood, AnswerOk,
              TypeOK, pullVars, alarmVars

LEMMA AlarmExpiresType ==
  ASSUME TypeOK, NEW g \in Generators, AlarmExpires(g)
  PROVE  TypeOK'
<1>1. Alarm(g) \in Completion
  BY DEF Alarm, Completion
<1>2. ready' \in Seq(Completion)
  BY <1>1, AppendProperties DEF AlarmExpires, TypeOK
<1> QED
  BY <1>2 DEF AlarmExpires, TypeOK, pullVars

LEMMA TimeoutExpiresType ==
  ASSUME TypeOK, NEW p \in PullPoints, TimeoutExpires(p)
  PROVE  TypeOK'
<1>1. Timeout(p, timeout_timer[p]) \in Completion
  BY DEF TimeoutExpires, TypeOK, Timeout, Completion
<1>2. ready' \in Seq(Completion)
  BY <1>1, AppendProperties DEF TimeoutExpires, TypeOK
<1> QED
  BY <1>2 DEF TimeoutExpires, TypeOK, alarmVars

LEMMA ReadyTail ==
  ASSUME TypeOK, ready # <<>>, ready' = Tail(ready)
  PROVE  ready' \in Seq(Completion)
  BY HeadTailProperties DEF TypeOK

LEMMA PullTimeoutType ==
  ASSUME TypeOK, NEW p \in PullPoints, PullTimeout(p)
  PROVE  TypeOK'
<1>1. ready' \in Seq(Completion)
  BY ReadyTail DEF PullTimeout
<1>2. AnswerWaiter(p)
  BY DEF PullTimeout
<1> QED
  BY <1>1, <1>2, TimeoutAnswerType DEF PullTimeout, TypeOK

LEMMA DanglingTimeoutType ==
  ASSUME TypeOK, NEW p \in PullPoints, DanglingTimeout(p)
  PROVE  TypeOK'
<1>1. ready' \in Seq(Completion)
  BY ReadyTail DEF DanglingTimeout
<1>2. ASSUME NEW q \in Live, AnswerWaiter(q), UNCHANGED alive
      PROVE  TypeOK'
  <2>1. q \in PullPoints
    BY RangeOfSeq DEF TypeOK, Live
  <2> QED
    BY <1>1, <1>2, <2>1, TimeoutAnswerType DEF TypeOK
<1>3. ASSUME alive' \in BOOLEAN,
             UNCHANGED <<pullpoints, created, pullVars, alarmVars, reply, stream, base>>
      PROVE  TypeOK'
  BY <1>1, <1>3 DEF TypeOK, pullVars, alarmVars
<1> QED
  BY <1>2, <1>3 DEF DanglingTimeout

LEMMA GenerateEventType ==
  ASSUME TypeOK, NEW g \in Generators, GenerateEvent(g)
  PROVE  TypeOK'
<1> DEFINE burst == Burst(g)
<1>1. burst \in Seq(Message)
  BY BurstType
<1> HIDE DEF burst
<1>2. ready' \in Seq(Completion)
  BY ReadyTail DEF GenerateEvent
<1>3. logical' \in [Sources -> BOOLEAN]
  BY DEF GenerateEvent, TypeOK
<1>4. changes' \in [Sources -> Nat]
  BY DEF GenerateEvent, TypeOK
<1>5. ASSUME NEW p \in PullPoints
      PROVE  /\ events[p] \in Seq(Message)
             /\ stream[p] \in Seq(Message)
             /\ events[p] \o burst \in Seq(Message)
             /\ burst # <<>> => /\ Tail(burst) \in Seq(Message)
                                /\ Sent(p, burst) \in Seq(Message)
                                /\ stream[p] \o Sent(p, burst) \in Seq(Message)
  <2>1. events[p] \in Seq(Message) /\ stream[p] \in Seq(Message)
    BY DEF TypeOK
  <2>2. events[p] \o burst \in Seq(Message)
    BY <1>1, <2>1, ConcatProperties
  <2>3. ASSUME burst # <<>>
        PROVE  Tail(burst) \in Seq(Message) /\ Sent(p, burst) \in Seq(Message)
    BY <1>1, <2>1, <2>3, HeadTailProperties, AppendProperties DEF Sent
  <2> QED
    BY <2>1, <2>2, <2>3, ConcatProperties
<1>6. events' \in [PullPoints -> Seq(Message)]
  BY <1>5 DEF GenerateEvent, Queued, Answers, burst
<1>7. stream' \in [PullPoints -> Seq(Message)]
  BY <1>5 DEF GenerateEvent, Answers, burst
<1>8. reply' \in [Requests -> Reply]
  <2>1. ASSUME NEW r \in Requests PROVE reply'[r] \in Reply
    <3> DEFINE A(p) == Answers(p, burst) /\ response_writer[p] = r
    <3>1. CASE \E p \in PullPoints : A(p)
      <4> DEFINE q == CHOOSE p \in PullPoints : A(p)
      <4>1. q \in PullPoints /\ A(q)
        BY <3>1
      <4>2. reply'[r] = PullMessagesResponse(Sent(q, burst))
        BY <3>1 DEF GenerateEvent, burst
      <4> QED
        BY <4>1, <4>2, <1>5, ReplyTypes DEF Answers
    <3>2. CASE ~ \E p \in PullPoints : A(p)
      BY <3>2 DEF GenerateEvent, TypeOK, burst
    <3> QED
      BY <3>1, <3>2
  <2>2. reply' = [r \in Requests |-> reply'[r]]
    BY DEF GenerateEvent
  <2> QED
    BY <2>1, <2>2
<1>9. /\ is_client_waiting' \in [PullPoints -> BOOLEAN]
      /\ response_writer' \in [PullPoints -> Requests \cup {None}]
  BY DEF GenerateEvent, TypeOK
<1>10. alarm_timer' \in [Generators -> BOOLEAN]
  BY DEF GenerateEvent, TypeOK
<1> QED
  BY <1>2, <1>3, <1>4, <1>6, <1>7, <1>8, <1>9, <1>10 DEF GenerateEvent, TypeOK

\* Every step keeps the types.
LEMMA NextType == TypeOK /\ [Next]_vars => TypeOK'
<1> SUFFICES ASSUME TypeOK, [Next]_vars PROVE TypeOK'
  OBVIOUS
<1>1. ASSUME NEW r \in Requests, Request(r) PROVE TypeOK'
  BY <1>1, CreatePullPointType, PullMessagesType, SetSynchronizationPointType,
     UnsubscribeType, ReplyOnlyType DEF Request
<1>2. ASSUME NEW g \in Generators, AlarmExpires(g) PROVE TypeOK'
  BY <1>2, AlarmExpiresType
<1>3. ASSUME NEW p \in PullPoints, TimeoutExpires(p) PROVE TypeOK'
  BY <1>3, TimeoutExpiresType
<1>4. ASSUME RunReady PROVE TypeOK'
  BY <1>4, GenerateEventType, PullTimeoutType, DanglingTimeoutType DEF RunReady
<1>5. CASE UNCHANGED vars
  BY <1>5 DEF TypeOK, vars, pullVars, alarmVars
<1> QED
  BY <1>1, <1>2, <1>3, <1>4, <1>5 DEF Next

\* All variables keep their types, for any number of objects.
THEOREM TypeCorrect == Spec => []TypeOK
  BY InitType, NextType, PTL DEF Spec

-----------------------------------------------------------------------------
(* The inductive invariant.  OpenPullIsCovered alone is not inductive: that  *)
(* Unsubscribe removes only the pull point it destroys needs the list to     *)
(* hold each object once, and that an answer closes only its own pull needs  *)
(* what a waiting pull point points at to be open (WriterIsOpen).            *)

Registered == IsInjective(pullpoints) /\ Live \subseteq created

IInv ==
  /\ TypeOK
  /\ Registered
  /\ OpenPullIsCovered
  /\ WriterIsOpen
  /\ AlarmsNeverStop

LEMMA RepliesDiffer ==
  /\ Unsent # Open /\ Ok # Open /\ Fault # Open /\ Dropped # Open
  /\ \A msgs : PullMessagesResponse(msgs) # Open
  BY DEF Unsent, Open, Ok, Fault, Dropped, Plain, PullMessagesResponse

LEMMA LiveInPullPoints == ASSUME TypeOK PROVE Live \subseteq PullPoints
  BY RangeOfSeq DEF TypeOK, Live

\* Requests that change nothing but the reply of an exchange not seen before.
LEMMA ReplyOnlyKeeps ==
  ASSUME IInv, NEW r \in Requests, reply[r] = Unsent, NEW a \in Reply, a # Open,
         reply' = [reply EXCEPT ![r] = a],
         UNCHANGED <<pullpoints, created, is_client_waiting, response_writer, timeout_timer,
                     ready, alarm_timer>>
  PROVE  Registered' /\ OpenPullIsCovered' /\ WriterIsOpen' /\ AlarmsNeverStop'
<1>1. Live' = Live
  BY DEF Live
<1>2. \A kind, owner : IsReady(kind, owner)' <=> IsReady(kind, owner)
  BY DEF IsReady
<1>3. \A p : TimeoutPending(p)' <=> TimeoutPending(p)
  BY <1>2 DEF TimeoutPending
<1>4. \A q, p : HeldBy(q, p)' <=> HeldBy(q, p)
  BY DEF HeldBy
<1>5. OpenPullIsCovered'
  <2> SUFFICES ASSUME NEW q \in Requests, reply'[q] = Open
               PROVE  \E p \in Live' : /\ HeldBy(q, p)'
                                       /\ TimeoutPending(p)'
                                       /\ \A p2 \in PullPoints : HeldBy(q, p2)' => p2 = p
    BY DEF OpenPullIsCovered
  <2>1. reply[q] = Open
    BY DEF IInv, TypeOK
  <2> QED
    BY <1>1, <1>3, <1>4, <2>1 DEF IInv, OpenPullIsCovered
<1>6. WriterIsOpen'
  BY <1>1, RepliesDiffer DEF IInv, TypeOK, WriterIsOpen
<1> QED
  BY <1>1, <1>2, <1>5, <1>6 DEF IInv, Registered, AlarmsNeverStop

LEMMA CreatePullPointKeeps ==
  ASSUME IInv, NEW r \in Requests, NEW p \in PullPoints, CreatePullPoint(r, p)
  PROVE  Registered' /\ OpenPullIsCovered' /\ WriterIsOpen' /\ AlarmsNeverStop'
<1>0. pullpoints \in Seq(PullPoints) /\ reply \in [Requests -> Reply]
  BY DEF IInv, TypeOK
<1>1. Live' = Live \cup {p}
  BY <1>0, AppendElements DEF CreatePullPoint, Live
<1>2. p \notin Live
  BY DEF CreatePullPoint, IInv, Registered
<1>3. \A kind, owner : IsReady(kind, owner)' <=> IsReady(kind, owner)
  BY DEF CreatePullPoint, IsReady
<1>4. \A q, o : HeldBy(q, o)' <=> HeldBy(q, o)
  BY DEF CreatePullPoint, HeldBy, pullVars
<1>5. \A q : TimeoutPending(q)' <=> TimeoutPending(q)
  BY <1>3 DEF CreatePullPoint, TimeoutPending, pullVars
<1>6. Registered'
  <2>1. IsInjective(pullpoints')
    BY <1>0, <1>2, AppendDistinct DEF CreatePullPoint, IInv, Registered, Live
  <2> QED
    BY <1>1, <2>1 DEF CreatePullPoint, IInv, Registered
<1>7. \A q \in Requests : reply'[q] = Open => reply[q] = Open
  BY <1>0, RepliesDiffer DEF CreatePullPoint
<1>8. OpenPullIsCovered'
  BY <1>1, <1>4, <1>5, <1>7 DEF IInv, OpenPullIsCovered
<1>9. WriterIsOpen'
  BY <1>0, <1>1, RepliesDiffer DEF CreatePullPoint, IInv, WriterIsOpen, pullVars
<1>10. AlarmsNeverStop'
  BY DEF CreatePullPoint, StoppedAndRun, AlarmsNeverStop
<1> QED
  BY <1>6, <1>8, <1>9, <1>10

\* The pull points of W stop waiting and their pulls are closed; every other pull
\* point that waits stays in the list, as it is, and keeps its timeout.
LEMMA AnswersKeepCover ==
  ASSUME IInv, NEW W \in SUBSET PullPoints, Live' \subseteq Live,
         \A p \in PullPoints : is_client_waiting'[p] <=> is_client_waiting[p] /\ p \notin W,
         \A p \in PullPoints \ W : response_writer'[p] = response_writer[p],
         \A p \in PullPoints \ W : is_client_waiting[p] =>
           p \in Live' /\ (TimeoutPending(p) => TimeoutPending(p)'),
         \A q \in Requests :
           reply'[q] = Open <=> reply[q] = Open /\ ~ \E p \in W : HeldBy(q, p)
  PROVE  OpenPullIsCovered' /\ WriterIsOpen'
<1>0. Live \subseteq PullPoints
  BY LiveInPullPoints DEF IInv
<1>1. ASSUME NEW q \in Requests, NEW p \in PullPoints, HeldBy(q, p)'
      PROVE  HeldBy(q, p) /\ p \notin W
  BY <1>1 DEF HeldBy
<1>2. OpenPullIsCovered'
  <2> SUFFICES ASSUME NEW q \in Requests, reply'[q] = Open
               PROVE  \E p \in Live' : /\ HeldBy(q, p)'
                                       /\ TimeoutPending(p)'
                                       /\ \A p2 \in PullPoints : HeldBy(q, p2)' => p2 = p
    BY DEF OpenPullIsCovered
  <2>1. PICK p \in Live : /\ HeldBy(q, p)
                          /\ TimeoutPending(p)
                          /\ \A p2 \in PullPoints : HeldBy(q, p2) => p2 = p
    BY DEF IInv, OpenPullIsCovered
  <2>2. p \in PullPoints /\ p \notin W
    BY <1>0, <2>1
  <2>3. p \in Live' /\ TimeoutPending(p)' /\ HeldBy(q, p)'
    BY <2>1, <2>2 DEF HeldBy
  <2> QED
    BY <1>1, <2>1, <2>3
<1>3. ASSUME NEW p \in PullPoints, is_client_waiting'[p]
      PROVE  /\ p \in Live'
             /\ response_writer'[p] \in Requests
             /\ reply'[response_writer'[p]] = Open
  <2>1. is_client_waiting[p] /\ p \notin W
    BY <1>3
  <2>2. response_writer[p] \in Requests /\ reply[response_writer[p]] = Open
    BY <2>1 DEF IInv, WriterIsOpen
  <2>3. HeldBy(response_writer[p], p)
    BY <2>1 DEF HeldBy
  <2>4. \A o \in W : ~HeldBy(response_writer[p], o)
    <3> SUFFICES ASSUME NEW o \in W, HeldBy(response_writer[p], o) PROVE FALSE
      OBVIOUS
    <3>1. o = p
      BY <2>2, <2>3 DEF IInv, OpenPullIsCovered
    <3> QED
      BY <2>1, <3>1
  <2> QED
    BY <2>1, <2>2, <2>4
<1>4. WriterIsOpen'
  BY <1>3 DEF WriterIsOpen
<1> QED
  BY <1>2, <1>4

\* A pull point that waits holds an open pull, so Released closes that one only.
LEMMA ReleasedCloses ==
  ASSUME IInv, NEW p \in PullPoints, NEW q \in Requests
  PROVE  /\ Released(p)[q] = Open <=> reply[q] = Open /\ ~HeldBy(q, p)
         /\ reply[q] = Unsent => Released(p)[q] = Unsent
<1>1. CASE is_client_waiting[p]
  <2>1. response_writer[p] \in Requests /\ reply[response_writer[p]] = Open
    BY <1>1 DEF IInv, WriterIsOpen
  <2> QED
    BY <1>1, <2>1, RepliesDiffer DEF Released, HeldBy, IInv, TypeOK
<1>2. CASE ~is_client_waiting[p]
  BY <1>2 DEF Released, HeldBy
<1> QED
  BY <1>1, <1>2

LEMMA PullMessagesAtOnceKeeps ==
  ASSUME IInv, NEW r \in Requests, NEW to, PullMessagesAtOnce(r, to)
  PROVE  Registered' /\ OpenPullIsCovered' /\ WriterIsOpen' /\ AlarmsNeverStop'
<1> DEFINE p == FindPullPoint(to)
<1>1. p \in PullPoints
  BY FoundPullPoint DEF PullMessagesAtOnce, IInv
<1> HIDE DEF p
<1>2. Live' = Live
  BY DEF PullMessagesAtOnce, Live
<1>3. \A kind, owner : IsReady(kind, owner)' <=> IsReady(kind, owner)
  BY DEF PullMessagesAtOnce, IsReady
<1>4. \A q \in PullPoints : TimeoutPending(q) => TimeoutPending(q)'
  BY <1>1, <1>3, SourcesAssumption DEF PullMessagesAtOnce, Charged, TimeoutPending, IInv, TypeOK, p
<1>5. \A q \in PullPoints : is_client_waiting'[q] <=> is_client_waiting[q] /\ q \notin {p}
  BY <1>1 DEF PullMessagesAtOnce, StopsWaiting, IInv, TypeOK, p
<1>6. \A q \in PullPoints \ {p} : response_writer'[q] = response_writer[q]
  BY <1>1 DEF PullMessagesAtOnce, StopsWaiting, IInv, TypeOK, p
<1>7. \A q \in PullPoints \ {p} : is_client_waiting[q] => q \in Live'
  BY <1>2 DEF IInv, WriterIsOpen
<1>8. \A q \in Requests : reply'[q] = Open <=> reply[q] = Open /\ ~ \E o \in {p} : HeldBy(q, o)
  <2>1. Released(p) \in [Requests -> Reply]
    BY <1>1, ReleasedType DEF IInv
  <2>2. reply' = [Released(p) EXCEPT ![r] = PullMessagesResponse(events[p])]
    BY DEF PullMessagesAtOnce, p
  <2>3. reply[r] # Open
    BY RepliesDiffer DEF PullMessagesAtOnce
  <2> QED
    BY <1>1, <2>1, <2>2, <2>3, ReleasedCloses, RepliesDiffer
<1>9. OpenPullIsCovered' /\ WriterIsOpen'
  BY <1>1, <1>2, <1>4, <1>5, <1>6, <1>7, <1>8, AnswersKeepCover
<1>10. AlarmsNeverStop'
  BY <1>3 DEF PullMessagesAtOnce, AlarmsNeverStop, alarmVars, IInv
<1> QED
  BY <1>2, <1>9, <1>10 DEF PullMessagesAtOnce, IInv, Registered

LEMMA PullMessagesWaitKeeps ==
  ASSUME IInv, NEW r \in Requests, NEW to, PullMessagesWait(r, to)
  PROVE  Registered' /\ OpenPullIsCovered' /\ WriterIsOpen' /\ AlarmsNeverStop'
<1>1. PICK p \in PullPoints : p = FindPullPoint(to) /\ p \in Live
  BY FoundPullPoint DEF PullMessagesWait, IInv
<1>2. Live' = Live
  BY DEF PullMessagesWait, Live
<1>3. \A kind, owner : IsReady(kind, owner)' <=> IsReady(kind, owner)
  BY DEF PullMessagesWait, IsReady
<1>4. \A q \in PullPoints \ {p} : /\ is_client_waiting'[q] = is_client_waiting[q]
                                  /\ response_writer'[q] = response_writer[q]
                                  /\ TimeoutPending(q)' <=> TimeoutPending(q)
  BY <1>1, <1>3 DEF PullMessagesWait, Charged, TimeoutPending, IInv, TypeOK
<1>5. is_client_waiting'[p] /\ response_writer'[p] = r /\ TimeoutPending(p)'
  <2>1. /\ is_client_waiting' = [is_client_waiting EXCEPT ![p] = TRUE]
        /\ response_writer' = [response_writer EXCEPT ![p] = r]
        /\ timeout_timer' = [timeout_timer EXCEPT ![p] = r]
    BY <1>1 DEF PullMessagesWait, Charged
  <2>2. /\ is_client_waiting \in [PullPoints -> BOOLEAN]
        /\ response_writer \in [PullPoints -> Requests \cup {None}]
        /\ timeout_timer \in [PullPoints -> Requests \cup {None}]
    BY DEF IInv, TypeOK
  <2>3. is_client_waiting'[p] = TRUE /\ response_writer'[p] = r /\ timeout_timer'[p] = r
    BY <1>1, <2>1, <2>2
  <2>4. r # None
    BY SourcesAssumption
  <2>5. timeout_timer'[p] # None
    BY <2>3, <2>4
  <2>6. TimeoutPending(p)'
    BY <2>5 DEF TimeoutPending
  <2> QED
    BY <2>3, <2>6
<1>6. reply[r] # Open
  BY RepliesDiffer DEF PullMessagesWait
<1>7. \A q \in Requests : reply'[q] = Open <=> q = r \/ (reply[q] = Open /\ ~HeldBy(q, p))
  <2>1. Released(p) \in [Requests -> Reply]
    BY <1>1, ReleasedType DEF IInv
  <2>2. reply' = [Released(p) EXCEPT ![r] = Open]
    BY <1>1 DEF PullMessagesWait
  <2> QED
    BY <1>1, <2>1, <2>2, ReleasedCloses
<1>8. OpenPullIsCovered'
  <2> SUFFICES ASSUME NEW q \in Requests, reply'[q] = Open
               PROVE  \E o \in Live' : /\ HeldBy(q, o)'
                                       /\ TimeoutPending(o)'
                                       /\ \A o2 \in PullPoints : HeldBy(q, o2)' => o2 = o
    BY DEF OpenPullIsCovered
  <2>1. CASE q = r
    <3>1. \A o2 \in PullPoints \ {p} : ~HeldBy(r, o2)'
      BY <1>4, <1>6 DEF HeldBy, IInv, WriterIsOpen
    <3>2. HeldBy(r, p)'
      BY <1>5 DEF HeldBy
    <3>3. TimeoutPending(p)' /\ p \in Live'
      BY <1>1, <1>2, <1>5
    <3> QED
      BY <2>1, <3>1, <3>2, <3>3
  <2>2. CASE q # r
    <3>1. PICK o \in Live : /\ HeldBy(q, o)
                            /\ TimeoutPending(o)
                            /\ \A o2 \in PullPoints : HeldBy(q, o2) => o2 = o
      BY <1>7, <2>2 DEF IInv, OpenPullIsCovered
    <3>2. o # p
      BY <1>7, <2>2, <3>1
    <3>3. o \in PullPoints
      BY LiveInPullPoints DEF IInv
    <3>4. HeldBy(q, o)' /\ TimeoutPending(o)'
      BY <1>4, <3>1, <3>2, <3>3 DEF HeldBy
    <3>5. \A o2 \in PullPoints : HeldBy(q, o2)' => HeldBy(q, o2)
      BY <1>4, <1>5, <2>2 DEF HeldBy
    <3> QED
      BY <1>2, <3>1, <3>4, <3>5
  <2> QED
    BY <2>1, <2>2
<1>9. WriterIsOpen'
  <2>1. ASSUME NEW q \in PullPoints \ {p}, is_client_waiting'[q]
        PROVE  /\ q \in Live'
               /\ response_writer'[q] \in Requests
               /\ reply'[response_writer'[q]] = Open
    <3>1. /\ q \in Live /\ response_writer[q] \in Requests
          /\ reply[response_writer[q]] = Open
      BY <1>4, <2>1 DEF IInv, WriterIsOpen
    <3>2. ~HeldBy(response_writer[q], p)
      BY <1>1, <1>4, <2>1, <3>1 DEF HeldBy, IInv, OpenPullIsCovered
    <3> QED
      BY <1>2, <1>4, <1>7, <3>1, <3>2
  <2> QED
    BY <1>1, <1>2, <1>5, <1>7, <2>1 DEF WriterIsOpen
<1>10. AlarmsNeverStop'
  BY <1>3 DEF PullMessagesWait, AlarmsNeverStop, alarmVars, IInv
<1> QED
  BY <1>2, <1>8, <1>9, <1>10 DEF PullMessagesWait, IInv, Registered

LEMMA SetSynchronizationPointKeeps ==
  ASSUME IInv, NEW r \in Requests, NEW to, SetSynchronizationPoint(r, to)
  PROVE  Registered' /\ OpenPullIsCovered' /\ WriterIsOpen' /\ AlarmsNeverStop'
<1>1. reply' = [reply EXCEPT ![r] = Fault] \/ reply' = [reply EXCEPT ![r] = Ok]
  BY DEF SetSynchronizationPoint
<1> QED
  BY <1>1, ReplyOnlyKeeps, ReplyTypes, RepliesDiffer DEF SetSynchronizationPoint, alarmVars

LEMMA UnsubscribeKeeps ==
  ASSUME IInv, NEW r \in Requests, NEW to, UnsubscribeFound(r, to)
  PROVE  Registered' /\ OpenPullIsCovered' /\ WriterIsOpen' /\ AlarmsNeverStop'
<1> DEFINE p == FindPullPoint(to)
<1>1. p \in PullPoints /\ pullpoints # <<>> /\ p = Head(pullpoints)
  BY FoundPullPoint DEF UnsubscribeFound, IInv
<1> HIDE DEF p
<1>2. IsInjective(pullpoints') /\ Live' = Live \ {p}
  BY <1>1, TailDistinct DEF UnsubscribeFound, IInv, TypeOK, Registered, Live
<1>3. \A kind, owner : IsReady(kind, owner)' <=> IsReady(kind, owner)
  BY DEF UnsubscribeFound, IsReady
<1>4. \A q \in PullPoints \ {p} : TimeoutPending(q) => TimeoutPending(q)'
  BY <1>1, <1>3 DEF UnsubscribeFound, TimeoutPending, IInv, TypeOK, p
<1>5. \A q \in PullPoints : is_client_waiting'[q] <=> is_client_waiting[q] /\ q \notin {p}
  BY <1>1 DEF UnsubscribeFound, IInv, TypeOK, p
<1>6. \A q \in PullPoints \ {p} : response_writer'[q] = response_writer[q]
  BY <1>1 DEF UnsubscribeFound, IInv, TypeOK, p
<1>7. \A q \in PullPoints \ {p} : is_client_waiting[q] => q \in Live'
  BY <1>2 DEF IInv, WriterIsOpen
<1>8. \A q \in Requests : reply'[q] = Open <=> reply[q] = Open /\ ~ \E o \in {p} : HeldBy(q, o)
  <2>1. Released(p) \in [Requests -> Reply]
    BY <1>1, ReleasedType DEF IInv
  <2>2. reply' = [Released(p) EXCEPT ![r] = Ok]
    BY DEF UnsubscribeFound, p
  <2>3. reply[r] # Open
    BY RepliesDiffer DEF UnsubscribeFound
  <2> QED
    BY <1>1, <2>1, <2>2, <2>3, ReleasedCloses, RepliesDiffer
<1>9. OpenPullIsCovered' /\ WriterIsOpen'
  BY <1>1, <1>2, <1>4, <1>5, <1>6, <1>7, <1>8, AnswersKeepCover
<1>10. AlarmsNeverStop'
  BY <1>3 DEF UnsubscribeFound, AlarmsNeverStop, alarmVars, IInv
<1> QED
  BY <1>2, <1>9, <1>10 DEF UnsubscribeFound, IInv, Registered

\* An expired wait is in the queue behind what was there.
LEMMA ExpiresReady ==
  ASSUME TypeOK, NEW c \in Completion, ready' = Append(ready, c)
  PROVE  /\ IsReady(c.kind, c.owner)'
         /\ \A kind, owner : IsReady(kind, owner) => IsReady(kind, owner)'
<1>1. Range(ready') = Range(ready) \cup {c}
  BY AppendElements DEF TypeOK
<1> QED
  BY <1>1 DEF IsReady

LEMMA AlarmExpiresKeeps ==
  ASSUME IInv, NEW g \in Generators, AlarmExpires(g)
  PROVE  Registered' /\ OpenPullIsCovered' /\ WriterIsOpen' /\ AlarmsNeverStop'
<1>1. Alarm(g) \in Completion /\ Alarm(g).kind = "alarm" /\ Alarm(g).owner = g
  BY DEF Alarm, Completion
<1>2. /\ IsReady("alarm", g)'
      /\ \A kind, owner : IsReady(kind, owner) => IsReady(kind, owner)'
  BY <1>1, ExpiresReady DEF AlarmExpires, IInv
<1>3. \A q \in PullPoints : TimeoutPending(q) => TimeoutPending(q)'
  BY <1>2 DEF AlarmExpires, TimeoutPending, pullVars
<1>4. Live' = Live
  BY DEF AlarmExpires, Live
<1>5. OpenPullIsCovered' /\ WriterIsOpen'
  <2> DEFINE W == {}
  <2>1. /\ \A p \in PullPoints : is_client_waiting'[p] <=> is_client_waiting[p] /\ p \notin W
        /\ \A p \in PullPoints \ W : response_writer'[p] = response_writer[p]
        /\ \A q \in Requests :
             reply'[q] = Open <=> reply[q] = Open /\ ~ \E p \in W : HeldBy(q, p)
    BY DEF AlarmExpires, pullVars
  <2>2. \A p \in PullPoints \ W : is_client_waiting[p] => p \in Live'
    BY <1>4 DEF IInv, WriterIsOpen
  <2> HIDE DEF W
  <2>3. W \in SUBSET PullPoints
    BY DEF W
  <2> QED
    BY <1>3, <1>4, <2>1, <2>2, <2>3, AnswersKeepCover
<1>6. AlarmsNeverStop'
  BY <1>2 DEF AlarmExpires, AlarmsNeverStop, IInv, TypeOK
<1> QED
  BY <1>4, <1>5, <1>6 DEF AlarmExpires, IInv, Registered

LEMMA TimeoutExpiresKeeps ==
  ASSUME IInv, NEW p \in PullPoints, TimeoutExpires(p)
  PROVE  Registered' /\ OpenPullIsCovered' /\ WriterIsOpen' /\ AlarmsNeverStop'
<1> DEFINE c == Timeout(p, timeout_timer[p])
<1>1. c \in Completion /\ c.kind = "timeout" /\ c.owner = p
  BY DEF TimeoutExpires, IInv, TypeOK, Timeout, Completion
<1>2. /\ IsReady("timeout", p)'
      /\ \A kind, owner : IsReady(kind, owner) => IsReady(kind, owner)'
  BY <1>1, ExpiresReady DEF TimeoutExpires, IInv
<1>3. \A q \in PullPoints : TimeoutPending(q) => TimeoutPending(q)'
  BY <1>2 DEF TimeoutExpires, TimeoutPending, IInv, TypeOK
<1>4. Live' = Live
  BY DEF TimeoutExpires, Live
<1>5. OpenPullIsCovered' /\ WriterIsOpen'
  <2> DEFINE W == {}
  <2>1. /\ \A q \in PullPoints : is_client_waiting'[q] <=> is_client_waiting[q] /\ q \notin W
        /\ \A q \in PullPoints \ W : response_writer'[q] = response_writer[q]
        /\ \A q \in Requests :
             reply'[q] = Open <=> reply[q] = Open /\ ~ \E o \in W : HeldBy(q, o)
    BY DEF TimeoutExpires
  <2>2. \A q \in PullPoints \ W : is_client_waiting[q] => q \in Live'
    BY <1>4 DEF IInv, WriterIsOpen
  <2> HIDE DEF W
  <2>3. W \in SUBSET PullPoints
    BY DEF W
  <2> QED
    BY <1>3, <1>4, <2>1, <2>2, <2>3, AnswersKeepCover
<1>6. AlarmsNeverStop'
  BY <1>2 DEF TimeoutExpires, AlarmsNeverStop, alarmVars, IInv
<1> QED
  BY <1>4, <1>5, <1>6 DEF TimeoutExpires, IInv, Registered

\* The worker takes one handler from the queue and leaves all others there.
LEMMA TakenFromReady ==
  ASSUME TypeOK, ready # <<>>, ready' = Tail(ready), NEW kind, NEW owner,
         Head(ready).kind # kind \/ Head(ready).owner # owner
  PROVE  IsReady(kind, owner) => IsReady(kind, owner)'
<1>1. Range(ready) = Range(Tail(ready)) \cup {Head(ready)}
  BY TailElements DEF TypeOK
<1>2. Range(ready') = Range(Tail(ready))
  OBVIOUS
<1> QED
  BY <1>1, <1>2 DEF IsReady

LEMMA GenerateEventKeeps ==
  ASSUME IInv, NEW g \in Generators, GenerateEvent(g)
  PROVE  Registered' /\ OpenPullIsCovered' /\ WriterIsOpen' /\ AlarmsNeverStop'
<1>1. PICK W \in SUBSET PullPoints : W = {p \in PullPoints : Answers(p, Burst(g))}
  OBVIOUS
<1>2. Live' = Live
  BY DEF GenerateEvent, Live
<1>3. /\ ready # <<>> /\ ready' = Tail(ready)
      /\ Head(ready).kind = "alarm" /\ Head(ready).owner = g
  BY DEF GenerateEvent, Alarm
<1>4. \A q \in PullPoints : TimeoutPending(q) => TimeoutPending(q)'
  <2>1. timeout_timer' = timeout_timer
    BY DEF GenerateEvent
  <2>2. \A q \in PullPoints : IsReady("timeout", q) => IsReady("timeout", q)'
    BY <1>3, TakenFromReady DEF IInv
  <2> QED
    BY <2>1, <2>2 DEF TimeoutPending
<1>5. \A q \in PullPoints : is_client_waiting'[q] <=> is_client_waiting[q] /\ q \notin W
  BY <1>1 DEF GenerateEvent
<1>6. \A q \in PullPoints \ W : response_writer'[q] = response_writer[q]
  BY <1>1 DEF GenerateEvent
<1>7. \A q \in PullPoints \ W : is_client_waiting[q] => q \in Live'
  BY <1>2 DEF IInv, WriterIsOpen
<1>8. \A q \in Requests : reply'[q] = Open <=> reply[q] = Open /\ ~ \E o \in W : HeldBy(q, o)
  <2> SUFFICES ASSUME NEW q \in Requests
               PROVE  reply'[q] = Open <=> reply[q] = Open /\ ~ \E o \in W : HeldBy(q, o)
    OBVIOUS
  <2>1. (\E o \in W : HeldBy(q, o)) <=>
        \E p \in PullPoints : Answers(p, Burst(g)) /\ response_writer[p] = q
    BY <1>1 DEF HeldBy, Answers
  <2>2. CASE \E o \in W : HeldBy(q, o)
    <3>1. \E msgs : reply'[q] = PullMessagesResponse(msgs)
      BY <2>1, <2>2 DEF GenerateEvent
    <3> QED
      BY <2>2, <3>1, RepliesDiffer
  <2>3. CASE ~ \E o \in W : HeldBy(q, o)
    <3>1. reply'[q] = reply[q]
      BY <2>1, <2>3 DEF GenerateEvent
    <3> QED
      BY <2>3, <3>1
  <2> QED
    BY <2>2, <2>3
<1>9. OpenPullIsCovered' /\ WriterIsOpen'
  BY <1>1, <1>2, <1>4, <1>5, <1>6, <1>7, <1>8, AnswersKeepCover
<1>10. AlarmsNeverStop'
  <2> SUFFICES ASSUME NEW h \in Generators PROVE alarm_timer'[h] \/ IsReady("alarm", h)'
    BY DEF AlarmsNeverStop
  <2>1. alarm_timer' = [alarm_timer EXCEPT ![g] = TRUE]
    BY DEF GenerateEvent
  <2>2. CASE h = g
    BY <2>1, <2>2 DEF IInv, TypeOK
  <2>3. CASE h # g
    <3>1. alarm_timer'[h] = alarm_timer[h]
      BY <2>1, <2>3 DEF IInv, TypeOK
    <3>2. IsReady("alarm", h) => IsReady("alarm", h)'
      BY <1>3, <2>3, TakenFromReady DEF IInv
    <3>3. alarm_timer[h] \/ IsReady("alarm", h)
      BY DEF IInv, AlarmsNeverStop
    <3> QED
      BY <3>1, <3>2, <3>3
  <2> QED
    BY <2>2, <2>3
<1> QED
  BY <1>2, <1>9, <1>10 DEF GenerateEvent, IInv, Registered

\* The handler of a timeout of p has run and has answered the pull that waited
\* at q, if any; q is p unless p is no longer in the list.
LEMMA TimeoutHandled ==
  ASSUME IInv, NEW p \in PullPoints, NEW q \in PullPoints, q = p \/ p \notin Live,
         ready # <<>>, Head(ready).kind = "timeout", Head(ready).owner = p,
         ready' = Tail(ready), AnswerWaiter(q)
  PROVE  Registered' /\ OpenPullIsCovered' /\ WriterIsOpen' /\ AlarmsNeverStop'
<1>1. /\ pullpoints' = pullpoints /\ created' = created
      /\ timeout_timer' = timeout_timer /\ alarm_timer' = alarm_timer
  BY DEF AnswerWaiter, alarmVars
<1>2. Live' = Live
  BY <1>1 DEF Live
<1>3. \A o \in PullPoints \ {p} : TimeoutPending(o) => TimeoutPending(o)'
  <2>1. \A o \in PullPoints \ {p} : IsReady("timeout", o) => IsReady("timeout", o)'
    BY TakenFromReady DEF IInv
  <2> QED
    BY <1>1, <2>1 DEF TimeoutPending
<1>4. \A o \in PullPoints : is_client_waiting'[o] <=> is_client_waiting[o] /\ o \notin {q}
  BY DEF AnswerWaiter, StopsWaiting, IInv, TypeOK
<1>5. \A o \in PullPoints \ {q} : response_writer'[o] = response_writer[o]
  BY DEF AnswerWaiter, StopsWaiting, IInv, TypeOK
<1>6. \A o \in PullPoints \ {q} : is_client_waiting[o] =>
        o \in Live' /\ (TimeoutPending(o) => TimeoutPending(o)')
  BY <1>2, <1>3 DEF IInv, WriterIsOpen
<1>7. \A r \in Requests : reply'[r] = Open <=> reply[r] = Open /\ ~ \E o \in {q} : HeldBy(r, o)
  <2>1. CASE is_client_waiting[q]
    <3>1. response_writer[q] \in Requests
      BY <2>1 DEF IInv, WriterIsOpen
    <3>2. reply' = [reply EXCEPT ![response_writer[q]] = PullMessagesResponse(events[q])]
      BY <2>1 DEF AnswerWaiter
    <3> QED
      BY <2>1, <3>1, <3>2, RepliesDiffer DEF HeldBy, IInv, TypeOK
  <2>2. CASE ~is_client_waiting[q]
    BY <2>2 DEF AnswerWaiter, HeldBy
  <2> QED
    BY <2>1, <2>2
<1>8. OpenPullIsCovered' /\ WriterIsOpen'
  BY <1>2, <1>4, <1>5, <1>6, <1>7, AnswersKeepCover
<1>9. AlarmsNeverStop'
  <2>1. \A g \in Generators : IsReady("alarm", g) => IsReady("alarm", g)'
    BY TakenFromReady DEF IInv
  <2> QED
    BY <1>1, <2>1 DEF IInv, AlarmsNeverStop
<1> QED
  BY <1>1, <1>2, <1>8, <1>9 DEF IInv, Registered

LEMMA PullTimeoutKeeps ==
  ASSUME IInv, NEW p \in PullPoints, PullTimeout(p)
  PROVE  Registered' /\ OpenPullIsCovered' /\ WriterIsOpen' /\ AlarmsNeverStop'
  BY TimeoutHandled DEF PullTimeout

LEMMA DanglingTimeoutKeeps ==
  ASSUME IInv, NEW p \in PullPoints, DanglingTimeout(p)
  PROVE  Registered' /\ OpenPullIsCovered' /\ WriterIsOpen' /\ AlarmsNeverStop'
<1>1. /\ ready # <<>> /\ ready' = Tail(ready) /\ p \notin Live
      /\ Head(ready).kind = "timeout" /\ Head(ready).owner = p
  BY DEF DanglingTimeout, Freed
<1>2. ASSUME NEW q \in Live, AnswerWaiter(q)
      PROVE  Registered' /\ OpenPullIsCovered' /\ WriterIsOpen' /\ AlarmsNeverStop'
  <2>1. q \in PullPoints
    BY LiveInPullPoints DEF IInv
  <2> QED
    BY <1>1, <1>2, <2>1, TimeoutHandled
<1>3. ASSUME UNCHANGED <<pullpoints, created, pullVars, alarmVars, reply>>
      PROVE  Registered' /\ OpenPullIsCovered' /\ WriterIsOpen' /\ AlarmsNeverStop'
  <2>1. /\ pullpoints' = pullpoints /\ created' = created /\ reply' = reply
        /\ is_client_waiting' = is_client_waiting /\ response_writer' = response_writer
        /\ timeout_timer' = timeout_timer /\ alarm_timer' = alarm_timer
    BY <1>3 DEF pullVars, alarmVars
  <2>2. Live' = Live
    BY <2>1 DEF Live
  <2>3. \A o \in PullPoints \ {p} : IsReady("timeout", o) => IsReady("timeout", o)'
    BY <1>1, TakenFromReady DEF IInv
  <2>4. \A g \in Generators : IsReady("alarm", g) => IsReady("alarm", g)'
    BY <1>1, TakenFromReady DEF IInv
  <2>5. \A o \in Live : TimeoutPending(o) => TimeoutPending(o)'
    BY <1>1, <2>1, <2>3, LiveInPullPoints DEF TimeoutPending, IInv
  <2>6. \A r, o : HeldBy(r, o)' <=> HeldBy(r, o)
    BY <2>1 DEF HeldBy
  <2>7. OpenPullIsCovered'
    BY <2>1, <2>2, <2>5, <2>6 DEF IInv, OpenPullIsCovered
  <2>8. WriterIsOpen'
    BY <2>1, <2>2 DEF IInv, WriterIsOpen
  <2> QED
    BY <2>1, <2>2, <2>4, <2>7, <2>8 DEF IInv, Registered, AlarmsNeverStop
<1> QED
  BY <1>2, <1>3 DEF DanglingTimeout

LEMMA InitIInv == Init => IInv
<1> SUFFICES ASSUME Init PROVE IInv
  OBVIOUS
<1>1. TypeOK
  BY InitType
<1>2. Registered
  BY DEF Init, Registered, IsInjective, Live, Range
<1>3. OpenPullIsCovered
  BY RepliesDiffer DEF Init, OpenPullIsCovered
<1>4. WriterIsOpen
  BY DEF Init, WriterIsOpen
<1>5. AlarmsNeverStop
  BY DEF Init, AlarmsNeverStop
<1> QED
  BY <1>1, <1>2, <1>3, <1>4, <1>5 DEF IInv

LEMMA RequestKeeps ==
  ASSUME IInv, NEW r \in Requests, Request(r)
  PROVE  Registered' /\ OpenPullIsCovered' /\ WriterIsOpen' /\ AlarmsNeverStop'
<1>1. ASSUME NEW p \in PullPoints, CreatePullPoint(r, p)
      PROVE  Registered' /\ OpenPullIsCovered' /\ WriterIsOpen' /\ AlarmsNeverStop'
  BY <1>1, CreatePullPointKeeps
<1>2. ASSUME NEW to, PullMessagesAtOnce(r, to) \/ PullMessagesWait(r, to)
                     \/ SetSynchronizationPoint(r, to) \/ UnsubscribeFound(r, to)
      PROVE  Registered' /\ OpenPullIsCovered' /\ WriterIsOpen' /\ AlarmsNeverStop'
  BY <1>2, PullMessagesAtOnceKeeps, PullMessagesWaitKeeps, SetSynchronizationPointKeeps,
     UnsubscribeKeeps
<1>3. ASSUME NEW to, PullMessagesNotFound(r, to) \/ UnsubscribeNotFound(r, to)
                     \/ Renew(r) \/ NotUnderstood(r)
      PROVE  Registered' /\ OpenPullIsCovered' /\ WriterIsOpen' /\ AlarmsNeverStop'
  <2>1. PICK a \in {Ok, Dropped} : reply' = [reply EXCEPT ![r] = a]
    BY <1>3 DEF PullMessagesNotFound, UnsubscribeNotFound, Renew, NotUnderstood, AnswerOk
  <2>2. a \in Reply /\ a # Open
    BY ReplyTypes, RepliesDiffer
  <2>3. reply[r] = Unsent
    BY <1>3 DEF PullMessagesNotFound, UnsubscribeNotFound, Renew, NotUnderstood, AnswerOk
  <2>4. UNCHANGED <<pullpoints, created, is_client_waiting, response_writer, timeout_timer,
                    ready, alarm_timer>>
    BY <1>3 DEF PullMessagesNotFound, UnsubscribeNotFound, Renew, NotUnderstood, AnswerOk,
                pullVars, alarmVars
  <2> QED
    BY <2>1, <2>2, <2>3, <2>4, ReplyOnlyKeeps
<1> QED
  BY <1>1, <1>2, <1>3 DEF Request

LEMMA NextIInv == IInv /\ [Next]_vars => IInv'
<1> SUFFICES ASSUME IInv, [Next]_vars PROVE IInv'
  OBVIOUS
<1>1. TypeOK'
  BY NextType DEF IInv
<1>2. CASE Next
  BY <1>1, <1>2, RequestKeeps, AlarmExpiresKeeps, TimeoutExpiresKeeps, GenerateEventKeeps,
     PullTimeoutKeeps, DanglingTimeoutKeeps DEF Next, RunReady, IInv
<1>3. CASE UNCHANGED vars
  <2>1. /\ Live' = Live
        /\ \A kind, owner : IsReady(kind, owner)' <=> IsReady(kind, owner)
    BY <1>3 DEF vars, Live, IsReady
  <2>2. \A r, p : /\ HeldBy(r, p)' <=> HeldBy(r, p)
                  /\ TimeoutPending(p)' <=> TimeoutPending(p)
    BY <1>3, <2>1 DEF vars, pullVars, HeldBy, TimeoutPending
  <2>3. Registered' /\ AlarmsNeverStop'
    BY <1>3, <2>1 DEF vars, alarmVars, IInv, Registered, AlarmsNeverStop
  <2>4. OpenPullIsCovered'
    BY <1>3, <2>1, <2>2 DEF vars, IInv, OpenPullIsCovered
  <2>5. WriterIsOpen'
    BY <1>3, <2>1 DEF vars, pullVars, IInv, WriterIsOpen
  <2> QED
    BY <1>1, <2>3, <2>4, <2>5 DEF IInv
<1> QED
  BY <1>2, <1>3

LEMMA Inductive == Spec => []IInv
  BY InitIInv, NextIInv, PTL DEF Spec

\* Every pull that is still open is held by exactly one live pull point whose
\* timeout is armed or queued, however many pull points, exchanges, generators
\* and digital inputs there are.
THEOREM OpenPullAlwaysCovered == Spec => []OpenPullIsCovered
<1>1. IInv => OpenPullIsCovered
  BY DEF IInv
<1> QED
  BY <1>1, Inductive, PTL

\* No pull point ever holds an exchange that has been answered.
THEOREM WriterAlwaysOpen == Spec => []WriterIsOpen
<1>1. IInv => WriterIsOpen
  BY DEF IInv
<1> QED
  BY <1>1, Inductive, PTL

\* Every generator has an alarm armed or queued at all times, whatever the
\* Stop and Run of CreatePullPoint meet.
THEOREM AlarmsRunForEver == Spec => []AlarmsNeverStop
<1>1. IInv => AlarmsNeverStop
  BY DEF IInv
<1> QED
  BY <1>1, Inductive, PTL

-----------------------------------------------------------------------------
(* What has been answered stays as it is: each step changes the reply of an *)
(* exchange it has just taken, or of the ones pull points hold, and those   *)
(* are not answered yet (WriterIsOpen).                                     *)

Final(r) == reply[r] \notin {Unsent, Open}

LEMMA ReleasedIsFinal ==
  ASSUME IInv, NEW p \in PullPoints, NEW r \in Requests, Final(r)
  PROVE  Released(p)[r] = reply[r]
<1>1. is_client_waiting[p] => response_writer[p] \in Requests /\ response_writer[p] # r
  BY DEF IInv, WriterIsOpen, Final
<1> QED
  BY <1>1 DEF Released, IInv, TypeOK

LEMMA RequestIsFinal ==
  ASSUME IInv, NEW q \in Requests, Request(q), NEW r \in Requests, Final(r)
  PROVE  reply'[r] = reply[r]
<1>1. reply \in [Requests -> Reply] /\ \A p \in PullPoints : Released(p) \in [Requests -> Reply]
  BY ReleasedType DEF IInv, TypeOK
<1>2. ASSUME reply[q] = Unsent PROVE q # r
  BY <1>2 DEF Final
<1>3. ASSUME NEW p \in PullPoints, CreatePullPoint(q, p) PROVE reply'[r] = reply[r]
  BY <1>1, <1>2, <1>3 DEF CreatePullPoint
<1>4. ASSUME NEW to, PullMessagesAtOnce(q, to) PROVE reply'[r] = reply[r]
  <2>1. PICK p \in PullPoints : p = FindPullPoint(to)
    BY <1>4, FoundPullPoint DEF PullMessagesAtOnce, IInv
  <2>2. reply' = [Released(p) EXCEPT ![q] = PullMessagesResponse(events[p])] /\ q # r
    BY <1>2, <1>4, <2>1 DEF PullMessagesAtOnce
  <2> QED
    BY <1>1, <2>2, ReleasedIsFinal
<1>5. ASSUME NEW to, PullMessagesWait(q, to) PROVE reply'[r] = reply[r]
  <2>1. PICK p \in PullPoints : p = FindPullPoint(to)
    BY <1>5, FoundPullPoint DEF PullMessagesWait, IInv
  <2>2. reply' = [Released(p) EXCEPT ![q] = Open] /\ q # r
    BY <1>2, <1>5, <2>1 DEF PullMessagesWait
  <2> QED
    BY <1>1, <2>2, ReleasedIsFinal
<1>6. ASSUME NEW to, UnsubscribeFound(q, to) PROVE reply'[r] = reply[r]
  <2>1. PICK p \in PullPoints : p = FindPullPoint(to)
    BY <1>6, FoundPullPoint DEF UnsubscribeFound, IInv
  <2>2. reply' = [Released(p) EXCEPT ![q] = Ok] /\ q # r
    BY <1>2, <1>6, <2>1 DEF UnsubscribeFound
  <2> QED
    BY <1>1, <2>2, ReleasedIsFinal
<1>7. ASSUME NEW to, SetSynchronizationPoint(q, to) PROVE reply'[r] = reply[r]
  <2>1. q # r
    BY <1>2, <1>7 DEF SetSynchronizationPoint
  <2>2. reply' = [reply EXCEPT ![q] = Fault] \/ reply' = [reply EXCEPT ![q] = Ok]
    BY <1>7 DEF SetSynchronizationPoint
  <2> QED
    BY <1>1, <2>1, <2>2
<1>8. ASSUME NEW to, PullMessagesNotFound(q, to) \/ UnsubscribeNotFound(q, to)
                     \/ Renew(q) \/ NotUnderstood(q)
      PROVE  reply'[r] = reply[r]
  BY <1>1, <1>2, <1>8 DEF PullMessagesNotFound, UnsubscribeNotFound, Renew, NotUnderstood, AnswerOk
<1> QED
  BY <1>3, <1>4, <1>5, <1>6, <1>7, <1>8 DEF Request

LEMMA AnswerWaiterIsFinal ==
  ASSUME IInv, NEW p \in PullPoints, AnswerWaiter(p), NEW r \in Requests, Final(r)
  PROVE  reply'[r] = reply[r]
<1>1. is_client_waiting[p] => response_writer[p] \in Requests /\ response_writer[p] # r
  BY DEF IInv, WriterIsOpen, Final
<1>2. CASE is_client_waiting[p]
  <2>1. reply' = [reply EXCEPT ![response_writer[p]] = PullMessagesResponse(events[p])]
    BY <1>2 DEF AnswerWaiter
  <2> QED
    BY <1>1, <1>2, <2>1 DEF IInv, TypeOK
<1>3. CASE ~is_client_waiting[p]
  BY <1>3 DEF AnswerWaiter
<1> QED
  BY <1>2, <1>3

LEMMA RunReadyIsFinal ==
  ASSUME IInv, RunReady, NEW r \in Requests, Final(r)
  PROVE  reply'[r] = reply[r]
<1>1. ASSUME NEW g \in Generators, GenerateEvent(g) PROVE reply'[r] = reply[r]
  <2>1. ~ \E p \in PullPoints : Answers(p, Burst(g)) /\ response_writer[p] = r
    BY DEF Answers, IInv, WriterIsOpen, Final
  <2> QED
    BY <1>1, <2>1 DEF GenerateEvent
<1>2. ASSUME NEW p \in PullPoints, PullTimeout(p) PROVE reply'[r] = reply[r]
  BY <1>2, AnswerWaiterIsFinal DEF PullTimeout
<1>3. ASSUME NEW p \in PullPoints, DanglingTimeout(p) PROVE reply'[r] = reply[r]
  BY <1>3, AnswerWaiterIsFinal, LiveInPullPoints DEF DanglingTimeout, IInv
<1> QED
  BY <1>1, <1>2, <1>3 DEF RunReady

LEMMA StepIsFinal ==
  ASSUME IInv, [Next]_vars, NEW r \in Requests, Final(r)
  PROVE  reply'[r] = reply[r]
<1>1. ASSUME NEW g \in Generators, AlarmExpires(g) PROVE reply'[r] = reply[r]
  BY <1>1 DEF AlarmExpires
<1>2. ASSUME NEW p \in PullPoints, TimeoutExpires(p) PROVE reply'[r] = reply[r]
  BY <1>2 DEF TimeoutExpires
<1>3. CASE UNCHANGED vars
  BY <1>3 DEF vars
<1> QED
  BY <1>1, <1>2, <1>3, RequestIsFinal, RunReadyIsFinal DEF Next

\* An exchange is answered at most once: no handler, in any order, changes what
\* has been sent, dropped or refused.
THEOREM AnsweredOnce == Spec => RepliesAreFinal
<1>1. IInv /\ [Next]_vars =>
        [\A r \in Requests : reply[r] \notin {Unsent, Open} => reply'[r] = reply[r]]_vars
  BY StepIsFinal DEF Final
<1> QED
  BY <1>1, Inductive, PTL DEF Spec, RepliesAreFinal

=============================================================================
