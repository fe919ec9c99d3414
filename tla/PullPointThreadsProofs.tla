------------------------ MODULE PullPointThreadsProofs ------------------------
(***************************************************************************)
(* Proofs about PullPointThreads: the types, for threads that overlap or   *)
(* not; the MessageID of the answers, for one client; that no change is    *)
(* sent twice; and that without overlap the statements implement the       *)
(* handlers of PullPointService.                                           *)
(***************************************************************************)
EXTENDS PullPointThreads, SequenceFacts

-----------------------------------------------------------------------------
(* Typing.                                                                 *)

\* Notify runs for the source that generate_event has just inverted: there is one.
IndType ==
  /\ TypeOK
  /\ pc["W"] = "push" => todo["W"] # <<>>

LEMMA InitTypes == Init => IndType
<1> SUFFICES ASSUME Init PROVE IndType
  OBVIOUS
<1>1. changes \in [Sources -> Nat] /\ base \in [Sources -> Nat]
  BY DEF Init
<1>2. pc["W"] = "idle"
  BY DEF Init, Threads
<1>3. /\ {connected, is_client_waiting, alive} \subseteq BOOLEAN
      /\ {handler, response_writer, request, timeout_timer} \subseteq Requests \cup {None}
      /\ {changes, base} \subseteq [Sources -> Nat]
  BY <1>1 DEF Init
<1>4. /\ events \in Seq(Service!Message)
      /\ ready \in Seq(Service!Completion)
      /\ stream \in Seq(Service!Message)
      /\ todo \in [Threads -> Seq(Sources)]
      /\ copied \in [Threads -> Seq(Service!Message)]
  BY DEF Init
<1>5. /\ alarm_timer \in [Generators -> BOOLEAN]
      /\ logical \in [Sources -> BOOLEAN]
      /\ exchange \in [Requests -> {"unsent", "open", "ok", "sent"}]
      /\ written \in [Requests -> Seq([id : Requests, messages : Seq(Service!Message)])]
  BY DEF Init
<1>6. pc \in [Threads -> Labels] /\ job \in Service!Completion \cup {None} /\ before = <<>>
  BY DEF Init, Labels
<1> QED
  BY <1>2, <1>3, <1>4, <1>5, <1>6 DEF IndType, TypeOK

\* The variables a step leaves alone keep their types; these are the ones of most steps.
LEMMA MessageTypes ==
  ASSUME IndType, NEW s \in Sources
  PROVE  /\ SyncMessage(s) \in Service!Message
         /\ ChangedMessage(s) \in Service!Message
<1>1. changes[s] \in Nat /\ logical[s] \in BOOLEAN
  BY DEF IndType, TypeOK
<1>2. (s \in Sensed /\ logical[s]) \in BOOLEAN
  OBVIOUS
<1> QED
  BY <1>1, <1>2 DEF SyncMessage, ChangedMessage, Service!Message

LEMMA ReleaseTypes ==
  ASSUME IndType, ReleaseUnheld
  PROVE  exchange' \in [Requests -> {"unsent", "open", "ok", "sent"}]
  BY DEF IndType, TypeOK, ReleaseUnheld

\* What a handler remembers of the state it starts in has the fields of a state.
FieldsKept == before # <<>> => DOMAIN before[1] = DOMAIN Now

LEMMA FieldsStayTheSame ==
  ASSUME IndType, Starts \/ before' = <<>> \/ before' = before
  PROVE  FieldsKept'
<1>1. DOMAIN Now' = DOMAIN Now
  BY DEF Now
<1>2. CASE Starts
  <2>1. before' = <<>> \/ before' = <<Now>>
    BY <1>2 DEF Starts
  <2> QED
    BY <2>1, <1>1 DEF FieldsKept
<1>3. CASE before' = <<>> \/ before' = before
  BY <1>1, <1>3 DEF FieldsKept, IndType, TypeOK
<1> QED
  BY <1>2, <1>3

LEMMA RequestTypes ==
  ASSUME IndType, NEW r \in Requests,
         CreatePullPoint(r) \/ PullMessages(r) \/ SetSynchronizationPoint(r)
  PROVE  IndType'
<1>1. CASE CreatePullPoint(r)
  <2>1. before' = before
    BY <1>1 DEF CreatePullPoint
  <2>2. FieldsKept'
    BY <2>1, FieldsStayTheSame
  <2> QED
    BY <1>1, <2>2 DEF CreatePullPoint, FieldsKept, IndType, TypeOK,
                      ppVars, sourceVars, localVars
<1>2. CASE PullMessages(r)
  <2>1. FieldsKept'
    BY <1>2, FieldsStayTheSame DEF PullMessages
  <2>2. pc' = [pc EXCEPT !["H"] = "handler"]
    BY <1>2 DEF PullMessages, Goes
  <2>3. pc' \in [Threads -> Labels] /\ pc'["W"] = pc["W"]
    BY <2>2 DEF IndType, TypeOK, Labels, Threads
  <2> QED
    BY <1>2, <2>1, <2>3 DEF PullMessages, FieldsKept, IndType, TypeOK,
                            ioVars, sourceVars
<1>3. CASE SetSynchronizationPoint(r)
  <2>1. FieldsKept'
    BY <1>3, FieldsStayTheSame DEF SetSynchronizationPoint
  <2>2. pc' = [pc EXCEPT !["H"] = "insert"] /\ todo' = [todo EXCEPT !["H"] = SyncSources]
    BY <1>3 DEF SetSynchronizationPoint, Goes
  <2>3. pc' \in [Threads -> Labels] /\ pc'["W"] = pc["W"]
    BY <2>2 DEF IndType, TypeOK, Labels, Threads
  <2>4. todo' \in [Threads -> Seq(Sources)] /\ todo'["W"] = todo["W"]
    BY <2>2, ThreadsAssumption DEF IndType, TypeOK, Threads
  <2>5. events' = <<>> /\ <<>> \in Seq(Service!Message)
    BY <1>3 DEF SetSynchronizationPoint
  <2> QED
    BY <1>3, <2>1, <2>3, <2>4, <2>5 DEF SetSynchronizationPoint, FieldsKept, IndType, TypeOK,
                                  ioVars, sourceVars
<1> QED
  BY <1>1, <1>2, <1>3

LEMMA GoesOn ==
  ASSUME IndType, NEW t \in Threads, NEW label \in Labels, Goes(t, label)
  PROVE  /\ pc' \in [Threads -> Labels]
         /\ pc'[t] = label
         /\ \A u \in Threads : u # t => pc'[u] = pc[u]
  BY DEF IndType, TypeOK, Goes

LEMMA AfterIsALabel ==
  ASSUME NEW t \in Threads
  PROVE  After(t) \in Labels /\ After(t) # "push"
  BY DEF After, Labels, Threads

LEMMA PullStepTypes ==
  ASSUME IndType, StoreHandler \/ StoreWriter \/ TestEmpty \/ ChargeTimeout
  PROVE  IndType'
<1>1. "H" \in Threads /\ "W" \in Threads /\ {"writer", "empty", "charge", "waiting", "idle"} \subseteq Labels
  BY DEF Threads, Labels
<1>2. FieldsKept'
  BY FieldsStayTheSame DEF StoreHandler, StoreWriter, TestEmpty, ChargeTimeout, Ends
<1>3. \E label \in Labels : Goes("H", label)
  BY <1>1 DEF StoreHandler, StoreWriter, TestEmpty, ChargeTimeout, Ends
<1>4. pc' \in [Threads -> Labels] /\ pc'["W"] = pc["W"]
  BY <1>1, <1>3, GoesOn
<1>5. CASE StoreHandler
  BY <1>2, <1>4, <1>5 DEF StoreHandler, NewHandler, FieldsKept, IndType, TypeOK,
                          ioVars, sourceVars, httpVars, localVars
<1>6. CASE StoreWriter
  <2>1. exchange' \in [Requests -> {"unsent", "open", "ok", "sent"}]
    BY <1>6, ReleaseTypes DEF StoreWriter
  <2> QED
    BY <1>2, <1>4, <1>6, <2>1 DEF StoreWriter, FieldsKept, IndType, TypeOK,
                                  ioVars, sourceVars, localVars
<1>7. CASE TestEmpty
  BY <1>2, <1>4, <1>7 DEF TestEmpty, FieldsKept, IndType, TypeOK,
                          ppVars, ioVars, sourceVars, httpVars, localVars
<1>8. CASE ChargeTimeout
  <2>1. exchange' \in [Requests -> {"unsent", "open", "ok", "sent"}]
    BY <1>8, ReleaseTypes DEF ChargeTimeout
  <2> QED
    BY <1>2, <1>4, <1>8, <2>1 DEF ChargeTimeout, FieldsKept, IndType, TypeOK,
                                  ppVars, sourceVars
<1> QED
  BY <1>5, <1>6, <1>7, <1>8

LEMMA InsertTypes ==
  ASSUME IndType, InsertSyncEvents
  PROVE  IndType'
<1>1. "H" \in Threads /\ "W" \in Threads /\ "idle" \in Labels
  BY DEF Threads, Labels
<1>2. FieldsKept'
  BY FieldsStayTheSame DEF InsertSyncEvents, Ends
<1>3. CASE todo["H"] # <<>>
  <2>1. todo["H"] \in Seq(Sources)
    BY <1>1 DEF IndType, TypeOK
  <2>2. Head(todo["H"]) \in Sources /\ Tail(todo["H"]) \in Seq(Sources)
    BY <1>3, <2>1, HeadTailProperties
  <2>3. events' = Append(events, SyncMessage(Head(todo["H"])))
    BY <1>3 DEF InsertSyncEvents
  <2>4. events' \in Seq(Service!Message)
    BY <2>2, <2>3, MessageTypes, AppendProperties DEF IndType, TypeOK
  <2>5. todo' = [todo EXCEPT !["H"] = Tail(@)]
    BY <1>3 DEF InsertSyncEvents
  <2>6. todo' \in [Threads -> Seq(Sources)] /\ todo'["W"] = todo["W"]
    BY <1>1, <2>2, <2>5 DEF IndType, TypeOK
  <2> QED
    BY <1>2, <1>3, <2>4, <2>6 DEF InsertSyncEvents, FieldsKept, IndType, TypeOK,
                                  ioVars, sourceVars
<1>4. CASE todo["H"] = <<>>
  <2>1. pc' \in [Threads -> Labels] /\ pc'["W"] = pc["W"]
    BY <1>1, <1>4, GoesOn DEF InsertSyncEvents, Ends
  <2>2. exchange' = [exchange EXCEPT ![request] = "ok"]
    BY <1>4 DEF InsertSyncEvents
  <2>3. exchange' \in [Requests -> {"unsent", "open", "ok", "sent"}]
    BY <2>2 DEF IndType, TypeOK
  <2> QED
    BY <1>2, <1>4, <2>1, <2>3 DEF InsertSyncEvents, FieldsKept, IndType, TypeOK,
                                  ioVars, sourceVars
<1> QED
  BY <1>3, <1>4

LEMMA ExpiryTypes ==
  ASSUME IndType, TimeoutExpires \/ \E g \in Generators : AlarmExpires(g)
  PROVE  IndType'
<1>1. FieldsKept'
  BY FieldsStayTheSame DEF TimeoutExpires, AlarmExpires
<1>2. CASE TimeoutExpires
  <2>1. [kind |-> "timeout", owner |-> PullPoint, armedBy |-> timeout_timer] \in Service!Completion
    BY <1>2 DEF TimeoutExpires, IndType, TypeOK, Service!Completion
  <2>2. ready' \in Seq(Service!Completion)
    BY <1>2, <2>1, AppendProperties DEF TimeoutExpires, IndType, TypeOK
  <2> QED
    BY <1>1, <1>2, <2>2 DEF TimeoutExpires, FieldsKept, IndType, TypeOK,
                            ppVars, sourceVars, httpVars, localVars
<1>3. ASSUME NEW g \in Generators, AlarmExpires(g) PROVE IndType'
  <2>1. [kind |-> "alarm", owner |-> g] \in Service!Completion
    BY DEF Service!Completion
  <2>2. ready' \in Seq(Service!Completion)
    BY <1>3, <2>1, AppendProperties DEF AlarmExpires, IndType, TypeOK
  <2>3. alarm_timer' \in [Generators -> BOOLEAN]
    BY <1>3 DEF AlarmExpires, IndType, TypeOK
  <2> QED
    BY <1>1, <1>3, <2>2, <2>3 DEF AlarmExpires, FieldsKept, IndType, TypeOK,
                                  ppVars, sourceVars, httpVars, localVars
<1> QED
  BY <1>2, <1>3

LEMMA WorkerStepTypes ==
  ASSUME IndType, TakeReady \/ GenerateEvent \/ Notify \/ TimeoutDone
  PROVE  IndType'
<1>1. "H" \in Threads /\ "W" \in Threads /\ {"signal", "waiting", "push", "idle"} \subseteq Labels
  BY DEF Threads, Labels
<1>2. FieldsKept'
  BY FieldsStayTheSame DEF TakeReady, GenerateEvent, Notify, TimeoutDone, Ends
<1>3. todo["W"] \in Seq(Sources)
  BY <1>1 DEF IndType, TypeOK
<1>4. CASE TakeReady
  <2>1. ready # <<>> /\ ready \in Seq(Service!Completion)
    BY <1>4 DEF TakeReady, IndType, TypeOK
  <2>2. job' \in Service!Completion /\ ready' \in Seq(Service!Completion)
    BY <1>4, <2>1, HeadTailProperties DEF TakeReady
  <2>3. CASE Head(ready).kind = "alarm"
    <3>1. Head(ready) \in Service!Completion
      BY <2>1, HeadTailProperties
    <3>2. Head(ready).owner \in Generators
      BY <2>3, <3>1 DEF Service!Completion
    <3>3. todo' = [todo EXCEPT !["W"] = Signals[Head(ready).owner]]
      BY <1>4, <2>3 DEF TakeReady
    <3>4. todo' \in [Threads -> Seq(Sources)]
      BY <3>2, <3>3, ThreadsAssumption DEF IndType, TypeOK
    <3>5. pc' \in [Threads -> Labels] /\ pc'["W"] = "signal"
      BY <1>1, <1>4, <2>3, GoesOn DEF TakeReady
    <3> QED
      BY <1>2, <1>4, <2>2, <3>4, <3>5 DEF TakeReady, FieldsKept, IndType, TypeOK,
                                          ppVars, sourceVars, httpVars
  <2>4. CASE Head(ready).kind # "alarm"
    <3>1. pc' \in [Threads -> Labels] /\ pc'["W"] = "waiting" /\ todo' = todo
      BY <1>1, <1>4, <2>4, GoesOn DEF TakeReady
    <3> QED
      BY <1>2, <1>4, <2>2, <3>1 DEF TakeReady, FieldsKept, IndType, TypeOK,
                                    ppVars, sourceVars, httpVars
  <2> QED
    BY <2>3, <2>4
<1>5. CASE GenerateEvent /\ todo["W"] # <<>>
  <2>1. Head(todo["W"]) \in Sources
    BY <1>3, <1>5, HeadTailProperties
  <2>2. /\ logical' = [logical EXCEPT ![Head(todo["W"])] = ~@]
        /\ changes' = [changes EXCEPT ![Head(todo["W"])] = @ + 1]
    BY <1>5 DEF GenerateEvent
  <2>3. logical' \in [Sources -> BOOLEAN]
    BY <2>1, <2>2 DEF IndType, TypeOK
  <2>4. changes' \in [Sources -> Nat]
    BY <2>1, <2>2 DEF IndType, TypeOK
  <2>5. pc' \in [Threads -> Labels]
    BY <1>1, <1>5, GoesOn DEF GenerateEvent
  <2> QED
    BY <1>2, <1>5, <2>3, <2>4, <2>5 DEF GenerateEvent, FieldsKept, IndType, TypeOK,
                                        ppVars, httpVars
<1>6. CASE GenerateEvent /\ todo["W"] = <<>>
  <2>1. pc' \in [Threads -> Labels] /\ pc'["W"] = "idle"
    BY <1>1, <1>6, GoesOn DEF GenerateEvent, Ends
  <2>2. alarm_timer' \in [Generators -> BOOLEAN]
    BY <1>6 DEF GenerateEvent, IndType, TypeOK
  <2> QED
    BY <1>2, <1>6, <2>1, <2>2 DEF GenerateEvent, FieldsKept, IndType, TypeOK,
                                  ppVars, sourceVars, httpVars
<1>7. CASE Notify
  <2>1. todo["W"] # <<>>
    BY <1>7 DEF Notify, IndType
  <2>2. Head(todo["W"]) \in Sources /\ Tail(todo["W"]) \in Seq(Sources)
    BY <1>3, <2>1, HeadTailProperties
  <2>3. todo' = [todo EXCEPT !["W"] = Tail(@)]
    BY <1>7 DEF Notify
  <2>4. todo' \in [Threads -> Seq(Sources)]
    BY <2>2, <2>3 DEF IndType, TypeOK
  <2>5. events \in Seq(Service!Message)
    BY DEF IndType, TypeOK
  <2>6. Append(events, ChangedMessage(Head(todo["W"]))) \in Seq(Service!Message)
    BY <2>2, <2>5, MessageTypes, AppendProperties
  <2>7. events' \in Seq(Service!Message)
    BY <1>7, <2>5, <2>6 DEF Notify
  <2>8. pc' \in [Threads -> Labels] /\ pc'["W"] # "push"
    BY <1>1, <1>7, GoesOn DEF Notify
  <2> QED
    BY <1>2, <1>7, <2>4, <2>7, <2>8 DEF Notify, FieldsKept, IndType, TypeOK,
                                        ioVars, sourceVars, httpVars
<1>8. CASE TimeoutDone
  <2>1. pc' \in [Threads -> Labels] /\ pc'["W"] = "idle"
    BY <1>1, <1>8, GoesOn DEF TimeoutDone, Ends
  <2> QED
    BY <1>2, <1>8, <2>1 DEF TimeoutDone, FieldsKept, IndType, TypeOK,
                            ppVars, ioVars, sourceVars, httpVars
<1> QED
  BY <1>4, <1>5, <1>6, <1>7, <1>8

LEMMA RespondTypes ==
  ASSUME IndType, NEW t \in Threads, Respond(t)
  PROVE  IndType'
<1>1. {"swap", "write", "reset", "clear"} \subseteq Labels
  BY DEF Labels
<1>2. FieldsKept'
  BY FieldsStayTheSame DEF Respond, TestWaiting, SwapEvents, LeftQueued,
                           CallHandler, ResetWriter, ClearWaiting
<1>3. pc' = pc \/ \E label \in Labels \ {"push"} : Goes(t, label)
  BY <1>1, AfterIsALabel DEF Respond, TestWaiting, SwapEvents, LeftQueued,
                             CallHandler, ResetWriter, ClearWaiting
<1>4. pc' \in [Threads -> Labels] /\ (pc'["W"] = "push" => pc["W"] = "push")
  <2>1. CASE pc' = pc
    BY <2>1 DEF IndType, TypeOK
  <2>2. ASSUME NEW label \in Labels \ {"push"}, Goes(t, label)
        PROVE  pc' \in [Threads -> Labels] /\ (pc'["W"] = "push" => pc["W"] = "push")
    BY <2>2, GoesOn DEF Threads
  <2> QED
    BY <1>3, <2>1, <2>2
<1>5. CASE TestWaiting(t)
  BY <1>2, <1>4, <1>5 DEF TestWaiting, FieldsKept, IndType, TypeOK,
                          ppVars, ioVars, sourceVars, httpVars, localVars
<1>6. CASE SwapEvents(t)
  <2>1. copied' = [copied EXCEPT ![t] = events] /\ events' = <<>>
    BY <1>6 DEF SwapEvents, LeftQueued
  <2>2. copied' \in [Threads -> Seq(Service!Message)] /\ events' \in Seq(Service!Message)
    BY <2>1 DEF IndType, TypeOK
  <2> QED
    BY <1>2, <1>4, <1>6, <2>2 DEF SwapEvents, LeftQueued, FieldsKept, IndType, TypeOK,
                                  ioVars, sourceVars, httpVars
<1>7. CASE CallHandler(t) /\ handler # None /\ response_writer # None
  <2>1. handler \in Requests /\ response_writer \in Requests
    BY <1>7 DEF IndType, TypeOK
  <2>2. copied[t] \in Seq(Service!Message) /\ stream \in Seq(Service!Message)
    BY DEF IndType, TypeOK
  <2>3. /\ copied' = [copied EXCEPT ![t] = <<>>]
        /\ stream' = stream \o copied[t]
        /\ written' = [written EXCEPT ![response_writer] =
                         Append(@, [id |-> handler, messages |-> copied[t]])]
    BY <1>7 DEF CallHandler
  <2>4. copied' \in [Threads -> Seq(Service!Message)]
    BY <2>3 DEF IndType, TypeOK
  <2>5. stream' \in Seq(Service!Message)
    BY <2>2, <2>3, ConcatProperties
  <2>6. [id |-> handler, messages |-> copied[t]] \in [id : Requests, messages : Seq(Service!Message)]
    BY <2>1, <2>2
  <2>7. Append(written[response_writer], [id |-> handler, messages |-> copied[t]])
          \in Seq([id : Requests, messages : Seq(Service!Message)])
    BY <2>1, <2>6, AppendProperties DEF IndType, TypeOK
  <2>8. written' \in [Requests -> Seq([id : Requests, messages : Seq(Service!Message)])]
    BY <2>3, <2>7 DEF IndType, TypeOK
  <2> QED
    BY <1>2, <1>4, <1>7, <2>4, <2>5, <2>8 DEF CallHandler, FieldsKept, IndType, TypeOK,
                                              ppVars, ioVars, sourceVars
<1>8. CASE CallHandler(t) /\ (handler = None \/ response_writer = None)
  BY <1>2, <1>4, <1>8 DEF CallHandler, FieldsKept, IndType, TypeOK,
                          ppVars, ioVars, sourceVars
<1>9. CASE ResetWriter(t)
  <2>1. exchange' \in [Requests -> {"unsent", "open", "ok", "sent"}]
    BY <1>9, ReleaseTypes DEF ResetWriter
  <2> QED
    BY <1>2, <1>4, <1>9, <2>1 DEF ResetWriter, Reset, FieldsKept, IndType, TypeOK,
                                  ioVars, sourceVars, localVars
<1>10. CASE ClearWaiting(t)
  BY <1>2, <1>4, <1>10 DEF ClearWaiting, FieldsKept, IndType, TypeOK,
                           ioVars, sourceVars, httpVars, localVars
<1> QED
  BY <1>5, <1>6, <1>7, <1>8, <1>9, <1>10 DEF Respond

LEMMA StutterTypes ==
  ASSUME IndType, UNCHANGED vars
  PROVE  IndType'
<1>1. FieldsKept'
  BY FieldsStayTheSame DEF vars
<1> QED
  BY <1>1 DEF vars, FieldsKept, IndType, TypeOK, ppVars, ioVars, sourceVars, httpVars, localVars

LEMMA StepTypes ==
  ASSUME IndType, [Next]_vars
  PROVE  IndType'
<1>1. ASSUME NEW r \in Requests,
             CreatePullPoint(r) \/ PullMessages(r) \/ SetSynchronizationPoint(r)
      PROVE  IndType'
  BY <1>1, RequestTypes
<1>2. CASE StepH
  BY <1>2, PullStepTypes, InsertTypes, RespondTypes DEF StepH, Threads
<1>3. CASE StepW
  BY <1>3, WorkerStepTypes, RespondTypes DEF StepW, Threads
<1>4. CASE TimeoutExpires \/ \E g \in Generators : AlarmExpires(g)
  BY <1>4, ExpiryTypes
<1>5. CASE UNCHANGED vars
  BY <1>5, StutterTypes
<1> QED
  BY <1>1, <1>2, <1>3, <1>4, <1>5 DEF Next

\* TypeOK, whether the threads overlap or not.
THEOREM TypeCorrect == Spec => []TypeOK
<1>1. Init => IndType
  BY InitTypes
<1>2. IndType /\ [Next]_vars => IndType'
  BY StepTypes
<1>3. IndType => TypeOK
  BY DEF IndType
<1> QED
  BY <1>1, <1>2, <1>3, PTL DEF Spec

-----------------------------------------------------------------------------
(* The MessageID of an answer.                                             *)

OneAtATime == \A q, r \in Requests : exchange[q] = "open" /\ exchange[r] = "open" => q = r

\* The Response the handler on H holds has not gone out, and the one the pull point
\* holds has not either and is the one whose MessageID handler_ has.  Between the two
\* stores of PullMessages the pull point holds none: its client waits for nothing else.
HeldAreOpen ==
  /\ pc["H"] # "idle" => request # None
  /\ request # None => exchange[request] = "open"
  /\ pc["H"] = "writer" => handler = request
  /\ response_writer # None => /\ exchange[response_writer] = "open"
                               /\ handler = response_writer
                               /\ pc["H"] \notin {"handler", "writer", "insert"}

IndId == TypeOK /\ OneAtATime /\ HeldAreOpen /\ AnswerCarriesItsMessageId

LEMMA HandlerStoresId ==
  ASSUME IndId, TypeOK',
         StoreHandler \/ StoreWriter \/ TestEmpty \/ ChargeTimeout \/ InsertSyncEvents
  PROVE  IndId'
<1>1. request # None /\ request \in Requests
  BY DEF StoreHandler, StoreWriter, TestEmpty, ChargeTimeout, InsertSyncEvents, IndId, HeldAreOpen, TypeOK
<1>2. DOMAIN pc = Threads /\ "H" \in Threads
  BY DEF IndId, TypeOK, Threads
<1>3. /\ DOMAIN exchange = Requests
      /\ None \notin Requests
  BY ThreadsAssumption DEF IndId, TypeOK
<1>4. AnswerCarriesItsMessageId'
  BY DEF StoreHandler, StoreWriter, TestEmpty, ChargeTimeout, InsertSyncEvents, IndId,
         AnswerCarriesItsMessageId, httpVars
<1>5. OneAtATime'
  BY <1>3 DEF StoreHandler, StoreWriter, TestEmpty, ChargeTimeout, InsertSyncEvents, IndId,
         OneAtATime, ReleaseUnheld, httpVars
<1>6. HeldAreOpen'
  <2>1. CASE StoreHandler
    BY <1>1, <1>2, <2>1 DEF StoreHandler, NewHandler, Goes, IndId, HeldAreOpen, httpVars, localVars
  <2>2. CASE StoreWriter
    BY <1>1, <1>2, <1>3, <2>2 DEF StoreWriter, Goes, IndId, HeldAreOpen, ReleaseUnheld, localVars
  <2>3. CASE TestEmpty
    BY <1>1, <1>2, <2>3 DEF TestEmpty, Goes, IndId, HeldAreOpen, ppVars, httpVars, localVars
  <2>4. CASE ChargeTimeout
    <3>1. response_writer \in Requests \cup {None} /\ response_writer' = response_writer
      BY <2>4 DEF ChargeTimeout, ppVars, IndId, TypeOK
    <3> QED
      BY <1>1, <1>2, <1>3, <2>4, <3>1
      DEF ChargeTimeout, Ends, Goes, IndId, HeldAreOpen, ReleaseUnheld, ppVars
  <2>5. CASE InsertSyncEvents
    BY <1>1, <1>2, <1>3, <2>5 DEF InsertSyncEvents, Ends, Goes, IndId, HeldAreOpen
  <2> QED
    BY <2>1, <2>2, <2>3, <2>4, <2>5
<1> QED
  BY <1>4, <1>5, <1>6 DEF IndId

LEMMA AnswerHasId ==
  ASSUME IndId, TypeOK', NEW t \in Threads, Respond(t)
  PROVE  IndId'
<1>1. DOMAIN pc = Threads /\ "H" \in Threads
  BY DEF IndId, TypeOK, Threads
<1>2. DOMAIN exchange = Requests /\ None \notin Requests /\ request \in Requests \cup {None}
  BY ThreadsAssumption DEF IndId, TypeOK
<1>3. request' = request /\ handler' = handler /\ response_writer' \in {response_writer, None}
  BY DEF Respond, TestWaiting, SwapEvents, LeftQueued, CallHandler, ResetWriter, Reset,
         ClearWaiting, localVars, ppVars
<1>4. /\ pc["H"] = "idle" => pc'["H"] = "idle"
      /\ pc'["H"] = "writer" => pc["H"] = "writer"
      /\ pc["H"] \notin {"handler", "writer", "insert"} =>
           pc'["H"] \notin {"handler", "writer", "insert"}
  <2>1. pc' = pc \/ \E label \in {After(t), "swap", "write", "reset", "clear"} :
                      pc[t] # "idle" /\ Goes(t, label)
    BY DEF Respond, TestWaiting, SwapEvents, LeftQueued, CallHandler, ResetWriter, ClearWaiting
  <2> QED
    BY <1>1, <2>1 DEF Goes, After, Threads
<1>5. exchange' = exchange \/ ReleaseUnheld
  BY DEF Respond, TestWaiting, SwapEvents, LeftQueued,
         CallHandler, ResetWriter, ClearWaiting, httpVars
<1>6. HeldAreOpen'
  <2>1. request' # None => exchange'[request'] = "open"
    BY <1>2, <1>3, <1>5 DEF IndId, HeldAreOpen, ReleaseUnheld
  <2>2. response_writer' # None => exchange'[response_writer'] = "open"
    <3>1. response_writer \in Requests \cup {None}
      BY DEF IndId, TypeOK
    <3> QED
      BY <1>2, <1>3, <1>5, <3>1 DEF IndId, HeldAreOpen, ReleaseUnheld
  <2> QED
    BY <1>3, <1>4, <2>1, <2>2 DEF IndId, HeldAreOpen
<1>7. OneAtATime'
  BY <1>2, <1>5 DEF IndId, OneAtATime, ReleaseUnheld
<1>8. AnswerCarriesItsMessageId'
  <2>1. CASE written' = written
    BY <2>1 DEF IndId, AnswerCarriesItsMessageId
  <2>2. CASE written' # written
    <3>1. /\ written' = [written EXCEPT ![response_writer] =
                           Append(@, [id |-> handler, messages |-> copied[t]])]
          /\ response_writer # None
      BY <2>2 DEF Respond, TestWaiting, SwapEvents, LeftQueued,
                  CallHandler, ResetWriter, ClearWaiting, httpVars
    <3>2. handler = response_writer /\ response_writer \in Requests
      BY <3>1 DEF IndId, HeldAreOpen, TypeOK
    <3>3. ASSUME NEW r \in Requests, NEW i \in DOMAIN written'[r]
          PROVE  written'[r][i].id = r
      <4>1. CASE r # response_writer
        <5>1. written'[r] = written[r]
          BY <3>1, <4>1 DEF IndId, TypeOK
        <5> QED
          BY <3>3, <5>1 DEF IndId, AnswerCarriesItsMessageId
      <4>2. CASE r = response_writer
        <5> DEFINE w == written[r]
                   e == [id |-> handler, messages |-> copied[t]]
        <5>1. w \in Seq([id : Requests, messages : Seq(Service!Message)]) /\ written'[r] = Append(w, e)
          BY <3>1, <4>2 DEF IndId, TypeOK
        <5>2. e \in [id : Requests, messages : Seq(Service!Message)]
          BY <3>2 DEF IndId, TypeOK
        <5>3. /\ Append(w, e) \in Seq([id : Requests, messages : Seq(Service!Message)])
              /\ Len(Append(w, e)) = Len(w) + 1
              /\ \A j \in 1..Len(w) : Append(w, e)[j] = w[j]
              /\ Append(w, e)[Len(w) + 1] = e
          BY <5>1, <5>2, AppendProperties
        <5>4. DOMAIN w = 1..Len(w) /\ Len(w) \in Nat /\ DOMAIN Append(w, e) = 1..(Len(w) + 1)
          BY <5>1, <5>3, LenProperties
        <5>5. \A j \in DOMAIN w : w[j].id = r
          BY DEF IndId, AnswerCarriesItsMessageId
        <5>6. e.id = r
          BY <3>2, <4>2
        <5> HIDE DEF w, e
        <5>7. i \in 1..(Len(w) + 1)
          BY <3>3, <5>1, <5>4
        <5> QED
          BY <5>1, <5>3, <5>4, <5>5, <5>6, <5>7
      <4> QED
        BY <4>1, <4>2
    <3> QED
      BY <3>3 DEF AnswerCarriesItsMessageId
  <2> QED
    BY <2>1, <2>2
<1> QED
  BY <1>6, <1>7, <1>8 DEF IndId

LEMMA OnlyRequestIsOpen ==
  ASSUME IndId, TypeOK', NEW r \in Requests, \A q \in Requests : Client[q] = Client[r],
         CreatePullPoint(r) \/ PullMessages(r) \/ SetSynchronizationPoint(r)
  PROVE  IndId'
<1>1. \A q \in Requests : exchange[q] # "open"
  BY DEF CreatePullPoint, PullMessages, SetSynchronizationPoint, Sends
<1>2. response_writer = None /\ request = None
  BY <1>1 DEF IndId, HeldAreOpen, TypeOK
<1>3. DOMAIN exchange = Requests /\ DOMAIN pc = Threads /\ "H" \in Threads /\ None \notin Requests
  BY ThreadsAssumption DEF IndId, TypeOK, Threads
<1>4. AnswerCarriesItsMessageId'
  BY DEF CreatePullPoint, PullMessages, SetSynchronizationPoint, IndId, AnswerCarriesItsMessageId
<1>5. OneAtATime'
  BY <1>1, <1>3 DEF CreatePullPoint, PullMessages, SetSynchronizationPoint, OneAtATime
<1>6. HeldAreOpen'
  <2>1. response_writer' = None
    BY <1>2 DEF CreatePullPoint, PullMessages, SetSynchronizationPoint, ppVars
  <2>2. CASE CreatePullPoint(r)
    BY <1>2, <2>1, <2>2 DEF CreatePullPoint, IndId, HeldAreOpen, localVars
  <2>3. CASE PullMessages(r)
    BY <1>3, <2>1, <2>3 DEF PullMessages, Goes, HeldAreOpen
  <2>4. CASE SetSynchronizationPoint(r)
    BY <1>3, <2>1, <2>4 DEF SetSynchronizationPoint, Goes, HeldAreOpen
  <2> QED
    BY <2>2, <2>3, <2>4
<1> QED
  BY <1>4, <1>5, <1>6 DEF IndId

LEMMA WorkerKeepsIds ==
  ASSUME IndId, TypeOK',
         \/ TakeReady \/ GenerateEvent \/ Notify \/ TimeoutDone
         \/ TimeoutExpires \/ UNCHANGED vars
         \/ \E g \in Generators : AlarmExpires(g)
  PROVE  IndId'
<1>1. UNCHANGED <<handler, response_writer, exchange, written, request>>
  BY DEF TakeReady, GenerateEvent, Notify, TimeoutDone, TimeoutExpires, AlarmExpires, vars,
         ppVars, httpVars, localVars
<1>2. pc' = pc \/ \E label \in Labels : Goes("W", label)
  BY DEF TakeReady, GenerateEvent, Notify, TimeoutDone, TimeoutExpires, AlarmExpires, vars,
         Ends, Labels
<1>3. pc'["H"] = pc["H"]
  BY <1>2 DEF Goes, IndId, TypeOK, Threads
<1> QED
  BY <1>1, <1>3 DEF IndId, OneAtATime, HeldAreOpen, AnswerCarriesItsMessageId

\* With one client, AnswerCarriesItsMessageId, however the two threads overlap.
THEOREM MessageIdsCorrect ==
  ASSUME \A q, r \in Requests : Client[q] = Client[r]
  PROVE  Spec => []AnswerCarriesItsMessageId
<1>1. Init => IndId
  <2> SUFFICES ASSUME Init PROVE IndId
    OBVIOUS
  <2>1. TypeOK
    BY InitTypes DEF IndType
  <2>2. pc["H"] = "idle" /\ DOMAIN <<>> = {}
    BY DEF Init, Threads
  <2> QED
    BY <2>1, <2>2 DEF Init, IndId, OneAtATime, HeldAreOpen, AnswerCarriesItsMessageId
<1>2. IndId /\ TypeOK' /\ [Next]_vars => IndId'
  <2> SUFFICES ASSUME IndId, TypeOK', [Next]_vars PROVE IndId'
    OBVIOUS
  <2>1. ASSUME NEW r \in Requests,
               CreatePullPoint(r) \/ PullMessages(r) \/ SetSynchronizationPoint(r)
        PROVE  IndId'
    BY <2>1, OnlyRequestIsOpen
  <2>2. CASE StepH
    BY <2>2, HandlerStoresId, AnswerHasId DEF StepH, Threads
  <2>3. CASE StepW
    BY <2>3, WorkerKeepsIds, AnswerHasId DEF StepW, Threads
  <2>4. CASE TimeoutExpires \/ UNCHANGED vars \/ \E g \in Generators : AlarmExpires(g)
    BY <2>4, WorkerKeepsIds
  <2> QED
    BY <2>1, <2>2, <2>3, <2>4 DEF Next
<1>3. IndId => AnswerCarriesItsMessageId
  BY DEF IndId
<1> QED
  BY <1>1, <1>2, <1>3, TypeCorrect, PTL DEF Spec

-----------------------------------------------------------------------------
(* No change is sent twice.                                                 *)

Pair(m) == <<m.source, m.stamp>>
Changed(q) == {Pair(m) : m \in {n \in Range(q) : n.op = "Changed"}}
Once(q) == \A i, j \in DOMAIN q : SameChange(q[i], q[j]) => i = j

\* Where a message may be: sent, queued, or taken out of the queue by a thread.
Places == {"stream", "events"} \cup Threads
At(p) == IF p = "stream" THEN stream ELSE IF p = "events" THEN events ELSE copied[p]

\* A change is in one place and there once, the source has counted it, and the one
\* that Notify is about to queue is in none.
ChangesAreSingle ==
  /\ \A p \in Places : Once(At(p))
  /\ \A p, q \in Places : p # q => Changed(At(p)) \cap Changed(At(q)) = {}
ChangesAreCounted ==
  \A p \in Places, s \in Sources, n \in Nat : <<s, n>> \in Changed(At(p)) => n <= changes[s]
NextIsNew ==
  pc["W"] = "push" =>
    \A p \in Places : <<Head(todo["W"]), changes[Head(todo["W"])]>> \notin Changed(At(p))
IndOnce == ChangesAreSingle /\ ChangesAreCounted /\ NextIsNew

LEMMA NoChangeInEmpty == Changed(<<>>) = {} /\ Once(<<>>)
<1>1. DOMAIN <<>> = {}
  OBVIOUS
<1> QED
  BY <1>1 DEF Changed, Once, Range

LEMMA AppendedChange ==
  ASSUME NEW q \in Seq(Service!Message), NEW m \in Service!Message
  PROVE  /\ Changed(Append(q, m)) =
              Changed(q) \cup (IF m.op = "Changed" THEN {Pair(m)} ELSE {})
         /\ Once(q) /\ (m.op = "Changed" => Pair(m) \notin Changed(q)) => Once(Append(q, m))
<1>1. Range(Append(q, m)) = Range(q) \cup {m}
  BY AppendElements
<1>2. Changed(Append(q, m)) = Changed(q) \cup (IF m.op = "Changed" THEN {Pair(m)} ELSE {})
  BY <1>1 DEF Changed
<1>3. ASSUME Once(q), m.op = "Changed" => Pair(m) \notin Changed(q)
      PROVE  Once(Append(q, m))
  <2>1. /\ Len(Append(q, m)) = Len(q) + 1
        /\ \A i \in 1..Len(q) : Append(q, m)[i] = q[i]
        /\ Append(q, m)[Len(q) + 1] = m
        /\ Append(q, m) \in Seq(Service!Message)
    BY AppendProperties
  <2>2. Len(q) \in Nat /\ DOMAIN q = 1..Len(q) /\ DOMAIN Append(q, m) = 1..(Len(q) + 1)
    BY <2>1, LenProperties
  <2>3. ASSUME NEW i \in 1..Len(q) PROVE ~SameChange(q[i], m) /\ ~SameChange(m, q[i])
    <3>1. q[i] \in Range(q)
      BY <2>2 DEF Range
    <3>2. q[i].op = "Changed" => Pair(q[i]) \in Changed(q)
      BY <3>1 DEF Changed
    <3> QED
      BY <1>3, <3>2 DEF SameChange, Pair
  <2>4. \A i, j \in 1..Len(q) : SameChange(q[i], q[j]) => i = j
    BY <1>3, <2>2 DEF Once
  <2>5. ASSUME NEW i \in 1..(Len(q) + 1), NEW j \in 1..(Len(q) + 1),
               SameChange(Append(q, m)[i], Append(q, m)[j])
        PROVE  i = j
    <3>1. (i \in 1..Len(q) \/ i = Len(q) + 1) /\ (j \in 1..Len(q) \/ j = Len(q) + 1)
      BY <2>2
    <3>2. CASE i \in 1..Len(q) /\ j \in 1..Len(q)
      <4>1. SameChange(q[i], q[j])
        BY <2>1, <2>5, <3>2
      <4> QED
        BY <2>4, <3>2, <4>1
    <3>3. CASE i \in 1..Len(q) /\ j = Len(q) + 1
      BY <2>1, <2>3, <2>5, <3>3
    <3>4. CASE i = Len(q) + 1 /\ j \in 1..Len(q)
      BY <2>1, <2>3, <2>5, <3>4
    <3> QED
      BY <3>1, <3>2, <3>3, <3>4
  <2> QED
    BY <2>2, <2>5 DEF Once
<1> QED
  BY <1>2, <1>3

LEMMA JoinedChanges ==
  ASSUME NEW q \in Seq(Service!Message), NEW r \in Seq(Service!Message)
  PROVE  /\ Changed(q \o r) = Changed(q) \cup Changed(r)
         /\ Once(q) /\ Once(r) /\ Changed(q) \cap Changed(r) = {} => Once(q \o r)
<1>1. /\ q \o r \in Seq(Service!Message)
      /\ Len(q \o r) = Len(q) + Len(r)
      /\ \A i \in 1..(Len(q) + Len(r)) :
           (q \o r)[i] = IF i <= Len(q) THEN q[i] ELSE r[i - Len(q)]
  BY ConcatProperties
<1>2. /\ Len(q) \in Nat /\ DOMAIN q = 1..Len(q)
      /\ Len(r) \in Nat /\ DOMAIN r = 1..Len(r)
      /\ DOMAIN (q \o r) = 1..(Len(q) + Len(r))
  BY <1>1, LenProperties
<1>3. \A i \in 1..Len(q) : (q \o r)[i] = q[i]
  BY <1>1, <1>2
<1>4. \A i \in 1..Len(r) : (q \o r)[Len(q) + i] = r[i]
  <2> TAKE i \in 1..Len(r)
  <2>1. Len(q) + i \in 1..(Len(q) + Len(r)) /\ ~(Len(q) + i <= Len(q)) /\ Len(q) + i - Len(q) = i
    BY <1>2
  <2> QED
    BY <1>1, <2>1
<1>5. \A i \in 1..(Len(q) + Len(r)) :
        i \in 1..Len(q) \/ \E k \in 1..Len(r) : i = Len(q) + k
  <2> TAKE i \in 1..(Len(q) + Len(r))
  <2>1. CASE i > Len(q)
    <3>1. i - Len(q) \in 1..Len(r) /\ i = Len(q) + (i - Len(q))
      BY <1>2, <2>1
    <3> QED
      BY <3>1
  <2> QED
    BY <1>2, <2>1
<1> DEFINE j == q \o r
<1>6. Range(j) = Range(q) \cup Range(r)
  <2>1. \A i \in 1..Len(q) : i \in DOMAIN j
    BY <1>2
  <2>2. \A i \in 1..Len(r) : Len(q) + i \in DOMAIN j
    BY <1>2
  <2>3. Range(q) \subseteq Range(j)
    BY <1>2, <1>3, <2>1 DEF Range
  <2>4. Range(r) \subseteq Range(j)
    BY <1>2, <1>4, <2>2 DEF Range
  <2>5. ASSUME NEW i \in 1..(Len(q) + Len(r)) PROVE j[i] \in Range(q) \cup Range(r)
    <3>1. CASE i \in 1..Len(q)
      <4>1. j[i] = q[i] /\ i \in DOMAIN q
        BY <1>2, <1>3, <3>1
      <4> QED
        BY <4>1 DEF Range
    <3>2. ASSUME NEW k \in 1..Len(r), i = Len(q) + k PROVE j[i] \in Range(r)
      <4>1. j[i] = r[k] /\ k \in DOMAIN r
        BY <1>2, <1>4, <3>2
      <4> QED
        BY <4>1 DEF Range
    <3> QED
      BY <1>5, <3>1, <3>2
  <2>6. Range(j) \subseteq Range(q) \cup Range(r)
    BY <1>2, <2>5 DEF Range
  <2> QED
    BY <2>3, <2>4, <2>6
<1> HIDE DEF j
<1>7. Changed(j) = Changed(q) \cup Changed(r)
  BY <1>6 DEF Changed
<1>8. ASSUME Once(q), Once(r), Changed(q) \cap Changed(r) = {}
      PROVE  Once(j)
  <2>1. ASSUME NEW i \in 1..Len(q), NEW k \in 1..Len(r)
        PROVE  ~SameChange(q[i], r[k]) /\ ~SameChange(r[k], q[i])
    <3>1. q[i] \in Range(q) /\ r[k] \in Range(r)
      BY <1>2 DEF Range
    <3>2. /\ q[i].op = "Changed" => Pair(q[i]) \in Changed(q)
          /\ r[k].op = "Changed" => Pair(r[k]) \in Changed(r)
      BY <3>1 DEF Changed
    <3> QED
      BY <1>8, <3>2 DEF SameChange, Pair
  <2>2. /\ \A i, k \in 1..Len(q) : SameChange(q[i], q[k]) => i = k
        /\ \A i, k \in 1..Len(r) : SameChange(r[i], r[k]) => i = k
    BY <1>2, <1>8 DEF Once
  <2>3. /\ \A i \in 1..Len(q) : j[i] = q[i]
        /\ \A i \in 1..Len(r) : j[Len(q) + i] = r[i]
    BY <1>3, <1>4 DEF j
  <2>4. ASSUME NEW i \in 1..(Len(q) + Len(r)), NEW k \in 1..(Len(q) + Len(r)),
               SameChange(j[i], j[k])
        PROVE  i = k
    <3>1. CASE i \in 1..Len(q) /\ k \in 1..Len(q)
      <4>1. SameChange(q[i], q[k])
        BY <2>3, <2>4, <3>1
      <4> QED
        BY <2>2, <3>1, <4>1
    <3>2. ASSUME NEW l \in 1..Len(r), i = Len(q) + l, k \in 1..Len(q) PROVE FALSE
      BY <2>1, <2>3, <2>4, <3>2
    <3>3. ASSUME NEW l \in 1..Len(r), k = Len(q) + l, i \in 1..Len(q) PROVE FALSE
      BY <2>1, <2>3, <2>4, <3>3
    <3>4. ASSUME NEW l \in 1..Len(r), i = Len(q) + l, NEW n \in 1..Len(r), k = Len(q) + n
          PROVE  i = k
      <4>1. SameChange(r[l], r[n])
        BY <2>3, <2>4, <3>4
      <4>2. l = n
        BY <2>2, <4>1
      <4> QED
        BY <3>4, <4>2
    <3> QED
      BY <1>5, <3>1, <3>2, <3>3, <3>4
  <2>5. DOMAIN j = 1..(Len(q) + Len(r))
    BY <1>2 DEF j
  <2> QED
    BY <2>4, <2>5 DEF Once
<1> QED
  BY <1>7, <1>8 DEF j

LEMMA PlacesHoldMessages ==
  ASSUME IndType, NEW p \in Places
  PROVE  At(p) \in Seq(Service!Message)
  BY DEF IndType, TypeOK, Places, At

\* Steps that leave the places and the counts alone.
LEMMA PlacesUntouched ==
  ASSUME IndType, IndOnce, UNCHANGED <<stream, events, copied, changes>>,
         pc'["W"] = "push" => pc["W"] = "push" /\ todo'["W"] = todo["W"]
  PROVE  IndOnce'
<1>1. \A p \in Places : At(p)' = At(p)
  BY DEF At
<1>2. ChangesAreSingle'
  BY <1>1 DEF IndOnce, ChangesAreSingle
<1>3. ChangesAreCounted'
  BY <1>1 DEF IndOnce, ChangesAreCounted
<1>4. NextIsNew'
  BY <1>1 DEF IndOnce, NextIsNew
<1> QED
  BY <1>2, <1>3, <1>4 DEF IndOnce

\* Messages are queued only behind the others, or thrown away: what is in the queue is
\* as it was, but for the last message.
LEMMA QueueGrows ==
  ASSUME IndType, IndOnce, NEW m \in Service!Message, events' = Append(events, m),
         UNCHANGED <<stream, copied, changes>>, pc'["W"] = "push" => m.op # "Changed",
         pc'["W"] = "push" => pc["W"] = "push" /\ todo'["W"] = todo["W"],
         m.op = "Changed" =>
           /\ m.stamp <= changes[m.source]
           /\ \A p \in Places : Pair(m) \notin Changed(At(p))
  PROVE  IndOnce'
<1> DEFINE new == IF m.op = "Changed" THEN {Pair(m)} ELSE {}
<1>1. \A p \in Places : p # "events" => At(p)' = At(p)
  BY DEF At
<1>2. At("events") = events /\ At("events")' = Append(events, m) /\ "events" \in Places
  BY DEF At, Places
<1>3. events \in Seq(Service!Message)
  BY DEF IndType, TypeOK
<1>4. Changed(At("events")') = Changed(At("events")) \cup new /\ Once(At("events")')
  <2>1. Once(events) /\ (m.op = "Changed" => Pair(m) \notin Changed(events))
    BY <1>2 DEF IndOnce, ChangesAreSingle
  <2>2. Changed(Append(events, m)) = Changed(events) \cup new /\ Once(Append(events, m))
    BY <1>3, <2>1, AppendedChange
  <2> QED
    BY <1>2, <2>2
<1>5. \A p \in Places : Once(At(p)')
  BY <1>1, <1>4 DEF IndOnce, ChangesAreSingle
<1>6. \A p \in Places : Changed(At(p)') \subseteq Changed(At(p)) \cup new
  BY <1>1, <1>4
<1>7. \A p \in Places : p # "events" => Changed(At(p)') = Changed(At(p))
  BY <1>1
<1>8. \A p \in Places : Changed(At(p)) \cap new = {}
  OBVIOUS
<1>9. ASSUME NEW p \in Places, NEW q \in Places, p # q
      PROVE  Changed(At(p)') \cap Changed(At(q)') = {}
  <2>1. Changed(At(p)) \cap Changed(At(q)) = {}
    BY <1>9 DEF IndOnce, ChangesAreSingle
  <2> HIDE DEF new
  <2> QED
    BY <1>6, <1>7, <1>8, <1>9, <2>1
<1>10. ASSUME NEW p \in Places, NEW s \in Sources, NEW n \in Nat, <<s, n>> \in Changed(At(p)')
       PROVE  n <= changes'[s]
  <2>1. CASE <<s, n>> \in Changed(At(p))
    BY <2>1 DEF IndOnce, ChangesAreCounted
  <2>2. CASE <<s, n>> \in new
    BY <2>2 DEF Pair
  <2> QED
    BY <1>6, <1>10, <2>1, <2>2
<1>11. NextIsNew'
  <2>1. CASE pc'["W"] = "push"
    <3>1. new = {}
      BY <2>1
    <3> HIDE DEF new
    <3>2. \A p \in Places : Changed(At(p)') \subseteq Changed(At(p))
      BY <1>6, <3>1
    <3> QED
      BY <2>1, <3>2 DEF IndOnce, NextIsNew
  <2> QED
    BY <2>1 DEF NextIsNew
<1> QED
  BY <1>5, <1>9, <1>10, <1>11 DEF IndOnce, ChangesAreSingle, ChangesAreCounted

\* What a thread does with the messages of two places: those of q go where those of p
\* were, or behind them, and q is left empty.
LEMMA MessagesMove ==
  ASSUME IndType, IndOnce, NEW p \in Places, NEW q \in Places, p # q,
         At(q)' = <<>>, At(p)' = At(q) \/ At(p)' = At(p) \o At(q),
         \A o \in Places \ {p, q} : At(o)' = At(o),
         UNCHANGED changes, pc'["W"] = "push" => pc["W"] = "push" /\ todo'["W"] = todo["W"]
  PROVE  IndOnce'
<1>1. /\ At(p) \in Seq(Service!Message)
      /\ At(q) \in Seq(Service!Message)
  BY PlacesHoldMessages
<1>2. Once(At(p)) /\ Once(At(q)) /\ Changed(At(p)) \cap Changed(At(q)) = {}
  BY DEF IndOnce, ChangesAreSingle
<1>3. Changed(At(p)') \subseteq Changed(At(p)) \cup Changed(At(q)) /\ Once(At(p)')
  BY <1>1, <1>2, JoinedChanges
<1>4. Changed(At(q)') = {} /\ Once(At(q)')
  BY NoChangeInEmpty
<1>5. \A o \in Places : Once(At(o)')
  BY <1>3, <1>4 DEF IndOnce, ChangesAreSingle
<1>6. \A o \in Places \ {p, q} : Changed(At(o)') = Changed(At(o))
  OBVIOUS
<1>7. ASSUME NEW o \in Places, NEW u \in Places, o # u
      PROVE  Changed(At(o)') \cap Changed(At(u)') = {}
  <2>1. \A v, w \in Places : v # w => Changed(At(v)) \cap Changed(At(w)) = {}
    BY DEF IndOnce, ChangesAreSingle
  <2>2. CASE o = q \/ u = q
    BY <1>4, <2>2
  <2>3. CASE o = p /\ u # q
    <3>1. u \in Places \ {p, q}
      BY <1>7, <2>3
    <3>2. Changed(At(u)) \cap (Changed(At(p)) \cup Changed(At(q))) = {}
      BY <2>1, <3>1
    <3> QED
      BY <1>3, <1>6, <2>3, <3>1, <3>2
  <2>4. CASE u = p /\ o # q
    <3>1. o \in Places \ {p, q}
      BY <1>7, <2>4
    <3>2. Changed(At(o)) \cap (Changed(At(p)) \cup Changed(At(q))) = {}
      BY <2>1, <3>1
    <3> QED
      BY <1>3, <1>6, <2>4, <3>1, <3>2
  <2>5. CASE o \notin {p, q} /\ u \notin {p, q}
    BY <1>6, <1>7, <2>1, <2>5
  <2> QED
    BY <2>2, <2>3, <2>4, <2>5
<1>8. \A o \in Places : \A c \in Changed(At(o)') : \E u \in Places : c \in Changed(At(u))
  BY <1>3, <1>4, <1>6
<1>9. ChangesAreCounted'
  BY <1>8 DEF IndOnce, ChangesAreCounted
<1>10. NextIsNew'
  BY <1>8 DEF IndOnce, NextIsNew
<1> QED
  BY <1>5, <1>7, <1>9, <1>10 DEF IndOnce, ChangesAreSingle

LEMMA InsertKeepsSingle ==
  ASSUME IndType, IndOnce, InsertSyncEvents
  PROVE  IndOnce'
<1>1. pc'["W"] = pc["W"]
  BY DEF InsertSyncEvents, Ends, Goes, IndType, TypeOK, Threads
<1>2. CASE todo["H"] = <<>>
  <2>1. UNCHANGED <<stream, events, copied, changes, todo>>
    BY <1>2 DEF InsertSyncEvents, sourceVars
  <2> QED
    BY <1>1, <2>1, PlacesUntouched
<1>3. CASE todo["H"] # <<>>
  <2> DEFINE m == SyncMessage(Head(todo["H"]))
  <2>1. todo["H"] \in Seq(Sources)
    BY DEF IndType, TypeOK, Threads
  <2>2. m \in Service!Message
    BY <1>3, <2>1, HeadTailProperties, MessageTypes
  <2>3. m.op # "Changed"
    BY DEF SyncMessage
  <2>4. events' = Append(events, m) /\ UNCHANGED <<stream, copied, changes>>
    BY <1>3 DEF InsertSyncEvents, sourceVars
  <2>5. todo'["W"] = todo["W"]
    BY <1>3 DEF InsertSyncEvents, IndType, TypeOK, Threads
  <2> HIDE DEF m
  <2> QED
    BY <1>1, <2>2, <2>3, <2>4, <2>5, QueueGrows
<1> QED
  BY <1>2, <1>3

\* The queue is cleared for synchronization.
LEMMA ClearingKeepsSingle ==
  ASSUME IndType, IndOnce, NEW r \in Requests, SetSynchronizationPoint(r)
  PROVE  IndOnce'
<1>1. events' = <<>> /\ UNCHANGED <<stream, copied, changes>>
  BY DEF SetSynchronizationPoint, sourceVars
<1>2. pc'["W"] = pc["W"] /\ todo'["W"] = todo["W"]
  BY DEF SetSynchronizationPoint, Goes, IndType, TypeOK, Threads
<1>3. \A p \in Places : At(p)' = IF p = "events" THEN <<>> ELSE At(p)
  BY <1>1 DEF At
<1>4. \A p \in Places : Changed(At(p)') \subseteq Changed(At(p)) /\ Once(At(p)')
  BY <1>3, NoChangeInEmpty DEF IndOnce, ChangesAreSingle
<1>5. ChangesAreSingle'
  BY <1>4 DEF IndOnce, ChangesAreSingle
<1>6. ChangesAreCounted' /\ NextIsNew'
  BY <1>1, <1>2, <1>4 DEF IndOnce, ChangesAreCounted, NextIsNew
<1> QED
  BY <1>5, <1>6 DEF IndOnce

LEMMA TakingKeepsSingle ==
  ASSUME IndType, IndOnce, TakeReady
  PROVE  IndOnce'
<1>1. UNCHANGED <<stream, events, copied, changes>>
  BY DEF TakeReady, ppVars, sourceVars
<1>2. pc'["W"] \in {"signal", "waiting"}
  BY DEF TakeReady, Goes, IndType, TypeOK, Threads
<1> QED
  BY <1>1, <1>2, PlacesUntouched

\* A source counts its change before Notify queues it.
LEMMA GeneratingKeepsSingle ==
  ASSUME IndType, IndOnce, GenerateEvent
  PROVE  IndOnce'
<1>1. UNCHANGED <<stream, events, copied, todo>>
  BY DEF GenerateEvent, ppVars
<1>2. CASE todo["W"] = <<>>
  <2>1. UNCHANGED changes /\ pc'["W"] = "idle"
    BY <1>2 DEF GenerateEvent, sourceVars, Ends, Goes, IndType, TypeOK, Threads
  <2> QED
    BY <1>1, <2>1, PlacesUntouched
<1>3. CASE todo["W"] # <<>>
  <2> DEFINE s == Head(todo["W"])
  <2>1. todo["W"] \in Seq(Sources)
    BY DEF IndType, TypeOK, Threads
  <2>2. s \in Sources
    BY <1>3, <2>1, HeadTailProperties
  <2>3. changes' = [changes EXCEPT ![s] = @ + 1]
    BY <1>3 DEF GenerateEvent
  <2>4. changes \in [Sources -> Nat]
    BY DEF IndType, TypeOK
  <2>5. Head(todo'["W"]) = s
    BY <1>1
  <2> HIDE DEF s
  <2>6. \A u \in Sources : changes[u] \in Nat /\ changes[u] <= changes'[u]
    BY <2>3, <2>4
  <2>7. changes'[s] = changes[s] + 1 /\ changes[s] \in Nat
    BY <2>2, <2>3, <2>4
  <2>8. \A p \in Places : At(p)' = At(p)
    BY <1>1 DEF At
  <2>9. ASSUME NEW p \in Places, NEW u \in Sources, NEW n \in Nat, <<u, n>> \in Changed(At(p))
        PROVE  n <= changes'[u]
    <3>1. n <= changes[u]
      BY <2>9 DEF IndOnce, ChangesAreCounted
    <3>2. changes[u] <= changes'[u] /\ changes[u] \in Nat /\ changes'[u] \in Nat
      BY <2>3, <2>4, <2>6
    <3> QED
      BY <3>1, <3>2
  <2>10. ASSUME NEW p \in Places PROVE <<s, changes'[s]>> \notin Changed(At(p))
    <3>1. changes'[s] \in Nat /\ ~(changes'[s] <= changes[s])
      BY <2>7
    <3> QED
      BY <2>2, <3>1 DEF IndOnce, ChangesAreCounted
  <2>11. ChangesAreSingle' /\ ChangesAreCounted'
    BY <2>8, <2>9 DEF IndOnce, ChangesAreSingle, ChangesAreCounted
  <2>12. NextIsNew'
    BY <2>5, <2>8, <2>10 DEF NextIsNew
  <2> QED
    BY <2>11, <2>12 DEF IndOnce
<1> QED
  BY <1>2, <1>3

LEMMA NotifyingKeepsSingle ==
  ASSUME IndType, IndOnce, Notify
  PROVE  IndOnce'
<1>1. UNCHANGED <<stream, copied, changes>> /\ pc'["W"] \in {"waiting", "signal"}
  BY DEF Notify, Goes, sourceVars, IndType, TypeOK, Threads
<1>2. CASE ~connected
  BY <1>1, <1>2, PlacesUntouched DEF Notify
<1>3. CASE connected
  <2> DEFINE s == Head(todo["W"])
             m == ChangedMessage(s)
  <2>1. todo["W"] \in Seq(Sources) /\ todo["W"] # <<>>
    BY DEF Notify, IndType, TypeOK, Threads
  <2>2. s \in Sources /\ changes[s] \in Nat
    BY <2>1, HeadTailProperties DEF IndType, TypeOK
  <2>3. m \in Service!Message
    BY <2>2, MessageTypes
  <2>4. m.source = s /\ m.stamp = changes[s] /\ Pair(m) = <<s, changes[s]>>
    BY DEF ChangedMessage, Pair
  <2>5. events' = Append(events, m)
    BY <1>3 DEF Notify
  <2>6. \A p \in Places : <<s, changes[s]>> \notin Changed(At(p))
    BY DEF Notify, IndOnce, NextIsNew
  <2>7. m.stamp <= changes[m.source]
    BY <2>2, <2>4
  <2> HIDE DEF m, s
  <2> QED
    BY <1>1, <2>3, <2>4, <2>5, <2>6, <2>7, QueueGrows
<1> QED
  BY <1>2, <1>3

LEMMA RespondingKeepsSingle ==
  ASSUME IndType, IndOnce, NEW t \in Threads, Respond(t)
  PROVE  IndOnce'
<1>1. UNCHANGED <<changes, todo>> /\ t \in Places
  BY DEF Respond, TestWaiting, SwapEvents, CallHandler, ResetWriter, ClearWaiting,
         sourceVars, localVars, Places
<1>2. pc'["W"] = "push" => pc["W"] = "push"
  <2>1. pc' = pc \/ \E label \in Labels \ {"push"} : Goes(t, label)
    BY AfterIsALabel DEF Respond, TestWaiting, SwapEvents, CallHandler, ResetWriter, ClearWaiting,
                         Labels
  <2> QED
    BY <2>1, GoesOn DEF Threads
<1>3. CASE SwapEvents(t)
  <2>1. At("events")' = <<>> /\ "events" \in Places /\ t # "events" /\ t # "stream"
    BY <1>3 DEF SwapEvents, LeftQueued, At, Places, Threads
  <2>2. /\ At(t)' = At("events")
        /\ \A p \in Places \ {t, "events"} : At(p)' = At(p)
    BY <1>3, <2>1 DEF SwapEvents, At, Places, IndType, TypeOK
  <2> QED
    BY <1>1, <1>2, <2>1, <2>2, MessagesMove
<1>4. CASE CallHandler(t) /\ handler # None /\ response_writer # None
  <2>1. "stream" \in Places /\ t # "events" /\ t # "stream"
    BY DEF Places, Threads
  <2>2. /\ stream' = stream \o copied[t]
        /\ copied' = [copied EXCEPT ![t] = <<>>]
        /\ UNCHANGED events
    BY <1>4 DEF CallHandler, ppVars
  <2>3. At("stream")' = At("stream") \o At(t)
    BY <2>1, <2>2 DEF At
  <2>4. /\ At(t)' = <<>>
        /\ \A p \in Places \ {t, "stream"} : At(p)' = At(p)
    BY <2>1, <2>2 DEF At, Places, IndType, TypeOK
  <2> QED
    BY <1>1, <1>2, <2>1, <2>3, <2>4, MessagesMove
<1>5. CASE UNCHANGED <<stream, events, copied>>
  BY <1>1, <1>2, <1>5, PlacesUntouched
<1>6. SwapEvents(t) \/ UNCHANGED <<stream, events, copied>>
        \/ (CallHandler(t) /\ handler # None /\ response_writer # None)
  BY DEF Respond, TestWaiting, CallHandler, ResetWriter, ClearWaiting, ppVars, localVars
<1> QED
  BY <1>3, <1>4, <1>5, <1>6

LEMMA OtherStepsKeepSingle ==
  ASSUME IndType, IndOnce,
         \/ StoreHandler \/ StoreWriter \/ TestEmpty \/ ChargeTimeout \/ TimeoutDone
         \/ TimeoutExpires \/ UNCHANGED vars
         \/ \E g \in Generators : AlarmExpires(g)
         \/ \E r \in Requests : CreatePullPoint(r) \/ PullMessages(r)
  PROVE  IndOnce'
<1>1. UNCHANGED <<stream, events, copied, changes, todo>>
  BY DEF StoreHandler, StoreWriter, TestEmpty, ChargeTimeout, TimeoutDone, TimeoutExpires, vars,
         AlarmExpires, CreatePullPoint, PullMessages, ppVars, sourceVars, localVars
<1>2. pc' = pc \/ Ends("W")
        \/ \E label \in {"handler", "writer", "empty", "charge", "waiting", "idle"} : Goes("H", label)
  BY DEF StoreHandler, StoreWriter, TestEmpty, ChargeTimeout, TimeoutDone, TimeoutExpires, vars,
         AlarmExpires, CreatePullPoint, PullMessages, Ends
<1>3. pc'["W"] = "push" => pc["W"] = "push"
  BY <1>2 DEF Ends, Goes, IndType, TypeOK, Threads
<1> QED
  BY <1>1, <1>3, PlacesUntouched

\* NothingSentTwice, for any clients and whether the threads overlap or not.
THEOREM NoChangeIsSentTwice == Spec => []NothingSentTwice
<1>1. Init => IndOnce
  <2> SUFFICES ASSUME Init PROVE IndOnce
    OBVIOUS
  <2>1. \A p \in Places : At(p) = <<>>
    BY DEF Init, At, Places
  <2>2. pc["W"] # "push"
    BY DEF Init, Threads
  <2> QED
    BY <2>1, <2>2, NoChangeInEmpty
       DEF IndOnce, ChangesAreSingle, ChangesAreCounted, NextIsNew
<1>2. IndType /\ IndOnce /\ [Next]_vars => IndOnce'
  <2> SUFFICES ASSUME IndType, IndOnce, [Next]_vars PROVE IndOnce'
    OBVIOUS
  <2>1. ASSUME NEW r \in Requests,
               CreatePullPoint(r) \/ PullMessages(r) \/ SetSynchronizationPoint(r)
        PROVE  IndOnce'
    BY <2>1, ClearingKeepsSingle, OtherStepsKeepSingle
  <2>2. CASE StepH
    BY <2>2, InsertKeepsSingle, RespondingKeepsSingle, OtherStepsKeepSingle DEF StepH, Threads
  <2>3. CASE StepW
    BY <2>3, TakingKeepsSingle, GeneratingKeepsSingle, NotifyingKeepsSingle, RespondingKeepsSingle,
       OtherStepsKeepSingle DEF StepW, Threads
  <2>4. CASE TimeoutExpires \/ UNCHANGED vars \/ \E g \in Generators : AlarmExpires(g)
    BY <2>4, OtherStepsKeepSingle
  <2> QED
    BY <2>1, <2>2, <2>3, <2>4 DEF Next
<1>3. Init => IndType
  BY InitTypes
<1>4. IndType /\ [Next]_vars => IndType'
  BY StepTypes
<1>5. IndOnce => NothingSentTwice
  BY DEF IndOnce, ChangesAreSingle, Once, Places, At, NothingSentTwice
<1> QED
  BY <1>1, <1>2, <1>3, <1>4, <1>5, PTL DEF Spec

-----------------------------------------------------------------------------
(* Without overlap: where each thread stands between the state B in which   *)
(* its handler started and the one in which the handler's atomic action     *)
(* ends.                                                                    *)

B == before[1]

\* The pull point, the answers and the stream as they are given.
State(queue, waits, writer, answers, sent) ==
  /\ events = queue
  /\ is_client_waiting = waits
  /\ response_writer = writer
  /\ Reply = answers
  /\ stream = sent
SourcesOf(x) == logical = x.logical /\ changes = x.changes

\* Nothing is written to a Response that is held, except to those of held.
Unwritten(held) ==
  \A q \in Requests \ held : exchange[q] \in {"unsent", "open"} => written[q] = <<>>
Wrote(w, msgs) == Len(written[w]) = 1 /\ written[w][1].messages = msgs

\* Response_to_pullmessages on t, with a client that waits: w is to get msgs.  The
\* answers are `held' as long as w's Response is, and `released' after reset().
Answering(t, w, msgs, held, released) ==
  /\ handler # None
  /\ \/ /\ pc[t] \in {"waiting", "swap"}
        /\ State(msgs, TRUE, w, held, B.stream)
        /\ Unwritten({})
     \/ /\ pc[t] = "write"
        /\ copied[t] = msgs
        /\ State(<<>>, TRUE, w, held, B.stream)
        /\ Unwritten({})
     \/ /\ pc[t] = "reset"
        /\ State(<<>>, TRUE, w, held, B.stream \o msgs)
        /\ Unwritten({w})
        /\ Wrote(w, msgs)
     \/ /\ pc[t] = "clear"
        /\ State(<<>>, TRUE, None, released, B.stream \o msgs)
        /\ Unwritten({w})
        /\ Wrote(w, msgs)

\* PullMessages of `request'.
Held == [Service!Released(PullPoint) EXCEPT ![request] = Service!Open]
PullStarted ==
  /\ pc["H"] \in {"handler", "writer"}
  /\ pc["H"] = "writer" => handler = request
  /\ State(B.events, TRUE, B.response_writer, [B.reply EXCEPT ![request] = Service!Open], B.stream)
  /\ Unwritten({})
PullStored ==
  /\ pc["H"] = "empty" \/ (pc["H"] = "charge" /\ B.events = <<>>)
  /\ handler = request
  /\ State(B.events, TRUE, request, Held, B.stream)
  /\ Unwritten({})
PullAnswering ==
  /\ B.events # <<>>
  /\ Answering("H", request, B.events, Held, Held)
PullAnswered ==
  /\ pc["H"] = "charge"
  /\ B.events # <<>>
  /\ State(<<>>, FALSE, None, Held, B.stream \o B.events)
  /\ Unwritten({request})
  /\ Wrote(request, B.events)
Pulling ==
  /\ Idle("W")
  /\ connected
  /\ request # None
  /\ B.reply[request] = Service!Unsent
  /\ SourcesOf(B)
  /\ PullStarted \/ PullStored \/ PullAnswering \/ PullAnswered

\* SetSynchronizationPoint of `request': what is inserted and what is to be.
SyncRest(sources) == [i \in DOMAIN sources |-> SyncMessage(sources[i])]
Synchronizing ==
  /\ pc["H"] = "insert"
  /\ Idle("W")
  /\ connected
  /\ request # None
  /\ B.reply[request] = Service!Unsent
  /\ SourcesOf(B)
  /\ State(events, B.is_client_waiting, B.response_writer,
           [B.reply EXCEPT ![request] = Service!Open], B.stream)
  /\ events \o SyncRest(todo["H"]) = Service!SyncMessages
  /\ B.is_client_waiting => handler # None
  /\ Unwritten({})

\* The timeout's handler.
AnswersWith(msgs) == [B.reply EXCEPT ![B.response_writer] = Service!PullMessagesResponse(msgs)]
TimingOut ==
  /\ Idle("H")
  /\ job \in Service!Completion
  /\ job.kind = "timeout"
  /\ connected
  /\ SourcesOf(B)
  /\ \/ /\ B.is_client_waiting
        /\ Answering("W", B.response_writer, B.events, B.reply, AnswersWith(B.events))
     \/ /\ B.is_client_waiting
        /\ pc["W"] = "done"
        /\ State(<<>>, FALSE, None, AnswersWith(B.events), B.stream \o B.events)
        /\ Unwritten({})
     \/ /\ ~B.is_client_waiting
        /\ pc["W"] \in {"waiting", "done"}
        /\ State(B.events, FALSE, None, B.reply, B.stream)
        /\ Unwritten({})

\* An alarm's handler, the sources it has still to invert, and the messages it has
\* still to send.
Pending == IF pc["W"] = "push" THEN Tail(todo["W"]) ELSE todo["W"]
Inversion(g) ==
  /\ IsInjective(todo["W"])
  /\ Range(todo["W"]) \subseteq Service!Inverted(g)
  /\ \A s \in Sources :
       IF s \in Service!Inverted(g) \ Range(Pending)
       THEN logical[s] = ~B.logical[s] /\ changes[s] = B.changes[s] + 1
       ELSE logical[s] = B.logical[s] /\ changes[s] = B.changes[s]
BurstMessage(s) ==
  [op |-> "Changed", source |-> s, value |-> ~B.logical[s], stamp |-> B.changes[s] + 1]
BurstRest(sources) == [i \in DOMAIN sources |-> BurstMessage(sources[i])]
First(g) == Append(B.events, Head(Service!Burst(g)))

\* No pull point; nobody waits; the first message of the burst, which answers the
\* client that waits, and those after it.
AlarmUnheard ==
  /\ ~connected
  /\ pc["W"] \in {"signal", "push"}
  /\ State(B.events, FALSE, None, B.reply, B.stream)
  /\ Unwritten({})
AlarmQueued(g) ==
  /\ connected
  /\ ~B.is_client_waiting
  /\ pc["W"] \in {"signal", "push", "waiting"}
  /\ State(events, FALSE, None, B.reply, B.stream)
  /\ events \o BurstRest(todo["W"]) = B.events \o Service!Burst(g)
  /\ Unwritten({})
AlarmFirst(g) ==
  /\ B.is_client_waiting
  /\ pc["W"] \in {"signal", "push"}
  /\ handler # None
  /\ todo["W"] = Signals[g]
  /\ State(B.events, TRUE, B.response_writer, B.reply, B.stream)
  /\ Unwritten({})
AlarmAnswering(g) ==
  /\ B.is_client_waiting
  /\ Signals[g] # <<>>
  /\ todo["W"] = Tail(Signals[g])
  /\ Answering("W", B.response_writer, First(g), B.reply, AnswersWith(First(g)))
AlarmAnswered(g) ==
  /\ B.is_client_waiting
  /\ Signals[g] # <<>>
  /\ pc["W"] \in {"signal", "push", "waiting"}
  /\ State(events, FALSE, None, AnswersWith(First(g)), B.stream \o First(g))
  /\ events \o BurstRest(todo["W"]) = Tail(Service!Burst(g))
  /\ Unwritten({})
Alarming ==
  /\ Idle("H")
  /\ job \in Service!Completion
  /\ job.kind = "alarm"
  /\ Inversion(job.owner)
  /\ \/ AlarmUnheard
     \/ AlarmQueued(job.owner)
     \/ AlarmFirst(job.owner)
     \/ AlarmAnswering(job.owner)
     \/ AlarmAnswered(job.owner)

\* Of the state x in which no handler is under way: exactly the pull that waits is open.
Settled(x) ==
  /\ x.events \in Seq(Service!Message)
  /\ x.stream \in Seq(Service!Message)
  /\ x.is_client_waiting \in BOOLEAN
  /\ x.response_writer \in IF x.is_client_waiting THEN Requests ELSE {None}
  /\ x.is_client_waiting => connected
  /\ x.reply \in [Requests -> Service!Reply]
  /\ \A q \in Requests :
       x.reply[q] = Service!Open <=> x.is_client_waiting /\ q = x.response_writer
  /\ x.logical \in [Sources -> BOOLEAN]
  /\ x.changes \in [Sources -> Nat]

\* A timeout can only run out once there is a pull point.
TimeoutsOfPullPoint ==
  connected \/ (timeout_timer = None /\ \A i \in DOMAIN ready : ready[i].kind = "alarm")

Resting ==
  /\ \A t \in Threads : Idle(t)
  /\ Settled(Now)
  /\ is_client_waiting => handler # None
  /\ Unwritten({})
Handling ==
  /\ before = <<B>>
  /\ Settled(B)
  /\ Pulling \/ Synchronizing \/ TimingOut \/ Alarming

SerialInv ==
  /\ alive
  /\ Idle("H") => request = None
  /\ TimeoutsOfPullPoint
  /\ (before = <<>> /\ Resting) \/ Handling

-----------------------------------------------------------------------------
(* What the definitions say of single exchanges and of the state shown.    *)

LEMMA ReceivedValues ==
  /\ \A w : /\ Received("unsent", w) = Service!Unsent
            /\ Received("open", w) = Service!Open
            /\ Received("ok", w) = Service!Ok
  /\ Received("sent", <<>>) = Service!Dropped
  /\ \A w : Len(w) = 1 /\ w # <<>> =>
       Received("sent", w) = Service!PullMessagesResponse(w[1].messages)
  /\ \A x \in {"unsent", "open", "ok", "sent"} : \A w :
       /\ Received(x, w) = Service!Open <=> x = "open"
       /\ Received(x, w) = Service!Unsent <=> x = "unsent"
<1>1. ASSUME NEW w
      PROVE  /\ Received("unsent", w) = Service!Unsent
             /\ Received("open", w) = Service!Open
             /\ Received("ok", w) = Service!Ok
  BY DEF Received, Service!Unsent, Service!Open, Service!Ok, Service!Plain
<1>2. Received("sent", <<>>) = Service!Dropped
  BY DEF Received, Service!Dropped, Service!Plain
<1>3. ASSUME NEW w, Len(w) = 1, w # <<>>
      PROVE  Received("sent", w) = Service!PullMessagesResponse(w[1].messages)
  BY <1>3 DEF Received, Service!PullMessagesResponse
<1>4. ASSUME NEW w
      PROVE  Received("sent", w).status \in {"dropped", "messages", "fault"}
  BY DEF Received
<1>5. Service!Open.status = "open" /\ Service!Unsent.status = "unsent" /\ Service!Ok.status = "ok"
  BY DEF Service!Unsent, Service!Open, Service!Ok, Service!Plain
<1>6. ASSUME NEW x \in {"unsent", "open", "ok", "sent"}, NEW w
      PROVE  /\ Received(x, w) = Service!Open <=> x = "open"
             /\ Received(x, w) = Service!Unsent <=> x = "unsent"
  BY <1>1, <1>4, <1>5
<1> QED
  BY <1>1, <1>2, <1>3, <1>6

LEMMA ReplyOfExchange ==
  ASSUME IndType, NEW r \in Requests
  PROVE  /\ Reply[r] = Service!Open <=> exchange[r] = "open"
         /\ Reply[r] = Service!Unsent <=> exchange[r] = "unsent"
         /\ Reply[r] = Received(exchange[r], written[r])
<1>1. exchange[r] \in {"unsent", "open", "ok", "sent"}
  BY DEF IndType, TypeOK
<1> QED
  BY <1>1, ReceivedValues DEF Reply

LEMMA RepliesAreTyped ==
  /\ {Service!Unsent, Service!Open, Service!Ok, Service!Dropped} \subseteq Service!Reply
  /\ \A msgs \in Seq(Service!Message) : Service!PullMessagesResponse(msgs) \in Service!Reply
<1>1. <<>> \in Seq(Service!Message)
  OBVIOUS
<1> QED
  BY <1>1 DEF Service!Reply, Service!Statuses, Service!Plain, Service!Unsent, Service!Open,
              Service!Ok, Service!Dropped, Service!PullMessagesResponse

LEMMA ShownState ==
  /\ before = <<>> => Shown = Now
  /\ before = <<B>> => Shown = B /\ before # <<>>
  BY DEF Shown, B

\* What PullPointService says of the state shown does not change within a handler.
LEMMA SameBefore ==
  ASSUME before = <<B>>, before' = before
  PROVE  /\ B' = B
         /\ Shown' = Shown
         /\ Service!Released(PullPoint)' = Service!Released(PullPoint)
         /\ Service!SyncMessages' = Service!SyncMessages
         /\ \A g \in Generators : Service!Burst(g)' = Service!Burst(g)
<1>1. B' = B /\ Shown' = B /\ Shown = B
  BY ShownState DEF B, Shown
<1>2. Service!Released(PullPoint)' = Service!Released(PullPoint)
  BY <1>1 DEF Service!Released
<1>3. Service!SyncMessages' = Service!SyncMessages
  BY <1>1 DEF Service!SyncMessages
<1>4. ASSUME NEW g \in Generators PROVE Service!Burst(g)' = Service!Burst(g)
  BY <1>1 DEF Service!Burst
<1> QED
  BY <1>1, <1>2, <1>3, <1>4

LEMMA ReleasedOfBefore ==
  ASSUME before = <<B>>
  PROVE  Service!Released(PullPoint) =
           IF B.is_client_waiting THEN [B.reply EXCEPT ![B.response_writer] = Service!Dropped]
                                  ELSE B.reply
  BY ShownState DEF Service!Released, Of

\* A step inside a handler is no step of PullPointService.
LEMMA InsideHandler ==
  ASSUME before = <<B>>, before' = before, Idle("W")' = Idle("W"),
         UNCHANGED <<connected, timeout_timer, alarm_timer, ready, job, base, alive>>
  PROVE  UNCHANGED Service!vars
  BY SameBefore DEF Service!vars, Service!pullVars, Service!alarmVars

-----------------------------------------------------------------------------
(* Which handler a thread is in.                                           *)

LEMMA RestsWhenIdle ==
  ASSUME SerialInv, \A t \in Threads : Idle(t)
  PROVE  before = <<>> /\ Resting
<1>1. pc["H"] = "idle" /\ pc["W"] = "idle"
  BY DEF Idle, Threads
<1>2. ~Pulling /\ ~Synchronizing /\ ~TimingOut /\ ~Alarming
  BY <1>1 DEF Pulling, PullStarted, PullStored, PullAnswering, PullAnswered, Synchronizing, TimingOut,
              Alarming, AlarmUnheard, AlarmQueued, AlarmFirst, AlarmAnswering, AlarmAnswered, Answering
<1> QED
  BY <1>2 DEF SerialInv, Handling

RespondLabels == {"waiting", "swap", "write", "reset", "clear"}

LEMMA BusyThread ==
  ASSUME SerialInv
  PROVE  /\ pc["H"] # "idle" => Handling /\ pc["W"] = "idle" /\ (Pulling \/ Synchronizing)
         /\ pc["W"] # "idle" => Handling /\ pc["H"] = "idle" /\ (TimingOut \/ Alarming)
<1>1. Resting => pc["H"] = "idle" /\ pc["W"] = "idle"
  BY DEF Resting, Idle, Threads
<1>2. Pulling \/ Synchronizing => pc["W"] = "idle"
  BY DEF Pulling, Synchronizing, Idle
<1>3. TimingOut \/ Alarming => pc["H"] = "idle"
  BY DEF TimingOut, Alarming, Idle
<1> QED
  BY <1>1, <1>2, <1>3 DEF SerialInv, Handling

LEMMA BusyWith ==
  ASSUME SerialInv
  PROVE  /\ pc["H"] \in {"handler", "writer"} => Handling /\ Pulling /\ PullStarted
         /\ pc["H"] = "empty" => Handling /\ Pulling /\ PullStored
         /\ pc["H"] = "charge" => Handling /\ Pulling /\ (PullStored \/ PullAnswered)
         /\ pc["H"] \in RespondLabels => Handling /\ Pulling /\ PullAnswering
         /\ pc["H"] = "insert" => Handling /\ Synchronizing
         /\ pc["W"] \in {"signal", "push"} =>
              Handling /\ Alarming /\ ~AlarmAnswering(job.owner)
         /\ pc["W"] = "done" => Handling /\ TimingOut
         /\ pc["W"] \in RespondLabels => Handling /\ (TimingOut \/ Alarming)
<1>1. CASE pc["H"] # "idle"
  <2>1. Handling /\ pc["W"] = "idle" /\ (Pulling \/ Synchronizing)
    BY <1>1, BusyThread
  <2>2. CASE Pulling
    BY <2>1, <2>2 DEF Pulling, PullStarted, PullStored, PullAnswering, PullAnswered, Answering, RespondLabels
  <2>3. CASE Synchronizing
    BY <2>1, <2>3 DEF Synchronizing, RespondLabels
  <2> QED
    BY <2>1, <2>2, <2>3
<1>2. CASE pc["W"] # "idle"
  <2>1. Handling /\ pc["H"] = "idle" /\ (TimingOut \/ Alarming)
    BY <1>2, BusyThread
  <2>2. CASE TimingOut
    BY <2>1, <2>2 DEF TimingOut, Answering, RespondLabels
  <2>3. CASE Alarming
    BY <2>1, <2>3 DEF Alarming, AlarmUnheard, AlarmQueued, AlarmFirst, AlarmAnswering, AlarmAnswered,
                      Answering, RespondLabels
  <2> QED
    BY <2>1, <2>2, <2>3
<1>3. CASE pc["H"] = "idle" /\ pc["W"] = "idle"
  BY <1>3 DEF RespondLabels
<1> QED
  BY <1>1, <1>2, <1>3

-----------------------------------------------------------------------------
(* The messages a loop has still to send.                                  *)

LEMMA SyncRestFacts ==
  ASSUME IndType, NEW q \in Seq(Sources)
  PROVE  /\ SyncRest(q) \in Seq(Service!Message)
         /\ SyncRest(q) = <<>> <=> q = <<>>
         /\ q # <<>> => /\ Head(SyncRest(q)) = SyncMessage(Head(q))
                        /\ Tail(SyncRest(q)) = SyncRest(Tail(q))
<1> DEFINE f == [s \in Sources |-> SyncMessage(s)]
<1>1. f \in [Sources -> Service!Message]
  BY MessageTypes
<1>2. ASSUME NEW u \in Seq(Sources) PROVE SyncRest(u) = [i \in DOMAIN u |-> f[u[i]]]
  <2>1. \A i \in DOMAIN u : u[i] \in Sources
    BY LenProperties
  <2> QED
    BY <2>1 DEF SyncRest
<1>3. q # <<>> => Head(q) \in Sources /\ Tail(q) \in Seq(Sources)
  BY HeadTailProperties
<1>4. q # <<>> => f[Head(q)] = SyncMessage(Head(q))
  BY <1>3
<1> HIDE DEF f
<1>5. SyncRest(q) = [i \in DOMAIN q |-> f[q[i]]]
  BY <1>2
<1>6. SyncRest(q) \in Seq(Service!Message) /\ (SyncRest(q) = <<>> <=> q = <<>>)
  BY <1>1, <1>5, MappedSeq
<1>7. ASSUME q # <<>>
      PROVE  Head(SyncRest(q)) = SyncMessage(Head(q)) /\ Tail(SyncRest(q)) = SyncRest(Tail(q))
  <2>1. SyncRest(Tail(q)) = [i \in DOMAIN Tail(q) |-> f[Tail(q)[i]]]
    BY <1>2, <1>3, <1>7
  <2>2. Head(SyncRest(q)) = f[Head(q)] /\ Tail(SyncRest(q)) = SyncRest(Tail(q))
    BY <1>1, <1>5, <1>7, <2>1, MappedTail
  <2> QED
    BY <1>4, <1>7, <2>2
<1> QED
  BY <1>6, <1>7

LEMMA BurstRestFacts ==
  ASSUME Settled(B), NEW q \in Seq(Sources)
  PROVE  /\ BurstRest(q) \in Seq(Service!Message)
         /\ BurstRest(q) = <<>> <=> q = <<>>
         /\ q # <<>> => /\ Head(BurstRest(q)) = BurstMessage(Head(q))
                        /\ Tail(BurstRest(q)) = BurstRest(Tail(q))
<1> DEFINE f == [s \in Sources |-> BurstMessage(s)]
<1>1. f \in [Sources -> Service!Message]
  <2>1. ASSUME NEW s \in Sources PROVE BurstMessage(s) \in Service!Message
    <3>1. B.changes[s] + 1 \in Nat /\ (~B.logical[s]) \in BOOLEAN
      BY DEF Settled
    <3> QED
      BY <3>1 DEF BurstMessage, Service!Message
  <2> QED
    BY <2>1
<1>2. ASSUME NEW u \in Seq(Sources) PROVE BurstRest(u) = [i \in DOMAIN u |-> f[u[i]]]
  <2>1. \A i \in DOMAIN u : u[i] \in Sources
    BY LenProperties
  <2> QED
    BY <2>1 DEF BurstRest
<1>3. q # <<>> => Head(q) \in Sources /\ Tail(q) \in Seq(Sources)
  BY HeadTailProperties
<1>4. q # <<>> => f[Head(q)] = BurstMessage(Head(q))
  BY <1>3
<1> HIDE DEF f
<1>5. BurstRest(q) = [i \in DOMAIN q |-> f[q[i]]]
  BY <1>2
<1>6. BurstRest(q) \in Seq(Service!Message) /\ (BurstRest(q) = <<>> <=> q = <<>>)
  BY <1>1, <1>5, MappedSeq
<1>7. ASSUME q # <<>>
      PROVE  Head(BurstRest(q)) = BurstMessage(Head(q)) /\ Tail(BurstRest(q)) = BurstRest(Tail(q))
  <2>1. BurstRest(Tail(q)) = [i \in DOMAIN Tail(q) |-> f[Tail(q)[i]]]
    BY <1>2, <1>3, <1>7
  <2>2. Head(BurstRest(q)) = f[Head(q)] /\ Tail(BurstRest(q)) = BurstRest(Tail(q))
    BY <1>1, <1>5, <1>7, <2>1, MappedTail
  <2> QED
    BY <1>4, <1>7, <2>2
<1> QED
  BY <1>6, <1>7

LEMMA BurstOfBefore ==
  ASSUME before = <<B>>, NEW g \in Generators
  PROVE  Service!Burst(g) = BurstRest(Signals[g])
  BY ShownState DEF Service!Burst, BurstRest, BurstMessage

-----------------------------------------------------------------------------
(* A request or a completion that is begun.                                *)

LEMMA ReplyChanges ==
  ASSUME IndType, NEW r \in Requests, NEW x,
         exchange' = [exchange EXCEPT ![r] = x], written' = written
  PROVE  Reply' = [Reply EXCEPT ![r] = Received(x, written[r])]
<1>1. DOMAIN exchange = Requests
  BY DEF IndType, TypeOK
<1>2. ASSUME NEW q \in Requests
      PROVE  Reply'[q] = [Reply EXCEPT ![r] = Received(x, written[r])][q]
  BY <1>1 DEF Reply
<1>3. Reply' = [q \in Requests |-> Reply'[q]]
  BY DEF Reply
<1>4. [Reply EXCEPT ![r] = Received(x, written[r])]
        = [q \in Requests |-> [Reply EXCEPT ![r] = Received(x, written[r])][q]]
  BY DEF Reply
<1> QED
  BY <1>2, <1>3, <1>4

LEMMA FieldsOfNow ==
  /\ Now.events = events /\ Now.is_client_waiting = is_client_waiting
  /\ Now.response_writer = response_writer /\ Now.reply = Reply /\ Now.stream = stream
  /\ Now.logical = logical /\ Now.changes = changes
  BY DEF Now

LEMMA HandlerStarts ==
  ASSUME Overlap = FALSE, before = <<>>, Resting, Starts, connected' = connected
  PROVE  /\ before' = <<B>>' /\ before' # <<>>
         /\ B' = Now
         /\ Settled(B)'
         /\ Shown' = Shown
<1>1. before' = <<Now>>
  BY DEF Starts
<1>2. B' = Now /\ before' = <<B>>' /\ before' # <<>>
  BY <1>1 DEF B
<1>3. Settled(B)'
  BY <1>2 DEF Resting, Settled
<1>4. Shown' = Shown
  BY <1>1 DEF Shown
<1> QED
  BY <1>2, <1>3, <1>4

LEMMA PullBegins ==
  ASSUME Overlap = FALSE, IndType, SerialInv, NEW r \in Requests, PullMessages(r)
  PROVE  SerialInv' /\ UNCHANGED Service!vars
<1>1. before = <<>> /\ Resting
  BY RestsWhenIdle DEF PullMessages, MayStart
<1>2. Starts /\ UNCHANGED <<connected, events, handler, response_writer, ioVars, sourceVars, written,
                            alive, job, todo, copied, stream, base>>
  BY DEF PullMessages
<1>3. before' = <<B>>' /\ before' # <<>> /\ B' = Now /\ Settled(B)' /\ Shown' = Shown
  BY <1>1, <1>2, HandlerStarts
<1>4. /\ is_client_waiting' = TRUE
      /\ exchange' = [exchange EXCEPT ![r] = "open"]
      /\ exchange[r] = "unsent"
      /\ request' = r
      /\ connected
  BY DEF PullMessages, Sends
<1>5. "H" \in Threads /\ "W" \in Threads /\ "handler" \in Labels
  BY DEF Threads, Labels
<1>6. pc'["H"] = "handler" /\ pc'["W"] = pc["W"] /\ pc["W"] = "idle"
  BY <1>1, <1>5, GoesOn DEF PullMessages, Resting, Idle
<1>7. Reply' = [Reply EXCEPT ![r] = Service!Open]
  <2>1. Reply' = [Reply EXCEPT ![r] = Received("open", written[r])]
    BY <1>2, <1>4, ReplyChanges
  <2>2. Received("open", written[r]) = Service!Open
    BY ReceivedValues
  <2> QED
    BY <2>1, <2>2
<1>8. Unwritten({})'
  BY <1>1, <1>2, <1>4 DEF Resting, Unwritten, IndType, TypeOK
<1>9. PullStarted'
  BY <1>2, <1>3, <1>4, <1>6, <1>7, <1>8, FieldsOfNow DEF PullStarted, State
<1>10. B'.reply[request'] = Service!Unsent
  BY <1>3, <1>4, FieldsOfNow, ReplyOfExchange
<1>11. Pulling'
  BY <1>2, <1>3, <1>4, <1>6, <1>9, <1>10, FieldsOfNow, ThreadsAssumption
  DEF Pulling, Idle, SourcesOf, sourceVars, Service!Unsent, Service!Plain
<1>12. TimeoutsOfPullPoint'
  BY <1>2 DEF SerialInv, TimeoutsOfPullPoint, ioVars
<1>13. SerialInv'
  BY <1>2, <1>3, <1>6, <1>11, <1>12 DEF SerialInv, Handling, Idle
<1>14. UNCHANGED Service!vars
  BY <1>2, <1>3, <1>6 DEF Service!vars, Service!pullVars, Service!alarmVars, ioVars, Idle
<1> QED
  BY <1>13, <1>14

LEMMA SyncBegins ==
  ASSUME Overlap = FALSE, IndType, SerialInv, NEW r \in Requests, SetSynchronizationPoint(r)
  PROVE  SerialInv' /\ UNCHANGED Service!vars
<1>1. before = <<>> /\ Resting
  BY RestsWhenIdle DEF SetSynchronizationPoint, MayStart
<1>2. Starts /\ UNCHANGED <<connected, is_client_waiting, handler, response_writer, ioVars, sourceVars,
                            written, alive, job, copied, stream, base>>
  BY DEF SetSynchronizationPoint
<1>3. before' = <<B>>' /\ before' # <<>> /\ B' = Now /\ Settled(B)' /\ Shown' = Shown
  BY <1>1, <1>2, HandlerStarts
<1>4. /\ events' = <<>>
      /\ exchange' = [exchange EXCEPT ![r] = "open"]
      /\ exchange[r] = "unsent"
      /\ request' = r
      /\ todo' = [todo EXCEPT !["H"] = SyncSources]
      /\ connected
  BY DEF SetSynchronizationPoint, Sends
<1>5. "H" \in Threads /\ "W" \in Threads /\ "insert" \in Labels
  BY DEF Threads, Labels
<1>6. pc'["H"] = "insert" /\ pc'["W"] = pc["W"] /\ pc["W"] = "idle"
  BY <1>1, <1>5, GoesOn DEF SetSynchronizationPoint, Resting, Idle
<1>7. Reply' = [Reply EXCEPT ![r] = Service!Open]
  <2>1. Reply' = [Reply EXCEPT ![r] = Received("open", written[r])]
    BY <1>2, <1>4, ReplyChanges
  <2>2. Received("open", written[r]) = Service!Open
    BY ReceivedValues
  <2> QED
    BY <2>1, <2>2
<1>8. Unwritten({})'
  BY <1>1, <1>2, <1>4 DEF Resting, Unwritten, IndType, TypeOK
<1>9. /\ State(events, B.is_client_waiting, B.response_writer,
               [B.reply EXCEPT ![request] = Service!Open], B.stream)'
      /\ (B.is_client_waiting => handler # None)'
  BY <1>1, <1>2, <1>3, <1>4, <1>7, FieldsOfNow DEF State, Resting
<1>10. B'.reply[request'] = Service!Unsent
  BY <1>3, <1>4, FieldsOfNow, ReplyOfExchange
<1>11. (events \o SyncRest(todo["H"]) = Service!SyncMessages)'
  <2>1. todo'["H"] = SyncSources
    BY <1>4, <1>5 DEF IndType, TypeOK
  <2>2. Shown'.logical = logical' /\ Shown'.changes = changes'
    BY <1>1, <1>2, <1>3, ShownState, FieldsOfNow DEF sourceVars
  <2>3. SyncRest(todo["H"])' = Service!SyncMessages'
    BY <2>1, <2>2 DEF SyncRest, SyncMessage, Service!SyncMessages
  <2>4. SyncRest(SyncSources) \in Seq(Service!Message)
    BY SyncRestFacts, ThreadsAssumption
  <2>5. SyncRest(todo["H"])' = SyncRest(SyncSources)
    BY <1>2, <2>1 DEF SyncRest, SyncMessage, sourceVars
  <2> QED
    BY <1>4, <2>3, <2>4, <2>5, ConcatEmptySeq
<1>12. Synchronizing'
  BY <1>2, <1>3, <1>4, <1>6, <1>8, <1>9, <1>10, <1>11, FieldsOfNow, ThreadsAssumption
  DEF Synchronizing, Idle, SourcesOf, sourceVars, Service!Unsent, Service!Plain
<1>13. TimeoutsOfPullPoint'
  BY <1>2 DEF SerialInv, TimeoutsOfPullPoint, ioVars
<1>14. SerialInv'
  BY <1>2, <1>3, <1>6, <1>12, <1>13 DEF SerialInv, Handling, Idle
<1>15. UNCHANGED Service!vars
  BY <1>2, <1>3, <1>6 DEF Service!vars, Service!pullVars, Service!alarmVars, ioVars, Idle
<1> QED
  BY <1>14, <1>15

LEMMA CompletionBegins ==
  ASSUME Overlap = FALSE, IndType, SerialInv, TakeReady
  PROVE  SerialInv' /\ UNCHANGED Service!vars
<1>1. before = <<>> /\ Resting
  BY RestsWhenIdle DEF TakeReady, MayStart
<1>2. Starts /\ UNCHANGED <<connected, ppVars, timeout_timer, alarm_timer, sourceVars, httpVars, alive,
                            request, copied, stream, base>>
  BY DEF TakeReady
<1>3. before' = <<B>>' /\ before' # <<>> /\ B' = Now /\ Settled(B)' /\ Shown' = Shown
  BY <1>1, <1>2, HandlerStarts
<1>4. /\ ready # <<>> /\ ready \in Seq(Service!Completion)
      /\ job' = Head(ready) /\ ready' = Tail(ready)
  BY DEF TakeReady, IndType, TypeOK
<1>5. job' \in Service!Completion /\ ready' \in Seq(Service!Completion)
  BY <1>4, HeadTailProperties
<1>6. "H" \in Threads /\ "W" \in Threads /\ {"signal", "waiting"} \subseteq Labels
  BY DEF Threads, Labels
<1>7. pc["W"] = "idle" /\ pc["H"] = "idle" /\ request = None
  BY <1>1, <1>6 DEF Resting, Idle, SerialInv
<1>8. pc'["H"] = "idle" /\ pc'["W"] = IF job'.kind = "alarm" THEN "signal" ELSE "waiting"
  BY <1>4, <1>6, <1>7, GoesOn DEF TakeReady
<1>9. /\ State(B.events, B.is_client_waiting, B.response_writer, B.reply, B.stream)'
      /\ (B.is_client_waiting => handler # None)'
      /\ Unwritten({})'
      /\ SourcesOf(B)'
      /\ B'.is_client_waiting = is_client_waiting /\ B'.response_writer = response_writer
      /\ is_client_waiting \in BOOLEAN
      /\ ~is_client_waiting => response_writer = None
      /\ is_client_waiting => connected
  BY <1>1, <1>2, <1>3, FieldsOfNow
  DEF State, Resting, Unwritten, SourcesOf, ppVars, sourceVars, httpVars, Reply, Settled
<1>10. TimeoutsOfPullPoint' /\ (job'.kind = "timeout" => connected)
  <2>1. CASE connected
    BY <1>2, <2>1 DEF TimeoutsOfPullPoint
  <2>2. CASE ~connected
    <3>1. timeout_timer = None /\ \A i \in DOMAIN ready : ready[i].kind = "alarm"
      BY <2>2 DEF SerialInv, TimeoutsOfPullPoint
    <3>2. /\ Head(ready) = ready[1] /\ 1 \in DOMAIN ready
          /\ \A i \in DOMAIN ready' : i + 1 \in DOMAIN ready /\ ready'[i] = ready[i + 1]
      <4>1. DOMAIN ready = 1..Len(ready) /\ Len(ready) \in Nat /\ Len(ready) # 0
        BY <1>4, LenProperties, EmptySeq
      <4>2. /\ DOMAIN ready' = 1..Len(ready') /\ Len(ready') = Len(ready) - 1
            /\ \A i \in 1..Len(ready') : ready'[i] = ready[i + 1]
        BY <1>4, <1>5, LenProperties, HeadTailProperties
      <4> QED
        BY <4>1, <4>2
    <3>3. \A i \in DOMAIN ready' : ready'[i].kind = "alarm"
      BY <3>1, <3>2
    <3> QED
      BY <1>2, <1>4, <3>1, <3>2, <3>3 DEF TimeoutsOfPullPoint
  <2> QED
    BY <2>1, <2>2
<1>11. ASSUME job'.kind = "alarm" PROVE Handling'
  <2>1. job'.owner \in Generators
    BY <1>5, <1>11 DEF Service!Completion
  <2>2. PICK g \in Generators : g = job'.owner
    BY <2>1
  <2>3. pc'["W"] = "signal" /\ todo'["W"] = Signals[g]
    BY <1>4, <1>6, <1>8, <1>11, <2>2 DEF TakeReady, IndType, TypeOK
  <2>4. Signals[g] \in Seq(Sources) /\ IsInjective(Signals[g])
    BY ThreadsAssumption, SignalledOnceAssumption DEF IsInjective
  <2>5. Service!Inverted(g) = Range(Signals[g])
    BY DEF Service!Inverted, Range
  <2>6. Inversion(g)'
    BY <1>9, <2>3, <2>4, <2>5 DEF Inversion, Pending, SourcesOf, Service!Inverted
  <2>7. AlarmUnheard' \/ AlarmQueued(g)' \/ AlarmFirst(g)'
    <3>1. CASE ~connected
      <4>1. is_client_waiting = FALSE
        BY <1>9, <3>1
      <4> QED
        BY <1>2, <1>9, <2>3, <3>1, <4>1 DEF AlarmUnheard, State
    <3>2. CASE connected /\ is_client_waiting = FALSE
      <4>1. Service!Burst(g)' = BurstRest(Signals[g])'
        BY <1>3, ShownState DEF Service!Burst, BurstRest, BurstMessage, Shown
      <4>2. BurstRest(todo["W"])' = BurstRest(Signals[g])'
        BY <2>3 DEF BurstRest, BurstMessage
      <4>3. (events \o BurstRest(todo["W"]) = B.events \o Service!Burst(g))'
        BY <1>9, <4>1, <4>2 DEF State
      <4> QED
        BY <1>2, <1>9, <2>3, <3>2, <4>3 DEF AlarmQueued, State
    <3>3. CASE is_client_waiting = TRUE
      BY <1>9, <2>3, <3>3 DEF AlarmFirst, State
    <3> QED
      BY <1>9, <3>1, <3>2, <3>3
  <2>8. Alarming'
    BY <1>5, <1>8, <1>11, <2>2, <2>6, <2>7 DEF Alarming, Idle
  <2> QED
    BY <1>3, <2>8 DEF Handling
<1>12. ASSUME job'.kind # "alarm" PROVE Handling'
  <2>1. job'.kind = "timeout" /\ pc'["W"] = "waiting"
    BY <1>5, <1>8, <1>12 DEF Service!Completion
  <2>2. \/ (B.is_client_waiting
              /\ Answering("W", B.response_writer, B.events, B.reply, AnswersWith(B.events)))'
        \/ (~B.is_client_waiting /\ State(B.events, FALSE, None, B.reply, B.stream))'
    <3>1. CASE is_client_waiting = TRUE
      BY <1>9, <2>1, <3>1 DEF Answering, State
    <3>2. CASE is_client_waiting = FALSE
      BY <1>9, <3>2 DEF State
    <3> QED
      BY <1>9, <3>1, <3>2
  <2>3. TimingOut'
    BY <1>2, <1>5, <1>8, <1>9, <1>10, <2>1, <2>2 DEF TimingOut, Idle
  <2> QED
    BY <1>3, <2>3 DEF Handling
<1>13. SerialInv'
  BY <1>2, <1>3, <1>7, <1>10, <1>11, <1>12 DEF SerialInv
<1>14. <<job'>> \o ready' = ready
  BY <1>4, HeadThenTail
<1>15. pc'["W"] # "idle"
  BY <1>8
<1>16. UNCHANGED Service!vars
  BY <1>2, <1>3, <1>7, <1>14, <1>15 DEF Service!vars, Service!pullVars, Service!alarmVars, Idle
<1> QED
  BY <1>13, <1>16

-----------------------------------------------------------------------------
(* Steps outside the handlers.                                             *)

LEMMA SubscriptionIsCreated ==
  ASSUME Overlap = FALSE, IndType, SerialInv, NEW r \in Requests, CreatePullPoint(r)
  PROVE  SerialInv' /\ Service!Next
<1>1. before = <<>> /\ Resting
  BY RestsWhenIdle DEF CreatePullPoint, MayStart
<1>2. /\ ~connected /\ connected' = TRUE /\ alive
      /\ alarm_timer' = [g \in Generators |-> TRUE]
      /\ base' = changes
      /\ exchange[r] = "unsent" /\ exchange' = [exchange EXCEPT ![r] = "ok"]
      /\ UNCHANGED <<ppVars, timeout_timer, ready, sourceVars, written, alive, pc, localVars,
                     stream, before>>
  BY DEF CreatePullPoint, Sends, MayStart
<1>3. Reply' = [Reply EXCEPT ![r] = Service!Ok]
  <2>1. Reply' = [Reply EXCEPT ![r] = Received("ok", written[r])]
    BY <1>2, ReplyChanges
  <2>2. Received("ok", written[r]) = Service!Ok
    BY ReceivedValues
  <2> QED
    BY <2>1, <2>2
<1>4. Reply[r] = Service!Unsent
  BY <1>2, ReplyOfExchange
<1>5. Service!Ok # Service!Open /\ Service!Unsent # Service!Open
  BY DEF Service!Ok, Service!Open, Service!Unsent, Service!Plain
<1>6. Settled(Now)'
  <2>1. Settled(Now)
    BY <1>1 DEF Resting
  <2>2. Reply \in [Requests -> Service!Reply]
    BY <2>1, FieldsOfNow DEF Settled
  <2>3. Reply' \in [Requests -> Service!Reply]
    BY <1>3, <2>2, RepliesAreTyped
  <2>4. \A q \in Requests : Reply'[q] = Service!Open <=> Reply[q] = Service!Open
    BY <1>3, <1>4, <1>5, <2>2
  <2>5. /\ events' = events /\ stream' = stream /\ is_client_waiting' = is_client_waiting
        /\ response_writer' = response_writer /\ logical' = logical /\ changes' = changes
    BY <1>2 DEF ppVars, sourceVars
  <2>6. /\ Now'.events = events /\ Now'.stream = stream /\ Now'.is_client_waiting = is_client_waiting
        /\ Now'.response_writer = response_writer /\ Now'.logical = logical /\ Now'.changes = changes
        /\ Now'.reply = Reply'
    BY <2>5 DEF Now
  <2> QED
    BY <1>2, <2>1, <2>3, <2>4, <2>6, FieldsOfNow DEF Settled
<1>7. Resting'
  BY <1>1, <1>2, <1>6 DEF Resting, Idle, Unwritten, ppVars, IndType, TypeOK
<1>8. SerialInv'
  BY <1>1, <1>2, <1>7 DEF SerialInv, TimeoutsOfPullPoint, localVars, Idle
<1>9. Service!CreatePullPoint(r, PullPoint)
  <2>1. Shown = Now /\ Shown' = Now'
    BY <1>1, <1>2 DEF Shown
  <2>2. /\ Shown'.events = Shown.events /\ Shown'.is_client_waiting = Shown.is_client_waiting
        /\ Shown'.response_writer = Shown.response_writer /\ Shown'.stream = Shown.stream
        /\ Shown'.logical = Shown.logical /\ Shown'.changes = Shown.changes
        /\ Shown.reply = Reply /\ Shown'.reply = Reply' /\ Shown.changes = changes
    BY <1>2, <2>1 DEF Now, ppVars, sourceVars
  <2>3. Append(<<>>, PullPoint) = <<PullPoint>>
    OBVIOUS
  <2>4. Of(base)' = [Of(base) EXCEPT ![PullPoint] = changes]
    BY <1>2 DEF Of
  <2>5. (IF Idle("W") THEN ready ELSE <<job>> \o ready)' = IF Idle("W") THEN ready ELSE <<job>> \o ready
    BY <1>2 DEF Idle, localVars
  <2>6. UNCHANGED timeout_timer /\ UNCHANGED alive
    BY <1>2
  <2> QED
    BY <1>2, <1>3, <1>4, <2>2, <2>3, <2>4, <2>5, <2>6
    DEF Service!CreatePullPoint, Service!StoppedAndRun, Service!pullVars
<1> QED
  BY <1>8, <1>9 DEF Service!Next, Service!Request

\* Waits that run out disturb no handler.
LEMMA ExpiryKeepsHandlers ==
  ASSUME SerialInv,
         UNCHANGED <<connected, ppVars, sourceVars, httpVars, alive, pc, localVars, stream, base, before>>
  PROVE  ((before = <<>> /\ Resting) \/ Handling)'
<1>1. UNCHANGED <<events, is_client_waiting, handler, response_writer, logical, changes,
                  exchange, written, request, job, todo, copied>>
  BY DEF ppVars, sourceVars, httpVars, localVars
<1>2. Reply' = Reply
  BY <1>1 DEF Reply
<1>3. Now' = Now
  BY <1>1, <1>2 DEF Now
<1>4. CASE before = <<>> /\ Resting
  BY <1>1, <1>3, <1>4 DEF Resting, Settled, Unwritten, Idle
<1>5. CASE Handling
  <2>1. B' = B /\ before = <<B>> /\ before' = before
    BY <1>5 DEF Handling, B
  <2>2. Settled(B)' /\ (before = <<B>>)'
    BY <1>5, <2>1 DEF Handling, Settled
  <2>3. /\ Service!Released(PullPoint)' = Service!Released(PullPoint)
        /\ Service!SyncMessages' = Service!SyncMessages
        /\ \A g \in Generators : Service!Burst(g)' = Service!Burst(g)
    BY <2>1, SameBefore
  <2>4. Pulling => Pulling'
    BY <1>1, <1>2, <2>1, <2>3
    DEF Pulling, PullStarted, PullStored, PullAnswering, PullAnswered, Answering, Held, State,
        SourcesOf, Unwritten, Wrote, Idle
  <2>5. Synchronizing => Synchronizing'
    BY <1>1, <1>2, <2>1, <2>3 DEF Synchronizing, State, SourcesOf, Unwritten, Idle, SyncRest, SyncMessage
  <2>6. TimingOut => TimingOut'
    BY <1>1, <1>2, <2>1 DEF TimingOut, Answering, State, SourcesOf, Unwritten, Wrote, Idle, AnswersWith
  <2>7. Alarming => Alarming'
    <3>1. SUFFICES ASSUME Alarming PROVE Alarming'
      OBVIOUS
    <3>2. job.owner \in Generators /\ job' = job
      BY <1>1, <3>1 DEF Alarming, Service!Completion
    <3>3. PICK g \in Generators : g = job.owner
      BY <3>2
    <3>4. Service!Burst(g)' = Service!Burst(g) /\ First(g)' = First(g) /\ Service!Inverted(g)' = Service!Inverted(g)
      BY <2>1, <2>3 DEF First, Service!Inverted
    <3>5. Inversion(g)'
      BY <1>1, <2>1, <3>1, <3>3 DEF Alarming, Inversion, Pending, Service!Inverted
    <3>6. AnswersWith(First(g))' = AnswersWith(First(g))
      BY <2>1, <3>4 DEF AnswersWith
    <3>7. AlarmUnheard => AlarmUnheard'
      BY <1>1, <1>2, <2>1 DEF AlarmUnheard, State, Unwritten
    <3>8. AlarmQueued(g) => AlarmQueued(g)'
      BY <1>1, <1>2, <2>1, <3>4 DEF AlarmQueued, State, Unwritten, BurstRest, BurstMessage
    <3>9. AlarmFirst(g) => AlarmFirst(g)'
      BY <1>1, <1>2, <2>1 DEF AlarmFirst, State, Unwritten
    <3>10. AlarmAnswering(g) => AlarmAnswering(g)'
      BY <1>1, <1>2, <2>1, <3>4, <3>6 DEF AlarmAnswering, Answering, State, Unwritten, Wrote
    <3>11. AlarmAnswered(g) => AlarmAnswered(g)'
      BY <1>1, <1>2, <2>1, <3>4, <3>6 DEF AlarmAnswered, State, Unwritten, BurstRest, BurstMessage
    <3> QED
      BY <1>1, <3>1, <3>2, <3>3, <3>5, <3>7, <3>8, <3>9, <3>10, <3>11 DEF Alarming, Idle
  <2> QED
    BY <1>5, <2>2, <2>4, <2>5, <2>6, <2>7 DEF Handling
<1> QED
  BY <1>4, <1>5 DEF SerialInv

ReadyShown == IF Idle("W") THEN ready ELSE <<job>> \o ready

LEMMA ExpiryIsQueued ==
  ASSUME IndType, SerialInv, NEW c \in Service!Completion,
         ready' = Append(ready, c), pc' = pc, job' = job
  PROVE  ReadyShown' = Append(ReadyShown, c)
<1>1. ready \in Seq(Service!Completion)
  BY DEF IndType, TypeOK
<1>2. CASE Idle("W")
  BY <1>2 DEF ReadyShown, Idle
<1>3. CASE ~Idle("W")
  <2>1. job \in Service!Completion
    BY <1>3, BusyThread DEF Idle, TimingOut, Alarming
  <2>2. <<job>> \in Seq(Service!Completion) /\ <<job>> \o ready \in Seq(Service!Completion)
    BY <1>1, <2>1, ConcatProperties
  <2>3. Append(ready, c) = ready \o <<c>> /\ <<c>> \in Seq(Service!Completion)
    BY <1>1, AppendIsConcat
  <2>4. Append(<<job>> \o ready, c) = (<<job>> \o ready) \o <<c>>
    BY <2>2, AppendIsConcat
  <2>5. (<<job>> \o ready) \o <<c>> = <<job>> \o (ready \o <<c>>)
    BY <1>1, <2>2, <2>3, ConcatAssociative
  <2> QED
    BY <1>3, <2>3, <2>4, <2>5 DEF ReadyShown, Idle
<1> QED
  BY <1>2, <1>3

\* A source has not changed more often in the state shown than in the present one.
LEMMA ShownChanges ==
  ASSUME IndType, SerialInv, NEW s \in Sources
  PROVE  Shown.changes[s] \in Nat /\ changes[s] \in Nat /\ Shown.changes[s] <= changes[s]
<1>1. changes[s] \in Nat
  BY DEF IndType, TypeOK
<1>2. CASE before = <<>>
  BY <1>1, <1>2, ShownState, FieldsOfNow
<1>3. CASE Handling
  <2>1. Shown = B /\ B.changes[s] \in Nat
    BY <1>3, ShownState DEF Handling, Settled
  <2>2. changes[s] = B.changes[s] \/ changes[s] = B.changes[s] + 1
    BY <1>3 DEF Handling, Pulling, Synchronizing, TimingOut, Alarming, SourcesOf, Inversion
  <2> QED
    BY <1>1, <2>1, <2>2
<1> QED
  BY <1>2, <1>3 DEF SerialInv

LEMMA ExpiryKeepsShown ==
  ASSUME SerialInv,
         UNCHANGED <<connected, ppVars, sourceVars, httpVars, alive, pc, localVars, stream, base, before>>
  PROVE  Shown' = Shown /\ (connected /\ Idle("W"))' = (connected /\ Idle("W"))
<1>1. UNCHANGED <<events, is_client_waiting, response_writer, logical, changes, exchange, written>>
  BY DEF ppVars, sourceVars, httpVars
<1>2. Now' = Now
  BY <1>1 DEF Now, Reply
<1> QED
  BY <1>2 DEF Shown, Idle

LEMMA AlarmRunsOut ==
  ASSUME IndType, SerialInv, NEW g \in Generators, AlarmExpires(g)
  PROVE  SerialInv' /\ Service!Next
<1>1. /\ alive /\ alarm_timer[g]
      /\ alarm_timer' = [alarm_timer EXCEPT ![g] = FALSE]
      /\ ready' = Append(ready, Service!Alarm(g))
      /\ UNCHANGED <<connected, ppVars, timeout_timer, sourceVars, httpVars, alive, pc, localVars,
                     stream, base, before>>
  BY DEF AlarmExpires, Service!Alarm
<1>2. Service!Alarm(g) \in Service!Completion /\ Service!Alarm(g).kind = "alarm"
  BY DEF Service!Alarm, Service!Completion
<1>3. ready \in Seq(Service!Completion)
  BY DEF IndType, TypeOK
<1>4. TimeoutsOfPullPoint'
  <2>1. DOMAIN ready' = 1..(Len(ready) + 1) /\ DOMAIN ready = 1..Len(ready) /\ Len(ready) \in Nat
    BY <1>1, <1>2, <1>3, AppendProperties, LenProperties
  <2>2. \A i \in DOMAIN ready' : (i \in DOMAIN ready /\ ready'[i] = ready[i]) \/ ready'[i].kind = "alarm"
    BY <1>1, <1>2, <1>3, <2>1, AppendProperties
  <2> QED
    BY <1>1, <2>2 DEF SerialInv, TimeoutsOfPullPoint
<1>5. SerialInv'
  BY <1>1, <1>4, ExpiryKeepsHandlers DEF SerialInv, Idle, localVars
<1>6. ReadyShown' = Append(ReadyShown, Service!Alarm(g))
  BY <1>1, <1>2, ExpiryIsQueued DEF localVars
<1>7. Shown' = Shown
  BY <1>1, ExpiryKeepsShown
<1>8. \A i \in DOMAIN Signals[g] : Shown.changes[Signals[g][i]] < MaxChanges[Signals[g][i]]
  <2>1. SUFFICES ASSUME NEW i \in DOMAIN Signals[g]
                 PROVE  Shown.changes[Signals[g][i]] < MaxChanges[Signals[g][i]]
    OBVIOUS
  <2>2. Signals[g][i] \in Sources
    BY ThreadsAssumption, LenProperties
  <2>3. PICK s \in Sources : s = Signals[g][i]
    BY <2>2
  <2>4. changes[s] < MaxChanges[s]
    BY <2>3 DEF AlarmExpires
  <2>5. MaxChanges[s] \in Nat
    BY ThreadsAssumption
  <2> QED
    BY <2>3, <2>4, <2>5, ShownChanges
<1>9. Service!AlarmExpires(g)
  <2>1. UNCHANGED <<connected, timeout_timer, alive, base>>
    BY <1>1
  <2> QED
    BY <1>1, <1>6, <1>7, <1>8, <2>1 DEF Service!AlarmExpires, Service!pullVars, ReadyShown
<1> QED
  BY <1>5, <1>9 DEF Service!Next

LEMMA TimeoutRunsOut ==
  ASSUME IndType, SerialInv, TimeoutExpires
  PROVE  SerialInv' /\ Service!Next
<1>1. /\ alive /\ timeout_timer # None /\ timeout_timer' = None
      /\ ready' = Append(ready, Service!Timeout(PullPoint, timeout_timer))
      /\ UNCHANGED <<connected, ppVars, alarm_timer, sourceVars, httpVars, alive, pc, localVars,
                     stream, base, before>>
  BY DEF TimeoutExpires, Service!Timeout
<1>2. Service!Timeout(PullPoint, timeout_timer) \in Service!Completion
  BY <1>1 DEF Service!Timeout, Service!Completion, IndType, TypeOK
<1>3. connected
  BY <1>1 DEF SerialInv, TimeoutsOfPullPoint
<1>4. SerialInv'
  BY <1>1, <1>3, ExpiryKeepsHandlers DEF SerialInv, Idle, localVars, TimeoutsOfPullPoint
<1>5. ReadyShown' = Append(ReadyShown, Service!Timeout(PullPoint, timeout_timer))
  BY <1>1, <1>2, ExpiryIsQueued DEF localVars
<1>6. Shown' = Shown
  BY <1>1, ExpiryKeepsShown
<1>7. Service!TimeoutExpires(PullPoint)
  <2>1. UNCHANGED <<connected, alarm_timer, alive, base>>
    BY <1>1
  <2>2. Of(timeout_timer)' = [Of(timeout_timer) EXCEPT ![PullPoint] = None]
    BY <1>1 DEF Of
  <2>3. Of(timeout_timer)[PullPoint] = timeout_timer
    BY DEF Of
  <2> QED
    BY <1>1, <1>5, <1>6, <2>1, <2>2, <2>3
    DEF Service!TimeoutExpires, Service!alarmVars, ReadyShown
<1> QED
  BY <1>4, <1>7 DEF Service!Next

-----------------------------------------------------------------------------
(* Responses that go out.                                                  *)

LEMMA StaysInside ==
  ASSUME Handling, TimeoutsOfPullPoint, Idle("W")' = Idle("W"),
         UNCHANGED <<connected, before, timeout_timer, alarm_timer, ready, job, base, alive>>
  PROVE  /\ B' = B /\ before = <<B>> /\ before' = before /\ (before = <<B>>)'
         /\ Settled(B) /\ Settled(B)'
         /\ TimeoutsOfPullPoint'
         /\ UNCHANGED Service!vars
<1>1. before = <<B>> /\ before' = before /\ Settled(B)
  BY DEF Handling
<1>2. B' = B /\ Settled(B)'
  BY <1>1 DEF B, Settled
<1>3. UNCHANGED Service!vars
  BY <1>1, InsideHandler
<1>4. TimeoutsOfPullPoint'
  BY DEF TimeoutsOfPullPoint
<1> QED
  BY <1>1, <1>2, <1>3, <1>4

LEMMA NoneIsReleased ==
  ASSUME IndType, ReleaseUnheld, written' = written,
         \A q \in Requests : exchange[q] = "open" => response_writer' = q \/ request' = q
  PROVE  exchange' = exchange /\ Reply' = Reply
<1>1. exchange \in [Requests -> {"unsent", "open", "ok", "sent"}]
  BY DEF IndType, TypeOK
<1>2. exchange' = exchange
  BY <1>1 DEF ReleaseUnheld
<1> QED
  BY <1>2 DEF Reply

LEMMA OneIsReleased ==
  ASSUME IndType, ReleaseUnheld, written' = written, NEW w \in Requests,
         exchange[w] = "open", response_writer' # w, request' # w,
         \A q \in Requests : exchange[q] = "open" /\ q # w => response_writer' = q \/ request' = q
  PROVE  /\ exchange' = [exchange EXCEPT ![w] = "sent"]
         /\ Reply' = [Reply EXCEPT ![w] = Received("sent", written[w])]
<1>1. exchange \in [Requests -> {"unsent", "open", "ok", "sent"}]
  BY DEF IndType, TypeOK
<1>2. exchange' = [exchange EXCEPT ![w] = "sent"]
  BY <1>1 DEF ReleaseUnheld
<1> QED
  BY <1>2, ReplyChanges

\* While H handles a pull that has its place, no other is open.
LEMMA HeldIsOpen ==
  ASSUME before = <<B>>, Settled(B), request \in Requests, B.reply[request] = Service!Unsent
  PROVE  /\ Held \in [Requests -> Service!Reply]
         /\ \A q \in Requests : Held[q] = Service!Open <=> q = request
         /\ B.is_client_waiting => B.response_writer \in Requests /\ B.response_writer # request
<1> DEFINE R == Service!Released(PullPoint)
<1>1. Service!Open # Service!Unsent /\ Service!Open # Service!Dropped
  BY DEF Service!Open, Service!Unsent, Service!Dropped, Service!Plain
<1>2. R = IF B.is_client_waiting THEN [B.reply EXCEPT ![B.response_writer] = Service!Dropped]
                                 ELSE B.reply
  BY ReleasedOfBefore
<1>3. B.reply \in [Requests -> Service!Reply]
  BY DEF Settled
<1>4. B.is_client_waiting => B.response_writer \in Requests /\ B.response_writer # request
  BY <1>1 DEF Settled
<1>5. R \in [Requests -> Service!Reply]
  BY <1>2, <1>3, RepliesAreTyped
<1>6. \A q \in Requests : R[q] # Service!Open
  <2>1. CASE B.is_client_waiting
    BY <1>1, <1>2, <1>3, <1>4, <2>1 DEF Settled
  <2>2. CASE ~B.is_client_waiting
    BY <1>2, <2>2 DEF Settled
  <2> QED
    BY <2>1, <2>2
<1>7. Held = [R EXCEPT ![request] = Service!Open]
  BY DEF Held
<1> HIDE DEF R
<1>8. Held \in [Requests -> Service!Reply]
  BY <1>5, <1>7, RepliesAreTyped
<1>9. \A q \in Requests : Held[q] = Service!Open <=> q = request
  BY <1>5, <1>6, <1>7
<1> QED
  BY <1>4, <1>8, <1>9

-----------------------------------------------------------------------------
(* PullMessages.                                                           *)

LEMMA PullStoresHandler ==
  ASSUME IndType, SerialInv, StoreHandler
  PROVE  SerialInv' /\ UNCHANGED Service!vars
<1>1. Handling /\ Pulling /\ PullStarted
  BY BusyWith DEF StoreHandler
<1>2. /\ handler' = request
      /\ UNCHANGED <<connected, events, is_client_waiting, response_writer, timeout_timer, alarm_timer,
                     ready, logical, changes, exchange, written, alive, request, job, stream, base, before>>
  BY DEF StoreHandler, NewHandler, ioVars, sourceVars, httpVars, localVars
<1>3. "H" \in Threads /\ "W" \in Threads /\ "writer" \in Labels
  BY DEF Threads, Labels
<1>4. pc'["H"] = "writer" /\ pc'["W"] = pc["W"]
  BY <1>3, GoesOn DEF StoreHandler
<1>5. /\ B' = B /\ (before = <<B>>)' /\ Settled(B)' /\ TimeoutsOfPullPoint'
      /\ UNCHANGED Service!vars
  BY <1>1, <1>2, <1>4, StaysInside DEF SerialInv, Idle
<1>6. Reply' = Reply
  BY <1>2 DEF Reply
<1>7. PullStarted'
  BY <1>1, <1>2, <1>4, <1>5, <1>6 DEF PullStarted, State, Unwritten
<1>8. Pulling'
  BY <1>1, <1>2, <1>4, <1>5, <1>7 DEF Pulling, SourcesOf, Idle
<1> QED
  BY <1>2, <1>4, <1>5, <1>8 DEF SerialInv, Handling, Idle

LEMMA PullStoresWriter ==
  ASSUME IndType, SerialInv, StoreWriter
  PROVE  SerialInv' /\ UNCHANGED Service!vars
<1>1. Handling /\ Pulling /\ PullStarted /\ pc["H"] = "writer"
  BY BusyWith DEF StoreWriter
<1>2. /\ response_writer' = request
      /\ UNCHANGED <<connected, events, is_client_waiting, handler, timeout_timer, alarm_timer,
                     ready, logical, changes, written, alive, request, job, stream, base, before>>
  BY DEF StoreWriter, ioVars, sourceVars, localVars
<1>3. "H" \in Threads /\ "W" \in Threads /\ "empty" \in Labels
  BY DEF Threads, Labels
<1>4. pc'["H"] = "empty" /\ pc'["W"] = pc["W"]
  BY <1>3, GoesOn DEF StoreWriter
<1>5. /\ B' = B /\ before = <<B>> /\ before' = before /\ (before = <<B>>)' /\ Settled(B) /\ Settled(B)'
      /\ TimeoutsOfPullPoint' /\ UNCHANGED Service!vars
  BY <1>1, <1>2, <1>4, StaysInside DEF SerialInv, Idle
<1>6. request \in Requests /\ B.reply[request] = Service!Unsent
  BY <1>1 DEF Pulling, IndType, TypeOK
<1>7. B.is_client_waiting => B.response_writer \in Requests /\ B.response_writer # request
  BY <1>5, <1>6, HeldIsOpen
<1>8. Reply = [B.reply EXCEPT ![request] = Service!Open] /\ B.reply \in [Requests -> Service!Reply]
  BY <1>1, <1>5 DEF PullStarted, State, Settled
<1>9. \A q \in Requests : exchange[q] = "open" =>
        q = request \/ (B.is_client_waiting /\ q = B.response_writer)
  BY <1>5, <1>8, ReplyOfExchange DEF Settled
<1>10. ReleaseUnheld
  BY DEF StoreWriter
<1>11. Reply' = Held /\ \A q \in Requests : exchange'[q] \in {"unsent", "open"} => exchange'[q] = exchange[q]
  <2>1. CASE B.is_client_waiting
    <3>1. PICK w \in Requests : w = B.response_writer /\ w # request
      BY <1>7, <2>1
    <3>2. exchange[w] = "open"
      <4>1. Reply[w] = Service!Open
        BY <1>5, <1>6, <1>8, <2>1, <3>1 DEF Settled
      <4> QED
        BY <4>1, ReplyOfExchange
    <3>3. written[w] = <<>>
      BY <1>1, <3>2 DEF PullStarted, Unwritten
    <3>4. /\ exchange' = [exchange EXCEPT ![w] = "sent"]
          /\ Reply' = [Reply EXCEPT ![w] = Received("sent", written[w])]
      BY <1>2, <1>9, <1>10, <3>1, <3>2, OneIsReleased
    <3>5. Received("sent", written[w]) = Service!Dropped
      BY <3>3, ReceivedValues
    <3>6. Held = [[B.reply EXCEPT ![w] = Service!Dropped] EXCEPT ![request] = Service!Open]
      BY <1>5, <2>1, <3>1, ReleasedOfBefore DEF Held
    <3>7. Reply' = Held
      BY <1>6, <1>8, <3>1, <3>4, <3>5, <3>6
    <3>8. DOMAIN exchange = Requests
      BY DEF IndType, TypeOK
    <3> QED
      BY <3>4, <3>7, <3>8
  <2>2. CASE ~B.is_client_waiting
    <3>1. exchange' = exchange /\ Reply' = Reply
      BY <1>2, <1>9, <1>10, <2>2, NoneIsReleased
    <3>2. Held = [B.reply EXCEPT ![request] = Service!Open]
      BY <1>5, <2>2, ReleasedOfBefore DEF Held
    <3> QED
      BY <1>8, <3>1, <3>2
  <2> QED
    BY <2>1, <2>2
<1>12. Held' = Held
  BY <1>2, <1>5, SameBefore DEF Held
<1>13. PullStored'
  BY <1>1, <1>2, <1>4, <1>5, <1>11, <1>12 DEF PullStarted, PullStored, State, Unwritten
<1>14. Pulling'
  BY <1>1, <1>2, <1>4, <1>5, <1>13 DEF Pulling, SourcesOf, Idle
<1> QED
  BY <1>2, <1>4, <1>5, <1>14 DEF SerialInv, Handling, Idle

LEMMA PullTestsEmpty ==
  ASSUME IndType, SerialInv, TestEmpty
  PROVE  SerialInv' /\ UNCHANGED Service!vars
<1>1. Handling /\ Pulling /\ PullStored
  BY BusyWith DEF TestEmpty
<1>2. UNCHANGED <<connected, events, is_client_waiting, handler, response_writer, timeout_timer,
                  alarm_timer, ready, logical, changes, exchange, written, alive, request, job,
                  stream, base, before>>
  BY DEF TestEmpty, ppVars, ioVars, sourceVars, httpVars, localVars
<1>3. "H" \in Threads /\ "W" \in Threads /\ {"charge", "waiting"} \subseteq Labels
  BY DEF Threads, Labels
<1>4. pc'["H"] = (IF events = <<>> THEN "charge" ELSE "waiting") /\ pc'["W"] = pc["W"]
  BY <1>3, GoesOn DEF TestEmpty
<1>5. /\ B' = B /\ before = <<B>> /\ before' = before /\ (before = <<B>>)' /\ Settled(B)'
      /\ TimeoutsOfPullPoint' /\ UNCHANGED Service!vars
  BY <1>1, <1>2, <1>4, StaysInside DEF SerialInv, Idle
<1>6. Reply' = Reply /\ Held' = Held
  BY <1>2, <1>5, SameBefore DEF Reply, Held
<1>7. request # None /\ events = B.events
  BY <1>1 DEF Pulling, PullStored, State
<1>8. CASE events = <<>>
  BY <1>1, <1>2, <1>4, <1>5, <1>6, <1>7, <1>8 DEF Pulling, PullStored, State, Unwritten, SourcesOf, Idle,
     SerialInv, Handling
<1>9. CASE events # <<>>
  <2>1. PullAnswering'
    BY <1>1, <1>2, <1>4, <1>5, <1>6, <1>7, <1>9 DEF PullStored, PullAnswering, Answering, State, Unwritten
  <2> QED
    BY <1>1, <1>2, <1>4, <1>5, <2>1 DEF Pulling, SourcesOf, Idle, SerialInv, Handling
<1> QED
  BY <1>8, <1>9

LEMMA FoundOnceConnected ==
  ASSUME connected
  PROVE  /\ Service!FindPullPoint(Service!SubscriptionRef) = PullPoint
         /\ Service!SubscriptionRef \in Service!Addresses
         /\ Service!Live = {PullPoint}
         /\ PullPoint # None
<1>1. <<PullPoint>> # <<>> /\ Head(<<PullPoint>>) = PullPoint /\ DOMAIN <<PullPoint>> = {1}
      /\ <<PullPoint>>[1] = PullPoint
  OBVIOUS
<1>2. Service!Live = {PullPoint}
  BY <1>1 DEF Service!Live, Service!Range
<1> QED
  BY <1>1, <1>2, ThreadsAssumption
  DEF Service!FindPullPoint, Service!SubscriptionRef, Service!Addresses

LEMMA PullEnds ==
  ASSUME IndType, SerialInv, ChargeTimeout
  PROVE  SerialInv' /\ Service!Next
<1>1. Handling /\ Pulling /\ pc["H"] = "charge" /\ (PullStored \/ PullAnswered)
  BY BusyWith DEF ChargeTimeout
<1>2. /\ timeout_timer' = request /\ request' = None /\ before' = <<>> /\ alive
      /\ UNCHANGED <<connected, events, is_client_waiting, handler, response_writer, alarm_timer,
                     ready, logical, changes, written, alive, job, stream, base>>
  BY DEF ChargeTimeout, Ends, ppVars, sourceVars
<1>3. "H" \in Threads /\ "W" \in Threads /\ "idle" \in Labels
  BY DEF Threads, Labels
<1>4. pc'["H"] = "idle" /\ pc'["W"] = "idle" /\ pc["W"] = "idle"
  BY <1>1, <1>3, GoesOn DEF ChargeTimeout, Ends, Pulling, Idle
<1>5. before = <<B>> /\ Settled(B) /\ Shown = B /\ Shown' = Now'
  BY <1>1, <1>2, ShownState DEF Handling, Shown
<1>6. request \in Requests /\ B.reply[request] = Service!Unsent /\ connected /\ SourcesOf(B)
  BY <1>1 DEF Pulling, IndType, TypeOK
<1>7. /\ Held \in [Requests -> Service!Reply]
      /\ \A q \in Requests : Held[q] = Service!Open <=> q = request
  BY <1>5, <1>6, HeldIsOpen
<1>8. Reply = Held /\ \A q \in Requests : exchange[q] = "open" <=> q = request
  BY <1>1, <1>7, ReplyOfExchange DEF PullStored, PullAnswered, State
<1>9. ReleaseUnheld
  BY DEF ChargeTimeout
<1>10. /\ Now'.events = events /\ Now'.stream = stream /\ Now'.is_client_waiting = is_client_waiting
       /\ Now'.response_writer = response_writer /\ Now'.logical = logical /\ Now'.changes = changes
       /\ Now'.reply = Reply'
  BY <1>2 DEF Now
<1>11. /\ \A q \in Requests : Now'.reply[q] = Reply'[q]
       /\ logical = B.logical /\ changes = B.changes
  BY <1>6, <1>10 DEF SourcesOf
<1>12. TimeoutsOfPullPoint' /\ (Idle("H") => request = None)' /\ (\A t \in Threads : Idle(t))'
  BY <1>2, <1>4, <1>6 DEF TimeoutsOfPullPoint, Idle, Threads
<1>13. CASE PullStored
  <2>1. /\ B.events = <<>> /\ events = <<>> /\ is_client_waiting = TRUE /\ response_writer = request
        /\ stream = B.stream /\ handler = request /\ Unwritten({})
    BY <1>1, <1>13 DEF PullStored, State
  <2>2. exchange' = exchange /\ Reply' = Held
    BY <1>2, <1>8, <1>9, <2>1, NoneIsReleased
  <2>3. Settled(Now)'
    BY <1>2, <1>5, <1>6, <1>7, <1>10, <1>11, <2>1, <2>2 DEF Settled
  <2>4. SerialInv'
    BY <1>2, <1>6, <1>12, <2>1, <2>2, <2>3, ThreadsAssumption DEF SerialInv, Resting, Unwritten
  <2>5. Service!PullMessagesWait(request, Service!SubscriptionRef)
    <3>1. Of(B.events)[PullPoint] = <<>> /\ Of(B.events) = Of(events)
      BY <2>1 DEF Of
    <3>2. /\ Of(timeout_timer)' = [Of(timeout_timer) EXCEPT ![PullPoint] = request]
          /\ Of(is_client_waiting)' = [Of(B.is_client_waiting) EXCEPT ![PullPoint] = TRUE]
          /\ Of(response_writer)' = [Of(B.response_writer) EXCEPT ![PullPoint] = request]
          /\ Of(events)' = Of(B.events) /\ Of(stream)' = Of(B.stream) /\ Of(base)' = Of(base)
      BY <1>2, <2>1 DEF Of
    <3>3. Now'.reply = [Service!Released(PullPoint) EXCEPT ![request] = Service!Open]
      BY <1>10, <2>2 DEF Held
    <3> QED
      BY <1>2, <1>4, <1>5, <1>6, <1>10, <1>11, <3>1, <3>2, <3>3, FoundOnceConnected
      DEF Service!PullMessagesWait, Service!Charged, Service!alarmVars, Idle, Of
  <2> QED
    BY <1>6, <2>4, <2>5, FoundOnceConnected DEF Service!Next, Service!Request
<1>14. CASE PullAnswered
  <2>1. /\ B.events # <<>> /\ events = <<>> /\ is_client_waiting = FALSE /\ response_writer = None
        /\ stream = B.stream \o B.events /\ Unwritten({request}) /\ Wrote(request, B.events)
    BY <1>14 DEF PullAnswered, State
  <2>2. None \notin Requests
    BY ThreadsAssumption
  <2>3. /\ exchange' = [exchange EXCEPT ![request] = "sent"]
        /\ Reply' = [Reply EXCEPT ![request] = Received("sent", written[request])]
    BY <1>2, <1>6, <1>8, <1>9, <2>1, <2>2, OneIsReleased
  <2>4. Received("sent", written[request]) = Service!PullMessagesResponse(B.events)
    <3>1. written[request] \in Seq([id : Requests, messages : Seq(Service!Message)])
      BY <1>6 DEF IndType, TypeOK
    <3>2. Len(written[request]) = 1 /\ written[request] # <<>>
      BY <2>1, <3>1, EmptySeq DEF Wrote
    <3> QED
      BY <2>1, <3>2, ReceivedValues DEF Wrote
  <2>5. Reply' = [Held EXCEPT ![request] = Service!PullMessagesResponse(B.events)]
    BY <1>8, <2>3, <2>4
  <2>6. Service!PullMessagesResponse(B.events) \in Service!Reply
        /\ Service!PullMessagesResponse(B.events) # Service!Open
    BY <1>5, RepliesAreTyped DEF Settled, Service!PullMessagesResponse, Service!Open, Service!Plain
  <2>7. Reply' \in [Requests -> Service!Reply] /\ \A q \in Requests : Reply'[q] # Service!Open
    BY <1>7, <2>5, <2>6
  <2>8. B.stream \o B.events \in Seq(Service!Message) /\ <<>> \in Seq(Service!Message)
    BY <1>5, ConcatProperties DEF Settled
  <2>9. Settled(Now)'
    BY <1>2, <1>5, <1>6, <1>10, <1>11, <2>1, <2>7, <2>8 DEF Settled
  <2>10. DOMAIN exchange = Requests
    BY DEF IndType, TypeOK
  <2>11. SerialInv'
    BY <1>2, <1>6, <1>12, <2>1, <2>3, <2>9, <2>10 DEF SerialInv, Resting, Unwritten
  <2>12. Service!PullMessagesAtOnce(request, Service!SubscriptionRef)
    <3>1. Of(B.events)[PullPoint] = B.events /\ Of(B.stream)[PullPoint] = B.stream
      BY DEF Of
    <3>2. /\ Of(timeout_timer)' = [Of(timeout_timer) EXCEPT ![PullPoint] = request]
          /\ Of(is_client_waiting)' = [Of(B.is_client_waiting) EXCEPT ![PullPoint] = FALSE]
          /\ Of(response_writer)' = [Of(B.response_writer) EXCEPT ![PullPoint] = None]
          /\ Of(events)' = [Of(B.events) EXCEPT ![PullPoint] = <<>>]
          /\ Of(stream)' = [Of(B.stream) EXCEPT ![PullPoint] = B.stream \o B.events]
          /\ Of(base)' = Of(base)
      BY <1>2, <2>1 DEF Of
    <3>3. Now'.reply = [Service!Released(PullPoint) EXCEPT ![request] =
                          Service!PullMessagesResponse(B.events)]
      BY <1>6, <1>10, <2>5 DEF Held
    <3> QED
      BY <1>2, <1>4, <1>5, <1>6, <1>10, <1>11, <2>1, <3>1, <3>2, <3>3, FoundOnceConnected
      DEF Service!PullMessagesAtOnce, Service!Charged, Service!SwappedOut, Service!StopsWaiting,
          Service!alarmVars, Idle, Of
  <2> QED
    BY <1>6, <2>11, <2>12, FoundOnceConnected DEF Service!Next, Service!Request
<1> QED
  BY <1>1, <1>13, <1>14

-----------------------------------------------------------------------------
(* SetSynchronizationPoint.                                                *)

LEMMA SyncInserts ==
  ASSUME IndType, SerialInv, InsertSyncEvents, todo["H"] # <<>>
  PROVE  SerialInv' /\ UNCHANGED Service!vars
<1>1. Handling /\ Synchronizing
  BY BusyWith DEF InsertSyncEvents
<1>2. /\ events' = Append(events, SyncMessage(Head(todo["H"])))
      /\ todo' = [todo EXCEPT !["H"] = Tail(@)]
      /\ UNCHANGED <<connected, is_client_waiting, handler, response_writer, timeout_timer, alarm_timer,
                     ready, logical, changes, exchange, written, alive, pc, request, job, stream, base,
                     before>>
  BY DEF InsertSyncEvents, ioVars, sourceVars
<1>3. todo["H"] \in Seq(Sources) /\ todo'["H"] = Tail(todo["H"]) /\ events \in Seq(Service!Message)
  BY <1>2 DEF IndType, TypeOK, Threads
<1>4. /\ B' = B /\ before = <<B>> /\ before' = before /\ (before = <<B>>)' /\ Settled(B)'
      /\ TimeoutsOfPullPoint' /\ UNCHANGED Service!vars
  BY <1>1, <1>2, StaysInside DEF SerialInv, Idle
<1>5. Reply' = Reply /\ Service!SyncMessages' = Service!SyncMessages
  BY <1>2, <1>4, SameBefore DEF Reply
<1>6. (events \o SyncRest(todo["H"]))' = events \o SyncRest(todo["H"])
  <2> DEFINE t == SyncRest(todo["H"])
  <2>1. t \in Seq(Service!Message) /\ t # <<>> /\ Head(t) = SyncMessage(Head(todo["H"]))
        /\ Tail(t) = SyncRest(Tail(todo["H"]))
    BY <1>3, SyncRestFacts
  <2>2. SyncRest(todo["H"])' = SyncRest(Tail(todo["H"]))
    BY <1>2, <1>3 DEF SyncRest, SyncMessage
  <2> HIDE DEF t
  <2>3. Append(events, Head(t)) \o Tail(t) = events \o t
    BY <1>3, <2>1, ConcatMovesHead
  <2> QED
    BY <1>2, <2>1, <2>2, <2>3 DEF t
<1>7. Synchronizing'
  BY <1>1, <1>2, <1>4, <1>5, <1>6 DEF Synchronizing, State, SourcesOf, Unwritten, Idle
<1> QED
  BY <1>1, <1>2, <1>4, <1>7 DEF SerialInv, Handling, Idle, Synchronizing

LEMMA SyncEnds ==
  ASSUME IndType, SerialInv, InsertSyncEvents, todo["H"] = <<>>
  PROVE  SerialInv' /\ Service!Next
<1>1. Handling /\ Synchronizing
  BY BusyWith DEF InsertSyncEvents
<1>2. /\ exchange' = [exchange EXCEPT ![request] = "ok"]
      /\ request' = None /\ before' = <<>> /\ alive
      /\ UNCHANGED <<connected, events, is_client_waiting, handler, response_writer, timeout_timer,
                     alarm_timer, ready, logical, changes, written, alive, job, stream, base>>
  BY DEF InsertSyncEvents, Ends, ioVars, sourceVars
<1>3. "H" \in Threads /\ "W" \in Threads /\ "idle" \in Labels
  BY DEF Threads, Labels
<1>4. pc'["H"] = "idle" /\ pc'["W"] = "idle" /\ pc["W"] = "idle"
  BY <1>1, <1>3, GoesOn DEF InsertSyncEvents, Ends, Synchronizing, Idle
<1>5. before = <<B>> /\ Settled(B) /\ Shown = B /\ Shown' = Now'
  BY <1>1, <1>2, ShownState DEF Handling, Shown
<1>6. request \in Requests /\ B.reply[request] = Service!Unsent /\ connected
  BY <1>1 DEF Synchronizing, IndType, TypeOK
<1>7. /\ is_client_waiting = B.is_client_waiting /\ response_writer = B.response_writer
      /\ Reply = [B.reply EXCEPT ![request] = Service!Open] /\ stream = B.stream
      /\ logical = B.logical /\ changes = B.changes
      /\ B.is_client_waiting => handler # None
      /\ Unwritten({})
  BY <1>1 DEF Synchronizing, State, SourcesOf
<1>8. events = Service!SyncMessages /\ events \in Seq(Service!Message)
  <2>1. events \in Seq(Service!Message)
    BY DEF IndType, TypeOK
  <2>2. todo["H"] \in Seq(Sources)
    BY <1>3 DEF IndType, TypeOK
  <2>3. SyncRest(todo["H"]) = <<>>
    BY <2>2, SyncRestFacts
  <2> QED
    BY <1>1, <2>1, <2>3, ConcatEmptySeq DEF Synchronizing
<1>9. B.reply \in [Requests -> Service!Reply]
  BY <1>5 DEF Settled
<1>10. Reply' = [B.reply EXCEPT ![request] = Service!Ok]
  <2>1. Reply' = [Reply EXCEPT ![request] = Received("ok", written[request])]
    BY <1>2, <1>6, ReplyChanges
  <2>2. Received("ok", written[request]) = Service!Ok
    BY ReceivedValues
  <2> QED
    BY <1>7, <1>9, <2>1, <2>2
<1>11. Service!Ok # Service!Open /\ Service!Unsent # Service!Open
  BY DEF Service!Ok, Service!Open, Service!Unsent, Service!Plain
<1>12. Reply' \in [Requests -> Service!Reply]
       /\ \A q \in Requests : Reply'[q] = Service!Open <=> B.reply[q] = Service!Open
  BY <1>6, <1>9, <1>10, <1>11, RepliesAreTyped
<1>13. /\ Now'.events = events /\ Now'.stream = B.stream
       /\ Now'.is_client_waiting = B.is_client_waiting /\ Now'.response_writer = B.response_writer
       /\ Now'.logical = B.logical /\ Now'.changes = B.changes /\ Now'.reply = Reply'
  BY <1>2, <1>7 DEF Now
<1>14. Settled(Now)'
  BY <1>2, <1>5, <1>6, <1>8, <1>12, <1>13 DEF Settled
<1>15. Unwritten({})' /\ (is_client_waiting => handler # None)'
  BY <1>2, <1>7 DEF Unwritten, IndType, TypeOK
<1>16. SerialInv'
  BY <1>2, <1>4, <1>6, <1>14, <1>15 DEF SerialInv, Resting, Idle, Threads, TimeoutsOfPullPoint
<1>17. Service!SetSynchronizationPoint(request, Service!SubscriptionRef)
  <2>1. Of(events)' = [Of(B.events) EXCEPT ![PullPoint] = Service!SyncMessages]
    BY <1>2, <1>8 DEF Of
  <2> QED
    BY <1>2, <1>4, <1>5, <1>6, <1>10, <1>13, <2>1, FoundOnceConnected
    DEF Service!SetSynchronizationPoint, Service!alarmVars, Idle, Of
<1> QED
  BY <1>6, <1>16, <1>17, FoundOnceConnected DEF Service!Next, Service!Request

-----------------------------------------------------------------------------
(* response_to_pullmessages.                                               *)

LEMMA RespondFrame ==
  ASSUME IndType, NEW t \in Threads, Respond(t)
  PROVE  /\ UNCHANGED <<connected, handler, timeout_timer, alarm_timer, ready, logical, changes,
                        request, job, todo, base, before>>
         /\ \A u \in Threads : u # t => pc'[u] = pc[u]
         /\ pc[t] \in RespondLabels
         /\ pc'[t] \in RespondLabels \cup {After(t)}
         /\ alive
<1>1. {"swap", "write", "reset", "clear"} \subseteq Labels /\ After(t) \in Labels
  BY AfterIsALabel DEF Labels
<1>2. UNCHANGED <<connected, handler, timeout_timer, alarm_timer, ready, logical, changes,
                  request, job, todo, base, before>>
  BY DEF Respond, TestWaiting, SwapEvents, LeftQueued, CallHandler, ResetWriter, ClearWaiting,
         ppVars, ioVars, sourceVars, localVars
<1>3. alive /\ pc[t] \in RespondLabels
  BY DEF Respond, TestWaiting, SwapEvents, LeftQueued,
         CallHandler, ResetWriter, ClearWaiting, RespondLabels
<1>4. pc' = pc \/ \E label \in {"swap", "write", "reset", "clear", After(t)} : Goes(t, label)
  BY DEF Respond, TestWaiting, SwapEvents, LeftQueued, CallHandler, ResetWriter, ClearWaiting
<1>5. CASE pc' = pc
  BY <1>2, <1>3, <1>5
<1>6. ASSUME NEW label \in {"swap", "write", "reset", "clear", After(t)}, Goes(t, label)
      PROVE  /\ \A u \in Threads : u # t => pc'[u] = pc[u]
             /\ pc'[t] \in RespondLabels \cup {After(t)}
  BY <1>1, <1>6, GoesOn DEF RespondLabels
<1> QED
  BY <1>2, <1>3, <1>4, <1>5, <1>6

Answered(w, msgs, released) ==
  /\ State(<<>>, FALSE, None, released, B.stream \o msgs)
  /\ Unwritten({w})
  /\ Wrote(w, msgs)

\* One statement further in response_to_pullmessages; reset() is the one that may
\* let the Response go.
LEMMA AnsweringGoesOn ==
  ASSUME IndType, before = <<B>>, NEW t \in Threads, Respond(t),
         NEW w \in Requests, NEW msgs, NEW held, NEW released,
         held[w] = Service!Open,
         Answering(t, w, msgs, held, released),
         pc[t] = "reset" => Reply' = released
  PROVE  /\ alive'
         /\ \/ Answering(t, w, msgs, held, released)' /\ pc'[t] \in RespondLabels
            \/ Answered(w, msgs, released)' /\ pc'[t] = After(t)
<1>1. /\ B' = B /\ handler' = handler /\ handler # None /\ alive
  BY RespondFrame DEF B, Answering
<1>2. /\ {"swap", "write", "reset", "clear"} \subseteq Labels /\ After(t) \in Labels
      /\ None \notin Requests /\ DOMAIN copied = Threads
  BY AfterIsALabel, ThreadsAssumption DEF Labels, IndType, TypeOK
<1>3. CASE pc[t] = "waiting"
  <2>1. TestWaiting(t)
    BY <1>3 DEF Respond, TestWaiting, SwapEvents, LeftQueued,
                CallHandler, ResetWriter, ClearWaiting
  <2>2. State(msgs, TRUE, w, held, B.stream) /\ Unwritten({})
    BY <1>3 DEF Answering
  <2>3. pc'[t] = "swap"
    BY <1>2, <2>1, <2>2, GoesOn DEF TestWaiting, State
  <2>4. UNCHANGED <<events, is_client_waiting, response_writer, exchange, written, stream, alive>>
    BY <2>1 DEF TestWaiting, ppVars, httpVars
  <2> QED
    BY <1>1, <2>2, <2>3, <2>4 DEF Answering, State, Unwritten, Reply, RespondLabels
<1>4. CASE pc[t] = "swap"
  <2>1. SwapEvents(t)
    BY <1>4 DEF Respond, TestWaiting, SwapEvents, LeftQueued,
                CallHandler, ResetWriter, ClearWaiting
  <2>2. State(msgs, TRUE, w, held, B.stream) /\ Unwritten({})
    BY <1>4 DEF Answering
  <2>3. pc'[t] = "write"
    BY <1>2, <2>1, GoesOn DEF SwapEvents, LeftQueued
  <2>4. /\ copied' = [copied EXCEPT ![t] = events] /\ events' = <<>>
        /\ UNCHANGED <<is_client_waiting, response_writer, exchange, written, stream, alive>>
    BY <2>1 DEF SwapEvents, LeftQueued, httpVars
  <2>5. copied'[t] = msgs
    BY <1>2, <2>2, <2>4 DEF State
  <2> QED
    BY <1>1, <2>2, <2>3, <2>4, <2>5 DEF Answering, State, Unwritten, Reply, RespondLabels
<1>5. CASE pc[t] = "write"
  <2>1. CallHandler(t)
    BY <1>5 DEF Respond, TestWaiting, SwapEvents, LeftQueued,
                CallHandler, ResetWriter, ClearWaiting
  <2>2. copied[t] = msgs /\ State(<<>>, TRUE, w, held, B.stream) /\ Unwritten({})
    BY <1>5 DEF Answering
  <2>3. response_writer = w /\ w # None
    BY <1>2, <2>2 DEF State
  <2>4. /\ written' = [written EXCEPT ![w] = Append(@, [id |-> handler, messages |-> msgs])]
        /\ stream' = stream \o msgs
        /\ Goes(t, "reset")
        /\ UNCHANGED <<events, is_client_waiting, response_writer, exchange, alive>>
    BY <1>1, <2>1, <2>2, <2>3 DEF CallHandler, ppVars
  <2>5. pc'[t] = "reset"
    BY <1>2, <2>4, GoesOn
  <2>6. exchange[w] = "open"
    BY <2>2, ReplyOfExchange DEF State
  <2>7. written[w] = <<>>
    BY <2>2, <2>6 DEF Unwritten
  <2>8. DOMAIN written = Requests
    BY DEF IndType, TypeOK
  <2>9. written'[w] = Append(<<>>, [id |-> handler, messages |-> msgs])
    BY <2>4, <2>7, <2>8
  <2>10. written'[w] = <<[id |-> handler, messages |-> msgs]>>
    BY <2>9
  <2>11. Wrote(w, msgs)'
    BY <2>10 DEF Wrote
  <2>12. Reply' = Reply
    <3>1. ASSUME NEW q \in Requests
          PROVE  Received(exchange'[q], written'[q]) = Received(exchange[q], written[q])
      <4>1. CASE q = w
        BY <2>4, <2>6, <4>1, ReceivedValues
      <4>2. CASE q # w
        BY <2>4, <2>8, <4>2
      <4> QED
        BY <4>1, <4>2
    <3> QED
      BY <3>1 DEF Reply
  <2>13. Unwritten({w})'
    BY <2>2, <2>4, <2>8 DEF Unwritten
  <2>14. State(<<>>, TRUE, w, held, B.stream \o msgs)'
    BY <1>1, <2>2, <2>4, <2>12 DEF State
  <2> QED
    BY <1>1, <2>4, <2>5, <2>11, <2>13, <2>14 DEF Answering, RespondLabels
<1>6. CASE pc[t] = "reset"
  <2>1. ResetWriter(t)
    BY <1>6 DEF Respond, TestWaiting, SwapEvents, LeftQueued,
                CallHandler, ResetWriter, ClearWaiting
  <2>2. State(<<>>, TRUE, w, held, B.stream \o msgs) /\ Unwritten({w}) /\ Wrote(w, msgs)
    BY <1>6 DEF Answering
  <2>3. pc'[t] = "clear"
    BY <1>2, <2>1, GoesOn DEF ResetWriter
  <2>4. /\ response_writer' = None /\ ReleaseUnheld
        /\ UNCHANGED <<events, is_client_waiting, written, stream, alive>>
    BY <2>1 DEF ResetWriter, Reset
  <2>5. \A q \in Requests : exchange'[q] \in {"unsent", "open"} => exchange'[q] = exchange[q]
    BY <2>4 DEF ReleaseUnheld
  <2>6. Unwritten({w})'
    BY <2>2, <2>4, <2>5 DEF Unwritten
  <2>7. State(<<>>, TRUE, None, released, B.stream \o msgs)'
    BY <1>1, <1>6, <2>2, <2>4 DEF State
  <2> QED
    BY <1>1, <2>2, <2>3, <2>4, <2>6, <2>7 DEF Answering, Wrote, RespondLabels
<1>7. CASE pc[t] = "clear"
  <2>1. ClearWaiting(t)
    BY <1>7 DEF Respond, TestWaiting, SwapEvents, LeftQueued,
                CallHandler, ResetWriter, ClearWaiting
  <2>2. State(<<>>, TRUE, None, released, B.stream \o msgs) /\ Unwritten({w}) /\ Wrote(w, msgs)
    BY <1>7 DEF Answering
  <2>3. pc'[t] = After(t)
    BY <1>2, <2>1, GoesOn DEF ClearWaiting
  <2>4. /\ is_client_waiting' = FALSE
        /\ UNCHANGED <<events, response_writer, exchange, written, stream, alive>>
    BY <2>1 DEF ClearWaiting, httpVars
  <2> QED
    BY <1>1, <2>2, <2>3, <2>4 DEF Answered, State, Unwritten, Wrote, Reply
<1> QED
  BY <1>3, <1>4, <1>5, <1>6, <1>7, RespondFrame DEF RespondLabels

LEMMA PullResponds ==
  ASSUME IndType, SerialInv, Respond("H")
  PROVE  SerialInv' /\ UNCHANGED Service!vars
<1>1. "H" \in Threads /\ "W" \in Threads
  BY DEF Threads
<1>2. /\ UNCHANGED <<connected, handler, timeout_timer, alarm_timer, ready, logical, changes,
                     request, job, todo, base, before>>
      /\ pc'["W"] = pc["W"] /\ pc["H"] \in RespondLabels /\ alive
  BY <1>1, RespondFrame
<1>3. Handling /\ Pulling /\ PullAnswering
  BY <1>2, BusyWith
<1>4. before = <<B>> /\ Settled(B) /\ request \in Requests /\ B.reply[request] = Service!Unsent
      /\ handler = handler' /\ B.events # <<>>
  BY <1>2, <1>3 DEF Handling, Pulling, PullAnswering, IndType, TypeOK
<1>5. PICK w \in Requests : w = request
  BY <1>4
<1>6. PICK msgs : msgs = B.events
  OBVIOUS
<1>7. PICK held : held = Held
  OBVIOUS
<1>8. held[w] = Service!Open /\ \A q \in Requests : held[q] = Service!Open <=> q = w
  BY <1>4, <1>5, <1>7, HeldIsOpen
<1>9. Answering("H", w, msgs, held, held)
  BY <1>3, <1>5, <1>6, <1>7 DEF PullAnswering
<1>10. ASSUME pc["H"] = "reset" PROVE Reply' = held
  <2>1. Reply = held
    BY <1>9, <1>10 DEF Answering, State
  <2>2. ReleaseUnheld /\ written' = written
    BY <1>10 DEF Respond, TestWaiting, SwapEvents, LeftQueued,
                 CallHandler, ResetWriter, ClearWaiting
  <2>3. \A q \in Requests : exchange[q] = "open" => request' = q
    BY <1>2, <1>5, <1>8, <2>1, ReplyOfExchange
  <2> QED
    BY <2>1, <2>2, <2>3, NoneIsReleased
<1>11. /\ alive'
       /\ \/ Answering("H", w, msgs, held, held)' /\ pc'["H"] \in RespondLabels
          \/ Answered(w, msgs, held)' /\ pc'["H"] = After("H")
  BY <1>1, <1>4, <1>8, <1>9, <1>10, AnsweringGoesOn
<1>12. Idle("W")' = Idle("W") /\ alive' = alive /\ pc'["H"] # "idle"
  BY <1>2, <1>11 DEF Idle, RespondLabels, After, SerialInv
<1>13. /\ B' = B /\ before' = before /\ (before = <<B>>)' /\ Settled(B)'
       /\ TimeoutsOfPullPoint' /\ UNCHANGED Service!vars
  BY <1>2, <1>3, <1>12, StaysInside DEF SerialInv
<1>14. Held' = held /\ B'.events = msgs /\ request' = w
  BY <1>2, <1>4, <1>5, <1>6, <1>7, <1>13, SameBefore DEF Held
<1>15. PullAnswering' \/ PullAnswered'
  BY <1>4, <1>6, <1>11, <1>13, <1>14 DEF PullAnswering, PullAnswered, Answered, After
<1>16. Pulling'
  BY <1>2, <1>3, <1>12, <1>13, <1>15 DEF Pulling, SourcesOf
<1> QED
  BY <1>11, <1>12, <1>13, <1>16 DEF SerialInv, Handling, Idle

\* What reset() does to the Response of the client that waited.
LEMMA WaiterIsAnswered ==
  ASSUME IndType, before = <<B>>, Settled(B), request = None, Respond("W"), pc["W"] = "reset",
         NEW w \in Requests, w = B.response_writer, B.is_client_waiting, NEW msgs,
         Reply = B.reply, Wrote(w, msgs)
  PROVE  Reply' = [B.reply EXCEPT ![w] = Service!PullMessagesResponse(msgs)]
<1>1. ReleaseUnheld /\ written' = written /\ response_writer' = None /\ request' = request
  BY DEF Respond, TestWaiting, SwapEvents, LeftQueued,
         CallHandler, ResetWriter, ClearWaiting, Reset, localVars
<1>2. None \notin Requests
  BY ThreadsAssumption
<1>3. exchange[w] = "open" /\ \A q \in Requests : exchange[q] = "open" => q = w
  BY ReplyOfExchange DEF Settled
<1>4. Reply' = [Reply EXCEPT ![w] = Received("sent", written[w])]
  BY <1>1, <1>2, <1>3, OneIsReleased
<1>5. written[w] # <<>>
  BY EmptySeq DEF Wrote, IndType, TypeOK
<1>6. Received("sent", written[w]) = Service!PullMessagesResponse(msgs)
  BY <1>5, ReceivedValues DEF Wrote
<1> QED
  BY <1>4, <1>6

\* A Response with messages is not held any more.
LEMMA AnsweredIsSent ==
  ASSUME NEW w \in Requests, NEW msgs, Unwritten({w})', Reply'[w] = Service!PullMessagesResponse(msgs)
  PROVE  Unwritten({})'
<1>1. Reply'[w] = Received(exchange'[w], written'[w])
  BY DEF Reply
<1>2. Reply'[w].status = "messages"
  BY DEF Service!PullMessagesResponse
<1>3. exchange'[w] \notin {"unsent", "open"}
  BY <1>1, <1>2, ReceivedValues DEF Service!Unsent, Service!Open, Service!Plain
<1> QED
  BY <1>3 DEF Unwritten

\* Nobody waits: the handler returns.
LEMMA NobodyWaits ==
  ASSUME IndType, pc["W"] \in RespondLabels, NEW queue, NEW answers, NEW sent,
         pc["W"] = "waiting", State(queue, FALSE, None, answers, sent), Unwritten({}), Respond("W")
  PROVE  /\ State(queue, FALSE, None, answers, sent)'
         /\ Unwritten({})'
         /\ pc'["W"] = After("W")
         /\ alive' = alive
<1>1. TestWaiting("W")
  BY DEF Respond, TestWaiting, SwapEvents, LeftQueued, CallHandler, ResetWriter, ClearWaiting
<1>2. "W" \in Threads /\ After("W") \in Labels
  BY AfterIsALabel DEF Threads
<1>3. pc'["W"] = After("W")
  BY <1>1, <1>2, GoesOn DEF TestWaiting, State
<1>4. UNCHANGED <<events, is_client_waiting, response_writer, exchange, written, stream, alive>>
  BY <1>1 DEF TestWaiting, ppVars, httpVars
<1> QED
  BY <1>3, <1>4 DEF State, Unwritten, Reply

LEMMA TimeoutResponds ==
  ASSUME IndType, SerialInv, Respond("W"), TimingOut
  PROVE  SerialInv' /\ UNCHANGED Service!vars
<1>1. "H" \in Threads /\ "W" \in Threads
  BY DEF Threads
<1>2. /\ UNCHANGED <<connected, handler, timeout_timer, alarm_timer, ready, logical, changes,
                     request, job, todo, base, before>>
      /\ pc'["H"] = pc["H"] /\ pc["W"] \in RespondLabels /\ alive
  BY <1>1, RespondFrame
<1>3. Handling /\ before = <<B>> /\ Settled(B) /\ pc["H"] = "idle" /\ request = None
  BY <1>2, BusyWith, BusyThread DEF Handling, SerialInv, RespondLabels, Idle
<1>4. After("W") = "done"
  BY DEF TimingOut, After
<1>5. ASSUME alive', pc'["W"] # "idle", TimingOut'
      PROVE  SerialInv' /\ UNCHANGED Service!vars
  <2>1. Idle("W")' = Idle("W") /\ alive' = alive
    BY <1>2, <1>5 DEF Idle, RespondLabels, SerialInv
  <2>2. /\ B' = B /\ (before = <<B>>)' /\ Settled(B)' /\ TimeoutsOfPullPoint' /\ UNCHANGED Service!vars
    BY <1>2, <1>3, <2>1, StaysInside DEF SerialInv
  <2> QED
    BY <1>2, <1>3, <1>5, <2>2 DEF SerialInv, Handling, Idle
<1>6. B' = B
  BY <1>2 DEF B
<1>7. CASE B.is_client_waiting /\ Answering("W", B.response_writer, B.events, B.reply, AnswersWith(B.events))
  <2>1. PICK w \in Requests : w = B.response_writer
    BY <1>3, <1>7 DEF Settled
  <2>2. PICK msgs : msgs = B.events
    OBVIOUS
  <2>3. PICK held : held = B.reply
    OBVIOUS
  <2>4. PICK released : released = AnswersWith(msgs)
    OBVIOUS
  <2>5. held[w] = Service!Open /\ Answering("W", w, msgs, held, released)
    BY <1>3, <1>7, <2>1, <2>2, <2>3, <2>4 DEF Settled
  <2>6. ASSUME pc["W"] = "reset" PROVE Reply' = released
    <3>1. Reply = B.reply /\ Wrote(w, msgs)
      BY <2>3, <2>5, <2>6 DEF Answering, State
    <3>2. Reply' = [B.reply EXCEPT ![w] = Service!PullMessagesResponse(msgs)]
      BY <1>3, <1>7, <2>1, <2>6, <3>1, WaiterIsAnswered
    <3> QED
      BY <2>1, <2>4, <3>2 DEF AnswersWith
  <2>7. /\ alive'
        /\ \/ Answering("W", w, msgs, held, released)' /\ pc'["W"] \in RespondLabels
           \/ Answered(w, msgs, released)' /\ pc'["W"] = After("W")
    BY <1>1, <1>3, <2>5, <2>6, AnsweringGoesOn
  <2>8. AnswersWith(B.events)' = released /\ B'.response_writer = w /\ B'.events = msgs /\ B'.reply = held
    BY <1>6, <2>1, <2>2, <2>3, <2>4 DEF AnswersWith
  <2>9. CASE Answering("W", w, msgs, held, released)' /\ pc'["W"] \in RespondLabels
    <3>1. (B.is_client_waiting
             /\ Answering("W", B.response_writer, B.events, B.reply, AnswersWith(B.events)))'
      BY <1>6, <1>7, <2>8, <2>9
    <3>2. TimingOut'
      BY <1>2, <1>3, <1>6, <3>1 DEF TimingOut, SourcesOf, Idle
    <3> QED
      BY <1>5, <2>7, <2>9, <3>2 DEF RespondLabels
  <2>10. CASE Answered(w, msgs, released)' /\ pc'["W"] = After("W")
    <3>1. Reply'[w] = Service!PullMessagesResponse(msgs)
      BY <1>3, <2>1, <2>4, <2>10 DEF Answered, State, AnswersWith, Settled
    <3>2. Unwritten({})'
      BY <2>10, <3>1, AnsweredIsSent DEF Answered
    <3>3. State(<<>>, FALSE, None, AnswersWith(B.events), B.stream \o B.events)'
      BY <1>6, <2>8, <2>10 DEF Answered, State
    <3>4. TimingOut'
      BY <1>2, <1>3, <1>4, <1>6, <1>7, <2>10, <3>2, <3>3 DEF TimingOut, SourcesOf, Idle
    <3> QED
      BY <1>4, <1>5, <2>7, <2>10, <3>4
  <2> QED
    BY <2>7, <2>9, <2>10
<1>8. CASE ~B.is_client_waiting /\ pc["W"] \in {"waiting", "done"}
           /\ State(B.events, FALSE, None, B.reply, B.stream) /\ Unwritten({})
  <2>1. PICK queue, answers, sent : queue = B.events /\ answers = B.reply /\ sent = B.stream
    OBVIOUS
  <2>2. pc["W"] = "waiting"
    BY <1>2, <1>8 DEF RespondLabels
  <2>3. /\ State(queue, FALSE, None, answers, sent)' /\ Unwritten({})'
        /\ pc'["W"] = "done" /\ alive' = alive
    BY <1>2, <1>4, <1>8, <2>1, <2>2, NobodyWaits
  <2>4. TimingOut'
    BY <1>2, <1>3, <1>6, <1>8, <2>1, <2>3 DEF TimingOut, SourcesOf, Idle
  <2> QED
    BY <1>2, <1>5, <2>3, <2>4
<1> QED
  BY <1>2, <1>7, <1>8 DEF TimingOut, RespondLabels

LEMMA TimeoutEnds ==
  ASSUME IndType, SerialInv, TimeoutDone
  PROVE  SerialInv' /\ Service!Next
<1>1. Handling /\ TimingOut /\ pc["W"] = "done"
  BY BusyWith DEF TimeoutDone
<1>2. /\ before' = <<>> /\ alive
      /\ UNCHANGED <<connected, events, is_client_waiting, handler, response_writer, timeout_timer,
                     alarm_timer, ready, logical, changes, exchange, written, alive, request, stream, base>>
  BY DEF TimeoutDone, Ends, ppVars, ioVars, sourceVars, httpVars
<1>3. "H" \in Threads /\ "W" \in Threads /\ "idle" \in Labels
  BY DEF Threads, Labels
<1>4. pc'["H"] = "idle" /\ pc'["W"] = "idle" /\ request = None
  BY <1>1, <1>3, GoesOn DEF TimeoutDone, Ends, TimingOut, Idle, SerialInv
<1>5. before = <<B>> /\ Settled(B) /\ Shown = B /\ Shown' = Now'
  BY <1>1, <1>2, ShownState DEF Handling, Shown
<1>6. /\ job \in Service!Completion /\ job.kind = "timeout" /\ connected
      /\ logical = B.logical /\ changes = B.changes
  BY <1>1 DEF TimingOut, SourcesOf
<1>7. Reply' = Reply
  BY <1>2 DEF Reply
<1>8. /\ Now'.events = events /\ Now'.stream = stream /\ Now'.is_client_waiting = is_client_waiting
      /\ Now'.response_writer = response_writer /\ Now'.logical = B.logical
      /\ Now'.changes = B.changes /\ Now'.reply = Reply
  BY <1>2, <1>6, <1>7 DEF Now
<1>9. /\ is_client_waiting = FALSE /\ response_writer = None /\ Unwritten({})
      /\ \/ /\ B.is_client_waiting
            /\ events = <<>> /\ stream = B.stream \o B.events /\ Reply = AnswersWith(B.events)
         \/ /\ ~B.is_client_waiting
            /\ events = B.events /\ stream = B.stream /\ Reply = B.reply
  BY <1>1 DEF TimingOut, State, Answering
<1>10. AnswersWith(B.events) = [B.reply EXCEPT ![B.response_writer] = Service!PullMessagesResponse(B.events)]
  BY DEF AnswersWith
<1>11. /\ Service!PullMessagesResponse(B.events) \in Service!Reply
       /\ Service!PullMessagesResponse(B.events) # Service!Open
  BY <1>5, RepliesAreTyped DEF Settled, Service!PullMessagesResponse, Service!Open, Service!Plain
<1>12. Reply \in [Requests -> Service!Reply] /\ \A q \in Requests : Reply[q] # Service!Open
  <2>1. CASE B.is_client_waiting
    BY <1>5, <1>9, <1>10, <1>11, <2>1 DEF Settled
  <2>2. CASE ~B.is_client_waiting
    BY <1>5, <1>9, <2>2 DEF Settled
  <2> QED
    BY <2>1, <2>2
<1>13. events \in Seq(Service!Message) /\ stream \in Seq(Service!Message)
  BY DEF IndType, TypeOK
<1>14. Settled(Now)'
  BY <1>2, <1>5, <1>8, <1>9, <1>12, <1>13 DEF Settled
<1>15. SerialInv'
  BY <1>2, <1>4, <1>6, <1>9, <1>14 DEF SerialInv, Resting, Idle, Threads, TimeoutsOfPullPoint, Unwritten
<1>16. Service!PullTimeout(PullPoint)
  <2>1. ReadyShown = <<job>> \o ready /\ ReadyShown' = ready
    BY <1>1, <1>2, <1>4 DEF ReadyShown, Idle
  <2>2. ReadyShown # <<>> /\ Head(ReadyShown) = job /\ ReadyShown' = Tail(ReadyShown)
    BY <1>6, <2>1, PrefixedQueue DEF IndType, TypeOK
  <2>3. job.owner = PullPoint
    BY <1>6 DEF Service!Completion
  <2>4. Service!AnswerWaiter(PullPoint)
    <3>1. /\ Of(B.is_client_waiting)[PullPoint] = B.is_client_waiting
          /\ Of(B.response_writer)[PullPoint] = B.response_writer
          /\ Of(B.events)[PullPoint] = B.events
          /\ Of(events)' = Of(events) /\ Of(stream)' = Of(stream)
          /\ Of(is_client_waiting)' = Of(FALSE) /\ Of(response_writer)' = Of(None)
          /\ Of(timeout_timer)' = Of(timeout_timer) /\ Of(base)' = Of(base)
      BY <1>2, <1>9 DEF Of
    <3>2. CASE B.is_client_waiting
      <4>1. events = <<>> /\ stream = B.stream \o B.events /\ Reply = AnswersWith(B.events)
        BY <1>9, <3>2
      <4>2. /\ Of(<<>>) = [Of(B.events) EXCEPT ![PullPoint] = <<>>]
            /\ Of(stream) = [Of(B.stream) EXCEPT ![PullPoint] = @ \o B.events]
            /\ Of(FALSE) = [Of(B.is_client_waiting) EXCEPT ![PullPoint] = FALSE]
            /\ Of(None) = [Of(B.response_writer) EXCEPT ![PullPoint] = None]
        BY <4>1 DEF Of
      <4> QED
        BY <1>2, <1>5, <1>8, <1>9, <1>10, <3>1, <3>2, <4>1, <4>2
        DEF Service!AnswerWaiter, Service!SwappedOut, Service!StopsWaiting, Service!alarmVars, Of
    <3>3. CASE ~B.is_client_waiting
      <4>1. /\ events = B.events /\ stream = B.stream /\ Reply = B.reply
            /\ B.is_client_waiting = FALSE /\ B.response_writer = None
        BY <1>5, <1>9, <3>3 DEF Settled
      <4> QED
        BY <1>2, <1>5, <1>8, <1>9, <3>1, <3>3, <4>1
        DEF Service!AnswerWaiter, Service!alarmVars, Of
    <3> QED
      BY <3>2, <3>3
  <2> QED
    BY <1>2, <1>6, <2>2, <2>3, <2>4, FoundOnceConnected DEF Service!PullTimeout, ReadyShown
<1> QED
  BY <1>15, <1>16 DEF Service!Next, Service!RunReady

-----------------------------------------------------------------------------
(* An alarm's handler.                                                     *)

LEMMA AlarmFacts ==
  ASSUME IndType, SerialInv, Alarming
  PROVE  /\ Handling /\ before = <<B>> /\ Settled(B)
         /\ pc["H"] = "idle" /\ pc["W"] # "idle" /\ request = None
         /\ job.owner \in Generators
         /\ job = Service!Alarm(job.owner)
         /\ todo["W"] \in Seq(Sources)
         /\ Signals[job.owner] \in Seq(Sources)
<1>1. pc["W"] # "idle"
  BY DEF Alarming, AlarmUnheard, AlarmQueued, AlarmFirst, AlarmAnswering, AlarmAnswered, Answering
<1>2. Handling /\ pc["H"] = "idle"
  BY <1>1, BusyThread
<1>3. before = <<B>> /\ Settled(B) /\ request = None
  BY <1>2 DEF Handling, SerialInv, Idle
<1>4. job \in Service!Completion /\ job.kind = "alarm"
  BY DEF Alarming
<1>5. job \in [kind : {"alarm"}, owner : Generators]
  BY <1>4 DEF Service!Completion
<1>6. job.owner \in Generators /\ job = Service!Alarm(job.owner)
  BY <1>5 DEF Service!Alarm
<1>7. todo["W"] \in Seq(Sources)
  BY DEF IndType, TypeOK, Threads
<1> QED
  BY <1>1, <1>2, <1>3, <1>6, <1>7, ThreadsAssumption

LEMMA StillAlarming ==
  ASSUME IndType, SerialInv, Alarming,
         UNCHANGED <<connected, before, timeout_timer, alarm_timer, ready, job, base, alive, request>>,
         pc'["H"] = pc["H"], pc'["W"] # "idle",
         NEW g \in Generators, g = job.owner,
         Inversion(g)',
         \/ AlarmUnheard' \/ AlarmQueued(g)' \/ AlarmFirst(g)'
         \/ AlarmAnswering(g)' \/ AlarmAnswered(g)'
  PROVE  SerialInv' /\ UNCHANGED Service!vars
<1>1. /\ Handling /\ pc["H"] = "idle" /\ pc["W"] # "idle" /\ request = None
      /\ job \in Service!Completion /\ job.kind = "alarm" /\ TimeoutsOfPullPoint /\ alive
  BY AlarmFacts DEF Alarming, SerialInv
<1>2. Idle("W")' = Idle("W")
  BY <1>1 DEF Idle
<1>3. (before = <<B>>)' /\ Settled(B)' /\ TimeoutsOfPullPoint' /\ UNCHANGED Service!vars
  BY <1>1, <1>2, StaysInside
<1>4. g = job'.owner
  OBVIOUS
<1>5. Alarming'
  BY <1>1, <1>4 DEF Alarming, Idle
<1> QED
  BY <1>1, <1>3, <1>5 DEF SerialInv, Handling

\* Inversion does not say in which statement of the loop the thread is.
LEMMA InversionKeeps ==
  ASSUME NEW g \in Generators, Inversion(g), before = <<B>>, before' = before,
         UNCHANGED <<todo, logical, changes>>, pc["W"] # "push", pc'["W"] # "push"
  PROVE  Inversion(g)'
<1>1. B' = B /\ Pending' = Pending
  BY DEF B, Pending
<1> QED
  BY <1>1 DEF Inversion, Service!Inverted

LEMMA AlarmResponds ==
  ASSUME IndType, SerialInv, Respond("W"), Alarming
  PROVE  SerialInv' /\ UNCHANGED Service!vars
<1>1. "H" \in Threads /\ "W" \in Threads
  BY DEF Threads
<1>2. /\ UNCHANGED <<connected, handler, timeout_timer, alarm_timer, ready, logical, changes,
                     request, job, todo, base, before>>
      /\ pc'["H"] = pc["H"] /\ pc["W"] \in RespondLabels /\ alive
  BY <1>1, RespondFrame
<1>3. PICK g \in Generators : g = job.owner
  BY AlarmFacts
<1>4. /\ Handling /\ before = <<B>> /\ Settled(B) /\ request = None
      /\ todo["W"] \in Seq(Sources) /\ Signals[g] \in Seq(Sources)
  BY <1>3, AlarmFacts
<1>5. After("W") = "signal"
  BY DEF Alarming, After
<1>6. /\ B' = B /\ Service!Burst(g)' = Service!Burst(g) /\ Service!Burst(g) = BurstRest(Signals[g])
      /\ BurstRest(todo["W"])' = BurstRest(todo["W"])
  <2>1. B' = B /\ Service!Burst(g)' = Service!Burst(g)
    BY <1>2, <1>4, SameBefore
  <2> QED
    BY <1>2, <1>4, <2>1, BurstOfBefore DEF BurstRest, BurstMessage
<1>7. ASSUME alive', pc'["W"] \in RespondLabels \cup {"signal"},
             AlarmQueued(g)' \/ AlarmAnswering(g)' \/ AlarmAnswered(g)'
      PROVE  SerialInv' /\ UNCHANGED Service!vars
  <2>1. pc["W"] # "push" /\ pc'["W"] # "push" /\ pc'["W"] # "idle" /\ alive' = alive
    BY <1>2, <1>7 DEF RespondLabels
  <2>2. Inversion(g)'
    BY <1>2, <1>3, <1>4, <2>1, InversionKeeps DEF Alarming
  <2> QED
    BY <1>2, <1>3, <1>7, <2>1, <2>2, StillAlarming
<1>8. CASE AlarmQueued(g) \/ AlarmAnswered(g)
  <2>1. PICK queue, answers, sent :
          /\ pc["W"] = "waiting"
          /\ State(queue, FALSE, None, answers, sent) /\ Unwritten({})
          /\ queue = events
          /\ \/ /\ AlarmQueued(g) /\ answers = B.reply /\ sent = B.stream
             \/ /\ AlarmAnswered(g) /\ answers = AnswersWith(First(g)) /\ sent = B.stream \o First(g)
    BY <1>2, <1>8 DEF AlarmQueued, AlarmAnswered, RespondLabels
  <2>2. /\ State(queue, FALSE, None, answers, sent)' /\ Unwritten({})'
        /\ pc'["W"] = "signal" /\ alive' = alive
    BY <1>2, <1>5, <2>1, NobodyWaits
  <2>3. events' = events /\ AnswersWith(First(g))' = AnswersWith(First(g)) /\ First(g)' = First(g)
    BY <1>6, <2>1, <2>2 DEF State, First, AnswersWith
  <2>4. AlarmQueued(g)' \/ AlarmAnswered(g)'
    <3>1. CASE AlarmQueued(g) /\ answers = B.reply /\ sent = B.stream
      BY <1>2, <1>6, <2>2, <2>3, <3>1 DEF AlarmQueued, State
    <3>2. CASE AlarmAnswered(g) /\ answers = AnswersWith(First(g)) /\ sent = B.stream \o First(g)
      BY <1>2, <1>6, <2>2, <2>3, <3>2 DEF AlarmAnswered, State
    <3> QED
      BY <2>1, <3>1, <3>2
  <2> QED
    BY <1>2, <1>7, <2>2, <2>4
<1>9. CASE AlarmAnswering(g)
  <2>1. PICK w \in Requests : w = B.response_writer
    BY <1>4, <1>9 DEF Settled, AlarmAnswering
  <2>2. PICK msgs : msgs = First(g)
    OBVIOUS
  <2>3. PICK held : held = B.reply
    OBVIOUS
  <2>4. PICK released : released = AnswersWith(msgs)
    OBVIOUS
  <2>5. held[w] = Service!Open /\ Answering("W", w, msgs, held, released)
    BY <1>4, <1>9, <2>1, <2>2, <2>3, <2>4 DEF Settled, AlarmAnswering
  <2>6. ASSUME pc["W"] = "reset" PROVE Reply' = released
    <3>1. Reply = B.reply /\ Wrote(w, msgs)
      BY <2>3, <2>5, <2>6 DEF Answering, State
    <3>2. Reply' = [B.reply EXCEPT ![w] = Service!PullMessagesResponse(msgs)]
      BY <1>4, <1>9, <2>1, <2>6, <3>1, WaiterIsAnswered DEF AlarmAnswering
    <3> QED
      BY <2>1, <2>4, <3>2 DEF AnswersWith
  <2>7. /\ alive'
        /\ \/ Answering("W", w, msgs, held, released)' /\ pc'["W"] \in RespondLabels
           \/ Answered(w, msgs, released)' /\ pc'["W"] = After("W")
    BY <1>1, <1>4, <2>5, <2>6, AnsweringGoesOn
  <2>8. /\ First(g)' = msgs /\ AnswersWith(First(g))' = released
        /\ B'.response_writer = w /\ B'.reply = held
    BY <1>6, <2>1, <2>2, <2>3, <2>4 DEF AnswersWith, First
  <2>9. CASE Answering("W", w, msgs, held, released)' /\ pc'["W"] \in RespondLabels
    <3>1. Answering("W", B.response_writer, First(g), B.reply, AnswersWith(First(g)))'
      BY <2>8, <2>9
    <3>2. AlarmAnswering(g)'
      BY <1>2, <1>6, <1>9, <3>1 DEF AlarmAnswering
    <3> QED
      BY <1>7, <2>7, <2>9, <3>2
  <2>10. CASE Answered(w, msgs, released)' /\ pc'["W"] = After("W")
    <3>1. Reply'[w] = Service!PullMessagesResponse(msgs)
      BY <1>4, <2>1, <2>4, <2>10 DEF Answered, State, AnswersWith, Settled
    <3>2. Unwritten({})'
      BY <2>10, <3>1, AnsweredIsSent DEF Answered
    <3>3. State(events, FALSE, None, AnswersWith(First(g)), B.stream \o First(g))' /\ events' = <<>>
      BY <1>6, <2>8, <2>10 DEF Answered, State
    <3>4. (events \o BurstRest(todo["W"]))' = Tail(Service!Burst(g))'
      <4>1. todo["W"] = Tail(Signals[g]) /\ Signals[g] # <<>>
        BY <1>9 DEF AlarmAnswering
      <4>2. BurstRest(todo["W"]) = Tail(BurstRest(Signals[g])) /\ BurstRest(todo["W"]) \in Seq(Service!Message)
        BY <1>4, <4>1, BurstRestFacts
      <4>3. <<>> \o BurstRest(todo["W"]) = BurstRest(todo["W"])
        BY <4>2, ConcatEmptySeq
      <4> QED
        BY <1>6, <3>3, <4>2, <4>3
    <3>5. AlarmAnswered(g)'
      BY <1>2, <1>5, <1>6, <1>9, <2>10, <3>2, <3>3, <3>4 DEF AlarmAnswered, AlarmAnswering
    <3> QED
      BY <1>5, <1>7, <2>7, <2>10, <3>5
  <2> QED
    BY <2>7, <2>9, <2>10
<1> QED
  BY <1>2, <1>3, <1>8, <1>9 DEF Alarming, AlarmUnheard, AlarmFirst, RespondLabels

\* InvertState() of the head of todo: it is one of those that Inversion lists.
LEMMA AlarmInverts ==
  ASSUME IndType, SerialInv, GenerateEvent, todo["W"] # <<>>
  PROVE  SerialInv' /\ UNCHANGED Service!vars
<1> DEFINE s == Head(todo["W"])
<1>1. Alarming /\ ~AlarmAnswering(job.owner) /\ pc["W"] = "signal"
  BY BusyWith DEF GenerateEvent
<1>2. PICK g \in Generators : g = job.owner
  BY <1>1, AlarmFacts
<1>3. /\ before = <<B>> /\ Settled(B)
      /\ todo["W"] \in Seq(Sources) /\ Signals[g] \in Seq(Sources)
  BY <1>1, <1>2, AlarmFacts
<1>4. /\ logical' = [logical EXCEPT ![s] = ~@]
      /\ changes' = [changes EXCEPT ![s] = @ + 1]
      /\ Goes("W", "push") /\ alive
      /\ UNCHANGED <<connected, events, is_client_waiting, handler, response_writer, timeout_timer,
                     alarm_timer, ready, exchange, written, alive, request, job, todo, copied, stream,
                     base, before>>
  BY DEF GenerateEvent, ppVars, httpVars
<1>5. pc'["W"] = "push" /\ pc'["H"] = pc["H"]
  BY <1>4, GoesOn DEF Threads, Labels
<1>6. B' = B /\ Service!Burst(g)' = Service!Burst(g)
  BY <1>3, <1>4, SameBefore
<1>7. /\ s \in Sources /\ s \in Range(todo["W"]) /\ Tail(todo["W"]) \in Seq(Sources)
      /\ Range(Tail(todo["W"])) = Range(todo["W"]) \ {s}
  BY <1>1, <1>2, <1>3, TailElements, TailDistinct, HeadTailProperties DEF Alarming, Inversion
<1>8. Inversion(g)'
  <2>1. Inversion(g) /\ Pending = todo["W"]
    BY <1>1, <1>2 DEF Alarming, Pending
  <2>2. Pending' = Tail(todo["W"])
    BY <1>4, <1>5 DEF Pending
  <2>3. Service!Inverted(g)' = Service!Inverted(g)
    BY DEF Service!Inverted
  <2>4. s \in Service!Inverted(g) /\ s \in Range(Pending) /\ s \notin Range(Tail(todo["W"]))
    BY <1>7, <2>1 DEF Inversion
  <2>5. logical \in [Sources -> BOOLEAN] /\ changes \in [Sources -> Nat]
    BY DEF IndType, TypeOK
  <2>6. ASSUME NEW x \in Sources
        PROVE  IF x \in Service!Inverted(g) \ Range(Tail(todo["W"]))
               THEN logical'[x] = ~B.logical[x] /\ changes'[x] = B.changes[x] + 1
               ELSE logical'[x] = B.logical[x] /\ changes'[x] = B.changes[x]
    <3>1. CASE x = s
      <4>1. logical[x] = B.logical[x] /\ changes[x] = B.changes[x]
        BY <1>7, <2>1, <2>4, <3>1 DEF Inversion
      <4>2. logical'[x] = ~logical[x] /\ changes'[x] = changes[x] + 1
        BY <1>4, <2>5, <3>1
      <4> QED
        BY <2>4, <3>1, <4>1, <4>2
    <3>2. CASE x # s
      <4>1. logical'[x] = logical[x] /\ changes'[x] = changes[x]
        BY <1>4, <2>5, <3>2
      <4>2. x \in Range(Pending) <=> x \in Range(Tail(todo["W"]))
        BY <1>7, <2>1, <3>2
      <4>3. IF x \in Service!Inverted(g) \ Range(Pending)
            THEN logical[x] = ~B.logical[x] /\ changes[x] = B.changes[x] + 1
            ELSE logical[x] = B.logical[x] /\ changes[x] = B.changes[x]
        BY <2>1 DEF Inversion
      <4> QED
        BY <4>1, <4>2, <4>3
    <3> QED
      BY <3>1, <3>2
  <2> HIDE DEF s
  <2> QED
    BY <1>4, <1>6, <2>1, <2>2, <2>3, <2>6 DEF Inversion
<1>9. \/ AlarmUnheard' \/ AlarmQueued(g)' \/ AlarmFirst(g)'
      \/ AlarmAnswering(g)' \/ AlarmAnswered(g)'
  <2>1. BurstRest(todo["W"])' = BurstRest(todo["W"]) /\ First(g)' = First(g) /\ Reply' = Reply
    BY <1>4, <1>6 DEF BurstRest, BurstMessage, First, Reply
  <2>2. AnswersWith(First(g))' = AnswersWith(First(g))
    BY <1>6, <2>1 DEF AnswersWith
  <2>3. CASE AlarmUnheard
    BY <1>4, <1>5, <1>6, <2>1, <2>3 DEF AlarmUnheard, State, Unwritten
  <2>4. CASE AlarmQueued(g)
    BY <1>4, <1>5, <1>6, <2>1, <2>4 DEF AlarmQueued, State, Unwritten
  <2>5. CASE AlarmFirst(g)
    BY <1>4, <1>5, <1>6, <2>1, <2>5 DEF AlarmFirst, State, Unwritten
  <2>6. CASE AlarmAnswered(g)
    BY <1>4, <1>5, <1>6, <2>1, <2>2, <2>6 DEF AlarmAnswered, State, Unwritten
  <2> QED
    BY <1>1, <1>2, <2>3, <2>4, <2>5, <2>6 DEF Alarming
<1>10. pc'["W"] # "idle"
  BY <1>5
<1> QED
  BY <1>1, <1>2, <1>4, <1>5, <1>8, <1>9, <1>10, StillAlarming

\* Notify: the message is the next one of the burst.
LEMMA AlarmNotifies ==
  ASSUME IndType, SerialInv, Notify
  PROVE  SerialInv' /\ UNCHANGED Service!vars
<1> DEFINE s == Head(todo["W"])
<1>1. Alarming /\ ~AlarmAnswering(job.owner) /\ pc["W"] = "push" /\ todo["W"] # <<>>
  BY BusyWith DEF Notify, IndType
<1>2. PICK g \in Generators : g = job.owner
  BY <1>1, AlarmFacts
<1>3. /\ before = <<B>> /\ Settled(B)
      /\ todo["W"] \in Seq(Sources) /\ Signals[g] \in Seq(Sources)
  BY <1>1, <1>2, AlarmFacts
<1>4. /\ todo' = [todo EXCEPT !["W"] = Tail(@)] /\ alive
      /\ UNCHANGED <<connected, is_client_waiting, handler, response_writer, timeout_timer,
                     alarm_timer, ready, logical, changes, exchange, written, alive, request, job,
                     copied, stream, base, before>>
  BY DEF Notify, ioVars, sourceVars, httpVars
<1>5. /\ pc'["W"] = IF connected THEN "waiting" ELSE "signal"
      /\ pc'["H"] = pc["H"]
      /\ events' = IF connected THEN Append(events, ChangedMessage(s)) ELSE events
  <2>1. CASE connected
    BY <2>1, GoesOn DEF Notify, Threads, Labels
  <2>2. CASE ~connected
    BY <2>2, GoesOn DEF Notify, Threads, Labels
  <2> QED
    BY <2>1, <2>2
<1>6. B' = B /\ Service!Burst(g)' = Service!Burst(g) /\ Service!Burst(g) = BurstRest(Signals[g])
  BY <1>3, <1>4, SameBefore, BurstOfBefore
<1>7. /\ s \in Sources /\ s \in Range(todo["W"]) /\ Tail(todo["W"]) \in Seq(Sources)
      /\ IsInjective(Tail(todo["W"]))
      /\ Range(Tail(todo["W"])) = Range(todo["W"]) \ {s}
  BY <1>1, <1>2, <1>3, TailElements, TailDistinct, HeadTailProperties DEF Alarming, Inversion
<1>8. todo'["W"] = Tail(todo["W"])
  BY <1>4 DEF IndType, TypeOK, Threads
<1>9. Inversion(g) /\ Pending = Tail(todo["W"]) /\ Pending' = Tail(todo["W"])
  BY <1>1, <1>2, <1>5, <1>8 DEF Alarming, Pending
<1>10. Inversion(g)'
  BY <1>4, <1>6, <1>7, <1>8, <1>9 DEF Inversion, Service!Inverted
<1>11. ChangedMessage(s) = BurstMessage(s)
  <2>1. s \in Service!Inverted(g) \ Range(Pending)
    BY <1>7, <1>9 DEF Inversion
  <2>2. logical[s] = ~B.logical[s] /\ changes[s] = B.changes[s] + 1
    BY <1>7, <1>9, <2>1 DEF Inversion
  <2> QED
    BY <2>2 DEF ChangedMessage, BurstMessage
<1>12. /\ BurstRest(todo["W"]) \in Seq(Service!Message) /\ BurstRest(todo["W"]) # <<>>
       /\ Head(BurstRest(todo["W"])) = BurstMessage(s)
       /\ Tail(BurstRest(todo["W"])) = BurstRest(Tail(todo["W"]))
  BY <1>1, <1>3, BurstRestFacts
<1>13. BurstRest(todo["W"])' = BurstRest(Tail(todo["W"]))
  BY <1>6, <1>8 DEF BurstRest, BurstMessage
<1>14. connected => (events \o BurstRest(todo["W"]))' = events \o BurstRest(todo["W"])
  <2>1. events \in Seq(Service!Message)
    BY DEF IndType, TypeOK
  <2>2. Append(events, Head(BurstRest(todo["W"]))) \o Tail(BurstRest(todo["W"]))
          = events \o BurstRest(todo["W"])
    BY <1>12, <2>1, ConcatMovesHead
  <2> QED
    BY <1>5, <1>11, <1>12, <1>13, <2>2
<1>15. Reply' = Reply /\ First(g)' = First(g) /\ AnswersWith(First(g))' = AnswersWith(First(g))
  BY <1>4, <1>6 DEF Reply, First, AnswersWith
<1>16. \/ AlarmUnheard' \/ AlarmQueued(g)' \/ AlarmFirst(g)'
       \/ AlarmAnswering(g)' \/ AlarmAnswered(g)'
  <2> HIDE DEF s
  <2>1. CASE AlarmUnheard
    BY <1>4, <1>5, <1>6, <1>15, <2>1 DEF AlarmUnheard, State, Unwritten
  <2>2. CASE AlarmQueued(g)
    BY <1>4, <1>5, <1>6, <1>14, <1>15, <2>2 DEF AlarmQueued, State, Unwritten
  <2>3. CASE AlarmFirst(g)
    <3>1. /\ B.is_client_waiting /\ handler # None /\ todo["W"] = Signals[g]
          /\ State(B.events, TRUE, B.response_writer, B.reply, B.stream) /\ Unwritten({})
      BY <2>3 DEF AlarmFirst
    <3>2. connected
      BY <1>3, <3>1 DEF Settled
    <3>3. Head(Service!Burst(g)) = BurstMessage(s)
      BY <1>6, <1>12, <3>1
    <3>4. events' = First(g)
      BY <1>5, <1>11, <3>1, <3>2, <3>3 DEF First, State
    <3>5. State(First(g), TRUE, B.response_writer, B.reply, B.stream)'
      BY <1>4, <1>6, <1>15, <3>1, <3>4 DEF State
    <3>6. Answering("W", B.response_writer, First(g), B.reply, AnswersWith(First(g)))'
      BY <1>4, <1>5, <3>1, <3>2, <3>5 DEF Answering, Unwritten
    <3> QED
      BY <1>1, <1>6, <1>8, <3>1, <3>6 DEF AlarmAnswering
  <2>4. CASE AlarmAnswered(g)
    <3>1. connected
      BY <1>3, <2>4 DEF Settled, AlarmAnswered
    <3> QED
      BY <1>4, <1>5, <1>6, <1>14, <1>15, <2>4, <3>1 DEF AlarmAnswered, State, Unwritten
  <2> QED
    BY <1>1, <1>2, <2>1, <2>2, <2>3, <2>4 DEF Alarming
<1>17. pc'["W"] # "idle"
  BY <1>5
<1> QED
  BY <1>1, <1>2, <1>4, <1>5, <1>10, <1>16, <1>17, StillAlarming

\* What the loop over the sources of g has done when it ends.
LEMMA BurstIsComplete ==
  ASSUME IndType, SerialInv, Alarming, pc["W"] = "signal", todo["W"] = <<>>,
         NEW g \in Generators, g = job.owner
  PROVE  /\ logical = [s \in Sources |-> IF s \in Service!Inverted(g) THEN ~B.logical[s] ELSE B.logical[s]]
         /\ changes = [s \in Sources |-> IF s \in Service!Inverted(g) THEN B.changes[s] + 1 ELSE B.changes[s]]
         /\ Service!Burst(g) \in Seq(Service!Message)
         /\ \/ /\ Service!Answers(PullPoint, Service!Burst(g)) /\ connected
               /\ B.is_client_waiting /\ Service!Burst(g) # <<>>
               /\ State(Tail(Service!Burst(g)), FALSE, None, AnswersWith(First(g)), B.stream \o First(g))
            \/ /\ ~Service!Answers(PullPoint, Service!Burst(g))
               /\ State(IF connected THEN B.events \o Service!Burst(g) ELSE B.events,
                        B.is_client_waiting, B.response_writer, B.reply, B.stream)
               /\ B.is_client_waiting => handler # None
         /\ Unwritten({})
<1>1. /\ before = <<B>> /\ Settled(B) /\ Shown = B
      /\ todo["W"] \in Seq(Sources) /\ Signals[g] \in Seq(Sources)
  BY AlarmFacts, ShownState
<1>2. Inversion(g) /\ Pending = <<>>
  BY DEF Alarming, Pending
<1>3. Range(<<>>) = {}
  BY DEF Range
<1>4. logical \in [Sources -> BOOLEAN] /\ changes \in [Sources -> Nat]
  BY DEF IndType, TypeOK
<1>5. \A s \in Sources :
        /\ logical[s] = IF s \in Service!Inverted(g) THEN ~B.logical[s] ELSE B.logical[s]
        /\ changes[s] = IF s \in Service!Inverted(g) THEN B.changes[s] + 1 ELSE B.changes[s]
  BY <1>2, <1>3 DEF Inversion
<1>6. /\ logical = [s \in Sources |-> IF s \in Service!Inverted(g) THEN ~B.logical[s] ELSE B.logical[s]]
      /\ changes = [s \in Sources |-> IF s \in Service!Inverted(g) THEN B.changes[s] + 1 ELSE B.changes[s]]
  BY <1>4, <1>5
<1>7. PICK burst : burst = Service!Burst(g)
  OBVIOUS
<1>8. /\ burst \in Seq(Service!Message) /\ (burst = <<>> <=> Signals[g] = <<>>)
      /\ BurstRest(todo["W"]) = <<>>
  BY <1>1, <1>7, BurstOfBefore, BurstRestFacts
<1>9. events \in Seq(Service!Message) /\ events \o BurstRest(todo["W"]) = events
  BY <1>8, ConcatEmptySeq DEF IndType, TypeOK
<1>10. Service!Answers(PullPoint, burst) <=> PullPoint \in Service!Live /\ B.is_client_waiting /\ burst # <<>>
  BY <1>1 DEF Service!Answers, Of
<1>11. Service!Live = IF connected THEN {PullPoint} ELSE {}
  <2>1. CASE connected
    BY <2>1, FoundOnceConnected
  <2>2. CASE ~connected
    BY <2>2 DEF Service!Live, Service!Range
  <2> QED
    BY <2>1, <2>2
<1>12. \/ /\ Service!Answers(PullPoint, burst) /\ connected
          /\ B.is_client_waiting /\ burst # <<>>
          /\ State(Tail(burst), FALSE, None, AnswersWith(First(g)), B.stream \o First(g))
          /\ Unwritten({})
       \/ /\ ~Service!Answers(PullPoint, burst)
          /\ State(IF connected THEN B.events \o burst ELSE B.events,
                   B.is_client_waiting, B.response_writer, B.reply, B.stream)
          /\ B.is_client_waiting => handler # None
          /\ Unwritten({})
  <2>1. CASE AlarmUnheard
    <3>1. B.is_client_waiting = FALSE /\ B.response_writer = None
      BY <1>1, <2>1 DEF AlarmUnheard, Settled
    <3> QED
      BY <1>10, <1>11, <2>1, <3>1 DEF AlarmUnheard
  <2>2. CASE AlarmQueued(g)
    <3>1. B.is_client_waiting = FALSE /\ B.response_writer = None
      BY <1>1, <2>2 DEF AlarmQueued, Settled
    <3>2. events = B.events \o burst
      BY <1>7, <1>9, <2>2 DEF AlarmQueued
    <3> QED
      BY <1>10, <2>2, <3>1, <3>2 DEF AlarmQueued, State
  <2>3. CASE AlarmFirst(g)
    <3>1. burst = <<>> /\ connected /\ B.is_client_waiting = TRUE
      BY <1>1, <1>8, <2>3 DEF AlarmFirst, Settled
    <3>2. B.events \o burst = B.events
      BY <1>1, <3>1, ConcatEmptySeq DEF Settled
    <3> QED
      BY <1>10, <2>3, <3>1, <3>2 DEF AlarmFirst
  <2>4. CASE AlarmAnswered(g)
    <3>1. burst # <<>> /\ connected /\ B.is_client_waiting
      BY <1>1, <1>8, <2>4 DEF AlarmAnswered, Settled
    <3>2. events = Tail(burst)
      BY <1>7, <1>9, <2>4 DEF AlarmAnswered
    <3> QED
      BY <1>10, <1>11, <2>4, <3>1, <3>2 DEF AlarmAnswered, State
  <2> QED
    BY <2>1, <2>2, <2>3, <2>4, BusyWith DEF Alarming
<1> QED
  BY <1>6, <1>7, <1>8, <1>12

LEMMA AlarmEnds ==
  ASSUME IndType, SerialInv, GenerateEvent, todo["W"] = <<>>
  PROVE  SerialInv' /\ Service!Next
<1>1. Alarming /\ pc["W"] = "signal"
  BY BusyWith DEF GenerateEvent
<1>2. PICK g \in Generators : g = job.owner
  BY <1>1, AlarmFacts
<1>3. /\ before = <<B>> /\ Settled(B) /\ pc["H"] = "idle" /\ request = None
      /\ job = Service!Alarm(g) /\ job \in Service!Completion
  BY <1>1, <1>2, AlarmFacts DEF Alarming
<1>4. PICK burst : burst = Service!Burst(g)
  OBVIOUS
<1>5. PICK all : all = First(g)
  OBVIOUS
<1>6. /\ logical = [s \in Sources |-> IF s \in Service!Inverted(g) THEN ~B.logical[s] ELSE B.logical[s]]
      /\ changes = [s \in Sources |-> IF s \in Service!Inverted(g) THEN B.changes[s] + 1 ELSE B.changes[s]]
      /\ burst \in Seq(Service!Message)
      /\ \/ /\ Service!Answers(PullPoint, burst) /\ connected
            /\ B.is_client_waiting /\ burst # <<>>
            /\ State(Tail(burst), FALSE, None, AnswersWith(all), B.stream \o all)
         \/ /\ ~Service!Answers(PullPoint, burst)
            /\ State(IF connected THEN B.events \o burst ELSE B.events,
                     B.is_client_waiting, B.response_writer, B.reply, B.stream)
            /\ B.is_client_waiting => handler # None
      /\ Unwritten({})
  BY <1>1, <1>2, <1>4, <1>5, BurstIsComplete
<1>7. /\ alarm_timer' = [alarm_timer EXCEPT ![g] = TRUE] /\ job' = None
      /\ before' = <<>> /\ alive
      /\ UNCHANGED <<connected, events, is_client_waiting, handler, response_writer, timeout_timer,
                     ready, logical, changes, exchange, written, alive, request, stream, base>>
  BY <1>2 DEF GenerateEvent, Ends, ppVars, sourceVars, httpVars
<1>8. pc'["H"] = "idle" /\ pc'["W"] = "idle"
  BY <1>3, GoesOn DEF GenerateEvent, Ends, Threads, Labels
<1>9. Shown = B /\ Shown' = Now' /\ Reply' = Reply
  BY <1>3, <1>7, ShownState DEF Shown, Reply
<1>10. /\ Now'.events = events /\ Now'.stream = stream /\ Now'.is_client_waiting = is_client_waiting
       /\ Now'.response_writer = response_writer /\ Now'.logical = logical
       /\ Now'.changes = changes /\ Now'.reply = Reply
  BY <1>7, <1>9 DEF Now
<1>11. /\ events \in Seq(Service!Message) /\ stream \in Seq(Service!Message)
       /\ logical \in [Sources -> BOOLEAN] /\ changes \in [Sources -> Nat]
  BY DEF IndType, TypeOK
<1>12. Service!Answers(PullPoint, burst) => all = Append(B.events, Head(burst)) /\ all \in Seq(Service!Message)
  <2>1. all = Append(B.events, Head(burst))
    BY <1>4, <1>5 DEF First
  <2>2. burst # <<>> => Head(burst) \in Service!Message
    BY <1>6, HeadTailProperties
  <2> QED
    BY <1>3, <1>6, <2>1, <2>2, AppendProperties DEF Settled
<1>13. Settled(Now)' /\ (is_client_waiting => handler # None)'
  <2>1. CASE Service!Answers(PullPoint, burst)
    <3>1. /\ is_client_waiting = FALSE /\ response_writer = None
          /\ Reply = [B.reply EXCEPT ![B.response_writer] = Service!PullMessagesResponse(all)]
          /\ B.is_client_waiting = TRUE
      BY <1>3, <1>6, <2>1 DEF State, AnswersWith, Settled
    <3>2. /\ Service!PullMessagesResponse(all) \in Service!Reply
          /\ Service!PullMessagesResponse(all) # Service!Open
      BY <1>12, <2>1, RepliesAreTyped DEF Service!PullMessagesResponse, Service!Open, Service!Plain
    <3>3. Reply \in [Requests -> Service!Reply] /\ \A q \in Requests : Reply[q] # Service!Open
      BY <1>3, <3>1, <3>2 DEF Settled
    <3> QED
      BY <1>7, <1>10, <1>11, <3>1, <3>3 DEF Settled
  <2>2. CASE ~Service!Answers(PullPoint, burst)
    <3>1. /\ is_client_waiting = B.is_client_waiting /\ response_writer = B.response_writer
          /\ Reply = B.reply /\ (B.is_client_waiting => handler # None)
      BY <1>6, <2>2 DEF State
    <3> QED
      BY <1>3, <1>7, <1>10, <1>11, <3>1 DEF Settled
  <2> QED
    BY <2>1, <2>2
<1>14. SerialInv'
  BY <1>3, <1>6, <1>7, <1>8, <1>13 DEF SerialInv, Resting, Idle, Threads, TimeoutsOfPullPoint, Unwritten
<1>15. ReadyShown # <<>> /\ Head(ReadyShown) = Service!Alarm(g) /\ ReadyShown' = Tail(ReadyShown)
  <2>1. ReadyShown = <<job>> \o ready /\ ReadyShown' = ready
    BY <1>1, <1>7, <1>8 DEF ReadyShown, Idle
  <2> QED
    BY <1>3, <2>1, PrefixedQueue DEF IndType, TypeOK
<1>16. /\ Of(events)' = [p \in {PullPoint} |-> Service!Queued(p, burst)]
       /\ Of(stream)' = [p \in {PullPoint} |->
                           IF Service!Answers(p, burst) THEN Of(B.stream)[p] \o Service!Sent(p, burst)
                                                        ELSE Of(B.stream)[p]]
       /\ Of(is_client_waiting)' =
            [p \in {PullPoint} |-> Of(B.is_client_waiting)[p] /\ ~Service!Answers(p, burst)]
       /\ Of(response_writer)' =
            [p \in {PullPoint} |-> IF Service!Answers(p, burst) THEN None ELSE Of(B.response_writer)[p]]
  <2>1. /\ Of(B.events)[PullPoint] = B.events /\ Of(B.stream)[PullPoint] = B.stream
        /\ Of(B.is_client_waiting)[PullPoint] = B.is_client_waiting
        /\ Of(B.response_writer)[PullPoint] = B.response_writer
        /\ PullPoint \in Service!Live <=> connected
    BY FoundOnceConnected DEF Of, Service!Live, Service!Range
  <2>2. Service!Sent(PullPoint, burst) = Append(B.events, Head(burst))
    BY <1>9, <2>1 DEF Service!Sent
  <2>3. Service!Queued(PullPoint, burst) =
          IF Service!Answers(PullPoint, burst) THEN Tail(burst)
          ELSE IF connected THEN B.events \o burst ELSE B.events
    BY <1>9, <2>1 DEF Service!Queued
  <2>4. B.is_client_waiting \in BOOLEAN
    BY <1>3 DEF Settled
  <2>5. CASE Service!Answers(PullPoint, burst)
    <3>1. /\ events = Tail(burst) /\ stream = B.stream \o all /\ is_client_waiting = FALSE
          /\ response_writer = None /\ all = Append(B.events, Head(burst))
      BY <1>6, <1>12, <2>5 DEF State
    <3> QED
      BY <1>7, <2>1, <2>2, <2>3, <2>5, <3>1 DEF Of
  <2>6. CASE ~Service!Answers(PullPoint, burst)
    <3>1. /\ events = IF connected THEN B.events \o burst ELSE B.events
          /\ stream = B.stream /\ is_client_waiting = B.is_client_waiting
          /\ response_writer = B.response_writer
      BY <1>6, <2>6 DEF State
    <3> QED
      BY <1>7, <2>1, <2>3, <2>4, <2>6, <3>1 DEF Of
  <2> QED
    BY <2>5, <2>6
<1>17. Reply' =
         [r \in Requests |->
            IF \E p \in {PullPoint} : Service!Answers(p, burst) /\ Of(B.response_writer)[p] = r
            THEN Service!PullMessagesResponse(Service!Sent(CHOOSE p \in {PullPoint} :
                   Service!Answers(p, burst) /\ Of(B.response_writer)[p] = r, burst))
            ELSE B.reply[r]]
  <2>1. Of(B.events)[PullPoint] = B.events /\ Of(B.response_writer)[PullPoint] = B.response_writer
    BY DEF Of
  <2>2. Service!Sent(PullPoint, burst) = Append(B.events, Head(burst))
    BY <1>9, <2>1 DEF Service!Sent
  <2>3. Reply = IF Service!Answers(PullPoint, burst)
                THEN [B.reply EXCEPT ![B.response_writer] = Service!PullMessagesResponse(all)]
                ELSE B.reply
    BY <1>6 DEF State, AnswersWith
  <2>4. B.reply \in [Requests -> Service!Reply] /\ Reply = [r \in Requests |-> Reply[r]]
    BY <1>3 DEF Settled, Reply
  <2>5. ASSUME NEW r \in Requests
        PROVE  Reply[r] =
                 IF \E p \in {PullPoint} : Service!Answers(p, burst) /\ Of(B.response_writer)[p] = r
                 THEN Service!PullMessagesResponse(Service!Sent(CHOOSE p \in {PullPoint} :
                        Service!Answers(p, burst) /\ Of(B.response_writer)[p] = r, burst))
                 ELSE B.reply[r]
    <3>1. CASE Service!Answers(PullPoint, burst) /\ B.response_writer = r
      <4>1. (CHOOSE p \in {PullPoint} : Service!Answers(p, burst) /\ Of(B.response_writer)[p] = r) = PullPoint
        BY <2>1, <3>1
      <4>2. Reply[r] = Service!PullMessagesResponse(all)
        BY <2>3, <2>4, <3>1
      <4> QED
        BY <1>12, <2>1, <2>2, <3>1, <4>1, <4>2
    <3>2. CASE ~(Service!Answers(PullPoint, burst) /\ B.response_writer = r)
      BY <2>1, <2>3, <2>4, <3>2
    <3> QED
      BY <3>1, <3>2
  <2> QED
    BY <1>9, <2>4, <2>5
<1>18. Service!GenerateEvent(g)
  BY <1>4, <1>6, <1>7, <1>9, <1>10, <1>15, <1>16, <1>17 DEF Service!GenerateEvent, ReadyShown
<1> QED
  BY <1>14, <1>18 DEF Service!Next, Service!RunReady

-----------------------------------------------------------------------------
(* The refinement.                                                         *)

LEMMA SerialStart ==
  ASSUME Init
  PROVE  SerialInv /\ Service!Init
<1>1. IndType /\ before = <<>> /\ Shown = Now
  BY InitTypes, ShownState DEF Init
<1>2. \A t \in Threads : Idle(t)
  BY DEF Init, Idle
<1>3. Reply = [r \in Requests |-> Service!Unsent]
  BY ReceivedValues DEF Init, Reply
<1>4. Service!Unsent \in Service!Reply /\ Service!Unsent # Service!Open
  BY RepliesAreTyped DEF Service!Unsent, Service!Open, Service!Plain
<1>5. /\ Now.events = <<>> /\ Now.stream = <<>> /\ Now.is_client_waiting = FALSE
      /\ Now.response_writer = None /\ Now.reply = Reply
      /\ Now.logical = logical /\ Now.changes = changes
  BY DEF Now, Init
<1>6. Settled(Now)
  <2>1. /\ Now.events \in Seq(Service!Message) /\ Now.stream \in Seq(Service!Message)
        /\ Now.logical \in [Sources -> BOOLEAN] /\ Now.changes \in [Sources -> Nat]
    BY <1>1, <1>5 DEF IndType, TypeOK, Now
  <2> QED
    BY <1>3, <1>4, <1>5, <2>1 DEF Settled
<1>7. Resting
  BY <1>2, <1>6 DEF Resting, Unwritten, Init
<1>8. TimeoutsOfPullPoint
  <2>1. DOMAIN <<>> = {}
    OBVIOUS
  <2> QED
    BY <2>1 DEF TimeoutsOfPullPoint, Init
<1>9. SerialInv
  BY <1>1, <1>7, <1>8 DEF SerialInv, Init
<1>10. Service!Init
  <2>1. Idle("W")
    BY <1>2 DEF Threads
  <2> QED
    BY <1>1, <1>3, <1>5, <2>1 DEF Init, Service!Init, Of
<1> QED
  BY <1>9, <1>10

LEMMA SerialStutter ==
  ASSUME IndType, SerialInv, UNCHANGED vars
  PROVE  SerialInv' /\ UNCHANGED Service!vars
<1>1. /\ UNCHANGED <<connected, events, is_client_waiting, handler, response_writer, timeout_timer,
                     alarm_timer, ready, logical, changes, exchange, written, alive, pc, request,
                     job, todo, copied, stream, base, before>>
  BY DEF vars, ppVars, ioVars, sourceVars, httpVars, localVars
<1>2. Now' = Now /\ B' = B /\ Shown' = Shown
  BY <1>1 DEF Now, Reply, B, Shown
<1>3. UNCHANGED Service!vars
  BY <1>1, <1>2 DEF Service!vars, Service!pullVars, Service!alarmVars, Idle
<1>4. SerialInv'
  <2>1. Resting' = Resting
    BY <1>1, <1>2 DEF Resting, Settled, Idle, Unwritten
  <2>2. Settled(B)' = Settled(B) /\ TimeoutsOfPullPoint' = TimeoutsOfPullPoint /\ Reply' = Reply
    BY <1>1, <1>2 DEF Settled, TimeoutsOfPullPoint, Reply
  <2>3. Held' = Held /\ Service!SyncMessages' = Service!SyncMessages
    BY <1>1, <1>2 DEF Held, Service!Released, Service!SyncMessages
  <2>4. Pulling' = Pulling
    BY <1>1, <1>2, <2>2, <2>3 DEF Pulling, PullStarted, PullStored, PullAnswering, PullAnswered, Answering,
                          State, SourcesOf, Unwritten, Wrote, Idle
  <2>5. Synchronizing' = Synchronizing
    <3>1. SyncRest(todo["H"])' = SyncRest(todo["H"])
      BY <1>1 DEF SyncRest, SyncMessage
    <3> QED
      BY <1>1, <1>2, <2>2, <2>3, <3>1 DEF Synchronizing, State, SourcesOf, Unwritten, Idle
  <2>6. TimingOut' = TimingOut
    BY <1>1, <1>2, <2>2 DEF TimingOut, AnswersWith, Answering, State, SourcesOf, Unwritten, Wrote, Idle
  <2>7. Alarming' = Alarming
    <3>1. BurstRest(todo["W"])' = BurstRest(todo["W"]) /\ Pending' = Pending
      BY <1>1, <1>2 DEF BurstRest, BurstMessage, Pending
    <3>2. PICK g : g = job.owner
      OBVIOUS
    <3>3. /\ Service!Burst(g)' = Service!Burst(g) /\ First(g)' = First(g)
          /\ AnswersWith(First(g))' = AnswersWith(First(g))
      BY <1>2 DEF Service!Burst, First, AnswersWith
    <3>4. Inversion(g)' = Inversion(g)
      BY <1>1, <1>2, <3>1 DEF Inversion, Service!Inverted
    <3>5. AlarmUnheard' = AlarmUnheard
      BY <1>1, <1>2, <2>2 DEF AlarmUnheard, State, Unwritten
    <3>6. AlarmQueued(g)' = AlarmQueued(g) /\ AlarmFirst(g)' = AlarmFirst(g)
      BY <1>1, <1>2, <2>2, <3>1, <3>3 DEF AlarmQueued, AlarmFirst, State, Unwritten
    <3>7. AlarmAnswering(g)' = AlarmAnswering(g)
      BY <1>1, <1>2, <2>2, <3>3 DEF AlarmAnswering, Answering, State, Unwritten, Wrote
    <3>8. AlarmAnswered(g)' = AlarmAnswered(g)
      BY <1>1, <1>2, <2>2, <3>1, <3>3 DEF AlarmAnswered, State, Unwritten
    <3> QED
      BY <1>1, <3>2, <3>4, <3>5, <3>6, <3>7, <3>8 DEF Alarming, Idle
  <2> QED
    BY <1>1, <1>2, <2>1, <2>2, <2>4, <2>5, <2>6, <2>7 DEF SerialInv, Handling, Idle
<1> QED
  BY <1>3, <1>4

LEMMA SerialStep ==
  ASSUME Overlap = FALSE, IndType, SerialInv, Next
  PROVE  SerialInv' /\ (Service!Next \/ UNCHANGED Service!vars)
<1>1. ASSUME NEW r \in Requests,
             CreatePullPoint(r) \/ PullMessages(r) \/ SetSynchronizationPoint(r)
      PROVE  SerialInv' /\ (Service!Next \/ UNCHANGED Service!vars)
  BY <1>1, SubscriptionIsCreated, PullBegins, SyncBegins
<1>2. CASE StoreHandler \/ StoreWriter \/ TestEmpty \/ ChargeTimeout \/ Respond("H")
  BY <1>2, PullStoresHandler, PullStoresWriter, PullTestsEmpty, PullEnds, PullResponds
<1>3. CASE InsertSyncEvents
  BY <1>3, SyncInserts, SyncEnds
<1>4. CASE TakeReady
  BY <1>4, CompletionBegins
<1>5. CASE GenerateEvent \/ Notify \/ TimeoutDone
  BY <1>5, AlarmInverts, AlarmEnds, AlarmNotifies, TimeoutEnds
<1>6. CASE Respond("W")
  <2>1. pc["W"] \in RespondLabels
    BY <1>6, RespondFrame DEF Threads
  <2>2. TimingOut \/ Alarming
    BY <2>1, BusyWith
  <2> QED
    BY <1>6, <2>2, TimeoutResponds, AlarmResponds
<1>7. ASSUME NEW g \in Generators, AlarmExpires(g) PROVE SerialInv' /\ Service!Next
  BY <1>7, AlarmRunsOut
<1>8. CASE TimeoutExpires
  BY <1>8, TimeoutRunsOut
<1> QED
  BY <1>1, <1>2, <1>3, <1>4, <1>5, <1>6, <1>7, <1>8 DEF Next, StepH, StepW

\* Without overlap, PullPointThreads implements PullPointService: each handler takes
\* effect in one step, its last, and the statements before that change nothing that
\* PullPointService shows.
THEOREM ServiceIsImplemented ==
  ASSUME Overlap = FALSE
  PROVE  Spec => ImplementsService
<1>1. Init => IndType /\ SerialInv /\ Service!Init
  BY InitTypes, SerialStart
<1>2. IndType /\ [Next]_vars => IndType'
  BY StepTypes
<1>3. IndType /\ SerialInv /\ [Next]_vars => SerialInv' /\ [Service!Next]_Service!vars
  <2> SUFFICES ASSUME IndType, SerialInv, [Next]_vars
               PROVE  SerialInv' /\ (Service!Next \/ UNCHANGED Service!vars)
    OBVIOUS
  <2>1. CASE Next
    BY <2>1, SerialStep
  <2>2. CASE UNCHANGED vars
    BY <2>2, SerialStutter
  <2> QED
    BY <2>1, <2>2
<1> QED
  BY <1>1, <1>2, <1>3, PTL DEF Spec, ImplementsService, Service!Spec

=============================================================================
