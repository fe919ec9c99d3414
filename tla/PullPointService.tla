---------------------------- MODULE PullPointService ----------------------------
(***************************************************************************)
(* The notification core of the event service: NotificationsManager, its   *)
(* PullPoint objects, the event generators and the timers both of them run *)
(* on the manager's io_context                                             *)
(* (onvif_services/pullpoint/pull_point.{h,cpp}, event_generators.{h,cpp}, *)
(* and the request handlers of onvif_services/event_service.cpp).          *)
(*                                                                         *)
(* Grain.  One action is one complete handler: a request handler on an     *)
(* HTTP thread, or one completion handler on the io_context's worker       *)
(* thread.  The code takes no lock, so two handlers may also overlap; that *)
(* is the subject of PullPointThreads.  This module shows what the         *)
(* protocol guarantees when they do not.                                   *)
(*                                                                         *)
(* Timers.  An asio wait is armed, then expires, which puts its completion *)
(* handler in the io_context's queue `ready', then the worker runs it.     *)
(* cancel(), expires_after() and the timer's destructor abort a wait that  *)
(* is armed and leave one that has expired alone: its handler runs with no *)
(* error.  Both handlers return at once on an aborted wait, so aborted     *)
(* waits are not kept.  Time itself is left out: an armed wait may expire  *)
(* at any moment.                                                          *)
(***************************************************************************)
EXTENDS Integers, Sequences, Functions

CONSTANTS
  PullPoints,     \* the PullPoint objects CreatePullPoint may allocate
  Requests,       \* HTTP exchanges with the event service
  Generators,     \* event_generators_
  Sources,        \* what has a logical state: one per generator, or one per
                  \* digital input of the DInputEventGenerator
  Signals,        \* Signals[g]: the sources generate_event of g inverts, in order
  SyncSources,    \* the sources GenerateSynchronizationEvent reports, in the
                  \* order of event_generators_
  Sensed,         \* the sources whose actual state it reports (digital inputs)
  MaxChanges,     \* bound: how often each source changes
  None

ASSUME SourcesAssumption ==
  /\ Signals \in [Generators -> Seq(Sources)]
  /\ SyncSources \in Seq(Sources)
  /\ Sensed \subseteq Sources
  /\ MaxChanges \in [Sources -> Nat]
  /\ None \notin PullPoints \cup Requests

\* A source is signalled by one generator and once per alarm.
ASSUME DistinctAssumption ==
  \A g, h \in Generators : \A i \in DOMAIN Signals[g], j \in DOMAIN Signals[h] :
    Signals[g][i] = Signals[h][j] => g = h /\ i = j

\* A generator reports all the sources it signals, in use or not.
ASSUME SyncAssumption ==
  \A g \in Generators : Range(Signals[g]) \subseteq Range(SyncSources)

VARIABLES
  pullpoints,         \* NotificationsManager::pullpoints_
  created,            \* objects allocated so far
  events,             \* PullPoint::events_
  is_client_waiting,  \* PullPoint::is_client_waiting_
  response_writer,    \* PullPoint::response_writer_ (handler_ holds the same exchange)
  timeout_timer,      \* the exchange whose wait on timeout_timer_ is armed, or None
  alarm_timer,        \* is a wait on the generator's alarm_timer_ armed?
  ready,              \* expired completion handlers, in the io_context's order
  logical,            \* the state each source would report
  changes,            \* how often each source changed: stands for utc_time
  reply,              \* what each exchange has been answered
  alive,              \* FALSE once undefined behaviour has ended the process
  stream,             \* history: all messages handed to clients of a pull point
  base                \* history: `changes' when the pull point was created

pullVars  == <<events, is_client_waiting, response_writer, timeout_timer>>
alarmVars == <<alarm_timer, logical, changes>>
vars == <<pullpoints, created, pullVars, ready, alarmVars, reply, alive, stream, base>>

-----------------------------------------------------------------------------

Message == [op : {"Changed", "Initialized"}, source : Sources, value : BOOLEAN, stamp : Nat]

Completion ==
  [kind : {"alarm"}, owner : Generators] \cup
  [kind : {"timeout"}, owner : PullPoints, armedBy : Requests]

Alarm(g) == [kind |-> "alarm", owner |-> g]
\* Mutant: the two captures of the timeout's handler are swapped.
SwappedTimeout(p, r) == [kind |-> "timeout", owner |-> r, armedBy |-> p]
Timeout(p, r) == [kind |-> "timeout", owner |-> p, armedBy |-> r]

Statuses == {"unsent", "open", "messages", "ok", "fault", "dropped"}
Reply == [status : Statuses, messages : Seq(Message)]

Plain(status) == [status |-> status, messages |-> <<>>]
Unsent  == Plain("unsent")
Open    == Plain("open")     \* with the server, the Response object is held
Ok      == Plain("ok")
Fault   == Plain("fault")    \* HTTP 400
Dropped == Plain("dropped")  \* the last shared_ptr to the Response went: nothing written
PullMessagesResponse(msgs) == [status |-> "messages", messages |-> msgs]

Live == Range(pullpoints)
Freed == created \ Live

\* Every pull point is created with the same reference, "onvif/event_service/s0":
\* find_pullpoint returns the first one for each address that contains it.
SubscriptionRef == "onvif/event_service/s0"
Addresses == {SubscriptionRef, "onvif/event_service/x"}
FindPullPoint(to) ==
  IF to = SubscriptionRef /\ pullpoints # <<>> THEN Head(pullpoints) ELSE None

\* The Response the pull point still holds is destroyed unanswered.
Released(p) == IF is_client_waiting[p]
               THEN [reply EXCEPT ![response_writer[p]] = Dropped]
               ELSE reply

\* The end of response_to_pullmessages: all that is queued is swapped out, the
\* writer is reset and nobody waits any more.
\* Mutants: the queue is copied, not swapped; the last two lines are missing.
CopiedOut(p) == events
SwappedOut(p) == [events EXCEPT ![p] = <<>>]

StaysWaiting(p) == UNCHANGED <<is_client_waiting, response_writer>>
StopsWaiting(p) ==
  /\ is_client_waiting' = [is_client_waiting EXCEPT ![p] = FALSE]
  /\ response_writer' = [response_writer EXCEPT ![p] = None]

\* cancel, expires_after, async_wait: the wait armed before is aborted.
\* Mutant: the wait is not started.
CancelledOnly(p, r) == [timeout_timer EXCEPT ![p] = None]
Charged(p, r) == [timeout_timer EXCEPT ![p] = r]

\* Stop and Run of every generator.
\* Mutant: Run is not called again.
StoppedOnly == [g \in Generators |-> FALSE]
StoppedAndRun == [g \in Generators |-> TRUE]

Init ==
  /\ pullpoints = <<>>
  /\ created = {}
  /\ events = [p \in PullPoints |-> <<>>]
  /\ is_client_waiting = [p \in PullPoints |-> FALSE]
  /\ response_writer = [p \in PullPoints |-> None]
  /\ timeout_timer = [p \in PullPoints |-> None]
  /\ alarm_timer = [g \in Generators |-> TRUE]     \* NotificationsManager::Run
  /\ ready = <<>>
  /\ logical \in [Sources -> BOOLEAN]
  /\ \A s \in Sources \ Sensed : ~logical[s]
  /\ changes = [s \in Sources |-> 0]
  /\ reply = [r \in Requests |-> Unsent]
  /\ alive = TRUE
  /\ stream = [p \in PullPoints |-> <<>>]
  /\ base = [p \in PullPoints |-> changes]

-----------------------------------------------------------------------------
(* Requests, each on an HTTP thread.                                       *)

\* Every alarm is stopped and started again, so all waits are armed anew;
\* an alarm that has expired already stays in `ready'.
CreatePullPoint(r, p) ==
  /\ alive
  /\ reply[r] = Unsent
  /\ p \in PullPoints \ created
  /\ created' = created \cup {p}
  /\ pullpoints' = Append(pullpoints, p)
  /\ alarm_timer' = StoppedAndRun
  /\ base' = [base EXCEPT ![p] = changes]
  /\ reply' = [reply EXCEPT ![r] = Ok]
  /\ UNCHANGED <<pullVars, ready, logical, changes, alive, stream>>

\* The address names no subscription: an error is logged, nothing is written.
PullMessagesNotFound(r, to) ==
  /\ alive
  /\ reply[r] = Unsent
  /\ FindPullPoint(to) = None
  /\ reply' = [reply EXCEPT ![r] = Dropped]
  /\ UNCHANGED <<pullpoints, created, pullVars, ready, alarmVars, alive, stream, base>>

\* Messages are queued: they all go to this client at once.  The timer is
\* charged in this case too.
PullMessagesAtOnce(r, to) ==
  LET p == FindPullPoint(to) IN
  /\ alive
  /\ reply[r] = Unsent
  /\ p # None
  /\ events[p] # <<>>
  /\ reply' = [Released(p) EXCEPT ![r] = PullMessagesResponse(events[p])]
  /\ stream' = [stream EXCEPT ![p] = @ \o events[p]]
  /\ events' = SwappedOut(p)
  /\ StopsWaiting(p)
  /\ timeout_timer' = Charged(p, r)
  /\ UNCHANGED <<pullpoints, created, ready, alarmVars, alive, base>>

\* Nothing is queued: the client waits, in the place of one that waits already.
PullMessagesWait(r, to) ==
  LET p == FindPullPoint(to) IN
  /\ alive
  /\ reply[r] = Unsent
  /\ p # None
  /\ events[p] = <<>>
  /\ reply' = [Released(p) EXCEPT ![r] = Open]
  /\ is_client_waiting' = [is_client_waiting EXCEPT ![p] = TRUE]
  /\ response_writer' = [response_writer EXCEPT ![p] = r]
  /\ timeout_timer' = Charged(p, r)
  /\ UNCHANGED <<pullpoints, created, events, ready, alarmVars, alive, stream, base>>

SyncMessages ==
  [i \in DOMAIN SyncSources |->
     [op     |-> "Initialized",
      source |-> SyncSources[i],
      value  |-> SyncSources[i] \in Sensed /\ logical[SyncSources[i]],
      stamp  |-> changes[SyncSources[i]]]]

\* The queue is replaced; a waiting client is not told.
SetSynchronizationPoint(r, to) ==
  LET p == FindPullPoint(to) IN
  /\ alive
  /\ reply[r] = Unsent
  /\ IF p = None
     THEN /\ reply' = [reply EXCEPT ![r] = Fault]
          /\ UNCHANGED events
     ELSE /\ reply' = [reply EXCEPT ![r] = Ok]
          /\ events' = [events EXCEPT ![p] = SyncMessages]
  /\ UNCHANGED <<pullpoints, created, is_client_waiting, response_writer,
                 timeout_timer, ready, alarmVars, alive, stream, base>>

\* The pull point is disconnected, erased and thereby destroyed: its Response
\* and an armed wait go with it, an expired one stays in `ready'.
UnsubscribeFound(r, to) ==
  LET p == FindPullPoint(to) IN
  /\ alive
  /\ reply[r] = Unsent
  /\ p # None
  /\ pullpoints' = Tail(pullpoints)
  /\ events' = [events EXCEPT ![p] = <<>>]
  /\ is_client_waiting' = [is_client_waiting EXCEPT ![p] = FALSE]
  /\ response_writer' = [response_writer EXCEPT ![p] = None]
  /\ timeout_timer' = [timeout_timer EXCEPT ![p] = None]
  /\ reply' = [Released(p) EXCEPT ![r] = Ok]
  /\ UNCHANGED <<created, ready, alarmVars, alive, stream, base>>

\* Renew looks nothing up, and Unsubscribe of an unknown address succeeds.
AnswerOk(r) ==
  /\ alive
  /\ reply[r] = Unsent
  /\ reply' = [reply EXCEPT ![r] = Ok]
  /\ UNCHANGED <<pullpoints, created, pullVars, ready, alarmVars, alive, stream, base>>

Renew(r) == AnswerOk(r)
UnsubscribeNotFound(r, to) == FindPullPoint(to) = None /\ AnswerOk(r)

\* A body that does not parse, a MessageLimit that is no number (the exception
\* ends in the HTTP server) or an action the pull point port does not know.
NotUnderstood(r) ==
  /\ alive
  /\ reply[r] = Unsent
  /\ reply' = [reply EXCEPT ![r] = Dropped]
  /\ UNCHANGED <<pullpoints, created, pullVars, ready, alarmVars, alive, stream, base>>

-----------------------------------------------------------------------------
(* The io_context: waits expire, its one worker runs their handlers.       *)

AlarmExpires(g) ==
  /\ alive
  /\ alarm_timer[g]
  /\ \A i \in DOMAIN Signals[g] : changes[Signals[g][i]] < MaxChanges[Signals[g][i]]   \* bound
  /\ alarm_timer' = [alarm_timer EXCEPT ![g] = FALSE]
  /\ ready' = Append(ready, Alarm(g))
  /\ UNCHANGED <<pullpoints, created, pullVars, logical, changes, reply, alive, stream, base>>

TimeoutExpires(p) ==
  /\ alive
  /\ timeout_timer[p] # None
  /\ timeout_timer' = [timeout_timer EXCEPT ![p] = None]
  /\ ready' = Append(ready, Timeout(p, timeout_timer[p]))
  /\ UNCHANGED <<pullpoints, created, events, is_client_waiting, response_writer,
                 alarmVars, reply, alive, stream, base>>

\* One alarm of g: each of its sources is inverted and signalled in turn.
Inverted(g) == {Signals[g][i] : i \in DOMAIN Signals[g]}
Burst(g) ==
  [i \in DOMAIN Signals[g] |->
     [op     |-> "Changed",
      source |-> Signals[g][i],
      value  |-> ~logical[Signals[g][i]],
      stamp  |-> changes[Signals[g][i]] + 1]]

\* The first message of the burst answers the client that waits at p with all
\* that is queued; the messages after it are queued.
Answers(p, burst) == p \in Live /\ is_client_waiting[p] /\ burst # <<>>
\* Mutant: the client is given the new message only.
SentAlone(p, burst) == <<Head(burst)>>
Sent(p, burst) == Append(events[p], Head(burst))

\* Mutant: a message nobody waits for is not stored.
QueuedForWaiters(p, burst) ==
  IF Answers(p, burst) THEN Tail(burst) ELSE events[p]
Queued(p, burst) ==
  IF Answers(p, burst) THEN Tail(burst)
  ELSE IF p \in Live THEN events[p] \o burst
  ELSE events[p]

\* The alarm's completion handler: generate_event, the slots of every
\* connected pull point, and schedule_next_alarm.
GenerateEvent(g) ==
  LET burst == Burst(g) IN
  /\ alive
  /\ ready # <<>>
  /\ Head(ready) = Alarm(g)
  /\ ready' = Tail(ready)
  /\ alarm_timer' = [alarm_timer EXCEPT ![g] = TRUE]
  /\ logical' = [s \in Sources |-> IF s \in Inverted(g) THEN ~logical[s] ELSE logical[s]]
  /\ changes' = [s \in Sources |-> IF s \in Inverted(g) THEN changes[s] + 1 ELSE changes[s]]
  /\ events' = [p \in PullPoints |-> Queued(p, burst)]
  /\ stream' = [p \in PullPoints |->
                  IF Answers(p, burst) THEN stream[p] \o Sent(p, burst) ELSE stream[p]]
  /\ reply' = [r \in Requests |->
                 IF \E p \in PullPoints : Answers(p, burst) /\ response_writer[p] = r
                 THEN PullMessagesResponse(Sent(CHOOSE p \in PullPoints :
                        Answers(p, burst) /\ response_writer[p] = r, burst))
                 ELSE reply[r]]
  /\ is_client_waiting' = [p \in PullPoints |-> is_client_waiting[p] /\ ~Answers(p, burst)]
  /\ response_writer' = [p \in PullPoints |->
                           IF Answers(p, burst) THEN None ELSE response_writer[p]]
  /\ UNCHANGED <<pullpoints, created, timeout_timer, alive, base>>

\* response_to_pullmessages, called from the timeout's completion handler.
AnswerWaiter(p) ==
  /\ IF is_client_waiting[p]
     THEN /\ reply' = [reply EXCEPT ![response_writer[p]] = PullMessagesResponse(events[p])]
          /\ stream' = [stream EXCEPT ![p] = @ \o events[p]]
          /\ events' = SwappedOut(p)
          /\ StopsWaiting(p)
     ELSE UNCHANGED <<reply, stream, events, is_client_waiting, response_writer>>
  /\ UNCHANGED <<pullpoints, created, timeout_timer, alarmVars, base>>

PullTimeout(p) ==
  /\ alive
  /\ ready # <<>>
  /\ Head(ready).kind = "timeout"
  /\ Head(ready).owner = p
  /\ p \in Live
  /\ ready' = Tail(ready)
  /\ AnswerWaiter(p)
  /\ UNCHANGED alive

\* The handler holds a plain pointer to a pull point that has been destroyed.
\* It may find no client waiting, find a new pull point at the same address,
\* or end the process.
DanglingTimeout(p) ==
  /\ alive
  /\ ready # <<>>
  /\ Head(ready).kind = "timeout"
  /\ Head(ready).owner = p
  /\ p \in Freed
  /\ ready' = Tail(ready)
  /\ \/ \E q \in Live : AnswerWaiter(q) /\ UNCHANGED alive
     \/ /\ alive' \in BOOLEAN
        /\ UNCHANGED <<pullpoints, created, pullVars, alarmVars, reply, stream, base>>

-----------------------------------------------------------------------------

Request(r) ==
  \/ \E p \in PullPoints : CreatePullPoint(r, p)
  \/ \E to \in Addresses :
       \/ PullMessagesNotFound(r, to)
       \/ PullMessagesAtOnce(r, to)
       \/ PullMessagesWait(r, to)
       \/ SetSynchronizationPoint(r, to)
       \/ UnsubscribeFound(r, to)
       \/ UnsubscribeNotFound(r, to)
  \/ Renew(r)
  \/ NotUnderstood(r)

\* The worker runs the handler at the head of the queue.
RunReady ==
  \/ \E g \in Generators : GenerateEvent(g)
  \/ \E p \in PullPoints : PullTimeout(p) \/ DanglingTimeout(p)

Next ==
  \/ \E r \in Requests : Request(r)
  \/ \E g \in Generators : AlarmExpires(g)
  \/ \E p \in PullPoints : TimeoutExpires(p)
  \/ RunReady

Spec == Init /\ [][Next]_vars

\* An armed wait expires in time and the worker never stops; clients may.
Fairness ==
  /\ WF_vars(RunReady)
  /\ \A g \in Generators : WF_vars(AlarmExpires(g))
  /\ \A p \in PullPoints : WF_vars(TimeoutExpires(p))

FairSpec == Spec /\ Fairness

-----------------------------------------------------------------------------
(* Properties.                                                             *)

\* Every variable keeps its type: in particular each queued completion names an
\* object of its kind, and each answer is a list of whole messages.
TypeOK ==
  /\ pullpoints \in Seq(PullPoints)
  /\ created \in SUBSET PullPoints
  /\ events \in [PullPoints -> Seq(Message)]
  /\ is_client_waiting \in [PullPoints -> BOOLEAN]
  /\ response_writer \in [PullPoints -> Requests \cup {None}]
  /\ timeout_timer \in [PullPoints -> Requests \cup {None}]
  /\ alarm_timer \in [Generators -> BOOLEAN]
  /\ ready \in Seq(Completion)
  /\ logical \in [Sources -> BOOLEAN]
  /\ changes \in [Sources -> Nat]
  /\ reply \in [Requests -> Reply]
  /\ alive \in BOOLEAN
  /\ stream \in [PullPoints -> Seq(Message)]
  /\ base \in [PullPoints -> [Sources -> Nat]]

IsReady(kind, owner) ==
  \E c \in Range(ready) : c.kind = kind /\ c.owner = owner

\* A pull that is still open is held by exactly one live pull point, and that
\* one has a timeout that will end the wait: armed, or expired and in the
\* io_context's queue.  PullMessages, the timeout handler, Unsubscribe and the
\* alarms all move these pieces; a pull that slips out is never answered.
HeldBy(r, p) == is_client_waiting[p] /\ response_writer[p] = r
TimeoutPending(p) == timeout_timer[p] # None \/ IsReady("timeout", p)
OpenPullIsCovered ==
  \A r \in Requests : reply[r] = Open =>
    \E p \in Live : /\ HeldBy(r, p)
                    /\ TimeoutPending(p)
                    /\ \A q \in PullPoints : HeldBy(r, q) => q = p

\* The converse: what a pull point would write to has not been answered yet,
\* so no Response is written twice.
WriterIsOpen ==
  \A p \in PullPoints : is_client_waiting[p] =>
    /\ p \in Live
    /\ response_writer[p] \in Requests
    /\ reply[response_writer[p]] = Open

\* The chain schedule_next_alarm -> handler -> schedule_next_alarm never breaks,
\* whatever Stop and Run of CreatePullPoint do in between.
AlarmsNeverStop == \A g \in Generators : alarm_timer[g] \/ IsReady("alarm", g)

\* All that was ever put in p's queue and not discarded by a synchronization
\* point, in the order the clients of p receive it.
History(p) == stream[p] \o events[p]

\* Is h[i] the message of its source that precedes h[j] in h?
Precedes(h, i, j) ==
  /\ i < j
  /\ h[i].source = h[j].source
  /\ \A k \in (i + 1)..(j - 1) : h[k].source # h[j].source

\* Over any number of pulls, timeouts and synchronization points the clients of
\* a pull point see each change of a source once and in order: a Changed message
\* carries the change right after the one its predecessor carries (the first,
\* the one after the subscription), an Initialized message never an older one.
StreamInOrder ==
  \A p \in PullPoints :
    LET h == History(p)
        Expected(j) ==
          IF \E i \in DOMAIN h : Precedes(h, i, j)
          THEN h[CHOOSE i \in DOMAIN h : Precedes(h, i, j)].stamp
          ELSE base[p][h[j].source]
    IN \A j \in DOMAIN h : IF h[j].op = "Changed" THEN h[j].stamp = Expected(j) + 1
                                                  ELSE h[j].stamp >= Expected(j)

\* No live subscription misses the tail: the last message about a source, in
\* the queue or sent, carries its last change; with no message there was none.
NothingMissed ==
  \A p \in Live, s \in Sources :
    LET h == History(p)
        about == {i \in DOMAIN h : h[i].source = s}
    IN IF about = {} THEN changes[s] = base[p][s]
       ELSE LET last == h[CHOOSE i \in about : \A j \in about : j <= i]
            IN /\ last.stamp = changes[s]
               /\ last.op = "Changed" => last.value = logical[s]

\* An exchange is answered at most once: what has been sent is never changed.
RepliesAreFinal ==
  [][\A r \in Requests : reply[r] \notin {Unsent, Open} => reply'[r] = reply[r]]_vars

\* Nobody waits for ever: each open pull is answered, with messages, with an
\* empty list at its timeout, or emptily when it is displaced or unsubscribed.
PullIsAnswered ==
  \A r \in Requests : reply[r] = Open ~> (reply[r] # Open \/ ~alive)

-----------------------------------------------------------------------------
(* What the comments of pull_point.h say and the code does not do.         *)

\* pull_point.h:165-166: "If there are messages for specified subscriber - return
\* them immediately.  Otherwise wait until timeout or any events will be
\* generated": an empty answer is given only by the pull's own timeout.
EmptyAnswerIsOwnTimeout ==
  [][\A r \in Requests :
       reply[r] = Open /\ reply'[r] = PullMessagesResponse(<<>>) =>
         Head(ready).kind = "timeout" /\ Head(ready).armedBy = r]_vars

\* pull_point.h:172: Unsubscribe is to "Delete PullPoint and cancel all related
\* timers": no timeout handler of a destroyed pull point is left to run.
NoTimeoutAfterUnsubscribe ==
  \A c \in Range(ready) : c.kind = "timeout" => c.owner \notin Freed

=============================================================================
