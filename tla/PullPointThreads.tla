---------------------------- MODULE PullPointThreads ----------------------------
(***************************************************************************)
(* One subscription, statement by statement.  The HTTP server's thread "H" *)
(* runs PullPoint::PullMessages and SetSynchronizationPoint, the worker    *)
(* "W" of NotificationsManager's io_context runs Notify and the timeout's  *)
(* handler, and both run response_to_pullmessages on the same members      *)
(* (onvif_services/pullpoint/pull_point.cpp:20-78).  No lock is taken.     *)
(*                                                                         *)
(* With Overlap = FALSE a handler starts only when the other thread is     *)
(* idle: then the statements implement the handlers of PullPointService,   *)
(* which are atomic there.  With Overlap = TRUE they interleave as they do *)
(* in the program.  Each statement is one step, and what it reads and      *)
(* writes is taken to be whole; the program promises less than that.       *)
(***************************************************************************)
EXTENDS Integers, Sequences, Functions

CONSTANTS
  PullPoint,      \* the one PullPoint object
  Requests,
  Client,         \* Client[r]: who sends r, when its previous one is answered
  Generators, Sources, Signals, SyncSources, Sensed, MaxChanges,
                  \* as in PullPointService
  Overlap,
  None

ASSUME ThreadsAssumption ==
  /\ None \notin Requests \cup {PullPoint}
  /\ Overlap \in BOOLEAN
  /\ DOMAIN Client = Requests
  /\ Signals \in [Generators -> Seq(Sources)]
  /\ SyncSources \in Seq(Sources)
  /\ Sensed \subseteq Sources
  /\ MaxChanges \in [Sources -> Nat]

\* A source is signalled by one generator and once per alarm.
ASSUME SignalledOnceAssumption ==
  \A g, h \in Generators : \A i \in DOMAIN Signals[g], j \in DOMAIN Signals[h] :
    Signals[g][i] = Signals[h][j] => g = h /\ i = j

VARIABLES
  connected,          \* has CreatePullPoint been called?
  events,             \* PullPoint::events_
  is_client_waiting,  \* PullPoint::is_client_waiting_
  handler,            \* PullPoint::handler_: the pull whose MessageID it holds, or None
  response_writer,    \* PullPoint::response_writer_
  timeout_timer, alarm_timer, ready, logical, changes,   \* as in PullPointService
  exchange,           \* "unsent", "open", "ok", or "sent" once the Response is destroyed
  written,            \* what handler_ has written to each Response
  alive,
  pc,                 \* the next statement of each thread
  request,            \* the Response the handler on H holds, or None
  job,                \* the completion W runs, or None
  todo,               \* the sources a thread has still to go through in its loop
  copied,             \* copied_events of response_to_pullmessages on each thread
  stream, base,       \* histories, as in PullPointService
  before              \* history: <<the state when the running handler started>>, or <<>>

ppVars     == <<events, is_client_waiting, handler, response_writer>>
ioVars     == <<timeout_timer, alarm_timer, ready>>
sourceVars == <<logical, changes>>
httpVars   == <<exchange, written>>
localVars  == <<request, job, todo, copied>>
vars == <<connected, ppVars, ioVars, sourceVars, httpVars, alive, pc, localVars, stream, base, before>>

-----------------------------------------------------------------------------

Threads == {"H", "W"}
Labels == {"idle", "handler", "writer", "empty", "charge", "insert",   \* H
           "signal", "push", "done",                                   \* W
           "waiting", "swap", "write", "reset", "clear"}               \* both
Idle(t) == pc[t] = "idle"
Goes(t, label) == pc' = [pc EXCEPT ![t] = label]

\* What a client has received or may still expect: of an exchange x, once w is written.
Received(x, w) ==
  CASE x \in {"unsent", "open", "ok"} -> [status |-> x, messages |-> <<>>]
    [] x = "sent" /\ w = <<>> -> [status |-> "dropped", messages |-> <<>>]
    [] x = "sent" /\ Len(w) = 1 -> [status |-> "messages", messages |-> w[1].messages]
    [] OTHER -> [status |-> "fault", messages |-> <<>>]
Reply == [r \in Requests |-> Received(exchange[r], written[r])]

Now == [events |-> events, is_client_waiting |-> is_client_waiting,
        response_writer |-> response_writer, reply |-> Reply, stream |-> stream,
        logical |-> logical, changes |-> changes]

\* A handler starts on thread t, and ends there.
MayStart(t) == alive /\ Idle(t) /\ (Overlap \/ \A u \in Threads : Idle(u))
Starts == before' = IF Overlap THEN <<>> ELSE <<Now>>
Ends(t) == Goes(t, "idle") /\ before' = <<>>

\* A Response goes out when neither the pull point nor the handler on H holds it.
ReleaseUnheld ==
  exchange' = [r \in Requests |->
                 IF exchange[r] = "open" /\ response_writer' # r /\ request' # r
                 THEN "sent" ELSE exchange[r]]

Init ==
  /\ connected = FALSE
  /\ events = <<>>
  /\ is_client_waiting = FALSE
  /\ handler = None
  /\ response_writer = None
  /\ timeout_timer = None
  /\ alarm_timer = [g \in Generators |-> TRUE]
  /\ ready = <<>>
  /\ logical \in [Sources -> BOOLEAN]
  /\ \A s \in Sources \ Sensed : ~logical[s]
  /\ changes = [s \in Sources |-> 0]
  /\ exchange = [r \in Requests |-> "unsent"]
  /\ written = [r \in Requests |-> <<>>]
  /\ alive = TRUE
  /\ pc = [t \in Threads |-> "idle"]
  /\ request = None
  /\ job = None
  /\ todo = [t \in Threads |-> <<>>]
  /\ copied = [t \in Threads |-> <<>>]
  /\ stream = <<>>
  /\ base = changes
  /\ before = <<>>

-----------------------------------------------------------------------------
(* Thread H.                                                               *)

\* A client sends one request at a time.
Sends(r) ==
  /\ exchange[r] = "unsent"
  /\ \A q \in Requests : Client[q] = Client[r] => exchange[q] # "open"

\* Signals may be connected while one is emitted: one step.
CreatePullPoint(r) ==
  /\ MayStart("H")
  /\ Sends(r)
  /\ ~connected
  /\ connected' = TRUE
  /\ alarm_timer' = [g \in Generators |-> TRUE]
  /\ base' = changes
  /\ exchange' = [exchange EXCEPT ![r] = "ok"]
  /\ UNCHANGED <<ppVars, timeout_timer, ready, sourceVars, written, alive, pc, localVars,
                 stream, before>>

\* is_client_waiting_ = true
PullMessages(r) ==
  /\ MayStart("H")
  /\ Sends(r)
  /\ connected
  /\ is_client_waiting' = TRUE
  /\ exchange' = [exchange EXCEPT ![r] = "open"]
  /\ request' = r
  /\ Goes("H", "handler")
  /\ Starts
  /\ UNCHANGED <<connected, events, handler, response_writer, ioVars, sourceVars, written,
                 alive, job, todo, copied, stream, base>>

\* handler_ = handler
\* Mutant: the first handler is kept.
KeepHandler == IF handler = None THEN request ELSE handler
NewHandler == request
StoreHandler ==
  /\ alive
  /\ pc["H"] = "handler"
  /\ handler' = NewHandler
  /\ Goes("H", "writer")
  /\ UNCHANGED <<connected, events, is_client_waiting, response_writer, ioVars, sourceVars,
                 httpVars, alive, localVars, stream, base, before>>

\* response_writer_ = response: the Response held before is destroyed.
StoreWriter ==
  /\ alive
  /\ pc["H"] = "writer"
  /\ response_writer' = request
  /\ Goes("H", "empty")
  /\ UNCHANGED <<connected, events, is_client_waiting, handler, ioVars, sourceVars, written,
                 alive, localVars, stream, base, before>>
  /\ ReleaseUnheld

\* if (!events_.empty()) response_to_pullmessages()
TestEmpty ==
  /\ alive
  /\ pc["H"] = "empty"
  /\ Goes("H", IF events = <<>> THEN "charge" ELSE "waiting")
  /\ UNCHANGED <<connected, ppVars, ioVars, sourceVars, httpVars, alive, localVars, stream,
                 base, before>>

\* cancel(), expires_after(), async_wait(), and the handler returns.
ChargeTimeout ==
  /\ alive
  /\ pc["H"] = "charge"
  /\ timeout_timer' = request
  /\ request' = None
  /\ Ends("H")
  /\ UNCHANGED <<connected, ppVars, alarm_timer, ready, sourceVars, written, alive, job, todo,
                 copied, stream, base>>
  /\ ReleaseUnheld

\* events_.clear()
SetSynchronizationPoint(r) ==
  /\ MayStart("H")
  /\ Sends(r)
  /\ connected
  /\ events' = <<>>
  /\ exchange' = [exchange EXCEPT ![r] = "open"]
  /\ request' = r
  /\ todo' = [todo EXCEPT !["H"] = SyncSources]
  /\ Goes("H", "insert")
  /\ Starts
  /\ UNCHANGED <<connected, is_client_waiting, handler, response_writer, ioVars, sourceVars,
                 written, alive, job, copied, stream, base>>

SyncMessage(s) ==
  [op |-> "Initialized", source |-> s, value |-> s \in Sensed /\ logical[s], stamp |-> changes[s]]

\* events_.insert, generator by generator, and the answer.
InsertSyncEvents ==
  /\ alive
  /\ pc["H"] = "insert"
  /\ IF todo["H"] # <<>>
     THEN /\ events' = Append(events, SyncMessage(Head(todo["H"])))
          /\ todo' = [todo EXCEPT !["H"] = Tail(@)]
          /\ UNCHANGED <<pc, request, exchange, before>>
     ELSE /\ exchange' = [exchange EXCEPT ![request] = "ok"]
          /\ request' = None
          /\ Ends("H")
          /\ UNCHANGED <<events, todo>>
  /\ UNCHANGED <<connected, is_client_waiting, handler, response_writer, ioVars, sourceVars,
                 written, alive, job, copied, stream, base>>

-----------------------------------------------------------------------------
(* Waits that expire, and thread W.                                        *)

AlarmExpires(g) ==
  /\ alive
  /\ alarm_timer[g]
  /\ \A i \in DOMAIN Signals[g] : changes[Signals[g][i]] < MaxChanges[Signals[g][i]]   \* bound
  /\ alarm_timer' = [alarm_timer EXCEPT ![g] = FALSE]
  /\ ready' = Append(ready, [kind |-> "alarm", owner |-> g])
  /\ UNCHANGED <<connected, ppVars, timeout_timer, sourceVars, httpVars, alive, pc, localVars,
                 stream, base, before>>

TimeoutExpires ==
  /\ alive
  /\ timeout_timer # None
  /\ timeout_timer' = None
  /\ ready' = Append(ready, [kind |-> "timeout", owner |-> PullPoint, armedBy |-> timeout_timer])
  /\ UNCHANGED <<connected, ppVars, alarm_timer, sourceVars, httpVars, alive, pc, localVars,
                 stream, base, before>>

\* W takes the next completion: an alarm goes through the sources of its generator.
TakeReady ==
  /\ MayStart("W")
  /\ ready # <<>>
  /\ job' = Head(ready)
  /\ ready' = Tail(ready)
  /\ IF Head(ready).kind = "alarm"
     THEN /\ todo' = [todo EXCEPT !["W"] = Signals[Head(ready).owner]]
          /\ Goes("W", "signal")
     ELSE /\ Goes("W", "waiting")
          /\ UNCHANGED todo
  /\ Starts
  /\ UNCHANGED <<connected, ppVars, timeout_timer, alarm_timer, sourceVars, httpVars, alive,
                 request, copied, stream, base>>

\* InvertState() of the next source, or schedule_next_alarm() after the last.
GenerateEvent ==
  /\ alive
  /\ pc["W"] = "signal"
  /\ IF todo["W"] # <<>>
     THEN LET s == Head(todo["W"]) IN
          /\ logical' = [logical EXCEPT ![s] = ~@]
          /\ changes' = [changes EXCEPT ![s] = @ + 1]
          /\ Goes("W", "push")
          /\ UNCHANGED <<alarm_timer, job, before>>
     ELSE /\ alarm_timer' = [alarm_timer EXCEPT ![job.owner] = TRUE]
          /\ job' = None
          /\ Ends("W")
          /\ UNCHANGED sourceVars
  /\ UNCHANGED <<connected, ppVars, timeout_timer, ready, httpVars, alive, request, todo, copied,
                 stream, base>>

\* Mutant: the token is put where the state belongs, and the other way round.
SwappedMessage(s) == [op |-> "Changed", source |-> logical[s], value |-> s, stamp |-> changes[s]]
ChangedMessage(s) == [op |-> "Changed", source |-> s, value |-> logical[s], stamp |-> changes[s]]

\* event_signal_(nm): Notify's events_.push_back, if a pull point is connected.
Notify ==
  /\ alive
  /\ pc["W"] = "push"
  /\ todo' = [todo EXCEPT !["W"] = Tail(@)]
  /\ IF connected
     THEN /\ events' = Append(events, ChangedMessage(Head(todo["W"])))
          /\ Goes("W", "waiting")
     ELSE /\ Goes("W", "signal")
          /\ UNCHANGED events
  /\ UNCHANGED <<connected, is_client_waiting, handler, response_writer, ioVars, sourceVars,
                 httpVars, alive, request, job, copied, stream, base, before>>

\* The timeout's handler returns.
TimeoutDone ==
  /\ alive
  /\ pc["W"] = "done"
  /\ job' = None
  /\ Ends("W")
  /\ UNCHANGED <<connected, ppVars, ioVars, sourceVars, httpVars, alive, request, todo, copied,
                 stream, base>>

-----------------------------------------------------------------------------
(* response_to_pullmessages, on either thread.                             *)

After(t) == IF t = "H" THEN "charge" ELSE IF job.kind = "alarm" THEN "signal" ELSE "done"

\* if (!is_client_waiting_) return
TestWaiting(t) ==
  /\ alive
  /\ pc[t] = "waiting"
  /\ Goes(t, IF is_client_waiting THEN "swap" ELSE After(t))
  /\ UNCHANGED <<connected, ppVars, ioVars, sourceVars, httpVars, alive, localVars, stream, base,
                 before>>

\* copied_events.swap(events_): what copied_events was is left in the queue.
\* Mutant: the queue is copied and stays as it is.
StillQueued == events
LeftQueued == <<>>
SwapEvents(t) ==
  /\ alive
  /\ pc[t] = "swap"
  /\ copied' = [copied EXCEPT ![t] = events]
  /\ events' = LeftQueued
  /\ Goes(t, "write")
  /\ UNCHANGED <<connected, is_client_waiting, handler, response_writer, ioVars, sourceVars,
                 httpVars, alive, request, job, todo, stream, base, before>>

\* handler_(subscription_ref_, copied_events, response_writer_).  An empty handler_
\* throws on W, which nothing catches, and do_pullmessages_response dereferences
\* the writer it is given: in both cases the process ends.
CallHandler(t) ==
  /\ alive
  /\ pc[t] = "write"
  /\ IF handler = None \/ response_writer = None
     THEN /\ alive' = FALSE
          /\ UNCHANGED <<written, stream, pc, copied>>
     ELSE /\ written' = [written EXCEPT ![response_writer] =
                           Append(@, [id |-> handler, messages |-> copied[t]])]
          /\ stream' = stream \o copied[t]
          /\ copied' = [copied EXCEPT ![t] = <<>>]
          /\ Goes(t, "reset")
          /\ UNCHANGED alive
  /\ UNCHANGED <<connected, ppVars, ioVars, sourceVars, exchange, request, job, todo, base, before>>

\* response_writer_.reset(): "it's required to reset writer ptr, otherwise response
\* will not be written in time".
\* Mutant: the reset is missing.
NoReset == UNCHANGED response_writer
Reset == response_writer' = None
ResetWriter(t) ==
  /\ alive
  /\ pc[t] = "reset"
  /\ Reset
  /\ Goes(t, "clear")
  /\ UNCHANGED <<connected, events, is_client_waiting, handler, ioVars, sourceVars, written, alive,
                 localVars, stream, base, before>>
  /\ ReleaseUnheld

\* is_client_waiting_ = false
ClearWaiting(t) ==
  /\ alive
  /\ pc[t] = "clear"
  /\ is_client_waiting' = FALSE
  /\ Goes(t, After(t))
  /\ UNCHANGED <<connected, events, handler, response_writer, ioVars, sourceVars, httpVars, alive,
                 localVars, stream, base, before>>

Respond(t) ==
  TestWaiting(t) \/ SwapEvents(t) \/ CallHandler(t) \/ ResetWriter(t) \/ ClearWaiting(t)

-----------------------------------------------------------------------------

StepH == StoreHandler \/ StoreWriter \/ TestEmpty \/ ChargeTimeout \/ InsertSyncEvents \/ Respond("H")
StepW == TakeReady \/ GenerateEvent \/ Notify \/ TimeoutDone \/ Respond("W")

Next ==
  \/ \E r \in Requests : CreatePullPoint(r) \/ PullMessages(r) \/ SetSynchronizationPoint(r)
  \/ StepH
  \/ StepW
  \/ \E g \in Generators : AlarmExpires(g)
  \/ TimeoutExpires

Spec == Init /\ [][Next]_vars

\* The operating system runs both threads, and waits expire; clients may stop.
FairSpec ==
  /\ Spec
  /\ WF_vars(StepH)
  /\ WF_vars(StepW)
  /\ WF_vars(TimeoutExpires)
  /\ \A g \in Generators : WF_vars(AlarmExpires(g))

-----------------------------------------------------------------------------
(* Properties.                                                             *)

Shown == IF before = <<>> THEN Now ELSE before[1]
Of(x) == [p \in {PullPoint} |-> x]
Service ==
  INSTANCE PullPointService WITH
    PullPoints        <- {PullPoint},
    pullpoints        <- IF connected THEN <<PullPoint>> ELSE <<>>,
    created           <- IF connected THEN {PullPoint} ELSE {},
    events            <- Of(Shown.events),
    is_client_waiting <- Of(Shown.is_client_waiting),
    response_writer   <- Of(Shown.response_writer),
    timeout_timer     <- Of(timeout_timer),
    ready             <- IF Idle("W") THEN ready ELSE <<job>> \o ready,
    reply             <- Shown.reply,
    stream            <- Of(Shown.stream),
    logical           <- Shown.logical,
    changes           <- Shown.changes,
    base              <- Of(base)

\* Every variable keeps its type.
TypeOK ==
  /\ {connected, is_client_waiting, alive} \subseteq BOOLEAN
  /\ events \in Seq(Service!Message)
  /\ {handler, response_writer, request, timeout_timer} \subseteq Requests \cup {None}
  /\ alarm_timer \in [Generators -> BOOLEAN]
  /\ ready \in Seq(Service!Completion)
  /\ job \in Service!Completion \cup {None}
  /\ logical \in [Sources -> BOOLEAN]
  /\ {changes, base} \subseteq [Sources -> Nat]
  /\ exchange \in [Requests -> {"unsent", "open", "ok", "sent"}]
  /\ written \in [Requests -> Seq([id : Requests, messages : Seq(Service!Message)])]
  /\ pc \in [Threads -> Labels]
  /\ todo \in [Threads -> Seq(Sources)]
  /\ copied \in [Threads -> Seq(Service!Message)]
  /\ stream \in Seq(Service!Message)
  /\ before # <<>> => DOMAIN before[1] = DOMAIN Now

\* When handlers do not overlap, the statements of PullMessages, Notify, the timeout's
\* handler and SetSynchronizationPoint together do what the atomic actions of
\* PullPointService say, and nothing else: the Response goes out at the right one of
\* its several releases, and the writer, the flag, the queue and the timer end as said.
ImplementsService == Service!Spec

\* An answer carries the MessageID of the pull it answers, even when the threads
\* overlap: with one client, handler_ is always stored before the writer it goes with.
AnswerCarriesItsMessageId ==
  \A r \in Requests : \A i \in DOMAIN written[r] : written[r][i].id = r

\* However the statements of the threads interleave, a change of a source is handed to
\* one answer and once: both threads may be in response_to_pullmessages at a time, for
\* one pull even, but each sends what it took out of the queue itself, and
\* synchronization puts no change back.
SameChange(m, n) ==
  m.op = "Changed" /\ n.op = "Changed" /\ m.source = n.source /\ m.stamp = n.stamp
NothingSentTwice ==
  \A i, j \in DOMAIN stream : SameChange(stream[i], stream[j]) => i = j

\* pull_point.h:165-166: "If there are messages for specified subscriber - return them
\* immediately.  Otherwise wait until timeout or any events will be generated": a pull
\* is answered, unless the process ends.
PullIsAnswered ==
  \A r \in Requests : exchange[r] = "open" ~> (exchange[r] # "open" \/ ~alive)

=============================================================================
