# A TLA+ model of the ONVIF server emulator

The modules in this directory model the parts of the server that keep state
across requests, the answers of the handlers that read it, and the process they
make together.  TLC checks them on small instances; TLAPS proves every invariant, every
action property and three refinements for every instance.  Paths below are relative to the root of the
repository.

## 1. The system

`main.cpp` builds a `Server`, which owns an HTTP server (SimpleWeb, one thread),
an io_context with a thread of its own for simulated network delays, the WS-
Discovery responder (one thread), the RTSP server (a GStreamer main loop on one
thread) and the notifications manager (an io_context with one worker thread).
No component takes a lock.

| Component | State | Operations | Interacts with | What makes it correct |
|---|---|---|---|---|
| Notifications (`onvif_services/pullpoint`, `onvif_services/event_service.cpp`) | pull points with a queue, a waiting client and a timeout; generators with an alarm and a logical state; the io_context's queue | CreatePullPoint, PullMessages, SetSynchronizationPoint, Unsubscribe, Renew; alarms; timeouts | HTTP thread calls it, worker runs alarms and timeouts, both answer clients | every pull is answered once and in time, events arrive in order, once and completely |
| Media profiles (`utility/MediaProfilesManager.*`, mutating handlers of Media2 and PTZ) | the profiles tree in memory and `media_profiles.config` | Create, Delete, AddConfiguration, RemoveConfiguration, SetConfiguration, Save, Read | Media2, PTZ and Media read the tree; a copy taken at the start serves stream addresses | references lead to configurations, fixed profiles stay, the file follows the memory, tokens name one profile |
| Media2, Media, PTZ: reading handlers | one static buffer for the snapshot | about 60 requests, the snapshot download | the profiles tree or the copy | an answer exists for every profile, answers do not contradict each other, both copies agree, each download is the file |
| WS-Discovery (`onvif_services/discovery_service.cpp`) | one socket, one receive buffer, one response text, one UUID counter | start, stop, receive, send | main thread starts and stops it | each probe is answered to its sender with its own RelatesTo; the loop never stops; stop ends |
| Server life cycle (`Server.cpp`, `main.cpp`, `src/IOnvifServer.cpp`, `RtspServer.cpp`) | threads, promise of the port | init, run, destructor | starts everything | nothing is served before it is ready, every start ends |
| Dispatch and authentication (`onvif_services/IOnvifService.cpp`, `utility/AuthHelper.*`, `utility/HttpDigestHelper.*`) | none that decides: a login is looked up | one request: parse, find handler, check access, run, map exceptions | every service | one answer per request, access as the user's level says, the fault tells what happened |
| Recording search (`onvif/Recording.*`, `onvif_services/recording_search_service.cpp`) | search sessions, token counters | FindRecordings, FindEvents, results | HTTP thread | a token leads to its own results, for ever; ranges are ranges |
| XML and SOAP helpers | none | find_hierarchy, find_hierarchy_elements, ___getMethod | all handlers | result equals the path's meaning |
| Device, DeviceIO, Imaging, Replay Control | none | render configuration | | |
| RTSP pipelines, logging, formatting | held by GStreamer, streams | | | |

The hard behaviours: handlers of one pull point that run on two threads, timers
whose cancellation comes too late, a queue that is swapped out, replaced and
appended to; a file that is rewritten in several steps by requests that may fail
half-way, or not at all when the process is killed; two readings of that file, at
two moments of the start, that serve different handlers; downloads that share one
buffer; a search over a range that moves with the clock.  `PROJECT.json` lists
every hazard at its line.

## 2. The modules

| Module | Models | Role |
|---|---|---|
| `PullPointService` | the notification core, one handler per action | component, its properties |
| `Subscriptions` | what the core promises: logs of messages with positions | abstract specification |
| `PullPointSubscriptions` | `Subscriptions` read off the core's state | refinement mapping; extends `PullPointService` |
| `MCPullPointService` | | instances for TLC |
| `SequenceFacts` | | lemmas about `Append`, `Tail`, `\o` and `Range`, and about loops over a sequence |
| `PullPointProofs` | | the inductive invariant and the theorems |
| `PullPointStreamProofs` | | the invariant of the message streams and its theorems, and that the core implements `Subscriptions` |
| `PullPointThreads` | one subscription, statement by statement on two threads | component; implements `PullPointService` when handlers do not overlap |
| `MCPullPointThreads` | | instances for TLC |
| `PullPointThreadsProofs` | | its theorems, among them that it implements `PullPointService` |
| `MediaProfiles` | profiles, their file and the requests that change them | component, its properties |
| `MediaProfilesProofs` | | the inductive invariant and the theorems |
| `MediaReaders` | the handlers of Media2, Media and PTZ that only read, as operators over `MediaProfiles` | component, its properties |
| `MediaReadersProofs` | | what the invariant of the profiles means for the answers: lemmas and theorems |
| `MCMediaProfiles` | | instance of `MediaReaders` for TLC |
| `ServerLifecycle` | `main`, the constructor, `init`, `run` and the threads they start | component, its properties |
| `RequestDispatch` | who may call a handler, and which fault an exception becomes | operators |
| `RecordingSearch` | the search sessions and their results | component, its properties |
| `SnapshotDownload` | the download of the snapshot in chunks | component, its properties |
| `OnvifServer` | the process: all of the six above | composition, its properties |
| `MCOnvifServer` | | instance for TLC |
| `OnvifServerProofs` | | the invariants and theorems of the process, and that it implements `MediaProfiles` |
| `Discovery` | the WS-Discovery responder | component, its properties |
| `MCDiscovery` | | instances for TLC |
| `DiscoveryProofs` | | the inductive invariants and the theorems |

### PullPointService

State.  `pullpoints` is `NotificationsManager::pullpoints_`; `events`,
`is_client_waiting`, `response_writer` are the members of the same names of each
pull point.  `handler_` always belongs to the same exchange as
`response_writer_` when handlers do not overlap, so one variable stands for both.
`timeout_timer` and `alarm_timer` say whether a wait is armed; `ready` is the
io_context's queue of expired handlers.  `logical` is the state a generator or a
digital input inverts; `changes` counts the inversions and stands for `utc_time`.
`reply` is what each HTTP exchange was answered.  `stream` and `base` are
histories for the properties, and no action reads them.

Actions.  Each request of `PullPointPortDefaultHandler` and
`CreatePullPointSubscription` is an action (two where the code's branches differ:
`PullMessagesAtOnce`/`PullMessagesWait`, `UnsubscribeFound`/`UnsubscribeNotFound`),
with everything the handler does: `PullMessagesAtOnce` also charges the timer, as
the code does after it has answered.  `GenerateEvent` is the alarm's handler, with
`Notify` of every connected pull point for every message of the burst and
`schedule_next_alarm`.  `PullTimeout` is the timeout's handler and
`DanglingTimeout` the same handler when its pull point has been destroyed: the
plain pointer then meets memory in any state, so the model lets it do nothing,
act on another pull point that was given the same memory, or end the process
(`alive`).

Timers.  A wait is armed, then expires (`TimeoutExpires`, `AlarmExpires`) and its
handler is queued, then the worker runs it.  `cancel` and `expires_after` abort a
wait that is armed and do not reach one that is queued.  This is asio's contract,
and two of the findings live in the gap.  Time itself is not modelled: an armed
wait may expire at any moment, so nothing is shown about how long anything takes.

All pull points get the reference `onvif/event_service/s0`, so `FindPullPoint`
returns the first one for any address that contains it.  Filters, topics, message
text, `MessageLimit` (ignored by the code) and `Renew`'s text are left out.

### Subscriptions, PullPointSubscriptions

The core as its clients see it.  A subscription is a `log` and a number `read` of
messages sent from it; `waiting` is the exchange that gets the next one.  A change
of sources puts the same messages at the end of every live log, and each exchange
that waits gets all that was unsent and the first of them.  A pull gets all that is
unsent or waits; a wait that ends gets what is unsent, which may be nothing; a
synchronization point puts the present states in the place of what is unsent; the
end of a subscription discards it.  Timers, the io_context's queue, addresses,
destroyed pull points and the end of the process are not there: `Exchange` may reach
any live subscription, `Expire` may come at any time.

Under the mapping `Log` is `stream \o events`, `Position` the length of `stream` and
`Waiting` the writer of a pull point whose client waits.  What this adds to
`StreamInOrder` and `NothingMissed`, which speak of histories, is the tie to the
answers: what a client is sent is what its log has next, nothing of it twice, left
out or another's.  Since a client may not pull and a message is lost only at a
synchronization point or Unsubscribe, the specification shows where a message can go
missing: nowhere else.

### PullPointThreads

The same for one pull point, with the statements of `PullMessages`,
`response_to_pullmessages`, `Notify` and `SetSynchronizationPoint` as steps of
threads `H` (HTTP) and `W` (worker).  A Response goes out when its last holder
lets go of it: `ReleaseUnheld` computes that after each statement that drops a
holder.  With `Overlap = FALSE` a handler starts only when the other thread is
idle, and `Service!Spec` is implemented: while a handler runs, the refinement
shows the state from before it (`before`), so that all its steps but the last
stutter.  With `Overlap = TRUE` every interleaving is allowed.  Each statement
still has its whole effect; the program's data races promise less, so what holds
here is necessary and not sufficient, and what fails here fails in the program.
`CreatePullPoint` is one step.  Unsubscribe is not in this module.
`Received` says what a client has of its exchange: nothing yet, an answer with what
was written to the Response, or, of a Response destroyed before anything was
written or after two writes, something that `PullPointService` never sends.

### MediaProfiles

`profiles` is the `MediaProfiles` list in memory, `file` the list in the file,
`Torn` (`<<>>`) a file that was truncated and not written.  A request is a
sequence of steps: change the tree (`CreateProfile`, `DeleteProfile`,
`RemoveConfiguration`, `AddNext`), open and thereby truncate the file
(`OpenFile`), write it (`WriteFile`), and go on with the next configuration
(`AddNext`) or end.  `WriteFails` is `write_json` throwing, `Crash` may happen
between any two steps, and `Restart` is the constructors reading the file, which
fails on a torn one.  A request refused before any change is a stutter.  A profile
is its token, `fixed` and the list of its configurations; that the list may hold
two of one type, that `RemoveConfiguration` first looks for the token alone and
that `"All"` passes the type test of `AddConfiguration` are kept.  Profile names are
left out, and `ConfigsReaderWriter::Reset`, which only the unit tests call.

### MediaReaders

Each handler that reads profiles or lists of configurations is an operator that
gives its answer in the current state: the set or the function of the tokens it
shows, or the exception it throws.  Media2's GetProfiles, both GetSnapshotUri and
all of PTZ read `profiles`, the manager's tree; the others read a copy, which is
their first parameter.  Only an operator with that parameter can say what a request
is answered by: which of the two trees a handler has is fixed in `OnvifServer`, where
every property that compares answers of both stands (`startup` for the copy).  What
differs between look-alikes is kept: GetProfiles of
Media2 throws at a configuration that is not in its list, Media leaves a video one
out and throws at an audio one; `get` takes the first configuration of a type
where `put` leaves the last; Media has its own list of encoders; Media's
GetStreamUri and both its video source handlers read members that no file has, and
always fail; Media2's GetProfiles with several channels does too; Media2's
GetVideoSourceConfigurations overwrites all but the last.  A channel token
("0_ProfileToken_0") is a sequence with the channel in front, and the functions
that clean it take it off.

### ServerLifecycle, RequestDispatch

`main` is the next step of the main thread, in the order of `Server::init` and
`Server::run`.  `registered` and `events` say how far the services and the event
service are, `http` and `eventsHttp` how far the HTTP servers: the second one is
that of the pull points, when `event.config` gives them a port of their own, and
it listens while `init` goes on.  Each step of `init` may throw, each server may
fail to bind its port, and the process may be killed at any step.  `~Server` is
not an action: the services hold the server that holds them, so it runs only when
`init` throws before the first service, and then has no thread to stop.

`Admitted` is the test before the handler; `Answer` the catch clauses after it, in
their order.

### RecordingSearch, SnapshotDownload

A recording without dates covers the 24 hours before now, and each of its dates
reads the clock for itself.  `FindEvents` reads both, in either order, with a tick
in between or not, and keeps them in a session; the results are read from the
session.  `promised` is a history of what each token stood for.

A download is a chain of callbacks: a chunk is read into the static buffer, copied
to the Response, sent, and the next one read.  `Breaks` is the callback with an
error.  `Length` counts half chunks, so that files that end in a full and in a
partial chunk are both there: they end in two different ways.

### OnvifServer

The state of all of these and four things between them: `startup`, the copy of the
profiles that `init` takes by reading the file a second time; `request`, whose
steps are those of `MediaProfiles`; and the histories `touched` (profiles that a
request named since the start) and `told` (profiles whose creation was answered
with success).  With the copy there are two views of a profile that a request has
changed: one created since the start is shown by Media2's GetProfiles and is a server
error for Media's GetProfile, for GetStreamUri and for the encoder's options, and one
deleted since is the other way round.  The comments of the properties say of which
handlers and of which profiles each speaks.  The one HTTP thread has one handler at a time and runs the
callbacks of downloads between two handlers; ticks of the clock and the main thread
interleave with it.  `ProcessEnds` is a kill or an exit at any step and loses all
memory, `Constructs` the constructor that reads the file, which is refused when it
is torn.  `ServerSpec` implements `MediaProfiles` under the identity, which
`OnvifServerProofs` proves.

### Discovery

One thread, one loop: `receives` counts pending `async_receive_from` operations,
`ready` is the io_context's queue of handlers (`do_receive` posted, a receive that
completed or failed), `data` is the datagram in `data_` and `remote_endpoint_`.
`DoSend`, `Ignore` and `ParseFails` are the three ways through `do_send`.
`arrived` is the socket's receive buffer with what has been read from it, of which
`taken` datagrams; a datagram is a probe for an ONVIF device, with or without a
MessageID, another probe, or something that is no XML and ends the process.

`response` is the member `response_`, of which only the two replaced elements
count.  `found` says whether the search for RelatesTo still reaches the element.  An
id becomes part of the replacement of `regex_replace`, and of the XML, as it is
(`discovery_service.cpp:224-229`), so three kinds of ids are not copied: one that
begins with a digit joins the `$1` of the replacement and costs the opening tag, and
one that repeats a tag (`$&`, `$1`, `$3`) leaves it there for good (`DigitIds`); one
with a line break is filled in and never found again (`MultiLineIds`); one with another
sequence of `$` (`$$`, `$2`) or with `<` or `&` damages its own answer only
(`AlteredIds`).  The violation needs the first kind only; the other runs have none.
`sends` holds the answers a full socket has not taken; the next answer
rewrites the memory they are sent from, after which their text is whatever that
holds (`overtaken`).

Stop is in the model although it never returns: it drops the work guard and joins
a thread that always has a receive pending, which is `LoopHasOneReceive`.

## 3. The runs

| Run | Instance | Result |
|---|---|---|
| `core` | 2 pull points, 4 requests, 2 generators with 2 and 1 changes, symmetry | all invariants, `RepliesAreFinal` and `ImplementsSubscriptions` hold (428,812 states) |
| `liveness` | 2 pull points, 3 requests, one alarm with a burst of 2 messages, 2 changes each, fairness | `StreamInOrder`, `NothingMissed`, `PullIsAnswered` hold (73,480) |
| `early_timeout` | 1 pull point, 3 requests | `EmptyAnswerIsOwnTimeout` violated |
| `unsubscribed` | 1 pull point, 3 requests | `NoTimeoutAfterUnsubscribe` violated |
| `threads_serial` | 4 requests of 2 clients, burst of 2, no overlap | `TypeOK`, `ImplementsService` hold (465,876) |
| `threads_overlap` | 4 requests of 1 client, 2 changes, overlap | `AnswerCarriesItsMessageId` and `NothingSentTwice` hold (894,160) |
| `threads_lost` | 3 requests of 1 client, overlap, fairness | `PullIsAnswered` violated |
| `profiles` | 1 fixed profile, 2 more, 2 configurations each, 3 types, one failed write in a row | all invariants of `MediaProfiles` hold, `ProfilesCanBeListed`, `UseCountsAddUp` (808,915) |
| `profile_token` | the same | `BackIsFoundByItsToken` violated |
| `discovery` | 2 clients, 2 plain ids, 3 datagrams, fairness | all invariants and `EveryProbeIsAnswered` hold (82,213) |
| `discovery_digit` | 2 datagrams, one id begins with a digit | `AnswersRelateToTheirProbes` violated |
| `server` | 2 profiles, 5 types of which one has no list, 2 requests in the life of the file, 2 downloads of 2 chunks, own port, fairness | all invariants, `ChangesAreAdmitted`, `EveryStartEnds`, `EveryRequestEnds` hold (142,218) |

What the five violations show is in `PROJECT.json` under `findings`:

* a stale timeout answers the next pull early and emptily;
* Unsubscribe leaves an expired timeout handler with a dangling `this`;
* a pull that falls between `response_writer_.reset()` and
  `is_client_waiting_ = false` is never answered, not even by its timeout;
* after a deletion a created profile repeats the token of an existing one;
* a probe whose MessageID begins with a digit damages the text of its answer and of
  every later one.

Properties worth a second look: `StreamInOrder` and `NothingMissed` say, over any
number of pulls, timeouts and synchronization points, that the clients of a pull
point see each change once, in order and to the last one; `OpenPullIsCovered`
says that a waiting client is always held and always has a timeout coming, which
every request and every handler could break; `FileFollowsMemory` says that
between requests the file holds what clients were shown, also after a request
that failed half-way.  `ListedIsAccepted` says that a token from Media2's list may be
sent to each handler that has the manager, and one from Media's list to those of Media;
what the one shows may be sent to the other only for profiles that no request named
since the start, which the formula says.  `ReadersAgree` says, with the same limit where it
compares the two views, that handlers never say contradictory things of a profile,
except of one that repeats a type, and `UseCountsAddUp` that the uses PTZ counts are
those the list shows; `FaultsAreTrue` that a handler with the manager answers NoProfile
just for a profile the list does not show, and that those with the copy have a server
error in its place, which for a profile touched since the start says nothing of the
list; `UnchangedProfilesAgree` that the two readings of the file differ only in
what requests did since, whatever crashed before; `AcknowledgedProfilesStay` that
"created" was true, although the saves of the same request may have failed.

Bounds.  Two pull points are needed because requests reach the first one only and
because a dangling handler may meet the other one; three requests on one pull
point let a stale timeout meet a later pull; two changes of a source let messages
queue and be swapped out in different pulls; a burst of two is the smallest whose
tail is queued after its head was sent.  Requests are never reused: each one is
one exchange.  `MaxChanges`, `MaxProbes`, `MaxProfiles`, `MaxConfigs`, `MaxRequests`, `MaxClock`,
`MaxSearches` and one failed write in a row are the only bounds in guards, each
marked `bound`.  Three profiles are what a
repeated token needs (create, create, delete, create over one fixed profile).
Three datagrams (`MaxProbes`) let one be answered, one wait to be sent and a third
overtake it.  In `server`, two requests (`MaxRequests`) of the kinds that change
profiles, search or download are what its properties need: a creation that is told
and a change that fails after it, a search and one that follows, two downloads at a
time; starts, kills and failures are not counted.  `MaxProfiles` = 4 and
`MaxConfigs` = 8 are never reached there.  A day of two ticks and one tick
(`MaxClock`) put a tick between any two readings; a file of 4 half chunks has two
chunks to mix up.
Deadlock is not checked: the finite set of requests runs out, the process may
have ended, and a server with a torn file does not start.

The list of digital inputs is empty in the running server (nothing but a unit test
calls `read_digital_inputs`, `Server.cpp:226-247`, so the `DigitalInputs` section
that README.md describes has no effect on events).  The burst instances show what
the generator does with a list as the unit tests fill it; the others have the two
generators that the shipped `event.config` enables.

Fairness.  `FairSpec` assumes that an armed wait expires and that the io_context's
worker goes on running handlers: `NotificationsManager::Run` gives the io_context
a work guard and a thread of its own, so it never runs dry.  In
`PullPointThreads` it also assumes that each thread takes its next step, which
the operating system gives.  `FairSpec` of `Discovery` assumes that its thread runs
on, that the socket can be written again, and, strongly fair, that a receive does
not fail for ever while a datagram waits: each error is reported once.  Nothing is assumed about clients: they may stop.

`ServerSpec` assumes that the main thread goes on as long as its next step can be
taken (`Copies \/ Starts`), that the thread of an HTTP server gets to bind its port
or fails (`Listens`) and that the HTTP thread completes the handler it is in
(`Handles`): each is a thread of its own that waits for nobody but, once, for the
port.  Kills, failures and clients are not assumed.

Each property has a mutant: a definition marked `Mutant:` beside the one it
mutates, a plausible slip in that code, under which TLC finds the property
violated.  They are listed in `PROJECT.json` and used by no specification.

## 4. The proofs

`PullPointProofs` proves, for all values of the constants allowed by
`SourcesAssumption` and `DistinctAssumption`:

* `TypeCorrect`: `Spec => []TypeOK`
* `OpenPullAlwaysCovered`: `Spec => []OpenPullIsCovered`
* `WriterAlwaysOpen`: `Spec => []WriterIsOpen`
* `AlarmsRunForEver`: `Spec => []AlarmsNeverStop`
* `AnsweredOnce`: `Spec => RepliesAreFinal`

The inductive invariant `IInv` is the conjunction of these with `Registered`:
what `pullpoints` lists has been created and no pull point is listed twice.
`Registered` is needed for Unsubscribe: erasing the first element of the list must
make that pull point, and no other, not live.  `OpenPullIsCovered` and
`WriterIsOpen` need each other: that displacing a client leaves no second pull
point with the same exchange follows from the one, and that the exchange of a
waiting pull point is open, so that its answer is its first, from the other.
`AnsweredOnce` follows from `WriterIsOpen`: the only exchanges a step changes are
unsent ones and those a pull point holds, which are open.  There is one lemma per
action, and the facts about sequences they share are in `SequenceFacts`.

`DiscoveryProofs` proves, for all values allowed by `IdsAssumption`:

* `TypeCorrect`, `OneReceive`, `AnsweredOnce`: `Spec => []P` for `TypeOK`,
  `LoopHasOneReceive` and `AnsweredAtMostOnce`
* `AnswersAreRelated`: the same for `AnswersRelateToTheirProbes`, assuming that the
  replacement takes every id as it is (`PlainIds`), which the violation shows to be
  needed

Its `IInv` joins them with `BufferIsKept` (from the completion of a receive to its
handler the buffer holds the last datagram taken, which no answer exists for yet:
this follows from the loop having one receive, and makes the next answer new),
`AnswersAreOld` (every answer has a number and a MessageID given out before) and
`WaitingOrSent`.  `RInv` adds that RelatesTo is still found in the text and that what
waits is related to its probe.

`PullPointStreamProofs` proves, from the same assumptions and `SyncAssumption` (a
generator reports all the sources that it signals, in the code because both come
from one configuration entry):

* `StreamAlwaysInOrder`: `Spec => []StreamInOrder`
* `NothingEverMissed`: `Spec => []NothingMissed`
* `CoreImplementsSubscriptions`: `Spec => ImplementsSubscriptions`

The first two are statements about `stream \o events`, what was sent and what is queued.
`StreamInv` says of that history of each pull point that each message fits the one
before it of the same source (`InOrder`), that none is from the future (`Bounded`:
without it a synchronization point, which puts the present state behind what was
sent, could not be placed), that all sources are reported ones (`Reported`), and
of a live pull point that its last message of each source is the present state
(`UpToDate`).  A change is then appended behind its predecessor, a swap moves a
message from one part to the other, and a synchronization point replaces the queued
part by states that repeat or follow the last one sent.

The third needs `IInv` only.  `LogOfPullPoint` turns what is unsent into the queue;
each request is then the action of `Subscriptions` with its name, the timeout's
answer is `Expire`, on whatever pull point a dangling handler meets, and an alarm is
`Change`.  There an answer goes to whoever waits: that two pull points never hold
the same exchange, without which the answers of one alarm would contradict each
other, is `OpenPullIsCovered` (`WaitsOnce`).  Through `ServiceIsImplemented` the
statements of the handlers, run without overlap, implement `Subscriptions` too; that
last step is not stated as a theorem, because it needs this one under a substitution.

`MediaProfilesProofs` proves, from `ProfilesAssumption` and `ShippedAssumption` (the
shipped file is sound, and has its fixed profiles first):

* `TypeCorrect`, `ReferencesAlwaysExist`, `FixedProfilesAlwaysStay`,
  `FileAlwaysFollows`, `TokensStayDistinct`: `Spec => []P` for `TypeOK`,
  `ReferencesExist`, `FixedProfilesStay`, `FileFollowsMemory` and
  `TokensDistinctUntilDelete`

Its `IInv` says each thing of the file too, since a restart brings the file's state
back, and adds what the code never states: as long as nothing is deleted, in memory
and in the file the number in a created token is below the number of profiles
(`Fresh`), so that their count is a new one, also after a failed write and a restart.
`SavedSoFar` says that the file follows between the changes of one request too.
`Refers` covers types without a list too: only the shipped profiles name one, with an
empty token, which no answer shows.

`MediaReadersProofs` proves, from that `IInv`, `ReadersAssumption` and
`FilesAssumption` (the shipped files agree with each other: each video encoder is in
Media's list and has a stream, no encoder, stream or PTZ configuration has an empty
token, and no profile's token looks like a channel's):

* `ProfilesCanAlwaysBeListed`, `UseCountsAlwaysAddUp`: `Spec => []P` for
  `ProfilesCanBeListed` and `UseCountsAddUp`

Its lemmas about one answer hold of any sound tree, the manager's or a copy, and serve
the theorems about both in `OnvifServerProofs`.  No invariant beyond `IInv` is needed: what an answer says is a function of the
profiles.  The lemmas say what that function is.  A handler answers, or throws, just
as the references of the profile are in its list; the first and the last
configuration of a type are the same one when none repeats (`FirstIsLast`); a channel
token cleans to the token it was made of and to no other profile's.

`UseCountsAddUp` compares a sum over configurations with a number of profiles, made
by two handlers.  The sum is a cardinality here, of the uses of each configuration
numbered from one, so that no induction is needed: for each configuration there is a
bijection between its numbers and the profiles that name it, and together they are
one between all the numbers and all profiles with PTZ (`CountedByClass`).  Distinct
tokens (`Fresh`) are needed for the list, where a profile is shown as the first with
its token (`ListedWithPTZ`).

`PullPointThreadsProofs` proves, from `ThreadsAssumption` and
`SignalledOnceAssumption` (a source is signalled by one generator and once per alarm,
in the code because each generator has a topic of its own and inverts each entry of
its list once):

* `TypeCorrect`: `Spec => []TypeOK`, whether handlers overlap or not
* `MessageIdsCorrect`: `Spec => []AnswerCarriesItsMessageId`, overlap or not, when all
  requests are one client's.  With two, one client's pull stores `handler_` before
  `response_writer_` while the other thread answers the other's: the hypothesis is
  the run's and the property's own
* `NoChangeIsSentTwice`: `Spec => []NothingSentTwice`, overlap or not, for any clients
* `ServiceIsImplemented`: `Spec => ImplementsService` when `Overlap = FALSE`

For the ids, `IndId` adds which exchanges are held (`HeldAreOpen`: the two that the
handler on `H` and the pull point hold are open, and `handler_` belongs to the writer
as soon as there is one) and that a client has one exchange at a time (`OneAtATime`).

For what is sent, `IndOnce` follows each change through the places where it may be:
the queue, the `copied_events` of either thread, what was sent (`At`).  It is in one of
them and there once (`ChangesAreSingle`), its source has counted it
(`ChangesAreCounted`), and the one that `Notify` is about to queue is in none
(`NextIsNew`), which the other thread cannot change: it only clears the queue, moves
messages from one place to another (`MessagesMove`) and adds synchronization messages
(`QueueGrows`).  No more than that survives overlap: TLC finds runs in which the
messages go out in another order than they happened, one thread having swapped first
and written last, and runs in which one Response is written twice.  The repository
promises neither, so they are no properties here; serial handlers keep both
(`StreamInOrder`, `RepliesAreFinal`).

For the refinement, `SerialInv` says of each statement at which one handler may be
what has changed since it started, as a function of the state `B` that it started
from: `Pulling`, `Synchronizing`, `TimingOut` and `Alarming`, each the disjunction of
its stages, and `Answering` for the statements of `response_to_pullmessages`, which
three of the four go through on either thread.  Between handlers `Resting` says that
exactly the pull that waits has an open exchange (`Settled`).  From the stage before
its last statement follows that the last one completes the atomic action of
`PullPointService`; that every other statement is a stutter follows from `before`
alone.  The alarm is the hard case: its messages go out one by one, the first
answers the client and the rest queue behind, so its stages relate what is queued
and what is still to be sent to the whole burst (`events \o BurstRest(todo) =
B.events \o Burst`).

`OnvifServerProofs` proves, from these, `ServerAssumption` and
`ReadersAssumption`:

* `ProcessImplementsProfiles`: `ServerSpec => Spec`, so that the five theorems
  above hold of the process
* `ResultsAlwaysStable`, `RangesAlwaysSound`: `ServerSpec => []P` for
  `ResultsAreStable` and `RangesAreSound`, from `SearchInv` (every session is older
  than the counter and no later than the clock, tokens are distinct, each has its
  promise)
* `DownloadsAlwaysWhole`: the same for `DownloadsAreWhole`: what was got and what the
  Response holds are the chunks read so far, for any length of the file
* `ChangesAlwaysAdmitted`: `ServerSpec => ChangesAreAdmitted`, from `LoginInv`: while
  a request runs, its caller is one who was admitted
* `AcknowledgedAlwaysStay`: the same for `AcknowledgedProfilesStay`, from `AckInv`:
  what was told is in memory and in an intact file, and what the running request is
  about to tell is in memory; since a file is only ever written whole from the
  memory, a write can take nothing told away
* `AlwaysServesWhenReady`: the same for `ServesWhenReady`, from `LifeInv`, which says
  for each step of `Order` what is there when the main thread has reached it
* `UnchangedAlwaysAgree`: the same for `UnchangedProfilesAgree`, from `CopyInv`: once
  the copy is taken, looking up a token that no request named gives the same profile
  in both trees, and what a running request changes is a profile it named.  Deletions
  and insertions of others move indices but keep the first profile of each token, so
  the invariant speaks of `FirstOf` and not of positions
* `ListedIsAlwaysAccepted`, `ReadersAlwaysAgree`, `FaultsAreAlwaysTrue`: the same for
  `ListedIsAccepted`, `ReadersAgree` and `FaultsAreTrue`, from `Found`: while a server
  listens, the manager's tree is sound (`IInv`, with `ManagerInv`: the manager is there
  from `init` on), the copy is (`GoodCopy`: it was made of the file), and a token that
  no request named leads to the same profile in both (`CopyInv`).  What each handler
  answers of one sound tree is said by the lemmas of `MediaReadersProofs`
* `ServerTypeCorrect`: the same for `ServerTypeOK`, from all of these and the types of
  the parts; that there is a request just when a handler is under way
  (`RequestTypes`) is the one that steps of different parts could break

Only model-checked:

* liveness (`PullIsAnswered`, `EveryProbeIsAnswered`, `EveryStartEnds`,
  `EveryRequestEnds`), which with ENABLED is out of the prover's reach; so are the
  fairness conjuncts, and the theorems start from the specifications that `FairSpec`
  and `ServerSpec` strengthen or contain;
* the five violations, which are counterexamples.

No module declares a RECURSIVE operator.

## 5. Plan

1. Done: every module of section 2, its runs, and the proofs of section 4.
2. Done: `Subscriptions`, the abstract specification of the core, with the proof that
   the core implements it.  Left to say by transitivity: the threads without overlap.
3. Begun, with `IndId` and `IndOnce`: what survives overlap, as invariants of the
   overlapping threads: which members a race leaves consistent.
4. A third thread in `PullPointThreads` for the separate events port and delayed
   requests; Unsubscribe there.

## 6. Not modelled

* `XmlParser`, `SoapHelper`, `find_hierarchy` and the like: tree walks without state,
  whose results the handlers' operators take for granted.
* Device, DeviceIO, Imaging and Replay Control: each handler renders text of a
  configuration that nothing changes.
* The handlers of Media2, Media and PTZ that answer with constants or do nothing
  (capabilities, analytics, movements).
* The parsing of the Authorization header: `verifyDigest` looks up the login only, as
  its TODO says.
* The GStreamer pipelines, which are strings that GStreamer runs; logging; dates as
  text.
* Time: an armed wait may expire at any moment, and nothing is shown about how long
  anything takes.  The delayed dispatch of event requests on the io_context thread,
  and the second HTTP thread of a separate port for pull points, appear in
  `OnvifServer` only as threads of the start.
