------------------------------ MODULE Subscriptions ------------------------------
(***************************************************************************)
(* What the notification core promises its clients, without its timers,    *)
(* queues, addresses and alarms: a subscription is a log of messages with  *)
(* a position.  Each change of a source puts its messages at the end of    *)
(* every live log; a pull is answered with all that stands behind the      *)
(* position and moves it to the end, or waits; a synchronization point     *)
(* replaces what stands behind the position by the present states.         *)
(* PullPointSubscriptions shows that PullPointService implements it.       *)
(***************************************************************************)
EXTENDS Integers, Sequences, Functions

CONSTANTS
  PullPoints,   \* subscriptions
  Requests,     \* exchanges
  Bursts,       \* the lists of sources that change together
  Reported,     \* the sources a synchronization point reports, in order
  Sensed,       \* those of which it reports the actual state
  None

VARIABLES
  subscribed,   \* subscriptions made so far
  live,         \* those not ended
  log,          \* all messages of a subscription that were sent or will be
  read,         \* how many of them have been sent
  waiting,      \* the exchange that waits for the next one, or None
  answer,       \* what each exchange has been answered
  value,        \* the state of each source
  count         \* how often it changed

world == <<value, count>>
logs == <<log, read, waiting>>
vars == <<subscribed, live, logs, answer, world>>

-----------------------------------------------------------------------------

Bare(status) == [status |-> status, messages |-> <<>>]
Given(messages) == [status |-> "messages", messages |-> messages]
Unsent == Bare("unsent")

Rest(p) == SubSeq(log[p], read[p] + 1, Len(log[p]))
Sent(p) == SubSeq(log[p], 1, read[p])

\* An exchange that waits at p gives way without an answer.
Displaced(p) == IF waiting[p] = None
                THEN answer
                ELSE [answer EXCEPT ![waiting[p]] = Bare("dropped")]

Changes(burst) ==
  [i \in DOMAIN burst |-> [op |-> "Changed", source |-> burst[i],
                           value |-> ~value[burst[i]], stamp |-> count[burst[i]] + 1]]

Present ==
  [i \in DOMAIN Reported |-> [op |-> "Initialized", source |-> Reported[i],
                              value |-> Reported[i] \in Sensed /\ value[Reported[i]],
                              stamp |-> count[Reported[i]]]]

Init ==
  /\ subscribed = {} /\ live = {}
  /\ log = [p \in PullPoints |-> <<>>]
  /\ read = [p \in PullPoints |-> 0]
  /\ waiting = [p \in PullPoints |-> None]
  /\ \A r \in Requests : answer[r] = Unsent

-----------------------------------------------------------------------------
(* Exchanges.                                                              *)

Subscribe(r, p) ==
  /\ p \notin subscribed
  /\ subscribed' = subscribed \cup {p} /\ live' = live \cup {p}
  /\ answer' = [answer EXCEPT ![r] = Bare("ok")]
  /\ UNCHANGED <<logs, world>>

\* What has not been sent is given up.
Unsubscribe(r, p) ==
  /\ live' = live \ {p}
  /\ log' = [log EXCEPT ![p] = Sent(p)]
  /\ waiting' = [waiting EXCEPT ![p] = None]
  /\ answer' = [Displaced(p) EXCEPT ![r] = Bare("ok")]
  /\ UNCHANGED <<subscribed, read, world>>

Pull(r, p) ==
  /\ Rest(p) # <<>>
  /\ read' = [read EXCEPT ![p] = Len(log[p])]
  /\ waiting' = [waiting EXCEPT ![p] = None]
  /\ answer' = [Displaced(p) EXCEPT ![r] = Given(Rest(p))]
  /\ UNCHANGED <<subscribed, live, log, world>>

Wait(r, p) ==
  /\ Rest(p) = <<>>
  /\ waiting' = [waiting EXCEPT ![p] = r]
  /\ answer' = [Displaced(p) EXCEPT ![r] = Bare("open")]
  /\ UNCHANGED <<subscribed, live, log, read, world>>

Synchronize(r, p) ==
  /\ log' = [log EXCEPT ![p] = Sent(p) \o Present]
  /\ answer' = [answer EXCEPT ![r] = Bare("ok")]
  /\ UNCHANGED <<subscribed, live, read, waiting, world>>

\* An exchange that reaches no subscription.
AnswerAlone(r) ==
  /\ \E status \in {"ok", "fault", "dropped"} : answer' = [answer EXCEPT ![r] = Bare(status)]
  /\ UNCHANGED <<subscribed, live, logs, world>>

Exchange(r) ==
  /\ answer[r] = Unsent
  /\ \/ \E p \in PullPoints : Subscribe(r, p)
     \/ \E p \in live : Unsubscribe(r, p) \/ Pull(r, p) \/ Wait(r, p) \/ Synchronize(r, p)
     \/ AnswerAlone(r)

-----------------------------------------------------------------------------
(* Time.                                                                   *)

\* The wait of an exchange ends, by its own timeout or by one that came late: it
\* gets what is there.
Expire(p) ==
  /\ waiting[p] # None
  /\ read' = [read EXCEPT ![p] = Len(log[p])]
  /\ waiting' = [waiting EXCEPT ![p] = None]
  /\ answer' = [answer EXCEPT ![waiting[p]] = Given(Rest(p))]
  /\ UNCHANGED <<subscribed, live, log, world>>

\* The sources of a burst change: all live logs get the same messages, and each
\* exchange that waits is answered with the first of them and all before it.
Change(burst) ==
  LET told == {p \in live : waiting[p] # None /\ burst # <<>>} IN
  /\ value' = [s \in DOMAIN value |-> IF s \in Range(burst) THEN ~value[s] ELSE value[s]]
  /\ count' = [s \in DOMAIN count |-> IF s \in Range(burst) THEN count[s] + 1 ELSE count[s]]
  /\ log' = [p \in PullPoints |-> IF p \in live THEN log[p] \o Changes(burst) ELSE log[p]]
  /\ read' = [p \in PullPoints |-> IF p \in told THEN Len(log[p]) + 1 ELSE read[p]]
  /\ waiting' = [p \in PullPoints |-> IF p \in told THEN None ELSE waiting[p]]
  /\ \A p \in told : answer'[waiting[p]] = Given(Append(Rest(p), Head(Changes(burst))))
  /\ \A r \in Requests : (\A p \in told : waiting[p] # r) => answer'[r] = answer[r]
  /\ UNCHANGED <<subscribed, live>>

Next ==
  \/ \E r \in Requests : Exchange(r)
  \/ \E p \in live : Expire(p)
  \/ \E burst \in Bursts : Change(burst)

Spec == Init /\ [][Next]_vars

=============================================================================
