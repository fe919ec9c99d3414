---------------------------- MODULE RecordingSearch ----------------------------
(***************************************************************************)
(* The Recording Search service: its handlers                              *)
(* (onvif_services/recording_search_service.cpp) over the recordings and   *)
(* their search sessions (onvif/Recording.{h,cpp}).                        *)
(*                                                                         *)
(* A recording without dates covers the last 24 hours before now, so it    *)
(* moves with the clock.  FindEvents fixes the range as it is in a session *)
(* and answers with a token; the results are asked for later by the token. *)
(* Sessions are never removed.  All of it is in memory only.               *)
(***************************************************************************)
EXTENDS Integers, FiniteSets

CONSTANTS
  Recordings,   \* the recordings of the file, as a sequence of [token, from, until];
                \* a time or NoDate
  Day,          \* 24 hours, in ticks of the clock
  MaxClock, MaxSearches   \* bounds

NoDate == -1

\* Assumed by OnvifServer and by the theorems.
RecordingsAssumption ==
  /\ 1 \in DOMAIN Recordings
  /\ Day \in Nat \ {0}
  /\ \A i \in DOMAIN Recordings :
       LET r == Recordings[i] IN
       \/ {r.from, r.until} = {NoDate}
       \/ r.from \in Nat /\ r.until \in Nat /\ r.from <= r.until

VARIABLES
  clock,
  searchSessions,  \* of the first recording: [token, from, until]
  searchToken,     \* its counter
  findToken,       \* the counter of FindRecordings
  promised         \* history: the events that a token stood for when it was sent

searchVars == <<clock, searchSessions, searchToken, findToken, promised>>

Init ==
  /\ clock = 0
  /\ searchSessions = {}
  /\ searchToken = 0
  /\ findToken = 0
  /\ promised = {}

-----------------------------------------------------------------------------

\* Each reads the clock by itself.
\* Mutant: the 24 hours are added.
DateTomorrow(recording, now) == IF recording.from = NoDate THEN now + Day ELSE recording.from
DateFrom(recording, now) == IF recording.from = NoDate THEN now - Day ELSE recording.from
DateUntil(recording, now) == IF recording.until = NoDate THEN now ELSE recording.until

\* The events of a session: the recording begins and ends.
\* Mutant: the events are those of the recording as it is now.
EventsNow(session) ==
  <<[time |-> DateFrom(Recordings[1], clock), isDataPresent |-> TRUE],
    [time |-> DateUntil(Recordings[1], clock), isDataPresent |-> FALSE]>>
Events(session) == <<[time |-> session.from, isDataPresent |-> TRUE],
                     [time |-> session.until, isDataPresent |-> FALSE]>>

\* std::set orders the sessions by their addresses: of several with the token, any.
\* None, and GetEventSearchResults throws.
SearchSession(token) == {s \in searchSessions : s.token = token}
GetEventSearchResults(token) == {Events(s) : s \in SearchSession(token)}

\* What GetRecordingSearchResults says of the first recording: the dates are read
\* twice, and a second may begin anywhere in between.
GetRecordingSearchResults(now, later) ==
  [earliest |-> DateFrom(Recordings[1], now), latest |-> DateUntil(Recordings[1], now),
   dataFrom |-> DateFrom(Recordings[1], later), dataTo |-> DateUntil(Recordings[1], later)]

\* The counter goes on after a session has its token.
NextToken == searchToken + 1

\* The two dates are arguments of one call: either may be read first, and the clock
\* may tick in between.
FindEvents ==
  /\ searchToken < MaxSearches   \* bound
  /\ \E from, until \in {clock, clock + 1} :
       LET session == [token |-> searchToken, from |-> DateFrom(Recordings[1], from),
                       until |-> DateUntil(Recordings[1], until)] IN
       /\ clock' = (IF clock + 1 \in {from, until} THEN clock + 1 ELSE clock)
       /\ clock' <= MaxClock   \* bound
       /\ searchSessions' = searchSessions \cup {session}
       /\ promised' = promised \cup {[token |-> searchToken, events |-> Events(session)]}
  /\ searchToken' = NextToken
  /\ UNCHANGED findToken

\* A token from a counter of its own, of no session.
FindRecordings ==
  /\ findToken < MaxSearches   \* bound
  /\ findToken' = findToken + 1
  /\ UNCHANGED <<clock, searchSessions, searchToken, promised>>

Tick ==
  /\ clock < MaxClock   \* bound
  /\ clock' = clock + 1
  /\ UNCHANGED <<searchSessions, searchToken, findToken, promised>>

\* The process ends: the next one counts from 0 again.
Forget ==
  /\ searchSessions' = {}
  /\ searchToken' = 0
  /\ findToken' = 0
  /\ promised' = {}
  /\ UNCHANGED clock

Next == FindEvents \/ FindRecordings \/ Tick \/ Forget

Spec == Init /\ [][Next]_searchVars

-----------------------------------------------------------------------------
(* Properties.                                                             *)

TypeOK ==
  /\ clock \in Nat
  /\ searchSessions \subseteq [token : Nat, from : Int, until : Int]
  /\ IsFiniteSet(searchSessions)
  /\ {searchToken, findToken} \subseteq Nat
  /\ \A p \in promised : p.token \in Nat

\* A token leads to its own search, however late it is used and whatever was searched
\* since: the results stay what they were when the token was sent, though the
\* recording has moved on.
ResultsAreStable == \A p \in promised : GetEventSearchResults(p.token) = {p.events}

\* A range that was found is one, whichever date was read first and with a second
\* beginning in between, and GetRecordingSearchResults, its four readings included,
\* never falls behind it.
RangesAreSound ==
  \A s \in searchSessions :
    LET shown == GetRecordingSearchResults(clock, clock + 1) IN
    /\ s.from <= s.until
    /\ s.from <= shown.earliest /\ s.until <= shown.latest
    /\ s.from <= shown.dataFrom /\ s.until <= shown.dataTo

===============================================================================
