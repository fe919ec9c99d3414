---------------------------- MODULE OnvifServerProofs ----------------------------
(***************************************************************************)
(* Proofs about the whole process, OnvifServer, for any values of the      *)
(* constants.                                                              *)
(***************************************************************************)
EXTENDS OnvifServer, MediaReadersProofs, FiniteSetTheorems

-----------------------------------------------------------------------------
(* The process implements MediaProfiles.                                   *)

\* A step of the process is one of MediaProfiles, or leaves its variables alone.
LEMMA ProfilesStep == [ServerNext]_serverVars => [Next]_vars
<1> SUFFICES ASSUME [ServerNext]_serverVars PROVE [Next]_vars
  OBVIOUS
<1>1. CASE Copies \/ Starts \/ StartFails \/ Listens
  BY <1>1 DEF Copies, Starts, StartFails, Listens, LifeOnly
<1>2. CASE ProcessEnds
  BY <1>2 DEF ProcessEnds, Next
<1>3. CASE Constructs \/ ConstructFails
  BY <1>3 DEF Constructs, ConstructFails, LifeOnly, Next
<1>4. ASSUME NEW login \in Logins, NEW list \in {l \in AddLists : Len(l) <= 1},
             CallsCreateProfile(login, list)
      PROVE  Next
  BY <1>4 DEF CallsCreateProfile, Next
<1>5. ASSUME NEW login \in Logins, NEW token \in ProfileTokens,
             \/ CallsDeleteProfile(login, token)
             \/ \E list \in AddLists : CallsAddConfiguration(login, token, list)
             \/ \E type \in RequestedTypes, config \in RequestedTokens \cup {""} :
                  CallsRemoveConfiguration(login, token, type, config)
      PROVE  Next
  BY <1>5 DEF CallsDeleteProfile, CallsAddConfiguration, CallsRemoveConfiguration, Next
<1>6. ASSUME NEW login \in Logins, CallsSetConfiguration(login) \/ Searches(login)
      PROVE  [Next]_vars
  BY <1>6 DEF CallsSetConfiguration, Searches, OtherOnly, Next
<1>7. CASE Handles
  BY <1>7 DEF Handles, Next
<1>8. CASE Ticks \/ \E d \in Downloads : AsksForSnapshot(d) \/ Sends(d)
  BY <1>8 DEF Ticks, AsksForSnapshot, Sends, OtherOnly
<1>9. CASE UNCHANGED serverVars
  BY <1>9 DEF serverVars
<1> QED
  BY <1>1, <1>2, <1>3, <1>4, <1>5, <1>6, <1>7, <1>8, <1>9 DEF ServerNext

\* What is proved of MediaProfiles holds in the process, with its start, its other
\* requests and their dispatch.
THEOREM ProcessImplementsProfiles == ServerSpec => Spec
<1>1. ServerInit => Init
  BY DEF ServerInit
<1> QED
  BY <1>1, ProfilesStep, PTL DEF ServerSpec, Spec

-----------------------------------------------------------------------------
(* Recording search.                                                       *)

\* The dates of a recording are integers, and a later reading shows no earlier date.
LEMMA DatesGrow ==
  ASSUME NEW now \in Nat, NEW later \in Nat, now <= later
  PROVE  LET r == Recordings[1] IN
         /\ Search!DateFrom(r, now) \in Int
         /\ Search!DateUntil(r, now) \in Int
         /\ Search!DateFrom(r, now) <= Search!DateFrom(r, later)
         /\ Search!DateUntil(r, now) <= Search!DateUntil(r, later)
<1> DEFINE r == Recordings[1]
<1>1. /\ Day \in Nat \ {0}
      /\ \/ {r.from, r.until} = {-1}
         \/ r.from \in Nat /\ r.until \in Nat /\ r.from <= r.until
  BY ServerAssumption DEF Search!RecordingsAssumption, Search!NoDate
<1>2. CASE {r.from, r.until} = {-1}
  <2>1. r.from = -1 /\ r.until = -1
    BY <1>2
  <2> QED
    BY <2>1, <1>1 DEF Search!DateFrom, Search!DateUntil, Search!NoDate
<1>3. CASE r.from \in Nat /\ r.until \in Nat /\ r.from <= r.until
  <2>1. r.from # -1 /\ r.until # -1
    BY <1>3
  <2> QED
    BY <2>1, <1>3 DEF Search!DateFrom, Search!DateUntil, Search!NoDate
<1> QED
  BY <1>1, <1>2, <1>3

\* Whichever of the two dates is read first, and with a second beginning in between.
LEMMA RangeIsOne ==
  ASSUME NEW now \in Nat, NEW a \in {now, now + 1}, NEW b \in {now, now + 1}
  PROVE  Search!DateFrom(Recordings[1], a) <= Search!DateUntil(Recordings[1], b)
<1> DEFINE r == Recordings[1]
<1>1. /\ Day \in Nat \ {0}
      /\ \/ {r.from, r.until} = {-1}
         \/ r.from \in Nat /\ r.until \in Nat /\ r.from <= r.until
  BY ServerAssumption DEF Search!RecordingsAssumption, Search!NoDate
<1>2. CASE {r.from, r.until} = {-1}
  <2>1. r.from = -1 /\ r.until = -1
    BY <1>2
  <2>2. Search!DateFrom(r, a) = a - Day /\ Search!DateUntil(r, b) = b
    BY <2>1 DEF Search!DateFrom, Search!DateUntil, Search!NoDate
  <2> QED
    BY <2>2, <1>1
<1>3. CASE r.from \in Nat /\ r.until \in Nat /\ r.from <= r.until
  <2>1. r.from # -1 /\ r.until # -1
    BY <1>3
  <2> QED
    BY <2>1, <1>3 DEF Search!DateFrom, Search!DateUntil, Search!NoDate
<1> QED
  BY <1>1, <1>2, <1>3

\* A session's range is one, and within the recording as it is shown at the time.
WithinShown(s, now) ==
  /\ s.from \in Int /\ s.until \in Int
  /\ s.from <= s.until
  /\ s.from <= Search!DateFrom(Recordings[1], now)
  /\ s.until <= Search!DateUntil(Recordings[1], now)

LEMMA StaysWithin ==
  ASSUME NEW now \in Nat, NEW later \in Nat, now <= later, NEW s, WithinShown(s, now)
  PROVE  WithinShown(s, later)
<1>1. /\ Search!DateFrom(Recordings[1], now) <= Search!DateFrom(Recordings[1], later)
      /\ Search!DateUntil(Recordings[1], now) <= Search!DateUntil(Recordings[1], later)
      /\ Search!DateFrom(Recordings[1], now) \in Int
      /\ Search!DateUntil(Recordings[1], now) \in Int
  BY DatesGrow
<1>2. Search!DateFrom(Recordings[1], later) \in Int /\ Search!DateUntil(Recordings[1], later) \in Int
  BY DatesGrow
<1> QED
  BY <1>1, <1>2 DEF WithinShown

\* Each token that was sent has one session, which the promise was made of, and the
\* counter is ahead of all of them.
SearchInv ==
  /\ clock \in Nat
  /\ searchToken \in Nat
  /\ \A s \in searchSessions : /\ s.token \in Nat /\ s.token < searchToken
                               /\ WithinShown(s, clock)
  /\ \A s, t \in searchSessions : s.token = t.token => s = t
  /\ \A p \in promised : \E s \in searchSessions :
       s.token = p.token /\ Search!Events(s) = p.events

LEMMA FindEventsInv == SearchInv /\ Search!FindEvents => SearchInv'
<1> SUFFICES ASSUME SearchInv, Search!FindEvents PROVE SearchInv'
  OBVIOUS
<1>1. PICK from \in {clock, clock + 1}, until \in {clock, clock + 1} :
        LET session == [token |-> searchToken, from |-> Search!DateFrom(Recordings[1], from),
                        until |-> Search!DateUntil(Recordings[1], until)] IN
        /\ clock' = IF clock + 1 \in {from, until} THEN clock + 1 ELSE clock
        /\ searchSessions' = searchSessions \cup {session}
        /\ promised' = promised \cup {[token |-> searchToken, events |-> Search!Events(session)]}
  BY DEF Search!FindEvents
<1> DEFINE session == [token |-> searchToken, from |-> Search!DateFrom(Recordings[1], from),
                       until |-> Search!DateUntil(Recordings[1], until)]
<1>2. searchToken \in Nat /\ searchToken' = searchToken + 1
  BY DEF SearchInv, Search!FindEvents, Search!NextToken
<1>3. /\ clock \in Nat /\ clock' \in Nat /\ clock <= clock'
      /\ from \in Nat /\ from <= clock' /\ until \in Nat /\ until <= clock'
  BY <1>1 DEF SearchInv
<1>4. session.token = searchToken
  OBVIOUS
<1>5. WithinShown(session, clock')
  <2>1. /\ Search!DateFrom(Recordings[1], from) \in Int
        /\ Search!DateFrom(Recordings[1], from) <= Search!DateFrom(Recordings[1], clock')
    BY <1>3, DatesGrow
  <2>2. /\ Search!DateUntil(Recordings[1], until) \in Int
        /\ Search!DateUntil(Recordings[1], until) <= Search!DateUntil(Recordings[1], clock')
    BY <1>3, DatesGrow
  <2>3. Search!DateFrom(Recordings[1], from) <= Search!DateUntil(Recordings[1], until)
    BY <1>3, RangeIsOne
  <2> QED
    BY <2>1, <2>2, <2>3 DEF WithinShown
<1> HIDE DEF session
<1>6. /\ searchSessions' = searchSessions \cup {session}
      /\ promised' = promised \cup {[token |-> searchToken, events |-> Search!Events(session)]}
  BY <1>1 DEF session
<1>7. ASSUME NEW s \in searchSessions'
      PROVE  s.token \in Nat /\ s.token < searchToken' /\ WithinShown(s, clock')
  <2>1. CASE s \in searchSessions
    BY <2>1, <1>2, <1>3, StaysWithin DEF SearchInv
  <2>2. CASE s = session
    BY <2>2, <1>2, <1>4, <1>5
  <2> QED
    BY <2>1, <2>2, <1>6
<1>8. \A s, t \in searchSessions' : s.token = t.token => s = t
  BY <1>2, <1>4, <1>6 DEF SearchInv
<1>9. ASSUME NEW p \in promised'
      PROVE  \E s \in searchSessions' : s.token = p.token /\ Search!Events(s) = p.events
  <2>1. CASE p \in promised
    BY <2>1, <1>6 DEF SearchInv
  <2>2. CASE p = [token |-> searchToken, events |-> Search!Events(session)]
    <3>1. p.token = searchToken /\ p.events = Search!Events(session)
      BY <2>2
    <3> QED
      BY <3>1, <1>4, <1>6
  <2> QED
    BY <2>1, <2>2, <1>6
<1> QED
  BY <1>2, <1>3, <1>7, <1>8, <1>9 DEF SearchInv

LEMMA TickInv == SearchInv /\ Search!Tick => SearchInv'
<1> SUFFICES ASSUME SearchInv, Search!Tick PROVE SearchInv'
  OBVIOUS
<1>1. clock \in Nat /\ clock' = clock + 1
  BY DEF SearchInv, Search!Tick
<1>2. /\ searchSessions' = searchSessions
      /\ searchToken' = searchToken
      /\ promised' = promised
  BY DEF Search!Tick
<1>3. \A s \in searchSessions : WithinShown(s, clock')
  BY <1>1, StaysWithin DEF SearchInv
<1> QED
  BY <1>1, <1>2, <1>3 DEF SearchInv

\* No other step makes or changes a session.
LEMMA SearchStep ==
  ASSUME SearchInv, [ServerNext]_serverVars
  PROVE  SearchInv'
<1>1. CASE Search!FindEvents
  BY <1>1, FindEventsInv
<1>2. CASE Search!Tick
  BY <1>2, TickInv
<1>3. CASE Search!Forget
  BY <1>3 DEF Search!Forget, SearchInv
<1>4. CASE UNCHANGED <<clock, searchSessions, searchToken, promised>>
  BY <1>4 DEF SearchInv
<1>5. \/ Search!FindEvents \/ Search!Tick \/ Search!Forget
      \/ UNCHANGED <<clock, searchSessions, searchToken, promised>>
  BY DEF ServerNext, Copies, Starts, StartFails, Listens, ProcessEnds, Constructs, ConstructFails,
         LifeOnly, CallsCreateProfile, CallsDeleteProfile, CallsAddConfiguration,
         CallsRemoveConfiguration, CallsSetConfiguration, Calls, Searches, Handles, HandlerOnly,
         Ticks, AsksForSnapshot, Sends, searchVars, serverVars, Search!FindRecordings
<1> QED
  BY <1>1, <1>2, <1>3, <1>4, <1>5

LEMMA SpecSearchInv == ServerSpec => []SearchInv
<1>1. ServerInit => SearchInv
  BY DEF ServerInit, Search!Init, SearchInv
<1>2. SearchInv /\ [ServerNext]_serverVars => SearchInv'
  BY SearchStep
<1> QED
  BY <1>1, <1>2, PTL DEF ServerSpec

\* However late a token is used, and whatever else was searched, it leads to what was
\* found for it, until the process ends.
THEOREM ResultsAlwaysStable == ServerSpec => []ResultsAreStable
<1>1. SearchInv => ResultsAreStable
  <2> SUFFICES ASSUME SearchInv, NEW p \in promised
               PROVE  Search!GetEventSearchResults(p.token) = {p.events}
    BY DEF ResultsAreStable, Search!ResultsAreStable
  <2>1. PICK s \in searchSessions : s.token = p.token /\ Search!Events(s) = p.events
    BY DEF SearchInv
  <2>2. Search!SearchSession(p.token) = {s}
    BY <2>1 DEF SearchInv, Search!SearchSession
  <2> QED
    BY <2>1, <2>2 DEF Search!GetEventSearchResults
<1> QED
  BY <1>1, SpecSearchInv, PTL

\* A search never finds a range that is turned around, or one that goes beyond what is
\* shown of the recording, whenever the clock ticks between its readings.
THEOREM RangesAlwaysSound == ServerSpec => []RangesAreSound
<1>1. SearchInv => RangesAreSound
  <2> SUFFICES ASSUME SearchInv PROVE RangesAreSound
    OBVIOUS
  <2>1. clock \in Nat /\ clock + 1 \in Nat /\ clock <= clock + 1
    BY DEF SearchInv
  <2>2. \A s \in searchSessions : WithinShown(s, clock) /\ WithinShown(s, clock + 1)
    BY <2>1, StaysWithin DEF SearchInv
  <2> QED
    BY <2>2 DEF RangesAreSound, Search!RangesAreSound, Search!GetRecordingSearchResults, WithinShown
<1> QED
  BY <1>1, SpecSearchInv, PTL

-----------------------------------------------------------------------------
(* The snapshot.                                                           *)

\* The first chunks of the file.
Chunked(n) == [i \in 1..n |-> i]

\* Of a download that goes on the client has all chunks but the one that was read last,
\* which is in its Response; the buffer does not come in.
DownloadInv(r) ==
  /\ r.read \in Nat /\ r.read <= Snapshot!Chunks
  /\ r.state \in {"none", "sending", "ending", "done"}
  /\ r.state = "none" => r.got = <<>>
  /\ r.state \in {"sending", "ending"} =>
       /\ r.read > 0
       /\ r.response = <<r.read>>
       /\ r.got = Chunked(r.read - 1)
  /\ r.state = "ending" => r.read = Snapshot!Chunks
  /\ r.state = "done" => r.got = Chunked(Snapshot!Chunks)

SnapshotInv ==
  /\ DOMAIN download = Downloads
  /\ \A d \in Downloads : DownloadInv(download[d]) /\ (download[d].state = "none" => download[d].read = 0)

LEMMA ChunksType == Snapshot!Chunks \in Nat /\ 2 * Snapshot!Chunks <= Length + 1 /\ Length <= 2 * Snapshot!Chunks
BY ServerAssumption DEF Snapshot!DownloadsAssumption, Snapshot!Chunks

\* One more chunk.
LEMMA ChunkedGrows ==
  ASSUME NEW n \in Nat, n > 0
  PROVE  Chunked(n - 1) \o <<n>> = Chunked(n)
<1>1. Chunked(n - 1) \in Seq(Nat) /\ Len(Chunked(n - 1)) = n - 1
  BY DEF Chunked
<1>2. <<n>> \in Seq(Nat) /\ Len(<<n>>) = 1 /\ <<n>>[1] = n
  OBVIOUS
<1>3. Chunked(n) \in Seq(Nat) /\ Len(Chunked(n)) = n
  BY DEF Chunked
<1> DEFINE longer == Chunked(n - 1) \o <<n>>
<1>4. /\ longer \in Seq(Nat)
      /\ Len(longer) = Len(Chunked(n - 1)) + Len(<<n>>)
      /\ \A i \in 1..Len(Chunked(n - 1)) + Len(<<n>>) :
           longer[i] = IF i <= Len(Chunked(n - 1)) THEN Chunked(n - 1)[i]
                       ELSE <<n>>[i - Len(Chunked(n - 1))]
  BY <1>1, <1>2, ConcatProperties
<1> HIDE DEF longer
<1>5. ASSUME NEW i \in 1..n
      PROVE  longer[i] = IF i <= n - 1 THEN Chunked(n - 1)[i] ELSE <<n>>[i - (n - 1)]
  <2>1. i \in 1..(n - 1) + 1
    OBVIOUS
  <2> QED
    BY <2>1, <1>1, <1>2, <1>4
<1>6. ASSUME NEW i \in 1..n PROVE longer[i] = Chunked(n)[i]
  <2>1. CASE i <= n - 1
    <3>1. i \in 1..(n - 1)
      BY <2>1
    <3>2. Chunked(n - 1)[i] = i /\ Chunked(n)[i] = i
      BY <3>1 DEF Chunked
    <3> QED
      BY <2>1, <3>2, <1>5
  <2>2. CASE i = n
    <3>1. i - (n - 1) = 1 /\ ~(i <= n - 1)
      BY <2>2
    <3>2. longer[i] = <<n>>[i - (n - 1)]
      BY <3>1, <1>5
    <3> QED
      BY <2>2, <3>1, <3>2, <1>2 DEF Chunked
  <2> QED
    BY <2>1, <2>2
<1>7. Len(longer) = n
  BY <1>1, <1>2, <1>4
<1>8. longer = Chunked(n)
  BY <1>3, <1>4, <1>6, <1>7, SeqEqual
<1> QED
  BY <1>8 DEF longer

\* read_and_send, when all that was read before has been sent.
LEMMA ReadAndSendInv ==
  ASSUME NEW d \in Downloads, SnapshotInv, NEW got, got = Chunked(download[d].read),
         Snapshot!ReadAndSend(d, got)
  PROVE  SnapshotInv'
<1> DEFINE chunk == download[d].read + 1
<1>1. download[d].read \in Nat /\ download[d].read <= Snapshot!Chunks /\ DOMAIN download = Downloads
  BY DEF SnapshotInv, DownloadInv
<1>2. Snapshot!Chunks \in Nat /\ Length <= 2 * Snapshot!Chunks /\ Length \in Nat
  BY ChunksType, ServerAssumption DEF Snapshot!DownloadsAssumption
<1>3. CASE chunk > Snapshot!Chunks
  <2> DEFINE r == [state |-> "done", read |-> download[d].read, response |-> <<>>, got |-> got]
  <2>1. download' = [download EXCEPT ![d] = r]
    BY <1>3 DEF Snapshot!ReadAndSend
  <2>2. download[d].read = Snapshot!Chunks
    BY <1>1, <1>2, <1>3
  <2>3. DownloadInv(r) /\ r.state # "none"
    BY <1>1, <2>2 DEF DownloadInv
  <2> QED
    BY <2>1, <2>3, <1>1 DEF SnapshotInv, DownloadInv
<1>4. CASE ~(chunk > Snapshot!Chunks)
  <2> DEFINE r == [state |-> IF Snapshot!IsFull(chunk) THEN "sending" ELSE "ending",
                   read |-> chunk, response |-> <<chunk>>, got |-> got]
  <2>1. download' = [download EXCEPT ![d] = r]
    BY <1>4 DEF Snapshot!ReadAndSend
  <2>2. chunk \in Nat /\ chunk > 0 /\ chunk <= Snapshot!Chunks /\ chunk - 1 = download[d].read
    BY <1>1, <1>2, <1>4
  <2>3. ~Snapshot!IsFull(chunk) => chunk = Snapshot!Chunks
    <3>1. 2 * Snapshot!Chunks <= Length + 1
      BY ChunksType
    <3>2. ~Snapshot!IsFull(chunk) => 2 * chunk > Length
      BY <1>2, <2>2 DEF Snapshot!IsFull
    <3> QED
      BY <3>1, <3>2, <1>2, <2>2
  <2> HIDE DEF chunk
  <2>4. DownloadInv(r) /\ r.state # "none"
    BY <2>2, <2>3 DEF DownloadInv
  <2> QED
    BY <2>1, <2>4, <1>1 DEF SnapshotInv, DownloadInv
<1> QED
  BY <1>3, <1>4

LEMMA GetSnapshotInv ==
  ASSUME NEW d \in Downloads, SnapshotInv, Snapshot!GetSnapshot(d)
  PROVE  SnapshotInv'
<1>1. download[d].read = 0 /\ Snapshot!ReadAndSend(d, <<>>)
  BY DEF Snapshot!GetSnapshot, SnapshotInv
<1>2. <<>> = Chunked(0)
  BY DEF Chunked
<1> QED
  BY <1>1, <1>2, ReadAndSendInv

LEMMA SentInv ==
  ASSUME NEW d \in Downloads, SnapshotInv, Snapshot!Sent(d)
  PROVE  SnapshotInv'
<1> DEFINE r == download[d]
<1>1. /\ r.read \in Nat /\ r.read > 0
      /\ r.response = <<r.read>>
      /\ r.got = Chunked(r.read - 1)
  BY DEF Snapshot!Sent, SnapshotInv, DownloadInv
<1>2. r.got \o Snapshot!Copied(r.response) = Chunked(r.read)
  BY <1>1, ChunkedGrows DEF Snapshot!Copied
<1> QED
  BY <1>2, ReadAndSendInv DEF Snapshot!Sent

LEMMA EndsInv ==
  ASSUME NEW d \in Downloads, SnapshotInv, Snapshot!Ends(d)
  PROVE  SnapshotInv'
<1> DEFINE r == download[d]
           sent == [state |-> "done", read |-> r.read, response |-> <<>>,
                    got |-> r.got \o Snapshot!Copied(r.response)]
<1>1. /\ r.read \in Nat /\ r.read > 0 /\ r.read = Snapshot!Chunks
      /\ r.response = <<r.read>>
      /\ r.got = Chunked(r.read - 1)
  BY DEF Snapshot!Ends, SnapshotInv, DownloadInv
<1>2. r.got \o Snapshot!Copied(r.response) = Chunked(Snapshot!Chunks)
  BY <1>1, ChunkedGrows DEF Snapshot!Copied
<1>3. DownloadInv(sent) /\ sent.state # "none"
  BY <1>1, <1>2 DEF DownloadInv
<1>4. download' = [download EXCEPT ![d] = sent]
  BY DEF Snapshot!Ends
<1> HIDE DEF sent
<1> QED
  BY <1>3, <1>4 DEF SnapshotInv

\* A download that is given up or taken away starts anew.
LEMMA NoDownloadInv ==
  ASSUME SnapshotInv
  PROVE  /\ DownloadInv(Snapshot!NoDownload)
         /\ Snapshot!NoDownload.read = 0
BY ChunksType DEF DownloadInv, Snapshot!NoDownload

LEMMA GoneInv ==
  ASSUME NEW d \in Downloads, SnapshotInv, Snapshot!Breaks(d) \/ Snapshot!Leaves(d)
  PROVE  SnapshotInv'
<1>1. download' = [download EXCEPT ![d] = Snapshot!NoDownload]
  BY DEF Snapshot!Breaks, Snapshot!Leaves
<1> QED
  BY <1>1, NoDownloadInv DEF SnapshotInv

LEMMA SnapshotStep ==
  ASSUME SnapshotInv, [ServerNext]_serverVars
  PROVE  SnapshotInv'
<1>1. ASSUME NEW d \in Downloads, Snapshot!GetSnapshot(d) PROVE SnapshotInv'
  BY <1>1, GetSnapshotInv
<1>2. ASSUME NEW d \in Downloads,
             Snapshot!Sent(d) \/ Snapshot!Ends(d) \/ Snapshot!Breaks(d) \/ Snapshot!Leaves(d)
      PROVE  SnapshotInv'
  BY <1>2, SentInv, EndsInv, GoneInv
<1>3. CASE Snapshot!Forget
  BY <1>3, NoDownloadInv DEF Snapshot!Forget, SnapshotInv
<1>4. CASE UNCHANGED downloadVars
  BY <1>4 DEF SnapshotInv, DownloadInv, downloadVars
<1>5. \/ \E d \in Downloads : Snapshot!GetSnapshot(d)
      \/ \E d \in Downloads :
           Snapshot!Sent(d) \/ Snapshot!Ends(d) \/ Snapshot!Breaks(d) \/ Snapshot!Leaves(d)
      \/ Snapshot!Forget
      \/ UNCHANGED downloadVars
  BY DEF ServerNext, Copies, Starts, StartFails, Listens, ProcessEnds, Constructs, ConstructFails,
         LifeOnly, CallsCreateProfile, CallsDeleteProfile, CallsAddConfiguration,
         CallsRemoveConfiguration, CallsSetConfiguration, Calls, Searches, Handles, HandlerOnly,
         Ticks, AsksForSnapshot, Sends, downloadVars, serverVars
<1> QED
  BY <1>1, <1>2, <1>3, <1>4, <1>5

LEMMA SpecSnapshotInv == ServerSpec => []SnapshotInv
<1>1. ServerInit => SnapshotInv
  <2> SUFFICES ASSUME ServerInit PROVE SnapshotInv
    OBVIOUS
  <2>1. download = [d \in Downloads |-> Snapshot!NoDownload]
    BY DEF ServerInit, Snapshot!Init
  <2>2. DownloadInv(Snapshot!NoDownload) /\ Snapshot!NoDownload.read = 0
    BY ChunksType DEF DownloadInv, Snapshot!NoDownload
  <2> QED
    BY <2>1, <2>2 DEF SnapshotInv
<1>2. SnapshotInv /\ [ServerNext]_serverVars => SnapshotInv'
  BY SnapshotStep
<1> QED
  BY <1>1, <1>2, PTL DEF ServerSpec

\* Whoever else downloads at the time, with the one buffer, each client gets the file.
THEOREM DownloadsAlwaysWhole == ServerSpec => []DownloadsAreWhole
<1>1. ASSUME NEW n \in Nat, NEW m \in Nat, n <= m
      PROVE  SubSeq(Chunked(m), 1, n) = Chunked(n) /\ Len(Chunked(n)) = n
  <2>1. Chunked(m) \in Seq(Nat) /\ Chunked(n) \in Seq(Nat) /\ Len(Chunked(n)) = n
    BY DEF Chunked
  <2>2. \A i \in 1..n : Chunked(m)[i] = i
    BY <1>1 DEF Chunked
  <2>3. /\ SubSeq(Chunked(m), 1, n) \in Seq(Nat)
        /\ Len(SubSeq(Chunked(m), 1, n)) = IF 1 <= n THEN n - 1 + 1 ELSE 0
        /\ \A i \in 1 .. n - 1 + 1 : SubSeq(Chunked(m), 1, n)[i] = Chunked(m)[1 + i - 1]
    BY <2>2, SubSeqProperties
  <2>4. Len(SubSeq(Chunked(m), 1, n)) = n
    BY <2>3
  <2>5. \A i \in 1..n : SubSeq(Chunked(m), 1, n)[i] = Chunked(n)[i]
    BY <2>2, <2>3 DEF Chunked
  <2> QED
    BY <2>1, <2>3, <2>4, <2>5, SeqEqual
<1>2. SnapshotInv => DownloadsAreWhole
  <2> SUFFICES ASSUME SnapshotInv, NEW d \in Downloads
               PROVE  /\ download[d].got = SubSeq(Snapshot!Whole, 1, Len(download[d].got))
                      /\ download[d].state = "done" => download[d].got = Snapshot!Whole
    BY DEF DownloadsAreWhole, Snapshot!DownloadsAreWhole
  <2>1. DownloadInv(download[d]) /\ Snapshot!Chunks \in Nat
    BY ChunksType DEF SnapshotInv
  <2>2. Snapshot!Whole = Chunked(Snapshot!Chunks)
    BY DEF Snapshot!Whole, Chunked
  <2>3. PICK n \in Nat : n <= Snapshot!Chunks /\ download[d].got = Chunked(n)
    <3>1. CASE download[d].state = "none"
      <4>1. <<>> = Chunked(0)
        BY DEF Chunked
      <4> QED
        BY <4>1, <3>1, <2>1 DEF DownloadInv
    <3>2. CASE download[d].state \in {"sending", "ending"}
      <4>1. download[d].read - 1 \in Nat /\ download[d].read - 1 <= Snapshot!Chunks
        BY <3>2, <2>1 DEF DownloadInv
      <4> QED
        BY <4>1, <3>2, <2>1 DEF DownloadInv
    <3>3. CASE download[d].state = "done"
      BY <3>3, <2>1 DEF DownloadInv
    <3> QED
      BY <3>1, <3>2, <3>3, <2>1 DEF DownloadInv
  <2>4. download[d].got = SubSeq(Snapshot!Whole, 1, Len(download[d].got))
    BY <2>1, <2>2, <2>3, <1>1
  <2> QED
    BY <2>1, <2>2, <2>4 DEF DownloadInv
<1> QED
  BY <1>2, SpecSnapshotInv, PTL

-----------------------------------------------------------------------------
(* Rights.                                                                 *)

\* A request that is not answered yet was let in.
LoginInv ==
  pc # "idle" /\ Digest => Access!CurrentUser(request.login) >= Access!SECURITY_LEVELS.ACTUATE

ChangeIsAdmitted ==
  running /\ running' /\ profiles' # profiles /\ Digest =>
    Access!CurrentUser(request'.login) >= Access!SECURITY_LEVELS.ACTUATE

LEMMA CallIsAdmitted ==
  ASSUME NEW method, NEW token, NEW login, Calls(method, token, login)
  PROVE  Digest => Access!CurrentUser(request'.login) >= Access!SECURITY_LEVELS.ACTUATE
<1>1. request'.login = login
  BY DEF Calls
<1> QED
  BY <1>1 DEF Calls, Access!Admitted

\* The steps of a request keep its caller; no other step changes profiles of a server
\* that runs on.
LEMMA LoginStep ==
  ASSUME IInv, LoginInv, [ServerNext]_serverVars
  PROVE  LoginInv' /\ ChangeIsAdmitted
<1>1. CASE \E method, token, login : Calls(method, token, login)
  BY <1>1, CallIsAdmitted DEF LoginInv, ChangeIsAdmitted
<1>2. CASE Handles
  <2>1. CASE GoesOn
    <3>1. request' = request /\ pc # "idle"
      BY <1>2, <2>1 DEF Handles, GoesOn, AddNext, OpenFile, WriteFile, AddEnds, WriteFails
    <3> QED
      BY <3>1 DEF LoginInv, ChangeIsAdmitted
  <2>2. CASE ~GoesOn
    <3>1. pc' = "idle" /\ profiles' = profiles
      BY <1>2, <2>2 DEF Handles, EndsRequest, WriteFile, AddEnds, WriteFails
    <3> QED
      BY <3>1 DEF LoginInv, ChangeIsAdmitted
  <2> QED
    BY <2>1, <2>2
<1>3. CASE UNCHANGED vars /\ request' = request
  BY <1>3 DEF vars, requestVars, LoginInv, ChangeIsAdmitted
<1>4. CASE ProcessEnds
  <2>1. CASE running
    BY <1>4, <2>1 DEF ProcessEnds, Crash, Ends, LoginInv, ChangeIsAdmitted
  <2>2. CASE ~running
    <3>1. pc' = pc /\ pc = "idle"
      BY <1>4, <2>2 DEF ProcessEnds, vars, requestVars, IInv
    <3> QED
      BY <2>2, <3>1 DEF LoginInv, ChangeIsAdmitted
  <2> QED
    BY <2>1, <2>2
<1>5. CASE Constructs
  BY <1>5 DEF Constructs, Restart, requestVars, LoginInv, ChangeIsAdmitted
<1>6. \/ \E method, token, login : Calls(method, token, login)
      \/ Handles \/ ProcessEnds \/ Constructs
      \/ UNCHANGED vars /\ request' = request
  BY DEF ServerNext, Copies, Starts, StartFails, Listens, ConstructFails,
         LifeOnly, CallsCreateProfile, CallsDeleteProfile, CallsAddConfiguration,
         CallsRemoveConfiguration, CallsSetConfiguration, Searches,
         Ticks, AsksForSnapshot, Sends, OtherOnly, serverVars
<1> QED
  BY <1>1, <1>2, <1>3, <1>4, <1>5, <1>6

LEMMA SpecIInvHere == ServerSpec => []IInv
BY ProcessImplementsProfiles, SpecIInv, PTL

\* With digest authentication no step of no request changes the profiles for a caller
\* without the right to change them.
THEOREM ChangesAlwaysAdmitted == ServerSpec => ChangesAreAdmitted
<1>1. ServerInit => LoginInv
  BY DEF ServerInit, Init, LoginInv
<1>2. IInv /\ LoginInv /\ [ServerNext]_serverVars => LoginInv'
  BY LoginStep
<1>3. IInv /\ LoginInv /\ [ServerNext]_serverVars =>
        [running /\ running' /\ profiles' # profiles /\ Digest =>
           Access!CurrentUser(request'.login) >= Access!SECURITY_LEVELS.ACTUATE]_serverVars
  BY LoginStep DEF ChangeIsAdmitted
<1> QED
  BY <1>1, <1>2, <1>3, SpecIInvHere, PTL DEF ServerSpec, ChangesAreAdmitted

-----------------------------------------------------------------------------
(* Acknowledged profiles.                                                  *)

TokensOf(tree) == {tree[i].token : i \in DOMAIN tree}

\* A created profile is in memory until its request ends; when its configuration was
\* saved, too, there is none left to add.
AckInv ==
  /\ running => told \subseteq TokensOf(profiles)
  /\ file # Torn => told \subseteq TokensOf(file)
  /\ pc # "idle" /\ request.method = "CreateProfile" =>
       /\ request.token \in TokensOf(profiles)
       /\ pc = "add" => todo # <<>>

\* What the changes of a tree do to its tokens.
LEMMA TokensAfterAppend ==
  ASSUME NEW tree \in Seq(Profile), NEW p \in Profile
  PROVE  TokensOf(Append(tree, p)) = TokensOf(tree) \cup {p.token}
<1>1. /\ Append(tree, p) \in Seq(Profile)
      /\ Len(Append(tree, p)) = Len(tree) + 1
      /\ \A i \in 1..Len(tree) : Append(tree, p)[i] = tree[i]
      /\ Append(tree, p)[Len(tree) + 1] = p
  BY AppendProperties
<1>2. DOMAIN tree = 1..Len(tree) /\ Len(tree) \in Nat
  BY TreeBasics
<1>3. DOMAIN Append(tree, p) = 1..(Len(tree) + 1)
  BY <1>1, TreeBasics
<1> HIDE DEF Profile
<1>4. TokensOf(Append(tree, p)) \subseteq TokensOf(tree) \cup {p.token}
  BY <1>1, <1>2, <1>3 DEF TokensOf
<1>5. TokensOf(tree) \subseteq TokensOf(Append(tree, p))
  BY <1>1, <1>2, <1>3 DEF TokensOf
<1>6. p.token \in TokensOf(Append(tree, p))
  BY <1>1, <1>2, <1>3 DEF TokensOf
<1> QED
  BY <1>4, <1>5, <1>6

LEMMA TokensAfterRemoval ==
  ASSUME NEW tree \in Seq(Profile), NEW k \in DOMAIN tree
  PROVE  TokensOf(tree) \ {tree[k].token} \subseteq TokensOf(RemoveAt(tree, k))
<1>1. /\ RemoveAt(tree, k) \in Seq(Profile)
      /\ Len(RemoveAt(tree, k)) = Len(tree) - 1
      /\ \A j \in 1..(Len(tree) - 1) : RemoveAt(tree, k)[j] = IF j < k THEN tree[j] ELSE tree[j + 1]
  BY RemovedAt
<1>2. DOMAIN tree = 1..Len(tree) /\ Len(tree) \in Nat
  BY TreeBasics
<1>3. DOMAIN RemoveAt(tree, k) = 1..(Len(tree) - 1)
  BY <1>1, TreeBasics
<1>4. ASSUME NEW i \in DOMAIN tree, i # k
      PROVE  \E j \in DOMAIN RemoveAt(tree, k) : RemoveAt(tree, k)[j] = tree[i]
  <2>1. CASE i < k
    <3>1. i \in 1..(Len(tree) - 1)
      BY <2>1, <1>2
    <3> QED
      BY <2>1, <3>1, <1>1, <1>3
  <2>2. CASE i > k
    <3>1. i - 1 \in 1..(Len(tree) - 1) /\ ~(i - 1 < k) /\ (i - 1) + 1 = i
      BY <2>2, <1>2
    <3> QED
      BY <3>1, <1>1, <1>3
  <2> QED
    BY <2>1, <2>2, <1>2, <1>4
<1> QED
  BY <1>4 DEF TokensOf

LEMMA TokensAfterChange ==
  ASSUME NEW tree \in Seq(Profile), NEW k, NEW configs
  PROVE  TokensOf([tree EXCEPT ![k].configs = configs]) = TokensOf(tree)
<1> DEFINE changed == [tree EXCEPT ![k].configs = configs]
<1>1. tree \in [1..Len(tree) -> Profile] /\ DOMAIN tree = 1..Len(tree)
  BY LenProperties
<1>2. DOMAIN changed = DOMAIN tree
  BY <1>1
<1>3. \A i \in DOMAIN tree : changed[i].token = tree[i].token
  BY <1>1 DEF Profile
<1> QED
  BY <1>2, <1>3 DEF TokensOf

LEMMA CallsCreateProfileAck ==
  ASSUME IInv, AckInv, NEW login, NEW list \in AddLists, CallsCreateProfile(login, list)
  PROVE  AckInv'
<1> DEFINE token == NewProfileToken(Len(profiles))
           p == [token |-> token, fixed |-> FALSE, configs |-> <<>>]
<1>1. /\ profiles \in Seq(Profile)
      /\ Len(profiles) < MaxProfiles
      /\ profiles' = Append(profiles, p)
      /\ running' = running /\ file' = file /\ pc' = "open"
  BY DEF IInv, Good, CallsCreateProfile, CreateProfile, Receives, ThenSave
<1>2. p \in Profile
  <2>1. Len(profiles) \in Nat
    BY <1>1, TreeBasics
  <2>2. token \in ProfileTokens
    BY <2>1, <1>1, ProfilesAssumption DEF NewProfileToken, ProfileTokens
  <2>3. <<>> \in Seq(StoredConfigs)
    BY EmptySeq
  <2> QED
    BY <2>2, <2>3 DEF Profile, StoredConfigs
<1>3. p.token = token
  OBVIOUS
<1>4. request'.token = token /\ told' = told
  BY DEF CallsCreateProfile, Calls
<1> HIDE DEF p, token
<1>5. TokensOf(profiles') = TokensOf(profiles) \cup {token}
  BY <1>1, <1>2, <1>3, TokensAfterAppend
<1>6. TokensOf(file') = TokensOf(file) /\ TokensOf(profiles)' = TokensOf(profiles')
  BY <1>1 DEF TokensOf
<1> QED
  BY <1>1, <1>4, <1>5, <1>6 DEF AckInv, Torn

LEMMA CallsDeleteProfileAck ==
  ASSUME IInv, AckInv, NEW login, NEW token, CallsDeleteProfile(login, token)
  PROVE  AckInv'
<1> DEFINE k == FindProfile(token)
<1>1. /\ profiles \in Seq(Profile) /\ MayDelete(k)
      /\ profiles' = RemoveAt(profiles, k)
      /\ running' = running /\ file' = file
  BY DEF IInv, Good, CallsDeleteProfile, DeleteProfile, Receives
<1>2. k \in DOMAIN profiles /\ profiles[k].token = token
  BY <1>1, FoundProfile DEF MayDelete
<1>3. told' = told \ {token} /\ request'.method # "CreateProfile"
  BY DEF CallsDeleteProfile, Calls
<1> HIDE DEF k
<1>4. TokensOf(profiles) \ {token} \subseteq TokensOf(profiles')
  BY <1>1, <1>2, TokensAfterRemoval
<1> QED
  BY <1>1, <1>3, <1>4 DEF AckInv, Torn, TokensOf

\* The other requests change configurations, or nothing yet.
LEMMA OtherCallAck ==
  ASSUME AckInv, NEW method, NEW token, NEW login, Calls(method, token, login),
         method \notin {"CreateProfile", "DeleteProfile"},
         running' = running, file' = file, TokensOf(profiles') = TokensOf(profiles)
  PROVE  AckInv'
<1>1. told' = told /\ request'.method # "CreateProfile"
  BY DEF Calls
<1>2. TokensOf(file') = TokensOf(file)
  OBVIOUS
<1> QED
  BY <1>1, <1>2 DEF AckInv, Torn, TokensOf

LEMMA HandlesAck ==
  ASSUME IInv, AckInv, Handles
  PROVE  AckInv'
<1>1. CASE AddNext /\ GoesOn
  <2>1. TokensOf(profiles') = TokensOf(profiles)
    BY <1>1, TokensAfterChange DEF AddNext, IInv, TypeOK
  <2>2. /\ pc = "add" /\ pc' = "open" /\ running' = running /\ file' = file
        /\ told' = told /\ request' = request
    BY <1>1 DEF AddNext, Saved, GoesOn
  <2> QED
    BY <2>1, <2>2 DEF AckInv, Torn, TokensOf
<1>2. CASE OpenFile /\ GoesOn
  BY <1>2 DEF OpenFile, GoesOn, AckInv, Torn, TokensOf
<1>3. CASE WriteFile /\ GoesOn
  <2>1. todo # <<>> /\ todo' = todo
    BY <1>3 DEF WriteFile, GoesOn, Ends
  <2> QED
    BY <1>3, <2>1 DEF WriteFile, GoesOn, AckInv, Torn, TokensOf
<1>4. CASE WriteFile /\ EndsRequest(TRUE)
  BY <1>4 DEF WriteFile, EndsRequest, AckInv, Torn, TokensOf
<1>5. CASE AddEnds /\ EndsRequest(todo = <<>>)
  <2>1. told' = told
    BY <1>5 DEF AddEnds, EndsRequest, AckInv
  <2> QED
    BY <1>5, <2>1 DEF AddEnds, EndsRequest, AckInv, Torn, TokensOf
<1>6. CASE WriteFails /\ EndsRequest(SucceedsUnsaved)
  BY <1>6 DEF WriteFails, EndsRequest, SucceedsUnsaved, AckInv, Torn, TokensOf
<1> QED
  BY <1>1, <1>2, <1>3, <1>4, <1>5, <1>6 DEF Handles

LEMMA AckStep ==
  ASSUME IInv, AckInv, [ServerNext]_serverVars
  PROVE  AckInv'
<1>1. ASSUME NEW login, NEW list \in AddLists, CallsCreateProfile(login, list) PROVE AckInv'
  BY <1>1, CallsCreateProfileAck
<1>2. ASSUME NEW login, NEW token, CallsDeleteProfile(login, token) PROVE AckInv'
  BY <1>2, CallsDeleteProfileAck
<1>3. ASSUME NEW login, NEW token, NEW list, CallsAddConfiguration(login, token, list)
      PROVE  AckInv'
  <2>1. running' = running /\ file' = file /\ profiles' = profiles
    BY <1>3 DEF CallsAddConfiguration, AddConfiguration
  <2> QED
    BY <1>3, <2>1, OtherCallAck DEF CallsAddConfiguration
<1>4. ASSUME NEW login, NEW token, NEW type, NEW config,
             CallsRemoveConfiguration(login, token, type, config)
      PROVE  AckInv'
  <2>1. running' = running /\ file' = file
    BY <1>4 DEF CallsRemoveConfiguration, RemoveConfiguration
  <2>2. TokensOf(profiles') = TokensOf(profiles)
    BY <1>4, TokensAfterChange DEF CallsRemoveConfiguration, RemoveConfiguration, IInv, TypeOK
  <2> QED
    BY <1>4, <2>1, <2>2, OtherCallAck DEF CallsRemoveConfiguration
<1>5. ASSUME NEW login, CallsSetConfiguration(login) PROVE AckInv'
  <2>1. running' = running /\ file' = file /\ profiles' = profiles
    BY <1>5 DEF CallsSetConfiguration, SetConfiguration
  <2> QED
    BY <1>5, <2>1, OtherCallAck DEF CallsSetConfiguration
<1>6. CASE Handles
  BY <1>6, HandlesAck
<1>7. CASE ProcessEnds
  <2>1. told' = told /\ file' = file /\ request'.method # "CreateProfile" /\ ~running'
    BY <1>7 DEF ProcessEnds, historyVars, Crash, NoRequest, vars
  <2> QED
    BY <2>1 DEF AckInv, Torn, TokensOf
<1>8. CASE Constructs
  <2>1. told' = told /\ file' = file /\ profiles' = file /\ file # Torn /\ pc' = pc /\ pc = "idle"
    BY <1>8 DEF Constructs, Restart, requestVars, IInv
  <2> QED
    BY <2>1 DEF AckInv, Torn, TokensOf
<1>9. CASE UNCHANGED <<vars, request, told>>
  BY <1>9 DEF vars, requestVars, AckInv, Torn, TokensOf
<1>10. \/ \E login \in Logins : \E list \in AddLists : CallsCreateProfile(login, list)
       \/ \E login \in Logins, token \in ProfileTokens :
            \/ CallsDeleteProfile(login, token)
            \/ \E list \in AddLists : CallsAddConfiguration(login, token, list)
            \/ \E type \in RequestedTypes, config \in RequestedTokens \cup {""} :
                 CallsRemoveConfiguration(login, token, type, config)
       \/ \E login \in Logins : CallsSetConfiguration(login)
       \/ Handles \/ ProcessEnds \/ Constructs
       \/ UNCHANGED <<vars, request, told>>
  BY DEF ServerNext, Copies, Starts, StartFails, Listens, ConstructFails, LifeOnly, historyVars,
         Searches, Ticks, AsksForSnapshot, Sends, OtherOnly, serverVars
<1> QED
  BY <1>1, <1>2, <1>3, <1>4, <1>5, <1>6, <1>7, <1>8, <1>9, <1>10

\* What was acknowledged is in memory and in every intact file, over failed writes, kills
\* and restarts, until its deletion is asked for.
THEOREM AcknowledgedAlwaysStay == ServerSpec => []AcknowledgedProfilesStay
<1>1. ServerInit => AckInv
  BY DEF ServerInit, Init, AckInv
<1>2. IInv /\ AckInv /\ [ServerNext]_serverVars => AckInv'
  BY AckStep
<1>3. IInv /\ AckInv => AcknowledgedProfilesStay
  BY DEF IInv, AckInv, AcknowledgedProfilesStay, TokensOf, Torn
<1> QED
  BY <1>1, <1>2, <1>3, SpecIInvHere, PTL DEF ServerSpec


-----------------------------------------------------------------------------
(* The start.                                                              *)

LEMMA OrderOfSteps ==
  /\ Len(Life!Order) = 13 /\ DOMAIN Life!Order = 1..13
  /\ Life!Order[1] = "configs" /\ Life!Order[2] = "copy" /\ Life!Order[3] = "services"
  /\ Life!Order[4] = "notifications" /\ Life!Order[5] = "eventPaths"
  /\ Life!Order[6] = "discovery" /\ Life!Order[7] = "rtsp" /\ Life!Order[8] = "ioContext"
  /\ Life!Order[9] = "http" /\ Life!Order[10] = "runRtsp"
  /\ Life!Order[11] = "startDiscovery" /\ Life!Order[12] = "port" /\ Life!Order[13] = "join"
<1> DEFINE a == Life!InitSteps
           b == Life!RunSteps
           S == {"configs", "copy", "services", "notifications", "eventPaths", "discovery",
                 "rtsp", "ioContext", "http", "runRtsp", "startDiscovery", "port", "join"}
<1>1. /\ a \in Seq(S) /\ b \in Seq(S)
      /\ Len(a) = 8 /\ Len(b) = 5
  <2>1. a \in [1..8 -> S]
    BY DEF Life!InitSteps
  <2>2. b \in [1..5 -> S]
    BY DEF Life!RunSteps
  <2> HIDE DEF a, b, S
  <2>3. a \in Seq(S) /\ b \in Seq(S)
    <3>1. Seq(S) = UNION {[1..n -> S] : n \in Nat}
      BY SeqDef, Zenon
    <3>2. ASSUME NEW n \in Nat, NEW s \in [1..n -> S] PROVE s \in Seq(S)
      BY <3>1, Zenon
    <3>3. 8 \in Nat /\ 5 \in Nat
      OBVIOUS
    <3> QED
      BY <2>1, <2>2, <3>2, <3>3, Zenon
  <2>4. Len(a) = 8
    BY <2>1, <2>3, LenProperties
  <2>5. Len(b) = 5
    BY <2>2, <2>3, LenProperties
  <2> QED
    BY <2>3, <2>4, <2>5
<1> HIDE DEF a, b, S
<1>2. /\ Len(Life!Order) = 13 /\ DOMAIN Life!Order = 1..13
      /\ \A i \in 1..13 : Life!Order[i] = IF i <= 8 THEN a[i] ELSE b[i - 8]
  <2>1. Life!Order = a \o b
    BY DEF Life!Order, a, b
  <2>2. /\ Len(a \o b) = Len(a) + Len(b)
        /\ \A i \in 1..(Len(a) + Len(b)) : (a \o b)[i] = IF i <= Len(a) THEN a[i] ELSE b[i - Len(a)]
    BY <1>1, ConcatProperties
  <2>3. 1..(Len(a) + Len(b)) = 1..13 /\ Len(a) + Len(b) = 13
    BY <1>1
  <2>4. \A i \in 1..13 : (a \o b)[i] = IF i <= 8 THEN a[i] ELSE b[i - 8]
    BY <1>1, <2>2, <2>3
  <2>5. DOMAIN (a \o b) = 1..Len(a \o b)
    BY <1>1, ConcatProperties, LenProperties
  <2> QED
    BY <2>1, <2>2, <2>3, <2>4, <2>5
<1>3. \A i \in 1..8 : Life!Order[i] = a[i]
  BY <1>2
<1>4. \A i \in 1..5 : Life!Order[8 + i] = b[i]
  BY <1>2
<1> QED
  BY <1>2, <1>3, <1>4 DEF Life!InitSteps, Life!RunSteps, a, b

\* No step comes twice, so each has one that comes after it.
LEMMA AfterOf ==
  ASSUME NEW n \in 1..12
  PROVE  Life!After(Life!Order[n]) = Life!Order[n + 1]
<1> DEFINE I == {i \in 1..Len(Life!Order) : Life!Order[i] = Life!Order[n]}
<1>1. \A i \in 1..13 : Life!Order[i] = Life!Order[n] => i = n
  BY OrderOfSteps
<1>2. I = {n}
  BY <1>1, OrderOfSteps
<1>3. Life!Min(I) = n
  BY <1>2 DEF Life!Min
<1> QED
  BY <1>2, <1>3 DEF Life!After, Life!SelectInSeq

LEMMA AfterEach ==
  /\ Life!After("configs") = "copy" /\ Life!After("copy") = "services"
  /\ Life!After("services") = "notifications" /\ Life!After("notifications") = "eventPaths"
  /\ Life!After("eventPaths") = "discovery" /\ Life!After("discovery") = "rtsp"
  /\ Life!After("rtsp") = "ioContext" /\ Life!After("ioContext") = "http"
  /\ Life!After("http") = "runRtsp" /\ Life!After("runRtsp") = "startDiscovery"
  /\ Life!After("startDiscovery") = "port" /\ Life!After("port") = "join"
<1>1. \A n \in 1..12 : Life!After(Life!Order[n]) = Life!Order[n + 1]
  BY AfterOf
<1> QED
  BY <1>1, OrderOfSteps

Running == {"runRtsp", "startDiscovery", "port", "join"}
Prepared == {"http"} \cup Running
Connected == {"discovery", "rtsp", "ioContext"} \cup Prepared
Served == {"notifications", "eventPaths"} \cup Connected
Copied == {"services"} \cup Served
Early == {"configs", "copy"}

\* What each step of the main thread leaves for those after it.  No request has come
\* before the copy is made, so the file is still the one that the constructor read.
LifeInv ==
  /\ main \in Early \cup Copied \cup {"stopped", "off"}
  /\ main \in Early \cup {"off"} => registered = 0
  /\ main \in Early => running /\ pc = "idle" /\ file = profiles
  /\ main = "services" => registered \in 0..(Len(Life!Services) - 1)
  /\ main \in Served => registered = Len(Life!Services)
  /\ main \in Connected => events = "handlers"
  /\ main \in Prepared => ioContext
  /\ main \in Copied => startup # NotRead
  /\ http # "none" => main \in Running
  /\ eventsHttp # "none" => events # "nothing"

LEMMA InitLifeInv == ServerInit => LifeInv
BY OrderOfSteps DEF ServerInit, Init, Life!Init, LifeInv, Early, Copied, Served, Connected,
                    Prepared, Running

\* The file that the constructor could read is a list of profiles.
LEMMA SoundIsRead ==
  ASSUME IInv, running
  PROVE  profiles # <<>>
<1>1. PICK i \in DOMAIN Shipped : Shipped[i].fixed
  BY ShippedAssumption
<1>2. i \in DOMAIN profiles
  BY <1>1 DEF IInv, Good, HasFixed
<1> QED
  BY <1>2

LEMMA StartsLife ==
  ASSUME IInv, LifeInv, Starts
  PROVE  LifeInv'
<1> USE AfterEach DEF LifeInv, Early, Copied, Served, Connected, Prepared, Running
<1>1. UNCHANGED <<profiles, file, running, pc, startup>>
  BY DEF Starts, LifeOnly, vars, requestVars
<1>2. CASE Life!ReadConfigs
  BY <1>1, <1>2 DEF Life!ReadConfigs, Life!Passes
<1>3. CASE Life!RunService
  <2>1. Len(Life!Services) = 8
    BY DEF Life!Services
  <2> QED
    BY <1>1, <1>3, <2>1 DEF Life!RunService
<1>4. CASE Life!RunNotifications
  BY <1>1, <1>4 DEF Life!RunNotifications
<1>5. CASE Life!RegisterEvents
  BY <1>1, <1>5 DEF Life!RegisterEvents
<1>6. CASE Life!InitDiscovery \/ Life!CreateRtsp
  BY <1>1, <1>6 DEF Life!InitDiscovery, Life!CreateRtsp, Life!Passes
<1>7. CASE Life!StartIoContext
  BY <1>1, <1>7 DEF Life!StartIoContext
<1>8. CASE Life!StartHttp
  BY <1>1, <1>8 DEF Life!StartHttp
<1>9. CASE Life!RunRtsp \/ Life!StartDiscovery \/ Life!GetPort
  BY <1>1, <1>9 DEF Life!RunRtsp, Life!StartDiscovery, Life!GetPort, Life!Passes
<1> QED
  BY <1>2, <1>3, <1>4, <1>5, <1>6, <1>7, <1>8, <1>9 DEF Starts

LEMMA LifeStep ==
  ASSUME IInv, LifeInv, [ServerNext]_serverVars
  PROVE  LifeInv'
<1> USE DEF LifeInv, Early, Copied, Served, Connected, Prepared, Running
<1>1. CASE Copies
  <2>1. UNCHANGED <<profiles, file, running, pc>> /\ startup' = file
    BY <1>1 DEF Copies, LifeOnly, CopyOfFile, vars, requestVars
  <2>2. main = "copy" /\ main' = "services"
    BY <1>1, AfterEach DEF Copies, Life!CopyProfiles, Life!Passes
  <2>3. startup' # NotRead
    BY <2>1, <2>2, SoundIsRead DEF NotRead
  <2> QED
    BY <1>1, <2>1, <2>2, <2>3 DEF Copies, Life!CopyProfiles, Life!Passes, Life!Services
<1>2. CASE Starts
  BY <1>2, StartsLife
<1>3. CASE StartFails
  <2>1. main' = "stopped" /\ http = "none"
    BY <1>3 DEF StartFails, Life!InitFails, Life!InitSteps
  <2> QED
    BY <1>3, <2>1 DEF StartFails, Life!InitFails, LifeOnly, vars, requestVars
<1>4. CASE Listens
  BY <1>4 DEF Listens, Life!Listen, Life!ListenForEvents, LifeOnly, vars, requestVars
<1>5. CASE ProcessEnds
  BY <1>5 DEF ProcessEnds, Life!Exit, Life!Kill, Life!Exits
<1>6. CASE Constructs
  BY <1>6, OrderOfSteps DEF Constructs, Restart, requestVars, IInv, Life!Construct
<1>7. CASE ConstructFails
  BY <1>7 DEF ConstructFails, Life!ConstructFails, LifeOnly, vars, requestVars
<1>8. ASSUME UNCHANGED <<lifeVars, startup>>, main \notin Early \/ UNCHANGED vars
      PROVE  LifeInv'
  BY <1>8 DEF lifeVars, vars, requestVars
<1>9. Handles => main \notin Early
  BY DEF Handles, AddNext, AddEnds, OpenFile, WriteFile, WriteFails
<1>10. ASSUME NEW method, NEW token, NEW login, Calls(method, token, login)
       PROVE  main \notin Early /\ UNCHANGED <<lifeVars, startup>>
  BY <1>10 DEF Calls, Serves
<1>11. \/ \E method, token, login : Calls(method, token, login)
       \/ Handles
       \/ UNCHANGED <<vars, lifeVars, startup>>
       \/ Copies \/ Starts \/ StartFails \/ Listens
       \/ ProcessEnds \/ Constructs \/ ConstructFails
  BY DEF ServerNext, CallsCreateProfile, CallsDeleteProfile, CallsAddConfiguration,
         CallsRemoveConfiguration, CallsSetConfiguration, Searches,
         Ticks, AsksForSnapshot, Sends, OtherOnly, serverVars
<1> QED
  BY <1>1, <1>2, <1>3, <1>4, <1>5, <1>6, <1>7, <1>8, <1>9, <1>10, <1>11 DEF Handles, HandlerOnly

\* Whatever fails in a start, and whenever the process is killed, no thread serves a
\* request before the services, the event service's handlers, the io_context_ and the
\* copy of the profiles are there.
THEOREM AlwaysServesWhenReady == ServerSpec => []ServesWhenReady
<1>1. IInv /\ LifeInv /\ [ServerNext]_serverVars => LifeInv'
  BY LifeStep
<1>2. LifeInv => ServesWhenReady
  BY DEF LifeInv, ServesWhenReady, Life!ServesWhenReady, Copied, Served, Connected, Prepared,
         Running
<1> QED
  BY <1>1, <1>2, InitLifeInv, SpecIInvHere, PTL DEF ServerSpec


-----------------------------------------------------------------------------
(* The manager of the profiles.                                            *)

\* The manager is there from the constructor to the end of the process.
ManagerInv ==
  /\ main \in Early \cup Copied => running
  /\ running => main # "off"

LEMMA StepsOfStart ==
  ASSUME Copies \/ Starts \/ StartFails \/ Listens, LifeInv
  PROVE  /\ UNCHANGED <<vars, touched, told, request, requests>>
         /\ main' \in Early \cup Copied => main \in Early \cup Copied
         /\ main' = "off" => main = "off"
<1>1. UNCHANGED <<vars, touched, told, request, requests>>
  BY DEF Copies, Starts, StartFails, Listens, LifeOnly, historyVars
<1>2. CASE main' = main
  BY <1>1, <1>2
<1>3. CASE main' # main
  <2>1. main \in Early \cup Copied
    BY <1>3 DEF Copies, Starts, StartFails, Listens, Life!CopyProfiles, Life!InitFails, Life!InitSteps,
       Life!Listen, Life!ListenForEvents, Life!ReadConfigs, Life!RunService, Life!RunNotifications,
       Life!RegisterEvents, Life!InitDiscovery, Life!CreateRtsp, Life!StartIoContext, Life!StartHttp,
       Life!RunRtsp, Life!StartDiscovery, Life!GetPort, Life!Passes,
       Early, Copied, Served, Connected, Prepared, Running
  <2>2. CASE Copies \/ Starts
    <3>1. main' # "off"
      BY <2>2, AfterEach DEF Copies, Starts, Life!CopyProfiles,
         Life!ReadConfigs, Life!RunService, Life!RunNotifications,
         Life!RegisterEvents, Life!InitDiscovery, Life!CreateRtsp, Life!StartIoContext, Life!StartHttp,
         Life!RunRtsp, Life!StartDiscovery, Life!GetPort, Life!Passes
    <3> QED
      BY <1>1, <2>1, <3>1
  <2>3. CASE StartFails \/ Listens
    <3>1. main' # "off"
      BY <1>3, <2>3 DEF StartFails, Listens, Life!InitFails, Life!Listen, Life!ListenForEvents
    <3> QED
      BY <1>1, <2>1, <3>1
  <2> QED
    BY <2>2, <2>3
<1> QED
  BY <1>2, <1>3

\* A request that changes profiles comes.
CallsToChange ==
  \/ \E login \in Logins : \E list \in AddLists : CallsCreateProfile(login, list)
  \/ \E login \in Logins, token \in ProfileTokens :
       \/ CallsDeleteProfile(login, token)
       \/ \E list \in AddLists : CallsAddConfiguration(login, token, list)
       \/ \E type \in RequestedTypes, config \in RequestedTokens \cup {""} :
            CallsRemoveConfiguration(login, token, type, config)
  \/ \E login \in Logins : CallsSetConfiguration(login)

\* The steps that change what is said of profiles, and the others.
LEMMA ServerSteps ==
  ASSUME [ServerNext]_serverVars
  PROVE  \/ Copies \/ Starts \/ StartFails \/ Listens
         \/ ProcessEnds \/ Constructs \/ ConstructFails \/ Handles \/ CallsToChange
         \/ UNCHANGED <<vars, lifeVars, startup, request, touched, told>>
<1>1. CASE \E login \in Logins : Searches(login)
  BY <1>1 DEF Searches, OtherOnly
<1>2. CASE Ticks \/ \E d \in Downloads : AsksForSnapshot(d) \/ Sends(d)
  BY <1>2 DEF Ticks, AsksForSnapshot, Sends, OtherOnly
<1>3. CASE UNCHANGED serverVars
  BY <1>3 DEF serverVars, historyVars
<1> QED
  BY <1>1, <1>2, <1>3 DEF ServerNext, CallsToChange

\* A request comes to a server that is up and leaves its threads and its copy alone.
LEMMA CallsKeep ==
  ASSUME CallsToChange
  PROVE  UNCHANGED <<lifeVars, startup, file, running>> /\ running /\ pc = "idle"
<1>1. ASSUME NEW login, NEW list, CallsCreateProfile(login, list)
      PROVE  UNCHANGED <<lifeVars, startup, file, running>> /\ running /\ pc = "idle"
  BY <1>1 DEF CallsCreateProfile, CreateProfile, Receives, Calls
<1>2. ASSUME NEW login, NEW token, CallsDeleteProfile(login, token)
      PROVE  UNCHANGED <<lifeVars, startup, file, running>> /\ running /\ pc = "idle"
  BY <1>2 DEF CallsDeleteProfile, DeleteProfile, Receives, Calls
<1>3. ASSUME NEW login, NEW token, NEW list, CallsAddConfiguration(login, token, list)
      PROVE  UNCHANGED <<lifeVars, startup, file, running>> /\ running /\ pc = "idle"
  BY <1>3 DEF CallsAddConfiguration, AddConfiguration, Receives, Calls
<1>4. ASSUME NEW login, NEW token, NEW type, NEW config,
             CallsRemoveConfiguration(login, token, type, config)
      PROVE  UNCHANGED <<lifeVars, startup, file, running>> /\ running /\ pc = "idle"
  BY <1>4 DEF CallsRemoveConfiguration, RemoveConfiguration, Receives, Calls
<1>5. ASSUME NEW login, CallsSetConfiguration(login)
      PROVE  UNCHANGED <<lifeVars, startup, file, running>> /\ running /\ pc = "idle"
  BY <1>5 DEF CallsSetConfiguration, SetConfiguration, Receives, Calls
<1> QED
  BY <1>1, <1>2, <1>3, <1>4, <1>5 DEF CallsToChange

LEMMA HandlesKeeps ==
  ASSUME Handles
  PROVE  UNCHANGED <<lifeVars, startup, running, touched, requests>> /\ running /\ pc # "idle"
BY DEF Handles, HandlerOnly, AddNext, OpenFile, WriteFile, AddEnds, WriteFails

LEMMA ManagerStep ==
  ASSUME LifeInv, ManagerInv, [ServerNext]_serverVars
  PROVE  ManagerInv'
<1> USE DEF ManagerInv
<1>1. CASE Copies \/ Starts \/ StartFails \/ Listens
  <2>1. running' = running /\ (main' \in Early \cup Copied => main \in Early \cup Copied)
        /\ (main' = "off" => main = "off")
    BY <1>1, StepsOfStart DEF vars
  <2> QED
    BY <2>1 DEF Early, Copied, Served, Connected, Prepared, Running
<1>2. CASE ProcessEnds
  <2>1. main' = "off"
    BY <1>2 DEF ProcessEnds, Life!Exit, Life!Kill, Life!Exits
  <2>2. running' = FALSE
    BY <1>2 DEF ProcessEnds, Crash, vars, IInv
  <2> QED
    BY <2>1, <2>2 DEF Early, Copied, Served, Connected, Prepared, Running
<1>3. CASE Constructs
  <2>1. running' = TRUE /\ main' = "configs"
    BY <1>3, OrderOfSteps DEF Constructs, Restart, Life!Construct
  <2> QED
    BY <2>1
<1>4. CASE ConstructFails
  <2>1. running' = running /\ main' = "stopped"
    BY <1>4 DEF ConstructFails, LifeOnly, vars, Life!ConstructFails
  <2> QED
    BY <2>1 DEF Early, Copied, Served, Connected, Prepared, Running
<1>5. CASE running' = running /\ main' = main
  BY <1>5 DEF Early, Copied, Served, Connected, Prepared, Running
<1>6. Handles \/ CallsToChange => running' = running /\ main' = main
  BY HandlesKeeps, CallsKeep DEF lifeVars
<1>7. UNCHANGED <<vars, lifeVars, startup, request, touched, told>> => running' = running /\ main' = main
  BY DEF vars, lifeVars
<1> QED
  BY <1>1, <1>2, <1>3, <1>4, <1>5, <1>6, <1>7, ServerSteps


LEMMA InitManagerInv == ServerInit => ManagerInv
BY OrderOfSteps DEF ServerInit, Init, Life!Init, ManagerInv

-----------------------------------------------------------------------------
(* The copy of the profiles.                                               *)

\* The first profile with the token, as a set that is empty if there is none.
IsFirst(tree, token, i) ==
  /\ i \in DOMAIN tree
  /\ tree[i].token = token
  /\ \A j \in DOMAIN tree : j < i => tree[j].token # token
FirstOf(tree, token) == {tree[i] : i \in {j \in DOMAIN tree : IsFirst(tree, token, j)}}

LEMMA IndexInFinds ==
  ASSUME NEW tree \in Seq(Profile), NEW token
  PROVE  /\ IndexIn(tree, token) # 0 => FirstOf(tree, token) = {tree[IndexIn(tree, token)]}
         /\ IndexIn(tree, token) = 0 => FirstOf(tree, token) = {}
<1> DEFINE I == {i \in 1..Len(tree) : tree[i].token = token}
<1>1. Len(tree) \in Nat /\ DOMAIN tree = 1..Len(tree)
  BY LenProperties
<1>2. IndexIn(tree, token) = IF I # {} THEN Min(I) ELSE 0
  BY DEF IndexIn, SelectInSeq
<1>3. I \in SUBSET Nat
  BY <1>1
<1>4. CASE I # {}
  <2>1. PICK k : k = Min(I)
    OBVIOUS
  <2>2. k \in I /\ \A j \in I : k <= j
    BY <2>1, <1>3, <1>4, MinIsLeast
  <2>3. IsFirst(tree, token, k)
    BY <2>2, <1>1 DEF IsFirst
  <2>4. ASSUME NEW j, IsFirst(tree, token, j) PROVE j = k
    <3>1. j \in I
      BY <2>4, <1>1 DEF IsFirst
    <3>2. k <= j /\ ~(k < j)
      BY <3>1, <2>2, <2>4, <1>1 DEF IsFirst
    <3> QED
      BY <3>1, <3>2, <2>2, <1>1
  <2>5. {j \in DOMAIN tree : IsFirst(tree, token, j)} = {k}
    BY <2>3, <2>4 DEF IsFirst
  <2>6. FirstOf(tree, token) = {tree[k]}
    BY <2>5 DEF FirstOf
  <2>7. IndexIn(tree, token) = k /\ k # 0
    BY <1>2, <1>4, <2>1, <2>2
  <2> QED
    BY <2>6, <2>7
<1>5. CASE I = {}
  <2>1. {j \in DOMAIN tree : IsFirst(tree, token, j)} = {}
    BY <1>1, <1>5 DEF IsFirst
  <2> QED
    BY <1>2, <1>5, <2>1 DEF FirstOf
<1> QED
  BY <1>4, <1>5

\* A change of another profile is none of the first one with the token.
LEMMA FirstAfterAppend ==
  ASSUME NEW tree \in Seq(Profile), NEW p \in Profile, NEW token, p.token # token
  PROVE  FirstOf(Append(tree, p), token) = FirstOf(tree, token)
<1> DEFINE longer == Append(tree, p)
<1>1. /\ longer \in Seq(Profile)
      /\ Len(longer) = Len(tree) + 1
      /\ \A i \in 1..Len(tree) : longer[i] = tree[i]
      /\ longer[Len(tree) + 1] = p
  BY AppendProperties
<1>2. DOMAIN tree = 1..Len(tree) /\ Len(tree) \in Nat
  BY TreeBasics
<1>3. DOMAIN longer = 1..(Len(tree) + 1)
  BY <1>1, TreeBasics
<1> HIDE DEF longer, Profile
<1>4. ASSUME NEW i PROVE IsFirst(longer, token, i) <=> IsFirst(tree, token, i)
  <2>1. ASSUME IsFirst(longer, token, i) PROVE IsFirst(tree, token, i)
    <3>1. i \in DOMAIN longer /\ longer[i].token = token
      BY <2>1 DEF IsFirst
    <3>2. i # Len(tree) + 1
      BY <3>1, <1>1
    <3>3. i \in 1..Len(tree)
      BY <3>1, <3>2, <1>2, <1>3
    <3> QED
      BY <2>1, <3>3, <1>1, <1>2, <1>3 DEF IsFirst
  <2>2. ASSUME IsFirst(tree, token, i) PROVE IsFirst(longer, token, i)
    <3>1. i \in 1..Len(tree) /\ tree[i].token = token
      BY <2>2, <1>2 DEF IsFirst
    <3>2. ASSUME NEW j \in DOMAIN longer, j < i PROVE longer[j].token # token
      <4>1. j \in 1..Len(tree)
        BY <3>1, <3>2, <1>2, <1>3
      <4> QED
        BY <4>1, <3>2, <2>2, <1>1, <1>2 DEF IsFirst
    <3> QED
      BY <3>1, <3>2, <1>1, <1>2, <1>3 DEF IsFirst
  <2> QED
    BY <2>1, <2>2
<1>5. \A i : IsFirst(tree, token, i) => longer[i] = tree[i]
  BY <1>1, <1>2 DEF IsFirst
<1>6. {j \in DOMAIN longer : IsFirst(longer, token, j)} = {j \in DOMAIN tree : IsFirst(tree, token, j)}
  BY <1>4, <1>2, <1>3 DEF IsFirst
<1>7. FirstOf(longer, token) = FirstOf(tree, token)
  BY <1>5, <1>6 DEF FirstOf
<1> QED
  BY <1>7 DEF longer

Changed(tree, k, configs) == [tree EXCEPT ![k].configs = configs]

LEMMA FirstAfterChange ==
  ASSUME NEW tree \in Seq(Profile), NEW k, NEW configs, NEW token,
         k \in DOMAIN tree => tree[k].token # token
  PROVE  FirstOf(Changed(tree, k, configs), token) = FirstOf(tree, token)
<1> DEFINE changed == [tree EXCEPT ![k].configs = configs]
<1>1. tree \in [1..Len(tree) -> Profile] /\ DOMAIN tree = 1..Len(tree)
  BY LenProperties
<1>2. DOMAIN changed = DOMAIN tree
  BY <1>1
<1>3. \A i \in DOMAIN tree : changed[i].token = tree[i].token
  BY <1>1 DEF Profile
<1>4. \A i \in DOMAIN tree : i # k => changed[i] = tree[i]
  BY <1>1
<1> HIDE DEF changed
<1>5. \A i : IsFirst(changed, token, i) <=> IsFirst(tree, token, i)
  BY <1>2, <1>3 DEF IsFirst
<1>6. \A i : IsFirst(tree, token, i) => changed[i] = tree[i]
  BY <1>4 DEF IsFirst
<1>7. {j \in DOMAIN changed : IsFirst(changed, token, j)} = {j \in DOMAIN tree : IsFirst(tree, token, j)}
  BY <1>2, <1>5
<1>8. FirstOf(changed, token) = FirstOf(tree, token)
  BY <1>6, <1>7 DEF FirstOf
<1> QED
  BY <1>8 DEF changed, Changed

LEMMA FirstAfterRemoval ==
  ASSUME NEW tree \in Seq(Profile), NEW k \in DOMAIN tree, NEW token, tree[k].token # token
  PROVE  FirstOf(RemoveAt(tree, k), token) = FirstOf(tree, token)
<1> DEFINE rest == RemoveAt(tree, k)
           n == Len(tree)
           before(j) == IF j < k THEN j ELSE j + 1
<1>1. /\ rest \in Seq(Profile)
      /\ Len(rest) = n - 1
      /\ \A j \in 1..(n - 1) : rest[j] = IF j < k THEN tree[j] ELSE tree[j + 1]
  BY RemovedAt
<1>2. DOMAIN tree = 1..n /\ n \in Nat /\ k \in 1..n
  BY TreeBasics
<1>3. DOMAIN rest = 1..(n - 1)
  BY <1>1, TreeBasics
<1> HIDE DEF rest, n
<1>4. \A j \in 1..(n - 1) : before(j) \in 1..n /\ before(j) # k /\ rest[j] = tree[before(j)]
  BY <1>1, <1>2
<1>5. \A i \in 1..n : i # k => \E j \in 1..(n - 1) : before(j) = i
  <2> SUFFICES ASSUME NEW i \in 1..n, i # k PROVE \E j \in 1..(n - 1) : before(j) = i
    OBVIOUS
  <2>1. CASE i < k
    <3>1. i \in 1..(n - 1) /\ before(i) = i
      BY <2>1, <1>2
    <3> QED
      BY <3>1
  <2>2. CASE i > k
    <3>1. i - 1 \in 1..(n - 1) /\ before(i - 1) = i
      BY <2>2, <1>2
    <3> QED
      BY <3>1
  <2> QED
    BY <2>1, <2>2, <1>2
<1>6. \A i, j \in 1..(n - 1) : i < j <=> before(i) < before(j)
  BY <1>2
<1> HIDE DEF before
<1>7. ASSUME NEW j \in 1..(n - 1) PROVE IsFirst(rest, token, j) <=> IsFirst(tree, token, before(j))
  <2>1. before(j) \in 1..n /\ rest[j] = tree[before(j)]
    BY <1>4
  <2>2. ASSUME IsFirst(rest, token, j) PROVE IsFirst(tree, token, before(j))
    <3>1. ASSUME NEW i \in 1..n, i < before(j), i # k PROVE tree[i].token # token
      <4>1. PICK m \in 1..(n - 1) : before(m) = i
        BY <3>1, <1>5
      <4>2. m < j
        BY <3>1, <4>1, <1>6
      <4>3. rest[m].token # token
        BY <2>2, <4>2, <1>3 DEF IsFirst
      <4> QED
        BY <4>1, <4>3, <1>4
    <3> QED
      BY <2>1, <2>2, <3>1, <1>2 DEF IsFirst
  <2>3. ASSUME IsFirst(tree, token, before(j)) PROVE IsFirst(rest, token, j)
    <3>1. ASSUME NEW m \in 1..(n - 1), m < j PROVE rest[m].token # token
      <4>1. before(m) < before(j) /\ before(m) \in 1..n /\ rest[m] = tree[before(m)]
        BY <3>1, <1>4, <1>6
      <4> QED
        BY <4>1, <2>3, <1>2 DEF IsFirst
    <3> QED
      BY <2>1, <2>3, <3>1, <1>3 DEF IsFirst
  <2> QED
    BY <2>2, <2>3
<1>8. FirstOf(rest, token) \subseteq FirstOf(tree, token)
  <2> SUFFICES ASSUME NEW x \in FirstOf(rest, token) PROVE x \in FirstOf(tree, token)
    OBVIOUS
  <2>1. PICK j \in 1..(n - 1) : IsFirst(rest, token, j) /\ x = rest[j]
    BY <1>3 DEF FirstOf
  <2>2. IsFirst(tree, token, before(j)) /\ x = tree[before(j)] /\ before(j) \in DOMAIN tree
    BY <2>1, <1>2, <1>4, <1>7
  <2> QED
    BY <2>2 DEF FirstOf
<1>9. FirstOf(tree, token) \subseteq FirstOf(rest, token)
  <2> SUFFICES ASSUME NEW x \in FirstOf(tree, token) PROVE x \in FirstOf(rest, token)
    OBVIOUS
  <2>1. PICK i \in 1..n : IsFirst(tree, token, i) /\ x = tree[i]
    BY <1>2 DEF FirstOf
  <2>2. i # k
    BY <2>1 DEF IsFirst
  <2>3. PICK j \in 1..(n - 1) : before(j) = i
    BY <2>2, <1>5
  <2>4. IsFirst(rest, token, j) /\ x = rest[j] /\ j \in DOMAIN rest
    BY <2>1, <2>3, <1>3, <1>4, <1>7
  <2> QED
    BY <2>4 DEF FirstOf
<1>10. FirstOf(rest, token) = FirstOf(tree, token)
  BY <1>8, <1>9
<1> QED
  BY <1>10 DEF rest

\* A request names the profile that it changes.  Of the others the handlers with the
\* copy and those with the manager find the same.
CopyInv ==
  /\ startup \in Seq(Profile)
  /\ target \in touched \cup {Nobody}
  /\ pc = "idle" => target = Nobody
  /\ main \in Copied =>
       \A token \in ProfileTokens \ touched : FirstOf(startup, token) = FirstOf(profiles, token)

LEMMA NobodyIsNone == Nobody \notin ProfileTokens
<1> SUFFICES ASSUME Nobody \in ProfileTokens PROVE FALSE
  OBVIOUS
<1>1. Nobody \in STRING \X Nat \/ Nobody \in {"UserProfileToken"} \X (0..MaxProfiles)
  BY FilesAssumption DEF ProfileTokens
<1>2. PICK word, n : Nobody = <<word, n>>
  BY <1>1
<1>3. Len(<<word, n>>) = 2
  OBVIOUS
<1>4. Len(Nobody) = 0
  BY EmptySeq DEF Nobody
<1> QED
  BY <1>2, <1>3, <1>4

\* A request that touches the profile it changes keeps the rest.
LEMMA TouchesKeep ==
  ASSUME CopyInv, NEW token, touched' = touched \cup {token},
         main' = main, startup' = startup, target' \in {token, Nobody}, pc' # "idle",
         \A other \in ProfileTokens \ touched :
           other # token => FirstOf(profiles', other) = FirstOf(profiles, other)
  PROVE  CopyInv'
<1>1. ASSUME main' \in Copied, NEW other \in ProfileTokens \ touched'
      PROVE  FirstOf(startup, other) = FirstOf(profiles', other)
  <2>1. other # token /\ other \in ProfileTokens \ touched
    BY <1>1
  <2>2. FirstOf(startup, other) = FirstOf(profiles, other)
    BY <1>1, <2>1 DEF CopyInv
  <2> QED
    BY <2>1, <2>2
<1>2. \A other : FirstOf(startup, other)' = FirstOf(startup, other) /\ FirstOf(profiles, other)' = FirstOf(profiles', other)
  BY DEF FirstOf, IsFirst
<1>3. main' \in Copied =>
        \A other \in ProfileTokens \ touched' : FirstOf(startup', other) = FirstOf(profiles', other)
  BY <1>1
<1> QED
  BY <1>3 DEF CopyInv, Copied, Served, Connected, Prepared, Running

\* So does a step that changes no profile, and none of the start.
LEMMA SameProfilesKeep ==
  ASSUME CopyInv, profiles' = profiles, startup' = startup, touched' = touched,
         main' \in Copied => main \in Copied,
         target' \in {target, Nobody}, pc' = "idle" => target' = Nobody
  PROVE  CopyInv'
<1>1. main' \in Copied =>
        \A other \in ProfileTokens \ touched' : FirstOf(startup', other) = FirstOf(profiles', other)
  BY DEF CopyInv
<1> QED
  BY <1>1 DEF CopyInv, Copied, Served, Connected, Prepared, Running

LEMMA CallsCopy ==
  ASSUME IInv, CopyInv, CallsToChange
  PROVE  CopyInv'
<1>1. main' = main /\ startup' = startup /\ running
  BY CallsKeep DEF lifeVars
<1>2. profiles \in Seq(Profile) /\ Len(profiles) \in Nat
  BY TreeBasics DEF IInv, TypeOK
<1>3. ASSUME NEW login, NEW list, CallsCreateProfile(login, list) PROVE CopyInv'
  <2> DEFINE token == NewProfileToken(Len(profiles))
             p == [token |-> token, fixed |-> FALSE, configs |-> <<>>]
  <2>1. /\ Len(profiles) < MaxProfiles /\ profiles' = Append(profiles, p)
        /\ target' = token /\ pc' = "open" /\ touched' = touched \cup {token}
    BY <1>3 DEF CallsCreateProfile, CreateProfile, ThenSave, Calls
  <2>2. token \in ProfileTokens
    <3>1. Len(profiles) \in 0..MaxProfiles
      BY <1>2, <2>1, ProfilesAssumption
    <3>2. token \in {"UserProfileToken"} \X (0..MaxProfiles)
      BY <3>1 DEF NewProfileToken
    <3> QED
      BY <3>2 DEF ProfileTokens
  <2>3. p \in Profile /\ p.token = token
    <3>1. <<>> \in Seq(StoredConfigs)
      BY EmptySeq
    <3> QED
      BY <2>2, <3>1 DEF Profile, StoredConfigs
  <2> HIDE DEF p, token
  <2>4. ASSUME NEW other, other # token PROVE FirstOf(profiles', other) = FirstOf(profiles, other)
    BY <1>2, <2>1, <2>3, <2>4, FirstAfterAppend
  <2> QED
    BY <1>1, <2>1, <2>4, TouchesKeep
<1>4. ASSUME NEW login, NEW token, CallsDeleteProfile(login, token) PROVE CopyInv'
  <2> DEFINE k == FindProfile(token)
  <2>1. /\ MayDelete(k) /\ profiles' = RemoveAt(profiles, k)
        /\ target' = Nobody /\ pc' = "open" /\ touched' = touched \cup {token}
    BY <1>4 DEF CallsDeleteProfile, DeleteProfile, ThenSave, Calls
  <2>2. k \in DOMAIN profiles /\ profiles[k].token = token
    BY <1>2, <2>1, FoundProfile DEF MayDelete
  <2> HIDE DEF k
  <2>3. ASSUME NEW other, other # token PROVE FirstOf(profiles', other) = FirstOf(profiles, other)
    BY <1>2, <2>1, <2>2, <2>3, FirstAfterRemoval
  <2> QED
    BY <1>1, <2>1, <2>3, TouchesKeep
<1>5. ASSUME NEW login, NEW token, NEW list, CallsAddConfiguration(login, token, list)
      PROVE  CopyInv'
  <2>1. /\ profiles' = profiles /\ target' = token /\ pc' = "add"
        /\ touched' = touched \cup {token}
    BY <1>5 DEF CallsAddConfiguration, AddConfiguration, Calls
  <2> QED
    BY <1>1, <2>1, TouchesKeep
<1>6. ASSUME NEW login, NEW token, NEW type, NEW config,
             CallsRemoveConfiguration(login, token, type, config)
      PROVE  CopyInv'
  <2>0. PICK k, configs : k = FindProfile(token) /\ configs = Remaining(profiles[k].configs, type, config)
    OBVIOUS
  <2>1. /\ profiles' = [profiles EXCEPT ![k].configs = configs]
        /\ target' = Nobody /\ pc' = "open" /\ touched' = touched \cup {token}
    BY <1>6, <2>0 DEF CallsRemoveConfiguration, RemoveConfiguration, ThenSave, Calls
  <2>2. k # 0
    BY <1>6, <2>0 DEF CallsRemoveConfiguration, RemoveConfiguration
  <2>3. profiles[k].token = token
    BY <1>2, <2>0, <2>2, FoundProfile
  <2>4. ASSUME NEW other, other # token PROVE FirstOf(profiles', other) = FirstOf(profiles, other)
    <3>1. k \in DOMAIN profiles => profiles[k].token # other
      BY <2>3, <2>4
    <3>2. FirstOf(Changed(profiles, k, configs), other) = FirstOf(profiles, other)
      BY <1>2, <3>1, FirstAfterChange
    <3> QED
      BY <2>1, <3>2 DEF Changed
  <2> QED
    BY <1>1, <2>1, <2>4, TouchesKeep
<1>7. ASSUME NEW login, CallsSetConfiguration(login) PROVE CopyInv'
  <2>1. /\ profiles' = profiles /\ target' = Nobody /\ pc' = "open"
        /\ touched' = touched \cup {Nobody}
    BY <1>7 DEF CallsSetConfiguration, SetConfiguration, ThenSave, Calls
  <2> QED
    BY <1>1, <2>1, TouchesKeep
<1> QED
  BY <1>3, <1>4, <1>5, <1>6, <1>7 DEF CallsToChange

LEMMA HandlesCopy ==
  ASSUME IInv, CopyInv, Handles
  PROVE  CopyInv'
<1>1. main' = main /\ startup' = startup /\ touched' = touched
  BY HandlesKeeps DEF lifeVars
<1>2. profiles \in Seq(Profile)
  BY DEF IInv, TypeOK
<1>3. CASE AddNext
  <2>0. PICK k, configs : k = FindProfile(target) /\ configs = Append(profiles[k].configs, Head(todo))
    OBVIOUS
  <2>1. profiles' = [profiles EXCEPT ![k].configs = configs] /\ target' = target /\ pc' = "open"
    BY <1>3, <2>0 DEF AddNext, Saved
  <2>2. k \in DOMAIN profiles => k # 0 /\ profiles[k].token = target /\ target \in ProfileTokens
    BY <1>2, <2>0, TreeBasics, FoundProfile
  <2>3. k \in DOMAIN profiles => profiles[k].token \in touched
    BY <2>2, NobodyIsNone DEF CopyInv
  <2>4. ASSUME NEW other \in ProfileTokens \ touched
        PROVE  FirstOf(profiles', other) = FirstOf(profiles, other)
    <3>1. k \in DOMAIN profiles => profiles[k].token # other
      BY <2>3, <2>4
    <3>2. FirstOf(Changed(profiles, k, configs), other) = FirstOf(profiles, other)
      BY <1>2, <3>1, FirstAfterChange
    <3> QED
      BY <2>1, <3>2 DEF Changed
  <2>5. main' \in Copied =>
          \A other \in ProfileTokens \ touched' : FirstOf(startup', other) = FirstOf(profiles', other)
    BY <1>1, <2>4 DEF CopyInv
  <2> QED
    BY <1>1, <2>1, <2>5 DEF CopyInv, Copied, Served, Connected, Prepared, Running
<1>4. CASE OpenFile
  <2>1. profiles' = profiles /\ target' = target /\ pc' = "write"
    BY <1>4 DEF OpenFile
  <2> QED
    BY <1>1, <2>1, SameProfilesKeep
<1>5. CASE WriteFile
  <2>1. profiles' = profiles /\ target' \in {target, Nobody} /\ (pc' = "idle" => target' = Nobody)
    BY <1>5 DEF WriteFile, Ends
  <2> QED
    BY <1>1, <2>1, SameProfilesKeep
<1>6. CASE AddEnds \/ WriteFails
  <2>1. profiles' = profiles /\ target' = Nobody
    BY <1>6 DEF AddEnds, WriteFails, Ends
  <2> QED
    BY <1>1, <2>1, SameProfilesKeep
<1> QED
  BY <1>3, <1>4, <1>5, <1>6 DEF Handles

\* No other step of the start comes to a state in which the copy is there.
LEMMA OnlyCopiesReaches ==
  ASSUME Starts \/ StartFails \/ Listens
  PROVE  main' \in Copied => main \in Copied
<1>1. CASE main' = main
  BY <1>1
<1>2. CASE Life!ReadConfigs \/ StartFails
  <2>1. main' \in {"copy", "stopped"}
    BY <1>2, AfterEach DEF Life!ReadConfigs, Life!Passes, StartFails, Life!InitFails
  <2> QED
    BY <2>1 DEF Copied, Served, Connected, Prepared, Running
<1>3. CASE Starts /\ ~Life!ReadConfigs
  BY <1>3 DEF Starts, Life!RunService, Life!RunNotifications,
     Life!RegisterEvents, Life!InitDiscovery, Life!CreateRtsp, Life!StartIoContext, Life!StartHttp,
     Life!RunRtsp, Life!StartDiscovery, Life!GetPort, Life!Passes,
     Copied, Served, Connected, Prepared, Running
<1>4. Listens => main' = main
  BY DEF Listens, Life!Listen, Life!ListenForEvents
<1> QED
  BY <1>1, <1>2, <1>3, <1>4

LEMMA CopyStep ==
  ASSUME IInv, LifeInv, CopyInv, [ServerNext]_serverVars
  PROVE  CopyInv'
<1>1. CASE Copies
  <2>1. /\ UNCHANGED <<vars, touched>> /\ startup' = file
    BY <1>1 DEF Copies, LifeOnly, CopyOfFile, historyVars
  <2>2. main \in Early
    BY <1>1 DEF Copies, Life!CopyProfiles, Life!Passes, Early
  <2>3. file = profiles /\ file \in Seq(Profile)
    BY <2>2 DEF LifeInv, IInv, TypeOK
  <2>4. \A other : FirstOf(startup', other) = FirstOf(profiles', other)
    BY <2>1, <2>3 DEF vars
  <2> QED
    BY <2>1, <2>3, <2>4 DEF CopyInv, vars, requestVars
<1>2. CASE Starts \/ StartFails \/ Listens
  <2>1. UNCHANGED <<vars, touched, startup>>
    BY <1>2 DEF Starts, StartFails, Listens, LifeOnly, historyVars
  <2>2. main' \in Copied => main \in Copied
    BY <1>2, OnlyCopiesReaches
  <2>3. profiles' = profiles /\ target' = target /\ pc' = pc /\ touched' = touched /\ startup' = startup
    BY <2>1 DEF vars, requestVars
  <2> QED
    BY <2>2, <2>3, SameProfilesKeep DEF CopyInv
<1>3. CASE ProcessEnds
  <2>1. main' = "off" /\ touched' = touched /\ startup' = <<>>
    BY <1>3 DEF ProcessEnds, Life!Exit, Life!Kill, Life!Exits, historyVars, NotRead
  <2>2. target' \in {target, Nobody} /\ (pc' = "idle" => target' = Nobody)
    BY <1>3 DEF ProcessEnds, Crash, Ends, vars, requestVars, CopyInv
  <2>3. main' \notin Copied
    BY <2>1 DEF Copied, Served, Connected, Prepared, Running
  <2>4. <<>> \in Seq(Profile)
    BY EmptySeq
  <2>5. target' \in touched' \cup {Nobody}
    BY <2>1, <2>2 DEF CopyInv
  <2> QED
    BY <2>1, <2>2, <2>3, <2>4, <2>5 DEF CopyInv, Copied, Served, Connected, Prepared, Running
<1>4. CASE Constructs
  <2>1. main' = "configs" /\ startup' = startup /\ target' = target /\ pc' = pc /\ pc = "idle"
    BY <1>4, OrderOfSteps DEF Constructs, Life!Construct, Restart, requestVars, IInv
  <2>2. target' = Nobody
    BY <2>1 DEF CopyInv
  <2>3. main' \notin Copied
    BY <2>1 DEF Copied, Served, Connected, Prepared, Running
  <2> QED
    BY <2>1, <2>2, <2>3 DEF CopyInv, Copied, Served, Connected, Prepared, Running
<1>5. CASE ConstructFails
  <2>1. UNCHANGED <<vars, touched, startup>> /\ main' = "stopped"
    BY <1>5 DEF ConstructFails, LifeOnly, historyVars, Life!ConstructFails
  <2>2. main' \notin Copied
    BY <2>1 DEF Copied, Served, Connected, Prepared, Running
  <2>3. profiles' = profiles /\ target' = target /\ pc' = pc /\ touched' = touched /\ startup' = startup
    BY <2>1 DEF vars, requestVars
  <2> QED
    BY <2>2, <2>3, SameProfilesKeep DEF CopyInv
<1>6. CASE Handles
  BY <1>6, HandlesCopy
<1>7. CASE UNCHANGED <<vars, lifeVars, startup, request, touched, told>>
  <2>1. /\ profiles' = profiles /\ target' = target /\ pc' = pc /\ touched' = touched
        /\ startup' = startup /\ main' = main
    BY <1>7 DEF vars, requestVars, lifeVars
  <2> QED
    BY <2>1, SameProfilesKeep DEF CopyInv
<1>8. CallsToChange => CopyInv'
  BY CallsCopy
<1> QED
  BY <1>1, <1>2, <1>3, <1>4, <1>5, <1>6, <1>7, <1>8, ServerSteps

LEMMA InitCopyInv == ServerInit => CopyInv
<1>1. <<>> \in Seq(Profile)
  BY EmptySeq
<1>2. ServerInit => main \notin Copied
  BY OrderOfSteps DEF ServerInit, Life!Init, Copied, Served, Connected, Prepared, Running
<1> QED
  BY <1>1, <1>2 DEF ServerInit, Init, CopyInv, NotRead

\* The readers of the copy depend on the first profile with the token only.
LEMMA SameFirstAgrees ==
  ASSUME NEW copy \in Seq(Profile), profiles \in Seq(Profile), NEW token \in ProfileTokens,
         FirstOf(copy, token) = FirstOf(profiles, token)
  PROVE  /\ IndexIn(copy, token) # 0 <=> FindProfile(token) # 0
         /\ GetProfile1(copy, token) = GetProfile1(profiles, token)
         /\ GetStreamUri(copy, token, 0) = GetStreamUri(profiles, token, 0)
         /\ \A type : GetAudioConfigurations(copy, type, "", token)
                        = GetAudioConfigurations(profiles, type, "", token)
<1>1. PICK i, j : i = IndexIn(copy, token) /\ j = IndexIn(profiles, token)
  OBVIOUS
<1>2. /\ i # 0 => FirstOf(copy, token) = {copy[i]}
      /\ i = 0 => FirstOf(copy, token) = {}
      /\ j # 0 => FirstOf(profiles, token) = {profiles[j]}
      /\ j = 0 => FirstOf(profiles, token) = {}
  BY <1>1, IndexInFinds
<1>3. (i # 0 <=> j # 0) /\ (i # 0 => copy[i] = profiles[j])
  BY <1>2
<1>4. FindProfile(token) = j
  BY <1>1 DEF FindProfile, IndexIn, SelectInSeq
<1>5. CleanedName(token) = token
  BY CleanedTokens
<1>6. GetProfile1(copy, token) = GetProfile1(profiles, token)
  BY <1>1, <1>3, <1>5, Zenon DEF GetProfile1
<1>7. GetStreamUri(copy, token, 0) = GetStreamUri(profiles, token, 0)
  <2>1. ~(0 > 0)
    OBVIOUS
  <2> QED
    BY <1>1, <1>3, <2>1, Zenon DEF GetStreamUri
<1>8. ASSUME NEW type
      PROVE  GetAudioConfigurations(copy, type, "", token) = GetAudioConfigurations(profiles, type, "", token)
  BY <1>1, <1>3, Zenon DEF GetAudioConfigurations
<1> QED
  BY <1>3, <1>4, <1>1, <1>6, <1>7, <1>8, Zenon

\* Whatever was done to other profiles, and whatever crashes and failed writes came before,
\* the handlers with the copy and those with the manager answer alike about a profile
\* that no request named since the start.
THEOREM UnchangedAlwaysAgree == ServerSpec => []UnchangedProfilesAgree
<1>1. IInv /\ LifeInv /\ CopyInv => UnchangedProfilesAgree
  <2> SUFFICES ASSUME IInv, LifeInv, CopyInv, http = "listening", NEW token \in ProfileTokens \ touched
               PROVE  /\ IndexIn(startup, token) # 0 <=> FindProfile(token) # 0
                      /\ GetProfile1(startup, token) = GetProfile1(profiles, token)
                      /\ GetStreamUri(startup, token, 0) = GetStreamUri(profiles, token, 0)
                      /\ \A type : GetAudioConfigurations(startup, type, "", token)
                                     = GetAudioConfigurations(profiles, type, "", token)
    BY Zenon DEF UnchangedProfilesAgree
  <2>1. main \in Copied
    BY DEF LifeInv, Copied, Served, Connected, Prepared
  <2>2. /\ FirstOf(startup, token) = FirstOf(profiles, token)
        /\ startup \in Seq(Profile) /\ profiles \in Seq(Profile)
    BY <2>1 DEF CopyInv, IInv, TypeOK
  <2> QED
    BY <2>2, SameFirstAgrees, Zenon
<1>2. ServerInit => LifeInv /\ CopyInv
  BY InitLifeInv, InitCopyInv
<1>3. IInv /\ LifeInv /\ CopyInv /\ [ServerNext]_serverVars => LifeInv' /\ CopyInv'
  BY LifeStep, CopyStep
<1> QED
  BY <1>1, <1>2, <1>3, SpecIInvHere, PTL DEF ServerSpec

\* The copy is the file as the constructor left it, so it has what a tree needs.
GoodCopy == main \in Copied => Good(startup)

LEMMA GoodCopyStep ==
  ASSUME IInv, LifeInv, GoodCopy, [ServerNext]_serverVars
  PROVE  GoodCopy'
<1>1. CASE Copies
  <2>1. startup' = file
    BY <1>1 DEF Copies, CopyOfFile
  <2>2. main \in Early
    BY <1>1 DEF Copies, Life!CopyProfiles, Life!Passes, Early
  <2>3. Good(file)
    BY <2>2 DEF LifeInv, IInv
  <2>4. Good(startup')
    BY <2>1, <2>3
  <2> QED
    BY <2>4 DEF GoodCopy, Good, NamesExisting, HasFixed, Refers
<1>2. ASSUME startup' = startup, main' \in Copied => main \in Copied
      PROVE  GoodCopy'
  BY <1>2 DEF GoodCopy, Good, NamesExisting, HasFixed, Refers, Copied, Served, Connected, Prepared, Running
<1>3. ASSUME main' \notin Copied
      PROVE  GoodCopy'
  BY <1>3 DEF GoodCopy, Copied, Served, Connected, Prepared, Running
<1>4. CASE Starts \/ StartFails \/ Listens
  <2>1. startup' = startup
    BY <1>4 DEF Starts, StartFails, Listens
  <2> QED
    BY <1>2, <1>4, <2>1, OnlyCopiesReaches
<1>5. CASE ProcessEnds \/ Constructs \/ ConstructFails
  <2>1. main' \in {"off", "configs", "stopped"}
    BY <1>5, OrderOfSteps DEF ProcessEnds, Life!Exit, Life!Kill, Life!Exits, Constructs,
       Life!Construct, ConstructFails, Life!ConstructFails
  <2> QED
    BY <1>3, <2>1 DEF Copied, Served, Connected, Prepared, Running
<1>6. CASE Handles \/ CallsToChange \/ UNCHANGED <<vars, lifeVars, startup, request, touched, told>>
  <2>1. startup' = startup /\ main' = main
    BY <1>6, HandlesKeeps, CallsKeep DEF lifeVars
  <2> QED
    BY <1>2, <2>1
<1> QED
  BY <1>1, <1>4, <1>5, <1>6, ServerSteps

\* What the handlers find when they are called: two sound trees, and in both the same of
\* a profile that no request named since the start.
Found ==
  /\ Good(profiles)
  /\ Good(startup)
  /\ \A token \in ProfileTokens \ touched : FirstOf(startup, token) = FirstOf(profiles, token)

LEMMA SpecFound == ServerSpec => [](http = "listening" => Found)
<1>1. IInv /\ LifeInv /\ ManagerInv /\ CopyInv /\ GoodCopy => (http = "listening" => Found)
  <2> SUFFICES ASSUME IInv, LifeInv, ManagerInv, CopyInv, GoodCopy, http = "listening" PROVE Found
    OBVIOUS
  <2>1. main \in Copied /\ running
    BY DEF LifeInv, ManagerInv, Copied, Served, Connected, Prepared
  <2> QED
    BY <2>1 DEF Found, IInv, CopyInv, GoodCopy
<1>2. ServerInit => LifeInv /\ ManagerInv /\ CopyInv /\ GoodCopy
  <2>1. ServerInit => main \notin Copied
    BY OrderOfSteps DEF ServerInit, Life!Init, Copied, Served, Connected, Prepared, Running
  <2> QED
    BY <2>1, InitLifeInv, InitManagerInv, InitCopyInv DEF GoodCopy
<1>3. /\ IInv /\ LifeInv /\ ManagerInv /\ CopyInv /\ GoodCopy /\ [ServerNext]_serverVars
      => LifeInv' /\ ManagerInv' /\ CopyInv' /\ GoodCopy'
  BY LifeStep, ManagerStep, CopyStep, GoodCopyStep
<1> QED
  BY <1>1, <1>2, <1>3, SpecIInvHere, PTL DEF ServerSpec

\* A profile that no request named since the start is found by all or by none.
LEMMA FoundAlike ==
  ASSUME Found, NEW token \in ProfileTokens \ touched
  PROVE  /\ IndexIn(startup, token) # 0 <=> FindProfile(token) # 0
         /\ GetProfile1(startup, token) = GetProfile1(profiles, token)
         /\ GetStreamUri(startup, token, 0) = GetStreamUri(profiles, token, 0)
<1>1. startup \in Seq(Profile) /\ profiles \in Seq(Profile)
  BY DEF Found, Good
<1> QED
  BY <1>1, SameFirstAgrees, Zenon DEF Found

\* What Media2 lists is accepted by the handlers that have the manager, and by those with
\* the copy if no request named it since the start; what Media lists, with a channel or
\* without, by Media, and by Media2 if no request named it since the start.
THEOREM ListedIsAlwaysAccepted == ServerSpec => []ListedIsAccepted
<1>1. (http = "listening" => Found) => ListedIsAccepted
  <2> SUFFICES ASSUME Found
               PROVE  LET list == GetProfiles2({}, 0).shows IN
                      /\ \A i \in DOMAIN list : LET token == list[i].token IN
                           /\ Answered(GetProfile2(token))
                           /\ GetSnapshotUri(token).throws # "no_such_profile"
                           /\ GetCompatibleConfigurations(token).throws
                                \notin {"no_such_profile", "no_config"}
                           /\ token \notin touched =>
                                /\ Answered(GetProfile1(startup, token))
                                /\ Answered(GetVideoEncoderConfigurationOptions(startup, token))
                      /\ \A token \in GetProfiles1(startup, 0).shows \cup GetProfiles1(startup, 2).shows :
                           /\ Answered(GetProfile1(startup, token))
                           /\ CleanedName(token) \notin touched => Answered(GetProfile2(token))
    BY Zenon DEF ListedIsAccepted
  <2>1. Good(profiles) /\ Good(startup)
    BY DEF Found
  <2> DEFINE list == GetProfiles2({}, 0).shows
  <2>2. DOMAIN list = DOMAIN profiles /\ \A i \in DOMAIN profiles : list[i].token = profiles[i].token
    BY <2>1, ListTokens
  <2> HIDE DEF list
  <2>3. ASSUME NEW i \in DOMAIN list, NEW token, token = list[i].token
        PROVE  /\ Answered(GetProfile2(token))
               /\ GetSnapshotUri(token).throws # "no_such_profile"
               /\ GetCompatibleConfigurations(token).throws \notin {"no_such_profile", "no_config"}
    BY <2>1, <2>2, <2>3, ManagerAccepts
  <2>4. ASSUME NEW i \in DOMAIN list, NEW token, token = list[i].token, token \notin touched
        PROVE  /\ Answered(GetProfile1(startup, token))
               /\ Answered(GetVideoEncoderConfigurationOptions(startup, token))
    <3>1. token \in ProfileTokens /\ FindProfile(token) # 0
      BY <2>1, <2>2, <2>4, ListedIsFound DEF Good
    <3>2. IndexIn(startup, token) # 0
      BY <2>4, <3>1, FoundAlike
    <3> QED
      BY <2>1, <3>1, <3>2, CopyAccepts
  <2>5. ASSUME NEW token \in GetProfiles1(startup, 0).shows \cup GetProfiles1(startup, 2).shows
        PROVE  /\ Answered(GetProfile1(startup, token))
               /\ CleanedName(token) \notin touched => Answered(GetProfile2(token))
    <3>1. PICK i \in DOMAIN startup : CleanedName(token) = startup[i].token
      BY <2>1, ListedByMedia
    <3>2. Answered(GetProfile1(startup, token)) /\ IndexIn(startup, startup[i].token) # 0
      BY <2>1, <3>1, CopyAnswers
    <3>3. ASSUME CleanedName(token) \notin touched PROVE Answered(GetProfile2(token))
      <4>1. startup[i].token \in ProfileTokens
        BY <2>1, TreeBasics DEF Good
      <4>2. FindProfile(startup[i].token) # 0
        BY <3>1, <3>2, <3>3, <4>1, FoundAlike
      <4>3. PICK j \in DOMAIN profiles : profiles[j].token = startup[i].token
        BY <2>1, <4>2, FoundProfile DEF Good
      <4> QED
        BY <2>1, <3>1, <4>3, SingleAnswers
    <3> QED
      BY <3>2, <3>3
  <2> QED
    BY <2>3, <2>4, <2>5 DEF list
<1> QED
  BY <1>1, SpecFound, PTL

\* Of a profile that names each type once, Media2 says the same alone and in the list, and
\* GetSnapshotUri what follows from it; so does Media of the video, if no request named the
\* profile since the start.  Of each profile that it lists, Media shows the encoder that
\* has the stream.
THEOREM ReadersAlwaysAgree == ServerSpec => []ReadersAgree
<1>1. (http = "listening" => Found) => ReadersAgree
  <2> SUFFICES ASSUME Found
               PROVE  LET list == GetProfiles2({"All"}, 0).shows IN
                      /\ \A i \in DOMAIN profiles :
                           LET token == profiles[i].token
                               listed == list[i].configs IN
                           Unrepeated(profiles[FindProfile(token)]) =>
                             /\ GetProfile2(token) = Answers(listed)
                             /\ Answered(GetSnapshotUri(token)) <=> Video \subseteq DOMAIN listed
                             /\ token \notin touched =>
                                  \A t \in Video \cap DOMAIN listed :
                                    /\ t \in DOMAIN GetProfile1(startup, token).shows
                                    /\ GetProfile1(startup, token).shows[t] = listed[t]
                      /\ \A token \in GetProfiles1(startup, 0).shows :
                           LET shown == GetProfile1(startup, token).shows IN
                           GetStreamUri(startup, token, 0) =
                             IF "VideoEncoder" \in DOMAIN shown THEN Answers({shown["VideoEncoder"]})
                                                                ELSE Throws("runtime_error")
    BY Zenon DEF ReadersAgree
  <2>1. Good(profiles) /\ Good(startup)
    BY DEF Found
  <2> DEFINE list == GetProfiles2({"All"}, 0).shows
  <2>2. ASSUME NEW i \in DOMAIN profiles, NEW token, token = profiles[i].token,
               Unrepeated(profiles[FindProfile(token)])
        PROVE  LET listed == list[i].configs IN
               /\ GetProfile2(token) = Answers(listed)
               /\ Answered(GetSnapshotUri(token)) <=> Video \subseteq DOMAIN listed
               /\ token \notin touched =>
                    \A t \in Video \cap DOMAIN listed :
                      /\ t \in DOMAIN GetProfile1(startup, token).shows
                      /\ GetProfile1(startup, token).shows[t] = listed[t]
    <3> DEFINE listed == list[i].configs
    <3>1. /\ GetProfile2(token) = Answers(listed)
          /\ Answered(GetSnapshotUri(token)) <=> Video \subseteq DOMAIN listed
          /\ \A t \in Video \cap DOMAIN listed :
               /\ t \in DOMAIN GetProfile1(profiles, token).shows
               /\ GetProfile1(profiles, token).shows[t] = listed[t]
      BY <2>1, <2>2, ListAgrees, Zenon DEF Video
    <3>2. token \notin touched => GetProfile1(startup, token) = GetProfile1(profiles, token)
      BY <2>1, <2>2, ListedIsFound, FoundAlike DEF Good
    <3> HIDE DEF listed
    <3> QED
      BY <3>1, <3>2 DEF listed
  <2>3. ASSUME NEW token \in GetProfiles1(startup, 0).shows
        PROVE  LET shown == GetProfile1(startup, token).shows IN
               GetStreamUri(startup, token, 0) =
                 IF "VideoEncoder" \in DOMAIN shown THEN Answers({shown["VideoEncoder"]})
                                                    ELSE Throws("runtime_error")
    BY <2>1, StreamIsShown
  <2> HIDE DEF list
  <2> QED
    BY <2>2, <2>3 DEF list
<1> QED
  BY <1>1, SpecFound, PTL

-----------------------------------------------------------------------------
(* The faults.                                                             *)

\* The faults of the exceptions that the handlers throw which look a profile up.
LEMMA FaultsOf ==
  ASSUME NEW answer
  PROVE  /\ answer.throws = "no_such_profile" => Fault(answer) = "NoProfile" /\ ~ServerError(answer)
         /\ answer.throws = "incomplete_configuration" =>
              Fault(answer) = "IncompleteConfiguration" /\ ~ServerError(answer)
         /\ answer.throws = "runtime_error" =>
              Fault(answer) \notin {"NoProfile", "IncompleteConfiguration"} /\ ServerError(answer)
         /\ Answered(answer) =>
              Fault(answer) \notin {"NoProfile", "IncompleteConfiguration"} /\ ~ServerError(answer)
<1>1. PICK none : none = ""
  OBVIOUS
<1>2. none \notin {"NoProfile", "IncompleteConfiguration"}
  BY <1>1, Zenon
<1>3. ASSUME answer.throws = "no_such_profile"
      PROVE  Fault(answer) = "NoProfile" /\ ~ServerError(answer)
  <2>1. Access!Answer("no_such_profile") = [status |-> 400, fault |-> "NoProfile"]
    BY DEF Access!Answer
  <2> QED
    BY <1>3, <2>1 DEF Fault, ServerError
<1>4. ASSUME answer.throws = "incomplete_configuration"
      PROVE  Fault(answer) = "IncompleteConfiguration" /\ ~ServerError(answer)
  <2>1. Access!Answer("incomplete_configuration") = [status |-> 400, fault |-> "IncompleteConfiguration"]
    BY DEF Access!Answer
  <2> QED
    BY <1>4, <2>1 DEF Fault, ServerError
<1>5. ASSUME answer.throws = "runtime_error"
      PROVE  Fault(answer) \notin {"NoProfile", "IncompleteConfiguration"} /\ ServerError(answer)
  <2>1. Access!Answer("runtime_error") = [status |-> 500, fault |-> ""]
    BY DEF Access!Answer
  <2>2. Access!Answer("runtime_error") = [status |-> 500, fault |-> none]
    BY <1>1, <2>1, Zenon
  <2> QED
    BY <1>2, <1>5, <2>2 DEF Fault, ServerError
<1>6. ASSUME Answered(answer)
      PROVE  Fault(answer) \notin {"NoProfile", "IncompleteConfiguration"} /\ ~ServerError(answer)
  <2>1. answer.throws = ""
    BY <1>6, Zenon DEF Answered
  <2>2. Access!Answer(answer.throws) = [status |-> 200, fault |-> none]
    BY <1>1, <2>1, Zenon DEF Access!Answer
  <2> QED
    BY <1>2, <2>2 DEF Fault, ServerError
<1> QED
  BY <1>3, <1>4, <1>5, <1>6

LEMMA SnapshotThrows ==
  ASSUME NEW token
  PROVE  \/ GetSnapshotUri(token).throws = "no_such_profile" /\ FindProfile(token) = 0
         \/ GetSnapshotUri(token).throws = "incomplete_configuration" /\ FindProfile(token) # 0
         \/ (\E x : GetSnapshotUri(token) = Answers(x)) /\ FindProfile(token) # 0
<1>1. CASE FindProfile(token) = 0
  BY <1>1, Zenon DEF GetSnapshotUri, Throws
<1>2. CASE FindProfile(token) # 0
  <2> DEFINE k == FindProfile(token)
             missing == "" \in {First(profiles[k], "VideoSource"), First(profiles[k], "VideoEncoder")}
  <2>1. CASE missing
    <3>1. GetSnapshotUri(token) = Throws("incomplete_configuration")
      BY <1>2, <2>1, Zenon DEF GetSnapshotUri
    <3>2. GetSnapshotUri(token).throws = "incomplete_configuration"
      BY <3>1 DEF Throws
    <3> QED
      BY <1>2, <3>2, Zenon
  <2>2. CASE ~missing
    <3>1. GetSnapshotUri(token) = Answers({"snapshot"})
      BY <1>2, <2>2, Zenon DEF GetSnapshotUri
    <3> QED
      BY <1>2, <3>1, Zenon
  <2> QED
    BY <2>1, <2>2
<1> QED
  BY <1>1, <1>2

\* Of the handlers that have the manager.
LEMMA ManagerFaults ==
  ASSUME Good(profiles), NEW token \in ProfileTokens
  PROVE  /\ \A fault \in {Fault(GetProfile2(token)), Fault(GetSnapshotUri(token)),
                          Fault(GetCompatibleConfigurations(token))} :
              /\ fault = "NoProfile" <=> FindProfile(token) = 0
              /\ fault = "IncompleteConfiguration" => FindProfile(token) # 0
         /\ ~ServerError(GetProfile2(token)) /\ ~ServerError(GetSnapshotUri(token))
         /\ ServerError(GetCompatibleConfigurations(token)) =>
              FindProfile(token) # 0 /\ ~Has(profiles[FindProfile(token)], "VideoSource")
<1>1. CleanedName(token) = token
  BY CleanedTokens
<1>2. \A x : Throws(x).throws = x
  BY DEF Throws
<1>3. CASE FindProfile(token) = 0
  <2>1. /\ GetProfile2(token) = Throws("no_such_profile")
        /\ GetSnapshotUri(token) = Throws("no_such_profile")
        /\ GetCompatibleConfigurations(token) = Throws("no_such_profile")
    BY <1>1, <1>3, Zenon DEF GetProfile2, GetSnapshotUri, GetCompatibleConfigurations
  <2>2. Fault(Throws("no_such_profile")) = "NoProfile" /\ ~ServerError(Throws("no_such_profile"))
    BY <1>2, FaultsOf
  <2> QED
    BY <1>3, <2>1, <2>2
<1>4. CASE FindProfile(token) # 0
  <2> DEFINE named == {"NoProfile", "IncompleteConfiguration"}
  <2>1. FindProfile(token) \in DOMAIN profiles /\ profiles[FindProfile(token)].token = token
    BY <1>4, FoundProfile DEF Good
  <2>2. Fault(GetProfile2(token)) \notin named /\ ~ServerError(GetProfile2(token))
    <3>1. Answered(GetProfile2(token))
      BY <2>1, ManagerAccepts
    <3> QED
      BY <3>1, FaultsOf
  <2>3. Fault(GetSnapshotUri(token)) # "NoProfile" /\ ~ServerError(GetSnapshotUri(token))
    <3>1. CASE Answered(GetSnapshotUri(token))
      BY <3>1, FaultsOf
    <3>2. CASE GetSnapshotUri(token).throws = "incomplete_configuration"
      <4>1. Fault(GetSnapshotUri(token)) = "IncompleteConfiguration" /\ ~ServerError(GetSnapshotUri(token))
        BY <3>2, FaultsOf
      <4> QED
        BY <4>1
    <3> QED
      BY <1>4, <3>1, <3>2, SnapshotThrows, AnswersAreAnswered
  <2>4. /\ Fault(GetCompatibleConfigurations(token)) \notin named
        /\ ServerError(GetCompatibleConfigurations(token)) =>
             ~Has(profiles[FindProfile(token)], "VideoSource")
    <3>1. IF Has(profiles[FindProfile(token)], "VideoSource")
          THEN Answered(GetCompatibleConfigurations(token))
          ELSE GetCompatibleConfigurations(token).throws = "runtime_error"
      BY <1>4, <2>1, CompatibleAnswers
    <3>2. CASE Has(profiles[FindProfile(token)], "VideoSource")
      <4>1. Answered(GetCompatibleConfigurations(token))
        BY <3>1, <3>2
      <4> QED
        BY <4>1, FaultsOf
    <3>3. CASE ~Has(profiles[FindProfile(token)], "VideoSource")
      <4>1. GetCompatibleConfigurations(token).throws = "runtime_error"
        BY <3>1, <3>3
      <4> QED
        BY <3>3, <4>1, FaultsOf
    <3> QED
      BY <3>2, <3>3
  <2>5. \A fault \in {Fault(GetProfile2(token)), Fault(GetSnapshotUri(token)),
                     Fault(GetCompatibleConfigurations(token))} : fault # "NoProfile"
    BY <2>2, <2>3, <2>4
  <2> QED
    BY <1>4, <2>2, <2>3, <2>4, <2>5
<1> QED
  BY <1>3, <1>4

\* Of the handlers with the copy.
LEMMA CopyFaults ==
  ASSUME Found, NEW token \in ProfileTokens \ touched
  PROVE  /\ ServerError(GetProfile1(startup, token)) <=> FindProfile(token) = 0
         /\ ServerError(GetVideoEncoderConfigurationOptions(startup, token)) <=> FindProfile(token) = 0
         /\ ServerError(GetStreamUri(startup, token, 0)) <=>
              ~(FindProfile(token) # 0 /\ Says(profiles[FindProfile(token)], "VideoEncoder"))
<1>1. Good(profiles) /\ Good(startup) /\ CleanedName(token) = token
  BY CleanedTokens DEF Found
<1>2. \A x : Throws(x).throws = x
  BY DEF Throws
<1>3. ~(0 > 0)
  OBVIOUS
<1>4. CASE FindProfile(token) = 0
  <2>1. IndexIn(startup, token) = 0
    BY <1>4, FoundAlike
  <2>2. token # <<>>
    BY NobodyIsNone DEF Nobody
  <2>3. /\ GetProfile1(startup, token) = Throws("runtime_error")
        /\ GetVideoEncoderConfigurationOptions(startup, token) = Throws("runtime_error")
        /\ GetStreamUri(startup, token, 0) = Throws("runtime_error")
    BY <1>1, <1>3, <2>1, <2>2, Zenon DEF GetProfile1, GetVideoEncoderConfigurationOptions, GetStreamUri
  <2> QED
    BY <1>2, <1>4, <2>3, FaultsOf
<1>5. CASE FindProfile(token) # 0
  <2>1. IndexIn(startup, token) # 0
    BY <1>5, FoundAlike
  <2>2. /\ Answered(GetProfile1(startup, token))
        /\ Answered(GetVideoEncoderConfigurationOptions(startup, token))
    BY <1>1, <2>1, CopyAccepts
  <2>3. PICK k : k = FindProfile(token)
    OBVIOUS
  <2>4. k \in DOMAIN profiles /\ k # 0 /\ IndexIn(profiles, token) = k
    <3>1. IndexIn(profiles, token) = FindProfile(token)
      BY DEF IndexIn, FindProfile, SelectInSeq
    <3> QED
      BY <1>1, <1>5, <2>3, <3>1, FoundProfile DEF Good
  <2>5. GetStreamUri(startup, token, 0) =
          IF Says(profiles[k], "VideoEncoder") THEN Answers({First(profiles[k], "VideoEncoder")})
                                               ELSE Throws("runtime_error")
    BY <1>1, <2>4, StreamAnswers, FoundAlike
  <2>6. ServerError(GetStreamUri(startup, token, 0)) <=> ~Says(profiles[k], "VideoEncoder")
    <3>1. CASE Says(profiles[k], "VideoEncoder")
      <4>1. Answered(GetStreamUri(startup, token, 0))
        BY <2>5, <3>1, AnswersAreAnswered
      <4> QED
        BY <3>1, <4>1, FaultsOf
    <3>2. CASE ~Says(profiles[k], "VideoEncoder")
      BY <1>2, <2>5, <3>2, FaultsOf
    <3> QED
      BY <3>1, <3>2
  <2> QED
    BY <1>5, <2>2, <2>3, <2>6, FaultsOf
<1> QED
  BY <1>4, <1>5

\* Whatever was done to the profiles and whenever the process started: NoProfile is the
\* answer of a handler with the manager just for a profile that Media2 does not list, and
\* a server error that of a handler with the copy, for one that no request named since the
\* start, just if it is not listed or, for GetStreamUri, shown without an encoder.
THEOREM FaultsAreAlwaysTrue == ServerSpec => []FaultsAreTrue
<1>1. (http = "listening" => Found) => FaultsAreTrue
  <2> SUFFICES ASSUME Found, NEW token \in ProfileTokens
               PROVE  LET list == GetProfiles2({"All"}, 0).shows
                          shown == {list[i].token : i \in DOMAIN list}
                          with(type) == {list[i].token : i \in {j \in DOMAIN list :
                                                                  type \in DOMAIN list[j].configs}} IN
                      /\ \A fault \in {Fault(GetProfile2(token)), Fault(GetSnapshotUri(token)),
                                       Fault(GetCompatibleConfigurations(token))} :
                           /\ fault = "NoProfile" <=> token \notin shown
                           /\ fault = "IncompleteConfiguration" => token \in shown
                      /\ ~ServerError(GetProfile2(token)) /\ ~ServerError(GetSnapshotUri(token))
                      /\ ServerError(GetCompatibleConfigurations(token)) => token \notin with("VideoSource")
                      /\ token \notin touched =>
                           /\ ServerError(GetProfile1(startup, token)) <=> token \notin shown
                           /\ ServerError(GetVideoEncoderConfigurationOptions(startup, token))
                                <=> token \notin shown
                           /\ ServerError(GetStreamUri(startup, token, 0)) <=> token \notin with("VideoEncoder")
    BY Zenon DEF FaultsAreTrue
  <2> DEFINE list == GetProfiles2({"All"}, 0).shows
             shown == {list[i].token : i \in DOMAIN list}
             with(type) == {list[i].token : i \in {j \in DOMAIN list : type \in DOMAIN list[j].configs}}
             k == FindProfile(token)
  <2>1. Good(profiles)
    BY DEF Found
  <2>2. /\ token \in shown <=> k # 0
        /\ \A type \in {"VideoSource", "VideoEncoder"} :
             token \in with(type) <=> k # 0 /\ Last_(profiles[k], type) # ""
    BY <2>1, ListShows
  <2> HIDE DEF shown, with
  <2>3. k # 0 => k \in DOMAIN profiles
    BY <2>1, FoundProfile DEF Good
  <2>4. /\ \A fault \in {Fault(GetProfile2(token)), Fault(GetSnapshotUri(token)),
                         Fault(GetCompatibleConfigurations(token))} :
             /\ fault = "NoProfile" <=> token \notin shown
             /\ fault = "IncompleteConfiguration" => token \in shown
        /\ ~ServerError(GetProfile2(token)) /\ ~ServerError(GetSnapshotUri(token))
    BY <2>1, <2>2, ManagerFaults
  <2>5. ServerError(GetCompatibleConfigurations(token)) => token \notin with("VideoSource")
    <3>1. ~Has(profiles[k], "VideoSource") /\ k # 0 => Last_(profiles[k], "VideoSource") = ""
      BY <2>1, <2>3, TreeBasics, FirstAndLastOfType DEF Good, TokenOfType
    <3> QED
      BY <2>1, <2>2, <3>1, ManagerFaults
  <2>6. ASSUME token \notin touched
        PROVE  /\ ServerError(GetProfile1(startup, token)) <=> token \notin shown
               /\ ServerError(GetVideoEncoderConfigurationOptions(startup, token)) <=> token \notin shown
               /\ ServerError(GetStreamUri(startup, token, 0)) <=> token \notin with("VideoEncoder")
    <3>1. k # 0 => (Last_(profiles[k], "VideoEncoder") # "" <=> Says(profiles[k], "VideoEncoder"))
      BY <2>1, <2>3, EncoderIsSaid
    <3>2. token \in with("VideoEncoder") <=> k # 0 /\ Says(profiles[k], "VideoEncoder")
      BY <2>2, <3>1
    <3> QED
      BY <2>2, <2>6, <3>2, CopyFaults
  <2> HIDE DEF list
  <2> QED
    BY <2>4, <2>5, <2>6 DEF list, shown, with
<1> QED
  BY <1>1, SpecFound, PTL

-----------------------------------------------------------------------------
(* Types.                                                                  *)

LifeTypes ==
  /\ registered \in 0..Len(Life!Services)
  /\ events \in {"nothing", "manager", "handlers"}
  /\ ioContext \in BOOLEAN
  /\ {http, eventsHttp} \subseteq {"none", "starting", "listening", "failed"}

LEMMA LifeTypesStep ==
  ASSUME LifeInv, LifeTypes, [ServerNext]_serverVars
  PROVE  LifeTypes'
<1> USE DEF LifeTypes
<1>1. Len(Life!Services) = 8
  BY DEF Life!Services
<1>2. CASE Copies \/ StartFails \/ Listens
  <2>1. CASE Copies \/ StartFails
    BY <1>1, <2>1 DEF Copies, Life!CopyProfiles, Life!Passes, StartFails, Life!InitFails
  <2>2. CASE Life!Listen
    BY <1>1, <2>2 DEF Life!Listen
  <2>3. CASE Life!ListenForEvents
    BY <1>1, <2>3 DEF Life!ListenForEvents
  <2> QED
    BY <1>2, <2>1, <2>2, <2>3 DEF Listens
<1>3. CASE Starts
  <2>1. CASE Life!RunService
    <3>1. registered \in 0..7 /\ registered' = registered + 1 /\ UNCHANGED <<events, ioContext, http, eventsHttp>>
      BY <1>1, <2>1 DEF LifeInv, Life!RunService
    <3> QED
      BY <1>1, <3>1
  <2>2. CASE Starts /\ ~Life!RunService
    BY <1>1, <2>2 DEF Starts, Life!ReadConfigs, Life!RunNotifications,
       Life!RegisterEvents, Life!InitDiscovery, Life!CreateRtsp, Life!StartIoContext, Life!StartHttp,
       Life!RunRtsp, Life!StartDiscovery, Life!GetPort, Life!Passes
  <2> QED
    BY <1>3, <2>1, <2>2
<1>4. CASE ProcessEnds
  <2>1. /\ registered' = 0 /\ events' = "nothing" /\ ioContext' = FALSE
        /\ http' = "none" /\ eventsHttp' = "none"
    BY <1>4 DEF ProcessEnds, Life!Exit, Life!Kill, Life!Exits
  <2>2. 0 \in 0..Len(Life!Services)
    BY <1>1
  <2> QED
    BY <2>1, <2>2 DEF Life!Services
<1>5. CASE Constructs \/ ConstructFails
  BY <1>1, <1>5 DEF Constructs, Life!Construct, ConstructFails, Life!ConstructFails
<1>6. CASE UNCHANGED lifeVars
  BY <1>1, <1>6 DEF lifeVars
<1> QED
  BY <1>2, <1>3, <1>4, <1>5, <1>6, ServerSteps, CallsKeep, HandlesKeeps

\* The module of the search has the definition for itself.
LEMMA FiniteIsFinite == \A S : Search!IsFiniteSet(S) <=> IsFiniteSet(S)
BY DEF Search!IsFiniteSet, IsFiniteSet

LEMMA SearchTypesStep ==
  ASSUME Search!TypeOK, [ServerNext]_serverVars
  PROVE  Search!TypeOK'
<1>1. CASE Search!FindEvents
  <2>1. PICK from \in {clock, clock + 1}, until \in {clock, clock + 1} :
          LET session == [token |-> searchToken, from |-> Search!DateFrom(Recordings[1], from),
                          until |-> Search!DateUntil(Recordings[1], until)] IN
          /\ clock' = IF clock + 1 \in {from, until} THEN clock + 1 ELSE clock
          /\ searchSessions' = searchSessions \cup {session}
          /\ promised' = promised \cup {[token |-> searchToken, events |-> Search!Events(session)]}
    BY <1>1 DEF Search!FindEvents
  <2> DEFINE session == [token |-> searchToken, from |-> Search!DateFrom(Recordings[1], from),
                         until |-> Search!DateUntil(Recordings[1], until)]
             promise == [token |-> searchToken, events |-> Search!Events(session)]
  <2>2. /\ searchToken \in Nat /\ findToken \in Nat /\ clock \in Nat
        /\ searchToken' = searchToken + 1 /\ findToken' = findToken
    BY <1>1 DEF Search!TypeOK, Search!FindEvents, Search!NextToken
  <2>3. clock' \in Nat
    BY <2>1, <2>2
  <2>4. Search!DateFrom(Recordings[1], from) \in Int /\ Search!DateUntil(Recordings[1], until) \in Int
    <3>1. from \in Nat /\ until \in Nat
      BY <2>2
    <3> QED
      BY <3>1, DatesGrow
  <2>5. session \in [token : Nat, from : Int, until : Int]
    BY <2>2, <2>4
  <2>6. promise.token = searchToken
    OBVIOUS
  <2>7. searchSessions' = searchSessions \cup {session} /\ promised' = promised \cup {promise}
    BY <2>1
  <2> HIDE DEF session, promise
  <2>8. Search!IsFiniteSet(searchSessions')
    <3>1. IsFiniteSet(searchSessions)
      BY FiniteIsFinite DEF Search!TypeOK
    <3>2. IsFiniteSet(searchSessions \cup {session})
      BY <3>1, FS_AddElement
    <3> QED
      BY <2>7, <3>2, FiniteIsFinite
  <2> QED
    BY <2>2, <2>3, <2>5, <2>6, <2>7, <2>8 DEF Search!TypeOK
<1>2. CASE Search!FindRecordings
  BY <1>2 DEF Search!FindRecordings, Search!TypeOK
<1>3. CASE Search!Tick
  BY <1>3 DEF Search!Tick, Search!TypeOK
<1>4. CASE Search!Forget
  <2>1. Search!IsFiniteSet({})
    BY FS_EmptySet, FiniteIsFinite
  <2>2. clock' \in Nat
    BY <1>4 DEF Search!Forget, Search!TypeOK
  <2>3. searchSessions' = {} /\ promised' = {} /\ searchToken' = 0 /\ findToken' = 0
    BY <1>4 DEF Search!Forget
  <2> QED
    BY <2>1, <2>2, <2>3 DEF Search!TypeOK
<1>5. CASE UNCHANGED searchVars
  BY <1>5 DEF searchVars, Search!TypeOK
<1>6. \/ Search!FindEvents \/ Search!FindRecordings \/ Search!Tick \/ Search!Forget
      \/ UNCHANGED searchVars
  BY DEF ServerNext, Copies, Starts, StartFails, Listens, ProcessEnds, Constructs, ConstructFails,
         LifeOnly, CallsCreateProfile, CallsDeleteProfile, CallsAddConfiguration,
         CallsRemoveConfiguration, CallsSetConfiguration, Calls, Searches, Handles, HandlerOnly,
         Ticks, AsksForSnapshot, Sends, searchVars, serverVars
<1> QED
  BY <1>1, <1>2, <1>3, <1>4, <1>5, <1>6

ChunkSeq == Seq(1..Snapshot!Chunks)
Downloading == [state : {"none", "sending", "ending", "done"}, read : 0..Snapshot!Chunks,
                response : ChunkSeq, got : ChunkSeq]
SnapshotTypes == buffer \in 0..Snapshot!Chunks /\ download \in [Downloads -> Downloading]

LEMMA ReadAndSendTypes ==
  ASSUME SnapshotTypes, NEW d \in Downloads, NEW got \in ChunkSeq, Snapshot!ReadAndSend(d, got)
  PROVE  SnapshotTypes'
<1> DEFINE chunk == download[d].read + 1
<1>1. download[d].read \in 0..Snapshot!Chunks /\ Snapshot!Chunks \in Nat
  BY ChunksType DEF SnapshotTypes, Downloading
<1>2. CASE chunk > Snapshot!Chunks
  <2> DEFINE r == [state |-> "done", read |-> download[d].read, response |-> <<>>, got |-> got]
  <2>1. download' = [download EXCEPT ![d] = r] /\ buffer' = buffer
    BY <1>2 DEF Snapshot!ReadAndSend
  <2>2. <<>> \in ChunkSeq
    BY EmptySeq DEF ChunkSeq
  <2>3. r \in Downloading
    BY <1>1, <2>2 DEF Downloading
  <2> HIDE DEF r
  <2> QED
    BY <2>1, <2>3 DEF SnapshotTypes, Downloading, ChunkSeq, Snapshot!Chunks
<1>3. CASE ~(chunk > Snapshot!Chunks)
  <2> DEFINE r == [state |-> IF Snapshot!IsFull(chunk) THEN "sending" ELSE "ending",
                   read |-> chunk, response |-> <<chunk>>, got |-> got]
  <2>1. download' = [download EXCEPT ![d] = r] /\ buffer' = chunk
    BY <1>3 DEF Snapshot!ReadAndSend
  <2>2. chunk \in 1..Snapshot!Chunks
    BY <1>1, <1>3
  <2> HIDE DEF chunk
  <2>3. <<chunk>> \in ChunkSeq
    BY <2>2 DEF ChunkSeq
  <2>4. chunk \in 0..Snapshot!Chunks
    BY <2>2, <1>1
  <2>5. r \in Downloading
    BY <2>3, <2>4 DEF Downloading
  <2> HIDE DEF r
  <2> QED
    BY <2>1, <2>4, <2>5 DEF SnapshotTypes, Downloading, ChunkSeq, Snapshot!Chunks
<1> QED
  BY <1>2, <1>3

LEMMA SnapshotTypesStep ==
  ASSUME SnapshotTypes, [ServerNext]_serverVars
  PROVE  SnapshotTypes'
<1>1. Snapshot!Chunks \in Nat /\ <<>> \in ChunkSeq
  BY ChunksType, EmptySeq DEF ChunkSeq
<1>2. Snapshot!NoDownload \in Downloading /\ 0 \in 0..Snapshot!Chunks
  BY <1>1 DEF Downloading, Snapshot!NoDownload
<1>3. ASSUME NEW d \in Downloads, Snapshot!GetSnapshot(d) PROVE SnapshotTypes'
  BY <1>1, <1>3, ReadAndSendTypes DEF Snapshot!GetSnapshot
<1>4. ASSUME NEW d \in Downloads PROVE download[d].got \o Snapshot!Copied(download[d].response) \in ChunkSeq
  <2>1. download[d].got \in ChunkSeq /\ download[d].response \in ChunkSeq
    BY DEF SnapshotTypes, Downloading
  <2> QED
    BY <2>1, ConcatProperties DEF ChunkSeq, Snapshot!Copied
<1>5. ASSUME NEW d \in Downloads, Snapshot!Sent(d) PROVE SnapshotTypes'
  BY <1>4, <1>5, ReadAndSendTypes DEF Snapshot!Sent
<1>6. ASSUME NEW d \in Downloads, Snapshot!Ends(d) PROVE SnapshotTypes'
  <2> DEFINE r == [state |-> "done", read |-> download[d].read, response |-> <<>>,
                   got |-> download[d].got \o Snapshot!Copied(download[d].response)]
  <2>1. download' = [download EXCEPT ![d] = r] /\ buffer' = buffer
    BY <1>6 DEF Snapshot!Ends
  <2>2. download[d].read \in 0..Snapshot!Chunks
    BY DEF SnapshotTypes, Downloading
  <2>3. r \in Downloading
    BY <1>1, <1>4, <2>2 DEF Downloading
  <2> HIDE DEF r
  <2> QED
    BY <2>1, <2>3 DEF SnapshotTypes, Downloading, ChunkSeq, Snapshot!Chunks
<1>7. ASSUME NEW d \in Downloads, Snapshot!Breaks(d) \/ Snapshot!Leaves(d) PROVE SnapshotTypes'
  <2>1. download' = [download EXCEPT ![d] = Snapshot!NoDownload] /\ buffer' = buffer
    BY <1>7 DEF Snapshot!Breaks, Snapshot!Leaves
  <2> QED
    BY <1>2, <2>1 DEF SnapshotTypes, Downloading, ChunkSeq, Snapshot!Chunks
<1>8. CASE Snapshot!Forget
  <2>1. buffer' = 0 /\ download' = [d \in Downloads |-> Snapshot!NoDownload]
    BY <1>8 DEF Snapshot!Forget
  <2> QED
    BY <1>2, <2>1 DEF SnapshotTypes, Downloading, ChunkSeq, Snapshot!Chunks
<1>9. CASE UNCHANGED downloadVars
  BY <1>9 DEF downloadVars, SnapshotTypes, Downloading, ChunkSeq, Snapshot!Chunks
<1>10. \/ \E d \in Downloads : Snapshot!GetSnapshot(d)
       \/ \E d \in Downloads :
            Snapshot!Sent(d) \/ Snapshot!Ends(d) \/ Snapshot!Breaks(d) \/ Snapshot!Leaves(d)
       \/ Snapshot!Forget
       \/ UNCHANGED downloadVars
  BY DEF ServerNext, Copies, Starts, StartFails, Listens, ProcessEnds, Constructs, ConstructFails,
         LifeOnly, CallsCreateProfile, CallsDeleteProfile, CallsAddConfiguration,
         CallsRemoveConfiguration, CallsSetConfiguration, Calls, Searches, Handles, HandlerOnly,
         Ticks, AsksForSnapshot, Sends, downloadVars, serverVars
<1> QED
  BY <1>3, <1>5, <1>6, <1>7, <1>8, <1>9, <1>10

\* The request that is served, and what is remembered of those that were.
Methods == {"CreateProfile", "DeleteProfile", "AddConfiguration", "RemoveConfiguration",
            "SetConfiguration"}
CallersAndNone == Logins \cup {""}

RequestTypes ==
  /\ request.method \in Methods \cup {"none"}
  /\ request.token \in ProfileTokens \cup {Nobody}
  /\ request.login \in CallersAndNone
  /\ request = NoRequest <=> pc = "idle"
  /\ touched \cup told \subseteq ProfileTokens \cup {Nobody}

LEMMA NoRequestTypes ==
  /\ NoRequest.method = "none" /\ NoRequest.token = Nobody
  /\ NoRequest.login \in CallersAndNone /\ Logins \subseteq CallersAndNone
<1>1. PICK none : none = ""
  OBVIOUS
<1>2. NoRequest = [method |-> "none", token |-> Nobody, login |-> none]
  BY <1>1, Zenon DEF NoRequest
<1>3. NoRequest.method = "none" /\ NoRequest.token = Nobody /\ NoRequest.login = none
  BY <1>2
<1>4. none \in CallersAndNone /\ Logins \subseteq CallersAndNone
  BY <1>1, Zenon DEF CallersAndNone
<1> QED
  BY <1>3, <1>4

LEMMA CallTypes ==
  ASSUME RequestTypes, NEW method \in Methods, NEW token \in ProfileTokens \cup {Nobody},
         NEW login \in Logins, Calls(method, token, login), pc' # "idle"
  PROVE  RequestTypes'
<1>1. /\ request' = [method |-> method, token |-> token, login |-> login]
      /\ touched' = touched \cup {token}
      /\ told' \subseteq told
  BY DEF Calls
<1>2. request'.method = method /\ request'.token = token /\ request'.login = login
  BY <1>1
<1>3. request' # NoRequest
  BY <1>2, NoRequestTypes DEF Methods
<1>4. touched \cup told \subseteq ProfileTokens \cup {Nobody}
  BY DEF RequestTypes
<1>5. touched' \cup told' \subseteq ProfileTokens \cup {Nobody}
  BY <1>1, <1>4
<1>6. NoRequest' = NoRequest
  BY DEF NoRequest, Nobody
<1> QED
  BY <1>2, <1>3, <1>5, <1>6, NoRequestTypes
     DEF RequestTypes, ProfileTokens, Nobody, CallersAndNone, Logins, Methods, Access!NoHeader

LEMMA RequestStays ==
  ASSUME RequestTypes, request' = request, pc' = "idle" <=> pc = "idle", told' = told,
         touched' = touched \/ touched' = {}
  PROVE  RequestTypes'
<1>1. touched' \cup told' \subseteq ProfileTokens \cup {Nobody}
  BY DEF RequestTypes
<1> QED
  BY <1>1 DEF RequestTypes, ProfileTokens, Nobody, CallersAndNone, Logins, Methods, NoRequest, Access!NoHeader

LEMMA RequestEnds ==
  ASSUME RequestTypes, request' = NoRequest, pc' = "idle", told' \subseteq told \cup {request.token},
         touched' = touched
  PROVE  RequestTypes'
<1>1. touched' \cup told' \subseteq ProfileTokens \cup {Nobody}
  BY DEF RequestTypes
<1>2. /\ request'.method = "none" /\ request'.token = Nobody /\ request'.login \in CallersAndNone
  BY NoRequestTypes
<1> QED
  BY <1>1, <1>2 DEF RequestTypes, ProfileTokens, Nobody, CallersAndNone, Logins, Methods, NoRequest, Access!NoHeader

LEMMA RequestTypesStep ==
  ASSUME IInv, RequestTypes, [ServerNext]_serverVars
  PROVE  RequestTypes'
<1>1. CASE Copies \/ Starts \/ StartFails \/ Listens \/ ConstructFails
  <2>1. UNCHANGED <<vars, request, touched, told>>
    BY <1>1 DEF Copies, Starts, StartFails, Listens, ConstructFails, LifeOnly, historyVars
  <2> QED
    BY <2>1, RequestStays DEF vars, requestVars
<1>2. CASE ProcessEnds
  <2>1. pc' = "idle"
    BY <1>2 DEF ProcessEnds, Crash, Ends, vars, requestVars, IInv
  <2>2. request' = NoRequest /\ touched' = touched /\ told' = told
    BY <1>2 DEF ProcessEnds, historyVars
  <2> QED
    BY <2>1, <2>2, RequestEnds
<1>3. CASE Constructs
  <2>1. request' = request /\ pc' = pc /\ told' = told /\ touched' = {}
    BY <1>3 DEF Constructs, Restart, requestVars
  <2> QED
    BY <2>1, RequestStays
<1>4. CASE Handles
  <2>1. touched' = touched /\ pc # "idle"
    BY <1>4, HandlesKeeps
  <2>2. ASSUME GoesOn PROVE RequestTypes'
    <3>1. pc' # "idle" /\ request' = request /\ told' = told
      BY <2>2 DEF GoesOn
    <3> QED
      BY <2>1, <3>1, RequestStays
  <2>3. ASSUME NEW ok, EndsRequest(ok) PROVE RequestTypes'
    <3>1. pc' = "idle" /\ request' = NoRequest /\ told' \subseteq told \cup {request.token}
      BY <2>3 DEF EndsRequest
    <3> QED
      BY <2>1, <3>1, RequestEnds
  <2> QED
    BY <1>4, <2>2, <2>3 DEF Handles
<1>5. CASE CallsToChange
  <2>1. ASSUME NEW login \in Logins, NEW list, CallsCreateProfile(login, list) PROVE RequestTypes'
    <3>1. PICK token : token = NewProfileToken(Len(profiles))
      OBVIOUS
    <3>2. Calls("CreateProfile", token, login) /\ pc' = "open"
      BY <2>1, <3>1 DEF CallsCreateProfile, CreateProfile, ThenSave
    <3>3. Len(profiles) \in 0..MaxProfiles
      <4>1. Len(profiles) \in Nat
        BY TreeBasics DEF IInv, TypeOK
      <4>2. Len(profiles) < MaxProfiles /\ MaxProfiles \in Nat
        BY <2>1, ProfilesAssumption DEF CallsCreateProfile, CreateProfile
      <4> QED
        BY <4>1, <4>2
    <3>4. token \in ProfileTokens
      BY <3>1, <3>3 DEF NewProfileToken, ProfileTokens
    <3> QED
      BY <3>2, <3>4, CallTypes DEF Methods
  <2>2. ASSUME NEW login \in Logins, NEW token \in ProfileTokens, CallsDeleteProfile(login, token)
        PROVE  RequestTypes'
    <3>1. Calls("DeleteProfile", token, login) /\ pc' = "open"
      BY <2>2 DEF CallsDeleteProfile, DeleteProfile, ThenSave
    <3> QED
      BY <3>1, CallTypes DEF Methods
  <2>3. ASSUME NEW login \in Logins, NEW token \in ProfileTokens, NEW list,
               CallsAddConfiguration(login, token, list)
        PROVE  RequestTypes'
    <3>1. Calls("AddConfiguration", token, login) /\ pc' = "add"
      BY <2>3 DEF CallsAddConfiguration, AddConfiguration
    <3> QED
      BY <3>1, CallTypes DEF Methods
  <2>4. ASSUME NEW login \in Logins, NEW token \in ProfileTokens, NEW type, NEW config,
               CallsRemoveConfiguration(login, token, type, config)
        PROVE  RequestTypes'
    <3>1. Calls("RemoveConfiguration", token, login) /\ pc' = "open"
      BY <2>4 DEF CallsRemoveConfiguration, RemoveConfiguration, ThenSave
    <3> QED
      BY <3>1, CallTypes DEF Methods
  <2>5. ASSUME NEW login \in Logins, CallsSetConfiguration(login) PROVE RequestTypes'
    <3>1. Calls("SetConfiguration", Nobody, login) /\ pc' = "open"
      BY <2>5 DEF CallsSetConfiguration, SetConfiguration, ThenSave
    <3> QED
      BY <3>1, CallTypes DEF Methods
  <2> QED
    BY <1>5, <2>1, <2>2, <2>3, <2>4, <2>5, Zenon DEF CallsToChange
<1>6. CASE UNCHANGED <<vars, lifeVars, startup, request, touched, told>>
  BY <1>6, RequestStays DEF vars, requestVars
<1> QED
  BY <1>1, <1>2, <1>3, <1>4, <1>5, <1>6, ServerSteps

LEMMA RequestsStep ==
  ASSUME requests \in 0..MaxRequests, [ServerNext]_serverVars
  PROVE  requests' \in 0..MaxRequests
<1>1. requests' = requests \/ (Serves /\ requests' = requests + 1)
  BY DEF ServerNext, Copies, Starts, StartFails, Listens, ProcessEnds, Constructs, ConstructFails,
         LifeOnly, historyVars, CallsCreateProfile, CallsDeleteProfile, CallsAddConfiguration,
         CallsRemoveConfiguration, CallsSetConfiguration, Calls, Searches, Handles, HandlerOnly,
         Ticks, AsksForSnapshot, Sends, serverVars
<1>2. CASE requests' = requests
  BY <1>2
<1>3. CASE Serves /\ requests' = requests + 1
  <2>1. requests < MaxRequests
    BY <1>3 DEF Serves
  <2> QED
    BY <1>3, <2>1, ServerAssumption
<1> QED
  BY <1>1, <1>2, <1>3

ServerTypes ==
  /\ LifeTypes
  /\ Search!TypeOK
  /\ SnapshotTypes
  /\ RequestTypes
  /\ requests \in 0..MaxRequests

\* Every variable of the process keeps its type, and nothing is kept for a process that
\* is not there.
THEOREM ServerTypeCorrect == ServerSpec => []ServerTypeOK
<1>1. IInv /\ LifeInv /\ ManagerInv /\ CopyInv /\ ServerTypes => ServerTypeOK
  <2> SUFFICES ASSUME IInv, LifeInv, ManagerInv, CopyInv, ServerTypes PROVE ServerTypeOK
    OBVIOUS
  <2>1. Life!TypeOK
    <3>1. {Life!Order[i] : i \in DOMAIN Life!Order} = Early \cup Copied
      BY OrderOfSteps DEF Early, Copied, Served, Connected, Prepared, Running
    <3> QED
      BY <3>1 DEF Life!TypeOK, LifeInv, ServerTypes, LifeTypes
  <2>2. Snapshot!TypeOK
    BY DEF ServerTypes, SnapshotTypes, Downloading, ChunkSeq, Snapshot!TypeOK
  <2>3. /\ request.method \in {"none", "CreateProfile", "DeleteProfile", "AddConfiguration",
                               "RemoveConfiguration", "SetConfiguration"}
        /\ request.token \in ProfileTokens \cup {Nobody}
        /\ (request = NoRequest) = (pc = "idle")
        /\ touched \cup told \subseteq ProfileTokens \cup {Nobody}
    BY DEF ServerTypes, RequestTypes, Methods
  <2>4. request.login \in Logins \cup {""}
    BY Zenon DEF ServerTypes, RequestTypes, CallersAndNone
  <2>5. TypeOK /\ Search!TypeOK /\ startup \in Seq(Profile) /\ requests \in 0..MaxRequests
        /\ (running => main # "off")
    BY DEF IInv, ServerTypes, CopyInv, ManagerInv
  <2> QED
    BY <2>1, <2>2, <2>3, <2>4, <2>5, Zenon DEF ServerTypeOK
<1>2. ServerInit => LifeInv /\ ManagerInv /\ CopyInv /\ ServerTypes
  <2> SUFFICES ASSUME ServerInit PROVE CopyInv /\ ServerTypes
    BY InitLifeInv, InitManagerInv
  <2>1. CopyInv
    BY InitCopyInv
  <2>2. LifeTypes
    <3>1. Len(Life!Services) = 8
      BY DEF Life!Services
    <3>2. /\ registered = 0 /\ events = "nothing" /\ ioContext = FALSE
          /\ http = "none" /\ eventsHttp = "none"
      BY DEF ServerInit, Life!Init
    <3>3. registered \in 0..Len(Life!Services)
      BY <3>1, <3>2
    <3>4. ioContext \in BOOLEAN
      BY <3>2
    <3>5. {http, eventsHttp} \subseteq {"none", "starting", "listening", "failed"}
      BY <3>2
    <3> QED
      BY <3>2, <3>3, <3>4, <3>5, Zenon DEF LifeTypes
  <2>3. Search!TypeOK
    BY FS_EmptySet, FiniteIsFinite DEF ServerInit, Search!Init, Search!TypeOK
  <2>4. SnapshotTypes
    <3>1. Snapshot!Chunks \in Nat /\ <<>> \in ChunkSeq
      BY ChunksType, EmptySeq DEF ChunkSeq
    <3>2. Snapshot!NoDownload \in Downloading
      BY <3>1 DEF Downloading, Snapshot!NoDownload
    <3> QED
      BY <3>1, <3>2 DEF ServerInit, Snapshot!Init, SnapshotTypes
  <2>5. RequestTypes
    BY NoRequestTypes DEF ServerInit, Init, RequestTypes
  <2>6. requests \in 0..MaxRequests
    BY ServerAssumption DEF ServerInit
  <2> QED
    BY <2>1, <2>2, <2>3, <2>4, <2>5, <2>6 DEF ServerTypes
<1>3. IInv /\ LifeInv /\ ManagerInv /\ CopyInv /\ ServerTypes /\ [ServerNext]_serverVars
        => LifeInv' /\ ManagerInv' /\ CopyInv' /\ ServerTypes'
  <2> SUFFICES ASSUME IInv, LifeInv, ManagerInv, CopyInv, ServerTypes, [ServerNext]_serverVars
               PROVE  ServerTypes'
    BY LifeStep, ManagerStep, CopyStep
  <2>1. LifeTypes' /\ Search!TypeOK' /\ SnapshotTypes' /\ RequestTypes' /\ (requests \in 0..MaxRequests)'
    BY LifeTypesStep, SearchTypesStep, SnapshotTypesStep, RequestTypesStep, RequestsStep DEF ServerTypes
  <2> QED
    BY <2>1 DEF ServerTypes
<1> QED
  BY <1>1, <1>2, <1>3, SpecIInvHere, PTL DEF ServerSpec

================================================================================
