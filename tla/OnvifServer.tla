------------------------------ MODULE OnvifServer ------------------------------
(***************************************************************************)
(* The process: its start (ServerLifecycle), the access to its handlers    *)
(* (RequestDispatch), the profiles with the handlers that change and read  *)
(* them (MediaReaders), recording search (RecordingSearch) and the         *)
(* snapshot (SnapshotDownload).                                            *)
(*                                                                         *)
(* The constructor of IOnvifServer reads media_profiles.config for         *)
(* MediaProfilesManager, init reads it again for the handlers that have no *)
(* manager, and requests are served by the one thread of the HTTP server,  *)
(* one at a time.  A kill may fall between any two steps.                  *)
(***************************************************************************)
EXTENDS MediaReaders

CONSTANTS
  Digest, Users,                              \* RequestDispatch
  OwnPort,                                    \* ServerLifecycle
  Recordings, Day, MaxClock, MaxSearches,     \* RecordingSearch
  Downloads, Length,                          \* SnapshotDownload
  MaxRequests   \* bound: requests that change profiles or sessions, and snapshots

VARIABLES
  main, registered, events, ioContext, http, eventsHttp,         \* ServerLifecycle
  clock, searchSessions, searchToken, findToken, promised,       \* RecordingSearch
  buffer, download,                                              \* SnapshotDownload
  startup,   \* the copy of the profiles: profiles_config_
  request,   \* the request that changes profiles: method, token, login; or NoRequest
  touched,   \* history: tokens of profiles that requests named since the start
  told,      \* history: profiles whose creation was answered with success
  requests   \* how many requests there were

Life == INSTANCE ServerLifecycle
Access == INSTANCE RequestDispatch
Search == INSTANCE RecordingSearch
Snapshot == INSTANCE SnapshotDownload

ASSUME ServerAssumption ==
  /\ Access!UsersAssumption
  /\ OwnPort \in BOOLEAN
  /\ Search!RecordingsAssumption
  /\ Snapshot!DownloadsAssumption
  /\ MaxRequests \in Nat

lifeVars == <<main, registered, events, ioContext, http, eventsHttp>>
searchVars == <<clock, searchSessions, searchToken, findToken, promised>>
downloadVars == <<buffer, download>>
historyVars == <<touched, told, requests>>
serverVars == <<vars, lifeVars, searchVars, downloadVars, startup, request, historyVars>>

NoRequest == [method |-> "none", token |-> Nobody, login |-> ""]
NotRead == <<>>
Logins == DOMAIN Users \cup {Access!NoHeader}

\* Just after the first start's constructor.
ServerInit ==
  /\ Init
  /\ Life!Init
  /\ Search!Init
  /\ Snapshot!Init
  /\ startup = NotRead
  /\ request = NoRequest
  /\ touched = {}
  /\ told = {}
  /\ requests = 0

-----------------------------------------------------------------------------
(* The start and the end.                                                  *)

\* Mutant: the copy is made of the file that was shipped.
ShippedCopy == Shipped
CopyOfFile == file

LifeOnly ==
  UNCHANGED <<vars, searchVars, downloadVars, request, historyVars>>

\* The second reading of the file.
Copies ==
  /\ Life!CopyProfiles
  /\ startup' = CopyOfFile
  /\ LifeOnly

Starts ==
  /\ \/ Life!ReadConfigs \/ Life!RunService \/ Life!RunNotifications \/ Life!RegisterEvents
     \/ Life!InitDiscovery \/ Life!CreateRtsp \/ Life!StartIoContext \/ Life!StartHttp
     \/ Life!RunRtsp \/ Life!StartDiscovery \/ Life!GetPort
  /\ UNCHANGED startup
  /\ LifeOnly

StartFails == Life!InitFails /\ UNCHANGED startup /\ LifeOnly
Listens == (Life!Listen \/ Life!ListenForEvents) /\ UNCHANGED startup /\ LifeOnly

\* All that is in memory is lost, a request that runs with it.
ProcessEnds ==
  /\ Life!Exit \/ Life!Kill
  /\ IF running THEN Crash ELSE UNCHANGED vars
  /\ Search!Forget
  /\ Snapshot!Forget
  /\ startup' = NotRead
  /\ request' = NoRequest
  /\ UNCHANGED historyVars

\* The constructor reads the file, or cannot.
Constructs ==
  /\ Life!Construct
  /\ Restart
  /\ touched' = {}
  /\ UNCHANGED <<searchVars, downloadVars, startup, request, told, requests>>

ConstructFails ==
  /\ Life!ConstructFails
  /\ file = Torn
  /\ UNCHANGED startup
  /\ LifeOnly

-----------------------------------------------------------------------------
(* Requests that change profiles.                                          *)

\* The HTTP server's thread has a handler to call.
Serves == http = "listening" /\ pc = "idle" /\ requests < MaxRequests   \* bound

\* A caller without the right gets 401: a stutter.
Calls(method, token, login) ==
  /\ Serves
  /\ Access!Admitted(login, Access!SECURITY_LEVELS.ACTUATE)
  /\ request' = [method |-> method, token |-> token, login |-> login]
  /\ touched' = touched \cup {token}
  /\ told' = IF method = "DeleteProfile" THEN told \ {token} ELSE told
  /\ requests' = requests + 1
  /\ UNCHANGED <<lifeVars, searchVars, downloadVars, startup>>

CallsCreateProfile(login, list) ==
  /\ CreateProfile(list)
  /\ Calls("CreateProfile", NewProfileToken(Len(profiles)), login)
CallsDeleteProfile(login, token) ==
  /\ DeleteProfile(token)
  /\ Calls("DeleteProfile", token, login)
CallsAddConfiguration(login, token, list) ==
  /\ AddConfiguration(token, list)
  /\ Calls("AddConfiguration", token, login)
CallsRemoveConfiguration(login, token, type, config) ==
  /\ RemoveConfiguration(token, type, config)
  /\ Calls("RemoveConfiguration", token, login)
CallsSetConfiguration(login) ==
  /\ SetConfiguration
  /\ Calls("SetConfiguration", Nobody, login)

HandlerOnly ==
  UNCHANGED <<lifeVars, searchVars, downloadVars, startup, touched, requests>>

GoesOn == pc' # "idle" /\ UNCHANGED <<request, told>>

\* The request is answered, with success or by Answer of an exception.
EndsRequest(ok) ==
  /\ pc' = "idle"
  /\ request' = NoRequest
  /\ told' = IF ok /\ request.method = "CreateProfile" THEN told \cup {request.token} ELSE told

\* Mutant: save() keeps the exception to itself.
SaveNeverThrows == TRUE
SucceedsUnsaved == FALSE

Handles ==
  /\ \/ AddNext /\ GoesOn
     \/ OpenFile /\ GoesOn
     \/ WriteFile /\ (GoesOn \/ EndsRequest(TRUE))
     \/ AddEnds /\ EndsRequest(todo = <<>>)
     \/ WriteFails /\ EndsRequest(SucceedsUnsaved)
  /\ HandlerOnly

-----------------------------------------------------------------------------
(* The other requests.  Those that only read are the operators of           *)
(* MediaReaders and RecordingSearch.                                        *)

OtherOnly == UNCHANGED <<vars, lifeVars, startup, request, touched, told>>

Searches(login) ==
  /\ Serves
  /\ Access!Admitted(login, Access!SECURITY_LEVELS.READ_MEDIA)
  /\ Search!FindEvents \/ Search!FindRecordings
  /\ requests' = requests + 1
  /\ UNCHANGED downloadVars
  /\ OtherOnly

Ticks == Search!Tick /\ UNCHANGED <<downloadVars, requests>> /\ OtherOnly

\* The snapshot's handler asks nobody who he is.
AsksForSnapshot(d) ==
  /\ Serves
  /\ Snapshot!GetSnapshot(d)
  /\ requests' = requests + 1
  /\ UNCHANGED searchVars
  /\ OtherOnly

\* Between two handlers the thread runs the callbacks of send.
Sends(d) ==
  /\ http = "listening" /\ pc = "idle"
  /\ Snapshot!Sent(d) \/ Snapshot!Ends(d) \/ Snapshot!Breaks(d) \/ Snapshot!Leaves(d)
  /\ UNCHANGED <<searchVars, requests>>
  /\ OtherOnly

-----------------------------------------------------------------------------

ServerNext ==
  \/ Copies \/ Starts \/ StartFails \/ Listens
  \/ ProcessEnds \/ Constructs \/ ConstructFails
  \/ Serves /\ \E login \in Logins :
       \/ \E list \in {l \in AddLists : Len(l) <= 1} : CallsCreateProfile(login, list)
       \/ \E token \in ProfileTokens :
            \/ CallsDeleteProfile(login, token)
            \/ \E list \in AddLists : CallsAddConfiguration(login, token, list)
            \/ \E type \in RequestedTypes, config \in RequestedTokens \cup {""} :
                 CallsRemoveConfiguration(login, token, type, config)
       \/ CallsSetConfiguration(login)
       \/ Searches(login)
  \/ Handles
  \/ Ticks
  \/ \E d \in Downloads : AsksForSnapshot(d) \/ Sends(d)

\* The threads that exist get to run: main, the HTTP server's, which binds its port
\* and completes the handler it is in.
ServerSpec ==
  /\ ServerInit
  /\ [][ServerNext]_serverVars
  /\ WF_lifeVars(Copies \/ Starts)
  /\ WF_lifeVars(Listens)
  /\ WF_vars(Handles)

-----------------------------------------------------------------------------
(* Properties.                                                             *)

\* Every variable keeps its type; nothing is kept for a process that is not there.
ServerTypeOK ==
  /\ TypeOK
  /\ Life!TypeOK
  /\ Search!TypeOK
  /\ Snapshot!TypeOK
  /\ startup \in Seq(Profile)
  /\ request.method \in {"none", "CreateProfile", "DeleteProfile", "AddConfiguration",
                         "RemoveConfiguration", "SetConfiguration"}
  /\ request.token \in ProfileTokens \cup {Nobody}
  /\ request.login \in Logins \cup {""}
  /\ (request = NoRequest) = (pc = "idle")
  /\ touched \cup told \subseteq ProfileTokens \cup {Nobody}
  /\ requests \in 0..MaxRequests
  /\ running => main # "off"

\* No request is served before what it uses is there: ServerLifecycle's own, and the
\* copy of the profiles.
ServesWhenReady == Life!ServesWhenReady /\ (http = "listening" => startup # NotRead)

\* Server.cpp:94: the handlers with a copy and those with the manager answer alike about
\* each profile that no request named since the start, whatever was done to the others
\* and whatever crashes and failed writes came before.
UnchangedProfilesAgree == http = "listening" /\ pc = "idle" =>
  \A token \in ProfileTokens \ touched :
    /\ IndexIn(startup, token) # 0 <=> FindProfile(token) # 0
    /\ GetProfile1(startup, token) = GetProfile1(profiles, token)
    /\ GetStreamUri(startup, token, 0) = GetStreamUri(profiles, token, 0)
    /\ \A type \in ConfigTypes \cap {"AudioSource", "AudioEncoder"} :
         GetAudioConfigurations(startup, type, "", token)
           = GetAudioConfigurations(profiles, type, "", token)

\* A profile whose creation was answered with success is not lost until its deletion is
\* asked for: an intact file has it, and so has the server, after any kill and restart.
AcknowledgedProfilesStay ==
  \A tree \in {profiles, file} : tree # <<>> =>
    told \subseteq {tree[i].token : i \in DOMAIN tree}

\* With digest authentication the profiles change only in a request of a caller with
\* the right to, in each of the steps of the request.
ChangesAreAdmitted ==
  [][running /\ running' /\ profiles' # profiles /\ Digest =>
       Access!CurrentUser(request'.login) >= Access!SECURITY_LEVELS.ACTUATE]_serverVars

\* A token of a profile that one request shows may be sent with the next.  What Media2
\* lists is accepted by all that have the manager and, if no request named the profile
\* since the start, by those with the copy: of a profile created since, they know nothing.
\* What Media lists, with a channel or without, is accepted by Media, and by Media2 if no
\* request named it since the start.
ListedIsAccepted == http = "listening" /\ pc = "idle" =>
  LET list == GetProfiles2({}, 0).shows IN
  /\ \A i \in DOMAIN list : LET token == list[i].token IN
       /\ Answered(GetProfile2(token))
       /\ GetSnapshotUri(token).throws # "no_such_profile"
       /\ GetCompatibleConfigurations(token).throws \notin {"no_such_profile", "no_config"}
       /\ token \notin touched => /\ Answered(GetProfile1(startup, token))
                                  /\ Answered(GetVideoEncoderConfigurationOptions(startup, token))
  /\ \A token \in GetProfiles1(startup, 0).shows \cup GetProfiles1(startup, 2).shows :
       /\ Answered(GetProfile1(startup, token))
       /\ CleanedName(token) \notin touched => Answered(GetProfile2(token))

Video == {"VideoSource", "VideoEncoder"}

\* One answer does not contradict another.  The readers of the manager: a profile without
\* a repeated type shows the same alone and in the list of Media2, and has a snapshot just
\* when it shows a source and an encoder.  The readers of the copy: a stream is the
\* encoder that Media shows, of changed profiles too.  And one and the other: Media shows
\* the video of Media2 of a profile that no request named since the start.
ReadersAgree == http = "listening" /\ pc = "idle" =>
  LET list == GetProfiles2({"All"}, 0).shows IN
  /\ \A i \in DOMAIN profiles :
       LET token == profiles[i].token
           listed == list[i].configs IN
       Unrepeated(profiles[FindProfile(token)]) =>
         /\ GetProfile2(token) = Answers(listed)
         /\ Answered(GetSnapshotUri(token)) <=> Video \subseteq DOMAIN listed
         /\ token \notin touched =>
              \A t \in Video \cap DOMAIN listed :
                /\ t \in DOMAIN GetProfile1(startup, token).shows
                /\ GetProfile1(startup, token).shows[t] = listed[t]
  /\ \A token \in GetProfiles1(startup, 0).shows :
       LET shown == GetProfile1(startup, token).shows IN
       GetStreamUri(startup, token, 0) = IF "VideoEncoder" \in DOMAIN shown
                                         THEN Answers({shown["VideoEncoder"]})
                                         ELSE Throws("runtime_error")

\* The last subcode of a fault, and the status that every other std::exception becomes.
Fault(answer) == Access!Answer(answer.throws).fault
ServerError(answer) == Access!Answer(answer.throws).status = 500

\* A fault that names a profile is true.  The handlers that have the manager answer
\* NoProfile just of a profile that is not in the list that Media2 shows, and
\* IncompleteConfiguration only of one that is; of them only GetCompatibleConfigurations
\* has a server error, and only for a profile without a source.  The handlers with the
\* copy do not have NoProfile: a profile they do not know, also one created since the
\* start, is a server error.  Of the profiles that no request named since the start, they
\* know just those in the list, and GetStreamUri those with an encoder.
FaultsAreTrue == http = "listening" /\ pc = "idle" =>
  LET list == GetProfiles2({"All"}, 0).shows
      shown == {list[i].token : i \in DOMAIN list}
      with(type) == {list[i].token : i \in {j \in DOMAIN list : type \in DOMAIN list[j].configs}} IN
  \A token \in ProfileTokens :
    /\ \A fault \in {Fault(GetProfile2(token)), Fault(GetSnapshotUri(token)),
                     Fault(GetCompatibleConfigurations(token))} :
         /\ fault = "NoProfile" <=> token \notin shown
         /\ fault = "IncompleteConfiguration" => token \in shown
    /\ ~ServerError(GetProfile2(token)) /\ ~ServerError(GetSnapshotUri(token))
    /\ ServerError(GetCompatibleConfigurations(token)) => token \notin with("VideoSource")
    /\ token \notin touched =>
         /\ ServerError(GetProfile1(startup, token)) <=> token \notin shown
         /\ ServerError(GetVideoEncoderConfigurationOptions(startup, token)) <=> token \notin shown
         /\ ServerError(GetStreamUri(startup, token, 0)) <=> token \notin with("VideoEncoder")

\* As in the modules of the components.
ResultsAreStable == Search!ResultsAreStable
RangesAreSound == Search!RangesAreSound
DownloadsAreWhole == Snapshot!DownloadsAreWhole
EveryStartEnds == Life!EveryStartEnds

\* A request that changes profiles is answered, however many changes and saves it
\* makes and whatever fails, unless the process ends.
EveryRequestEnds == pc # "idle" ~> pc = "idle"

===============================================================================
