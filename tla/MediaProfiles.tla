------------------------------ MODULE MediaProfiles ------------------------------
(***************************************************************************)
(* The media profiles: MediaProfilesManager and ConfigsReaderWriter        *)
(* (utility/MediaProfilesManager.{h,cpp}) under the handlers that change   *)
(* them, four of Media2Service and SetConfiguration of PTZService.         *)
(*                                                                         *)
(* The manager keeps media_profiles.config in memory and writes the whole  *)
(* of it after each change.  The write truncates the file first, a request *)
(* may make several changes, each with a write of its own, and any of them *)
(* may fail: the request then ends with a fault and what it did so far     *)
(* stays.  A crash may fall between any two steps.  One request runs at a  *)
(* time, on the one thread of the HTTP server.                             *)
(*                                                                         *)
(* Left out: profile names, the members of a configuration other than its  *)
(* token, and the handlers that only read.                                 *)
(***************************************************************************)
EXTENDS Integers, Sequences, SequencesExt

CONSTANTS
  ConfigTypes,    \* CONFIGURATION_ENUMERATION less "All"
  Configurations, \* Configurations[t]: tokens in the file's list of type t, for
                  \* each type that has a list
  Shipped,        \* the profiles of the shipped file
  AddLists,       \* the lists of configurations in an AddConfiguration request; those
                  \* with one at most also in CreateProfile
  MaxProfiles, MaxConfigs   \* bounds: profiles, and configurations in one profile

ConfigTokens == UNION {Configurations[t] : t \in DOMAIN Configurations}

\* A request may name a type or a token that does not exist.
RequestedTypes == ConfigTypes \cup {"All", "unknown"}
RequestedTokens == ConfigTokens \cup {"unknown"}
Config(types, tokens) == [type : types, token : tokens]

ProfileTokens == {Shipped[i].token : i \in DOMAIN Shipped}
                 \cup ({"UserProfileToken"} \X (0..MaxProfiles))
Profile == [token : ProfileTokens, fixed : BOOLEAN,
            configs : Seq(Config(ConfigTypes, ConfigTokens \cup {""}))]

ASSUME ProfilesAssumption ==
  /\ DOMAIN Configurations \subseteq ConfigTypes
  /\ MaxProfiles \in Nat
  /\ AddLists \subseteq Seq(Config(RequestedTypes, RequestedTokens))

\* A configuration of a profile refers to one in the list of its type, or to none if
\* there is no such list.
Refers(c) == IF c.type \in DOMAIN Configurations THEN c.token \in Configurations[c.type]
                                                 ELSE c.token = ""

\* The shipped file is a sound one, with its fixed profiles first.
ASSUME ShippedAssumption ==
  /\ Shipped \in Seq(Profile)
  /\ \E i \in DOMAIN Shipped : Shipped[i].fixed
  /\ \A i, j \in DOMAIN Shipped :
       /\ Shipped[i].token = Shipped[j].token => i = j
       /\ i < j /\ Shipped[j].fixed => Shipped[i].fixed
  /\ \A i \in DOMAIN Shipped :
       /\ Shipped[i].token \notin {"UserProfileToken"} \X (0..MaxProfiles)
       /\ \A j \in DOMAIN Shipped[i].configs : Refers(Shipped[i].configs[j])

VARIABLES
  profiles,   \* "MediaProfiles" of configsTree_, <<>> when the server is down
  file,       \* the same in the file, or Torn
  running,    \* does the server run?
  pc,         \* "idle", or the next step of the request: "add", "open", "write"
  target,     \* the profile the request adds configurations to
  todo,       \* the configurations it has still to add
  unsaved,    \* history: the last write of the file failed
  deleted     \* history: has a profile been deleted?

requestVars == <<pc, target, todo>>
vars == <<profiles, file, running, requestVars, unsaved, deleted>>

\* The file has been truncated and not been written: it cannot be parsed.  (A file
\* that can be has the fixed profiles, so it is never <<>>.)
Torn == <<>>
Nobody == <<>>

Init ==
  /\ profiles = Shipped
  /\ file = Shipped
  /\ running = TRUE
  /\ pc = "idle"
  /\ target = Nobody
  /\ todo = <<>>
  /\ unsaved = FALSE
  /\ deleted = FALSE

-----------------------------------------------------------------------------
(* MediaProfilesManager.                                                   *)

\* Mutant: the profiles of the copy taken at the start are counted, not the list's.
StartupCountToken(n) == <<"UserProfileToken", Len(Shipped)>>
NewProfileToken(n) == <<"UserProfileToken", n>>

\* The first profile with the token, 0 if there is none.
FindProfile(token) == SelectInSeq(profiles, LAMBDA p : p.token = token)

\* Mutant: a token of any list is taken.
KnownToken(c) == c.type \in DOMAIN Configurations /\ c.token \in ConfigTokens
\* "All" passes the test of the type, but the file has no list of that name.
MayAdd(c) ==
  /\ c.type \in ConfigTypes \cup {"All"}
  /\ c.type \in DOMAIN Configurations
  /\ c.token \in Configurations[c.type]

\* Mutant: fixed profiles are deleted like others.
AnyProfile(i) == i # 0
MayDelete(i) == i # 0 /\ ~profiles[i].fixed

\* What RemoveConfiguration leaves: without the first configuration with the token
\* it is given, whatever its type, or else without all of the type.
\* Mutant: the entry is emptied, not erased.
Emptied(configs, type, token) ==
  [i \in DOMAIN configs |-> IF configs[i].token = token THEN [type |-> "", token |-> ""]
                                                       ELSE configs[i]]
\* The k-th that stays is the one where k of those that stay have been counted.
WithoutType(configs, type) ==
  LET staying(i) == {j \in 1..i : configs[j].type # type} IN
  [k \in 1..Cardinality(staying(Len(configs))) |->
     configs[Min({i \in DOMAIN configs : Cardinality(staying(i)) >= k})]]
Remaining(configs, type, token) ==
  LET i == SelectInSeq(configs, LAMBDA c : c.token = token) IN
  IF token # "" /\ i # 0 THEN RemoveAt(configs, i)
  ELSE IF type = "All" THEN <<>>
  ELSE WithoutType(configs, type)

MayRemove(configs, type, token) ==
  (token # "" /\ \E i \in DOMAIN configs : configs[i].token = token)
  \/ type \in ConfigTypes \cup {"All"}

-----------------------------------------------------------------------------
(* Requests.  A request that throws before it changed anything is a stutter *)
(* here: its guard is false.                                                *)

Receives == running /\ pc = "idle"

\* The changed tree is to be saved; then `rest' is to be added to `token'.
ThenSave(token, rest) ==
  /\ pc' = "open"
  /\ target' = token
  /\ todo' = rest

\* CreateProfile, with a configuration or none: it is added to the profile found
\* by the token that Back() of the list has.
CreateProfile(rest) ==
  LET token == NewProfileToken(Len(profiles)) IN
  /\ Receives
  /\ Len(profiles) < MaxProfiles   \* bound
  /\ profiles' = Append(profiles, [token |-> token, fixed |-> FALSE, configs |-> <<>>])
  /\ ThenSave(token, rest)
  /\ UNCHANGED <<file, running, unsaved, deleted>>

DeleteProfile(token) ==
  LET i == FindProfile(token) IN
  /\ Receives
  /\ MayDelete(i)
  /\ profiles' = RemoveAt(profiles, i)
  /\ deleted' = TRUE
  /\ ThenSave(Nobody, <<>>)
  /\ UNCHANGED <<file, running, unsaved>>

\* The configurations of the request are looked at one by one.
AddConfiguration(token, list) ==
  /\ Receives
  /\ FindProfile(token) # 0
  /\ pc' = "add"
  /\ target' = token
  /\ todo' = list
  /\ UNCHANGED <<profiles, file, running, unsaved, deleted>>

RemoveConfiguration(profile, type, token) ==
  LET i == FindProfile(profile) IN
  /\ Receives
  /\ i # 0
  /\ MayRemove(profiles[i].configs, type, token)
  /\ profiles' = [profiles EXCEPT ![i].configs = Remaining(@, type, token)]
  /\ ThenSave(Nobody, <<>>)
  /\ UNCHANGED <<file, running, unsaved, deleted>>

\* SetConfiguration of the PTZ service: a timeout in the PTZ list is changed, and
\* everything is saved.
SetConfiguration ==
  /\ Receives
  /\ ThenSave(Nobody, <<>>)
  /\ UNCHANGED <<profiles, file, running, unsaved, deleted>>

Ends == pc' = "idle" /\ target' = Nobody /\ todo' = <<>>

\* The next configuration; one that may not be added ends the request.  A profile
\* may get a second configuration of a type it has.
\* Mutant: the change is not saved.
Unsaved == pc' = IF Len(todo) = 1 THEN "idle" ELSE "add"
Saved == pc' = "open"
AddNext ==
  /\ running
  /\ pc = "add"
  /\ todo # <<>>
  /\ MayAdd(Head(todo))
  /\ Len(profiles[FindProfile(target)].configs) < MaxConfigs   \* bound
  /\ profiles' = [profiles EXCEPT ![FindProfile(target)].configs = Append(@, Head(todo))]
  /\ todo' = Tail(todo)
  /\ Saved
  /\ UNCHANGED <<file, running, target, unsaved, deleted>>

\* Mutant: a configuration that is refused is tried again.
AllAdded == todo = <<>>
AddsNoMore == todo # <<>> => ~MayAdd(Head(todo))
AddEnds ==
  /\ running
  /\ pc = "add"
  /\ AddsNoMore
  /\ Ends
  /\ UNCHANGED <<profiles, file, running, unsaved, deleted>>

-----------------------------------------------------------------------------
(* ConfigsReaderWriter, crashes and restarts.                              *)

\* The file is opened for writing, which truncates it.
OpenFile ==
  /\ running
  /\ pc = "open"
  /\ file' = Torn
  /\ pc' = "write"
  /\ UNCHANGED <<profiles, running, target, todo, unsaved, deleted>>

WriteFile ==
  /\ running
  /\ pc = "write"
  /\ file' = profiles
  /\ unsaved' = FALSE
  /\ IF todo = <<>> THEN Ends
     ELSE pc' = "add" /\ UNCHANGED <<target, todo>>
  /\ UNCHANGED <<profiles, running, deleted>>

\* The file cannot be opened or not be written: write_json throws, and the tree in
\* memory keeps what the file has not got.
WriteFails ==
  /\ running
  /\ pc \in {"open", "write"}
  /\ ~unsaved   \* bound: one failed write in a row
  /\ unsaved' = TRUE
  /\ Ends
  /\ UNCHANGED <<profiles, file, running, deleted>>

Crash ==
  /\ running
  /\ running' = FALSE
  /\ profiles' = <<>>
  /\ unsaved' = FALSE
  /\ Ends
  /\ UNCHANGED <<file, deleted>>

\* The constructors read the file; one that does not parse ends the start.
Restart ==
  /\ ~running
  /\ file # Torn
  /\ running' = TRUE
  /\ profiles' = file
  /\ UNCHANGED <<file, requestVars, unsaved, deleted>>

-----------------------------------------------------------------------------

Next ==
  \/ \E list \in {l \in AddLists : Len(l) <= 1} : CreateProfile(list)
  \/ \E token \in ProfileTokens :
       \/ DeleteProfile(token)
       \/ \E list \in AddLists : AddConfiguration(token, list)
       \/ \E type \in RequestedTypes, config \in RequestedTokens \cup {""} :
            RemoveConfiguration(token, type, config)
  \/ SetConfiguration
  \/ AddNext
  \/ AddEnds
  \/ OpenFile
  \/ WriteFile
  \/ WriteFails
  \/ Crash
  \/ Restart

Spec == Init /\ [][Next]_vars

-----------------------------------------------------------------------------
(* Properties.                                                             *)

\* Every variable keeps its type: the tree and an intact file hold whole profiles.
TypeOK ==
  /\ profiles \in Seq(Profile)
  /\ file \in Seq(Profile)
  /\ {running, unsaved, deleted} \subseteq BOOLEAN
  /\ pc \in {"idle", "add", "open", "write"}
  /\ target \in ProfileTokens \cup {Nobody}
  /\ todo \in Seq(Config(RequestedTypes, RequestedTokens))

\* Each configuration a profile names exists in the list of its type: GetProfiles,
\* which describes all profiles in one answer, throws at the first that does not.
ReferencesExist ==
  \A i \in DOMAIN profiles : \A j \in DOMAIN profiles[i].configs :
    Refers(profiles[i].configs[j])

\* No sequence of requests, failed writes, crashes and restarts takes a fixed
\* profile away: each one stays, at its place, in memory and in an intact file.
FixedProfilesStay ==
  \A i \in DOMAIN Shipped : Shipped[i].fixed =>
    \A tree \in {profiles, file} : tree # Torn =>
      i \in DOMAIN tree /\ tree[i].fixed /\ tree[i].token = Shipped[i].token

\* Between requests the file holds what the clients were shown, after a request that
\* failed half-way too, unless the last write failed: a restart changes nothing.
FileFollowsMemory ==
  running /\ pc = "idle" /\ ~unsaved => file = profiles

\* A token names one profile, over failed writes and restarts too, until the first
\* deletion.  (newProfileToken counts the profiles: see BackIsFoundByItsToken.)
TokensDistinctUntilDelete ==
  ~deleted => \A i, j \in DOMAIN profiles : profiles[i].token = profiles[j].token => i = j

\* unit_tests/mediaprofiles_manager_tests.cpp:300-309 adds a configuration to the
\* token of Back() and expects the last profile to have it; CreateProfile relies on
\* the same: the token of the last profile must lead to the last profile.
BackIsFoundByItsToken ==
  running => FindProfile(profiles[Len(profiles)].token) = Len(profiles)

=============================================================================
