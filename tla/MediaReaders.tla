------------------------------ MODULE MediaReaders ------------------------------
(***************************************************************************)
(* The handlers of the Media, Media2 and PTZ services that only read, as   *)
(* operators: each one gives the answer to a request in the current state. *)
(*                                                                         *)
(* Media2's GetProfiles, both GetSnapshotUri and all of PTZ read the tree  *)
(* of MediaProfilesManager; the others read a copy of the same file that   *)
(* Server::init took.  An operator of a reader of the copy has the copy's  *)
(* profiles as its first parameter.  The lists of configurations never     *)
(* change, so the copy's lists are the constant Configurations.            *)
(*                                                                         *)
(* An answer is the set or the function of the tokens it shows, or the     *)
(* name of the exception the handler throws.  The other members of a       *)
(* configuration are left out.                                             *)
(***************************************************************************)
EXTENDS MediaProfiles, FiniteSets

CONSTANTS
  LastVideoSource,  \* the last configuration in the list "VideoSource"
  Media1Encoders,   \* tokens of the list "VideoEncoderConfigurations", Media's own
  Streams,          \* video encoders with an entry in "GetStreamUri" of Media2's file
  CompatibleNodes,  \* of a video source configuration: its "CompatiblePtzNodes"
  NodeToken,        \* of a PTZ configuration: its node
  Nodes,            \* "Nodes" of the PTZ service's file
  PtzOptions        \* PTZ configurations with an entry in "PTZConfigurationOptions"

ASSUME ReadersAssumption ==
  /\ {"VideoSource", "VideoEncoder", "PTZ"} \subseteq DOMAIN Configurations
  /\ LastVideoSource \in Configurations["VideoSource"]
  /\ DOMAIN CompatibleNodes = Configurations["VideoSource"]
  /\ DOMAIN NodeToken = Configurations["PTZ"]

\* The shipped files agree: each video encoder is in Media's list too and has a stream, no
\* encoder, stream or PTZ configuration has an empty token, and no profile's token looks
\* like one that Media shows for a channel.
ASSUME FilesAssumption ==
  /\ Configurations["VideoEncoder"] \subseteq Media1Encoders \cap Streams
  /\ "" \notin Media1Encoders \cup Streams \cup Configurations["PTZ"]
  /\ \A i \in DOMAIN Shipped : Shipped[i].token \in STRING \X Nat

Answers(tokens) == [throws |-> "", shows |-> tokens]
Throws(exception) == [throws |-> exception, shows |-> {}]
Answered(answer) == answer.throws = ""

\* The list of a type; get_child throws for a list the file does not have, so a
\* token that is looked up there is not found.
List(type) == IF type \in DOMAIN Configurations THEN Configurations[type] ELSE {}

-----------------------------------------------------------------------------
(* What a profile says of a type.                                          *)

IndexIn(tree, token) == SelectInSeq(tree, LAMBDA p : p.token = token)

\* A token as Media's GetProfiles shows it with several channels, "<channel>_<token>",
\* and the token without the channel.
ChannelToken(channel, token) == <<channel>> \o token
CleanedName(token) == IF Len(token) = 3 THEN Tail(token) ELSE token

\* get() finds the first child with the name, "" if there is none; put() writes them
\* all to one child, where the last one stays.
Has(profile, type) == \E i \in DOMAIN profile.configs : profile.configs[i].type = type
TokenAt(profile, i) == IF i = 0 THEN "" ELSE profile.configs[i].token
First(profile, type) ==
  TokenAt(profile, SelectInSeq(profile.configs, LAMBDA c : c.type = type))
Last_(profile, type) ==
  TokenAt(profile, SelectLastInSeq(profile.configs, LAMBDA c : c.type = type))

\* GetProfileByToken with a list of types: only what they name, each type once.
Filtered(profile, types) ==
  [t \in ConfigTypes |-> IF {t, "All"} \cap types # {} THEN Last_(profile, t) ELSE ""]
Unfiltered(profile) == [t \in ConfigTypes |-> First(profile, t)]

\* Mutant: the count of the last profile takes the place of the sum.
LastUse(token, type) ==
  IF profiles # <<>> /\ First(profiles[Len(profiles)], type) = token THEN 1 ELSE 0
GetUseCount(token, type) == Cardinality({i \in DOMAIN profiles : First(profiles[i], type) = token})

-----------------------------------------------------------------------------
(* Media2.                                                                 *)

LookedUp == ConfigTypes \cap {"VideoSource", "VideoEncoder", "AudioSource", "AudioEncoder"}
HardCoded == [Analytics |-> "analytics_token0", PTZ |-> "PtzConfigToken0"]

\* Each token is looked up in its list, and an unknown one throws; for Analytics and
\* PTZ a constant is shown whatever the token.
ProfileToSoap(tokenOf) ==
  LET shown == {t \in LookedUp \cup (ConfigTypes \cap DOMAIN HardCoded) : tokenOf[t] # ""} IN
  IF \E t \in shown \cap LookedUp : tokenOf[t] \notin List(t)
  THEN Throws("runtime_error")
  ELSE Answers([t \in shown |-> IF t \in LookedUp THEN tokenOf[t] ELSE HardCoded[t]])

\* All profiles, each one looked up by its token; one that throws, and no profile is
\* shown.  With channels the handler reads a child that no profile has.
GetProfiles2(types, channels) ==
  LET found(i) == profiles[FindProfile(profiles[i].token)]
      described == [i \in DOMAIN profiles |-> ProfileToSoap(Filtered(found(i), types))] IN
  IF channels > 0 \/ \E i \in DOMAIN described : ~Answered(described[i])
  THEN Throws("runtime_error")
  ELSE Answers([i \in DOMAIN profiles |->
                  [token |-> found(i).token, configs |-> described[i].shows]])

\* Mutant: the token is looked up with its channel.
GetProfile2WithChannel(token) ==
  LET i == FindProfile(token) IN
  IF i = 0 THEN Throws("no_such_profile") ELSE ProfileToSoap(Unfiltered(profiles[i]))
GetProfile2(token) ==
  LET i == FindProfile(CleanedName(token)) IN
  IF i = 0 THEN Throws("no_such_profile") ELSE ProfileToSoap(Unfiltered(profiles[i]))

\* Mutant: a source is enough.
SourceIsEnough(token) ==
  LET i == FindProfile(token) IN
  CASE i = 0 -> Throws("no_such_profile")
    [] i # 0 /\ First(profiles[i], "VideoSource") = "" -> Throws("incomplete_configuration")
    [] OTHER -> Answers({"snapshot"})
GetSnapshotUri(token) ==
  LET i == FindProfile(token) IN
  CASE i = 0 -> Throws("no_such_profile")
    [] i # 0 /\ "" \in {First(profiles[i], "VideoSource"), First(profiles[i], "VideoEncoder")} ->
         Throws("incomplete_configuration")
    [] OTHER -> Answers({"snapshot"})

\* The stream of the profile's encoder.
GetStreamUri(copy, token, channels) ==
  LET i == IndexIn(copy, IF channels > 0 THEN CleanedName(token) ELSE token) IN
  IF i = 0 \/ First(copy[i], "VideoEncoder") \notin Streams
  THEN Throws("runtime_error")
  ELSE Answers({First(copy[i], "VideoEncoder")})

\* "" stands for a token that the request leaves out.
GetVideoEncoderConfigurations(token) ==
  CASE token = "" -> Answers(List("VideoEncoder"))
    [] token \in List("VideoEncoder") -> Answers({token})
    [] OTHER -> Throws("invalid_token")

\* put_child overwrites: of several configurations the answer has the last.
GetVideoSourceConfigurations(token) ==
  CASE token = "" -> Answers({LastVideoSource})
    [] token \in List("VideoSource") -> Answers({token})
    [] OTHER -> Throws("invalid_token")
GetVideoSourceConfigurationOptions == Answers({LastVideoSource})

\* By token, else by profile, else all; for audio encoders and audio sources.
GetAudioConfigurations(copy, type, token, profile) ==
  LET i == IndexIn(copy, profile)
      named == IF token # "" THEN token ELSE IF i = 0 THEN "" ELSE First(copy[i], type) IN
  IF token = "" /\ profile = <<>> THEN Answers(List(type))
  ELSE IF named \in List(type) THEN Answers({named}) ELSE Throws("runtime_error")

\* The options of all encoders, for any profile that exists.
GetVideoEncoderConfigurationOptions(copy, profile) ==
  IF profile # <<>> /\ IndexIn(copy, profile) = 0 THEN Throws("runtime_error")
  ELSE Answers(List("VideoEncoder"))

-----------------------------------------------------------------------------
(* Media.                                                                  *)

\* A video configuration that is not found is left out, an audio one throws.  Its
\* video encoders are in a list of their own.
MediaProfile(profile) ==
  LET list(t) == IF t = "VideoEncoder" THEN Media1Encoders ELSE List(t)
      shown == {t \in LookedUp : First(profile, t) \in list(t)} IN
  IF \E t \in LookedUp \cap {"AudioSource", "AudioEncoder"} : First(profile, t) \notin list(t) \cup {""}
  THEN Throws("runtime_error")
  ELSE Answers([t \in shown |-> First(profile, t)])

GetProfile1(copy, token) ==
  LET i == IndexIn(copy, CleanedName(token)) IN
  IF i = 0 THEN Throws("runtime_error") ELSE MediaProfile(copy[i])

\* With channels: for each channel, the profiles up to the last one with the first
\* profile's video source.  The search for more reads all of them, and throws at one
\* that has no video source.
GetProfiles1(copy, channels) ==
  LET listed == IF channels = 0 THEN DOMAIN copy
                ELSE {i \in DOMAIN copy : \E j \in DOMAIN copy :
                        i <= j /\ First(copy[j], "VideoSource") = First(copy[1], "VideoSource")} IN
  IF \/ channels > 0 /\ \E i \in DOMAIN copy : ~Has(copy[i], "VideoSource")
     \/ \E i \in listed : ~Answered(MediaProfile(copy[i]))
  THEN Throws("runtime_error")
  ELSE Answers(IF channels = 0 THEN {copy[i].token : i \in listed}
               ELSE {ChannelToken(c, copy[i].token) : c \in 0..channels - 1, i \in listed})

\* It reads "VideoEncoderConfiguration", which no profile has: no stream is found,
\* whatever the profile.
GetStreamUri1(copy, token) == Throws("runtime_error")

\* It has the manager, as Media2's.
GetSnapshotUri1(token) == GetSnapshotUri(token)

\* The one and the list read "VideoSourceConfigurations", which the file does not have.
GetVideoSourceConfiguration1 == Throws("runtime_error")

-----------------------------------------------------------------------------
(* PTZ.                                                                    *)

Described(token) == [token |-> token, useCount |-> GetUseCount(token, "PTZ")]

GetCompatibleConfigurations(profile) ==
  LET i == FindProfile(profile)
      source == First(profiles[i], "VideoSource") IN
  CASE i = 0 -> Throws("no_such_profile")
    [] i # 0 /\ ~Has(profiles[i], "VideoSource") -> Throws("runtime_error")
    [] i # 0 /\ Has(profiles[i], "VideoSource") /\ source \notin List("VideoSource") ->
         Throws("no_config")
    [] OTHER -> Answers({Described(c) : c \in {d \in List("PTZ") :
                                                 NodeToken[d] \in CompatibleNodes[source]}})

GetConfiguration(token) ==
  IF token \in List("PTZ") THEN Answers({Described(token)}) ELSE Throws("no_config")

GetConfigurations == Answers({Described(c) : c \in List("PTZ")})

GetConfigurationOptions(token) ==
  CASE token \notin List("PTZ") -> Throws("no_config")
    [] token \in List("PTZ") /\ (NodeToken[token] \notin Nodes \/ token \notin PtzOptions) ->
         Throws("runtime_error")
    [] OTHER -> Answers({NodeToken[token]})

GetNode(token) == IF token \in Nodes THEN Answers({token}) ELSE Throws("no_entity")
GetNodes == Answers(Nodes)

-----------------------------------------------------------------------------
(* Properties of the answers between two requests that change something.   *)
(* What relates the readers of the copy to those of the manager is in      *)
(* OnvifServer, which has both trees.                                      *)

Unrepeated(p) ==
  \A i, j \in DOMAIN p.configs : p.configs[i].type = p.configs[j].type => i = j

\* No profile that requests can make keeps the others from being shown: GetProfiles of
\* Media2 answers now, and GetProfiles of Media, without channels, once a start has
\* copied the profiles as they are now.
ProfilesCanBeListed == Receives =>
  /\ \A types \in {{}, {"All"}, {"VideoEncoder"}} : Answered(GetProfiles2(types, 0))
  /\ Answered(GetProfiles1(profiles, 0))

\* The sum of the use counts: each configuration stands once for each of its uses.
TotalUses(described) == Cardinality(UNION {{c} \X (1..c.useCount) : c \in described})

\* As long as no profile repeats a type and none was deleted, the use counts of the
\* PTZ configurations add up to the profiles that Media2 shows with PTZ.
UseCountsAddUp ==
  Receives /\ ~deleted /\ (\A i \in DOMAIN profiles : Unrepeated(profiles[i])) =>
    LET listed == GetProfiles2({"All"}, 0).shows IN
    TotalUses(GetConfigurations.shows)
      = Cardinality({i \in DOMAIN listed : "PTZ" \in DOMAIN listed[i].configs})

=============================================================================
