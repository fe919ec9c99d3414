---------------------------- MODULE MCMediaProfiles ----------------------------
(* An instance of MediaReaders, and of MediaProfiles in it, for TLC: one    *)
(* fixed profile and three types of configurations.                         *)
EXTENDS MediaReaders, TLC

MCConfigTypes == {"VideoSource", "VideoEncoder", "PTZ"}
MCConfigurations == "VideoSource" :> {"source0"}
                    @@ "VideoEncoder" :> {"encoder0"} @@ "PTZ" :> {"ptz0"}

MCShipped ==
  <<[token |-> <<"ProfileToken", 0>>, fixed |-> TRUE,
     configs |-> <<[type |-> "VideoSource", token |-> "source0"]>>]>>

Source == [type |-> "VideoSource", token |-> "source0"]
Encoder == [type |-> "VideoEncoder", token |-> "encoder0"]
WrongType == [type |-> "VideoSource", token |-> "encoder0"]
Ptz == [type |-> "PTZ", token |-> "ptz0"]

\* Nothing, one configuration, two, and one followed by one that is refused.
MCAddLists == {<<>>, <<Source>>, <<Source, Encoder>>, <<Ptz, WrongType>>}

MCCompatibleNodes == "source0" :> {"node0"}
MCNodeToken == "ptz0" :> "node0"

===============================================================================
