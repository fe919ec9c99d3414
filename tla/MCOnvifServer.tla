----------------------------- MODULE MCOnvifServer -----------------------------
(* An instance of OnvifServer for TLC: the file has a fixed profile and one *)
(* that may be deleted, and few requests come in the life of the file.      *)
EXTENDS OnvifServer, TLC

MCConfigTypes == {"VideoSource", "VideoEncoder", "AudioSource", "PTZ", "Metadata"}
MCConfigurations == "VideoSource" :> {"source0"} @@ "VideoEncoder" :> {"encoder0"}
                    @@ "AudioSource" :> {"audio0"} @@ "PTZ" :> {"ptz0"}

Source == [type |-> "VideoSource", token |-> "source0"]
Encoder == [type |-> "VideoEncoder", token |-> "encoder0"]
Audio == [type |-> "AudioSource", token |-> "audio0"]
Metadata == [type |-> "Metadata", token |-> ""]
NoList == [type |-> "Metadata", token |-> "audio0"]

MCShipped ==
  <<[token |-> <<"ProfileToken", 0>>, fixed |-> TRUE, configs |-> <<Source, Encoder, Audio, Metadata>>],
    [token |-> <<"ProfileToken", 1>>, fixed |-> FALSE, configs |-> <<Source>>]>>

\* A configuration, and one followed by one that is refused.
MCAddLists == {<<>>, <<Encoder>>, <<Audio, NoList>>}

MCCompatibleNodes == "source0" :> {"node0"}
MCNodeToken == "ptz0" :> "node0"

MCUsers == "operator" :> 2 @@ "user" :> 1

\* One that is recorded now, and one that ended.
MCRecordings == <<[token |-> "Recording_0", from |-> -1, until |-> -1],
                  [token |-> "Recording_1", from |-> 0, until |-> 1]>>

===============================================================================
