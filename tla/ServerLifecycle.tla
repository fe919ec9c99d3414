---------------------------- MODULE ServerLifecycle ----------------------------
(***************************************************************************)
(* The start of the program: main (main.cpp), the constructor of           *)
(* IOnvifServer (src/IOnvifServer.cpp), Server::init and Server::run       *)
(* (Server.cpp), event::init_service (onvif_services/event_service.cpp)    *)
(* and rtsp::Server::run, with the threads they start.                     *)
(*                                                                         *)
(* The main thread goes through `Order'.  Each step of init may throw:     *)
(* main then reports that the server is stopped and waits for a key.  The  *)
(* HTTP server runs on a thread of its own, started by run, which waits    *)
(* for its port and then for its end; the pull points may have a second    *)
(* HTTP server, whose thread init starts and nobody waits for.             *)
(*                                                                         *)
(* Nothing calls stop() of an HTTP server, so the program ends only when   *)
(* init throws or when it is killed.                                       *)
(***************************************************************************)
EXTENDS Integers, Sequences, SequencesExt

CONSTANT OwnPort   \* a Boolean: not "PullPoint.UseHttpServerPort" of event.config

VARIABLES
  main,         \* the next step of the main thread, "stopped", or "off": no process
  registered,   \* how many of Services have their path on the HTTP server
  events,       \* what the event service has: "nothing", "manager", "handlers"
  ioContext,    \* does the thread of the server's io_context_ run?
  http,         \* the HTTP server: "none", "starting", "listening", "failed"
  eventsHttp    \* the pull points' own one: the same

lifecycleVars == <<main, registered, events, ioContext, http, eventsHttp>>

Services == <<"Device", "DeviceIO", "Imaging", "Media", "Media2", "PTZ",
              "Recording Search", "Replay Control">>

InitSteps == <<"configs", "copy", "services", "notifications", "eventPaths", "discovery",
               "rtsp", "ioContext">>
RunSteps == <<"http", "runRtsp", "startDiscovery", "port", "join">>
\* Mutant: the HTTP server is started before the event service has its paths.
HttpEarly == <<"configs", "copy", "services", "notifications", "http", "eventPaths",
               "discovery", "rtsp", "ioContext", "runRtsp", "startDiscovery", "port", "join">>
Order == InitSteps \o RunSteps
After(step) == Order[SelectInSeq(Order, LAMBDA s : s = step) + 1]

\* Just after the constructor.
Init ==
  /\ main = Order[1]
  /\ registered = 0
  /\ events = "nothing"
  /\ ioContext = FALSE
  /\ http = "none"
  /\ eventsHttp = "none"

-----------------------------------------------------------------------------

\* A step of the main thread that changes nothing but where it is.
Passes(step) ==
  /\ main = step
  /\ main' = After(step)
  /\ UNCHANGED <<registered, events, ioContext, http, eventsHttp>>

ReadConfigs == Passes("configs")
CopyProfiles == Passes("copy")

\* The getter makes the service, whose Run registers its path.
RunService ==
  /\ main = "services"
  /\ registered' = registered + 1
  /\ main' = IF registered' = Len(Services) THEN After(main) ELSE main
  /\ UNCHANGED <<events, ioContext, http, eventsHttp>>

\* init_service makes the manager and runs its worker, then registers the paths; the
\* path of the pull points may be on the HTTP server of their own.
RunNotifications ==
  /\ main = "notifications"
  /\ events' = "manager"
  /\ main' = After(main)
  /\ UNCHANGED <<registered, ioContext, http, eventsHttp>>

RegisterEvents ==
  /\ main = "eventPaths"
  /\ events' = "handlers"
  /\ eventsHttp' = IF OwnPort THEN "starting" ELSE eventsHttp
  /\ main' = After(main)
  /\ UNCHANGED <<registered, ioContext, http>>

InitDiscovery == Passes("discovery")
CreateRtsp == Passes("rtsp")

StartIoContext ==
  /\ main = "ioContext"
  /\ ioContext' = TRUE
  /\ main' = After(main)
  /\ UNCHANGED <<registered, events, http, eventsHttp>>

\* A step of init throws, on a missing file or a missing member of one.
InitFails ==
  /\ main \in {InitSteps[i] : i \in DOMAIN InitSteps}
  /\ main' = "stopped"
  /\ UNCHANGED <<registered, events, ioContext, http, eventsHttp>>

StartHttp ==
  /\ main = "http"
  /\ http' = "starting"
  /\ main' = After(main)
  /\ UNCHANGED <<registered, events, ioContext, eventsHttp>>

RunRtsp == Passes("runRtsp")
\* What it throws is logged.
StartDiscovery == Passes("startDiscovery")

\* The future of the promise that the thread of the HTTP server sets.
\* Mutant: the other HTTP server sets it.
EventsPortIsKnown == eventsHttp = "listening"
PortIsKnown == http = "listening"
GetPort ==
  /\ PortIsKnown
  /\ Passes("port")

\* The two HTTP servers bind their ports, or fail to: that is logged.
Listen ==
  /\ http = "starting"
  /\ http' \in {"listening", "failed"}
  /\ UNCHANGED <<main, registered, events, ioContext, eventsHttp>>

ListenForEvents ==
  /\ eventsHttp = "starting"
  /\ eventsHttp' \in {"listening", "failed"}
  /\ UNCHANGED <<main, registered, events, ioContext, http>>

Exits ==
  /\ main' = "off"
  /\ registered' = 0
  /\ events' = "nothing"
  /\ ioContext' = FALSE
  /\ http' = "none"
  /\ eventsHttp' = "none"

\* A key after "Server is stopped", or the process is killed.
Exit == main = "stopped" /\ Exits
Kill == main \notin {"off", "stopped"} /\ Exits

Construct ==
  /\ main = "off"
  /\ main' = Order[1]
  /\ UNCHANGED <<registered, events, ioContext, http, eventsHttp>>

\* The constructor throws.
ConstructFails ==
  /\ main = "off"
  /\ main' = "stopped"
  /\ UNCHANGED <<registered, events, ioContext, http, eventsHttp>>

MainSteps ==
  ReadConfigs \/ CopyProfiles \/ RunService \/ RunNotifications \/ RegisterEvents
  \/ InitDiscovery \/ CreateRtsp \/ StartIoContext \/ StartHttp \/ RunRtsp
  \/ StartDiscovery \/ GetPort

Next == MainSteps \/ InitFails \/ Listen \/ ListenForEvents \/ Exit \/ Kill
        \/ Construct \/ ConstructFails

Spec == Init /\ [][Next]_lifecycleVars
        /\ WF_lifecycleVars(MainSteps) /\ WF_lifecycleVars(Listen)

-----------------------------------------------------------------------------
(* Properties.                                                             *)

TypeOK ==
  /\ main \in {Order[i] : i \in DOMAIN Order} \cup {"stopped", "off"}
  /\ registered \in 0..Len(Services)
  /\ events \in {"nothing", "manager", "handlers"}
  /\ ioContext \in BOOLEAN
  /\ {http, eventsHttp} \subseteq {"none", "starting", "listening", "failed"}

\* A request is served only when all it can use is there, on whichever thread it
\* comes: the paths of the services and the event service, the io_context_ its
\* delays wait on; and, on the pull points' own port, which is open while init goes
\* on, the manager and its worker.
ServesWhenReady ==
  /\ http = "listening" => registered = Len(Services) /\ events = "handlers" /\ ioContext
  /\ eventsHttp = "listening" => events # "nothing"

\* Every start comes to its end: the main thread waits for the HTTP server to end, or
\* reports that it is stopped, or is killed.  Only an HTTP server that cannot
\* start keeps it waiting, for a port that nobody tells.
EveryStartEnds ==
  main \notin {"off", "stopped"} ~> main \in {"join", "stopped", "off"} \/ http = "failed"

===============================================================================
