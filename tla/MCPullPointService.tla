-------------------------- MODULE MCPullPointService --------------------------
(* Instances of PullPointService for TLC.                                  *)
EXTENDS PullPointSubscriptions, TLC

CONSTANTS p1, p2, r1, r2, r3, r4, cell, audio, inputs, cellMotion, sound, door, gate

-----------------------------------------------------------------------------
(* The generators of the shipped event.config, the motion alarm being off.  *)
(* The list of digital inputs is empty in the running server: nothing calls *)
(* Server::read_digital_inputs.                                             *)

MCGenerators == {cell, audio}
MCSources == {cellMotion, sound}
MCSignals == cell :> <<cellMotion>> @@ audio :> <<sound>>
MCSyncSources == <<cellMotion, sound>>
MCMaxChanges == cellMotion :> 2 @@ sound :> 1

Symmetry == Permutations(Requests) \cup Permutations(PullPoints)

-----------------------------------------------------------------------------
(* Two enabled digital inputs, as the unit tests fill the list: one alarm    *)
(* signals a burst of two messages.                                         *)

InputSources == {door, gate}
InputSignals == inputs :> <<door, gate>>
InputSync == <<door, gate>>
InputMaxChanges == door :> 2 @@ gate :> 2

-----------------------------------------------------------------------------
(* One generator.                                                          *)

OneSource == {cellMotion}
OneSignals == cell :> <<cellMotion>>
OneSync == <<cellMotion>>
OneMaxChanges == cellMotion :> 2

===============================================================================
