-------------------------- MODULE MCPullPointThreads --------------------------
(* Instances of PullPointThreads for TLC.                                  *)
EXTENDS PullPointThreads, TLC

CONSTANTS r1, r2, r3, r4, cell, inputs, cellMotion, door, gate, alice, bob

\* The cell motion generator: one source, one message per alarm.
OneSource == {cellMotion}
OneSignals == cell :> <<cellMotion>>
OneSync == <<cellMotion>>
OneMaxChanges == cellMotion :> 2

\* Two digital inputs: a burst of two messages per alarm.
InputSources == {door, gate}
InputSignals == inputs :> <<door, gate>>
InputSync == <<door, gate>>
InputMaxChanges == [s \in InputSources |-> 1]

Symmetry == Permutations(Requests)

\* One client that sends all requests in turn, or two.
OneClient == [r \in Requests |-> alice]
TwoClients == [r \in Requests |-> IF r \in {r1, r2} THEN alice ELSE bob]

===============================================================================
