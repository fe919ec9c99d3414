--------------------------- MODULE SnapshotDownload ---------------------------
(***************************************************************************)
(* GET of /snapshot.jpeg (the constructor of Media2Service): the file is   *)
(* sent chunk by chunk, each next one read when the one before is sent.    *)
(* Every download uses the one static buffer, and the HTTP server's thread *)
(* goes to and fro between the downloads.                                  *)
(***************************************************************************)
EXTENDS Integers, Sequences

CONSTANTS
  Downloads,   \* downloads at a time
  Length       \* of the file, in half chunks of 128 KB

\* Assumed by OnvifServer and by the theorems.
DownloadsAssumption == Length \in Nat

VARIABLES
  buffer,    \* the static buffer: the number of the chunk in it
  download   \* of each: its state, how many chunks it has read, what its Response
             \* holds and what the client has got

downloadVars == <<buffer, download>>

Chunks == (Length + 1) \div 2
Whole == [i \in 1..Chunks |-> i]
NoDownload == [state |-> "none", read |-> 0, response |-> <<>>, got |-> <<>>]

Init == buffer = 0 /\ download = [d \in Downloads |-> NoDownload]

-----------------------------------------------------------------------------

IsFull(chunk) == 2 * chunk <= Length

\* What the client gets of a Response: what was copied to it when the chunk was read.
\* Mutant: it refers to the buffer, and is read when it is sent.
Buffered(response) == [i \in DOMAIN response |-> buffer]
Copied(response) == response

\* read_and_send: after a full chunk send and come back, else, at the end of the
\* file too, the Response is sent and ends.
ReadAndSend(d, got) ==
  LET chunk == download[d].read + 1 IN
  IF chunk > Chunks
  THEN /\ download' = [download EXCEPT ![d] =
                         [state |-> "done", read |-> @.read, response |-> <<>>, got |-> got]]
       /\ UNCHANGED buffer
  ELSE /\ buffer' = chunk
       /\ download' = [download EXCEPT ![d] =
                         [state |-> IF IsFull(chunk) THEN "sending" ELSE "ending",
                          read |-> chunk, response |-> <<chunk>>, got |-> got]]

\* A file that cannot be opened is an error and no download.
GetSnapshot(d) ==
  /\ download[d].state = "none"
  /\ ReadAndSend(d, <<>>)

\* The callback of send.
Sent(d) ==
  /\ download[d].state = "sending"
  /\ ReadAndSend(d, download[d].got \o Copied(download[d].response))

\* The last Response is sent when it is released.
Ends(d) ==
  /\ download[d].state = "ending"
  /\ download' = [download EXCEPT ![d] =
                    [state |-> "done", read |-> @.read, response |-> <<>>,
                     got |-> @.got \o Copied(@.response)]]
  /\ UNCHANGED buffer

\* The connection breaks: the callback gets an error and reads no more.
Breaks(d) ==
  /\ download[d].state \in {"sending", "ending"}
  /\ download' = [download EXCEPT ![d] = NoDownload]
  /\ UNCHANGED buffer

\* The client has what it asked for, and may ask again.
Leaves(d) ==
  /\ download[d].state = "done"
  /\ download' = [download EXCEPT ![d] = NoDownload]
  /\ UNCHANGED buffer

Forget == buffer' = 0 /\ download' = [d \in Downloads |-> NoDownload]

Next ==
  \/ \E d \in Downloads : GetSnapshot(d) \/ Sent(d) \/ Ends(d) \/ Breaks(d) \/ Leaves(d)
  \/ Forget

Spec == Init /\ [][Next]_downloadVars

-----------------------------------------------------------------------------
(* Properties.                                                             *)

TypeOK ==
  /\ buffer \in 0..Chunks
  /\ download \in [Downloads -> [state : {"none", "sending", "ending", "done"},
                                 read : 0..Chunks, response : Seq(1..Chunks),
                                 got : Seq(1..Chunks)]]

\* The downloads do not mix, though they share the buffer: each client gets the chunks
\* of the file in their order from the first, and all of them at the end.
DownloadsAreWhole ==
  \A d \in Downloads :
    /\ download[d].got = SubSeq(Whole, 1, Len(download[d].got))
    /\ download[d].state = "done" => download[d].got = Whole

===============================================================================
