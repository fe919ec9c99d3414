-------------------------- MODULE PullPointSubscriptions --------------------------
(***************************************************************************)
(* The notification core implements the logs of Subscriptions: the log of  *)
(* a pull point is what has been handed to its clients and, behind it,     *)
(* what is in its queue.                                                   *)
(***************************************************************************)
EXTENDS PullPointService

\* The log has no part in timers, completion handlers and generators.
Log == [p \in PullPoints |-> History(p)]
Position == [p \in PullPoints |-> Len(stream[p])]
Waiting == [p \in PullPoints |-> IF is_client_waiting[p] THEN response_writer[p] ELSE None]

Logs == INSTANCE Subscriptions WITH
  Bursts     <- Range(Signals),
  Reported   <- SyncSources,
  subscribed <- created,
  live       <- Live,
  log        <- Log,
  read       <- Position,
  waiting    <- Waiting,
  answer     <- reply,
  value      <- logical,
  count      <- changes

\* Whatever is interleaved, dangling timeouts too, each step of the core is one of
\* a set of logs with positions: what a pull is answered with is what its log has
\* next, all of it and nothing else; an alarm reaches every live log and answers
\* who waits; only a synchronization point or the end of the subscription discards
\* a message, and never one that was sent.
ImplementsSubscriptions == Logs!Spec

=============================================================================
