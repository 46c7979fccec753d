------------------------- MODULE ChannelSubscriptions --------------------------
(***************************************************************************)
(* The realtime contract (packages/realtime, types.ts): one vendor         *)
(* subscription per channel and any number of consumers on it.  Its stream *)
(* position is fixed while anyone listens, it survives a consumer that     *)
(* leaves, and it ends only when nobody listens or the client disconnects. *)
(* No entry, handle, microtask or callback appears here; Fanout implements *)
(* it.                                                                     *)
(***************************************************************************)
EXTENDS Naturals

CONSTANTS
  Channels,
  Consumers,   \* the subscribe calls
  Positions,   \* stream positions to resume from
  Live,        \* subscribes to the live stream, wherever it is
  Closed       \* no subscription

VARIABLES
  opened,      \* per channel, its subscription: who opened it, from where
  attached     \* per channel, the consumers on it

vars == <<opened, attached>>

Init ==
  /\ opened = [c \in Channels |-> Closed]
  /\ attached = [c \in Channels |-> {}]

(* The first consumer, or one that wants a draining channel from elsewhere: *)
(* a remount that asks for no other position never opens a second one.      *)
Open(c, id, since) ==
  /\ attached[c] = {}
  /\ opened[c] # Closed => since \notin {Live, opened[c].since}
  /\ opened' = [opened EXCEPT ![c] = [by |-> id, since |-> since]]
  /\ attached' = [attached EXCEPT ![c] = {id}]

Join(c, id, since) ==
  /\ opened[c] # Closed
  /\ since \in {Live, opened[c].since}
  /\ attached' = [attached EXCEPT ![c] = @ \union {id}]
  /\ UNCHANGED opened

Leave(c, id) ==
  /\ attached' = [attached EXCEPT ![c] = @ \ {id}]
  /\ UNCHANGED opened

Close(c) ==
  /\ opened[c] # Closed /\ attached[c] = {}
  /\ opened' = [opened EXCEPT ![c] = Closed]
  /\ UNCHANGED attached

Disconnect == Init'

Next ==
  \/ \E c \in Channels, id \in Consumers :
       \/ \E since \in Positions \union {Live} : Open(c, id, since) \/ Join(c, id, since)
       \/ Leave(c, id)
  \/ \E c \in Channels : Close(c)
  \/ Disconnect

Spec == Init /\ [][Next]_vars

(* A channel nobody listens to does not stay open.                         *)
FairSpec == Spec /\ \A c \in Channels : WF_vars(Close(c))
================================================================================
