---------------------------------- MODULE Fanout -------------------------------
(***************************************************************************)
(* The channel registry of packages/realtime (fanout.ts): it counts the    *)
(* consumers of a channel, opens one vendor subscription for the first and *)
(* closes it one microtask after the last has left.                        *)
(*                                                                         *)
(* JavaScript runs one thing at a time, but the registry calls out: an     *)
(* adapter may report "subscribed" from inside open, and every handler may *)
(* subscribe, unsubscribe, disconnect or throw.  `stack` is the call stack *)
(* as far as the registry is on it; user code runs when the stack is empty *)
(* or its top is a call of a handler.                                      *)
(*                                                                         *)
(* An entry of the registry is named by the consumer that created it.      *)
(***************************************************************************)
EXTENDS Naturals, Sequences, FiniteSets

CONSTANTS
  Channels,
  MaxConsumers,   \* bounds the calls of subscribe
  Positions,      \* stream positions a consumer may ask to resume from
  Live,           \* no position asked for: the live stream
  None,           \* undefined
  MaxDepth        \* bounds the call stack

ASSUME FanoutAssumption ==
  /\ Live \notin Positions
  /\ None \notin Positions \union {Live} \union Nat \union Channels
  /\ None \notin [by : 1 .. MaxConsumers, since : Positions \union {Live}]
  /\ MaxConsumers \in Nat /\ MaxDepth \in Nat

VARIABLES
  channels,         \* the registered entry of each channel
  nextConsumerId,
  phase,            \* per consumer, how far its subscribe call and handle are
  entryOf,          \* per consumer, the entry it was put into
  channelOf,        \* per entry, its channel
  openedSince,      \* per entry
  consumers,        \* per entry
  vendor,           \* per entry, the subscription the adapter made for it
  handle,           \* per entry, whether the registry holds its vendor handle
  lastContext,      \* per entry, whether the vendor has reported subscribed
  teardown,         \* the entries with a teardown queued and not cancelled
  stack

vars == <<channels, nextConsumerId, phase, entryOf, channelOf, openedSince,
          consumers, vendor, handle, lastContext, teardown, stack>>

Consumers == 1 .. MaxConsumers
Sinces == Positions \union {Live}

(* A consumer is opening while adapter.open runs for it, joining while its *)
(* onSubscribed is called on the way into an open channel, held while its  *)
(* owner can release it; a ghost is in the registry although its subscribe *)
(* threw, so nobody can release it.                                        *)
Phases == {"new", "opening", "joining", "held", "released", "refused", "ghost"}

Frames ==
  [op : {"open", "joined"}, of : Consumers, rest : {{}}]
    \union [op : {"deliver"}, of : Consumers, rest : SUBSET Consumers]

TypeOK ==
  /\ channels \in [Channels -> Consumers \union {None}]
  /\ nextConsumerId \in 1 .. MaxConsumers + 1
  /\ phase \in [Consumers -> Phases]
  /\ entryOf \in [Consumers -> Consumers \union {None}]
  /\ channelOf \in [Consumers -> Channels \union {None}]
  /\ openedSince \in [Consumers -> Sinces \union {None}]
  /\ consumers \in [Consumers -> SUBSET Consumers]
  /\ vendor \in [Consumers -> {"none", "open", "closed"}]
  /\ handle \in [Consumers -> BOOLEAN]
  /\ lastContext \in [Consumers -> BOOLEAN]
  /\ teardown \subseteq Consumers
  /\ stack \in Seq(Frames)

Init ==
  /\ channels = [c \in Channels |-> None]
  /\ nextConsumerId = 1
  /\ phase = [id \in Consumers |-> "new"]
  /\ entryOf = [id \in Consumers |-> None]
  /\ channelOf = [e \in Consumers |-> None]
  /\ openedSince = [e \in Consumers |-> None]
  /\ consumers = [e \in Consumers |-> {}]
  /\ vendor = [e \in Consumers |-> "none"]
  /\ handle = [e \in Consumers |-> FALSE]
  /\ lastContext = [e \in Consumers |-> FALSE]
  /\ teardown = {}
  /\ stack = << >>

--------------------------------------------------------------------------------
(* The call stack.                                                         *)

Frame(op, of, rest) == [op |-> op, of |-> of, rest |-> rest]
Top == stack[Len(stack)]
Below == SubSeq(stack, 1, Len(stack) - 1)

On(op) == stack # << >> /\ Top.op = op
UserCodeRuns == stack = << >> \/ On("joined") \/ On("deliver")
DepthLeft == Len(stack) < MaxDepth

Registered(e) == channelOf[e] # None /\ channels[channelOf[e]] = e

(* reap: forget the entry, cancel its teardown, close what is held.        *)
Closing(E) == [e \in Consumers |-> IF e \in E /\ handle[e] THEN "closed" ELSE vendor[e]]

--------------------------------------------------------------------------------
(* subscribe                                                               *)

NextId(id) ==
  /\ UserCodeRuns
  /\ id \in Consumers /\ id = nextConsumerId
  /\ nextConsumerId' = id + 1

(* Mutant: a differing position reaps the entry whoever listens.           *)
ReopensUnderConsumers(e, since) == since \notin {Live, openedSince[e]}

(* Mutant: any position reaps a draining entry, a remount's own included.  *)
ReopensOnAnySince(e, since) == consumers[e] = {} /\ since # Live

(* A position that differs from that of a draining entry: nobody is left   *)
(* to disagree, so the entry is reaped and the channel opened anew.        *)
Reopens(e, since) == consumers[e] = {} /\ since \notin {Live, openedSince[e]}

(* The consumer is in the entry before adapter.open is called.             *)
Create(id, c, since) ==
  LET e == channels[c]
      old == IF e = None THEN {} ELSE {e} IN
  /\ NextId(id) /\ DepthLeft
  /\ e # None => Reopens(e, since)
  /\ channels' = [channels EXCEPT ![c] = id]
  /\ vendor' = [Closing(old) EXCEPT ![id] = "open"]
  /\ teardown' = teardown \ old
  /\ channelOf' = [channelOf EXCEPT ![id] = c]
  /\ openedSince' = [openedSince EXCEPT ![id] = since]
  /\ entryOf' = [entryOf EXCEPT ![id] = id]
  /\ consumers' = [consumers EXCEPT ![id] = {id}]
  /\ phase' = [phase EXCEPT ![id] = "opening"]
  /\ stack' = Append(stack, Frame("open", id, {}))
  /\ UNCHANGED <<handle, lastContext>>

Compatible(e, since) == since \in {Live, openedSince[e]}

(* A joiner of a channel that is live is told so before subscribe returns. *)
Join(id, c, since) ==
  LET e == channels[c] IN
  /\ NextId(id)
  /\ e # None
  /\ Compatible(e, since)
  /\ teardown' = teardown \ {e}
  /\ consumers' = [consumers EXCEPT ![e] = @ \union {id}]
  /\ entryOf' = [entryOf EXCEPT ![id] = e]
  /\ IF lastContext[e]
     THEN /\ DepthLeft
          /\ phase' = [phase EXCEPT ![id] = "joining"]
          /\ stack' = Append(stack, Frame("joined", id, {}))
     ELSE /\ phase' = [phase EXCEPT ![id] = "held"]
          /\ UNCHANGED stack
  /\ UNCHANGED <<channels, channelOf, openedSince, vendor, handle, lastContext>>

(* since-conflict: subscribe throws before it has changed anything.        *)
Refuse(id, c, since) ==
  LET e == channels[c] IN
  /\ NextId(id)
  /\ e # None
  /\ ~Reopens(e, since) /\ ~Compatible(e, since)
  /\ phase' = [phase EXCEPT ![id] = "refused"]
  /\ UNCHANGED <<channels, entryOf, channelOf, openedSince, consumers, vendor,
                 handle, lastContext, teardown, stack>>

(* Mutant: the handle is kept whether the entry is still there or not.     *)
OpenReturnsBlind ==
  /\ On("open")
  /\ handle' = [handle EXCEPT ![Top.of] = TRUE]
  /\ phase' = [phase EXCEPT ![Top.of] = "held"]
  /\ stack' = Below
  /\ UNCHANGED <<channels, nextConsumerId, entryOf, channelOf, openedSince,
                 consumers, vendor, lastContext, teardown>>

(* adapter.open returns.  If a handler it called has disconnected, the     *)
(* entry is gone and the handle is closed at once.                         *)
OpenReturns ==
  /\ On("open")
  /\ LET e == Top.of IN
       /\ IF Registered(e)
          THEN handle' = [handle EXCEPT ![e] = TRUE] /\ UNCHANGED vendor
          ELSE vendor' = [vendor EXCEPT ![e] = "closed"] /\ UNCHANGED handle
       /\ phase' = [phase EXCEPT ![e] = "held"]
  /\ stack' = Below
  /\ UNCHANGED <<channels, nextConsumerId, entryOf, channelOf, openedSince,
                 consumers, lastContext, teardown>>

--------------------------------------------------------------------------------
(* unsubscribe and disconnect                                              *)

(* Mutant: the size is looked at before the consumer is removed.           *)
UnsubscribeCountsFirst(id) ==
  LET e == entryOf[id] IN
  /\ UserCodeRuns
  /\ phase[id] = "held"
  /\ phase' = [phase EXCEPT ![id] = "released"]
  /\ consumers' = [consumers EXCEPT ![e] = @ \ {id}]
  /\ teardown' = IF Registered(e) /\ consumers[e] = {}
                 THEN teardown \union {e} ELSE teardown
  /\ UNCHANGED <<channels, nextConsumerId, entryOf, channelOf, openedSince, vendor,
                 handle, lastContext, stack>>

(* A second call for the same consumer throws and changes nothing.         *)
Unsubscribe(id) ==
  LET e == entryOf[id] IN
  /\ UserCodeRuns
  /\ phase[id] = "held"
  /\ phase' = [phase EXCEPT ![id] = "released"]
  /\ consumers' = [consumers EXCEPT ![e] = @ \ {id}]
  /\ teardown' = IF Registered(e) /\ consumers[e] \ {id} = {}
                 THEN teardown \union {e} ELSE teardown
  /\ UNCHANGED <<channels, nextConsumerId, entryOf, channelOf, openedSince, vendor,
                 handle, lastContext, stack>>

Reset ==
  LET all == {e \in Consumers : Registered(e)} IN
  /\ UserCodeRuns
  /\ all # {}
  /\ channels' = [c \in Channels |-> None]
  /\ consumers' = [e \in Consumers |-> IF e \in all THEN {} ELSE consumers[e]]
  /\ vendor' = Closing(all)
  /\ teardown' = teardown \ all
  /\ UNCHANGED <<nextConsumerId, phase, entryOf, channelOf, openedSince, handle,
                 lastContext, stack>>

(* The microtask of a teardown; it runs when no call is on the stack.      *)
Teardown(e) ==
  /\ stack = << >>
  /\ e \in teardown
  /\ teardown' = teardown \ {e}
  /\ IF consumers[e] = {} /\ Registered(e)
     THEN /\ channels' = [channels EXCEPT ![channelOf[e]] = None]
          /\ vendor' = Closing({e})
     ELSE UNCHANGED <<channels, vendor>>
  /\ UNCHANGED <<nextConsumerId, phase, entryOf, channelOf, openedSince, consumers,
                 handle, lastContext, stack>>

--------------------------------------------------------------------------------
(* What the vendor reports, and the handlers it reaches.                   *)

(* A report goes to the consumers of the moment, in the order they came.   *)
Delivering(e) ==
  IF consumers[e] = {} THEN UNCHANGED stack
  ELSE DepthLeft /\ stack' = Append(stack, Frame("deliver", e, consumers[e]))

(* The SDK reports from tasks and microtasks of its own, so a report may    *)
(* come before a teardown that was queued earlier or after it.             *)
FromSocket == stack = << >>

(* The mock reports subscribed from inside open, the SDK from the socket.  *)
Subscribed(e) ==
  /\ vendor[e] = "open"
  /\ FromSocket \/ (On("open") /\ Top.of = e /\ ~lastContext[e])
  /\ lastContext' = [lastContext EXCEPT ![e] = TRUE]
  /\ Delivering(e)
  /\ UNCHANGED <<channels, nextConsumerId, phase, entryOf, channelOf, openedSince,
                 consumers, vendor, handle, teardown>>

(* A publication or an error.                                              *)
Publication(e) ==
  /\ vendor[e] = "open"
  /\ FromSocket
  /\ consumers[e] # {}
  /\ Delivering(e)
  /\ UNCHANGED <<channels, nextConsumerId, phase, entryOf, channelOf, openedSince,
                 consumers, vendor, handle, lastContext, teardown>>

Called == CHOOSE id \in Top.rest : \A other \in Top.rest : id <= other

(* The handler of Called returns, and the next of the snapshot is called.  *)
HandlerReturns ==
  /\ On("deliver")
  /\ stack' = IF Top.rest = {Called} THEN Below
              ELSE Append(Below, [Top EXCEPT !.rest = @ \ {Called}])
  /\ UNCHANGED <<channels, nextConsumerId, phase, entryOf, channelOf, openedSince,
                 consumers, vendor, handle, lastContext, teardown>>

JoinReturns ==
  /\ On("joined")
  /\ phase' = [phase EXCEPT ![Top.of] = "held"]
  /\ stack' = Below
  /\ UNCHANGED <<channels, nextConsumerId, entryOf, channelOf, openedSince, consumers,
                 vendor, handle, lastContext, teardown>>

(* A handler throws.  Nothing in the registry catches: the exception       *)
(* leaves the loop, and the subscribe call around it if there is one.      *)
HandlerThrows ==
  LET inOpen == On("deliver") /\ Below # << >> IN
  /\ On("deliver") \/ On("joined")
  /\ phase' = IF inOpen THEN [phase EXCEPT ![Below[Len(Below)].of] = "ghost"]
              ELSE IF On("joined") THEN [phase EXCEPT ![Top.of] = "ghost"]
              ELSE phase
  /\ stack' = IF inOpen THEN SubSeq(stack, 1, Len(stack) - 2) ELSE Below
  /\ UNCHANGED <<channels, nextConsumerId, entryOf, channelOf, openedSince, consumers,
                 vendor, handle, lastContext, teardown>>

--------------------------------------------------------------------------------

Next ==
  \/ \E id \in Consumers, c \in Channels, since \in Sinces :
       Create(id, c, since) \/ Join(id, c, since) \/ Refuse(id, c, since)
  \/ OpenReturns
  \/ \E id \in Consumers : Unsubscribe(id)
  \/ Reset
  \/ \E e \in Consumers : Teardown(e) \/ Subscribed(e) \/ Publication(e)
  \/ HandlerReturns
  \/ JoinReturns
  \/ HandlerThrows

Spec == Init /\ [][Next]_vars

(* Calls return, and the microtask queue is first in, first out: only so   *)
(* many reports come before a teardown that is queued.  What the           *)
(* application and the vendor do next is up to them.                       *)
Fairness ==
  /\ WF_vars(OpenReturns) /\ WF_vars(JoinReturns) /\ WF_vars(HandlerReturns)
  /\ \A e \in Consumers : SF_vars(Teardown(e))

FairSpec == Spec /\ Fairness

--------------------------------------------------------------------------------
(* The inductive invariant.                                                *)

OnStack(op, of) == \E i \in DOMAIN stack : stack[i].op = op /\ stack[i].of = of

(* The stack and the phases agree, and no call is on the stack twice.      *)
StackMatchesPhases ==
  /\ \A i \in DOMAIN stack :
       /\ stack[i].op = "open" => phase[stack[i].of] = "opening"
       /\ stack[i].op = "joined" => phase[stack[i].of] = "joining"
  /\ \A i, j \in DOMAIN stack :
       stack[i].op # "deliver" /\ stack[i].op = stack[j].op /\ stack[i].of = stack[j].of => i = j
  /\ \A id \in Consumers :
       /\ phase[id] = "opening" => OnStack("open", id)
       /\ phase[id] = "joining" => OnStack("joined", id)

(* Reports are made from the socket or from inside open.                   *)
DeliveriesAreRooted ==
  \A i \in DOMAIN stack :
    stack[i].op = "deliver" =>
      /\ stack[i].rest # {}
      /\ i > 1 => stack[i - 1].op = "open" /\ stack[i - 1].of = stack[i].of

(* An entry belongs to the consumer that created it, and a consumer that   *)
(* is in its entry is one whose subscribe went through or threw too late.  *)
EntriesAreConsistent ==
  /\ \A c \in Channels : channels[c] # None => channelOf[channels[c]] = c
  /\ \A id \in Consumers : id >= nextConsumerId => phase[id] = "new"
  /\ \A id \in Consumers : phase[id] \in {"new", "refused"} <=> entryOf[id] = None
  /\ \A e \in Consumers :
       /\ channelOf[e] # None <=> entryOf[e] = e
       /\ channelOf[e] # None <=> vendor[e] # "none"
       /\ vendor[e] = "none" => consumers[e] = {} /\ ~handle[e]
       /\ \A id \in consumers[e] :
            entryOf[id] = e /\ phase[id] \in {"opening", "joining", "held", "ghost"}

(* The consumers of a registered entry are exactly those not yet released. *)
RegistryCountsConsumers ==
  \A id \in Consumers :
    entryOf[id] # None /\ Registered(entryOf[id]) /\ phase[id] # "released" =>
      id \in consumers[entryOf[id]]

(* A registered entry has its vendor subscription, and the means to close  *)
(* it unless adapter.open is still running or threw.                       *)
RegisteredIsOpen ==
  \A e \in Consumers :
    Registered(e) =>
      /\ vendor[e] = "open"
      /\ ~handle[e] => phase[e] \in {"opening", "ghost"}

(* A vendor subscription that is open is registered, or will be closed     *)
(* when adapter.open returns, unless a handler threw inside of it.         *)
OpenIsRegistered ==
  \A e \in Consumers :
    vendor[e] = "open" => Registered(e) \/ (phase[e] \in {"opening", "ghost"} /\ ~handle[e])

(* An entry without consumers is on its way out.                           *)
DrainedIsTornDown ==
  \A e \in Consumers : Registered(e) /\ consumers[e] = {} => e \in teardown

FanoutInv ==
  /\ TypeOK
  /\ StackMatchesPhases
  /\ DeliveriesAreRooted
  /\ EntriesAreConsistent
  /\ RegistryCountsConsumers
  /\ RegisteredIsOpen
  /\ OpenIsRegistered
  /\ DrainedIsTornDown

--------------------------------------------------------------------------------
(* What the registry promises.                                             *)

(* No vendor subscription is closed under a consumer: only a disconnect    *)
(* ends one that has any, and it ends them all.                            *)
NobodyIsCutOff ==
  [][\A e \in Consumers :
       vendor[e] = "open" /\ vendor'[e] = "closed" /\ consumers[e] # {} =>
         \A c \in Channels : channels'[c] = None]_vars

(* When no call is running, a vendor subscription is open only for         *)
(* somebody who can still release it, or until the queued microtask, and   *)
(* there is one per channel; what leaks has a consumer whose own handler   *)
(* threw inside of subscribe.                                              *)
OnlyGhostsLeak ==
  stack = << >> =>
    /\ \A e \in Consumers :
         vendor[e] = "open" =>
           \/ Registered(e) /\ e \in teardown
           \/ Registered(e) /\ \E id \in consumers[e] : phase[id] = "held"
           \/ \E id \in Consumers : phase[id] = "ghost" /\ entryOf[id] = e
    /\ \A e1, e2 \in Consumers :
         vendor[e1] = "open" /\ vendor[e2] = "open" /\ channelOf[e1] = channelOf[e2] =>
           e1 = e2 \/ phase[e1] = "ghost" \/ phase[e2] = "ghost"

(* The registry implements the contract, and closes what nobody listens to.*)
Contract ==
  INSTANCE ChannelSubscriptions WITH
    Closed <- None,
    opened <- [c \in Channels |->
                 IF channels[c] = None THEN None
                 ELSE [by |-> channels[c], since |-> openedSince[channels[c]]]],
    attached <- [c \in Channels |-> IF channels[c] = None THEN {} ELSE consumers[channels[c]]]

ImplementsContract == Contract!FairSpec
================================================================================
