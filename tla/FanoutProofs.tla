----------------------------- MODULE FanoutProofs -------------------------------
(***************************************************************************)
(* For any channels, consumers and stream positions, and however handlers  *)
(* call back into the registry: no subscription is closed under a          *)
(* consumer, every step of the registry is a step of the contract, and     *)
(* what leaks belongs to a consumer whose own handler threw.               *)
(***************************************************************************)
EXTENDS Fanout, SequenceTheorems, TLAPS

--------------------------------------------------------------------------------
(* The inductive invariant.                                                *)

RegistryTypeOK ==
  /\ channels \in [Channels -> Consumers \union {None}]
  /\ nextConsumerId \in Nat
  /\ channelOf \in [Consumers -> Channels \union {None}]
  /\ openedSince \in [Consumers -> Sinces \union {None}]
  /\ consumers \in [Consumers -> SUBSET Consumers]
  /\ vendor \in [Consumers -> {"none", "open", "closed"}]

(* An entry is registered under its own channel, by an earlier consumer.   *)
EntriesKnowTheirChannel ==
  \A c \in Channels : channels[c] # None =>
    /\ channelOf[channels[c]] = c
    /\ channels[c] < nextConsumerId
    /\ openedSince[channels[c]] \in Sinces

(* An entry that the registry has forgotten has no consumers.              *)
ForgottenIsEmpty == \A e \in Consumers : ~Registered(e) => consumers[e] = {}

RegistryInv ==
  /\ RegistryTypeOK
  /\ EntriesKnowTheirChannel
  /\ ForgottenIsEmpty

LEMMA ConsumersAreNumbers ==
  /\ Consumers \subseteq Nat
  /\ None \notin Consumers /\ None \notin Channels
  BY FanoutAssumption DEF Consumers

LEMMA RegisteredFacts ==
  ASSUME RegistryInv
  PROVE  /\ \A c \in Channels : channels[c] # None =>
              channels[c] \in Consumers /\ Registered(channels[c])
         /\ \A e \in Consumers : Registered(e) =>
              channelOf[e] \in Channels /\ channels[channelOf[e]] = e
         /\ \A c, d \in Channels : channels[c] # None /\ channels[c] = channels[d] => c = d
  BY ConsumersAreNumbers DEF RegistryInv, RegistryTypeOK, EntriesKnowTheirChannel, Registered

LEMMA InitRegistryInv == Init => RegistryInv
  BY ConsumersAreNumbers
     DEF Init, RegistryInv, RegistryTypeOK, EntriesKnowTheirChannel, ForgottenIsEmpty, Registered

(* A step that changes neither the registry nor an entry.                  *)
LEMMA RegistryUntouched ==
  ASSUME RegistryInv, UNCHANGED <<channels, channelOf, openedSince, consumers>>,
         nextConsumerId' \in Nat, nextConsumerId' >= nextConsumerId,
         vendor' \in [Consumers -> {"none", "open", "closed"}]
  PROVE  RegistryInv'
  <1>1. EntriesKnowTheirChannel'
    <2>1. \A c \in Channels : channels[c] # None => channels[c] \in Nat
      BY ConsumersAreNumbers DEF RegistryInv, RegistryTypeOK
    <2>2. QED
      BY <2>1 DEF RegistryInv, RegistryTypeOK, EntriesKnowTheirChannel
  <1>2. QED
    BY <1>1 DEF RegistryInv, RegistryTypeOK, ForgottenIsEmpty, Registered

LEMMA CreateKeeps ==
  ASSUME RegistryInv, NEW id \in Consumers, NEW c \in Channels, NEW since \in Sinces,
         Create(id, c, since)
  PROVE  RegistryInv'
  <1>1. /\ nextConsumerId = id /\ nextConsumerId' = id + 1
        /\ channels' = [channels EXCEPT ![c] = id]
        /\ channelOf' = [channelOf EXCEPT ![id] = c]
        /\ openedSince' = [openedSince EXCEPT ![id] = since]
        /\ consumers' = [consumers EXCEPT ![id] = {id}]
        /\ channels[c] # None => consumers[channels[c]] = {}
    BY DEF Create, NextId, Reopens
  <1>2. id \in Nat /\ id # None /\ c # None
    BY ConsumersAreNumbers
  <1>3. vendor' \in [Consumers -> {"none", "open", "closed"}]
    <2> DEFINE old == IF channels[c] = None THEN {} ELSE {channels[c]}
    <2>1. vendor' = [Closing(old) EXCEPT ![id] = "open"]
      BY DEF Create
    <2>2. Closing(old) \in [Consumers -> {"none", "open", "closed"}]
      BY DEF Closing, RegistryInv, RegistryTypeOK
    <2> HIDE DEF old
    <2>3. QED
      BY <2>1, <2>2
  <1>4. RegistryTypeOK'
    <2>1. channels' \in [Channels -> Consumers \union {None}] /\ nextConsumerId' \in Nat
      BY <1>1, <1>2 DEF RegistryInv, RegistryTypeOK
    <2>2. /\ channelOf' \in [Consumers -> Channels \union {None}]
          /\ openedSince' \in [Consumers -> Sinces \union {None}]
      BY <1>1 DEF RegistryInv, RegistryTypeOK
    <2>3. consumers' \in [Consumers -> SUBSET Consumers]
      BY <1>1 DEF RegistryInv, RegistryTypeOK
    <2>4. QED
      BY <1>3, <2>1, <2>2, <2>3 DEF RegistryTypeOK
  <1>5. \A d \in Channels : d # c /\ channels[d] # None =>
          channels[d] < id /\ channels[d] # id /\ channels[d] \in Nat
    <2>1. \A d \in Channels : channels[d] # None => channels[d] < id /\ channels[d] \in Nat
      BY <1>1, RegisteredFacts, ConsumersAreNumbers DEF RegistryInv, EntriesKnowTheirChannel
    <2>2. QED
      BY <1>2, <2>1
  <1>6. EntriesKnowTheirChannel'
    <2> SUFFICES ASSUME NEW d \in Channels, channels'[d] # None
                 PROVE  /\ channelOf'[channels'[d]] = d
                        /\ channels'[d] < nextConsumerId'
                        /\ openedSince'[channels'[d]] \in Sinces
      BY DEF EntriesKnowTheirChannel
    <2>1. CASE d = c
      BY <2>1, <1>1, <1>2 DEF RegistryInv, RegistryTypeOK
    <2>2. CASE d # c
      <3>1. channels'[d] = channels[d]
        BY <2>2, <1>1 DEF RegistryInv, RegistryTypeOK
      <3>2. QED
        BY <2>2, <3>1, <1>1, <1>2, <1>5, ConsumersAreNumbers
           DEF RegistryInv, RegistryTypeOK, EntriesKnowTheirChannel
    <2>3. QED
      BY <2>1, <2>2
  <1>7. ForgottenIsEmpty'
    <2> SUFFICES ASSUME NEW e \in Consumers, ~Registered(e)'
                 PROVE  consumers'[e] = {}
      BY DEF ForgottenIsEmpty
    <2>1. e # id
      BY <1>1, <1>2 DEF Registered, RegistryInv, RegistryTypeOK
    <2>2. consumers'[e] = consumers[e] /\ channelOf'[e] = channelOf[e]
      BY <1>1, <2>1 DEF RegistryInv, RegistryTypeOK
    <2>3. CASE Registered(e)
      <3>1. channelOf[e] = c
        BY <1>1, <2>2, <2>3 DEF Registered, RegistryInv, RegistryTypeOK
      <3>2. channels[c] = e /\ e # None
        BY <2>3, <3>1, ConsumersAreNumbers DEF Registered
      <3>3. QED
        BY <1>1, <2>2, <3>2
    <2>4. CASE ~Registered(e)
      BY <2>2, <2>4 DEF RegistryInv, ForgottenIsEmpty
    <2>5. QED
      BY <2>3, <2>4
  <1>8. QED
    BY <1>4, <1>6, <1>7 DEF RegistryInv

LEMMA JoinKeeps ==
  ASSUME RegistryInv, NEW id \in Consumers, NEW c \in Channels, NEW since \in Sinces,
         Join(id, c, since)
  PROVE  RegistryInv'
  <1> DEFINE e == channels[c]
  <1>1. /\ nextConsumerId = id /\ nextConsumerId' = id + 1 /\ e # None
        /\ consumers' = [consumers EXCEPT ![e] = @ \union {id}]
        /\ UNCHANGED <<channels, channelOf, openedSince, vendor>>
    BY DEF Join, NextId
  <1>2. id \in Nat
    BY ConsumersAreNumbers
  <1>3. e \in Consumers /\ Registered(e)
    BY <1>1, RegisteredFacts
  <1>4. RegistryTypeOK'
    <2>1. consumers' \in [Consumers -> SUBSET Consumers]
      <3> HIDE DEF e
      <3>1. QED
        BY <1>1 DEF RegistryInv, RegistryTypeOK
    <2>2. QED
      BY <1>1, <1>2, <2>1 DEF RegistryInv, RegistryTypeOK
  <1>5. EntriesKnowTheirChannel'
    <2>1. \A d \in Channels : channels[d] # None => channels[d] \in Nat
      BY ConsumersAreNumbers DEF RegistryInv, RegistryTypeOK
    <2>2. QED
      BY <1>1, <1>2, <2>1 DEF RegistryInv, RegistryTypeOK, EntriesKnowTheirChannel
  <1>6. ForgottenIsEmpty'
    BY <1>1, <1>3 DEF RegistryInv, RegistryTypeOK, ForgottenIsEmpty, Registered
  <1>7. QED
    BY <1>4, <1>5, <1>6 DEF RegistryInv

LEMMA UnsubscribeKeeps ==
  ASSUME RegistryInv, NEW id \in Consumers, Unsubscribe(id)
  PROVE  RegistryInv'
  <1>1. /\ consumers' = [consumers EXCEPT ![entryOf[id]] = @ \ {id}]
        /\ UNCHANGED <<channels, nextConsumerId, channelOf, openedSince, vendor>>
    BY DEF Unsubscribe
  <1>2. /\ consumers' \in [Consumers -> SUBSET Consumers]
        /\ \A e \in Consumers : consumers'[e] \subseteq consumers[e]
    BY <1>1 DEF RegistryInv, RegistryTypeOK
  <1>3. QED
    BY <1>1, <1>2
       DEF RegistryInv, RegistryTypeOK, EntriesKnowTheirChannel, ForgottenIsEmpty, Registered

LEMMA ResetKeeps ==
  ASSUME RegistryInv, Reset
  PROVE  RegistryInv'
  <1>1. /\ channels' = [c \in Channels |-> None]
        /\ consumers' = [e \in Consumers |-> IF Registered(e) THEN {} ELSE consumers[e]]
        /\ vendor' = Closing({e \in Consumers : Registered(e)})
        /\ UNCHANGED <<nextConsumerId, channelOf, openedSince>>
    BY DEF Reset
  <1>2. vendor' \in [Consumers -> {"none", "open", "closed"}]
    BY <1>1 DEF Closing, RegistryInv, RegistryTypeOK
  <1>3. \A e \in Consumers : consumers'[e] = {}
    BY <1>1 DEF RegistryInv, ForgottenIsEmpty
  <1>4. QED
    BY <1>1, <1>2, <1>3
       DEF RegistryInv, RegistryTypeOK, EntriesKnowTheirChannel, ForgottenIsEmpty

LEMMA TeardownKeeps ==
  ASSUME RegistryInv, NEW e \in Consumers, Teardown(e)
  PROVE  RegistryInv'
  <1>1. UNCHANGED <<nextConsumerId, channelOf, openedSince, consumers>>
    BY DEF Teardown
  <1>2. CASE consumers[e] = {} /\ Registered(e)
    <2>1. channels' = [channels EXCEPT ![channelOf[e]] = None] /\ vendor' = Closing({e})
      BY <1>2 DEF Teardown
    <2>2. channelOf[e] \in Channels /\ channels[channelOf[e]] = e
      BY <1>2, RegisteredFacts
    <2>3. RegistryTypeOK'
      BY <1>1, <2>1 DEF Closing, RegistryInv, RegistryTypeOK
    <2>4. EntriesKnowTheirChannel'
      BY <1>1, <2>1 DEF RegistryInv, RegistryTypeOK, EntriesKnowTheirChannel
    <2>5. ForgottenIsEmpty'
      <3> SUFFICES ASSUME NEW d \in Consumers, ~Registered(d)'
                   PROVE  consumers[d] = {}
        BY <1>1 DEF ForgottenIsEmpty
      <3>1. CASE Registered(d)
        <4>1. channelOf[d] = channelOf[e]
          BY <1>1, <2>1, <3>1, RegisteredFacts DEF Registered, RegistryInv, RegistryTypeOK
        <4>2. QED
          BY <1>2, <2>2, <3>1, <4>1, RegisteredFacts
      <3>2. QED
        BY <3>1 DEF RegistryInv, ForgottenIsEmpty
    <2>6. QED
      BY <2>3, <2>4, <2>5 DEF RegistryInv
  <1>3. CASE ~(consumers[e] = {} /\ Registered(e))
    <2>1. UNCHANGED <<channels, vendor>>
      BY <1>3 DEF Teardown
    <2>2. QED
      BY <1>1, <2>1, RegistryUntouched DEF RegistryInv, RegistryTypeOK
  <1>4. QED
    BY <1>2, <1>3

(* The steps that are about calls and reports only.                        *)
Calls ==
  \/ \E id \in Consumers, c \in Channels, since \in Sinces : Refuse(id, c, since)
  \/ OpenReturns
  \/ \E e \in Consumers : Subscribed(e) \/ Publication(e)
  \/ HandlerReturns
  \/ JoinReturns
  \/ HandlerThrows

LEMMA CallsLeaveTheRegistry ==
  ASSUME RegistryInv, Calls \/ UNCHANGED vars
  PROVE  /\ UNCHANGED <<channels, channelOf, openedSince, consumers>>
         /\ nextConsumerId' \in Nat /\ nextConsumerId' >= nextConsumerId
         /\ vendor' \in [Consumers -> {"none", "open", "closed"}]
  <1>1. ASSUME NEW id \in Consumers, NEW c \in Channels, NEW since \in Sinces,
               Refuse(id, c, since)
        PROVE  /\ UNCHANGED <<channels, channelOf, openedSince, consumers, vendor>>
               /\ nextConsumerId \in Nat /\ nextConsumerId' = nextConsumerId + 1
    BY <1>1 DEF Refuse, NextId, RegistryInv, RegistryTypeOK
  <1>2. CASE OpenReturns
    BY <1>2 DEF OpenReturns, RegistryInv, RegistryTypeOK
  <1>3. ASSUME NEW e \in Consumers, Subscribed(e) \/ Publication(e)
        PROVE  UNCHANGED <<channels, channelOf, openedSince, consumers, vendor, nextConsumerId>>
    BY <1>3 DEF Subscribed, Publication
  <1>4. CASE HandlerReturns \/ JoinReturns \/ HandlerThrows \/ UNCHANGED vars
    BY <1>4 DEF HandlerReturns, JoinReturns, HandlerThrows, vars, RegistryInv, RegistryTypeOK
  <1>5. QED
    BY <1>1, <1>2, <1>3, <1>4 DEF Calls, RegistryInv, RegistryTypeOK

LEMMA NextCases ==
  ASSUME Next
  PROVE  \/ \E id \in Consumers, c \in Channels, since \in Sinces :
              Create(id, c, since) \/ Join(id, c, since)
         \/ \E id \in Consumers : Unsubscribe(id) \/ Teardown(id)
         \/ Reset
         \/ Calls
  BY DEF Next, Calls

LEMMA RegistryInvStep ==
  ASSUME RegistryInv, Next \/ UNCHANGED vars
  PROVE  RegistryInv'
  <1>1. CASE Calls \/ UNCHANGED vars
    BY <1>1, CallsLeaveTheRegistry, RegistryUntouched
  <1>2. CASE Next /\ ~Calls
    BY <1>2, NextCases, CreateKeeps, JoinKeeps, UnsubscribeKeeps, TeardownKeeps, ResetKeeps
  <1>3. QED
    BY <1>1, <1>2

--------------------------------------------------------------------------------
(* The theorems.                                                           *)

(* Whoever is on an entry is on one that the registry still has.           *)
THEOREM FanoutRegistry == Spec => []RegistryInv
  <1>1. RegistryInv /\ [Next]_vars => RegistryInv'
    BY RegistryInvStep
  <1>2. QED
    BY InitRegistryInv, <1>1, PTL DEF Spec

(* No vendor subscription is closed under a consumer, but by a disconnect. *)
THEOREM FanoutCutsNobodyOff == Spec => NobodyIsCutOff
  <1> DEFINE Uncut ==
        \A e \in Consumers :
          vendor[e] = "open" /\ vendor'[e] = "closed" /\ consumers[e] # {} =>
            \A c \in Channels : channels'[c] = None
  <1>1. RegistryInv /\ [Next]_vars => [Uncut]_vars
    <2> SUFFICES ASSUME RegistryInv, Next,
                        NEW e \in Consumers, vendor[e] = "open", vendor'[e] = "closed",
                        consumers[e] # {}
                 PROVE  \A c \in Channels : channels'[c] = None
      OBVIOUS
    <2>1. ASSUME NEW id \in Consumers, NEW c \in Channels, NEW since \in Sinces,
                 Create(id, c, since)
          PROVE  FALSE
      <3> DEFINE old == IF channels[c] = None THEN {} ELSE {channels[c]}
      <3>1. /\ vendor' = [Closing(old) EXCEPT ![id] = "open"]
            /\ channels[c] # None => consumers[channels[c]] = {}
        BY <2>1 DEF Create, Reopens
      <3>2. e \notin old
        BY <3>1
      <3> HIDE DEF old
      <3>3. Closing(old)[e] = vendor[e]
        BY <3>2 DEF Closing
      <3>4. vendor'[e] = Closing(old)[e] \/ vendor'[e] = "open"
        BY <3>1 DEF Closing
      <3>5. QED
        BY <3>3, <3>4
    <2>2. ASSUME NEW id \in Consumers, NEW c \in Channels, NEW since \in Sinces,
                 Join(id, c, since) \/ Refuse(id, c, since)
          PROVE  FALSE
      BY <2>2 DEF Join, Refuse
    <2>3. ASSUME OpenReturns
          PROVE  FALSE
      <3>1. Registered(e)
        BY DEF RegistryInv, ForgottenIsEmpty
      <3>2. ~Registered(Top.of) /\ vendor' = [vendor EXCEPT ![Top.of] = "closed"]
        BY <2>3 DEF OpenReturns
      <3>3. QED
        BY <3>1, <3>2 DEF RegistryInv, RegistryTypeOK
    <2>4. ASSUME NEW id \in Consumers, Unsubscribe(id) \/ Subscribed(id) \/ Publication(id)
          PROVE  FALSE
      BY <2>4 DEF Unsubscribe, Subscribed, Publication
    <2>5. ASSUME NEW id \in Consumers, Teardown(id)
          PROVE  FALSE
      BY <2>5 DEF Teardown, Closing
    <2>6. CASE Reset
      BY <2>6 DEF Reset
    <2>7. ASSUME HandlerReturns \/ JoinReturns \/ HandlerThrows
          PROVE  FALSE
      BY <2>7 DEF HandlerReturns, JoinReturns, HandlerThrows
    <2>8. QED
      BY <2>1, <2>2, <2>3, <2>4, <2>5, <2>6, <2>7 DEF Next
  <1>2. QED
    BY FanoutRegistry, <1>1, PTL DEF Spec, NobodyIsCutOff

--------------------------------------------------------------------------------
(* The registry against the contract.                                      *)

(* What the contract sees of the registry.                                 *)
Opened(c) ==
  IF channels[c] = None THEN None
  ELSE [by |-> channels[c], since |-> openedSince[channels[c]]]

Attached(c) == IF channels[c] = None THEN {} ELSE consumers[channels[c]]

OpenedOf == [c \in Channels |-> Opened(c)]
AttachedOf == [c \in Channels |-> Attached(c)]

LEMMA ContractSees ==
  /\ Contract!Init <=> /\ OpenedOf = [c \in Channels |-> None]
                       /\ AttachedOf = [c \in Channels |-> {}]
  /\ Contract!Disconnect <=> /\ OpenedOf' = [c \in Channels |-> None]
                             /\ AttachedOf' = [c \in Channels |-> {}]
  /\ UNCHANGED Contract!vars <=> OpenedOf' = OpenedOf /\ AttachedOf' = AttachedOf
  /\ \A c, id, since :
       Contract!Open(c, id, since) <=>
         /\ AttachedOf[c] = {}
         /\ OpenedOf[c] # None => since \notin {Live, OpenedOf[c].since}
         /\ OpenedOf' = [OpenedOf EXCEPT ![c] = [by |-> id, since |-> since]]
         /\ AttachedOf' = [AttachedOf EXCEPT ![c] = {id}]
  /\ \A c, id, since :
       Contract!Join(c, id, since) <=>
         /\ OpenedOf[c] # None
         /\ since \in {Live, OpenedOf[c].since}
         /\ AttachedOf' = [AttachedOf EXCEPT ![c] = @ \union {id}]
         /\ OpenedOf' = OpenedOf
  /\ \A c, id :
       Contract!Leave(c, id) <=>
         /\ AttachedOf' = [AttachedOf EXCEPT ![c] = @ \ {id}]
         /\ OpenedOf' = OpenedOf
  /\ \A c :
       Contract!Close(c) <=>
         /\ OpenedOf[c] # None /\ AttachedOf[c] = {}
         /\ OpenedOf' = [OpenedOf EXCEPT ![c] = None]
         /\ AttachedOf' = AttachedOf
  BY DEF Contract!Init, Contract!Disconnect, Contract!vars, Contract!Open, Contract!Join,
         Contract!Leave, Contract!Close, OpenedOf, AttachedOf, Opened, Attached

LEMMA OpenedRecords ==
  ASSUME RegistryInv, NEW c \in Channels
  PROVE  /\ OpenedOf[c] = Opened(c) /\ AttachedOf[c] = Attached(c)
         /\ channels[c] # None => /\ OpenedOf[c] # None
                                  /\ OpenedOf[c].since = openedSince[channels[c]]
  <1>1. OpenedOf[c] = Opened(c) /\ AttachedOf[c] = Attached(c)
    BY DEF OpenedOf, AttachedOf
  <1>2. ASSUME channels[c] # None
        PROVE  /\ Opened(c) # None
               /\ Opened(c).since = openedSince[channels[c]]
    <2>1. channels[c] \in Consumers /\ openedSince[channels[c]] \in Sinces
      BY <1>2, RegisteredFacts DEF RegistryInv, EntriesKnowTheirChannel
    <2>2. [by |-> channels[c], since |-> openedSince[channels[c]]] # None
      BY <2>1, FanoutAssumption DEF Consumers, Sinces
    <2>3. QED
      BY <1>2, <2>2 DEF Opened
  <1>3. QED
    BY <1>1, <1>2

LEMMA CreateOpens ==
  ASSUME RegistryInv, NEW id \in Consumers, NEW c \in Channels, NEW since \in Sinces,
         Create(id, c, since)
  PROVE  Contract!Open(c, id, since)
  <1>1. /\ nextConsumerId = id
        /\ channels' = [channels EXCEPT ![c] = id]
        /\ openedSince' = [openedSince EXCEPT ![id] = since]
        /\ consumers' = [consumers EXCEPT ![id] = {id}]
        /\ channels[c] # None =>
             /\ consumers[channels[c]] = {}
             /\ since \notin {Live, openedSince[channels[c]]}
    BY DEF Create, NextId, Reopens
  <1>2. id \in Nat /\ id # None
    BY ConsumersAreNumbers
  <1>3. Attached(c) = {} /\ (OpenedOf[c] # None => since \notin {Live, OpenedOf[c].since})
    BY <1>1, OpenedRecords DEF Attached, Opened
  <1>4. ASSUME NEW d \in Channels
        PROVE  /\ Opened(d)' = IF d = c THEN [by |-> id, since |-> since] ELSE Opened(d)
               /\ Attached(d)' = IF d = c THEN {id} ELSE Attached(d)
    <2>1. CASE d = c
      <3>1. channels'[c] = id /\ openedSince'[id] = since /\ consumers'[id] = {id}
        BY <1>1 DEF RegistryInv, RegistryTypeOK
      <3>2. QED
        BY <2>1, <3>1, <1>2 DEF Opened, Attached
    <2>2. CASE d # c
      <3>1. channels'[d] = channels[d]
        BY <2>2, <1>1 DEF RegistryInv, RegistryTypeOK
      <3>2. channels[d] # None =>
              /\ openedSince'[channels[d]] = openedSince[channels[d]]
              /\ consumers'[channels[d]] = consumers[channels[d]]
        <4>1. channels[d] # None => channels[d] \in Nat /\ channels[d] < id
          BY <1>1, RegisteredFacts, ConsumersAreNumbers DEF RegistryInv, EntriesKnowTheirChannel
        <4>2. channels[d] # None => channels[d] # id /\ channels[d] \in Consumers
          BY <4>1, <1>2, RegisteredFacts
        <4>3. QED
          BY <4>2, <1>1 DEF RegistryInv, RegistryTypeOK
      <3>3. QED
        BY <2>2, <3>1, <3>2 DEF Opened, Attached
    <2>3. QED
      BY <2>1, <2>2
  <1>5. /\ OpenedOf' = [OpenedOf EXCEPT ![c] = [by |-> id, since |-> since]]
        /\ AttachedOf' = [AttachedOf EXCEPT ![c] = {id}]
    BY <1>4 DEF OpenedOf, AttachedOf
  <1>6. QED
    BY <1>3, <1>5, ContractSees, OpenedRecords

(* The consumers of one registered entry change, and nothing else.         *)
LEMMA OneChannelChanges ==
  ASSUME RegistryInv, NEW c \in Channels, channels[c] # None, NEW S,
         consumers' = [consumers EXCEPT ![channels[c]] = S],
         UNCHANGED <<channels, openedSince>>
  PROVE  /\ OpenedOf' = OpenedOf
         /\ AttachedOf' = [AttachedOf EXCEPT ![c] = S]
  <1>1. \A d \in Channels : Opened(d)' = Opened(d)
    BY DEF Opened
  <1>2. \A d \in Channels : Attached(d)' = IF d = c THEN S ELSE Attached(d)
    BY RegisteredFacts DEF Attached, RegistryInv, RegistryTypeOK
  <1>3. QED
    BY <1>1, <1>2 DEF OpenedOf, AttachedOf

LEMMA JoinJoins ==
  ASSUME RegistryInv, NEW id \in Consumers, NEW c \in Channels, NEW since \in Sinces,
         Join(id, c, since)
  PROVE  Contract!Join(c, id, since)
  <1>1. /\ channels[c] # None /\ since \in {Live, openedSince[channels[c]]}
        /\ consumers' = [consumers EXCEPT ![channels[c]] = @ \union {id}]
        /\ UNCHANGED <<channels, openedSince>>
    BY DEF Join, Compatible
  <1>2. AttachedOf[c] = consumers[channels[c]]
    BY <1>1, OpenedRecords DEF Attached
  <1>3. /\ OpenedOf' = OpenedOf
        /\ AttachedOf' = [AttachedOf EXCEPT ![c] = consumers[channels[c]] \union {id}]
    BY <1>1, OneChannelChanges
  <1>4. QED
    BY <1>1, <1>2, <1>3, ContractSees, OpenedRecords

LEMMA UnsubscribeLeaves ==
  ASSUME RegistryInv, NEW id \in Consumers, Unsubscribe(id)
  PROVE  (\E c \in Channels : Contract!Leave(c, id)) \/ UNCHANGED Contract!vars
  <1> DEFINE e == entryOf[id]
  <1>1. /\ consumers' = [consumers EXCEPT ![e] = @ \ {id}]
        /\ UNCHANGED <<channels, openedSince>>
    BY DEF Unsubscribe
  <1>2. CASE \E c \in Channels : channels[c] # None /\ channels[c] = e
    <2>1. PICK c \in Channels : channels[c] # None /\ channels[c] = e
      BY <1>2
    <2>2. /\ OpenedOf' = OpenedOf
          /\ AttachedOf' = [AttachedOf EXCEPT ![c] = consumers[channels[c]] \ {id}]
      BY <1>1, <2>1, OneChannelChanges
    <2>3. AttachedOf[c] = consumers[channels[c]]
      BY <2>1, OpenedRecords DEF Attached
    <2>4. QED
      BY <2>2, <2>3, ContractSees
  <1>3. CASE \A c \in Channels : channels[c] # None => channels[c] # e
    <2>1. \A d \in Channels : Opened(d)' = Opened(d)
      BY <1>1 DEF Opened
    <2>2. \A d \in Channels : Attached(d)' = Attached(d)
      BY <1>1, <1>3, RegisteredFacts DEF Attached, RegistryInv, RegistryTypeOK
    <2>3. QED
      BY <2>1, <2>2, ContractSees DEF OpenedOf, AttachedOf
  <1>4. QED
    BY <1>2, <1>3

LEMMA TeardownCloses ==
  ASSUME RegistryInv, NEW e \in Consumers, Teardown(e)
  PROVE  (\E c \in Channels : Contract!Close(c)) \/ UNCHANGED Contract!vars
  <1>1. UNCHANGED <<openedSince, consumers>>
    BY DEF Teardown
  <1>2. CASE consumers[e] = {} /\ Registered(e)
    <2> DEFINE c == channelOf[e]
    <2>1. channels' = [channels EXCEPT ![c] = None]
      BY <1>2 DEF Teardown
    <2>2. c \in Channels /\ channels[c] = e /\ channels[c] # None
      BY <1>2, RegisteredFacts, ConsumersAreNumbers
    <2> HIDE DEF c
    <2>3. OpenedOf[c] # None /\ AttachedOf[c] = {}
      BY <1>2, <2>2, OpenedRecords DEF Attached
    <2>4. \A d \in Channels : /\ Opened(d)' = IF d = c THEN None ELSE Opened(d)
                              /\ Attached(d)' = IF d = c THEN {} ELSE Attached(d)
      BY <1>1, <2>1 DEF Opened, Attached, RegistryInv, RegistryTypeOK
    <2>5. /\ OpenedOf' = [OpenedOf EXCEPT ![c] = None]
          /\ AttachedOf' = AttachedOf
      BY <2>2, <2>3, <2>4 DEF OpenedOf, AttachedOf
    <2>6. QED
      BY <2>2, <2>3, <2>5, ContractSees
  <1>3. CASE ~(consumers[e] = {} /\ Registered(e))
    <2>1. UNCHANGED channels
      BY <1>3 DEF Teardown
    <2>2. QED
      BY <1>1, <2>1, ContractSees DEF OpenedOf, AttachedOf, Opened, Attached
  <1>4. QED
    BY <1>2, <1>3

(* Every step of the registry is a step of the contract or leaves it alone: *)
(* one subscription per channel, at one position while anyone listens,     *)
(* that survives a consumer that leaves.                                   *)
THEOREM FanoutContract == Spec => Contract!Spec
  <1>1. Init => Contract!Init
    BY ContractSees DEF Init, OpenedOf, AttachedOf, Opened, Attached
  <1>2. RegistryInv /\ [Next]_vars => [Contract!Next]_(Contract!vars)
    <2> SUFFICES ASSUME RegistryInv, [Next]_vars
                 PROVE  Contract!Next \/ UNCHANGED Contract!vars
      OBVIOUS
    <2>1. CASE Calls \/ UNCHANGED vars
      <3>1. UNCHANGED <<channels, openedSince, consumers>>
        BY <2>1, CallsLeaveTheRegistry
      <3>2. QED
        BY <3>1, ContractSees DEF OpenedOf, AttachedOf, Opened, Attached
    <2>2. ASSUME NEW id \in Consumers, NEW c \in Channels, NEW since \in Sinces,
                 Create(id, c, since) \/ Join(id, c, since)
          PROVE  Contract!Next
      BY <2>2, CreateOpens, JoinJoins DEF Contract!Next, Sinces
    <2>3. ASSUME NEW id \in Consumers, Unsubscribe(id) \/ Teardown(id)
          PROVE  Contract!Next \/ UNCHANGED Contract!vars
      BY <2>3, UnsubscribeLeaves, TeardownCloses DEF Contract!Next
    <2>4. CASE Reset
      <3>1. \A c \in Channels : channels'[c] = None
        BY <2>4 DEF Reset
      <3>2. QED
        BY <3>1, ContractSees DEF Contract!Next, OpenedOf, AttachedOf, Opened, Attached
    <2>5. QED
      BY <2>1, <2>2, <2>3, <2>4, NextCases
  <1>3. QED
    BY FanoutRegistry, <1>1, <1>2, PTL DEF Spec, Contract!Spec

--------------------------------------------------------------------------------
(* The call stack.                                                         *)

LEMMA Popping ==
  ASSUME stack \in Seq(Frames), stack # << >>
  PROVE  /\ Below \in Seq(Frames) /\ Top \in Frames
         /\ Len(stack) \in DOMAIN stack
         /\ DOMAIN Below = DOMAIN stack \ {Len(stack)}
         /\ Len(Below) = Len(stack) - 1 /\ Len(stack) \in Nat
         /\ \A i \in DOMAIN Below : Below[i] = stack[i]
         /\ \A i \in 1 .. Len(stack) - 1 : Below[i] = stack[i]
         /\ \A i \in DOMAIN stack : i \in Nat /\ i > 0
         /\ Below # << >> => Len(Below) \in DOMAIN stack
  <1>1. stack \in Seq(Frames) /\ Len(stack) \in Nat /\ Len(stack) > 0
    BY EmptySeq
  <1>2. \A i \in 1 .. Len(stack) - 1 : stack[i] \in Frames
    BY <1>1
  <1>3. /\ Below \in Seq(Frames) /\ Len(Below) = Len(stack) - 1
        /\ \A i \in 1 .. Len(stack) - 1 : Below[i] = stack[i]
    <2> DEFINE n == Len(stack) - 1
    <2>1. n \in Int /\ n >= 0 /\ 1 \in Int
      BY <1>1
    <2> HIDE DEF n
    <2>2. /\ SubSeq(stack, 1, n) \in Seq(Frames)
          /\ Len(SubSeq(stack, 1, n)) = IF 1 <= n THEN n - 1 + 1 ELSE 0
          /\ \A i \in 1 .. n - 1 + 1 : SubSeq(stack, 1, n)[i] = stack[1 + i - 1]
      <3>1. \A i \in 1 .. n : stack[i] \in Frames
        BY <1>2 DEF n
      <3>2. QED
        BY <2>1, <3>1, SubSeqProperties
    <2>3. /\ SubSeq(stack, 1, n) \in Seq(Frames) /\ Len(SubSeq(stack, 1, n)) = n
          /\ \A i \in 1 .. n : SubSeq(stack, 1, n)[i] = stack[i]
      BY <2>1, <2>2
    <2>4. QED
      BY <2>3 DEF Below, n
  <1>4. DOMAIN stack = 1 .. Len(stack) /\ DOMAIN Below = 1 .. Len(stack) - 1
    BY <1>1, <1>3
  <1>5. Below # << >> => Len(Below) > 0
    BY <1>3, EmptySeq
  <1>6. QED
    BY <1>1, <1>3, <1>4, <1>5 DEF Top

LEMMA Pushing ==
  ASSUME stack \in Seq(Frames), NEW f \in Frames
  PROVE  LET pushed == Append(stack, f)
             n == Len(stack) + 1
         IN  /\ pushed \in Seq(Frames)
             /\ DOMAIN pushed = DOMAIN stack \union {n} /\ n \notin DOMAIN stack
             /\ pushed[n] = f /\ \A i \in DOMAIN stack : pushed[i] = stack[i]
             /\ \A i \in DOMAIN stack : i \in Nat /\ i - 1 \in DOMAIN stack \union {0} /\ i < n
             /\ n > 1 => n - 1 \in DOMAIN stack /\ stack[n - 1] = Top /\ stack # << >>
  BY DEF Top

StackInv == StackMatchesPhases /\ DeliveriesAreRooted

InCall(s) == s \in {"opening", "joining"}

LEMMA StackRests ==
  ASSUME StackInv, UNCHANGED stack,
         \A id \in Consumers : phase'[id] = phase[id] \/ (~InCall(phase[id]) /\ ~InCall(phase'[id])),
         \A i \in DOMAIN stack : stack[i].of \in Consumers
  PROVE  StackInv'
  <1>1. DeliveriesAreRooted'
    BY DEF StackInv, DeliveriesAreRooted
  <1>2. StackMatchesPhases'
    BY DEF StackInv, StackMatchesPhases, OnStack, InCall
  <1>3. QED
    BY <1>1, <1>2 DEF StackInv

CallOf(s) == IF s = "opening" THEN "open" ELSE "joined"

(* A call of a consumer that was in none.                                  *)
LEMMA StackCalls ==
  ASSUME StackInv, TypeOK, NEW id \in Consumers, NEW s \in {"opening", "joining"},
         phase[id] = "new", phase' = [phase EXCEPT ![id] = s],
         stack' = Append(stack, Frame(CallOf(s), id, {}))
  PROVE  StackInv'
  <1> DEFINE f == Frame(CallOf(s), id, {})
             n == Len(stack) + 1
  <1>1. f \in Frames /\ f.op = CallOf(s) /\ f.of = id /\ f.op # "deliver"
    BY DEF Frame, Frames, CallOf
  <1>2. /\ DOMAIN stack' = DOMAIN stack \union {n} /\ n \notin DOMAIN stack
        /\ stack'[n] = f /\ \A i \in DOMAIN stack : stack'[i] = stack[i]
        /\ \A i \in DOMAIN stack : i \in Nat /\ i - 1 \in DOMAIN stack \union {0}
    BY <1>1, Pushing DEF TypeOK
  <1>3. \A i \in DOMAIN stack : stack[i].op # "deliver" => stack[i].of # id
    BY DEF StackInv, StackMatchesPhases, TypeOK, Frames
  <1> HIDE DEF f, n
  <1>4. DeliveriesAreRooted'
    <2> SUFFICES ASSUME NEW i \in DOMAIN stack', stack'[i].op = "deliver"
                 PROVE  /\ stack'[i].rest # {}
                        /\ i > 1 => stack'[i - 1].op = "open" /\ stack'[i - 1].of = stack'[i].of
      BY DEF DeliveriesAreRooted
    <2>1. i \in DOMAIN stack /\ stack'[i] = stack[i]
      BY <1>1, <1>2
    <2>2. i > 1 => i - 1 \in DOMAIN stack
      BY <1>2, <2>1
    <2>3. QED
      BY <1>2, <2>1, <2>2 DEF StackInv, DeliveriesAreRooted
  <1>5. StackMatchesPhases'
    <2>1. \A i \in DOMAIN stack' :
            /\ stack'[i].op = "open" => phase'[stack'[i].of] = "opening"
            /\ stack'[i].op = "joined" => phase'[stack'[i].of] = "joining"
      BY <1>1, <1>2, <1>3 DEF StackInv, StackMatchesPhases, TypeOK, CallOf
    <2>2. \A i, j \in DOMAIN stack' :
            stack'[i].op # "deliver" /\ stack'[i].op = stack'[j].op
              /\ stack'[i].of = stack'[j].of => i = j
      BY <1>1, <1>2, <1>3 DEF StackInv, StackMatchesPhases
    <2>3. \A x \in Consumers :
            /\ phase'[x] = "opening" => OnStack("open", x)'
            /\ phase'[x] = "joining" => OnStack("joined", x)'
      BY <1>1, <1>2 DEF StackInv, StackMatchesPhases, TypeOK, OnStack, CallOf
    <2>4. QED
      BY <2>1, <2>2, <2>3 DEF StackMatchesPhases
  <1>6. QED
    BY <1>4, <1>5 DEF StackInv

(* A report, from the socket or from inside open.                          *)
LEMMA StackDelivers ==
  ASSUME StackInv, TypeOK, NEW e \in Consumers, UNCHANGED phase,
         stack = << >> \/ (On("open") /\ Top.of = e), Delivering(e)
  PROVE  StackInv'
  <1>1. CASE UNCHANGED stack
    BY <1>1 DEF StackInv, StackMatchesPhases, DeliveriesAreRooted, OnStack
  <1>2. CASE consumers[e] # {} /\ stack' = Append(stack, Frame("deliver", e, consumers[e]))
    <2> DEFINE f == Frame("deliver", e, consumers[e])
               n == Len(stack) + 1
    <2>1. f \in Frames /\ f.op = "deliver" /\ f.of = e /\ f.rest # {}
      BY <1>2 DEF Frame, Frames, TypeOK
    <2>2. /\ DOMAIN stack' = DOMAIN stack \union {n} /\ n \notin DOMAIN stack
          /\ stack'[n] = f /\ \A i \in DOMAIN stack : stack'[i] = stack[i]
          /\ \A i \in DOMAIN stack : i \in Nat /\ i - 1 \in DOMAIN stack \union {0} /\ i < n
          /\ n > 1 => n - 1 \in DOMAIN stack /\ stack[n - 1] = Top /\ stack # << >>
      BY <1>2, <2>1, Pushing DEF TypeOK
    <2> HIDE DEF f, n
    <2>3. DeliveriesAreRooted'
      <3> SUFFICES ASSUME NEW i \in DOMAIN stack', stack'[i].op = "deliver"
                   PROVE  /\ stack'[i].rest # {}
                          /\ i > 1 => /\ stack'[i - 1].op = "open"
                                      /\ stack'[i - 1].of = stack'[i].of
        BY DEF DeliveriesAreRooted
      <3>1. CASE i = n
        BY <2>1, <2>2, <3>1 DEF On
      <3>2. CASE i \in DOMAIN stack
        <4>1. i > 1 => i - 1 \in DOMAIN stack
          BY <2>2, <3>2
        <4>2. QED
          BY <2>2, <3>2, <4>1 DEF StackInv, DeliveriesAreRooted
      <3>3. QED
        BY <2>2, <3>1, <3>2
    <2>4. StackMatchesPhases'
      BY <2>1, <2>2 DEF StackInv, StackMatchesPhases, OnStack
    <2>5. QED
      BY <2>3, <2>4 DEF StackInv
  <1>3. QED
    BY <1>1, <1>2 DEF Delivering

(* Frames are taken from the top, and the calls among them end.            *)
LEMMA StackReturns ==
  ASSUME StackInv, TypeOK, NEW m \in Nat, m <= Len(stack), stack' = SubSeq(stack, 1, m),
         phase' \in [Consumers -> Phases],
         \A id \in Consumers :
           IF \E i \in DOMAIN stack : i > m /\ stack[i].op # "deliver" /\ stack[i].of = id
           THEN ~InCall(phase'[id]) ELSE phase'[id] = phase[id]
  PROVE  StackInv'
  <1>1. /\ DOMAIN stack' = {i \in DOMAIN stack : i <= m}
        /\ \A i \in DOMAIN stack' : stack'[i] = stack[i]
        /\ \A i \in DOMAIN stack : i \in Nat /\ i - 1 \in DOMAIN stack \union {0}
        /\ \A i \in DOMAIN stack : stack[i] \in Frames
    BY DEF TypeOK
  <1>2. DeliveriesAreRooted'
    <2> SUFFICES ASSUME NEW i \in DOMAIN stack', stack'[i].op = "deliver"
                 PROVE  /\ stack'[i].rest # {}
                        /\ i > 1 => stack'[i - 1].op = "open" /\ stack'[i - 1].of = stack'[i].of
      BY DEF DeliveriesAreRooted
    <2>1. i \in DOMAIN stack /\ stack'[i] = stack[i]
      BY <1>1
    <2>2. i > 1 => i - 1 \in DOMAIN stack'
      BY <1>1, <2>1
    <2>3. QED
      BY <1>1, <2>1, <2>2 DEF StackInv, DeliveriesAreRooted
  <1>3. \A i \in DOMAIN stack' : stack'[i].op # "deliver" => phase'[stack'[i].of] = phase[stack'[i].of]
    <2> SUFFICES ASSUME NEW i \in DOMAIN stack', stack'[i].op # "deliver",
                        NEW j \in DOMAIN stack, j > m, stack[j].op # "deliver",
                        stack[j].of = stack'[i].of
                 PROVE  FALSE
      BY <1>1 DEF Frames
    <2>1. i \in DOMAIN stack /\ stack'[i] = stack[i] /\ i # j
      BY <1>1
    <2>2. /\ stack[i].op \in {"open", "joined"} /\ stack[j].op \in {"open", "joined"}
      BY <1>1, <2>1 DEF Frames
    <2>3. stack[i].op = stack[j].op
      BY <2>1, <2>2 DEF StackInv, StackMatchesPhases
    <2>4. QED
      BY <2>1, <2>3 DEF StackInv, StackMatchesPhases
  <1>4. StackMatchesPhases'
    <2>1. \A i \in DOMAIN stack' :
            /\ stack'[i].op = "open" => phase'[stack'[i].of] = "opening"
            /\ stack'[i].op = "joined" => phase'[stack'[i].of] = "joining"
      BY <1>1, <1>3 DEF StackInv, StackMatchesPhases
    <2>2. \A i, j \in DOMAIN stack' :
            stack'[i].op # "deliver" /\ stack'[i].op = stack'[j].op
              /\ stack'[i].of = stack'[j].of => i = j
      <3>1. \A i \in DOMAIN stack' : i \in DOMAIN stack /\ stack'[i] = stack[i]
        BY <1>1
      <3>2. QED
        BY <3>1 DEF StackInv, StackMatchesPhases
    <2>3. ASSUME NEW x \in Consumers, InCall(phase'[x])
          PROVE  /\ phase'[x] = "opening" => OnStack("open", x)'
                 /\ phase'[x] = "joining" => OnStack("joined", x)'
      <3>1. /\ phase'[x] = phase[x]
            /\ \A i \in DOMAIN stack : stack[i].op # "deliver" /\ stack[i].of = x => i <= m
        BY <1>1, <2>3
      <3>2. /\ phase[x] = "opening" => OnStack("open", x)
            /\ phase[x] = "joining" => OnStack("joined", x)
        BY DEF StackInv, StackMatchesPhases
      <3>3. QED
        BY <1>1, <3>1, <3>2 DEF OnStack
    <2>4. QED
      BY <2>1, <2>2, <2>3 DEF StackMatchesPhases, InCall
  <1>5. QED
    BY <1>2, <1>4 DEF StackInv

(* The consumer whose call is on top is in that call.                      *)
LEMMA TopCall ==
  ASSUME TypeOK, StackInv, stack # << >>
  PROVE  /\ Top.of \in Consumers
         /\ Top.op = "open" => phase[Top.of] = "opening"
         /\ Top.op = "joined" => phase[Top.of] = "joining"
  <1>1. Len(stack) \in DOMAIN stack /\ Top \in Frames /\ Top = stack[Len(stack)]
    BY Popping DEF TypeOK, Top
  <1>2. QED
    BY <1>1 DEF StackInv, StackMatchesPhases, Frames

(* The frame on top is narrowed, and stays a report to somebody.           *)
LEMMA StackAlike ==
  ASSUME StackInv, UNCHANGED phase, DOMAIN stack' = DOMAIN stack,
         \A i \in DOMAIN stack :
           /\ stack'[i].op = stack[i].op /\ stack'[i].of = stack[i].of
           /\ stack[i].op = "deliver" => stack'[i].rest # {},
         \A i \in DOMAIN stack : i \in Nat /\ i - 1 \in DOMAIN stack \union {0}
  PROVE  StackInv'
  <1>1. DeliveriesAreRooted'
    <2> SUFFICES ASSUME NEW i \in DOMAIN stack, stack'[i].op = "deliver"
                 PROVE  /\ stack'[i].rest # {}
                        /\ i > 1 => stack'[i - 1].op = "open" /\ stack'[i - 1].of = stack'[i].of
      BY DEF DeliveriesAreRooted
    <2>1. i > 1 => i - 1 \in DOMAIN stack
      OBVIOUS
    <2>2. QED
      BY <2>1 DEF StackInv, DeliveriesAreRooted
  <1>2. StackMatchesPhases'
    BY DEF StackInv, StackMatchesPhases, OnStack
  <1>3. QED
    BY <1>1, <1>2 DEF StackInv

--------------------------------------------------------------------------------
(* The entries.                                                            *)

(* Nobody is in an entry that was never made, and who opens one is in it.  *)
EntriesExist ==
  \A id \in Consumers :
    /\ entryOf[id] # None => channelOf[entryOf[id]] # None
    /\ phase[id] = "opening" => entryOf[id] = id

EntryInv ==
  /\ EntriesAreConsistent
  /\ EntriesExist
  /\ RegistryCountsConsumers
  /\ RegisteredIsOpen
  /\ OpenIsRegistered
  /\ DrainedIsTornDown

CallInv == TypeOK /\ StackInv /\ EntryInv

(* A consumer yet to come is in no entry and has made none.                *)
LEMMA FreshConsumer ==
  ASSUME TypeOK, EntryInv, NEW id \in Consumers, id = nextConsumerId
  PROVE  /\ phase[id] = "new" /\ entryOf[id] = None /\ channelOf[id] = None
         /\ vendor[id] = "none" /\ consumers[id] = {} /\ ~handle[id]
         /\ ~Registered(id)
         /\ \A x \in Consumers : entryOf[x] # id /\ id \notin consumers[x]
  <1>1. phase[id] = "new" /\ entryOf[id] = None
    BY ConsumersAreNumbers DEF EntryInv, EntriesAreConsistent
  <1>2. channelOf[id] = None
    BY <1>1, ConsumersAreNumbers DEF EntryInv, EntriesAreConsistent
  <1>3. vendor[id] = "none" /\ consumers[id] = {} /\ ~handle[id] /\ ~Registered(id)
    BY <1>2 DEF EntryInv, EntriesAreConsistent, Registered
  <1>4. \A x \in Consumers : entryOf[x] # id
    BY <1>2, ConsumersAreNumbers DEF EntryInv, EntriesExist
  <1>5. \A x \in Consumers : id \notin consumers[x]
    BY <1>1, ConsumersAreNumbers DEF EntryInv, EntriesAreConsistent
  <1>6. QED
    BY <1>1, <1>2, <1>3, <1>4, <1>5

(* Calls move on within what an entry allows its consumers.                *)
LEMMA EntriesRest ==
  ASSUME EntryInv, TypeOK,
         UNCHANGED <<channels, nextConsumerId, entryOf, channelOf, consumers, vendor, handle,
                     teardown>>,
         \A id \in Consumers :
           \/ phase'[id] = phase[id]
           \/ phase[id] \in {"opening", "joining"} /\ phase'[id] = "ghost"
           \/ phase[id] = "joining" /\ phase'[id] = "held"
  PROVE  EntryInv'
  <1> USE DEF EntryInv, Registered
  <1>1. EntriesAreConsistent'
    <2>1. \A id \in Consumers : id >= nextConsumerId => phase'[id] = "new"
      BY DEF EntriesAreConsistent
    <2>2. ASSUME NEW id \in Consumers
          PROVE  /\ phase'[id] \in {"new", "refused"} <=> phase[id] \in {"new", "refused"}
                 /\ phase[id] \in {"opening", "joining", "held", "ghost"} =>
                      phase'[id] \in {"opening", "joining", "held", "ghost"}
      OBVIOUS
    <2>3. \A e \in Consumers : \A id \in consumers[e] : id \in Consumers
      BY DEF TypeOK
    <2>4. QED
      BY <2>1, <2>2, <2>3 DEF EntriesAreConsistent
  <1>2. EntriesExist'
    BY DEF EntriesExist
  <1>3. RegistryCountsConsumers'
    BY DEF RegistryCountsConsumers
  <1>4. RegisteredIsOpen'
    BY DEF RegisteredIsOpen
  <1>5. OpenIsRegistered' /\ DrainedIsTornDown'
    BY DEF OpenIsRegistered, DrainedIsTornDown
  <1>6. QED
    BY <1>1, <1>2, <1>3, <1>4, <1>5

LEMMA CreateEntries ==
  ASSUME TypeOK, RegistryInv, RegistryInv', EntryInv,
         NEW id \in Consumers, NEW c \in Channels, NEW since \in Sinces, Create(id, c, since)
  PROVE  EntryInv'
  <1> DEFINE old == IF channels[c] = None THEN {} ELSE {channels[c]}
  <1>1. /\ nextConsumerId = id /\ nextConsumerId' = id + 1
        /\ channels' = [channels EXCEPT ![c] = id]
        /\ vendor' = [Closing(old) EXCEPT ![id] = "open"]
        /\ teardown' = teardown \ old
        /\ channelOf' = [channelOf EXCEPT ![id] = c]
        /\ entryOf' = [entryOf EXCEPT ![id] = id]
        /\ consumers' = [consumers EXCEPT ![id] = {id}]
        /\ phase' = [phase EXCEPT ![id] = "opening"]
        /\ UNCHANGED handle
    BY DEF Create, NextId
  <1>2. /\ phase[id] = "new" /\ entryOf[id] = None /\ channelOf[id] = None
        /\ vendor[id] = "none" /\ consumers[id] = {} /\ ~handle[id]
        /\ ~Registered(id)
        /\ \A x \in Consumers : entryOf[x] # id /\ id \notin consumers[x]
    BY <1>1, FreshConsumer
  <1>3. c # None /\ id # None /\ id \in Nat /\ Consumers \subseteq Nat
    BY ConsumersAreNumbers
  <1>4. \A x \in old : x \in Consumers /\ Registered(x) /\ channelOf[x] = c
    BY RegisteredFacts DEF RegistryInv, EntriesKnowTheirChannel
  <1> HIDE DEF old
  <1>5. /\ entryOf'[id] = id /\ channelOf'[id] = c /\ vendor'[id] = "open"
        /\ consumers'[id] = {id} /\ phase'[id] = "opening" /\ handle'[id] = handle[id]
        /\ Registered(id)'
    <2>1. entryOf'[id] = id /\ channelOf'[id] = c /\ channels'[c] = id
      BY <1>1 DEF TypeOK
    <2>2. consumers'[id] = {id} /\ phase'[id] = "opening" /\ handle' = handle
      BY <1>1 DEF TypeOK
    <2>3. vendor'[id] = "open"
      BY <1>1 DEF Closing
    <2>4. QED
      BY <1>3, <2>1, <2>2, <2>3 DEF Registered
  <1>6. \A x \in Consumers : x # id =>
          /\ entryOf'[x] = entryOf[x] /\ channelOf'[x] = channelOf[x]
          /\ consumers'[x] = consumers[x] /\ phase'[x] = phase[x] /\ handle'[x] = handle[x]
          /\ vendor'[x] = IF x \in old /\ handle[x] THEN "closed" ELSE vendor[x]
    BY <1>1 DEF TypeOK, Closing
  <1>7. \A x \in Consumers : x # id => (Registered(x)' <=> Registered(x) /\ x \notin old)
    <2> SUFFICES ASSUME NEW x \in Consumers, x # id
                 PROVE  Registered(x)' <=> Registered(x) /\ x \notin old
      OBVIOUS
    <2>1. CASE channelOf[x] = c
      <3>1. channels'[c] = id
        BY <1>1 DEF TypeOK
      <3>2. Registered(x) => x \in old
        BY <2>1, <1>3, ConsumersAreNumbers DEF Registered, old
      <3>3. QED
        BY <2>1, <1>6, <3>1, <3>2 DEF Registered
    <2>2. CASE channelOf[x] # c
      <3>1. x \notin old
        BY <1>4, <2>2
      <3>2. channelOf[x] # None => channels'[channelOf[x]] = channels[channelOf[x]]
        BY <1>1, <2>2 DEF TypeOK
      <3>3. QED
        BY <1>6, <3>1, <3>2 DEF Registered
    <2>3. QED
      BY <2>1, <2>2
  <1>8. EntriesAreConsistent'
    <2>1. \A d \in Channels : channels'[d] # None => channelOf'[channels'[d]] = d
      BY DEF RegistryInv, EntriesKnowTheirChannel
    <2>2. \A x \in Consumers : x >= nextConsumerId' => phase'[x] = "new"
      BY <1>1, <1>3, <1>6 DEF EntryInv, EntriesAreConsistent
    <2>3. ASSUME NEW x \in Consumers
          PROVE  phase'[x] \in {"new", "refused"} <=> entryOf'[x] = None
      <3>1. CASE x = id
        BY <1>3, <1>5, <3>1
      <3>2. CASE x # id
        BY <1>6, <3>2 DEF EntryInv, EntriesAreConsistent
      <3>3. QED
        BY <3>1, <3>2
    <2>4. ASSUME NEW x \in Consumers
          PROVE  /\ channelOf'[x] # None <=> entryOf'[x] = x
                 /\ channelOf'[x] # None <=> vendor'[x] # "none"
                 /\ vendor'[x] = "none" => consumers'[x] = {} /\ ~handle'[x]
                 /\ \A y \in consumers'[x] :
                      entryOf'[y] = x /\ phase'[y] \in {"opening", "joining", "held", "ghost"}
      <3>1. CASE x = id
        BY <1>3, <1>5, <3>1
      <3>2. CASE x # id
        <4>1. /\ channelOf'[x] # None <=> entryOf'[x] = x
              /\ channelOf'[x] # None <=> vendor'[x] # "none"
              /\ vendor'[x] = "none" => consumers'[x] = {} /\ ~handle'[x]
          BY <1>6, <3>2 DEF EntryInv, EntriesAreConsistent
        <4>2. \A y \in consumers'[x] : y \in Consumers /\ y # id /\ y \in consumers[x]
          BY <1>2, <1>6, <3>2 DEF TypeOK
        <4>3. QED
          BY <1>6, <4>1, <4>2 DEF EntryInv, EntriesAreConsistent
      <3>3. QED
        BY <3>1, <3>2
    <2>5. QED
      BY <2>1, <2>2, <2>3, <2>4 DEF EntriesAreConsistent
  <1>9. EntriesExist'
    <2> SUFFICES ASSUME NEW x \in Consumers
                 PROVE  /\ entryOf'[x] # None => channelOf'[entryOf'[x]] # None
                        /\ phase'[x] = "opening" => entryOf'[x] = x
      BY DEF EntriesExist
    <2>1. CASE x = id
      BY <1>3, <1>5, <2>1
    <2>2. CASE x # id
      <3>1. entryOf[x] # None => entryOf[x] \in Consumers /\ entryOf[x] # id
        BY <1>2 DEF TypeOK
      <3>2. QED
        BY <1>6, <2>2, <3>1 DEF EntryInv, EntriesExist
    <2>3. QED
      BY <2>1, <2>2
  <1>10. RegistryCountsConsumers'
    <2> SUFFICES ASSUME NEW x \in Consumers, entryOf'[x] # None, Registered(entryOf[x])',
                        phase'[x] # "released"
                 PROVE  x \in consumers'[entryOf'[x]]
      BY DEF RegistryCountsConsumers
    <2>1. CASE x = id
      BY <1>5, <2>1
    <2>2. CASE x # id
      <3>1. entryOf'[x] = entryOf[x] /\ entryOf[x] \in Consumers /\ entryOf[x] # id
        BY <1>2, <1>6, <2>2 DEF TypeOK
      <3>2. PICK e \in Consumers : e = entryOf[x] /\ e = entryOf'[x] /\ e # id
        BY <3>1
      <3>3. Registered(e)'
        BY <3>2 DEF Registered
      <3>4. Registered(e)
        BY <1>7, <3>2, <3>3
      <3>5. QED
        BY <1>6, <2>2, <3>2, <3>4 DEF EntryInv, RegistryCountsConsumers
    <2>3. QED
      BY <2>1, <2>2
  <1>11. RegisteredIsOpen'
    <2> SUFFICES ASSUME NEW x \in Consumers, Registered(x)'
                 PROVE  /\ vendor'[x] = "open"
                        /\ ~handle'[x] => phase'[x] \in {"opening", "ghost"}
      BY DEF RegisteredIsOpen
    <2>1. QED
      BY <1>5, <1>6, <1>7 DEF EntryInv, RegisteredIsOpen
  <1>12. OpenIsRegistered'
    <2> SUFFICES ASSUME NEW x \in Consumers, vendor'[x] = "open"
                 PROVE  Registered(x)' \/ (phase'[x] \in {"opening", "ghost"} /\ ~handle'[x])
      BY DEF OpenIsRegistered
    <2>1. CASE x # id /\ Registered(x)
      BY <1>6, <1>7, <2>1 DEF EntryInv, RegisteredIsOpen
    <2>2. CASE x # id /\ ~Registered(x)
      BY <1>4, <1>6, <2>2 DEF EntryInv, OpenIsRegistered
    <2>3. QED
      BY <1>5, <2>1, <2>2
  <1>13. DrainedIsTornDown'
    <2> SUFFICES ASSUME NEW x \in Consumers, Registered(x)', consumers'[x] = {}
                 PROVE  x \in teardown'
      BY DEF DrainedIsTornDown
    <2>1. QED
      BY <1>1, <1>5, <1>6, <1>7 DEF EntryInv, DrainedIsTornDown
  <1>14. QED
    BY <1>8, <1>9, <1>10, <1>11, <1>12, <1>13 DEF EntryInv

LEMMA JoinEntries ==
  ASSUME TypeOK, RegistryInv, EntryInv,
         NEW id \in Consumers, NEW c \in Channels, NEW since \in Sinces, Join(id, c, since)
  PROVE  EntryInv'
  <1>1. PICK e \in Consumers : e = channels[c] /\ Registered(e)
    BY RegisteredFacts DEF Join
  <1>2. /\ phase[id] = "new" /\ entryOf[id] = None /\ channelOf[id] = None
        /\ vendor[id] = "none" /\ consumers[id] = {} /\ ~handle[id]
        /\ ~Registered(id)
        /\ \A x \in Consumers : entryOf[x] # id /\ id \notin consumers[x]
    BY FreshConsumer DEF Join, NextId
  <1>3. /\ id # None /\ e # None /\ e # id /\ id \in Nat /\ Consumers \subseteq Nat
        /\ channelOf[e] # None /\ vendor[e] # "none"
    BY <1>1, <1>2, ConsumersAreNumbers DEF Registered, EntryInv, RegisteredIsOpen
  <1>4. /\ nextConsumerId = id /\ nextConsumerId' = id + 1
        /\ teardown' = teardown \ {e}
        /\ entryOf' = [entryOf EXCEPT ![id] = e]
        /\ consumers' = [consumers EXCEPT ![e] = @ \union {id}]
        /\ UNCHANGED <<channels, channelOf, vendor, handle>>
    BY <1>1 DEF Join, NextId
  <1>5. PICK s \in {"joining", "held"} : phase' = [phase EXCEPT ![id] = s]
    BY DEF Join
  <1>6. /\ entryOf'[id] = e /\ phase'[id] = s
        /\ consumers'[e] = consumers[e] \union {id}
        /\ \A x \in Consumers : x # id => entryOf'[x] = entryOf[x] /\ phase'[x] = phase[x]
        /\ \A x \in Consumers : x # e => consumers'[x] = consumers[x]
        /\ \A x \in Consumers : Registered(x)' <=> Registered(x)
    BY <1>4, <1>5 DEF TypeOK, Registered
  <1>7. EntriesAreConsistent'
    <2>1. \A d \in Channels : channels'[d] # None => channelOf'[channels'[d]] = d
      BY <1>4 DEF EntryInv, EntriesAreConsistent
    <2>2. \A x \in Consumers : x >= nextConsumerId' => phase'[x] = "new"
      BY <1>3, <1>4, <1>6 DEF EntryInv, EntriesAreConsistent
    <2>3. ASSUME NEW x \in Consumers
          PROVE  phase'[x] \in {"new", "refused"} <=> entryOf'[x] = None
      <3>1. CASE x = id
        BY <1>3, <1>5, <1>6, <3>1
      <3>2. CASE x # id
        BY <1>6, <3>2 DEF EntryInv, EntriesAreConsistent
      <3>3. QED
        BY <3>1, <3>2
    <2>4. ASSUME NEW x \in Consumers
          PROVE  /\ channelOf'[x] # None <=> entryOf'[x] = x
                 /\ channelOf'[x] # None <=> vendor'[x] # "none"
                 /\ vendor'[x] = "none" => consumers'[x] = {} /\ ~handle'[x]
                 /\ \A y \in consumers'[x] :
                      entryOf'[y] = x /\ phase'[y] \in {"opening", "joining", "held", "ghost"}
      <3>1. channelOf'[x] # None <=> entryOf'[x] = x
        BY <1>2, <1>3, <1>4, <1>6 DEF EntryInv, EntriesAreConsistent
      <3>2. /\ channelOf'[x] # None <=> vendor'[x] # "none"
            /\ vendor'[x] = "none" => consumers'[x] = {} /\ ~handle'[x]
        BY <1>3, <1>4, <1>6 DEF EntryInv, EntriesAreConsistent
      <3>3. ASSUME NEW y \in consumers'[x]
            PROVE  entryOf'[y] = x /\ phase'[y] \in {"opening", "joining", "held", "ghost"}
        <4>1. CASE y = id
          BY <1>2, <1>5, <1>6, <3>3, <4>1
        <4>2. CASE y # id
          <5>1. y \in consumers[x] /\ y \in Consumers
            BY <1>6, <3>3, <4>2 DEF TypeOK
          <5>2. QED
            BY <1>6, <4>2, <5>1 DEF EntryInv, EntriesAreConsistent
        <4>3. QED
          BY <4>1, <4>2
      <3>4. QED
        BY <3>1, <3>2, <3>3
    <2>5. QED
      BY <2>1, <2>2, <2>3, <2>4 DEF EntriesAreConsistent
  <1>8. EntriesExist'
    BY <1>3, <1>4, <1>5, <1>6 DEF EntryInv, EntriesExist
  <1>9. RegistryCountsConsumers'
    <2> SUFFICES ASSUME NEW x \in Consumers, entryOf'[x] # None, Registered(entryOf[x])',
                        phase'[x] # "released"
                 PROVE  x \in consumers'[entryOf'[x]]
      BY DEF RegistryCountsConsumers
    <2>1. CASE x = id
      BY <1>6, <2>1
    <2>2. CASE x # id
      <3>1. PICK d \in Consumers : d = entryOf[x] /\ d = entryOf'[x]
        BY <1>6, <2>2 DEF TypeOK
      <3>2. Registered(d)
        BY <1>4, <3>1 DEF Registered
      <3>3. x \in consumers[d]
        BY <1>6, <2>2, <3>1, <3>2 DEF EntryInv, RegistryCountsConsumers
      <3>4. QED
        BY <1>6, <3>1, <3>3
    <2>3. QED
      BY <2>1, <2>2
  <1>10. RegisteredIsOpen'
    BY <1>2, <1>4, <1>6 DEF EntryInv, RegisteredIsOpen
  <1>11. OpenIsRegistered'
    BY <1>2, <1>4, <1>6 DEF EntryInv, OpenIsRegistered
  <1>12. DrainedIsTornDown'
    BY <1>4, <1>6 DEF EntryInv, DrainedIsTornDown
  <1>13. QED
    BY <1>7, <1>8, <1>9, <1>10, <1>11, <1>12 DEF EntryInv

LEMMA RefuseEntries ==
  ASSUME TypeOK, EntryInv,
         NEW id \in Consumers, NEW c \in Channels, NEW since \in Sinces, Refuse(id, c, since)
  PROVE  EntryInv'
  <1>1. /\ nextConsumerId = id /\ nextConsumerId' = id + 1
        /\ phase' = [phase EXCEPT ![id] = "refused"]
        /\ UNCHANGED <<channels, entryOf, channelOf, consumers, vendor, handle, teardown>>
    BY DEF Refuse, NextId
  <1>2. /\ phase[id] = "new" /\ entryOf[id] = None /\ vendor[id] = "none" /\ ~Registered(id)
        /\ \A x \in Consumers : id \notin consumers[x]
        /\ id \in Nat /\ Consumers \subseteq Nat
    BY <1>1, FreshConsumer, ConsumersAreNumbers
  <1>3. /\ phase'[id] = "refused"
        /\ \A x \in Consumers : x # id => phase'[x] = phase[x]
        /\ \A x \in Consumers : Registered(x)' <=> Registered(x)
    BY <1>1 DEF TypeOK, Registered
  <1>4. EntriesAreConsistent'
    <2>1. \A x \in Consumers : x >= nextConsumerId' => phase'[x] = "new"
      BY <1>1, <1>2, <1>3 DEF EntryInv, EntriesAreConsistent
    <2>2. \A x \in Consumers : phase'[x] \in {"new", "refused"} <=> entryOf'[x] = None
      BY <1>1, <1>2, <1>3 DEF EntryInv, EntriesAreConsistent
    <2>3. \A x \in Consumers : \A y \in consumers[x] : y \in Consumers /\ phase'[y] = phase[y]
      BY <1>2, <1>3 DEF TypeOK
    <2>4. QED
      BY <1>1, <2>1, <2>2, <2>3 DEF EntryInv, EntriesAreConsistent
  <1>5. EntriesExist'
    BY <1>1, <1>3 DEF EntryInv, EntriesExist
  <1>6. RegistryCountsConsumers'
    BY <1>1, <1>2, <1>3 DEF EntryInv, RegistryCountsConsumers, Registered
  <1>7. RegisteredIsOpen' /\ OpenIsRegistered' /\ DrainedIsTornDown'
    BY <1>1, <1>2, <1>3 DEF EntryInv, RegisteredIsOpen, OpenIsRegistered, DrainedIsTornDown
  <1>8. QED
    BY <1>4, <1>5, <1>6, <1>7 DEF EntryInv

LEMMA OpenReturnsEntries ==
  ASSUME TypeOK, StackInv, EntryInv, OpenReturns
  PROVE  EntryInv'
  <1>1. PICK e \in Consumers : e = Top.of /\ phase[e] = "opening" /\ entryOf[e] = e
    BY TopCall DEF OpenReturns, On, EntryInv, EntriesExist
  <1>2. /\ phase' = [phase EXCEPT ![e] = "held"]
        /\ IF Registered(e)
           THEN handle' = [handle EXCEPT ![e] = TRUE] /\ UNCHANGED vendor
           ELSE vendor' = [vendor EXCEPT ![e] = "closed"] /\ UNCHANGED handle
        /\ UNCHANGED <<channels, nextConsumerId, entryOf, channelOf, consumers, teardown>>
    BY <1>1 DEF OpenReturns
  <1>3. /\ phase'[e] = "held"
        /\ \A x \in Consumers : x # e =>
             phase'[x] = phase[x] /\ handle'[x] = handle[x] /\ vendor'[x] = vendor[x]
        /\ \A x \in Consumers : Registered(x)' <=> Registered(x)
        /\ Registered(e) => handle'[e] /\ vendor'[e] = vendor[e]
        /\ ~Registered(e) => handle'[e] = handle[e] /\ vendor'[e] = "closed"
    <2>1. phase'[e] = "held" /\ \A x \in Consumers : x # e => phase'[x] = phase[x]
      BY <1>2 DEF TypeOK
    <2>2. \A x \in Consumers : Registered(x)' <=> Registered(x)
      BY <1>2 DEF Registered
    <2>3. CASE Registered(e)
      BY <1>2, <2>1, <2>2, <2>3 DEF TypeOK
    <2>4. CASE ~Registered(e)
      BY <1>2, <2>1, <2>2, <2>4 DEF TypeOK
    <2>5. QED
      BY <2>3, <2>4
  <1>4. channelOf[e] # None /\ vendor[e] # "none" /\ (Registered(e) => vendor[e] = "open")
    BY <1>1, ConsumersAreNumbers DEF EntryInv, EntriesAreConsistent, RegisteredIsOpen
  <1>5. EntriesAreConsistent'
    <2>1. \A x \in Consumers :
            /\ phase'[x] \in {"new", "refused"} <=> phase[x] \in {"new", "refused"}
            /\ phase[x] = "new" => phase'[x] = "new"
            /\ phase[x] \in {"opening", "joining", "held", "ghost"} =>
                 phase'[x] \in {"opening", "joining", "held", "ghost"}
            /\ vendor'[x] # "none" <=> vendor[x] # "none"
            /\ vendor'[x] = "none" => x # e /\ handle'[x] = handle[x]
      BY <1>1, <1>3, <1>4
    <2>2. \A x \in Consumers : \A y \in consumers[x] : y \in Consumers
      BY DEF TypeOK
    <2>3. QED
      BY <1>2, <2>1, <2>2 DEF EntryInv, EntriesAreConsistent
  <1>6. EntriesExist'
    BY <1>2, <1>3 DEF EntryInv, EntriesExist
  <1>7. RegistryCountsConsumers'
    BY <1>1, <1>2, <1>3 DEF EntryInv, RegistryCountsConsumers, Registered
  <1>8. RegisteredIsOpen'
    BY <1>3, <1>4 DEF EntryInv, RegisteredIsOpen
  <1>9. OpenIsRegistered'
    BY <1>3, <1>4 DEF EntryInv, OpenIsRegistered
  <1>10. DrainedIsTornDown'
    BY <1>2, <1>3 DEF EntryInv, DrainedIsTornDown
  <1>11. QED
    BY <1>5, <1>6, <1>7, <1>8, <1>9, <1>10 DEF EntryInv

LEMMA UnsubscribeEntries ==
  ASSUME TypeOK, EntryInv, NEW id \in Consumers, Unsubscribe(id)
  PROVE  EntryInv'
  <1>1. PICK e \in Consumers : e = entryOf[id] /\ phase[id] = "held"
    BY DEF Unsubscribe, TypeOK, EntryInv, EntriesAreConsistent
  <1>2. /\ phase' = [phase EXCEPT ![id] = "released"]
        /\ consumers' = [consumers EXCEPT ![e] = @ \ {id}]
        /\ teardown' = IF Registered(e) /\ consumers[e] \ {id} = {}
                       THEN teardown \union {e} ELSE teardown
        /\ UNCHANGED <<channels, nextConsumerId, entryOf, channelOf, vendor, handle>>
    BY <1>1 DEF Unsubscribe
  <1>3. /\ phase'[id] = "released" /\ consumers'[e] = consumers[e] \ {id}
        /\ \A x \in Consumers : x # id => phase'[x] = phase[x]
        /\ \A x \in Consumers : x # e => consumers'[x] = consumers[x]
        /\ \A x \in Consumers : Registered(x)' <=> Registered(x)
        /\ \A x \in Consumers : id \in consumers[x] => x = e
    BY <1>1, <1>2 DEF TypeOK, Registered, EntryInv, EntriesAreConsistent
  <1>4. EntriesAreConsistent'
    <2>1. \A x \in Consumers :
            /\ phase'[x] \in {"new", "refused"} <=> phase[x] \in {"new", "refused"}
            /\ phase[x] = "new" => phase'[x] = "new"
      BY <1>1, <1>3
    <2>2. \A x \in Consumers : \A y \in consumers'[x] :
            y \in Consumers /\ y \in consumers[x] /\ phase'[y] = phase[y]
      BY <1>3 DEF TypeOK
    <2>3. \A x \in Consumers : consumers[x] = {} => consumers'[x] = {}
      BY <1>3
    <2>4. QED
      BY <1>2, <2>1, <2>2, <2>3 DEF EntryInv, EntriesAreConsistent
  <1>5. EntriesExist'
    BY <1>2, <1>3 DEF EntryInv, EntriesExist
  <1>6. RegistryCountsConsumers'
    <2> SUFFICES ASSUME NEW x \in Consumers, entryOf[x] # None, Registered(entryOf[x])',
                        phase'[x] # "released"
                 PROVE  x \in consumers'[entryOf[x]]
      BY <1>2 DEF RegistryCountsConsumers
    <2>1. PICK d \in Consumers : d = entryOf[x]
      BY DEF TypeOK
    <2>2. x # id /\ Registered(entryOf[x])
      BY <1>2, <1>3 DEF Registered
    <2>3. x \in consumers[entryOf[x]]
      BY <1>3, <2>2 DEF EntryInv, RegistryCountsConsumers
    <2>4. QED
      BY <1>3, <2>1, <2>2, <2>3
  <1>7. RegisteredIsOpen'
    BY <1>1, <1>2, <1>3 DEF EntryInv, RegisteredIsOpen
  <1>8. OpenIsRegistered'
    BY <1>1, <1>2, <1>3 DEF EntryInv, OpenIsRegistered
  <1>9. DrainedIsTornDown'
    BY <1>1, <1>2, <1>3 DEF EntryInv, DrainedIsTornDown
  <1>10. QED
    BY <1>4, <1>5, <1>6, <1>7, <1>8, <1>9 DEF EntryInv

(* Entries are reaped: those of a disconnect, or the one torn down.        *)
LEMMA ReapEntries ==
  ASSUME TypeOK, RegistryInv, RegistryInv', EntryInv, NEW E \in SUBSET Consumers,
         \A x \in Consumers : Registered(x)' <=> Registered(x) /\ x \notin E,
         \A x \in E : Registered(x),
         \A x \in Consumers : consumers'[x] = consumers[x] \/ (x \in E /\ consumers'[x] = {}),
         vendor' = Closing(E), teardown' = teardown \ E,
         UNCHANGED <<nextConsumerId, phase, entryOf, channelOf, handle>>
  PROVE  EntryInv'
  <1>1. \A x \in Consumers :
          vendor'[x] = IF x \in E /\ handle[x] THEN "closed" ELSE vendor[x]
    BY DEF Closing
  <1>2. EntriesAreConsistent'
    <2>1. \A d \in Channels : channels'[d] # None => channelOf'[channels'[d]] = d
      BY DEF RegistryInv, EntriesKnowTheirChannel
    <2>2. ASSUME NEW x \in Consumers
          PROVE  /\ channelOf'[x] # None <=> entryOf'[x] = x
                 /\ channelOf'[x] # None <=> vendor'[x] # "none"
                 /\ vendor'[x] = "none" => consumers'[x] = {} /\ ~handle'[x]
                 /\ \A y \in consumers'[x] :
                      entryOf'[y] = x /\ phase'[y] \in {"opening", "joining", "held", "ghost"}
      BY <1>1 DEF EntryInv, EntriesAreConsistent
    <2>3. QED
      BY <2>1, <2>2 DEF EntryInv, EntriesAreConsistent
  <1>3. EntriesExist'
    BY DEF EntryInv, EntriesExist
  <1>4. RegistryCountsConsumers'
    <2> SUFFICES ASSUME NEW x \in Consumers, entryOf[x] # None, Registered(entryOf[x])',
                        phase[x] # "released"
                 PROVE  x \in consumers'[entryOf[x]]
      BY DEF RegistryCountsConsumers
    <2>1. PICK d \in Consumers : d = entryOf[x] /\ d = entryOf'[x]
      BY DEF TypeOK
    <2>2. Registered(d)'
      BY <2>1 DEF Registered
    <2>3. Registered(d) /\ d \notin E
      BY <2>1, <2>2
    <2>4. QED
      BY <2>1, <2>3 DEF EntryInv, RegistryCountsConsumers
  <1>5. RegisteredIsOpen'
    BY <1>1 DEF EntryInv, RegisteredIsOpen
  <1>6. OpenIsRegistered'
    <2> SUFFICES ASSUME NEW x \in Consumers, vendor'[x] = "open"
                 PROVE  Registered(x)' \/ (phase[x] \in {"opening", "ghost"} /\ ~handle[x])
      BY DEF OpenIsRegistered
    <2>1. CASE x \in E
      BY <1>1, <2>1 DEF EntryInv, RegisteredIsOpen
    <2>2. CASE x \notin E
      BY <1>1, <2>2 DEF EntryInv, OpenIsRegistered
    <2>3. QED
      BY <2>1, <2>2
  <1>7. DrainedIsTornDown'
    BY DEF EntryInv, DrainedIsTornDown
  <1>8. QED
    BY <1>2, <1>3, <1>4, <1>5, <1>6, <1>7 DEF EntryInv

LEMMA ResetEntries ==
  ASSUME TypeOK, RegistryInv, RegistryInv', EntryInv, Reset
  PROVE  EntryInv'
  <1> DEFINE E == {e \in Consumers : Registered(e)}
  <1>1. /\ channels' = [c \in Channels |-> None]
        /\ consumers' = [e \in Consumers |-> IF e \in E THEN {} ELSE consumers[e]]
        /\ vendor' = Closing(E) /\ teardown' = teardown \ E
        /\ UNCHANGED <<nextConsumerId, phase, entryOf, channelOf, handle>>
    BY DEF Reset
  <1>2. \A x \in Consumers : ~Registered(x)'
    BY <1>1, ConsumersAreNumbers DEF TypeOK, Registered
  <1>3. E \in SUBSET Consumers /\ \A x \in Consumers : Registered(x) <=> x \in E
    OBVIOUS
  <1> HIDE DEF E
  <1>4. QED
    BY <1>1, <1>2, <1>3, ReapEntries

LEMMA TeardownEntries ==
  ASSUME TypeOK, RegistryInv, RegistryInv', EntryInv, NEW e \in Consumers, Teardown(e)
  PROVE  EntryInv'
  <1>1. /\ teardown' = teardown \ {e}
        /\ UNCHANGED <<nextConsumerId, phase, entryOf, channelOf, consumers, handle>>
    BY DEF Teardown
  <1>2. CASE consumers[e] = {} /\ Registered(e)
    <2>1. channels' = [channels EXCEPT ![channelOf[e]] = None] /\ vendor' = Closing({e})
      BY <1>2 DEF Teardown
    <2>2. ASSUME NEW x \in Consumers PROVE Registered(x)' <=> Registered(x) /\ x # e
      <3>1. e # None /\ channelOf[e] \in Channels /\ channels[channelOf[e]] = e
        BY <1>2, RegisteredFacts, ConsumersAreNumbers
      <3>2. CASE channelOf[x] = channelOf[e]
        BY <1>1, <2>1, <3>1, <3>2, ConsumersAreNumbers DEF Registered, TypeOK
      <3>3. CASE channelOf[x] # channelOf[e]
        BY <1>1, <2>1, <3>1, <3>3, ConsumersAreNumbers DEF Registered, TypeOK
      <3>4. QED
        BY <3>2, <3>3
    <2>3. QED
      BY <1>1, <1>2, <2>1, <2>2, ReapEntries
  <1>3. CASE ~(consumers[e] = {} /\ Registered(e))
    <2>1. UNCHANGED <<channels, vendor>>
      BY <1>3 DEF Teardown
    <2>2. \A x \in Consumers : Registered(x)' <=> Registered(x)
      BY <1>1, <2>1 DEF Registered
    <2>3. DrainedIsTornDown'
      BY <1>1, <1>3, <2>2 DEF EntryInv, DrainedIsTornDown
    <2>4. QED
      BY <1>1, <2>1, <2>2, <2>3
         DEF EntryInv, EntriesAreConsistent, EntriesExist, RegistryCountsConsumers,
             RegisteredIsOpen, OpenIsRegistered, Registered
  <1>4. QED
    BY <1>2, <1>3

--------------------------------------------------------------------------------
(* Every step.                                                             *)

LEMMA NextTypes == ASSUME CallInv, Next PROVE TypeOK'
  <1>0. /\ TypeOK /\ nextConsumerId \in Nat /\ Consumers \subseteq Nat /\ MaxConsumers \in Nat
        /\ \A id \in Consumers : id + 1 \in 1 .. MaxConsumers + 1
    BY FanoutAssumption DEF CallInv, TypeOK, Consumers
  <1> USE DEF TypeOK
  <1>1. ASSUME NEW id \in Consumers, NEW c \in Channels, NEW since \in Sinces,
               Create(id, c, since)
        PROVE  TypeOK'
    <2> DEFINE old == IF channels[c] = None THEN {} ELSE {channels[c]}
    <2>1. vendor' = [Closing(old) EXCEPT ![id] = "open"] /\ teardown' = teardown \ old
      BY <1>1 DEF Create
    <2>2. Closing(old) \in [Consumers -> {"none", "open", "closed"}]
      BY <1>0 DEF Closing
    <2> HIDE DEF old
    <2>3. vendor' \in [Consumers -> {"none", "open", "closed"}] /\ teardown' \subseteq Consumers
      BY <1>0, <2>1, <2>2
    <2>4. Frame("open", id, {}) \in Frames
      BY DEF Frame, Frames
    <2>5. stack' \in Seq(Frames)
      BY <1>0, <1>1, <2>4 DEF Create
    <2>6. /\ channels' \in [Channels -> Consumers \union {None}]
          /\ nextConsumerId' \in 1 .. MaxConsumers + 1
          /\ phase' \in [Consumers -> Phases]
          /\ entryOf' \in [Consumers -> Consumers \union {None}]
      BY <1>0, <1>1 DEF Create, NextId, Phases
    <2>7. /\ channelOf' \in [Consumers -> Channels \union {None}]
          /\ openedSince' \in [Consumers -> Sinces \union {None}]
          /\ consumers' \in [Consumers -> SUBSET Consumers]
          /\ handle' \in [Consumers -> BOOLEAN] /\ lastContext' \in [Consumers -> BOOLEAN]
      BY <1>0, <1>1 DEF Create
    <2>8. QED
      BY <2>3, <2>5, <2>6, <2>7
  <1>2. ASSUME NEW id \in Consumers, NEW c \in Channels, NEW since \in Sinces,
               Join(id, c, since)
        PROVE  TypeOK'
    <2>1. PICK e \in Consumers : e = channels[c]
      BY <1>0, <1>2 DEF Join
    <2>2. Frame("joined", id, {}) \in Frames
      BY DEF Frame, Frames
    <2>3. stack' \in Seq(Frames)
      <3>1. stack' = stack \/ stack' = Append(stack, Frame("joined", id, {}))
        BY <1>2 DEF Join
      <3>2. QED
        BY <1>0, <2>2, <3>1
    <2>4. /\ nextConsumerId' \in 1 .. MaxConsumers + 1
          /\ phase' \in [Consumers -> Phases]
          /\ entryOf' \in [Consumers -> Consumers \union {None}]
          /\ consumers' \in [Consumers -> SUBSET Consumers]
          /\ teardown' \subseteq Consumers
      BY <1>0, <1>2, <2>1 DEF Join, NextId, Phases
    <2>5. QED
      BY <1>0, <1>2, <2>3, <2>4 DEF Join
  <1>3. ASSUME NEW id \in Consumers, NEW c \in Channels, NEW since \in Sinces,
               Refuse(id, c, since)
        PROVE  TypeOK'
    BY <1>0, <1>3 DEF Refuse, NextId, Phases
  <1>4. ASSUME stack # << >>
        PROVE  /\ Top \in Frames /\ Top.of \in Consumers /\ Below \in Seq(Frames)
               /\ Top.op = "deliver" /\ Below # << >> => Below[Len(Below)].of \in Consumers
               /\ SubSeq(stack, 1, Len(stack) - 1) \in Seq(Frames)
               /\ Below # << >> => SubSeq(stack, 1, Len(stack) - 2) \in Seq(Frames)
    <2>1. /\ Below \in Seq(Frames) /\ Top \in Frames /\ Len(Below) = Len(stack) - 1
          /\ Below # << >> => Len(Below) \in DOMAIN stack /\ Below[Len(Below)] \in Frames
      BY <1>0, <1>4, Popping, EmptySeq
    <2>2. Below # << >> => SubSeq(stack, 1, Len(stack) - 2) \in Seq(Frames)
      <3>1. \A i \in 1 .. Len(stack) - 2 : stack[i] \in Frames
        BY <1>0
      <3>2. QED
        BY <1>0, <3>1, SubSeqProperties
    <2>3. QED
      BY <2>1, <2>2 DEF Below, Frames
  <1>5. CASE OpenReturns
    BY <1>0, <1>4, <1>5 DEF OpenReturns, On, Phases
  <1>6. ASSUME NEW id \in Consumers, Unsubscribe(id) PROVE TypeOK'
    <2>1. PICK e \in Consumers \union {None} : e = entryOf[id]
      BY <1>0
    <2>2. e \in Consumers
      BY <1>6, <2>1 DEF Unsubscribe, CallInv, EntryInv, EntriesAreConsistent
    <2>3. QED
      BY <1>0, <1>6, <2>1, <2>2 DEF Unsubscribe, Phases
  <1>7. CASE Reset
    BY <1>0, <1>7 DEF Reset, Closing
  <1>8. ASSUME NEW e \in Consumers, Teardown(e) PROVE TypeOK'
    BY <1>0, <1>8 DEF Teardown, Closing
  <1>9. ASSUME NEW e \in Consumers, Subscribed(e) \/ Publication(e) PROVE TypeOK'
    <2>1. Frame("deliver", e, consumers[e]) \in Frames
      BY <1>0 DEF Frame, Frames
    <2>2. stack' \in Seq(Frames)
      <3>1. stack' = stack \/ stack' = Append(stack, Frame("deliver", e, consumers[e]))
        BY <1>9 DEF Subscribed, Publication, Delivering
      <3>2. QED
        BY <1>0, <2>1, <3>1
    <2>3. QED
      BY <1>0, <1>9, <2>2 DEF Subscribed, Publication
  <1>10. CASE HandlerReturns
    <2>1. [Top EXCEPT !.rest = @ \ {Called}] \in Frames
      BY <1>4, <1>10 DEF HandlerReturns, On, Frames
    <2>2. stack' \in Seq(Frames)
      BY <1>4, <1>10, <2>1 DEF HandlerReturns, On
    <2>3. QED
      BY <1>0, <1>10, <2>2 DEF HandlerReturns
  <1>11. CASE JoinReturns
    BY <1>0, <1>4, <1>11 DEF JoinReturns, On, Phases
  <1>12. CASE HandlerThrows
    BY <1>0, <1>4, <1>12 DEF HandlerThrows, On, Phases
  <1>13. QED
    BY <1>1, <1>2, <1>3, <1>5, <1>6, <1>7, <1>8, <1>9, <1>10, <1>11, <1>12 DEF Next

LEMMA NextStack == ASSUME CallInv, Next PROVE StackInv'
  <1>0. TypeOK /\ TypeOK' /\ StackInv
    BY NextTypes DEF CallInv
  <1>r. /\ \A i \in DOMAIN stack :
             stack[i] \in Frames /\ stack[i].of \in Consumers /\ i \in Nat
               /\ i - 1 \in DOMAIN stack \union {0}
        /\ DOMAIN stack = 1 .. Len(stack) /\ Len(stack) \in Nat
    BY <1>0 DEF TypeOK, Frames
  <1>t. ASSUME stack # << >>
        PROVE  /\ Len(stack) - 1 \in Nat /\ Len(stack) \in DOMAIN stack
               /\ Below = SubSeq(stack, 1, Len(stack) - 1)
               /\ Top = stack[Len(stack)] /\ Top.of \in Consumers
               /\ \A i \in DOMAIN stack : i > Len(stack) - 1 => i = Len(stack)
    BY <1>0, <1>r, <1>t, Popping DEF TypeOK, Below, Top
  <1>1. ASSUME NEW id \in Consumers, NEW c \in Channels, NEW since \in Sinces,
               Create(id, c, since)
        PROVE  StackInv'
    <2>1. /\ phase[id] = "new" /\ phase' = [phase EXCEPT ![id] = "opening"]
          /\ stack' = Append(stack, Frame("open", id, {}))
      BY <1>0, <1>1, FreshConsumer DEF Create, NextId, CallInv
    <2>2. CallOf("opening") = "open"
      BY DEF CallOf
    <2>3. QED
      BY <1>0, <2>1, <2>2, StackCalls
  <1>2. ASSUME NEW id \in Consumers, NEW c \in Channels, NEW since \in Sinces,
               Join(id, c, since)
        PROVE  StackInv'
    <2>1. phase[id] = "new"
      BY <1>0, <1>2, FreshConsumer DEF Join, NextId, CallInv
    <2>2. CASE lastContext[channels[c]]
      <3>1. /\ phase' = [phase EXCEPT ![id] = "joining"]
            /\ stack' = Append(stack, Frame("joined", id, {}))
        BY <1>2, <2>2 DEF Join
      <3>2. CallOf("joining") = "joined"
        BY DEF CallOf
      <3>3. QED
        BY <1>0, <2>1, <3>1, <3>2, StackCalls
    <2>3. CASE ~lastContext[channels[c]]
      <3>1. phase' = [phase EXCEPT ![id] = "held"] /\ UNCHANGED stack
        BY <1>2, <2>3 DEF Join
      <3>2. \A x \in Consumers :
              phase'[x] = phase[x] \/ (~InCall(phase[x]) /\ ~InCall(phase'[x]))
        BY <1>0, <2>1, <3>1 DEF TypeOK, InCall
      <3>3. QED
        BY <1>0, <1>r, <3>1, <3>2, StackRests
    <2>4. QED
      BY <2>2, <2>3
  <1>3. ASSUME NEW id \in Consumers,
               \/ Unsubscribe(id)
               \/ \E c \in Channels, since \in Sinces : Refuse(id, c, since)
        PROVE  StackInv'
    <2>1. /\ phase[id] \in {"new", "held"} /\ UNCHANGED stack
          /\ \/ phase' = [phase EXCEPT ![id] = "released"]
             \/ phase' = [phase EXCEPT ![id] = "refused"]
      BY <1>0, <1>3, FreshConsumer DEF Unsubscribe, Refuse, NextId, CallInv
    <2>2. \A x \in Consumers :
            phase'[x] = phase[x] \/ (~InCall(phase[x]) /\ ~InCall(phase'[x]))
      BY <1>0, <2>1 DEF TypeOK, InCall
    <2>3. QED
      BY <1>0, <1>r, <2>1, <2>2, StackRests
  <1>4. ASSUME UNCHANGED <<phase, stack>> PROVE StackInv'
    BY <1>0, <1>r, <1>4, StackRests
  <1>5. ASSUME NEW e \in Consumers, Subscribed(e) \/ Publication(e) PROVE StackInv'
    <2>1. /\ UNCHANGED phase /\ Delivering(e)
          /\ stack = << >> \/ (On("open") /\ Top.of = e)
      BY <1>5 DEF Subscribed, Publication, FromSocket
    <2>2. QED
      BY <1>0, <2>1, StackDelivers
  <1>6. ASSUME NEW id \in Consumers, NEW s \in {"held", "ghost"}, stack # << >>,
               Top.op \in {"open", "joined"}, Top.of = id,
               phase' = [phase EXCEPT ![id] = s], stack' = Below
        PROVE  StackInv'
    <2>1. \A x \in Consumers :
            IF \E i \in DOMAIN stack :
                 i > Len(stack) - 1 /\ stack[i].op # "deliver" /\ stack[i].of = x
            THEN ~InCall(phase'[x]) ELSE phase'[x] = phase[x]
      BY <1>0, <1>t, <1>6 DEF TypeOK, InCall
    <2>2. Len(stack) - 1 <= Len(stack) /\ phase' \in [Consumers -> Phases]
      BY <1>0, <1>r DEF TypeOK
    <2>3. QED
      BY <1>0, <1>t, <1>6, <2>1, <2>2, StackReturns
  <1>7. ASSUME stack # << >>, Top.op = "deliver", UNCHANGED phase, stack' = Below
        PROVE  StackInv'
    <2>1. \A x \in Consumers :
            IF \E i \in DOMAIN stack :
                 i > Len(stack) - 1 /\ stack[i].op # "deliver" /\ stack[i].of = x
            THEN ~InCall(phase'[x]) ELSE phase'[x] = phase[x]
      BY <1>t, <1>7
    <2>2. Len(stack) - 1 <= Len(stack) /\ phase' \in [Consumers -> Phases]
      BY <1>0, <1>r DEF TypeOK
    <2>3. QED
      BY <1>0, <1>t, <1>7, <2>1, <2>2, StackReturns
  <1>8. CASE HandlerReturns /\ Top.rest # {Called}
    <2> DEFINE f == [Top EXCEPT !.rest = @ \ {Called}]
    <2>1. /\ stack # << >> /\ Top.op = "deliver" /\ UNCHANGED phase
          /\ stack' = Append(Below, f)
      BY <1>8 DEF HandlerReturns, On
    <2>2. /\ Below \in Seq(Frames) /\ Len(Below) = Len(stack) - 1 /\ Top \in Frames
          /\ \A i \in 1 .. Len(stack) - 1 : Below[i] = stack[i]
      BY <1>0, <2>1, Popping DEF TypeOK
    <2>3. Top.rest # {}
      BY <1>0, <1>t, <2>1 DEF StackInv, DeliveriesAreRooted
    <2>4. f \in Frames /\ f.op = "deliver" /\ f.of = Top.of /\ f.rest # {}
      BY <1>8, <2>1, <2>2, <2>3 DEF Frames
    <2> HIDE DEF f
    <2>5. /\ DOMAIN stack' = DOMAIN stack /\ stack'[Len(stack)] = f
          /\ \A i \in 1 .. Len(stack) - 1 : stack'[i] = stack[i]
      <3>1. Len(stack) \in Nat /\ Len(stack) > 0
        BY <1>r, <1>t, <2>1
      <3>2. /\ stack' \in Seq(Frames) /\ Len(stack') = Len(Below) + 1
            /\ stack'[Len(Below) + 1] = f /\ \A i \in 1 .. Len(Below) : stack'[i] = Below[i]
        BY <2>1, <2>2, <2>4
      <3>3. Len(stack') = Len(stack) /\ DOMAIN stack' = 1 .. Len(stack')
        BY <2>2, <3>1, <3>2
      <3>4. QED
        BY <1>r, <2>2, <3>1, <3>2, <3>3
    <2>6. \A i \in DOMAIN stack :
            /\ stack'[i].op = stack[i].op /\ stack'[i].of = stack[i].of
            /\ stack[i].op = "deliver" => stack'[i].rest # {}
      <3> SUFFICES ASSUME NEW i \in DOMAIN stack
                   PROVE  /\ stack'[i].op = stack[i].op /\ stack'[i].of = stack[i].of
                          /\ stack[i].op = "deliver" => stack'[i].rest # {}
        OBVIOUS
      <3>1. CASE i = Len(stack)
        BY <1>t, <2>1, <2>4, <2>5, <3>1
      <3>2. CASE i # Len(stack)
        BY <1>0, <1>r, <2>5, <3>2 DEF StackInv, DeliveriesAreRooted
      <3>3. QED
        BY <3>1, <3>2
    <2>7. QED
      BY <1>0, <1>r, <2>1, <2>5, <2>6, StackAlike
  <1>9. CASE HandlerThrows /\ On("deliver") /\ Below # << >>
    <2> DEFINE n == Len(stack)
               e == Below[Len(Below)].of
    <2>1. /\ stack # << >> /\ Top.op = "deliver"
          /\ phase' = [phase EXCEPT ![e] = "ghost"] /\ stack' = SubSeq(stack, 1, n - 2)
      BY <1>9 DEF HandlerThrows, On
    <2>2. /\ Len(Below) = n - 1 /\ n - 1 \in DOMAIN stack /\ Below[n - 1] = stack[n - 1]
      <3>1. /\ Len(Below) = n - 1 /\ n - 1 \in DOMAIN stack
            /\ \A i \in 1 .. n - 1 : Below[i] = stack[i]
        BY <1>0, <1>9, <2>1, Popping DEF TypeOK
      <3>2. QED
        BY <1>r, <3>1
    <2>3. n \in Nat /\ n - 2 \in Nat /\ n - 2 <= n /\ e = stack[n - 1].of /\ e \in Consumers
      BY <1>r, <2>2
    <2>4. /\ \A i \in DOMAIN stack : i > n - 2 => i = n - 1 \/ i = n
          /\ stack[n].op = "deliver"
      BY <1>r, <1>t, <2>1
    <2> HIDE DEF n, e
    <2>5. phase'[e] = "ghost" /\ \A x \in Consumers : x # e => phase'[x] = phase[x]
      BY <1>0, <2>1, <2>3 DEF TypeOK
    <2>6. stack[n - 1].op = "open" /\ stack[n - 1].of = stack[n].of
      <3>1. n \in DOMAIN stack /\ n > 1
        BY <1>r, <1>t, <2>1, <2>2 DEF n
      <3>2. QED
        BY <1>0, <2>4, <3>1 DEF StackInv, DeliveriesAreRooted
    <2>7. \A x \in Consumers :
            IF \E i \in DOMAIN stack : i > n - 2 /\ stack[i].op # "deliver" /\ stack[i].of = x
            THEN ~InCall(phase'[x]) ELSE phase'[x] = phase[x]
      <3> SUFFICES ASSUME NEW x \in Consumers
                   PROVE  IF \E i \in DOMAIN stack :
                               i > n - 2 /\ stack[i].op # "deliver" /\ stack[i].of = x
                          THEN ~InCall(phase'[x]) ELSE phase'[x] = phase[x]
        OBVIOUS
      <3>1. CASE x = e
        <4>1. n - 1 \in DOMAIN stack /\ n - 1 > n - 2
          BY <2>2, <2>3 DEF n
        <4>2. QED
          BY <2>3, <2>5, <2>6, <3>1, <4>1 DEF InCall
      <3>2. CASE x # e
        BY <2>3, <2>4, <2>5, <3>2
      <3>3. QED
        BY <3>1, <3>2
    <2>8. phase' \in [Consumers -> Phases] /\ n - 2 <= Len(stack)
      BY <1>0, <2>3 DEF TypeOK, n
    <2>9. QED
      BY <1>0, <2>1, <2>3, <2>7, <2>8, StackReturns
  <1>10. CASE OpenReturns \/ JoinReturns
    BY <1>6, <1>10, <1>t DEF OpenReturns, JoinReturns, On
  <1>11. CASE HandlerReturns /\ Top.rest = {Called}
    BY <1>7, <1>11 DEF HandlerReturns, On
  <1>12. CASE HandlerThrows /\ ~(On("deliver") /\ Below # << >>)
    BY <1>6, <1>7, <1>12, <1>t DEF HandlerThrows, On
  <1>13. QED
    BY <1>1, <1>2, <1>3, <1>4, <1>5, <1>8, <1>9, <1>10, <1>11, <1>12
       DEF Next, Reset, Teardown

LEMMA NextEntries == ASSUME RegistryInv, RegistryInv', CallInv, Next PROVE EntryInv'
  <1>0. TypeOK /\ StackInv /\ EntryInv
    BY DEF CallInv
  <1>1. ASSUME UNCHANGED phase,
               UNCHANGED <<channels, nextConsumerId, entryOf, channelOf, consumers, vendor, handle,
                           teardown>>
        PROVE  EntryInv'
    BY <1>0, <1>1, EntriesRest
  <1>2. CASE JoinReturns
    BY <1>0, <1>2, TopCall, EntriesRest DEF JoinReturns, On, TypeOK
  <1>3. CASE HandlerThrows
    <2> DEFINE inOpen == On("deliver") /\ Below # << >>
    <2>1. CASE inOpen
      <3>1. /\ stack # << >> /\ Top.op = "deliver"
            /\ phase' = [phase EXCEPT ![Below[Len(Below)].of] = "ghost"]
        BY <1>3, <2>1 DEF HandlerThrows, On
      <3>2. /\ Len(Below) = Len(stack) - 1 /\ Len(stack) - 1 \in DOMAIN stack
            /\ Below[Len(Below)] = stack[Len(stack) - 1]
            /\ Len(stack) \in DOMAIN stack /\ Top = stack[Len(stack)] /\ Len(stack) > 1
        BY <1>0, <2>1, <3>1, Popping, EmptySeq DEF TypeOK, Top
      <3>3. stack[Len(stack) - 1].op = "open"
        BY <1>0, <3>1, <3>2 DEF StackInv, DeliveriesAreRooted
      <3>4. phase[Below[Len(Below)].of] = "opening"
        BY <1>0, <3>2, <3>3 DEF StackInv, StackMatchesPhases
      <3>5. \A id \in Consumers :
              phase'[id] = phase[id] \/ (phase[id] = "opening" /\ phase'[id] = "ghost")
        BY <1>0, <3>1, <3>4 DEF TypeOK
      <3>6. QED
        BY <1>0, <1>3, <3>5, EntriesRest DEF HandlerThrows
    <2>2. CASE ~inOpen /\ On("joined")
      <3>1. phase' = [phase EXCEPT ![Top.of] = "ghost"] /\ phase[Top.of] = "joining"
        BY <1>0, <1>3, <2>2, TopCall DEF HandlerThrows, On
      <3>2. \A id \in Consumers :
              phase'[id] = phase[id] \/ (phase[id] = "joining" /\ phase'[id] = "ghost")
        BY <1>0, <3>1 DEF TypeOK
      <3>3. QED
        BY <1>0, <1>3, <3>2, EntriesRest DEF HandlerThrows
    <2>3. CASE ~inOpen /\ ~On("joined")
      BY <1>1, <1>3, <2>3 DEF HandlerThrows
    <2>4. QED
      BY <2>1, <2>2, <2>3
  <1>4. QED
    BY <1>0, <1>1, <1>2, <1>3, CreateEntries, JoinEntries, RefuseEntries, OpenReturnsEntries,
       UnsubscribeEntries, ResetEntries, TeardownEntries
       DEF Next, Subscribed, Publication, HandlerReturns

LEMMA InitCalls == Init => CallInv
  <1> SUFFICES ASSUME Init PROVE CallInv
    OBVIOUS
  <1>1. TypeOK
    <2>1. << >> \in Seq(Frames)
      BY EmptySeq
    <2>2. 1 \in 1 .. MaxConsumers + 1
      BY FanoutAssumption
    <2>3. QED
      BY <2>1, <2>2 DEF Init, TypeOK, Phases
  <1>2. StackInv
    BY DEF Init, StackInv, StackMatchesPhases, DeliveriesAreRooted
  <1>3. EntryInv
    BY ConsumersAreNumbers
       DEF Init, EntryInv, EntriesAreConsistent, EntriesExist, RegistryCountsConsumers,
           RegisteredIsOpen, OpenIsRegistered, DrainedIsTornDown, Registered
  <1>4. QED
    BY <1>1, <1>2, <1>3 DEF CallInv

LEMMA FanoutInductive == Spec => [](RegistryInv /\ CallInv)
  <1>1. ASSUME RegistryInv, RegistryInv', CallInv, [Next]_vars PROVE CallInv'
    <2>1. CASE Next
      BY <1>1, <2>1, NextTypes, NextStack, NextEntries DEF CallInv
    <2>2. CASE UNCHANGED vars
      <3>1. TypeOK'
        BY <1>1, <2>2 DEF vars, CallInv, TypeOK
      <3>2. StackInv'
        BY <1>1, <2>2
           DEF vars, CallInv, StackInv, StackMatchesPhases, DeliveriesAreRooted, OnStack
      <3>3. EntryInv'
        BY <1>1, <2>2, EntriesRest DEF vars, CallInv
      <3>4. QED
        BY <3>1, <3>2, <3>3 DEF CallInv
    <2>3. QED
      BY <1>1, <2>1, <2>2
  <1>2. RegistryInv /\ RegistryInv' /\ CallInv /\ [Next]_vars => CallInv'
    BY <1>1
  <1>3. QED
    BY InitCalls, FanoutRegistry, <1>2, PTL DEF Spec

(* The registry, the call stack and the phases of the consumers agree,     *)
(* however handlers call back or throw.                                    *)
THEOREM FanoutInvariant == Spec => []FanoutInv
  <1>1. CallInv => FanoutInv
    BY DEF CallInv, StackInv, EntryInv, FanoutInv
  <1>2. QED
    BY <1>1, FanoutInductive, PTL

(* When no call is running, only a consumer whose own handler threw inside *)
(* of subscribe leaks a vendor subscription.                               *)
THEOREM FanoutLeaksGhostsOnly == Spec => []OnlyGhostsLeak
  <1>1. ASSUME RegistryInv, CallInv, stack = << >>
        PROVE  /\ \A e \in Consumers :
                    vendor[e] = "open" =>
                      \/ Registered(e) /\ e \in teardown
                      \/ Registered(e) /\ \E id \in consumers[e] : phase[id] = "held"
                      \/ \E id \in Consumers : phase[id] = "ghost" /\ entryOf[id] = e
               /\ \A e1, e2 \in Consumers :
                    vendor[e1] = "open" /\ vendor[e2] = "open" /\ channelOf[e1] = channelOf[e2] =>
                      e1 = e2 \/ phase[e1] = "ghost" \/ phase[e2] = "ghost"
    <2>1. \A id \in Consumers : phase[id] \notin {"opening", "joining"}
      BY <1>1 DEF CallInv, StackInv, StackMatchesPhases, OnStack
    <2>2. \A e \in Consumers : vendor[e] = "open" => Registered(e) \/ phase[e] = "ghost"
      BY <1>1, <2>1 DEF CallInv, EntryInv, OpenIsRegistered
    <2>3. \A e \in Consumers : vendor[e] = "open" => entryOf[e] = e
      BY <1>1 DEF CallInv, EntryInv, EntriesAreConsistent
    <2>4. ASSUME NEW e \in Consumers, Registered(e), e \notin teardown
          PROVE  \E id \in Consumers :
                   /\ id \in consumers[e] /\ entryOf[id] = e
                   /\ phase[id] = "held" \/ phase[id] = "ghost"
      <3>1. PICK id \in consumers[e] : TRUE
        BY <1>1, <2>4 DEF CallInv, EntryInv, DrainedIsTornDown
      <3>2. id \in Consumers
        BY <1>1 DEF CallInv, TypeOK
      <3>3. QED
        BY <1>1, <2>1, <3>1, <3>2 DEF CallInv, EntryInv, EntriesAreConsistent
    <2>5. \A e1, e2 \in Consumers :
            Registered(e1) /\ Registered(e2) /\ channelOf[e1] = channelOf[e2] => e1 = e2
      BY DEF Registered
    <2>6. QED
      BY <2>2, <2>3, <2>4, <2>5
  <1>2. RegistryInv /\ CallInv => OnlyGhostsLeak
    BY <1>1 DEF OnlyGhostsLeak
  <1>3. QED
    BY <1>2, FanoutInductive, PTL
================================================================================
