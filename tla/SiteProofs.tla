------------------------------- MODULE SiteProofs ------------------------------
(***************************************************************************)
(* For every release and every site, whatever its instances emit: a shared *)
(* element is counted once, by the side that owns it.                      *)
(***************************************************************************)
EXTENDS Site, FiniteSetTheorems, TLAPS

(* A site that has passed stage 1 was sound, and stays the same input.     *)
PassedStructure ==
  stage \in {"structured", "derived", "connected", "valid"} =>
    IdsAreUnique(site.roster) /\ PlacementsAreSound /\ ConnectionsAreSound

Surviving == Parts \ Consumed

(* The aggregate of a valid site has each surviving part under its own     *)
(* component, and nothing else.                                            *)
ResultIsAggregate ==
  stage = "valid" =>
    result = [c \in {ComponentOf(part) : part \in Surviving} |->
                {part \in Surviving : ComponentOf(part) = c}]

SiteInv == PassedStructure /\ ResultIsAggregate

--------------------------------------------------------------------------------

LEMMA InitSite == Init => SiteInv
  BY DEF Init, SiteInv, PassedStructure, ResultIsAggregate

LEMMA NextStructure == PassedStructure /\ [Next]_vars => PassedStructure'
  <1> SUFFICES ASSUME PassedStructure, [Next]_vars PROVE PassedStructure'
    OBVIOUS
  <1> DEFINE Sound == IdsAreUnique(site.roster) /\ PlacementsAreSound /\ ConnectionsAreSound
  <1>1. site' = site
    BY DEF Next, vars, Structure, DeriveInstances, InstanceFails, ConnectionsHold,
           ConnectionFails, Aggregate, Invalid
  <1>2. Sound' <=> Sound
    BY <1>1
       DEF IdsAreUnique, PlacementsAreSound, ConnectionsAreSound, Ids, Places, ReleaseOf,
           InstanceOf, Ends, EndAt, Opposite, Resolves, PortAt, Consumes, SharingIsSound
  <1>3. stage' \in {"structured", "derived", "connected", "valid"} => Sound
    <2> HIDE DEF Sound
    <2>1. PassedStructure <=> (stage \in {"structured", "derived", "connected", "valid"} => Sound)
      BY DEF Sound, PassedStructure
    <2>2. Structure => (stage' = "structured" /\ Sound) \/ stage' = "invalid"
      BY DEF Structure, Invalid, Sound
    <2>3. QED
      BY <2>1, <2>2 DEF Next, vars, DeriveInstances, InstanceFails, ConnectionsHold,
         ConnectionFails, Aggregate, Invalid
  <1>4. QED
    BY <1>2, <1>3 DEF PassedStructure

LEMMA NextAggregate == ResultIsAggregate /\ [Next]_vars => ResultIsAggregate'
  <1> SUFFICES ASSUME ResultIsAggregate, [Next]_vars, stage' = "valid"
               PROVE  ResultIsAggregate'
    BY DEF ResultIsAggregate
  <1>1. UNCHANGED <<site, derived>> /\ (Aggregate \/ UNCHANGED vars)
    BY DEF Next, vars, Structure, DeriveInstances, InstanceFails, ConnectionsHold,
           ConnectionFails, Aggregate, Invalid
  <1>2. Parts' = Parts /\ Consumed' = Consumed
    BY <1>1 DEF Parts, Consumed, Ends, Places, Consumes, PortAt, EndAt, ReleaseOf, InstanceOf,
       Element
  <1>3. \A part : ComponentOf(part)' = ComponentOf(part)
    BY <1>1 DEF ComponentOf, ReleaseOf, InstanceOf, Places
  <1>4. Surviving' = Surviving
    BY <1>2 DEF Surviving
  <1>5. result' = [c \in {ComponentOf(part) : part \in Surviving} |->
                     {part \in Surviving : ComponentOf(part) = c}]
    BY <1>1 DEF Aggregate, Surviving, vars, ResultIsAggregate
  <1>6. QED
    BY <1>3, <1>4, <1>5 DEF ResultIsAggregate

LEMMA SiteInductive == Spec => []SiteInv
  <1>1. SiteInv /\ [Next]_vars => SiteInv'
    BY NextStructure, NextAggregate DEF SiteInv
  <1>2. QED
    BY InitSite, <1>1, PTL DEF Spec

--------------------------------------------------------------------------------

(* Merging by component counts a part that survives once, and no other.    *)
LEMMA SurvivorsAreCountedOnce ==
  ASSUME SiteInv, stage = "valid", NEW part
  PROVE  Counted(part) = IF part \in Surviving THEN 1 ELSE 0
  <1> DEFINE lines == {c \in DOMAIN result : part \in result[c]}
  <1>1. result = [c \in {ComponentOf(q) : q \in Surviving} |->
                    {q \in Surviving : ComponentOf(q) = c}]
    BY DEF SiteInv, ResultIsAggregate
  <1>2. CASE part \in Surviving
    <2>1. lines = {ComponentOf(part)}
      BY <1>1, <1>2
    <2>2. QED
      BY <1>2, <2>1, FS_Singleton DEF Counted
  <1>3. CASE part \notin Surviving
    <2>1. lines = {}
      BY <1>1, <1>3
    <2>2. QED
      BY <1>3, <2>1, FS_EmptySet DEF Counted
  <1>4. QED
    BY <1>2, <1>3

(* I6: of the two parts a resolved sharing names, the consumer's is never  *)
(* counted and the owner's exactly once while it stands; and a part that   *)
(* no connection consumes is counted once.                                 *)
THEOREM SiteSharesOnce == Spec => []SharedElementsCountedOnce
  <1>1. SiteInv => SharedElementsCountedOnce
    <2> SUFFICES ASSUME SiteInv, stage = "valid" PROVE SharedElementsCountedOnce
      BY DEF SharedElementsCountedOnce
    <2>1. ASSUME NEW x \in Ends, Consumes(x)
          PROVE  /\ PortAt(Opposite(x)).sharing # NoSharing
                 /\ Counted(Element(x)) = 0
                 /\ Counted(Element(Opposite(x))) = IF OwnerIsGone(Opposite(x)) THEN 0 ELSE 1
      <3>1. PortAt(Opposite(x)).sharing # NoSharing
        BY <2>1 DEF SiteInv, PassedStructure, ConnectionsAreSound, SharingIsSound
      <3>2. Element(x) \notin Surviving
        BY <2>1 DEF Surviving, Consumed
      <3>3. OwnerIsGone(Opposite(x)) <=> Element(Opposite(x)) \notin Surviving
        BY DEF OwnerIsGone, Surviving, Consumed
      <3>4. QED
        BY <3>1, <3>2, <3>3, SurvivorsAreCountedOnce
    <2>2. ASSUME NEW part \in Parts,
                 \A x \in Ends : EndAt(x).id = part[1] /\ Consumes(x) => Element(x) # part
          PROVE  Counted(part) = 1
      <3>1. part \notin Consumed
        BY <2>2 DEF Consumed, Element
      <3>2. QED
        BY <3>1, SurvivorsAreCountedOnce DEF Surviving
    <2>3. QED
      BY <2>1, <2>2 DEF SharedElementsCountedOnce
  <1>2. QED
    BY <1>1, SiteInductive, PTL
================================================================================
