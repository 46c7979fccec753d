---------------------------------- MODULE Site ----------------------------------
(***************************************************************************)
(* deriveSite: instances, terrain and connections compose into the one     *)
(* result every output derives from.  The stages run in order and stop at  *)
(* the first errored one; a connection's shared element is counted once,   *)
(* by dropping the consumer's part from the aggregate.                     *)
(*                                                                         *)
(* What one instance derives (its cascade, constraints and prices) is left *)
(* open: any subset of its conditional parts is emitted, or an issue is    *)
(* raised.  Issues are abstracted to there being one.                      *)
(***************************************************************************)
EXTENDS Naturals, Sequences, FiniteSets

CONSTANTS
  Sites,       \* the inputs: roster, terrain, placements and connections
  Release,     \* per release its ports, part rules and terrain binding
  NoSegment,   \* a placement that names no terrain segment
  NoElevation, \* the elevation parameter is left out of the input
  NoSharing    \* a port that declares no shared element

VARIABLES
  site,        \* the input
  stage,
  derived,     \* per instance, the paths of the parts it emitted
  result       \* the BOM, once there is one

vars == <<site, stage, derived, result>>

Stages == {"given", "structured", "derived", "connected", "valid", "invalid"}

Places(seq) == DOMAIN seq
Ids(seq) == {seq[n].id : n \in Places(seq)}
IdsAreUnique(seq) == \A n, k \in Places(seq) : seq[n].id = seq[k].id => n = k

InstanceOf(id) == site.roster[CHOOSE n \in Places(site.roster) : site.roster[n].id = id]
ReleaseOf(id) == Release[InstanceOf(id).release]

Init ==
  /\ site \in Sites
  /\ stage = "given"
  /\ derived = << >>
  /\ result = << >>

Invalid ==
  /\ stage' = "invalid"
  /\ UNCHANGED <<site, derived, result>>

--------------------------------------------------------------------------------
(* Stage 1: structure.                                                     *)

PlacementsAreSound ==
  /\ IdsAreUnique(site.terrain)
  /\ IdsAreUnique(site.placements)
  /\ Ids(site.placements) = Ids(site.roster)
  /\ \A n \in Places(site.placements) :
       LET p == site.placements[n] IN
       p.segment # NoSegment => p.segment \in Ids(site.terrain) /\ ReleaseOf(p.id).terrain

(* The ends of the connections, and their ports.                           *)
Ends == {<<n, side>> : n \in Places(site.connections), side \in {"a", "b"}}
EndAt(x) == site.connections[x[1]][x[2]]
Opposite(x) == <<x[1], IF x[2] = "a" THEN "b" ELSE "a">>

Resolves(x) ==
  /\ EndAt(x).id \in Ids(site.roster)
  /\ EndAt(x).port \in DOMAIN ReleaseOf(EndAt(x).id).ports

PortAt(x) == ReleaseOf(EndAt(x).id).ports[EndAt(x).port]
Consumes(x) == PortAt(x).sharing # NoSharing /\ PortAt(x).sharing.policy = "consumer"

(* At most one consumer, and opposite it a port with an element.           *)
SharingIsSound(x) ==
  Consumes(x) => ~Consumes(Opposite(x)) /\ PortAt(Opposite(x)).sharing # NoSharing

ConnectionsAreSound ==
  /\ \A x \in Ends : Resolves(x)
  /\ \A x, y \in Ends : EndAt(x) = EndAt(y) => x = y
  /\ \A x \in Ends :
       PortAt(Opposite(x)).kind \in PortAt(x).compatible /\ SharingIsSound(x)

(* With a structural issue the instances are still derived, for their own  *)
(* issues, but the site is invalid whatever comes of it.                   *)
Structure ==
  /\ stage = "given"
  /\ IF IdsAreUnique(site.roster) /\ PlacementsAreSound /\ ConnectionsAreSound
     THEN stage' = "structured" /\ UNCHANGED <<site, derived, result>>
     ELSE Invalid

--------------------------------------------------------------------------------
(* Stages 2 and 3: the elevation of an instance's segment goes through its *)
(* ordinary input, which may not say another one; then it is derived.      *)

Injected(id) ==
  LET segments == {site.placements[n].segment : n \in {k \in Places(site.placements) :
                     site.placements[k].id = id}}
  IN {site.terrain[n].elevation : n \in {k \in Places(site.terrain) :
        site.terrain[k].id \in segments}}

ElevationConflicts(id) ==
  InstanceOf(id).elevation # NoElevation
    /\ \E e \in Injected(id) : e # InstanceOf(id).elevation

(* Every rule is emitted but some of the conditional ones.                 *)
DeriveInstances ==
  LET conditional ==
        UNION {{<<id, path>> : path \in ReleaseOf(id).conditional} : id \in Ids(site.roster)}
  IN
  /\ stage = "structured"
  /\ \A id \in Ids(site.roster) : ~ElevationConflicts(id)
  /\ \E skipped \in SUBSET conditional :
       derived' = [id \in Ids(site.roster) |->
                     {path \in DOMAIN ReleaseOf(id).parts : <<id, path>> \notin skipped}]
  /\ stage' = "derived"
  /\ UNCHANGED <<site, result>>

(* A conflict, a failed constraint or an unresolved part of some instance. *)
InstanceFails == stage = "structured" /\ Invalid

--------------------------------------------------------------------------------
(* Stage 4: the constraints of the connections, if there are any.          *)

ConnectionsHold ==
  /\ stage = "derived"
  /\ stage' = "connected"
  /\ UNCHANGED <<site, derived, result>>

ConnectionFails == stage = "derived" /\ Ends # {} /\ Invalid

--------------------------------------------------------------------------------
(* Stages 5 and 6: a consumer's element is dropped, and what survives is   *)
(* merged by component with its sources.                                   *)

Element(x) == <<EndAt(x).id, PortAt(x).sharing.element>>

(* Mutant of Consumed: the path is dropped from every instance.            *)
ConsumedAnywhere ==
  {<<id, Element(x)[2]>> : id \in Ids(site.roster), x \in {y \in Ends : Consumes(y)}}

Consumed == {Element(x) : x \in {y \in Ends : Consumes(y)}}

Parts == UNION {{<<id, path>> : path \in derived[id]} : id \in DOMAIN derived}
ComponentOf(part) == ReleaseOf(part[1]).parts[part[2]]

Aggregate ==
  LET surviving == Parts \ Consumed
      components == {ComponentOf(part) : part \in surviving}
  IN
  /\ stage = "connected"
  /\ result' = [c \in components |-> {part \in surviving : ComponentOf(part) = c}]
  /\ stage' = "valid"
  /\ UNCHANGED <<site, derived>>

--------------------------------------------------------------------------------

Next ==
  \/ Structure
  \/ DeriveInstances
  \/ InstanceFails
  \/ ConnectionsHold
  \/ ConnectionFails
  \/ Aggregate

Spec == Init /\ [][Next]_vars

--------------------------------------------------------------------------------

Counted(part) == Cardinality({c \in DOMAIN result : part \in result[c]})

(* The owner's part does not stand: its rule was not emitted, or the same  *)
(* element is consumed at another port of the owner.                       *)
OwnerIsGone(x) ==
  \/ Element(x) \notin Parts
  \/ \E y \in Ends : Consumes(y) /\ Element(y) = Element(x)

(* "The post between two fence fields has exactly one owner" (I6): of the  *)
(* two parts a resolved sharing names the consumer's is not counted and    *)
(* the owner's once, unless the owner's does not stand, when none is; and  *)
(* a consumer port that is left unconnected keeps its element.             *)
SharedElementsCountedOnce ==
  stage = "valid" =>
    /\ \A x \in Ends : Consumes(x) =>
         LET owner == Opposite(x) IN
         /\ PortAt(owner).sharing # NoSharing
         /\ Counted(Element(x)) = 0
         /\ Counted(Element(owner)) = IF OwnerIsGone(owner) THEN 0 ELSE 1
    /\ \A part \in Parts :
         (\A x \in Ends : EndAt(x).id = part[1] /\ Consumes(x) => Element(x) # part)
           => Counted(part) = 1
================================================================================
