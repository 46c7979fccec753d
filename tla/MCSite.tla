--------------------------------- MODULE MCSite ---------------------------------
(* Fences, whose end post is conditional, and gates, whose one jamb is     *)
(* shared to the left and taken over from the right.                       *)
EXTENDS Site, SequencesExt

Port(kind, compatible, sharing) ==
  [kind |-> kind, compatible |-> compatible, sharing |-> sharing]
Shares(element, policy) == [element |-> element, policy |-> policy]

MCRelease == [
  fence |-> [
    ports |-> [start |-> Port("fence.end", {"fence.end", "gate.side"}, Shares("post.start", "consumer")),
               end |-> Port("fence.end", {"fence.end", "gate.side"}, Shares("post.end", "owner"))],
    parts |-> ("post.start" :> "post") @@ ("post.end" :> "post") @@ ("panel" :> "panel"),
    conditional |-> {"post.end"},
    terrain |-> TRUE],
  gate |-> [
    ports |-> [left |-> Port("gate.side", {"fence.end"}, Shares("jamb", "owner")),
               right |-> Port("gate.side", {"fence.end", "gate.side"}, Shares("jamb", "consumer")),
               latch |-> Port("gate.side", {"fence.end"}, NoSharing)],
    parts |-> ("jamb" :> "post") @@ ("leaf" :> "panel"),
    conditional |-> {"leaf"},
    terrain |-> FALSE]]

Instance(id, release, elevation) == [id |-> id, release |-> release, elevation |-> elevation]
Placed(id, segment) == [id |-> id, segment |-> segment]
Segment(id, elevation) == [id |-> id, elevation |-> elevation]

Input(roster, terrain, placements, connections) ==
  [roster |-> roster, terrain |-> terrain, placements |-> placements, connections |-> connections]

(* Three instances and up to two connections of their ports, or one of a   *)
(* port or an instance that is not there.                                  *)
EndsOf(id, release) ==
  {[id |-> id, port |-> port] : port \in DOMAIN MCRelease[release].ports}
NoEnds == {[id |-> "a", port |-> "top"], [id |-> "d", port |-> "start"]}
Joins(ends) == [a : ends, b : ends]

Connected ==
  UNION {LET ends == EndsOf("a", r[1]) \union EndsOf("b", r[2]) \union EndsOf("c", r[3])
         IN {Input(<<Instance("a", r[1], NoElevation), Instance("b", r[2], NoElevation),
                     Instance("c", r[3], NoElevation)>>,
                   << >>,
                   <<Placed("a", NoSegment), Placed("b", NoSegment), Placed("c", NoSegment)>>,
                   connections) :
               connections \in BoundedSeq(Joins(ends), 2)
                                 \union {<<join>> : join \in Joins(ends \union NoEnds)}}
         : r \in {<<"fence", "fence", "gate">>, <<"gate", "fence", "gate">>}}

(* Up to two instances, placed up to twice on two segments of terrain, or  *)
(* on one that is not there.                                               *)
Placings ==
  {Input(roster, terrain, placements, << >>) :
     roster \in BoundedSeq({Instance("a", "fence", NoElevation), Instance("a", "fence", 0),
                            Instance("b", "fence", 0), Instance("b", "gate", NoElevation)}, 2),
     terrain \in {<<Segment("s1", 0), Segment("s2", 1)>>, <<Segment("s1", 0), Segment("s1", 1)>>},
     placements \in BoundedSeq({Placed("a", NoSegment), Placed("a", "s1"), Placed("a", "s2"),
                                Placed("b", NoSegment), Placed("b", "s2"), Placed("b", "s3"),
                                Placed("d", "s1")}, 2)}

MCSites == Connected \union Placings
================================================================================
