----------------------------- MODULE Navigation -----------------------------
(***************************************************************************)
(* What an actor knows of the map, and the way to a place:                 *)
(* engine/navigation.py.                                                   *)
(*                                                                         *)
(* The code's breadth first sweep is given by the set it ends with.  Of    *)
(* several shortest ways one is chosen; which one, the code settles by the *)
(* names of the edges.  An edge id is <<"edge", n>>, n the order of        *)
(* authoring, or that of a runtime way.                                    *)
(***************************************************************************)
EXTENDS WorldState, SequencesExt

End(path) == path[Len(path)]

-----------------------------------------------------------------------------
\* Both directions of the way by which a runtime location was hung on the map.
RuntimeEdges(s) ==
  LET Anchor(l) == IF s.runtimeLocations[l].connected # None
                   THEN s.runtimeLocations[l].connected
                   ELSE s.runtimeLocations[l].parent
      Way(from, to, l) == [id |-> <<"runtime", l, from = l>>, from |-> from, to |-> to,
                           traversal |-> "automatic", visibility |-> "public",
                           access |-> None, conditions |-> {}]
      Anchored == {l \in DOMAIN s.runtimeLocations : Anchor(l) \notin {None, l}}
  IN  UNION {{Way(Anchor(l), l, l), Way(l, Anchor(l), l)} : l \in Anchored}

Met(s, a, conditions) == \A c \in conditions : Satisfies(s, a, c)

EdgeIsKnown(s, a, e, connections) ==
  \/ e.visibility \in {"public", "party", "actor"}
  \/ e.id \in connections
  \/ Override(s, a, "location", e.to) = TRUE
  \/ e.access # None /\ Flag(s, e.access, "discovered")
  \/ e.conditions # {} /\ Met(s, a, e.conditions)

\* A mutant: a gate without conditions of its own is open.
EdgeIsTraversableUngated(s, a, e) == Met(s, a, e.conditions) /\ e.traversal # "guided"

EdgeIsTraversable(s, a, e) ==
  /\ Met(s, a, e.conditions)
  /\ e.traversal # "guided"
  /\ \/ e.traversal # "gated"
     \/ e.conditions # {}
     \/ e.access # None /\ (Flag(s, e.access, "unlocked") \/ Flag(s, e.access, "open"))

LocationVisible(s, a, l) == Override(s, a, "location", l) # FALSE

-----------------------------------------------------------------------------
\* Explicit knowledge is authoritative; what it leaves open, the sweep fills in.
Overlaid(inferred, explicit) ==
  IF explicit.existence = "unknown" \/ inferred = None THEN explicit
  ELSE [existence    |-> explicit.existence,
        localization |-> IF explicit.localization # "unknown" THEN explicit.localization
                         ELSE inferred.localization,
        access       |-> IF explicit.access # "unknown" THEN explicit.access
                         ELSE inferred.access,
        visited      |-> explicit.visited \/ inferred.visited,
        connections  |-> explicit.connections \cup inferred.connections]

OverlaidAll(knowledge, explicit) ==
  Over([l \in DOMAIN explicit |-> Overlaid(At(knowledge, l, None), explicit[l])], knowledge)

\* Where one more step, or no more than n, lead along ways: pairs of places.
Onward(ways, S) == S \cup {w[2] : w \in {v \in ways : v[1] \in S}}

ReachableBy(ways, from, n) ==
  LET reach[k \in 0..n] == IF k = 0 THEN {from} ELSE Onward(ways, reach[k - 1])
  IN  reach[n]

\* The places found from the scene along known ways: swept through, or seen
\* at the far end of a way that is closed.
KnownConnections(explicit) ==
  UNION {explicit[l].connections : l \in {k \in DOMAIN explicit : explicit[k].existence # "unknown"}}

WaysSeen(s, a, connections) ==
  {e \in Module.edges : LocationVisible(s, a, e.to) /\ EdgeIsKnown(s, a, e, connections)}
  \cup {e \in RuntimeEdges(s) : LocationVisible(s, a, e.to)}

Reached(s, open) ==
  ReachableBy({<<e.from, e.to>> : e \in open}, s.scene, Cardinality(LocationIds(s)))

Sweep(s, a) ==
  LET Found(ways, swept) == [ways |-> {e \in ways : e.from \in swept}, swept |-> swept]
      Along(ways) == Found(ways, Reached(s, {e \in ways : EdgeIsTraversable(s, a, e)}))
  IN  Along(WaysSeen(s, a, KnownConnections(Over(s.actorPlaces[a], s.partyPlaces))))

\* Ancestors of known places are known; containment says nothing of reach.
Ancestors(places) ==
  LET Up(S) == {Module.parent[l] : l \in S \cap Module.locations} \ {None}
      above[n \in 0..Cardinality(Module.locations)] ==
        IF n = 0 THEN Up(places) ELSE above[n - 1] \cup Up(above[n - 1])
  IN  above[Cardinality(Module.locations)]

KnowledgeFrom(s, a, sweep) ==
  LET marked == sweep.swept \cup {e.to : e \in sweep.ways}
      inferred == [l \in marked |->
                     Known(IF l \in sweep.swept THEN "reachable" ELSE "blocked",
                           l = s.scene,
                           {e.id : e \in {w \in sweep.ways : l \in {w.from, w.to}}})]
      above  == [l \in Ancestors(marked) \ marked |-> Known("unknown", FALSE, {})]
  IN  OverlaidAll(OverlaidAll(Over(inferred, above), s.partyPlaces), s.actorPlaces[a])

EffectiveKnowledge(s, a) == KnowledgeFrom(s, a, Sweep(s, a))

-----------------------------------------------------------------------------
\* The ways a route may use: known, between places the actor has knowledge of.
RouteEdges(s, a, knowledge) ==
  LET connections == UNION {knowledge[l].connections : l \in DOMAIN knowledge}
  IN  {e \in Module.edges \cup RuntimeEdges(s) :
         /\ {e.from, e.to} \subseteq DOMAIN knowledge
         /\ EdgeIsKnown(s, a, e, connections)}

\* Every path one edge longer that visits no place twice.
Extended(edges, paths) ==
  UNION {{Append(p, e.to) : e \in {w \in edges : w.from = End(p) /\ w.to \notin {p[i] : i \in DOMAIN p}}}
         : p \in paths}

\* The shortest ways from one place to another, none of them visiting a place
\* twice.
ShortestPaths(edges, from, to) ==
  LET places == {from} \cup {e.to : e \in edges}
      paths[n \in 0..Cardinality(places)] ==
        IF n = 0 THEN {<<from>>} ELSE Extended(edges, paths[n - 1])
      Shortest(ending) ==
        LET lengths == {n \in DOMAIN ending : ending[n] # {}}
        IN  IF lengths = {} THEN {}
            ELSE ending[CHOOSE n \in lengths : \A m \in lengths : n <= m]
  IN  Shortest([n \in DOMAIN paths |-> {p \in paths[n] : End(p) = to}])

Resolution(status, path, boundary) == [status |-> status, path |-> path, boundary |-> boundary]

\* Where a closed way stops the party: the first edge of the path that cannot
\* be passed.  Of parallel edges the one authored first is asked.
Frontier(s, a, edges, path) ==
  LET Between(i) == {e \in edges : e.from = path[i] /\ e.to = path[i + 1]}
      First(i)   == CHOOSE e \in Between(i) :
                       \A f \in Between(i) \cap Module.edges :
                          e \in Module.edges /\ e.id[2] <= f.id[2]
      Before(e) == IF e.access # None THEN e.access ELSE e.id
      StoppedAt(shut) ==
        IF shut = {} THEN Resolution("known_blocked", <<s.scene>>, "route")
        ELSE LET at == CHOOSE i \in shut : \A j \in shut : i <= j
             IN  Resolution("known_blocked", SubSeq(path, 1, at), Before(First(at)))
  IN  StoppedAt({i \in 1..Len(path) - 1 : ~EdgeIsTraversable(s, a, First(i))})

ResolvedAlong(s, a, l, knowledge, edges) ==
  LET open      == ShortestPaths({e \in edges : EdgeIsTraversable(s, a, e)}, s.scene, l)
      structural == ShortestPaths(edges, s.scene, l)
  IN  CASE l \notin LocationIds(s) -> Resolution("unsupported", <<>>, None)
        [] l \in LocationIds(s) /\ At(knowledge, l, Unknown).existence = "unknown" ->
             Resolution(IF l \in Module.locations THEN "hidden_canon_collision"
                        ELSE "unsupported", <<>>, None)
        [] OTHER ->
             IF knowledge[l].localization # "located"
               THEN Resolution("known_unlocated", <<>>, None)
             ELSE IF open # {} THEN Resolution("known_reachable", CHOOSE p \in open : TRUE, None)
             ELSE IF structural # {} THEN Frontier(s, a, edges, CHOOSE p \in structural : TRUE)
             ELSE Resolution("known_blocked", <<s.scene>>, "route")

ResolvedWith(s, a, l, knowledge) ==
  ResolvedAlong(s, a, l, knowledge, RouteEdges(s, a, knowledge))

ResolveLocationTarget(s, a, l) == ResolvedWith(s, a, l, EffectiveKnowledge(s, a))
=============================================================================
