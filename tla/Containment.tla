---------------------------- MODULE Containment -----------------------------
(***************************************************************************)
(* Where a place is: what it is in, up to a place that is in none          *)
(* (engine/projection_v3.py).                                              *)
(***************************************************************************)
EXTENDS WorldState

\* A trail, outermost first, with what its outermost place is in.
Outward(trail) ==
  LET up == IF trail[1] \in Module.locations THEN Module.parent[trail[1]] ELSE None
  IN  IF up = None \/ up \in {trail[i] : i \in DOMAIN trail} THEN trail ELSE <<up>> \o trail

\* Containment, outermost first; never the way somebody came.
Breadcrumbs(l) ==
  LET trail[n \in 0..Cardinality(Module.locations)] ==
        IF n = 0 THEN <<l>> ELSE Outward(trail[n - 1])
  IN  trail[Cardinality(Module.locations)]

\* _runtime_containment_parent: the parent it declared, or the region that its
\* anchor is or is in, or the outermost place the anchor is in.
ContainmentParent(s, l) ==
  LET r == s.runtimeLocations[l]
  IN  CASE r.parent # None -> r.parent
        [] r.parent = None /\ r.connected \notin Module.locations -> None
        [] r.parent = None /\ r.connected \in DOMAIN Module.region -> Module.region[r.connected]
        [] OTHER -> LET top == Breadcrumbs(r.connected)[1]
                    IN  IF top = r.connected THEN None ELSE top

LocationContext(s, a) ==
  [trail |-> IF s.scene \in Module.locations THEN Breadcrumbs(s.scene)
             ELSE LET parent == ContainmentParent(s, s.scene)
                  IN  IF parent \in Module.locations THEN Append(Breadcrumbs(parent), s.scene)
                      ELSE <<s.scene>>,
   position |-> At(s.context, a, None)]
=============================================================================
