----------------------- MODULE MCPresentationTransition -----------------------
(* Instances of PresentationTransition for TLC. *)
EXTENDS PresentationTransition, TLC

Symmetry == Permutations(Runners) \cup Permutations(Operations)

\* Bounds of the run with two runners.  While one run overlaps another, the
\* session, the dock and the game hold still and nobody dies; after a death
\* nobody acknowledges and one runner is at work at a time.
Bounds ==
  /\ clobbered => /\ deaths = 0 /\ session = "portable"
                  /\ dock = "ready" /\ game = "idle"
  /\ deaths > 0 => /\ clearing = {}
                   /\ \A r, s \in Runners : pc[r] # "idle" /\ pc[s] # "idle" => r = s
===============================================================================
