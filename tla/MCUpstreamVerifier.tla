------------------------ MODULE MCUpstreamVerifier ------------------------
(* Two allowed pairs and one that is not, two requests in flight, one entry of
   memory: every answer can be late, reordered, or find its entry evicted. *)
EXTENDS UpstreamVerifier, TLC

CONSTANTS alice, bob, mallory

MCAllowed == {alice, bob}
Symmetry == Permutations(Request) \cup Permutations(MCAllowed)
=============================================================================
