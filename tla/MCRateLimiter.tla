--------------------------- MODULE MCRateLimiter ---------------------------
(* Three client IPs, two calls per window of two ticks, a cleanup beyond two
   keys: with three IPs every order of cleanups and lockouts occurs. *)
EXTENDS RateLimiter, TLC

Symmetry == Permutations(Key)
=============================================================================
