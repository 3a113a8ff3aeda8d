--------------------------- MODULE MCSisenseAuth ---------------------------
(***************************************************************************)
(* Values for the constants of SisenseAuth.  One resource names a Sisense  *)
(* instance and one does not; the .cfg files give the origins allowed.     *)
(***************************************************************************)
EXTENDS SisenseAuth, TLC

CONSTANTS acme, globex, withTarget, plain

MCResource == {withTarget, plain}
MCTargetOf == [r \in Resource |-> IF r = withTarget THEN acme ELSE NoTarget]

Symmetry == Permutations(User) \cup Permutations(Post)
=============================================================================
