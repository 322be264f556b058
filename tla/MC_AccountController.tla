------------------------- MODULE MC_AccountController -------------------------
(***************************************************************************)
(* Small instances of AccountController for TLC: up to two ConfigMaps whose *)
(* Secrets are their own names (one ConfigMap may name the other's Secret) *)
(* and two contact lists.                                                  *)
(***************************************************************************)
EXTENDS AccountController, TLC

CONSTANTS c1, c2, x1, x2

MC_OneCM == {c1}
MC_TwoCMs == {c1, c2}
MC_Contacts == {x1, x2}
MC_Symmetry == Permutations(MC_Contacts)

=============================================================================
