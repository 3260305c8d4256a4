-------------------------- MODULE MCGatewaySockets --------------------------
(***************************************************************************)
(* Instances of GatewaySockets.  The safety run opens three connections,   *)
(* so that an end of the first can fall between two later ones; neither    *)
(* connections nor messages are told apart by anything but their identity. *)
(***************************************************************************)
EXTENDS GatewaySockets, TLC

Symmetry == Permutations(Conns) \union Permutations(Messages)
=============================================================================
