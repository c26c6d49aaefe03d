------------------------------ MODULE MCBarnes ------------------------------
(* Three bodies close to each other, which need cells of cells, and one apart. *)
EXTENDS Barnes, TLC

CONSTANTS b1, b2, b3, b4

MCPlaces ==
  { (b1 :> <<0, 0, 0, 0>>) @@ (b2 :> <<0, 1, 0, 0>>) @@ (b3 :> <<0, 0, 1, 0>>) @@ (b4 :> <<1, 0, 0, 0>>) }

MCChildSequence == <<<<0, 1>>, <<1, 0>>, <<0, 1>>, <<1, 0>>>>

=============================================================================
