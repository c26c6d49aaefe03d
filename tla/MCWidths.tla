------------------------------ MODULE MCWidths ------------------------------
(* Widths with configurations that are powers of two and some that are not. *)
EXTENDS Widths

MCConfigs ==
  [total_processors : {2, 3}, num_sets : {2, 3, 4}, line_size : {2, 3}]

=============================================================================
