--------------------------- MODULE MCCallControl ---------------------------
(* Two calls at once, after which others may come in their place: a quiet     *)
(* life, and the same with a hasty user, with re-INVITEs that cross others or *)
(* cannot be sent, with refusals, and with INVITEs that make no offer.        *)
EXTENDS CallControl, TLC

Quiet == [hasty |-> FALSE, collide |-> FALSE, refuse |-> FALSE,
          busy |-> FALSE, bare |-> FALSE, mute |-> FALSE]

SettingsValue ==
    {Quiet, [Quiet EXCEPT !.hasty = TRUE],
     [Quiet EXCEPT !.collide = TRUE, !.busy = TRUE],
     [Quiet EXCEPT !.refuse = TRUE], [Quiet EXCEPT !.bare = TRUE]}

Symmetry == Permutations(Calls)
============================================================================
