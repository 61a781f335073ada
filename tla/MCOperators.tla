------------------------------- MODULE MCOperators -------------------------------
(* An installation with two pods of a binary that overlap in an update,    *)
(* one of another binary beside them, and one in another namespace.        *)
EXTENDS Operators, TLC

CONSTANTS p1, p2, p3, p4

Place(b, home) == [binary |-> b, home |-> home]
FourPods ==
  p1 :> Place(indexers, "media") @@ p2 :> Place(indexers, "media")
    @@ p3 :> Place(mediaservers, "media") @@ p4 :> Place(indexers, "guests")

Chart == [elect |-> TRUE, enable |-> {"*"}, disable |-> {}, everywhere |-> FALSE]
Updates ==
  {Chart, [Chart EXCEPT !.disable = {"plex"}, !.everywhere = TRUE],
   [Chart EXCEPT !.elect = FALSE, !.enable = {"prowlarr", "jellyfin"}]}
=============================================================================
