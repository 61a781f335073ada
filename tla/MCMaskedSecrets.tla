---------------------------- MODULE MCMaskedSecrets ----------------------------
(***************************************************************************)
(* Small instances of MaskedSecrets for TLC.                               *)
(***************************************************************************)
EXTENDS MaskedSecrets

CONSTANTS apiKey, password

(* A new value each time: no value of a field ever comes back.             *)
FreshRotations == {r \in Assignments \X Assignments :
  r[1] # r[2] /\ \A f \in Fields : r[1][f] <= r[2][f]}

(* Where values are new each time, the order of the values is one in which *)
(* no digest comes back.                                                   *)
Newer == {r \in Assignments \X Assignments : \A f \in Fields : r[1][f] <= r[2][f]}
ASSUME FreshRotationsGoForth == Rotations \subseteq Newer => GoesForth(Newer)

AnyRotations == {r \in Assignments \X Assignments : r[1] # r[2]}
=============================================================================
