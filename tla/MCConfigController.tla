--------------------------- MODULE MCConfigController ---------------------------
(* Instances of ConfigController for TLC.                                  *)
EXTENDS ConfigControllerProps

CONSTANTS a, b, v, w, formats, profiles, folders

Nothing == [k \in Kinds |-> [n \in Names |-> Absent]]
Full == [k \in Kinds |-> [n \in Names |-> v]]
Want(k, n, x) == [l \in Kinds |-> [m \in Names |-> IF l = k /\ m = n THEN x ELSE Absent]]
Enforce(d, p, del) == [desired |-> d, prune |-> p, observe |-> FALSE, delete |-> del]
Observe(d, p, del) == [desired |-> d, prune |-> p, observe |-> TRUE, delete |-> del]

(* One prunable kind, two names, two values: declarations move between the *)
(* two names while pruning and observing are switched. Deleted under the   *)
(* first spec, both are candidates: more than the threshold allows.        *)
OneKind == {formats}
OneOrder == <<formats>>
PruneSpecs ==
  {Enforce(Full, FALSE, TRUE), Enforce(Want(formats, a, w), TRUE, FALSE),
   Observe(Want(formats, b, v), TRUE, FALSE)}

(* Formats before the profiles that refer to them: staging, and cleanup in *)
(* reverse.                                                                *)
TwoKinds == {formats, profiles}
TwoOrder == <<formats, profiles>>
DeletionSpecs == {Enforce(Full, TRUE, TRUE), Enforce(Full, FALSE, FALSE),
                  Observe(Full, FALSE, TRUE)}

(* Root folders are create-only and never pruned; the profiles are applied  *)
(* in a stage of their own. An edit declares another profile, with another *)
(* value: the one declared before is then owned and undeclared.            *)
FolderKinds == {folders, profiles}
FolderOrder == <<folders, profiles>>
FolderSpecs ==
  {Enforce([d EXCEPT ![folders][a] = v], TRUE, FALSE) :
     d \in {Want(profiles, a, v), Want(profiles, b, w)}}

(* Made by hand before the resource exists: anything of the first name.    *)
FolderInit == Init /\ \A k \in Kinds : app[k][b] = Absent
FolderSpec == FolderInit /\ [][Next]_vars /\ Fairness
=============================================================================
