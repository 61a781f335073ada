---------------------------- MODULE OwnershipContract ----------------------------
(***************************************************************************)
(* What the operator promises to the users of an application it shares     *)
(* with them, without passes, caches or requests: it creates resources and *)
(* corrects them, it removes only resources it has earned by creating one  *)
(* of that name, and the ledger it keeps names only earned resources and   *)
(* drops none that is still alive.                                         *)
(***************************************************************************)
EXTENDS Naturals

CONSTANTS Kinds, Prunable, CreateOnly, Names, Vals, Absent

VARIABLES
  app,     \* the resources: [Kinds -> [Names -> Absent or [by, val]]]
  earned,  \* names whose creation by the operator was acknowledged, by kind
  ledger,  \* names the operator considers its own, by kind
  hands    \* how many changes users have made

vars == <<app, earned, ledger, hands>>

Init ==
  /\ app \in [Kinds -> [Names -> [by : {"hand"}, val : Vals] \cup {Absent}]]
  /\ earned = [k \in Kinds |-> {}]
  /\ ledger = [k \in Kinds |-> {}]
  /\ hands = 0

Put(k, n, cell) == app' = [app EXCEPT ![k][n] = cell]

(* The acknowledgement of a creation may be lost: it earns nothing then.   *)
Create(k, n, x) ==
  /\ app[k][n] = Absent
  /\ Put(k, n, [by |-> "operator", val |-> x])
  /\ earned' \in {earned, [earned EXCEPT ![k] = @ \cup {n}]}
  /\ UNCHANGED <<ledger, hands>>

(* A correction leaves the origin of a resource as it was.                 *)
Correct(k, n, x) ==
  /\ k \notin CreateOnly
  /\ app[k][n] # Absent
  /\ Put(k, n, [app[k][n] EXCEPT !.val = x])
  /\ UNCHANGED <<earned, ledger, hands>>

Remove(k, n) ==
  /\ k \in Prunable
  /\ n \in earned[k]
  /\ Put(k, n, Absent)
  /\ UNCHANGED <<earned, ledger, hands>>

Alive(k, n) == app[k][n] # Absent /\ app[k][n].by = "operator"

Record(new) ==
  /\ \A k \in Kinds :
       /\ new[k] \subseteq earned[k]
       /\ \A n \in ledger[k] \ new[k] : ~Alive(k, n)
  /\ ledger' = new
  /\ UNCHANGED <<app, earned, hands>>

(* Users do as they please, and what they create is theirs.                *)
ByHand(k, n) ==
  /\ hands' = hands + 1
  /\ \/ Put(k, n, Absent)
     \/ \E x \in Vals : Put(k, n, IF app[k][n] = Absent THEN [by |-> "hand", val |-> x]
                                  ELSE [app[k][n] EXCEPT !.val = x])
  /\ UNCHANGED <<earned, ledger>>

Next ==
  \/ \E k \in Kinds, n \in Names :
       \/ \E x \in Vals : Create(k, n, x) \/ Correct(k, n, x)
       \/ Remove(k, n) \/ ByHand(k, n)
  \/ \E new \in [Kinds -> SUBSET Names] : Record(new)

Spec == Init /\ [][Next]_vars
=============================================================================
