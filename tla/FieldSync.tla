------------------------------- MODULE FieldSync -------------------------------
(***************************************************************************)
(* One field of one payload, between the custom resource that may declare  *)
(* it and the application that holds its value.  A pass takes a snapshot   *)
(* (of the resource and, where the controller reads before it writes, of   *)
(* the application) and then writes, or finds nothing to write; users      *)
(* change both sides at any time, also between the two.                    *)
(*                                                                         *)
(* How a payload is written (mode):                                        *)
(*   overlay   settings: read, overlay the declared fields, and write the  *)
(*             whole document back if that changed it                      *)
(*   items     the same for a resource of a list, created if missing       *)
(*   partial   settings: only what is declared is sent, on every pass      *)
(*   upsert    the same for a resource of a list                           *)
(*   create    created if missing and never touched again                  *)
(***************************************************************************)
EXTENDS Fields, Naturals

CONSTANTS
  Payloads,   \* set of [kinds, rules, mode, observed, contested]
  MaxEdits,   \* bound on edits of the custom resource
  MaxHands,   \* bound on changes made by hand in the application
  MaxFaults   \* bound on failed requests

Modes == {"overlay", "items", "partial", "upsert", "create"}
Route(p, f) ==
  [kind |-> p.kinds[f], rule |-> IF f \in DOMAIN p.rules THEN p.rules[f] ELSE "never",
   mode |-> p.mode, observed |-> p.observed, contested |-> f \in p.contested]
Routes == UNION {{Route(p, f) : f \in DOMAIN p.kinds} : p \in Payloads}

ASSUME RoutesAssumption ==
  Routes \subseteq [kind : Kinds, rule : Rules, mode : Modes, observed : BOOLEAN,
                    contested : BOOLEAN]
(* A field that cannot be nil is not compared with nil.                     *)
ASSUME NilAssumption ==
  \A r \in Routes : r.kind \in {"value", "entries"} => r.rule \notin {"set", "orDefault"}
(* Lists of named objects are only told apart where they are merged.        *)
ASSUME ListsAssumption ==
  \A r \in Routes : r.kind = "entries" => r.mode \in {"overlay", "items", "create"}
(* Two sections send the same key only where neither is observed.           *)
ASSUME ContestedAssumption ==
  \A r \in Routes : r.contested => ~r.observed
ASSUME BoundsAssumption == {MaxEdits, MaxHands, MaxFaults} \subseteq Nat

VARIABLES
  route,      \* of the field: its kind, rule and mode (never changes)
  keeps,      \* the application keeps what a partial request leaves out (never changes)
  masks,      \* the application shows the field as asterisks (never changes)
  rival,      \* what a later section of the pass sends for the same key (never changes)
  observing,  \* driftPolicy: observe (never changes)
  written,    \* what the user has written in the custom resource
  app,        \* the value the application holds
  other,      \* another declared field of the payload differs
  pc,         \* the controller: "idle", or "read" with a snapshot in its hands
  snap,       \* that snapshot
  report,     \* the last observing pass found a difference
  raced,      \* history: the application was changed since the snapshot
  spent       \* the bounds used up

vars == <<route, keeps, masks, rival, observing, written, app, other, pc, snap, report, raced,
          spent>>
fixed == <<route, keeps, masks, rival, observing>>

(* The application's own initial value, and a resource that is missing.    *)
Own == {"own"}
Gone == {"gone"}
Scalars == {Zero, Default, Own} \cup Other
Held == SUBSET UNION Scalars
Listed == route.mode \in {"items", "upsert", "create"}

Init ==
  /\ route \in Routes
  /\ keeps \in (IF route.mode \in {"partial", "upsert"} THEN BOOLEAN ELSE {TRUE})
  /\ masks \in (IF route.mode = "items" /\ route.kind # "entries" THEN BOOLEAN ELSE {FALSE})
  /\ rival \in (IF route.contested THEN {None} \cup Other ELSE {None})
  /\ observing \in (IF route.observed THEN BOOLEAN ELSE {FALSE})
  /\ written \in Writable(route.kind)
  /\ app = IF Listed THEN Gone ELSE Own
  /\ other = FALSE /\ pc = "idle"
  /\ snap = [written |-> written, app |-> app, other |-> FALSE, unsent |-> FALSE]
  /\ report = FALSE /\ raced = FALSE
  /\ spent = [edits |-> 0, hands |-> 0, faults |-> 0]

Spend(what, bound) == spent[what] < bound /\ spent' = [spent EXCEPT ![what] = @ + 1]

-----------------------------------------------------------------------------
(* The controller.                                                         *)

Request == Sent(route.kind, route.rule, snap.written)

(* Of a secret, the pass knows only whether it is the one this process has *)
(* sent before, by the digest it keeps (MaskedSecrets). No payload of      *)
(* settings has one.                                                       *)
Masked(value) == masks /\ value \notin {Zero, Gone}
Unsent == IF Masked(app) THEN BOOLEAN ELSE {FALSE}

(* Mutant: works on the document fetched by the pass before.               *)
FaultyRead ==
  /\ pc = "idle" /\ pc' = "read"
  /\ snap' = [snap EXCEPT !.written = written]
  /\ raced' = FALSE
  /\ UNCHANGED <<fixed, written, app, other, report, spent>>
Read ==
  /\ pc = "idle" /\ pc' = "read"
  /\ \E unsent \in Unsent :
       snap' = [written |-> written, app |-> app, other |-> other, unsent |-> unsent]
  /\ raced' = FALSE
  /\ UNCHANGED <<fixed, written, app, other, report, spent>>

(* mergeValue: two lists of named objects are merged by name; an empty one *)
(* is no such list, and is replaced or replaces like any other value.      *)
(* Mutant: every list is replaced.                                         *)
FaultyMerged == IF Request = None THEN snap.app ELSE Request
Merged ==
  IF Request = None THEN snap.app
  ELSE IF route.kind = "entries" /\ Zero \notin {snap.app, Request} THEN snap.app \cup Request
  ELSE Request

(* MergeDesired and the digest: the declared fields against the current    *)
(* document, of which a masked field tells nothing.                        *)
Changed == (Merged # snap.app /\ ~Masked(snap.app)) \/ snap.unsent \/ snap.other

Compared == route.mode \in {"overlay", "items"}
InPlace == snap.app # Gone /\ ((Compared /\ ~Changed) \/ route.mode = "create")

Created == IF Request = None THEN Own ELSE Request
(* A mask that is written back is not taken for a value.                   *)
Overlaid == IF Request = None /\ Masked(snap.app) THEN app ELSE Merged
Patched == IF Request = None THEN (IF keeps THEN app ELSE Own) ELSE Request

(* What the application makes of the request. What is to be created may    *)
(* exist by then, and what is to be updated may be gone: both are refused. *)
Updated ==
  IF Compared THEN Overlaid ELSE IF route.mode = "create" THEN app ELSE Patched
Result ==
  IF snap.app = Gone THEN (IF app = Gone THEN Created ELSE app)
  ELSE IF app = Gone THEN Gone ELSE Updated

Final == IF rival = None THEN Result ELSE rival
Write ==
  /\ pc = "read" /\ ~observing /\ ~InPlace /\ pc' = "idle"
  /\ app' = Final /\ other' = FALSE
  /\ UNCHANGED <<fixed, written, snap, report, raced, spent>>

Settle ==
  /\ pc = "read" /\ ~observing /\ InPlace /\ pc' = "idle"
  /\ UNCHANGED <<fixed, written, app, other, snap, report, raced, spent>>

(* Mutant: what is missing counts only if something is declared.           *)
FaultyDifference == route.mode # "create" /\ Changed
(* ObserveDifference; of what is created only, existence counts.           *)
Difference == snap.app = Gone \/ (route.mode # "create" /\ Changed)

Observe ==
  /\ pc = "read" /\ observing /\ pc' = "idle"
  /\ report' = Difference
  /\ UNCHANGED <<fixed, written, app, other, snap, raced, spent>>

(* A request fails, or the process dies; of two sections that send the     *)
(* same key, one may have been answered.                                   *)
Fail ==
  /\ pc = "read" /\ Spend("faults", MaxFaults) /\ pc' = "idle"
  /\ app' \in {app} \cup (IF rival = None THEN {} ELSE {Result, rival})
  /\ UNCHANGED <<fixed, written, other, snap, report, raced>>

-----------------------------------------------------------------------------
(* The users.                                                              *)

Edit ==
  /\ Spend("edits", MaxEdits)
  /\ written' \in Writable(route.kind) \ {written}
  /\ UNCHANGED <<fixed, app, other, pc, snap, report, raced>>

HandChange ==
  /\ Spend("hands", MaxHands)
  /\ app' \in ((IF route.kind = "entries" THEN Held ELSE Scalars)
                \cup (IF Listed THEN {Gone} ELSE {})) \ {app}
  /\ raced' = TRUE
  /\ UNCHANGED <<fixed, written, other, pc, snap, report>>

Disturb ==
  /\ Spend("hands", MaxHands) /\ ~other /\ app # Gone
  /\ other' = TRUE
  /\ UNCHANGED <<fixed, written, app, pc, snap, report, raced>>

Controller == Read \/ Write \/ Settle \/ Observe
Next == Controller \/ Fail \/ Edit \/ HandChange \/ Disturb
Spec == Init /\ [][Next]_vars
FairSpec == Spec /\ WF_vars(Read) /\ WF_vars(Write \/ Settle \/ Observe)

-----------------------------------------------------------------------------
(* Properties.                                                             *)

Snapshots ==
  [written : UNION {Writable(k) : k \in Kinds}, app : Held \cup {Gone}, other : BOOLEAN,
   unsent : BOOLEAN]

(* Every variable has its type, and a snapshot that no change by hand has  *)
(* overtaken still shows what the application holds.                       *)
TypeOK ==
  /\ route \in Routes /\ {keeps, masks, observing, other, report, raced} \subseteq BOOLEAN
  /\ rival \in {None} \cup Other /\ (rival # None => route.contested)
  /\ (masks => route.mode = "items") /\ (observing => route.observed)
  /\ written \in Writable(route.kind) /\ app \in Held \cup {Gone}
  /\ pc \in {"idle", "read"} /\ snap \in Snapshots
  /\ spent \in [edits : 0..MaxEdits, hands : 0..MaxHands, faults : 0..MaxFaults]
Unovertaken == pc = "read" /\ ~raced => snap.app = app
IInv == TypeOK /\ Unovertaken

(* A field that is sent even when the user has written nothing.            *)
Enforced == route.kind = "preset" \/ route.rule \in {"always", "orDefault", "orDerived"}

(* MergeDesiredOverCurrent: "Fields not set in desired are preserved from  *)
(* current", and mergeValue: 'a partial "fields" array does not discard    *)
(* entries the CR omitted'. What the user has not declared, a field or an  *)
(* entry of a list, stays what it is, whatever else of the payload is      *)
(* written, unless the field is enforced, an empty list is sent, another   *)
(* section sends the field, the application forgets what a partial request *)
(* leaves out, or the document that is written back was read before a      *)
(* change made by hand.                                                    *)
UndeclaredSurvives ==
  [][pc = "read" /\ pc' = "idle" /\ snap.app # Gone /\ keeps /\ rival = None /\ ~raced
     => /\ snap.written = None /\ ~Enforced => app' = app
        /\ route.kind = "entries" /\ Request # Zero => app \subseteq app']_vars

(* Once the users are still, a declared value is in force for good, every  *)
(* declared entry is in its list, and an enforced field that is not        *)
(* declared has its default. Of two sections that send the same key the    *)
(* later one prevails. Three kinds of declaration never arrive: fields     *)
(* that are never sent, those of what is only created, and an empty        *)
(* string, number or list where the code that builds the request cannot    *)
(* tell it from none. A pointer always can. And a field the application    *)
(* masks may have been changed by hand unnoticed: "Masked credentials      *)
(* cannot be verified by reading the application."                         *)
Arrives ==
  /\ ~observing /\ ~masks /\ route.rule # "never" /\ route.mode # "create"
  /\ ~(/\ written = Zero /\ route.kind \in {"value", "entries", "required"}
       /\ route.rule \in {"nonempty", "orDerived"})
InForce ==
  IF rival # None THEN app = rival
  ELSE IF written = None THEN (Enforced => app \in {Default, Zero})
  ELSE IF written = Zero THEN app = Zero
  ELSE IF route.kind = "entries" THEN written \subseteq app
  ELSE app = written
DeclaredPrevails == <>[](Arrives => InForce)

(* "observe leaves the app untouched and only counts the difference": it   *)
(* counts one if and only if a pass that enforces would change something,  *)
(* or send a secret this process has not sent before.                      *)
WouldChange == ~InPlace /\ (Result # app \/ other \/ snap.unsent)
ObserveForetells ==
  [][pc = "read" /\ pc' = "idle" /\ observing /\ spent' = spent /\ keeps /\ ~raced
       /\ other = snap.other
     => report' = WouldChange]_vars
=============================================================================
