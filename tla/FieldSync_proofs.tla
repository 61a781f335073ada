---------------------------- MODULE FieldSync_proofs ----------------------------
(***************************************************************************)
(* For every table of payloads whose rows are well-formed: the types and   *)
(* the snapshot invariant of FieldSync, what a pass may do to a field that *)
(* is not declared, and what an observing pass reports.                    *)
(***************************************************************************)
EXTENDS FieldSync, TLAPS

(* No declaration, no resource and every value held are different things.  *)
LEMMA Distinct ==
  /\ Scalars \subseteq Held
  /\ None \notin Held /\ Gone \notin Held
  /\ Zero \in Scalars /\ Default \in Scalars /\ Own \in Scalars /\ Other \subseteq Scalars
<1>1. Scalars \subseteq Held
  BY Zenon DEF Held
<1>2. "none" \notin UNION Scalars /\ "gone" \notin UNION Scalars
  BY DEF Scalars, Zero, Default, Own, Other
<1>3. None \notin Held /\ Gone \notin Held
  BY <1>2 DEF Held, None, Gone
<1>. QED
  BY <1>1, <1>3 DEF Scalars

(* What is sent for a field: nothing, or one of the values it can have.    *)
LEMMA SentType ==
  ASSUME NEW kind, NEW rule, NEW w \in {None, Zero} \cup Other
  PROVE  Sent(kind, rule, w) \in {None, Zero, Default} \cup Other
<1>1. Decode(kind, w) \in {None, Zero, Default} \cup Other
  BY DEF Decode
<1>. QED
  BY <1>1 DEF Sent, Send

LEMMA WritableType ==
  ASSUME NEW kind
  PROVE  Writable(kind) \subseteq {None, Zero} \cup Other
BY DEF Writable

(* A field that is neither declared nor enforced is not in the request.    *)
LEMMA NothingSent ==
  ASSUME NEW r \in Routes, r.kind # "preset",
         r.rule \notin {"always", "orDefault", "orDerived"}
  PROVE  Sent(r.kind, r.rule, None) = None
<1>1. r.rule \in {"set", "nonempty", "never"}
  BY RoutesAssumption DEF Rules
<1>2. CASE r.kind \in {"value", "entries"}
  <2>1. r.rule \in {"nonempty", "never"}
    BY <1>1, <1>2, NilAssumption
  <2>. QED
    BY <1>2, <2>1 DEF Sent, Send, Decode
<1>3. CASE r.kind \notin {"value", "entries"}
  BY <1>1, <1>3 DEF Sent, Send, Decode
<1>. QED
  BY <1>2, <1>3

(* What the application holds after a write.                               *)
LEMMA ResultType ==
  ASSUME IInv
  PROVE  /\ Request \in {None, Zero, Default} \cup Other
         /\ Created \in Held
         /\ Result \in Held \cup {Gone}
<1>1. snap.written \in {None, Zero} \cup Other
  BY WritableType DEF IInv, TypeOK, Snapshots
<1>2. Request \in {None, Zero, Default} \cup Other
  BY <1>1, SentType DEF Request
<1>3. Request = None \/ Request \in Held
  BY <1>2, Distinct
<1>4. Created \in Held
  BY <1>3, Distinct DEF Created
<1>5. snap.app \in Held \cup {Gone} /\ app \in Held \cup {Gone}
  BY DEF IInv, TypeOK, Snapshots
<1>6. ASSUME snap.app # Gone
      PROVE  Merged \in Held
  <2>1. ASSUME Request \in Held
        PROVE  snap.app \cup Request \in Held
    BY <1>5, <1>6, <2>1 DEF Held
  <2>. QED
    BY <1>3, <1>5, <1>6, <2>1 DEF Merged
<1>7. snap.app # Gone => Overlaid \in Held \cup {Gone}
  BY <1>5, <1>6 DEF Overlaid
<1>8. Patched \in Held \cup {Gone}
  BY <1>3, <1>5, Distinct DEF Patched
<1>9. Result \in Held \cup {Gone}
  BY <1>4, <1>5, <1>7, <1>8 DEF Result, Updated
<1>. QED
  BY <1>2, <1>4, <1>9

LEMMA InitIInv == Init => IInv
<1>. SUFFICES ASSUME Init PROVE IInv
  OBVIOUS
<1>1. route.kind \in Kinds /\ route.mode \in Modes /\ route.observed \in BOOLEAN
  BY RoutesAssumption DEF Init
<1>2. app \in Held \cup {Gone}
  BY Distinct DEF Init
<1>3. snap \in Snapshots
  BY <1>1, <1>2 DEF Init, Snapshots
<1>4. {keeps, masks, observing, other, report, raced} \subseteq BOOLEAN
  BY DEF Init
<1>5. spent \in [edits : 0..MaxEdits, hands : 0..MaxHands, faults : 0..MaxFaults]
  BY BoundsAssumption DEF Init
<1>6. rival \in {None} \cup Other /\ (rival # None => route.contested)
      /\ (masks => route.mode = "items") /\ (observing => route.observed)
  BY DEF Init
<1>. QED
  BY <1>2, <1>3, <1>4, <1>5, <1>6 DEF Init, IInv, TypeOK, Unovertaken

(* Spending keeps the bounds.                                              *)
LEMMA SpendType ==
  ASSUME IInv, NEW what, NEW bound,
         \/ what = "edits" /\ bound = MaxEdits
         \/ what = "hands" /\ bound = MaxHands
         \/ what = "faults" /\ bound = MaxFaults,
         Spend(what, bound)
  PROVE  /\ spent' \in [edits : 0..MaxEdits, hands : 0..MaxHands, faults : 0..MaxFaults]
         /\ spent' # spent
<1>1. spent \in [edits : 0..MaxEdits, hands : 0..MaxHands, faults : 0..MaxFaults]
  BY DEF IInv, TypeOK
<1>2. spent[what] \in Nat /\ spent[what] < bound
  BY <1>1, BoundsAssumption DEF Spend
<1>3. spent'[what] = spent[what] + 1
  BY <1>1 DEF Spend
<1>. QED
  BY <1>1, <1>2, <1>3, BoundsAssumption DEF Spend

(* Each action preserves the types and the snapshot invariant.             *)
LEMMA NextIInv == IInv /\ [Next]_vars => IInv'
<1>. SUFFICES ASSUME IInv, [Next]_vars PROVE IInv'
  OBVIOUS
<1>. USE DEF IInv, TypeOK, Unovertaken, fixed
<1>1. CASE Read
  <2>1. Unsent \subseteq BOOLEAN
    BY DEF Unsent
  <2>2. PICK unsent \in Unsent :
          snap' = [written |-> written, app |-> app, other |-> other, unsent |-> unsent]
    BY <1>1 DEF Read
  <2>3. written \in UNION {Writable(k) : k \in Kinds}
    BY RoutesAssumption
  <2>4. snap' \in Snapshots /\ snap'.app = app
    BY <2>1, <2>2, <2>3 DEF Snapshots
  <2>. QED
    BY <1>1, <2>4 DEF Read
<1>2. CASE Write
  <2>1. app' \in Held \cup {Gone}
    BY <1>2, ResultType, Distinct DEF Write, Final
  <2>. QED
    BY <1>2, <2>1 DEF Write
<1>3. CASE Settle
  BY <1>3 DEF Settle
<1>4. CASE Observe
  <2>1. Difference \in BOOLEAN
    BY DEF Difference, Changed, Snapshots, Masked
  <2>. QED
    BY <1>4, <2>1 DEF Observe
<1>5. CASE Fail
  <2>1. app' \in Held \cup {Gone}
    BY <1>5, ResultType, Distinct DEF Fail
  <2>. QED
    BY <1>5, <2>1, SpendType DEF Fail
<1>6. CASE Edit
  BY <1>6, SpendType DEF Edit
<1>7. CASE HandChange
  BY <1>7, SpendType, Distinct DEF HandChange
<1>8. CASE Disturb
  BY <1>8, SpendType DEF Disturb
<1>9. CASE UNCHANGED vars
  BY <1>9 DEF vars
<1>. QED
  BY <1>1, <1>2, <1>3, <1>4, <1>5, <1>6, <1>7, <1>8, <1>9 DEF Next, Controller

(* Type correctness, and a snapshot nobody has overtaken is true.          *)
THEOREM Invariance == Spec => []IInv
<1>. QED
  BY InitIInv, NextIInv, PTL DEF Spec

-----------------------------------------------------------------------------
(* A pass, when no other section is at work on the field, leaves the field *)
(* alone or makes it Result.                                               *)
LEMMA PassEffect ==
  ASSUME IInv, Next, pc = "read", pc' = "idle", rival = None
  PROVE  app' \in {app, Result}
<1>1. CASE Write
  BY <1>1 DEF Write, Final
<1>2. CASE Settle \/ Observe \/ Fail
  BY <1>2 DEF Settle, Observe, Fail
<1>3. ~Read /\ ~Edit /\ ~HandChange /\ ~Disturb
  BY DEF Read, Edit, HandChange, Disturb
<1>. QED
  BY <1>1, <1>2, <1>3 DEF Next, Controller

(* What the user has not declared, a field or an entry of a list, survives *)
(* every write of the payload.                                             *)
THEOREM Survival == Spec => UndeclaredSurvives
<1>1. IInv /\ [Next]_vars =>
        [pc = "read" /\ pc' = "idle" /\ snap.app # Gone /\ keeps /\ rival = None /\ ~raced
           => /\ snap.written = None /\ ~Enforced => app' = app
              /\ route.kind = "entries" /\ Request # Zero => app \subseteq app']_vars
  <2>. SUFFICES ASSUME IInv, Next, pc = "read", pc' = "idle", snap.app # Gone, keeps,
                       rival = None, ~raced
                PROVE  /\ snap.written = None /\ ~Enforced => app' = app
                       /\ route.kind = "entries" /\ Request # Zero => app \subseteq app'
    BY DEF vars
  <2>1. snap.app = app
    BY DEF IInv, Unovertaken
  <2>2. app' \in {app, Result}
    BY PassEffect
  <2>3. ASSUME snap.written = None, ~Enforced
        PROVE  Result = app
    <3>1. Request = None
      BY <2>3, NothingSent DEF Request, Enforced, IInv, TypeOK
    <3>. QED
      BY <2>1, <3>1 DEF Result, Updated, Overlaid, Merged, Patched
  <2>4. ASSUME route.kind = "entries", Request # Zero
        PROVE  app \subseteq Result
    <3>1. app \subseteq Merged
      BY <2>1, <2>4 DEF Merged, Zero
    <3>2. route.mode \in {"overlay", "items", "create"}
      BY <2>4, ListsAssumption DEF IInv, TypeOK
    <3>. QED
      BY <2>1, <3>1, <3>2 DEF Result, Updated, Compared, Overlaid
  <2>. QED
    BY <2>2, <2>3, <2>4
<1>. QED
  BY <1>1, Invariance, PTL DEF Spec, UndeclaredSurvives

-----------------------------------------------------------------------------
(* With a true snapshot, what is compared is what would be written.        *)
LEMMA DifferenceIsChange ==
  ASSUME IInv, pc = "read", keeps, ~raced, other = snap.other
  PROVE  Difference = WouldChange
<1>1. snap.app = app
  BY DEF IInv, Unovertaken
<1>2. Created # Gone
  BY ResultType, Distinct
<1>3. CASE snap.app = Gone
  <2>1. Result = Created
    BY <1>1, <1>3 DEF Result
  <2>2. Difference /\ ~InPlace
    BY <1>3 DEF Difference, InPlace
  <2>3. Result # app
    BY <1>1, <1>2, <1>3, <2>1
  <2>. QED
    BY <2>2, <2>3 DEF WouldChange, Difference
<1>4. CASE snap.app # Gone
  <2>. snap.other \in BOOLEAN
    BY DEF IInv, TypeOK, Snapshots
  <2>1. route.mode \in Modes
    BY RoutesAssumption DEF IInv, TypeOK
  <2>2. CASE route.mode = "create"
    BY <1>4, <2>2 DEF Difference, WouldChange, InPlace, Compared
  <2>3. CASE route.mode \in {"overlay", "items"}
    <3>1. Result = Overlaid
      BY <1>1, <1>4, <2>3 DEF Result, Updated, Compared
    <3>2. InPlace = ~Changed
      BY <1>4, <2>3 DEF InPlace, Compared
    <3>. QED
      BY <1>1, <1>4, <2>3, <3>1, <3>2 DEF Difference, WouldChange, Changed, Overlaid
  <2>4. CASE route.mode \in {"partial", "upsert"}
    <3>1. Result = Patched
      BY <1>1, <1>4, <2>4 DEF Result, Updated, Compared
    <3>2. ~InPlace
      BY <1>4, <2>4 DEF InPlace, Compared
    <3>3. ~Masked(snap.app)
      BY <2>4 DEF Masked, IInv, TypeOK
    <3>4. Merged = Patched
      BY <1>1, <2>4, ListsAssumption DEF Merged, Patched, IInv, TypeOK
    <3>. QED
      BY <1>1, <1>4, <2>4, <3>1, <3>2, <3>3, <3>4 DEF Difference, WouldChange, Changed
  <2>. QED
    BY <2>1, <2>2, <2>3, <2>4 DEF Modes
<1>. QED
  BY <1>3, <1>4

(* An observing pass reports a difference exactly when enforcing would     *)
(* change something.                                                       *)
THEOREM Foretold == Spec => ObserveForetells
<1>1. IInv /\ [Next]_vars =>
        [pc = "read" /\ pc' = "idle" /\ observing /\ spent' = spent /\ keeps /\ ~raced
           /\ other = snap.other => report' = WouldChange]_vars
  <2>. SUFFICES ASSUME IInv, Next, pc = "read", pc' = "idle", observing, spent' = spent, keeps,
                       ~raced, other = snap.other
                PROVE  report' = WouldChange
    BY DEF vars
  <2>1. CASE Observe
    BY <2>1, DifferenceIsChange DEF Observe
  <2>2. ~Fail
    BY SpendType DEF Fail
  <2>3. ~Read /\ ~Write /\ ~Settle /\ ~Edit /\ ~HandChange /\ ~Disturb
    BY DEF Read, Write, Settle, Edit, HandChange, Disturb
  <2>. QED
    BY <2>1, <2>2, <2>3 DEF Next, Controller
<1>. QED
  BY <1>1, Invariance, PTL DEF Spec, ObserveForetells
=============================================================================
