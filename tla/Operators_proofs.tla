---------------------------- MODULE Operators_proofs ----------------------------
(* Proofs about Operators, for any number of pods, namespaces and flags.   *)
EXTENDS Operators, TLAPS

USE OperatorsAssumption

(* Every controller is in one binary only (allControllers of the nine main *)
(* packages).                                                              *)
LEMMA ControllersAreDisjoint ==
  \A b, c \in Binaries : b # c => b.controllers \cap c.controllers = {}
  BY DEF Binaries, Binary, automation, curation, downloads, indexers, mediaservers, pvr,
         requests, subtitles, transcode

LEMMA LeaseOfType == ASSUME NEW p \in Pods PROVE LeaseOf(p) \in Leases
  BY DEF LeaseOf, Leases

(* The holder of a lease is a pod that leads, until it stops leading, for  *)
(* every deployment and sequence of updates, terminations and crashes.     *)
THEOREM Invariance == Spec => []IInv
<1>1. Init => IInv
  BY DEF Init, IInv, TypeOK, LeadersHold, Leading, Working
<1>2. IInv /\ [Next]_vars => IInv'
  <2> SUFFICES ASSUME IInv, [Next]_vars PROVE IInv'
    OBVIOUS
  <2> USE LeaseOfType DEF IInv, TypeOK, LeadersHold, Leading, Working, Enter
  <2>1. ASSUME NEW p \in Pods, Launch(p) PROVE IInv'
    BY <2>1 DEF Launch
  <2>2. ASSUME NEW p \in Pods, Start(p) PROVE IInv'
    BY <2>2 DEF Start
  <2>3. ASSUME NEW p \in Pods, Acquire(p) PROVE IInv'
    <3>1. TypeOK'
      BY <2>3 DEF Acquire
    <3>2. ASSUME NEW q \in Pods, Leading(q)' PROVE lease'[LeaseOf(q)'] = q
      <4>1. CASE q = p
        BY <2>3, <4>1 DEF Acquire, LeaseOf
      <4>2. CASE q # p
        <5>1. Leading(q) /\ lease[LeaseOf(q)] = q
          BY <2>3, <3>2, <4>2 DEF Acquire
        <5>2. LeaseOf(q) # LeaseOf(p)
          BY <2>3, <5>1 DEF Acquire
        <5> QED
          BY <2>3, <5>1, <5>2 DEF Acquire, LeaseOf
      <4> QED
        BY <4>1, <4>2
    <3> QED
      BY <3>1, <3>2
  <2>4. ASSUME NEW p \in Pods, Terminate(p) PROVE IInv'
    BY <2>4 DEF Terminate
  <2>5. ASSUME NEW p \in Pods, Drained(p) PROVE IInv'
    BY <2>5 DEF Drained
  <2>6. ASSUME NEW p \in Pods, Exit(p) PROVE IInv'
    BY <2>6 DEF Exit
  <2>7. ASSUME NEW l \in Leases, Lapse(l) PROVE IInv'
    <3>1. TypeOK'
      BY <2>7 DEF Lapse
    <3>2. ASSUME NEW q \in Pods, Leading(q)' PROVE lease'[LeaseOf(q)'] = q
      <4>1. Leading(q) /\ lease[LeaseOf(q)] = q
        BY <2>7, <3>2 DEF Lapse
      <4>2. LeaseOf(q) # l
        BY <2>7, <4>1 DEF Lapse
      <4> QED
        BY <2>7, <4>1, <4>2 DEF Lapse, LeaseOf
    <3> QED
      BY <3>1, <3>2
  <2>8. CASE UNCHANGED vars
    BY <2>8 DEF vars, LeaseOf
  <2> QED
    BY <2>1, <2>2, <2>3, <2>4, <2>5, <2>6, <2>7, <2>8 DEF Next, PodStep
<1> QED
  BY <1>1, <1>2, PTL DEF Spec

(* The invariant implies exclusion: pods of one binary and one namespace   *)
(* compete for one lease, pods of two binaries have no kind in common,     *)
(* pods of two namespaces that watch their own have no namespace in common. *)
LEMMA Exclusion == IInv => OneReconciler
<1> SUFFICES ASSUME IInv, NEW p \in Pods, NEW q \in Pods, p # q,
                    pod[p].flags.elect, pod[q].flags.elect,
                    Work(p) \cap Work(q) # {}
             PROVE  /\ Placement[p].home # Placement[q].home
                    /\ pod[p].flags.everywhere \/ pod[q].flags.everywhere
  BY DEF OneReconciler
<1>1. Leading(p) /\ Leading(q)
  BY DEF Work, Leading
<1>2. LeaseOf(p) # LeaseOf(q)
  BY <1>1 DEF IInv, LeadersHold
<1>3. Placement[p].binary = Placement[q].binary
  <2>1. Work(p) \subseteq Placement[p].binary.controllers \X Watched(p)
    BY DEF Work, resolveEnabledControllers
  <2>2. Work(q) \subseteq Placement[q].binary.controllers \X Watched(q)
    BY DEF Work, resolveEnabledControllers
  <2>3. Placement[p].binary.controllers \cap Placement[q].binary.controllers # {}
    BY <2>1, <2>2
  <2> QED
    BY <2>3, ControllersAreDisjoint
<1>4. Placement[p].home # Placement[q].home
  BY <1>2, <1>3 DEF LeaseOf
<1>5. Watched(p) \cap Watched(q) # {}
  BY DEF Work
<1> QED
  BY <1>4, <1>5 DEF Watched

(* At most one elected pod reconciles a kind in a namespace.               *)
THEOREM MutualExclusion == Spec => []OneReconciler
  BY Invariance, Exclusion, PTL
=============================================================================
