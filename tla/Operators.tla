-------------------------------- MODULE Operators --------------------------------
(***************************************************************************)
(* The nine operator processes of cmd/: which controllers each one runs,   *)
(* the flags that switch them, and the leader election that lets one pod   *)
(* of an installation work at a time. A pod starts, sets up its            *)
(* controllers, waits for the lease of its binary in its own namespace,    *)
(* works, and stops; during an update pods with old and new flags overlap. *)
(* The lease itself is controller-runtime's: who cannot renew it exits     *)
(* before it lapses, and who is told to stop finishes its passes first.    *)
(***************************************************************************)
EXTENDS Naturals, FiniteSets

CONSTANTS
  Pods,
  Homes,       \* the namespaces
  Placement,   \* the binary a pod runs, and the namespace it lives in
  Templates,   \* the flags that pods are started with
  MaxStops,    \* bound on pods that stop
  NoPod

Binary(lease, controllers) == [lease |-> lease, controllers |-> controllers]

automation == Binary("media-operator-automation", {"autobrr"})
curation == Binary("media-operator-curation", {"maintainerr"})
downloads == Binary("media-operator-downloads", {"qbittorrent", "sabnzbd"})
indexers == Binary("media-operator-indexers", {"prowlarr", "flaresolverr"})
(* Mutant: an election ID copied from another binary.                      *)
FaultyMediaservers == Binary("media-operator-indexers", {"jellyfin", "plex"})
mediaservers == Binary("media-operator-mediaservers", {"jellyfin", "plex"})
pvr == Binary("media-operator-pvr", {"sonarr", "radarr", "lidarr", "readarr"})
requests == Binary("media-operator-requests", {"seerr"})
subtitles == Binary("media-operator-subtitles", {"bazarr"})
transcode == Binary("media-operator-transcode", {"tdarr"})
Binaries ==
  {automation, curation, downloads, indexers, mediaservers, pvr, requests, subtitles, transcode}

(* --leader-elect, --enable-controllers, --disable-controllers, and whether *)
(* --watch-namespace is left empty.                                        *)
Flags == [elect : BOOLEAN, enable : SUBSET STRING, disable : SUBSET STRING, everywhere : BOOLEAN]

ASSUME OperatorsAssumption ==
  /\ Placement \in [Pods -> [binary : Binaries, home : Homes]]
  /\ \A f \in Templates : f \in Flags
  /\ NoPod \notin Pods /\ MaxStops \in Nat

VARIABLES
  pod,    \* phase and flags of each pod
  lease,  \* the holder of each lease
  stops
vars == <<pod, lease, stops>>

(* A name the binary does not know is accepted, and enables nothing.       *)
resolveEnabledControllers(b, flags) ==
  {c \in b.controllers : (flags.enable = {"*"} \/ c \in flags.enable) /\ c \notin flags.disable}

Leases == {b.lease : b \in Binaries} \X Homes
LeaseOf(p) == <<Placement[p].binary.lease, Placement[p].home>>

Watched(p) == IF pod[p].flags.everywhere THEN Homes ELSE {Placement[p].home}
Working(p) == pod[p].phase \in {"active", "draining"}
Leading(p) == Working(p) /\ pod[p].flags.elect

(* What p reconciles: the kinds, and the namespaces of their resources.    *)
Work(p) ==
  IF Working(p)
  THEN resolveEnabledControllers(Placement[p].binary, pod[p].flags) \X Watched(p) ELSE {}

Init ==
  /\ pod \in [Pods -> [phase : {"down"}, flags : Templates]]
  /\ lease = [l \in Leases |-> NoPod]
  /\ stops = 0

Enter(p, phase) == pod' = [pod EXCEPT ![p].phase = phase]

(* The deployment starts a pod, with the flags of the day.                 *)
Launch(p) ==
  /\ pod[p].phase = "down"
  /\ \E f \in Templates : pod' = [pod EXCEPT ![p] = [phase |-> "setup", flags |-> f]]
  /\ UNCHANGED <<lease, stops>>

(* Mutant: the flag is not handed to the manager.                          *)
FaultyStart(p) ==
  /\ pod[p].phase = "setup"
  /\ Enter(p, "active")
  /\ UNCHANGED <<lease, stops>>
(* main: controllers are set up, the manager starts.                       *)
Start(p) ==
  /\ pod[p].phase = "setup"
  /\ Enter(p, IF pod[p].flags.elect THEN "standby" ELSE "active")
  /\ UNCHANGED <<lease, stops>>

(* Mutant: takes the lease of whoever holds it.                            *)
FaultyAcquire(p) ==
  /\ pod[p].phase = "standby"
  /\ lease' = [lease EXCEPT ![LeaseOf(p)] = p]
  /\ Enter(p, "active")
  /\ UNCHANGED stops
Acquire(p) ==
  /\ pod[p].phase = "standby" /\ lease[LeaseOf(p)] = NoPod
  /\ lease' = [lease EXCEPT ![LeaseOf(p)] = p]
  /\ Enter(p, "active")
  /\ UNCHANGED stops

(* ctrl.SetupSignalHandler: passes at work are finished.                   *)
Terminate(p) ==
  /\ pod[p].phase # "down" /\ stops < MaxStops /\ stops' = stops + 1
  /\ Enter(p, IF Working(p) THEN "draining" ELSE "down")
  /\ UNCHANGED lease
Drained(p) ==
  /\ pod[p].phase = "draining"
  /\ Enter(p, "down")
  /\ UNCHANGED <<lease, stops>>

(* Killed, a failed set-up (os.Exit), or unable to renew the lease.        *)
Exit(p) ==
  /\ pod[p].phase # "down" /\ stops < MaxStops /\ stops' = stops + 1
  /\ Enter(p, "down")
  /\ UNCHANGED lease

(* Nobody renews the lease: LeaderElectionReleaseOnCancel is not set.      *)
Lapse(l) ==
  /\ lease[l] # NoPod /\ ~Leading(lease[l])
  /\ lease' = [lease EXCEPT ![l] = NoPod]
  /\ UNCHANGED <<pod, stops>>

PodStep(p) == Launch(p) \/ Start(p) \/ Acquire(p) \/ Drained(p)
Next ==
  \/ \E p \in Pods : PodStep(p) \/ Terminate(p) \/ Exit(p)
  \/ \E l \in Leases : Lapse(l)

Spec == Init /\ [][Next]_vars
FairSpec ==
  /\ Spec /\ \A p \in Pods : WF_vars(PodStep(p))
  /\ \A l \in Leases : WF_vars(Lapse(l))

-----------------------------------------------------------------------------
(* Phases and flags are those of the code, and the inductive invariant:    *)
(* who works as a leader, or finishes its passes, holds its lease.         *)
TypeOK ==
  /\ pod \in [Pods -> [phase : {"down", "setup", "standby", "active", "draining"},
                       flags : Templates]]
  /\ lease \in [Leases -> Pods \cup {NoPod}]
  /\ stops \in 0 .. MaxStops
LeadersHold == \A p \in Pods : Leading(p) => lease[LeaseOf(p)] = p
IInv == TypeOK /\ LeadersHold

(* No two pods of the nine binaries reconcile resources of one kind in one *)
(* namespace ("this will ensure there is only one active controller        *)
(* manager"), whatever the updates, crashes and flags, unless one runs     *)
(* without leader election or they belong to installations of two          *)
(* namespaces of which one watches all of them. The passes of the other    *)
(* modules are never interleaved with a second pass on the same resource.  *)
OneReconciler ==
  \A p, q \in Pods : p # q /\ pod[p].flags.elect /\ pod[q].flags.elect =>
    \/ Work(p) \cap Work(q) = {}
    \/ /\ Placement[p].home # Placement[q].home
       /\ pod[p].flags.everywhere \/ pod[q].flags.everywhere

(* Once pods stop stopping, every kind that all templates enable is served *)
(* in every namespace with an installation: no binary waits for a lease    *)
(* that another one keeps.                                                 *)
AlwaysEnabled(b) == {c \in b.controllers :
  \A f \in Templates : c \in resolveEnabledControllers(b, f)}
EveryKindIsServed ==
  \A q \in Pods : \A c \in AlwaysEnabled(Placement[q].binary) :
    <>[](\E p \in Pods : <<c, Placement[q].home>> \in Work(p))
=============================================================================
