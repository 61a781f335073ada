---------------------------- MODULE IntegrationProps ----------------------------
(* Properties of IntegrationPass.                                          *)
EXTENDS IntegrationPass

Reasons == {"AppUnreachable", "SecretNotFound", "SyncFailed", "DriftDetected"}
Version == 0 .. (MaxEvents[ctl] + 1)
Value == Nat \X Version   \* a worker limit is any number
SpecType ==
  [declared : SUBSET Declarable, rev : Version, observe : BOOLEAN, prune : BOOLEAN,
   cleanup : BOOLEAN, valid : BOOLEAN]
PassType ==
  [on : BOOLEAN, cleanup : BOOLEAN, plan : SUBSET Nat, spec : SpecType,
   seen : [Cells -> Seq(Value)], got : [Cells -> Version], errs : BOOLEAN, drift : BOOLEAN,
   owned : SUBSET Cells, out : {"", "BadURL", "InvalidConfig"} \cup Reasons, node : 1 .. 2,
   current : BOOLEAN, touched : SUBSET Cells]
CrType ==
  [declared : SUBSET Declarable, rev : Version, observe : BOOLEAN, prune : BOOLEAN,
   cleanup : BOOLEAN, valid : BOOLEAN, finalizer : BOOLEAN, deleting : BOOLEAN,
   expired : BOOLEAN, gone : BOOLEAN]

(* Every variable holds a value of its kind; a cell has at most two copies. *)
TypeOK ==
  /\ ctl \in Controllers /\ cr \in CrType
  /\ status \in [latest : BOOLEAN, synced : BOOLEAN, owned : SUBSET Cells,
                 reason : {"", "InvalidConfig", "Observed", "Synced"} \cup Reasons]
  /\ gauge \in {"none", "0", "1"} /\ due \in [queued : BOOLEAN, timer : BOOLEAN]
  /\ secret \in [SecretNames -> Version]
  /\ missing \subseteq DOMAIN secret
  /\ app \in [Cells -> Seq(Value)] /\ \A c \in Cells : Len(app[c]) <= 2
  /\ setUp \in BOOLEAN /\ events \in 0 .. MaxEvents[ctl]
  /\ pass \in PassType /\ pass.plan \subseteq DOMAIN Program
  /\ made \subseteq Cells /\ excused \subseteq Cells

(* What applying revision rev of a spec leaves in a cell. What is only used *)
(* by the setup of the application is not looked at later.                  *)
Applied(c, rev, node) ==
  IF c \notin LaterCellsOf[ctl] THEN TRUE
  ELSE IF c \in ExistOnlyOf[ctl] THEN app[c] # <<>>
  ELSE CASE c = "strays" -> app[c] = <<>>
         [] c = "workers" -> app[c][node][1] = rev
         [] OTHER -> app[c] # <<>> /\ app[c][1][1] = rev /\ (Refers(c) => app[c][1][2] # 0)

(* Synced=True is only reported when every section the pass read is in the *)
(* application, with the Secrets it names, unless somebody changed it by   *)
(* hand during the pass: failed requests, lost answers and missing Secrets *)
(* in any section are remembered to the end of the Reconcile.              *)
SyncedIsEarned ==
  [][status' # status /\ status'.synced /\ UpdateStatus /\ (Observing => ReportsDrift) =>
       \A c \in DeclaredCells(pass.spec) \ pass.touched :
         Applied(c, pass.spec.rev, pass.node)]_vars

(* "observe" changes nothing, nor does a spec the integration rejects, in  *)
(* a pass or in a cleanup: README "before making application requests".    *)
RejectedSpecsTouchNothing ==
  [][<<app, setUp>>' # <<app, setUp>> /\ (Request \/ AnswerLost) =>
       ~Observing /\ Accepted(pass.spec)]_vars

(* The setup of Seerr is only completed over the connections and settings  *)
(* the spec declares: an application that looks set up is never set up     *)
(* again.                                                                  *)
SetupIsComplete ==
  [][~setUp /\ setUp' =>
       \A c \in (SetupCellsOf[ctl] \cap DeclaredCells(pass.spec)) \ pass.touched :
         \E i \in DOMAIN app[c] : app[c][i][1] = pass.spec.rev]_vars

(* Nothing is created twice, whatever fails and whenever the process dies, *)
(* but by a hand that creates it between the list and the POST of a pass   *)
(* or ahead of the setup of Seerr, and by a setup that did not come to its *)
(* end.                                                                    *)
DuplicatesAreExplained ==
  \A c \in Cells \ {"workers"} : Len(app[c]) > 1 => c \in excused

(* Only sessions the operator opened are destroyed (Prowlarr opens its own  *)
(* on demand), none that is declared, and never more than the threshold.   *)
SessionsOfOthersSurvive ==
  [][app' # app /\ (Request \/ AnswerLost) =>
       \A c \in Cells \ {"strays"} : app[c] # <<>> /\ app'[c] = <<>> =>
         c \in made \ pass.spec.declared /\ Cardinality(Candidates) <= MaxPrune]_vars

(* A session on record, be it in the status or in the pass, stays there     *)
(* until it is gone: whichever requests fail or are answered too late. Only *)
(* a crash and a status write that is refused lose the record of one.      *)
SessionsStayOnRecord ==
  [][\A c \in status.owned \cup pass.owned : c \notin status'.owned \cup pass'.owned =>
       \/ app[c] = <<>> \/ c \in pass.touched
       \/ Crash \/ StatusRefused \/ (UpdateStatus /\ ~pass.current)]_vars

(* A resource nothing will reconcile again is one whose URL is rejected,   *)
(* the gauge is 0 ("it goes to 0 when a resource stops reconciling"), and  *)
(* its status does not say it is synced.                                   *)
StoppedIsReported ==
  Idle /\ ~due.queued /\ ~due.timer =>
    ~cr.valid /\ gauge = "0" /\ ~(status.latest /\ status.synced)

-----------------------------------------------------------------------------
(* The inductive invariant, in parts. i and j are positions in the program. *)
Left(do) == \E i \in pass.plan : Program[i].do = do
Serves(j, i) == Program[j].sec \in {Program[i].sec, Always}
Chosen == pass.spec.declared \cup {Always}

(* Revisions and versions are counted by events.                           *)
Counted ==
  /\ cr.rev \in 1 .. events + 1 /\ \A s \in DOMAIN secret : secret[s] \in 1 .. events + 1
  /\ pass.on => pass.spec.rev \in 1 .. cr.rev

(* What is left of a plan serves what is declared, and the steps of a      *)
(* section leave it from the front or all together.                        *)
InOrder ==
  /\ \A i \in pass.plan : Program[i].sec \in Chosen
  /\ pass.on => \A i \in pass.plan : \A j \in Position .. i :
       Serves(j, i) /\ (Program[j].setup => Program[i].setup) => j \in pass.plan

(* A pass works on the resource as it is, or an event waits.               *)
WorksOnLatest ==
  pass.on =>
    /\ due.queued \/ pass.current
    /\ pass.current => \A f \in DOMAIN pass.spec \ {"declared", "prune"} : pass.spec[f] = cr[f]

(* The URL is judged before anything is sent.                              *)
Judged ==
  /\ status.latest /\ status.synced => cr.valid
  /\ pass.on /\ pass.out = "BadURL" => ~pass.spec.valid /\ pass.plan = {}
  /\ pass.on /\ ~pass.cleanup /\ pass.out = "" /\ ~Left("client") => pass.spec.valid

(* A plan is only made of a spec that the integration takes, and the setup *)
(* waits for the look at the application.                                  *)
Admitted ==
  /\ pass.plan # {} => pass.on /\ pass.out = "" /\ Accepted(pass.spec)
  /\ SetupSteps # {} =>
       Left("probe") \/ (~Observing /\ ~setUp)
  /\ setUp \/ \E s \in Steps : s.setup

(* Ledgers name sessions that were made; the count of what is to be pruned *)
(* holds while it is pruned.                                               *)
Ledgers ==
  /\ status.owned \cup pass.owned \subseteq made
  /\ Left("close") /\ ~Left("threshold") /\ ~Observing => Cardinality(Candidates) <= MaxPrune

(* Only a pass that syncs adds to the ledger, and it strikes off what it    *)
(* has closed, which no later step opens again.                             *)
OnRecord ==
  /\ (pass.on /\ ~pass.cleanup) \/ pass.owned \subseteq status.owned
  /\ pass.on => \A c \in status.owned \ pass.owned :
       /\ app[c] = <<>> \/ c \in pass.touched
       /\ \A i \in pass.plan :
            Program[i].do \in Writing /\ Program[i].cell = c => Program[i].do = "close"

(* What is to be compared or updated is still to be read.                  *)
ReadAhead(i) ==
  \E j \in pass.plan :
    /\ j < i /\ Program[j].do = Source[Program[i].do]
    /\ Program[j].do = "list" \/ Program[j].sec = Program[i].sec
(* What was read is still so for what is to be created.                    *)
SeenAbsent ==
  \A i \in pass.plan : Program[i].do \in {"merge", "replace", "create"} =>
    ReadAhead(i) \/ LET c == Program[i].cell IN pass.seen[c] = <<>> => app[c] = <<>> \/ c \in excused
(* Before the setup has ended, what it adds is there by this pass alone.   *)
AddedNow ==
  ~setUp =>
    \A c \in SetupCellsOf[ctl] \cap ItemsOf[ctl] : app[c] # <<>> =>
      \/ c \in excused
      \/ /\ pass.on /\ ~pass.cleanup
         /\ ~ \E i \in pass.plan : Program[i].do = "add" /\ Program[i].cell = c
Limits ==
  "workers" \in Cells =>
    /\ Len(app["workers"]) = 2
    /\ \A i \in pass.plan : Program[i].do = "nudge" => ReadAhead(i) \/ Len(pass.seen["workers"]) = 2

(* Without errors nothing that is declared is missing from the plan.       *)
Whole ==
  pass.plan # {} /\ ~pass.errs =>
    \A j \in DOMAIN Program :
      j > Position /\ Program[j].sec \in Chosen /\ (Program[j].setup => Left("finish")) =>
        j \in pass.plan
(* What the setup has written so far.                                      *)
SetupWritten ==
  Left("finish") =>
    /\ pass.errs => Left("gate") /\ ~Left("probe")
    /\ ~Left("probe") /\ ~pass.errs =>
         \A j \in DOMAIN Program \ pass.plan :
           LET c == Program[j].cell IN
           Program[j].setup /\ Program[j].do \in {"write", "add"} /\ Program[j].sec \in Chosen
             /\ c \notin pass.touched =>
               \E k \in DOMAIN app[c] : app[c][k][1] = pass.spec.rev

(* What the pass has done so far, and what it knows for the rest.          *)
Lasting(step) ==
  LET c == step.cell IN
  CASE step.do \in {"create", "open"} -> app[c] # <<>>
    [] step.do = "clear" -> app[c] = <<>>
    [] step.do = "nudge" -> app[c][pass.node][1] = pass.spec.rev
    [] OTHER -> app[c] # <<>> /\ app[c][1][1] = pass.spec.rev /\ (Resolved(c) => app[c][1][2] # 0)
Clean == pass.on /\ ~pass.cleanup /\ pass.out = "" /\ ~pass.errs
Landed ==
  Clean /\ ~(Observing /\ pass.drift) =>
    \A j \in DOMAIN Program \ pass.plan :
      ~Program[j].setup /\ Program[j].do \in Final /\ Program[j].sec \in Chosen
        /\ Program[j].cell \notin pass.touched => Lasting(Program[j])
SecretsGot ==
  Clean =>
    \A j \in DOMAIN Program \ pass.plan :
      Program[j].do \in {"secret", "needs"} /\ ~Program[j].setup /\ Program[j].sec \in Chosen \cap Cells
        /\ Resolved(Program[j].sec) => pass.got[Program[j].sec] # 0
SeenIsFresh ==
  \A i \in pass.plan : Program[i].do \in DOMAIN Source =>
    ReadAhead(i) \/ LET c == Program[i].cell IN c \in pass.touched \/ app[c] = pass.seen[c]

-----------------------------------------------------------------------------
(* Nothing stands in the way of applying the spec.                         *)
Applicable ==
  /\ ~cr.deleting /\ cr.valid /\ ~cr.observe /\ Accepted(cr)
  /\ ctl = "seerr" => cr.declared \cap {"apiKey", "plexAuth", "jellyfinAuth"} # {}
  /\ cr.prune => Cardinality({c \in status.owned \ cr.declared : app[c] # <<>>}) <= MaxPrune
InForce(c) ==
  /\ \E n \in 1..2 : Applied(c, cr.rev, n)
  /\ c \in (DOMAIN secret \cap LaterCellsOf[ctl]) \ ExistOnlyOf[ctl] => app[c][1][2] = secret[c]

(* Whatever happened, and with or without a watch on the Secrets, in the   *)
(* end the application has the declared values with the current Secrets,   *)
(* sessions no longer declared are gone, and the status says so. One that  *)
(* names an option field the application does not have is reported for     *)
(* good, and "does not abandon the rest of the reconcile".                 *)
Converges ==
  <>[](Applicable =>
         /\ status.latest /\ setUp
         /\ IF "unknownFields" \in cr.declared
            THEN ~status.synced /\ status.reason = "SyncFailed" /\ gauge = "0"
            ELSE status.synced /\ gauge = "1"
         /\ \A c \in DeclaredCells(cr) : InForce(c)
         /\ cr.prune => \A c \in status.owned \ cr.declared : app[c] = <<>>)

(* A resource being deleted goes away, also when the integration cannot    *)
(* clean up or the cleanup keeps failing.                                  *)
DeletionIsNeverBlocked == cr.deleting ~> cr.gone

-----------------------------------------------------------------------------
=============================================================================
