----------------------------- MODULE IntegrationPass -----------------------------
(***************************************************************************)
(* One custom resource of one of the integrations, its controller and its  *)
(* application.  A pass takes the steps that Integrations gives its        *)
(* controller; between any two of them users edit the resource, change the *)
(* application or a Secret, requests fail, answers are lost, the process   *)
(* dies.  MaxEvents bounds all of these together.                          *)
(*                                                                         *)
(* A value in the application is <<revision, Secret version>>: what a spec *)
(* revision declares, with the version of the Secret the section names     *)
(* (0: none).  Foreign is any other value.  A cell holds the sequence of   *)
(* its copies: none, one, or, when it was created twice, two.              *)
(***************************************************************************)
EXTENDS Integers, Sequences, FiniteSets, Functions

CONSTANTS
  Table,         \* by integration: its passes, sections, Secrets, watches
  Controllers,   \* the integrations at hand
  MaxDeclared,   \* by integration: bound on the sections a spec declares
  MaxEvents,     \* by integration: bound on what happens to the controller
  MaxPrune,      \* DefaultMaxPruneCount
  UseValueFrom   \* users write valueFrom wherever a fields list accepts it

ASSUME PassAssumption ==
  /\ Controllers \subseteq DOMAIN Table
  /\ {MaxDeclared, MaxEvents} \subseteq [Controllers -> Nat] /\ MaxPrune \in Nat
  /\ UseValueFrom \in BOOLEAN

VARIABLES
  ctl,      \* the integration (never changes)
  cr,       \* the custom resource: spec and metadata
  status,   \* its status; latest: written for the present generation
  gauge,    \* the config_synced metric
  due,      \* the workqueue: an event, or the periodic requeue
  secret,   \* versions of the Secrets
  missing,  \* the Secrets that do not exist
  app,      \* the application
  setUp,    \* the application has been through its first-time setup
  pass,     \* the pass at work
  events,
  made,     \* history: sessions the operator has created
  excused   \* history: cells that may have been created twice

vars == <<ctl, cr, status, gauge, due, secret, missing, app, setUp, pass, events, made,
          excused>>

Always == "connection"   \* the section of the steps that serve all of them
Foreign == <<0, 0>>
Self == Table[ctl]
Declarable ==
  Self.sections \cup {"tls"} \cup (IF Self.options = {} THEN {} ELSE {"unknownFields"})
Refers(sec) ==
  sec \in {Always, "tls"} \cup Self.secrets \cup (IF UseValueFrom THEN Self.fieldsOnly ELSE {})
SecretNames == {s \in Declarable \cup {Always} : Refers(s)}
Resolved(sec) ==
  sec \in {Always, "tls"} \cup (Self.secrets \ (IF UseValueFrom THEN Self.fieldsOnly ELSE {}))

Creating == {"merge", "replace", "create", "add", "open"}
Writing == Creating \cup {"part", "write", "settle", "clear", "nudge", "close"}
FatalReason ==
  [ping |-> "AppUnreachable", login |-> "AppUnreachable", probe |-> "AppUnreachable",
   session |-> "SecretNotFound", references |-> "SyncFailed", wizard |-> "SyncFailed",
   finish |-> "SyncFailed", list |-> "SyncFailed", open |-> "SyncFailed", close |-> "SyncFailed"]

(* By integration: the steps, and the cells that some steps work on.       *)
StepsOf == [i \in DOMAIN Table |-> Range(Table[i].pass)]
CellsDoing(dos) ==
  [i \in DOMAIN Table |-> {s.cell : s \in {t \in StepsOf[i] : t.do \in dos}}]
CellsOf == CellsDoing(Writing)
ItemsOf == CellsDoing(Creating \cup {"clear"})
ExistOnlyOf == CellsDoing({"create", "open"})
SetupCellsOf ==
  [i \in DOMAIN Table |->
     {s.cell : s \in {t \in StepsOf[i] : t.setup /\ t.do \in Writing}}]
LaterCellsOf ==
  [i \in DOMAIN Table |->
     {s.cell : s \in {t \in StepsOf[i] : ~t.setup /\ t.do \in Writing}}]

-----------------------------------------------------------------------------
(* What every pass has in common, as the proofs need it: the order in      *)
(* which the Reconcile functions do things.  steps[i] comes before         *)
(* steps[j] when i < j.                                                    *)
StepType ==
  [do : Writing \cup DOMAIN FatalReason
          \cup {"secret", "needs", "client", "schema", "lookup", "read", "nodes", "gate",
                "threshold"},
   sec : STRING, cell : STRING, setup : BOOLEAN]

(* Steps of which a pass has one, and the last that write a cell.          *)
Final == {"write", "settle", "merge", "replace", "create", "open", "clear", "nudge"}
Source ==
  [d \in {"settle", "merge", "replace", "create", "clear", "open", "nudge"} |->
     CASE d = "open" -> "list" [] d = "nudge" -> "nodes" [] OTHER -> "read"]

(* What all sections rest on ends the pass when it fails.                  *)
SharedSteps(steps) ==
  \A i \in DOMAIN steps :
    /\ steps[i].sec = Always =>
         steps[i].do \in {"secret", "client", "gate", "threshold"} \cup DOMAIN FatalReason
    /\ steps[i].do \in {"client", "probe", "gate", "finish", "list", "threshold", "close"} =>
         steps[i].sec = Always

(* A Secret is resolved before what is sent with it.                       *)
SecretsFirst(steps, secrets) ==
  \A i \in DOMAIN steps :
    /\ steps[i].do \in {"secret", "needs"} => steps[i].cell = steps[i].sec
    /\ steps[i].do \in Final \ {"open", "create"} /\ ~steps[i].setup /\ steps[i].cell \in secrets =>
         \E j \in 1 .. i - 1 :
           steps[j].do \in {"secret", "needs"} /\ ~steps[j].setup
             /\ steps[j].sec = steps[i].cell /\ steps[i].sec = steps[i].cell

(* What is compared or updated is read before.                             *)
ReadFirst(steps) ==
  \A i \in DOMAIN steps : steps[i].do \in DOMAIN Source =>
    /\ \E j \in 1 .. i - 1 :
         /\ steps[j].do = Source[steps[i].do] /\ ~steps[j].setup
         /\ steps[j].do = "list" \/ steps[j].sec = steps[i].sec
    /\ \A j \in DOMAIN steps : steps[j].do = "nodes" /\ steps[i].do = "nudge" => j < i

(* The setup of the application follows the look at its state, precedes    *)
(* the rest, and is gated: it ends when all it had to write is written.    *)
SetupFirst(steps) ==
  \A i, j \in DOMAIN steps :
    /\ steps[i].do \in {"gate", "finish", "add"} => steps[i].setup
    /\ steps[i].setup =>
         /\ steps[i].do \in Writing => steps[i].do \in {"part", "write", "add"}
         /\ steps[i].do \notin {"secret", "client", "probe", "read", "list", "nodes", "threshold"}
         /\ \E p \in 1 .. i - 1 : steps[p].do = "probe"
    /\ steps[i].setup /\ ~steps[j].setup /\ j < i =>
         steps[j].do \in {"secret", "client", "probe", "session"}
    /\ steps[i].setup /\ steps[j].do = "probe" => j < i
    /\ steps[i].setup /\ steps[j].do = "finish" => i <= j
    /\ steps[i].setup /\ steps[i].sec # Always /\ steps[j].do = "finish" =>
         i < j - 1 /\ steps[j - 1].do = "gate"

(* Nothing is written twice, but by a request in two parts and by the      *)
(* setup, and never what another section has written.                      *)
WrittenOnce(steps) ==
  \A i, j \in DOMAIN steps :
    steps[i].do \in Writing /\ steps[j].do \in Writing /\ steps[i].cell = steps[j].cell =>
      /\ steps[i].sec \in {steps[j].sec, Always} \/ steps[j].sec = Always
      /\ i # j /\ steps[i].do \in Final /\ ~steps[i].setup /\ ~steps[j].setup =>
           \/ steps[i].do = "write" /\ steps[j].do = "part" /\ j < i
           \/ steps[i].do = "open" /\ steps[j].do = "close" /\ i < j
      /\ steps[i].setup /\ steps[i].do \in {"write", "add"} /\ steps[j].setup => j <= i

(* Which steps write which cells.                                          *)
Divided(steps) ==
  \A i \in DOMAIN steps : steps[i].do \in Writing =>
    /\ steps[i].do = "close" \/ steps[i].sec # Always
    /\ steps[i].do = "open" => steps[i].sec = steps[i].cell
    /\ steps[i].do \in {"part", "close"} =>
         \E j \in DOMAIN steps : steps[j].do \in {"write", "open"} /\ steps[j].setup = steps[i].setup
                                  /\ steps[j].cell = steps[i].cell
    /\ steps[i].do = "nudge" <=> steps[i].cell = "workers"
    /\ steps[i].do = "clear" <=> steps[i].cell = "strays"

(* Sessions are pruned after a count that no later list changes.           *)
Bounded(steps) ==
  \A i, j \in DOMAIN steps :
    /\ steps[i].do = "close" => \E k \in 1 .. i - 1 : steps[k].do = "threshold"
    /\ steps[i].do = "threshold" /\ steps[j].do \in {"read", "list", "nodes", "nudge"} => j < i
    /\ steps[i].do = "threshold" /\ steps[j].do = "close" => i < j

ASSUME TableAssumption ==
  \A c \in DOMAIN Table :
    LET steps == Table[c].pass
        cleanup == Table[c].cleanup
    IN /\ steps \in Seq(StepType)
       /\ SharedSteps(steps) /\ SecretsFirst(steps, Table[c].secrets) /\ ReadFirst(steps)
       /\ SetupFirst(steps) /\ WrittenOnce(steps) /\ Divided(steps) /\ Bounded(steps)
       /\ \E i \in DOMAIN steps : steps[i].do = "client"
       /\ Always \notin Table[c].sections
       /\ Table[c].observes => \A i \in DOMAIN steps : steps[i].do \notin {"clear", "nudge"}
       /\ {Always, "tls"} \cap (Table[c].secrets \cup CellsOf[c]) = {}
       /\ cleanup \in Seq(StepType) /\ SharedSteps(cleanup) /\ Bounded(cleanup)
       /\ \A i \in DOMAIN cleanup :
            /\ cleanup[i].do \in {"secret", "client", "list", "threshold", "close"}
            /\ ~cleanup[i].setup /\ cleanup[i].sec \in {Always, "tls"}
            /\ cleanup[i].do = "secret" => cleanup[i].cell = cleanup[i].sec
            /\ cleanup[i].do = "close" =>
                 \E j \in DOMAIN steps : steps[j].do = "close" /\ steps[j].cell = cleanup[i].cell

-----------------------------------------------------------------------------
Steps == StepsOf[ctl]
Cells == CellsOf[ctl]
DeclaredCells(spec) ==
  {s.cell : s \in {t \in Steps : t.sec \in spec.declared /\ t.do \in Writing}}

NewApp == [c \in Cells |-> IF c \in ItemsOf[ctl] THEN <<>>
                           ELSE IF c = "workers" THEN <<Foreign, Foreign>> ELSE <<Foreign>>]

NoPass ==
  [on |-> FALSE, cleanup |-> FALSE, plan |-> {},
   spec |-> [declared |-> {}, rev |-> 0, observe |-> FALSE, prune |-> FALSE, cleanup |-> FALSE,
             valid |-> TRUE],
   seen |-> [c \in Cells |-> <<>>], got |-> [c \in Cells |-> 0], errs |-> FALSE,
   drift |-> FALSE, owned |-> {}, out |-> "", node |-> 1, current |-> TRUE, touched |-> {}]

(* Unknown option fields are those of a section.                           *)
Declarations ==
  {d \in SUBSET Declarable :
     /\ Cardinality(d \ {"unknownFields"}) <= MaxDeclared[ctl]
     /\ "unknownFields" \in d => d \cap Self.options # {}}

Init ==
  /\ ctl \in Controllers
  /\ cr \in [declared : Declarations,
             rev : {1}, observe : {FALSE}, prune : {ctl = "flaresolverr"}, cleanup : {FALSE},
             valid : {TRUE}, finalizer : {FALSE}, deleting : {FALSE}, expired : {FALSE},
             gone : {FALSE}]
  /\ status = [latest |-> FALSE, synced |-> FALSE, reason |-> "", owned |-> {}]
  /\ gauge = "none" /\ due = [queued |-> TRUE, timer |-> FALSE]
  /\ secret = [s \in SecretNames |-> 1] /\ missing = {}
  /\ app = NewApp /\ setUp = (\A s \in Steps : ~s.setup)
  /\ pass = NoPass /\ events = 0 /\ made = {} /\ excused = {}

-----------------------------------------------------------------------------
(* The start of Reconcile: HandleLifecycle, RejectUnsupportedObserve.      *)

Supported(spec) == spec.cleanup => Self.cleans /\ ~spec.observe
Observable(spec) == spec.observe => Self.observes
Accepted(spec) == Supported(spec) /\ Observable(spec)

(* A plan is the set of the positions of the steps that are left.          *)
Relevant(steps, spec) == {i \in DOMAIN steps : steps[i].sec \in spec.declared \cup {Always}}
SpecRead == [f \in {"declared", "rev", "observe", "prune", "cleanup", "valid"} |-> cr[f]]

Idle == ~pass.on /\ ~cr.gone
(* Mutant: no RequeueAfter.                                                *)
FaultyRequeue == UNCHANGED due
Requeue == due' = [due EXCEPT !.timer = TRUE]

StartSync(q) ==
  /\ Idle /\ ~cr.deleting /\ due[q]
  /\ due' = [due EXCEPT ![q] = FALSE, !.queued = @ \/ ~cr.finalizer]
  /\ cr' = [cr EXCEPT !.finalizer = TRUE]
  /\ pass' = [NoPass EXCEPT
        !.on = TRUE, !.spec = SpecRead, !.owned = status.owned,
        !.plan = IF Accepted(cr) THEN Relevant(Self.pass, cr) ELSE {},
        !.out = IF Accepted(cr) THEN "" ELSE "InvalidConfig"]
  /\ UNCHANGED <<ctl, status, gauge, secret, missing, app, setUp, events, made, excused>>

(* Mutant: a cleanup that is not supported is retried for ever.            *)
FaultyStartDeletion(q) ==
  /\ Idle /\ cr.deleting /\ due[q]
  /\ \/ ~cr.cleanup /\ cr' = [cr EXCEPT !.gone = TRUE] /\ due' = [due EXCEPT ![q] = FALSE]
     \/ cr.cleanup /\ ~Supported(cr) /\ UNCHANGED cr
        /\ due' = [due EXCEPT ![q] = FALSE, !.timer = TRUE]
  /\ UNCHANGED <<ctl, status, gauge, secret, missing, app, setUp, pass, events, made, excused>>
(* HandleDeletion when there is nothing to remove or no way to do it.      *)
StartDeletion(q) ==
  /\ Idle /\ cr.deleting /\ due[q]
  /\ \/ /\ ~cr.cleanup \/ (~Supported(cr) /\ cr.expired)
        /\ cr' = [cr EXCEPT !.gone = TRUE] /\ due' = [due EXCEPT ![q] = FALSE]
     \/ /\ ~Supported(cr) /\ ~cr.expired
        /\ due' = [due EXCEPT ![q] = FALSE, !.timer = TRUE] /\ UNCHANGED cr
  /\ UNCHANGED <<ctl, status, gauge, secret, missing, app, setUp, pass, events, made, excused>>

(* cleanupFlareSolverrSessions                                             *)
StartCleanup(q) ==
  /\ Idle /\ cr.deleting /\ cr.cleanup /\ Supported(cr) /\ due[q]
  /\ due' = [due EXCEPT ![q] = FALSE]
  /\ pass' = [NoPass EXCEPT
        !.on = TRUE, !.cleanup = TRUE, !.owned = status.owned,
        !.spec = [SpecRead EXCEPT !.declared = @ \cap {"tls"}, !.prune = TRUE],
        !.plan = IF status.owned = {} THEN {} ELSE Relevant(Self.cleanup, cr)]
  /\ UNCHANGED <<ctl, cr, status, gauge, secret, missing, app, setUp, events, made, excused>>

-----------------------------------------------------------------------------
(* The steps that send no request.                                         *)

Program == IF pass.cleanup THEN Self.cleanup ELSE Self.pass
Position == CHOOSE i \in pass.plan : \A j \in pass.plan : i <= j
Step == Program[Position]
Cell == Step.cell
Working == pass.on /\ pass.plan # {}
Observing == pass.spec.observe
Want == <<pass.spec.rev, pass.got[Cell]>>
Seen == pass.seen[Cell]
Listed == Seen # <<>>

Without(skipped) == [pass EXCEPT !.plan = @ \ ({Position} \cup skipped)]
Advance == Without({})
Stop(reason) == [pass EXCEPT !.plan = {}, !.out = reason]
SetupSteps == {i \in pass.plan : Program[i].setup}
SectionSteps == {i \in pass.plan : Program[i].sec = Step.sec}
(* Mutant: the error is logged and forgotten.                              *)
FaultyGiveUpSection == Without(SectionSteps)
GiveUpSection == [Without(SectionSteps) EXCEPT !.errs = TRUE]

PassOnly == UNCHANGED <<ctl, cr, status, gauge, due, secret, missing, app, setUp, events, made,
                        excused>>

(* ResolveSecretKeyRef and its callers.                                    *)
ResolveSecret ==
  /\ Working /\ Step.do \in {"secret", "needs"}
  /\ pass' = IF ~Resolved(Step.sec) THEN Advance
             ELSE IF Step.sec \notin missing
             THEN [Advance EXCEPT !.got = [c \in Cells |-> IF c = Cell THEN secret[c] ELSE @[c]]]
             ELSE IF Step.do = "secret" THEN Stop("SecretNotFound") ELSE GiveUpSection
  /\ PassOnly

(* NewHTTPClient                                                           *)
BuildClient ==
  /\ Working /\ Step.do = "client"
  /\ pass' = IF pass.spec.valid THEN Advance ELSE Stop("BadURL")
  /\ PassOnly

(* establishSession: either jellyfinAuth or plexAuth must be configured.   *)
SessionSecrets ==
  LET d == pass.spec.declared IN
  IF "apiKey" \in d THEN {"apiKey"}
  ELSE IF "plexAuth" \in d THEN {"plexAuth"} ELSE d \cap {"jellyfinAuth"}
NoSession ==
  /\ Working /\ Step.do = "session"
  /\ SessionSecrets = {} \/ SessionSecrets \cap missing # {}
  /\ pass' = Stop("SecretNotFound")
  /\ PassOnly

(* Mutant: whoever opened them.                                            *)
FaultyCandidates ==
  IF ~pass.spec.prune THEN {} ELSE {c \in Cells \ pass.spec.declared : pass.seen[c] # <<>>}
(* Sessions to prune: listed, recorded as created, no longer declared.     *)
Candidates ==
  IF ~pass.spec.prune THEN {}
  ELSE {c \in Cells \ pass.spec.declared : c \in status.owned /\ pass.seen[c] # <<>>}

(* Mutant: Seerr is initialized although a section failed.                 *)
FaultyGate ==
  /\ Working /\ Step.do \in {"gate", "threshold"}
  /\ LET closed == Step.do # "gate" /\ ~Observing /\ Cardinality(Candidates) > MaxPrune
     IN pass' = IF closed THEN Stop("SyncFailed") ELSE Advance
  /\ PassOnly
(* Seerr: "initialization failed". FlareSolverr: "refusing to prune".      *)
Gate ==
  /\ Working /\ Step.do \in {"gate", "threshold"}
  /\ LET closed == IF Step.do = "gate" THEN pass.errs
                   ELSE ~Observing /\ Cardinality(Candidates) > MaxPrune
     IN pass' = IF closed THEN Stop("SyncFailed") ELSE Advance
  /\ PassOnly

(* Mutant: what is only created is not looked for.                         *)
FaultyInPlace ==
  CASE Step.do = "settle" -> Seen = <<Want>>
    [] Step.do = "merge" -> Listed /\ Seen[1] = Want
    [] Step.do = "open" -> Listed
    [] Step.do = "clear" -> ~Listed
    [] Step.do = "nudge" -> Seen[pass.node] = <<pass.spec.rev, 0>>
    [] Step.do = "close" -> Cell \notin Candidates
    [] OTHER -> FALSE
InPlace ==
  CASE Step.do = "settle" -> Seen = <<Want>>
    [] Step.do = "merge" -> Listed /\ Seen[1] = Want
    [] Step.do \in {"create", "open"} -> Listed
    [] Step.do = "clear" -> ~Listed
    [] Step.do = "nudge" -> Seen[pass.node] = <<pass.spec.rev, 0>>
    [] Step.do = "close" -> Cell \notin Candidates
    [] OTHER -> FALSE

Skip ==
  /\ Working /\ Step.do \in Writing /\ ~Observing /\ InPlace
  /\ pass' = Advance
  /\ PassOnly

(* ObserveDifference on what was listed.                                   *)
Same ==
  CASE Step.do \in {"create", "open"} -> Listed
    [] Step.do = "close" -> Cell \notin Candidates
    [] OTHER -> Listed /\ Seen[1] = Want
Compare ==
  /\ Working /\ Step.do \in Writing \ {"write"} /\ Observing
  /\ pass' = [Advance EXCEPT !.drift = @ \/ ~Same]
  /\ PassOnly

-----------------------------------------------------------------------------
(* The requests.                                                           *)

Sends ==
  /\ Working /\ Step.do \notin {"secret", "needs", "client", "gate", "threshold"}
  /\ Step.do = "session" => SessionSecrets # {} /\ SessionSecrets \cap missing = {}
  /\ Step.do \in Writing => IF Observing THEN Step.do = "write" ELSE ~InPlace

(* What is to be updated may be gone since it was listed.                  *)
Possible == Step.do \in {"merge", "replace"} /\ Listed => app[Cell] # <<>>

(* Of more than two copies the first and the last are kept.                *)
OneMore == IF Len(app[Cell]) < 2 THEN Append(app[Cell], Want) ELSE [app[Cell] EXCEPT ![2] = Want]
(* Mutant: steps in the wrong direction.                                   *)
FaultyToward(limit, target) == IF limit < target THEN -1 ELSE 1
Toward(limit, target) == IF limit < target THEN 1 ELSE -1
Written ==
  CASE Step.do = "part" -> IF app[Cell] = <<Want>> THEN app[Cell] ELSE <<Foreign>>
    [] Step.do \in {"write", "settle", "open"} -> <<Want>>
    [] Step.do \in {"merge", "replace"} /\ Listed -> [app[Cell] EXCEPT ![1] = Want]
    [] Step.do \in {"merge", "replace"} /\ ~Listed -> OneMore
    [] Step.do \in {"create", "add"} -> OneMore
    [] Step.do \in {"clear", "close"} -> <<>>
    [] Step.do = "nudge" ->
         [app[Cell] EXCEPT ![pass.node][1] =
            IF @ + Toward(Seen[pass.node][1], pass.spec.rev) < 0 THEN 0
            ELSE @ + Toward(Seen[pass.node][1], pass.spec.rev)]

(* Mutant: preferences are sent before driftPolicy is looked at.           *)
FaultyEffect ==
  /\ app' = IF Step.do \in Writing THEN [app EXCEPT ![Cell] = Written] ELSE app
  /\ setUp' = (setUp \/ Step.do = "finish")
  /\ made' = IF Step.do = "open" /\ ~Observing THEN made \cup {Cell} ELSE made
Effect ==
  /\ app' = IF Step.do \in Writing /\ ~Observing THEN [app EXCEPT ![Cell] = Written] ELSE app
  /\ setUp' = (setUp \/ Step.do = "finish")
  /\ made' = IF Step.do = "open" /\ ~Observing THEN made \cup {Cell} ELSE made

Lists == [c \in Cells |-> IF Step.do = "list" \/ \E s \in Steps : s.sec = Step.sec /\ s.cell = c
                          THEN app[c] ELSE pass.seen[c]]
(* The schema tells of the fields that are unknown, and nothing else.      *)
Learnt ==
  CASE Step.do = "probe" /\ ~setUp -> IF Observing THEN {Stop("DriftDetected")} ELSE {Advance}
    [] Step.do = "probe" /\ setUp -> {Without(SetupSteps)}
    [] Step.do = "schema" -> {GiveUpSection}
    [] Step.do \in {"read", "list"} -> {[Advance EXCEPT !.seen = Lists]}
    [] Step.do = "nodes" -> {[Advance EXCEPT !.seen = Lists, !.node = n] : n \in 1..2}
    [] Step.do = "nudge" ->
         {[pass EXCEPT !.seen[Cell][pass.node][1] = @ + Toward(@, pass.spec.rev)]}
    [] Step.do = "open" -> {[Advance EXCEPT !.owned = @ \cup {Cell}]}
    [] Step.do = "close" -> {[Advance EXCEPT !.owned = @ \ {Cell}]}
    [] Step.do = "write" /\ Observing -> {[Advance EXCEPT !.drift = @ \/ app[Cell] # <<Want>>]}
    [] OTHER -> {Advance}

ReportsDrift == ctl \in {"qbittorrent", "jellyfin", "flaresolverr"}
(* Mutant: a session leaves the ledger before it is destroyed.             *)
FaultyFailed ==
  IF Step.do = "close" THEN [Stop("SyncFailed") EXCEPT !.owned = @ \ {Cell}]
  ELSE IF Step.do \in DOMAIN FatalReason THEN Stop(FatalReason[Step.do])
  ELSE IF Observing /\ ReportsDrift THEN Stop("SyncFailed") ELSE GiveUpSection
(* FetchSchema: "validation is skipped rather than blocking a write".      *)
Failed ==
  IF Step.do \in DOMAIN FatalReason THEN Stop(FatalReason[Step.do])
  ELSE IF Step.do = "schema" THEN Advance
  ELSE IF Observing /\ ReportsDrift THEN Stop("SyncFailed") ELSE GiveUpSection

Request ==
  /\ Sends /\ Possible
  /\ Effect /\ pass' \in Learnt
  /\ UNCHANGED <<ctl, cr, status, gauge, due, secret, missing, events, excused>>

UpdatesNothing ==
  /\ Sends /\ ~Possible
  /\ pass' = Failed
  /\ PassOnly

-----------------------------------------------------------------------------
(* The end of Reconcile.                                                   *)

Done == pass.on /\ pass.plan = {}
Drift == pass.drift /\ ReportsDrift
Synced == pass.out = "" /\ ~pass.errs /\ ~Drift
Reason ==
  IF pass.out = "BadURL" THEN "InvalidConfig"
  ELSE IF pass.out # "" THEN pass.out
  ELSE IF pass.errs THEN "SyncFailed"
  ELSE IF Drift THEN "DriftDetected"
  ELSE IF Observing /\ ReportsDrift THEN "Observed" ELSE "Synced"

(* Setups that end before their last step leave what they created behind.  *)
LeftBehind == IF setUp THEN {} ELSE {c \in SetupCellsOf[ctl] \cap ItemsOf[ctl] : app[c] # <<>>}

(* Mutant: a pass that stops early waits for an event.                     *)
FaultyReturn ==
  /\ gauge' = (IF Synced THEN "1" ELSE "0")
  /\ IF pass.out # "" THEN UNCHANGED due ELSE Requeue
  /\ excused' = excused \cup LeftBehind
  /\ pass' = NoPass
  /\ UNCHANGED <<ctl, cr, secret, missing, app, setUp, made>>
(* recordSynced; the result of Reconcile requeues except for a bad URL.    *)
Return ==
  /\ gauge' = (IF Synced THEN "1" ELSE "0")
  /\ IF pass.out = "BadURL" THEN UNCHANGED due ELSE Requeue
  /\ excused' = excused \cup LeftBehind
  /\ pass' = NoPass
  /\ UNCHANGED <<ctl, cr, secret, missing, app, setUp, made>>

UpdateStatus ==
  /\ Done /\ ~pass.cleanup
  /\ status' = IF pass.current
               THEN [latest |-> TRUE, synced |-> Synced, reason |-> Reason, owned |-> pass.owned]
               ELSE status
  /\ Return
  /\ UNCHANGED events

(* HandleDeletion after the cleanup.                                       *)
FinishDeletion ==
  /\ Done /\ pass.cleanup
  /\ IF pass.current /\ (pass.out = "" \/ cr.expired)
     THEN cr' = [cr EXCEPT !.gone = TRUE] /\ UNCHANGED due
     ELSE Requeue /\ UNCHANGED cr
  /\ pass' = NoPass
  /\ UNCHANGED <<ctl, status, gauge, secret, missing, app, setUp, events, made, excused>>

Continue ==
  \/ ResolveSecret \/ BuildClient \/ NoSession \/ Gate \/ Skip \/ Compare \/ Request
  \/ UpdatesNothing \/ UpdateStatus \/ FinishDeletion
Start == \E q \in {"queued", "timer"} : StartSync(q) \/ StartDeletion(q) \/ StartCleanup(q)
ControllerStep == Start \/ Continue

-----------------------------------------------------------------------------
(* What happens to the controller.                                         *)

Event == events < MaxEvents[ctl] /\ events' = events + 1
Touch(c) == pass' = IF pass.on THEN [pass EXCEPT !.touched = @ \cup c] ELSE pass

RequestFails ==
  /\ Event /\ Sends
  /\ pass' = Failed
  /\ UNCHANGED <<ctl, cr, status, gauge, due, secret, missing, app, setUp, made, excused>>

AnswerLost ==
  /\ Event /\ Sends /\ Possible
  /\ Effect /\ pass' = Failed
  /\ UNCHANGED <<ctl, cr, status, gauge, due, secret, missing, excused>>

StatusRefused ==
  /\ Event /\ Done /\ ~pass.cleanup
  /\ UNCHANGED status /\ Return

FinalizerRefused ==
  /\ Event
  /\ \/ Idle /\ ~cr.finalizer /\ due.queued /\ due' = [due EXCEPT !.queued = FALSE, !.timer = TRUE]
     \/ Idle /\ cr.deleting /\ ~cr.cleanup /\ due.queued
        /\ due' = [due EXCEPT !.queued = FALSE, !.timer = TRUE]
  /\ UNCHANGED <<ctl, cr, status, gauge, secret, missing, app, setUp, pass, made, excused>>

(* The process dies; the next one finds every resource new.                *)
Crash ==
  /\ Event
  /\ pass' = NoPass /\ gauge' = "none" /\ due' = [queued |-> TRUE, timer |-> FALSE]
  /\ excused' = excused \cup LeftBehind
  /\ UNCHANGED <<ctl, cr, status, secret, missing, app, setUp, made>>

Toggle(section) ==
  IF section \in cr.declared THEN cr.declared \ {section} ELSE cr.declared \cup {section}

(* The engine's prune and cleanup are in ConfigController.                 *)
Edit ==
  /\ Event /\ ~cr.gone
  /\ cr' \in
       {[cr EXCEPT !.rev = @ + 1], [cr EXCEPT !.observe = ~@], [cr EXCEPT !.valid = ~@]}
         \cup {[cr EXCEPT !.declared = Toggle(s)] : s \in Declarable}
         \cup (IF "indexers" \in Self.sections /\ Self.cleans THEN {}
               ELSE {[cr EXCEPT !.cleanup = ~@], [cr EXCEPT !.prune = ctl = "flaresolverr" /\ ~@]})
  /\ cr'.declared \in Declarations /\ cr' # cr
  /\ status' = [status EXCEPT !.latest = FALSE]
  /\ due' = [due EXCEPT !.queued = TRUE]
  /\ pass' = [pass EXCEPT !.current = FALSE]
  /\ UNCHANGED <<ctl, gauge, secret, missing, app, setUp, made, excused>>

DeleteObject ==
  /\ Event /\ ~cr.gone /\ ~cr.deleting
  /\ cr' = [cr EXCEPT !.deleting = TRUE, !.gone = ~cr.finalizer]
  /\ due' = [due EXCEPT !.queued = TRUE]
  /\ pass' = [pass EXCEPT !.current = FALSE]
  /\ UNCHANGED <<ctl, status, gauge, secret, missing, app, setUp, made, excused>>

DeadlinePasses ==
  /\ cr.deleting /\ ~cr.gone /\ ~cr.expired
  /\ cr' = [cr EXCEPT !.expired = TRUE]
  /\ UNCHANGED <<ctl, status, gauge, due, secret, missing, app, setUp, pass, events, made, excused>>

(* FindConfigsBySecret and the functions handed to it.                     *)
Used == {s \in cr.declared \cup {Always} : Refers(s)} \cap DOMAIN secret
Notice(s) ==
  due' = IF s \in Self.watched /\ ~cr.gone THEN [due EXCEPT !.queued = TRUE] ELSE due

Rotate(s) ==
  /\ Event /\ secret' = [secret EXCEPT ![s] = @ + 1] /\ Notice(s)
  /\ UNCHANGED <<ctl, cr, status, gauge, missing, app, setUp, pass, made, excused>>

RemoveSecret(s) ==
  /\ Event /\ s \notin missing /\ missing' = missing \cup {s} /\ Notice(s)
  /\ UNCHANGED <<ctl, cr, status, gauge, secret, app, setUp, pass, made, excused>>

RestoreSecret(s) ==
  /\ s \in missing /\ missing' = missing \ {s} /\ Notice(s)
  /\ UNCHANGED <<ctl, cr, status, gauge, secret, app, setUp, pass, events, made, excused>>

(* Users of the application; "workers" are changed by hand as well.        *)
HandChange(c) ==
  /\ Event
  /\ \/ c \in ItemsOf[ctl] /\ app[c] # <<>> /\ app' = [app EXCEPT ![c] = <<>>]
     \/ c \in ItemsOf[ctl] /\ app[c] = <<>> /\ app' = [app EXCEPT ![c] = <<Foreign>>]
     \/ c # "workers" /\ app[c] # <<>> /\ app' = [app EXCEPT ![c][1] = Foreign]
     \/ c = "workers" /\ \E l \in 1..2 : app' = [app EXCEPT ![c][1] = <<l, 0>>]
  /\ app' # app
  /\ Touch({c}) /\ excused' = (IF pass.on \/ ~setUp THEN excused \cup {c} ELSE excused)
  /\ UNCHANGED <<ctl, cr, status, gauge, due, secret, missing, setUp, made>>

(* The application is rebuilt from nothing.                                *)
Rebuild ==
  /\ Event
  /\ app' = NewApp /\ setUp' = (\A s \in Steps : ~s.setup)
  /\ Touch(Cells)
  /\ UNCHANGED <<ctl, cr, status, gauge, due, secret, missing, made, excused>>

Environment ==
  \/ RequestFails \/ AnswerLost \/ StatusRefused \/ FinalizerRefused \/ Crash
  \/ Edit \/ DeleteObject \/ DeadlinePasses \/ Rebuild
  \/ \E s \in Used : Rotate(s) \/ RemoveSecret(s)
  \/ \E s \in missing : RestoreSecret(s)
  \/ \E c \in Cells : HandChange(c)

Next == ControllerStep \/ Environment
Spec == Init /\ [][Next]_vars
FairSpec ==
  /\ Spec /\ WF_vars(ControllerStep) /\ WF_vars(DeadlinePasses)
  /\ WF_vars(\E s \in missing : RestoreSecret(s))
=============================================================================
