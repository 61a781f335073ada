------------------------- MODULE IntegrationPass_proofs -------------------------
(* Proofs about IntegrationPass, for every table of the assumed shape.     *)
EXTENDS IntegrationProps, TLAPS, FiniteSetTheorems, NaturalsInduction, SequenceTheorems

-----------------------------------------------------------------------------
(* The step at hand.                                                       *)

(* A set of positions that is not empty has a first one.                   *)
LEMMA First == ASSUME NEW S \in SUBSET Nat, S # {} PROVE \E i \in S : \A j \in S : i <= j
<1> DEFINE R == {ss \in Nat \X Nat : ss[1] < ss[2]}
<1>1. IsWellFoundedOn(R, Nat)
  BY NatLessThanWellFounded DEF OpToRel
<1>2. \A i, j \in Nat : i < j => <<i, j>> \in R
  OBVIOUS
<1> HIDE DEF R
<1>3. PICK i \in S : \A j \in S : ~(<<j, i>> \in R)
  BY <1>1, WFMin
<1>4. ASSUME NEW j \in S PROVE i <= j
  <2>1. i \in Nat /\ j \in Nat
    OBVIOUS
  <2>2. ~(j < i)
    BY <1>2, <1>3, <2>1
  <2> QED
    BY <2>1, <2>2
<1> QED
  BY <1>4

LEMMA AtPosition ==
  ASSUME TypeOK, Working
  PROVE  /\ Position \in pass.plan /\ Position \in DOMAIN Program /\ Position \in Nat
         /\ \A j \in pass.plan : Position <= j
<1>1. pass.plan \in SUBSET Nat /\ pass.plan # {} /\ pass.plan \subseteq DOMAIN Program
  BY DEF TypeOK, PassType, Working
<1>2. \E i \in pass.plan : \A j \in pass.plan : i <= j
  BY <1>1, First
<1> QED
  BY <1>1, <1>2 DEF Position

(* What depends on the integration only does not change.                   *)
LEMMA Fixed ==
  ASSUME ctl' = ctl
  PROVE  /\ Self' = Self /\ Cells' = Cells /\ Steps' = Steps /\ Declarable' = Declarable
         /\ SecretNames' = SecretNames /\ Version' = Version /\ Value' = Value
         /\ SpecType' = SpecType /\ PassType' = PassType /\ CrType' = CrType
         /\ NewApp' = NewApp /\ NoPass' = NoPass
         /\ \A s : Refers(s)' = Refers(s)
  BY DEF Self, Cells, Steps, Declarable, SecretNames, Refers, Version, Value, SpecType, PassType, CrType,
         NewApp, NoPass

LEMMA SameProgram ==
  ASSUME ctl' = ctl, pass'.cleanup = pass.cleanup
  PROVE  Program' = Program
  BY DEF Program, Self

-----------------------------------------------------------------------------
(* Types.                                                                  *)

LEMMA ProgramType ==
  ASSUME TypeOK
  PROVE  Program \in Seq(StepType) /\ (Self.pass \in Seq(StepType)) /\ (Self.cleanup \in Seq(StepType))
  BY PassAssumption, TableAssumption DEF TypeOK, Program, Self

(* The shape of the program at hand.                                       *)
LEMMA Shape ==
  ASSUME TypeOK
  PROVE  /\ SharedSteps(Program) /\ Bounded(Program)
         /\ ~pass.cleanup =>
              /\ SecretsFirst(Program, Self.secrets) /\ ReadFirst(Program) /\ SetupFirst(Program)
              /\ WrittenOnce(Program) /\ Divided(Program)
         /\ pass.cleanup =>
              \A i \in DOMAIN Program :
                /\ Program[i].do \in {"secret", "client", "list", "threshold", "close"}
                /\ ~Program[i].setup
<1>1. ctl \in DOMAIN Table
  BY PassAssumption DEF TypeOK
<1> QED
  BY <1>1, TableAssumption DEF Program, Self

LEMMA StepOfType ==
  ASSUME TypeOK, Working
  PROVE  Step \in StepType
  BY AtPosition, ProgramType DEF Step

LEMMA WritesCells ==
  ASSUME TypeOK, NEW i \in DOMAIN Program, Program[i].do \in Writing
  PROVE  Program[i].cell \in Cells
<1>1. CASE pass.cleanup
  <2>1. Program = Table[ctl].cleanup /\ ctl \in DOMAIN Table
    BY <1>1, PassAssumption DEF Program, Self, TypeOK
  <2>2. Program[i].do = "close"
    BY <2>1, TableAssumption DEF Writing, Creating
  <2>3. PICK j \in DOMAIN Table[ctl].pass :
          Table[ctl].pass[j].do = "close" /\ Table[ctl].pass[j].cell = Program[i].cell
    BY <2>1, <2>2, TableAssumption
  <2>4. Table[ctl].pass[j] \in Range(Table[ctl].pass)
    BY DEF Range
  <2> QED
    BY <2>1, <2>3, <2>4 DEF Cells, CellsOf, CellsDoing, StepsOf, Writing
<1>2. CASE ~pass.cleanup
  <2>1. Program = Table[ctl].pass /\ ctl \in DOMAIN Table
    BY <1>2, PassAssumption DEF Program, Self, TypeOK
  <2>2. Program[i] \in Range(Table[ctl].pass)
    BY <2>1 DEF Range
  <2> QED
    BY <2>1, <2>2 DEF Cells, CellsOf, CellsDoing, StepsOf
<1> QED
  BY <1>1, <1>2

LEMMA CellOfType ==
  ASSUME TypeOK, Working, Step.do \in Writing
  PROVE  Cell \in Cells
  BY AtPosition, WritesCells DEF Cell, Step

LEMMA Bound ==
  ASSUME ctl \in Controllers
  PROVE  MaxEvents[ctl] \in Nat /\ 0 \in Version /\ 1 \in Version /\ Foreign \in Value
<1>1. MaxEvents \in [Controllers -> Nat]
  BY PassAssumption
<1>2. MaxEvents[ctl] \in Nat
  BY <1>1
<1>3. 0 \in Version /\ 1 \in Version
  BY <1>2 DEF Version
<1> QED
  BY <1>2, <1>3 DEF Value, Foreign

LEMMA NoPassOfType ==
  ASSUME ctl \in Controllers
  PROVE  NoPass \in PassType /\ NoPass.plan = {} /\ ~NoPass.on
<1>1. [c \in Cells |-> <<>>] \in [Cells -> Seq(Value)]
  OBVIOUS
<1>2. NoPass.spec \in SpecType
  BY Bound DEF NoPass, SpecType
<1> QED
  BY Bound, <1>1, <1>2 DEF NoPass, PassType

LEMMA NewAppOfType ==
  ASSUME ctl \in Controllers
  PROVE  NewApp \in [Cells -> Seq(Value)] /\ \A c \in Cells : Len(NewApp[c]) <= 2
<1>1. <<>> \in Seq(Value) /\ <<Foreign>> \in Seq(Value) /\ <<Foreign, Foreign>> \in Seq(Value)
  BY Bound
<1> QED
  BY <1>1 DEF NewApp

LEMMA InitTypeOK == Init => TypeOK
<1> SUFFICES ASSUME Init PROVE TypeOK
  OBVIOUS
<1>1. ctl \in Controllers
  BY DEF Init
<1>2. cr \in CrType
  <2>1. cr \in [declared : SUBSET Declarable, rev : {1}, observe : BOOLEAN, prune : BOOLEAN,
                cleanup : BOOLEAN, valid : BOOLEAN, finalizer : BOOLEAN, deleting : BOOLEAN,
                expired : BOOLEAN, gone : BOOLEAN]
    BY DEF Init, Declarations
  <2> QED
    BY <1>1, <2>1, Bound DEF CrType
<1>3. status \in [latest : BOOLEAN, synced : BOOLEAN, owned : SUBSET Cells,
                 reason : {"", "InvalidConfig", "Observed", "Synced"} \cup Reasons]
  BY DEF Init
<1>4. secret \in [SecretNames -> Version]
  BY <1>1, Bound DEF Init
<1>5. events \in 0 .. MaxEvents[ctl]
  <2>1. events = 0
    BY DEF Init
  <2> QED
    BY <1>1, <2>1, Bound
<1>7. setUp \in BOOLEAN
  <2>1. setUp = \A s \in Steps : ~s.setup
    BY DEF Init
  <2> QED
    BY <2>1
<1>6. /\ gauge \in {"none", "0", "1"} /\ due \in [queued : BOOLEAN, timer : BOOLEAN]
      /\ missing \subseteq DOMAIN secret /\ made \subseteq Cells /\ excused \subseteq Cells
      /\ app = NewApp /\ pass = NoPass
  BY DEF Init
<1> QED
  BY <1>1, <1>2, <1>3, <1>4, <1>5, <1>6, <1>7, NoPassOfType, NewAppOfType DEF TypeOK

-----------------------------------------------------------------------------
(* What requests write.                                                    *)

LEMMA Replaced ==
  ASSUME NEW V, NEW s \in Seq(V), NEW n, NEW v \in V
  PROVE  /\ [s EXCEPT ![n] = v] \in Seq(V) /\ Len([s EXCEPT ![n] = v]) = Len(s)
         /\ DOMAIN [s EXCEPT ![n] = v] = DOMAIN s
         /\ \A k \in DOMAIN s : [s EXCEPT ![n] = v][k] = IF k = n THEN v ELSE s[k]
<1>1. CASE n \in 1 .. Len(s)
  BY <1>1, ExceptSeq
<1>2. CASE n \notin 1 .. Len(s)
  <2>1. [s EXCEPT ![n] = v] = s
    BY <1>2
  <2> QED
    BY <1>2, <2>1
<1> QED
  BY <1>1, <1>2

LEMMA WantOfType ==
  ASSUME TypeOK, Working, Step.do \in Writing
  PROVE  /\ Cell \in Cells /\ Want \in Value /\ Foreign \in Value
         /\ app[Cell] \in Seq(Value) /\ Len(app[Cell]) <= 2 /\ Seen \in Seq(Value)
         /\ pass.spec.rev \in Version /\ pass.spec.rev \in Nat
<1>1. ctl \in Controllers /\ Cell \in Cells
  BY CellOfType DEF TypeOK
<1>2. pass.spec.rev \in Version /\ pass.got[Cell] \in Version
  BY <1>1 DEF TypeOK, PassType, SpecType
<1>3. pass.spec.rev \in Nat
  BY <1>2 DEF Version
<1> QED
  BY <1>1, <1>2, <1>3, Bound DEF TypeOK, PassType, Want, Value, Seen

LEMMA FirstOfPair ==
  ASSUME NEW V, NEW p \in Nat \X V, NEW l \in Nat
  PROVE  [p EXCEPT ![1] = l] = <<l, p[2]>> /\ <<l, p[2]>> \in Nat \X V
<1>1. PICK a \in Nat, b \in V : p = <<a, b>>
  OBVIOUS
<1>2. [<<a, b>> EXCEPT ![1] = l] = <<l, b>>
  OBVIOUS
<1> QED
  BY <1>1, <1>2

(* One worker limit is changed.                                            *)
LEMMA Nudged ==
  ASSUME NEW V, NEW s \in Seq(Nat \X V), NEW n \in 1 .. Len(s), NEW l \in Nat
  PROVE  /\ [s EXCEPT ![n][1] = l] \in Seq(Nat \X V) /\ Len([s EXCEPT ![n][1] = l]) = Len(s)
         /\ [s EXCEPT ![n][1] = l] = [s EXCEPT ![n] = <<l, s[n][2]>>]
<1>1. s[n] \in Nat \X V
  OBVIOUS
<1>2. [s[n] EXCEPT ![1] = l] = <<l, s[n][2]>> /\ <<l, s[n][2]>> \in Nat \X V
  BY <1>1, FirstOfPair
<1>3. [s EXCEPT ![n][1] = l] = [s EXCEPT ![n] = [s[n] EXCEPT ![1] = l]]
  OBVIOUS
<1>4. [s EXCEPT ![n][1] = l] = [s EXCEPT ![n] = <<l, s[n][2]>>]
  BY <1>2, <1>3
<1> HIDE <1>1, <1>3
<1>5. [s EXCEPT ![n] = <<l, s[n][2]>>] \in Seq(Nat \X V) /\ Len([s EXCEPT ![n] = <<l, s[n][2]>>]) = Len(s)
  BY <1>2, Replaced
<1> QED
  BY <1>4, <1>5

(* One copy more, of two at most.                                          *)
LEMMA Grown ==
  ASSUME NEW V, NEW s \in Seq(V), Len(s) <= 2, NEW w \in V, NEW r,
         r = IF Len(s) < 2 THEN Append(s, w) ELSE [s EXCEPT ![2] = w]
  PROVE  /\ r \in Seq(V) /\ Len(r) <= 2 /\ Len(r) > 0 /\ (Len(r) = Len(s) + 1 \/ Len(r) = 2)
         /\ r[Len(r)] = w
<1>1. CASE Len(s) < 2
  <2>1. r = Append(s, w)
    BY <1>1
  <2>2. r \in Seq(V) /\ Len(r) = Len(s) + 1 /\ r[Len(r)] = w
    BY <2>1
  <2> QED
    BY <1>1, <2>2
<1>2. CASE ~(Len(s) < 2)
  <2>1. r = [s EXCEPT ![2] = w]
    BY <1>2
  <2>2. Len(s) \in Nat /\ DOMAIN s = 1 .. Len(s)
    OBVIOUS
  <2>3. Len(s) = 2 /\ DOMAIN s = 1 .. 2
    BY <1>2, <2>2
  <2> HIDE <1>2
  <2>4. r \in Seq(V) /\ Len(r) = 2 /\ r[2] = w
    BY <2>1, <2>3, Replaced
  <2>5. r[Len(r)] = w
    BY <2>4
  <2> HIDE <2>1
  <2> QED
    BY <2>4, <2>5
<1> QED
  BY <1>1, <1>2

LEMMA OneMoreOfType ==
  ASSUME TypeOK, Working, Step.do \in Writing
  PROVE  /\ OneMore \in Seq(Value) /\ Len(OneMore) <= 2 /\ Len(OneMore) > 0
         /\ Len(OneMore) = Len(app[Cell]) + 1 \/ Len(OneMore) = 2
         /\ OneMore[Len(OneMore)] = Want
  BY WantOfType, Grown DEF OneMore

LEMMA TowardOfType ==
  ASSUME NEW l \in Nat, NEW t \in Nat \ {0}
  PROVE  l + Toward(l, t) \in Nat
  BY DEF Toward

(* At the nudge of a worker limit there are two of them, here and there.   *)
LEMMA AtNudge ==
  ASSUME TypeOK, Counted, Limits, Working, Step.do = "nudge"
  PROVE  /\ Cell = "workers" /\ Len(Seen) = 2 /\ Len(app[Cell]) = 2 /\ pass.node \in 1 .. 2
         /\ Seen[pass.node] \in Nat \X Version /\ app[Cell][pass.node] \in Nat \X Version
         /\ pass.spec.rev \in Nat \ {0}
<1>1. Program[Position].do = "nudge"
  BY DEF Step
<1>2. Cell = "workers"
  BY <1>1, AtPosition, Shape DEF Divided, Writing, Cell, Step
<1>3. Cell \in Cells /\ Seen \in Seq(Value) /\ app[Cell] \in Seq(Value)
  BY WantOfType DEF Writing
<1>4. Len(app[Cell]) = 2
  BY <1>2, <1>3 DEF Limits
<1>5. ~ReadAhead(Position)
  <2>1. \A j \in pass.plan : j \in Nat /\ Position \in Nat /\ Position <= j
    BY AtPosition DEF TypeOK, PassType
  <2> QED
    BY <2>1 DEF ReadAhead
<1>6. Len(Seen) = 2
  BY <1>2, <1>3, <1>5, AtPosition DEF Limits, Step, Seen
<1>7. pass.node \in 1 .. 2
  BY DEF TypeOK, PassType
<1>8. pass.spec.rev \in Nat \ {0}
  <2>1. pass.spec.rev \in 1 .. cr.rev /\ cr.rev \in 1 .. events + 1
    BY DEF Counted, Working
  <2>2. pass.spec.rev \in Nat
    BY <1>3, WantOfType DEF Writing
  <2> QED
    BY <2>1, <2>2
<1>9. \A s \in Seq(Value) : Len(s) = 2 => \A n \in 1 .. 2 : s[n] \in Nat \X Version
  BY DEF Value
<1> QED
  BY <1>2, <1>3, <1>4, <1>6, <1>7, <1>8, <1>9

LEMMA WrittenOfType ==
  ASSUME TypeOK, Counted, Limits, Working, Step.do \in Writing
  PROVE  Written \in Seq(Value) /\ Len(Written) <= 2
<1> DEFINE s == app[Cell]
<1>1. /\ Cell \in Cells /\ Want \in Value /\ Foreign \in Value /\ s \in Seq(Value) /\ Len(s) <= 2
  BY WantOfType
<1>2. <<Want>> \in Seq(Value) /\ <<Foreign>> \in Seq(Value) /\ <<>> \in Seq(Value)
      /\ Len(<<Want>>) = 1 /\ Len(<<Foreign>>) = 1 /\ Len(<<>>) = 0
  BY <1>1
<1>3. [s EXCEPT ![1] = Want] \in Seq(Value) /\ Len([s EXCEPT ![1] = Want]) <= 2
  BY <1>1, Replaced
<1>4. CASE Step.do = "part"
  <2>1. Written = s \/ Written = <<Foreign>>
    BY <1>4 DEF Written
  <2>2. CASE Written = s
    BY <1>1, <2>2
  <2>3. CASE Written = <<Foreign>>
    BY <1>2, <2>3
  <2> QED
    BY <2>1, <2>2, <2>3
<1>5. CASE Step.do \in {"write", "settle", "open"}
  <2>1. Written = <<Want>>
    BY <1>5 DEF Written
  <2> QED
    BY <1>2, <2>1
<1>6. CASE Step.do \in {"merge", "replace", "create", "add"}
  <2>1. Written \in {OneMore, [s EXCEPT ![1] = Want]}
    BY <1>6 DEF Written
  <2> QED
    BY <1>3, <2>1, OneMoreOfType
<1>7. CASE Step.do \in {"clear", "close"}
  <2>1. Written = <<>>
    BY <1>7 DEF Written
  <2> QED
    BY <1>2, <2>1
<1>8. CASE Step.do = "nudge"
  <2> DEFINE t == Toward(Seen[pass.node][1], pass.spec.rev)
             l == IF s[pass.node][1] + t < 0 THEN 0 ELSE s[pass.node][1] + t
  <2>1. Written = [s EXCEPT ![pass.node][1] = l]
    BY <1>8 DEF Written
  <2>2. pass.node \in 1 .. Len(s) /\ Len(s) = 2 /\ s[pass.node] \in Nat \X Version
    BY <1>8, AtNudge
  <2>3. l \in Nat
    BY <2>2 DEF Toward
  <2> HIDE DEF l
  <2>4. s \in Seq(Nat \X Version)
    BY <1>1 DEF Value
  <2>5. [s EXCEPT ![pass.node][1] = l] \in Seq(Nat \X Version) /\ Len([s EXCEPT ![pass.node][1] = l]) = 2
    BY <2>2, <2>3, <2>4, Nudged
  <2>6. Value = Nat \X Version
    BY DEF Value
  <2>7. Written \in Seq(Value) /\ Len(Written) = 2
    BY <2>1, <2>5, <2>6
  <2> QED
    BY <2>7
<1> QED
  BY <1>4, <1>5, <1>6, <1>7, <1>8 DEF Writing, Creating

(* A request changes at most the cell of its step.                         *)
LEMMA EffectOfType ==
  ASSUME TypeOK, Counted, Limits, Sends, Effect
  PROVE  /\ app' \in [Cells -> Seq(Value)] /\ \A c \in Cells : Len(app'[c]) <= 2
         /\ setUp' \in BOOLEAN /\ made' \subseteq Cells
<1>1. CASE Step.do \in Writing /\ ~Observing
  <2>1. app' = [app EXCEPT ![Cell] = Written] /\ Working
    BY <1>1 DEF Effect, Sends
  <2>2. Written \in Seq(Value) /\ Len(Written) <= 2 /\ Cell \in Cells
    BY <1>1, <2>1, WrittenOfType, WantOfType
  <2>3. app \in [Cells -> Seq(Value)] /\ \A c \in Cells : Len(app[c]) <= 2
    BY DEF TypeOK
  <2>4. app' \in [Cells -> Seq(Value)] /\ \A c \in Cells : Len(app'[c]) <= 2
    BY <2>1, <2>2, <2>3
  <2>5. setUp' \in BOOLEAN
    BY DEF Effect, TypeOK
  <2>6. made' \subseteq Cells
    BY <2>2 DEF Effect, TypeOK
  <2> QED
    BY <2>4, <2>5, <2>6
<1>2. CASE ~(Step.do \in Writing /\ ~Observing)
  BY <1>2 DEF Effect, TypeOK, Writing, Creating
<1> QED
  BY <1>1, <1>2

-----------------------------------------------------------------------------
(* What a step of the controller does to the pass: p is the next one.      *)

KeepsPass(p) ==
  /\ p.on = pass.on /\ p.cleanup = pass.cleanup /\ p.spec = pass.spec
  /\ p.current = pass.current /\ p.touched = pass.touched
KeepsKnowledge(p) ==
  /\ p.seen = pass.seen /\ p.got = pass.got /\ p.owned = pass.owned /\ p.node = pass.node
  /\ p.drift = pass.drift

Endings == Reasons \cup {r \in {"BadURL"} : ~pass.spec.valid}
Ends(p) == p.plan = {} /\ p.out \in Endings /\ p.errs = pass.errs
Advances(p) == p.plan = pass.plan \ {Position} /\ p.out = pass.out /\ p.errs = pass.errs
GivesUp(p) ==
  /\ p.plan = pass.plan \ ({Position} \cup SectionSteps) /\ p.out = pass.out /\ p.errs
  /\ Step.sec # Always /\ Step.do \notin {"secret", "client"} \cup DOMAIN FatalReason
SkipsSetup(p) ==
  /\ p.plan = pass.plan \ ({Position} \cup SetupSteps) /\ p.out = pass.out /\ p.errs = pass.errs
  /\ Step.do = "probe" /\ setUp
Stays(p) == p.plan = pass.plan /\ p.out = pass.out /\ p.errs = pass.errs /\ Step.do = "nudge"
Moves(p) ==
  /\ p \in PassType /\ KeepsPass(p)
  /\ Ends(p) \/ Advances(p) \/ GivesUp(p) \/ SkipsSetup(p) \/ Stays(p)

LEMMA WithoutMoves ==
  ASSUME TypeOK, NEW S, NEW p, p = Without(S)
  PROVE  /\ p \in PassType /\ KeepsPass(p) /\ KeepsKnowledge(p)
         /\ p.plan = pass.plan \ ({Position} \cup S) /\ p.out = pass.out /\ p.errs = pass.errs
  BY DEF TypeOK, PassType, KeepsPass, KeepsKnowledge, Without

LEMMA AdvanceMoves ==
  ASSUME TypeOK
  PROVE  Advance \in PassType /\ Moves(Advance) /\ Advances(Advance) /\ KeepsKnowledge(Advance)
<1>1. Advance \in PassType /\ KeepsPass(Advance) /\ KeepsKnowledge(Advance) /\ Advances(Advance)
  BY WithoutMoves DEF Advance, Advances
<1> QED
  BY <1>1 DEF Moves

LEMMA StopMoves ==
  ASSUME TypeOK, NEW r \in Endings
  PROVE  Moves(Stop(r)) /\ Ends(Stop(r)) /\ KeepsKnowledge(Stop(r)) /\ Stop(r).out = r
  BY DEF TypeOK, PassType, KeepsPass, KeepsKnowledge, Stop, Moves, Ends, Endings

LEMMA GiveUpMoves ==
  ASSUME TypeOK, Step.sec # Always, Step.do \notin {"secret", "client"} \cup DOMAIN FatalReason
  PROVE  Moves(GiveUpSection) /\ GivesUp(GiveUpSection) /\ KeepsKnowledge(GiveUpSection)
<1> DEFINE p == Without(SectionSteps)
<1>1. /\ p \in PassType /\ KeepsPass(p) /\ KeepsKnowledge(p)
      /\ p.plan = pass.plan \ ({Position} \cup SectionSteps) /\ p.out = pass.out /\ p.errs = pass.errs
  BY WithoutMoves
<1>2. GiveUpSection = [p EXCEPT !.errs = TRUE]
  BY DEF GiveUpSection
<1> HIDE DEF p
<1> QED
  BY <1>1, <1>2 DEF PassType, KeepsPass, KeepsKnowledge, Moves, GivesUp

(* A request that fails ends the pass or this section, or changes nothing. *)
LEMMA FailedMoves ==
  ASSUME TypeOK, Sends
  PROVE  /\ Moves(Failed) /\ KeepsKnowledge(Failed)
         /\ Ends(Failed) \/ GivesUp(Failed) \/ (Advances(Failed) /\ Step.do = "schema")
<1>1. Working /\ Step.do \notin {"secret", "needs", "client", "gate", "threshold"}
  BY DEF Sends
<1>2. CASE Step.do \in DOMAIN FatalReason
  <2>1. FatalReason[Step.do] \in Endings
    BY <1>2 DEF FatalReason, Reasons, Endings
  <2>2. Failed = Stop(FatalReason[Step.do])
    BY <1>2 DEF Failed
  <2> QED
    BY <2>1, <2>2, StopMoves
<1>3. CASE Step.do \notin DOMAIN FatalReason
  <2>1. Step.sec # Always
    BY <1>1, <1>3, AtPosition, Shape DEF SharedSteps, Step
  <2>2. /\ Failed \in {Stop("SyncFailed"), GiveUpSection} \/ (Failed = Advance /\ Step.do = "schema")
        /\ "SyncFailed" \in Endings
    BY <1>3 DEF Failed, Reasons, Endings
  <2>3. Step.do \notin {"secret", "client"} \cup DOMAIN FatalReason
    BY <1>1, <1>3
  <2>4. Step.sec # Always => Moves(GiveUpSection) /\ GivesUp(GiveUpSection) /\ KeepsKnowledge(GiveUpSection)
    BY <2>3, GiveUpMoves
  <2> HIDE <1>3
  <2> QED
    BY <2>1, <2>2, <2>4, StopMoves, AdvanceMoves
<1> QED
  BY <1>2, <1>3

LEMMA ListsOfType == ASSUME TypeOK PROVE Lists \in [Cells -> Seq(Value)]
<1>1. app \in [Cells -> Seq(Value)] /\ pass.seen \in [Cells -> Seq(Value)]
  BY DEF TypeOK, PassType
<1> QED
  BY <1>1 DEF Lists

(* What the controller learns from an answer.                              *)
Learns(p) ==
  /\ p.got = pass.got
  /\ p.seen = IF Step.do \in {"read", "list", "nodes"} THEN Lists
              ELSE IF Step.do = "nudge"
              THEN [pass.seen EXCEPT ![Cell][pass.node][1] = @ + Toward(@, pass.spec.rev)]
              ELSE pass.seen
  /\ p.owned = IF Step.do = "open" THEN pass.owned \cup {Cell}
               ELSE IF Step.do = "close" THEN pass.owned \ {Cell} ELSE pass.owned
  /\ Step.do # "nodes" => p.node = pass.node
  /\ p.drift = (pass.drift \/ (Step.do = "write" /\ Observing /\ app[Cell] # <<Want>>))

LEMMA LearntMoves ==
  ASSUME TypeOK, Counted, Limits, Sends, NEW p \in Learnt
  PROVE  /\ Moves(p) /\ Learns(p)
         /\ Step.do \notin {"nudge", "schema"} /\ ~(Step.do = "probe" /\ (setUp \/ Observing)) =>
              Advances(p)
         /\ Step.do = "schema" => GivesUp(p)
         /\ Step.do = "probe" /\ Observing /\ ~setUp => Ends(p)
         /\ Step.do = "probe" /\ setUp => SkipsSetup(p)
         /\ Step.do = "nudge" => Stays(p)
<1> DEFINE G == /\ Moves(p) /\ Learns(p)
                /\ Step.do \notin {"nudge", "schema"} /\ ~(Step.do = "probe" /\ (setUp \/ Observing)) =>
                     Advances(p)
                /\ Step.do = "schema" => GivesUp(p)
                /\ Step.do = "probe" /\ Observing /\ ~setUp => Ends(p)
                /\ Step.do = "probe" /\ setUp => SkipsSetup(p)
                /\ Step.do = "nudge" => Stays(p)
<1> DEFINE a == Advance
<1>a. a \in PassType /\ Moves(a) /\ Advances(a) /\ KeepsKnowledge(a) /\ KeepsPass(a)
  BY AdvanceMoves DEF Moves
<1>b. Working /\ setUp \in BOOLEAN /\ Observing \in BOOLEAN /\ pass.drift \in BOOLEAN
  BY DEF Sends, TypeOK, PassType, SpecType, Observing
<1>1. CASE Step.do = "probe" /\ ~setUp /\ Observing
  <2>1. p = Stop("DriftDetected") /\ "DriftDetected" \in Endings
    BY <1>1 DEF Learnt, Reasons, Endings
  <2> QED
    BY <1>1, <1>b, <2>1, StopMoves DEF KeepsKnowledge, Learns
<1>2. CASE Step.do = "probe" /\ ~setUp /\ ~Observing
  <2>1. p = a
    BY <1>2 DEF Learnt
  <2> QED
    BY <1>2, <1>a, <1>b, <2>1 DEF KeepsKnowledge, Learns
<1>3. CASE Step.do = "probe" /\ setUp
  <2>1. p = Without(SetupSteps)
    BY <1>3 DEF Learnt
  <2>2. SkipsSetup(p) /\ Moves(p) /\ KeepsKnowledge(p)
    BY <1>3, <2>1, WithoutMoves DEF SkipsSetup, Moves
  <2> QED
    BY <1>3, <1>b, <2>2 DEF KeepsKnowledge, Learns
<1>4. CASE Step.do \in {"read", "list"}
  <2>1. p = [a EXCEPT !.seen = Lists]
    BY <1>4 DEF Learnt
  <2> HIDE DEF a
  <2>2. p \in PassType /\ KeepsPass(p) /\ Advances(p)
    BY <1>a, <2>1, ListsOfType DEF PassType, KeepsPass, Advances
  <2>3. Learns(p)
    BY <1>a, <1>b, <1>4, <2>1 DEF PassType, KeepsKnowledge, Learns
  <2> QED
    BY <1>4, <2>2, <2>3 DEF Moves
<1>5. CASE Step.do = "nodes"
  <2>1. PICK n \in 1 .. 2 : p = [a EXCEPT !.seen = Lists, !.node = n]
    BY <1>5 DEF Learnt
  <2> HIDE DEF a
  <2>2. p \in PassType /\ KeepsPass(p) /\ Advances(p)
    BY <1>a, <2>1, ListsOfType DEF PassType, KeepsPass, Advances
  <2>3. Learns(p)
    BY <1>a, <1>b, <1>5, <2>1 DEF PassType, KeepsKnowledge, Learns
  <2> QED
    BY <1>5, <2>2, <2>3 DEF Moves
<1>6. CASE Step.do = "nudge"
  <2> DEFINE l == Seen[pass.node][1] + Toward(Seen[pass.node][1], pass.spec.rev)
             seen == [pass.seen EXCEPT ![Cell][pass.node][1] = @ + Toward(@, pass.spec.rev)]
  <2>1. p = [pass EXCEPT !.seen[Cell][pass.node][1] = @ + Toward(@, pass.spec.rev)]
    BY <1>6 DEF Learnt
  <2>2. p = [pass EXCEPT !.seen = seen]
    BY <2>1
  <2>3. seen = [pass.seen EXCEPT ![Cell] = [Seen EXCEPT ![pass.node][1] = l]]
    BY DEF Seen
  <2>4. /\ Cell \in Cells /\ Seen \in Seq(Value) /\ pass.node \in 1 .. Len(Seen)
        /\ Seen[pass.node][1] \in Nat /\ pass.spec.rev \in Nat \ {0}
    BY <1>6, <1>b, AtNudge, WantOfType DEF Writing
  <2>5. l \in Nat
    BY <2>4, TowardOfType
  <2> HIDE DEF l
  <2>6. Value = Nat \X Version
    BY DEF Value
  <2>7. [Seen EXCEPT ![pass.node][1] = l] \in Seq(Value)
    BY <2>4, <2>5, <2>6, Nudged
  <2>8. seen \in [Cells -> Seq(Value)]
    BY <2>3, <2>4, <2>7 DEF TypeOK, PassType
  <2> HIDE DEF seen
  <2>9. p \in PassType /\ KeepsPass(p) /\ Stays(p) /\ p.seen = seen
    BY <1>6, <2>2, <2>8 DEF TypeOK, PassType, KeepsPass, Stays
  <2>10. p.got = pass.got /\ p.owned = pass.owned /\ p.node = pass.node /\ p.drift = pass.drift
    BY <2>2 DEF TypeOK, PassType
  <2>11. Learns(p)
    BY <1>6, <1>b, <2>9, <2>10 DEF Learns, seen
  <2> QED
    BY <1>6, <2>9, <2>11 DEF Moves
<1>7. CASE Step.do = "open"
  <2>1. p = [a EXCEPT !.owned = @ \cup {Cell}] /\ Cell \in Cells
    BY <1>7, <1>b, CellOfType DEF Learnt, Writing, Creating
  <2> HIDE DEF a
  <2>2. p \in PassType /\ KeepsPass(p) /\ Advances(p)
    BY <1>a, <2>1 DEF PassType, KeepsPass, Advances
  <2>3. Learns(p)
    BY <1>a, <1>b, <1>7, <2>1 DEF PassType, KeepsKnowledge, Learns
  <2> QED
    BY <1>7, <2>2, <2>3 DEF Moves
<1>8. CASE Step.do = "close"
  <2>1. p = [a EXCEPT !.owned = @ \ {Cell}]
    BY <1>8 DEF Learnt
  <2> HIDE DEF a
  <2>2. p \in PassType /\ KeepsPass(p) /\ Advances(p)
    BY <1>a, <2>1 DEF PassType, KeepsPass, Advances
  <2>3. Learns(p)
    BY <1>a, <1>b, <1>8, <2>1 DEF PassType, KeepsKnowledge, Learns
  <2> QED
    BY <1>8, <2>2, <2>3 DEF Moves
<1>9. CASE Step.do = "write" /\ Observing
  <2> DEFINE d == app[Cell] # <<Want>>
  <2>1. p = [a EXCEPT !.drift = @ \/ d]
    BY <1>9 DEF Learnt
  <2> HIDE DEF a, d
  <2>2. p \in PassType /\ KeepsPass(p) /\ Advances(p)
    BY <1>a, <2>1 DEF PassType, KeepsPass, Advances
  <2>3. Learns(p)
    <3>1. /\ p.got = pass.got /\ p.seen = pass.seen /\ p.owned = pass.owned /\ p.node = pass.node
          /\ p.drift = (pass.drift \/ d)
      BY <1>a, <2>1 DEF PassType, KeepsKnowledge
    <3> QED
      BY <1>9, <3>1 DEF Learns, d
  <2> QED
    BY <1>9, <2>2, <2>3 DEF Moves
<1>10. CASE Step.do = "schema"
  <2>1. p = GiveUpSection /\ Step.do \notin DOMAIN FatalReason
    BY <1>10 DEF Learnt, FatalReason
  <2>2. Step.sec # Always
    BY <1>b, <1>10, <2>1, AtPosition, Shape DEF SharedSteps, Step
  <2>3. Moves(p) /\ GivesUp(p) /\ KeepsKnowledge(p)
    BY <1>10, <2>1, <2>2, GiveUpMoves
  <2> QED
    BY <1>10, <1>b, <2>3 DEF KeepsKnowledge, Learns
<1>11. CASE /\ Step.do \notin {"probe", "schema", "read", "list", "nodes", "nudge", "open", "close"}
            /\ ~(Step.do = "write" /\ Observing)
  <2>1. p = a
    BY <1>11 DEF Learnt
  <2>2. Learns(p)
    BY <1>11, <1>a, <1>b, <2>1 DEF KeepsKnowledge, Learns
  <2> QED
    BY <1>11, <1>a, <2>1, <2>2
<1> QED
  BY <1>1, <1>2, <1>3, <1>4, <1>5, <1>6, <1>7, <1>8, <1>9, <1>10, <1>11, <1>b

-----------------------------------------------------------------------------
(* The steps of a pass at work.                                            *)

Works ==
  \/ ResolveSecret \/ BuildClient \/ NoSession \/ Gate \/ Skip \/ Compare \/ Request
  \/ UpdatesNothing \/ RequestFails \/ AnswerLost

(* A step that sends nothing, with what it adds to the knowledge.          *)
Local(p) ==
  /\ UNCHANGED <<app, setUp, made>>
  /\ p.seen = pass.seen /\ p.owned = pass.owned /\ p.node = pass.node
  /\ Step.do \notin {"secret", "needs"} => p.got = pass.got
  /\ ~(Observing /\ Step.do \in Writing) => p.drift = pass.drift
  /\ pass.drift => p.drift
  /\ Advances(p) \/ Ends(p) \/ (GivesUp(p) /\ Step.do = "needs")

LEMMA StopLocal ==
  ASSUME TypeOK, PassOnly, NEW r \in Endings, pass' = Stop(r)
  PROVE  Moves(pass') /\ Local(pass') /\ Ends(pass')
  BY StopMoves DEF KeepsKnowledge, Local, PassOnly

LEMMA AdvanceLocal ==
  ASSUME TypeOK, PassOnly, pass' = Advance
  PROVE  Moves(pass') /\ Local(pass') /\ Advances(pass')
  BY AdvanceMoves DEF KeepsKnowledge, Local, PassOnly

(* A Secret that is resolved is one that is counted.                       *)
LEMMA SecretOfType ==
  ASSUME TypeOK, InOrder, Working, Resolved(Step.sec)
  PROVE  Step.sec \in DOMAIN secret /\ secret[Step.sec] \in Version
<1>1. Step.sec \in Declarable \cup {Always}
  BY AtPosition DEF InOrder, Chosen, Step, TypeOK, PassType, SpecType
<1>2. Refers(Step.sec)
  BY DEF Resolved, Refers
<1> QED
  BY <1>1, <1>2 DEF SecretNames, TypeOK

LEMMA ResolveSecretMoves ==
  ASSUME TypeOK, InOrder, ResolveSecret
  PROVE  Moves(pass') /\ Local(pass') /\ Step.do \in {"secret", "needs"}
<1> DEFINE a == Advance
           got == [c \in Cells |-> IF c = Cell THEN secret[c] ELSE a.got[c]]
<1>0. Working /\ Step.do \in {"secret", "needs"} /\ PassOnly
  BY DEF ResolveSecret
<1>1. CASE pass' = Advance
  BY <1>0, <1>1, AdvanceLocal
<1>2. CASE pass' = Stop("SecretNotFound")
  <2>1. "SecretNotFound" \in Endings
    BY DEF Reasons, Endings
  <2> QED
    BY <1>0, <1>2, <2>1, StopLocal
<1>3. CASE pass' = GiveUpSection /\ Step.do = "needs"
  <2>1. Step.sec # Always
    BY <1>0, <1>3, AtPosition, Shape DEF SharedSteps, Step, FatalReason
  <2> QED
    BY <1>0, <1>3, <2>1, GiveUpMoves DEF KeepsKnowledge, Local, PassOnly, FatalReason
<1>4. CASE pass' = [a EXCEPT !.got = got] /\ Resolved(Step.sec)
  <2>1. a \in PassType /\ Moves(a) /\ Advances(a) /\ KeepsKnowledge(a) /\ KeepsPass(a)
    BY AdvanceMoves DEF Moves
  <2>2. Cell = Step.sec
    <3>1. SecretsFirst(Program, Self.secrets) \/ pass.cleanup
      BY Shape
    <3>2. CASE pass.cleanup
      <4>1. Program = Table[ctl].cleanup /\ ctl \in DOMAIN Table
        BY <3>2, PassAssumption DEF Program, Self, TypeOK
      <4>2. Position \in DOMAIN Table[ctl].cleanup /\ Step = Table[ctl].cleanup[Position]
        BY <1>0, <4>1, AtPosition DEF Step
      <4>3. Step.do \in {"secret", "client", "list", "threshold", "close"}
        BY <4>1, <4>2, TableAssumption
      <4>4. Step.do = "secret"
        BY <1>0, <4>3
      <4> QED
        BY <4>1, <4>2, <4>4, TableAssumption DEF Cell
    <3> QED
      BY <1>0, <3>1, <3>2, AtPosition DEF SecretsFirst, Step, Cell
  <2>3. got \in [Cells -> Version]
    BY <1>0, <1>4, <2>1, <2>2, SecretOfType DEF PassType
  <2> HIDE DEF a, got
  <2>4. pass' \in PassType /\ KeepsPass(pass') /\ Advances(pass')
    BY <1>4, <2>1, <2>3 DEF PassType, KeepsPass, Advances
  <2>5. Local(pass')
    BY <1>0, <1>4, <2>1, <2>4 DEF PassType, KeepsKnowledge, Local, PassOnly
  <2> QED
    BY <1>0, <2>4, <2>5 DEF Moves
<1> QED
  BY <1>0, <1>1, <1>2, <1>3, <1>4 DEF ResolveSecret

LEMMA LocalMoves ==
  ASSUME TypeOK, InOrder,
         ResolveSecret \/ BuildClient \/ NoSession \/ Gate \/ Skip \/ Compare
  PROVE  /\ Working /\ PassOnly /\ Moves(pass') /\ Local(pass')
         /\ Step.do \in {"secret", "needs", "client", "session", "gate", "threshold"} \cup Writing
<1>0. {"SecretNotFound", "SyncFailed"} \subseteq Endings
  BY DEF Reasons, Endings
<1>1. CASE ResolveSecret
  BY <1>1, ResolveSecretMoves DEF ResolveSecret
<1>2. CASE BuildClient
  <2>1. /\ PassOnly /\ Working /\ Step.do = "client"
        /\ pass' = Advance \/ (pass' = Stop("BadURL") /\ "BadURL" \in Endings)
    BY <1>2 DEF BuildClient, Endings
  <2> QED
    BY <2>1, AdvanceLocal, StopLocal
<1>3. CASE NoSession
  BY <1>0, <1>3, StopLocal DEF NoSession
<1>4. CASE Gate
  <2>1. pass' \in {Advance, Stop("SyncFailed")} /\ PassOnly /\ Working
        /\ Step.do \in {"gate", "threshold"}
    BY <1>4 DEF Gate
  <2> QED
    BY <1>0, <2>1, AdvanceLocal, StopLocal
<1>5. CASE Skip
  BY <1>5, AdvanceLocal DEF Skip
<1>6. CASE Compare
  <2> DEFINE a == Advance
             d == ~Same
  <2>1. pass' = [a EXCEPT !.drift = @ \/ d] /\ PassOnly /\ Working /\ Step.do \in Writing /\ Observing
    BY <1>6 DEF Compare
  <2>2. a \in PassType /\ Moves(a) /\ Advances(a) /\ KeepsKnowledge(a) /\ KeepsPass(a)
    BY AdvanceMoves DEF Moves
  <2> HIDE DEF a, d
  <2>3. pass' \in PassType /\ KeepsPass(pass') /\ Advances(pass')
    BY <2>1, <2>2 DEF PassType, KeepsPass, Advances
  <2>4. Local(pass')
    BY <2>1, <2>2, <2>3 DEF PassType, KeepsKnowledge, Local, PassOnly
  <2> QED
    BY <2>1, <2>3, <2>4 DEF Moves
<1> QED
  BY <1>1, <1>2, <1>3, <1>4, <1>5, <1>6

(* A request that was answered, one that failed, or no request.            *)
LEMMA WorkMoves ==
  ASSUME TypeOK, Counted, Limits, InOrder, Works
  PROVE  /\ Working /\ Moves(pass')
         /\ UNCHANGED <<ctl, cr, status, gauge, due, secret, missing, excused>>
         /\ events' \in {events, events + 1} /\ events' \in 0 .. MaxEvents[ctl]
         /\ \/ Sends /\ Effect /\ Possible /\ pass' \in Learnt /\ Learns(pass')
            \/ /\ Sends
               /\ UNCHANGED <<app, setUp, made>> \/ (Possible /\ Effect)
               /\ KeepsKnowledge(pass')
               /\ Ends(pass') \/ GivesUp(pass') \/ (Advances(pass') /\ Step.do = "schema")
            \/ /\ Local(pass')
               /\ ResolveSecret \/ BuildClient \/ NoSession \/ Gate \/ Skip \/ Compare
<1>0. events \in 0 .. MaxEvents[ctl] /\ MaxEvents[ctl] \in Nat
  BY Bound DEF TypeOK
<1>a. ASSUME Event PROVE events' = events + 1 /\ events' \in 0 .. MaxEvents[ctl]
  BY <1>0, <1>a DEF Event
<1>1. CASE ResolveSecret \/ BuildClient \/ NoSession \/ Gate \/ Skip \/ Compare
  BY <1>0, <1>1, LocalMoves DEF PassOnly
<1>2. CASE Request
  <2>1. Sends /\ Effect /\ Possible /\ pass' \in Learnt /\ Working
    BY <1>2 DEF Request, Sends
  <2>2. Moves(pass') /\ Learns(pass')
    BY <2>1, LearntMoves
  <2> QED
    BY <1>0, <1>2, <2>1, <2>2 DEF Request
<1>3. CASE UpdatesNothing
  BY <1>0, <1>3, FailedMoves DEF UpdatesNothing, PassOnly, Sends
<1>4. CASE RequestFails
  BY <1>a, <1>4, FailedMoves DEF RequestFails, Sends
<1>5. CASE AnswerLost
  BY <1>a, <1>5, FailedMoves DEF AnswerLost, Sends
<1> QED
  BY <1>1, <1>2, <1>3, <1>4, <1>5 DEF Works

(* What is left of the plan after a step was left before.                  *)
LEMMA PlanShrinks ==
  ASSUME TypeOK, Moves(pass')
  PROVE  pass'.plan \subseteq pass.plan
  BY DEF Moves, Ends, Advances, GivesUp, SkipsSetup, Stays

LEMMA WorkTypeOK ==
  ASSUME TypeOK, Counted, Limits, InOrder, Works
  PROVE  TypeOK'
<1>1. /\ Moves(pass') /\ UNCHANGED <<ctl, cr, status, gauge, due, secret, missing, excused>>
      /\ events' \in 0 .. MaxEvents[ctl]
  BY WorkMoves
<1>2. (Sends /\ Effect) \/ UNCHANGED <<app, setUp, made>>
  BY WorkMoves DEF Local
<1>3. /\ app' \in [Cells -> Seq(Value)] /\ \A c \in Cells : Len(app'[c]) <= 2
      /\ setUp' \in BOOLEAN /\ made' \subseteq Cells
  <2>1. CASE Sends /\ Effect
    BY <2>1, EffectOfType
  <2>2. CASE UNCHANGED <<app, setUp, made>>
    BY <2>2 DEF TypeOK
  <2> QED
    BY <1>2, <2>1, <2>2
<1>4. pass' \in PassType /\ pass'.cleanup = pass.cleanup
  BY <1>1 DEF Moves, KeepsPass
<1>5. pass'.plan \subseteq DOMAIN Program'
  BY <1>1, <1>4, PlanShrinks, SameProgram DEF TypeOK
<1> QED
  BY <1>1, <1>3, <1>4, <1>5, Fixed DEF TypeOK

-----------------------------------------------------------------------------
(* The other steps.                                                        *)

(* The pass at work is left alone but for what it does not read.           *)
Undisturbed(p) ==
  /\ p \in PassType
  /\ \A f \in DOMAIN pass \ {"current", "touched"} : p[f] = pass[f]
  /\ pass.touched \subseteq p.touched /\ (p.current => pass.current)

LEMMA UndisturbedSame == ASSUME TypeOK PROVE Undisturbed(pass)
  BY DEF TypeOK, PassType, Undisturbed

LEMMA UndisturbedOld == ASSUME TypeOK PROVE Undisturbed([pass EXCEPT !.current = FALSE])
  BY DEF TypeOK, PassType, Undisturbed

LEMMA UndisturbedTouch ==
  ASSUME TypeOK, NEW s \in SUBSET Cells, Touch(s)
  PROVE  Undisturbed(pass') /\ (pass.on => pass'.touched = pass.touched \cup s)
  BY DEF TypeOK, PassType, Undisturbed, Touch

LEMMA UndisturbedFacts ==
  ASSUME TypeOK, ctl' = ctl, Undisturbed(pass')
  PROVE  /\ Program' = Program /\ pass' \in PassType /\ pass'.plan = pass.plan
         /\ pass'.on = pass.on /\ pass'.cleanup = pass.cleanup /\ pass'.spec = pass.spec
         /\ pass'.seen = pass.seen /\ pass'.got = pass.got /\ pass'.errs = pass.errs
         /\ pass'.drift = pass.drift /\ pass'.owned = pass.owned /\ pass'.out = pass.out
         /\ pass'.node = pass.node /\ pass.touched \subseteq pass'.touched
         /\ (pass'.current => pass.current)
<1>1. {"on", "cleanup", "plan", "spec", "seen", "got", "errs", "drift", "owned", "out", "node"}
        \subseteq DOMAIN pass \ {"current", "touched"}
  BY DEF TypeOK, PassType
<1>2. \A f \in DOMAIN pass \ {"current", "touched"} : pass'[f] = pass[f]
  BY DEF Undisturbed
<1>3. /\ pass'.on = pass.on /\ pass'.cleanup = pass.cleanup /\ pass'.spec = pass.spec
      /\ pass'.seen = pass.seen /\ pass'.got = pass.got /\ pass'.errs = pass.errs
      /\ pass'.drift = pass.drift /\ pass'.owned = pass.owned /\ pass'.out = pass.out
      /\ pass'.node = pass.node /\ pass'.plan = pass.plan
  BY <1>1, <1>2
<1> QED
  BY <1>3, SameProgram DEF Undisturbed

(* The type invariant where only the variables named change.               *)
LEMMA TypeOKWith ==
  ASSUME TypeOK, ctl' = ctl, cr' \in CrType,
         status' \in [latest : BOOLEAN, synced : BOOLEAN, owned : SUBSET Cells,
                      reason : {"", "InvalidConfig", "Observed", "Synced"} \cup Reasons],
         gauge' \in {"none", "0", "1"}, due' \in [queued : BOOLEAN, timer : BOOLEAN],
         secret' \in [SecretNames -> Version], missing' \subseteq DOMAIN secret',
         app' \in [Cells -> Seq(Value)], \A c \in Cells : Len(app'[c]) <= 2,
         setUp' \in BOOLEAN, events' \in 0 .. MaxEvents[ctl],
         pass' \in PassType, pass'.plan \subseteq DOMAIN Program',
         made' \subseteq Cells, excused' \subseteq Cells
  PROVE  TypeOK'
  BY Fixed DEF TypeOK

(* Starts.                                                                 *)

LEMMA SpecReadOfType ==
  ASSUME TypeOK
  PROVE  /\ SpecRead \in SpecType /\ SpecRead.declared = cr.declared /\ SpecRead.rev = cr.rev
         /\ SpecRead.observe = cr.observe /\ SpecRead.prune = cr.prune
         /\ SpecRead.cleanup = cr.cleanup /\ SpecRead.valid = cr.valid
<1>1. cr \in CrType
  BY DEF TypeOK
<1>2. SpecRead = [declared |-> cr.declared, rev |-> cr.rev, observe |-> cr.observe,
                  prune |-> cr.prune, cleanup |-> cr.cleanup, valid |-> cr.valid]
  BY DEF SpecRead
<1> QED
  BY <1>1, <1>2 DEF CrType, SpecType

(* The pass that StartSync begins.                                         *)
LEMMA SyncPass ==
  ASSUME TypeOK, NEW q \in {"queued", "timer"}, StartSync(q)
  PROVE  /\ pass' \in PassType /\ pass'.on /\ ~pass'.cleanup /\ ~pass'.errs /\ ~pass'.drift
         /\ pass'.spec = SpecRead /\ pass'.owned = status.owned /\ pass'.touched = {}
         /\ pass'.current /\ pass'.plan \subseteq DOMAIN Self.pass
         /\ IF Accepted(cr) THEN pass'.out = "" /\ pass'.plan = Relevant(Self.pass, cr)
                            ELSE pass'.out = "InvalidConfig" /\ pass'.plan = {}
<1> DEFINE n == NoPass
           plan == IF Accepted(cr) THEN Relevant(Self.pass, cr) ELSE {}
           out == IF Accepted(cr) THEN "" ELSE "InvalidConfig"
           r == SpecRead
           o == status.owned
<1>1. pass' = [n EXCEPT !.on = TRUE, !.spec = r, !.owned = o, !.plan = plan, !.out = out]
  BY DEF StartSync
<1>2. n \in PassType
  BY NoPassOfType DEF TypeOK
<1>3. ~n.cleanup /\ ~n.errs /\ ~n.drift /\ n.touched = {} /\ n.current
  BY DEF NoPass
<1>4. plan \subseteq DOMAIN Self.pass /\ Self.pass \in Seq(StepType)
  BY ProgramType DEF Relevant
<1>5. plan \subseteq Nat
  <2>1. DOMAIN Self.pass = 1 .. Len(Self.pass) /\ Len(Self.pass) \in Nat
    BY <1>4
  <2> QED
    BY <1>4, <2>1
<1>6. out \in {"", "InvalidConfig"}
  OBVIOUS
<1>7. o \in SUBSET Cells
  BY DEF TypeOK
<1> HIDE DEF n, plan, out, r, o
<1>8. r \in SpecType
  BY SpecReadOfType DEF r
<1>9. /\ pass' \in PassType /\ pass'.on /\ ~pass'.cleanup /\ ~pass'.errs /\ ~pass'.drift
      /\ pass'.spec = r /\ pass'.owned = o /\ pass'.touched = {}
      /\ pass'.current /\ pass'.plan = plan /\ pass'.out = out
  BY <1>1, <1>2, <1>3, <1>5, <1>6, <1>7, <1>8 DEF PassType
<1> QED
  BY <1>4, <1>9 DEF plan, out, r, o

(* The pass that StartCleanup begins.                                      *)
LEMMA CleanupPass ==
  ASSUME TypeOK, NEW q \in {"queued", "timer"}, StartCleanup(q)
  PROVE  /\ pass' \in PassType /\ pass'.on /\ pass'.cleanup /\ ~pass'.errs /\ pass'.out = ""
         /\ pass'.spec = [SpecRead EXCEPT !.declared = @ \cap {"tls"}, !.prune = TRUE]
         /\ pass'.spec.declared = cr.declared \cap {"tls"} /\ pass'.owned = status.owned
         /\ \A f \in {"rev", "observe", "cleanup", "valid"} : pass'.spec[f] = cr[f]
         /\ pass'.plan \subseteq DOMAIN Self.cleanup /\ pass'.current
         /\ pass'.plan \subseteq Relevant(Self.cleanup, cr)
         /\ (pass'.plan # {} => pass'.plan = Relevant(Self.cleanup, cr))
<1> DEFINE n == NoPass
           plan == IF status.owned = {} THEN {} ELSE Relevant(Self.cleanup, cr)
           s == SpecRead
           r == [s EXCEPT !.declared = @ \cap {"tls"}, !.prune = TRUE]
           o == status.owned
<1>1. pass' = [n EXCEPT !.on = TRUE, !.cleanup = TRUE, !.owned = o, !.spec = r, !.plan = plan]
  BY DEF StartCleanup
<1>2. n \in PassType
  BY NoPassOfType DEF TypeOK
<1>3. ~n.errs /\ n.out = "" /\ n.current
  BY DEF NoPass
<1>4. plan \subseteq DOMAIN Self.cleanup /\ Self.cleanup \in Seq(StepType)
  BY ProgramType DEF Relevant
<1>5. plan \subseteq Nat
  <2>1. DOMAIN Self.cleanup = 1 .. Len(Self.cleanup) /\ Len(Self.cleanup) \in Nat
    BY <1>4
  <2> QED
    BY <1>4, <2>1
<1>7. o \in SUBSET Cells
  BY DEF TypeOK
<1> HIDE DEF n, plan, o, s
<1>8. /\ r \in SpecType /\ r.declared = cr.declared \cap {"tls"}
      /\ r.rev = cr.rev /\ r.observe = cr.observe /\ r.cleanup = cr.cleanup /\ r.valid = cr.valid
  <2>1. /\ s \in SpecType /\ s.declared = cr.declared
        /\ s.rev = cr.rev /\ s.observe = cr.observe /\ s.cleanup = cr.cleanup /\ s.valid = cr.valid
    BY SpecReadOfType DEF s
  <2> QED
    BY <2>1 DEF SpecType
<1> HIDE DEF r
<1>9. /\ pass' \in PassType /\ pass'.on /\ pass'.cleanup /\ ~pass'.errs /\ pass'.out = ""
      /\ pass'.spec = r /\ pass'.owned = o /\ pass'.plan = plan /\ pass'.current
  BY <1>1, <1>2, <1>3, <1>5, <1>7, <1>8 DEF PassType
<1>10. pass'.spec = [SpecRead EXCEPT !.declared = @ \cap {"tls"}, !.prune = TRUE]
  BY <1>9 DEF r, s
<1> QED
  BY <1>4, <1>8, <1>9, <1>10 DEF plan, o

LEMMA NoPassNow ==
  ASSUME TypeOK, ctl' = ctl, pass' = NoPass
  PROVE  pass' \in PassType /\ pass'.plan = {} /\ ~pass'.on
  BY NoPassOfType DEF TypeOK

LEMMA LeftBehindOfType == ASSUME TypeOK PROVE LeftBehind \subseteq Cells
<1>1. ctl \in DOMAIN Table
  BY PassAssumption DEF TypeOK
<1>2. SetupCellsOf[ctl] \subseteq CellsOf[ctl]
  BY <1>1 DEF CellsOf, CellsDoing, SetupCellsOf, StepsOf
<1> QED
  BY <1>2 DEF LeftBehind, Cells

(* The end of a pass that keeps the status or writes it.                   *)
LEMMA ReturnTypes ==
  ASSUME TypeOK, Return
  PROVE  /\ ctl' = ctl /\ cr' \in CrType /\ gauge' \in {"none", "0", "1"}
         /\ due' \in [queued : BOOLEAN, timer : BOOLEAN] /\ secret' \in [SecretNames -> Version]
         /\ missing' \subseteq DOMAIN secret' /\ app' = app /\ setUp' = setUp /\ made' = made
         /\ pass' = NoPass /\ excused' \subseteq Cells
<1>1. LeftBehind \subseteq Cells
  BY LeftBehindOfType
<1>2. due' \in [queued : BOOLEAN, timer : BOOLEAN]
  BY DEF Return, Requeue, TypeOK
<1> QED
  BY <1>1, <1>2 DEF Return, TypeOK

LEMMA RestTypeOK ==
  ASSUME TypeOK, Counted, [Next]_vars, ~Works
  PROVE  TypeOK'
<1>0. events \in 0 .. MaxEvents[ctl] /\ MaxEvents[ctl] \in Nat /\ ctl \in Controllers
  BY Bound DEF TypeOK
<1>a. ASSUME Event PROVE events' = events + 1 /\ events' \in 0 .. MaxEvents[ctl] /\ events < MaxEvents[ctl]
  BY <1>0, <1>a DEF Event
<1>b. /\ cr \in CrType /\ pass \in PassType
      /\ status \in [latest : BOOLEAN, synced : BOOLEAN, owned : SUBSET Cells,
                     reason : {"", "InvalidConfig", "Observed", "Synced"} \cup Reasons]
      /\ gauge \in {"none", "0", "1"} /\ due \in [queued : BOOLEAN, timer : BOOLEAN]
      /\ secret \in [SecretNames -> Version] /\ missing \subseteq DOMAIN secret
      /\ app \in [Cells -> Seq(Value)] /\ (\A c \in Cells : Len(app[c]) <= 2)
      /\ setUp \in BOOLEAN /\ pass.plan \subseteq DOMAIN Program
      /\ made \subseteq Cells /\ excused \subseteq Cells
  BY DEF TypeOK
<1>c. ASSUME ctl' = ctl, pass' = NoPass PROVE pass' \in PassType /\ pass'.plan \subseteq DOMAIN Program'
  BY <1>c, NoPassNow
<1>d. ASSUME ctl' = ctl, Undisturbed(pass') PROVE pass' \in PassType /\ pass'.plan \subseteq DOMAIN Program'
  BY <1>d, <1>b, UndisturbedFacts
<1>e. ASSUME pass' = pass PROVE Undisturbed(pass')
  BY <1>e, UndisturbedSame
<1>1. ASSUME NEW q \in {"queued", "timer"}, StartSync(q) PROVE TypeOK'
  <2>1. /\ pass' \in PassType /\ pass'.plan \subseteq DOMAIN Self.pass /\ ~pass'.cleanup
    BY <1>1, SyncPass
  <2>2. UNCHANGED <<ctl, status, gauge, secret, missing, app, setUp, events, made, excused>>
    BY <1>1 DEF StartSync
  <2>3. Program' = Self.pass
    BY <2>1, <2>2 DEF Program, Self
  <2>4. cr' \in CrType
    BY <1>b, <1>1 DEF StartSync, CrType
  <2>5. due' \in [queued : BOOLEAN, timer : BOOLEAN]
    BY <1>b, <1>1 DEF StartSync, CrType
  <2> QED
    BY <1>0, <1>b, <2>1, <2>2, <2>3, <2>4, <2>5, TypeOKWith
<1>2. ASSUME NEW q \in {"queued", "timer"}, StartDeletion(q) PROVE TypeOK'
  <2>1. UNCHANGED <<ctl, status, gauge, secret, missing, app, setUp, pass, events, made, excused>>
    BY <1>2 DEF StartDeletion
  <2>2. cr' \in CrType
    BY <1>b, <1>2 DEF StartDeletion, CrType
  <2>3. due' \in [queued : BOOLEAN, timer : BOOLEAN]
    BY <1>b, <1>2 DEF StartDeletion
  <2> QED
    BY <1>0, <1>b, <1>d, <1>e, <2>1, <2>2, <2>3, TypeOKWith
<1>3. ASSUME NEW q \in {"queued", "timer"}, StartCleanup(q) PROVE TypeOK'
  <2>1. /\ pass' \in PassType /\ pass'.plan \subseteq DOMAIN Self.cleanup /\ pass'.cleanup
    BY <1>3, CleanupPass
  <2>2. UNCHANGED <<ctl, cr, status, gauge, secret, missing, app, setUp, events, made, excused>>
    BY <1>3 DEF StartCleanup
  <2>3. Program' = Self.cleanup
    BY <2>1, <2>2 DEF Program, Self
  <2>5. due' \in [queued : BOOLEAN, timer : BOOLEAN]
    BY <1>b, <1>3 DEF StartCleanup
  <2> QED
    BY <1>0, <1>b, <2>1, <2>2, <2>3, <2>5, TypeOKWith
<1>4. CASE UpdateStatus
  <2>1. Return /\ UNCHANGED events
    BY <1>4 DEF UpdateStatus
  <2>2. Reason \in {"", "InvalidConfig", "Observed", "Synced"} \cup Reasons
    BY <1>b DEF Reason, PassType, Reasons
  <2>3. Synced \in BOOLEAN
    BY DEF Synced
  <2>4. status' \in [latest : BOOLEAN, synced : BOOLEAN, owned : SUBSET Cells,
                     reason : {"", "InvalidConfig", "Observed", "Synced"} \cup Reasons]
    BY <1>b, <1>4, <2>2, <2>3 DEF UpdateStatus, PassType
  <2> QED
    BY <1>0, <1>b, <1>c, <2>1, <2>4, ReturnTypes, TypeOKWith
<1>5. CASE StatusRefused
  <2>1. Return /\ Event /\ UNCHANGED status
    BY <1>5 DEF StatusRefused
  <2> QED
    BY <1>a, <1>b, <1>c, <2>1, ReturnTypes, TypeOKWith
<1>6. CASE FinishDeletion
  <2>1. /\ UNCHANGED <<ctl, status, gauge, secret, missing, app, setUp, events, made, excused>>
        /\ pass' = NoPass
    BY <1>6 DEF FinishDeletion
  <2>2. cr' \in CrType
    BY <1>b, <1>6 DEF FinishDeletion, CrType
  <2>3. due' \in [queued : BOOLEAN, timer : BOOLEAN]
    BY <1>b, <1>6 DEF FinishDeletion, Requeue
  <2> QED
    BY <1>0, <1>b, <1>c, <2>1, <2>2, <2>3, TypeOKWith
<1>7. CASE FinalizerRefused
  <2>1. UNCHANGED <<ctl, cr, status, gauge, secret, missing, app, setUp, pass, made, excused>> /\ Event
    BY <1>7 DEF FinalizerRefused
  <2>2. due' \in [queued : BOOLEAN, timer : BOOLEAN]
    BY <1>b, <1>7 DEF FinalizerRefused
  <2> QED
    BY <1>a, <1>b, <1>d, <1>e, <2>1, <2>2, TypeOKWith
<1>8. CASE Crash
  <2>1. UNCHANGED <<ctl, cr, status, secret, missing, app, setUp, made>> /\ Event /\ pass' = NoPass
    BY <1>8 DEF Crash
  <2>2. due' \in [queued : BOOLEAN, timer : BOOLEAN] /\ gauge' \in {"none", "0", "1"}
    BY <1>8 DEF Crash
  <2>3. LeftBehind \subseteq Cells
    BY LeftBehindOfType
  <2>4. excused' \subseteq Cells
    BY <1>b, <1>8, <2>3 DEF Crash
  <2> QED
    BY <1>a, <1>b, <1>c, <2>1, <2>2, <2>4, TypeOKWith
<1>9. CASE Edit
  <2>1. /\ UNCHANGED <<ctl, gauge, secret, missing, app, setUp, made, excused>> /\ Event
        /\ pass' = [pass EXCEPT !.current = FALSE]
        /\ status' = [status EXCEPT !.latest = FALSE] /\ due' = [due EXCEPT !.queued = TRUE]
    BY <1>9 DEF Edit
  <2>2. cr' \in CrType
    <3>1. cr.rev + 1 \in Version
      <4>1. cr.rev \in 1 .. events + 1
        BY DEF Counted
      <4>2. cr.rev \in Nat
        BY <1>0, <4>1
      <4> QED
        BY <1>a, <1>0, <2>1, <4>1, <4>2 DEF Version
    <3>2. \A s \in Declarable : Toggle(s) \in SUBSET Declarable
      BY <1>b DEF Toggle, CrType
    <3>3. cr' \in {[cr EXCEPT !.rev = @ + 1], [cr EXCEPT !.observe = ~@], [cr EXCEPT !.valid = ~@]}
            \cup {[cr EXCEPT !.declared = Toggle(s)] : s \in Declarable}
            \cup {[cr EXCEPT !.cleanup = ~@], [cr EXCEPT !.prune = ctl = "flaresolverr" /\ ~@]}
      BY <1>9 DEF Edit
    <3>4. CASE cr' = [cr EXCEPT !.rev = @ + 1]
      BY <1>b, <3>1, <3>4 DEF CrType
    <3>5. CASE cr' \in {[cr EXCEPT !.observe = ~@], [cr EXCEPT !.valid = ~@], [cr EXCEPT !.cleanup = ~@]}
      BY <1>b, <3>5 DEF CrType
    <3>6. ASSUME NEW s \in Declarable, cr' = [cr EXCEPT !.declared = Toggle(s)] PROVE cr' \in CrType
      BY <1>b, <3>2, <3>6 DEF CrType
    <3>7. CASE cr' = [cr EXCEPT !.prune = ctl = "flaresolverr" /\ ~@]
      BY <1>b, <3>7 DEF CrType
    <3> QED
      BY <3>3, <3>4, <3>5, <3>6, <3>7
  <2>3. Undisturbed(pass')
    BY <2>1, UndisturbedOld
  <2>4. due' \in [queued : BOOLEAN, timer : BOOLEAN]
    BY <1>b, <2>1
  <2>5. status' \in [latest : BOOLEAN, synced : BOOLEAN, owned : SUBSET Cells,
                     reason : {"", "InvalidConfig", "Observed", "Synced"} \cup Reasons]
    BY <1>b, <2>1
  <2> QED
    BY <1>a, <1>b, <1>d, <2>1, <2>2, <2>3, <2>4, <2>5, TypeOKWith
<1>10. CASE DeleteObject
  <2>1. /\ UNCHANGED <<ctl, status, gauge, secret, missing, app, setUp, made, excused>> /\ Event
        /\ pass' = [pass EXCEPT !.current = FALSE] /\ due' = [due EXCEPT !.queued = TRUE]
        /\ cr' = [cr EXCEPT !.deleting = TRUE, !.gone = ~cr.finalizer]
    BY <1>10 DEF DeleteObject
  <2>2. cr' \in CrType
    BY <1>b, <2>1 DEF CrType
  <2>3. Undisturbed(pass')
    BY <2>1, UndisturbedOld
  <2>4. due' \in [queued : BOOLEAN, timer : BOOLEAN]
    BY <1>b, <2>1
  <2> QED
    BY <1>a, <1>b, <1>d, <2>1, <2>2, <2>3, <2>4, TypeOKWith
<1>11. CASE DeadlinePasses
  <2>1. UNCHANGED <<ctl, status, gauge, due, secret, missing, app, setUp, pass, events, made, excused>>
    BY <1>11 DEF DeadlinePasses
  <2>2. cr' \in CrType
    BY <1>b, <1>11 DEF DeadlinePasses, CrType
  <2> QED
    BY <1>0, <1>b, <1>d, <1>e, <2>1, <2>2, TypeOKWith
<1>12. CASE Rebuild
  <2>1. /\ UNCHANGED <<ctl, cr, status, gauge, due, secret, missing, made, excused>> /\ Event
        /\ app' = NewApp /\ setUp' \in BOOLEAN /\ Touch(Cells)
    BY <1>12 DEF Rebuild
  <2>2. Undisturbed(pass')
    BY <2>1, UndisturbedTouch
  <2>3. app' \in [Cells -> Seq(Value)] /\ \A c \in Cells : Len(app'[c]) <= 2
    BY <1>0, <2>1, NewAppOfType
  <2> QED
    BY <1>a, <1>b, <1>d, <2>1, <2>2, <2>3, TypeOKWith
<1>b2. ASSUME NEW s, Notice(s) PROVE due' \in [queued : BOOLEAN, timer : BOOLEAN]
  BY <1>b, <1>b2 DEF Notice
<1>13. ASSUME NEW s \in Used, Rotate(s) PROVE TypeOK'
  <2>1. /\ UNCHANGED <<ctl, cr, status, gauge, missing, app, setUp, pass, made, excused>> /\ Event
        /\ secret' = [secret EXCEPT ![s] = @ + 1] /\ Notice(s)
    BY <1>13 DEF Rotate
  <2>2. secret[s] + 1 \in Version
    <3>1. s \in DOMAIN secret
      BY DEF Used
    <3>2. secret[s] \in 1 .. events + 1 /\ secret[s] \in Version
      BY <1>b, <3>1 DEF Counted
    <3> QED
      BY <1>0, <1>a, <2>1, <3>2 DEF Version
  <2>3. secret' \in [SecretNames -> Version] /\ missing' \subseteq DOMAIN secret'
    BY <1>b, <2>1, <2>2
  <2> QED
    BY <1>a, <1>b, <1>b2, <1>d, <1>e, <2>1, <2>3, TypeOKWith
<1>14. ASSUME NEW s \in Used, RemoveSecret(s) PROVE TypeOK'
  <2>1. /\ UNCHANGED <<ctl, cr, status, gauge, secret, app, setUp, pass, made, excused>> /\ Event
        /\ missing' = missing \cup {s} /\ Notice(s)
    BY <1>14 DEF RemoveSecret
  <2>2. missing' \subseteq DOMAIN secret'
    BY <1>b, <2>1 DEF Used
  <2> QED
    BY <1>a, <1>b, <1>b2, <1>d, <1>e, <2>1, <2>2, TypeOKWith
<1>15. ASSUME NEW s \in missing, RestoreSecret(s) PROVE TypeOK'
  <2>1. /\ UNCHANGED <<ctl, cr, status, gauge, secret, app, setUp, pass, events, made, excused>>
        /\ missing' = missing \ {s} /\ Notice(s)
    BY <1>15 DEF RestoreSecret
  <2>2. missing' \subseteq DOMAIN secret'
    BY <1>b, <2>1
  <2> QED
    BY <1>0, <1>b, <1>b2, <1>d, <1>e, <2>1, <2>2, TypeOKWith
<1>16. ASSUME NEW c \in Cells, HandChange(c) PROVE TypeOK'
  <2>1. /\ UNCHANGED <<ctl, cr, status, gauge, due, secret, missing, setUp, made>> /\ Event
        /\ Touch({c}) /\ excused' \subseteq Cells
    BY <1>b, <1>16 DEF HandChange
  <2>2. Undisturbed(pass')
    BY <2>1, UndisturbedTouch
  <2>3. app' \in [Cells -> Seq(Value)] /\ \A d \in Cells : Len(app'[d]) <= 2
    <3>0. Foreign \in Value /\ app[c] \in Seq(Value) /\ Len(app[c]) <= 2
      BY <1>0, <1>b, Bound
    <3>1. ASSUME NEW v \in Seq(Value), Len(v) <= 2, app' = [app EXCEPT ![c] = v]
          PROVE  app' \in [Cells -> Seq(Value)] /\ \A d \in Cells : Len(app'[d]) <= 2
      BY <1>b, <3>1
    <3>a. /\ <<>> \in Seq(Value) /\ <<Foreign>> \in Seq(Value)
          /\ Len(<<>>) = 0 /\ Len(<<Foreign>>) = 1
      BY <3>0
    <3>b. \A v \in Seq(Value) : Len(v) \in {0, 1} => Len(v) <= 2
      OBVIOUS
    <3>2. CASE app' = [app EXCEPT ![c] = <<>>]
      BY <3>1, <3>2, <3>a, <3>b
    <3>3. CASE app' = [app EXCEPT ![c] = <<Foreign>>]
      BY <3>1, <3>3, <3>a, <3>b
    <3>4. CASE app' = [app EXCEPT ![c][1] = Foreign]
      <4>1. app' = [app EXCEPT ![c] = [app[c] EXCEPT ![1] = Foreign]]
        BY <3>4
      <4>2. [app[c] EXCEPT ![1] = Foreign] \in Seq(Value) /\ Len([app[c] EXCEPT ![1] = Foreign]) <= 2
        BY <3>0, Replaced
      <4> QED
        BY <3>1, <4>1, <4>2
    <3>5. ASSUME NEW l \in 1 .. 2, app' = [app EXCEPT ![c][1] = <<l, 0>>]
          PROVE  app' \in [Cells -> Seq(Value)] /\ \A d \in Cells : Len(app'[d]) <= 2
      <4>1. app' = [app EXCEPT ![c] = [app[c] EXCEPT ![1] = <<l, 0>>]]
        BY <3>5
      <4>2. <<l, 0>> \in Value
        BY <1>0, Bound DEF Value
      <4>3. [app[c] EXCEPT ![1] = <<l, 0>>] \in Seq(Value) /\ Len([app[c] EXCEPT ![1] = <<l, 0>>]) <= 2
        BY <3>0, <4>2, Replaced
      <4> QED
        BY <3>1, <4>1, <4>3
    <3> QED
      BY <1>16, <3>2, <3>3, <3>4, <3>5 DEF HandChange
  <2> QED
    BY <1>a, <1>b, <1>d, <2>1, <2>2, <2>3, TypeOKWith
<1>17. CASE UNCHANGED vars
  BY <1>0, <1>b, <1>d, <1>e, <1>17, TypeOKWith DEF vars
<1> QED
  BY <1>1, <1>2, <1>3, <1>4, <1>5, <1>6, <1>7, <1>8, <1>9, <1>10, <1>11, <1>12, <1>13, <1>14, <1>15,
     <1>16, <1>17 DEF Next, ControllerStep, Start, Continue, Environment, Works

-----------------------------------------------------------------------------
(* What the steps have in common.                                          *)

Ended == pass' = NoPass /\ UNCHANGED <<app, setUp, made, secret>>

(* Every step works on the pass, starts one, ends it or leaves it alone.   *)
LEMMA Kinds ==
  ASSUME TypeOK, [Next]_vars
  PROVE  /\ ctl' = ctl
         /\ \/ Works \/ Ended \/ Undisturbed(pass')
            \/ \E q \in {"queued", "timer"} : StartSync(q) \/ StartCleanup(q)
<1>1. CASE Works
  BY <1>1, LocalMoves DEF Works, PassOnly, ResolveSecret, BuildClient, NoSession, Gate, Skip, Compare,
     Request, UpdatesNothing, RequestFails, AnswerLost
<1>2. CASE \E q \in {"queued", "timer"} : StartSync(q) \/ StartCleanup(q)
  BY <1>2 DEF StartSync, StartCleanup
<1>3. CASE UpdateStatus \/ StatusRefused \/ FinishDeletion \/ Crash
  BY <1>3 DEF UpdateStatus, StatusRefused, FinishDeletion, Crash, Return, Ended
<1>4. ASSUME NEW q \in {"queued", "timer"}, StartDeletion(q) PROVE ctl' = ctl /\ Undisturbed(pass')
  BY <1>4, UndisturbedSame DEF StartDeletion
<1>5. CASE FinalizerRefused \/ DeadlinePasses \/ UNCHANGED vars
  BY <1>5, UndisturbedSame DEF FinalizerRefused, DeadlinePasses, vars
<1>6. CASE Edit \/ DeleteObject
  BY <1>6, UndisturbedOld DEF Edit, DeleteObject
<1>7. CASE Rebuild
  BY <1>7, UndisturbedTouch DEF Rebuild
<1>8. ASSUME NEW s, Rotate(s) \/ RemoveSecret(s) \/ RestoreSecret(s)
      PROVE  ctl' = ctl /\ Undisturbed(pass')
  BY <1>8, UndisturbedSame DEF Rotate, RemoveSecret, RestoreSecret
<1>9. ASSUME NEW c \in Cells, HandChange(c) PROVE ctl' = ctl /\ Undisturbed(pass')
  BY <1>9, UndisturbedTouch DEF HandChange
<1> QED
  BY <1>1, <1>2, <1>3, <1>4, <1>5, <1>6, <1>7, <1>8, <1>9
     DEF Next, ControllerStep, Start, Continue, Environment, Works

(* What is not a request leaves the application to the hands.              *)
Handled ==
  \/ Rebuild
  \/ \E c \in Cells : HandChange(c)
LEMMA AppOfOthers ==
  ASSUME TypeOK, [Next]_vars, ~Works
  PROVE  Handled \/ UNCHANGED <<app, setUp>>
  BY DEF Next, ControllerStep, Start, Continue, Environment, Works, Handled, vars, StartSync,
         StartDeletion, StartCleanup, UpdateStatus, Return, StatusRefused, FinishDeletion, Crash,
         FinalizerRefused, DeadlinePasses, Edit, DeleteObject, Rotate, RemoveSecret, RestoreSecret

(* Nobody forgets what the operator made, or that a cell is excused.       *)
LEMMA Histories ==
  ASSUME TypeOK, Counted, Limits, InOrder, [Next]_vars
  PROVE  /\ made \subseteq made' /\ excused \subseteq excused'
         /\ events' \in {events, events + 1}
<1>1. CASE Works
  BY <1>1, WorkMoves DEF Effect, Local
<1>2. CASE ~Works
  BY <1>2 DEF Next, ControllerStep, Start, Continue, Environment, Works, vars, StartSync, Event,
         StartDeletion, StartCleanup, UpdateStatus, Return, StatusRefused, FinishDeletion, Crash, Rebuild,
         FinalizerRefused, DeadlinePasses, Edit, DeleteObject, Rotate, RemoveSecret, RestoreSecret,
         HandChange
<1> QED
  BY <1>1, <1>2

-----------------------------------------------------------------------------
(* Counted, InOrder and Limits, which types rest on.                       *)

LEMMA CountedStep ==
  ASSUME TypeOK, Counted, Limits, InOrder, [Next]_vars
  PROVE  Counted'
<1>0. /\ events \in Nat /\ cr.rev \in 1 .. events + 1 /\ cr \in CrType
      /\ \A s \in DOMAIN secret : secret[s] \in 1 .. events + 1
  <2>1. events \in 0 .. MaxEvents[ctl] /\ MaxEvents[ctl] \in Nat
    BY Bound DEF TypeOK
  <2>2. events \in Nat
    BY <2>1
  <2>3. cr \in CrType
    BY DEF TypeOK
  <2> QED
    BY <2>2, <2>3 DEF Counted
<1>1. events' \in {events, events + 1}
  BY Histories
<1>2. cr'.rev = cr.rev \/ (cr'.rev = cr.rev + 1 /\ events' = events + 1)
  <2>1. CASE Works
    BY <2>1, WorkMoves
  <2>2. CASE Edit
    <3>1. \/ cr' = [cr EXCEPT !.rev = @ + 1]
          \/ \E d, o, v, c, p : cr' \in {[cr EXCEPT !.observe = o], [cr EXCEPT !.valid = v],
                [cr EXCEPT !.declared = d], [cr EXCEPT !.cleanup = c], [cr EXCEPT !.prune = p]}
      BY <2>2 DEF Edit
    <3> QED
      BY <1>0, <2>2, <3>1 DEF Edit, Event, CrType
  <2>3. CASE ~Works /\ ~Edit
    BY <1>0, <2>3 DEF Next, ControllerStep, Start, Continue, Environment, Works, vars, StartSync,
         StartDeletion, StartCleanup, UpdateStatus, Return, StatusRefused, FinishDeletion, Crash, Rebuild,
         FinalizerRefused, DeadlinePasses, DeleteObject, Rotate, RemoveSecret, RestoreSecret,
         HandChange, CrType
  <2> QED
    BY <2>1, <2>2, <2>3
<1>3. \/ secret' = secret
      \/ \E s : secret' = [secret EXCEPT ![s] = @ + 1] /\ events' = events + 1
  <2>1. CASE Works
    BY <2>1, WorkMoves
  <2>3. CASE ~Works
    BY <2>3 DEF Next, ControllerStep, Start, Continue, Environment, Works, vars, StartSync, Event,
         StartDeletion, StartCleanup, UpdateStatus, Return, StatusRefused, FinishDeletion, Crash, Rebuild,
         FinalizerRefused, DeadlinePasses, Edit, DeleteObject, Rotate, RemoveSecret, RestoreSecret,
         HandChange
  <2> QED
    BY <2>1, <2>3
<1>4. cr'.rev \in 1 .. events' + 1
  BY <1>0, <1>1, <1>2
<1>5. \A s \in DOMAIN secret' : secret'[s] \in 1 .. events' + 1
  <2>1. CASE secret' = secret
    BY <1>0, <1>1, <2>1
  <2>2. ASSUME NEW s, secret' = [secret EXCEPT ![s] = @ + 1], events' = events + 1
        PROVE  \A t \in DOMAIN secret' : secret'[t] \in 1 .. events' + 1
    <3>1. ASSUME NEW t \in DOMAIN secret PROVE secret'[t] \in {secret[t], secret[t] + 1}
      BY <2>2
    <3>2. DOMAIN secret' = DOMAIN secret
      BY <2>2
    <3>3. ASSUME NEW t \in DOMAIN secret PROVE secret'[t] \in 1 .. events' + 1
      <4>1. secret[t] \in 1 .. events + 1
        BY <1>0
      <4> QED
        BY <1>0, <2>2, <3>1, <4>1
    <3> QED
      BY <3>2, <3>3
  <2> QED
    BY <1>3, <2>1, <2>2
<1>6. ASSUME pass'.on PROVE pass'.spec.rev \in 1 .. cr'.rev
  <2>1. CASE pass.on /\ pass'.spec = pass.spec
    BY <1>0, <1>2, <2>1 DEF Counted
  <2>2. ASSUME NEW q \in {"queued", "timer"}, StartSync(q) PROVE pass'.spec.rev \in 1 .. cr'.rev
    <3>1. pass'.spec.rev = cr.rev
      BY <2>2, SyncPass, SpecReadOfType
    <3> QED
      BY <1>0, <1>2, <3>1
  <2>3. ASSUME NEW q \in {"queued", "timer"}, StartCleanup(q) PROVE pass'.spec.rev \in 1 .. cr'.rev
    <3>1. pass'.spec.rev = cr.rev
      BY <2>3, CleanupPass
    <3> QED
      BY <1>0, <1>2, <3>1
  <2>4. CASE Works
    BY <2>1, <2>4, WorkMoves DEF Working, Moves, KeepsPass
  <2>5. CASE Undisturbed(pass')
    BY <1>6, <2>1, <2>5, Kinds, UndisturbedFacts
  <2>6. CASE Ended
    BY <1>6, <2>6, Kinds, NoPassNow DEF Ended
  <2> QED
    BY <2>2, <2>3, <2>4, <2>5, <2>6, Kinds
<1> QED
  BY <1>4, <1>5, <1>6 DEF Counted

LEMMA TypeStep ==
  ASSUME TypeOK, Counted, Limits, InOrder, [Next]_vars
  PROVE  TypeOK'
  BY WorkTypeOK, RestTypeOK

(* A plan is left from the front, a section or the setup as a whole.       *)
LEMMA PositionMoves ==
  ASSUME TypeOK, TypeOK', Working, Moves(pass'), pass'.plan # {}
  PROVE  /\ Position' \in pass'.plan /\ Position' \in Nat /\ Position <= Position'
         /\ \A j \in pass'.plan : Position' <= j
         /\ pass'.plan \subseteq pass.plan
         /\ (Position' = Position => Position \in pass'.plan)
<1>1. pass'.plan \subseteq pass.plan /\ Working'
  BY PlanShrinks DEF Moves, KeepsPass, Working
<1>2. Position' \in pass'.plan /\ Position' \in Nat /\ \A j \in pass'.plan : Position' <= j
  <2>1. pass'.plan \in SUBSET Nat
    BY DEF TypeOK, PassType
  <2>2. \E i \in pass'.plan : \A j \in pass'.plan : i <= j
    BY <2>1, First
  <2> QED
    BY <2>1, <2>2 DEF Position
<1> QED
  BY <1>1, <1>2, AtPosition

LEMMA InOrderStep ==
  ASSUME TypeOK, Counted, Limits, InOrder, TypeOK', [Next]_vars
  PROVE  InOrder'
<1>0. ctl' = ctl
  BY Kinds
<1>1. CASE pass'.plan = {}
  BY <1>1 DEF InOrder
<1>2. CASE Works /\ pass'.plan # {}
  <2>1. Working /\ Moves(pass') /\ pass'.spec = pass.spec /\ Program' = Program
    BY <1>0, <1>2, WorkMoves, SameProgram DEF Moves, KeepsPass
  <2>2. /\ Position' \in pass'.plan /\ Position' \in Nat /\ Position <= Position'
        /\ \A j \in pass'.plan : Position' <= j
        /\ pass'.plan \subseteq pass.plan
        /\ (Position' = Position => Position \in pass'.plan)
    BY <1>2, <2>1, PositionMoves
  <2>3. Position \in Nat /\ pass.plan \subseteq Nat
    BY <2>1, AtPosition DEF TypeOK, PassType
  <2>4. ASSUME NEW i \in pass'.plan, NEW j \in Position' .. i, Serves(j, i),
               Program[j].setup => Program[i].setup
        PROVE  j \in pass'.plan
    <3>1. i \in Nat /\ j \in Position .. i /\ i \in pass.plan
      BY <2>2, <2>3
    <3>2. j \in pass.plan
      BY <2>1, <2>4, <3>1 DEF InOrder, Working
    <3>3. j = Position => Position \in pass'.plan
      BY <2>2, <2>3, <3>1
    <3>4. CASE Advances(pass') \/ Stays(pass')
      BY <3>2, <3>3, <3>4 DEF Advances, Stays
    <3>5. CASE GivesUp(pass')
      <4>1. pass'.plan = pass.plan \ ({Position} \cup SectionSteps) /\ Step.sec # Always
        BY <3>5 DEF GivesUp
      <4>2. i \notin SectionSteps
        BY <4>1
      <4>3. Program[i].sec # Step.sec
        BY <3>1, <4>2 DEF SectionSteps
      <4>4. Program[j].sec # Step.sec
        BY <2>4, <4>1, <4>3 DEF Serves
      <4> QED
        BY <3>2, <3>3, <4>1, <4>4 DEF SectionSteps
    <3>6. CASE SkipsSetup(pass')
      <4>1. pass'.plan = pass.plan \ ({Position} \cup SetupSteps)
        BY <3>6 DEF SkipsSetup
      <4>2. ~Program[i].setup
        BY <3>1, <4>1 DEF SetupSteps
      <4> QED
        BY <2>4, <3>2, <3>3, <4>1, <4>2 DEF SetupSteps
    <3>7. CASE Ends(pass')
      BY <1>2, <3>7 DEF Ends
    <3> QED
      BY <2>1, <3>4, <3>5, <3>6, <3>7 DEF Moves
  <2>5. \A i \in pass'.plan : Program[i].sec \in pass.spec.declared \cup {Always}
    BY <2>2 DEF InOrder, Chosen
  <2>6. \A i, j : Serves(j, i)' = Serves(j, i)
    BY <2>1 DEF Serves
  <2> QED
    BY <2>1, <2>4, <2>5, <2>6 DEF InOrder, Chosen
<1>3. CASE Undisturbed(pass') /\ pass'.plan # {}
  <2>1. Program' = Program /\ pass'.plan = pass.plan /\ pass'.spec = pass.spec /\ pass'.on = pass.on
    BY <1>0, <1>3, UndisturbedFacts
  <2> QED
    BY <2>1 DEF InOrder, Chosen, Serves, Position
<1>4. ASSUME NEW q \in {"queued", "timer"}, StartSync(q) \/ StartCleanup(q), pass'.plan # {}
      PROVE  InOrder'
  <2>1. PICK s \in SUBSET Declarable :
          /\ pass'.spec.declared \subseteq s
          /\ pass'.plan = {i \in DOMAIN Program' : Program'[i].sec \in s \cup {Always}}
          /\ \A i \in DOMAIN Program' : Program'[i].sec \in s =>
               Program'[i].sec \in pass'.spec.declared \cup {Always}
    <3>0. cr.declared \subseteq Declarable /\ ctl \in DOMAIN Table
      BY PassAssumption DEF TypeOK, CrType
    <3>1. CASE StartSync(q)
      <4>1. pass'.plan = Relevant(Self.pass, cr) /\ pass'.spec.declared = cr.declared /\ ~pass'.cleanup
        BY <1>4, <3>1, SyncPass, SpecReadOfType
      <4>2. Program' = Self.pass
        BY <1>0, <4>1 DEF Program, Self
      <4> QED
        BY <3>0, <4>1, <4>2 DEF Relevant
    <3>2. CASE StartCleanup(q)
      <4>1. /\ pass'.plan = Relevant(Self.cleanup, cr) /\ pass'.cleanup
            /\ pass'.spec.declared = cr.declared \cap {"tls"}
        BY <1>4, <3>2, CleanupPass
      <4>2. Program' = Self.cleanup /\ Self.cleanup = Table[ctl].cleanup
        BY <1>0, <4>1 DEF Program, Self
      <4>3. \A i \in DOMAIN Self.cleanup : Self.cleanup[i].sec \in {Always, "tls"}
        BY <3>0, <4>2, TableAssumption
      <4>4. \A i \in DOMAIN Program' : Program'[i].sec \in cr.declared =>
               Program'[i].sec \in pass'.spec.declared \cup {Always}
        BY <4>1, <4>2, <4>3
      <4>5. pass'.plan = {i \in DOMAIN Program' : Program'[i].sec \in cr.declared \cup {Always}}
        BY <4>1, <4>2 DEF Relevant
      <4> QED
        BY <3>0, <4>1, <4>4, <4>5
    <3> QED
      BY <1>4, <3>1, <3>2
  <2>2. pass'.plan \in SUBSET Nat
    BY DEF TypeOK, PassType
  <2>3. Position' \in pass'.plan /\ \A j \in pass'.plan : Position' <= j
    <3>2. \E i \in pass'.plan : \A j \in pass'.plan : i <= j
      BY <1>4, <2>2, First
    <3> QED
      BY <2>2, <3>2 DEF Position
  <2>4. ASSUME NEW i \in pass'.plan, NEW j \in Position' .. i,
               Program'[j].sec \in {Program'[i].sec, Always}
        PROVE  j \in pass'.plan
    <3>1. Program' \in Seq(StepType)
      BY <1>0, ProgramType DEF Program, Self
    <3>2. DOMAIN Program' = 1 .. Len(Program') /\ Len(Program') \in Nat
      BY <3>1
    <3>3. Position' \in 1 .. Len(Program') /\ i \in 1 .. Len(Program')
      BY <2>1, <2>3, <3>2
    <3>4. j \in DOMAIN Program'
      BY <3>2, <3>3
    <3> QED
      BY <2>1, <2>4, <3>4
  <2>5. \A i \in pass'.plan : Program'[i].sec \in pass'.spec.declared \cup {Always}
    BY <2>1
  <2> QED
    BY <2>4, <2>5 DEF InOrder, Chosen, Serves
<1>5. CASE Ended
  BY <1>0, <1>1, <1>5, NoPassNow DEF Ended
<1> QED
  BY <1>1, <1>2, <1>3, <1>4, <1>5, Kinds

LEMMA SourceIs ==
  \A d \in DOMAIN Source : Source[d] \in {"list", "nodes", "read"}
  BY DEF Source

(* What is read for a step is read by a request that is answered, unless   *)
(* the step is given up together with it.                                  *)
LEMMA ReadNow ==
  ASSUME TypeOK, Counted, Limits, InOrder, Works,
         NEW i \in pass'.plan, Program[i].do \in DOMAIN Source, ReadAhead(i), ~ReadAhead(i)'
  PROVE  /\ Sends /\ Effect /\ Learns(pass') /\ Advances(pass') /\ app' = app
         /\ Step.do = Source[Program[i].do] /\ pass'.seen = Lists
         /\ Step.do = "list" \/ Step.sec = Program[i].sec
<1>1. /\ ctl' = ctl /\ Working /\ Moves(pass') /\ Program' = Program /\ pass'.plan \subseteq pass.plan
  BY WorkMoves, PlanShrinks, SameProgram DEF Moves, KeepsPass
<1>2. PICK j \in pass.plan :
        /\ j < i /\ Program[j].do = Source[Program[i].do]
        /\ Program[j].do = "list" \/ Program[j].sec = Program[i].sec
  BY DEF ReadAhead
<1>3. j \notin pass'.plan
  BY <1>1, <1>2 DEF ReadAhead
<1>4. Program[j].do \in {"list", "nodes", "read"} /\ j \in DOMAIN Program
  BY <1>2, SourceIs DEF TypeOK
<1>5. Program[j].do = "list" => Program[j].sec = Always
  BY <1>4, Shape DEF SharedSteps
<1>6. ~Program[j].setup
  BY <1>4, Shape DEF SetupFirst
<1>7. ~Ends(pass')
  BY DEF Ends
<1>8. ~GivesUp(pass')
  <2>1. ASSUME GivesUp(pass') PROVE FALSE
    <3>1. /\ pass'.plan = pass.plan \ ({Position} \cup SectionSteps) /\ Step.sec # Always
      BY <2>1 DEF GivesUp
    <3>2. Program[j].sec = Step.sec
      BY <1>2, <1>3, <3>1 DEF SectionSteps, Step
    <3>3. Program[i].sec = Step.sec
      BY <1>2, <1>5, <3>1, <3>2
    <3> QED
      BY <1>1, <3>1, <3>3 DEF SectionSteps
  <2> QED
    BY <2>1
<1>9. Sends /\ Effect /\ pass' \in Learnt /\ Learns(pass')
  <2>1. ASSUME Local(pass'), ResolveSecret \/ BuildClient \/ NoSession \/ Gate \/ Skip \/ Compare
        PROVE  FALSE
    <3>1. Advances(pass') /\ Step = Program[j]
      BY <1>2, <1>3, <1>7, <1>8, <2>1 DEF Local, Advances, Step
    <3>2. Step.do \in {"secret", "needs", "client", "session", "gate", "threshold"} \cup Writing
      BY <2>1, LocalMoves
    <3> QED
      BY <1>4, <3>1, <3>2 DEF Writing, Creating
  <2>2. ASSUME Advances(pass'), Step.do = "schema"
        PROVE  FALSE
    BY <1>2, <1>3, <1>4, <2>2 DEF Advances, Step
  <2> QED
    BY <1>7, <1>8, <2>1, <2>2, WorkMoves
<1>10. Advances(pass') /\ Step = Program[j]
  <2>1. CASE Step.do = "nudge"
    BY <1>2, <1>3, <1>9, <2>1, LearntMoves DEF Stays
  <2>2. CASE Step.do = "probe" /\ setUp
    BY <1>2, <1>3, <1>4, <1>6, <1>9, <2>2, LearntMoves DEF SkipsSetup, SetupSteps, Step
  <2>3. CASE Step.do = "probe" /\ ~setUp /\ Observing
    BY <1>7, <1>9, <2>3, LearntMoves
  <2>4. CASE Step.do = "schema"
    BY <1>8, <1>9, <2>4, LearntMoves
  <2>5. CASE Step.do \notin {"nudge", "schema"} /\ ~(Step.do = "probe" /\ (setUp \/ Observing))
    BY <1>2, <1>3, <1>9, <2>5, LearntMoves DEF Advances, Step
  <2> QED
    BY <2>1, <2>2, <2>3, <2>4, <2>5
<1>11. pass'.seen = Lists
  BY <1>4, <1>9, <1>10 DEF Learns
<1>12. app' = app
  BY <1>4, <1>9, <1>10 DEF Effect, Writing, Creating
<1> QED
  BY <1>2, <1>9, <1>10, <1>11, <1>12

(* What has been read stays read.                                          *)
LEMMA ReadBefore ==
  ASSUME TypeOK, Moves(pass'), ctl' = ctl, NEW i, ~ReadAhead(i)
  PROVE  ~ReadAhead(i)'
<1>1. Program' = Program /\ pass'.plan \subseteq pass.plan
  BY PlanShrinks, SameProgram DEF Moves, KeepsPass
<1> QED
  BY <1>1 DEF ReadAhead

(* All is to be read at the start.                                         *)
LEMMA ReadFromStart ==
  ASSUME TypeOK, NEW q \in {"queued", "timer"}, StartSync(q) \/ StartCleanup(q),
         NEW i \in pass'.plan, Program'[i].do \in DOMAIN Source
  PROVE  ReadAhead(i)'
<1>0. ctl' = ctl /\ ctl \in DOMAIN Table
  BY PassAssumption DEF StartSync, StartCleanup, TypeOK
<1>1. CASE StartSync(q)
  <2>1. pass'.plan = Relevant(Self.pass, cr) /\ ~pass'.cleanup
    BY <1>1, SyncPass
  <2>2. Program' = Table[ctl].pass /\ Self.pass = Table[ctl].pass
    BY <1>0, <2>1 DEF Program, Self
  <2>3. ReadFirst(Table[ctl].pass) /\ SharedSteps(Table[ctl].pass)
    BY <1>0, TableAssumption
  <2>4. i \in DOMAIN Table[ctl].pass /\ Table[ctl].pass[i].sec \in cr.declared \cup {Always}
    BY <2>1, <2>2 DEF Relevant
  <2>5. PICK j \in 1 .. i - 1 :
          /\ Table[ctl].pass[j].do = Source[Table[ctl].pass[i].do]
          /\ Table[ctl].pass[j].do = "list" \/ Table[ctl].pass[j].sec = Table[ctl].pass[i].sec
    BY <2>2, <2>3, <2>4 DEF ReadFirst
  <2>6. i \in 1 .. Len(Table[ctl].pass) /\ Len(Table[ctl].pass) \in Nat
        /\ DOMAIN Table[ctl].pass = 1 .. Len(Table[ctl].pass)
    BY <2>2, <2>4, ProgramType
  <2>7. j \in DOMAIN Table[ctl].pass /\ j < i
    BY <2>6
  <2>8. Table[ctl].pass[j].do = "list" => Table[ctl].pass[j].sec = Always
    BY <2>3, <2>7 DEF SharedSteps
  <2>9. j \in pass'.plan
    BY <2>1, <2>2, <2>4, <2>5, <2>7, <2>8 DEF Relevant
  <2> QED
    BY <2>2, <2>5, <2>7, <2>9 DEF ReadAhead
<1>2. CASE StartCleanup(q)
  <2>1. pass'.plan \subseteq DOMAIN Self.cleanup /\ pass'.cleanup
    BY <1>2, CleanupPass
  <2>2. Program' = Table[ctl].cleanup /\ Self.cleanup = Table[ctl].cleanup
    BY <1>0, <2>1 DEF Program, Self
  <2>3. Program'[i].do \in {"secret", "client", "list", "threshold", "close"}
    BY <1>0, <2>1, <2>2, TableAssumption
  <2> QED
    BY <2>3 DEF Source
<1> QED
  BY <1>1, <1>2

(* A step's own cell is in what is listed for its section.                 *)
LEMMA ListsOwn ==
  ASSUME TypeOK, NEW i \in DOMAIN Program, ~pass.cleanup, Program[i].cell \in Cells,
         Step.do = "list" \/ Step.sec = Program[i].sec
  PROVE  Lists[Program[i].cell] = app[Program[i].cell]
<1>1. Program = Table[ctl].pass /\ ctl \in DOMAIN Table
  BY PassAssumption DEF Program, Self, TypeOK
<1>2. Program[i] \in Steps
  BY <1>1 DEF Steps, StepsOf, Range
<1> QED
  BY <1>2 DEF Lists

(* The two worker limits are never more or fewer.                          *)
LEMMA WorkersAreNudged ==
  ASSUME TypeOK, NEW i \in DOMAIN Program, Program[i].do \in Writing, Program[i].cell = "workers"
  PROVE  Program[i].do = "nudge"
<1>1. CASE ~pass.cleanup
  BY <1>1, Shape DEF Divided
<1>2. CASE pass.cleanup
  <2>1. Program = Table[ctl].cleanup /\ ctl \in DOMAIN Table
    BY <1>2, PassAssumption DEF Program, Self, TypeOK
  <2>2. Program[i].do = "close"
    BY <2>1, TableAssumption DEF Writing, Creating
  <2>3. PICK j \in DOMAIN Table[ctl].pass :
          Table[ctl].pass[j].do = "close" /\ Table[ctl].pass[j].cell = "workers"
    BY <2>1, <2>2, TableAssumption
  <2>4. Divided(Table[ctl].pass)
    BY <2>1, TableAssumption
  <2> QED
    BY <2>3, <2>4 DEF Divided, Writing
<1> QED
  BY <1>1, <1>2

LEMMA WorkersAreNoItem == ASSUME TypeOK PROVE "workers" \notin ItemsOf[ctl]
<1>1. ctl \in DOMAIN Table /\ Divided(Table[ctl].pass)
  BY PassAssumption, TableAssumption DEF TypeOK
<1>2. ASSUME NEW i \in DOMAIN Table[ctl].pass, Table[ctl].pass[i].do \in Creating \cup {"clear"}
      PROVE  Table[ctl].pass[i].cell # "workers"
  BY <1>1, <1>2 DEF Divided, Writing, Creating
<1> QED
  BY <1>1, <1>2 DEF ItemsOf, CellsDoing, StepsOf, Range

LEMMA NudgeWritesTwo ==
  ASSUME TypeOK, Counted, Limits, Working, Step.do = "nudge"
  PROVE  Len(Written) = 2
<1> DEFINE s == app[Cell]
           t == Toward(Seen[pass.node][1], pass.spec.rev)
           l == IF s[pass.node][1] + t < 0 THEN 0 ELSE s[pass.node][1] + t
<1>1. Written = [s EXCEPT ![pass.node][1] = l]
  BY DEF Written
<1>2. pass.node \in 1 .. Len(s) /\ Len(s) = 2 /\ s[pass.node] \in Nat \X Version
  BY AtNudge
<1>3. l \in Nat
  BY <1>2 DEF Toward
<1> HIDE DEF l
<1>4. s \in Seq(Nat \X Version)
  BY WantOfType DEF Value, Writing
<1> QED
  BY <1>1, <1>2, <1>3, <1>4, Nudged

LEMMA SeenWorkers ==
  ASSUME TypeOK, Counted, Limits, InOrder, Works, "workers" \in Cells,
         Len(pass.seen["workers"]) = 2
  PROVE  Len(pass'.seen["workers"]) = 2
<1>1. Len(app["workers"]) = 2
  BY DEF Limits
<1>2. CASE pass'.seen = pass.seen
  BY <1>2
<1>3. CASE pass'.seen = Lists
  BY <1>1, <1>3 DEF Lists
<1>4. ASSUME Step.do = "nudge", Learns(pass'), Sends PROVE Len(pass'.seen["workers"]) = 2
  <2> DEFINE l == Seen[pass.node][1] + Toward(Seen[pass.node][1], pass.spec.rev)
  <2>1. /\ Cell = "workers" /\ Seen = pass.seen["workers"] /\ pass.node \in 1 .. Len(Seen)
        /\ Seen[pass.node][1] \in Nat /\ pass.spec.rev \in Nat \ {0} /\ Seen \in Seq(Value)
    BY <1>4, AtNudge, WantOfType DEF Sends, Seen, Writing
  <2>2. pass'.seen = [pass.seen EXCEPT !["workers"] = [Seen EXCEPT ![pass.node][1] = l]]
    BY <1>4, <2>1 DEF Learns
  <2>3. l \in Nat
    BY <2>1, TowardOfType
  <2> HIDE DEF l
  <2>4. Len([Seen EXCEPT ![pass.node][1] = l]) = Len(Seen)
    BY <2>1, <2>3, Nudged DEF Value
  <2>5. pass.seen \in [Cells -> Seq(Value)]
    BY DEF TypeOK, PassType
  <2> QED
    BY <2>1, <2>2, <2>4, <2>5
<1> QED
  BY <1>2, <1>3, <1>4, WorkMoves DEF Learns, KeepsKnowledge, Local

LEMMA LimitsStep ==
  ASSUME TypeOK, Counted, Limits, InOrder, TypeOK', [Next]_vars
  PROVE  Limits'
<1>0. ctl' = ctl /\ Cells' = Cells
  BY Kinds, Fixed
<1> SUFFICES ASSUME "workers" \in Cells
             PROVE  /\ Len(app'["workers"]) = 2
                    /\ \A i \in pass'.plan : Program'[i].do = "nudge" =>
                         ReadAhead(i)' \/ Len(pass'.seen["workers"]) = 2
  BY <1>0 DEF Limits
<1>1. Len(app["workers"]) = 2 /\ app["workers"] \in Seq(Value) /\ app \in [Cells -> Seq(Value)]
  BY DEF Limits, TypeOK
<1>2. Len(app'["workers"]) = 2
  <2>1. CASE app' = app
    BY <1>1, <2>1
  <2>2. CASE Works /\ app' # app
    <3>1. Sends /\ Effect /\ Working
      BY <2>2, WorkMoves DEF Local
    <3>2. app' = [app EXCEPT ![Cell] = Written] /\ Step.do \in Writing
      BY <2>2, <3>1 DEF Effect
    <3>3. CASE Cell = "workers"
      <4>1. Step.do = "nudge"
        BY <3>1, <3>2, <3>3, AtPosition, WorkersAreNudged DEF Step, Cell
      <4> QED
        BY <1>1, <3>1, <3>2, <3>3, <4>1, NudgeWritesTwo
    <3>4. CASE Cell # "workers"
      BY <1>1, <3>2, <3>4
    <3> QED
      BY <3>3, <3>4
  <2>3. CASE Rebuild
    <3>1. app' = NewApp
      BY <2>3 DEF Rebuild
    <3> QED
      BY <3>1, WorkersAreNoItem DEF NewApp
  <2>4. ASSUME NEW c \in Cells, HandChange(c) PROVE Len(app'["workers"]) = 2
    <3>1. CASE c # "workers"
      BY <1>1, <2>4, <3>1 DEF HandChange
    <3>2. CASE c = "workers"
      <4>1. PICK l \in 1 .. 2 : app' = [app EXCEPT !["workers"][1] = <<l, 0>>]
        BY <2>4, <3>2, WorkersAreNoItem DEF HandChange
      <4>2. app' = [app EXCEPT !["workers"] = [app["workers"] EXCEPT ![1] = <<l, 0>>]]
        BY <4>1
      <4>0. 0 \in Version
        BY Bound DEF TypeOK
      <4>3. <<l, 0>> \in Value
        BY <4>0 DEF Value
      <4>4. Len([app["workers"] EXCEPT ![1] = <<l, 0>>]) = 2
        BY <1>1, <4>3, Replaced
      <4> QED
        BY <1>1, <4>2, <4>4
    <3> QED
      BY <3>1, <3>2
  <2> QED
    BY <2>1, <2>2, <2>3, <2>4, AppOfOthers DEF Handled
<1>3. ASSUME NEW i \in pass'.plan, Program'[i].do = "nudge", ~ReadAhead(i)'
      PROVE  Len(pass'.seen["workers"]) = 2
  <2>0. "nudge" \in DOMAIN Source
    BY DEF Source
  <2>1. CASE Works
    <3>1. /\ Moves(pass') /\ pass'.plan \subseteq pass.plan /\ Program' = Program
          /\ Program[i].do = "nudge" /\ i \in DOMAIN Program
      BY <1>0, <1>3, <2>1, WorkMoves, PlanShrinks, SameProgram DEF Moves, KeepsPass, TypeOK
    <3>2. ~pass.cleanup
      BY <3>1, Shape
    <3>3. Program[i].cell = "workers"
      BY <3>1, <3>2, Shape DEF Divided, Writing
    <3>4. CASE ReadAhead(i)
      <4>1. pass'.seen = Lists /\ (Step.do = "list" \/ Step.sec = Program[i].sec)
        BY <1>3, <2>0, <2>1, <3>1, <3>4, ReadNow
      <4> QED
        BY <1>1, <3>1, <3>2, <3>3, <4>1, ListsOwn
    <3>5. CASE ~ReadAhead(i)
      BY <2>1, <3>1, <3>5, SeenWorkers DEF Limits
    <3> QED
      BY <3>4, <3>5
  <2>2. CASE Ended
    BY <1>0, <1>3, <2>2, NoPassNow DEF Ended
  <2>3. CASE Undisturbed(pass')
    <3>1. Program' = Program /\ pass'.plan = pass.plan /\ pass'.seen = pass.seen
      BY <1>0, <2>3, UndisturbedFacts
    <3> QED
      BY <1>3, <3>1 DEF Limits, ReadAhead
  <2>4. ASSUME NEW q \in {"queued", "timer"}, StartSync(q) \/ StartCleanup(q) PROVE FALSE
    BY <1>3, <2>0, <2>4, ReadFromStart
  <2> QED
    BY <2>1, <2>2, <2>3, <2>4, Kinds
<1> QED
  BY <1>2, <1>3

-----------------------------------------------------------------------------
Typed == TypeOK /\ Counted /\ InOrder /\ Limits

LEMMA TypedInit == Init => Typed
<1> SUFFICES ASSUME Init PROVE Typed
  OBVIOUS
<1>1. TypeOK
  BY InitTypeOK
<1>2. pass = NoPass /\ app = NewApp /\ cr.rev = 1 /\ events = 0 /\ secret = [s \in SecretNames |-> 1]
  BY DEF Init
<1>3. pass.plan = {} /\ ~pass.on
  BY <1>1, <1>2, NoPassOfType DEF TypeOK
<1>4. Counted
  BY <1>2, <1>3 DEF Counted
<1>5. InOrder
  BY <1>3 DEF InOrder
<1>6. Limits
  BY <1>1, <1>2, <1>3, WorkersAreNoItem DEF Limits, NewApp
<1> QED
  BY <1>1, <1>4, <1>5, <1>6 DEF Typed

LEMMA TypedStep == ASSUME Typed, [Next]_vars PROVE Typed'
  BY TypeStep, CountedStep, InOrderStep, LimitsStep DEF Typed

(* Whatever the integration, every variable keeps to its kind: a cell has  *)
(* two copies at most, revisions are counted by edits, a plan holds steps  *)
(* of the program.                                                         *)
THEOREM TypeCorrect == Spec => []TypeOK
<1>1. Spec => []Typed
  BY TypedInit, TypedStep, PTL DEF Spec
<1> QED
  BY <1>1, PTL DEF Typed

-----------------------------------------------------------------------------
(* A resource that stops is reported.                                      *)

(* A step that serves all sections leaves by itself.                       *)
LEMMA SharedLeaves ==
  ASSUME Typed, Works, NEW i \in pass.plan, i \notin pass'.plan, ~Ends(pass'),
         Program[i].sec = Always, ~Program[i].setup
  PROVE  i = Position /\ Step = Program[i] /\ (Advances(pass') \/ SkipsSetup(pass'))
<1>1. Moves(pass')
  BY WorkMoves DEF Typed
<1>2. CASE Advances(pass') \/ SkipsSetup(pass')
  BY <1>2 DEF Advances, SkipsSetup, SetupSteps, Step
<1>3. CASE GivesUp(pass')
  BY <1>3 DEF GivesUp, SectionSteps, Step
<1>4. CASE Stays(pass')
  BY <1>4 DEF Stays
<1> QED
  BY <1>1, <1>2, <1>3, <1>4 DEF Moves

(* What a pass works on, and whether it is still so.                       *)
LEMMA LatestStep ==
  ASSUME Typed, WorksOnLatest, [Next]_vars
  PROVE  WorksOnLatest'
<1> SUFFICES ASSUME pass'.on
             PROVE  /\ due'.queued \/ pass'.current
                    /\ pass'.current =>
                         \A f \in DOMAIN pass'.spec \ {"declared", "prune"} : pass'.spec[f] = cr'[f]
  BY DEF WorksOnLatest
<1>0. /\ TypeOK /\ ctl' = ctl /\ cr \in CrType /\ due \in [queued : BOOLEAN, timer : BOOLEAN]
      /\ pass \in PassType
  BY Kinds DEF Typed, TypeOK
<1>a. \A s \in SpecType : DOMAIN s \ {"declared", "prune"} = {"rev", "observe", "cleanup", "valid"}
  BY DEF SpecType
<1>1. CASE Works
  BY <1>1, WorkMoves DEF Typed, Moves, KeepsPass, WorksOnLatest, Working
<1>2. ASSUME NEW q \in {"queued", "timer"}, StartSync(q)
      PROVE  /\ pass'.current
             /\ \A f \in DOMAIN pass'.spec \ {"declared", "prune"} : pass'.spec[f] = cr'[f]
  <2>1. pass'.current /\ pass'.spec = SpecRead
    BY <1>0, <1>2, SyncPass
  <2>2. cr' = [cr EXCEPT !.finalizer = TRUE]
    BY <1>2 DEF StartSync
  <2>3. \A f \in {"rev", "observe", "cleanup", "valid"} : pass'.spec[f] = cr'[f]
    BY <1>0, <2>1, <2>2, SpecReadOfType DEF CrType
  <2> QED
    BY <1>0, <1>a, <2>1, <2>3, SpecReadOfType
<1>3. ASSUME NEW q \in {"queued", "timer"}, StartCleanup(q)
      PROVE  /\ pass'.current
             /\ \A f \in DOMAIN pass'.spec \ {"declared", "prune"} : pass'.spec[f] = cr'[f]
  <2>1. /\ pass'.current /\ pass' \in PassType
        /\ \A f \in {"rev", "observe", "cleanup", "valid"} : pass'.spec[f] = cr[f]
    BY <1>0, <1>3, CleanupPass
  <2>2. cr' = cr
    BY <1>3 DEF StartCleanup
  <2> QED
    BY <1>a, <2>1, <2>2 DEF PassType
<1>4. CASE Ended
  BY <1>0, <1>4, NoPassNow DEF Ended
<1>5. CASE Undisturbed(pass') /\ ~Works
  <2>1. pass.on /\ pass'.spec = pass.spec /\ (pass'.current => pass.current)
    BY <1>0, <1>5, UndisturbedFacts
  <2>2. \/ ~pass'.current /\ due'.queued
        \/ /\ due.queued => due'.queued
           /\ pass'.current = pass.current
           /\ cr' = cr \/ cr' = [cr EXCEPT !.expired = TRUE]
    <3>1. CASE Edit \/ DeleteObject
      BY <1>0, <3>1 DEF Edit, DeleteObject, PassType
    <3>2. ASSUME NEW s, Rotate(s) \/ RemoveSecret(s) \/ RestoreSecret(s)
          PROVE  (due.queued => due'.queued) /\ pass' = pass /\ cr' = cr
      BY <1>0, <3>2 DEF Rotate, RemoveSecret, RestoreSecret, Notice
    <3>3. CASE Rebuild
      BY <1>0, <3>3 DEF Rebuild, Touch, PassType
    <3>4. ASSUME NEW c \in Cells, HandChange(c)
          PROVE  due' = due /\ pass'.current = pass.current /\ cr' = cr
      BY <1>0, <3>4 DEF HandChange, Touch, PassType
    <3>5. CASE DeadlinePasses
      BY <3>5 DEF DeadlinePasses
    <3>6. CASE UNCHANGED vars
      BY <3>6 DEF vars
    <3>7. CASE StatusRefused \/ UpdateStatus \/ FinishDeletion \/ Crash
      BY <3>7, <1>0, NoPassNow DEF StatusRefused, UpdateStatus, FinishDeletion, Crash, Return
    <3>8. \A q \in {"queued", "timer"} : ~(StartSync(q) \/ StartDeletion(q) \/ StartCleanup(q))
      BY <2>1 DEF StartSync, StartDeletion, StartCleanup, Idle
    <3>9. ~FinalizerRefused
      BY <2>1 DEF FinalizerRefused, Idle
    <3> QED
      BY <1>5, <3>1, <3>2, <3>3, <3>4, <3>5, <3>6, <3>7, <3>8, <3>9
         DEF Next, ControllerStep, Start, Continue, Environment, Works
  <2>3. \A f \in {"rev", "observe", "cleanup", "valid"} :
          cr' = cr \/ cr' = [cr EXCEPT !.expired = TRUE] => cr'[f] = cr[f]
    BY <1>0 DEF CrType
  <2>4. /\ due.queued \/ pass.current
        /\ pass.current => \A f \in {"rev", "observe", "cleanup", "valid"} : pass.spec[f] = cr[f]
    BY <1>0, <1>a, <2>1 DEF WorksOnLatest, PassType
  <2>5. \A f \in DOMAIN pass'.spec \ {"declared", "prune"} : f \in {"rev", "observe", "cleanup", "valid"}
    BY <1>0, <1>a, <2>1 DEF PassType
  <2> QED
    BY <2>1, <2>2, <2>3, <2>4, <2>5
<1> QED
  BY <1>1, <1>2, <1>3, <1>4, <1>5, <1>0, Kinds

(* The client is built before anything else is done with the application.  *)
LEMMA JudgedStep ==
  ASSUME Typed, WorksOnLatest, Judged, [Next]_vars
  PROVE  Judged'
<1>0. /\ TypeOK /\ ctl' = ctl /\ cr \in CrType /\ pass \in PassType
      /\ status \in [latest : BOOLEAN, synced : BOOLEAN, owned : SUBSET Cells,
                     reason : {"", "InvalidConfig", "Observed", "Synced"} \cup Reasons]
  BY Kinds DEF Typed, TypeOK
<1>1. status'.latest /\ status'.synced => cr'.valid
  <2>1. CASE Works
    BY <2>1, WorkMoves DEF Typed, Judged
  <2>2. CASE UpdateStatus
    <3>1. cr' = cr
      BY <2>2 DEF UpdateStatus, Return
    <3>2. CASE ~pass.current
      BY <2>2, <3>1, <3>2 DEF UpdateStatus, Judged
    <3>3. CASE pass.current /\ status'.synced
      <4>1. pass.on /\ pass.plan = {} /\ ~pass.cleanup /\ pass.out = ""
        BY <2>2, <3>3 DEF UpdateStatus, Done, Synced
      <4>2. pass.spec.valid
        BY <4>1 DEF Judged, Left
      <4>3. pass.spec.valid = cr.valid
        BY <1>0, <3>3, <4>1 DEF WorksOnLatest, PassType, SpecType
      <4> QED
        BY <3>1, <4>2, <4>3
    <3> QED
      BY <3>1, <3>2, <3>3
  <2>3. CASE Edit
    BY <1>0, <2>3 DEF Edit
  <2>4. CASE ~Works /\ ~UpdateStatus /\ ~Edit
    <3>1. status' = status
      BY <2>4 DEF Next, ControllerStep, Start, Continue, Environment, Works, vars, StartSync,
         StartDeletion, StartCleanup, Return, StatusRefused, FinishDeletion, Crash, Rebuild,
         FinalizerRefused, DeadlinePasses, DeleteObject, Rotate, RemoveSecret, RestoreSecret,
         HandChange
    <3>2. cr'.valid = cr.valid
      BY <1>0, <2>4 DEF CrType, Next, ControllerStep, Start, Continue, Environment, Works, vars, StartSync,
         StartDeletion, StartCleanup, Return, StatusRefused, FinishDeletion, Crash, Rebuild,
         FinalizerRefused, DeadlinePasses, DeleteObject, Rotate, RemoveSecret, RestoreSecret,
         HandChange
    <3> QED
      BY <3>1, <3>2 DEF Judged
  <2> QED
    BY <2>1, <2>2, <2>3, <2>4
<1>2. ASSUME pass'.on, pass'.out = "BadURL" PROVE ~pass'.spec.valid /\ pass'.plan = {}
  <2>1. CASE Works
    <3>1. Moves(pass') /\ Working /\ pass'.spec = pass.spec
      BY <2>1, WorkMoves DEF Typed, Moves, KeepsPass
    <3>2. pass.out # "BadURL"
      BY <3>1 DEF Judged, Working
    <3>3. Ends(pass')
      BY <1>2, <3>1, <3>2 DEF Moves, Advances, GivesUp, SkipsSetup, Stays
    <3> QED
      BY <1>2, <3>1, <3>3 DEF Ends, Endings, Reasons
  <2>2. CASE Undisturbed(pass')
    BY <1>0, <1>2, <2>2, UndisturbedFacts DEF Judged
  <2>3. CASE Ended
    BY <1>0, <1>2, <2>3, NoPassNow DEF Ended
  <2>4. ASSUME NEW q \in {"queued", "timer"}, StartSync(q) \/ StartCleanup(q) PROVE FALSE
    BY <1>0, <1>2, <2>4, SyncPass, CleanupPass
  <2> QED
    BY <1>0, <2>1, <2>2, <2>3, <2>4, Kinds
<1>3. ASSUME pass'.on, ~pass'.cleanup, pass'.out = "", ~Left("client")' PROVE pass'.spec.valid
  <2>1. CASE Works
    <3>1. /\ Moves(pass') /\ Working /\ pass'.spec = pass.spec /\ pass'.cleanup = pass.cleanup
          /\ Program' = Program
      BY <1>0, <2>1, WorkMoves, SameProgram DEF Typed, Moves, KeepsPass
    <3>2. pass.out = "" /\ ~Ends(pass')
      BY <1>3, <3>1 DEF Moves, Ends, Endings, Reasons, Advances, GivesUp, SkipsSetup, Stays
    <3>3. CASE ~Left("client")
      BY <1>3, <3>1, <3>2, <3>3 DEF Judged, Working
    <3>4. ASSUME NEW i \in pass.plan, Program[i].do = "client" PROVE pass.spec.valid
      <4>1. i \notin pass'.plan
        BY <1>3, <3>1, <3>4 DEF Left
      <4>2. Program[i].sec = Always /\ ~Program[i].setup
        BY <1>0, <1>3, <3>1, <3>4, Shape DEF SharedSteps, SetupFirst, TypeOK
      <4>3. Step.do = "client"
        BY <2>1, <3>2, <3>4, <4>1, <4>2, SharedLeaves
      <4>4. BuildClient
        BY <2>1, <4>3 DEF Works, ResolveSecret, NoSession, Gate, Skip, Compare, Request, UpdatesNothing,
           RequestFails, AnswerLost, Sends, Writing, Creating
      <4>5. CASE ~pass.spec.valid
        <5>1. pass' = Stop("BadURL") /\ "BadURL" \in Endings
          BY <4>4, <4>5 DEF BuildClient, Endings
        <5> QED
          BY <1>0, <3>2, <5>1, StopMoves
      <4> QED
        BY <4>5
    <3> QED
      BY <3>1, <3>3, <3>4 DEF Left
  <2>2. CASE Undisturbed(pass')
    <3>1. /\ pass.on /\ ~pass.cleanup /\ pass.out = "" /\ pass'.spec = pass.spec
          /\ Program' = Program /\ pass'.plan = pass.plan
      BY <1>0, <1>3, <2>2, UndisturbedFacts
    <3> QED
      BY <1>3, <3>1 DEF Judged, Left
  <2>3. CASE Ended
    BY <1>0, <1>3, <2>3, NoPassNow DEF Ended
  <2>4. ASSUME NEW q \in {"queued", "timer"}, StartSync(q) PROVE FALSE
    <3>1. pass'.plan = Relevant(Self.pass, cr)
      BY <1>0, <1>3, <2>4, SyncPass
    <3>2. Program' = Self.pass /\ Self.pass = Table[ctl].pass /\ ctl \in DOMAIN Table
      BY <1>0, <1>3, PassAssumption DEF Program, Self, TypeOK
    <3>3. PICK i \in DOMAIN Table[ctl].pass : Table[ctl].pass[i].do = "client"
      BY <3>2, TableAssumption
    <3>4. Table[ctl].pass[i].sec = Always
      BY <3>2, <3>3, TableAssumption DEF SharedSteps
    <3> QED
      BY <1>3, <3>1, <3>2, <3>3, <3>4 DEF Relevant, Left
  <2>5. ASSUME NEW q \in {"queued", "timer"}, StartCleanup(q) PROVE FALSE
    BY <1>0, <1>3, <2>5, CleanupPass
  <2> QED
    BY <1>0, <2>1, <2>2, <2>3, <2>4, <2>5, Kinds
<1> QED
  BY <1>1, <1>2, <1>3 DEF Judged

(* A pass that is not tried again has met a URL that is wrong now.         *)
LEMMA StoppedStep ==
  ASSUME Typed, WorksOnLatest, Judged, Judged', StoppedIsReported, [Next]_vars
  PROVE  StoppedIsReported'
<1> SUFFICES ASSUME Idle', ~due'.queued, ~due'.timer
             PROVE  ~cr'.valid /\ gauge' = "0" /\ ~(status'.latest /\ status'.synced)
  BY DEF StoppedIsReported
<1>0. /\ TypeOK /\ ctl' = ctl /\ cr \in CrType /\ due \in [queued : BOOLEAN, timer : BOOLEAN]
      /\ pass \in PassType /\ ~pass'.on /\ ~cr'.gone
  BY Kinds DEF Typed, TypeOK, Idle
<1>1. ~Works
  BY <1>0, WorkMoves DEF Typed, Moves, KeepsPass, Working
<1>2. CASE UpdateStatus \/ StatusRefused
  <2>0. Return /\ pass.on
    BY <1>2 DEF UpdateStatus, StatusRefused, Done
  <2>1. pass.out = "BadURL" /\ due' = due /\ gauge' = (IF Synced THEN "1" ELSE "0") /\ cr' = cr
    BY <1>0, <2>0 DEF Return, Requeue
  <2>2. ~pass.spec.valid /\ pass.current
    BY <1>0, <2>0, <2>1 DEF Judged, WorksOnLatest
  <2>3. pass.spec.valid = cr.valid
    BY <1>0, <2>0, <2>2 DEF WorksOnLatest, PassType, SpecType
  <2>4. gauge' = "0"
    BY <2>1 DEF Synced
  <2> QED
    BY <2>1, <2>2, <2>3, <2>4 DEF Judged
<1>3. CASE Crash \/ Edit \/ DeleteObject
  BY <1>0, <1>3 DEF Crash, Edit, DeleteObject
<1>4. CASE FinishDeletion \/ FinalizerRefused \/ \E q \in {"queued", "timer"} : StartDeletion(q)
  <2>1. CASE FinishDeletion
    BY <1>0, <2>1 DEF FinishDeletion, Requeue, CrType
  <2>2. CASE FinalizerRefused
    BY <1>0, <2>2 DEF FinalizerRefused
  <2>3. ASSUME NEW q \in {"queued", "timer"}, StartDeletion(q) PROVE FALSE
    BY <1>0, <2>3 DEF StartDeletion, CrType
  <2> QED
    BY <1>4, <2>1, <2>2, <2>3
<1>5. ASSUME NEW q \in {"queued", "timer"}, StartSync(q) \/ StartCleanup(q) PROVE FALSE
  BY <1>0, <1>5, SyncPass, CleanupPass
<1>6. CASE /\ ~UpdateStatus /\ ~StatusRefused /\ ~Crash /\ ~Edit /\ ~DeleteObject /\ ~FinishDeletion /\ ~FinalizerRefused
           /\ \A q \in {"queued", "timer"} : ~(StartSync(q) \/ StartDeletion(q) \/ StartCleanup(q))
  <2>1. /\ pass'.on = pass.on /\ gauge' = gauge /\ status' = status
        /\ cr' = cr \/ cr' = [cr EXCEPT !.expired = TRUE]
        /\ due' = due \/ due' = [due EXCEPT !.queued = TRUE]
    <3>1. CASE Rebuild
      BY <1>0, <3>1 DEF Rebuild, Touch, PassType
    <3>2. ASSUME NEW c \in Cells, HandChange(c)
          PROVE  pass'.on = pass.on /\ gauge' = gauge /\ status' = status /\ cr' = cr /\ due' = due
      BY <1>0, <3>2 DEF HandChange, Touch, PassType
    <3>3. ASSUME NEW s, Rotate(s) \/ RemoveSecret(s) \/ RestoreSecret(s)
          PROVE  /\ pass'.on = pass.on /\ gauge' = gauge /\ status' = status /\ cr' = cr
                 /\ due' = due \/ due' = [due EXCEPT !.queued = TRUE]
      BY <3>3 DEF Rotate, RemoveSecret, RestoreSecret, Notice
    <3>4. CASE DeadlinePasses \/ UNCHANGED vars
      BY <3>4 DEF DeadlinePasses, vars
    <3> QED
      BY <1>1, <1>6, <3>1, <3>2, <3>3, <3>4 DEF Next, ControllerStep, Start, Continue, Environment, Works
  <2>2. cr'.valid = cr.valid /\ cr'.gone = cr.gone
    BY <1>0, <2>1 DEF CrType
  <2>3. due.queued => due'.queued
    BY <1>0, <2>1
  <2>4. due.timer => due'.timer
    BY <1>0, <2>1
  <2> QED
    BY <1>0, <2>1, <2>2, <2>3, <2>4 DEF StoppedIsReported, Idle
<1> QED
  BY <1>2, <1>3, <1>4, <1>5, <1>6

Reported == Typed /\ WorksOnLatest /\ Judged /\ StoppedIsReported

(* A resource nothing will reconcile again has a URL that is rejected, a   *)
(* gauge of 0 and no status that says it is synced: through failures,      *)
(* crashes, edits during the pass and status writes that are refused.      *)
THEOREM StoppedReported == Spec => []StoppedIsReported
<1>1. Init => Reported
  <2> SUFFICES ASSUME Init PROVE Reported
    OBVIOUS
  <2>1. /\ pass = NoPass /\ due = [queued |-> TRUE, timer |-> FALSE] /\ ctl \in Controllers
        /\ status = [latest |-> FALSE, synced |-> FALSE, reason |-> "", owned |-> {}]
    BY DEF Init
  <2>2. ~pass.on
    BY <2>1, NoPassOfType
  <2>3. due.queued /\ ~status.latest
    BY <2>1
  <2> QED
    BY <2>2, <2>3, TypedInit DEF Reported, WorksOnLatest, Judged, StoppedIsReported
<1>2. Reported /\ [Next]_vars => Reported'
  BY TypedStep, LatestStep, JudgedStep, StoppedStep DEF Reported
<1>3. Reported => StoppedIsReported
  BY DEF Reported
<1> QED
  BY <1>1, <1>2, <1>3, PTL DEF Spec

-----------------------------------------------------------------------------
(* Specs that are rejected touch nothing.                                  *)

LEMMA SetupIsSync ==
  ASSUME TypeOK, NEW i \in DOMAIN Program, Program[i].setup
  PROVE  ~pass.cleanup /\ Program = Table[ctl].pass /\ Program[i] \in Steps
<1>1. ~pass.cleanup
  BY Shape
<1>2. ctl \in DOMAIN Table
  BY PassAssumption DEF TypeOK
<1> QED
  BY <1>1, <1>2 DEF Program, Self, Steps, StepsOf, Range

(* The setup begins when the application has been looked at.               *)
LEMMA ProbeFirst ==
  ASSUME TypeOK, Working, Step.setup
  PROVE  ~Left("probe")
<1>1. Position \in DOMAIN Program /\ Program[Position].setup /\ Position \in Nat
      /\ (\A j \in pass.plan : Position <= j) /\ pass.plan \subseteq Nat
  BY AtPosition DEF Step, TypeOK, PassType
<1>2. ASSUME NEW j \in pass.plan, Program[j].do = "probe" PROVE FALSE
  <2>1. j < Position /\ Position <= j /\ j \in Nat
    BY <1>1, <1>2, SetupIsSync, Shape DEF SetupFirst, TypeOK
  <2> QED
    BY <1>1, <2>1
<1> QED
  BY <1>2 DEF Left

(* The last step of the setup is the last.                                 *)
LEMMA FinishLast ==
  ASSUME TypeOK, Working, Step.do = "finish"
  PROVE  Step.setup /\ \A i \in pass.plan : Program[i].setup => i = Position
<1>1. Position \in DOMAIN Program /\ Step = Program[Position] /\ Position \in Nat
      /\ (\A j \in pass.plan : Position <= j) /\ pass.plan \subseteq Nat
  BY AtPosition DEF Step, TypeOK, PassType
<1>2. ~pass.cleanup
  BY <1>1, Shape
<1>3. Step.setup
  BY <1>1, <1>2, Shape DEF SetupFirst
<1>4. ASSUME NEW i \in pass.plan, Program[i].setup PROVE i = Position
  <2>1. i <= Position /\ Position <= i /\ i \in Nat
    BY <1>1, <1>2, <1>4, Shape DEF SetupFirst, TypeOK
  <2> QED
    BY <1>1, <2>1
<1> QED
  BY <1>3, <1>4

(* When the look at the application leaves the plan, what it found holds.  *)
LEMMA Probed ==
  ASSUME Typed, Works, Left("probe"), ~Left("probe")', ~Ends(pass')
  PROVE  /\ setUp' = setUp /\ app' = app /\ Position \in DOMAIN Program /\ Step.do = "probe"
         /\ pass'.plan = pass.plan \ ({Position} \cup (IF setUp THEN SetupSteps ELSE {}))
         /\ ~setUp => ~Observing
<1>0. TypeOK /\ ctl' = ctl /\ Program' = Program /\ Moves(pass') /\ Working
  BY WorkMoves, SameProgram DEF Typed, Moves, KeepsPass
<1>1. PICK i \in pass.plan : Program[i].do = "probe"
  BY DEF Left
<1>2. i \notin pass'.plan /\ i \in DOMAIN Program
  BY <1>0, <1>1 DEF Left, TypeOK
<1>3. Program[i].sec = Always /\ ~Program[i].setup
  BY <1>0, <1>1, <1>2, Shape DEF SharedSteps, SetupFirst
<1>4. i = Position /\ Step = Program[i] /\ (Advances(pass') \/ SkipsSetup(pass'))
  BY <1>1, <1>2, <1>3, SharedLeaves
<1>5. CASE Sends /\ Effect /\ pass' \in Learnt
  <2>1. CASE setUp
    <3>1. SkipsSetup(pass')
      BY <1>0, <1>1, <1>4, <1>5, <2>1, LearntMoves DEF Typed
    <3> QED
      BY <1>1, <1>2, <1>4, <1>5, <2>1, <3>1 DEF SkipsSetup, Effect, Writing, Creating
  <2>2. CASE ~setUp
    <3>1. ~Observing /\ Advances(pass')
      BY <1>1, <1>4, <1>5, <2>2, LearntMoves DEF Typed
    <3> QED
      BY <1>0, <1>1, <1>2, <1>4, <1>5, <2>2, <3>1 DEF Advances, Effect, Writing, Creating, TypeOK
  <2> QED
    BY <2>1, <2>2
<1>6. CASE /\ KeepsKnowledge(pass')
           /\ Ends(pass') \/ GivesUp(pass') \/ (Advances(pass') /\ Step.do = "schema")
  BY <1>1, <1>3, <1>4, <1>6 DEF GivesUp
<1>7. CASE ResolveSecret \/ BuildClient \/ NoSession \/ Gate \/ Skip \/ Compare
  <2>1. Step.do \in {"secret", "needs", "client", "session", "gate", "threshold"} \cup Writing
    BY <1>7, LocalMoves DEF Typed
  <2> QED
    BY <1>1, <1>4, <2>1 DEF Writing, Creating
<1> QED
  BY <1>5, <1>6, <1>7, WorkMoves DEF Typed

LEMMA AcceptedSame ==
  ASSUME TypeOK, ctl' = ctl, pass'.spec = pass.spec
  PROVE  Accepted(pass.spec)' = Accepted(pass.spec)
  BY DEF Accepted, Supported, Observable, Self

(* A plan with a setup in it begins before the application is looked at.   *)
LEMMA ProbeAtStart ==
  ASSUME TypeOK, ctl' = ctl, NEW q \in {"queued", "timer"}, StartSync(q) \/ StartCleanup(q),
         NEW i \in pass'.plan, Program'[i].setup
  PROVE  Left("probe")'
<1>0. ctl \in DOMAIN Table
  BY PassAssumption DEF TypeOK
<1>1. CASE StartSync(q)
  <2>1. pass'.plan = Relevant(Self.pass, cr) /\ ~pass'.cleanup
    BY <1>1, SyncPass
  <2>2. Program' = Table[ctl].pass /\ Self.pass = Table[ctl].pass
    BY <2>1 DEF Program, Self
  <2>3. i \in DOMAIN Table[ctl].pass /\ Table[ctl].pass[i].setup
    BY <2>1, <2>2 DEF Relevant
  <2>4. PICK j \in 1 .. i - 1 : Table[ctl].pass[j].do = "probe"
    BY <1>0, <2>3, TableAssumption DEF SetupFirst
  <2>5. i \in 1 .. Len(Table[ctl].pass) /\ Len(Table[ctl].pass) \in Nat
        /\ DOMAIN Table[ctl].pass = 1 .. Len(Table[ctl].pass)
    BY <2>2, <2>3, ProgramType
  <2>6. j \in DOMAIN Table[ctl].pass
    BY <2>5
  <2>7. Table[ctl].pass[j].sec = Always
    BY <1>0, <2>4, <2>6, TableAssumption DEF SharedSteps
  <2> QED
    BY <2>1, <2>2, <2>4, <2>6, <2>7 DEF Relevant, Left
<1>2. CASE StartCleanup(q)
  <2>1. pass'.plan \subseteq DOMAIN Self.cleanup /\ pass'.cleanup
    BY <1>2, CleanupPass
  <2>2. Program' = Table[ctl].cleanup /\ Self.cleanup = Table[ctl].cleanup
    BY <2>1 DEF Program, Self
  <2> QED
    BY <1>0, <2>1, <2>2, TableAssumption
<1> QED
  BY <1>1, <1>2

LEMMA AdmittedStep ==
  ASSUME Typed, Typed', Admitted, [Next]_vars
  PROVE  Admitted'
<1>0. TypeOK /\ TypeOK' /\ ctl' = ctl /\ Steps' = Steps /\ ctl \in DOMAIN Table /\ setUp \in BOOLEAN
  BY Kinds, Fixed, PassAssumption DEF Typed, TypeOK
<1>1. pass'.plan # {} => pass'.on /\ pass'.out = "" /\ Accepted(pass.spec)'
  <2>1. CASE Works
    <3>1. Moves(pass') /\ Working /\ pass'.spec = pass.spec /\ pass'.on
      BY <2>1, WorkMoves DEF Typed, Moves, KeepsPass, Working
    <3> QED
      BY <1>0, <3>1, AcceptedSame DEF Moves, Ends, Advances, GivesUp, SkipsSetup, Stays, Admitted, Working
  <2>2. CASE Undisturbed(pass')
    BY <1>0, <2>2, UndisturbedFacts, AcceptedSame DEF Admitted
  <2>3. CASE Ended
    BY <1>0, <2>3, NoPassNow DEF Ended
  <2>4. ASSUME NEW q \in {"queued", "timer"}, StartSync(q), pass'.plan # {}
        PROVE  pass'.on /\ pass'.out = "" /\ Accepted(pass.spec)'
    <3>1. Accepted(cr) /\ pass'.on /\ pass'.out = "" /\ pass'.spec = SpecRead
      BY <1>0, <2>4, SyncPass
    <3>2. SpecRead.cleanup = cr.cleanup /\ SpecRead.observe = cr.observe
      BY <1>0, SpecReadOfType
    <3> QED
      BY <1>0, <3>1, <3>2 DEF Accepted, Supported, Observable, Self
  <2>5. ASSUME NEW q \in {"queued", "timer"}, StartCleanup(q)
        PROVE  pass'.on /\ pass'.out = "" /\ Accepted(pass.spec)'
    <3>1. pass'.on /\ pass'.out = "" /\ \A f \in {"rev", "observe", "cleanup", "valid"} : pass'.spec[f] = cr[f]
      BY <1>0, <2>5, CleanupPass
    <3>2. Supported(cr) /\ cr.cleanup
      BY <2>5 DEF StartCleanup
    <3> QED
      BY <1>0, <3>1, <3>2 DEF Accepted, Supported, Observable, Self
  <2> QED
    BY <1>0, <2>1, <2>2, <2>3, <2>4, <2>5, Kinds
<1>2. setUp' \/ \E s \in Steps' : s.setup
  <2>1. CASE Works
    BY <1>0, <2>1, WorkMoves DEF Typed, Effect, Local, Admitted
  <2>2. CASE Rebuild
    BY <1>0, <2>2 DEF Rebuild
  <2>3. CASE ~Works /\ ~Rebuild
    <3>1. setUp' = setUp
      BY <1>0, <2>3, AppOfOthers DEF Handled, HandChange
    <3> QED
      BY <1>0, <3>1 DEF Admitted
  <2> QED
    BY <2>1, <2>2, <2>3
<1>3. ASSUME NEW i \in pass'.plan, Program'[i].setup
      PROVE  Left("probe")' \/ (~Observing' /\ ~setUp')
  <2>1. CASE Works
    <3>1. /\ Moves(pass') /\ Working /\ pass'.spec = pass.spec /\ Program' = Program
          /\ pass'.plan \subseteq pass.plan /\ Observing' = Observing /\ ~Ends(pass')
      BY <1>0, <1>3, <2>1, WorkMoves, PlanShrinks, SameProgram
         DEF Typed, Moves, KeepsPass, Observing, Ends
    <3>2. i \in SetupSteps /\ i \in pass.plan
      BY <1>3, <3>1 DEF SetupSteps
    <3>3. CASE Left("probe")
      <4>1. CASE Left("probe")'
        BY <4>1
      <4>2. CASE ~Left("probe")'
        BY <1>3, <2>1, <3>1, <3>2, <3>3, <4>2, Probed
      <4> QED
        BY <4>1, <4>2
    <3>4. CASE ~Left("probe")
      <4>1. ~Observing /\ ~setUp
        BY <3>2, <3>4 DEF Admitted
      <4>2. ASSUME setUp' PROVE FALSE
        <5>1. Sends /\ Effect /\ Step.do = "finish"
          BY <1>0, <2>1, <4>1, <4>2, WorkMoves DEF Typed, Effect, Local
        <5>2. i = Position /\ Step.setup
          BY <1>0, <1>3, <3>1, <3>2, <5>1, FinishLast
        <5>3. Stays(pass')
          BY <1>3, <3>1, <5>2 DEF Moves, Ends, Advances, GivesUp, SkipsSetup
        <5> QED
          BY <5>1, <5>3 DEF Stays
      <4> QED
        BY <3>1, <4>1, <4>2
    <3> QED
      BY <3>3, <3>4
  <2>2. CASE Undisturbed(pass') /\ ~Works
    <3>1. /\ pass'.plan = pass.plan /\ Program' = Program /\ Observing' = Observing
          /\ Left("probe")' = Left("probe")
      BY <1>0, <2>2, UndisturbedFacts DEF Observing, Left
    <3>2. CASE Rebuild
      <4>1. ~setUp'
        BY <1>0, <1>3, <3>1, <3>2, SetupIsSync DEF Rebuild, TypeOK
      <4> QED
        BY <1>3, <3>1, <4>1 DEF Admitted, SetupSteps
    <3>3. CASE ~Rebuild
      <4>1. setUp' = setUp
        BY <1>0, <2>2, <3>3, AppOfOthers DEF Handled, HandChange
      <4> QED
        BY <1>3, <3>1, <4>1 DEF Admitted, SetupSteps
    <3> QED
      BY <3>2, <3>3
  <2>3. CASE Ended
    BY <1>0, <1>3, <2>3, NoPassNow DEF Ended
  <2>4. ASSUME NEW q \in {"queued", "timer"}, StartSync(q) \/ StartCleanup(q) PROVE Left("probe")'
    BY <1>0, <1>3, <2>4, ProbeAtStart
  <2> QED
    BY <1>0, <2>1, <2>2, <2>3, <2>4, Kinds
<1> QED
  BY <1>1, <1>2, <1>3 DEF Admitted, SetupSteps

LEMMA AdmittedInit == Init => Admitted
<1> SUFFICES ASSUME Init PROVE Admitted
  OBVIOUS
<1>1. pass = NoPass /\ ctl \in Controllers /\ setUp = \A s \in Steps : ~s.setup
  BY DEF Init
<1>2. pass.plan = {}
  BY <1>1, NoPassOfType
<1> QED
  BY <1>1, <1>2 DEF Admitted, SetupSteps

(* "observe" and specs that the integration rejects change nothing in the  *)
(* application, whatever is edited while the pass is on its way.           *)
THEOREM RejectedTouchNothing == Spec => RejectedSpecsTouchNothing
<1> DEFINE Inv == Typed /\ Admitted
           Bad == <<app, setUp>>' # <<app, setUp>> /\ (Request \/ AnswerLost)
<1>1. Init => Inv
  BY TypedInit, AdmittedInit
<1>2. Inv /\ [Next]_vars => Inv'
  BY TypedStep, AdmittedStep
<1>3. ASSUME Inv, Bad PROVE ~Observing /\ Accepted(pass.spec)
  <2>1. Sends /\ Effect /\ Working /\ TypeOK /\ setUp \in BOOLEAN
    BY <1>3 DEF Request, AnswerLost, Sends, Typed, TypeOK
  <2>2. Accepted(pass.spec)
    BY <1>3, <2>1 DEF Admitted, Working
  <2>3. CASE app' # app
    BY <2>1, <2>2, <2>3 DEF Effect
  <2>4. CASE setUp' # setUp
    <3>1. Step.do = "finish"
      BY <2>1, <2>4 DEF Effect
    <3>2. Step.setup
      BY <2>1, <3>1, FinishLast
    <3>3. ~Left("probe") /\ Position \in SetupSteps
      BY <2>1, <3>2, ProbeFirst, AtPosition DEF SetupSteps, Step
    <3> QED
      BY <1>3, <2>2, <3>3 DEF Admitted
  <2> QED
    BY <1>3, <2>3, <2>4
<1>4. Inv /\ [Next]_vars => [Bad => ~Observing /\ Accepted(pass.spec)]_vars
  BY <1>3
<1> QED
  BY <1>1, <1>2, <1>4, PTL DEF Spec, RejectedSpecsTouchNothing

-----------------------------------------------------------------------------
(* Sessions that are not ours, or declared, or too many, are left alone.   *)

ProgramBounds == 
  /\ DOMAIN Program = 1 .. Len(Program) /\ Len(Program) \in Nat /\ pass.plan \subseteq Nat
LEMMA Bounds == ASSUME TypeOK PROVE ProgramBounds
<1>1. Program \in Seq(StepType)
  BY ProgramType
<1>2. DOMAIN Program = 1 .. Len(Program) /\ Len(Program) \in Nat
  BY <1>1
<1> QED
  BY <1>2 DEF ProgramBounds, TypeOK, PassType

(* While sessions are left to be closed, the count precedes no list.       *)
LEMMA CountedBefore ==
  ASSUME Typed, Working, Left("close"), ~Left("threshold")
  PROVE  Step.do \notin {"read", "list", "nodes", "nudge"}
<1>0. TypeOK /\ ProgramBounds /\ Position \in DOMAIN Program /\ Position \in Nat /\ pass.on
      /\ Step = Program[Position]
  BY Bounds, AtPosition DEF Typed, Working, Step
<1>1. PICK i \in pass.plan : Program[i].do = "close"
  BY DEF Left
<1>2. i \in DOMAIN Program /\ i \in Nat /\ Position <= i
  BY <1>0, <1>1, AtPosition, Bounds DEF TypeOK, ProgramBounds, Typed, Working, Left
<1>3. PICK k \in 1 .. i - 1 : Program[k].do = "threshold"
  BY <1>0, <1>1, <1>2, Shape DEF Bounded
<1>4. k \in DOMAIN Program /\ k < i /\ k \in Nat
  BY <1>0, <1>2 DEF ProgramBounds
<1>5. ASSUME Step.do \in {"read", "list", "nodes", "nudge"} PROVE FALSE
  <2>1. Position < k
    BY <1>0, <1>3, <1>4, <1>5, Shape DEF Bounded
  <2>2. k \in Position .. i
    BY <1>0, <1>2, <1>4, <2>1
  <2>3. Program[k].sec = Always
    BY <1>0, <1>3, <1>4, Shape DEF SharedSteps
  <2>4. ~Program[k].setup
    BY <1>0, <1>3, <1>4, Shape DEF SetupFirst
  <2>5. k \in pass.plan
    BY <1>0, <1>1, <2>2, <2>3, <2>4 DEF Typed, InOrder, Serves
  <2> QED
    BY <1>3, <2>5 DEF Left
<1> QED
  BY <1>5

LEMMA CellsFinite == ASSUME TypeOK PROVE IsFiniteSet(Cells)
<1> DEFINE p == Table[ctl].pass
           D == {i \in 1 .. Len(p) : p[i].do \in Writing}
           f == [i \in D |-> p[i].cell]
<1>1. p \in Seq(StepType) /\ ctl \in DOMAIN Table
  BY PassAssumption, TableAssumption DEF TypeOK
<1>2. IsFiniteSet(D)
  <2>1. Len(p) \in Int /\ 1 \in Int
    BY <1>1
  <2>2. IsFiniteSet(1 .. Len(p))
    BY <2>1, FS_Interval
  <2>3. D \in SUBSET (1 .. Len(p))
    OBVIOUS
  <2> HIDE DEF D
  <2> QED
    BY <2>2, <2>3, FS_Subset
<1>3. DOMAIN p = 1 .. Len(p) /\ Cells = {s.cell : s \in {t \in Range(p) : t.do \in Writing}}
  BY <1>1 DEF Cells, CellsOf, CellsDoing, StepsOf
<1>4. f \in [D -> Cells] /\ \A c \in Cells : \E i \in D : f[i] = c
  BY <1>3 DEF Range
<1> HIDE DEF f, D
<1>5. f \in Surjection(D, Cells)
  BY <1>4 DEF Surjection
<1> QED
  BY <1>2, <1>5, FS_Surjection

(* The ledger in the status is only written at the end of a pass.          *)
LEMMA StatusOwned ==
  ASSUME Typed, [Next]_vars
  PROVE  status'.owned \in {status.owned, pass.owned} /\ (~UpdateStatus => status'.owned = status.owned)
<1>0. status \in [latest : BOOLEAN, synced : BOOLEAN, owned : SUBSET Cells,
                  reason : {"", "InvalidConfig", "Observed", "Synced"} \cup Reasons]
  BY DEF Typed, TypeOK
<1>1. CASE UpdateStatus
  BY <1>1 DEF UpdateStatus
<1>2. CASE Works
  BY <1>2, WorkMoves DEF Typed
<1>3. CASE Edit
  BY <1>0, <1>3 DEF Edit
<1>4. CASE ~Works /\ ~UpdateStatus /\ ~Edit
  BY <1>4 DEF Next, ControllerStep, Start, Continue, Environment, Works, vars, StartSync,
       StartDeletion, StartCleanup, Return, StatusRefused, FinishDeletion, Crash, Rebuild,
       FinalizerRefused, DeadlinePasses, DeleteObject, Rotate, RemoveSecret, RestoreSecret,
       HandChange
<1> QED
  BY <1>1, <1>2, <1>3, <1>4

LEMMA LedgersStep ==
  ASSUME Typed, Ledgers, [Next]_vars
  PROVE  Ledgers'
<1>0. /\ TypeOK /\ ctl' = ctl /\ Cells' = Cells /\ made \subseteq made'
      /\ status \in [latest : BOOLEAN, synced : BOOLEAN, owned : SUBSET Cells,
                     reason : {"", "InvalidConfig", "Observed", "Synced"} \cup Reasons]
  BY Kinds, Fixed, Histories DEF Typed, TypeOK
<1>a. NoPass.owned = {} /\ status.owned \subseteq made /\ pass.owned \subseteq made
  BY DEF NoPass, Ledgers
<1>1. pass'.owned \subseteq made'
  <2>1. CASE Works
    <3>1. CASE pass'.owned \subseteq pass.owned
      BY <1>0, <1>a, <3>1
    <3>2. CASE Sends /\ Effect /\ Learns(pass') /\ Step.do = "open"
      <4>1. ~Observing
        BY <3>2 DEF Sends, Writing, Creating
      <4> QED
        BY <1>a, <3>2, <4>1 DEF Effect, Learns
    <3> QED
      BY <2>1, <3>1, <3>2, WorkMoves DEF Typed, Learns, KeepsKnowledge, Local
  <2>2. CASE Undisturbed(pass')
    BY <1>0, <1>a, <2>2, UndisturbedFacts
  <2>3. CASE Ended
    BY <1>0, <1>a, <2>3 DEF Ended
  <2>4. ASSUME NEW q \in {"queued", "timer"}, StartSync(q) \/ StartCleanup(q)
        PROVE  pass'.owned \subseteq made'
    BY <1>0, <1>a, <2>4, SyncPass, CleanupPass
  <2> QED
    BY <1>0, <2>1, <2>2, <2>3, <2>4, Kinds
<1>2. status'.owned \in {status.owned, pass.owned} /\ (~UpdateStatus => status'.owned = status.owned)
  BY StatusOwned
<1>3. ASSUME Left("close")', ~Left("threshold")', ~Observing'
      PROVE  Cardinality(Candidates') <= MaxPrune
  <2>1. CASE Works
    <3>1. /\ Moves(pass') /\ Working /\ pass'.spec = pass.spec /\ Program' = Program
          /\ pass'.plan \subseteq pass.plan /\ Observing' = Observing /\ status' = status
      BY <1>0, <2>1, WorkMoves, PlanShrinks, SameProgram DEF Typed, Moves, KeepsPass, Observing
    <3>2. Left("close") /\ ~Ends(pass')
      BY <1>3, <3>1 DEF Left, Ends
    <3>3. CASE ~Left("threshold")
      <4>1. Cardinality(Candidates) <= MaxPrune
        BY <1>3, <3>1, <3>2, <3>3 DEF Ledgers
      <4>2. pass'.seen = pass.seen
        BY <2>1, <3>1, <3>2, <3>3, CountedBefore, WorkMoves DEF Typed, Learns, KeepsKnowledge, Local
      <4>3. Candidates' = Candidates
        BY <1>0, <3>1, <4>2 DEF Candidates
      <4> QED
        BY <4>1, <4>3
    <3>4. ASSUME NEW i \in pass.plan, Program[i].do = "threshold"
          PROVE  Cardinality(Candidates') <= MaxPrune
      <4>1. i \notin pass'.plan /\ i \in DOMAIN Program
        BY <1>0, <1>3, <3>1, <3>4 DEF Left, TypeOK
      <4>2. Program[i].sec = Always /\ ~Program[i].setup
        BY <1>0, <3>4, <4>1, Shape DEF SharedSteps, SetupFirst
      <4>3. Step.do = "threshold"
        BY <2>1, <3>2, <3>4, <4>1, <4>2, SharedLeaves
      <4>4. Gate
        BY <2>1, <4>3 DEF Works, ResolveSecret, BuildClient, NoSession, Skip, Compare, Request,
           UpdatesNothing, RequestFails, AnswerLost, Sends, Writing, Creating
      <4>5. Cardinality(Candidates) <= MaxPrune \/ pass' = Stop("SyncFailed")
        <5>1. CASE Cardinality(Candidates) > MaxPrune
          BY <1>3, <3>1, <4>3, <4>4, <5>1 DEF Gate
        <5>2. CASE ~(Cardinality(Candidates) > MaxPrune)
          <6>1. MaxPrune \in Nat /\ Cardinality(Candidates) \in Nat
            <7>1. IsFiniteSet(Candidates)
              BY <1>0, CellsFinite, FS_Subset DEF Candidates
            <7> QED
              BY <7>1, PassAssumption, FS_CardinalityType
          <6> DEFINE n == Cardinality(Candidates)
          <6>2. ~(n > MaxPrune)
            BY <5>2
          <6>3. n \in Nat /\ MaxPrune \in Nat
            BY <6>1
          <6> HIDE DEF n
          <6>4. n <= MaxPrune
            BY <6>2, <6>3
          <6> QED
            BY <6>4 DEF n
        <5> QED
          BY <5>1, <5>2
      <4>6. pass' # Stop("SyncFailed")
        BY <1>0, <3>2, StopMoves DEF Endings, Reasons
      <4>7. pass'.seen = pass.seen
        BY <1>0, <4>4, LocalMoves DEF Typed, Local
      <4>8. Candidates' = Candidates
        BY <1>0, <3>1, <4>7 DEF Candidates
      <4> QED
        BY <4>5, <4>6, <4>8
    <3> QED
      BY <3>3, <3>4 DEF Left
  <2>2. CASE Undisturbed(pass')
    <3>1. /\ pass'.spec = pass.spec /\ Program' = Program /\ pass'.plan = pass.plan
          /\ pass'.seen = pass.seen /\ pass'.on = pass.on
      BY <1>0, <2>2, UndisturbedFacts
    <3>2. ~UpdateStatus
      BY <1>0, <1>3, <2>2, <3>1, NoPassNow DEF UpdateStatus, Done, Left
    <3>3. Candidates' = Candidates
      BY <1>0, <1>2, <3>1, <3>2 DEF Candidates
    <3> QED
      BY <1>3, <3>1, <3>3 DEF Ledgers, Left, Observing
  <2>3. CASE Ended
    BY <1>0, <1>3, <2>3, NoPassNow DEF Ended, Left
  <2>4. ASSUME NEW q \in {"queued", "timer"}, StartSync(q) \/ StartCleanup(q) PROVE FALSE
    <3>1. PICK p \in {Self.pass, Self.cleanup} :
            /\ Program' = p /\ pass'.plan = Relevant(p, cr) /\ Bounded(p) /\ SharedSteps(p)
            /\ p \in Seq(StepType)
      <4>1. ctl \in DOMAIN Table /\ Self = Table[ctl] /\ pass'.plan # {}
        BY <1>0, <1>3, PassAssumption DEF TypeOK, Self, Left
      <4>2. CASE StartSync(q)
        BY <1>0, <4>1, <4>2, SyncPass, TableAssumption DEF Program, Self
      <4>3. CASE StartCleanup(q)
        BY <1>0, <4>1, <4>3, CleanupPass, TableAssumption DEF Program, Self
      <4> QED
        BY <2>4, <4>2, <4>3
    <3>2. PICK i \in DOMAIN p : p[i].do = "close"
      BY <1>3, <3>1 DEF Left, Relevant
    <3>3. PICK k \in 1 .. i - 1 : p[k].do = "threshold"
      BY <3>1, <3>2 DEF Bounded
    <3>4. DOMAIN p = 1 .. Len(p) /\ Len(p) \in Nat
      BY <3>1
    <3>5. k \in DOMAIN p
      BY <3>2, <3>3, <3>4
    <3>6. p[k].sec = Always
      BY <3>1, <3>3, <3>5 DEF SharedSteps
    <3> QED
      BY <1>3, <3>1, <3>3, <3>5, <3>6 DEF Left, Relevant
  <2> QED
    BY <1>0, <2>1, <2>2, <2>3, <2>4, Kinds
<1> QED
  BY <1>0, <1>1, <1>2, <1>3, <1>a DEF Ledgers

(* What a request empties is a session that is closed, or a stray.         *)
LEMMA Emptied ==
  ASSUME Typed, Sends, Effect, NEW c \in Cells, app[c] # <<>>, app'[c] = <<>>
  PROVE  c = Cell /\ ~Observing /\ Step.do \in {"close", "clear"}
<1>0. TypeOK /\ Counted /\ Limits /\ Working /\ app \in [Cells -> Seq(Value)]
  BY DEF Typed, Sends, TypeOK
<1>1. Step.do \in Writing /\ ~Observing /\ app' = [app EXCEPT ![Cell] = Written]
  BY DEF Effect
<1>2. c = Cell /\ Written = <<>>
  BY <1>0, <1>1
<1>3. Want \in Value /\ Foreign \in Value /\ Len(OneMore) > 0 /\ app[Cell] \in Seq(Value) /\ app[Cell] # <<>>
  BY <1>0, <1>1, <1>2, WantOfType, OneMoreOfType
<1>4. <<Want>> # <<>> /\ <<Foreign>> # <<>> /\ OneMore # <<>>
  BY <1>3
<1>5. [app[Cell] EXCEPT ![1] = Want] # <<>>
  <2>1. Len([app[Cell] EXCEPT ![1] = Want]) = Len(app[Cell])
    BY <1>3, Replaced
  <2>2. Len(app[Cell]) # 0
    BY <1>3
  <2> HIDE <1>3
  <2> QED
    BY <2>1, <2>2
<1>6. Step.do # "nudge"
  <2>1. Step.do = "nudge" => Len(Written) = 2
    BY <1>0, NudgeWritesTwo
  <2> QED
    BY <1>2, <2>1
<1>7. ASSUME Step.do \in {"part", "write", "settle", "open", "merge", "replace", "create", "add"}
      PROVE  Written \in {app[Cell], <<Want>>, <<Foreign>>, OneMore, [app[Cell] EXCEPT ![1] = Want]}
  BY <1>7 DEF Written
<1> QED
  BY <1>1, <1>2, <1>3, <1>4, <1>5, <1>6, <1>7 DEF Writing, Creating

(* Only sessions that the operator opened are closed, none that is         *)
(* declared, and never more of them than the threshold: also when the      *)
(* cleanup closes them, and whatever happened to the ledger since.         *)
THEOREM OthersSurvive == Spec => SessionsOfOthersSurvive
<1> DEFINE Inv == Typed /\ Ledgers
           A == app' # app /\ (Request \/ AnswerLost)
           B == \A c \in Cells \ {"strays"} : app[c] # <<>> /\ app'[c] = <<>> =>
                  c \in made \ pass.spec.declared /\ Cardinality(Candidates) <= MaxPrune
<1>1. Init => Inv
  <2> SUFFICES ASSUME Init PROVE Inv
    OBVIOUS
  <2>1. /\ status.owned = {} /\ pass.owned = {} /\ pass.plan = {}
    BY NoPassOfType DEF Init, NoPass
  <2> QED
    BY <2>1, TypedInit DEF Ledgers, Left
<1>2. Inv /\ [Next]_vars => Inv'
  BY TypedStep, LedgersStep
<1>3. ASSUME Inv, A PROVE B
  <2>0. TypeOK /\ Sends /\ Effect /\ Working
    BY <1>3 DEF Request, AnswerLost, Sends, Typed
  <2>1. ASSUME NEW c \in Cells \ {"strays"}, app[c] # <<>>, app'[c] = <<>>
        PROVE  c \in made \ pass.spec.declared /\ Cardinality(Candidates) <= MaxPrune
    <3>1. c = Cell /\ ~Observing /\ Step.do \in {"close", "clear"}
      BY <1>3, <2>0, <2>1, Emptied
    <3>2. Position \in pass.plan /\ Position \in DOMAIN Program /\ Step = Program[Position]
          /\ Cell = Program[Position].cell
      BY <2>0, AtPosition DEF Step, Cell
    <3>3. Step.do = "close"
      BY <2>0, <2>1, <3>1, <3>2, Shape DEF Divided, Writing
    <3>4. Cell \in Candidates
      BY <2>0, <3>1, <3>3 DEF Sends, InPlace, Writing
    <3>5. Left("close")
      BY <3>2, <3>3 DEF Left
    <3>6. ~Left("threshold")
      <4>1. ASSUME NEW i \in pass.plan, Program[i].do = "threshold" PROVE FALSE
        <5>1. i \in DOMAIN Program /\ i \in Nat /\ Position \in Nat /\ Position <= i
          BY <2>0, AtPosition, Bounds DEF TypeOK, ProgramBounds
        <5>2. i < Position
          BY <2>0, <3>2, <3>3, <4>1, <5>1, Shape DEF Bounded
        <5> QED
          BY <5>1, <5>2
      <4> QED
        BY <4>1 DEF Left
    <3> QED
      BY <1>3, <3>1, <3>4, <3>5, <3>6 DEF Ledgers, Candidates
  <2> QED
    BY <2>1
<1>4. Inv /\ [Next]_vars => [A => B]_vars
  BY <1>3
<1> QED
  BY <1>1, <1>2, <1>4, PTL DEF Spec, SessionsOfOthersSurvive

-----------------------------------------------------------------------------
(* Duplicates.                                                             *)

(* A step at work changes the cell it writes, if any.                      *)
LEMMA AppOfWork ==
  ASSUME Typed, Works, app' # app
  PROVE  /\ Sends /\ Effect /\ Working /\ Possible /\ Step.do \in Writing /\ ~Observing /\ ~InPlace
         /\ app' = [app EXCEPT ![Cell] = Written] /\ Cell \in Cells
         /\ Position \in DOMAIN Program /\ Position \in pass.plan /\ Step = Program[Position]
         /\ ~Ends(pass') => Advances(pass') \/ Stays(pass') \/ GivesUp(pass')
<1>1. Sends /\ Effect /\ Working /\ Possible
  BY WorkMoves DEF Typed, Local
<1>2. Step.do \in Writing /\ ~Observing /\ app' = [app EXCEPT ![Cell] = Written]
  BY <1>1 DEF Effect
<1>3. ~InPlace
  BY <1>1, <1>2 DEF Sends
<1>4. Step.do # "probe"
  BY <1>2 DEF Writing, Creating
<1> QED
  BY <1>1, <1>2, <1>3, <1>4, AtPosition, CellOfType, WorkMoves DEF Typed, Moves, SkipsSetup, Step

LEMMA ItemSteps ==
  ASSUME TypeOK, ~pass.cleanup, NEW i \in DOMAIN Program, Program[i].do \in Creating \cup {"clear"}
  PROVE  /\ Program[i].cell \in ItemsOf[ctl] /\ Program[i].cell \in Cells
         /\ Program[i].cell # "workers" /\ Program[i] \in Steps
<1>1. Program = Table[ctl].pass /\ ctl \in DOMAIN Table
  BY PassAssumption DEF Program, Self, TypeOK
<1>2. Program[i] \in Steps /\ Program[i].do \in Writing
  BY <1>1 DEF Steps, StepsOf, Range, Writing, Creating
<1> QED
  BY <1>1, <1>2, WritesCells, WorkersAreNoItem DEF ItemsOf, CellsDoing, Steps

LEMMA Short == ASSUME NEW x PROVE ~(Len(<<x>>) > 1) /\ ~(Len(<<>>) > 1)
<1>1. Len(<<x>>) = 1 /\ Len(<<>>) = 0
  OBVIOUS
<1> QED
  BY <1>1

(* When a cell gets a second copy.                                         *)
LEMMA Lengthens ==
  ASSUME Typed, Works, NEW c \in Cells \ {"workers"}, Len(app'[c]) > 1, ~(Len(app[c]) > 1)
  PROVE  /\ c = Cell /\ app[c] # <<>> /\ app' # app
         /\ Step.do \in {"merge", "replace", "create"} => pass.seen[c] = <<>>
         /\ Step.do \in {"merge", "replace", "create", "add"}
<1>1. app' # app
  OBVIOUS
<1>2. /\ TypeOK /\ Sends /\ Working /\ Step.do \in Writing /\ ~Observing /\ ~InPlace
      /\ app' = [app EXCEPT ![Cell] = Written] /\ Cell \in Cells
      /\ Position \in DOMAIN Program /\ Step = Program[Position] /\ app \in [Cells -> Seq(Value)]
  BY <1>1, AppOfWork DEF Typed, TypeOK
<1>3. c = Cell
  <2>1. c # Cell => app'[c] = app[c]
    BY <1>2
  <2> QED
    BY <2>1
<1>4. app'[c] = Written /\ Len(Written) > 1 /\ ~(Len(app[Cell]) > 1)
  BY <1>2, <1>3
<1>5. /\ Want \in Value /\ Foreign \in Value /\ app[Cell] \in Seq(Value) /\ Len(app[Cell]) \in Nat
  BY <1>2, WantOfType
<1>6. Step.do # "nudge"
  BY <1>2, <1>3, Shape DEF Divided, Cell, Writing
<1>7. Len(<<Want>>) = 1 /\ Len(<<Foreign>>) = 1 /\ Len(<<>>) = 0
  OBVIOUS
<1>8. [app[Cell] EXCEPT ![1] = Want] # Written
  <2>1. Len([app[Cell] EXCEPT ![1] = Want]) = Len(app[Cell])
    BY <1>5, Replaced
  <2> HIDE <1>5
  <2> QED
    BY <1>4, <2>1
<1>9. Step.do \notin {"part", "write", "settle", "open", "clear", "close"}
  <2>1. ASSUME Step.do \in {"part", "write", "settle", "open", "clear", "close"}
        PROVE  Written \in {app[Cell], <<Want>>, <<Foreign>>, <<>>}
    BY <2>1 DEF Written
  <2>2. ~(Len(<<Want>>) > 1) /\ ~(Len(<<Foreign>>) > 1) /\ ~(Len(<<>>) > 1)
    BY <1>7
  <2> QED
    BY <1>4, <2>1, <2>2
<1>10. Step.do \in {"merge", "replace", "create", "add"}
  BY <1>2, <1>6, <1>9 DEF Writing, Creating
<1>11. Step.do \in {"merge", "replace", "create"} => pass.seen[c] = <<>>
  <2>1. Step.do \in {"merge", "replace"} => ~Listed
    BY <1>8 DEF Written
  <2>2. Step.do = "create" => ~Listed
    BY <1>2 DEF InPlace
  <2> QED
    BY <1>3, <2>1, <2>2 DEF Listed, Seen
<1>12. app[c] # <<>>
  <2>1. Written = OneMore
    BY <1>8, <1>10 DEF Written
  <2>2. ASSUME app[Cell] = <<>> PROVE Len(OneMore) = 1
    <3>1. Len(app[Cell]) = 0
      BY <2>2
    <3>2. OneMore = Append(app[Cell], Want)
      BY <3>1 DEF OneMore
    <3> QED
      BY <1>5, <3>1, <3>2
  <2>3. Len(OneMore) > 1
    BY <1>4, <2>1
  <2>5. Len(OneMore) # 1
    <3>1. OneMore \in Seq(Value)
      BY <1>2, OneMoreOfType
    <3> DEFINE n == Len(OneMore)
    <3>2. n \in Nat /\ n > 1
      BY <2>3, <3>1
    <3> HIDE DEF n
    <3>3. n # 1
      BY <3>2
    <3> QED
      BY <3>3 DEF n
  <2>4. app[Cell] # <<>>
    BY <2>2, <2>5
  <2> QED
    BY <1>3, <2>4
<1> QED
  BY <1>1, <1>3, <1>10, <1>11, <1>12

(* During the setup all that it does not rest on is still to be read.      *)
LEMMA SetupBeforeReads ==
  ASSUME Typed, Working, Step.setup, NEW i \in pass.plan, ~Program[i].setup,
         Program[i].do \in DOMAIN Source
  PROVE  ReadAhead(i)
<1>0. /\ TypeOK /\ ProgramBounds /\ Position \in DOMAIN Program /\ Position \in Nat /\ pass.on
      /\ Step = Program[Position] /\ i \in DOMAIN Program /\ i \in Nat /\ Position <= i
  BY Bounds, AtPosition DEF Typed, Working, Step, TypeOK, ProgramBounds
<1>1. ~pass.cleanup
  BY <1>0, SetupIsSync
<1>2. PICK j \in 1 .. i - 1 :
        /\ Program[j].do = Source[Program[i].do] /\ ~Program[j].setup
        /\ Program[j].do = "list" \/ Program[j].sec = Program[i].sec
  BY <1>0, <1>1, Shape DEF ReadFirst
<1>3. j \in DOMAIN Program /\ j \in Nat /\ j < i
  BY <1>0 DEF ProgramBounds
<1>4. Program[j].do \in {"list", "nodes", "read"}
  BY <1>2, SourceIs
<1>5. ~(j < Position)
  BY <1>0, <1>1, <1>2, <1>3, <1>4, Shape DEF SetupFirst
<1>6. j \in Position .. i
  BY <1>0, <1>3, <1>5
<1>7. Program[j].do = "list" => Program[j].sec = Always
  BY <1>0, <1>3, Shape DEF SharedSteps
<1>8. j \in pass.plan
  BY <1>0, <1>2, <1>6, <1>7 DEF Typed, InOrder, Serves
<1> QED
  BY <1>2, <1>3, <1>8 DEF ReadAhead

(* Who writes a cell that is still to be written: only its setup.          *)
LEMMA WriterIsSetup ==
  ASSUME Typed, Working, Step.do \in Writing, ~pass.cleanup, NEW i \in pass.plan, i # Position,
         Program[i].do \in Final \ {"write"}, ~Program[i].setup, Program[i].cell = Cell
  PROVE  Step.setup
<1>1. /\ TypeOK /\ ProgramBounds /\ Position \in DOMAIN Program /\ Step = Program[Position]
      /\ i \in DOMAIN Program /\ i \in Nat /\ Position \in Nat /\ Position <= i
  BY AtPosition, Bounds DEF Typed, Step, TypeOK, ProgramBounds
<1>2. Program[i].do \in Writing
  BY DEF Final, Writing, Creating
<1>3. ~(i < Position)
  BY <1>1
<1> QED
  BY <1>1, <1>2, <1>3, Shape DEF WrittenOnce, Cell

LEMMA ListsKinds ==
  ASSUME Typed, Works, NEW c \in Cells \ {"workers"}
  PROVE  pass'.seen[c] = pass.seen[c] \/ (pass'.seen[c] = app[c] /\ app' = app)
<1>1. CASE pass'.seen = pass.seen
  BY <1>1
<1>2. CASE Sends /\ Effect /\ Learns(pass') /\ Step.do \in {"read", "list", "nodes"}
  BY <1>2 DEF Learns, Lists, Effect, Writing, Creating
<1>3. CASE Sends /\ Effect /\ Learns(pass') /\ Step.do = "nudge"
  <2>1. Cell = "workers" /\ pass.seen \in [Cells -> Seq(Value)]
    BY <1>3, AtNudge DEF Typed, Sends, TypeOK, PassType
  <2> QED
    BY <1>3, <2>1 DEF Learns
<1> QED
  BY <1>1, <1>2, <1>3, WorkMoves DEF Typed, Learns, KeepsKnowledge, Local

LEMMA SeenAbsentStep ==
  ASSUME Typed, Typed', Admitted, SeenAbsent, [Next]_vars
  PROVE  SeenAbsent'
<1>0. TypeOK /\ ctl' = ctl /\ Cells' = Cells /\ excused \subseteq excused'
  BY Kinds, Fixed, Histories DEF Typed
<1> SUFFICES ASSUME NEW i \in pass'.plan, Program'[i].do \in {"merge", "replace", "create"},
                    ~ReadAhead(i)', pass'.seen[Program'[i].cell] = <<>>
             PROVE  app'[Program'[i].cell] = <<>> \/ Program'[i].cell \in excused'
  BY DEF SeenAbsent
<1>a. Program'[i].do \in DOMAIN Source /\ Program'[i].do \in Creating
      /\ Program'[i].do \in Final \ {"write"}
  BY DEF Source, Creating, Final
<1>1. CASE Works
  <2>1. /\ Moves(pass') /\ Working /\ Program' = Program /\ pass'.plan \subseteq pass.plan
        /\ i \in pass.plan /\ i \in DOMAIN Program
    BY <1>0, <1>1, WorkMoves, PlanShrinks, SameProgram DEF Typed, Moves, KeepsPass, TypeOK
  <2> DEFINE c == Program[i].cell
  <2>2. ~pass.cleanup
    BY <1>0, <1>a, <2>1, Shape DEF Creating
  <2>3. c \in Cells /\ c # "workers"
    BY <1>0, <1>a, <2>1, <2>2, ItemSteps
  <2>4. ~Program[i].setup
    BY <1>0, <1>a, <2>1, <2>2, Shape DEF SetupFirst, Writing, Creating
  <2>5. CASE ReadAhead(i)
    <3>1. app' = app /\ pass'.seen = Lists /\ (Step.do = "list" \/ Step.sec = Program[i].sec)
      BY <1>1, <1>a, <2>1, <2>5, ReadNow DEF Typed
    <3>2. Lists[c] = app[c]
      BY <1>0, <2>1, <2>2, <2>3, <3>1, ListsOwn
    <3> QED
      BY <2>1, <3>1, <3>2
  <2>6. CASE ~ReadAhead(i)
    <3>1. pass.seen[c] = <<>> => app[c] = <<>> \/ c \in excused
      BY <2>1, <2>6 DEF SeenAbsent
    <3>2. CASE app'[c] = app[c]
      BY <1>0, <1>1, <2>1, <2>3, <3>1, <3>2, ListsKinds
    <3>3. CASE app'[c] # app[c]
      <4>1. /\ Step.do \in Writing /\ app' = [app EXCEPT ![Cell] = Written] /\ Cell = c
            /\ Advances(pass') \/ Stays(pass') \/ GivesUp(pass')
        BY <1>0, <1>1, <2>1, <2>3, <3>3, AppOfWork DEF Ends, TypeOK
      <4>2. i # Position
        BY <1>a, <2>1, <4>1 DEF Advances, Stays, GivesUp, Step, Creating
      <4>3. Step.setup
        BY <1>a, <2>1, <2>2, <2>4, <4>1, <4>2, WriterIsSetup
      <4> QED
        BY <1>a, <2>1, <2>4, <2>6, <4>3, SetupBeforeReads
    <3> QED
      BY <3>2, <3>3
  <2> QED
    BY <2>5, <2>6
<1>2. CASE Undisturbed(pass') /\ ~Works
  <2>1. Program' = Program /\ pass'.plan = pass.plan /\ pass'.seen = pass.seen
    BY <1>0, <1>2, UndisturbedFacts
  <2> DEFINE c == Program[i].cell
  <2>2. i \in DOMAIN Program /\ ~pass.cleanup
    BY <1>0, <1>a, <2>1, Shape DEF TypeOK, Creating
  <2>3. c \in Cells /\ c \in ItemsOf[ctl] /\ c # "workers"
    BY <1>0, <1>a, <2>1, <2>2, ItemSteps
  <2>4. app[c] = <<>> \/ c \in excused
    BY <2>1 DEF SeenAbsent, ReadAhead
  <2>5. pass.on
    BY <2>1 DEF Admitted
  <2>6. CASE Rebuild
    BY <2>1, <2>3, <2>6 DEF Rebuild, NewApp
  <2>7. ASSUME NEW d \in Cells, HandChange(d) PROVE app'[c] = <<>> \/ c \in excused'
    <3>1. c = d => c \in excused'
      BY <2>5, <2>7 DEF HandChange
    <3>2. c # d => app'[c] = app[c]
      BY <1>0, <2>3, <2>7 DEF HandChange, TypeOK
    <3> QED
      BY <1>0, <2>4, <3>1, <3>2
  <2> QED
    BY <1>0, <1>2, <2>1, <2>4, <2>6, <2>7, AppOfOthers DEF Handled
<1>3. CASE Ended
  BY <1>0, <1>3, NoPassNow DEF Ended
<1>4. ASSUME NEW q \in {"queued", "timer"}, StartSync(q) \/ StartCleanup(q) PROVE FALSE
  BY <1>0, <1>4, <1>a, ReadFromStart
<1> QED
  BY <1>0, <1>1, <1>2, <1>3, <1>4, Kinds

(* A setup that has begun adds each of its items once.                     *)
LEMMA AddedOnce ==
  ASSUME Typed, Working, ~pass.cleanup, Step.do \in Writing, NEW i \in pass.plan, i # Position,
         Program[i].do = "add", Program[i].cell = Cell
  PROVE  FALSE
<1>0. /\ TypeOK /\ ProgramBounds /\ Position \in DOMAIN Program /\ Position \in Nat
      /\ Step = Program[Position] /\ i \in DOMAIN Program /\ i \in Nat /\ Position <= i
  BY Bounds, AtPosition DEF Typed, Working, Step, TypeOK, ProgramBounds
<1>1. Program[i].setup /\ Program[i].do \in Writing
  BY <1>0, Shape DEF SetupFirst, Writing, Creating
<1>2. CASE ~Step.setup
  <2>1. Step.do \in {"secret", "client", "probe", "session"}
    BY <1>0, <1>1, <1>2, Shape DEF SetupFirst
  <2> QED
    BY <2>1 DEF Writing, Creating
<1>3. CASE Step.setup /\ Step.do \in {"write", "add"}
  <2>1. i <= Position
    BY <1>0, <1>1, <1>3, Shape DEF WrittenOnce, Cell
  <2> QED
    BY <1>0, <2>1
<1>4. CASE Step.setup /\ Step.do = "part"
  <2>1. PICK j \in DOMAIN Program :
          Program[j].do \in {"write", "open"} /\ Program[j].setup /\ Program[j].cell = Cell
    BY <1>0, <1>4, Shape DEF Divided, Cell, Writing
  <2>2. Program[j].do = "write" /\ j \in Nat
    BY <1>0, <2>1, Shape DEF SetupFirst, ProgramBounds, Writing, Creating
  <2>3. Program[j].do \in Writing
    BY <2>2 DEF Writing
  <2>4. i <= j
    BY <1>0, <1>1, <2>1, <2>2, <2>3, Shape DEF WrittenOnce, Cell
  <2>5. j <= i
    BY <1>0, <1>1, <2>1, <2>2, <2>3, Shape DEF WrittenOnce, Cell
  <2> QED
    BY <1>0, <2>2, <2>4, <2>5
<1> QED
  BY <1>0, <1>2, <1>3, <1>4, Shape DEF SetupFirst

LEMMA AddedNowStep ==
  ASSUME Typed, Typed', Admitted, AddedNow, [Next]_vars
  PROVE  AddedNow'
<1>0. /\ TypeOK /\ ctl' = ctl /\ Cells' = Cells /\ excused \subseteq excused'
      /\ app \in [Cells -> Seq(Value)] /\ ctl \in DOMAIN Table /\ setUp \in BOOLEAN
  BY Kinds, Fixed, Histories, PassAssumption DEF Typed, TypeOK
<1> SUFFICES ASSUME ~setUp', NEW c \in SetupCellsOf[ctl] \cap ItemsOf[ctl], app'[c] # <<>>
             PROVE  \/ c \in excused'
                    \/ /\ pass'.on /\ ~pass'.cleanup
                       /\ ~ \E i \in pass'.plan : Program'[i].do = "add" /\ Program'[i].cell = c
  BY <1>0 DEF AddedNow
<1>a. c \in Cells /\ c # "workers"
  BY <1>0, WorkersAreNoItem DEF SetupCellsOf, Cells, CellsOf, CellsDoing
<1>1. CASE Works
  <2>1. /\ Moves(pass') /\ Working /\ Program' = Program /\ pass'.plan \subseteq pass.plan
        /\ pass'.on = pass.on /\ pass'.cleanup = pass.cleanup
    BY <1>0, <1>1, WorkMoves, PlanShrinks, SameProgram DEF Typed, Moves, KeepsPass
  <2>2. ~setUp
    BY <1>0, <1>1, WorkMoves DEF Typed, Effect, Local
  <2>3. CASE app[c] # <<>>
    BY <1>0, <2>1, <2>2, <2>3 DEF AddedNow
  <2>4. CASE app[c] = <<>>
    <3>1. /\ Step.do \in Writing /\ app' = [app EXCEPT ![Cell] = Written] /\ c = Cell
          /\ Position \in DOMAIN Program /\ Step = Program[Position]
          /\ ~Ends(pass') => Advances(pass') \/ Stays(pass') \/ GivesUp(pass')
      BY <1>0, <1>1, <1>a, <2>4, AppOfWork
    <3>2. ~pass.cleanup
      <4>1. ASSUME pass.cleanup PROVE FALSE
        <5>1. Step.do = "close"
          BY <1>0, <3>1, <4>1, Shape DEF Writing, Creating
        <5> QED
          BY <1>0, <1>a, <3>1, <5>1 DEF Written
      <4> QED
        BY <4>1
    <3>3. ASSUME NEW i \in pass'.plan, Program[i].do = "add", Program[i].cell = c PROVE FALSE
      <4>1. i \in pass.plan /\ i # Position
        <5>1. Step.do # "nudge"
          BY <1>0, <1>a, <3>1, <3>2, Shape DEF Divided, Cell
        <5> QED
          BY <2>1, <3>1, <3>3, <5>1 DEF Ends, Advances, Stays, GivesUp
      <4> QED
        BY <2>1, <3>1, <3>2, <3>3, <4>1, AddedOnce
    <3> QED
      BY <2>1, <3>2, <3>3 DEF Working
  <2> QED
    BY <2>3, <2>4
<1>2. CASE Undisturbed(pass') /\ ~Works
  <2>1. /\ Program' = Program /\ pass'.plan = pass.plan /\ pass'.on = pass.on
        /\ pass'.cleanup = pass.cleanup
    BY <1>0, <1>2, UndisturbedFacts
  <2>2. CASE UNCHANGED <<app, setUp>>
    BY <1>0, <2>1, <2>2 DEF AddedNow
  <2>3. CASE Rebuild
    BY <1>0, <1>a, <2>3 DEF Rebuild, NewApp
  <2>4. ASSUME NEW d \in Cells, HandChange(d)
        PROVE  c \in excused' \/ (setUp' = setUp /\ app'[c] = app[c])
    <3>1. setUp' = setUp /\ (c = d => c \in excused')
      BY <2>4 DEF HandChange
    <3>2. c # d => app'[c] = app[c]
      BY <1>0, <1>a, <2>4 DEF HandChange
    <3> QED
      BY <3>1, <3>2
  <2> QED
    BY <1>0, <1>2, <2>1, <2>2, <2>3, <2>4, AppOfOthers DEF Handled, AddedNow
<1>3. CASE Ended /\ ~Works /\ ~Undisturbed(pass')
  <2>1. app' = app /\ setUp' = setUp
    BY <1>3 DEF Ended
  <2>2. CASE Return \/ Crash
    BY <1>0, <2>1, <2>2 DEF Return, Crash, LeftBehind
  <2>3. CASE FinishDeletion
    <3>1. pass.cleanup /\ excused' = excused
      BY <2>3 DEF FinishDeletion
    <3>2. ~setUp /\ app[c] # <<>>
      BY <2>1
    <3> QED
      BY <3>1, <3>2 DEF AddedNow
  <2>4. \A q \in {"queued", "timer"} : ~StartSync(q) /\ ~StartCleanup(q)
    BY <1>0, <1>3, SyncPass, CleanupPass, NoPassNow DEF Ended
  <2>5. \/ Return \/ Crash \/ FinishDeletion
    <3>1. \A q \in {"queued", "timer"} : StartDeletion(q) => Undisturbed(pass')
      BY <1>0, UndisturbedSame DEF StartDeletion
    <3>2. FinalizerRefused \/ DeadlinePasses \/ UNCHANGED vars => Undisturbed(pass')
      BY <1>0, UndisturbedSame DEF FinalizerRefused, DeadlinePasses, vars
    <3>3. Edit \/ DeleteObject => Undisturbed(pass')
      BY <1>0, UndisturbedOld DEF Edit, DeleteObject
    <3>4. Rebuild => Undisturbed(pass')
      BY <1>0, UndisturbedTouch DEF Rebuild
    <3>5. \A s : Rotate(s) \/ RemoveSecret(s) \/ RestoreSecret(s) => Undisturbed(pass')
      BY <1>0, UndisturbedSame DEF Rotate, RemoveSecret, RestoreSecret
    <3>6. \A d \in Cells : HandChange(d) => Undisturbed(pass')
      BY <1>0, UndisturbedTouch DEF HandChange
    <3> QED
      BY <1>3, <2>4, <3>1, <3>2, <3>3, <3>4, <3>5, <3>6 DEF Next, ControllerStep, Start, Continue, Environment,
         Works, UpdateStatus, StatusRefused
  <2> QED
    BY <2>2, <2>3, <2>5
<1>4. ASSUME NEW q \in {"queued", "timer"}, StartSync(q) \/ StartCleanup(q) PROVE c \in excused'
  BY <1>0, <1>4 DEF StartSync, StartCleanup, Idle, AddedNow
<1> QED
  BY <1>0, <1>1, <1>2, <1>3, <1>4, Kinds

LEMMA DuplicatesStep ==
  ASSUME Typed, Typed', Admitted, SeenAbsent, AddedNow, DuplicatesAreExplained, [Next]_vars
  PROVE  DuplicatesAreExplained'
<1>0. /\ TypeOK /\ ctl' = ctl /\ Cells' = Cells /\ excused \subseteq excused'
      /\ app \in [Cells -> Seq(Value)] /\ ctl \in DOMAIN Table /\ setUp \in BOOLEAN
  BY Kinds, Fixed, Histories, PassAssumption DEF Typed, TypeOK
<1> SUFFICES ASSUME NEW c \in Cells \ {"workers"}, Len(app'[c]) > 1 PROVE c \in excused'
  BY <1>0 DEF DuplicatesAreExplained
<1>1. CASE Len(app[c]) > 1
  BY <1>0, <1>1 DEF DuplicatesAreExplained
<1>2. CASE Works /\ ~(Len(app[c]) > 1)
  <2>1. /\ c = Cell /\ app[c] # <<>> /\ app' # app
        /\ Step.do \in {"merge", "replace", "create"} => pass.seen[c] = <<>>
        /\ Step.do \in {"merge", "replace", "create", "add"}
    BY <1>2, Lengthens
  <2>2. /\ Working /\ Position \in pass.plan /\ Position \in DOMAIN Program /\ Step = Program[Position]
        /\ Cell = Program[Position].cell
    BY <1>2, <2>1, AppOfWork DEF Cell
  <2>3. ~pass.cleanup
    BY <1>0, <2>1, <2>2, Shape
  <2>4. CASE Step.do \in {"merge", "replace", "create"}
    <3>1. ~ReadAhead(Position)
      <4>1. \A j \in pass.plan : j \in Nat /\ Position \in Nat /\ Position <= j
        BY <1>0, <2>2, AtPosition DEF TypeOK, PassType
      <4> QED
        BY <4>1 DEF ReadAhead
    <3> QED
      BY <1>0, <2>1, <2>2, <2>4, <3>1 DEF SeenAbsent
  <2>5. CASE Step.do = "add"
    <3>1. Step.setup
      BY <1>0, <2>2, <2>3, <2>5, Shape DEF SetupFirst
    <3>2. ~setUp
      BY <1>0, <2>2, <3>1, ProbeFirst DEF Admitted, SetupSteps
    <3>3. Program = Table[ctl].pass /\ Step \in StepsOf[ctl]
      BY <1>0, <2>2, <3>1, SetupIsSync DEF Steps
    <3>4. c \in SetupCellsOf[ctl] \cap ItemsOf[ctl]
      BY <1>0, <2>1, <2>2, <2>5, <3>1, <3>3 DEF SetupCellsOf, ItemsOf, CellsDoing, Writing, Creating, Cell
    <3> QED
      BY <1>0, <2>1, <2>2, <2>5, <3>2, <3>4 DEF AddedNow
  <2> QED
    BY <2>1, <2>4, <2>5
<1>3. CASE ~Works /\ ~(Len(app[c]) > 1)
  <2>0. ~(Len(<<Foreign>>) > 1) /\ ~(Len(<<>>) > 1)
    BY Short
  <2>1. CASE UNCHANGED <<app, setUp>>
    BY <1>3, <2>1
  <2>2. CASE Rebuild
    <3>1. app'[c] \in {<<>>, <<Foreign>>}
      BY <2>2 DEF Rebuild, NewApp
    <3> QED
      BY <2>0, <3>1, Zenon
  <2>3. ASSUME NEW d \in Cells, HandChange(d) PROVE FALSE
    <3>1. app'[c] \in {<<>>, <<Foreign>>, app[c], [app[c] EXCEPT ![1] = Foreign]}
      BY <1>0, <2>3 DEF HandChange
    <3>2. Len([app[c] EXCEPT ![1] = Foreign]) = Len(app[c])
      <4>1. Foreign \in Value
        BY Bound DEF TypeOK, Typed
      <4> QED
        BY <1>0, <4>1, Replaced
    <3> QED
      BY <1>3, <2>0, <3>1, <3>2, Zenon
  <2> QED
    BY <1>0, <1>3, <2>1, <2>2, <2>3, AppOfOthers DEF Handled
<1> QED
  BY <1>1, <1>2, <1>3

Created == Typed /\ Admitted /\ SeenAbsent /\ AddedNow /\ DuplicatesAreExplained

(* Nothing is there twice unless a hand or a setup that was interrupted    *)
(* explains it: no retry, lost answer or crash creates again what is       *)
(* there, in any integration.                                              *)
THEOREM DuplicatesExplained == Spec => []DuplicatesAreExplained
<1>1. Init => Created
  <2> SUFFICES ASSUME Init PROVE Created
    OBVIOUS
  <2>1. pass.plan = {} /\ app = NewApp
    BY NoPassOfType DEF Init
  <2>2. TypeOK
    BY InitTypeOK
  <2>3. \A c \in ItemsOf[ctl] \cap Cells : app[c] = <<>>
    BY <2>1 DEF NewApp
  <2>4. SetupCellsOf[ctl] \subseteq Cells
    <3>1. ctl \in DOMAIN Table
      BY <2>2, PassAssumption DEF TypeOK
    <3> QED
      BY <3>1 DEF CellsOf, CellsDoing, SetupCellsOf, StepsOf, Cells
  <2>5. \A c \in Cells \ {"workers"} : app[c] \in {<<>>, <<Foreign>>}
    BY <2>1 DEF NewApp
  <2>6. ~(Len(<<Foreign>>) > 1) /\ ~(Len(<<>>) > 1)
    BY Short
  <2>7. \A c \in Cells \ {"workers"} : ~(Len(app[c]) > 1)
    BY <2>5, <2>6, Zenon
  <2>8. AddedNow
    BY <2>3, <2>4 DEF AddedNow
  <2> QED
    BY <2>1, <2>7, <2>8, TypedInit, AdmittedInit DEF Created, SeenAbsent, DuplicatesAreExplained
<1>2. Created /\ [Next]_vars => Created'
  BY TypedStep, AdmittedStep, SeenAbsentStep, AddedNowStep, DuplicatesStep DEF Created
<1>3. Created => DuplicatesAreExplained
  BY DEF Created
<1> QED
  BY <1>1, <1>2, <1>3, PTL DEF Spec

-----------------------------------------------------------------------------
(* What a plan is missing, when no error was remembered.                   *)

LEMMA WholeStep ==
  ASSUME Typed, Typed', Whole, [Next]_vars
  PROVE  Whole'
<1>0. TypeOK /\ TypeOK' /\ ctl' = ctl /\ ctl \in DOMAIN Table
  BY Kinds, PassAssumption DEF Typed, TypeOK
<1> SUFFICES ASSUME pass'.plan # {}, ~pass'.errs, NEW j \in DOMAIN Program', j > Position',
                    Program'[j].sec \in Chosen', Program'[j].setup => Left("finish")'
             PROVE  j \in pass'.plan
  BY DEF Whole
<1>1. CASE Works
  <2>1. /\ Moves(pass') /\ Working /\ pass'.spec = pass.spec /\ Program' = Program
        /\ pass'.plan \subseteq pass.plan /\ Chosen' = Chosen
    BY <1>0, <1>1, WorkMoves, PlanShrinks, SameProgram DEF Typed, Moves, KeepsPass, Chosen
  <2>2. Position \in Nat /\ Position' \in Nat /\ Position <= Position' /\ j \in Nat
    BY <1>0, <2>1, PositionMoves, AtPosition, Bounds DEF ProgramBounds
  <2>3. ~Ends(pass') /\ ~GivesUp(pass')
    BY DEF Ends, GivesUp
  <2>4. pass'.errs = pass.errs
    BY <2>1, <2>3 DEF Moves, Advances, SkipsSetup, Stays
  <2>5. j > Position
    BY <2>2
  <2>6. Left("finish")' => Left("finish")
    BY <2>1 DEF Left
  <2>7. j \in pass.plan /\ j # Position
    BY <2>1, <2>2, <2>4, <2>5, <2>6 DEF Whole, Working
  <2>8. CASE Advances(pass') \/ Stays(pass')
    BY <2>7, <2>8 DEF Advances, Stays
  <2>9. CASE SkipsSetup(pass')
    <3>1. pass'.plan = pass.plan \ ({Position} \cup SetupSteps)
      BY <2>9 DEF SkipsSetup
    <3>2. ~Left("finish")'
      <4>1. ASSUME NEW k \in pass'.plan, Program[k].do = "finish" PROVE FALSE
        <5>1. k \in DOMAIN Program /\ k \in pass.plan
          BY <1>0, <2>1, <4>1 DEF TypeOK
        <5>2. Program[k].setup
          BY <1>0, <4>1, <5>1, Shape DEF SetupFirst
        <5> QED
          BY <3>1, <4>1, <5>1, <5>2 DEF SetupSteps
      <4> QED
        BY <2>1, <4>1 DEF Left
    <3> QED
      BY <2>1, <2>7, <3>1, <3>2 DEF SetupSteps
  <2> QED
    BY <2>1, <2>3, <2>8, <2>9 DEF Moves
<1>2. CASE Undisturbed(pass')
  <2>1. /\ Program' = Program /\ pass'.plan = pass.plan /\ pass'.spec = pass.spec
        /\ pass'.errs = pass.errs
    BY <1>0, <1>2, UndisturbedFacts
  <2> QED
    BY <2>1 DEF Whole, Chosen, Left, Position
<1>3. CASE Ended
  BY <1>0, <1>3, NoPassNow DEF Ended
<1>4. ASSUME NEW q \in {"queued", "timer"}, StartSync(q) PROVE j \in pass'.plan
  <2>1. pass'.plan = Relevant(Self.pass, cr) /\ pass'.spec.declared = cr.declared /\ ~pass'.cleanup
    BY <1>0, <1>4, SyncPass, SpecReadOfType
  <2>2. Program' = Self.pass
    BY <1>0, <2>1 DEF Program, Self
  <2> QED
    BY <2>1, <2>2 DEF Relevant, Chosen
<1>5. ASSUME NEW q \in {"queued", "timer"}, StartCleanup(q) PROVE j \in pass'.plan
  <2>1. /\ pass'.plan = Relevant(Self.cleanup, cr) /\ pass'.cleanup
        /\ pass'.spec.declared = cr.declared \cap {"tls"}
    BY <1>0, <1>5, CleanupPass
  <2>2. Program' = Self.cleanup
    BY <1>0, <2>1 DEF Program, Self
  <2> QED
    BY <2>1, <2>2 DEF Relevant, Chosen
<1> QED
  BY <1>0, <1>1, <1>2, <1>3, <1>4, <1>5, Kinds

(* The steps ahead of the setup end the pass when they fail.               *)
LEMMA AheadOfSetup ==
  ASSUME Typed, Working, NEW i \in pass.plan, Program[i].setup, GivesUp(pass')
  PROVE  Step.setup
<1>0. /\ TypeOK /\ ProgramBounds /\ Position \in DOMAIN Program /\ Position \in Nat
      /\ Step = Program[Position] /\ i \in DOMAIN Program /\ i \in Nat /\ Position <= i
  BY Bounds, AtPosition DEF Typed, Working, Step, TypeOK, ProgramBounds
<1>1. CASE i = Position
  BY <1>0, <1>1
<1>2. CASE Position < i /\ ~Step.setup
  <2>1. Step.do \in {"secret", "client", "probe", "session"}
    BY <1>0, <1>2, SetupIsSync, Shape DEF SetupFirst
  <2> QED
    BY <2>1 DEF GivesUp, FatalReason
<1> QED
  BY <1>0, <1>1, <1>2

-----------------------------------------------------------------------------
(* The setup is complete.                                                  *)

(* While the last step of the setup is left, no other step writes.         *)
LEMMA SetupAtWork ==
  ASSUME Typed, Working, Left("finish")
  PROVE  /\ ~pass.cleanup /\ (\E f \in pass.plan : Program[f].do = "finish" /\ Program[f].setup)
         /\ Step.setup \/ Step.do \in {"secret", "client", "probe", "session"}
<1>0. /\ TypeOK /\ ProgramBounds /\ Position \in DOMAIN Program /\ Position \in Nat
      /\ Step = Program[Position]
  BY Bounds, AtPosition DEF Typed, Working, Step, TypeOK, ProgramBounds
<1>1. PICK f \in pass.plan : Program[f].do = "finish"
  BY DEF Left
<1>2. f \in DOMAIN Program /\ f \in Nat /\ Position <= f
  BY <1>0, <1>1, AtPosition DEF TypeOK, ProgramBounds
<1>3. ~pass.cleanup /\ Program[f].setup
  BY <1>0, <1>1, <1>2, Shape DEF SetupFirst
<1>4. CASE Position < f
  BY <1>0, <1>1, <1>2, <1>3, <1>4, Shape DEF SetupFirst
<1>5. CASE Position = f
  BY <1>0, <1>1, <1>3, <1>5
<1> QED
  BY <1>0, <1>1, <1>2, <1>3, <1>4, <1>5

(* The setup is gated when one of its sections can fail.                   *)
LEMMA Gated ==
  ASSUME Typed, Working, Left("finish"), Step.setup, Step.sec # Always
  PROVE  \E g \in pass.plan : Program[g].do = "gate" /\ Program[g].sec = Always
<1>0. /\ TypeOK /\ ProgramBounds /\ Position \in DOMAIN Program /\ Position \in Nat /\ pass.on
      /\ Step = Program[Position]
  BY Bounds, AtPosition DEF Typed, Working, Step, TypeOK, ProgramBounds
<1>1. PICK f \in pass.plan : Program[f].do = "finish" /\ Program[f].setup
  BY SetupAtWork
<1>2. f \in DOMAIN Program /\ f \in Nat
  BY <1>0 DEF TypeOK, ProgramBounds
<1>3. Position < f - 1 /\ Program[f - 1].do = "gate"
  BY <1>0, <1>1, <1>2, SetupAtWork, Shape DEF SetupFirst
<1>4. f - 1 \in Position .. f /\ f - 1 \in DOMAIN Program
  BY <1>0, <1>2, <1>3 DEF ProgramBounds
<1>5. Program[f - 1].sec = Always
  BY <1>0, <1>3, <1>4, Shape DEF SharedSteps
<1>6. f - 1 \in pass.plan
  BY <1>0, <1>1, <1>4, <1>5 DEF Typed, InOrder, Serves
<1> QED
  BY <1>3, <1>5, <1>6

(* After an error the gate stays shut.                                     *)
LEMMA GateShut ==
  ASSUME Typed, Works, ~Ends(pass'), pass.errs, Left("gate"), ~Left("probe")
  PROVE  Left("gate")'
<1>0. TypeOK /\ ctl' = ctl /\ Program' = Program /\ Moves(pass') /\ Working
  BY WorkMoves, SameProgram DEF Typed, Moves, KeepsPass
<1>1. PICK g \in pass.plan : Program[g].do = "gate"
  BY DEF Left
<1>2. Program[g].sec = Always /\ g \in DOMAIN Program
  BY <1>0, <1>1, Shape DEF SharedSteps, TypeOK
<1>3. CASE g \in pass'.plan
  BY <1>0, <1>1, <1>3 DEF Left
<1>4. CASE g \notin pass'.plan
  <2>1. ~GivesUp(pass')
    BY <1>1, <1>2, <1>4 DEF GivesUp, SectionSteps, Step
  <2>2. ~SkipsSetup(pass')
    <3>1. SkipsSetup(pass') => Step.do = "probe" /\ Position \in pass.plan /\ Step = Program[Position]
      BY <1>0, AtPosition DEF SkipsSetup, Step
    <3> QED
      BY <3>1 DEF Left
  <2>3. g = Position /\ Step = Program[g]
    BY <1>0, <1>1, <1>4, <2>1, <2>2 DEF Moves, Advances, Stays, Step
  <2>4. Gate
    BY <1>1, <2>3 DEF Works, ResolveSecret, BuildClient, NoSession, Skip, Compare, Request,
       UpdatesNothing, RequestFails, AnswerLost, Sends, Writing, Creating
  <2>5. pass' = Stop("SyncFailed") /\ "SyncFailed" \in Endings
    BY <1>1, <2>3, <2>4 DEF Gate, Endings, Reasons
  <2> QED
    BY <1>0, <2>5, StopMoves
<1> QED
  BY <1>3, <1>4

(* A request of the setup leaves what it was sent.                         *)
LEMMA SetupWrites ==
  ASSUME Typed, Sends, Effect, ~Observing, Step.do \in {"write", "add"}
  PROVE  \E k \in DOMAIN app'[Cell] : app'[Cell][k][1] = pass.spec.rev
<1>0. TypeOK /\ Working /\ Step.do \in Writing /\ app \in [Cells -> Seq(Value)]
  BY DEF Typed, Sends, Writing, Creating, TypeOK
<1>1. Cell \in Cells /\ app' = [app EXCEPT ![Cell] = Written] /\ Want \in Value
  BY <1>0, WantOfType DEF Effect
<1>2. app'[Cell] = Written
  BY <1>0, <1>1
<1>3. Want[1] = pass.spec.rev
  BY DEF Want
<1>4. CASE Step.do = "write"
  <2>1. Written = <<Want>>
    BY <1>4 DEF Written
  <2>2. 1 \in DOMAIN <<Want>> /\ <<Want>>[1] = Want
    OBVIOUS
  <2> QED
    BY <1>2, <1>3, <2>1, <2>2
<1>5. CASE Step.do = "add"
  <2>1. Written = OneMore
    BY <1>5 DEF Written
  <2>2. /\ OneMore \in Seq(Value) /\ Len(OneMore) > 0 /\ OneMore[Len(OneMore)] = Want
    BY <1>0, OneMoreOfType
  <2>3. Len(OneMore) \in DOMAIN OneMore
    BY <2>2
  <2> QED
    BY <1>2, <1>3, <2>1, <2>2, <2>3
<1> QED
  BY <1>4, <1>5

(* The setup writes nothing twice but for requests in two parts.           *)
LEMMA SetupOnce ==
  ASSUME Typed, Whole, Working, Left("finish"), ~pass.errs, Step.do \in Writing,
         NEW j \in DOMAIN Program \ pass.plan, Program[j].setup, Program[j].do \in {"write", "add"},
         Program[j].sec \in Chosen, Program[j].cell = Cell
  PROVE  FALSE
<1>0. /\ TypeOK /\ ProgramBounds /\ Position \in DOMAIN Program /\ Position \in Nat
      /\ Step = Program[Position] /\ Cell = Program[Position].cell /\ Position \in pass.plan
  BY Bounds, AtPosition DEF Typed, Working, Step, Cell, TypeOK, ProgramBounds
<1>1. ~pass.cleanup /\ Step.setup
  BY SetupAtWork DEF Writing, Creating
<1>2. j \in Nat /\ j # Position
  BY <1>0 DEF ProgramBounds
<1>3. Position <= j
  BY <1>0, <1>1, Shape DEF WrittenOnce, Writing, Creating
<1>4. ~(j > Position)
  BY <1>0 DEF Whole, Working
<1> QED
  BY <1>0, <1>2, <1>3, <1>4

LEMMA SetupWrittenStep ==
  ASSUME Typed, Typed', Admitted, Whole, SetupWritten, [Next]_vars
  PROVE  SetupWritten'
<1>0. /\ TypeOK /\ TypeOK' /\ ctl' = ctl /\ Cells' = Cells /\ app \in [Cells -> Seq(Value)]
      /\ setUp \in BOOLEAN
  BY Kinds, Fixed DEF Typed, TypeOK
<1> SUFFICES ASSUME Left("finish")'
             PROVE  /\ pass'.errs => Left("gate")' /\ ~Left("probe")'
                    /\ ~Left("probe")' /\ ~pass'.errs =>
                         \A j \in DOMAIN Program' \ pass'.plan :
                           LET c == Program'[j].cell IN
                           Program'[j].setup /\ Program'[j].do \in {"write", "add"}
                             /\ Program'[j].sec \in Chosen' /\ c \notin pass'.touched =>
                               \E k \in DOMAIN app'[c] : app'[c][k][1] = pass'.spec.rev
  BY DEF SetupWritten
<1>1. CASE Works
  <2>1. /\ Moves(pass') /\ Working /\ pass'.spec = pass.spec /\ Program' = Program
        /\ pass'.plan \subseteq pass.plan /\ Chosen' = Chosen /\ pass'.touched = pass.touched
    BY <1>0, <1>1, WorkMoves, PlanShrinks, SameProgram DEF Typed, Moves, KeepsPass, Chosen
  <2>2. Left("finish") /\ ~Ends(pass') /\ pass'.plan # {}
    BY <2>1 DEF Left, Ends
  <2>3. /\ ProgramBounds /\ Position \in DOMAIN Program /\ Position \in Nat
        /\ Step = Program[Position] /\ Cell = Program[Position].cell /\ Position \in pass.plan
    BY <1>0, <2>1, Bounds, AtPosition DEF Step, Cell, ProgramBounds
  <2>4. ~pass.cleanup
    BY <2>1, <2>2, SetupAtWork
  <2>5. PICK f \in pass.plan : Program[f].do = "finish" /\ Program[f].setup
    BY <2>1, <2>2, SetupAtWork
  <2>6. pass'.errs => pass.errs \/ GivesUp(pass')
    BY <2>1, <2>2 DEF Moves, Advances, SkipsSetup, Stays
  <2>7. ASSUME pass'.errs PROVE Left("gate")' /\ ~Left("probe")'
    <3>1. CASE pass.errs
      BY <1>1, <2>1, <2>2, <3>1, GateShut DEF SetupWritten, Left
    <3>2. CASE GivesUp(pass')
      <4>1. Step.setup
        BY <2>1, <2>5, <3>2, AheadOfSetup
      <4>2. ~Left("probe")
        BY <1>0, <2>1, <4>1, ProbeFirst
      <4>3. Step.sec # Always
        BY <3>2 DEF GivesUp
      <4>4. PICK g \in pass.plan : Program[g].do = "gate" /\ Program[g].sec = Always
        BY <2>1, <2>2, <4>1, <4>3, Gated
      <4>5. g \in pass'.plan
        BY <2>3, <3>2, <4>3, <4>4 DEF GivesUp, SectionSteps
      <4> QED
        BY <2>1, <4>2, <4>4, <4>5 DEF Left
    <3> QED
      BY <2>6, <2>7, <3>1, <3>2
  <2>8. ASSUME ~Left("probe")', ~pass'.errs, NEW j \in DOMAIN Program \ pass'.plan, Program[j].setup,
               Program[j].do \in {"write", "add"}, Program[j].sec \in Chosen,
               Program[j].cell \notin pass.touched
        PROVE  \E k \in DOMAIN app'[Program[j].cell] : app'[Program[j].cell][k][1] = pass.spec.rev
    <3> DEFINE c == Program[j].cell
    <3>1. ~GivesUp(pass')
      BY <2>8 DEF GivesUp
    <3>2. ~pass.errs
      BY <2>1, <2>2, <2>8, <3>1 DEF Moves, Advances, SkipsSetup, Stays
    <3>3. CASE Left("probe")
      <4>1. /\ Step.do = "probe"
            /\ pass'.plan = pass.plan \ ({Position} \cup (IF setUp THEN SetupSteps ELSE {}))
        BY <1>1, <2>2, <2>8, <3>3, Probed
      <4>2. ~setUp
        <5>1. f \in SetupSteps
          BY <2>5 DEF SetupSteps
        <5>2. ASSUME NEW g \in pass'.plan, Program[g].do = "finish" PROVE g \in SetupSteps
          <6>1. g \in DOMAIN Program /\ g \in pass.plan
            BY <1>0, <2>1, <5>2 DEF TypeOK
          <6> QED
            BY <1>0, <2>4, <5>2, <6>1, Shape DEF SetupFirst, SetupSteps
        <5> QED
          BY <2>1, <4>1, <5>2 DEF Left
      <4>3. Position < j
        BY <1>0, <2>3, <2>8, <4>1, SetupIsSync, Shape DEF SetupFirst
      <4>4. j \in Nat
        BY <2>3 DEF ProgramBounds
      <4>5. j \in pass.plan /\ j # Position
        BY <2>1, <2>2, <2>3, <2>8, <3>2, <4>3, <4>4 DEF Whole, Working
      <4> QED
        BY <2>8, <4>1, <4>2, <4>5
    <3>4. CASE ~Left("probe") /\ j \notin pass.plan
      <4>1. \E k \in DOMAIN app[c] : app[c][k][1] = pass.spec.rev
        BY <2>2, <2>8, <3>2, <3>4 DEF SetupWritten
      <4>2. app'[c] = app[c]
        <5>1. CASE app' = app
          BY <5>1
        <5>2. CASE app' # app
          <6>1. app' = [app EXCEPT ![Cell] = Written] /\ Step.do \in Writing
            BY <1>1, <5>2, AppOfWork
          <6>2. c # Cell
            BY <2>1, <2>2, <2>8, <3>2, <3>4, <6>1, SetupOnce
          <6>3. c \in Cells
            BY <1>0, <2>8, WritesCells DEF Writing, Creating
          <6> QED
            BY <1>0, <6>1, <6>2, <6>3
        <5> QED
          BY <5>1, <5>2
      <4> QED
        BY <4>1, <4>2
    <3>5. CASE ~Left("probe") /\ j \in pass.plan
      <4>1. Advances(pass')
        <5>1. ~SkipsSetup(pass')
          BY <2>3, <3>5 DEF SkipsSetup, Left
        <5> QED
          BY <2>1, <2>2, <2>8, <3>1, <3>5, <5>1 DEF Moves, Stays
      <4>2. j = Position /\ Step.do \in {"write", "add"} /\ c = Cell
        BY <2>3, <2>8, <3>5, <4>1 DEF Advances
      <4>3. ~Observing
        BY <2>8, <3>5 DEF Admitted, SetupSteps
      <4>4. Sends /\ Effect
        <5>1. ~ResolveSecret /\ ~BuildClient /\ ~NoSession /\ ~Gate
          BY <4>2 DEF ResolveSecret, BuildClient, NoSession, Gate
        <5>2. ~Skip /\ ~Compare
          BY <4>2, <4>3 DEF Skip, Compare, InPlace
        <5> QED
          BY <1>1, <2>2, <3>1, <4>2, <5>1, <5>2, WorkMoves DEF Typed
      <4> QED
        BY <4>2, <4>3, <4>4, SetupWrites
    <3> QED
      BY <3>3, <3>4, <3>5
  <2> QED
    BY <2>1, <2>7, <2>8
<1>2. CASE Undisturbed(pass') /\ ~Works
  <2>1. /\ Program' = Program /\ pass'.plan = pass.plan /\ pass'.spec = pass.spec /\ pass'.on = pass.on
        /\ pass'.errs = pass.errs /\ pass.touched \subseteq pass'.touched /\ Chosen' = Chosen
    BY <1>0, <1>2, UndisturbedFacts DEF Chosen
  <2>2. \A do : Left(do)' = Left(do)
    BY <2>1 DEF Left
  <2>3. pass.on
    BY <2>1 DEF Admitted, Left
  <2>4. ASSUME NEW c \in Cells \ pass'.touched PROVE app'[c] = app[c]
    <3>1. CASE Rebuild
      BY <1>0, <2>3, <2>4, <3>1, UndisturbedTouch DEF Rebuild
    <3>2. ASSUME NEW d \in Cells, HandChange(d) PROVE app'[c] = app[c]
      <4>1. d \in pass'.touched
        BY <1>0, <2>3, <3>2, UndisturbedTouch DEF HandChange
      <4> QED
        BY <1>0, <2>4, <3>2, <4>1 DEF HandChange
    <3> QED
      BY <1>0, <1>2, <3>1, <3>2, AppOfOthers DEF Handled
  <2>5. ASSUME NEW j \in DOMAIN Program, Program[j].do \in {"write", "add"}
        PROVE  Program[j].cell \in Cells
    BY <1>0, <2>5, WritesCells DEF Writing, Creating
  <2> QED
    BY <2>1, <2>2, <2>4, <2>5 DEF SetupWritten
<1>3. CASE Ended
  BY <1>0, <1>3, NoPassNow DEF Ended, Left
<1>4. ASSUME NEW q \in {"queued", "timer"}, StartSync(q) \/ StartCleanup(q)
      PROVE  Left("probe")' /\ ~pass'.errs
  <2>1. PICK f \in pass'.plan : Program'[f].do = "finish"
    BY DEF Left
  <2>2. Program'[f].setup
    <3>1. f \in DOMAIN Program'
      BY <1>0, <2>1 DEF TypeOK
    <3>2. CASE StartSync(q)
      <4>1. ~pass'.cleanup
        BY <1>0, <3>2, SyncPass
      <4>2. Program' = Table[ctl].pass /\ SetupFirst(Table[ctl].pass)
        BY <1>0, <4>1, PassAssumption, TableAssumption DEF Program, Self, TypeOK
      <4> QED
        BY <2>1, <3>1, <4>2 DEF SetupFirst
    <3>3. CASE StartCleanup(q)
      <4>1. pass'.cleanup
        BY <1>0, <3>3, CleanupPass
      <4>2. Program' = Table[ctl].cleanup /\ ctl \in DOMAIN Table
        BY <1>0, <4>1, PassAssumption DEF Program, Self, TypeOK
      <4> QED
        BY <2>1, <3>1, <4>2, TableAssumption
    <3> QED
      BY <1>4, <3>2, <3>3
  <2> QED
    BY <1>0, <1>4, <2>1, <2>2, ProbeAtStart, SyncPass, CleanupPass
<1> QED
  BY <1>0, <1>1, <1>2, <1>3, <1>4, Kinds

(* Who writes a cell writes it for the same section, or for all of them.   *)
LEMMA SectionOfCell ==
  ASSUME TypeOK, NEW s \in Steps, NEW t \in Steps, s.do \in Writing, t.do \in Writing, s.cell = t.cell,
         s.do # "close", t.do # "close"
  PROVE  s.sec = t.sec
<1>1. ctl \in DOMAIN Table /\ WrittenOnce(Table[ctl].pass) /\ Divided(Table[ctl].pass)
  BY PassAssumption, TableAssumption DEF TypeOK
<1>2. PICK i, j \in DOMAIN Table[ctl].pass : s = Table[ctl].pass[i] /\ t = Table[ctl].pass[j]
  BY <1>1 DEF Steps, StepsOf, Range
<1>3. s.sec # Always /\ t.sec # Always
  BY <1>1, <1>2 DEF Divided
<1> QED
  BY <1>1, <1>2, <1>3 DEF WrittenOnce

LEMMA NeverAlways == ASSUME TypeOK PROVE Always \notin pass.spec.declared
<1>1. /\ ctl \in DOMAIN Table
      /\ pass.spec.declared \subseteq Table[ctl].sections \cup {"tls", "unknownFields"}
  BY PassAssumption DEF TypeOK, PassType, SpecType, Declarable, Self
<1>2. Always \notin Table[ctl].sections /\ Always \notin {"tls", "unknownFields"}
  BY <1>1, TableAssumption DEF Always
<1> QED
  BY <1>1, <1>2

Complete == Typed /\ Admitted /\ Whole /\ SetupWritten

(* The application is only declared to be set up with everything written   *)
(* that the spec declares for it, whichever sections fail on the way and   *)
(* however the passes before ended.                                        *)
THEOREM SetupCompletes == Spec => SetupIsComplete
<1> DEFINE A == ~setUp /\ setUp'
           B == \A c \in (SetupCellsOf[ctl] \cap DeclaredCells(pass.spec)) \ pass.touched :
                  \E i \in DOMAIN app[c] : app[c][i][1] = pass.spec.rev
<1>1. Init => Complete
  <2> SUFFICES ASSUME Init PROVE Complete
    OBVIOUS
  <2>1. pass.plan = {}
    BY NoPassOfType DEF Init
  <2> QED
    BY <2>1, TypedInit, AdmittedInit DEF Complete, Whole, SetupWritten, Left
<1>2. Complete /\ [Next]_vars => Complete'
  BY TypedStep, AdmittedStep, WholeStep, SetupWrittenStep DEF Complete
<1>3. ASSUME Complete, [Next]_vars, A,
             NEW c \in (SetupCellsOf[ctl] \cap DeclaredCells(pass.spec)) \ pass.touched
      PROVE  \E i \in DOMAIN app[c] : app[c][i][1] = pass.spec.rev
  <2>0. Typed /\ TypeOK /\ ctl' = ctl /\ Steps' = Steps /\ ctl \in DOMAIN Table
    BY <1>3, Kinds, Fixed, PassAssumption DEF Complete, Typed, TypeOK
  <2>1. Works
    <3>1. CASE Rebuild
      BY <1>3, <2>0, <3>1 DEF Rebuild, Complete, Admitted
    <3>2. ASSUME NEW d \in Cells, HandChange(d) PROVE FALSE
      BY <1>3, <3>2 DEF HandChange
    <3> QED
      BY <1>3, <2>0, <3>1, <3>2, AppOfOthers DEF Handled
  <2>2. Working /\ Sends /\ Step.do = "finish"
    BY <1>3, <2>0, <2>1, WorkMoves DEF Typed, Effect, Local
  <2>3. /\ Position \in pass.plan /\ Position \in DOMAIN Program /\ Step = Program[Position]
        /\ Step.setup /\ \A i \in pass.plan : Program[i].setup => i = Position
    BY <2>0, <2>2, AtPosition, FinishLast DEF Step
  <2>4. Left("finish") /\ ~Left("probe") /\ ~Left("gate")
    <3>1. ASSUME NEW i \in pass.plan, Program[i].do = "gate" PROVE FALSE
      <4>1. i \in DOMAIN Program /\ ~pass.cleanup
        BY <2>0, <2>2, <2>3, Shape DEF TypeOK
      <4>2. Program[i].setup
        BY <2>0, <3>1, <4>1, Shape DEF SetupFirst
      <4> QED
        BY <2>2, <2>3, <3>1, <4>2
    <3> QED
      BY <2>0, <2>2, <2>3, <3>1, ProbeFirst DEF Left
  <2>5. ~pass.errs
    BY <1>3, <2>4 DEF Complete, SetupWritten
  <2>6. ~pass.cleanup /\ Program = Table[ctl].pass
    BY <2>0, <2>3, SetupIsSync
  <2>7. PICK j \in DOMAIN Program :
          Program[j].setup /\ Program[j].do \in {"write", "add"} /\ Program[j].cell = c
    <3>1. PICK u \in StepsOf[ctl] : u.setup /\ u.do \in Writing /\ u.cell = c
      BY <1>3, <2>0 DEF SetupCellsOf
    <3>2. PICK i \in DOMAIN Program : u = Program[i]
      BY <2>0, <2>6, <3>1 DEF StepsOf, Range
    <3>3. u.do \in {"part", "write", "add"}
      BY <2>0, <2>6, <3>1, <3>2, Shape DEF SetupFirst
    <3>4. CASE u.do = "part"
      <4>1. PICK j \in DOMAIN Program :
              Program[j].do \in {"write", "open"} /\ Program[j].setup /\ Program[j].cell = c
        BY <2>0, <2>6, <3>1, <3>2, <3>4, Shape DEF Divided
      <4>2. Program[j].do # "open"
        BY <2>0, <2>6, <4>1, Shape DEF SetupFirst, Writing, Creating
      <4> QED
        BY <4>1, <4>2
    <3> QED
      BY <3>1, <3>2, <3>3, <3>4
  <2>8. Program[j].sec \in Chosen
    <3>1. PICK t \in Steps : t.sec \in pass.spec.declared /\ t.do \in Writing /\ t.cell = c
      BY <1>3 DEF DeclaredCells
    <3>2. Program[j] \in Steps
      BY <2>0, <2>7, SetupIsSync
    <3>3. Always \notin pass.spec.declared
      BY <2>0, NeverAlways
    <3>4. t.do # "close"
      <4>1. PICK i \in DOMAIN Program : t = Program[i]
        BY <2>0, <2>6, <3>1 DEF Steps, StepsOf, Range
      <4> QED
        BY <2>0, <3>1, <3>3, <4>1, Shape DEF SharedSteps
    <3>5. Program[j].sec = t.sec
      BY <2>0, <2>7, <3>1, <3>2, <3>4, SectionOfCell DEF Writing, Creating
    <3> QED
      BY <3>1, <3>5 DEF Chosen
  <2>9. j \notin pass.plan
    BY <2>2, <2>3, <2>7
  <2> QED
    BY <1>3, <2>4, <2>5, <2>7, <2>8, <2>9 DEF Complete, SetupWritten
<1>4. Complete /\ [Next]_vars => [A => B]_vars
  BY <1>3
<1> QED
  BY <1>1, <1>2, <1>4, PTL DEF Spec, SetupIsComplete

-----------------------------------------------------------------------------
(* What Synced=True says.                                                  *)

LEMMA NothingAhead == ASSUME TypeOK, Working PROVE ~ReadAhead(Position)
<1>1. \A j \in pass.plan : j \in Nat /\ Position \in Nat /\ Position <= j
  BY AtPosition DEF TypeOK, PassType
<1> QED
  BY <1>1 DEF ReadAhead

LEMMA ComparedAreWriting ==
  /\ DOMAIN Source \subseteq Writing \cap Final /\ Final \ {"write"} \subseteq DOMAIN Source
  /\ Final \subseteq Writing
  BY DEF Source, Writing, Creating, Final

(* A hand or a rebuild touches what it changes.                            *)
LEMMA UntouchedSame ==
  ASSUME TypeOK, [Next]_vars, ~Works, pass.on, pass'.on, NEW c \in Cells \ pass'.touched,
         Undisturbed(pass')
  PROVE  app'[c] = app[c]
<1>1. CASE Rebuild
  BY <1>1, UndisturbedTouch DEF Rebuild
<1>2. ASSUME NEW d \in Cells, HandChange(d) PROVE app'[c] = app[c]
  <2>1. pass'.touched = pass.touched \cup {d}
    BY <1>2, UndisturbedTouch DEF HandChange
  <2> QED
    BY <1>2, <2>1 DEF HandChange, TypeOK
<1> QED
  BY <1>1, <1>2, AppOfOthers DEF Handled

(* A worker limit is known as it is, also after it was changed.            *)
LEMMA NudgedAlike ==
  ASSUME Typed, Sends, Effect, Learns(pass'), Step.do = "nudge", app[Cell] = Seen
  PROVE  app'[Cell] = pass'.seen[Cell]
<1> DEFINE l == Seen[pass.node][1] + Toward(Seen[pass.node][1], pass.spec.rev)
<1>0. TypeOK /\ Counted /\ Limits /\ Working /\ ~Observing /\ Step.do \in Writing
  BY DEF Typed, Sends, Writing
<1>1. /\ Cell \in Cells /\ Seen[pass.node][1] \in Nat /\ pass.spec.rev \in Nat \ {0}
      /\ app \in [Cells -> Seq(Value)] /\ pass.seen \in [Cells -> Seq(Value)]
  BY <1>0, AtNudge, WantOfType DEF TypeOK, PassType
<1>2. l \in Nat
  BY <1>1, TowardOfType
<1>3. pass'.seen[Cell] = [Seen EXCEPT ![pass.node][1] = l]
  BY <1>1 DEF Learns, Seen
<1>4. Written = [Seen EXCEPT ![pass.node][1] = IF l < 0 THEN 0 ELSE l]
  BY DEF Written
<1>5. (IF l < 0 THEN 0 ELSE l) = l
  BY <1>2
<1>6. app'[Cell] = Written
  BY <1>0, <1>1 DEF Effect
<1> HIDE DEF l
<1> QED
  BY <1>3, <1>4, <1>5, <1>6

LEMMA FreshStep ==
  ASSUME Typed, Typed', Admitted, SeenIsFresh, [Next]_vars
  PROVE  SeenIsFresh'
<1>0. TypeOK /\ TypeOK' /\ ctl' = ctl /\ Cells' = Cells
  BY Kinds, Fixed DEF Typed
<1> SUFFICES ASSUME NEW i \in pass'.plan, Program'[i].do \in DOMAIN Source,
                    ~ReadAhead(i)', Program'[i].cell \notin pass'.touched
             PROVE  app'[Program'[i].cell] = pass'.seen[Program'[i].cell]
  BY DEF SeenIsFresh
<1>1. CASE Works
  <2>1. /\ Moves(pass') /\ Working /\ Program' = Program /\ pass'.plan \subseteq pass.plan
        /\ i \in pass.plan /\ i \in DOMAIN Program /\ pass'.touched = pass.touched
    BY <1>0, <1>1, WorkMoves, PlanShrinks, SameProgram DEF Typed, Moves, KeepsPass, TypeOK
  <2> DEFINE c == Program[i].cell
  <2>2. Program[i].do \in Writing /\ Program[i].do \in Final
    BY <2>1, ComparedAreWriting
  <2>3. ~pass.cleanup
    BY <1>0, <2>1, Shape DEF Source
  <2>4. c \in Cells /\ ~Program[i].setup /\ Program[i].do # "write"
    BY <1>0, <2>1, <2>2, <2>3, WritesCells, Shape DEF SetupFirst, Source
  <2>5. CASE ReadAhead(i)
    <3>1. app' = app /\ pass'.seen = Lists /\ (Step.do = "list" \/ Step.sec = Program[i].sec)
      BY <1>1, <2>1, <2>5, ReadNow DEF Typed
    <3>2. Lists[c] = app[c]
      BY <1>0, <2>1, <2>3, <2>4, <3>1, ListsOwn
    <3> QED
      BY <2>1, <3>1, <3>2
  <2>6. CASE ~ReadAhead(i)
    <3>1. app[c] = pass.seen[c]
      BY <2>1, <2>6 DEF SeenIsFresh
    <3>2. CASE i = Position
      <4>1. Stays(pass')
        BY <2>1, <3>2 DEF Moves, Ends, Advances, GivesUp, SkipsSetup
      <4>2. Step = Program[i] /\ Cell = c /\ Step.do = "nudge" /\ ~Ends(pass') /\ ~GivesUp(pass')
        BY <3>2, <4>1 DEF Stays, Step, Cell, Ends, GivesUp
      <4>3. CASE Local(pass')
        BY <4>2, <4>3, <2>1, <3>2 DEF Local, Advances
      <4>4. CASE Sends /\ Effect /\ Learns(pass')
        BY <2>1, <3>1, <4>2, <4>4, NudgedAlike DEF Seen
      <4> QED
        BY <1>1, <4>2, <4>3, <4>4, WorkMoves DEF Typed
    <3>3. CASE i # Position
      <4>1. ASSUME Working, Step.do \in Writing PROVE Cell # c
        <5>1. Step.setup => ReadAhead(i)
          BY <2>1, <2>4, <4>1, SetupBeforeReads
        <5> QED
          BY <2>2, <2>3, <2>4, <2>6, <3>3, <4>1, <5>1, <2>1, WriterIsSetup
      <4>2. app'[c] = app[c]
        <5>1. CASE app' # app
          <6>1. /\ Step.do \in Writing /\ app' = [app EXCEPT ![Cell] = Written]
                /\ app \in [Cells -> Seq(Value)]
            BY <1>0, <1>1, <5>1, AppOfWork DEF TypeOK
          <6> QED
            BY <2>1, <2>4, <4>1, <6>1
        <5> QED
          BY <5>1
      <4>3. pass'.seen[c] \in {pass.seen[c], app[c]}
        <5>1. CASE pass'.seen = pass.seen
          BY <5>1
        <5>2. CASE pass'.seen = Lists
          BY <2>4, <5>2 DEF Lists
        <5>3. CASE Sends /\ Step.do = "nudge" /\ Learns(pass')
          <6>1. Cell # c /\ pass.seen \in [Cells -> Seq(Value)]
            BY <1>0, <2>1, <4>1, <5>3 DEF Writing, TypeOK, PassType
          <6> QED
            BY <2>4, <5>3, <6>1 DEF Learns
        <5> QED
          BY <1>1, <5>1, <5>2, <5>3, WorkMoves DEF Typed, Learns, KeepsKnowledge, Local
      <4> QED
        BY <2>1, <3>1, <4>2, <4>3
    <3> QED
      BY <3>2, <3>3
  <2> QED
    BY <2>5, <2>6
<1>2. CASE Undisturbed(pass') /\ ~Works
  <2>1. /\ Program' = Program /\ pass'.plan = pass.plan /\ pass'.seen = pass.seen
        /\ pass'.on = pass.on /\ pass.touched \subseteq pass'.touched
    BY <1>0, <1>2, UndisturbedFacts
  <2> DEFINE c == Program[i].cell
  <2>2. app[c] = pass.seen[c] /\ pass.on
    BY <2>1 DEF SeenIsFresh, ReadAhead, Admitted
  <2>3. c \in Cells
    BY <1>0, <2>1, ComparedAreWriting, WritesCells DEF TypeOK
  <2> QED
    BY <1>0, <1>2, <2>1, <2>2, <2>3, UntouchedSame
<1>3. CASE Ended
  BY <1>0, <1>3, NoPassNow DEF Ended
<1>4. ASSUME NEW q \in {"queued", "timer"}, StartSync(q) \/ StartCleanup(q) PROVE FALSE
  BY <1>0, <1>4, ReadFromStart
<1> QED
  BY <1>0, <1>1, <1>2, <1>3, <1>4, Kinds

(* A step leaves a pass that is clean afterwards by being done.            *)
LEMMA CleanBefore ==
  ASSUME Typed, Works, Clean'
  PROVE  /\ Clean /\ ~Ends(pass') /\ ~GivesUp(pass') /\ (pass.drift => pass'.drift)
         /\ \A j \in pass.plan : j \notin pass'.plan /\ ~Program[j].setup =>
              j = Position /\ Step = Program[j] /\ (Advances(pass') \/ SkipsSetup(pass'))
<1>1. /\ Moves(pass') /\ Working /\ pass'.on = pass.on /\ pass'.cleanup = pass.cleanup
  BY WorkMoves DEF Typed, Moves, KeepsPass
<1>2. ~GivesUp(pass')
  BY DEF GivesUp, Clean
<1>3. ~Ends(pass')
  BY DEF Ends, Clean, Endings, Reasons
<1>4. pass'.out = pass.out /\ pass'.errs = pass.errs
  BY <1>1, <1>2, <1>3 DEF Moves, Advances, SkipsSetup, Stays
<1>5. pass.drift => pass'.drift
  BY WorkMoves DEF Typed, Learns, KeepsKnowledge, Local
<1>6. ASSUME NEW j \in pass.plan, j \notin pass'.plan, ~Program[j].setup
      PROVE  j = Position /\ Step = Program[j] /\ (Advances(pass') \/ SkipsSetup(pass'))
  BY <1>1, <1>2, <1>3, <1>6 DEF Moves, Advances, SkipsSetup, SetupSteps, Stays, Step
<1> QED
  BY <1>1, <1>2, <1>3, <1>4, <1>5, <1>6 DEF Clean

(* At the end of a pass that is on its way only the pass can be clean.     *)
LEMMA CleanOtherwise ==
  ASSUME TypeOK, [Next]_vars, ~Works, Clean'
  PROVE  \/ Clean /\ Undisturbed(pass')
         \/ /\ pass'.plan = Relevant(Program', pass'.spec) /\ pass'.plan # {}
            /\ ~pass'.drift /\ pass'.plan \subseteq DOMAIN Program'
<1>0. ctl' = ctl
  BY Kinds
<1>1. CASE Undisturbed(pass')
  BY <1>0, <1>1, UndisturbedFacts DEF Clean
<1>2. CASE Ended
  BY <1>0, <1>2, NoPassNow DEF Ended, Clean
<1>3. ASSUME NEW q \in {"queued", "timer"}, StartCleanup(q) PROVE FALSE
  BY <1>3, CleanupPass DEF Clean
<1>4. ASSUME NEW q \in {"queued", "timer"}, StartSync(q)
      PROVE  /\ pass'.plan = Relevant(Program', pass'.spec) /\ pass'.plan # {}
             /\ ~pass'.drift /\ pass'.plan \subseteq DOMAIN Program'
  <2>1. pass'.plan = Relevant(Self.pass, cr) /\ ~pass'.cleanup /\ ~pass'.drift
        /\ pass'.spec.declared = cr.declared
    BY <1>4, SyncPass, SpecReadOfType DEF Clean
  <2>2. Program' = Self.pass /\ Self.pass = Table[ctl].pass /\ ctl \in DOMAIN Table
    BY <1>0, <2>1, PassAssumption DEF Program, Self, TypeOK
  <2>3. PICK i \in DOMAIN Table[ctl].pass : Table[ctl].pass[i].do = "client"
    BY <2>2, TableAssumption
  <2>4. Table[ctl].pass[i].sec = Always
    BY <2>2, <2>3, TableAssumption DEF SharedSteps
  <2> QED
    BY <2>1, <2>2, <2>3, <2>4 DEF Relevant
<1> QED
  BY <1>1, <1>2, <1>3, <1>4, Kinds

LEMMA SecretsGotStep ==
  ASSUME Typed, Typed', SecretsGot, [Next]_vars
  PROVE  SecretsGot'
<1>0. TypeOK /\ ctl' = ctl /\ Cells' = Cells /\ InOrder /\ Counted
  BY Kinds, Fixed DEF Typed
<1> SUFFICES ASSUME Clean', NEW j \in DOMAIN Program' \ pass'.plan,
                    Program'[j].do \in {"secret", "needs"}, ~Program'[j].setup,
                    Program'[j].sec \in Chosen' \cap Cells, Resolved(Program'[j].sec)
             PROVE  pass'.got[Program'[j].sec] # 0
  BY <1>0 DEF SecretsGot, Resolved, Self
<1>1. CASE Works
  <2>1. /\ Moves(pass') /\ Working /\ pass'.spec = pass.spec /\ Program' = Program /\ Chosen' = Chosen
    BY <1>0, <1>1, WorkMoves, SameProgram DEF Typed, Moves, KeepsPass, Chosen
  <2> DEFINE c == Program[j].sec
  <2>2. Clean /\ ~Ends(pass') /\ ~GivesUp(pass')
    BY <1>1, CleanBefore
  <2>3. \/ pass'.got = pass.got
        \/ pass'.got = [d \in Cells |-> IF d = Cell THEN secret[d] ELSE pass.got[d]]
           /\ Resolved(Step.sec) /\ ResolveSecret
    <3>1. CASE ResolveSecret
      <4> DEFINE a == Advance
                 got == [d \in Cells |-> IF d = Cell THEN secret[d] ELSE a.got[d]]
      <4>1. pass' \in {a, Stop("SecretNotFound"), GiveUpSection}
            \/ (Resolved(Step.sec) /\
                pass' = [a EXCEPT !.got = got])
        BY <3>1 DEF ResolveSecret
      <4>2. a \in PassType /\ a.got = pass.got
        BY <1>0, AdvanceMoves DEF KeepsKnowledge
      <4>3. Stop("SecretNotFound").got = pass.got /\ GiveUpSection.got = pass.got
        BY <1>0 DEF TypeOK, PassType, Stop, GiveUpSection, Without
      <4>4. got = [d \in Cells |-> IF d = Cell THEN secret[d] ELSE pass.got[d]]
        BY <4>2
      <4> HIDE DEF a, got
      <4>5. CASE pass' = [a EXCEPT !.got = got] /\ Resolved(Step.sec)
        <5>1. pass'.got = got
          BY <4>2, <4>5 DEF PassType
        <5> QED
          BY <3>1, <4>4, <4>5, <5>1
      <4> QED
        BY <4>1, <4>2, <4>3, <4>5
    <3>2. CASE ~ResolveSecret
      BY <1>1, <3>2, WorkMoves DEF Typed, Learns, KeepsKnowledge, Local, BuildClient, NoSession, Gate,
         Skip, Compare, Writing, Creating
    <3> QED
      BY <3>1, <3>2
  <2>4. ResolveSecret => Cell = Step.sec
    <3>1. ~pass.cleanup /\ Position \in DOMAIN Program
      BY <1>0, <2>1, <2>2, AtPosition DEF Clean
    <3> QED
      BY <1>0, <3>1, Shape DEF SecretsFirst, ResolveSecret, Step, Cell
  <2>5. ASSUME Resolved(Step.sec) PROVE secret[Step.sec] # 0
    <3>0. MaxEvents[ctl] \in Nat /\ events \in 0 .. MaxEvents[ctl]
      BY <1>0, Bound DEF TypeOK
    <3>1. Step.sec \in DOMAIN secret /\ events \in Nat
      BY <1>0, <2>1, <2>5, <3>0, SecretOfType
    <3>2. secret[Step.sec] \in 1 .. events + 1
      BY <1>0, <3>1 DEF Counted
    <3> QED
      BY <3>1, <3>2
  <2>6. CASE j \notin pass.plan
    <3>1. pass.got[c] # 0
      BY <2>1, <2>2, <2>6 DEF SecretsGot
    <3> QED
      BY <2>1, <2>3, <2>4, <2>5, <3>1
  <2>7. CASE j \in pass.plan
    <3>1. j = Position /\ Step = Program[j]
      BY <1>1, <2>1, <2>7, CleanBefore
    <3>2. ResolveSecret
      BY <1>1, <2>1, <3>1 DEF Works, BuildClient, NoSession, Gate, Skip, Compare, Request, UpdatesNothing,
         RequestFails, AnswerLost, Sends, Writing, Creating
    <3>3. Resolved(Step.sec)
      BY <2>1, <3>1
    <3>4. pass' # Stop("SecretNotFound") /\ (Step.do = "needs" => pass' # GiveUpSection)
      <4>1. pass' # Stop("SecretNotFound")
        BY <1>0, <2>2, StopMoves DEF Endings, Reasons
      <4>2. ASSUME pass' = GiveUpSection PROVE FALSE
        BY <1>0, <4>2 DEF Clean, GiveUpSection, Without, TypeOK, PassType
      <4> QED
        BY <4>1, <4>2
    <3>5. pass' = [Advance EXCEPT !.got = [d \in Cells |-> IF d = Cell THEN secret[d] ELSE @[d]]]
      BY <2>1, <3>1, <3>2, <3>3, <3>4 DEF ResolveSecret
    <3>6. pass'.got = [d \in Cells |-> IF d = Cell THEN secret[d] ELSE Advance.got[d]]
      BY <1>0, <3>5, AdvanceMoves DEF PassType
    <3> QED
      BY <2>1, <2>4, <2>5, <3>1, <3>2, <3>3, <3>6
  <2> QED
    BY <2>6, <2>7
<1>2. CASE Clean /\ Undisturbed(pass')
  <2>1. /\ Program' = Program /\ pass'.plan = pass.plan /\ pass'.got = pass.got /\ Chosen' = Chosen
    BY <1>0, <1>2, UndisturbedFacts DEF Chosen
  <2> QED
    BY <1>2, <2>1 DEF SecretsGot
<1>3. CASE pass'.plan = Relevant(Program', pass'.spec)
  BY <1>3 DEF Relevant, Chosen
<1> QED
  BY <1>0, <1>1, <1>2, <1>3, CleanOtherwise

(* What lasts of a step, of the copies in its cell.                        *)
Lasts(step, copies, node, rev) ==
  CASE step.do \in {"create", "open"} -> copies # <<>>
    [] step.do = "clear" -> copies = <<>>
    [] step.do = "nudge" -> copies[node][1] = rev
    [] OTHER -> copies # <<>> /\ copies[1][1] = rev /\ (Resolved(step.cell) => copies[1][2] # 0)

(* What is sent carries the Secret, where users cannot name others.        *)
LEMMA SecretInHand ==
  ASSUME Typed, Working, Clean, SecretsGot, Step.do \in Final \ {"open", "create"},
         ~Step.setup, Resolved(Cell)
  PROVE  pass.got[Cell] # 0
<1>0. /\ TypeOK /\ ProgramBounds /\ Position \in DOMAIN Program /\ Position \in Nat
      /\ Step = Program[Position] /\ Cell = Program[Position].cell /\ Position \in pass.plan
      /\ \A i \in pass.plan : Position <= i
  BY Bounds, AtPosition DEF Typed, Working, Step, Cell, TypeOK, ProgramBounds
<1>1. ~pass.cleanup /\ Cell \in Cells
  BY <1>0, CellOfType, ComparedAreWriting DEF Clean
<1>2. Cell \in Self.secrets
  <2>1. ctl \in DOMAIN Table /\ Self = Table[ctl] /\ Cells = CellsOf[ctl]
    BY <1>0, PassAssumption DEF TypeOK, Self, Cells
  <2>2. Cell \notin {Always, "tls"}
    BY <1>1, <2>1, TableAssumption
  <2> QED
    BY <2>2 DEF Resolved
<1>3. PICK k \in 1 .. Position - 1 :
        /\ Program[k].do \in {"secret", "needs"} /\ ~Program[k].setup
        /\ Program[k].sec = Cell /\ Program[Position].sec = Cell
  BY <1>0, <1>1, <1>2, Shape DEF SecretsFirst
<1>4. k \in DOMAIN Program /\ k \notin pass.plan
  <2>1. k < Position /\ k \in Nat /\ k \in DOMAIN Program
    BY <1>0 DEF ProgramBounds
  <2> QED
    BY <1>0, <2>1
<1>5. Cell \in Chosen
  BY <1>0, <1>3 DEF Typed, InOrder
<1>6. Resolved(Cell)
  BY <1>2 DEF Resolved
<1> QED
  BY <1>1, <1>3, <1>4, <1>5, <1>6 DEF SecretsGot

LEMMA FirstOfOne == ASSUME NEW w PROVE <<w>> # <<>> /\ <<w>>[1] = w
  OBVIOUS

(* A request that was answered has landed.                                 *)
LEMMA LandedByRequest ==
  ASSUME Typed, Clean, SecretsGot, SeenIsFresh, Sends, Possible, Effect,
         Step.do \in Final \ {"nudge"}, ~Step.setup, Cell \notin pass.touched, ~Observing
  PROVE  Lasts(Step, app'[Cell], pass.node, pass.spec.rev)
<1>0. /\ TypeOK /\ Working /\ Step.do \in Writing /\ app \in [Cells -> Seq(Value)]
      /\ Position \in pass.plan /\ Step = Program[Position] /\ Cell = Program[Position].cell
  BY ComparedAreWriting, AtPosition DEF Typed, Sends, TypeOK, Step, Cell
<1>1. /\ Cell \in Cells /\ app' = [app EXCEPT ![Cell] = Written] /\ app[Cell] \in Seq(Value)
      /\ Want \in Value
  BY <1>0, WantOfType DEF Effect
<1>2. app'[Cell] = Written
  BY <1>0, <1>1
<1>3. /\ Want[1] = pass.spec.rev
      /\ Step.do \notin {"open", "create"} /\ Resolved(Cell) => Want[2] # 0
  BY <1>0, SecretInHand DEF Want
<1>4. CASE Step.do \in {"write", "settle", "open"}
  <2>1. Written = <<Want>>
    BY <1>4 DEF Written
  <2> QED
    BY <1>2, <1>3, <1>4, <2>1, FirstOfOne DEF Lasts, Cell
<1>5. CASE Step.do = "create"
  <2>1. Written = OneMore
    BY <1>5 DEF Written
  <2>2. OneMore # <<>>
    <3>1. Len(OneMore) > 0
      BY <1>0, OneMoreOfType
    <3>2. Len(<<>>) = 0
      OBVIOUS
    <3> QED
      BY <3>1, <3>2
  <2> QED
    BY <1>2, <1>5, <2>1, <2>2 DEF Lasts
<1>6. CASE Step.do = "clear"
  BY <1>2, <1>6 DEF Written, Lasts
<1>7. CASE Step.do \in {"merge", "replace"}
  <2>1. Written # <<>> /\ Written[1] = Want
    <3>1. CASE Listed
      <4>1. Written = [app[Cell] EXCEPT ![1] = Want] /\ app[Cell] # <<>>
        BY <1>7, <3>1 DEF Written, Possible
      <4>2. 1 \in DOMAIN app[Cell]
        BY <1>1, <4>1
      <4>3. DOMAIN Written = DOMAIN app[Cell] /\ Written[1] = Want
        BY <4>1, <4>2
      <4>4. DOMAIN <<>> = {}
        OBVIOUS
      <4> QED
        BY <4>2, <4>3, <4>4
    <3>2. CASE ~Listed
      <4>1. Written = OneMore /\ Seen = <<>>
        BY <1>7, <3>2 DEF Written, Listed
      <4>2. app[Cell] = <<>>
        BY <1>0, <1>7, <4>1, NothingAhead DEF SeenIsFresh, Source, Seen
      <4>3. Len(<<>>) < 2 /\ Append(<<>>, Want) = <<Want>>
        OBVIOUS
      <4>4. OneMore = <<Want>>
        BY <4>2, <4>3 DEF OneMore
      <4> QED
        BY <4>1, <4>4, FirstOfOne
    <3> QED
      BY <3>1, <3>2
  <2> QED
    BY <1>2, <1>3, <1>7, <2>1 DEF Lasts, Cell
<1> QED
  BY <1>4, <1>5, <1>6, <1>7 DEF Final

(* What is left alone because it is in place has landed before.            *)
LEMMA LandedBySkip ==
  ASSUME Typed, Clean, SecretsGot, SeenIsFresh, Working, InPlace \/ Same,
         Step.do \in Final \ {"write"}, InPlace \/ Step.do \notin {"clear", "nudge"},
         ~Step.setup, Cell \notin pass.touched
  PROVE  Lasts(Step, app[Cell], pass.node, pass.spec.rev)
<1>0. /\ TypeOK /\ Step.do \in Writing /\ Position \in pass.plan
      /\ Step = Program[Position] /\ Cell = Program[Position].cell
  BY ComparedAreWriting, AtPosition DEF Typed, TypeOK, Step, Cell
<1>1. app[Cell] = Seen
  BY <1>0, NothingAhead, ComparedAreWriting DEF SeenIsFresh, Seen
<1>2. /\ Want[1] = pass.spec.rev
      /\ Step.do \notin {"open", "create"} /\ Resolved(Cell) => Want[2] # 0
  BY <1>0, SecretInHand DEF Want
<1>3. CASE Step.do \in {"create", "open"}
  BY <1>1, <1>3 DEF InPlace, Same, Listed, Lasts
<1>4. CASE Step.do = "clear"
  BY <1>1, <1>4 DEF InPlace, Listed, Lasts
<1>5. CASE Step.do = "nudge"
  <2>1. Seen[pass.node] = <<pass.spec.rev, 0>>
    BY <1>5 DEF InPlace
  <2> QED
    BY <1>1, <1>5, <2>1 DEF Lasts
<1>6. CASE Step.do \in {"settle", "merge", "replace"}
  <2>1. Seen # <<>> /\ Seen[1] = Want
    BY <1>6, FirstOfOne DEF InPlace, Same, Listed
  <2> QED
    BY <1>1, <1>2, <1>6, <2>1 DEF Lasts, Cell
<1> QED
  BY <1>3, <1>4, <1>5, <1>6 DEF Final

(* What a pass has left behind it leaves alone.                            *)
LEMMA BehindStays ==
  ASSUME Typed, Whole, Works, Clean, NEW j \in DOMAIN Program \ pass.plan, ~Program[j].setup,
         Program[j].do \in Final, Program[j].sec \in Chosen
  PROVE  /\ app'[Program[j].cell] = app[Program[j].cell]
         /\ Program[j].do = "nudge" => pass'.node = pass.node
<1>0. /\ TypeOK /\ Working /\ Position \in pass.plan /\ Position \in DOMAIN Program
      /\ Position \in Nat /\ Step = Program[Position] /\ ~pass.cleanup
  BY WorkMoves, AtPosition DEF Typed, Step, Clean
<1>1. j \in Nat /\ j < Position
  <2>1. j \in Nat /\ j # Position
    BY <1>0, Bounds DEF ProgramBounds
  <2>2. ~(j > Position)
    BY <1>0 DEF Whole, Working, Clean
  <2> QED
    BY <1>0, <2>1, <2>2
<1>2. Program[j].do \in Writing
  BY ComparedAreWriting
<1>3. ASSUME app'[Program[j].cell] # app[Program[j].cell] PROVE FALSE
  <2>1. Step.do \in Writing /\ ~InPlace /\ app' = [app EXCEPT ![Cell] = Written]
    BY <1>3, AppOfWork
  <2>2. Cell = Program[j].cell
    BY <1>0, <1>2, <1>3, <2>1, WritesCells DEF TypeOK
  <2>3. ~Step.setup
    BY <1>0, <1>1, <1>2, Shape DEF SetupFirst, Writing, Creating
  <2>4. \/ Program[j].do = "write" /\ Step.do = "part" /\ Position < j
        \/ Program[j].do = "open" /\ Step.do = "close"
    BY <1>0, <1>1, <1>2, <2>1, <2>2, <2>3, Shape DEF WrittenOnce, Cell
  <2>5. Program[j].do = "open" /\ Step.do = "close"
    BY <1>0, <1>1, <2>4
  <2>6. Cell \in pass.spec.declared
    BY <1>0, <1>2, <2>2, <2>5, Shape DEF Divided, Chosen
  <2>7. Cell \in Candidates
    BY <2>1, <2>5 DEF InPlace
  <2> QED
    BY <2>6, <2>7 DEF Candidates
<1>4. ASSUME Program[j].do = "nudge", pass'.node # pass.node PROVE FALSE
  <2>1. Step.do = "nodes"
    BY <1>4, WorkMoves DEF Typed, Learns, KeepsKnowledge, Local
  <2>2. Position < j
    BY <1>0, <1>4, <2>1, Shape DEF ReadFirst, Source
  <2> QED
    BY <1>0, <1>1, <2>2
<1> QED
  BY <1>3, <1>4

(* The step that leaves the plan of a clean pass has landed, or what is    *)
(* observed differs.                                                       *)
LEMMA LandedNow ==
  ASSUME Typed, Typed', Works, Clean, Clean', SecretsGot, SeenIsFresh,
         Advances(pass'), ~(Observing /\ pass'.drift), Accepted(pass.spec),
         ~Step.setup, Step.do \in Final, Cell \notin pass.touched
  PROVE  Lasts(Step, app'[Cell], pass'.node, pass.spec.rev)
<1>0. /\ TypeOK /\ Working /\ Step.do \in Writing /\ ~pass.cleanup /\ Position \in DOMAIN Program
      /\ Step = Program[Position]
  BY WorkMoves, ComparedAreWriting, AtPosition DEF Typed, Clean, Step
<1>1. pass'.node = pass.node
  BY WorkMoves DEF Typed, Learns, KeepsKnowledge, Local, Final
<1>2. ~Ends(pass') /\ ~GivesUp(pass')
  BY CleanBefore
<1>3. CASE Sends /\ Effect /\ Possible /\ pass' \in Learnt /\ Learns(pass')
  <2>1. CASE Observing
    <3>1. Step.do = "write" /\ app[Cell] = <<Want>> /\ app' = app
      BY <1>0, <1>3, <2>1 DEF Sends, Learns, Effect
    <3>2. Resolved(Cell) => Want[2] # 0
      BY <1>0, <3>1, SecretInHand DEF Want
    <3>3. Want[1] = pass.spec.rev
      BY DEF Want
    <3> QED
      BY <1>1, <3>1, <3>2, <3>3, FirstOfOne DEF Lasts, Cell
  <2>2. CASE ~Observing
    <3>1. Step.do # "nudge"
      <4>1. ASSUME Step.do = "nudge" PROVE FALSE
        <5> DEFINE seen == [pass.seen EXCEPT ![Cell][pass.node][1] = @ + Toward(@, pass.spec.rev)]
        <5>1. pass' = [pass EXCEPT !.seen[Cell][pass.node][1] = @ + Toward(@, pass.spec.rev)]
          BY <1>3, <4>1 DEF Learnt
        <5>2. pass' = [pass EXCEPT !.seen = seen]
          BY <5>1
        <5> HIDE DEF seen
        <5>3. pass'.plan = pass.plan
          BY <1>0, <5>2 DEF TypeOK, PassType
        <5> QED
          BY <1>0, <5>3, AtPosition DEF Advances
      <4> QED
        BY <4>1
    <3> QED
      BY <1>1, <1>3, <2>2, <3>1, LandedByRequest
  <2> QED
    BY <2>1, <2>2
<1>4. CASE Local(pass') /\ (ResolveSecret \/ BuildClient \/ NoSession \/ Gate \/ Skip \/ Compare)
  <2>0. app' = app
    BY <1>4 DEF Local
  <2>1. CASE Skip
    <3>1. InPlace /\ Step.do # "write"
      BY <2>1 DEF Skip, InPlace
    <3> QED
      BY <1>0, <1>1, <2>0, <3>1, LandedBySkip
  <2>2. CASE Compare
    <3> DEFINE a == Advance
               d == ~Same
    <3>1. pass' = [a EXCEPT !.drift = @ \/ d] /\ Observing /\ Step.do # "write"
      BY <2>2 DEF Compare
    <3>2. a \in PassType
      BY <1>0, AdvanceMoves
    <3> HIDE DEF a, d
    <3>3. pass'.drift = (a.drift \/ d)
      BY <3>1, <3>2 DEF PassType
    <3>4. Same
      BY <3>1, <3>3 DEF d
    <3>5. Step.do \notin {"clear", "nudge"}
      <4>1. Program = Table[ctl].pass /\ ctl \in DOMAIN Table /\ Table[ctl].observes
        BY <1>0, <3>1, PassAssumption DEF Program, Self, TypeOK, Accepted, Observable, Observing
      <4> QED
        BY <1>0, <4>1, TableAssumption
    <3> QED
      BY <1>0, <1>1, <2>0, <3>1, <3>4, <3>5, LandedBySkip
  <2> QED
    BY <1>0, <1>4, <2>1, <2>2 DEF ResolveSecret, BuildClient, NoSession, Gate, Final
<1>5. Step.do # "schema"
  BY DEF Final
<1> QED
  BY <1>2, <1>3, <1>4, <1>5, WorkMoves DEF Typed

LEMMA LandedStep ==
  ASSUME Typed, Typed', Admitted, Whole, SecretsGot, SeenIsFresh, Landed, [Next]_vars
  PROVE  Landed'
<1>0. TypeOK /\ TypeOK' /\ ctl' = ctl /\ Cells' = Cells /\ ctl \in DOMAIN Table
      /\ \A s : Resolved(s)' = Resolved(s)
  BY Kinds, Fixed, PassAssumption DEF Typed, TypeOK, Resolved, Self
<1> SUFFICES ASSUME Clean', ~(pass'.spec.observe /\ pass'.drift), NEW j \in DOMAIN Program' \ pass'.plan,
                    ~Program'[j].setup, Program'[j].do \in Final, Program'[j].sec \in Chosen',
                    Program'[j].cell \notin pass'.touched
             PROVE  Lasts(Program'[j], app'[Program'[j].cell], pass'.node, pass'.spec.rev)
  BY <1>0 DEF Landed, Lasting, Lasts, Observing
<1>1. CASE Works
  <2>1. /\ Moves(pass') /\ Working /\ pass'.spec = pass.spec /\ Program' = Program /\ Chosen' = Chosen
        /\ pass'.touched = pass.touched
    BY <1>0, <1>1, WorkMoves, SameProgram DEF Typed, Moves, KeepsPass, Chosen
  <2>2. Clean /\ ~(Observing /\ pass.drift)
    BY <1>1, <2>1, CleanBefore DEF Observing
  <2>3. CASE j \notin pass.plan
    <3>1. Lasts(Program[j], app[Program[j].cell], pass.node, pass.spec.rev)
      BY <2>1, <2>2, <2>3 DEF Landed, Lasting, Lasts
    <3>2. /\ app'[Program[j].cell] = app[Program[j].cell]
          /\ Program[j].do = "nudge" => pass'.node = pass.node
      BY <1>1, <2>1, <2>2, <2>3, BehindStays
    <3> QED
      BY <2>1, <3>1, <3>2 DEF Lasts
  <2>4. CASE j \in pass.plan
    <3>1. j = Position /\ Step = Program[j] /\ Cell = Program[j].cell
          /\ (Advances(pass') \/ SkipsSetup(pass'))
      BY <1>1, <2>1, <2>4, CleanBefore DEF Cell
    <3>2. Advances(pass')
      BY <2>1, <3>1 DEF SkipsSetup, Final
    <3>3. Accepted(pass.spec)
      BY <2>1 DEF Admitted, Working
    <3> QED
      BY <1>1, <2>1, <2>2, <3>1, <3>2, <3>3, LandedNow DEF Observing
  <2> QED
    BY <2>3, <2>4
<1>2. CASE Clean /\ Undisturbed(pass') /\ ~Works
  <2>1. /\ Program' = Program /\ pass'.plan = pass.plan /\ pass'.spec = pass.spec /\ Chosen' = Chosen
        /\ pass'.drift = pass.drift /\ pass'.node = pass.node /\ pass.touched \subseteq pass'.touched
    BY <1>0, <1>2, UndisturbedFacts DEF Chosen
  <2>2. Lasts(Program[j], app[Program[j].cell], pass.node, pass.spec.rev)
    BY <1>2, <2>1 DEF Landed, Lasting, Lasts, Observing
  <2>3. Program[j].cell \in Cells
    BY <1>0, <2>1, ComparedAreWriting, WritesCells
  <2>4. app'[Program[j].cell] = app[Program[j].cell]
    BY <1>0, <1>2, <2>1, <2>3, UntouchedSame DEF Clean
  <2> QED
    BY <2>1, <2>2, <2>4
<1>3. CASE pass'.plan = Relevant(Program', pass'.spec)
  BY <1>3 DEF Relevant, Chosen
<1> QED
  BY <1>0, <1>1, <1>2, <1>3, CleanOtherwise

Earned == Typed /\ Admitted /\ Whole /\ SecretsGot /\ SeenIsFresh /\ Landed

(* What a declared section writes, but for the setup of the application,   *)
(* the pass has a last step for, which serves the section.                 *)
LEMMA LastWriter ==
  ASSUME TypeOK, ~pass.cleanup, NEW c \in DeclaredCells(pass.spec), c \in LaterCellsOf[ctl]
  PROVE  \E j \in DOMAIN Program :
           /\ ~Program[j].setup /\ Program[j].do \in Final /\ Program[j].cell = c
           /\ Program[j].sec \in Chosen /\ Program[j] \in Steps
<1>0. ctl \in DOMAIN Table /\ Program = Table[ctl].pass /\ Steps = Range(Program)
  BY PassAssumption DEF TypeOK, Program, Self, Steps, StepsOf
<1>1. PICK t \in Steps : t.sec \in pass.spec.declared /\ t.do \in Writing /\ t.cell = c
  BY DEF DeclaredCells
<1>2. PICK u \in Steps : ~u.setup /\ u.do \in Writing /\ u.cell = c
  BY <1>0 DEF LaterCellsOf, Steps
<1>3. t.do # "close"
  <2>1. PICK k \in DOMAIN Program : t = Program[k]
    BY <1>0, <1>1 DEF Range
  <2> QED
    BY <1>1, <2>1, NeverAlways, Shape DEF SharedSteps
<1>4. PICK i \in DOMAIN Program : u = Program[i]
  BY <1>0, <1>2 DEF Range
<1>5. PICK j \in DOMAIN Program :
        ~Program[j].setup /\ Program[j].do \in Final /\ Program[j].cell = c
  <2>1. CASE u.do \in Final
    BY <1>2, <1>4, <2>1
  <2>2. CASE u.do \in {"part", "close"}
    <3>1. PICK j \in DOMAIN Program :
            Program[j].do \in {"write", "open"} /\ ~Program[j].setup /\ Program[j].cell = c
      BY <1>2, <1>4, <2>2, Shape DEF Divided
    <3> QED
      BY <3>1 DEF Final
  <2>3. u.do # "add"
    BY <1>2, <1>4, Shape DEF SetupFirst
  <2> QED
    BY <1>2, <2>1, <2>2, <2>3 DEF Final, Writing, Creating
<1>6. Program[j] \in Steps
  BY <1>0 DEF Range
<1>7. Program[j].do \in Writing /\ Program[j].do # "close"
  BY <1>5, ComparedAreWriting DEF Final
<1>8. Program[j].sec = t.sec
  BY <1>1, <1>3, <1>5, <1>6, <1>7, SectionOfCell
<1> QED
  BY <1>1, <1>5, <1>6, <1>8 DEF Chosen

(* What lasts of its last step is the cell as the spec wants it.           *)
LEMMA LastingApplies ==
  ASSUME TypeOK, ~pass.cleanup, NEW j \in DOMAIN Program, ~Program[j].setup, Program[j].do \in Final,
         Lasting(Program[j]), Program[j] \in Steps,
         Refers(Program[j].cell) => Resolved(Program[j].cell)
  PROVE  Applied(Program[j].cell, pass.spec.rev, pass.node)
<1> DEFINE c == Program[j].cell
<1>0. ctl \in DOMAIN Table /\ Program = Table[ctl].pass /\ Steps = Range(Program)
  BY PassAssumption DEF TypeOK, Program, Self, Steps, StepsOf
<1>1. CASE c \in ExistOnlyOf[ctl]
  <2>1. PICK w \in Steps : w.do \in {"create", "open"} /\ w.cell = c
    BY <1>0, <1>1 DEF ExistOnlyOf, CellsDoing, Steps
  <2>2. PICK k \in DOMAIN Program : w = Program[k]
    BY <1>0, <2>1 DEF Range
  <2>3. Program[k].do \in Writing /\ Program[j].do \in Writing /\ ~Program[k].setup
    BY <2>1, <2>2, ComparedAreWriting, Shape DEF SetupFirst, Writing, Creating
  <2>4. j = k
    BY <2>1, <2>2, <2>3, Shape DEF WrittenOnce
  <2>5. app[c] # <<>>
    BY <2>1, <2>2, <2>4 DEF Lasting
  <2> QED
    BY <1>1, <2>5 DEF Applied
<1>2. CASE c \notin ExistOnlyOf[ctl]
  <2>1. Program[j].do \notin {"create", "open"}
    BY <1>0, <1>2 DEF ExistOnlyOf, CellsDoing, Steps
  <2>2. (Program[j].do = "clear" <=> c = "strays") /\ (Program[j].do = "nudge" <=> c = "workers")
    BY ComparedAreWriting, Shape DEF Divided
  <2> QED
    BY <1>2, <2>1, <2>2 DEF Applied, Lasting
<1> QED
  BY <1>1, <1>2

(* Synced=True says that everything that is declared is applied, whatever  *)
(* failed on the way: but for the Secrets nobody resolves.                 *)
THEOREM SyncedEarnedWhereResolved ==
  Spec =>
    [][status' # status /\ status'.synced /\ UpdateStatus /\ (Observing => ReportsDrift) =>
         \A c \in DeclaredCells(pass.spec) \ pass.touched :
           (Refers(c) => Resolved(c)) => Applied(c, pass.spec.rev, pass.node)]_vars
<1> DEFINE A == status' # status /\ status'.synced /\ UpdateStatus /\ (Observing => ReportsDrift)
           B == \A c \in DeclaredCells(pass.spec) \ pass.touched :
                  (Refers(c) => Resolved(c)) => Applied(c, pass.spec.rev, pass.node)
<1>1. Init => Earned
  <2> SUFFICES ASSUME Init PROVE Earned
    OBVIOUS
  <2>1. pass.plan = {} /\ ~pass.on
    BY NoPassOfType DEF Init
  <2> QED
    BY <2>1, TypedInit, AdmittedInit DEF Earned, Whole, SecretsGot, SeenIsFresh, Landed, Clean
<1>2. Earned /\ [Next]_vars => Earned'
  BY TypedStep, AdmittedStep, WholeStep, SecretsGotStep, FreshStep, LandedStep DEF Earned
<1>3. ASSUME Earned, A, NEW c \in DeclaredCells(pass.spec) \ pass.touched,
             Refers(c) => Resolved(c)
      PROVE  Applied(c, pass.spec.rev, pass.node)
  <2>1. TypeOK /\ pass.on /\ pass.plan = {} /\ ~pass.cleanup
    BY <1>3 DEF UpdateStatus, Done, Earned, Typed
  <2>2. Synced
    BY <1>3 DEF UpdateStatus
  <2>3. Clean /\ ~(Observing /\ pass.drift)
    BY <1>3, <2>1, <2>2 DEF Synced, Drift, Clean
  <2>4. CASE c \in LaterCellsOf[ctl]
    <3>1. PICK j \in DOMAIN Program :
            /\ ~Program[j].setup /\ Program[j].do \in Final /\ Program[j].cell = c
            /\ Program[j].sec \in Chosen /\ Program[j] \in Steps
      BY <2>1, <2>4, LastWriter
    <3>2. Lasting(Program[j])
      BY <1>3, <2>1, <2>3, <3>1 DEF Earned, Landed
    <3> QED
      BY <1>3, <2>1, <3>1, <3>2, LastingApplies
  <2> QED
    BY <2>4 DEF Applied
<1>4. Earned /\ [Next]_vars => [A => B]_vars
  BY <1>3
<1> QED
  BY <1>1, <1>2, <1>4, PTL DEF Spec

(* Where the Secrets are those the operator resolves, for all that is      *)
(* declared.                                                               *)
THEOREM SyncedEarned == ASSUME ~UseValueFrom PROVE Spec => SyncedIsEarned
<1> DEFINE A == status' # status /\ status'.synced /\ UpdateStatus /\ (Observing => ReportsDrift)
           B == \A c \in DeclaredCells(pass.spec) \ pass.touched :
                  (Refers(c) => Resolved(c)) => Applied(c, pass.spec.rev, pass.node)
           C == \A c \in DeclaredCells(pass.spec) \ pass.touched :
                  Applied(c, pass.spec.rev, pass.node)
<1>1. \A c : Refers(c) => Resolved(c)
  BY DEF Refers, Resolved
<1>2. [A => B]_vars => [A => C]_vars
  BY <1>1
<1>3. Spec => [][A => B]_vars
  BY SyncedEarnedWhereResolved
<1> QED
  BY <1>2, <1>3, PTL DEF SyncedIsEarned

-----------------------------------------------------------------------------
(* Sessions on record.                                                     *)

(* What is closed is not opened again by a later step.                     *)
LEMMA ClosedLast ==
  ASSUME Typed, Working, Step.do = "close", NEW i \in pass.plan, i # Position,
         Program[i].do \in Writing, Program[i].cell = Cell
  PROVE  Program[i].do = "close"
<1>0. /\ TypeOK /\ ProgramBounds /\ Position \in DOMAIN Program /\ Step = Program[Position]
      /\ i \in DOMAIN Program /\ i \in Nat /\ Position \in Nat /\ Position <= i
  BY AtPosition, Bounds DEF Typed, Step, TypeOK, ProgramBounds
<1>1. CASE pass.cleanup
  BY <1>0, <1>1, Shape DEF Writing, Creating
<1>2. CASE ~pass.cleanup
  <2>0. /\ SetupFirst(Program) /\ WrittenOnce(Program) /\ Divided(Program)
        /\ Step.do \in Writing /\ Position < i /\ ~(i < Position)
    BY <1>0, <1>2, Shape DEF Writing
  <2>1. ~Step.setup /\ ~Program[i].setup
    BY <1>0, <2>0 DEF SetupFirst
  <2>2. Program[i].do \notin Final
    BY <1>0, <2>0, <2>1 DEF WrittenOnce, Cell
  <2>3. Program[i].do # "add"
    BY <1>0, <2>0, <2>1 DEF SetupFirst
  <2>4. ASSUME Program[i].do = "part" PROVE FALSE
    <3>1. PICK k \in DOMAIN Program : Program[k].do \in {"write", "open"} /\ Program[k].cell = Cell
                                       /\ ~Program[k].setup
      BY <1>0, <2>0, <2>1, <2>4 DEF Divided
    <3>2. k # Position /\ k # i /\ Program[k].do \in Writing \cap Final
      BY <1>0, <2>4, <3>1 DEF Writing, Creating, Final
    <3>3. Program[k].do = "open"
      BY <1>0, <2>0, <2>1, <3>1, <3>2 DEF WrittenOnce, Cell
    <3> QED
      BY <1>0, <2>0, <2>1, <2>4, <3>1, <3>2, <3>3 DEF WrittenOnce, Cell
  <2> QED
    BY <2>2, <2>3, <2>4 DEF Writing, Creating, Final
<1> QED
  BY <1>1, <1>2

(* What a step at work strikes off the ledger it has just closed.          *)
LEMMA StruckOff ==
  ASSUME Typed, Works, NEW c \in pass.owned \ pass'.owned
  PROVE  /\ Working /\ Step.do = "close" /\ c = Cell /\ c \in Candidates /\ Advances(pass')
         /\ app'[c] = <<>>
<1>1. Sends /\ Effect /\ pass' \in Learnt /\ Learns(pass') /\ Working /\ Typed
  BY WorkMoves DEF Typed, KeepsKnowledge, Local
<1>2. Step.do = "close" /\ c = Cell
  BY <1>1 DEF Learns
<1>3. ~Observing /\ ~InPlace /\ Step.do \in Writing
  BY <1>1, <1>2 DEF Sends, Writing
<1>4. c \in Candidates
  BY <1>2, <1>3 DEF InPlace
<1>5. Advances(pass')
  BY <1>1, <1>2, LearntMoves DEF Typed
<1>6. Cell \in Cells /\ app \in [Cells -> Seq(Value)] /\ Written = <<>>
  BY <1>1, <1>2, <1>3, CellOfType DEF Typed, TypeOK, Written
<1>7. app' = [app EXCEPT ![Cell] = Written]
  BY <1>1, <1>3 DEF Effect
<1> QED
  BY <1>1, <1>2, <1>4, <1>5, <1>6, <1>7

LEMMA OnRecordStep ==
  ASSUME Typed, OnRecord, [Next]_vars
  PROVE  OnRecord'
<1>0. TypeOK /\ ctl' = ctl /\ Cells' = Cells /\ status.owned \subseteq Cells /\ NoPass.owned = {}
  BY Kinds, Fixed DEF Typed, TypeOK, NoPass
<1>1. CASE Works
  <2>0. /\ Working /\ Moves(pass') /\ status' = status /\ pass'.on = pass.on /\ pass.on
        /\ pass'.cleanup = pass.cleanup /\ pass'.touched = pass.touched
    BY <1>1, WorkMoves DEF Typed, Moves, KeepsPass, Working
  <2>1. pass'.plan \subseteq pass.plan /\ Program' = Program
    BY <1>0, <2>0, PlanShrinks, SameProgram
  <2>2. ~pass.cleanup \/ pass'.owned \subseteq status'.owned
    <3>1. CASE pass.cleanup
      <4>1. Step.do # "open"
        BY <1>0, <2>0, <3>1, AtPosition, Shape DEF Step
      <4>2. pass'.owned \subseteq pass.owned
        BY <1>1, <4>1, WorkMoves DEF Typed, Learns, KeepsKnowledge, Local
      <4> QED
        BY <2>0, <3>1, <4>2 DEF OnRecord
    <3> QED
      BY <3>1
  <2>3. ASSUME NEW c \in status.owned \ pass'.owned
        PROVE  /\ app'[c] = <<>> \/ c \in pass.touched
               /\ \A i \in pass'.plan :
                    Program[i].do \in Writing /\ Program[i].cell = c => Program[i].do = "close"
    <3>1. CASE c \in pass.owned
      <4>1. /\ Step.do = "close" /\ c = Cell /\ app'[c] = <<>>
            /\ pass'.plan = pass.plan \ {Position}
        BY <1>1, <2>3, <3>1, StruckOff DEF Advances
      <4>2. ASSUME NEW i \in pass'.plan, Program[i].do \in Writing, Program[i].cell = c
            PROVE  Program[i].do = "close"
        BY <2>0, <4>1, <4>2, ClosedLast
      <4> QED
        BY <4>1, <4>2
    <3>2. CASE c \notin pass.owned
      <4>1. /\ app[c] = <<>> \/ c \in pass.touched
            /\ \A i \in pass.plan :
                 Program[i].do \in Writing /\ Program[i].cell = c => Program[i].do = "close"
        BY <2>0, <2>3, <3>2 DEF OnRecord
      <4>2. CASE app' = app
        BY <2>1, <4>1, <4>2
      <4>3. CASE app' # app
        <5>1. /\ Step.do \in Writing /\ app' = [app EXCEPT ![Cell] = Written] /\ Cell \in Cells
              /\ Position \in pass.plan /\ Step = Program[Position]
          BY <1>1, <4>3, AppOfWork
        <5>2. app \in [Cells -> Seq(Value)] /\ c \in Cells
          BY <1>0, <2>3 DEF TypeOK
        <5>3. CASE c = Cell
          <6>1. Step.do = "close"
            BY <4>1, <5>1, <5>3 DEF Cell
          <6>2. Written = <<>>
            BY <6>1 DEF Written
          <6> QED
            BY <2>1, <4>1, <5>1, <5>2, <5>3, <6>2
        <5>4. CASE c # Cell
          BY <2>1, <4>1, <5>1, <5>2, <5>4
        <5> QED
          BY <5>3, <5>4
      <4> QED
        BY <4>2, <4>3
    <3> QED
      BY <3>1, <3>2
  <2> QED
    BY <2>0, <2>1, <2>2, <2>3 DEF OnRecord
<1>2. CASE pass' = NoPass
  <2>1. ~pass'.on /\ pass'.owned = {}
    BY <1>0, <1>2, NoPassNow
  <2> QED
    BY <2>1 DEF OnRecord
<1>3. CASE Undisturbed(pass') /\ pass' # NoPass /\ ~Works
  <2>1. /\ Program' = Program /\ pass'.plan = pass.plan /\ pass'.on = pass.on
        /\ pass'.cleanup = pass.cleanup /\ pass'.owned = pass.owned
        /\ pass.touched \subseteq pass'.touched
    BY <1>0, <1>3, UndisturbedFacts
  <2>2. status'.owned = status.owned
    BY <1>3, StatusOwned DEF UpdateStatus, Return
  <2>3. ASSUME pass.on, NEW c \in status.owned \ pass.owned
        PROVE  app'[c] = <<>> \/ c \in pass'.touched
    <3>1. app[c] = <<>> \/ c \in pass.touched
      BY <2>3 DEF OnRecord
    <3>2. c \in Cells
      BY <1>0, <2>3
    <3>3. CASE c \in pass'.touched
      BY <3>3
    <3>4. CASE c \notin pass'.touched
      <4>1. app'[c] = app[c]
        BY <1>0, <1>3, <2>1, <2>3, <3>2, <3>4, UntouchedSame
      <4> QED
        BY <2>1, <3>1, <3>4, <4>1
    <3> QED
      BY <3>3, <3>4
  <2> QED
    BY <2>1, <2>2, <2>3 DEF OnRecord
<1>4. ASSUME NEW q \in {"queued", "timer"}, StartSync(q) \/ StartCleanup(q) PROVE OnRecord'
  <2>1. pass'.owned = status.owned /\ status' = status
    BY <1>0, <1>4, SyncPass, CleanupPass DEF StartSync, StartCleanup
  <2> QED
    BY <2>1 DEF OnRecord
<1> QED
  BY <1>0, <1>1, <1>2, <1>3, <1>4, Kinds DEF Ended

(* What ends a pass.                                                       *)
LEMMA EndOfPass ==
  ASSUME Typed, [Next]_vars, pass.on, pass' = NoPass
  PROVE  UpdateStatus \/ StatusRefused \/ FinishDeletion \/ Crash
<1>0. TypeOK /\ ctl' = ctl /\ ~NoPass.on
  BY Kinds, NoPassOfType DEF Typed, TypeOK
<1>1. ~Works
  BY <1>0, WorkMoves DEF Typed, Moves, KeepsPass
<1>2. ASSUME Undisturbed(pass') PROVE FALSE
  BY <1>0, <1>2, UndisturbedFacts
<1>3. ASSUME NEW c \in Cells, HandChange(c) PROVE FALSE
  BY <1>0, <1>2, <1>3, UndisturbedTouch DEF HandChange
<1>4. ~Rebuild /\ ~Edit /\ ~DeleteObject
  BY <1>0, <1>2, UndisturbedTouch, UndisturbedOld DEF Rebuild, Edit, DeleteObject
<1>5. pass' # pass
  BY <1>0
<1> QED
  BY <1>1, <1>3, <1>4, <1>5 DEF Next, ControllerStep, Start, Continue, Environment, Works, vars,
     StartSync, StartDeletion, StartCleanup, Idle, FinalizerRefused, DeadlinePasses, Rotate,
     RemoveSecret, RestoreSecret

Recorded == Typed /\ OnRecord

(* Of the sessions on record the operator loses none: whichever requests   *)
(* fail or are answered too late, the record is kept until the session is  *)
(* gone. A crash and a status write that is refused are all that loses one. *)
THEOREM SessionsRecorded == Spec => SessionsStayOnRecord
<1> DEFINE A == \A c \in status.owned \cup pass.owned : c \notin status'.owned \cup pass'.owned =>
                  \/ app[c] = <<>> \/ c \in pass.touched
                  \/ Crash \/ StatusRefused \/ (UpdateStatus /\ ~pass.current)
<1>1. Init => Recorded
  <2> SUFFICES ASSUME Init PROVE Recorded
    OBVIOUS
  <2>1. pass.owned = {} /\ ~pass.on
    BY NoPassOfType DEF Init, NoPass
  <2> QED
    BY <2>1, TypedInit DEF Recorded, OnRecord
<1>2. Recorded /\ [Next]_vars => Recorded'
  BY TypedStep, OnRecordStep DEF Recorded
<1>3. ASSUME Recorded, [Next]_vars, NEW c \in status.owned \cup pass.owned,
             c \notin status'.owned \cup pass'.owned
      PROVE  \/ app[c] = <<>> \/ c \in pass.touched
             \/ Crash \/ StatusRefused \/ (UpdateStatus /\ ~pass.current)
  <2>0. Typed /\ TypeOK /\ OnRecord /\ ctl' = ctl
    BY <1>3, Kinds DEF Recorded, Typed
  <2>1. CASE UpdateStatus
    <3>1. CASE pass.current
      <4>1. status'.owned = pass.owned /\ pass.on
        BY <2>1, <3>1 DEF UpdateStatus, Done
      <4> QED
        BY <1>3, <2>0, <4>1 DEF OnRecord
    <3> QED
      BY <2>1, <3>1
  <2>2. CASE ~UpdateStatus
    <3>1. c \in pass.owned /\ c \notin status.owned
      BY <1>3, <2>0, <2>2, StatusOwned
    <3>2. pass.on /\ ~pass.cleanup
      BY <2>0, <3>1 DEF OnRecord
    <3>3. ~Works
      <4>1. ASSUME Works PROVE c \in Candidates
        BY <1>3, <2>0, <3>1, <4>1, StruckOff
      <4> QED
        BY <3>1, <4>1 DEF Candidates
    <3>4. ~Undisturbed(pass')
      BY <1>3, <2>0, <3>1, UndisturbedFacts
    <3>5. pass' = NoPass
      BY <1>3, <2>0, <3>2, <3>3, <3>4, Kinds DEF Ended, StartSync, StartCleanup, Idle
    <3> QED
      BY <1>3, <2>0, <2>2, <3>2, <3>5, EndOfPass DEF FinishDeletion
  <2> QED
    BY <2>1, <2>2
<1>4. Recorded /\ [Next]_vars => [A]_vars
  BY <1>3
<1> QED
  BY <1>1, <1>2, <1>4, PTL DEF Spec, SessionsStayOnRecord

=============================================================================
