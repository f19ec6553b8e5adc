-------------------------- MODULE PaperDaemonProofs --------------------------
(***************************************************************************)
(* Proofs about PaperDaemon for any number of slots, any identities a      *)
(* start may come to, any verdicts and any number of crashes and restarts. *)
(***************************************************************************)
EXTENDS PaperDaemon, TLAPS

(***************************************************************************)
(* The inductive invariant.                                                *)
(***************************************************************************)
InGate == pc \in {"candidate", "decide", "evidence"}

\* Where the process is in its life, and what it then has in memory.
LifeOK ==
  /\ pc = "down" => /\ slot = 1 /\ mayTick = TRUE /\ caps = Full /\ sizes = Full
                    /\ inflight = 0
  /\ InGate => slot \in Slots
  /\ InGate \/ pc = "resize" => run.mode # "off"
  /\ run.mode = "off" => caps = Full
  /\ ~Running => ~ticked /\ inflight = 0
  /\ pc = "evidence" => verdict \in Verdicts
  /\ (Running \/ pc = "resize") /\ run.mode # "off" => slot = NumSlots + 1
  /\ Running => sizes = caps

\* The files of the slot in hand are there as far as the gate has come.
FilesOK ==
  /\ pc \in {"decide", "evidence"} =>
       \E c \in candidates : c.id = Id(slot) /\ c.slot = slot
  /\ pc = "evidence" => \E d \in decisions : d.id = Id(slot) /\ d.verdict = verdict

\* The gate's answer for slot s is on file.
Answered(s) ==
  \E e \in evidence : /\ e.id = Id(s) /\ e.slot = s /\ e.size = caps[s]
                      /\ (e.state = "observed") = (run.mode = "observe")

\* Slots the gate is through with have an answer, the others their requested size.
AnswersOK ==
  pc # "down" /\ run.mode # "off" =>
    \A s \in Slots : IF s < slot THEN Answered(s) ELSE caps[s] = Requested

\* The evidence of slot s says it was stopped.
StoppedOnFile(s) ==
  \E e \in evidence : e.id = Id(s) /\ e.slot = s /\ e.state = "stopped"

\* A stop of a slot the gate is through with is in mayTick, and --once heeds it.
StopsOK ==
  /\ pc # "down" /\ run.mode = "apply" =>
       \A s \in Slots : s < slot /\ StoppedOnFile(s) => ~mayTick
  /\ run.once => inflight = 0 /\ pc # "serving"
  /\ run.once /\ ticked => mayTick

IInv == TypeOK /\ LifeOK /\ FilesOK /\ EvidenceChain /\ AnswersOK /\ StopsOK

(***************************************************************************)
(* Lemmas.                                                                 *)
(***************************************************************************)
LEMMA Constants ==
  /\ NumSlots \in Nat /\ NumSlots > 0 /\ Slots = 1 .. NumSlots /\ 1 \in Slots
  /\ Requested \in Nat /\ MaxInflight \in Nat
  /\ Full \in [Slots -> 0 .. Requested]
  /\ \A v \in Verdicts : v.class \in Classes /\ v.allowed \in Nat
  /\ NoRun \in RunType
<1>1. NumSlots \in Nat /\ NumSlots > 0 /\ Slots = 1 .. NumSlots /\ 1 \in Slots
      /\ Requested \in Nat /\ MaxInflight \in Nat
  BY DaemonAssumption DEF DaemonAssumption, Slots
<1>2. Full \in [Slots -> 0 .. Requested]
  BY <1>1 DEF Full
<1>3. \A v \in Verdicts : v.class \in Classes /\ v.allowed \in Nat
  BY DaemonAssumption DEF DaemonAssumption, Classes
<1>4. NoRun \in RunType
  <2>1. PICK f \in Identities, m \in RiskModes : TRUE
    BY DaemonAssumption DEF DaemonAssumption
  <2>2. [mode |-> m, once |-> TRUE, id |-> f] \in RunType
    BY <2>1 DEF RunType
  <2> QED
    BY <2>2 DEF NoRun
<1> QED
  BY <1>1, <1>2, <1>3, <1>4

\* A file created where there was none: the directory has grown by it.
LEMMA PutFresh ==
  ASSUME NEW dir, NEW f, ~Exists(dir, f.id)
  PROVE  Put(dir, f) = dir \cup {f}
BY DEF Exists, Put

LEMMA IdType ==
  ASSUME run \in RunType, NEW s \in Slots
  PROVE  Id(s) \in Ids
BY DEF RunType, Id, Ids

\* The memory a process leaves behind, as the next one finds it.
LEMMA DownType ==
  ASSUME Down
  PROVE  /\ pc' = "down" /\ run' \in RunType /\ slot' \in 1 .. NumSlots + 1
         /\ verdict' = NoVerdict /\ mayTick' = TRUE /\ ticked' = FALSE
         /\ caps' \in [Slots -> 0 .. Requested] /\ sizes' \in [Slots -> 0 .. Requested]
         /\ inflight' \in 0 .. MaxInflight
BY Constants DEF Down

(***************************************************************************)
(* What the actions write.                                                 *)
(***************************************************************************)
LEMMA Written ==
  ASSUME IInv, Next
  PROVE  /\ \/ candidates' = candidates
            \/ /\ pc = "candidate" /\ WriteCandidate
               /\ candidates' = candidates \cup {[id |-> Id(slot), slot |-> slot]}
         /\ \/ decisions' = decisions
            \/ /\ pc = "decide" /\ (Decide \/ GateFails)
               /\ \E v \in Verdicts :
                    decisions' = decisions \cup {[id |-> Id(slot), verdict |-> v]}
         /\ \/ evidence' = evidence
            \/ pc = "evidence" /\ WriteEvidence
<1>1. CASE WriteCandidate
  <2>1. candidates' = candidates \cup {[id |-> Id(slot), slot |-> slot]}
    BY <1>1, PutFresh DEF WriteCandidate
  <2> QED
    BY <1>1, <2>1 DEF WriteCandidate
<1>2. CASE Decide
  <2>1. verdict' \in Verdicts
        /\ decisions' = decisions \cup {[id |-> Id(slot), verdict |-> verdict']}
    BY <1>2, PutFresh DEF Decide
  <2> QED
    BY <1>2, <2>1 DEF Decide
<1>3. CASE GateFails
  <2>1. CASE UNCHANGED decisions
    BY <1>3, <2>1 DEF GateFails
  <2>2. ASSUME NEW v \in Verdicts, ~Exists(decisions, Id(slot)),
               decisions' = Put(decisions, [id |-> Id(slot), verdict |-> v])
        PROVE  decisions' = decisions \cup {[id |-> Id(slot), verdict |-> v]}
    BY <2>2, PutFresh
  <2> QED
    BY <1>3, <2>1, <2>2 DEF GateFails
<1>4. CASE WriteEvidence
  BY <1>4 DEF WriteEvidence
<1>5. CASE Start \/ Crash \/ GateRefuses \/ ApplyOverrides \/ InitialTick \/ SkipInitialTick
           \/ Fire \/ HourlyTick \/ Stop \/ Stopped
  BY <1>5 DEF Start, Crash, GateRefuses, ApplyOverrides, InitialTick, SkipInitialTick,
              Fire, HourlyTick, Stop, Stopped, files
<1> QED
  BY <1>1, <1>2, <1>3, <1>4, <1>5 DEF Next

(***************************************************************************)
(* The invariant holds at first and every step preserves it, part by part. *)
(***************************************************************************)
LEMMA InvInit == Init => IInv
<1> SUFFICES ASSUME Init PROVE IInv
  OBVIOUS
<1>1. TypeOK
  <2>1. candidates = {} /\ decisions = {} /\ evidence = {} /\ run \in RunType
    BY Constants DEF Init
  <2>2. slot \in 1 .. NumSlots + 1 /\ inflight \in 0 .. MaxInflight
    BY Constants DEF Init
  <2>3. caps \in [Slots -> 0 .. Requested] /\ sizes \in [Slots -> 0 .. Requested]
    BY Constants DEF Init
  <2> QED
    BY <2>1, <2>2, <2>3 DEF Init, TypeOK
<1>2. LifeOK
  BY Constants DEF Init, LifeOK, InGate, Running
<1>3. FilesOK /\ EvidenceChain /\ AnswersOK
  BY DEF Init, FilesOK, EvidenceChain, AnswersOK
<1>4. StopsOK
  BY DEF Init, StopsOK
<1> QED
  BY <1>1, <1>2, <1>3, <1>4 DEF IInv

LEMMA TypeStep ==
  ASSUME IInv, Next
  PROVE  TypeOK'
<1> USE DEF IInv
<1>1. candidates' \subseteq [id : Ids, slot : Slots]
  <2>1. pc = "candidate" => [id |-> Id(slot), slot |-> slot] \in [id : Ids, slot : Slots]
    BY IdType DEF TypeOK, LifeOK, InGate
  <2> QED
    BY <2>1, Written DEF TypeOK
<1>2. decisions' \subseteq [id : Ids, verdict : Verdicts]
  <2>1. \A v \in Verdicts :
          pc = "decide" => [id |-> Id(slot), verdict |-> v] \in [id : Ids, verdict : Verdicts]
    BY IdType DEF TypeOK, LifeOK, InGate
  <2>2. CASE decisions' = decisions
    BY <2>2 DEF TypeOK
  <2>3. CASE decisions' # decisions
    <3>1. pc = "decide"
      BY <2>3, Written
    <3>2. PICK v \in Verdicts :
            decisions' = decisions \cup {[id |-> Id(slot), verdict |-> v]}
      BY <2>3, Written
    <3> QED
      BY <2>1, <3>1, <3>2 DEF TypeOK
  <2> QED
    BY <2>2, <2>3
<1>3. CASE WriteEvidence
  <2>1. slot \in Slots /\ verdict \in Verdicts /\ Id(slot) \in Ids
    BY <1>3, IdType DEF WriteEvidence, TypeOK, LifeOK, InGate
  <2>2. verdict.class \in Classes /\ verdict.allowed \in Nat
    BY <2>1, Constants
  <2>3. Resizes(verdict) => verdict.allowed \in 0 .. Requested
    BY <1>3, <2>2, Constants DEF WriteEvidence, CapGuard
  <2>4. ActualSize(verdict) \in 0 .. Requested
    BY <2>3, Constants DEF ActualSize
  <2>5. caps' \in [Slots -> 0 .. Requested]
    BY <1>3, <2>1, <2>3 DEF WriteEvidence, TypeOK
  <2>6. evidence' \subseteq [id : Ids, slot : Slots, class : Classes, size : 0 .. Requested,
                             state : {"observed", "continued", "stopped"}]
    BY <1>3, <2>1, <2>2, <2>4, PutFresh DEF WriteEvidence, TypeOK
  <2>7. mayTick' \in BOOLEAN
    BY <1>3 DEF WriteEvidence, MayTick
  <2>8. slot' \in 1 .. NumSlots + 1
    BY <1>3, <2>1, Constants DEF WriteEvidence
  <2> QED
    BY <1>1, <1>2, <1>3, <2>5, <2>6, <2>7, <2>8 DEF WriteEvidence, TypeOK
<1>4. CASE Start
  BY <1>4 DEF Start, TypeOK, files, gate
<1>5. CASE WriteCandidate
  BY <1>1, <1>5 DEF WriteCandidate, TypeOK, gate
<1>6. CASE Decide
  BY <1>2, <1>6 DEF Decide, TypeOK
<1>7. CASE Crash \/ GateFails \/ GateRefuses \/ Stopped
  BY <1>2, <1>7, DownType DEF Crash, GateFails, GateRefuses, Stopped, TypeOK, files
<1>8. CASE ApplyOverrides \/ Stop
  BY <1>8 DEF ApplyOverrides, Stop, TypeOK, files, gate
<1>9. CASE InitialTick \/ SkipInitialTick
  BY <1>9 DEF InitialTick, SkipInitialTick, Tick, AfterInitial, TypeOK, files, gate
<1>10. CASE Fire \/ HourlyTick
  <2>1. inflight' \in 0 .. MaxInflight
    BY <1>10, Constants DEF Fire, HourlyTick, TypeOK
  <2> QED
    BY <1>10, <2>1 DEF Fire, HourlyTick, Tick, TypeOK, files, gate
<1> QED
  BY <1>3, <1>4, <1>5, <1>6, <1>7, <1>8, <1>9, <1>10 DEF Next

LEMMA LifeStep ==
  ASSUME IInv, Next
  PROVE  LifeOK'
<1> USE DEF IInv, LifeOK, InGate, Running
<1>1. CASE Start
  BY <1>1, Constants DEF Start, gate
<1>2. CASE Crash \/ GateFails \/ GateRefuses \/ Stopped
  <2>1. Down
    BY <1>2 DEF Crash, GateFails, GateRefuses, Stopped
  <2> QED
    BY <2>1 DEF Down
<1>3. CASE WriteCandidate
  BY <1>3 DEF WriteCandidate, gate
<1>4. CASE Decide
  BY <1>4 DEF Decide
<1>5. CASE WriteEvidence
  <2>1. slot \in Slots /\ run.mode # "off" /\ ~ticked /\ inflight = 0
    BY <1>5 DEF WriteEvidence
  <2>2. slot = NumSlots => slot' = NumSlots + 1
    BY <1>5 DEF WriteEvidence
  <2>3. slot # NumSlots => slot' \in Slots
    BY <1>5, <2>1, Constants DEF WriteEvidence
  <2> QED
    BY <1>5, <2>1, <2>2, <2>3 DEF WriteEvidence
<1>6. CASE ApplyOverrides
  BY <1>6 DEF ApplyOverrides, gate
<1>7. CASE InitialTick \/ SkipInitialTick
  BY <1>7 DEF InitialTick, SkipInitialTick, AfterInitial, gate
<1>8. CASE Fire \/ HourlyTick \/ Stop
  BY <1>8 DEF Fire, HourlyTick, Stop, gate
<1> QED
  BY <1>1, <1>2, <1>3, <1>4, <1>5, <1>6, <1>7, <1>8 DEF Next

LEMMA FilesStep ==
  ASSUME IInv, Next
  PROVE  FilesOK'
<1> USE DEF IInv, FilesOK
<1>1. CASE WriteCandidate
  <2>1. [id |-> Id(slot), slot |-> slot] \in candidates'
    BY <1>1 DEF WriteCandidate, Put
  <2>2. pc' = "decide" /\ slot' = slot /\ run' = run
    BY <1>1 DEF WriteCandidate, gate
  <2> QED
    BY <2>1, <2>2 DEF Id
<1>2. CASE Decide
  <2>1. [id |-> Id(slot), verdict |-> verdict'] \in decisions'
    BY <1>2 DEF Decide, Put
  <2>2. pc = "decide" /\ pc' = "evidence" /\ slot' = slot /\ run' = run
        /\ candidates' = candidates
    BY <1>2 DEF Decide
  <2> QED
    BY <2>1, <2>2 DEF Id
<1>4. CASE ~WriteCandidate /\ ~Decide
  <2>1. pc' \notin {"decide", "evidence"}
    BY <1>4 DEF Next, Start, Crash, GateFails, WriteEvidence, GateRefuses, ApplyOverrides,
       InitialTick, SkipInitialTick, AfterInitial, Fire, HourlyTick, Stop, Stopped, Down
  <2> QED
    BY <2>1
<1> QED
  BY <1>1, <1>2, <1>4

\* Files only accumulate.
LEMMA Grow ==
  ASSUME IInv, Next
  PROVE  /\ candidates \subseteq candidates'
         /\ decisions \subseteq decisions'
         /\ evidence \subseteq evidence'
BY Written, PutFresh DEF WriteEvidence

LEMMA ChainStep ==
  ASSUME IInv, Next
  PROVE  EvidenceChain'
<1> USE DEF IInv
<1>1. SUFFICES ASSUME NEW e \in evidence'
               PROVE  /\ \E c \in candidates' : c.id = e.id /\ c.slot = e.slot
                      /\ \E d \in decisions' :
                           /\ d.id = e.id /\ d.verdict.class = e.class
                           /\ e.size # Requested => /\ e.class = "cap"
                                                    /\ e.size = d.verdict.allowed
  BY DEF EvidenceChain
<1>2. CASE e \in evidence
  BY <1>2, Grow DEF EvidenceChain
<1>3. CASE e \notin evidence
  <2>1. pc = "evidence" /\ WriteEvidence
    BY <1>1, <1>3, Written
  <2>2. e = [id |-> Id(slot), slot |-> slot, class |-> verdict.class,
             size |-> ActualSize(verdict),
             state |-> IF run.mode = "observe" THEN "observed"
                       ELSE IF Stops(verdict) THEN "stopped" ELSE "continued"]
    BY <1>1, <1>3, <2>1 DEF WriteEvidence, Put
  <2>3. PICK c \in candidates : c.id = Id(slot) /\ c.slot = slot
    BY <2>1 DEF FilesOK
  <2>4. PICK d \in decisions : d.id = Id(slot) /\ d.verdict = verdict
    BY <2>1 DEF FilesOK
  <2>5. e.size # Requested => e.class = "cap" /\ e.size = d.verdict.allowed
    BY <2>2, <2>4 DEF ActualSize, Resizes
  <2> QED
    BY <2>2, <2>3, <2>4, <2>5, Grow
<1> QED
  BY <1>2, <1>3

LEMMA AnswersStep ==
  ASSUME IInv, Next
  PROVE  AnswersOK'
<1> USE DEF IInv
<1>1. CASE Start
  <2>1. slot' = 1 /\ caps' = Full
    BY <1>1 DEF Start, gate, LifeOK
  <2> QED
    BY <2>1, Constants DEF AnswersOK, Full
<1>2. CASE WriteEvidence
  <2> DEFINE new == [id |-> Id(slot), slot |-> slot, class |-> verdict.class,
                     size |-> ActualSize(verdict),
                     state |-> IF run.mode = "observe" THEN "observed"
                               ELSE IF Stops(verdict) THEN "stopped" ELSE "continued"]
  <2>1. SUFFICES ASSUME run.mode # "off", NEW s \in Slots
                 PROVE  IF s < slot' THEN Answered(s)' ELSE caps'[s] = Requested
    BY <1>2 DEF WriteEvidence, AnswersOK
  <2>2. /\ slot \in Slots /\ slot' = slot + 1 /\ run' = run /\ pc = "evidence"
        /\ caps \in [Slots -> 0 .. Requested]
    BY <1>2 DEF WriteEvidence, LifeOK, InGate, TypeOK
  <2>3. evidence' = evidence \cup {new}
    BY <1>2, PutFresh DEF WriteEvidence
  <2>4. caps'[slot] = ActualSize(verdict)
    BY <1>2, <2>1, <2>2, Constants DEF WriteEvidence, ActualSize, AnswersOK
  <2>5. s # slot => caps'[s] = caps[s]
    BY <1>2, <2>2 DEF WriteEvidence
  <2>6. CASE s = slot
    <3>1. (new.state = "observed") = (run.mode = "observe")
      OBVIOUS
    <3>2. new.id = run'.id[s] /\ new.slot = s /\ new.size = caps'[s]
      BY <2>2, <2>4, <2>6 DEF Id
    <3>3. new \in evidence' /\ s < slot'
      BY <2>2, <2>3, <2>6, Constants
    <3>4. Answered(s)'
      <4> HIDE DEF new
      <4> QED
        BY <2>2, <3>1, <3>2, <3>3 DEF Answered, Id
    <3> QED
      BY <3>3, <3>4
  <2>7. CASE s < slot
    <3>1. Answered(s)
      BY <2>1, <2>2, <2>7 DEF AnswersOK
    <3>2. Answered(s)'
      BY <2>2, <2>3, <2>5, <2>7, <3>1, Constants DEF Answered, Id
    <3> QED
      BY <2>2, <2>7, <3>2, Constants
  <2>8. CASE s > slot
    <3>1. caps[s] = Requested
      BY <2>1, <2>2, <2>8, Constants DEF AnswersOK
    <3> QED
      BY <2>2, <2>5, <2>8, <3>1, Constants
  <2> QED
    BY <2>2, <2>6, <2>7, <2>8, Constants
<1>3. CASE Crash \/ GateFails \/ GateRefuses \/ Stopped
  BY <1>3 DEF Crash, GateFails, GateRefuses, Stopped, Down, AnswersOK
<1>4. CASE ~Start /\ ~WriteEvidence /\ ~(Crash \/ GateFails \/ GateRefuses \/ Stopped)
  <2>1. pc # "down" /\ UNCHANGED <<run, slot, caps, evidence>>
    BY <1>4 DEF Next, WriteCandidate, Decide, ApplyOverrides, InitialTick, SkipInitialTick,
       Fire, HourlyTick, Stop, files, gate
  <2> QED
    BY <2>1 DEF AnswersOK, Answered, Id
<1> QED
  BY <1>1, <1>2, <1>3, <1>4

LEMMA StopsStep ==
  ASSUME IInv, Next
  PROVE  StopsOK'
<1> USE DEF IInv
<1>1. CASE Start
  <2>1. slot' = 1 /\ inflight' = 0 /\ ticked' = FALSE /\ pc' # "serving"
    BY <1>1 DEF Start, gate, LifeOK, Running
  <2> QED
    BY <2>1, Constants DEF StopsOK
<1>2. CASE WriteEvidence
  <2> DEFINE new == [id |-> Id(slot), slot |-> slot, class |-> verdict.class,
                     size |-> ActualSize(verdict),
                     state |-> IF run.mode = "observe" THEN "observed"
                               ELSE IF Stops(verdict) THEN "stopped" ELSE "continued"]
  <2>1. /\ slot \in Slots /\ slot' = slot + 1 /\ pc = "evidence"
        /\ UNCHANGED <<run, inflight, ticked>> /\ ~ticked /\ pc' # "serving"
    BY <1>2 DEF WriteEvidence, LifeOK, InGate, Running
  <2>2. evidence' = evidence \cup {new} /\ \A e \in evidence : e.id # Id(slot)
    BY <1>2, PutFresh DEF WriteEvidence, Exists
  <2>3. ASSUME run.mode = "apply", NEW s \in Slots, s < slot', StoppedOnFile(s)'
        PROVE  ~mayTick'
    <3>1. PICK e \in evidence' : e.id = Id(s) /\ e.slot = s /\ e.state = "stopped"
      BY <2>1, <2>3 DEF StoppedOnFile, Id
    <3>2. CASE s = slot
      <4>1. e = new
        BY <2>2, <3>1, <3>2
      <4>2. Stops(verdict)
        BY <3>1, <4>1
      <4> QED
        BY <1>2, <4>2 DEF WriteEvidence, MayTick
    <3>3. CASE s # slot
      <4>1. s < slot /\ e \in evidence
        BY <2>1, <2>2, <2>3, <3>1, <3>3, Constants
      <4>2. ~mayTick
        BY <2>1, <2>3, <3>1, <4>1 DEF StopsOK, StoppedOnFile
      <4> QED
        BY <1>2, <4>2 DEF WriteEvidence, MayTick
    <3> QED
      BY <3>2, <3>3
  <2> QED
    BY <2>1, <2>3 DEF StopsOK
<1>3. CASE Crash \/ GateFails \/ GateRefuses \/ Stopped
  <2>1. Down
    BY <1>3 DEF Crash, GateFails, GateRefuses, Stopped
  <2> QED
    BY <2>1 DEF Down, StopsOK
<1>4. CASE ~Start /\ ~WriteEvidence /\ ~(Crash \/ GateFails \/ GateRefuses \/ Stopped)
  <2>1. pc # "down" /\ UNCHANGED <<run, slot, mayTick, evidence>>
    BY <1>4 DEF Next, WriteCandidate, Decide, ApplyOverrides, InitialTick, SkipInitialTick,
       Fire, HourlyTick, Stop, files, gate
  <2>2. run.once => inflight' = 0 /\ pc' # "serving" /\ (ticked' => mayTick)
    BY <1>4 DEF Next, WriteCandidate, Decide, ApplyOverrides, InitialTick, SkipInitialTick,
       Fire, HourlyTick, Stop, AfterInitial, StopsOK, TypeOK
  <2>3. \A s \in Slots : StoppedOnFile(s)' = StoppedOnFile(s)
    BY <2>1 DEF StoppedOnFile, Id
  <2> QED
    BY <2>1, <2>2, <2>3 DEF StopsOK
<1> QED
  BY <1>1, <1>2, <1>3, <1>4

(***************************************************************************)
(* Theorems.                                                               *)
(***************************************************************************)
LEMMA InvStep == IInv /\ [Next]_vars => IInv'
<1> SUFFICES ASSUME IInv, [Next]_vars PROVE IInv'
  OBVIOUS
<1>1. CASE Next
  BY <1>1, TypeStep, LifeStep, FilesStep, ChainStep, AnswersStep, StopsStep DEF IInv
<1>2. CASE UNCHANGED vars
  BY <1>2 DEF IInv, vars, files, gate, TypeOK, LifeOK, InGate, Running, FilesOK, Id,
     EvidenceChain, AnswersOK, Answered, StopsOK, StoppedOnFile
<1> QED
  BY <1>1, <1>2

\* The invariant the other theorems rest on: what the gate has come to in memory is
\* what it has put on file.
THEOREM GateInvariant == Spec => []IInv
<1>1. IInv /\ [Next]_vars => IInv'
  BY InvStep
<1> QED
  BY InvInit, <1>1, PTL DEF Spec

\* The state keeps its shape, and no slot ever trades more than it asked for.
THEOREM TypeCorrect == Spec => []TypeOK
<1>1. IInv => TypeOK
  BY DEF IInv
<1> QED
  BY <1>1, GateInvariant, PTL

\* Every slot of a process past the gate trades at the size its evidence names.
THEOREM SizesAsEvidenced == Spec => []EvidenceOfSizes
<1>1. IInv => EvidenceOfSizes
  <2> SUFFICES ASSUME IInv, Running, run.mode # "off", NEW s \in Slots
               PROVE  \E e \in evidence :
                        /\ e.id = Id(s) /\ e.slot = s /\ e.size = sizes[s]
                        /\ (e.state = "observed") = (run.mode = "observe")
    BY DEF EvidenceOfSizes
  <2>1. s < slot /\ sizes = caps /\ pc # "down"
    BY Constants DEF IInv, LifeOK, Running
  <2>2. Answered(s)
    BY <2>1 DEF IInv, AnswersOK
  <2> QED
    BY <2>1, <2>2 DEF Answered
<1> QED
  BY <1>1, GateInvariant, PTL

\* Evidence rests on a candidate and a decision on file, whatever failed in between.
THEOREM EvidenceChained == Spec => []EvidenceChain
<1>1. IInv => EvidenceChain
  BY DEF IInv
<1> QED
  BY <1>1, GateInvariant, PTL

\* With --once a stop of any slot leaves the run without a tick.
THEOREM StopHoldsForOnce == Spec => []StopHoldsOnce
<1>1. IInv => StopHoldsOnce
  <2> SUFFICES ASSUME IInv, Running, run.once, SlotStopped PROVE ~ticked
    BY DEF StopHoldsOnce
  <2>1. PICK s \in Slots : StoppedOnFile(s)
    BY DEF SlotStopped, StoppedOnFile
  <2>2. run.mode = "apply" /\ s < slot /\ pc # "down"
    BY Constants DEF IInv, LifeOK, Running, SlotStopped
  <2> QED
    BY <2>1, <2>2 DEF IInv, StopsOK
<1> QED
  BY <1>1, GateInvariant, PTL

\* No artifact is ever rewritten or removed, by whatever run.
THEOREM ArtifactsWrittenOnce == Spec => WriteOnce
<1>1. IInv /\ [Next]_vars =>
        [candidates \subseteq candidates' /\ decisions \subseteq decisions'
         /\ evidence \subseteq evidence']_files
  BY Grow DEF vars, files
<1> QED
  BY <1>1, GateInvariant, PTL DEF Spec, WriteOnce
=============================================================================
