------------------------ MODULE NetworkJournalProofs ------------------------
(* Proofs about NetworkJournal, for every set of objects, configurations and *)
(* host routes.                                                             *)
EXTENDS NetworkJournal, TLAPS

\* The manager's bookkeeping against the kernel and its own journal: what is
\* recorded as owned is not the host's and is named by the journal in memory.
OwnedInv ==
    /\ own \cap host = {}
    /\ own \subseteq (IF op.pc \in {"dsync", "dcommit"} THEN Planned ELSE journal)
    /\ daemon = "up" => ours \ leaked \subseteq own

\* Where the connection is during a call of the manager.
PhaseInv ==
    /\ daemon = "recover" <=> op.pc = "recover"
    /\ daemon # "up" => conn = "none" /\ ours \cap TunBound = {}
    /\ conn = "none" => own = {} /\ disc = "none" /\ op.pc \in {"idle", "recover"}
    /\ conn = "setup" /\ op.pc \notin SetSteps => own = {}
    /\ conn \in Gone => ours \subseteq leaked
    /\ op.pc \in SetSteps => conn = "setup" /\ op.by = "setup"
    /\ op.pc \in DynSteps => conn = "running" /\ op.by = "worker" /\ op.want \subseteq Dynamic

\* What the file holds, and what is left to do, at each step of a call.
StepInv ==
    /\ op.pc = "plan" => own = {} /\ op.todo \subseteq journal
    /\ op.pc = "apply" => op.todo \subseteq journal
    /\ op.pc \in {"apply", "commit"} => file = {journal}
    /\ op.pc \in {"dsync", "dcommit"} => file = {Planned}
    /\ op.pc = "dcommit" => ToDelete = {}
    /\ op.pc \in {"undo", "close"} => op.todo \subseteq own /\ ours \ leaked \subseteq op.todo
    /\ op.pc \in {"drop", "keep", "unlink"} => ours \subseteq leaked
    /\ op.pc = "recover" /\ ~op.err => ours \ leaked \subseteq op.todo

\* The inductive invariant.
IInv == TypeOK /\ OwnedInv /\ PhaseInv /\ StepInv /\ JournalCovers

-----------------------------------------------------------------------------
(* One lemma per action: it preserves the inductive invariant.              *)

\* The idle call is well typed.
LEMMA IdleTyped == Idle \in Op
BY DEF Idle, Op, Callers

\* What a journal covers, when there is one and when there is none.
LEMMA CoveredFacts == Covered({}) = {} /\ \A objects : Covered({objects}) = objects
BY DEF Covered

\* Writing and removing the journal keep its type.
LEMMA WriteTyped ==
    ASSUME TypeOK, NEW objects \in SUBSET Objects, NEW ok, Write(objects, ok) \/ Remove(ok)
    PROVE  file' = {} \/ \E named \in SUBSET Objects : file' = {named}
BY DEF TypeOK, Write, Remove

\* A journal covers objects only.
LEMMA CoveredTyped == TypeOK => Covered(file) \subseteq Objects
BY DEF TypeOK, Covered

\* A new manager owns nothing and nothing is left of the last one.
LEMMA NewConnectionInv ==
    ASSUME IInv, NewConnection
    PROVE  IInv'
<1> USE DEF IInv, NewConnection, kernel
<1>1. TypeOK'
  BY DEF TypeOK
<1>2. OwnedInv'
  BY DEF OwnedInv, PhaseInv
<1>3. PhaseInv'
  BY DEF PhaseInv, Gone
<1>4. StepInv'
  BY DEF PhaseInv, StepInv
<1>5. JournalCovers'
  BY DEF JournalCovers
<1> QED
  BY <1>1, <1>2, <1>3, <1>4, <1>5

\* Giving up before Set touches only the phase: nothing is installed yet.
LEMMA AbandonSetupInv ==
    ASSUME IInv, AbandonSetup
    PROVE  IInv'
<1> USE DEF IInv, AbandonSetup, kernel, manager
<1>1. TypeOK'
  BY DEF TypeOK
<1>2. OwnedInv'
  BY DEF OwnedInv, PhaseInv
<1>3. PhaseInv'
  BY DEF PhaseInv, Gone
<1>4. StepInv'
  BY DEF PhaseInv, StepInv, DynSteps
<1>5. JournalCovers'
  BY DEF JournalCovers
<1> QED
  BY <1>1, <1>2, <1>3, <1>4, <1>5

\* The end of a session and the waiting of Disconnect touch no object.
LEMMA FlagsInv ==
    ASSUME IInv, SessionEnds \/ Disconnect \/ AwaitDrain \/ Drained \/ DrainTimeout \/ DrainCancelled
    PROVE  IInv'
<1> USE DEF IInv, SessionEnds, Disconnect, AwaitDrain, Drained, DrainTimeout, DrainCancelled,
   kernel, manager
<1>1. TypeOK'
  BY DEF TypeOK
<1>2. OwnedInv'
  BY DEF OwnedInv, Planned
<1>3. PhaseInv'
  BY DEF PhaseInv
<1>4. StepInv'
  BY DEF StepInv, Planned, ToDelete
<1>5. JournalCovers'
  BY DEF JournalCovers
<1> QED
  BY <1>1, <1>2, <1>3, <1>4, <1>5

\* The worker stops outside SetDynamicRoutes.
LEMMA WorkerStopsInv ==
    ASSUME IInv, WorkerStops
    PROVE  IInv'
<1> USE DEF IInv, WorkerStops, kernel, manager
<1>1. TypeOK'
  BY DEF TypeOK
<1>2. OwnedInv'
  BY DEF OwnedInv, PhaseInv, DynSteps
<1>3. PhaseInv'
  BY DEF PhaseInv, Gone
<1>4. StepInv'
  BY DEF PhaseInv, StepInv, DynSteps
<1>5. JournalCovers'
  BY DEF JournalCovers
<1> QED
  BY <1>1, <1>2, <1>3, <1>4, <1>5

\* A closed connection has only leaked objects, so its manager may go.
LEMMA ReleaseInv ==
    ASSUME IInv, Release
    PROVE  IInv'
<1> USE DEF IInv, Release, kernel
<1>1. TypeOK'
  BY DEF TypeOK
<1>2. OwnedInv'
  BY DEF OwnedInv, PhaseInv
<1>3. PhaseInv'
  BY DEF Idle, PhaseInv
<1>4. StepInv'
  BY DEF Idle, StepInv
<1>5. JournalCovers'
  BY DEF JournalCovers
<1> QED
  BY <1>1, <1>2, <1>3, <1>4, <1>5

\* Set begins with nothing owned and its plan in memory.
LEMMA StartSetInv ==
    ASSUME IInv, NEW cfg \in Configs, StartSet(cfg)
    PROVE  IInv'
<1> USE DEF IInv, StartSet, kernel, life, Call
<1>1. TypeOK'
  BY NetworkJournalAssumption DEF TypeOK, Op, Callers, SetSteps, Static
<1>2. OwnedInv'
  BY DEF OwnedInv, PhaseInv, SetSteps
<1>3. PhaseInv'
  BY DEF PhaseInv, SetSteps, DynSteps
<1>4. StepInv'
  BY DEF PhaseInv, StepInv, SetSteps
<1>5. JournalCovers'
  BY DEF JournalCovers
<1> QED
  BY <1>1, <1>2, <1>3, <1>4, <1>5

\* Before the plan is written nothing is owned; afterwards the file is the plan.
LEMMA WritePlanInv ==
    ASSUME IInv, NEW ok \in BOOLEAN, WritePlan(ok)
    PROVE  IInv'
<1> USE DEF IInv, WritePlan, kernel, manager, Write, Step
<1>1. TypeOK'
  <2>1. journal \in SUBSET Objects
    BY DEF TypeOK
  <2>2. file' = {} \/ \E named \in SUBSET Objects : file' = {named}
    BY <2>1, WriteTyped
  <2>3. op' = Idle \/ op' = [op EXCEPT !.pc = "apply"]
    OBVIOUS
  <2>4. op' \in Op
    BY <2>3, IdleTyped DEF TypeOK, Op, SetSteps
  <2> QED
    BY <2>1, <2>2, <2>4 DEF TypeOK
<1>2. OwnedInv'
  BY DEF OwnedInv, StepInv
<1>3. PhaseInv'
  BY DEF Idle, TypeOK, Op, PhaseInv, SetSteps, DynSteps, Gone
<1>4. StepInv'
  BY DEF Idle, TypeOK, Op, StepInv
<1>5. JournalCovers'
  BY DEF OwnedInv, PhaseInv, StepInv, JournalCovers
<1> QED
  BY <1>1, <1>2, <1>3, <1>4, <1>5

\* An object is installed only when the plan on disk names it.
LEMMA ApplyInv ==
    ASSUME IInv, NEW o \in Objects, Apply(o)
    PROVE  IInv'
<1> USE DEF IInv, Apply, life, Install, First
<1>1. TypeOK'
  BY DEF TypeOK, Op
<1>2. OwnedInv'
  BY DEF OwnedInv, StepInv
<1>3. PhaseInv'
  BY DEF PhaseInv, SetSteps, Gone
<1>4. StepInv'
  BY DEF StepInv
<1>5. JournalCovers'
  <2>1. file' = {journal} /\ o \in journal
    BY DEF StepInv
  <2>2. Covered(file') = journal /\ Covered(file) = journal
    BY <2>1, CoveredFacts
  <2> QED
    BY <2>1, <2>2 DEF JournalCovers
<1> QED
  BY <1>1, <1>2, <1>3, <1>4, <1>5

\* The rollback starts from everything owned.
LEMMA ApplyFailsInv ==
    ASSUME IInv, ApplyFails
    PROVE  IInv'
<1> USE DEF IInv, ApplyFails, kernel, manager, life
<1>1. TypeOK'
  BY DEF TypeOK, Op, SetSteps
<1>2. OwnedInv'
  BY DEF OwnedInv
<1>3. PhaseInv'
  BY DEF PhaseInv, SetSteps, DynSteps
<1>4. StepInv'
  BY DEF OwnedInv, PhaseInv, StepInv
<1>5. JournalCovers'
  BY DEF JournalCovers
<1> QED
  BY <1>1, <1>2, <1>3, <1>4, <1>5

\* All objects are installed, the file is still the plan.
LEMMA AppliedInv ==
    ASSUME IInv, Applied
    PROVE  IInv'
<1> USE DEF IInv, Applied, kernel, manager, life, Step
<1>1. TypeOK'
  BY DEF TypeOK, Op, SetSteps
<1>2. OwnedInv'
  BY DEF OwnedInv
<1>3. PhaseInv'
  BY DEF PhaseInv, SetSteps, DynSteps
<1>4. StepInv'
  BY DEF StepInv
<1>5. JournalCovers'
  BY DEF JournalCovers
<1> QED
  BY <1>1, <1>2, <1>3, <1>4, <1>5

\* The commit writes what the plan already said.
LEMMA WriteCommitInv ==
    ASSUME IInv, NEW ok \in BOOLEAN, WriteCommit(ok)
    PROVE  IInv'
<1> USE DEF IInv, WriteCommit, kernel, manager, Write
<1>1. TypeOK'
  <2>1. journal \in SUBSET Objects
    BY DEF TypeOK
  <2>2. file' = {} \/ \E named \in SUBSET Objects : file' = {named}
    BY <2>1, WriteTyped
  <2>3. op' = Idle \/ op' = [op EXCEPT !.pc = "undo", !.todo = own]
    OBVIOUS
  <2>4. op' \in Op
    BY <2>3, IdleTyped DEF TypeOK, Op, SetSteps
  <2> QED
    BY <2>1, <2>2, <2>4 DEF TypeOK
<1>2. OwnedInv'
  BY DEF OwnedInv, Planned
<1>3. PhaseInv'
  <2>1. CASE ok
    BY <2>1 DEF Idle, PhaseInv, SetSteps, DynSteps, Gone
  <2>2. CASE ~ok
    <3>1. op'.pc = "undo" /\ op'.by = op.by /\ op'.todo = own
      BY <2>2 DEF TypeOK, Op
    <3> QED
      BY <2>2, <3>1 DEF PhaseInv, SetSteps, DynSteps
  <2> QED
    BY <2>1, <2>2
<1>4. StepInv'
  <2>1. CASE ok
    BY <2>1 DEF Idle, StepInv
  <2>2. CASE ~ok
    <3>1. op'.pc = "undo" /\ op'.by = op.by /\ op'.todo = own
      BY <2>2 DEF TypeOK, Op
    <3> QED
      BY <2>2, <3>1 DEF OwnedInv, PhaseInv, StepInv
  <2> QED
    BY <2>1, <2>2
<1>5. JournalCovers'
  BY DEF StepInv, JournalCovers
<1> QED
  BY <1>1, <1>2, <1>3, <1>4, <1>5

\* After a rollback only leaked objects remain.
LEMMA UndoEndsInv ==
    ASSUME IInv, UndoEnds
    PROVE  IInv'
<1> USE DEF IInv, UndoEnds, kernel, manager, Step
<1>1. TypeOK'
  <2>1. op' \in Op
    BY IdleTyped DEF TypeOK, Op, SetSteps
  <2> QED
    BY <2>1 DEF TypeOK
<1>2. OwnedInv'
  BY DEF Idle, TypeOK, Op, OwnedInv
<1>3. PhaseInv'
  BY DEF Idle, TypeOK, Op, PhaseInv, SetSteps, DynSteps, Gone
<1>4. StepInv'
  BY DEF Idle, TypeOK, Op, StepInv
<1>5. JournalCovers'
  BY DEF JournalCovers
<1> QED
  BY <1>1, <1>2, <1>3, <1>4, <1>5

\* The plan is removed when only leaked objects remain.
LEMMA DropPlanInv ==
    ASSUME IInv, NEW ok \in BOOLEAN, DropPlan(ok)
    PROVE  IInv'
<1> USE DEF IInv, DropPlan, kernel, manager
<1>1. TypeOK'
  <2>1. {} \in SUBSET Objects
    OBVIOUS
  <2>2. file' = {} \/ \E named \in SUBSET Objects : file' = {named}
    BY <2>1, WriteTyped
  <2>3. op' = Idle
    OBVIOUS
  <2>4. op' \in Op
    BY <2>3, IdleTyped
  <2> QED
    BY <2>1, <2>2, <2>4 DEF TypeOK
<1>2. OwnedInv'
  BY DEF Idle, OwnedInv
<1>3. PhaseInv'
  BY DEF Idle, PhaseInv, SetSteps, DynSteps, Gone
<1>4. StepInv'
  BY DEF Idle, StepInv
<1>5. JournalCovers'
  BY DEF StepInv, JournalCovers
<1> QED
  BY <1>1, <1>2, <1>3, <1>4, <1>5

\* The worker asks for dynamic objects only.
LEMMA StartDynamicInv ==
    ASSUME IInv, NEW next \in SUBSET Dynamic, StartDynamic(next)
    PROVE  IInv'
<1> USE DEF IInv, StartDynamic, kernel, manager, life, Call
<1>1. TypeOK'
  BY DEF TypeOK, Op, Callers, DynSteps, Dynamic
<1>2. OwnedInv'
  BY DEF OwnedInv
<1>3. PhaseInv'
  BY DEF PhaseInv, SetSteps
<1>4. StepInv'
  BY DEF StepInv
<1>5. JournalCovers'
  BY DEF JournalCovers
<1> QED
  BY <1>1, <1>2, <1>3, <1>4, <1>5

\* The dynamic plan names what is owned and what is asked for.
LEMMA WriteDynamicPlanInv ==
    ASSUME IInv, NEW ok \in BOOLEAN, WriteDynamicPlan(ok)
    PROVE  IInv'
<1> USE DEF IInv, WriteDynamicPlan, kernel, manager, life, Write, Step
<1>1. TypeOK'
  <2>1. Planned \in SUBSET Objects
    BY DEF TypeOK, Op, Planned
  <2>2. file' = {} \/ \E named \in SUBSET Objects : file' = {named}
    BY <2>1, WriteTyped
  <2>3. op' = Idle \/ op' = [op EXCEPT !.pc = "dsync"]
    OBVIOUS
  <2>4. op' \in Op
    BY <2>3, IdleTyped DEF TypeOK, Op, DynSteps
  <2> QED
    BY <2>1, <2>2, <2>4 DEF TypeOK
<1>2. OwnedInv'
  BY DEF OwnedInv, Planned
<1>3. PhaseInv'
  BY DEF Idle, TypeOK, Op, PhaseInv, SetSteps, DynSteps
<1>4. StepInv'
  BY DEF Idle, TypeOK, Op, StepInv, Planned
<1>5. JournalCovers'
  <2>1. ours \ leaked \subseteq own /\ own \subseteq journal
    BY DEF OwnedInv, PhaseInv
  <2>2. file' = {Planned} \/ file' = file
    OBVIOUS
  <2> QED
    BY <2>1, <2>2, CoveredFacts DEF JournalCovers, Planned
<1> QED
  BY <1>1, <1>2, <1>3, <1>4, <1>5

\* A dynamic route is added under a plan that names it.
LEMMA DynamicAddInv ==
    ASSUME IInv, NEW o \in Objects, DynamicAdd(o)
    PROVE  IInv'
<1> USE DEF IInv, DynamicAdd, life, Install
<1>1. TypeOK'
  BY DEF TypeOK
<1>2. OwnedInv'
  BY DEF OwnedInv, Planned, ToAdd
<1>3. PhaseInv'
  BY DEF PhaseInv, DynSteps, Gone
<1>4. StepInv'
  BY DEF StepInv, Planned
<1>5. JournalCovers'
  <2>1. file' = {Planned} /\ o \in Planned
    BY DEF StepInv, Planned, ToAdd
  <2>2. Covered(file') = Planned /\ Covered(file) = Planned
    BY <2>1, CoveredFacts
  <2> QED
    BY <2>1, <2>2 DEF JournalCovers
<1> QED
  BY <1>1, <1>2, <1>3, <1>4, <1>5

\* A dynamic route is deleted and forgotten together.
LEMMA DynamicDeleteInv ==
    ASSUME IInv, NEW o \in Objects, DynamicDelete(o)
    PROVE  IInv'
<1> USE DEF IInv, DynamicDelete, life, Uninstall
<1>1. TypeOK'
  BY DEF TypeOK
<1>2. OwnedInv'
  BY DEF OwnedInv, Planned
<1>3. PhaseInv'
  BY DEF PhaseInv
<1>4. StepInv'
  BY DEF StepInv, Planned
<1>5. JournalCovers'
  BY DEF JournalCovers
<1> QED
  BY <1>1, <1>2, <1>3, <1>4, <1>5

\* A failed reconciliation keeps the plan in force.
LEMMA DynamicFailsInv ==
    ASSUME IInv, DynamicFails
    PROVE  IInv'
<1> USE DEF IInv, DynamicFails, kernel, life
<1>1. TypeOK'
  BY IdleTyped DEF TypeOK, StepInv
<1>2. OwnedInv'
  BY DEF Idle, OwnedInv
<1>3. PhaseInv'
  BY DEF Idle, PhaseInv, SetSteps, DynSteps
<1>4. StepInv'
  BY DEF Idle, StepInv
<1>5. JournalCovers'
  BY DEF JournalCovers
<1> QED
  BY <1>1, <1>2, <1>3, <1>4, <1>5

\* Nothing is left to add or delete.
LEMMA DynamicSyncedInv ==
    ASSUME IInv, DynamicSynced
    PROVE  IInv'
<1> USE DEF IInv, DynamicSynced, kernel, manager, life, Step
<1>1. TypeOK'
  BY DEF TypeOK, Op, DynSteps
<1>2. OwnedInv'
  BY DEF OwnedInv, Planned
<1>3. PhaseInv'
  BY DEF PhaseInv, SetSteps, DynSteps
<1>4. StepInv'
  BY DEF StepInv, Planned, ToDelete
<1>5. JournalCovers'
  BY DEF JournalCovers
<1> QED
  BY <1>1, <1>2, <1>3, <1>4, <1>5

\* The commit drops only routes that are deleted.
LEMMA WriteDynamicCommitInv ==
    ASSUME IInv, NEW ok \in BOOLEAN, WriteDynamicCommit(ok)
    PROVE  IInv'
<1> USE DEF IInv, WriteDynamicCommit, kernel, life, Write, Committed
<1>1. TypeOK'
  <2>1. Committed \in SUBSET Objects /\ Planned \in SUBSET Objects
    BY DEF TypeOK, Op, Planned
  <2>2. file' = {} \/ \E named \in SUBSET Objects : file' = {named}
    BY <2>1, WriteTyped
  <2>3. op' = Idle /\ journal' \in SUBSET Objects
    BY <2>1
  <2> QED
    BY <2>2, <2>3, IdleTyped DEF TypeOK
<1>2. OwnedInv'
  BY DEF OwnedInv, StepInv, Planned, ToDelete
<1>3. PhaseInv'
  BY DEF Idle, PhaseInv, SetSteps, DynSteps
<1>4. StepInv'
  BY DEF Idle, StepInv
<1>5. JournalCovers'
  <2>1. ours \ leaked \subseteq own /\ own \subseteq Planned /\ ToDelete = {}
    BY DEF OwnedInv, PhaseInv, StepInv
  <2>2. own \subseteq Committed
    BY <2>1 DEF Planned, ToDelete
  <2>3. file' = {Committed} \/ file' = file
    OBVIOUS
  <2> HIDE DEF Committed
  <2> QED
    BY <2>1, <2>2, <2>3, CoveredFacts DEF JournalCovers
<1> QED
  BY <1>1, <1>2, <1>3, <1>4, <1>5

\* Cleanup removes an owned object or records that it leaked.
LEMMA CloseObjectInv ==
    ASSUME IInv, NEW o \in Objects, NEW ok \in BOOLEAN, CloseObject(o, ok)
    PROVE  IInv'
<1> USE DEF IInv, CloseObject, kernel, life, Uninstall
<1>1. TypeOK'
  <2>1. op' \in Op
    BY DEF TypeOK, Op
  <2> QED
    BY <2>1 DEF TypeOK
<1>2. OwnedInv'
  BY DEF OwnedInv
<1>3. PhaseInv'
  BY DEF PhaseInv
<1>4. StepInv'
  BY DEF StepInv
<1>5. JournalCovers'
  BY DEF JournalCovers
<1> QED
  BY <1>1, <1>2, <1>3, <1>4, <1>5

\* Cleanup starts from everything owned.
LEMMA StartCloseInv ==
    ASSUME IInv, NEW by \in {"setup", "controller", "disconnect"}, StartClose(by)
    PROVE  IInv'
<1> USE DEF IInv, StartClose, kernel, manager, life, Call
<1>1. TypeOK'
  BY DEF TypeOK, Op, Callers, CloseSteps
<1>2. OwnedInv'
  BY DEF OwnedInv
<1>3. PhaseInv'
  BY DEF PhaseInv, SetSteps, DynSteps
<1>4. StepInv'
  BY DEF OwnedInv, StepInv
<1>5. JournalCovers'
  BY DEF JournalCovers
<1> QED
  BY <1>1, <1>2, <1>3, <1>4, <1>5

\* After a cleanup only leaked objects remain.
LEMMA CloseEndsInv ==
    ASSUME IInv, CloseEnds
    PROVE  IInv'
<1> USE DEF IInv, CloseEnds, kernel, manager, life, Step
<1>1. TypeOK'
  BY DEF TypeOK, Op, CloseSteps
<1>2. OwnedInv'
  BY DEF OwnedInv
<1>3. PhaseInv'
  BY DEF PhaseInv, SetSteps, DynSteps
<1>4. StepInv'
  BY DEF StepInv
<1>5. JournalCovers'
  BY DEF JournalCovers
<1> QED
  BY <1>1, <1>2, <1>3, <1>4, <1>5

\* The journal is kept when only leaked objects remain.
LEMMA KeepJournalInv ==
    ASSUME IInv, NEW ok \in BOOLEAN, KeepJournal(ok)
    PROVE  IInv'
<1> USE DEF IInv, KeepJournal, kernel, manager, Return, DropDevice
<1>1. TypeOK'
  <2>1. journal \in SUBSET Objects
    BY DEF TypeOK
  <2>2. file' = {} \/ \E named \in SUBSET Objects : file' = {named}
    BY <2>1, WriteTyped
  <2>3. op' = Idle
    OBVIOUS
  <2>4. op' \in Op
    BY <2>3, IdleTyped
  <2> QED
    BY <2>1, <2>2, <2>4 DEF TypeOK, Gone
<1>2. OwnedInv'
  BY DEF Idle, OwnedInv
<1>3. PhaseInv'
  BY DEF Idle, PhaseInv, StepInv, SetSteps, DynSteps
<1>4. StepInv'
  BY DEF Idle, StepInv
<1>5. JournalCovers'
  BY DEF StepInv, JournalCovers
<1> QED
  BY <1>1, <1>2, <1>3, <1>4, <1>5

\* The journal is removed when only leaked objects remain.
LEMMA UnlinkInv ==
    ASSUME IInv, NEW ok \in BOOLEAN, Unlink(ok)
    PROVE  IInv'
<1> USE DEF IInv, Unlink, kernel, manager, Return, DropDevice
<1>1. TypeOK'
  <2>1. {} \in SUBSET Objects
    OBVIOUS
  <2>2. file' = {} \/ \E named \in SUBSET Objects : file' = {named}
    BY <2>1, WriteTyped
  <2>3. op' = Idle
    OBVIOUS
  <2>4. op' \in Op
    BY <2>3, IdleTyped
  <2> QED
    BY <2>1, <2>2, <2>4 DEF TypeOK, Gone
<1>2. OwnedInv'
  BY DEF Idle, OwnedInv
<1>3. PhaseInv'
  BY DEF Idle, PhaseInv, StepInv, SetSteps, DynSteps
<1>4. StepInv'
  BY DEF Idle, StepInv
<1>5. JournalCovers'
  BY DEF StepInv, JournalCovers
<1> QED
  BY <1>1, <1>2, <1>3, <1>4, <1>5

\* The process takes the TUN device with it; the file stays.
LEMMA StopInv ==
    ASSUME IInv, Stop
    PROVE  IInv'
<1> USE DEF IInv, Stop, DropDevice
<1>1. TypeOK'
  BY IdleTyped DEF TypeOK
<1>2. OwnedInv'
  BY DEF OwnedInv
<1>3. PhaseInv'
  BY DEF Idle, PhaseInv, SetSteps, DynSteps, Gone
<1>4. StepInv'
  BY DEF Idle, StepInv
<1>5. JournalCovers'
  BY DEF JournalCovers
<1> QED
  BY <1>1, <1>2, <1>3, <1>4, <1>5

\* Recovery starts from everything the file names.
LEMMA StartInv ==
    ASSUME IInv, Start
    PROVE  IInv'
<1> USE DEF IInv, Start, kernel, manager
<1>1. TypeOK'
  <2>1. CASE file = {}
    BY <2>1 DEF TypeOK
  <2>2. CASE file # {}
    <3>1. op' = [pc |-> "recover", by |-> "nobody", want |-> {}, todo |-> Covered(file) \ TunBound, err |-> FALSE]
      BY <2>2 DEF Idle
    <3>2. op' \in Op
      BY <3>1, CoveredTyped DEF Op, Callers
    <3> QED
      BY <2>2, <3>2 DEF TypeOK
  <2> QED
    BY <2>1, <2>2
<1>2. OwnedInv'
  <2>1. CASE file = {}
    BY <2>1, CoveredFacts DEF OwnedInv, PhaseInv, JournalCovers
  <2>2. CASE file # {}
    <3>1. op' = [pc |-> "recover", by |-> "nobody", want |-> {}, todo |-> Covered(file) \ TunBound, err |-> FALSE]
      BY <2>2 DEF Idle
    <3> QED
      BY <2>2, <3>1 DEF OwnedInv, PhaseInv
  <2> QED
    BY <2>1, <2>2
<1>3. PhaseInv'
  <2>1. CASE file = {}
    BY <2>1 DEF PhaseInv
  <2>2. CASE file # {}
    <3>1. op' = [pc |-> "recover", by |-> "nobody", want |-> {}, todo |-> Covered(file) \ TunBound, err |-> FALSE]
      BY <2>2 DEF Idle
    <3> QED
      BY <2>2, <3>1 DEF PhaseInv, SetSteps, DynSteps
  <2> QED
    BY <2>1, <2>2
<1>4. StepInv'
  <2>1. CASE file = {}
    BY <2>1 DEF StepInv
  <2>2. CASE file # {}
    <3>1. op' = [pc |-> "recover", by |-> "nobody", want |-> {}, todo |-> Covered(file) \ TunBound, err |-> FALSE]
      BY <2>2 DEF Idle
    <3> QED
      BY <2>2, <3>1 DEF PhaseInv, StepInv, JournalCovers
  <2> QED
    BY <2>1, <2>2
<1>5. JournalCovers'
  BY DEF JournalCovers
<1> QED
  BY <1>1, <1>2, <1>3, <1>4, <1>5

\* Recovery removes an object or remembers the error.
LEMMA RecoverObjectInv ==
    ASSUME IInv, NEW o \in Objects, NEW ok \in BOOLEAN, RecoverObject(o, ok)
    PROVE  IInv'
<1> USE DEF IInv, RecoverObject, kernel, manager, life, Uninstall
<1>1. TypeOK'
  <2>1. op' \in Op
    BY DEF TypeOK, Op
  <2> QED
    BY <2>1 DEF TypeOK
<1>2. OwnedInv'
  BY DEF OwnedInv
<1>3. PhaseInv'
  BY DEF PhaseInv
<1>4. StepInv'
  BY DEF TypeOK, Op, StepInv
<1>5. JournalCovers'
  BY DEF JournalCovers
<1> QED
  BY <1>1, <1>2, <1>3, <1>4, <1>5

\* A daemon comes up from a recovery without errors only.
LEMMA RecoverEndsInv ==
    ASSUME IInv, NEW ok \in BOOLEAN, RecoverEnds(ok)
    PROVE  IInv'
<1> USE DEF IInv, RecoverEnds, kernel, manager, Remove
<1>1. TypeOK'
  <2>1. {} \in SUBSET Objects
    OBVIOUS
  <2>2. file' = {} \/ \E named \in SUBSET Objects : file' = {named}
    BY <2>1, WriteTyped
  <2>3. op' = Idle
    OBVIOUS
  <2>4. op' \in Op
    BY <2>3, IdleTyped
  <2> QED
    BY <2>1, <2>2, <2>4 DEF TypeOK
<1>2. OwnedInv'
  BY DEF OwnedInv, PhaseInv, StepInv
<1>3. PhaseInv'
  BY DEF Idle, PhaseInv, SetSteps, DynSteps
<1>4. StepInv'
  BY DEF Idle, StepInv
<1>5. JournalCovers'
  BY DEF StepInv, JournalCovers
<1> QED
  BY <1>1, <1>2, <1>3, <1>4, <1>5

-----------------------------------------------------------------------------
(* The theorems.                                                            *)

\* The daemon starts with no journal, no connection and nothing installed.
LEMMA InitIInv == Init => IInv
<1> SUFFICES ASSUME Init PROVE IInv
  OBVIOUS
<1>1. TypeOK
  BY IdleTyped DEF Init, TypeOK
<1>2. OwnedInv /\ PhaseInv /\ StepInv /\ JournalCovers
  BY DEF Init, Idle, OwnedInv, PhaseInv, StepInv, JournalCovers, SetSteps, DynSteps, Gone
<1> QED
  BY <1>1, <1>2 DEF IInv

\* Every step preserves the inductive invariant.
LEMMA NextIInv == IInv /\ [Next]_vars => IInv'
<1> SUFFICES ASSUME IInv, [Next]_vars PROVE IInv'
  OBVIOUS
<1>1. CASE UNCHANGED vars
  BY <1>1 DEF vars, IInv, TypeOK, OwnedInv, PhaseInv, StepInv, JournalCovers, Planned, ToDelete
<1>2. CASE Next
  BY <1>2, NewConnectionInv, AbandonSetupInv, FlagsInv, WorkerStopsInv, ReleaseInv, StartSetInv,
     WritePlanInv, ApplyInv, ApplyFailsInv, AppliedInv, WriteCommitInv, UndoEndsInv,
     DropPlanInv, StartDynamicInv, WriteDynamicPlanInv, DynamicAddInv,
     DynamicDeleteInv, DynamicFailsInv, DynamicSyncedInv, WriteDynamicCommitInv,
     CloseObjectInv, StartCloseInv, CloseEndsInv, KeepJournalInv, UnlinkInv, StopInv,
     StartInv, RecoverObjectInv, RecoverEndsInv
     DEF Next
<1> QED
  BY <1>1, <1>2

\* IInv holds in every state of the network transaction: what JournalCovers and
\* NothingLeftBehind need to be inductive.
THEOREM InductiveInvariant == Spec => []IInv
BY InitIInv, NextIInv, PTL DEF Spec

\* Every variable of the network transaction keeps its type, and no object is
\* at once the daemon's and the host's.
THEOREM TypeCorrect == Spec => []TypeOK
<1>1. IInv => TypeOK
  BY DEF IInv
<1> QED
  BY <1>1, InductiveInvariant, PTL

\* For every set of routes and every order of failures and stops, the journal
\* on disk names all the daemon has installed, what a cleanup failed to remove
\* excepted.
THEOREM JournalAlwaysCovers == Spec => []JournalCovers
<1>1. IInv => JournalCovers
  BY DEF IInv
<1> QED
  BY <1>1, InductiveInvariant, PTL

\* However connections end and the daemon stops, a running daemon without a
\* connection has left nothing behind, what a cleanup failed to remove excepted.
THEOREM NothingEverLeftBehind == Spec => []NothingLeftBehind
<1>1. IInv => NothingLeftBehind
  BY DEF IInv, OwnedInv, PhaseInv, NothingLeftBehind
<1> QED
  BY <1>1, InductiveInvariant, PTL

\* No step of a running daemon removes a route of the host: Set, its rollback,
\* the dynamic route worker and Close remove only what they recorded as owned.
LEMMA StepKeepsHost ==
    ASSUME IInv, Next, daemon = "up"
    PROVE  host \subseteq host'
<1>1. own \cap host = {} /\ op.pc # "recover"
  BY DEF IInv, OwnedInv, PhaseInv
<1>2. ASSUME NEW o \in Objects, DynamicDelete(o) PROVE host \subseteq host'
  BY <1>1, <1>2 DEF DynamicDelete, Uninstall, ToDelete
<1>3. ASSUME NEW o \in Objects, NEW ok \in BOOLEAN, CloseObject(o, ok) PROVE host \subseteq host'
  <2>1. o \in own
    BY <1>3 DEF IInv, StepInv, CloseObject, First
  <2> QED
    BY <1>1, <1>3, <2>1 DEF CloseObject, Uninstall, kernel
<1>4. ASSUME NEW o \in Objects, Apply(o) \/ DynamicAdd(o) PROVE host' = host
  BY <1>4 DEF Apply, DynamicAdd, Install
<1>5. ASSUME NEW ok \in BOOLEAN,
             \/ WritePlan(ok) \/ WriteCommit(ok) \/ DropPlan(ok) \/ WriteDynamicPlan(ok)
             \/ WriteDynamicCommit(ok) \/ KeepJournal(ok) \/ Unlink(ok) \/ RecoverEnds(ok)
      PROVE  host' = host
  BY <1>5 DEF WritePlan, WriteCommit, DropPlan, WriteDynamicPlan, WriteDynamicCommit, KeepJournal,
     Unlink, RecoverEnds, Return, DropDevice, kernel
<1>6. ASSUME NEW o \in Objects, NEW ok \in BOOLEAN PROVE ~RecoverObject(o, ok)
  BY <1>1 DEF RecoverObject
<1>7. CASE \/ NewConnection \/ AbandonSetup \/ SessionEnds \/ WorkerStops \/ Release
           \/ Disconnect \/ AwaitDrain \/ Drained \/ DrainTimeout \/ DrainCancelled
           \/ \E cfg \in Configs : StartSet(cfg)
           \/ \E next \in SUBSET Dynamic : StartDynamic(next)
           \/ \E by \in {"setup", "controller", "disconnect"} : StartClose(by)
  BY <1>7 DEF NewConnection, AbandonSetup, SessionEnds, WorkerStops, Release, Disconnect,
     AwaitDrain, Drained,
     DrainTimeout, DrainCancelled, StartSet, StartDynamic, StartClose, kernel
<1>8. CASE \/ ApplyFails \/ Applied \/ UndoEnds \/ DynamicFails \/ DynamicSynced \/ CloseEnds
           \/ Start \/ Stop
  BY <1>8 DEF ApplyFails, Applied, UndoEnds, DynamicFails, DynamicSynced, CloseEnds, Start, Stop,
     DropDevice, kernel
<1> QED
  BY <1>2, <1>3, <1>4, <1>5, <1>6, <1>7, <1>8 DEF Next

\* A running daemon never removes a route the host had before it.
THEOREM HostRoutesAlwaysKept == Spec => HostRoutesKept
<1>1. IInv /\ [Next]_vars => [daemon = "up" => host \subseteq host']_vars
  BY StepKeepsHost DEF vars
<1> QED
  BY <1>1, InductiveInvariant, PTL DEF Spec, HostRoutesKept

=============================================================================
