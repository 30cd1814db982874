-------------------------- MODULE ControllerProofs --------------------------
(***************************************************************************)
(* Theorems about every run of the Controller module, for all values of    *)
(* its constants: its types, and which commits its work rests on.          *)
(***************************************************************************)
EXTENDS ControllerProperties, SequenceTheorems, TLAPS

-----------------------------------------------------------------------------
(* Types. *)

\* What the types need to know of the control: the baseline candidate exists
\* once the try is entered, and a command is run only if one is left.
ControlInv ==
  /\ pc \notin BeforeTry \union {"raised", "crashed"} => rows # <<>> /\ history # <<>>
  /\ pc \in {"run_command", "record_command"} => proposal.commands > 0

TypeInv == TypeOK /\ ControlInv

\* Every transition the loop asks for names a state and a decision.
LEMMA RequestTypes ==
  ASSUME NEW p \in Requesting
  PROVE  Request(p).target \in ControllerState /\ Request(p).decision \in TransitionDecision
BY DEF Requesting, Request, ControllerState, Terminal, TransitionDecision

\* The event of a transition is an event.
LEMMA MovedType ==
  ASSUME pc \in Requesting, cs \in ControllerState, NEW n \in Nat
  PROVE  Moved(n) \in Event
BY RequestTypes DEF Moved, Event, EventType

\* A recorded event is an event.
LEMMA NoteType ==
  ASSUME iteration \in Nat, NEW type \in EventType, NEW s \in ControllerState,
         NEW d \in TransitionDecision \union {"none"}
  PROVE  Note(type, s, d) \in Event
BY DEF Note, Event

\* The policy decides.
LEMMA DecideType ==
  ASSUME NEW v, NEW h, NEW claimed \in BOOLEAN
  PROVE  Decide(v, h, claimed) \in TransitionDecision
BY DEF Decide, TransitionDecision

\* A transition keeps the machine's types.
LEMMA TransitionTypes ==
  ASSUME MachineTypes, pc \in Requesting, NEW n \in Nat, Transition(n)
  PROVE  MachineTypes'
BY RequestTypes, MovedType DEF MachineTypes, Transition

LEMMA RecordTypes ==
  ASSUME MachineTypes, iteration \in Nat, NEW type \in EventType,
         NEW d \in TransitionDecision \union {"none"}, Record(type, d)
  PROVE  MachineTypes'
BY NoteType DEF MachineTypes, Record

\* Setting the status of a candidate in a table of candidates changes that
\* candidate's status and nothing else.
LEMMA StatusUpdate ==
  ASSUME NEW S \in Seq(Candidate), NEW n \in 1 .. Len(S), NEW s \in CandidateStatus
  PROVE  /\ [S EXCEPT ![n].status = s] \in Seq(Candidate)
         /\ Len([S EXCEPT ![n].status = s]) = Len(S)
         /\ [S[n] EXCEPT !.status = s] \in Candidate
         /\ \A j \in 1 .. Len(S) : [S EXCEPT ![n].status = s][j] =
                                     IF j = n THEN [S[n] EXCEPT !.status = s] ELSE S[j]
<1>1. S[n] \in Candidate
  BY ElementOfSeq
<1>2. [S[n] EXCEPT !.status = s] \in Candidate
  BY <1>1 DEF Candidate
<1>3. [S EXCEPT ![n].status = s] = [S EXCEPT ![n] = [S[n] EXCEPT !.status = s]]
  OBVIOUS
<1> QED
  BY <1>2, <1>3, ExceptSeq

\* The same of its evaluation.
LEMMA VectorUpdate ==
  ASSUME NEW S \in Seq(Candidate), NEW n \in 1 .. Len(S), NEW v \in Vectors \union {NoVector}
  PROVE  /\ [S EXCEPT ![n].vec = v] \in Seq(Candidate)
         /\ Len([S EXCEPT ![n].vec = v]) = Len(S)
         /\ [S[n] EXCEPT !.vec = v] \in Candidate
         /\ \A j \in 1 .. Len(S) : [S EXCEPT ![n].vec = v][j] =
                                     IF j = n THEN [S[n] EXCEPT !.vec = v] ELSE S[j]
<1>1. S[n] \in Candidate
  BY ElementOfSeq
<1>2. [S[n] EXCEPT !.vec = v] \in Candidate
  BY <1>1 DEF Candidate
<1>3. [S EXCEPT ![n].vec = v] = [S EXCEPT ![n] = [S[n] EXCEPT !.vec = v]]
  OBVIOUS
<1> QED
  BY <1>2, <1>3, ExceptSeq

\* Control stays in its range, whatever the step.
LEMMA ControlTypesStep ==
  ASSUME TypeInv, [Next]_vars
  PROVE  ControlTypes'
<1> USE DEF TypeInv, TypeOK, ControlTypes, ControlPoints, Requesting, Ended, Exceptions,
            Goto, Raise, ending
<1>1. CASE UNCHANGED vars
  BY <1>1 DEF vars
<1>2. CASE Fail \/ Crash \/ Over
  BY <1>2, <1>1 DEF Fail, Crash, Over
<1>3. CASE Step
  BY <1>3 DEF Step, CreateRun, CreateBaseline, Initialize, ValidateGoal, BeginBaseline,
    EvaluateBaseline, RecordBaseline, CheckBudget, EnterContext, ContextReady, Propose,
    RecordProposal, CheckPolicy, RecordPolicy, RejectProposal, RecordRefusal,
    BeginExecution, RecordStart, ApplyEdits, RunCommand, RecordCommand, RollBack,
    RestoreFails, BeginCheckpoint, Checkpoint, RecordCheckpoint, BeginEvaluation,
    Evaluate, CreateCandidate, RecordEvaluation, CompleteEvaluation, SelectTransition,
    RecordDecision, Accept, Reject, BeginVerify, Verify, RefuseCompletion,
    AcceptCompletion, SetCompleted, DeclareCompletion, RecordCompletion, StoreManifest,
    RecordManifest, RecordStored, Cancel, DeclareCancelled, InvalidTransition, Close
<1> QED
  BY <1>1, <1>2, <1>3 DEF Next

\* The machine and the log keep their types: a step asks for a transition,
\* records an event, or does neither.
LEMMA MachineTypesStep ==
  ASSUME TypeInv, [Next]_vars
  PROVE  MachineTypes'
<1> USE DEF TypeInv, TypeOK, TurnTypes
<1>1. CASE \/ Initialize \/ BeginBaseline \/ EnterContext \/ ContextReady \/ CheckPolicy
           \/ RejectProposal \/ BeginExecution \/ BeginCheckpoint \/ BeginEvaluation
           \/ SelectTransition \/ BeginVerify \/ DeclareCompletion \/ DeclareCancelled
           \/ RollBack /\ Transition(iteration)
  BY <1>1, TransitionTypes, ControllerAssumption DEF Requesting, Initialize, BeginBaseline,
    EnterContext, ContextReady, CheckPolicy, RejectProposal, BeginExecution, RollBack,
    BeginCheckpoint, BeginEvaluation, SelectTransition, BeginVerify, DeclareCompletion,
    DeclareCancelled
<1>2. CASE \/ Propose \/ RecordProposal \/ RecordPolicy \/ RecordRefusal \/ RecordStart
           \/ RecordCommand \/ RecordCheckpoint \/ CompleteEvaluation \/ RecordDecision
           \/ RecordCompletion \/ RecordStored
  <2>1. PICK type \in EventType, d \in TransitionDecision \union {"none"} : Record(type, d)
    <3>1. CASE RecordDecision
      BY <3>1, DecideType DEF RecordDecision, Proposal, EventType
    <3>2. CASE RecordPolicy \/ RecordRefusal
      BY <3>2 DEF RecordPolicy, RecordRefusal, DecideRefused, EventType, TransitionDecision
    <3>3. CASE \/ Propose \/ RecordProposal \/ RecordStart \/ RecordCommand
               \/ RecordCheckpoint \/ CompleteEvaluation \/ RecordCompletion \/ RecordStored
      BY <3>3 DEF Propose, RecordProposal, RecordStart, RecordCommand, RecordCheckpoint,
        CompleteEvaluation, RecordCompletion, RecordStored, EventType
    <3> QED
      BY <1>2, <3>1, <3>2, <3>3
  <2> QED
    BY <2>1, RecordTypes
<1>3. ASSUME UNCHANGED machine
      PROVE  MachineTypes'
  BY <1>3 DEF machine, MachineTypes
<1>4. CASE \/ CreateRun \/ CreateBaseline \/ ValidateGoal \/ EvaluateBaseline
           \/ RecordBaseline \/ CheckBudget \/ ApplyEdits \/ RunCommand \/ Checkpoint
           \/ Evaluate \/ CreateCandidate \/ RecordEvaluation \/ Accept \/ Reject \/ Verify
           \/ RefuseCompletion \/ AcceptCompletion \/ SetCompleted \/ StoreManifest
           \/ RecordManifest \/ Cancel \/ InvalidTransition \/ Close
  BY <1>3, <1>4 DEF CreateRun, CreateBaseline, ValidateGoal, EvaluateBaseline,
    RecordBaseline, CheckBudget, ApplyEdits, RunCommand, Checkpoint, Evaluate,
    CreateCandidate, RecordEvaluation, Accept, Reject, Verify, RefuseCompletion,
    AcceptCompletion, SetCompleted, StoreManifest, RecordManifest, Cancel,
    InvalidTransition, Close, Raise
<1>5. CASE RollBack /\ ~Transition(iteration)
  BY <1>3, <1>5 DEF RollBack
<1>6. CASE Fail \/ Crash \/ Over \/ UNCHANGED vars
  BY <1>3, <1>6 DEF Fail, Crash, Over, vars
<1> QED
  BY <1>1, <1>2, <1>4, <1>5, <1>6 DEF Next, Step

\* The candidate of the turn, when it is new and when it is judged, is a candidate.
LEMMA LocalType ==
  ASSUME TypeInv, pc \notin BeforeTry \union {"raised", "crashed"}, NEW s \in CandidateStatus
  PROVE  Local(s) \in Candidate /\ NewCandidate \in Candidate
<1>1. Len(history) \in 1 .. Len(history) /\ history \in Seq(Candidate)
  BY EmptySeq DEF TypeInv, TypeOK, StoreTypes, ControlInv
<1>2. history[Len(history)] \in Candidate
  BY <1>1, ElementOfSeq
<1>3. \A t \in CandidateStatus : Local(t) \in Candidate
  BY <1>2 DEF Local, TypeInv, TypeOK, GitTypes, TurnTypes, Candidate
<1> QED
  BY <1>3 DEF NewCandidate, Candidate, CandidateStatus

\* The database and the history keep their types.
LEMMA StoreTypesStep ==
  ASSUME TypeInv, [Next]_vars
  PROVE  StoreTypes'
<1> USE DEF TypeInv, TypeOK, StoreTypes
<1>1. CASE CreateBaseline
  <2>1. [commit |-> head, parent |-> 0, depth |-> 0, iteration |-> 0,
         status |-> "ACCEPTED", vec |-> NoVector] \in Candidate
    BY DEF GitTypes, Candidate, CandidateStatus
  <2> QED
    BY <1>1, <2>1 DEF CreateBaseline
<1>2. CASE EvaluateBaseline \/ RecordBaseline
  <2>1. /\ 1 \in 1 .. Len(history) /\ history \in Seq(Candidate)
        /\ 1 \in 1 .. Len(rows) /\ rows \in Seq(Candidate)
    BY <1>2, EmptySeq DEF EvaluateBaseline, RecordBaseline, ControlInv, BeforeTry, Ended
  <2>2. ASSUME NEW v \in Vectors \union {NoVector}
        PROVE  /\ [history EXCEPT ![1].vec = v] \in Seq(Candidate)
               /\ [rows EXCEPT ![1].vec = v] \in Seq(Candidate)
    BY <2>1, VectorUpdate
  <2>3. history[1] \in Candidate
    BY <2>1, ElementOfSeq
  <2>4. history[1].vec \in Vectors \union {NoVector}
    BY <2>3 DEF Candidate
  <2> QED
    BY <1>2, <2>2, <2>4 DEF EvaluateBaseline, RecordBaseline, db
<1>3. CASE CreateCandidate
  <2>1. NewCandidate \in Candidate
    BY <1>3, LocalType DEF CreateCandidate, CandidateStatus, BeforeTry, Ended
  <2> QED
    BY <1>3, <2>1, AppendProperties DEF CreateCandidate, runVars
<1>4. CASE RecordEvaluation \/ Accept \/ Reject \/ RefuseCompletion \/ AcceptCompletion
  <2>1. Len(rows) \in 1 .. Len(rows) /\ pc \notin BeforeTry \union {"raised", "crashed"}
    BY <1>4, EmptySeq DEF RecordEvaluation, Accept, Reject, RefuseCompletion,
      AcceptCompletion, ControlInv, BeforeTry, Ended
  <2>2. CASE RecordEvaluation
    <3>1. [rows EXCEPT ![Len(rows)].vec = vector] \in Seq(Candidate)
      BY <2>1, VectorUpdate DEF TurnTypes
    <3> QED
      BY <2>2, <3>1 DEF RecordEvaluation, runVars
  <2>3. CASE Accept \/ Reject \/ RefuseCompletion \/ AcceptCompletion
    <3>1. PICK s \in CandidateStatus : SetCandidateStatus(s) /\ (Judge(s) \/ UNCHANGED history)
      BY <2>3 DEF Accept, Reject, RefuseCompletion, AcceptCompletion, CandidateStatus
    <3>2. rows' \in Seq(Candidate) /\ Local(s) \in Candidate
      BY <2>1, <3>1, StatusUpdate, LocalType DEF SetCandidateStatus
    <3>3. UNCHANGED <<status, manifest>>
      BY <2>3 DEF Accept, Reject, RefuseCompletion, AcceptCompletion
    <3>4. history' \in Seq(Candidate)
      <4>1. CASE Judge(s)
        BY <3>2, <4>1, AppendProperties DEF Judge
      <4> QED
        BY <3>1, <4>1
    <3> QED
      BY <3>2, <3>3, <3>4
  <2> QED
    BY <1>4, <2>2, <2>3
<1>5. CASE \/ CreateRun \/ ValidateGoal \/ SetCompleted \/ StoreManifest \/ RecordManifest
           \/ RecordStored \/ Cancel
  BY <1>5 DEF CreateRun, ValidateGoal, SetCompleted, StoreManifest, RecordManifest,
    RecordStored, Cancel, Raise, runVars, db, RunStatus
<1>6. ASSUME UNCHANGED <<db, history>>
      PROVE  StoreTypes'
  BY <1>6 DEF db
<1>7. CASE \/ Initialize \/ BeginBaseline \/ CheckBudget \/ EnterContext \/ ContextReady
           \/ Propose \/ RecordProposal \/ CheckPolicy \/ RecordPolicy \/ RejectProposal
           \/ RecordRefusal \/ BeginExecution \/ RecordStart \/ ApplyEdits \/ RunCommand
           \/ RecordCommand \/ RollBack \/ BeginCheckpoint \/ Checkpoint
           \/ RecordCheckpoint \/ BeginEvaluation \/ Evaluate \/ CompleteEvaluation
           \/ SelectTransition
           \/ RecordDecision \/ BeginVerify \/ Verify \/ DeclareCompletion
           \/ RecordCompletion \/ DeclareCancelled \/ InvalidTransition \/ Close
  BY <1>6, <1>7 DEF Initialize, BeginBaseline, CheckBudget, EnterContext, ContextReady,
    Propose, RecordProposal, CheckPolicy, RecordPolicy, RejectProposal, RecordRefusal,
    BeginExecution, RecordStart, ApplyEdits, RunCommand, RecordCommand, RollBack,
    BeginCheckpoint, Checkpoint, RecordCheckpoint, BeginEvaluation, Evaluate,
    CompleteEvaluation, SelectTransition, RecordDecision, BeginVerify, Verify,
    DeclareCompletion, RecordCompletion, DeclareCancelled, InvalidTransition, Close, Raise,
    runVars
<1>8. CASE Fail \/ Crash \/ Over \/ UNCHANGED vars
  BY <1>6, <1>8 DEF Fail, Crash, Over, vars, runVars
<1> QED
  BY <1>1, <1>2, <1>3, <1>4, <1>5, <1>7, <1>8 DEF Next, Step

\* No pointer into the git history dangles, and the history keeps its type.
LEMMA GitTypesStep ==
  ASSUME TypeInv, [Next]_vars
  PROVE  GitTypes'
<1> USE DEF TypeInv, TypeOK, GitTypes
<1>1. CASE Checkpoint
  <2>1. CASE CommitAll
    <3>1. [parent |-> head, edits |-> edits, iteration |-> iteration] \in Commit
      BY DEF Commit, TurnTypes
    <3>2. commits' \in Seq(Commit) /\ Len(commits') = Len(commits) + 1
      BY <2>1, <3>1, AppendProperties DEF CommitAll
    <3>3. Len(commits) \in Nat
      BY LenProperties
    <3>4. {active', best', candidate', head'} \subseteq 1 .. Len(commits')
      BY <1>1, <2>1, <3>2, <3>3 DEF Checkpoint, CommitAll
    <3> QED
      BY <2>1, <3>2, <3>4 DEF CommitAll
  <2>2. CASE UNCHANGED git
    BY <1>1, <2>2 DEF Checkpoint, git
  <2> QED
    BY <1>1, <2>1, <2>2 DEF Checkpoint
<1>2. CASE RollBack \/ Reject \/ RefuseCompletion
  BY <1>2 DEF RollBack, Reject, RefuseCompletion, Restore, RestoreFails, turnVars
<1>3. CASE CreateBaseline \/ Accept
  BY <1>3 DEF CreateBaseline, Accept, git, turnVars
<1>4. CASE \/ EvaluateBaseline \/ RecordBaseline \/ Evaluate \/ Verify \/ RecordCommand
  BY <1>4 DEF EvaluateBaseline, RecordBaseline, Evaluate, Verify, RecordCommand, runVars, turnVars, git
<1>5. CASE ApplyEdits \/ RunCommand
  BY <1>5 DEF ApplyEdits, RunCommand, Write, runVars, turnVars, git, TurnTypes
<1>6. ASSUME UNCHANGED <<git, active, best, candidate>>
      PROVE  GitTypes'
  BY <1>6 DEF git
<1>7. CASE \/ CreateRun \/ Initialize \/ ValidateGoal \/ BeginBaseline \/ CheckBudget
           \/ EnterContext \/ ContextReady \/ Propose \/ RecordProposal \/ CheckPolicy
           \/ RecordPolicy \/ RejectProposal \/ RecordRefusal \/ BeginExecution
           \/ RecordStart \/ BeginCheckpoint \/ RecordCheckpoint \/ BeginEvaluation
           \/ CreateCandidate \/ RecordEvaluation \/ CompleteEvaluation
           \/ SelectTransition \/ RecordDecision \/ BeginVerify \/ AcceptCompletion
           \/ SetCompleted \/ DeclareCompletion \/ RecordCompletion \/ StoreManifest
           \/ RecordManifest \/ RecordStored \/ Cancel \/ DeclareCancelled
           \/ InvalidTransition \/ Close
  BY <1>6, <1>7 DEF CreateRun, Initialize, ValidateGoal, BeginBaseline, CheckBudget,
    EnterContext, ContextReady, Propose, RecordProposal, CheckPolicy, RecordPolicy,
    RejectProposal, RecordRefusal, BeginExecution, RecordStart, BeginCheckpoint,
    RecordCheckpoint, BeginEvaluation, CreateCandidate, RecordEvaluation,
    CompleteEvaluation, SelectTransition, RecordDecision, BeginVerify, AcceptCompletion,
    SetCompleted, DeclareCompletion, RecordCompletion, StoreManifest, RecordManifest,
    RecordStored, Cancel, DeclareCancelled, InvalidTransition, Close, Raise, runVars,
    turnVars
<1>8. CASE Fail \/ Crash \/ Over \/ UNCHANGED vars
  BY <1>6, <1>8 DEF Fail, Crash, Over, vars, runVars, turnVars
<1> QED
  BY <1>1, <1>2, <1>3, <1>4, <1>5, <1>7, <1>8 DEF Next, Step

\* The locals of the loop and the budget keep their types.
LEMMA TurnTypesStep ==
  ASSUME TypeInv, [Next]_vars
  PROVE  TurnTypes'
<1> USE DEF TypeInv, TypeOK, TurnTypes
<1>1. CASE Propose
  BY <1>1 DEF Propose, Raise, runVars, turnVars, budget
<1>2. CASE RecordCommand
  <2>1. proposal.commands \in 1 .. MaxCommands
    BY <1>2, ControllerAssumption DEF RecordCommand, ControlInv, Proposal
  <2>2. [proposal EXCEPT !.commands = @ - 1] \in Proposal
    BY <2>1, ControllerAssumption DEF Proposal
  <2> QED
    BY <1>2, <2>2 DEF RecordCommand, runVars, budget
<1>3. CASE CheckBudget \/ Evaluate \/ EvaluateBaseline \/ RecordBaseline
  BY <1>3 DEF CheckBudget, Evaluate, EvaluateBaseline, RecordBaseline, runVars, turnVars,
    budget
<1>4. CASE RollBack \/ Accept \/ Reject \/ RefuseCompletion \/ RecordRefusal \/ AcceptCompletion
  BY <1>4 DEF RollBack, Accept, Reject, RefuseCompletion, RecordRefusal, AcceptCompletion,
    turnVars, budget
<1>5. CASE CreateBaseline \/ Checkpoint
  BY <1>5 DEF CreateBaseline, Checkpoint, Raise, runVars, turnVars, budget
<1>6. ASSUME UNCHANGED <<runVars, turnVars, budget>>
      PROVE  TurnTypes'
  BY <1>6 DEF runVars, turnVars, budget
<1>7. CASE \/ CreateRun \/ Initialize \/ ValidateGoal \/ BeginBaseline \/ EnterContext
           \/ ContextReady \/ RecordProposal \/ CheckPolicy \/ RecordPolicy
           \/ RejectProposal \/ BeginExecution \/ RecordStart
           \/ ApplyEdits \/ RunCommand \/ BeginCheckpoint \/ RecordCheckpoint \/ BeginEvaluation
           \/ CreateCandidate \/ RecordEvaluation \/ CompleteEvaluation
           \/ SelectTransition \/ RecordDecision \/ BeginVerify \/ Verify \/ SetCompleted
           \/ DeclareCompletion \/ RecordCompletion \/ StoreManifest \/ RecordManifest
           \/ RecordStored \/ Cancel \/ DeclareCancelled \/ InvalidTransition \/ Close
  BY <1>6, <1>7 DEF CreateRun, Initialize, ValidateGoal, BeginBaseline, EnterContext,
    ContextReady, RecordProposal, CheckPolicy, RecordPolicy, RejectProposal, BeginExecution,
    RecordStart, ApplyEdits, RunCommand,
    BeginCheckpoint, RecordCheckpoint, BeginEvaluation, CreateCandidate, RecordEvaluation,
    CompleteEvaluation, SelectTransition, RecordDecision, BeginVerify, Verify,
    SetCompleted, DeclareCompletion, RecordCompletion, StoreManifest, RecordManifest,
    RecordStored, Cancel, DeclareCancelled, InvalidTransition, Close, Raise
<1>8. CASE Fail \/ Crash \/ Over \/ UNCHANGED vars
  BY <1>6, <1>8 DEF Fail, Crash, Over, vars
<1> QED
  BY <1>1, <1>2, <1>3, <1>4, <1>5, <1>7, <1>8 DEF Next, Step

\* The part of the invariant about control is preserved.
LEMMA ControlInvStep ==
  ASSUME TypeInv, [Next]_vars
  PROVE  ControlInv'
<1> USE DEF TypeInv, ControlInv
<1> USE DEF BeforeTry
<1>1. CASE ApplyEdits \/ RunCommand \/ RecordCommand
  <2>1. proposal \in Proposal /\ proposal.commands \in Nat
    BY ControllerAssumption DEF TypeOK, TurnTypes, Proposal
  <2>2. UNCHANGED <<rows, history>>
    BY <1>1 DEF ApplyEdits, RunCommand, RecordCommand, db, runVars
  <2>3. CASE ApplyEdits \/ RunCommand
    BY <2>1, <2>2, <2>3 DEF ApplyEdits, RunCommand, Goto, turnVars
  <2>4. CASE RecordCommand
    <3>1. proposal'.commands = proposal.commands - 1
      BY <2>1, <2>4 DEF RecordCommand, Proposal
    <3> QED
      BY <2>1, <2>2, <2>4, <3>1 DEF RecordCommand, Goto
  <2> QED
    BY <1>1, <2>3, <2>4
<1>2. CASE Accept \/ Reject \/ RefuseCompletion \/ AcceptCompletion
  <2>1. PICK s \in CandidateStatus :
          /\ rows' = [rows EXCEPT ![Len(rows)].status = s]
          /\ history' = Append(history, Local(s)) \/ UNCHANGED history
    BY <1>2 DEF Accept, Reject, RefuseCompletion, AcceptCompletion, SetCandidateStatus,
      Judge, CandidateStatus
  <2>2. /\ Len(rows) \in 1 .. Len(rows) /\ rows \in Seq(Candidate)
        /\ history \in Seq(Candidate) /\ history # <<>> /\ Local(s) \in Candidate
    BY <1>2, EmptySeq, LocalType DEF TypeOK, StoreTypes, Accept, Reject, RefuseCompletion,
      AcceptCompletion, Ended
  <2>3. rows' # <<>> /\ history' # <<>>
    BY <2>1, <2>2, StatusUpdate, AppendProperties, EmptySeq
  <2> QED
    BY <1>2, <2>3 DEF Accept, Reject, RefuseCompletion, AcceptCompletion, RestoreFails, Goto
<1>3. CASE EvaluateBaseline \/ RecordBaseline \/ RecordEvaluation
  <2>1. /\ 1 \in 1 .. Len(rows) /\ Len(rows) \in 1 .. Len(rows) /\ rows \in Seq(Candidate)
        /\ 1 \in 1 .. Len(history) /\ history \in Seq(Candidate)
    BY <1>3, EmptySeq DEF TypeOK, StoreTypes, EvaluateBaseline, RecordBaseline, RecordEvaluation
  <2>2. /\ \A v \in Vectors \union {NoVector} :
             /\ [rows EXCEPT ![1].vec = v] # <<>>
             /\ [history EXCEPT ![1].vec = v] # <<>>
             /\ [rows EXCEPT ![Len(rows)].vec = v] # <<>>
    BY <2>1, VectorUpdate, EmptySeq
  <2>3. history[1] \in Candidate
    BY <2>1, ElementOfSeq
  <2>4. history[1].vec \in Vectors \union {NoVector}
    BY <2>3 DEF Candidate
  <2> QED
    BY <1>3, <2>1, <2>2, <2>4 DEF EvaluateBaseline, RecordBaseline, RecordEvaluation, Goto,
      db, runVars, TypeOK, TurnTypes
<1>4. CASE CreateBaseline \/ CreateCandidate
  BY <1>4, AppendProperties DEF CreateBaseline, CreateCandidate, Goto, runVars
<1>5. CASE \/ CreateRun \/ Initialize \/ ValidateGoal \/ BeginBaseline \/ CheckBudget
           \/ EnterContext \/ ContextReady \/ Propose \/ RecordProposal \/ CheckPolicy
           \/ RecordPolicy \/ RejectProposal \/ RecordRefusal \/ BeginExecution
           \/ RecordStart \/ RollBack \/ BeginCheckpoint \/ Checkpoint \/ RecordCheckpoint
           \/ BeginEvaluation \/ Evaluate \/ CompleteEvaluation \/ SelectTransition
           \/ RecordDecision
           \/ BeginVerify \/ Verify \/ SetCompleted \/ DeclareCompletion
           \/ RecordCompletion \/ StoreManifest \/ RecordManifest \/ RecordStored
           \/ Cancel \/ DeclareCancelled \/ InvalidTransition \/ Close
  BY <1>5 DEF CreateRun, Initialize, ValidateGoal, BeginBaseline, CheckBudget,
    EnterContext, ContextReady, Propose, RecordProposal, CheckPolicy, RecordPolicy,
    RejectProposal, RecordRefusal, BeginExecution, RecordStart, RollBack, RestoreFails,
    BeginCheckpoint, Checkpoint, RecordCheckpoint, BeginEvaluation, Evaluate,
    CompleteEvaluation, SelectTransition, RecordDecision, BeginVerify, Verify, SetCompleted,
    DeclareCompletion, RecordCompletion, StoreManifest, RecordManifest, RecordStored,
    Cancel, DeclareCancelled, InvalidTransition, Close, Goto, Raise, db, runVars,
    Requesting
<1>6. CASE Fail \/ Crash \/ Over \/ UNCHANGED vars
  BY <1>6 DEF Fail, Crash, Over, Ended, vars, db, runVars, turnVars
<1> QED
  BY <1>1, <1>2, <1>3, <1>4, <1>5, <1>6 DEF Next, Step

\* A run starts well typed.
LEMMA TypeInvInit ==
  ASSUME Init
  PROVE  TypeInv
<1>1. ControlTypes /\ ControlInv
  BY DEF Init, ControlTypes, ControlInv, ControlPoints, Exceptions, BeforeTry
<1>2. MachineTypes /\ StoreTypes
  BY EmptySeq DEF Init, MachineTypes, ControllerState, StoreTypes, RunStatus
<1>3. GitTypes
  <2>1. [parent |-> 0, edits |-> {}, iteration |-> 0] \in Commit
    BY DEF Commit
  <2>2. commits \in Seq(Commit) /\ Len(commits) = 1
    BY <2>1 DEF Init
  <2>3. \A c \in {active, best, candidate, head} : c \in 1 .. Len(commits)
    BY <2>2 DEF Init
  <2>4. edits \in SUBSET Nat
    BY DEF Init
  <2> QED
    BY <2>2, <2>3, <2>4 DEF GitTypes
<1>4. TurnTypes
  BY ControllerAssumption DEF Init, TurnTypes, Proposal
<1> QED
  BY <1>1, <1>2, <1>3, <1>4 DEF TypeInv, TypeOK

\* Every step keeps the types.
LEMMA TypeInvStep ==
  ASSUME TypeInv, [Next]_vars
  PROVE  TypeInv'
BY ControlTypesStep, MachineTypesStep, StoreTypesStep, GitTypesStep, TurnTypesStep,
  ControlInvStep DEF TypeInv, TypeOK

LEMMA TypeInvariant == Spec => []TypeInv
<1>1. Init => TypeInv
  BY TypeInvInit
<1>2. TypeInv /\ [Next]_vars => TypeInv'
  BY TypeInvStep
<1> QED
  BY <1>1, <1>2, PTL DEF Spec

\* Every variable of a run keeps its type, whatever the constants: no pointer
\* into the git history ever dangles, no matter which step fails or where the
\* process dies.
THEOREM TypeCorrect == Spec => []TypeOK
<1>1. TypeInv => TypeOK
  BY DEF TypeInv
<1> QED
  BY <1>1, TypeInvariant, PTL

-----------------------------------------------------------------------------
(* Which commits the work of a run rests on: the invariant that ties HEAD, *)
(* active_state and best_state to the place Controller.run is at, and what *)
(* follows from it.                                                        *)

\* Where the workspace is as the last turn left it.
BeforeEdits ==
  {"start", "create_baseline", "initializing", "validate_goal", "begin_baseline",
   "evaluate_baseline", "record_baseline", "loop", "enter", "context_ready", "propose",
   "record_proposal", "policy_check", "record_policy", "reject_proposal",
   "record_refusal", "begin_execution", "record_start", "apply_edits"}

\* Where it may hold edits of this turn.
DuringEdits ==
  {"run_command", "record_command", "execution_failed", "begin_checkpoint", "checkpoint"}

\* Where the candidate's commit is checked out.
AfterCheckpoint ==
  {"record_checkpoint", "begin_evaluation", "evaluate", "create_candidate",
   "record_evaluation", "evaluation_completed", "selecting", "record_decision", "accept",
   "reject", "begin_verify", "verify", "refuse", "accept_completion", "set_completed",
   "declare", "record_completion", "store_manifest", "record_manifest", "record_stored"}

PointerInv ==
  /\ pc \in BeforeEdits     => head = best /\ active = best /\ edits = {}
  /\ pc \in DuringEdits     => head = best /\ active = best /\ edits \subseteq {iteration}
  /\ pc \in AfterCheckpoint => head = candidate /\ active = candidate /\ edits = {}
  /\ pc \in AfterCheckpoint => candidate = best \/ commits[candidate].parent = best

\* Where the last row of the candidates table is the candidate of this turn,
\* where that row holds its vector, and where the vector was found acceptable.
Registered == {"record_evaluation", "evaluation_completed", "selecting", "record_decision",
               "accept", "reject", "begin_verify", "verify", "refuse", "accept_completion",
               "set_completed"}
Evaluated  == Registered \ {"record_evaluation"}
Passed     == Evaluated \ {"evaluation_completed", "selecting", "record_decision", "reject"}

JudgingInv ==
  /\ pc \in BeforeTry => history = <<>>
  /\ pc \in Registered => /\ rows[Len(rows)].commit = candidate
                          /\ rows[Len(rows)].iteration = iteration
  /\ pc \in Evaluated  => rows[Len(rows)].vec = vector
  /\ pc \in Passed     => IsAcceptable(vector)

\* A candidate the run may build on: accepted, and acceptable unless it is the
\* baseline.
Trusted(i) == history[i].status = "ACCEPTED" /\ (i > 1 => IsAcceptable(history[i].vec))

\* best_state is a trusted candidate's commit.
TrustInv == history # <<>> => \E i \in DOMAIN history : Trusted(i) /\ history[i].commit = best

\* Every commit but the first was made on top of a trusted candidate's commit.
LineageInv ==
  \A c \in 2 .. Len(commits) :
    \E i \in DOMAIN history : Trusted(i) /\ history[i].commit = commits[c].parent

LineageIInv ==
  TypeInv /\ PointerInv /\ JudgingInv /\ TrustInv /\ LineageInv /\ CommitHoldsOneTurn

-----------------------------------------------------------------------------

\* HEAD, active_state, best_state and the uncommitted edits are where the
\* place in run says.
LEMMA PointerInvStep ==
  ASSUME TypeInv, PointerInv, [Next]_vars
  PROVE  PointerInv'
<1> USE DEF BeforeTry, PointerInv, BeforeEdits, DuringEdits, AfterCheckpoint
<1>1. CASE Checkpoint
  <2>1. CASE CommitAll
    <3> DEFINE new == [parent |-> head, edits |-> edits, iteration |-> iteration]
    <3>1. new \in Commit /\ new.parent = head /\ commits \in Seq(Commit)
      BY DEF Commit, TypeInv, TypeOK, GitTypes, TurnTypes
    <3>2. commits' = Append(commits, new)
      BY <2>1 DEF CommitAll
    <3> HIDE DEF new
    <3>3. commits'[Len(commits) + 1].parent = head
      BY <3>1, <3>2, AppendProperties
    <3>4. /\ pc' = "record_checkpoint" /\ edits' = {} /\ best' = best
          /\ head' = Len(commits) + 1 /\ candidate' = head' /\ active' = head'
      BY <1>1, <2>1 DEF Checkpoint, CommitAll, Goto
    <3>5. best = head
      BY <1>1 DEF Checkpoint
    <3> QED
      BY <3>3, <3>4, <3>5
  <2>2. CASE edits = {} /\ UNCHANGED git
    BY <1>1, <2>2 DEF Checkpoint, Goto, git
  <2> QED
    BY <1>1, <2>1, <2>2 DEF Checkpoint, IsClean
<1>2. CASE RollBack \/ Reject \/ RefuseCompletion
  BY <1>2 DEF RollBack, Reject, RefuseCompletion, Restore, RestoreFails, Goto
<1>3. CASE CreateBaseline \/ Accept
  BY <1>3 DEF CreateBaseline, Accept, Goto, git
<1>4. CASE EvaluateBaseline \/ RecordBaseline \/ RecordRefusal \/ Evaluate \/ Verify
  BY <1>4 DEF EvaluateBaseline, RecordBaseline, RecordRefusal, Evaluate, Verify, Goto,
    git, runVars, turnVars
<1>5. CASE ApplyEdits \/ RunCommand \/ RecordCommand
  BY <1>5 DEF ApplyEdits, RunCommand, RecordCommand, Write, Goto, git, runVars, turnVars
<1>6. CASE \/ CreateRun \/ Initialize \/ ValidateGoal \/ BeginBaseline \/ CheckBudget
           \/ EnterContext \/ ContextReady \/ Propose \/ RecordProposal \/ CheckPolicy
           \/ RecordPolicy \/ RejectProposal \/ RecordRefusal \/ BeginExecution
           \/ RecordStart \/ BeginCheckpoint \/ RecordCheckpoint \/ BeginEvaluation
           \/ CreateCandidate \/ RecordEvaluation \/ CompleteEvaluation
           \/ SelectTransition \/ RecordDecision \/ BeginVerify \/ AcceptCompletion
           \/ SetCompleted \/ DeclareCompletion \/ RecordCompletion \/ StoreManifest
           \/ RecordManifest \/ RecordStored \/ Cancel \/ DeclareCancelled
           \/ InvalidTransition \/ Close
  BY <1>6 DEF CreateRun, Initialize, ValidateGoal, BeginBaseline, CheckBudget,
    EnterContext, ContextReady, Propose, RecordProposal, CheckPolicy, RecordPolicy,
    RejectProposal, RecordRefusal, BeginExecution, RecordStart, BeginCheckpoint,
    RecordCheckpoint, BeginEvaluation, CreateCandidate, RecordEvaluation,
    CompleteEvaluation, SelectTransition, RecordDecision, BeginVerify, AcceptCompletion,
    SetCompleted, DeclareCompletion, RecordCompletion, StoreManifest, RecordManifest,
    RecordStored, Cancel, DeclareCancelled, InvalidTransition, Close, Goto, Raise, git,
    runVars, turnVars
<1>7. CASE Fail \/ Crash \/ Over \/ UNCHANGED vars
  BY <1>7 DEF Fail, Crash, Over, vars, git, runVars, turnVars
<1> QED
  BY <1>1, <1>2, <1>3, <1>4, <1>5, <1>6, <1>7 DEF Next, Step

\* Only the checkpoint of a dirty workspace adds to the git history.
LEMMA CommitsStep ==
  ASSUME [Next]_vars
  PROVE  UNCHANGED commits \/ (Checkpoint /\ CommitAll)
<1>1. CASE \/ Checkpoint \/ RollBack \/ Reject \/ RefuseCompletion \/ CreateBaseline
           \/ Accept \/ EvaluateBaseline \/ RecordBaseline \/ Evaluate \/ Verify
           \/ ApplyEdits \/ RunCommand \/ RecordCommand
  BY <1>1 DEF Checkpoint, RollBack, Reject, RefuseCompletion, Restore, RestoreFails,
    CreateBaseline, Accept, EvaluateBaseline, RecordBaseline, Evaluate, Verify, ApplyEdits,
    Write, RunCommand, RecordCommand, git
<1>2. CASE \/ CreateRun \/ Initialize \/ ValidateGoal \/ BeginBaseline \/ CheckBudget
           \/ EnterContext \/ ContextReady \/ Propose \/ RecordProposal \/ CheckPolicy
           \/ RecordPolicy \/ RejectProposal \/ RecordRefusal \/ BeginExecution
           \/ RecordStart \/ BeginCheckpoint \/ RecordCheckpoint \/ BeginEvaluation
           \/ CreateCandidate \/ RecordEvaluation \/ CompleteEvaluation
           \/ SelectTransition \/ RecordDecision \/ BeginVerify \/ AcceptCompletion
           \/ SetCompleted \/ DeclareCompletion \/ RecordCompletion \/ StoreManifest
           \/ RecordManifest \/ RecordStored \/ Cancel \/ DeclareCancelled
           \/ InvalidTransition \/ Close
  BY <1>2 DEF CreateRun, Initialize, ValidateGoal, BeginBaseline, CheckBudget,
    EnterContext, ContextReady, Propose, RecordProposal, CheckPolicy, RecordPolicy,
    RejectProposal, RecordRefusal, BeginExecution, RecordStart, BeginCheckpoint,
    RecordCheckpoint, BeginEvaluation, CreateCandidate, RecordEvaluation,
    CompleteEvaluation, SelectTransition, RecordDecision, BeginVerify, AcceptCompletion,
    SetCompleted, DeclareCompletion, RecordCompletion, StoreManifest, RecordManifest,
    RecordStored, Cancel, DeclareCancelled, InvalidTransition, Close, Raise, git
<1>3. CASE Fail \/ Crash \/ Over \/ UNCHANGED vars
  BY <1>3 DEF Fail, Crash, Over, vars, git
<1> QED
  BY <1>1, <1>2, <1>3 DEF Next, Step

\* Only these steps touch the history, the candidates table or best_state.
Judging == \/ CreateBaseline \/ EvaluateBaseline \/ RecordBaseline \/ CreateCandidate
           \/ RecordEvaluation \/ Accept \/ Reject \/ RefuseCompletion \/ AcceptCompletion

LEMMA StoreStep ==
  ASSUME [Next]_vars
  PROVE  Judging \/ UNCHANGED <<rows, history, best>>
<1>1. CASE \/ CreateRun \/ Initialize \/ ValidateGoal \/ BeginBaseline \/ CheckBudget
           \/ EnterContext \/ ContextReady \/ Propose \/ RecordProposal \/ CheckPolicy
           \/ RecordPolicy \/ RejectProposal \/ RecordRefusal \/ BeginExecution
           \/ RecordStart \/ ApplyEdits \/ RunCommand \/ RecordCommand \/ RollBack
           \/ BeginCheckpoint \/ Checkpoint \/ RecordCheckpoint \/ BeginEvaluation
           \/ Evaluate \/ CompleteEvaluation \/ SelectTransition \/ RecordDecision
           \/ BeginVerify \/ Verify \/ SetCompleted \/ DeclareCompletion \/ RecordCompletion \/ StoreManifest
           \/ RecordManifest \/ RecordStored \/ Cancel \/ DeclareCancelled
           \/ InvalidTransition \/ Close
  BY <1>1 DEF CreateRun, Initialize, ValidateGoal, BeginBaseline, CheckBudget,
    EnterContext, ContextReady, Propose, RecordProposal, CheckPolicy, RecordPolicy,
    RejectProposal, RecordRefusal, BeginExecution, RecordStart, ApplyEdits, RunCommand,
    RecordCommand, RollBack, BeginCheckpoint, Checkpoint, RecordCheckpoint,
    BeginEvaluation, Evaluate, CompleteEvaluation, SelectTransition, RecordDecision,
    BeginVerify, Verify, SetCompleted, DeclareCompletion, RecordCompletion, StoreManifest, RecordManifest,
    RecordStored, Cancel, DeclareCancelled, InvalidTransition, Close, Raise, db, runVars
<1>2. CASE Fail \/ Crash \/ Over \/ UNCHANGED vars
  BY <1>2 DEF Fail, Crash, Over, vars, db, runVars
<1> QED
  BY <1>1, <1>2 DEF Next, Step, Judging

\* A commit holds edits of its own turn: the only edits in the workspace when
\* it is made are those.
LEMMA CommitHoldsOneTurnStep ==
  ASSUME TypeInv, PointerInv, CommitHoldsOneTurn, [Next]_vars
  PROVE  CommitHoldsOneTurn'
<1> USE DEF CommitHoldsOneTurn
<1>1. CASE Checkpoint /\ CommitAll
  <2> DEFINE new == [parent |-> head, edits |-> edits, iteration |-> iteration]
  <2>1. new \in Commit /\ new.edits \subseteq {new.iteration} /\ commits \in Seq(Commit)
    BY <1>1 DEF Checkpoint, Commit, PointerInv, DuringEdits, TypeInv, TypeOK, GitTypes, TurnTypes
  <2>2. commits' = Append(commits, new)
    BY <1>1 DEF CommitAll
  <2> HIDE DEF new
  <2> QED
    BY <2>1, <2>2, AppendProperties, LenProperties
<1>2. CASE UNCHANGED commits
  BY <1>2
<1> QED
  BY <1>1, <1>2, CommitsStep

\* The last row of the candidates table, the vector and the place in run agree.
LEMMA JudgingInvStep ==
  ASSUME TypeInv, JudgingInv, [Next]_vars
  PROVE  JudgingInv'
<1> USE DEF BeforeTry, JudgingInv, Registered, Evaluated, Passed
<1>1. CASE CreateCandidate
  <2>1. /\ rows \in Seq(Candidate) /\ NewCandidate \in Candidate
        /\ rows' = Append(rows, NewCandidate) /\ pc' = "record_evaluation"
    BY <1>1, LocalType DEF TypeInv, TypeOK, StoreTypes, CreateCandidate, Goto, CandidateStatus
  <2>2. Len(rows') = Len(rows) + 1 /\ rows'[Len(rows) + 1] = NewCandidate
    BY <2>1, AppendProperties
  <2> QED
    BY <1>1, <2>1, <2>2 DEF CreateCandidate, NewCandidate, Local, runVars, turnVars
<1>2. CASE RecordEvaluation
  <2>1. /\ rows \in Seq(Candidate) /\ Len(rows) \in 1 .. Len(rows)
        /\ vector \in Vectors \union {NoVector}
    BY <1>2, EmptySeq DEF TypeInv, TypeOK, StoreTypes, TurnTypes, ControlInv, RecordEvaluation
  <2>2. rows[Len(rows)] \in Candidate
    BY <2>1, ElementOfSeq
  <2>3. rows'[Len(rows')] = [rows[Len(rows)] EXCEPT !.vec = vector]
    BY <1>2, <2>1, VectorUpdate DEF RecordEvaluation
  <2> QED
    BY <1>2, <2>2, <2>3 DEF RecordEvaluation, Goto, Candidate, runVars, turnVars
<1>3. CASE AcceptCompletion
  <2>1. rows \in Seq(Candidate) /\ Len(rows) \in 1 .. Len(rows)
    BY <1>3, EmptySeq DEF TypeInv, TypeOK, StoreTypes, ControlInv, AcceptCompletion
  <2>2. rows[Len(rows)] \in Candidate
    BY <2>1, ElementOfSeq
  <2>3. PICK s \in CandidateStatus : rows' = [rows EXCEPT ![Len(rows)].status = s]
    BY <1>3 DEF AcceptCompletion, SetCandidateStatus, CandidateStatus
  <2>4. rows'[Len(rows')] = [rows[Len(rows)] EXCEPT !.status = s]
    BY <2>1, <2>3, StatusUpdate
  <2> QED
    BY <1>3, <2>2, <2>4 DEF AcceptCompletion, Goto, Candidate, turnVars
<1>4. CASE CompleteEvaluation \/ SelectTransition \/ RecordDecision
  BY <1>4 DEF CompleteEvaluation, SelectTransition, RecordDecision, Decide, Goto, db,
    runVars, turnVars
<1>5. CASE Verify \/ BeginVerify
  BY <1>5 DEF Verify, BeginVerify, Goto, db, runVars, turnVars
<1>6. CASE \/ CreateBaseline \/ EvaluateBaseline \/ RecordBaseline \/ Accept \/ Reject
           \/ RefuseCompletion
  BY <1>6 DEF CreateBaseline, EvaluateBaseline, RecordBaseline, Accept, Reject,
    RefuseCompletion, RestoreFails, Goto, Raise
<1>7. CASE \/ CreateRun \/ Initialize \/ ValidateGoal \/ BeginBaseline \/ CheckBudget
           \/ EnterContext \/ ContextReady \/ Propose \/ RecordProposal \/ CheckPolicy
           \/ RecordPolicy \/ RejectProposal \/ RecordRefusal \/ BeginExecution
           \/ RecordStart \/ ApplyEdits \/ RunCommand \/ RecordCommand \/ RollBack
           \/ BeginCheckpoint \/ Checkpoint \/ RecordCheckpoint \/ BeginEvaluation
           \/ Evaluate \/ SetCompleted \/ DeclareCompletion \/ RecordCompletion
           \/ StoreManifest \/ RecordManifest \/ RecordStored \/ Cancel
           \/ DeclareCancelled \/ InvalidTransition \/ Close \/ Fail \/ Crash
  BY <1>7 DEF CreateRun, Initialize, ValidateGoal, BeginBaseline, CheckBudget,
    EnterContext, ContextReady, Propose, RecordProposal, CheckPolicy, RecordPolicy,
    RejectProposal, RecordRefusal, BeginExecution, RecordStart, ApplyEdits, RunCommand,
    RecordCommand, RollBack, RestoreFails, BeginCheckpoint, Checkpoint, RecordCheckpoint,
    BeginEvaluation, Evaluate, SetCompleted, DeclareCompletion, RecordCompletion,
    StoreManifest, RecordManifest, RecordStored, Cancel, DeclareCancelled,
    InvalidTransition, Close, Fail, Crash, Goto, Raise, runVars
<1>8. CASE Over \/ UNCHANGED vars
  BY <1>8 DEF Over, vars, db, runVars, turnVars
<1> QED
  BY <1>1, <1>2, <1>3, <1>4, <1>5, <1>6, <1>7, <1>8 DEF Next, Step

\* A candidate of the history keeps its place, its commit and its verdict.
LEMMA HistoryGrows ==
  ASSUME TypeInv, JudgingInv, [Next]_vars, NEW i \in DOMAIN history
  PROVE  /\ i \in DOMAIN history'
         /\ history'[i].commit = history[i].commit
         /\ history'[i].status = history[i].status
         /\ i > 1 => history'[i] = history[i]
<1>1. history \in Seq(Candidate) /\ i \in 1 .. Len(history)
  BY LenProperties DEF TypeInv, TypeOK, StoreTypes
<1>2. CASE UNCHANGED history
  BY <1>2
<1>3. ASSUME NEW c \in Candidate, history' = Append(history, c)
      PROVE  i \in DOMAIN history' /\ history'[i] = history[i]
  BY <1>1, <1>3, AppendProperties, LenProperties
<1>4. CASE (Accept \/ Reject \/ RefuseCompletion \/ AcceptCompletion) /\ history' # history
  <2>1. PICK s \in CandidateStatus : history' = Append(history, Local(s))
    BY <1>4 DEF Accept, Reject, RefuseCompletion, AcceptCompletion, Judge, CandidateStatus
  <2>2. Local(s) \in Candidate
    BY <1>4, LocalType DEF BeforeTry, Accept, Reject, RefuseCompletion, AcceptCompletion
  <2> QED
    BY <1>3, <2>1, <2>2
<1>5. CASE EvaluateBaseline /\ history' # history
  <2>1. PICK v \in Vectors : history' = [history EXCEPT ![1].vec = v]
    BY <1>5 DEF EvaluateBaseline
  <2>2. 1 \in 1 .. Len(history) /\ history[1] \in Candidate
    BY <1>1, ElementOfSeq
  <2>3. /\ Len(history') = Len(history) /\ history' \in Seq(Candidate)
        /\ history'[i] = IF i = 1 THEN [history[1] EXCEPT !.vec = v] ELSE history[i]
    BY <1>1, <2>1, <2>2, VectorUpdate
  <2>4. /\ [history[1] EXCEPT !.vec = v].commit = history[1].commit
        /\ [history[1] EXCEPT !.vec = v].status = history[1].status
    BY <2>2 DEF Candidate
  <2>5. i \in DOMAIN history'
    BY <1>1, <2>3, LenProperties
  <2> QED
    BY <1>1, <2>3, <2>4, <2>5
<1>6. CASE CreateBaseline
  BY <1>1, <1>6, EmptySeq DEF BeforeTry, CreateBaseline, JudgingInv
<1>7. CASE RecordBaseline \/ CreateCandidate \/ RecordEvaluation
  BY <1>2, <1>7 DEF RecordBaseline, CreateCandidate, RecordEvaluation, runVars
<1> QED
  BY <1>2, <1>4, <1>5, <1>6, <1>7, StoreStep DEF Judging

\* A trusted candidate stays trusted.
LEMMA TrustedStays ==
  ASSUME TypeInv, JudgingInv, [Next]_vars, NEW i \in DOMAIN history, Trusted(i)
  PROVE  i \in DOMAIN history' /\ Trusted(i)' /\ history'[i].commit = history[i].commit
BY HistoryGrows DEF Trusted

\* Accept ends the history with a trusted candidate at the new best_state.
LEMMA AcceptTrusts ==
  ASSUME TypeInv, JudgingInv, Accept
  PROVE  LET n == Len(history')
         IN  /\ n \in DOMAIN history'
             /\ history'[n].status = "ACCEPTED"
             /\ history'[n].commit = candidate
             /\ IsAcceptable(history'[n].vec)
<1>1. history \in Seq(Candidate) /\ Local("ACCEPTED") \in Candidate
  BY LocalType DEF TypeInv, TypeOK, StoreTypes, BeforeTry, Accept, CandidateStatus
<1>2. /\ Local("ACCEPTED").status = "ACCEPTED"
      /\ Local("ACCEPTED").commit = candidate
      /\ IsAcceptable(Local("ACCEPTED").vec)
  BY DEF Local, Accept, JudgingInv, Registered, Evaluated, Passed
<1>3. history' = Append(history, Local("ACCEPTED"))
  BY DEF Accept, Judge
<1>4. /\ history' \in Seq(Candidate) /\ Len(history') = Len(history) + 1
      /\ history'[Len(history) + 1] = Local("ACCEPTED")
  BY <1>1, <1>3, AppendProperties
<1> QED
  BY <1>1, <1>2, <1>4, LenProperties

\* best_state is always a trusted candidate's commit.
LEMMA TrustInvStep ==
  ASSUME TypeInv, JudgingInv, PointerInv, TrustInv, [Next]_vars
  PROVE  TrustInv'
<1>1. CASE best' = best /\ history # <<>>
  BY <1>1, TrustedStays DEF TrustInv
<1>2. CASE Accept
  BY <1>2, AcceptTrusts DEF Accept, TrustInv, Trusted
<1>3. CASE CreateBaseline
  <2>1. PICK b : /\ history' = <<b>> /\ b.status = "ACCEPTED" /\ b.commit = head /\ best' = head
    BY <1>3 DEF CreateBaseline
  <2>2. 1 \in DOMAIN history' /\ history'[1] = b
    BY <2>1
  <2> QED
    BY <2>1, <2>2 DEF TrustInv, Trusted
<1>4. CASE UNCHANGED <<history, best>>
  BY <1>1, <1>4 DEF TrustInv
<1>5. CASE \/ EvaluateBaseline \/ RecordBaseline \/ CreateCandidate \/ RecordEvaluation
           \/ Reject \/ RefuseCompletion \/ AcceptCompletion
  BY <1>1, <1>5 DEF EvaluateBaseline, RecordBaseline, CreateCandidate, RecordEvaluation,
    Reject, RefuseCompletion, AcceptCompletion, runVars, TypeInv, ControlInv, BeforeTry
<1> QED
  BY <1>2, <1>3, <1>4, <1>5, StoreStep DEF Judging

\* Every commit is made on top of best_state, hence of trusted work.
LEMMA LineageInvStep ==
  ASSUME TypeInv, JudgingInv, PointerInv, TrustInv, LineageInv, [Next]_vars
  PROVE  LineageInv'
<1>1. CASE UNCHANGED commits
  BY <1>1, TrustedStays DEF LineageInv
<1>2. CASE Checkpoint /\ CommitAll
  <2> DEFINE new == [parent |-> head, edits |-> edits, iteration |-> iteration]
  <2>1. new \in Commit /\ commits \in Seq(Commit) /\ new.parent = best
    BY <1>2 DEF Checkpoint, Commit, PointerInv, DuringEdits, TypeInv, TypeOK, GitTypes, TurnTypes
  <2>2. commits' = Append(commits, new)
    BY <1>2 DEF CommitAll
  <2> HIDE DEF new
  <2>3. /\ Len(commits') = Len(commits) + 1 /\ Len(commits) \in Nat
        /\ \A c \in 1 .. Len(commits) : commits'[c] = commits[c]
        /\ commits'[Len(commits) + 1] = new
    BY <2>1, <2>2, AppendProperties, LenProperties
  <2>4. history # <<>> /\ UNCHANGED history
    BY <1>2 DEF Checkpoint, TypeInv, ControlInv, BeforeTry
  <2>5. PICK i \in DOMAIN history : Trusted(i) /\ history[i].commit = best
    BY <2>4 DEF TrustInv
  <2>6. ASSUME NEW c \in 2 .. Len(commits')
        PROVE  \E j \in DOMAIN history' : Trusted(j)' /\ history'[j].commit = commits'[c].parent
    <3>1. CASE c = Len(commits) + 1
      BY <2>1, <2>3, <2>5, <3>1, TrustedStays
    <3>2. CASE c # Len(commits) + 1
      BY <2>3, <2>6, <3>2, TrustedStays DEF LineageInv
    <3> QED
      BY <3>1, <3>2
  <2> QED
    BY <2>6 DEF LineageInv
<1> QED
  BY <1>1, <1>2, CommitsStep

-----------------------------------------------------------------------------

\* The strengthened invariant holds in every state of every run.
LEMMA LineageInductive == Spec => []LineageIInv
<1>1. ASSUME Init
      PROVE  LineageIInv
  <2>1. PointerInv /\ JudgingInv /\ TrustInv
    BY <1>1 DEF Init, BeforeTry, PointerInv, JudgingInv, TrustInv, BeforeEdits, DuringEdits,
      AfterCheckpoint, Registered, Evaluated, Passed
  <2>2. LineageInv /\ CommitHoldsOneTurn
    BY <1>1 DEF Init, LineageInv, CommitHoldsOneTurn
  <2> QED
    BY <1>1, <2>1, <2>2, TypeInvInit DEF LineageIInv
<1>2. LineageIInv /\ [Next]_vars => LineageIInv'
  BY TypeInvStep, PointerInvStep, JudgingInvStep, TrustInvStep, LineageInvStep,
    CommitHoldsOneTurnStep DEF LineageIInv
<1> QED
  BY <1>1, <1>2, PTL DEF Spec

\* Whatever ended the last turn - a refusal by the policy, a failed execution,
\* a rejection, a refused completion - the next one starts from best_state, with
\* no edit in the files that no ignore file hides.
THEOREM TurnsStartFromBest == Spec => []TurnStartsFromBest
<1>1. LineageIInv => TurnStartsFromBest
  BY DEF LineageIInv, PointerInv, BeforeEdits, TurnStartsFromBest
<1> QED
  BY <1>1, LineageInductive, PTL

\* In files that no ignore file hides, no edit of a failed, rejected or refused
\* turn ever reaches the commit of another turn.
THEOREM CommitsHoldOneTurn == Spec => []CommitHoldsOneTurn
<1>1. LineageIInv => CommitHoldsOneTurn
  BY DEF LineageIInv
<1> QED
  BY <1>1, LineageInductive, PTL

\* Rejected or refused work is never under later work.
THEOREM WorkRestsOnAcceptedWork == Spec => []RejectedWorkIsNotBuiltOn
<1>1. LineageIInv => RejectedWorkIsNotBuiltOn
  BY DEF LineageIInv, LineageInv, Trusted, RejectedWorkIsNotBuiltOn
<1> QED
  BY <1>1, LineageInductive, PTL

\* best_state moves only to a commit made directly on top of it, and only for a
\* candidate whose evaluation was acceptable.
THEOREM BestStateMovesForward == Spec => BestMovesForward
<1>1. ASSUME LineageIInv, [Next]_vars, best' # best
      PROVE  commits[best'].parent = best /\ IsAcceptable(history'[Len(history')].vec)
  <2>1. Accept
    <3>1. ~CreateBaseline
      BY <1>1 DEF CreateBaseline, LineageIInv, PointerInv, BeforeEdits
    <3>2. ~(\/ EvaluateBaseline \/ RecordBaseline \/ CreateCandidate \/ RecordEvaluation
            \/ Reject \/ RefuseCompletion \/ AcceptCompletion)
      BY <1>1 DEF EvaluateBaseline, RecordBaseline, CreateCandidate, RecordEvaluation, Reject,
        RefuseCompletion, AcceptCompletion, runVars
    <3> QED
      BY <1>1, <3>1, <3>2, StoreStep DEF Judging
  <2>2. best' = candidate /\ commits[candidate].parent = best
    BY <1>1, <2>1 DEF Accept, LineageIInv, PointerInv, AfterCheckpoint
  <2> QED
    BY <1>1, <2>1, <2>2, AcceptTrusts DEF LineageIInv
<1>2. LineageIInv /\ [Next]_vars =>
        [best' # best => commits[best'].parent = best
                           /\ IsAcceptable(history'[Len(history')].vec)]_vars
  BY <1>1
<1> QED
  BY <1>2, LineageInductive, PTL DEF Spec, BestMovesForward

=============================================================================
