-------------------------- MODULE ControllerOutcome --------------------------
(***************************************************************************)
(* How a run ends, for all values of the constants: what a terminal status *)
(* says of the stores, that it is final, what the declarations of the log  *)
(* and the manifest rest on, and that it ends at all.                      *)
(***************************************************************************)
EXTENDS ControllerProofs, FiniteSetTheorems

\* Where run may be once the database holds a terminal status.
Declared == {"record_completion", "store_manifest", "record_manifest", "record_stored"}

AfterCompleted == Declared \union {"declare", "closing"} \union Ended
AfterCancelled == {"cancelling", "closing"} \union Ended

OutcomeInv ==
  /\ pc = "set_completed" => rows[Len(rows)].status = "ACCEPTED"
  /\ status = "COMPLETED" => pc \in AfterCompleted
  /\ status = "CANCELLED" => pc \in AfterCancelled
  /\ pc \in Declared \union {"declare"} => status = "COMPLETED"
  /\ pc = "cancelling" => status = "CANCELLED"
  /\ CompletedIsVerified

OutcomeIInv == LineageIInv /\ OutcomeInv

-----------------------------------------------------------------------------

\* The steps that run takes once the status is terminal change no part of the
\* outcome.
LEMMA TerminalSteps ==
  ASSUME OutcomeInv, [Next]_vars, status \in {"COMPLETED", "CANCELLED"}
  PROVE  UNCHANGED <<outcome, iteration, history>>
<1>1. pc \in AfterCompleted \union AfterCancelled
  BY DEF OutcomeInv
<1>2. CASE Step
  <2>1. \/ DeclareCompletion \/ RecordCompletion \/ StoreManifest \/ RecordManifest
        \/ RecordStored \/ DeclareCancelled \/ InvalidTransition \/ Close
    BY <1>1, <1>2 DEF Step, AfterCompleted, AfterCancelled, Declared, Ended, CreateRun,
      CreateBaseline, Initialize, ValidateGoal, BeginBaseline, EvaluateBaseline,
      RecordBaseline, CheckBudget, EnterContext, ContextReady, Propose, RecordProposal,
      CheckPolicy, RecordPolicy, RejectProposal, RecordRefusal, BeginExecution,
      RecordStart, ApplyEdits, RunCommand, RecordCommand, RollBack, BeginCheckpoint,
      Checkpoint, RecordCheckpoint, BeginEvaluation, Evaluate, CreateCandidate,
      RecordEvaluation, CompleteEvaluation, SelectTransition, RecordDecision, Accept,
      Reject, BeginVerify, Verify, RefuseCompletion, AcceptCompletion, SetCompleted,
      Cancel
  <2> QED
    BY <2>1 DEF DeclareCompletion, RecordCompletion, StoreManifest, RecordManifest,
      RecordStored, DeclareCancelled, InvalidTransition, Close, Raise, outcome, db,
      runVars, git
<1>3. CASE Fail \/ Crash \/ Over \/ UNCHANGED vars
  BY <1>3 DEF Fail, Crash, Over, vars, outcome, db, runVars, git
<1> QED
  BY <1>2, <1>3 DEF Next

\* A terminal status is reached from two places only.
LEMMA StatusStep ==
  ASSUME [Next]_vars, status' # status, status' \in {"COMPLETED", "CANCELLED"}
  PROVE  SetCompleted \/ Cancel
<1>1. CASE \/ CreateRun \/ CreateBaseline \/ Initialize \/ ValidateGoal \/ BeginBaseline
           \/ EvaluateBaseline \/ RecordBaseline \/ CheckBudget \/ EnterContext
           \/ ContextReady \/ Propose \/ RecordProposal \/ CheckPolicy \/ RecordPolicy
           \/ RejectProposal \/ RecordRefusal \/ BeginExecution \/ RecordStart
           \/ ApplyEdits \/ RunCommand \/ RecordCommand \/ RollBack \/ BeginCheckpoint
           \/ Checkpoint \/ RecordCheckpoint \/ BeginEvaluation \/ Evaluate
           \/ CreateCandidate \/ RecordEvaluation \/ CompleteEvaluation
           \/ SelectTransition \/ RecordDecision \/ Accept \/ Reject \/ BeginVerify
           \/ Verify \/ RefuseCompletion \/ AcceptCompletion \/ DeclareCompletion
           \/ RecordCompletion \/ StoreManifest \/ RecordManifest \/ RecordStored
           \/ DeclareCancelled \/ InvalidTransition \/ Close
  BY <1>1 DEF CreateRun, CreateBaseline, Initialize, ValidateGoal, BeginBaseline,
    EvaluateBaseline, RecordBaseline, CheckBudget, EnterContext, ContextReady, Propose,
    RecordProposal, CheckPolicy, RecordPolicy, RejectProposal, RecordRefusal,
    BeginExecution, RecordStart, ApplyEdits, RunCommand, RecordCommand, RollBack,
    BeginCheckpoint, Checkpoint, RecordCheckpoint, BeginEvaluation, Evaluate,
    CreateCandidate, RecordEvaluation, CompleteEvaluation, SelectTransition,
    RecordDecision, Accept, Reject, BeginVerify, Verify, RefuseCompletion,
    AcceptCompletion, DeclareCompletion, RecordCompletion, StoreManifest, RecordManifest,
    RecordStored, DeclareCancelled, InvalidTransition, Close, Raise, db
<1>2. CASE Fail \/ Crash \/ Over \/ UNCHANGED vars
  BY <1>2 DEF Fail, Crash, Over, vars, db
<1> QED
  BY <1>1, <1>2 DEF Next, Step

\* What a COMPLETED status stands for is in place when the status is set.
LEMMA CompletedIsVerifiedStep ==
  ASSUME OutcomeIInv, [Next]_vars
  PROVE  CompletedIsVerified'
<1>1. CASE status = "COMPLETED"
  BY <1>1, TerminalSteps DEF OutcomeIInv, OutcomeInv, CompletedIsVerified, outcome
<1>2. CASE SetCompleted
  BY <1>2 DEF SetCompleted, OutcomeIInv, OutcomeInv, LineageIInv, PointerInv, JudgingInv,
    AfterCheckpoint, Registered, Evaluated, Passed, CompletedIsVerified, git, runVars
<1>3. CASE status' # "COMPLETED"
  BY <1>3 DEF CompletedIsVerified
<1> QED
  BY <1>1, <1>2, <1>3, StatusStep DEF Cancel

\* Control and status agree.
LEMMA OutcomeInvStep ==
  ASSUME OutcomeIInv, [Next]_vars
  PROVE  OutcomeInv'
<1> USE DEF OutcomeIInv, OutcomeInv, AfterCompleted, AfterCancelled, Declared, Ended
<1>1. CompletedIsVerified'
  BY CompletedIsVerifiedStep
<1>2. CASE AcceptCompletion
  <2>1. rows \in Seq(Candidate) /\ Len(rows) \in 1 .. Len(rows)
    BY <1>2, EmptySeq DEF LineageIInv, TypeInv, TypeOK, StoreTypes, ControlInv, BeforeTry,
      AcceptCompletion
  <2>2. rows[Len(rows)] \in Candidate
    BY <2>1, ElementOfSeq
  <2>3. PICK s \in CandidateStatus :
          s = "ACCEPTED" /\ rows' = [rows EXCEPT ![Len(rows)].status = s]
    BY <1>2 DEF AcceptCompletion, SetCandidateStatus, CandidateStatus
  <2>4. rows'[Len(rows')] = [rows[Len(rows)] EXCEPT !.status = s]
    BY <2>1, <2>3, StatusUpdate
  <2>5. rows'[Len(rows')].status = "ACCEPTED"
    BY <2>2, <2>3, <2>4 DEF Candidate
  <2> QED
    BY <1>1, <1>2, <2>5 DEF AcceptCompletion, Goto
<1>3. CASE \/ CreateRun \/ CreateBaseline \/ Initialize \/ ValidateGoal \/ BeginBaseline
           \/ EvaluateBaseline \/ RecordBaseline \/ CheckBudget \/ EnterContext
           \/ ContextReady \/ Propose \/ RecordProposal \/ CheckPolicy \/ RecordPolicy
           \/ RejectProposal \/ RecordRefusal \/ BeginExecution \/ RecordStart
           \/ ApplyEdits \/ RunCommand \/ RecordCommand \/ RollBack \/ BeginCheckpoint
           \/ Checkpoint \/ RecordCheckpoint \/ BeginEvaluation \/ Evaluate
           \/ CreateCandidate \/ RecordEvaluation \/ CompleteEvaluation
           \/ SelectTransition \/ RecordDecision \/ Accept \/ Reject \/ BeginVerify
           \/ Verify \/ RefuseCompletion \/ SetCompleted \/ DeclareCompletion
           \/ RecordCompletion \/ StoreManifest \/ RecordManifest \/ RecordStored
           \/ Cancel \/ DeclareCancelled \/ InvalidTransition \/ Close
  BY <1>1, <1>3 DEF CreateRun, CreateBaseline, Initialize, ValidateGoal, BeginBaseline,
    EvaluateBaseline, RecordBaseline, CheckBudget, EnterContext, ContextReady, Propose,
    RecordProposal, CheckPolicy, RecordPolicy, RejectProposal, RecordRefusal,
    BeginExecution, RecordStart, ApplyEdits, RunCommand, RecordCommand, RollBack,
    BeginCheckpoint, Checkpoint, RecordCheckpoint, BeginEvaluation, Evaluate,
    CreateCandidate, RecordEvaluation, CompleteEvaluation, SelectTransition,
    RecordDecision, Accept, Reject, BeginVerify, Verify, RefuseCompletion, RestoreFails,
    SetCompleted, DeclareCompletion, RecordCompletion, StoreManifest, RecordManifest,
    RecordStored, Cancel, DeclareCancelled, InvalidTransition, Close, Goto, Raise, db
<1>4. CASE Fail \/ Crash \/ Over \/ UNCHANGED vars
  BY <1>1, <1>4 DEF Fail, Crash, Over, vars, db
<1> QED
  BY <1>2, <1>3, <1>4 DEF Next, Step

\* The invariant holds in every state of every run.
LEMMA OutcomeInductive == Spec => []OutcomeIInv
<1>1. Init => OutcomeInv
  BY DEF Init, OutcomeInv, AfterCompleted, AfterCancelled, Declared, CompletedIsVerified
<1>2. LineageIInv /\ OutcomeInv /\ [Next]_vars => OutcomeInv'
  BY OutcomeInvStep DEF OutcomeIInv
<1> QED
  BY <1>1, <1>2, LineageInductive, PTL DEF Spec, OutcomeIInv

\* A run the database calls COMPLETED ends on an accepted, acceptable candidate
\* whose commit is checked out, with nothing left out of it but what an ignore
\* file hides (controller.py:555-615).
THEOREM CompletedRunsAreVerified == Spec => []CompletedIsVerified
<1>1. OutcomeIInv => CompletedIsVerified
  BY DEF OutcomeIInv, OutcomeInv
<1> QED
  BY <1>1, OutcomeInductive, PTL

\* After a terminal status the run commits nothing, judges nothing and moves no
\* pointer.
THEOREM TerminalStatusIsFinal == Spec => TerminalIsFinal
<1>1. OutcomeIInv /\ [Next]_vars => [(status \in {"COMPLETED", "CANCELLED"}) => outcome' = outcome]_vars
  BY TerminalSteps DEF OutcomeIInv
<1> QED
  BY <1>1, OutcomeInductive, PTL DEF Spec, TerminalIsFinal

-----------------------------------------------------------------------------
(* The log. *)

\* What a step may do to the log: ask for a transition, record an event, a model
\* call being one, or nothing.
Noted(e) ==
  /\ e.type # "STATE_TRANSITION"
  /\ e.from = cs /\ e.to = cs /\ e.iteration = iteration

Recording ==
  {"propose", "record_proposal", "record_policy", "record_refusal", "record_start",
   "record_command", "record_checkpoint", "evaluation_completed", "record_decision",
   "record_completion", "record_stored"}

LogSteps ==
  \/ UNCHANGED <<log, cs, calls>>
  \/ /\ pc \in Requesting /\ calls' = calls /\ Permitted /\ cs' = Request(pc).target
     /\ \E n \in Nat :
          /\ n = IF pc = "cancelling" THEN MaxIterations
                 ELSE IF pc \in {"initializing", "begin_baseline"} THEN 0 ELSE iteration
          /\ log' = Append(log, Moved(n))
  \/ /\ pc \in Recording /\ cs' = cs
     /\ \E e \in Event :
          /\ Noted(e) /\ log' = Append(log, e)
          /\ calls' = IF e.type = "MODEL_CALL" THEN calls + 1 ELSE calls

LEMMA NoteIsNoted ==
  ASSUME iteration \in Nat, cs \in ControllerState,
         NEW type \in EventType \ {"STATE_TRANSITION"},
         NEW d \in TransitionDecision \union {"none"}
  PROVE  /\ Note(type, cs, d) \in Event /\ Noted(Note(type, cs, d))
         /\ Note(type, cs, d).type = type
<1>1. Note(type, cs, d) \in Event
  BY NoteType
<1> QED
  BY <1>1 DEF Note, Noted

LEMMA LogStep ==
  ASSUME TypeInv, [Next]_vars
  PROVE  LogSteps
<1>0. cs \in ControllerState /\ iteration \in Nat /\ MaxIterations \in Nat
  BY ControllerAssumption DEF TypeInv, TypeOK, MachineTypes, TurnTypes
<1>1. CASE \/ Initialize \/ BeginBaseline \/ EnterContext \/ ContextReady \/ CheckPolicy
           \/ RejectProposal \/ BeginExecution \/ BeginCheckpoint \/ BeginEvaluation
           \/ SelectTransition \/ BeginVerify \/ DeclareCompletion \/ DeclareCancelled
  BY <1>0, <1>1 DEF LogSteps, budget, Initialize, BeginBaseline, EnterContext,
    ContextReady, CheckPolicy, RejectProposal, BeginExecution, BeginCheckpoint,
    BeginEvaluation, SelectTransition, BeginVerify, DeclareCompletion, DeclareCancelled,
    Transition, Requesting
<1>2. CASE RollBack
  BY <1>0, <1>2 DEF LogSteps, budget, RollBack, Transition, Requesting, machine
<1>3. ASSUME NEW type \in EventType \ {"STATE_TRANSITION"},
             NEW d \in TransitionDecision \union {"none"},
             Record(type, d), pc \in Recording,
             calls' = IF type = "MODEL_CALL" THEN calls + 1 ELSE calls
      PROVE  LogSteps
  BY <1>0, <1>3, NoteIsNoted DEF LogSteps, Record
<1>4. CASE RecordPolicy
  <2>1. PICK allowed \in BOOLEAN :
          Record("POLICY_CHECK", IF allowed THEN "ACCEPT" ELSE "REJECT")
    BY <1>4 DEF RecordPolicy
  <2> QED
    BY <1>3, <1>4, <2>1 DEF RecordPolicy, budget, EventType, TransitionDecision, Recording
<1>5. CASE RecordDecision
  <2>1. Decide(vector, history, proposal.completion_claimed) \in TransitionDecision
    BY DecideType DEF TypeInv, TypeOK, TurnTypes, Proposal
  <2> QED
    BY <1>3, <1>5, <2>1 DEF RecordDecision, budget, EventType, Recording
<1>6. CASE Propose
  <2>1. pc = "propose" /\ Record("MODEL_CALL", "none") /\ calls' = calls + 1
    BY <1>6 DEF Propose
  <2> QED
    BY <1>3, <2>1 DEF EventType, Recording
<1>7. CASE \/ RecordProposal \/ RecordRefusal \/ RecordStart \/ RecordCommand
           \/ RecordCheckpoint \/ CompleteEvaluation \/ RecordCompletion \/ RecordStored
  BY <1>3, <1>7 DEF RecordProposal, RecordRefusal, RecordStart, RecordCommand,
    RecordCheckpoint, CompleteEvaluation, RecordCompletion, RecordStored, DecideRefused,
    TransitionDecision, EventType, Recording, budget
<1>8. CASE \/ CreateRun \/ CreateBaseline \/ ValidateGoal \/ EvaluateBaseline
           \/ RecordBaseline \/ CheckBudget \/ ApplyEdits \/ RunCommand \/ Checkpoint
           \/ Evaluate \/ CreateCandidate \/ RecordEvaluation \/ Accept \/ Reject
           \/ Verify \/ RefuseCompletion \/ AcceptCompletion \/ SetCompleted
           \/ StoreManifest \/ RecordManifest \/ Cancel \/ InvalidTransition \/ Close
  BY <1>8 DEF CreateRun, CreateBaseline, ValidateGoal, EvaluateBaseline, RecordBaseline,
    CheckBudget, ApplyEdits, RunCommand, Checkpoint, Evaluate, CreateCandidate,
    RecordEvaluation, Accept, Reject, Verify, RefuseCompletion, AcceptCompletion,
    SetCompleted, StoreManifest, RecordManifest, Cancel, InvalidTransition, Close, Raise,
    machine, budget, LogSteps
<1>9. CASE Fail \/ Crash \/ Over \/ UNCHANGED vars
  BY <1>9 DEF Fail, Crash, Over, vars, machine, budget, LogSteps
<1> QED
  BY <1>1, <1>2, <1>4, <1>5, <1>6, <1>7, <1>8, <1>9 DEF Next, Step

\* The log only grows, by one event at most.
LEMMA LogGrows ==
  ASSUME TypeInv, [Next]_vars
  PROVE  /\ log' \in Seq(Event) /\ Len(log') \in {Len(log), Len(log) + 1}
         /\ \A i \in 1 .. Len(log) : log'[i] = log[i]
<1>1. log \in Seq(Event)
  BY DEF TypeInv, TypeOK, MachineTypes
<1>2. ASSUME NEW e
      PROVE  /\ Len(Append(log, e)) = Len(log) + 1
             /\ \A i \in 1 .. Len(log) : Append(log, e)[i] = log[i]
  BY <1>1
<1>3. log' \in Seq(Event)
  BY MachineTypesStep DEF MachineTypes
<1> QED
  BY <1>1, <1>2, <1>3, LogStep DEF LogSteps

\* An event that a step appends is the one it records or the move it asked for.
LEMMA NewEvent ==
  ASSUME TypeInv, [Next]_vars, Len(log') = Len(log) + 1
  PROVE  \/ /\ pc \in Requesting /\ Permitted /\ cs' = Request(pc).target /\ calls' = calls
            /\ \E n \in Nat :
                 /\ n = IF pc = "cancelling" THEN MaxIterations
                        ELSE IF pc \in {"initializing", "begin_baseline"} THEN 0 ELSE iteration
                 /\ log' = Append(log, Moved(n)) /\ log'[Len(log) + 1] = Moved(n)
         \/ /\ pc \in Recording /\ cs' = cs /\ log'[Len(log) + 1] \in Event
            /\ Noted(log'[Len(log) + 1]) /\ log' = Append(log, log'[Len(log) + 1])
            /\ calls' = IF log'[Len(log) + 1].type = "MODEL_CALL" THEN calls + 1 ELSE calls
<1>1. log \in Seq(Event) /\ Len(log) \in Nat
  BY DEF TypeInv, TypeOK, MachineTypes
<1>2. ASSUME NEW e PROVE Append(log, e)[Len(log) + 1] = e
  BY <1>1
<1>3. log' # log
  BY <1>1
<1> QED
  BY <1>2, <1>3, LogStep DEF LogSteps

LEMMA NoEvent ==
  ASSUME TypeInv, [Next]_vars, Len(log') = Len(log)
  PROVE  UNCHANGED <<log, cs, calls>>
<1>1. log \in Seq(Event) /\ Len(log) \in Nat
  BY DEF TypeInv, TypeOK, MachineTypes
<1>2. ASSUME NEW e PROVE Len(Append(log, e)) = Len(log) + 1
  BY <1>1
<1> QED
  BY <1>1, <1>2, LogStep DEF LogSteps

\* What is read back of a log: a path of the state machine from its first state.
Replays(L, s) ==
  /\ \A i \in DOMAIN L :
       /\ L[i].from = IF i = 1 THEN "CREATED" ELSE L[i - 1].to
       /\ IF L[i].type = "STATE_TRANSITION"
          THEN Validate(L[i].from, L[i].to, L[i].decision)
          ELSE L[i].to = L[i].from
  /\ s = IF L = <<>> THEN "CREATED" ELSE L[Len(L)].to

LEMMA ReplayedAppend ==
  ASSUME NEW L \in Seq(Event), NEW s, Replays(L, s), NEW e \in Event, e.from = s,
         IF e.type = "STATE_TRANSITION" THEN Validate(e.from, e.to, e.decision) ELSE e.to = e.from
  PROVE  Append(L, e) \in Seq(Event) /\ Replays(Append(L, e), e.to)
<1> DEFINE K == Append(L, e)
<1>1. /\ K \in Seq(Event) /\ Len(K) = Len(L) + 1 /\ Len(L) \in Nat
      /\ \A i \in 1 .. Len(L) : K[i] = L[i]
      /\ K[Len(L) + 1] = e
      /\ DOMAIN K = 1 .. Len(L) + 1 /\ DOMAIN L = 1 .. Len(L) /\ K # <<>>
      /\ L = <<>> <=> Len(L) = 0
  BY AppendProperties, EmptySeq, LenProperties
<1> HIDE DEF K
<1>2. K[Len(K)].to = e.to
  BY <1>1
<1>3. ASSUME NEW i \in 1 .. Len(L)
      PROVE  /\ K[i].from = IF i = 1 THEN "CREATED" ELSE K[i - 1].to
             /\ IF K[i].type = "STATE_TRANSITION"
                THEN Validate(K[i].from, K[i].to, K[i].decision) ELSE K[i].to = K[i].from
  <2>1. i \in DOMAIN L /\ K[i] = L[i] /\ (i # 1 => K[i - 1] = L[i - 1])
    BY <1>1
  <2> QED
    BY <2>1 DEF Replays
<1>4. K[Len(L) + 1].from = IF Len(L) + 1 = 1 THEN "CREATED" ELSE K[Len(L) + 1 - 1].to
  BY <1>1 DEF Replays
<1>5. ASSUME NEW i \in DOMAIN K
      PROVE  /\ K[i].from = IF i = 1 THEN "CREATED" ELSE K[i - 1].to
             /\ IF K[i].type = "STATE_TRANSITION"
                THEN Validate(K[i].from, K[i].to, K[i].decision) ELSE K[i].to = K[i].from
  <2>1. CASE i \in 1 .. Len(L)
    BY <1>3, <2>1
  <2>2. CASE i = Len(L) + 1
    BY <1>1, <1>4, <2>2
  <2> QED
    BY <1>1, <2>1, <2>2
<1>6. Replays(K, e.to)
  BY <1>1, <1>2, <1>5 DEF Replays
<1> QED
  BY <1>1, <1>6 DEF K

LEMMA MovedReplays ==
  ASSUME TypeInv, LogReplays, pc \in Requesting, Permitted, NEW n \in Nat
  PROVE  /\ Append(log, Moved(n)) \in Seq(Event)
         /\ Replays(Append(log, Moved(n)), Request(pc).target)
<1>1. log \in Seq(Event) /\ cs \in ControllerState /\ Moved(n) \in Event
  BY MovedType DEF TypeInv, TypeOK, MachineTypes
<1>2. /\ Moved(n).from = cs /\ Moved(n).to = Request(pc).target
      /\ Moved(n).type = "STATE_TRANSITION" /\ Moved(n).decision = Request(pc).decision
  BY DEF Moved
<1>3. Replays(log, cs)
  BY DEF LogReplays, Replays
<1> QED
  BY <1>1, <1>2, <1>3, ReplayedAppend DEF Permitted

\* The log of a run, whatever ended it, is a path of the state machine: each
\* event begins where the one before ended, each move is one both tables allow
\* (controller.py:951-985, state_machine.py:117-139).
THEOREM LogsReplay == Spec => []LogReplays
<1>1. Init => LogReplays
  BY EmptySeq DEF Init, LogReplays
<1>2. ASSUME TypeInv, LogReplays, [Next]_vars PROVE LogReplays'
  <2>1. log \in Seq(Event) /\ Replays(log, cs)
    BY <1>2 DEF TypeInv, TypeOK, MachineTypes, LogReplays, Replays
  <2>2. SUFFICES Replays(log', cs')
    BY DEF LogReplays, Replays
  <2>3. CASE UNCHANGED <<log, cs, calls>>
    BY <2>1, <2>3
  <2>4. ASSUME pc \in Requesting, Permitted, cs' = Request(pc).target, NEW n \in Nat,
               log' = Append(log, Moved(n))
        PROVE  Replays(log', cs')
    BY <1>2, <2>4, MovedReplays
  <2>5. ASSUME cs' = cs, NEW e \in Event, Noted(e), log' = Append(log, e)
        PROVE  Replays(log', cs')
    BY <2>1, <2>5, ReplayedAppend DEF Noted
  <2> QED
    BY <1>2, <2>3, <2>4, <2>5, LogStep DEF LogSteps
<1> QED
  BY <1>1, <1>2, TypeInvariant, PTL DEF Spec

-----------------------------------------------------------------------------
(* What is declared. *)

\* A move that is in the log after a step was there before or is the step's own.
LEMMA ReachedStep ==
  ASSUME TypeInv, [Next]_vars, NEW s
  PROVE  /\ Reached(s) => Reached(s)'
         /\ Reached(s)' => Reached(s) \/ (pc \in Requesting /\ s = Request(pc).target)
<1>1. log \in Seq(Event)
  BY DEF TypeInv, TypeOK, MachineTypes
<1>2. /\ DOMAIN log = 1 .. Len(log) /\ DOMAIN log' = 1 .. Len(log')
      /\ Len(log) \in Nat /\ Len(log') \in {Len(log), Len(log) + 1}
      /\ \A i \in 1 .. Len(log) : log'[i] = log[i]
  BY <1>1, LogGrows
<1>3. /\ \A i \in DOMAIN log : i \in DOMAIN log' /\ log'[i] = log[i]
      /\ \A i \in DOMAIN log' :
           (i \in DOMAIN log /\ log'[i] = log[i])
             \/ (i = Len(log) + 1 /\ Len(log') = Len(log) + 1)
  <2>1. \A m, n, k \in Nat : m \in {n, n + 1} =>
          /\ k \in 1 .. n => k \in 1 .. m
          /\ k \in 1 .. m => k \in 1 .. n \/ (k = n + 1 /\ m = n + 1)
    OBVIOUS
  <2>2. Len(log') \in Nat
    BY LogGrows, LenProperties
  <2>3. \A m \in Nat : 1 .. m \subseteq Nat
    OBVIOUS
  <2> QED
    BY <1>2, <2>1, <2>2, <2>3
<1>4. ASSUME Len(log') = Len(log) + 1, log'[Len(log) + 1].type = "STATE_TRANSITION",
             log'[Len(log) + 1].to = s
      PROVE  pc \in Requesting /\ s = Request(pc).target
  <2>1. \A n : Moved(n).to = Request(pc).target
    BY DEF Moved
  <2>2. ~Noted(log'[Len(log) + 1])
    BY <1>4 DEF Noted
  <2> QED
    BY <1>4, <2>1, <2>2, NewEvent
<1>5. Reached(s) <=> \E i \in DOMAIN log : log[i].type = "STATE_TRANSITION" /\ log[i].to = s
  BY DEF Reached
<1>6. Reached(s)' <=> \E i \in DOMAIN log' : log'[i].type = "STATE_TRANSITION" /\ log'[i].to = s
  BY DEF Reached
<1>7. Reached(s) => Reached(s)'
  BY <1>3, <1>5, <1>6
<1>8. ASSUME Reached(s)' PROVE Reached(s) \/ (pc \in Requesting /\ s = Request(pc).target)
  <2>1. PICK i \in DOMAIN log' : log'[i].type = "STATE_TRANSITION" /\ log'[i].to = s
    BY <1>6, <1>8
  <2>2. CASE i \in DOMAIN log /\ log'[i] = log[i]
    BY <1>5, <2>1, <2>2
  <2>3. CASE i = Len(log) + 1 /\ Len(log') = Len(log) + 1
    BY <1>4, <2>1, <2>3
  <2> QED
    BY <1>3, <2>2, <2>3
<1> QED
  BY <1>7, <1>8

DeclaredInv ==
  DeclarationsAreBacked /\ (pc \in Declared => Reached("COMPLETED"))

\* A COMPLETED or CANCELLED move is in the log, and a manifest in the store, only
\* after what it declares was written: a crash may leave less, never more
\* (controller.py:598-650, 684-692).
THEOREM DeclarationsHaveBacking == Spec => []DeclarationsAreBacked
<1>1. Init => DeclaredInv
  BY EmptySeq DEF Init, DeclaredInv, DeclarationsAreBacked, Reached, Declared
<1>2. ASSUME OutcomeIInv, DeclaredInv, [Next]_vars PROVE DeclaredInv'
  <2>0. TypeInv
    BY <1>2 DEF OutcomeIInv, LineageIInv
  <2>1. /\ Reached("COMPLETED") => Reached("COMPLETED")'
        /\ Reached("COMPLETED")' => Reached("COMPLETED") \/ (pc = "declare")
        /\ Reached("CANCELLED")' => Reached("CANCELLED") \/ (pc = "cancelling")
    BY <1>2, <2>0, ReachedStep DEF Requesting, Request
  <2>2. (Reached("COMPLETED")' => status = "COMPLETED") /\ (Reached("CANCELLED")' => status = "CANCELLED")
    BY <1>2, <2>1 DEF DeclaredInv, DeclarationsAreBacked, OutcomeIInv, OutcomeInv
  <2>3. status \in {"COMPLETED", "CANCELLED"} => status' = status
    BY <1>2, TerminalSteps DEF OutcomeIInv, outcome
  <2>4. /\ manifest' # manifest => pc \in Declared
        /\ pc' \in Declared => pc \in Declared \/ DeclareCompletion
    BY <1>2, <2>0 DEF Next, Step, vars, Declared, CreateRun, CreateBaseline, Initialize,
      ValidateGoal, BeginBaseline, EvaluateBaseline, RecordBaseline, CheckBudget,
      EnterContext, ContextReady, Propose, RecordProposal, CheckPolicy, RecordPolicy,
      RejectProposal, RecordRefusal, BeginExecution, RecordStart, ApplyEdits, RunCommand,
      RecordCommand, RollBack, BeginCheckpoint, Checkpoint, RecordCheckpoint,
      BeginEvaluation, Evaluate, CreateCandidate, RecordEvaluation, CompleteEvaluation,
      SelectTransition, RecordDecision, Accept, Reject, BeginVerify, Verify,
      RefuseCompletion, RestoreFails, AcceptCompletion, SetCompleted, DeclareCompletion,
      RecordCompletion, StoreManifest, RecordManifest, RecordStored, Cancel,
      DeclareCancelled, InvalidTransition, Close, Fail, Crash, Over, Goto, Raise, db
  <2>5. DeclareCompletion => Reached("COMPLETED")'
    <3> SUFFICES ASSUME DeclareCompletion PROVE Reached("COMPLETED")'
      OBVIOUS
    <3>1. log \in Seq(Event) /\ Moved(iteration).type = "STATE_TRANSITION" /\ Moved(iteration).to = "COMPLETED"
      BY <2>0 DEF TypeInv, TypeOK, MachineTypes, DeclareCompletion, Moved, Request
    <3>2. log' = Append(log, Moved(iteration))
      BY DEF DeclareCompletion, Transition
    <3>3. Len(log) + 1 \in DOMAIN log' /\ log'[Len(log) + 1] = Moved(iteration)
      BY <3>1, <3>2
    <3> QED
      BY <3>1, <3>3 DEF Reached
  <2> QED
    BY <1>2, <2>1, <2>2, <2>3, <2>4, <2>5 DEF DeclaredInv, DeclarationsAreBacked
<1>3. DeclaredInv => DeclarationsAreBacked
  BY DEF DeclaredInv
<1> QED
  BY <1>1, <1>2, <1>3, OutcomeInductive, PTL DEF Spec

-----------------------------------------------------------------------------
(* The pace of a run: turns, calls and the iterations of its events. *)

Baseline == {"start", "create_baseline", "initializing", "validate_goal", "begin_baseline",
             "evaluate_baseline", "record_baseline"}
Asking   == {"enter", "context_ready", "propose"}
InTurn   == ControlPoints \ (Baseline \union Ended \union {"loop", "cancel", "cancelling", "closing"})

Validated == InTurn \union {"begin_baseline", "evaluate_baseline", "record_baseline", "loop"}

\* No event of the log is of an iteration after n.
LogUpTo(n) == \A i \in DOMAIN log : log[i].iteration <= n

PaceInv ==
  /\ pc \in Baseline => iteration = 0 /\ used = 0 /\ calls = 0 /\ LogUpTo(0)
  /\ pc = "loop" => iteration = used + 1 /\ used <= MaxIterations /\ calls <= used /\ LogUpTo(used)
  /\ pc \in InTurn => /\ iteration = used /\ used <= MaxIterations /\ calls <= used
                      /\ LogUpTo(iteration)
  /\ pc \in Asking => calls < used
  /\ pc \in {"cancel", "cancelling"} => LogUpTo(MaxIterations)
  /\ pc \in Validated => MaxIterations <= MaxModelCalls
  /\ calls # 0 => MaxIterations <= MaxModelCalls
  /\ iteration <= MaxIterations + 1 /\ calls <= MaxIterations
  /\ LogIsSorted

\* Where a step leads, and what it does to the counters.
LEMMA PaceSteps ==
  ASSUME TypeInv, [Next]_vars
  PROVE  \/ UNCHANGED <<iteration, used, calls>> /\ pc' \in {pc, "closing"} \union Ended
         \/ /\ UNCHANGED <<iteration, used, calls>>
            /\ \/ pc \in Baseline /\ pc' \in Baseline \ {"start"}
                  /\ (pc' \in Validated => MaxIterations <= MaxModelCalls \/ pc \in Validated)
               \/ pc \in InTurn /\ pc' \in InTurn \ Asking
               \/ pc \in Asking /\ pc' \in Asking
               \/ pc = "cancel" /\ pc' = "cancelling"
         \/ /\ pc = "record_baseline" /\ pc' = "loop" /\ iteration' = 1 /\ UNCHANGED <<used, calls>>
         \/ /\ pc = "loop" /\ used' = used + 1 /\ UNCHANGED <<iteration, calls>>
            /\ \/ pc' = "enter" /\ used + 1 <= MaxIterations
               \/ pc' = "cancel"
         \/ /\ pc = "propose" /\ pc' = "record_proposal" /\ calls' = calls + 1
            /\ UNCHANGED <<iteration, used>>
         \/ /\ pc \in InTurn /\ pc' = "loop" /\ iteration' = iteration + 1 /\ UNCHANGED <<used, calls>>
<1> USE DEF Goto, Raise, budget, runVars, Baseline, InTurn, Asking, Validated, ControlPoints,
      Requesting, Ended
<1>1. CASE \/ CreateRun \/ CreateBaseline \/ Initialize \/ ValidateGoal \/ BeginBaseline
           \/ EvaluateBaseline \/ RecordBaseline
  BY <1>1, ControllerAssumption DEF CreateRun, CreateBaseline, Initialize, ValidateGoal,
    BeginBaseline, EvaluateBaseline, RecordBaseline
<1>2. CASE CheckBudget
  BY <1>2, ControllerAssumption DEF CheckBudget, TypeInv, TypeOK, TurnTypes
<1>3. CASE \/ EnterContext \/ ContextReady \/ Propose \/ RecordProposal \/ CheckPolicy
           \/ RecordPolicy \/ RejectProposal \/ RecordRefusal
  BY <1>3 DEF EnterContext, ContextReady, Propose, RecordProposal, CheckPolicy,
    RecordPolicy, RejectProposal, RecordRefusal
<1>4. CASE \/ BeginExecution \/ RecordStart \/ ApplyEdits \/ RunCommand \/ RecordCommand
           \/ RollBack \/ BeginCheckpoint \/ Checkpoint \/ RecordCheckpoint
           \/ BeginEvaluation \/ Evaluate \/ CreateCandidate \/ RecordEvaluation
           \/ CompleteEvaluation \/ SelectTransition \/ RecordDecision
  BY <1>4 DEF BeginExecution, RecordStart, ApplyEdits, RunCommand, RecordCommand,
    RollBack, RestoreFails, BeginCheckpoint, Checkpoint, RecordCheckpoint,
    BeginEvaluation, Evaluate, CreateCandidate, RecordEvaluation, CompleteEvaluation,
    SelectTransition, RecordDecision
<1>5. CASE \/ Accept \/ Reject \/ BeginVerify \/ Verify \/ RefuseCompletion
           \/ AcceptCompletion \/ SetCompleted \/ DeclareCompletion \/ RecordCompletion
           \/ StoreManifest \/ RecordManifest \/ RecordStored
  BY <1>5 DEF Accept, Reject, BeginVerify, Verify, RefuseCompletion, RestoreFails,
    AcceptCompletion, SetCompleted, DeclareCompletion, RecordCompletion, StoreManifest,
    RecordManifest, RecordStored
<1>6. CASE Cancel \/ DeclareCancelled \/ InvalidTransition \/ Close
  BY <1>6 DEF Cancel, DeclareCancelled, InvalidTransition, Close
<1>7. CASE Fail \/ Crash \/ Over \/ UNCHANGED vars
  BY <1>7 DEF Fail, Crash, Over, vars
<1> QED
  BY <1>1, <1>2, <1>3, <1>4, <1>5, <1>6, <1>7 DEF Next, Step

\* The iteration that events carry at this place.
Stamp == IF pc = "cancelling" THEN MaxIterations ELSE iteration

LEMMA StampStep ==
  ASSUME TypeInv, PaceInv, [Next]_vars, NEW i \in DOMAIN log'
  PROVE  (i \in 1 .. Len(log) /\ log'[i] = log[i]) \/ (i > Len(log) /\ log'[i].iteration = Stamp)
<1>1. /\ log \in Seq(Event) /\ Len(log) \in Nat /\ log' \in Seq(Event)
      /\ Len(log') \in {Len(log), Len(log) + 1} /\ i \in 1 .. Len(log')
  BY LogGrows DEF TypeInv, TypeOK, MachineTypes
<1>2. CASE i <= Len(log)
  BY <1>1, <1>2, LogGrows
<1>3. CASE i > Len(log)
  <2>1. i = Len(log) + 1 /\ Len(log') = Len(log) + 1
    BY <1>1, <1>3
  <2>2. \A n : Moved(n).iteration = n
    BY DEF Moved
  <2>3. /\ pc \in {"initializing", "begin_baseline"} => iteration = 0
        /\ pc \in Recording => pc # "cancelling"
    BY DEF PaceInv, Baseline, Recording
  <2>4. log'[i].iteration = Stamp
    BY <2>1, <2>2, <2>3, NewEvent DEF Noted, Stamp
  <2> QED
    BY <1>3, <2>4
<1> QED
  BY <1>1, <1>2, <1>3

LEMMA SortedStep ==
  ASSUME TypeInv, PaceInv, [Next]_vars
  PROVE  LogIsSorted'
<1>1. log \in Seq(Event) /\ log' \in Seq(Event) /\ DOMAIN log = 1 .. Len(log)
      /\ DOMAIN log' = 1 .. Len(log') /\ Len(log) \in Nat /\ Len(log') \in Nat
  BY LogGrows DEF TypeInv, TypeOK, MachineTypes
<1>2. CASE UNCHANGED log
  BY <1>2 DEF PaceInv, LogIsSorted
<1>3. CASE ~UNCHANGED log
  <2>1. pc \in Baseline \union InTurn \union {"cancelling"}
    <3>1. pc \in Requesting \union Recording
      BY <1>3, LogStep DEF LogSteps
    <3> QED
      BY <3>1 DEF Requesting, Recording, Baseline, InTurn, ControlPoints, Ended
  <2>2. LogUpTo(Stamp) /\ Stamp \in Nat
    BY <2>1, ControllerAssumption DEF PaceInv, Stamp, Baseline, InTurn, TypeInv, TypeOK, TurnTypes
  <2>3. ASSUME NEW i \in DOMAIN log', NEW j \in DOMAIN log', i < j
        PROVE  log'[i].iteration <= log'[j].iteration
    <3>1. (i \in 1 .. Len(log) /\ log'[i] = log[i]) \/ (i > Len(log) /\ log'[i].iteration = Stamp)
      BY StampStep
    <3>2. (j \in 1 .. Len(log) /\ log'[j] = log[j]) \/ (j > Len(log) /\ log'[j].iteration = Stamp)
      BY StampStep
    <3> QED
      BY <1>1, <2>2, <2>3, <3>1, <3>2 DEF PaceInv, LogIsSorted, LogUpTo
  <2> QED
    BY <2>3 DEF LogIsSorted
<1> QED
  BY <1>2, <1>3

LEMMA UpToStep ==
  ASSUME TypeInv, PaceInv, [Next]_vars, NEW m \in Nat, LogUpTo(m), Stamp <= m \/ UNCHANGED log
  PROVE  \A i \in DOMAIN log' : log'[i].iteration <= m
<1> SUFFICES ASSUME NEW i \in DOMAIN log' PROVE log'[i].iteration <= m
  OBVIOUS
<1>1. CASE UNCHANGED log
  BY <1>1 DEF LogUpTo
<1>2. CASE Stamp <= m
  <2>1. log \in Seq(Event) /\ DOMAIN log = 1 .. Len(log)
    BY DEF TypeInv, TypeOK, MachineTypes
  <2> QED
    BY <1>2, <2>1, StampStep DEF LogUpTo
<1> QED
  BY <1>1, <1>2

LEMMA PaceStep ==
  ASSUME TypeInv, PaceInv, [Next]_vars
  PROVE  PaceInv'
<1> USE ControllerAssumption
<1>0. /\ iteration \in Nat /\ used \in Nat /\ calls \in Nat
      /\ iteration' \in Nat /\ used' \in Nat /\ calls' \in Nat
      /\ pc \in ControlPoints /\ pc' \in ControlPoints
  BY TypeInvStep DEF TypeInv, TypeOK, TurnTypes, ControlTypes
<1>1. LogIsSorted'
  BY SortedStep
<1>2. ASSUME NEW m \in Nat, pc \notin {"cancelling", "loop", "cancel"}, iteration <= m, LogUpTo(m)
      PROVE  \A i \in DOMAIN log' : log'[i].iteration <= m
  BY <1>2, UpToStep DEF Stamp
<1>3. pc \in {"loop", "cancel", "closing"} \union Ended => UNCHANGED log
  BY LogStep DEF LogSteps, Requesting, Recording, Ended
<1>4. CASE UNCHANGED <<iteration, used, calls>> /\ pc' \in {pc, "closing"} \union Ended
  <2>1. CASE pc' = pc
    <3>1. CASE UNCHANGED log
      BY <1>1, <1>4, <2>1, <3>1 DEF PaceInv, LogUpTo
    <3>2. CASE ~UNCHANGED log
      <4>1. pc \in Baseline \union InTurn \union {"cancelling"}
        BY <1>0, <1>3, <3>2 DEF InTurn
      <4>2. pc \in Baseline => LogUpTo(0)'
        BY <1>2, <4>1 DEF PaceInv, LogUpTo, Baseline
      <4>3. pc \in InTurn => LogUpTo(iteration)'
        BY <1>0, <1>2, <1>4, <4>1 DEF PaceInv, LogUpTo, InTurn
      <4>4. pc = "cancelling" => LogUpTo(MaxIterations)'
        BY UpToStep DEF PaceInv, LogUpTo, Stamp
      <4> QED
        BY <1>1, <1>4, <2>1, <4>1, <4>2, <4>3, <4>4 DEF PaceInv, Baseline, InTurn
    <3> QED
      BY <3>1, <3>2
  <2>2. CASE pc' \in {"closing"} \union Ended
    BY <1>1, <1>4, <2>2 DEF PaceInv, Baseline, InTurn, Asking, Validated, Ended
  <2> QED
    BY <1>4, <2>1, <2>2
<1>5. CASE /\ UNCHANGED <<iteration, used, calls>>
           /\ pc \in Baseline /\ pc' \in Baseline \ {"start"}
           /\ (pc' \in Validated => MaxIterations <= MaxModelCalls \/ pc \in Validated)
  <2>1. \A i \in DOMAIN log' : log'[i].iteration <= 0
    BY <1>0, <1>2, <1>5 DEF PaceInv, Baseline
  <2> QED
    BY <1>0, <1>1, <1>5, <2>1 DEF PaceInv, LogUpTo, Baseline, InTurn, Asking, Validated
<1>6. CASE UNCHANGED <<iteration, used, calls>> /\ pc \in InTurn /\ pc' \in InTurn
           /\ (pc' \in Asking => pc \in Asking)
  <2>1. \A i \in DOMAIN log' : log'[i].iteration <= iteration
    BY <1>0, <1>2, <1>6 DEF PaceInv, InTurn
  <2> QED
    BY <1>0, <1>1, <1>6, <2>1 DEF PaceInv, LogUpTo, Baseline, InTurn, Asking, Validated
<1>7. CASE UNCHANGED <<iteration, used, calls>> /\ pc = "cancel" /\ pc' = "cancelling"
  BY <1>0, <1>1, <1>3, <1>7 DEF PaceInv, LogUpTo, Baseline, InTurn, Asking, Validated
<1>8. CASE pc = "record_baseline" /\ pc' = "loop" /\ iteration' = 1 /\ UNCHANGED <<used, calls>>
  <2>1. \A i \in DOMAIN log' : log'[i].iteration <= 0
    BY <1>0, <1>2, <1>8 DEF PaceInv, Baseline
  <2> QED
    BY <1>0, <1>1, <1>8, <2>1 DEF PaceInv, LogUpTo, Baseline, InTurn, Asking, Validated
<1>9. CASE /\ pc = "loop" /\ used' = used + 1 /\ UNCHANGED <<iteration, calls>>
           /\ \/ pc' = "enter" /\ used + 1 <= MaxIterations
              \/ pc' = "cancel"
  <2>1. \A i \in DOMAIN log : log[i].iteration <= used
    BY <1>9 DEF PaceInv, LogUpTo
  <2>2. \A i \in DOMAIN log : log[i].iteration \in Nat
    <3>1. log \in Seq(Event) /\ DOMAIN log = 1 .. Len(log)
      BY LenProperties DEF TypeInv, TypeOK, MachineTypes
    <3>2. \A i \in DOMAIN log : log[i] \in Event
      BY <3>1, ElementOfSeq
    <3> QED
      BY <3>2 DEF Event
  <2>3. /\ \A i \in DOMAIN log : log[i].iteration <= iteration'
        /\ \A i \in DOMAIN log : log[i].iteration <= MaxIterations
    BY <1>0, <1>9, <2>1, <2>2 DEF PaceInv
  <2> QED
    BY <1>0, <1>1, <1>3, <1>9, <2>3 DEF PaceInv, LogUpTo, Baseline, InTurn, Asking, Validated
<1>10. CASE /\ pc = "propose" /\ pc' = "record_proposal" /\ calls' = calls + 1
            /\ UNCHANGED <<iteration, used>>
  <2>0. pc \in InTurn
    BY <1>10 DEF InTurn, ControlPoints, Baseline, Ended
  <2>1. \A i \in DOMAIN log' : log'[i].iteration <= iteration
    BY <1>0, <1>2, <1>10, <2>0 DEF PaceInv
  <2> QED
    BY <1>0, <1>1, <1>10, <2>0, <2>1 DEF PaceInv, LogUpTo, Baseline, InTurn, Asking, Validated
<1>11. CASE pc \in InTurn /\ pc' = "loop" /\ iteration' = iteration + 1 /\ UNCHANGED <<used, calls>>
  <2>1. \A i \in DOMAIN log' : log'[i].iteration <= iteration
    BY <1>0, <1>2, <1>11 DEF PaceInv, InTurn
  <2> QED
    BY <1>0, <1>1, <1>11, <2>1 DEF PaceInv, LogUpTo, Baseline, InTurn, Asking, Validated
<1>12. Asking \subseteq InTurn
  BY DEF Asking, InTurn, ControlPoints, Requesting, Baseline, Ended
<1>13. CASE UNCHANGED <<iteration, used, calls>> /\ pc \in Asking /\ pc' \in Asking
  BY <1>6, <1>12, <1>13
<1>14. CASE UNCHANGED <<iteration, used, calls>> /\ pc \in InTurn /\ pc' \in InTurn \ Asking
  BY <1>6, <1>14
<1> QED
  BY <1>4, <1>5, <1>7, <1>8, <1>9, <1>10, <1>11, <1>13, <1>14, PaceSteps

LEMMA PaceInvariant == Spec => [](TypeInv /\ PaceInv)
<1>1. Init => PaceInv
  <2>1. ASSUME Init PROVE PaceInv
    <3>1. log = <<>> /\ DOMAIN log = {}
      BY <2>1, EmptySeq DEF Init
    <3> QED
      BY <2>1, <3>1, ControllerAssumption DEF Init, PaceInv, LogUpTo, LogIsSorted, Baseline, InTurn, Asking,
        Validated
  <2> QED
    BY <2>1
<1> QED
  BY <1>1, PaceStep, TypeInvariant, PTL DEF Spec

\* The events are appended in the order of their iterations, so that the sort of
\* the event repository leaves the chain as it was written: also past a
\* cancellation, whose event carries the limit (controller.py:690).
THEOREM LogsAreSorted == Spec => []LogIsSorted
<1>1. PaceInv => LogIsSorted
  BY DEF PaceInv
<1> QED
  BY <1>1, PaceInvariant, PTL

\* One more event of type MODEL_CALL, or none.
LEMMA CallsStep ==
  ASSUME TypeInv, [Next]_vars, IsFiniteSet(DOMAIN log),
         Cardinality({i \in DOMAIN log : log[i].type = "MODEL_CALL"}) = calls
  PROVE  Cardinality({i \in DOMAIN log : log[i].type = "MODEL_CALL"})' = calls'
<1> DEFINE Made(L) == {i \in DOMAIN L : L[i].type = "MODEL_CALL"}
<1>1. log \in Seq(Event) /\ calls \in Nat
  BY DEF TypeInv, TypeOK, MachineTypes, TurnTypes
<1>2. ASSUME NEW L \in Seq(Event), NEW e \in Event
      PROVE  /\ Append(L, e) \in Seq(Event)
             /\ e.type # "MODEL_CALL" => Made(Append(L, e)) = Made(L)
             /\ e.type = "MODEL_CALL" => Made(Append(L, e)) = Made(L) \union {Len(L) + 1}
  <2>1. /\ Append(L, e) \in Seq(Event) /\ DOMAIN Append(L, e) = 1 .. Len(L) + 1
        /\ DOMAIN L = 1 .. Len(L) /\ Len(L) \in Nat
        /\ Append(L, e)[Len(L) + 1] = e /\ \A i \in 1 .. Len(L) : Append(L, e)[i] = L[i]
    BY AppendProperties, LenProperties
  <2> QED
    BY <2>1
<1>3. CASE UNCHANGED <<log, cs, calls>>
  BY <1>3
<1>4. ASSUME calls' = calls, NEW n \in Nat, pc \in Requesting, log' = Append(log, Moved(n))
      PROVE  Made(log') = Made(log)
  <2>1. Moved(n) \in Event /\ Moved(n).type # "MODEL_CALL"
    BY <1>4, MovedType DEF Moved, TypeInv, TypeOK, MachineTypes
  <2> QED
    BY <1>1, <1>2, <1>4, <2>1
<1>5. ASSUME NEW e \in Event, e.type # "MODEL_CALL", log' = Append(log, e)
      PROVE  Made(log') = Made(log)
  BY <1>1, <1>2, <1>5
<1>6. ASSUME calls' = calls + 1, NEW e \in Event, e.type = "MODEL_CALL", log' = Append(log, e)
      PROVE  Cardinality(Made(log')) = calls'
  <2>1. Made(log') = Made(log) \union {Len(log) + 1}
    BY <1>1, <1>2, <1>6
  <2>2. IsFiniteSet(Made(log)) /\ Len(log) + 1 \notin Made(log)
    <3>1. Len(log) + 1 \notin DOMAIN log /\ Made(log) \subseteq DOMAIN log
      BY <1>1, LenProperties
    <3> QED
      BY <3>1, FS_Subset
  <2>3. Cardinality(Made(log) \union {Len(log) + 1}) = Cardinality(Made(log)) + 1
    BY <2>2, FS_AddElement
  <2> QED
    BY <1>6, <2>1, <2>3
<1>7. Made(log') = Made(log) /\ calls' = calls => Cardinality(Made(log')) = calls'
  OBVIOUS
<1> HIDE DEF Made
<1>8. Cardinality(Made(log')) = calls'
  BY <1>3, <1>4, <1>5, <1>6, <1>7, LogStep DEF LogSteps
<1> QED
  BY <1>8 DEF Made

\* The agent answers at most once a turn, each answer is an event, and their
\* number stays within both limits, whatever the answers, the failures and the
\* clock (controller.py:384-415, budgets.py:39-49).
THEOREM BudgetsHold == Spec => []BudgetIsRespected
<1> DEFINE Counted == Cardinality({i \in DOMAIN log : log[i].type = "MODEL_CALL"}) = calls
<1>1. Init => Counted
  <2>1. ASSUME Init PROVE Counted
    <3>1. {i \in DOMAIN log : log[i].type = "MODEL_CALL"} = {}
      BY <2>1, EmptySeq DEF Init
    <3> QED
      BY <2>1, <3>1, FS_EmptySet DEF Init
  <2> QED
    BY <2>1
<1>2. TypeInv /\ Counted /\ [Next]_vars => Counted'
  <2>1. ASSUME TypeInv PROVE IsFiniteSet(DOMAIN log)
    <3>1. DOMAIN log = 1 .. Len(log) /\ Len(log) \in Nat
      BY <2>1, LenProperties DEF TypeInv, TypeOK, MachineTypes
    <3> QED
      BY <3>1, FS_Interval
  <2> QED
    BY <2>1, CallsStep
<1>3. TypeInv /\ PaceInv /\ Counted => BudgetIsRespected
  BY ControllerAssumption DEF PaceInv, BudgetIsRespected, TypeInv, TypeOK, TurnTypes
<1> HIDE DEF Counted
<1> QED
  BY <1>1, <1>2, <1>3, PaceInvariant, PTL DEF Spec

-----------------------------------------------------------------------------
(* The length of a run. *)

\* A command and the event that tells of it, for each command of a proposal.
MostCommandSteps == MaxCommands + MaxCommands

\* At most how many steps there still are from place p to the end of the turn, or of
\* the run, if the proposal has some commands left.
StepsAt(p, left) ==
  CASE p \in Ended                                                -> 0
    [] p = "closing"                                              -> 1
    [] p \in {"cancelling", "record_stored"}                      -> 2
    [] p \in {"cancel", "record_manifest"}                        -> 3
    [] p \in {"loop", "store_manifest"}                           -> 4
    [] p \in {"accept", "reject", "refuse", "record_refusal", "record_baseline",
              "record_completion"}                                -> 5
    [] p \in {"declare", "reject_proposal", "evaluate_baseline"}  -> 6
    [] p \in {"set_completed", "begin_baseline"}                  -> 7
    [] p \in {"accept_completion", "validate_goal"}               -> 8
    [] p \in {"verify", "initializing"}                           -> 9
    [] p \in {"begin_verify", "create_baseline"}                  -> 10
    [] p \in {"record_decision", "start"}                         -> 11
    [] p = "selecting"                                            -> 12
    [] p = "evaluation_completed"                                 -> 13
    [] p = "record_evaluation"                                    -> 14
    [] p = "create_candidate"                                     -> 15
    [] p = "evaluate"                                             -> 16
    [] p = "begin_evaluation"                                     -> 17
    [] p = "record_checkpoint"                                    -> 18
    [] p = "checkpoint"                                           -> 19
    [] p \in {"begin_checkpoint", "execution_failed"}             -> 20
    [] p = "record_command"                                       -> 19 + left + left
    [] p = "run_command"                                          -> 20 + left + left
    [] p = "apply_edits"                                          -> 21 + MostCommandSteps
    [] p = "record_start"                                         -> 22 + MostCommandSteps
    [] p = "begin_execution"                                      -> 23 + MostCommandSteps
    [] p = "record_policy"                                        -> 24 + MostCommandSteps
    [] p = "policy_check"                                         -> 25 + MostCommandSteps
    [] p = "record_proposal"                                      -> 26 + MostCommandSteps
    [] p = "propose"                                              -> 27 + MostCommandSteps
    [] p = "context_ready"                                        -> 28 + MostCommandSteps
    [] p = "enter"                                                -> 29 + MostCommandSteps

StepsAhead == StepsAt(pc, proposal.commands)
StepsOfATurn == 26 + MostCommandSteps
TurnsLeft == MaxIterations + 1 - used
StepsLeft == TurnsLeft * StepsOfATurn + StepsAhead

LEMMA StepsAtType ==
  ASSUME NEW p \in ControlPoints, NEW left \in 0 .. MaxCommands,
         p \in {"run_command", "record_command"} => left > 0
  PROVE  /\ StepsAt(p, left) \in Nat
         /\ p \notin Ended => StepsAt(p, left) > 0
         /\ p \notin Ended \union {"closing"} => StepsAt(p, left) > 1
<1> USE ControllerAssumption DEF StepsAt, Ended, MostCommandSteps
<1>1. p \in Ended => StepsAt(p, left) = 0
  OBVIOUS
<1>2. p \in {"closing"} => StepsAt(p, left) = 1
  OBVIOUS
<1>3. p \in {"cancelling", "record_stored", "cancel", "record_manifest", "loop", "store_manifest",
             "accept", "reject", "refuse", "record_refusal", "record_baseline",
             "record_completion"} =>
        StepsAt(p, left) \in Nat \ {0, 1}
  OBVIOUS
<1>4. p \in {"declare", "reject_proposal", "evaluate_baseline", "set_completed",
             "begin_baseline", "accept_completion", "validate_goal", "verify", "initializing",
             "begin_verify", "create_baseline"} =>
        StepsAt(p, left) \in Nat \ {0, 1}
  OBVIOUS
<1>5. p \in {"record_decision", "start", "selecting", "evaluation_completed",
             "record_evaluation", "create_candidate", "evaluate", "begin_evaluation"} =>
        StepsAt(p, left) \in Nat \ {0, 1}
  OBVIOUS
<1>6. p \in {"record_checkpoint", "checkpoint", "begin_checkpoint", "execution_failed",
             "record_command", "run_command"} =>
        StepsAt(p, left) \in Nat \ {0, 1}
  OBVIOUS
<1>7. p \in {"apply_edits", "record_start", "begin_execution", "record_policy", "policy_check",
             "record_proposal", "propose", "context_ready", "enter"} =>
        StepsAt(p, left) \in Nat \ {0, 1}
  OBVIOUS
<1> HIDE DEF StepsAt
<1> QED
  BY <1>1, <1>2, <1>3, <1>4, <1>5, <1>6, <1>7 DEF ControlPoints, Requesting

\* One step of the run brings it nearer the end of its turn, or of itself; but for
\* the first step of a turn.
LEMMA AheadFalls ==
  ASSUME TypeInv, Next, vars' # vars
  PROVE  \/ pc = "loop" /\ used' = used + 1 /\ pc' \in {"cancel", "enter"}
         \/ used' = used /\ StepsAhead' < StepsAhead
<1>0. /\ proposal \in Proposal /\ proposal' \in Proposal
      /\ MaxCommands \in Nat
      /\ pc \in {"run_command", "record_command"} => proposal.commands > 0
  BY TypeInvStep, ControllerAssumption DEF TypeInv, TypeOK, TurnTypes, ControlInv
<1>1. ASSUME NEW p \in Proposal PROVE p.commands \in 0 .. MaxCommands
  BY <1>1 DEF Proposal
<1> USE <1>0, <1>1 DEF StepsAhead, StepsAt, MostCommandSteps, Goto, Raise, budget, runVars, Ended
<1>2. CASE \/ CreateRun \/ CreateBaseline \/ Initialize \/ ValidateGoal \/ BeginBaseline
           \/ EvaluateBaseline \/ RecordBaseline
  BY <1>2 DEF CreateRun, CreateBaseline, Initialize, ValidateGoal, BeginBaseline,
    EvaluateBaseline, RecordBaseline
<1>3. CASE \/ CheckBudget \/ EnterContext \/ ContextReady \/ Propose \/ RecordProposal
           \/ CheckPolicy \/ RecordPolicy \/ RejectProposal \/ RecordRefusal
  BY <1>3 DEF CheckBudget, EnterContext, ContextReady, Propose, RecordProposal,
    CheckPolicy, RecordPolicy, RejectProposal, RecordRefusal
<1>4. CASE BeginExecution \/ RecordStart \/ ApplyEdits \/ RollBack
  <2>1. CASE BeginExecution \/ RecordStart
    BY <2>1 DEF BeginExecution, RecordStart, turnVars
  <2>2. CASE ApplyEdits
    <3>1. pc' \in {"execution_failed", "run_command", "begin_checkpoint"} /\ pc = "apply_edits"
          /\ UNCHANGED <<used, proposal>>
      BY <2>2 DEF ApplyEdits, turnVars
    <3> QED
      BY <3>1
  <2>3. CASE RollBack
    BY <2>3 DEF RollBack, RestoreFails
  <2> QED
    BY <1>4, <2>1, <2>2, <2>3
<1>5. CASE RunCommand \/ RecordCommand
  <2>1. CASE RunCommand
    <3>1. /\ pc' \in {"execution_failed", "record_command"} /\ pc = "run_command"
          /\ UNCHANGED <<used, proposal>>
      BY <2>1 DEF RunCommand, turnVars
    <3> QED
      BY <3>1
  <2>2. CASE RecordCommand
    <3>1. /\ pc = "record_command" /\ UNCHANGED used
          /\ pc' \in {"execution_failed", "begin_checkpoint", "run_command"}
          /\ proposal' = [proposal EXCEPT !.commands = @ - 1]
      BY <2>2 DEF RecordCommand
    <3>2. proposal'.commands = proposal.commands - 1
      BY <3>1 DEF Proposal
    <3> QED
      BY <3>1, <3>2
  <2> QED
    BY <1>5, <2>1, <2>2
<1>6. CASE \/ BeginCheckpoint \/ Checkpoint \/ RecordCheckpoint \/ BeginEvaluation
           \/ Evaluate \/ CreateCandidate \/ RecordEvaluation \/ CompleteEvaluation
           \/ SelectTransition \/ RecordDecision
  BY <1>6 DEF BeginCheckpoint, Checkpoint, RecordCheckpoint, BeginEvaluation, Evaluate,
    CreateCandidate, RecordEvaluation, CompleteEvaluation, SelectTransition,
    RecordDecision
<1>7. CASE \/ Accept \/ Reject \/ BeginVerify \/ Verify \/ RefuseCompletion
           \/ AcceptCompletion \/ SetCompleted \/ DeclareCompletion \/ RecordCompletion
           \/ StoreManifest \/ RecordManifest \/ RecordStored
  BY <1>7 DEF Accept, Reject, BeginVerify, Verify, RefuseCompletion, RestoreFails,
    AcceptCompletion, SetCompleted, DeclareCompletion, RecordCompletion, StoreManifest,
    RecordManifest, RecordStored
<1>8. CASE Cancel \/ DeclareCancelled \/ Close
  BY <1>8 DEF Cancel, DeclareCancelled, Close
<1>9. CASE Fail \/ InvalidTransition \/ Crash
  <2>1. /\ pc \in ControlPoints /\ proposal.commands \in 0 .. MaxCommands
        /\ proposal' = proposal /\ used' = used
        /\ \/ pc \notin Ended \union {"closing"} /\ pc' \in {"closing", "raised"}
           \/ pc \notin Ended /\ pc' = "crashed"
    BY <1>9 DEF TypeInv, TypeOK, ControlTypes, Fail, InvalidTransition, Crash, turnVars, Requesting
  <2>2. /\ StepsAt("closing", proposal'.commands) = 1
        /\ StepsAt("crashed", proposal'.commands) = 0
        /\ StepsAt("raised", proposal'.commands) = 0
    OBVIOUS
  <2> HIDE DEF StepsAt
  <2> QED
    BY <2>1, <2>2, StepsAtType
<1> QED
  BY <1>2, <1>3, <1>4, <1>5, <1>6, <1>7, <1>8, <1>9 DEF Next, Step, Over

\* A product with what is added to it falls with a factor, whatever is added.
LEMMA LessIsLeft ==
  ASSUME NEW t \in Nat, NEW u \in Nat, NEW c \in Nat, NEW a \in Nat, NEW b \in Nat
  PROVE  /\ t * c + a \in Nat
         /\ t = u /\ b < a => u * c + b < t * c + a
         /\ t = u + 1 /\ b < a + c => u * c + b < t * c + a
<1>1. t * c \in Nat /\ u * c \in Nat /\ (u + 1) * c = u * c + c
  OBVIOUS
<1> QED
  BY <1>1

\* A run comes to an end, whatever the agent answers, the commands do and the
\* evaluations find: it has at most a fixed number of steps for each iteration of the
\* budget and one more turn, and every step, of the run or a crash, leaves fewer.  So
\* it can fail to return only by waiting (controller.py:384-386).
THEOREM RunsAreFinite ==
  Spec => /\ StepsLeft = (MaxIterations + 1) * StepsOfATurn + 11
          /\ [](StepsLeft \in Nat)
          /\ [][StepsLeft' < StepsLeft]_vars
<1> DEFINE Spent == used <= MaxIterations + 1
<1>0. Init => StepsLeft = (MaxIterations + 1) * StepsOfATurn + 11
  <2> SUFFICES ASSUME Init PROVE StepsLeft = (MaxIterations + 1) * StepsOfATurn + 11
    OBVIOUS
  <2>1. TurnsLeft = MaxIterations + 1 /\ StepsAhead = 11
    BY ControllerAssumption DEF Init, TurnsLeft, StepsAhead, StepsAt, Ended
  <2> QED
    BY <2>1 DEF StepsLeft
<1>1. Init => Spent
  BY ControllerAssumption DEF Init
<1>2. TypeInv /\ PaceInv /\ Spent /\ [Next]_vars => Spent'
  <2> SUFFICES ASSUME TypeInv, PaceInv, Spent, [Next]_vars PROVE Spent'
    OBVIOUS
  <2>1. CASE UNCHANGED vars
    BY <2>1 DEF vars, budget
  <2>2. CASE Next /\ vars' # vars
    <3>1. (pc = "loop" /\ used' = used + 1) \/ used' = used
      BY <2>2, AheadFalls
    <3> QED
      BY <3>1, ControllerAssumption DEF PaceInv, TypeInv, TypeOK, TurnTypes
  <2> QED
    BY <2>1, <2>2
<1>3. TypeInv /\ Spent => /\ TurnsLeft \in Nat /\ StepsOfATurn \in Nat /\ StepsAhead \in Nat
                          /\ StepsLeft \in Nat
  <2> SUFFICES ASSUME TypeInv, Spent
               PROVE  TurnsLeft \in Nat /\ StepsOfATurn \in Nat /\ StepsAhead \in Nat /\ StepsLeft \in Nat
    OBVIOUS
  <2>1. TurnsLeft \in Nat /\ StepsOfATurn \in Nat
    BY ControllerAssumption DEF TurnsLeft, StepsOfATurn, MostCommandSteps, TypeInv, TypeOK,
      TurnTypes
  <2>2. StepsAhead \in Nat
    BY StepsAtType DEF StepsAhead, TypeInv, TypeOK, ControlInv, ControlTypes, TurnTypes, Proposal
  <2> QED
    BY <2>1, <2>2, LessIsLeft DEF StepsLeft
<1>4. \A n \in Nat : n <= MaxIterations + 1 => MaxIterations + 1 - n \in Nat
  BY ControllerAssumption
<1>5. TypeInv /\ PaceInv /\ Spent /\ TypeInv' /\ Spent' /\ [Next]_vars => [StepsLeft' < StepsLeft]_vars
  <2> SUFFICES ASSUME TypeInv, PaceInv, Spent, TypeInv', Spent', Next, vars' # vars
               PROVE  StepsLeft' < StepsLeft
    OBVIOUS
  <2>1. TurnsLeft \in Nat /\ StepsOfATurn \in Nat /\ StepsAhead \in Nat
    BY <1>3
  <2>2. TurnsLeft' \in Nat /\ StepsOfATurn' = StepsOfATurn /\ StepsAhead' \in Nat
    <3>1. TurnsLeft' \in Nat
      <4>1. used' \in Nat /\ used' <= MaxIterations + 1
        BY DEF TypeInv, TypeOK, TurnTypes
      <4> QED
        BY <1>4, <4>1 DEF TurnsLeft
    <3>2. StepsAhead' \in Nat
      BY StepsAtType DEF StepsAhead, TypeInv, TypeOK, ControlInv, ControlTypes, TurnTypes, Proposal
    <3> QED
      BY <3>1, <3>2 DEF StepsOfATurn, MostCommandSteps
  <2>3. \/ TurnsLeft = TurnsLeft' /\ StepsAhead' < StepsAhead
        \/ TurnsLeft = TurnsLeft' + 1 /\ StepsAhead' < StepsAhead + StepsOfATurn
    <3>1. CASE used' = used /\ StepsAhead' < StepsAhead
      BY <3>1 DEF TurnsLeft
    <3>2. CASE pc = "loop" /\ used' = used + 1 /\ pc' \in {"cancel", "enter"}
      <4>1. StepsAhead = 4 /\ StepsAhead' < 4 + StepsOfATurn
        BY <3>2, ControllerAssumption DEF StepsAhead, StepsAt, StepsOfATurn, MostCommandSteps,
          Ended
      <4> QED
        BY <3>2, <4>1, ControllerAssumption DEF TurnsLeft, TypeInv, TypeOK, TurnTypes
    <3> QED
      BY <3>1, <3>2, AheadFalls
  <2>4. StepsLeft = TurnsLeft * StepsOfATurn + StepsAhead /\ StepsLeft' = TurnsLeft' * StepsOfATurn + StepsAhead'
    BY <2>2 DEF StepsLeft
  <2> HIDE DEF Spent
  <2> QED
    BY <2>1, <2>2, <2>3, <2>4, LessIsLeft
<1> HIDE DEF Spent
<1> QED
  BY <1>0, <1>1, <1>2, <1>3, <1>5, PaceInvariant, PTL DEF Spec

-----------------------------------------------------------------------------
(* The history in memory and the candidates table. *)

\* Where the table holds a candidate that the history does not hold yet.
Pending == Registered \ {"set_completed"}

\* The history and the rows it stands for are the same.
Agreed == \A i \in 1 .. Len(history) : history[i] = rows[i]

\* Only what is not in the history yet is still to be judged.
RestJudged == \A i \in 1 .. Len(rows) : rows[i].status = "ACTIVE" => i > Len(history)

\* The places where a call that failed may have left the two apart for good.
Stopped == {"closing"} \union Ended

MatchInv ==
  /\ HistoryMatchesStore
  /\ pc \in BeforeTry => rows = <<>> /\ history = <<>>
  /\ pc \in Baseline \ BeforeTry => Len(history) = 1 /\ rows[1].vec = NoVector
  /\ pc \in Pending => Len(rows) = Len(history) + 1
  /\ pc \notin Pending \union Stopped => Len(rows) = Len(history)
  /\ pc \notin {"record_baseline"} \union Stopped => Agreed
  /\ pc = "record_evaluation" => rows[Len(rows)] = NewCandidate
  /\ pc \in Pending \ {"record_evaluation"} => rows[Len(rows)] = Local("ACTIVE")

\* What the property says of two sequences that agree.
LEMMA AgreedMatches ==
  ASSUME rows \in Seq(Candidate), history \in Seq(Candidate), Agreed, RestJudged,
         Len(rows) \in {Len(history), Len(history) + 1}
  PROVE  HistoryMatchesStore
<1>1. DOMAIN rows = 1 .. Len(rows) /\ DOMAIN history = 1 .. Len(history)
      /\ Len(rows) \in Nat /\ Len(history) \in Nat
  BY LenProperties
<1>2. Len(rows) - Len(history) \in {0, 1}
  <2>1. \A m, n \in Nat : m \in {n, n + 1} => m - n \in {0, 1}
    OBVIOUS
  <2> QED
    BY <1>1, <2>1
<1>3. \A i \in DOMAIN history : history[i] = rows[i]
  BY <1>1 DEF Agreed
<1>4. \A i \in DOMAIN rows : rows[i].status = "ACTIVE" => i > Len(history)
  BY <1>1 DEF RestJudged
<1> QED
  BY <1>2, <1>3, <1>4 DEF HistoryMatchesStore

LEMMA AgreedMatchesAfter ==
  ASSUME rows' \in Seq(Candidate), history' \in Seq(Candidate), Agreed', RestJudged',
         Len(rows') \in {Len(history'), Len(history') + 1}
  PROVE  HistoryMatchesStore'
<1>1. DOMAIN rows' = 1 .. Len(rows') /\ DOMAIN history' = 1 .. Len(history')
      /\ Len(rows') \in Nat /\ Len(history') \in Nat
  BY LenProperties
<1>2. Len(rows') - Len(history') \in {0, 1}
  <2>1. \A m, n \in Nat : m \in {n, n + 1} => m - n \in {0, 1}
    OBVIOUS
  <2> QED
    BY <1>1, <2>1
<1>3. \A i \in DOMAIN history' : history'[i] = rows'[i]
  BY <1>1 DEF Agreed
<1>4. \A i \in DOMAIN rows' : rows'[i].status = "ACTIVE" => i > Len(history')
  BY <1>1 DEF RestJudged
<1> QED
  BY <1>2, <1>3, <1>4 DEF HistoryMatchesStore

LEMMA MatchTypes ==
  ASSUME TypeInv, TypeInv', MatchInv
  PROVE  /\ rows \in Seq(Candidate) /\ history \in Seq(Candidate)
         /\ rows' \in Seq(Candidate) /\ history' \in Seq(Candidate)
         /\ Len(rows) \in Nat /\ Len(history) \in Nat
         /\ DOMAIN rows = 1 .. Len(rows) /\ DOMAIN history = 1 .. Len(history)
         /\ RestJudged
BY LenProperties DEF TypeInv, TypeOK, StoreTypes, MatchInv, HistoryMatchesStore, RestJudged

\* A verdict is written to the table and, but for a restore that fails, to the
\* history.
LEMMA VerdictKeepsMatch ==
  ASSUME TypeInv, TypeInv', MatchInv, pc \in Pending \ {"record_evaluation"},
         NEW s \in CandidateStatus \ {"ACTIVE"}, SetCandidateStatus(s),
         \/ history' = Append(history, Local(s)) /\ pc' \in {"loop", "set_completed", "closing"}
         \/ history' = history /\ pc' = "closing"
  PROVE  MatchInv'
<1>1. /\ rows \in Seq(Candidate) /\ history \in Seq(Candidate)
      /\ rows' \in Seq(Candidate) /\ history' \in Seq(Candidate)
      /\ Len(rows) \in Nat /\ Len(history) \in Nat /\ Agreed /\ RestJudged
  BY MatchTypes DEF MatchInv, Pending, Registered, Stopped, Ended
<1>2. Len(rows) = Len(history) + 1 /\ Len(rows) \in 1 .. Len(rows)
  BY <1>1 DEF MatchInv
<1>3. rows[Len(rows)] = Local("ACTIVE") /\ rows[Len(rows)] \in Candidate
  BY <1>1, <1>2, ElementOfSeq DEF MatchInv
<1>4. /\ [rows[Len(rows)] EXCEPT !.status = s] = Local(s)
      /\ Local(s) \in Candidate /\ Local(s).status = s
  BY <1>3 DEF Local, Candidate
<1>5. /\ Len(rows') = Len(rows)
      /\ \A j \in 1 .. Len(rows) : rows'[j] = IF j = Len(rows) THEN Local(s) ELSE rows[j]
  BY <1>1, <1>2, <1>4, StatusUpdate DEF SetCandidateStatus
<1>6. CASE history' = Append(history, Local(s)) /\ pc' \in {"loop", "set_completed", "closing"}
  <2>1. /\ Len(history') = Len(history) + 1
        /\ history'[Len(history) + 1] = Local(s)
        /\ \A i \in 1 .. Len(history) : history'[i] = history[i]
    BY <1>1, <1>4, <1>6, AppendProperties
  <2>2. Agreed' /\ RestJudged' /\ Len(rows') = Len(history')
    <3>1. Len(rows') = Len(history') /\ Len(history') = Len(rows)
      BY <1>2, <1>5, <2>1
    <3>2. ASSUME NEW i \in 1 .. Len(rows)
          PROVE  history'[i] = rows'[i] /\ rows'[i].status # "ACTIVE"
      <4>1. CASE i = Len(rows)
        BY <1>2, <1>4, <1>5, <2>1, <4>1
      <4>2. CASE i \in 1 .. Len(history)
        BY <1>1, <1>2, <1>5, <2>1, <4>2 DEF Agreed, RestJudged
      <4> QED
        BY <1>1, <1>2, <4>1, <4>2
    <3> QED
      BY <3>1, <3>2 DEF Agreed, RestJudged
  <2>3. HistoryMatchesStore'
    BY <1>1, <2>2, AgreedMatchesAfter
  <2> QED
    BY <1>6, <2>2, <2>3 DEF MatchInv, Pending, Registered, BeforeTry, Baseline
<1>7. CASE history' = history /\ pc' = "closing"
  <2>1. Agreed' /\ RestJudged' /\ Len(rows') = Len(history') + 1
    BY <1>1, <1>2, <1>4, <1>5, <1>7 DEF Agreed, RestJudged
  <2>2. HistoryMatchesStore'
    BY <1>1, <2>1, AgreedMatchesAfter
  <2> QED
    BY <1>7, <2>2 DEF MatchInv, Pending, Registered, BeforeTry, Baseline, Stopped
<1> QED
  BY <1>6, <1>7

\* The vector of the baseline is in the history first, and then in its row.
LEMMA BaselineKeepsMatch ==
  ASSUME TypeInv, TypeInv', PaceInv, MatchInv, EvaluateBaseline \/ RecordBaseline
  PROVE  MatchInv'
<1>1. /\ rows \in Seq(Candidate) /\ history \in Seq(Candidate)
      /\ rows' \in Seq(Candidate) /\ history' \in Seq(Candidate)
      /\ DOMAIN history = 1 .. Len(history) /\ RestJudged
  BY MatchTypes
<1>2. Len(rows) = 1 /\ Len(history) = 1 /\ 1 \in 1 .. 1
  BY DEF EvaluateBaseline, RecordBaseline, MatchInv, Pending, Registered, Stopped, Ended,
    Baseline, BeforeTry
<1>3. rows[1] \in Candidate /\ history[1] \in Candidate
  BY <1>1, <1>2, ElementOfSeq
<1>4. CASE EvaluateBaseline
  <2>1. PICK v \in Vectors : history' = [history EXCEPT ![1].vec = v]
    BY <1>4 DEF EvaluateBaseline
  <2>2. /\ Len(history') = 1 /\ history'[1] = [history[1] EXCEPT !.vec = v] /\ rows' = rows
        /\ iteration' = 0 /\ pc' = "record_baseline"
    BY <1>1, <1>2, <1>4, <2>1, VectorUpdate DEF EvaluateBaseline, PaceInv, Baseline, Goto, db
  <2>3. rows[1] = history[1] /\ rows[1].vec = NoVector
    <3>1. Agreed /\ rows[1].vec = NoVector
      BY <1>4 DEF EvaluateBaseline, MatchInv, Stopped, Ended, Baseline, BeforeTry
    <3> QED
      BY <1>2, <3>1 DEF Agreed
  <2>4. rows'[1] = [history'[1] EXCEPT !.vec = NoVector]
    BY <1>3, <2>2, <2>3 DEF Candidate
  <2>5. rows'[1].status # "ACTIVE"
    BY <1>1, <1>2, <2>2 DEF RestJudged
  <2>6. HistoryMatchesStore'
    <3>1. DOMAIN history' = 1 .. 1 /\ DOMAIN rows' = 1 .. 1
      BY <1>1, <1>2, <2>2, LenProperties
    <3>2. Len(rows') - Len(history') \in {0, 1}
      BY <1>2, <2>2
    <3>3. \A i \in 1 .. 1 : i = 1
      OBVIOUS
    <3> QED
      BY <2>2, <2>4, <2>5, <3>1, <3>2, <3>3 DEF HistoryMatchesStore
  <2>7. rows'[1].vec = NoVector
    BY <2>2, <2>3
  <2> QED
    BY <1>2, <2>2, <2>6, <2>7 DEF MatchInv, Pending, Registered, BeforeTry, Baseline, Stopped, Ended
<1>5. CASE RecordBaseline
  <2>1. history[1] = rows[1] \/ rows[1] = [history[1] EXCEPT !.vec = NoVector]
    BY <1>1, <1>2 DEF MatchInv, HistoryMatchesStore
  <2>2. history[1].vec \in Vectors \union {NoVector}
    BY <1>3 DEF Candidate
  <2>3. Len(rows') = 1 /\ rows'[1] = [rows[1] EXCEPT !.vec = history[1].vec] /\ history' = history
    BY <1>1, <1>2, <1>5, <2>2, VectorUpdate DEF RecordBaseline
  <2>4. rows'[1] = history[1] /\ rows'[1].status = rows[1].status
    BY <1>3, <2>1, <2>3 DEF Candidate
  <2>5. Agreed' /\ RestJudged'
    <3>1. \A i \in 1 .. 1 : i = 1
      OBVIOUS
    <3>2. rows[1].status # "ACTIVE"
      BY <1>1, <1>2 DEF RestJudged
    <3> QED
      BY <1>2, <2>3, <2>4, <3>1, <3>2 DEF Agreed, RestJudged
  <2>6. HistoryMatchesStore'
    BY <1>1, <1>2, <2>3, <2>5, AgreedMatchesAfter
  <2> QED
    BY <1>2, <1>5, <2>3, <2>5, <2>6 DEF RecordBaseline, Goto, MatchInv, Pending, Registered,
      BeforeTry, Baseline, Stopped, Ended
<1> QED
  BY <1>4, <1>5

\* A candidate is registered as ACTIVE and gets its vector before its verdict.
LEMMA RegisterKeepsMatch ==
  ASSUME TypeInv, TypeInv', MatchInv, CreateCandidate \/ RecordEvaluation
  PROVE  MatchInv'
<1>1. /\ rows \in Seq(Candidate) /\ history \in Seq(Candidate)
      /\ rows' \in Seq(Candidate) /\ history' = history /\ history' \in Seq(Candidate)
      /\ UNCHANGED <<iteration, candidate, vector>>
      /\ Len(rows) \in Nat /\ Len(history) \in Nat /\ Agreed /\ RestJudged
  BY MatchTypes DEF CreateCandidate, RecordEvaluation, runVars, turnVars, MatchInv, Stopped, Ended
<1>2. NewCandidate' = NewCandidate /\ Local("ACTIVE")' = Local("ACTIVE")
  BY <1>1 DEF NewCandidate, Local
<1>3. CASE CreateCandidate
  <2>1. Len(rows) = Len(history)
    BY <1>3 DEF CreateCandidate, MatchInv, Pending, Registered, Stopped, Ended
  <2>2. NewCandidate \in Candidate /\ pc' = "record_evaluation"
    BY <1>3, LocalType DEF CreateCandidate, Goto, CandidateStatus, BeforeTry
  <2>3. /\ Len(rows') = Len(rows) + 1 /\ rows'[Len(rows) + 1] = NewCandidate
        /\ \A i \in 1 .. Len(rows) : rows'[i] = rows[i]
    BY <1>1, <1>3, <2>2, AppendProperties DEF CreateCandidate
  <2>4. Agreed' /\ RestJudged'
    BY <1>1, <2>1, <2>3 DEF Agreed, RestJudged
  <2>5. HistoryMatchesStore'
    BY <1>1, <2>1, <2>3, <2>4, AgreedMatchesAfter
  <2> QED
    BY <1>1, <1>2, <2>1, <2>2, <2>3, <2>4, <2>5 DEF MatchInv, Pending, Registered, BeforeTry,
      Baseline, Stopped, Ended
<1>4. CASE RecordEvaluation
  <2>1. Len(rows) = Len(history) + 1 /\ Len(rows) \in 1 .. Len(rows)
        /\ rows[Len(rows)] = NewCandidate
    BY <1>1, <1>4 DEF RecordEvaluation, MatchInv, Pending, Registered
  <2>2. vector \in Vectors \union {NoVector} /\ pc' = "evaluation_completed"
    BY <1>4 DEF TypeInv, TypeOK, TurnTypes, RecordEvaluation, Goto
  <2>3. [NewCandidate EXCEPT !.vec = vector] = Local("ACTIVE")
    <3>1. Local("ACTIVE") \in Candidate /\ Local("ACTIVE").vec = vector
      BY <1>4, LocalType DEF RecordEvaluation, Local, CandidateStatus, BeforeTry
    <3> QED
      BY <3>1 DEF NewCandidate, Candidate
  <2>4. /\ Len(rows') = Len(rows)
        /\ \A j \in 1 .. Len(rows) :
             rows'[j] = IF j = Len(rows) THEN Local("ACTIVE") ELSE rows[j]
    BY <1>1, <1>4, <2>1, <2>2, <2>3, VectorUpdate DEF RecordEvaluation
  <2>5. Agreed' /\ RestJudged'
    BY <1>1, <2>1, <2>4 DEF Agreed, RestJudged
  <2>6. HistoryMatchesStore'
    BY <1>1, <2>1, <2>4, <2>5, AgreedMatchesAfter
  <2> QED
    BY <1>1, <1>2, <2>1, <2>2, <2>4, <2>5, <2>6 DEF MatchInv, Pending, Registered, BeforeTry,
      Baseline, Stopped, Ended
<1> QED
  BY <1>3, <1>4

\* Where the steps that neither register nor judge lead.
LEMMA OtherPlaces ==
  ASSUME TypeInv, [Next]_vars, ~Judging
  PROVE  \/ pc' = pc /\ UNCHANGED vars
         \/ pc' \in Stopped /\ UNCHANGED <<iteration, candidate, vector>>
         \/ /\ pc \in Pending \ {"record_evaluation"} /\ pc' \in Pending \ {"record_evaluation"}
            /\ UNCHANGED <<iteration, candidate, vector>>
         \/ /\ pc \in Baseline \ {"record_baseline", "create_baseline"}
            /\ pc' \in Baseline \ {"start", "record_baseline"}
            /\ (pc' = "create_baseline" <=> pc = "start")
         \/ /\ pc \in ControlPoints \ (Pending \union Baseline \union Stopped)
            /\ pc' \in ControlPoints \ (Pending \union Baseline \union Stopped)
<1> USE DEF Goto, Raise, Pending, Registered, Baseline, Stopped, Ended, ControlPoints, Requesting
<1>1. CASE \/ CreateRun \/ Initialize \/ ValidateGoal \/ BeginBaseline \/ CheckBudget
           \/ EnterContext \/ ContextReady \/ Propose \/ RecordProposal \/ CheckPolicy
           \/ RecordPolicy \/ RejectProposal \/ RecordRefusal
  BY <1>1 DEF CreateRun, Initialize, ValidateGoal, BeginBaseline, CheckBudget, EnterContext,
    ContextReady, Propose, RecordProposal, CheckPolicy, RecordPolicy, RejectProposal,
    RecordRefusal, runVars, turnVars
<1>2. CASE \/ BeginExecution \/ RecordStart \/ ApplyEdits \/ RunCommand \/ RecordCommand
           \/ RollBack \/ BeginCheckpoint \/ Checkpoint \/ RecordCheckpoint
           \/ BeginEvaluation \/ Evaluate
  <2>1. CASE RollBack
    BY <2>1 DEF RollBack, RestoreFails, turnVars
  <2> QED
    BY <1>2, <2>1 DEF BeginExecution, RecordStart, ApplyEdits, RunCommand, RecordCommand,
      BeginCheckpoint, Checkpoint, RecordCheckpoint, BeginEvaluation, Evaluate
<1>3. CASE \/ CompleteEvaluation \/ SelectTransition \/ RecordDecision \/ BeginVerify \/ Verify
  BY <1>3 DEF CompleteEvaluation, SelectTransition, RecordDecision, BeginVerify, Verify,
    runVars, turnVars
<1>4. CASE \/ SetCompleted \/ DeclareCompletion \/ RecordCompletion \/ StoreManifest
           \/ RecordManifest \/ RecordStored \/ Cancel \/ DeclareCancelled
           \/ InvalidTransition \/ Close
  BY <1>4 DEF SetCompleted, DeclareCompletion, RecordCompletion, StoreManifest,
    RecordManifest, RecordStored, Cancel, DeclareCancelled, InvalidTransition, Close,
    runVars, turnVars
<1>5. CASE Fail \/ Crash \/ Over \/ UNCHANGED vars
  BY <1>5 DEF Fail, Crash, Over, vars, runVars, turnVars
<1> QED
  BY <1>1, <1>2, <1>3, <1>4, <1>5 DEF Next, Step, Judging

LEMMA MatchStep ==
  ASSUME TypeInv, TypeInv', PaceInv, MatchInv, [Next]_vars
  PROVE  MatchInv'
<1>1. CASE Accept \/ Reject \/ RefuseCompletion \/ AcceptCompletion
  <2>1. pc \in Pending \ {"record_evaluation"}
    BY <1>1 DEF Accept, Reject, RefuseCompletion, AcceptCompletion, Pending, Registered
  <2>2. \E s \in CandidateStatus \ {"ACTIVE"} :
          /\ SetCandidateStatus(s)
          /\ \/ history' = Append(history, Local(s)) /\ pc' \in {"loop", "set_completed", "closing"}
             \/ history' = history /\ pc' = "closing"
    BY <1>1 DEF Accept, Reject, RefuseCompletion, AcceptCompletion, CandidateStatus,
      RestoreFails, Judge, Goto
  <2> QED
    BY <2>1, <2>2, VerdictKeepsMatch
<1>2. CASE CreateBaseline
  <2>1. PICK b : rows' = <<b>> /\ history' = <<b>> /\ b.status = "ACCEPTED"
    BY <1>2 DEF CreateBaseline
  <2>2. /\ Agreed' /\ RestJudged' /\ Len(rows') = 1 /\ Len(history') = 1
        /\ rows'[1].vec = NoVector
    BY <1>2, <2>1 DEF CreateBaseline, Agreed, RestJudged
  <2>3. HistoryMatchesStore'
    BY <2>2, MatchTypes, AgreedMatchesAfter
  <2> QED
    BY <1>2, <2>2, <2>3 DEF CreateBaseline, MatchInv, Pending, Registered, Stopped, Ended,
      BeforeTry, Goto
<1>3. CASE EvaluateBaseline \/ RecordBaseline \/ CreateCandidate \/ RecordEvaluation
  BY <1>3, BaselineKeepsMatch, RegisterKeepsMatch
<1>4. CASE ~Judging
  <2>1. UNCHANGED <<rows, history>> /\ (Agreed' <=> Agreed)
    BY <1>4, StoreStep DEF Agreed
  <2>2. CASE UNCHANGED vars
    <3>1. UNCHANGED <<pc, rows, history, iteration, candidate, vector>>
      BY <2>2 DEF vars, db, runVars, turnVars
    <3> QED
      BY <3>1 DEF MatchInv, HistoryMatchesStore, Agreed, NewCandidate, Local
  <2>3. CASE pc' \in Stopped /\ UNCHANGED <<iteration, candidate, vector>>
    BY <2>1, <2>3 DEF MatchInv, HistoryMatchesStore, Pending, Registered, Baseline, BeforeTry,
      Stopped, Ended
  <2>4. CASE /\ pc \in Pending \ {"record_evaluation"} /\ pc' \in Pending \ {"record_evaluation"}
             /\ UNCHANGED <<iteration, candidate, vector>>
    <3>1. Local("ACTIVE")' = Local("ACTIVE")
      BY <2>1, <2>4 DEF Local
    <3> QED
      BY <2>1, <2>4, <3>1 DEF MatchInv, HistoryMatchesStore, Pending, Registered, Baseline,
        BeforeTry, Stopped, Ended
  <2>5. ASSUME pc \notin {"record_baseline"} \union Pending \union Stopped,
               pc' \notin Pending \union Stopped
        PROVE  HistoryMatchesStore' /\ Agreed' /\ Len(rows') = Len(history')
    <3>1. Agreed /\ Len(rows) = Len(history) /\ RestJudged
      BY <2>5, MatchTypes DEF MatchInv
    <3>2. Agreed' /\ RestJudged' /\ Len(rows') = Len(history')
      BY <2>1, <3>1 DEF RestJudged
    <3> QED
      BY <3>2, MatchTypes, AgreedMatchesAfter
  <2>6. CASE /\ pc \in Baseline \ {"record_baseline", "create_baseline"}
             /\ pc' \in Baseline \ {"start", "record_baseline"}
             /\ (pc' = "create_baseline" <=> pc = "start")
    <3>1. pc \notin Pending \union Stopped /\ pc' \notin Pending \union Stopped
      BY <2>6 DEF Baseline, Pending, Registered, Stopped, Ended
    <3> QED
      BY <2>1, <2>5, <2>6, <3>1 DEF MatchInv, Baseline, BeforeTry
  <2>7. CASE /\ pc \in ControlPoints \ (Pending \union Baseline \union Stopped)
             /\ pc' \in ControlPoints \ (Pending \union Baseline \union Stopped)
    <3>1. pc # "record_baseline" /\ pc' \notin BeforeTry /\ pc' # "record_evaluation"
      BY <2>7 DEF Baseline, BeforeTry, Pending, Registered
    <3> QED
      BY <2>1, <2>5, <2>7, <3>1 DEF MatchInv
  <2> QED
    BY <1>4, <2>2, <2>3, <2>4, <2>6, <2>7, OtherPlaces
<1> QED
  BY <1>1, <1>2, <1>3, <1>4 DEF Judging

\* The history that decisions are made from, which run keeps itself, and the
\* candidates table, which is written call by call, hold the same candidates with
\* the same verdicts and vectors, but for the vector of a baseline whose row has
\* not got it yet, whichever call fails in between (controller.py:341-380, 518-680).
THEOREM HistoriesMatch == Spec => []HistoryMatchesStore
<1>1. Init => MatchInv
  BY EmptySeq DEF Init, MatchInv, HistoryMatchesStore, Agreed, Pending, Registered, Stopped, Ended,
    Baseline, BeforeTry
<1>2. TypeInv /\ TypeInv' /\ PaceInv /\ MatchInv /\ [Next]_vars => MatchInv'
  BY MatchStep
<1>3. MatchInv => HistoryMatchesStore
  BY DEF MatchInv
<1> QED
  BY <1>1, <1>2, <1>3, PaceInvariant, PTL DEF Spec

-----------------------------------------------------------------------------
(* The promise of a run: Controller implements RunLedger. *)

PassedRow(r) == r.vec # NoVector /\ IsAcceptable(r.vec)

Verdicts == {rows[i].commit : i \in {n \in DOMAIN rows : rows[n].vec # NoVector /\ IsAcceptable(rows[n].vec)}}

Created == {"create_baseline", "initializing", "validate_goal"}

\* Where the status is neither terminal nor that of a run not validated yet.
Active == ControlPoints \ (Created \union Declared \union Ended
                            \union {"start", "declare", "cancelling", "closing"})

LedgerInv ==
  /\ pc = "start" => status = "none"
  /\ pc \in Created => status = "CREATED"
  /\ pc \in Active => status = "ACTIVE"
  /\ pc = "record_evaluation" => rows[Len(rows)].vec = NoVector
  /\ pc \in Registered \union {"create_candidate"} => vector # NoVector

\* The commits an evaluation accepted, row by row.
LEMMA VerdictsByRow ==
  ASSUME NEW c
  PROVE  c \in Verdicts <=> \E i \in DOMAIN rows : PassedRow(rows[i]) /\ rows[i].commit = c
BY DEF Verdicts, PassedRow

LEMMA VerdictsByRowAfter ==
  ASSUME NEW c
  PROVE  c \in Verdicts' <=> \E i \in DOMAIN rows' : PassedRow(rows'[i]) /\ rows'[i].commit = c
BY DEF Verdicts, PassedRow

\* A row that changes and keeps its commit adds that commit to the accepted ones
\* if it was scored, and else nothing.
LEMMA OneRowChanges ==
  ASSUME rows \in Seq(Candidate), rows' \in Seq(Candidate), Len(rows') = Len(rows),
         NEW n \in 1 .. Len(rows), rows'[n].commit = rows[n].commit,
         \A j \in 1 .. Len(rows) : j # n => rows'[j] = rows[j],
         PassedRow(rows[n]) => PassedRow(rows'[n])
  PROVE  IF PassedRow(rows'[n])
         THEN Verdicts' = Verdicts \union {rows[n].commit}
         ELSE Verdicts' = Verdicts
<1>1. DOMAIN rows = 1 .. Len(rows) /\ DOMAIN rows' = 1 .. Len(rows)
  BY LenProperties
<1>2. ASSUME NEW c, c \in Verdicts' PROVE c \in Verdicts \/ (PassedRow(rows'[n]) /\ c = rows[n].commit)
  <2>1. PICK i \in 1 .. Len(rows) : PassedRow(rows'[i]) /\ rows'[i].commit = c
    BY <1>1, <1>2, VerdictsByRowAfter
  <2>2. CASE i = n
    BY <2>1, <2>2
  <2>3. CASE i # n
    BY <1>1, <2>1, <2>3, VerdictsByRow
  <2> QED
    BY <2>2, <2>3
<1>3. ASSUME NEW c, c \in Verdicts PROVE c \in Verdicts'
  <2>1. PICK i \in 1 .. Len(rows) : PassedRow(rows[i]) /\ rows[i].commit = c
    BY <1>1, <1>3, VerdictsByRow
  <2>2. PassedRow(rows'[i]) /\ rows'[i].commit = c
    BY <2>1
  <2> QED
    BY <1>1, <2>2, VerdictsByRowAfter
<1>4. CASE PassedRow(rows'[n])
  <2>1. rows[n].commit \in Verdicts'
    BY <1>1, <1>4, VerdictsByRowAfter
  <2>2. Verdicts' = Verdicts \union {rows[n].commit}
    BY <1>2, <1>3, <2>1
  <2> QED
    BY <1>4, <2>2
<1>5. CASE ~PassedRow(rows'[n])
  <2>1. Verdicts' = Verdicts
    BY <1>2, <1>3, <1>5
  <2> QED
    BY <1>5, <2>1
<1> QED
  BY <1>4, <1>5

\* Only an evaluation that is recorded accepts a commit.
LEMMA VerdictStep ==
  ASSUME TypeInv, TypeInv', MatchInv, LedgerInv, [Next]_vars
  PROVE  \/ Verdicts' = Verdicts
         \/ /\ RecordBaseline \/ RecordEvaluation
            /\ \E c \in Verdicts' : Verdicts' = Verdicts \union {c}
<1>1. rows \in Seq(Candidate) /\ rows' \in Seq(Candidate) /\ Len(rows) \in Nat
  BY LenProperties DEF TypeInv, TypeOK, StoreTypes
<1>2. CASE UNCHANGED rows
  BY <1>2 DEF Verdicts
<1>3. CASE RecordBaseline
  <2>0. Len(history) = 1 /\ Len(rows) = 1
    BY <1>3 DEF RecordBaseline, MatchInv, Baseline, BeforeTry, Pending, Registered, Stopped, Ended
  <2>1. PICK v \in Vectors \union {NoVector} : rows' = [rows EXCEPT ![1].vec = v]
    <3>1. history \in Seq(Candidate) /\ 1 \in 1 .. Len(history)
      BY <2>0 DEF TypeInv, TypeOK, StoreTypes
    <3>2. history[1] \in Candidate
      BY <3>1, ElementOfSeq
    <3> QED
      BY <1>3, <3>2 DEF RecordBaseline, Candidate
  <2>2. 1 \in 1 .. Len(rows) /\ rows[1] \in Candidate /\ rows[1].vec = NoVector
    BY <1>1, <1>3, <2>0, ElementOfSeq DEF RecordBaseline, MatchInv, Baseline, BeforeTry
  <2>3. /\ Len(rows') = Len(rows)
        /\ \A j \in 1 .. Len(rows) :
             rows'[j] = IF j = 1 THEN [rows[1] EXCEPT !.vec = v] ELSE rows[j]
    BY <1>1, <2>1, <2>2, VectorUpdate
  <2>4. rows'[1].commit = rows[1].commit /\ ~PassedRow(rows[1])
    BY <2>2, <2>3 DEF Candidate, PassedRow
  <2>5. IF PassedRow(rows'[1])
        THEN Verdicts' = Verdicts \union {rows[1].commit}
        ELSE Verdicts' = Verdicts
    BY <1>1, <2>2, <2>3, <2>4, OneRowChanges
  <2> QED
    BY <1>3, <2>5
<1>4. CASE RecordEvaluation
  <2>1. Len(rows) \in 1 .. Len(rows) /\ vector \in Vectors \union {NoVector}
    BY <1>1, <1>4, EmptySeq DEF RecordEvaluation, TypeInv, ControlInv, BeforeTry, TypeOK, TurnTypes
  <2>2. rows[Len(rows)] \in Candidate /\ rows[Len(rows)].vec = NoVector
    BY <1>1, <1>4, <2>1, ElementOfSeq DEF RecordEvaluation, LedgerInv
  <2>3. /\ Len(rows') = Len(rows)
        /\ \A j \in 1 .. Len(rows) :
             rows'[j] = IF j = Len(rows) THEN [rows[Len(rows)] EXCEPT !.vec = vector] ELSE rows[j]
    BY <1>1, <1>4, <2>1, VectorUpdate DEF RecordEvaluation
  <2>4. rows'[Len(rows)].commit = rows[Len(rows)].commit /\ ~PassedRow(rows[Len(rows)])
    BY <2>1, <2>2, <2>3 DEF Candidate, PassedRow
  <2>5. IF PassedRow(rows'[Len(rows)])
        THEN Verdicts' = Verdicts \union {rows[Len(rows)].commit}
        ELSE Verdicts' = Verdicts
    BY <1>1, <2>1, <2>3, <2>4, OneRowChanges
  <2> QED
    BY <1>4, <2>5
<1>5. CASE Accept \/ Reject \/ RefuseCompletion \/ AcceptCompletion
  <2>1. PICK s \in CandidateStatus : rows' = [rows EXCEPT ![Len(rows)].status = s]
    BY <1>5 DEF Accept, Reject, RefuseCompletion, AcceptCompletion, SetCandidateStatus,
      CandidateStatus
  <2>2. Len(rows) \in 1 .. Len(rows) /\ rows[Len(rows)] \in Candidate
    BY <1>1, <1>5, EmptySeq, ElementOfSeq DEF Accept, Reject, RefuseCompletion,
      AcceptCompletion, TypeInv, ControlInv, BeforeTry
  <2>3. /\ Len(rows') = Len(rows)
        /\ \A j \in 1 .. Len(rows) :
             rows'[j] = IF j = Len(rows) THEN [rows[Len(rows)] EXCEPT !.status = s] ELSE rows[j]
    BY <1>1, <2>1, <2>2, StatusUpdate
  <2>4. /\ rows'[Len(rows)].commit = rows[Len(rows)].commit
        /\ rows'[Len(rows)].vec = rows[Len(rows)].vec
    BY <2>2, <2>3 DEF Candidate
  <2>5. /\ DOMAIN rows = 1 .. Len(rows) /\ DOMAIN rows' = 1 .. Len(rows)
        /\ \A j \in 1 .. Len(rows) : /\ rows'[j].commit = rows[j].commit
                                      /\ rows'[j].vec = rows[j].vec
    BY <1>1, <2>3, <2>4, LenProperties
  <2>6. ASSUME NEW c PROVE c \in Verdicts' <=> c \in Verdicts
    <3>1. ASSUME NEW i \in 1 .. Len(rows)
          PROVE  PassedRow(rows'[i]) /\ rows'[i].commit = c <=> PassedRow(rows[i]) /\ rows[i].commit = c
      BY <2>5 DEF PassedRow
    <3> QED
      BY <2>5, <3>1, VerdictsByRow, VerdictsByRowAfter
  <2>7. Verdicts' = Verdicts
    BY <2>6
  <2> QED
    BY <2>7
<1>6. CASE CreateCandidate
  <2>1. NewCandidate \in Candidate /\ ~PassedRow(NewCandidate)
    BY <1>6, LocalType DEF CreateCandidate, NewCandidate, Local, PassedRow, CandidateStatus,
      BeforeTry
  <2>2. /\ Len(rows') = Len(rows) + 1 /\ rows'[Len(rows) + 1] = NewCandidate
        /\ \A j \in 1 .. Len(rows) : rows'[j] = rows[j]
    BY <1>1, <1>6, <2>1, AppendProperties DEF CreateCandidate
  <2>3. DOMAIN rows = 1 .. Len(rows) /\ DOMAIN rows' = 1 .. Len(rows) + 1
    BY <1>1, <2>2, LenProperties
  <2>4. ASSUME NEW c PROVE c \in Verdicts' <=> c \in Verdicts
    <3>1. ASSUME NEW i \in 1 .. Len(rows) + 1, PassedRow(rows'[i])
          PROVE  i \in 1 .. Len(rows) /\ rows'[i] = rows[i]
      BY <1>1, <2>1, <2>2, <3>1
    <3>2. ASSUME NEW i \in 1 .. Len(rows)
          PROVE  i \in 1 .. Len(rows) + 1 /\ rows'[i] = rows[i]
      BY <1>1, <2>2
    <3> QED
      BY <2>3, <3>1, <3>2, VerdictsByRow, VerdictsByRowAfter
  <2>5. Verdicts' = Verdicts
    BY <2>4
  <2> QED
    BY <2>5
<1>8. CASE EvaluateBaseline
  BY <1>2, <1>8 DEF EvaluateBaseline, db
<1>7. CASE CreateBaseline
  <2>1. Verdicts = {}
    BY <1>7 DEF CreateBaseline, MatchInv, Verdicts, BeforeTry
  <2>2. PICK b : rows' = <<b>> /\ b.vec = NoVector
    BY <1>7 DEF CreateBaseline
  <2>3. Verdicts' = {}
    BY <2>2, VerdictsByRowAfter DEF PassedRow
  <2> QED
    BY <2>1, <2>3
<1> QED
  BY <1>2, <1>3, <1>4, <1>5, <1>6, <1>7, <1>8, StoreStep DEF Judging

\* Status and place agree, and a row is scored once.
LEMMA LedgerStep ==
  ASSUME TypeInv, TypeInv', MatchInv, LedgerInv, [Next]_vars
  PROVE  LedgerInv'
<1> USE DEF LedgerInv, Active, Created, Declared, Registered, Baseline, BeforeTry, Ended,
      ControlPoints, Requesting
<1>1. CASE CreateBaseline
  <2>1. rows'[1].vec = NoVector
    BY <1>1 DEF CreateBaseline
  <2> QED
    BY <1>1, <2>1 DEF CreateBaseline, Goto, turnVars
<1>2. CASE CreateCandidate
  <2>1. rows'[Len(rows')] = NewCandidate
    BY <1>2, LocalType, AppendProperties DEF CreateCandidate, TypeInv, TypeOK, StoreTypes,
      CandidateStatus
  <2> QED
    BY <1>2, <2>1 DEF CreateCandidate, Goto, NewCandidate, Local, turnVars, runVars
<1>3. CASE Evaluate
  BY <1>3, NoVectorAssumption, ControllerAssumption DEF Evaluate, Goto, Raise, db, runVars,
    turnVars
<1>4. CASE \/ CreateRun \/ Initialize \/ ValidateGoal \/ BeginBaseline \/ EvaluateBaseline
           \/ RecordBaseline \/ CheckBudget \/ EnterContext \/ ContextReady \/ Propose
           \/ RecordProposal \/ CheckPolicy \/ RecordPolicy \/ RejectProposal
           \/ RecordRefusal \/ BeginExecution \/ RecordStart \/ ApplyEdits \/ RunCommand
           \/ RecordCommand \/ RollBack \/ BeginCheckpoint \/ Checkpoint
           \/ RecordCheckpoint \/ BeginEvaluation
  BY <1>4 DEF CreateRun, Initialize, ValidateGoal, BeginBaseline, EvaluateBaseline,
    RecordBaseline, CheckBudget, EnterContext, ContextReady, Propose, RecordProposal,
    CheckPolicy, RecordPolicy, RejectProposal, RecordRefusal, BeginExecution, RecordStart,
    ApplyEdits, RunCommand, RecordCommand, RollBack, RestoreFails, BeginCheckpoint,
    Checkpoint, RecordCheckpoint, BeginEvaluation, Raise, Goto, db, runVars, turnVars
<1>5. CASE \/ RecordEvaluation \/ CompleteEvaluation \/ SelectTransition \/ RecordDecision
           \/ Accept \/ Reject \/ BeginVerify \/ Verify \/ RefuseCompletion
           \/ AcceptCompletion
  <2>1. UNCHANGED <<status, vector>>
    BY <1>5 DEF RecordEvaluation, CompleteEvaluation, SelectTransition, RecordDecision,
      Accept, Reject, BeginVerify, Verify, RefuseCompletion, AcceptCompletion, Raise, db,
      turnVars
  <2>2. /\ pc \in Registered
        /\ pc' \in (Registered \ {"record_evaluation"}) \union {"loop", "closing"}
    BY <1>5 DEF RecordEvaluation, CompleteEvaluation, SelectTransition, RecordDecision,
      Accept, Reject, RestoreFails, BeginVerify, Verify, RefuseCompletion,
      AcceptCompletion, Raise, Goto
  <2> QED
    BY <2>1, <2>2
<1>7. CASE \/ SetCompleted \/ DeclareCompletion \/ RecordCompletion \/ StoreManifest
           \/ RecordManifest \/ RecordStored \/ Cancel \/ DeclareCancelled
           \/ InvalidTransition \/ Close
  BY <1>7 DEF SetCompleted, DeclareCompletion, RecordCompletion, StoreManifest,
    RecordManifest, RecordStored, Cancel, DeclareCancelled, InvalidTransition, Close,
    Raise, Goto, db
<1>6. CASE Fail \/ Crash \/ Over \/ UNCHANGED vars
  BY <1>6 DEF Fail, Crash, Over, vars, db, runVars, turnVars
<1> QED
  BY <1>1, <1>2, <1>3, <1>4, <1>5, <1>6, <1>7 DEF Next, Step

LEMMA LedgerInvariant == Spec => [](OutcomeIInv /\ MatchInv /\ LedgerInv)
<1>1. Init => MatchInv /\ LedgerInv
  BY EmptySeq DEF Init, MatchInv, HistoryMatchesStore, Agreed, LedgerInv, Pending, Registered,
    Stopped, Active, Created, Declared, Baseline, BeforeTry, Ended
<1>2. OutcomeIInv /\ OutcomeIInv' /\ PaceInv /\ MatchInv /\ LedgerInv /\ [Next]_vars
        => MatchInv' /\ LedgerInv'
  BY MatchStep, LedgerStep DEF OutcomeIInv, LineageIInv
<1> QED
  BY <1>1, <1>2, OutcomeInductive, PaceInvariant, PTL DEF Spec

\* The commit that is judged has been accepted once its vector was.
LEMMA CandidateIsAccepted ==
  ASSUME OutcomeIInv, LedgerInv, pc \in Passed
  PROVE  candidate \in Verdicts
<1>1. rows \in Seq(Candidate) /\ Len(rows) \in DOMAIN rows
  BY EmptySeq, LenProperties DEF OutcomeIInv, LineageIInv, TypeInv, TypeOK, StoreTypes,
    ControlInv, BeforeTry, Passed, Evaluated, Registered
<1>2. /\ rows[Len(rows)].commit = candidate
      /\ PassedRow(rows[Len(rows)])
  BY DEF OutcomeIInv, LineageIInv, JudgingInv, LedgerInv, Passed, Evaluated, Registered, PassedRow
<1> QED
  BY <1>1, <1>2, VerdictsByRow

Delivered == IF status = "COMPLETED" THEN head ELSE 0

\* A delivered commit stays delivered, and only SetCompleted delivers one.
LEMMA DeliveryStep ==
  ASSUME OutcomeIInv, [Next]_vars
  PROVE  SetCompleted \/ Delivered' = Delivered
<1>1. CASE status = "COMPLETED"
  BY <1>1, TerminalSteps DEF OutcomeIInv, outcome, Delivered
<1>2. CASE status # "COMPLETED" /\ status' # "COMPLETED"
  BY <1>2 DEF Delivered
<1>3. CASE status # "COMPLETED" /\ status' = "COMPLETED"
  BY <1>3, StatusStep DEF Cancel
<1> QED
  BY <1>1, <1>2, <1>3

\* Each step of the controller is one step of the ledger, or none.
LEMMA LedgerRefined ==
  ASSUME OutcomeIInv, OutcomeIInv', MatchInv, LedgerInv, [Next]_vars
  PROVE  [Ledger!Next]_(Ledger!vars)
<1> USE DEF Ledger!Next, Ledger!vars, Ledger!Begin, Ledger!Judge, Ledger!Trust,
      Ledger!Deliver, Ledger!GiveUp
<1>0. TypeInv /\ TypeInv'
  BY DEF OutcomeIInv, LineageIInv
<1>1. CASE RecordBaseline \/ RecordEvaluation
  <2>1. status = "ACTIVE" /\ UNCHANGED <<status, best, head>>
    BY <1>1 DEF RecordBaseline, RecordEvaluation, LedgerInv, Active, Created, Declared, Ended,
      ControlPoints, Requesting, Raise, db, runVars, git
  <2>2. \/ Verdicts' = Verdicts
        \/ \E c \in Verdicts' : Verdicts' = Verdicts \union {c}
    BY <1>0, VerdictStep
  <2> QED
    BY <2>1, <2>2 DEF Verdicts
<1>2. CASE ~(RecordBaseline \/ RecordEvaluation)
  <2>0. Verdicts' = Verdicts
    BY <1>0, <1>2, VerdictStep
  <2>1. CASE CreateRun \/ ValidateGoal
    BY <2>0, <2>1 DEF CreateRun, ValidateGoal, LedgerInv, Created, Verdicts, Raise, db,
      runVars, git
  <2>2. CASE Accept
    <3>1. status = "ACTIVE" /\ status' = status /\ best' = candidate /\ candidate \in Verdicts
      BY <2>2, CandidateIsAccepted DEF Accept, LedgerInv, Active, Created, Declared, Ended,
        ControlPoints, Passed, Evaluated, Registered
    <3> QED
      BY <2>0, <3>1 DEF Verdicts
  <2>3. CASE SetCompleted
    <3>1. status = "ACTIVE" /\ status' = "COMPLETED" /\ UNCHANGED <<best, head>>
      BY <2>3 DEF SetCompleted, LedgerInv, Active, Created, Declared, Ended, ControlPoints,
        runVars, git
    <3>2. head = candidate /\ candidate \in Verdicts
      BY <2>3, CandidateIsAccepted DEF SetCompleted, OutcomeIInv, LineageIInv, PointerInv,
        AfterCheckpoint, Passed, Evaluated, Registered
    <3> QED
      BY <2>0, <3>1, <3>2 DEF Verdicts
  <2>4. CASE Cancel
    <3>1. status = "ACTIVE" /\ status' = "CANCELLED" /\ UNCHANGED best
      BY <2>4 DEF Cancel, LedgerInv, Active, Created, Declared, Ended, ControlPoints, runVars
    <3> QED
      BY <2>0, <3>1 DEF Verdicts
  <2>5. CASE ~(CreateRun \/ ValidateGoal \/ Accept \/ SetCompleted \/ Cancel)
    <3>1. UNCHANGED best
      <4>1. CreateBaseline => best' = best
        BY DEF CreateBaseline, OutcomeIInv, LineageIInv, PointerInv, BeforeEdits
      <4>2. EvaluateBaseline \/ CreateCandidate \/ Reject \/ RefuseCompletion \/ AcceptCompletion
              => best' = best
        BY DEF EvaluateBaseline, CreateCandidate, Reject, RefuseCompletion, AcceptCompletion, runVars
      <4> QED
        BY <1>2, <2>5, <4>1, <4>2, StoreStep DEF Judging
    <3>2. UNCHANGED status
      BY <1>2, <2>5 DEF CreateBaseline, Initialize, BeginBaseline, EvaluateBaseline,
        CheckBudget, EnterContext, ContextReady, Propose, RecordProposal, CheckPolicy, RecordPolicy,
        RejectProposal, RecordRefusal, BeginExecution, RecordStart, ApplyEdits,
        RunCommand, RecordCommand, RollBack, RestoreFails, BeginCheckpoint, Checkpoint,
        RecordCheckpoint, BeginEvaluation, Evaluate, CreateCandidate,
        CompleteEvaluation, SelectTransition, RecordDecision, Reject, BeginVerify, Verify, RefuseCompletion, AcceptCompletion,
        DeclareCompletion, RecordCompletion, StoreManifest, RecordManifest, RecordStored,
        DeclareCancelled, InvalidTransition, Close, Raise, Fail, Crash, Over, Next, Step,
        vars, db
    <3>3. UNCHANGED Delivered
      BY <2>5, DeliveryStep
    <3> QED
      BY <2>0, <3>1, <3>2, <3>3 DEF Verdicts, Delivered
  <2> QED
    BY <2>1, <2>2, <2>3, <2>4, <2>5
<1> QED
  BY <1>1, <1>2

\* A run keeps the promise of RunLedger, read off its stores: one trusted commit
\* at a time, trusted and delivered only after an accepting evaluation, and
\* nothing changes after a terminal status (controller.py:556-680).
THEOREM RunsKeepTheLedger == Spec => LedgerSpec
<1>1. Init => Ledger!Init
  BY DEF Init, Ledger!Init
<1>2. OutcomeIInv /\ OutcomeIInv' /\ MatchInv /\ LedgerInv /\ [Next]_vars
        => [Ledger!Next]_(Ledger!vars)
  BY LedgerRefined
<1> QED
  BY <1>1, <1>2, LedgerInvariant, PTL DEF Spec, LedgerSpec, Ledger!Spec

=============================================================================
