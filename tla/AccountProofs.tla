---------------------------- MODULE AccountProofs ----------------------------
(***************************************************************************)
(* What is told of a run, for all values of the constants: the counts and  *)
(* the completion that the reports give (Reports), and what the agent is   *)
(* told at the start of a turn (ContextBuilder).  Both read the log; the   *)
(* proofs say what each step adds to it.                                   *)
(***************************************************************************)
EXTENDS ControllerOutcome, ContextBuilder, Reports, WellFoundedInduction

-----------------------------------------------------------------------------
(* The invariant of the reports. *)

\* The rows of the turns that were scored.
ScoredRows == {i \in 2 .. Len(rows) : rows[i].vec # NoVector}

\* Where a checkpoint is recorded whose candidate is not in the table yet.
Checkpointed == {"begin_evaluation", "evaluate", "create_candidate"}

\* A run that an exception or a crash ended, perhaps between an event and its row.
CutShort == pc \in {"raised", "crashed"} \/ (pc = "closing" /\ exc # "none")

\* Each evaluation is a row first and each checkpoint an event first; the other
\* follows, unless the run is cut short in between.
CountInv ==
  LET scored      == Cardinality(ScoredRows)
      evaluations == Number(log, "EVALUATION_COMPLETED")
      candidates  == Cardinality(2 .. Len(rows))
      checkpoints == Number(log, "CHECKPOINT_CREATED")
  IN  /\ scored \in {evaluations, evaluations + 1}
      /\ pc = "evaluation_completed" => scored = evaluations + 1
      /\ pc # "evaluation_completed" /\ ~CutShort => scored = evaluations
      /\ checkpoints \in {candidates, candidates + 1}
      /\ pc \in Checkpointed => checkpoints = candidates + 1
      /\ pc \notin Checkpointed /\ ~CutShort => checkpoints = candidates

\* An event of the present turn is in the log.
TurnIsLogged == \E i \in DOMAIN log : log[i].iteration = iteration

\* The log of a turn reaches its iteration, and that of a completed run stays
\* there; a manifest is recorded last, for the iterations spent.
LastTurnInv ==
  /\ pc \in InTurn \ {"enter"} => TurnIsLogged
  /\ status = "COMPLETED" => /\ rows # <<>> /\ rows[Len(rows)].vec # NoVector
                             /\ LogUpTo(iteration) /\ TurnIsLogged
  /\ manifest = "recorded" => /\ status = "COMPLETED" /\ iteration = used
                              /\ pc \in {"record_stored", "closing"} \union Ended
  /\ Number(log, "COMPLETION_DECLARED") # 0 => status = "COMPLETED"

-----------------------------------------------------------------------------
(* The invariant of the context. *)

\* Where a turn is under way that may be followed by another.
Turning == (InTurn \ (Declared \union {"set_completed", "declare"})) \union {"loop"}

\* Where the evaluation of the turn's candidate is in the log.
Assessed == Evaluated \ {"evaluation_completed"}

\* Where the turn has its answer and its candidate is not scored.
Answered == Turning \ (Asking \union Assessed \union {"loop"})

\* Where the refusal of the turn's proposal is in the log.
Refusing == {"reject_proposal", "record_refusal"}

Newest == history[Len(history)]

\* Where the last candidate is of, in turns: those since without a candidate.
LagInv ==
  /\ pc \in Asking \union {"loop"} => iteration = Newest.iteration + 1 + Cardinality(TurnsWithoutCandidate)
  /\ pc \in Answered => iteration = Newest.iteration + Cardinality(TurnsWithoutCandidate)
  /\ pc \in Turning \intersect Assessed => TurnsWithoutCandidate = {}

\* The candidates of the history are scored and of earlier turns, and no
\* proposal of theirs was refused; nor has this turn's been, but where it is.
EarlierInv ==
  /\ pc \in Baseline => \A i \in DOMAIN log : log[i].type = "STATE_TRANSITION"
  /\ pc \in Baseline \ BeforeTry => Len(history) = 1 /\ history[1].iteration = 0
  /\ pc = "record_baseline" => history[1].vec # NoVector
  /\ pc \in Turning =>
       /\ \A i \in DOMAIN history : history[i].vec # NoVector /\ history[i].iteration < iteration
       /\ \A r \in Rejections(log) :
            /\ IF pc \in Refusing THEN log[r].iteration <= iteration
                                  ELSE log[r].iteration < iteration
            /\ \A i \in DOMAIN history : history[i].iteration # log[r].iteration

-----------------------------------------------------------------------------
(* What one event more changes. *)

\* An event appended is counted among those of its type.
LEMMA CountAppend ==
  ASSUME NEW L \in Seq(Event), NEW e, NEW type
  PROVE  /\ Number(L, type) \in Nat
         /\ e.type = type => Number(Append(L, e), type) = Number(L, type) + 1
         /\ e.type # type => Number(Append(L, e), type) = Number(L, type)
<1> DEFINE Those(M) == {i \in DOMAIN M : M[i].type = type}
<1>1. /\ DOMAIN Append(L, e) = 1 .. Len(L) + 1 /\ DOMAIN L = 1 .. Len(L) /\ Len(L) \in Nat
      /\ Append(L, e)[Len(L) + 1] = e /\ \A i \in 1 .. Len(L) : Append(L, e)[i] = L[i]
  BY AppendProperties, LenProperties
<1>2. IsFiniteSet(Those(L)) /\ Len(L) + 1 \notin Those(L)
  <2>1. Those(L) \subseteq 1 .. Len(L) /\ Len(L) + 1 \notin 1 .. Len(L)
    BY <1>1
  <2>2. IsFiniteSet(1 .. Len(L))
    BY <1>1, FS_Interval
  <2> QED
    BY <2>1, <2>2, FS_Subset
<1>3. e.type = type => Those(Append(L, e)) = Those(L) \union {Len(L) + 1}
  BY <1>1
<1>4. e.type # type => Those(Append(L, e)) = Those(L)
  BY <1>1
<1>5. Number(L, type) = Cardinality(Those(L)) /\ Number(Append(L, e), type) = Cardinality(Those(Append(L, e)))
  BY DEF Number
<1> HIDE DEF Those
<1> QED
  BY <1>2, <1>3, <1>4, <1>5, FS_AddElement, FS_CardinalityType

\* A rejection appended is one more, the newest.
LEMMA RejectionAppend ==
  ASSUME NEW L \in Seq(Event), NEW e \in Event, NEW M, M = Append(L, e), NEW r \in Rejections(M)
  PROVE  \/ r \in Rejections(L) /\ M[r] = L[r]
         \/ M[r] = e
<1>1. /\ DOMAIN Append(L, e) = 1 .. Len(L) + 1 /\ DOMAIN L = 1 .. Len(L) /\ Len(L) \in Nat
      /\ Append(L, e)[Len(L) + 1] = e /\ \A i \in 1 .. Len(L) : Append(L, e)[i] = L[i]
  BY AppendProperties, LenProperties
<1> QED
  BY <1>1 DEF Rejections

\* The calls of a log that no evaluation follows.
Waiting(L) == {i \in DOMAIN L : L[i].type = "MODEL_CALL" /\ \A j \in i .. Len(L) : L[j].type # "EVALUATION_COMPLETED"}

\* A call appended waits for its evaluation, and an evaluation ends all waiting.
LEMMA WaitingAppend ==
  ASSUME NEW L \in Seq(Event), NEW e
  PROVE  /\ Cardinality(Waiting(L)) \in Nat
         /\ e.type = "EVALUATION_COMPLETED" => Waiting(Append(L, e)) = {}
         /\ e.type = "MODEL_CALL" => Cardinality(Waiting(Append(L, e))) = Cardinality(Waiting(L)) + 1
         /\ e.type \notin {"EVALUATION_COMPLETED", "MODEL_CALL"} => Waiting(Append(L, e)) = Waiting(L)
<1>1. /\ DOMAIN Append(L, e) = 1 .. Len(L) + 1 /\ DOMAIN L = 1 .. Len(L) /\ Len(L) \in Nat
      /\ Len(Append(L, e)) = Len(L) + 1
      /\ Append(L, e)[Len(L) + 1] = e /\ \A i \in 1 .. Len(L) : Append(L, e)[i] = L[i]
  BY AppendProperties, LenProperties
<1>2. IsFiniteSet(Waiting(L)) /\ Len(L) + 1 \notin Waiting(L)
  <2>1. Waiting(L) \subseteq 1 .. Len(L) /\ Len(L) + 1 \notin 1 .. Len(L)
    BY <1>1 DEF Waiting
  <2>2. IsFiniteSet(1 .. Len(L))
    BY <1>1, FS_Interval
  <2> QED
    BY <2>1, <2>2, FS_Subset
<1>3. ASSUME NEW i \in 1 .. Len(L)
      PROVE  i \in Waiting(Append(L, e)) <=> i \in Waiting(L) /\ e.type # "EVALUATION_COMPLETED"
  <2>1. \A j \in i .. Len(L) + 1 : j \in i .. Len(L) \/ j = Len(L) + 1
    BY <1>1
  <2>2. Len(L) + 1 \in i .. Len(L) + 1 /\ \A j \in i .. Len(L) : j \in i .. Len(L) + 1 /\ j \in 1 .. Len(L)
    BY <1>1
  <2> QED
    BY <1>1, <2>1, <2>2 DEF Waiting
<1>4. Len(L) + 1 \in Waiting(Append(L, e)) <=> e.type = "MODEL_CALL"
  BY <1>1 DEF Waiting
<1>5. Waiting(Append(L, e)) \subseteq 1 .. Len(L) + 1 /\ Waiting(L) \subseteq 1 .. Len(L)
  BY <1>1 DEF Waiting
<1>6. e.type = "MODEL_CALL" => Waiting(Append(L, e)) = Waiting(L) \union {Len(L) + 1}
  BY <1>1, <1>3, <1>4, <1>5
<1>7. e.type \notin {"EVALUATION_COMPLETED", "MODEL_CALL"} => Waiting(Append(L, e)) = Waiting(L)
  <2>1. ASSUME NEW i, e.type \notin {"EVALUATION_COMPLETED", "MODEL_CALL"}
        PROVE  i \in Waiting(Append(L, e)) <=> i \in Waiting(L)
    BY <1>1, <1>3, <1>4, <1>5, <2>1
  <2> QED
    BY <2>1
<1>8. e.type = "EVALUATION_COMPLETED" => Waiting(Append(L, e)) = {}
  BY <1>1, <1>3, <1>4, <1>5
<1>9. /\ Cardinality(Waiting(L)) \in Nat
      /\ Cardinality(Waiting(L) \union {Len(L) + 1}) = Cardinality(Waiting(L)) + 1
  BY <1>2, FS_AddElement, FS_CardinalityType
<1> QED
  BY <1>6, <1>7, <1>8, <1>9

-----------------------------------------------------------------------------
(* What a step adds to the log. *)

\* An event that no report counts and that rejects nothing.
Plain(e) ==
  /\ e.type \notin {"MODEL_CALL", "EVALUATION_COMPLETED", "CHECKPOINT_CREATED", "COMPLETION_DECLARED"}
  /\ ~IsRejection(e)

\* A step of no account: none of these events is written.
Quiet ==
  /\ ~CompleteEvaluation /\ ~RecordCheckpoint
  /\ pc = "propose" => pc' # "record_proposal"
  /\ pc = "record_completion" => pc' # "store_manifest"
  /\ log' = log \/ \E e \in Event : Plain(e) /\ log' = Append(log, e)

\* An event of this turn is written.
Telling(type, d) ==
  \E e \in Event : /\ e.type = type /\ e.decision = d /\ e.iteration = iteration
                   /\ log' = Append(log, e)

AccountSteps ==
  \/ Quiet
  \/ CompleteEvaluation /\ Telling("EVALUATION_COMPLETED", "none")
  \/ RecordCheckpoint /\ Telling("CHECKPOINT_CREATED", "none")
  \/ pc = "propose" /\ pc' = "record_proposal" /\ Telling("MODEL_CALL", "none")
  \/ pc = "record_policy" /\ pc' = "reject_proposal" /\ Telling("POLICY_CHECK", "REJECT")
  \/ pc = "record_refusal" /\ pc' = "loop" /\ Telling("TRANSITION_DECIDED", "REJECT")
  \/ pc = "record_completion" /\ pc' = "store_manifest" /\ Telling("COMPLETION_DECLARED", "none")

LEMMA MovedIsPlain ==
  ASSUME NEW n
  PROVE  Plain(Moved(n))
BY DEF Moved, Plain, IsRejection

LEMMA NoteIsPlain ==
  ASSUME NEW type, NEW s, NEW d,
         type \notin {"MODEL_CALL", "EVALUATION_COMPLETED", "CHECKPOINT_CREATED", "COMPLETION_DECLARED"},
         d = "REJECT" => type \notin {"POLICY_CHECK", "TRANSITION_DECIDED"}
  PROVE  Plain(Note(type, s, d))
BY DEF Note, Plain, IsRejection

\* Every step is one of these.
LEMMA AccountStep ==
  ASSUME TypeInv, [Next]_vars
  PROVE  AccountSteps
<1>0. /\ cs \in ControllerState /\ iteration \in Nat /\ MaxIterations \in Nat
      /\ \A n : Plain(Moved(n))
  BY ControllerAssumption, MovedIsPlain DEF TypeInv, TypeOK, MachineTypes, TurnTypes
<1>1. ASSUME NEW n \in Nat, Transition(n), pc \in Requesting
      PROVE  Quiet
  <2>1. Moved(n) \in Event /\ Plain(Moved(n))
    BY <1>0, <1>1, MovedType
  <2> QED
    BY <1>1, <2>1 DEF Quiet, Transition, CompleteEvaluation, RecordCheckpoint, Requesting
<1>2. CASE \/ Initialize \/ BeginBaseline \/ EnterContext \/ ContextReady \/ CheckPolicy
           \/ RejectProposal \/ BeginExecution \/ BeginCheckpoint \/ BeginEvaluation
           \/ SelectTransition \/ BeginVerify \/ DeclareCompletion \/ DeclareCancelled
  BY <1>0, <1>1, <1>2 DEF AccountSteps, Initialize, BeginBaseline, EnterContext,
    ContextReady, CheckPolicy, RejectProposal, BeginExecution, BeginCheckpoint,
    BeginEvaluation, SelectTransition, BeginVerify, DeclareCompletion, DeclareCancelled,
    Requesting
<1>3. CASE RollBack
  <2>1. CASE Transition(iteration)
    BY <1>0, <1>1, <1>3, <2>1 DEF AccountSteps, RollBack, Requesting
  <2>2. CASE UNCHANGED machine
    BY <1>3, <2>2 DEF AccountSteps, Quiet, RollBack, machine, CompleteEvaluation, RecordCheckpoint
  <2> QED
    BY <1>3, <2>1, <2>2 DEF RollBack, machine
<1>4. ASSUME NEW type \in EventType, NEW d \in TransitionDecision \union {"none"}, Record(type, d)
      PROVE  /\ Telling(type, d)
             /\ \/ type \in {"MODEL_CALL", "EVALUATION_COMPLETED", "CHECKPOINT_CREATED", "COMPLETION_DECLARED"}
                \/ d = "REJECT" /\ type \in {"POLICY_CHECK", "TRANSITION_DECIDED"}
                \/ \E e \in Event : Plain(e) /\ log' = Append(log, e)
  <2>1. Note(type, cs, d) \in Event
    BY <1>0, NoteType
  <2>2. /\ Note(type, cs, d).type = type /\ Note(type, cs, d).decision = d
        /\ Note(type, cs, d).iteration = iteration
    BY DEF Note
  <2> QED
    BY <1>4, <2>1, <2>2, NoteIsPlain DEF Record, Telling
<1>5. CASE RecordPolicy
  <2>1. PICK allowed \in BOOLEAN :
          /\ Record("POLICY_CHECK", IF allowed THEN "ACCEPT" ELSE "REJECT")
          /\ Goto(IF allowed THEN "begin_execution" ELSE "reject_proposal")
    BY <1>5 DEF RecordPolicy
  <2> QED
    BY <1>4, <1>5, <2>1 DEF RecordPolicy, Goto, AccountSteps, Quiet, EventType,
      TransitionDecision, CompleteEvaluation, RecordCheckpoint
<1>6. CASE RecordDecision
  <2> DEFINE d == Decide(vector, history, proposal.completion_claimed)
  <2>1. d \in {"COMPLETE", "ACCEPT", "ROLLBACK", "RETRY"}
    BY DEF Decide
  <2>2. pc = "record_decision" /\ Record("TRANSITION_DECIDED", d)
    BY <1>6 DEF RecordDecision
  <2> HIDE DEF d
  <2> QED
    BY <1>4, <2>1, <2>2 DEF AccountSteps, Quiet, EventType, TransitionDecision,
      CompleteEvaluation, RecordCheckpoint
<1>7. CASE Propose \/ RecordRefusal \/ RecordCheckpoint \/ CompleteEvaluation \/ RecordCompletion
  BY <1>4, <1>7 DEF Propose, RecordRefusal, RecordCheckpoint, CompleteEvaluation,
    RecordCompletion, DecideRefused, Goto, AccountSteps, EventType, TransitionDecision
<1>8. CASE RecordProposal \/ RecordStart \/ RecordCommand \/ RecordStored
  BY <1>4, <1>8 DEF RecordProposal, RecordStart, RecordCommand, RecordStored, AccountSteps,
    Quiet, EventType, CompleteEvaluation, RecordCheckpoint
<1>9. CASE \/ CreateRun \/ CreateBaseline \/ ValidateGoal \/ EvaluateBaseline
           \/ RecordBaseline \/ CheckBudget \/ ApplyEdits \/ RunCommand \/ Checkpoint
           \/ Evaluate \/ CreateCandidate \/ RecordEvaluation \/ Accept \/ Reject
           \/ Verify \/ RefuseCompletion \/ AcceptCompletion \/ SetCompleted
           \/ StoreManifest \/ RecordManifest \/ Cancel \/ InvalidTransition \/ Close
  <2>1. log' = log
    BY <1>9 DEF CreateRun, CreateBaseline, ValidateGoal, EvaluateBaseline, RecordBaseline,
      CheckBudget, ApplyEdits, RunCommand, Checkpoint, Evaluate, CreateCandidate,
      RecordEvaluation, Accept, Reject, Verify, RefuseCompletion, AcceptCompletion,
      SetCompleted, StoreManifest, RecordManifest, Cancel, InvalidTransition, Close, Raise,
      machine
  <2>2. pc \notin {"propose", "record_completion", "evaluation_completed", "record_checkpoint"}
    BY <1>9 DEF CreateRun, CreateBaseline, ValidateGoal, EvaluateBaseline, RecordBaseline,
      CheckBudget, ApplyEdits, RunCommand, Checkpoint, Evaluate, CreateCandidate,
      RecordEvaluation, Accept, Reject, Verify, RefuseCompletion, AcceptCompletion,
      SetCompleted, StoreManifest, RecordManifest, Cancel, InvalidTransition, Close, Requesting
  <2> QED
    BY <2>1, <2>2 DEF AccountSteps, Quiet, CompleteEvaluation, RecordCheckpoint
<1>10. CASE Fail \/ Crash \/ Over \/ UNCHANGED vars
  BY <1>10 DEF Fail, Crash, Over, vars, machine, AccountSteps, Quiet, CompleteEvaluation,
    RecordCheckpoint, Goto, Ended, BeforeTry
<1> QED
  BY <1>2, <1>3, <1>5, <1>6, <1>7, <1>8, <1>9, <1>10 DEF Next, Step

-----------------------------------------------------------------------------
(* The counts of the reports. *)

\* Plain events are not counted.
LEMMA QuietCounts ==
  ASSUME TypeInv, Quiet,
         NEW type \in {"MODEL_CALL", "EVALUATION_COMPLETED", "CHECKPOINT_CREATED", "COMPLETION_DECLARED"}
  PROVE  Number(log', type) = Number(log, type)
<1>1. log \in Seq(Event)
  BY DEF TypeInv, TypeOK, MachineTypes
<1>2. ASSUME NEW e \in Event, Plain(e), log' = Append(log, e)
      PROVE  Number(log', type) = Number(log, type)
  <2>1. e.type # type
    BY <1>2 DEF Plain
  <2> QED
    BY <1>1, <1>2, <2>1, CountAppend
<1> QED
  BY <1>2 DEF Quiet

\* Evaluations and checkpoints are counted where they are recorded.
LEMMA CountStep ==
  ASSUME TypeInv, [Next]_vars
  PROVE  /\ Number(log, "EVALUATION_COMPLETED") \in Nat /\ Number(log, "CHECKPOINT_CREATED") \in Nat
         /\ CompleteEvaluation => Number(log', "EVALUATION_COMPLETED") = Number(log, "EVALUATION_COMPLETED") + 1
         /\ ~CompleteEvaluation => Number(log', "EVALUATION_COMPLETED") = Number(log, "EVALUATION_COMPLETED")
         /\ RecordCheckpoint => Number(log', "CHECKPOINT_CREATED") = Number(log, "CHECKPOINT_CREATED") + 1
         /\ ~RecordCheckpoint => Number(log', "CHECKPOINT_CREATED") = Number(log, "CHECKPOINT_CREATED")
         /\ pc # "record_completion" => Number(log', "COMPLETION_DECLARED") = Number(log, "COMPLETION_DECLARED")
<1>1. log \in Seq(Event)
  BY DEF TypeInv, TypeOK, MachineTypes
<1>2. Number(log, "EVALUATION_COMPLETED") \in Nat /\ Number(log, "CHECKPOINT_CREATED") \in Nat
  BY <1>1, CountAppend
<1>3. CASE Quiet
  BY <1>2, <1>3, QuietCounts DEF Quiet
<1>4. ASSUME NEW type, NEW d, Telling(type, d), NEW other
      PROVE  /\ other = type => Number(log', other) = Number(log, other) + 1
             /\ other # type => Number(log', other) = Number(log, other)
  BY <1>1, <1>4, CountAppend DEF Telling
<1>5. CASE CompleteEvaluation /\ Telling("EVALUATION_COMPLETED", "none")
  <2>1. ~RecordCheckpoint
    BY <1>5 DEF CompleteEvaluation, RecordCheckpoint
  <2> QED
    BY <1>2, <1>4, <1>5, <2>1
<1>6. CASE RecordCheckpoint /\ Telling("CHECKPOINT_CREATED", "none")
  <2>1. ~CompleteEvaluation
    BY <1>6 DEF CompleteEvaluation, RecordCheckpoint
  <2> QED
    BY <1>2, <1>4, <1>6, <2>1
<1>7. CASE \/ pc = "propose" /\ pc' = "record_proposal" /\ Telling("MODEL_CALL", "none")
           \/ pc = "record_policy" /\ pc' = "reject_proposal" /\ Telling("POLICY_CHECK", "REJECT")
           \/ pc = "record_refusal" /\ pc' = "loop" /\ Telling("TRANSITION_DECIDED", "REJECT")
           \/ pc = "record_completion" /\ pc' = "store_manifest" /\ Telling("COMPLETION_DECLARED", "none")
  <2>1. ~CompleteEvaluation /\ ~RecordCheckpoint
    BY <1>7 DEF CompleteEvaluation, RecordCheckpoint
  <2> QED
    BY <1>2, <1>4, <1>7, <2>1
<1> QED
  BY <1>3, <1>5, <1>6, <1>7, AccountStep DEF AccountSteps

\* A row is added where a candidate is created, and scored once, later.
LEMMA RowStep ==
  ASSUME TypeInv, TypeInv', MatchInv, LedgerInv, [Next]_vars
  PROVE  /\ CreateCandidate => Len(rows') = Len(rows) + 1 /\ Len(rows) >= 1
         /\ ~CreateCandidate => 2 .. Len(rows') = 2 .. Len(rows)
         /\ RecordEvaluation => /\ ScoredRows' = ScoredRows \union {Len(rows)}
                                /\ Len(rows) \notin ScoredRows
         /\ ~RecordEvaluation => ScoredRows' = ScoredRows
<1>1. rows \in Seq(Candidate) /\ rows' \in Seq(Candidate) /\ Len(rows) \in Nat /\ Len(rows') \in Nat
  BY LenProperties DEF TypeInv, TypeOK, StoreTypes
<1>2. CASE UNCHANGED rows
  <2>1. ~CreateCandidate
    BY <1>1, <1>2, AppendProperties, LocalType DEF CreateCandidate, BeforeTry, CandidateStatus
  <2>2. ~RecordEvaluation
    <3>1. SUFFICES ASSUME RecordEvaluation PROVE FALSE
      OBVIOUS
    <3>2. Len(rows) \in 1 .. Len(rows) /\ vector \in Vectors \union {NoVector}
      BY <1>1, <3>1, EmptySeq DEF RecordEvaluation, TypeInv, ControlInv, BeforeTry, TypeOK, TurnTypes
    <3>3. rows[Len(rows)] \in Candidate /\ rows[Len(rows)].vec = NoVector /\ vector # NoVector
      BY <1>1, <3>1, <3>2, ElementOfSeq DEF RecordEvaluation, LedgerInv, Registered
    <3>4. rows'[Len(rows)] = [rows[Len(rows)] EXCEPT !.vec = vector]
      BY <1>1, <3>1, <3>2, VectorUpdate DEF RecordEvaluation
    <3> QED
      BY <1>2, <3>3, <3>4 DEF Candidate
  <2> QED
    BY <1>2, <2>1, <2>2 DEF ScoredRows
<1>3. CASE RecordEvaluation
  <2>1. /\ Len(rows) \in 2 .. Len(rows) /\ Len(rows) \in 1 .. Len(rows)
        /\ vector \in Vectors \union {NoVector}
    <3>1. Len(rows) = Len(history) + 1 /\ history # <<>> /\ history \in Seq(Candidate)
      BY <1>3 DEF RecordEvaluation, MatchInv, Pending, Registered, TypeInv, ControlInv, BeforeTry, TypeOK, StoreTypes
    <3>2. Len(history) \in Nat /\ Len(history) # 0
      BY <3>1, LenProperties, EmptySeq
    <3> QED
      BY <1>3, <3>1, <3>2 DEF TypeInv, TypeOK, TurnTypes
  <2>2. rows[Len(rows)] \in Candidate /\ rows[Len(rows)].vec = NoVector /\ vector # NoVector
    BY <1>1, <1>3, <2>1, ElementOfSeq DEF RecordEvaluation, LedgerInv, Registered
  <2>3. /\ Len(rows') = Len(rows)
        /\ \A j \in 1 .. Len(rows) :
             rows'[j] = IF j = Len(rows) THEN [rows[Len(rows)] EXCEPT !.vec = vector] ELSE rows[j]
    BY <1>1, <1>3, <2>1, VectorUpdate DEF RecordEvaluation
  <2>4. rows'[Len(rows)].vec = vector
    BY <2>1, <2>2, <2>3 DEF Candidate
  <2>5. ASSUME NEW j \in 2 .. Len(rows), j # Len(rows) PROVE rows'[j] = rows[j]
    BY <1>1, <2>3, <2>5
  <2>6. ~CreateCandidate
    BY <1>3 DEF RecordEvaluation, CreateCandidate
  <2> QED
    BY <1>3, <2>1, <2>2, <2>3, <2>4, <2>5, <2>6 DEF ScoredRows
<1>4. CASE CreateCandidate
  <2>1. NewCandidate \in Candidate /\ NewCandidate.vec = NoVector
    <3>1. Local("ACTIVE") \in Candidate /\ NewCandidate \in Candidate
      BY <1>4, LocalType DEF CreateCandidate, BeforeTry, CandidateStatus
    <3> QED
      BY <3>1 DEF NewCandidate, Candidate
  <2>2. /\ Len(rows') = Len(rows) + 1 /\ rows'[Len(rows) + 1] = NewCandidate
        /\ \A j \in 1 .. Len(rows) : rows'[j] = rows[j]
    BY <1>1, <1>4, <2>1, AppendProperties DEF CreateCandidate
  <2>3. Len(rows) >= 1
    BY <1>1, <1>4, EmptySeq DEF CreateCandidate, TypeInv, ControlInv, BeforeTry
  <2>4. ~RecordEvaluation
    BY <1>4 DEF RecordEvaluation, CreateCandidate
  <2>5. ScoredRows' = ScoredRows
    BY <1>1, <2>1, <2>2 DEF ScoredRows
  <2> QED
    BY <1>4, <2>2, <2>3, <2>4, <2>5
<1>5. CASE Accept \/ Reject \/ RefuseCompletion \/ AcceptCompletion
  <2>1. PICK s \in CandidateStatus : rows' = [rows EXCEPT ![Len(rows)].status = s]
    BY <1>5 DEF Accept, Reject, RefuseCompletion, AcceptCompletion, SetCandidateStatus, CandidateStatus
  <2>2. Len(rows) \in 1 .. Len(rows) /\ rows[Len(rows)] \in Candidate
    BY <1>1, <1>5, EmptySeq, ElementOfSeq DEF Accept, Reject, RefuseCompletion, AcceptCompletion,
      TypeInv, ControlInv, BeforeTry
  <2>3. /\ Len(rows') = Len(rows)
        /\ \A j \in 1 .. Len(rows) :
             rows'[j] = IF j = Len(rows) THEN [rows[Len(rows)] EXCEPT !.status = s] ELSE rows[j]
    BY <1>1, <2>1, <2>2, StatusUpdate
  <2>4. [rows[Len(rows)] EXCEPT !.status = s].vec = rows[Len(rows)].vec
    BY <2>2 DEF Candidate
  <2>5. ASSUME NEW j \in 2 .. Len(rows) PROVE rows'[j].vec = rows[j].vec
    <3>1. j \in 1 .. Len(rows)
      BY <1>1
    <3>2. rows'[j] = IF j = Len(rows) THEN [rows[Len(rows)] EXCEPT !.status = s] ELSE rows[j]
      BY <2>3, <3>1
    <3> QED
      BY <2>4, <3>2
  <2>6. ~RecordEvaluation /\ ~CreateCandidate
    BY <1>5 DEF Accept, Reject, RefuseCompletion, AcceptCompletion, RecordEvaluation,
      CreateCandidate
  <2> QED
    BY <2>3, <2>5, <2>6 DEF ScoredRows
<1>6. CASE RecordBaseline
  <2>1. 1 \in 1 .. Len(rows) /\ 1 \in 1 .. Len(history) /\ history \in Seq(Candidate)
    BY <1>1, <1>6, EmptySeq DEF RecordBaseline, TypeInv, ControlInv, BeforeTry, TypeOK, StoreTypes
  <2>2. history[1].vec \in Vectors \union {NoVector}
    <3>1. history[1] \in Candidate
      BY <2>1, ElementOfSeq
    <3> QED
      BY <3>1 DEF Candidate
  <2>3. /\ Len(rows') = Len(rows)
        /\ \A j \in 1 .. Len(rows) :
             rows'[j] = IF j = 1 THEN [rows[1] EXCEPT !.vec = history[1].vec] ELSE rows[j]
    BY <1>1, <1>6, <2>1, <2>2, VectorUpdate DEF RecordBaseline
  <2>4. ASSUME NEW j \in 2 .. Len(rows) PROVE rows'[j].vec = rows[j].vec
    <3>1. j \in 1 .. Len(rows) /\ j # 1
      BY <1>1
    <3> QED
      BY <2>3, <3>1
  <2>5. ~RecordEvaluation /\ ~CreateCandidate
    BY <1>6 DEF RecordBaseline, RecordEvaluation, CreateCandidate
  <2> QED
    BY <2>3, <2>4, <2>5 DEF ScoredRows
<1>7. CASE CreateBaseline
  <2>1. rows = <<>> /\ ~RecordEvaluation /\ ~CreateCandidate
    BY <1>7 DEF CreateBaseline, MatchInv, BeforeTry, RecordEvaluation, CreateCandidate
  <2>2. PICK b : rows' = <<b>>
    BY <1>7 DEF CreateBaseline
  <2>3. 2 .. Len(rows') = {} /\ 2 .. Len(rows) = {}
    BY <2>1, <2>2
  <2> QED
    BY <2>1, <2>3 DEF ScoredRows
<1> QED
  BY <1>2, <1>3, <1>4, <1>5, <1>6, <1>7, StoreStep DEF Judging, EvaluateBaseline, db

\* From the row of an evaluation to its event, and from the event of a checkpoint
\* to its row, the run goes straight on or is cut short.
LEMMA AccountControl ==
  ASSUME TypeInv, [Next]_vars
  PROVE  /\ CutShort => CutShort'
         /\ ~RecordCheckpoint /\ ~CreateCandidate =>
              /\ pc' \in Checkpointed => pc \in Checkpointed
              /\ pc \in Checkpointed => pc' \in Checkpointed \/ CutShort'
         /\ ~RecordEvaluation /\ ~CompleteEvaluation =>
              /\ pc' = "evaluation_completed" => pc = "evaluation_completed"
              /\ pc = "evaluation_completed" => pc' = "evaluation_completed" \/ CutShort'
<1> USE DEF CutShort, Checkpointed, Ended, Goto, Raise, ending
<1>1. CASE \/ CreateRun \/ CreateBaseline \/ Initialize \/ ValidateGoal \/ BeginBaseline
           \/ EvaluateBaseline \/ RecordBaseline \/ CheckBudget \/ EnterContext
           \/ ContextReady \/ Propose \/ RecordProposal \/ CheckPolicy \/ RecordPolicy
           \/ RejectProposal \/ RecordRefusal \/ BeginExecution \/ RecordStart
           \/ ApplyEdits \/ RunCommand \/ RecordCommand \/ RollBack \/ BeginCheckpoint
           \/ Checkpoint \/ RecordCheckpoint \/ BeginEvaluation \/ Evaluate \/ CreateCandidate
  BY <1>1 DEF CreateRun, CreateBaseline, Initialize, ValidateGoal, BeginBaseline,
    EvaluateBaseline, RecordBaseline, CheckBudget, EnterContext, ContextReady, Propose,
    RecordProposal, CheckPolicy, RecordPolicy, RejectProposal, RecordRefusal,
    BeginExecution, RecordStart, ApplyEdits, RunCommand, RecordCommand, RollBack,
    RestoreFails, BeginCheckpoint, Checkpoint, RecordCheckpoint, BeginEvaluation, Evaluate,
    CreateCandidate
<1>2. CASE \/ RecordEvaluation \/ CompleteEvaluation \/ SelectTransition \/ RecordDecision
           \/ Accept \/ Reject \/ BeginVerify \/ Verify \/ RefuseCompletion
           \/ AcceptCompletion \/ SetCompleted \/ DeclareCompletion \/ RecordCompletion
           \/ StoreManifest \/ RecordManifest \/ RecordStored \/ Cancel
           \/ DeclareCancelled \/ InvalidTransition \/ Close
  BY <1>2 DEF RecordEvaluation, CompleteEvaluation, SelectTransition, RecordDecision,
    Accept, Reject, RestoreFails, BeginVerify, Verify, RefuseCompletion, AcceptCompletion,
    SetCompleted, DeclareCompletion, RecordCompletion, StoreManifest, RecordManifest,
    RecordStored, Cancel, DeclareCancelled, InvalidTransition, Requesting, Close
<1>3. CASE Fail \/ Crash \/ Over \/ UNCHANGED vars
  BY <1>3 DEF Fail, Crash, Over, vars, BeforeTry
<1> QED
  BY <1>1, <1>2, <1>3 DEF Next, Step

LEMMA CountInvStep ==
  ASSUME TypeInv, TypeInv', MatchInv, LedgerInv, CountInv, [Next]_vars
  PROVE  CountInv'
<1> DEFINE evaluations == Number(log, "EVALUATION_COMPLETED")
           checkpoints == Number(log, "CHECKPOINT_CREATED")
           candidates  == Cardinality(2 .. Len(rows))
           scored      == Cardinality(ScoredRows)
<1>1. evaluations \in Nat /\ checkpoints \in Nat
  BY CountStep
<1>2. /\ IsFiniteSet(ScoredRows) /\ scored \in Nat /\ candidates \in Nat
      /\ candidates = IF 2 > Len(rows) THEN 0 ELSE Len(rows) - 1
      /\ candidates' = IF 2 > Len(rows') THEN 0 ELSE Len(rows') - 1
      /\ Len(rows) \in Nat /\ Len(rows') \in Nat
  <2>1. Len(rows) \in Nat /\ Len(rows') \in Nat
    BY LenProperties DEF TypeInv, TypeOK, StoreTypes
  <2>2. IsFiniteSet(2 .. Len(rows)) /\ ScoredRows \subseteq 2 .. Len(rows)
    BY <2>1, FS_Interval DEF ScoredRows
  <2>3. ASSUME NEW n \in Nat PROVE Cardinality(2 .. n) = IF 2 > n THEN 0 ELSE n - 1
    <3>1. Cardinality(2 .. n) = IF 2 > n THEN 0 ELSE n - 2 + 1
      BY FS_Interval
    <3> QED
      BY <3>1
  <2>4. IsFiniteSet(ScoredRows)
    BY <2>2, FS_Subset
  <2> QED
    BY <2>1, <2>3, <2>4, FS_CardinalityType
<1>3. scored' = (IF RecordEvaluation THEN scored + 1 ELSE scored)
  <2>1. CASE RecordEvaluation
    BY <1>2, <2>1, RowStep, FS_AddElement
  <2> QED
    BY <2>1, RowStep
<1>4. evaluations' = (IF CompleteEvaluation THEN evaluations + 1 ELSE evaluations)
  BY CountStep
<1>5. candidates' = (IF CreateCandidate THEN candidates + 1 ELSE candidates)
  BY <1>2, RowStep
<1>6. checkpoints' = (IF RecordCheckpoint THEN checkpoints + 1 ELSE checkpoints)
  BY CountStep
<1>7. /\ RecordEvaluation => pc = "record_evaluation" /\ pc' = "evaluation_completed"
      /\ CompleteEvaluation => pc = "evaluation_completed" /\ pc' = "selecting"
      /\ RecordCheckpoint => pc = "record_checkpoint" /\ pc' = "begin_evaluation"
      /\ CreateCandidate => pc = "create_candidate" /\ pc' = "record_evaluation"
  BY DEF RecordEvaluation, CompleteEvaluation, RecordCheckpoint, CreateCandidate, Goto
<1>8. pc \in {"record_evaluation", "record_checkpoint"} => ~CutShort
  BY DEF CutShort
<1>9. /\ scored \in {evaluations, evaluations + 1}
      /\ pc = "evaluation_completed" => scored = evaluations + 1
      /\ pc # "evaluation_completed" /\ ~CutShort => scored = evaluations
      /\ checkpoints \in {candidates, candidates + 1}
      /\ pc \in Checkpointed => checkpoints = candidates + 1
      /\ pc \notin Checkpointed /\ ~CutShort => checkpoints = candidates
  BY DEF CountInv
<1> HIDE DEF evaluations, checkpoints, candidates, scored
<1>10. /\ scored' \in {evaluations', evaluations' + 1}
       /\ pc' = "evaluation_completed" => scored' = evaluations' + 1
       /\ pc' # "evaluation_completed" /\ ~CutShort' => scored' = evaluations'
  <2>1. CASE RecordEvaluation
    BY <1>1, <1>2, <1>3, <1>4, <1>7, <1>8, <1>9, <2>1
  <2>2. CASE CompleteEvaluation
    BY <1>1, <1>2, <1>3, <1>4, <1>7, <1>9, <2>2
  <2>3. CASE ~RecordEvaluation /\ ~CompleteEvaluation
    BY <1>3, <1>4, <1>9, <2>3, AccountControl
  <2> QED
    BY <2>1, <2>2, <2>3
<1>11. /\ checkpoints' \in {candidates', candidates' + 1}
       /\ pc' \in Checkpointed => checkpoints' = candidates' + 1
       /\ pc' \notin Checkpointed /\ ~CutShort' => checkpoints' = candidates'
  <2>1. CASE RecordCheckpoint
    BY <1>1, <1>2, <1>5, <1>6, <1>7, <1>8, <1>9, <2>1 DEF Checkpointed
  <2>2. CASE CreateCandidate
    BY <1>1, <1>2, <1>5, <1>6, <1>7, <1>9, <2>2 DEF Checkpointed
  <2>3. CASE ~RecordCheckpoint /\ ~CreateCandidate
    BY <1>5, <1>6, <1>9, <2>3, AccountControl
  <2> QED
    BY <2>1, <2>2, <2>3
<1> QED
  BY <1>10, <1>11 DEF CountInv, evaluations, checkpoints, candidates, scored

-----------------------------------------------------------------------------
(* The last turn of the reports. *)

\* An event of an iteration stays.
LEMMA LoggedStays ==
  ASSUME TypeInv, [Next]_vars, TurnIsLogged, iteration' = iteration
  PROVE  TurnIsLogged'
<1>1. /\ DOMAIN log = 1 .. Len(log) /\ DOMAIN log' = 1 .. Len(log')
      /\ Len(log) \in Nat /\ Len(log') \in Nat
  BY LogGrows, LenProperties DEF TypeInv, TypeOK, MachineTypes
<1>2. PICK i \in DOMAIN log : log[i].iteration = iteration
  BY DEF TurnIsLogged
<1>3. i \in 1 .. Len(log') /\ log'[i] = log[i]
  <2>1. \A m, n \in Nat : m \in {n, n + 1} => 1 .. n \subseteq 1 .. m
    OBVIOUS
  <2>2. 1 .. Len(log) \subseteq 1 .. Len(log')
    BY <1>1, <2>1, LogGrows
  <2> QED
    BY <1>1, <1>2, <2>2, LogGrows
<1>4. i \in DOMAIN log' /\ log'[i] = log[i]
  BY <1>1, <1>3
<1> QED
  BY <1>2, <1>4 DEF TurnIsLogged

\* A turn's first event is that of the state it enters.
LEMMA LoggedStep ==
  ASSUME TypeInv, PaceInv, LastTurnInv, [Next]_vars
  PROVE  pc' \in InTurn \ {"enter"} => TurnIsLogged'
<1>1. CASE EnterContext
  <2>1. log \in Seq(Event) /\ log' = Append(log, Moved(iteration)) /\ iteration' = iteration
    BY <1>1 DEF EnterContext, Transition, TypeInv, TypeOK, MachineTypes, runVars
  <2>2. /\ DOMAIN log' = 1 .. Len(log) + 1 /\ Len(log) \in Nat
        /\ log'[Len(log) + 1] = Moved(iteration)
    BY <2>1, AppendProperties, LenProperties
  <2>3. Moved(iteration).iteration = iteration
    BY DEF Moved
  <2> QED
    BY <2>1, <2>2, <2>3 DEF TurnIsLogged
<1>2. CASE ~EnterContext
  <2>1. pc = "enter" => pc' \in {"enter", "closing"} \union Ended
    BY <1>2 DEF Next, Step, CreateRun, CreateBaseline, Initialize, ValidateGoal,
      BeginBaseline, EvaluateBaseline, RecordBaseline, CheckBudget, ContextReady, Propose,
      RecordProposal, CheckPolicy, RecordPolicy, RejectProposal, RecordRefusal,
      BeginExecution, RecordStart, ApplyEdits, RunCommand, RecordCommand, RollBack,
      BeginCheckpoint, Checkpoint, RecordCheckpoint, BeginEvaluation, Evaluate,
      CreateCandidate, RecordEvaluation, CompleteEvaluation, SelectTransition,
      RecordDecision, Accept, Reject, BeginVerify, Verify, RefuseCompletion,
      AcceptCompletion, SetCompleted, DeclareCompletion, RecordCompletion, StoreManifest,
      RecordManifest, RecordStored, Cancel, DeclareCancelled, InvalidTransition, Close,
      Fail, Crash, Over, Raise, vars, Ended, BeforeTry
  <2>2. pc' \in InTurn \ {"enter"} => pc \in InTurn \ {"enter"} /\ iteration' = iteration
    <3>1. Asking \subseteq InTurn /\ InTurn \intersect (Baseline \union Ended \union {"loop", "cancel", "cancelling", "closing"}) = {}
      BY DEF InTurn, Asking, ControlPoints, Requesting, Baseline, Ended
    <3> QED
      BY <2>1, <3>1, PaceSteps DEF Asking
  <2> QED
    BY <2>2, LoggedStays DEF LastTurnInv
<1> QED
  BY <1>1, <1>2

\* A run completes after a scored candidate, in the turn of its last events.
LEMMA CompletedStep ==
  ASSUME TypeInv, TypeInv', JudgingInv, OutcomeInv, LedgerInv, PaceInv, LastTurnInv, [Next]_vars,
         status' = "COMPLETED"
  PROVE  /\ rows' # <<>> /\ rows'[Len(rows')].vec # NoVector
         /\ LogUpTo(iteration)' /\ TurnIsLogged'
<1>1. CASE status = "COMPLETED"
  <2>1. UNCHANGED <<outcome, iteration, history>>
    BY <1>1, TerminalSteps
  <2>2. UNCHANGED <<rows, iteration>>
    BY <2>1 DEF outcome
  <2>3. Stamp = iteration /\ iteration \in Nat
    BY <1>1 DEF OutcomeInv, AfterCompleted, Declared, Ended, Stamp, TypeInv, TypeOK, TurnTypes
  <2>4. \A i \in DOMAIN log' : log'[i].iteration <= iteration
    BY <1>1, <2>3, UpToStep DEF LastTurnInv
  <2> QED
    BY <1>1, <2>2, <2>4, LoggedStays DEF LastTurnInv, LogUpTo
<1>2. CASE status # "COMPLETED"
  <2>1. SetCompleted
    BY <1>2, StatusStep DEF Cancel
  <2>2. pc = "set_completed" /\ UNCHANGED <<rows, log, iteration>>
    BY <2>1 DEF SetCompleted, machine, runVars
  <2>3. rows # <<>> /\ rows[Len(rows)].vec # NoVector
    BY <2>2 DEF TypeInv, ControlInv, BeforeTry, JudgingInv, LedgerInv, Registered, Evaluated
  <2>4. LogUpTo(iteration) /\ TurnIsLogged
    BY <2>2 DEF PaceInv, LastTurnInv, InTurn, ControlPoints, Baseline, Ended
  <2> QED
    BY <2>2, <2>3, <2>4, LoggedStays DEF LogUpTo
<1> QED
  BY <1>1, <1>2

\* The manifest is recorded at the end of the turn that completes the run.
LEMMA ManifestStep ==
  ASSUME TypeInv, OutcomeInv, PaceInv, LastTurnInv, [Next]_vars, manifest' = "recorded"
  PROVE  status' = "COMPLETED" /\ iteration' = used' /\ pc' \in {"record_stored", "closing"} \union Ended
<1>1. CASE manifest = "recorded"
  <2>1. /\ status = "COMPLETED" /\ iteration = used
        /\ pc \in {"record_stored", "closing"} \union Ended
    BY <1>1 DEF LastTurnInv
  <2>2. status' = status /\ iteration' = iteration
    BY <2>1, TerminalSteps DEF outcome
  <2>3. used' = used /\ pc' \in {"record_stored", "closing"} \union Ended
    BY <2>1 DEF Next, Step, CreateRun, CreateBaseline, Initialize, ValidateGoal,
      BeginBaseline, EvaluateBaseline, RecordBaseline, CheckBudget, EnterContext,
      ContextReady, Propose, RecordProposal, CheckPolicy, RecordPolicy, RejectProposal,
      RecordRefusal, BeginExecution, RecordStart, ApplyEdits, RunCommand, RecordCommand,
      RollBack, BeginCheckpoint, Checkpoint, RecordCheckpoint, BeginEvaluation, Evaluate,
      CreateCandidate, RecordEvaluation, CompleteEvaluation, SelectTransition,
      RecordDecision, Accept, Reject, BeginVerify, Verify, RefuseCompletion,
      AcceptCompletion, SetCompleted, DeclareCompletion, RecordCompletion, StoreManifest,
      RecordManifest, RecordStored, Cancel, DeclareCancelled, InvalidTransition,
      Requesting, Close, Fail, Crash, Over, Goto, vars, budget, Ended, BeforeTry
  <2> QED
    BY <2>1, <2>2, <2>3
<1>2. CASE manifest # "recorded"
  <2>1. CASE \/ CreateRun \/ CreateBaseline \/ Initialize \/ ValidateGoal \/ BeginBaseline
             \/ EvaluateBaseline \/ RecordBaseline \/ CheckBudget \/ EnterContext
             \/ ContextReady \/ Propose \/ RecordProposal \/ CheckPolicy \/ RecordPolicy
             \/ RejectProposal \/ RecordRefusal \/ BeginExecution \/ RecordStart
             \/ ApplyEdits \/ RunCommand \/ RecordCommand \/ RollBack \/ BeginCheckpoint
             \/ Checkpoint \/ RecordCheckpoint \/ BeginEvaluation \/ Evaluate
    BY <1>2, <2>1 DEF CreateRun, CreateBaseline, Initialize, ValidateGoal, BeginBaseline,
      EvaluateBaseline, RecordBaseline, CheckBudget, EnterContext, ContextReady, Propose,
      RecordProposal, CheckPolicy, RecordPolicy, RejectProposal, RecordRefusal,
      BeginExecution, RecordStart, ApplyEdits, RunCommand, RecordCommand, RollBack,
      BeginCheckpoint, Checkpoint, RecordCheckpoint, BeginEvaluation, Evaluate, Raise, db
  <2>2. CASE \/ CreateCandidate \/ RecordEvaluation \/ CompleteEvaluation
             \/ SelectTransition \/ RecordDecision \/ Accept \/ Reject \/ BeginVerify
             \/ Verify \/ RefuseCompletion \/ AcceptCompletion \/ SetCompleted
             \/ DeclareCompletion \/ RecordCompletion \/ StoreManifest \/ RecordStored
             \/ Cancel \/ DeclareCancelled \/ InvalidTransition \/ Close
    BY <1>2, <2>2 DEF CreateCandidate, RecordEvaluation, CompleteEvaluation,
      SelectTransition, RecordDecision, Accept, Reject, BeginVerify, Verify,
      RefuseCompletion, AcceptCompletion, SetCompleted, DeclareCompletion,
      RecordCompletion, StoreManifest, RecordStored, Cancel, DeclareCancelled,
      InvalidTransition, Close, Raise, db
  <2>3. CASE Fail \/ Crash \/ Over \/ UNCHANGED vars
    BY <1>2, <2>3 DEF Fail, Crash, Over, vars, db
  <2>4. CASE RecordManifest
    BY <2>4 DEF RecordManifest, Goto, OutcomeInv, Declared, PaceInv, InTurn, ControlPoints,
      Baseline, Ended, runVars, budget
  <2> QED
    BY <2>1, <2>2, <2>3, <2>4 DEF Next, Step
<1> QED
  BY <1>1, <1>2

LEMMA LastTurnInvStep ==
  ASSUME TypeInv, TypeInv', JudgingInv, OutcomeInv, LedgerInv, PaceInv, LastTurnInv, [Next]_vars
  PROVE  LastTurnInv'
<1>1. Number(log', "COMPLETION_DECLARED") # 0 => status' = "COMPLETED"
  <2>1. CASE status = "COMPLETED"
    BY <2>1, TerminalSteps DEF outcome
  <2>2. CASE status # "COMPLETED"
    <3>1. pc # "record_completion"
      BY <2>2 DEF OutcomeInv, Declared
    <3> QED
      BY <2>2, <3>1, CountStep DEF LastTurnInv
  <2> QED
    BY <2>1, <2>2
<1> QED
  BY <1>1, LoggedStep, CompletedStep, ManifestStep DEF LastTurnInv

-----------------------------------------------------------------------------
(* What the reports say. *)

ReportIInv == OutcomeIInv /\ MatchInv /\ LedgerInv /\ PaceInv /\ BudgetIsRespected /\ CountInv /\ LastTurnInv

LEMMA ReportInvInit ==
  ASSUME Init
  PROVE  CountInv /\ LastTurnInv
<1>1. log = <<>> /\ DOMAIN log = {} /\ rows = <<>> /\ Len(rows) = 0 /\ pc = "start"
  BY EmptySeq DEF Init
<1>2. \A type : Number(log, type) = 0
  <2>1. ASSUME NEW type PROVE {i \in DOMAIN log : log[i].type = type} = {}
    BY <1>1
  <2> QED
    BY <2>1, FS_EmptySet DEF Number
<1>3. ScoredRows = {} /\ 2 .. Len(rows) = {}
  BY <1>1 DEF ScoredRows
<1>4. Cardinality(ScoredRows) = 0 /\ Cardinality(2 .. Len(rows)) = 0
  BY <1>3, FS_EmptySet
<1>5. CountInv
  BY <1>1, <1>2, <1>4 DEF CountInv, Checkpointed, CutShort
<1>6. LastTurnInv
  BY <1>1, <1>2 DEF Init, LastTurnInv, InTurn, Baseline
<1> QED
  BY <1>5, <1>6

LEMMA ReportInvariant == Spec => []ReportIInv
<1>1. Init => CountInv /\ LastTurnInv
  BY ReportInvInit
<1>2. /\ OutcomeIInv /\ MatchInv /\ LedgerInv /\ PaceInv /\ OutcomeIInv'
      /\ CountInv /\ LastTurnInv /\ [Next]_vars
      => CountInv' /\ LastTurnInv'
  BY CountInvStep, LastTurnInvStep DEF OutcomeIInv, LineageIInv
<1>3. /\ OutcomeIInv /\ MatchInv /\ LedgerInv /\ PaceInv /\ BudgetIsRespected /\ CountInv /\ LastTurnInv
      => ReportIInv
  BY DEF ReportIInv
<1> QED
  BY <1>1, <1>2, <1>3, LedgerInvariant, PaceInvariant, BudgetsHold, PTL DEF Spec

\* The rows that readers load have the types and the iterations of the events.
LEMMA RowsOfEvents ==
  ASSUME TypeInv
  PROVE  /\ \A type : Number(LoadRunData.events, type) = Number(log, type)
         /\ LastIteration(LoadRunData.events) = LastIteration(log)
<1>1. DOMAIN log = 1 .. Len(log) /\ \A i \in DOMAIN log : log[i] \in Event
  BY LenProperties, ElementOfSeq DEF TypeInv, TypeOK, MachineTypes
<1>2. ASSUME NEW e \in Event PROVE EventRow(e).type = e.type /\ EventRow(e).iteration = e.iteration
  BY DEF EventRow, Event
<1>3. PICK events : events = LoadRunData.events
  OBVIOUS
<1>4. /\ DOMAIN events = DOMAIN log
      /\ \A i \in DOMAIN log : events[i].type = log[i].type /\ events[i].iteration = log[i].iteration
  <2>1. events = [i \in DOMAIN log |-> EventRow(log[i])]
    BY <1>3 DEF LoadRunData
  <2> QED
    BY <1>1, <1>2, <2>1
<1>5. ASSUME NEW type PROVE Number(events, type) = Number(log, type)
  <2>1. {i \in DOMAIN events : events[i].type = type} = {i \in DOMAIN log : log[i].type = type}
    BY <1>4
  <2> QED
    BY <2>1 DEF Number
<1>6. LastIteration(events) = LastIteration(log)
  <2>1. {events[i].iteration : i \in DOMAIN events} = {log[i].iteration : i \in DOMAIN log}
    BY <1>4
  <2> QED
    BY <2>1 DEF LastIteration
<1> QED
  BY <1>3, <1>5, <1>6

\* The largest number of a set is its maximum.
LEMMA MaxIsLargest ==
  ASSUME NEW S, NEW m \in S, \A n \in S : n \in Nat /\ n <= m
  PROVE  Max(S) = m
<1>1. \E x \in S : \A y \in S : x >= y
  OBVIOUS
<1>2. Max(S) \in S /\ \A y \in S : Max(S) >= y
  BY <1>1 DEF Max
<1> QED
  BY <1>2

\* Of a completed run, the last iteration of the events is that of the run.
LEMMA LastIterationOfCompleted ==
  ASSUME TypeInv, LastTurnInv, status = "COMPLETED"
  PROVE  LastIteration(log) = iteration
<1> DEFINE S == {0} \union {log[i].iteration : i \in DOMAIN log}
<1>1. iteration \in Nat /\ iteration \in S /\ \A n \in S : n <= iteration
  <2>1. iteration \in Nat
    BY DEF TypeInv, TypeOK, TurnTypes
  <2> QED
    BY <2>1 DEF LastTurnInv, LogUpTo, TurnIsLogged
<1>2. \A n \in S : n \in Nat
  <2>1. DOMAIN log = 1 .. Len(log) /\ \A i \in DOMAIN log : log[i] \in Event
    BY LenProperties, ElementOfSeq DEF TypeInv, TypeOK, MachineTypes
  <2> QED
    BY <2>1 DEF Event
<1> HIDE DEF S
<1>3. Max(S) = iteration
  BY <1>1, <1>2, MaxIsLargest
<1> QED
  BY <1>3 DEF LastIteration, S

\* Whatever the run does and wherever it ends, the counts of the summary and of
\* the report are those of the tables, but for the one evaluation or checkpoint
\* that a crash or an exception may catch between its row and its event; between
\* turns and of a run that returned they are the same, and the budget that the
\* events give is the one of the manifest (run_report.py:53-57,
\* run_summary.py:41-66, controller.py:508-554).
THEOREM ReportsCountTables == Spec => []CountsMatchTables
<1>1. ASSUME ReportIInv PROVE CountsMatchTables
  <2>1. TypeInv
    BY <1>1 DEF ReportIInv, OutcomeIInv, LineageIInv
  <2>2. PICK run : run = LoadRunData
    OBVIOUS
  <2>3. /\ Summary(run.events).model_calls = Number(run.events, "MODEL_CALL")
        /\ Summary(run.events).evaluator_failures = Number(run.events, "EVALUATION_COMPLETED")
    BY DEF Summary
  <2>4. Report(run).checkpoints = Number(run.events, "CHECKPOINT_CREATED")
    BY DEF Report
  <2>5. Number(log, "MODEL_CALL") = calls
    BY <1>1 DEF ReportIInv, BudgetIsRespected, Number
  <2>6. /\ Cardinality({i \in 2 .. Len(rows) : rows[i].vec # NoVector})
              \in {Number(log, "EVALUATION_COMPLETED"), Number(log, "EVALUATION_COMPLETED") + 1}
        /\ Number(log, "CHECKPOINT_CREATED") \in {Cardinality(2 .. Len(rows)), Cardinality(2 .. Len(rows)) + 1}
        /\ pc \in {"loop", "returned"} =>
             /\ Cardinality({i \in 2 .. Len(rows) : rows[i].vec # NoVector}) = Number(log, "EVALUATION_COMPLETED")
             /\ Number(log, "CHECKPOINT_CREATED") = Cardinality(2 .. Len(rows))
    BY <1>1 DEF ReportIInv, CountInv, ScoredRows, Checkpointed, CutShort
  <2>7. ASSUME run.manifest # {} PROVE Report(run).budget = BudgetFromEvents(run.events)
    <3>1. manifest = "recorded" /\ run.manifest = {BudgetUsage}
      BY <2>2, <2>7 DEF LoadRunData, LoadManifest
    <3>2. LastIteration(log) = used
      BY <1>1, <2>1, <3>1, LastIterationOfCompleted DEF ReportIInv, LastTurnInv
    <3>3. BudgetFromEvents(run.events) = BudgetUsage
      BY <2>1, <2>2, <2>5, <3>2, RowsOfEvents DEF BudgetFromEvents, BudgetUsage
    <3>4. (CHOOSE b \in run.manifest : TRUE) = BudgetUsage
      BY <3>1
    <3>5. Report(run).budget = CHOOSE b \in run.manifest : TRUE
      BY <2>7 DEF Report
    <3> QED
      BY <3>3, <3>4, <3>5
  <2> QED
    BY <2>1, <2>2, <2>3, <2>4, <2>5, <2>6, <2>7, RowsOfEvents DEF CountsMatchTables
<1> QED
  BY <1>1, ReportInvariant, PTL

\* The metrics of one run, as an experiment's.
LEMMA ExperimentOfOne ==
  ASSUME NEW m
  PROVE  /\ ~(m.false_completion) => ExperimentMetrics(<<m>>).false_completion_count = 0
         /\ m.declared_complete /\ m.verified_complete =>
              ExperimentMetrics(<<m>>).verified_completion_precision = <<1, 1>>
<1>1. DOMAIN <<m>> = {1} /\ <<m>>[1] = m
  OBVIOUS
<1>2. Cardinality({}) = 0 /\ Cardinality({1}) = 1
  BY FS_EmptySet, FS_Singleton
<1>3. ~(m.false_completion) => {i \in DOMAIN <<m>> : <<m>>[i].false_completion} = {}
  BY <1>1
<1>4. m.declared_complete /\ m.verified_complete =>
        /\ {i \in DOMAIN <<m>> : <<m>>[i].declared_complete} = {1}
        /\ {i \in DOMAIN <<m>> : <<m>>[i].declared_complete /\ <<m>>[i].verified_complete} = {1}
  BY <1>1
<1> QED
  BY <1>2, <1>3, <1>4 DEF ExperimentMetrics, SafeRate

\* The evaluation shown of a run whose last candidate is scored is that
\* candidate's, if no other evaluation is of its second or of a later one.
LEMMA LastIsFinal ==
  ASSUME TypeInv, rows # <<>>, rows[Len(rows)].vec # NoVector, NEW time \in Clocks,
         \A i \in 1 .. Len(rows) - 1 : time[i] < time[Len(rows)]
  PROVE  FinalEvaluations(Evaluations, time) = {rows[Len(rows)].vec}
<1>1. DOMAIN rows = 1 .. Len(rows) /\ Len(rows) \in Nat /\ Len(rows) \in DOMAIN rows
  BY LenProperties, EmptySeq DEF TypeInv, TypeOK, StoreTypes
<1>2. PICK E : E = Evaluations
  OBVIOUS
<1>3. /\ DOMAIN E \subseteq 1 .. Len(rows) /\ Len(rows) \in DOMAIN E
      /\ E[Len(rows)] = rows[Len(rows)].vec
  BY <1>1, <1>2 DEF Evaluations
<1>4. \A n \in 1 .. Len(rows) : time[n] \in Nat
  BY <1>1 DEF Clocks
<1>5. ASSUME NEW n \in DOMAIN E PROVE n = Len(rows) \/ time[n] < time[Len(rows)]
  BY <1>1, <1>3
<1>6. {n \in DOMAIN E : \A m \in DOMAIN E : time[m] <= time[n]} = {Len(rows)}
  <2>1. ASSUME NEW n \in DOMAIN E, \A m \in DOMAIN E : time[m] <= time[n] PROVE n = Len(rows)
    <3>1. time[Len(rows)] <= time[n] /\ time[n] \in Nat /\ time[Len(rows)] \in Nat
      BY <1>1, <1>3, <1>4, <2>1
    <3> QED
      BY <1>5, <3>1
  <2>2. ASSUME NEW m \in DOMAIN E PROVE time[m] <= time[Len(rows)]
    <3>1. time[m] \in Nat /\ time[Len(rows)] \in Nat
      BY <1>1, <1>3, <1>4
    <3> QED
      BY <1>5, <3>1
  <2> QED
    BY <1>3, <2>1, <2>2
<1>7. FinalEvaluations(E, time) = {E[Len(rows)]}
  BY <1>6 DEF FinalEvaluations
<1> QED
  BY <1>2, <1>3, <1>7

\* COMPLETION_DECLARED is recorded, reported and counted only of a verified run:
\* the false completions that an experiment looks for are none.  The metrics end
\* on the vector of its last candidate, and so does the report if the database
\* gave that evaluation a later second than all others (metrics.py:28-41, 75-80,
\* run_report.py:40-70, cli/_common.py:105).
THEOREM CompletionsAreVerified == Spec => []ReportedCompletionIsVerified
<1>1. ASSUME ReportIInv PROVE ReportedCompletionIsVerified
  <2>0. TypeInv /\ LastTurnInv /\ CompletedIsVerified /\ log \in Seq(Event)
    BY <1>1 DEF ReportIInv, OutcomeIInv, OutcomeInv, LineageIInv, TypeInv, TypeOK, MachineTypes
  <2>1. PICK m : m = Metrics(LoadSnapshots)
    OBVIOUS
  <2>2. PICK report : report = Report(LoadRunData)
    OBVIOUS
  <2>3. m.verified_complete <=> status = "COMPLETED"
    BY <2>1 DEF Metrics, LoadSnapshots
  <2>4. m.declared_complete <=> Number(log, "COMPLETION_DECLARED") > 0
    BY <2>1 DEF Metrics, LoadSnapshots
  <2>5. m.declared_complete => m.verified_complete
    BY <2>0, <2>3, <2>4, CountAppend DEF LastTurnInv
  <2>6. ~(m.false_completion)
    <3>1. m.false_completion <=> m.declared_complete /\ ~(m.verified_complete)
      BY <2>1 DEF Metrics
    <3> QED
      BY <2>5, <3>1
  <2>7. ASSUME m.verified_complete
        PROVE  /\ IsAcceptable(m.final_evaluation) /\ m.hidden_tests_passed
               /\ report.iterations = rows[Len(rows)].iteration
               /\ \A time \in Clocks :
                    (\A i \in 1 .. Len(rows) - 1 : time[i] < time[Len(rows)]) =>
                      FinalEvaluations(Evaluations, time) = {m.final_evaluation}
    <3>1. status = "COMPLETED" /\ rows # <<>> /\ rows[Len(rows)].vec # NoVector
      BY <2>0, <2>3, <2>7 DEF LastTurnInv
    <3>2. IsAcceptable(rows[Len(rows)].vec) /\ rows[Len(rows)].iteration = iteration
      BY <2>0, <3>1 DEF CompletedIsVerified
    <3>3. m.final_evaluation = rows[Len(rows)].vec
      BY <2>1, <3>1 DEF Metrics, LoadSnapshots
    <3>4. m.hidden_tests_passed <=> m.verified_complete /\ ~(OrZero(rows[Len(rows)].vec.hidden_tests_failed) > 0)
      BY <2>1, <3>1 DEF Metrics, LoadSnapshots
    <3>5. OrZero(rows[Len(rows)].vec.hidden_tests_failed) = 0
      BY <3>2 DEF IsAcceptable
    <3>6. ASSUME NEW time \in Clocks, \A i \in 1 .. Len(rows) - 1 : time[i] < time[Len(rows)]
          PROVE  FinalEvaluations(Evaluations, time) = {rows[Len(rows)].vec}
      BY <2>0, <3>1, <3>6, LastIsFinal
    <3>7. report.iterations = iteration
      BY <2>0, <2>2, <3>1, RowsOfEvents, LastIterationOfCompleted DEF Report
    <3> QED
      BY <2>7, <3>2, <3>3, <3>4, <3>5, <3>6, <3>7
  <2>8. /\ ExperimentMetrics(<<m>>).false_completion_count = 0
        /\ m.declared_complete => ExperimentMetrics(<<m>>).verified_completion_precision = <<1, 1>>
    BY <2>5, <2>6, ExperimentOfOne
  <2>9. LoadRunData.evaluations = Evaluations
    BY DEF LoadRunData
  <2> QED
    BY <2>1, <2>2, <2>7, <2>8, <2>9 DEF ReportedCompletionIsVerified
<1> QED
  BY <1>1, ReportInvariant, PTL

-----------------------------------------------------------------------------
(* What the agent is told. *)

\* A rejection is of the turn in which a policy check or a refusal wrote it.
LEMMA RefusedStep ==
  ASSUME TypeInv, [Next]_vars, NEW r \in Rejections(log')
  PROVE  \/ r \in Rejections(log) /\ log'[r] = log[r]
         \/ /\ log'[r].iteration = iteration
            /\ \/ pc = "record_policy" /\ pc' = "reject_proposal"
               \/ pc = "record_refusal" /\ pc' = "loop"
<1>1. log \in Seq(Event)
  BY DEF TypeInv, TypeOK, MachineTypes
<1>2. ASSUME NEW e \in Event, ~IsRejection(e), log' = Append(log, e)
      PROVE  r \in Rejections(log) /\ log'[r] = log[r]
  <2>1. log'[r] # e
    BY <1>2 DEF Rejections
  <2> QED
    BY <1>1, <1>2, <2>1, RejectionAppend
<1>3. CASE Quiet
  BY <1>2, <1>3 DEF Quiet, Plain, Rejections
<1>4. ASSUME NEW type, NEW d, Telling(type, d)
      PROVE  \/ r \in Rejections(log) /\ log'[r] = log[r]
             \/ d = "REJECT" /\ log'[r].iteration = iteration
  <2>1. PICK e \in Event : e.decision = d /\ e.iteration = iteration /\ log' = Append(log, e)
    BY <1>4 DEF Telling
  <2>2. CASE d = "REJECT"
    BY <1>1, <2>1, <2>2, RejectionAppend
  <2>3. CASE d # "REJECT"
    BY <1>2, <2>1, <2>3 DEF IsRejection
  <2> QED
    BY <2>2, <2>3
<1> QED
  BY <1>3, <1>4, AccountStep DEF AccountSteps

\* A call waits for the next evaluation.
LEMMA WaitingStep ==
  ASSUME TypeInv, [Next]_vars
  PROVE  /\ Cardinality(Waiting(log)) \in Nat
         /\ CompleteEvaluation => Waiting(log') = {}
         /\ pc = "propose" /\ pc' = "record_proposal" =>
              Cardinality(Waiting(log')) = Cardinality(Waiting(log)) + 1
         /\ ~CompleteEvaluation /\ ~(pc = "propose" /\ pc' = "record_proposal") =>
              Waiting(log') = Waiting(log)
<1>1. log \in Seq(Event) /\ Cardinality(Waiting(log)) \in Nat
  BY WaitingAppend DEF TypeInv, TypeOK, MachineTypes
<1>2. CASE Quiet
  BY <1>1, <1>2, WaitingAppend DEF Quiet, Plain
<1>3. ASSUME NEW type, NEW d, Telling(type, d)
      PROVE  /\ type = "EVALUATION_COMPLETED" => Waiting(log') = {}
             /\ type = "MODEL_CALL" => Cardinality(Waiting(log')) = Cardinality(Waiting(log)) + 1
             /\ type \notin {"EVALUATION_COMPLETED", "MODEL_CALL"} => Waiting(log') = Waiting(log)
  BY <1>1, <1>3, WaitingAppend DEF Telling
<1>4. CASE CompleteEvaluation /\ Telling("EVALUATION_COMPLETED", "none")
  BY <1>1, <1>3, <1>4 DEF CompleteEvaluation
<1>5. CASE pc = "propose" /\ pc' = "record_proposal" /\ Telling("MODEL_CALL", "none")
  BY <1>1, <1>3, <1>5 DEF CompleteEvaluation
<1>6. CASE \/ RecordCheckpoint /\ Telling("CHECKPOINT_CREATED", "none")
           \/ pc = "record_policy" /\ pc' = "reject_proposal" /\ Telling("POLICY_CHECK", "REJECT")
           \/ pc = "record_refusal" /\ pc' = "loop" /\ Telling("TRANSITION_DECIDED", "REJECT")
           \/ pc = "record_completion" /\ pc' = "store_manifest" /\ Telling("COMPLETION_DECLARED", "none")
  <2>1. ~CompleteEvaluation /\ pc # "propose"
    BY <1>6 DEF CompleteEvaluation, RecordCheckpoint
  <2> QED
    BY <1>1, <1>3, <1>6, <2>1
<1> QED
  BY <1>2, <1>4, <1>5, <1>6, AccountStep DEF AccountSteps

\* A verdict puts the candidate of this turn, with its vector, into the history.
LEMMA LocalIsScored ==
  ASSUME TypeInv, LedgerInv, pc \in Assessed, NEW s \in CandidateStatus
  PROVE  Local(s) \in Candidate /\ Local(s).iteration = iteration /\ Local(s).vec # NoVector
<1>1. pc \in Registered /\ pc \notin BeforeTry \union {"raised", "crashed"}
  BY DEF Assessed, Evaluated, Registered, BeforeTry
<1>2. Local(s).iteration = iteration /\ Local(s).vec = vector
  BY DEF Local
<1> QED
  BY <1>1, <1>2, LocalType DEF LedgerInv

\* A turn is started, goes on, or is followed by the next one.
TurnSteps ==
  \/ /\ pc = "record_baseline" /\ pc' = "loop" /\ iteration' = 1
     /\ UNCHANGED <<log, history>>
  \/ /\ UNCHANGED <<history, iteration>> /\ pc \in Turning
     /\ pc \in Refusing => pc' \in Refusing
     /\ \/ pc' = pc
        \/ pc \in Asking \union {"loop"} /\ pc' \in Asking
        \/ pc = "propose" /\ pc' = "record_proposal"
        \/ pc \in Answered /\ pc' \in Answered
        \/ pc' = "selecting" /\ CompleteEvaluation
        \/ pc \in Assessed /\ pc' \in Assessed
  \/ /\ pc \in {"record_refusal", "execution_failed"} /\ pc' = "loop"
     /\ history' = history /\ iteration' = iteration + 1
  \/ /\ pc \in {"accept", "reject", "refuse"} /\ pc' = "loop" /\ log' = log
     /\ iteration' = iteration + 1
     /\ \E s \in CandidateStatus : history' = Append(history, Local(s))

LEMMA TurnStep ==
  ASSUME TypeInv, [Next]_vars, pc' \in Turning
  PROVE  TurnSteps
<1>0. /\ Answered = {"record_proposal", "policy_check", "record_policy", "reject_proposal", "record_refusal",
                     "begin_execution", "record_start", "apply_edits", "run_command", "record_command",
                     "execution_failed", "begin_checkpoint", "checkpoint", "record_checkpoint",
                     "begin_evaluation", "evaluate", "create_candidate", "record_evaluation",
                     "evaluation_completed"}
      /\ Turning = Answered \union Asking \union (Assessed \ {"set_completed"}) \union {"loop"}
  BY DEF Answered, Turning, InTurn, Declared, ControlPoints, Requesting, Baseline, Ended, Asking, Assessed,
    Evaluated, Registered
<1>1. CASE RecordBaseline
  BY <1>1 DEF RecordBaseline, TurnSteps, Goto, machine
<1>2. CASE CheckBudget \/ EnterContext \/ ContextReady \/ Propose
  BY <1>0, <1>2 DEF CheckBudget, EnterContext, ContextReady, Propose, TurnSteps, Goto,
    runVars, Asking, Assessed, Evaluated, Registered, Refusing
<1>3. CASE RecordRefusal \/ RollBack
  BY <1>0, <1>3 DEF RecordRefusal, RollBack, RestoreFails, TurnSteps, Goto, Asking,
    Assessed, Evaluated, Registered
<1>4. CASE \/ RecordProposal \/ CheckPolicy \/ RecordPolicy \/ RejectProposal
           \/ BeginExecution \/ RecordStart \/ ApplyEdits \/ RunCommand \/ RecordCommand
           \/ BeginCheckpoint \/ Checkpoint \/ RecordCheckpoint \/ BeginEvaluation
           \/ Evaluate \/ CreateCandidate \/ RecordEvaluation
  <2>1. UNCHANGED <<history, iteration>>
    BY <1>4 DEF RecordProposal, CheckPolicy, RecordPolicy, RejectProposal, BeginExecution,
      RecordStart, ApplyEdits, RunCommand, RecordCommand, BeginCheckpoint, Checkpoint,
      RecordCheckpoint, BeginEvaluation, Evaluate, CreateCandidate, RecordEvaluation, runVars
  <2>2. /\ pc \in Answered /\ pc' \in Answered
        /\ pc \in Refusing => pc' \in Refusing
    BY <1>0, <1>4 DEF RecordProposal, CheckPolicy, RecordPolicy, RejectProposal,
      BeginExecution, RecordStart, ApplyEdits, RunCommand, RecordCommand, BeginCheckpoint,
      Checkpoint, RecordCheckpoint, BeginEvaluation, Evaluate, CreateCandidate,
      RecordEvaluation, Goto, Refusing
  <2> QED
    BY <1>0, <2>1, <2>2 DEF TurnSteps
<1>5. CASE CompleteEvaluation
  BY <1>0, <1>5 DEF CompleteEvaluation, TurnSteps, Goto, runVars, Refusing
<1>6. CASE SelectTransition \/ RecordDecision \/ BeginVerify \/ Verify \/ AcceptCompletion
  BY <1>0, <1>6 DEF SelectTransition, RecordDecision, BeginVerify, Verify,
    AcceptCompletion, TurnSteps, Goto, runVars, Asking, Assessed, Evaluated, Registered, Refusing
<1>7. CASE Accept \/ Reject \/ RefuseCompletion
  <2>1. pc' # "closing"
    BY <1>0 DEF Asking, Assessed, Evaluated, Registered
  <2> QED
    BY <1>7, <2>1 DEF Accept, Reject, RefuseCompletion, RestoreFails, Judge, TurnSteps, Goto, machine,
      CandidateStatus
<1>8. CASE \/ CreateRun \/ CreateBaseline \/ Initialize \/ ValidateGoal \/ BeginBaseline
           \/ EvaluateBaseline \/ SetCompleted \/ DeclareCompletion \/ RecordCompletion
           \/ StoreManifest \/ RecordManifest \/ RecordStored \/ Cancel
           \/ DeclareCancelled \/ InvalidTransition \/ Close \/ Fail \/ Crash
  <2>1. pc' \notin Turning
    BY <1>0, <1>8 DEF CreateRun, CreateBaseline, Initialize, ValidateGoal, BeginBaseline,
      EvaluateBaseline, SetCompleted, DeclareCompletion, RecordCompletion, StoreManifest,
      RecordManifest, RecordStored, Cancel, DeclareCancelled, InvalidTransition, Close,
      Fail, Crash, Goto, Raise, Asking, Assessed, Evaluated, Registered
  <2> QED
    BY <2>1
<1>9. CASE Over \/ UNCHANGED vars
  BY <1>9 DEF Over, vars, runVars, TurnSteps
<1> QED
  BY <1>1, <1>2, <1>3, <1>4, <1>5, <1>6, <1>7, <1>8, <1>9 DEF Next, Step

\* Before the loop the log holds moves only, and the history the baseline.
LEMMA BeforeTheLoop ==
  ASSUME TypeInv, EarlierInv, pc \in Baseline
  PROVE  Rejections(log) = {} /\ Waiting(log) = {}
BY DEF EarlierInv, Rejections, Waiting, IsRejection

\* The vector of the baseline is put into the history.
LEMMA BaselineIsScored ==
  ASSUME TypeInv, EarlierInv, pc = "evaluate_baseline", NEW v \in Vectors,
         history' = [history EXCEPT ![1].vec = v]
  PROVE  Len(history') = 1 /\ history'[1].iteration = 0 /\ history'[1].vec # NoVector
<1>1. history \in Seq(Candidate) /\ Len(history) = 1 /\ history[1].iteration = 0 /\ 1 \in 1 .. Len(history)
  <2>1. Len(history) = 1 /\ history[1].iteration = 0
    BY DEF EarlierInv, Baseline, BeforeTry
  <2> QED
    BY <2>1 DEF TypeInv, TypeOK, StoreTypes
<1>2. Len(history') = 1 /\ history'[1] = [history[1] EXCEPT !.vec = v]
  BY <1>1, VectorUpdate
<1>3. history[1] \in Candidate
  BY <1>1, ElementOfSeq
<1>4. history'[1].iteration = 0 /\ history'[1].vec = v
  BY <1>1, <1>2, <1>3 DEF Candidate
<1>5. v # NoVector
  BY ControllerAssumption, NoVectorAssumption
<1> QED
  BY <1>2, <1>4, <1>5

LEMMA BaselineStep ==
  ASSUME TypeInv, EarlierInv, [Next]_vars, pc' \in Baseline
  PROVE  /\ \A i \in DOMAIN log' : log'[i].type = "STATE_TRANSITION"
         /\ pc' \in Baseline \ BeforeTry => Len(history') = 1 /\ history'[1].iteration = 0
         /\ pc' = "record_baseline" => history'[1].vec # NoVector
<1> USE DEF BeforeTry
<1>1. log \in Seq(Event) /\ DOMAIN log = 1 .. Len(log) /\ Len(log) \in Nat
  BY LenProperties DEF TypeInv, TypeOK, MachineTypes
<1>2. CASE CreateRun \/ CreateBaseline \/ ValidateGoal \/ Over \/ UNCHANGED vars
  BY <1>2 DEF CreateRun, CreateBaseline, ValidateGoal, Over, vars, Goto, Raise, machine, runVars, EarlierInv, Baseline
<1>3. CASE Initialize \/ BeginBaseline
  <2>1. /\ log' = Append(log, Moved(0)) /\ pc \in Baseline \ BeforeTry /\ history' = history
        /\ pc' # "record_baseline"
    BY <1>3 DEF Initialize, BeginBaseline, Transition, Goto, Baseline, runVars
  <2>2. /\ DOMAIN log' = 1 .. Len(log) + 1 /\ log'[Len(log) + 1] = Moved(0)
        /\ \A i \in 1 .. Len(log) : log'[i] = log[i]
    BY <1>1, <2>1, AppendProperties, LenProperties
  <2>3. Moved(0).type = "STATE_TRANSITION"
    BY DEF Moved
  <2> QED
    BY <1>1, <2>1, <2>2, <2>3 DEF EarlierInv
<1>4. CASE EvaluateBaseline
  <2>1. PICK v \in Vectors : history' = [history EXCEPT ![1].vec = v]
    BY <1>4 DEF EvaluateBaseline
  <2>2. log' = log /\ pc \in Baseline
    BY <1>4 DEF EvaluateBaseline, machine, Baseline
  <2>3. Len(history') = 1 /\ history'[1].iteration = 0 /\ history'[1].vec # NoVector
    BY <1>4, <2>1, BaselineIsScored DEF EvaluateBaseline
  <2> QED
    BY <2>2, <2>3 DEF EarlierInv
<1>5. CASE ~(\/ CreateRun \/ CreateBaseline \/ ValidateGoal \/ Initialize \/ BeginBaseline
             \/ EvaluateBaseline \/ Over \/ UNCHANGED vars)
  <2>1. pc' \notin Baseline
    BY <1>5 DEF Next, Step, RecordBaseline, CheckBudget, EnterContext,
      ContextReady, Propose, RecordProposal, CheckPolicy, RecordPolicy, RejectProposal,
      RecordRefusal, BeginExecution, RecordStart, ApplyEdits, RunCommand, RecordCommand,
      RollBack, RestoreFails, BeginCheckpoint, Checkpoint, RecordCheckpoint,
      BeginEvaluation, Evaluate, CreateCandidate, RecordEvaluation, CompleteEvaluation,
      SelectTransition, RecordDecision, Accept, Reject, BeginVerify, Verify,
      RefuseCompletion, AcceptCompletion, SetCompleted, DeclareCompletion,
      RecordCompletion, StoreManifest, RecordManifest, RecordStored, Cancel,
      DeclareCancelled, InvalidTransition, Close, Fail, Crash, Goto, Raise, Baseline
  <2> QED
    BY <2>1
<1> QED
  BY <1>2, <1>3, <1>4, <1>5

\* The places of a turn, apart.
LEMMA TurningPlaces ==
  /\ Asking \union Answered \union {"loop"} \subseteq Turning
  /\ Turning = Asking \union Answered \union (Assessed \ {"set_completed"}) \union {"loop"}
  /\ Answered \intersect (Asking \union Assessed \union {"loop"}) = {}
  /\ Assessed \intersect (Asking \union {"loop"}) = {} /\ "loop" \notin Asking
  /\ {"record_proposal", "record_policy", "reject_proposal", "record_refusal",
       "execution_failed", "evaluation_completed"} \subseteq Answered
  /\ {"accept", "reject", "refuse"} \subseteq Assessed \intersect Turning
  /\ "propose" \in Asking /\ "selecting" \in Assessed
  /\ "record_baseline" \in Baseline \ BeforeTry
  /\ Refusing \subseteq Answered /\ {"loop", "record_policy", "accept", "reject", "refuse"} \intersect Refusing = {}
BY DEF Answered, Turning, InTurn, Declared, ControlPoints, Requesting, Baseline, Ended, Asking, Assessed,
  Evaluated, Registered, Refusing, BeforeTry

LEMMA EarlierInvStep ==
  ASSUME TypeInv, JudgingInv, LedgerInv, EarlierInv, [Next]_vars
  PROVE  EarlierInv'
<1>1. pc' \in Turning => TurnSteps
  BY TurnStep
<1>2. iteration \in Nat /\ history \in Seq(Candidate) /\ DOMAIN history = 1 .. Len(history) /\ Len(history) \in Nat
  BY LenProperties DEF TypeInv, TypeOK, TurnTypes, StoreTypes
<1>3. ASSUME NEW r \in Rejections(log) PROVE log[r].iteration \in Nat
  <2>1. r \in 1 .. Len(log) /\ log \in Seq(Event)
    BY LenProperties DEF Rejections, TypeInv, TypeOK, MachineTypes
  <2>2. log[r] \in Event
    BY <2>1, ElementOfSeq
  <2> QED
    BY <2>2 DEF Event
<1>4. ASSUME pc' \in Turning, NEW i \in DOMAIN history'
      PROVE  history'[i].vec # NoVector /\ history'[i].iteration < iteration'
  <2>1. CASE /\ pc = "record_baseline" /\ pc' = "loop" /\ iteration' = 1
             /\ UNCHANGED <<log, history>>
    <3>1. Len(history) = 1 /\ history[1].iteration = 0 /\ history[1].vec # NoVector
      BY <2>1, TurningPlaces DEF EarlierInv
    <3>2. i = 1
      BY <1>2, <1>4, <2>1, <3>1
    <3> QED
      BY <2>1, <3>1, <3>2
  <2>2. CASE history' = history /\ iteration' \in {iteration, iteration + 1} /\ pc \in Turning
    <3>1. history[i].vec # NoVector /\ history[i].iteration < iteration
      BY <1>4, <2>2 DEF EarlierInv
    <3>2. history[i] \in Candidate
      BY <1>2, <1>4, <2>2, ElementOfSeq
    <3> QED
      BY <1>2, <2>2, <3>1, <3>2 DEF Candidate
  <2>3. CASE /\ pc \in {"accept", "reject", "refuse"} /\ iteration' = iteration + 1
             /\ \E s \in CandidateStatus : history' = Append(history, Local(s))
    <3>1. PICK s \in CandidateStatus : history' = Append(history, Local(s))
      BY <2>3
    <3>2. Local(s) \in Candidate /\ Local(s).iteration = iteration /\ Local(s).vec # NoVector
      BY <2>3, LocalIsScored, TurningPlaces
    <3>3. (i \in DOMAIN history /\ history'[i] = history[i]) \/ history'[i] = Local(s)
      BY <1>2, <1>4, <3>1, <3>2, AppendProperties, LenProperties
    <3>4. ASSUME i \in DOMAIN history
          PROVE  history[i].vec # NoVector /\ history[i].iteration < iteration /\ history[i].iteration \in Nat
      <4>1. history[i] \in Candidate
        BY <1>2, <3>4, ElementOfSeq
      <4> QED
        BY <2>3, <3>4, <4>1, TurningPlaces DEF EarlierInv, Candidate
    <3> QED
      BY <1>2, <2>3, <3>2, <3>3, <3>4
  <2>4. pc \in {"record_refusal", "execution_failed"} => pc \in Turning
    BY TurningPlaces
  <2> QED
    BY <1>1, <1>4, <2>1, <2>2, <2>3, <2>4 DEF TurnSteps
<1>5. ASSUME pc' \in Turning, NEW r \in Rejections(log')
      PROVE  /\ IF pc' \in Refusing THEN log'[r].iteration <= iteration'
                                    ELSE log'[r].iteration < iteration'
             /\ \A i \in DOMAIN history' : history'[i].iteration # log'[r].iteration
  <2>1. CASE pc = "record_baseline" /\ log' = log
    BY <1>5, <2>1, BeforeTheLoop, TurningPlaces
  <2>2. ASSUME pc \in Turning, NEW n \in Rejections(log)
        PROVE  /\ IF pc \in Refusing THEN log[n].iteration <= iteration ELSE log[n].iteration < iteration
               /\ \A i \in DOMAIN history : history[i].iteration # log[n].iteration
    BY <2>2 DEF EarlierInv
  <2>3. ASSUME pc \in Turning, NEW i \in DOMAIN history PROVE history[i].iteration < iteration
    BY <2>3 DEF EarlierInv
  <2>4. CASE UNCHANGED <<history, iteration>> /\ pc \in Turning /\ (pc \in Refusing => pc' \in Refusing)
    <3>1. CASE r \in Rejections(log) /\ log'[r] = log[r]
      BY <1>2, <1>3, <2>2, <2>4, <3>1
    <3>2. CASE log'[r].iteration = iteration /\ pc = "record_policy" /\ pc' = "reject_proposal"
      BY <1>2, <2>3, <2>4, <3>2 DEF Refusing
    <3>3. ~(pc = "record_refusal" /\ pc' = "loop")
      BY <2>4 DEF Refusing
    <3> QED
      BY <3>1, <3>2, <3>3, RefusedStep
  <2>5. CASE /\ pc \in {"record_refusal", "execution_failed"} /\ pc' = "loop"
             /\ history' = history /\ iteration' = iteration + 1
    <3>0. pc \in Turning
      BY <2>5, TurningPlaces
    <3>1. CASE r \in Rejections(log) /\ log'[r] = log[r]
      BY <1>2, <1>3, <2>2, <2>5, <3>0, <3>1, TurningPlaces
    <3>2. CASE log'[r].iteration = iteration
      BY <1>2, <2>3, <2>5, <3>0, <3>2, TurningPlaces
    <3> QED
      BY <3>1, <3>2, RefusedStep
  <2>6. CASE /\ pc \in {"accept", "reject", "refuse"} /\ pc' = "loop" /\ log' = log
             /\ iteration' = iteration + 1
             /\ \E s \in CandidateStatus : history' = Append(history, Local(s))
    <3>0. pc \in Turning /\ pc \in Assessed /\ pc \notin Refusing /\ pc' \notin Refusing
      BY <2>6, TurningPlaces
    <3>1. PICK s \in CandidateStatus : history' = Append(history, Local(s))
      BY <2>6
    <3>2. Local(s) \in Candidate /\ Local(s).iteration = iteration
      BY <3>0, LocalIsScored
    <3>3. log[r].iteration < iteration /\ log[r].iteration \in Nat
      BY <1>3, <1>5, <2>2, <2>6, <3>0
    <3>4. ASSUME NEW i \in DOMAIN history' PROVE history'[i].iteration # log[r].iteration
      <4>1. (i \in DOMAIN history /\ history'[i] = history[i]) \/ history'[i] = Local(s)
        BY <1>2, <3>1, <3>2, AppendProperties, LenProperties
      <4> QED
        BY <1>2, <1>5, <2>2, <2>6, <3>0, <3>2, <3>3, <4>1
    <3> QED
      BY <1>2, <2>6, <3>3, <3>4
  <2> QED
    BY <1>1, <1>5, <2>1, <2>4, <2>5, <2>6 DEF TurnSteps
<1>6. pc' \in Baseline => \A i \in DOMAIN log' : log'[i].type = "STATE_TRANSITION"
  BY BaselineStep
<1>7. /\ pc' \in Baseline \ BeforeTry => Len(history') = 1 /\ history'[1].iteration = 0
      /\ pc' = "record_baseline" => history'[1].vec # NoVector
  BY BaselineStep, TurningPlaces
<1> QED
  BY <1>4, <1>5, <1>6, <1>7 DEF EarlierInv

LEMMA LagInvStep ==
  ASSUME TypeInv, JudgingInv, LedgerInv, EarlierInv, LagInv, [Next]_vars
  PROVE  LagInv'
<1>1. pc' \in Turning => TurnSteps
  BY TurnStep
<1>2. /\ iteration \in Nat /\ history \in Seq(Candidate) /\ Len(history) \in Nat
      /\ TurnsWithoutCandidate = Waiting(log) /\ TurnsWithoutCandidate' = Waiting(log')
  BY LenProperties DEF TypeInv, TypeOK, TurnTypes, StoreTypes, TurnsWithoutCandidate, Waiting
<1>3. ASSUME pc \in Turning PROVE Newest.iteration \in Nat
  <2>1. Len(history) \in 1 .. Len(history)
    <3>1. pc \notin BeforeTry \union {"raised", "crashed"}
      BY <1>3 DEF Turning, InTurn, Baseline, Ended, BeforeTry
    <3> QED
      BY <1>2, <3>1, EmptySeq DEF TypeInv, ControlInv
  <2>2. Newest \in Candidate
    BY <1>2, <2>1, ElementOfSeq DEF Newest
  <2> QED
    BY <2>2 DEF Candidate
<1>4. Cardinality(Waiting(log)) \in Nat /\ Cardinality({}) = 0
  BY WaitingStep, FS_EmptySet
<1>5. CASE /\ pc = "record_baseline" /\ pc' = "loop" /\ iteration' = 1
           /\ UNCHANGED <<log, history>>
  <2>1. Newest'.iteration = 0
    BY <1>5, TurningPlaces DEF Newest, EarlierInv
  <2>2. Waiting(log') = {}
    BY <1>5, BeforeTheLoop, TurningPlaces
  <2> QED
    BY <1>2, <1>4, <1>5, <2>1, <2>2, TurningPlaces DEF LagInv
<1>6. CASE UNCHANGED <<history, iteration>> /\ pc \in Turning /\ CompleteEvaluation
  <2>1. pc' = "selecting" /\ Waiting(log') = {}
    BY <1>6, WaitingStep DEF CompleteEvaluation, Goto
  <2> QED
    BY <1>2, <2>1, TurningPlaces DEF LagInv
<1>7. CASE UNCHANGED <<history, iteration>> /\ pc = "propose" /\ pc' = "record_proposal"
  <2>1. Cardinality(Waiting(log')) = Cardinality(Waiting(log)) + 1
    BY <1>7, WaitingStep
  <2>2. iteration = Newest.iteration + 1 + Cardinality(Waiting(log)) /\ Newest' = Newest
    BY <1>2, <1>7, TurningPlaces DEF LagInv, Newest
  <2>3. iteration' = Newest'.iteration + Cardinality(Waiting(log'))
    BY <1>2, <1>3, <1>4, <1>7, <2>1, <2>2, TurningPlaces
  <2> QED
    BY <1>2, <1>7, <2>3, TurningPlaces DEF LagInv
<1>8. CASE /\ UNCHANGED <<history, iteration>> /\ pc \in Turning
           /\ ~CompleteEvaluation /\ ~(pc = "propose" /\ pc' = "record_proposal")
           /\ \/ pc' = pc
              \/ pc \in Asking \union {"loop"} /\ pc' \in Asking
              \/ pc \in Answered /\ pc' \in Answered
              \/ pc \in Assessed /\ pc' \in Assessed
  <2>1. Waiting(log') = Waiting(log) /\ Newest' = Newest
    BY <1>8, WaitingStep DEF Newest
  <2> QED
    BY <1>2, <1>8, <2>1, TurningPlaces DEF LagInv
<1>9. CASE /\ pc \in {"record_refusal", "execution_failed"} /\ pc' = "loop"
           /\ history' = history /\ iteration' = iteration + 1
  <2>1. Waiting(log') = Waiting(log) /\ Newest' = Newest
    BY <1>9, WaitingStep DEF Newest, CompleteEvaluation
  <2>2. iteration = Newest.iteration + Cardinality(Waiting(log))
    BY <1>2, <1>9, TurningPlaces DEF LagInv
  <2>3. iteration' = Newest'.iteration + 1 + Cardinality(Waiting(log'))
    BY <1>2, <1>3, <1>4, <1>9, <2>1, <2>2, TurningPlaces
  <2> QED
    BY <1>2, <1>9, <2>3, TurningPlaces DEF LagInv
<1>10. CASE /\ pc \in {"accept", "reject", "refuse"} /\ pc' = "loop" /\ log' = log
            /\ iteration' = iteration + 1
            /\ \E s \in CandidateStatus : history' = Append(history, Local(s))
  <2>1. PICK s \in CandidateStatus : history' = Append(history, Local(s))
    BY <1>10
  <2>2. Local(s) \in Candidate /\ Local(s).iteration = iteration
    BY <1>10, LocalIsScored, TurningPlaces
  <2>3. Newest' = Local(s)
    BY <1>2, <2>1, <2>2, AppendProperties DEF Newest
  <2>4. Waiting(log') = {}
    BY <1>2, <1>10, TurningPlaces DEF LagInv
  <2>5. iteration' = Newest'.iteration + 1 + Cardinality(Waiting(log'))
    BY <1>2, <1>4, <1>10, <2>2, <2>3, <2>4
  <2> QED
    BY <1>2, <1>10, <2>5, TurningPlaces DEF LagInv
<1>11. CASE pc' \notin Turning
  BY <1>11, TurningPlaces DEF LagInv
<1> QED
  BY <1>1, <1>5, <1>6, <1>7, <1>8, <1>9, <1>10, <1>11, TurningPlaces DEF TurnSteps

ContextIInv == OutcomeIInv /\ MatchInv /\ LedgerInv /\ EarlierInv /\ LagInv

LEMMA ContextInvariant == Spec => []ContextIInv
<1>1. Init => EarlierInv /\ LagInv
  <2>1. ASSUME Init PROVE EarlierInv /\ LagInv
    <3>1. pc = "start" /\ DOMAIN log = {}
      BY <2>1, EmptySeq DEF Init
    <3>2. "start" \notin Turning /\ "start" \notin Asking
      BY DEF Turning, InTurn, Baseline, Asking
    <3>3. pc \in BeforeTry
      BY <3>1 DEF BeforeTry
    <3> QED
      BY <3>1, <3>2, <3>3, TurningPlaces DEF EarlierInv, LagInv
  <2> QED
    BY <2>1
<1>2. /\ OutcomeIInv /\ MatchInv /\ LedgerInv /\ EarlierInv /\ LagInv /\ [Next]_vars
      => EarlierInv' /\ LagInv'
  BY EarlierInvStep, LagInvStep DEF OutcomeIInv, LineageIInv
<1>3. OutcomeIInv /\ MatchInv /\ LedgerInv /\ EarlierInv /\ LagInv => ContextIInv
  BY DEF ContextIInv
<1> QED
  BY <1>1, <1>2, <1>3, LedgerInvariant, PTL DEF Spec

\* A set of numbers has a least one.
LEMMA LeastNatural ==
  ASSUME NEW S \in SUBSET Nat, S # {}
  PROVE  \E n \in S : \A m \in S : n <= m
<1>1. IsWellFoundedOn({ss \in Nat \X Nat : ss[1] < ss[2]}, Nat)
  BY NatLessThanWellFounded DEF OpToRel
<1>2. PICK n \in S : \A m \in S : ~ (<<m, n>> \in {ss \in Nat \X Nat : ss[1] < ss[2]})
  BY <1>1, WFMin
<1>3. ASSUME NEW m \in S PROVE n <= m
  <2>1. m \in Nat /\ n \in Nat
    OBVIOUS
  <2>2. ~ (m < n)
    BY <1>2, <2>1
  <2> QED
    BY <2>1, <2>2
<1> QED
  BY <1>3

\* A log has a newest rejection if it has one.
LEMMA LargestRejection ==
  ASSUME NEW S, NEW n \in Nat, S \subseteq 1 .. n, S # {}
  PROVE  \E r \in S : \A m \in S : m <= r
<1> DEFINE Above == {k \in Nat : \A m \in S : m <= k}
<1>1. n \in Above
  OBVIOUS
<1>2. PICK k \in Above : \A j \in Above : k <= j
  BY <1>1, LeastNatural
<1>3. \A m \in S : m <= k /\ m \in Nat /\ m >= 1
  BY <1>2
<1>4. k \in S
  <2>1. SUFFICES ASSUME k \notin S PROVE FALSE
    OBVIOUS
  <2>2. k >= 1 /\ k \in Nat
    <3>1. PICK m \in S : m <= k /\ m \in Nat /\ m >= 1
      BY <1>3
    <3> QED
      BY <1>2, <3>1
  <2>3. \A m \in S : m <= k - 1
    BY <1>3, <2>1, <2>2
  <2>4. k - 1 \in Above
    BY <2>2, <2>3
  <2> QED
    BY <1>2, <2>2, <2>4
<1> QED
  BY <1>3, <1>4

\* The newest rejection is among those told, and it is of the latest turn.
LEMMA NewestIsTold ==
  ASSUME TypeInv, LogIsSorted, Refused # {}
  PROVE  \E n \in PriorRejected(log) : \A m \in Refused : m <= n
<1>1. /\ DOMAIN log = 1 .. Len(log) /\ Len(log) \in Nat
      /\ \A i \in DOMAIN log : log[i] \in Event
  BY LenProperties, ElementOfSeq DEF TypeInv, TypeOK, MachineTypes
<1>2. PICK S : S = Rejections(log)
  OBVIOUS
<1>3. S \subseteq 1 .. Len(log) /\ S # {} /\ Refused = {log[i].iteration : i \in S}
  BY <1>1, <1>2 DEF Refused, Rejections
<1>4. PICK r \in S : \A m \in S : m <= r
  BY <1>1, <1>3, LargestRejection
<1>5. {m \in S : m > r} = {}
  <2>1. ASSUME NEW m \in S PROVE ~(m > r)
    <3>1. m \in Nat /\ r \in Nat /\ m <= r
      BY <1>3, <1>4
    <3> QED
      BY <3>1
  <2> QED
    BY <2>1
<1>6. Cardinality({m \in S : m > r}) < MaxFailureRecords
  <2>1. 0 < MaxFailureRecords
    BY ContextAssumption
  <2> QED
    BY <1>5, <2>1, FS_EmptySet
<1>7. log[r].iteration \in PriorRejected(log)
  BY <1>2, <1>6 DEF PriorRejected
<1>8. ASSUME NEW m \in S PROVE log[m].iteration <= log[r].iteration
  <2>1. m \in DOMAIN log /\ r \in DOMAIN log /\ m <= r /\ m \in Nat /\ r \in Nat
    BY <1>1, <1>3, <1>4
  <2>2. log[r].iteration \in Nat
    BY <1>1, <2>1 DEF Event
  <2> QED
    BY <2>1, <2>2 DEF LogIsSorted
<1> QED
  BY <1>3, <1>7, <1>8

\* The agent is told of the last candidate of the database, of its vector and of
\* no uncommitted edit but in files that an ignore file hides; of turns that were refused and only of those, the latest
\* among them; and the turn it is told lags by the turns without a candidate
\* (builder.py:70-130, 211-262).
THEOREM ContextsAreCurrent == Spec => []ContextIsCurrent
<1>1. ASSUME ContextIInv, LogIsSorted, pc \in {"context_ready", "propose"}
      PROVE  ContextIsCurrent
  <2>0. /\ TypeInv /\ EarlierInv /\ LagInv /\ MatchInv /\ pc \in Turning /\ pc \in Asking
        /\ iteration \in Nat
    BY <1>1, TurningPlaces DEF ContextIInv, OutcomeIInv, LineageIInv, Asking, TypeInv, TypeOK, TurnTypes
  <2>1. /\ Len(rows) = Len(history) /\ Len(history) \in 1 .. Len(history)
        /\ rows \in Seq(Candidate) /\ history \in Seq(Candidate)
        /\ DOMAIN rows = 1 .. Len(rows) /\ DOMAIN history = 1 .. Len(history)
    <3>1. Len(rows) = Len(history) /\ history # <<>>
      BY <1>1, <2>0 DEF MatchInv, Pending, Registered, Stopped, Ended, TypeInv, ControlInv, BeforeTry
    <3> QED
      BY <2>0, <3>1, LenProperties, EmptySeq DEF TypeInv, TypeOK, StoreTypes
  <2>2. \A i \in DOMAIN history : history[i] = rows[i]
    BY <1>1, <2>0, <2>1 DEF MatchInv, Agreed, Stopped, Ended
  <2>3. PICK c : c = history[Len(history)]
    OBVIOUS
  <2>4. /\ c = rows[Len(rows)] /\ c \in Candidate /\ c.vec # NoVector /\ c = Newest
    BY <2>0, <2>1, <2>2, <2>3, ElementOfSeq DEF EarlierInv, Newest
  <2>5. PICK context : context = BuildContext
    OBVIOUS
  <2>6. /\ context.evaluation_failures = EvaluationFailures(c)
        /\ context.candidate_diff = CurrentDiffs(c)
        /\ context.iteration = c.iteration + 1
        /\ context.prior_rejected = PriorRejected(log)
    BY <2>3, <2>5 DEF BuildContext, Context, Evidence
  <2>7. context.evaluation_failures = FailureSummary(c.vec)
    BY <2>4, <2>6 DEF EvaluationFailures
  <2>8. edits = {}
    BY <1>1 DEF ContextIInv, OutcomeIInv, LineageIInv, PointerInv, BeforeEdits
  <2>9. c.commit \in context.candidate_diff
    BY <2>6, <2>8 DEF CurrentDiffs, IsClean
  <2>10. iteration - context.iteration = Cardinality(TurnsWithoutCandidate)
    <3>1. iteration = c.iteration + 1 + Cardinality(TurnsWithoutCandidate)
      BY <2>0, <2>4 DEF LagInv
    <3>2. Cardinality(TurnsWithoutCandidate) \in Nat /\ c.iteration \in Nat
      BY <2>0, <2>4, WaitingAppend DEF TurnsWithoutCandidate, Waiting, Candidate, TypeInv, TypeOK, MachineTypes
    <3> QED
      BY <2>6, <3>1, <3>2
  <2>11. context.prior_rejected \subseteq Refused \ {rows[i].iteration : i \in DOMAIN rows}
    <3>1. context.prior_rejected \subseteq Refused
      BY <2>6 DEF PriorRejected, Refused
    <3>2. ASSUME NEW n \in Refused, NEW i \in DOMAIN rows PROVE n # rows[i].iteration
      <4>1. PICK r \in Rejections(log) : n = log[r].iteration
        BY DEF Refused
      <4> QED
        BY <2>0, <2>1, <2>2, <4>1 DEF EarlierInv
    <3> QED
      BY <3>1, <3>2
  <2>12. Refused # {} => \E n \in context.prior_rejected : \A m \in Refused : m <= n
    BY <1>1, <2>0, <2>6, NewestIsTold
  <2> QED
    BY <2>4, <2>5, <2>7, <2>8, <2>9, <2>10, <2>11, <2>12 DEF ContextIsCurrent
<1>2. ContextIInv /\ LogIsSorted => ContextIsCurrent
  BY <1>1 DEF ContextIsCurrent
<1> QED
  BY <1>2, ContextInvariant, LogsAreSorted, PTL

=============================================================================
