--------------------------- MODULE DockerSandbox ---------------------------
(***************************************************************************)
(* sandbox/docker.py: one container per command, created, started, waited  *)
(* for, killed when it takes too long, read and removed.  Every call of the *)
(* Docker daemon runs in a worker thread (asyncio.to_thread) that nobody    *)
(* can stop: when its awaiter is cancelled or times out, the thread goes on *)
(* by itself.  Any call may fail, whether or not the daemon carried it out: *)
(* with a DockerException, or with an OSError that its client lets through  *)
(* when the connection breaks, and that execute does not handle.            *)
(***************************************************************************)
EXTENDS Naturals

CONSTANT MaxCalls  \* bound: calls of execute

ASSUME SandboxAssumption == MaxCalls \in Nat

Calls == 1 .. MaxCalls

VARIABLES
  pc,         \* the daemon call awaited, "idle" between two calls of execute,
              \* "closing" and "closed"
  call,       \* the number of the current call, and of its container
  timedOut,   \* local of execute
  raising,    \* the exception on its way out of execute, or "none"
  cancelled,  \* the task of the run was cancelled
  life,       \* what the daemon knows of each container
  tracked,    \* _containers
  threads,    \* worker threads nobody awaits any more
  unanswered, \* history: the calls to create or remove a container that failed or
              \* were abandoned
  outcome     \* history: how each call of execute ended

locals == <<pc, call, timedOut, raising, cancelled>>
vars   == <<locals, life, tracked, threads, unanswered, outcome>>

Awaited == {"create", "start", "wait", "kill", "logs", "remove"}

Jobs == [op : Awaited, of : Calls]

Job(op) == [op |-> op, of |-> call]

NotAnswered(op) ==
  unanswered' = unanswered \union {job \in {Job(op)} : op \in {"create", "remove"}}

Become(c, state) == life' = [life EXCEPT ![c] = state]

Init ==
  /\ pc = "idle" /\ call = 0 /\ timedOut = FALSE /\ raising = "none" /\ cancelled = FALSE
  /\ life = [c \in Calls |-> "absent"]
  /\ tracked = {} /\ threads = {} /\ unanswered = {}
  /\ outcome = [c \in Calls |-> "none"]

-----------------------------------------------------------------------------
(* The daemon. *)

\* What the daemon does when it carries out a call.
CarriedOut(op, c) ==
  CASE op = "create" -> life[c] = "absent"  /\ Become(c, "created")
    [] op = "start"  -> life[c] = "created" /\ Become(c, "running")
    [] op = "wait"   -> life[c] # "running" /\ UNCHANGED life
    [] op = "kill"   -> life[c] = "running" /\ Become(c, "killed")
    [] op = "logs"   -> UNCHANGED life
    [] op = "remove" -> Become(c, "removed")

\* A command ends by itself, if ever.
Exit(c) ==
  /\ life[c] = "running"
  /\ Become(c, "exited")
  /\ UNCHANGED <<locals, tracked, threads, unanswered, outcome>>

\* A call that was abandoned ends in its thread: it is carried out or fails.
Finish(job) ==
  /\ job \in threads
  /\ \/ CarriedOut(job.op, job.of)
     \/ job.op # "wait" /\ UNCHANGED life
  /\ tracked' = IF job.op = "remove" THEN tracked \ {job.of} ELSE tracked
  /\ threads' = threads \ {job}
  /\ UNCHANGED <<locals, unanswered, outcome>>

-----------------------------------------------------------------------------
(* execute *)

\* execute ends, with a result or with an exception; its locals are gone.
End(how) ==
  /\ pc' = "idle"
  /\ outcome' = [outcome EXCEPT ![call] = how]
  /\ timedOut' = FALSE /\ raising' = "none"

\* Bound: MaxCalls calls.
Execute ==
  /\ pc = "idle"
  /\ call < MaxCalls
  /\ call' = call + 1
  /\ pc' = "create" /\ timedOut' = FALSE /\ raising' = "none"
  /\ UNCHANGED <<cancelled, life, tracked, threads, unanswered, outcome>>

\* Mutant of Create: the container is tracked even if it was not created.
CreateTracked ==
  /\ pc = "create"
  /\ CarriedOut("create", call) \/ UNCHANGED life
  /\ tracked' = tracked \union {call}
  /\ pc' = "start"
  /\ UNCHANGED <<call, timedOut, raising, cancelled, threads, unanswered, outcome>>

Create ==
  /\ pc = "create"
  /\ CarriedOut("create", call)
  /\ tracked' = tracked \union {call}
  /\ pc' = "start"
  /\ UNCHANGED <<call, timedOut, raising, cancelled, threads, unanswered, outcome>>

Start ==
  /\ pc = "start"
  /\ CarriedOut("start", call)
  /\ pc' = "wait"
  /\ UNCHANGED <<call, timedOut, raising, cancelled, tracked, threads, unanswered, outcome>>

Wait ==
  /\ pc = "wait"
  /\ CarriedOut("wait", call)
  /\ pc' = "logs"
  /\ UNCHANGED <<call, timedOut, raising, cancelled, tracked, threads, unanswered, outcome>>

\* Mutant of TimeOut: a command that still runs is waited for.
TimeOutEnded ==
  /\ pc = "wait" /\ life[call] = "exited"
  /\ timedOut' = TRUE
  /\ pc' = "kill"
  /\ threads' = threads \union {Job("wait")}
  /\ UNCHANGED <<call, raising, cancelled, life, tracked, unanswered, outcome>>

\* Mutant of TimeOut: the container of a timed-out command is left to close.
TimeOutToClose ==
  /\ pc = "wait"
  /\ threads' = threads \union {Job("wait")}
  /\ End("timed_out")
  /\ UNCHANGED <<call, cancelled, life, tracked, unanswered>>

\* wait_for gives up, perhaps when the command has just ended.
TimeOut ==
  /\ pc = "wait"
  /\ timedOut' = TRUE
  /\ pc' = "kill"
  /\ threads' = threads \union {Job("wait")}
  /\ UNCHANGED <<call, raising, cancelled, life, tracked, unanswered, outcome>>

\* Mutant of Kill: that there is nothing left to kill is ignored.
KillAnyway ==
  /\ pc = "kill"
  /\ CarriedOut("kill", call) \/ UNCHANGED life
  /\ pc' = "logs"
  /\ UNCHANGED <<call, timedOut, raising, cancelled, tracked, threads, unanswered, outcome>>

Kill ==
  /\ pc = "kill"
  /\ CarriedOut("kill", call)
  /\ pc' = "logs"
  /\ UNCHANGED <<call, timedOut, raising, cancelled, tracked, threads, unanswered, outcome>>

ReadLogs ==
  /\ pc = "logs"
  /\ pc' = "remove"
  /\ UNCHANGED <<call, timedOut, raising, cancelled, life, tracked, threads, unanswered, outcome>>

\* The finally clause is run once there is a container.
Leave(exception) ==
  IF pc = "create"
    THEN End(exception)
    ELSE pc' = "remove" /\ raising' = exception /\ UNCHANGED <<timedOut, outcome>>

\* Mutant of Fail: the container of a failed command is kept.
FailKeeping ==
  /\ pc \in Awaited \ {"remove"}
  /\ CarriedOut(pc, call) \/ UNCHANGED life
  /\ NotAnswered(pc)
  /\ End("SandboxError")
  /\ UNCHANGED <<call, cancelled, tracked, threads>>

\* The daemon refuses or its answer does not arrive.  A DockerException becomes
\* a SandboxError, an OSError stays one.
Fail ==
  /\ pc \in Awaited \ {"remove"}
  /\ CarriedOut(pc, call) \/ UNCHANGED life
  /\ NotAnswered(pc)
  /\ Leave("SandboxError") \/ Leave("OSError")
  /\ UNCHANGED <<call, cancelled, tracked, threads>>

HowItEnded ==
  IF raising # "none" THEN raising ELSE IF timedOut THEN "timed_out" ELSE "exited"

\* Mutant of Remove: without force, a running container is not removed.
RemoveUnforced ==
  /\ pc = "remove"
  /\ tracked' = tracked \ {call}
  /\ \/ /\ IF life[call] = "running" THEN UNCHANGED life ELSE CarriedOut("remove", call)
        /\ UNCHANGED unanswered
     \/ UNCHANGED life /\ NotAnswered("remove")
  /\ End(HowItEnded)
  /\ UNCHANGED <<call, cancelled, threads>>

\* _remove_container forgets the container, then removes it.  A DockerException
\* is not reported; an OSError takes the place of the result, or of the exception
\* that is on its way, be it that of a cancellation.
Remove ==
  /\ pc = "remove"
  /\ tracked' = tracked \ {call}
  /\ CarriedOut("remove", call) \/ UNCHANGED life
  /\ \/ life'[call] = "removed" /\ UNCHANGED unanswered /\ End(HowItEnded)
     \/ /\ NotAnswered("remove")
        /\ End(HowItEnded) \/ End("OSError")
  /\ UNCHANGED <<call, cancelled, threads>>

\* The run is interrupted: what execute awaits goes on without it.
Cancel ==
  /\ pc \in Awaited /\ ~cancelled
  /\ cancelled' = TRUE
  /\ threads' = threads \union {Job(pc)}
  /\ NotAnswered(pc)
  /\ IF pc = "remove"
       THEN End("CancelledError")
       ELSE Leave("CancelledError")
  /\ UNCHANGED <<call, life, tracked>>

-----------------------------------------------------------------------------
(* close, which the finally clause of Controller.run awaits *)

Close ==
  /\ pc = "idle"
  /\ pc' = "closing"
  /\ UNCHANGED <<call, timedOut, raising, cancelled, life, tracked, threads, unanswered, outcome>>

\* An OSError ends close.
CloseContainer ==
  /\ pc = "closing"
  /\ \E c \in tracked :
       /\ tracked' = tracked \ {c}
       /\ CarriedOut("remove", c) \/ UNCHANGED life
       /\ \/ life'[c] = "removed" /\ UNCHANGED <<unanswered, pc>>
          \/ /\ unanswered' = unanswered \union {[op |-> "remove", of |-> c]}
             /\ pc' \in {"closing", "closed"}
  /\ UNCHANGED <<call, timedOut, raising, cancelled, threads, outcome>>

Closed ==
  /\ pc = "closing" /\ tracked = {}
  /\ pc' = "closed"
  /\ UNCHANGED <<call, timedOut, raising, cancelled, life, tracked, threads, unanswered, outcome>>

Next ==
  \/ Execute \/ Create \/ Start \/ Wait \/ TimeOut \/ Kill \/ ReadLogs \/ Remove
  \/ Fail \/ Cancel
  \/ Close \/ CloseContainer \/ Closed
  \/ \E c \in Calls : Exit(c)
  \/ \E job \in threads : Finish(job)

Spec == Init /\ [][Next]_vars

\* The daemon answers or its client gives up, except when it waits for a command,
\* which need not end: there the timer of wait_for fires.
Fairness ==
  /\ WF_vars(pc # "wait" /\ (Create \/ Start \/ Kill \/ ReadLogs \/ Remove \/ Fail))
  /\ WF_vars(TimeOut)
  /\ WF_vars(Close) /\ WF_vars(CloseContainer) /\ WF_vars(Closed)
  /\ \A op \in Awaited, c \in Calls : WF_vars(Finish([op |-> op, of |-> c]))

FairSpec == Spec /\ Fairness

-----------------------------------------------------------------------------

\* Every variable has its type; what is tracked was created.
TypeOK ==
  /\ pc \in Awaited \union {"idle", "closing", "closed"}
  /\ call \in 0 .. MaxCalls /\ (pc \in Awaited => call # 0)
  /\ timedOut \in BOOLEAN
  /\ cancelled \in BOOLEAN
  /\ raising \in {"none", "SandboxError", "OSError", "CancelledError"}
  /\ life \in [Calls -> {"absent", "created", "running", "exited", "killed", "removed"}]
  /\ tracked \subseteq {c \in Calls : life[c] # "absent"}
  /\ threads \subseteq Jobs /\ unanswered \subseteq Jobs
  /\ outcome \in [Calls -> {"none", "exited", "timed_out", "SandboxError", "OSError", "CancelledError"}]

Unanswered(op, c) == [op |-> op, of |-> c] \in unanswered

\* A container outlives its call of execute only if the call that would have
\* told its name, or the one that would have removed it, was not answered
\* (docker.py:97-99); and only in the latter case can its command run.
OnlyUnansweredCallsLeak ==
  pc \notin Awaited =>
    \A c \in Calls :
      /\ life[c] \notin {"absent", "removed"} => Unanswered("create", c) \/ Unanswered("remove", c)
      /\ life[c] = "running" => Unanswered("remove", c)

\* The commands share the workspace: two of them never run at a time, a late
\* start in an abandoned thread included, unless the removal of the earlier one
\* was not answered.
CommandsDoNotOverlap ==
  \A c, d \in Calls :
    c < d /\ life[c] = "running" /\ life[d] = "running" => Unanswered("remove", c)

\* No result is made up: what is reported as a timeout was killed for it, what is
\* reported with an exit code ended by itself (docker.py:70-94), although the
\* command may end while the timer fires.
ResultsAreTrue ==
  [][\A c \in Calls : outcome'[c] # outcome[c] =>
       /\ outcome'[c] = "timed_out" => life[c] = "killed"
       /\ outcome'[c] = "exited"    => life[c] = "exited"]_vars

\* execute returns or raises, also if its command never ends (docker.py:71-79).
ExecuteEnds == \A c \in Calls : (call = c) ~> (outcome[c] # "none")

\* In the end no worker thread waits for a container, so that the interpreter,
\* which joins them, can exit: unless a command that never ends was not removed.
ThreadsEnd ==
  <>[](\A job \in threads : life[job.of] = "running" /\ Unanswered("remove", job.of))

=============================================================================
