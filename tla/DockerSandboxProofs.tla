------------------------ MODULE DockerSandboxProofs ------------------------
(***************************************************************************)
(* Theorems about DockerSandbox, for any number of commands: what is left  *)
(* of a container when its call of execute has ended, and that a result is *)
(* that of its command, whatever fails and wherever the run is cancelled.  *)
(***************************************************************************)
EXTENDS DockerSandbox, TLAPS

\* The types of all but the Boolean variables.
Typed ==
  /\ pc \in Awaited \union {"idle", "closing", "closed"}
  /\ call \in 0 .. MaxCalls /\ (pc \in Awaited => call # 0)
  /\ raising \in {"none", "SandboxError", "OSError", "CancelledError"}
  /\ life \in [Calls -> {"absent", "created", "running", "exited", "killed", "removed"}]
  /\ tracked \subseteq {c \in Calls : life[c] # "absent"}
  /\ threads \subseteq Jobs /\ unanswered \subseteq Jobs
  /\ outcome \in [Calls -> {"none", "exited", "timed_out", "SandboxError", "OSError", "CancelledError"}]

LEMMA TypeSplit == TypeOK <=> Typed /\ timedOut \in BOOLEAN /\ cancelled \in BOOLEAN
BY Zenon DEF TypeOK, Typed

LEMMA BooleanStep ==
  timedOut \in BOOLEAN /\ cancelled \in BOOLEAN /\ [Next]_vars
  => timedOut' \in BOOLEAN /\ cancelled' \in BOOLEAN
BY ZenonT(60) DEF Next, vars, locals, Execute, Create, Start, Wait, TimeOut, Kill, ReadLogs, Remove,
  Fail, Cancel, Leave, End, Close, CloseContainer, Closed, Exit, Finish

\* A call that the daemon carries out takes one container one step further.
LEMMA DaemonStep ==
  ASSUME Typed, NEW op \in Awaited, NEW c \in Calls, CarriedOut(op, c) \/ UNCHANGED life
  PROVE  /\ life' \in [Calls -> {"absent", "created", "running", "exited", "killed", "removed"}]
         /\ \A d \in Calls : life[d] # "absent" => life'[d] # "absent"
         /\ \A d \in Calls : d # c => life'[d] = life[d]
         /\ life'[c] # life[c] =>
              \/ op = "create" /\ life[c] = "absent" /\ life'[c] = "created"
              \/ op = "start" /\ life[c] = "created" /\ life'[c] = "running"
              \/ op = "kill" /\ life[c] = "running" /\ life'[c] = "killed"
              \/ op = "remove" /\ life'[c] = "removed"
<1>1. CASE op \in {"create", "start", "kill", "remove"}
  BY <1>1 DEF Typed, CarriedOut, Become
<1>2. CASE op \in {"wait", "logs"}
  BY <1>2 DEF Typed, CarriedOut, Become
<1> QED
  BY <1>1, <1>2 DEF Awaited

LEMMA TypedStep == Typed /\ [Next]_vars => Typed'
<1> SUFFICES ASSUME Typed, [Next]_vars PROVE Typed'
  OBVIOUS
<1> USE SandboxAssumption DEF Typed, Awaited, Calls, Jobs, Job, NotAnswered
<1>1. CASE Execute
  BY <1>1 DEF Execute
<1>2. CASE Create
  <2>1. call \in Calls /\ life' = [life EXCEPT ![call] = "created"]
    BY <1>2 DEF Create, CarriedOut, Become
  <2>2. /\ pc' = "start" /\ tracked' = tracked \union {call}
        /\ UNCHANGED <<call, raising, threads, unanswered, outcome>>
    BY <1>2 DEF Create
  <2> QED
    BY <2>1, <2>2
<1>3. CASE Start
  <2>1. call \in Calls /\ life' = [life EXCEPT ![call] = "running"]
    BY <1>3 DEF Start, CarriedOut, Become
  <2>2. pc' = "wait" /\ UNCHANGED <<call, raising, tracked, threads, unanswered, outcome>>
    BY <1>3 DEF Start
  <2> QED
    BY <2>1, <2>2
<1>4. CASE Wait
  BY <1>4 DEF Wait, CarriedOut
<1>5. CASE TimeOut
  BY <1>5 DEF TimeOut
<1>6. CASE Kill
  <2>1. call \in Calls /\ life' = [life EXCEPT ![call] = "killed"]
    BY <1>6 DEF Kill, CarriedOut, Become
  <2>2. pc' = "logs" /\ UNCHANGED <<call, raising, tracked, threads, unanswered, outcome>>
    BY <1>6 DEF Kill
  <2> QED
    BY <2>1, <2>2
<1>7. CASE ReadLogs
  BY <1>7 DEF ReadLogs
<1>8. CASE Remove
  <2>1. /\ call \in Calls /\ call' = call /\ pc' = "idle" /\ raising' = "none"
        /\ tracked' \subseteq tracked /\ threads' = threads /\ unanswered' \subseteq Jobs
    BY <1>8 DEF Remove, End
  <2>2. life' \in {life, [life EXCEPT ![call] = "removed"]}
    BY <1>8 DEF Remove, CarriedOut, Become
  <2>3. outcome' \in {[outcome EXCEPT ![call] = HowItEnded], [outcome EXCEPT ![call] = "OSError"]}
    BY <1>8 DEF Remove, End
  <2>4. HowItEnded \in {"exited", "timed_out", "SandboxError", "OSError", "CancelledError"}
    BY DEF HowItEnded
  <2> QED
    BY <2>1, <2>2, <2>3, <2>4
<1>9. CASE Fail
  <2>1. pc \in Awaited /\ call \in Calls
    BY <1>9 DEF Fail
  <2>2. /\ life' \in [Calls -> {"absent", "created", "running", "exited", "killed", "removed"}]
        /\ \A d \in Calls : life[d] # "absent" => life'[d] # "absent"
    BY <1>9, <2>1, DaemonStep DEF Fail
  <2>3. pc' \in {"idle", "remove"} /\ raising' \in {"none", "SandboxError", "OSError"}
    BY <1>9 DEF Fail, Leave, End
  <2>4. outcome' \in [Calls -> {"none", "exited", "timed_out", "SandboxError", "OSError", "CancelledError"}]
    BY <1>9, <2>1 DEF Fail, Leave, End
  <2>5. unanswered' \subseteq Jobs /\ call' = call /\ tracked' = tracked /\ threads' = threads
    BY <1>9, <2>1 DEF Fail
  <2> QED
    BY <2>1, <2>2, <2>3, <2>4, <2>5
<1>10. CASE Cancel
  BY <1>10 DEF Cancel, Leave, End
<1>11. CASE Close \/ Closed
  BY <1>11 DEF Close, Closed
<1>12. CASE CloseContainer
  BY <1>12 DEF CloseContainer, CarriedOut, Become, locals
<1>13. ASSUME NEW c \in Calls, Exit(c) PROVE Typed'
  BY <1>13 DEF Exit, Become, locals
<1>14. ASSUME NEW job \in threads, Finish(job) PROVE Typed'
  BY <1>14 DEF Finish, CarriedOut, Become, locals
<1>15. CASE UNCHANGED vars
  BY <1>15 DEF vars, locals
<1> QED
  BY <1>1, <1>2, <1>3, <1>4, <1>5, <1>6, <1>7, <1>8, <1>9, <1>10, <1>11, <1>12, <1>13, <1>14, <1>15
  DEF Next

LEMMA TypeInit == Init => TypeOK
<1>1. Init => Typed
  BY SandboxAssumption DEF Init, Typed, Awaited, Calls
<1>2. Init => timedOut \in BOOLEAN /\ cancelled \in BOOLEAN
  BY Zenon DEF Init
<1> QED
  BY <1>1, <1>2, TypeSplit

LEMMA TypeStep == TypeOK /\ [Next]_vars => TypeOK'
<1>1. TypeOK' <=> Typed' /\ timedOut' \in BOOLEAN /\ cancelled' \in BOOLEAN
  BY Zenon DEF TypeOK, Typed
<1> QED
  BY <1>1, TypeSplit, TypedStep, BooleanStep

\* Every variable keeps its type (docker.py:29-106).
THEOREM TypeCorrect == Spec => []TypeOK
<1> QED
  BY TypeInit, TypeStep, PTL DEF Spec

-----------------------------------------------------------------------------
(* What is left of a container. *)

\* A call that has ended leaves nothing behind but what was not answered, and
\* no abandoned start can bring its command to life.
Settled(c) ==
  /\ life[c] \notin {"absent", "removed"} => Unanswered("create", c) \/ Unanswered("remove", c)
  /\ life[c] = "running" => Unanswered("remove", c)
  /\ [op |-> "start", of |-> c] \in threads => life[c] = "removed" \/ Unanswered("remove", c)

Untouched(c) == life[c] = "absent" /\ \A job \in threads : job.of # c

Ended(c) == c < call \/ (c = call /\ pc \notin Awaited)

LeakInv ==
  /\ \A c \in Calls : c > call => Untouched(c)
  /\ pc = "create" => Untouched(call)
  /\ \A c \in Calls : Ended(c) => Settled(c)
  /\ \A job \in threads : job.op = "create" => Unanswered("create", job.of)

LEMMA LeakStep == Typed /\ LeakInv /\ [Next]_vars => LeakInv'
<1> SUFFICES ASSUME Typed, LeakInv, [Next]_vars PROVE LeakInv'
  OBVIOUS
<1> USE SandboxAssumption
    DEF Typed, Awaited, Calls, Jobs, Job, NotAnswered, LeakInv, Settled, Untouched, Ended, Unanswered
<1>1. CASE Execute
  BY <1>1 DEF Execute
<1>2. CASE Create
  BY <1>2 DEF Create, CarriedOut, Become
<1>3. CASE Start
  BY <1>3 DEF Start, CarriedOut, Become
<1>4. CASE Wait
  BY <1>4 DEF Wait, CarriedOut
<1>5. CASE TimeOut
  BY <1>5 DEF TimeOut
<1>6. CASE Kill
  BY <1>6 DEF Kill, CarriedOut, Become
<1>7. CASE ReadLogs
  BY <1>7 DEF ReadLogs
<1>8. CASE Remove
  BY <1>8 DEF Remove, CarriedOut, Become, End
<1>9. CASE Fail
  <2>1. pc \in Awaited /\ pc # "remove" /\ call \in Calls /\ call' = call /\ threads' = threads
    BY <1>9 DEF Fail
  <2>2. \A c \in Calls : c # call => life'[c] = life[c]
    BY <1>9, <2>1, DaemonStep DEF Fail
  <2>3. unanswered \subseteq unanswered' /\ (pc = "create" => Job("create") \in unanswered')
    BY <1>9 DEF Fail
  <2>4. CASE pc = "create"
    <3>1. pc' = "idle" /\ (life'[call] = life[call] \/ life'[call] = "created")
      BY <1>9, <2>1, <2>4, DaemonStep DEF Fail, Leave, End
    <3> QED
      BY <2>1, <2>2, <2>3, <2>4, <3>1
  <2>5. CASE pc # "create"
    <3>1. pc' = "remove"
      BY <1>9, <2>1, <2>5 DEF Fail, Leave
    <3> QED
      BY <2>1, <2>2, <2>3, <2>5, <3>1
  <2> QED
    BY <2>4, <2>5
<1>10. CASE Cancel
  BY <1>10 DEF Cancel, Leave, End
<1>11. CASE Close \/ Closed
  BY <1>11 DEF Close, Closed
<1>12. CASE CloseContainer
  BY <1>12 DEF CloseContainer, CarriedOut, Become, locals
<1>13. ASSUME NEW c \in Calls, Exit(c) PROVE LeakInv'
  BY <1>13 DEF Exit, Become, locals
<1>14. ASSUME NEW job \in threads, Finish(job) PROVE LeakInv'
  <2>1. job.op \in Awaited /\ job.of \in Calls /\ job = [op |-> job.op, of |-> job.of]
    OBVIOUS
  <2>2. /\ pc' = pc /\ call' = call /\ unanswered' = unanswered
        /\ threads' = threads \ {job}
    BY <1>14 DEF Finish, locals
  <2>3. /\ \A c \in Calls : c # job.of => life'[c] = life[c]
        /\ life'[job.of] # life[job.of] =>
              \/ job.op = "create" /\ life[job.of] = "absent" /\ life'[job.of] = "created"
              \/ job.op = "start" /\ life[job.of] = "created" /\ life'[job.of] = "running"
              \/ job.op = "kill" /\ life[job.of] = "running" /\ life'[job.of] = "killed"
              \/ job.op = "remove" /\ life'[job.of] = "removed"
    <3> HIDE DEF Typed
    <3> QED
      BY <1>14, <2>1, DaemonStep DEF Finish
  <2>4. ~(job.of > call) /\ ~(pc = "create" /\ job.of = call)
    BY <2>1
  <2>5. (\A c \in Calls : c > call => Untouched(c)) /\ (pc = "create" => Untouched(call))
    OBVIOUS
  <2>6. /\ \A c \in Calls : c > call => Untouched(c)'
        /\ pc = "create" => Untouched(call)'
    BY <2>2, <2>3, <2>4, <2>5
  <2>7. ASSUME NEW c \in Calls, Ended(c) PROVE Settled(c)'
    <3>1. Settled(c)
      BY <2>7
    <3>2. CASE c # job.of
      BY <3>1, <3>2, <2>2, <2>3
    <3>3. CASE c = job.of
      BY <3>1, <3>3, <2>1, <2>2, <2>3
    <3> QED
      BY <3>2, <3>3
  <2> QED
    BY <2>2, <2>6, <2>7
<1>15. CASE UNCHANGED vars
  BY <1>15 DEF vars, locals
<1> QED
  BY <1>1, <1>2, <1>3, <1>4, <1>5, <1>6, <1>7, <1>8, <1>9, <1>10, <1>11, <1>12, <1>13, <1>14, <1>15
  DEF Next

LEMMA LeakInvariant == Spec => [](Typed /\ LeakInv)
<1>1. Init => LeakInv
  BY SandboxAssumption DEF Init, LeakInv, Untouched, Ended, Calls
<1> QED
  BY <1>1, TypeCorrect, TypeSplit, LeakStep, PTL DEF Spec

\* What outlives its call of execute was left by a daemon call that was not
\* answered (docker.py:97-99).
THEOREM LeaksAreUnanswered == Spec => []OnlyUnansweredCallsLeak
<1>1. Typed /\ LeakInv => OnlyUnansweredCallsLeak
  <2> SUFFICES ASSUME Typed, LeakInv, pc \notin Awaited, NEW c \in Calls
               PROVE  Settled(c) \/ Untouched(c)
    BY DEF OnlyUnansweredCallsLeak, Settled, Untouched
  <2>1. c > call \/ c < call \/ c = call
    BY SandboxAssumption DEF Typed, Calls
  <2> QED
    BY <2>1 DEF LeakInv, Ended
<1> QED
  BY <1>1, LeakInvariant, PTL

\* Two commands run in the workspace at a time only if the removal of the earlier
\* one was not answered (docker.py:58-99).
THEOREM OneCommandAtATime == Spec => []CommandsDoNotOverlap
<1>1. Typed /\ LeakInv => CommandsDoNotOverlap
  <2> SUFFICES ASSUME Typed, LeakInv, NEW c \in Calls, NEW d \in Calls,
                      c < d, life[c] = "running", life[d] = "running"
               PROVE  Unanswered("remove", c)
    BY DEF CommandsDoNotOverlap
  <2>1. ~(d > call)
    BY DEF LeakInv, Untouched
  <2>2. c < call
    BY <2>1, SandboxAssumption DEF Typed, Calls
  <2> QED
    BY <2>2 DEF LeakInv, Ended, Settled
<1> QED
  BY <1>1, LeakInvariant, PTL

-----------------------------------------------------------------------------
(* What a result says. *)

\* Where execute stands, while nothing has gone wrong, says how far its container
\* is: only the wait for it may have been abandoned.
CourseInv ==
  pc \in Awaited /\ raising = "none" =>
    /\ \A job \in threads : job.of = call => job.op = "wait"
    /\ pc \in {"create", "start", "wait"} => timedOut = FALSE
    /\ pc = "kill" => timedOut = TRUE
    /\ pc = "wait" => life[call] \in {"running", "exited"}
    /\ pc \in {"logs", "remove"} => life[call] = IF timedOut = TRUE THEN "killed" ELSE "exited"

LEMMA CourseStep == Typed /\ LeakInv /\ CourseInv /\ [Next]_vars => CourseInv'
<1> SUFFICES ASSUME Typed, LeakInv, CourseInv, [Next]_vars, pc' \in Awaited, raising' = "none"
             PROVE  CourseInv'
  BY DEF CourseInv
<1> USE SandboxAssumption DEF Typed, Awaited, Calls, Jobs, Job, CourseInv
<1>1. CASE Execute
  <2>1. call' \in Calls /\ Untouched(call')
    BY <1>1 DEF Execute, LeakInv
  <2> QED
    BY <1>1, <2>1 DEF Execute, Untouched
<1>2. CASE Create
  BY <1>2 DEF Create
<1>3. CASE Start
  BY <1>3 DEF Start, CarriedOut, Become
<1>4. CASE Wait
  BY <1>4 DEF Wait, CarriedOut
<1>5. CASE TimeOut
  BY <1>5 DEF TimeOut
<1>6. CASE Kill
  BY <1>6 DEF Kill, CarriedOut, Become
<1>7. CASE ReadLogs
  BY <1>7 DEF ReadLogs
<1>8. CASE Remove
  BY <1>8 DEF Remove, End
<1>9. CASE Fail
  BY <1>9 DEF Fail, Leave, End
<1>10. CASE Cancel
  BY <1>10 DEF Cancel, Leave, End
<1>11. CASE Close \/ Closed
  BY <1>11 DEF Close, Closed
<1>12. CASE CloseContainer
  BY <1>12 DEF CloseContainer, locals
<1>13. ASSUME NEW c \in Calls, Exit(c) PROVE CourseInv'
  BY <1>13 DEF Exit, Become, locals
<1>14. ASSUME NEW job \in threads, Finish(job) PROVE CourseInv'
  <2>1. job.op \in Awaited /\ job.of \in Calls
    OBVIOUS
  <2>2. /\ pc' = pc /\ call' = call /\ raising' = raising /\ timedOut' = timedOut
        /\ threads' = threads \ {job}
    BY <1>14 DEF Finish, locals
  <2>3. life'[call] = life[call]
    <3>1. CASE job.of = call
      <4>1. job.op = "wait"
        BY <3>1, <2>2
      <4> QED
        BY <1>14, <4>1 DEF Finish, CarriedOut
    <3>2. CASE job.of # call
      <4> HIDE DEF Typed
      <4>1. \A d \in Calls : d # job.of => life'[d] = life[d]
        BY <1>14, <2>1, DaemonStep DEF Finish
      <4> QED
        BY <4>1, <3>2, <2>2 DEF Typed
    <3> QED
      BY <3>1, <3>2
  <2> QED
    BY <2>2, <2>3
<1>15. CASE UNCHANGED vars
  BY <1>15 DEF vars, locals
<1> QED
  BY <1>1, <1>2, <1>3, <1>4, <1>5, <1>6, <1>7, <1>8, <1>9, <1>10, <1>11, <1>12, <1>13, <1>14, <1>15
  DEF Next

\* The result of a command, if execute returns one, is that of the command: a
\* timeout was killed, an exit code was left by itself (docker.py:70-94).
THEOREM ResultsAreThoseOfTheCommand == Spec => ResultsAreTrue
<1> DEFINE ResultIsTrue(c) == outcome'[c] # outcome[c] =>
                        /\ outcome'[c] = "timed_out" => life[c] = "killed"
                        /\ outcome'[c] = "exited"    => life[c] = "exited"
<1>1. Init => CourseInv
  BY DEF Init, CourseInv, Awaited
<1>2. Typed /\ CourseInv /\ Next => \A c \in Calls : ResultIsTrue(c)
  <2> SUFFICES ASSUME Typed, CourseInv, Next, NEW c \in Calls, outcome'[c] # outcome[c]
               PROVE  /\ outcome'[c] = "timed_out" => life[c] = "killed"
                      /\ outcome'[c] = "exited"    => life[c] = "exited"
    OBVIOUS
  <2>1. CASE Remove
    <3>1. c = call /\ outcome'[c] \in {HowItEnded, "OSError"}
      BY <2>1 DEF Remove, End, Typed
    <3>2. raising # "none" => outcome'[c] \notin {"timed_out", "exited"}
      BY <3>1 DEF HowItEnded, Typed
    <3>3. raising = "none" => life[c] = IF timedOut = TRUE THEN "killed" ELSE "exited"
      BY <2>1, <3>1 DEF Remove, CourseInv, Awaited
    <3>4. raising = "none" =>
            outcome'[c] \in {IF timedOut = TRUE THEN "timed_out" ELSE "exited", "OSError"}
      BY <3>1 DEF HowItEnded
    <3> QED
      BY <3>2, <3>3, <3>4
  <2>2. CASE Fail \/ Cancel
    BY <2>2 DEF Fail, Cancel, Leave, End, Typed
  <2>3. ~(Remove \/ Fail \/ Cancel) => UNCHANGED outcome
    BY DEF Next, Execute, Create, Start, Wait, TimeOut, Kill, ReadLogs, Close, CloseContainer, Closed,
      Exit, Finish
  <2> QED
    BY <2>1, <2>2, <2>3
<1> HIDE DEF ResultIsTrue
<1>3. Typed /\ CourseInv /\ [Next]_vars => [\A c \in Calls : ResultIsTrue(c)]_vars
  BY <1>2
<1>4. [][\A c \in Calls : ResultIsTrue(c)]_vars => ResultsAreTrue
  BY PTL DEF ResultsAreTrue, ResultIsTrue
<1> QED
  BY <1>1, <1>3, <1>4, LeakInvariant, CourseStep, PTL DEF Spec

=============================================================================
