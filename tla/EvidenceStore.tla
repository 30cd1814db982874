--------------------------- MODULE EvidenceStore ---------------------------
(***************************************************************************)
(* What a run leaves behind: the hash-chained events (SqliteEventStore in  *)
(* controller/controller.py over persistence/repositories.py), the         *)
(* artifact files (artifacts/store.py) with their rows, and the completion *)
(* manifest (artifacts/manifest.py); and what a reader, who may look at    *)
(* any moment and after a crash, makes of it (cli/_common.py).  An action  *)
(* is one write that lasts: a commit, the opening of a file, its closing.  *)
(***************************************************************************)
EXTENDS Naturals, Sequences, FiniteSets, Functions

CONSTANTS
  Data,         \* the contents of diffs and execution logs
  MaxEvents,    \* bound: events of the run
  MaxIteration, \* bound: iterations of the run
  MaxTime,      \* bound: readings of the wall clock
  StoreRunId,   \* the name under which the caller opened the artifact store
  RunId         \* the id a Controller draws for its run: uuid4

ASSUME EvidenceAssumption ==
  /\ MaxEvents \in Nat /\ MaxIteration \in Nat /\ MaxTime \in Nat
  /\ StoreRunId # RunId

VARIABLES
  mode,      \* "running", "returned", or "stopped" by a crash or an exception
  pc,        \* the next write of the run, "ready" between two pieces of evidence
  digest,    \* the artifact it is storing
  type,      \* the type of the event it is to record
  iteration, \* the iteration that event reports
  table,     \* the events table, in the order of the commits
  cache,     \* the events cached in the store, from which hashes are chained
  files,     \* the files of the artifact store: "whole" or "torn", by digest
  spoiled,   \* the execution logs torn by a failed write that the run survived
  rows       \* the artifacts table, in order

run  == <<mode, pc, digest, type, iteration>>
disk == <<files, spoiled>>
vars == <<run, table, cache, disk, rows>>

Evidence == {"diff", "execution-log"}

\* What SHA-256 is to the code: a digest is the content and its kind, and the
\* hash of an event is what it was computed from, the ids of all events so far.
NoHash == <<>>

ComputeHash(id, previous) == Append(previous, id)

LastHash(events) == IF events = <<>> THEN NoHash ELSE events[Len(events)].event_hash

Chain(events) == <<"event-chain", events>>

\* Mutant of ManifestOf: the chain is taken before the last event.
ManifestOfEarlier(events, artifacts) ==
  [event_chain_head_hash |-> LastHash(events),
   artifact_hashes |-> Range(artifacts) \union {Chain(SubSeq(events, 1, Len(events) - 1))}]

ManifestOf(events, artifacts) ==
  [event_chain_head_hash |-> LastHash(events),
   artifact_hashes |-> Range(artifacts) \union {Chain(events)}]

-----------------------------------------------------------------------------

Init ==
  /\ mode = "running" /\ pc = "ready"
  /\ digest = <<>> /\ type = "other" /\ iteration = 0
  /\ table = <<>> /\ cache = <<>>
  /\ files = <<>> /\ spoiled = {} /\ rows = <<>>

At(p) == mode = "running" /\ pc = p

\* Mutant of Continue: an artifact is recorded and never stored.
ContinueUnstored ==
  /\ At("ready")
  /\ \/ pc' = "commit" /\ type' \in {"other", "COMPLETION_DECLARED"} /\ UNCHANGED digest
     \/ pc' = "row" /\ type' = "other" /\ digest' \in Evidence \X Data
  /\ iteration' \in iteration .. MaxIteration
  /\ UNCHANGED <<mode, table, cache, disk, rows>>

\* Mutant of Continue: a verified completion is sealed before it is declared.
ContinueSealing ==
  /\ At("ready")
  /\ \/ pc' = "commit" /\ type' = "other" /\ UNCHANGED digest
     \/ pc' = "open" /\ type' = "other" /\ digest' \in Evidence \X Data
     \/ pc' = "generate" /\ type' = "COMPLETION_DECLARED" /\ UNCHANGED digest
  /\ iteration' \in iteration .. MaxIteration
  /\ UNCHANGED <<mode, table, cache, disk, rows>>

\* The run records another event, stores the diff of a checkpoint or the log of
\* a command, or has had its completion verified.
Continue ==
  /\ At("ready")
  /\ \/ pc' = "commit" /\ type' \in {"other", "COMPLETION_DECLARED"} /\ UNCHANGED digest
     \/ pc' = "open" /\ type' = "other" /\ digest' \in Evidence \X Data
  /\ iteration' \in iteration .. MaxIteration
  /\ UNCHANGED <<mode, table, cache, disk, rows>>

\* Mutant of OpenFile: the artifact is recorded before its file is filled.
OpenFileLazily ==
  /\ At("open")
  /\ files' = [d \in DOMAIN files \union {digest} |-> IF d = digest THEN "torn" ELSE files[d]]
  /\ pc' = "row"
  /\ UNCHANGED <<mode, digest, type, iteration, table, cache, spoiled, rows>>

\* write_bytes empties the file of that name, then fills it.
OpenFile ==
  /\ At("open")
  /\ files' = [d \in DOMAIN files \union {digest} |-> IF d = digest THEN "torn" ELSE files[d]]
  /\ pc' = "close"
  /\ UNCHANGED <<mode, digest, type, iteration, table, cache, spoiled, rows>>

\* The manifest is stored after the chain it names.
CloseFile ==
  /\ At("close")
  /\ files' = [files EXCEPT ![digest] = "whole"]
  /\ spoiled' = spoiled \ {digest}
  /\ IF digest[1] = "event-chain"
       THEN pc' = "open" /\ digest' = <<"completion-manifest", ManifestOf(cache, rows)>>
       ELSE pc' = "row" /\ UNCHANGED digest
  /\ UNCHANGED <<mode, type, iteration, table, cache, rows>>

\* The log of a command cannot be written: _execute_proposal catches the
\* OSError and the run goes on, with what is left of the file if it was opened.
SurviveFailure ==
  /\ At("open") \/ At("close")
  /\ digest[1] = "execution-log"
  /\ pc' = "ready"
  /\ spoiled' = IF pc = "close" THEN spoiled \union {digest} ELSE spoiled
  /\ UNCHANGED <<mode, digest, type, iteration, table, cache, files, rows>>

RecordArtifact ==
  /\ At("row")
  /\ rows' = Append(rows, digest)
  /\ pc' = "commit"
  /\ UNCHANGED <<mode, digest, type, iteration, table, cache, disk>>

\* Mutant of NewEvent: the hash is chained to the last but one event.
NewEventStale(time) ==
  LET previous == IF Len(cache) < 2 THEN NoHash ELSE cache[Len(cache) - 1].event_hash
      id       == Len(table) + 1
  IN  [id |-> id, event_type |-> type, iteration |-> iteration, timestamp |-> time,
       previous_event_hash |-> previous, event_hash |-> ComputeHash(id, previous)]

NewEvent(time) ==
  LET previous == LastHash(cache)
      id       == Len(table) + 1
  IN  [id |-> id, event_type |-> type, iteration |-> iteration, timestamp |-> time,
       previous_event_hash |-> previous, event_hash |-> ComputeHash(id, previous)]

\* append_event commits the row before it extends the cache.  The timestamp is
\* the wall clock's, which may stand still or be set back.
CommitEvent ==
  /\ At("commit")
  /\ Len(table) < MaxEvents
  /\ \E time \in 1 .. MaxTime : table' = Append(table, NewEvent(time))
  /\ pc' = "cache"
  /\ UNCHANGED <<mode, digest, type, iteration, cache, disk, rows>>

\* A declared completion is sealed by a manifest, whose own event is the last.
CacheEvent ==
  /\ At("cache")
  /\ cache' = Append(cache, table[Len(table)])
  /\ pc' = IF type = "COMPLETION_DECLARED" THEN "generate" ELSE "ready"
  /\ mode' = IF type = "ARTIFACT_STORED" THEN "returned" ELSE "running"
  /\ UNCHANGED <<digest, type, iteration, table, disk, rows>>

GenerateManifest ==
  /\ At("generate")
  /\ pc' = "open" /\ type' = "ARTIFACT_STORED"
  /\ digest' = Chain(cache)
  /\ UNCHANGED <<mode, iteration, table, cache, disk, rows>>

\* The process dies, or a call raises what the run does not survive: anything
\* but the failed write of an execution log.  No command resumes a run.
Stop ==
  /\ mode = "running"
  /\ mode' = "stopped"
  /\ UNCHANGED <<pc, digest, type, iteration, table, cache, disk, rows>>

Next ==
  \/ Continue \/ OpenFile \/ CloseFile \/ SurviveFailure \/ RecordArtifact
  \/ CommitEvent \/ CacheEvent \/ GenerateManifest
  \/ Stop

Spec == Init /\ [][Next]_vars

-----------------------------------------------------------------------------
(* What a reader finds. *)

\* Mutant of Before: the rows of an iteration come in any order.
BeforeByIteration(e, f) == e.iteration < f.iteration

\* ORDER BY iteration, timestamp.
Before(e, f) ==
  \/ e.iteration < f.iteration
  \/ e.iteration = f.iteration /\ e.timestamp < f.timestamp

\* The lists get_by_run, get_chain and load_snapshots may return.
ReadBacks ==
  {[k \in DOMAIN table |-> table[p[k]]] : p \in
     {q \in Bijection(DOMAIN table, DOMAIN table) :
        \A i, j \in DOMAIN table : i < j => ~Before(table[q[j]], table[q[i]])}}

\* Each event carries the hash of the one before it, and its own.
Linked(events) ==
  \A k \in DOMAIN events :
    /\ events[k].previous_event_hash = IF k = 1 THEN NoHash ELSE events[k - 1].event_hash
    /\ events[k].event_hash = ComputeHash(events[k].id, events[k].previous_event_hash)

Whole(d) == d \in DOMAIN files /\ files[d] = "whole"

\* verify_manifest with the artifact store of run id.
VerifyManifest(manifest, id) ==
  /\ id = StoreRunId
  /\ \A h \in manifest.artifact_hashes : Whole(h)
  /\ \E h \in manifest.artifact_hashes :
       /\ h[1] = "event-chain"
       /\ Linked(h[2])
       /\ LastHash(h[2]) = manifest.event_chain_head_hash

\* A manifest is found by its row, and a torn one does not parse.
ManifestRows == {k \in DOMAIN rows : rows[k][1] = "completion-manifest" /\ Whole(rows[k])}

-----------------------------------------------------------------------------

\* Every variable has its type; an artifact recorded has a file, and nothing
\* but an execution log is spoiled.
TypeOK ==
  /\ mode \in {"running", "returned", "stopped"}
  /\ pc \in {"ready", "open", "close", "row", "commit", "cache", "generate"}
  /\ type \in {"other", "COMPLETION_DECLARED", "ARTIFACT_STORED"}
  /\ iteration \in 0 .. MaxIteration
  /\ \A k \in DOMAIN table : table[k].id = k /\ table[k].timestamp \in 1 .. MaxTime
  /\ Range(files) \subseteq {"whole", "torn"}
  /\ Range(rows) \subseteq DOMAIN files
  /\ spoiled \subseteq {d \in DOMAIN files : d[1] = "execution-log"}

\* No fork, whatever stops the run between the commit of an event and its
\* caching (controller.py:144-157, 997-1001): the table is one chain in the
\* order of the commits, and the cache that hashes are chained from is that
\* chain, without its last event while that is committed.
ChainIsIntact ==
  /\ Linked(table)
  /\ \/ cache = table
     \/ Len(table) = Len(cache) + 1 /\ cache = SubSeq(table, 1, Len(cache))

\* The list read back is the chain, whatever its order rests on
\* (repositories.py:67-81), as long as the wall clock moved on between the
\* events of an iteration: iterations never go back, and ids and hashes play no
\* part in the order.
ReadBackIsTheChain ==
  (\A i, j \in DOMAIN table :
     i < j /\ table[i].iteration = table[j].iteration => table[i].timestamp < table[j].timestamp)
  => \A events \in ReadBacks : Linked(events)

\* A manifest that can be found verifies, at whatever moment the reader looks
\* and the run was stopped (controller.py:627-638), unless it names the log of
\* a command that was written whole, then once more, and that write failed
\* without ending the run (controller.py:809); then it does not.
FoundManifestVerifies ==
  \A k \in ManifestRows :
    LET manifest == rows[k][2]
    IN  VerifyManifest(manifest, StoreRunId) <=> manifest.artifact_hashes \intersect spoiled = {}

\* What a manifest covers (manifest.py:55-93): the whole chain up to the
\* declared completion, after which only the event of the manifest itself
\* comes, and every artifact recorded before it.
ManifestSealsTheRun ==
  \A k \in ManifestRows :
    LET manifest == rows[k][2]
        n        == Len(manifest.event_chain_head_hash)
    IN  /\ k = Len(rows)
        /\ n \in DOMAIN table /\ n + 1 >= Len(table)
        /\ table[n].event_hash = manifest.event_chain_head_hash
        /\ table[n].event_type = "COMPLETION_DECLARED"
        /\ {h \in manifest.artifact_hashes : h[1] # "event-chain"} = {rows[i] : i \in 1 .. k - 1}

\* The evidence a row speaks of is there, except while, or if the run stopped
\* while, the same content is written again (store.py:26), and except an
\* execution log for which that failed and has not succeeded since
\* (controller.py:809).
RecordedFilesAreWhole ==
  \A d \in Range(rows) : Whole(d) \/ (pc = "close" /\ d = digest) \/ d \in spoiled

\* docs/cli.md:110: "Verify the artifact hash chain for a run."  The command
\* opens the store under the run's id (cli/report.py:64).
CommandVerifies ==
  \A k \in ManifestRows : VerifyManifest(rows[k][2], RunId)

=============================================================================
