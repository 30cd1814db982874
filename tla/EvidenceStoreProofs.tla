------------------------ MODULE EvidenceStoreProofs ------------------------
(***************************************************************************)
(* Theorems about EvidenceStore, for runs of any length with any evidence, *)
(* stopped at any moment, whatever the wall clock does: the stored chain   *)
(* never forks, and a manifest that is found verifies.                     *)
(***************************************************************************)
EXTENDS EvidenceStore, SequenceTheorems, TLAPS

EventType == {"other", "COMPLETION_DECLARED", "ARTIFACT_STORED"}

Event == [id: Nat, event_type: EventType, iteration: Nat, timestamp: Nat,
          previous_event_hash: Seq(Nat), event_hash: Seq(Nat)]

EventsOK ==
  /\ type \in EventType /\ iteration \in Nat
  /\ table \in Seq(Event) /\ cache \in Seq(Event)

\* The chain, and how far the cache is behind it.
ChainInv ==
  /\ EventsOK
  /\ Linked(table)
  /\ pc # "cache" => cache = table
  /\ pc = "cache" => /\ Len(table) = Len(cache) + 1
                     /\ cache = SubSeq(table, 1, Len(cache))

\* The files and rows are there to be looked up; what is spoiled is torn.
FilesOK ==
  /\ files = [d \in DOMAIN files |-> files[d]]
  /\ pc = "close" => digest \in DOMAIN files /\ ~Whole(digest)
  /\ \E S : rows \in Seq(S)
  /\ \A d \in spoiled : d \in DOMAIN files /\ ~Whole(d) /\ d[1] = "execution-log"

Storing == pc \in {"open", "close", "row"}

\* What is being stored, and what of it is on disk.
StoringInv ==
  /\ pc = "row" => Whole(digest)
  /\ Storing /\ type = "other" => digest[1] \in Evidence
  /\ Storing => type # "COMPLETION_DECLARED"
  /\ Storing /\ type = "ARTIFACT_STORED" =>
       \/ pc # "row" /\ digest = Chain(cache)
       \/ digest = <<"completion-manifest", ManifestOf(cache, rows)>> /\ Whole(Chain(cache))

\* A manifest verifies, unless it names what is spoiled.
Sound(manifest) ==
  VerifyManifest(manifest, StoreRunId) <=> manifest.artifact_hashes \intersect spoiled = {}

\* The artifacts recorded, and the manifest among them once the run is sealed.
RowsInv ==
  /\ \A k \in DOMAIN rows :
       Whole(rows[k]) \/ (pc = "close" /\ digest = rows[k]) \/ rows[k] \in spoiled
  /\ \A k \in DOMAIN rows : rows[k][1] = "completion-manifest" =>
       /\ Sound(rows[k][2])
       /\ type = "ARTIFACT_STORED"
       /\ pc \in {"commit", "cache"} \/ mode = "returned"

EvidenceInv == ChainInv /\ FilesOK /\ StoringInv /\ RowsInv

-----------------------------------------------------------------------------
(* The chain. *)

\* A new event is an event, chained to the last of the table.
LEMMA NewEventIsLinked ==
  ASSUME ChainInv, NEW time \in 1 .. MaxTime, pc # "cache"
  PROVE  /\ NewEvent(time) \in Event
         /\ NewEvent(time).previous_event_hash = LastHash(table)
         /\ NewEvent(time).event_hash = ComputeHash(NewEvent(time).id, LastHash(table))
<1> DEFINE previous == LastHash(cache)
           id == Len(table) + 1
<1>1. cache = table /\ cache \in Seq(Event) /\ id \in Nat
  BY LenProperties DEF ChainInv, EventsOK
<1>2. previous \in Seq(Nat)
  <2>1. CASE cache = <<>>
    BY <2>1, EmptySeq DEF LastHash, NoHash
  <2>2. CASE cache # <<>>
    <3>1. cache[Len(cache)] \in Event
      BY <1>1, <2>2, EmptySeq, LenProperties, ElementOfSeq
    <3> QED BY <3>1, <2>2 DEF LastHash, Event
  <2> QED BY <2>1, <2>2
<1>3. ComputeHash(id, previous) \in Seq(Nat)
  BY <1>1, <1>2, AppendProperties DEF ComputeHash
<1>4. type \in EventType /\ iteration \in Nat /\ time \in Nat
  BY EvidenceAssumption DEF ChainInv, EventsOK
<1>5. NewEvent(time) =
        [id |-> id, event_type |-> type, iteration |-> iteration, timestamp |-> time,
         previous_event_hash |-> previous, event_hash |-> ComputeHash(id, previous)]
  BY DEF NewEvent
<1> HIDE DEF previous, id
<1>6. NewEvent(time) \in Event
  BY <1>1, <1>2, <1>3, <1>4, <1>5 DEF Event
<1>7. previous = LastHash(table)
  BY <1>1 DEF previous
<1> QED BY <1>5, <1>6, <1>7

\* Appending a linked event keeps a chain.
LEMMA LinkedAppend ==
  ASSUME NEW s \in Seq(Event), NEW e \in Event, Linked(s),
         e.previous_event_hash = LastHash(s),
         e.event_hash = ComputeHash(e.id, LastHash(s))
  PROVE  Linked(Append(s, e))
<1>1. /\ Append(s, e) \in Seq(Event)
      /\ Len(Append(s, e)) = Len(s) + 1 /\ Len(s) \in Nat
      /\ \A i \in 1 .. Len(s) : Append(s, e)[i] = s[i]
      /\ Append(s, e)[Len(s) + 1] = e
      /\ DOMAIN s = 1 .. Len(s) /\ DOMAIN Append(s, e) = 1 .. Len(s) + 1
  BY AppendProperties, LenProperties
<1>2. LastHash(s) = IF Len(s) + 1 = 1 THEN NoHash ELSE s[Len(s)].event_hash
  BY <1>1, EmptySeq DEF LastHash
<1> SUFFICES ASSUME NEW k \in 1 .. Len(s) + 1
             PROVE  /\ Append(s, e)[k].previous_event_hash =
                         IF k = 1 THEN NoHash ELSE Append(s, e)[k - 1].event_hash
                    /\ Append(s, e)[k].event_hash =
                         ComputeHash(Append(s, e)[k].id, Append(s, e)[k].previous_event_hash)
  BY <1>1 DEF Linked
<1>3. CASE k = Len(s) + 1
  <2>1. Append(s, e)[k] = e
    BY <1>1, <1>3
  <2>2. LastHash(s) = IF k = 1 THEN NoHash ELSE Append(s, e)[k - 1].event_hash
    <3>1. CASE Len(s) = 0
      BY <1>2, <1>3, <3>1
    <3>2. CASE Len(s) > 0
      <4>1. k - 1 = Len(s) /\ k # 1 /\ Len(s) \in 1 .. Len(s)
        BY <1>1, <1>3, <3>2
      <4>2. Append(s, e)[Len(s)] = s[Len(s)]
        BY <1>1, <4>1
      <4> QED BY <1>2, <1>3, <4>1, <4>2
    <3> QED BY <1>1, <3>1, <3>2
  <2> QED BY <2>1, <2>2
<1>4. CASE k \in 1 .. Len(s)
  BY <1>1, <1>4 DEF Linked
<1> QED BY <1>1, <1>3, <1>4

\* A prefix and its next element.
LEMMA CatchesUp ==
  ASSUME NEW s \in Seq(Event), NEW c \in Seq(Event),
         Len(s) = Len(c) + 1, c = SubSeq(s, 1, Len(c))
  PROVE  Append(c, s[Len(s)]) = s
<1>1. /\ Append(c, s[Len(s)]) \in Seq(Event)
      /\ Len(Append(c, s[Len(s)])) = Len(s)
      /\ \A i \in 1 .. Len(c) : Append(c, s[Len(s)])[i] = c[i]
      /\ Append(c, s[Len(s)])[Len(c) + 1] = s[Len(s)]
  BY AppendProperties, LenProperties, ElementOfSeq
<1>2. \A i \in 1 .. Len(c) : c[i] = s[i]
  BY LenProperties
<1> QED BY <1>1, <1>2, LenProperties, SeqEqual

\* What is behind by one.
LEMMA FallsBehind ==
  ASSUME NEW s \in Seq(Event), NEW e \in Event
  PROVE  /\ Len(Append(s, e)) = Len(s) + 1
         /\ s = SubSeq(Append(s, e), 1, Len(s))
<1>1. Len(Append(s, e)) = Len(s) + 1 /\ Append(s, e) \in Seq(Event) /\ Len(s) \in Nat
      /\ \A i \in 1 .. Len(s) : Append(s, e)[i] = s[i]
  BY AppendProperties, LenProperties
<1>2. SubSeq(Append(s, e), 1, Len(s)) = [i \in 1 .. Len(s) |-> Append(s, e)[i]]
  BY <1>1
<1>3. s = [i \in 1 .. Len(s) |-> s[i]]
  BY LenProperties
<1> QED BY <1>1, <1>2, <1>3

\* ChainInv is inductive.
LEMMA ChainStep == ChainInv /\ [Next]_vars => ChainInv'
<1> SUFFICES ASSUME ChainInv, [Next]_vars PROVE ChainInv'
  OBVIOUS
<1> USE DEF run, disk
<1>1. CASE Continue
  BY <1>1, EvidenceAssumption DEF Continue, At, ChainInv, EventsOK, EventType, Linked, ComputeHash
<1>2. CASE CommitEvent
  <2> PICK time \in 1 .. MaxTime : table' = Append(table, NewEvent(time))
    BY <1>2 DEF CommitEvent
  <2> DEFINE e == NewEvent(time)
  <2>1. pc # "cache" /\ cache = table /\ table \in Seq(Event)
    BY <1>2 DEF CommitEvent, At, ChainInv, EventsOK
  <2>2. /\ e \in Event
        /\ e.previous_event_hash = LastHash(table)
        /\ e.event_hash = ComputeHash(e.id, LastHash(table))
    BY <2>1, NewEventIsLinked
  <2>3. Linked(table)'
    <3>1. Linked(Append(table, e))
      BY <2>1, <2>2, LinkedAppend DEF ChainInv
    <3> QED BY <3>1 DEF Linked
  <2>4. table' \in Seq(Event)
    BY <2>1, <2>2, AppendProperties
  <2>5. Len(table') = Len(cache') + 1 /\ cache' = SubSeq(table', 1, Len(cache'))
    BY <1>2, <2>1, <2>2, FallsBehind DEF CommitEvent
  <2> QED BY <1>2, <2>3, <2>4, <2>5 DEF CommitEvent, ChainInv, EventsOK
<1>3. CASE CacheEvent
  <2>1. Append(cache, table[Len(table)]) = table
    BY <1>3, CatchesUp DEF CacheEvent, At, ChainInv, EventsOK
  <2> QED BY <1>3, <2>1 DEF CacheEvent, At, ChainInv, EventsOK, Linked
<1>4. CASE OpenFile \/ CloseFile \/ SurviveFailure \/ RecordArtifact \/ GenerateManifest \/ Stop
  BY <1>4 DEF OpenFile, CloseFile, SurviveFailure, RecordArtifact, GenerateManifest, Stop, At,
              ChainInv, EventsOK, EventType, Linked
<1>5. CASE UNCHANGED vars
  BY <1>5 DEF vars, ChainInv, EventsOK, Linked
<1> QED BY <1>1, <1>2, <1>3, <1>4, <1>5 DEF Next

\* Whatever stops the run, the events table is one chain (ChainIsIntact).
THEOREM ChainNeverForks == Spec => []ChainIsIntact
<1>1. Init => ChainInv
  <2>1. <<>> \in Seq(Event) /\ DOMAIN <<>> = {}
    BY EmptySeq
  <2> QED BY <2>1 DEF Init, ChainInv, EventsOK, EventType, Linked
<1>2. ChainInv => ChainIsIntact
  BY DEF ChainInv, ChainIsIntact, EventsOK
<1> QED BY <1>1, <1>2, ChainStep, PTL DEF Spec

-----------------------------------------------------------------------------
(* The files and the manifest. *)

\* Opening a file tears it and no other.
LEMMA OpeningTears ==
  ASSUME OpenFile
  PROVE  /\ files' = [d \in DOMAIN files' |-> files'[d]]
         /\ digest \in DOMAIN files' /\ ~Whole(digest)' /\ UNCHANGED digest
         /\ \A d : d # digest => (Whole(d)' <=> Whole(d))
         /\ \A d \in DOMAIN files : d \in DOMAIN files'
BY DEF OpenFile, Whole

\* Closing one makes it whole.
LEMMA ClosingMakesWhole ==
  ASSUME CloseFile, FilesOK
  PROVE  /\ files' = [d \in DOMAIN files' |-> files'[d]]
         /\ \A d : Whole(d) => Whole(d)'
         /\ \A d : d # digest /\ Whole(d)' => Whole(d)
         /\ DOMAIN files' = DOMAIN files
         /\ (digest \in DOMAIN files') /\ files'[digest] = "whole"
BY DEF CloseFile, FilesOK, Whole, At

\* What recording an artifact does to the rows.
LEMMA RecordingAppends ==
  ASSUME RecordArtifact, FilesOK
  PROVE  /\ \E S : rows' \in Seq(S)
         /\ DOMAIN rows' = 1 .. Len(rows) + 1
         /\ DOMAIN rows = 1 .. Len(rows) /\ Len(rows) \in Nat
         /\ \A k \in DOMAIN rows : rows'[k] = rows[k]
         /\ rows'[Len(rows) + 1] = digest
<1>1. PICK S : rows \in Seq(S)
  BY DEF FilesOK
<1> DEFINE T == S \union {digest}
<1>2. rows \in Seq(T) /\ digest \in T
  BY <1>1, SeqMonotonic
<1>3. rows' = Append(rows, digest)
  BY DEF RecordArtifact
<1> QED BY <1>2, <1>3, AppendProperties, LenProperties

\* FilesOK is inductive.
LEMMA FilesStep == FilesOK /\ [Next]_vars => FilesOK'
<1> SUFFICES ASSUME FilesOK, [Next]_vars PROVE FilesOK'
  OBVIOUS
<1> USE DEF run, disk
<1>1. CASE OpenFile
  <2>1. UNCHANGED <<rows, spoiled>>
    BY <1>1 DEF OpenFile
  <2>2. \A d \in spoiled : d \in DOMAIN files' /\ ~Whole(d)' /\ d[1] = "execution-log"
    BY <1>1, OpeningTears DEF FilesOK
  <2> QED BY <1>1, <2>1, <2>2, OpeningTears DEF FilesOK, Whole
<1>2. CASE CloseFile
  <2>1. UNCHANGED rows /\ spoiled' = spoiled \ {digest} /\ pc' # "close"
    BY <1>2 DEF CloseFile, At
  <2>2. \A d \in spoiled' : d \in DOMAIN files' /\ ~Whole(d)' /\ d[1] = "execution-log"
    BY <1>2, <2>1, ClosingMakesWhole DEF FilesOK
  <2> QED BY <1>2, <2>1, <2>2, ClosingMakesWhole DEF FilesOK, Whole
<1>3. CASE RecordArtifact
  <2>1. UNCHANGED disk /\ pc' # "close"
    BY <1>3 DEF RecordArtifact, At
  <2> QED BY <1>3, <2>1, RecordingAppends DEF FilesOK, Whole
<1>4. CASE SurviveFailure
  <2>1. UNCHANGED <<files, rows>> /\ pc' # "close" /\ digest[1] = "execution-log"
    BY <1>4 DEF SurviveFailure
  <2>2. spoiled' = IF pc = "close" THEN spoiled \union {digest} ELSE spoiled
    BY <1>4 DEF SurviveFailure
  <2> QED BY <2>1, <2>2 DEF FilesOK, Whole
<1>5. CASE Continue \/ CommitEvent \/ CacheEvent \/ GenerateManifest
  BY <1>5 DEF Continue, CommitEvent, CacheEvent, GenerateManifest, FilesOK, At, Whole
<1>6. CASE Stop \/ UNCHANGED vars
  BY <1>6 DEF Stop, vars, FilesOK, Whole
<1> QED BY <1>1, <1>2, <1>3, <1>4, <1>5, <1>6 DEF Next

\* StoringInv is inductive: an artifact is recorded once its file is whole,
\* and the chain's file is whole while the manifest's is written.
LEMMA StoringStep == ChainInv /\ FilesOK /\ StoringInv /\ [Next]_vars => StoringInv'
<1> SUFFICES ASSUME ChainInv, FilesOK, StoringInv, [Next]_vars PROVE StoringInv'
  OBVIOUS
<1> USE DEF run, disk
<1>1. CASE Continue
  BY <1>1 DEF Continue, At, StoringInv, Storing, Evidence
<1>2. CASE OpenFile
  <2>1. pc' = "close" /\ UNCHANGED <<digest, type, cache, rows>> /\ Storing
    BY <1>2 DEF OpenFile, At, Storing
  <2>2. ASSUME digest = <<"completion-manifest", ManifestOf(cache, rows)>>, Whole(Chain(cache))
        PROVE  Whole(Chain(cache))'
    <3>1. digest # Chain(cache)
      BY <2>2 DEF Chain
    <3> QED BY <1>2, <2>1, <2>2, <3>1, OpeningTears DEF Chain, Whole
  <2> QED BY <2>1, <2>2 DEF StoringInv, Storing, ManifestOf, Chain
<1>3. CASE CloseFile
  <2>1. pc = "close" /\ Storing /\ UNCHANGED <<type, cache, rows>>
    BY <1>3 DEF CloseFile, At, Storing
  <2>2. CASE digest[1] = "event-chain"
    <3>1. pc' = "open" /\ digest' = <<"completion-manifest", ManifestOf(cache, rows)>>
      BY <1>3, <2>2 DEF CloseFile
    <3>2. type = "ARTIFACT_STORED" /\ digest = Chain(cache)
      <4>1. type \in EventType /\ type # "COMPLETION_DECLARED" /\ type # "other"
        BY <2>1, <2>2 DEF ChainInv, EventsOK, StoringInv, Evidence
      <4>2. digest # <<"completion-manifest", ManifestOf(cache, rows)>>
        BY <2>2
      <4> QED BY <2>1, <4>1, <4>2 DEF StoringInv, EventType
    <3>3. Whole(Chain(cache))'
      BY <1>3, <2>1, <3>2, ClosingMakesWhole DEF Whole, Chain
    <3> QED BY <2>1, <3>1, <3>2, <3>3 DEF StoringInv, Storing, ManifestOf, Chain
  <2>3. CASE digest[1] # "event-chain"
    <3>1. pc' = "row" /\ UNCHANGED digest
      BY <1>3, <2>3 DEF CloseFile
    <3>2. Whole(digest)' /\ (Whole(Chain(cache)) => Whole(Chain(cache))')
      BY <1>3, <2>1, <3>1, ClosingMakesWhole DEF Whole, Chain
    <3>3. digest # Chain(cache)
      BY <2>3 DEF Chain
    <3> QED BY <2>1, <3>1, <3>2, <3>3 DEF StoringInv, Storing, ManifestOf, Chain
  <2> QED BY <2>2, <2>3
<1>4. CASE GenerateManifest
  BY <1>4 DEF GenerateManifest, At, StoringInv, Storing, Chain
<1>5. CASE SurviveFailure \/ RecordArtifact \/ CommitEvent \/ CacheEvent
  BY <1>5 DEF SurviveFailure, RecordArtifact, CommitEvent, CacheEvent, At, StoringInv, Storing
<1>6. CASE Stop \/ UNCHANGED vars
  BY <1>6 DEF Stop, vars, StoringInv, Storing, Whole, Chain, ManifestOf
<1> QED BY <1>1, <1>2, <1>3, <1>4, <1>5, <1>6 DEF Next

\* A manifest generated from the cache is sound once all it names is on disk.
LEMMA GeneratedManifestIsSound ==
  ASSUME Linked(cache), Whole(Chain(cache)), FilesOK,
         \A k \in DOMAIN rows : Whole(rows[k]) \/ rows[k] \in spoiled
  PROVE  Sound(ManifestOf(cache, rows))
<1> DEFINE m == ManifestOf(cache, rows)
<1>1. m.artifact_hashes = Range(rows) \union {Chain(cache)} /\ m.event_chain_head_hash = LastHash(cache)
  BY DEF ManifestOf
<1>2. \A h \in Range(rows) : Whole(h) \/ h \in spoiled
  BY DEF Range
<1>3. Chain(cache)[1] = "event-chain" /\ Chain(cache)[2] = cache
  BY DEF Chain
<1>4. \A d \in spoiled : ~Whole(d)
  BY DEF FilesOK
<1>5. Chain(cache) \in m.artifact_hashes
  BY <1>1
<1> HIDE DEF m
<1>6. (\A h \in m.artifact_hashes : Whole(h)) <=> m.artifact_hashes \intersect spoiled = {}
  BY <1>1, <1>2, <1>4
<1>7. VerifyManifest(m, StoreRunId) <=> \A h \in m.artifact_hashes : Whole(h)
  BY <1>1, <1>3, <1>5 DEF VerifyManifest
<1>8. Sound(m)
  BY <1>6, <1>7 DEF Sound
<1> QED BY <1>8 DEF m

\* A manifest stays sound while the files stay.
LEMMA SoundStaysSound ==
  ASSUME NEW m, Sound(m), UNCHANGED disk
  PROVE  Sound(m)'
BY DEF disk, Sound, VerifyManifest, Whole, Linked, LastHash

\* RowsInv is inductive: once a manifest is recorded no file is opened any more.
LEMMA RowsStep == ChainInv /\ FilesOK /\ StoringInv /\ RowsInv /\ [Next]_vars => RowsInv'
<1> SUFFICES ASSUME ChainInv, FilesOK, StoringInv, RowsInv, [Next]_vars PROVE RowsInv'
  OBVIOUS
<1> USE DEF run, disk
<1>1. ASSUME mode = "running", pc \notin {"commit", "cache"}
      PROVE  \A k \in DOMAIN rows : rows[k][1] # "completion-manifest"
  BY <1>1 DEF RowsInv
<1>2. CASE OpenFile
  <2>1. pc' = "close" /\ UNCHANGED <<digest, rows>> /\ mode = "running" /\ pc = "open"
    BY <1>2 DEF OpenFile, At
  <2>2. \A k \in DOMAIN rows : Whole(rows[k])' \/ digest = rows[k] \/ rows[k] \in spoiled'
    BY <1>2, <2>1, OpeningTears DEF RowsInv, OpenFile
  <2> QED BY <1>1, <2>1, <2>2 DEF RowsInv, Whole
<1>3. CASE CloseFile
  <2>1. UNCHANGED rows /\ mode = "running" /\ pc = "close"
    BY <1>3 DEF CloseFile, At
  <2>2. \A k \in DOMAIN rows : Whole(rows[k])' \/ rows[k] \in spoiled'
    <3> PICK d : d = digest
      OBVIOUS
    <3>1. spoiled' = spoiled \ {d} /\ Whole(d)'
      BY <1>3, ClosingMakesWhole DEF CloseFile, Whole
    <3>2. \A k \in DOMAIN rows : Whole(rows[k]) \/ rows[k] = d \/ rows[k] \in spoiled
      BY DEF RowsInv
    <3>3. \A e : Whole(e) => Whole(e)'
      BY <1>3, ClosingMakesWhole
    <3> QED BY <2>1, <3>1, <3>2, <3>3
  <2> QED BY <1>1, <2>1, <2>2 DEF RowsInv, Whole
<1>4. CASE RecordArtifact
  <2>1. /\ pc' = "commit" /\ UNCHANGED <<disk, type, cache, table>>
        /\ mode = "running" /\ pc = "row"
    BY <1>4 DEF RecordArtifact, At
  <2>2. \A k \in DOMAIN rows : Whole(rows[k]) \/ rows[k] \in spoiled
    BY <2>1 DEF RowsInv
  <2>3. ASSUME digest[1] = "completion-manifest"
        PROVE  Sound(digest[2]) /\ type = "ARTIFACT_STORED"
    <3>1. type = "ARTIFACT_STORED"
      <4>1. type \in EventType /\ type # "COMPLETION_DECLARED"
        BY <2>1 DEF ChainInv, EventsOK, StoringInv, Storing
      <4>2. type # "other"
        BY <2>1, <2>3 DEF StoringInv, Storing, Evidence
      <4> QED BY <4>1, <4>2 DEF EventType
    <3>2. digest = <<"completion-manifest", ManifestOf(cache, rows)>> /\ Whole(Chain(cache))
      BY <2>1, <3>1 DEF StoringInv, Storing
    <3>3. Linked(cache)
      BY <2>1 DEF ChainInv
    <3>4. digest[2] = ManifestOf(cache, rows)
      BY <3>2
    <3> QED BY <2>2, <3>1, <3>2, <3>3, <3>4, GeneratedManifestIsSound
  <2>4. \A d : Whole(d) \/ d \in spoiled => Whole(d)' \/ d \in spoiled'
    BY <2>1 DEF Whole
  <2>5. Whole(digest)
    BY <2>1 DEF StoringInv
  <2>6. ASSUME NEW k \in DOMAIN rows'
        PROVE  (/\ Whole(rows[k]) \/ rows[k] \in spoiled
                /\ rows[k][1] = "completion-manifest" => Sound(rows[k][2]))'
    <3>1. PICK d : d = rows'[k]
      OBVIOUS
    <3>2. (Whole(d) \/ d \in spoiled) /\ (d[1] = "completion-manifest" => Sound(d[2]))
      <4>1. CASE k \in DOMAIN rows
        BY <1>1, <1>4, <2>1, <2>2, <3>1, <4>1, RecordingAppends
      <4>2. CASE k = Len(rows) + 1
        BY <1>4, <2>3, <2>5, <3>1, <4>2, RecordingAppends
      <4> QED BY <1>4, <4>1, <4>2, RecordingAppends
    <3>3. (Whole(d) \/ d \in spoiled)' /\ (d[1] = "completion-manifest" => Sound(d[2])')
      BY <2>1, <2>4, <3>2, SoundStaysSound
    <3> QED BY <3>1, <3>3
  <2>7. ASSUME NEW k \in DOMAIN rows', rows'[k][1] = "completion-manifest"
        PROVE  type = "ARTIFACT_STORED"
    <3>1. rows'[k] = digest
      BY <1>1, <1>4, <2>1, <2>7, RecordingAppends
    <3> QED BY <2>3, <2>7, <3>1
  <2> QED BY <2>1, <2>6, <2>7 DEF RowsInv
<1>5. CASE Continue \/ GenerateManifest
  BY <1>1, <1>5 DEF Continue, GenerateManifest, At, RowsInv, Whole
<1>6. CASE SurviveFailure
  <2>1. /\ UNCHANGED <<files, rows>> /\ mode = "running" /\ pc \in {"open", "close"}
        /\ spoiled' = IF pc = "close" THEN spoiled \union {digest} ELSE spoiled
    BY <1>6 DEF SurviveFailure, At
  <2>2. \A k \in DOMAIN rows : Whole(rows[k])' \/ rows[k] \in spoiled'
    BY <2>1 DEF RowsInv, Whole
  <2> QED BY <1>1, <2>1, <2>2 DEF RowsInv
<1>7. CASE CommitEvent \/ CacheEvent \/ Stop \/ UNCHANGED vars
  <2>1. /\ UNCHANGED <<disk, rows, digest, type>>
        /\ pc' = "close" <=> pc = "close"
        /\ pc \in {"commit", "cache"} \/ mode = "returned" =>
             (type = "ARTIFACT_STORED" => pc' \in {"commit", "cache"} \/ mode' = "returned")
    BY <1>7 DEF CommitEvent, CacheEvent, Stop, vars, At
  <2>2. \A d : Whole(d) => Whole(d)'
    BY <2>1 DEF Whole
  <2> QED BY <2>1, <2>2, SoundStaysSound DEF RowsInv
<1> QED BY <1>2, <1>3, <1>4, <1>5, <1>6, <1>7 DEF Next

LEMMA EvidenceInductive == Spec => []EvidenceInv
<1>1. Init => EvidenceInv
  <2>1. <<>> \in Seq(Event) /\ DOMAIN <<>> = {}
    BY EmptySeq
  <2> QED BY <2>1 DEF Init, EvidenceInv, ChainInv, EventsOK, EventType, Linked, FilesOK,
                      StoringInv, Storing, RowsInv
<1>2. EvidenceInv /\ [Next]_vars => EvidenceInv'
  BY ChainStep, FilesStep, StoringStep, RowsStep DEF EvidenceInv
<1> QED BY <1>1, <1>2, PTL DEF Spec

\* A manifest that can be found verifies, whenever the reader looks and
\* wherever the run was stopped, if and only if it names no execution log that
\* a failed write left torn (FoundManifestVerifies).
THEOREM FoundManifestsVerify == Spec => []FoundManifestVerifies
<1>1. EvidenceInv => FoundManifestVerifies
  BY DEF EvidenceInv, RowsInv, Sound, FoundManifestVerifies, ManifestRows
<1> QED BY <1>1, EvidenceInductive, PTL

\* The evidence a row names is on disk, except while its file is written once
\* more, and except an execution log for which that failed and the run went on
\* (RecordedFilesAreWhole; store.py:26, controller.py:809).
THEOREM RecordedFilesStay == Spec => []RecordedFilesAreWhole
<1>1. EvidenceInv => RecordedFilesAreWhole
  BY DEF EvidenceInv, RowsInv, RecordedFilesAreWhole, Range
<1> QED BY <1>1, EvidenceInductive, PTL

-----------------------------------------------------------------------------
(* What a manifest seals. *)

Sealing == pc = "generate" \/ (Storing /\ type = "ARTIFACT_STORED")

\* The manifest m, recorded in the last row, covers the events up to the n-th.
Seals(m, n) ==
  /\ n \in DOMAIN table
  /\ m.event_chain_head_hash = table[n].event_hash
  /\ table[n].event_type = "COMPLETION_DECLARED"
  /\ IF pc = "commit" THEN n = Len(table) ELSE n + 1 = Len(table)
  /\ {h \in m.artifact_hashes : h[1] # "event-chain"} = {rows[i] : i \in 1 .. Len(rows) - 1}

SealInv ==
  /\ \A k \in DOMAIN table : Len(table[k].event_hash) = k
  /\ pc = "cache" => table[Len(table)].event_type = type
  /\ Sealing => table # <<>> /\ table[Len(table)].event_type = "COMPLETION_DECLARED"
  /\ \A k \in DOMAIN rows : rows[k][1] # "event-chain"
  /\ \A k \in DOMAIN rows : rows[k][1] = "completion-manifest" =>
       k = Len(rows) /\ \E n \in DOMAIN table : Seals(rows[k][2], n)

\* What a committed event does to the table.
LEMMA CommitAppends ==
  ASSUME ChainInv, SealInv, CommitEvent
  PROVE  /\ DOMAIN table = 1 .. Len(table) /\ DOMAIN table' = 1 .. Len(table) + 1
         /\ Len(table') = Len(table) + 1 /\ Len(table) \in Nat
         /\ \A k \in DOMAIN table : table'[k] = table[k]
         /\ table'[Len(table) + 1].event_type = type
         /\ Len(table'[Len(table) + 1].event_hash) = Len(table) + 1
<1> PICK time \in 1 .. MaxTime : table' = Append(table, NewEvent(time))
  BY DEF CommitEvent
<1>1. pc # "cache" /\ cache = table /\ table \in Seq(Event)
  BY DEF CommitEvent, At, ChainInv, EventsOK
<1>2. NewEvent(time) \in Event /\ NewEvent(time).event_type = type
  BY <1>1, NewEventIsLinked DEF NewEvent
<1>3. /\ DOMAIN table = 1 .. Len(table) /\ DOMAIN table' = 1 .. Len(table) + 1
      /\ Len(table') = Len(table) + 1 /\ Len(table) \in Nat
      /\ \A k \in DOMAIN table : table'[k] = table[k]
      /\ table'[Len(table) + 1] = NewEvent(time)
  BY <1>1, <1>2, AppendProperties, LenProperties
<1>4. LastHash(table) \in Seq(Nat) /\ Len(LastHash(table)) = Len(table)
  <2>1. CASE table = <<>>
    BY <2>1, EmptySeq DEF LastHash, NoHash
  <2>2. CASE table # <<>>
    <3>1. Len(table) \in DOMAIN table /\ table[Len(table)] \in Event
      BY <1>1, <1>3, <2>2, EmptySeq, ElementOfSeq
    <3> QED BY <2>2, <3>1 DEF LastHash, SealInv, Event
  <2> QED BY <2>1, <2>2
<1>5. NewEvent(time).event_hash = Append(LastHash(table), NewEvent(time).id) /\ NewEvent(time).id \in Nat
  BY <1>1, <1>2, NewEventIsLinked DEF ComputeHash, Event
<1>6. Len(NewEvent(time).event_hash) = Len(table) + 1
  BY <1>4, <1>5, AppendProperties
<1> QED BY <1>2, <1>3, <1>6

LEMMA SealStep == EvidenceInv /\ SealInv /\ [Next]_vars => SealInv'
<1> SUFFICES ASSUME EvidenceInv, SealInv, [Next]_vars PROVE SealInv'
  OBVIOUS
<1> USE DEF run, disk
<1>0. ChainInv /\ FilesOK /\ StoringInv /\ RowsInv
  BY DEF EvidenceInv
<1>1. ASSUME mode = "running", pc \notin {"commit", "cache"}
      PROVE  \A k \in DOMAIN rows : rows[k][1] # "completion-manifest"
  BY <1>0, <1>1 DEF RowsInv
<1>2. CASE Continue \/ OpenFile \/ CloseFile \/ SurviveFailure \/ GenerateManifest
  <2>1. UNCHANGED <<table, rows>> /\ mode = "running" /\ pc \notin {"commit", "cache"}
    BY <1>2 DEF Continue, OpenFile, CloseFile, SurviveFailure, GenerateManifest, At
  <2>2. pc' # "cache" /\ (Sealing' => Sealing)
    BY <1>2 DEF Continue, OpenFile, CloseFile, SurviveFailure, GenerateManifest, At, Sealing, Storing
  <2> QED BY <1>1, <2>1, <2>2 DEF SealInv
<1>3. CASE CommitEvent
  <2>1. /\ UNCHANGED <<rows, type>> /\ mode = "running" /\ pc = "commit" /\ pc' = "cache"
    BY <1>3 DEF CommitEvent, At
  <2>2. ASSUME NEW k \in DOMAIN rows, rows[k][1] = "completion-manifest"
        PROVE  k = Len(rows) /\ \E n \in DOMAIN table' : Seals(rows[k][2], n)'
    <3>1. PICK n \in DOMAIN table : Seals(rows[k][2], n)
      BY <2>2 DEF SealInv
    <3>2. Seals(rows[k][2], n)' /\ n \in DOMAIN table'
      BY <1>0, <1>3, <2>1, <3>1, CommitAppends DEF Seals
    <3> QED BY <2>2, <3>2 DEF SealInv
  <2> QED BY <1>0, <1>3, <2>1, <2>2, CommitAppends DEF SealInv, Sealing, Storing
<1>4. CASE CacheEvent
  <2>1. /\ UNCHANGED <<rows, type, table>> /\ mode = "running" /\ pc = "cache"
        /\ pc' = IF type = "COMPLETION_DECLARED" THEN "generate" ELSE "ready"
    BY <1>4 DEF CacheEvent, At
  <2>2. table # <<>>
    BY <1>0, <2>1, EmptySeq, LenProperties DEF ChainInv, EventsOK
  <2>3. \A k \in DOMAIN rows : \A n \in DOMAIN table : Seals(rows[k][2], n) => Seals(rows[k][2], n)'
    BY <2>1 DEF Seals
  <2> QED BY <2>1, <2>2, <2>3 DEF SealInv, Sealing, Storing
<1>5. CASE RecordArtifact
  <2>1. UNCHANGED <<table, type, cache, digest>> /\ mode = "running" /\ pc = "row" /\ pc' = "commit"
    BY <1>5 DEF RecordArtifact, At
  <2>2. \A k \in DOMAIN rows : rows[k][1] \notin {"completion-manifest", "event-chain"}
    BY <1>1, <2>1 DEF SealInv
  <2>3. CASE type = "other"
    <3>1. digest[1] \notin {"completion-manifest", "event-chain"}
      BY <1>0, <2>1, <2>3 DEF StoringInv, Storing, Evidence
    <3>2. \A k \in DOMAIN rows' : rows'[k][1] \notin {"completion-manifest", "event-chain"}
      BY <1>0, <1>5, <2>2, <3>1, RecordingAppends
    <3> QED BY <2>1, <3>2 DEF SealInv, Sealing, Storing
  <2>4. CASE type = "ARTIFACT_STORED"
    <3>1. digest = <<"completion-manifest", ManifestOf(cache, rows)>> /\ cache = table
      BY <1>0, <2>1, <2>4 DEF StoringInv, Storing, ChainInv
    <3>2. /\ table # <<>> /\ table[Len(table)].event_type = "COMPLETION_DECLARED"
      BY <2>1, <2>4 DEF SealInv, Sealing, Storing
    <3>3. Len(table) \in DOMAIN table
      BY <1>0, <3>2, EmptySeq, LenProperties DEF ChainInv, EventsOK
    <3> PICK m : m = ManifestOf(cache, rows)
      OBVIOUS
    <3>4. /\ m.event_chain_head_hash = table[Len(table)].event_hash
          /\ m.artifact_hashes = Range(rows) \union {Chain(cache)}
      BY <3>1, <3>2 DEF ManifestOf, LastHash
    <3>5. {h \in m.artifact_hashes : h[1] # "event-chain"} = {rows[i] : i \in DOMAIN rows}
      BY <2>2, <3>4 DEF Range, Chain
    <3>6. digest[1] = "completion-manifest" /\ digest[2] = m
      BY <3>1
    <3>7. /\ Len(rows') = Len(rows) + 1 /\ Len(rows) \in Nat /\ DOMAIN rows = 1 .. Len(rows)
          /\ DOMAIN rows' = 1 .. Len(rows) + 1
          /\ rows'[Len(rows) + 1] = digest
          /\ \A k \in DOMAIN rows : rows'[k] = rows[k]
      BY <1>0, <1>5, RecordingAppends, LenProperties
    <3>8. {rows[i] : i \in DOMAIN rows} = {rows'[i] : i \in 1 .. Len(rows') - 1}
      BY <3>7
    <3> PICK n : n = Len(table)
      OBVIOUS
    <3>9. Seals(m, n)' /\ n \in DOMAIN table'
      BY <2>1, <3>2, <3>3, <3>4, <3>5, <3>8 DEF Seals
    <3>10. \A k \in DOMAIN rows' : rows'[k][1] # "event-chain"
      BY <2>2, <3>6, <3>7
    <3>11. ASSUME NEW k \in DOMAIN rows', rows'[k][1] = "completion-manifest"
           PROVE  k = Len(rows') /\ \E e \in DOMAIN table' : Seals(rows[k][2], e)'
      <4>1. k = Len(rows) + 1
        BY <2>2, <3>7, <3>11
      <4>2. rows'[k][2] = m
        BY <3>6, <3>7, <4>1
      <4> QED BY <3>7, <3>9, <4>1, <4>2
    <3> QED BY <2>1, <3>10, <3>11 DEF SealInv, Sealing, Storing
  <2> QED BY <1>0, <2>1, <2>3, <2>4 DEF ChainInv, EventsOK, EventType, StoringInv, Storing
<1>6. CASE Stop \/ UNCHANGED vars
  <2>1. UNCHANGED <<table, rows, pc, type>>
    BY <1>6 DEF Stop, vars
  <2> QED BY <2>1 DEF SealInv, Seals, Sealing, Storing
<1> QED BY <1>2, <1>3, <1>4, <1>5, <1>6 DEF Next

\* A manifest covers the whole chain up to the declared completion and every
\* artifact recorded before it, wherever the run was stopped
\* (ManifestSealsTheRun; manifest.py:55-93).
THEOREM ManifestsSealRuns == Spec => []ManifestSealsTheRun
<1>1. Init => SealInv
  <2>1. DOMAIN <<>> = {}
    BY EmptySeq
  <2> QED BY <2>1 DEF Init, SealInv, Sealing, Storing
<1>2. EvidenceInv /\ SealInv /\ [Next]_vars => SealInv'
  BY SealStep
<1>3. EvidenceInv /\ SealInv => ManifestSealsTheRun
  <2> SUFFICES ASSUME EvidenceInv, SealInv, NEW k \in ManifestRows
               PROVE  LET manifest == rows[k][2]
                          n        == Len(manifest.event_chain_head_hash)
                      IN  /\ k = Len(rows)
                          /\ n \in DOMAIN table /\ n + 1 >= Len(table)
                          /\ table[n].event_hash = manifest.event_chain_head_hash
                          /\ table[n].event_type = "COMPLETION_DECLARED"
                          /\ {h \in manifest.artifact_hashes : h[1] # "event-chain"}
                               = {rows[i] : i \in 1 .. k - 1}
    BY DEF ManifestSealsTheRun
  <2>1. k \in DOMAIN rows /\ rows[k][1] = "completion-manifest"
    BY DEF ManifestRows
  <2>2. PICK n \in DOMAIN table : Seals(rows[k][2], n)
    BY <2>1 DEF SealInv
  <2>3. k = Len(rows) /\ n = Len(rows[k][2].event_chain_head_hash)
    BY <2>1, <2>2 DEF SealInv, Seals
  <2>4. n \in Nat /\ Len(table) \in Nat
    BY LenProperties DEF EvidenceInv, ChainInv, EventsOK
  <2> QED BY <2>2, <2>3, <2>4 DEF Seals
<1> QED BY <1>1, <1>2, <1>3, EvidenceInductive, PTL DEF Spec

-----------------------------------------------------------------------------
(* The order of reading back. *)

OrderInv ==
  /\ \A i, j \in DOMAIN table : i <= j => table[i].iteration <= table[j].iteration
  /\ \A i \in DOMAIN table : table[i].iteration <= iteration

LEMMA OrderStep == ChainInv /\ OrderInv /\ [Next]_vars => OrderInv'
<1> SUFFICES ASSUME ChainInv, OrderInv, [Next]_vars PROVE OrderInv'
  OBVIOUS
<1> USE DEF run, disk
<1>1. /\ iteration \in Nat /\ table \in Seq(Event)
      /\ DOMAIN table = 1 .. Len(table) /\ Len(table) \in Nat
      /\ \A i \in DOMAIN table : table[i].iteration \in Nat
  <2>1. iteration \in Nat /\ table \in Seq(Event)
    BY DEF ChainInv, EventsOK
  <2>2. DOMAIN table = 1 .. Len(table) /\ Len(table) \in Nat
    BY <2>1, LenProperties
  <2>3. ASSUME NEW i \in DOMAIN table PROVE table[i].iteration \in Nat
    <3>1. table[i] \in Event
      BY <2>1, <2>2, <2>3, ElementOfSeq
    <3> QED BY <3>1 DEF Event
  <2> QED BY <2>1, <2>2, <2>3
<1>2. CASE CommitEvent
  <2> PICK time \in 1 .. MaxTime : table' = Append(table, NewEvent(time))
    BY <1>2 DEF CommitEvent
  <2>1. NewEvent(time) \in Event /\ NewEvent(time).iteration = iteration /\ UNCHANGED iteration
    BY <1>2, NewEventIsLinked DEF CommitEvent, At, NewEvent
  <2>2. /\ DOMAIN table' = 1 .. Len(table) + 1
        /\ \A k \in DOMAIN table : table'[k] = table[k]
        /\ table'[Len(table) + 1].iteration = iteration
    BY <1>1, <2>1, AppendProperties, LenProperties
  <2> QED BY <1>1, <2>1, <2>2 DEF OrderInv
<1>3. CASE Continue
  <2>1. UNCHANGED table /\ iteration' >= iteration /\ iteration' \in Nat
    BY <1>1, <1>3, EvidenceAssumption DEF Continue
  <2> QED BY <1>1, <2>1 DEF OrderInv
<1>4. CASE OpenFile \/ CloseFile \/ SurviveFailure \/ RecordArtifact \/ CacheEvent
           \/ GenerateManifest \/ Stop \/ UNCHANGED vars
  <2>1. UNCHANGED <<table, iteration>>
    BY <1>4 DEF OpenFile, CloseFile, SurviveFailure, RecordArtifact, CacheEvent, GenerateManifest,
                Stop, vars
  <2> QED BY <2>1 DEF OrderInv
<1> QED BY <1>2, <1>3, <1>4 DEF Next

\* The only order that keeps what is in order is the one it is in.
LEMMA SortedIsInPlace ==
  ASSUME NEW n \in Nat, NEW q \in Bijection(1 .. n, 1 .. n),
         \A i, j \in 1 .. n : i < j => q[i] <= q[j]
  PROVE  \A k \in 1 .. n : IF k = 1 THEN q[k] = 1 ELSE q[k] = q[k - 1] + 1
<1>0. q \in Injection(1 .. n, 1 .. n) /\ q \in Surjection(1 .. n, 1 .. n)
  BY DEF Bijection
<1>1. /\ q \in [1 .. n -> 1 .. n]
      /\ \A i, j \in 1 .. n : q[i] = q[j] => i = j
      /\ \A w \in 1 .. n : \E v \in 1 .. n : q[v] = w
  BY <1>0, Zenon DEF Injection, Surjection, IsInjective
<1>2. \A i, j \in 1 .. n : i < j => q[i] < q[j]
  <2> SUFFICES ASSUME NEW i \in 1 .. n, NEW j \in 1 .. n, i < j PROVE q[i] < q[j]
    OBVIOUS
  <2>1. q[i] <= q[j] /\ q[i] # q[j]
    BY <1>1
  <2> QED BY <1>1, <2>1
<1> SUFFICES ASSUME NEW k \in 1 .. n PROVE IF k = 1 THEN q[k] = 1 ELSE q[k] = q[k - 1] + 1
  OBVIOUS
<1>3. CASE k = 1
  <2>1. PICK v \in 1 .. n : q[v] = 1
    BY <1>1, <1>3
  <2>2. k < v => q[k] < q[v]
    BY <1>2
  <2>3. q[k] \in 1 .. n /\ q[k] >= 1
    BY <1>1
  <2>4. ~(k < v)
    BY <2>1, <2>2, <2>3
  <2>5. v = k
    BY <1>3, <2>4
  <2> QED BY <1>3, <2>1, <2>5
<1>4. CASE k > 1
  <2>0. k - 1 \in 1 .. n
    BY <1>4
  <2>1. /\ k - 1 \in 1 .. n /\ q[k - 1] < q[k]
        /\ q[k - 1] \in 1 .. n /\ q[k] \in 1 .. n
    BY <1>1, <1>2, <2>0
  <2>2. PICK v \in 1 .. n : q[v] = q[k - 1] + 1
    <3>1. q[k - 1] + 1 \in 1 .. n
      BY <2>1
    <3> QED BY <1>1, <3>1
  <2>3. ~(v < k)
    <3>1. v < k - 1 => q[v] < q[k - 1]
      BY <1>2, <2>1
    <3>2. v # k - 1
      BY <2>1, <2>2
    <3>3. ~(v < k - 1)
      BY <1>1, <2>1, <2>2, <3>1
    <3> QED BY <2>1, <3>2, <3>3
  <2>4. k < v => q[k] < q[v]
    BY <1>2
  <2>5. ~(k < v)
    BY <1>1, <2>1, <2>2, <2>4
  <2>6. v = k
    BY <2>3, <2>5
  <2> QED BY <1>4, <2>2, <2>6
<1> QED BY <1>3, <1>4

\* Where the clock moved on between the events of an iteration, the list read
\* back is the chain in the order of its commits (ReadBackIsTheChain;
\* repositories.py:67-81).
THEOREM ChainsReadBack == Spec => []ReadBackIsTheChain
<1>1. Init => OrderInv
  <2>1. DOMAIN <<>> = {}
    BY EmptySeq
  <2> QED BY <2>1 DEF Init, OrderInv
<1>2. ChainInv /\ OrderInv /\ [Next]_vars => OrderInv'
  BY OrderStep
<1>3. ChainInv /\ OrderInv => ReadBackIsTheChain
  <2> SUFFICES ASSUME ChainInv, OrderInv,
                      \A i, j \in DOMAIN table :
                        i < j /\ table[i].iteration = table[j].iteration
                          => table[i].timestamp < table[j].timestamp,
                      NEW events \in ReadBacks
               PROVE  Linked(events)
    BY DEF ReadBackIsTheChain
  <2> DEFINE n == Len(table)
  <2>1. DOMAIN table = 1 .. n /\ n \in Nat
    BY LenProperties DEF ChainInv, EventsOK
  <2>2. PICK q \in Bijection(DOMAIN table, DOMAIN table) :
          /\ events = [k \in DOMAIN table |-> table[q[k]]]
          /\ \A i, j \in DOMAIN table : i < j => ~Before(table[q[j]], table[q[i]])
    BY DEF ReadBacks
  <2>3. \A i \in 1 .. n : q[i] \in 1 .. n
    BY <2>1, <2>2 DEF Bijection, Injection
  <2>4. \A i \in DOMAIN table : table[i].iteration \in Nat
    <3> SUFFICES ASSUME NEW i \in DOMAIN table PROVE table[i].iteration \in Nat
      OBVIOUS
    <3>1. table[i] \in Event
      BY <2>1, ElementOfSeq DEF ChainInv, EventsOK
    <3> QED BY <3>1 DEF Event
  <2>5. \A i, j \in DOMAIN table : i < j => Before(table[i], table[j])
    BY <2>1, <2>4 DEF OrderInv, Before
  <2>6. \A i, j \in 1 .. n : i < j => q[i] <= q[j]
    BY <2>1, <2>2, <2>3, <2>5
  <2> HIDE DEF n
  <2>7. \A k \in 1 .. n : IF k = 1 THEN q[k] = 1 ELSE q[k] = q[k - 1] + 1
    BY <2>1, <2>2, <2>6, SortedIsInPlace
  <2>8. ASSUME NEW k \in 1 .. n
        PROVE  /\ events[k].previous_event_hash =
                    IF k = 1 THEN NoHash ELSE events[k - 1].event_hash
               /\ events[k].event_hash = ComputeHash(events[k].id, events[k].previous_event_hash)
    <3>1. events[k] = table[q[k]] /\ q[k] \in 1 .. n
      BY <2>1, <2>2, <2>3
    <3>2. CASE k = 1
      BY <2>1, <2>7, <3>1, <3>2 DEF ChainInv, Linked
    <3>3. CASE k # 1
      <4>1. k - 1 \in 1 .. n /\ events[k - 1] = table[q[k - 1]] /\ q[k - 1] \in 1 .. n
        BY <2>1, <2>2, <2>3, <3>3
      <4>2. q[k] # 1 /\ q[k] - 1 = q[k - 1]
        BY <2>7, <3>3, <4>1
      <4> QED BY <2>1, <3>1, <3>3, <4>1, <4>2 DEF ChainInv, Linked
    <3> QED BY <3>2, <3>3
  <2>9. DOMAIN events = 1 .. n
    BY <2>1, <2>2
  <2> QED BY <2>8, <2>9 DEF Linked
<1>4. EvidenceInv => ChainInv
  BY DEF EvidenceInv
<1> QED BY <1>1, <1>2, <1>3, <1>4, EvidenceInductive, PTL DEF Spec

-----------------------------------------------------------------------------
(* Types. *)

LEMMA TypeStep == TypeOK /\ EvidenceInv /\ EvidenceInv' /\ [Next]_vars => TypeOK'
<1> SUFFICES ASSUME TypeOK, EvidenceInv, EvidenceInv', [Next]_vars PROVE TypeOK'
  OBVIOUS
<1> USE DEF run, disk
<1>1. /\ mode' \in {"running", "returned", "stopped"}
      /\ pc' \in {"ready", "open", "close", "row", "commit", "cache", "generate"}
      /\ type' \in EventType
  BY DEF TypeOK, EventType, Next, Continue, OpenFile, CloseFile, SurviveFailure, RecordArtifact,
         CommitEvent, CacheEvent, GenerateManifest, Stop, vars, At
<1>2. iteration' \in 0 .. MaxIteration
  BY EvidenceAssumption DEF TypeOK, Next, Continue, OpenFile, CloseFile, SurviveFailure,
     RecordArtifact, CommitEvent, CacheEvent, GenerateManifest, Stop, vars
<1>3. \A k \in DOMAIN table' : table'[k].id = k /\ table'[k].timestamp \in 1 .. MaxTime
  <2>1. CASE CommitEvent
    <3> PICK time \in 1 .. MaxTime : table' = Append(table, NewEvent(time))
      BY <2>1 DEF CommitEvent
    <3>1. NewEvent(time) \in Event /\ table \in Seq(Event)
      BY <2>1, NewEventIsLinked DEF CommitEvent, At, EvidenceInv, ChainInv, EventsOK
    <3>2. NewEvent(time).id = Len(table) + 1 /\ NewEvent(time).timestamp = time
      BY DEF NewEvent
    <3>3. /\ DOMAIN table = 1 .. Len(table) /\ DOMAIN table' = 1 .. Len(table) + 1
          /\ \A k \in 1 .. Len(table) : table'[k] = table[k]
          /\ table'[Len(table) + 1] = NewEvent(time) /\ Len(table) \in Nat
      BY <3>1, AppendProperties, LenProperties
    <3> QED BY <3>2, <3>3 DEF TypeOK
  <2>2. CASE UNCHANGED table
    BY <2>2 DEF TypeOK
  <2> QED BY <2>1, <2>2 DEF Next, Continue, OpenFile, CloseFile, SurviveFailure, RecordArtifact,
              CacheEvent, GenerateManifest, Stop, vars
<1>4. Range(files') \subseteq {"whole", "torn"}
  BY DEF TypeOK, Range, Next, Continue, OpenFile, CloseFile, SurviveFailure, RecordArtifact,
     CommitEvent, CacheEvent, GenerateManifest, Stop, vars
<1>5. Range(rows') \subseteq DOMAIN files'
  <2>1. ASSUME NEW k \in DOMAIN rows' PROVE rows'[k] \in DOMAIN files'
    BY <2>1 DEF EvidenceInv, FilesOK, RowsInv, Whole
  <2> QED BY <2>1 DEF Range
<1>6. spoiled' \subseteq {d \in DOMAIN files' : d[1] = "execution-log"}
  BY DEF EvidenceInv, FilesOK
<1> QED BY <1>1, <1>2, <1>3, <1>4, <1>5, <1>6 DEF TypeOK, EventType

\* In every run each variable keeps its type, event ids count up and every
\* recorded artifact has a file (TypeOK).
THEOREM TypeCorrect == Spec => []TypeOK
<1>1. Init => TypeOK
  <2>1. DOMAIN <<>> = {}
    BY EmptySeq
  <2> QED BY <2>1, EvidenceAssumption DEF Init, TypeOK, Range
<1>2. TypeOK /\ EvidenceInv /\ EvidenceInv' /\ [Next]_vars => TypeOK'
  BY TypeStep
<1> QED BY <1>1, <1>2, EvidenceInductive, PTL DEF Spec

=============================================================================
