------------------------ MODULE FileDownload_proofs ------------------------
(***************************************************************************)
(* Proofs about FileDownload, for every number of chunks, versions,        *)
(* permits, attempts, runs and faults.                                     *)
(***************************************************************************)
EXTENDS FileDownload, FiniteSetTheorems, SequenceTheorems, WellFoundedInduction, TLAPS

-----------------------------------------------------------------------------
(* Facts about manifest entries and files.                                 *)

\* The fields of a manifest entry (ManifestChunk, FileTask).
LEMMA ChunkType ==
    ASSUME NEW v \in Versions
    PROVE  /\ chunks(v) \in Seq(Chunk)
           /\ Len(chunks(v)) \in Nat
           /\ \A i \in Indices(v) : chunks(v)[i] \in Chunk
           /\ size(v) \in Nat \cup {None}
  <1>1. Manifest[v] \in FileEntry
    BY ManifestAssumption
  <1>2. chunks(v) \in Seq(Chunk) /\ size(v) \in Nat \cup {None}
    BY <1>1 DEF FileEntry, chunks, size
  <1>3. Len(chunks(v)) \in Nat /\ \A i \in Indices(v) : chunks(v)[i] \in Chunk
    BY <1>2, LenProperties, ElementOfSeq DEF Indices
  <1>4. QED
    BY <1>2, <1>3

\* What seek and write_all leave behind: the slot has the new bytes, every
\* other slot of the old file is as it was.
LEMMA WriteAtProperties ==
    ASSUME NEW f \in File, NEW s \in Nat \ {0}, NEW data \in Content
    PROVE  /\ WriteAt(f, s, data) \in File
           /\ Len(WriteAt(f, s, data)) \in Nat
           /\ Len(f) <= Len(WriteAt(f, s, data))
           /\ s <= Len(WriteAt(f, s, data))
           /\ WriteAt(f, s, data)[s] = data
           /\ \A i \in 1 .. Len(f) : i # s => WriteAt(f, s, data)[i] = f[i]
  <1> DEFINE n == IF s > Len(f) THEN s ELSE Len(f)
             g == WriteAt(f, s, data)
  <1>1. Len(f) \in Nat /\ \A i \in 1 .. Len(f) : f[i] \in Content
    BY LenProperties, ElementOfSeq DEF File
  <1>2. n \in Nat /\ Len(f) <= n /\ s \in 1 .. n
    BY <1>1
  <1>3. g = [i \in 1 .. n |-> IF i = s THEN data ELSE IF i <= Len(f) THEN f[i] ELSE Zero]
    BY DEF WriteAt
  <1>4. g \in [1 .. n -> Content]
    BY <1>1, <1>2, <1>3 DEF Content
  <1>5. g \in Seq(Content)
    BY <1>2, <1>4, SeqDef
  <1>6. Len(g) = n
    BY <1>2, <1>4, <1>5, LenProperties
  <1>7. g[s] = data /\ \A i \in 1 .. Len(f) : i # s => g[i] = f[i]
    BY <1>1, <1>2, <1>3
  <1>8. QED
    BY <1>2, <1>5, <1>6, <1>7 DEF File

\* The file that open and set_len create.
LEMMA ZeroFileType ==
    ASSUME NEW n \in Nat
    PROVE  [i \in 1 .. n |-> Zero] \in File
  <1>1. [i \in 1 .. n |-> Zero] \in [1 .. n -> Content]
    BY DEF Content
  <1>2. QED
    BY <1>1, SeqDef DEF File

\* find() returns one of the matching chunks of the old version.
LEMMA FirstOldMatchFound ==
    ASSUME old \in Versions, NEW id, OldMatches(id) # {}
    PROVE  \E j \in OldMatches(id) : FirstOldMatch(id) = chunks(old)[j]
  <1>1. OldMatches(id) \subseteq Nat /\ OldMatches(id) \subseteq Indices(old)
    BY ChunkType DEF OldMatches, Indices
  <1>2. PICK x \in OldMatches(id) :
             \A y \in OldMatches(id) : ~(<<y, x>> \in OpToRel(<, Nat))
    BY <1>1, WFMin, NatLessThanWellFounded
  <1>3. \A y \in OldMatches(id) : x <= y
    <2>1. TAKE y \in OldMatches(id)
    <2>2. x \in Nat /\ y \in Nat
      BY <1>1
    <2>3. <<y, x>> \in Nat \X Nat /\ <<y, x>>[1] = y /\ <<y, x>>[2] = x
      BY <2>2
    <2>4. ~(y < x)
      BY <1>2, <2>3, Zenon DEF OpToRel
    <2>5. QED
      BY <2>2, <2>4
  <1>4. (CHOOSE j \in OldMatches(id) : \A m \in OldMatches(id) : j <= m) \in OldMatches(id)
    BY <1>3
  <1>5. QED
    BY <1>4 DEF FirstOldMatch

\* What the search for an id in the previous version finds is a chunk.
LEMMA FirstOldMatchType ==
    ASSUME old \in Versions, NEW id, OldMatches(id) # {}
    PROVE  FirstOldMatch(id) \in Chunk
  BY FirstOldMatchFound, ChunkType DEF OldMatches

-----------------------------------------------------------------------------
(* Type correctness.                                                       *)

\* Before the first run nothing is on disk and nothing runs.
LEMMA TypeInvInit == Init => TypeInv
  <1>1. Init => good \in BOOLEAN
    BY Zenon DEF Init
  <1>2. QED
    BY <1>1, LimitAssumption
    DEF Init, TypeInv, TypeOK, TailInv, AttemptInv, SettledInv, Idle, TailStates, Phases

\* What is left of the write under way, in one step (Put, CutShort).
LEMMA PutType ==
    ASSUME TypeOK, tail.st = "busy", NEW data \in Content, Put(data)
    PROVE  /\ final' \in File \cup {None} /\ (final' = None <=> final = None)
           /\ staging' \in File \cup {None} /\ (staging' = None <=> staging = None)
  <1>1. tail.slot \in Nat \ {0} /\ (tail.at = "staging" => staging \in File)
                                /\ (tail.at = "final" => final \in File)
    BY DEF TypeOK, TailStates
  <1>2. None \notin File
    BY SentinelAssumption DEF File
  <1>3. /\ tail.at = "staging" => WriteAt(staging, tail.slot, data) \in File
        /\ tail.at = "final" => WriteAt(final, tail.slot, data) \in File
    BY <1>1, WriteAtProperties
  <1>4. final \in File \cup {None} /\ staging \in File \cup {None}
    BY DEF TypeOK
  <1>5. QED
    BY <1>1, <1>2, <1>3, <1>4 DEF Put

\* The same when the write fails or the process ends: nothing or Junk.
LEMMA CutShortType ==
    ASSUME TypeOK, CutShort
    PROVE  /\ final' \in File \cup {None} /\ (final' = None <=> final = None)
           /\ staging' \in File \cup {None} /\ (staging' = None <=> staging = None)
  <1>1. CASE UNCHANGED <<final, staging>>
    BY <1>1 DEF TypeOK
  <1>2. CASE tail.st = "busy" /\ Put(Junk)
    BY <1>2, PutType DEF Content
  <1>3. QED
    BY <1>1, <1>2 DEF CutShort

\* A damaged file is a file.
LEMMA DamageType ==
    ASSUME TypeOK, Damage
    PROVE  final' \in File /\ final' # None
  <1>1. final \in File /\ Len(final) \in Nat /\ final # <<>>
    BY LenProperties DEF Damage, TypeOK, File
  <1>2. \A s \in 1 .. Len(final) : WriteAt(final, s, Junk) \in File
    BY <1>1, WriteAtProperties DEF Content
  <1>3. SubSeq(final, 1, Len(final) - 1) \in File
    BY <1>1, SubSeqProperties, ElementOfSeq DEF File
  <1>4. None \notin File
    BY SentinelAssumption DEF File
  <1>5. QED
    BY <1>2, <1>3, <1>4 DEF Damage

\* Every step of download_file, of its tasks and of the environment keeps the
\* types, the place the last write goes to and the attempts within bounds.
LEMMA TypeInvNext ==
    ASSUME TypeInv, [Next]_vars
    PROVE  TypeInv'
  <1> USE DEF TypeInv, disk, run
  <1>1. ASSUME NEW v \in Versions, Begin(v)
        PROVE  TypeInv'
    BY <1>1, SentinelAssumption DEF Begin, PreviousManifest, TypeOK, TailInv, AttemptInv, SettledInv, Phases
  <1>2. CASE CheckFinal
    <2>1. good' \in BOOLEAN
      BY <1>2, Zenon DEF CheckFinal, TypeOK
    <2>2. /\ pc = "check_final" /\ pc' \in {"ok", "check_staging"}
          /\ pc' = "ok" => final # None
          /\ UNCHANGED <<disk, target, old, valid, k, task, attempt, recorded, runs, faults>>
      BY <1>2 DEF CheckFinal, file_has_valid_chunks, file_has_correct_size
    <2>3. QED
      BY <2>1, <2>2 DEF Idle, TypeOK, TailInv, AttemptInv, SettledInv, Phases
  <1>3. CASE CheckStaging
    <2>1. IntactIds \subseteq Ids
      BY <1>3, ChunkType DEF CheckStaging, IntactIds, TypeOK, Chunk
    <2>2. file_has_correct_size(staging, target) => staging # None
      BY DEF file_has_correct_size
    <2>3. good' \in BOOLEAN
      BY <1>3, Zenon DEF CheckStaging, TypeOK
    <2>4. QED
      BY <1>3, <2>1, <2>2, <2>3 DEF CheckStaging, TypeOK, TailInv, AttemptInv, SettledInv, Phases, Idle
  <1>4. CASE CreateStaging
    <2>1. <<>> \in File /\ <<>> # None
      BY EmptySeq, SentinelAssumption DEF File
    <2>2. staging' \in File /\ staging' # None
      BY <1>4, <2>1 DEF CreateStaging
    <2>3. TailInv'
      BY <1>4, <2>2 DEF CreateStaging, TailInv, Idle
    <2>4. TypeOK'
      BY <1>4, <2>2 DEF CreateStaging, TypeOK, TailInv, Idle, Phases
    <2>5. QED
      BY <1>4, <2>3, <2>4 DEF CreateStaging, AttemptInv, SettledInv
  <1>5. CASE SetLen
    <2>1. [i \in 1 .. size(target) |-> Zero] \in File
      BY <1>5, ChunkType, ZeroFileType DEF SetLen, TypeOK, TailInv
    <2>2. None \notin File
      BY SentinelAssumption DEF File
    <2>3. staging' \in File /\ staging' # None
      BY <1>5, <2>1, <2>2 DEF SetLen
    <2>4. QED
      BY <1>5, <2>3 DEF SetLen, TypeOK, TailInv, AttemptInv, SettledInv, Phases, Idle
  <1>6. CASE CopyChunk
    <2> DEFINE c == chunks(target)[k]
    <2>1. c \in Chunk /\ k \in Nat /\ pc = "copy"
      BY <1>6, ChunkType DEF CopyChunk, TypeOK
    <2>2. CASE CanCopy(c)
      <3>1. old \in Versions /\ final \in File
        BY <1>6 DEF CopyChunk, DeltaPossible, TypeOK
      <3>2. FirstOldMatch(c.id) \in Chunk
        BY <2>2, <3>1, FirstOldMatchType DEF CanCopy, Copyable, InOldChunks
      <3>3. CopySource(c) \in 1 .. Len(final)
        BY <2>2, <3>1, <3>2, LenProperties
           DEF CanCopy, Copyable, CopySource, Readable, Chunk, File
      <3>4. final[CopySource(c)] \in Content
        BY <3>1, <3>3, ElementOfSeq DEF File
      <3>5. c.off \in Nat \ {0}
        BY <2>1, <2>2 DEF CanCopy, Copyable, Chunk
      <3>6. final[CopySource(c)] # None
        BY <3>4, SentinelAssumption DEF Content
      <3> HIDE DEF c
      <3>7. CASE tail.st = "error"
        BY <1>6, <2>1, <2>2, <3>7
           DEF CopyChunk, c, TypeOK, TailInv, AttemptInv, SettledInv, Phases, Idle, TailStates
      <3>8. CASE tail.st = "idle"
        BY <1>6, <2>1, <2>2, <3>4, <3>5, <3>6, <3>8, SentinelAssumption
           DEF CopyChunk, c, Buffer, TypeOK, TailInv, AttemptInv, SettledInv, Phases, TailStates
      <3>9. QED
        BY <1>6, <2>2, <3>7, <3>8 DEF CopyChunk, c
    <2>3. CASE ~CanCopy(c)
      BY <1>6, <2>1, <2>3 DEF CopyChunk, TypeOK, TailInv, AttemptInv, SettledInv
    <2>4. QED
      BY <2>2, <2>3
  <1>7. CASE SpawnTasks
    <2>1. \A c : Disposition(c) \in TaskStates
      BY DEF Disposition, TaskStates, Skipped
    <2>2. /\ task' \in [Indices(target) -> TaskStates]
          /\ attempt' = [i \in Indices(target) |-> 0]
      BY <1>7, <2>1 DEF SpawnTasks
    <2>3. attempt' \in [Indices(target) -> 0 .. MaxAttempts]
      BY <2>2, LimitAssumption
    <2>4. TypeOK'
      BY <1>7, <2>2, <2>3 DEF SpawnTasks, TypeOK, Phases
    <2>5. TailInv'
      BY <1>7 DEF SpawnTasks, TailInv
    <2>6. \A c : Disposition(c) \notin {"fetch", "write"}
      BY DEF Disposition
    <2>7. AttemptInv'
      BY <1>7, <2>2, <2>6 DEF SpawnTasks, AttemptInv
    <2>8. QED
      BY <1>7, <2>4, <2>5, <2>7 DEF SpawnTasks, SettledInv
  <1>8. CASE AwaitFails
    BY <1>8 DEF AwaitFails, TypeOK, TailInv, AttemptInv, SettledInv, Phases
  <1>9. CASE AwaitAll
    BY <1>9 DEF AwaitAll, TypeOK, TailInv, AttemptInv, SettledInv, Phases
  <1>10. CASE Rename
    <2>1. good' \in BOOLEAN
      BY <1>10, Zenon DEF Rename, Sound
    <2>2. QED
      BY <1>10, <2>1 DEF Rename, TypeOK, TailInv, AttemptInv, SettledInv, Phases, TailStates
  <1>11. CASE Record
    BY <1>11, LimitAssumption DEF Record, AfterFailedSave, TypeOK, TailInv, AttemptInv, SettledInv, Phases
  <1>12. CASE Exit
    BY <1>12, CutShortType DEF Exit, ProcessGone, TypeOK, TailInv, AttemptInv, SettledInv, Phases, Idle, TailStates
  <1>13. CASE ExitFailed
    BY <1>13, CutShortType DEF ExitFailed, ProcessGone, TypeOK, TailInv, AttemptInv, SettledInv, Phases, Idle, TailStates
  <1>14. ASSUME NEW i \in DOMAIN task, ChunkStep(i)
         PROVE  TypeInv'
    <2> DEFINE c == chunks(target)[i]
    <2>1. /\ task \in [Indices(target) -> TaskStates]
          /\ attempt \in [Indices(target) -> 0 .. MaxAttempts]
          /\ i \in Indices(target) /\ target \in Versions
          /\ pc \in {"await", "rename", "ok", "recorded", "failed"}
      BY <1>14 DEF TypeOK
    <2>2. c \in Chunk
      BY <2>1, ChunkType
    <2>3. task[i] \in {"queued", "fetch", "write"}
      BY <1>14 DEF ChunkStep, AcquirePermit, FetchFails, FetchAnswers, WriteChunk
    <2>0. pc \in {"await", "failed"} /\ staging # None /\ tail.at = "staging"
      BY <1>14, <2>1, <2>3 DEF TypeOK, TailInv, SettledInv, Settled, Skipped
    <2>4. CASE AcquirePermit(i)
      BY <2>0, <2>1, <2>4, LimitAssumption
         DEF AcquirePermit, SetTask, TypeOK, TailInv, AttemptInv, SettledInv, TaskStates
    <2>5. CASE FetchFails(i)
      BY <2>0, <2>1, <2>5, LimitAssumption
         DEF FetchFails, SetTask, TypeOK, TailInv, AttemptInv, SettledInv, TaskStates
    <2>6. CASE FetchAnswers(i)
      BY <2>0, <2>1, <2>6, LimitAssumption
         DEF FetchAnswers, SetTask, TypeOK, TailInv, AttemptInv, SettledInv, TaskStates, ProcessChunk
    <2>7. CASE WriteChunk(i)
      <3>1. c.off # None => c.off \in Nat \ {0}
        BY <2>2 DEF Chunk
      <3>2. c.sum \in Content /\ c.sum # None
        BY <1>14, <2>2, <2>7 DEF WriteChunk, AttemptInv, Chunk, Content
      <3>3. AttemptInv' /\ SettledInv'
        BY <2>0, <2>1, <2>7 DEF WriteChunk, SetTask, AttemptInv, SettledInv
      <3>4. TailInv'
        BY <2>0, <2>1, <2>7 DEF WriteChunk, SetTask, Buffer, Idle, TailInv
      <3>5. tail' \in TailStates /\ (tail'.st = "busy" =>
                tail'.slot # None /\ tail'.data # None /\ tail'.at = "staging")
        BY <2>0, <2>7, <3>1, <3>2, SentinelAssumption
           DEF WriteChunk, Buffer, Idle, TailStates, TypeOK
      <3>6. task' \in [Indices(target) -> TaskStates]
        BY <2>1, <2>7 DEF WriteChunk, SetTask, TaskStates
      <3>7. TypeOK'
        BY <2>0, <2>1, <2>7, <3>5, <3>6 DEF WriteChunk, TypeOK
      <3>8. QED
        BY <3>3, <3>4, <3>7
    <2>8. QED
      BY <1>14, <2>4, <2>5, <2>6, <2>7 DEF ChunkStep
  <1>15. CASE WriteLands
    <2>1. tail.data \in Content /\ tail.st = "busy" /\ Put(tail.data)
      BY <1>15 DEF WriteLands, TypeOK, TailStates
    <2>2. QED
      BY <1>15, <2>1, PutType DEF WriteLands, TypeOK, TailInv, AttemptInv, SettledInv, Phases, Idle, TailStates
  <1>16. CASE WriteFails
    BY <1>16, CutShortType DEF WriteFails, Idle, TypeOK, TailInv, AttemptInv, SettledInv, Phases, TailStates
  <1>17. CASE IoError
    BY <1>17 DEF IoError, TypeOK, TailInv, AttemptInv, SettledInv, Phases, Idle
  <1>18. CASE Crash \/ JobFails
    BY <1>18, CutShortType DEF Crash, JobFails, AfterFailedSave, ProcessGone, TypeOK, TailInv, AttemptInv, SettledInv, Phases, Idle, TailStates
  <1>19. CASE Damage
    <2>1. final' \in File /\ final' # None
      BY <1>19, DamageType
    <2>2. good' \in BOOLEAN
      BY <1>19, Zenon DEF Damage
    <2>3. QED
      BY <1>19, <2>1, <2>2 DEF Damage, TypeOK, TailInv, AttemptInv, SettledInv
  <1>20. CASE Finished \/ UNCHANGED vars
    BY <1>20 DEF Finished, vars, TypeOK, TailInv, AttemptInv, SettledInv
  <1>21. QED
    BY <1>1, <1>2, <1>3, <1>4, <1>5, <1>6, <1>7, <1>8, <1>9, <1>10, <1>11, <1>12, <1>13,
       <1>14, <1>15, <1>16, <1>17, <1>18, <1>19, <1>20 DEF Next, FileStep

\* The type invariant holds in every run: in particular a write under way
\* always has a file to go to, and no task uses more than MaxAttempts.
THEOREM TypeCorrect == Spec => []TypeOK
  <1>1. TypeInv /\ [Next]_vars => TypeInv'
    BY TypeInvNext
  <1>2. TypeInv => TypeOK
    BY DEF TypeInv
  <1>3. QED
    BY <1>1, <1>2, TypeInvInit, PTL DEF Spec

-----------------------------------------------------------------------------
(* Chunks in files.                                                        *)

\* A write to another slot keeps a chunk that is there.
LEMMA WriteKeeps ==
    ASSUME NEW f \in File, NEW s \in Nat \ {0}, NEW data \in Content,
           NEW c \in Chunk, c.off # s, ChunkIntact(f, c)
    PROVE  ChunkIntact(WriteAt(f, s, data), c)
  <1>1. c.off \in 1 .. Len(f) /\ Len(f) \in Nat
    BY LenProperties DEF ChunkIntact, Readable, Chunk, File
  <1> DEFINE g == WriteAt(f, s, data)
  <1>2. /\ Len(g) \in Nat /\ Len(f) <= Len(g)
        /\ \A i \in 1 .. Len(f) : i # s => g[i] = f[i]
    BY WriteAtProperties
  <1> HIDE DEF g
  <1>3. QED
    BY <1>1, <1>2 DEF ChunkIntact, Readable, g

\* A write of the chunk's own bytes to its slot brings it.
LEMMA WriteBrings ==
    ASSUME NEW f \in File, NEW c \in Chunk, c.off # None, c.sum # None
    PROVE  ChunkIntact(WriteAt(f, c.off, c.sum), c)
  <1>1. c.off \in Nat \ {0} /\ c.sum \in Content
    BY DEF Chunk, Content
  <1>2. QED
    BY <1>1, WriteAtProperties, ZenonT(60) DEF ChunkIntact, Readable

\* Whether a chunk is one the copy loop leaves alone depends on old only.
LEMMA OwnUnchanged ==
    ASSUME UNCHANGED old, NEW c
    PROVE  Own(c)' <=> Own(c)
  BY DEF Own, Wanted, Reusable, InOldChunks, OldMatches

\* valid_chunks.len() == chunks.len() only if every chunk is intact.
LEMMA AllIntact ==
    ASSUME target \in Versions, Cardinality(IntactIds) = Len(chunks(target))
    PROVE  \A i \in Indices(target) : ChunkIntact(staging, chunks(target)[i])
  <1> DEFINE bad == verify_chunks(staging, target)
             valued == Indices(target) \ bad
             named == {i \in valued : chunks(target)[i].id # None}
             f == [i \in named |-> chunks(target)[i].id]
             n == Len(chunks(target))
  <1>1. n \in Nat /\ IsFiniteSet(Indices(target)) /\ Cardinality(Indices(target)) = n
    <2>1. n \in Nat
      BY ChunkType
    <2> HIDE DEF n
    <2>2. IsFiniteSet(1 .. n) /\ Cardinality(1 .. n) = n
      BY <2>1, FS_Interval, SMTT(30)
    <2>3. QED
      BY <2>1, <2>2 DEF Indices, n
  <1>2. IsFiniteSet(named) /\ named \subseteq Indices(target)
    BY <1>1, FS_Subset
  <1>3. f \in Surjection(named, IntactIds)
    BY DEF Surjection, IntactIds
  <1>4. Cardinality(IntactIds) <= Cardinality(named)
    BY <1>2, <1>3, FS_Surjection
  <1>5. Cardinality(named) <= n /\ Cardinality(named) \in Nat
    BY <1>1, <1>2, FS_Subset, FS_CardinalityType
  <1>6. named = Indices(target)
    BY <1>1, <1>2, <1>4, <1>5, FS_Subset
  <1>7. QED
    BY <1>6 DEF verify_chunks

-----------------------------------------------------------------------------
(* The inductive invariant behind InstalledIntact.                         *)

\* With nothing running, no chunk is claimed to be anywhere.
LEMMA IInvInit == Init => IInv
  BY TypeInvInit DEF Init, IInv, TailDataInv, CopyInv, TaskInv, InstalledIntact

\* What happens to a chunk in the staging file while a write lands or fails.
LEMMA StagingWrite ==
    ASSUME TypeOK, tail.st = "busy", tail.at = "staging", staging # None,
           NEW data \in Content, Put(data), NEW c \in Chunk, Wanted(c),
           tail.slot = c.off => data = c.sum,
           StagingHas(c)
    PROVE  ChunkIntact(staging', c)
  <1>1. /\ staging \in File /\ tail.slot \in Nat \ {0}
        /\ staging' = WriteAt(staging, tail.slot, data)
    BY DEF TypeOK, TailStates, Put
  <1>2. CASE tail.slot = c.off
    BY <1>1, <1>2, WriteBrings DEF Wanted
  <1>3. CASE tail.slot # c.off
    BY <1>1, <1>3, WriteKeeps DEF StagingHas
  <1>4. QED
    BY <1>2, <1>3

\* The same for a chunk in the renamed file.
LEMMA FinalWrite ==
    ASSUME TypeOK, tail.st = "busy", tail.at = "final", final # None,
           NEW data \in Content, Put(data), NEW c \in Chunk, Wanted(c),
           tail.slot = c.off => data = c.sum,
           HasChunk(c)
    PROVE  ChunkIntact(final', c)
  <1>1. /\ final \in File /\ tail.slot \in Nat \ {0}
        /\ final' = WriteAt(final, tail.slot, data)
    BY DEF TypeOK, TailStates, Put
  <1>2. CASE tail.slot = c.off
    BY <1>1, <1>2, WriteBrings DEF Wanted
  <1>3. CASE tail.slot # c.off
    BY <1>1, <1>3, WriteKeeps DEF HasChunk
  <1>4. QED
    BY <1>2, <1>3

\* Every step keeps the chunks that download_file relies on: what was verified
\* or written stays in the staging file until the rename and in the renamed
\* file after it.
LEMMA IInvNext ==
    ASSUME WellFormed, IInv, [Next]_vars
    PROVE  IInv'
  <1> DEFINE D(i) == chunks(target)[i]
  <1>0. TypeInv /\ TypeInv'
    BY TypeInvNext DEF IInv
  <1> USE DEF IInv, disk, run
  <1>a. ASSUME target' = target, old' = old
        PROVE  \A i : Own(D(i))' <=> Own(D(i))
    BY <1>a, OwnUnchanged
  <1>b. ASSUME pc' \in {"idle", "check_final", "failed"}, valid' = {} \/ pc' = "failed"
        PROVE  IInv'
    BY <1>0, <1>b DEF TailDataInv, CopyInv, TaskInv, InstalledIntact
  <1>c. target # None => target \in Versions /\ \A i \in Indices(target) : D(i) \in Chunk
    BY <1>0, ChunkType DEF TypeInv, TypeOK
  <1>1. ASSUME NEW v \in Versions, Begin(v)
        PROVE  IInv'
    BY <1>1, <1>b DEF Begin, CopyInv
  <1>2. CASE CheckFinal
    <2>1. target' = target /\ old' = old /\ UNCHANGED <<final, tail, valid>> /\ tail.st = "idle"
      BY <1>0, <1>2 DEF CheckFinal, TypeInv, TailInv, Idle
    <2>2. TailDataInv' /\ CopyInv' /\ TaskInv'
      BY <1>2, <2>1 DEF CheckFinal, TailDataInv, CopyInv, TaskInv
    <2>3. InstalledIntact'
      BY <1>2, <2>1 DEF CheckFinal, InstalledIntact, HasChunk, file_has_valid_chunks, verify_chunks
    <2>4. QED
      BY <1>0, <2>2, <2>3
  <1>3. CASE CheckStaging
    <2>1. /\ target' = target /\ old' = old /\ tail' = tail /\ tail.st = "idle"
          /\ target \in Versions
      BY <1>0, <1>3 DEF CheckStaging, TypeInv, TypeOK, TailInv, Idle
    <2>2. CASE pc' = "create"
      BY <1>0, <1>3, <2>2 DEF CheckStaging, TailDataInv, CopyInv, TaskInv, InstalledIntact
    <2>3. CASE pc' = "ok"
      <3>1. \A i \in Indices(target) : ChunkIntact(final', D(i))
        BY <1>3, <2>1, <2>3, AllIntact DEF CheckStaging
      <3>2. InstalledIntact'
        BY <2>1, <3>1 DEF InstalledIntact, HasChunk
      <3>3. QED
        BY <1>0, <2>1, <2>3, <3>2 DEF TailDataInv, CopyInv, TaskInv
    <2>4. CASE pc' = "copy"
      <3>1. valid' = IntactIds /\ staging' = staging
        BY <1>3, <2>4 DEF CheckStaging
      <3>2. ASSUME NEW i \in Indices(target), D(i).id \in IntactIds, D(i).id # None
            PROVE  ChunkIntact(staging, D(i))
        <4>1. PICK j \in Indices(target) \ verify_chunks(staging, target) : D(i).id = D(j).id
          BY <3>2 DEF IntactIds
        <4>2. i = j
          BY <2>1, <3>2, <4>1 DEF WellFormed, DistinctIds
        <4>3. QED
          BY <4>1, <4>2 DEF verify_chunks
      <3>3. ASSUME NEW i \in Indices(target), Own(D(i))', D(i).id \in valid'
            PROVE  StagingHas(D(i))'
        BY <2>1, <3>1, <3>2, <3>3 DEF Own, Wanted, StagingHas
      <3>4. CopyInv'
        BY <2>1, <2>4, <3>3 DEF CopyInv
      <3>5. QED
        BY <1>0, <2>1, <2>4, <3>4 DEF TailDataInv, TaskInv, InstalledIntact
    <2>5. QED
      BY <1>3, <2>2, <2>3, <2>4 DEF CheckStaging
  <1>4. CASE CreateStaging
    BY <1>0, <1>4 DEF CreateStaging, TypeInv, TailInv, Idle, TailDataInv, CopyInv, TaskInv, InstalledIntact
  <1>5. CASE SetLen
    BY <1>0, <1>5 DEF SetLen, TypeInv, TailInv, Idle, TailDataInv, CopyInv, TaskInv, InstalledIntact
  <1>6. CASE CopyChunk
    <2>1. /\ target' = target /\ old' = old /\ UNCHANGED <<final, staging, valid>>
          /\ k \in Indices(target) /\ target \in Versions /\ pc = "copy"
      BY <1>0, <1>6 DEF CopyChunk, TypeInv, TypeOK
    <2>2. CASE tail' = tail /\ pc' = "copy"
      <3>1. CopyInv' /\ TailDataInv'
        BY <1>a, <2>1, <2>2 DEF CopyInv, TailDataInv, StagingHas
      <3>2. QED
        BY <1>0, <2>2, <3>1 DEF TaskInv, InstalledIntact
    <2>3. CASE CanCopy(D(k)) /\ tail.st = "idle" /\ pc' = "copy"
      <3>1. tail'.slot = D(k).off /\ D(k).off # None /\ Reusable(D(k))
        BY <1>6, <2>1, <2>3 DEF CopyChunk, Buffer, CanCopy, Copyable, Reusable, DeltaPossible
      <3>2. ASSUME NEW i \in Indices(target), Own(D(i))
            PROVE  tail'.slot # D(i).off
        BY <2>1, <3>1, <3>2 DEF WellFormed, DistinctSlots, Own
      <3>3. TailDataInv'
        BY <1>a, <2>1, <3>2 DEF TailDataInv
      <3>4. CopyInv'
        BY <1>a, <2>1, <2>3 DEF CopyInv, StagingHas
      <3>5. QED
        BY <1>0, <2>3, <3>3, <3>4 DEF TaskInv, InstalledIntact
    <2>4. CASE pc' = "failed"
      BY <1>b, <2>4
    <2>5. QED
      BY <1>6, <2>1, <2>2, <2>3, <2>4 DEF CopyChunk
  <1>7. CASE SpawnTasks
    <2>1. /\ target' = target /\ old' = old /\ UNCHANGED <<final, staging, valid, tail>>
          /\ pc = "copy" /\ pc' = "await"
          /\ task' = [i \in Indices(target) |-> Disposition(D(i))]
      BY <1>7 DEF SpawnTasks
    <2>2. ASSUME NEW i \in Indices(target), Own(D(i)), Settled(task'[i])
          PROVE  StagingHas(D(i))
      <3>1. Disposition(D(i)) = "resumed"
        BY <2>1, <2>2 DEF Disposition, Settled, Skipped, Own, Wanted, Reusable, DeltaPossible
      <3>2. D(i).id \in valid
        BY <3>1 DEF Disposition
      <3>3. QED
        BY <2>1, <2>2, <3>2 DEF CopyInv
    <2>3. task' \in [Indices(target) -> TaskStates]
      BY <2>1 DEF Disposition, TaskStates, Skipped
    <2>4. TaskInv'
      BY <1>a, <2>1, <2>2, <2>3 DEF TaskInv, StagingHas
    <2>5. TailDataInv' /\ CopyInv' /\ InstalledIntact'
      BY <1>a, <2>1 DEF TailDataInv, CopyInv, InstalledIntact
    <2>6. QED
      BY <1>0, <2>4, <2>5
  <1>8. CASE AwaitFails
    BY <1>8, <1>b DEF AwaitFails
  <1>9. CASE AwaitAll
    <2>1. /\ target' = target /\ old' = old /\ UNCHANGED <<final, staging, valid, tail, task>>
          /\ pc = "await" /\ pc' = "rename"
      BY <1>9 DEF AwaitAll
    <2>2. TaskInv' /\ TailDataInv'
      BY <1>a, <2>1 DEF TaskInv, TailDataInv, StagingHas, SomeTaskFailed
    <2>3. QED
      BY <1>0, <2>1, <2>2 DEF CopyInv, InstalledIntact
  <1>10. CASE Rename
    <2>1. /\ target' = target /\ old' = old /\ pc = "rename" /\ pc' = "ok"
          /\ final' = staging
          /\ tail'.st = tail.st /\ tail'.slot = tail.slot /\ tail'.data = tail.data
          /\ tail'.at = "final"
      BY <1>0, <1>10 DEF Rename, TypeInv, TypeOK, TailStates
    <2>2. ASSUME NEW i \in Indices(target), Own(D(i))
          PROVE  StagingHas(D(i))
      <3>1. \A j \in DOMAIN task : Settled(task[j])
        BY <1>0, <2>1 DEF TypeInv, SettledInv
      <3>2. ~SomeTaskFailed /\ DOMAIN task = Indices(target)
        BY <2>1, <3>1 DEF SomeTaskFailed, Settled, Skipped, TaskInv
      <3>3. QED
        BY <2>1, <2>2, <3>1, <3>2 DEF TaskInv
    <2>3. InstalledIntact'
      BY <1>a, <2>1, <2>2 DEF InstalledIntact, HasChunk, StagingHas, Own, Wanted
    <2>4. TailDataInv'
      BY <1>a, <2>1 DEF TailDataInv
    <2>5. QED
      BY <1>0, <2>1, <2>3, <2>4 DEF CopyInv, TaskInv
  <1>11. CASE Record
    <2>1. /\ target' = target /\ old' = old /\ UNCHANGED <<final, tail>>
          /\ pc = "ok" /\ pc' = "recorded"
      BY <1>11 DEF Record
    <2>2. InstalledIntact' /\ TailDataInv'
      BY <1>a, <2>1 DEF InstalledIntact, TailDataInv, HasChunk, Own, Wanted
    <2>3. QED
      BY <1>0, <2>1, <2>2 DEF CopyInv, TaskInv
  <1>12. CASE Exit \/ ExitFailed \/ Crash \/ JobFails
    BY <1>12, <1>b DEF Exit, ExitFailed, Crash, JobFails, ProcessGone
  <1>13. ASSUME NEW i \in DOMAIN task, ChunkStep(i)
         PROVE  IInv'
    <2>1. /\ target' = target /\ old' = old /\ pc' = pc /\ UNCHANGED <<final, staging, valid>>
          /\ task[i] \in {"queued", "fetch", "write"}
      BY <1>13 DEF ChunkStep, AcquirePermit, FetchFails, FetchAnswers, WriteChunk
    <2>2. /\ pc \in {"await", "failed"}
          /\ task \in [Indices(target) -> TaskStates] /\ target \in Versions
      BY <1>0, <1>13, <2>1
         DEF TypeInv, TypeOK, TailInv, SettledInv, Settled, Skipped
    <2>3. CASE pc = "failed"
      BY <1>b, <2>1, <2>3
    <2>4. /\ \A j \in Indices(target) : j # i => task'[j] = task[j]
          /\ i \in Indices(target)
          /\ task' \in [Indices(target) -> TaskStates]
      BY <1>13, <2>2 DEF ChunkStep, AcquirePermit, FetchFails, FetchAnswers, WriteChunk, SetTask,
         TaskStates
    <2>5. SomeTaskFailed => SomeTaskFailed'
      BY <2>1, <2>2, <2>4 DEF SomeTaskFailed
    <2>6. CASE pc = "await" /\ tail' = tail /\ (Settled(task'[i]) => D(i).off = None)
      <3>1. ASSUME NEW j \in Indices(target), Own(D(j)), Settled(task'[j]), ~SomeTaskFailed'
            PROVE  StagingHas(D(j))
        <4>1. j # i
          BY <2>6, <3>1 DEF Own, Wanted
        <4>2. QED
          BY <2>4, <2>5, <2>6, <3>1, <4>1 DEF TaskInv
      <3>2. TaskInv'
        BY <1>a, <2>1, <2>4, <2>6, <3>1 DEF TaskInv, StagingHas
      <3>3. QED
        BY <1>0, <1>a, <2>1, <2>6, <3>2 DEF TailDataInv, CopyInv, InstalledIntact
    <2>7. CASE pc = "await" /\ D(i).off # None /\ tail.st = "idle" /\ Buffer(D(i).off, D(i).sum)
      <3>1. /\ tail'.st = "busy" /\ tail'.slot = D(i).off /\ tail'.data = D(i).sum
        BY <2>7 DEF Buffer
      <3>2. ASSUME NEW j \in Indices(target), Own(D(j)), Settled(task'[j]), ~SomeTaskFailed'
            PROVE  StagingHas(D(j))'
        <4>1. CASE j = i
          BY <2>1, <3>1, <4>1 DEF StagingHas
        <4>2. CASE j # i
          BY <2>1, <2>4, <2>5, <2>7, <3>2, <4>2 DEF TaskInv, StagingHas
        <4>3. QED
          BY <4>1, <4>2
      <3>3. TaskInv'
        BY <1>a, <2>1, <2>4, <2>7, <3>2 DEF TaskInv
      <3>4. ASSUME NEW j \in Indices(target), D(j).off = D(i).off
            PROVE  j = i
        BY <2>2, <2>4, <2>7, <3>4 DEF WellFormed, DistinctSlots
      <3>5. TailDataInv'
        BY <1>a, <2>1, <3>1, <3>4 DEF TailDataInv
      <3>6. QED
        BY <1>0, <2>1, <2>7, <3>3, <3>5 DEF CopyInv, InstalledIntact
    <2>8. CASE pc = "await" /\ tail' = Idle /\ task'[i] = "failed"
      <3>1. SomeTaskFailed' /\ tail'.st # "busy"
        BY <2>4, <2>8 DEF SomeTaskFailed, Idle
      <3>2. TaskInv' /\ TailDataInv'
        BY <2>1, <2>4, <3>1 DEF TaskInv, TailDataInv
      <3>3. QED
        BY <1>0, <2>1, <2>8, <3>2 DEF CopyInv, InstalledIntact
    <2>9. CASE AcquirePermit(i) \/ FetchFails(i) \/ FetchAnswers(i)
      <3>1. tail' = tail /\ ~Settled(task'[i])
        BY <2>2, <2>4, <2>9 DEF AcquirePermit, FetchFails, FetchAnswers, SetTask, Settled, Skipped
      <3>2. QED
        BY <2>2, <2>3, <2>6, <3>1
    <2>10. CASE WriteChunk(i)
      <3>1. \/ D(i).off = None /\ tail' = tail
            \/ D(i).off # None /\ tail.st = "idle" /\ Buffer(D(i).off, D(i).sum)
            \/ tail' = Idle /\ task'[i] = "failed"
        BY <2>2, <2>4, <2>10 DEF WriteChunk, SetTask
      <3>2. QED
        BY <2>2, <2>3, <2>6, <2>7, <2>8, <3>1
    <2>11. QED
      BY <1>13, <2>9, <2>10 DEF ChunkStep
  <1>14. CASE WriteLands
    <2>1. /\ target' = target /\ old' = old /\ UNCHANGED <<pc, valid, task>>
          /\ tail.st = "busy" /\ Put(tail.data) /\ tail' = Idle
      BY <1>14 DEF WriteLands
    <2>2. tail.data \in Content /\ TypeOK
      BY <1>0, <2>1 DEF TypeInv, TypeOK, TailStates
    <2>3. TailDataInv'
      BY <2>1 DEF TailDataInv, Idle
    <2>4. ASSUME pc \in {"copy", "await", "rename"},
                 NEW i \in Indices(target), Own(D(i)), StagingHas(D(i))
          PROVE  StagingHas(D(i))'
      <3>1. D(i) \in Chunk /\ tail.at = "staging" /\ staging # None
        BY <1>0, <1>c, <2>4 DEF TypeInv, TypeOK, TailInv
      <3>2. tail.slot = D(i).off => tail.data = D(i).sum
        BY <2>1, <2>4 DEF TailDataInv
      <3>3. ChunkIntact(staging', D(i))
        BY <2>1, <2>2, <2>4, <3>1, <3>2, StagingWrite DEF Own
      <3>4. QED
        BY <2>1, <3>3 DEF StagingHas
    <2>5. ASSUME pc \in {"ok", "recorded"},
                 NEW i \in Indices(target), Own(D(i)), HasChunk(D(i))
          PROVE  HasChunk(D(i))'
      <3>1. D(i) \in Chunk /\ tail.at = "final" /\ final # None
        BY <1>0, <1>c, <2>1, <2>5 DEF TypeInv, TypeOK, TailInv
      <3>2. tail.slot = D(i).off => tail.data = D(i).sum
        BY <2>1, <2>5 DEF TailDataInv
      <3>3. ChunkIntact(final', D(i))
        BY <2>1, <2>2, <2>5, <3>1, <3>2, FinalWrite DEF Own
      <3>4. QED
        BY <2>1, <3>3 DEF HasChunk
    <2>6. CopyInv' /\ TaskInv'
      BY <1>a, <2>1, <2>4 DEF CopyInv, TaskInv, SomeTaskFailed
    <2>7. InstalledIntact'
      BY <1>a, <2>1, <2>5 DEF InstalledIntact, Own
    <2>8. QED
      BY <1>0, <2>3, <2>6, <2>7
  <1>15. CASE WriteFails
    <2>1. /\ target' = target /\ old' = old /\ UNCHANGED <<pc, valid, task>>
          /\ tail.st = "busy" /\ CutShort
          /\ tail'.st = "error" /\ tail'.slot = tail.slot /\ tail'.at = tail.at
      BY <1>0, <1>15 DEF WriteFails, TypeInv, TypeOK, TailStates
    <2>2. TypeOK /\ Junk \in Content
      BY <1>0 DEF TypeInv, Content
    <2>3. TailDataInv'
      BY <2>1 DEF TailDataInv
    <2>4. ASSUME pc \in {"copy", "await", "rename"},
                 NEW i \in Indices(target), Own(D(i)), StagingHas(D(i))
          PROVE  StagingHas(D(i))'
      <3>1. D(i) \in Chunk /\ tail.at = "staging" /\ staging # None
        BY <1>0, <1>c, <2>4 DEF TypeInv, TypeOK, TailInv
      <3>2. CASE tail.slot = D(i).off
        BY <2>1, <3>2 DEF StagingHas
      <3>3. CASE tail.slot # D(i).off /\ UNCHANGED <<final, staging>>
        BY <2>1, <2>4, <3>3 DEF StagingHas
      <3>4. CASE tail.slot # D(i).off /\ Put(Junk)
        <4>1. ChunkIntact(staging', D(i))
          BY <2>1, <2>2, <2>4, <3>1, <3>4, StagingWrite DEF Own
        <4>2. QED
          BY <2>1, <4>1 DEF StagingHas
      <3>5. QED
        BY <2>1, <3>2, <3>3, <3>4 DEF CutShort
    <2>5. ASSUME pc \in {"ok", "recorded"},
                 NEW i \in Indices(target), Own(D(i)), HasChunk(D(i))
          PROVE  HasChunk(D(i))'
      <3>1. D(i) \in Chunk /\ tail.at = "final" /\ final # None
        BY <1>0, <1>c, <2>1, <2>5 DEF TypeInv, TypeOK, TailInv
      <3>2. CASE tail.slot = D(i).off
        BY <2>1, <3>1, <3>2 DEF HasChunk
      <3>3. CASE tail.slot # D(i).off /\ UNCHANGED <<final, staging>>
        BY <2>1, <2>5, <3>3 DEF HasChunk
      <3>4. CASE tail.slot # D(i).off /\ Put(Junk)
        <4>1. ChunkIntact(final', D(i))
          BY <2>1, <2>2, <2>5, <3>1, <3>4, FinalWrite DEF Own
        <4>2. QED
          BY <2>1, <4>1 DEF HasChunk
      <3>5. QED
        BY <2>1, <3>2, <3>3, <3>4 DEF CutShort
    <2>6. CopyInv' /\ TaskInv'
      BY <1>a, <2>1, <2>4 DEF CopyInv, TaskInv, SomeTaskFailed
    <2>7. InstalledIntact'
      BY <1>a, <2>1, <2>5 DEF InstalledIntact, Own
    <2>8. QED
      BY <1>0, <2>3, <2>6, <2>7
  <1>16. CASE IoError
    BY <1>16, <1>b DEF IoError
  <1>17. CASE Damage
    BY <1>17, <1>b DEF Damage, CopyInv
  <1>18. CASE Finished \/ UNCHANGED vars
    <2>1. UNCHANGED vars
      BY <1>18 DEF Finished
    <2>2. TailDataInv' /\ CopyInv' /\ TaskInv' /\ InstalledIntact'
      BY <1>a, <2>1 DEF vars, TailDataInv, CopyInv, TaskInv, InstalledIntact, StagingHas,
         HasChunk, SomeTaskFailed, Own, Wanted
    <2>3. QED
      BY <1>0, <2>2
  <1>19. QED
    BY <1>1, <1>2, <1>3, <1>4, <1>5, <1>6, <1>7, <1>8, <1>9, <1>10, <1>11, <1>12, <1>13,
       <1>14, <1>15, <1>16, <1>17, <1>18 DEF Next, FileStep

\* For entries whose chunks have different ids and slots, every chunk that a
\* run does not share with the previous version is followed from its
\* verification or its task's write to the renamed file: where its work is
\* done, it is in the file or the one write under way.
THEOREM RunInvariant ==
    ASSUME WellFormed
    PROVE  Spec => []IInv
  <1>1. IInv /\ [Next]_vars => IInv'
    BY IInvNext
  <1>2. QED
    BY <1>1, IInvInit, PTL DEF Spec

\* So a download that returns Ok has put every chunk it does not share with
\* the previous version into the file, the last write excepted, whatever
\* happened before.
THEOREM DownloadedChunksIntact ==
    ASSUME WellFormed
    PROVE  Spec => []InstalledIntact
  <1>1. IInv => InstalledIntact
    BY DEF IInv
  <1>2. QED
    BY <1>1, RunInvariant, PTL

-----------------------------------------------------------------------------
(***************************************************************************)
(* Whole versions of a file: a download resumes without losing chunks,     *)
(* replaces the installed version by the wanted one, and so implements     *)
(* AtomicFile.                                                             *)
(***************************************************************************)

(* Resumption of one version.                                              *)

\* the program is started again and again for the same version
OneVersionWanted == \A v, w \in Versions : v = w

StagedChunk(i) == ChunkIntact(staging, chunks(target)[i])

\* no chunk that is still to be written is in the staging file already, so
\* that no failed write can destroy one
PendingInv ==
    /\ pc = "copy" =>
          \A i \in Indices(target) : chunks(target)[i].id \notin valid => ~StagedChunk(i)
    /\ pc \in {"await", "rename", "failed"} =>
          \A i \in DOMAIN task : task[i] \in {"queued", "fetch", "write"} => ~StagedChunk(i)
    /\ tail.st = "busy" /\ tail.at = "staging" =>
          /\ pc \in {"await", "rename", "failed"}
          /\ \A i \in Indices(target) : tail.slot = chunks(target)[i].off => ~StagedChunk(i)
          /\ \A i \in DOMAIN task :
                tail.slot = chunks(target)[i].off => task[i] \notin {"queued", "fetch", "write"}

\* the staging file is as long as the version or still empty
StagingSizeInv ==
    /\ pc \in {"create", "set_len"} => staging \in {None, <<>>}
    /\ staging # None /\ staging # <<>> => \A v \in Versions : Len(staging) = size(v)
    /\ pc \in {"copy", "await", "rename"} => Len(staging) = size(target)
    /\ pc = "failed" /\ task # <<>> => Len(staging) = size(target)
    /\ tail.st = "busy" /\ tail.at = "staging" => tail.slot \in 1 .. Len(staging)

\* with one version only there is never a previous one to copy from
ResumeInv == TypeInv /\ old = None /\ PendingInv /\ StagingSizeInv

-----------------------------------------------------------------------------
(* One version after another.                                              *)

\* the chunk is in the staging file, the last write counted
Staged(i) == ChunkIntact(Settling(staging, "staging"), chunks(target)[i])

\* the file has its length and the last write falls into it
LengthInv ==
    /\ pc \in {"copy", "await", "rename"} => Len(staging) = size(target)
    /\ pc \in {"ok", "recorded"} => Len(final) = size(target)
    /\ pc \in {"copy", "await", "rename", "ok", "recorded"} /\ tail.st # "idle" =>
          tail.slot \in 1 .. size(target) /\ tail.data \in Content

\* what was verified, copied or written is there, if the copies are sound and
\* no error has been reported
StageInv ==
    /\ pc \in {"idle", "check_final", "check_staging", "create", "set_len"} =>
          valid = {} /\ k = 1
    /\ pc = "copy" =>
          /\ k >= 1
          /\ Sound =>
                \A i \in Indices(target) :
                    chunks(target)[i].id \in valid \/ (i < k /\ Reusable(chunks(target)[i]))
                        => Staged(i)
    /\ pc \in {"await", "rename"} =>
          /\ task \in [Indices(target) -> TaskStates]
          /\ Sound /\ ~SomeTaskFailed =>
                \A i \in Indices(target) : Settled(task[i]) => Staged(i)

\* a good file is the version just installed, the last write counted, and some
\* version but for one slot otherwise
FinalInv ==
    /\ pc \in {"ok", "recorded"} /\ good => WholeVersion(Settling(final, "final"), target)
    /\ LastWriteOnly

AtomicInv == TypeInv /\ LengthInv /\ StageInv /\ FinalInv

-----------------------------------------------------------------------------
(* Facts about versions and files.                                         *)

\* The chunks of a complete entry lie in the file, each in a slot of its own.
LEMMA CompleteChunk ==
    ASSUME NEW v \in Versions, Complete(v)
    PROVE  /\ size(v) \in Nat
           /\ \A i \in Indices(v) :
                 /\ chunks(v)[i] \in Chunk
                 /\ chunks(v)[i].id \in Ids /\ chunks(v)[i].sum = chunks(v)[i].id
                 /\ chunks(v)[i].off \in 1 .. size(v)
                 /\ chunks(v)[i].off # None /\ chunks(v)[i].off \in Nat \ {0}
           /\ \A i, j \in Indices(v) : i # j => chunks(v)[i].off # chunks(v)[j].off
  <1>1. size(v) \in Nat
    BY ChunkType DEF Complete
  <1>2. ASSUME NEW i \in Indices(v)
        PROVE  /\ chunks(v)[i] \in Chunk
               /\ chunks(v)[i].id \in Ids /\ chunks(v)[i].sum = chunks(v)[i].id
               /\ chunks(v)[i].off \in 1 .. size(v)
               /\ chunks(v)[i].off # None /\ chunks(v)[i].off \in Nat \ {0}
    <2>1. chunks(v)[i] \in Chunk
      BY ChunkType
    <2>2. chunks(v)[i].id # None /\ chunks(v)[i].sum = chunks(v)[i].id /\ chunks(v)[i].off # None
      BY DEF Complete
    <2>3. chunks(v)[i].off \in 1 .. size(v)
      BY DEF Complete
    <2>4. QED
      BY <2>1, <2>2, <2>3 DEF Chunk
  <1>3. QED
    BY <1>1, <1>2 DEF Complete

\* A file is a version exactly if it has its size and all its chunks.
LEMMA WholeIsIntact ==
    ASSUME NEW v \in Versions, Complete(v), NEW f
    PROVE  WholeVersion(f, v) <=> /\ Len(f) = size(v)
                                  /\ \A i \in Indices(v) : ChunkIntact(f, chunks(v)[i])
  <1>1. \A i \in Indices(v) : /\ chunks(v)[i].off # None /\ chunks(v)[i].off \in 1 .. size(v)
                              /\ chunks(v)[i].sum \in Ids /\ chunks(v)[i].sum # None
    BY CompleteChunk, SentinelAssumption
  <1>2. size(v) \in Nat
    BY CompleteChunk
  <1>3. QED
    BY <1>1, <1>2 DEF WholeVersion, ChunkIntact, Readable

\* A write inside the file keeps its length.
LEMMA WriteInside ==
    ASSUME NEW f \in File, NEW data \in Content, NEW s \in 1 .. Len(f)
    PROVE  /\ WriteAt(f, s, data) \in File
           /\ Len(WriteAt(f, s, data)) = Len(f)
  <1>1. Len(f) \in Nat /\ s \in Nat \ {0} /\ ~(s > Len(f))
    BY LenProperties DEF File
  <1>2. WriteAt(f, s, data) \in File
    BY <1>1, WriteAtProperties
  <1>3. WriteAt(f, s, data) = [i \in 1 .. Len(f) |->
            IF i = s THEN data ELSE IF i <= Len(f) THEN f[i] ELSE Zero]
    BY <1>1 DEF WriteAt
  <1>4. Len(WriteAt(f, s, data)) = Len(f)
    BY <1>1, <1>2, <1>3, LenProperties DEF File
  <1>5. QED
    BY <1>2, <1>4

\* The length of the file that set_len creates.
LEMMA ZeroFileLength ==
    ASSUME NEW n \in Nat, NEW f, f = [i \in 1 .. n |-> Zero]
    PROVE  f \in File /\ Len(f) = n
  BY ZeroFileType, LenProperties DEF File

\* A new file has none of a complete entry's chunks.
LEMMA NothingInZeros ==
    ASSUME NEW v \in Versions, Complete(v), NEW i \in Indices(v), NEW n \in Nat
    PROVE  /\ ~ChunkIntact(<<>>, chunks(v)[i])
           /\ ~ChunkIntact([s \in 1 .. n |-> Zero], chunks(v)[i])
  <1>1. /\ chunks(v)[i].off \in Nat \ {0} /\ chunks(v)[i].off # None
        /\ chunks(v)[i].sum \in Ids
    BY CompleteChunk
  <1>2. [s \in 1 .. n |-> Zero] \in File /\ Len([s \in 1 .. n |-> Zero]) = n
    BY ZeroFileType, LenProperties DEF File
  <1>3. QED
    BY <1>1, <1>2, SentinelAssumption, EmptySeq DEF ChunkIntact, Readable

-----------------------------------------------------------------------------
(* Staged chunks survive.                                                  *)

\* every entry has the fields that resumption relies on
AllComplete == \A v \in Versions : Complete(v)

\* Nothing is staged and nothing runs at first.
LEMMA ResumeInvInit == Init => ResumeInv
  BY TypeInvInit DEF Init, ResumeInv, PendingInv, StagingSizeInv, Idle

\* What becomes of the staging file when bytes are written to a slot whose
\* chunk is not there yet: it keeps its length and its chunks, and only the
\* chunk of that slot may come.
LEMMA PutKeepsChunks ==
    ASSUME OneVersionWanted, AllComplete, ResumeInv, tail.st = "busy",
           NEW data \in Content, Put(data)
    PROVE  /\ staging' # None => /\ Len(staging') = Len(staging)
                                 /\ staging' = <<>> <=> staging = <<>>
           /\ staging' # None =>
                 \A v \in Versions : \A i \in Indices(v) :
                    /\ ChunkIntact(staging, chunks(v)[i]) => ChunkIntact(staging', chunks(v)[i])
                    /\ tail.at = "staging" /\ tail.slot # chunks(v)[i].off
                          => (ChunkIntact(staging', chunks(v)[i]) => ChunkIntact(staging, chunks(v)[i]))
           /\ tail.at = "final" => staging' = staging
  <1>1. CASE tail.at = "final"
    BY <1>1 DEF Put
  <1>2. CASE tail.at = "staging"
    <2>1. /\ staging \in File /\ staging # None /\ staging' = WriteAt(staging, tail.slot, data)
          /\ target \in Versions /\ tail.slot \in 1 .. Len(staging) /\ tail.slot \in Nat \ {0}
          /\ \A i \in Indices(target) : tail.slot = chunks(target)[i].off => ~StagedChunk(i)
      BY <1>2 DEF Put, ResumeInv, TypeInv, TypeOK, TailStates, PendingInv, StagingSizeInv
    <2>2. staging' \in File /\ Len(staging') = Len(staging)
      BY <2>1, WriteInside
    <2>3. staging' = <<>> <=> staging = <<>>
      BY <2>1, <2>2, EmptySeq, LenProperties DEF File
    <2>4. ASSUME NEW v \in Versions, NEW i \in Indices(v)
          PROVE  /\ ChunkIntact(staging, chunks(v)[i]) => ChunkIntact(staging', chunks(v)[i])
                 /\ tail.slot # chunks(v)[i].off
                       => (ChunkIntact(staging', chunks(v)[i]) => ChunkIntact(staging, chunks(v)[i]))
      <3>1. v = target /\ chunks(v)[i] \in Chunk
        BY <2>1, CompleteChunk DEF OneVersionWanted, AllComplete
      <3>2. CASE tail.slot = chunks(v)[i].off
        BY <2>1, <3>1, <3>2 DEF StagedChunk
      <3>3. CASE tail.slot # chunks(v)[i].off
        <4>1. ChunkIntact(staging, chunks(v)[i]) => ChunkIntact(staging', chunks(v)[i])
          BY <2>1, <3>1, <3>3, WriteKeeps
        <4>2. \A s \in 1 .. Len(staging) : s # tail.slot => staging'[s] = staging[s]
          BY <2>1, WriteAtProperties
        <4>3. chunks(v)[i].off # None => chunks(v)[i].off \in Nat \ {0}
          BY <3>1 DEF Chunk
        <4>4. ASSUME ChunkIntact(staging', chunks(v)[i])
              PROVE  ChunkIntact(staging, chunks(v)[i])
          <5>1. Len(staging) \in Nat
            BY <2>1, LenProperties DEF File
          <5>2. QED
            BY <2>2, <3>3, <4>2, <4>3, <4>4, <5>1 DEF ChunkIntact, Readable
        <4>5. QED
          BY <4>1, <4>4
      <3>4. QED
        BY <3>2, <3>3
    <2>5. QED
      BY <1>2, <2>2, <2>3, <2>4
  <1>3. QED
    BY <1>1, <1>2 DEF Put

\* Every step keeps the chunks of the staging file and writes only missing ones.
LEMMA ResumeInvNext ==
    ASSUME OneVersionWanted, AllComplete, ResumeInv, [Next]_vars
    PROVE  ResumeInv'
  <1> USE DEF ResumeInv, disk, run
  <1>0. TypeInv /\ TypeInv'
    BY TypeInvNext
  <1>a. target \in Versions => Complete(target)
    BY DEF AllComplete
  <1>b. \A v \in Versions : target \in Versions => size(v) = size(target)
    BY DEF OneVersionWanted
  <1>1. ASSUME NEW v \in Versions, Begin(v)
        PROVE  ResumeInv'
    <2>1. old' = None
      <3>1. old' \in {None} \cup ({recorded} \ {v}) /\ recorded \in Versions \cup {None}
        BY <1>0, <1>1 DEF Begin, PreviousManifest, TypeInv, TypeOK
      <3>2. QED
        BY <3>1 DEF OneVersionWanted
    <2>2. QED
      BY <1>0, <1>1, <2>1 DEF Begin, PendingInv, StagingSizeInv, TypeInv, TypeOK, TailInv, Idle
  <1>2. CASE CheckFinal
    BY <1>0, <1>2 DEF CheckFinal, PendingInv, StagingSizeInv, TypeInv, TypeOK, TailInv, Idle
  <1>3. CASE CheckStaging
    <2>1. tail = Idle /\ target \in Versions /\ pc = "check_staging" /\ old' = old
          /\ tail' = tail /\ task' = task /\ target' = target /\ task = <<>>
      BY <1>0, <1>3 DEF CheckStaging, TypeInv, TypeOK, TailInv
    <2>2. CASE pc' = "create"
      <3>1. staging' = staging /\ (staging # None => Len(staging) # size(target))
        BY <1>3, <2>1, <2>2, <1>a, CompleteChunk
           DEF CheckStaging, file_has_correct_size, Complete
      <3>2. staging \in {None, <<>>}
        BY <2>1, <3>1 DEF StagingSizeInv
      <3>3. QED
        BY <1>0, <2>1, <2>2, <3>1, <3>2 DEF PendingInv, StagingSizeInv, Idle
    <2>3. CASE pc' = "ok"
      BY <1>0, <1>3, <2>1, <2>3 DEF CheckStaging, PendingInv, StagingSizeInv, Idle
    <2>4. CASE pc' = "copy"
      <3>1. staging' = staging /\ valid' = IntactIds /\ Len(staging) = size(target)
        BY <1>3, <2>4 DEF CheckStaging, file_has_correct_size
      <3>2. ASSUME NEW i \in Indices(target), chunks(target)[i].id \notin IntactIds
            PROVE  ~StagedChunk(i)
        <4>1. chunks(target)[i].id # None
          BY <1>a, <2>1, CompleteChunk, SentinelAssumption
        <4>2. QED
          BY <3>2, <4>1 DEF IntactIds, verify_chunks, StagedChunk
      <3>3. PendingInv'
        BY <2>1, <2>4, <3>1, <3>2 DEF PendingInv, StagedChunk, Idle
      <3>4. QED
        BY <1>0, <2>1, <2>4, <3>1, <3>3 DEF StagingSizeInv, Idle
    <2>5. QED
      BY <1>3, <2>2, <2>3, <2>4 DEF CheckStaging
  <1>4. CASE CreateStaging
    <2>1. tail = Idle /\ target \in Versions /\ size(target) # None /\ task = <<>>
      BY <1>0, <1>4, <1>a DEF CreateStaging, TypeInv, TypeOK, TailInv, Complete
    <2>2. QED
      BY <1>0, <1>4, <2>1 DEF CreateStaging, PendingInv, StagingSizeInv, Idle
  <1>5. CASE SetLen
    <2>1. /\ tail = Idle /\ target \in Versions /\ size(target) \in Nat /\ task = <<>>
          /\ pc' = "copy" /\ UNCHANGED <<tail, target, old, valid, task>>
          /\ staging' = [s \in 1 .. size(target) |-> Zero]
      <3>1. target \in Versions /\ tail = Idle /\ task = <<>>
        BY <1>0, <1>5 DEF SetLen, TypeInv, TypeOK, TailInv
      <3>2. size(target) \in Nat
        BY <1>a, <3>1, CompleteChunk
      <3>3. QED
        BY <1>5, <3>1, <3>2 DEF SetLen
    <2>2. staging' \in File /\ Len(staging') = size(target)
      BY <2>1, ZeroFileLength
    <2>3. \A i \in Indices(target) : ~ChunkIntact(staging', chunks(target)[i])
      BY <1>a, <2>1, NothingInZeros DEF AllComplete
    <2>4. PendingInv'
      BY <2>1, <2>3 DEF PendingInv, StagedChunk, Idle
    <2>5. staging' # None
      BY <2>2, SentinelAssumption DEF File
    <2>6. StagingSizeInv'
      BY <1>b, <2>1, <2>2, <2>5, SentinelAssumption DEF StagingSizeInv, Idle
    <2>7. QED
      BY <1>0, <2>1, <2>4, <2>6
  <1>6. CASE CopyChunk
    BY <1>6 DEF CopyChunk, DeltaPossible
  <1>7. CASE SpawnTasks
    <2>1. ASSUME NEW i \in Indices(target), task'[i] \in {"queued", "fetch", "write"}
          PROVE  ~StagedChunk(i)
      <3>1. Disposition(chunks(target)[i]) = "queued"
        BY <1>7, <2>1 DEF SpawnTasks, Disposition
      <3>2. QED
        BY <1>7, <3>1 DEF SpawnTasks, Disposition, PendingInv
    <2>2. UNCHANGED <<staging, tail, target, old>> /\ pc = "copy" /\ pc' = "await"
          /\ DOMAIN task' = Indices(target)
      BY <1>7 DEF SpawnTasks
    <2>3. PendingInv'
      BY <2>1, <2>2 DEF PendingInv, StagedChunk
    <2>4. QED
      BY <1>0, <2>2, <2>3 DEF StagingSizeInv
  <1>8. CASE AwaitFails \/ AwaitAll
    BY <1>0, <1>8 DEF AwaitFails, AwaitAll, PendingInv, StagingSizeInv, StagedChunk
  <1>9. CASE Rename
    BY <1>0, <1>9 DEF Rename, PendingInv, StagingSizeInv, TypeInv, TypeOK, TailStates
  <1>10. CASE Record
    BY <1>0, <1>10 DEF Record, PendingInv, StagingSizeInv
  <1>11. CASE Exit \/ ExitFailed \/ Crash \/ JobFails
    <2>1. ProcessGone /\ TypeOK /\ Junk \in Content
      BY <1>0, <1>11 DEF Exit, ExitFailed, Crash, JobFails, TypeInv, Content
    <2>2. /\ staging' # None => staging # None
          /\ staging' # None => Len(staging') = Len(staging) /\ (staging' = <<>> <=> staging = <<>>)
      BY <2>1, PutKeepsChunks, CutShortType DEF ProcessGone, CutShort
    <2>3. QED
      BY <1>0, <2>1, <2>2 DEF ProcessGone, PendingInv, StagingSizeInv, Idle
  <1>12. ASSUME NEW i \in DOMAIN task, ChunkStep(i)
         PROVE  ResumeInv'
    <2>1. /\ UNCHANGED <<staging, pc, target, old, valid>>
          /\ task[i] \in {"queued", "fetch", "write"}
      BY <1>12 DEF ChunkStep, AcquirePermit, FetchFails, FetchAnswers, WriteChunk
    <2>2. /\ pc \in {"await", "failed"} /\ task # <<>>
          /\ task \in [Indices(target) -> TaskStates] /\ target \in Versions
          /\ i \in Indices(target) /\ ~StagedChunk(i)
          /\ Len(staging) = size(target)
      BY <1>0, <1>12, <2>1
         DEF TypeInv, TypeOK, TailInv, SettledInv, Settled, Skipped, PendingInv, StagingSizeInv
    <2>3. /\ DOMAIN task' = DOMAIN task
          /\ \A j \in Indices(target) : j # i => task'[j] = task[j]
      BY <1>12, <2>2 DEF ChunkStep, AcquirePermit, FetchFails, FetchAnswers, WriteChunk, SetTask
    <2>4. \A j \in DOMAIN task' : task'[j] \in {"queued", "fetch", "write"} => ~StagedChunk(j)
      BY <2>1, <2>2, <2>3 DEF PendingInv
    <2>5. CASE tail' = tail \/ tail' = Idle
      BY <1>0, <2>1, <2>2, <2>3, <2>4, <2>5 DEF PendingInv, StagingSizeInv, StagedChunk, Idle
    <2>6. CASE Buffer(chunks(target)[i].off, chunks(target)[i].sum) /\ task'[i] = "done"
      <3>1. /\ chunks(target)[i].off \in 1 .. Len(staging)
            /\ \A j \in Indices(target) :
                  chunks(target)[i].off = chunks(target)[j].off => i = j
        BY <1>a, <2>2, CompleteChunk
      <3>2. PendingInv'
        <4>1. tail'.slot = chunks(target)[i].off /\ tail'.st = "busy"
          BY <2>6 DEF Buffer
        <4>2. \A j \in Indices(target) : tail'.slot = chunks(target)[j].off => j = i
          BY <3>1, <4>1
        <4>3. \A j \in DOMAIN task' : task'[j] \in {"queued", "fetch", "write"} => j # i
          BY <2>6
        <4>4. QED
          BY <2>1, <2>2, <2>3, <2>4, <4>1, <4>2, <4>3 DEF PendingInv, StagedChunk
      <3>3. StagingSizeInv'
        BY <2>1, <2>2, <2>6, <3>1 DEF Buffer, StagingSizeInv
      <3>4. QED
        BY <1>0, <2>1, <3>2, <3>3
    <2>7. QED
      BY <1>12, <2>2, <2>5, <2>6
         DEF ChunkStep, AcquirePermit, FetchFails, FetchAnswers, WriteChunk, SetTask
  <1>13. CASE WriteLands \/ WriteFails
    <2>1. /\ UNCHANGED <<pc, target, old, valid, task>> /\ tail.st = "busy" /\ tail'.st # "busy"
          /\ UNCHANGED staging \/ \E data \in Content : Put(data)
      <3>1. tail.st = "busy" => tail.data \in Content
        BY <1>0 DEF TypeInv, TypeOK, TailStates
      <3>2. Junk \in Content
        BY DEF Content
      <3>3. tail \in TailStates
        BY <1>0 DEF TypeInv, TypeOK
      <3>4. tail'.st # "busy"
        BY <1>13, <3>3 DEF WriteLands, WriteFails, Idle, TailStates
      <3>5. QED
        BY <1>13, <3>1, <3>2, <3>4 DEF WriteLands, WriteFails, CutShort
    <2>2. CASE UNCHANGED staging
      BY <1>0, <2>1, <2>2 DEF PendingInv, StagingSizeInv, StagedChunk
    <2>3. ASSUME NEW data \in Content, Put(data)
          PROVE  ResumeInv'
      <3>1. staging' = None <=> staging = None
        BY <1>0, <2>1, <2>3, PutType DEF TypeInv
      <3>2. CASE tail.at = "final"
        BY <1>0, <2>1, <2>2, <2>3, <3>2, PutKeepsChunks
      <3>3. CASE tail.at = "staging"
        <4>1. /\ staging # None /\ Len(staging') = Len(staging) /\ (staging' = <<>> <=> staging = <<>>)
              /\ target \in Versions /\ staging' # None
              /\ pc \in {"await", "rename", "failed"}
          BY <1>0, <2>1, <2>3, <3>1, <3>3, PutKeepsChunks DEF TypeInv, TypeOK, PendingInv
        <4>2. \A i \in Indices(target) :
                 tail.slot # chunks(target)[i].off /\ ~ChunkIntact(staging, chunks(target)[i])
                     => ~ChunkIntact(staging', chunks(target)[i])
          BY <2>1, <2>3, <3>3, <4>1, PutKeepsChunks
        <4>3. /\ task # <<>> => task \in [Indices(target) -> TaskStates]
              /\ task = <<>> => DOMAIN task = {}
          BY <1>0 DEF TypeInv, TypeOK
        <4>4. PendingInv'
          BY <2>1, <4>1, <4>2, <4>3, <3>3 DEF PendingInv, StagedChunk
        <4>5. StagingSizeInv'
          BY <2>1, <4>1 DEF StagingSizeInv
        <4>6. QED
          BY <1>0, <2>1, <4>4, <4>5
      <3>4. QED
        BY <2>3, <3>2, <3>3 DEF Put
    <2>4. QED
      BY <2>1, <2>2, <2>3
  <1>14. CASE IoError
    <2>1. pc # "rename" => task = <<>> /\ DOMAIN task = {}
      BY <1>0, <1>14 DEF IoError, TypeInv, TypeOK
    <2>2. PendingInv'
      BY <1>0, <1>14, <2>1 DEF IoError, PendingInv, StagedChunk, TypeInv, TailInv, Idle
    <2>3. StagingSizeInv'
      BY <1>0, <1>14, <2>1 DEF IoError, StagingSizeInv, TypeInv, TailInv, Idle
    <2>4. QED
      BY <1>0, <1>14, <2>2, <2>3 DEF IoError
  <1>15. CASE Damage
    BY <1>0, <1>15 DEF Damage, PendingInv, StagingSizeInv, StagedChunk, TypeInv, TailInv, Idle
  <1>16. CASE Finished \/ UNCHANGED vars
    BY <1>0, <1>16 DEF Finished, vars, PendingInv, StagingSizeInv, StagedChunk
  <1>17. QED
    BY <1>1, <1>2, <1>3, <1>4, <1>5, <1>6, <1>7, <1>8, <1>9, <1>10, <1>11, <1>12, <1>13,
       <1>14, <1>15, <1>16 DEF Next, FileStep

\* No step takes a chunk out of a staging file that stays.
LEMMA StagedChunksKept ==
    ASSUME OneVersionWanted, AllComplete, ResumeInv, [Next]_vars,
           staging # None, staging' # None,
           NEW v \in Versions, NEW i \in Indices(v), ChunkIntact(staging, chunks(v)[i])
    PROVE  ChunkIntact(staging', chunks(v)[i])
  <1> USE DEF disk, run
  <1>1. CASE UNCHANGED staging
    BY <1>1
  <1>2. CASE \E data \in Content : tail.st = "busy" /\ Put(data)
    BY <1>2, PutKeepsChunks
  <1>3. CASE CreateStaging \/ SetLen
    <2>1. staging = <<>>
      BY <1>3 DEF CreateStaging, SetLen, ResumeInv, StagingSizeInv
    <2>2. ~ChunkIntact(<<>>, chunks(v)[i])
      BY NothingInZeros DEF AllComplete
    <2>3. QED
      BY <2>1, <2>2
  <1>4. CASE CheckStaging \/ Rename
    BY <1>4 DEF CheckStaging, Rename
  <1>5. CASE Exit \/ ExitFailed \/ Crash \/ JobFails
    BY <1>1, <1>2, <1>5 DEF Exit, ExitFailed, Crash, JobFails, ProcessGone, CutShort, Content
  <1>6. CASE WriteLands \/ WriteFails
    <2>1. tail.st = "busy" => tail.data \in Content
      BY DEF ResumeInv, TypeInv, TypeOK, TailStates
    <2>2. QED
      BY <1>1, <1>2, <1>6, <2>1 DEF WriteLands, WriteFails, CutShort, Content
  <1>7. CASE CheckFinal \/ CopyChunk \/ SpawnTasks \/ AwaitFails \/ AwaitAll \/ Record
    BY <1>1, <1>7 DEF CheckFinal, CopyChunk, SpawnTasks, AwaitFails, AwaitAll, Record
  <1>8. CASE \E w \in Versions : Begin(w)
    BY <1>1, <1>8 DEF Begin
  <1>9. CASE \E j \in DOMAIN task : ChunkStep(j)
    BY <1>1, <1>9 DEF ChunkStep, AcquirePermit, FetchFails, FetchAnswers, WriteChunk
  <1>10. CASE IoError \/ Damage \/ Finished \/ UNCHANGED vars
    BY <1>1, <1>10 DEF IoError, Damage, Finished, vars
  <1>11. QED
    BY <1>3, <1>4, <1>5, <1>6, <1>7, <1>8, <1>9, <1>10 DEF Next, FileStep

\* As long as the program is started for one version, whose entry is complete,
\* neither a crash nor an error nor a failed write nor a restart takes a chunk
\* out of the staging file again.
THEOREM ResumptionKeepsChunks ==
    ASSUME OneVersionWanted, AllComplete
    PROVE  Spec => StagedChunksSurvive
  <1> DEFINE Kept == staging # None /\ staging' # None =>
                        \A v \in Versions : \A i \in Indices(v) :
                            ChunkIntact(staging, chunks(v)[i]) => ChunkIntact(staging, chunks(v)[i])'
  <1>1. ResumeInv /\ [Next]_vars => ResumeInv'
    BY ResumeInvNext
  <1>2. ResumeInv /\ [Next]_vars => Kept
    <2> SUFFICES ASSUME ResumeInv, [Next]_vars, staging # None, staging' # None,
                        NEW v \in Versions, NEW i \in Indices(v), ChunkIntact(staging, chunks(v)[i])
                 PROVE  ChunkIntact(staging, chunks(v)[i])'
      OBVIOUS
    <2>1. ChunkIntact(staging', chunks(v)[i])
      BY StagedChunksKept
    <2>2. QED
      BY <2>1 DEF ChunkIntact, Readable, chunks
  <1>3. StagedChunksSurvive <=> [][Kept]_vars
    BY PTL DEF StagedChunksSurvive
  <1> HIDE DEF Kept
  <1>4. QED
    BY <1>1, <1>2, <1>3, ResumeInvInit, PTL DEF Spec

-----------------------------------------------------------------------------
(* Sound copies and whole versions.                                        *)

\* At first there is no file.
LEMMA AtomicInvInit == Init => AtomicInv
  <1>1. Init => LastWriteOnly
    BY DEF Init, LastWriteOnly
  <1>2. QED
    BY <1>1, TypeInvInit DEF Init, AtomicInv, LengthInv, StageInv, FinalInv

\* A file of a complete entry's size and with all its chunks is what the
\* copy loop takes for granted.
LEMMA SoundIsWhole ==
    ASSUME SteamEntries, old \in Versions, final # None, Sound
    PROVE  WholeVersion(final, old)
  <1>1. file_has_valid_chunks(final, old)
    BY SentinelAssumption DEF Sound, DeltaPossible
  <1>2. QED
    BY <1>1, WholeIsIntact
       DEF SteamEntries, file_has_valid_chunks, file_has_correct_size, verify_chunks

\* Whether the copies are sound does not change while file and source stay.
LEMMA SoundKept ==
    ASSUME UNCHANGED <<final, old>>
    PROVE  Sound' <=> Sound
  BY DEF Sound, DeltaPossible, file_has_valid_chunks, file_has_correct_size, verify_chunks,
         ChunkIntact, Readable

\* The second write to a slot covers the first.
LEMMA WriteTwice ==
    ASSUME NEW f \in File, NEW s \in 1 .. Len(f), NEW a \in Content, NEW b \in Content
    PROVE  WriteAt(WriteAt(f, s, a), s, b) = WriteAt(f, s, b)
  <1> DEFINE g == WriteAt(f, s, a)
  <1>1. Len(f) \in Nat
    BY LenProperties DEF File
  <1>2. g \in File /\ Len(g) = Len(f)
    BY WriteInside
  <1>3. \A i \in 1 .. Len(f) : i # s => g[i] = f[i]
    BY <1>1, WriteAtProperties
  <1> HIDE DEF g
  <1>4. QED
    BY <1>1, <1>2, <1>3 DEF WriteAt, g

\* What is whole is not short of anything.
LEMMA WholeIsShort ==
    ASSUME NEW v \in Versions, Complete(v), NEW f, WholeVersion(f, v)
    PROVE  OneSlotShort(f, v)
  BY WholeIsIntact DEF OneSlotShort

\* A file that one write completes is short of that write's slot, whatever
\* has been written there.
LEMMA ShortOfWrite ==
    ASSUME NEW v \in Versions, Complete(v), NEW f \in File, NEW s \in 1 .. Len(f),
           NEW data \in Content, WholeVersion(WriteAt(f, s, data), v),
           NEW other \in Content
    PROVE  OneSlotShort(f, v) /\ OneSlotShort(WriteAt(f, s, other), v)
  <1> DEFINE g == WriteAt(f, s, data)
             h == WriteAt(f, s, other)
  <1>1. Len(f) \in Nat /\ s \in Nat \ {0}
    BY LenProperties DEF File
  <1>2. /\ g \in File /\ Len(g) = Len(f) /\ h \in File /\ Len(h) = Len(f)
    BY WriteInside
  <1>3. \A i \in 1 .. Len(f) : i # s => g[i] = f[i] /\ h[i] = f[i]
    BY <1>1, WriteAtProperties
  <1>4. Len(g) = size(v) /\ \A i \in Indices(v) : ChunkIntact(g, chunks(v)[i])
    BY WholeIsIntact
  <1>5. \A i \in Indices(v) : chunks(v)[i].off \in 1 .. size(v)
    BY CompleteChunk
  <1> HIDE DEF g, h
  <1>6. ASSUME NEW i \in Indices(v), chunks(v)[i].off # s
        PROVE  ChunkIntact(f, chunks(v)[i]) /\ ChunkIntact(h, chunks(v)[i])
    BY <1>1, <1>2, <1>3, <1>4, <1>5, <1>6 DEF ChunkIntact, Readable
  <1>7. s \in {0} \cup (1 .. size(v)) /\ Len(f) = size(v) /\ Len(h) = size(v)
    BY <1>1, <1>2, <1>4
  <1>8. OneSlotShort(f, v) /\ OneSlotShort(h, v)
    BY <1>6, <1>7 DEF OneSlotShort
  <1>9. QED
    BY <1>8 DEF h

\* When the file at the path is the previous version, the copy loop can copy
\* every chunk that version shares with the wanted one, and copies its bytes.
LEMMA CopyIsRight ==
    ASSUME SteamEntries, old \in Versions, target \in Versions,
           WholeVersion(final, old), NEW i \in Indices(target),
           InOldChunks(chunks(target)[i])
    PROVE  /\ CanCopy(chunks(target)[i])
           /\ final[CopySource(chunks(target)[i])] = chunks(target)[i].sum
  <1> DEFINE c == chunks(target)[i]
  <1>1. PICK j \in OldMatches(c.id) : FirstOldMatch(c.id) = chunks(old)[j]
    BY FirstOldMatchFound DEF InOldChunks
  <1>2. j \in Indices(old) /\ chunks(old)[j].id = c.id
    BY DEF OldMatches
  <1>3. /\ chunks(old)[j].off # None /\ chunks(old)[j].off \in 1 .. size(old)
        /\ chunks(old)[j].sum = chunks(old)[j].id
    BY <1>2, CompleteChunk DEF SteamEntries
  <1>4. c.off # None /\ c.sum = c.id /\ c.sum # None
    BY CompleteChunk, SentinelAssumption DEF SteamEntries
  <1>5. size(old) \in Nat
    BY CompleteChunk DEF SteamEntries
  <1>6. CanCopy(c)
    BY <1>1, <1>3, <1>4, <1>5 DEF CanCopy, Copyable, CopySource, Readable, WholeVersion
  <1>7. final[CopySource(c)] = c.sum
    BY <1>1, <1>2, <1>3, <1>4 DEF CopySource, WholeVersion
  <1>8. QED
    BY <1>6, <1>7

\* A write of one chunk's bytes to its slot brings it and keeps the others.
LEMMA ChunkWritten ==
    ASSUME SteamEntries, NEW v \in Versions, NEW f \in File, Len(f) = size(v),
           NEW i \in Indices(v), NEW g,
           g = WriteAt(f, chunks(v)[i].off, chunks(v)[i].sum)
    PROVE  /\ Len(g) = size(v)
           /\ ChunkIntact(g, chunks(v)[i])
           /\ \A j \in Indices(v) : ChunkIntact(f, chunks(v)[j]) => ChunkIntact(g, chunks(v)[j])
  <1>1. /\ chunks(v)[i] \in Chunk
        /\ chunks(v)[i].off # None /\ chunks(v)[i].off \in Nat \ {0}
        /\ chunks(v)[i].off \in 1 .. Len(f)
        /\ chunks(v)[i].sum \in Content /\ chunks(v)[i].sum # None
    BY CompleteChunk, SentinelAssumption DEF SteamEntries, Content
  <1>2. Len(g) = size(v)
    BY <1>1, WriteInside
  <1>3. ChunkIntact(g, chunks(v)[i])
    BY <1>1, WriteBrings
  <1>4. ASSUME NEW j \in Indices(v), ChunkIntact(f, chunks(v)[j])
        PROVE  ChunkIntact(g, chunks(v)[j])
    <2>1. CASE j = i
      BY <1>3, <2>1
    <2>2. CASE j # i
      <3>1. chunks(v)[j] \in Chunk /\ chunks(v)[j].off # chunks(v)[i].off
        BY <2>2, CompleteChunk DEF SteamEntries
      <3>2. QED
        BY <1>1, <1>4, <3>1, WriteKeeps
    <2>3. QED
      BY <2>1, <2>2
  <1>5. QED
    BY <1>2, <1>3, <1>4

\* A step that leaves the file at the path alone leaves it as short as it was.
LEMMA ShortKept ==
    ASSUME LastWriteOnly, UNCHANGED <<final, good>>
    PROVE  LastWriteOnly'
  BY DEF LastWriteOnly, OneSlotShort, ChunkIntact, Readable

\* When the process ends, the file at the path may lose its last write.
LEMMA ShortAfterEnd ==
    ASSUME SteamEntries, AtomicInv, CutShort, UNCHANGED good
    PROVE  LastWriteOnly'
  <1>1. CASE UNCHANGED final
    BY <1>1, ShortKept DEF AtomicInv, FinalInv
  <1>2. CASE ~good
    BY <1>2 DEF LastWriteOnly
  <1>3. CASE good /\ tail.st = "busy" /\ tail.at = "final" /\ Put(Junk)
    <2>1. /\ pc \in {"ok", "recorded"} /\ target \in Versions /\ final \in File /\ final # None
      BY <1>3 DEF AtomicInv, TypeInv, TypeOK, TailInv, Phases, Idle
    <2>2. /\ tail.slot \in 1 .. Len(final) /\ tail.data \in Content /\ Junk \in Content
          /\ WholeVersion(WriteAt(final, tail.slot, tail.data), target)
      BY <1>3, <2>1 DEF AtomicInv, LengthInv, FinalInv, Settling, Content
    <2>3. OneSlotShort(WriteAt(final, tail.slot, Junk), target)
      BY <2>1, <2>2, ShortOfWrite DEF SteamEntries
    <2>4. final' = WriteAt(final, tail.slot, Junk)
      BY <1>3 DEF Put
    <2>5. OneSlotShort(final', target)
      BY <2>3, <2>4
    <2>6. QED
      BY <2>1, <2>5 DEF LastWriteOnly, OneSlotShort, ChunkIntact, Readable
  <1>4. CASE tail.at = "staging" /\ Put(Junk)
    BY <1>1, <1>4 DEF Put
  <1>5. QED
    BY <1>1, <1>2, <1>3, <1>4 DEF CutShort, Put

\* Whether the last write ends well or not, the bytes of the installed file are
\* the same, that write counted.
LEMMA LastWriteCounted ==
    ASSUME AtomicInv, WriteLands \/ WriteFails, pc \in {"ok", "recorded"}
    PROVE  /\ \/ final' = WriteAt(final, tail.slot, tail.data)
              \/ final' = final
              \/ final' = WriteAt(final, tail.slot, Junk)
           /\ final' # None /\ Len(final') = Len(final)
           /\ Settling(final, "final") = WriteAt(final, tail.slot, tail.data)
           /\ Settling(final, "final")' = Settling(final, "final")
  <1> USE DEF AtomicInv
  <1>1. tail \in TailStates /\ tail.st = "busy"
    BY DEF WriteLands, WriteFails, TypeInv, TypeOK
  <1>2. /\ tail'.st = "error" => tail'.slot = tail.slot /\ tail'.data = tail.data /\ tail'.at = tail.at
        /\ tail'.st \in {"idle", "error"} /\ (tail'.st = "idle" => Put(tail.data))
        /\ (tail'.st = "error" => CutShort)
    BY <1>1 DEF WriteLands, WriteFails, Idle, TailStates
  <1>3. /\ tail.at = "final" /\ final \in File /\ final # None /\ target \in Versions
        /\ tail.slot \in 1 .. Len(final) /\ tail.data \in Content /\ Junk \in Content
        /\ Len(final) = size(target)
    BY <1>1 DEF TypeInv, TypeOK, TailInv, LengthInv, Content
  <1>4. \/ tail'.st = "idle" /\ final' = WriteAt(final, tail.slot, tail.data)
        \/ tail'.st = "error" /\ final' = final
        \/ tail'.st = "error" /\ final' = WriteAt(final, tail.slot, Junk)
    BY <1>2, <1>3 DEF CutShort, Put
  <1>5. Settling(final, "final") = WriteAt(final, tail.slot, tail.data)
    BY <1>1, <1>3 DEF Settling
  <1>6. final' \in File /\ final' # None /\ Len(final') = Len(final)
    <2>1. /\ WriteAt(final, tail.slot, tail.data) \in File
          /\ Len(WriteAt(final, tail.slot, tail.data)) = Len(final)
          /\ WriteAt(final, tail.slot, Junk) \in File
          /\ Len(WriteAt(final, tail.slot, Junk)) = Len(final)
      BY <1>3, WriteInside
    <2>2. None \notin File
      BY SentinelAssumption DEF File
    <2>3. QED
      BY <1>3, <1>4, <2>1, <2>2
  <1>7. CASE tail'.st = "idle"
    BY <1>4, <1>5, <1>6, <1>7 DEF Settling
  <1>8. CASE tail'.st = "error"
    <2>1. Settling(final, "final")' = WriteAt(final', tail.slot, tail.data)
      BY <1>2, <1>3, <1>6, <1>8 DEF Settling, WriteAt
    <2>2. WriteAt(WriteAt(final, tail.slot, Junk), tail.slot, tail.data)
            = WriteAt(final, tail.slot, tail.data)
      BY <1>3, WriteTwice
    <2>3. QED
      BY <1>4, <1>5, <1>6, <1>8, <2>1, <2>2
  <1>9. QED
    BY <1>2, <1>7, <1>8

\* Every step keeps the length of the file, the chunks that a sound run has put
\* into it, and a good file at the path up to its last write.
LEMMA AtomicInvNext ==
    ASSUME SteamEntries, AtomicInv, [Next]_vars
    PROVE  AtomicInv'
  <1> DEFINE D(i) == chunks(target)[i]
             S == Settling(staging, "staging")
  <1> USE DEF AtomicInv, disk, run
  <1>0. TypeInv /\ TypeInv'
    BY TypeInvNext
  <1>a. target \in Versions => Complete(target) /\ size(target) \in Nat
    BY CompleteChunk DEF SteamEntries
  <1>b. pc # "idle" => target \in Versions
    BY <1>0 DEF TypeInv, TypeOK
  <1>d. tail \in TailStates
    BY <1>0 DEF TypeInv, TypeOK
  <1>e. LastWriteOnly
    BY DEF FinalInv
  <1>f. ASSUME UNCHANGED <<final, good>>, pc' \notin {"ok", "recorded"}
        PROVE  FinalInv'
    BY <1>e, <1>f, ShortKept DEF FinalInv
  <1>1. ASSUME NEW v \in Versions, Begin(v)
        PROVE  AtomicInv'
    <2>1. /\ pc = "idle" /\ pc' = "check_final" /\ UNCHANGED <<disk, good, valid, k>>
      BY <1>1 DEF Begin
    <2>2. QED
      BY <1>0, <1>f, <2>1 DEF LengthInv, StageInv
  <1>2. CASE CheckFinal
    <2>1. /\ pc = "check_final" /\ UNCHANGED <<disk, target, old, valid, k>>
          /\ tail = Idle /\ target \in Versions
      BY <1>0, <1>2, <1>b DEF CheckFinal, TypeInv, TailInv
    <2>2. CASE ~file_has_valid_chunks(final, target)
      <3>1. pc' = "check_staging"
        BY <1>2, <2>2 DEF CheckFinal
      <3>2. UNCHANGED good
        BY <1>2, <2>2 DEF CheckFinal
      <3>3. QED
        BY <1>0, <1>f, <2>1, <3>1, <3>2 DEF LengthInv, StageInv
    <2>3. CASE file_has_valid_chunks(final, target)
      <3>1. pc' = "ok"
        BY <1>2, <2>3 DEF CheckFinal
      <3>2. final # None /\ WholeVersion(final, target) /\ Len(final) = size(target)
        BY <1>a, <2>1, <2>3, WholeIsIntact
           DEF file_has_valid_chunks, file_has_correct_size, verify_chunks
      <3>3. OneSlotShort(final, target)
        BY <1>a, <2>1, <3>2, WholeIsShort
      <3>4. LastWriteOnly'
        BY <2>1, <3>3 DEF LastWriteOnly, OneSlotShort, ChunkIntact, Readable
      <3>5. FinalInv'
        BY <2>1, <3>2, <3>4 DEF FinalInv, Settling, WholeVersion, Idle
      <3>6. QED
        BY <1>0, <2>1, <3>1, <3>2, <3>5 DEF LengthInv, StageInv, Idle
    <2>4. QED
      BY <2>2, <2>3
  <1>3. CASE CheckStaging
    <2>1. /\ pc = "check_staging" /\ UNCHANGED <<tail, target, old, k>>
          /\ tail = Idle /\ target \in Versions /\ k = 1 /\ valid = {}
      BY <1>0, <1>3, <1>b DEF CheckStaging, TypeInv, TailInv, StageInv
    <2>2. CASE pc' = "create"
      <3>1. UNCHANGED <<final, good, valid>>
        BY <1>3, <2>2 DEF CheckStaging
      <3>2. QED
        BY <1>0, <1>f, <2>1, <2>2, <3>1 DEF LengthInv, StageInv
    <2>3. CASE pc' = "ok"
      <3>1. final' = staging /\ staging # None /\ WholeVersion(staging, target)
            /\ Len(staging) = size(target)
        BY <1>3, <1>a, <2>1, <2>3, AllIntact, WholeIsIntact DEF CheckStaging, file_has_correct_size
      <3>2. OneSlotShort(staging, target)
        BY <1>a, <2>1, <3>1, WholeIsShort
      <3>3. LastWriteOnly'
        BY <2>1, <3>1, <3>2 DEF LastWriteOnly, OneSlotShort, ChunkIntact, Readable
      <3>4. FinalInv'
        BY <2>1, <3>1, <3>3 DEF FinalInv, Settling, WholeVersion, Idle
      <3>5. QED
        BY <1>0, <2>1, <2>3, <3>1, <3>4 DEF LengthInv, StageInv, Idle
    <2>4. CASE pc' = "copy"
      <3>1. valid' = IntactIds /\ UNCHANGED <<final, staging, good>> /\ Len(staging) = size(target)
        BY <1>3, <2>4 DEF CheckStaging, file_has_correct_size
      <3>2. ASSUME NEW i \in Indices(target), D(i).id \in IntactIds
            PROVE  ChunkIntact(staging, D(i))
        <4>1. PICK j \in Indices(target) \ verify_chunks(staging, target) : D(i).id = D(j).id
          BY <3>2 DEF IntactIds
        <4>2. D(i).id # None
          BY <1>a, <2>1, CompleteChunk, SentinelAssumption
        <4>3. i = j
          BY <2>1, <4>1, <4>2 DEF SteamEntries, DistinctIds
        <4>4. QED
          BY <4>1, <4>3 DEF verify_chunks
      <3>3. Settling(staging, "staging")' = staging
        BY <2>1, <3>1 DEF Settling, Idle
      <3>4. StageInv'
        <4>1. \A i \in Indices(target) : D(i).id \in valid' => ChunkIntact(staging, D(i))
          BY <3>1, <3>2
        <4>2. \A i \in Indices(target) : ~(i < k')
          BY <2>1 DEF Indices
        <4>3. \A i \in Indices(target)' :
                 D(i)'.id \in valid' \/ (i < k' /\ Reusable(D(i))') => Staged(i)'
          BY <2>1, <3>3, <4>1, <4>2 DEF Staged, ChunkIntact, Readable
        <4>4. QED
          BY <2>1, <2>4, <4>3 DEF StageInv
      <3>5. LengthInv'
        BY <2>1, <2>4, <3>1 DEF LengthInv, Idle
      <3>6. QED
        BY <1>0, <1>f, <2>4, <3>1, <3>4, <3>5
    <2>5. QED
      BY <1>3, <2>2, <2>3, <2>4 DEF CheckStaging
  <1>4. CASE CreateStaging
    <2>1. /\ pc = "create" /\ pc' = "set_len" /\ UNCHANGED <<final, good, valid, k>>
      BY <1>0, <1>4, <1>a, <1>b DEF CreateStaging, Complete
    <2>2. QED
      BY <1>0, <1>f, <2>1 DEF LengthInv, StageInv
  <1>5. CASE SetLen
    <2>1. /\ pc = "set_len" /\ pc' = "copy" /\ UNCHANGED <<final, good, tail, target, old, valid, k>>
          /\ tail = Idle /\ target \in Versions /\ k = 1 /\ valid = {}
          /\ staging' = [s \in 1 .. size(target) |-> Zero]
      BY <1>0, <1>5, <1>b DEF SetLen, TypeInv, TailInv, StageInv
    <2>2. Len(staging') = size(target)
      BY <1>a, <2>1, ZeroFileLength
    <2>3. \A i \in Indices(target) : ~(i < k')
      BY <2>1 DEF Indices
    <2>4. StageInv'
      BY <2>1, <2>3 DEF StageInv
    <2>5. LengthInv'
      BY <2>1, <2>2 DEF LengthInv, Idle
    <2>6. QED
      BY <1>0, <1>f, <2>1, <2>4, <2>5
  <1>6. CASE CopyChunk
    <2>1. /\ pc = "copy" /\ UNCHANGED <<final, staging, good, target, old, valid, task>>
          /\ k \in Indices(target) /\ k \in Nat /\ k >= 1 /\ old # None /\ final # None
          /\ target \in Versions /\ old \in Versions
      BY <1>0, <1>6, <1>b DEF CopyChunk, DeltaPossible, StageInv, TypeInv, TypeOK
    <2>2. tail.at = "staging" /\ staging \in File /\ staging # None /\ Len(staging) = size(target)
      BY <1>0, <2>1 DEF TypeInv, TypeOK, TailInv, LengthInv
    <2>3. Sound => (InOldChunks(D(k)) =>
                        CanCopy(D(k)) /\ final[CopySource(D(k))] = D(k).sum)
      BY <2>1, SoundIsWhole, CopyIsRight
    <2>4. CanCopy(D(k)) => InOldChunks(D(k))
      BY DEF CanCopy, Copyable
    <2>5. Sound' <=> Sound
      BY <2>1, SoundKept
    <2>6. pc' \in {"copy", "failed"} => FinalInv'
      BY <1>f, <2>1
    <2>7. CASE pc' = "failed"
      BY <1>0, <2>6, <2>7 DEF LengthInv, StageInv
    <2>8. CASE pc' = "copy" /\ k' = k + 1 /\ ~CanCopy(D(k)) /\ tail' = tail
      <3>1. Settling(staging, "staging")' = S
        BY <2>1, <2>8 DEF Settling
      <3>2. Sound => ~Reusable(D(k))
        BY <2>3, <2>8 DEF Reusable
      <3>3. \A i \in Indices(target) : i < k' /\ i # k => i < k
        BY <2>1, <2>8 DEF Indices
      <3>4. Sound => \A i \in Indices(target) :
               D(i).id \in valid \/ (i < k' /\ Reusable(D(i))) => ChunkIntact(S, D(i))
        BY <2>1, <3>2, <3>3 DEF StageInv, Staged
      <3>5. StageInv'
        BY <2>1, <2>5, <2>8, <3>1, <3>4
           DEF StageInv, Staged, Reusable, InOldChunks, OldMatches, ChunkIntact, Readable
      <3>6. LengthInv'
        BY <2>1, <2>8 DEF LengthInv
      <3>7. QED
        BY <1>0, <2>6, <2>8, <3>5, <3>6
    <2>9. CASE pc' = "copy" /\ k' = k + 1 /\ CanCopy(D(k)) /\ tail.st = "idle"
               /\ Buffer(D(k).off, final[CopySource(D(k))])
      <3>1. S = staging
        BY <2>9 DEF Settling
      <3>2. Settling(staging, "staging")' = WriteAt(staging, D(k).off, final[CopySource(D(k))])
        BY <2>1, <2>2, <2>9 DEF Settling, Buffer, WriteAt
      <3>3. D(k).off \in 1 .. size(target)
        BY <1>a, <2>1, CompleteChunk
      <3>4. tail'.data \in Content
        BY <1>0, <2>9 DEF TypeInv, TypeOK, TailStates, Buffer
      <3>5. LengthInv'
        BY <2>1, <2>2, <2>9, <3>3, <3>4 DEF LengthInv, Buffer
      <3> DEFINE g == WriteAt(staging, D(k).off, D(k).sum)
      <3>6. /\ ChunkIntact(g, D(k))
            /\ \A j \in Indices(target) : ChunkIntact(staging, D(j)) => ChunkIntact(g, D(j))
        BY <2>1, <2>2, <3>1, ChunkWritten
      <3>7. Sound => Settling(staging, "staging")' = g
        BY <2>3, <2>4, <2>9, <3>2
      <3> HIDE DEF g
      <3>8. \A i \in Indices(target) : i < k' /\ i # k => i < k
        BY <2>1, <2>9 DEF Indices
      <3>9. Sound => \A i \in Indices(target) :
               D(i).id \in valid \/ (i < k' /\ Reusable(D(i))) => ChunkIntact(g, D(i))
        BY <2>1, <3>1, <3>6, <3>8 DEF StageInv, Staged
      <3>10. StageInv'
        BY <2>1, <2>5, <2>9, <3>7, <3>9
           DEF StageInv, Staged, Reusable, InOldChunks, OldMatches, ChunkIntact, Readable
      <3>11. QED
        BY <1>0, <2>6, <2>9, <3>5, <3>10
    <2>10. QED
      BY <1>6, <2>7, <2>8, <2>9 DEF CopyChunk
  <1>7. CASE SpawnTasks
    <2>1. /\ pc = "copy" /\ pc' = "await" /\ UNCHANGED <<disk, good, target, old, valid, k>>
          /\ task' = [i \in Indices(target) |-> Disposition(D(i))]
          /\ target \in Versions /\ ~(DeltaPossible /\ k \in Indices(target))
      BY <1>7, <1>b DEF SpawnTasks
    <2>2. k \in Nat /\ k >= 1 /\ Len(chunks(target)) \in Nat
      BY <1>0, <2>1, ChunkType DEF StageInv, TypeInv, TypeOK
    <2>3. ASSUME Sound, NEW i \in Indices(target), Settled(task'[i])
          PROVE  ChunkIntact(S, D(i))
      <3>1. D(i).id # None
        BY <1>a, <2>1, CompleteChunk, SentinelAssumption
      <3>2. \/ D(i).id \in valid
            \/ DeltaPossible /\ InOldChunks(D(i))
        BY <2>1, <2>3, <3>1 DEF Disposition, Settled, Skipped
      <3>3. DeltaPossible => i < k
        BY <2>1, <2>2 DEF Indices
      <3>4. QED
        BY <2>1, <2>3, <3>2, <3>3 DEF StageInv, Staged, Reusable, DeltaPossible
    <2>4. task' \in [Indices(target) -> TaskStates]
      BY <2>1 DEF Disposition, TaskStates, Skipped
    <2>5. Sound' <=> Sound
      BY <2>1, SoundKept
    <2>6. StageInv'
      BY <2>1, <2>3, <2>4, <2>5 DEF StageInv, Staged, Settling, ChunkIntact, Readable
    <2>7. QED
      BY <1>0, <1>f, <2>1, <2>6 DEF LengthInv
  <1>8. CASE AwaitFails \/ IoError
    <2>1. pc' = "failed" /\ UNCHANGED <<final, good>>
      BY <1>8 DEF AwaitFails, IoError
    <2>2. QED
      BY <1>0, <1>f, <2>1 DEF LengthInv, StageInv
  <1>9. CASE AwaitAll
    <2>1. /\ pc = "await" /\ pc' = "rename" /\ UNCHANGED <<disk, good, target, old, task>>
      BY <1>9 DEF AwaitAll
    <2>2. Sound' <=> Sound
      BY <2>1, SoundKept
    <2>3. StageInv' /\ LengthInv'
      BY <2>1, <2>2
         DEF StageInv, LengthInv, SomeTaskFailed, Staged, Settling, ChunkIntact, Readable
    <2>4. QED
      BY <1>0, <1>f, <2>1, <2>3
  <1>10. CASE Rename
    <2>1. /\ pc = "rename" /\ pc' = "ok" /\ UNCHANGED <<target, old>>
          /\ final' = staging /\ staging \in File /\ staging # None /\ target \in Versions
          /\ tail'.st = tail.st /\ tail'.slot = tail.slot /\ tail'.data = tail.data
          /\ tail'.at = "final" /\ tail.at = "staging"
          /\ Len(staging) = size(target)
      BY <1>0, <1>10, <1>b, <1>d, SentinelAssumption
         DEF Rename, TypeInv, TypeOK, TailInv, TailStates, LengthInv
    <2>2. good' <=> Sound
      BY <1>10 DEF Rename
    <2>3. Settling(final, "final")' = S
      BY <2>1 DEF Settling, WriteAt
    <2>4. ASSUME Sound
          PROVE  WholeVersion(S, target)
      <3>1. DOMAIN task = Indices(target) /\ \A i \in DOMAIN task : Settled(task[i])
        BY <1>0, <2>1 DEF TypeInv, SettledInv, StageInv
      <3>2. ~SomeTaskFailed
        BY <3>1 DEF SomeTaskFailed, Settled, Skipped
      <3>3. \A i \in Indices(target) : ChunkIntact(S, D(i))
        BY <2>1, <2>4, <3>1, <3>2 DEF StageInv, Staged
      <3>4. Len(S) = size(target)
        <4>1. CASE tail.st = "idle"
          BY <2>1, <4>1 DEF Settling
        <4>2. CASE tail.st # "idle"
          <5>1. tail.slot \in 1 .. Len(staging) /\ tail.data \in Content
            BY <2>1, <4>2 DEF LengthInv
          <5>2. S = WriteAt(staging, tail.slot, tail.data)
            BY <2>1, <4>2 DEF Settling
          <5>3. QED
            BY <2>1, <5>1, <5>2, WriteInside
        <4>3. QED
          BY <4>1, <4>2
      <3>5. QED
        BY <1>a, <2>1, <3>3, <3>4, WholeIsIntact
    <2>5. ASSUME Sound
          PROVE  OneSlotShort(staging, target)
      <3>1. CASE tail.st = "idle"
        BY <1>a, <2>1, <2>4, <2>5, <3>1, WholeIsShort DEF Settling
      <3>2. CASE tail.st # "idle"
        <4>1. tail.slot \in 1 .. Len(staging) /\ tail.data \in Content
          BY <2>1, <3>2 DEF LengthInv
        <4>2. WholeVersion(WriteAt(staging, tail.slot, tail.data), target)
          BY <2>1, <2>4, <2>5, <3>2 DEF Settling
        <4>3. QED
          BY <1>a, <2>1, <4>1, <4>2, ShortOfWrite
      <3>3. QED
        BY <3>1, <3>2
    <2>6. LastWriteOnly'
      BY <2>1, <2>2, <2>5 DEF LastWriteOnly, OneSlotShort, ChunkIntact, Readable
    <2>7. FinalInv'
      BY <2>1, <2>2, <2>3, <2>4, <2>6 DEF FinalInv, WholeVersion
    <2>8. QED
      BY <1>0, <2>1, <2>7 DEF LengthInv, StageInv
  <1>11. CASE Record
    <2>1. /\ pc = "ok" /\ pc' = "recorded" /\ UNCHANGED <<disk, good, target>>
      BY <1>11 DEF Record
    <2>2. FinalInv'
      BY <1>e, <2>1, ShortKept DEF FinalInv, Settling, WholeVersion
    <2>3. QED
      BY <1>0, <2>1, <2>2 DEF LengthInv, StageInv
  <1>12. CASE Exit \/ ExitFailed \/ Crash \/ JobFails
    <2>1. /\ pc' = "idle" /\ CutShort /\ valid' = {} /\ k' = 1 /\ UNCHANGED good
      BY <1>12 DEF Exit, ExitFailed, Crash, JobFails, ProcessGone
    <2>2. FinalInv'
      BY <2>1, ShortAfterEnd DEF FinalInv
    <2>3. QED
      BY <1>0, <2>1, <2>2 DEF LengthInv, StageInv
  <1>14. ASSUME NEW i \in DOMAIN task, ChunkStep(i)
         PROVE  AtomicInv'
    <2>1. /\ UNCHANGED <<final, staging, good, pc, target, old, valid, k>>
          /\ task[i] \in {"queued", "fetch", "write"}
      BY <1>14 DEF ChunkStep, AcquirePermit, FetchFails, FetchAnswers, WriteChunk
    <2>2. /\ pc \in {"await", "failed"} /\ target \in Versions
          /\ task \in [Indices(target) -> TaskStates]
          /\ i \in Indices(target) /\ staging \in File /\ staging # None
      BY <1>0, <1>14, <1>b, <2>1, SentinelAssumption, SMTT(30)
         DEF TypeInv, TypeOK, TailInv, SettledInv, Settled, Skipped, File
    <2>3. /\ task' \in [Indices(target) -> TaskStates]
          /\ \A j \in Indices(target) : j # i => task'[j] = task[j]
      BY <1>14, <2>2 DEF ChunkStep, AcquirePermit, FetchFails, FetchAnswers, WriteChunk, SetTask,
         TaskStates
    <2>4. D(i).off # None /\ D(i).off \in 1 .. size(target) /\ D(i).sum \in Content
      BY <1>a, <2>2, CompleteChunk DEF Content
    <2>5. \/ tail' = tail /\ ~Settled(task'[i])
          \/ tail.st = "idle" /\ Buffer(D(i).off, D(i).sum)
          \/ tail' = Idle /\ task'[i] = "failed"
      BY <1>14, <2>1, <2>2, <2>4
         DEF ChunkStep, AcquirePermit, FetchFails, FetchAnswers, WriteChunk, SetTask, Settled,
             Skipped
    <2>6. FinalInv' /\ (Sound' <=> Sound)
      BY <1>f, <2>1, <2>2, SoundKept
    <2>7. CASE pc = "failed"
      BY <1>0, <2>1, <2>6, <2>7 DEF LengthInv, StageInv
    <2>8. SomeTaskFailed => SomeTaskFailed'
      BY <2>1, <2>2, <2>3 DEF SomeTaskFailed
    <2>9. CASE pc = "await" /\ tail' = tail /\ ~Settled(task'[i])
      <3>1. Settling(staging, "staging")' = S
        BY <2>1, <2>9 DEF Settling
      <3>2. Sound /\ ~SomeTaskFailed' =>
                \A j \in Indices(target) : Settled(task'[j]) => ChunkIntact(S, D(j))
        BY <2>3, <2>8, <2>9 DEF StageInv, Staged
      <3>3. StageInv'
        BY <2>1, <2>3, <2>6, <2>9, <3>1, <3>2 DEF StageInv, Staged, ChunkIntact, Readable
      <3>4. LengthInv'
        BY <2>1, <2>9 DEF LengthInv
      <3>5. QED
        BY <1>0, <2>6, <3>3, <3>4
    <2>10. CASE pc = "await" /\ tail.st = "idle" /\ Buffer(D(i).off, D(i).sum)
      <3> DEFINE g == WriteAt(staging, D(i).off, D(i).sum)
      <3>1. S = staging /\ Len(staging) = size(target)
        BY <2>10 DEF Settling, LengthInv
      <3>2. Settling(staging, "staging")' = g
        BY <2>1, <2>2, <2>10 DEF Settling, Buffer, WriteAt
      <3>3. /\ ChunkIntact(g, D(i))
            /\ \A j \in Indices(target) : ChunkIntact(staging, D(j)) => ChunkIntact(g, D(j))
        BY <2>2, <3>1, ChunkWritten
      <3> HIDE DEF g
      <3>4. Sound /\ ~SomeTaskFailed' =>
               \A j \in Indices(target) : Settled(task'[j]) => ChunkIntact(g, D(j))
        <4> SUFFICES ASSUME Sound, ~SomeTaskFailed', NEW j \in Indices(target), Settled(task'[j])
                     PROVE  ChunkIntact(g, D(j))
          OBVIOUS
        <4>1. CASE j = i
          BY <3>3, <4>1
        <4>2. CASE j # i
          BY <2>3, <2>8, <2>10, <3>1, <3>3, <4>2 DEF StageInv, Staged
        <4>3. QED
          BY <4>1, <4>2
      <3>5. StageInv'
        BY <2>1, <2>3, <2>6, <2>10, <3>2, <3>4 DEF StageInv, Staged, ChunkIntact, Readable
      <3>6. LengthInv'
        BY <2>1, <2>4, <2>10 DEF LengthInv, Buffer
      <3>7. QED
        BY <1>0, <2>6, <3>5, <3>6
    <2>11. CASE pc = "await" /\ tail' = Idle /\ task'[i] = "failed"
      <3>1. SomeTaskFailed'
        BY <2>2, <2>3, <2>11 DEF SomeTaskFailed
      <3>2. StageInv' /\ LengthInv'
        BY <2>1, <2>3, <2>11, <3>1 DEF StageInv, LengthInv, Idle
      <3>3. QED
        BY <1>0, <2>6, <3>2
    <2>12. QED
      BY <2>2, <2>5, <2>7, <2>9, <2>10, <2>11
  <1>15. CASE WriteLands \/ WriteFails
    <2>1. /\ tail.st = "busy" /\ UNCHANGED <<good, pc, target, old, valid, k, task>>
          /\ \/ tail' = Idle /\ Put(tail.data)
             \/ tail' = [tail EXCEPT !.st = "error"] /\ CutShort
      BY <1>15 DEF WriteLands, WriteFails
    <2>2. /\ tail'.st = "error" => tail'.slot = tail.slot /\ tail'.data = tail.data /\ tail'.at = tail.at
          /\ tail'.st \in {"idle", "error"} /\ (tail'.st = "idle" => Put(tail.data))
          /\ (tail'.st = "error" => CutShort)
      BY <1>d, <2>1 DEF Idle, TailStates
    <2>3. CASE pc \notin {"copy", "await", "rename", "ok", "recorded"}
      <3>1. UNCHANGED final
        <4>1. pc = "failed" /\ tail.at = "staging"
          BY <1>0, <2>1, <2>3 DEF TypeInv, TypeOK, TailInv, Phases, Idle
        <4>2. QED
          BY <2>1, <4>1 DEF CutShort, Put
      <3>2. QED
        BY <1>0, <1>f, <2>1, <2>3, <3>1 DEF LengthInv, StageInv
    <2>4. CASE pc \in {"copy", "await", "rename"}
      <3>1. /\ tail.at = "staging" /\ staging \in File /\ staging # None
            /\ tail.slot \in 1 .. Len(staging) /\ tail.data \in Content /\ Junk \in Content
            /\ Len(staging) = size(target)
        BY <1>0, <2>1, <2>4 DEF TypeInv, TypeOK, TailInv, LengthInv, Content
      <3>2. /\ UNCHANGED final
            /\ \/ tail'.st = "idle" /\ staging' = WriteAt(staging, tail.slot, tail.data)
               \/ tail'.st = "error" /\ staging' = staging
               \/ tail'.st = "error" /\ staging' = WriteAt(staging, tail.slot, Junk)
        BY <2>2, <3>1 DEF CutShort, Put
      <3>3. S = WriteAt(staging, tail.slot, tail.data)
        BY <2>1, <3>1 DEF Settling
      <3>4. staging' \in File /\ staging' # None /\ Len(staging') = Len(staging)
        <4>1. /\ WriteAt(staging, tail.slot, tail.data) \in File
              /\ Len(WriteAt(staging, tail.slot, tail.data)) = Len(staging)
              /\ WriteAt(staging, tail.slot, Junk) \in File
              /\ Len(WriteAt(staging, tail.slot, Junk)) = Len(staging)
          BY <3>1, WriteInside
        <4>2. None \notin File
          BY SentinelAssumption DEF File
        <4>3. QED
          BY <3>1, <3>2, <4>1, <4>2
      <3>5. Settling(staging, "staging")' = S
        <4>1. CASE tail'.st = "idle"
          BY <3>2, <3>3, <4>1 DEF Settling
        <4>2. CASE tail'.st = "error"
          <5>1. Settling(staging, "staging")' = WriteAt(staging', tail.slot, tail.data)
            BY <2>2, <3>1, <3>4, <4>2 DEF Settling, WriteAt
          <5>2. WriteAt(WriteAt(staging, tail.slot, Junk), tail.slot, tail.data) = S
            BY <3>1, <3>3, WriteTwice
          <5>3. QED
            BY <3>2, <3>3, <4>2, <5>1, <5>2
        <4>3. QED
          BY <2>2, <4>1, <4>2
      <3>6. Sound' <=> Sound
        BY <2>1, <3>2, SoundKept
      <3>7. StageInv'
        BY <2>1, <2>4, <3>5, <3>6
           DEF StageInv, Staged, SomeTaskFailed, Reusable, InOldChunks, OldMatches, ChunkIntact,
               Readable
      <3>8. LengthInv'
        BY <2>1, <2>2, <2>4, <3>1, <3>4 DEF LengthInv
      <3>9. QED
        BY <1>0, <1>f, <2>1, <2>4, <3>2, <3>7, <3>8
    <2>5. CASE pc \in {"ok", "recorded"}
      <3>1. /\ tail.at = "final" /\ final \in File /\ final # None /\ target \in Versions
            /\ tail.slot \in 1 .. Len(final) /\ tail.data \in Content /\ Junk \in Content
            /\ Len(final) = size(target)
        BY <1>0, <1>b, <2>1, <2>5 DEF TypeInv, TypeOK, TailInv, LengthInv, Content
      <3>2. /\ \/ final' = WriteAt(final, tail.slot, tail.data)
               \/ final' = final
               \/ final' = WriteAt(final, tail.slot, Junk)
            /\ final' # None /\ Len(final') = Len(final)
            /\ Settling(final, "final") = WriteAt(final, tail.slot, tail.data)
            /\ Settling(final, "final")' = Settling(final, "final")
        BY <1>15, <2>5, LastWriteCounted
      <3>6. ASSUME good
            PROVE  OneSlotShort(final', target)
        <4>1. WholeVersion(WriteAt(final, tail.slot, tail.data), target)
          BY <2>5, <3>2, <3>6 DEF FinalInv
        <4>2. /\ OneSlotShort(final, target)
              /\ OneSlotShort(WriteAt(final, tail.slot, Junk), target)
              /\ OneSlotShort(WriteAt(final, tail.slot, tail.data), target)
          BY <1>a, <3>1, <4>1, ShortOfWrite
        <4>3. QED
          BY <3>2, <4>2
      <3>7. LastWriteOnly'
        BY <2>1, <3>1, <3>6 DEF LastWriteOnly, OneSlotShort, ChunkIntact, Readable
      <3>8. FinalInv'
        BY <2>1, <3>2, <3>7 DEF FinalInv, WholeVersion
      <3>9. LengthInv' /\ StageInv'
        BY <2>1, <2>2, <2>5, <3>1, <3>2 DEF LengthInv, StageInv
      <3>10. QED
        BY <1>0, <3>8, <3>9
    <2>6. QED
      BY <2>3, <2>4, <2>5
  <1>16. CASE Damage
    <2>1. pc = "idle" /\ UNCHANGED <<pc, valid, k>> /\ ~good'
      BY <1>16 DEF Damage
    <2>2. FinalInv'
      BY <2>1 DEF FinalInv, LastWriteOnly
    <2>3. QED
      BY <1>0, <2>1, <2>2 DEF LengthInv, StageInv
  <1>17. CASE Finished \/ UNCHANGED vars
    <2>1. UNCHANGED vars
      BY <1>17 DEF Finished
    <2>2. FinalInv' /\ LengthInv' /\ (Sound' <=> Sound)
      BY <1>e, <2>1, ShortKept, SoundKept DEF vars, FinalInv, LengthInv, Settling, WholeVersion
    <2>3. StageInv'
      BY <2>1, <2>2
         DEF vars, StageInv, Staged, SomeTaskFailed, Settling, Reusable, InOldChunks, OldMatches,
             ChunkIntact, Readable
    <2>4. QED
      BY <1>0, <2>2, <2>3
  <1>18. QED
    BY <1>1, <1>2, <1>3, <1>4, <1>5, <1>6, <1>7, <1>8, <1>9, <1>10, <1>11, <1>12,
       <1>14, <1>15, <1>16, <1>17 DEF Next, FileStep

\* For entries as Steam serves them an interruption, of whatever kind and at
\* whatever moment, costs a good file at the path at most its last write.
THEOREM LosesLastWriteOnly ==
    ASSUME SteamEntries
    PROVE  Spec => []LastWriteOnly
  <1>1. AtomicInv /\ [Next]_vars => AtomicInv'
    BY AtomicInvNext
  <1>2. AtomicInv => LastWriteOnly
    BY DEF AtomicInv, FinalInv
  <1>3. QED
    BY <1>1, <1>2, AtomicInvInit, PTL DEF Spec

\* Every chunk that got no task because the previous version has it is in the
\* file that is about to be renamed, if the file the run found was that
\* version, whatever went wrong in this run or in earlier ones.
THEOREM CopiesAreReal ==
    ASSUME SteamEntries
    PROVE  Spec => []ReusedChunksCopied
  <1>1. AtomicInv /\ [Next]_vars => AtomicInv'
    BY AtomicInvNext
  <1>2. ASSUME AtomicInv
        PROVE  ReusedChunksCopied
    <2> SUFFICES ASSUME Sound, pc = "rename", NEW i \in DOMAIN task, task[i] = "reused"
                 PROVE  Staged(i)
      BY DEF ReusedChunksCopied, SkippedWereCopied, Staged
    <2>1. \A j \in DOMAIN task : Settled(task[j])
      BY <1>2 DEF AtomicInv, TypeInv, SettledInv
    <2>2. ~SomeTaskFailed /\ DOMAIN task = Indices(target)
      BY <1>2, <2>1 DEF AtomicInv, StageInv, SomeTaskFailed, Settled, Skipped
    <2>3. QED
      BY <1>2, <2>1, <2>2 DEF AtomicInv, StageInv
  <1>3. QED
    BY <1>1, <1>2, AtomicInvInit, PTL DEF Spec

-----------------------------------------------------------------------------
(* Refinement of AtomicFile.                                               *)

\* The bytes at the path tell which version is installed.
LEMMA InstalledIs ==
    ASSUME DistinctVersions, NEW w \in Versions, final # None,
           WholeVersion(Settling(final, "final"), w)
    PROVE  InstalledVersion = w
  <1> DEFINE f == Settling(final, "final")
  <1>1. ASSUME NEW v \in Versions, WholeVersion(f, v)
        PROVE  v = w
    <2>1. SameBytes(v, w)
      BY <1>1 DEF SameBytes, WholeVersion
    <2>2. QED
      BY <2>1 DEF DistinctVersions
  <1>2. VersionOf(f) = w
    BY <1>1 DEF VersionOf
  <1>3. FinalIsSomeVersion
    BY DEF FinalIsSomeVersion
  <1>4. QED
    BY <1>2, <1>3 DEF InstalledVersion

\* A file that is there is one of the versions or none of them.
LEMMA InstalledAnything ==
    ASSUME final # None
    PROVE  InstalledVersion \in Abstract!Anything
  <1>1. CASE FinalIsSomeVersion
    <2>1. VersionOf(Settling(final, "final")) \in Versions
      BY <1>1 DEF FinalIsSomeVersion, VersionOf
    <2>2. QED
      BY <1>1, <2>1 DEF InstalledVersion, Abstract!Anything
  <1>2. CASE ~FinalIsSomeVersion
    BY <1>2 DEF InstalledVersion, Abstract!Anything
  <1>3. QED
    BY <1>1, <1>2

\* After a good replacement the installed version is the wanted one.
GoodIsTarget ==
    pc \in {"ok", "recorded"} /\ good => InstalledVersion = target

\* A file at the path is one of the versions or none of them.
FileIsAnything == final # None => InstalledVersion \in Abstract!Anything

\* The file is what the abstract one says.
MappingInv == GoodIsTarget /\ FileIsAnything

\* The mapping of a state with the invariant.
LEMMA MappingHolds ==
    ASSUME SteamEntries, DistinctVersions, AtomicInv
    PROVE  MappingInv
  <1>1. ASSUME pc \in {"ok", "recorded"}, good
        PROVE  InstalledVersion = target
    <2>1. /\ target \in Versions /\ final # None
          /\ WholeVersion(Settling(final, "final"), target)
      BY <1>1 DEF AtomicInv, TypeInv, TypeOK, TailInv, FinalInv
    <2>2. QED
      BY <2>1, InstalledIs
  <1>2. GoodIsTarget
    BY <1>1 DEF GoodIsTarget
  <1>3. FileIsAnything
    BY InstalledAnything DEF FileIsAnything
  <1>4. QED
    BY <1>2, <1>3 DEF MappingInv

\* A run whose source is the installed version, or that has none, is sound.
LEMMA SourceIsSound ==
    ASSUME SteamEntries, AtomicInv, pc = "rename", Abstract!SourceIsInstalled
    PROVE  Sound
  <1>1. CASE old = None \/ final = None
    BY <1>1 DEF Sound, DeltaPossible
  <1>2. CASE old # None /\ final # None
    <2>1. old \in Versions /\ tail.at = "staging"
      BY <1>2 DEF AtomicInv, TypeInv, TypeOK, TailInv
    <2>2. InstalledVersion \in {None, old} /\ Settling(final, "final") = final
      BY <1>2, <2>1, SentinelAssumption DEF Abstract!SourceIsInstalled, Settling
    <2>3. FinalIsSomeVersion
      BY <1>2, <2>1, <2>2, SentinelAssumption DEF InstalledVersion
    <2>4. PICK v \in Versions : WholeVersion(Settling(final, "final"), v)
      BY <1>2, <2>3 DEF FinalIsSomeVersion
    <2>5. InstalledVersion \in Versions /\ WholeVersion(Settling(final, "final"), InstalledVersion)
      BY <1>2, <2>3, <2>4 DEF InstalledVersion, VersionOf
    <2>6. WholeVersion(final, old)
      BY <2>2, <2>5, SentinelAssumption
    <2>7. file_has_valid_chunks(final, old)
      BY <1>2, <2>1, <2>6, WholeIsIntact
         DEF SteamEntries, Complete, file_has_valid_chunks, file_has_correct_size, verify_chunks
    <2>8. QED
      BY <2>7 DEF Sound
  <1>3. QED
    BY <1>1, <1>2

\* The installed version stays while the bytes at the path, the last write
\* counted, do.
LEMMA InstalledKept ==
    ASSUME Settling(final, "final")' = Settling(final, "final"),
           final' = None <=> final = None
    PROVE  InstalledVersion' = InstalledVersion
  <1>1. FinalIsSomeVersion' <=> FinalIsSomeVersion
    BY DEF FinalIsSomeVersion, WholeVersion
  <1>2. VersionOf(Settling(final, "final"))' = VersionOf(Settling(final, "final"))
    BY DEF VersionOf, WholeVersion
  <1>3. QED
    BY <1>1, <1>2 DEF InstalledVersion

\* Nothing is installed or wanted before the first run.
LEMMA AbstractInit == Init => Abstract!Init
  BY DEF Init, Abstract!Init, InstalledVersion, Outcome

\* Every step, also one that fails or is interrupted, is a step of AtomicFile
\* or none.
LEMMA AbstractNext ==
    ASSUME SteamEntries, AtomicInv, MappingInv, MappingInv', AtomicInv', [Next]_vars
    PROVE  [Abstract!Next]_Abstract!vars
  <1> USE DEF disk, run
  <1>0. /\ pc \in Phases /\ (target = None <=> pc = "idle") /\ (pc \in {"ok", "recorded"} => final # None)
        /\ (pc \notin {"ok", "recorded"} => tail.at = "staging")
        /\ (pc' \notin {"ok", "recorded"} => tail'.at = "staging")
        /\ (final' = None => pc' \notin {"ok", "recorded"})
    BY DEF AtomicInv, TypeInv, TypeOK, TailInv, Phases, Idle
  <1>a. ASSUME UNCHANGED final, pc \notin {"ok", "recorded"}, pc' \notin {"ok", "recorded"}
        PROVE  InstalledVersion' = InstalledVersion
    <2>1. Settling(final, "final")' = Settling(final, "final")
      BY <1>0, <1>a DEF Settling
    <2>2. QED
      BY <1>a, <2>1, InstalledKept
  <1>b. ASSUME UNCHANGED <<final, target, old, recorded>>,
               pc \notin {"idle", "ok", "recorded", "failed"},
               pc' \in {"check_staging", "create", "set_len", "copy", "await", "rename"}
        PROVE  UNCHANGED Abstract!vars
    BY <1>0, <1>a, <1>b DEF Abstract!vars, Outcome, Phases
  <1>c. ASSUME UNCHANGED <<final, target, old, recorded>>,
               pc \notin {"idle", "ok", "recorded", "failed"}, pc' = "failed"
        PROVE  Abstract!Fail
    BY <1>0, <1>a, <1>c DEF Abstract!Fail, Outcome, Phases
  <1>d. ASSUME UNCHANGED <<target, old, recorded>>,
               pc \notin {"idle", "ok", "recorded", "failed"}, pc' = "ok",
               Abstract!SourceIsInstalled => good'
        PROVE  Abstract!Install
    <2>1. InstalledVersion' \in Abstract!Anything
      BY <1>0, <1>d DEF MappingInv, FileIsAnything, Abstract!Anything
    <2>2. Abstract!SourceIsInstalled => InstalledVersion' = target
      BY <1>d DEF MappingInv, GoodIsTarget
    <2>3. QED
      BY <1>0, <1>d, <2>1, <2>2 DEF Abstract!Install, Outcome, Phases
  <1>e. ASSUME UNCHANGED <<final, tail, target, old, recorded>>, pc' = pc
        PROVE  UNCHANGED Abstract!vars
    <2>1. InstalledVersion' = InstalledVersion
      BY <1>e, InstalledKept DEF Settling
    <2>2. QED
      BY <1>e, <2>1 DEF Abstract!vars, Outcome
  <1>f. ASSUME ProcessGone, pc # "idle",
               recorded' \in IF pc = "ok" THEN {recorded, None} ELSE {recorded}
        PROVE  Abstract!Interrupt
    <2>1. /\ pc' = "idle" /\ target' = None /\ old' = None /\ CutShort
      BY <1>f DEF ProcessGone
    <2>2. CASE pc \in {"ok", "recorded"}
      <3>1. final' # None
        BY <1>0, <2>1, <2>2, CutShortType DEF AtomicInv, TypeInv
      <3>2. InstalledVersion' \in Abstract!Anything
        BY <3>1 DEF MappingInv, FileIsAnything, Abstract!Anything
      <3>3. QED
        BY <1>f, <2>1, <2>2, <3>2 DEF Abstract!Interrupt, Abstract!RunOver, Outcome
    <2>3. CASE pc \notin {"ok", "recorded"}
      <3>1. UNCHANGED final
        BY <1>0, <2>1, <2>3 DEF CutShort, Put
      <3>2. InstalledVersion' = InstalledVersion
        BY <1>a, <2>1, <2>3, <3>1
      <3>3. QED
        BY <1>0, <1>f, <2>1, <2>3, <3>2
           DEF Abstract!Interrupt, Abstract!RunOver, Outcome, Phases
    <2>4. QED
      BY <2>2, <2>3
  <1> USE DEF Abstract!Next
  <1>1. ASSUME NEW v \in Versions, Begin(v)
        PROVE  Abstract!Start(v)
    <2>1. InstalledVersion' = InstalledVersion
      BY <1>1, <1>a DEF Begin
    <2>2. QED
      BY <1>1, <2>1 DEF Begin, PreviousManifest, Abstract!Start, Outcome
  <1>2. CASE CheckFinal
    <2>1. CASE file_has_valid_chunks(final, target)
      <3>1. pc' = "ok" /\ pc = "check_final" /\ UNCHANGED <<target, old, recorded>>
        BY <1>2, <2>1 DEF CheckFinal
      <3>2. good'
        BY <1>2, <2>1, Zenon DEF CheckFinal
      <3>3. QED
        BY <1>d, <3>1, <3>2
    <2>2. CASE ~file_has_valid_chunks(final, target)
      <3>1. pc' = "check_staging" /\ pc = "check_final" /\ UNCHANGED <<final, target, old, recorded>>
        BY <1>2, <2>2 DEF CheckFinal
      <3>2. QED
        BY <1>b, <3>1
    <2>3. QED
      BY <2>1, <2>2
  <1>3. CASE CheckStaging
    BY <1>3, <1>b, <1>d DEF CheckStaging
  <1>4. CASE CreateStaging \/ SetLen \/ SpawnTasks \/ AwaitAll
    BY <1>4, <1>b DEF CreateStaging, SetLen, SpawnTasks, AwaitAll
  <1>5. CASE CopyChunk
    BY <1>5, <1>b, <1>c DEF CopyChunk
  <1>6. CASE AwaitFails \/ IoError
    BY <1>6, <1>c DEF AwaitFails, IoError
  <1>7. CASE Rename
    <2>1. Abstract!SourceIsInstalled => good'
      BY <1>7, SourceIsSound DEF Rename
    <2>2. QED
      BY <1>7, <1>d, <2>1 DEF Rename
  <1>8. CASE Record
    <2>1. /\ recorded' \in {target, recorded, None} /\ pc = "ok" /\ pc' = "recorded"
          /\ UNCHANGED <<target, old, final, tail>>
      BY <1>8 DEF Record, AfterFailedSave
    <2>2. InstalledVersion' = InstalledVersion
      BY <2>1, InstalledKept DEF Settling
    <2>3. Abstract!Record
      BY <2>1, <2>2 DEF Abstract!Record, Outcome
    <2>4. QED
      BY <2>3
  <1>9. CASE Exit \/ ExitFailed \/ Crash \/ JobFails
    <2>1. ProcessGone /\ pc # "idle" /\ recorded' \in IF pc = "ok" THEN {recorded, None} ELSE {recorded}
      BY <1>9 DEF Exit, ExitFailed, Crash, JobFails, AfterFailedSave
    <2>2. QED
      BY <1>f, <2>1
  <1>10. CASE \E i \in DOMAIN task : ChunkStep(i)
    <2>1. /\ UNCHANGED <<final, target, old, recorded, pc>> /\ pc \in {"await", "failed"}
      <3>1. PICK i \in DOMAIN task : ChunkStep(i)
        BY <1>10
      <3>2. /\ UNCHANGED <<final, target, old, recorded, pc>>
            /\ task[i] \in {"queued", "fetch", "write"} /\ task # <<>>
        BY <3>1 DEF ChunkStep, AcquirePermit, FetchFails, FetchAnswers, WriteChunk
      <3>3. pc \in {"await", "failed"}
        BY <3>2 DEF AtomicInv, TypeInv, TypeOK, SettledInv, Settled, Skipped
      <3>4. QED
        BY <3>2, <3>3
    <2>2. InstalledVersion' = InstalledVersion
      BY <1>a, <2>1
    <2>3. UNCHANGED Abstract!vars
      BY <2>1, <2>2 DEF Abstract!vars, Outcome
    <2>4. QED
      BY <2>3
  <1>11. CASE WriteLands \/ WriteFails
    <2>1. UNCHANGED <<pc, target, old, recorded>>
      BY <1>11 DEF WriteLands, WriteFails
    <2>2. InstalledVersion' = InstalledVersion
      <3>1. CASE pc \in {"ok", "recorded"}
        BY <1>0, <1>11, <3>1, LastWriteCounted, InstalledKept
      <3>2. CASE pc \notin {"ok", "recorded"}
        BY <1>0, <1>a, <1>11, <2>1, <3>2 DEF WriteLands, WriteFails, CutShort, Put
      <3>3. QED
        BY <3>1, <3>2
    <2>3. UNCHANGED Abstract!vars
      BY <2>1, <2>2 DEF Abstract!vars, Outcome
    <2>4. QED
      BY <2>3
  <1>12. CASE Damage
    <2>1. /\ pc = "idle" /\ final # None /\ UNCHANGED <<pc, target, old, recorded>>
          /\ final' # None
      <3>1. final' # None
        BY <1>12, DamageType DEF AtomicInv, TypeInv
      <3>2. QED
        BY <1>12, <3>1 DEF Damage
    <2>2. InstalledVersion' \in Abstract!Anything /\ InstalledVersion # None
      BY <2>1, SentinelAssumption DEF MappingInv, FileIsAnything, Abstract!Anything
    <2>3. Abstract!Damage
      BY <2>1, <2>2 DEF Abstract!Damage, Outcome
    <2>4. QED
      BY <2>3
  <1>13. CASE Finished \/ UNCHANGED vars
    BY <1>13, <1>e DEF Finished, vars
  <1>14. QED
    BY <1>1, <1>2, <1>3, <1>4, <1>5, <1>6, <1>7, <1>8, <1>9, <1>10, <1>11, <1>12, <1>13
       DEF Next, FileStep

\* With entries as Steam serves them and versions that differ, download_file
\* with all its steps, tasks and retries, and under every fault, implements
\* the safety part of AtomicFile: one atomic replacement of the file, or none,
\* by the wanted version if the version copied from is the installed one; only
\* an interruption after the replacement, or damage, changes it otherwise.
THEOREM RefinesAtomicFile ==
    ASSUME SteamEntries, DistinctVersions
    PROVE  Spec => Abstract!Spec
  <1>1. AtomicInv /\ [Next]_vars => AtomicInv'
    BY AtomicInvNext
  <1>2. AtomicInv => MappingInv
    BY MappingHolds
  <1>3. /\ AtomicInv /\ MappingInv /\ MappingInv' /\ AtomicInv' /\ [Next]_vars
        => [Abstract!Next]_Abstract!vars
    BY AbstractNext
  <1>4. Init => Abstract!Init
    BY AbstractInit
  <1>5. QED
    BY <1>1, <1>2, <1>3, <1>4, AtomicInvInit, PTL DEF Spec, Abstract!Spec
=============================================================================
