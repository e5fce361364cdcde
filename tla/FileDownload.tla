---------------------------- MODULE FileDownload ----------------------------
(***************************************************************************)
(* One file of a depot, from the call of DepotJob::download_file to the    *)
(* recorded installation, over several runs of the program.                *)
(*                                                                         *)
(*   crates/steam-client/src/download.rs   download_file, its chunk tasks  *)
(*                                         and the verification helpers    *)
(*   crates/depotdownloader/src/main.rs    the part of run_download that   *)
(*                                         picks the previous manifest and *)
(*                                         records the installed one       *)
(*                                                                         *)
(* A file on disk is a sequence of slots; every chunk of a manifest covers *)
(* one slot.  The content of a slot is named by the chunk id whose bytes   *)
(* it holds (a chunk id is the SHA-1 of the bytes), or is Zero (never      *)
(* written since set_len) or Junk (anything else).                         *)
(***************************************************************************)
EXTENDS Integers, Sequences, FiniteSets

CONSTANTS
    Ids,            \* chunk ids
    Versions,       \* versions of the file that may be asked for
    Manifest,       \* [Versions -> manifest entry of the file]
    None,           \* an absent file, field or version
    Zero, Junk,     \* contents of a slot that are no chunk's
    MaxDownloads,   \* permits of the semaphore   (DepotJobBuilder::build)
    MaxAttempts,    \* RetryConfig::max_attempts
    MaxRuns,        \* bound: how often the program is started
    Faults,         \* which of FaultKinds may happen
    MaxFaults       \* bound: how many faults happen in all

FaultKinds == {"io", "write", "save", "crash", "damage", "sibling"}

Content == Ids \cup {Zero, Junk}

(***************************************************************************)
(* ManifestChunk and the fields of FileTask: each field may be missing.    *)
(* "sum" stands for uncompressed_size and checksum together: it names the  *)
(* bytes that have them.                                                   *)
(***************************************************************************)
Chunk == [id : Ids \cup {None}, off : (Nat \ {0}) \cup {None}, sum : Ids \cup {None}]

FileEntry == [size : Nat \cup {None}, chunks : Seq(Chunk)]

ASSUME SentinelAssumption ==
    /\ None \notin Ids \cup {Zero, Junk}
    /\ None \notin Nat
    /\ None \notin Versions /\ Junk \notin Versions
    /\ None \notin Seq(Content)
    /\ Zero \notin Ids /\ Junk \notin Ids

ASSUME ManifestAssumption == Manifest \in [Versions -> FileEntry]

ASSUME LimitAssumption ==
    /\ MaxDownloads \in Nat
    /\ MaxAttempts \in Nat
    /\ MaxRuns \in Nat
    /\ MaxFaults \in Nat
    /\ Faults \subseteq FaultKinds

VARIABLES
    final,      \* the file at task.path, or None
    staging,    \* the file at .staging/<name>, or None
    tail,       \* the last write handed to the staging file's tokio File
    pc,         \* where download_file is
    target,     \* the version this run downloads
    old,        \* the version task.old_chunks comes from, or None
    recorded,   \* depot.json: the version believed to be installed, or None
    valid,      \* valid_chunks: ids found intact in the staging file
    k,          \* the chunk the copy loop is at
    task,       \* state of each chunk's task
    attempt,    \* attempts each chunk's task has used up
    good,       \* history, read by properties only: the file at the path was
                \* found valid or renamed by a run whose copies were sound,
                \* and nothing else has touched it since
    runs, faults    \* bound counters

disk == <<final, staging, tail>>
run  == <<pc, target, old, valid, k, task, attempt>>
vars == <<disk, run, recorded, good, runs, faults>>

-----------------------------------------------------------------------------
(* The files.                                                              *)

File == Seq(Content)

chunks(v) == Manifest[v].chunks

size(v) == Manifest[v].size

Indices(v) == 1 .. Len(chunks(v))

\* seek + write_all: a write past the end extends the file
WriteAt(f, s, data) ==
    [i \in 1 .. (IF s > Len(f) THEN s ELSE Len(f)) |->
        IF i = s THEN data ELSE IF i <= Len(f) THEN f[i] ELSE Zero]

file_has_correct_size(f, v) == f # None /\ size(v) # None /\ Len(f) = size(v)

\* seek + read_exact of one slot
Readable(f, s) == s <= Len(f)

\* the loop body of verify_chunks: a chunk that is not bad
ChunkIntact(f, c) ==
    /\ c.off # None /\ c.sum # None
    /\ Readable(f, c.off)
    /\ f[c.off] = c.sum

verify_chunks(f, v) == {i \in Indices(v) : ~ChunkIntact(f, chunks(v)[i])}

file_has_valid_chunks(f, v) ==
    file_has_correct_size(f, v) /\ verify_chunks(f, v) = {}

-----------------------------------------------------------------------------
(***************************************************************************)
(* tokio::fs::File (external): write_all returns once the bytes are handed *)
(* to a blocking thread.  The next operation on the same handle waits for  *)
(* that write, and reports its error; nobody waits for the last one.  The  *)
(* write goes to the inode, wherever it has been renamed to.  A write that *)
(* fails or that the end of the process cuts short has written nothing, or *)
(* a part.                                                                 *)
(***************************************************************************)
Idle == [st |-> "idle", slot |-> None, data |-> None, at |-> "staging"]

TailStates == [st : {"idle", "busy", "error"}, slot : (Nat \ {0}) \cup {None},
               data : Content \cup {None}, at : {"staging", "final"}]

HandleReady == tail.st # "busy"

Buffer(s, data) ==
    tail' = [st |-> "busy", slot |-> s, data |-> data, at |-> "staging"]

CanFault(kind) == kind \in Faults /\ faults < MaxFaults

\* what a write of data leaves behind on the disk
Put(data) ==
    \/ /\ tail.at = "staging"
       /\ staging' = WriteAt(staging, tail.slot, data)
       /\ UNCHANGED final
    \/ /\ tail.at = "final"
       /\ final' = WriteAt(final, tail.slot, data)
       /\ UNCHANGED staging

CutShort == UNCHANGED <<final, staging>> \/ (tail.st = "busy" /\ Put(Junk))

WriteLands ==
    /\ tail.st = "busy"
    /\ Put(tail.data)
    /\ tail' = Idle
    /\ UNCHANGED <<run, recorded, good, runs, faults>>

\* no space left, I/O error: the error waits for the next write
WriteFails ==
    /\ CanFault("write")
    /\ tail.st = "busy"
    /\ CutShort
    /\ tail' = [tail EXCEPT !.st = "error"]
    /\ faults' = faults + 1
    /\ UNCHANGED <<run, recorded, good, runs>>

-----------------------------------------------------------------------------
(* The program is started, stopped and killed.                             *)

Init ==
    /\ final = None /\ staging = None /\ tail = Idle
    /\ pc = "idle"
    /\ target = None /\ old = None /\ recorded = None
    /\ valid = {} /\ k = 1
    /\ task = <<>> /\ attempt = <<>>
    /\ good = FALSE
    /\ runs = 0 /\ faults = 0

\* The previous manifest is the recorded one if it is another one and is in
\* the manifest cache.  A recorded version equal to v is downloaded again
\* with --verify only, and without a previous manifest.
PreviousManifest(v) == {None} \cup ({recorded} \ {v})

Begin(v) ==
    /\ pc = "idle"
    /\ runs < MaxRuns
    /\ runs' = runs + 1
    /\ target' = v
    /\ old' \in PreviousManifest(v)
    /\ pc' = "check_final"
    /\ UNCHANGED <<disk, recorded, good, valid, k, task, attempt, faults>>

\* The process is gone: its tasks, its file handle and an unfinished write.
ProcessGone ==
    /\ pc' = "idle"
    /\ tail' = Idle
    /\ target' = None /\ old' = None
    /\ valid' = {} /\ k' = 1
    /\ task' = <<>> /\ attempt' = <<>>
    /\ CutShort

\* depot.json when its write is cut short: as it was, or unreadable, which
\* DepotConfig::load takes for empty
AfterFailedSave == {recorded, None}

\* set_installed and DepotConfig::save, whose failure is only logged
Record ==
    /\ pc = "ok"
    /\ pc' = "recorded"
    /\ \/ recorded' = target /\ UNCHANGED faults
       \/ CanFault("save") /\ faults' = faults + 1 /\ recorded' \in AfterFailedSave
    /\ UNCHANGED <<disk, good, target, old, valid, k, task, attempt, runs>>

\* main returns: the runtime waits for writes that have started
Exit ==
    /\ pc = "recorded"
    /\ HandleReady
    /\ ProcessGone
    /\ UNCHANGED <<recorded, good, runs, faults>>

\* main's process::exit(1): nothing is waited for
ExitFailed ==
    /\ pc = "failed"
    /\ ProcessGone
    /\ UNCHANGED <<recorded, good, runs, faults>>

Crash ==
    /\ CanFault("crash")
    /\ pc # "idle"
    /\ ProcessGone
    /\ recorded' \in IF pc = "ok" THEN AfterFailedSave ELSE {recorded}
    /\ faults' = faults + 1
    /\ UNCHANGED <<good, runs>>

\* Another file of the job fails (download's handle.await?? returns its error)
\* or a later depot of the same run: main leaves by ? and process::exit(1).
\* This file may be anywhere, also replaced and not recorded, and whatever it
\* still writes is cut short.
JobFails ==
    /\ CanFault("sibling")
    /\ pc \notin {"idle", "failed"}
    /\ ProcessGone
    /\ faults' = faults + 1
    /\ UNCHANGED <<recorded, good, runs>>

\* something else damages or truncates the installed file between runs
Damage ==
    /\ CanFault("damage")
    /\ pc = "idle" /\ final # None /\ final # <<>>
    /\ \/ \E s \in 1 .. Len(final) : final' = WriteAt(final, s, Junk)
       \/ final' = SubSeq(final, 1, Len(final) - 1)
    /\ good' = FALSE
    /\ faults' = faults + 1
    /\ UNCHANGED <<staging, tail, run, recorded, runs>>

-----------------------------------------------------------------------------
(* download_file, up to the point where the chunk tasks are spawned.       *)

CheckFinal ==
    /\ pc = "check_final"
    /\ pc' = IF file_has_valid_chunks(final, target) THEN "ok" ELSE "check_staging"
    /\ good' = IF file_has_valid_chunks(final, target) THEN TRUE ELSE good
    /\ UNCHANGED <<disk, target, old, valid, k, task, attempt, recorded, runs, faults>>

\* mutant: chunks that are intact in the staging file are fetched again
IntactIds_Forgotten == {}

\* ids of the chunks found intact in the staging file
IntactIds ==
    {chunks(target)[i].id : i \in Indices(target) \ verify_chunks(staging, target)} \ {None}

CheckStaging ==
    /\ pc = "check_staging"
    /\ \/ /\ ~file_has_correct_size(staging, target)
          /\ pc' = "create"
          /\ UNCHANGED <<disk, good, valid>>
       \/ /\ file_has_correct_size(staging, target)
          /\ valid' = IntactIds
          /\ Cardinality(IntactIds) = Len(chunks(target))
          /\ final' = staging /\ staging' = None
          /\ pc' = "ok"
          /\ good' = TRUE
          /\ UNCHANGED tail
       \/ /\ file_has_correct_size(staging, target)
          /\ valid' = IntactIds
          /\ Cardinality(IntactIds) # Len(chunks(target))
          /\ pc' = "copy"
          /\ UNCHANGED <<disk, good>>
    /\ UNCHANGED <<target, old, k, task, attempt, recorded, runs, faults>>

\* open with create and truncate
CreateStaging ==
    /\ pc = "create"
    /\ staging' = <<>>
    /\ pc' = IF size(target) = None THEN "copy" ELSE "set_len"
    /\ UNCHANGED <<final, tail, target, old, valid, k, task, attempt, recorded, good, runs, faults>>

SetLen ==
    /\ pc = "set_len"
    /\ staging' = [i \in 1 .. size(target) |-> Zero]
    /\ pc' = "copy"
    /\ UNCHANGED <<final, tail, target, old, valid, k, task, attempt, recorded, good, runs, faults>>

\* task.old_chunks is Some and task.path exists
DeltaPossible == old # None /\ final # None

\* what the copy loop takes for granted: the file found at the path is the
\* previous version (read by properties only, the code does not look)
Sound == DeltaPossible => file_has_valid_chunks(final, old)

OldMatches(id) == {j \in Indices(old) : chunks(old)[j].id = id}

FirstOldMatch(id) ==
    chunks(old)[CHOOSE j \in OldMatches(id) : \A m \in OldMatches(id) : j <= m]

\* the chunk has an id the old version has too
InOldChunks(c) == c.id # None /\ OldMatches(c.id) # {}

\* ... and both entries have the fields the copy loop needs
Copyable(c) ==
    InOldChunks(c) /\ FirstOldMatch(c.id).off # None /\ c.off # None /\ c.sum # None

\* mutant: the copy reads at the chunk's new offset
CopySource_NewOffset(c) == c.off

CopySource(c) == FirstOldMatch(c.id).off

\* ... and read_exact succeeds on the file found at the path
CanCopy(c) == Copyable(c) /\ Readable(final, CopySource(c))

\* one iteration of the copy loop: nothing checks the bytes that are copied
CopyChunk ==
    /\ pc = "copy"
    /\ DeltaPossible /\ k \in Indices(target)
    /\ LET c == chunks(target)[k]
       IN \/ /\ ~CanCopy(c)
             /\ k' = k + 1
             /\ UNCHANGED <<pc, tail>>
          \/ /\ CanCopy(c) /\ tail.st = "idle"
             /\ Buffer(c.off, final[CopySource(c)])
             /\ k' = k + 1
             /\ UNCHANGED pc
          \/ /\ CanCopy(c) /\ tail.st = "error"
             /\ tail' = Idle
             /\ pc' = "failed"
             /\ UNCHANGED k
    /\ UNCHANGED <<final, staging, target, old, valid, task, attempt, recorded, good, runs, faults>>

\* What becomes of a chunk in the spawning loop: the task states of chunks
\* that get no task say why.
Disposition(c) ==
    IF c.id = None THEN "no_id"
    ELSE IF c.id \in valid THEN "resumed"
    ELSE IF DeltaPossible /\ InOldChunks(c) THEN "reused"
    ELSE "queued"

SpawnTasks ==
    /\ pc = "copy"
    /\ ~(DeltaPossible /\ k \in Indices(target))
    /\ task' = [i \in Indices(target) |-> Disposition(chunks(target)[i])]
    /\ attempt' = [i \in Indices(target) |-> 0]
    /\ pc' = "await"
    /\ UNCHANGED <<disk, target, old, valid, k, recorded, good, runs, faults>>

-----------------------------------------------------------------------------
(* The chunk tasks.  They run until the process ends, whether or not       *)
(* download_file still waits for them.                                     *)

Skipped == {"no_id", "resumed", "reused"}

TaskStates == Skipped \cup {"queued", "fetch", "write", "done", "failed"}

\* mutant: a task that fails keeps its permit
Holding_Leak == {"fetch", "write", "failed"}

\* the permit is held from acquire() to the end of the task, so also while
\* the task sleeps between two attempts
Holding == {"fetch", "write"}

Holders == {i \in DOMAIN task : task[i] \in Holding}

SetTask(i, st) == task' = [task EXCEPT ![i] = st]

\* with no attempt at all, raw.unwrap() panics
AcquirePermit(i) ==
    /\ task[i] = "queued"
    /\ Cardinality(Holders) < MaxDownloads
    /\ SetTask(i, IF MaxAttempts = 0 THEN "failed" ELSE "fetch")
    /\ UNCHANGED <<disk, pc, target, old, valid, k, attempt, recorded, good, runs, faults>>

\* mutant: one attempt too many
FetchFails_OneMore(i) ==
    /\ task[i] = "fetch"
    /\ attempt' = [attempt EXCEPT ![i] = @ + 1]
    /\ SetTask(i, IF attempt[i] + 1 <= MaxAttempts THEN "fetch" ELSE "failed")
    /\ UNCHANGED <<disk, pc, target, old, valid, k, recorded, good, runs, faults>>

FetchFails(i) ==
    /\ task[i] = "fetch"
    /\ attempt' = [attempt EXCEPT ![i] = @ + 1]
    /\ SetTask(i, IF attempt[i] + 1 < MaxAttempts THEN "fetch" ELSE "failed")
    /\ UNCHANGED <<disk, pc, target, old, valid, k, recorded, good, runs, faults>>

\* process_chunk accepts only bytes of the expected size and checksum; an
\* error of it is not retried
ProcessChunk(c, data) == c.sum # None /\ data = c.sum

\* the server answers with the chunk, or with something else
FetchAnswers(i) ==
    /\ task[i] = "fetch"
    /\ \E data \in {chunks(target)[i].id, Junk} :
          SetTask(i, IF ProcessChunk(chunks(target)[i], data) THEN "write" ELSE "failed")
    /\ UNCHANGED <<disk, pc, target, old, valid, k, attempt, recorded, good, runs, faults>>

\* lock, seek, write_all; a chunk without an offset is not written
WriteChunk(i) ==
    /\ task[i] = "write"
    /\ LET c == chunks(target)[i]
       IN \/ /\ c.off = None
             /\ SetTask(i, "done")
             /\ UNCHANGED tail
          \/ /\ c.off # None /\ tail.st = "idle"
             /\ Buffer(c.off, c.sum)
             /\ SetTask(i, "done")
          \/ /\ c.off # None /\ tail.st = "error"
             /\ tail' = Idle
             /\ SetTask(i, "failed")
    /\ UNCHANGED <<final, staging, pc, target, old, valid, k, attempt, recorded, good, runs, faults>>

ChunkStep(i) ==
    /\ i \in DOMAIN task
    /\ AcquirePermit(i) \/ FetchFails(i) \/ FetchAnswers(i) \/ WriteChunk(i)

-----------------------------------------------------------------------------
(* The end of download_file.                                               *)

\* mutant: a task's own error is ignored (handle.await? for handle.await??)
Settled_Unchecked(st) == st \in Skipped \cup {"done", "failed"}

Settled(st) == st \in Skipped \cup {"done"}

\* handles are awaited in order: the first failed one ends the wait
AwaitFails ==
    /\ pc = "await"
    /\ \E i \in DOMAIN task :
          task[i] = "failed" /\ \A j \in 1 .. (i - 1) : Settled(task[j])
    /\ pc' = "failed"
    /\ UNCHANGED <<disk, target, old, valid, k, task, attempt, recorded, good, runs, faults>>

\* mutant: the file is renamed while chunk tasks still run
AwaitAll_NoWait ==
    /\ pc = "await"
    /\ pc' = "rename"
    /\ UNCHANGED <<disk, target, old, valid, k, task, attempt, recorded, good, runs, faults>>

AwaitAll ==
    /\ pc = "await"
    /\ \A i \in DOMAIN task : Settled(task[i])
    /\ pc' = "rename"
    /\ UNCHANGED <<disk, target, old, valid, k, task, attempt, recorded, good, runs, faults>>

Rename ==
    /\ pc = "rename"
    /\ final' = staging
    /\ staging' = None
    /\ tail' = [tail EXCEPT !.at = "final"]
    /\ pc' = "ok"
    /\ good' = Sound
    /\ UNCHANGED <<target, old, valid, k, task, attempt, recorded, runs, faults>>

\* a step of download_file returns an error of the file system
IoError ==
    /\ CanFault("io")
    /\ pc \in {"check_final", "check_staging", "create", "set_len", "copy", "rename"}
    /\ pc' = "failed"
    /\ faults' = faults + 1
    /\ UNCHANGED <<disk, target, old, valid, k, task, attempt, recorded, good, runs>>

FileStep ==
    \/ CheckFinal \/ CheckStaging \/ CreateStaging \/ SetLen \/ CopyChunk
    \/ SpawnTasks \/ AwaitFails \/ AwaitAll \/ Rename \/ Record \/ Exit \/ ExitFailed

\* nothing is left to happen: the bound on runs is used up
Finished == pc = "idle" /\ runs = MaxRuns /\ UNCHANGED vars

Next ==
    \/ \E v \in Versions : Begin(v)
    \/ FileStep
    \/ \E i \in DOMAIN task : ChunkStep(i)
    \/ WriteLands \/ WriteFails
    \/ IoError \/ Crash \/ JobFails \/ Damage
    \/ Finished

(***************************************************************************)
(* The runtime polls every task that is ready, and a blocking write ends.  *)
(* The HTTP client has no timeout, so nothing in this program ends a       *)
(* request to a server that keeps silent: that every request is answered   *)
(* or fails is an assumption on the network.  Nothing is assumed about     *)
(* faults or about new runs.                                               *)
(***************************************************************************)
MaxChunks == CHOOSE n \in {Len(chunks(v)) : v \in Versions} :
                 \A v \in Versions : Len(chunks(v)) <= n

RequestEnds(i) == i \in DOMAIN task /\ (FetchFails(i) \/ FetchAnswers(i))

TaskRuns(i) == i \in DOMAIN task /\ (AcquirePermit(i) \/ WriteChunk(i))

Fairness ==
    /\ WF_vars(FileStep)
    /\ \A i \in 1 .. MaxChunks : WF_vars(TaskRuns(i))
    /\ WF_vars(WriteLands)

NetworkAnswers == \A i \in 1 .. MaxChunks : WF_vars(RequestEnds(i))

Spec == Init /\ [][Next]_vars

FairSpec == Spec /\ Fairness /\ NetworkAnswers

-----------------------------------------------------------------------------
(* Properties.                                                             *)

Phases == {"idle", "check_final", "check_staging", "create", "set_len", "copy",
           "await", "rename", "ok", "recorded", "failed"}

\* The type invariant.
TypeOK ==
    /\ final \in File \cup {None}
    /\ staging \in File \cup {None}
    /\ tail \in TailStates
    /\ tail.st = "busy" => /\ tail.slot # None /\ tail.data # None
                           /\ tail.at = "staging" => staging # None
                           /\ tail.at = "final" => final # None
    /\ pc \in Phases
    /\ target \in Versions \cup {None} /\ (target = None <=> pc = "idle")
    /\ old \in Versions \cup {None}
    /\ recorded \in Versions \cup {None}
    /\ valid \subseteq Ids
    /\ k \in Nat
    /\ \/ task = <<>> /\ attempt = <<>>
       \/ /\ pc \in {"await", "rename", "ok", "recorded", "failed"}
          /\ task \in [Indices(target) -> TaskStates]
          /\ attempt \in [Indices(target) -> 0 .. MaxAttempts]
    /\ good \in BOOLEAN
    /\ runs \in Nat /\ faults \in Nat

\* A manifest entry as Steam serves them: every field is present, a chunk is
\* named by its own checksum, chunks do not overlap and fill the file.
Complete(v) ==
    /\ \A i \in Indices(v) :
          LET c == chunks(v)[i] IN c.id # None /\ c.sum = c.id /\ c.off # None
    /\ \A i, j \in Indices(v) : i # j => chunks(v)[i].off # chunks(v)[j].off
    /\ size(v) # None /\ {chunks(v)[i].off : i \in Indices(v)} = 1 .. size(v)

\* no two chunks of the entry with the same id
DistinctIds(v) ==
    \A i, j \in Indices(v) :
        i # j /\ chunks(v)[i].id # None => chunks(v)[i].id # chunks(v)[j].id

SteamEntries == \A v \in Versions : Complete(v) /\ DistinctIds(v)

\* the file's bytes once the last write, which nobody waits for, has landed
Settling(f, where) ==
    IF f # None /\ tail.st # "idle" /\ tail.at = where
    THEN WriteAt(f, tail.slot, tail.data) ELSE f

WholeVersion(f, v) ==
    /\ Len(f) = size(v)
    /\ \A i \in Indices(v) : f[chunks(v)[i].off] = chunks(v)[i].sum

\* version v but for the bytes of one slot
OneSlotShort(f, v) ==
    /\ Len(f) = size(v)
    /\ \E s \in {0} \cup (1 .. size(v)) : \A i \in Indices(v) :
          chunks(v)[i].off # s => ChunkIntact(f, chunks(v)[i])

\* the installed file has chunk c, or its write is the file's last one and
\* has not ended well (yet)
HasChunk(c) ==
    \/ ChunkIntact(final, c)
    \/ tail.at = "final" /\ tail.st # "idle" /\ tail.slot = c.off

\* the copy loop may have written the chunk, unverified
Reusable(c) == old # None /\ InOldChunks(c)

Wanted(c) == c.id # None /\ c.off # None /\ c.sum # None

(***************************************************************************)
(* InstalledIntact: when download_file has returned Ok, every chunk that   *)
(* is not shared with the previous version has its bytes in the installed  *)
(* file, whatever crashes, failed requests, failed writes and damage came  *)
(* before; the only exception is the file's very last write, which nobody  *)
(* waits for.  (The skips of download.rs:359-379 and :475, the order of    *)
(* await and rename at :558-565.)                                          *)
(***************************************************************************)
InstalledIntact ==
    pc \in {"ok", "recorded"} =>
        \A i \in Indices(target) :
            Wanted(chunks(target)[i]) /\ ~Reusable(chunks(target)[i])
                => HasChunk(chunks(target)[i])

(***************************************************************************)
(* FinalIsSomeVersion: the file at the path is exactly one of the          *)
(* versions, counting the write that is under way.  This is what           *)
(* download.rs:344 promises ("This prevents partial files on               *)
(* interruption"), and it does not always hold: the rename does not wait   *)
(* for the last write, which process::exit (main.rs:86) cuts off if        *)
(* another file's download fails.  LastWriteOnly is what does hold.        *)
(***************************************************************************)
FinalIsSomeVersion ==
    final # None => \E v \in Versions : WholeVersion(Settling(final, "final"), v)

(***************************************************************************)
(* LastWriteOnly: what an interruption at any moment, of whatever kind,    *)
(* can cost the file at the path is its last write: it is one version but  *)
(* for at most one slot, and has that version's length, unless it was      *)
(* damaged or put together from a file that was not the version depot.json *)
(* named (the order of await, drop and rename, download.rs:558-565, and    *)
(* process::exit, main.rs:86).                                             *)
(***************************************************************************)
LastWriteOnly ==
    final # None /\ good => \E v \in Versions : OneSlotShort(final, v)

(***************************************************************************)
(* StagedChunksSurvive: a chunk that has reached the staging file is not   *)
(* lost again by a crash, an error, a restart or a later write while the   *)
(* same version is wanted, until the file is renamed (download resumption, *)
(* download.rs:365-393).  Between runs no version is wanted, so the chunks *)
(* of every version are compared.                                          *)
(***************************************************************************)
StagedChunksSurvive ==
    [][ staging # None /\ staging' # None =>
            \A v \in Versions : \A i \in Indices(v) :
                ChunkIntact(staging, chunks(v)[i]) => ChunkIntact(staging, chunks(v)[i])' ]_vars

(***************************************************************************)
(* SkippedWereCopied: a chunk that gets no task because the previous       *)
(* version has it was really copied: its bytes are in the file that is     *)
(* about to be renamed, the last write counted ("Skip chunks that were     *)
(* already copied from the previous version", download.rs:479).  It does   *)
(* not always hold: when a job fails after this file was replaced, the     *)
(* program leaves before depot.json is written (main.rs:784), and the next *)
(* update copies from a file that is not the recorded version.             *)
(***************************************************************************)
SkippedWereCopied ==
    pc = "rename" =>
        \A i \in DOMAIN task :
            task[i] = "reused" => ChunkIntact(Settling(staging, "staging"), chunks(target)[i])

(***************************************************************************)
(* ReusedChunksCopied: SkippedWereCopied as far as it goes: if the file    *)
(* that the run found at the path is the version depot.json names, no      *)
(* failed write, resumed staging file or concurrent task keeps a skipped   *)
(* chunk out of the new file or overwrites it.                             *)
(***************************************************************************)
ReusedChunksCopied == Sound => SkippedWereCopied

(***************************************************************************)
(* Terminates: a started download returns, with success or with an error   *)
(* (or the process is killed): no permit is lost and no task waits for     *)
(* ever, provided that requests end and that there is a permit at all      *)
(* (--max-downloads 0 is accepted, cli.rs:33, and gives a Semaphore of     *)
(* none).                                                                  *)
(***************************************************************************)
Terminates == MaxDownloads > 0 => (pc = "check_final" ~> pc \in {"recorded", "failed", "idle"})

-----------------------------------------------------------------------------
(***************************************************************************)
(* The inductive invariant behind InstalledIntact.  A chunk of the target  *)
(* that the copy loop leaves alone is followed from the staging file's     *)
(* verification or its task's write to the renamed file.                   *)
(***************************************************************************)
DistinctSlots(v) ==
    \A i, j \in Indices(v) :
        i # j /\ chunks(v)[i].off # None => chunks(v)[i].off # chunks(v)[j].off

WellFormed == \A v \in Versions : DistinctIds(v) /\ DistinctSlots(v)

Own(c) == Wanted(c) /\ ~Reusable(c)

\* the staging file has the chunk, up to the last write
StagingHas(c) ==
    \/ ChunkIntact(staging, c)
    \/ tail.st # "idle" /\ tail.slot = c.off

SomeTaskFailed == \E i \in DOMAIN task : task[i] = "failed"

\* which file the handle's last write goes to, and that the file is there
TailInv ==
    /\ pc \in {"idle", "check_final", "check_staging", "create", "set_len"} => tail = Idle
    /\ pc \in {"copy", "await", "rename", "failed"} => tail.at = "staging"
    /\ pc \in {"ok", "recorded"} => tail.st = "idle" \/ tail.at = "final"
    /\ pc \in {"copy", "await", "rename"} => staging # None
    /\ pc = "set_len" => staging # None /\ size(target) # None
    /\ pc = "failed" /\ task # <<>> => staging # None
    /\ pc \in {"ok", "recorded"} => final # None

\* a task that fetches has an attempt left, one that writes has checked bytes
AttemptInv ==
    \A i \in DOMAIN task :
        /\ task[i] = "queued" => attempt[i] = 0
        /\ task[i] = "fetch" => attempt[i] < MaxAttempts
        /\ task[i] = "write" => chunks(target)[i].sum # None

\* nothing runs any more when the file is renamed
SettledInv ==
    pc \in {"rename", "ok", "recorded"} => \A i \in DOMAIN task : Settled(task[i])

TypeInv == TypeOK /\ TailInv /\ AttemptInv /\ SettledInv

\* a write to the slot of an own chunk brings that chunk's bytes
TailDataInv ==
    pc \in {"copy", "await", "rename", "ok", "recorded"} /\ tail.st = "busy" =>
        \A i \in Indices(target) :
            Own(chunks(target)[i]) /\ tail.slot = chunks(target)[i].off
                => tail.data = chunks(target)[i].sum

\* what verification found in the staging file is still there
CopyInv ==
    /\ pc \in {"idle", "check_final", "check_staging", "create", "set_len"} => valid = {}
    /\ pc = "copy" =>
          \A i \in Indices(target) :
              Own(chunks(target)[i]) /\ chunks(target)[i].id \in valid
                  => StagingHas(chunks(target)[i])

\* so is what the tasks have written, unless an error has been reported
TaskInv ==
    pc \in {"await", "rename"} =>
        /\ task \in [Indices(target) -> TaskStates]
        /\ \A i \in Indices(target) :
              Own(chunks(target)[i]) /\ Settled(task[i]) /\ ~SomeTaskFailed
                  => StagingHas(chunks(target)[i])

\* Unlike the other properties this one says how they come about: at every
\* step of a run, an own chunk whose work is done is in the staging file
\* or is the one write under way (download.rs:366-565).
IInv ==
    /\ TypeInv /\ TailDataInv /\ CopyInv /\ TaskInv
    /\ InstalledIntact

-----------------------------------------------------------------------------
(* The abstract file: the version whose bytes are at the path once the     *)
(* last write has landed; that it does not is the abstract Interrupt.      *)

VersionOf(f) == CHOOSE v \in Versions : WholeVersion(f, v)

InstalledVersion ==
    IF final = None THEN None
    ELSE IF FinalIsSomeVersion THEN VersionOf(Settling(final, "final"))
    ELSE Junk

Outcome ==
    CASE pc = "idle" -> "none"
      [] pc = "failed" -> "failed"
      [] pc = "ok" -> "ok"
      [] pc = "recorded" -> "recorded"
      [] OTHER -> "running"

\* two versions with the same bytes could not be told apart on the disk
SameBytes(v, w) ==
    /\ size(v) = size(w)
    /\ \A i \in Indices(v), j \in Indices(w) :
          chunks(v)[i].off = chunks(w)[j].off => chunks(v)[i].sum = chunks(w)[j].sum

DistinctVersions == \A v, w \in Versions : SameBytes(v, w) => v = w

Abstract == INSTANCE AtomicFile WITH installed <- InstalledVersion, wanted <- target,
                                     source <- old, outcome <- Outcome

(***************************************************************************)
(* ImplementsAtomicFile: with all its steps, tasks and retries, and under  *)
(* every fault, download_file looks like one atomic replacement of the     *)
(* file, or none when it fails (download.rs:343-344); the replacement is   *)
(* the wanted version whenever the version copied from is the installed    *)
(* one, and only an interruption after it can spoil the file.  Every run   *)
(* comes to an end.                                                        *)
(***************************************************************************)
ImplementsAtomicFile == Abstract!FairSpec
=============================================================================
