---------------------------- MODULE DepotInstall ----------------------------
(***************************************************************************)
(* Installing and updating whole depots, over several runs of the program. *)
(*                                                                         *)
(*   crates/depotdownloader/src/main.rs    run_download: the loop over the *)
(*                                         depots of a request             *)
(*   crates/steam-client/src/download.rs   DepotJob::download: which files *)
(*                                         are skipped, downloaded, deleted*)
(*   crates/steam-client/src/manifest.rs   DepotConfig and ManifestCache   *)
(*                                                                         *)
(* A file is downloaded in one step: its chunks and its staging file are   *)
(* the matter of module FileDownload.  As that module shows, the last      *)
(* write to the file may still be under way after the rename, and the end  *)
(* of the process may cut it off; action by action this is CutOff here.    *)
(* What a file holds is named by its content hash; Mixed is the content of *)
(* a file put together from chunks of the wrong version, or cut off.       *)
(***************************************************************************)
EXTENDS Integers, Sequences, FiniteSets

CONSTANTS
    Depots,
    Files,          \* file names; their order is the order in the manifests
    Contents,       \* what a file of a manifest can hold
    Mixed,          \* anything else
    Manifests,
    Tree,           \* [Manifests -> [files of the manifest -> entry]]
    Encrypted,      \* manifests whose file names come encrypted
    Requests,       \* what the program may be asked for
    Builds,         \* build ids of the branch
    CustomOutput,   \* whether --output is given
    None,
    Faults,         \* which of FaultKinds may happen
    MaxFaults       \* bound: how many faults happen in all

\* "late": the last write to a file may land some time after its rename
FaultKinds == {"network", "file", "chmod", "remove", "cache", "save", "crash", "late"}

\* a ManifestFile: its flags, its content and whether it has a sha_content
Entry == [dir : BOOLEAN, exec : BOOLEAN, data : Contents, hashed : BOOLEAN]

\* what can be at a path
OnDisk == [data : Contents \cup {Mixed}, exec : BOOLEAN]

Request == [order : Seq(Depots), want : [Depots -> Manifests], build : Builds,
            filter : SUBSET Files, verify : BOOLEAN]

ASSUME FilesAssumption == Files \subseteq Nat

ASSUME NamesAssumption ==
    /\ None \notin Contents \cup {Mixed} \cup Manifests \cup Depots
    /\ None \notin OnDisk \cup Requests
    /\ Mixed \notin Contents \cup Manifests
    /\ Encrypted \subseteq Manifests

ASSUME TreeAssumption ==
    /\ DOMAIN Tree = Manifests
    /\ \A m \in Manifests :
          DOMAIN Tree[m] \subseteq Files /\ Tree[m] \in [DOMAIN Tree[m] -> Entry]

ASSUME RequestAssumption == Requests \subseteq Request

ASSUME BoundAssumption ==
    CustomOutput \in BOOLEAN /\ Faults \subseteq FaultKinds /\ MaxFaults \in Nat

VARIABLES
    disk,       \* install directory -> file -> what is there, or None
    config,     \* depot.json: depot -> installed manifest, or None
    cached,     \* manifests ManifestCache::load finds intact
    pc,         \* where run_download is
    req,        \* the request of this run, or None
    at,         \* which depot of the request is processed
    prev,       \* DepotJob::previous_manifest, or None
    work,       \* file -> state of its task
    doomed,     \* files the deletion loop has still to visit
    fresh,      \* <<directory, file>> pairs this process has replaced: the
                \* last write of any of them may still be under way
    faults      \* bound counter

\* history, read by the properties only
VARIABLES
    holds,      \* depot, directory -> manifests whose files may be there,
                \* and Mixed if files may have been put together wrongly
    sound       \* whether the current job started from files that its
                \* previous manifest or its own manifest describes

run  == <<pc, req, at, prev, work, doomed, fresh>>
hist == <<holds, sound>>
vars == <<disk, config, cached, run, faults, hist>>

-----------------------------------------------------------------------------
InstallDir(d, build) == IF CustomOutput THEN <<None, None>> ELSE <<d, build>>

Dirs == {InstallDir(d, b) : d \in Depots, b \in Builds}

depot == req.order[at]

manifest == req.want[depot]

dir == InstallDir(depot, req.build)

NewFiles == DOMAIN Tree[manifest]

\* ManifestCache::load does not decrypt the names: the previous manifest of
\* an encrypted depot has names that no file has
PrevFiles == IF prev = None \/ prev \in Encrypted THEN {} ELSE DOMAIN Tree[prev]

path_exists(f) == disk[dir][f] # None

CanFault(kind) == kind \in Faults /\ faults < MaxFaults

Fault(kind) == CanFault(kind) /\ faults' = faults + 1

Init ==
    /\ disk = [p \in Dirs |-> [f \in Files |-> None]]
    /\ config = [d \in Depots |-> None]
    /\ cached = {}
    /\ pc = "idle" /\ req = None /\ at = 1 /\ prev = None
    /\ work = <<>> /\ doomed = {} /\ fresh = {}
    /\ faults = 0
    /\ holds = [dp \in Depots \X Dirs |-> {}]
    /\ sound = FALSE

-----------------------------------------------------------------------------
(* run_download, depot by depot.                                           *)

StartRun(r) ==
    /\ pc = "idle"
    /\ req' = r /\ at' = 1
    /\ pc' = "depot"
    /\ UNCHANGED <<disk, config, cached, prev, work, doomed, fresh, faults, hist>>

\* depot key, manifest id, request code or manifest cannot be had
NetworkFails ==
    /\ pc = "depot" /\ at <= Len(req.order)
    /\ Fault("network")
    /\ pc' = "failed"
    /\ UNCHANGED <<disk, config, cached, req, at, prev, work, doomed, fresh, hist>>

\* from the cache, or downloaded and then saved there; a failure to save is
\* only logged
GetManifest ==
    /\ pc = "depot" /\ at <= Len(req.order)
    /\ \/ manifest \in cached /\ UNCHANGED <<cached, faults>>
       \/ manifest \notin cached /\ cached' = cached \cup {manifest} /\ UNCHANGED faults
       \/ manifest \notin cached /\ Fault("cache") /\ UNCHANGED cached
    /\ pc' = "decide"
    /\ UNCHANGED <<disk, config, req, at, prev, work, doomed, fresh, hist>>

NextDepot ==
    /\ pc' = "depot" /\ at' = at + 1
    /\ prev' = None /\ work' = <<>> /\ doomed' = {}
    /\ UNCHANGED <<req, fresh>>

IsUpToDate == config[depot] = manifest /\ ~req.verify

UpToDate ==
    /\ pc = "decide"
    /\ IsUpToDate
    /\ NextDepot
    /\ UNCHANGED <<disk, config, cached, faults, hist>>

PreviousManifest ==
    IF config[depot] \in {None, manifest} \/ config[depot] \notin cached
    THEN None ELSE config[depot]

\* mutant: an unchanged hash is enough, the file need not be there
UnchangedFile_NotChecked(p, f) ==
    /\ p # None /\ p \notin Encrypted /\ f \in DOMAIN Tree[p]
    /\ Tree[p][f].hashed /\ Tree[manifest][f].hashed
    /\ Tree[p][f].data = Tree[manifest][f].data

\* same sha_content in the previous manifest p, and something is there
UnchangedFile(p, f) ==
    /\ p # None /\ p \notin Encrypted /\ f \in DOMAIN Tree[p]
    /\ Tree[p][f].hashed /\ Tree[manifest][f].hashed
    /\ Tree[p][f].data = Tree[manifest][f].data
    /\ path_exists(f)

Skipped(p, f) ==
    f \notin req.filter \/ Tree[manifest][f].dir \/ UnchangedFile(p, f)

\* DepotJob::download decides about every file and spawns the tasks
StartJob ==
    /\ pc = "decide"
    /\ ~IsUpToDate
    /\ prev' = PreviousManifest
    /\ work' = [f \in NewFiles |-> IF Skipped(PreviousManifest, f) THEN "skipped" ELSE "download"]
    /\ pc' = "files"
    /\ sound' = \/ PreviousManifest = None
                \/ /\ holds[<<depot, dir>>] \subseteq {PreviousManifest, manifest}
                   /\ \A f \in NewFiles : <<dir, f>> \notin fresh
    /\ holds' = [holds EXCEPT ![<<depot, dir>>] =
                    @ \cup {manifest} \cup IF sound' THEN {} ELSE {Mixed}]
    /\ UNCHANGED <<disk, config, cached, req, at, doomed, fresh, faults>>

-----------------------------------------------------------------------------
(* The file tasks.  They run until the process ends, also after another    *)
(* file's error has ended download().                                      *)

\* a directory has no chunks
OldData(f) == IF f \in PrevFiles /\ ~Tree[prev][f].dir THEN Tree[prev][f].data ELSE None

\* What download_file can make of a file.  Chunks are taken from the file on
\* disk only if the previous manifest knows it, and nothing checks that the
\* file is still the one that manifest describes, or that it is all there.
Results(f) ==
    {Tree[manifest][f].data}
    \cup IF /\ OldData(f) # None /\ path_exists(f)
            /\ disk[dir][f].data # OldData(f) \/ <<dir, f>> \in fresh
         THEN {Mixed} ELSE {}

\* file_has_valid_chunks finds every chunk, or one that is not there (yet)
FoundRight(f) == path_exists(f) /\ disk[dir][f].data = Tree[manifest][f].data

FoundWrong(f) == ~FoundRight(f) \/ <<dir, f>> \in fresh

Replace(f) ==
    /\ \E new \in Results(f) :
          disk' = [disk EXCEPT ![dir][f] = [data |-> new, exec |-> FALSE]]
    /\ fresh' = fresh \cup IF "late" \in Faults THEN {<<dir, f>>} ELSE {}

\* mutant: permissions are only set on a file that was replaced
FileDownloaded_ChmodNew(f) ==
    /\ work[f] = "download"
    /\ \/ /\ FoundRight(f)
          /\ fresh' = fresh \ {<<dir, f>>}
          /\ work' = [work EXCEPT ![f] = "done"]
          /\ UNCHANGED disk
       \/ /\ FoundWrong(f)
          /\ Replace(f)
          /\ work' = [work EXCEPT ![f] = "chmod"]
    /\ UNCHANGED <<config, cached, pc, req, at, prev, doomed, faults, hist>>

\* the file is already the wanted one, or it is replaced
FileDownloaded(f) ==
    /\ work[f] = "download"
    /\ \/ /\ FoundRight(f)
          /\ fresh' = fresh \ {<<dir, f>>}
          /\ UNCHANGED disk
       \/ FoundWrong(f) /\ Replace(f)
    /\ work' = [work EXCEPT ![f] = "chmod"]
    /\ UNCHANGED <<config, cached, pc, req, at, prev, doomed, faults, hist>>

FileFails(f) ==
    /\ work[f] = "download"
    /\ Fault("file")
    /\ work' = [work EXCEPT ![f] = "failed"]
    /\ UNCHANGED <<disk, config, cached, pc, req, at, prev, doomed, fresh, hist>>

\* the permission bits are only ever added; a failure is only logged
set_executable_if_needed(f) ==
    /\ work[f] = "chmod"
    /\ \/ /\ disk' = [disk EXCEPT ![dir][f].exec = @ \/ Tree[manifest][f].exec]
          /\ UNCHANGED faults
       \/ /\ Tree[manifest][f].exec /\ Fault("chmod")
          /\ UNCHANGED disk
    /\ work' = [work EXCEPT ![f] = "done"]
    /\ UNCHANGED <<config, cached, pc, req, at, prev, doomed, fresh, hist>>

FileStep(f) ==
    f \in DOMAIN work /\ (FileDownloaded(f) \/ FileFails(f) \/ set_executable_if_needed(f))

Ended(f) == work[f] \in {"skipped", "done"}

\* tasks are awaited in the order of the manifest
AwaitFails ==
    /\ pc = "files"
    /\ \E f \in DOMAIN work :
          work[f] = "failed" /\ \A g \in DOMAIN work : g < f => Ended(g)
    /\ pc' = "failed"
    /\ UNCHANGED <<disk, config, cached, req, at, prev, work, doomed, fresh, faults, hist>>

\* mutant: the filter limits the deletions too
Removed_InFilter == {f \in PrevFiles : ~Tree[prev][f].dir /\ f \notin NewFiles /\ f \in req.filter}

\* mutant: files the job has skipped as unchanged are deleted as well
Removed_Skipped ==
    {f \in PrevFiles : ~Tree[prev][f].dir /\ (f \in NewFiles => work[f] = "skipped")}

\* files of the previous manifest the new one does not name
Removed == {f \in PrevFiles : ~Tree[prev][f].dir /\ f \notin NewFiles}

\* mutant: download() does not wait for its file tasks
AwaitAll_NoWait ==
    /\ pc = "files"
    /\ doomed' = Removed
    /\ pc' = "delete"
    /\ UNCHANGED <<disk, config, cached, req, at, prev, work, fresh, faults, hist>>

AwaitAll ==
    /\ pc = "files"
    /\ \A f \in DOMAIN work : Ended(f)
    /\ doomed' = Removed
    /\ pc' = "delete"
    /\ UNCHANGED <<disk, config, cached, req, at, prev, work, fresh, faults, hist>>

\* in the order of the manifest; a failure is only logged
DeleteFile ==
    /\ pc = "delete"
    /\ \E f \in doomed :
          /\ \A g \in doomed : f <= g
          /\ doomed' = doomed \ {f}
          /\ \/ /\ disk' = [disk EXCEPT ![dir][f] = None]
                /\ fresh' = fresh \ {<<dir, f>>}
                /\ UNCHANGED faults
             \/ path_exists(f) /\ Fault("remove") /\ UNCHANGED <<disk, fresh>>
    /\ UNCHANGED <<config, cached, pc, req, at, prev, work, hist>>

Unfiltered == NewFiles \subseteq req.filter

EndJob ==
    /\ pc = "delete" /\ doomed = {}
    /\ pc' = "save"
    /\ holds' = IF sound /\ Unfiltered THEN [holds EXCEPT ![<<depot, dir>>] = {manifest}] ELSE holds
    /\ UNCHANGED <<disk, config, cached, req, at, prev, work, doomed, fresh, faults, sound>>

-----------------------------------------------------------------------------
(* DepotConfig: loaded again, changed and written over the old file.       *)

NoConfig == [d \in Depots |-> None]

\* mutant: what is left of a cut file is taken as it is
AfterFailedSave_Cut == {config, <<>>}

\* the file stays as it was, or is left empty or cut, which load() reads as
\* no record at all
AfterFailedSave == {config, NoConfig}

\* mutant: the file is not loaded again before it is changed
Recorded_Fresh(d, m) == [NoConfig EXCEPT ![d] = m]

Recorded(d, m) == [config EXCEPT ![d] = m]

SaveConfig ==
    /\ pc = "save"
    /\ config' = Recorded(depot, manifest)
    /\ NextDepot
    /\ UNCHANGED <<disk, cached, faults, hist>>

SaveFails ==
    /\ pc = "save"
    /\ Fault("save")
    /\ config' \in AfterFailedSave
    /\ NextDepot
    /\ UNCHANGED <<disk, cached, hist>>

\* main returns, and the runtime ends the writes that are under way first
EndRun ==
    /\ pc = "depot" /\ at > Len(req.order)
    /\ pc' = "idle" /\ req' = None /\ at' = 1 /\ fresh' = {}
    /\ UNCHANGED <<disk, config, cached, prev, work, doomed, faults, hist>>

\* what a depot can be asked for
ManifestsOf(d) == {r.want[d] : r \in Requests}

FilesOf(d) == UNION {DOMAIN Tree[m] : m \in ManifestsOf(d)}

\* the last writes of the files in lost never reach the disk
CutOff(lost) ==
    /\ disk' = [p \in Dirs |-> [f \in Files |->
                  IF <<p, f>> \in lost THEN [disk[p][f] EXCEPT !.data = Mixed] ELSE disk[p][f]]]
    /\ holds' = [dp \in Depots \X Dirs |->
                   holds[dp] \cup IF \E f \in FilesOf(dp[1]) : <<dp[2], f>> \in lost
                                 THEN {Mixed} ELSE {}]

ProcessGone ==
    /\ pc' = "idle" /\ req' = None /\ at' = 1
    /\ prev' = None /\ work' = <<>> /\ doomed' = {} /\ fresh' = {}
    /\ \E lost \in SUBSET fresh : CutOff(lost)

\* process::exit(1) waits for nothing
ExitFailed ==
    /\ pc = "failed"
    /\ ProcessGone
    /\ UNCHANGED <<config, cached, faults, sound>>

\* a crash while depot.json is written leaves it empty or cut
Crash ==
    /\ pc # "idle"
    /\ Fault("crash")
    /\ config' \in IF pc = "save" THEN AfterFailedSave ELSE {config}
    /\ ProcessGone
    /\ UNCHANGED <<cached, sound>>

RunStep ==
    \/ GetManifest \/ UpToDate \/ StartJob
    \/ AwaitFails \/ AwaitAll \/ DeleteFile \/ EndJob
    \/ SaveConfig \/ EndRun \/ ExitFailed

Next ==
    \/ \E r \in Requests : StartRun(r)
    \/ RunStep
    \/ \E f \in DOMAIN work : FileStep(f)
    \/ NetworkFails \/ SaveFails \/ Crash

Spec == Init /\ [][Next]_vars

\* The runtime makes progress, and the user starts the program again.
FairSpec ==
    /\ Spec
    /\ WF_vars(RunStep)
    /\ \A f \in Files : WF_vars(FileStep(f))
    /\ WF_vars(\E r \in Requests : StartRun(r))

-----------------------------------------------------------------------------
(* Properties.                                                             *)

\* The type invariant.
TypeOK ==
    /\ disk \in [Dirs -> [Files -> OnDisk \cup {None}]]
    /\ config \in [Depots -> Manifests \cup {None}]
    /\ cached \subseteq Manifests
    /\ pc \in {"idle", "depot", "decide", "files", "delete", "save", "failed"}
    /\ req \in Requests \cup {None} /\ (req = None <=> pc = "idle")
    /\ at \in Nat \ {0}
    /\ pc \in {"decide", "files", "delete", "save"} => at <= Len(req.order)
    /\ prev \in Manifests \cup {None}
    /\ \/ work = <<>>
       \/ /\ pc \in {"files", "delete", "save", "failed"} /\ at <= Len(req.order)
          /\ work \in [NewFiles -> {"skipped", "download", "chmod", "done", "failed"}]
    /\ doomed \subseteq Files
    /\ fresh \subseteq Dirs \X Files
    /\ faults \in 0 .. MaxFaults
    /\ holds \in [Depots \X Dirs -> SUBSET (Manifests \cup {Mixed})]
    /\ sound \in BOOLEAN

\* every file of the manifest is in the directory, with its content ...
Present(m, p) ==
    \A f \in DOMAIN Tree[m] :
        ~Tree[m][f].dir => disk[p][f] # None /\ disk[p][f].data = Tree[m][f].data

\* ... and may be executed where the manifest says so
Executable(m, p) ==
    \A f \in DOMAIN Tree[m] :
        ~Tree[m][f].dir /\ Tree[m][f].exec => disk[p][f] # None /\ disk[p][f].exec

Complete(m, p) == Present(m, p) /\ Executable(m, p)

(***************************************************************************)
(* JobCompletes: after any history of crashes, failed files, failed saves  *)
(* and last writes that were cut off, a job that ends well has put every   *)
(* file of its manifest in place (the last write of each is under way at   *)
(* worst), if no filter left files out and if either it was given no       *)
(* previous manifest, or what lay in the directory came, whole, from that  *)
(* manifest and from sound attempts at its own.  The second condition is   *)
(* needed because the skip at download.rs:231-247 and the delta copy trust *)
(* the previous manifest: a file whose last write was cut off by           *)
(* process::exit or a crash is copied from as if it were whole.            *)
(***************************************************************************)
JobCompletes == pc = "save" /\ sound /\ Unfiltered => Present(manifest, dir)

(***************************************************************************)
(* JobSetsExecutable: ... and the files with the Executable flag may be    *)
(* executed, also when an earlier run died between a file's rename and the *)
(* change of its permissions (download.rs:275-277, 649-678).               *)
(***************************************************************************)
JobSetsExecutable == pc = "save" /\ sound /\ Unfiltered => Executable(manifest, dir)

(***************************************************************************)
(* JobRemoves: ... and has removed every file that only the previous       *)
(* manifest has ("Delete files that existed in the previous manifest but   *)
(* not in the new one", download.rs:304).                                  *)
(***************************************************************************)
JobRemoves ==
    pc = "save" /\ config[depot] \in cached /\ config[depot] # manifest =>
        \A f \in DOMAIN Tree[config[depot]] \ NewFiles : disk[dir][f] = None

(***************************************************************************)
(* UpToDateIsTrue: when run_download answers "Depot ... already up to      *)
(* date" (main.rs:750-752), the directory the request is about has every   *)
(* file of the manifest: what depot.json says ("Tracks which manifest ID   *)
(* is currently installed per depot", manifest.rs:124) has stayed true.    *)
(* (Not so where a last write may land "late": the record is written       *)
(* without waiting for it, and process::exit may cut it off.)              *)
(***************************************************************************)
UpToDateIsTrue == pc = "decide" /\ IsUpToDate => Complete(manifest, dir)

(***************************************************************************)
(* Converges: once the faults are over, running the program again and      *)
(* again for the same request leaves the manifest recorded and complete,   *)
(* for good.                                                               *)
(***************************************************************************)
Converges ==
    \A r \in Requests : <>[](\A i \in DOMAIN r.order :
        LET d == r.order[i]
        IN  config[d] = r.want[d] /\ Complete(r.want[d], InstallDir(d, r.build)))

-----------------------------------------------------------------------------
(* The inductive invariant behind JobCompletes.                            *)

\* a task that is to set permissions has its file; none runs after the wait;
\* what was replaced is there
EndedInv ==
    /\ \A f \in DOMAIN work :
          /\ work[f] = "chmod" => path_exists(f)
          /\ pc \in {"delete", "save"} => Ended(f)
    /\ \A p \in Dirs, f \in Files : <<p, f>> \in fresh => disk[p][f] # None
    /\ "late" \notin Faults => fresh = {}

IsFile(m, f) == f \in DOMAIN Tree[m] /\ ~Tree[m][f].dir

HasContent(m, p, f) == disk[p][f] # None /\ disk[p][f].data = Tree[m][f].data

\* the records name manifests of the depot they are about
RecordInv ==
    /\ \A d \in Depots : config[d] \in ManifestsOf(d) \cup {None}
    /\ prev # None => pc \in {"files", "delete", "save", "failed"} /\ prev \in ManifestsOf(depot)

\* a file that all the manifests of holds[<<d, p>>] have comes from one of them
FromHolds(d, p) ==
    Mixed \notin holds[<<d, p>>] =>
        \A f \in FilesOf(d) :
            (\A m \in holds[<<d, p>>] : IsFile(m, f)) /\ disk[p][f] # None =>
                \E m \in holds[<<d, p>>] : HasContent(m, p, f)

HoldsInv == \A d \in Depots, b \in Builds : FromHolds(d, InstallDir(d, b))

\* what the job relies on is in holds, and what it has done is on the disk
JobInv ==
    \A f \in DOMAIN work :
        /\ manifest \in holds[<<depot, dir>>]
        /\ ~sound => Mixed \in holds[<<depot, dir>>]
        /\ sound /\ prev # None => holds[<<depot, dir>>] \subseteq {prev, manifest}
        /\ work[f] \in {"download", "chmod"} => IsFile(manifest, f)
        /\ sound /\ prev # None /\ work[f] = "download" => <<dir, f>> \notin fresh
        /\ sound /\ IsFile(manifest, f)
             /\ (work[f] \in {"chmod", "done"} \/ (work[f] = "skipped" /\ f \in req.filter))
           => HasContent(manifest, dir, f)

\* the files of the manifest are the job's, those it deletes are not
TaskInv ==
    /\ pc \in {"files", "delete", "save"} => DOMAIN work = NewFiles
    /\ pc = "delete" => doomed \subseteq FilesOf(depot) \ NewFiles

IInv == TypeOK /\ EndedInv /\ RecordInv /\ HoldsInv /\ JobInv /\ TaskInv
=============================================================================
