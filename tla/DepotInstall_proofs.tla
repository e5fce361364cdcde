------------------------ MODULE DepotInstall_proofs ------------------------
(***************************************************************************)
(* Proofs about DepotInstall, for any depots, manifests, requests and      *)
(* faults.                                                                 *)
(***************************************************************************)
EXTENDS DepotInstall, TLAPS

-----------------------------------------------------------------------------
(* Types.                                                                  *)

\* The depot a run is at, with its manifest and its directory.
LEMMA JobType ==
    ASSUME TypeOK, pc # "idle", at <= Len(req.order)
    PROVE  /\ req \in Requests /\ req \in Request
           /\ depot \in Depots /\ manifest \in Manifests
           /\ req.build \in Builds /\ dir \in Dirs
           /\ NewFiles \subseteq Files /\ Tree[manifest] \in [NewFiles -> Entry]
  <1>1. req \in Requests /\ req \in Request
    BY RequestAssumption DEF TypeOK
  <1>2. depot \in Depots
    <2>1. req.order \in Seq(Depots) /\ at \in 1 .. Len(req.order)
      BY <1>1 DEF TypeOK, Request
    <2>2. QED
      BY <2>1 DEF depot
  <1>3. manifest \in Manifests
    BY <1>1, <1>2 DEF Request, manifest
  <1>4. req.build \in Builds
    BY <1>1 DEF Request
  <1>5. QED
    BY <1>1, <1>2, <1>3, <1>4, TreeAssumption DEF dir, Dirs, NewFiles

\* One more fault is within the bound.
LEMMA FaultType ==
    ASSUME TypeOK, NEW kind, Fault(kind)
    PROVE  faults' \in 0 .. MaxFaults
  BY BoundAssumption DEF TypeOK, Fault, CanFault

\* Before the first run.
LEMMA TypeInit == Init => TypeOK
  <1> SUFFICES ASSUME Init PROVE TypeOK
    OBVIOUS
  <1>1. disk \in [Dirs -> [Files -> OnDisk \cup {None}]]
    BY DEF Init
  <1>2. holds \in [Depots \X Dirs -> SUBSET (Manifests \cup {Mixed})]
    BY DEF Init
  <1>3. config \in [Depots -> Manifests \cup {None}] /\ faults \in 0 .. MaxFaults
    BY BoundAssumption DEF Init
  <1>4. /\ pc = "idle" /\ req = None /\ at = 1 /\ prev = None
        /\ work = <<>> /\ doomed = {} /\ fresh = {} /\ cached = {}
    BY DEF Init
  <1>5. sound \in BOOLEAN
    BY DEF Init
  <1>6. QED
    BY <1>1, <1>2, <1>3, <1>4, <1>5 DEF TypeOK

\* A step of a file's task.
LEMMA FileStepType ==
    ASSUME TypeOK, EndedInv, NEW f \in DOMAIN work, FileStep(f)
    PROVE  TypeOK' /\ EndedInv'
  <1>1. /\ pc \in {"files", "delete", "save", "failed"} /\ at <= Len(req.order)
        /\ work \in [NewFiles -> {"skipped", "download", "chmod", "done", "failed"}]
        /\ f \in NewFiles
    BY DEF TypeOK
  <1>2. UNCHANGED <<config, cached, pc, req, at, prev, doomed, holds, sound>>
    BY DEF FileStep, FileDownloaded, FileFails, set_executable_if_needed, hist
  <1>f. /\ fresh' \subseteq fresh \cup {<<dir, f>>} /\ (fresh' \subseteq fresh \/ FileDownloaded(f))
        /\ "late" \notin Faults => fresh' \subseteq fresh
    BY DEF FileStep, FileDownloaded, Replace, FileFails, set_executable_if_needed
  <1>3. /\ dir \in Dirs /\ NewFiles \subseteq Files /\ f \in Files
        /\ Tree[manifest][f] \in Entry
    BY <1>1, JobType
  <1>4. NewFiles' = NewFiles /\ dir' = dir
    BY <1>2 DEF NewFiles, manifest, depot, dir
  <1>5. work' \in [NewFiles -> {"skipped", "download", "chmod", "done", "failed"}]
    BY <1>1 DEF FileStep, FileDownloaded, FileFails, set_executable_if_needed
  <1>6. disk' \in [Dirs -> [Files -> OnDisk \cup {None}]]
    <2>1. CASE FileDownloaded(f)
      <3>1. \A new \in Results(f) : [data |-> new, exec |-> FALSE] \in OnDisk
        BY <1>3 DEF Results, OnDisk, Entry
      <3>2. QED
        <4>1. disk \in [Dirs -> [Files -> OnDisk \cup {None}]]
          BY DEF TypeOK
        <4>2. disk' = disk \/ Replace(f)
          BY <2>1 DEF FileDownloaded
        <4>3. QED
          BY <1>3, <3>1, <4>1, <4>2 DEF Replace
    <2>2. CASE FileFails(f)
      BY <2>2 DEF FileFails, TypeOK
    <2>3. CASE set_executable_if_needed(f)
      <3>1. disk[dir][f] \in OnDisk
        BY <1>3, <2>3 DEF EndedInv, path_exists, set_executable_if_needed, TypeOK
      <3>2. \A b \in BOOLEAN : [disk[dir][f] EXCEPT !.exec = b] \in OnDisk
        BY <3>1 DEF OnDisk
      <3>3. (disk[dir][f].exec \/ Tree[manifest][f].exec) \in BOOLEAN
        OBVIOUS
      <3>4. PICK b \in BOOLEAN : \/ disk' = disk
                                \/ disk' = [disk EXCEPT ![dir][f].exec = b]
        BY <2>3, <3>3 DEF set_executable_if_needed
      <3>5. [disk EXCEPT ![dir][f].exec = b]
              = [disk EXCEPT ![dir][f] = [disk[dir][f] EXCEPT !.exec = b]]
        OBVIOUS
      <3>6. [disk EXCEPT ![dir][f] = [disk[dir][f] EXCEPT !.exec = b]]
              \in [Dirs -> [Files -> OnDisk \cup {None}]]
        BY <1>3, <3>2 DEF TypeOK
      <3>7. QED
        BY <3>4, <3>5, <3>6 DEF TypeOK
    <2>4. QED
      BY <2>1, <2>2, <2>3 DEF FileStep
  <1>7. faults' \in 0 .. MaxFaults
    BY FaultType DEF FileStep, FileDownloaded, FileFails, set_executable_if_needed, TypeOK
  <1>8. TypeOK'
    <2>1. fresh' \subseteq Dirs \X Files
      BY <1>3, <1>f DEF TypeOK
    <2>2. QED
      BY <1>1, <1>2, <1>4, <1>5, <1>6, <1>7, <2>1 DEF TypeOK
  \* no file goes
  <1>k. \A p \in Dirs, g \in Files : disk[p][g] # None => disk'[p][g] # None
    <2>1. CASE FileDownloaded(f)
      <3>1. \A new \in Results(f) : [data |-> new, exec |-> FALSE] # None
        <4>1. Results(f) \subseteq Contents \cup {Mixed}
          BY <1>3 DEF Results, Entry
        <4>2. \A new \in Results(f) : [data |-> new, exec |-> FALSE] \in OnDisk
          BY <4>1 DEF OnDisk
        <4>3. QED
          BY <4>2, NamesAssumption
      <3>2. QED
        <4>1. disk \in [Dirs -> [Files -> OnDisk \cup {None}]]
          BY DEF TypeOK
        <4>2. disk' = disk \/ Replace(f)
          BY <2>1 DEF FileDownloaded
        <4>3. QED
          BY <1>3, <3>1, <4>1, <4>2 DEF Replace
    <2>2. CASE FileFails(f)
      BY <2>2 DEF FileFails
    <2>3. CASE set_executable_if_needed(f)
      <3>1. disk[dir][f] \in OnDisk /\ disk \in [Dirs -> [Files -> OnDisk \cup {None}]]
        BY <1>3, <2>3 DEF EndedInv, path_exists, set_executable_if_needed, TypeOK
      <3>2. (disk[dir][f].exec \/ Tree[manifest][f].exec) \in BOOLEAN
        OBVIOUS
      <3>3. PICK b \in BOOLEAN : \/ disk' = disk
                                \/ disk' = [disk EXCEPT ![dir][f].exec = b]
        BY <2>3, <3>2 DEF set_executable_if_needed
      <3>4. [disk[dir][f] EXCEPT !.exec = b] # None
        BY <3>1, NamesAssumption DEF OnDisk
      <3>5. QED
        BY <1>3, <3>1, <3>3, <3>4
    <2>4. QED
      BY <2>1, <2>2, <2>3 DEF FileStep
  <1>d. FileDownloaded(f) => disk'[dir][f] # None
    <2>1. \A new \in Results(f) : [data |-> new, exec |-> FALSE] # None
      <3>1. Results(f) \subseteq Contents \cup {Mixed}
        BY <1>3 DEF Results, Entry
      <3>2. \A new \in Results(f) : [data |-> new, exec |-> FALSE] \in OnDisk
        BY <3>1 DEF OnDisk
      <3>3. QED
        BY <3>2, NamesAssumption
    <2>2. QED
      BY <1>3, <2>1 DEF FileDownloaded, FoundRight, path_exists, Replace, TypeOK
  <1>9. EndedInv'
    <2>a. \A p \in Dirs, g \in Files : <<p, g>> \in fresh' => disk'[p][g] # None
      <3> SUFFICES ASSUME NEW p \in Dirs, NEW g \in Files, <<p, g>> \in fresh'
                   PROVE  disk'[p][g] # None
        OBVIOUS
      <3>1. CASE <<p, g>> \in fresh
        BY <1>k, <3>1 DEF EndedInv
      <3>2. CASE <<p, g>> \notin fresh
        BY <1>d, <1>f, <3>2
      <3>3. QED
        BY <3>1, <3>2
    <2> SUFFICES ASSUME NEW g \in NewFiles
                 PROVE  /\ work'[g] = "chmod" => disk'[dir][g] # None
                        /\ pc \in {"delete", "save"} => work'[g] \in {"skipped", "done"}
      BY <1>2, <1>4, <1>5, <1>f, <2>a DEF EndedInv, path_exists, Ended
    <2>1. g \in Files /\ work[g] \in {"skipped", "download", "chmod", "done", "failed"}
      BY <1>1, <1>3
    <2>2. /\ work[g] = "chmod" => disk[dir][g] # None
          /\ pc \in {"delete", "save"} => work[g] \in {"skipped", "done"}
          /\ pc \in {"delete", "save"} => work[f] \in {"skipped", "done"}
      BY <1>1 DEF EndedInv, path_exists, Ended
    <2>3. CASE FileDownloaded(f)
      BY <1>1, <1>3, <1>d, <1>k, <2>1, <2>2, <2>3 DEF FileDownloaded
    <2>4. CASE FileFails(f)
      BY <1>1, <2>2, <2>4 DEF FileFails
    <2>5. CASE set_executable_if_needed(f)
      BY <1>1, <1>3, <1>k, <2>1, <2>2, <2>5 DEF set_executable_if_needed
    <2>6. QED
      BY <2>3, <2>4, <2>5 DEF FileStep
  <1>10. QED
    BY <1>8, <1>9

\* Steps after which no task of a job is left.
LEMMA NoWorkType ==
    ASSUME TypeOK, EndedInv, UNCHANGED <<disk, holds, sound>>, work' = <<>>, fresh' \subseteq fresh,
           config' \in [Depots -> Manifests \cup {None}], cached' \subseteq Manifests,
           pc' \in {"idle", "depot", "decide", "failed"},
           req' \in Requests \cup {None}, req' = None <=> pc' = "idle",
           at' \in Nat \ {0}, pc' = "decide" => at' <= Len(req'.order),
           prev' \in Manifests \cup {None}, doomed' \subseteq Files,
           faults' \in 0 .. MaxFaults
    PROVE  TypeOK' /\ EndedInv'
  <1>1. DOMAIN work' = {}
    OBVIOUS
  <1>2. EndedInv'
    BY <1>1 DEF EndedInv
  <1>3. fresh' \subseteq Dirs \X Files
    BY DEF TypeOK
  <1>4. QED
    BY <1>1, <1>2, <1>3 DEF TypeOK

\* What the end of a process leaves: the files that were there, with their
\* permissions; where content is lost, the depot's holds says so.
LEMMA GoneFacts ==
    ASSUME TypeOK, EndedInv, ProcessGone
    PROVE  /\ disk' \in [Dirs -> [Files -> OnDisk \cup {None}]]
           /\ holds' \in [Depots \X Dirs -> SUBSET (Manifests \cup {Mixed})]
           /\ \A p \in Dirs, f \in Files :
                 \/ disk'[p][f] = disk[p][f]
                 \/ disk[p][f] # None /\ disk'[p][f] # None /\ disk'[p][f].exec = disk[p][f].exec
           /\ \A d \in Depots, p \in Dirs :
                 \/ Mixed \in holds'[<<d, p>>]
                 \/ /\ holds'[<<d, p>>] = holds[<<d, p>>]
                    /\ \A f \in FilesOf(d) \cap Files : disk'[p][f] = disk[p][f]
           /\ \A dp \in Depots \X Dirs : holds[dp] \subseteq holds'[dp]
  <1>1. PICK lost \in SUBSET fresh : CutOff(lost)
    BY DEF ProcessGone
  <1>2. lost \subseteq fresh
    BY <1>1
  <1>3. /\ disk' = [p \in Dirs |-> [f \in Files |->
              IF <<p, f>> \in lost THEN [disk[p][f] EXCEPT !.data = Mixed] ELSE disk[p][f]]]
        /\ holds' = [dp \in Depots \X Dirs |->
              holds[dp] \cup IF \E f \in FilesOf(dp[1]) : <<dp[2], f>> \in lost
                            THEN {Mixed} ELSE {}]
    BY <1>1 DEF CutOff
  <1>4. ASSUME NEW p \in Dirs, NEW f \in Files
        PROVE  /\ disk'[p][f] \in OnDisk \cup {None}
               /\ \/ disk'[p][f] = disk[p][f]
                  \/ disk[p][f] # None /\ disk'[p][f] # None /\ disk'[p][f].exec = disk[p][f].exec
    <2>1. disk[p][f] \in OnDisk \cup {None}
      BY DEF TypeOK
    <2>2. CASE <<p, f>> \notin lost
      BY <1>3, <2>1, <2>2
    <2>3. CASE <<p, f>> \in lost
      <3>1. disk[p][f] \in OnDisk /\ disk[p][f] # None
        BY <1>2, <2>1, <2>3 DEF EndedInv
      <3>2. /\ [disk[p][f] EXCEPT !.data = Mixed] \in OnDisk
            /\ [disk[p][f] EXCEPT !.data = Mixed].exec = disk[p][f].exec
        BY <3>1 DEF OnDisk
      <3>3. disk'[p][f] = [disk[p][f] EXCEPT !.data = Mixed]
        BY <1>3, <2>3
      <3>4. QED
        BY <3>1, <3>2, <3>3, NamesAssumption
    <2>4. QED
      BY <2>2, <2>3
  <1>5. disk' \in [Dirs -> [Files -> OnDisk \cup {None}]]
    BY <1>3, <1>4
  <1>6. /\ holds' \in [Depots \X Dirs -> SUBSET (Manifests \cup {Mixed})]
        /\ \A dp \in Depots \X Dirs : holds[dp] \subseteq holds'[dp]
    BY <1>3 DEF TypeOK
  <1>7. ASSUME NEW d \in Depots, NEW p \in Dirs
        PROVE  \/ Mixed \in holds'[<<d, p>>]
               \/ /\ holds'[<<d, p>>] = holds[<<d, p>>]
                  /\ \A f \in FilesOf(d) \cap Files : disk'[p][f] = disk[p][f]
    <2>1. holds'[<<d, p>>] = holds[<<d, p>>] \cup IF \E f \in FilesOf(d) : <<p, f>> \in lost
                                                 THEN {Mixed} ELSE {}
      BY <1>3
    <2>2. CASE \E f \in FilesOf(d) : <<p, f>> \in lost
      BY <2>1, <2>2
    <2>3. CASE \A f \in FilesOf(d) : <<p, f>> \notin lost
      BY <1>3, <2>1, <2>3
    <2>4. QED
      BY <2>2, <2>3
  <1>8. QED
    BY <1>4, <1>5, <1>6, <1>7

\* The end of a process keeps the types.
LEMMA GoneType ==
    ASSUME TypeOK, EndedInv, ProcessGone, UNCHANGED <<cached, sound>>,
           config' \in [Depots -> Manifests \cup {None}], faults' \in 0 .. MaxFaults
    PROVE  TypeOK' /\ EndedInv'
  <1>1. /\ disk' \in [Dirs -> [Files -> OnDisk \cup {None}]]
        /\ holds' \in [Depots \X Dirs -> SUBSET (Manifests \cup {Mixed})]
    BY GoneFacts
  <1>2. /\ pc' = "idle" /\ req' = None /\ at' = 1
        /\ prev' = None /\ work' = <<>> /\ doomed' = {} /\ fresh' = {}
    BY DEF ProcessGone
  <1>3. EndedInv'
    BY <1>2 DEF EndedInv
  <1>4. QED
    BY <1>1, <1>2, <1>3 DEF TypeOK

\* a file's last write lands before its rename
WritesLand == "late" \notin Faults

\* Where no write is late, the end of a process leaves the disk alone.
LEMMA NoneLost ==
    ASSUME TypeOK, EndedInv, ProcessGone, WritesLand
    PROVE  UNCHANGED <<disk, holds>>
  <1>1. CutOff({})
    <2>1. fresh = {} /\ \E lost \in SUBSET fresh : CutOff(lost)
      BY DEF ProcessGone, EndedInv, WritesLand
    <2>2. QED
      BY <2>1, Zenon
  <1>2. disk' = [p \in Dirs |-> [f \in Files |-> disk[p][f]]]
    BY <1>1 DEF CutOff
  <1>3. holds' = [dp \in Depots \X Dirs |-> holds[dp]]
    BY <1>1 DEF CutOff
  <1>4. QED
    BY <1>2, <1>3 DEF TypeOK

\* What is recorded after a job.
LEMMA SavedType ==
    ASSUME TypeOK, pc = "save", SaveConfig \/ SaveFails
    PROVE  config' \in [Depots -> Manifests \cup {None}]
  <1>1. depot \in Depots /\ manifest \in Manifests
    BY JobType DEF TypeOK
  <1>2. QED
    BY <1>1 DEF SaveConfig, SaveFails, Recorded, AfterFailedSave, NoConfig, TypeOK

\* What StartJob is given as the previous manifest.
LEMMA PreviousType == ASSUME TypeOK, depot \in Depots PROVE PreviousManifest \in Manifests \cup {None}
  BY DEF TypeOK, PreviousManifest

\* Every step keeps the types.
LEMMA TypeStep == TypeOK /\ EndedInv /\ [Next]_vars => TypeOK' /\ EndedInv'
  <1> SUFFICES ASSUME TypeOK, EndedInv, [Next]_vars PROVE TypeOK' /\ EndedInv'
    OBVIOUS
  <1>a. pc \in {"idle", "depot", "decide"} => work = <<>>
    BY DEF TypeOK
  <1>1. ASSUME NEW r \in Requests, StartRun(r) PROVE TypeOK' /\ EndedInv'
    BY <1>a, <1>1, NoWorkType, NamesAssumption DEF StartRun, TypeOK, hist
  <1>2. CASE GetManifest
    <2>1. manifest \in Manifests
      BY <1>2, JobType DEF GetManifest
    <2>2. cached' \subseteq Manifests /\ faults' \in 0 .. MaxFaults
      BY <1>2, <2>1, FaultType DEF GetManifest, TypeOK
    <2>3. QED
      BY <1>a, <1>2, <2>2, NoWorkType DEF GetManifest, TypeOK, hist
  <1>3. CASE UpToDate
    BY <1>3, NoWorkType DEF UpToDate, NextDepot, TypeOK, hist
  <1>4. CASE StartJob
    <2>1. depot \in Depots /\ manifest \in Manifests /\ at <= Len(req.order)
      BY <1>4, JobType DEF StartJob, TypeOK
    <2>2. prev' \in Manifests \cup {None}
      BY <1>4, <2>1, PreviousType DEF StartJob
    <2>3. work' \in [NewFiles -> {"skipped", "download"}]
      BY <1>4 DEF StartJob
    <2>4. sound' \in BOOLEAN
      BY <1>4 DEF StartJob
    <2>5. holds' \in [Depots \X Dirs -> SUBSET (Manifests \cup {Mixed})]
      BY <1>4, <2>1 DEF StartJob, TypeOK
    <2>6. NewFiles' = NewFiles
      BY <1>4 DEF StartJob, NewFiles, manifest, depot
    <2>7. EndedInv'
      BY <1>4, <2>3 DEF StartJob, EndedInv
    <2>8. QED
      BY <1>4, <2>1, <2>2, <2>3, <2>4, <2>5, <2>6, <2>7 DEF StartJob, TypeOK
  <1>5. CASE AwaitFails
    BY <1>5 DEF AwaitFails, TypeOK, EndedInv, NewFiles, manifest, depot, path_exists, dir, hist
  <1>6. CASE AwaitAll
    <2>1. manifest \in Manifests /\ at <= Len(req.order)
      BY <1>6, JobType DEF AwaitAll, TypeOK
    <2>2. doomed' \subseteq Files
      BY <1>6, TreeAssumption DEF AwaitAll, Removed, PrevFiles, TypeOK
    <2>3. TypeOK'
      BY <1>6, <2>1, <2>2 DEF AwaitAll, TypeOK, NewFiles, manifest, depot, hist
    <2>4. EndedInv'
      BY <1>6 DEF AwaitAll, EndedInv, path_exists, dir, depot, Ended, hist
    <2>5. QED
      BY <2>3, <2>4
  <1>7. CASE DeleteFile
    <2>1. dir \in Dirs /\ at <= Len(req.order)
      BY <1>7, JobType DEF DeleteFile, TypeOK
    <2>2. disk' \in [Dirs -> [Files -> OnDisk \cup {None}]]
      <3>1. PICK f \in doomed : disk' = disk \/ disk' = [disk EXCEPT ![dir][f] = None]
        BY <1>7 DEF DeleteFile
      <3>2. f \in Files /\ disk \in [Dirs -> [Files -> OnDisk \cup {None}]]
        BY DEF TypeOK
      <3>3. [disk EXCEPT ![dir][f] = None] \in [Dirs -> [Files -> OnDisk \cup {None}]]
        BY <2>1, <3>2
      <3>4. QED
        BY <3>1, <3>2, <3>3
    <2>3. doomed' \subseteq Files /\ faults' \in 0 .. MaxFaults
      BY <1>7, FaultType DEF DeleteFile, TypeOK
    <2>4. TypeOK'
      BY <1>7, <2>1, <2>2, <2>3 DEF DeleteFile, TypeOK, NewFiles, manifest, depot, hist
    <2>5. EndedInv'
      <3>1. DOMAIN work' = DOMAIN work /\ \A f \in DOMAIN work : work'[f] # "chmod" /\ Ended(f)'
        BY <1>7 DEF DeleteFile, EndedInv, Ended
      <3>2. \A p \in Dirs, f \in Files : <<p, f>> \in fresh' => disk'[p][f] # None
        <4>1. PICK f \in doomed : \/ disk' = disk /\ fresh' = fresh
                                 \/ /\ disk' = [disk EXCEPT ![dir][f] = None]
                                    /\ fresh' = fresh \ {<<dir, f>>}
          BY <1>7 DEF DeleteFile
        <4>2. f \in Files /\ disk \in [Dirs -> [Files -> OnDisk \cup {None}]]
          BY DEF TypeOK
        <4>3. QED
          BY <2>1, <4>1, <4>2 DEF EndedInv
      <3>3. fresh' \subseteq fresh
        BY <1>7 DEF DeleteFile
      <3>4. QED
        BY <3>1, <3>2, <3>3 DEF EndedInv
    <2>6. QED
      BY <2>4, <2>5
  <1>8. CASE EndJob
    <2>1. at <= Len(req.order) /\ manifest \in Manifests
      BY <1>8, JobType DEF EndJob, TypeOK
    <2>2. holds' \in [Depots \X Dirs -> SUBSET (Manifests \cup {Mixed})]
      BY <1>8, <2>1 DEF EndJob, TypeOK
    <2>3. TypeOK'
      BY <1>8, <2>1, <2>2 DEF EndJob, TypeOK, NewFiles, manifest, depot
    <2>4. EndedInv'
      BY <1>8 DEF EndJob, EndedInv, path_exists, dir, depot, Ended
    <2>5. QED
      BY <2>3, <2>4
  <1>9. CASE SaveConfig
    BY <1>9, SavedType, NoWorkType DEF SaveConfig, NextDepot, TypeOK, hist
  <1>10. CASE SaveFails
    BY <1>10, SavedType, FaultType, NoWorkType DEF SaveFails, NextDepot, TypeOK, hist
  <1>11. CASE EndRun
    BY <1>a, <1>11, NoWorkType DEF EndRun, TypeOK, hist
  <1>12. CASE ExitFailed
    BY <1>12, GoneType DEF ExitFailed, TypeOK
  <1>13. CASE Crash
    <2>1. config' \in [Depots -> Manifests \cup {None}]
      BY <1>13 DEF Crash, AfterFailedSave, NoConfig, TypeOK
    <2>2. QED
      BY <1>13, <2>1, FaultType, GoneType DEF Crash
  <1>14. CASE NetworkFails
    BY <1>a, <1>14, FaultType, NoWorkType DEF NetworkFails, TypeOK, hist
  <1>15. CASE UNCHANGED vars
    BY <1>15 DEF vars, run, hist, TypeOK, EndedInv, NewFiles, manifest, depot, dir, path_exists, Ended
  <1>16. QED
    BY <1>1, <1>2, <1>3, <1>4, <1>5, <1>6, <1>7, <1>8, <1>9, <1>10, <1>11, <1>12, <1>13, <1>14,
       <1>15, FileStepType DEF Next, RunStep

(***************************************************************************)
(* TypeCorrect: the types of TypeOK hold in every reachable state, through *)
(* any sequence of runs, faults and crashes; in particular permissions are *)
(* only ever set on a file that is there (download.rs:275-277).            *)
(***************************************************************************)
THEOREM TypeCorrect == Spec => []TypeOK
  <1>1. Init => TypeOK /\ EndedInv
    BY TypeInit DEF Init, EndedInv
  <1>2. QED
    BY <1>1, TypeStep, PTL DEF Spec

-----------------------------------------------------------------------------
(* What a job leaves on the disk.                                          *)

\* depots that share a directory have files of their own
OwnFiles ==
    CustomOutput => \A d, e \in Depots : d # e => FilesOf(d) \cap FilesOf(e) = {}

\* no hash is that of a directory and of a file of the same name
DirectoriesDiffer ==
    \A m, n \in Manifests : \A f \in DOMAIN Tree[m] \cap DOMAIN Tree[n] :
        Tree[m][f].dir /\ Tree[m][f].hashed /\ ~Tree[n][f].dir
            => Tree[m][f].data # Tree[n][f].data

\* The invariant without what TypeStep has settled.
ContentInv == RecordInv /\ HoldsInv /\ JobInv /\ TaskInv

TypeInv == TypeOK /\ EndedInv

\* The invariant in the two parts that are proved one after the other.
LEMMA IInvParts == IInv <=> TypeInv /\ ContentInv
  BY DEF IInv, TypeInv, ContentInv

\* The files a job writes are its depot's.
LEMMA OwnManifest ==
    ASSUME TypeOK, pc # "idle", at <= Len(req.order)
    PROVE  manifest \in ManifestsOf(depot) /\ NewFiles \subseteq FilesOf(depot)
  <1>1. req \in Requests
    BY JobType
  <1>2. manifest \in ManifestsOf(depot)
    BY <1>1 DEF ManifestsOf, manifest
  <1>3. QED
    BY <1>2 DEF FilesOf, NewFiles

\* A job's files with a task are at hand.
LEMMA WorkType ==
    ASSUME TypeOK, NEW f \in DOMAIN work
    PROVE  /\ pc \in {"files", "delete", "save", "failed"} /\ at <= Len(req.order)
           /\ DOMAIN work = NewFiles
           /\ work \in [NewFiles -> {"skipped", "download", "chmod", "done", "failed"}]
  BY DEF TypeOK

\* What holds says of a depot's directory stays true while its files keep
\* their content or go.
LEMMA FromHoldsKept ==
    ASSUME NEW d, NEW p, FromHolds(d, p), holds'[<<d, p>>] = holds[<<d, p>>],
           \A f \in FilesOf(d) :
              \/ disk'[p][f] = disk[p][f]
              \/ disk'[p][f] = None
              \/ disk[p][f] # None /\ disk'[p][f].data = disk[p][f].data
    PROVE  FromHolds(d, p)'
  BY DEF FromHolds, HasContent

\* A depot's write is in no other depot's directory, or not to its files.
LEMMA OthersKept ==
    ASSUME TypeOK, OwnFiles, pc # "idle", at <= Len(req.order), NEW g \in FilesOf(depot),
           \A p \in Dirs, f \in Files : p # dir \/ f # g => disk'[p][f] = disk[p][f],
           NEW d \in Depots, NEW b \in Builds, <<d, InstallDir(d, b)>> # <<depot, dir>>,
           NEW f \in FilesOf(d)
    PROVE  disk'[InstallDir(d, b)][f] = disk[InstallDir(d, b)][f]
  <1>1. InstallDir(d, b) \in Dirs /\ depot \in Depots
    BY JobType DEF Dirs
  <1>2. f \in Files
    <2>1. PICK r \in Requests : f \in DOMAIN Tree[r.want[d]]
      BY DEF FilesOf, ManifestsOf
    <2>2. r.want[d] \in Manifests
      BY <2>1, RequestAssumption DEF Request
    <2>3. QED
      BY <2>1, <2>2, TreeAssumption
  <1>3. CASE d = depot
    BY <1>1, <1>2, <1>3
  <1>4. CASE d # depot /\ CustomOutput
    BY <1>1, <1>2, <1>4 DEF OwnFiles
  <1>5. CASE d # depot /\ ~CustomOutput
    BY <1>1, <1>2, <1>5 DEF InstallDir, dir
  <1>6. QED
    BY <1>3, <1>4, <1>5

\* A sound job copies chunks only from the version it was told of.
LEMMA SoundResult ==
    ASSUME IInv, NEW f \in DOMAIN work, work[f] = "download", sound,
           FoundWrong(f), NEW new \in Results(f)
    PROVE  new = Tree[manifest][f].data
  <1>a. prev # None => <<dir, f>> \notin fresh
    BY DEF IInv, JobInv
  <1>b. OldData(f) # None => prev # None
    BY DEF OldData, PrevFiles
  <1> SUFFICES ASSUME OldData(f) # None, path_exists(f), disk[dir][f].data # OldData(f)
               PROVE  FALSE
    BY <1>a, <1>b DEF Results
  <1>1. pc # "idle" /\ at <= Len(req.order) /\ f \in NewFiles
    BY WorkType DEF IInv
  <1>2. depot \in Depots /\ req.build \in Builds /\ manifest \in Manifests /\ f \in FilesOf(depot)
    BY <1>1, JobType, OwnManifest DEF IInv
  <1>3. /\ prev # None /\ prev \in Manifests /\ IsFile(prev, f)
        /\ OldData(f) = Tree[prev][f].data
    BY DEF OldData, PrevFiles, IsFile, IInv, TypeOK
  <1>4. IsFile(manifest, f) /\ holds[<<depot, dir>>] \subseteq {prev, manifest}
    BY <1>3 DEF IInv, JobInv
  <1>5. Mixed \notin holds[<<depot, dir>>]
    BY <1>2, <1>3, <1>4, NamesAssumption
  <1>6. FromHolds(depot, dir)
    BY <1>2 DEF IInv, HoldsInv, dir
  <1>7. PICK m \in holds[<<depot, dir>>] : HasContent(m, dir, f)
    BY <1>2, <1>3, <1>4, <1>5, <1>6 DEF FromHolds, path_exists
  <1>8. QED
    BY <1>a, <1>3, <1>4, <1>7 DEF HasContent, path_exists, FoundWrong, FoundRight

-----------------------------------------------------------------------------
(* The invariant is kept, action by action.                                *)

\* Steps after which no task of a job is left.
LEMMA NoWorkStep ==
    ASSUME IInv, UNCHANGED <<disk, holds>>, work' = <<>>, prev' = None,
           pc' \in {"idle", "depot", "decide", "failed"},
           \A d \in Depots : config'[d] \in ManifestsOf(d) \cup {None}
    PROVE  ContentInv'
  <1>1. DOMAIN work' = {}
    OBVIOUS
  <1>2. HoldsInv'
    BY DEF IInv, HoldsInv, FromHolds, HasContent
  <1>3. QED
    BY <1>1, <1>2 DEF ContentInv, RecordInv, JobInv, TaskInv

\* The end of a process: what it cuts off, holds tells.
LEMMA GoneStep ==
    ASSUME IInv, ProcessGone, \A d \in Depots : config'[d] \in ManifestsOf(d) \cup {None}
    PROVE  ContentInv'
  <1>1. pc' = "idle" /\ prev' = None /\ DOMAIN work' = {}
    BY DEF ProcessGone
  <1>2. HoldsInv'
    <2> SUFFICES ASSUME NEW d \in Depots, NEW b \in Builds
                 PROVE  FromHolds(d, InstallDir(d, b))'
      BY DEF HoldsInv
    <2>1. FromHolds(d, InstallDir(d, b)) /\ InstallDir(d, b) \in Dirs
      BY DEF IInv, HoldsInv, Dirs
    <2>2. \A f \in FilesOf(d) : f \in Files
      BY TreeAssumption, RequestAssumption DEF FilesOf, ManifestsOf, Request
    <2>3. \/ Mixed \in holds'[<<d, InstallDir(d, b)>>]
          \/ /\ holds'[<<d, InstallDir(d, b)>>] = holds[<<d, InstallDir(d, b)>>]
             /\ \A f \in FilesOf(d) : disk'[InstallDir(d, b)][f] = disk[InstallDir(d, b)][f]
      BY <2>1, <2>2, GoneFacts DEF IInv
    <2>4. CASE Mixed \in holds'[<<d, InstallDir(d, b)>>]
      BY <2>4 DEF FromHolds
    <2>5. CASE /\ holds'[<<d, InstallDir(d, b)>>] = holds[<<d, InstallDir(d, b)>>]
               /\ \A f \in FilesOf(d) : disk'[InstallDir(d, b)][f] = disk[InstallDir(d, b)][f]
      BY <2>1, <2>5, FromHoldsKept
    <2>6. QED
      BY <2>3, <2>4, <2>5
  <1>3. QED
    BY <1>1, <1>2 DEF ContentInv, RecordInv, JobInv, TaskInv

\* Steps that only say where the run is.
LEMMA QuietStep ==
    ASSUME IInv, UNCHANGED <<disk, config, req, at, prev, work, fresh, hist>>,
           pc' \in {"files", "delete", "save", "failed"},
           pc' \in {"files", "delete", "save"} => DOMAIN work = NewFiles,
           pc' = "delete" => doomed' \subseteq FilesOf(depot) \ NewFiles
    PROVE  ContentInv'
  <1>1. depot' = depot /\ manifest' = manifest /\ dir' = dir /\ NewFiles' = NewFiles
    BY DEF depot, manifest, dir, NewFiles
  <1>2. HoldsInv' /\ JobInv'
    BY <1>1 DEF IInv, HoldsInv, FromHolds, JobInv, HasContent, hist
  <1>3. RecordInv' /\ TaskInv'
    BY <1>1 DEF IInv, RecordInv, TaskInv
  <1>4. QED
    BY <1>2, <1>3 DEF ContentInv

\* SaveConfig and SaveFails leave records of each depot's own manifests.
LEMMA RecordStep ==
    ASSUME IInv, SaveConfig \/ SaveFails
    PROVE  \A d \in Depots : config'[d] \in ManifestsOf(d) \cup {None}
  <1>1. pc = "save" /\ at <= Len(req.order)
    BY DEF SaveConfig, SaveFails, IInv, TypeOK
  <1>2. manifest \in ManifestsOf(depot) /\ depot \in Depots
    BY <1>1, OwnManifest, JobType DEF IInv
  <1>3. QED
    BY <1>2 DEF SaveConfig, SaveFails, Recorded, AfterFailedSave, NoConfig, IInv, RecordInv, TypeOK

\* The loop of DepotJob::download that decides about the files.
LEMMA StartJobStep ==
    ASSUME IInv, DirectoriesDiffer, StartJob
    PROVE  ContentInv'
  <1>1. /\ pc = "decide" /\ at <= Len(req.order)
        /\ depot \in Depots /\ manifest \in Manifests /\ dir \in Dirs /\ req.build \in Builds
        /\ manifest \in ManifestsOf(depot) /\ NewFiles \subseteq FilesOf(depot)
    BY JobType, OwnManifest DEF StartJob, IInv, TypeOK
  <1>2. /\ UNCHANGED <<disk, config, req, at>> /\ pc' = "files"
        /\ depot' = depot /\ manifest' = manifest /\ dir' = dir /\ NewFiles' = NewFiles
    BY DEF StartJob, depot, manifest, dir, NewFiles
  <1>3. prev' \in Manifests \cup {None} /\ prev' \in ManifestsOf(depot) \cup {None}
    BY <1>1, PreviousType DEF StartJob, PreviousManifest, IInv, RecordInv
  <1>4. DOMAIN work' = NewFiles
    BY DEF StartJob
  <1>5. /\ sound' => prev' = None \/ holds[<<depot, dir>>] \subseteq {prev', manifest}
        /\ sound' /\ prev' # None => \A f \in NewFiles : <<dir, f>> \notin fresh
        /\ fresh' = fresh
    BY DEF StartJob
  <1>6. /\ sound' => holds'[<<depot, dir>>] = holds[<<depot, dir>>] \cup {manifest}
        /\ ~sound' => holds'[<<depot, dir>>] = holds[<<depot, dir>>] \cup {manifest, Mixed}
        /\ \A q \in Depots \X Dirs : q # <<depot, dir>> => holds'[q] = holds[q]
    BY <1>1 DEF StartJob, IInv, TypeOK
  <1>7. RecordInv'
    BY <1>2, <1>3 DEF RecordInv, IInv
  <1>8. HoldsInv'
    <2> SUFFICES ASSUME NEW d \in Depots, NEW b \in Builds
                 PROVE  FromHolds(d, InstallDir(d, b))'
      BY DEF HoldsInv
    <2>1. FromHolds(d, InstallDir(d, b)) /\ InstallDir(d, b) \in Dirs
      BY DEF IInv, HoldsInv, Dirs
    <2>2. CASE <<d, InstallDir(d, b)>> = <<depot, dir>>
      BY <1>2, <1>6, <2>1, <2>2 DEF FromHolds, HasContent
    <2>3. CASE <<d, InstallDir(d, b)>> # <<depot, dir>>
      BY <1>2, <1>6, <2>1, <2>3, FromHoldsKept
    <2>4. QED
      BY <2>2, <2>3
  <1>9. JobInv'
    <2> SUFFICES ASSUME NEW f \in NewFiles
        PROVE  /\ manifest \in holds'[<<depot, dir>>]
               /\ ~sound' => Mixed \in holds'[<<depot, dir>>]
               /\ sound' /\ prev' # None => holds'[<<depot, dir>>] \subseteq {prev', manifest}
               /\ work'[f] \in {"download", "chmod"} => IsFile(manifest, f)
               /\ sound' /\ prev' # None /\ work'[f] = "download" => <<dir, f>> \notin fresh'
               /\ sound' /\ IsFile(manifest, f)
                    /\ (work'[f] \in {"chmod", "done"} \/ (work'[f] = "skipped" /\ f \in req.filter))
                  => HasContent(manifest, dir, f)
      BY <1>2, <1>4 DEF JobInv, HasContent
    <2>1. work'[f] = IF Skipped(prev', f) THEN "skipped" ELSE "download"
      BY DEF StartJob
    <2>2. work'[f] = "download" => IsFile(manifest, f)
      BY <2>1 DEF Skipped, IsFile, NewFiles
    <2>3. ASSUME sound', IsFile(manifest, f), work'[f] = "skipped", f \in req.filter
          PROVE  HasContent(manifest, dir, f)
      <3>1. UnchangedFile(prev', f)
        BY <2>1, <2>3 DEF Skipped, IsFile
      <3>2. /\ prev' \in Manifests /\ prev' # None /\ f \in DOMAIN Tree[prev']
            /\ Tree[prev'][f].hashed /\ Tree[prev'][f].data = Tree[manifest][f].data
            /\ disk[dir][f] # None
        BY <1>3, <3>1 DEF UnchangedFile, path_exists
      <3>3. IsFile(prev', f)
        <4>1. Tree[prev'][f] \in Entry
          BY <3>2, TreeAssumption
        <4>2. QED
          BY <1>1, <2>3, <3>2, <4>1 DEF DirectoriesDiffer, IsFile
      <3>4. holds[<<depot, dir>>] \subseteq {prev', manifest}
        BY <1>5, <2>3, <3>2
      <3>5. Mixed \notin holds[<<depot, dir>>]
        BY <1>1, <3>2, <3>4, NamesAssumption
      <3>6. FromHolds(depot, dir)
        BY <1>1 DEF IInv, HoldsInv, dir
      <3>7. PICK m \in holds[<<depot, dir>>] : HasContent(m, dir, f)
        BY <1>1, <2>3, <3>2, <3>3, <3>4, <3>5, <3>6 DEF FromHolds
      <3>8. QED
        BY <3>2, <3>4, <3>7 DEF HasContent
    <2>4. QED
      BY <1>5, <1>6, <2>1, <2>2, <2>3
  <1>10. TaskInv'
    BY <1>2, <1>4 DEF TaskInv
  <1>11. QED
    BY <1>7, <1>8, <1>9, <1>10 DEF ContentInv

\* One step of a file's task: its download, its permissions, or its failure.
LEMMA FileTaskStep ==
    ASSUME IInv, OwnFiles, NEW f \in DOMAIN work, FileStep(f)
    PROVE  ContentInv'
  <1>1. /\ pc \in {"files", "delete", "save", "failed"} /\ at <= Len(req.order)
        /\ DOMAIN work = NewFiles
        /\ work \in [NewFiles -> {"skipped", "download", "chmod", "done", "failed"}]
        /\ f \in NewFiles
    BY WorkType DEF IInv
  <1>2. /\ depot \in Depots /\ dir \in Dirs /\ req.build \in Builds
        /\ NewFiles \subseteq Files /\ NewFiles \subseteq FilesOf(depot)
    BY <1>1, JobType, OwnManifest, SMTT(30) DEF IInv
  <1>3. /\ UNCHANGED <<config, pc, req, at, prev, doomed, holds, sound>>
        /\ depot' = depot /\ manifest' = manifest /\ dir' = dir /\ NewFiles' = NewFiles
    BY DEF FileStep, FileDownloaded, FileFails, set_executable_if_needed, hist,
           depot, manifest, dir, NewFiles
  <1>4. disk \in [Dirs -> [Files -> OnDisk \cup {None}]]
    BY DEF IInv, TypeOK
  <1>5. /\ \A p \in Dirs, g \in Files : p # dir \/ g # f => disk'[p][g] = disk[p][g]
        /\ \A g \in NewFiles : g # f => work'[g] = work[g]
        /\ DOMAIN work' = NewFiles
        /\ work'[f] # "download" /\ fresh' \subseteq fresh \cup {<<dir, f>>}
    BY <1>1, <1>2, <1>4 DEF FileStep, FileDownloaded, Replace, FileFails, set_executable_if_needed
  \* a downloaded file holds what it should
  <1>d. ASSUME FileDownloaded(f) PROVE sound => HasContent(manifest, dir, f)'
    <2>1. CASE FoundRight(f) /\ disk' = disk
      BY <1>3, <2>1 DEF FoundRight, HasContent, path_exists
    <2>2. CASE FoundWrong(f) /\ Replace(f)
      <3>1. PICK new \in Results(f) : disk' = [disk EXCEPT ![dir][f] = [data |-> new, exec |-> FALSE]]
        BY <2>2 DEF Replace
      <3>2. disk'[dir][f] = [data |-> new, exec |-> FALSE]
        BY <1>1, <1>2, <1>4, <3>1
      <3>3. sound => new = Tree[manifest][f].data
        BY <1>d, <2>2, SoundResult DEF FileDownloaded
      <3>4. disk'[dir][f] # None
        <4>1. work'[f] = "chmod" /\ EndedInv'
          BY <1>1, <1>d, FileStepType DEF FileDownloaded, FileStep, IInv
        <4>2. QED
          BY <1>1, <1>3, <1>5, <4>1 DEF EndedInv, path_exists
      <3>5. QED
        BY <1>3, <3>2, <3>3, <3>4 DEF HasContent
    <2>3. QED
      BY <1>d, <2>1, <2>2 DEF FileDownloaded
  \* what becomes of the file itself
  <1>6. \/ disk'[dir][f] = disk[dir][f]
        \/ disk[dir][f] # None /\ disk'[dir][f] # None /\ disk'[dir][f].data = disk[dir][f].data
        \/ work[f] = "download" /\ (sound => HasContent(manifest, dir, f)')
    <2>1. CASE FileDownloaded(f)
      BY <1>d, <2>1 DEF FileDownloaded
    <2>2. CASE FileFails(f)
      BY <2>2 DEF FileFails
    <2>3. CASE set_executable_if_needed(f)
      <3>1. disk[dir][f] \in OnDisk
        BY <1>1, <1>2, <1>4, <2>3 DEF set_executable_if_needed, IInv, EndedInv, path_exists
      <3>2. CASE disk' = disk
        BY <3>2
      <3>3. CASE disk' = [disk EXCEPT ![dir][f].exec = @ \/ Tree[manifest][f].exec]
        <4>1. disk'[dir][f] = [disk[dir][f] EXCEPT !.exec = @ \/ Tree[manifest][f].exec]
          BY <1>1, <1>2, <1>4, <3>3
        <4>2. /\ disk[dir][f] = [data |-> disk[dir][f].data, exec |-> disk[dir][f].exec]
              /\ disk[dir][f].data \in Contents \cup {Mixed}
          BY <3>1 DEF OnDisk
        <4>3. disk'[dir][f].data = disk[dir][f].data
          BY <4>1, <4>2
        <4>4. TypeOK'
          BY FileStepType DEF IInv
        <4>5. disk[dir][f] # None
          BY <3>1, NamesAssumption
        <4>6. disk'[dir][f] \in OnDisk
          <5>1. (disk[dir][f].exec \/ Tree[manifest][f].exec) \in BOOLEAN
            OBVIOUS
          <5>2. \A b \in BOOLEAN : [disk[dir][f] EXCEPT !.exec = b] \in OnDisk
            BY <3>1 DEF OnDisk
          <5>3. QED
            BY <4>1, <5>1, <5>2
        <4>7. QED
          BY <4>3, <4>5, <4>6, NamesAssumption
      <3>4. QED
        BY <2>3, <3>2, <3>3 DEF set_executable_if_needed
    <2>4. QED
      BY <2>1, <2>2, <2>3 DEF FileStep
  <1>7. RecordInv'
    BY <1>3 DEF IInv, RecordInv
  <1>8. HoldsInv'
    <2> SUFFICES ASSUME NEW d \in Depots, NEW b \in Builds
                 PROVE  FromHolds(d, InstallDir(d, b))'
      BY DEF HoldsInv
    <2>1. FromHolds(d, InstallDir(d, b)) /\ InstallDir(d, b) \in Dirs
      BY DEF IInv, HoldsInv, Dirs
    <2>2. CASE <<d, InstallDir(d, b)>> # <<depot, dir>>
      <3>1. \A g \in FilesOf(d) : disk'[InstallDir(d, b)][g] = disk[InstallDir(d, b)][g]
        BY <1>1, <1>2, <1>5, <2>2, OthersKept DEF IInv
      <3>2. QED
        BY <1>3, <2>1, <3>1, FromHoldsKept
    <2>3. CASE <<d, InstallDir(d, b)>> = <<depot, dir>>
      <3>1. \A g \in FilesOf(depot) : g \in Files
        BY <1>2, TreeAssumption, RequestAssumption DEF FilesOf, ManifestsOf, Request
      <3>2. CASE work[f] = "download" /\ (sound => HasContent(manifest, dir, f)')
        <4>1. manifest \in holds[<<depot, dir>>] /\ (~sound => Mixed \in holds[<<depot, dir>>])
          BY DEF IInv, JobInv
        <4>2. QED
          BY <1>2, <1>3, <1>5, <2>1, <2>3, <3>1, <3>2, <4>1 DEF FromHolds, HasContent
      <3>3. CASE \/ disk'[dir][f] = disk[dir][f]
                 \/ disk[dir][f] # None /\ disk'[dir][f].data = disk[dir][f].data
        BY <1>2, <1>3, <1>5, <2>1, <2>3, <3>1, <3>3, FromHoldsKept
      <3>4. QED
        BY <1>6, <3>2, <3>3
    <2>4. QED
      BY <2>2, <2>3
  <1>9. JobInv'
    <2> SUFFICES ASSUME NEW g \in NewFiles
        PROVE  /\ manifest \in holds[<<depot, dir>>]
               /\ ~sound => Mixed \in holds[<<depot, dir>>]
               /\ sound /\ prev # None => holds[<<depot, dir>>] \subseteq {prev, manifest}
               /\ work'[g] \in {"download", "chmod"} => IsFile(manifest, g)
               /\ sound /\ prev # None /\ work'[g] = "download" => <<dir, g>> \notin fresh'
               /\ sound /\ IsFile(manifest, g)
                    /\ (work'[g] \in {"chmod", "done"} \/ (work'[g] = "skipped" /\ g \in req.filter))
                  => HasContent(manifest, dir, g)'
      BY <1>3, <1>5 DEF JobInv, HasContent
    <2>1. /\ manifest \in holds[<<depot, dir>>]
          /\ ~sound => Mixed \in holds[<<depot, dir>>]
          /\ sound /\ prev # None => holds[<<depot, dir>>] \subseteq {prev, manifest}
      BY <1>1 DEF IInv, JobInv
    <2>2. CASE g # f
      <3>1. work'[g] = work[g] /\ disk'[dir][g] = disk[dir][g]
        BY <1>2, <1>5, <2>2
      <3>2. /\ work[g] \in {"download", "chmod"} => IsFile(manifest, g)
            /\ sound /\ prev # None /\ work[g] = "download" => <<dir, g>> \notin fresh
            /\ sound /\ IsFile(manifest, g)
                 /\ (work[g] \in {"chmod", "done"} \/ (work[g] = "skipped" /\ g \in req.filter))
               => HasContent(manifest, dir, g)
        BY <1>1 DEF IInv, JobInv
      <3>3. QED
        BY <1>3, <1>5, <2>1, <2>2, <3>1, <3>2 DEF HasContent
    <2>3. CASE g = f
      <3>1. IsFile(manifest, f)
        BY DEF FileStep, FileDownloaded, FileFails, set_executable_if_needed, IInv, JobInv
      <3>2. CASE FileDownloaded(f)
        BY <1>3, <1>5, <1>d, <2>1, <2>3, <3>1, <3>2
      <3>3. CASE FileFails(f)
        BY <1>1, <2>1, <2>3, <3>1, <3>3 DEF FileFails
      <3>4. CASE set_executable_if_needed(f)
        <4>1. work[f] = "chmod" /\ (sound => HasContent(manifest, dir, f))
          BY <3>1, <3>4 DEF set_executable_if_needed, IInv, JobInv
        <4>2. disk'[dir][f] # None /\ disk'[dir][f].data = disk[dir][f].data
          BY <1>6, <3>4, <4>1 DEF set_executable_if_needed, IInv, EndedInv, path_exists
        <4>3. QED
          BY <1>3, <1>5, <2>1, <2>3, <3>1, <4>1, <4>2 DEF HasContent
      <3>5. QED
        BY <3>2, <3>3, <3>4 DEF FileStep
    <2>4. QED
      BY <2>2, <2>3
  <1>10. TaskInv'
    BY <1>3, <1>5 DEF IInv, TaskInv
  <1>11. QED
    BY <1>7, <1>8, <1>9, <1>10 DEF ContentInv

\* The wait for all tasks ends and the deletions begin.
LEMMA AwaitAllStep ==
    ASSUME IInv, AwaitAll
    PROVE  ContentInv'
  <1>1. pc = "files" /\ DOMAIN work = NewFiles
    BY DEF AwaitAll, IInv, TaskInv
  <1>2. prev \in ManifestsOf(depot) \cup {None}
    BY DEF IInv, RecordInv
  <1>3. Removed \subseteq FilesOf(depot) \ NewFiles
    BY <1>2 DEF Removed, PrevFiles, FilesOf
  <1>4. QED
    BY <1>1, <1>3, QuietStep DEF AwaitAll

\* A deletion, or its failure.
LEMMA DeleteStep ==
    ASSUME IInv, OwnFiles, DeleteFile
    PROVE  ContentInv'
  <1>1. /\ pc = "delete" /\ at <= Len(req.order)
        /\ depot \in Depots /\ dir \in Dirs /\ req.build \in Builds
        /\ NewFiles \subseteq Files
    BY JobType DEF DeleteFile, IInv, TypeOK
  <1>2. PICK f \in doomed : disk' = disk \/ disk' = [disk EXCEPT ![dir][f] = None]
    BY DEF DeleteFile
  <1>3. f \in FilesOf(depot) \ NewFiles /\ f \in Files
    BY <1>1 DEF IInv, TaskInv, TypeOK
  <1>4. disk \in [Dirs -> [Files -> OnDisk \cup {None}]]
    BY DEF IInv, TypeOK
  <1>5. /\ UNCHANGED <<config, pc, req, at, prev, work, holds, sound>> /\ doomed' \subseteq doomed
        /\ fresh' \subseteq fresh
        /\ depot' = depot /\ manifest' = manifest /\ dir' = dir /\ NewFiles' = NewFiles
    BY DEF DeleteFile, hist, depot, manifest, dir, NewFiles
  <1>6. /\ \A p \in Dirs, g \in Files : p # dir \/ g # f => disk'[p][g] = disk[p][g]
        /\ disk'[dir][f] = disk[dir][f] \/ disk'[dir][f] = None
    BY <1>1, <1>2, <1>3, <1>4
  <1>7. HoldsInv'
    <2> SUFFICES ASSUME NEW d \in Depots, NEW b \in Builds
                 PROVE  FromHolds(d, InstallDir(d, b))'
      BY DEF HoldsInv
    <2>1. FromHolds(d, InstallDir(d, b))
      BY DEF IInv, HoldsInv
    <2>2. CASE <<d, InstallDir(d, b)>> # <<depot, dir>>
      <3>1. \A g \in FilesOf(d) : disk'[InstallDir(d, b)][g] = disk[InstallDir(d, b)][g]
        BY <1>1, <1>3, <1>6, <2>2, OthersKept DEF IInv
      <3>2. QED
        BY <1>5, <2>1, <3>1, FromHoldsKept
    <2>3. CASE <<d, InstallDir(d, b)>> = <<depot, dir>>
      <3>1. \A g \in FilesOf(depot) : g \in Files
        BY <1>1, TreeAssumption, RequestAssumption DEF FilesOf, ManifestsOf, Request
      <3>2. QED
        BY <1>1, <1>5, <1>6, <2>1, <2>3, <3>1, FromHoldsKept
    <2>4. QED
      BY <2>2, <2>3
  <1>8. JobInv'
    <2>1. DOMAIN work = NewFiles
      BY <1>1 DEF IInv, TaskInv
    <2>2. \A g \in NewFiles : disk'[dir][g] = disk[dir][g]
      BY <1>1, <1>3, <1>6
    <2>3. QED
      BY <1>5, <2>1, <2>2 DEF IInv, JobInv, HasContent
  <1>9. RecordInv' /\ TaskInv'
    BY <1>1, <1>5 DEF IInv, RecordInv, TaskInv
  <1>10. QED
    BY <1>7, <1>8, <1>9 DEF ContentInv

\* What a sound job without filter has put in place.
LEMMA JobPresent ==
    ASSUME IInv, pc \in {"delete", "save"}, sound, Unfiltered, NEW f, IsFile(manifest, f)
    PROVE  HasContent(manifest, dir, f)
  <1>1. f \in NewFiles /\ DOMAIN work = NewFiles
    BY DEF IInv, TaskInv, IsFile, NewFiles
  <1>2. work[f] \in {"skipped", "done"} /\ f \in req.filter
    BY <1>1 DEF IInv, EndedInv, Ended, Unfiltered
  <1>3. QED
    BY <1>1, <1>2 DEF IInv, JobInv

\* The job returns Ok; the history of its directory is brought up to date.
LEMMA EndJobStep ==
    ASSUME IInv, EndJob
    PROVE  ContentInv'
  <1>1. /\ pc = "delete" /\ pc' = "save"
        /\ depot \in Depots /\ dir \in Dirs /\ req.build \in Builds /\ manifest \in Manifests
    BY JobType DEF EndJob, IInv, TypeOK
  <1>2. /\ UNCHANGED <<disk, config, req, at, prev, work, fresh, sound>>
        /\ depot' = depot /\ manifest' = manifest /\ dir' = dir /\ NewFiles' = NewFiles
    BY DEF EndJob, depot, manifest, dir, NewFiles
  <1>3. CASE ~(sound /\ Unfiltered)
    BY <1>1, <1>2, <1>3, QuietStep DEF EndJob, IInv, TaskInv, hist
  <1>4. CASE sound /\ Unfiltered
    <2>1. /\ holds'[<<depot, dir>>] = {manifest}
          /\ \A q \in Depots \X Dirs : q # <<depot, dir>> => holds'[q] = holds[q]
      BY <1>1, <1>4 DEF EndJob, IInv, TypeOK
    <2>2. HoldsInv'
      <3> SUFFICES ASSUME NEW d \in Depots, NEW b \in Builds
                   PROVE  FromHolds(d, InstallDir(d, b))'
        BY DEF HoldsInv
      <3>1. FromHolds(d, InstallDir(d, b)) /\ InstallDir(d, b) \in Dirs
        BY DEF IInv, HoldsInv, Dirs
      <3>2. CASE <<d, InstallDir(d, b)>> # <<depot, dir>>
        BY <1>2, <2>1, <3>1, <3>2, FromHoldsKept
      <3>3. CASE <<d, InstallDir(d, b)>> = <<depot, dir>>
        <4>1. \A f : IsFile(manifest, f) => HasContent(manifest, dir, f)
          BY <1>1, <1>4, JobPresent
        <4>2. QED
          BY <1>2, <2>1, <3>3, <4>1 DEF FromHolds, HasContent
      <3>4. QED
        BY <3>2, <3>3
    <2>3. JobInv'
      BY <1>2, <1>4, <2>1 DEF IInv, JobInv, HasContent
    <2>4. RecordInv' /\ TaskInv'
      BY <1>1, <1>2 DEF IInv, RecordInv, TaskInv
    <2>5. QED
      BY <2>2, <2>3, <2>4 DEF ContentInv
  <1>5. QED
    BY <1>3, <1>4

\* Before the first run no directory holds anything.
LEMMA ContentInit == Init => ContentInv
  <1> SUFFICES ASSUME Init PROVE ContentInv
    OBVIOUS
  <1>1. DOMAIN work = {}
    BY DEF Init
  <1>2. HoldsInv
    <2> SUFFICES ASSUME NEW d \in Depots, NEW b \in Builds, NEW f \in FilesOf(d)
                 PROVE  disk[InstallDir(d, b)][f] = None
      BY DEF HoldsInv, FromHolds
    <2>1. f \in Files
      BY TreeAssumption, RequestAssumption DEF FilesOf, ManifestsOf, Request
    <2>2. QED
      BY <2>1 DEF Init, Dirs
  <1>3. RecordInv /\ TaskInv
    BY DEF Init, RecordInv, TaskInv
  <1>4. QED
    BY <1>1, <1>2, <1>3 DEF ContentInv, JobInv

\* Every step keeps the invariant.
LEMMA IInvStep == OwnFiles /\ DirectoriesDiffer /\ IInv /\ [Next]_vars => IInv'
  <1> SUFFICES ASSUME OwnFiles, DirectoriesDiffer, IInv, [Next]_vars PROVE IInv'
    OBVIOUS
  <1>a. TypeOK' /\ EndedInv'
    BY TypeStep DEF IInv
  <1> SUFFICES ContentInv'
    BY <1>a DEF IInv, ContentInv
  <1>b. \A d \in Depots : config[d] \in ManifestsOf(d) \cup {None}
    BY DEF IInv, RecordInv
  <1>c. pc \in {"idle", "depot", "decide"} => work = <<>> /\ prev = None
    BY DEF IInv, TypeOK, RecordInv
  <1>1. ASSUME NEW r \in Requests, StartRun(r) PROVE ContentInv'
    BY <1>b, <1>c, <1>1, NoWorkStep DEF StartRun, hist
  <1>2. CASE GetManifest
    BY <1>b, <1>c, <1>2, NoWorkStep DEF GetManifest, hist
  <1>3. CASE UpToDate
    BY <1>b, <1>3, NoWorkStep DEF UpToDate, NextDepot, hist
  <1>4. CASE StartJob
    BY <1>4, StartJobStep
  <1>5. CASE AwaitFails
    BY <1>5, QuietStep DEF AwaitFails
  <1>6. CASE AwaitAll
    BY <1>6, AwaitAllStep
  <1>7. CASE DeleteFile
    BY <1>7, DeleteStep
  <1>8. CASE EndJob
    BY <1>8, EndJobStep
  <1>9. CASE SaveConfig \/ SaveFails
    BY <1>9, RecordStep, NoWorkStep DEF SaveConfig, SaveFails, NextDepot, hist
  <1>10. CASE EndRun
    BY <1>b, <1>c, <1>10, NoWorkStep DEF EndRun, hist
  <1>11. CASE ExitFailed
    BY <1>b, <1>11, GoneStep DEF ExitFailed
  <1>12. CASE Crash
    <2>1. \A d \in Depots : config'[d] \in ManifestsOf(d) \cup {None}
      BY <1>b, <1>12 DEF Crash, AfterFailedSave, NoConfig
    <2>2. QED
      BY <1>12, <2>1, GoneStep DEF Crash
  <1>13. CASE NetworkFails
    BY <1>b, <1>c, <1>13, NoWorkStep DEF NetworkFails, hist
  <1>14. CASE UNCHANGED vars
    <2>1. depot' = depot /\ manifest' = manifest /\ dir' = dir /\ NewFiles' = NewFiles
      BY <1>14 DEF vars, run, depot, manifest, dir, NewFiles
    <2>2. QED
      BY <1>14, <2>1 DEF vars, run, hist, IInv, ContentInv, RecordInv, HoldsInv, FromHolds, JobInv,
                         TaskInv, HasContent, Ended
  <1>15. QED
    BY <1>1, <1>2, <1>3, <1>4, <1>5, <1>6, <1>7, <1>8, <1>9, <1>10, <1>11, <1>12, <1>13, <1>14,
       FileTaskStep DEF Next, RunStep

(***************************************************************************)
(* JobsComplete: after any history of versions, filters, builds, failures, *)
(* crashes and last writes cut off by them or by process::exit, a job that *)
(* ends well has every file of its manifest in place, the last write of    *)
(* each under way at worst, if it was sound and no filter left files out   *)
(* (download.rs:231-247, 275-277, 304): for any depots whose files are     *)
(* apart wherever they share a directory, and any manifests in which no    *)
(* hash is both a directory's and a file's.  Sound is a job that is given  *)
(* no previous manifest, or finds only whole files of that manifest and of *)
(* its own.                                                                *)
(***************************************************************************)
THEOREM JobsComplete ==
    ASSUME OwnFiles, DirectoriesDiffer
    PROVE  Spec => []JobCompletes
  <1>1. Init => IInv
    BY TypeInit, ContentInit, IInvParts DEF Init, TypeInv, EndedInv
  <1>2. IInv /\ [Next]_vars => IInv'
    BY IInvStep
  <1>3. IInv => JobCompletes
    <2> SUFFICES ASSUME IInv, pc = "save", sound, Unfiltered PROVE Present(manifest, dir)
      BY DEF JobCompletes
    <2>1. \A f : IsFile(manifest, f) => HasContent(manifest, dir, f)
      BY JobPresent
    <2>2. QED
      BY <2>1 DEF Present, IsFile, HasContent
  <1>4. QED
    BY <1>1, <1>2, <1>3, PTL DEF Spec

-----------------------------------------------------------------------------
(* What a job deletes.                                                     *)

\* the files that are to go can be deleted, and their names are readable
RemovalsWork == "remove" \notin Faults /\ Encrypted = {}

\* no name is a directory's in one version and a file's in another
KindsStay ==
    \A m, n \in Manifests : \A f \in DOMAIN Tree[m] \cap DOMAIN Tree[n] :
        Tree[m][f].dir = Tree[n][f].dir

\* where there is a directory there is no file
NoFileAtDirectory ==
    /\ \A p \in Dirs, m \in Manifests :
          \A f \in DOMAIN Tree[m] : Tree[m][f].dir => disk[p][f] = None
    /\ \A f \in DOMAIN work : work[f] = "download" => ~Tree[manifest][f].dir

\* of the files that are to go, those the loop has visited are gone
RemovedInv ==
    /\ pc \in {"files", "delete", "save"} => prev = PreviousManifest
    /\ pc \in {"delete", "save"} =>
          \A f \in Removed : disk[dir][f] = None \/ (pc = "delete" /\ f \in doomed)

RemovalInv == NoFileAtDirectory /\ RemovedInv

\* Steps after which no task of a job is left, and no file was touched.
LEMMA NoWorkRemoves ==
    ASSUME RemovalInv, disk' = disk, work' = <<>>, pc' \in {"idle", "depot", "decide", "failed"}
    PROVE  RemovalInv'
  <1>1. DOMAIN work' = {}
    OBVIOUS
  <1>2. QED
    BY <1>1 DEF RemovalInv, NoFileAtDirectory, RemovedInv

\* A task touches one file, at its path in the job's directory.
LEMMA TaskTouches ==
    ASSUME TypeOK, EndedInv, NEW f \in DOMAIN work, FileStep(f)
    PROVE  /\ pc \in {"files", "failed"} /\ at <= Len(req.order)
           /\ DOMAIN work = NewFiles /\ f \in NewFiles /\ NewFiles \subseteq Files
           /\ depot \in Depots /\ manifest \in Manifests /\ dir \in Dirs
           /\ UNCHANGED <<config, cached, pc, req, at, prev, doomed, holds, sound>>
           /\ depot' = depot /\ manifest' = manifest /\ dir' = dir /\ NewFiles' = NewFiles
           /\ \A p \in Dirs, g \in Files : p # dir \/ g # f => disk'[p][g] = disk[p][g]
           /\ DOMAIN work' = NewFiles /\ \A g \in NewFiles : g # f => work'[g] = work[g]
           /\ work'[f] \in {"chmod", "failed", "done"}
           /\ work[f] \in {"download", "chmod"}
           /\ work[f] = "chmod" => disk[dir][f] # None
  <1>1. /\ pc \in {"files", "delete", "save", "failed"} /\ at <= Len(req.order)
        /\ DOMAIN work = NewFiles /\ f \in NewFiles
        /\ work \in [NewFiles -> {"skipped", "download", "chmod", "done", "failed"}]
    BY WorkType
  <1>2. depot \in Depots /\ manifest \in Manifests /\ dir \in Dirs /\ NewFiles \subseteq Files
    BY <1>1, JobType
  <1>3. disk \in [Dirs -> [Files -> OnDisk \cup {None}]]
    BY SMTT(30) DEF TypeOK
  <1>4. /\ UNCHANGED <<config, cached, pc, req, at, prev, doomed, holds, sound>>
        /\ depot' = depot /\ manifest' = manifest /\ dir' = dir /\ NewFiles' = NewFiles
    BY DEF FileStep, FileDownloaded, FileFails, set_executable_if_needed, hist,
           depot, manifest, dir, NewFiles
  <1>5. /\ \A p \in Dirs, g \in Files : p # dir \/ g # f => disk'[p][g] = disk[p][g]
        /\ DOMAIN work' = NewFiles /\ \A g \in NewFiles : g # f => work'[g] = work[g]
        /\ work'[f] \in {"chmod", "failed", "done"}
        /\ work[f] \in {"download", "chmod"}
    BY <1>1, <1>2, <1>3 DEF FileStep, FileDownloaded, Replace, FileFails, set_executable_if_needed
  <1>6. pc \in {"files", "failed"} /\ (work[f] = "chmod" => disk[dir][f] # None)
    BY <1>1, <1>5 DEF EndedInv, Ended, path_exists
  <1>7. QED
    BY <1>1, <1>2, <1>4, <1>5, <1>6

\* A task writes no file where there is a directory.
LEMMA TaskRemoves ==
    ASSUME KindsStay, TypeOK, EndedInv, RemovalInv, NEW f \in DOMAIN work, FileStep(f)
    PROVE  RemovalInv'
  <1>1. ~Tree[manifest][f].dir
    BY TaskTouches DEF RemovalInv, NoFileAtDirectory, NewFiles
  <1>2. NoFileAtDirectory'
    <2>1. ASSUME NEW p \in Dirs, NEW m \in Manifests, NEW g \in DOMAIN Tree[m], Tree[m][g].dir
          PROVE  disk'[p][g] = None
      <3>1. g # f
        BY <1>1, <2>1, TaskTouches DEF KindsStay, NewFiles
      <3>2. disk[p][g] = None /\ g \in Files
        BY <2>1, TreeAssumption DEF RemovalInv, NoFileAtDirectory
      <3>3. QED
        BY <3>1, <3>2, TaskTouches
    <2>2. ASSUME NEW g \in NewFiles, work'[g] = "download"
          PROVE  ~Tree[manifest][g].dir
      BY <2>2, TaskTouches DEF RemovalInv, NoFileAtDirectory
    <2>3. QED
      BY <2>1, <2>2, TaskTouches DEF NoFileAtDirectory
  <1>3. RemovedInv'
    <2>1. PreviousManifest' = PreviousManifest
      BY TaskTouches DEF PreviousManifest
    <2>2. QED
      BY <2>1, TaskTouches DEF RemovalInv, RemovedInv
  <1>4. QED
    BY <1>2, <1>3 DEF RemovalInv

\* Every step keeps the invariant.
LEMMA RemovalStep ==
    ASSUME RemovalsWork, KindsStay, TypeOK, EndedInv, RemovalInv, [Next]_vars
    PROVE  RemovalInv'
  <1>a. pc \in {"idle", "depot", "decide"} => work = <<>>
    BY DEF TypeOK
  <1>1. CASE \/ \E r \in Requests : StartRun(r)
             \/ GetManifest \/ UpToDate \/ SaveConfig \/ SaveFails \/ EndRun \/ NetworkFails
    BY <1>a, <1>1, NoWorkRemoves
       DEF StartRun, GetManifest, UpToDate, SaveConfig, SaveFails, EndRun, NetworkFails, NextDepot
  <1>g. CASE ProcessGone
    <2>1. DOMAIN work' = {} /\ pc' = "idle"
      BY <1>g DEF ProcessGone
    <2>2. \A p \in Dirs, f \in Files : disk[p][f] = None => disk'[p][f] = None
      BY <1>g, GoneFacts
    <2>3. \A m \in Manifests : DOMAIN Tree[m] \subseteq Files
      BY TreeAssumption
    <2>4. QED
      BY <2>1, <2>2, <2>3 DEF RemovalInv, NoFileAtDirectory, RemovedInv
  <1>2. CASE StartJob
    <2>1. /\ disk' = disk /\ pc' = "files" /\ prev' = PreviousManifest
          /\ manifest' = manifest /\ PreviousManifest' = PreviousManifest
          /\ work' = [f \in NewFiles |->
                         IF Skipped(PreviousManifest, f) THEN "skipped" ELSE "download"]
      BY <1>2 DEF StartJob, manifest, depot, PreviousManifest
    <2>2. \A f \in DOMAIN work' : work'[f] = "download" => ~Tree[manifest'][f].dir
      BY <2>1 DEF Skipped
    <2>3. QED
      BY <2>1, <2>2, SMTT(30) DEF RemovalInv, NoFileAtDirectory, RemovedInv
  <1>3. CASE AwaitFails \/ AwaitAll \/ DeleteFile \/ EndJob \/ UNCHANGED vars
    <2>1. /\ UNCHANGED <<work, prev, config, cached, req, at>>
          /\ manifest' = manifest /\ depot' = depot /\ dir' = dir /\ NewFiles' = NewFiles
          /\ PreviousManifest' = PreviousManifest /\ Removed' = Removed
      BY <1>3 DEF AwaitFails, AwaitAll, DeleteFile, EndJob, vars, run, manifest, depot, dir,
                  NewFiles, PreviousManifest, Removed, PrevFiles
    <2>2. CASE ~DeleteFile
      <3>1. disk' = disk
        BY <1>3, <2>2 DEF AwaitFails, AwaitAll, EndJob, vars
      <3>2. CASE AwaitFails
        BY <2>1, <3>1, <3>2 DEF AwaitFails, RemovalInv, NoFileAtDirectory, RemovedInv
      <3>3. CASE AwaitAll
        BY <2>1, <3>1, <3>3 DEF AwaitAll, RemovalInv, NoFileAtDirectory, RemovedInv
      <3>4. CASE EndJob
        BY <2>1, <3>1, <3>4 DEF EndJob, RemovalInv, NoFileAtDirectory, RemovedInv
      <3>5. CASE UNCHANGED vars
        BY <2>1, <3>1, <3>5 DEF vars, run, RemovalInv, NoFileAtDirectory, RemovedInv
      <3>6. QED
        BY <1>3, <2>2, <3>2, <3>3, <3>4, <3>5
    <2>3. CASE DeleteFile
      <3>1. PICK f \in doomed : /\ doomed' = doomed \ {f}
                                /\ disk' = [disk EXCEPT ![dir][f] = None]
        BY <2>3 DEF DeleteFile, RemovalsWork, Fault, CanFault
      <3>2. /\ dir \in Dirs /\ f \in Files
            /\ disk \in [Dirs -> [Files -> OnDisk \cup {None}]]
        BY <2>3, JobType DEF DeleteFile, TypeOK
      <3>3. /\ \A p \in Dirs, g \in Files : disk'[p][g] \in {disk[p][g], None}
            /\ disk'[dir][f] = None
        BY <3>1, <3>2
      <3>4. NoFileAtDirectory'
        BY <2>1, <3>3, TreeAssumption DEF RemovalInv, NoFileAtDirectory
      <3>5. Removed \subseteq Files
        BY TreeAssumption DEF Removed, PrevFiles, TypeOK
      <3>6. RemovedInv'
        BY <2>1, <2>3, <3>1, <3>2, <3>3, <3>5 DEF DeleteFile, RemovalInv, RemovedInv
      <3>7. QED
        BY <3>4, <3>6 DEF RemovalInv
    <2>4. QED
      BY <2>2, <2>3
  <1>4. QED
    BY <1>1, <1>g, <1>2, <1>3, TaskRemoves DEF Next, RunStep, ExitFailed, Crash

(***************************************************************************)
(* JobsRemove: a job that ends well has removed every file that only the   *)
(* previous manifest has (download.rs:304-321), whatever filter it had and *)
(* whatever happened before: unless a deletion fails, which is only        *)
(* logged, or the previous manifest's names come encrypted, which the      *)
(* cache does not decrypt, and as long as no name is a directory's in one  *)
(* version and a file's in another.                                        *)
(***************************************************************************)
THEOREM JobsRemove ==
    ASSUME RemovalsWork, KindsStay
    PROVE  Spec => []JobRemoves
  <1> DEFINE Inv == TypeOK /\ EndedInv /\ RemovalInv
  <1>1. Init => Inv
    <2> SUFFICES ASSUME Init PROVE Inv
      OBVIOUS
    <2>1. DOMAIN work = {} /\ pc = "idle" /\ fresh = {}
      BY DEF Init
    <2>2. \A p \in Dirs, m \in Manifests : \A f \in DOMAIN Tree[m] : disk[p][f] = None
      BY TreeAssumption DEF Init
    <2>3. QED
      BY <2>1, <2>2, TypeInit DEF EndedInv, RemovalInv, NoFileAtDirectory, RemovedInv
  <1>2. Inv /\ [Next]_vars => Inv'
    BY TypeStep, RemovalStep
  <1>3. Inv => JobRemoves
    <2> SUFFICES ASSUME Inv, pc = "save", config[depot] \in cached, config[depot] # manifest,
                        NEW f \in DOMAIN Tree[config[depot]] \ NewFiles
                 PROVE  disk[dir][f] = None
      BY DEF JobRemoves
    <2>1. /\ config[depot] \in Manifests /\ config[depot] # None
          /\ prev = config[depot] /\ prev \notin Encrypted
      BY NamesAssumption DEF TypeOK, RemovalInv, RemovedInv, PreviousManifest, RemovalsWork
    <2>2. f \in PrevFiles
      BY <2>1 DEF PrevFiles
    <2>3. CASE Tree[prev][f].dir
      <3>1. dir \in Dirs
        BY JobType DEF TypeOK
      <3>2. QED
        BY <2>1, <2>3, <3>1 DEF RemovalInv, NoFileAtDirectory
    <2>4. CASE ~Tree[prev][f].dir
      BY <2>2, <2>4 DEF Removed, RemovalInv, RemovedInv
    <2>5. QED
      BY <2>3, <2>4
  <1>4. QED
    BY <1>1, <1>2, <1>3, PTL DEF Spec

-----------------------------------------------------------------------------
(* Permissions.                                                            *)

\* no request leaves files out
WholeRequests == \A r \in Requests, d \in Depots : DOMAIN Tree[r.want[d]] \subseteq r.filter

\* a depot is always installed in the same directory
OneDirectory == \A d \in Depots, b, c \in Builds : InstallDir(d, b) = InstallDir(d, c)

\* a file that keeps its hash keeps its flags
FlagsFollowHash ==
    \A m, n \in Manifests : \A f \in DOMAIN Tree[m] \cap DOMAIN Tree[n] :
        Tree[m][f].hashed /\ Tree[n][f].hashed /\ Tree[m][f].data = Tree[n][f].data
            => Tree[m][f].dir = Tree[n][f].dir /\ Tree[m][f].exec = Tree[n][f].exec

PermissionsCanBeSet == "chmod" \notin Faults

\* what the theorems about permissions and depot.json take for granted
PlainUse ==
    /\ OwnFiles /\ WholeRequests /\ OneDirectory /\ FlagsFollowHash /\ DirectoriesDiffer
    /\ PermissionsCanBeSet /\ WritesLand

ReadyAt(m, p, f) == disk[p][f] # None /\ (Tree[m][f].exec => disk[p][f].exec)

SameHash(m, n, f) ==
    /\ f \in DOMAIN Tree[m] \cap DOMAIN Tree[n]
    /\ Tree[m][f].hashed /\ Tree[n][f].hashed /\ Tree[m][f].data = Tree[n][f].data

\* the files no attempt since the recorded installation can have touched
Untouched(d, p) ==
    {f \in FilesOf(d) :
        /\ IsFile(config[d], f) /\ Tree[config[d]][f].hashed
        /\ \A m \in holds[<<d, p>>] : SameHash(config[d], m, f)}

RecordedReady(d, p) ==
    config[d] # None /\ Mixed \notin holds[<<d, p>>] =>
        \A f \in Untouched(d, p) : ReadyAt(config[d], p, f)

RecordsReady == \A d \in Depots, b \in Builds : RecordedReady(d, InstallDir(d, b))

\* what the job has done, it has made executable
DoneReady ==
    \A f \in DOMAIN work :
        sound /\ IsFile(manifest, f)
          /\ (work[f] = "done" \/ (work[f] = "skipped" /\ f \in req.filter))
        => ReadyAt(manifest, dir, f)

\* what a job installs may be there, and nothing else once it has ended well
JobHeld ==
    /\ pc \in {"files", "delete", "save"} => manifest \in holds[<<depot, dir>>]
    /\ pc = "save" /\ sound => holds[<<depot, dir>>] = {manifest}

PermissionInv == RecordsReady /\ DoneReady /\ JobHeld

\* No request leaves files of its depot out.
LEMMA WholeJob ==
    ASSUME WholeRequests, TypeOK, pc # "idle", at <= Len(req.order)
    PROVE  Unfiltered
  BY JobType DEF WholeRequests, Unfiltered, NewFiles, manifest

\* Files are files.
LEMMA FilesOfType == \A d \in Depots : FilesOf(d) \subseteq Files
  BY TreeAssumption, RequestAssumption DEF FilesOf, ManifestsOf, Request

\* What is recorded stays true while its directory's files are left as they
\* are, or get permissions, and its record is kept or lost.
LEMMA RecordedKept ==
    ASSUME NEW d, NEW p, RecordedReady(d, p),
           config'[d] \in {config[d], None},
           holds[<<d, p>>] \subseteq holds'[<<d, p>>],
           config'[d] = config[d] =>
              \A f \in Untouched(d, p) : ReadyAt(config[d], p, f) => ReadyAt(config[d], p, f)'
    PROVE  RecordedReady(d, p)'
  <1> SUFFICES ASSUME config'[d] # None, Mixed \notin holds'[<<d, p>>], NEW f \in Untouched(d, p)'
               PROVE  ReadyAt(config[d], p, f)'
    BY DEF RecordedReady
  <1>1. config'[d] = config[d] /\ config[d] # None /\ Mixed \notin holds[<<d, p>>]
    OBVIOUS
  <1>2. f \in Untouched(d, p)
    BY <1>1 DEF Untouched
  <1>3. QED
    BY <1>1, <1>2 DEF RecordedReady, ReadyAt

\* Steps after which no task of a job is left, and no file was touched.
LEMMA NoWorkPermissions ==
    ASSUME PermissionInv, UNCHANGED <<disk, holds>>, work' = <<>>,
           pc' \in {"idle", "depot", "decide", "failed"},
           \A d \in Depots : config'[d] \in {config[d], None}
    PROVE  PermissionInv'
  <1>1. DOMAIN work' = {}
    OBVIOUS
  <1>2. RecordsReady'
    <2> SUFFICES ASSUME NEW d \in Depots, NEW b \in Builds
                 PROVE  RecordedReady(d, InstallDir(d, b))'
      BY DEF RecordsReady
    <2>1. RecordedReady(d, InstallDir(d, b))
      BY DEF PermissionInv, RecordsReady
    <2>2. QED
      BY <2>1, RecordedKept DEF ReadyAt
  <1>3. QED
    BY <1>1, <1>2 DEF PermissionInv, DoneReady, JobHeld

\* A job that is sound starts from files whose permissions are right.
LEMMA StartJobPermissions ==
    ASSUME PlainUse, IInv, PermissionInv, StartJob
    PROVE  PermissionInv'
  <1>1. /\ pc = "decide" /\ at <= Len(req.order)
        /\ depot \in Depots /\ manifest \in Manifests /\ dir \in Dirs /\ req.build \in Builds
        /\ NewFiles \subseteq FilesOf(depot)
    BY JobType, OwnManifest DEF StartJob, IInv, TypeOK
  <1>2. /\ UNCHANGED <<disk, config, req, at>> /\ pc' = "files"
        /\ depot' = depot /\ manifest' = manifest /\ dir' = dir
        /\ DOMAIN work' = NewFiles
    BY DEF StartJob, depot, manifest, dir
  <1>3. \A q \in Depots \X Dirs : holds[q] \subseteq holds'[q]
    BY <1>1 DEF StartJob, IInv, TypeOK
  <1>4. RecordsReady'
    <2> SUFFICES ASSUME NEW d \in Depots, NEW b \in Builds
                 PROVE  RecordedReady(d, InstallDir(d, b))'
      BY DEF RecordsReady
    <2>1. RecordedReady(d, InstallDir(d, b)) /\ InstallDir(d, b) \in Dirs
      BY DEF PermissionInv, RecordsReady, Dirs
    <2>2. QED
      BY <1>2, <1>3, <2>1, RecordedKept DEF ReadyAt
  <1>5. DoneReady'
    <2> SUFFICES ASSUME NEW f \in NewFiles, sound', IsFile(manifest, f),
                        work'[f] \in {"skipped", "done"}, f \in req.filter
                 PROVE  ReadyAt(manifest, dir, f)
      BY <1>2, <1>1, WholeJob DEF DoneReady, ReadyAt, PlainUse, Unfiltered, IInv
    <2>1. UnchangedFile(PreviousManifest, f)
      BY DEF StartJob, Skipped, IsFile
    <2>2. /\ PreviousManifest = config[depot] /\ config[depot] # None
          /\ SameHash(config[depot], manifest, f) /\ disk[dir][f] # None
      BY <2>1 DEF UnchangedFile, PreviousManifest, SameHash, path_exists, NewFiles
    <2>3. config[depot] \in Manifests
      BY <1>1, <2>2 DEF IInv, TypeOK
    <2>4. holds[<<depot, dir>>] \subseteq {config[depot], manifest}
      BY <2>2 DEF StartJob
    <2>5. Mixed \notin holds[<<depot, dir>>]
      BY <1>1, <2>3, <2>4, NamesAssumption
    <2>6. /\ Tree[config[depot]][f].dir = Tree[manifest][f].dir
          /\ Tree[config[depot]][f].exec = Tree[manifest][f].exec
      BY <1>1, <2>2, <2>3 DEF PlainUse, FlagsFollowHash, SameHash
    <2>7. f \in Untouched(depot, dir)
      BY <1>1, <2>2, <2>4, <2>6 DEF Untouched, IsFile, SameHash
    <2>8. RecordedReady(depot, dir)
      BY <1>1 DEF PermissionInv, RecordsReady, dir
    <2>9. ReadyAt(config[depot], dir, f)
      BY <2>2, <2>5, <2>7, <2>8 DEF RecordedReady
    <2>10. QED
      BY <2>6, <2>9 DEF ReadyAt
  <1>6. manifest \in holds'[<<depot, dir>>]
    BY <1>1 DEF StartJob, IInv, TypeOK
  <1>7. QED
    BY <1>2, <1>4, <1>5, <1>6 DEF PermissionInv, JobHeld

\* Permissions are only added, where they can be set.
LEMMA ChmodAdds ==
    ASSUME PermissionsCanBeSet, TypeOK, EndedInv, NEW f \in DOMAIN work,
           set_executable_if_needed(f)
    PROVE  /\ disk[dir][f] # None /\ disk'[dir][f] # None
           /\ disk'[dir][f].data = disk[dir][f].data
           /\ disk'[dir][f].exec = (disk[dir][f].exec \/ Tree[manifest][f].exec)
  <1> DEFINE e == (disk[dir][f].exec \/ Tree[manifest][f].exec)
  <1>1. FileStep(f)
    BY DEF FileStep
  <1>2. /\ disk \in [Dirs -> [Files -> OnDisk \cup {None}]] /\ dir \in Dirs /\ f \in Files
        /\ disk[dir][f] # None
    BY <1>1, TaskTouches DEF set_executable_if_needed, TypeOK
  <1>3. disk[dir][f] \in OnDisk
    BY <1>2
  <1>4. disk' = [disk EXCEPT ![dir][f].exec = @ \/ Tree[manifest][f].exec]
    BY DEF set_executable_if_needed, PermissionsCanBeSet, Fault, CanFault
  <1>5. disk'[dir][f] = [disk[dir][f] EXCEPT !.exec = e]
    BY <1>2, <1>4
  <1>6. e \in BOOLEAN
    OBVIOUS
  <1>7. /\ [disk[dir][f] EXCEPT !.exec = e].exec = e
        /\ [disk[dir][f] EXCEPT !.exec = e].data = disk[dir][f].data
        /\ [disk[dir][f] EXCEPT !.exec = e] \in OnDisk
    BY <1>3, <1>6 DEF OnDisk
  <1>8. QED
    BY <1>2, <1>5, <1>7, NamesAssumption

\* A task that ends has made its file executable; one that starts leaves the
\* files alone that were not touched since they were recorded.
LEMMA TaskPermissions ==
    ASSUME PlainUse, IInv, PermissionInv, NEW f \in DOMAIN work, FileStep(f)
    PROVE  PermissionInv'
  <1> USE DEF IInv
  <1>1. disk \in [Dirs -> [Files -> OnDisk \cup {None}]]
    BY DEF TypeOK
  <1>2. IsFile(manifest, f) /\ manifest \in holds[<<depot, dir>>]
    BY TaskTouches DEF JobInv
  <1>3. req.build \in Builds /\ f \in FilesOf(depot) /\ f \in Files
    BY TaskTouches, JobType, OwnManifest
  <1>4. ASSUME set_executable_if_needed(f)
        PROVE  disk'[dir][f] # None /\ disk[dir][f] # None
               /\ disk'[dir][f].exec = (disk[dir][f].exec \/ Tree[manifest][f].exec)
    BY <1>4, ChmodAdds DEF PlainUse
  \* a file not touched since it was recorded is not replaced
  <1>5. ASSUME FileDownloaded(f), RecordedReady(depot, dir), f \in Untouched(depot, dir),
               config[depot] # None, Mixed \notin holds[<<depot, dir>>]
        PROVE  disk'[dir][f] = disk[dir][f]
    <2>1. ReadyAt(config[depot], dir, f)
      BY <1>5 DEF RecordedReady
    <2>2. /\ IsFile(config[depot], f) /\ config[depot] \in Manifests
          /\ \A m \in holds[<<depot, dir>>] : SameHash(config[depot], m, f) /\ m \in Manifests
      <3>1. holds[<<depot, dir>>] \subseteq Manifests
        BY <1>5, TaskTouches DEF TypeOK
      <3>2. config[depot] \in Manifests
        BY <1>5, TaskTouches DEF TypeOK
      <3>3. QED
        BY <1>5, <3>1, <3>2 DEF Untouched
    <2>3. \A m \in holds[<<depot, dir>>] : IsFile(m, f)
      BY <2>2 DEF PlainUse, FlagsFollowHash, SameHash, IsFile
    <2>4. FromHolds(depot, dir)
      BY <1>3, TaskTouches DEF HoldsInv, dir
    <2>5. PICK m \in holds[<<depot, dir>>] : HasContent(m, dir, f)
      BY <1>3, <1>5, <2>1, <2>3, <2>4 DEF FromHolds, ReadyAt
    <2>6. Tree[m][f].data = Tree[manifest][f].data
      BY <1>2, <2>2 DEF SameHash
    <2>7. QED
      BY <1>5, <2>5, <2>6 DEF FileDownloaded, HasContent, path_exists, FoundRight, FoundWrong,
                              PlainUse, WritesLand, EndedInv
  <1>6. RecordsReady'
    <2> SUFFICES ASSUME NEW d \in Depots, NEW b \in Builds
                 PROVE  RecordedReady(d, InstallDir(d, b))'
      BY DEF RecordsReady
    <2>1. RecordedReady(d, InstallDir(d, b)) /\ InstallDir(d, b) \in Dirs
      BY DEF PermissionInv, RecordsReady, Dirs
    <2>2. CASE <<d, InstallDir(d, b)>> # <<depot, dir>>
      <3>1. \A g \in FilesOf(d) : disk'[InstallDir(d, b)][g] = disk[InstallDir(d, b)][g]
        BY <1>3, <2>2, TaskTouches, OthersKept DEF PlainUse
      <3>2. \A g \in Untouched(d, InstallDir(d, b)) :
                ReadyAt(config[d], InstallDir(d, b), g) => ReadyAt(config[d], InstallDir(d, b), g)'
        BY <3>1, TaskTouches DEF Untouched, ReadyAt
      <3>3. QED
        BY <2>1, <3>2, TaskTouches, RecordedKept
    <2>3. CASE <<d, InstallDir(d, b)>> = <<depot, dir>>
      <3>1. CASE config[depot] = None \/ Mixed \in holds[<<depot, dir>>]
        BY <2>3, <3>1, TaskTouches DEF RecordedReady
      <3>2. CASE config[depot] # None /\ Mixed \notin holds[<<depot, dir>>]
        <4>1. ASSUME NEW g \in Untouched(depot, dir), ReadyAt(config[depot], dir, g)
              PROVE  ReadyAt(config[depot], dir, g)'
          <5>1. g \in Files
            BY TaskTouches, FilesOfType DEF Untouched
          <5>2. CASE g # f
            BY <4>1, <5>1, <5>2, TaskTouches DEF ReadyAt
          <5>3. CASE g = f /\ FileDownloaded(f)
            BY <1>5, <2>1, <2>3, <3>2, <4>1, <5>3, TaskTouches DEF ReadyAt
          <5>4. CASE g = f /\ FileFails(f)
            BY <4>1, <5>4, TaskTouches DEF FileFails, ReadyAt
          <5>5. CASE g = f /\ set_executable_if_needed(f)
            BY <1>4, <4>1, <5>5, TaskTouches DEF ReadyAt
          <5>6. QED
            BY <5>2, <5>3, <5>4, <5>5 DEF FileStep
        <4>2. QED
          BY <2>1, <2>3, <4>1, TaskTouches, RecordedKept
      <3>3. QED
        BY <3>1, <3>2
    <2>4. QED
      BY <2>2, <2>3
  <1>7. DoneReady'
    <2> SUFFICES ASSUME NEW g \in NewFiles, sound, IsFile(manifest, g),
                        work'[g] = "done" \/ (work'[g] = "skipped" /\ g \in req.filter)
                 PROVE  ReadyAt(manifest, dir, g)'
      BY TaskTouches DEF DoneReady, ReadyAt
    <2>1. CASE g # f
      <3>1. ReadyAt(manifest, dir, g)
        BY <2>1, TaskTouches DEF PermissionInv, DoneReady
      <3>2. QED
        BY <2>1, <3>1, TaskTouches DEF ReadyAt
    <2>2. CASE g = f
      <3>1. set_executable_if_needed(f)
        BY <2>2, TaskTouches DEF FileStep, FileDownloaded, FileFails
      <3>2. QED
        BY <1>4, <2>2, <3>1, TaskTouches DEF ReadyAt
    <2>3. QED
      BY <2>1, <2>2
  <1>8. JobHeld'
    BY TaskTouches DEF PermissionInv, JobHeld
  <1>9. QED
    BY <1>6, <1>7, <1>8 DEF PermissionInv

\* What a sound job has made executable.
LEMMA JobReady ==
    ASSUME PlainUse, IInv, PermissionInv, pc \in {"delete", "save"}, sound,
           NEW f, IsFile(manifest, f)
    PROVE  ReadyAt(manifest, dir, f)
  <1>1. f \in NewFiles /\ DOMAIN work = NewFiles
    BY DEF IInv, TaskInv, IsFile, NewFiles
  <1>2. work[f] \in {"skipped", "done"}
    BY <1>1 DEF IInv, EndedInv, Ended
  <1>3. f \in req.filter
    BY <1>1, WholeJob DEF PlainUse, Unfiltered, IInv, TypeOK
  <1>4. QED
    BY <1>1, <1>2, <1>3 DEF PermissionInv, DoneReady

\* The deletion loop touches one file, that the job does not install.
DeletionTouches ==
    /\ pc = "delete" /\ at <= Len(req.order)
    /\ depot \in Depots /\ manifest \in Manifests /\ dir \in Dirs /\ req.build \in Builds
    /\ NewFiles \subseteq Files /\ DOMAIN work = NewFiles
    /\ UNCHANGED <<config, pc, req, at, prev, work, holds, sound>>
    /\ depot' = depot /\ manifest' = manifest /\ dir' = dir /\ NewFiles' = NewFiles
    /\ \E f \in FilesOf(depot) \ NewFiles :
          /\ \A p \in Dirs, g \in Files : p # dir \/ g # f => disk'[p][g] = disk[p][g]
          /\ f \in Files

\* It does so.
LEMMA DeleteTouches ==
    ASSUME IInv, DeleteFile
    PROVE  DeletionTouches
  <1>1. /\ pc = "delete" /\ at <= Len(req.order)
        /\ depot \in Depots /\ manifest \in Manifests /\ dir \in Dirs /\ req.build \in Builds
        /\ NewFiles \subseteq Files /\ DOMAIN work = NewFiles
    BY JobType DEF DeleteFile, IInv, TypeOK, TaskInv
  <1>2. PICK f \in doomed : disk' = disk \/ disk' = [disk EXCEPT ![dir][f] = None]
    BY DEF DeleteFile
  <1>3. f \in FilesOf(depot) \ NewFiles /\ f \in Files
    BY <1>1 DEF IInv, TaskInv, TypeOK
  <1>4. disk \in [Dirs -> [Files -> OnDisk \cup {None}]]
    BY DEF IInv, TypeOK
  <1>5. /\ UNCHANGED <<config, pc, req, at, prev, work, holds, sound>>
        /\ depot' = depot /\ manifest' = manifest /\ dir' = dir /\ NewFiles' = NewFiles
    BY DEF DeleteFile, hist, depot, manifest, dir, NewFiles
  <1>6. \A p \in Dirs, g \in Files : p # dir \/ g # f => disk'[p][g] = disk[p][g]
    BY <1>1, <1>2, <1>3, <1>4
  <1>7. QED
    BY <1>1, <1>3, <1>5, <1>6 DEF DeletionTouches

\* The deletion loop visits no file that was not touched.
LEMMA DeletePermissions ==
    ASSUME PlainUse, IInv, PermissionInv, DeleteFile
    PROVE  PermissionInv'
  <1>1. DeletionTouches
    BY DeleteTouches DEF IInv
  <1>2. PICK f \in FilesOf(depot) \ NewFiles :
           /\ \A p \in Dirs, g \in Files : p # dir \/ g # f => disk'[p][g] = disk[p][g]
           /\ f \in Files
    BY <1>1 DEF DeletionTouches
  <1>3. RecordsReady'
    <2> SUFFICES ASSUME NEW d \in Depots, NEW b \in Builds
                 PROVE  RecordedReady(d, InstallDir(d, b))'
      BY DEF RecordsReady
    <2>1. RecordedReady(d, InstallDir(d, b)) /\ InstallDir(d, b) \in Dirs
      BY DEF PermissionInv, RecordsReady, Dirs
    <2>2. ASSUME NEW g \in Untouched(d, InstallDir(d, b))
          PROVE  disk'[InstallDir(d, b)][g] = disk[InstallDir(d, b)][g]
      <3>1. CASE <<d, InstallDir(d, b)>> # <<depot, dir>>
        BY <1>1, <1>2, <3>1, OthersKept DEF DeletionTouches, PlainUse, Untouched, IInv
      <3>2. CASE <<d, InstallDir(d, b)>> = <<depot, dir>>
        <4>1. g \in NewFiles
          BY <1>1, <3>2 DEF PermissionInv, JobHeld, DeletionTouches, Untouched, SameHash, NewFiles
        <4>2. g # f /\ g \in Files
          BY <1>1, <1>2, <4>1 DEF DeletionTouches
        <4>3. QED
          BY <1>2, <2>1, <4>2
      <3>3. QED
        BY <3>1, <3>2
    <2>3. QED
      BY <1>1, <2>1, <2>2, RecordedKept DEF ReadyAt, DeletionTouches
  <1>4. DoneReady'
    <2>1. \A g \in NewFiles : disk'[dir][g] = disk[dir][g]
      BY <1>1, <1>2 DEF DeletionTouches
    <2>2. QED
      BY <1>1, <2>1 DEF PermissionInv, DoneReady, ReadyAt, DeletionTouches
  <1>5. QED
    BY <1>1, <1>3, <1>4 DEF PermissionInv, JobHeld, DeletionTouches

\* After a sound job, what its directory holds is ready.
LEMMA EndJobPermissions ==
    ASSUME PlainUse, IInv, PermissionInv, EndJob
    PROVE  PermissionInv'
  <1>1. /\ pc = "delete" /\ pc' = "save"
        /\ depot \in Depots /\ dir \in Dirs /\ manifest \in Manifests /\ Unfiltered
        /\ UNCHANGED <<disk, config, req, at, work, sound>>
        /\ depot' = depot /\ manifest' = manifest /\ dir' = dir
        /\ manifest \in holds[<<depot, dir>>]
    BY JobType, WholeJob
       DEF EndJob, IInv, TypeOK, PlainUse, PermissionInv, JobHeld, depot, manifest, dir
  <1>2. CASE ~sound
    <2>1. holds' = holds
      BY <1>2 DEF EndJob
    <2>2. RecordsReady' /\ DoneReady'
      BY <1>1, <2>1 DEF PermissionInv, RecordsReady, RecordedReady, Untouched, DoneReady, ReadyAt
    <2>3. QED
      BY <1>1, <1>2, <2>1, <2>2 DEF PermissionInv, JobHeld
  <1>3. CASE sound
    <2>1. /\ holds'[<<depot, dir>>] = {manifest}
          /\ \A q \in Depots \X Dirs : q # <<depot, dir>> => holds'[q] = holds[q]
      BY <1>1, <1>3 DEF EndJob, IInv, TypeOK
    <2>2. RecordsReady'
      <3> SUFFICES ASSUME NEW d \in Depots, NEW b \in Builds
                   PROVE  RecordedReady(d, InstallDir(d, b))'
        BY DEF RecordsReady
      <3>1. RecordedReady(d, InstallDir(d, b)) /\ InstallDir(d, b) \in Dirs
        BY DEF PermissionInv, RecordsReady, Dirs
      <3>2. CASE <<d, InstallDir(d, b)>> # <<depot, dir>>
        BY <1>1, <2>1, <3>1, <3>2, RecordedKept DEF ReadyAt
      <3>3. CASE <<d, InstallDir(d, b)>> = <<depot, dir>>
        <4>1. ASSUME config[depot] # None, NEW f \in Untouched(depot, dir)'
              PROVE  ReadyAt(config[depot], dir, f)'
          <5>1. IsFile(config[depot], f) /\ SameHash(config[depot], manifest, f)
            BY <1>1, <2>1, <4>1 DEF Untouched
          <5>2. config[depot] \in Manifests
            BY <1>1, <4>1 DEF IInv, TypeOK
          <5>3. IsFile(manifest, f) /\ Tree[manifest][f].exec = Tree[config[depot]][f].exec
            BY <1>1, <5>1, <5>2 DEF PlainUse, FlagsFollowHash, SameHash, IsFile
          <5>4. ReadyAt(manifest, dir, f)
            BY <1>1, <1>3, <5>3, JobReady
          <5>5. QED
            BY <1>1, <5>3, <5>4 DEF ReadyAt
        <4>2. QED
          BY <1>1, <3>3, <4>1 DEF RecordedReady
      <3>4. QED
        BY <3>2, <3>3
    <2>3. DoneReady'
      BY <1>1 DEF PermissionInv, DoneReady, ReadyAt
    <2>4. QED
      BY <1>1, <2>1, <2>2, <2>3 DEF PermissionInv, JobHeld
  <1>4. QED
    BY <1>2, <1>3

\* What is recorded is ready.
LEMMA SavePermissions ==
    ASSUME PlainUse, IInv, PermissionInv, SaveConfig
    PROVE  PermissionInv'
  <1>1. /\ pc = "save" /\ at <= Len(req.order) /\ pc' = "depot" /\ work' = <<>>
        /\ UNCHANGED <<disk, holds>>
        /\ depot \in Depots /\ manifest \in Manifests /\ req.build \in Builds
    BY JobType DEF SaveConfig, NextDepot, hist, IInv, TypeOK
  <1>2. /\ config'[depot] = manifest
        /\ \A d \in Depots \ {depot} : config'[d] = config[d]
    BY <1>1 DEF SaveConfig, Recorded, IInv, TypeOK
  <1>3. RecordsReady'
    <2> SUFFICES ASSUME NEW d \in Depots, NEW b \in Builds
                 PROVE  RecordedReady(d, InstallDir(d, b))'
      BY DEF RecordsReady
    <2>1. CASE d # depot
      <3>1. RecordedReady(d, InstallDir(d, b))
        BY DEF PermissionInv, RecordsReady
      <3>2. QED
        BY <1>1, <1>2, <2>1, <3>1, RecordedKept DEF ReadyAt
    <2>2. CASE d = depot
      <3>1. InstallDir(d, b) = dir
        BY <1>1, <2>2 DEF PlainUse, OneDirectory, dir
      <3>2. ASSUME NEW f, IsFile(manifest, f), Mixed \notin holds[<<depot, dir>>]
            PROVE  ReadyAt(manifest, dir, f)
        <4>1. f \in DOMAIN work
          BY <1>1, <3>2 DEF IInv, TaskInv, IsFile, NewFiles
        <4>2. sound
          BY <3>2, <4>1 DEF IInv, JobInv
        <4>3. QED
          BY <1>1, <3>2, <4>2, JobReady
      <3>3. QED
        BY <1>1, <1>2, <2>2, <3>1, <3>2 DEF RecordedReady, Untouched, ReadyAt
    <2>3. QED
      BY <2>1, <2>2
  <1>4. DOMAIN work' = {}
    BY <1>1
  <1>5. QED
    BY <1>1, <1>3, <1>4 DEF PermissionInv, DoneReady, JobHeld

\* Every step keeps the invariant.
LEMMA PermissionStep ==
    ASSUME PlainUse, IInv, PermissionInv, [Next]_vars
    PROVE  PermissionInv'
  <1>a. pc \in {"idle", "depot", "decide"} => work = <<>>
    BY DEF IInv, TypeOK
  <1>1. CASE \/ \E r \in Requests : StartRun(r)
             \/ GetManifest \/ UpToDate \/ SaveFails \/ EndRun \/ ExitFailed \/ Crash \/ NetworkFails
    <2>g. ProcessGone => UNCHANGED <<disk, holds>>
      BY NoneLost DEF IInv, PlainUse
    <2>1. /\ UNCHANGED <<disk, holds>> /\ work' = <<>>
          /\ pc' \in {"idle", "depot", "decide", "failed"}
      <3>1. CASE ExitFailed \/ Crash
        BY <2>g, <3>1 DEF ExitFailed, Crash, ProcessGone
      <3>2. CASE ~(ExitFailed \/ Crash)
        BY <1>a, <1>1, <3>2
           DEF StartRun, GetManifest, UpToDate, SaveFails, EndRun, NetworkFails, NextDepot, hist
      <3>3. QED
        BY <3>1, <3>2
    <2>2. config' \in {config, NoConfig}
      BY <1>1
         DEF StartRun, GetManifest, UpToDate, SaveFails, EndRun, ExitFailed, Crash,
             NetworkFails, AfterFailedSave
    <2>3. \A d \in Depots : config'[d] \in {config[d], None}
      BY <2>2 DEF NoConfig
    <2>4. QED
      BY <2>1, <2>3, NoWorkPermissions
  <1>2. CASE AwaitFails \/ AwaitAll \/ UNCHANGED vars
    <2>1. /\ UNCHANGED <<disk, config, req, at, work, holds, sound>>
          /\ depot' = depot /\ manifest' = manifest /\ dir' = dir
      BY <1>2 DEF AwaitFails, AwaitAll, vars, run, hist, depot, manifest, dir
    <2>2. /\ pc' \in {"delete", "failed"} \/ pc' = pc
          /\ pc' \in {"files", "delete", "save"} => pc \in {"files", "delete", "save"}
      BY <1>2 DEF AwaitFails, AwaitAll, vars, run
    <2>3. RecordsReady' /\ DoneReady'
      BY <2>1 DEF PermissionInv, RecordsReady, RecordedReady, Untouched, DoneReady, ReadyAt
    <2>4. QED
      BY <2>1, <2>2, <2>3 DEF PermissionInv, JobHeld
  <1>3. QED
    BY <1>1, <1>2, StartJobPermissions, TaskPermissions, DeletePermissions, EndJobPermissions,
       SavePermissions DEF Next, RunStep

\* It holds before the first run.
LEMMA PermissionInit == Init => PermissionInv
  <1> SUFFICES ASSUME Init PROVE PermissionInv
    OBVIOUS
  <1>1. DOMAIN work = {} /\ pc = "idle" /\ \A d \in Depots : config[d] = None
    BY DEF Init
  <1>2. QED
    BY <1>1 DEF PermissionInv, RecordsReady, RecordedReady, DoneReady, JobHeld

(***************************************************************************)
(* JobsSetExecutable: a sound job that ends well has made executable every *)
(* file with the Executable flag, also one that an earlier run had already *)
(* renamed when it died (download.rs:275-277, 649-678).  For this the job  *)
(* may not skip a file that lacks permissions (download.rs:231-247): so    *)
(* requests without filter, one directory for each depot, a hash that      *)
(* says which flags a file has, permissions that can be set, and last      *)
(* writes that land with the rename.                                       *)
(***************************************************************************)
THEOREM JobsSetExecutable ==
    ASSUME PlainUse
    PROVE  Spec => []JobSetsExecutable
  <1> DEFINE Inv == IInv /\ PermissionInv
  <1>1. Init => Inv
    BY TypeInit, ContentInit, IInvParts, PermissionInit DEF Init, TypeInv, EndedInv
  <1>2. Inv /\ [Next]_vars => Inv'
    BY IInvStep, PermissionStep DEF PlainUse
  <1>3. Inv => JobSetsExecutable
    BY JobReady DEF JobSetsExecutable, Executable, IsFile, ReadyAt
  <1>4. QED
    BY <1>1, <1>2, <1>3, PTL DEF Spec

-----------------------------------------------------------------------------
(* What depot.json says.                                                   *)

\* every depot is always asked for in the same version
OneVersion == \A r, s \in Requests, d \in Depots : r.want[d] = s.want[d]

\* a job that has begun is recorded
JobsEnd == Faults \cap {"file", "crash", "save"} = {}

\* a job is about to bring the depot to another version
Changing(d) == pc \in {"files", "delete", "save"} /\ depot = d /\ config[d] # manifest

RecordHolds(d, p) ==
    config[d] # None /\ ~Changing(d) =>
        Complete(config[d], p) /\ holds[<<d, p>>] \subseteq {config[d]}

RecordsHold == \A d \in Depots, b \in Builds : RecordHolds(d, InstallDir(d, b))

JobsSound == pc \in {"files", "delete", "save"} => sound

NoneFails ==
    JobsEnd => (pc = "failed" => work = <<>>) /\ \A f \in DOMAIN work : work[f] # "failed"

SteadyInv == RecordsHold /\ JobsSound /\ NoneFails

\* Asked for in one version only, a depot has no other recorded.
LEMMA OneVersionRecorded ==
    ASSUME OneVersion, IInv, pc # "idle", at <= Len(req.order), config[depot] # None
    PROVE  config[depot] = manifest
  <1>1. req \in Requests /\ depot \in Depots
    BY JobType DEF IInv
  <1>2. PICK r \in Requests : config[depot] = r.want[depot]
    BY <1>1 DEF IInv, RecordInv, ManifestsOf
  <1>3. QED
    BY <1>1, <1>2 DEF OneVersion, manifest

\* What is recorded of a depot is one of its own manifests.
LEMMA RecordedFiles ==
    ASSUME IInv, NEW d \in Depots, config[d] # None
    PROVE  config[d] \in Manifests /\ DOMAIN Tree[config[d]] \subseteq FilesOf(d)
  BY DEF IInv, TypeOK, RecordInv, FilesOf

\* A record stays true while its files are left alone, or get permissions.
LEMMA RecordHoldsKept ==
    ASSUME IInv, NEW d \in Depots, NEW p, RecordHolds(d, p),
           config'[d] \in {config[d], None}, holds'[<<d, p>>] = holds[<<d, p>>],
           config'[d] # None /\ Changing(d) => Changing(d)',
           \A f \in FilesOf(d) :
              \/ disk'[p][f] = disk[p][f]
              \/ /\ disk'[p][f] # None
                 /\ disk'[p][f].data = disk[p][f].data
                 /\ disk[p][f].exec => disk'[p][f].exec
    PROVE  RecordHolds(d, p)'
  <1> SUFFICES ASSUME config'[d] # None, ~Changing(d)'
               PROVE  Complete(config[d], p)' /\ holds'[<<d, p>>] \subseteq {config[d]}
    BY DEF RecordHolds
  <1>1. config[d] # None /\ Complete(config[d], p) /\ holds[<<d, p>>] \subseteq {config[d]}
    BY DEF RecordHolds
  <1>2. DOMAIN Tree[config[d]] \subseteq FilesOf(d) /\ config'[d] = config[d]
    BY <1>1, RecordedFiles
  <1>3. QED
    BY <1>1, <1>2 DEF Complete, Present, Executable

\* Steps after which no task of a job is left, and no file was touched.
LEMMA NoWorkSteady ==
    ASSUME IInv, SteadyInv, UNCHANGED <<disk, holds>>, work' = <<>>,
           pc' \in {"idle", "depot", "decide", "failed"},
           \A d \in Depots : config'[d] \in {config[d], None},
           \A d \in Depots : config'[d] # None => ~Changing(d)
    PROVE  SteadyInv'
  <1>1. DOMAIN work' = {}
    OBVIOUS
  <1>2. RecordsHold'
    <2> SUFFICES ASSUME NEW d \in Depots, NEW b \in Builds
                 PROVE  RecordHolds(d, InstallDir(d, b))'
      BY DEF RecordsHold
    <2>1. RecordHolds(d, InstallDir(d, b))
      BY DEF SteadyInv, RecordsHold
    <2>2. QED
      BY <2>1, RecordHoldsKept
  <1>3. QED
    BY <1>1, <1>2 DEF SteadyInv, JobsSound, NoneFails

\* A job starts from the files of the recorded version.
LEMMA StartJobSteady ==
    ASSUME PlainUse, IInv, SteadyInv, StartJob
    PROVE  SteadyInv'
  <1>1. /\ pc = "decide" /\ at <= Len(req.order) /\ pc' = "files"
        /\ depot \in Depots /\ manifest \in Manifests /\ dir \in Dirs /\ req.build \in Builds
        /\ UNCHANGED <<disk, config, req, at>>
        /\ depot' = depot /\ manifest' = manifest /\ dir' = dir
    BY JobType DEF StartJob, IInv, TypeOK, depot, manifest, dir
  <1>2. ~Changing(depot) /\ RecordHolds(depot, dir)
    BY <1>1 DEF SteadyInv, RecordsHold, Changing, dir
  <1>3. sound'
    BY <1>2 DEF StartJob, PreviousManifest, RecordHolds, PlainUse, WritesLand, IInv, EndedInv
  <1>4. /\ holds'[<<depot, dir>>] = holds[<<depot, dir>>] \cup {manifest}
        /\ \A q \in Depots \X Dirs : q # <<depot, dir>> => holds'[q] = holds[q]
    BY <1>1, <1>3 DEF StartJob, IInv, TypeOK
  <1>5. RecordsHold'
    <2> SUFFICES ASSUME NEW d \in Depots, NEW b \in Builds
                 PROVE  RecordHolds(d, InstallDir(d, b))'
      BY DEF RecordsHold
    <2>1. RecordHolds(d, InstallDir(d, b)) /\ InstallDir(d, b) \in Dirs /\ ~Changing(d)
      BY <1>1 DEF SteadyInv, RecordsHold, Dirs, Changing
    <2>2. CASE d # depot
      BY <1>1, <1>4, <2>1, <2>2, RecordHoldsKept
    <2>3. CASE d = depot
      <3>1. InstallDir(d, b) = dir
        BY <1>1, <2>3 DEF PlainUse, OneDirectory, dir
      <3>2. Changing(depot)' <=> config[depot] # manifest
        BY <1>1 DEF Changing
      <3>3. Complete(config[depot], dir)' <=> Complete(config[depot], dir)
        BY <1>1 DEF Complete, Present, Executable
      <3>4. QED
        BY <1>1, <1>2, <1>4, <2>3, <3>1, <3>2, <3>3 DEF RecordHolds
    <2>4. QED
      BY <2>2, <2>3
  <1>6. NoneFails'
    <2>1. \A f \in DOMAIN work' : work'[f] # "failed"
      BY DEF StartJob
    <2>2. QED
      BY <1>1, <2>1 DEF NoneFails
  <1>7. QED
    BY <1>3, <1>5, <1>6 DEF SteadyInv, JobsSound

\* A task leaves alone what is recorded, unless the job is to change that.
LEMMA TaskSteady ==
    ASSUME PlainUse, OneVersion \/ JobsEnd, IInv, SteadyInv, NEW f \in DOMAIN work, FileStep(f)
    PROVE  SteadyInv'
  <1>0. TypeOK /\ EndedInv
    BY DEF IInv
  <1>1. /\ pc \in {"files", "failed"} /\ at <= Len(req.order)
        /\ f \in NewFiles /\ f \in Files /\ f \in FilesOf(depot)
        /\ depot \in Depots /\ dir \in Dirs /\ req.build \in Builds
        /\ UNCHANGED <<config, pc, req, at, holds, sound>>
        /\ depot' = depot /\ manifest' = manifest /\ dir' = dir
        /\ \A p \in Dirs, g \in Files : p # dir \/ g # f => disk'[p][g] = disk[p][g]
    BY <1>0, TaskTouches, JobType, OwnManifest
  <1>2. \A d : Changing(d)' <=> Changing(d)
    BY <1>1 DEF Changing
  <1>3. ASSUME config[depot] = manifest, config[depot] # None
        PROVE  \/ disk'[dir][f] = disk[dir][f]
               \/ /\ disk'[dir][f] # None
                  /\ disk'[dir][f].data = disk[dir][f].data
                  /\ disk[dir][f].exec => disk'[dir][f].exec
    <2>1. Present(manifest, dir)
      BY <1>1, <1>3 DEF SteadyInv, RecordsHold, RecordHolds, Changing, Complete, dir
    <2>2. IsFile(manifest, f)
      BY <1>0, TaskTouches DEF IInv, JobInv
    <2>3. CASE FileDownloaded(f)
      BY <1>0, <2>1, <2>2, <2>3 DEF FileDownloaded, Present, IsFile, path_exists, FoundRight,
                                    FoundWrong, PlainUse, WritesLand, EndedInv
    <2>4. CASE FileFails(f)
      BY <2>4 DEF FileFails
    <2>5. CASE set_executable_if_needed(f)
      BY <1>0, <2>5, ChmodAdds DEF PlainUse
    <2>6. QED
      BY <2>3, <2>4, <2>5 DEF FileStep
  <1>4. Changing(depot) \/ config[depot] \in {None, manifest}
    <2>1. CASE pc = "files"
      BY <2>1 DEF Changing
    <2>2. CASE pc = "failed"
      <3>1. OneVersion
        BY <2>2 DEF SteadyInv, NoneFails
      <3>2. QED
        BY <1>1, <3>1, OneVersionRecorded
    <2>3. QED
      BY <1>1, <2>1, <2>2
  <1>5. RecordsHold'
    <2> SUFFICES ASSUME NEW d \in Depots, NEW b \in Builds
                 PROVE  RecordHolds(d, InstallDir(d, b))'
      BY DEF RecordsHold
    <2>1. RecordHolds(d, InstallDir(d, b)) /\ InstallDir(d, b) \in Dirs
      BY DEF SteadyInv, RecordsHold, Dirs
    <2>2. CASE d # depot
      <3>1. \A g \in FilesOf(d) : disk'[InstallDir(d, b)][g] = disk[InstallDir(d, b)][g]
        BY <1>0, <1>1, <2>2, OthersKept DEF PlainUse
      <3>2. QED
        BY <1>1, <1>2, <2>1, <3>1, RecordHoldsKept
    <2>3. CASE d = depot
      <3>1. InstallDir(d, b) = dir
        BY <1>1, <2>3 DEF PlainUse, OneDirectory, dir
      <3>2. CASE Changing(depot) \/ config[depot] = None
        BY <1>1, <1>2, <2>3, <3>2 DEF RecordHolds
      <3>3. CASE ~Changing(depot) /\ config[depot] # None
        <4>1. config[depot] = manifest
          BY <1>4, <3>3
        <4>2. \A g \in FilesOf(depot) :
                \/ disk'[dir][g] = disk[dir][g]
                \/ /\ disk'[dir][g] # None
                   /\ disk'[dir][g].data = disk[dir][g].data
                   /\ disk[dir][g].exec => disk'[dir][g].exec
          BY <1>1, <1>3, <3>3, <4>1, FilesOfType
        <4>3. QED
          BY <1>1, <1>2, <2>1, <2>3, <3>1, <4>2, RecordHoldsKept
      <3>4. QED
        BY <3>2, <3>3
    <2>4. QED
      BY <2>2, <2>3
  <1>6. NoneFails'
    <2> SUFFICES ASSUME JobsEnd
                 PROVE  (pc' = "failed" => work' = <<>>) /\ \A g \in DOMAIN work' : work'[g] # "failed"
      BY DEF NoneFails
    <2>1. pc = "files"
      BY <1>1 DEF SteadyInv, NoneFails
    <2>2. ~FileFails(f)
      BY DEF FileFails, Fault, CanFault, JobsEnd
    <2>3. work'[f] # "failed"
      BY <1>0, <1>1, <2>2, TaskTouches DEF FileStep, FileDownloaded, set_executable_if_needed
    <2>4. QED
      BY <1>0, <1>1, <2>1, <2>3, TaskTouches DEF SteadyInv, NoneFails
  <1>7. QED
    BY <1>1, <1>5, <1>6 DEF SteadyInv, JobsSound

\* The deletion loop spares what is recorded, unless the job is to change it.
LEMMA DeleteSteady ==
    ASSUME PlainUse, IInv, SteadyInv, DeleteFile
    PROVE  SteadyInv'
  <1>1. DeletionTouches
    BY DeleteTouches
  <1>2. PICK f \in FilesOf(depot) \ NewFiles :
           /\ \A p \in Dirs, g \in Files : p # dir \/ g # f => disk'[p][g] = disk[p][g]
           /\ f \in Files
    BY <1>1 DEF DeletionTouches
  <1>3. \A d : Changing(d)' <=> Changing(d)
    BY <1>1 DEF Changing, DeletionTouches
  <1>4. RecordsHold'
    <2> SUFFICES ASSUME NEW d \in Depots, NEW b \in Builds
                 PROVE  RecordHolds(d, InstallDir(d, b))'
      BY DEF RecordsHold
    <2>1. RecordHolds(d, InstallDir(d, b)) /\ InstallDir(d, b) \in Dirs
      BY DEF SteadyInv, RecordsHold, Dirs
    <2>2. CASE d # depot
      <3>1. \A g \in FilesOf(d) : disk'[InstallDir(d, b)][g] = disk[InstallDir(d, b)][g]
        BY <1>1, <1>2, <2>2, OthersKept DEF DeletionTouches, PlainUse, IInv
      <3>2. QED
        BY <1>1, <1>3, <2>1, <3>1, RecordHoldsKept DEF DeletionTouches
    <2>3. CASE d = depot
      <3>1. InstallDir(d, b) = dir
        BY <1>1, <2>3 DEF PlainUse, OneDirectory, dir, DeletionTouches
      <3>2. CASE config[depot] = manifest
        <4>1. \A g \in NewFiles : disk'[dir][g] = disk[dir][g]
          BY <1>1, <1>2 DEF DeletionTouches
        <4>2. Complete(manifest, dir) => Complete(manifest, dir)'
          BY <1>1, <4>1 DEF Complete, Present, Executable, NewFiles, DeletionTouches
        <4>3. QED
          BY <1>1, <1>3, <2>1, <2>3, <3>1, <3>2, <4>2 DEF RecordHolds, DeletionTouches
      <3>3. CASE config[depot] # manifest
        BY <1>1, <1>3, <2>3, <3>3 DEF RecordHolds, Changing, DeletionTouches
      <3>4. QED
        BY <3>2, <3>3
    <2>4. QED
      BY <2>2, <2>3
  <1>5. QED
    BY <1>1, <1>4 DEF SteadyInv, JobsSound, NoneFails, DeletionTouches

\* What has been installed is there, and can be recorded.
LEMMA JobDone ==
    ASSUME PlainUse, IInv, PermissionInv, pc \in {"delete", "save"}, sound
    PROVE  Complete(manifest, dir)
  <1>1. Unfiltered
    BY WholeJob DEF PlainUse, IInv, TypeOK
  <1>2. \A f : IsFile(manifest, f) => HasContent(manifest, dir, f) /\ ReadyAt(manifest, dir, f)
    BY <1>1, JobPresent, JobReady
  <1>3. QED
    BY <1>2 DEF Complete, Present, Executable, IsFile, HasContent, ReadyAt

\* The end of a job changes nothing on the disk.
LEMMA EndJobSteady ==
    ASSUME PlainUse, IInv, SteadyInv, EndJob
    PROVE  SteadyInv'
  <1>1. /\ pc = "delete" /\ pc' = "save" /\ sound
        /\ depot \in Depots /\ dir \in Dirs /\ req.build \in Builds /\ Unfiltered
        /\ UNCHANGED <<disk, config, req, at, work, sound>>
        /\ depot' = depot /\ manifest' = manifest /\ dir' = dir
    BY JobType, WholeJob
       DEF EndJob, IInv, TypeOK, PlainUse, SteadyInv, JobsSound, depot, manifest, dir
  <1>2. \A d : Changing(d)' <=> Changing(d)
    BY <1>1 DEF Changing
  <1>3. /\ holds'[<<depot, dir>>] = {manifest}
        /\ \A q \in Depots \X Dirs : q # <<depot, dir>> => holds'[q] = holds[q]
    BY <1>1 DEF EndJob, IInv, TypeOK
  <1>4. RecordsHold'
    <2> SUFFICES ASSUME NEW d \in Depots, NEW b \in Builds
                 PROVE  RecordHolds(d, InstallDir(d, b))'
      BY DEF RecordsHold
    <2>1. RecordHolds(d, InstallDir(d, b)) /\ InstallDir(d, b) \in Dirs
      BY DEF SteadyInv, RecordsHold, Dirs
    <2>2. CASE d # depot
      BY <1>1, <1>2, <1>3, <2>1, <2>2, RecordHoldsKept
    <2>3. CASE d = depot
      <3>1. InstallDir(d, b) = dir
        BY <1>1, <2>3 DEF PlainUse, OneDirectory, dir
      <3>2. Complete(config[d], dir)' <=> Complete(config[d], dir)
        BY <1>1 DEF Complete, Present, Executable
      <3>3. ~Changing(d) => config[d] = manifest
        BY <1>1, <2>3 DEF Changing
      <3>4. QED
        BY <1>1, <1>2, <1>3, <2>1, <2>3, <3>1, <3>2, <3>3 DEF RecordHolds
    <2>4. QED
      BY <2>2, <2>3
  <1>5. QED
    BY <1>1, <1>4 DEF SteadyInv, JobsSound, NoneFails

\* The record is true when it is made.
LEMMA SaveSteady ==
    ASSUME PlainUse, IInv, PermissionInv, SteadyInv, SaveConfig
    PROVE  SteadyInv'
  <1>1. /\ pc = "save" /\ at <= Len(req.order) /\ pc' = "depot" /\ work' = <<>>
        /\ UNCHANGED <<disk, holds>> /\ sound
        /\ depot \in Depots /\ manifest \in Manifests /\ req.build \in Builds
    BY JobType DEF SaveConfig, NextDepot, hist, IInv, TypeOK, SteadyInv, JobsSound
  <1>2. /\ config'[depot] = manifest
        /\ \A d \in Depots \ {depot} : config'[d] = config[d]
    BY <1>1 DEF SaveConfig, Recorded, IInv, TypeOK
  <1>3. RecordsHold'
    <2> SUFFICES ASSUME NEW d \in Depots, NEW b \in Builds
                 PROVE  RecordHolds(d, InstallDir(d, b))'
      BY DEF RecordsHold
    <2>1. CASE d # depot
      <3>1. RecordHolds(d, InstallDir(d, b)) /\ ~Changing(d)
        BY <2>1 DEF SteadyInv, RecordsHold, Changing
      <3>2. QED
        BY <1>1, <1>2, <2>1, <3>1, RecordHoldsKept
    <2>2. CASE d = depot
      <3>1. InstallDir(d, b) = dir
        BY <1>1, <2>2 DEF PlainUse, OneDirectory, dir
      <3>2. Complete(manifest, dir) /\ holds[<<depot, dir>>] = {manifest}
        BY <1>1, JobDone DEF PermissionInv, JobHeld
      <3>3. ASSUME NEW m, m = manifest, NEW p, p = dir
            PROVE  Complete(m, p)'
        BY <1>1, <3>2, <3>3 DEF Complete, Present, Executable
      <3>4. QED
        BY <1>1, <1>2, <2>2, <3>1, <3>2, <3>3 DEF RecordHolds, Complete, Present, Executable
    <2>3. QED
      BY <2>1, <2>2
  <1>4. DOMAIN work' = {}
    BY <1>1
  <1>5. QED
    BY <1>1, <1>3, <1>4 DEF SteadyInv, JobsSound, NoneFails

\* Every step keeps the invariant.
LEMMA SteadyStep ==
    ASSUME PlainUse, OneVersion \/ JobsEnd, IInv, PermissionInv, SteadyInv, [Next]_vars
    PROVE  SteadyInv'
  <1>a. pc \in {"idle", "depot", "decide"} => work = <<>>
    BY DEF IInv, TypeOK
  <1>1. CASE \/ \E r \in Requests : StartRun(r)
             \/ GetManifest \/ UpToDate \/ SaveFails \/ EndRun \/ ExitFailed \/ Crash \/ NetworkFails
    <2>g. ProcessGone => UNCHANGED <<disk, holds>>
      BY NoneLost DEF IInv, PlainUse
    <2>1. /\ UNCHANGED <<disk, holds>> /\ work' = <<>>
          /\ pc' \in {"idle", "depot", "decide", "failed"}
      <3>1. CASE ExitFailed \/ Crash
        BY <2>g, <3>1 DEF ExitFailed, Crash, ProcessGone
      <3>2. CASE ~(ExitFailed \/ Crash)
        BY <1>a, <1>1, <3>2
           DEF StartRun, GetManifest, UpToDate, SaveFails, EndRun, NetworkFails, NextDepot, hist
      <3>3. QED
        BY <3>1, <3>2
    <2>2. config' \in {config, NoConfig}
      BY <1>1
         DEF StartRun, GetManifest, UpToDate, SaveFails, EndRun, ExitFailed, Crash,
             NetworkFails, AfterFailedSave
    <2>3. \A d \in Depots : config'[d] \in {config[d], None}
      BY <2>2 DEF NoConfig
    <2>4. ASSUME NEW d \in Depots, config'[d] # None, Changing(d)
          PROVE  FALSE
      <3>1. pc \in {"files", "delete", "save"} /\ depot = d /\ config[d] # manifest /\ config[d] # None
        BY <2>3, <2>4 DEF Changing
      <3>2. SaveFails \/ Crash
        BY <1>1, <3>1 DEF StartRun, GetManifest, UpToDate, EndRun, ExitFailed, NetworkFails
      <3>3. OneVersion
        BY <3>2 DEF SaveFails, Crash, Fault, CanFault, JobsEnd
      <3>4. QED
        BY <3>1, <3>3, OneVersionRecorded DEF IInv, TypeOK
    <2>5. QED
      BY <2>1, <2>3, <2>4, NoWorkSteady
  <1>2. CASE AwaitFails \/ AwaitAll \/ UNCHANGED vars
    <2>1. /\ UNCHANGED <<disk, config, req, at, work, holds, sound>>
          /\ depot' = depot /\ manifest' = manifest /\ dir' = dir
      BY <1>2 DEF AwaitFails, AwaitAll, vars, run, hist, depot, manifest, dir
    <2>2. CASE AwaitFails
      <3>1. /\ pc = "files" /\ pc' = "failed" /\ ~JobsEnd
        BY <2>2 DEF AwaitFails, SteadyInv, NoneFails
      <3>2. ASSUME NEW d \in Depots, config[d] # None PROVE ~Changing(d)
        <4>1. d = depot => config[d] = manifest
          BY <3>1, <3>2, OneVersionRecorded DEF IInv, TypeOK
        <4>2. QED
          BY <4>1 DEF Changing
      <3>3. RecordsHold'
        <4> SUFFICES ASSUME NEW d \in Depots, NEW b \in Builds
                     PROVE  RecordHolds(d, InstallDir(d, b))'
          BY DEF RecordsHold
        <4>1. RecordHolds(d, InstallDir(d, b))
          BY DEF SteadyInv, RecordsHold
        <4>2. QED
          BY <2>1, <3>2, <4>1, RecordHoldsKept
      <3>4. QED
        BY <3>1, <3>3 DEF SteadyInv, JobsSound, NoneFails
    <2>3. CASE AwaitAll \/ UNCHANGED vars
      <3>1. pc' \in {"files", "delete", "save"} <=> pc \in {"files", "delete", "save"}
        BY <2>3 DEF AwaitAll, vars, run
      <3>2. pc' = "failed" => pc = "failed"
        BY <2>3 DEF AwaitAll, vars, run
      <3>3. \A d : Changing(d)' <=> Changing(d)
        BY <2>1, <3>1 DEF Changing
      <3>4. RecordsHold'
        <4> SUFFICES ASSUME NEW d \in Depots, NEW b \in Builds
                     PROVE  RecordHolds(d, InstallDir(d, b))'
          BY DEF RecordsHold
        <4>1. RecordHolds(d, InstallDir(d, b))
          BY DEF SteadyInv, RecordsHold
        <4>2. QED
          BY <2>1, <3>3, <4>1, RecordHoldsKept
      <3>5. QED
        BY <2>1, <3>1, <3>2, <3>4 DEF SteadyInv, JobsSound, NoneFails
    <2>4. QED
      BY <1>2, <2>2, <2>3
  <1>3. QED
    BY <1>1, <1>2, StartJobSteady, TaskSteady, DeleteSteady, EndJobSteady, SaveSteady
       DEF Next, RunStep

(***************************************************************************)
(* UpToDateIsRight: "already up to date" (main.rs:750-752) is true, with   *)
(* every file in place and executable, in two kinds of use: where a depot  *)
(* is always asked for in the same version, through any failed files,      *)
(* failed saves and crashes; and where versions change but every job that  *)
(* has begun is recorded.  Between the two lies the disagreement that run  *)
(* abandoned_update shows: a failed update to another version leaves the   *)
(* old version recorded.  Last writes land with the rename: the record is  *)
(* written without waiting for them, and process::exit may cut them off.   *)
(***************************************************************************)
THEOREM UpToDateIsRight ==
    ASSUME PlainUse, OneVersion \/ JobsEnd
    PROVE  Spec => []UpToDateIsTrue
  <1> DEFINE Inv == IInv /\ PermissionInv /\ SteadyInv
  <1>1. Init => Inv
    <2> SUFFICES ASSUME Init PROVE Inv
      OBVIOUS
    <2>1. DOMAIN work = {} /\ pc = "idle" /\ \A d \in Depots : config[d] = None
      BY DEF Init
    <2>2. SteadyInv
      BY <2>1 DEF SteadyInv, RecordsHold, RecordHolds, JobsSound, NoneFails
    <2>3. QED
      BY <2>2, TypeInit, ContentInit, IInvParts, PermissionInit DEF Init, TypeInv, EndedInv
  <1>2. Inv /\ [Next]_vars => Inv'
    BY IInvStep, PermissionStep, SteadyStep DEF PlainUse
  <1>3. Inv => UpToDateIsTrue
    <2> SUFFICES ASSUME Inv, pc = "decide", config[depot] = manifest
                 PROVE  Complete(manifest, dir)
      BY DEF UpToDateIsTrue, IsUpToDate
    <2>1. /\ depot \in Depots /\ req.build \in Builds /\ manifest \in Manifests
      BY JobType DEF IInv, TypeOK
    <2>2. RecordHolds(depot, dir) /\ ~Changing(depot) /\ manifest # None
      BY <2>1, NamesAssumption DEF SteadyInv, RecordsHold, Changing, dir
    <2>3. QED
      BY <2>2 DEF RecordHolds
  <1>4. QED
    BY <1>1, <1>2, <1>3, PTL DEF Spec
=============================================================================
