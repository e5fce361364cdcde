# A TLA+ model of DepotDownloader-rs

DepotDownloader-rs logs on to Steam, asks for the manifests of an app's depots
and downloads their files chunk by chunk from Steam's CDN.  This directory
holds TLA+ modules that model it from the list of servers to the last file,
the TLC configurations that check them on small instances, and theorems about
them that TLAPS checks for every instance.  Paths below are relative to
`src/crates/`.

To repeat the checks (the runs and their modules are listed in `PROJECT.json`):

    tlc -workers 2 -config FreshInstall.cfg MCFileDownload
    tlapm FileDownload_proofs.tla

and `tlapm` likewise for `DepotInstall_proofs`, `CmClient_proofs`,
`Session_proofs`, `DepotManifest_proofs`, `FfiClient_proofs`,
`KeyValue_proofs` and `Commands_proofs`.

## 1. The system

| Component | Source | State it keeps | Operations |
|---|---|---|---|
| Session | `depotdownloader/src/main.rs` `connect_and_login`, `do_login`, `authenticate_*`; `steam/src/auth/`, `connection/` | the server tried, passwords asked for, confirmations left, the token | list the servers, connect, encrypt, password, guard code, QR, poll, log on, go to the next server |
| Token store | `steam-client/src/credentials.rs` | user → refresh token, on disk | load, get, set, save |
| Steam client | `steam/src/client/`, `transport/`, `apps/`, `content/` | typestate, cipher, job ids, message queue, two locks | handshake, login, service calls, calls by message type, receive loop, Multi |
| Commands | `main.rs` `run_*`, `discover_*`; `cli.rs` | the app info, the depots still to do | info, manifests, files, download, workshop |
| Key values, manifests | `steam/src/types/key_value.rs`, `depot/manifest.rs` | none | parse (text, binary; format 4, format 5), look up, decrypt and sort names |
| Download command | `main.rs` `run_download` | position in the list of depots | per depot: key, manifest id, request code, manifest (cached or fetched), up-to-date check, previous manifest, job, record |
| Depot job | `steam-client/src/download.rs` `DepotJob::download` | one task per file | skip by filter, directory flag or unchanged hash; download; set permissions; delete what the new manifest does not name |
| File download | `download.rs` `download_file` | the installed file, the file under `.staging/`, `valid_chunks`, one task per chunk, the semaphore | check the final file, check and resume the staging file, create it, copy chunks of the previous version, spawn chunk tasks (permit, fetch with retries, check, write), await them, rename |
| Manifest cache, `depot.json` | `steam-client/src/manifest.rs` | cached manifests with their SHA-1; depot → installed manifest | load, save, get, set |
| C interface | `steam-ffi/src/lib.rs` | the client as a value that may be consumed, authentication sessions, manifests, copies of the token store | one call per function |
| CDN client, chunks, checksums, headers, ids | `steam/src/cdn/`, `depot/`, `util/`, `messages/` | none | pure functions and single HTTP requests |

How they interact.  `main` tries the servers until `connect_and_login` has a
client that is logged in; on the way the token store is read and written.  A
command then makes calls on the client, one after the other, and reads the
answers as key values and manifests.  `run_download` handles one depot after
the other.  For each it calls `DepotJob::download`, which spawns a task for
every file; `download_file` in turn spawns a task for every chunk.  All chunk
tasks of a job share one semaphore, the chunk tasks of a file share one file
handle behind a lock.  Tasks that share a client receive for each other: a
call reads the stream itself, behind a lock, until its answer comes.  Between
runs of the program only the disk remains: installed files, staging files,
`depot.json`, the manifest cache and `tokens.json`.  What a run finds there
decides what it skips, so every run depends on how the earlier ones ended.

What is hard: chunk tasks that go on after another one's error ended the wait;
writes of `tokio::fs::File`, which have not happened yet when `write_all`
returns; crashes between any two steps and what the next run makes of the
remains; two records of the same fact (the files and `depot.json`) that are
not updated together; trust in a previous manifest that may not describe the
directory any more; calls that take each other's answers from one stream; a
login that may break at any step and starts over with the next server; an
operation on a manifest that fails half way; a client whose state only the
calling program's order of calls decides.  `PROJECT.json` lists the hazards
line by line.

What makes the parts correct:

- *file download*: `Ok` means the wanted bytes are at the path; on an error or
  a crash before the rename the old file is still there, and after it nothing
  but the last write can be missing; staged chunks are not lost; every
  download returns;
- *depot job*: after `Ok` every file of the manifest is there, executable
  where the manifest says so, and files only the previous manifest has are
  gone;
- *download command*: "already up to date" is said only of a complete
  installation; repeated runs of one request get there;
- *client*: a call that succeeds has its own answer, messages are handled in
  the order they were sent, and a call returns;
- *session*: a refusal is final, other errors are tried on every server,
  wrong passwords are few, a remembered login asks for no password, no token
  is lost, a run ends or waits for a confirmation, and logging in works once
  the faults are over;
- *commands*: the manifest installed or listed for a depot is the one asked
  for, no depot is left out, and no file is installed under an encrypted name;
- *C interface*: the handle's state is the connection's, a manifest has every
  file whole, and saving tokens changes only the ones that were set.

## 2. The modules

| Module | What it is |
|---|---|
| `FileDownload` | one file over several runs of the program, and the refinement mapping to `AtomicFile` |
| `AtomicFile` | what `download_file` promises, without its steps |
| `MCFileDownload` | small instances of `FileDownload` |
| `DepotInstall`, `MCDepotInstall` | whole depots over several runs of the program |
| `CmClient`, `MCCmClient` | the client: calls of several tasks over one connection |
| `Session`, `MCSession` | from the list of servers to a client that is logged in |
| `KeyValue` | the two parsers of key values, as operators |
| `DepotManifest` | the two formats of manifests and their names, as operators |
| `Commands`, `MCCommands` | from the command line to the manifests of a job; extends the two modules above |
| `FfiClient`, `MCFfiClient` | the C interface; extends `DepotManifest` |
| `FileDownload_proofs` | theorems about one file: its chunks, then whole versions and the refinement |
| `DepotInstall_proofs`, `Session_proofs` | theorems about installations and logins |
| `CmClient_proofs` | theorems about the client: calls that overlap, then calls one after the other |
| `DepotManifest_proofs`, `FfiClient_proofs` | lemmas about manifests, and the theorems about the C interface that use them |
| `KeyValue_proofs`, `Commands_proofs` | lemmas about the parsers, and the theorems about the commands, which use them and the lemmas about manifests |

How they fit together.  `Session` makes its calls in one step each;
`CmClient` says what a call is.  `Commands` chooses depots and manifests and
hands them to a job; `DepotInstall` takes such choices (`Requests`) and
installs them; it downloads a file in one step, and what `AtomicFile` says may
still go wrong after that step, the loss of the file's last write, is its fault
`"late"`; `FileDownload` implements `AtomicFile`.

### FileDownload

A file is a sequence of slots, a chunk covers one slot, and a slot holds the
bytes of a chunk (named by the chunk's id), zeros, or junk.  Manifest entries
may lack any field the code treats as optional (`size`, and a chunk's id,
offset, and size or checksum).  `pc` follows `download_file`; the actions
carry the names of its stages and their lines are in the map.  Decisions worth
knowing:

- `verify_chunks` compares Adler-32 sums; the model takes a matching sum for
  the right bytes.
- *The last write.*  A tokio `File` hands a write to a blocking thread and
  returns.  The next operation on the handle waits for it and reports its
  error.  `tail` is that write; `WriteLands` and `WriteFails` end it.  After
  the rename it still goes to the same inode, so to the installed file
  (`tail.at`).  When the process ends, a write under way is cut short.  A
  regular end of `main` waits for blocking work that has started;
  `process::exit` does not.  This is the library's behaviour and marked as
  external.
- *The end of the job.*  The file is one of many.  When another one fails,
  `download()` returns its error, `main.rs:784` passes it on and `main.rs:86`
  ends the process wherever this file is: `JobFails` (fault `"sibling"`).  The
  file may have been replaced already, then `depot.json` stays behind the disk,
  and its last write may be cut off.
- Chunk tasks hold the handle's lock from the seek to the end of `write_all`
  (`download.rs:538-540`), so `WriteChunk` does both.
- `good` and `Sound` are read by properties only.  `Sound` says that the copy
  loop found what it takes for granted, the recorded version at the path;
  `good` remembers that the file at the path was found valid or put there by
  such a run, and not damaged since.
- The end of a task that waits between two attempts keeps its permit, so
  sleeping is not a state of its own; neither is the length of the delay.
- `process_chunk` is used through its contract: it returns bytes of the
  expected size and checksum, or an error that is not retried.
- `Damage` lets another program change or truncate the installed file between
  runs.

### AtomicFile and the refinement

`AtomicFile` replaces the installed version in one step (`Install`), or fails
and changes nothing, and always returns.  It promises no more than the code
keeps: a run whose source is not the installed version may install anything
(`SourceIsInstalled`), and an interruption after the replacement, before the
run has returned, may leave anything behind (`Interrupt`), while one before it
leaves the file alone.  `ImplementsAtomicFile` checks that `FileDownload` does
the same, under every fault, when the abstract file is the one at the path with
the write under way counted in.  How much an interruption can spoil is
`LastWriteOnly`: one slot.  The run checks the refinement with liveness;
`RefinesAtomicFile` proves the safety part for every instance.

### DepotInstall

The disk maps install directories to files, a file to its content and its
execute permission.  The content is named by its hash; `Mixed` stands for a
file put together from chunks of different versions, which `download_file`
can produce when the file on disk is not the one the previous manifest
describes (`Results`): chunks of the old version are copied without a check.
One step downloads one file, as in `AtomicFile`.  With the fault `"late"` its
last write may still be under way: `fresh` has the files this process has
replaced, and when it ends by `process::exit` or a crash, any of them may turn
out cut off (`CutOff`), also after a failure of another file or depot.  A later
job that finds such a file checks it, or copies from it.  `StartJob` is the loop of
`DepotJob::download` that decides about all files; tasks then run in any
order, also after an error ended the wait, until the process exits.  `holds`
and `sound` are history variables: they remember which manifests' files may
lie in a directory, so that the properties can say under which circumstances
a job's result may be relied on.  A job that starts from files its two
manifests do not describe taints the directory (`Mixed \in holds`) until a job
without previous manifest has gone over all of it.

### CmClient

The typestates of `SteamClient` are `stage`; a failed handshake or login drops
the client.  Every public call is an action (`call_service_method`, `login`,
`pics_get_product_info`, ...) that starts a call of one of the tasks in
`Callers`.  The call then goes through `send_encrypted` (`LockCipher`,
`Send`) and `recv_routed_msg`: the queue first (`PopQueue`), else the stream's
lock (`LockStream`, `Read`), the cipher's (`Decrypt`), and for a Multi one
part after the other into the queue (`Unpack`).  `Take` is the loop around
it: the answer ends the call, anything else is passed over.  Service calls
match by job id, the others by the type of the message alone.  The server
answers requests in any order, alone or in a Multi, with a refusal or with
something unreadable, and sends messages unasked; the connection may be lost.
`pending_jobs` is never filled, so its lookups are left out.  `send_heartbeat`
is an action although the program never calls it.  `apart` remembers that no
two calls overlapped.

### Session

`pc` follows `connect_and_login` and `do_login`.  A call is refused, breaks,
or succeeds; `is_auth_error` decides between the first two.  `discover_servers`
has the fallback to the four hosts of `default_cm_servers`; `confirm` goes
through the confirmations the server offers; `PollPending` repeats without a
limit; `save_token` may fail or be cut short, after which the next load finds
an empty store; a load may also fail by itself (fault `"load"`), and `read`
remembers whether this run's has succeeded.  Between runs tokens may become
stale.

### KeyValue and DepotManifest

Both are operators without state.  Input is a sequence of tokens (a key that
opens a section, a key with its value, an end) or of sections of a manifest,
so a cut file is a prefix.  `parse_node` and `parse_children` descend as the
parsers do, which have the same structure in both forms: a section need not be
closed, of two equal keys the later stays.  `parse_children` is a recursive
function from positions of the input to what the rest of a section there
yields; `NodeAt` and `ChildrenAt` are one step of it, in terms of the values at
later positions.  `get` finds the first key in byte order that agrees in lower
case; `Picked` is the iterator with a filter that the code uses everywhere.
`decrypt_filenames` stops at the first name that fails and leaves the earlier
ones decrypted, with the flag still set and nothing sorted.  A damaged name
fails, or passes the checks of padding and encoding and becomes junk.  Format 4
has a name for every entry, if an empty one, and no links (`Mapping4`).

### Commands

`Init` turns a command line of either style into a command (`from_modern`,
`from_compat`).  `AppInfo` is what Steam sends about an app; the answer may be
cut anywhere and come in either form, and all `discover_*` functions read the
tree that the parsers make of it.  `pc` follows the commands, with one action
per call; every call may fail (`CallFails`), and a manifest id under which
nothing was published, as the command line may give one, is an error
(`download_manifest`).  `CommandLine` holds the options that the commands look
at.  An id of `encryptedmanifests` may be `Sealed`, readable only with the
password of its branch, or a plain number, which the code takes as it is.  A
password is accepted or not (`check_beta_password`); after it `search_again`
repeats the search in the app info read before.  The properties speak of the
app itself, not of its tree.  Left out: the comparison of filters without case
and the trimming of their entries (`matches`), and the token for a CDN host,
whose errors are ignored.

### FfiClient

A program is one of three kinds: it uses the client, manifests, or the token
store, which do not touch each other.  `client` is the `Option` behind the
handle: `login` takes the value out and puts it back only if it succeeds.
`session` is the connection as the server sees it.  A call in the wrong state,
with text that is not UTF-8, or one whose request fails returns an error.
Each handle of the token store has a copy of its own; `save` writes all of it.

## 3. The runs

| Run | Instance | Properties |
|---|---|---|
| `fresh_install` | one version, three chunks, one of them without an offset, two permits, two attempts, any two faults, failures of other files included | `TypeOK`; `InstalledIntact`; `StagedChunksSurvive`: staged chunks are never lost before the rename; `Terminates` |
| `upgrade` | three versions that share chunks, three runs, any two faults of every kind | `IInv`, the inductive invariant of the proofs; `LastWriteOnly`: an interruption costs the file one write at most; `ReusedChunksCopied`: what is not fetched has been copied, if the recorded version was there; `ImplementsAtomicFile`, with liveness |
| `updates` | one depot, three manifests in which a file changes twice, two builds in the default layout, with and without filter, two faults anywhere, last writes that land late or never | `TypeOK`; `JobCompletes`; `JobRemoves` |
| `two_depots` | two depots with files of their own in one output directory, one manifest with encrypted names, any order and versions; failing network, cache and deletions | `UpToDateIsTrue` |
| `rerun` | two depots, the same request again and again after up to three faults | `UpToDateIsTrue`; `JobSetsExecutable`; `Converges` |
| `client_calls` | two tasks, one with every kind of call, three calls in all, an event and a fault of any kind | `TypeOK`; `OwnServiceAnswer`; `OwnAnswer`; `IInv` of the proofs; `HandledInOrder`; `LoneCallReturns` |
| `logins` | two users, QR and anonymous, up to two listed servers or the four default ones, three kinds of confirmation, any four faults | `TypeOK`; `RefusalIsFinal`; `GivesUpLast`; `PasswordsBounded`; `RememberedLogin`; `TokensKept`; `RunEnds`; `LoginWorks` |
| `ffi_client` | every kind of program, two store handles, manifests in both formats with damaged and missing names, any three faults | `TypeOK`; `HandleIsSession`; `WholeManifest`; `NamesReadable`; `OthersKept`; `Served` |
| `commands` | three apps, one with a sealed id, 32 command lines of both styles, app info in both forms and cut anywhere, a fault anywhere | `TypeOK`; `RightManifest`; `AllDepots`; `ReadableNames` |

**Bounds** are constants in the cfg files.  `MaxRuns` bounds the starts of the
program in `FileDownload` (three: install, an interrupted update, and what the
next run makes of it), `MaxFaults` the faults of the kinds listed in `Faults`
or `FaultKinds`; `MaxAttempts` and `MaxDownloads` are as in the code, up to
three chunks per file with two permits, so that a task waits, one runs and one
has failed at the same time.  A deeper fault budget repeats the same
situations: every run starts from the disk and `depot.json` alone.  In
`CmClient`, `MaxCalls = 3` lets two calls overlap and a third follow, and one
unasked message shifts the answers against the requests; `MaxParts` bounds the
answers to one product info request.  `MaxFaults = 4` in `logins` is enough
for three wrong passwords and a broken connection, or for a fault in each of
four runs.

Why some faults are left out of some runs: a failing deletion breaks
`JobRemoves` at once (the code logs it and goes on), a failing chmod breaks
`JobSetsExecutable`, and `UpToDateIsTrue` does not survive a failed update
(run `abandoned_update`); each of these faults happens in another run.
`two_depots` and `rerun` have no late writes: a record is written without
waiting for the last write of any file, so with one that is then cut off "up to
date" is said of a partial file ("Where the code differs from its comments",
below).

### Where the code differs from its comments

Three runs show the code doing something else than its comments and messages
say:

| Run | What happens |
|---|---|
| `password_opens` (`PasswordOpens`) | `main.rs:1430-1432` says the app info is fetched again once the password was validated and the encrypted id should be accessible; nothing is fetched, and the download falls back to "public" |
| `abandoned_update` | an update fails half way; going back to the recorded version is "already up to date" although files of the new one are there |
| `concurrent_calls` | two tasks make a service call each; one receives the other's answer and drops it, since `pending_jobs` is never filled, and the other waits for ever |

Three more are in the models, and what does hold there is checked and proved:

- `download.rs:344` says that the move to the final location "prevents partial
  files on interruption".  It does not (`FinalIsSomeVersion`): the rename does
  not wait for the last write of the file handle, and another file's failed
  download ends the process and cuts that write off.  `LastWriteOnly` says
  that no more than it is lost, `JobCompletes` what becomes of the depot.
- `download.rs:479` says "Skip chunks that were already copied from the
  previous version".  They need not be (`SkippedWereCopied`): a job fails after
  the file was replaced, `depot.json` stays behind, and the next update copies
  other bytes, unverified, and skips the chunks.  `ReusedChunksCopied` says
  that they are copied if the recorded version is at the path.
- `main.rs:1263-1264` says that an id of `encryptedmanifests` requires a branch
  password.  Without one it is used like any other; `RightManifest` says which
  id it is.

`tlc` shows the first two with `FinalIsSomeVersion` or `SkippedWereCopied` as
the invariant of `Upgrade.cfg` and `Faults = {"sibling"}`, `MaxFaults = 1`: no
disk fault and no kill is needed.

### Hazards without a run

Met while modelling; each is in the modules, at the line the hazard list names,
but no run is about it, because the instance would only repeat what the code
says there:

- an id that occurs at two offsets of a file: a resumed download takes the
  second place for valid because the first is, and leaves a hole;
- `--max-downloads 0` is accepted (`cli.rs:33`): the semaphore has no permit
  and the first download waits for ever (`Terminates` says `MaxDownloads > 0`;
  everything else holds of 0 too);
- a server that accepts a request and stays silent: nothing in the program ends
  the wait (`NetworkAnswers`, `ServersAnswer`);
- a new build id with an unchanged depot manifest: the new build directory is
  "already up to date" and stays empty;
- a previous manifest with encrypted names is compared without decrypting it:
  nothing is reused and removed files stay;
- a filtered run is recorded as a complete one (`UpToDateIsTrue` with filters);
- a file that moves between depots sharing an output directory is deleted by
  the one it left;
- a file whose executable flag changes while its content does not, or that was
  renamed into a new build directory right before a crash, is skipped before
  its permissions are set;
- a part of a Multi that does not parse is only logged: its call never returns
  (`LoneCallReturns` excludes it with `skipped`); a Multi that cannot be
  unpacked at all is an error of the call that read it (`DecryptMultiFails`);
- a stored token that has gone stale is neither removed nor replaced by asking
  for the password, so the user cannot log in (`LoginWorks` excludes it).

Further behaviour a reader of the code may not expect:

- `DepotJob::verify` is stored and never read: with `--verify` a file with one
  bad chunk is fetched completely, where the comment at `download.rs:346` says
  that only corrupted chunks are;
- the limit of three passwords starts again with every server; a QR login is
  not saved with `--remember-password`; a corrupt `tokens.json` loads as empty
  and is then overwritten; two processes or handles may undo each other's
  saves;
- when a download falls back to "public", the request code is still asked for
  with the branch of the command line;
- branch names are compared without case for manifests, with case for build
  ids; `--manifest` without `--depot` pairs with the discovered depots in the
  order of their ids as strings;
- the workshop command ignores a failed decryption of names; in the old style
  `-pubfile` needs `-app`;
- through the C interface a failed login, one on a client that is logged in
  already, or one with text that is not UTF-8 consumes the client; a poll that
  is still pending is an error like any other; names that could only partly be
  decrypted make every later attempt fail; decryption reorders the entries, so
  indexes read before it are stale.

**Fairness.** `FileDownload` and `DepotInstall`: every ready task is
eventually polled and a started blocking write ends (`Fairness`). That every
HTTP request ends is `NetworkAnswers`, an assumption about the network: the
client is built without a timeout (`steam/src/cdn/mod.rs:22`), so nothing in
the program ends a request to a server that stays silent. No fault and no new
run is assumed to happen; `DepotInstall` assumes in addition that the user
starts the program again, which is what `Converges` is about. `CmClient`: weak
fairness for each task's steps, which the runtime gives (it does not promise a
contended lock to a particular task, and the properties do not need that), and
for the server's answers. `Session`: the specification has weak fairness for
the steps the program takes by itself (`ProgramStep`) and for nothing else.
What servers and users have to do is a named hypothesis of the two liveness
properties: `ServersAnswer` (a call is answered, refused, or breaks; the one
poll that is pending may stay so), `UserTypes` (a password or code asked for is
typed), `LoginConfirmed` (a poll that is repeated is confirmed in the end) and
`UserTriesAgain` (strong fairness for each way of starting the program).
`RunEnds` assumes the first two and says that a run ends or polls for ever,
`LoginWorks` all four.
`FfiClient`: strong fairness for the calls of a program that gives a failed
client back and connects again, the only kind `Served` is about. `Commands`
states no liveness: every command is a finite sequence of calls.

**Deadlock** is checked except in `client_calls`, `concurrent_calls` and
`commands`, where the calls and the command end; `FileDownload` may stutter
once the bound on runs is used up (`Finished`).

## 4. The proofs

All of it from the named assumptions of the modules (the sentinels differ from
the values, the constants have their types, the bounds are numbers), which TLC
evaluates in the runs.  Where a theorem needs more, the hypothesis is a named
definition about the constants, given in its `ASSUME`: it says which inputs or
faults the theorem is about, the runs of the same property satisfy it, and
what happens without it is listed under "Hazards without a run" or in
`abandoned_update`.  Each inductive invariant was first checked by TLC on the
instances of the runs.

| Hypothesis | What it says | Without it |
|---|---|---|
| `WellFormed` | no entry repeats an id or a slot | a resumed download leaves a hole |
| `OneVersionWanted`, `AllComplete` | the program is started for one version, whose entry has all its fields | another version's download writes over what was staged |
| `SteamEntries` | entries have all fields, chunks fill the file, ids are not repeated | no bytes of a version to speak of, or the hole |
| `DistinctVersions` | versions have different bytes | equal ones cannot be told apart on the disk |
| `OwnFiles` | depots that share a directory have files of their own | one depot deletes a file that moved to another |
| `DirectoriesDiffer`, `KindsStay` | a hash is not both a directory's and a file's; a name is not a directory in one version and a file in another | - |
| `RemovalsWork` | deletions do not fail, names of manifests are readable | both leave files behind, the first with a log line |
| `WholeRequests` | no filter | a filtered run is recorded as a complete one |
| `OneDirectory` | a depot has one directory | a new build is "already up to date" and empty |
| `WritesLand` | the last write of a file lands before the process can end | `depot.json` is written without waiting for it: a file recorded as installed is partial |
| `FlagsFollowHash`, `PermissionsCanBeSet` | a file that keeps its hash keeps its flags; chmod does not fail | the skip leaves the old permissions; the failure is logged |
| `OneVersion` or `JobsEnd` | a depot is always asked for in the same version; or a job that has begun is recorded | `abandoned_update` |

`PlainUse` is the conjunction of `OwnFiles`, `WholeRequests`, `OneDirectory`,
`FlagsFollowHash`, `DirectoriesDiffer`, `PermissionsCanBeSet` and `WritesLand`.

`FileDownload_proofs`:

- `TypeCorrect`: `Spec => []TypeOK`.  `TypeOK` is not inductive: that a write
  under way has a file to go to depends on where `download_file` is
  (`TailInv`), that attempts stay within bounds on a fetching task having one
  left (`AttemptInv`), and both on nothing running any more after the rename
  (`SettledInv`).  `TypeInv` is their conjunction.
- `RunInvariant` and `DownloadedChunksIntact`: `Spec => []IInv` and
  `Spec => []InstalledIntact` for `WellFormed` entries.  `InstalledIntact`
  speaks of the moment after the rename; the invariant `IInv` follows a chunk
  there: a chunk found intact stays in the staging file (`CopyInv`), a task
  that is done has put its chunk there or it is the write under way
  (`TaskInv`), and a write that goes to a chunk's slot brings that chunk's
  bytes (`TailDataInv`).  Chunks shared with the previous version are
  excluded, since the copy loop may write anything to their slots.  The lemmas
  on `WriteAt`, `WriteKeeps` and `WriteBrings` say what a write does to
  chunks; `AllIntact` says that as many valid ids as chunks means that all
  chunks are intact, which is where different ids are needed.

Of the same module, about whole versions:

- `ResumptionKeepsChunks`: `Spec => StagedChunksSurvive`, the action property,
  through any crashes, failed writes and restarts.  `ResumeInv` says that no
  chunk still to be written is in the staging file already, so that no write
  that is cut short can destroy one (`PendingInv`), and that the staging file
  has the version's length once it is not empty, so that `set_len` cuts
  nothing off (`StagingSizeInv`).
- `LosesLastWriteOnly` and `CopiesAreReal`: `[]LastWriteOnly` and
  `[]ReusedChunksCopied` under `SteamEntries`, for every fault and any number
  of versions that share chunks in any way.  Nothing is assumed about what a
  run finds: that the copy loop read from the recorded version is `Sound`, a
  condition on the state at the copy, and a theorem about a run where it fails
  would be false (`SkippedWereCopied`).  `AtomicInv` joins the file at the path, the
  chunks copied so far in a sound run, the valid and the finished chunks, and
  the write under way.  Of the file at the path it says that it is a whole
  version up to the write under way, and one slot short of it once that write
  was lost.
- `RefinesAtomicFile`: `Spec => Abstract!Spec`, with `DistinctVersions` in
  addition.  `Begin` is the abstract `Start`, the failures are `Fail`, the ends of the
  program `Return` or `Interrupt`; the rename, and the checks that find the file as it should
  be, are `Install`, since by `AtomicInv` they leave the wanted version
  at the path unless the copies were unsound.  A write that fails after the
  rename is not seen in the mapping until the run is over, where it is an
  `Interrupt`.  Every other step is a stutter.

`DepotInstall_proofs`:

- `TypeCorrect`, from `TypeOK` and `EndedInv`: permissions are set on files
  that are there, since no deletion starts before all tasks have ended.
- `JobsComplete`: `Spec => []JobCompletes`, under `OwnFiles` and
  `DirectoriesDiffer`, for every fault, late writes included.  `HoldsInv` ties the history to the disk: a file that
  all manifests in `holds` have comes from one of them; a file that was cut off
  puts `Mixed` there.  `JobInv` says that a
  sound job is given only what `holds` has, so the skip of an unchanged file
  and the copied chunks meet the content they expect, and that every task that
  has ended well has its content in place.  `RecordInv` keeps the records
  within the depot they are about, so that one depot's job leaves the files of
  another alone (`OthersKept`).
- `JobsRemove`: `Spec => []JobRemoves`, under `RemovalsWork` and `KindsStay`,
  for any filters, builds and crashes.  `RemovalInv` says that no file lies where
  a version has a directory, and that of what
  only the previous manifest has each file is gone or still to be visited.
- `JobsSetExecutable`: `Spec => []JobSetsExecutable`, under `PlainUse`.  A
  skipped file was made executable by an earlier run or never: `RecordsReady`
  says that every file of the recorded manifest that no attempt since can have
  touched (`Untouched`) has its permissions, `DoneReady` the same of the
  finished tasks.  A crash between the rename and the chmod leaves a file
  without them, but then the new version is not recorded and its hash differs,
  or the file was `Untouched` before.
- `UpToDateIsRight`: `Spec => []UpToDateIsTrue`, under `PlainUse` and
  `OneVersion \/ JobsEnd`.  `SteadyInv` says that, unless a job is
  just replacing them, the files of a recorded manifest are all in place and no
  other version's were begun (`RecordsHold`), that no job starts from files it
  cannot rely on (`JobsSound`), and in the second case that nothing has failed
  (`NoneFails`).
  The two cases are the border of the hazard: between them lies
  `abandoned_update`.

`CmClient_proofs`:

- `TypeCorrect`, and `OwnAnswers`: `Spec => []OwnServiceAnswer` for any number
  of tasks, calls, events and faults.  `OwnerInv` says that a job id belongs to
  one request: the calls under it (`JobInv`) and every message on its way, in
  the queue, in a packet being unpacked or on the wire (`MessageInv`), with
  `CallInv` for the calls themselves.
- `ClientInvariant`, `LoneCallsOwnAnswers` and `MessagesInOrder`:
  `[]IInv`, `[]OwnAnswer` and `HandledInOrder`, which are about calls made one
  after the other, none after a failed one (`apart` and the guards of the two
  properties), for any number of tasks, calls, messages and parts.  Most calls
  know their answer by its type alone, so an answer that is left over goes to
  the next call of the kind.  `SoloInv` says that one task at a time holds
  locks or packets, `OrderInv` that queue, packet and wire, read one after the
  other, are in the order of sending and newer than what was handled, and
  `AnswerInv` that nothing but events and the answers to the one open request
  is on its way.

`Session_proofs`:

- `TypeCorrect`, `NoRetryAfterRefusal`, `EveryServerTried`, `FewPasswords`,
  `NoNeedlessPassword` and `NoTokenLost`, the last an action property, for any
  users, options, lengths of the list, confirmations and faults.  `CountInv`
  is what `PasswordsBounded` needs: the passwords rejected by earlier servers
  and on this connection are counted apart, and the one under way is not
  rejected yet.

`DepotManifest_proofs` has the lemmas about the operators of `DepotManifest`,
for manifests of any length: what parsing either format, whole or cut, gives
back, that sorting keeps every entry once, and what an attempt to decrypt the
names leaves behind, however far it came.

`FfiClient_proofs`:

- `HandleMatchesSession` and `OnlyOwnTokensChange`: `CopyInv` says that the
  copy behind the only open handle differs from the file in nothing but what
  was set through it.
- `EveryFileOnce` and `FlagIsTrue`: `[]WholeManifest` and `[]NamesReadable`
  for published manifests of any length in which no file is listed twice
  (`PublishedAssumption`).  `ManifestInv` says that the
  manifest held is `Faithful`: its entries are the published ones in some
  order, and all their names are legible if the flag says so.
- `TypeCorrect`: `Spec => []TypeOK`, from these invariants and the types of
  the authentication sessions and token stores.

`KeyValue_proofs` has the lemmas about the parsers, for trees of any size.
The provers cannot instantiate the induction theorems of the library, so what
needs induction is proved from the least number for which it would fail
(`LeastOf`); `ParseDefined` shows in this way that the recursive function of
`parse_children` satisfies its equation.  `Reads(form, tokens, map)` says of a
sequence of tokens what the parser makes of it wherever it stands: if all of it
is there, the rest of the section with `map` added, and if the input ends within
it, children that are a `Part` of `map`, that is some of its children with parts
of their own.  `ReadsLeaf`, `ReadsJoined` and `ReadsSection` build it up along
the tree.  `PickedTakes` and `GetFinds` are about lookups.

`Commands_proofs`, for any apps, command lines, manifests and faults, from
`WordAssumption` (the keys that the program looks for are not numbers, and in
lower case as the ids are), `LineAssumption` (what `cli.rs` lets through),
`AppAssumption` (ids are numbers, or sealed in `encryptedmanifests`),
`SealedAssumption`, `FilesAssumption` (a published manifest
lists a file once and says so if its names are encrypted) and `KeyAssumption`:

- `AppReadBack`: an app info of any size is read back as the tree that was
  sent, in either form, and one that was cut after any token as a part of it.
  `FlattenDefined` and `ReadsEach` carry `Reads` over the maps of depots and
  branches, whose sections may come in any order.
- On it rest the lemmas about the `discover_*` functions: `ManifestsFound` and
  `IdFound` (the manifest found for a depot and a branch is the app's, and none
  is found only if there is none), `FilteredDepots` (exactly the depots that
  suit), `BranchesFound` and `BuildFound`.  With a cut app info they say less:
  an id is still one of the same depot.
- `CommandsInvariant`, and from it `TypeCorrect`, `RightManifests`,
  `NoDepotLeftOut` and `InstalledReadably`: `[]TypeOK`, `[]RightManifest`,
  `[]AllDepots` and `[]ReadableNames`.  None of the four is inductive: they
  speak of what was handed on, the invariant `IInv` of what is in hand on the
  way there.  `StageOK` says what there is at which step (the app info, a
  server, a depot in progress), `ManifestOK` that the manifest in hand is the
  one published under its id, with readable names if it goes to a download's
  job, `IdOK` that the id is a right one for the first depot to do and that a
  download turns to "public" only if the branch has none, `DepotsOK` that the
  depots done and to do are together the ones chosen, and `DoneOK` is about
  each entry handed on.  One lemma per action shows that it is kept.

Only model-checked: liveness (`Terminates`, `Converges`, `LoneCallReturns`,
`EveryCallReturns`, `RunEnds`, `LoginWorks`, `Served`, and the fair part of
`ImplementsAtomicFile`), which TLAPS cannot prove.  Every invariant and action
property of the passing runs is a theorem.

## 5. Not modelled

- cryptography and decompression (libraries), the Adler-32 and CRC sums: pure
  functions on bytes, used through their contracts;
- generated protocol code, message headers, ids and enums: byte layouts and
  tables without state; a message whose header cannot be read is a garbled one
  of `CmClient`;
- the recording and replaying transports, which serve tests and debugging;
- the CDN client beyond "answers, fails or never ends", and the detection of a
  Lancache, which only chooses the number of permits;
- the parsing of file filters: a filter is the set of names it accepts;
- the wording of messages, output formats and the progress display;
- who owns memory across the C interface, and the Python example built on it.
