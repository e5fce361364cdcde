------------------------------ MODULE Commands ------------------------------
(***************************************************************************)
(* The commands after the login: from the app info to the manifests that   *)
(* are installed or listed.                                                *)
(*                                                                         *)
(*   crates/depotdownloader/src/main.rs   run_info, run_manifests,         *)
(*                    run_files, run_download, run_workshop, discover_*    *)
(*   crates/depotdownloader/src/cli.rs    from_modern, from_compat         *)
(*   crates/steam/src/content/mod.rs      CDN servers, request codes       *)
(*                                                                         *)
(* What Steam knows of an app reaches the program as a KeyValue tree, in   *)
(* either form.  How a job installs a manifest, and when it need not, is   *)
(* the matter of DepotInstall, which takes the choice made here as given.  *)
(***************************************************************************)
EXTENDS DepotManifest, KeyValue

SE == INSTANCE SequencesExt

CONSTANTS
    Apps,           \* what there may be: [depots, builds]
    Lines,          \* command lines, see CommandLine
    Files,          \* manifest id -> [encrypted, files]
    Numbers,        \* the strings that are numbers
    Sealed,         \* encrypted ids: readable with the password of the branch
    MaxFaults       \* bound: faults in all

ASSUME BoundAssumption == MaxFaults \in Nat

\* the keys of the tree that the program looks for; like the ids they are
\* lower case
Words ==
    {"appinfo", "depots", "branches", "buildid", "manifests", "encryptedmanifests", "gid",
     "oslist", "osarch", "language"}

ASSUME SealedAssumption == Sealed \cap Numbers = {} /\ NoString \notin Sealed

ASSUME WordAssumption ==
    /\ Words \cup {"public"} \subseteq Keys
    /\ Words \cap Numbers = {} /\ NoString \notin Numbers
    /\ \A k \in Words \cup (Numbers \cap Keys) : Lower[k] = k

\* a command line of either style, see cli.rs for what goes together
CommandLine ==
    [compat : BOOLEAN, command : {"info", "manifests", "files", "download", "workshop"},
     app : BOOLEAN, manifest_only : BOOLEAN, pubfile : BOOLEAN, depots : Seq(Numbers),
     manifests : Seq(Numbers), branch : Keys, password : BOOLEAN, os : STRING, arch : STRING,
     language : STRING, output : BOOLEAN, raw : BOOLEAN]

ASSUME LineAssumption ==
    \A line \in Lines :
        /\ line \in CommandLine
        /\ line.command = "files" => Len(line.depots) = 1
        /\ line.raw => line.command = "files" /\ ~line.compat

ASSUME FilesAssumption == \A id \in DOMAIN Files : WellPublished(Files[id])

(***************************************************************************)
(* An app has depots, id -> [os, arch, language, public, encrypted], where *)
(* public and encrypted map branches to manifest ids, and builds, a map    *)
(* from branches to build ids.  In encrypted an id may be sealed.          *)
(***************************************************************************)
IsIdMap(f, ids) == DOMAIN f \subseteq Keys /\ f \in [DOMAIN f -> ids]

ASSUME AppAssumption ==
    \A a \in Apps :
        /\ DOMAIN a.depots \subseteq Numbers \cap Keys
        /\ \A d \in DOMAIN a.depots :
              /\ IsIdMap(a.depots[d].public, Numbers)
              /\ IsIdMap(a.depots[d].encrypted, Numbers \cup Sealed)
        /\ IsIdMap(a.builds, Numbers)

None == NoString

Section(form, key, tokens) == <<Opens(form, key)>> \o tokens \o <<Closes(form)>>

\* the sequences that a function has as values, one after the other
Each(f) ==
    SE!FlattenSeq([i \in 1 .. Cardinality(DOMAIN f) |-> f[SE!SetToSeq(DOMAIN f)[i]]])

Field(form, key, value) == IF value = None THEN <<>> ELSE <<Leaf(form, key, value)>>

\* a section of sections, each with one value
Values(form, key, values, name) ==
    Section(form, key,
        Each([b \in DOMAIN values |-> Section(form, b, <<Leaf(form, name, values[b])>>)]))

Gids(form, key, ids) == IF DOMAIN ids = {} THEN <<>> ELSE Values(form, key, ids, "gid")

DepotTokens(form, d) ==
    Field(form, "oslist", d.os) \o Field(form, "osarch", d.arch)
    \o Field(form, "language", d.language)
    \o Gids(form, "manifests", d.public) \o Gids(form, "encryptedmanifests", d.encrypted)

\* what Steam sends about an app
AppInfo(form, a) ==
    Section(form, "appinfo",
        Section(form, "depots",
            Each([d \in DOMAIN a.depots |-> Section(form, d, DepotTokens(form, a.depots[d]))])
            \o Values(form, "branches", a.builds, "buildid")))

VARIABLES
    cmd,            \* the command, with its options
    pc,
    infos,          \* the answer of get_app_info: tokens
    servers,        \* CDN servers
    depots,         \* the depots of a download
    todo,           \* depots still to do, the first one in progress
    manifest_id,
    code,           \* the manifest request code
    manifest,       \* DepotManifest, or Error
    done,           \* manifests handed to a job or to the user, in order
    verdict

\* the other side, bound and history
VARIABLES
    app,            \* what Steam knows
    whole,          \* its answer arrived whole
    faults

vars == <<cmd, pc, infos, servers, depots, todo, manifest_id, code, manifest, done, verdict,
          app, whole, faults>>

-----------------------------------------------------------------------------
(* The command line.                                                       *)

First(s) == IF s = <<>> THEN <<>> ELSE <<Head(s)>>

\* -app is needed for every command, -pubfile too; -manifest-only lists the
\* first depot given, in the first manifest given
from_compat(line) ==
    IF ~line.app THEN [line EXCEPT !.command = "error"]
    ELSE IF line.manifest_only
    THEN [line EXCEPT !.command = IF line.depots = <<>> THEN "error" ELSE "files",
                      !.depots = First(@), !.manifests = First(@), !.raw = FALSE]
    ELSE [line EXCEPT !.command = IF line.pubfile THEN "workshop" ELSE "download"]

from_modern(line) == line

Init ==
    /\ \E line \in Lines :
          cmd = IF line.compat THEN from_compat(line) ELSE from_modern(line)
    /\ app \in Apps
    /\ pc = "start"
    /\ infos = <<>> /\ servers = <<>> /\ depots = <<>> /\ todo = <<>>
    /\ manifest_id = None /\ code = None /\ manifest = Error
    /\ done = <<>> /\ verdict = None
    /\ whole = TRUE /\ faults = 0

-----------------------------------------------------------------------------
(* Reading the app info.                                                   *)

\* text first, then binary; neither: as if there were no info at all
FirstTree(text, binary) ==
    IF text.ok THEN text.node ELSE IF binary.ok THEN binary.node ELSE Missing

parse_app_kv(data) == FirstTree(parse_text_kv(data), parse_binary_kv(data))

\* a string that is no number is as good as none
Number(s) == IF s \in Numbers THEN s ELSE None

DepotsSection(data) == get(parse_app_kv(data), "depots")

NumbersOf(keys) == Picked(keys, {i \in DOMAIN keys : keys[i] \in Numbers})

DepotKeys(data) == NumbersOf(InOrder(DepotsSection(data).children))

Detail(id, value) ==
    [id |-> id,
     os_list |-> as_str(get(value, "oslist")),
     os_arch |-> as_str(get(value, "osarch")),
     language |-> as_str(get(value, "language"))]

Details(section, keys) == [i \in DOMAIN keys |-> Detail(keys[i], section.children[keys[i]])]

\* in the order of the ids as strings
discover_depot_details(data) == Details(DepotsSection(data), DepotKeys(data))

\* the names in a list with commas; those of the model have no blanks to
\* trim, and no upper case for the comparison to ignore
Split(list) == IF list = "windows,linux" THEN {"windows", "linux"} ELSE {list}

\* mutant: a depot that names no system is for none
matches_Named(depot) ==
    /\ cmd.os # None => cmd.os \in Split(depot.os_list)
    /\ cmd.arch # None /\ depot.os_arch # None => depot.os_arch = cmd.arch
    /\ cmd.language # None /\ depot.language # None => depot.language = cmd.language

\* DepotFilter::matches: only what both sides name can differ; --all-... is
\* no filter
matches(depot) ==
    /\ cmd.os # None /\ depot.os_list # None => cmd.os \in Split(depot.os_list)
    /\ cmd.arch # None /\ depot.os_arch # None => depot.os_arch = cmd.arch
    /\ cmd.language # None /\ depot.language # None => depot.language = cmd.language

Matching(details) == Picked(details, {i \in DOMAIN details : matches(details[i])})

Ids(details) == [i \in DOMAIN details |-> details[i].id]

discover_depots_filtered(data) == Ids(Matching(discover_depot_details(data)))

Branches(section, names) ==
    [i \in DOMAIN names |->
        [name |-> names[i],
         build_id |-> Number(as_str(get(section.children[names[i]], "buildid")))]]

BranchesIn(section) == Branches(section, InOrder(section.children))

discover_branches(data) == BranchesIn(get(DepotsSection(data), "branches"))

\* upper and lower case count here, and only here
Named(branches, branch) ==
    Picked(branches, {i \in DOMAIN branches : branches[i].name = branch})

FirstBuild(branches) == IF branches = <<>> THEN None ELSE Head(branches).build_id

discover_build_id(data, branch) == FirstBuild(Named(discover_branches(data), branch))

GidIn(depot, section, branch) ==
    Number(as_str(get(get(get(depot, section), branch), "gid")))

\* the id in manifests, or else the one in encryptedmanifests, marked as such
ManifestInfo(depot, branch, public, encrypted) ==
    [depot |-> depot, branch |-> branch,
     manifest |-> IF public # None THEN public ELSE encrypted,
     encrypted |-> public = None /\ encrypted # None]

\* the entry for one depot
ManifestEntry(kv, depot, branch) ==
    ManifestInfo(depot, branch,
        GidIn(kv, "manifests", branch), GidIn(kv, "encryptedmanifests", branch))

ManifestEntries(section, keys, branch) ==
    [i \in DOMAIN keys |-> ManifestEntry(section.children[keys[i]], keys[i], branch)]

\* filter is a depot, or None
Only(filter, keys) == Picked(keys, {i \in DOMAIN keys : filter \in {None, keys[i]}})

discover_manifests_for_branch(data, branch, filter) ==
    ManifestEntries(DepotsSection(data), Only(filter, DepotKeys(data)), branch)

WithManifest(entries) == Picked(entries, {i \in DOMAIN entries : entries[i].manifest # None})

FirstManifest(entries) == IF entries = <<>> THEN None ELSE Head(entries).manifest

\* mutant: the depot is not looked at
discover_manifest_id_Any(data, depot, branch) ==
    FirstManifest(WithManifest(discover_manifests_for_branch(data, branch, None)))

discover_manifest_id(data, depot, branch) ==
    FirstManifest(WithManifest(discover_manifests_for_branch(data, branch, depot)))

-----------------------------------------------------------------------------
(* Steps that commands share.                                              *)

Fault == faults < MaxFaults /\ faults' = faults + 1

Ends(how) == pc' = "done" /\ verdict' = how

Goes(next) == pc' = next /\ UNCHANGED verdict

\* an answer that is an error, or none
CallFails ==
    /\ \/ pc \in {"info", "servers", "code", "manifest", "details", "url"}
       \/ pc = "key" /\ cmd.command # "files"
    /\ Fault
    /\ Ends("error")
    /\ UNCHANGED <<cmd, infos, servers, depots, todo, manifest_id, code, manifest, done, app, whole>>

\* what each command starts with; files needs no app info if it is given a
\* manifest
Start ==
    /\ pc = "start"
    /\ \/ cmd.command \in {"info", "manifests", "download"} /\ Goes("info")
       \/ /\ cmd.command = "files"
          /\ Goes(IF cmd.manifests = <<>> THEN "info" ELSE "servers")
       \/ cmd.command = "workshop" /\ Goes("details")
       \/ cmd.command = "error" /\ Ends("error")
    /\ todo' = IF cmd.command = "files" THEN cmd.depots ELSE todo
    /\ manifest_id' = IF cmd.command = "files" /\ cmd.manifests # <<>>
                      THEN Head(cmd.manifests) ELSE manifest_id
    /\ UNCHANGED <<cmd, infos, servers, depots, code, manifest, done, app, whole, faults>>

\* the tree, in either form; it may come cut short, or not at all
get_app_info ==
    /\ pc = "info"
    /\ \E form \in {"text", "binary"} :
          \/ infos' = AppInfo(form, app) /\ UNCHANGED <<whole, faults>>
          \/ /\ \E n \in 0 .. Len(AppInfo(form, app)) - 1 :
                   infos' = SubSeq(AppInfo(form, app), 1, n)
             /\ whole' = FALSE /\ Fault
    /\ Goes(CASE cmd.command = "download" -> "servers"
              [] cmd.command = "files" -> "resolve"
              [] OTHER -> "list")
    /\ UNCHANGED <<cmd, servers, depots, todo, manifest_id, code, manifest, done, app>>

ServerInfo == [host : {"missing", "name", "name:port", "name:x"}, https_support : {"mandatory", "none"}]

\* a port that is no number makes the entry unusable
parse_server_info(info) ==
    [usable |-> info.host \in {"name", "name:port"},
     https |-> info.https_support = "mandatory",
     port |-> IF info.host = "name:port" THEN "port"
              ELSE IF info.https_support = "mandatory" THEN "443" ELSE "80"]

\* mutant: an empty list is not looked for
get_cdn_servers_Unchecked ==
    /\ pc = "servers"
    /\ \E n \in 0 .. 2 : \E list \in [1 .. n -> ServerInfo] :
          servers' = SelectSeq([i \in 1 .. n |-> parse_server_info(list[i])], LAMBDA s : s.usable)
    /\ Goes(IF cmd.command = "download" THEN "depots"
            ELSE IF cmd.command = "workshop" THEN "key" ELSE "code")
    /\ UNCHANGED <<cmd, infos, depots, todo, manifest_id, code, manifest, done, app, whole, faults>>

\* entries that cannot be used are passed over; none left is an error
get_cdn_servers ==
    /\ pc = "servers"
    /\ \E n \in 0 .. 2 : \E list \in [1 .. n -> ServerInfo] :
          servers' = SelectSeq([i \in 1 .. n |-> parse_server_info(list[i])], LAMBDA s : s.usable)
    /\ \/ servers' = <<>> /\ Ends("error")
       \/ /\ servers' # <<>>
          /\ Goes(IF cmd.command = "download" THEN "depots"
                  ELSE IF cmd.command = "workshop" THEN "key" ELSE "code")
    /\ UNCHANGED <<cmd, infos, depots, todo, manifest_id, code, manifest, done, app, whole, faults>>

\* Steam gives a code for a manifest of the branch that is asked for, and
\* may give none for any other: 0, which leaves it out of the URL; the token
\* of the CDN server, asked for next, is left out too if there is none
get_manifest_request_code ==
    /\ pc = "code"
    /\ code' \in {"code", "0"}
    /\ Goes("manifest")
    /\ UNCHANGED <<cmd, infos, servers, depots, todo, manifest_id, manifest, done, app, whole, faults>>

\* the cache, or always the first of the servers; a manifest that is not there
\* or cannot be parsed is an error
download_manifest ==
    /\ pc = "manifest" /\ servers # <<>>
    /\ \/ manifest_id \notin DOMAIN Files /\ manifest' = Error /\ UNCHANGED faults
       \/ /\ manifest_id \in DOMAIN Files
          /\ \E w \in BOOLEAN :
                /\ manifest' = extract_and_parse(
                      [whole |-> w,
                       data |-> Written5(Files[manifest_id].encrypted, Files[manifest_id].files)])
                /\ IF w THEN UNCHANGED faults ELSE Fault
    /\ IF manifest' = Error THEN Ends("error")
       ELSE Goes(IF ~manifest'.filenames_encrypted \/ cmd.raw THEN "give"
                 ELSE IF cmd.command = "files" THEN "key" ELSE "names")
    /\ UNCHANGED <<cmd, infos, servers, depots, todo, manifest_id, code, done, app, whole>>

Kept == UNCHANGED <<cmd, infos, servers, code, app, whole>>

-----------------------------------------------------------------------------
(* run_info, run_manifests: one list of manifests per branch.              *)

Listed(entries) ==
    [i \in DOMAIN entries |->
        [depot |-> entries[i].depot, branch |-> entries[i].branch,
         manifest |-> entries[i].manifest, dir |-> None, files |-> <<>>]]

ListPerBranch(data, branches) ==
    [i \in DOMAIN branches |-> discover_manifests_for_branch(data, branches[i].name, None)]

run_info ==
    /\ pc = "list" /\ cmd.command = "info"
    /\ done' = Listed(SE!FlattenSeq(ListPerBranch(infos, discover_branches(infos))))
    /\ Ends("ok")
    /\ UNCHANGED <<todo, depots, manifest_id, manifest, faults>> /\ Kept

\* all depots, or the one given; a list without any is an error
run_manifests ==
    /\ pc = "list" /\ cmd.command = "manifests"
    /\ done' = Listed(discover_manifests_for_branch(infos, cmd.branch,
                          IF cmd.depots = <<>> THEN None ELSE Head(cmd.depots)))
    /\ Ends(IF done' = <<>> THEN "error" ELSE "ok")
    /\ UNCHANGED <<todo, depots, manifest_id, manifest, faults>> /\ Kept

-----------------------------------------------------------------------------
(* run_download: which depots, and which manifest of each.                 *)

choose_depots ==
    /\ pc = "depots"
    /\ depots' = IF cmd.depots = <<>> THEN discover_depots_filtered(infos) ELSE cmd.depots
    /\ todo' = depots'
    /\ IF depots' = <<>> THEN Ends("error") ELSE Goes("key")
    /\ UNCHANGED <<manifest_id, manifest, done, faults>> /\ Kept

\* --manifest: paired with the depots in their order, whichever they are;
\* of a depot given twice the later pair counts
Explicit(depot) ==
    {i \in DOMAIN depots : depots[i] = depot /\ i <= Len(cmd.manifests)}

ExplicitManifest(depot) ==
    cmd.manifests[CHOOSE i \in Explicit(depot) : \A j \in Explicit(depot) : j <= i]

Resolved(id) ==
    /\ manifest_id' = id
    /\ Goes("code")

\* resolve_manifest_id, files: the branch's own manifest, or an error
resolve_for_files ==
    /\ pc = "resolve" /\ cmd.command = "files"
    /\ LET own == discover_manifest_id(infos, Head(todo), cmd.branch)
       IN  \/ own # None /\ manifest_id' = own /\ Goes("servers")
           \/ own = None /\ Ends("error") /\ UNCHANGED manifest_id
    /\ UNCHANGED <<todo, depots, manifest, done, faults>> /\ Kept

resolve_manifest_id ==
    /\ pc = "resolve" /\ cmd.command = "download"
    /\ LET own == discover_manifest_id(infos, Head(todo), cmd.branch)
           given == Explicit(Head(todo)) # {}
       IN  \/ given /\ Resolved(ExplicitManifest(Head(todo)))
           \/ ~given /\ own # None /\ Resolved(own)
           \/ /\ ~given /\ own = None
              /\ Goes(IF cmd.password THEN "password" ELSE "fallback")
              /\ UNCHANGED manifest_id
    /\ UNCHANGED <<todo, depots, manifest, done, faults>> /\ Kept

\* the password is accepted or not, or the call fails
check_beta_password ==
    /\ pc = "password"
    /\ \/ Goes("accepted")
       \/ Goes("fallback")
    /\ UNCHANGED <<todo, depots, manifest_id, manifest, done, faults>> /\ Kept

\* nothing is fetched again: the same search in the same app info
search_again ==
    /\ pc = "accepted"
    /\ LET own == discover_manifest_id(infos, Head(todo), cmd.branch)
       IN  /\ manifest_id' = IF own # None THEN own ELSE manifest_id
           /\ Goes(IF own # None THEN "code" ELSE "locked")
    /\ UNCHANGED <<todo, depots, manifest, done, faults>> /\ Kept

fall_back_to_public ==
    /\ pc \in {"fallback", "locked"}
    /\ LET public == discover_manifest_id(infos, Head(todo), "public")
       IN  \/ cmd.branch # "public" /\ public # None /\ Resolved(public)
           \/ /\ cmd.branch = "public" \/ public = None
              /\ Ends("error") /\ UNCHANGED manifest_id
    /\ UNCHANGED <<todo, depots, manifest, done, faults>> /\ Kept

-----------------------------------------------------------------------------
(* run_workshop                                                            *)

\* the item has a file of its own, or a manifest in the depot of its app;
\* an item without details, app or content is an error
get_details ==
    /\ pc = "details"
    /\ \/ Goes("url") /\ UNCHANGED <<todo, manifest_id>>
       \/ /\ todo' \in {<<d>> : d \in DOMAIN app.depots} /\ manifest_id' \in DOMAIN Files
          /\ Goes("servers")
       \/ Ends("error") /\ UNCHANGED <<todo, manifest_id>>
    /\ UNCHANGED <<depots, manifest, done, faults>> /\ Kept

download_url ==
    /\ pc = "url"
    /\ Ends("ok")
    /\ UNCHANGED <<todo, depots, manifest_id, manifest, done, faults>> /\ Kept

-----------------------------------------------------------------------------
(* The names, and what the manifest is for.                                *)

\* files lists encrypted names when there is no key
get_depot_decryption_key ==
    /\ pc = "key"
    /\ \/ /\ Goes(CASE cmd.command = "download" -> "resolve"
                    [] cmd.command = "workshop" -> "code"
                    [] OTHER -> "names")
          /\ UNCHANGED faults
       \/ cmd.command = "files" /\ Fault /\ Goes("give")
    /\ UNCHANGED <<todo, depots, manifest_id, manifest, done>> /\ Kept

\* mutant: an error is not looked at
decrypt_names_Ignored ==
    /\ pc = "names"
    /\ \E d \in decrypt_filenames(manifest, "right") : manifest' = d.m
    /\ Goes("give")
    /\ UNCHANGED <<todo, depots, manifest_id, done, faults>> /\ Kept

\* the workshop command goes on after an error, with the names there are
decrypt_names ==
    /\ pc = "names"
    /\ \E d \in decrypt_filenames(manifest, "right") :
          /\ manifest' = d.m
          /\ IF d.ok \/ cmd.command = "workshop" THEN Goes("give") ELSE Ends("error")
    /\ UNCHANGED <<todo, depots, manifest_id, done, faults>> /\ Kept

InstallDir ==
    IF cmd.command # "download" \/ cmd.output THEN "output"
    ELSE discover_build_id(infos, cmd.branch)

\* a job for the manifest, or its list of files; the next depot, if any
give ==
    /\ pc = "give"
    /\ done' = Append(done, [depot |-> Head(todo), branch |-> cmd.branch,
                             manifest |-> manifest_id, dir |-> InstallDir,
                             files |-> manifest.files])
    /\ todo' = Tail(todo)
    /\ IF todo' = <<>> THEN Ends("ok") ELSE Goes("key")
    /\ UNCHANGED <<depots, manifest_id, manifest, faults>> /\ Kept

\* a job that fails, or a file filter that is wrong, ends the command
JobFails ==
    /\ pc = "give" /\ cmd.command # "files" /\ Fault
    /\ Ends("error")
    /\ UNCHANGED <<todo, depots, manifest_id, manifest, done>> /\ Kept

Next ==
    \/ CallFails \/ Start \/ get_app_info \/ get_cdn_servers
    \/ get_manifest_request_code \/ download_manifest
    \/ run_info \/ run_manifests
    \/ choose_depots \/ resolve_for_files \/ resolve_manifest_id
    \/ check_beta_password \/ search_again \/ fall_back_to_public
    \/ get_details \/ download_url
    \/ get_depot_decryption_key \/ decrypt_names \/ give \/ JobFails

Spec == Init /\ [][Next]_vars

-----------------------------------------------------------------------------
(* Properties, said of the app and not of its tree.                        *)

\* The type invariant: with it, the first of the servers is always there.
TypeOK ==
    /\ cmd.command \in {"info", "manifests", "files", "download", "workshop", "error"}
    /\ pc \in {"start", "info", "list", "servers", "depots", "key", "resolve", "password",
               "accepted", "locked", "fallback", "code", "manifest", "details", "url", "names",
               "give", "done"}
    /\ pc \in {"depots", "code", "manifest", "names", "give"} => servers # <<>>
    /\ pc \in {"names", "give"} => manifest_id \in DOMAIN Files
    /\ code \in {None, "code", "0"}
    /\ \A i \in DOMAIN todo : todo[i] \in Numbers
    /\ verdict \in {None, "ok", "error"} /\ (verdict # None) = (pc = "done")
    /\ whole \in BOOLEAN /\ faults \in 0 .. MaxFaults

Known(depot) == depot \in DOMAIN app.depots

Listing == cmd.command \in {"info", "manifests"}

\* the readable ids among those of a branch, whatever the case of its name;
\* None stands for a sealed one
In(ids, branch) == {Number(ids[b]) : b \in {c \in DOMAIN ids : Lower[c] = Lower[branch]}}

\* the manifest of a branch, or None: of manifests first, then of
\* encryptedmanifests
Own(depot, branch) ==
    LET d == app.depots[depot]
    IN  IF ~Known(depot) THEN {None}
        ELSE IF In(d.public, branch) # {} THEN In(d.public, branch)
        ELSE IF In(d.encrypted, branch) # {} THEN In(d.encrypted, branch) ELSE {None}

Wanted(depot, branch) ==
    Own(depot, branch)
    \cup IF cmd.command = "download" /\ None \in Own(depot, branch)
         THEN Own(depot, "public") ELSE {}

\* all that the app may say of a depot, or None
Its(depot) ==
    LET Readable(ids) == {Number(ids[b]) : b \in DOMAIN ids}
        d == app.depots[depot]
    IN  {None} \cup IF Known(depot) THEN Readable(d.public) \cup Readable(d.encrypted) ELSE {}

\* the depots that --manifest is about
Asked == IF cmd.depots # <<>> THEN cmd.depots ELSE depots

\* given for a depot: at its place among the depots
Given(depot) ==
    {cmd.manifests[i] :
        i \in {j \in DOMAIN Asked \cap DOMAIN cmd.manifests : ~Listing /\ Asked[j] = depot}}

\* in the order of the ids as strings
EarlierKey(a, b) == \E i, j \in DOMAIN KeyOrder : i < j /\ KeyOrder[i] = a /\ KeyOrder[j] = b

TextOrder ==
    cmd.depots = <<>> =>
        \A i, j \in DOMAIN depots : i < j => EarlierKey(depots[i], depots[j])

(***************************************************************************)
(* RightManifest: whatever is installed or listed for a depot is the       *)
(* manifest asked for (main.rs:622-668, 1394-1450): the one --manifest     *)
(* gives at the place of this depot, where the places are those of --depot *)
(* or else of the app's depots in the order of their ids as text; or else  *)
(* the app's for this depot and branch, a download's from "public" only if *)
(* the branch has none that can be read.  A download goes to the directory *)
(* of the branch's build.  If the app info was cut short, it may be the id *)
(* of another branch, but never another depot's.                           *)
(*                                                                         *)
(* This is what the code does, also where its comments differ: an id that  *)
(* only encryptedmanifests has is taken without a password, which main.rs: *)
(* 1263-1264 says it requires, and "public" after a password was accepted  *)
(* (PasswordOpens).                                                        *)
(***************************************************************************)
RightManifest ==
    cmd.command # "workshop" =>
        /\ TextOrder
        /\ \A i \in DOMAIN done :
              LET d == done[i]
              IN  /\ IF Given(d.depot) # {} THEN d.manifest \in Given(d.depot)
                     ELSE /\ d.manifest \in IF whole THEN Wanted(d.depot, d.branch) ELSE Its(d.depot)
                          /\ d.manifest # None \/ Listing
                  /\ whole /\ cmd.command = "download" /\ ~cmd.output
                        /\ cmd.branch \in DOMAIN app.builds
                       => d.dir = app.builds[cmd.branch]

(***************************************************************************)
(* PasswordOpens: once the branch password is accepted, the manifest of    *)
(* the branch is found if encryptedmanifests has one.  This is what the    *)
(* comment at main.rs:1430-1432 says ("Re-fetch app info now that we've    *)
(* validated the password", "The encrypted manifest GID should now be      *)
(* accessible"); the code fetches nothing and goes on with "public".       *)
(***************************************************************************)
PasswordOpens ==
    pc = "locked" /\ whole /\ Known(Head(todo)) =>
        In(app.depots[Head(todo)].encrypted, cmd.branch) = {}

\* what the app says of a depot does not exclude it
Suits(d) ==
    LET depot == app.depots[d]
    IN  /\ cmd.os # None => depot.os = None \/ cmd.os \in Split(depot.os)
        /\ cmd.arch # None => depot.arch \in {None, cmd.arch}
        /\ cmd.language # None => depot.language \in {None, cmd.language}

(***************************************************************************)
(* AllDepots: a download that ends well has done every depot it was asked  *)
(* for, or every one of the app that suits its filters, and no other; one  *)
(* depot that cannot be resolved, fetched or decrypted makes it fail.      *)
(***************************************************************************)
AllDepots ==
    cmd.command = "download" /\ verdict = "ok" /\ whole =>
        {done[i].depot : i \in DOMAIN done} =
            IF cmd.depots # <<>> THEN {cmd.depots[i] : i \in DOMAIN cmd.depots}
            ELSE {d \in DOMAIN app.depots : Suits(d)}

(***************************************************************************)
(* ReadableNames: a download installs no file under an encrypted name,     *)
(* also when the decryption stops half way through the manifest.  (The     *)
(* workshop command does: it ignores the error, main.rs:1032.)             *)
(***************************************************************************)
ReadableNames ==
    cmd.command = "download" =>
        \A i \in DOMAIN done : \A j \in DOMAIN done[i].files :
            done[i].files[j].name.kind \notin {"secret", "damaged"}
=============================================================================
