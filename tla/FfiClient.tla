----------------------------- MODULE FfiClient -----------------------------
(***************************************************************************)
(* The C interface (crates/steam-ffi/src/lib.rs): the client whose state   *)
(* is a value and no longer a type, manifests and the token store.         *)
(*                                                                         *)
(* The program on the other side calls whatever it likes in any order, one *)
(* call at a time: every call blocks until its answer is there, and fails  *)
(* on a client in the wrong state, on text that is not UTF-8 and when the  *)
(* call behind it fails.  What happens inside a call is the matter of      *)
(* module CmClient.  Lists and numbers a call hands over are arguments of  *)
(* the calls that take them, chosen freely.                                *)
(***************************************************************************)
EXTENDS DepotManifest

CONSTANTS
    Programs,       \* which parts of the interface a program uses
    Servers,        \* length of the list of CM servers, and of CDN servers
    Published,      \* manifests: [encrypted, files]
    Stores,         \* handles of the token store
    Users,
    NotText,        \* bytes that are not UTF-8
    Tokens,
    MaxFaults       \* bound: faults in all

ASSUME ProgramAssumption == Programs \subseteq {"client", "manifest", "store"}

ASSUME PublishedAssumption == \A p \in Published : WellPublished(p)

ASSUME BoundAssumption == Servers \in Nat /\ MaxFaults \in Nat

NoAuth == [ids |-> {}, allowed |-> <<>>]

None == "none"

VARIABLES
    uses,           \* the part this program uses
    client,         \* SteamClient's Option<SteamClientInner>, or no handle
    auth,           \* AuthSession, or NoAuth
    tokens,         \* the program has AuthTokens
    result,         \* of the last call: its name, or "error"
    manifest,       \* DepotManifest, or Error
    copy,           \* TokenStore handle -> user -> token
    file            \* tokens.json: user -> token

\* the other side of the wire, bound and history
VARIABLES
    session,        \* the connection, as the CM server sees it
    confirmed,      \* the login has been confirmed
    sent,           \* the publisher's version of the manifest
    format,         \* and the file format it was sent in
    faults,
    mine,           \* handle -> users it has set since it was loaded
    shared,         \* two handles have been open at once
    cut             \* a read or a write of tokens.json failed

clientVars == <<client, session>>
authVars == <<auth, tokens, confirmed>>
manifestVars == <<manifest, sent, format>>
storeVars == <<copy, file, mine, shared, cut>>
vars == <<uses, clientVars, authVars, result, manifestVars, storeVars, faults>>

Names == Users \cup {""}

Empty == [u \in Names |-> None]

Closed == [open |-> FALSE, map |-> Empty]

Init ==
    /\ uses \in Programs
    /\ client = None /\ session = None
    /\ auth = NoAuth /\ tokens = FALSE /\ confirmed = FALSE
    /\ result = None
    /\ manifest = Error /\ sent \in Published /\ format \in {4, 5}
    /\ copy = [h \in Stores |-> Closed] /\ file = Empty
    /\ mine = [h \in Stores |-> {}] /\ shared = FALSE /\ cut = FALSE
    /\ faults = 0

Fault == faults < MaxFaults /\ faults' = faults + 1

-----------------------------------------------------------------------------
(* SteamClient                                                             *)

\* The call is answered, changing what its caller says.
Answered(call) ==
    /\ session # "broken"
    /\ result' = call
    /\ UNCHANGED <<uses, manifestVars, storeVars>>

Failed ==
    /\ result' = "error"
    /\ UNCHANGED <<uses, clientVars, authVars, manifestVars, storeVars>>

\* as_encrypted, as_logged_in: a client of the other state, or a consumed one
WrongState(wanted) == uses = "client" /\ client \notin {None, wanted} /\ Failed /\ UNCHANGED faults

\* the connection is broken, an argument is no text, the answer is an error
\* or cannot be used
CallFails(wanted) ==
    /\ uses = "client" /\ client = wanted
    /\ \/ session = "broken" /\ UNCHANGED faults
       \/ Fault
    /\ Failed

connect(index) ==
    /\ uses = "client" /\ client = None
    /\ \/ /\ index < Servers
          /\ client' = "Encrypted" /\ session' = "open"
          /\ result' = "connect"
          /\ UNCHANGED <<uses, authVars, manifestVars, storeVars, faults>>
       \/ index < Servers /\ Fault /\ Failed
       \* server index out of bounds
       \/ index >= Servers /\ Failed /\ UNCHANGED faults

\* the program frees the handle
Free ==
    /\ client # None
    /\ client' = None /\ session' = None
    /\ UNCHANGED <<uses, authVars, result, manifestVars, storeVars, faults>>

\* mutant: a failed login gives the client back
login_Keeps(arguments) ==
    /\ uses = "client" /\ client # None
    /\ UNCHANGED <<uses, authVars, manifestVars, storeVars>>
    /\ \/ /\ client = "Encrypted" /\ session = "open" /\ arguments = "good"
          /\ client' = "LoggedIn" /\ session' = "loggedOn"
          /\ result' = "login" /\ UNCHANGED faults
       \/ /\ result' = "error" /\ UNCHANGED client
          /\ \/ Fault /\ session = "open" /\ session' \in {"open", "loggedOn"}
             \/ UNCHANGED <<faults, session>>

\* mutant: the client is taken and never put back
login_Takes(arguments) ==
    /\ uses = "client" /\ client # None
    /\ client' = "consumed" /\ session' = None
    /\ result' = "login"
    /\ UNCHANGED <<uses, authVars, manifestVars, storeVars, faults>>

\* login_anonymous, login_with_token: the client is taken first.  Only a
\* login that succeeds puts one back; in every other case it is dropped and
\* the connection closed: on a client that is logged in already, on bytes
\* that are no text, when the server refuses, when the answer is unusable,
\* though the server may have logged the client on.
login(arguments) ==
    /\ uses = "client" /\ client # None
    /\ UNCHANGED <<uses, authVars, manifestVars, storeVars>>
    /\ \/ /\ client = "Encrypted" /\ session = "open" /\ arguments = "good"
          /\ client' = "LoggedIn" /\ session' = "loggedOn"
          /\ result' = "login" /\ UNCHANGED faults
       \/ /\ \/ client # "Encrypted" \/ session = "broken" \/ arguments # "good"
          /\ client' = "consumed" /\ session' = None
          /\ result' = "error" /\ UNCHANGED faults
       \/ /\ client = "Encrypted" /\ Fault
          /\ client' = "consumed" /\ session' = None
          /\ result' = "error"

\* no token yet, or one that is not UTF-8
login_anonymous == login("good")

login_with_token(arguments) == (arguments = "good" => tokens) /\ login(arguments)

\* RsaPublicKey: fields that are missing become "" and 0, and no error
get_rsa_public_key ==
    /\ uses = "client" /\ client = "Encrypted"
    /\ Answered("rsa")
    /\ UNCHANGED <<clientVars, authVars, faults>>

Ids == {"client_id", "request_id", "steam_id"}

begin_auth_credentials ==
    /\ uses = "client" /\ client = "Encrypted"
    /\ Answered("begin")
    /\ \/ auth' = [ids |-> Ids, allowed |-> <<"DeviceConfirmation", "EmailCode">>]
          /\ UNCHANGED faults
       \* a field of the answer is missing
       \/ \E id \in Ids : auth' = [ids |-> Ids \ {id}, allowed |-> <<"EmailCode">>] /\ Fault
    /\ confirmed' = FALSE
    /\ UNCHANGED <<clientVars, tokens>>

Missing(ids) ==
    /\ uses = "client" /\ client = "Encrypted" /\ auth # NoAuth /\ ~(ids \subseteq auth.ids)
    /\ Failed /\ UNCHANGED faults

\* "auth session pending" is an error like any other
poll_auth ==
    /\ uses = "client" /\ client = "Encrypted"
    /\ {"client_id", "request_id"} \subseteq auth.ids
    /\ \/ /\ confirmed
          /\ tokens' = TRUE
          /\ Answered("poll")
          /\ UNCHANGED <<clientVars, auth, confirmed, faults>>
       \/ ~confirmed /\ session # "broken" /\ Failed /\ UNCHANGED faults

\* out of range is "None", which an entry may be as well
guard_type_at(index) ==
    IF index < Len(auth.allowed) THEN auth.allowed[index + 1] ELSE "None"

\* what submit_guard_code makes of the type it is given
CodeType(type) == IF type \in {"EmailCode", "DeviceCode"} THEN type ELSE "None"

submit_guard_code(index) ==
    /\ uses = "client" /\ client = "Encrypted"
    /\ {"client_id", "steam_id"} \subseteq auth.ids
    /\ \/ /\ CodeType(guard_type_at(index)) = "EmailCode"
          /\ confirmed' = TRUE
          /\ Answered("code")
          /\ UNCHANGED <<clientVars, auth, tokens, faults>>
       \* a code of no type is refused
       \/ /\ CodeType(guard_type_at(index)) = "None"
          /\ session # "broken" /\ Failed /\ UNCHANGED faults

\* on the user's phone
Confirm ==
    /\ auth # NoAuth /\ ~confirmed
    /\ confirmed' = TRUE
    /\ UNCHANGED <<uses, clientVars, auth, tokens, result, manifestVars, storeVars, faults>>

\* the calls that need a logged in client and change nothing
Query(call) ==
    /\ uses = "client" /\ client = "LoggedIn"
    /\ Answered(call)
    /\ UNCHANGED <<clientVars, authVars, faults>>

get_access_tokens == Query("tokens")

get_product_info == Query("info")

get_depot_key == Query("key")

get_cdn_servers == Query("servers")

\* no code is 0, and no error
get_manifest_request_code == Query("request code")

BreakConnection ==
    /\ session \in {"open", "loggedOn"} /\ Fault
    /\ session' = "broken"
    /\ UNCHANGED <<uses, client, authVars, result, manifestVars, storeVars>>

ClientCalls ==
    \/ \E index \in 0 .. Servers : connect(index)
    \/ Free
    \/ login_anonymous \/ \E a \in {"good", "no text"} : login_with_token(a)
    \/ get_rsa_public_key \/ begin_auth_credentials \/ poll_auth
    \/ \E index \in 0 .. 2 : submit_guard_code(index)
    \/ get_access_tokens \/ get_product_info \/ get_depot_key
    \/ get_cdn_servers \/ get_manifest_request_code
    \/ \E wanted \in {"Encrypted", "LoggedIn"} : WrongState(wanted) \/ CallFails(wanted)
    \/ Missing({"client_id", "request_id"}) \/ Missing({"client_id", "steam_id"})

-----------------------------------------------------------------------------
(* CdnClient and DepotManifest                                             *)

Handed(m) ==
    /\ manifest' = m /\ result' = "manifest"
    /\ UNCHANGED <<uses, clientVars, authVars, storeVars>>

\* CdnClient::download_manifest, DepotManifest::parse: a new handle, or none
download_manifest(p, f, body, index) ==
    /\ uses = "manifest"
    /\ \/ /\ index < Servers /\ extract_and_parse(body) # Error
          /\ Handed(extract_and_parse(body)) /\ sent' = p /\ format' = f
       \/ /\ index >= Servers \/ extract_and_parse(body) = Error
          /\ Failed

Body(p, f) ==
    [whole |-> TRUE,
     data |-> IF f = 4 THEN Written4(p.encrypted, p.files) ELSE Written5(p.encrypted, p.files)]

\* cut between two sections or before the last entry, or no archive at all
Damaged(p, f) ==
    LET data == Body(p, f).data
    IN  {[whole |-> TRUE, data |-> SubSeq(data, 1, n)] :
            n \in IF f = 4 THEN {Len(data) - 1} ELSE 0 .. Len(data) - 1}
        \cup {[whole |-> FALSE, data |-> <<>>]}

DownloadManifest ==
    \E p \in Published, f \in {4, 5}, index \in 0 .. Servers :
        \/ UNCHANGED faults /\ download_manifest(p, f, Body(p, f), index)
        \/ Fault /\ \E body \in Damaged(p, f) : download_manifest(p, f, body, index)

\* CdnClient::download_chunk: the bytes as they are, not checked; an id of any
\* other length than 20 is an error
download_chunk(index, length) ==
    /\ uses = "manifest"
    /\ \/ /\ index < Servers /\ length = 20
          /\ result' = "chunk"
          /\ UNCHANGED <<uses, clientVars, authVars, manifestVars, storeVars, faults>>
       \/ /\ Failed
          /\ \/ (index >= Servers \/ length # 20) /\ UNCHANGED faults
             \/ Fault

\* DepotManifest::decrypt_filenames
DecryptFilenames(key) ==
    /\ uses = "manifest" /\ manifest # Error
    /\ \E d \in decrypt_filenames(manifest, key) :
          /\ manifest' = d.m
          /\ result' = IF d.ok THEN "names" ELSE "error"
    /\ UNCHANGED <<uses, clientVars, authVars, sent, format, storeVars, faults>>

ManifestCalls ==
    \/ DownloadManifest
    \/ \E index \in 0 .. Servers, length \in 19 .. 20 : download_chunk(index, length)
    \/ \E key \in {"right", "wrong"} : DecryptFilenames(key)

-----------------------------------------------------------------------------
(* TokenStore                                                              *)

StoreCall ==
    /\ uses = "store"
    /\ UNCHANGED <<uses, clientVars, authVars, result, manifestVars>>

\* a file that is missing or cannot be read is an empty store
load_default(h) ==
    /\ StoreCall
    /\ \/ copy' = [copy EXCEPT ![h] = [open |-> TRUE, map |-> file]] /\ UNCHANGED <<cut, faults>>
       \/ Fault /\ copy' = [copy EXCEPT ![h] = [open |-> TRUE, map |-> Empty]] /\ cut' = TRUE
    /\ mine' = [mine EXCEPT ![h] = {}]
    /\ shared' = (shared \/ \E other \in Stores \ {h} : copy[other].open)
    /\ UNCHANGED file

\* mutant: the bytes are taken as they are
AsText_Raw(bytes) == bytes

\* bytes that are not UTF-8 become the empty name, or token
AsText(bytes) == IF bytes = NotText THEN "" ELSE bytes

\* mutant: the store is made anew
set_Replaces(h, user, token) ==
    /\ StoreCall /\ copy[h].open
    /\ copy' = [copy EXCEPT ![h].map = [Empty EXCEPT ![AsText(user)] = AsText(token)]]
    /\ mine' = [mine EXCEPT ![h] = @ \cup {AsText(user)}]
    /\ UNCHANGED <<file, shared, cut, faults>>

set(h, user, token) ==
    /\ StoreCall /\ copy[h].open
    /\ copy' = [copy EXCEPT ![h].map[AsText(user)] = AsText(token)]
    /\ mine' = [mine EXCEPT ![h] = @ \cup {AsText(user)}]
    /\ UNCHANGED <<file, shared, cut, faults>>

\* the whole file is written from this handle's copy
save(h) ==
    /\ StoreCall /\ copy[h].open
    /\ \/ file' = copy[h].map /\ UNCHANGED <<cut, faults>>
       \/ Fault /\ file' \in {file, Empty} /\ cut' = TRUE
    /\ UNCHANGED <<copy, mine, shared>>

FreeStore(h) ==
    /\ StoreCall /\ copy[h].open
    /\ copy' = [copy EXCEPT ![h] = Closed]
    /\ mine' = [mine EXCEPT ![h] = {}]
    /\ UNCHANGED <<file, shared, cut, faults>>

StoreCalls ==
    \E h \in Stores :
        \/ load_default(h) \/ save(h) \/ FreeStore(h)
        \/ \E u \in Users \cup {NotText}, t \in Tokens \cup {NotText} : set(h, u, t)

-----------------------------------------------------------------------------
Next == ClientCalls \/ Confirm \/ BreakConnection \/ ManifestCalls \/ StoreCalls

Spec == Init /\ [][Next]_vars

\* a program that gives a client back when a call on it fails, connects
\* again, and makes the calls it is interested in as often as it can
FairSpec ==
    /\ Spec
    /\ SF_vars(Free /\ result = "error")
    /\ SF_vars(connect(0))
    /\ SF_vars(login_anonymous)
    /\ SF_vars(get_depot_key)
    /\ SF_vars(WrongState("Encrypted") \/ CallFails("LoggedIn"))

-----------------------------------------------------------------------------
(* Properties.                                                             *)

\* The type invariant.
TypeOK ==
    /\ uses \in Programs
    /\ client \in {None, "Encrypted", "LoggedIn", "consumed"}
    /\ session \in {None, "open", "loggedOn", "broken"}
    /\ auth.ids \subseteq Ids /\ Len(auth.allowed) <= 2
    /\ tokens \in BOOLEAN /\ confirmed \in BOOLEAN
    /\ \/ manifest = Error
       \/ manifest.filenames_encrypted \in BOOLEAN
    /\ format \in {4, 5}
    /\ \A h \in Stores :
          copy[h].open \in BOOLEAN /\ copy[h].map \in [Names -> Tokens \cup {None, ""}]
    /\ file \in [Names -> Tokens \cup {None, ""}]
    /\ mine \in [Stores -> SUBSET Names]
    /\ shared \in BOOLEAN /\ cut \in BOOLEAN /\ faults \in 0 .. MaxFaults

(***************************************************************************)
(* HandleIsSession: the state the handle is in is the one the server has   *)
(* for its connection, unless that is broken: no handle says "not logged   *)
(* in" about a connection the server has logged on, after any sequence of  *)
(* failed and repeated logins, and no connection outlives its client.      *)
(***************************************************************************)
HandleIsSession ==
    /\ client = "Encrypted" => session \in {"open", "broken"}
    /\ client = "LoggedIn" => session \in {"loggedOn", "broken"}
    /\ client \in {None, "consumed"} => session = None

(***************************************************************************)
(* WholeManifest: a manifest the program holds has every file that was     *)
(* published once, with its own size, and no other, however much of the    *)
(* file arrived and whichever keys were tried on it.  In format 5 each     *)
(* file has its own link; format 4 loses the links.                        *)
(***************************************************************************)
WholeManifest ==
    manifest # Error =>
        /\ Len(manifest.files) = Len(sent.files)
        /\ \A f \in {sent.files[i] : i \in DOMAIN sent.files} :
              Cardinality({i \in DOMAIN manifest.files :
                  /\ manifest.files[i].name.name = f.name.name
                  /\ manifest.files[i].size = f.size
                  /\ manifest.files[i].link = IF format = 4 THEN 0 ELSE f.link}) = 1

(***************************************************************************)
(* NamesReadable: a manifest that says its names are not encrypted has no  *)
(* name that still is, after any number of attempts with any keys, though  *)
(* an attempt that fails leaves some names decrypted and others not.       *)
(***************************************************************************)
NamesReadable ==
    manifest # Error /\ ~manifest.filenames_encrypted =>
        \A i \in DOMAIN manifest.files :
            manifest.files[i].name.kind \notin {"secret", "damaged"}

(***************************************************************************)
(* OthersKept: as long as no two handles of the store are open at once and *)
(* no read or write of the file fails, saving changes the tokens of the    *)
(* users set through the handle and of no one else.  (With two handles the *)
(* later save undoes the other's, and a name that is not UTF-8 is saved as *)
(* the empty name.)                                                        *)
(***************************************************************************)
OthersKept ==
    [][\A u \in Names :
           file'[u] # file[u] => shared \/ cut' \/ \E h \in Stores : u \in mine[h]]_vars

\* What makes OthersKept inductive: a handle's copy differs from the file
\* only in what was set through it, and no other handle can change the file.
CopyInv ==
    /\ copy \in [Stores -> [open : BOOLEAN, map : [Names -> Tokens \cup {None, ""}]]]
    /\ mine \in [Stores -> SUBSET Names]
    /\ file \in [Names -> Tokens \cup {None, ""}]
    /\ ~shared /\ ~cut =>
          \A h \in Stores : copy[h].open =>
              /\ \A other \in Stores \ {h} : ~copy[other].open
              /\ \A u \in Names \ mine[h] : copy[h].map[u] = file[u]

(***************************************************************************)
(* Served: a program that gives up a client on which a call failed and     *)
(* connects again gets its depot keys, whatever failed before; one that    *)
(* keeps the client after a failed login never gets anything again.        *)
(***************************************************************************)
Served == uses = "client" => []<>(result = "key")
=============================================================================
