-------------------------- MODULE FfiClient_proofs --------------------------
(***************************************************************************)
(* Proofs about FfiClient, for any servers, manifests, users, handles and  *)
(* faults.                                                                 *)
(***************************************************************************)
EXTENDS FfiClient, DepotManifest_proofs

-----------------------------------------------------------------------------
(* The client.                                                             *)

ClientInv == client \in {None, "Encrypted", "LoggedIn", "consumed"} /\ HandleIsSession

\* Neither the manifest calls nor those of the store touch the client.
LEMMA OtherCalls ==
    ASSUME ManifestCalls \/ StoreCalls \/ Confirm
    PROVE  UNCHANGED clientVars
  BY DEF ManifestCalls, DownloadManifest, download_manifest, Handed, Failed, download_chunk,
         DecryptFilenames, StoreCalls, StoreCall, load_default, save, FreeStore, set, Confirm

\* Every call of a client keeps the handle and the connection together.
LEMMA ClientCallsKeep ==
    ASSUME ClientInv, ClientCalls
    PROVE  ClientInv'
  <1> USE DEF ClientInv, HandleIsSession, clientVars, None
  <1>1. ASSUME NEW index, connect(index) PROVE ClientInv'
    BY <1>1 DEF connect, Failed
  <1>2. CASE Free
    BY <1>2 DEF Free
  <1>3. ASSUME NEW arguments, login(arguments) PROVE ClientInv'
    BY <1>3 DEF login
  <1>4. CASE login_anonymous \/ (\E a \in {"good", "no text"} : login_with_token(a))
    BY <1>3, <1>4 DEF login_anonymous, login_with_token
  <1>5. CASE get_rsa_public_key \/ begin_auth_credentials \/ poll_auth
    BY <1>5 DEF get_rsa_public_key, begin_auth_credentials, poll_auth, Failed
  <1>6. ASSUME NEW index, submit_guard_code(index) PROVE ClientInv'
    BY <1>6 DEF submit_guard_code, Failed
  <1>7. ASSUME NEW name, Query(name) PROVE ClientInv'
    BY <1>7 DEF Query
  <1>8. CASE get_access_tokens \/ get_product_info \/ get_depot_key
             \/ get_cdn_servers \/ get_manifest_request_code
    BY <1>7, <1>8 DEF get_access_tokens, get_product_info, get_depot_key, get_cdn_servers,
                      get_manifest_request_code
  <1>9. ASSUME NEW wanted, WrongState(wanted) \/ CallFails(wanted) \/ Missing(wanted)
        PROVE  ClientInv'
    BY <1>9 DEF WrongState, CallFails, Missing, Failed
  <1>10. QED
    BY <1>1, <1>2, <1>4, <1>5, <1>6, <1>8, <1>9 DEF ClientCalls

\* Every step does.
LEMMA ClientInvNext ==
    ASSUME ClientInv, [Next]_vars
    PROVE  ClientInv'
  <1>1. CASE UNCHANGED clientVars
    BY <1>1 DEF clientVars, ClientInv, HandleIsSession
  <1>2. CASE ClientCalls
    BY <1>2, ClientCallsKeep
  <1>3. CASE BreakConnection
    BY <1>3 DEF BreakConnection, ClientInv, HandleIsSession, None
  <1>4. CASE ManifestCalls \/ StoreCalls \/ Confirm
    BY <1>1, <1>4, OtherCalls
  <1>5. CASE UNCHANGED vars
    BY <1>1, <1>5 DEF vars
  <1>6. QED
    BY <1>2, <1>3, <1>4, <1>5 DEF Next

\* HandleIsSession: whatever a program calls, in whatever order, its handle is
\* in the state in which the server has its connection (SteamClient::login_*,
\* which take the client before they can fail).
THEOREM HandleMatchesSession == Spec => []HandleIsSession
  <1>1. Init => ClientInv
    BY DEF Init, ClientInv, HandleIsSession, None
  <1>2. ClientInv /\ [Next]_vars => ClientInv'
    BY ClientInvNext
  <1>3. ClientInv => HandleIsSession
    BY DEF ClientInv
  <1>4. QED
    BY <1>1, <1>2, <1>3, PTL DEF Spec

-----------------------------------------------------------------------------
(* The token store.                                                        *)

\* Only the calls of the store touch it.
LEMMA OtherThanStore ==
    ASSUME ClientCalls \/ Confirm \/ BreakConnection \/ ManifestCalls
    PROVE  UNCHANGED storeVars
  <1>1. CASE ClientCalls
    BY <1>1
       DEF ClientCalls, connect, Free, login_anonymous, login_with_token, login,
           get_rsa_public_key, begin_auth_credentials, poll_auth, submit_guard_code,
           get_access_tokens, get_product_info, get_depot_key, get_cdn_servers,
           get_manifest_request_code, Query, WrongState, CallFails, Missing, Failed, Answered
  <1>2. CASE Confirm \/ BreakConnection
    BY <1>2 DEF Confirm, BreakConnection
  <1>3. CASE ManifestCalls
    BY <1>3 DEF ManifestCalls, DownloadManifest, download_manifest, Handed, Failed,
                download_chunk, DecryptFilenames
  <1>4. QED
    BY <1>1, <1>2, <1>3

\* What is handed over as a name or a token ends up as one, or as "".
LEMMA TextType ==
    ASSUME NEW S, NEW bytes \in S \cup {NotText}
    PROVE  AsText(bytes) \in S \cup {""}
  BY DEF AsText

TokenMap == [Names -> Tokens \cup {None, ""}]

\* The calls of the store keep the invariant, and save changes what was set.
LEMMA StoreCallsKeep ==
    ASSUME CopyInv, StoreCalls
    PROVE  /\ CopyInv'
           /\ \A u \in Names :
                 file'[u] # file[u] => shared \/ cut' \/ \E h \in Stores : u \in mine[h]
  <1> USE DEF CopyInv, storeVars, StoreCall
  <1>0. PICK h \in Stores :
           \/ load_default(h) \/ save(h) \/ FreeStore(h)
           \/ \E u \in Users \cup {NotText}, t \in Tokens \cup {NotText} : set(h, u, t)
    BY DEF StoreCalls
  <1>1. Empty \in TokenMap /\ \A other \in Stores : copy[other].map \in TokenMap
    BY DEF Empty, TokenMap
  <1>2. CASE load_default(h)
    <2>0. PICK map \in {file, Empty} :
             /\ copy' = [copy EXCEPT ![h] = [open |-> TRUE, map |-> map]]
             /\ map # file => cut' = TRUE
      BY <1>2 DEF load_default
    <2> DEFINE c == [open |-> TRUE, map |-> map]
    <2>1. /\ c \in [open : BOOLEAN, map : TokenMap] /\ c.open = TRUE
          /\ ~cut' => c.map = file
      BY <1>1, <2>0 DEF TokenMap
    <2>2. /\ copy' = [copy EXCEPT ![h] = c] /\ mine' = [mine EXCEPT ![h] = {}]
          /\ UNCHANGED file
      BY <1>2, <2>0 DEF load_default
    <2>3. ~shared' => ~shared /\ \A other \in Stores \ {h} : ~copy[other].open
      BY <1>2 DEF load_default
    <2> HIDE DEF c
    <2>4. /\ copy' \in [Stores -> [open : BOOLEAN, map : TokenMap]]
          /\ mine' \in [Stores -> SUBSET Names]
      BY <2>1, <2>2 DEF TokenMap
    <2>5. copy'[h] = c /\ \A other \in Stores \ {h} : copy'[other] = copy[other]
      BY <2>2
    <2>6. ASSUME ~shared', ~cut', NEW other \in Stores, copy'[other].open
          PROVE  /\ \A third \in Stores \ {other} : ~copy'[third].open
                 /\ \A v \in Names \ mine'[other] : copy'[other].map[v] = file'[v]
      <3>1. \A third \in Stores \ {h} : ~copy'[third].open
        BY <2>3, <2>5, <2>6, Zenon
      <3>2. other = h
        BY <2>6, <3>1, Zenon
      <3>3. copy'[other].map = file /\ UNCHANGED file
        BY <2>1, <2>2, <2>5, <2>6, <3>2, Zenon
      <3>4. QED
        BY <3>1, <3>2, <3>3, Zenon
    <2>7. file' \in TokenMap /\ UNCHANGED file
      BY <2>2 DEF TokenMap
    <2>8. CopyInv'
      BY <2>4, <2>6, <2>7 DEF TokenMap
    <2>9. QED
      BY <2>7, <2>8
  <1>3. CASE save(h)
    <2>1. copy[h].open /\ UNCHANGED <<copy, mine, shared>>
      BY <1>3 DEF save
    <2>2. CASE Fault /\ file' \in {file, Empty} /\ cut' = TRUE
      BY <1>1, <2>1, <2>2 DEF TokenMap
    <2>3. CASE file' = copy[h].map /\ UNCHANGED cut
      <3>1. file' \in TokenMap
        BY <1>1, <2>3
      <3>2. \A u \in Names : file'[u] # file[u] => shared \/ cut' \/ u \in mine[h]
        BY <2>1, <2>3
      <3>3. ASSUME ~shared, ~cut, NEW other \in Stores, copy[other].open
            PROVE  /\ \A third \in Stores \ {other} : ~copy[third].open
                   /\ \A u \in Names \ mine[other] : copy[other].map[u] = file'[u]
        <4>1. other = h
          BY <2>1, <3>3, Zenon
        <4>2. QED
          BY <2>1, <2>3, <3>3, <4>1
      <3>4. CopyInv'
        BY <2>1, <2>3, <3>1, <3>3 DEF TokenMap
      <3> HIDE DEF CopyInv
      <3>5. QED
        BY <3>2, <3>4
    <2>4. QED
      BY <1>3, <2>2, <2>3 DEF save
  <1>4. CASE FreeStore(h)
    <2>1. Closed \in [open : BOOLEAN, map : TokenMap] /\ Closed.open = FALSE
      BY <1>1 DEF Closed
    <2>2. QED
      BY <1>4, <2>1 DEF FreeStore, TokenMap
  <1>5. ASSUME NEW u \in Users \cup {NotText}, NEW t \in Tokens \cup {NotText}, set(h, u, t)
        PROVE  CopyInv' /\ UNCHANGED file
    <2>1. AsText(u) \in Names /\ AsText(t) \in Tokens \cup {None, ""}
      BY TextType DEF Names
    <2> DEFINE m == [copy[h].map EXCEPT ![AsText(u)] = AsText(t)]
               c == [copy[h] EXCEPT !.map = m]
    <2>2. m \in TokenMap /\ \A v \in Names : v # AsText(u) => m[v] = copy[h].map[v]
      BY <1>1, <2>1 DEF TokenMap
    <2>3. copy' = [copy EXCEPT ![h] = c]
      BY <1>5 DEF set
    <2> HIDE DEF m
    <2>4. c \in [open : BOOLEAN, map : TokenMap] /\ c.map = m /\ c.open = copy[h].open
      BY <2>2 DEF TokenMap
    <2> HIDE DEF c
    <2>5. /\ copy'[h] = c /\ mine'[h] = mine[h] \cup {AsText(u)}
          /\ \A other \in Stores \ {h} : copy'[other] = copy[other] /\ mine'[other] = mine[other]
          /\ UNCHANGED <<file, shared, cut>>
      BY <1>5, <2>3 DEF set
    <2>6. copy' \in [Stores -> [open : BOOLEAN, map : TokenMap]]
      BY <2>3, <2>4 DEF TokenMap
    <2>7. mine' \in [Stores -> SUBSET Names]
      BY <1>5, <2>1 DEF set
    <2>8. ASSUME ~shared', ~cut', NEW other \in Stores, copy'[other].open
          PROVE  /\ \A third \in Stores \ {other} : ~copy'[third].open
                 /\ \A v \in Names \ mine'[other] : copy'[other].map[v] = file'[v]
      <3>1. /\ ~shared /\ ~cut /\ copy[other].open
            /\ \A third \in Stores : copy'[third].open = copy[third].open
        BY <2>4, <2>5, <2>8
      <3>2. \A third \in Stores \ {other} : ~copy[third].open
        BY <3>1, Zenon
      <3>3. \A v \in Names \ mine[other] : copy[other].map[v] = file[v]
        BY <3>1, Zenon
      <3>4. CASE other = h
        <4>1. mine'[other] = mine[h] \cup {AsText(u)} /\ copy'[other].map = m
          BY <2>4, <2>5, <3>4
        <4>2. QED
          BY <2>2, <2>5, <3>1, <3>2, <3>3, <3>4, <4>1
      <3>5. CASE other # h
        BY <2>5, <3>1, <3>2, <3>3, <3>5
      <3>6. QED
        BY <3>4, <3>5
    <2>9. file' \in TokenMap /\ UNCHANGED file
      BY <2>5 DEF TokenMap
    <2>10. QED
      BY <2>6, <2>7, <2>8, <2>9 DEF TokenMap
  <1>6. QED
    BY <1>0, <1>2, <1>3, <1>4, <1>5

\* a step changes only the tokens of users that were set
KeptNow ==
    \A u \in Names :
        file'[u] # file[u] => shared \/ cut' \/ \E h \in Stores : u \in mine[h]

\* Every step keeps the invariant and changes the file only so.
LEMMA CopyInvNext ==
    ASSUME CopyInv, [Next]_vars
    PROVE  CopyInv' /\ KeptNow
  <1>1. CASE StoreCalls
    BY <1>1, StoreCallsKeep DEF KeptNow
  <1>2. CASE UNCHANGED storeVars
    BY <1>2 DEF storeVars, CopyInv, KeptNow
  <1>3. QED
    BY <1>1, <1>2, OtherThanStore DEF Next, vars

\* OthersKept: as long as one handle is open at a time and no write fails, the
\* file changes only for users that were set (TokenStore::set, save).
THEOREM OnlyOwnTokensChange == Spec => OthersKept
  <1>1. Init => CopyInv
    BY DEF Init, CopyInv, Closed, Empty
  <1>2. CopyInv /\ [Next]_vars => CopyInv' /\ KeptNow
    BY CopyInvNext
  <1>3. QED
    BY <1>1, <1>2, PTL DEF Spec, OthersKept, KeptNow

-----------------------------------------------------------------------------
(* Manifests.                                                              *)

\* the manifest the program holds, if any, is what the format keeps of the
\* published one
Arrived(p, f) == IF f = 4 THEN Linkless(p) ELSE p

ManifestInv ==
    /\ sent \in Published /\ format \in {4, 5}
    /\ manifest # Error =>
          /\ Faithful(manifest, Arrived(sent, format))
          /\ manifest = [filenames_encrypted |-> manifest.filenames_encrypted,
                         files |-> manifest.files]

\* Only the calls of the manifest part touch it.
LEMMA OtherThanManifest ==
    ASSUME ClientCalls \/ Confirm \/ BreakConnection \/ StoreCalls
    PROVE  UNCHANGED manifestVars
  <1>1. CASE ClientCalls
    BY <1>1
       DEF ClientCalls, connect, Free, login_anonymous, login_with_token, login,
           get_rsa_public_key, begin_auth_credentials, poll_auth, submit_guard_code,
           get_access_tokens, get_product_info, get_depot_key, get_cdn_servers,
           get_manifest_request_code, Query, WrongState, CallFails, Missing, Failed, Answered
  <1>2. CASE Confirm \/ BreakConnection
    BY <1>2 DEF Confirm, BreakConnection
  <1>3. CASE StoreCalls
    BY <1>3 DEF StoreCalls, StoreCall, load_default, save, FreeStore, set
  <1>4. QED
    BY <1>1, <1>2, <1>3

\* What is downloaded gives the published manifest or an error.
LEMMA BodiesParsed ==
    ASSUME NEW p \in Published, NEW f \in {4, 5}, NEW body \in {Body(p, f)} \cup Damaged(p, f),
           NEW m, m = extract_and_parse(body), m # Error
    PROVE  /\ Faithful(m, Arrived(p, f))
           /\ m = [filenames_encrypted |-> m.filenames_encrypted, files |-> m.files]
  <1>0. WellPublished(p)
    BY PublishedAssumption
  <1>1. CASE body = Body(p, f)
    <2>1. CASE f = 4
      <3>1. body = [whole |-> TRUE, data |-> Written4(p.encrypted, p.files)] /\ Arrived(p, f) = Linkless(p)
        BY <1>1, <2>1 DEF Body, Arrived
      <3>2. QED
        BY <1>0, <3>1, ParseWritten4 DEF extract_and_parse
    <2>2. CASE f = 5
      <3>1. body = [whole |-> TRUE, data |-> Written5(p.encrypted, p.files)] /\ Arrived(p, f) = p
        BY <1>1, <2>2 DEF Body, Arrived
      <3>2. QED
        BY <1>0, <3>1, ParseWritten5 DEF extract_and_parse
    <2>3. QED
      BY <2>1, <2>2
  <1>2. CASE body \in Damaged(p, f)
    <2>1. Len(Written5(p.encrypted, p.files)) = 4
      BY DEF Written5
    <2>7. Len(Written4(p.encrypted, p.files)) - 1 = Len(p.files)
      <3> DEFINE head == [version |-> 4, encrypted |-> p.encrypted, mappings |-> Len(p.files)]
                 T == Entry \cup {head}
      <3>1. <<head>> \in Seq(T) /\ Len(<<head>>) = 1 /\ p.files \in Seq(T)
        BY <1>0, SeqMonotonic DEF WellPublished
      <3>2. Written4(p.encrypted, p.files) = <<head>> \o p.files
        BY DEF Written4
      <3>3. Len(p.files) \in Nat
        BY <1>0, LenProperties DEF WellPublished
      <3> HIDE DEF head, T
      <3>4. Len(<<head>> \o p.files) = 1 + Len(p.files)
        BY <3>1, ConcatProperties
      <3>5. QED
        BY <3>2, <3>3, <3>4
    <2>2. ASSUME NEW n \in 0 .. 3,
                 body = [whole |-> TRUE, data |-> SubSeq(Written5(p.encrypted, p.files), 1, n)]
          PROVE  FALSE
      BY <1>0, <2>2, ParseCut5 DEF extract_and_parse
    <2>3. CASE body = [whole |-> TRUE,
                       data |-> SubSeq(Written4(p.encrypted, p.files), 1, Len(p.files))]
      BY <1>0, <2>3, ParseCut4 DEF extract_and_parse
    <2>4. CASE body = [whole |-> FALSE, data |-> <<>>]
      BY <2>4 DEF extract_and_parse
    <2>5. \/ \E n \in 0 .. 3 :
                body = [whole |-> TRUE, data |-> SubSeq(Written5(p.encrypted, p.files), 1, n)]
          \/ body = [whole |-> TRUE,
                     data |-> SubSeq(Written4(p.encrypted, p.files), 1, Len(p.files))]
          \/ body = [whole |-> FALSE, data |-> <<>>]
      <3>1. CASE f = 4
        BY <1>2, <2>7, <3>1 DEF Damaged, Body
      <3>2. CASE f = 5
        <4>1. Body(p, f).data = Written5(p.encrypted, p.files)
          BY <3>2 DEF Body
        <4>2. \/ \E n \in 0 .. Len(Written5(p.encrypted, p.files)) - 1 :
                    body = [whole |-> TRUE, data |-> SubSeq(Written5(p.encrypted, p.files), 1, n)]
              \/ body = [whole |-> FALSE, data |-> <<>>]
          <5>1. f # 4
            BY <3>2
          <5>2. QED
            BY <1>2, <4>1, <5>1 DEF Damaged
        <4>3. 0 .. Len(Written5(p.encrypted, p.files)) - 1 = 0 .. 3
          BY <2>1
        <4>4. QED
          BY <4>2, <4>3, Zenon
      <3>3. QED
        BY <3>1, <3>2
    <2>6. QED
      BY <2>2, <2>3, <2>4, <2>5
  <1>3. QED
    BY <1>1, <1>2

\* Downloads and decryptions, in any order and with any key, keep the files.
LEMMA ManifestCallsKeep ==
    ASSUME ManifestInv, ManifestCalls
    PROVE  ManifestInv'
  <1>1. ASSUME NEW p \in Published, NEW f \in {4, 5}, NEW index,
               NEW body \in {Body(p, f)} \cup Damaged(p, f), download_manifest(p, f, body, index)
        PROVE  ManifestInv'
    <2>1. CASE Failed
      BY <2>1 DEF Failed, manifestVars, ManifestInv
    <2>2. CASE /\ extract_and_parse(body) # Error
               /\ manifest' = extract_and_parse(body) /\ sent' = p /\ format' = f
      BY <2>2, BodiesParsed DEF ManifestInv
    <2>3. QED
      BY <1>1, <2>1, <2>2 DEF download_manifest, Handed
  <1>2. CASE DownloadManifest
    BY <1>1, <1>2 DEF DownloadManifest
  <1>3. ASSUME NEW index, NEW length, download_chunk(index, length)
        PROVE  ManifestInv'
    BY <1>3 DEF download_chunk, Failed, manifestVars, ManifestInv
  <1>4. ASSUME NEW key, DecryptFilenames(key)
        PROVE  ManifestInv'
    <2>1. PICK d \in decrypt_filenames(manifest, key) : manifest' = d.m /\ sent' = sent /\ format' = format
      BY <1>4 DEF DecryptFilenames
    <2>2. /\ Faithful(manifest, Arrived(sent, format))
          /\ manifest = [filenames_encrypted |-> manifest.filenames_encrypted,
                         files |-> manifest.files]
      BY <1>4 DEF DecryptFilenames, ManifestInv
    <2>3. /\ Faithful(d.m, Arrived(sent, format))
          /\ d.m = [filenames_encrypted |-> d.m.filenames_encrypted, files |-> d.m.files]
      BY <2>2, DecryptionKeepsFiles
    <2>4. QED
      BY <2>1, <2>3 DEF ManifestInv
  <1>5. QED
    BY <1>2, <1>3, <1>4 DEF ManifestCalls

\* It holds before the first download.
LEMMA ManifestInvInit == Init => ManifestInv
  BY DEF Init, ManifestInv

\* Every step keeps it.
LEMMA ManifestInvNext ==
    ASSUME ManifestInv, [Next]_vars
    PROVE  ManifestInv'
  <1>1. CASE ManifestCalls
    BY <1>1, ManifestCallsKeep
  <1>2. CASE UNCHANGED manifestVars
    BY <1>2 DEF manifestVars, ManifestInv
  <1>3. QED
    BY <1>1, <1>2, OtherThanManifest DEF Next, vars

\* the entries that show a published file
CopiesOf(f) ==
    {i \in DOMAIN manifest.files :
        /\ manifest.files[i].name.name = f.name.name
        /\ manifest.files[i].size = f.size
        /\ manifest.files[i].link = IF format = 4 THEN 0 ELSE f.link}

\* WholeManifest: the manifest the program holds has every published file once
\* and no other, in format 5 with its link, however much of it arrived and
\* whichever keys were tried.
THEOREM EveryFileOnce == Spec => []WholeManifest
  <1>1. ManifestInv /\ [Next]_vars => ManifestInv'
    BY ManifestInvNext
  <1>2. ManifestInv => WholeManifest
    <2> SUFFICES ASSUME ManifestInv, manifest # Error
                 PROVE  WholeManifest
      BY DEF WholeManifest
    <2>1. WellPublished(sent) /\ Faithful(manifest, Arrived(sent, format))
      BY PublishedAssumption DEF ManifestInv
    <2>2. format = 4 \/ (format = 5 /\ format # 4)
      BY DEF ManifestInv
    <2>3. \A i \in DOMAIN sent.files : sent.files[i] \in Entry
      BY <2>1, LenProperties, ElementOfSeq DEF WellPublished
    <2>4. CASE format = 4
      <3>1. HasOnce(manifest, Linkless(sent))
        BY <2>1, <2>4, LinklessPublished, OnceEach DEF Arrived
      <3>2. /\ Len(Linkless(sent).files) = Len(sent.files)
            /\ DOMAIN Linkless(sent).files = DOMAIN sent.files
            /\ \A i \in DOMAIN sent.files : Linkless(sent).files[i] = [sent.files[i] EXCEPT !.link = 0]
        BY <2>1, LinklessPublished
      <3>3. ASSUME NEW f \in {sent.files[i] : i \in DOMAIN sent.files}
            PROVE  Cardinality(CopiesOf(f)) = 1
        <4>1. PICK i \in DOMAIN sent.files : f = sent.files[i]
          OBVIOUS
        <4> DEFINE g == [f EXCEPT !.link = 0]
        <4>2. Linkless(sent).files[i] = g /\ i \in DOMAIN Linkless(sent).files
          BY <3>2, <4>1
        <4>3. g \in {Linkless(sent).files[j] : j \in DOMAIN Linkless(sent).files}
          BY <4>2, Zenon
        <4>4. Cardinality({j \in DOMAIN manifest.files : Same(manifest.files[j], g)}) = 1
          BY <3>1, <4>3, Zenon DEF HasOnce
        <4>5. g.name = f.name /\ g.size = f.size /\ g.link = 0
          BY <2>3, <4>1 DEF Entry
        <4> HIDE DEF g
        <4>6. CopiesOf(f) = {j \in DOMAIN manifest.files : Same(manifest.files[j], g)}
          BY <2>4, <4>5 DEF Same, CopiesOf
        <4>7. QED
          BY <4>4, <4>6, Zenon
      <3>4. QED
        BY <3>1, <3>2, <3>3, Zenon DEF WholeManifest, HasOnce, CopiesOf
    <2>5. CASE format = 5 /\ format # 4
      <3>1. HasOnce(manifest, sent)
        BY <2>1, <2>5, OnceEach, Zenon DEF Arrived
      <3>2. \A f : CopiesOf(f) = {j \in DOMAIN manifest.files : Same(manifest.files[j], f)}
        BY <2>5 DEF Same, CopiesOf
      <3>3. \A f \in {sent.files[i] : i \in DOMAIN sent.files} : Cardinality(CopiesOf(f)) = 1
        BY <3>1, <3>2, Zenon DEF HasOnce
      <3>4. QED
        BY <3>1, <3>3, Zenon DEF WholeManifest, HasOnce, CopiesOf
    <2>6. QED
      BY <2>2, <2>4, <2>5
  <1>3. QED
    BY <1>1, <1>2, ManifestInvInit, PTL DEF Spec

\* NamesReadable: a manifest that says its names are not encrypted is telling
\* the truth, after any number of attempts to decrypt them.
THEOREM FlagIsTrue == Spec => []NamesReadable
  <1>1. ManifestInv /\ [Next]_vars => ManifestInv'
    BY ManifestInvNext
  <1>2. ManifestInv => NamesReadable
    BY DEF ManifestInv, Faithful, Legible, NamesReadable
  <1>3. QED
    BY <1>1, <1>2, ManifestInvInit, PTL DEF Spec

-----------------------------------------------------------------------------
(* Types.                                                                  *)

AuthType == auth.ids \subseteq Ids /\ Len(auth.allowed) <= 2

\* the part of TypeOK that none of the three invariants above has
RestType ==
    /\ uses \in Programs
    /\ session \in {None, "open", "loggedOn", "broken"}
    /\ AuthType
    /\ tokens \in BOOLEAN /\ confirmed \in BOOLEAN
    /\ shared \in BOOLEAN /\ cut \in BOOLEAN /\ faults \in 0 .. MaxFaults

\* A fault is counted up to the bound.
LEMMA FaultCounted ==
    ASSUME faults \in 0 .. MaxFaults, Fault \/ UNCHANGED faults
    PROVE  faults' \in 0 .. MaxFaults
  BY BoundAssumption DEF Fault

\* The calls of a client keep the types.
LEMMA ClientCallsType ==
    ASSUME RestType, ClientCalls \/ Confirm \/ BreakConnection
    PROVE  RestType'
  <1>1. UNCHANGED <<uses, shared, cut>>
    BY DEF ClientCalls, Confirm, BreakConnection, connect, Free, login_anonymous,
           login_with_token, login, get_rsa_public_key, begin_auth_credentials, poll_auth,
           submit_guard_code, get_access_tokens, get_product_info, get_depot_key,
           get_cdn_servers, get_manifest_request_code, Query, WrongState, CallFails, Missing,
           Failed, Answered, storeVars
  <1>2. Fault \/ UNCHANGED faults
    BY DEF ClientCalls, Confirm, BreakConnection, connect, Free, login_anonymous,
           login_with_token, login, get_rsa_public_key, begin_auth_credentials, poll_auth,
           submit_guard_code, get_access_tokens, get_product_info, get_depot_key,
           get_cdn_servers, get_manifest_request_code, Query, WrongState, CallFails, Missing
  <1>3. session' \in {session, None, "open", "loggedOn", "broken"}
    BY DEF ClientCalls, Confirm, BreakConnection, connect, Free, login_anonymous,
           login_with_token, login, get_rsa_public_key, begin_auth_credentials, poll_auth,
           submit_guard_code, get_access_tokens, get_product_info, get_depot_key,
           get_cdn_servers, get_manifest_request_code, Query, WrongState, CallFails, Missing,
           Failed, clientVars
  <1>4. CASE begin_auth_credentials
    <2>1. \/ auth' = [ids |-> Ids, allowed |-> <<"DeviceConfirmation", "EmailCode">>]
          \/ \E id \in Ids : auth' = [ids |-> Ids \ {id}, allowed |-> <<"EmailCode">>]
      BY <1>4 DEF begin_auth_credentials
    <2>2. AuthType'
      <3>1. CASE auth' = [ids |-> Ids, allowed |-> <<"DeviceConfirmation", "EmailCode">>]
        BY <3>1 DEF AuthType
      <3>2. ASSUME NEW id \in Ids, auth' = [ids |-> Ids \ {id}, allowed |-> <<"EmailCode">>]
            PROVE  AuthType'
        <4>1. Len(<<"EmailCode">>) = 1
          OBVIOUS
        <4>2. auth'.ids = Ids \ {id} /\ auth'.allowed = <<"EmailCode">>
          BY <3>2
        <4>3. QED
          BY <4>1, <4>2 DEF AuthType
      <3>3. QED
        BY <2>1, <3>1, <3>2
    <2>3. tokens' = tokens /\ confirmed' = FALSE
      BY <1>4 DEF begin_auth_credentials
    <2>4. QED
      BY <1>1, <1>2, <1>3, <2>2, <2>3, FaultCounted DEF RestType
  <1>5. CASE ~begin_auth_credentials
    <2>1. UNCHANGED auth /\ tokens' \in {tokens, TRUE} /\ confirmed' \in {confirmed, TRUE}
      BY <1>5 DEF ClientCalls, Confirm, BreakConnection, connect, Free, login_anonymous,
             login_with_token, login, get_rsa_public_key, poll_auth,
             submit_guard_code, get_access_tokens, get_product_info, get_depot_key,
             get_cdn_servers, get_manifest_request_code, Query, WrongState, CallFails, Missing,
             Failed, authVars
    <2>2. QED
      BY <1>1, <1>2, <1>3, <2>1, FaultCounted DEF RestType, AuthType
  <1>6. QED
    BY <1>4, <1>5

\* So do those of the other two parts.
LEMMA OtherCallsType ==
    ASSUME RestType, ManifestCalls \/ StoreCalls
    PROVE  RestType'
  <1>1. UNCHANGED <<uses, clientVars, authVars>> /\ (Fault \/ UNCHANGED faults)
    BY DEF ManifestCalls, DownloadManifest, download_manifest, Handed, Failed, download_chunk,
           DecryptFilenames, StoreCalls, StoreCall, load_default, save, FreeStore, set
  <1>2. shared' \in BOOLEAN /\ cut' \in BOOLEAN
    <2>1. CASE ManifestCalls
      BY <2>1
         DEF ManifestCalls, DownloadManifest, download_manifest, Handed, Failed, download_chunk,
             DecryptFilenames, storeVars, RestType
    <2>2. CASE StoreCalls
      <3>1. \/ UNCHANGED shared
            \/ \E h \in Stores : shared' = (shared \/ \E other \in Stores \ {h} : copy[other].open)
        BY <2>2 DEF StoreCalls, StoreCall, load_default, save, FreeStore, set
      <3>2. UNCHANGED cut \/ cut' = TRUE
        BY <2>2 DEF StoreCalls, StoreCall, load_default, save, FreeStore, set
      <3>3. QED
        BY <3>1, <3>2, Zenon DEF RestType
    <2>3. QED
      BY <2>1, <2>2
  <1>3. QED
    BY <1>1, <1>2, FaultCounted DEF RestType, AuthType, clientVars, authVars

\* TypeOK: the state of a program that uses the interface, whatever it calls.
THEOREM TypeCorrect == Spec => []TypeOK
  <1> DEFINE Inv == ClientInv /\ CopyInv /\ ManifestInv /\ RestType
  <1>1. Init => Inv
    <2> SUFFICES ASSUME Init PROVE Inv
      OBVIOUS
    <2>1. ClientInv
      BY DEF Init, ClientInv, HandleIsSession, None
    <2>2. CopyInv
      BY DEF Init, CopyInv, Closed, Empty
    <2>3. AuthType
      BY DEF Init, NoAuth, AuthType
    <2>4. faults \in 0 .. MaxFaults
      BY BoundAssumption DEF Init
    <2>5. RestType
      BY <2>3, <2>4, Zenon DEF Init, RestType
    <2>6. QED
      BY <2>1, <2>2, <2>5, ManifestInvInit
  <1>2. ASSUME Inv, [Next]_vars
        PROVE  Inv'
    <2>1. ClientInv'
      BY <1>2, ClientInvNext
    <2>2. CopyInv'
      BY <1>2, CopyInvNext
    <2>3. ManifestInv'
      BY <1>2, ManifestInvNext
    <2>4. ASSUME UNCHANGED vars PROVE RestType'
      <3>1. UNCHANGED <<uses, session, auth, tokens, confirmed, shared, cut, faults>>
        BY <2>4 DEF vars, clientVars, authVars, storeVars
      <3>2. QED
        BY <1>2, <3>1, Zenon DEF RestType, AuthType
    <2>5. RestType'
      BY <1>2, <2>4, ClientCallsType, OtherCallsType DEF Next
    <2>6. QED
      BY <2>1, <2>2, <2>3, <2>5
  <1>3. Inv => TypeOK
    BY DEF ClientInv, CopyInv, ManifestInv, Faithful, RestType, AuthType, TypeOK
  <1>4. QED
    BY <1>1, <1>2, <1>3, PTL DEF Spec
=============================================================================
