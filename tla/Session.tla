------------------------------ MODULE Session ------------------------------
(***************************************************************************)
(* From the list of servers to a logged in client, over several runs of    *)
(* the program.                                                            *)
(*                                                                         *)
(*   crates/depotdownloader/src/main.rs      connect_and_login, do_login,  *)
(*                                           authenticate_credentials, _qr *)
(*   crates/steam/src/auth/mod.rs            the authentication calls      *)
(*   crates/steam/src/connection/mod.rs      the list of servers           *)
(*   crates/steam-client/src/credentials.rs  TokenStore                    *)
(*                                                                         *)
(* A call ends in one of three ways.  The server may refuse it: an error   *)
(* that is_auth_error tells from the others.  The connection may break, or *)
(* the answer may lack a field: every other error.  The calls themselves   *)
(* are the matter of module CmClient.                                      *)
(***************************************************************************)
EXTENDS Integers, Sequences, FiniteSets

CONSTANTS
    Users,
    Nobody,             \* no --username
    Options,            \* how the program is started
    ListedServers,      \* bound: TCP servers the directory lists
    Confirmations,      \* what a login may have to be confirmed with
    FaultKinds,
    MaxFaults           \* bound: faults in all

GuardTypes == {"None", "EmailCode", "DeviceCode", "DeviceConfirmation"}

Option == [user : Users \cup {Nobody}, qr : BOOLEAN, password : BOOLEAN, remember : BOOLEAN]

ASSUME OptionAssumption == Nobody \notin Users /\ Options \subseteq Option

ASSUME ConfirmationAssumption == Confirmations \subseteq Seq(GuardTypes)

ASSUME BoundAssumption == ListedServers \in Nat /\ MaxFaults \in Nat

MAX_PASSWORD_ATTEMPTS == 3

\* the hosts of default_cm_servers
DefaultServers == 4

Tokens == {"none", "valid", "stale"}

VARIABLES
    opts,           \* the options of this run
    pc,
    servers,        \* how many servers are in the list
    server,         \* the one tried
    attempts,       \* passwords asked for, on this connection
    guard,          \* confirmations still to look at
    token,          \* what this run logs on with
    read,           \* tokens.json could be read; if not, the run works with
                    \* an empty store
    stored,         \* tokens.json: user -> token
    verdict         \* how the run has ended

\* bound and history
VARIABLES
    faults,
    wrong,          \* passwords the server rejected in this run
    refused         \* the server refused something else, or the third one

conn == <<opts, servers, server>>
auth == <<attempts, guard, token, read>>
hist == <<wrong, refused>>
vars == <<conn, pc, auth, stored, verdict, faults, hist>>

Pcs == {"idle", "discover", "connect", "encrypt", "login", "password", "rsa", "begin",
        "guard", "poll", "qr", "save", "logon"}

Fault(kind) == kind \in FaultKinds /\ faults < MaxFaults /\ faults' = faults + 1

NoTokens == [u \in Users |-> "none"]

Init ==
    /\ opts \in Options
    /\ pc = "idle" /\ servers = 0 /\ server = 0
    /\ attempts = 0 /\ guard = <<>> /\ token = "none" /\ read = TRUE
    /\ stored = NoTokens /\ verdict = "none"
    /\ faults = 0 /\ wrong = 0 /\ refused = FALSE

-----------------------------------------------------------------------------
(* The end of a call, of a connection and of the run.                      *)

Ends(how) ==
    /\ pc' = "idle" /\ verdict' = how
    /\ UNCHANGED <<servers, server>>

\* mutant: the index runs past the list
NextServer_PastEnd ==
    \/ /\ server <= servers
       /\ server' = server + 1
       /\ pc' = "connect"
       /\ UNCHANGED <<servers, verdict>>
    \/ /\ server > servers
       /\ Ends("failed")

\* mutant: the third server is the last
NextServer_Three ==
    \/ /\ server < servers /\ server < 3
       /\ server' = server + 1
       /\ pc' = "connect"
       /\ UNCHANGED <<servers, verdict>>
    \/ /\ ~(server < servers /\ server < 3)
       /\ Ends("failed")

\* an error that is no auth error: the next server is tried, from the start
NextServer ==
    \/ /\ server < servers
       /\ server' = server + 1
       /\ pc' = "connect"
       /\ UNCHANGED <<servers, verdict>>
    \/ /\ server >= servers
       /\ Ends("failed")

Forget == attempts' = 0 /\ guard' = <<>> /\ token' = "none" /\ read' = TRUE

Broken ==
    /\ Fault("broken")
    /\ NextServer
    /\ Forget
    /\ UNCHANGED <<opts, stored, hist>>

\* mutant: a refused service call is retried on the next server
Refused_ServiceCall ==
    /\ IF pc = "logon" THEN Ends("refused") ELSE NextServer
    /\ refused' = TRUE
    /\ Forget
    /\ UNCHANGED <<opts, stored, wrong>>

\* LogonFailed or ServiceMethodFailed: is_auth_error, the run is over
Refused ==
    /\ Ends("refused")
    /\ refused' = TRUE
    /\ Forget
    /\ UNCHANGED <<opts, stored, wrong>>

Succeeds(next) ==
    /\ pc' = next
    /\ UNCHANGED <<conn, stored, verdict, faults, hist>>

-----------------------------------------------------------------------------
(* connect_and_login                                                       *)

Start(o) ==
    /\ pc = "idle"
    /\ opts' = o
    /\ pc' = "discover" /\ verdict' = "none"
    /\ wrong' = 0 /\ refused' = FALSE
    /\ UNCHANGED <<servers, server, auth, stored, faults>>

\* what fetch_cm_servers makes of an entry of the directory's answer:
\* websocket servers are listed but not used, other types, entries without
\* an endpoint and endpoints without a port are passed over
Usable(entries) == Cardinality({i \in DOMAIN entries : entries[i] = "netfilter"})

Answers == UNION {[1 .. n -> {"netfilter", "websockets", "unknown"}] : n \in 0 .. ListedServers}

\* no answer, or none that names a TCP server: the built-in list; a list
\* that is empty all the same ends the run
discover_servers ==
    /\ pc = "discover"
    /\ \/ \E entries \in Answers :
             /\ servers' = IF Usable(entries) > 0 THEN Usable(entries) ELSE DefaultServers
             /\ UNCHANGED faults
       \/ Fault("directory") /\ servers' = DefaultServers
    /\ server' = IF servers' > 0 THEN 1 ELSE 0
    /\ pc' = IF servers' > 0 THEN "connect" ELSE "idle"
    /\ verdict' = IF servers' > 0 THEN "none" ELSE "failed"
    /\ UNCHANGED <<opts, auth, stored, hist>>

connect == pc = "connect" /\ (Broken \/ (Succeeds("encrypt") /\ UNCHANGED auth))

encrypt == pc = "encrypt" /\ (Broken \/ (Succeeds("login") /\ UNCHANGED auth))

-----------------------------------------------------------------------------
(* do_login                                                                *)

\* mutant: a user without a token logs on with an empty one
HasToken_Always == opts.user # Nobody

\* mutant: a stored token only counts with --remember-password
HasToken_Remembered == opts.user # Nobody /\ stored[opts.user] # "none" /\ opts.remember

\* TokenStore::load and get
HasToken == opts.user # Nobody /\ stored[opts.user] # "none"

do_login ==
    /\ pc = "login"
    /\ \/ HasToken /\ token' = stored[opts.user] /\ Succeeds("logon") /\ UNCHANGED read
       \/ opts.user # Nobody /\ ~HasToken /\ Succeeds("password") /\ UNCHANGED <<token, read>>
       \* the file cannot be read or parsed: an empty store
       \/ /\ opts.user # Nobody /\ Fault("load")
          /\ read' = FALSE /\ pc' = "password"
          /\ UNCHANGED <<conn, token, stored, verdict, hist>>
       \/ opts.user = Nobody /\ opts.qr /\ Succeeds("qr") /\ UNCHANGED <<token, read>>
       \* anonymous
       \/ opts.user = Nobody /\ ~opts.qr /\ token' = "valid" /\ Succeeds("logon") /\ UNCHANGED read
    /\ UNCHANGED <<attempts, guard>>

\* authenticate_credentials: the password of the command line is used once,
\* later ones are asked for, which may fail
ask_password ==
    /\ pc = "password"
    /\ \/ /\ attempts' = attempts + 1
          /\ Succeeds("rsa")
          /\ UNCHANGED <<guard, token, read>>
       \/ ~(opts.password /\ attempts = 0) /\ Broken

\* the account's RSA key; it may be missing or no key
get_password_rsa_public_key ==
    /\ pc = "rsa"
    /\ \/ Succeeds("begin") /\ UNCHANGED auth
       \/ Fault("refused") /\ Refused
       \/ Broken

BeginAccepted ==
    /\ guard' \in Confirmations
    /\ Succeeds("guard")
    /\ UNCHANGED <<attempts, token, read>>

\* mutant: the attempts are not counted
WrongPassword_Uncounted ==
    /\ Fault("wrong")
    /\ wrong' = wrong + 1
    /\ pc' = "password"
    /\ UNCHANGED <<conn, auth, stored, verdict, refused>>

\* EResult InvalidPassword: asked again, or an auth error like any other
WrongPassword ==
    /\ Fault("wrong")
    /\ wrong' = wrong + 1
    /\ \/ /\ attempts < MAX_PASSWORD_ATTEMPTS
          /\ pc' = "password"
          /\ UNCHANGED <<conn, auth, verdict, refused>>
       \/ /\ attempts >= MAX_PASSWORD_ATTEMPTS
          /\ Ends("refused") /\ refused' = TRUE
          /\ Forget
          /\ UNCHANGED opts
    /\ UNCHANGED stored

begin_auth_session_via_credentials ==
    /\ pc = "begin"
    /\ \/ BeginAccepted
       \/ WrongPassword
       \/ Fault("refused") /\ Refused
       \/ Broken

\* mutant: a confirmation on the phone is waited for in the loop
confirm_Waits ==
    /\ pc = "guard"
    /\ \/ guard = <<>> /\ Succeeds("poll")
       \/ guard # <<>> /\ Head(guard) \in {"None", "DeviceConfirmation"} /\ Succeeds("guard")
    /\ UNCHANGED auth

\* the loop over allowed_confirmations, as far as it asks for nothing
confirm ==
    /\ pc = "guard"
    /\ \/ /\ guard = <<>>
          /\ Succeeds("poll") /\ UNCHANGED guard
       \/ /\ guard # <<>> /\ Head(guard) \in {"None", "DeviceConfirmation"}
          /\ guard' = Tail(guard)
          /\ Succeeds("guard")
    /\ UNCHANGED <<attempts, token, read>>

\* the first code asked for is read and submitted, and nothing is looked at
\* after it
submit_steam_guard_code ==
    /\ pc = "guard" /\ guard # <<>> /\ Head(guard) \in {"DeviceCode", "EmailCode"}
    /\ \/ /\ guard' = <<>>
          /\ Succeeds("poll")
          /\ UNCHANGED <<attempts, token, read>>
       \/ Fault("refused") /\ Refused
       \/ Broken

\* begin_auth_session_via_qr
authenticate_qr ==
    /\ pc = "qr"
    /\ \/ Succeeds("poll") /\ UNCHANGED auth
       \/ Fault("refused") /\ Refused
       \/ Broken

\* poll_auth_session: both tokens, or ask again after the interval
PollPending == pc = "poll" /\ UNCHANGED vars

PollAnswered ==
    /\ pc = "poll"
    /\ \/ /\ token' = "valid"
          /\ Succeeds(IF opts.user # Nobody /\ opts.remember THEN "save" ELSE "logon")
          /\ UNCHANGED <<attempts, guard, read>>
       \/ Fault("refused") /\ Refused
       \/ Broken

\* mutant: the file is written with the new token alone
Saved_Alone == [NoTokens EXCEPT ![opts.user] = token]

\* TokenStore::set, on the store this run has loaded
Saved == [IF read THEN stored ELSE NoTokens EXCEPT ![opts.user] = token]

\* TokenStore::save; a failure is only logged, and leaves the file as it was
\* or empty or cut, which the next load takes for an empty store
save_token ==
    /\ pc = "save"
    /\ \/ stored' = Saved /\ UNCHANGED faults
       \/ Fault("save") /\ stored' \in {stored, NoTokens}
    /\ pc' = "logon"
    /\ UNCHANGED <<conn, auth, verdict, hist>>

\* SteamClient::login
logon ==
    /\ pc = "logon"
    /\ \/ /\ token = "valid"
          /\ Ends("ok")
          /\ Forget
          /\ UNCHANGED <<opts, stored, faults, hist>>
       \/ token # "valid" /\ Refused /\ UNCHANGED faults
       \/ Fault("refused") /\ Refused
       \/ Broken

-----------------------------------------------------------------------------
(* The world around the program.                                           *)

\* the process is killed; while the token store is written, it is cut
Crash ==
    /\ pc # "idle" /\ Fault("crash")
    /\ \/ UNCHANGED stored
       \/ pc = "save" /\ stored' = NoTokens
    /\ Ends("crash")
    /\ Forget
    /\ UNCHANGED <<opts, hist>>

\* a refresh token is revoked, or too old
Expire(u) ==
    /\ stored[u] = "valid" /\ Fault("expire")
    /\ stored' = [stored EXCEPT ![u] = "stale"]
    /\ UNCHANGED <<conn, pc, auth, verdict, hist>>

\* what the program does by itself
ProgramStep == do_login \/ confirm \/ save_token

\* a call to a server is answered, or its connection breaks
CallEnds ==
    \/ discover_servers \/ connect \/ encrypt
    \/ get_password_rsa_public_key \/ begin_auth_session_via_credentials
    \/ authenticate_qr \/ logon

\* the user types a password or a code, or the input ends
Typed == ask_password \/ submit_steam_guard_code

Next ==
    \/ \E o \in Options : Start(o)
    \/ ProgramStep \/ CallEnds \/ Typed
    \/ PollPending \/ PollAnswered
    \/ Crash
    \/ \E u \in Users : Expire(u)

Spec == Init /\ [][Next]_vars

\* The runtime lets the program go on.  Nothing else is the program's to
\* promise: no call has a timeout, no question and no poll a limit.
FairSpec == Spec /\ WF_vars(ProgramStep)

\* What the liveness properties assume of the world, each by its name.
ServersAnswer  == WF_vars(CallEnds)
UserTypes      == WF_vars(Typed)
LoginConfirmed == WF_vars(PollAnswered)
UserTriesAgain == \A o \in Options : SF_vars(Start(o))

-----------------------------------------------------------------------------
(* Properties.                                                             *)

\* The type invariant.
TypeOK ==
    /\ opts \in Options
    /\ pc \in Pcs
    /\ servers \in Nat /\ server \in Nat
    /\ pc \notin {"idle", "discover"} => server \in 1 .. servers
    /\ attempts \in Nat
    /\ guard \in Seq(GuardTypes)
    /\ token \in Tokens /\ stored \in [Users -> Tokens]
    /\ verdict \in {"none", "ok", "refused", "failed", "crash"}
    /\ faults \in 0 .. MaxFaults /\ wrong \in Nat
    /\ refused \in BOOLEAN /\ read \in BOOLEAN

(***************************************************************************)
(* RefusalIsFinal: after the server has refused a login, the run contacts  *)
(* no other server with the same credentials ("Err(e) if                   *)
(* e.is_auth_error() => return Err(e)", main.rs:128); wrong passwords that *)
(* are asked for again do not count.                                       *)
(***************************************************************************)
RefusalIsFinal == refused => pc = "idle" /\ verdict = "refused"

(***************************************************************************)
(* GivesUpLast: a run that fails without a refusal has tried every server  *)
(* of its list, also after a server that broke in the middle of a login.   *)
(***************************************************************************)
GivesUpLast == verdict = "failed" => server = servers /\ ~refused

(***************************************************************************)
(* PasswordsBounded: no more than MAX_PASSWORD_ATTEMPTS wrong passwords    *)
(* reach the server on one connection, so no more than that many times the *)
(* servers tried in one run.  (The limit is not one for the run: the count *)
(* starts again with the next server.)                                     *)
(***************************************************************************)
PasswordsBounded == wrong <= MAX_PASSWORD_ATTEMPTS * server

(***************************************************************************)
(* RememberedLogin: nobody is asked for a password while the store holds a *)
(* token ("so future logins can skip the full authentication flow",        *)
(* credentials.rs:3), whatever happened to the runs before: a refused      *)
(* logon, a broken connection, another user's login.  Only a run that      *)
(* could not read the store asks all the same.                             *)
(***************************************************************************)
RememberedLogin ==
    pc \in {"password", "rsa", "begin", "guard"} /\ read => stored[opts.user] # "valid"

\* What makes these inductive: a run under way has no verdict yet; passwords
\* rejected by earlier servers, and those of this connection, all but the one
\* under way; and what is saved is a good token of a user.
CountInv ==
    /\ attempts <= MAX_PASSWORD_ATTEMPTS
    /\ pc \in {"idle", "discover", "connect", "encrypt", "login"} => attempts = 0
    /\ pc = "discover" => wrong = 0
    /\ pc = "password" => attempts < MAX_PASSWORD_ATTEMPTS
    /\ pc \notin {"idle", "discover"} =>
          wrong <= MAX_PASSWORD_ATTEMPTS * (server - 1) + attempts
    /\ pc \in {"rsa", "begin"} =>
          wrong < MAX_PASSWORD_ATTEMPTS * (server - 1) + attempts

IInv ==
    /\ TypeOK /\ RefusalIsFinal /\ GivesUpLast /\ PasswordsBounded /\ RememberedLogin
    /\ CountInv
    /\ pc # "idle" => verdict = "none"
    /\ pc \in {"password", "rsa", "begin", "guard"} => opts.user \in Users
    /\ pc = "save" => token = "valid" /\ opts.user \in Users

(***************************************************************************)
(* TokensKept: the token of a user is lost only in a write of the store    *)
(* that fails or is cut (credentials.rs:39), or in one by a run that could *)
(* not read the store before (credentials.rs:27-29); in particular,        *)
(* remembering one user keeps the others, also when earlier writes or      *)
(* reads have failed.                                                      *)
(***************************************************************************)
TokensKept ==
    [][\A u \in Users :
          stored[u] # "none" /\ stored'[u] = "none" =>
              pc = "save" /\ (faults' # faults \/ ~read)]_vars

(***************************************************************************)
(* RunEnds: if every call to a server is answered or breaks and the user   *)
(* types what is asked for, every run ends, through any failing servers,   *)
(* wrong passwords and confirmations - or it polls for the confirmation of *)
(* the login for ever (main.rs:445), the one place where a run can stay    *)
(* although everybody answers.                                             *)
(***************************************************************************)
RunEnds ==
    ServersAnswer /\ UserTypes =>
        (pc # "idle" ~> pc = "idle") \/ <>[](pc = "poll")

(***************************************************************************)
(* LoginWorks: if also every login is confirmed in the end, every user who *)
(* starts the program again and again logs in again and again once the     *)
(* faults are over, unless a stored token has gone stale: a refused token  *)
(* is neither removed nor replaced by asking for the password              *)
(* (main.rs:175).                                                          *)
(***************************************************************************)
LoginWorks ==
    ServersAnswer /\ UserTypes /\ LoginConfirmed /\ UserTriesAgain =>
        ([](\A u \in Users : stored[u] # "stale") =>
            \A o \in Options : []<>(opts = o /\ verdict = "ok"))
=============================================================================
