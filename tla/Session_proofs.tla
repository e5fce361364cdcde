--------------------------- MODULE Session_proofs ---------------------------
(***************************************************************************)
(* Proofs about Session, for any users, options, servers, confirmations    *)
(* and faults.                                                             *)
(***************************************************************************)
EXTENDS Session, FiniteSetTheorems, SequenceTheorems, TLAPS

-----------------------------------------------------------------------------
(* The inductive invariant, part by part.                                  *)

\* What ties the state of a run to the run: no verdict yet, no refusal yet,
\* a user whose token is not known to the run, a good token to save.
RunInv ==
    /\ RefusalIsFinal /\ GivesUpLast /\ RememberedLogin
    /\ pc # "idle" => verdict = "none"
    /\ pc \in {"password", "rsa", "begin", "guard"} => opts.user \in Users
    /\ pc = "save" => token = "valid" /\ opts.user \in Users

\* The invariant in its named parts.
LEMMA IInvParts == IInv <=> TypeOK /\ RunInv /\ PasswordsBounded /\ CountInv
  BY DEF IInv, RunInv

\* A run starts with options that the program accepts.
LEMMA UserType ==
    ASSUME TypeOK
    PROVE  opts \in Option /\ opts.user \in Users \cup {Nobody}
  BY OptionAssumption DEF TypeOK, Option

\* The directory lists a number of servers.
LEMMA UsableType ==
    ASSUME NEW entries \in Answers
    PROVE  Usable(entries) \in Nat
  <1>1. PICK n \in 0 .. ListedServers : entries \in [1 .. n -> {"netfilter", "websockets", "unknown"}]
    BY DEF Answers
  <1>2. n \in Nat /\ DOMAIN entries = 1 .. n
    BY <1>1, BoundAssumption
  <1>3. IsFiniteSet(1 .. n)
    BY <1>2, FS_Interval
  <1>4. IsFiniteSet({i \in DOMAIN entries : entries[i] = "netfilter"})
    BY <1>2, <1>3, FS_Subset
  <1>5. QED
    BY <1>4, FS_CardinalityType DEF Usable

\* Before the first run.
LEMMA IInvInit == Init => IInv
  <1> SUFFICES ASSUME Init PROVE IInv
    OBVIOUS
  <1>1. <<>> \in Seq(GuardTypes) /\ 0 \in 0 .. MaxFaults
    BY BoundAssumption
  <1>2. TypeOK
    BY <1>1 DEF Init, TypeOK, Pcs, Tokens, NoTokens
  <1>3. QED
    BY <1>2 DEF Init, IInv, RefusalIsFinal, GivesUpLast, PasswordsBounded, RememberedLogin,
                CountInv, MAX_PASSWORD_ATTEMPTS

\* One more fault is within the bound.
LEMMA FaultType ==
    ASSUME TypeOK, NEW kind, Fault(kind)
    PROVE  faults' \in 0 .. MaxFaults
  BY BoundAssumption DEF TypeOK, Fault

\* A broken connection: the next server, or the end.
LEMMA BrokenStep ==
    ASSUME IInv, Broken, pc \notin {"idle", "discover"}
    PROVE  IInv'
  <1>1. TypeOK /\ RunInv /\ PasswordsBounded /\ CountInv
    BY IInvParts
  <1>2. faults' \in 0 .. MaxFaults /\ <<>> \in Seq(GuardTypes)
    BY <1>1, FaultType DEF Broken
  <1>3. TypeOK'
    BY <1>1, <1>2 DEF Broken, NextServer, Forget, Ends, hist, TypeOK, Tokens, Pcs
  <1>4. RunInv'
    BY <1>1 DEF Broken, NextServer, Forget, Ends, hist, TypeOK, RunInv, RefusalIsFinal,
                GivesUpLast, RememberedLogin
  <1>5. PasswordsBounded' /\ CountInv'
    BY <1>1 DEF Broken, NextServer, Forget, Ends, hist, TypeOK, PasswordsBounded, CountInv,
                MAX_PASSWORD_ATTEMPTS
  <1>6. QED
    BY <1>3, <1>4, <1>5 DEF IInv, RunInv

\* A refusal: the end.
LEMMA RefusedStep ==
    ASSUME IInv, Refused, pc \notin {"idle", "discover"}, faults' \in 0 .. MaxFaults
    PROVE  IInv'
  <1>1. TypeOK /\ RunInv /\ PasswordsBounded /\ CountInv
    BY IInvParts
  <1>2. <<>> \in Seq(GuardTypes)
    OBVIOUS
  <1>3. TypeOK'
    BY <1>1, <1>2 DEF Refused, Forget, Ends, TypeOK, Tokens, Pcs
  <1>4. RunInv'
    BY <1>1 DEF Refused, Forget, Ends, RunInv, RefusalIsFinal, GivesUpLast, RememberedLogin
  <1>5. PasswordsBounded' /\ CountInv'
    BY <1>1 DEF Refused, Forget, Ends, TypeOK, PasswordsBounded, CountInv, MAX_PASSWORD_ATTEMPTS
  <1>6. QED
    BY <1>3, <1>4, <1>5 DEF IInv, RunInv

\* A refusal of a call keeps the invariant.
LEMMA FaultRefused ==
    ASSUME IInv, Fault("refused"), Refused, pc \notin {"idle", "discover"}
    PROVE  IInv'
  BY FaultType, RefusedStep, IInvParts

\* Every step keeps the invariant.
LEMMA IInvNext ==
    ASSUME IInv, [Next]_vars
    PROVE  IInv'
  <1>0. TypeOK /\ RunInv /\ PasswordsBounded /\ CountInv
    BY IInvParts
  <1>a. SUFFICES TypeOK' /\ RunInv' /\ PasswordsBounded' /\ CountInv'
    BY DEF IInv, RunInv
  <1>b. IInv' => TypeOK' /\ RunInv' /\ PasswordsBounded' /\ CountInv'
    BY DEF IInv, RunInv
  <1> DEFINE Inv == TypeOK' /\ RunInv' /\ PasswordsBounded' /\ CountInv'
  <1> USE <1>0 DEF conn, auth, hist, MAX_PASSWORD_ATTEMPTS
  <1>1. ASSUME NEW o \in Options, Start(o) PROVE Inv
    <2>1. TypeOK'
      BY <1>1, BoundAssumption DEF Start, TypeOK, Pcs
    <2>2. RunInv'
      BY <1>1 DEF Start, RunInv, RefusalIsFinal, GivesUpLast, RememberedLogin
    <2>3. PasswordsBounded' /\ CountInv'
      BY <1>1 DEF Start, TypeOK, PasswordsBounded, CountInv
    <2>4. QED
      BY <2>1, <2>2, <2>3
  <1>2. ASSUME discover_servers PROVE Inv
    <2>1. servers' \in Nat /\ 1 <= servers' /\ faults' \in 0 .. MaxFaults
      <3>1. ASSUME NEW e \in Answers,
                   servers' = (IF Usable(e) > 0 THEN Usable(e) ELSE DefaultServers)
            PROVE  servers' \in Nat /\ 1 <= servers'
        BY <3>1, UsableType DEF DefaultServers
      <3>2. QED
        BY <1>2, <3>1, FaultType DEF discover_servers, TypeOK, DefaultServers
    <2>2. TypeOK'
      BY <1>2, <2>1 DEF discover_servers, TypeOK, Pcs
    <2>3. RunInv'
      BY <1>2, <2>1 DEF discover_servers, RunInv, RefusalIsFinal, GivesUpLast, RememberedLogin
    <2>4. PasswordsBounded' /\ CountInv'
      BY <1>2, <2>1 DEF discover_servers, TypeOK, PasswordsBounded, CountInv
    <2>5. QED
      BY <2>2, <2>3, <2>4
  <1>3. ASSUME connect \/ encrypt PROVE Inv
    <2>1. CASE Broken
      BY <1>3, <2>1, <1>b, BrokenStep DEF connect, encrypt
    <2>2. ASSUME NEW next \in {"encrypt", "login"}, Succeeds(next), UNCHANGED auth PROVE Inv
      <3>1. TypeOK'
        BY <1>3, <2>2 DEF connect, encrypt, Succeeds, TypeOK, Pcs
      <3>2. RunInv'
        BY <1>3, <2>2 DEF connect, encrypt, Succeeds, RunInv, RefusalIsFinal, GivesUpLast, RememberedLogin
      <3>3. PasswordsBounded' /\ CountInv'
        BY <1>3, <2>2 DEF connect, encrypt, Succeeds, TypeOK, PasswordsBounded, CountInv
      <3>4. QED
        BY <3>1, <3>2, <3>3
    <2>3. QED
      BY <1>3, <2>1, <2>2 DEF connect, encrypt
  <1>4. ASSUME do_login PROVE Inv
    <2>1. opts.user \in Users \cup {Nobody}
      BY UserType
    <2>2. HasToken => stored[opts.user] \in Tokens
      BY <2>1 DEF HasToken, TypeOK
    <2>3. opts.user # Nobody /\ ~HasToken => opts.user \in Users /\ stored[opts.user] = "none"
      BY <2>1 DEF HasToken
    <2>l. CASE /\ opts.user # Nobody /\ Fault("load")
               /\ read' = FALSE /\ pc' = "password"
               /\ UNCHANGED <<conn, token, stored, verdict, hist>>
               /\ UNCHANGED <<attempts, guard>> /\ pc = "login"
      <3>1. faults' \in 0 .. MaxFaults
        BY <2>l, FaultType
      <3>2. TypeOK'
        BY <2>l, <3>1 DEF TypeOK, Pcs
      <3>3. RunInv'
        BY <2>1, <2>l DEF RunInv, RefusalIsFinal, GivesUpLast, RememberedLogin
      <3>4. PasswordsBounded' /\ CountInv'
        BY <2>l DEF TypeOK, PasswordsBounded, CountInv
      <3>5. QED
        BY <3>2, <3>3, <3>4
    <2>s. ASSUME NEW next \in {"logon", "password", "qr"}, Succeeds(next), token' \in Tokens,
                 next = "password" => opts.user # Nobody /\ ~HasToken,
                 UNCHANGED <<attempts, guard, read>>, pc = "login"
          PROVE  Inv
      <3>1. TypeOK'
        BY <2>s DEF Succeeds, TypeOK, Pcs
      <3>2. RunInv'
        BY <2>3, <2>s DEF Succeeds, RunInv, RefusalIsFinal, GivesUpLast, RememberedLogin
      <3>3. PasswordsBounded' /\ CountInv'
        BY <2>s DEF Succeeds, TypeOK, PasswordsBounded, CountInv
      <3>4. QED
        BY <3>1, <3>2, <3>3
    <2>4. token \in Tokens /\ "valid" \in Tokens
      BY DEF TypeOK, Tokens
    <2>5. QED
      BY <1>4, <2>2, <2>4, <2>l, <2>s DEF do_login
  <1>5. ASSUME ask_password PROVE Inv
    <2>1. CASE Broken
      BY <1>5, <2>1, <1>b, BrokenStep DEF ask_password
    <2>2. CASE attempts' = attempts + 1 /\ Succeeds("rsa") /\ UNCHANGED <<guard, token, read>>
      <3>1. TypeOK'
        BY <1>5, <2>2 DEF ask_password, Succeeds, TypeOK, Pcs
      <3>2. RunInv'
        BY <1>5, <2>2 DEF ask_password, Succeeds, RunInv, RefusalIsFinal, GivesUpLast, RememberedLogin
      <3>3. PasswordsBounded' /\ CountInv'
        BY <1>5, <2>2 DEF ask_password, Succeeds, TypeOK, PasswordsBounded, CountInv
      <3>4. QED
        BY <3>1, <3>2, <3>3
    <2>3. QED
      BY <1>5, <2>1, <2>2 DEF ask_password
  <1>6. ASSUME get_password_rsa_public_key \/ authenticate_qr PROVE Inv
    <2>1. CASE Broken \/ (Fault("refused") /\ Refused)
      BY <1>6, <2>1, <1>b, BrokenStep, FaultRefused DEF get_password_rsa_public_key, authenticate_qr
    <2>2. CASE /\ Succeeds(IF pc = "rsa" THEN "begin" ELSE "poll") /\ UNCHANGED auth
               /\ pc \in {"rsa", "qr"}
      <3>1. TypeOK'
        BY <2>2 DEF Succeeds, TypeOK, Pcs
      <3>2. RunInv'
        BY <2>2 DEF Succeeds, RunInv, RefusalIsFinal, GivesUpLast, RememberedLogin
      <3>3. PasswordsBounded' /\ CountInv'
        BY <2>2 DEF Succeeds, TypeOK, PasswordsBounded, CountInv
      <3>4. QED
        BY <3>1, <3>2, <3>3
    <2>3. QED
      BY <1>6, <2>1, <2>2 DEF get_password_rsa_public_key, authenticate_qr
  <1>7. ASSUME begin_auth_session_via_credentials PROVE Inv
    <2>1. CASE Broken \/ (Fault("refused") /\ Refused)
      BY <1>7, <2>1, <1>b, BrokenStep, FaultRefused DEF begin_auth_session_via_credentials
    <2>2. CASE BeginAccepted
      <3>1. TypeOK'
        BY <1>7, <2>2, ConfirmationAssumption
           DEF begin_auth_session_via_credentials, BeginAccepted, Succeeds, TypeOK, Pcs
      <3>2. RunInv'
        BY <1>7, <2>2 DEF begin_auth_session_via_credentials, BeginAccepted, Succeeds, RunInv,
                          RefusalIsFinal, GivesUpLast, RememberedLogin
      <3>3. PasswordsBounded' /\ CountInv'
        BY <1>7, <2>2 DEF begin_auth_session_via_credentials, BeginAccepted, Succeeds, TypeOK,
                          PasswordsBounded, CountInv
      <3>4. QED
        BY <3>1, <3>2, <3>3
    <2>3. CASE WrongPassword
      <3>1. faults' \in 0 .. MaxFaults /\ <<>> \in Seq(GuardTypes)
        BY <2>3, FaultType DEF WrongPassword
      <3>2. TypeOK'
        <4>1. CASE pc' = "password" /\ UNCHANGED <<conn, auth, verdict, refused>>
          BY <1>7, <2>3, <3>1, <4>1
             DEF begin_auth_session_via_credentials, WrongPassword, TypeOK, Pcs
        <4>2. CASE Ends("refused") /\ refused' = TRUE /\ Forget /\ UNCHANGED opts
          BY <2>3, <3>1, <4>2 DEF WrongPassword, Ends, Forget, TypeOK, Pcs, Tokens
        <4>3. QED
          BY <2>3, <4>1, <4>2 DEF WrongPassword
      <3>3. RunInv'
        BY <1>7, <2>3 DEF begin_auth_session_via_credentials, WrongPassword, Ends, Forget, RunInv,
                          RefusalIsFinal, GivesUpLast, RememberedLogin
      <3>4. PasswordsBounded' /\ CountInv'
        BY <1>7, <2>3 DEF begin_auth_session_via_credentials, WrongPassword, Ends, Forget, TypeOK,
                          PasswordsBounded, CountInv
      <3>5. QED
        BY <3>2, <3>3, <3>4
    <2>4. QED
      BY <1>7, <2>1, <2>2, <2>3 DEF begin_auth_session_via_credentials
  <1>8. ASSUME confirm PROVE Inv
    <2>1. guard' \in Seq(GuardTypes)
      <3>1. guard \in Seq(GuardTypes) /\ <<>> \in Seq(GuardTypes)
        BY DEF TypeOK
      <3>2. guard # <<>> => Tail(guard) \in Seq(GuardTypes)
        BY <3>1, HeadTailProperties
      <3>3. QED
        BY <1>8, <3>1, <3>2 DEF confirm
    <2>2. TypeOK'
      BY <1>8, <2>1 DEF confirm, Succeeds, TypeOK, Pcs
    <2>3. RunInv'
      BY <1>8 DEF confirm, Succeeds, RunInv, RefusalIsFinal, GivesUpLast, RememberedLogin
    <2>4. PasswordsBounded' /\ CountInv'
      BY <1>8 DEF confirm, Succeeds, TypeOK, PasswordsBounded, CountInv
    <2>5. QED
      BY <2>2, <2>3, <2>4
  <1>9. ASSUME submit_steam_guard_code PROVE Inv
    <2>1. CASE Broken \/ (Fault("refused") /\ Refused)
      BY <1>9, <2>1, <1>b, BrokenStep, FaultRefused DEF submit_steam_guard_code
    <2>2. CASE guard' = <<>> /\ Succeeds("poll") /\ UNCHANGED <<attempts, token, read>>
      <3>1. TypeOK'
        BY <1>9, <2>2 DEF submit_steam_guard_code, Succeeds, TypeOK, Pcs
      <3>2. RunInv'
        BY <1>9, <2>2 DEF submit_steam_guard_code, Succeeds, RunInv, RefusalIsFinal, GivesUpLast,
                          RememberedLogin
      <3>3. PasswordsBounded' /\ CountInv'
        BY <1>9, <2>2 DEF submit_steam_guard_code, Succeeds, TypeOK, PasswordsBounded, CountInv
      <3>4. QED
        BY <3>1, <3>2, <3>3
    <2>3. QED
      BY <1>9, <2>1, <2>2 DEF submit_steam_guard_code
  <1>10. ASSUME PollAnswered PROVE Inv
    <2>1. CASE Broken \/ (Fault("refused") /\ Refused)
      BY <1>10, <2>1, <1>b, BrokenStep, FaultRefused DEF PollAnswered
    <2>2. CASE /\ token' = "valid"
               /\ Succeeds(IF opts.user # Nobody /\ opts.remember THEN "save" ELSE "logon")
               /\ UNCHANGED <<attempts, guard, read>>
      <3>1. TypeOK'
        BY <1>10, <2>2 DEF PollAnswered, Succeeds, TypeOK, Pcs, Tokens
      <3>2. RunInv'
        BY <1>10, <2>2, UserType DEF PollAnswered, Succeeds, RunInv, RefusalIsFinal, GivesUpLast, RememberedLogin
      <3>3. PasswordsBounded' /\ CountInv'
        BY <1>10, <2>2 DEF PollAnswered, Succeeds, TypeOK, PasswordsBounded, CountInv
      <3>4. QED
        BY <3>1, <3>2, <3>3
    <2>3. QED
      BY <1>10, <2>1, <2>2 DEF PollAnswered
  <1>11. ASSUME save_token PROVE Inv
    <2>1. opts.user \in Users /\ token = "valid"
      BY <1>11 DEF save_token, RunInv
    <2>2. stored' \in [Users -> Tokens] /\ faults' \in 0 .. MaxFaults
      BY <1>11, <2>1, FaultType DEF save_token, Saved, NoTokens, TypeOK, Tokens
    <2>3. TypeOK'
      BY <1>11, <2>2 DEF save_token, TypeOK, Pcs
    <2>4. RunInv'
      BY <1>11 DEF save_token, RunInv, RefusalIsFinal, GivesUpLast, RememberedLogin
    <2>5. PasswordsBounded' /\ CountInv'
      BY <1>11 DEF save_token, TypeOK, PasswordsBounded, CountInv
    <2>6. QED
      BY <2>3, <2>4, <2>5
  <1>12. ASSUME logon PROVE Inv
    <2>1. CASE Broken \/ (Fault("refused") /\ Refused) \/ (Refused /\ UNCHANGED faults)
      BY <1>12, <2>1, <1>b, BrokenStep, FaultRefused, RefusedStep DEF logon, TypeOK
    <2>2. CASE Ends("ok") /\ Forget /\ UNCHANGED <<opts, stored, faults, hist>>
      <3>1. <<>> \in Seq(GuardTypes)
        OBVIOUS
      <3>2. TypeOK'
        BY <2>2, <3>1 DEF Ends, Forget, TypeOK, Pcs, Tokens
      <3>3. RunInv'
        BY <1>12, <2>2 DEF logon, Ends, Forget, RunInv, RefusalIsFinal, GivesUpLast, RememberedLogin
      <3>4. PasswordsBounded' /\ CountInv'
        BY <1>12, <2>2 DEF logon, Ends, Forget, TypeOK, PasswordsBounded, CountInv
      <3>5. QED
        BY <3>2, <3>3, <3>4
    <2>3. QED
      BY <1>12, <2>1, <2>2 DEF logon
  <1>13. ASSUME Crash PROVE Inv
    <2>1. faults' \in 0 .. MaxFaults /\ <<>> \in Seq(GuardTypes)
      BY <1>13, FaultType DEF Crash
    <2>2. stored' \in [Users -> Tokens]
      BY <1>13 DEF Crash, NoTokens, TypeOK, Tokens
    <2>3. TypeOK'
      BY <1>13, <2>1, <2>2 DEF Crash, Ends, Forget, TypeOK, Pcs, Tokens
    <2>4. RunInv'
      BY <1>13 DEF Crash, Ends, Forget, RunInv, RefusalIsFinal, GivesUpLast, RememberedLogin
    <2>5. PasswordsBounded' /\ CountInv'
      BY <1>13 DEF Crash, Ends, Forget, TypeOK, PasswordsBounded, CountInv
    <2>6. QED
      BY <2>3, <2>4, <2>5
  <1>14. ASSUME NEW u \in Users, Expire(u) PROVE Inv
    <2>1. faults' \in 0 .. MaxFaults /\ stored' \in [Users -> Tokens]
      BY <1>14, FaultType DEF Expire, TypeOK, Tokens
    <2>2. \A v \in Users : stored'[v] = "valid" => stored[v] = "valid"
      BY <1>14 DEF Expire, TypeOK
    <2>3. TypeOK'
      BY <1>14, <2>1 DEF Expire, TypeOK
    <2>4. RunInv'
      BY <1>14, <2>2 DEF Expire, RunInv, RefusalIsFinal, GivesUpLast, RememberedLogin
    <2>5. PasswordsBounded' /\ CountInv'
      BY <1>14 DEF Expire, PasswordsBounded, CountInv
    <2>6. QED
      BY <2>3, <2>4, <2>5
  <1>15. ASSUME UNCHANGED vars PROVE Inv
    BY <1>15 DEF vars, TypeOK, RunInv, RefusalIsFinal, GivesUpLast, RememberedLogin,
                 PasswordsBounded, CountInv
  <1>16. QED
    BY <1>1, <1>2, <1>3, <1>4, <1>5, <1>6, <1>7, <1>8, <1>9, <1>10, <1>11, <1>12, <1>13, <1>14, <1>15
       DEF Next, ProgramStep, CallEnds, Typed, PollPending

\* Every run, whatever came before it, starts from a state of the invariant.
LEMMA Invariant == Spec => []IInv
  BY IInvInit, IInvNext, PTL DEF Spec

-----------------------------------------------------------------------------
(* What follows.                                                           *)

\* TypeOK: the server tried is one of the list, the attempts and the tokens
\* have their types, in every state of every run (connect_and_login).
THEOREM TypeCorrect == Spec => []TypeOK
  <1>1. IInv => TypeOK
    BY DEF IInv
  <1>2. QED
    BY Invariant, <1>1, PTL

\* RefusalIsFinal: after a refusal the run is over; no other server gets the
\* same credentials (connect_and_login, is_auth_error).
THEOREM NoRetryAfterRefusal == Spec => []RefusalIsFinal
  <1>1. IInv => RefusalIsFinal
    BY DEF IInv
  <1>2. QED
    BY Invariant, <1>1, PTL

\* GivesUpLast: a run that fails without a refusal has tried every server of
\* the list (connect_and_login).
THEOREM EveryServerTried == Spec => []GivesUpLast
  <1>1. IInv => GivesUpLast
    BY DEF IInv
  <1>2. QED
    BY Invariant, <1>1, PTL

\* PasswordsBounded: no more than three wrong passwords per server tried
\* (authenticate_credentials).
THEOREM FewPasswords == Spec => []PasswordsBounded
  <1>1. IInv => PasswordsBounded
    BY DEF IInv
  <1>2. QED
    BY Invariant, <1>1, PTL

\* RememberedLogin: nobody is asked for a password while the store holds a
\* good token, unless the store could not be read (do_login).
THEOREM NoNeedlessPassword == Spec => []RememberedLogin
  <1>1. IInv => RememberedLogin
    BY DEF IInv
  <1>2. QED
    BY Invariant, <1>1, PTL

\* TokensKept: a stored token is lost only in a write of the store that fails
\* or is cut short, or in one by a run that could not read the store
\* (TokenStore::load, set, save).
THEOREM NoTokenLost == Spec => TokensKept
  <1> DEFINE Kept == \A u \in Users :
                stored[u] # "none" /\ stored'[u] = "none" =>
                    pc = "save" /\ (faults' # faults \/ ~read)
  <1>1. ASSUME IInv, [Next]_vars
        PROVE  Kept
    <2>0. TypeOK
      BY <1>1 DEF IInv
    <2>1. CASE stored' = stored
      BY <2>1
    <2>2. ASSUME save_token PROVE Kept
      <3>1. opts.user \in Users /\ token = "valid"
        BY <1>1, <2>2 DEF save_token, IInv
      <3>2. QED
        BY <2>0, <2>2, <3>1 DEF save_token, Saved, TypeOK, Fault
    <2>3. ASSUME Crash PROVE Kept
      BY <2>0, <2>3 DEF Crash, Fault, TypeOK
    <2>4. ASSUME NEW v \in Users, Expire(v) PROVE Kept
      BY <2>0, <2>4 DEF Expire, TypeOK
    <2>5. CASE (\E o \in Options : Start(o)) \/ PollPending \/ UNCHANGED vars
      BY <2>5, <2>1 DEF Start, PollPending, vars
    <2>6. CASE ProgramStep \/ CallEnds \/ Typed \/ PollAnswered
      BY <2>1, <2>2, <2>6
         DEF ProgramStep, CallEnds, Typed, discover_servers, connect, encrypt, do_login, ask_password,
             get_password_rsa_public_key, begin_auth_session_via_credentials, BeginAccepted,
             WrongPassword, confirm, submit_steam_guard_code, authenticate_qr, PollAnswered,
             logon, Broken, Refused, Succeeds
    <2>7. QED
      BY <1>1, <2>2, <2>3, <2>4, <2>5, <2>6 DEF Next
  <1>2. QED
    BY Invariant, <1>1, PTL DEF Spec, TokensKept
=============================================================================
