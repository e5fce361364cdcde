------------------------------ MODULE CmClient ------------------------------
(***************************************************************************)
(* The Steam client: handshake, login, service calls and the routing of    *)
(* what the server sends.                                                  *)
(*                                                                         *)
(*   crates/steam/src/client/mod.rs     SteamClient, recv_routed_msg       *)
(*   crates/steam/src/client/multi.rs   unpack_multi                       *)
(*   crates/steam/src/apps, content     the calls of a logged in client    *)
(*   crates/steam/src/transport         the stream and its lock            *)
(*                                                                         *)
(* The tasks in Callers share one client.  A call sends its request and    *)
(* then receives, itself, until a message is its answer.  Receiving takes  *)
(* the next message of msg_queue or else waits for a packet, holding the   *)
(* stream's lock; sending waits for that lock, holding the cipher's.       *)
(*                                                                         *)
(* pending_jobs, where recv_routed_msg looks for the task that waits for   *)
(* an answer, is never filled: the lookups always fail and are left out.   *)
(* steam_id and session_id are set with the login and only decorate later  *)
(* requests.                                                               *)
(***************************************************************************)
EXTENDS Integers, Sequences

CONSTANTS
    Callers,
    None,
    Kinds,          \* caller -> which of CallKinds it makes
    Faults,         \* which of FaultKinds may happen
    MaxCalls,       \* bound: calls started in all
    MaxEvents,      \* bound: messages the server sends unasked
    MaxFaults       \* bound: faults in all

\* matched by job id
ServiceKinds == {"service", "nonauthed"}

\* matched by the EMsg of the answer alone
EMsgKinds == {"login", "tokens", "product", "key", "beta"}

CallKinds == ServiceKinds \cup EMsgKinds \cup {"heartbeat"}

FaultKinds == {"handshake", "refused", "bad", "garbled", "lost"}

ASSUME NoneAssumption == None \notin Callers

ASSUME KindAssumption == Kinds \in [Callers -> SUBSET CallKinds] /\ Faults \subseteq FaultKinds

ASSUME BoundAssumption == MaxCalls \in Nat /\ MaxEvents \in Nat /\ MaxFaults \in Nat

\* What a body says: the answer, a refusal (an eresult other than OK, or none
\* where one is needed), or something that does not decode.
Bodies == {"good", "refused", "bad"}

\* answer names the kind of call it belongs to ("event" if none); job is
\* jobid_target; call is the request it really answers; n counts the messages
\* of the server; garbled is a message that parse_incoming rejects
Message == [answer : CallKinds \cup {"event"}, job : Nat, call : Nat, n : Nat,
            body : Bodies, more : BOOLEAN, garbled : BOOLEAN]

\* one frame of the transport: a message, or a Multi with several
Packet == [multi : BOOLEAN, msgs : Seq(Message)]

Request == [kind : CallKinds, job : Nat, call : Nat]

\* the EMsg of the answer; one for all service calls
EMsgOf(kind) == IF kind \in ServiceKinds THEN "service" ELSE kind

NoPacket == [multi |-> FALSE, msgs |-> <<>>]

NoCall == [kind |-> "none", job |-> 0, call |-> 0]

Results == [kind : CallKinds \cup {"none"}, call : Nat, answers : Nat,
            outcome : {"none", "ok", "refused", "error"}]

NoResult == [kind |-> "none", call |-> 0, answers |-> 0, outcome |-> "none"]

VARIABLES
    stage,          \* the typestate of the client, "gone" once it is dropped
    next_job_id,
    pc, call,       \* caller -> where it is, the request it makes
    packet,         \* caller -> the packet it has received
    result,         \* caller -> how its last call ended
    stream, cipher, \* who holds the lock
    msg_queue

\* the server and the connection
VARIABLES open, requests, inbound, sent

\* bounds and history
VARIABLES
    started, events, faults,
    handled,        \* n of the last message a caller took
    skipped,        \* a part of a Multi did not parse
    apart           \* calls never overlapped, and none followed an error

task   == <<stage, pc, call, result>>
client == <<next_job_id, packet, stream, cipher, msg_queue>>
server == <<open, requests, inbound, sent>>
bounds == <<started, events, faults>>
hist   == <<handled, skipped, apart>>
vars   == <<task, client, server, bounds, hist>>

Pcs == {"idle", "cipher", "sending", "queue", "stream", "reading", "decrypt", "unpack"}

\* bound on the answers to one product info request
MaxParts == 2

Fault(kind) == kind \in Faults /\ faults < MaxFaults /\ faults' = faults + 1

Init ==
    /\ stage = "connected" /\ next_job_id = 1
    /\ pc = [c \in Callers |-> "idle"]
    /\ call = [c \in Callers |-> NoCall]
    /\ packet = [c \in Callers |-> NoPacket]
    /\ result = [c \in Callers |-> NoResult]
    /\ stream = None /\ cipher = None /\ msg_queue = <<>>
    /\ open = TRUE /\ requests = {} /\ inbound = <<>> /\ sent = 0
    /\ started = 0 /\ events = 0 /\ faults = 0
    /\ handled = 0 /\ skipped = FALSE /\ apart = TRUE

-----------------------------------------------------------------------------
(* The handshake: it owns the client, nothing else runs.                   *)

Handshake(from, to) ==
    /\ stage = from
    /\ \/ stage' = to /\ UNCHANGED faults
       \/ Fault("handshake") /\ stage' = "gone"
    /\ UNCHANGED <<pc, call, result, client, server, started, events, hist>>

\* the first packet must be a ChannelEncryptRequest of at least 8 bytes; the
\* session key is sent back
EncryptRequest == Handshake("connected", "responded")

\* the second must be a ChannelEncryptResult with EResult OK; the cipher is
\* set and ClientHello is sent
EncryptResult == Handshake("responded", "encrypted")

-----------------------------------------------------------------------------
(* Calls.                                                                  *)

Idle(c) == pc[c] = "idle"

Overlaps(c) == \E d \in Callers : d # c /\ ~Idle(d)

AfterError == \E d \in Callers : result[d].outcome = "error"

Start(c, kind, job) ==
    /\ Idle(c) /\ kind \in Kinds[c] /\ started < MaxCalls
    /\ started' = started + 1
    /\ call' = [call EXCEPT ![c] = [kind |-> kind, job |-> job, call |-> started + 1]]
    /\ result' = [result EXCEPT ![c] = [NoResult EXCEPT !.kind = kind, !.call = started + 1]]
    /\ pc' = [pc EXCEPT ![c] = "cipher"]
    /\ apart' = (apart /\ ~Overlaps(c) /\ ~AfterError)
    /\ UNCHANGED <<stage, packet, stream, cipher, msg_queue, server, events, faults,
                   handled, skipped>>

\* mutant: every call has the same job id
CallService_SameId(c, kind) == Start(c, kind, next_job_id) /\ UNCHANGED next_job_id

CallService(c, kind) ==
    /\ Start(c, kind, next_job_id)
    /\ next_job_id' = next_job_id + 1

call_service_method(c) == stage = "loggedin" /\ CallService(c, "service")

call_service_method_non_authed(c) == stage = "encrypted" /\ CallService(c, "nonauthed")

CallByEMsg(c, kind) == Start(c, kind, 0) /\ UNCHANGED next_job_id

\* login takes the client itself: no other call can be under way
login(c) ==
    stage = "encrypted" /\ ~Overlaps(c) /\ CallByEMsg(c, "login")

pics_get_access_tokens(c) == stage = "loggedin" /\ CallByEMsg(c, "tokens")

pics_get_product_info(c) == stage = "loggedin" /\ CallByEMsg(c, "product")

get_depot_decryption_key(c) == stage = "loggedin" /\ CallByEMsg(c, "key")

check_beta_password(c) == stage = "loggedin" /\ CallByEMsg(c, "beta")

send_heartbeat(c) == stage = "loggedin" /\ CallByEMsg(c, "heartbeat")

\* send_encrypted: the cipher's lock is kept until the frame is written
LockCipher(c) ==
    /\ pc[c] = "cipher" /\ cipher = None
    /\ cipher' = c
    /\ pc' = [pc EXCEPT ![c] = "sending"]
    /\ UNCHANGED <<stage, call, result, next_job_id, packet, stream, msg_queue,
                   server, bounds, hist>>

\* a call ends; an error of login drops the client
Return(c, outcome, answers) ==
    /\ pc' = [pc EXCEPT ![c] = "idle"]
    /\ call' = [call EXCEPT ![c] = NoCall]
    /\ result' = [result EXCEPT ![c].outcome = outcome, ![c].answers = answers]
    /\ stage' = IF call[c].kind # "login" THEN stage
                ELSE IF outcome = "ok" THEN "loggedin" ELSE "gone"

\* a call goes on
Continue(c, next) ==
    /\ pc' = [pc EXCEPT ![c] = next]
    /\ UNCHANGED <<stage, call, result>>

Send(c) ==
    /\ pc[c] = "sending" /\ stream = None
    /\ cipher' = None
    /\ \/ /\ open /\ call[c].kind # "heartbeat"
          /\ requests' = requests \cup {call[c]}
          /\ Continue(c, "queue")
       \/ /\ open /\ call[c].kind = "heartbeat"
          /\ Return(c, "ok", call[c].call)
          /\ UNCHANGED requests
       \/ /\ ~open
          /\ Return(c, "error", 0)
          /\ UNCHANGED requests
    /\ UNCHANGED <<next_job_id, packet, stream, msg_queue, open, inbound, sent, bounds, hist>>

-----------------------------------------------------------------------------
(* Receiving.                                                              *)

IsAnswer(c, m) ==
    /\ m.answer = EMsgOf(call[c].kind)
    /\ call[c].kind \in ServiceKinds => m.job = call[c].job

\* mutant: product info is complete with its first answer
LastPart_First(c, m) == TRUE

\* response_pending is only read by pics_get_product_info
LastPart(c, m) == call[c].kind # "product" \/ ~m.more \/ m.body = "bad"

\* mutant: the eresult is not turned into an outcome
Outcome_Raw(c, m) == IF m.body = "good" THEN "ok" ELSE m.body

\* from_incoming, and the checks of the calls that read an eresult
Outcome(c, m) ==
    CASE m.body = "bad" -> "error"
      [] m.body = "refused" /\ call[c].kind \notin {"tokens", "product"} -> "refused"
      [] OTHER -> "ok"

\* a message that is not the answer is forwarded to the event channel by
\* service calls and login, and dropped by the other calls: no task sees it
Take(c, m) ==
    /\ handled' = m.n
    /\ \/ IsAnswer(c, m) /\ LastPart(c, m) /\ Return(c, Outcome(c, m), m.call)
       \/ ~(IsAnswer(c, m) /\ LastPart(c, m)) /\ Continue(c, "queue")

\* whoever unpacks a Multi holds the queue's lock
QueueFree == \A c \in Callers : pc[c] # "unpack"

\* mutant: the newest message first
PopQueue_Newest(c) ==
    /\ pc[c] = "queue" /\ QueueFree /\ msg_queue # <<>>
    /\ msg_queue' = SubSeq(msg_queue, 1, Len(msg_queue) - 1)
    /\ Take(c, msg_queue[Len(msg_queue)])
    /\ UNCHANGED <<next_job_id, packet, stream, cipher, server, bounds, skipped, apart>>

PopQueue(c) ==
    /\ pc[c] = "queue" /\ QueueFree /\ msg_queue # <<>>
    /\ msg_queue' = Tail(msg_queue)
    /\ Take(c, Head(msg_queue))
    /\ UNCHANGED <<next_job_id, packet, stream, cipher, server, bounds, skipped, apart>>

QueueEmpty(c) ==
    /\ pc[c] = "queue" /\ QueueFree /\ msg_queue = <<>>
    /\ Continue(c, "stream")
    /\ UNCHANGED <<client, server, bounds, hist>>

LockStream(c) ==
    /\ pc[c] = "stream" /\ stream = None
    /\ stream' = c
    /\ Continue(c, "reading")
    /\ UNCHANGED <<next_job_id, packet, cipher, msg_queue, server, bounds, hist>>

\* one frame; the stream's lock is given back
Read(c) ==
    /\ pc[c] = "reading" /\ inbound # <<>>
    /\ packet' = [packet EXCEPT ![c] = Head(inbound)]
    /\ inbound' = Tail(inbound)
    /\ stream' = None
    /\ Continue(c, "decrypt")
    /\ UNCHANGED <<next_job_id, cipher, msg_queue, open, requests, sent, bounds, hist>>

\* end of the stream
ReadFails(c) ==
    /\ pc[c] = "reading" /\ inbound = <<>> /\ ~open
    /\ stream' = None
    /\ Return(c, "error", 0)
    /\ UNCHANGED <<next_job_id, packet, cipher, msg_queue, server, bounds, hist>>

\* a packet that is no Multi is handled at once, or is an error
Decrypt(c) ==
    /\ pc[c] = "decrypt" /\ cipher = None /\ ~packet[c].multi
    /\ LET m == packet[c].msgs[1]
       IN  \/ m.garbled /\ Return(c, "error", 0) /\ UNCHANGED handled
           \/ ~m.garbled /\ Take(c, m)
    /\ packet' = [packet EXCEPT ![c] = NoPacket]
    /\ UNCHANGED <<next_job_id, stream, cipher, msg_queue, server, bounds, skipped, apart>>

\* a Multi that does not decode or cannot be unzipped is an error, all of it
DecryptMultiFails(c) ==
    /\ pc[c] = "decrypt" /\ cipher = None /\ packet[c].multi
    /\ Fault("garbled")
    /\ Return(c, "error", 0)
    /\ packet' = [packet EXCEPT ![c] = NoPacket]
    /\ UNCHANGED <<next_job_id, stream, cipher, msg_queue, server, started, events, hist>>

\* unpack_multi; the queue's lock is taken
DecryptMulti(c) ==
    /\ pc[c] = "decrypt" /\ cipher = None /\ packet[c].multi /\ QueueFree
    /\ Continue(c, "unpack")
    /\ UNCHANGED <<client, server, bounds, hist>>

\* mutant: a new Multi takes the place of what the queue holds
Unpack_Replace(c) ==
    /\ pc[c] = "unpack" /\ packet[c].msgs # <<>>
    /\ LET m == Head(packet[c].msgs)
       IN  /\ msg_queue' = IF m.garbled THEN msg_queue ELSE <<m>>
           /\ skipped' = (skipped \/ m.garbled)
    /\ packet' = [packet EXCEPT ![c].msgs = Tail(@)]
    /\ UNCHANGED <<task, next_job_id, stream, cipher, server, bounds, handled, apart>>

\* a part that does not parse is only logged
Unpack(c) ==
    /\ pc[c] = "unpack" /\ packet[c].msgs # <<>>
    /\ LET m == Head(packet[c].msgs)
       IN  /\ msg_queue' = IF m.garbled THEN msg_queue ELSE Append(msg_queue, m)
           /\ skipped' = (skipped \/ m.garbled)
    /\ packet' = [packet EXCEPT ![c].msgs = Tail(@)]
    /\ UNCHANGED <<task, next_job_id, stream, cipher, server, bounds, handled, apart>>

Unpacked(c) ==
    /\ pc[c] = "unpack" /\ packet[c].msgs = <<>>
    /\ packet' = [packet EXCEPT ![c] = NoPacket]
    /\ Continue(c, "queue")
    /\ UNCHANGED <<next_job_id, stream, cipher, msg_queue, server, bounds, hist>>

CallerStarts(c) ==
    \/ call_service_method(c) \/ call_service_method_non_authed(c) \/ login(c)
    \/ pics_get_access_tokens(c) \/ pics_get_product_info(c)
    \/ get_depot_decryption_key(c) \/ check_beta_password(c) \/ send_heartbeat(c)

CallerStep(c) ==
    \/ LockCipher(c) \/ Send(c)
    \/ PopQueue(c) \/ QueueEmpty(c) \/ LockStream(c) \/ Read(c) \/ ReadFails(c)
    \/ Decrypt(c) \/ DecryptMulti(c) \/ DecryptMultiFails(c) \/ Unpack(c) \/ Unpacked(c)

-----------------------------------------------------------------------------
(* The server, as the client sees it: it answers every request, in any     *)
(* order, and sends messages of its own.                                   *)

\* a packet of its own, a new Multi, or one more part of the last Multi
Post(m) ==
    /\ sent' = sent + 1
    /\ \/ inbound' = Append(inbound, [multi |-> FALSE, msgs |-> <<m>>])
       \/ inbound' = Append(inbound, [multi |-> TRUE, msgs |-> <<m>>])
       \/ /\ inbound # <<>> /\ inbound[Len(inbound)].multi
          /\ inbound' = [inbound EXCEPT ![Len(inbound)].msgs = Append(@, m)]

\* product info comes in several answers, all but the last with response_pending
Respond(r) ==
    /\ open /\ r \in requests
    /\ \E body \in Bodies, more, garbled \in BOOLEAN :
          /\ \/ body = "good" /\ ~garbled /\ UNCHANGED faults
             \/ body \in {"refused", "bad"} /\ ~garbled /\ Fault(body)
             \/ body = "good" /\ garbled /\ Fault("garbled")
          /\ more => r.kind = "product" /\ sent < MaxParts
          /\ requests' = IF more THEN requests ELSE requests \ {r}
          /\ Post([answer |-> EMsgOf(r.kind), job |-> r.job, call |-> r.call, n |-> sent + 1,
                   body |-> body, more |-> more, garbled |-> garbled])
    /\ UNCHANGED <<task, client, open, started, events, hist>>

PostEvent ==
    /\ open /\ stage \in {"encrypted", "loggedin"} /\ events < MaxEvents
    /\ events' = events + 1
    /\ Post([answer |-> "event", job |-> 0, call |-> 0, n |-> sent + 1,
             body |-> "good", more |-> FALSE, garbled |-> FALSE])
    /\ UNCHANGED <<task, client, open, requests, started, faults, hist>>

ConnectionLost ==
    /\ open /\ Fault("lost")
    /\ open' = FALSE
    /\ UNCHANGED <<task, client, requests, inbound, sent, started, events, hist>>

Next ==
    \/ EncryptRequest \/ EncryptResult
    \/ \E c \in Callers : CallerStarts(c) \/ CallerStep(c)
    \/ \E r \in requests : Respond(r)
    \/ PostEvent \/ ConnectionLost

Spec == Init /\ [][Next]_vars

\* The runtime makes progress on every task that can go on, and the server
\* answers.
FairSpec ==
    /\ Spec
    /\ \A c \in Callers : WF_vars(CallerStep(c))
    /\ WF_vars(\E r \in requests : Respond(r))

-----------------------------------------------------------------------------
(* Properties.                                                             *)

\* The type invariant.
TypeOK ==
    /\ stage \in {"connected", "responded", "encrypted", "loggedin", "gone"}
    /\ next_job_id \in Nat
    /\ pc \in [Callers -> Pcs]
    /\ call \in [Callers -> Request \cup {NoCall}]
    /\ packet \in [Callers -> Packet]
    /\ result \in [Callers -> Results]
    /\ stream \in Callers \cup {None} /\ cipher \in Callers \cup {None}
    /\ msg_queue \in Seq(Message)
    /\ open \in BOOLEAN /\ requests \subseteq Request
    /\ inbound \in Seq(Packet) /\ sent \in Nat
    /\ started \in Nat /\ events \in Nat /\ faults \in Nat /\ handled \in Nat
    /\ skipped \in BOOLEAN /\ apart \in BOOLEAN

(***************************************************************************)
(* OwnServiceAnswer: a service call that succeeds returns the answer to    *)
(* the request it made, whatever calls run beside it: the job ids drawn    *)
(* from next_job_id tell concurrent requests apart (client/mod.rs:372).    *)
(***************************************************************************)
OwnServiceAnswer ==
    \A c \in Callers :
        result[c].outcome = "ok" /\ result[c].kind \in ServiceKinds =>
            result[c].answers = result[c].call

\* What makes OwnServiceAnswer inductive: nobody waits under a job id for
\* anything but the request it was drawn for,
Belongs(job, number) ==
    /\ job < next_job_id
    /\ \A c \in Callers :
          call[c].kind \in ServiceKinds /\ call[c].job = job => call[c].call = number

Genuine(m) == m.answer = "service" => Belongs(m.job, m.call)

\* neither in what was asked nor in any message on its way,
JobInv ==
    /\ \A c \in Callers : call[c].kind \in ServiceKinds => Belongs(call[c].job, call[c].call)
    /\ \A r \in requests : r.kind \in ServiceKinds => Belongs(r.job, r.call)

MessageInv ==
    /\ \A i \in 1 .. Len(msg_queue) : Genuine(msg_queue[i])
    /\ \A c \in Callers : \A i \in 1 .. Len(packet[c].msgs) : Genuine(packet[c].msgs[i])
    /\ \A p \in 1 .. Len(inbound) :
          \A i \in 1 .. Len(inbound[p].msgs) : Genuine(inbound[p].msgs[i])

\* and a call under way has a request, no result yet, and no empty packet.
CallInv ==
    /\ \A c \in Callers :
          /\ pc[c] # "idle" => /\ call[c] \in Request
                               /\ result[c].kind = call[c].kind
                               /\ result[c].call = call[c].call
                               /\ result[c].outcome = "none"
          /\ pc[c] = "decrypt" => packet[c].msgs # <<>>
    /\ \A p \in 1 .. Len(inbound) : inbound[p].msgs # <<>>

OwnerInv == TypeOK /\ CallInv /\ JobInv /\ MessageInv /\ OwnServiceAnswer

(***************************************************************************)
(* OwnAnswer: as long as the calls are made one after the other and none   *)
(* follows a failed one (as main.rs does), every call that succeeds has    *)
(* its own answer, also those of apps/mod.rs that look only at the EMsg.   *)
(***************************************************************************)
OwnAnswer ==
    apart => \A c \in Callers :
        result[c].outcome = "ok" => result[c].answers = result[c].call

(***************************************************************************)
(* HandledInOrder: calls made one after the other handle the messages in   *)
(* the order in which the server sent them, alone or in Multi packets,     *)
(* whatever is still in msg_queue.                                         *)
(***************************************************************************)
HandledInOrder == [][apart => handled' >= handled]_vars

\* What makes them inductive: a call made alone runs with an empty queue when
\* it waits for a packet,
Waiting == {"queue", "stream", "reading", "decrypt", "unpack"}

SoloInv ==
    /\ \A c \in Callers : pc[c] \notin {"decrypt", "unpack"} => packet[c].msgs = <<>>
    /\ apart => \A c \in Callers : ~Idle(c) =>
          /\ ~Overlaps(c) /\ ~AfterError
          /\ pc[c] \in {"stream", "reading", "decrypt"} => msg_queue = <<>>

\* the messages not yet taken are in the order in which they were sent,
Ordered(s) == \A i, j \in 1 .. Len(s) : i < j => s[i].n < s[j].n

Ahead(s, t) == \A i \in 1 .. Len(s) : \A j \in 1 .. Len(t) : s[i].n < t[j].n

New(s) == \A i \in 1 .. Len(s) : handled < s[i].n /\ s[i].n <= sent

InOrder(s) == Ordered(s) /\ New(s)

OrderInv ==
    apart =>
        /\ handled <= sent /\ InOrder(msg_queue)
        /\ \A c \in Callers : InOrder(packet[c].msgs) /\ Ahead(msg_queue, packet[c].msgs)
        /\ \A p \in 1 .. Len(inbound) :
              /\ InOrder(inbound[p].msgs) /\ Ahead(msg_queue, inbound[p].msgs)
              /\ \A c \in Callers : Ahead(packet[c].msgs, inbound[p].msgs)
              /\ \A q \in 1 .. p - 1 : Ahead(inbound[q].msgs, inbound[p].msgs)

\* and every answer among them is to the one call that waits, nothing of which
\* follows the last part.
Elements(s) == {s[i] : i \in 1 .. Len(s)}

OnWay ==
    Elements(msg_queue)
        \cup (UNION {Elements(packet[c].msgs) : c \in Callers})
        \cup (UNION {Elements(inbound[p].msgs) : p \in 1 .. Len(inbound)})

Answers == {m \in OnWay : m.answer # "event"}

AnswerInv ==
    apart /\ ~AfterError =>
        /\ \A r \in requests : \E c \in Callers : pc[c] \in Waiting /\ call[c] = r
        /\ \A m \in Answers :
              /\ \E c \in Callers : pc[c] \in Waiting /\ call[c].call = m.call
              /\ m.more => m.answer = "product"
              /\ requests # {} \/ (\E k \in Answers : m.n < k.n) => m.more

IInv == OwnerInv /\ SoloInv /\ OrderInv /\ AnswerInv /\ OwnAnswer

(***************************************************************************)
(* EveryCallReturns: "Drives the recv loop internally until the matching   *)
(* response arrives" (client/mod.rs:333): a call returns, as the server    *)
(* answers every request.                                                  *)
(***************************************************************************)
EveryCallReturns == \A c \in Callers : ~Idle(c) ~> Idle(c)

(***************************************************************************)
(* LoneCallReturns: ... as long as the calls are made one after the other  *)
(* and every part of a Multi can be read: the connection may be lost, the  *)
(* server may refuse, send nonsense or put answers into Multi packets.     *)
(***************************************************************************)
LoneCallReturns == [](apart /\ ~skipped) => EveryCallReturns
=============================================================================
