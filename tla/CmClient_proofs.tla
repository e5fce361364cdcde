-------------------------- MODULE CmClient_proofs --------------------------
(***************************************************************************)
(* Proofs about CmClient, for any number of callers, calls, events and     *)
(* faults.                                                                 *)
(***************************************************************************)
EXTENDS CmClient, SequenceTheorems, TLAPS

-----------------------------------------------------------------------------
(* Facts about messages and sequences.                                     *)

\* What is taken from the front of a sequence and what is left.
LEMMA FrontType ==
    ASSUME NEW S, NEW s \in Seq(S), s # <<>>
    PROVE  /\ Head(s) \in S /\ Tail(s) \in Seq(S)
           /\ Len(s) \in Nat \ {0} /\ Len(Tail(s)) = Len(s) - 1
           /\ Head(s) = s[1]
           /\ \A i \in 1 .. Len(Tail(s)) : Tail(s)[i] = s[i + 1]
  BY HeadTailProperties, LenProperties, EmptySeq, ElementOfSeq

\* What appending does.
LEMMA AppendType ==
    ASSUME NEW S, NEW s \in Seq(S), NEW x \in S
    PROVE  /\ Append(s, x) \in Seq(S) /\ Append(s, x) # <<>>
           /\ Len(Append(s, x)) = Len(s) + 1
           /\ \A i \in 1 .. Len(s) : Append(s, x)[i] = s[i]
           /\ Append(s, x)[Len(s) + 1] = x
  BY AppendProperties, LenProperties

\* A sequence of one message.
LEMMA SingletonType ==
    ASSUME NEW S, NEW x \in S
    PROVE  <<x>> \in Seq(S) /\ Len(<<x>>) = 1 /\ <<x>>[1] = x /\ <<x>> # <<>>
  OBVIOUS

-----------------------------------------------------------------------------
(* Type correctness.                                                       *)

TypeInv == TypeOK /\ CallInv

\* Before the handshake nobody calls and nothing is on its way.
LEMMA TypeInvInit == Init => TypeInv
  <1> SUFFICES ASSUME Init PROVE TypeInv
    OBVIOUS
  <1>1. <<>> \in Seq(Message) /\ <<>> \in Seq(Packet) /\ Len(<<>>) = 0
    OBVIOUS
  <1>2. NoPacket \in Packet /\ NoCall \in {NoCall} /\ NoResult \in Results
    BY <1>1 DEF NoPacket, Packet, NoResult, Results
  <1>3. /\ pc \in [Callers -> Pcs] /\ call \in [Callers -> Request \cup {NoCall}]
        /\ packet \in [Callers -> Packet] /\ result \in [Callers -> Results]
    BY <1>2 DEF Init, Pcs
  <1>4. TypeOK
    BY <1>1, <1>3 DEF Init, TypeOK
  <1>5. CallInv
    BY <1>1 DEF Init, CallInv
  <1>6. QED
    BY <1>4, <1>5 DEF TypeInv

\* from_incoming yields an answer, a refusal or an error.
LEMMA OutcomeType ==
    ASSUME NEW c, NEW m
    PROVE  Outcome(c, m) \in {"ok", "refused", "error"}
  BY DEF Outcome

\* A call that ends or goes on.
LEMMA ReturnType ==
    ASSUME TypeOK, NEW c \in Callers, NEW n \in Nat,
           NEW o \in {"ok", "refused", "error"}, Return(c, o, n)
    PROVE  /\ stage' \in {"connected", "responded", "encrypted", "loggedin", "gone"}
           /\ pc' \in [Callers -> Pcs] /\ pc' = [pc EXCEPT ![c] = "idle"]
           /\ call' \in [Callers -> Request \cup {NoCall}]
           /\ result' \in [Callers -> Results]
           /\ \A d \in Callers \ {c} : call'[d] = call[d] /\ result'[d] = result[d]
  BY ZenonT(60) DEF Return, TypeOK, Pcs, Results

\* Taking a message: its number is noted, the call ends or goes on.
LEMMA TakeType ==
    ASSUME TypeOK, NEW c \in Callers, NEW m \in Message, Take(c, m)
    PROVE  /\ stage' \in {"connected", "responded", "encrypted", "loggedin", "gone"}
           /\ pc' \in [Callers -> Pcs] /\ pc'[c] \in {"idle", "queue"}
           /\ call' \in [Callers -> Request \cup {NoCall}]
           /\ result' \in [Callers -> Results]
           /\ pc'[c] = "queue" => call' = call /\ result' = result
           /\ \A d \in Callers \ {c} : pc'[d] = pc[d] /\ call'[d] = call[d]
                                       /\ result'[d] = result[d]
           /\ handled' \in Nat
  <1>1. m.call \in Nat /\ m.n \in Nat
    BY DEF Message
  <1>2. CASE Return(c, Outcome(c, m), m.call)
    BY <1>1, <1>2, OutcomeType, ReturnType DEF Take, TypeOK
  <1>3. CASE Continue(c, "queue")
    BY <1>1, <1>3 DEF Continue, Take, TypeOK, Pcs
  <1>4. QED
    BY <1>2, <1>3 DEF Take

\* What lies in the packets on their way, in those received and in the queue.
LEMMA PacketType ==
    ASSUME TypeOK
    PROVE  /\ \A p \in 1 .. Len(inbound) : /\ inbound[p] \in Packet
                                           /\ inbound[p].msgs \in Seq(Message)
           /\ \A c \in Callers : packet[c].msgs \in Seq(Message)
           /\ \A i \in 1 .. Len(msg_queue) : msg_queue[i] \in Message
  <1>1. /\ inbound \in Seq(Packet) /\ msg_queue \in Seq(Message)
        /\ packet \in [Callers -> Packet]
    BY DEF TypeOK
  <1>2. \A p \in 1 .. Len(inbound) : inbound[p] \in Packet
    BY <1>1, ElementOfSeq
  <1>3. \A q \in Packet : q.msgs \in Seq(Message)
    BY DEF Packet
  <1>4. \A i \in 1 .. Len(msg_queue) : msg_queue[i] \in Message
    BY <1>1, ElementOfSeq
  <1>5. QED
    BY <1>1, <1>2, <1>3, <1>4

\* A new packet of one message, or one more part of the last packet.
LEMMA PostType ==
    ASSUME TypeOK, NEW m \in Message, Post(m)
    PROVE  /\ inbound' \in Seq(Packet) /\ sent' \in Nat
           /\ \A p \in 1 .. Len(inbound') :
                \/ p \in 1 .. Len(inbound) /\ inbound'[p] = inbound[p]
                \/ inbound'[p].msgs = <<m>>
                \/ /\ p \in 1 .. Len(inbound)
                   /\ inbound'[p].msgs = Append(inbound[p].msgs, m)
  <1> DEFINE Shape(new) ==
               \A p \in 1 .. Len(new) :
                  \/ p \in 1 .. Len(inbound) /\ new[p] = inbound[p]
                  \/ new[p].msgs = <<m>>
                  \/ p \in 1 .. Len(inbound) /\ new[p].msgs = Append(inbound[p].msgs, m)
  <1>0. inbound \in Seq(Packet) /\ Len(inbound) \in Nat /\ sent' \in Nat
    BY LenProperties DEF TypeOK, Post
  <1>1. ASSUME NEW b \in BOOLEAN, inbound' = Append(inbound, [multi |-> b, msgs |-> <<m>>])
        PROVE  inbound' \in Seq(Packet) /\ Shape(inbound')
    <2> DEFINE new == [multi |-> b, msgs |-> <<m>>]
    <2>1. new \in Packet /\ new.msgs = <<m>>
      BY SingletonType DEF Packet
    <2> HIDE DEF new
    <2>2. inbound' = Append(inbound, new)
      BY <1>1 DEF new
    <2>3. /\ inbound' \in Seq(Packet) /\ Len(inbound') = Len(inbound) + 1
          /\ \A i \in 1 .. Len(inbound) : inbound'[i] = inbound[i]
          /\ inbound'[Len(inbound) + 1] = new
      BY <1>0, <2>1, <2>2, AppendType
    <2>4. QED
      BY <1>0, <2>1, <2>3
  <1>2. ASSUME inbound # <<>>,
               inbound' = [inbound EXCEPT ![Len(inbound)].msgs = Append(@, m)]
        PROVE  inbound' \in Seq(Packet) /\ Shape(inbound')
    <2> DEFINE last == inbound[Len(inbound)]
               longer == Append(last.msgs, m)
               new == [last EXCEPT !.msgs = longer]
    <2>1. Len(inbound) \in 1 .. Len(inbound) /\ last \in Packet
      BY <1>0, <1>2, LenProperties, EmptySeq, ElementOfSeq
    <2>2. last.msgs \in Seq(Message) /\ DOMAIN last = {"multi", "msgs"}
      BY <2>1 DEF Packet
    <2>3. longer \in Seq(Message)
      BY <2>2, AppendType
    <2>4. inbound' = [inbound EXCEPT ![Len(inbound)] = new]
      BY <1>2
    <2>5. new \in Packet /\ new.msgs = longer
      BY <2>1, <2>3 DEF Packet
    <2> HIDE DEF new, longer
    <2>6. /\ inbound' \in Seq(Packet) /\ Len(inbound') = Len(inbound)
          /\ \A i \in 1 .. Len(inbound) :
                inbound'[i] = IF i = Len(inbound) THEN new ELSE inbound[i]
      BY <1>0, <2>1, <2>4, <2>5, ExceptSeq
    <2>7. QED
      BY <1>0, <2>5, <2>6 DEF longer
  <1>3. QED
    BY <1>0, <1>1, <1>2 DEF Post

\* No packet on its way becomes empty.
LEMMA PostNotEmpty ==
    ASSUME TypeOK, CallInv, NEW m \in Message, Post(m)
    PROVE  \A p \in 1 .. Len(inbound') : inbound'[p].msgs # <<>>
  <1>1. TAKE p \in 1 .. Len(inbound')
  <1>2. CASE p \in 1 .. Len(inbound) /\ inbound'[p] = inbound[p]
    BY <1>2 DEF CallInv
  <1>3. CASE inbound'[p].msgs = <<m>>
    BY <1>3, SingletonType
  <1>4. CASE p \in 1 .. Len(inbound) /\ inbound'[p].msgs = Append(inbound[p].msgs, m)
    <2>1. inbound[p].msgs \in Seq(Message)
      BY <1>4, PacketType
    <2>2. Append(inbound[p].msgs, m) # <<>>
      BY <2>1, AppendType
    <2>3. QED
      BY <1>4, <2>2
  <1>5. QED
    BY <1>2, <1>3, <1>4, PostType

\* Starting a call: a request, no result yet.
LEMMA StartType ==
    ASSUME TypeInv, NEW c \in Callers, NEW kind \in CallKinds, NEW job \in Nat,
           Start(c, kind, job), next_job_id' \in Nat
    PROVE  TypeInv'
  <1> DEFINE r == [kind |-> kind, job |-> job, call |-> started + 1]
             n == [NoResult EXCEPT !.kind = kind, !.call = started + 1]
  <1>1. started + 1 \in Nat /\ TypeOK /\ CallInv
    BY DEF TypeInv, TypeOK
  <1>2. r \in Request
    BY <1>1 DEF Request
  <1>3. n \in Results /\ n.kind = r.kind /\ n.call = r.call /\ n.outcome = "none"
    BY <1>1 DEF NoResult, Results
  <1>4. call' = [call EXCEPT ![c] = r] /\ result' = [result EXCEPT ![c] = n]
    BY DEF Start
  <1> HIDE DEF r, n
  <1>5. TypeOK'
    BY <1>1, <1>2, <1>3, <1>4 DEF Start, TypeOK, Pcs, server
  <1>6. CallInv'
    <2>1. /\ call'[c] = r /\ result'[c] = n /\ pc'[c] = "cipher"
          /\ \A d \in Callers \ {c} :
                call'[d] = call[d] /\ result'[d] = result[d] /\ pc'[d] = pc[d]
      BY <1>1, <1>4 DEF Start, TypeOK
    <2>2. UNCHANGED <<packet, inbound>>
      BY DEF Start, server
    <2>3. QED
      BY <1>1, <1>2, <1>3, <2>1, <2>2 DEF CallInv
  <1>7. QED
    BY <1>5, <1>6 DEF TypeInv

\* Every step of the calls, the server and the network keeps the types.
LEMMA TypeInvNext ==
    ASSUME TypeInv, [Next]_vars
    PROVE  TypeInv'
  <1>0. TypeOK /\ CallInv
    BY DEF TypeInv
  <1> USE DEF TypeInv, task, client, server, bounds, hist
  <1>1. CASE EncryptRequest \/ EncryptResult
    BY <1>0, <1>1, SMTT(30) DEF EncryptRequest, EncryptResult, Handshake, Fault, TypeOK, CallInv
  <1>2. ASSUME NEW c \in Callers, CallerStarts(c)
        PROVE  TypeInv'
    <2>1. ASSUME NEW kind \in CallKinds, CallService(c, kind)
          PROVE  TypeInv'
      BY <1>0, <2>1, StartType DEF CallService, TypeOK
    <2>2. ASSUME NEW kind \in CallKinds, CallByEMsg(c, kind)
          PROVE  TypeInv'
      BY <1>0, <2>2, StartType DEF CallByEMsg, TypeOK
    <2>3. QED
      BY <1>2, <2>1, <2>2
         DEF CallerStarts, call_service_method, call_service_method_non_authed, login,
             pics_get_access_tokens, pics_get_product_info, get_depot_decryption_key,
             check_beta_password, send_heartbeat, CallKinds, ServiceKinds, EMsgKinds
  <1>3. ASSUME NEW c \in Callers, LockCipher(c) \/ QueueEmpty(c) \/ LockStream(c)
        PROVE  TypeInv'
    BY <1>0, <1>3, SMTT(30) DEF LockCipher, QueueEmpty, LockStream, Continue, TypeOK, CallInv, Pcs
  <1>4. ASSUME NEW c \in Callers, Send(c)
        PROVE  TypeInv'
    <2>1. call[c] \in Request /\ call[c].call \in Nat /\ 0 \in Nat
      BY <1>0, <1>4 DEF Send, CallInv, Request
    <2>2. CASE Continue(c, "queue") /\ requests' = requests \cup {call[c]}
      BY <1>0, <1>4, <2>1, <2>2 DEF Send, Continue, TypeOK, CallInv, Pcs
    <2>3. ASSUME NEW o \in {"ok", "error"}, NEW n \in Nat, Return(c, o, n), UNCHANGED requests
          PROVE  TypeInv'
      BY <1>0, <1>4, <2>3, ReturnType DEF Send, TypeOK, CallInv
    <2>4. QED
      BY <1>4, <2>1, <2>2, <2>3 DEF Send
  <1>5. ASSUME NEW c \in Callers, PopQueue(c)
        PROVE  TypeInv'
    <2>1. /\ msg_queue \in Seq(Message) /\ msg_queue # <<>>
          /\ msg_queue' = Tail(msg_queue) /\ Take(c, Head(msg_queue))
      BY <1>0, <1>5 DEF PopQueue, TypeOK
    <2>2. Head(msg_queue) \in Message /\ msg_queue' \in Seq(Message)
      BY <2>1, FrontType
    <2>3. QED
      BY <1>0, <1>5, <2>1, <2>2, TakeType DEF PopQueue, TypeOK, CallInv
  <1>6. ASSUME NEW c \in Callers, Read(c)
        PROVE  TypeInv'
    <2>1. inbound \in Seq(Packet) /\ inbound # <<>> /\ inbound' = Tail(inbound)
      BY <1>0, <1>6 DEF Read, TypeOK
    <2>2. /\ Head(inbound) \in Packet /\ inbound' \in Seq(Packet)
          /\ Len(inbound) \in Nat \ {0} /\ Len(inbound') = Len(inbound) - 1
          /\ Head(inbound) = inbound[1]
          /\ \A i \in 1 .. Len(inbound') : inbound'[i] = inbound[i + 1]
      BY <2>1, FrontType
    <2>3. /\ Head(inbound).msgs # <<>>
          /\ \A p \in 1 .. Len(inbound') : inbound'[p].msgs # <<>>
      BY <1>0, <2>2 DEF CallInv
    <2>4. QED
      BY <1>0, <1>6, <2>2, <2>3 DEF Read, Continue, TypeOK, CallInv, Pcs
  <1>7. ASSUME NEW c \in Callers, ReadFails(c)
        PROVE  TypeInv'
    BY <1>0, <1>7, ReturnType DEF ReadFails, TypeOK, CallInv
  <1>8. ASSUME NEW c \in Callers, Decrypt(c)
        PROVE  TypeInv'
    <2> DEFINE m == packet[c].msgs[1]
    <2>1. packet[c].msgs \in Seq(Message) /\ packet[c].msgs # <<>>
      BY <1>0, <1>8, PacketType DEF Decrypt, CallInv
    <2>2. m \in Message
      BY <2>1, FrontType
    <2>3. NoPacket \in Packet /\ 0 \in Nat
      BY DEF NoPacket, Packet
    <2>4. CASE Return(c, "error", 0) /\ UNCHANGED handled
      BY <1>0, <1>8, <2>3, <2>4, ReturnType DEF Decrypt, TypeOK, CallInv
    <2>5. CASE Take(c, m)
      <3> HIDE DEF m
      <3>1. QED
        BY <1>0, <1>8, <2>2, <2>3, <2>5, TakeType DEF Decrypt, TypeOK, CallInv
    <2>6. QED
      BY <1>8, <2>4, <2>5 DEF Decrypt
  <1>9. ASSUME NEW c \in Callers, DecryptMulti(c) \/ Unpacked(c)
        PROVE  TypeInv'
    <2>1. NoPacket \in Packet
      BY DEF NoPacket, Packet
    <2>2. TypeOK'
      BY <1>0, <1>9, <2>1 DEF DecryptMulti, Unpacked, Continue, TypeOK, Pcs
    <2>3. CallInv'
      BY <1>0, <1>9 DEF DecryptMulti, Unpacked, Continue, TypeOK, CallInv
    <2>4. QED
      BY <2>2, <2>3
  <1>b. ASSUME NEW c \in Callers, DecryptMultiFails(c)
        PROVE  TypeInv'
    <2>1. NoPacket \in Packet /\ 0 \in Nat
      BY DEF NoPacket, Packet
    <2>2. faults' \in Nat
      BY <1>0, <1>b DEF DecryptMultiFails, Fault, TypeOK
    <2>3. QED
      BY <1>0, <1>b, <2>1, <2>2, ReturnType DEF DecryptMultiFails, TypeOK, CallInv
  <1>10. ASSUME NEW c \in Callers, Unpack(c)
         PROVE  TypeInv'
    <2> DEFINE rest == [packet[c] EXCEPT !.msgs = Tail(packet[c].msgs)]
    <2>1. packet[c] \in Packet /\ packet[c].msgs \in Seq(Message) /\ packet[c].msgs # <<>>
      BY <1>0, <1>10, PacketType DEF Unpack, TypeOK
    <2>2. Head(packet[c].msgs) \in Message /\ Tail(packet[c].msgs) \in Seq(Message)
      BY <2>1, FrontType
    <2>3. msg_queue' \in Seq(Message)
      BY <1>0, <1>10, <2>2, AppendType DEF Unpack, TypeOK
    <2>4. rest \in Packet
      BY <2>1, <2>2 DEF Packet
    <2>5. packet' = [packet EXCEPT ![c] = rest] /\ skipped' \in BOOLEAN
      BY <1>0, <1>10, <2>2 DEF Unpack, Message, TypeOK
    <2> HIDE DEF rest
    <2>6. QED
      BY <1>0, <1>10, <2>3, <2>4, <2>5 DEF Unpack, TypeOK, CallInv
  <1>11. ASSUME NEW r \in requests, Respond(r)
         PROVE  TypeInv'
    <2>1. r \in Request /\ sent + 1 \in Nat
      BY <1>0 DEF TypeOK
    <2>2. PICK body \in Bodies, more \in BOOLEAN, garbled \in BOOLEAN :
             /\ faults' = faults \/ faults' = faults + 1
             /\ requests' \subseteq requests
             /\ Post([answer |-> EMsgOf(r.kind), job |-> r.job, call |-> r.call, n |-> sent + 1,
                      body |-> body, more |-> more, garbled |-> garbled])
      BY <1>11 DEF Respond, Fault
    <2> DEFINE m == [answer |-> EMsgOf(r.kind), job |-> r.job, call |-> r.call, n |-> sent + 1,
                     body |-> body, more |-> more, garbled |-> garbled]
    <2>3. m \in Message
      BY <2>1 DEF Message, Request, EMsgOf, CallKinds, ServiceKinds
    <2> HIDE DEF m
    <2>4. Post(m)
      BY <2>2 DEF m
    <2>5. QED
      BY <1>0, <1>11, <2>2, <2>3, <2>4, PostType, PostNotEmpty DEF Respond, TypeOK, CallInv
  <1>12. CASE PostEvent
    <2> DEFINE m == [answer |-> "event", job |-> 0, call |-> 0, n |-> sent + 1,
                     body |-> "good", more |-> FALSE, garbled |-> FALSE]
    <2>1. m \in Message
      BY <1>0 DEF Message, Bodies, TypeOK
    <2> HIDE DEF m
    <2>2. Post(m)
      BY <1>12 DEF PostEvent, m
    <2>3. /\ inbound' \in Seq(Packet) /\ sent' \in Nat
          /\ \A p \in 1 .. Len(inbound') : inbound'[p].msgs # <<>>
      BY <1>0, <2>1, <2>2, PostType, PostNotEmpty
    <2>4. QED
      BY <1>0, <1>12, <2>3 DEF PostEvent, TypeOK, CallInv
  <1>13. CASE ConnectionLost
    <2>1. /\ open' = FALSE /\ faults' \in Nat
          /\ UNCHANGED <<stage, pc, call, result, next_job_id, packet, stream, cipher,
                         msg_queue, requests, inbound, sent, started, events,
                         handled, skipped, apart>>
      BY <1>0, <1>13 DEF ConnectionLost, Fault, TypeOK
    <2>2. TypeOK'
      BY <1>0, <2>1, ZenonT(30) DEF TypeOK
    <2>3. CallInv'
      BY <1>0, <2>1 DEF CallInv
    <2>4. QED
      BY <2>2, <2>3
  <1>14. CASE UNCHANGED vars
    BY <1>0, <1>14 DEF vars, TypeOK, CallInv
  <1>15. QED
    BY <1>1, <1>2, <1>3, <1>4, <1>5, <1>6, <1>7, <1>8, <1>9, <1>10, <1>11, <1>12, <1>13, <1>14, <1>b
       DEF Next, CallerStep

\* TypeOK: the types of the client, its callers and the messages hold in
\* every state, however many tasks share the client (SteamClient).
THEOREM TypeCorrect == Spec => []TypeOK
  <1>1. TypeInv => TypeOK
    BY DEF TypeInv
  <1>2. QED
    BY TypeInvInit, TypeInvNext, <1>1, PTL DEF Spec

-----------------------------------------------------------------------------
(* Who an answer belongs to.                                               *)

\* The calls under way are those of before, some ended, or a new one under
\* the next job id (or under none).
OnlyNewJob ==
    /\ next_job_id' \in Nat /\ next_job_id <= next_job_id'
    /\ \A c \in Callers :
          \/ call'[c] = call[c]
          \/ call'[c].kind \notin ServiceKinds
          \/ call'[c].job = next_job_id

\* Then what belonged to a request still does: an answer that was asked for
\* before cannot come under the job id of a later call.
LEMMA BelongsKept ==
    ASSUME TypeOK, OnlyNewJob
    PROVE  \A job, number \in Nat : Belongs(job, number) => Belongs(job, number)'
  <1>1. next_job_id \in Nat
    BY DEF TypeOK
  <1>2. QED
    BY <1>1 DEF Belongs, OnlyNewJob

\* A message that carries its request's answer goes on doing so.
LEMMA GenuineKept ==
    ASSUME TypeOK, OnlyNewJob
    PROVE  \A m \in Message : Genuine(m) => Genuine(m)'
  BY BelongsKept DEF Genuine, Message

\* A call that ends or goes on is no new one.
LEMMA ReturnNoNewJob ==
    ASSUME TypeOK, NEW c \in Callers, NEW o, NEW n,
           Return(c, o, n) \/ (\E next : Continue(c, next)), UNCHANGED next_job_id
    PROVE  OnlyNewJob
  BY DEF TypeOK, Return, Continue, OnlyNewJob, NoCall, ServiceKinds

\* Handling a message starts no call.
LEMMA TakeNoNewJob ==
    ASSUME TypeOK, NEW c \in Callers, NEW m, Take(c, m), UNCHANGED next_job_id
    PROVE  OnlyNewJob
  BY ReturnNoNewJob DEF Take

\* As long as there is no new call, requests and calls keep their job ids.
LEMMA JobsKept ==
    ASSUME TypeOK, JobInv, OnlyNewJob, requests' \subseteq requests,
           \A c \in Callers : call'[c] = call[c] \/ call'[c] = NoCall
    PROVE  JobInv'
  <1>1. \A c \in Callers : call[c].kind \in ServiceKinds => call[c].job \in Nat /\ call[c].call \in Nat
    BY DEF TypeOK, Request, NoCall, ServiceKinds
  <1>2. \A r \in requests : r.job \in Nat /\ r.call \in Nat
    BY DEF TypeOK, Request
  <1>3. \A c \in Callers : call'[c].kind \in ServiceKinds => Belongs(call[c].job, call[c].call)'
    <2>1. SUFFICES ASSUME NEW c \in Callers, call'[c].kind \in ServiceKinds
                   PROVE  Belongs(call[c].job, call[c].call)'
      OBVIOUS
    <2>2. call'[c] = call[c]
      BY <2>1 DEF NoCall, ServiceKinds
    <2>3. Belongs(call[c].job, call[c].call) /\ call[c].job \in Nat /\ call[c].call \in Nat
      BY <1>1, <2>1, <2>2 DEF JobInv
    <2>4. PICK job \in Nat, number \in Nat : job = call[c].job /\ number = call[c].call
      BY <2>3
    <2>5. Belongs(job, number)'
      BY <2>3, <2>4, BelongsKept
    <2>6. QED
      BY <2>2, <2>4, <2>5
  <1>4. \A r \in requests : r.kind \in ServiceKinds => Belongs(r.job, r.call)'
    BY <1>2, BelongsKept DEF JobInv
  <1>5. QED
    BY <1>3, <1>4 DEF JobInv

\* A new call has a job id of its own.
LEMMA StartJob ==
    ASSUME TypeInv, JobInv, MessageInv, NEW c \in Callers, NEW kind \in CallKinds,
           \/ CallService(c, kind)
           \/ CallByEMsg(c, kind) /\ kind \notin ServiceKinds
    PROVE  JobInv' /\ MessageInv' /\ OnlyNewJob
  <1>0. TypeOK /\ next_job_id \in Nat /\ started + 1 \in Nat
    BY DEF TypeInv, TypeOK
  <1>1. PICK job \in Nat : Start(c, kind, job) /\ (kind \in ServiceKinds => job = next_job_id)
    BY <1>0 DEF CallService, CallByEMsg
  <1> DEFINE r == [kind |-> kind, job |-> job, call |-> started + 1]
  <1>2. call' = [call EXCEPT ![c] = r] /\ UNCHANGED <<packet, msg_queue, inbound, requests>>
    BY <1>1 DEF Start, server
  <1>3. call'[c] = r /\ \A d \in Callers \ {c} : call'[d] = call[d]
    BY <1>0, <1>2 DEF TypeOK
  <1>4. next_job_id' \in Nat /\ next_job_id <= next_job_id' /\ (kind \in ServiceKinds => next_job_id' = next_job_id + 1)
    BY <1>0 DEF CallService, CallByEMsg
  <1>5. OnlyNewJob
    BY <1>1, <1>3, <1>4 DEF OnlyNewJob
  <1>6. MessageInv'
    BY <1>0, <1>2, <1>5, GenuineKept, PacketType, ElementOfSeq DEF MessageInv
  <1>7. \A q \in requests' : q.kind \in ServiceKinds => Belongs(q.job, q.call)'
    <2>1. \A q \in requests : q.job \in Nat /\ q.call \in Nat
      BY <1>0 DEF TypeOK, Request
    <2>2. QED
      BY <1>0, <1>2, <1>5, <2>1, BelongsKept DEF JobInv
  <1>8. \A d \in Callers : call'[d].kind \in ServiceKinds => Belongs(call[d].job, call[d].call)'
    <2>1. SUFFICES ASSUME NEW d \in Callers, call'[d].kind \in ServiceKinds
                   PROVE  Belongs(call[d].job, call[d].call)'
      OBVIOUS
    <2>2. CASE d = c
      <3>1. kind \in ServiceKinds /\ call'[d].job = next_job_id /\ call'[d].call = started + 1
        BY <1>1, <1>3, <2>1, <2>2
      <3>2. \A e \in Callers \ {c} :
               call'[e].kind \in ServiceKinds => call'[e].job < next_job_id
        BY <1>3 DEF JobInv, Belongs
      <3>3. \A e \in Callers :
               call'[e].kind \in ServiceKinds /\ call'[e].job = next_job_id => e = c
        BY <1>0, <3>2
      <3>4. QED
        BY <1>0, <1>4, <2>2, <3>1, <3>3 DEF Belongs
    <2>3. CASE d # c
      <3>1. call'[d] = call[d] /\ Belongs(call[d].job, call[d].call)
        BY <1>3, <2>1, <2>3 DEF JobInv
      <3>2. call[d].job \in Nat /\ call[d].call \in Nat
        BY <1>0, <2>1, <3>1 DEF TypeOK, Request, NoCall, ServiceKinds
      <3>3. PICK j \in Nat, number \in Nat : j = call[d].job /\ number = call[d].call
        BY <3>2
      <3>4. Belongs(j, number)'
        BY <1>0, <1>5, <3>1, <3>3, BelongsKept
      <3>5. QED
        BY <3>1, <3>3, <3>4
    <2>4. QED
      BY <2>2, <2>3
  <1>9. QED
    BY <1>5, <1>6, <1>7, <1>8 DEF JobInv

\* A call that takes a genuine message as its answer has its own answer.
LEMMA TakeOwnAnswer ==
    ASSUME OwnerInv, NEW c \in Callers, pc[c] # "idle", NEW m \in Message, Genuine(m), Take(c, m)
    PROVE  OwnServiceAnswer'
  <1>0. TypeOK /\ CallInv /\ OwnServiceAnswer
    BY DEF OwnerInv
  <1>1. \A d \in Callers \ {c} : result'[d] = result[d]
    BY <1>0, TakeType
  <1>2. /\ call[c] \in Request
        /\ result[c].kind = call[c].kind /\ result[c].call = call[c].call
        /\ result[c].outcome = "none"
    BY <1>0 DEF CallInv
  <1>3. CASE IsAnswer(c, m) /\ Return(c, Outcome(c, m), m.call)
    <2>1. /\ result'[c].kind = call[c].kind /\ result'[c].call = call[c].call
          /\ result'[c].answers = m.call
      BY <1>0, <1>2, <1>3 DEF Return, TypeOK, Results
    <2>2. call[c].kind \in ServiceKinds => m.call = call[c].call
      BY <1>3 DEF IsAnswer, EMsgOf, Genuine, Belongs
    <2>3. QED
      BY <1>0, <1>1, <2>1, <2>2 DEF OwnServiceAnswer
  <1>4. CASE Continue(c, "queue")
    BY <1>0, <1>4 DEF Continue, OwnServiceAnswer
  <1>5. QED
    BY <1>3, <1>4 DEF Take

\* A call that ends with an error, or goes on, answers nothing.
LEMMA ErrorOwnAnswer ==
    ASSUME OwnerInv, NEW c \in Callers,
           Return(c, "error", 0) \/ (\E next : Continue(c, next))
    PROVE  OwnServiceAnswer'
  <1>1. CASE Return(c, "error", 0)
    <2>1. \A d \in Callers : d # c => result'[d] = result[d]
      BY <1>1 DEF OwnerInv, TypeOK, Return
    <2>2. result'[c].outcome = "error"
      BY <1>1 DEF OwnerInv, TypeOK, Return, Results
    <2>3. QED
      BY <2>1, <2>2 DEF OwnerInv, OwnServiceAnswer
  <1>2. CASE \E next : Continue(c, next)
    BY <1>2 DEF OwnerInv, Continue, OwnServiceAnswer
  <1>3. QED
    BY <1>1, <1>2

\* The call of a caller is gone or as it was when it returns, goes on or
\* takes a message.
LEMMA CallKept ==
    ASSUME TypeOK, NEW c \in Callers,
           \/ \E o, n : Return(c, o, n)
           \/ \E next : Continue(c, next)
           \/ \E m : Take(c, m)
    PROVE  \A d \in Callers : call'[d] = call[d] \/ call'[d] = NoCall
  BY DEF TypeOK, Return, Continue, Take

\* No step of a caller loses the owner of a message or of a request, or
\* takes the answer of another.
LEMMA CallerStepOwn ==
    ASSUME OwnerInv, NEW c \in Callers, CallerStep(c)
    PROVE  JobInv' /\ MessageInv' /\ OwnServiceAnswer'
  <1>0. TypeOK /\ CallInv /\ JobInv /\ MessageInv /\ OwnServiceAnswer
    BY DEF OwnerInv
  <1> USE DEF server, hist, bounds
  <1>1. CASE LockCipher(c)
    BY <1>0, <1>1 DEF LockCipher, JobInv, MessageInv, OwnServiceAnswer, Genuine, Belongs
  <1>2. CASE Send(c)
    <2>1. UNCHANGED <<packet, msg_queue, inbound, next_job_id>>
      BY <1>2 DEF Send
    <2>2. /\ result[c].call = call[c].call
          /\ \/ Continue(c, "queue") /\ requests' = requests \cup {call[c]}
             \/ /\ Return(c, "error", 0) \/ (Return(c, "ok", call[c].call) /\ call[c].kind = "heartbeat")
                /\ UNCHANGED requests
      BY <1>0, <1>2 DEF Send, CallInv
    <2>3. OnlyNewJob
      BY <1>0, <2>1, <2>2, ReturnNoNewJob
    <2>4. MessageInv'
      BY <1>0, <2>1, <2>3, GenuineKept, PacketType, ElementOfSeq DEF MessageInv
    <2>5. JobInv'
      <3>1. CASE UNCHANGED requests
        BY <1>0, <2>2, <2>3, <3>1, CallKept, JobsKept
      <3>2. CASE Continue(c, "queue") /\ requests' = requests \cup {call[c]}
        BY <1>0, <2>1, <3>2 DEF Continue, JobInv, Belongs
      <3>3. QED
        BY <2>2, <3>1, <3>2
    <2>6. OwnServiceAnswer'
      <3>1. CASE Return(c, "error", 0) \/ Continue(c, "queue")
        BY <3>1, ErrorOwnAnswer
      <3>2. CASE Return(c, "ok", call[c].call)
        <4>1. \A d \in Callers : d # c => result'[d] = result[d]
          BY <1>0, <3>2 DEF Return, TypeOK
        <4>2. result'[c].call = call[c].call /\ result'[c].answers = call[c].call
          BY <1>0, <2>2, <3>2 DEF Return, TypeOK, Results
        <4>3. QED
          BY <1>0, <4>1, <4>2 DEF OwnServiceAnswer
      <3>3. QED
        BY <2>2, <3>1, <3>2
    <2>7. QED
      BY <2>4, <2>5, <2>6
  <1>3. CASE PopQueue(c)
    <2>1. /\ msg_queue \in Seq(Message) /\ msg_queue # <<>>
          /\ msg_queue' = Tail(msg_queue) /\ Take(c, Head(msg_queue))
          /\ UNCHANGED <<packet, inbound, requests, next_job_id>> /\ pc[c] # "idle"
      BY <1>0, <1>3 DEF PopQueue, TypeOK
    <2>2. /\ Head(msg_queue) \in Message /\ Head(msg_queue) = msg_queue[1]
          /\ Len(msg_queue) \in Nat \ {0} /\ Len(msg_queue') = Len(msg_queue) - 1
          /\ \A i \in 1 .. Len(msg_queue') : msg_queue'[i] = msg_queue[i + 1]
      BY <2>1, FrontType
    <2>3. OnlyNewJob
      BY <1>0, <2>1, TakeNoNewJob
    <2>4. Genuine(Head(msg_queue))
      BY <1>0, <2>2 DEF MessageInv
    <2>5. MessageInv'
      BY <1>0, <2>1, <2>2, <2>3, GenuineKept, PacketType, ElementOfSeq DEF MessageInv
    <2>6. JobInv'
      BY <1>0, <2>1, <2>3, CallKept, JobsKept
    <2>7. OwnServiceAnswer'
      BY <2>1, <2>2, <2>4, TakeOwnAnswer
    <2>8. QED
      BY <2>5, <2>6, <2>7
  <1>4. CASE QueueEmpty(c) \/ LockStream(c) \/ DecryptMulti(c)
    <2>1. UNCHANGED <<call, result, next_job_id, packet, msg_queue, requests, inbound>>
      BY <1>4 DEF QueueEmpty, LockStream, DecryptMulti, Continue, client
    <2>2. QED
      BY <1>0, <2>1 DEF JobInv, MessageInv, OwnServiceAnswer, Genuine, Belongs
  <1>5. CASE Read(c)
    <2>1. /\ inbound \in Seq(Packet) /\ inbound # <<>> /\ inbound' = Tail(inbound)
          /\ packet' = [packet EXCEPT ![c] = Head(inbound)]
          /\ UNCHANGED <<call, result, next_job_id, msg_queue, requests>>
      BY <1>0, <1>5 DEF Read, Continue, TypeOK
    <2>2. /\ Head(inbound) = inbound[1]
          /\ Len(inbound) \in Nat \ {0} /\ Len(inbound') = Len(inbound) - 1
          /\ \A i \in 1 .. Len(inbound') : inbound'[i] = inbound[i + 1]
      BY <2>1, FrontType
    <2>3. packet'[c] = inbound[1] /\ \A d \in Callers \ {c} : packet'[d] = packet[d]
      BY <1>0, <2>1, <2>2 DEF TypeOK
    <2>4. \A m : Genuine(m) <=> Genuine(m)'
      BY <2>1 DEF Genuine, Belongs
    <2>5. MessageInv'
      BY <1>0, <2>1, <2>2, <2>3, <2>4 DEF MessageInv
    <2>6. QED
      BY <1>0, <2>1, <2>5 DEF JobInv, OwnServiceAnswer, Belongs
  <1>6. CASE ReadFails(c)
    <2>1. Return(c, "error", 0) /\ UNCHANGED <<next_job_id, packet, msg_queue, requests, inbound>>
      BY <1>6 DEF ReadFails
    <2>2. OnlyNewJob
      BY <1>0, <2>1, ReturnNoNewJob
    <2>3. MessageInv'
      BY <1>0, <2>1, <2>2, GenuineKept, PacketType, ElementOfSeq DEF MessageInv
    <2>4. QED
      BY <1>0, <2>1, <2>2, <2>3, CallKept, JobsKept, ErrorOwnAnswer
  <1>7. CASE Decrypt(c)
    <2> DEFINE m == packet[c].msgs[1]
    <2>1. /\ packet[c].msgs \in Seq(Message) /\ packet[c].msgs # <<>>
          /\ Return(c, "error", 0) \/ Take(c, m)
          /\ packet' = [packet EXCEPT ![c] = NoPacket] /\ pc[c] # "idle"
          /\ UNCHANGED <<next_job_id, msg_queue, requests, inbound>>
      BY <1>0, <1>7, PacketType DEF Decrypt, CallInv
    <2>2. m \in Message /\ Len(packet[c].msgs) \in Nat \ {0}
      BY <2>1, FrontType
    <2>3. Genuine(m)
      BY <1>0, <2>2 DEF MessageInv
    <2> HIDE DEF m
    <2>4. OnlyNewJob
      BY <1>0, <2>1, ReturnNoNewJob, TakeNoNewJob
    <2>5. packet'[c].msgs = <<>> /\ \A d \in Callers \ {c} : packet'[d] = packet[d]
      BY <1>0, <2>1 DEF TypeOK, NoPacket
    <2>6. MessageInv'
      BY <1>0, <2>1, <2>4, <2>5, GenuineKept, PacketType, ElementOfSeq DEF MessageInv
    <2>7. JobInv'
      BY <1>0, <2>1, <2>4, CallKept, JobsKept
    <2>8. OwnServiceAnswer'
      BY <2>1, <2>2, <2>3, TakeOwnAnswer, ErrorOwnAnswer
    <2>9. QED
      BY <2>6, <2>7, <2>8
  <1>b. CASE DecryptMultiFails(c)
    <2>1. /\ Return(c, "error", 0) /\ packet' = [packet EXCEPT ![c] = NoPacket]
          /\ UNCHANGED <<next_job_id, msg_queue, requests, inbound>>
      BY <1>b DEF DecryptMultiFails
    <2>2. OnlyNewJob
      BY <1>0, <2>1, ReturnNoNewJob
    <2>3. packet'[c].msgs = <<>> /\ \A d \in Callers \ {c} : packet'[d] = packet[d]
      BY <1>0, <2>1 DEF TypeOK, NoPacket
    <2>4. MessageInv'
      BY <1>0, <2>1, <2>2, <2>3, GenuineKept, PacketType, ElementOfSeq DEF MessageInv
    <2>5. QED
      BY <1>0, <2>1, <2>2, <2>4, CallKept, JobsKept, ErrorOwnAnswer
  <1>8. CASE Unpack(c)
    <2> DEFINE m == Head(packet[c].msgs)
    <2>1. packet[c] \in Packet /\ packet[c].msgs \in Seq(Message) /\ packet[c].msgs # <<>>
      BY <1>0, <1>8, PacketType DEF Unpack, TypeOK
    <2>2. /\ m \in Message /\ m = packet[c].msgs[1]
          /\ Len(packet[c].msgs) \in Nat \ {0}
          /\ Len(Tail(packet[c].msgs)) = Len(packet[c].msgs) - 1
          /\ \A i \in 1 .. Len(Tail(packet[c].msgs)) :
                Tail(packet[c].msgs)[i] = packet[c].msgs[i + 1]
      BY <2>1, FrontType
    <2>3. Genuine(m)
      BY <1>0, <2>2 DEF MessageInv
    <2>4. UNCHANGED <<call, result, next_job_id, requests, inbound>>
      BY <1>8 DEF Unpack, task
    <2>5. \A x : Genuine(x) <=> Genuine(x)'
      BY <2>4 DEF Genuine, Belongs
    <2>6. packet'[c].msgs = Tail(packet[c].msgs) /\ \A d \in Callers \ {c} : packet'[d] = packet[d]
      BY <1>0, <1>8, <2>1 DEF Unpack, TypeOK, Packet
    <2>7. msg_queue' = msg_queue \/ msg_queue' = Append(msg_queue, m)
      BY <1>8 DEF Unpack
    <2> HIDE DEF m
    <2>8. \A i \in 1 .. Len(msg_queue') : Genuine(msg_queue'[i])
      <3>1. /\ Len(Append(msg_queue, m)) = Len(msg_queue) + 1 /\ Len(msg_queue) \in Nat
            /\ \A i \in 1 .. Len(msg_queue) : Append(msg_queue, m)[i] = msg_queue[i]
            /\ Append(msg_queue, m)[Len(msg_queue) + 1] = m
        BY <1>0, <2>2, AppendType, LenProperties DEF TypeOK
      <3>2. QED
        BY <1>0, <2>3, <2>7, <3>1 DEF MessageInv
    <2>9. \A d \in Callers : \A i \in 1 .. Len(packet'[d].msgs) : Genuine(packet'[d].msgs[i])
      <3>1. \A i \in 1 .. Len(Tail(packet[c].msgs)) : Genuine(Tail(packet[c].msgs)[i])
        BY <1>0, <2>2 DEF MessageInv
      <3>2. QED
        BY <1>0, <2>6, <3>1 DEF MessageInv
    <2>10. MessageInv'
      BY <1>0, <2>4, <2>5, <2>8, <2>9 DEF MessageInv
    <2>11. QED
      BY <1>0, <2>4, <2>10 DEF JobInv, OwnServiceAnswer, Belongs
  <1>9. CASE Unpacked(c)
    <2>1. packet' = [packet EXCEPT ![c] = NoPacket]
          /\ UNCHANGED <<call, result, next_job_id, msg_queue, requests, inbound>>
      BY <1>9 DEF Unpacked, Continue
    <2>2. packet'[c].msgs = <<>> /\ \A d \in Callers \ {c} : packet'[d] = packet[d]
      BY <1>0, <2>1 DEF TypeOK, NoPacket
    <2>3. \A x : Genuine(x) <=> Genuine(x)'
      BY <2>1 DEF Genuine, Belongs
    <2>4. MessageInv'
      BY <1>0, <2>1, <2>2, <2>3 DEF MessageInv
    <2>5. QED
      BY <1>0, <2>1, <2>4 DEF JobInv, OwnServiceAnswer, Belongs
  <1>10. QED
    BY <1>1, <1>2, <1>3, <1>4, <1>5, <1>6, <1>7, <1>8, <1>9, <1>b DEF CallerStep

\* The server answers a request under its own job id.
LEMMA PostOwn ==
    ASSUME OwnerInv, NEW m \in Message, Genuine(m), Post(m), requests' \subseteq requests,
           UNCHANGED <<call, result, next_job_id, packet, msg_queue>>
    PROVE  JobInv' /\ MessageInv' /\ OwnServiceAnswer'
  <1>0. TypeOK /\ JobInv /\ MessageInv /\ OwnServiceAnswer
    BY DEF OwnerInv
  <1>1. \A x : Genuine(x) <=> Genuine(x)'
    BY DEF Genuine, Belongs
  <1>2. ASSUME NEW p \in 1 .. Len(inbound')
        PROVE  \A i \in 1 .. Len(inbound'[p].msgs) : Genuine(inbound'[p].msgs[i])
    <2>1. CASE p \in 1 .. Len(inbound) /\ inbound'[p] = inbound[p]
      BY <1>0, <2>1 DEF MessageInv
    <2>2. CASE inbound'[p].msgs = <<m>>
      BY <2>2, SingletonType
    <2>3. CASE p \in 1 .. Len(inbound) /\ inbound'[p].msgs = Append(inbound[p].msgs, m)
      <3> DEFINE before == inbound[p].msgs
      <3>1. before \in Seq(Message)
        BY <1>0, <2>3, PacketType
      <3>2. \A i \in 1 .. Len(before) : Genuine(before[i])
        BY <1>0, <2>3 DEF MessageInv
      <3>3. inbound'[p].msgs = Append(before, m)
        BY <2>3
      <3> HIDE DEF before
      <3>4. /\ Len(Append(before, m)) = Len(before) + 1 /\ Len(before) \in Nat
            /\ \A i \in 1 .. Len(before) : Append(before, m)[i] = before[i]
            /\ Append(before, m)[Len(before) + 1] = m
        BY <3>1, AppendType, LenProperties
      <3>5. QED
        BY <3>2, <3>3, <3>4
    <2>4. QED
      BY <1>0, <2>1, <2>2, <2>3, PostType
  <1>3. MessageInv'
    BY <1>0, <1>1, <1>2 DEF MessageInv
  <1>4. QED
    BY <1>0, <1>3 DEF JobInv, OwnServiceAnswer, Belongs

\* The inductive invariant holds at the start,
LEMMA OwnerInvInit == Init => OwnerInv
  <1> SUFFICES ASSUME Init PROVE OwnerInv
    OBVIOUS
  <1>1. Len(<<>>) = 0
    OBVIOUS
  <1>2. TypeOK /\ CallInv
    BY TypeInvInit DEF TypeInv
  <1>3. JobInv /\ OwnServiceAnswer
    BY DEF Init, JobInv, OwnServiceAnswer, NoCall, NoResult, ServiceKinds
  <1>4. MessageInv
    BY <1>1 DEF Init, MessageInv, NoPacket
  <1>5. QED
    BY <1>2, <1>3, <1>4 DEF OwnerInv

\* and every step keeps it.
LEMMA OwnerInvNext ==
    ASSUME OwnerInv, [Next]_vars
    PROVE  OwnerInv'
  <1>0. TypeOK /\ CallInv /\ JobInv /\ MessageInv /\ OwnServiceAnswer /\ TypeInv
    BY DEF OwnerInv, TypeInv
  <1>1. TypeInv'
    BY <1>0, TypeInvNext
  <1> USE DEF task, client, server, bounds, hist
  <1>2. JobInv' /\ MessageInv' /\ OwnServiceAnswer'
    <2>1. CASE UNCHANGED <<call, result, next_job_id, packet, msg_queue, requests, inbound>>
      BY <1>0, <2>1 DEF JobInv, MessageInv, OwnServiceAnswer, Genuine, Belongs
    <2>2. CASE EncryptRequest \/ EncryptResult \/ ConnectionLost \/ UNCHANGED vars
      BY <2>1, <2>2 DEF EncryptRequest, EncryptResult, Handshake, ConnectionLost, vars
    <2>3. ASSUME NEW c \in Callers, CallerStarts(c)
          PROVE  JobInv' /\ MessageInv' /\ OwnServiceAnswer'
      <3>1. PICK kind \in CallKinds :
               \/ CallService(c, kind)
               \/ CallByEMsg(c, kind) /\ kind \notin ServiceKinds
        BY <2>3 DEF CallerStarts, call_service_method, call_service_method_non_authed, login,
                    pics_get_access_tokens, pics_get_product_info, get_depot_decryption_key,
                    check_beta_password, send_heartbeat, CallKinds, ServiceKinds, EMsgKinds
      <3>2. JobInv' /\ MessageInv'
        BY <1>0, <3>1, StartJob
      <3>3. result' = [result EXCEPT ![c] = [NoResult EXCEPT !.kind = kind, !.call = started + 1]]
        BY <3>1 DEF CallService, CallByEMsg, Start
      <3>4. OwnServiceAnswer'
        BY <1>0, <3>3 DEF TypeOK, OwnServiceAnswer, NoResult
      <3>5. QED
        BY <3>2, <3>4
    <2>4. ASSUME NEW c \in Callers, CallerStep(c)
          PROVE  JobInv' /\ MessageInv' /\ OwnServiceAnswer'
      BY <2>4, CallerStepOwn
    <2>5. ASSUME NEW r \in requests, Respond(r)
          PROVE  JobInv' /\ MessageInv' /\ OwnServiceAnswer'
      <3>1. r \in Request /\ sent + 1 \in Nat
        BY <1>0 DEF TypeOK
      <3>2. PICK body \in Bodies, more \in BOOLEAN, garbled \in BOOLEAN :
               /\ requests' \subseteq requests
               /\ Post([answer |-> EMsgOf(r.kind), job |-> r.job, call |-> r.call, n |-> sent + 1,
                        body |-> body, more |-> more, garbled |-> garbled])
        BY <2>5 DEF Respond
      <3> DEFINE m == [answer |-> EMsgOf(r.kind), job |-> r.job, call |-> r.call, n |-> sent + 1,
                       body |-> body, more |-> more, garbled |-> garbled]
      <3>3. m \in Message
        BY <3>1 DEF Message, Request, EMsgOf, CallKinds, ServiceKinds
      <3>4. m.answer = "service" => r.kind \in ServiceKinds
        BY <3>1 DEF EMsgOf, Request, CallKinds, ServiceKinds, EMsgKinds
      <3>5. Genuine(m)
        BY <1>0, <3>4 DEF Genuine, JobInv
      <3> HIDE DEF m
      <3>6. Post(m) /\ UNCHANGED <<call, result, next_job_id, packet, msg_queue>>
        BY <2>5, <3>2 DEF m, Respond
      <3>7. QED
        BY <3>2, <3>3, <3>5, <3>6, PostOwn
    <2>6. CASE PostEvent
      <3> DEFINE m == [answer |-> "event", job |-> 0, call |-> 0, n |-> sent + 1,
                       body |-> "good", more |-> FALSE, garbled |-> FALSE]
      <3>1. m \in Message /\ Genuine(m)
        BY <1>0 DEF Message, Bodies, TypeOK, Genuine
      <3> HIDE DEF m
      <3>2. Post(m) /\ UNCHANGED <<call, result, next_job_id, packet, msg_queue, requests>>
        BY <2>6 DEF PostEvent, m
      <3>3. QED
        BY <3>1, <3>2, PostOwn
    <2>7. QED
      BY <2>2, <2>3, <2>4, <2>5, <2>6 DEF Next
  <1>3. QED
    BY <1>1, <1>2 DEF OwnerInv, TypeInv

\* OwnServiceAnswer: a service call never succeeds with the answer to another
\* request, however many tasks share the client, however the server orders
\* and packs its messages and whatever fails (SteamClient::
\* call_service_method).
THEOREM OwnAnswers == Spec => []OwnServiceAnswer
  <1>1. OwnerInv => OwnServiceAnswer
    BY DEF OwnerInv
  <1>2. QED
    BY OwnerInvInit, OwnerInvNext, <1>1, PTL DEF Spec

-----------------------------------------------------------------------------
(***************************************************************************)
(* Calls made one after the other: they take what the server sends in its  *)
(* order, and each returns its own answer, for any number of callers,      *)
(* calls, events and faults.                                               *)
(***************************************************************************)

(* Messages taken from the front of a sequence and put at its end.         *)

\* The first message is before the others; what is left keeps its place.
LEMMA FrontOrder ==
    ASSUME NEW s \in Seq(Message), s # <<>>, Ordered(s)
    PROVE  /\ Ordered(Tail(s)) /\ \A i \in 1 .. Len(Tail(s)) : Head(s).n < Tail(s)[i].n
           /\ \A t : Ahead(s, t) => /\ Ahead(Tail(s), t)
                                    /\ \A j \in 1 .. Len(t) : Head(s).n < t[j].n
           /\ \A t : Ahead(t, s) => /\ Ahead(t, Tail(s))
                                    /\ \A j \in 1 .. Len(t) : t[j].n < Head(s).n
           /\ \A h, e : (\A i \in 1 .. Len(s) : h < s[i].n /\ s[i].n <= e)
                 => /\ \A i \in 1 .. Len(Tail(s)) : h < Tail(s)[i].n /\ Tail(s)[i].n <= e
                    /\ h < Head(s).n /\ Head(s).n <= e
           /\ Elements(s) = {Head(s)} \cup Elements(Tail(s))
  <1>1. /\ Len(s) \in Nat \ {0} /\ Len(Tail(s)) = Len(s) - 1 /\ Head(s) = s[1]
        /\ \A i \in 1 .. Len(Tail(s)) : Tail(s)[i] = s[i + 1]
    BY FrontType
  <1> DEFINE r == Tail(s)
             x == Head(s)
  <1> HIDE DEF r, x
  <1>2. /\ Len(s) \in Nat \ {0} /\ Len(r) = Len(s) - 1 /\ x = s[1]
        /\ \A i \in 1 .. Len(r) : r[i] = s[i + 1]
    BY <1>1 DEF r, x
  <1>3. Ordered(r) /\ \A i \in 1 .. Len(r) : x.n < r[i].n
    <2>1. \A i, j \in 1 .. Len(s) : i < j => s[i].n < s[j].n
      BY DEF Ordered
    <2>2. \A i \in 1 .. Len(r) : i + 1 \in 1 .. Len(s) /\ 1 \in 1 .. Len(s) /\ 1 < i + 1
      BY <1>2
    <2>3. \A i, j \in 1 .. Len(r) : i < j => i + 1 < j + 1
      BY <1>2
    <2>4. \A i, j \in 1 .. Len(r) : i < j => r[i].n < r[j].n
      BY <1>2, <2>1, <2>2, <2>3
    <2>5. \A i \in 1 .. Len(r) : x.n < r[i].n
      BY <1>2, <2>1, <2>2
    <2>6. QED
      BY <2>4, <2>5 DEF Ordered
  <1>4. \A t : Ahead(s, t) => Ahead(r, t) /\ \A j \in 1 .. Len(t) : x.n < t[j].n
    BY <1>2 DEF Ahead
  <1>5. \A t : Ahead(t, s) => Ahead(t, r) /\ \A j \in 1 .. Len(t) : t[j].n < x.n
    BY <1>2 DEF Ahead
  <1>6. \A h, e : (\A i \in 1 .. Len(s) : h < s[i].n /\ s[i].n <= e)
           => /\ \A i \in 1 .. Len(r) : h < r[i].n /\ r[i].n <= e
              /\ h < x.n /\ x.n <= e
    BY <1>2
  <1>7. Elements(s) = {x} \cup Elements(r)
    <2>1. \A i \in 1 .. Len(s) : i = 1 \/ (i - 1 \in 1 .. Len(r) /\ r[i - 1] = s[i])
      BY <1>2
    <2>2. \A y \in Elements(s) : y = x \/ y \in Elements(r)
      BY <1>2, <2>1 DEF Elements
    <2>3. \A y \in Elements(r) : y \in Elements(s)
      BY <1>2 DEF Elements
    <2>4. x \in Elements(s)
      BY <1>2 DEF Elements
    <2>5. QED
      BY <2>2, <2>3, <2>4
  <1>8. QED
    BY <1>3, <1>4, <1>5, <1>6, <1>7 DEF r, x

\* A message put behind those that were sent before it.
LEMMA BackOrder ==
    ASSUME NEW s \in Seq(Message), NEW m \in Message
    PROVE  /\ Ordered(s) /\ (\A i \in 1 .. Len(s) : s[i].n < m.n) => Ordered(Append(s, m))
           /\ \A t : Ahead(s, t) /\ (\A j \in 1 .. Len(t) : m.n < t[j].n)
                 => Ahead(Append(s, m), t)
           /\ \A t : Ahead(t, s) /\ (\A j \in 1 .. Len(t) : t[j].n < m.n)
                 => Ahead(t, Append(s, m))
           /\ \A h, e : (\A i \in 1 .. Len(s) : h < s[i].n /\ s[i].n <= e)
                        /\ h < m.n /\ m.n <= e
                 => \A i \in 1 .. Len(Append(s, m)) : h < Append(s, m)[i].n
                                                      /\ Append(s, m)[i].n <= e
           /\ Elements(Append(s, m)) = Elements(s) \cup {m}
  <1> DEFINE l == Append(s, m)
  <1>1. /\ Len(s) \in Nat /\ Len(l) = Len(s) + 1 /\ l[Len(s) + 1] = m
        /\ \A i \in 1 .. Len(s) : l[i] = s[i]
    BY AppendType, LenProperties
  <1> HIDE DEF l
  <1>2. Ordered(s) /\ (\A i \in 1 .. Len(s) : s[i].n < m.n) => Ordered(l)
    BY <1>1 DEF Ordered
  <1>3. \A t : Ahead(s, t) /\ (\A j \in 1 .. Len(t) : m.n < t[j].n) => Ahead(l, t)
    BY <1>1 DEF Ahead
  <1>4. \A t : Ahead(t, s) /\ (\A j \in 1 .. Len(t) : t[j].n < m.n) => Ahead(t, l)
    BY <1>1 DEF Ahead
  <1>5. \A h, e : (\A i \in 1 .. Len(s) : h < s[i].n /\ s[i].n <= e) /\ h < m.n /\ m.n <= e
           => \A i \in 1 .. Len(l) : h < l[i].n /\ l[i].n <= e
    BY <1>1
  <1>6. Elements(l) = Elements(s) \cup {m}
    <2>1. \A y \in Elements(l) : y \in Elements(s) \cup {m}
      BY <1>1 DEF Elements
    <2>2. \A y \in Elements(s) \cup {m} : y \in Elements(l)
      BY <1>1 DEF Elements
    <2>3. QED
      BY <2>1, <2>2
  <1>7. QED
    BY <1>2, <1>3, <1>4, <1>5, <1>6 DEF l

\* No message, and one message.
LEMMA ShortOrder ==
    /\ Ordered(<<>>) /\ Elements(<<>>) = {}
    /\ \A t : Ahead(<<>>, t) /\ Ahead(t, <<>>)
    /\ \A m : Ordered(<<m>>) /\ Elements(<<m>>) = {m}
  <1>1. Len(<<>>) = 0
    OBVIOUS
  <1>2. \A m : Len(<<m>>) = 1 /\ <<m>>[1] = m
    OBVIOUS
  <1>3. QED
    BY <1>1, <1>2 DEF Ordered, Ahead, Elements

-----------------------------------------------------------------------------
(* What is on its way.                                                     *)

\* The packets on their way after the server has sent a message: the same,
\* with a new one at the end or one more part in the last.
LEMMA PostLast ==
    ASSUME TypeOK, NEW m \in Message, Post(m)
    PROVE  /\ Len(inbound) \in Nat
           /\ \/ /\ Len(inbound') = Len(inbound) + 1
                 /\ inbound'[Len(inbound) + 1].msgs = <<m>>
                 /\ \A p \in 1 .. Len(inbound) : inbound'[p] = inbound[p]
              \/ /\ Len(inbound') = Len(inbound) /\ Len(inbound) \in 1 .. Len(inbound)
                 /\ inbound'[Len(inbound)].msgs = Append(inbound[Len(inbound)].msgs, m)
                 /\ \A p \in 1 .. Len(inbound) \ {Len(inbound)} : inbound'[p] = inbound[p]
  <1>0. inbound \in Seq(Packet) /\ Len(inbound) \in Nat
    BY LenProperties DEF TypeOK
  <1>1. ASSUME NEW b \in BOOLEAN, inbound' = Append(inbound, [multi |-> b, msgs |-> <<m>>])
        PROVE  /\ Len(inbound') = Len(inbound) + 1
               /\ inbound'[Len(inbound) + 1].msgs = <<m>>
               /\ \A p \in 1 .. Len(inbound) : inbound'[p] = inbound[p]
    <2> DEFINE new == [multi |-> b, msgs |-> <<m>>]
    <2>1. new \in Packet /\ new.msgs = <<m>>
      BY SingletonType DEF Packet
    <2> HIDE DEF new
    <2>2. inbound' = Append(inbound, new)
      BY <1>1 DEF new
    <2>3. QED
      BY <1>0, <2>1, <2>2, AppendType
  <1>2. ASSUME inbound # <<>>, inbound' = [inbound EXCEPT ![Len(inbound)].msgs = Append(@, m)]
        PROVE  /\ Len(inbound') = Len(inbound) /\ Len(inbound) \in 1 .. Len(inbound)
               /\ inbound'[Len(inbound)].msgs = Append(inbound[Len(inbound)].msgs, m)
               /\ \A p \in 1 .. Len(inbound) \ {Len(inbound)} : inbound'[p] = inbound[p]
    <2> DEFINE last == inbound[Len(inbound)]
               longer == Append(last.msgs, m)
               new == [last EXCEPT !.msgs = longer]
    <2>1. Len(inbound) \in 1 .. Len(inbound) /\ last \in Packet
      BY <1>0, <1>2, LenProperties, EmptySeq, ElementOfSeq
    <2>2. last.msgs \in Seq(Message)
      BY <2>1 DEF Packet
    <2>3. longer \in Seq(Message)
      BY <2>2, AppendType
    <2>4. inbound' = [inbound EXCEPT ![Len(inbound)] = new]
      BY <1>2
    <2>5. new \in Packet /\ new.msgs = longer
      BY <2>1, <2>3 DEF Packet
    <2> HIDE DEF new, longer
    <2>6. /\ Len(inbound') = Len(inbound)
          /\ \A i \in 1 .. Len(inbound) :
                inbound'[i] = IF i = Len(inbound) THEN new ELSE inbound[i]
      BY <1>0, <2>1, <2>4, <2>5, ExceptSeq
    <2>7. QED
      BY <1>0, <2>1, <2>5, <2>6 DEF longer
  <1>3. QED
    BY <1>0, <1>1, <1>2 DEF Post

-----------------------------------------------------------------------------
(* One call at a time.                                                     *)

\* A call of its own ends: nobody is left.  It goes on: it is still alone.
LEMMA SoloKept ==
    ASSUME TypeOK, SoloInv, NEW c \in Callers, pc[c] # "idle",
           \/ \E o, n : Return(c, o, n)
           \/ \E next \in Pcs \ {"idle"} : Continue(c, next),
           apart' = apart,
           pc'[c] \notin {"decrypt", "unpack"} => packet'[c].msgs = <<>>,
           \A d \in Callers \ {c} : packet'[d] = packet[d],
           pc'[c] \in {"stream", "reading", "decrypt"} => msg_queue' = <<>> \/ ~apart
    PROVE  SoloInv'
  <1>1. \A d \in Callers \ {c} : pc'[d] = pc[d]
    BY DEF TypeOK, Return, Continue
  <1>2. \A d \in Callers : pc'[d] \notin {"decrypt", "unpack"} => packet'[d].msgs = <<>>
    BY <1>1 DEF SoloInv
  <1>3. apart => \A d \in Callers \ {c} : pc[d] = "idle"
    BY DEF SoloInv, Overlaps, Idle
  <1>4. CASE \E o, n : Return(c, o, n)
    <2>1. apart => \A d \in Callers : pc'[d] = "idle"
      BY <1>1, <1>3, <1>4 DEF Return, TypeOK
    <2>2. QED
      BY <1>2, <2>1 DEF SoloInv, Idle
  <1>5. CASE \E next \in Pcs \ {"idle"} : Continue(c, next)
    <2>1. UNCHANGED result
      BY <1>5 DEF Continue
    <2>2. apart => ~AfterError'
      BY <2>1 DEF SoloInv, AfterError, Idle
    <2>3. apart => \A d \in Callers : pc'[d] # "idle" => d = c
      BY <1>1, <1>3
    <2>4. QED
      BY <1>2, <2>2, <2>3 DEF SoloInv, Idle, Overlaps
  <1>6. QED
    BY <1>4, <1>5

\* Nobody starts a call beside another one without giving up apart; every
\* caller looks at the queue before it waits for a packet.
LEMMA SoloInvNext ==
    ASSUME OwnerInv, SoloInv, [Next]_vars
    PROVE  SoloInv'
  <1>0. TypeOK /\ CallInv
    BY DEF OwnerInv
  <1> USE DEF task, client, server, bounds, hist
  <1>1. CASE UNCHANGED <<pc, result, packet, msg_queue, apart>>
    BY <1>1 DEF SoloInv, Idle, Overlaps, AfterError
  <1>2. CASE EncryptRequest \/ EncryptResult \/ PostEvent \/ ConnectionLost \/ UNCHANGED vars
    BY <1>1, <1>2 DEF EncryptRequest, EncryptResult, Handshake, PostEvent, ConnectionLost, vars
  <1>3. ASSUME NEW r \in requests, Respond(r)
        PROVE  SoloInv'
    BY <1>1, <1>3 DEF Respond
  <1>4. ASSUME NEW c \in Callers, CallerStarts(c)
        PROVE  SoloInv'
    <2>0. PICK kind \in CallKinds : \E job : Start(c, kind, job)
      BY <1>4 DEF CallerStarts, call_service_method, call_service_method_non_authed, login,
                  pics_get_access_tokens, pics_get_product_info, get_depot_decryption_key,
                  check_beta_password, send_heartbeat, CallKinds, ServiceKinds, EMsgKinds,
                  CallService, CallByEMsg
    <2>1. PICK job : Start(c, kind, job)
      BY <2>0
    <2>2. /\ pc' = [pc EXCEPT ![c] = "cipher"] /\ UNCHANGED packet /\ pc[c] = "idle"
          /\ result' = [result EXCEPT ![c] = [NoResult EXCEPT !.kind = kind, !.call = started + 1]]
          /\ apart' => ~Overlaps(c) /\ ~AfterError
      BY <2>1 DEF Start, Idle
    <2>3. /\ pc'[c] = "cipher" /\ result'[c].outcome = "none"
          /\ \A d \in Callers \ {c} : pc'[d] = pc[d] /\ result'[d] = result[d]
      BY <1>0, <2>2 DEF TypeOK, NoResult
    <2>4. apart' => \A d \in Callers \ {c} : pc'[d] = "idle" /\ result'[d].outcome # "error"
      BY <2>2, <2>3 DEF Overlaps, Idle, AfterError
    <2>5. apart' => ~Overlaps(c)' /\ ~AfterError'
      BY <2>3, <2>4 DEF Overlaps, Idle, AfterError
    <2>6. \A d \in Callers : pc'[d] \notin {"decrypt", "unpack"} => packet'[d].msgs = <<>>
      BY <2>2, <2>3 DEF SoloInv
    <2>7. QED
      BY <2>3, <2>4, <2>5, <2>6 DEF SoloInv, Idle
  <1>5. ASSUME NEW c \in Callers, CallerStep(c)
        PROVE  SoloInv'
    <2>1. CASE LockCipher(c)
      <3>1. pc' = [pc EXCEPT ![c] = "sending"] /\ pc[c] = "cipher"
            /\ UNCHANGED <<call, result, stage, packet, msg_queue, apart>>
        BY <2>1 DEF LockCipher
      <3>2. Continue(c, "sending") /\ "sending" \in Pcs \ {"idle"}
        BY <3>1 DEF Continue, Pcs
      <3>3. pc'[c] = "sending"
        BY <1>0, <3>1 DEF TypeOK
      <3>4. QED
        BY <1>0, <3>1, <3>2, <3>3, SoloKept DEF SoloInv
    <2>2. CASE Send(c)
      <3>1. /\ pc[c] = "sending" /\ UNCHANGED <<packet, msg_queue, apart>>
            /\ (\E o, n : Return(c, o, n)) \/ Continue(c, "queue")
        BY <2>2 DEF Send
      <3>2. pc'[c] \in {"idle", "queue"}
        BY <1>0, <3>1 DEF Return, Continue, TypeOK
      <3>3. "queue" \in Pcs \ {"idle"}
        BY DEF Pcs
      <3>4. QED
        BY <1>0, <3>1, <3>2, <3>3, SoloKept DEF SoloInv
    <2>3. CASE PopQueue(c) \/ QueueEmpty(c) \/ LockStream(c)
      <3>1. /\ pc[c] \in {"queue", "stream"} /\ UNCHANGED <<packet, apart>>
            /\ \/ \E o, n : Return(c, o, n)
               \/ Continue(c, "queue")
               \/ /\ Continue(c, "stream") \/ Continue(c, "reading")
                  /\ UNCHANGED msg_queue /\ (msg_queue = <<>> \/ pc[c] = "stream")
        BY <2>3 DEF PopQueue, QueueEmpty, LockStream, Take
      <3>2. pc'[c] \in {"idle", "queue", "stream", "reading"}
        BY <1>0, <3>1 DEF Return, Continue, TypeOK
      <3>3. pc'[c] \in {"stream", "reading"} => msg_queue' = <<>> \/ ~apart
        BY <1>0, <3>1 DEF Return, Continue, TypeOK, SoloInv, Idle
      <3>4. {"queue", "stream", "reading"} \subseteq Pcs \ {"idle"}
        BY DEF Pcs
      <3>5. QED
        BY <1>0, <3>1, <3>2, <3>3, <3>4, SoloKept DEF SoloInv
    <2>4. CASE Read(c) \/ ReadFails(c)
      <3>1. /\ pc[c] = "reading" /\ UNCHANGED <<msg_queue, apart>>
            /\ \/ Return(c, "error", 0) /\ UNCHANGED packet
               \/ Continue(c, "decrypt") /\ packet' = [packet EXCEPT ![c] = Head(inbound)]
        BY <2>4 DEF Read, ReadFails
      <3>2. /\ pc'[c] \in {"idle", "decrypt"}
            /\ pc'[c] = "idle" => UNCHANGED packet
            /\ \A d \in Callers \ {c} : packet'[d] = packet[d]
        BY <1>0, <3>1 DEF Return, Continue, TypeOK
      <3>3. "decrypt" \in Pcs \ {"idle"} /\ (msg_queue = <<>> \/ ~apart)
        BY <3>1 DEF Pcs, SoloInv, Idle
      <3>4. packet[c].msgs = <<>>
        BY <3>1 DEF SoloInv
      <3>5. QED
        BY <1>0, <3>1, <3>2, <3>3, <3>4, SoloKept
    <2>5. CASE Decrypt(c) \/ Unpacked(c) \/ DecryptMultiFails(c)
      <3>1. /\ pc[c] # "idle" /\ UNCHANGED apart /\ packet' = [packet EXCEPT ![c] = NoPacket]
            /\ (\E o, n : Return(c, o, n)) \/ Continue(c, "queue")
        BY <2>5 DEF Decrypt, Unpacked, DecryptMultiFails, Take
      <3>2. /\ pc'[c] \in {"idle", "queue"} /\ packet'[c].msgs = <<>>
            /\ \A d \in Callers \ {c} : packet'[d] = packet[d]
        BY <1>0, <3>1 DEF Return, Continue, TypeOK, NoPacket
      <3>3. "queue" \in Pcs \ {"idle"}
        BY DEF Pcs
      <3>4. QED
        BY <1>0, <3>1, <3>2, <3>3, SoloKept
    <2>6. CASE DecryptMulti(c)
      <3>1. pc[c] = "decrypt" /\ UNCHANGED <<packet, msg_queue, apart>> /\ Continue(c, "unpack")
        BY <2>6 DEF DecryptMulti
      <3>2. pc'[c] = "unpack" /\ "unpack" \in Pcs \ {"idle"}
        BY <1>0, <3>1 DEF Continue, TypeOK, Pcs
      <3>3. QED
        BY <1>0, <3>1, <3>2, SoloKept
    <2>7. CASE Unpack(c)
      <3>1. /\ pc[c] = "unpack" /\ UNCHANGED <<pc, call, result, stage, apart>>
            /\ packet' = [packet EXCEPT ![c].msgs = Tail(@)]
        BY <2>7 DEF Unpack
      <3>2. \A d \in Callers \ {c} : packet'[d] = packet[d]
        BY <1>0, <3>1 DEF TypeOK
      <3>3. /\ pc' = [pc EXCEPT ![c] = "unpack"] /\ pc'[c] = "unpack"
            /\ "unpack" \in Pcs \ {"idle"}
        BY <1>0, <3>1 DEF TypeOK, Pcs
      <3>4. Continue(c, "unpack") /\ UNCHANGED apart /\ pc[c] # "idle"
        BY <3>1, <3>3 DEF Continue
      <3>5. QED
        BY <1>0, <3>2, <3>3, <3>4, SoloKept
    <2>8. QED
      BY <1>5, <2>1, <2>2, <2>3, <2>4, <2>5, <2>6, <2>7 DEF CallerStep
  <1>6. QED
    BY <1>2, <1>3, <1>4, <1>5 DEF Next

-----------------------------------------------------------------------------
(* The order of the messages.                                              *)

\* Who takes or unpacks a message while calls are apart has the only packet.
LEMMA OnlyPacket ==
    ASSUME SoloInv, apart, NEW c \in Callers, pc[c] # "idle"
    PROVE  \A d \in Callers \ {c} : packet[d].msgs = <<>>
  <1>1. \A d \in Callers \ {c} : pc[d] = "idle"
    BY DEF SoloInv, Overlaps, Idle
  <1>2. QED
    BY <1>1 DEF SoloInv

\* The first message of the queue is the oldest there is.
LEMMA PopOrder ==
    ASSUME TypeOK, OrderInv, msg_queue # <<>>, msg_queue' = Tail(msg_queue),
           handled' = Head(msg_queue).n, UNCHANGED <<packet, inbound, sent, apart>>
    PROVE  OrderInv' /\ (apart => handled < handled')
  <1> SUFFICES ASSUME apart PROVE OrderInv' /\ handled < handled'
    BY DEF OrderInv
  <1> DEFINE q == msg_queue
             x == Head(q)
             r == Tail(q)
  <1>1. q \in Seq(Message)
    BY DEF TypeOK
  <1>2. InOrder(q) /\ Ordered(r) /\ handled < x.n /\ x.n <= sent
        /\ \A i \in 1 .. Len(r) : x.n < r[i].n /\ r[i].n <= sent
    BY <1>1, FrontOrder DEF OrderInv, InOrder, New
  <1>3. \A t : Ahead(q, t) => Ahead(r, t) /\ \A j \in 1 .. Len(t) : x.n < t[j].n
    BY <1>1, <1>2, FrontOrder DEF InOrder
  <1> HIDE DEF q, x, r
  <1>4. msg_queue' = r /\ msg_queue = q /\ handled' = x.n
    BY DEF q, r, x
  <1>5. InOrder(msg_queue)'
    BY <1>2, <1>4 DEF InOrder, New
  <1>6. \A s : InOrder(s) /\ Ahead(q, s) => InOrder(s)' /\ Ahead(r, s)
    BY <1>3, <1>4 DEF InOrder, New
  <1>7. handled' <= sent'
    BY <1>2, <1>4
  <1>8. QED
    BY <1>2, <1>4, <1>5, <1>6, <1>7 DEF OrderInv

\* A packet that is received was the first on its way.
LEMMA ReadOrder ==
    ASSUME TypeOK, OrderInv, NEW c \in Callers, inbound # <<>>, inbound' = Tail(inbound),
           packet' = [packet EXCEPT ![c] = Head(inbound)],
           UNCHANGED <<msg_queue, handled, sent, apart>>
    PROVE  OrderInv'
  <1>1. inbound \in Seq(Packet)
    BY DEF TypeOK
  <1>2. /\ Head(inbound) = inbound[1]
        /\ Len(inbound) \in Nat \ {0} /\ Len(inbound') = Len(inbound) - 1
        /\ \A i \in 1 .. Len(inbound') : inbound'[i] = inbound[i + 1]
    BY <1>1, FrontType
  <1>3. packet'[c] = inbound[1] /\ \A d \in Callers \ {c} : packet'[d] = packet[d]
    BY <1>2 DEF TypeOK
  <1>4. \A s : InOrder(s) <=> InOrder(s)'
    BY DEF InOrder, New
  <1> SUFFICES ASSUME apart PROVE OrderInv'
    BY DEF OrderInv
  <1>5. 1 \in 1 .. Len(inbound) /\ \A p \in 1 .. Len(inbound') : p + 1 \in 1 .. Len(inbound)
    BY <1>2
  <1>6. \A d \in Callers : InOrder(packet[d].msgs)' /\ Ahead(msg_queue, packet[d].msgs)'
    BY <1>3, <1>4, <1>5 DEF OrderInv
  <1>7. ASSUME NEW p \in 1 .. Len(inbound')
        PROVE  /\ InOrder(inbound[p].msgs)' /\ Ahead(msg_queue', inbound'[p].msgs)
               /\ \A d \in Callers : Ahead(packet'[d].msgs, inbound'[p].msgs)
               /\ \A q \in 1 .. p - 1 : Ahead(inbound'[q].msgs, inbound'[p].msgs)
    <2>1. inbound'[p] = inbound[p + 1] /\ p + 1 \in 1 .. Len(inbound) /\ 1 \in 1 .. (p + 1) - 1
      BY <1>2, <1>5
    <2>2. \A q \in 1 .. p - 1 : /\ q \in 1 .. Len(inbound') /\ inbound'[q] = inbound[q + 1]
                               /\ q + 1 \in 1 .. (p + 1) - 1
      BY <1>2
    <2>3. /\ InOrder(inbound[p + 1].msgs) /\ Ahead(msg_queue, inbound[p + 1].msgs)
          /\ \A d \in Callers : Ahead(packet[d].msgs, inbound[p + 1].msgs)
          /\ \A q \in 1 .. (p + 1) - 1 : Ahead(inbound[q].msgs, inbound[p + 1].msgs)
      BY <2>1 DEF OrderInv
    <2>4. QED
      BY <1>3, <1>4, <2>1, <2>2, <2>3
  <1>8. QED
    BY <1>4, <1>6, <1>7 DEF OrderInv

\* A message taken straight from its packet comes after an empty queue.
LEMMA DecryptOrder ==
    ASSUME TypeOK, SoloInv, OrderInv, NEW c \in Callers, pc[c] = "decrypt",
           packet[c].msgs # <<>>, packet' = [packet EXCEPT ![c] = NoPacket],
           handled' = packet[c].msgs[1].n \/ handled' = handled,
           UNCHANGED <<msg_queue, inbound, sent, apart>>
    PROVE  OrderInv' /\ (apart => handled <= handled')
  <1> SUFFICES ASSUME apart PROVE OrderInv' /\ handled <= handled'
    BY DEF OrderInv
  <1> DEFINE q == packet[c].msgs
             x == q[1]
  <1>1. q \in Seq(Message) /\ q # <<>>
    BY PacketType
  <1>2. x = Head(q) /\ Len(q) \in Nat \ {0} /\ x \in Message
    BY <1>1, FrontType
  <1>3. InOrder(q)
    BY DEF OrderInv
  <1>4. handled < x.n /\ x.n <= sent /\ x.n \in Nat /\ handled \in Nat /\ handled <= sent
    BY <1>2, <1>3 DEF InOrder, New, Message, TypeOK, OrderInv
  <1>5. \A p \in 1 .. Len(inbound) : \A j \in 1 .. Len(inbound[p].msgs) : x.n < inbound[p].msgs[j].n
    BY <1>2 DEF OrderInv, Ahead
  <1>6. msg_queue = <<>> /\ \A d \in Callers \ {c} : packet[d].msgs = <<>>
    BY OnlyPacket DEF SoloInv, Idle
  <1>7. \A d \in Callers : packet'[d].msgs = <<>>
    BY <1>6 DEF TypeOK, NoPacket
  <1> HIDE DEF q, x
  <1>8. handled' = x.n \/ handled' = handled
    BY DEF q, x
  <1>9. InOrder(<<>>)'
    BY ShortOrder DEF InOrder, New
  <1>10. \A p \in 1 .. Len(inbound) : InOrder(inbound[p].msgs)'
    BY <1>5, <1>8 DEF OrderInv, InOrder, New
  <1>11. OrderInv'
    BY <1>4, <1>8, <1>6, <1>7, <1>9, <1>10, ShortOrder DEF OrderInv
  <1>12. QED
    BY <1>4, <1>8, <1>11

\* A part of a Multi moves from the front of its packet to the end of the
\* queue, or is dropped.
LEMMA UnpackOrder ==
    ASSUME TypeOK, SoloInv, OrderInv, NEW c \in Callers, Unpack(c)
    PROVE  OrderInv'
  <1> USE DEF server, hist, task
  <1> SUFFICES ASSUME apart PROVE OrderInv'
    BY DEF OrderInv, Unpack
  <1> DEFINE s == packet[c].msgs
             m == Head(s)
             r == Tail(s)
             q == msg_queue
  <1>1. s \in Seq(Message) /\ s # <<>> /\ q \in Seq(Message) /\ packet[c] \in Packet
    BY PacketType DEF Unpack, TypeOK
  <1>2. m \in Message
    BY <1>1, FrontType
  <1>3. packet'[c].msgs = r /\ \A d \in Callers \ {c} : packet'[d] = packet[d]
    BY <1>1 DEF Unpack, TypeOK, Packet
  <1>4. /\ msg_queue' = q \/ msg_queue' = Append(q, m)
        /\ UNCHANGED <<inbound, handled, sent, apart>> /\ pc[c] = "unpack"
    BY DEF Unpack
  <1>5. \A d \in Callers \ {c} : packet[d].msgs = <<>>
    BY <1>4, OnlyPacket
  <1>6. InOrder(s) /\ InOrder(q) /\ Ahead(q, s)
        /\ \A p \in 1 .. Len(inbound) : /\ Ahead(q, inbound[p].msgs)
                                         /\ Ahead(s, inbound[p].msgs)
    BY DEF OrderInv
  <1>7. /\ InOrder(r) /\ \A i \in 1 .. Len(r) : m.n < r[i].n
        /\ handled < m.n /\ m.n <= sent
        /\ Ahead(q, r) /\ \A j \in 1 .. Len(q) : q[j].n < m.n
    BY <1>1, <1>6, FrontOrder DEF InOrder, New
  <1>8. \A p \in 1 .. Len(inbound) : /\ Ahead(r, inbound[p].msgs)
                                    /\ \A j \in 1 .. Len(inbound[p].msgs) :
                                          m.n < inbound[p].msgs[j].n
    BY <1>1, <1>6, FrontOrder DEF InOrder
  <1> HIDE DEF s, m, r, q
  <1> DEFINE l == Append(q, m)
  <1>9. InOrder(l) /\ Ahead(l, r)
    BY <1>1, <1>2, <1>6, <1>7, BackOrder DEF InOrder, New
  <1>10. \A p \in 1 .. Len(inbound) : Ahead(l, inbound[p].msgs)
    BY <1>1, <1>2, <1>6, <1>8, BackOrder
  <1> HIDE DEF l
  <1>11. /\ msg_queue' \in {q, l} /\ msg_queue = q
    BY <1>4 DEF l, q
  <1>12. \A t : InOrder(t) <=> InOrder(t)'
    BY <1>4 DEF InOrder, New
  <1>13. \A d \in Callers : packet'[d].msgs = r \/ packet'[d].msgs = <<>>
    BY <1>3, <1>5
  <1>14. InOrder(<<>>)
    BY ShortOrder DEF InOrder, New
  <1>15. InOrder(msg_queue') /\ Ahead(msg_queue', r) /\ Ahead(msg_queue', <<>>)
         /\ \A p \in 1 .. Len(inbound) : Ahead(msg_queue', inbound[p].msgs)
    BY <1>6, <1>7, <1>9, <1>10, <1>11, ShortOrder
  <1>16. QED
    BY <1>4, <1>7, <1>8, <1>12, <1>13, <1>14, <1>15, ShortOrder DEF OrderInv

\* What the server sends comes after everything else.
LEMMA PostOrder ==
    ASSUME TypeOK, OrderInv, NEW m \in Message, m.n = sent + 1, Post(m),
           UNCHANGED <<msg_queue, packet, handled, apart>>
    PROVE  OrderInv'
  <1> SUFFICES ASSUME apart PROVE OrderInv'
    BY DEF OrderInv
  <1>0. sent \in Nat /\ sent' = sent + 1 /\ handled \in Nat /\ handled <= sent
    BY DEF TypeOK, Post, OrderInv
  <1>1. \A s : InOrder(s) => /\ \A i \in 1 .. Len(s) : s[i].n <= sent
                             /\ Ordered(s)
    BY DEF InOrder, New
  <1> DEFINE old == {s \in Seq(Message) : InOrder(s)}
  <1>2. \A s \in old : InOrder(s)' /\ \A i \in 1 .. Len(s) : s[i].n < m.n
    <2>1. ASSUME NEW s \in old
          PROVE  InOrder(s)' /\ \A i \in 1 .. Len(s) : s[i].n < m.n
      <3>0. s \in Seq(Message) /\ InOrder(s)
        BY <2>1
      <3>1. \A i \in 1 .. Len(s) : s[i].n \in Nat
        <4>1. \A i \in 1 .. Len(s) : s[i] \in Message
          BY <3>0, ElementOfSeq
        <4>2. \A x \in Message : x.n \in Nat
          BY DEF Message
        <4>3. QED
          BY <4>1, <4>2
      <3>2. QED
        BY <1>0, <1>1, <3>0, <3>1 DEF InOrder, New
    <2>2. QED
      BY <2>1
  <1>3. /\ msg_queue \in old /\ \A c \in Callers : packet[c].msgs \in old
        /\ \A p \in 1 .. Len(inbound) : inbound[p].msgs \in old
    BY PacketType DEF OrderInv, TypeOK
  <1>4. InOrder(<<m>>)' /\ \A s \in old : Ahead(s, <<m>>)
    <2> DEFINE one == <<m>>
    <2>1. Len(one) = 1 /\ one[1] = m /\ Ordered(one)
      BY ShortOrder
    <2> HIDE DEF one
    <2>2. m.n \in Nat /\ handled < m.n /\ m.n <= sent'
      BY <1>0 DEF Message
    <2>3. InOrder(one)'
      BY <2>1, <2>2 DEF InOrder, New
    <2>4. \A s \in old : Ahead(s, one)
      BY <1>2, <2>1 DEF Ahead
    <2>5. QED
      BY <2>3, <2>4 DEF one
  <1>5. ASSUME NEW s \in old
        PROVE  /\ InOrder(Append(s, m))'
               /\ \A t \in old : Ahead(t, s) => Ahead(t, Append(s, m))
    BY <1>0, <1>2, <1>5, BackOrder DEF InOrder, New
  <1> HIDE DEF old
  <1>6. ASSUME NEW p \in 1 .. Len(inbound')
        PROVE  /\ InOrder(inbound[p].msgs)' /\ Ahead(msg_queue, inbound'[p].msgs)
               /\ \A c \in Callers : Ahead(packet[c].msgs, inbound'[p].msgs)
               /\ \A q \in 1 .. p - 1 : Ahead(inbound'[q].msgs, inbound'[p].msgs)
    <2>1. Len(inbound) \in Nat /\ \A q \in 1 .. p - 1 : q \in 1 .. Len(inbound)
                                                       /\ inbound'[q] = inbound[q]
      BY PostLast
    <2>2. CASE p \in 1 .. Len(inbound) /\ inbound'[p] = inbound[p]
      BY <1>2, <1>3, <2>1, <2>2 DEF OrderInv
    <2>3. CASE inbound'[p].msgs = <<m>>
      BY <1>3, <1>4, <2>1, <2>3
    <2>4. CASE p \in 1 .. Len(inbound) /\ inbound'[p].msgs = Append(inbound[p].msgs, m)
      BY <1>3, <1>5, <2>1, <2>4 DEF OrderInv
    <2>5. QED
      BY <2>2, <2>3, <2>4, PostType
  <1>7. QED
    BY <1>0, <1>2, <1>3, <1>6 DEF OrderInv

-----------------------------------------------------------------------------
(* What is on its way, as a set.                                           *)

\* It has three parts,
LEMMA OnWayParts ==
    /\ Elements(msg_queue) \subseteq OnWay
    /\ \A c \in Callers : Elements(packet[c].msgs) \subseteq OnWay
    /\ \A p \in 1 .. Len(inbound) : Elements(inbound[p].msgs) \subseteq OnWay
  <1> DEFINE B == UNION {Elements(packet[c].msgs) : c \in Callers}
             C == UNION {Elements(inbound[p].msgs) : p \in 1 .. Len(inbound)}
  <1>1. OnWay = Elements(msg_queue) \cup B \cup C
    BY DEF OnWay
  <1>2. \A c \in Callers : Elements(packet[c].msgs) \subseteq B
    OBVIOUS
  <1>3. \A p \in 1 .. Len(inbound) : Elements(inbound[p].msgs) \subseteq C
    OBVIOUS
  <1> HIDE DEF B, C
  <1>4. QED
    BY <1>1, <1>2, <1>3

\* and no other.
LEMMA OnWayWhole ==
    ASSUME NEW S, Elements(msg_queue) \subseteq S,
           \A c \in Callers : Elements(packet[c].msgs) \subseteq S,
           \A p \in 1 .. Len(inbound) : Elements(inbound[p].msgs) \subseteq S
    PROVE  OnWay \subseteq S
  <1> DEFINE B == UNION {Elements(packet[c].msgs) : c \in Callers}
             C == UNION {Elements(inbound[p].msgs) : p \in 1 .. Len(inbound)}
  <1>1. OnWay = Elements(msg_queue) \cup B \cup C
    BY DEF OnWay
  <1>2. B \subseteq S /\ C \subseteq S
    OBVIOUS
  <1> HIDE DEF B, C
  <1>3. QED
    BY <1>1, <1>2

\* What is on its way after a step is in the queue, in a packet or on the wire.
LEMMA OnWayNext ==
    ASSUME NEW S, Elements(msg_queue') \subseteq S,
           \A c \in Callers : Elements(packet'[c].msgs) \subseteq S,
           \A p \in 1 .. Len(inbound') : Elements(inbound'[p].msgs) \subseteq S
    PROVE  OnWay' \subseteq S
  <1> DEFINE A == Elements(msg_queue')
             B == UNION {Elements(packet'[c].msgs) : c \in Callers}
             C == UNION {Elements(inbound'[p].msgs) : p \in 1 .. Len(inbound')}
  <1>1. OnWay' = A \cup B \cup C
    BY DEF OnWay, Elements
  <1>2. B \subseteq S /\ C \subseteq S /\ A \subseteq S
    OBVIOUS
  <1> HIDE DEF A, B, C
  <1>3. QED
    BY <1>1, <1>2

\* Everything on its way is newer than what was handled.
AllNew == \A m \in OnWay : handled < m.n /\ m.n <= sent

\* While calls do not overlap, whatever is on its way was sent after the last
\* message that was handled.
LEMMA OnWayNew == apart /\ OrderInv => AllNew
  <1> SUFFICES ASSUME apart, OrderInv PROVE AllNew
    OBVIOUS
  <1> DEFINE S == {m \in OnWay : handled < m.n /\ m.n <= sent}
  <1>1. \A s : InOrder(s) /\ Elements(s) \subseteq OnWay => Elements(s) \subseteq S
    BY DEF InOrder, New, Elements
  <1>2. /\ InOrder(msg_queue) /\ \A c \in Callers : InOrder(packet[c].msgs)
        /\ \A p \in 1 .. Len(inbound) : InOrder(inbound[p].msgs)
    BY DEF OrderInv
  <1> HIDE DEF S
  <1>3. OnWay \subseteq S
    BY <1>1, <1>2, OnWayParts, OnWayWhole
  <1>4. QED
    BY <1>3 DEF S, AllNew

\* Everything on its way is a message.
LEMMA OnWayType ==
    ASSUME TypeOK
    PROVE  OnWay \subseteq Message
  <1>1. \A s \in Seq(Message) : Elements(s) \subseteq Message
    <2>1. ASSUME NEW s \in Seq(Message), NEW i \in 1 .. Len(s)
          PROVE  s[i] \in Message
      BY <2>1, ElementOfSeq
    <2>2. QED
      BY <2>1 DEF Elements
  <1>2. msg_queue \in Seq(Message)
    BY DEF TypeOK
  <1>3. QED
    BY <1>1, <1>2, PacketType, OnWayWhole

\* Only the server adds to it.
LEMMA OnWayShrinks ==
    ASSUME TypeOK, NEW c \in Callers, CallerStep(c)
    PROVE  OnWay' \subseteq OnWay
  <1> USE DEF server, hist, bounds, client, task
  <1>0. /\ packet \in [Callers -> Packet] /\ inbound \in Seq(Packet)
        /\ msg_queue \in Seq(Message)
    BY DEF TypeOK
  <1>1. CASE UNCHANGED <<packet, msg_queue, inbound>>
    BY <1>1, OnWayParts, OnWayNext
  <1>2. CASE LockCipher(c) \/ Send(c) \/ QueueEmpty(c) \/ LockStream(c) \/ ReadFails(c)
             \/ DecryptMulti(c)
    BY <1>1, <1>2 DEF LockCipher, Send, QueueEmpty, LockStream, ReadFails, DecryptMulti
  <1>3. CASE PopQueue(c)
    <2>1. /\ msg_queue # <<>> /\ msg_queue' = Tail(msg_queue) /\ UNCHANGED <<packet, inbound>>
      BY <1>3 DEF PopQueue
    <2>2. Elements(msg_queue') \subseteq Elements(msg_queue)
      <3>1. /\ Len(msg_queue) \in Nat \ {0} /\ Len(msg_queue') = Len(msg_queue) - 1
            /\ \A i \in 1 .. Len(msg_queue') : msg_queue'[i] = msg_queue[i + 1]
        BY <1>0, <2>1, FrontType
      <3>2. QED
        BY <3>1 DEF Elements
    <2>3. QED
      BY <2>1, <2>2, OnWayParts, OnWayNext
  <1>4. CASE Read(c)
    <2>1. /\ inbound # <<>> /\ inbound' = Tail(inbound)
          /\ packet' = [packet EXCEPT ![c] = Head(inbound)] /\ UNCHANGED msg_queue
      BY <1>4 DEF Read
    <2>2. /\ Head(inbound) = inbound[1]
          /\ Len(inbound) \in Nat \ {0} /\ Len(inbound') = Len(inbound) - 1
          /\ \A i \in 1 .. Len(inbound') : inbound'[i] = inbound[i + 1]
      BY <1>0, <2>1, FrontType
    <2>3. \A d \in Callers : packet'[d] = packet[d] \/ packet'[d] = inbound[1]
      BY <1>0, <2>1, <2>2
    <2>4. 1 \in 1 .. Len(inbound) /\ \A i \in 1 .. Len(inbound') : i + 1 \in 1 .. Len(inbound)
      BY <2>2
    <2>5. \A d \in Callers : Elements(packet'[d].msgs) \subseteq OnWay
      BY <2>3, <2>4, OnWayParts
    <2>6. \A p \in 1 .. Len(inbound') : Elements(inbound'[p].msgs) \subseteq OnWay
      BY <2>2, <2>4, OnWayParts
    <2>7. Elements(msg_queue') \subseteq OnWay
      BY <2>1, OnWayParts
    <2>8. QED
      BY <2>5, <2>6, <2>7, OnWayNext
  <1>5. CASE Decrypt(c) \/ Unpacked(c) \/ DecryptMultiFails(c)
    <2>1. packet' = [packet EXCEPT ![c] = NoPacket] /\ UNCHANGED <<msg_queue, inbound>>
      BY <1>5 DEF Decrypt, Unpacked, DecryptMultiFails
    <2>2. \A d \in Callers : packet'[d] = packet[d] \/ packet'[d].msgs = <<>>
      BY <1>0, <2>1 DEF NoPacket
    <2>3. QED
      BY <2>1, <2>2, ShortOrder, OnWayParts, OnWayNext
  <1>6. CASE Unpack(c)
    <2> DEFINE s == packet[c].msgs
               m == Head(s)
               r == Tail(s)
    <2>1. s \in Seq(Message) /\ s # <<>> /\ packet[c] \in Packet
      BY <1>0, <1>6, PacketType DEF Unpack
    <2>2. m \in Message /\ m = s[1] /\ Len(s) \in Nat \ {0} /\ Len(r) = Len(s) - 1
          /\ \A i \in 1 .. Len(r) : r[i] = s[i + 1]
      BY <2>1, FrontType
    <2>3. m \in Elements(s) /\ Elements(r) \subseteq Elements(s)
      BY <2>2 DEF Elements
    <2>4. packet'[c].msgs = r /\ \A d \in Callers \ {c} : packet'[d] = packet[d]
      BY <1>0, <1>6, <2>1 DEF Unpack, Packet
    <2>5. UNCHANGED inbound /\ (msg_queue' = msg_queue \/ msg_queue' = Append(msg_queue, m))
      BY <1>6 DEF Unpack
    <2>6. Elements(msg_queue') \subseteq Elements(msg_queue) \cup {m}
      BY <1>0, <2>2, <2>5, BackOrder
    <2>7. Elements(s) \subseteq OnWay /\ Elements(msg_queue) \subseteq OnWay
      BY OnWayParts
    <2> HIDE DEF s, m, r
    <2>8. \A d \in Callers : Elements(packet'[d].msgs) \subseteq OnWay
      BY <2>3, <2>4, <2>7, OnWayParts
    <2>9. Elements(msg_queue') \subseteq OnWay
      BY <2>3, <2>6, <2>7
    <2>10. QED
      BY <2>5, <2>8, <2>9, OnWayParts, OnWayNext
  <1>7. QED
    BY <1>2, <1>3, <1>4, <1>5, <1>6 DEF CallerStep

\* The server adds the message it sends.
LEMMA PostOnWay ==
    ASSUME TypeOK, NEW m \in Message, Post(m), UNCHANGED <<msg_queue, packet>>
    PROVE  OnWay' \subseteq OnWay \cup {m}
  <1>1. ASSUME NEW p \in 1 .. Len(inbound')
        PROVE  Elements(inbound'[p].msgs) \subseteq OnWay \cup {m}
    <2>1. CASE p \in 1 .. Len(inbound) /\ inbound'[p] = inbound[p]
      BY <2>1, OnWayParts
    <2>2. CASE inbound'[p].msgs = <<m>>
      BY <2>2, ShortOrder
    <2>3. CASE p \in 1 .. Len(inbound) /\ inbound'[p].msgs = Append(inbound[p].msgs, m)
      <3>1. inbound[p].msgs \in Seq(Message)
        BY <2>3, PacketType
      <3>2. Elements(inbound'[p].msgs) = Elements(inbound[p].msgs) \cup {m}
        BY <2>3, <3>1, BackOrder
      <3>3. QED
        BY <2>3, <3>2, OnWayParts
    <2>4. QED
      BY <2>1, <2>2, <2>3, PostType
  <1>2. QED
    BY <1>1, OnWayParts, OnWayNext

-----------------------------------------------------------------------------
(* The answers on their way and the call that waits for them.              *)

\* A step that adds no message, no request and no call, and leaves those that
\* wait waiting.
LEMMA AnswerKept ==
    ASSUME AnswerInv, OnWay' \subseteq OnWay, requests' = requests,
           apart' => apart, AfterError => AfterError' \/ ~apart',
           \A d \in Callers : pc[d] \in Waiting => pc'[d] \in Waiting /\ call'[d] = call[d]
    PROVE  AnswerInv'
  <1> SUFFICES ASSUME apart', ~AfterError' PROVE AnswerInv'
    BY DEF AnswerInv
  <1>1. Answers' \subseteq Answers
    BY DEF Answers
  <1>2. \A r \in requests' : \E c \in Callers : pc'[c] \in Waiting /\ call'[c] = r
    BY DEF AnswerInv
  <1>3. ASSUME NEW m \in Answers'
        PROVE  /\ \E c \in Callers : pc'[c] \in Waiting /\ call'[c].call = m.call
               /\ m.more => m.answer = "product"
               /\ requests' # {} \/ (\E k \in Answers' : m.n < k.n) => m.more
    BY <1>1, <1>3 DEF AnswerInv
  <1>4. QED
    BY <1>2, <1>3 DEF AnswerInv

\* Where nobody waits, no answer and no request is left.
LEMMA NobodyWaits ==
    ASSUME AnswerInv, apart, ~AfterError, \A d \in Callers : pc[d] \notin Waiting
    PROVE  requests = {} /\ \A m \in OnWay : m.answer = "event"
  BY DEF AnswerInv, Answers

\* With no request open and only events on their way there is nothing to mix up.
LEMMA NothingLeft ==
    ASSUME requests' = {}, \A m \in OnWay' : m.answer = "event"
    PROVE  AnswerInv'
  <1>1. Answers' = {}
    BY DEF Answers
  <1>2. QED
    BY <1>1 DEF AnswerInv

\* The answer a call returns with is its own, and the last of what is on its
\* way for it.
LEMMA LastAnswer ==
    ASSUME OwnerInv, SoloInv, AnswerInv, apart, NEW c \in Callers, pc[c] # "idle",
           NEW m \in OnWay, IsAnswer(c, m), LastPart(c, m), Outcome(c, m) # "error"
    PROVE  /\ m.call = call[c].call /\ requests = {}
           /\ \A k \in OnWay : m.n < k.n => k.answer = "event"
  <1>1. ~AfterError /\ \A d \in Callers : pc[d] # "idle" => d = c
    BY DEF SoloInv, Overlaps, Idle
  <1>2. call[c] \in Request
    BY DEF OwnerInv, CallInv
  <1>3. m.answer # "event" /\ (m.answer = "product" => call[c].kind = "product")
    BY <1>2 DEF IsAnswer, EMsgOf, Request, CallKinds, ServiceKinds, EMsgKinds
  <1>4. m \in Answers
    BY <1>3 DEF Answers
  <1>5. m.body # "bad"
    BY DEF Outcome
  <1>6. ~m.more
    BY <1>1, <1>3, <1>4, <1>5 DEF LastPart, AnswerInv
  <1>7. \A d \in Callers : pc[d] \in Waiting => d = c
    BY <1>1 DEF Waiting
  <1>8. m.call = call[c].call
    BY <1>1, <1>4, <1>7 DEF AnswerInv
  <1>9. requests = {} /\ \A k \in Answers : ~(m.n < k.n)
    BY <1>1, <1>4, <1>6 DEF AnswerInv
  <1>10. QED
    BY <1>8, <1>9 DEF Answers

\* Taking a message that is on its way.
LEMMA TakeAnswer ==
    ASSUME OwnerInv, SoloInv, AnswerInv, OwnAnswer, OrderInv', NEW c \in Callers,
           pc[c] \in Waiting, NEW m \in Message, m \in OnWay, Take(c, m),
           OnWay' \subseteq OnWay, UNCHANGED <<requests, apart>>
    PROVE  AnswerInv' /\ OwnAnswer'
  <1>0. TypeOK /\ pc[c] # "idle" /\ call[c] \in Request /\ result[c].call = call[c].call
    BY DEF OwnerInv, CallInv, Waiting
  <1>1. CASE IsAnswer(c, m) /\ LastPart(c, m) /\ Return(c, Outcome(c, m), m.call)
    <2>1. /\ \A d \in Callers \ {c} : result'[d] = result[d]
          /\ result'[c].outcome = Outcome(c, m) /\ result'[c].answers = m.call
          /\ result'[c].call = result[c].call
      BY <1>0, <1>1 DEF Return, TypeOK, Results
    <2>2. CASE Outcome(c, m) = "error" \/ ~apart
      <3>1. AnswerInv'
        BY <2>1, <2>2 DEF AnswerInv, AfterError
      <3>2. OwnAnswer'
        BY <2>1, <2>2 DEF OwnAnswer
      <3>3. QED
        BY <3>1, <3>2
    <2>3. CASE Outcome(c, m) # "error" /\ apart
      <3>1. /\ m.call = call[c].call /\ requests = {}
            /\ \A k \in OnWay : m.n < k.n => k.answer = "event"
        BY <1>0, <1>1, <2>3, LastAnswer
      <3>2. \A k \in OnWay' : m.n < k.n
        <4>1. apart' /\ OrderInv' => AllNew'
          BY OnWayNew, PTL
        <4>2. handled' = m.n
          BY DEF Take
        <4>3. QED
          BY <2>3, <4>1, <4>2 DEF AllNew
      <3>3. AnswerInv'
        BY <3>1, <3>2, NothingLeft
      <3>4. OwnAnswer'
        BY <1>0, <2>1, <3>1 DEF OwnAnswer
      <3>5. QED
        BY <3>3, <3>4
    <2>4. QED
      BY <2>2, <2>3
  <1>2. CASE Continue(c, "queue")
    <2>1. UNCHANGED <<call, result>> /\ pc' = [pc EXCEPT ![c] = "queue"]
      BY <1>2 DEF Continue
    <2>2. \A d \in Callers : pc[d] \in Waiting => pc'[d] \in Waiting /\ call'[d] = call[d]
      BY <1>0, <2>1 DEF Waiting, TypeOK
    <2>3. AnswerInv'
      BY <2>1, <2>2, AnswerKept DEF AfterError
    <2>4. QED
      BY <2>1, <2>3 DEF OwnAnswer
  <1>3. QED
    BY <1>1, <1>2 DEF Take

\* An answer the server sends to a request it still has.
LEMMA PostAnswer ==
    ASSUME TypeOK, OrderInv, AnswerInv, NEW m \in Message, m.n = sent + 1,
           OnWay' \subseteq OnWay \cup {m}, requests' \subseteq requests,
           m.answer # "event" => /\ \E r \in requests : m.call = r.call
                                 /\ m.more => m.answer = "product"
                                 /\ requests' # {} /\ apart /\ ~AfterError => m.more,
           UNCHANGED <<pc, call, result, apart>>
    PROVE  AnswerInv'
  <1> SUFFICES ASSUME apart, ~AfterError PROVE AnswerInv'
    BY DEF AnswerInv, AfterError
  <1>1. Answers' \subseteq Answers \cup {m} /\ (m \notin Answers' \/ m.answer # "event")
    BY DEF Answers
  <1>2. \A r \in requests : \E c \in Callers : pc'[c] \in Waiting /\ call'[c] = r
    BY DEF AnswerInv
  <1>3. \A k \in OnWay : k.n < m.n /\ k.n \in Nat
    <2>1. \A k \in Message : k.n \in Nat
      BY DEF Message
    <2>2. QED
      BY <2>1, OnWayNew, OnWayType DEF TypeOK, AllNew
  <1>4. ASSUME NEW k \in Answers', k # m
        PROVE  /\ \E c \in Callers : pc'[c] \in Waiting /\ call'[c].call = k.call
               /\ k.more => k.answer = "product"
               /\ requests' # {} \/ (\E l \in Answers' : k.n < l.n) => k.more
    <2>1. k \in Answers
      BY <1>1, <1>4
    <2>2. CASE \E l \in Answers' \ {m} : k.n < l.n
      BY <1>1, <2>1, <2>2 DEF AnswerInv
    <2>3. CASE m \in Answers'
      <3>1. requests # {}
        BY <1>1, <2>3
      <3>2. QED
        BY <2>1, <3>1 DEF AnswerInv
    <2>4. CASE requests' # {}
      BY <2>1, <2>4 DEF AnswerInv
    <2>5. QED
      BY <2>1, <2>2, <2>3, <2>4 DEF AnswerInv
  <1>5. ASSUME m \in Answers'
        PROVE  /\ \E c \in Callers : pc'[c] \in Waiting /\ call'[c].call = m.call
               /\ m.more => m.answer = "product"
               /\ requests' # {} \/ (\E l \in Answers' : m.n < l.n) => m.more
    <2>1. ~(\E l \in Answers' : m.n < l.n)
      <3>1. m.n \in Nat /\ \A l \in Answers : l.n < m.n /\ l.n \in Nat
        BY <1>3 DEF Answers, Message
      <3>2. QED
        BY <1>1, <3>1
    <2>2. QED
      BY <1>1, <1>2, <1>5, <2>1
  <1>6. QED
    BY <1>2, <1>4, <1>5 DEF AnswerInv

-----------------------------------------------------------------------------
(* The inductive invariant.                                                *)

LoneInv == SoloInv /\ OrderInv /\ AnswerInv /\ OwnAnswer

\* Nothing was sent yet.
LEMMA LoneInvInit == Init => LoneInv
  <1> SUFFICES ASSUME Init PROVE LoneInv
    OBVIOUS
  <1>1. SoloInv /\ OwnAnswer
    BY DEF Init, SoloInv, OwnAnswer, Idle, NoPacket, NoResult
  <1>2. InOrder(<<>>)
    BY ShortOrder DEF InOrder, New
  <1>3. OrderInv
    <2>1. Len(inbound) = 0 /\ handled <= sent
      BY DEF Init
    <2>2. msg_queue = <<>> /\ \A c \in Callers : packet[c].msgs = <<>>
      BY DEF Init, NoPacket
    <2>3. QED
      BY <1>2, <2>1, <2>2, ShortOrder DEF OrderInv
  <1>4. AnswerInv
    <2>1. /\ msg_queue = <<>> /\ Len(inbound) = 0 /\ requests = {}
          /\ \A c \in Callers : packet[c].msgs = <<>>
      BY DEF Init, NoPacket
    <2>2. OnWay \subseteq {}
      BY <2>1, ShortOrder, OnWayWhole
    <2>3. QED
      BY <2>1, <2>2 DEF AnswerInv, Answers
  <1>5. QED
    BY <1>1, <1>3, <1>4 DEF LoneInv

\* A step that touches no message.
LEMMA OrderKept ==
    ASSUME OrderInv, apart' => apart, UNCHANGED <<msg_queue, packet, inbound, handled, sent>>
    PROVE  OrderInv'
  BY DEF OrderInv, InOrder, New

\* The order is kept by every step of a caller; when it takes a message, that
\* one is on its way and newer than the last.
LEMMA CallerStepOrder ==
    ASSUME OwnerInv, SoloInv, OrderInv, NEW c \in Callers, CallerStep(c)
    PROVE  OrderInv' /\ (apart => handled <= handled') /\ apart' = apart /\ sent' = sent
  <1>0. TypeOK /\ CallInv /\ handled \in Nat
    BY DEF OwnerInv, TypeOK
  <1> USE DEF server, hist, bounds, client, task
  <1>1. CASE LockCipher(c) \/ Send(c) \/ QueueEmpty(c) \/ LockStream(c) \/ ReadFails(c)
             \/ DecryptMulti(c)
    <2>1. UNCHANGED <<msg_queue, packet, inbound, handled, sent, apart>>
      BY <1>1 DEF LockCipher, Send, QueueEmpty, LockStream, ReadFails, DecryptMulti
    <2>2. QED
      BY <1>0, <2>1, OrderKept
  <1>2. CASE PopQueue(c)
    <2>1. /\ msg_queue # <<>> /\ msg_queue' = Tail(msg_queue)
          /\ handled' = Head(msg_queue).n /\ UNCHANGED <<packet, inbound, sent, apart>>
      BY <1>2 DEF PopQueue, Take
    <2>2. OrderInv' /\ (apart => handled < handled')
      BY <1>0, <2>1, PopOrder
    <2>3. handled' \in Nat
      <3>1. Head(msg_queue) \in Message
        BY <1>0, <2>1, FrontType DEF TypeOK
      <3>2. QED
        BY <2>1, <3>1 DEF Message
    <2>4. QED
      BY <1>0, <2>1, <2>2, <2>3
  <1>3. CASE Read(c)
    <2>1. /\ inbound # <<>> /\ inbound' = Tail(inbound)
          /\ packet' = [packet EXCEPT ![c] = Head(inbound)]
          /\ UNCHANGED <<msg_queue, handled, sent, apart>>
      BY <1>3 DEF Read
    <2>2. OrderInv'
      BY <1>0, <2>1, ReadOrder
    <2>3. QED
      BY <1>0, <2>1, <2>2
  <1>4. CASE Decrypt(c)
    <2>1. /\ pc[c] = "decrypt" /\ packet[c].msgs # <<>>
          /\ packet' = [packet EXCEPT ![c] = NoPacket]
          /\ handled' = packet[c].msgs[1].n \/ handled' = handled
          /\ UNCHANGED <<msg_queue, inbound, sent, apart>>
      BY <1>0, <1>4 DEF Decrypt, Take, CallInv
    <2>2. QED
      BY <1>0, <2>1, DecryptOrder
  <1>5. CASE Unpack(c)
    <2>1. UNCHANGED <<handled, sent, apart>>
      BY <1>5 DEF Unpack
    <2>2. QED
      BY <1>0, <1>5, <2>1, UnpackOrder
  <1>6. CASE Unpacked(c) \/ DecryptMultiFails(c)
    <2>1. /\ packet' = [packet EXCEPT ![c] = NoPacket]
          /\ UNCHANGED <<msg_queue, inbound, handled, sent, apart>>
      BY <1>6 DEF Unpacked, DecryptMultiFails
    <2>2. \A d \in Callers : packet'[d] = packet[d] \/ packet'[d].msgs = <<>>
      BY <1>0, <2>1 DEF TypeOK, NoPacket
    <2>3. InOrder(<<>>)
      BY ShortOrder DEF InOrder, New
    <2>4. OrderInv'
      BY <2>1, <2>2, <2>3, ShortOrder DEF OrderInv, InOrder, New
    <2>5. QED
      BY <1>0, <2>1, <2>4
  <1>7. QED
    BY <1>1, <1>2, <1>3, <1>4, <1>5, <1>6 DEF CallerStep

\* So is the relation of the answers to the call that waits.
LEMMA CallerStepAnswer ==
    ASSUME OwnerInv, LoneInv, OrderInv', NEW c \in Callers, CallerStep(c)
    PROVE  AnswerInv' /\ OwnAnswer'
  <1>0. TypeOK /\ CallInv /\ SoloInv /\ OrderInv /\ AnswerInv /\ OwnAnswer
    BY DEF OwnerInv, LoneInv
  <1>1. OnWay' \subseteq OnWay
    BY <1>0, OnWayShrinks
  <1> USE DEF server, hist, bounds, client, task
  <1>2. ASSUME NEW next \in Waiting, pc[c] \in Waiting, Continue(c, next),
               UNCHANGED <<requests, apart>>
        PROVE  AnswerInv' /\ OwnAnswer'
    <2>1. UNCHANGED <<call, result>> /\ pc' = [pc EXCEPT ![c] = next]
      BY <1>2 DEF Continue
    <2>2. \A d \in Callers : pc[d] \in Waiting => pc'[d] \in Waiting /\ call'[d] = call[d]
      BY <1>0, <1>2, <2>1 DEF TypeOK
    <2>3. AnswerInv'
      BY <1>0, <1>1, <1>2, <2>1, <2>2, AnswerKept DEF AfterError
    <2>4. QED
      BY <1>0, <1>2, <2>1, <2>3 DEF OwnAnswer
  <1>3. ASSUME Return(c, "error", 0), UNCHANGED apart
        PROVE  AnswerInv' /\ OwnAnswer'
    <2>1. /\ result'[c].outcome = "error"
          /\ \A d \in Callers \ {c} : result'[d] = result[d]
      BY <1>0, <1>3 DEF Return, TypeOK, Results
    <2>2. AnswerInv'
      BY <2>1 DEF AnswerInv, AfterError
    <2>3. QED
      BY <1>0, <1>3, <2>1, <2>2 DEF OwnAnswer
  <1>4. CASE LockCipher(c)
    <2>1. /\ pc' = [pc EXCEPT ![c] = "sending"] /\ pc[c] = "cipher"
          /\ UNCHANGED <<call, result, requests, apart>>
      BY <1>4 DEF LockCipher
    <2>2. \A d \in Callers : pc[d] \in Waiting => pc'[d] \in Waiting /\ call'[d] = call[d]
      BY <1>0, <2>1 DEF TypeOK, Waiting
    <2>3. AnswerInv'
      BY <1>0, <1>1, <2>1, <2>2, AnswerKept DEF AfterError
    <2>4. QED
      BY <1>0, <2>1, <2>3 DEF OwnAnswer
  <1>5. CASE Send(c)
    <2>1. /\ pc[c] = "sending" /\ UNCHANGED apart /\ call[c] \in Request
          /\ result[c].call = call[c].call
      BY <1>0, <1>5 DEF Send, CallInv
    <2>2. apart => /\ ~AfterError /\ \A d \in Callers : pc[d] \notin Waiting
                   /\ \A d \in Callers \ {c} : pc[d] = "idle"
      BY <1>0, <2>1 DEF SoloInv, Overlaps, Idle, Waiting
    <2>3. apart => requests = {} /\ \A m \in OnWay : m.answer = "event"
      BY <1>0, <2>2, NobodyWaits
    <2>4. CASE Continue(c, "queue") /\ requests' = requests \cup {call[c]}
      <3>1. UNCHANGED <<call, result>> /\ pc'[c] = "queue"
        BY <1>0, <2>4 DEF Continue, TypeOK
      <3>2. apart' => Answers' = {}
        BY <1>1, <2>1, <2>3 DEF Answers
      <3>3. apart' => \A r \in requests' : \E d \in Callers : pc'[d] \in Waiting /\ call'[d] = r
        BY <2>1, <2>3, <2>4, <3>1 DEF Waiting
      <3>4. AnswerInv'
        BY <3>2, <3>3 DEF AnswerInv
      <3>5. QED
        BY <1>0, <2>1, <3>1, <3>4 DEF OwnAnswer
    <2>5. CASE Return(c, "ok", call[c].call) /\ UNCHANGED requests
      <3>1. apart' => requests' = {} /\ \A m \in OnWay' : m.answer = "event"
        BY <1>1, <2>1, <2>3, <2>5
      <3>2. AnswerInv'
        BY <3>1, NothingLeft DEF AnswerInv
      <3>3. /\ \A d \in Callers \ {c} : result'[d] = result[d]
            /\ result'[c].answers = call[c].call /\ result'[c].call = result[c].call
        BY <1>0, <2>5 DEF Return, TypeOK, Results
      <3>4. QED
        BY <1>0, <2>1, <3>2, <3>3 DEF OwnAnswer
    <2>6. QED
      BY <1>3, <1>5, <2>1, <2>4, <2>5 DEF Send
  <1>6. CASE PopQueue(c)
    <2>1. /\ msg_queue # <<>> /\ Take(c, Head(msg_queue)) /\ pc[c] \in Waiting
          /\ UNCHANGED <<requests, apart>>
      BY <1>6 DEF PopQueue, Waiting
    <2>2. Head(msg_queue) \in Message /\ Head(msg_queue) \in Elements(msg_queue)
      BY <1>0, <2>1, FrontType DEF TypeOK, Elements
    <2>3. QED
      BY <1>0, <1>1, <2>1, <2>2, OnWayParts, TakeAnswer
  <1>7. CASE QueueEmpty(c) \/ LockStream(c) \/ Read(c) \/ DecryptMulti(c) \/ Unpacked(c)
    <2>1. /\ pc[c] \in Waiting /\ UNCHANGED <<requests, apart>>
          /\ \E next \in Waiting : Continue(c, next)
      BY <1>7 DEF QueueEmpty, LockStream, Read, DecryptMulti, Unpacked, Waiting
    <2>2. QED
      BY <1>2, <2>1
  <1>8. CASE ReadFails(c) \/ DecryptMultiFails(c)
    BY <1>3, <1>8 DEF ReadFails, DecryptMultiFails
  <1>9. CASE Decrypt(c)
    <2> DEFINE m == packet[c].msgs[1]
    <2>1. /\ packet[c].msgs \in Seq(Message) /\ packet[c].msgs # <<>>
          /\ Return(c, "error", 0) \/ Take(c, m)
          /\ pc[c] \in Waiting /\ UNCHANGED <<requests, apart>>
      BY <1>0, <1>9, PacketType DEF Decrypt, CallInv, Waiting
    <2>2. m \in Message /\ m \in Elements(packet[c].msgs)
      BY <2>1, FrontType DEF Elements
    <2> HIDE DEF m
    <2>3. m \in OnWay
      BY <2>2, OnWayParts
    <2>4. CASE Take(c, m)
      BY <1>0, <1>1, <2>1, <2>2, <2>3, <2>4, TakeAnswer
    <2>5. QED
      BY <1>3, <2>1, <2>4
  <1>10. CASE Unpack(c)
    <2>1. UNCHANGED <<pc, call, result, requests, apart>>
      BY <1>10 DEF Unpack
    <2>2. AnswerInv'
      BY <1>0, <1>1, <2>1, AnswerKept DEF AfterError
    <2>3. QED
      BY <1>0, <2>1, <2>2 DEF OwnAnswer
  <1>11. QED
    BY <1>4, <1>5, <1>6, <1>7, <1>8, <1>9, <1>10 DEF CallerStep

\* A call that starts alone finds no answer and no request of an earlier one.
LEMMA StartAnswer ==
    ASSUME OwnerInv, LoneInv, NEW c \in Callers, NEW kind, NEW job, Start(c, kind, job)
    PROVE  AnswerInv' /\ OwnAnswer'
  <1>0. TypeOK /\ SoloInv /\ AnswerInv /\ OwnAnswer
    BY DEF OwnerInv, LoneInv
  <1> USE DEF server
  <1>1. /\ result' = [result EXCEPT ![c] = [NoResult EXCEPT !.kind = kind, !.call = started + 1]]
        /\ apart' => apart /\ ~Overlaps(c) /\ ~AfterError
        /\ pc[c] = "idle" /\ UNCHANGED <<requests, msg_queue, packet, inbound>>
    BY DEF Start, Idle
  <1>2. /\ result'[c].outcome = "none"
        /\ \A d \in Callers \ {c} : result'[d] = result[d]
    BY <1>0, <1>1 DEF TypeOK, NoResult
  <1>3. OwnAnswer'
    BY <1>0, <1>1, <1>2 DEF OwnAnswer
  <1>4. AnswerInv'
    <2>1. CASE apart'
      <3>1. \A d \in Callers : pc[d] \notin Waiting
        BY <1>1, <2>1 DEF Overlaps, Idle, Waiting
      <3>2. requests = {} /\ \A m \in OnWay : m.answer = "event"
        BY <1>0, <1>1, <2>1, <3>1, NobodyWaits
      <3>3. OnWay' \subseteq OnWay
        BY <1>1, OnWayParts, OnWayNext
      <3>4. QED
        BY <1>1, <3>2, <3>3, NothingLeft
    <2>2. QED
      BY <2>1 DEF AnswerInv
  <1>5. QED
    BY <1>3, <1>4

\* Every step keeps it, and no step of calls that are apart goes back to an
\* earlier message.
LEMMA LoneInvNext ==
    ASSUME OwnerInv, LoneInv, [Next]_vars
    PROVE  LoneInv' /\ (apart => handled' >= handled)
  <1>0. TypeOK /\ CallInv /\ SoloInv /\ OrderInv /\ AnswerInv /\ OwnAnswer /\ handled \in Nat
    BY DEF OwnerInv, LoneInv, TypeOK
  <1>1. SoloInv'
    BY <1>0, SoloInvNext
  <1> USE DEF task, client, server, bounds, hist
  <1>2. ASSUME UNCHANGED <<msg_queue, packet, inbound, handled, sent, apart, requests,
                           pc, call, result>>
        PROVE  LoneInv' /\ (apart => handled' >= handled)
    <2>1. OrderInv'
      BY <1>0, <1>2, OrderKept
    <2>2. OnWay' \subseteq OnWay
      BY <1>2, OnWayParts, OnWayNext
    <2>3. AnswerInv'
      BY <1>0, <1>2, <2>2, AnswerKept DEF AfterError
    <2>4. OwnAnswer'
      BY <1>0, <1>2 DEF OwnAnswer
    <2>5. QED
      BY <1>0, <1>1, <1>2, <2>1, <2>3, <2>4 DEF LoneInv
  <1>3. CASE EncryptRequest \/ EncryptResult
    <2>1. UNCHANGED <<msg_queue, packet, inbound, handled, sent, apart, requests,
                      pc, call, result>>
      BY <1>3 DEF EncryptRequest, EncryptResult, Handshake
    <2>2. QED
      BY <1>2, <2>1
  <1>4. CASE ConnectionLost \/ UNCHANGED vars
    <2>1. UNCHANGED <<msg_queue, packet, inbound, handled, sent, apart, requests,
                      pc, call, result>>
      BY <1>4 DEF ConnectionLost, vars
    <2>2. QED
      BY <1>2, <2>1
  <1>5. ASSUME NEW c \in Callers, CallerStarts(c)
        PROVE  LoneInv' /\ (apart => handled' >= handled)
    <2>0. PICK kind \in CallKinds : \E job : Start(c, kind, job)
      BY <1>5 DEF CallerStarts, call_service_method, call_service_method_non_authed, login,
                  pics_get_access_tokens, pics_get_product_info, get_depot_decryption_key,
                  check_beta_password, send_heartbeat, CallKinds, ServiceKinds, EMsgKinds,
                  CallService, CallByEMsg
    <2>1. PICK job : Start(c, kind, job)
      BY <2>0
    <2>2. (apart' => apart) /\ UNCHANGED <<msg_queue, packet, inbound, handled, sent>>
      BY <2>1 DEF Start
    <2>3. OrderInv'
      BY <1>0, <2>2, OrderKept
    <2>4. AnswerInv' /\ OwnAnswer'
      BY <2>1, StartAnswer
    <2>5. QED
      BY <1>0, <1>1, <2>2, <2>3, <2>4 DEF LoneInv
  <1>6. ASSUME NEW c \in Callers, CallerStep(c)
        PROVE  LoneInv' /\ (apart => handled' >= handled)
    <2>1. OrderInv' /\ (apart => handled <= handled')
      BY <1>0, <1>6, CallerStepOrder
    <2>2. AnswerInv' /\ OwnAnswer'
      BY <1>6, <2>1, CallerStepAnswer
    <2>3. QED
      BY <1>1, <2>1, <2>2 DEF LoneInv
  <1>7. ASSUME NEW m \in Message, m.n = sent + 1, Post(m), requests' \subseteq requests,
               m.answer # "event" => /\ \E r \in requests : m.call = r.call
                                     /\ m.more => m.answer = "product"
                                     /\ requests' # {} /\ apart /\ ~AfterError => m.more,
               UNCHANGED <<msg_queue, packet, handled, apart, pc, call, result>>
        PROVE  LoneInv' /\ (apart => handled' >= handled)
    <2>1. OrderInv'
      BY <1>0, <1>7, PostOrder
    <2>2. OnWay' \subseteq OnWay \cup {m}
      BY <1>0, <1>7, PostOnWay
    <2>3. AnswerInv'
      BY <1>0, <1>7, <2>2, PostAnswer
    <2>4. OwnAnswer'
      BY <1>0, <1>7 DEF OwnAnswer
    <2>5. QED
      BY <1>0, <1>1, <1>7, <2>1, <2>3, <2>4 DEF LoneInv
  <1>8. ASSUME NEW r \in requests, Respond(r)
        PROVE  LoneInv' /\ (apart => handled' >= handled)
    <2>1. r \in Request /\ sent + 1 \in Nat
      BY <1>0 DEF TypeOK
    <2>2. PICK body \in Bodies, more \in BOOLEAN, garbled \in BOOLEAN :
             /\ more => r.kind = "product"
             /\ requests' = IF more THEN requests ELSE requests \ {r}
             /\ Post([answer |-> EMsgOf(r.kind), job |-> r.job, call |-> r.call, n |-> sent + 1,
                      body |-> body, more |-> more, garbled |-> garbled])
      BY <1>8 DEF Respond
    <2> DEFINE m == [answer |-> EMsgOf(r.kind), job |-> r.job, call |-> r.call, n |-> sent + 1,
                     body |-> body, more |-> more, garbled |-> garbled]
    <2>3. m \in Message
      BY <2>1 DEF Message, Request, EMsgOf, CallKinds, ServiceKinds
    <2>4. /\ m.n = sent + 1 /\ m.call = r.call /\ m.more = more
          /\ more => m.answer = "product"
      BY <2>2 DEF EMsgOf, ServiceKinds
    <2> HIDE DEF m
    <2>5. Post(m) /\ requests' \subseteq requests
      BY <2>2 DEF m
    <2>6. requests' # {} /\ apart /\ ~AfterError => more
      <3>1. ASSUME apart, ~AfterError, ~more
            PROVE  requests' = {}
        <4>1. \A q \in requests : \E c \in Callers : pc[c] \in Waiting /\ call[c] = q
          BY <1>0, <3>1 DEF AnswerInv
        <4>2. \A c, d \in Callers : pc[c] # "idle" /\ pc[d] # "idle" => c = d
          BY <1>0, <3>1 DEF SoloInv, Overlaps, Idle
        <4>3. \A q \in requests : q = r
          BY <4>1, <4>2 DEF Waiting
        <4>4. QED
          BY <2>2, <3>1, <4>3
      <3>2. QED
        BY <3>1
    <2>7. UNCHANGED <<msg_queue, packet, handled, apart, pc, call, result>>
      BY <1>8 DEF Respond
    <2>8. QED
      BY <1>7, <2>3, <2>4, <2>5, <2>6, <2>7
  <1>9. CASE PostEvent
    <2> DEFINE m == [answer |-> "event", job |-> 0, call |-> 0, n |-> sent + 1,
                     body |-> "good", more |-> FALSE, garbled |-> FALSE]
    <2>1. m \in Message /\ m.n = sent + 1 /\ m.answer = "event"
      BY <1>0 DEF Message, Bodies, TypeOK
    <2> HIDE DEF m
    <2>2. /\ Post(m) /\ requests' \subseteq requests
          /\ UNCHANGED <<msg_queue, packet, handled, apart, pc, call, result>>
      BY <1>9 DEF PostEvent, m
    <2>3. QED
      BY <1>7, <2>1, <2>2
  <1>10. QED
    BY <1>3, <1>4, <1>5, <1>6, <1>8, <1>9 DEF Next

\* IInv: what OwnerInv and LoneInv say of every state, the inductive
\* invariant behind every theorem about the steam client
\* (SteamClient::recv_routed_msg and its callers).
THEOREM ClientInvariant == Spec => []IInv
  <1>1. Init => OwnerInv /\ LoneInv
    BY OwnerInvInit, LoneInvInit
  <1>2. OwnerInv /\ LoneInv /\ [Next]_vars => (OwnerInv /\ LoneInv)'
    BY OwnerInvNext, LoneInvNext
  <1>3. OwnerInv /\ LoneInv => IInv
    BY DEF LoneInv, IInv
  <1>4. QED
    BY <1>1, <1>2, <1>3, PTL DEF Spec

\* OwnAnswer: calls made one after the other, none after a failed one, each
\* return their own answer, although five of the eight kinds tell an answer
\* only by its EMsg (apps/mod.rs): the answers of an earlier call are all
\* taken before its last part, so none is left for the next.
THEOREM LoneCallsOwnAnswers == Spec => []OwnAnswer
  <1>1. IInv => OwnAnswer
    BY DEF IInv
  <1>2. QED
    BY ClientInvariant, <1>1, PTL

\* HandledInOrder: such calls handle the messages in the order in which the
\* server sent them, whatever lies in packets of their own, in Multi packets
\* and in msg_queue (recv_routed_msg, unpack_multi).
THEOREM MessagesInOrder == Spec => HandledInOrder
  <1>1. IInv => OwnerInv /\ LoneInv
    BY DEF LoneInv, IInv
  <1>2. OwnerInv /\ LoneInv /\ [Next]_vars => [apart => handled' >= handled]_vars
    BY LoneInvNext
  <1>3. QED
    BY ClientInvariant, <1>1, <1>2, PTL DEF Spec, HandledInOrder
=============================================================================
