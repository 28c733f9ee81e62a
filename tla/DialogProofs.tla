---------------------------- MODULE DialogProofs ----------------------------
(***************************************************************************)
(* What TLAPS proves of Dialog for every setting, however many requests    *)
(* and copies it allows and whatever the transport is.                     *)
(*                                                                         *)
(* A callback works on the record of its end with the field "out" added.   *)
(* Open is the set of these records.  A first group of lemmas says that    *)
(* each function of the dialog keeps a record in Open; a second one what   *)
(* it does to the ACKs and timers that the properties are about; a third   *)
(* one follows the answer to the first INVITE and its ACK over TCP.        *)
(*                                                                         *)
(* The rest is about a call over TCP of which both ends answer INVITEs at  *)
(* once.  Messages are told apart by kind, inboxes by the order of their   *)
(* kinds.  Talk says what an end, its peer and the two inboxes may be like *)
(* at the same time, first shown of what is read and sent alone, then of   *)
(* the functions of the dialog.                                            *)
(***************************************************************************)
EXTENDS Dialog, TLAPS

\* The record of an end in the course of a callback.
Open ==
    [state      : {"EARLY", "CONFIRMED", "TERMINATED"},
     previous   : {"EARLY", "CONFIRMED"},
     needsAck   : BOOLEAN,
     localCseq  : Nat,
     remoteCseq : Nat,
     outInvite  : Nat,
     outAck     : Nat,
     retrans    : BOOLEAN,
     copies     : 0..MaxCopies,
     queued     : Nat,
     last       : Nat,
     clients    : SUBSET [method : Requests, cseq : Nat,
                          state : Transient \cup {"ACCEPTED"}],
     offered    : Nat,
     op         : {"ALIVE", "TERMINATING", "TERMINATED"},
     deferred   : 0..2,
     byeSent    : BOOLEAN,
     asked      : 0..MaxRequests,
     misplaced  : BOOLEAN,
     out        : Seq(Message)]

\* What an inbox may hold.
Inbox == IF Ordered THEN Seq(Message) ELSE SUBSET Message

\* The record d of a callback and the record e of an end agree.
Agrees(d, e) ==
    /\ d.state = e.state /\ d.previous = e.previous
    /\ d.needsAck = e.needsAck
    /\ d.localCseq = e.localCseq /\ d.remoteCseq = e.remoteCseq
    /\ d.outInvite = e.outInvite /\ d.outAck = e.outAck
    /\ d.retrans = e.retrans /\ d.copies = e.copies
    /\ d.queued = e.queued /\ d.last = e.last /\ d.clients = e.clients
    /\ d.offered = e.offered /\ d.op = e.op /\ d.deferred = e.deferred
    /\ d.byeSent = e.byeSent /\ d.asked = e.asked /\ d.misplaced = e.misplaced

-----------------------------------------------------------------------------
(* Opening and closing the record of an end.                               *)

\* Each end has one peer.
LEMMA Peers == Peer("A") = "B" /\ Peer("B") = "A"
BY DEF Peer, Side

\* A callback starts with what its end keeps and nothing sent.
LEMMA Opens ==
    ASSUME TypeOK, NEW s \in Side
    PROVE  /\ Begin(s) \in Open
           /\ Agrees(Begin(s), end[s])
           /\ Begin(s).out = <<>>
<1> DEFINE e == end[s]
<1>1. e \in End
  BY DEF TypeOK
<1>2. DOMAIN e = {"state", "previous", "needsAck", "localCseq", "remoteCseq",
        "outInvite", "outAck", "retrans", "copies", "queued", "last", "clients",
        "offered", "op", "deferred", "byeSent", "asked", "misplaced"}
  BY <1>1 DEF End
<1>3. Begin(s) = [state |-> e.state, previous |-> e.previous,
        needsAck |-> e.needsAck, localCseq |-> e.localCseq,
        remoteCseq |-> e.remoteCseq, outInvite |-> e.outInvite,
        outAck |-> e.outAck, retrans |-> e.retrans, copies |-> e.copies,
        queued |-> e.queued, last |-> e.last, clients |-> e.clients,
        offered |-> e.offered, op |-> e.op, deferred |-> e.deferred,
        byeSent |-> e.byeSent, asked |-> e.asked, misplaced |-> e.misplaced,
        out |-> <<>>]
  BY <1>2 DEF Begin
<1>4. <<>> \in Seq(Message)
  OBVIOUS
<1> HIDE DEF e
<1>5. Begin(s) \in Open
  BY <1>1, <1>3, <1>4 DEF End, Open
<1>6. Agrees(Begin(s), e) /\ Begin(s).out = <<>>
  BY <1>3 DEF Agrees
<1> QED
  BY <1>5, <1>6 DEF e

\* A callback leaves its end what its record holds but for "out".
LEMMA Closes ==
    ASSUME NEW e \in End, NEW r \in Open
    PROVE  /\ [f \in DOMAIN e |-> r[f]] \in End
           /\ Agrees(r, [f \in DOMAIN e |-> r[f]])
<1>1. DOMAIN e = {"state", "previous", "needsAck", "localCseq", "remoteCseq",
        "outInvite", "outAck", "retrans", "copies", "queued", "last", "clients",
        "offered", "op", "deferred", "byeSent", "asked", "misplaced"}
  BY DEF End
<1>2. [f \in DOMAIN e |-> r[f]] = [state |-> r.state, previous |-> r.previous,
        needsAck |-> r.needsAck, localCseq |-> r.localCseq,
        remoteCseq |-> r.remoteCseq, outInvite |-> r.outInvite,
        outAck |-> r.outAck, retrans |-> r.retrans, copies |-> r.copies,
        queued |-> r.queued, last |-> r.last, clients |-> r.clients,
        offered |-> r.offered, op |-> r.op, deferred |-> r.deferred,
        byeSent |-> r.byeSent, asked |-> r.asked, misplaced |-> r.misplaced]
  BY <1>1
<1> QED
  BY <1>2, SMTT(60) DEF End, Open, Agrees

\* Messages put in an inbox are of its type.
LEMMA Enqueued ==
    ASSUME NEW q \in Inbox, NEW ms \in Seq(Message)
    PROVE  Enqueue(q, ms) \in Inbox
<1>1. CASE Ordered
  BY <1>1 DEF Inbox, Enqueue
<1>2. CASE ~Ordered
  <2>1. ToSet(ms) \subseteq Message
    BY DEF ToSet
  <2> QED
    BY <1>2, <2>1 DEF Inbox, Enqueue
<1> QED
  BY <1>1, <1>2

\* What a callback does to the two ends and their inboxes.
LEMMA Ran ==
    ASSUME TypeOK, NEW s \in Side, NEW inbox \in Inbox, NEW d \in Open,
           Run(s, inbox, d)
    PROVE  /\ TypeOK'
           /\ Agrees(d, end'[s])
           /\ end'[Peer(s)] = end[Peer(s)]
           /\ net'[s] = inbox
           /\ net'[Peer(s)] = Enqueue(net[Peer(s)], d.out)
           /\ setting' = setting
<1> DEFINE e == [f \in DOMAIN end[s] |-> d[f]]
<1>1. Peer(s) \in Side /\ Peer(s) # s
  BY Peers DEF Side
<1>2. end[s] \in End /\ end \in [Side -> End] /\ net \in [Side -> Inbox]
  BY DEF TypeOK, Inbox
<1>3. e \in End /\ Agrees(d, e)
  BY <1>2, Closes
<1>4. /\ end' = [end EXCEPT ![s] = e]
      /\ net' = [net EXCEPT ![s] = inbox,
                            ![Peer(s)] = Enqueue(net[Peer(s)], d.out)]
      /\ setting' = setting
  BY <1>1, <1>2 DEF Run
<1> HIDE DEF e
<1>5. Enqueue(net[Peer(s)], d.out) \in Inbox
  <2>1. d.out \in Seq(Message)
    BY DEF Open
  <2> QED
    BY <1>1, <1>2, <2>1, Enqueued
<1>6. /\ end' \in [Side -> End] /\ end'[s] = e /\ end'[Peer(s)] = end[Peer(s)]
  BY <1>1, <1>2, <1>3, <1>4
<1>7. /\ net' \in [Side -> Inbox] /\ net'[s] = inbox
      /\ net'[Peer(s)] = Enqueue(net[Peer(s)], d.out)
  BY <1>1, <1>2, <1>4, <1>5
<1>8. End' = End /\ Inbox' = Inbox
  BY <1>4 DEF End, Inbox, MaxCopies, MaxRequests, Ordered
<1>9. TypeOK'
  BY <1>4, <1>6, <1>7, <1>8 DEF TypeOK, Inbox
<1> QED
  BY <1>3, <1>4, <1>6, <1>7, <1>9
-----------------------------------------------------------------------------
(* The functions of the dialog keep its record in Open.                    *)

\* What a function that only sends, queues or counts leaves alone.
Kept(d, u) ==
    /\ u.state = d.state /\ u.previous = d.previous
    /\ u.needsAck = d.needsAck /\ u.retrans = d.retrans
    /\ u.remoteCseq = d.remoteCseq /\ u.offered = d.offered
    /\ u.outInvite = d.outInvite /\ u.outAck = d.outAck
    /\ u.op = d.op /\ u.deferred = d.deferred
    /\ d.byeSent => u.byeSent

\* The requests and the responses of this module are messages.
LEMMA Messages ==
    /\ \A method \in Requests \cup {"ACK"}, c \in Nat :
            Request(method, c) \in Message
    /\ \A method \in Requests \cup {"ACK"}, c \in Nat, code \in Codes :
            Response(method, c, code) \in Message
BY DEF Request, Response, Message

\* A message is sent and nothing else.
LEMMA Puts ==
    ASSUME NEW d \in Open, NEW m \in Message
    PROVE  LET u == Put(d, m) IN
           /\ u \in Open /\ Agrees(d, u) /\ u.out = Append(d.out, m)
<1>1. Append(d.out, m) \in Seq(Message)
  BY DEF Open
<1> QED
  BY <1>1 DEF Put, Open, Agrees

\* A message is sent.
LEMMA PutOpen ==
    ASSUME NEW d \in Open, NEW m \in Message
    PROVE  /\ Put(d, m) \in Open
           /\ Kept(d, Put(d, m))
           /\ Put(d, m).localCseq = d.localCseq
           /\ Put(d, m).queued = d.queued
           /\ Put(d, m).out = Append(d.out, m)
<1>1. Append(d.out, m) \in Seq(Message)
  BY DEF Open
<1> QED
  BY <1>1 DEF Put, Open, Kept

\* A request is made and sent.
LEMMA SendOpen ==
    ASSUME NEW d \in Open, NEW method \in Requests
    PROVE  /\ send_request(d, method) \in Open
           /\ Kept(d, send_request(d, method))
           /\ method = "BYE" => send_request(d, method).byeSent
<1> DEFINE c == d.localCseq + 1
           t == [method |-> method, cseq |-> c, state |-> "TRYING"]
           u == [d EXCEPT !.localCseq = c, !.last = c,
                          !.clients = @ \cup {t},
                          !.byeSent = @ \/ method = "BYE"]
<1>1. c \in Nat
  BY DEF Open
<1>2. t \in [method : Requests, cseq : Nat, state : Transient \cup {"ACCEPTED"}]
  BY <1>1 DEF Transient
<1> HIDE DEF c, t
<1>3. (d.byeSent \/ method = "BYE") \in BOOLEAN
  OBVIOUS
<1>4. u \in Open
  BY <1>1, <1>2, <1>3, ZenonT(90) DEF Open
<1>5. Kept(d, u) /\ (method = "BYE" => u.byeSent)
  BY DEF Open, Kept
<1>6. Request(method, c) \in Message
  BY <1>1, Messages
<1>7. send_request(d, method) = Put(u, Request(method, c))
  BY DEF send_request, c, t
<1> HIDE DEF u
<1> QED
  BY <1>4, <1>5, <1>6, <1>7, PutOpen DEF Kept

\* The queue is processed: at most one request leaves it, and none while an
\* ACK is awaited.
LEMMA ProcessQueueOpen ==
    ASSUME NEW d \in Open
    PROVE  /\ belle_sip_dialog_process_queue(d) \in Open
           /\ Kept(d, belle_sip_dialog_process_queue(d))
           /\ d.needsAck \/ d.queued = 0 => belle_sip_dialog_process_queue(d) = d
<1>1. CASE d.queued > 0 /\ ~belle_sip_dialog_request_pending(d)
  <2> DEFINE u == [d EXCEPT !.queued = @ - 1]
  <2>1. d.queued - 1 \in Nat
    BY <1>1, SMTT(60) DEF Open
  <2>2. u \in Open /\ Kept(d, u)
    BY <2>1 DEF Open, Kept
  <2>3. belle_sip_dialog_process_queue(d) = send_request(u, "INFO")
    BY <1>1 DEF belle_sip_dialog_process_queue
  <2>4. ~(d.needsAck \/ d.queued = 0)
    BY <1>1 DEF belle_sip_dialog_request_pending, Open
  <2> HIDE DEF u
  <2> QED
    BY <2>2, <2>3, <2>4, SendOpen DEF Requests, Kept
<1>2. CASE ~(d.queued > 0 /\ ~belle_sip_dialog_request_pending(d))
  BY <1>2 DEF belle_sip_dialog_process_queue, Kept
<1> QED
  BY <1>1, <1>2

\* A request is queued, or sent when nothing is pending.
LEMMA SendQueuedOpen ==
    ASSUME NEW d \in Open
    PROVE  /\ send_queued_request(d) \in Open
           /\ Kept(d, send_queued_request(d))
<1>1. d.queued + 1 \in Nat
  BY DEF Open
<1>2. [d EXCEPT !.queued = @ + 1] \in Open /\ Kept(d, [d EXCEPT !.queued = @ + 1])
  BY <1>1 DEF Open, Kept
<1> QED
  BY <1>2, SendOpen DEF send_queued_request, Requests

\* A dialog is deleted: its timers stop, and whoever still waits for an ACK
\* must have been told otherwise before.
LEMMA DeleteOpen ==
    ASSUME NEW d \in Open, d.state # "TERMINATED"
    PROVE  LET u == belle_sip_dialog_delete(d) IN
           /\ u \in Open
           /\ u.state = "TERMINATED" /\ ~u.retrans
           /\ u.needsAck = d.needsAck /\ u.offered = d.offered
           /\ u.outInvite = d.outInvite /\ u.outAck = d.outAck
           /\ u.op = d.op /\ u.byeSent = d.byeSent
<1>1. d.state \in {"EARLY", "CONFIRMED"} /\ 0 \in Nat /\ 2 \in 0..2
  BY DEF Open
<1>2. belle_sip_dialog_delete(d) \in Open
  BY <1>1 DEF belle_sip_dialog_delete, Open
<1> QED
  BY <1>2 DEF belle_sip_dialog_delete, Open

\* Who waits for an ACK, or repeats a 200 Ok until one comes, is confirmed.
Waits(d) == d.needsAck \/ d.retrans => d.state = "CONFIRMED"

\* A dialog past its early state stays so, or is deleted for good, and its
\* timers are not armed again.
Onward(d, u) == d.state # "EARLY" =>
    /\ u.state # "EARLY"
    /\ d.state = "TERMINATED" /\ ~d.retrans => u.state = "TERMINATED"
    /\ ~d.retrans => ~u.retrans

\* What no update of the dialog touches.
Aside(d, u) ==
    /\ u.op = d.op /\ u.offered = d.offered /\ u.outAck = d.outAck
    /\ d.byeSent => u.byeSent

\* The end of the first INVITE: only the end that answered it repeats the
\* 200 Ok, only the end that sent it has a response to acknowledge.
LEMMA EstablishOpen ==
    ASSUME NEW d \in Open, d.state = "EARLY", Waits(d),
           NEW cseq \in Nat, NEW code \in Codes, NEW isServer \in BOOLEAN
    PROVE  LET u == belle_sip_dialog_establish(d, cseq, code, isServer) IN
           /\ u \in Open /\ Waits(u) /\ Aside(d, u)
           /\ code = 200 /\ ~isServer =>
                /\ u.state = "CONFIRMED" /\ u.needsAck /\ ~u.retrans
                /\ u.outInvite = cseq /\ u.localCseq = cseq
                /\ u.queued = d.queued /\ u.out = d.out
           /\ code # 200 \/ isServer => u.outInvite = d.outInvite
           /\ ~isServer => ~u.retrans
<1> DEFINE u == belle_sip_dialog_establish(d, cseq, code, isServer)
<1>1. ~d.needsAck /\ ~d.retrans
  BY DEF Waits, Open
<1>2. CASE code = 100
  <2>1. u = d
    BY <1>2 DEF belle_sip_dialog_establish
  <2> QED
    BY <1>1, <1>2, <2>1 DEF Waits, Aside
<1>3. CASE code \in {481, 491, 500, 603}
  <2>1. u = belle_sip_dialog_delete(d)
    BY <1>3 DEF belle_sip_dialog_establish
  <2> HIDE DEF u
  <2>2. u \in Open /\ ~u.needsAck /\ ~u.retrans /\ u.outInvite = d.outInvite
        /\ u.outAck = d.outAck /\ u.op = d.op /\ u.byeSent = d.byeSent
        /\ u.offered = d.offered
    BY <1>1, <2>1, DeleteOpen
  <2> QED
    BY <1>3, <2>2 DEF Waits, Aside, u
<1>4. CASE code = 200 /\ isServer
  <2>1. u = [d EXCEPT !.state = "CONFIRMED", !.needsAck = TRUE,
                      !.remoteCseq = cseq, !.retrans = TRUE]
    BY <1>4 DEF belle_sip_dialog_establish
  <2> HIDE DEF u
  <2>2. u \in Open
    BY <2>1, ZenonT(90) DEF Open
  <2>3. /\ u.state = "CONFIRMED" /\ u.outInvite = d.outInvite
        /\ u.outAck = d.outAck /\ u.op = d.op /\ u.offered = d.offered
        /\ u.byeSent = d.byeSent
    BY <2>1 DEF Open
  <2> QED
    BY <1>4, <2>2, <2>3, ZenonT(90) DEF Waits, Aside, u
<1>5. CASE code = 200 /\ ~isServer
  <2>1. u = [d EXCEPT !.state = "CONFIRMED", !.needsAck = TRUE,
                      !.localCseq = cseq, !.outInvite = cseq]
    BY <1>5 DEF belle_sip_dialog_establish
  <2> HIDE DEF u
  <2>2. u \in Open
    BY <2>1 DEF Open
  <2>3. /\ u.state = "CONFIRMED" /\ u.needsAck /\ u.retrans = d.retrans
        /\ u.outInvite = cseq /\ u.localCseq = cseq
        /\ u.outAck = d.outAck /\ u.op = d.op /\ u.offered = d.offered
        /\ u.byeSent = d.byeSent /\ u.queued = d.queued /\ u.out = d.out
    BY <2>1 DEF Open
  <2> QED
    BY <1>1, <1>5, <2>2, <2>3 DEF Waits, Aside, u
<1> QED
  BY <1>2, <1>3, <1>4, <1>5 DEF Codes

\* A BYE has its final response.
LEMMA ByeAnsweredOpen ==
    ASSUME NEW d \in Open, d.state = "CONFIRMED"
    PROVE  /\ ByeAnswered(d) \in Open
           /\ Waits(ByeAnswered(d)) /\ Aside(d, ByeAnswered(d))
           /\ ByeAnswered(d).state = "TERMINATED" /\ ~ByeAnswered(d).retrans
           /\ ByeAnswered(d).outInvite = d.outInvite
<1> DEFINE u == [d EXCEPT !.needsAck = FALSE]
<1>1. u \in Open /\ ~u.needsAck /\ u.state = "CONFIRMED" /\ Kept(d, [u EXCEPT !.needsAck = d.needsAck])
  BY ZenonT(90) DEF Open, Kept
<1>2. Aside(d, u) /\ u.outInvite = d.outInvite
  BY DEF Open, Aside
<1>3. ByeAnswered(d) = belle_sip_dialog_delete(u)
  BY DEF ByeAnswered
<1> HIDE DEF u
<1> QED
  BY <1>1, <1>2, <1>3, DeleteOpen DEF Waits, Aside

\* The dialog is updated as a response is sent.
LEMMA UasOpen ==
    ASSUME NEW d \in Open, Waits(d), NEW s \in Side,
           NEW m \in Message, m.code \in Codes
    PROVE  LET u == update_as_uas(s, d, m) IN
           /\ u \in Open /\ Waits(u) /\ Aside(d, u) /\ Onward(d, u)
           /\ ~(s = "A" /\ d.state = "EARLY" /\ m.method = "INVITE" /\ m.code = 200)
                => u.outInvite = d.outInvite
           /\ s = "A" /\ ~d.retrans => ~u.retrans
<1> DEFINE r == update_as_uas(s, d, m)
           u == [d EXCEPT !.last = Settled, !.remoteCseq = m.cseq]
<1>1. m.cseq \in Nat /\ Settled \in Nat
  BY DEF Message, Settled
<1>2. /\ u \in Open /\ Waits(u) /\ Aside(d, u)
      /\ u.state = d.state /\ u.outInvite = d.outInvite
      /\ u.retrans = d.retrans /\ u.needsAck = d.needsAck
  BY <1>1 DEF Open, Waits, Aside
<1>3. CASE d.state = "EARLY" /\ m.method = "INVITE"
  <2> DEFINE v == belle_sip_dialog_establish(u, m.cseq, m.code, s = "B")
  <2>1. r = belle_sip_dialog_process_queue(v)
    BY <1>3 DEF update_as_uas
  <2>2. \A b \in BOOLEAN : LET w == belle_sip_dialog_establish(u, m.cseq, m.code, b) IN
          /\ w \in Open /\ Waits(w) /\ Aside(u, w)
          /\ m.code # 200 \/ b => w.outInvite = u.outInvite
          /\ ~b => ~w.retrans
    <3> HIDE DEF u
    <3> SUFFICES ASSUME NEW b \in BOOLEAN
                 PROVE  LET w == belle_sip_dialog_establish(u, m.cseq, m.code, b) IN
                        /\ w \in Open /\ Waits(w) /\ Aside(u, w)
                        /\ m.code # 200 \/ b => w.outInvite = u.outInvite
                        /\ ~b => ~w.retrans
      OBVIOUS
    <3> QED
      BY <1>1, <1>2, <1>3, EstablishOpen
  <2>3. (s = "B") \in BOOLEAN
    OBVIOUS
  <2>4. /\ v \in Open /\ Waits(v) /\ Aside(u, v)
        /\ m.code # 200 \/ s = "B" => v.outInvite = u.outInvite
        /\ s = "A" => ~v.retrans
    BY <2>2, <2>3
  <2> HIDE DEF u, v
  <2>5. r \in Open /\ Kept(v, r)
    BY <2>1, <2>4, ProcessQueueOpen
  <2> QED
    BY <1>2, <1>3, <2>4, <2>5 DEF Side, Kept, Waits, Aside, Onward
<1>4. CASE d.state = "CONFIRMED" /\ m.method = "BYE"
  <2>1. r = ByeAnswered(u)
    BY <1>4 DEF update_as_uas
  <2> HIDE DEF u
  <2> QED
    BY <1>2, <1>4, <2>1, ByeAnsweredOpen DEF Aside, Onward
<1>5. CASE d.state = "CONFIRMED" /\ m.method = "INVITE"
  <2> DEFINE b == m.code < 300
             v == [u EXCEPT !.needsAck = b]
  <2>1. r = belle_sip_dialog_process_queue(v)
    BY <1>5 DEF update_as_uas
  <2>2. b \in BOOLEAN
    OBVIOUS
  <2> HIDE DEF u, b
  <2>3. v \in Open /\ v.state = "CONFIRMED" /\ Aside(u, v)
        /\ v.outInvite = u.outInvite /\ v.retrans = u.retrans
    BY <1>2, <1>5, <2>2, ZenonT(90) DEF Open, Aside
  <2> HIDE DEF v
  <2>4. r \in Open /\ Kept(v, r)
    BY <2>1, <2>3, ProcessQueueOpen
  <2> QED
    BY <1>2, <1>5, <2>3, <2>4 DEF Kept, Waits, Aside, Onward
<1>6. CASE ~(d.state = "EARLY" /\ m.method = "INVITE")
           /\ ~(d.state = "CONFIRMED" /\ m.method \in {"BYE", "INVITE"})
  <2>1. r = belle_sip_dialog_process_queue(u)
    BY <1>6 DEF update_as_uas
  <2> HIDE DEF u
  <2>2. r \in Open /\ Kept(u, r)
    BY <1>2, <2>1, ProcessQueueOpen
  <2> QED
    BY <1>2, <2>2 DEF Kept, Waits, Aside, Onward
<1> QED
  BY <1>3, <1>4, <1>5, <1>6

\* Every 2xx has its ACK, or a BYE was sent.
Acked(d) == d.outInvite # d.outAck => d.byeSent

\* The dialog is updated as a response is received: when that leaves an
\* INVITE of ours to acknowledge, the dialog says that it needs an ACK.
LEMMA UacOpen ==
    ASSUME NEW d \in Open, Waits(d), NEW s \in Side,
           NEW m \in Message, m.code \in Codes
    PROVE  LET u == update_as_uac(s, d, m) IN
           /\ u \in Open /\ Waits(u) /\ Aside(d, u) /\ Onward(d, u)
           /\ \/ u.outInvite = d.outInvite
              \/ IsRetransmission(d, m) /\ u.outInvite = d.outAck
              \/ m.method = "INVITE" /\ u.needsAck
           /\ s = "A" /\ ~d.retrans => ~u.retrans
<1> DEFINE r == update_as_uac(s, d, m)
           u == [d EXCEPT !.last = m.cseq]
<1>1. m.cseq \in Nat /\ m.method \in Requests \cup {"ACK"}
  BY DEF Message
<1>2. /\ u \in Open /\ Waits(u) /\ Aside(d, u)
      /\ u.state = d.state /\ u.outInvite = d.outInvite
      /\ u.retrans = d.retrans /\ u.needsAck = d.needsAck
  BY <1>1 DEF Open, Waits, Aside
<1>3. CASE d.state = "EARLY" /\ m.method = "INVITE"
  <2> DEFINE v == belle_sip_dialog_establish(u, m.cseq, m.code, s = "B")
  <2>1. r = belle_sip_dialog_process_queue(v)
    BY <1>3 DEF update_as_uac, IsRetransmission
  <2>2. \A b \in BOOLEAN : LET w == belle_sip_dialog_establish(u, m.cseq, m.code, b) IN
          /\ w \in Open /\ Waits(w) /\ Aside(u, w)
          /\ m.code = 200 /\ ~b => w.needsAck
          /\ m.code # 200 \/ b => w.outInvite = u.outInvite
          /\ ~b => ~w.retrans
    <3> HIDE DEF u
    <3> SUFFICES ASSUME NEW b \in BOOLEAN
                 PROVE  LET w == belle_sip_dialog_establish(u, m.cseq, m.code, b) IN
                        /\ w \in Open /\ Waits(w) /\ Aside(u, w)
                        /\ m.code = 200 /\ ~b => w.needsAck
                        /\ m.code # 200 \/ b => w.outInvite = u.outInvite
                        /\ ~b => ~w.retrans
      OBVIOUS
    <3> QED
      BY <1>1, <1>2, <1>3, EstablishOpen
  <2>3. (s = "B") \in BOOLEAN
    OBVIOUS
  <2>4. /\ v \in Open /\ Waits(v) /\ Aside(u, v)
        /\ v.needsAck \/ v.outInvite = u.outInvite
        /\ s = "A" => ~v.retrans
    BY <2>2, <2>3
  <2> HIDE DEF u, v
  <2>5. r \in Open /\ Kept(v, r)
    BY <2>1, <2>4, ProcessQueueOpen
  <2> QED
    BY <1>2, <1>3, <2>4, <2>5 DEF Side, Kept, Waits, Aside, Onward
<1>4. CASE d.state = "CONFIRMED" /\ m.method = "BYE"
  <2>1. r = ByeAnswered(u)
    BY <1>4 DEF update_as_uac, IsRetransmission
  <2> HIDE DEF u
  <2> QED
    BY <1>2, <1>4, <2>1, ByeAnsweredOpen DEF Aside, Onward
<1>5. CASE IsRetransmission(d, m)
  <2> DEFINE v == [u EXCEPT !.outInvite = m.cseq]
  <2>0. d.state = "CONFIRMED" /\ m.method = "INVITE" /\ d.outAck = m.cseq
    BY <1>5 DEF IsRetransmission
  <2>1. r = Put(v, Request("ACK", m.cseq))
    BY <1>5, <2>0 DEF update_as_uac, IsRetransmission, Codes
  <2>2. Request("ACK", m.cseq) \in Message
    BY <1>1, Messages
  <2> HIDE DEF u
  <2>3. v \in Open /\ v.state = "CONFIRMED" /\ Aside(u, v)
        /\ v.outInvite = m.cseq /\ v.retrans = u.retrans
    BY <1>1, <1>2, <2>0 DEF Open, Aside
  <2> HIDE DEF v
  <2>4. r \in Open /\ Kept(v, r)
    BY <2>1, <2>2, <2>3, PutOpen
  <2> QED
    BY <1>2, <1>5, <2>0, <2>3, <2>4 DEF Kept, Waits, Aside, Onward
<1>6. CASE d.state = "CONFIRMED" /\ m.method = "INVITE" /\ m.code = 200
           /\ ~IsRetransmission(d, m)
  <2>1. r = [u EXCEPT !.outInvite = m.cseq, !.needsAck = TRUE]
    BY <1>6 DEF update_as_uac
  <2> HIDE DEF u, r
  <2>2. r \in Open /\ r.state = "CONFIRMED" /\ Aside(u, r)
        /\ r.needsAck /\ r.retrans = u.retrans
    BY <1>1, <1>2, <1>6, <2>1, ZenonT(90) DEF Open, Aside
  <2> QED
    BY <1>2, <1>6, <2>2 DEF Kept, Waits, Aside, Onward, r
<1>7. CASE d.state = "CONFIRMED" /\ m.method = "INVITE" /\ m.code >= 300
  <2> DEFINE v == [u EXCEPT !.needsAck = FALSE]
  <2>1. r = belle_sip_dialog_process_queue(v)
    BY <1>7 DEF update_as_uac, IsRetransmission, Codes
  <2> HIDE DEF u
  <2>3. v \in Open /\ v.state = "CONFIRMED" /\ Aside(u, v)
        /\ v.outInvite = u.outInvite /\ v.retrans = u.retrans
    BY <1>2, <1>7, ZenonT(90) DEF Open, Aside
  <2> HIDE DEF v
  <2>4. r \in Open /\ Kept(v, r)
    BY <2>1, <2>3, ProcessQueueOpen
  <2> QED
    BY <1>2, <1>7, <2>3, <2>4 DEF Kept, Waits, Aside, Onward
<1>8. CASE /\ ~(d.state = "EARLY" /\ m.method = "INVITE")
           /\ ~(d.state = "CONFIRMED" /\ m.method = "BYE")
           /\ ~(d.state = "CONFIRMED" /\ m.method = "INVITE" /\ m.code # 100)
  <2>1. r = belle_sip_dialog_process_queue(u)
    BY <1>8 DEF update_as_uac, IsRetransmission, Codes
  <2> HIDE DEF u
  <2>2. r \in Open /\ Kept(u, r)
    BY <1>2, <2>1, ProcessQueueOpen
  <2> QED
    BY <1>2, <2>2 DEF Kept, Waits, Aside, Onward
<1> QED
  BY <1>3, <1>4, <1>5, <1>6, <1>7, <1>8 DEF Codes

\* An ACK is made if it is one for the latest CSeq, and the dialog then needs
\* none any more.
LEMMA AckOpen ==
    ASSUME NEW d \in Open, Waits(d)
    PROVE  LET u == ack_response(d) IN
           /\ u \in Open /\ Waits(u) /\ u.state = d.state
           /\ u.op = d.op /\ u.offered = d.offered /\ u.retrans = d.retrans
           /\ u.outInvite = d.outInvite /\ (d.byeSent => u.byeSent)
           /\ \/ u.outAck = d.outAck /\ u.needsAck = d.needsAck
              \/ u.outAck = d.outInvite
<1> DEFINE u == ack_response(d)
<1>1. CASE d.outInvite # d.localCseq \/ ~d.needsAck
  BY <1>1 DEF ack_response
<1>2. CASE d.outInvite = d.localCseq /\ d.needsAck
  <2> DEFINE v == [d EXCEPT !.needsAck = FALSE, !.outAck = d.localCseq]
             w == Put(v, Request("ACK", d.localCseq))
  <2>1. u = belle_sip_dialog_process_queue(w)
    BY <1>2 DEF ack_response
  <2>2. d.localCseq \in Nat
    BY DEF Open
  <2>3. Request("ACK", d.localCseq) \in Message
    BY <2>2, Messages
  <2>4. /\ v \in Open /\ v.outAck = d.localCseq /\ ~v.needsAck
        /\ v.state = d.state /\ v.op = d.op /\ v.offered = d.offered
        /\ v.retrans = d.retrans /\ v.outInvite = d.outInvite
        /\ v.byeSent = d.byeSent
    BY <2>2 DEF Open
  <2> HIDE DEF v
  <2>5. w \in Open /\ Kept(v, w)
    BY <2>3, <2>4, PutOpen
  <2> HIDE DEF w
  <2>6. u \in Open /\ Kept(w, u)
    BY <2>1, <2>5, ProcessQueueOpen
  <2> HIDE DEF u
  <2>7. Waits(u)
    BY <2>4, <2>5, <2>6 DEF Waits, Kept
  <2> QED
    BY <1>2, <2>4, <2>5, <2>6, <2>7 DEF Kept, u
<1> QED
  BY <1>1, <1>2

-----------------------------------------------------------------------------
(* The callbacks keep the record of their end in Open, its timers waiting  *)
(* for an ACK and every 2xx acknowledged.                                  *)

\* What holds of the record of an end s at any time: the caller repeats no
\* 200 Ok and has nothing to answer before the callee did.
Fine(s, d) ==
    /\ Waits(d) /\ Acked(d)
    /\ s = "A" => ~d.retrans
    /\ s = "A" /\ d.state = "EARLY" => d.offered = 0

\* What is only sent, queued or counted leaves a record fine.
LEMMA KeptFine ==
    ASSUME NEW s, NEW d, NEW u, Fine(s, d), Kept(d, u)
    PROVE  Fine(s, u) /\ Onward(d, u)
BY DEF Fine, Kept, Waits, Acked, Onward

\* Steps onward add up.
LEMMA OnwardOn ==
    ASSUME NEW d, NEW u, NEW v, Onward(d, u), Onward(u, v)
    PROVE  Onward(d, v)
BY DEF Onward

\* The operation is told of a response.
LEMMA ProcessResponseOpen ==
    ASSUME NEW s, NEW d \in Open, Fine(s, d), NEW m
    PROVE  LET u == call_process_response(d, m) IN
           /\ u \in Open /\ Fine(s, u) /\ Onward(d, u)
<1> DEFINE u == call_process_response(d, m)
<1>1. CASE d.state = "CONFIRMED" /\ d.op = "TERMINATING"
  <2>1. u = send_request(d, "BYE")
    BY <1>1 DEF call_process_response
  <2> QED
    BY <2>1, SendOpen, KeptFine DEF Requests
<1>2. CASE d.state = "CONFIRMED" /\ d.op = "ALIVE"
           /\ m.method = "INVITE" /\ m.code \in 200..299
  <2>1. u = ack_response(d)
    BY <1>2 DEF call_process_response
  <2> HIDE DEF u
  <2>2. /\ u \in Open /\ Waits(u) /\ u.state = d.state
        /\ u.offered = d.offered /\ u.retrans = d.retrans
        /\ u.outInvite = d.outInvite /\ (d.byeSent => u.byeSent)
        /\ u.outAck = d.outAck \/ u.outAck = d.outInvite
    BY <2>1, AckOpen DEF Fine
  <2> QED
    BY <2>2 DEF Fine, Acked, Onward, u
<1>3. CASE ~(d.state = "CONFIRMED" /\ d.op = "TERMINATING")
           /\ ~(d.state = "CONFIRMED" /\ d.op = "ALIVE"
                /\ m.method = "INVITE" /\ m.code \in 200..299)
  BY <1>3 DEF call_process_response, Onward
<1> QED
  BY <1>1, <1>2, <1>3

\* A 2xx left without ACK is hung up.
LEMMA CheckOpen ==
    ASSUME NEW s, NEW d \in Open, NEW m,
           Waits(d), s = "A" => ~d.retrans,
           s = "A" /\ d.state = "EARLY" => d.offered = 0,
           Acked(d) \/ (m.method = "INVITE" /\ d.needsAck)
    PROVE  LET u == belle_sip_dialog_check_ack_sent(d, m) IN
           u \in Open /\ Fine(s, u) /\ Onward(d, u)
<1>1. CASE m.method = "INVITE" /\ d.needsAck
  <2> DEFINE u == send_request(d, "BYE")
  <2>1. u \in Open /\ Kept(d, u) /\ u.byeSent
    BY SendOpen DEF Requests
  <2>2. belle_sip_dialog_check_ack_sent(d, m) = u
    BY <1>1 DEF belle_sip_dialog_check_ack_sent
  <2> HIDE DEF u
  <2> QED
    BY <2>1, <2>2 DEF Fine, Kept, Waits, Acked, Onward
<1>2. CASE ~(m.method = "INVITE" /\ d.needsAck)
  BY <1>2 DEF belle_sip_dialog_check_ack_sent, Fine, Onward
<1> QED
  BY <1>1, <1>2

\* A response is received.
LEMMA NotifyOpen ==
    ASSUME NEW s \in Side, NEW d \in Open, Fine(s, d),
           NEW m \in Message, m.code \in Codes
    PROVE  LET n == notify_response(s, d, m) IN
           n \in Open /\ Fine(s, n) /\ Onward(d, n)
<1> DEFINE u == update_as_uac(s, d, m)
           v == call_process_response(u, m)
           w == belle_sip_dialog_check_ack_sent(v, m)
<1>1. /\ u \in Open /\ Waits(u) /\ Aside(d, u) /\ Onward(d, u)
      /\ \/ u.outInvite = d.outInvite
         \/ IsRetransmission(d, m) /\ u.outInvite = d.outAck
         \/ m.method = "INVITE" /\ u.needsAck
      /\ s = "A" => ~u.retrans
  BY UacOpen DEF Fine
<1> HIDE DEF u
<1>2. s = "A" /\ u.state = "EARLY" => u.offered = 0
  BY <1>1 DEF Aside, Onward, Fine
<1>3. CASE IsRetransmission(d, m)
  <2>1. notify_response(s, d, m) = u
    BY <1>3 DEF notify_response, u
  <2>2. Acked(u)
    <3>1. d.state = "CONFIRMED" /\ m.method = "INVITE" /\ m.code = 200
          /\ d.outAck = m.cseq
      BY <1>3 DEF IsRetransmission, Codes
    <3> DEFINE x == [d EXCEPT !.last = m.cseq]
               y == [x EXCEPT !.outInvite = m.cseq]
    <3>2. u = Put(y, Request("ACK", m.cseq))
      BY <1>3, <3>1 DEF update_as_uac, u
    <3>3. m.cseq \in Nat
      BY DEF Message
    <3>4. Request("ACK", m.cseq) \in Message
      BY <3>3, Messages
    <3>5. y \in Open /\ y.outInvite = m.cseq /\ y.outAck = m.cseq
      BY <3>1, <3>3 DEF Open
    <3> HIDE DEF y
    <3>6. Kept(y, u)
      BY <3>2, <3>4, <3>5, PutOpen
    <3> QED
      BY <3>5, <3>6 DEF Kept, Acked
  <2> QED
    BY <1>1, <1>2, <2>1, <2>2 DEF Fine
<1>4. CASE ~IsRetransmission(d, m)
  <2>1. notify_response(s, d, m) = w
    BY <1>4 DEF notify_response, u
  <2>2. CASE u.outInvite = d.outInvite
    <3>1. Fine(s, u)
      BY <1>1, <1>2, <2>2 DEF Fine, Acked, Aside
    <3>2. v \in Open /\ Fine(s, v) /\ Onward(u, v)
      BY <1>1, <3>1, ProcessResponseOpen
    <3> HIDE DEF v
    <3> QED
      <4>1. w \in Open /\ Fine(s, w) /\ Onward(v, w)
        BY <3>2, CheckOpen DEF Fine
      <4> HIDE DEF w
      <4> QED
        BY <1>1, <2>1, <3>2, <4>1, OnwardOn
  <2>3. CASE m.method = "INVITE" /\ u.needsAck
    <3>1. u.state = "CONFIRMED"
      BY <1>1, <2>3 DEF Waits
    <3>2. CASE u.op = "TERMINATING"
      <4>1. v = send_request(u, "BYE")
        BY <3>1, <3>2 DEF call_process_response
      <4> HIDE DEF v
      <4>2. v \in Open /\ Kept(u, v) /\ v.byeSent
        BY <1>1, <4>1, SendOpen DEF Requests
      <4>3. Fine(s, v)
        BY <1>1, <1>2, <4>2 DEF Fine, Waits, Acked, Kept
      <4> QED
        <5>1. Onward(u, v)
          BY <4>2 DEF Kept, Onward
        <5>2. w \in Open /\ Fine(s, w) /\ Onward(v, w)
          BY <4>2, <4>3, CheckOpen DEF Fine
        <5> HIDE DEF w
        <5> QED
          BY <1>1, <2>1, <5>1, <5>2, OnwardOn
    <3>3. CASE u.op = "ALIVE" /\ m.code \in 200..299
      <4>1. v = ack_response(u)
        BY <2>3, <3>1, <3>3 DEF call_process_response
      <4> HIDE DEF v
      <4>2. /\ v \in Open /\ Waits(v) /\ v.state = u.state
            /\ v.offered = u.offered /\ v.retrans = u.retrans
            /\ v.outInvite = u.outInvite /\ (u.byeSent => v.byeSent)
            /\ v.needsAck = u.needsAck \/ v.outAck = u.outInvite
        BY <1>1, <4>1, AckOpen
      <4>3. Acked(v) \/ (m.method = "INVITE" /\ v.needsAck)
        BY <2>3, <4>2 DEF Acked
      <4> QED
        BY <1>1, <1>2, <2>1, <4>2, <4>3, CheckOpen DEF Onward
    <3>4. CASE u.op # "TERMINATING" /\ ~(u.op = "ALIVE" /\ m.code \in 200..299)
      <4>1. v = u
        BY <3>4 DEF call_process_response
      <4> QED
        BY <1>1, <1>2, <2>1, <2>3, <4>1, CheckOpen DEF Onward
    <3> QED
      BY <3>2, <3>3, <3>4
  <2> QED
    BY <1>1, <1>4, <2>2, <2>3
<1> QED
  BY <1>3, <1>4

\* A response is sent, by A never a 2xx to an INVITE of the early dialog.
LEMMA RespondOpen ==
    ASSUME NEW s \in Side, NEW d \in Open, Fine(s, d),
           NEW m \in Message, m.method \in Requests, NEW code \in Codes,
           ~(s = "A" /\ d.state = "EARLY" /\ code = 200)
    PROVE  LET u == respond(s, d, m, code) IN
           u \in Open /\ Fine(s, u) /\ Onward(d, u)
<1> DEFINE r == Response(m.method, m.cseq, code)
           p == Put(d, r)
<1>1. r \in Message /\ r.code = code
  BY Messages DEF Message, Response
<1> HIDE DEF r
<1>2. p \in Open /\ Kept(d, p)
  BY <1>1, PutOpen
<1>3. Fine(s, p)
  BY <1>2, KeptFine
<1>4. respond(s, d, m, code) = update_as_uas(s, p, r)
  BY DEF respond, r
<1> HIDE DEF p
<1> DEFINE u == update_as_uas(s, p, r)
<1>5. /\ u \in Open /\ Waits(u) /\ Aside(p, u) /\ Onward(p, u)
      /\ u.outInvite = p.outInvite
      /\ s = "A" => ~u.retrans
  BY <1>1, <1>2, <1>3, UasOpen DEF Fine, Kept
<1> HIDE DEF u
<1>6. Fine(s, u)
  BY <1>3, <1>5 DEF Fine, Acked, Aside, Onward
<1>7. Onward(d, u)
  BY <1>2, <1>5 DEF Onward, Kept
<1> QED
  BY <1>4, <1>5, <1>6, <1>7 DEF u

\* An INVITE gets its 100.
LEMMA TryingOpen ==
    ASSUME NEW d \in Open, NEW m \in Message
    PROVE  Trying(d, m) \in Open /\ Kept(d, Trying(d, m))
<1>1. Response("INVITE", m.cseq, 100) \in Message
  BY DEF Message, Response, Requests, Codes
<1>2. Kept(d, d)
  BY DEF Kept
<1> QED
  BY <1>1, <1>2, PutOpen DEF Trying

\* A request is received.
LEMMA DispatchOpen ==
    ASSUME NEW s \in Side, NEW d \in Open, Fine(s, d),
           NEW m \in Message, m.method \in Requests
    PROVE  LET r == dispatch_request(s, d, m) IN
           r \in Open /\ Fine(s, r) /\ Onward(d, r)
<1> DEFINE u == Trying(d, m)
<1>1. u \in Open /\ Kept(d, u) /\ Fine(s, u)
  BY TryingOpen, KeptFine
<1>0. Onward(d, u)
  BY <1>1, KeptFine
<1>2. m.cseq \in Nat
  BY DEF Message
<1> HIDE DEF u
<1>3. CASE d.state = "TERMINATED"
  <2>1. CASE m.method = "INVITE"
    <3> DEFINE v == [u EXCEPT !.misplaced = TRUE]
    <3>1. v \in Open /\ Kept(u, v)
      BY <1>1 DEF Open, Kept
    <3>2. dispatch_request(s, d, m) = v
      BY <1>3, <2>1 DEF dispatch_request, no_dialog, u
    <3> HIDE DEF v
    <3> QED
      BY <1>1, <3>1, <3>2, KeptFine DEF Onward
  <2>2. CASE m.method # "INVITE"
    <3>1. dispatch_request(s, d, m) = Put(d, Response(m.method, m.cseq, 481))
      BY <1>3, <2>2 DEF dispatch_request, no_dialog
    <3>2. Response(m.method, m.cseq, 481) \in Message
      BY <1>2, Messages DEF Codes
    <3> QED
      BY <3>1, <3>2, PutOpen, KeptFine
  <2> QED
    BY <2>1, <2>2
<1>4. CASE d.state # "TERMINATED" /\ belle_sip_dialog_request_pending(d)
           /\ m.method # "BYE"
  <2>1. dispatch_request(s, d, m) = respond(s, u, m, 491)
    BY <1>4 DEF dispatch_request, u
  <2> QED
    <3>1. 481 \in Codes /\ 491 \in Codes /\ 500 \in Codes
      BY DEF Codes
    <3> QED
      BY <1>0, <1>1, <2>1, <3>1, RespondOpen, OnwardOn
<1>5. CASE d.state = "EARLY"
           /\ ~(belle_sip_dialog_request_pending(d) /\ m.method # "BYE")
  <2>1. dispatch_request(s, d, m) = respond(s, u, m, 500)
    BY <1>5 DEF dispatch_request, process_request_event, u
  <2> QED
    <3>1. 481 \in Codes /\ 491 \in Codes /\ 500 \in Codes
      BY DEF Codes
    <3> QED
      BY <1>0, <1>1, <2>1, <3>1, RespondOpen, OnwardOn
<1>6. CASE d.state = "CONFIRMED"
           /\ ~(belle_sip_dialog_request_pending(d) /\ m.method # "BYE")
  <2>0. dispatch_request(s, d, m) = process_request_event(s, d, m)
    BY <1>6 DEF dispatch_request
  <2>c. 200 \in Codes
    BY DEF Codes
  <2>1. CASE m.method = "INVITE" /\ s \in Deferrers
    <3> DEFINE v == [u EXCEPT !.offered = m.cseq]
    <3>1. /\ v \in Open /\ v.state = "CONFIRMED"
          /\ v.needsAck = u.needsAck /\ v.retrans = u.retrans
          /\ v.outInvite = u.outInvite /\ v.outAck = u.outAck
          /\ v.byeSent = u.byeSent
      BY <1>1, <1>2, <1>6 DEF Open, Kept
    <3>2. process_request_event(s, d, m) = v
      BY <1>6, <2>1 DEF process_request_event, u
    <3> HIDE DEF v
    <3>3. Fine(s, v)
      BY <1>1, <3>1 DEF Fine, Waits, Acked
    <3> QED
      BY <1>1, <1>6, <2>0, <3>1, <3>2, <3>3 DEF Kept, Onward
  <2>2. CASE m.method = "INVITE" /\ s \notin Deferrers
    <3>1. process_request_event(s, d, m) = respond(s, u, m, 200)
      BY <1>6, <2>2 DEF process_request_event, u
    <3>2. u.state = "CONFIRMED"
      BY <1>1, <1>6 DEF Kept
    <3> QED
      BY <1>1, <2>0, <2>c, <3>1, <3>2, RespondOpen DEF Kept, Onward
  <2>3. CASE m.method = "INFO"
    <3>1. process_request_event(s, d, m) = respond(s, d, m, 200)
      BY <1>6, <2>3 DEF process_request_event
    <3> QED
      BY <1>6, <2>0, <2>c, <3>1, RespondOpen
  <2>4. CASE m.method = "BYE"
    <3> DEFINE v == respond(s, d, m, 200)
               w == [v EXCEPT !.op = "TERMINATING"]
    <3>1. process_request_event(s, d, m) = w
      BY <1>6, <2>4 DEF process_request_event
    <3>2. v \in Open /\ Fine(s, v) /\ Onward(d, v)
      BY <1>6, <2>c, RespondOpen
    <3> HIDE DEF v
    <3>3. /\ w \in Open /\ w.state = v.state /\ w.offered = v.offered
          /\ w.needsAck = v.needsAck /\ w.retrans = v.retrans
          /\ w.outInvite = v.outInvite /\ w.outAck = v.outAck
          /\ w.byeSent = v.byeSent
      BY <3>2 DEF Open
    <3> HIDE DEF w
    <3>4. Fine(s, w)
      BY <3>2, <3>3 DEF Fine, Waits, Acked
    <3> QED
      BY <2>0, <3>1, <3>2, <3>3, <3>4 DEF Onward
  <2> QED
    BY <2>1, <2>2, <2>3, <2>4 DEF Requests
<1> QED
  BY <1>3, <1>4, <1>5, <1>6 DEF Open

\* An ACK is received: it stops the timers of the 200 Ok.
LEMMA HandleAckOpen ==
    ASSUME NEW s \in Side, NEW d \in Open, Fine(s, d), NEW m
    PROVE  LET u == belle_sip_dialog_handle_ack(d, m) IN
           u \in Open /\ Fine(s, u) /\ Onward(d, u)
<1>1. CASE d.state # "TERMINATED" /\ d.needsAck /\ m.cseq = d.remoteCseq
  <2> DEFINE v == [d EXCEPT !.needsAck = FALSE, !.retrans = FALSE]
             u == belle_sip_dialog_process_queue(v)
  <2>1. /\ v \in Open /\ ~v.needsAck /\ ~v.retrans
        /\ v.state = d.state /\ v.offered = d.offered
        /\ v.outInvite = d.outInvite /\ v.outAck = d.outAck
        /\ v.byeSent = d.byeSent
    BY DEF Open
  <2>2. belle_sip_dialog_handle_ack(d, m) = u
    BY <1>1 DEF belle_sip_dialog_handle_ack
  <2> HIDE DEF v
  <2>3. Fine(s, v)
    BY <2>1 DEF Fine, Waits, Acked
  <2>4. u \in Open /\ Kept(v, u)
    BY <2>1, ProcessQueueOpen
  <2> HIDE DEF u
  <2> QED
    BY <2>1, <2>2, <2>3, <2>4, KeptFine DEF Onward
<1>2. CASE ~(d.state # "TERMINATED" /\ d.needsAck /\ m.cseq = d.remoteCseq)
  BY <1>2 DEF belle_sip_dialog_handle_ack, Onward
<1> QED
  BY <1>1, <1>2

-----------------------------------------------------------------------------
(* The invariant of both ends, action by action.                           *)

Base ==
    /\ TypeOK
    /\ \A s \in Side : Fine(s, end[s])

\* A step of end s that keeps the invariant.
Moved(s) ==
    /\ Base' /\ Onward(end[s], end'[s])
    /\ end'[Peer(s)] = end[Peer(s)] /\ setting' = setting
    /\ \E o \in Seq(Message) : net'[Peer(s)] = Enqueue(net[Peer(s)], o)

\* A callback that leaves a fine record keeps the invariant.
LEMMA RunFine ==
    ASSUME Base, NEW s \in Side, NEW inbox \in Inbox, NEW d \in Open,
           Fine(s, d), Onward(end[s], d), Run(s, inbox, d)
    PROVE  Moved(s)
<1>1. /\ TypeOK' /\ Agrees(d, end'[s]) /\ end'[Peer(s)] = end[Peer(s)]
      /\ setting' = setting
      /\ net'[Peer(s)] = Enqueue(net[Peer(s)], d.out)
  BY Ran DEF Base
<1>2. Fine(s, end'[s])
  BY <1>1 DEF Agrees, Fine, Waits, Acked
<1>3. Fine(Peer(s), end'[Peer(s)])
  BY <1>1, Peers DEF Base, Side
<1>4. \A p \in Side : Fine(p, end'[p])
  BY <1>2, <1>3, Peers DEF Side
<1>5. (\A p \in Side : Fine(p, end[p]))'
  BY <1>4 DEF Fine, Waits, Acked
<1>6. Onward(end[s], end'[s])
  BY <1>1 DEF Agrees, Onward
<1>7. d.out \in Seq(Message)
  BY DEF Open
<1> QED
  BY <1>1, <1>5, <1>6, <1>7 DEF Base, Moved

\* A callback starts with a fine record.
LEMMA BeginFine ==
    ASSUME Base, NEW s \in Side
    PROVE  /\ Begin(s) \in Open /\ Agrees(Begin(s), end[s])
           /\ Fine(s, Begin(s)) /\ Onward(end[s], Begin(s))
<1>1. Begin(s) \in Open /\ Agrees(Begin(s), end[s]) /\ Fine(s, end[s])
  BY Opens DEF Base
<1> QED
  BY <1>1 DEF Agrees, Fine, Waits, Acked, Onward

\* What can be delivered is a message, and what is left is an inbox.
LEMMA Delivered ==
    ASSUME TypeOK, NEW s \in Side
    PROVE  /\ net[s] \in Inbox
           /\ \A m \in Deliverable(s) : m \in Message /\ Without(s, m) \in Inbox
<1>1. net[s] \in Inbox
  BY DEF TypeOK, Inbox
<1>2. ASSUME NEW m \in Deliverable(s)
      PROVE  m \in Message /\ Without(s, m) \in Inbox
  <2>1. CASE Ordered
    <3>1. net[s] \in Seq(Message) /\ net[s] # <<>> /\ m = Head(net[s])
      BY <1>1, <1>2, <2>1 DEF Inbox, Deliverable
    <3> QED
      BY <2>1, <3>1 DEF Inbox, Without
  <2>2. CASE ~Ordered
    BY <1>1, <1>2, <2>2 DEF Inbox, Deliverable, Without
  <2> QED
    BY <2>1, <2>2
<1> QED
  BY <1>1, <1>2

\* Requests and the ACK are received.
LEMMA ReceiveKeepsBase ==
    ASSUME Base, NEW s \in Side, ReceiveRequest(s) \/ ReceiveAck(s)
    PROVE  Moved(s)
<1>1. TypeOK
  BY DEF Base
<1> DEFINE d == Begin(s)
<1>2. d \in Open /\ Fine(s, d) /\ Onward(end[s], d)
  BY BeginFine
<1> HIDE DEF d
<1>3. CASE ReceiveRequest(s)
  <2>1. PICK m \in Deliverable(s) :
          /\ IsRequest(m) /\ m.method # "ACK"
          /\ Run(s, Without(s, m), dispatch_request(s, d, m))
    BY <1>3 DEF ReceiveRequest, d
  <2>2. m \in Message /\ Without(s, m) \in Inbox
    BY <1>1, Delivered
  <2>3. m.method \in Requests
    BY <2>1, <2>2 DEF Message
  <2> QED
    BY <1>2, <2>1, <2>2, <2>3, DispatchOpen, OnwardOn, RunFine
<1>4. CASE ReceiveAck(s)
  <2>1. PICK m \in Deliverable(s) :
          Run(s, Without(s, m), belle_sip_dialog_handle_ack(d, m))
    BY <1>4 DEF ReceiveAck, d
  <2>2. Without(s, m) \in Inbox
    BY <1>1, Delivered
  <2> QED
    BY <1>2, <2>1, <2>2, HandleAckOpen, OnwardOn, RunFine
<1> QED
  BY <1>3, <1>4

\* A change of its client transactions leaves an end as it is otherwise.
LEMMA ClientsOpen ==
    ASSUME NEW s, NEW d \in Open, Fine(s, d),
           NEW ts \in SUBSET [method : Requests, cseq : Nat,
                              state : Transient \cup {"ACCEPTED"}]
    PROVE  LET u == [d EXCEPT !.clients = ts] IN
           u \in Open /\ Fine(s, u) /\ Onward(d, u)
<1> DEFINE u == [d EXCEPT !.clients = ts]
<1>1. u \in Open /\ Kept(d, u)
  BY DEF Open, Kept
<1> HIDE DEF u
<1> QED
  BY <1>1, KeptFine DEF u

\* Responses are received.
LEMMA ResponseKeepsBase ==
    ASSUME Base, NEW s \in Side, ReceiveResponse(s)
    PROVE  Moved(s)
<1>1. TypeOK
  BY DEF Base
<1> DEFINE d == Begin(s)
           Client == [method : Requests, cseq : Nat,
                      state : Transient \cup {"ACCEPTED"}]
<1>2. d \in Open /\ Fine(s, d) /\ Onward(end[s], d)
  BY BeginFine
<1>3. d.clients \in SUBSET Client
  BY <1>2 DEF Open
<1>4. PICK m \in Deliverable(s) :
        LET ts == {t \in d.clients : t.cseq = m.cseq /\ t.method = m.method
                                        /\ Notified(t, m)}
        IN  /\ ~IsRequest(m)
            /\ Run(s, Without(s, m),
                   IF ts = {} THEN d
                   ELSE LET t == CHOOSE t \in ts : TRUE IN
                        notify_response(s,
                          [d EXCEPT !.clients = (@ \ {t}) \cup Progress(t, m)], m))
  BY DEF ReceiveResponse
<1>5. m \in Message /\ Without(s, m) \in Inbox
  BY <1>1, Delivered
<1>6. m.code \in Codes
  BY <1>4, <1>5 DEF IsRequest, Message
<1> DEFINE ts == {t \in d.clients : t.cseq = m.cseq /\ t.method = m.method
                                        /\ Notified(t, m)}
           t == CHOOSE t \in ts : TRUE
           cs == (d.clients \ {t}) \cup Progress(t, m)
           u == [d EXCEPT !.clients = cs]
<1> HIDE DEF d
<1>7. CASE ts = {}
  BY <1>2, <1>4, <1>5, <1>7, RunFine
<1>8. CASE ts # {}
  <2>1. Run(s, Without(s, m), notify_response(s, u, m))
    BY <1>4, <1>8
  <2>2. t \in d.clients
    BY <1>8
  <2> HIDE DEF t
  <2>3. Progress(t, m) \subseteq Client
    <3>1. t \in Client
      BY <1>3, <2>2
    <3> QED
      BY <3>1 DEF Progress, Transient
  <2>4. cs \in SUBSET Client
    BY <1>3, <2>3
  <2> HIDE DEF cs
  <2>5. u \in Open /\ Fine(s, u) /\ Onward(d, u)
    BY <1>2, <2>4, ClientsOpen
  <2> HIDE DEF u
  <2> DEFINE n == notify_response(s, u, m)
  <2>6. n \in Open /\ Fine(s, n) /\ Onward(u, n)
    BY <1>5, <1>6, <2>5, NotifyOpen
  <2> HIDE DEF n
  <2>7. Onward(end[s], n)
    BY <1>2, <2>5, <2>6, OnwardOn
  <2> QED
    BY <1>5, <2>1, <2>6, <2>7, RunFine DEF n
<1> QED
  BY <1>7, <1>8

\* Timers.
LEMMA TimersKeepBase ==
    ASSUME Base, NEW s \in Side,
           Timeout(s) \/ dialog_on_200Ok_timer(s) \/ dialog_on_200Ok_end(s)
    PROVE  Moved(s)
<1> DEFINE d == Begin(s)
<1>1. d \in Open /\ Agrees(d, end[s]) /\ Fine(s, d) /\ Onward(end[s], d)
  BY BeginFine
<1>2. net[s] \in Inbox
  BY Delivered DEF Base
<1>3. CASE Timeout(s)
  <2>1. PICK t \in end[s].clients :
          Run(s, net[s], [d EXCEPT !.clients = d.clients \ {t}])
    BY <1>3 DEF Timeout
  <2> HIDE DEF d
  <2>2. d.clients \ {t} \in SUBSET [method : Requests, cseq : Nat,
                                    state : Transient \cup {"ACCEPTED"}]
    BY <1>1 DEF Open
  <2> QED
    BY <1>1, <1>2, <2>1, <2>2, ClientsOpen, OnwardOn, RunFine
<1>4. CASE dialog_on_200Ok_timer(s)
  <2> DEFINE u == [d EXCEPT !.copies = d.copies + 1]
             v == Put(u, Response("INVITE", 1, 200))
  <2>1. Run(s, net[s], v) /\ end[s].copies < MaxCopies
    BY <1>4 DEF dialog_on_200Ok_timer
  <2>2. Response("INVITE", 1, 200) \in Message
    BY DEF Message, Response, Requests, Codes
  <2> HIDE DEF d
  <2>3. d.copies + 1 \in 0..MaxCopies
    <3>1. setting \in Settings
      BY DEF Base, TypeOK
    <3>2. MaxCopies \in Nat
      BY <3>1, SettingsAssumption DEF MaxCopies
    <3>3. d.copies \in 0..MaxCopies /\ d.copies < MaxCopies
      BY <1>1, <2>1 DEF Open, Agrees
    <3> QED
      BY <3>2, <3>3
  <2>4. u \in Open /\ Kept(d, u)
    BY <1>1, <2>3 DEF Open, Kept
  <2> HIDE DEF u
  <2>5. v \in Open /\ Kept(u, v)
    BY <2>2, <2>4, PutOpen
  <2> HIDE DEF v
  <2>6. Fine(s, v) /\ Onward(end[s], v)
    BY <1>1, <2>4, <2>5, KeptFine, OnwardOn
  <2> QED
    BY <1>2, <2>1, <2>5, <2>6, RunFine
<1>5. CASE dialog_on_200Ok_end(s)
  <2> DEFINE u == [d EXCEPT !.retrans = FALSE, !.state = "CONFIRMED"]
             v == send_request(u, "BYE")
  <2>1. Run(s, net[s], v) /\ end[s].retrans
    BY <1>5 DEF dialog_on_200Ok_end
  <2> HIDE DEF d
  <2>2. /\ u \in Open /\ u.state = "CONFIRMED" /\ ~u.retrans
        /\ u.outInvite = d.outInvite /\ u.outAck = d.outAck
        /\ u.byeSent = d.byeSent
    BY <1>1 DEF Open
  <2> HIDE DEF u
  <2>3. Fine(s, u)
    BY <1>1, <2>2 DEF Fine, Waits, Acked
  <2>4. v \in Open /\ Kept(u, v)
    BY <2>2, SendOpen DEF Requests
  <2> HIDE DEF v
  <2>5. Fine(s, v)
    BY <2>3, <2>4, KeptFine
  <2>6. Onward(end[s], v)
    <3>1. Onward(d, u)
      BY <1>1, <2>1, <2>2 DEF Fine, Waits, Agrees, Onward
    <3> QED
      BY <1>1, <2>3, <2>4, <3>1, KeptFine, OnwardOn
  <2> QED
    BY <1>2, <2>1, <2>4, <2>5, <2>6, RunFine
<1> QED
  BY <1>3, <1>4, <1>5

\* The users take, refuse, update and end the call, and send digits.
LEMMA UsersKeepBase ==
    ASSUME Base, NEW s \in Side,
           \/ sal_call_accept(s) \/ sal_call_decline(s) \/ sal_call_update(s)
           \/ sal_call_send_dtmf(s) \/ sal_call_terminate(s)
    PROVE  Moved(s)
<1> DEFINE d == Begin(s)
<1>1. d \in Open /\ Agrees(d, end[s]) /\ Fine(s, d) /\ Onward(end[s], d)
  BY BeginFine
<1>2. net[s] \in Inbox
  BY Delivered DEF Base
<1>3. MaxRequests \in Nat
  BY SettingsAssumption DEF Base, TypeOK, MaxRequests
<1>4. ASSUME end[s].offered # 0, end[s].op = "ALIVE"
      PROVE  LET m == Request("INVITE", end[s].offered)
                 u == [d EXCEPT !.offered = 0]
             IN  /\ m \in Message /\ m.method \in Requests
                 /\ u \in Open /\ Fine(s, u) /\ Onward(end[s], u)
                 /\ ~(s = "A" /\ u.state = "EARLY")
  <2> HIDE DEF d
  <2>1. end[s].offered \in Nat
    BY <1>1 DEF Open, Agrees
  <2>2. Request("INVITE", end[s].offered) \in Message
    BY <2>1, Messages DEF Requests
  <2>3. Request("INVITE", end[s].offered).method \in Requests
    BY DEF Request, Requests
  <2> DEFINE u == [d EXCEPT !.offered = 0]
  <2>4. /\ u \in Open /\ u.state = d.state /\ u.offered = 0
        /\ u.needsAck = d.needsAck /\ u.retrans = d.retrans
        /\ u.outInvite = d.outInvite /\ u.outAck = d.outAck
        /\ u.byeSent = d.byeSent
    BY <1>1 DEF Open
  <2> HIDE DEF u
  <2>5. Fine(s, u) /\ ~(s = "A" /\ u.state = "EARLY")
    BY <1>1, <1>4, <2>4 DEF Fine, Waits, Acked, Agrees
  <2>6. Onward(end[s], u)
    BY <1>1, <2>4 DEF Onward
  <2> QED
    BY <2>2, <2>3, <2>4, <2>5, <2>6 DEF u
<1> DEFINE m == Request("INVITE", end[s].offered)
           u == [d EXCEPT !.offered = 0]
<1>5. CASE sal_call_accept(s)
  <2>1. Run(s, net[s], respond(s, u, m, 200))
        /\ end[s].offered # 0 /\ end[s].op = "ALIVE"
    BY <1>5 DEF sal_call_accept
  <2> HIDE DEF d
  <2>2. 200 \in Codes
    BY DEF Codes
  <2>3. /\ m \in Message /\ m.method \in Requests
        /\ u \in Open /\ Fine(s, u) /\ Onward(end[s], u)
        /\ ~(s = "A" /\ u.state = "EARLY")
    BY <1>4, <2>1
  <2> HIDE DEF m, u
  <2> QED
    BY <1>2, <2>1, <2>2, <2>3, RespondOpen, OnwardOn, RunFine
<1>6. CASE sal_call_decline(s)
  <2> DEFINE v == respond(s, u, m, 603)
             w == [v EXCEPT !.op = "TERMINATED"]
  <2>1. Run(s, net[s], w) /\ end[s].offered # 0 /\ end[s].op = "ALIVE"
    BY <1>6 DEF sal_call_decline
  <2> HIDE DEF d
  <2>2. 603 \in Codes
    BY DEF Codes
  <2>3. /\ m \in Message /\ m.method \in Requests
        /\ u \in Open /\ Fine(s, u) /\ Onward(end[s], u)
        /\ ~(s = "A" /\ u.state = "EARLY")
    BY <1>4, <2>1
  <2> HIDE DEF m, u
  <2>4. v \in Open /\ Fine(s, v) /\ Onward(end[s], v)
    BY <2>2, <2>3, RespondOpen, OnwardOn
  <2> HIDE DEF v
  <2>5. /\ w \in Open /\ w.state = v.state /\ w.offered = v.offered
        /\ w.needsAck = v.needsAck /\ w.retrans = v.retrans
        /\ w.outInvite = v.outInvite /\ w.outAck = v.outAck
        /\ w.byeSent = v.byeSent
    BY <2>4 DEF Open
  <2> HIDE DEF w
  <2>6. Fine(s, w) /\ Onward(end[s], w)
    BY <2>4, <2>5 DEF Fine, Waits, Acked, Onward
  <2> QED
    BY <1>2, <2>1, <2>5, <2>6, RunFine
<1>7. ASSUME end[s].asked < MaxRequests
      PROVE  LET v == [d EXCEPT !.asked = d.asked + 1] IN
             v \in Open /\ Fine(s, v) /\ Onward(end[s], v)
  <2> HIDE DEF d
  <2>1. d.asked \in 0..MaxRequests /\ d.asked < MaxRequests
    BY <1>1, <1>7 DEF Open, Agrees
  <2>2. d.asked + 1 \in 0..MaxRequests
    BY <1>3, <2>1
  <2> DEFINE v == [d EXCEPT !.asked = d.asked + 1]
  <2>3. v \in Open /\ Kept(d, v)
    BY <1>1, <2>2 DEF Open, Kept
  <2> HIDE DEF v
  <2> QED
    BY <1>1, <2>3, KeptFine, OnwardOn DEF v
<1> DEFINE v == [d EXCEPT !.asked = d.asked + 1]
<1>8. CASE sal_call_update(s)
  <2>1. Run(s, net[s], send_request(v, "INVITE")) /\ end[s].asked < MaxRequests
    BY <1>8 DEF sal_call_update
  <2>2. v \in Open /\ Fine(s, v) /\ Onward(end[s], v)
    BY <1>7, <2>1
  <2> HIDE DEF v
  <2> DEFINE w == send_request(v, "INVITE")
  <2>3. w \in Open /\ Kept(v, w)
    BY <2>2, SendOpen DEF Requests
  <2> HIDE DEF w
  <2>4. Fine(s, w) /\ Onward(end[s], w)
    BY <2>2, <2>3, KeptFine, OnwardOn
  <2> QED
    BY <1>2, <2>1, <2>3, <2>4, RunFine DEF w
<1>9. CASE sal_call_send_dtmf(s)
  <2>1. Run(s, net[s], send_queued_request(v)) /\ end[s].asked < MaxRequests
    BY <1>9 DEF sal_call_send_dtmf
  <2>2. v \in Open /\ Fine(s, v) /\ Onward(end[s], v)
    BY <1>7, <2>1
  <2> HIDE DEF v
  <2> DEFINE w == send_queued_request(v)
  <2>3. w \in Open /\ Kept(v, w)
    BY <2>2, SendQueuedOpen
  <2> HIDE DEF w
  <2>4. Fine(s, w) /\ Onward(end[s], w)
    BY <2>2, <2>3, KeptFine, OnwardOn
  <2> QED
    BY <1>2, <2>1, <2>3, <2>4, RunFine DEF w
<1>10. CASE sal_call_terminate(s)
  <2> DEFINE x == send_request(d, "BYE")
             w == [x EXCEPT !.op = "TERMINATING"]
  <2>1. Run(s, net[s], w)
    BY <1>10 DEF sal_call_terminate
  <2> HIDE DEF d
  <2>2. x \in Open /\ Kept(d, x)
    BY <1>1, SendOpen DEF Requests
  <2> HIDE DEF x
  <2>3. Fine(s, x) /\ Onward(end[s], x)
    BY <1>1, <2>2, KeptFine, OnwardOn
  <2>4. /\ w \in Open /\ w.state = x.state /\ w.offered = x.offered
        /\ w.needsAck = x.needsAck /\ w.retrans = x.retrans
        /\ w.outInvite = x.outInvite /\ w.outAck = x.outAck
        /\ w.byeSent = x.byeSent
    BY <2>2 DEF Open
  <2> HIDE DEF w
  <2>5. Fine(s, w) /\ Onward(end[s], w)
    BY <2>3, <2>4 DEF Fine, Waits, Acked, Onward
  <2> QED
    BY <1>2, <2>1, <2>4, <2>5, RunFine
<1> QED
  BY <1>5, <1>6, <1>8, <1>9, <1>10

\* A deferred notice changes only what is deferred and the operation.
LEMMA DeferredNotice ==
    ASSUME TypeOK, NEW s \in Side,
           process_dialog_terminated(s) \/ call_set_released(s)
    PROVE  \E n \in 0..2, o \in {"ALIVE", "TERMINATING", "TERMINATED"} :
             Run(s, net[s], [Begin(s) EXCEPT !.deferred = n, !.op = o])
<1> DEFINE d == Begin(s)
<1>1. d \in Open
  BY Opens
<1>2. CASE process_dialog_terminated(s)
  <2> DEFINE o == IF d.op = "ALIVE" /\ end[s].previous = "CONFIRMED"
                  THEN "TERMINATING" ELSE d.op
  <2>1. Run(s, net[s], [d EXCEPT !.deferred = 1, !.op = o])
    BY <1>2 DEF process_dialog_terminated
  <2> HIDE DEF d
  <2>2. o \in {"ALIVE", "TERMINATING", "TERMINATED"} /\ 1 \in 0..2
    BY <1>1 DEF Open
  <2> HIDE DEF o
  <2> QED
    BY <2>1, <2>2 DEF d
<1>3. CASE call_set_released(s)
  BY <1>3 DEF call_set_released
<1> QED
  BY <1>2, <1>3

\* The deferred notices of a deleted dialog.
LEMMA NoticesKeepBase ==
    ASSUME Base, NEW s \in Side,
           process_dialog_terminated(s) \/ call_set_released(s)
    PROVE  Moved(s)
<1> DEFINE d == Begin(s)
<1>1. d \in Open /\ Fine(s, d) /\ Onward(end[s], d)
  BY BeginFine
<1>2. net[s] \in Inbox
  BY Delivered, SMTT(60) DEF Base
<1>3. PICK n \in 0..2, o \in {"ALIVE", "TERMINATING", "TERMINATED"} :
        Run(s, net[s], [d EXCEPT !.deferred = n, !.op = o])
  BY DeferredNotice DEF Base
<1> DEFINE u == [d EXCEPT !.deferred = n, !.op = o]
<1> HIDE DEF d
<1>4. /\ u \in Open /\ u.state = d.state /\ u.offered = d.offered
      /\ u.needsAck = d.needsAck /\ u.retrans = d.retrans
      /\ u.outInvite = d.outInvite /\ u.outAck = d.outAck
      /\ u.byeSent = d.byeSent
  BY <1>1 DEF Open
<1> HIDE DEF u
<1>5. Fine(s, u) /\ Onward(end[s], u)
  BY <1>1, <1>4 DEF Fine, Waits, Acked, Onward
<1> QED
  BY <1>2, <1>3, <1>4, <1>5, RunFine DEF u

\* A call that rings is fine.
LEMMA InitBase == Init => Base
<1> SUFFICES ASSUME Init PROVE Base
  OBVIOUS
<1>1. setting \in Settings
  BY DEF Init
<1>2. MaxCopies \in Nat /\ MaxRequests \in Nat
  BY <1>1, SettingsAssumption DEF MaxCopies, MaxRequests
<1>3. 0 \in 0..MaxCopies /\ 0 \in 0..MaxRequests
  BY <1>2
<1>4. RingingEnd \in End
  BY <1>3 DEF RingingEnd, End, Settled
<1>5. {[method |-> "INVITE", cseq |-> 1, state |-> "PROCEEDING"]}
        \in SUBSET [method : Requests, cseq : Nat, state : Transient \cup {"ACCEPTED"}]
  BY DEF Requests, Transient
<1>6. end["A"] \in End /\ end["B"] \in End
  BY <1>4, <1>5, ZenonT(90) DEF Init, Side, End
<1>7. \A s \in Side : end[s] \in End
  BY <1>6 DEF Side
<1>8. TypeOK
  <2>1. end \in [Side -> End]
    BY <1>7 DEF Init
  <2>2. net \in [Side -> IF Ordered THEN Seq(Message) ELSE SUBSET Message]
    <3>1. <<>> \in Seq(Message) /\ {} \in SUBSET Message
      OBVIOUS
    <3>2. CASE Ordered
      BY <3>1, <3>2 DEF Init
    <3>3. CASE ~Ordered
      BY <3>1, <3>3 DEF Init
    <3> QED
      BY <3>2, <3>3
  <2> QED
    BY <1>1, <2>1, <2>2 DEF TypeOK
<1>9. \A s \in Side : Fine(s, end[s])
  BY DEF Init, Side, RingingEnd, Fine, Waits, Acked
<1> QED
  BY <1>8, <1>9 DEF Base

\* Every step keeps the invariant.
LEMMA NextBase == Base /\ [Next]_vars => Base'
<1> SUFFICES ASSUME Base, [Next]_vars PROVE Base'
  OBVIOUS
<1>1. CASE UNCHANGED vars
  BY <1>1 DEF vars, Base, TypeOK, Fine, Waits, Acked, End, MaxCopies,
              MaxRequests, Ordered
<1>2. CASE Next
  BY <1>2, ReceiveKeepsBase, ResponseKeepsBase, TimersKeepBase, UsersKeepBase,
     NoticesKeepBase DEF Next, Moved
<1> QED
  BY <1>1, <1>2

-----------------------------------------------------------------------------
(* The first ACK over TCP.  Until the callee answers, the two ends are as    *)
(* they were when it began to ring; the caller is so until the answer comes, *)
(* and then its ACK is the first thing the callee reads.  The timers of the  *)
(* 200 Ok therefore wait for an ACK that belle_sip_dialog_handle_ack takes.  *)

Calling == [RingingEnd EXCEPT !.last = 1, !.clients =
                {[method |-> "INVITE", cseq |-> 1, state |-> "PROCEEDING"]}]
Called  == [RingingEnd EXCEPT !.remoteCseq = 1, !.offered = 1]

Taken   == Response("INVITE", 1, 200)
Refused == Response("INVITE", 1, 603)
Ack     == Request("ACK", 1)

\* The callee repeats its 200 Ok: it needs the ACK that comes first.
Awaiting ==
    /\ end["B"].needsAck /\ end["B"].remoteCseq = 1 /\ end["B"].offered = 0
    /\ end["A"].state # "EARLY" => net["B"] # <<>> /\ Head(net["B"]) = Ack

Opening ==
    /\ end["A"].state = "EARLY" => end["A"] = Calling /\ net["B"] = <<>>
    /\ end["B"].state = "EARLY" =>
            end["B"] = Called /\ net["A"] = <<>> /\ end["A"].state = "EARLY"
    /\ end["A"].state = "EARLY" /\ end["B"].state # "EARLY" =>
            /\ net["A"] # <<>>
            /\ \/ Head(net["A"]) = Taken
               \/ Head(net["A"]) = Refused /\ end["B"].state = "TERMINATED"
    /\ end["B"].retrans => Awaiting

\* The callbacks of the network and the others.
Reads(s) == ReceiveRequest(s) \/ ReceiveAck(s) \/ ReceiveResponse(s)

Acts(s) ==
    \/ Timeout(s) \/ dialog_on_200Ok_timer(s) \/ dialog_on_200Ok_end(s)
    \/ sal_call_accept(s) \/ sal_call_decline(s) \/ sal_call_update(s)
    \/ sal_call_send_dtmf(s) \/ sal_call_terminate(s)
    \/ process_dialog_terminated(s) \/ call_set_released(s)

\* Whatever an end does, the other one and the first message that waits for
\* the other one stay.
LEMMA Steps ==
    ASSUME Base, Ordered, NEW s \in Side, Reads(s) \/ Acts(s)
    PROVE  /\ Moved(s)
           /\ net[Peer(s)] # <<>> =>
                /\ net'[Peer(s)] # <<>>
                /\ Head(net'[Peer(s)]) = Head(net[Peer(s)])
<1>1. Moved(s)
  BY ReceiveKeepsBase, ResponseKeepsBase, TimersKeepBase, UsersKeepBase,
     NoticesKeepBase DEF Reads, Acts
<1>2. net[Peer(s)] \in Seq(Message)
  BY Peers DEF Base, TypeOK, Side
<1>3. PICK o \in Seq(Message) : net'[Peer(s)] = net[Peer(s)] \o o
  BY <1>1 DEF Moved, Enqueue
<1> DEFINE q == net[Peer(s)]
<1>4. ASSUME q # <<>>
      PROVE  q \o o # <<>> /\ Head(q \o o) = Head(q)
  <2> HIDE DEF q
  <2>1. q \in Seq(Message) /\ Len(q) > 0
    BY <1>2, <1>4 DEF q
  <2>2. Len(q \o o) > 0 /\ (q \o o)[1] = q[1]
    BY <2>1
  <2> QED
    BY <2>1, <2>2
<1> QED
  BY <1>1, <1>3, <1>4

\* An end that does not read leaves its inbox alone.
LEMMA Unread ==
    ASSUME TypeOK, NEW s \in Side, Acts(s)
    PROVE  net'[s] = net[s]
<1>1. PICK d : Run(s, net[s], d)
  BY ZenonT(90) DEF Acts, Timeout, dialog_on_200Ok_timer, dialog_on_200Ok_end,
         sal_call_accept, sal_call_decline, sal_call_update,
         sal_call_send_dtmf, sal_call_terminate, process_dialog_terminated,
         call_set_released
<1>2. Peer(s) # s
  BY Peers DEF Side
<1>3. DOMAIN net = Side
  BY DEF TypeOK
<1>4. PICK r : net' = [net EXCEPT ![s] = net[s],
                                  ![Peer(s)] = Enqueue(net[Peer(s)], r.out)]
  BY <1>1, <1>2 DEF Run
<1> QED
  BY <1>2, <1>3, <1>4

\* Nothing can be read from an empty inbox.
LEMMA NothingToRead ==
    ASSUME Ordered, NEW s \in Side, net[s] = <<>>
    PROVE  ~Reads(s)
BY DEF Reads, ReceiveRequest, ReceiveAck, ReceiveResponse, Deliverable

\* What an end does of its own accord while nothing is offered to it does not
\* touch what the ACK of its 200 Ok is compared with.
LEMMA Undisturbed ==
    ASSUME Base, Ordered, NEW s \in Side, Acts(s), end[s].offered = 0
    PROVE  /\ end'[s].needsAck = end[s].needsAck
           /\ end'[s].remoteCseq = end[s].remoteCseq
           /\ end'[s].offered = end[s].offered
<1> DEFINE d == Begin(s)
           Same(r) == /\ r.needsAck = end[s].needsAck
                      /\ r.remoteCseq = end[s].remoteCseq
                      /\ r.offered = end[s].offered
<1>1. d \in Open /\ Agrees(d, end[s])
  BY BeginFine
<1>2. net[s] \in Inbox
  BY Delivered DEF Base
<1>3. ASSUME NEW r \in Open, Same(r), Run(s, net[s], r)
      PROVE  Same(end'[s])
  BY <1>2, <1>3, Ran DEF Base, Agrees
<1>4. Same(d) /\ \A r : Kept(d, r) => Same(r)
  BY <1>1 DEF Agrees, Kept
<1>5. CASE dialog_on_200Ok_timer(s)
  <2> DEFINE u == [d EXCEPT !.copies = d.copies + 1]
             v == Put(u, Response("INVITE", 1, 200))
  <2>1. Run(s, net[s], v) /\ end[s].copies < MaxCopies
    BY <1>5 DEF dialog_on_200Ok_timer
  <2>2. Response("INVITE", 1, 200) \in Message
    BY DEF Message, Response, Requests, Codes
  <2> HIDE DEF d
  <2>3. d.copies + 1 \in 0..MaxCopies
    <3>1. setting \in Settings
      BY DEF Base, TypeOK
    <3>2. MaxCopies \in Nat
      BY <3>1, SettingsAssumption DEF MaxCopies
    <3>3. d.copies \in 0..MaxCopies /\ d.copies < MaxCopies
      BY <1>1, <2>1 DEF Open, Agrees
    <3> QED
      BY <3>2, <3>3
  <2>4. u \in Open /\ Kept(d, u)
    BY <1>1, <2>3, ZenonT(90) DEF Open, Kept
  <2> HIDE DEF u
  <2>5. v \in Open /\ Kept(u, v)
    BY <2>2, <2>4, PutOpen
  <2>6. Same(v)
    BY <1>4, <2>4, <2>5 DEF Kept
  <2> HIDE DEF v
  <2> QED
    BY <1>3, <2>1, <2>5, <2>6
<1>6. CASE sal_call_update(s) \/ sal_call_send_dtmf(s)
  <2> DEFINE u == [d EXCEPT !.asked = d.asked + 1]
  <2>1. end[s].asked < MaxRequests
    BY <1>6 DEF sal_call_update, sal_call_send_dtmf
  <2>2. Run(s, net[s], send_request(u, "INVITE"))
        \/ Run(s, net[s], send_queued_request(u))
    BY <1>6 DEF sal_call_update, sal_call_send_dtmf
  <2> HIDE DEF d
  <2>3. d.asked + 1 \in 0..MaxRequests
    <3>1. MaxRequests \in Nat
      BY SettingsAssumption DEF Base, TypeOK, MaxRequests
    <3>2. d.asked \in 0..MaxRequests /\ d.asked < MaxRequests
      BY <1>1, <2>1 DEF Open, Agrees
    <3> QED
      BY <3>1, <3>2
  <2>4. u \in Open /\ Kept(d, u)
    BY <1>1, <2>3, ZenonT(90) DEF Open, Kept
  <2> HIDE DEF u
  <2> DEFINE v == send_request(u, "INVITE")
             w == send_queued_request(u)
  <2>5. v \in Open /\ Kept(u, v) /\ w \in Open /\ Kept(u, w)
    BY <2>4, SendOpen, SendQueuedOpen DEF Requests
  <2>6. Same(v) /\ Same(w)
    BY <1>4, <2>4, <2>5 DEF Kept
  <2> HIDE DEF v, w
  <2> QED
    BY <1>3, <2>2, <2>5, <2>6 DEF v, w
<1>7. CASE sal_call_terminate(s)
  <2> DEFINE x == send_request(d, "BYE")
             w == [x EXCEPT !.op = "TERMINATING"]
  <2>1. Run(s, net[s], w)
    BY <1>7 DEF sal_call_terminate
  <2> HIDE DEF d
  <2>2. x \in Open /\ Kept(d, x)
    BY <1>1, SendOpen DEF Requests
  <2> HIDE DEF x
  <2>3. /\ w \in Open /\ w.needsAck = x.needsAck
        /\ w.remoteCseq = x.remoteCseq /\ w.offered = x.offered
    BY <2>2, ZenonT(90) DEF Open
  <2>4. Same(w)
    BY <1>4, <2>2, <2>3
  <2> HIDE DEF w
  <2> QED
    BY <1>3, <2>1, <2>3, <2>4
<1>8. CASE process_dialog_terminated(s) \/ call_set_released(s)
  <2>1. PICK n \in 0..2, o \in {"ALIVE", "TERMINATING", "TERMINATED"} :
          Run(s, net[s], [d EXCEPT !.deferred = n, !.op = o])
    BY <1>8, DeferredNotice, ZenonT(60) DEF Base
  <2> DEFINE u == [d EXCEPT !.deferred = n, !.op = o]
  <2> HIDE DEF d
  <2>2. /\ u \in Open /\ u.needsAck = d.needsAck
        /\ u.remoteCseq = d.remoteCseq /\ u.offered = d.offered
    BY <1>1, ZenonT(90) DEF Open
  <2>3. Same(u)
    BY <1>4, <2>2
  <2> HIDE DEF u
  <2> QED
    BY <1>3, <2>1, <2>2, <2>3 DEF u
<1> QED
  BY <1>5, <1>6, <1>7, <1>8 DEF Acts, Timeout, dialog_on_200Ok_end,
     sal_call_accept, sal_call_decline

\* What is true of an end as long as it has done nothing in the dialog.
Fresh(u) == /\ u.queued = 0 /\ u.offered = 0 /\ ~u.misplaced /\ ~u.byeSent
            /\ u.deferred = 0 /\ u.op = "ALIVE"

\* What is true of one that has just taken the call, or given it up.
Joined(u) ==
    /\ u.queued = 0 /\ u.offered = 0 /\ ~u.misplaced /\ ~u.byeSent
    /\ \/ u.state = "CONFIRMED" /\ u.deferred = 0 /\ u.op = "ALIVE"
       \/ u.state = "TERMINATED"
    /\ \A t \in u.clients : t.state = "ACCEPTED" /\ t.cseq <= u.localCseq
    /\ \A t, x \in u.clients : t = x

\* What the callee sends first is the first that the caller reads.
LEMMA AnswerGoesOut ==
    ASSUME Base, Ordered, NEW s \in Side, net[Peer(s)] = <<>>,
           NEW r \in Open, NEW m \in Message, r.out = <<m>>,
           Run(s, net[s], r)
    PROVE  /\ Agrees(r, end'[s])
           /\ net'[Peer(s)] = <<m>>
<1>1. net[s] \in Inbox
  BY Delivered DEF Base
<1>2. Agrees(r, end'[s]) /\ net'[Peer(s)] = Enqueue(<<>>, <<m>>)
  BY <1>1, Ran DEF Base
<1>3. net'[Peer(s)] = <<m>>
  BY <1>2 DEF Enqueue
<1> QED
  BY <1>2, <1>3

\* The callee answers: it takes the call, or refuses it.
LEMMA CalleeAnswers ==
    ASSUME Base, Ordered, end["B"] = Called, net["A"] = <<>>, Acts("B")
    PROVE  /\ Joined(end'["B"])
           /\ \/ /\ net'["A"] = <<Taken>> /\ end'["B"].state = "CONFIRMED"
                 /\ end'["B"].needsAck /\ end'["B"].remoteCseq = 1
              \/ net'["A"] = <<Refused>> /\ end'["B"].state = "TERMINATED"
<1> DEFINE d == Begin("B")
           u == [d EXCEPT !.offered = 0]
           m == Request("INVITE", end["B"].offered)
<1>1. /\ d \in Open /\ Agrees(d, end["B"]) /\ d.out = <<>>
  BY Opens DEF Base, Side
<1>2. /\ d.state = "EARLY" /\ d.queued = 0 /\ end["B"].offered = 1
      /\ ~d.needsAck /\ ~d.retrans
      /\ ~end["B"].retrans /\ end["B"].op = "ALIVE" /\ end["B"].clients = {}
      /\ end["B"].deferred = 0 /\ end["B"].state = "EARLY"
      /\ Fresh([d EXCEPT !.offered = 0]) /\ d.clients = {}
  <2>1. /\ d.state = "EARLY" /\ d.queued = 0 /\ end["B"].offered = 1
        /\ ~d.needsAck /\ ~d.retrans /\ ~d.misplaced /\ ~d.byeSent
        /\ d.deferred = 0 /\ d.op = "ALIVE" /\ d.clients = {}
        /\ ~end["B"].retrans /\ end["B"].op = "ALIVE" /\ end["B"].clients = {}
        /\ end["B"].deferred = 0 /\ end["B"].state = "EARLY"
    BY <1>1, ZenonT(90) DEF Called, RingingEnd, Agrees
  <2> HIDE DEF d
  <2>2. Fresh([d EXCEPT !.offered = 0])
    BY <1>1, <2>1, ZenonT(90) DEF Fresh, Open
  <2> QED
    BY <2>1, <2>2
<1>3. m = Request("INVITE", 1) /\ m.method = "INVITE" /\ m.cseq = 1
  BY <1>2 DEF Request
<1>4. /\ Taken \in Message /\ Taken.method = "INVITE" /\ Taken.cseq = 1
      /\ Taken.code = 200
      /\ Refused \in Message /\ Refused.method = "INVITE" /\ Refused.cseq = 1
      /\ Refused.code = 603
      /\ Taken = Response(m.method, m.cseq, 200)
      /\ Refused = Response(m.method, m.cseq, 603)
  BY <1>3 DEF Taken, Refused, Response, Message, Requests, Codes
<1>5. \/ Run("B", net["B"], respond("B", u, m, 200))
      \/ Run("B", net["B"], [respond("B", u, m, 603) EXCEPT !.op = "TERMINATED"])
  BY <1>2 DEF Acts, Timeout, dialog_on_200Ok_timer, dialog_on_200Ok_end,
         sal_call_accept, sal_call_decline, sal_call_update,
         sal_call_send_dtmf, sal_call_terminate, process_dialog_terminated,
         call_set_released
<1> HIDE DEF d, m
<1>6. /\ u \in Open /\ u.state = "EARLY" /\ u.offered = 0 /\ u.out = <<>>
      /\ u.queued = 0 /\ ~u.needsAck /\ ~u.retrans /\ Fresh(u) /\ u.clients = {}
  BY <1>1, <1>2 DEF Open
<1> HIDE DEF u
<1>7. ASSUME NEW x \in Message, x.method = "INVITE", x.cseq = 1,
             NEW c \in {200, 603}, x.code = c
      PROVE  \E w \in Open :
                 /\ w = update_as_uas("B", Put(u, x), x) /\ w.out = <<x>>
                 /\ c = 200 => /\ w.state = "CONFIRMED" /\ w.needsAck
                               /\ w.remoteCseq = 1
                 /\ c = 603 => w.state = "TERMINATED"
                 /\ Joined(w)
  <2> DEFINE p == Put(u, x)
             v == [p EXCEPT !.last = Settled, !.remoteCseq = 1]
  <2>1. p \in Open /\ Agrees(u, p) /\ p.out = Append(<<>>, x)
    BY <1>6, <1>7, Puts
  <2>2. Append(<<>>, x) = <<x>>
    OBVIOUS
  <2> HIDE DEF p
  <2>3. Settled \in Nat /\ 1 \in Nat
    BY DEF Settled
  <2>4. /\ v \in Open /\ v.state = p.state /\ v.offered = p.offered
        /\ v.out = p.out /\ v.queued = p.queued /\ v.needsAck = p.needsAck
        /\ v.retrans = p.retrans /\ v.clients = p.clients
        /\ v.misplaced = p.misplaced /\ v.byeSent = p.byeSent
        /\ v.deferred = p.deferred /\ v.op = p.op
    BY <2>1, <2>3, ZenonT(90) DEF Open
  <2>5. /\ c = 200 => update_as_uas("B", p, x) =
             belle_sip_dialog_process_queue(
               [v EXCEPT !.state = "CONFIRMED", !.needsAck = TRUE,
                         !.remoteCseq = 1, !.retrans = TRUE])
        /\ c = 603 => update_as_uas("B", p, x) =
             belle_sip_dialog_process_queue(belle_sip_dialog_delete(v))
    <3>1. p.state = "EARLY"
      BY <1>6, <2>1 DEF Agrees
    <3> HIDE DEF v
    <3>2. CASE c = 200
      BY <1>7, <3>1, <3>2 DEF update_as_uas, v, belle_sip_dialog_establish
    <3>3. CASE c = 603
      BY <1>7, <3>1, <3>3 DEF update_as_uas, v, belle_sip_dialog_establish
    <3> QED
      BY <1>7, <3>2, <3>3
  <2> HIDE DEF v
  <2>6. /\ v.state = "EARLY" /\ v.offered = 0 /\ v.out = <<x>> /\ v.queued = 0
        /\ ~v.needsAck /\ ~v.retrans /\ Fresh(v) /\ v.clients = {}
    BY <1>6, <2>1, <2>2, <2>4 DEF Agrees, Fresh
  <2>7. CASE c = 200
    <3> DEFINE w == [v EXCEPT !.state = "CONFIRMED", !.needsAck = TRUE,
                              !.remoteCseq = 1, !.retrans = TRUE]
    <3>1. /\ w \in Open /\ w.state = "CONFIRMED" /\ w.needsAck
          /\ w.remoteCseq = 1 /\ w.out = <<x>> /\ Fresh(w) /\ w.clients = {}
      BY <2>4, <2>6, <2>3, ZenonT(90) DEF Open, Fresh
    <3>2. update_as_uas("B", p, x) = belle_sip_dialog_process_queue(w)
      BY <2>5, <2>7
    <3> HIDE DEF w
    <3>3. update_as_uas("B", p, x) = w
      BY <3>1, <3>2 DEF belle_sip_dialog_process_queue, Fresh
    <3>4. w = update_as_uas("B", Put(u, x), x)
      BY <3>3 DEF p
    <3>5. Joined(w)
      BY <3>1 DEF Joined, Fresh
    <3> QED
      BY <2>7, <3>1, <3>4, <3>5
  <2>8. CASE c = 603
    <3> DEFINE w == belle_sip_dialog_delete(v)
    <3>1. 0 \in Nat /\ 2 \in 0..2
      OBVIOUS
    <3>2. /\ w \in Open /\ w.state = "TERMINATED" /\ w.queued = 0
          /\ w.out = <<x>> /\ w.offered = v.offered /\ w.clients = v.clients
          /\ w.misplaced = v.misplaced /\ w.byeSent = v.byeSent
      BY <2>4, <2>6, <3>1, ZenonT(90) DEF belle_sip_dialog_delete, Open
    <3>3. update_as_uas("B", p, x) = belle_sip_dialog_process_queue(w)
      BY <2>5, <2>8
    <3> HIDE DEF w
    <3>4. update_as_uas("B", p, x) = w
      BY <3>2, <3>3 DEF belle_sip_dialog_process_queue
    <3>5. w = update_as_uas("B", Put(u, x), x)
      BY <3>4 DEF p
    <3>6. Joined(w)
      BY <2>6, <3>2 DEF Joined, Fresh
    <3> QED
      BY <2>8, <3>2, <3>5, <3>6
  <2> QED
    BY <1>7, <2>7, <2>8
<1>8. "B" \in Side /\ Peer("B") = "A"
  BY Peers DEF Side
<1>9. CASE Run("B", net["B"], respond("B", u, m, 200))
  <2>1. 200 \in {200, 603}
    OBVIOUS
  <2>2. PICK w \in Open :
             /\ w = update_as_uas("B", Put(u, Taken), Taken)
             /\ w.out = <<Taken>>
             /\ w.state = "CONFIRMED" /\ w.needsAck
             /\ w.remoteCseq = 1 /\ Joined(w)
    BY <1>4, <1>7, <2>1
  <2>3. respond("B", u, m, 200) = w
    BY <1>4, <2>2 DEF respond
  <2>4. Run("B", net["B"], w)
    BY <1>9, <2>3
  <2>5. /\ Agrees(w, end'["B"])
        /\ net'["A"] = <<Taken>>
    BY <1>4, <1>8, <2>2, <2>4, AnswerGoesOut
  <2> QED
    BY <2>2, <2>5 DEF Agrees, Joined
<1>10. CASE Run("B", net["B"], [respond("B", u, m, 603) EXCEPT !.op = "TERMINATED"])
  <2>1. 603 \in {200, 603}
    OBVIOUS
  <2>2. PICK w \in Open :
             /\ w = update_as_uas("B", Put(u, Refused), Refused)
             /\ w.out = <<Refused>> /\ w.state = "TERMINATED" /\ Joined(w)
    BY <1>4, <1>7, <2>1
  <2> DEFINE x == [w EXCEPT !.op = "TERMINATED"]
  <2>3. respond("B", u, m, 603) = w
    BY <1>4, <2>2 DEF respond
  <2>4. x \in Open /\ x.state = "TERMINATED" /\ x.out = <<Refused>> /\ Joined(x)
    BY <2>2, ZenonT(90) DEF Open, Joined
  <2>5. Run("B", net["B"], x)
    BY <1>10, <2>3
  <2> HIDE DEF x
  <2>6. /\ Agrees(x, end'["B"])
        /\ net'["A"] = <<Refused>>
    BY <1>4, <1>8, <2>4, <2>5, AnswerGoesOut
  <2> QED
    BY <2>4, <2>6 DEF Agrees, Joined
<1> QED
  BY <1>5, <1>9, <1>10

\* The caller hears what the callee answered, and its first message after
\* that is the ACK, if there is one to send.
LEMMA CallerHears ==
    ASSUME Base, Ordered, end["A"] = Calling, net["B"] = <<>>,
           net["A"] # <<>>, NEW m \in {Taken, Refused}, Head(net["A"]) = m,
           Reads("A")
    PROVE  /\ Joined(end'["A"]) /\ net'["A"] = Tail(net["A"])
           /\ m = Taken => /\ end'["A"].state = "CONFIRMED" /\ ~end'["A"].needsAck
                           /\ net'["B"] = <<Ack>>
           /\ m = Refused => end'["A"].state = "TERMINATED" /\ net'["B"] = <<>>
<1> DEFINE d == Begin("A")
           t == [method |-> "INVITE", cseq |-> 1, state |-> "PROCEEDING"]
           u == [d EXCEPT !.clients = (@ \ {t}) \cup Progress(t, m)]
<1>1. "A" \in Side /\ Peer("A") = "B"
  BY Peers DEF Side
<1>2. d \in Open /\ Agrees(d, end["A"]) /\ d.out = <<>>
  BY <1>1, Opens DEF Base
<1>3. /\ d.state = "EARLY" /\ d.op = "ALIVE" /\ d.queued = 0 /\ ~d.needsAck
      /\ d.clients = {t} /\ Fresh(d)
  BY <1>2, ZenonT(90) DEF Calling, RingingEnd, Agrees, Fresh
<1>4. /\ m \in Message /\ m.method = "INVITE" /\ m.cseq = 1
      /\ m.code \in {200, 603}
      /\ m = Taken => m.code = 200
      /\ m = Refused => m.code = 603
  BY DEF Taken, Refused, Response, Message, Requests, Codes
<1>5. Deliverable("A") = {m}
  BY DEF Deliverable
<1>6. Without("A", m) \in Inbox /\ Without("A", m) = Tail(net["A"])
  BY <1>1, <1>5, Delivered DEF Base, Without
<1>7. Notified(t, m)
  BY DEF Notified, Transient
<1>8. Run("A", Without("A", m), notify_response("A", u, m))
  <2> DEFINE ts == {x \in d.clients : x.cseq = m.cseq /\ x.method = m.method
                                        /\ Notified(x, m)}
  <2>1. /\ ~IsRequest(m)
        /\ Run("A", Without("A", m),
               IF ts = {} THEN d
               ELSE LET x == CHOOSE x \in ts : TRUE IN
                    notify_response("A",
                        [d EXCEPT !.clients = (@ \ {x}) \cup Progress(x, m)], m))
    <3>1. ReceiveResponse("A")
      BY <1>4, <1>5 DEF Reads, ReceiveRequest, ReceiveAck, IsRequest
    <3> HIDE DEF d
    <3> QED
      BY <1>5, <3>1 DEF ReceiveResponse, d
  <2>2. ts = {t}
    <3>1. t.cseq = m.cseq /\ t.method = m.method
      BY <1>4
    <3> HIDE DEF t, d
    <3> QED
      BY <1>3, <1>7, <3>1
  <2> HIDE DEF t, d, ts
  <2>3. (CHOOSE x \in ts : TRUE) = t /\ ts # {}
    BY <2>2
  <2> QED
    BY <2>1, <2>3
<1>9. Progress(t, m) \subseteq [method : Requests, cseq : Nat,
                                state : Transient \cup {"ACCEPTED"}]
  BY DEF Progress, Requests, Transient
<1> DEFINE c == Progress(t, m)
<1>15. /\ m.code = 200 => /\ \A a \in c : a.state = "ACCEPTED" /\ a.cseq = 1
                          /\ \A a, b \in c : a = b
       /\ m.code = 603 => c = {}
  BY <1>4 DEF Progress
<1> HIDE DEF t, d, c
<1>10. /\ u \in Open /\ u.state = "EARLY" /\ u.op = "ALIVE" /\ u.queued = 0
       /\ ~u.needsAck /\ u.out = <<>> /\ Fresh(u) /\ u.clients = c
  <2>1. c \in SUBSET [method : Requests, cseq : Nat,
                      state : Transient \cup {"ACCEPTED"}]
    BY <1>9 DEF c
  <2>2. u = [d EXCEPT !.clients = c]
    BY <1>3 DEF c
  <2> HIDE DEF u
  <2> QED
    BY <1>2, <1>3, <2>1, <2>2, ZenonT(90) DEF Open, Fresh
<1> HIDE DEF u
<1> DEFINE v == [u EXCEPT !.last = 1]
<1>11. /\ v \in Open /\ v.state = "EARLY" /\ v.op = "ALIVE" /\ v.queued = 0
       /\ ~v.needsAck /\ v.out = <<>> /\ Fresh(v) /\ v.clients = c
  <2>1. 1 \in Nat
    OBVIOUS
  <2> QED
    BY <1>10, <2>1, ZenonT(90) DEF Open, Fresh
<1>12. ~IsRetransmission(u, m)
  BY <1>10 DEF IsRetransmission
<1>13. CASE m.code = 200
  <2> DEFINE w == [v EXCEPT !.state = "CONFIRMED", !.needsAck = TRUE,
                            !.localCseq = 1, !.outInvite = 1]
             x == [w EXCEPT !.needsAck = FALSE, !.outAck = 1]
             y == Put(x, Ack)
  <2>1. belle_sip_dialog_process_queue(w) = update_as_uac("A", u, m)
    BY <1>4, <1>10, <1>13 DEF update_as_uac, belle_sip_dialog_establish,
       IsRetransmission
  <2> HIDE DEF v
  <2>2. /\ w \in Open /\ w.state = "CONFIRMED" /\ w.op = "ALIVE"
        /\ w.queued = 0 /\ w.needsAck /\ w.localCseq = 1 /\ w.outInvite = 1
        /\ w.out = <<>> /\ Fresh(w) /\ w.clients = c
    <3>1. 1 \in Nat
      OBVIOUS
    <3> QED
      BY <1>11, <3>1, ZenonT(90) DEF Open, Fresh
  <2> HIDE DEF w
  <2>3. update_as_uac("A", u, m) = w
    BY <2>1, <2>2 DEF belle_sip_dialog_process_queue
  <2>4. /\ x \in Open /\ x.state = "CONFIRMED" /\ x.queued = 0
        /\ ~x.needsAck /\ x.out = <<>> /\ x.localCseq = 1 /\ Fresh(x)
        /\ x.clients = c
    <3>1. 1 \in Nat
      OBVIOUS
    <3> QED
      BY <2>2, <3>1, ZenonT(90) DEF Open, Fresh
  <2>5. ack_response(w) = belle_sip_dialog_process_queue(y)
    BY <2>2 DEF ack_response, Ack
  <2> HIDE DEF x
  <2>6. /\ y \in Open /\ y.state = "CONFIRMED" /\ y.queued = 0
        /\ ~y.needsAck /\ y.out = Append(<<>>, Ack) /\ y.localCseq = 1
        /\ Fresh(y) /\ y.clients = c
    <3>1. Ack \in Message
      BY DEF Ack, Request, Message
    <3> QED
      BY <2>4, <3>1, Puts DEF Agrees, Fresh
  <2> HIDE DEF y
  <2>7. call_process_response(w, m) = y
    <3>1. call_process_response(w, m) = ack_response(w)
      BY <1>4, <1>13, <2>2 DEF call_process_response
    <3> QED
      BY <2>5, <2>6, <3>1 DEF belle_sip_dialog_process_queue
  <2>8. notify_response("A", u, m) = y
    BY <1>12, <2>3, <2>6, <2>7 DEF notify_response, belle_sip_dialog_check_ack_sent
  <2>9. Run("A", Without("A", m), y)
    BY <1>8, <2>8
  <2>10. /\ Agrees(y, end'["A"]) /\ net'["A"] = Tail(net["A"])
         /\ net'["B"] = Enqueue(<<>>, Append(<<>>, Ack))
    <3>1. Agrees(y, end'["A"]) /\ net'["B"] = Enqueue(<<>>, Append(<<>>, Ack))
      BY <1>1, <1>6, <2>6, <2>9, Ran DEF Base
    <3>2. net'["A"] = Without("A", m)
      BY <1>1, <1>6, <2>6, <2>9, Ran DEF Base
    <3> QED
      BY <1>6, <3>1, <3>2
  <2>11. net'["B"] = <<Ack>>
    BY <2>10 DEF Enqueue
  <2>12. /\ end'["A"].state = "CONFIRMED" /\ ~end'["A"].needsAck
         /\ end'["A"].localCseq = 1 /\ end'["A"].clients = c /\ Fresh(end'["A"])
    BY <2>6, <2>10 DEF Agrees, Fresh
  <2>13. Joined(end'["A"])
    BY <1>13, <1>15, <2>12 DEF Joined, Fresh
  <2> QED
    BY <1>4, <1>13, <2>10, <2>11, <2>12, <2>13
<1>14. CASE m.code = 603
  <2> DEFINE w == belle_sip_dialog_delete(v)
  <2>1. belle_sip_dialog_process_queue(w) = update_as_uac("A", u, m)
    BY <1>4, <1>10, <1>14 DEF update_as_uac, belle_sip_dialog_establish,
       IsRetransmission
  <2> HIDE DEF v
  <2>2. /\ w \in Open /\ w.state = "TERMINATED" /\ ~w.needsAck /\ w.queued = 0
        /\ w.offered = 0 /\ ~w.misplaced /\ ~w.byeSent /\ w.clients = {}
        /\ w.out = <<>>
    <3>1. 0 \in Nat /\ 2 \in 0..2
      OBVIOUS
    <3>2. w \in Open /\ w.state = "TERMINATED" /\ w.needsAck = v.needsAck
      BY <1>11, DeleteOpen
    <3>3. /\ w.queued = 0 /\ w.clients = c /\ w.out = <<>>
          /\ w.offered = 0 /\ ~w.misplaced /\ ~w.byeSent
      BY <1>11, ZenonT(90) DEF belle_sip_dialog_delete, Open, Fresh
    <3> QED
      BY <1>11, <1>14, <1>15, <3>2, <3>3
  <2> HIDE DEF w
  <2>3. update_as_uac("A", u, m) = w
    BY <2>1, <2>2 DEF belle_sip_dialog_process_queue
  <2>4. call_process_response(w, m) = w
    BY <2>2 DEF call_process_response
  <2>5. notify_response("A", u, m) = w
    BY <1>12, <2>2, <2>3, <2>4 DEF notify_response, belle_sip_dialog_check_ack_sent
  <2>6. Run("A", Without("A", m), w)
    BY <1>8, <2>5
  <2>7. /\ Agrees(w, end'["A"]) /\ net'["A"] = Tail(net["A"])
        /\ net'["B"] = Enqueue(<<>>, <<>>)
    <3>1. Agrees(w, end'["A"]) /\ net'["B"] = Enqueue(<<>>, <<>>)
      BY <1>1, <1>6, <2>2, <2>6, Ran DEF Base
    <3>2. net'["A"] = Without("A", m)
      BY <1>1, <1>6, <2>2, <2>6, Ran DEF Base
    <3> QED
      BY <1>6, <3>1, <3>2
  <2>8. net'["B"] = <<>>
    BY <2>7 DEF Enqueue
  <2>9. end'["A"].state = "TERMINATED" /\ Joined(end'["A"])
    BY <2>2, <2>7 DEF Agrees, Joined
  <2> QED
    BY <1>4, <1>14, <2>7, <2>8, <2>9
<1> QED
  BY <1>4, <1>13, <1>14

\* The ACK stops the timers of the 200 Ok.
LEMMA CalleeReadsAck ==
    ASSUME Base, Ordered, end["B"].needsAck, end["B"].remoteCseq = 1,
           net["B"] # <<>>, Head(net["B"]) = Ack, Reads("B")
    PROVE  ~end'["B"].retrans
<1> DEFINE d == Begin("B")
           u == [d EXCEPT !.needsAck = FALSE, !.retrans = FALSE]
           v == belle_sip_dialog_process_queue(u)
<1>1. d \in Open /\ Agrees(d, end["B"])
  BY Opens DEF Base, Side
<1>2. d.needsAck /\ d.remoteCseq = 1 /\ d.state = "CONFIRMED"
  BY <1>1 DEF Base, Fine, Waits, Side, Agrees
<1>3. Ack.method = "ACK" /\ Ack.cseq = 1 /\ Ack.code = 0
  BY DEF Ack, Request
<1>4. Deliverable("B") = {Ack}
  BY DEF Deliverable
<1>5. Without("B", Ack) \in Inbox
  BY <1>4, Delivered DEF Base, Side
<1>6. Run("B", Without("B", Ack), belle_sip_dialog_handle_ack(d, Ack))
  BY <1>3, <1>4 DEF Reads, ReceiveRequest, ReceiveAck, ReceiveResponse, IsRequest
<1> HIDE DEF d
<1>7. belle_sip_dialog_handle_ack(d, Ack) = v
  BY <1>2, <1>3 DEF belle_sip_dialog_handle_ack
<1>8. u \in Open /\ ~u.retrans
  BY <1>1 DEF Open
<1> HIDE DEF u
<1>9. v \in Open /\ ~v.retrans
  BY <1>8, ProcessQueueOpen DEF Kept
<1>10. Run("B", Without("B", Ack), v)
  BY <1>6, <1>7
<1> HIDE DEF v
<1>11. Agrees(v, end'["B"])
  BY <1>5, <1>9, <1>10, Ran DEF Base, Side
<1> QED
  BY <1>9, <1>11 DEF Agrees


\* The caller keeps its call as it is until it hears from the callee.
LEMMA CallerWaits ==
    ASSUME Ordered, end["A"] = Calling
    PROVE  ~Acts("A")
<1>1. /\ end["A"].state = "EARLY" /\ ~end["A"].retrans
      /\ end["A"].offered = 0 /\ end["A"].deferred = 0
  BY DEF Calling, RingingEnd
<1> QED
  BY <1>1 DEF Acts, Timeout, dialog_on_200Ok_timer, dialog_on_200Ok_end,
     sal_call_accept, sal_call_decline, sal_call_update, sal_call_send_dtmf,
     sal_call_terminate, process_dialog_terminated, call_set_released

\* What the caller does keeps Opening.
LEMMA CallerKeepsOpening ==
    ASSUME Base, Ordered, Opening, Reads("A") \/ Acts("A")
    PROVE  Opening'
<1>1. "A" \in Side /\ "B" \in Side /\ Peer("A") = "B"
  BY Peers DEF Side
<1>2. /\ Onward(end["A"], end'["A"]) /\ end'["B"] = end["B"]
      /\ net["B"] # <<>> => net'["B"] # <<>> /\ Head(net'["B"]) = Head(net["B"])
  BY <1>1, Steps DEF Moved
<1>3. end["B"].retrans => end["B"].state = "CONFIRMED"
  BY <1>1 DEF Base, Fine, Waits
<1>4. CASE end["A"].state = "EARLY"
  <2>1. end["A"] = Calling /\ net["B"] = <<>>
    BY <1>4 DEF Opening
  <2>2. Reads("A") /\ net["A"] # <<>>
    BY <2>1, <1>1, CallerWaits, NothingToRead
  <2>3. end["B"].state # "EARLY"
    BY <2>2 DEF Opening
  <2>4. PICK m \in {Taken, Refused} :
              Head(net["A"]) = m /\ (m = Refused => end["B"].state = "TERMINATED")
    BY <1>4, <2>3 DEF Opening, Taken, Refused, Response
  <2>5. /\ end'["A"].state # "EARLY"
        /\ m = Taken => net'["B"] # <<>> /\ Head(net'["B"]) = Ack
    BY <2>1, <2>2, <2>4, CallerHears DEF Joined
  <2>6. end["B"].retrans => net'["B"] # <<>> /\ Head(net'["B"]) = Ack
    BY <1>3, <2>4, <2>5
  <2>7. end["B"].retrans =>
          end["B"].needsAck /\ end["B"].remoteCseq = 1 /\ end["B"].offered = 0
    BY DEF Opening, Awaiting
  <2>8. Ack' = Ack
    BY DEF Ack, Request
  <2> QED
    BY <1>2, <2>3, <2>5, <2>6, <2>7, <2>8 DEF Opening, Awaiting
<1>5. CASE end["A"].state # "EARLY"
  <2>1. end'["A"].state # "EARLY" /\ end["B"].state # "EARLY"
    BY <1>2, <1>5 DEF Opening, Onward
  <2>2. Ack' = Ack
    BY DEF Ack, Request
  <2>3. end["B"].retrans => Awaiting
    BY DEF Opening
  <2>4. end["B"].retrans =>
          /\ end["B"].needsAck /\ end["B"].remoteCseq = 1 /\ end["B"].offered = 0
          /\ net'["B"] # <<>> /\ Head(net'["B"]) = Ack
    BY <1>2, <1>5, <2>3 DEF Awaiting
  <2> QED
    BY <1>2, <2>1, <2>2, <2>4 DEF Opening, Awaiting
<1> QED
  BY <1>4, <1>5

\* What the callee does keeps Opening.
LEMMA CalleeKeepsOpening ==
    ASSUME Base, Ordered, Opening, Reads("B") \/ Acts("B")
    PROVE  Opening'
<1>1. "A" \in Side /\ "B" \in Side /\ Peer("B") = "A"
  BY Peers DEF Side
<1>2. /\ Base' /\ Onward(end["B"], end'["B"]) /\ end'["A"] = end["A"]
      /\ net["A"] # <<>> => net'["A"] # <<>> /\ Head(net'["A"]) = Head(net["A"])
  BY <1>1, Steps DEF Moved
<1>3. /\ end["B"].retrans => end["B"].state = "CONFIRMED"
      /\ end'["B"].retrans => end'["B"].state = "CONFIRMED"
  BY <1>1, <1>2 DEF Base, Fine, Waits
<1>4. Ack' = Ack /\ Calling' = Calling /\ Taken' = Taken /\ Refused' = Refused
  BY DEF Ack, Request, Calling, RingingEnd, Taken, Refused, Response
<1>5. CASE end["A"].state = "EARLY"
  <2>1. end["A"] = Calling /\ net["B"] = <<>>
    BY <1>5 DEF Opening
  <2>2. Acts("B") /\ ~Reads("B")
    BY <1>1, <2>1, NothingToRead
  <2>3. end'["A"] = Calling /\ net'["B"] = <<>>
    BY <1>1, <1>2, <2>1, <2>2, Unread DEF Base
  <2>4. CASE end["B"].state = "EARLY"
    <3>1. end["B"] = Called /\ net["A"] = <<>>
      BY <2>4 DEF Opening
    <3>2. /\ end'["B"].state # "EARLY" /\ net'["A"] # <<>>
          /\ \/ /\ Head(net'["A"]) = Taken
                /\ end'["B"].needsAck /\ end'["B"].remoteCseq = 1
                /\ end'["B"].offered = 0
             \/ Head(net'["A"]) = Refused /\ end'["B"].state = "TERMINATED"
      <4>1. /\ Joined(end'["B"])
            /\ \/ /\ net'["A"] = <<Taken>> /\ end'["B"].state = "CONFIRMED"
                  /\ end'["B"].needsAck /\ end'["B"].remoteCseq = 1
               \/ net'["A"] = <<Refused>> /\ end'["B"].state = "TERMINATED"
        BY <2>2, <3>1, CalleeAnswers
      <4>2. /\ <<Taken>> # <<>> /\ Head(<<Taken>>) = Taken
            /\ <<Refused>> # <<>> /\ Head(<<Refused>>) = Refused
        OBVIOUS
      <4> QED
        BY <4>1, <4>2 DEF Joined
    <3>3. end'["A"].state = "EARLY"
      BY <1>2, <1>5
    <3> QED
      BY <1>3, <1>4, <2>3, <3>2, <3>3 DEF Opening, Awaiting
  <2>5. CASE end["B"].state # "EARLY"
    <3>1. /\ net["A"] # <<>>
          /\ \/ Head(net["A"]) = Taken
             \/ Head(net["A"]) = Refused /\ end["B"].state = "TERMINATED"
      BY <1>5, <2>5 DEF Opening
    <3>2. end["B"].state = "TERMINATED" => end'["B"].state = "TERMINATED"
      BY <1>2, <1>3, <2>5 DEF Onward
    <3>3. end'["B"].retrans => end["B"].retrans
      BY <1>2, <2>5 DEF Onward
    <3>4. end["B"].retrans =>
            /\ end'["B"].needsAck /\ end'["B"].remoteCseq = 1
            /\ end'["B"].offered = 0
      BY <1>1, <2>2, Undisturbed DEF Opening, Awaiting
    <3>5. end'["B"].state # "EARLY" /\ end'["A"].state = "EARLY"
      BY <1>2, <1>5, <2>5 DEF Onward
    <3> QED
      BY <1>2, <1>4, <2>3, <3>1, <3>2, <3>3, <3>4, <3>5 DEF Opening, Awaiting
  <2> QED
    BY <2>4, <2>5
<1>6. CASE end["A"].state # "EARLY"
  <2>1. /\ end["B"].state # "EARLY" /\ end'["B"].state # "EARLY"
        /\ end'["A"].state # "EARLY" /\ (end'["B"].retrans => end["B"].retrans)
    BY <1>2, <1>6 DEF Opening, Onward
  <2>2. end["B"].retrans =>
          /\ end["B"].needsAck /\ end["B"].remoteCseq = 1 /\ end["B"].offered = 0
          /\ net["B"] # <<>> /\ Head(net["B"]) = Ack
    BY <1>6 DEF Opening, Awaiting
  <2>3. CASE Reads("B")
    <3>1. ~end'["B"].retrans
      BY <2>1, <2>2, <2>3, CalleeReadsAck
    <3> QED
      BY <2>1, <3>1 DEF Opening
  <2>4. CASE Acts("B")
    <3>1. net'["B"] = net["B"]
      BY <1>1, <2>4, Unread DEF Base
    <3>2. end["B"].retrans =>
            /\ end'["B"].needsAck /\ end'["B"].remoteCseq = 1
            /\ end'["B"].offered = 0
      BY <1>1, <2>2, <2>4, Undisturbed
    <3> QED
      BY <1>4, <2>1, <2>2, <3>1, <3>2 DEF Opening, Awaiting
  <2> QED
    BY <2>3, <2>4
<1> QED
  BY <1>5, <1>6

\* The invariant of a call over TCP, and of its two ends over UDP.
FirstAck == Base /\ (Ordered => Opening)

\* Before anybody answers.
LEMMA InitFirstAck == Init => FirstAck
<1> SUFFICES ASSUME Init, Ordered PROVE Opening
  BY InitBase DEF FirstAck
<1>1. /\ end = [s \in Side |-> IF s = "A" THEN Calling ELSE Called]
      /\ net = [s \in Side |-> <<>>]
  BY DEF Init, Calling, Called
<1>2. end["A"] = Calling /\ end["B"] = Called /\ net["A"] = <<>> /\ net["B"] = <<>>
  BY <1>1 DEF Side
<1>3. Calling.state = "EARLY" /\ Called.state = "EARLY" /\ ~Called.retrans
  BY DEF Calling, Called, RingingEnd
<1> QED
  BY <1>2, <1>3 DEF Opening

\* Each step of either end keeps the invariant.
LEMMA NextFirstAck == FirstAck /\ [Next]_vars => FirstAck'
<1> SUFFICES ASSUME FirstAck, [Next]_vars PROVE FirstAck'
  OBVIOUS
<1>1. Base'
  BY NextBase DEF FirstAck
<1>2. CASE UNCHANGED vars
  <2>1. Ordered' = Ordered /\ Opening' = Opening
    BY <1>2 DEF vars, Ordered, Opening, Awaiting, Calling, Called, RingingEnd,
                Taken, Refused, Ack, Request, Response
  <2> QED
    BY <1>1, <2>1 DEF FirstAck
<1>3. CASE Next
  <2>1. PICK s \in Side : Reads(s) \/ Acts(s)
    BY <1>3 DEF Next, Reads, Acts
  <2>2. Moved(s)
    BY <2>1, ReceiveKeepsBase, ResponseKeepsBase, TimersKeepBase,
       UsersKeepBase, NoticesKeepBase DEF FirstAck, Reads, Acts
  <2>3. Ordered' = Ordered
    BY <2>2 DEF Moved, Ordered
  <2>4. ASSUME Ordered PROVE Opening'
    BY <2>1, <2>4, CallerKeepsOpening, CalleeKeepsOpening DEF FirstAck, Side
  <2> QED
    BY <1>1, <2>3, <2>4 DEF FirstAck
<1> QED
  BY <1>2, <1>3

-----------------------------------------------------------------------------
(* The messages under way, told apart by their kind and their place.       *)

Invites     == {m \in Message : m.method = "INVITE" /\ m.code = 0}
Trials      == {m \in Message : m.method = "INVITE" /\ m.code = 100}
Finals      == {m \in Message : m.method = "INVITE" /\ m.code \notin {0, 100}}
Answers     == Trials \cup Finals
OkFor(n)    == {m \in Message : m.method = "INVITE" /\ m.code = 200 /\ m.cseq = n}
Oks         == {m \in Message : m.method = "INVITE" /\ m.code = 200}
Byes        == {m \in Message : m.method = "BYE" /\ m.code = 0}
ByeAnswers  == {m \in Message : m.method = "BYE" /\ m.code # 0}
Strange     == {m \in Message : m.method = "INFO" \/ (m.method = "ACK" /\ m.code # 0)}

\* INVITEs of another CSeq than those of the set cs, and answers to them.
Foreign(cs) == {m \in Invites : m.cseq \notin cs}
Unasked(cs) == {m \in Answers : m.cseq \notin cs}

\* What ends the wait for the ACK of the INVITE of CSeq n.
Settling(n) == {m \in Message : m.method = "ACK" /\ m.cseq = n} \cup Byes

\* The inbox q holds a message of S, no two of them; all its messages of S
\* come before all of T; one of S comes before all of T.
Has(q, S)       == \E i \in 1..Len(q) : q[i] \in S
Once(q, S)      == \A i, j \in 1..Len(q) : q[i] \in S /\ q[j] \in S => i = j
Before(q, S, T) == \A i, j \in 1..Len(q) : q[i] \in S /\ q[j] \in T => i < j
Leads(q, S, T)  == \E i \in 1..Len(q) :
                      q[i] \in S /\ \A j \in 1..Len(q) : q[j] \in T => i < j

\* z is the inbox q without its first message m.
Cuts(q, m, z) ==
    /\ \A S : m \in S => Has(q, S)
    /\ \A S : Has(z, S) => Has(q, S)
    /\ \A S : Has(q, S) => m \in S \/ Has(z, S)
    /\ \A S : Once(q, S) => Once(z, S)
    /\ \A S : Once(q, S) /\ m \in S => ~Has(z, S)
    /\ \A S, T : Before(q, S, T) => Before(z, S, T)
    /\ \A S, T : Before(q, S, T) /\ m \in T => ~Has(q, S)
    /\ \A S, T : Leads(q, S, T) => Leads(z, S, T) \/ m \in S
    /\ \A S, T : Leads(q, S, T) => m \notin T

\* z is the inbox q with m behind the others.
Grows(q, m, z) ==
    /\ \A S : Has(z, S) <=> Has(q, S) \/ m \in S
    /\ \A S : Once(q, S) /\ (m \in S => ~Has(q, S)) => Once(z, S)
    /\ \A S, T : Before(q, S, T) /\ (m \in S => ~Has(q, T) /\ m \notin T)
                    => Before(z, S, T)
    /\ \A S, T : Leads(q, S, T) => Leads(z, S, T)
    /\ \A S, T : m \in S /\ m \notin T /\ ~Has(q, T) => Leads(z, S, T)

\* The first message of an inbox is read.
LEMMA Cut ==
    ASSUME NEW q \in Seq(Message), q # <<>>
    PROVE  /\ Tail(q) \in Seq(Message) /\ Head(q) \in Message
           /\ Cuts(q, Head(q), Tail(q))
<1> DEFINE m == Head(q)
           z == Tail(q)
<1>1. /\ z \in Seq(Message) /\ Len(q) \in Nat \ {0} /\ Len(z) = Len(q) - 1
      /\ \A i \in 1..Len(z) : z[i] = q[i + 1]
      /\ m = q[1] /\ m \in Message
  OBVIOUS
<1> HIDE DEF m, z
<1>2. /\ 1 \in 1..Len(q)
      /\ \A i \in 1..Len(z) : i + 1 \in 1..Len(q)
      /\ \A i \in 1..Len(q) : i = 1 \/ (i - 1 \in 1..Len(z) /\ z[i - 1] = q[i])
  BY <1>1
<1>3. \A S : /\ m \in S => Has(q, S)
             /\ Has(z, S) => Has(q, S)
             /\ Has(q, S) => m \in S \/ Has(z, S)
  BY <1>1, <1>2 DEF Has
<1>4. \A S : /\ Once(q, S) => Once(z, S)
             /\ Once(q, S) /\ m \in S => ~Has(z, S)
  BY <1>1, <1>2 DEF Has, Once
<1>5. \A S, T : /\ Before(q, S, T) => Before(z, S, T)
                /\ Before(q, S, T) /\ m \in T => ~Has(q, S)
  BY <1>1, <1>2 DEF Has, Before
<1>6. \A S, T : /\ Leads(q, S, T) => Leads(z, S, T) \/ m \in S
                /\ Leads(q, S, T) => m \notin T
  BY <1>1, <1>2, SMTT(60) DEF Leads
<1> QED
  BY <1>1, <1>3, <1>4, <1>5, <1>6 DEF m, z, Cuts

\* A message is put behind the others.
LEMMA Grow ==
    ASSUME NEW q \in Seq(Message), NEW m \in Message
    PROVE  Append(q, m) \in Seq(Message) /\ Grows(q, m, Append(q, m))
<1> DEFINE z == Append(q, m)
<1>1. /\ z \in Seq(Message) /\ Len(q) \in Nat /\ Len(z) = Len(q) + 1
      /\ \A i \in 1..Len(q) : z[i] = q[i]
      /\ z[Len(q) + 1] = m
  OBVIOUS
<1> HIDE DEF z
<1>2. /\ \A i \in 1..Len(q) : i \in 1..Len(z)
      /\ Len(z) \in 1..Len(z) /\ z[Len(z)] = m
      /\ \A i \in 1..Len(z) : i = Len(z) \/ (i \in 1..Len(q) /\ i < Len(z))
  BY <1>1
<1>3. \A S : Has(z, S) <=> Has(q, S) \/ m \in S
  BY <1>1, <1>2 DEF Has
<1>4. \A S : Once(q, S) /\ (m \in S => ~Has(q, S)) => Once(z, S)
  BY <1>1, <1>2 DEF Has, Once
<1>5. \A S, T : Before(q, S, T) /\ (m \in S => ~Has(q, T) /\ m \notin T)
                                => Before(z, S, T)
  BY <1>1, <1>2 DEF Has, Before
<1>6. \A S, T : Leads(q, S, T) => Leads(z, S, T)
  BY <1>1, <1>2 DEF Leads
<1>7. \A S, T : m \in S /\ m \notin T /\ ~Has(q, T) => Leads(z, S, T)
  BY <1>1, <1>2 DEF Has, Leads
<1> QED
  BY <1>1, <1>3, <1>4, <1>5, <1>6, <1>7 DEF z, Grows

\* What holds of any inbox.
LEMMA Sorts ==
    ASSUME NEW q \in Seq(Message)
    PROVE  /\ \A S, T : S \subseteq T /\ Has(q, S) => Has(q, T)
           /\ \A S, T : Has(q, S \cup T) <=> Has(q, S) \/ Has(q, T)
           /\ \A S, T : ~Has(q, S) \/ ~Has(q, T) => Before(q, S, T)
           /\ \A S, T : Has(q, S) /\ ~Has(q, T) => Leads(q, S, T)
           /\ Has(q, Answers) <=> Has(q, Trials) \/ Has(q, Finals)
           /\ Has(q, Oks) => Has(q, Finals)
           /\ \A n : Has(q, OkFor(n)) => Has(q, Oks)
           /\ \A cs : Has(q, Foreign(cs)) => Has(q, Invites)
           /\ \A cs : Has(q, Unasked(cs)) => Has(q, Answers)
           /\ \A cs : cs = {} /\ Has(q, Invites) => Has(q, Foreign(cs))
           /\ \A cs : cs = {} /\ Has(q, Answers) => Has(q, Unasked(cs))
<1>1. \A S, T : S \subseteq T /\ Has(q, S) => Has(q, T)
  BY DEF Has
<1>2. \A S, T : Has(q, S \cup T) <=> Has(q, S) \/ Has(q, T)
  BY DEF Has
<1>3. \A S, T : ~Has(q, S) \/ ~Has(q, T) => Before(q, S, T)
  BY DEF Has, Before
<1>4. \A S, T : Has(q, S) /\ ~Has(q, T) => Leads(q, S, T)
  BY DEF Has, Leads
<1>5. Has(q, Answers) <=> Has(q, Trials) \/ Has(q, Finals)
  BY <1>2 DEF Answers
<1>6. Oks \subseteq Finals /\ \A n : OkFor(n) \subseteq Oks
  BY DEF Oks, Finals, OkFor
<1>7. \A cs : /\ Foreign(cs) \subseteq Invites /\ Unasked(cs) \subseteq Answers
              /\ cs = {} => Foreign(cs) = Invites /\ Unasked(cs) = Answers
  BY DEF Foreign, Unasked
<1> QED
  BY <1>1, <1>2, <1>3, <1>4, <1>5, <1>6, <1>7

\* An empty inbox.
LEMMA Nothing ==
    /\ \A S : ~Has(<<>>, S) /\ Once(<<>>, S)
    /\ \A S, T : Before(<<>>, S, T)
BY DEF Has, Once, Before

-----------------------------------------------------------------------------
(* What ties an end to the two inboxes, over TCP and with users who let a   *)
(* re-INVITE end before the next.                                           *)

\* The CSeqs of the INVITEs of an end that have no final response yet; it is
\* about to hang up or has; its latest transaction waits for a response.
Pend(d)   == {t.cseq : t \in {u \in d.clients :
                                u.method = "INVITE" /\ u.state \in Transient}}
Gone(d)   == d.op # "ALIVE" \/ d.state = "TERMINATED"
Latest(d) == \E t \in d.clients : t.cseq = d.last /\ t.state \in Transient

\* An INVITE under way is one that the end e waits for, alone, and without any
\* answer in the other direction.
Asked(q, e, r) ==
    /\ ~Has(q, Foreign(Pend(e)))
    /\ Once(q, Invites)
    /\ Has(q, Invites) => ~Has(r, Answers)

\* An answer under way is one that the end d waits for; its 100 comes before
\* its final response.
Replied(d, q) ==
    /\ ~Has(q, Unasked(Pend(d)))
    /\ Once(q, Finals)
    /\ Before(q, Trials, Finals)

\* An INVITE of d that waits for its final response is in one of the inboxes.
Located(d, q, r) ==
    d.state # "EARLY" /\ Pend(d) # {} => Has(r, Invites) \/ Has(q, Finals)

\* A BYE comes from an end that hung up, the answer to one from an end that
\* deleted its dialog; neither is followed by an INVITE.
Closing(q, e) ==
    /\ Has(q, Byes) => e.byeSent
    /\ Has(q, ByeAnswers) => e.state = "TERMINATED"
    /\ Before(q, Invites, Byes) /\ Before(q, Invites, ByeAnswers)

\* A BYE is under way until the other end has heard of it.
Told(d, q, e) == e.byeSent => Gone(d) \/ Has(q, Byes)

\* An end that deleted its dialog gets no INVITE any more.
Ended(d, q, e, r) == d.state = "TERMINATED" =>
    /\ ~Has(q, Invites)
    /\ Gone(e) \/ (e.state = "EARLY" /\ r = <<Refused>>)

\* An end whose INVITE has no final response either refuses the INVITE that
\* comes next because of it, or has refused one already, and then the other
\* end hears that before it asks again.
Turn(d, q, r) == d.state # "TERMINATED" /\ Pend(d) # {} =>
    \/ Latest(d)
    \/ /\ ~Has(q, Invites)
       /\ Has(r, Invites) /\ Has(r, Finals) /\ Before(r, Invites, Finals)
    \/ Has(q, Finals) /\ Before(q, Finals, Invites)

\* An end that needs an ACK gets it, or a BYE, before anything else about an
\* INVITE; until then the 200 Ok is under way.
Owed(d, q, r) == ~Gone(d) /\ d.needsAck =>
    \/ /\ Has(r, OkFor(d.remoteCseq)) /\ Before(r, Oks, Invites)
       /\ ~Has(q, Answers)
    \/ Leads(q, Settling(d.remoteCseq), Invites \cup Answers)

\* An end that accepts an INVITE has none of its own that was sent before.
Yield(q, e) == Has(q, Oks) /\ Pend(e) # {} =>
    Has(q, Invites) /\ Before(q, Oks, Invites)

\* All of this for the end d, whose inbox is q, and its peer e, whose is r.
Talk(d, q, e, r) ==
    /\ ~Has(q, Strange)
    /\ Asked(q, e, r) /\ Replied(d, q) /\ Located(d, q, r)
    /\ Closing(q, e) /\ Told(d, q, e) /\ Ended(d, q, e, r)
    /\ Turn(d, q, r) /\ Owed(d, q, r) /\ Yield(q, e)

\* What Talk sees of an end, but for what it needs and expects.
Alike(d, u) == u.state = d.state /\ u.op = d.op /\ u.byeSent = d.byeSent

\* The messages that are sent are of these kinds.
LEMMA Sent ==
    ASSUME NEW c \in Nat
    PROVE  /\ Request("INVITE", c) \in Invites /\ Request("INVITE", c).cseq = c
           /\ Request("BYE", c) \in Byes
           /\ Request("ACK", c) \in Message /\ Request("ACK", c) \in Settling(c)
           /\ Response("INVITE", c, 100) \in Trials
           /\ Response("INVITE", c, 200) \in OkFor(c)
           /\ \A code \in Codes : code # 100 => Response("INVITE", c, code) \in Finals
           /\ \A code \in Codes : Response("BYE", c, code) \in ByeAnswers
BY DEF Request, Response, Message, Requests, Codes, Invites, Byes, Settling,
       Trials, OkFor, Finals, ByeAnswers

\* The kinds of messages are disjoint.
LEMMA Kinds ==
    ASSUME NEW m \in Message
    PROVE  /\ m \in Invites => /\ m \notin Answers /\ m \notin Finals /\ m \notin Trials
                               /\ m \notin Oks /\ m \notin Byes
                               /\ m \notin ByeAnswers /\ m \notin Strange
                               /\ \A n : m \notin OkFor(n) /\ m \notin Settling(n)
                               /\ \A cs : m \notin Unasked(cs)
                               /\ \A cs : m \in Foreign(cs) <=> m.cseq \notin cs
           /\ m \in Answers => /\ m \notin Invites /\ m \notin Byes
                               /\ m \notin ByeAnswers /\ m \notin Strange
                               /\ m \in Trials \/ m \in Finals
                               /\ \A n : m \notin Settling(n)
                               /\ \A cs : m \notin Foreign(cs)
                               /\ \A cs : m \in Unasked(cs) <=> m.cseq \notin cs
           /\ m \in Trials => m \in Answers /\ m \notin Finals /\ m \notin Oks
                              /\ \A n : m \notin OkFor(n)
           /\ m \in Finals => m \in Answers /\ m \notin Trials
           /\ m \in Oks => m \in Finals
           /\ \A n : m \in OkFor(n) <=> m \in Oks /\ m.cseq = n
           /\ m.method \in {"BYE", "ACK"} =>
                 /\ m \notin Invites /\ m \notin Answers /\ m \notin Finals
                 /\ m \notin Trials /\ m \notin Oks
                 /\ \A n : m \notin OkFor(n)
                 /\ \A cs : m \notin Unasked(cs) /\ m \notin Foreign(cs)
           /\ m \in Byes => /\ m.method = "BYE" /\ m \notin ByeAnswers
                            /\ m \notin Strange /\ \A n : m \in Settling(n)
           /\ m \in ByeAnswers => /\ m.method = "BYE" /\ m \notin Byes
                                  /\ m \notin Strange /\ \A n : m \notin Settling(n)
           /\ m.method = "ACK" /\ m.code = 0 =>
                 /\ m \notin Byes /\ m \notin ByeAnswers /\ m \notin Strange
                 /\ \A n : m \in Settling(n) <=> m.cseq = n
<1>1. m.method \in {"INVITE", "INFO", "BYE", "ACK"} /\ m.code \in {0} \cup Codes
  BY DEF Message, Requests
<1> QED
  BY <1>1 DEF Codes, Invites, Trials, Finals, Answers, OkFor, Oks, Byes,
     ByeAnswers, Strange, Foreign, Unasked, Settling

-----------------------------------------------------------------------------
(* What each thing that an end does leaves of Talk.                        *)

\* An end without an INVITE of its own accepts one.
LEMMA Accepts ==
    ASSUME NEW d, NEW e, NEW q \in Seq(Message), NEW r \in Seq(Message),
           Talk(d, q, e, r), Talk(e, r, d, q),
           NEW m \in Message, NEW z \in Seq(Message), Cuts(q, m, z),
           m \in Invites,
           d.state = "CONFIRMED", ~Latest(d), e.state # "EARLY",
           NEW u, Alike(d, u), Pend(u) = Pend(d), u.remoteCseq = m.cseq,
           NEW a \in Trials, a.cseq = m.cseq, NEW b \in OkFor(m.cseq), b.cseq = m.cseq,
           NEW y \in Seq(Message), Grows(r, a, y),
           NEW x \in Seq(Message), Grows(y, b, x)
    PROVE  Talk(u, z, e, x) /\ Talk(e, x, u, z)
<1>1. m \in Message /\ z \in Seq(Message) /\ Cuts(q, m, z)
  OBVIOUS
<1>2. a \in Trials /\ a \in Message /\ b \in OkFor(m.cseq) /\ b \in Message
      /\ a.cseq = m.cseq /\ b.cseq = m.cseq
  BY DEF Trials, OkFor
<1>4. y \in Seq(Message) /\ Grows(r, a, y)
  OBVIOUS
<1>5. x \in Seq(Message) /\ Grows(y, b, x)
  OBVIOUS
<1>6. Has(q, Invites) /\ ~Has(z, Invites) /\ ~Has(q, Foreign(Pend(e)))
  BY <1>1 DEF Talk, Asked, Cuts
<1>7. ~Has(r, Answers) /\ m.cseq \in Pend(e)
  BY <1>1, <1>6, Kinds DEF Talk, Asked, Cuts
<1>8. Pend(d) = {}
  BY <1>1, Sorts DEF Talk, Turn, Cuts
<1>9. ~Has(q, Answers) /\ ~Has(r, Invites)
  BY <1>8, Sorts DEF Talk, Asked, Replied
<1>10. Talk(u, z, e, x)
  <2>1. ~Has(z, Strange)
    BY <1>1 DEF Talk, Cuts
  <2>2. Asked(z, e, x)
    BY <1>1, <1>6, Sorts DEF Talk, Asked, Cuts
  <2>3. Replied(u, z)
    BY <1>1 DEF Talk, Replied, Cuts
  <2>4. Located(u, z, x) /\ Turn(u, z, x)
    BY <1>8 DEF Located, Turn
  <2>5. Closing(z, e)
    BY <1>1 DEF Talk, Closing, Cuts
  <2>6. Told(u, z, e)
    BY <1>1, Kinds DEF Talk, Told, Cuts, Alike, Gone
  <2>7. Ended(u, z, e, x)
    BY DEF Ended, Alike
  <2>8. Owed(u, z, x)
    BY <1>1, <1>2, <1>4, <1>5, <1>9, Sorts, Kinds DEF Talk, Owed, Cuts, Grows
  <2>9. Yield(z, e)
    BY <1>1, <1>9, Sorts DEF Yield, Cuts
  <2> QED
    BY <2>1, <2>2, <2>3, <2>4, <2>5, <2>6, <2>7, <2>8, <2>9 DEF Talk
<1>11. Talk(e, x, u, z)
  <2>1. ~Has(x, Strange)
    BY <1>2, <1>4, <1>5, Kinds DEF Talk, Grows
  <2>2. Asked(x, u, z)
    BY <1>1, <1>2, <1>4, <1>5, <1>9, Kinds, Sorts DEF Talk, Asked, Grows
  <2>3. Replied(e, x)
    BY <1>2, <1>4, <1>5, <1>7, Sorts, Kinds DEF Talk, Replied, Grows
  <2>4. Located(e, x, z)
    BY <1>2, <1>5, Kinds DEF Located, Grows
  <2>5. Closing(x, u)
    BY <1>2, <1>4, <1>5, Kinds DEF Talk, Closing, Grows, Alike
  <2>6. Told(e, x, u)
    BY <1>4, <1>5, Kinds DEF Talk, Told, Grows, Alike
  <2>7. Ended(e, x, u, z)
    BY <1>2, <1>4, <1>5, Kinds DEF Talk, Ended, Alike, Grows, Gone
  <2>8. Turn(e, x, z)
    BY <1>2, <1>4, <1>5, <1>9, Sorts, Kinds DEF Turn, Grows
  <2>9. Owed(e, x, z)
    BY <1>4, <1>5, <1>9, Sorts DEF Talk, Owed, Grows
  <2>10. Yield(x, u)
    BY <1>8 DEF Yield
  <2> QED
    BY <2>1, <2>2, <2>3, <2>4, <2>5, <2>6, <2>7, <2>8, <2>9, <2>10 DEF Talk
<1> QED
  BY <1>10, <1>11

\* An end refuses an INVITE for the time being.
LEMMA Refuses ==
    ASSUME NEW d, NEW e, NEW q \in Seq(Message), NEW r \in Seq(Message),
           Talk(d, q, e, r), Talk(e, r, d, q),
           NEW m \in Message, NEW z \in Seq(Message), Cuts(q, m, z),
           m \in Invites,
           d.state = "CONFIRMED", e.state # "EARLY",
           NEW u, Alike(d, u), Pend(u) = Pend(d), ~u.needsAck,
           NEW a \in Trials, a.cseq = m.cseq, NEW b \in Finals \ Oks, b.cseq = m.cseq,
           NEW y \in Seq(Message), Grows(r, a, y),
           NEW x \in Seq(Message), Grows(y, b, x)
    PROVE  Talk(u, z, e, x) /\ Talk(e, x, u, z)
<1>1. m \in Message /\ z \in Seq(Message) /\ Cuts(q, m, z)
  OBVIOUS
<1>2. /\ a \in Trials /\ a \in Message /\ b \in Finals /\ b \in Message
      /\ b \notin Oks /\ a.cseq = m.cseq /\ b.cseq = m.cseq
  BY DEF Trials, Finals
<1>4. y \in Seq(Message) /\ Grows(r, a, y)
  OBVIOUS
<1>5. x \in Seq(Message) /\ Grows(y, b, x)
  OBVIOUS
<1>6. Has(q, Invites) /\ ~Has(z, Invites) /\ ~Has(q, Foreign(Pend(e)))
  BY <1>1 DEF Talk, Asked, Cuts
<1>7. ~Has(r, Answers) /\ m.cseq \in Pend(e)
  BY <1>1, <1>6, Kinds DEF Talk, Asked, Cuts
<1>8. ~Has(q, Oks)
  BY <1>1, <1>7 DEF Talk, Yield, Cuts
<1>9. Talk(u, z, e, x)
  <2>1. ~Has(z, Strange)
    BY <1>1 DEF Talk, Cuts
  <2>2. Asked(z, e, x)
    BY <1>1, <1>6, Sorts DEF Talk, Asked, Cuts
  <2>3. Replied(u, z)
    BY <1>1 DEF Talk, Replied, Cuts
  <2>4. Located(u, z, x)
    BY <1>1, <1>4, <1>5, Kinds DEF Talk, Located, Cuts, Grows, Alike
  <2>5. Closing(z, e)
    BY <1>1 DEF Talk, Closing, Cuts
  <2>6. Told(u, z, e)
    BY <1>1, Kinds DEF Talk, Told, Cuts, Alike, Gone
  <2>7. Ended(u, z, e, x)
    BY DEF Ended, Alike
  <2>8. Turn(u, z, x)
    <3>1. Before(z, Finals, Invites)
      BY <1>1, <1>6, Sorts
    <3>2. Before(x, Invites, Finals) /\ Has(x, Finals)
      BY <1>2, <1>4, <1>5, <1>7, Sorts, Kinds DEF Grows
    <3> QED
      BY <1>6, <2>4, <3>1, <3>2, Kinds, <1>2, <1>4, <1>5 DEF Turn, Located, Alike, Grows
  <2>9. Owed(u, z, x)
    BY DEF Owed
  <2>10. Yield(z, e)
    BY <1>1, <1>8, Sorts DEF Yield, Cuts
  <2> QED
    BY <2>1, <2>2, <2>3, <2>4, <2>5, <2>6, <2>7, <2>8, <2>9, <2>10 DEF Talk
<1>10. Talk(e, x, u, z)
  <2>1. ~Has(x, Strange)
    BY <1>2, <1>4, <1>5, Kinds DEF Talk, Grows
  <2>2. Asked(x, u, z)
    BY <1>1, <1>2, <1>4, <1>5, Kinds DEF Talk, Asked, Grows, Cuts
  <2>3. Replied(e, x)
    BY <1>2, <1>4, <1>5, <1>7, Sorts, Kinds DEF Talk, Replied, Grows
  <2>4. Located(e, x, z)
    BY <1>2, <1>5, Kinds DEF Located, Grows
  <2>5. Closing(x, u)
    BY <1>2, <1>4, <1>5, Kinds DEF Talk, Closing, Grows, Alike
  <2>6. Told(e, x, u)
    BY <1>4, <1>5, Kinds DEF Talk, Told, Grows, Alike
  <2>7. Ended(e, x, u, z)
    BY <1>2, <1>4, <1>5, Kinds DEF Talk, Ended, Alike, Grows, Gone
  <2>8. Turn(e, x, z)
    <3>1. Turn(e, r, q) /\ ~Has(r, Finals)
      BY <1>7, Sorts DEF Talk
    <3>2. ~Has(r, Invites) => Has(x, Finals) /\ Before(x, Finals, Invites)
      BY <1>2, <1>4, <1>5, Sorts, Kinds DEF Grows
    <3> QED
      BY <3>1, <3>2 DEF Turn
  <2>9. Owed(e, x, z)
    BY <1>4, <1>5, <1>8, Sorts DEF Talk, Owed, Grows
  <2>10. Yield(x, u)
    BY <1>2, <1>4, <1>5, <1>7, Sorts, Kinds DEF Yield, Grows
  <2> QED
    BY <2>1, <2>2, <2>3, <2>4, <2>5, <2>6, <2>7, <2>8, <2>9, <2>10 DEF Talk
<1> QED
  BY <1>9, <1>10

\* An end hears of a BYE, by which its dialog is deleted or was already.
LEMMA HearsBye ==
    ASSUME NEW d, NEW e, NEW q \in Seq(Message), NEW r \in Seq(Message),
           Talk(d, q, e, r), Talk(e, r, d, q),
           NEW m \in Message, NEW z \in Seq(Message), Cuts(q, m, z),
           m \in Byes, e.byeSent => Gone(e),
           d.state # "EARLY",
           NEW u, u.state = "TERMINATED", u.byeSent = d.byeSent, Pend(u) = Pend(d),
           NEW b \in ByeAnswers, NEW x \in Seq(Message), Grows(r, b, x)
    PROVE  Talk(u, z, e, x) /\ Talk(e, x, u, z)
<1>1. m \in Message /\ z \in Seq(Message) /\ Cuts(q, m, z)
  OBVIOUS
<1>2. b \in ByeAnswers /\ b \in Message /\ b.method = "BYE"
  BY DEF ByeAnswers
<1>3. x \in Seq(Message) /\ Grows(r, b, x)
  OBVIOUS
<1>4. Gone(e) /\ ~Has(q, Invites) /\ ~Has(z, Invites) /\ Gone(u)
  BY <1>1 DEF Talk, Closing, Cuts, Gone
<1>5. Talk(u, z, e, x)
  <2>1. ~Has(z, Strange)
    BY <1>1 DEF Talk, Cuts
  <2>2. Asked(z, e, x)
    BY <1>1, <1>4, Sorts DEF Talk, Asked, Cuts
  <2>3. Replied(u, z)
    BY <1>1 DEF Talk, Replied, Cuts
  <2>4. Located(u, z, x)
    BY <1>1, <1>3, Kinds DEF Talk, Located, Cuts, Grows
  <2>5. Closing(z, e)
    BY <1>1 DEF Talk, Closing, Cuts
  <2>6. Told(u, z, e) /\ Ended(u, z, e, x) /\ Owed(u, z, x)
    BY <1>4 DEF Told, Ended, Owed
  <2>7. Turn(u, z, x)
    BY DEF Turn
  <2>8. Yield(z, e)
    BY <1>1, <1>4 DEF Talk, Yield, Cuts
  <2> QED
    BY <2>1, <2>2, <2>3, <2>4, <2>5, <2>6, <2>7, <2>8 DEF Talk
<1>6. Talk(e, x, u, z)
  <2>1. ~Has(x, Strange)
    BY <1>2, <1>3, Kinds DEF Talk, Grows
  <2>2. Asked(x, u, z)
    BY <1>1, <1>2, <1>3, Kinds DEF Talk, Asked, Grows, Cuts
  <2>3. Replied(e, x)
    BY <1>2, <1>3, Kinds DEF Talk, Replied, Grows
  <2>4. Located(e, x, z)
    BY <1>2, <1>3, <1>4, Kinds DEF Talk, Located, Grows
  <2>5. Closing(x, u)
    BY <1>2, <1>3, Kinds DEF Talk, Closing, Grows
  <2>6. Told(e, x, u)
    BY <1>3 DEF Talk, Told, Grows
  <2>7. Ended(e, x, u, z)
    BY <1>2, <1>3, <1>4, Kinds DEF Talk, Ended, Grows
  <2>8. Turn(e, x, z)
    BY <1>2, <1>3, <1>4, Kinds DEF Talk, Turn, Grows
  <2>9. Owed(e, x, z)
    BY <1>4 DEF Owed
  <2>10. Yield(x, u)
    BY <1>2, <1>3, Kinds DEF Talk, Yield, Grows
  <2> QED
    BY <2>1, <2>2, <2>3, <2>4, <2>5, <2>6, <2>7, <2>8, <2>9, <2>10 DEF Talk
<1> QED
  BY <1>5, <1>6

\* An ACK, or one more BYE of an end that hung up, tells the other end nothing
\* that it cannot expect.
LEMMA Repeats ==
    ASSUME NEW d, NEW e, NEW q \in Seq(Message), NEW r \in Seq(Message),
           Talk(d, q, e, r), Talk(e, r, d, q),
           NEW m \in Message, m.code = 0, m.method \in {"BYE", "ACK"},
           m.method = "BYE" => d.byeSent, d.state # "TERMINATED",
           NEW x \in Seq(Message), Grows(r, m, x)
    PROVE  Talk(d, q, e, x) /\ Talk(e, x, d, q)
<1>1. x \in Seq(Message) /\ Grows(r, m, x)
  OBVIOUS
<1>2. /\ m \notin Invites /\ m \notin Answers /\ m \notin Finals /\ m \notin Trials
      /\ m \notin Oks /\ m \notin ByeAnswers /\ m \notin Strange
      /\ \A n : m \notin OkFor(n)
      /\ \A cs : m \notin Unasked(cs) /\ m \notin Foreign(cs)
      /\ m \in Byes => d.byeSent
  BY Kinds DEF Byes, ByeAnswers, Strange
<1>3. Talk(d, q, e, x)
  <2>1. Asked(q, e, x) /\ Located(d, q, x) /\ Ended(d, q, e, x)
    BY <1>1, <1>2 DEF Talk, Asked, Located, Ended, Grows
  <2>2. Turn(d, q, x)
    BY <1>1, <1>2 DEF Talk, Turn, Grows
  <2>3. Owed(d, q, x)
    BY <1>1, <1>2 DEF Talk, Owed, Grows
  <2> QED
    BY <2>1, <2>2, <2>3 DEF Talk
<1>4. Talk(e, x, d, q)
  <2>1. ~Has(x, Strange)
    BY <1>1, <1>2 DEF Talk, Grows
  <2>2. Asked(x, d, q)
    BY <1>1, <1>2 DEF Talk, Asked, Grows
  <2>3. Replied(e, x)
    BY <1>1, <1>2 DEF Talk, Replied, Grows
  <2>4. Located(e, x, q)
    BY <1>1, <1>2 DEF Talk, Located, Grows
  <2>5. Closing(x, d)
    BY <1>1, <1>2 DEF Talk, Closing, Grows
  <2>6. Told(e, x, d) /\ Ended(e, x, d, q)
    BY <1>1, <1>2 DEF Talk, Told, Ended, Grows
  <2>7. Turn(e, x, q)
    BY <1>1, <1>2 DEF Talk, Turn, Grows
  <2>8. Owed(e, x, q)
    BY <1>1, <1>2 DEF Talk, Owed, Grows
  <2>9. Yield(x, d)
    BY <1>1, <1>2 DEF Talk, Yield, Grows
  <2> QED
    BY <2>1, <2>2, <2>3, <2>4, <2>5, <2>6, <2>7, <2>8, <2>9 DEF Talk
<1> QED
  BY <1>1, <1>3, <1>4

\* An end reads an ACK, or an answer to a BYE that it has forgotten.
LEMMA ReadsOther ==
    ASSUME NEW d, NEW e, NEW q \in Seq(Message), NEW r \in Seq(Message),
           Talk(d, q, e, r), Talk(e, r, d, q),
           NEW m \in Message, NEW z \in Seq(Message), Cuts(q, m, z),
           m.method \in {"BYE", "ACK"}, m \notin Byes,
           d.state # "EARLY", e.state # "EARLY",
           NEW u, Alike(d, u), Pend(u) = Pend(d), u.remoteCseq = d.remoteCseq,
           Latest(d) => Latest(u) \/ d.state = "TERMINATED",
           u.needsAck => d.needsAck /\ (Gone(d) \/ m \notin Settling(d.remoteCseq))
    PROVE  Talk(u, z, e, r) /\ Talk(e, r, u, z)
<1>1. m \in Message /\ z \in Seq(Message) /\ Cuts(q, m, z)
  OBVIOUS
<1>2. /\ m \notin Invites /\ m \notin Answers /\ m \notin Finals /\ m \notin Trials
      /\ m \notin Oks /\ \A n : m \notin OkFor(n)
  BY <1>1, Kinds
<1>3. Talk(u, z, e, r)
  <2>1. ~Has(z, Strange) /\ Asked(z, e, r) /\ Replied(u, z)
    BY <1>1 DEF Talk, Asked, Replied, Cuts
  <2>2. Located(u, z, r)
    BY <1>1, <1>2 DEF Talk, Located, Cuts, Alike
  <2>3. Closing(z, e)
    BY <1>1 DEF Talk, Closing, Cuts
  <2>4. Told(u, z, e) /\ Ended(u, z, e, r)
    BY <1>1 DEF Talk, Told, Ended, Cuts, Alike, Gone
  <2>5. Turn(u, z, r)
    BY <1>1, <1>2 DEF Talk, Turn, Cuts, Alike
  <2>6. Owed(u, z, r)
    BY <1>1, <1>2 DEF Talk, Owed, Cuts, Alike, Gone
  <2>7. Yield(z, e)
    BY <1>1, <1>2 DEF Talk, Yield, Cuts
  <2> QED
    BY <2>1, <2>2, <2>3, <2>4, <2>5, <2>6, <2>7 DEF Talk
<1>4. Talk(e, r, u, z)
  <2>1. Asked(r, u, z)
    BY <1>1 DEF Talk, Asked, Cuts
  <2>2. Located(e, r, z)
    BY <1>1, <1>2 DEF Talk, Located, Cuts
  <2>3. Closing(r, u) /\ Told(e, r, u) /\ Ended(e, r, u, z) /\ Yield(r, u)
    BY DEF Talk, Closing, Told, Ended, Yield, Alike, Gone
  <2>4. Turn(e, r, z)
    BY <1>1, <1>2 DEF Talk, Turn, Cuts
  <2>5. Owed(e, r, z)
    BY <1>1, <1>2 DEF Talk, Owed, Cuts
  <2> QED
    BY <2>1, <2>2, <2>3, <2>4, <2>5 DEF Talk
<1> QED
  BY <1>3, <1>4

\* An end reads the 100 of its INVITE.
LEMMA HearsTrial ==
    ASSUME NEW d, NEW e, NEW q \in Seq(Message), NEW r \in Seq(Message),
           Talk(d, q, e, r), Talk(e, r, d, q),
           NEW m \in Message, NEW z \in Seq(Message), Cuts(q, m, z),
           m \in Trials,
           d.state # "EARLY", e.state # "EARLY",
           NEW u, Alike(d, u), Pend(u) = Pend(d),
           Latest(u) \/ d.state = "TERMINATED", Gone(d) \/ ~u.needsAck
    PROVE  Talk(u, z, e, r) /\ Talk(e, r, u, z)
<1>1. m \in Message /\ z \in Seq(Message) /\ Cuts(q, m, z)
  OBVIOUS
<1>2. /\ m \notin Invites /\ m \in Answers /\ m \notin Finals
      /\ m \notin Oks /\ (\A n : m \notin OkFor(n)) /\ m \notin Byes
  BY <1>1, Kinds
<1>3. Talk(u, z, e, r)
  <2>1. ~Has(z, Strange) /\ Asked(z, e, r) /\ Replied(u, z)
    BY <1>1 DEF Talk, Asked, Replied, Cuts
  <2>2. Located(u, z, r)
    BY <1>1, <1>2 DEF Talk, Located, Cuts, Alike
  <2>3. Closing(z, e)
    BY <1>1 DEF Talk, Closing, Cuts
  <2>4. Told(u, z, e) /\ Ended(u, z, e, r)
    BY <1>1, <1>2 DEF Talk, Told, Ended, Cuts, Alike, Gone
  <2>5. Turn(u, z, r) /\ Owed(u, z, r)
    BY DEF Turn, Owed, Alike, Gone
  <2>6. Yield(z, e)
    BY <1>1, <1>2 DEF Talk, Yield, Cuts
  <2> QED
    BY <2>1, <2>2, <2>3, <2>4, <2>5, <2>6 DEF Talk
<1>4. Talk(e, r, u, z)
  <2>1. Asked(r, u, z)
    BY <1>1 DEF Talk, Asked, Cuts
  <2>2. Located(e, r, z)
    BY <1>1, <1>2 DEF Talk, Located, Cuts
  <2>3. Closing(r, u) /\ Told(e, r, u) /\ Ended(e, r, u, z) /\ Yield(r, u)
    BY DEF Talk, Closing, Told, Ended, Yield, Alike, Gone
  <2>4. Turn(e, r, z)
    BY <1>1, <1>2 DEF Talk, Turn, Cuts
  <2>5. Owed(e, r, z)
    BY <1>1, <1>2 DEF Talk, Owed, Cuts
  <2> QED
    BY <2>1, <2>2, <2>3, <2>4, <2>5 DEF Talk
<1> QED
  BY <1>3, <1>4

\* An end reads the final response to its INVITE; what it sends because of it
\* is behind the other messages of the inbox r already.
LEMMA HearsFinal ==
    ASSUME NEW d, NEW e, NEW q \in Seq(Message), NEW r \in Seq(Message),
           Talk(d, q, e, r), Talk(e, r, d, q),
           NEW m \in Message, NEW z \in Seq(Message), Cuts(q, m, z),
           m \in Finals,
           d.state = "EARLY" => e.state = "CONFIRMED",
           NEW u, u.op = d.op, u.byeSent = d.byeSent, Pend(u) = {},
           u.state = d.state \/ (d.state = "EARLY" /\ u.state = "CONFIRMED"),
           Gone(d) \/ ~u.needsAck,
           m \in Oks => Gone(e) \/ ~e.needsAck \/ Has(r, Settling(m.cseq))
    PROVE  Talk(u, z, e, r) /\ Talk(e, r, u, z)
<1>1. m \in Message /\ z \in Seq(Message) /\ Cuts(q, m, z)
  OBVIOUS
<1>2. /\ m \notin Invites /\ m \in Answers /\ m \notin Byes /\ m \notin ByeAnswers
      /\ \A n : m \in OkFor(n) <=> m \in Oks /\ m.cseq = n
  BY <1>1, Kinds
<1>3. /\ Gone(d) => Gone(u)
      /\ Gone(u) => Gone(d)
  BY DEF Gone
<1>4. ~Has(z, Answers) /\ ~Has(q, Trials) /\ ~Has(z, Finals)
  <2>1. ~Has(z, Finals) /\ ~Has(q, Trials)
    BY <1>1 DEF Talk, Replied, Cuts
  <2> QED
    BY <1>1, <2>1, Sorts DEF Cuts
<1>5. ~Has(r, Invites)
  BY <1>1, <1>2 DEF Talk, Asked, Cuts
<1>6. ~Has(z, Oks)
  BY <1>1, <1>4, Sorts
<1>7. Talk(u, z, e, r)
  <2>1. ~Has(z, Strange) /\ Asked(z, e, r)
    BY <1>1 DEF Talk, Asked, Cuts
  <2>2. Replied(u, z)
    BY <1>1, <1>4, Sorts DEF Talk, Replied, Cuts
  <2>3. Located(u, z, r) /\ Turn(u, z, r)
    BY DEF Located, Turn
  <2>4. Closing(z, e)
    BY <1>1 DEF Talk, Closing, Cuts
  <2>5. Told(u, z, e)
    BY <1>1, <1>2, <1>3 DEF Talk, Told, Cuts
  <2>6. Ended(u, z, e, r)
    BY <1>1 DEF Talk, Ended, Cuts
  <2>7. Owed(u, z, r) /\ Yield(z, e)
    BY <1>3, <1>6 DEF Owed, Yield
  <2> QED
    BY <2>1, <2>2, <2>3, <2>4, <2>5, <2>6, <2>7 DEF Talk
<1>8. Talk(e, r, u, z)
  <2>1. Asked(r, u, z)
    BY <1>5, Sorts DEF Talk, Asked
  <2>2. Located(e, r, z)
    BY <1>1, <1>2 DEF Talk, Located, Cuts
  <2>3. Closing(r, u)
    BY DEF Talk, Closing
  <2>4. Told(e, r, u)
    BY DEF Talk, Told
  <2>5. Ended(e, r, u, z)
    BY <1>3, <1>5 DEF Talk, Ended
  <2>6. Turn(e, r, z)
    BY <1>1, <1>2 DEF Talk, Turn, Cuts
  <2>7. Owed(e, r, z)
    <3>1. SUFFICES ASSUME ~Gone(e), e.needsAck, Has(q, OkFor(e.remoteCseq)),
                          ~Has(r, Answers)
                   PROVE  Leads(r, Settling(e.remoteCseq), Invites \cup Answers)
      BY DEF Talk, Owed
    <3>2. m \in OkFor(e.remoteCseq)
      BY <1>1, <1>4, <3>1, Sorts DEF Cuts
    <3>3. Has(r, Settling(e.remoteCseq))
      BY <1>2, <3>1, <3>2
    <3>4. ~Has(r, Invites \cup Answers)
      BY <1>5, <3>1, Sorts
    <3> QED
      BY <3>3, <3>4, Sorts
  <2>8. Yield(r, u)
    BY DEF Yield
  <2> QED
    BY <2>1, <2>2, <2>3, <2>4, <2>5, <2>6, <2>7, <2>8 DEF Talk
<1> QED
  BY <1>7, <1>8

\* An end reads the answer to its BYE, by which its dialog is deleted.
LEMMA HearsByeAnswer ==
    ASSUME NEW d, NEW e, NEW q \in Seq(Message), NEW r \in Seq(Message),
           Talk(d, q, e, r), Talk(e, r, d, q),
           NEW m \in Message, NEW z \in Seq(Message), Cuts(q, m, z),
           m \in ByeAnswers, d.state # "EARLY",
           NEW u, u.state = "TERMINATED", u.byeSent = d.byeSent, Pend(u) = Pend(d)
    PROVE  Talk(u, z, e, r) /\ Talk(e, r, u, z)
<1>1. m \in Message /\ z \in Seq(Message) /\ Cuts(q, m, z)
  OBVIOUS
<1>2. /\ m \notin Invites /\ m \notin Answers /\ m \notin Finals
  BY <1>1, Kinds
<1>3. e.state = "TERMINATED" /\ Gone(e) /\ Gone(u) /\ ~Has(q, Invites)
  BY <1>1 DEF Talk, Closing, Cuts, Gone
<1>4. Talk(u, z, e, r)
  <2>1. ~Has(z, Strange) /\ Asked(z, e, r) /\ Replied(u, z)
    BY <1>1 DEF Talk, Asked, Replied, Cuts
  <2>2. Located(u, z, r)
    BY <1>1, <1>2 DEF Talk, Located, Cuts
  <2>3. Closing(z, e) /\ Told(u, z, e) /\ Ended(u, z, e, r)
    BY <1>1, <1>3 DEF Talk, Closing, Told, Ended, Cuts
  <2>4. Turn(u, z, r) /\ Owed(u, z, r)
    BY <1>3 DEF Turn, Owed
  <2>5. Yield(z, e)
    BY <1>1, <1>3 DEF Talk, Yield, Cuts
  <2> QED
    BY <2>1, <2>2, <2>3, <2>4, <2>5 DEF Talk
<1>5. Talk(e, r, u, z)
  <2>1. Asked(r, u, z)
    BY <1>1 DEF Talk, Asked, Cuts
  <2>2. Located(e, r, z)
    BY <1>1, <1>2 DEF Talk, Located, Cuts
  <2>3. Closing(r, u) /\ Told(e, r, u) /\ Yield(r, u)
    BY DEF Talk, Closing, Told, Yield
  <2>4. Ended(e, r, u, z) /\ Turn(e, r, z) /\ Owed(e, r, z)
    BY <1>3 DEF Talk, Ended, Turn, Owed
  <2> QED
    BY <2>1, <2>2, <2>3, <2>4 DEF Talk
<1> QED
  BY <1>4, <1>5

\* An end without an INVITE of its own sends one.
LEMMA Asks ==
    ASSUME NEW d, NEW e, NEW q \in Seq(Message), NEW r \in Seq(Message),
           Talk(d, q, e, r), Talk(e, r, d, q),
           d.state = "CONFIRMED", ~Gone(d), Pend(d) = {}, d.byeSent => Gone(d),
           NEW c, NEW b \in Invites, b.cseq = c,
           NEW x \in Seq(Message), Grows(r, b, x),
           NEW u, Alike(d, u), Pend(u) = {c}, Latest(u),
           u.needsAck = d.needsAck, u.remoteCseq = d.remoteCseq
    PROVE  Talk(u, q, e, x) /\ Talk(e, x, u, q)
<1>1. b \in Invites /\ b \in Message /\ b.cseq = c
  BY DEF Invites
<1>3. x \in Seq(Message) /\ Grows(r, b, x)
  OBVIOUS
<1>4. ~Has(q, Answers) /\ ~Has(r, Invites) /\ ~Has(q, Finals) /\ ~Has(q, Oks)
  BY Sorts DEF Talk, Asked, Replied
<1>5. ~Gone(u)
  BY DEF Gone, Alike
<1>6. Talk(u, q, e, x)
  <2>1. Asked(q, e, x)
    BY <1>1, <1>3, Kinds DEF Talk, Asked, Grows
  <2>2. Replied(u, q)
    BY <1>4, Sorts DEF Talk, Replied
  <2>3. Located(u, q, x) /\ Turn(u, q, x) /\ Yield(q, e)
    BY <1>1, <1>3, <1>4 DEF Located, Turn, Yield, Grows
  <2>4. Told(u, q, e) /\ Ended(u, q, e, x)
    BY DEF Talk, Told, Ended, Gone, Alike
  <2>5. Owed(u, q, x)
    BY <1>1, <1>3, Kinds DEF Talk, Owed, Grows, Gone, Alike
  <2> QED
    BY <2>1, <2>2, <2>3, <2>4, <2>5 DEF Talk
<1>7. Talk(e, x, u, q)
  <2>1. ~Has(x, Strange)
    BY <1>1, <1>3, Kinds DEF Talk, Grows
  <2>2. Asked(x, u, q)
    BY <1>1, <1>3, <1>4, Kinds, Sorts DEF Talk, Asked, Grows
  <2>3. Replied(e, x)
    BY <1>1, <1>3, Kinds DEF Talk, Replied, Grows
  <2>4. Located(e, x, q)
    BY <1>3 DEF Talk, Located, Grows
  <2>5. Closing(x, u)
    BY <1>1, <1>3, Kinds DEF Talk, Closing, Grows, Alike, Gone
  <2>6. Told(e, x, u)
    BY <1>3 DEF Talk, Told, Grows, Alike
  <2>7. Ended(e, x, u, q)
    BY DEF Talk, Ended, Gone
  <2>8. Turn(e, x, q)
    BY <1>1, <1>3, <1>4, Kinds DEF Talk, Turn, Grows
  <2>9. Owed(e, x, q)
    BY <1>3, <1>4, Sorts DEF Talk, Owed, Grows
  <2>10. Yield(x, u)
    BY <1>1, <1>3, <1>4, Kinds, Sorts DEF Yield, Grows
  <2> QED
    BY <2>1, <2>2, <2>3, <2>4, <2>5, <2>6, <2>7, <2>8, <2>9, <2>10 DEF Talk
<1> QED
  BY <1>6, <1>7

\* The user of an end hangs up.
LEMMA HangsUp ==
    ASSUME NEW d, NEW e, NEW q \in Seq(Message), NEW r \in Seq(Message),
           Talk(d, q, e, r), Talk(e, r, d, q), d.state = "CONFIRMED",
           NEW b \in Byes, NEW x \in Seq(Message), Grows(r, b, x),
           NEW u, u.state = d.state, u.op = "TERMINATING", u.byeSent,
           Pend(u) = Pend(d), Latest(u)
    PROVE  Talk(u, q, e, x) /\ Talk(e, x, u, q)
<1>1. b \in Byes /\ b \in Message
  BY DEF Byes
<1>3. x \in Seq(Message) /\ Grows(r, b, x)
  OBVIOUS
<1>4. /\ b \notin Invites /\ b \notin Answers /\ b \notin Finals /\ b \notin Trials
      /\ b \notin Oks /\ b \notin ByeAnswers /\ b \notin Strange
      /\ \A cs : b \notin Unasked(cs) /\ b \notin Foreign(cs)
  BY <1>1, Kinds
<1>5. Gone(u)
  BY DEF Gone
<1>6. Talk(u, q, e, x)
  <2>1. Asked(q, e, x) /\ Replied(u, q) /\ Located(u, q, x)
    BY <1>3, <1>4 DEF Talk, Asked, Replied, Located, Grows
  <2>2. Told(u, q, e) /\ Ended(u, q, e, x) /\ Turn(u, q, x) /\ Owed(u, q, x)
    BY <1>5 DEF Told, Ended, Turn, Owed
  <2> QED
    BY <2>1, <2>2 DEF Talk
<1>7. Talk(e, x, u, q)
  <2>1. ~Has(x, Strange)
    BY <1>3, <1>4 DEF Talk, Grows
  <2>2. Asked(x, u, q)
    BY <1>3, <1>4 DEF Talk, Asked, Grows
  <2>3. Replied(e, x)
    BY <1>3, <1>4 DEF Talk, Replied, Grows
  <2>4. Located(e, x, q)
    BY <1>3, <1>4 DEF Talk, Located, Grows
  <2>5. Closing(x, u)
    BY <1>3, <1>4 DEF Talk, Closing, Grows
  <2>6. Told(e, x, u)
    BY <1>1, <1>3 DEF Told, Grows
  <2>7. Ended(e, x, u, q)
    BY <1>3, <1>4, <1>5 DEF Talk, Ended, Grows
  <2>8. Turn(e, x, q)
    BY <1>3, <1>4 DEF Talk, Turn, Grows
  <2>9. Owed(e, x, q)
    BY <1>3, <1>4 DEF Talk, Owed, Grows
  <2>10. Yield(x, u)
    BY <1>3, <1>4 DEF Talk, Yield, Grows
  <2> QED
    BY <2>1, <2>2, <2>3, <2>4, <2>5, <2>6, <2>7, <2>8, <2>9, <2>10 DEF Talk
<1> QED
  BY <1>6, <1>7

\* An end whose dialog is deleted is told so.
LEMMA IsTold ==
    ASSUME NEW d, NEW e, NEW q, NEW r, Talk(d, q, e, r), Talk(e, r, d, q),
           d.state = "TERMINATED",
           NEW u, u.state = d.state, u.byeSent = d.byeSent, Pend(u) = Pend(d)
    PROVE  Talk(u, q, e, r) /\ Talk(e, r, u, q)
<1>1. Gone(d) /\ Gone(u)
  BY DEF Gone
<1>2. Talk(u, q, e, r)
  BY <1>1 DEF Talk, Replied, Located, Told, Ended, Turn, Owed
<1>3. Talk(e, r, u, q)
  BY <1>1 DEF Talk, Asked, Closing, Told, Ended, Yield
<1> QED
  BY <1>2, <1>3

-----------------------------------------------------------------------------
(* The ends themselves.                                                    *)

\* An end never has two clients of one CSeq, nor one of a CSeq to come.
Numbered(d) ==
    /\ \A t, u \in d.clients : t.cseq = u.cseq => t = u
    /\ \A t \in d.clients : t.cseq <= d.localCseq

\* What holds of an end on its own: nothing waits in its queue, it answers at
\* once, it sends a BYE when its user hangs up and not before, and it has one
\* INVITE at most that waits for its final response, its latest while the
\* call runs.
Alone(d) ==
    /\ d.queued = 0 /\ ~d.misplaced
    /\ d.offered # 0 => d.state = "EARLY"
    /\ d.deferred # 0 => d.state = "TERMINATED"
    /\ d.state = "EARLY" => d.op = "ALIVE"
    /\ d.state = "CONFIRMED" /\ d.op # "ALIVE" => d.byeSent
    /\ d.byeSent => Gone(d)
    /\ d.state # "EARLY" => Numbered(d)
    /\ \A a, b \in Pend(d) : a = b
    /\ ~Gone(d) /\ d.state = "CONFIRMED" => \A a \in Pend(d) : a = d.localCseq

\* Both ends and both inboxes.
Conversing ==
    /\ Alone(end["A"]) /\ Alone(end["B"])
    /\ Talk(end["A"], net["A"], end["B"], net["B"])
    /\ Talk(end["B"], net["B"], end["A"], net["A"])

\* Ends that agree are alike in all that is said of them here.
LEMMA Agreeing ==
    ASSUME NEW d, NEW u, Agrees(d, u)
    PROVE  /\ Alone(d) => Alone(u)
           /\ \A q, e, r : Talk(d, q, e, r) => Talk(u, q, e, r)
           /\ \A q, e, r : Talk(e, r, d, q) => Talk(e, r, u, q)
<1>1. Pend(u) = Pend(d) /\ (Gone(u) <=> Gone(d)) /\ (Latest(u) <=> Latest(d))
  BY DEF Agrees, Pend, Gone, Latest
<1>2. /\ u.state = d.state /\ u.op = d.op /\ u.byeSent = d.byeSent
      /\ u.needsAck = d.needsAck /\ u.remoteCseq = d.remoteCseq
  BY DEF Agrees
<1>3. Alone(d) => Alone(u)
  BY <1>1 DEF Agrees, Alone, Numbered
<1>4. ASSUME NEW q, NEW e, NEW r, Talk(d, q, e, r)
      PROVE  Talk(u, q, e, r)
  <2>1. Replied(u, q) /\ Located(u, q, r) /\ Told(u, q, e) /\ Ended(u, q, e, r)
    BY <1>1, <1>2, <1>4 DEF Talk, Replied, Located, Told, Ended
  <2>2. Turn(u, q, r) /\ Owed(u, q, r)
    BY <1>1, <1>2, <1>4 DEF Talk, Turn, Owed
  <2> QED
    BY <1>4, <2>1, <2>2 DEF Talk
<1>5. ASSUME NEW q, NEW e, NEW r, Talk(e, r, d, q)
      PROVE  Talk(e, r, u, q)
  <2>1. Asked(r, u, q) /\ Closing(r, u) /\ Told(e, r, u) /\ Ended(e, r, u, q)
        /\ Yield(r, u)
    BY <1>1, <1>2, <1>5 DEF Talk, Asked, Closing, Told, Ended, Yield
  <2> QED
    BY <1>5, <2>1 DEF Talk
<1> QED
  BY <1>3, <1>4, <1>5

\* What is sent is put behind what is under way.
LEMMA Behind ==
    ASSUME NEW r \in Seq(Message)
    PROVE  /\ r \o <<>> = r
           /\ \A o \in Seq(Message), m \in Message :
                 r \o Append(o, m) = Append(r \o o, m)
           /\ \A o \in Seq(Message) : r \o o \in Seq(Message)
OBVIOUS

\* One message is sent, or two.
LEMMA Outgoing ==
    ASSUME NEW r \in Seq(Message), NEW a \in Message, NEW b \in Message
    PROVE  /\ r \o Append(<<>>, a) \in Seq(Message)
           /\ Grows(r, a, r \o Append(<<>>, a))
           /\ r \o Append(Append(<<>>, a), b) \in Seq(Message)
           /\ Grows(r \o Append(<<>>, a), b, r \o Append(Append(<<>>, a), b))
<1> DEFINE y == Append(r, a)
<1>1. /\ <<>> \in Seq(Message) /\ Append(<<>>, a) \in Seq(Message)
  OBVIOUS
<1>2. r \o Append(<<>>, a) = y
  BY ONLY <1>1, r \in Seq(Message), a \in Message, Behind
<1>3. r \o Append(Append(<<>>, a), b) = Append(y, b)
  BY ONLY <1>1, <1>2, r \in Seq(Message), b \in Message, Behind
<1>4. y \in Seq(Message) /\ Grows(r, a, y)
  BY Grow
<1> HIDE DEF y
<1>5. Append(y, b) \in Seq(Message) /\ Grows(y, b, Append(y, b))
  BY ONLY <1>4, b \in Message, Grow
<1> QED
  BY ONLY <1>2, <1>3, <1>4, <1>5

\* What is said of the ends and inboxes after a step is Conversing then: all
\* of it is about the two ends and the two inboxes alone.
LEMMA ConversingThen ==
    ASSUME Alone(end'["A"]), Alone(end'["B"]),
           Talk(end'["A"], net'["A"], end'["B"], net'["B"]),
           Talk(end'["B"], net'["B"], end'["A"], net'["A"])
    PROVE  Conversing'
BY ZenonT(60) DEF Conversing, Alone, Numbered, Pend, Gone, Talk, Asked, Replied,
     Located, Closing, Told, Ended, Turn, Owed, Yield, Latest, Has, Once,
     Before, Leads, Invites, Trials, Finals, Answers, OkFor, Oks, Byes,
     ByeAnswers, Strange, Foreign, Unasked, Settling, Refused, Response, Message

\* A callback that keeps to the rules leaves both ends as they should be.
LEMMA RunTalks ==
    ASSUME TypeOK, Ordered, NEW s \in Side, NEW w \in Open,
           NEW inbox \in Seq(Message), Run(s, inbox, w),
           Alone(w), Alone(end[Peer(s)]),
           NEW x, x = net[Peer(s)] \o w.out,
           Talk(w, inbox, end[Peer(s)], x), Talk(end[Peer(s)], x, w, inbox)
    PROVE  Conversing'
<1>1. inbox \in Inbox
  BY DEF Inbox
<1>2. /\ Agrees(w, end'[s]) /\ end'[Peer(s)] = end[Peer(s)]
      /\ net'[s] = inbox /\ net'[Peer(s)] = x
  BY <1>1, Ran DEF Enqueue
<1>3. /\ Alone(end'[s]) /\ Alone(end'[Peer(s)])
      /\ Talk(end'[s], net'[s], end'[Peer(s)], net'[Peer(s)])
      /\ Talk(end'[Peer(s)], net'[Peer(s)], end'[s], net'[s])
  BY <1>2, Agreeing
<1>4. /\ Alone(end'["A"]) /\ Alone(end'["B"])
      /\ Talk(end'["A"], net'["A"], end'["B"], net'["B"])
      /\ Talk(end'["B"], net'["B"], end'["A"], net'["A"])
  BY <1>3, Peers DEF Side
<1> QED
  BY <1>4, ConversingThen

-----------------------------------------------------------------------------
(* The functions of the dialog while nothing waits in the queue.           *)

\* What an end keeps but for its dialog's needs, clients and counts.
Steady(d, u) ==
    /\ u.queued = d.queued /\ u.misplaced = d.misplaced /\ u.offered = d.offered
    /\ u.deferred = d.deferred /\ u.op = d.op /\ u.state = d.state

\* Nothing is taken from an empty queue.
LEMMA Idle ==
    ASSUME NEW d, d.queued = 0
    PROVE  belle_sip_dialog_process_queue(d) = d
BY DEF belle_sip_dialog_process_queue

\* A request is sent with the CSeq that comes next.
LEMMA Sends ==
    ASSUME NEW d \in Open, NEW method \in Requests
    PROVE  LET u == send_request(d, method)
               c == d.localCseq + 1
           IN  /\ u \in Open /\ c \in Nat /\ Steady(d, u)
               /\ u.out = Append(d.out, Request(method, c))
               /\ u.localCseq = c /\ u.last = c
               /\ u.clients = d.clients \cup
                    {[method |-> method, cseq |-> c, state |-> "TRYING"]}
               /\ u.byeSent = (d.byeSent \/ method = "BYE")
               /\ u.needsAck = d.needsAck /\ u.remoteCseq = d.remoteCseq
<1> DEFINE c == d.localCseq + 1
           t == [method |-> method, cseq |-> c, state |-> "TRYING"]
           b == (d.byeSent \/ method = "BYE")
           u == [d EXCEPT !.localCseq = c, !.last = c,
                          !.clients = @ \cup {t}, !.byeSent = b]
<1>1. c \in Nat
  BY DEF Open
<1>2. t \in [method : Requests, cseq : Nat, state : Transient \cup {"ACCEPTED"}]
  BY <1>1 DEF Transient
<1>3. b \in BOOLEAN
  OBVIOUS
<1>4. send_request(d, method) = Put(u, Request(method, c))
  BY DEF send_request
<1> HIDE DEF c, t, b
<1>5. u \in Open
  BY <1>1, <1>2, <1>3, ZenonT(90) DEF Open
<1>6. /\ u.localCseq = c /\ u.last = c /\ u.clients = d.clients \cup {t}
      /\ u.byeSent = b /\ u.needsAck = d.needsAck /\ u.remoteCseq = d.remoteCseq
      /\ u.out = d.out /\ Steady(d, u)
  BY ZenonT(90) DEF Open, Steady
<1>7. Request(method, c) \in Message
  BY <1>1, Messages
<1> HIDE DEF u
<1>8. /\ Put(u, Request(method, c)) \in Open
      /\ Agrees(u, Put(u, Request(method, c)))
      /\ Put(u, Request(method, c)).out = Append(d.out, Request(method, c))
  BY <1>5, <1>6, <1>7, Puts
<1>9. LET v == Put(u, Request(method, c)) IN
        /\ Steady(d, v) /\ v.localCseq = c /\ v.last = c
        /\ v.clients = d.clients \cup {t} /\ v.byeSent = b
        /\ v.needsAck = d.needsAck /\ v.remoteCseq = d.remoteCseq
  BY <1>6, <1>8 DEF Agrees, Steady
<1> QED
  BY <1>1, <1>4, <1>8, <1>9 DEF c, t, b

\* A dialog that a BYE ended.
LEMMA Deletes ==
    ASSUME NEW d \in Open, d.state = "CONFIRMED"
    PROVE  LET u == ByeAnswered(d) IN
           /\ u \in Open /\ u.state = "TERMINATED" /\ ~u.needsAck
           /\ u.queued = 0 /\ u.deferred = 2
           /\ u.misplaced = d.misplaced /\ u.offered = d.offered
           /\ u.op = d.op /\ u.byeSent = d.byeSent /\ u.clients = d.clients
           /\ u.localCseq = d.localCseq /\ u.out = d.out
<1>1. 0 \in Nat /\ 2 \in 0..2
  OBVIOUS
<1> DEFINE v == [d EXCEPT !.needsAck = FALSE]
<1>2. /\ v \in Open /\ ~v.needsAck /\ v.state = "CONFIRMED"
      /\ v.misplaced = d.misplaced /\ v.offered = d.offered
      /\ v.op = d.op /\ v.byeSent = d.byeSent /\ v.clients = d.clients
      /\ v.localCseq = d.localCseq /\ v.out = d.out
  BY ZenonT(90) DEF Open
<1>3. ByeAnswered(d) = belle_sip_dialog_delete(v)
  BY DEF ByeAnswered
<1> HIDE DEF v
<1> DEFINE u == belle_sip_dialog_delete(v)
<1>4. u \in Open
  BY <1>1, <1>2, ZenonT(90) DEF belle_sip_dialog_delete, Open
<1>5. /\ u.state = "TERMINATED" /\ u.needsAck = v.needsAck
      /\ u.queued = 0 /\ u.deferred = 2
      /\ u.misplaced = v.misplaced /\ u.offered = v.offered
      /\ u.op = v.op /\ u.byeSent = v.byeSent /\ u.clients = v.clients
      /\ u.localCseq = v.localCseq /\ u.out = v.out
  BY <1>2, ZenonT(90) DEF belle_sip_dialog_delete, Open
<1> HIDE DEF u
<1> QED
  BY <1>2, <1>3, <1>4, <1>5 DEF u

\* A client is added for the CSeq that comes next.
LEMMA NewClient ==
    ASSUME NEW d \in Open, Numbered(d), NEW method \in Requests,
           NEW u, u.localCseq = d.localCseq + 1, u.last = u.localCseq,
           u.clients = d.clients \cup
                {[method |-> method, cseq |-> u.localCseq, state |-> "TRYING"]}
    PROVE  /\ Numbered(u) /\ Latest(u)
           /\ method = "INVITE" => Pend(u) = Pend(d) \cup {u.localCseq}
           /\ method # "INVITE" => Pend(u) = Pend(d)
<1> DEFINE t == [method |-> method, cseq |-> u.localCseq, state |-> "TRYING"]
<1>1. /\ d.localCseq \in Nat
      /\ \A x \in d.clients : x.cseq \in Nat /\ x.cseq < u.localCseq
  BY DEF Open, Numbered
<1>2. t.cseq = u.localCseq /\ t.method = method /\ t.state \in Transient
  BY DEF Transient
<1>3. u.clients = d.clients \cup {t}
  OBVIOUS
<1> HIDE DEF t
<1>4. Numbered(u)
  BY <1>1, <1>2, <1>3 DEF Numbered
<1>5. Latest(u)
  BY <1>2, <1>3 DEF Latest
<1>6. method = "INVITE" => Pend(u) = Pend(d) \cup {u.localCseq}
  BY <1>2, <1>3 DEF Pend
<1>7. method # "INVITE" => Pend(u) = Pend(d)
  BY <1>2, <1>3 DEF Pend
<1> QED
  BY <1>4, <1>5, <1>6, <1>7

\* A response changes the client of its CSeq.
LEMMA OldClient ==
    ASSUME NEW d \in Open, Numbered(d), NEW t \in d.clients,
           NEW m \in Message, m.code \in Codes, m.method = t.method, m.cseq = t.cseq,
           NEW u, u.localCseq = d.localCseq,
           u.clients = (d.clients \ {t}) \cup Progress(t, m)
    PROVE  /\ Numbered(u)
           /\ t.method # "INVITE" => Pend(u) = Pend(d)
           /\ t.method = "INVITE" /\ t.state \in Transient =>
                /\ m.code < 200 => Pend(u) = Pend(d) /\ (u.last = m.cseq => Latest(u))
                /\ m.code >= 200 => Pend(u) = Pend(d) \ {m.cseq}
<1>1. t \in [method : Requests, cseq : Nat, state : Transient \cup {"ACCEPTED"}]
  BY DEF Open
<1>2. m.code < 200 <=> m.code = 100
  BY DEF Codes
<1>3. CASE m.code = 100
  <2> DEFINE p == [t EXCEPT !.state = "PROCEEDING"]
  <2>1. p.method = t.method /\ p.cseq = t.cseq /\ p.state = "PROCEEDING"
    BY <1>1
  <2>2. Progress(t, m) = {p}
    BY <1>3 DEF Progress
  <2> HIDE DEF p
  <2>3. u.clients = (d.clients \ {t}) \cup {p}
    BY <2>2
  <2>4. Numbered(u)
    BY <2>1, <2>3 DEF Numbered
  <2>5. t.method # "INVITE" => Pend(u) = Pend(d)
    BY <2>1, <2>3 DEF Pend
  <2>6. t.method = "INVITE" /\ t.state \in Transient => Pend(u) = Pend(d)
    BY <2>1, <2>3 DEF Pend, Transient
  <2>7. u.last = m.cseq => Latest(u)
    BY <2>1, <2>3 DEF Latest, Transient
  <2> QED
    BY <1>2, <1>3, <2>4, <2>5, <2>6, <2>7
<1>4. CASE m.code # 100
  <2>1. ~(m.code < 200) /\ m.code >= 200
    BY <1>4 DEF Codes
  <2>2. PICK P : /\ Progress(t, m) = P
                 /\ \A p \in P : /\ t.method = "INVITE" /\ p.method = t.method
                                 /\ p.cseq = t.cseq /\ p.state = "ACCEPTED"
                 /\ \A p, x \in P : p = x
    <3> DEFINE p == [t EXCEPT !.state = "ACCEPTED"]
    <3>1. p.method = t.method /\ p.cseq = t.cseq /\ p.state = "ACCEPTED"
      BY <1>1
    <3>2. CASE t.method = "INVITE" /\ m.code < 300
      <4>1. Progress(t, m) = {p}
        BY <2>1, <3>2 DEF Progress
      <4> HIDE DEF p
      <4> QED
        BY <3>1, <3>2, <4>1
    <3>3. CASE ~(t.method = "INVITE" /\ m.code < 300)
      <4>1. Progress(t, m) = {}
        BY <2>1, <3>3 DEF Progress
      <4> QED
        BY <4>1
    <3> QED
      BY <3>2, <3>3
  <2>3. u.clients = (d.clients \ {t}) \cup P
    BY <2>2
  <2>4. Numbered(u)
    <3>1. \A p \in P : p = t \/ p \notin d.clients
      BY <2>2 DEF Numbered
    <3> QED
      BY <2>2, <2>3, <3>1 DEF Numbered
  <2>5. t.method # "INVITE" => Pend(u) = Pend(d)
    BY <2>2, <2>3 DEF Pend
  <2>6. t.method = "INVITE" => Pend(u) = Pend(d) \ {m.cseq}
    BY <2>2, <2>3, SMTT(60) DEF Pend, Numbered, Transient
  <2> QED
    BY <2>1, <2>4, <2>5, <2>6
<1> QED
  BY <1>3, <1>4

\* A confirmed dialog answers an INVITE: 100, and a final response.
LEMMA AnswersInvite ==
    ASSUME NEW s \in Side, NEW d \in Open, d.state = "CONFIRMED", d.queued = 0,
           NEW m \in Message, m.method = "INVITE", NEW code \in Codes
    PROVE  LET v == respond(s, Trying(d, m), m, code) IN
           /\ v \in Open /\ Steady(d, v) /\ v.byeSent = d.byeSent
           /\ v.localCseq = d.localCseq /\ v.clients = d.clients
           /\ (v.needsAck <=> code < 300) /\ v.remoteCseq = m.cseq
           /\ v.out = Append(Append(d.out, Response("INVITE", m.cseq, 100)),
                             Response("INVITE", m.cseq, code))
<1> DEFINE a == Response("INVITE", m.cseq, 100)
           b == Response("INVITE", m.cseq, code)
           p == Put(d, a)
           q == Put(p, b)
           n == (b.code < 300)
           u == [q EXCEPT !.last = Settled, !.remoteCseq = b.cseq]
           w == [u EXCEPT !.needsAck = n]
<1>1. /\ a \in Message /\ b \in Message /\ m.cseq \in Nat /\ Settled \in Nat
      /\ b.cseq = m.cseq /\ b.code = code /\ b.method = "INVITE"
  BY DEF Response, Message, Requests, Codes, Settled
<1>2. Trying(d, m) = p /\ respond(s, p, m, code) = update_as_uas(s, q, b)
  BY DEF Trying, respond
<1>3. n \in BOOLEAN /\ n = (code < 300)
  BY <1>1
<1> HIDE DEF a, b, n
<1>4. p \in Open /\ Agrees(d, p) /\ p.out = Append(d.out, a)
  BY <1>1, Puts
<1> HIDE DEF p
<1>5. q \in Open /\ Agrees(p, q) /\ q.out = Append(p.out, b)
  BY <1>1, <1>4, Puts
<1> HIDE DEF q
<1>6. q.state = "CONFIRMED" /\ q.queued = 0
  BY <1>4, <1>5 DEF Agrees
<1>7. /\ u \in Open /\ Steady(q, u) /\ u.byeSent = q.byeSent
      /\ u.localCseq = q.localCseq /\ u.clients = q.clients
      /\ u.remoteCseq = m.cseq /\ u.out = q.out
  BY ONLY <1>1, <1>5, ZenonT(90) DEF Open, Steady
<1>8. update_as_uas(s, q, b) = belle_sip_dialog_process_queue(w)
  BY <1>1, <1>6 DEF update_as_uas, n
<1> HIDE DEF u
<1>9. /\ w \in Open /\ Steady(u, w) /\ w.byeSent = u.byeSent
      /\ w.localCseq = u.localCseq /\ w.clients = u.clients
      /\ w.remoteCseq = u.remoteCseq /\ w.out = u.out /\ w.needsAck = n
  <2>1. w \in Open
    <3>1. u \in Open /\ n \in BOOLEAN
      BY <1>3, <1>7
    <3> HIDE DEF n
    <3> QED
      BY ONLY <3>1, ZenonT(90) DEF Open, w
  <2>2. w.needsAck = n
    BY <1>7 DEF Open
  <2>3. /\ Steady(u, w) /\ w.byeSent = u.byeSent
        /\ w.localCseq = u.localCseq /\ w.clients = u.clients
        /\ w.remoteCseq = u.remoteCseq /\ w.out = u.out
    BY <1>7 DEF Open, Steady
  <2> QED
    BY <2>1, <2>2, <2>3
<1> HIDE DEF w
<1>10. w.queued = 0
  BY <1>6, <1>7, <1>9 DEF Steady
<1>11. respond(s, Trying(d, m), m, code) = w
  BY <1>2, <1>8, <1>10, Idle
<1>12. /\ Steady(d, w) /\ w.byeSent = d.byeSent
       /\ w.localCseq = d.localCseq /\ w.clients = d.clients
  BY <1>4, <1>5, <1>7, <1>9 DEF Agrees, Steady
<1>13. w.out = Append(Append(d.out, a), b)
  BY <1>4, <1>5, <1>7, <1>9
<1>14. w.needsAck <=> code < 300
  BY <1>3, <1>9, ZenonT(60)
<1> QED
  BY <1>7, <1>9, <1>11, <1>12, <1>13, <1>14 DEF a, b

\* A confirmed dialog answers a BYE, by which it is deleted.
LEMMA AnswersBye ==
    ASSUME NEW s \in Side, NEW d \in Open, d.state = "CONFIRMED", d.queued = 0,
           NEW m \in Message, m.method = "BYE"
    PROVE  LET u == [respond(s, d, m, 200) EXCEPT !.op = "TERMINATING"] IN
           /\ u \in Open /\ u.state = "TERMINATED" /\ u.op = "TERMINATING"
           /\ ~u.needsAck /\ u.queued = 0
           /\ u.misplaced = d.misplaced /\ u.offered = d.offered
           /\ u.byeSent = d.byeSent /\ u.clients = d.clients
           /\ u.localCseq = d.localCseq
           /\ u.out = Append(d.out, Response("BYE", m.cseq, 200))
<1> DEFINE b == Response("BYE", m.cseq, 200)
           q == Put(d, b)
           u == [q EXCEPT !.last = Settled, !.remoteCseq = b.cseq]
           v == ByeAnswered(u)
           w == [v EXCEPT !.op = "TERMINATING"]
<1>1. /\ b \in Message /\ m.cseq \in Nat /\ Settled \in Nat
      /\ b.cseq = m.cseq /\ b.method = "BYE"
  BY DEF Response, Message, Requests, Codes, Settled
<1>2. respond(s, d, m, 200) = update_as_uas(s, q, b)
  BY DEF respond
<1> HIDE DEF b
<1>3. q \in Open /\ Agrees(d, q) /\ q.out = Append(d.out, b)
  BY <1>1, Puts
<1> HIDE DEF q
<1>4. q.state = "CONFIRMED"
  BY <1>3 DEF Agrees
<1>5. /\ u \in Open /\ Steady(q, u) /\ u.byeSent = q.byeSent
      /\ u.localCseq = q.localCseq /\ u.clients = q.clients /\ u.out = q.out
  BY ONLY <1>1, <1>3, ZenonT(90) DEF Open, Steady
<1>6. update_as_uas(s, q, b) = ByeAnswered(u)
  BY <1>1, <1>4 DEF update_as_uas
<1> HIDE DEF u
<1>7. u.state = "CONFIRMED"
  BY <1>4, <1>5 DEF Steady
<1>8. /\ v \in Open /\ v.state = "TERMINATED" /\ ~v.needsAck
      /\ v.queued = 0
      /\ v.misplaced = u.misplaced /\ v.offered = u.offered
      /\ v.byeSent = u.byeSent /\ v.clients = u.clients
      /\ v.localCseq = u.localCseq /\ v.out = u.out
  BY <1>5, <1>7, Deletes
<1> HIDE DEF v
<1>9. /\ w \in Open /\ w.state = v.state /\ w.needsAck = v.needsAck
      /\ w.queued = v.queued /\ w.op = "TERMINATING"
      /\ w.misplaced = v.misplaced /\ w.offered = v.offered
      /\ w.byeSent = v.byeSent /\ w.clients = v.clients
      /\ w.localCseq = v.localCseq /\ w.out = v.out
  BY <1>8, ZenonT(90) DEF Open
<1>10. [respond(s, d, m, 200) EXCEPT !.op = "TERMINATING"] = w
  BY <1>2, <1>6 DEF v
<1> HIDE DEF w
<1>11. /\ w.misplaced = d.misplaced /\ w.offered = d.offered
       /\ w.byeSent = d.byeSent /\ w.clients = d.clients
       /\ w.localCseq = d.localCseq /\ w.out = Append(d.out, b)
  BY <1>3, <1>5, <1>8, <1>9 DEF Agrees, Steady
<1> QED
  BY <1>8, <1>9, <1>10, <1>11, ZenonT(60) DEF b

-----------------------------------------------------------------------------
(* What an end reads.                                                      *)

\* What neither sends a request nor ends anything leaves an end as it was.
LEMMA StaysAlone ==
    ASSUME NEW d, NEW u, Alone(d), Steady(d, u), u.byeSent = d.byeSent,
           u.localCseq = d.localCseq, u.clients = d.clients
    PROVE  Alone(u) /\ Alike(d, u) /\ Pend(u) = Pend(d) /\ (Gone(u) <=> Gone(d))
<1>1. Alike(d, u) /\ Pend(u) = Pend(d) /\ (Gone(u) <=> Gone(d))
  BY DEF Steady, Alike, Pend, Gone
<1>2. Numbered(d) => Numbered(u)
  BY DEF Numbered
<1> QED
  BY <1>1, <1>2 DEF Steady, Alone

\* An end reads a request.
LEMMA ReadsRequest ==
    ASSUME NEW s \in Side, s \notin Deferrers,
           NEW d \in Open, d.out = <<>>, Alone(d), d.state # "EARLY",
           NEW e, Alone(e), e.state # "EARLY",
           NEW q \in Seq(Message), NEW r \in Seq(Message),
           Talk(d, q, e, r), Talk(e, r, d, q),
           NEW m \in Message, NEW z \in Seq(Message), Cuts(q, m, z),
           IsRequest(m), m.method # "ACK"
    PROVE  LET w == dispatch_request(s, d, m)
               x == r \o w.out
           IN  w \in Open /\ Alone(w) /\ Talk(w, z, e, x) /\ Talk(e, x, w, z)
<1> DEFINE w == dispatch_request(s, d, m)
           x == r \o w.out
<1> SUFFICES w \in Open /\ Alone(w) /\ Talk(w, z, e, x) /\ Talk(e, x, w, z)
  OBVIOUS
<1> HIDE DEF w, x
<1>1. m \in Invites \/ m \in Byes
  <2>1. m \notin Strange
    BY DEF Talk, Cuts
  <2> QED
    BY <2>1 DEF Message, Requests, Strange, Invites, Byes, IsRequest
<1>2. d.queued = 0 /\ d.state \in {"CONFIRMED", "TERMINATED"} /\ m.cseq \in Nat
  BY DEF Alone, Open, Message
<1>3. CASE m \in Invites
  <2> DEFINE a  == Response("INVITE", m.cseq, 100)
             b2 == Response("INVITE", m.cseq, 200)
             b4 == Response("INVITE", m.cseq, 491)
             y  == r \o Append(<<>>, a)
  <2>1. m.method = "INVITE"
    BY <1>3 DEF Invites
  <2>2. d.state = "CONFIRMED"
    BY <1>2, <1>3 DEF Talk, Ended, Cuts
  <2>3. /\ a \in Trials /\ a \in Message /\ a.cseq = m.cseq
        /\ b2 \in OkFor(m.cseq) /\ b2 \in Message /\ b2.cseq = m.cseq
        /\ b4 \in Finals \ Oks /\ b4 \in Message /\ b4.cseq = m.cseq
    BY <1>2 DEF Response, Message, Requests, Codes, Trials, OkFor, Finals, Oks
  <2>4. ASSUME NEW c \in Codes, w = respond(s, Trying(d, m), m, c)
        PROVE  /\ w \in Open /\ Alone(w) /\ Alike(d, w) /\ Pend(w) = Pend(d)
               /\ (w.needsAck <=> c < 300) /\ w.remoteCseq = m.cseq
               /\ w.out = Append(Append(<<>>, Response("INVITE", m.cseq, 100)),
                                 Response("INVITE", m.cseq, c))
    <3>1. /\ s \in Side /\ d \in Open /\ d.state = "CONFIRMED" /\ d.queued = 0
          /\ m \in Message /\ m.method = "INVITE" /\ c \in Codes
          /\ w = respond(s, Trying(d, m), m, c) /\ d.out = <<>>
      BY <1>2, <2>1, <2>2, <2>4 DEF Codes
    <3>2. /\ w \in Open /\ Steady(d, w) /\ w.byeSent = d.byeSent
          /\ w.localCseq = d.localCseq /\ w.clients = d.clients
          /\ (w.needsAck <=> c < 300) /\ w.remoteCseq = m.cseq
          /\ w.out = Append(Append(<<>>, Response("INVITE", m.cseq, 100)),
                            Response("INVITE", m.cseq, c))
      <4> DEFINE v == respond(s, Trying(d, m), m, c)
      <4>1. v \in Open /\ Steady(d, v)
        BY ONLY <3>1, AnswersInvite
      <4>2. v.byeSent = d.byeSent /\ v.localCseq = d.localCseq
        BY ONLY <3>1, AnswersInvite
      <4>3. v.clients = d.clients /\ v.remoteCseq = m.cseq
        BY ONLY <3>1, AnswersInvite
      <4>4. v.needsAck <=> c < 300
        BY ONLY <3>1, AnswersInvite
      <4>5. v.out = Append(Append(d.out, Response("INVITE", m.cseq, 100)),
                           Response("INVITE", m.cseq, c))
        BY ONLY <3>1, AnswersInvite
      <4> QED
        BY ONLY <3>1, <4>1, <4>2, <4>3, <4>4, <4>5
    <3> QED
      BY ONLY Alone(d), <3>2, StaysAlone
  <2>5. Latest(d) => belle_sip_dialog_request_pending(d)
    BY DEF Latest, belle_sip_dialog_request_pending
  <2>6. CASE belle_sip_dialog_request_pending(d)
    <3>1. w = respond(s, Trying(d, m), m, 491)
      BY <2>1, <2>2, <2>6 DEF w, dispatch_request
    <3>2. 491 \in Codes /\ ~(491 < 300)
      BY DEF Codes
    <3>3. /\ w \in Open /\ Alone(w) /\ Alike(d, w) /\ Pend(w) = Pend(d)
          /\ ~w.needsAck /\ w.out = Append(Append(<<>>, a), b4)
      BY ONLY <2>4, <3>1, <3>2
    <3> HIDE DEF a, b2, b4
    <3>4. /\ y \in Seq(Message) /\ Grows(r, a, y)
          /\ x \in Seq(Message) /\ Grows(y, b4, x)
      BY <2>3, <3>3, Outgoing DEF x
    <3> HIDE DEF y
    <3> QED
      BY <1>3, <2>2, <2>3, <3>3, <3>4, Refuses
  <2>7. CASE ~belle_sip_dialog_request_pending(d)
    <3>1. w = respond(s, Trying(d, m), m, 200)
      BY <2>1, <2>2, <2>7 DEF w, dispatch_request, process_request_event
    <3>2. 200 \in Codes
      BY DEF Codes
    <3>3. /\ w \in Open /\ Alone(w) /\ Alike(d, w) /\ Pend(w) = Pend(d)
          /\ w.remoteCseq = m.cseq /\ w.out = Append(Append(<<>>, a), b2)
      BY ONLY <2>4, <3>1, <3>2
    <3> HIDE DEF a, b2, b4
    <3>4. /\ y \in Seq(Message) /\ Grows(r, a, y)
          /\ x \in Seq(Message) /\ Grows(y, b2, x)
      BY <2>3, <3>3, Outgoing DEF x
    <3> HIDE DEF y
    <3> QED
      BY <1>3, <2>2, <2>3, <2>5, <2>7, <3>3, <3>4, Accepts
  <2> QED
    BY <2>6, <2>7
<1>4. CASE m \in Byes
  <2>1. m.method = "BYE" /\ 200 \in Codes /\ 481 \in Codes
    BY <1>4 DEF Byes, Codes
  <2>2. \E c \in Codes :
           /\ w \in Open /\ Alone(w) /\ w.state = "TERMINATED"
           /\ w.byeSent = d.byeSent /\ Pend(w) = Pend(d)
           /\ w.out = Append(<<>>, Response("BYE", m.cseq, c))
    <3>1. CASE d.state = "TERMINATED"
      <4>1. w = Put(d, Response("BYE", m.cseq, 481))
        BY <2>1, <3>1 DEF w, dispatch_request, no_dialog
      <4>2. Response("BYE", m.cseq, 481) \in Message
        BY <1>2, <2>1, Messages DEF Requests
      <4>3. /\ w \in Open /\ Agrees(d, w)
            /\ w.out = Append(<<>>, Response("BYE", m.cseq, 481))
        BY <4>1, <4>2, Puts
      <4>4. Alone(w) /\ w.state = d.state /\ w.byeSent = d.byeSent /\ Pend(w) = Pend(d)
        BY <4>3, Agreeing DEF Agrees, Pend
      <4> QED
        BY <2>1, <3>1, <4>3, <4>4
    <3>2. CASE d.state = "CONFIRMED"
      <4>1. w = [respond(s, d, m, 200) EXCEPT !.op = "TERMINATING"]
        BY <2>1, <3>2 DEF w, dispatch_request, process_request_event
      <4>2. /\ w \in Open /\ w.state = "TERMINATED" /\ w.op = "TERMINATING"
            /\ w.queued = 0
            /\ w.misplaced = d.misplaced /\ w.offered = d.offered
            /\ w.byeSent = d.byeSent /\ w.clients = d.clients
            /\ w.localCseq = d.localCseq
            /\ w.out = Append(<<>>, Response("BYE", m.cseq, 200))
        BY <1>2, <2>1, <3>2, <4>1, AnswersBye
      <4>3. Pend(w) = Pend(d)
        BY <4>2 DEF Pend
      <4>4. Alone(w)
        BY <3>2, <4>2, <4>3 DEF Alone, Numbered, Gone
      <4> QED
        BY <2>1, <4>2, <4>3, <4>4
    <3> QED
      BY <1>2, <3>1, <3>2
  <2>3. PICK c \in Codes :
           /\ w \in Open /\ Alone(w) /\ w.state = "TERMINATED"
           /\ w.byeSent = d.byeSent /\ Pend(w) = Pend(d)
           /\ w.out = Append(<<>>, Response("BYE", m.cseq, c))
    BY <2>2
  <2> DEFINE b == Response("BYE", m.cseq, c)
  <2>4. b \in Message /\ b \in ByeAnswers
    BY <1>2, Sent DEF ByeAnswers
  <2> HIDE DEF b
  <2>5. x \in Seq(Message) /\ Grows(r, b, x)
    BY <2>3, <2>4, Outgoing DEF b, x
  <2>6. e.byeSent => Gone(e)
    BY DEF Alone
  <2> QED
    BY <1>4, <2>3, <2>4, <2>5, <2>6, HearsBye
<1> QED
  BY <1>1, <1>3, <1>4

\* An end reads an ACK.
LEMMA ReadsAck ==
    ASSUME NEW d \in Open, d.out = <<>>, Alone(d), d.state # "EARLY",
           NEW e, e.state # "EARLY",
           NEW q \in Seq(Message), NEW r \in Seq(Message),
           Talk(d, q, e, r), Talk(e, r, d, q),
           NEW m \in Message, NEW z \in Seq(Message), Cuts(q, m, z),
           m.method = "ACK"
    PROVE  LET w == belle_sip_dialog_handle_ack(d, m)
               x == r \o w.out
           IN  w \in Open /\ Alone(w) /\ Talk(w, z, e, x) /\ Talk(e, x, w, z)
<1> DEFINE w == belle_sip_dialog_handle_ack(d, m)
           x == r \o w.out
<1> SUFFICES w \in Open /\ Alone(w) /\ Talk(w, z, e, x) /\ Talk(e, x, w, z)
  OBVIOUS
<1> HIDE DEF w, x
<1>1. m.code = 0 /\ m \notin Byes /\ (\A n : m \in Settling(n) <=> m.cseq = n)
  <2>1. m \notin Strange
    BY DEF Talk, Cuts
  <2>2. m.code = 0
    BY <2>1 DEF Strange
  <2> QED
    BY <2>2, Kinds
<1>2. /\ w \in Open /\ Steady(d, w) /\ w.byeSent = d.byeSent
      /\ w.localCseq = d.localCseq /\ w.clients = d.clients
      /\ w.remoteCseq = d.remoteCseq /\ w.last = d.last /\ w.out = <<>>
      /\ w.needsAck => d.needsAck /\ (Gone(d) \/ m \notin Settling(d.remoteCseq))
  <2>1. CASE d.state # "TERMINATED" /\ d.needsAck /\ m.cseq = d.remoteCseq
    <3> DEFINE v == [d EXCEPT !.needsAck = FALSE, !.retrans = FALSE]
    <3>1. /\ v \in Open /\ Steady(d, v) /\ v.byeSent = d.byeSent
          /\ v.localCseq = d.localCseq /\ v.clients = d.clients
          /\ v.remoteCseq = d.remoteCseq /\ v.last = d.last /\ v.out = d.out
          /\ ~v.needsAck
      BY ZenonT(90) DEF Open, Steady
    <3>2. w = belle_sip_dialog_process_queue(v)
      BY <2>1 DEF w, belle_sip_dialog_handle_ack
    <3> HIDE DEF v
    <3>3. v.queued = 0
      BY <3>1 DEF Alone, Steady
    <3>4. w = v
      BY <3>2, <3>3, Idle
    <3> QED
      BY <3>1, <3>4
  <2>2. CASE ~(d.state # "TERMINATED" /\ d.needsAck /\ m.cseq = d.remoteCseq)
    <3>1. w = d
      BY <2>2 DEF w, belle_sip_dialog_handle_ack
    <3>2. d.needsAck => Gone(d) \/ m \notin Settling(d.remoteCseq)
      BY <1>1, <2>2 DEF Gone
    <3> QED
      BY <3>1, <3>2 DEF Steady
  <2> QED
    BY <2>1, <2>2
<1>3. Alone(w) /\ Alike(d, w) /\ Pend(w) = Pend(d)
  BY <1>2, StaysAlone
<1>4. Latest(d) => Latest(w)
  BY <1>2 DEF Latest
<1>5. x = r
  <2>1. r \o <<>> = r
    BY Behind
  <2> QED
    BY <1>2, <2>1 DEF x
<1>6. Talk(w, z, e, r) /\ Talk(e, r, w, z)
  BY <1>1, <1>2, <1>3, <1>4, ReadsOther
<1> QED
  BY <1>2, <1>3, <1>5, <1>6

-----------------------------------------------------------------------------
(* What an end does about a response.                                      *)

\* The callback of d, which has not read anything yet as far as the inbox q
\* goes, has come to v: what it sent so far is what may be sent.
Goes(d, q, e, r, v) ==
    /\ v \in Open /\ Steady(d, v) /\ v.byeSent = d.byeSent /\ Numbered(v)
    /\ r \o v.out \in Seq(Message)
    /\ Talk(d, q, e, r \o v.out) /\ Talk(e, r \o v.out, d, q)

\* Behind what an end sent it puts an ACK, or one more BYE.
LEMMA PutsMore ==
    ASSUME NEW d, d.state # "TERMINATED",
           NEW q \in Seq(Message), NEW e, NEW r \in Seq(Message),
           NEW o \in Seq(Message), r \o o \in Seq(Message),
           Talk(d, q, e, r \o o), Talk(e, r \o o, d, q),
           NEW b \in Message, b.code = 0, b.method \in {"BYE", "ACK"},
           b.method = "BYE" => d.byeSent
    PROVE  /\ r \o Append(o, b) \in Seq(Message)
           /\ Grows(r \o o, b, r \o Append(o, b))
           /\ Talk(d, q, e, r \o Append(o, b)) /\ Talk(e, r \o Append(o, b), d, q)
<1> DEFINE y == r \o o
           x == r \o Append(o, b)
<1>1. x = Append(y, b)
  BY ONLY r \in Seq(Message), o \in Seq(Message), b \in Message, Behind
<1>2. y \in Seq(Message) /\ Talk(d, q, e, y) /\ Talk(e, y, d, q)
  OBVIOUS
<1> HIDE DEF x, y
<1>3. x \in Seq(Message) /\ Grows(y, b, x)
  BY ONLY <1>1, <1>2, b \in Message, Grow
<1>4. Talk(d, q, e, x) /\ Talk(e, x, d, q)
  BY <1>2, <1>3, Repeats
<1> QED
  BY <1>3, <1>4 DEF x, y

\* An end that hung up may send one more BYE.
LEMMA SendsMore ==
    ASSUME NEW d, d.state # "TERMINATED", d.byeSent,
           NEW q \in Seq(Message), NEW e, NEW r \in Seq(Message),
           NEW v, Goes(d, q, e, r, v)
    PROVE  LET w == send_request(v, "BYE") IN
           /\ Goes(d, q, e, r, w) /\ Pend(w) = Pend(v) /\ Latest(w)
<1> DEFINE w == send_request(v, "BYE")
           c == v.localCseq + 1
           b == Request("BYE", c)
<1>1. v \in Open /\ Numbered(v) /\ "BYE" \in Requests
  BY DEF Goes, Requests
<1>2. /\ w \in Open /\ c \in Nat /\ Steady(v, w) /\ w.out = Append(v.out, b)
      /\ w.localCseq = c /\ w.last = c
      /\ w.clients = v.clients \cup
            {[method |-> "BYE", cseq |-> c, state |-> "TRYING"]}
      /\ w.byeSent = (v.byeSent \/ "BYE" = "BYE")
  BY <1>1, Sends
<1> HIDE DEF w
<1>3. Numbered(w) /\ Latest(w) /\ Pend(w) = Pend(v)
  BY <1>1, <1>2, NewClient
<1>4. b \in Message /\ b.method = "BYE" /\ b.code = 0
  BY <1>2 DEF Request, Message, Requests
<1> HIDE DEF b
<1>5. /\ v.out \in Seq(Message) /\ r \o v.out \in Seq(Message)
      /\ Talk(d, q, e, r \o v.out) /\ Talk(e, r \o v.out, d, q)
  BY <1>1 DEF Goes, Open
<1>6. /\ r \o Append(v.out, b) \in Seq(Message)
      /\ Talk(d, q, e, r \o Append(v.out, b)) /\ Talk(e, r \o Append(v.out, b), d, q)
  BY <1>4, <1>5, PutsMore
<1>7. Steady(d, w) /\ w.byeSent = d.byeSent
  <2>1. Steady(d, v) /\ v.byeSent = d.byeSent /\ d.byeSent \in BOOLEAN
    BY <1>1 DEF Goes, Open
  <2> QED
    BY <1>2, <2>1 DEF Steady
<1> QED
  BY <1>2, <1>3, <1>6, <1>7 DEF Goes, w

\* The dialog is updated as a response to an INVITE is received.
LEMMA UpdatesOnAnswer ==
    ASSUME NEW s, NEW d \in Open, d.state # "EARLY", d.queued = 0,
           NEW m \in Message, m.method = "INVITE", m.code \in Codes
    PROVE  LET v == update_as_uac(s, d, m) IN
           /\ v \in Open /\ Steady(d, v) /\ v.byeSent = d.byeSent
           /\ v.localCseq = d.localCseq /\ v.clients = d.clients /\ v.last = m.cseq
           /\ IsRetransmission(d, m) => v.out = Append(d.out, Request("ACK", m.cseq))
           /\ ~IsRetransmission(d, m) => v.out = d.out
           /\ v.needsAck =>
                \/ d.needsAck /\ ~(d.state = "CONFIRMED" /\ m.code >= 300)
                \/ d.state = "CONFIRMED" /\ m.code = 200 /\ ~IsRetransmission(d, m)
           /\ d.state = "CONFIRMED" /\ m.code = 200 /\ ~IsRetransmission(d, m)
                => v.needsAck /\ v.outInvite = m.cseq
<1> DEFINE v == update_as_uac(s, d, m)
           u == [d EXCEPT !.last = m.cseq]
<1>1. /\ m.cseq \in Nat
      /\ m.code \in 200..299 <=> m.code = 200
      /\ m.code = 200 => ~(m.code >= 300)
  BY DEF Message, Codes
<1>0. m.cseq \in Nat
  BY DEF Message
<1>2. /\ u \in Open /\ Steady(d, u) /\ u.byeSent = d.byeSent
      /\ u.localCseq = d.localCseq /\ u.clients = d.clients /\ u.last = m.cseq
      /\ u.out = d.out /\ u.needsAck = d.needsAck
  BY ONLY d \in Open, <1>0, ZenonT(90) DEF Open, Steady
<1>3. u.queued = 0
  BY <1>2 DEF Steady
<1>4. CASE IsRetransmission(d, m)
  <2> DEFINE w == [u EXCEPT !.outInvite = m.cseq]
  <2>1. v = Put(w, Request("ACK", m.cseq))
    BY <1>4 DEF update_as_uac, IsRetransmission
  <2>2. d.state = "CONFIRMED" /\ m.code = 200
    BY <1>1, <1>4 DEF IsRetransmission
  <2> HIDE DEF u, v
  <2>3. /\ w \in Open /\ Steady(u, w) /\ w.byeSent = u.byeSent
        /\ w.localCseq = u.localCseq /\ w.clients = u.clients
        /\ w.last = u.last /\ w.out = u.out /\ w.needsAck = u.needsAck
    BY ONLY <1>0, <1>2, ZenonT(90) DEF Open, Steady
  <2> HIDE DEF w
  <2>4. Request("ACK", m.cseq) \in Message
    BY <1>1, Messages, ZenonT(60)
  <2>5. v \in Open /\ Agrees(w, v) /\ v.out = Append(w.out, Request("ACK", m.cseq))
    BY <2>1, <2>3, <2>4, Puts
  <2>6. /\ Steady(d, v) /\ v.byeSent = d.byeSent /\ v.localCseq = d.localCseq
        /\ v.clients = d.clients /\ v.last = m.cseq /\ v.needsAck = d.needsAck
    BY <1>2, <2>3, <2>5 DEF Agrees, Steady
  <2> QED
    BY <1>1, <1>2, <1>4, <2>2, <2>3, <2>5, <2>6 DEF v
<1>5. CASE d.state = "CONFIRMED" /\ m.code = 200 /\ ~IsRetransmission(d, m)
  <2> DEFINE w == [u EXCEPT !.outInvite = m.cseq, !.needsAck = TRUE]
  <2>1. v = w
    BY <1>1, <1>5 DEF update_as_uac
  <2> HIDE DEF u, v
  <2>2. /\ w \in Open /\ Steady(u, w) /\ w.byeSent = u.byeSent
        /\ w.localCseq = u.localCseq /\ w.clients = u.clients
        /\ w.last = u.last /\ w.out = u.out /\ w.needsAck /\ w.outInvite = m.cseq
    BY ONLY <1>0, <1>2, ZenonT(90) DEF Open, Steady
  <2> HIDE DEF w
  <2>3. Steady(d, w)
    BY <1>2, <2>2 DEF Steady
  <2> QED
    BY <1>2, <1>5, <2>1, <2>2, <2>3 DEF v
<1>6. CASE d.state = "CONFIRMED" /\ m.code >= 300
  <2> DEFINE w == [u EXCEPT !.needsAck = FALSE]
  <2>0. ~IsRetransmission(d, m) /\ m.code # 200
    BY <1>1, <1>6 DEF IsRetransmission
  <2>1. v = belle_sip_dialog_process_queue(w)
    BY <1>1, <1>6, <2>0 DEF update_as_uac
  <2> HIDE DEF u, v
  <2>2. /\ w \in Open /\ Steady(u, w) /\ w.byeSent = u.byeSent
        /\ w.localCseq = u.localCseq /\ w.clients = u.clients
        /\ w.last = u.last /\ w.out = u.out /\ ~w.needsAck
    BY ONLY <1>0, <1>2, ZenonT(90) DEF Open, Steady
  <2> HIDE DEF w
  <2>3. v = w /\ Steady(d, w)
    BY <1>2, <1>3, <2>1, <2>2, Idle DEF Steady
  <2> QED
    BY <1>2, <1>6, <2>0, <2>2, <2>3 DEF v
<1>7. CASE d.state = "TERMINATED" \/ m.code = 100
  <2>0. ~IsRetransmission(d, m) /\ d.state \in {"CONFIRMED", "TERMINATED"}
    BY <1>1, <1>7 DEF IsRetransmission, Open
  <2>1. m.code = 100 => ~(m.code >= 300) /\ m.code # 200
    OBVIOUS
  <2>2. v = belle_sip_dialog_process_queue(u)
    BY <1>1, <1>7, <2>0, <2>1 DEF update_as_uac
  <2>3. v = u
    BY <1>3, <2>2, Idle
  <2>4. u.needsAck => d.needsAck /\ ~(d.state = "CONFIRMED" /\ m.code >= 300)
    BY <1>2, <1>7, <2>1
  <2> HIDE DEF u, v
  <2> QED
    BY <1>2, <1>7, <2>0, <2>1, <2>3, <2>4 DEF v
<1>8. m.code = 100 \/ m.code = 200 \/ m.code >= 300
  BY DEF Codes
<1> QED
  BY <1>4, <1>5, <1>6, <1>7, <1>8 DEF Open

\* The ACK goes out in the callback that brings the 2xx.
LEMMA Acknowledges ==
    ASSUME NEW d \in Open, d.state = "CONFIRMED", d.op = "ALIVE", d.queued = 0,
           NEW m, m.method = "INVITE", m.code = 200,
           d.needsAck, d.outInvite = d.localCseq
    PROVE  LET v == call_process_response(d, m) IN
           /\ v \in Open /\ Steady(d, v) /\ v.byeSent = d.byeSent
           /\ v.localCseq = d.localCseq /\ v.clients = d.clients /\ v.last = d.last /\ ~v.needsAck
           /\ v.out = Append(d.out, Request("ACK", d.localCseq))
<1> DEFINE u == [d EXCEPT !.needsAck = FALSE, !.outAck = d.localCseq]
           b == Request("ACK", d.localCseq)
           v == Put(u, b)
<1>1. d.localCseq \in Nat /\ b \in Message
  BY Messages DEF Open
<1>2. call_process_response(d, m) = belle_sip_dialog_process_queue(v)
  BY DEF call_process_response, ack_response
<1>3. /\ u \in Open /\ Steady(d, u) /\ u.byeSent = d.byeSent
      /\ u.localCseq = d.localCseq /\ u.clients = d.clients /\ u.last = d.last /\ ~u.needsAck
      /\ u.out = d.out
  BY ONLY d \in Open, <1>1, ZenonT(90) DEF Open, Steady
<1> HIDE DEF u, b
<1>4. v \in Open /\ Agrees(u, v) /\ v.out = Append(u.out, b)
  BY <1>1, <1>3, Puts
<1> HIDE DEF v
<1>5. /\ Steady(d, v) /\ v.byeSent = d.byeSent
      /\ v.localCseq = d.localCseq /\ v.clients = d.clients /\ v.last = d.last /\ ~v.needsAck
  BY <1>3, <1>4 DEF Agrees, Steady
<1>6. call_process_response(d, m) = v
  BY <1>2, <1>5, Idle DEF Steady
<1> QED
  BY <1>3, <1>4, <1>5, <1>6 DEF b

\* A response moves the client on that it is for.
LEMMA Advances ==
    ASSUME NEW d \in Open, NEW t \in d.clients, NEW m
    PROVE  LET u == [d EXCEPT !.clients = (@ \ {t}) \cup Progress(t, m)] IN
           /\ u \in Open /\ Steady(d, u) /\ u.byeSent = d.byeSent
           /\ u.localCseq = d.localCseq /\ u.needsAck = d.needsAck /\ u.out = d.out
           /\ u.clients = (d.clients \ {t}) \cup Progress(t, m)
<1> DEFINE S  == [method : Requests, cseq : Nat, state : Transient \cup {"ACCEPTED"}]
           cs == (d.clients \ {t}) \cup Progress(t, m)
           u  == [d EXCEPT !.clients = cs]
<1>1. t \in S /\ d.clients \subseteq S
  BY DEF Open
<1>2. Progress(t, m) \subseteq S
  <2>1. /\ [t EXCEPT !.state = "PROCEEDING"] \in S
        /\ [t EXCEPT !.state = "ACCEPTED"] \in S
    BY <1>1 DEF Transient
  <2> HIDE DEF S
  <2> QED
    BY <2>1 DEF Progress
<1>3. cs \in SUBSET S
  BY <1>1, <1>2
<1> HIDE DEF cs
<1>4. /\ u \in Open /\ Steady(d, u) /\ u.byeSent = d.byeSent
      /\ u.localCseq = d.localCseq /\ u.needsAck = d.needsAck /\ u.out = d.out
      /\ u.clients = cs
  BY ONLY d \in Open, <1>3, ZenonT(90) DEF Open, Steady
<1> QED
  BY <1>4 DEF cs

\* The client that an answer is for is the one INVITE that waits for its final
\* response, and while the call runs no ACK is awaited then.
LEMMA AnswersOne ==
    ASSUME NEW d \in Open, Alone(d), d.state # "EARLY",
           NEW q, NEW e, NEW r, Talk(d, q, e, r),
           NEW m \in Message, NEW z, Cuts(q, m, z), m \in Answers,
           NEW t \in d.clients, t.cseq = m.cseq
    PROVE  /\ t.method = "INVITE" /\ t.state \in Transient
           /\ Pend(d) = {m.cseq}
           /\ m.method = "INVITE" /\ m.code \in Codes
           /\ ~Gone(d) => ~d.needsAck
<1>1. m \notin Unasked(Pend(d)) /\ Has(q, Answers)
  BY DEF Talk, Replied, Cuts
<1>2. m.cseq \in Pend(d)
  BY <1>1, Kinds
<1>3. Pend(d) = {m.cseq}
  BY <1>2 DEF Alone
<1>4. t.method = "INVITE" /\ t.state \in Transient
  <2>1. PICK u \in d.clients : u.method = "INVITE" /\ u.state \in Transient
                               /\ u.cseq = m.cseq
    BY <1>2 DEF Pend
  <2>2. u = t
    BY <2>1 DEF Alone, Numbered
  <2> QED
    BY <2>1, <2>2
<1>5. m.method = "INVITE" /\ m.code \in Codes
  BY DEF Answers, Trials, Finals, Message
<1>6. ~Gone(d) => ~d.needsAck
  <2>1. ~Leads(q, Settling(d.remoteCseq), Invites \cup Answers)
    BY DEF Cuts
  <2> QED
    BY <1>1, <2>1 DEF Talk, Owed
<1> QED
  BY <1>3, <1>4, <1>5, <1>6

\* An end reads the answer to an INVITE.
LEMMA ReadsAnswer ==
    ASSUME NEW s, NEW d \in Open, d.out = <<>>, Alone(d), Waits(d),
           d.state # "EARLY", NEW e, e.state # "EARLY",
           NEW q \in Seq(Message), NEW r \in Seq(Message),
           Talk(d, q, e, r), Talk(e, r, d, q),
           NEW m \in Message, NEW z \in Seq(Message), Cuts(q, m, z), m \in Answers,
           NEW t \in d.clients, t.cseq = m.cseq, t.method = m.method
    PROVE  LET w == notify_response(s,
                        [d EXCEPT !.clients = (@ \ {t}) \cup Progress(t, m)], m)
               x == r \o w.out
           IN  w \in Open /\ Alone(w) /\ Talk(w, z, e, x) /\ Talk(e, x, w, z)
<1> DEFINE u == [d EXCEPT !.clients = (@ \ {t}) \cup Progress(t, m)]
           v == update_as_uac(s, u, m)
           w == notify_response(s, u, m)
           x == r \o w.out
<1> SUFFICES w \in Open /\ Alone(w) /\ Talk(w, z, e, x) /\ Talk(e, x, w, z)
  OBVIOUS
<1> HIDE DEF w, x
<1>1. /\ t.method = "INVITE" /\ t.state \in Transient /\ Pend(d) = {m.cseq}
      /\ m.method = "INVITE" /\ m.code \in Codes /\ m.cseq \in Nat
      /\ ~Gone(d) => ~d.needsAck
  BY AnswersOne DEF Message
<1>2. d.queued = 0 /\ Numbered(d) /\ d.out = <<>> /\ (d.needsAck => d.state = "CONFIRMED")
  BY DEF Alone, Waits
<1>3. /\ u \in Open /\ Steady(d, u) /\ u.byeSent = d.byeSent
      /\ u.localCseq = d.localCseq /\ u.needsAck = d.needsAck /\ u.out = <<>>
      /\ u.clients = (d.clients \ {t}) \cup Progress(t, m)
  BY Advances, ZenonT(60)
<1> HIDE DEF u
<1>4. u.queued = 0 /\ u.state # "EARLY" /\ u.state = d.state /\ u.op = d.op
  BY <1>2, <1>3 DEF Steady
<1>5. /\ v \in Open /\ Steady(u, v) /\ v.byeSent = u.byeSent
      /\ v.localCseq = u.localCseq /\ v.clients = u.clients /\ v.last = m.cseq
      /\ IsRetransmission(u, m) => v.out = Append(u.out, Request("ACK", m.cseq))
      /\ ~IsRetransmission(u, m) => v.out = u.out
      /\ v.needsAck =>
                \/ u.needsAck /\ ~(u.state = "CONFIRMED" /\ m.code >= 300)
                \/ u.state = "CONFIRMED" /\ m.code = 200 /\ ~IsRetransmission(u, m)
      /\ u.state = "CONFIRMED" /\ m.code = 200 /\ ~IsRetransmission(u, m)
                => v.needsAck /\ v.outInvite = m.cseq
  <2>1. /\ u \in Open /\ u.state # "EARLY" /\ u.queued = 0
        /\ m \in Message /\ m.method = "INVITE" /\ m.code \in Codes
    BY <1>1, <1>3, <1>4
  <2>2. v \in Open /\ Steady(u, v) /\ v.byeSent = u.byeSent
    BY ONLY <2>1, UpdatesOnAnswer, SMTT(60) DEF v
  <2>3. v.localCseq = u.localCseq /\ v.clients = u.clients /\ v.last = m.cseq
    BY ONLY <2>1, UpdatesOnAnswer, SMTT(60) DEF v
  <2>4. /\ IsRetransmission(u, m) => v.out = Append(u.out, Request("ACK", m.cseq))
        /\ ~IsRetransmission(u, m) => v.out = u.out
    BY ONLY <2>1, UpdatesOnAnswer, SMTT(60) DEF v
  <2>5. v.needsAck =>
                \/ u.needsAck /\ ~(u.state = "CONFIRMED" /\ m.code >= 300)
                \/ u.state = "CONFIRMED" /\ m.code = 200 /\ ~IsRetransmission(u, m)
    BY ONLY <2>1, UpdatesOnAnswer, SMTT(60) DEF v
  <2>6. u.state = "CONFIRMED" /\ m.code = 200 /\ ~IsRetransmission(u, m)
                => v.needsAck /\ v.outInvite = m.cseq
    BY ONLY <2>1, UpdatesOnAnswer, SMTT(60) DEF v
  <2> HIDE DEF v
  <2> QED
    BY ONLY <2>2, <2>3, <2>4, <2>5, <2>6
<1> HIDE DEF v
<1>6. Numbered(v) /\ (m.code < 200 => Pend(v) = Pend(d) /\ Latest(v))
      /\ (m.code >= 200 => Pend(v) = {})
  <2>1. v.localCseq = d.localCseq
        /\ v.clients = (d.clients \ {t}) \cup Progress(t, m) /\ v.last = m.cseq
    BY <1>3, <1>5
  <2>2. /\ Numbered(v)
        /\ m.code < 200 => Pend(v) = Pend(d) /\ (v.last = m.cseq => Latest(v))
        /\ m.code >= 200 => Pend(v) = Pend(d) \ {m.cseq}
    BY <1>1, <1>2, <2>1, OldClient
  <2> QED
    BY <1>1, <2>1, <2>2
<1>7. Steady(d, v) /\ v.byeSent = d.byeSent /\ v.localCseq = d.localCseq
  BY <1>3, <1>5 DEF Steady
<1>8. Goes(d, q, e, r, v)
  <2>1. <<>> \in Seq(Message) /\ r \o <<>> = r
    BY Behind
  <2>2. CASE IsRetransmission(u, m)
    <3>1. d.state = "CONFIRMED"
      BY <1>4, <2>2 DEF IsRetransmission
    <3> DEFINE b == Request("ACK", m.cseq)
    <3>2. b \in Message /\ b.method = "ACK" /\ b.code = 0
      BY <1>1 DEF Request, Message
    <3>3. v.out = Append(<<>>, b)
      BY <1>3, <1>5, <2>2
    <3> HIDE DEF b
    <3>4. /\ r \o Append(<<>>, b) \in Seq(Message)
          /\ Talk(d, q, e, r \o Append(<<>>, b)) /\ Talk(e, r \o Append(<<>>, b), d, q)
      <4>1. /\ r \o <<>> \in Seq(Message)
            /\ Talk(d, q, e, r \o <<>>) /\ Talk(e, r \o <<>>, d, q)
        BY <2>1
      <4> QED
        BY ONLY <2>1, <3>1, <3>2, <4>1, q \in Seq(Message), r \in Seq(Message),
                PutsMore
    <3> QED
      BY <1>5, <1>6, <1>7, <3>3, <3>4 DEF Goes
  <2>3. CASE ~IsRetransmission(u, m)
    <3>1. v.out = <<>>
      BY <1>3, <1>5, <2>3
    <3> QED
      BY <1>5, <1>6, <1>7, <2>1, <3>1 DEF Goes
  <2> QED
    BY <2>2, <2>3
<1> DEFINE Done(y) ==
      /\ Goes(d, q, e, r, y) /\ Pend(y) = Pend(v) /\ (Latest(v) => Latest(y))
      /\ ~Gone(d) => ~y.needsAck /\ y.localCseq = d.localCseq
      /\ m.code = 200 => Gone(e) \/ Has(r \o y.out, Settling(m.cseq))
<1>9. ASSUME IsRetransmission(u, m)
      PROVE  Done(w)
  <2>1. w = v
    BY <1>9 DEF w, notify_response, v
  <2>2. Has(r \o v.out, Settling(m.cseq))
    <3> DEFINE b == Request("ACK", m.cseq)
    <3>1. b \in Message /\ b \in Settling(m.cseq)
      BY <1>1, Sent
    <3>2. v.out = Append(<<>>, b)
      BY <1>3, <1>5, <1>9
    <3> HIDE DEF b
    <3>3. Grows(r, b, r \o Append(<<>>, b))
      BY <3>1, Outgoing
    <3> QED
      BY <3>1, <3>2, <3>3 DEF Grows
  <2>3. ~Gone(d) => ~v.needsAck
    BY <1>1, <1>3, <1>5, <1>9
  <2> QED
    BY <1>7, <1>8, <2>1, <2>2, <2>3
<1>10. ASSUME ~IsRetransmission(u, m) /\ d.state = "TERMINATED"
      PROVE  Done(w)
  <2>1. ~v.needsAck
    BY <1>2, <1>3, <1>4, <1>5, <1>10
  <2>2. call_process_response(v, m) = v
    BY <1>7, <1>10 DEF call_process_response, Steady
  <2>3. w = v
    BY <1>10, <2>1, <2>2 DEF w, notify_response, belle_sip_dialog_check_ack_sent, v
  <2>4. Gone(e)
    BY <1>10 DEF Talk, Ended
  <2> QED
    BY <1>7, <1>8, <2>1, <2>3, <2>4
<1>11. ASSUME ~IsRetransmission(u, m) /\ d.state = "CONFIRMED" /\ d.op = "ALIVE"
      PROVE  Done(w)
  <2>1. ~Gone(d) /\ ~d.needsAck
    BY <1>1, <1>11 DEF Gone
  <2>2. v.state = "CONFIRMED" /\ v.op = "ALIVE" /\ v.queued = 0
    BY <1>2, <1>7, <1>11 DEF Steady
  <2>3. CASE m.code = 200
    <3> DEFINE y == call_process_response(v, m)
               b == Request("ACK", v.localCseq)
    <3>1. v.needsAck /\ v.outInvite = m.cseq
      BY <1>4, <1>5, <1>11, <2>3
    <3>2. m.cseq = d.localCseq
      BY <1>1, <1>11, <2>1 DEF Alone
    <3>3. /\ y \in Open /\ Steady(v, y) /\ y.byeSent = v.byeSent
          /\ y.localCseq = v.localCseq /\ y.clients = v.clients
          /\ y.last = v.last /\ ~y.needsAck
          /\ y.out = Append(v.out, b)
      BY <1>1, <1>5, <1>7, <2>2, <2>3, <3>1, <3>2, Acknowledges
    <3> HIDE DEF y
    <3>4. w = y
      BY <1>11, <3>3 DEF w, notify_response, belle_sip_dialog_check_ack_sent, v, y
    <3>5. b \in Message /\ b \in Settling(m.cseq) /\ b.method = "ACK" /\ b.code = 0
      BY <1>1, <1>7, <3>2, Sent, ZenonT(60) DEF Request
    <3> HIDE DEF b
    <3>6. /\ v.out \in Seq(Message) /\ r \o v.out \in Seq(Message)
          /\ Talk(d, q, e, r \o v.out) /\ Talk(e, r \o v.out, d, q)
      BY <1>8 DEF Goes, Open
    <3>7. /\ r \o Append(v.out, b) \in Seq(Message)
          /\ Grows(r \o v.out, b, r \o Append(v.out, b))
          /\ Talk(d, q, e, r \o Append(v.out, b)) /\ Talk(e, r \o Append(v.out, b), d, q)
      BY <1>11, <3>5, <3>6, PutsMore
    <3>8. Has(r \o y.out, Settling(m.cseq))
      BY <3>3, <3>5, <3>7 DEF Grows
    <3>9. Numbered(y) /\ Pend(y) = Pend(v)
      BY <1>6, <3>3 DEF Numbered, Pend
    <3>10. Steady(d, y) /\ y.byeSent = d.byeSent /\ y.localCseq = d.localCseq
      BY <1>7, <3>3 DEF Steady
    <3>11. Goes(d, q, e, r, y)
      BY <3>3, <3>7, <3>9, <3>10 DEF Goes
    <3>12. Latest(v) => Latest(y)
      <4>1. y.last = v.last
        BY <3>3
      <4> QED
        BY <3>3, <4>1 DEF Latest
    <3> QED
      BY <3>3, <3>4, <3>8, <3>9, <3>10, <3>11, <3>12
  <2>4. CASE m.code # 200
    <3>1. ~v.needsAck
      BY <1>3, <1>5, <2>1, <2>4
    <3>2. m.code \notin 200..299
      <4>1. \A c \in Codes : c \in 200..299 => c = 200
        BY DEF Codes
      <4> QED
        BY ONLY <1>1, <2>4, <4>1
    <3>3. call_process_response(v, m) = v
      BY <2>2, <3>2 DEF call_process_response
    <3>4. w = v
      BY <1>11, <3>1, <3>3 DEF w, notify_response, belle_sip_dialog_check_ack_sent, v
    <3> QED
      BY <1>7, <1>8, <2>4, <3>1, <3>4
  <2> QED
    BY <2>3, <2>4
<1>12. ASSUME ~IsRetransmission(u, m) /\ d.state = "CONFIRMED" /\ d.op # "ALIVE"
      PROVE  Done(w)
  <2>1. d.byeSent /\ Gone(d)
    BY <1>12 DEF Alone, Gone
  <2> DEFINE y == call_process_response(v, m)
             Well(a) == /\ Goes(d, q, e, r, a) /\ Pend(a) = Pend(v)
                        /\ Latest(v) => Latest(a)
  <2>2. ASSUME NEW a, Well(a) PROVE Well(send_request(a, "BYE"))
    <3> DEFINE b == send_request(a, "BYE")
    <3>1. Goes(d, q, e, r, b) /\ Pend(b) = Pend(a) /\ Latest(b)
      BY <1>12, <2>1, <2>2, SendsMore
    <3> QED
      BY <2>2, <3>1
  <2>3. Well(v)
    BY <1>8
  <2>4. y = v \/ y = send_request(v, "BYE")
    BY <1>7, <1>12 DEF call_process_response, Steady
  <2>5. w = y \/ w = send_request(y, "BYE")
    BY <1>12 DEF w, notify_response, belle_sip_dialog_check_ack_sent, v, y
  <2> HIDE DEF Well, y
  <2>6. Well(y)
    BY <2>2, <2>3, <2>4
  <2>7. Well(w)
    BY <2>2, <2>5, <2>6
  <2>8. Goes(d, q, e, r, w) /\ Pend(w) = Pend(v) /\ (Latest(v) => Latest(w))
    BY <2>7 DEF Well
  <2>9. Gone(e) \/ Has(r \o w.out, Settling(m.cseq))
    <3> DEFINE o == r \o w.out
    <3>1. Talk(e, o, d, q) /\ o \in Seq(Message)
      BY <2>8 DEF Goes
    <3> HIDE DEF o
    <3>2. Gone(e) \/ Has(o, Byes)
      BY <2>1, <3>1 DEF Talk, Told
    <3>3. Byes \subseteq Settling(m.cseq)
      BY DEF Settling
    <3> QED
      BY <3>1, <3>2, <3>3, Sorts DEF o
  <2> QED
    BY <2>1, <2>8, <2>9
<1>13. Done(w)
  <2>1. d.state \in {"CONFIRMED", "TERMINATED"}
    BY DEF Open
  <2> HIDE DEF Done
  <2> QED
    BY <1>9, <1>10, <1>11, <1>12, <2>1
<1>14. /\ w \in Open /\ Steady(d, w) /\ w.byeSent = d.byeSent /\ Numbered(w)
       /\ x \in Seq(Message) /\ Talk(d, q, e, x) /\ Talk(e, x, d, q)
       /\ m.code = 200 => Gone(e) \/ Has(x, Settling(m.cseq))
  BY <1>13 DEF Goes, x
<1>15. Alike(d, w) /\ w.state = d.state /\ w.op = d.op
  BY <1>14 DEF Alike, Steady
<1>16. Alone(w)
  <2>1. \A a, b \in Pend(w) : a = b
    BY <1>1, <1>6, <1>13, SMTT(60) DEF Codes
  <2>2. ~Gone(w) /\ w.state = "CONFIRMED" => \A a \in Pend(w) : a = w.localCseq
    <3>1. Pend(w) \subseteq Pend(d)
      BY <1>1, <1>6, <1>13 DEF Codes
    <3> QED
      BY <1>13, <1>15, <3>1 DEF Alone, Gone
  <2> QED
    BY <1>14, <1>15, <2>1, <2>2 DEF Alone, Steady, Gone
<1>17. Talk(w, z, e, x) /\ Talk(e, x, w, z)
  <2>1. CASE m \in Trials
    <3>1. m.code = 100 /\ 100 < 200
      BY <2>1 DEF Trials
    <3>2. Pend(w) = Pend(d) /\ Latest(w)
      BY <1>6, <1>13, <3>1
    <3>3. Gone(d) \/ ~w.needsAck
      BY <1>13
    <3> QED
      BY <1>14, <1>15, <2>1, <3>2, <3>3, HearsTrial
  <2>2. CASE m \in Finals
    <3>1. m.code >= 200 /\ (m \in Oks => m.code = 200)
      BY <1>1, <2>2 DEF Finals, Oks, Codes
    <3>2. Pend(w) = {}
      BY <1>6, <1>13, <3>1
    <3>3. Gone(d) \/ ~w.needsAck
      BY <1>13
    <3>4. m \in Oks => Gone(e) \/ ~e.needsAck \/ Has(x, Settling(m.cseq))
      BY <1>14, <3>1
    <3> QED
      BY <1>14, <1>15, <2>2, <3>2, <3>3, <3>4, HearsFinal
  <2> QED
    BY <2>1, <2>2 DEF Answers
<1> QED
  BY <1>14, <1>16, <1>17

\* An end reads the answer to a BYE.
LEMMA ReadsByeAnswer ==
    ASSUME NEW s, NEW d \in Open, d.out = <<>>, Alone(d),
           d.state # "EARLY", NEW e,
           NEW q \in Seq(Message), NEW r \in Seq(Message),
           Talk(d, q, e, r), Talk(e, r, d, q),
           NEW m \in Message, NEW z \in Seq(Message), Cuts(q, m, z), m \in ByeAnswers,
           NEW t \in d.clients, t.cseq = m.cseq, t.method = m.method
    PROVE  LET w == notify_response(s,
                        [d EXCEPT !.clients = (@ \ {t}) \cup Progress(t, m)], m)
               x == r \o w.out
           IN  w \in Open /\ Alone(w) /\ Talk(w, z, e, x) /\ Talk(e, x, w, z)
<1> DEFINE u == [d EXCEPT !.clients = (@ \ {t}) \cup Progress(t, m)]
           a == [u EXCEPT !.last = m.cseq]
           v == update_as_uac(s, u, m)
           w == notify_response(s, u, m)
           x == r \o w.out
<1> SUFFICES w \in Open /\ Alone(w) /\ Talk(w, z, e, x) /\ Talk(e, x, w, z)
  OBVIOUS
<1> HIDE DEF w, x
<1>1. /\ m.method = "BYE" /\ m.code \in Codes /\ m.cseq \in Nat
      /\ d.state \in {"CONFIRMED", "TERMINATED"}
  BY DEF ByeAnswers, Message, Open
<1>2. d.queued = 0 /\ Numbered(d) /\ d.offered = 0
  BY <1>1 DEF Alone
<1>3. /\ u \in Open /\ Steady(d, u) /\ u.byeSent = d.byeSent
      /\ u.localCseq = d.localCseq /\ u.out = <<>>
      /\ u.clients = (d.clients \ {t}) \cup Progress(t, m)
  BY Advances, ZenonT(60)
<1> HIDE DEF u
<1>4. /\ a \in Open /\ Steady(u, a) /\ a.byeSent = u.byeSent
      /\ a.localCseq = u.localCseq /\ a.out = u.out /\ a.clients = u.clients
  BY ONLY <1>1, <1>3, ZenonT(90) DEF Open, Steady
<1>5. /\ Steady(d, a) /\ a.byeSent = d.byeSent
      /\ a.localCseq = d.localCseq /\ a.out = <<>>
      /\ a.clients = (d.clients \ {t}) \cup Progress(t, m)
  BY <1>3, <1>4 DEF Steady
<1>6. ~IsRetransmission(u, m)
  BY <1>1 DEF IsRetransmission
<1>7. /\ v \in Open /\ v.state = "TERMINATED" /\ v.byeSent = d.byeSent
      /\ v.queued = 0 /\ v.misplaced = d.misplaced /\ v.offered = 0
      /\ v.localCseq = d.localCseq /\ v.out = <<>> /\ v.clients = a.clients
  <2>1. CASE d.state = "CONFIRMED"
    <3>1. u.state = "CONFIRMED" /\ a.state = "CONFIRMED"
      BY <1>3, <1>5, <2>1 DEF Steady
    <3>2. v = ByeAnswered(a)
      BY <1>1, <1>6, <3>1 DEF update_as_uac
    <3> HIDE DEF a, v
    <3>3. /\ v \in Open /\ v.state = "TERMINATED" /\ v.queued = 0
          /\ v.misplaced = a.misplaced /\ v.offered = a.offered
          /\ v.byeSent = a.byeSent /\ v.clients = a.clients
          /\ v.localCseq = a.localCseq /\ v.out = a.out
      BY <1>4, <3>1, <3>2, Deletes
    <3> QED
      BY <1>2, <1>5, <3>3 DEF Steady
  <2>2. CASE d.state = "TERMINATED"
    <3>1. u.state = "TERMINATED" /\ a.state = "TERMINATED" /\ a.queued = 0
      BY <1>2, <1>3, <1>5, <2>2 DEF Steady
    <3>2. v = belle_sip_dialog_process_queue(a)
      BY <1>1, <1>6, <3>1 DEF update_as_uac
    <3> HIDE DEF a, v
    <3>3. v = a
      BY <3>1, <3>2, Idle
    <3> QED
      BY <1>2, <1>4, <1>5, <3>1, <3>3 DEF Steady
  <2> QED
    BY <1>1, <2>1, <2>2
<1>8. w = v
  <2>1. call_process_response(v, m) = v
    BY <1>7 DEF call_process_response
  <2> QED
    BY <1>1, <1>6, <2>1 DEF w, notify_response, belle_sip_dialog_check_ack_sent, v
<1> HIDE DEF a, v
<1>9. Numbered(v) /\ Pend(v) = Pend(d)
  BY <1>1, <1>2, <1>5, <1>7, OldClient, SMTT(60)
<1>10. Alone(w)
  BY <1>1, <1>7, <1>8, <1>9 DEF Alone, Gone
<1>11. x = r
  <2>1. r \o <<>> = r
    BY Behind
  <2> QED
    BY <1>7, <1>8, <2>1 DEF x
<1>12. Talk(w, z, e, r) /\ Talk(e, r, w, z)
  BY <1>7, <1>8, <1>9, HearsByeAnswer
<1> QED
  BY <1>7, <1>8, <1>10, <1>11, <1>12

-----------------------------------------------------------------------------
(* The callbacks of the network, once the call is established.             *)

\* What is known of an end s and its peer as a callback of s starts.
Faces(s, d, q, e, r) ==
    /\ d \in Open /\ d.out = <<>> /\ Alone(d) /\ Alone(e)
    /\ q \in Seq(Message) /\ r \in Seq(Message)
    /\ Talk(d, q, e, r) /\ Talk(e, r, d, q)
    /\ d.state = end[s].state /\ Agrees(d, end[s])

\* A callback starts with what is known of both ends.
LEMMA Facing ==
    ASSUME TypeOK, Ordered, Conversing, NEW s \in Side
    PROVE  Faces(s, Begin(s), net[s], end[Peer(s)], net[Peer(s)])
<1>1. /\ Alone(end[s]) /\ Alone(end[Peer(s)])
      /\ Talk(end[s], net[s], end[Peer(s)], net[Peer(s)])
      /\ Talk(end[Peer(s)], net[Peer(s)], end[s], net[s])
  BY Peers DEF Conversing, Side
<1>2. net[s] \in Seq(Message) /\ net[Peer(s)] \in Seq(Message)
  BY Peers DEF TypeOK, Side
<1> DEFINE d == Begin(s)
<1>3. d \in Open /\ Agrees(d, end[s]) /\ d.out = <<>>
  BY Opens
<1> HIDE DEF d
<1>4. d.state = end[s].state /\ Agrees(end[s], d)
  BY <1>3 DEF Agrees
<1>5. /\ Alone(d) /\ Talk(d, net[s], end[Peer(s)], net[Peer(s)])
      /\ Talk(end[Peer(s)], net[Peer(s)], d, net[s])
  BY <1>1, <1>4, Agreeing
<1> QED
  BY <1>1, <1>2, <1>3, <1>4, <1>5 DEF Faces, d

\* What is read is the first message of the inbox.
LEMMA Reading ==
    ASSUME Ordered, NEW s, net[s] \in Seq(Message), NEW m \in Deliverable(s)
    PROVE  /\ m \in Message /\ Without(s, m) \in Seq(Message)
           /\ Cuts(net[s], m, Without(s, m))
<1> DEFINE q == net[s]
<1>1. q \in Seq(Message) /\ q # <<>> /\ m = Head(q) /\ Without(s, m) = Tail(q)
  BY DEF Deliverable, Without
<1> HIDE DEF q
<1>2. /\ Tail(q) \in Seq(Message) /\ Head(q) \in Message
      /\ Cuts(q, Head(q), Tail(q))
  BY ONLY <1>1, Cut
<1> QED
  BY <1>1, <1>2 DEF q

\* A callback of s comes to w with its inbox z.
LEMMA Comes ==
    ASSUME TypeOK, Ordered, NEW s \in Side, NEW d,
           Faces(s, d, net[s], end[Peer(s)], net[Peer(s)]),
           NEW z \in Seq(Message), NEW w, Run(s, z, w),
           w \in Open, Alone(w),
           Talk(w, z, end[Peer(s)], net[Peer(s)] \o w.out),
           Talk(end[Peer(s)], net[Peer(s)] \o w.out, w, z)
    PROVE  Conversing'
<1>1. Alone(end[Peer(s)])
  BY DEF Faces
<1> DEFINE x == net[Peer(s)] \o w.out
<1>2. /\ x = net[Peer(s)] \o w.out
      /\ Talk(w, z, end[Peer(s)], x) /\ Talk(end[Peer(s)], x, w, z)
  OBVIOUS
<1> HIDE DEF x
<1> QED
  BY <1>1, <1>2, RunTalks

\* An end reads a request.
LEMMA RequestTalks ==
    ASSUME TypeOK, Disciplined, Conversing, NEW s \in Side,
           end[s].state # "EARLY", end[Peer(s)].state # "EARLY", ReceiveRequest(s)
    PROVE  Conversing'
<1>1. Ordered /\ s \notin Deferrers
  BY DEF Disciplined
<1> DEFINE d == Begin(s)
           e == end[Peer(s)]
           q == net[s]
           r == net[Peer(s)]
<1>2. PICK m \in Deliverable(s) :
        /\ IsRequest(m) /\ m.method # "ACK"
        /\ Run(s, Without(s, m), dispatch_request(s, d, m))
  BY DEF ReceiveRequest
<1> DEFINE z == Without(s, m)
           w == dispatch_request(s, d, m)
<1>3. Faces(s, d, q, e, r)
  BY <1>1, Facing
<1>4. m \in Message /\ z \in Seq(Message) /\ Cuts(q, m, z)
  BY <1>1, <1>3, Reading DEF Faces
<1>5. Run(s, z, w) /\ e.state # "EARLY"
  BY <1>2
<1> HIDE DEF d, z, q, e, r
<1>6. w \in Open /\ Alone(w) /\ Talk(w, z, e, r \o w.out) /\ Talk(e, r \o w.out, w, z)
  BY <1>1, <1>2, <1>3, <1>4, <1>5, ReadsRequest DEF Faces
<1> HIDE DEF w
<1> QED
  BY <1>1, <1>3, <1>4, <1>5, <1>6, Comes DEF q, e, r

\* An end reads an ACK.
LEMMA AckTalks ==
    ASSUME TypeOK, Disciplined, Conversing, NEW s \in Side,
           end[s].state # "EARLY", end[Peer(s)].state # "EARLY", ReceiveAck(s)
    PROVE  Conversing'
<1>1. Ordered
  BY DEF Disciplined
<1> DEFINE d == Begin(s)
           e == end[Peer(s)]
           q == net[s]
           r == net[Peer(s)]
<1>2. PICK m \in Deliverable(s) :
        /\ m.method = "ACK"
        /\ Run(s, Without(s, m), belle_sip_dialog_handle_ack(d, m))
  BY DEF ReceiveAck
<1> DEFINE z == Without(s, m)
           w == belle_sip_dialog_handle_ack(d, m)
<1>3. Faces(s, d, q, e, r)
  BY <1>1, Facing
<1>4. m \in Message /\ z \in Seq(Message) /\ Cuts(q, m, z)
  BY <1>1, <1>3, Reading DEF Faces
<1>5. Run(s, z, w) /\ e.state # "EARLY"
  BY <1>2
<1> HIDE DEF d, z, q, e, r
<1>6. w \in Open /\ Alone(w) /\ Talk(w, z, e, r \o w.out) /\ Talk(e, r \o w.out, w, z)
  BY <1>2, <1>3, <1>4, <1>5, ReadsAck DEF Faces
<1> HIDE DEF w
<1> QED
  BY <1>1, <1>3, <1>4, <1>5, <1>6, Comes DEF q, e, r

\* An end reads a response: every answer to an INVITE is for a client that
\* waits for it, but the answer to a BYE may be for nobody.
LEMMA ResponseTalks ==
    ASSUME Base, Disciplined, Conversing, NEW s \in Side,
           end[s].state # "EARLY", end[Peer(s)].state # "EARLY", ReceiveResponse(s)
    PROVE  Conversing'
<1>1. Ordered /\ TypeOK
  BY DEF Disciplined, Base
<1> DEFINE d == Begin(s)
           e == end[Peer(s)]
           q == net[s]
           r == net[Peer(s)]
           For(m) == {t \in d.clients : t.cseq = m.cseq /\ t.method = m.method
                                        /\ Notified(t, m)}
           Heard(m, t) == notify_response(s,
                        [d EXCEPT !.clients = (@ \ {t}) \cup Progress(t, m)], m)
<1>2. PICK m \in Deliverable(s) :
        /\ ~IsRequest(m)
        /\ Run(s, Without(s, m),
               IF For(m) = {} THEN d ELSE Heard(m, CHOOSE t \in For(m) : TRUE))
  BY DEF ReceiveResponse
<1> DEFINE z == Without(s, m)
<1>3. Faces(s, d, q, e, r)
  BY <1>1, Facing
<1>4. m \in Message /\ z \in Seq(Message) /\ Cuts(q, m, z)
  BY <1>1, <1>3, Reading DEF Faces
<1>5. e.state # "EARLY" /\ Waits(d)
  <2>1. Fine(s, d)
    BY BeginFine
  <2> QED
    BY <2>1 DEF Fine
<1>6. PICK ts : ts = For(m)
  OBVIOUS
<1>7. \A t \in ts : t \in d.clients /\ t.cseq = m.cseq /\ t.method = m.method
  BY <1>6
<1>8. ts = {} => Run(s, z, d)
  BY <1>2, <1>6
<1>9. ts # {} => \E t \in ts : Run(s, z, Heard(m, t))
  BY <1>2, <1>6
<1>10. \A t \in d.clients : t.cseq = m.cseq /\ t.method = m.method
                             /\ t.state \in Transient => t \in ts
  BY <1>6 DEF Notified
<1>11. m \in Answers \/ m \in ByeAnswers
  <2>1. m \notin Strange /\ m.code # 0
    BY <1>2, <1>3, <1>4 DEF Faces, Talk, Cuts, IsRequest
  <2> QED
    BY <1>4, <2>1 DEF Strange, Answers, Trials, Finals, ByeAnswers, Message, Requests
<1> HIDE DEF d, z, q, e, r, For
<1>12. d.state # "EARLY" /\ d \in Open
  BY <1>3 DEF Faces
<1>13. ASSUME NEW t \in ts, Run(s, z, Heard(m, t))
       PROVE  Conversing'
  <2> DEFINE w == Heard(m, t)
  <2>1. t \in d.clients /\ t.cseq = m.cseq /\ t.method = m.method
    BY <1>7
  <2>2. w \in Open /\ Alone(w) /\ Talk(w, z, e, r \o w.out) /\ Talk(e, r \o w.out, w, z)
    <3>1. CASE m \in Answers
      BY <1>3, <1>4, <1>5, <1>12, <2>1, <3>1, ReadsAnswer DEF Faces
    <3>2. CASE m \in ByeAnswers
      BY <1>3, <1>4, <1>5, <1>12, <2>1, <3>2, ReadsByeAnswer DEF Faces
    <3> QED
      BY <1>11, <3>1, <3>2
  <2>3. Run(s, z, w)
    BY <1>13
  <2> HIDE DEF w
  <2> QED
    BY <1>1, <1>3, <1>4, <2>2, <2>3, Comes DEF q, e, r
<1>14. CASE ts = {}
  <2>1. m \in ByeAnswers
    <3> SUFFICES ASSUME m \in Answers PROVE FALSE
      BY <1>11
    <3>1. m.cseq \in Pend(d) /\ m.method = "INVITE"
      <4>1. m \notin Unasked(Pend(d))
        BY <1>3, <1>4 DEF Faces, Talk, Replied, Cuts
      <4> QED
        BY <1>4, <4>1, Kinds DEF Answers, Trials, Finals
    <3> QED
      BY <1>10, <1>14, <3>1 DEF Pend
  <2>2. Run(s, z, d)
    BY <1>8, <1>14
  <2>3. m.method = "BYE" /\ m \notin Byes
    BY <2>1 DEF ByeAnswers, Byes
  <2>4. Talk(d, z, e, r) /\ Talk(e, r, d, z)
    <3>1. \A n : m \notin Settling(n)
      BY <1>4, <2>1, Kinds
    <3> QED
      BY <1>3, <1>4, <1>5, <1>12, <2>3, <3>1, ReadsOther DEF Faces, Alike
  <2>5. r \o d.out = r
    BY <1>3, Behind DEF Faces
  <2>6. Talk(d, z, e, r \o d.out) /\ Talk(e, r \o d.out, d, z) /\ Alone(d)
    BY <1>3, <2>4, <2>5 DEF Faces
  <2> QED
    BY <1>1, <1>3, <1>4, <1>12, <2>2, <2>6, Comes DEF q, e, r
<1> QED
  BY <1>9, <1>13, <1>14

-----------------------------------------------------------------------------
(* The call is established.                                                *)

\* An inbox of one message.
LEMMA Single ==
    ASSUME NEW k \in Message
    PROVE  /\ <<k>> \in Seq(Message)
           /\ \A S : (Has(<<k>>, S) <=> k \in S) /\ Once(<<k>>, S)
           /\ \A S, T : k \notin S \/ k \notin T => Before(<<k>>, S, T)
<1> DEFINE x == <<k>>
<1>1. x \in Seq(Message) /\ Len(x) = 1 /\ x[1] = k
  OBVIOUS
<1> HIDE DEF x
<1>2. \A i \in 1..Len(x) : i = 1
  BY <1>1
<1>3. 1 \in 1..Len(x)
  BY <1>1
<1>4. \A S : (Has(x, S) <=> k \in S) /\ Once(x, S)
  BY <1>1, <1>2, <1>3 DEF Has, Once
<1>5. \A S, T : k \notin S \/ k \notin T => Before(x, S, T)
  BY <1>1, <1>2 DEF Before
<1> QED
  BY <1>1, <1>4, <1>5 DEF x

\* An end that has just taken the call, or given it up.
LEMMA JoinedAlone ==
    ASSUME NEW u, Joined(u)
    PROVE  Alone(u) /\ Pend(u) = {} /\ u.state # "EARLY" /\ ~u.byeSent
<1>1. Pend(u) = {}
  BY DEF Joined, Pend, Transient
<1>2. Numbered(u)
  BY DEF Joined, Numbered
<1> QED
  BY <1>1, <1>2 DEF Joined, Alone, Gone

\* The caller before it hears from the callee, and the answers it may hear.
LEMMA CallingTalks ==
    /\ Alone(Calling) /\ Pend(Calling) = {1} /\ Latest(Calling) /\ ~Gone(Calling)
    /\ Calling.state = "EARLY" /\ Calling.op = "ALIVE" /\ ~Calling.needsAck
    /\ ~Calling.byeSent
<1> DEFINE c == Calling
           t == [method |-> "INVITE", cseq |-> 1, state |-> "PROCEEDING"]
<1>1. /\ c.queued = 0 /\ ~c.misplaced /\ c.offered = 0 /\ c.deferred = 0
      /\ c.state = "EARLY" /\ c.op = "ALIVE" /\ ~c.byeSent /\ ~c.needsAck
      /\ c.clients = {t} /\ c.last = 1
  BY ZenonT(90) DEF Calling, RingingEnd
<1>2. t.method = "INVITE" /\ t.cseq = 1 /\ t.state \in Transient
  BY DEF Transient
<1> HIDE DEF c, t
<1>3. Pend(c) = {1} /\ Latest(c) /\ ~Gone(c)
  BY <1>1, <1>2 DEF Pend, Latest, Gone
<1>4. Alone(c)
  BY <1>1, <1>3 DEF Alone
<1> QED
  BY <1>1, <1>3, <1>4 DEF c

\* The callee before it answers.
LEMMA CalledTalks ==
    /\ Alone(Called) /\ Pend(Called) = {} /\ ~Gone(Called)
    /\ Called.state = "EARLY" /\ ~Called.needsAck /\ ~Called.byeSent
<1> DEFINE c == Called
<1>1. /\ c.queued = 0 /\ ~c.misplaced /\ c.deferred = 0
      /\ c.state = "EARLY" /\ c.op = "ALIVE" /\ ~c.byeSent /\ ~c.needsAck
      /\ c.clients = {}
  BY ZenonT(90) DEF Called, RingingEnd
<1> HIDE DEF c
<1>2. Pend(c) = {} /\ ~Gone(c)
  BY <1>1 DEF Pend, Gone
<1>3. Alone(c)
  BY <1>1, <1>2 DEF Alone
<1> QED
  BY <1>1, <1>2, <1>3 DEF c

\* The callee's answers.
LEMMA FirstAnswers ==
    /\ Taken \in Message /\ Taken \in OkFor(1) /\ Taken \in Finals /\ Taken.cseq = 1
    /\ Taken \in Oks
    /\ Refused \in Message /\ Refused \in Finals /\ Refused.cseq = 1
    /\ Taken # Refused
BY DEF Taken, Refused, Response, Message, Requests, Codes, OkFor, Oks, Finals

\* The callee answers.
LEMMA CalleeTalks ==
    ASSUME Base, Ordered, Opening, end["B"].state = "EARLY", Acts("B")
    PROVE  Conversing'
<1>1. /\ end["A"] = Calling /\ end["B"] = Called
      /\ net["A"] = <<>> /\ net["B"] = <<>>
  BY DEF Opening
<1>2. "B" \in Side /\ Peer("B") = "A" /\ TypeOK
  BY Peers DEF Side, Base
<1>3. end'["A"] = Calling
  BY <1>1, <1>2, Steps DEF Moved
<1>4. net'["B"] = <<>>
  BY <1>1, <1>2, Unread
<1>5. /\ Joined(end'["B"])
      /\ \/ /\ net'["A"] = <<Taken>> /\ end'["B"].state = "CONFIRMED"
            /\ end'["B"].needsAck /\ end'["B"].remoteCseq = 1
         \/ net'["A"] = <<Refused>> /\ end'["B"].state = "TERMINATED"
  BY <1>1, CalleeAnswers
<1> DEFINE a == Calling
           b == end'["B"]
<1>6. PICK k : /\ k \in {Taken, Refused} /\ net'["A"] = <<k>>
               /\ k = Taken => b.state = "CONFIRMED" /\ b.needsAck /\ b.remoteCseq = 1
               /\ k = Refused => b.state = "TERMINATED"
  BY <1>5, FirstAnswers
<1>7. /\ Alone(b) /\ Pend(b) = {} /\ b.state # "EARLY" /\ ~b.byeSent
  BY <1>5, JoinedAlone
<1>8. /\ k \in Message /\ k \in Finals /\ k.cseq = 1
      /\ k = Taken => k \in OkFor(1)
  BY <1>6, FirstAnswers
<1> DEFINE q == <<k>>
           r == <<>>
<1>9. /\ \A S : (Has(q, S) <=> k \in S) /\ Once(q, S)
      /\ \A S, T : k \notin S \/ k \notin T => Before(q, S, T)
  BY <1>8, Single
<1>10. /\ \A S : ~Has(r, S) /\ Once(r, S)
       /\ \A S, T : Before(r, S, T)
  BY Nothing
<1>11. /\ k \notin Invites /\ k \notin Byes /\ k \notin ByeAnswers /\ k \notin Strange
       /\ k \notin Trials /\ k \in Answers
       /\ \A cs : k \notin Foreign(cs)
       /\ \A cs : k \in Unasked(cs) <=> 1 \notin cs
  BY <1>8, Kinds
<1>12. b.state = "TERMINATED" => q = <<Refused>> /\ Gone(b)
  BY <1>6 DEF Gone
<1> HIDE DEF a, b, q, r
<1>13. /\ Alone(a) /\ Pend(a) = {1} /\ Latest(a) /\ ~Gone(a)
       /\ a.state = "EARLY" /\ ~a.needsAck /\ ~a.byeSent
  BY CallingTalks DEF a
<1>14. Talk(a, q, b, r)
  <2>1. Asked(q, b, r) /\ Replied(a, q) /\ Located(a, q, r)
    BY <1>9, <1>11, <1>13 DEF Asked, Replied, Located
  <2>2. Closing(q, b) /\ Told(a, q, b) /\ Ended(a, q, b, r)
    BY <1>7, <1>9, <1>11, <1>13 DEF Closing, Told, Ended
  <2>3. Turn(a, q, r) /\ Owed(a, q, r) /\ Yield(q, b)
    BY <1>7, <1>13 DEF Turn, Owed, Yield
  <2> QED
    BY <1>9, <1>11, <2>1, <2>2, <2>3 DEF Talk
<1>15. Talk(b, r, a, q)
  <2>1. Asked(r, a, q) /\ Replied(b, r) /\ Located(b, r, q)
    BY <1>7, <1>10 DEF Asked, Replied, Located
  <2>2. Closing(r, a) /\ Told(b, r, a) /\ Ended(b, r, a, q)
    BY <1>10, <1>12, <1>13 DEF Closing, Told, Ended
  <2>3. Turn(b, r, q) /\ Yield(r, a)
    BY <1>7, <1>10 DEF Turn, Yield
  <2>4. Owed(b, r, q)
    <3>1. CASE k = Taken
      BY <1>6, <1>8, <1>9, <1>10, <1>11, <3>1 DEF Owed, b
    <3>2. CASE k = Refused
      BY <1>6, <3>2 DEF Owed, Gone, b
    <3> QED
      BY <1>6, <3>1, <3>2
  <2> QED
    BY <1>10, <2>1, <2>2, <2>3, <2>4 DEF Talk
<1> QED
  BY <1>3, <1>4, <1>6, <1>7, <1>13, <1>14, <1>15, ConversingThen DEF a, b, q, r

\* The caller hears what the callee answered.
LEMMA CallerTalks ==
    ASSUME Base, Disciplined, Opening, Conversing, end["A"].state = "EARLY",
           Reads("A")
    PROVE  Conversing'
<1>0. Ordered
  BY DEF Disciplined
<1>1. "A" \in Side /\ "B" \in Side /\ Peer("A") = "B" /\ TypeOK
  BY Peers DEF Side, Base
<1>2. end["A"] = Calling /\ net["B"] = <<>>
  BY DEF Opening
<1>3. net["A"] # <<>>
  BY <1>0, <1>1, NothingToRead
<1>4. end["B"].state # "EARLY"
  BY <1>3 DEF Opening
<1>5. PICK k \in {Taken, Refused} :
          Head(net["A"]) = k /\ (k = Refused => end["B"].state = "TERMINATED")
  BY <1>4, FirstAnswers DEF Opening
<1>6. /\ Joined(end'["A"]) /\ net'["A"] = Tail(net["A"])
      /\ k = Taken => /\ end'["A"].state = "CONFIRMED" /\ ~end'["A"].needsAck
                      /\ net'["B"] = <<Ack>>
      /\ k = Refused => end'["A"].state = "TERMINATED" /\ net'["B"] = <<>>
  BY <1>0, <1>2, <1>3, <1>5, CallerHears
<1>7. end'["B"] = end["B"]
  BY <1>0, <1>1, Steps DEF Moved
<1> DEFINE a == Calling
           u == end'["A"]
           b == end["B"]
           q == net["A"]
           z == net'["A"]
           r == <<>>
<1>8. /\ Talk(a, q, b, r) /\ Talk(b, r, a, q) /\ Alone(b)
  BY <1>2 DEF Conversing
<1>9. /\ q \in Seq(Message) /\ z \in Seq(Message) /\ Cuts(q, k, z)
      /\ q = <<Refused>> => z = <<>>
  <2>1. q \in Seq(Message)
    BY <1>1 DEF TypeOK, Ordered, Disciplined
  <2> HIDE DEF q
  <2>2. /\ Tail(q) \in Seq(Message) /\ Cuts(q, Head(q), Tail(q))
    BY <1>3, <2>1, Cut DEF q
  <2>3. Tail(<<Refused>>) = <<>>
    OBVIOUS
  <2>4. z = Tail(q) /\ k = Head(q)
    BY <1>5, <1>6 DEF q
  <2> HIDE DEF z
  <2> QED
    BY <2>1, <2>2, <2>3, <2>4
<1>10. /\ Alone(u) /\ Pend(u) = {} /\ u.state # "EARLY" /\ ~u.byeSent
  BY <1>6, JoinedAlone
<1>11. /\ Alone(a) /\ Pend(a) = {1} /\ ~Gone(a) /\ a.op = "ALIVE"
       /\ a.state = "EARLY" /\ ~a.needsAck /\ ~a.byeSent
  BY CallingTalks
<1>12. b.state = "TERMINATED" => q = <<Refused>>
  BY <1>8, <1>11 DEF Talk, Ended
<1>13. CASE k = Taken
  <2> DEFINE x == <<Ack>>
  <2>1. b.state = "CONFIRMED"
    <3>1. b.state # "TERMINATED"
      <4>1. Head(<<Refused>>) = Refused
        OBVIOUS
      <4> QED
        BY <1>5, <1>12, <1>13, <4>1, FirstAnswers
    <3> QED
      BY <1>1, <1>4, <3>1 DEF TypeOK, End
  <2>2. /\ Ack \in Message /\ Ack.code = 0 /\ Ack.method = "ACK" /\ Ack \in Settling(1)
    BY Sent DEF Ack, Request
  <2>3. r \in Seq(Message) /\ x \in Seq(Message) /\ Grows(r, Ack, x)
    <3>1. r \in Seq(Message) /\ x = Append(r, Ack)
      OBVIOUS
    <3> HIDE DEF r, x
    <3> QED
      BY <2>2, <3>1, Grow
  <2>4. Has(x, Settling(1))
    BY <2>2, <2>3 DEF Grows
  <2>5. /\ u.op = a.op /\ u.byeSent = a.byeSent /\ u.state = "CONFIRMED" /\ ~u.needsAck
    <3>1. u.op = "ALIVE" /\ u.state = "CONFIRMED" /\ ~u.needsAck
      BY <1>6, <1>13 DEF Joined
    <3>2. u.byeSent \in BOOLEAN /\ a.byeSent \in BOOLEAN
      <4>1. TypeOK'
        BY <1>0, <1>1, Steps DEF Moved, Base
      <4> QED
        BY <1>1, <1>2, <4>1 DEF TypeOK, End
    <3> QED
      BY <1>10, <1>11, <3>1, <3>2
  <2>6. k \in Message /\ k \in Finals /\ k.cseq = 1
    BY <1>13, FirstAnswers
  <2>7. net'["B"] = x
    BY <1>6, <1>13
  <2> HIDE DEF a, u, b, q, z, r, x
  <2>8. Talk(a, q, b, x) /\ Talk(b, x, a, q)
    BY <1>8, <1>9, <1>11, <2>2, <2>3, Repeats
  <2>9. Talk(u, z, b, x) /\ Talk(b, x, u, z)
    BY <1>9, <1>10, <1>11, <2>1, <2>3, <2>4, <2>5, <2>6, <2>8, HearsFinal
  <2> QED
    BY <1>7, <1>8, <1>10, <2>7, <2>9, ConversingThen DEF u, b, z
<1>14. CASE k = Refused
  <2>1. b.state = "TERMINATED" /\ z = <<>> /\ q = <<Refused>>
    BY <1>5, <1>9, <1>12, <1>14
  <2>2. net'["B"] = r /\ u.state = "TERMINATED"
    BY <1>6, <1>14
  <2>3. /\ \A S : ~Has(r, S) /\ Once(r, S)
        /\ \A S, T : Before(r, S, T)
    BY Nothing
  <2>4. Refused \notin Invites /\ \A S : Has(<<Refused>>, S) <=> Refused \in S
    BY FirstAnswers, Kinds, Single
  <2>5. Pend(b) = {}
    BY <1>8, <2>1, <2>3, <2>4 DEF Talk, Located
  <2>6. z = r
    BY <2>1
  <2> HIDE DEF a, u, b, q, z, r
  <2>7. Gone(u) /\ Gone(b)
    BY <2>1, <2>2 DEF Gone
  <2>8. Talk(u, r, b, r)
    BY <1>10, <2>3, <2>7 DEF Talk, Asked, Replied, Located, Closing, Told,
       Ended, Turn, Owed, Yield
  <2>9. Talk(b, r, u, r)
    BY <2>3, <2>5, <2>7 DEF Talk, Asked, Replied, Located, Closing, Told,
       Ended, Turn, Owed, Yield
  <2> QED
    BY <1>7, <1>8, <1>10, <2>2, <2>6, <2>8, <2>9, ConversingThen DEF u, b, z
<1> QED
  BY <1>5, <1>13, <1>14

-----------------------------------------------------------------------------
(* What the users and the main loop do.                                    *)

\* The application asks for one more re-INVITE.
LEMMA UpdateTalks ==
    ASSUME Base, Disciplined, Conversing, NEW s \in Side, sal_call_update(s)
    PROVE  Conversing'
<1>1. Ordered /\ TypeOK /\ s \in Patient
  BY DEF Disciplined, Base
<1> DEFINE d == Begin(s)
           e == end[Peer(s)]
           q == net[s]
           r == net[Peer(s)]
           u == [d EXCEPT !.asked = d.asked + 1]
           w == send_request(u, "INVITE")
<1>2. Faces(s, d, q, e, r)
  BY <1>1, Facing
<1>3. /\ end[s].op = "ALIVE" /\ end[s].state = "CONFIRMED"
      /\ ~\E t \in end[s].clients : t.method = "INVITE" /\ t.state \in Transient
      /\ end[s].asked < MaxRequests
      /\ Run(s, q, w)
  BY <1>1 DEF sal_call_update
<1> HIDE DEF d, q, e, r
<1>4. d \in Open /\ d.op = "ALIVE" /\ d.state = "CONFIRMED" /\ Pend(d) = {}
      /\ d.asked < MaxRequests /\ ~Gone(d) /\ Alone(d)
  BY <1>2, <1>3 DEF Faces, Agrees, Pend, Gone
<1>5. /\ u \in Open /\ Steady(d, u) /\ u.byeSent = d.byeSent
      /\ u.localCseq = d.localCseq /\ u.clients = d.clients
      /\ u.needsAck = d.needsAck /\ u.remoteCseq = d.remoteCseq /\ u.out = d.out
  <2>1. d.asked + 1 \in 0..MaxRequests
    <3>1. MaxRequests \in Nat
      BY SettingsAssumption DEF Base, TypeOK, MaxRequests
    <3>2. d.asked \in 0..MaxRequests
      BY <1>4 DEF Open
    <3> QED
      BY <1>4, <3>1, <3>2
  <2> QED
    BY ONLY <1>4, <2>1, ZenonT(90) DEF Open, Steady
<1> HIDE DEF u
<1> DEFINE c == u.localCseq + 1
           b == Request("INVITE", c)
<1>6. "INVITE" \in Requests
  BY DEF Requests
<1>7. /\ w \in Open /\ c \in Nat /\ Steady(u, w) /\ w.out = Append(u.out, b)
      /\ w.localCseq = c /\ w.last = c
      /\ w.clients = u.clients \cup
            {[method |-> "INVITE", cseq |-> c, state |-> "TRYING"]}
      /\ w.byeSent = (u.byeSent \/ "INVITE" = "BYE")
      /\ w.needsAck = u.needsAck /\ w.remoteCseq = u.remoteCseq
  <2>1. u \in Open
    BY <1>5
  <2> QED
    BY ONLY <2>1, <1>6, Sends
<1> HIDE DEF w
<1>8. Steady(d, w) /\ Alike(d, w)
  <2>1. d.byeSent \in BOOLEAN
    BY <1>4 DEF Open
  <2> QED
    BY <1>5, <1>7, <2>1 DEF Steady, Alike
<1>9. Numbered(d)
  BY <1>4 DEF Alone
<1>10. Numbered(w) /\ Latest(w) /\ Pend(w) = Pend(d) \cup {w.localCseq}
  BY <1>4, <1>5, <1>6, <1>7, <1>9, NewClient
<1>11. b \in Invites /\ b.cseq = c /\ b \in Message
  BY <1>7, Sent DEF Invites
<1> HIDE DEF b
<1>12. r \o w.out \in Seq(Message) /\ Grows(r, b, r \o w.out)
  <2>1. w.out = Append(<<>>, b) /\ r \in Seq(Message)
    BY <1>2, <1>5, <1>7 DEF Faces
  <2> QED
    BY <1>11, <2>1, Outgoing
<1>13. Pend(w) = {c} /\ w.localCseq = c
  BY <1>4, <1>7, <1>10
<1>14. w.needsAck = d.needsAck /\ w.remoteCseq = d.remoteCseq
  BY <1>5, <1>7
<1> HIDE DEF c
<1> DEFINE x == r \o w.out
<1>15. x \in Seq(Message) /\ Grows(r, b, x)
  BY <1>12
<1> HIDE DEF x
<1>16. Talk(w, q, e, x) /\ Talk(e, x, w, q)
  <2>1. d.byeSent => Gone(d)
    BY <1>4 DEF Alone
  <2> QED
    BY <1>2, <1>4, <1>8, <1>10, <1>11, <1>13, <1>14, <1>15, <2>1, Asks DEF Faces
<1>17. Alone(w)
  BY <1>4, <1>8, <1>10, <1>13 DEF Alone, Steady, Alike, Gone
<1>18. q \in Seq(Message)
  BY <1>2 DEF Faces
<1> QED
  BY <1>1, <1>2, <1>3, <1>7, <1>16, <1>17, <1>18, Comes DEF q, e, r, x, w

\* The user hangs up.
LEMMA TerminateTalks ==
    ASSUME Base, Disciplined, Conversing, NEW s \in Side, sal_call_terminate(s)
    PROVE  Conversing'
<1>1. Ordered /\ TypeOK
  BY DEF Disciplined, Base
<1> DEFINE d == Begin(s)
           e == end[Peer(s)]
           q == net[s]
           r == net[Peer(s)]
           v == send_request(d, "BYE")
           w == [v EXCEPT !.op = "TERMINATING"]
<1>2. Faces(s, d, q, e, r)
  BY <1>1, Facing
<1>3. end[s].op = "ALIVE" /\ end[s].state = "CONFIRMED" /\ Run(s, q, w)
  BY DEF sal_call_terminate
<1> HIDE DEF d, q, e, r
<1>4. d \in Open /\ d.op = "ALIVE" /\ d.state = "CONFIRMED" /\ Alone(d)
      /\ d.out = <<>> /\ Numbered(d)
  BY <1>2, <1>3 DEF Faces, Agrees, Alone
<1> DEFINE c == d.localCseq + 1
           b == Request("BYE", c)
<1>5. "BYE" \in Requests
  BY DEF Requests
<1>6. /\ v \in Open /\ c \in Nat /\ Steady(d, v) /\ v.out = Append(d.out, b)
      /\ v.localCseq = c /\ v.last = c
      /\ v.clients = d.clients \cup
            {[method |-> "BYE", cseq |-> c, state |-> "TRYING"]}
      /\ v.byeSent = (d.byeSent \/ "BYE" = "BYE")
  BY ONLY <1>4, <1>5, Sends
<1> HIDE DEF v
<1>7. Numbered(v) /\ Latest(v) /\ Pend(v) = Pend(d)
  BY <1>4, <1>5, <1>6, NewClient
<1>8. /\ w \in Open /\ w.out = v.out /\ w.localCseq = v.localCseq
      /\ w.last = v.last /\ w.clients = v.clients /\ w.byeSent = v.byeSent
      /\ w.queued = v.queued /\ w.misplaced = v.misplaced
      /\ w.offered = v.offered /\ w.deferred = v.deferred
      /\ w.state = v.state /\ w.op = "TERMINATING"
  BY ONLY <1>6, ZenonT(90) DEF Open
<1> HIDE DEF w
<1>9. Numbered(w) /\ Latest(w) /\ Pend(w) = Pend(d)
  BY <1>7, <1>8 DEF Numbered, Latest, Pend
<1>10. w.byeSent /\ w.state = "CONFIRMED"
  BY <1>4, <1>6, <1>8 DEF Steady
<1>11. Alone(w)
  BY <1>4, <1>6, <1>8, <1>9, <1>10 DEF Alone, Steady, Gone
<1>12. b \in Byes /\ b \in Message
  BY <1>6, Sent DEF Byes
<1> HIDE DEF b, c
<1> DEFINE x == r \o w.out
<1>13. x \in Seq(Message) /\ Grows(r, b, x)
  <2>1. w.out = Append(<<>>, b) /\ r \in Seq(Message)
    BY <1>2, <1>4, <1>6, <1>8 DEF Faces
  <2> QED
    BY <1>12, <2>1, Outgoing
<1> HIDE DEF x
<1>14. Talk(w, q, e, x) /\ Talk(e, x, w, q)
  BY <1>2, <1>4, <1>8, <1>9, <1>10, <1>12, <1>13, HangsUp DEF Faces
<1>15. q \in Seq(Message)
  BY <1>2 DEF Faces
<1> QED
  BY <1>1, <1>2, <1>3, <1>8, <1>11, <1>14, <1>15, Comes DEF q, e, r, x

\* What was put off when the dialog was deleted is done.
LEMMA NoticeTalks ==
    ASSUME Base, Disciplined, Conversing, NEW s \in Side,
           process_dialog_terminated(s) \/ call_set_released(s)
    PROVE  Conversing'
<1>1. Ordered /\ TypeOK
  BY DEF Disciplined, Base
<1> DEFINE d == Begin(s)
           e == end[Peer(s)]
           q == net[s]
           r == net[Peer(s)]
<1>2. Faces(s, d, q, e, r)
  BY <1>1, Facing
<1>3. PICK n \in 0..2, o \in {"ALIVE", "TERMINATING", "TERMINATED"} :
          Run(s, q, [d EXCEPT !.deferred = n, !.op = o])
  BY <1>1, DeferredNotice, ZenonT(60)
<1>4. end[s].deferred # 0
  BY DEF process_dialog_terminated, call_set_released
<1> DEFINE w == [d EXCEPT !.deferred = n, !.op = o]
<1> HIDE DEF d, q, e, r
<1>5. d \in Open /\ Alone(d) /\ d.out = <<>> /\ d.state = "TERMINATED"
  BY <1>2, <1>4 DEF Faces, Agrees, Alone
<1>6. /\ w \in Open /\ w.out = d.out /\ w.localCseq = d.localCseq
      /\ w.clients = d.clients /\ w.byeSent = d.byeSent
      /\ w.queued = d.queued /\ w.misplaced = d.misplaced
      /\ w.offered = d.offered /\ w.state = d.state
  BY ONLY <1>3, <1>5, n \in 0..2, o \in {"ALIVE", "TERMINATING", "TERMINATED"},
     ZenonT(90) DEF Open
<1>7. Run(s, q, w)
  BY <1>3
<1> HIDE DEF w
<1>8. Pend(w) = Pend(d) /\ (Numbered(d) => Numbered(w))
  BY <1>6 DEF Pend, Numbered
<1>9. Alone(w)
  BY <1>5, <1>6, <1>8 DEF Alone, Gone
<1>10. Talk(w, q, e, r) /\ Talk(e, r, w, q)
  BY <1>2, <1>5, <1>6, <1>8, IsTold DEF Faces
<1>11. q \in Seq(Message) /\ r \in Seq(Message)
  BY <1>2 DEF Faces
<1>12. r \o w.out = r
  BY <1>5, <1>6, <1>11, Behind
<1>13. Talk(w, q, e, r \o w.out) /\ Talk(e, r \o w.out, w, q)
  BY <1>10, <1>12
<1> QED
  BY <1>1, <1>2, <1>6, <1>7, <1>9, <1>11, <1>13, Comes DEF q, e, r

-----------------------------------------------------------------------------
(* The invariant of a disciplined call.                                    *)

InOrder == FirstAck /\ (Disciplined => Conversing)

\* A disciplined end that is not early does only these things of its own
\* accord.
LEMMA OfItsOwn ==
    ASSUME Base, Disciplined, Conversing, NEW s \in Side, Acts(s),
           end[s].state # "EARLY"
    PROVE  \/ sal_call_update(s) \/ sal_call_terminate(s)
           \/ process_dialog_terminated(s) \/ call_set_released(s)
<1>1. /\ Ordered /\ s \notin InfoSenders /\ MaxCopies = 0
  BY DEF Disciplined
<1>2. end[s].offered = 0
  BY DEF Conversing, Alone, Side
<1>3. ~(end[s].copies < MaxCopies)
  BY <1>1 DEF Base, TypeOK, End
<1> QED
  BY <1>1, <1>2, <1>3 DEF Acts, Timeout, dialog_on_200Ok_timer,
     dialog_on_200Ok_end, sal_call_accept, sal_call_decline, sal_call_send_dtmf

\* Each step of either end keeps what ties the ends to their inboxes.
LEMMA StepTalks ==
    ASSUME Base, Opening, Disciplined, Conversing, NEW s \in Side,
           Reads(s) \/ Acts(s)
    PROVE  Conversing'
<1>1. Ordered
  BY DEF Disciplined
<1>2. CASE end[s].state # "EARLY" /\ Acts(s)
  BY <1>2, OfItsOwn, UpdateTalks, TerminateTalks, NoticeTalks
<1>3. CASE end[s].state # "EARLY" /\ end[Peer(s)].state # "EARLY" /\ Reads(s)
  <2>1. TypeOK
    BY DEF Base
  <2> QED
    BY <1>3, <2>1, RequestTalks, AckTalks, ResponseTalks DEF Reads
<1>4. CASE end[s].state # "EARLY" /\ end[Peer(s)].state = "EARLY" /\ Reads(s)
  <2>1. s \in {"A", "B"} /\ Peer("A") = "B" /\ Peer("B") = "A"
    BY Peers DEF Side
  <2>2. net[s] = <<>>
    BY <1>4, <2>1 DEF Opening
  <2> QED
    BY <1>1, <1>4, <2>2, NothingToRead
<1>5. CASE end[s].state = "EARLY" /\ s = "A"
  <2>1. end["A"] = Calling
    BY <1>5 DEF Opening
  <2> QED
    BY <1>1, <1>5, <2>1, CallerWaits, CallerTalks
<1>6. CASE end[s].state = "EARLY" /\ s = "B"
  <2>1. end["A"].state = "EARLY" /\ net["B"] = <<>>
    BY <1>6 DEF Opening
  <2>2. ~Reads("B")
    BY <1>1, <1>6, <2>1, NothingToRead
  <2> QED
    BY <1>1, <1>6, <2>2, CalleeTalks
<1> QED
  BY <1>2, <1>3, <1>4, <1>5, <1>6 DEF Side

\* Before anybody answers.
LEMMA InitInOrder == Init => InOrder
<1> SUFFICES ASSUME Init, Disciplined PROVE Conversing
  BY InitFirstAck DEF InOrder
<1>1. /\ end = [s \in Side |-> IF s = "A" THEN Calling ELSE Called]
      /\ net = [s \in Side |-> <<>>]
  BY DEF Init, Calling, Called, Disciplined
<1>2. end["A"] = Calling /\ end["B"] = Called /\ net["A"] = <<>> /\ net["B"] = <<>>
  BY <1>1 DEF Side
<1> DEFINE a == Calling
           b == Called
           q == <<>>
<1>3. /\ \A S : ~Has(q, S) /\ Once(q, S)
      /\ \A S, T : Before(q, S, T)
  BY Nothing
<1>4. /\ Alone(a) /\ Latest(a) /\ ~Gone(a) /\ a.state = "EARLY"
      /\ ~a.needsAck /\ ~a.byeSent
  BY CallingTalks
<1>5. /\ Alone(b) /\ Pend(b) = {} /\ b.state = "EARLY"
      /\ ~b.needsAck /\ ~b.byeSent
  BY CalledTalks
<1>6. end["A"] = a /\ end["B"] = b /\ net["A"] = q /\ net["B"] = q
  BY <1>2
<1> HIDE DEF a, b, q
<1>7. Talk(a, q, b, q)
  BY <1>3, <1>4, <1>5 DEF Talk, Asked, Replied, Located, Closing, Told,
     Ended, Turn, Owed, Yield
<1>8. Talk(b, q, a, q)
  BY <1>3, <1>4, <1>5 DEF Talk, Asked, Replied, Located, Closing, Told,
     Ended, Turn, Owed, Yield
<1> QED
  BY <1>4, <1>5, <1>6, <1>7, <1>8 DEF Conversing

\* Each step keeps the invariant.
LEMMA NextInOrder == InOrder /\ [Next]_vars => InOrder'
<1> SUFFICES ASSUME InOrder, [Next]_vars PROVE InOrder'
  OBVIOUS
<1>1. FirstAck'
  BY NextFirstAck DEF InOrder
<1>2. CASE UNCHANGED vars
  <2>1. Disciplined' = Disciplined
    BY <1>2 DEF vars, Disciplined, Ordered, Patient, Deferrers, InfoSenders,
                MaxCopies
  <2>2. ASSUME Conversing PROVE Conversing'
    BY <1>2, <2>2, ConversingThen DEF vars, Conversing
  <2> QED
    BY <1>1, <2>1, <2>2 DEF InOrder
<1>3. CASE Next
  <2>1. PICK s \in Side : Reads(s) \/ Acts(s)
    BY <1>3 DEF Next, Reads, Acts
  <2>2. Base /\ (Ordered => Opening)
    BY DEF InOrder, FirstAck
  <2>3. setting' = setting
    BY <2>1, <2>2, ReceiveKeepsBase, ResponseKeepsBase, TimersKeepBase,
       UsersKeepBase, NoticesKeepBase DEF Moved, Reads, Acts
  <2>4. Disciplined' = Disciplined
    BY <2>3 DEF Disciplined, Ordered, Patient, Deferrers, InfoSenders, MaxCopies
  <2>5. ASSUME Disciplined PROVE Conversing'
    <3>1. Ordered /\ Conversing
      BY <2>5 DEF Disciplined, InOrder
    <3> QED
      BY <2>1, <2>2, <2>5, <3>1, StepTalks
  <2> QED
    BY <1>1, <2>4, <2>5 DEF InOrder
<1> QED
  BY <1>2, <1>3

-----------------------------------------------------------------------------
(* The theorems.                                                           *)

\* Both ends and their inboxes have the right types at any time.
THEOREM TypeCorrect == Spec => []TypeOK
<1>1. Base => TypeOK
  BY DEF Base
<1> QED
  BY <1>1, InitBase, NextBase, PTL DEF Spec

\* A 2xx to an INVITE has its ACK before the callback that brings it returns,
\* or the dialog is being hung up (belle_sip_dialog_check_ack_sent): over UDP
\* and TCP, whatever INVITEs cross and however late they are answered.
THEOREM Acknowledged == Spec => []AckedOrHungUp
<1>1. Base => AckedOrHungUp
  BY DEF Base, Fine, Acked, AckedOrHungUp
<1> QED
  BY <1>1, InitBase, NextBase, PTL DEF Spec

\* Only a confirmed dialog waits for an ACK or repeats its 200 Ok, and over
\* TCP the timers of the 200 Ok wait for an ACK that
\* belle_sip_dialog_handle_ack takes: the ACK of the caller is the first
\* message of its dialog to reach the callee, and nothing the callee does
\* before changes the CSeq it compares it with.
THEOREM TimersAreStopped == Spec => []TimersWaitForAck
<1>1. FirstAck => TimersWaitForAck
  <2> SUFFICES ASSUME FirstAck, NEW s \in Side
               PROVE  /\ end[s].needsAck => end[s].state = "CONFIRMED"
                      /\ end[s].retrans  =>
                            /\ end[s].state = "CONFIRMED"
                            /\ Ordered => end[s].needsAck /\ end[s].remoteCseq = 1
    BY DEF TimersWaitForAck
  <2>1. Fine(s, end[s])
    BY DEF FirstAck, Base
  <2> QED
    BY <2>1 DEF FirstAck, Fine, Waits, Opening, Awaiting, Side
<1> QED
  BY <1>1, InitFirstAck, NextFirstAck, PTL DEF Spec

\* Whoever has deleted its dialog gets no INVITE of it any more, for which
\* belle_sip_provider_find_dialog_from_msg would find none: the BYE that
\* ended the dialog is behind every INVITE of the end that sent it, and the
\* end that answered it asks for nothing after that.
THEOREM NoNewCall == Spec => []NoPhantomCall
<1>1. InOrder => NoPhantomCall
  BY DEF InOrder, Conversing, Alone, NoPhantomCall, Side
<1> QED
  BY <1>1, InitInOrder, NextInOrder, PTL DEF Spec

\* Nobody's call is hung up behind his back: the stack sends a BYE for a 2xx
\* that has no ACK (belle_sip_dialog_check_ack_sent), and there is none as long as an end has one
\* INVITE under way and the one that it acknowledges is the last it sent.
THEOREM NotDropped == Spec => []CallIsNotDropped
<1>1. InOrder => CallIsNotDropped
  <2> SUFFICES ASSUME InOrder, Disciplined, NEW s \in Side,
                      end[s].op = "ALIVE", end[s].state = "CONFIRMED"
               PROVE  end[s].outInvite = end[s].outAck /\ ~end[s].byeSent
    BY DEF CallIsNotDropped
  <2>1. Alone(end[s])
    BY DEF InOrder, Conversing, Side
  <2>2. ~end[s].byeSent
    BY <2>1 DEF Alone, Gone
  <2>3. Acked(end[s])
    BY DEF InOrder, FirstAck, Base, Fine
  <2> QED
    BY <2>2, <2>3 DEF Acked
<1> QED
  BY <1>1, InitInOrder, NextInOrder, PTL DEF Spec

\* Of two INVITEs that cross one at most is accepted, the other one gets its
\* 491 first: a 200 Ok under way to each end would need an INVITE of each end
\* still to be read, and the end that it is under way to has had its answer.
THEOREM OffersDoNotCross == Spec => []NoCrossedOffers
<1>1. InOrder => NoCrossedOffers
  <2> SUFFICES ASSUME InOrder, Disciplined,
                      \A s \in Side : \E m \in UnderWay(s) :
                        m.method = "INVITE" /\ m.code = 200
               PROVE  FALSE
    BY DEF NoCrossedOffers
  <2> DEFINE a == end["A"]
             b == end["B"]
             q == net["A"]
             r == net["B"]
  <2>1. Talk(a, q, b, r) /\ Talk(b, r, a, q)
    BY DEF InOrder, Conversing
  <2>2. q \in Seq(Message) /\ r \in Seq(Message) /\ Ordered
    BY DEF InOrder, FirstAck, Base, TypeOK, Disciplined, Side
  <2>3. ASSUME NEW s \in Side
        PROVE  Has(net[s], Oks)
    <3>1. net[s] \in Seq(Message) /\ UnderWay(s) = ToSet(net[s])
      BY <2>2 DEF UnderWay, Side
    <3>2. PICK m \in ToSet(net[s]) : m.method = "INVITE" /\ m.code = 200
      BY <3>1
    <3>3. PICK i \in 1..Len(net[s]) : net[s][i] = m
      BY <3>1, <3>2 DEF ToSet
    <3>4. m \in Oks
      BY <3>1, <3>2, <3>3 DEF Oks
    <3> QED
      BY <3>3, <3>4 DEF Has
  <2>4. Has(q, Oks) /\ Has(r, Oks)
    BY <2>3 DEF Side
  <2> HIDE DEF a, b, q, r
  <2>5. Has(q, Answers) /\ Has(r, Answers)
    BY <2>2, <2>4, Sorts
  <2>6. Pend(a) # {} /\ Pend(b) # {}
    BY <2>1, <2>2, <2>5, Sorts DEF Talk, Replied
  <2>7. Has(q, Invites)
    BY <2>1, <2>4, <2>6 DEF Talk, Yield
  <2> QED
    BY <2>1, <2>5, <2>7 DEF Talk, Asked
<1> QED
  BY <1>1, InitInOrder, NextInOrder, PTL DEF Spec
=============================================================================
