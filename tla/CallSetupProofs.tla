-------------------------- MODULE CallSetupProofs --------------------------
(***************************************************************************)
(* What CallSetup keeps, proved for any choice of transports: the types,   *)
(* with the bound on the BYEs of an end, that the application is not       *)
(* called once its call was released, and that a call its user gave up is  *)
(* not connected.                                                          *)
(*                                                                         *)
(* The record of a callback is followed function by function, as in        *)
(* DialogProofs: Well(s, d, k) says that end s may stop there, and that    *)
(* its bound leaves it k more BYEs.                                        *)
(***************************************************************************)
EXTENDS CallSetup, TLAPS

Codes   == {0, 100, 180, 200, 481, 486, 487, 500, 501, 603}
Methods == {"INVITE", "CANCEL", "ACK", "BYE"}

\* The record of a callback: what the end keeps, and what was sent so far.
Open ==
    [invite   : {"NONE", "INIT", "CALLING", "PROCEEDING", "ACCEPTED",
                 "COMPLETED", "TERMINATED"},
     cancel   : {"NONE", "TRYING", "OVER"},
     byes     : SUBSET [id : 1..MaxByes, internal : BOOLEAN],
     sent     : 0..MaxByes,
     pending  : {"INVITE", "CANCEL", "BYE"},
     dialog   : {"NONE", "NULL", "EARLY", "CONFIRMED", "TERMINATED"},
     previous : {"NULL", "EARLY", "CONFIRMED"},
     owned    : BOOLEAN,
     needsAck : BOOLEAN,
     retrans  : BOOLEAN,
     deferred : 0..2,
     op       : {"NONE", "Early", "Active", "Terminating", "Terminated"},
     heard    : SUBSET Events,
     hungUp   : BOOLEAN,
     late     : BOOLEAN,
     out      : Seq(Message)]

Inbox == IF ordered THEN Seq(Message) ELSE SUBSET Message

\* The records d and e agree on what an end keeps.
Agrees(d, e) ==
    /\ e.invite = d.invite /\ e.cancel = d.cancel /\ e.byes = d.byes
    /\ e.sent = d.sent /\ e.pending = d.pending /\ e.dialog = d.dialog
    /\ e.previous = d.previous /\ e.owned = d.owned
    /\ e.needsAck = d.needsAck /\ e.retrans = d.retrans
    /\ e.deferred = d.deferred /\ e.op = d.op /\ e.heard = d.heard
    /\ e.hungUp = d.hungUp /\ e.late = d.late

\* What an end sends but for the INVITE itself: the caller sends no other one
\* and the callee none.
From(s) == {m \in Message : /\ s = "A" => m.method # "INVITE"
                            /\ s = "B" /\ m.method = "INVITE" => m.code # 0}

\* The INVITE has no final response yet.
Waiting(d) == d.invite \in {"INIT", "CALLING", "PROCEEDING"}

GivenUp(d) == d.op \in {"Terminating", "Terminated"}

\* An operation that was released is over, and its application was not called.
Silent(d) == ~d.late /\ ("released" \in d.heard => d.op = "Terminated")

\* A dialog belongs to its operation, unless that was over before.
Owned(d) == d.dialog # "NONE" => d.owned \/ d.op = "Terminated"

\* The caller: no dialog is confirmed before the final response; a CANCEL is
\* sent once, by an operation that is being given up.
Caller(d) ==
    /\ d.invite # "NONE" /\ d.op # "NONE" /\ ~d.retrans
    /\ Waiting(d) => d.dialog \notin {"CONFIRMED", "TERMINATED"} /\ ~d.needsAck
    /\ d.cancel # "NONE" => d.pending # "INVITE" /\ GivenUp(d)
    /\ d.pending = "BYE" => d.dialog \in {"CONFIRMED", "TERMINATED"}
    /\ d.hungUp => GivenUp(d)

\* The callee: nothing has happened to it before the INVITE comes.
Callee(d) ==
    /\ d.cancel = "NONE" /\ d.op # "Active" /\ "accepted" \notin d.heard
    /\ d.invite = "NONE" =>
        /\ d.op = "NONE" /\ d.dialog = "NONE" /\ d.byes = {}
        /\ d.heard = {} /\ d.deferred = 0
    /\ d.retrans => d.invite = "ACCEPTED"

Fine(s, d) ==
    /\ Silent(d) /\ Owned(d)
    /\ s = "A" => Caller(d)
    /\ s = "B" => Callee(d)

\* The BYEs that end s can still come to send, one for each event that makes
\* it send one: for the caller its hang-up, a 2xx it no longer wants, the ACK
\* that the stack misses then and the answer to its CANCEL; for the callee its
\* hang-up and the end of the timers of the 200 Ok.
Chances(s, d) ==
    (IF d.hungUp THEN 0 ELSE 1)
      + IF s = "A"
        THEN (IF Waiting(d) THEN 2 ELSE 0) + (IF d.cancel = "OVER" THEN 0 ELSE 1)
        ELSE IF d.invite \in {"NONE", "PROCEEDING"} \/ d.retrans THEN 1 ELSE 0

Well(s, d, k) ==
    /\ d \in Open /\ Fine(s, d) /\ d.out \in Seq(From(s))
    /\ d.sent + Chances(s, d) + k <= MaxByes

\* A call that was hung up stays so and is not taken for accepted; an INVITE
\* that was sent, or has come, is not taken back.
Onward(d, u) ==
    /\ d.hungUp => u.hungUp
    /\ d.hungUp /\ "accepted" \in u.heard => "accepted" \in d.heard
    /\ u.invite \in {"INIT", "NONE"} => u.invite = d.invite

\* The two ends are each other's peer.
LEMMA Peers == Peer("A") = "B" /\ Peer("B") = "A"
BY DEF Peer, Side

-----------------------------------------------------------------------------
(* The functions of the call, its dialog and its transactions.             *)

\* Messages are of their type, and of their end.
LEMMA Messages ==
    /\ \A method \in Methods, id \in 0..MaxByes :
            Request(method, id) \in Message
    /\ \A method \in Methods, id \in 0..MaxByes, code \in Codes :
            Response(method, id, code) \in Message
BY DEF Request, Response, Message, Methods, Codes

\* What an end sends is added to what it sent.
LEMMA PutWell ==
    ASSUME NEW s \in Side, NEW k \in Nat, NEW d, Well(s, d, k), NEW m \in From(s)
    PROVE  /\ Well(s, Put(d, m), k) /\ Agrees(d, Put(d, m))
           /\ Onward(d, Put(d, m))
<1> DEFINE u == [d EXCEPT !.out = Append(d.out, m)]
<1>1. Put(d, m) = u
  BY DEF Put
<1>2. m \in Message /\ d \in Open /\ d.out \in Seq(From(s))
  BY DEF From, Well
<1>3. Append(d.out, m) \in Seq(From(s)) /\ Append(d.out, m) \in Seq(Message)
  BY <1>2 DEF Open
<1>4. u \in Open /\ Agrees(d, u) /\ u.out \in Seq(From(s))
  BY <1>2, <1>3 DEF Open, Agrees
<1> HIDE DEF u
<1>5. Fine(s, u) /\ u.sent + Chances(s, u) + k <= MaxByes /\ Onward(d, u)
  BY <1>4 DEF Well, Fine, Silent, Owned, Caller, Callee, Waiting, GivenUp,
              Agrees, Chances, Onward
<1> QED
  BY <1>1, <1>4, <1>5 DEF Well

\* The application is called back, as long as its call is not released.
LEMMA TellWell ==
    ASSUME NEW s \in Side, NEW k \in Nat, NEW d, Well(s, d, k), NEW e \in Events,
           d.op # "Terminated", d.invite # "NONE", e # "released",
           e = "accepted" => s = "A" /\ ~GivenUp(d)
    PROVE  LET u == Tell(d, e) IN
           /\ Well(s, u, k) /\ Onward(d, u)
           /\ u.op = d.op /\ u.dialog = d.dialog /\ u.owned = d.owned
           /\ u.invite = d.invite /\ u.needsAck = d.needsAck
           /\ u.cancel = d.cancel /\ u.hungUp = d.hungUp
           /\ u.deferred = d.deferred
<1> DEFINE h == d.heard \cup {e}
           u == [d EXCEPT !.heard = h, !.late = FALSE]
<1>1. d \in Open /\ Silent(d)
  BY DEF Well, Fine
<1>2. ~d.late /\ "released" \notin d.heard
  BY <1>1 DEF Silent
<1>3. Tell(d, e) = u
  BY <1>1, <1>2 DEF Tell
<1>4. h \in SUBSET Events
  BY <1>1 DEF Open
<1> HIDE DEF h
<1>5. /\ u \in Open /\ u.invite = d.invite /\ u.cancel = d.cancel
      /\ u.byes = d.byes /\ u.sent = d.sent /\ u.pending = d.pending
      /\ u.dialog = d.dialog /\ u.owned = d.owned /\ u.needsAck = d.needsAck
      /\ u.retrans = d.retrans /\ u.deferred = d.deferred /\ u.op = d.op
      /\ u.heard = h /\ u.hungUp = d.hungUp /\ ~u.late /\ u.out = d.out
  BY <1>1, <1>4, ZenonT(90) DEF Open
<1>6. e # "accepted" \/ (s = "A" /\ ~d.hungUp)
  BY DEF Well, Fine, Caller, GivenUp
<1> HIDE DEF u
<1>7. "accepted" \in h => "accepted" \in d.heard \/ (s = "A" /\ ~d.hungUp)
  BY <1>6 DEF h
<1>8. "released" \notin h
  BY <1>2 DEF h
<1>9. Fine(s, u)
  BY <1>5, <1>7, <1>8 DEF Well, Fine, Silent, Owned, Caller, Callee, Waiting, GivenUp
<1>10. u.sent + Chances(s, u) + k <= MaxByes
  BY <1>5 DEF Well, Chances, Waiting
<1> QED
  BY <1>3, <1>5, <1>7, <1>9, <1>10 DEF Well, Onward

\* The BYE of send_bye and its transaction t.
Bye(d, t) == Put([d EXCEPT !.sent = @ + 1, !.byes = @ \cup {t}],
                 Request("BYE", d.sent + 1))
Byes(d)   == [id : {d.sent + 1}, internal : BOOLEAN]

\* A BYE is sent, with the next number.
LEMMA ByeOpen ==
    ASSUME NEW s \in Side, NEW d \in Open, d.out \in Seq(From(s)),
           d.sent < MaxByes, NEW t \in Byes(d)
    PROVE  LET u == Bye(d, t) IN
           /\ u \in Open /\ u.out \in Seq(From(s))
           /\ u.invite = d.invite /\ u.cancel = d.cancel /\ u.byes = d.byes \cup {t}
           /\ u.sent = d.sent + 1 /\ u.pending = d.pending
           /\ u.dialog = d.dialog /\ u.owned = d.owned
           /\ u.needsAck = d.needsAck /\ u.retrans = d.retrans
           /\ u.deferred = d.deferred /\ u.op = d.op
           /\ u.heard = d.heard /\ u.hungUp = d.hungUp /\ u.late = d.late
<1> DEFINE b == d.byes \cup {t}
           n == d.sent + 1
           o == Append(d.out, Request("BYE", n))
           u == [d EXCEPT !.sent = n, !.byes = b, !.out = o]
<1>1. n \in 1..MaxByes /\ n \in 0..MaxByes
  <2>1. d.sent \in 0..MaxByes
    BY DEF Open
  <2> QED
    BY <2>1 DEF MaxByes
<1>2. b \in SUBSET [id : 1..MaxByes, internal : BOOLEAN]
  <2>1. t \in [id : 1..MaxByes, internal : BOOLEAN]
    BY <1>1 DEF Byes
  <2> QED
    BY <2>1 DEF Open
<1>3. Request("BYE", n) \in From(s)
  BY <1>1 DEF From, Request, Message
<1>4. o \in Seq(From(s)) /\ o \in Seq(Message)
  <2>1. Request("BYE", n) \in Message
    BY <1>3 DEF From
  <2> QED
    BY <1>3, <2>1 DEF Open
<1>5. Bye(d, t) = u
  BY DEF Bye, Put
<1> HIDE DEF b, n, o
<1>6. /\ u \in Open /\ u.out = o
      /\ u.invite = d.invite /\ u.cancel = d.cancel /\ u.byes = b
      /\ u.sent = n /\ u.pending = d.pending
      /\ u.dialog = d.dialog /\ u.owned = d.owned
      /\ u.needsAck = d.needsAck /\ u.retrans = d.retrans
      /\ u.deferred = d.deferred /\ u.op = d.op
      /\ u.heard = d.heard /\ u.hungUp = d.hungUp /\ u.late = d.late
  BY ONLY <1>1, <1>2, <1>4, d \in Open DEF Open
<1> HIDE DEF u
<1> QED
  BY <1>4, <1>5, <1>6 DEF b, n

\* One more BYE is one chance less.
LEMMA ByeWell ==
    ASSUME NEW s \in Side, NEW k \in Nat, NEW d, Well(s, d, k + 1),
           d.invite # "NONE", NEW t \in Byes(d)
    PROVE  LET u == Bye(d, t) IN
           /\ Well(s, u, k) /\ Onward(d, u)
           /\ u.op = d.op /\ u.dialog = d.dialog /\ u.owned = d.owned
           /\ u.invite = d.invite /\ u.needsAck = d.needsAck
           /\ u.cancel = d.cancel /\ u.hungUp = d.hungUp
<1> DEFINE u == Bye(d, t)
<1>1. /\ d \in Open /\ d.out \in Seq(From(s)) /\ d.sent \in 0..MaxByes
      /\ Chances(s, d) \in Nat
  BY DEF Well, Open, Chances
<1>2. d.sent + Chances(s, d) + (k + 1) <= MaxByes
  BY DEF Well
<1>3. d.sent < MaxByes
  BY <1>1, <1>2 DEF MaxByes
<1>4. /\ u \in Open /\ u.out \in Seq(From(s))
      /\ u.invite = d.invite /\ u.cancel = d.cancel /\ u.sent = d.sent + 1
      /\ u.pending = d.pending /\ u.dialog = d.dialog /\ u.owned = d.owned
      /\ u.needsAck = d.needsAck /\ u.retrans = d.retrans
      /\ u.deferred = d.deferred /\ u.op = d.op
      /\ u.heard = d.heard /\ u.hungUp = d.hungUp /\ u.late = d.late
  BY <1>1, <1>3, ByeOpen
<1> HIDE DEF u
<1>5. Fine(s, u)
  BY <1>4 DEF Well, Fine, Silent, Owned, Caller, Callee, Waiting, GivenUp
<1>6. u.sent + Chances(s, u) + k <= MaxByes
  <2>1. Chances(s, u) = Chances(s, d)
    BY <1>4 DEF Chances, Waiting
  <2> QED
    BY <1>1, <1>2, <1>4, <2>1, SMTT(60) DEF MaxByes
<1>7. Well(s, u, k) /\ Onward(d, u)
  BY <1>4, <1>5, <1>6 DEF Well, Onward
<1> QED
  BY <1>4, <1>7 DEF u

\* A dialog is deleted.
LEMMA DeleteWell ==
    ASSUME NEW s \in Side, NEW k \in Nat, NEW d, Well(s, d, k),
           d.dialog \in {"NULL", "EARLY", "CONFIRMED"}, s = "A" => ~Waiting(d)
    PROVE  LET u == belle_sip_dialog_delete(d) IN
           /\ Well(s, u, k) /\ Onward(d, u) /\ u.dialog = "TERMINATED"
           /\ u.op = d.op /\ u.owned = d.owned /\ u.invite = d.invite
           /\ u.needsAck = d.needsAck /\ u.cancel = d.cancel
           /\ u.hungUp = d.hungUp
<1> DEFINE u == belle_sip_dialog_delete(d)
<1>1. d \in Open /\ 2 \in 0..2
  BY DEF Well
<1>2. /\ u \in Open /\ u.invite = d.invite /\ u.cancel = d.cancel
      /\ u.byes = d.byes /\ u.sent = d.sent /\ u.pending = d.pending
      /\ u.dialog = "TERMINATED" /\ u.owned = d.owned
      /\ u.needsAck = d.needsAck /\ ~u.retrans /\ u.op = d.op
      /\ u.heard = d.heard /\ u.hungUp = d.hungUp /\ u.late = d.late
      /\ u.out = d.out
  BY <1>1, ZenonT(90) DEF belle_sip_dialog_delete, Open
<1> HIDE DEF u
<1>3. Fine(s, u)
  BY <1>2 DEF Well, Fine, Silent, Owned, Caller, Callee, Waiting, GivenUp
<1>4. u.sent + Chances(s, u) + k <= MaxByes
  <2>1. /\ Chances(s, u) \in Nat /\ Chances(s, d) \in Nat
        /\ Chances(s, u) <= Chances(s, d)
    BY <1>2 DEF Chances, Waiting
  <2>2. d.sent + Chances(s, d) + k <= MaxByes /\ d.sent \in Nat
    BY <1>1 DEF Well, Open
  <2> QED
    BY <1>2, <2>1, <2>2 DEF MaxByes
<1> QED
  BY <1>2, <1>3, <1>4 DEF u, Well, Onward

\* A response to the INVITE makes, confirms or ends the dialog.
LEMMA EstablishWell ==
    ASSUME NEW s \in Side, NEW k \in Nat, NEW d, Well(s, d, k),
           NEW code \in Codes, code >= 100,
           d.dialog \notin {"CONFIRMED", "TERMINATED"},
           code >= 300 => d.dialog # "NONE",
           d.owned \/ d.op = "Terminated", d.invite # "NONE",
           s = "A" /\ code >= 200 => ~Waiting(d)
    PROVE  LET u == belle_sip_dialog_establish(d, code) IN
           /\ Well(s, u, k) /\ Onward(d, u)
           /\ u.op = d.op /\ u.owned = d.owned /\ u.invite = d.invite
           /\ u.cancel = d.cancel /\ u.hungUp = d.hungUp
           /\ code < 200 => u.dialog \notin {"CONFIRMED", "TERMINATED"}
<1>1. d \in Open
  BY DEF Well
<1>2. CASE code = 100
  <2>1. belle_sip_dialog_establish(d, code) = d
    BY <1>2 DEF belle_sip_dialog_establish
  <2> QED
    BY <2>1 DEF Onward
<1>3. CASE code \in 101..199
  <2> DEFINE u == [d EXCEPT !.dialog = "EARLY"]
  <2>1. belle_sip_dialog_establish(d, code) = u
    BY <1>3 DEF belle_sip_dialog_establish
  <2>2. /\ u \in Open /\ u.invite = d.invite /\ u.cancel = d.cancel
        /\ u.byes = d.byes /\ u.sent = d.sent /\ u.pending = d.pending
        /\ u.dialog = "EARLY" /\ u.owned = d.owned
        /\ u.needsAck = d.needsAck /\ u.retrans = d.retrans /\ u.op = d.op
        /\ u.heard = d.heard /\ u.hungUp = d.hungUp /\ u.late = d.late
        /\ u.out = d.out /\ u.deferred = d.deferred
    BY ONLY <1>1 DEF Open
  <2> HIDE DEF u
  <2>3. Fine(s, u)
    BY <2>2 DEF Well, Fine, Silent, Owned, Caller, Callee, Waiting, GivenUp
  <2>4. u.sent + Chances(s, u) + k <= MaxByes
    BY <2>2 DEF Well, Chances, Waiting
  <2> QED
    BY <2>1, <2>2, <2>3, <2>4 DEF Well, Onward
<1>4. CASE code \in 200..299
  <2> DEFINE u == [d EXCEPT !.dialog = "CONFIRMED", !.needsAck = TRUE]
  <2>1. belle_sip_dialog_establish(d, code) = u
    BY <1>4 DEF belle_sip_dialog_establish
  <2>2. /\ u \in Open /\ u.invite = d.invite /\ u.cancel = d.cancel
        /\ u.byes = d.byes /\ u.sent = d.sent /\ u.pending = d.pending
        /\ u.dialog = "CONFIRMED" /\ u.owned = d.owned
        /\ u.needsAck /\ u.retrans = d.retrans /\ u.op = d.op
        /\ u.heard = d.heard /\ u.hungUp = d.hungUp /\ u.late = d.late
        /\ u.out = d.out /\ u.deferred = d.deferred
    BY ONLY <1>1 DEF Open
  <2> HIDE DEF u
  <2>3. s = "A" => ~Waiting(d)
    BY <1>4
  <2>4. Fine(s, u)
    BY <2>2, <2>3 DEF Well, Fine, Silent, Owned, Caller, Callee, Waiting, GivenUp
  <2>5. u.sent + Chances(s, u) + k <= MaxByes
    BY <2>2 DEF Well, Chances, Waiting
  <2>6. ~(code < 200)
    BY <1>4
  <2> QED
    BY <2>1, <2>2, <2>4, <2>5, <2>6 DEF Well, Onward
<1>5. CASE code >= 300
  <2>1. d.dialog \in {"NULL", "EARLY", "CONFIRMED"} /\ (s = "A" => ~Waiting(d))
    BY <1>1, <1>5 DEF Open, Codes
  <2>2. belle_sip_dialog_establish(d, code) = belle_sip_dialog_delete(d)
    BY <1>5 DEF belle_sip_dialog_establish, Codes
  <2>3. ~(code < 200)
    BY <1>5 DEF Codes
  <2> QED
    BY <2>1, <2>2, <2>3, DeleteWell
<1>6. \/ code = 100 \/ code \in 101..199 \/ code \in 200..299 \/ code >= 300
  BY DEF Codes
<1> QED
  BY <1>2, <1>3, <1>4, <1>5, <1>6

\* The callee's server transaction sends a response to the INVITE.
LEMMA RespondWell ==
    ASSUME NEW k \in Nat, NEW d, Well("B", d, k), d.invite # "NONE",
           NEW code \in {180, 200, 486, 487, 603},
           code \in {180, 200} => d.invite = "PROCEEDING",
           d.dialog \in {"NULL", "EARLY"}, d.owned \/ d.op = "Terminated"
    PROVE  LET u == respond(d, code) IN
           /\ Well("B", u, k) /\ Onward(d, u)
           /\ u.op = d.op /\ u.owned = d.owned /\ u.hungUp = d.hungUp
           /\ u.invite # "NONE"
<1> DEFINE p == Put(d, Response("INVITE", 0, code))
           e == belle_sip_dialog_establish(p, code)
<1>1. /\ code \in Codes /\ code >= 100 /\ "B" \in Side
      /\ 0 \in 0..MaxByes /\ "INVITE" \in Methods
  BY DEF Codes, Side, MaxByes, Methods
<1>2. Response("INVITE", 0, code) \in From("B")
  <2>1. Response("INVITE", 0, code) \in Message
    BY <1>1, Messages
  <2>2. Response("INVITE", 0, code).code # 0
    BY <1>1 DEF Response
  <2> QED
    BY <2>1, <2>2 DEF From
<1>3. Well("B", p, k) /\ Agrees(d, p) /\ Onward(d, p)
  BY <1>1, <1>2, PutWell, SMTT(60)
<1>4. \E t \in BOOLEAN, i \in {"PROCEEDING", "ACCEPTED", "COMPLETED"} :
            /\ t <=> i = "ACCEPTED"
            /\ i = "COMPLETED" <=> code \notin {180, 200}
            /\ respond(d, code) = [e EXCEPT !.invite = i, !.retrans = t]
  <2> DEFINE i == IF code < 200 THEN "PROCEEDING"
                  ELSE IF code < 300 THEN "ACCEPTED" ELSE "COMPLETED"
             t == code \in 200..299
  <2>1. respond(d, code) = [e EXCEPT !.invite = i, !.retrans = t]
    BY DEF respond
  <2> HIDE DEF i, t
  <2>2. CASE code = 180
    <3>1. i = "PROCEEDING" /\ t = FALSE
      BY <2>2 DEF i, t
    <3>2. respond(d, code) = [e EXCEPT !.invite = "PROCEEDING", !.retrans = FALSE]
      BY <2>1, <3>1, ZenonT(90)
    <3> QED
      BY <2>2, <3>2, ZenonT(90)
  <2>3. CASE code = 200
    <3>1. i = "ACCEPTED" /\ t = TRUE
      BY <2>3 DEF i, t
    <3>2. respond(d, code) = [e EXCEPT !.invite = "ACCEPTED", !.retrans = TRUE]
      BY <2>1, <3>1, ZenonT(90)
    <3> QED
      BY <2>3, <3>2, ZenonT(90)
  <2>4. CASE code \notin {180, 200}
    <3>1. i = "COMPLETED" /\ t = FALSE
      BY <2>4 DEF i, t
    <3>2. respond(d, code) = [e EXCEPT !.invite = "COMPLETED", !.retrans = FALSE]
      BY <2>1, <3>1, ZenonT(90)
    <3> QED
      BY <2>4, <3>2, ZenonT(90)
  <2> QED
    BY <2>2, <2>3, <2>4, ZenonT(90)
<1> HIDE DEF p
<1>5. /\ Well("B", e, k) /\ Onward(p, e) /\ e.op = p.op
      /\ e.owned = p.owned /\ e.invite = p.invite /\ e.hungUp = p.hungUp
  <2>1. /\ p.dialog \notin {"CONFIRMED", "TERMINATED"} /\ p.dialog # "NONE"
        /\ p.owned \/ p.op = "Terminated"
        /\ p.invite # "NONE"
    BY <1>3 DEF Agrees
  <2>2. "B" # "A"
    OBVIOUS
  <2> QED
    BY ONLY <1>1, <1>3, <2>1, <2>2, EstablishWell
<1> HIDE DEF e
<1>6. /\ e \in Open /\ e.invite # "NONE"
      /\ code \in {180, 200} => e.invite = "PROCEEDING"
  BY <1>3, <1>5 DEF Well, Agrees
<1>7. PICK t \in BOOLEAN, i \in {"PROCEEDING", "ACCEPTED", "COMPLETED"} :
            /\ t <=> i = "ACCEPTED"
            /\ i = "COMPLETED" <=> code \notin {180, 200}
            /\ respond(d, code) = [e EXCEPT !.invite = i, !.retrans = t]
  BY <1>4, ZenonT(90)
<1> DEFINE u == [e EXCEPT !.invite = i, !.retrans = t]
<1>8. /\ u \in Open /\ u.invite = i /\ u.cancel = e.cancel
      /\ u.byes = e.byes /\ u.sent = e.sent /\ u.pending = e.pending
      /\ u.dialog = e.dialog /\ u.owned = e.owned
      /\ u.needsAck = e.needsAck /\ u.retrans = t /\ u.op = e.op
      /\ u.heard = e.heard /\ u.hungUp = e.hungUp /\ u.late = e.late
      /\ u.out = e.out /\ u.deferred = e.deferred
  <2>1. e \in Open
    BY <1>6
  <2> HIDE DEF e
  <2>2. u \in Open
    BY ONLY <2>1, ZenonT(90) DEF Open
  <2> QED
    BY ONLY <2>1, <2>2 DEF Open
<1>9. respond(d, code) = u
  BY <1>7
<1> HIDE DEF u
<1>10. Fine("B", u)
  BY <1>5, <1>6, <1>7, <1>8 DEF Well, Fine, Silent, Owned, Callee
<1>11. u.sent + Chances("B", u) + k <= MaxByes
  <2>1. /\ Chances("B", u) \in Nat /\ Chances("B", e) \in Nat
        /\ Chances("B", u) <= Chances("B", e)
    BY <1>6, <1>7, <1>8 DEF Chances
  <2>2. e.sent + Chances("B", e) + k <= MaxByes /\ e.sent \in Nat
    BY <1>5, <1>6 DEF Well, Open
  <2> QED
    BY <1>8, <2>1, <2>2 DEF MaxByes
<1>12. Well("B", u, k)
  BY <1>5, <1>8, <1>10, <1>11 DEF Well
<1>13. /\ Onward(d, u) /\ u.op = d.op /\ u.owned = d.owned
       /\ u.hungUp = d.hungUp /\ u.invite # "NONE"
  BY <1>3, <1>5, <1>8 DEF Onward, Agrees
<1> QED
  BY <1>9, <1>12, <1>13

\* The operation is released.
LEMMA ReleaseWell ==
    ASSUME NEW s \in Side, NEW k \in Nat, NEW d, Well(s, d, k),
           d.invite # "NONE"
    PROVE  LET u == call_set_released(d) IN
           /\ Well(s, u, k) /\ Onward(d, u)
           /\ u.invite = d.invite /\ u.needsAck = d.needsAck
<1> DEFINE h == d.heard \cup {"released"}
           u == [d EXCEPT !.op = "Terminated", !.heard = h]
<1>1. d \in Open
  BY DEF Well
<1>2. /\ h \in SUBSET Events
      /\ "accepted" \in h => "accepted" \in d.heard
  BY <1>1 DEF Open, Events
<1>3. call_set_released(d) = u
  BY DEF call_set_released
<1> HIDE DEF h
<1>4. /\ u \in Open /\ u.invite = d.invite /\ u.cancel = d.cancel
      /\ u.byes = d.byes /\ u.sent = d.sent /\ u.pending = d.pending
      /\ u.dialog = d.dialog /\ u.owned = d.owned
      /\ u.needsAck = d.needsAck /\ u.retrans = d.retrans
      /\ u.op = "Terminated"
      /\ u.heard = h /\ u.hungUp = d.hungUp /\ u.late = d.late
      /\ u.out = d.out /\ u.deferred = d.deferred
  BY <1>1, <1>2, ZenonT(90) DEF Open
<1> HIDE DEF u
<1>5. Fine(s, u)
  BY <1>2, <1>4 DEF Well, Fine, Silent, Owned, Caller, Callee, Waiting, GivenUp
<1>6. u.sent + Chances(s, u) + k <= MaxByes
  BY <1>4 DEF Well, Chances, Waiting
<1> QED
  BY <1>2, <1>3, <1>4, <1>5, <1>6 DEF Well, Onward

\* The caller gives its call up: with a CANCEL, or later.
LEMMA CancelWell ==
    ASSUME NEW k \in Nat, NEW d, Well("A", d, k), d.cancel = "NONE",
           d.op # "Terminated"
    PROVE  LET u == cancelling_invite(d) IN
           /\ Well("A", u, k) /\ Onward(d, u) /\ u.hungUp = d.hungUp
           /\ u.invite = d.invite /\ u.needsAck = d.needsAck
           /\ GivenUp(u)
<1> DEFINE e == [d EXCEPT !.op = "Terminating"]
           c == [e EXCEPT !.pending = "CANCEL", !.cancel = "TRYING"]
           m == Request("CANCEL", 0)
<1>1. d \in Open
  BY DEF Well
<1>2. m \in From("A")
  BY DEF From, Request, Message, MaxByes
<1>3. /\ e \in Open /\ e.invite = d.invite /\ e.cancel = d.cancel
      /\ e.byes = d.byes /\ e.sent = d.sent /\ e.pending = d.pending
      /\ e.dialog = d.dialog /\ e.owned = d.owned
      /\ e.needsAck = d.needsAck /\ e.retrans = d.retrans
      /\ e.op = "Terminating"
      /\ e.heard = d.heard /\ e.hungUp = d.hungUp /\ e.late = d.late
      /\ e.out = d.out /\ e.deferred = d.deferred
  BY ONLY <1>1 DEF Open
<1>4. cancelling_invite(d) = IF d.invite = "PROCEEDING" THEN Put(c, m) ELSE e
  BY DEF cancelling_invite
<1>5. /\ c \in Open /\ c.invite = e.invite /\ c.cancel = "TRYING"
      /\ c.byes = e.byes /\ c.sent = e.sent /\ c.pending = "CANCEL"
      /\ c.dialog = e.dialog /\ c.owned = e.owned
      /\ c.needsAck = e.needsAck /\ c.retrans = e.retrans
      /\ c.op = e.op
      /\ c.heard = e.heard /\ c.hungUp = e.hungUp /\ c.late = e.late
      /\ c.out = e.out /\ c.deferred = e.deferred
  BY ONLY <1>3, ZenonT(90) DEF Open
<1> HIDE DEF c
<1>6. Well("A", e, k) /\ Onward(d, e)
  <2>1. Fine("A", e)
    BY <1>3 DEF Well, Fine, Silent, Owned, Caller, Callee, Waiting, GivenUp
  <2>2. e.sent + Chances("A", e) + k <= MaxByes
    BY <1>3 DEF Well, Chances, Waiting
  <2> QED
    BY <1>3, <2>1, <2>2 DEF Well, Onward
<1>7. Well("A", c, k) /\ Onward(d, c)
  <2>1. Fine("A", c)
    BY <1>3, <1>5 DEF Well, Fine, Silent, Owned, Caller, Callee, Waiting, GivenUp
  <2>2. c.sent + Chances("A", c) + k <= MaxByes
    BY <1>3, <1>5 DEF Well, Chances, Waiting
  <2> QED
    BY <1>3, <1>5, <1>6, <2>1, <2>2 DEF Well, Onward
<1> HIDE DEF e
<1>8. Well("A", Put(c, m), k) /\ Agrees(c, Put(c, m))
  BY <1>2, <1>7, PutWell DEF Side
<1> QED
  BY <1>3, <1>4, <1>5, <1>6, <1>7, <1>8 DEF Agrees, Onward, GivenUp

\* A response to the INVITE of a call without a confirmed dialog.
LEMMA EarlyWell ==
    ASSUME NEW k \in Nat, NEW d, Well("A", d, k), d.op # "Terminated",
           NEW code \in Codes, d.dialog \notin {"CONFIRMED", "TERMINATED"}
    PROVE  LET u == early_response(d, code) IN
           /\ Well("A", u, k) /\ Onward(d, u)
           /\ u.invite = d.invite /\ u.needsAck = d.needsAck
<1>1. d.invite # "NONE" /\ d.op # "NONE" /\ d \in Open
  BY DEF Well, Fine, Caller
<1>2. CASE d.op = "Terminating" /\ d.pending # "CANCEL" /\ code < 200
  <2>1. d.cancel = "NONE"
    BY <1>1, <1>2 DEF Well, Fine, Caller, Open
  <2>2. early_response(d, code) = cancelling_invite(d)
    BY <1>2 DEF early_response, Codes
  <2> QED
    BY <2>1, <2>2, CancelWell
<1>3. CASE d.op = "Terminating" /\ code >= 300
  <2>1. early_response(d, code) = ReleasedUnlessDialog(d)
    BY <1>3 DEF early_response, Codes
  <2>2. CASE d.owned
    BY <2>1, <2>2 DEF ReleasedUnlessDialog, Onward
  <2>3. CASE ~d.owned
    BY <1>1, <2>1, <2>3, ReleaseWell DEF ReleasedUnlessDialog, Side
  <2> QED
    BY <2>2, <2>3
<1> DEFINE r == Tell(d, "ringing")
           f == Tell(d, "failed")
<1>4. ASSUME d.op # "Terminating"
      PROVE  /\ Well("A", r, k) /\ Onward(d, r)
             /\ r.invite = d.invite /\ r.needsAck = d.needsAck
             /\ Well("A", f, k) /\ Onward(d, f)
             /\ f.invite = d.invite /\ f.needsAck = d.needsAck
             /\ f.owned = d.owned
  <2>1. "ringing" \in Events /\ "failed" \in Events
    BY DEF Events
  <2> QED
    BY <1>1, <1>4, <2>1, TellWell DEF Side
<1>5. CASE d.op # "Terminating" /\ code \in 180..299
  <2>1. early_response(d, code) = r
    BY <1>5 DEF early_response, Codes
  <2> QED
    BY <1>4, <1>5, <2>1
<1>6. CASE d.op # "Terminating" /\ code >= 300
  <2>1. early_response(d, code) = ReleasedUnlessDialog(f)
    BY <1>6 DEF early_response, Codes
  <2> HIDE DEF f
  <2>2. CASE d.owned
    BY <1>4, <1>6, <2>1, <2>2 DEF ReleasedUnlessDialog
  <2>3. CASE ~d.owned
    <3>1. LET u == call_set_released(f) IN
          /\ Well("A", u, k) /\ Onward(f, u)
          /\ u.invite = f.invite /\ u.needsAck = f.needsAck
      BY <1>1, <1>4, <1>6, ReleaseWell DEF Side
    <3>2. early_response(d, code) = call_set_released(f)
      BY <1>4, <1>6, <2>1, <2>3 DEF ReleasedUnlessDialog
    <3> QED
      BY <1>4, <1>6, <3>1, <3>2 DEF Onward
  <2> QED
    BY <2>2, <2>3
<1>7. CASE ~(\/ d.op = "Terminating" /\ d.pending # "CANCEL" /\ code < 200
             \/ d.op = "Terminating" /\ code >= 300
             \/ d.op # "Terminating" /\ code \in 180..299
             \/ d.op # "Terminating" /\ code >= 300)
  <2>1. early_response(d, code) = d
    BY <1>7 DEF early_response
  <2> QED
    BY <2>1 DEF Onward
<1> QED
  BY <1>2, <1>3, <1>5, <1>6, <1>7

\* A response to an operation whose dialog is confirmed.
LEMMA ConfirmedWell ==
    ASSUME NEW s \in Side, NEW k \in Nat, NEW d, Well(s, d, k + 1),
           d.op # "Terminated", d.dialog = "CONFIRMED", d.invite # "NONE",
           NEW m \in Message, m.method = "INVITE" => s = "A"
    PROVE  LET u == confirmed_response(d, m) IN
           /\ Well(s, u, k) /\ Onward(d, u) /\ u.invite = d.invite
<1>1. d \in Open /\ d.sent \in Nat /\ Chances(s, d) \in Nat
  BY DEF Well, Open, Chances
<1>2. Well(s, d, k)
  BY <1>1 DEF Well, MaxByes
<1>3. CASE d.op = "Terminating"
  <2> DEFINE t == [id |-> d.sent + 1, internal |-> FALSE]
             b == Bye(d, t)
             u == [b EXCEPT !.pending = "BYE"]
  <2>1. confirmed_response(d, m) = u
    BY <1>3 DEF confirmed_response, send_bye, Bye
  <2>2. t \in Byes(d)
    BY DEF Byes
  <2> HIDE DEF t
  <2>3. /\ Well(s, b, k) /\ Onward(d, b) /\ b.dialog = d.dialog
        /\ b.op = d.op /\ b.invite = d.invite
    BY <2>2, ByeWell
  <2> HIDE DEF b
  <2>4. b \in Open
    BY <2>3 DEF Well
  <2>5. /\ u \in Open /\ u.invite = b.invite /\ u.cancel = b.cancel
        /\ u.byes = b.byes /\ u.sent = b.sent /\ u.pending = "BYE"
        /\ u.dialog = b.dialog /\ u.owned = b.owned
        /\ u.needsAck = b.needsAck /\ u.retrans = b.retrans /\ u.op = b.op
        /\ u.heard = b.heard /\ u.hungUp = b.hungUp /\ u.late = b.late
        /\ u.out = b.out /\ u.deferred = b.deferred
    BY ONLY <2>4 DEF Open
  <2> HIDE DEF u
  <2>6. Fine(s, u)
    BY <2>3, <2>5 DEF Well, Fine, Silent, Owned, Caller, Callee, Waiting, GivenUp
  <2>7. u.sent + Chances(s, u) + k <= MaxByes
    BY <2>3, <2>5 DEF Well, Chances, Waiting
  <2> QED
    BY <2>1, <2>3, <2>5, <2>6, <2>7 DEF Well, Onward
<1>4. CASE /\ d.op \in {"Early", "Active"}
           /\ m.method = "INVITE" /\ m.code = 200
  <2> DEFINE a == Request("ACK", 0)
             p == Put(d, a)
             t == Tell(p, "accepted")
             u == [t EXCEPT !.op = "Active", !.needsAck = FALSE]
  <2>1. confirmed_response(d, m) = u
    BY <1>4 DEF confirmed_response
  <2>2. a \in From(s) /\ "accepted" \in Events
    BY DEF From, Request, Message, MaxByes, Events
  <2>3. Well(s, p, k) /\ Agrees(d, p) /\ Onward(d, p)
    BY <1>2, <2>2, PutWell
  <2> HIDE DEF p
  <2>4. /\ p.op \in {"Early", "Active"} /\ p.invite # "NONE"
        /\ p.dialog = "CONFIRMED" /\ s = "A" /\ ~GivenUp(p)
    BY <1>4, <2>3 DEF Agrees, GivenUp
  <2>5. /\ Well(s, t, k) /\ Onward(p, t) /\ t.op = p.op
        /\ t.dialog = p.dialog /\ t.invite = p.invite
    BY <2>2, <2>3, <2>4, TellWell
  <2> HIDE DEF t
  <2>6. t \in Open
    BY <2>5 DEF Well
  <2>7. /\ u \in Open /\ u.invite = t.invite /\ u.cancel = t.cancel
        /\ u.byes = t.byes /\ u.sent = t.sent /\ u.pending = t.pending
        /\ u.dialog = t.dialog /\ u.owned = t.owned
        /\ ~u.needsAck /\ u.retrans = t.retrans /\ u.op = "Active"
        /\ u.heard = t.heard /\ u.hungUp = t.hungUp /\ u.late = t.late
        /\ u.out = t.out /\ u.deferred = t.deferred
    <3>1. u \in Open
      BY ONLY <2>6, ZenonT(90) DEF Open
    <3> QED
      BY <2>6, <3>1 DEF Open
  <2> HIDE DEF u
  <2>8. Fine(s, u)
    BY <2>4, <2>5, <2>7 DEF Well, Fine, Silent, Owned, Caller, Callee, Waiting,
       GivenUp
  <2>9. u.sent + Chances(s, u) + k <= MaxByes
    BY <2>5, <2>7 DEF Well, Chances, Waiting
  <2>10. Well(s, u, k)
    BY <2>5, <2>7, <2>8, <2>9 DEF Well
  <2>11. Onward(d, u) /\ u.invite = d.invite
    BY <2>3, <2>5, <2>7 DEF Onward, Agrees
  <2> QED
    BY <2>1, <2>10, <2>11
<1>5. CASE ~(\/ d.op = "Terminating"
             \/ /\ d.op \in {"Early", "Active"}
                /\ m.method = "INVITE" /\ m.code = 200)
  <2>1. confirmed_response(d, m) = d
    BY <1>5 DEF confirmed_response
  <2> QED
    BY <1>2, <2>1 DEF Onward
<1> QED
  BY <1>3, <1>4, <1>5

\* A response, or the failure of a request, is passed to the operation.
LEMMA ProcessResponseWell ==
    ASSUME NEW s \in Side, NEW k \in Nat, NEW d, Well(s, d, k),
           d.dialog = "CONFIRMED" => Well(s, d, k + 1),
           NEW m \in Message, m.method = "INVITE" => s = "A",
           d.invite # "NONE"
    PROVE  LET u == call_process_response(d, m) IN
           /\ Well(s, u, k) /\ Onward(d, u) /\ u.invite = d.invite
<1>1. m.code \in Codes /\ d \in Open
  BY DEF Message, Codes, Well
<1>2. CASE d.op = "Terminated"
  BY <1>2 DEF call_process_response, Onward
<1>3. CASE /\ d.op # "Terminated" /\ m.method = "INVITE"
           /\ ~d.owned \/ d.dialog = "EARLY"
  <2>1. call_process_response(d, m) = early_response(d, m.code)
    BY <1>3, <1>1 DEF call_process_response, Open
  <2>2. d.dialog \notin {"CONFIRMED", "TERMINATED"}
    BY <1>3, <1>1 DEF Well, Fine, Owned, Open
  <2> QED
    BY <1>1, <1>3, <2>1, <2>2, EarlyWell
<1>4. CASE d.op # "Terminated" /\ d.owned /\ d.dialog = "CONFIRMED"
  <2>1. call_process_response(d, m) = confirmed_response(d, m)
    BY <1>4 DEF call_process_response
  <2> QED
    BY <1>4, <2>1, ConfirmedWell
<1>5. CASE /\ d.op # "Terminated" /\ d.owned /\ d.dialog = "TERMINATED"
           /\ m.code >= 300
  <2>1. call_process_response(d, m) = Tell(d, "failed")
    BY <1>5 DEF call_process_response
  <2>2. "failed" \in Events
    BY DEF Events
  <2> QED
    BY <1>5, <2>1, <2>2, TellWell
<1>6. CASE /\ d.op # "Terminated"
           /\ ~(\/ m.method = "INVITE" /\ (~d.owned \/ d.dialog = "EARLY")
                \/ d.owned /\ d.dialog = "CONFIRMED"
                \/ d.owned /\ d.dialog = "TERMINATED" /\ m.code >= 300)
  <2>1. call_process_response(d, m) = d
    BY <1>6 DEF call_process_response
  <2> QED
    BY <2>1 DEF Onward
<1> QED
  BY <1>2, <1>3, <1>4, <1>5, <1>6

\* The failure of a request ends an operation without a dialog.
LEMMA FailureWell ==
    ASSUME NEW s \in Side, NEW k \in Nat, NEW d, Well(s, d, k),
           d.invite # "NONE"
    PROVE  LET u == call_process_failure(d) IN
           Well(s, u, k) /\ Onward(d, u)
<1>1. CASE d.op = "Terminated" \/ d.owned
  <2>1. call_process_failure(d) = d
    BY <1>1 DEF call_process_failure
  <2> QED
    BY <2>1 DEF Onward
<1>2. CASE d.op # "Terminated" /\ ~d.owned
  <2> DEFINE t == Tell(d, "failed")
             u == call_set_released(t)
  <2>1. call_process_failure(d) = u
    BY <1>2 DEF call_process_failure
  <2>2. Well(s, t, k) /\ Onward(d, t) /\ t.invite = d.invite
    BY <1>2, TellWell DEF Events
  <2> HIDE DEF t
  <2>3. Well(s, u, k) /\ Onward(t, u)
    BY <2>2, ReleaseWell
  <2> HIDE DEF u
  <2> QED
    BY <2>1, <2>2, <2>3 DEF Onward
<1> QED
  BY <1>1, <1>2

\* The final response to a BYE ends the dialog.
LEMMA ByeAnsweredWell ==
    ASSUME NEW s \in Side, NEW k \in Nat, NEW d, Well(s, d, k)
    PROVE  LET u == ByeAnswered(d) IN
           /\ Well(s, u, k) /\ Onward(d, u) /\ u.dialog # "CONFIRMED"
           /\ u.op = d.op /\ u.invite = d.invite /\ u.hungUp = d.hungUp
<1>1. CASE d.dialog = "CONFIRMED"
  <2> DEFINE e == [d EXCEPT !.needsAck = FALSE]
             u == belle_sip_dialog_delete(e)
  <2>1. ByeAnswered(d) = u
    BY <1>1 DEF ByeAnswered
  <2>2. d \in Open
    BY DEF Well
  <2>3. /\ e \in Open /\ e.invite = d.invite /\ e.cancel = d.cancel
        /\ e.byes = d.byes /\ e.sent = d.sent /\ e.pending = d.pending
        /\ e.dialog = d.dialog /\ e.owned = d.owned
        /\ ~e.needsAck /\ e.retrans = d.retrans /\ e.op = d.op
        /\ e.heard = d.heard /\ e.hungUp = d.hungUp /\ e.late = d.late
        /\ e.out = d.out /\ e.deferred = d.deferred
    BY ONLY <2>2, ZenonT(90) DEF Open
  <2> HIDE DEF e
  <2>4. Fine(s, e) /\ (s = "A" => ~Waiting(e))
    BY <1>1, <2>3 DEF Well, Fine, Silent, Owned, Caller, Callee, Waiting, GivenUp
  <2>5. e.sent + Chances(s, e) + k <= MaxByes
    BY <2>3 DEF Well, Chances, Waiting
  <2>6. Well(s, e, k) /\ Onward(d, e)
    BY <2>3, <2>4, <2>5 DEF Well, Onward
  <2>7. /\ Well(s, u, k) /\ Onward(e, u) /\ u.dialog = "TERMINATED"
        /\ u.op = e.op /\ u.invite = e.invite /\ u.hungUp = e.hungUp
    BY <1>1, <2>3, <2>4, <2>6, DeleteWell
  <2> HIDE DEF u
  <2> QED
    BY <2>1, <2>3, <2>6, <2>7 DEF Onward
<1>2. CASE d.dialog # "CONFIRMED"
  BY <1>2 DEF ByeAnswered, Onward
<1> QED
  BY <1>1, <1>2

-----------------------------------------------------------------------------
(* The invariant of the two ends and of the network between them.          *)

IsInvite(m) == m.method = "INVITE"

\* The INVITE is sent once, and no more under way once it was received; the
\* callee does not send one.
Wire ==
    /\ \A m \in UnderWay("A") : m \in From("B")
    /\ \A m \in UnderWay("B") : IsInvite(m) =>
            /\ m = Request("INVITE", 0)
            /\ end["A"].invite # "INIT" /\ end["B"].invite = "NONE"
    /\ ordered => \A i, j \in DOMAIN net["B"] :
            IsInvite(net["B"][i]) /\ IsInvite(net["B"][j]) => i = j
    /\ end["A"].invite = "INIT" => end["B"].invite = "NONE"

Sane(s, e) == Fine(s, e) /\ e.sent + Chances(s, e) <= MaxByes

Base ==
    /\ TypeOK /\ Wire
    /\ \A s \in Side : Sane(s, end[s])

\* A callback starts with what its end keeps and nothing sent.
LEMMA Opens ==
    ASSUME Base, NEW s \in Side
    PROVE  /\ Well(s, Begin(s), 0) /\ Agrees(Begin(s), end[s])
           /\ Onward(end[s], Begin(s)) /\ Begin(s) \in Open
<1> DEFINE e == end[s]
<1>1. e \in End
  BY DEF Base, TypeOK
<1>2. DOMAIN e = {"invite", "cancel", "byes", "sent", "pending", "dialog",
        "previous", "owned", "needsAck", "retrans", "deferred", "op", "heard",
        "hungUp", "late"}
  BY <1>1 DEF End
<1>3. Begin(s) = [invite |-> e.invite, cancel |-> e.cancel, byes |-> e.byes,
        sent |-> e.sent, pending |-> e.pending, dialog |-> e.dialog,
        previous |-> e.previous, owned |-> e.owned, needsAck |-> e.needsAck,
        retrans |-> e.retrans, deferred |-> e.deferred, op |-> e.op,
        heard |-> e.heard, hungUp |-> e.hungUp, late |-> e.late, out |-> <<>>]
  BY <1>2 DEF Begin
<1>4. <<>> \in Seq(Message) /\ <<>> \in Seq(From(s))
  OBVIOUS
<1> HIDE DEF e
<1>5. Begin(s) \in Open
  BY <1>1, <1>3, <1>4 DEF End, Open
<1>6. Agrees(Begin(s), e) /\ Begin(s).out = <<>>
  BY <1>3 DEF Agrees
<1>7. Sane(s, e) /\ e.sent \in 0..MaxByes
  BY <1>1 DEF e, Base, End
<1> DEFINE d == Begin(s)
<1>8. d \in Open /\ Agrees(d, e) /\ d.out = <<>>
  BY <1>5, <1>6
<1> HIDE DEF d
<1>9. Fine(s, d)
  BY <1>7, <1>8 DEF Sane, Agrees, Fine, Silent, Owned, Caller, Callee, Waiting,
     GivenUp
<1>10. d.sent + Chances(s, d) + 0 <= MaxByes
  <2>1. Chances(s, d) = Chances(s, e) /\ Chances(s, e) \in Nat
    BY <1>8 DEF Agrees, Chances, Waiting
  <2> QED
    BY <1>7, <1>8, <2>1 DEF Sane, Agrees, MaxByes
<1>11. Onward(e, d)
  BY <1>8 DEF Agrees, Onward
<1> QED
  BY <1>4, <1>8, <1>9, <1>10, <1>11 DEF Well, d, e

\* A callback leaves its end what its record holds but for "out".
LEMMA Closes ==
    ASSUME NEW e \in End, NEW r \in Open
    PROVE  /\ [f \in DOMAIN e |-> r[f]] \in End
           /\ Agrees(r, [f \in DOMAIN e |-> r[f]])
<1>1. DOMAIN e = {"invite", "cancel", "byes", "sent", "pending", "dialog",
        "previous", "owned", "needsAck", "retrans", "deferred", "op", "heard",
        "hungUp", "late"}
  BY DEF End
<1>2. [f \in DOMAIN e |-> r[f]] =
       [invite |-> r.invite, cancel |-> r.cancel, byes |-> r.byes,
        sent |-> r.sent, pending |-> r.pending, dialog |-> r.dialog,
        previous |-> r.previous, owned |-> r.owned, needsAck |-> r.needsAck,
        retrans |-> r.retrans, deferred |-> r.deferred, op |-> r.op,
        heard |-> r.heard, hungUp |-> r.hungUp, late |-> r.late]
  BY <1>1
<1> QED
  BY <1>2 DEF End, Open, Agrees

\* What a callback leaves of its own inbox.
Left(s, inbox) ==
    /\ inbox \in Inbox
    /\ ordered => \/ inbox = net[s] \/ inbox = <<>>
                  \/ net[s] # <<>> /\ inbox = Tail(net[s])
    /\ ~ordered => inbox \subseteq net[s]

\* What can be delivered is a message under way, and the rest is left.
LEMMA Delivered ==
    ASSUME TypeOK, NEW s \in Side
    PROVE  /\ net[s] \in Inbox /\ Left(s, net[s])
           /\ \A m \in Deliverable(s) :
                /\ m \in Message /\ m \in UnderWay(s)
                /\ Left(s, Without(s, m))
<1>1. net[s] \in Inbox
  BY DEF TypeOK, Inbox
<1>2. ASSUME NEW m \in Deliverable(s)
      PROVE  m \in Message /\ m \in UnderWay(s) /\ Left(s, Without(s, m))
  <2>1. CASE ordered
    <3>1. net[s] \in Seq(Message) /\ net[s] # <<>> /\ m = Head(net[s])
      BY <1>1, <1>2, <2>1 DEF Inbox, Deliverable
    <3>2. 1 \in DOMAIN net[s] /\ net[s][1] = m
      BY <3>1
    <3> QED
      BY <2>1, <3>1, <3>2 DEF Inbox, Without, UnderWay, ToSet, Left
  <2>2. CASE ~ordered
    BY <1>1, <1>2, <2>2 DEF Inbox, Deliverable, Without, UnderWay, Left
  <2> QED
    BY <2>1, <2>2
<1>3. Left(s, net[s])
  BY <1>1 DEF Left
<1> QED
  BY <1>1, <1>2, <1>3

\* What a callback does to the two ends and their inboxes.
LEMMA Ran ==
    ASSUME TypeOK, NEW s \in Side, NEW inbox \in Inbox, NEW d \in Open,
           Run(s, inbox, d)
    PROVE  /\ end' \in [Side -> End]
           /\ net' \in [Side -> Inbox]
           /\ Agrees(d, end'[s])
           /\ end'[Peer(s)] = end[Peer(s)]
           /\ ordered => /\ net'[s] = inbox
                         /\ net'[Peer(s)] = net[Peer(s)] \o d.out
           /\ ~ordered => /\ net'[s] \subseteq inbox
                          /\ net'[Peer(s)] \subseteq net[Peer(s)] \cup ToSet(d.out)
<1> DEFINE e == [f \in DOMAIN end[s] |-> d[f]]
<1>1. Peer(s) \in Side /\ Peer(s) # s
  BY Peers DEF Side
<1>2. end[s] \in End /\ end \in [Side -> End] /\ net \in [Side -> Inbox]
  BY DEF TypeOK, Inbox
<1>3. e \in End /\ Agrees(d, e)
  BY <1>2, Closes
<1>4. end' = [end EXCEPT ![s] = e]
  BY <1>2 DEF Run
<1> HIDE DEF e
<1>5. /\ end' \in [Side -> End] /\ end'[s] = e /\ end'[Peer(s)] = end[Peer(s)]
  BY <1>1, <1>2, <1>3, <1>4
<1>6. d.out \in Seq(Message)
  BY DEF Open
<1>7. CASE ordered
  <2>1. net' = [[net EXCEPT ![s] = inbox] EXCEPT ![Peer(s)] = @ \o d.out]
    BY <1>7 DEF Run
  <2>2. net[Peer(s)] \in Seq(Message)
    BY <1>1, <1>2, <1>7 DEF Inbox
  <2>3. net[Peer(s)] \o d.out \in Inbox
    BY <1>6, <1>7, <2>2 DEF Inbox
  <2> QED
    BY <1>1, <1>2, <1>3, <1>5, <1>7, <2>1, <2>3
<1>8. CASE ~ordered
  <2> DEFINE to == [net EXCEPT ![s] = inbox]
  <2>1. net' = [t \in Side |-> {m \in to[t] \cup IF t = s THEN {} ELSE ToSet(d.out) :
                                   Awaited(end'[t], m)}]
    BY <1>8 DEF Run
  <2>2. to[s] = inbox /\ to[Peer(s)] = net[Peer(s)]
    BY <1>1, <1>2
  <2> HIDE DEF to
  <2>3. /\ net'[s] \subseteq inbox
        /\ net'[Peer(s)] \subseteq net[Peer(s)] \cup ToSet(d.out)
        /\ DOMAIN net' = Side
    BY <1>1, <2>1, <2>2
  <2>4. ToSet(d.out) \subseteq Message
    BY <1>6 DEF ToSet
  <2>5. net' \in [Side -> Inbox]
    <3>1. /\ inbox \subseteq Message /\ net[Peer(s)] \subseteq Message
          /\ Inbox = SUBSET Message
      BY <1>1, <1>2, <1>8 DEF Inbox
    <3>2. net'[s] \in Inbox /\ net'[Peer(s)] \in Inbox
      BY <2>3, <2>4, <3>1
    <3>3. Side = {s, Peer(s)}
      BY Peers DEF Side
    <3>4. \A t \in Side : net'[t] \in Inbox
      BY <3>2, <3>3
    <3>5. net' = [t \in Side |-> net'[t]]
      BY <2>1
    <3> QED
      BY <3>4, <3>5
  <2> QED
    BY <1>3, <1>5, <1>8, <2>3, <2>5
<1> QED
  BY <1>7, <1>8

\* A step of end s that keeps the invariant.
Moved(s) ==
    /\ Base' /\ Onward(end[s], end'[s]) /\ end'[Peer(s)] = end[Peer(s)]

\* What is under way after a callback was under way, or was sent.
LEMMA Carried ==
    ASSUME TypeOK, ordered' = ordered, NEW s \in Side, NEW inbox,
           Left(s, inbox), NEW d \in Open, Run(s, inbox, d)
    PROVE  /\ \A m \in UnderWay(s)' : m \in UnderWay(s)
           /\ \A m \in UnderWay(s)' :
                m \in IF ordered THEN ToSet(inbox) ELSE inbox
           /\ \A m \in UnderWay(Peer(s))' :
                m \in UnderWay(Peer(s)) \/ m \in ToSet(d.out)
<1>1. Peer(s) \in Side /\ inbox \in Inbox
  BY Peers DEF Side, Left
<1>2. net \in [Side -> Inbox] /\ d.out \in Seq(Message)
  BY DEF TypeOK, Inbox, Open
<1>3. CASE ordered
  <2>1. net'[s] = inbox /\ net'[Peer(s)] = net[Peer(s)] \o d.out
    BY <1>1, <1>3, Ran
  <2>2. /\ net[s] \in Seq(Message) /\ net[Peer(s)] \in Seq(Message)
        /\ inbox \in Seq(Message)
    BY <1>1, <1>2, <1>3 DEF Inbox
  <2>3. ToSet(inbox) \subseteq ToSet(net[s])
    <3>1. inbox = net[s] \/ inbox = <<>> \/ (net[s] # <<>> /\ inbox = Tail(net[s]))
      BY <1>3 DEF Left
    <3>2. CASE inbox = net[s]
      BY <3>2
    <3>3. CASE inbox = <<>>
      BY <3>3 DEF ToSet
    <3>4. CASE net[s] # <<>> /\ inbox = Tail(net[s])
      <4>1. \A i \in DOMAIN inbox : i + 1 \in DOMAIN net[s] /\ inbox[i] = net[s][i + 1]
        BY <2>2, <3>4
      <4> QED
        BY <4>1 DEF ToSet
    <3> QED
      BY <3>1, <3>2, <3>3, <3>4
  <2>4. ToSet(net[Peer(s)] \o d.out) \subseteq ToSet(net[Peer(s)]) \cup ToSet(d.out)
    <3> DEFINE q == net[Peer(s)]
               o == d.out
    <3>1. q \in Seq(Message) /\ o \in Seq(Message)
      BY <1>2, <2>2
    <3> HIDE DEF q, o
    <3>2. ASSUME NEW i \in DOMAIN (q \o o)
          PROVE  \/ i \in DOMAIN q /\ (q \o o)[i] = q[i]
                 \/ i - Len(q) \in DOMAIN o /\ (q \o o)[i] = o[i - Len(q)]
      BY <3>1
    <3>3. ToSet(q \o o) \subseteq ToSet(q) \cup ToSet(o)
      BY <3>2 DEF ToSet
    <3> QED
      BY <3>3 DEF q, o
  <2>5. /\ UnderWay(s)' = ToSet(inbox) /\ UnderWay(s) = ToSet(net[s])
        /\ UnderWay(Peer(s))' = ToSet(net[Peer(s)] \o d.out)
        /\ UnderWay(Peer(s)) = ToSet(net[Peer(s)])
    BY <1>3, <2>1 DEF UnderWay
  <2> QED
    BY <1>3, <2>3, <2>4, <2>5
<1>4. CASE ~ordered
  <2>1. /\ net'[s] \subseteq inbox /\ inbox \subseteq net[s]
        /\ net'[Peer(s)] \subseteq net[Peer(s)] \cup ToSet(d.out)
    BY <1>1, <1>4, Ran DEF Left
  <2>2. /\ UnderWay(s)' = net'[s] /\ UnderWay(s) = net[s]
        /\ UnderWay(Peer(s))' = net'[Peer(s)] /\ UnderWay(Peer(s)) = net[Peer(s)]
    BY <1>4 DEF UnderWay
  <2> QED
    BY <1>4, <2>1, <2>2
<1> QED
  BY <1>3, <1>4

\* At most one INVITE is in a queue that is appended other messages, or from
\* which some are taken.
LEMMA OneInvite ==
    ASSUME NEW q \in Seq(Message), NEW o \in Seq(From("A")),
           \A i, j \in DOMAIN q : IsInvite(q[i]) /\ IsInvite(q[j]) => i = j
    PROVE  /\ \A i, j \in DOMAIN (q \o o) :
                IsInvite((q \o o)[i]) /\ IsInvite((q \o o)[j]) => i = j
           /\ q # <<>> => \A i, j \in DOMAIN Tail(q) :
                IsInvite(Tail(q)[i]) /\ IsInvite(Tail(q)[j]) => i = j
<1>1. \A i \in DOMAIN o : ~IsInvite(o[i])
  <2>1. \A i \in DOMAIN o : o[i] \in From("A")
    OBVIOUS
  <2> QED
    BY <2>1 DEF From, IsInvite
<1>2. ASSUME NEW i \in DOMAIN (q \o o), IsInvite((q \o o)[i])
      PROVE  i \in DOMAIN q /\ (q \o o)[i] = q[i]
  <2>1. \/ i \in DOMAIN q /\ (q \o o)[i] = q[i]
        \/ i - Len(q) \in DOMAIN o /\ (q \o o)[i] = o[i - Len(q)]
    OBVIOUS
  <2> QED
    BY <1>1, <1>2, <2>1
<1>3. ASSUME q # <<>>, NEW i \in DOMAIN Tail(q)
      PROVE  i + 1 \in DOMAIN q /\ Tail(q)[i] = q[i + 1] /\ i \in Nat
  BY <1>3
<1>4. ASSUME q # <<>>, NEW i \in DOMAIN Tail(q), NEW j \in DOMAIN Tail(q),
             IsInvite(Tail(q)[i]), IsInvite(Tail(q)[j])
      PROVE  i = j
  <2>1. /\ i + 1 \in DOMAIN q /\ Tail(q)[i] = q[i + 1] /\ i \in Nat
        /\ j + 1 \in DOMAIN q /\ Tail(q)[j] = q[j + 1] /\ j \in Nat
    BY <1>3, <1>4
  <2>2. i + 1 = j + 1
    BY <1>4, <2>1
  <2> QED
    BY <2>1, <2>2
<1> QED
  BY <1>2, <1>4

\* A callback that leaves a good record keeps the invariant.
LEMMA RunWell ==
    ASSUME Base, NEW s \in Side, NEW inbox, Left(s, inbox), NEW d,
           Well(s, d, 0), Onward(end[s], d), Run(s, inbox, d),
           ordered' = ordered, broken' \in BOOLEAN,
           s = "B" /\ end["B"].invite = "NONE" /\ d.invite # "NONE" =>
                /\ end["A"].invite # "INIT"
                /\ \A m \in IF ordered THEN ToSet(inbox) ELSE inbox : ~IsInvite(m)
    PROVE  Moved(s)
<1>1. /\ TypeOK /\ inbox \in Inbox /\ d \in Open /\ d.out \in Seq(From(s))
      /\ Peer(s) \in Side
  BY Peers DEF Base, Left, Well, Side
<1>2. /\ end' \in [Side -> End] /\ net' \in [Side -> Inbox]
      /\ Agrees(d, end'[s]) /\ end'[Peer(s)] = end[Peer(s)]
  BY <1>1, Ran
<1>3. TypeOK'
  BY <1>1, <1>2 DEF TypeOK, Inbox
<1>4. Onward(end[s], end'[s])
  BY <1>2 DEF Onward, Agrees
<1>5. Sane(s, end'[s])
  <2> DEFINE e == end'[s]
  <2>1. Agrees(d, e) /\ e \in End
    BY <1>2
  <2> HIDE DEF e
  <2>2. Fine(s, e)
    BY <2>1 DEF Well, Agrees, Fine, Silent, Owned, Caller, Callee, Waiting, GivenUp
  <2>3. Chances(s, e) = Chances(s, d) /\ Chances(s, e) \in Nat
    BY <2>1 DEF Agrees, Chances, Waiting
  <2>4. e.sent = d.sent /\ d.sent + Chances(s, d) + 0 <= MaxByes /\ d.sent \in Nat
    BY <1>1, <2>1 DEF Agrees, Well, Open
  <2>5. Sane(s, e)
    BY <2>2, <2>3, <2>4 DEF Sane, MaxByes
  <2> QED
    BY <2>5 DEF e
<1>6. Sane(Peer(s), end'[Peer(s)])
  BY <1>1, <1>2 DEF Base
<1>7. \A t \in Side : Sane(t, end'[t])
  BY <1>5, <1>6, Peers DEF Side
<1>8. /\ \A m \in UnderWay(s)' : m \in UnderWay(s)
      /\ \A m \in UnderWay(s)' : m \in IF ordered THEN ToSet(inbox) ELSE inbox
      /\ \A m \in UnderWay(Peer(s))' : m \in UnderWay(Peer(s)) \/ m \in From(s)
  <2>1. \A m \in ToSet(d.out) : m \in From(s)
    BY <1>1 DEF ToSet
  <2> QED
    BY <1>1, <2>1, Carried
<1>9. /\ end["A"].invite # "INIT" => end'["A"].invite # "INIT"
      /\ end["B"].invite # "NONE" => end'["B"].invite # "NONE"
      /\ s = "B" => d.invite = end'["B"].invite
  BY <1>2, <1>4, Peers DEF Onward, Agrees, Side, Base, Sane, Fine, Caller
<1>10. \A m \in UnderWay("A")' : m \in From("B")
  BY <1>8, Peers DEF Base, Wire, Side
<1>11. ASSUME NEW m \in UnderWay("B")', IsInvite(m)
       PROVE  /\ m = Request("INVITE", 0)
              /\ end'["A"].invite # "INIT" /\ end'["B"].invite = "NONE"
  <2>1. m \in UnderWay("B")
    BY <1>8, <1>11, Peers DEF Side, From, IsInvite
  <2>2. /\ m = Request("INVITE", 0)
        /\ end["A"].invite # "INIT" /\ end["B"].invite = "NONE"
    BY <1>11, <2>1 DEF Base, Wire
  <2>3. end'["B"].invite = "NONE"
    <3>1. CASE s = "A"
      BY <1>2, <2>2, <3>1, Peers
    <3>2. CASE s = "B"
      BY <1>8, <1>9, <1>11, <2>2, <3>2
    <3> QED
      BY <3>1, <3>2 DEF Side
  <2> QED
    BY <1>9, <2>2, <2>3
<1>12. ASSUME ordered
       PROVE  \A i, j \in DOMAIN net'["B"] :
                IsInvite(net'["B"][i]) /\ IsInvite(net'["B"][j]) => i = j
  <2> DEFINE q == net["B"]
  <2>1. /\ q \in Seq(Message)
        /\ \A i, j \in DOMAIN q : IsInvite(q[i]) /\ IsInvite(q[j]) => i = j
    BY <1>12 DEF Base, TypeOK, Wire, Side
  <2>2. CASE s = "A"
    <3> DEFINE o == d.out
    <3>1. net'["B"] = q \o o /\ o \in Seq(From("A"))
      <4>1. net'[Peer(s)] = net[Peer(s)] \o d.out
        BY <1>1, <1>12, Ran
      <4> QED
        BY <1>1, <2>2, <4>1, Peers
    <3> HIDE DEF q, o
    <3> QED
      BY <2>1, <3>1, OneInvite
  <2>3. CASE s = "B"
    <3>1. net'["B"] = inbox
      BY <1>1, <1>12, <2>3, Ran
    <3>2. inbox = q \/ inbox = <<>> \/ (q # <<>> /\ inbox = Tail(q))
      BY <1>12, <2>3 DEF Left
    <3> HIDE DEF q
    <3>3. CASE inbox = q
      BY <2>1, <3>1, <3>3
    <3>4. CASE inbox = <<>>
      BY <3>1, <3>4
    <3>5. CASE q # <<>> /\ inbox = Tail(q)
      <4>1. <<>> \in Seq(From("A"))
        OBVIOUS
      <4> QED
        BY <2>1, <3>1, <3>5, <4>1, OneInvite
    <3> QED
      BY <3>2, <3>3, <3>4, <3>5
  <2> QED
    BY <2>2, <2>3 DEF Side
<1>13. end'["A"].invite = "INIT" => end'["B"].invite = "NONE"
  <2>1. end["A"].invite = "INIT" => end["B"].invite = "NONE"
    BY DEF Base, Wire
  <2>2. CASE s = "A"
    BY <1>2, <1>9, <2>1, <2>2, Peers
  <2>3. CASE s = "B"
    BY <1>2, <1>9, <2>1, <2>3, Peers
  <2> QED
    BY <2>2, <2>3 DEF Side
<1>14. Wire'
  BY <1>10, <1>11, <1>12, <1>13 DEF Wire
<1>15. (\A t \in Side : Sane(t, end[t]))'
  BY <1>7 DEF Sane, Fine, Silent, Owned, Caller, Callee, Waiting, GivenUp, Chances
<1> QED
  BY <1>2, <1>3, <1>4, <1>14, <1>15 DEF Moved, Base

-----------------------------------------------------------------------------
(* The steps keep the invariant.                                           *)

Moves == Moved("A") \/ Moved("B")

\* What suffices of a callback that does not make the callee's transaction.
LEMMA StepWell ==
    ASSUME Base, NEW s \in Side, NEW inbox, Left(s, inbox), NEW d,
           Well(s, d, 0), Onward(Begin(s), d), Run(s, inbox, d),
           ordered' = ordered, broken' \in BOOLEAN,
           Begin(s).invite = "NONE" => d.invite = "NONE"
    PROVE  Moved(s)
<1>1. Onward(end[s], Begin(s)) /\ Agrees(Begin(s), end[s])
  BY Opens
<1>2. Onward(end[s], d)
  BY <1>1 DEF Onward, Agrees
<1>3. s = "B" /\ end["B"].invite = "NONE" => d.invite = "NONE"
  BY <1>1 DEF Agrees
<1> QED
  BY <1>2, <1>3, RunWell

\* A spare BYE may be left unsent.
LEMMA LessWell ==
    ASSUME NEW s \in Side, NEW k \in Nat, NEW d, Well(s, d, k + 1)
    PROVE  Well(s, d, k)
<1>1. d.sent \in Nat /\ Chances(s, d) \in Nat
  BY DEF Well, Open, Chances
<1> QED
  BY <1>1 DEF Well, MaxByes

\* A callback of an end with a dialog, or that sent a BYE, has its INVITE.
LEMMA Begun ==
    ASSUME NEW s \in Side, NEW k \in Nat, NEW d, Well(s, d, k),
           d.dialog # "NONE" \/ d.byes # {} \/ d.deferred # 0
    PROVE  d.invite # "NONE"
BY DEF Well, Fine, Caller, Callee, Side

\* The ACK of the 200 Ok.
LEMMA ReceiveAckMoves == ASSUME Base, ReceiveAck PROVE Moved("B")
<1> DEFINE d == Begin("B")
           c == [d EXCEPT !.needsAck = FALSE, !.retrans = FALSE]
<1>1. "B" \in Side /\ TypeOK
  BY DEF Side, Base
<1>2. PICK m \in Deliverable("B") :
        /\ Run("B", Without("B", m),
               IF d.dialog = "CONFIRMED" /\ d.needsAck THEN c ELSE d)
        /\ UNCHANGED <<broken, ordered>>
  BY DEF ReceiveAck
<1>3. Left("B", Without("B", m)) /\ ordered' = ordered /\ broken' \in BOOLEAN
  BY <1>1, <1>2, Delivered DEF TypeOK
<1>4. Well("B", d, 0) /\ d \in Open
  BY <1>1, Opens
<1> HIDE DEF d
<1>5. /\ c \in Open /\ c.invite = d.invite /\ c.cancel = d.cancel
      /\ c.byes = d.byes /\ c.sent = d.sent /\ c.pending = d.pending
      /\ c.dialog = d.dialog /\ c.owned = d.owned /\ ~c.needsAck
      /\ ~c.retrans /\ c.deferred = d.deferred /\ c.op = d.op
      /\ c.heard = d.heard /\ c.hungUp = d.hungUp /\ c.late = d.late
      /\ c.out = d.out
  <2>1. c \in Open
    BY ONLY <1>4 DEF Open
  <2> QED
    BY ONLY <1>4, <2>1 DEF Open
<1> HIDE DEF c
<1>6. Fine("B", c)
  BY <1>4, <1>5 DEF Well, Fine, Silent, Owned, Caller, Callee, Waiting, GivenUp
<1>7. c.sent + Chances("B", c) + 0 <= MaxByes
  <2>1. /\ Chances("B", c) \in Nat /\ Chances("B", d) \in Nat
        /\ Chances("B", c) <= Chances("B", d)
    BY <1>5 DEF Chances
  <2>2. d.sent + Chances("B", d) + 0 <= MaxByes /\ d.sent \in Nat
    BY <1>4 DEF Well, Open
  <2> QED
    BY <1>5, <2>1, <2>2 DEF MaxByes
<1>8. Well("B", c, 0) /\ Onward(d, c)
  BY <1>4, <1>5, <1>6, <1>7 DEF Well, Onward
<1>9. Onward(d, d)
  BY DEF Onward
<1>10. CASE d.dialog = "CONFIRMED" /\ d.needsAck
  BY <1>1, <1>2, <1>3, <1>5, <1>8, <1>10, StepWell DEF d
<1>11. CASE ~(d.dialog = "CONFIRMED" /\ d.needsAck)
  BY <1>1, <1>2, <1>3, <1>4, <1>9, <1>11, StepWell DEF d
<1> QED
  BY <1>10, <1>11

\* The 200 Ok that never got its ACK.
LEMMA OkEndMoves == ASSUME Base, dialog_on_200Ok_end PROVE Moved("B")
<1> DEFINE d == Begin("B")
           c == [d EXCEPT !.retrans = FALSE]
           t == [id |-> c.sent + 1, internal |-> TRUE]
           u == Bye(c, t)
<1>1. "B" \in Side /\ TypeOK /\ 0 \in Nat
  BY DEF Side, Base
<1>2. /\ end["B"].retrans /\ Run("B", net["B"], u)
      /\ UNCHANGED <<broken, ordered>>
  BY DEF dialog_on_200Ok_end, send_bye, Bye
<1>3. Left("B", net["B"]) /\ ordered' = ordered /\ broken' \in BOOLEAN
  BY <1>1, <1>2, Delivered DEF TypeOK
<1>4. Well("B", d, 0) /\ d \in Open /\ d.retrans
  BY <1>1, <1>2, Opens DEF Agrees
<1> HIDE DEF d
<1>5. /\ c \in Open /\ c.invite = d.invite /\ c.cancel = d.cancel
      /\ c.byes = d.byes /\ c.sent = d.sent /\ c.pending = d.pending
      /\ c.dialog = d.dialog /\ c.owned = d.owned /\ c.needsAck = d.needsAck
      /\ ~c.retrans /\ c.deferred = d.deferred /\ c.op = d.op
      /\ c.heard = d.heard /\ c.hungUp = d.hungUp /\ c.late = d.late
      /\ c.out = d.out
  <2>1. c \in Open
    BY ONLY <1>4 DEF Open
  <2> QED
    BY ONLY <1>4, <2>1 DEF Open
<1> HIDE DEF c
<1>6. Fine("B", c) /\ c.invite = "ACCEPTED"
  BY <1>4, <1>5 DEF Well, Fine, Silent, Owned, Caller, Callee, Waiting, GivenUp
<1>7. c.sent + Chances("B", c) + (0 + 1) <= MaxByes
  <2>1. Chances("B", c) \in Nat /\ Chances("B", d) = Chances("B", c) + 1
    BY <1>4, <1>5, <1>6 DEF Chances
  <2>2. d.sent + Chances("B", d) + 0 <= MaxByes /\ d.sent \in Nat
    BY <1>4 DEF Well, Open
  <2> QED
    BY <1>5, <2>1, <2>2 DEF MaxByes
<1>8. Well("B", c, 0 + 1) /\ Onward(d, c)
  BY <1>4, <1>5, <1>6, <1>7 DEF Well, Onward
<1>9. t \in Byes(c)
  BY DEF Byes
<1> HIDE DEF t
<1>10. Well("B", u, 0) /\ Onward(c, u) /\ u.invite = c.invite
  BY <1>1, <1>6, <1>8, <1>9, ByeWell
<1> HIDE DEF u
<1>11. Onward(d, u) /\ u.invite = d.invite
  BY <1>5, <1>8, <1>10 DEF Onward
<1> QED
  BY <1>1, <1>2, <1>3, <1>10, <1>11, StepWell DEF d

\* A CANCEL ends a call that still rings.
LEMMA CancelRequestWell ==
    ASSUME NEW d, Well("B", d, 0)
    PROVE  LET u == cancel_request(d) IN
           Well("B", u, 0) /\ Onward(d, u) /\ (d.invite = "NONE" => u = d)
<1> DEFINE m == Response("CANCEL", 0, 200)
           n == Response("CANCEL", 0, 500)
           p == Put(d, m)
           q == Put(d, n)
           t == Tell(p, "terminated")
           u == respond(t, 487)
<1>1. "B" \in Side /\ 0 \in Nat /\ "terminated" \in Events
  BY DEF Side, Events
<1>2. m \in From("B") /\ n \in From("B")
  BY DEF From, Response, Message, MaxByes
<1> HIDE DEF m, n
<1>3. /\ Well("B", p, 0) /\ Agrees(d, p) /\ Onward(d, p)
      /\ Well("B", q, 0) /\ Onward(d, q)
  BY <1>1, <1>2, PutWell
<1> HIDE DEF p, q
<1>4. d.dialog # "NONE" => d.invite # "NONE"
  BY <1>1, Begun
<1>5. CASE d.op # "Terminated" /\ d.dialog \in {"NULL", "EARLY"}
  <2>1. p.op # "Terminated" /\ p.invite # "NONE" /\ p.dialog \in {"NULL", "EARLY"}
    BY <1>3, <1>4, <1>5 DEF Agrees
  <2>2. /\ Well("B", t, 0) /\ Onward(p, t) /\ t.op = p.op /\ t.owned = p.owned
        /\ t.dialog = p.dialog /\ t.invite = p.invite
    BY <1>1, <1>3, <2>1, TellWell
  <2> HIDE DEF t
  <2>3. t.owned \/ t.op = "Terminated"
    BY <2>1, <2>2 DEF Well, Fine, Owned
  <2>4. Well("B", u, 0) /\ Onward(t, u)
    <3>1. 487 \in {180, 200, 486, 487, 603} /\ 487 \notin {180, 200}
      OBVIOUS
    <3> QED
      BY <1>1, <2>1, <2>2, <2>3, <3>1, RespondWell
  <2>5. cancel_request(d) = u
    BY <1>5 DEF cancel_request, t, p, m
  <2> HIDE DEF u
  <2> QED
    BY <1>3, <1>4, <1>5, <2>2, <2>4, <2>5 DEF Onward
<1>6. CASE d.op # "Terminated" /\ d.dialog = "CONFIRMED"
  <2>1. cancel_request(d) = q
    BY <1>6 DEF cancel_request, q, n
  <2> QED
    BY <1>3, <1>4, <1>6, <2>1
<1>7. CASE d.op = "Terminated" \/ d.dialog \notin {"NULL", "EARLY", "CONFIRMED"}
  <2>1. cancel_request(d) = d
    BY <1>7 DEF cancel_request
  <2> QED
    BY <2>1 DEF Onward
<1> QED
  BY <1>5, <1>6, <1>7

\* A CANCEL, which refuses the INVITE with 487 if it still can.
LEMMA ReceiveCancelMoves == ASSUME Base, ReceiveCancel PROVE Moved("B")
<1> DEFINE d == Begin("B")
           n == Response("CANCEL", 0, 501)
           p == Put(d, n)
           u == cancel_request(d)
<1>1. "B" \in Side /\ TypeOK /\ 0 \in Nat
  BY DEF Side, Base
<1>2. PICK m \in Deliverable("B") :
        /\ Run("B", Without("B", m), u) \/ Run("B", Without("B", m), p)
        /\ UNCHANGED <<broken, ordered>>
  BY DEF ReceiveCancel
<1>3. Left("B", Without("B", m)) /\ ordered' = ordered /\ broken' \in BOOLEAN
  BY <1>1, <1>2, Delivered DEF TypeOK
<1>4. Well("B", d, 0)
  BY <1>1, Opens
<1> HIDE DEF d
<1>5. Well("B", u, 0) /\ Onward(d, u) /\ (d.invite = "NONE" => u = d)
  BY <1>4, CancelRequestWell
<1>6. n \in From("B")
  BY DEF From, Response, Message, MaxByes
<1> HIDE DEF n
<1>7. Well("B", p, 0) /\ Onward(d, p) /\ p.invite = d.invite
  BY <1>1, <1>4, <1>6, PutWell DEF Agrees
<1> HIDE DEF u, p
<1>8. CASE Run("B", Without("B", m), u)
  BY <1>1, <1>3, <1>5, <1>8, StepWell DEF d
<1>9. CASE Run("B", Without("B", m), p)
  BY <1>1, <1>3, <1>7, <1>9, StepWell DEF d
<1> QED
  BY <1>2, <1>8, <1>9

\* The callee's application rings,
LEMMA RingingMoves == ASSUME Base, sal_call_notify_ringing PROVE Moved("B")
<1> DEFINE d == Begin("B")
           u == respond(d, 180)
<1>1. "B" \in Side /\ TypeOK /\ 0 \in Nat /\ 180 \in {180, 200, 486, 487, 603}
  BY DEF Side, Base
<1>2. /\ end["B"].invite = "PROCEEDING" /\ end["B"].dialog = "NULL"
      /\ Run("B", net["B"], u) /\ UNCHANGED <<broken, ordered>>
  BY DEF sal_call_notify_ringing, Answerable
<1>3. Left("B", net["B"]) /\ ordered' = ordered /\ broken' \in BOOLEAN
  BY <1>1, <1>2, Delivered DEF TypeOK
<1>4. Well("B", d, 0) /\ d.invite = "PROCEEDING" /\ d.dialog = "NULL"
  BY <1>1, <1>2, Opens DEF Agrees
<1> HIDE DEF d
<1>5. d.owned \/ d.op = "Terminated"
  BY <1>4 DEF Well, Fine, Owned
<1>6. Well("B", u, 0) /\ Onward(d, u)
  BY <1>1, <1>4, <1>5, RespondWell
<1> HIDE DEF u
<1> QED
  BY <1>1, <1>2, <1>3, <1>4, <1>6, StepWell DEF d

\* ... accepts,
LEMMA AcceptMoves == ASSUME Base, sal_call_accept PROVE Moved("B")
<1> DEFINE d == Begin("B")
           u == respond(d, 200)
<1>1. "B" \in Side /\ TypeOK /\ 0 \in Nat /\ 200 \in {180, 200, 486, 487, 603}
  BY DEF Side, Base
<1>2. /\ end["B"].invite = "PROCEEDING" /\ end["B"].dialog = "EARLY"
      /\ Run("B", net["B"], u) /\ UNCHANGED <<broken, ordered>>
  BY DEF sal_call_accept, Answerable
<1>3. Left("B", net["B"]) /\ ordered' = ordered /\ broken' \in BOOLEAN
  BY <1>1, <1>2, Delivered DEF TypeOK
<1>4. Well("B", d, 0) /\ d.invite = "PROCEEDING" /\ d.dialog = "EARLY"
  BY <1>1, <1>2, Opens DEF Agrees
<1> HIDE DEF d
<1>5. d.owned \/ d.op = "Terminated"
  BY <1>4 DEF Well, Fine, Owned
<1>6. Well("B", u, 0) /\ Onward(d, u)
  BY <1>1, <1>4, <1>5, RespondWell
<1> HIDE DEF u
<1> QED
  BY <1>1, <1>2, <1>3, <1>4, <1>6, StepWell DEF d

\* ... or declines.
LEMMA DeclineMoves == ASSUME Base, sal_call_decline PROVE Moved("B")
<1> DEFINE d == Begin("B")
           r == respond(d, 603)
           u == [r EXCEPT !.hungUp = TRUE]
<1>1. "B" \in Side /\ TypeOK /\ 0 \in Nat /\ 603 \in {180, 200, 486, 487, 603}
  BY DEF Side, Base
<1>2. /\ end["B"].invite = "PROCEEDING" /\ end["B"].dialog = "EARLY"
      /\ Run("B", net["B"], u) /\ UNCHANGED <<broken, ordered>>
  BY DEF sal_call_decline, Answerable
<1>3. Left("B", net["B"]) /\ ordered' = ordered /\ broken' \in BOOLEAN
  BY <1>1, <1>2, Delivered DEF TypeOK
<1>4. Well("B", d, 0) /\ d.invite = "PROCEEDING" /\ d.dialog = "EARLY"
  BY <1>1, <1>2, Opens DEF Agrees
<1> HIDE DEF d
<1>5. d.owned \/ d.op = "Terminated"
  BY <1>4 DEF Well, Fine, Owned
<1>6. Well("B", r, 0) /\ Onward(d, r)
  BY <1>1, <1>4, <1>5, RespondWell
<1> HIDE DEF r
<1>7. r \in Open
  BY <1>6 DEF Well
<1>8. /\ u \in Open /\ u.invite = r.invite /\ u.cancel = r.cancel
      /\ u.byes = r.byes /\ u.sent = r.sent /\ u.pending = r.pending
      /\ u.dialog = r.dialog /\ u.owned = r.owned /\ u.needsAck = r.needsAck
      /\ u.retrans = r.retrans /\ u.deferred = r.deferred /\ u.op = r.op
      /\ u.heard = r.heard /\ u.hungUp /\ u.late = r.late /\ u.out = r.out
  <2>1. u \in Open
    BY ONLY <1>7 DEF Open
  <2> QED
    BY ONLY <1>7, <2>1 DEF Open
<1> HIDE DEF u
<1>9. Fine("B", u)
  BY <1>6, <1>8 DEF Well, Fine, Silent, Owned, Caller, Callee, Waiting, GivenUp
<1>10. u.sent + Chances("B", u) + 0 <= MaxByes
  <2>1. /\ Chances("B", u) \in Nat /\ Chances("B", r) \in Nat
        /\ Chances("B", u) <= Chances("B", r)
    BY <1>7, <1>8 DEF Chances
  <2>2. r.sent + Chances("B", r) + 0 <= MaxByes /\ r.sent \in Nat
    BY <1>6, <1>7 DEF Well, Open
  <2> QED
    BY <1>8, <2>1, <2>2 DEF MaxByes
<1>11. Well("B", u, 0) /\ Onward(d, u)
  BY <1>6, <1>8, <1>9, <1>10 DEF Well, Onward
<1> QED
  BY <1>1, <1>2, <1>3, <1>4, <1>11, StepWell DEF d

\* The INVITE comes once, to an end to which nothing has happened.
LEMMA ReceiveInviteMoves == ASSUME Base, ReceiveInvite PROVE Moved("B")
<1> DEFINE b == Begin("B")
           c == [b EXCEPT !.invite = "PROCEEDING", !.op = "Early",
                          !.dialog = "NULL", !.owned = TRUE]
           n == Response("INVITE", 0, 100)
           d == Put(c, n)
           r == Tell(d, "received")
           x == respond(d, 486)
           y == [x EXCEPT !.op = "Terminated"]
<1>1. /\ "B" \in Side /\ TypeOK /\ 0 \in Nat /\ "received" \in Events
      /\ 486 \in {180, 200, 486, 487, 603} /\ 486 \notin {180, 200}
  BY DEF Side, Base, Events
<1>2. PICK m \in Deliverable("B") :
        /\ IsInvite(m) /\ UNCHANGED <<broken, ordered>>
        /\ \/ Run("B", Without("B", m), r)
           \/ \E code \in {180, 200} : Run("B", Without("B", m), respond(r, code))
           \/ Run("B", Without("B", m), y)
  BY DEF ReceiveInvite, IsInvite
<1> DEFINE inbox == Without("B", m)
<1>3. /\ Left("B", inbox) /\ ordered' = ordered /\ broken' \in BOOLEAN
      /\ m \in UnderWay("B") /\ net["B"] \in Inbox
  BY <1>1, <1>2, Delivered DEF TypeOK
<1>4. end["A"].invite # "INIT" /\ end["B"].invite = "NONE"
  BY <1>2, <1>3 DEF Base, Wire
<1>5. \A i \in IF ordered THEN ToSet(inbox) ELSE inbox : ~IsInvite(i)
  <2>1. CASE ordered
    <3> DEFINE q == net["B"]
    <3>1. /\ q \in Seq(Message) /\ q # <<>> /\ m = Head(q) /\ inbox = Tail(q)
      BY <1>2, <1>3, <2>1 DEF Inbox, Deliverable, Without
    <3>2. \A i, j \in DOMAIN q : IsInvite(q[i]) /\ IsInvite(q[j]) => i = j
      BY <2>1 DEF Base, Wire
    <3> HIDE DEF q, inbox
    <3>3. 1 \in DOMAIN q /\ IsInvite(q[1])
      BY <1>2, <3>1
    <3>4. ASSUME NEW i \in DOMAIN inbox PROVE ~IsInvite(inbox[i])
      <4>1. i + 1 \in DOMAIN q /\ inbox[i] = q[i + 1] /\ i + 1 # 1
        BY <3>1
      <4> QED
        BY <3>2, <3>3, <4>1
    <3> QED
      BY <2>1, <3>4 DEF ToSet
  <2>2. CASE ~ordered
    <3>1. inbox = net["B"] \ {m} /\ UnderWay("B") = net["B"]
      BY <2>2 DEF Without, UnderWay
    <3>2. \A i \in net["B"] : IsInvite(i) => i = Request("INVITE", 0)
      BY <3>1 DEF Base, Wire
    <3> QED
      BY <1>2, <1>3, <2>2, <3>1, <3>2
  <2> QED
    BY <2>1, <2>2
<1> HIDE DEF inbox
<1>6. /\ Well("B", b, 0) /\ b \in Open /\ b.invite = "NONE"
      /\ Onward(end["B"], b)
  BY <1>1, <1>4, Opens DEF Agrees
<1> HIDE DEF b
<1>7. /\ c \in Open /\ c.invite = "PROCEEDING" /\ c.cancel = b.cancel
      /\ c.byes = b.byes /\ c.sent = b.sent /\ c.pending = b.pending
      /\ c.dialog = "NULL" /\ c.owned /\ c.needsAck = b.needsAck
      /\ c.retrans = b.retrans /\ c.deferred = b.deferred /\ c.op = "Early"
      /\ c.heard = b.heard /\ c.hungUp = b.hungUp /\ c.late = b.late
      /\ c.out = b.out
  <2>1. c \in Open
    BY ONLY <1>6, ZenonT(90) DEF Open
  <2> QED
    BY ONLY <1>6, <2>1 DEF Open
<1> HIDE DEF c
<1>8. Fine("B", c)
  BY <1>6, <1>7 DEF Well, Fine, Silent, Owned, Caller, Callee, Waiting, GivenUp
<1>9. c.sent + Chances("B", c) + 0 <= MaxByes
  BY <1>6, <1>7 DEF Well, Chances
<1>10. Well("B", c, 0) /\ Onward(b, c)
  BY <1>6, <1>7, <1>8, <1>9 DEF Well, Onward
<1>11. n \in From("B")
  BY DEF From, Response, Message, MaxByes
<1> HIDE DEF n
<1>12. Well("B", d, 0) /\ Agrees(c, d) /\ Onward(c, d)
  BY <1>1, <1>10, <1>11, PutWell
<1> HIDE DEF d
<1>13. /\ d.op = "Early" /\ d.invite = "PROCEEDING" /\ d.dialog = "NULL"
       /\ d.owned /\ Onward(b, d)
  BY <1>7, <1>10, <1>12 DEF Agrees, Onward
<1>14. /\ Well("B", r, 0) /\ Onward(d, r) /\ r.owned = d.owned
       /\ r.dialog = d.dialog /\ r.invite = d.invite
  <2>1. d.op # "Terminated" /\ d.invite # "NONE"
    BY <1>13
  <2> HIDE DEF r
  <2>2. /\ Well("B", Tell(d, "received"), 0)
        /\ Onward(d, Tell(d, "received"))
        /\ Tell(d, "received").owned = d.owned
        /\ Tell(d, "received").dialog = d.dialog
        /\ Tell(d, "received").invite = d.invite
    BY ONLY <1>1, <1>12, <2>1, TellWell
  <2> QED
    BY <2>2 DEF r
<1> HIDE DEF r
<1>15. Onward(end["B"], d)
  BY <1>6, <1>13 DEF Onward
<1>16. ASSUME NEW u, Well("B", u, 0), Onward(d, u), Run("B", inbox, u)
       PROVE  Moved("B")
  <2>1. Onward(end["B"], u)
    BY <1>15, <1>16, <1>13 DEF Onward
  <2> QED
    BY <1>1, <1>3, <1>4, <1>5, <1>16, <2>1, RunWell
<1>17. CASE Run("B", inbox, r)
  BY <1>14, <1>16, <1>17
<1>18. ASSUME NEW code \in {180, 200}, Run("B", inbox, respond(r, code))
       PROVE  Moved("B")
  <2> DEFINE u == respond(r, code)
  <2>1. Well("B", u, 0) /\ Onward(r, u)
    <3>1. code \in {180, 200, 486, 487, 603}
      BY <1>18
    <3>2. /\ r.invite = "PROCEEDING" /\ r.invite # "NONE"
          /\ r.dialog \in {"NULL", "EARLY"} /\ r.owned
      BY <1>13, <1>14
    <3> QED
      BY ONLY <1>1, <1>14, <3>1, <3>2, RespondWell
  <2>2. Run("B", inbox, u)
    BY <1>18
  <2> HIDE DEF u
  <2>3. Onward(d, u)
    BY <1>14, <2>1 DEF Onward
  <2> QED
    BY <1>16, <2>1, <2>2, <2>3
<1>19. CASE Run("B", inbox, y)
  <2>1. /\ Well("B", x, 0) /\ Onward(d, x)
        /\ x.invite # "NONE"
    BY <1>1, <1>12, <1>13, RespondWell
  <2> HIDE DEF x
  <2>2. x \in Open
    BY <2>1 DEF Well
  <2>3. /\ y \in Open /\ y.invite = x.invite /\ y.cancel = x.cancel
        /\ y.byes = x.byes /\ y.sent = x.sent /\ y.pending = x.pending
        /\ y.dialog = x.dialog /\ y.owned = x.owned
        /\ y.needsAck = x.needsAck /\ y.retrans = x.retrans
        /\ y.deferred = x.deferred /\ y.op = "Terminated"
        /\ y.heard = x.heard /\ y.hungUp = x.hungUp /\ y.late = x.late
        /\ y.out = x.out
    <3>1. y \in Open
      BY ONLY <2>2 DEF Open
    <3> QED
      BY ONLY <2>2, <3>1, SMTT(60) DEF Open
  <2> HIDE DEF y
  <2>4. Fine("B", y)
    BY <2>1, <2>3 DEF Well, Fine, Silent, Owned, Caller, Callee, Waiting, GivenUp
  <2>5. y.sent + Chances("B", y) + 0 <= MaxByes
    BY <2>1, <2>3 DEF Well, Chances
  <2>6. Well("B", y, 0) /\ Onward(d, y)
    BY <2>1, <2>3, <2>4, <2>5 DEF Well, Onward
  <2> QED
    BY <1>16, <1>19, <2>6
<1> QED
  BY <1>2, <1>17, <1>18, <1>19 DEF inbox

\* The INVITE leaves.
LEMMA ChannelReadyMoves == ASSUME Base, ChannelReady PROVE Moved("A")
<1> DEFINE b == Begin("A")
           c == [b EXCEPT !.invite = "CALLING"]
           n == Request("INVITE", 0)
           d == Put(c, n)
           q == net["B"]
<1>1. /\ "A" \in Side /\ "B" \in Side /\ TypeOK /\ 0 \in Nat
      /\ Peer("A") = "B" /\ Peer("B") = "A"
  BY Peers DEF Side, Base
<1>2. /\ end["A"].invite = "INIT" /\ Run("A", net["A"], d)
      /\ UNCHANGED <<broken, ordered>>
  BY DEF ChannelReady
<1>3. /\ Left("A", net["A"]) /\ ordered' = ordered /\ broken' \in BOOLEAN
      /\ net["A"] \in Inbox
  BY <1>1, <1>2, Delivered DEF TypeOK
<1>4. /\ Well("A", b, 0) /\ b \in Open /\ b.invite = "INIT" /\ b.out = <<>>
      /\ Onward(end["A"], b)
  <2>1. b.out = <<>>
    BY DEF Begin
  <2> QED
    BY <1>1, <1>2, <2>1, Opens DEF Agrees
<1> HIDE DEF b
<1>5. /\ c \in Open /\ c.invite = "CALLING" /\ c.cancel = b.cancel
      /\ c.byes = b.byes /\ c.sent = b.sent /\ c.pending = b.pending
      /\ c.dialog = b.dialog /\ c.previous = b.previous /\ c.owned = b.owned
      /\ c.needsAck = b.needsAck /\ c.retrans = b.retrans
      /\ c.deferred = b.deferred /\ c.op = b.op /\ c.heard = b.heard
      /\ c.hungUp = b.hungUp /\ c.late = b.late /\ c.out = b.out
  <2>1. c \in Open
    BY ONLY <1>4 DEF Open
  <2> QED
    BY ONLY <1>4, <2>1 DEF Open
<1> HIDE DEF c
<1>6. Fine("A", c)
  BY <1>4, <1>5 DEF Well, Fine, Silent, Owned, Caller, Callee, Waiting, GivenUp
<1>7. c.sent + Chances("A", c) <= MaxByes
  <2>1. Chances("A", c) = Chances("A", b) /\ Chances("A", b) \in Nat
    BY <1>4, <1>5 DEF Chances, Waiting
  <2>2. b.sent + Chances("A", b) + 0 <= MaxByes /\ b.sent \in Nat
    BY <1>4 DEF Well, Open
  <2> QED
    BY <1>5, <2>1, <2>2 DEF MaxByes
<1>8. n \in Message /\ IsInvite(n)
  BY DEF Request, Message, MaxByes, IsInvite
<1> HIDE DEF n
<1>9. d = [c EXCEPT !.out = <<n>>]
  BY <1>4, <1>5 DEF Put
<1> HIDE DEF d
<1>10. <<n>> \in Seq(Message)
  BY <1>8
<1>11. /\ d \in Open /\ d.invite = c.invite /\ d.cancel = c.cancel
       /\ d.byes = c.byes /\ d.sent = c.sent /\ d.pending = c.pending
       /\ d.dialog = c.dialog /\ d.previous = c.previous
       /\ d.owned = c.owned /\ d.needsAck = c.needsAck
       /\ d.retrans = c.retrans /\ d.deferred = c.deferred /\ d.op = c.op
       /\ d.heard = c.heard /\ d.hungUp = c.hungUp /\ d.late = c.late
       /\ d.out = <<n>>
  <2>1. d \in Open
    BY ONLY <1>5, <1>9, <1>10, ZenonT(90) DEF Open
  <2> QED
    BY ONLY <1>5, <1>9, <1>10, <2>1, SMTT(60) DEF Open
<1>12. Agrees(c, d)
  BY <1>11 DEF Agrees
<1>13. /\ end' \in [Side -> End] /\ net' \in [Side -> Inbox]
       /\ Agrees(d, end'["A"]) /\ end'["B"] = end["B"]
       /\ ordered => net'["B"] = q \o <<n>>
  <2>1. /\ end' \in [Side -> End] /\ net' \in [Side -> Inbox]
        /\ Agrees(d, end'["A"])
        /\ end'[Peer("A")] = end[Peer("A")]
        /\ ordered => net'[Peer("A")] = net[Peer("A")] \o d.out
    <3>1. d \in Open
      BY <1>11
    <3> QED
      BY ONLY <1>1, <1>2, <1>3, <3>1, Ran
  <2>2. d.out = <<n>>
    BY <1>11
  <2> QED
    BY <1>1, <2>1, <2>2
<1>14. TypeOK'
  BY <1>1, <1>2, <1>3, <1>13 DEF TypeOK, Inbox
<1>15. Agrees(c, end'["A"])
  BY <1>12, <1>13 DEF Agrees
<1>16. Onward(end["A"], end'["A"]) /\ end'["A"].invite = "CALLING"
  BY <1>4, <1>5, <1>15 DEF Onward, Agrees
<1>17. Sane("A", end'["A"])
  <2> DEFINE e == end'["A"]
  <2>1. Agrees(c, e)
    BY <1>15
  <2> HIDE DEF e
  <2>2. Fine("A", e)
    BY <1>6, <2>1 DEF Agrees, Fine, Silent, Owned, Caller, Callee, Waiting, GivenUp
  <2>3. Chances("A", e) = Chances("A", c) /\ e.sent = c.sent
    BY <2>1 DEF Agrees, Chances, Waiting
  <2>4. Sane("A", e)
    BY <1>7, <2>2, <2>3 DEF Sane
  <2> QED
    BY <2>4 DEF e
<1>18. \A t \in Side : Sane(t, end'[t])
  BY <1>13, <1>17 DEF Side, Base
<1>19. (\A t \in Side : Sane(t, end[t]))'
  BY <1>18 DEF Sane, Fine, Silent, Owned, Caller, Callee, Waiting, GivenUp, Chances
<1>20. end["B"].invite = "NONE" /\ \A m \in UnderWay("B") : ~IsInvite(m)
  BY <1>2 DEF Base, Wire
<1>21. /\ \A m \in UnderWay("A")' : m \in UnderWay("A")
       /\ \A m \in UnderWay("B")' : m \in UnderWay("B") \/ m = n
  <2>1. \A m \in ToSet(d.out) : m = n
    BY <1>11 DEF ToSet
  <2>2. \A m \in UnderWay("A")' : m \in UnderWay("A")
    BY <1>1, <1>2, <1>3, <1>11, Carried
  <2>3. \A m \in UnderWay("B")' : m \in UnderWay("B") \/ m \in ToSet(d.out)
    BY <1>1, <1>2, <1>3, <1>11, Carried
  <2> QED
    BY <2>1, <2>2, <2>3
<1>22. ASSUME ordered
       PROVE  \A i, j \in DOMAIN net'["B"] :
                IsInvite(net'["B"][i]) /\ IsInvite(net'["B"][j]) => i = j
  <2>1. q \in Seq(Message) /\ net'["B"] = q \o <<n>>
    BY <1>1, <1>13, <1>22 DEF TypeOK
  <2>2. \A i \in DOMAIN q : ~IsInvite(q[i])
    BY <1>20, <1>22 DEF UnderWay, ToSet
  <2> HIDE DEF q
  <2>3. ASSUME NEW i \in DOMAIN (q \o <<n>>), IsInvite((q \o <<n>>)[i])
        PROVE  i = Len(q) + 1
    <3>1. (i \in DOMAIN q /\ (q \o <<n>>)[i] = q[i]) \/ i = Len(q) + 1
      BY <2>1
    <3> QED
      BY <2>2, <2>3, <3>1
  <2> QED
    BY <2>1, <2>3
<1>23. Wire'
  <2>1. \A m \in UnderWay("A")' : m \in From("B")
    BY <1>21 DEF Base, Wire
  <2>2. \A m \in UnderWay("B")' : IsInvite(m) =>
            /\ m = Request("INVITE", 0)
            /\ end'["A"].invite # "INIT" /\ end'["B"].invite = "NONE"
    <3>1. end'["A"].invite # "INIT" /\ end'["B"].invite = "NONE"
      BY <1>13, <1>16, <1>20
    <3>2. \A m \in UnderWay("B")' : IsInvite(m) => m = n
      BY <1>20, <1>21
    <3> QED
      BY <3>1, <3>2 DEF n
  <2>3. end'["A"].invite = "INIT" => end'["B"].invite = "NONE"
    BY <1>16
  <2> QED
    BY <1>2, <1>22, <2>1, <2>2, <2>3 DEF Wire
<1> QED
  BY <1>1, <1>13, <1>14, <1>16, <1>19, <1>23 DEF Moved, Base

\* A response to the INVITE changes the transaction, and gives back the BYEs
\* that were kept for the final one.
LEMMA ProgressWell ==
    ASSUME NEW d, Well("A", d, 0), d.invite \in {"CALLING", "PROCEEDING"},
           NEW code \in Codes
    PROVE  LET u == [d EXCEPT !.invite = Progress(code)] IN
           /\ Well("A", u, IF code < 200 THEN 0 ELSE 2) /\ Onward(d, u)
           /\ u.dialog \notin {"CONFIRMED", "TERMINATED"}
           /\ u.invite = Progress(code) /\ (code >= 200 => ~Waiting(u))
           /\ (code < 200 => Waiting(u))
<1> DEFINE i == Progress(code)
           u == [d EXCEPT !.invite = i]
<1>1. d \in Open /\ d.dialog \notin {"CONFIRMED", "TERMINATED"} /\ ~d.needsAck
  BY DEF Well, Fine, Caller, Waiting
<1>2. /\ i \in {"PROCEEDING", "ACCEPTED", "COMPLETED"}
      /\ code < 200 => i = "PROCEEDING"
      /\ code >= 200 => i # "PROCEEDING"
  BY DEF Progress, Codes
<1> HIDE DEF i
<1>3. /\ u \in Open /\ u.invite = i /\ u.cancel = d.cancel
      /\ u.byes = d.byes /\ u.sent = d.sent /\ u.pending = d.pending
      /\ u.dialog = d.dialog /\ u.previous = d.previous /\ u.owned = d.owned
      /\ u.needsAck = d.needsAck /\ u.retrans = d.retrans
      /\ u.deferred = d.deferred /\ u.op = d.op /\ u.heard = d.heard
      /\ u.hungUp = d.hungUp /\ u.late = d.late /\ u.out = d.out
  <2>1. u \in Open
    BY ONLY <1>1, <1>2 DEF Open
  <2> QED
    BY ONLY <1>1, <1>2, <2>1, SMTT(60) DEF Open
<1> HIDE DEF u
<1>4. Fine("A", u)
  BY <1>1, <1>2, <1>3 DEF Well, Fine, Silent, Owned, Caller, Callee, Waiting, GivenUp
<1>5. /\ code < 200 => Waiting(u) /\ u.invite = "PROCEEDING"
      /\ code >= 200 => ~Waiting(u)
  BY <1>2, <1>3 DEF Waiting
<1>6. /\ d.sent + Chances("A", d) + 0 <= MaxByes /\ d.sent \in Nat
      /\ Waiting(d)
  BY <1>1 DEF Well, Open, Waiting
<1>7. Onward(d, u)
  BY <1>2, <1>3 DEF Onward
<1>8. CASE code < 200
  <2>1. Chances("A", u) = Chances("A", d) /\ Chances("A", d) \in Nat
    BY <1>3, <1>5, <1>6, <1>8 DEF Chances
  <2>2. u.sent + Chances("A", u) + 0 <= MaxByes
    BY <1>3, <1>6, <2>1 DEF MaxByes
  <2>3. Well("A", u, 0)
    BY <1>1, <1>3, <1>4, <2>2 DEF Well
  <2> QED
    BY <1>1, <1>3, <1>5, <1>7, <1>8, <2>3 DEF u, i, Codes
<1>9. CASE ~(code < 200)
  <2>1. Chances("A", u) + 2 = Chances("A", d) /\ Chances("A", u) \in Nat
    BY <1>3, <1>5, <1>6, <1>9 DEF Chances, Codes
  <2>2. u.sent + Chances("A", u) + 2 <= MaxByes
    BY <1>3, <1>6, <2>1 DEF MaxByes
  <2>3. Well("A", u, 2)
    BY <1>1, <1>3, <1>4, <2>2 DEF Well
  <2> QED
    BY <1>1, <1>3, <1>5, <1>7, <1>9, <2>3 DEF u, i, Codes
<1> QED
  BY <1>8, <1>9


\* The operation is told of a response to the INVITE, and a 2xx it left
\* without an ACK is hung up.
LEMMA NotifyWell ==
    ASSUME NEW d, NEW m \in Message, m.method = "INVITE", m.code # 0,
           Well("A", d, IF m.code < 200 THEN 0 ELSE 2),
           d.dialog \notin {"CONFIRMED", "TERMINATED"},
           m.code >= 200 => ~Waiting(d), m.code < 200 => Waiting(d)
    PROVE  LET u == notify_invite_response(d, m) IN
           Well("A", u, 0) /\ Onward(d, u)
<1> DEFINE k == IF m.code < 200 THEN 0 ELSE 2
           w == d.owned \/ d.op # "Terminated"
           made == [d EXCEPT !.owned = w]
           e == belle_sip_dialog_establish(made, m.code)
           u == IF d.dialog = "NONE" /\ m.code \notin 180..299 THEN d ELSE e
           v == call_process_response(u, m)
           x == belle_sip_dialog_check_ack_sent(v)
<1>1. /\ "A" \in Side /\ k \in Nat /\ 0 \in Nat /\ 1 \in Nat
      /\ m.code \in Codes /\ m.code >= 100
  BY DEF Side, Message, Codes
<1>2. Well("A", d, k) /\ d \in Open /\ d.invite # "NONE"
  BY <1>1 DEF Well, Fine, Caller
<1>3. notify_invite_response(d, m) = x
  BY DEF notify_invite_response
<1>4. w \in BOOLEAN /\ (w \/ d.op = "Terminated") /\ (d.owned => w)
  BY <1>2 DEF Open
<1> HIDE DEF w, k
<1>5. /\ made \in Open /\ made.invite = d.invite /\ made.cancel = d.cancel
      /\ made.byes = d.byes /\ made.sent = d.sent
      /\ made.pending = d.pending /\ made.dialog = d.dialog
      /\ made.previous = d.previous /\ made.owned = w
      /\ made.needsAck = d.needsAck /\ made.retrans = d.retrans
      /\ made.deferred = d.deferred /\ made.op = d.op
      /\ made.heard = d.heard /\ made.hungUp = d.hungUp
      /\ made.late = d.late /\ made.out = d.out
  <2>1. made \in Open
    BY ONLY <1>2, <1>4 DEF Open
  <2> QED
    BY ONLY <1>2, <1>4, <2>1 DEF Open
<1> HIDE DEF made
<1>6. Fine("A", made)
  BY <1>2, <1>4, <1>5 DEF Well, Fine, Silent, Owned, Caller, Callee, Waiting, GivenUp
<1>7. made.sent + Chances("A", made) + k <= MaxByes
  BY <1>2, <1>5 DEF Well, Chances, Waiting
<1>8. Well("A", made, k) /\ Onward(d, made)
  BY <1>2, <1>5, <1>6, <1>7, SMTT(60) DEF Well, Onward
<1>9. /\ Well("A", u, k) /\ Onward(d, u) /\ u.invite = d.invite
      /\ m.code < 200 => u.dialog # "CONFIRMED"
  <2>1. CASE d.dialog = "NONE" /\ m.code \notin 180..299
    BY <1>2, <2>1 DEF Onward
  <2>2. CASE ~(d.dialog = "NONE" /\ m.code \notin 180..299)
    <3>1. /\ m.code >= 300 => made.dialog # "NONE"
          /\ made.dialog \notin {"CONFIRMED", "TERMINATED"}
          /\ made.invite # "NONE"
          /\ m.code >= 200 => ~Waiting(made)
      BY <1>2, <1>5, <2>2 DEF Waiting
    <3>2. made.owned \/ made.op = "Terminated"
      BY <1>4, <1>5
    <3>3. /\ Well("A", e, k) /\ Onward(made, e) /\ e.invite = made.invite
          /\ m.code < 200 => e.dialog \notin {"CONFIRMED", "TERMINATED"}
      BY ONLY <1>1, <1>8, <3>1, <3>2, EstablishWell
    <3>4. u = e
      BY <2>2
    <3> HIDE DEF u, e
    <3> QED
      BY <1>5, <1>8, <3>3, <3>4 DEF Onward
  <2> QED
    BY <2>1, <2>2
<1> HIDE DEF u
<1>10. CASE m.code < 200
  <2>1. Well("A", u, 0) /\ u.dialog # "CONFIRMED" /\ u.invite # "NONE"
    BY <1>2, <1>9, <1>10 DEF k
  <2>2. Well("A", v, 0) /\ Onward(u, v) /\ v.invite = u.invite
    BY <1>1, <2>1, ProcessResponseWell
  <2> HIDE DEF v
  <2>3. Waiting(v)
    BY <1>9, <1>10, <2>2 DEF Waiting
  <2>4. ~v.needsAck
    BY <2>2, <2>3 DEF Well, Fine, Caller
  <2>5. x = v
    BY <2>4 DEF belle_sip_dialog_check_ack_sent
  <2> HIDE DEF x
  <2> QED
    BY <1>3, <1>9, <2>2, <2>5 DEF Onward
<1>11. CASE ~(m.code < 200)
  <2>1. Well("A", u, 1 + 1) /\ u.invite # "NONE"
    <3>1. k = 1 + 1
      BY <1>11 DEF k
    <3> QED
      BY <1>2, <1>9, <3>1
  <2>2. Well("A", u, 1)
    BY <1>1, <2>1, LessWell
  <2>3. Well("A", v, 1) /\ Onward(u, v) /\ v.invite = u.invite
    BY <1>1, <2>1, <2>2, ProcessResponseWell
  <2>4. Well("A", v, 0 + 1)
    BY <2>3
  <2> HIDE DEF v
  <2>5. Onward(d, v) /\ v.invite # "NONE"
    BY <1>9, <2>1, <2>3 DEF Onward
  <2>6. CASE v.needsAck
    <3> DEFINE t == [id |-> v.sent + 1, internal |-> TRUE]
               b == Bye(v, t)
    <3>1. x = b
      BY <2>6 DEF belle_sip_dialog_check_ack_sent, send_bye, Bye
    <3>2. t \in Byes(v)
      BY DEF Byes
    <3> HIDE DEF t
    <3>3. Well("A", b, 0) /\ Onward(v, b)
      BY <1>1, <2>4, <2>5, <3>2, ByeWell
    <3> HIDE DEF b, x
    <3> QED
      BY <1>3, <2>5, <3>1, <3>3 DEF Onward
  <2>7. CASE ~v.needsAck
    <3>1. x = v
      BY <2>7 DEF belle_sip_dialog_check_ack_sent
    <3>2. Well("A", v, 0)
      BY <1>1, <2>4, LessWell
    <3> HIDE DEF x
    <3> QED
      BY <1>3, <2>5, <3>1, <3>2
  <2> QED
    BY <2>6, <2>7
<1> QED
  BY <1>10, <1>11

\* An answer to the INVITE, with all that process_response_event makes of it.
LEMMA InviteResponseMoves ==
    ASSUME Base, ReceiveInviteResponse PROVE Moved("A")
<1> DEFINE b == Begin("A")
<1>1. "A" \in Side /\ "B" \in Side /\ TypeOK /\ 0 \in Nat
  BY DEF Side, Base
<1>2. PICK m \in Deliverable("A") :
        /\ m.method = "INVITE" /\ UNCHANGED <<broken, ordered>>
        /\ Run("A", Without("A", m),
               IF b.invite \in {"CALLING", "PROCEEDING"}
               THEN notify_invite_response([b EXCEPT !.invite = Progress(m.code)], m)
               ELSE b)
  BY DEF ReceiveInviteResponse
<1>3. /\ Left("A", Without("A", m)) /\ ordered' = ordered /\ broken' \in BOOLEAN
      /\ m \in UnderWay("A") /\ m \in Message
  BY <1>1, <1>2, Delivered DEF TypeOK
<1>4. m.code # 0 /\ m.code \in Codes
  <2>1. m \in From("B")
    BY <1>3 DEF Base, Wire
  <2> QED
    BY <1>2, <1>3, <2>1 DEF From, Message, Codes
<1>5. Well("A", b, 0) /\ Onward(b, b)
  BY <1>1, Opens DEF Onward
<1> HIDE DEF b
<1>6. CASE b.invite \in {"CALLING", "PROCEEDING"}
  <2> DEFINE d == [b EXCEPT !.invite = Progress(m.code)]
             u == notify_invite_response(d, m)
  <2>1. /\ Well("A", d, IF m.code < 200 THEN 0 ELSE 2) /\ Onward(b, d)
        /\ d.dialog \notin {"CONFIRMED", "TERMINATED"}
        /\ (m.code >= 200 => ~Waiting(d)) /\ (m.code < 200 => Waiting(d))
    BY <1>4, <1>5, <1>6, ProgressWell
  <2> HIDE DEF d
  <2>2. Well("A", u, 0) /\ Onward(d, u)
    BY ONLY <1>2, <1>3, <1>4, <2>1, NotifyWell
  <2>3. Run("A", Without("A", m), u)
    BY <1>2, <1>6 DEF d
  <2> HIDE DEF u
  <2>4. Onward(b, u) /\ b.invite # "NONE"
    BY <1>6, <2>1, <2>2 DEF Onward
  <2> QED
    BY <1>1, <1>3, <2>2, <2>3, <2>4, StepWell DEF b
<1>7. CASE b.invite \notin {"CALLING", "PROCEEDING"}
  BY <1>1, <1>2, <1>3, <1>5, <1>7, StepWell DEF b
<1> QED
  BY <1>6, <1>7

\* The CANCEL's transaction ends, which gives back the BYE kept for that.
LEMMA OverWell ==
    ASSUME NEW d, Well("A", d, 0), d.cancel = "TRYING"
    PROVE  LET u == [d EXCEPT !.cancel = "OVER"] IN
           /\ Well("A", u, 0 + 1) /\ Onward(d, u) /\ u.invite # "NONE"
<1> DEFINE u == [d EXCEPT !.cancel = "OVER"]
<1>1. d \in Open
  BY DEF Well
<1>2. /\ u \in Open /\ u.invite = d.invite /\ u.cancel = "OVER"
      /\ u.byes = d.byes /\ u.sent = d.sent /\ u.pending = d.pending
      /\ u.dialog = d.dialog /\ u.previous = d.previous /\ u.owned = d.owned
      /\ u.needsAck = d.needsAck /\ u.retrans = d.retrans
      /\ u.deferred = d.deferred /\ u.op = d.op /\ u.heard = d.heard
      /\ u.hungUp = d.hungUp /\ u.late = d.late /\ u.out = d.out
  BY <1>1 DEF Open
<1> HIDE DEF u
<1>3. Fine("A", u)
  BY <1>2 DEF Well, Fine, Silent, Owned, Caller, Callee, Waiting, GivenUp
<1>4. u.sent + Chances("A", u) + (0 + 1) <= MaxByes
  <2>1. Chances("A", u) + 1 = Chances("A", d) /\ Chances("A", u) \in Nat
    BY <1>2 DEF Chances, Waiting
  <2>2. d.sent + Chances("A", d) + 0 <= MaxByes /\ d.sent \in Nat
    BY <1>1 DEF Well, Open
  <2> QED
    BY <1>2, <2>1, <2>2 DEF MaxByes
<1> QED
  BY <1>2, <1>3, <1>4 DEF u, Well, Onward, Fine, Caller

\* An answer to the CANCEL.
LEMMA CancelResponseMoves ==
    ASSUME Base, ReceiveCancelResponse PROVE Moved("A")
<1> DEFINE b == Begin("A")
           d == [b EXCEPT !.cancel = "OVER"]
<1>1. "A" \in Side /\ TypeOK /\ 0 \in Nat
  BY DEF Side, Base
<1>2. PICK m \in Deliverable("A") :
        /\ m.method = "CANCEL" /\ UNCHANGED <<broken, ordered>>
        /\ Run("A", Without("A", m), IF b.cancel = "TRYING"
                                     THEN call_process_response(d, m) ELSE b)
  BY DEF ReceiveCancelResponse
<1>3. /\ Left("A", Without("A", m)) /\ ordered' = ordered /\ broken' \in BOOLEAN
      /\ m \in Message
  BY <1>1, <1>2, Delivered DEF TypeOK
<1>4. Well("A", b, 0) /\ Onward(b, b) /\ b.invite # "NONE"
  BY <1>1, Opens DEF Onward, Well, Fine, Caller
<1> HIDE DEF b
<1>5. CASE b.cancel = "TRYING"
  <2> DEFINE u == call_process_response(d, m)
  <2>1. Well("A", d, 0 + 1) /\ Onward(b, d) /\ d.invite # "NONE"
    BY <1>4, <1>5, OverWell
  <2>2. Run("A", Without("A", m), u)
    BY <1>2, <1>5
  <2> HIDE DEF d
  <2>3. Well("A", d, 0)
    BY <1>1, <2>1, LessWell
  <2>4. Well("A", u, 0) /\ Onward(d, u)
    BY <1>1, <1>3, <2>1, <2>3, ProcessResponseWell
  <2> HIDE DEF u
  <2>5. Onward(b, u)
    BY <2>1, <2>4 DEF Onward
  <2> QED
    BY <1>1, <1>3, <1>4, <2>2, <2>4, <2>5, StepWell DEF b
<1>6. CASE b.cancel # "TRYING"
  BY <1>1, <1>2, <1>3, <1>4, <1>6, StepWell DEF b
<1> QED
  BY <1>5, <1>6

\* The CANCEL is not answered.
LEMMA CancelTimeoutMoves == ASSUME Base, CancelTimeout PROVE Moved("A")
<1> DEFINE b == Begin("A")
           d == [b EXCEPT !.cancel = "OVER"]
           u == call_process_failure(d)
<1>1. "A" \in Side /\ TypeOK /\ 0 \in Nat
  BY DEF Side, Base
<1>2. /\ end["A"].cancel = "TRYING" /\ Run("A", net["A"], u)
      /\ UNCHANGED <<broken, ordered>>
  BY DEF CancelTimeout
<1>3. Left("A", net["A"]) /\ ordered' = ordered /\ broken' \in BOOLEAN
  BY <1>1, <1>2, Delivered DEF TypeOK
<1>4. Well("A", b, 0) /\ b.invite # "NONE" /\ b.cancel = "TRYING"
  BY <1>1, <1>2, Opens DEF Well, Fine, Caller, Agrees
<1> HIDE DEF b
<1>5. Well("A", d, 0 + 1) /\ Onward(b, d) /\ d.invite # "NONE"
  BY <1>4, OverWell
<1> HIDE DEF d
<1>6. Well("A", d, 0)
  BY <1>1, <1>5, LessWell
<1>7. Well("A", u, 0) /\ Onward(d, u)
  BY <1>1, <1>5, <1>6, FailureWell
<1> HIDE DEF u
<1>8. Onward(b, u)
  BY <1>5, <1>7 DEF Onward
<1> QED
  BY <1>1, <1>2, <1>3, <1>4, <1>7, <1>8, StepWell DEF b

\* The INVITE is not answered.
LEMMA InviteTimeoutMoves == ASSUME Base, InviteTimeout PROVE Moved("A")
<1> DEFINE b == Begin("A")
           d == [b EXCEPT !.invite = "TERMINATED"]
           u == call_process_failure(d)
<1>1. "A" \in Side /\ TypeOK /\ 0 \in Nat
  BY DEF Side, Base
<1>2. Run("A", net["A"], u) /\ UNCHANGED <<broken, ordered>>
  BY DEF InviteTimeout
<1>3. Left("A", net["A"]) /\ ordered' = ordered /\ broken' \in BOOLEAN
  BY <1>1, <1>2, Delivered DEF TypeOK
<1>4. Well("A", b, 0) /\ b \in Open /\ b.invite # "NONE"
  BY <1>1, Opens DEF Well, Fine, Caller
<1> HIDE DEF b
<1>5. /\ d \in Open /\ d.invite = "TERMINATED" /\ d.cancel = b.cancel
      /\ d.byes = b.byes /\ d.sent = b.sent /\ d.pending = b.pending
      /\ d.dialog = b.dialog /\ d.previous = b.previous /\ d.owned = b.owned
      /\ d.needsAck = b.needsAck /\ d.retrans = b.retrans
      /\ d.deferred = b.deferred /\ d.op = b.op /\ d.heard = b.heard
      /\ d.hungUp = b.hungUp /\ d.late = b.late /\ d.out = b.out
  <2>1. d \in Open
    BY ONLY <1>4 DEF Open
  <2> QED
    BY ONLY <1>4, <2>1 DEF Open
<1> HIDE DEF d
<1>6. Fine("A", d)
  BY <1>4, <1>5 DEF Well, Fine, Silent, Owned, Caller, Callee, Waiting, GivenUp
<1>7. d.sent + Chances("A", d) + 0 <= MaxByes
  <2>1. /\ Chances("A", d) \in Nat /\ Chances("A", b) \in Nat
        /\ Chances("A", d) <= Chances("A", b)
    BY <1>5 DEF Chances, Waiting
  <2>2. b.sent + Chances("A", b) + 0 <= MaxByes /\ b.sent \in Nat
    BY <1>4 DEF Well, Open
  <2> QED
    BY <1>5, <2>1, <2>2 DEF MaxByes
<1>8. Well("A", d, 0) /\ Onward(b, d) /\ d.invite # "NONE"
  BY <1>4, <1>5, <1>6, <1>7 DEF Well, Onward
<1>9. Well("A", u, 0) /\ Onward(d, u)
  BY <1>1, <1>8, FailureWell
<1> HIDE DEF u
<1>10. Onward(b, u)
  BY <1>8, <1>9 DEF Onward
<1> QED
  BY <1>1, <1>2, <1>3, <1>4, <1>9, <1>10, StepWell DEF b


\* The fields that no bound and no other condition is about.
LEMMA DeferredWell ==
    ASSUME NEW s \in Side, NEW d, Well(s, d, 0), d.invite # "NONE",
           NEW n \in 0..2
    PROVE  LET u == [d EXCEPT !.deferred = n] IN
           Well(s, u, 0) /\ Onward(d, u) /\ u.invite = d.invite
<1> DEFINE u == [d EXCEPT !.deferred = n]
<1>1. d \in Open
  BY DEF Well
<1>2. /\ u \in Open /\ u.invite = d.invite /\ u.cancel = d.cancel
      /\ u.byes = d.byes /\ u.sent = d.sent /\ u.pending = d.pending
      /\ u.dialog = d.dialog /\ u.previous = d.previous /\ u.owned = d.owned
      /\ u.needsAck = d.needsAck /\ u.retrans = d.retrans /\ u.deferred = n
      /\ u.op = d.op /\ u.heard = d.heard /\ u.hungUp = d.hungUp
      /\ u.late = d.late /\ u.out = d.out
  <2>1. u \in Open
    BY ONLY <1>1, n \in 0..2 DEF Open
  <2> QED
    BY ONLY <1>1, n \in 0..2, <2>1 DEF Open
<1> HIDE DEF u
<1>3. Fine(s, u)
  BY <1>2 DEF Well, Fine, Silent, Owned, Caller, Callee,
     Waiting, GivenUp
<1>4. u.sent + Chances(s, u) + 0 <= MaxByes
  BY <1>2 DEF Well, Chances, Waiting
<1> QED
  BY <1>2, <1>3, <1>4 DEF u, Well, Onward

\* A BYE is answered, or is no longer waited for.
LEMMA AnsweredWell ==
    ASSUME NEW s \in Side, NEW d, Well(s, d, 0), NEW t
    PROVE  LET u == [d EXCEPT !.byes = d.byes \ {t}] IN
           Well(s, u, 0) /\ Onward(d, u) /\ u.invite = d.invite
<1> DEFINE v == d.byes \ {t}
           u == [d EXCEPT !.byes = v]
<1>1. d \in Open /\ v \in SUBSET [id : 1..MaxByes, internal : BOOLEAN]
  BY DEF Well, Open
<1>2. d.byes = {} => v = {}
  OBVIOUS
<1> HIDE DEF v
<1>3. /\ u \in Open /\ u.invite = d.invite /\ u.cancel = d.cancel
      /\ u.byes = v /\ u.sent = d.sent /\ u.pending = d.pending
      /\ u.dialog = d.dialog /\ u.previous = d.previous /\ u.owned = d.owned
      /\ u.needsAck = d.needsAck /\ u.retrans = d.retrans
      /\ u.deferred = d.deferred /\ u.op = d.op /\ u.heard = d.heard
      /\ u.hungUp = d.hungUp /\ u.late = d.late /\ u.out = d.out
  <2>1. u \in Open
    BY ONLY <1>1 DEF Open
  <2> QED
    BY ONLY <1>1, <2>1 DEF Open
<1> HIDE DEF u
<1>4. Fine(s, u)
  BY <1>2, <1>3 DEF Well, Fine, Silent, Owned, Caller, Callee,
     Waiting, GivenUp
<1>5. u.sent + Chances(s, u) + 0 <= MaxByes
  BY <1>3 DEF Well, Chances, Waiting
<1> QED
  BY <1>3, <1>4, <1>5 DEF u, v, Well, Onward

\* The user of a call that is given up has hung it up.
LEMMA HungUpWell ==
    ASSUME NEW s \in Side, NEW d, Well(s, d, 0), GivenUp(d)
    PROVE  LET u == [d EXCEPT !.hungUp = TRUE] IN
           /\ Well(s, u, 0) /\ u.invite = d.invite
           /\ ~d.hungUp => Onward(d, u)
<1> DEFINE u == [d EXCEPT !.hungUp = TRUE]
<1>1. d \in Open
  BY DEF Well
<1>2. /\ u \in Open /\ u.invite = d.invite /\ u.cancel = d.cancel
      /\ u.byes = d.byes /\ u.sent = d.sent /\ u.pending = d.pending
      /\ u.dialog = d.dialog /\ u.previous = d.previous /\ u.owned = d.owned
      /\ u.needsAck = d.needsAck /\ u.retrans = d.retrans
      /\ u.deferred = d.deferred /\ u.op = d.op /\ u.heard = d.heard
      /\ u.hungUp /\ u.late = d.late /\ u.out = d.out
  <2>1. u \in Open
    BY ONLY <1>1 DEF Open
  <2> QED
    BY ONLY <1>1, <2>1 DEF Open
<1> HIDE DEF u
<1>3. Fine(s, u)
  BY <1>2 DEF Well, Fine, Silent, Owned, Caller, Callee,
     Waiting, GivenUp
<1>4. u.sent + Chances(s, u) + 0 <= MaxByes
  <2>1. /\ Chances(s, u) \in Nat /\ Chances(s, d) \in Nat
        /\ Chances(s, u) <= Chances(s, d)
    BY <1>1, <1>2 DEF Chances, Waiting
  <2>2. d.sent + Chances(s, d) + 0 <= MaxByes /\ d.sent \in Nat
    BY <1>1, <1>2 DEF Well, Open
  <2> QED
    BY <1>1, <1>2, <2>1, <2>2 DEF MaxByes
<1> QED
  BY <1>2, <1>3, <1>4 DEF u, Well, Onward

\* An operation that is not over is being ended.
LEMMA TerminatingWell ==
    ASSUME NEW s \in Side, NEW d, Well(s, d, 0), d.op # "Terminated",
           d.invite # "NONE"
    PROVE  LET u == [d EXCEPT !.op = "Terminating"] IN
           /\ Well(s, u, 0) /\ Onward(d, u) /\ u.invite = d.invite
           /\ u.hungUp = d.hungUp /\ GivenUp(u)
<1> DEFINE u == [d EXCEPT !.op = "Terminating"]
<1>1. d \in Open
  BY DEF Well
<1>2. /\ u \in Open /\ u.invite = d.invite /\ u.cancel = d.cancel
      /\ u.byes = d.byes /\ u.sent = d.sent /\ u.pending = d.pending
      /\ u.dialog = d.dialog /\ u.previous = d.previous /\ u.owned = d.owned
      /\ u.needsAck = d.needsAck /\ u.retrans = d.retrans
      /\ u.deferred = d.deferred /\ u.op = "Terminating"
      /\ u.heard = d.heard /\ u.hungUp = d.hungUp /\ u.late = d.late
      /\ u.out = d.out
  <2>1. u \in Open
    BY ONLY <1>1 DEF Open
  <2> QED
    BY ONLY <1>1, <2>1, SMTT(60) DEF Open
<1> HIDE DEF u
<1>3. Fine(s, u)
  BY <1>2 DEF Well, Fine, Silent, Owned, Caller, Callee,
     Waiting, GivenUp
<1>4. u.sent + Chances(s, u) + 0 <= MaxByes
  BY <1>2 DEF Well, Chances, Waiting
<1> QED
  BY <1>2, <1>3, <1>4 DEF u, Well, Onward, GivenUp

\* A BYE that is received ends the call.
LEMMA ByeRequestWell ==
    ASSUME NEW s \in Side, NEW d, Well(s, d, 0), NEW m \in Message
    PROVE  LET u == bye_request(d, m) IN
           /\ Well(s, u, 0) /\ Onward(d, u)
           /\ d.invite = "NONE" => u.invite = "NONE"
<1> DEFINE P(c) == Put(d, Response("BYE", m.id, c))
<1>1. 0 \in Nat /\ "terminated" \in Events
  BY DEF Events
<1>2. ASSUME NEW c \in {200, 481, 500}
      PROVE  /\ Well(s, P(c), 0) /\ Agrees(d, P(c)) /\ Onward(d, P(c))
             /\ P(c).invite = d.invite
  <2>1. Response("BYE", m.id, c) \in From(s)
    BY <1>2 DEF Response, Message, From
  <2> QED
    BY <1>1, <2>1, PutWell DEF Agrees
<1> HIDE DEF P
<1>3. d.dialog # "NONE" => d.invite # "NONE"
  BY <1>1, Begun
<1>4. CASE d.dialog \in {"NONE", "NULL", "TERMINATED"}
  <2>1. bye_request(d, m) = P(481)
    BY <1>4 DEF bye_request, P
  <2> QED
    BY <1>2, <2>1
<1>5. CASE d.dialog = "EARLY" /\ d.op # "Terminated"
  <2>1. bye_request(d, m) = P(500)
    BY <1>5 DEF bye_request, P
  <2> QED
    BY <1>2, <2>1
<1>6. CASE d.dialog = "CONFIRMED" /\ d.op # "Terminated"
  <2> DEFINE p == P(200)
             a == ByeAnswered(p)
             t == Tell(a, "terminated")
             u == [t EXCEPT !.op = "Terminating"]
  <2>1. bye_request(d, m) = u
    BY <1>6 DEF bye_request, P
  <2>2. /\ Well(s, p, 0) /\ Onward(d, p) /\ p.op # "Terminated"
        /\ p.invite # "NONE"
    BY <1>2, <1>3, <1>6 DEF Agrees
  <2> HIDE DEF p
  <2>3. /\ Well(s, a, 0) /\ Onward(p, a) /\ a.op = p.op /\ a.invite = p.invite
    BY <1>1, <2>2, ByeAnsweredWell
  <2> HIDE DEF a
  <2>4. a.op # "Terminated" /\ a.invite # "NONE"
    BY <2>2, <2>3
  <2>5. Well(s, t, 0) /\ Onward(a, t) /\ t.op = a.op /\ t.invite = a.invite
    BY ONLY <1>1, <2>3, <2>4, TellWell
  <2> HIDE DEF t
  <2>6. Well(s, u, 0) /\ Onward(t, u)
    BY <2>4, <2>5, TerminatingWell
  <2> HIDE DEF u
  <2>7. Onward(d, u)
    BY <2>2, <2>3, <2>5, <2>6 DEF Onward
  <2> QED
    BY <1>3, <1>6, <2>1, <2>6, <2>7
<1>7. CASE d.dialog \notin {"NONE", "NULL", "TERMINATED"} /\ d.op = "Terminated"
  <2>1. bye_request(d, m) = d
    BY <1>7 DEF bye_request
  <2> QED
    BY <2>1 DEF Onward
<1>8. d.dialog \in {"NONE", "NULL", "EARLY", "CONFIRMED", "TERMINATED"}
  BY DEF Well, Open
<1> QED
  BY <1>4, <1>5, <1>6, <1>7, <1>8

\* A BYE, which ends the dialog.
LEMMA ReceiveByeMoves ==
    ASSUME Base, NEW s \in Side, ReceiveBye(s) PROVE Moved(s)
<1> DEFINE b == Begin(s)
<1>1. TypeOK
  BY DEF Base
<1>2. PICK m \in Deliverable(s) :
        /\ Run(s, Without(s, m), bye_request(b, m)) /\ UNCHANGED <<broken, ordered>>
  BY DEF ReceiveBye
<1>3. /\ Left(s, Without(s, m)) /\ ordered' = ordered /\ broken' \in BOOLEAN
      /\ m \in Message
  BY <1>1, <1>2, Delivered DEF TypeOK
<1>4. Well(s, b, 0)
  BY Opens
<1> HIDE DEF b
<1> DEFINE u == bye_request(b, m)
<1>5. /\ Well(s, u, 0) /\ Onward(b, u) /\ (b.invite = "NONE" => u.invite = "NONE")
  BY <1>3, <1>4, ByeRequestWell
<1>6. Run(s, Without(s, m), u)
  BY <1>2
<1> HIDE DEF u
<1> QED
  BY <1>3, <1>5, <1>6, StepWell DEF b

\* An answer to a BYE.
LEMMA ByeResponseMoves ==
    ASSUME Base, NEW s \in Side, ReceiveByeResponse(s) PROVE Moved(s)
<1> DEFINE b == Begin(s)
           t(m) == CHOOSE t \in b.byes : t.id = m.id
           e(m) == [b EXCEPT !.byes = b.byes \ {t(m)}]
           a(m) == ByeAnswered(e(m))
<1>1. TypeOK /\ 0 \in Nat
  BY DEF Base
<1>2. PICK m \in Deliverable(s) :
        /\ m.method = "BYE" /\ UNCHANGED <<broken, ordered>>
        /\ Run(s, Without(s, m),
               IF \E i \in b.byes : i.id = m.id
               THEN IF t(m).internal THEN a(m) ELSE call_process_response(a(m), m)
               ELSE b)
  BY DEF ReceiveByeResponse
<1>3. /\ Left(s, Without(s, m)) /\ ordered' = ordered /\ broken' \in BOOLEAN
      /\ m \in Message
  BY <1>1, <1>2, Delivered DEF TypeOK
<1>4. Well(s, b, 0) /\ Onward(b, b)
  BY Opens DEF Onward
<1> HIDE DEF b
<1>5. CASE \E i \in b.byes : i.id = m.id
  <2> DEFINE i == t(m)
             d == e(m)
             u == a(m)
             v == call_process_response(u, m)
  <2>1. b.invite # "NONE"
    BY <1>1, <1>4, <1>5, Begun
  <2>2. Well(s, d, 0) /\ Onward(b, d) /\ d.invite = b.invite
    <3> HIDE DEF t
    <3> QED
      BY <1>4, AnsweredWell
  <2>3. Run(s, Without(s, m), u) \/ Run(s, Without(s, m), v)
    <3>1. CASE i.internal
      BY <1>2, <1>5, <3>1
    <3>2. CASE ~i.internal
      BY <1>2, <1>5, <3>2
    <3> QED
      BY <3>1, <3>2
  <2> HIDE DEF i, d, e, t
  <2>4. /\ Well(s, u, 0) /\ Onward(d, u) /\ u.dialog # "CONFIRMED"
        /\ u.invite = d.invite
    BY <1>1, <2>2, ByeAnsweredWell DEF d
  <2> HIDE DEF u, a
  <2>5. Well(s, v, 0) /\ Onward(u, v)
    BY <1>1, <1>2, <1>3, <2>1, <2>2, <2>4, ProcessResponseWell
  <2> HIDE DEF v
  <2>6. Onward(b, u) /\ Onward(b, v)
    BY <2>2, <2>4, <2>5 DEF Onward
  <2>7. CASE Run(s, Without(s, m), u)
    BY <1>3, <2>1, <2>4, <2>6, <2>7, StepWell DEF b
  <2>8. CASE Run(s, Without(s, m), v)
    BY <1>3, <2>1, <2>5, <2>6, <2>8, StepWell DEF b
  <2> QED
    BY <2>3, <2>7, <2>8
<1>6. CASE ~\E i \in b.byes : i.id = m.id
  BY <1>2, <1>3, <1>4, <1>6, StepWell DEF b
<1> QED
  BY <1>5, <1>6


\* A hang-up sends its BYE or CANCEL, or is remembered.
LEMMA TerminateWell ==
    ASSUME NEW s \in Side, NEW d, Well(s, d, 0), ~d.hungUp,
           d.op \in {"Early", "Active"}, d.dialog # "TERMINATED",
           s = "B" => d.dialog = "CONFIRMED"
    PROVE  LET u == [sal_call_terminate(d) EXCEPT !.hungUp = TRUE] IN
           Well(s, u, 0) /\ Onward(d, u)
<1> DEFINE z == sal_call_terminate(d)
           u == [z EXCEPT !.hungUp = TRUE]
<1>1. /\ d \in Open /\ d.out \in Seq(From(s)) /\ 0 \in Nat
      /\ d.invite # "NONE" /\ "released" \notin d.heard
  <2>1. d.dialog # "NONE" => d.invite # "NONE"
    BY Begun
  <2> QED
    BY <2>1 DEF Well, Fine, Silent, Caller, Side
<1>2. CASE d.dialog = "CONFIRMED"
  <2> DEFINE t == [id |-> d.sent + 1, internal |-> FALSE]
             b == Bye(d, t)
             g == [b EXCEPT !.op = "Terminating"]
             e == [g EXCEPT !.pending = "BYE"]
  <2>1. z = e
    BY <1>2 DEF sal_call_terminate, send_bye, Bye
  <2>2. t \in Byes(d)
    BY DEF Byes
  <2> HIDE DEF t
  <2>3. /\ d.sent + Chances(s, d) + 0 <= MaxByes /\ d.sent \in Nat
        /\ Chances(s, d) \in Nat /\ Chances(s, d) >= 1
    BY <1>1 DEF Well, Open, Chances
  <2>4. d.sent < MaxByes
    BY <2>3 DEF MaxByes
  <2>5. /\ b \in Open /\ b.out \in Seq(From(s))
        /\ b.invite = d.invite /\ b.cancel = d.cancel
        /\ b.sent = d.sent + 1 /\ b.pending = d.pending
        /\ b.dialog = d.dialog /\ b.owned = d.owned
        /\ b.needsAck = d.needsAck /\ b.retrans = d.retrans
        /\ b.deferred = d.deferred /\ b.op = d.op
        /\ b.heard = d.heard /\ b.hungUp = d.hungUp /\ b.late = d.late
    BY <1>1, <2>2, <2>4, ByeOpen
  <2> HIDE DEF b
  <2>6. b \in Open
    BY <2>5
  <2>7. /\ g \in Open /\ g.invite = b.invite /\ g.cancel = b.cancel
         /\ g.byes = b.byes /\ g.sent = b.sent /\ g.pending = b.pending
         /\ g.dialog = b.dialog /\ g.previous = b.previous
         /\ g.owned = b.owned /\ g.needsAck = b.needsAck
         /\ g.retrans = b.retrans /\ g.deferred = b.deferred
         /\ g.op = "Terminating" /\ g.heard = b.heard /\ g.hungUp = b.hungUp
         /\ g.late = b.late /\ g.out = b.out
    <3>1. g \in Open
      BY ONLY <2>6 DEF Open
    <3> QED
      BY ONLY <2>6, <3>1, SMTT(60) DEF Open
  <2> HIDE DEF g
  <2>8. /\ e \in Open /\ e.invite = g.invite /\ e.cancel = g.cancel
        /\ e.byes = g.byes /\ e.sent = g.sent /\ e.pending = "BYE"
        /\ e.dialog = g.dialog /\ e.previous = g.previous
        /\ e.owned = g.owned /\ e.needsAck = g.needsAck
        /\ e.retrans = g.retrans /\ e.deferred = g.deferred /\ e.op = g.op
        /\ e.heard = g.heard /\ e.hungUp = g.hungUp /\ e.late = g.late
        /\ e.out = g.out
    <3>1. e \in Open
      BY ONLY <2>7 DEF Open
    <3> QED
      BY ONLY <2>7, <3>1, SMTT(60) DEF Open
  <2> HIDE DEF e, z
  <2>9. e \in Open /\ u = [e EXCEPT !.hungUp = TRUE]
    BY <2>1, <2>8
  <2> HIDE DEF u
  <2> DEFINE v == [e EXCEPT !.hungUp = TRUE]
  <2>10. /\ v \in Open /\ v.invite = e.invite /\ v.cancel = e.cancel
        /\ v.byes = e.byes /\ v.sent = e.sent /\ v.pending = e.pending
        /\ v.dialog = e.dialog /\ v.previous = e.previous
        /\ v.owned = e.owned /\ v.needsAck = e.needsAck
        /\ v.retrans = e.retrans /\ v.deferred = e.deferred /\ v.op = e.op
        /\ v.heard = e.heard /\ v.hungUp /\ v.late = e.late /\ v.out = e.out
    <3>1. v \in Open
      BY ONLY <2>9 DEF Open
    <3> QED
      BY ONLY <2>9, <3>1, ZenonT(90) DEF Open
  <2> HIDE DEF v
  <2>11. Fine(s, v)
    BY <1>1, <1>2, <2>5, <2>7, <2>8, <2>10 DEF Well, Fine, Silent, Owned, Caller, Callee,
     Waiting, GivenUp
  <2>12. v.sent + Chances(s, v) + 0 <= MaxByes
    <3>1. Chances(s, v) + 1 = Chances(s, d) /\ Chances(s, v) \in Nat
      BY <1>1, <2>5, <2>7, <2>8, <2>10 DEF Chances, Waiting
    <3> QED
      BY <2>3, <2>5, <2>7, <2>8, <2>10, <3>1 DEF MaxByes
  <2>13. Well(s, v, 0) /\ Onward(d, v)
    BY <2>5, <2>7, <2>8, <2>10, <2>11, <2>12 DEF Well, Onward
  <2> QED
    <3>1. Well(s, u, 0) /\ Onward(d, u)
      BY <2>9, <2>13 DEF v
    <3> QED
      BY <3>1 DEF u, z
<1>3. CASE /\ d.dialog # "CONFIRMED"
           /\ d.dialog = "EARLY" \/ d.invite = "PROCEEDING"
  <2> DEFINE e == cancelling_invite(d)
  <2>1. z = e
    BY <1>3 DEF sal_call_terminate
  <2>2. s = "A" /\ d.cancel = "NONE" /\ d.op # "Terminated"
    BY <1>1, <1>3 DEF Well, Fine, Caller, GivenUp, Side
  <2>3. /\ Well(s, e, 0) /\ Onward(d, e) /\ e.hungUp = d.hungUp /\ GivenUp(e)
    BY <1>1, <2>2, CancelWell
  <2> HIDE DEF e, z
  <2>4. /\ Well(s, [e EXCEPT !.hungUp = TRUE], 0)
        /\ Onward(e, [e EXCEPT !.hungUp = TRUE])
    BY <2>3, HungUpWell
  <2>5. u = [e EXCEPT !.hungUp = TRUE]
    BY <2>1
  <2> HIDE DEF u
  <2>6. Well(s, u, 0) /\ Onward(d, u)
    BY <2>3, <2>4, <2>5 DEF Onward
  <2> QED
    BY <2>6 DEF u, z
<1>4. CASE d.dialog \notin {"CONFIRMED", "EARLY"} /\ d.invite # "PROCEEDING"
  <2> DEFINE e == [d EXCEPT !.op = "Terminating"]
  <2>1. z = e
    BY <1>4 DEF sal_call_terminate
  <2>2. d.op # "Terminated"
    OBVIOUS
  <2>3. /\ Well(s, e, 0) /\ Onward(d, e) /\ e.hungUp = d.hungUp /\ GivenUp(e)
    BY <1>1, <2>2, TerminatingWell
  <2> HIDE DEF e, z
  <2>4. /\ Well(s, [e EXCEPT !.hungUp = TRUE], 0)
        /\ Onward(e, [e EXCEPT !.hungUp = TRUE])
    BY <2>3, HungUpWell
  <2>5. u = [e EXCEPT !.hungUp = TRUE]
    BY <2>1
  <2> HIDE DEF u
  <2>6. Well(s, u, 0) /\ Onward(d, u)
    BY <2>3, <2>4, <2>5 DEF Onward
  <2> QED
    BY <2>6 DEF u, z
<1> QED
  BY <1>2, <1>3, <1>4

\* The user hangs up, at any moment.
LEMMA HangUpMoves == ASSUME Base, NEW s \in Side, HangUp(s) PROVE Moved(s)
<1> DEFINE b == Begin(s)
           u == [sal_call_terminate(b) EXCEPT !.hungUp = TRUE]
<1>1. TypeOK
  BY DEF Base
<1>2. /\ end[s].op \in {"Early", "Active"} /\ ~end[s].hungUp
      /\ end[s].dialog # "TERMINATED"
      /\ s = "B" => end[s].dialog = "CONFIRMED"
      /\ Run(s, net[s], u) /\ UNCHANGED <<broken, ordered>>
  BY DEF HangUp
<1>3. Left(s, net[s]) /\ ordered' = ordered /\ broken' \in BOOLEAN
  BY <1>1, <1>2, Delivered DEF TypeOK
<1>4. /\ Well(s, b, 0) /\ b.op \in {"Early", "Active"} /\ ~b.hungUp
      /\ b.dialog # "TERMINATED" /\ (s = "B" => b.dialog = "CONFIRMED")
  BY <1>2, Opens DEF Agrees
<1> HIDE DEF b
<1>5. Well(s, u, 0) /\ Onward(b, u)
  BY <1>4, TerminateWell
<1>6. b.invite # "NONE"
  <2>1. b.dialog # "NONE" => b.invite # "NONE"
    BY <1>4, Begun
  <2> QED
    BY <1>4, <2>1 DEF Well, Fine, Caller, Side
<1> HIDE DEF u
<1> QED
  BY <1>2, <1>3, <1>5, <1>6, StepWell DEF b

\* The deferred notice that the dialog is over.
LEMMA DialogTerminatedMoves ==
    ASSUME Base, NEW s \in Side, process_dialog_terminated(s) PROVE Moved(s)
<1> DEFINE b == Begin(s)
           t == Tell(b, "terminated")
           x == [b EXCEPT !.deferred = 0]
           y == [b EXCEPT !.deferred = 1]
           z == [t EXCEPT !.deferred = 1, !.op = "Terminating"]
           ends == /\ b.owned /\ b.previous = "CONFIRMED"
                   /\ b.op \notin {"Terminating", "Terminated"}
<1>1. TypeOK /\ 0 \in Nat /\ 0 \in 0..2 /\ 1 \in 0..2 /\ "terminated" \in Events
  BY DEF Base, Events
<1>2. /\ b.deferred = 2 /\ UNCHANGED <<broken, ordered>>
      /\ \/ Run(s, net[s], x)
         \/ Run(s, net[s], y)
         \/ ends /\ Run(s, net[s], z)
  <2>1. /\ b.deferred = 2 /\ UNCHANGED <<broken, ordered>>
        /\ Run(s, net[s], CASE ~b.owned -> x [] ends -> z [] OTHER -> y)
    BY DEF process_dialog_terminated
  <2>2. CASE ~b.owned
    <3>1. (CASE ~b.owned -> x [] ends -> z [] OTHER -> y) = x
      BY <2>2
    <3> HIDE DEF x, y, z, ends
    <3> QED
      BY <2>1, <3>1
  <2>3. CASE ends
    <3>1. (CASE ~b.owned -> x [] ends -> z [] OTHER -> y) = z
      BY <2>3
    <3> HIDE DEF x, y, z, ends
    <3> QED
      BY <2>1, <2>3, <3>1
  <2>4. CASE b.owned /\ ~ends
    <3>1. (CASE ~b.owned -> x [] ends -> z [] OTHER -> y) = y
      BY <2>4
    <3> HIDE DEF x, y, z, ends
    <3> QED
      BY <2>1, <3>1
  <2> QED
    BY <2>2, <2>3, <2>4
<1>3. Left(s, net[s]) /\ ordered' = ordered /\ broken' \in BOOLEAN
  BY <1>1, <1>2, Delivered DEF TypeOK
<1>4. Well(s, b, 0)
  BY Opens
<1> HIDE DEF b
<1>5. b.invite # "NONE"
  BY <1>1, <1>2, <1>4, Begun
<1>6. CASE Run(s, net[s], x)
  <2>1. Well(s, x, 0) /\ Onward(b, x)
    BY <1>1, <1>4, <1>5, DeferredWell
  <2> HIDE DEF x
  <2> QED
    BY <1>3, <1>5, <1>6, <2>1, StepWell DEF b
<1>7. CASE Run(s, net[s], y)
  <2>1. Well(s, y, 0) /\ Onward(b, y)
    BY <1>1, <1>4, <1>5, DeferredWell
  <2> HIDE DEF y
  <2> QED
    BY <1>3, <1>5, <1>7, <2>1, StepWell DEF b
<1>8. CASE ends /\ Run(s, net[s], z)
  <2> DEFINE d == [t EXCEPT !.deferred = 1]
             u == [d EXCEPT !.op = "Terminating"]
  <2>1. b.op # "Terminated"
    BY <1>8
  <2>2. /\ Well(s, t, 0) /\ Onward(b, t) /\ t.op = b.op /\ t.invite = b.invite
    BY <1>1, <1>4, <1>5, <2>1, TellWell
  <2> HIDE DEF t
  <2>3. t \in Open
    BY <2>2 DEF Well
  <2>4. Well(s, d, 0) /\ Onward(t, d) /\ d.invite = t.invite
    BY <1>1, <1>5, <2>2, DeferredWell
  <2>5. d.op = t.op
    BY <2>3 DEF Open
  <2>6. z = u
    BY <2>3 DEF Open
  <2> HIDE DEF d, z
  <2>7. Well(s, u, 0) /\ Onward(d, u)
    BY <1>5, <2>1, <2>2, <2>4, <2>5, TerminatingWell
  <2> HIDE DEF u
  <2>8. Onward(b, u)
    BY <2>2, <2>4, <2>7 DEF Onward
  <2> QED
    BY <1>3, <1>5, <1>8, <2>6, <2>7, <2>8, StepWell DEF b
<1> QED
  BY <1>2, <1>6, <1>7, <1>8

\* The deferred release of the operation.
LEMMA SetReleasedMoves ==
    ASSUME Base, NEW s \in Side, call_set_released_and_unref(s) PROVE Moved(s)
<1> DEFINE b == Begin(s)
           d == call_set_released(b)
           u == [d EXCEPT !.deferred = 0]
<1>1. TypeOK /\ 0 \in Nat /\ 0 \in 0..2
  BY DEF Base
<1>2. end[s].deferred = 1 /\ Run(s, net[s], u) /\ UNCHANGED <<broken, ordered>>
  BY DEF call_set_released_and_unref
<1>3. Left(s, net[s]) /\ ordered' = ordered /\ broken' \in BOOLEAN
  BY <1>1, <1>2, Delivered DEF TypeOK
<1>4. Well(s, b, 0) /\ b.deferred = 1
  BY <1>2, Opens DEF Agrees
<1> HIDE DEF b
<1>5. b.invite # "NONE"
  BY <1>1, <1>4, Begun
<1>6. Well(s, d, 0) /\ Onward(b, d) /\ d.invite = b.invite
  BY <1>1, <1>4, <1>5, ReleaseWell
<1> HIDE DEF d
<1>7. Well(s, u, 0) /\ Onward(d, u)
  BY <1>1, <1>5, <1>6, DeferredWell
<1> HIDE DEF u
<1>8. Onward(b, u)
  BY <1>6, <1>7 DEF Onward
<1> QED
  BY <1>2, <1>3, <1>5, <1>7, <1>8, StepWell DEF b

\* A BYE is not answered.
LEMMA ByeTimeoutMoves == ASSUME Base, NEW s \in Side, ByeTimeout(s) PROVE Moved(s)
<1> DEFINE b == Begin(s)
           d(t) == [b EXCEPT !.byes = b.byes \ {t}]
           u(t) == call_process_failure(d(t))
<1>1. TypeOK /\ 0 \in Nat
  BY DEF Base
<1>2. PICK t \in end[s].byes :
        /\ Run(s, net[s], IF t.internal THEN d(t) ELSE u(t))
        /\ UNCHANGED <<broken, ordered>>
  BY DEF ByeTimeout
<1>3. Left(s, net[s]) /\ ordered' = ordered /\ broken' \in BOOLEAN
  BY <1>1, <1>2, Delivered DEF TypeOK
<1>4. Well(s, b, 0) /\ b.byes # {}
  BY <1>2, Opens DEF Agrees
<1> HIDE DEF b
<1>5. b.invite # "NONE"
  BY <1>1, <1>4, Begun
<1> DEFINE e == d(t)
           v == u(t)
<1>6. Well(s, e, 0) /\ Onward(b, e) /\ e.invite = b.invite
  BY <1>4, AnsweredWell
<1>7. Run(s, net[s], e) \/ Run(s, net[s], v)
  BY <1>2
<1> HIDE DEF d, e
<1>8. Well(s, v, 0) /\ Onward(e, v)
  BY <1>1, <1>5, <1>6, FailureWell DEF e
<1> HIDE DEF u, v
<1>9. Onward(b, v)
  BY <1>6, <1>8 DEF Onward
<1>10. CASE Run(s, net[s], e)
  BY <1>3, <1>5, <1>6, <1>10, StepWell DEF b
<1>11. CASE Run(s, net[s], v)
  BY <1>3, <1>5, <1>8, <1>9, <1>11, StepWell DEF b
<1> QED
  BY <1>7, <1>10, <1>11

\* The connection is lost, with the transactions on it.
LEMMA ConnectionLostMoves ==
    ASSUME Base, NEW s \in Side, ConnectionLost(s) PROVE Moved(s)
<1> DEFINE b == Begin(s)
           i == IF s = "A" THEN "TERMINATED" ELSE b.invite
           c == IF b.cancel = "TRYING" THEN "OVER" ELSE b.cancel
           d == [b EXCEPT !.invite = i, !.cancel = c, !.byes = {}]
           u == call_process_failure(d)
<1>1. TypeOK /\ 0 \in Nat
  BY DEF Base
<1>2. /\ ordered /\ (s = "B" => b.invite # "NONE") /\ broken' = TRUE
      /\ UNCHANGED ordered
      /\ Run(s, <<>>, u) \/ Run(s, <<>>, d)
  <2> DEFINE told == \/ s = "A" /\ b.invite \in {"INIT", "CALLING", "PROCEEDING"}
                     \/ b.cancel = "TRYING"
                     \/ \E t \in b.byes : ~t.internal
             over == [b EXCEPT !.invite = IF s = "A" THEN "TERMINATED" ELSE b.invite,
                               !.cancel = IF b.cancel = "TRYING" THEN "OVER"
                                          ELSE b.cancel,
                               !.byes = {}]
  <2>1. /\ ordered /\ (s = "B" => b.invite # "NONE") /\ broken' = TRUE
        /\ UNCHANGED ordered
        /\ Run(s, <<>>, IF told THEN call_process_failure(over) ELSE over)
    BY DEF ConnectionLost
  <2>2. over = d
    OBVIOUS
  <2> HIDE DEF told, over, d
  <2>3. CASE told
    BY <2>1, <2>2, <2>3
  <2>4. CASE ~told
    BY <2>1, <2>2, <2>4
  <2> QED
    BY <2>3, <2>4
<1>3. Left(s, <<>>) /\ ordered' = ordered /\ broken' \in BOOLEAN
  <2>1. <<>> \in Seq(Message)
    OBVIOUS
  <2> QED
    BY <1>2, <2>1 DEF Left, Inbox
<1>4. Well(s, b, 0) /\ b \in Open
  BY Opens
<1> HIDE DEF b
<1>5. b.invite # "NONE"
  BY <1>2, <1>4 DEF Well, Fine, Caller, Side
<1>6. /\ i \in {"NONE", "INIT", "CALLING", "PROCEEDING", "ACCEPTED", "COMPLETED",
                "TERMINATED"}
      /\ c \in {"NONE", "TRYING", "OVER"}
      /\ s = "A" => i = "TERMINATED"
      /\ s = "B" => i = b.invite
      /\ b.cancel = "NONE" <=> c = "NONE"
      /\ b.cancel = "OVER" => c = "OVER"
      /\ i # "NONE" /\ (i = "INIT" => s # "A")
  BY <1>4, <1>5 DEF Open, Side
<1>7. {} \in SUBSET [id : 1..MaxByes, internal : BOOLEAN]
  OBVIOUS
<1> HIDE DEF i, c
<1>8. /\ d \in Open /\ d.invite = i /\ d.cancel = c /\ d.byes = {}
      /\ d.sent = b.sent /\ d.pending = b.pending /\ d.dialog = b.dialog
      /\ d.previous = b.previous /\ d.owned = b.owned
      /\ d.needsAck = b.needsAck /\ d.retrans = b.retrans
      /\ d.deferred = b.deferred /\ d.op = b.op /\ d.heard = b.heard
      /\ d.hungUp = b.hungUp /\ d.late = b.late /\ d.out = b.out
  <2>1. d \in Open
    BY ONLY <1>4, <1>6, <1>7, ZenonT(90) DEF Open
  <2> QED
    BY ONLY <1>4, <1>6, <1>7, <2>1 DEF Open
<1> HIDE DEF d
<1>9. Fine(s, d)
  BY <1>4, <1>5, <1>6, <1>8 DEF Well, Fine, Silent, Owned, Caller, Callee,
     Waiting, GivenUp
<1>10. d.sent + Chances(s, d) + 0 <= MaxByes
  <2>1. /\ Chances(s, d) \in Nat /\ Chances(s, b) \in Nat
        /\ Chances(s, d) <= Chances(s, b)
    <3>1. CASE s = "A"
      BY <1>6, <1>8, <3>1 DEF Chances, Waiting
    <3>2. CASE s = "B"
      BY <1>6, <1>8, <3>2 DEF Chances
    <3> QED
      BY <3>1, <3>2 DEF Side
  <2>2. b.sent + Chances(s, b) + 0 <= MaxByes /\ b.sent \in Nat
    BY <1>4, <1>6, <1>8 DEF Well, Open
  <2> QED
    BY <1>4, <1>6, <1>8, <2>1, <2>2 DEF MaxByes
<1>11. Onward(b, d)
  BY <1>6, <1>8 DEF Onward, Side
<1>12. Well(s, d, 0)
  BY <1>4, <1>8, <1>9, <1>10 DEF Well
<1>13. Well(s, u, 0) /\ Onward(d, u)
  BY <1>1, <1>6, <1>8, <1>12, FailureWell
<1> HIDE DEF u
<1>14. Onward(b, u)
  BY <1>11, <1>13 DEF Onward
<1>15. CASE Run(s, <<>>, u)
  BY <1>3, <1>5, <1>13, <1>14, <1>15, StepWell DEF b
<1>16. CASE Run(s, <<>>, d)
  BY <1>3, <1>5, <1>11, <1>12, <1>16, StepWell DEF b
<1> QED
  BY <1>2, <1>15, <1>16


-----------------------------------------------------------------------------
(* The theorems.                                                           *)

\* The caller waits for its channel, and the callee for the INVITE.
LEMMA InitBase == Init => Base
<1> SUFFICES ASSUME Init PROVE Base
  OBVIOUS
<1> DEFINE a == [NewEnd EXCEPT !.invite = "INIT", !.op = "Early"]
<1>1. NewEnd \in End /\ a \in End
  <2>1. {} \in SUBSET Events /\ {} \in SUBSET [id : 1..MaxByes, internal : BOOLEAN]
    OBVIOUS
  <2>2. 0 \in 0..MaxByes /\ 0 \in 0..2
    BY DEF MaxByes
  <2>3. NewEnd \in End
    BY <2>1, <2>2 DEF NewEnd, End
  <2>4. a \in End
    <3> DEFINE b == [NewEnd EXCEPT !.invite = "INIT"]
    <3>1. b \in End
      BY ONLY <2>3 DEF End
    <3>2. a = [b EXCEPT !.op = "Early"]
      OBVIOUS
    <3> HIDE DEF a, b
    <3> QED
      BY ONLY <3>1, <3>2 DEF End
  <2> QED
    BY <2>3, <2>4
<1>2. end["A"] = a /\ end["B"] = NewEnd
  BY DEF Init, Side
<1>3. TypeOK
  <2>1. end \in [Side -> End]
    BY <1>1 DEF Init
  <2>2. net \in [Side -> IF ordered THEN Seq(Message) ELSE SUBSET Message]
    <3>1. <<>> \in Seq(Message) /\ {} \in SUBSET Message
      OBVIOUS
    <3>2. CASE ordered
      BY <3>1, <3>2 DEF Init
    <3>3. CASE ~ordered
      BY <3>1, <3>3 DEF Init
    <3> QED
      BY <3>2, <3>3
  <2> QED
    BY <2>1, <2>2 DEF Init, TypeOK
<1>4. Sane("B", NewEnd)
  BY DEF Sane, Fine, Silent, Owned, Caller, Callee, Chances, NewEnd, MaxByes
<1>5. Sane("A", a)
  <2>1. /\ a.invite = "INIT" /\ a.op = "Early" /\ a.cancel = "NONE"
        /\ a.sent = 0 /\ a.pending = "INVITE" /\ a.dialog = "NONE"
        /\ ~a.needsAck /\ ~a.retrans /\ a.heard = {} /\ ~a.hungUp /\ ~a.late
    BY DEF NewEnd
  <2> HIDE DEF a
  <2> QED
    BY <2>1 DEF Sane, Fine, Silent, Owned, Caller, Callee, Waiting, GivenUp,
       Chances, MaxByes
<1>6. \A s \in Side : UnderWay(s) = {}
  BY DEF Init, UnderWay, ToSet
<1>7. Wire
  <2>1. ordered => net["B"] = <<>>
    BY DEF Init, Side
  <2>2. end["B"].invite = "NONE"
    BY <1>2 DEF NewEnd
  <2> QED
    BY <1>6, <2>1, <2>2 DEF Wire, Side
<1> HIDE DEF a
<1> QED
  BY <1>2, <1>3, <1>4, <1>5, <1>7 DEF Base, Side

\* Every step is one of an end that keeps the invariant.
LEMMA NextMoves == ASSUME Base, Next PROVE Moves
<1>1. CASE ChannelReady
  BY <1>1, ChannelReadyMoves DEF Moves
<1>2. CASE ReceiveInviteResponse
  BY <1>2, InviteResponseMoves DEF Moves
<1>3. CASE ReceiveCancelResponse
  BY <1>3, CancelResponseMoves DEF Moves
<1>4. CASE ReceiveInvite
  BY <1>4, ReceiveInviteMoves DEF Moves
<1>5. CASE sal_call_notify_ringing
  BY <1>5, RingingMoves DEF Moves
<1>6. CASE sal_call_accept
  BY <1>6, AcceptMoves DEF Moves
<1>7. CASE sal_call_decline
  BY <1>7, DeclineMoves DEF Moves
<1>8. CASE ReceiveCancel
  BY <1>8, ReceiveCancelMoves DEF Moves
<1>9. CASE ReceiveAck
  BY <1>9, ReceiveAckMoves DEF Moves
<1>10. CASE dialog_on_200Ok_end
  BY <1>10, OkEndMoves DEF Moves
<1>11. CASE InviteTimeout
  BY <1>11, InviteTimeoutMoves DEF Moves
<1>12. CASE CancelTimeout
  BY <1>12, CancelTimeoutMoves DEF Moves
<1>13. ASSUME NEW s \in Side,
              \/ ReceiveBye(s) \/ ReceiveByeResponse(s) \/ HangUp(s)
              \/ process_dialog_terminated(s) \/ call_set_released_and_unref(s)
              \/ ByeTimeout(s) \/ ConnectionLost(s)
       PROVE  Moves
  <2>1. Moved(s)
    BY <1>13, ReceiveByeMoves, ByeResponseMoves, HangUpMoves,
       DialogTerminatedMoves, SetReleasedMoves, ByeTimeoutMoves,
       ConnectionLostMoves
  <2> QED
    BY <2>1 DEF Moves, Side
<1> QED
  BY <1>1, <1>2, <1>3, <1>4, <1>5, <1>6, <1>7, <1>8, <1>9, <1>10, <1>11, <1>12,
     <1>13 DEF Next

\* The invariant is kept, by steps that stutter too.
LEMMA Stays == Base /\ [Next]_vars => Base'
<1> SUFFICES ASSUME Base, [Next]_vars PROVE Base'
  OBVIOUS
<1>1. CASE Next
  BY <1>1, NextMoves DEF Moves, Moved
<1>2. CASE UNCHANGED vars
  <2>1. end' = end /\ net' = net /\ broken' = broken /\ ordered' = ordered
    BY <1>2 DEF vars
  <2>2. TypeOK'
    BY <2>1 DEF Base, TypeOK
  <2>3. Wire'
    BY <2>1 DEF Base, Wire, UnderWay
  <2>4. (\A s \in Side : Sane(s, end[s]))'
    BY <2>1 DEF Base, Sane, Fine, Silent, Owned, Caller, Callee, Waiting,
       GivenUp, Chances
  <2> QED
    BY <2>2, <2>3, <2>4 DEF Base
<1> QED
  BY <1>1, <1>2

\* The invariant holds in every behaviour.
LEMMA AlwaysBase == Spec => []Base
<1>1. Init => Base
  BY InitBase
<1>2. Base /\ [Next]_vars => Base'
  BY Stays
<1> QED
  BY <1>1, <1>2, PTL DEF Spec

\* What an end keeps and what is under way have their types; in particular no
\* end comes to send more than the four BYEs that the numbers of the model
\* leave room for, whatever crosses and is lost.
THEOREM TypeCorrect == Spec => []TypeOK
<1>1. Base => TypeOK
  BY DEF Base
<1> QED
  BY <1>1, AlwaysBase, PTL

\* No callback reaches the application after call_released: what is still put
\* off, answered or timed out for the operation is not passed on to a
\* LinphoneCall that is freed.
THEOREM NoLateCallback == Spec => []SilentOnceReleased
<1>1. Base => SilentOnceReleased
  BY DEF Base, Sane, Fine, Silent, SilentOnceReleased
<1> QED
  BY <1>1, AlwaysBase, PTL

\* A hang-up holds: the 200 Ok that crosses it, or was on its way before it,
\* neither makes the call active nor tells the application of an answer.
THEOREM HangUpHolds == Spec => HangUpIsFinal
<1> DEFINE Final == \A s \in Side : end[s].hungUp =>
                        /\ end'[s].op # "Active"
                        /\ "accepted" \in end'[s].heard => "accepted" \in end[s].heard
<1>1. Base /\ [Next]_vars => [Final]_vars
  <2> SUFFICES ASSUME Base, Next PROVE Final
    OBVIOUS
  <2>1. PICK p \in Side : Moved(p)
    BY NextMoves DEF Moves, Side
  <2> SUFFICES ASSUME NEW s \in Side, end[s].hungUp
               PROVE  /\ end'[s].op # "Active"
                      /\ "accepted" \in end'[s].heard =>
                            "accepted" \in end[s].heard
    OBVIOUS
  <2>2. Onward(end[s], end'[s])
    <3>1. CASE s = p
      BY <2>1, <3>1 DEF Moved
    <3>2. CASE s # p
      <4>1. s = Peer(p)
        BY <3>2, Peers DEF Side
      <4>2. end'[s] = end[s]
        BY <2>1, <4>1 DEF Moved
      <4> QED
        BY <4>2 DEF Onward
    <3> QED
      BY <3>1, <3>2
  <2>3. Sane(s, end'[s])
    BY <2>1 DEF Moved, Base, Sane, Fine, Silent, Owned, Caller, Callee, Waiting,
       GivenUp, Chances
  <2>4. end'[s].hungUp
    BY <2>2 DEF Onward
  <2>5. end'[s].op # "Active"
    BY <2>3, <2>4 DEF Sane, Fine, Caller, Callee, GivenUp, Side
  <2> QED
    BY <2>2, <2>5 DEF Onward
<1> QED
  BY <1>1, AlwaysBase, PTL DEF Spec, HangUpIsFinal
=============================================================================
