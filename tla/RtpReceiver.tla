----------------------------- MODULE RtpReceiver -----------------------------
(* The receiving half of an RTP session as a media stream of linphone uses    *)
(* it: oRTP's rtpparse.c and the queue of rtpsession.c, the receiver filter   *)
(* of mediastreamer2 that reads it, and the two signals that make the session *)
(* synchronise again.  Sequence numbers and timestamps are modular, and their *)
(* comparisons those of the code; a packet also has its true place among      *)
(* those its source sent, which only the properties look at.                  *)
(*                                                                            *)
(* Which timestamp the receiver wants is left open, for the jitter control    *)
(* computes it from averages that this model has not: of the packets at the   *)
(* head of the queue any number may be due.  So a packet may be received      *)
(* between any two that are delivered.  A session without jitter control is   *)
(* the permissive one with everything due.                                    *)
EXTENDS Integers, Sequences, SequencesExt

CONSTANTS
  SeqSize,    \* 2^16
  TsSize,     \* 2^32
  TsJump,     \* ts_jump: time_jump in units of the timestamp
  MaxQueue,   \* max_rq_size
  MaxSources, \* bound: sources, one after the other
  First,      \* the first sequence number of each
  Start,      \* and its first timestamp
  Steps,      \* between the timestamps of two packets
  MaxPackets, \* bound: packets of a source
  MaxLate,    \* bound: a packet is lost once so many newer ones were sent
  None,       \* no packet, no SSRC
  Settings    \* the habits of the session: see Setting

Setting ==
  [permissive : BOOLEAN,  \* the algorithm for video
   threshold  : Nat]      \* ssrc_changed_thres

Sources == 1..MaxSources  \* the SSRCs

ASSUME SizesAssumption ==
  /\ SeqSize \in Nat /\ TsSize \in Nat /\ TsJump \in Nat
  /\ SeqSize > 2 * MaxPackets /\ TsSize > 2 * TsJump
  /\ MaxQueue \in Nat \ {0} /\ MaxPackets \in Nat /\ MaxLate \in Nat
  /\ None \notin Sources /\ Settings \subseteq Setting
  /\ First \in [Sources -> 0..SeqSize - 1] /\ Start \in [Sources -> Nat]

VARIABLES
  setting,    \* the setting of this behaviour, a constant
  sender,     \* the source that sends, with the packet that comes next
  net,        \* packets that may yet come, however often
  session,    \* the RtpSession: see Session
  last        \* history: the packet delivered last since the synchronisation

vars == <<setting, sender, net, session, last>>

Packet == [src : Sources, n : 0..MaxPackets - 1, time : Int]

WireSeq(p) == (First[p.src] + p.n) % SeqSize
WireTs(p)  == p.time % TsSize

Session ==
  [queue     : Seq(Packet),
   sync      : BOOLEAN,               \* RTP_SESSION_RECV_SYNC
   delivered : BOOLEAN,               \* RTP_SESSION_FIRST_PACKET_DELIVERED
   lastTs    : 0..TsSize - 1,         \* rcv_last_ts
   ssrc      : Sources \cup {None},   \* None: not set
   candidate : Sources \cup {None},
   count     : Nat]                   \* inc_same_ssrc_count

TypeOK ==
  /\ setting \in Settings
  /\ sender \in [src : Sources, n : 0..MaxPackets, time : Int]
  /\ net \subseteq Packet
  /\ session \in Session
  /\ Len(session.queue) <= MaxQueue
  /\ session.count <= setting.threshold
  /\ last \in Packet \cup {None}

Init ==
  /\ setting \in Settings
  /\ sender = [src |-> 1, n |-> 0, time |-> Start[1]]
  /\ net = {}
  /\ session = [queue |-> <<>>, sync |-> TRUE, delivered |-> FALSE, lastTs |-> 0,
                ssrc |-> None, candidate |-> None, count |-> 0]
  /\ last = None

------------------------------------------------------------------------------
(* Comparisons of numbers that wrap: RTP_SEQ_IS_GREATER and                   *)
(* RTP_TIMESTAMP_IS_NEWER_THAN, the latter also true of equal ones.           *)

(* Mutant: a comparison that does not know of the wrap.                       *)
SeqIsGreater_flat(a, b) == a > b

SeqIsGreater(a, b) == (a - b) % SeqSize < SeqSize \div 2

IsNewer(a, b) == (a - b) % TsSize < TsSize \div 2

IsStrictlyNewer(a, b) == IsNewer(a, b) /\ a % TsSize # b % TsSize

(* rtp_putq: the place is looked for from the newest packet on; a packet that *)
(* is met again is dropped.                                                   *)
rtp_putq(q, p) ==
  LET at == Max({0} \cup {i \in 1..Len(q) :
                    \/ WireSeq(p) = WireSeq(q[i])
                    \/ SeqIsGreater(WireSeq(p), WireSeq(q[i]))})
  IN  IF at > 0 /\ WireSeq(p) = WireSeq(q[at]) THEN q ELSE InsertAt(q, at + 1, p)

(* Mutant: no packet makes room.                                              *)
queue_packet_unbounded(q, p) == rtp_putq(q, p)

(* queue_packet: the oldest packets make room.                                *)
queue_packet(q, p) ==
  LET r == rtp_putq(q, p) IN
  IF Len(r) > MaxQueue THEN SubSeq(r, Len(r) - MaxQueue + 1, Len(r)) ELSE r

(* rtp_session_resync, which both signals are connected to.                   *)
rtp_session_resync(s) == [s EXCEPT !.queue = <<>>, !.sync = TRUE, !.delivered = FALSE]

------------------------------------------------------------------------------
(* rtp_session_rtp_parse.                                                     *)

(* The session is locked on a source, until so many packets of another come   *)
(* in a row.                                                                  *)
Run(s, p) == IF s.candidate = p.src THEN s.count + 1 ELSE 0

Foreign(s, p) ==
  s.ssrc \notin {None, p.src} /\ Run(s, p) < setting.threshold

lock_ssrc(s, p) ==
  CASE s.ssrc = None  -> [s EXCEPT !.ssrc = p.src]
    [] s.ssrc = p.src -> [s EXCEPT !.count = 0]
    [] Foreign(s, p)  -> [s EXCEPT !.count = Run(s, p), !.candidate = p.src]
    [] OTHER -> rtp_session_resync([s EXCEPT !.count = Run(s, p), !.candidate = p.src,
                                             !.ssrc = p.src, !.lastTs = WireTs(p)])

(* Timestamps too far from the one delivered last, or before it.              *)
JumpsAhead(s, p) == s.delivered /\ IsNewer(WireTs(p), s.lastTs + TsJump)

IsTooOld(s, p) ==
  s.delivered /\ ~JumpsAhead(s, p) /\ IsStrictlyNewer(s.lastTs, WireTs(p))

JumpsBack(s, p) == IsTooOld(s, p) /\ IsStrictlyNewer(s.lastTs, WireTs(p) + TsJump)

rtp_parse(s, p) ==
  LET t == lock_ssrc(s, p)
      u == IF JumpsAhead(t, p) \/ JumpsBack(t, p) THEN rtp_session_resync(t) ELSE t
  IN  IF Foreign(s, p) THEN t
      ELSE IF IsTooOld(t, p) THEN u
      ELSE [u EXCEPT !.queue = queue_packet(@, p)]

------------------------------------------------------------------------------
(* rtp_getq and rtp_getq_permissive: which of the packets that are due is     *)
(* returned; those before it are rejected, and 0 is none.                     *)

(* The last of them, but for packets of one instant: then the first of these. *)
rtp_getq(q, due) ==
  IF due = 0 THEN 0
  ELSE Min({i \in 1..due : i = due \/ WireTs(q[i]) = WireTs(q[i + 1])})

rtp_getq_permissive(q, due) == IF due > 0 THEN 1 ELSE 0

getq(q, due) ==
  IF setting.permissive THEN rtp_getq_permissive(q, due) ELSE rtp_getq(q, due)

------------------------------------------------------------------------------
(* The sources and the network, which loses, repeats and reorders.            *)

Send(step) ==
  /\ sender.n < MaxPackets
  /\ net' = {p \in net : p.src = sender.src => p.n + MaxLate >= sender.n} \cup {sender}
  /\ sender' = [sender EXCEPT !.n = @ + 1, !.time = @ + step]
  /\ UNCHANGED <<setting, session, last>>

(* Another source takes over, say after a transfer.                           *)
Change ==
  /\ sender.src < MaxSources /\ sender.n > 0
  /\ sender' = [src |-> sender.src + 1, n |-> 0, time |-> Start[sender.src + 1]]
  /\ UNCHANGED <<setting, net, session, last>>

(* rtp_session_rtp_recv: any packet under way, or one that came before.       *)
Receive(p) ==
  /\ session' = rtp_parse(session, p)
  /\ last' = IF session'.sync /\ ~session.sync THEN None ELSE last
  /\ UNCHANGED <<setting, sender, net>>

(* rtp_session_recvm_with_ts, called by receiver_process until it returns     *)
(* nothing.                                                                   *)
rtp_session_recvm_with_ts(due) ==
  LET q == session.queue
      taken == getq(q, due)
  IN  /\ q # <<>>
      /\ session' = [session EXCEPT
             !.sync = FALSE,
             !.ssrc = IF session.sync THEN Head(q).src ELSE @,
             !.queue = SubSeq(@, taken + 1, Len(@)),
             !.delivered = @ \/ taken > 0,
             !.lastTs = IF taken > 0 THEN WireTs(q[taken]) ELSE @]
      /\ last' = IF taken > 0 THEN q[taken] ELSE last
      /\ UNCHANGED <<setting, sender, net>>

(* receiver_process after the stream asked for the jitter buffer to be reset. *)
reset_jb ==
  /\ session' = rtp_session_resync(session)
  /\ last' = None
  /\ UNCHANGED <<setting, sender, net>>

Next ==
  \/ \E step \in Steps : Send(step)
  \/ Change \/ reset_jb
  \/ \E p \in net : Receive(p)
  \/ \E due \in 0..Len(session.queue) : rtp_session_recvm_with_ts(due)

Spec == Init /\ [][Next]_vars

------------------------------------------------------------------------------
(* Between two synchronisations the application gets packets of one source,   *)
(* in the order they were sent but for those of one instant, across the wraps *)
(* of sequence numbers and timestamps and whatever the network does.          *)
OneStreamInOrder ==
  [][last # None /\ last' # None =>
       /\ last'.src = last.src
       /\ last'.n >= last.n \/ last'.time = last.time]_vars
=============================================================================
