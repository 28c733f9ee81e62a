-------------------------- MODULE CallControlProofs --------------------------
(***************************************************************************)
(* What CallControl keeps, proved for any number of calls and any settings *)
(* of what the user and the peers do.                                      *)
(*                                                                         *)
(* The invariant is Sound(core).  It says of each call, by itself, which   *)
(* states go with which phase of its operation, who waits for whom, and    *)
(* what its streams are for, and that none wait for an ACK when all offers *)
(* have a description; and of the core that its list and its current       *)
(* call are right and, while the user is calm, that a call which is        *)
(* neither new, ringing, held nor over is the current one.                 *)
(*                                                                         *)
(* The functions of the core are nested updates of one record.  They are   *)
(* taken apart here into Puts, each of one field, and for each function a  *)
(* lemma says which fields of the call it sets, and to what.               *)
(***************************************************************************)
EXTENDS CallControl, FiniteSetTheorems, TLAPS

Core == [call : [Calls -> Call], current : Calls \cup {None}, list : SUBSET Calls]

Fields == {"state", "prev", "op", "giving", "mine", "theirs", "ack", "local",
           "result", "streams", "pending", "defer"}

\* The calls y and x are alike but for the fields F.
Same(y, x, F) == \A f \in Fields \ F : y[f] = x[f]

\* The core r is well formed and has the calls of k, but for c.
Only(r, k, c) == r \in Core /\ \A d \in Calls : d # c => r.call[d] = k.call[d]

PutState(k, c, v) == [k EXCEPT !.call[c].state = v]
PutPrev(k, c, v) == [k EXCEPT !.call[c].prev = v]
PutOp(k, c, v) == [k EXCEPT !.call[c].op = v]
PutGiving(k, c, v) == [k EXCEPT !.call[c].giving = v]
PutMine(k, c, v) == [k EXCEPT !.call[c].mine = v]
PutTheirs(k, c, v) == [k EXCEPT !.call[c].theirs = v]
PutAck(k, c, v) == [k EXCEPT !.call[c].ack = v]
PutLocal(k, c, v) == [k EXCEPT !.call[c].local = v]
PutResult(k, c, v) == [k EXCEPT !.call[c].result = v]
PutStreams(k, c, v) == [k EXCEPT !.call[c].streams = v]
PutPending(k, c, v) == [k EXCEPT !.call[c].pending = v]
PutDefer(k, c, v) == [k EXCEPT !.call[c].defer = v]
PutCall(k, c, y) == [k EXCEPT !.call[c] = y]
PutCurrent(k, v) == [k EXCEPT !.current = v]
PutList(k, v) == [k EXCEPT !.list = v]

-----------------------------------------------------------------------------
(* One field at a time.                                                    *)

\* The types of the fields.
LEMMA Typed ==
    ASSUME NEW k \in Core, NEW c \in Calls
    PROVE  /\ k.call[c] \in Call
           /\ k.call[c].state \in States
           /\ k.call[c].prev \in States
           /\ k.call[c].op \in {"new", "inviting", "early", "offered", "confirmed", "dead", "gone"}
           /\ k.call[c].giving \in BOOLEAN
           /\ k.call[c].mine \in BOOLEAN
           /\ k.call[c].theirs \in Directions \cup {None, "bare"}
           /\ k.call[c].ack \in {"none", "plain", "answer"}
           /\ k.call[c].local \in Directions
           /\ k.call[c].result \in Directions \cup {None}
           /\ k.call[c].streams \in {"none", "ready", "card", "quiet"}
           /\ k.call[c].pending \in BOOLEAN
           /\ k.call[c].defer \in BOOLEAN
           /\ k.current \in Calls \cup {None} /\ k.list \in SUBSET Calls
  BY DEF Core, Call

\* What a Put does, first of a whole call.
LEMMA CallPut ==
    ASSUME NEW k \in Core, NEW c \in Calls, NEW y \in Call
    PROVE  LET r == PutCall(k, c, y) IN
           /\ Only(r, k, c) /\ r.call[c] = y
           /\ r.current = k.current /\ r.list = k.list
  BY DEF Core, Only, PutCall

\* Of one field.
LEMMA StatePut ==
    ASSUME NEW k \in Core, NEW c \in Calls, NEW v \in States
    PROVE  LET r == PutState(k, c, v) IN
           /\ Only(r, k, c) /\ r.call[c].state = v /\ Same(r.call[c], k.call[c], {"state"})
           /\ r.current = k.current /\ r.list = k.list
<1> DEFINE y == [k.call[c] EXCEPT !.state = v]
<1>1. y \in Call /\ y.state = v /\ Same(y, k.call[c], {"state"})
  <2>1. k.call[c] \in Call
    BY Typed
  <2> QED
    BY <2>1 DEF Call, Same, Fields
<1>2. PutState(k, c, v) = PutCall(k, c, y)
  BY DEF PutState, PutCall, Core
<1> HIDE DEF y
<1> QED
  BY ONLY <1>1, <1>2, k \in Core, c \in Calls, CallPut

\* Of one field.
LEMMA PrevPut ==
    ASSUME NEW k \in Core, NEW c \in Calls, NEW v \in States
    PROVE  LET r == PutPrev(k, c, v) IN
           /\ Only(r, k, c) /\ r.call[c].prev = v /\ Same(r.call[c], k.call[c], {"prev"})
           /\ r.current = k.current /\ r.list = k.list
<1> DEFINE y == [k.call[c] EXCEPT !.prev = v]
<1>1. y \in Call /\ y.prev = v /\ Same(y, k.call[c], {"prev"})
  <2>1. k.call[c] \in Call
    BY Typed
  <2> QED
    BY <2>1 DEF Call, Same, Fields
<1>2. PutPrev(k, c, v) = PutCall(k, c, y)
  BY DEF PutPrev, PutCall, Core
<1> HIDE DEF y
<1> QED
  BY ONLY <1>1, <1>2, k \in Core, c \in Calls, CallPut

\* Of one field.
LEMMA OpPut ==
    ASSUME NEW k \in Core, NEW c \in Calls, NEW v \in {"new", "inviting", "early", "offered", "confirmed", "dead", "gone"}
    PROVE  LET r == PutOp(k, c, v) IN
           /\ Only(r, k, c) /\ r.call[c].op = v /\ Same(r.call[c], k.call[c], {"op"})
           /\ r.current = k.current /\ r.list = k.list
<1> DEFINE y == [k.call[c] EXCEPT !.op = v]
<1>1. y \in Call /\ y.op = v /\ Same(y, k.call[c], {"op"})
  <2>1. k.call[c] \in Call
    BY Typed
  <2> QED
    BY <2>1 DEF Call, Same, Fields
<1>2. PutOp(k, c, v) = PutCall(k, c, y)
  BY DEF PutOp, PutCall, Core
<1> HIDE DEF y
<1> QED
  BY ONLY <1>1, <1>2, k \in Core, c \in Calls, CallPut

\* Of one field.
LEMMA GivingPut ==
    ASSUME NEW k \in Core, NEW c \in Calls, NEW v \in BOOLEAN
    PROVE  LET r == PutGiving(k, c, v) IN
           /\ Only(r, k, c) /\ r.call[c].giving = v /\ Same(r.call[c], k.call[c], {"giving"})
           /\ r.current = k.current /\ r.list = k.list
<1> DEFINE y == [k.call[c] EXCEPT !.giving = v]
<1>1. y \in Call /\ y.giving = v /\ Same(y, k.call[c], {"giving"})
  <2>1. k.call[c] \in Call
    BY Typed
  <2> QED
    BY <2>1 DEF Call, Same, Fields
<1>2. PutGiving(k, c, v) = PutCall(k, c, y)
  BY DEF PutGiving, PutCall, Core
<1> HIDE DEF y
<1> QED
  BY ONLY <1>1, <1>2, k \in Core, c \in Calls, CallPut

\* Of one field.
LEMMA MinePut ==
    ASSUME NEW k \in Core, NEW c \in Calls, NEW v \in BOOLEAN
    PROVE  LET r == PutMine(k, c, v) IN
           /\ Only(r, k, c) /\ r.call[c].mine = v /\ Same(r.call[c], k.call[c], {"mine"})
           /\ r.current = k.current /\ r.list = k.list
<1> DEFINE y == [k.call[c] EXCEPT !.mine = v]
<1>1. y \in Call /\ y.mine = v /\ Same(y, k.call[c], {"mine"})
  <2>1. k.call[c] \in Call
    BY Typed
  <2> QED
    BY <2>1 DEF Call, Same, Fields
<1>2. PutMine(k, c, v) = PutCall(k, c, y)
  BY DEF PutMine, PutCall, Core
<1> HIDE DEF y
<1> QED
  BY ONLY <1>1, <1>2, k \in Core, c \in Calls, CallPut

\* Of one field.
LEMMA TheirsPut ==
    ASSUME NEW k \in Core, NEW c \in Calls, NEW v \in Directions \cup {None, "bare"}
    PROVE  LET r == PutTheirs(k, c, v) IN
           /\ Only(r, k, c) /\ r.call[c].theirs = v /\ Same(r.call[c], k.call[c], {"theirs"})
           /\ r.current = k.current /\ r.list = k.list
<1> DEFINE y == [k.call[c] EXCEPT !.theirs = v]
<1>1. y \in Call /\ y.theirs = v /\ Same(y, k.call[c], {"theirs"})
  <2>1. k.call[c] \in Call
    BY Typed
  <2> QED
    BY <2>1 DEF Call, Same, Fields
<1>2. PutTheirs(k, c, v) = PutCall(k, c, y)
  BY DEF PutTheirs, PutCall, Core
<1> HIDE DEF y
<1> QED
  BY ONLY <1>1, <1>2, k \in Core, c \in Calls, CallPut

\* Of one field.
LEMMA AckPut ==
    ASSUME NEW k \in Core, NEW c \in Calls, NEW v \in {"none", "plain", "answer"}
    PROVE  LET r == PutAck(k, c, v) IN
           /\ Only(r, k, c) /\ r.call[c].ack = v /\ Same(r.call[c], k.call[c], {"ack"})
           /\ r.current = k.current /\ r.list = k.list
<1> DEFINE y == [k.call[c] EXCEPT !.ack = v]
<1>1. y \in Call /\ y.ack = v /\ Same(y, k.call[c], {"ack"})
  <2>1. k.call[c] \in Call
    BY Typed
  <2> QED
    BY <2>1 DEF Call, Same, Fields
<1>2. PutAck(k, c, v) = PutCall(k, c, y)
  BY DEF PutAck, PutCall, Core
<1> HIDE DEF y
<1> QED
  BY ONLY <1>1, <1>2, k \in Core, c \in Calls, CallPut

\* Of one field.
LEMMA LocalPut ==
    ASSUME NEW k \in Core, NEW c \in Calls, NEW v \in Directions
    PROVE  LET r == PutLocal(k, c, v) IN
           /\ Only(r, k, c) /\ r.call[c].local = v /\ Same(r.call[c], k.call[c], {"local"})
           /\ r.current = k.current /\ r.list = k.list
<1> DEFINE y == [k.call[c] EXCEPT !.local = v]
<1>1. y \in Call /\ y.local = v /\ Same(y, k.call[c], {"local"})
  <2>1. k.call[c] \in Call
    BY Typed
  <2> QED
    BY <2>1 DEF Call, Same, Fields
<1>2. PutLocal(k, c, v) = PutCall(k, c, y)
  BY DEF PutLocal, PutCall, Core
<1> HIDE DEF y
<1> QED
  BY ONLY <1>1, <1>2, k \in Core, c \in Calls, CallPut

\* Of one field.
LEMMA ResultPut ==
    ASSUME NEW k \in Core, NEW c \in Calls, NEW v \in Directions \cup {None}
    PROVE  LET r == PutResult(k, c, v) IN
           /\ Only(r, k, c) /\ r.call[c].result = v /\ Same(r.call[c], k.call[c], {"result"})
           /\ r.current = k.current /\ r.list = k.list
<1> DEFINE y == [k.call[c] EXCEPT !.result = v]
<1>1. y \in Call /\ y.result = v /\ Same(y, k.call[c], {"result"})
  <2>1. k.call[c] \in Call
    BY Typed
  <2> QED
    BY <2>1 DEF Call, Same, Fields
<1>2. PutResult(k, c, v) = PutCall(k, c, y)
  BY DEF PutResult, PutCall, Core
<1> HIDE DEF y
<1> QED
  BY ONLY <1>1, <1>2, k \in Core, c \in Calls, CallPut

\* Of one field.
LEMMA StreamsPut ==
    ASSUME NEW k \in Core, NEW c \in Calls, NEW v \in {"none", "ready", "card", "quiet"}
    PROVE  LET r == PutStreams(k, c, v) IN
           /\ Only(r, k, c) /\ r.call[c].streams = v /\ Same(r.call[c], k.call[c], {"streams"})
           /\ r.current = k.current /\ r.list = k.list
<1> DEFINE y == [k.call[c] EXCEPT !.streams = v]
<1>1. y \in Call /\ y.streams = v /\ Same(y, k.call[c], {"streams"})
  <2>1. k.call[c] \in Call
    BY Typed
  <2> QED
    BY <2>1 DEF Call, Same, Fields
<1>2. PutStreams(k, c, v) = PutCall(k, c, y)
  BY DEF PutStreams, PutCall, Core
<1> HIDE DEF y
<1> QED
  BY ONLY <1>1, <1>2, k \in Core, c \in Calls, CallPut

\* Of one field.
LEMMA PendingPut ==
    ASSUME NEW k \in Core, NEW c \in Calls, NEW v \in BOOLEAN
    PROVE  LET r == PutPending(k, c, v) IN
           /\ Only(r, k, c) /\ r.call[c].pending = v /\ Same(r.call[c], k.call[c], {"pending"})
           /\ r.current = k.current /\ r.list = k.list
<1> DEFINE y == [k.call[c] EXCEPT !.pending = v]
<1>1. y \in Call /\ y.pending = v /\ Same(y, k.call[c], {"pending"})
  <2>1. k.call[c] \in Call
    BY Typed
  <2> QED
    BY <2>1 DEF Call, Same, Fields
<1>2. PutPending(k, c, v) = PutCall(k, c, y)
  BY DEF PutPending, PutCall, Core
<1> HIDE DEF y
<1> QED
  BY ONLY <1>1, <1>2, k \in Core, c \in Calls, CallPut

\* Of one field.
LEMMA DeferPut ==
    ASSUME NEW k \in Core, NEW c \in Calls, NEW v \in BOOLEAN
    PROVE  LET r == PutDefer(k, c, v) IN
           /\ Only(r, k, c) /\ r.call[c].defer = v /\ Same(r.call[c], k.call[c], {"defer"})
           /\ r.current = k.current /\ r.list = k.list
<1> DEFINE y == [k.call[c] EXCEPT !.defer = v]
<1>1. y \in Call /\ y.defer = v /\ Same(y, k.call[c], {"defer"})
  <2>1. k.call[c] \in Call
    BY Typed
  <2> QED
    BY <2>1 DEF Call, Same, Fields
<1>2. PutDefer(k, c, v) = PutCall(k, c, y)
  BY DEF PutDefer, PutCall, Core
<1> HIDE DEF y
<1> QED
  BY ONLY <1>1, <1>2, k \in Core, c \in Calls, CallPut

\* The same for the fields of the core.
LEMMA CurrentPut ==
    ASSUME NEW k \in Core, NEW v \in Calls \cup {None}
    PROVE  LET r == PutCurrent(k, v) IN
           r \in Core /\ r.call = k.call /\ r.current = v /\ r.list = k.list
  BY DEF Core, PutCurrent

\* ... and of its list.
LEMMA ListPut ==
    ASSUME NEW k \in Core, NEW v \in SUBSET Calls
    PROVE  LET r == PutList(k, v) IN
           r \in Core /\ r.call = k.call /\ r.current = k.current /\ r.list = v
  BY DEF Core, PutList

-----------------------------------------------------------------------------
(* What the functions do that the others are made of: r is what becomes of *)
(* the core k, and y of the call x.                                        *)

Live == {"Connected", "StreamsRunning", "Pausing", "Paused", "Resuming",
         "PausedByRemote", "UpdatedByRemote", "Updating"}

Calling == {"OutgoingProgress", "OutgoingRinging", "OutgoingEarlyMedia"}

Ended == {"End", "Error"}

\* linphone_call_set_state.
StateSet(r, k, c, s) ==
    LET x == k.call[c]
        y == r.call[c]
    IN  /\ Only(r, k, c) /\ Same(y, x, {"state", "prev", "op"})
        /\ y.state = IF x.state \in Ended /\ s # "Released" THEN x.state ELSE s
        /\ y.prev = IF s = x.state THEN x.prev ELSE x.state
        /\ y.op = IF s = "Released" /\ x.state # "Released" THEN "gone" ELSE x.op
        /\ r.current = IF s \in Ended /\ x.state \notin Ended /\ k.current = c
                       THEN None ELSE k.current
        /\ r.list = IF s \in Ended /\ x.state \notin Ended THEN k.list \ {c} ELSE k.list

\* linphone_call_set_state changes the call as StateSet says, and the core's book with it.
LEMMA SetState ==
    ASSUME NEW k \in Core, NEW c \in Calls, NEW s \in States
    PROVE  StateSet(set_state(k, c, s), k, c, s)
<1> DEFINE x == k.call[c]
           r == set_state(k, c, s)
           o == IF s = "Released" THEN "gone" ELSE x.op
           u == IF s \in {"End", "Error"} /\ k.current = c THEN None ELSE k.current
           l == IF s \in {"End", "Error"} THEN k.list \ {c} ELSE k.list
<1>1. /\ x.state \in States /\ k.current \in Calls \cup {None} /\ k.list \in SUBSET Calls
      /\ o \in {"new", "inviting", "early", "offered", "confirmed", "dead", "gone"}
  BY Typed
<1>2. u \in Calls \cup {None} /\ l \in SUBSET Calls
  BY <1>1
<1>3. CASE s = x.state
  <2>1. r = k
    BY <1>3 DEF set_state
  <2> QED
    BY <1>1, <1>3, <2>1 DEF StateSet, Only, Same, Ended
<1>4. CASE s # x.state /\ x.state \in Ended /\ s # "Released"
  <2>1. r = PutPrev(k, c, x.state)
    BY <1>4 DEF set_state, PutPrev, Ended
  <2> HIDE DEF r
  <2>2. /\ Only(r, k, c) /\ r.call[c].prev = x.state /\ Same(r.call[c], x, {"prev"})
        /\ r.current = k.current /\ r.list = k.list
    BY <1>1, <2>1, PrevPut
  <2>3. Same(r.call[c], x, {"state", "prev", "op"}) /\ r.call[c].state = x.state
        /\ r.call[c].op = x.op
    BY <2>2 DEF Same, Fields
  <2> QED
    BY <1>4, <2>2, <2>3 DEF r, StateSet, Ended
<1>5. CASE s # x.state /\ ~(x.state \in Ended /\ s # "Released")
  <2> DEFINE k1 == PutPrev(k, c, x.state)
             k2 == PutState(k1, c, s)
             k3 == PutOp(k2, c, o)
             k4 == PutCurrent(k3, u)
             k5 == PutList(k4, l)
  <2>1. r = k5
    BY <1>5 DEF set_state, PutPrev, PutState, PutOp, PutCurrent, PutList, Ended
  <2> HIDE DEF o, u, l, r
  <2>2. /\ Only(k1, k, c) /\ k1.call[c].prev = x.state /\ Same(k1.call[c], x, {"prev"})
        /\ k1 \in Core
    BY <1>1, PrevPut, ZenonT(90) DEF Only
  <2> HIDE DEF k1
  <2>3. /\ Only(k2, k1, c) /\ k2.call[c].state = s /\ Same(k2.call[c], k1.call[c], {"state"})
        /\ k2 \in Core
    BY <2>2, StatePut DEF Only
  <2> HIDE DEF k2
  <2>4. /\ Only(k3, k2, c) /\ k3.call[c].op = o /\ Same(k3.call[c], k2.call[c], {"op"})
        /\ k3 \in Core
    <3>1. /\ o \in {"new", "inviting", "early", "offered", "confirmed", "dead", "gone"}
          /\ k2 \in Core /\ c \in Calls
      BY <1>1, <2>3
    <3>2. /\ Only(k3, k2, c) /\ k3.call[c].op = o
          /\ Same(k3.call[c], k2.call[c], {"op"})
      BY ONLY <3>1, OpPut
    <3> QED
      BY ONLY <3>2 DEF Only
  <2> HIDE DEF k3
  <2>5. k4 \in Core /\ k4.call = k3.call /\ k4.current = u
    BY <1>2, <2>4, CurrentPut
  <2> HIDE DEF k4
  <2>6. k5 \in Core /\ k5.call = k4.call /\ k5.current = k4.current /\ k5.list = l
    BY <1>2, <2>5, ListPut
  <2> HIDE DEF k5
  <2>7. Only(r, k, c)
    BY <2>1, <2>2, <2>3, <2>4, <2>5, <2>6 DEF Only
  <2>8. /\ Same(r.call[c], x, {"state", "prev", "op"})
        /\ r.call[c].state = s /\ r.call[c].prev = x.state /\ r.call[c].op = o
    BY <2>1, <2>2, <2>3, <2>4, <2>5, <2>6 DEF Same, Fields
  <2>9. r.current = u /\ r.list = l
    BY <2>1, <2>5, <2>6
  <2>10. s \in Ended => x.state \notin Ended
    BY <1>5 DEF Ended
  <2> QED
    BY <1>5, <2>7, <2>8, <2>9, <2>10 DEF r, o, u, l, StateSet, Ended
<1> QED
  BY <1>3, <1>4, <1>5

\* linphone_call_stop_media_streams.
Stopped(r, k, c) ==
    /\ Only(r, k, c) /\ Same(r.call[c], k.call[c], {"streams"})
    /\ r.call[c].streams = "none" /\ r.current = k.current /\ r.list = k.list

\* linphone_call_stop_media_streams takes the streams of the call, and nothing else.
LEMMA Stop ==
    ASSUME NEW k \in Core, NEW c \in Calls
    PROVE  Stopped(stop_media_streams(k, c), k, c)
<1>1. stop_media_streams(k, c) = PutStreams(k, c, "none")
  BY DEF stop_media_streams, PutStreams
<1> QED
  BY <1>1, StreamsPut DEF Stopped

\* linphone_core_update_streams: the sound card is for a stream that plays.
Streamed(r, k, c, dir) ==
    LET x == k.call[c]
        y == r.call[c]
    IN  /\ Only(r, k, c) /\ Same(y, x, {"pending", "result", "streams"})
        /\ y.pending = FALSE /\ y.result = dir
        /\ y.streams = "card" => \/ dir \in {"sendrecv", "recvonly"}
                                 \/ x.streams = "card" /\ x.result = dir
        /\ r.current = k.current /\ r.list = k.list

\* linphone_core_update_streams starts streams in the negotiated direction or stops them.
LEMMA UpdateStreams ==
    ASSUME NEW k \in Core, NEW c \in Calls, NEW dir \in Directions \cup {None}
    PROVE  Streamed(update_streams(k, c, dir), k, c, dir)
<1> DEFINE x == k.call[c]
           k1 == PutPending(k, c, FALSE)
           k2 == PutResult(k1, c, dir)
           v == IF k2.call[c].result = "inactive" THEN "ready"
                ELSE IF /\ k2.call[c].result \in {"sendrecv", "recvonly"}
                        /\ k2.current \in {None, c} THEN "card"
                ELSE "quiet"
           k3 == PutStreams(k2, c, v)
           r == update_streams(k, c, dir)
<1>1. r = IF Started(x.streams) /\ x.result = dir THEN k2 ELSE k3
  BY DEF update_streams, start_media_streams, PutPending, PutResult, PutStreams
<1>2. /\ Only(k1, k, c) /\ k1.call[c].pending = FALSE /\ Same(k1.call[c], x, {"pending"})
      /\ k1.current = k.current /\ k1.list = k.list /\ k1 \in Core
  BY PendingPut, ZenonT(90) DEF Only
<1> HIDE DEF k1
<1>3. /\ Only(k2, k1, c) /\ k2.call[c].result = dir /\ Same(k2.call[c], k1.call[c], {"result"})
      /\ k2.current = k1.current /\ k2.list = k1.list /\ k2 \in Core
  BY <1>2, ResultPut DEF Only
<1> HIDE DEF k2
<1>4. v \in {"none", "ready", "card", "quiet"}
  OBVIOUS
<1>5. v = "card" => dir \in {"sendrecv", "recvonly"}
  BY <1>3
<1> HIDE DEF v
<1>6. /\ Only(k3, k2, c) /\ k3.call[c].streams = v /\ Same(k3.call[c], k2.call[c], {"streams"})
      /\ k3.current = k2.current /\ k3.list = k2.list
  BY <1>3, <1>4, StreamsPut
<1> HIDE DEF k3, r
<1>7. CASE Started(x.streams) /\ x.result = dir
  <2>1. r = k2
    BY <1>1, <1>7
  <2>2. Only(r, k, c) /\ r.current = k.current /\ r.list = k.list
    BY <1>2, <1>3, <2>1 DEF Only
  <2>3. /\ Same(r.call[c], x, {"pending", "result", "streams"})
        /\ r.call[c].pending = FALSE /\ r.call[c].result = dir
        /\ r.call[c].streams = x.streams
    BY <1>2, <1>3, <2>1 DEF Same, Fields
  <2> QED
    BY <1>7, <2>2, <2>3 DEF r, Streamed
<1>8. CASE ~(Started(x.streams) /\ x.result = dir)
  <2>1. r = k3
    BY <1>1, <1>8
  <2>2. Only(r, k, c) /\ r.current = k.current /\ r.list = k.list
    BY <1>2, <1>3, <1>6, <2>1 DEF Only
  <2>3. /\ Same(r.call[c], x, {"pending", "result", "streams"})
        /\ r.call[c].pending = FALSE /\ r.call[c].result = dir
        /\ r.call[c].streams = v
    BY <1>2, <1>3, <1>6, <2>1, SMTT(60) DEF Same, Fields
  <2> QED
    BY <1>5, <2>2, <2>3 DEF r, Streamed
<1> QED
  BY <1>7, <1>8

\* sal_call_update.
Asked(r, k, c, ok) ==
    /\ Only(r, k, c) /\ Same(r.call[c], k.call[c], {"mine"})
    /\ r.call[c].mine = (k.call[c].mine \/ CanUpdate(k, c, ok))
    /\ r.current = k.current /\ r.list = k.list

\* sal_call_update sends a re-INVITE when it can.
LEMMA SalUpdate ==
    ASSUME NEW k \in Core, NEW c \in Calls, NEW ok \in BOOLEAN
    PROVE  Asked(sal_call_update(k, c, ok), k, c, ok)
<1> DEFINE v == (k.call[c].mine \/ CanUpdate(k, c, ok))
<1>1. v \in BOOLEAN
  OBVIOUS
<1>2. sal_call_update(k, c, ok) = PutMine(k, c, v)
  BY DEF sal_call_update, PutMine
<1> HIDE DEF v
<1>3. LET r == PutMine(k, c, v) IN
      /\ Only(r, k, c) /\ Same(r.call[c], k.call[c], {"mine"})
      /\ r.call[c].mine = v
      /\ r.current = k.current /\ r.list = k.list
  BY <1>1, MinePut
<1> QED
  BY <1>2, <1>3 DEF v, Asked

\* sal_call_accept.
Accepted(r, k, c) ==
    /\ Only(r, k, c) /\ Same(r.call[c], k.call[c], {"op", "theirs", "ack"})
    /\ r.call[c].op = "confirmed" /\ r.call[c].theirs = None
    /\ r.current = k.current /\ r.list = k.list

\* sal_call_accept answers the offer that is waiting.
LEMMA SalAccept ==
    ASSUME NEW k \in Core, NEW c \in Calls
    PROVE  Accepted(sal_call_accept(k, c), k, c)
<1> DEFINE a == IF k.call[c].theirs = "bare" THEN "answer" ELSE "plain"
           k1 == PutOp(k, c, "confirmed")
           k2 == PutTheirs(k1, c, None)
           r == PutAck(k2, c, a)
<1>1. sal_call_accept(k, c) = r
  BY DEF sal_call_accept, PutOp, PutTheirs, PutAck
<1>2. /\ Only(k1, k, c) /\ k1.call[c].op = "confirmed" /\ Same(k1.call[c], k.call[c], {"op"})
      /\ k1.current = k.current /\ k1.list = k.list /\ k1 \in Core
  BY OpPut DEF Only
<1> HIDE DEF k1
<1>3. /\ Only(k2, k1, c) /\ k2.call[c].theirs = None /\ Same(k2.call[c], k1.call[c], {"theirs"})
      /\ k2.current = k1.current /\ k2.list = k1.list /\ k2 \in Core
  BY <1>2, TheirsPut DEF Only
<1> HIDE DEF k2
<1>4. a \in {"none", "plain", "answer"}
  OBVIOUS
<1> HIDE DEF a
<1>5. /\ Only(r, k2, c) /\ Same(r.call[c], k2.call[c], {"ack"})
      /\ r.current = k2.current /\ r.list = k2.list
  BY <1>3, <1>4, AckPut
<1> HIDE DEF r
<1>6. Only(r, k, c) /\ r.current = k.current /\ r.list = k.list
  BY <1>2, <1>3, <1>5 DEF Only
<1>7. /\ Same(r.call[c], k.call[c], {"op", "theirs", "ack"})
      /\ r.call[c].op = "confirmed" /\ r.call[c].theirs = None
  BY <1>2, <1>3, <1>5 DEF Same, Fields
<1> QED
  BY <1>1, <1>6, <1>7 DEF Accepted

\* sal_call_terminate and sal_call_decline.
Told(r, k, c) ==
    LET x == k.call[c]
        y == r.call[c]
    IN  /\ Only(r, k, c) /\ Same(y, x, {"giving", "op"})
        /\ y.giving = TRUE /\ y.op = IF x.op = "offered" THEN "dead" ELSE x.op
        /\ r.current = k.current /\ r.list = k.list

\* sal_call_terminate ends the operation as far as it has come.
LEMMA SalTerminate ==
    ASSUME NEW k \in Core, NEW c \in Calls
    PROVE  Told(sal_call_terminate(k, c), k, c)
<1> DEFINE o == IF k.call[c].op = "offered" THEN "dead" ELSE k.call[c].op
           k1 == PutGiving(k, c, TRUE)
           r == PutOp(k1, c, o)
<1>1. sal_call_terminate(k, c) = r
  BY DEF sal_call_terminate, PutGiving, PutOp
<1>2. /\ Only(k1, k, c) /\ k1.call[c].giving = TRUE /\ Same(k1.call[c], k.call[c], {"giving"})
      /\ k1.current = k.current /\ k1.list = k.list /\ k1 \in Core
  BY GivingPut, ZenonT(90) DEF Only
<1> HIDE DEF k1
<1>3. o \in {"new", "inviting", "early", "offered", "confirmed", "dead", "gone"}
  BY Typed
<1> HIDE DEF o
<1>4. /\ Only(r, k1, c) /\ r.call[c].op = o /\ Same(r.call[c], k1.call[c], {"op"})
      /\ r.current = k1.current /\ r.list = k1.list
  BY <1>2, <1>3, OpPut
<1> HIDE DEF r
<1>5. Only(r, k, c) /\ r.current = k.current /\ r.list = k.list
  BY <1>2, <1>4 DEF Only
<1>6. /\ Same(r.call[c], k.call[c], {"giving", "op"})
      /\ r.call[c].giving = TRUE /\ r.call[c].op = o
  BY <1>2, <1>4 DEF Same, Fields
<1> QED
  BY <1>1, <1>5, <1>6 DEF o, Told

-----------------------------------------------------------------------------
(* What the handlers make of them.                                         *)

\* The streams of a call are stopped and it ends or fails.
Finished(r, k, c, s) ==
    LET x == k.call[c]
        y == r.call[c]
    IN  /\ Only(r, k, c) /\ Same(y, x, {"streams", "state", "prev"})
        /\ y.streams = "none"
        /\ y.state = IF x.state \in Ended THEN x.state ELSE s
        /\ r.current = IF x.state \notin Ended /\ k.current = c THEN None ELSE k.current
        /\ r.list = IF x.state \notin Ended THEN k.list \ {c} ELSE k.list

\* Stopping the streams and setting a final state, as most callbacks that end a call do.
LEMMA StopAndEnd ==
    ASSUME NEW k \in Core, NEW c \in Calls, NEW s \in Ended
    PROVE  Finished(set_state(stop_media_streams(k, c), c, s), k, c, s)
<1> DEFINE k1 == stop_media_streams(k, c)
           r == set_state(k1, c, s)
           x == k.call[c]
<1>1. Stopped(k1, k, c)
  BY Stop
<1>2. k1 \in Core
  BY <1>1 DEF Stopped, Only
<1> HIDE DEF k1
<1>3. s \in States /\ s # "Released" /\ s \in Ended
  BY DEF Ended, States
<1>4. StateSet(r, k1, c, s)
  BY <1>2, <1>3, SetState
<1> HIDE DEF r
<1>5. k1.call[c].state = x.state /\ k1.call[c].op = x.op /\ k1.current = k.current
      /\ k1.list = k.list
  BY <1>1 DEF Stopped, Same, Fields
<1>6. Only(r, k, c)
  BY <1>1, <1>4 DEF Stopped, StateSet, Only
<1>7. Same(r.call[c], x, {"streams", "state", "prev"}) /\ r.call[c].streams = "none"
  BY <1>1, <1>3, <1>4, <1>5 DEF Stopped, StateSet, Same, Fields
<1>8. /\ r.call[c].state = IF x.state \in Ended THEN x.state ELSE s
      /\ r.current = IF x.state \notin Ended /\ k.current = c THEN None ELSE k.current
      /\ r.list = IF x.state \notin Ended THEN k.list \ {c} ELSE k.list
  BY <1>3, <1>4, <1>5 DEF StateSet
<1> QED
  BY <1>6, <1>7, <1>8 DEF k1, r, Finished

\* The same, when the operation is told first.
GivenUp(r, k, c, s) ==
    LET x == k.call[c]
        y == r.call[c]
    IN  /\ Only(r, k, c) /\ Same(y, x, {"giving", "op", "streams", "state", "prev"})
        /\ y.giving = TRUE /\ y.op = IF x.op = "offered" THEN "dead" ELSE x.op
        /\ y.streams = "none"
        /\ y.state = IF x.state \in Ended THEN x.state ELSE s
        /\ r.current = IF x.state \notin Ended /\ k.current = c THEN None ELSE k.current
        /\ r.list = IF x.state \notin Ended THEN k.list \ {c} ELSE k.list

\* The same with the operation terminated first, as a call that is given up is.
LEMMA GiveUp ==
    ASSUME NEW k \in Core, NEW c \in Calls, NEW s \in Ended
    PROVE  GivenUp(set_state(stop_media_streams(sal_call_terminate(k, c), c), c, s), k, c, s)
<1> DEFINE k1 == sal_call_terminate(k, c)
           r == set_state(stop_media_streams(k1, c), c, s)
           x == k.call[c]
<1>1. Told(k1, k, c)
  BY SalTerminate
<1>2. k1 \in Core
  BY <1>1 DEF Told, Only
<1> HIDE DEF k1
<1>3. Finished(r, k1, c, s)
  BY <1>2, StopAndEnd
<1> HIDE DEF r
<1>4. k1.call[c].state = x.state /\ k1.current = k.current /\ k1.list = k.list
  BY <1>1 DEF Told, Same, Fields
<1>5. Only(r, k, c)
  BY <1>1, <1>3 DEF Told, Finished, Only
<1>6. /\ Same(r.call[c], x, {"giving", "op", "streams", "state", "prev"})
      /\ r.call[c].giving = TRUE /\ r.call[c].op = k1.call[c].op
      /\ r.call[c].streams = "none"
  BY <1>1, <1>3 DEF Told, Finished, Same, Fields
<1>7. /\ r.call[c].state = IF x.state \in Ended THEN x.state ELSE s
      /\ r.current = IF x.state \notin Ended /\ k.current = c THEN None ELSE k.current
      /\ r.list = IF x.state \notin Ended THEN k.list \ {c} ELSE k.list
  BY <1>3, <1>4 DEF Finished
<1>8. k1.call[c].op = IF x.op = "offered" THEN "dead" ELSE x.op
  BY <1>1 DEF Told
<1> QED
  BY <1>5, <1>6, <1>7, <1>8 DEF k1, r, GivenUp

\* The streams of a call follow a description, and its state with them.
Followed(r, k, c, dir, s) ==
    LET x == k.call[c]
        y == r.call[c]
    IN  /\ Only(r, k, c)
        /\ Same(y, x, {"pending", "result", "streams", "state", "prev"})
        /\ y.pending = FALSE /\ y.result = dir
        /\ y.streams = "card" => \/ dir \in {"sendrecv", "recvonly"}
                                 \/ x.streams = "card" /\ x.result = dir
        /\ y.state = IF x.state \in Ended THEN x.state ELSE s
        /\ y.prev = IF s = x.state THEN x.prev ELSE x.state
        /\ r.current = k.current /\ r.list = k.list

\* What the callbacks do with a negotiated direction: a state, and streams that fit it.
LEMMA Follow ==
    ASSUME NEW k \in Core, NEW c \in Calls, NEW dir \in Directions \cup {None},
           NEW s \in Live \cup Ended, s \in Ended => s = k.call[c].state
    PROVE  Followed(set_state(update_streams(k, c, dir), c, s), k, c, dir, s)
<1> DEFINE k1 == update_streams(k, c, dir)
           r == set_state(k1, c, s)
           x == k.call[c]
<1>1. Streamed(k1, k, c, dir)
  BY UpdateStreams
<1>2. k1 \in Core
  BY <1>1 DEF Streamed, Only
<1> HIDE DEF k1
<1>3. s \in States /\ s # "Released"
  BY DEF Live, Ended, States
<1>4. StateSet(r, k1, c, s)
  BY <1>2, <1>3, SetState
<1> HIDE DEF r
<1>5. /\ k1.call[c].state = x.state /\ k1.call[c].op = x.op /\ k1.call[c].prev = x.prev
      /\ k1.current = k.current /\ k1.list = k.list
  BY <1>1 DEF Streamed, Same, Fields
<1>6. Only(r, k, c)
  BY <1>1, <1>4 DEF Streamed, StateSet, Only
<1>7. /\ Same(r.call[c], x, {"pending", "result", "streams", "state", "prev"})
      /\ r.call[c].pending = FALSE /\ r.call[c].result = dir
      /\ r.call[c].streams = k1.call[c].streams
  BY <1>1, <1>3, <1>4, <1>5 DEF Streamed, StateSet, Same, Fields
<1>8. /\ r.call[c].state = IF x.state \in Ended THEN x.state ELSE s
      /\ r.call[c].prev = IF s = x.state THEN x.prev ELSE x.state
  BY <1>3, <1>4, <1>5 DEF StateSet
<1>9. r.current = k.current /\ r.list = k.list
  BY <1>4, <1>5 DEF StateSet
<1>10. k1.call[c].streams = "card" => \/ dir \in {"sendrecv", "recvonly"}
                                      \/ x.streams = "card" /\ x.result = dir
  BY <1>1 DEF Streamed
<1> QED
  BY <1>6, <1>7, <1>8, <1>9, <1>10 DEF k1, r, Followed

\* An offer of theirs is answered, and the streams and the state follow.
AnswerFollowed(r, k, c, dir, s) ==
    LET x == k.call[c]
        y == r.call[c]
    IN  /\ Only(r, k, c)
        /\ Same(y, x, {"op", "theirs", "ack", "pending", "result", "streams",
                       "state", "prev"})
        /\ y.op = "confirmed" /\ y.theirs = None
        /\ y.pending = FALSE /\ y.result = dir
        /\ y.streams = "card" => \/ dir \in {"sendrecv", "recvonly"}
                                 \/ x.streams = "card" /\ x.result = dir
        /\ y.state = IF x.state \in Ended THEN x.state ELSE s
        /\ y.prev = IF s = x.state THEN x.prev ELSE x.state
        /\ r.current = k.current /\ r.list = k.list

\* The same for an offer of the peer, which is answered first.
LEMMA AnswerAndFollow ==
    ASSUME NEW k \in Core, NEW c \in Calls, NEW dir \in Directions \cup {None},
           NEW s \in Live \cup Ended, s \in Ended => s = k.call[c].state
    PROVE  AnswerFollowed(set_state(update_streams(sal_call_accept(k, c), c, dir), c, s),
                     k, c, dir, s)
<1> DEFINE k1 == sal_call_accept(k, c)
           r == set_state(update_streams(k1, c, dir), c, s)
           x == k.call[c]
<1>1. Accepted(k1, k, c)
  BY SalAccept
<1>2. k1 \in Core
  BY <1>1 DEF Accepted, Only
<1> HIDE DEF k1
<1>3. /\ k1.call[c].state = x.state /\ k1.call[c].prev = x.prev
      /\ k1.call[c].streams = x.streams /\ k1.call[c].result = x.result
      /\ k1.current = k.current /\ k1.list = k.list
  BY <1>1 DEF Accepted, Same, Fields
<1>4. Followed(r, k1, c, dir, s)
  BY <1>2, <1>3, Follow
<1> HIDE DEF r
<1>5. Only(r, k, c)
  BY <1>1, <1>4 DEF Accepted, Followed, Only
<1>6. /\ Same(r.call[c], x, {"op", "theirs", "ack", "pending", "result", "streams",
                             "state", "prev"})
      /\ r.call[c].op = "confirmed" /\ r.call[c].theirs = None
  BY <1>1, <1>4 DEF Accepted, Followed, Same, Fields
<1>7. /\ r.call[c].pending = FALSE /\ r.call[c].result = dir
      /\ r.call[c].streams = "card" => \/ dir \in {"sendrecv", "recvonly"}
                                       \/ x.streams = "card" /\ x.result = dir
      /\ r.call[c].state = IF x.state \in Ended THEN x.state ELSE s
      /\ r.call[c].prev = IF s = x.state THEN x.prev ELSE x.state
      /\ r.current = k.current /\ r.list = k.list
  BY <1>3, <1>4 DEF Followed
<1> QED
  BY <1>5, <1>6, <1>7 DEF k1, r, AnswerFollowed

\* _linphone_core_pause_call, of a call that can be paused.
PutOnHold(r, k, c, ok) ==
    LET x == k.call[c]
        y == r.call[c]
    IN  /\ Only(r, k, c) /\ Same(y, x, {"local", "mine", "state", "prev", "streams"})
        /\ y.local = "sendonly" /\ y.mine = (x.mine \/ CanUpdate(k, c, ok))
        /\ y.state = "Pausing" /\ y.prev = x.state /\ y.streams = "none"
        /\ r.current = None /\ r.list = k.list

\* _linphone_core_pause_call, whether or not its re-INVITE is sent.
LEMMA PauseCall ==
    ASSUME NEW k \in Core, NEW c \in Calls, NEW ok \in BOOLEAN,
           Pausable(k, c), k.call[c].result # "sendonly"
    PROVE  PutOnHold(pause_call(k, c, ok), k, c, ok)
<1> DEFINE held == PutLocal(k, c, "sendonly")
           asked == sal_call_update(held, c, ok)
           sent == PutCurrent(asked, None)
           k1 == set_state(sent, c, "Pausing")
           r == stop_media_streams(k1, c)
           x == k.call[c]
<1>1. pause_call(k, c, ok) = r
  BY DEF pause_call, PutLocal, PutCurrent
<1>2. /\ Only(held, k, c) /\ Same(held.call[c], x, {"local"})
      /\ held.call[c].local = "sendonly" /\ held.list = k.list /\ held \in Core
  <2>1. "sendonly" \in Directions
    BY DEF Directions
  <2> QED
    BY <2>1, LocalPut DEF Only
<1> HIDE DEF held
<1>3. CanUpdate(held, c, ok) = CanUpdate(k, c, ok) /\ held.call[c].mine = x.mine
  BY <1>2 DEF CanUpdate, Same, Fields
<1>4. Asked(asked, held, c, ok)
  BY <1>2, SalUpdate
<1> HIDE DEF asked
<1>5. /\ Only(asked, k, c) /\ Same(asked.call[c], x, {"local", "mine"})
      /\ asked.call[c].local = "sendonly"
      /\ asked.call[c].mine = (x.mine \/ CanUpdate(k, c, ok))
      /\ asked.list = k.list /\ asked \in Core
  <2>1. Only(asked, k, c) /\ asked \in Core /\ asked.list = k.list
    BY <1>2, <1>4 DEF Asked, Only
  <2>2. Same(asked.call[c], x, {"local", "mine"}) /\ asked.call[c].local = "sendonly"
    BY <1>2, <1>4 DEF Asked, Same, Fields
  <2>3. asked.call[c].mine = (x.mine \/ CanUpdate(k, c, ok))
    BY <1>3, <1>4 DEF Asked
  <2> QED
    BY <2>1, <2>2, <2>3
<1>6. sent \in Core /\ sent.call = asked.call /\ sent.current = None /\ sent.list = asked.list
  BY <1>5, CurrentPut
<1> HIDE DEF sent
<1>7. "Pausing" \in States /\ x.state \notin Ended /\ x.state # "Pausing"
  BY DEF States, Pausable, Ended
<1>8. sent.call[c].state = x.state
  BY <1>5, <1>6 DEF Same, Fields
<1>9. StateSet(k1, sent, c, "Pausing")
  BY <1>6, <1>7, SetState
<1> HIDE DEF k1
<1>10. /\ Only(k1, sent, c) /\ Same(k1.call[c], sent.call[c], {"state", "prev"})
       /\ k1.call[c].state = "Pausing" /\ k1.call[c].prev = x.state
       /\ k1.current = None /\ k1.list = k.list /\ k1 \in Core
  <2>1. Only(k1, sent, c) /\ k1 \in Core
    BY <1>9 DEF StateSet, Only
  <2>2. "Pausing" \notin Ended /\ "Pausing" # "Released"
    BY DEF Ended
  <2>3. /\ k1.call[c].state = "Pausing" /\ k1.call[c].prev = x.state
        /\ k1.current = None /\ k1.list = k.list
    BY <1>5, <1>6, <1>7, <1>8, <1>9, <2>2 DEF StateSet
  <2>4. Same(k1.call[c], sent.call[c], {"state", "prev"})
    BY <1>9, <2>2 DEF StateSet, Same, Fields
  <2> QED
    BY <2>1, <2>3, <2>4
<1>11. Stopped(r, k1, c)
  BY <1>10, Stop
<1> HIDE DEF r
<1>12. Only(r, k, c) /\ r.current = None /\ r.list = k.list
  BY <1>5, <1>6, <1>10, <1>11 DEF Only, Stopped
<1>13. /\ Same(r.call[c], x, {"local", "mine", "state", "prev", "streams"})
       /\ r.call[c].local = "sendonly" /\ r.call[c].mine = asked.call[c].mine
       /\ r.call[c].state = "Pausing" /\ r.call[c].prev = x.state
       /\ r.call[c].streams = "none"
  BY <1>5, <1>6, <1>10, <1>11 DEF Stopped, Same, Fields
<1> QED
  BY <1>1, <1>5, <1>12, <1>13 DEF PutOnHold

-----------------------------------------------------------------------------
(* The invariant.                                                          *)

\* Which states go with which phase of the operation.
Phase(x) ==
    /\ x.op = "new" => x.state \in {"Idle", "OutgoingInit", "Error"}
    /\ x.op = "offered" => x.state = "IncomingReceived"
    /\ x.op \in {"inviting", "early"} =>
           x.state \in Calling \/ (x.giving /\ x.state \in Ended)
    /\ x.op = "confirmed" => x.state \in Live \cup Ended
    /\ x.op = "dead" => x.state \in Ended
    /\ x.op = "gone" => x.state \in Over
    /\ x.giving => x.state \in Over

(* Who waits for whom.  A call with a re-INVITE of ours has left another     *)
(* state of a call that is up, to which a 491 takes it back.                 *)
Turns(x) ==
    /\ x.op \in {"new", "offered", "inviting", "early"} => ~x.mine
    /\ x.op \in {"new", "inviting", "early"} => x.theirs = None
    /\ x.mine => x.theirs = None
    /\ x.mine /\ ~x.giving /\ x.op = "confirmed" => x.state \in Live \ {"Connected"}
    /\ x.state \in Live \ {"Connected"} => x.prev \in Live

(* Unless a peer refused a re-INVITE for good, a call that is over has told  *)
(* its operation, or needs not.  It has no streams, unless its peer made no  *)
(* offer or has sent a re-INVITE that was let in behind a BYE.               *)
Silence(x) ==
    /\ ~setting.refuse /\ x.state \in Over =>
           x.giving \/ x.op \in {"new", "gone", "dead"}
    /\ ~setting.refuse /\ ~setting.bare /\ ~setting.collide /\ x.state \in Over =>
           x.streams = "none"
    /\ x.streams = "card" => x.result \in {"sendrecv", "recvonly"}
    /\ x.local \in {"sendonly", "sendrecv"}

(* What is put on hold only sends, and can always be resumed.                *)
Polite == ~setting.collide /\ ~setting.busy /\ ~setting.mute

Held(x) ==
    Polite =>
        /\ x.state \in {"Pausing", "Paused"} => x.local = "sendonly" /\ x.streams # "card"
        /\ x.state = "Paused" => ~x.mine /\ x.theirs = None

\* A regular life: what is not on hold can be put there.
Plain(x) ==
    Regular =>
        /\ x.state \notin {"Pausing", "Paused"} \cup Over => x.local = "sendrecv"
        /\ x.state \in {"StreamsRunning", "PausedByRemote"} => x.result # "sendonly"
        /\ x.op = "confirmed" /\ ~x.giving => ~x.pending
        /\ x.op \in {"new", "offered"} => x.streams # "card"
        /\ x.theirs \in {None, "sendrecv", "sendonly"}

(* An ACK is due of a confirmed call only.  As long as all offers have a     *)
(* description no streams wait for it: it starts none, however late it is.   *)
Due(x) ==
    /\ x.op \in {"new", "offered", "inviting", "early"} => x.ack = "none"
    /\ ~setting.bare => x.theirs # "bare" /\ (x.ack # "none" => ~x.pending)

Good(x) == Phase(x) /\ Turns(x) /\ Silence(x) /\ Held(x) /\ Plain(x) /\ Due(x)

Book(k) ==
    /\ \A c \in Calls : c \in k.list <=> k.call[c].state \notin Over \cup {"Idle"}
    /\ k.current \in k.list \cup {None}

\* Those that do not need to be the current call.
Still == {"Idle", "IncomingReceived", "Pausing", "Paused"} \cup Over

Front(k) == Regular => \A c \in Calls : k.call[c].state \notin Still => k.current = c

Sound(k) == k \in Core /\ (\A c \in Calls : Good(k.call[c])) /\ Book(k) /\ Front(k)

Inv == setting \in Settings /\ Sound(core)

-----------------------------------------------------------------------------
(* How it is kept.                                                         *)

\* The other calls need not be the current one when it is c, or none.
LEMMA Others ==
    ASSUME NEW k, Sound(k), NEW c \in Calls, k.current \in {c, None}, Regular
    PROVE  \A d \in Calls : d # c => k.call[d].state \in Still
  BY CallsAssumption DEF Sound, Front

(* A step that changes one call keeps the invariant when that call is good,  *)
(* and when the list and the current call are right for it.                  *)
Booked(r, k, c) ==
    LET y == r.call[c] IN
    /\ c \in r.list <=> y.state \notin Over \cup {"Idle"}
    /\ \A d \in Calls : d # c => (d \in r.list <=> d \in k.list)
    /\ Regular /\ y.state \notin Still => r.current = c
    /\ \/ r.current = k.current /\ (k.current = c => c \in r.list)
       \/ r.current = None /\ (Regular => k.current \in {c, None})
       \/ /\ r.current = c /\ c \in r.list
          /\ Regular => \A d \in Calls : d # c => k.call[d].state \in Still

\* A step of one call that is good afterwards, and keeps the book right, keeps all.
LEMMA OneCall ==
    ASSUME NEW k, Sound(k), NEW c \in Calls, NEW r,
           Only(r, k, c), Good(r.call[c]), Booked(r, k, c)
    PROVE  Sound(r)
<1>1. /\ r \in Core /\ \A d \in Calls : d # c => r.call[d] = k.call[d]
      /\ k \in Core /\ \A d \in Calls : Good(k.call[d])
  BY DEF Only, Sound
<1>2. \A d \in Calls : Good(r.call[d])
  BY <1>1
<1>3. Book(r)
  <2>1. \A d \in Calls : d \in r.list <=> r.call[d].state \notin Over \cup {"Idle"}
    BY <1>1 DEF Booked, Sound, Book
  <2>2. r.current \in r.list \cup {None}
    <3>1. k.current \in k.list \cup {None} /\ k.list \in SUBSET Calls
      BY <1>1 DEF Sound, Book, Core
    <3>2. CASE r.current = k.current /\ (k.current = c => c \in r.list)
      BY <3>1, <3>2 DEF Booked
    <3>3. CASE r.current = None
      BY <3>3
    <3>4. CASE r.current = c /\ c \in r.list
      BY <3>4
    <3> QED
      BY <3>2, <3>3, <3>4 DEF Booked
  <2> QED
    BY <2>1, <2>2 DEF Book
<1>4. Front(r)
  <2> SUFFICES ASSUME Regular, NEW d \in Calls, r.call[d].state \notin Still
               PROVE  r.current = d
    BY DEF Front
  <2>1. CASE d = c
    BY <2>1 DEF Booked
  <2>2. CASE d # c
    <3>1. k.call[d].state \notin Still
      BY <1>1, <2>2
    <3>2. k.current = d
      BY <3>1 DEF Sound, Front
    <3>3. k.current \notin {c, None}
      BY <2>2, <3>2, CallsAssumption
    <3> QED
      BY <2>2, <3>1, <3>2, <3>3 DEF Booked
  <2> QED
    BY <2>1, <2>2
<1> QED
  BY <1>1, <1>2, <1>3, <1>4 DEF Sound

\* A call that is put on hold.
LEMMA OnHoldKeeps ==
    ASSUME NEW k, Sound(k), NEW c \in Calls, NEW ok \in BOOLEAN, Pausable(k, c),
           k.call[c].result # "sendonly", Regular => k.current = c,
           NEW r, r = pause_call(k, c, ok)
    PROVE  Sound(r) /\ Only(r, k, c) /\ r.call[c].state = "Pausing"
           /\ r.current = None /\ r.list = k.list
<1> DEFINE x == k.call[c]
           y == r.call[c]
<1>1. k \in Core /\ Good(x) /\ x.state \in {"StreamsRunning", "PausedByRemote"}
  BY DEF Sound, Pausable
<1>2. PutOnHold(r, k, c, ok)
  BY <1>1, PauseCall
<1>3. Only(r, k, c)
  BY <1>2 DEF PutOnHold
<1>4. /\ y.op = x.op /\ y.giving = x.giving /\ y.theirs = x.theirs /\ y.result = x.result
      /\ y.pending = x.pending /\ y.ack = x.ack
      /\ y.local = "sendonly" /\ y.state = "Pausing" /\ y.prev = x.state
      /\ y.streams = "none" /\ r.current = None /\ r.list = k.list
  BY <1>2 DEF PutOnHold, Same, Fields
<1>5. y.mine => x.mine \/ (x.op = "confirmed" /\ x.theirs = None)
  BY <1>2 DEF PutOnHold, CanUpdate
<1> HIDE DEF y
<1>6. x.op \in {"new", "inviting", "early", "offered", "confirmed", "dead", "gone"}
  BY <1>1, Typed
<1>7. x.op = "confirmed" /\ ~x.giving
  BY <1>1, <1>6 DEF Good, Phase, Calling, Ended, Over
<1> HIDE DEF x
<1>8. Phase(y)
  BY <1>4, <1>7 DEF Phase, Live
<1>9. Turns(y)
  BY <1>1, <1>4, <1>5, <1>7 DEF Good, Turns, Live
<1>10. Silence(y)
  BY <1>4 DEF Silence, Over
<1>11. Held(y)
  BY <1>4 DEF Held
<1>12. Plain(y)
  BY <1>1, <1>4, <1>7 DEF Good, Plain
<1>13. Good(y)
  <2>1. Due(y)
    BY <1>1, <1>4, <1>7 DEF Good, Due
  <2> QED
    BY <1>8, <1>9, <1>10, <1>11, <1>12, <2>1 DEF Good
<1>14. Booked(r, k, c)
  <2>1. y.state \notin Over \cup {"Idle"} /\ y.state \in Still
    BY <1>4 DEF Over, Still
  <2>2. c \in k.list
    <3>1. x.state \notin Over \cup {"Idle"}
      BY <1>1 DEF Over
    <3> QED
      BY <3>1 DEF Sound, Book, x
  <2> QED
    BY <1>4, <2>1, <2>2 DEF Booked, y
<1> QED
  BY <1>3, <1>4, <1>13, <1>14, OneCall DEF y

\* preempt_sound_resources: after it no other call has to be the current one,
\* if that one was settled.
LEMMA PreemptKeeps ==
    ASSUME NEW k, Sound(k), NEW ok \in BOOLEAN, NEW c \in Calls, c # k.current,
           NEW r, r = preempt_sound_resources(k, ok),
           Regular /\ k.current # None =>
               k.call[k.current].state \in {"StreamsRunning", "Paused", "PausedByRemote"}
    PROVE  /\ Sound(r) /\ r.call[c] = k.call[c] /\ r.list = k.list
           /\ r.current \in {k.current, None}
           /\ Regular => \A d \in Calls : d # c => r.call[d].state \in Still
<1>1. k \in Core /\ k.current \in Calls \cup {None} /\ \A d \in Calls : Good(k.call[d])
  BY DEF Sound, Core
<1>2. CASE k.current = None
  <2>1. r = k
    BY <1>2 DEF preempt_sound_resources
  <2> QED
    BY <1>2, <2>1, Others
<1>3. CASE k.current # None
  <2> DEFINE b == k.current
  <2>1. b \in Calls /\ r = pause_call(k, b, ok)
    BY <1>1, <1>3 DEF preempt_sound_resources
  <2>2. Regular => \A d \in Calls : d # b => k.call[d].state \in Still
    BY <2>1, Others
  <2>3. CASE ~Pausable(k, b) \/ k.call[b].result = "sendonly"
    <3>1. r = k
      BY <2>1, <2>3 DEF pause_call
    <3>2. Regular => k.call[b].state \in Still
      <4>1. ASSUME Regular PROVE k.call[b].state \in Still
        <5>1. k.call[b].state \in {"StreamsRunning", "PausedByRemote"} =>
                  k.call[b].result # "sendonly"
          BY <1>1, <2>1, <4>1 DEF Good, Plain
        <5>2. k.call[b].state = "Paused"
          BY <1>3, <2>3, <4>1, <5>1 DEF Pausable
        <5> QED
          BY <5>2 DEF Still
      <4> QED
        BY <4>1
    <3> QED
      BY <2>1, <2>2, <3>1, <3>2
  <2>4. CASE Pausable(k, b) /\ k.call[b].result # "sendonly"
    <3>1. Sound(r) /\ Only(r, k, b) /\ r.call[b].state = "Pausing"
          /\ r.current = None /\ r.list = k.list
      BY <2>1, <2>4, OnHoldKeeps
    <3>2. \A d \in Calls : d # b => r.call[d] = k.call[d]
      BY <3>1 DEF Only
    <3>3. r.call[b].state \in Still
      BY <3>1 DEF Still
    <3> QED
      BY <2>1, <2>2, <3>1, <3>2, <3>3
  <2> QED
    BY <2>3, <2>4
<1> QED
  BY <1>2, <1>3

\* A new call is good.
LEMMA NewIsGood == Good(NewCall)
<1> DEFINE y == NewCall
<1>1. /\ y.state = "Idle" /\ y.op = "new" /\ y.giving = FALSE /\ y.mine = FALSE
      /\ y.theirs = None /\ y.local = "sendrecv" /\ y.streams = "none"
      /\ y.ack = "none"
  BY DEF NewCall
<1> HIDE DEF y
<1>2. Phase(y)
  BY <1>1 DEF Phase
<1>3. Turns(y)
  BY <1>1 DEF Turns, Live
<1>4. Silence(y) /\ Held(y) /\ Plain(y)
  BY <1>1 DEF Silence, Held, Plain, Over
<1>5. Due(y)
  BY <1>1, CallsAssumption DEF Due
<1> QED
  BY <1>2, <1>3, <1>4, <1>5 DEF y, Good

\* A call that begins anew.
LEMMA NewKeeps ==
    ASSUME Sound(core), NEW c \in Calls, Free(c), NEW r, r = New(c)
    PROVE  /\ Sound(r) /\ Only(r, core, c) /\ r.call[c] = NewCall /\ c \notin r.list
           /\ r.current # c /\ r.current = core.current /\ r.list = core.list
<1>1. core \in Core
  BY DEF Sound
<1>2. NewCall \in Call
  BY DEF NewCall, Call, States, Directions
<1>3. r = PutCall(core, c, NewCall)
  BY DEF New, PutCall
<1>4. /\ Only(r, core, c) /\ r.call[c] = NewCall
      /\ r.current = core.current /\ r.list = core.list
  BY <1>1, <1>2, <1>3, CallPut
<1>5. c \notin core.list /\ core.current # c
  <2>1. core.call[c].state \in Over \cup {"Idle"}
    BY DEF Free
  <2> QED
    BY <2>1, CallsAssumption DEF Sound, Book
<1>6. Booked(r, core, c)
  <2>1. r.call[c].state = "Idle"
    BY <1>4 DEF NewCall
  <2>2. r.call[c].state \in Still
    BY <2>1 DEF Still
  <2> QED
    BY <1>4, <1>5, <2>1, <2>2 DEF Booked
<1> QED
  BY <1>4, <1>5, <1>6, NewIsGood, OneCall

-----------------------------------------------------------------------------
(* The commands and the callbacks.                                         *)

\* What a good call is, from its state.
LEMMA PhaseOf ==
    ASSUME NEW k, Sound(k), NEW c \in Calls, NEW x, x = k.call[c]
    PROVE  /\ k \in Core /\ x \in Call /\ x.state \in States
           /\ Phase(x) /\ Turns(x) /\ Silence(x) /\ Held(x) /\ Plain(x) /\ Due(x)
           /\ x.state \in Live => x.op = "confirmed" /\ ~x.giving
           /\ x.state \in Calling => x.op \in {"inviting", "early"} /\ ~x.giving
           /\ x.state = "IncomingReceived" => x.op = "offered" /\ ~x.giving
           /\ x.state = "OutgoingInit" => x.op = "new" /\ ~x.giving
           /\ c \in k.list <=> x.state \notin Over \cup {"Idle"}
           /\ k.current = c => c \in k.list
           /\ Regular /\ x.state \notin Still => k.current = c
           /\ k.list \in SUBSET Calls /\ k.current \in Calls \cup {None}
<1>1. k \in Core /\ Good(x)
  BY DEF Sound
<1>2. /\ x.op \in {"new", "inviting", "early", "offered", "confirmed", "dead", "gone"}
      /\ x.state \in States /\ x \in Call
  BY <1>1, Typed
<1>3. Phase(x) /\ Turns(x) /\ Silence(x) /\ Held(x) /\ Plain(x) /\ Due(x)
  BY <1>1 DEF Good
<1>4. /\ x.state \in Live => x.op = "confirmed" /\ ~x.giving
      /\ x.state \in Calling => x.op \in {"inviting", "early"} /\ ~x.giving
      /\ x.state = "IncomingReceived" => x.op = "offered" /\ ~x.giving
      /\ x.state = "OutgoingInit" => x.op = "new" /\ ~x.giving
  BY ONLY <1>2, <1>3 DEF Phase, Live, Calling, Ended, Over
<1>5. /\ c \in k.list <=> x.state \notin Over \cup {"Idle"}
      /\ k.current = c => c \in k.list
      /\ Regular /\ x.state \notin Still => k.current = c
      /\ k.list \in SUBSET Calls /\ k.current \in Calls \cup {None}
  BY <1>1, CallsAssumption DEF Sound, Book, Front, Core
<1> QED
  BY <1>1, <1>2, <1>3, <1>4, <1>5

\* A call that is over has left the list, and is not the current one.
LEMMA BookedOver ==
    ASSUME NEW k, Sound(k), NEW c \in Calls, NEW r, NEW y, y = r.call[c],
           y.state \in Over,
           \/ k.call[c].state \in Over /\ r.list = k.list /\ r.current = k.current
           \/ /\ r.list = k.list \ {c}
              /\ r.current = IF k.current = c THEN None ELSE k.current
    PROVE  Booked(r, k, c)
<1>1. k.call[c].state \in Over => c \notin k.list /\ k.current # c
  BY PhaseOf
<1>2. c \notin r.list /\ \A d \in Calls : d # c => (d \in r.list <=> d \in k.list)
  BY <1>1
<1>3. y.state \in Still
  BY DEF Still
<1>4. \/ r.current = k.current /\ k.current # c
      \/ r.current = None /\ k.current = c
  <2>1. CASE k.call[c].state \in Over /\ r.current = k.current
    BY <1>1, <2>1
  <2>2. CASE r.current = IF k.current = c THEN None ELSE k.current
    BY <2>2
  <2> QED
    BY <2>1, <2>2
<1> QED
  BY <1>2, <1>3, <1>4 DEF Booked

\* The fields of a call that ended or failed after its operation was told.
LEMMA GivenUpKeeps ==
    ASSUME NEW k, Sound(k), NEW c \in Calls, NEW s \in Ended,
           NEW h, Only(h, k, c), Same(h.call[c], k.call[c], {"state", "prev", "mine", "ack", "op"}),
           h.call[c].ack \in {k.call[c].ack, "none"},
           h.call[c].mine = k.call[c].mine \/ h.call[c].mine = FALSE,
           h.call[c].op = k.call[c].op \/
               (k.call[c].op \in {"inviting", "early"} /\ h.call[c].op = "confirmed"),
           k.call[c].state \in Ended => h.call[c].state = k.call[c].state,
           k.call[c].state \notin Ended => h.call[c].state \notin Ended,
           k.call[c].state # "Released", k.call[c].op # "new",
           h.list = k.list, h.current = k.current,
           NEW r, GivenUp(r, h, c, s)
    PROVE  Sound(r)
<1> DEFINE x == k.call[c]
           y == r.call[c]
<1>1. /\ Phase(x) /\ Turns(x) /\ Silence(x) /\ Plain(x) /\ Due(x) /\ x.op # "new"
      /\ x.op \in {"new", "inviting", "early", "offered", "confirmed", "dead", "gone"}
  BY PhaseOf, Typed
<1>2. Only(r, k, c)
  BY DEF GivenUp, Only
<1>3. /\ y.giving = TRUE /\ y.streams = "none" /\ y.state \in Ended
      /\ y.theirs = x.theirs /\ y.local = x.local
      /\ y.op = IF h.call[c].op = "offered" THEN "dead" ELSE h.call[c].op
      /\ y.mine = h.call[c].mine
      /\ y.ack \in {x.ack, "none"} /\ y.pending = x.pending
  BY DEF GivenUp, Same, Fields
<1>4. x.state \in Over <=> x.state \in Ended
  BY DEF Ended, Over
<1>5. /\ h.call[c].state \in Ended <=> x.state \in Ended
      /\ r.current = IF x.state \notin Ended /\ k.current = c THEN None ELSE k.current
      /\ r.list = IF x.state \notin Ended THEN k.list \ {c} ELSE k.list
  BY DEF GivenUp
<1> HIDE DEF x, y
<1>6. y.state \in Over /\ y.state \notin Live
  BY <1>3 DEF Ended, Over, Live
<1>7. /\ y.op = x.op \/ (x.op = "offered" /\ y.op = "dead")
         \/ (x.op \in {"inviting", "early"} /\ y.op = "confirmed")
  BY <1>1, <1>3 DEF x
<1>8. Phase(y)
  BY <1>1, <1>3, <1>6, <1>7 DEF Phase, Ended, Live, Calling
<1>9. Turns(y)
  BY <1>1, <1>3, <1>6, <1>7 DEF Turns, x
<1>10. Silence(y) /\ Held(y) /\ Plain(y)
  <2>1. y.state \notin {"Pausing", "Paused", "StreamsRunning", "PausedByRemote"}
    BY <1>3 DEF Ended
  <2>2. Silence(y)
    BY <1>1, <1>3 DEF Silence
  <2>3. Held(y)
    BY <2>1 DEF Held
  <2>4. Plain(y)
    BY <1>1, <1>3, <1>6, <2>1 DEF Plain
  <2> QED
    BY <2>2, <2>3, <2>4
<1>11. Good(y)
  <2>1. Due(y)
    BY <1>1, <1>3, <1>7 DEF Due
  <2> QED
    BY <1>8, <1>9, <1>10, <2>1 DEF Good
<1>12. Booked(r, k, c)
  BY <1>4, <1>5, <1>6, BookedOver DEF x, y
<1> QED
  BY <1>2, <1>11, <1>12, OneCall DEF y

\* The same for a call whose operation is not told, or is done with.
LEMMA FinishedKeeps ==
    ASSUME NEW k, Sound(k), NEW c \in Calls, NEW s \in Ended,
           NEW h, Only(h, k, c),
           Same(h.call[c], k.call[c], {"op", "mine", "local", "pending"}),
           h.call[c].local \in {"sendonly", "sendrecv"},
           h.call[c].pending = k.call[c].pending \/ h.call[c].op = "new",
           h.list = k.list, h.current = k.current,
           k.call[c].state # "Released",
           \/ h.call[c].op \in {"dead", "gone"} /\ h.call[c].mine = k.call[c].mine
           \/ /\ h.call[c].op = "new" /\ k.call[c].op = "new" /\ s = "Error"
              /\ k.call[c].state \notin Ended /\ ~h.call[c].mine /\ ~k.call[c].giving
           \/ h.call[c].op = "confirmed" /\ ~h.call[c].mine /\ setting.refuse,
           NEW r, Finished(r, h, c, s)
    PROVE  Sound(r)
<1> DEFINE x == k.call[c]
           y == r.call[c]
<1>1. /\ Phase(x) /\ Turns(x) /\ Silence(x) /\ Plain(x) /\ Due(x)
  BY PhaseOf
<1>2. Only(r, k, c)
  BY DEF Finished, Only
<1>3. /\ y.giving = x.giving /\ y.streams = "none" /\ y.state \in Ended
      /\ y.theirs = x.theirs /\ y.local = h.call[c].local
      /\ y.op = h.call[c].op /\ y.mine = h.call[c].mine
      /\ y.ack = x.ack /\ (y.pending = x.pending \/ y.op = "new")
      /\ h.call[c].state = x.state
  BY DEF Finished, Same, Fields
<1>4. y.state = IF x.state \in Ended THEN x.state ELSE s
  BY <1>3 DEF Finished
<1>5. /\ r.current = IF x.state \notin Ended /\ k.current = c THEN None ELSE k.current
      /\ r.list = IF x.state \notin Ended THEN k.list \ {c} ELSE k.list
  BY <1>3 DEF Finished
<1>6. /\ y.op \in {"dead", "gone", "new", "confirmed"}
      /\ y.mine => x.mine /\ y.op \in {"dead", "gone"}
      /\ y.op = "new" => x.op = "new" /\ y.state = "Error"
      /\ y.op = "confirmed" => setting.refuse
      /\ y.local \in {"sendonly", "sendrecv"}
  BY <1>3, <1>4 DEF x, y
<1> HIDE DEF x, y
<1>7. /\ y.state \in Over /\ y.state \notin Live
      /\ y.state \notin {"Pausing", "Paused", "StreamsRunning", "PausedByRemote"}
  BY <1>3 DEF Ended, Over, Live
<1>8. Phase(y)
  BY <1>3, <1>6, <1>7 DEF Phase
<1>9. Turns(y)
  BY <1>1, <1>3, <1>6, <1>7 DEF Turns
<1>10. Silence(y)
  BY <1>1, <1>3, <1>6, <1>7 DEF Silence
<1>11. Held(y)
  BY <1>7 DEF Held
<1>12. Plain(y)
  <2>1. Regular => ~setting.refuse
    BY DEF Regular
  <2> QED
    BY <1>1, <1>3, <1>6, <1>7, <2>1 DEF Plain
<1>13. Good(y)
  <2>1. Due(y)
    BY <1>1, <1>3, <1>6 DEF Due
  <2> QED
    BY <1>8, <1>9, <1>10, <1>11, <1>12, <2>1 DEF Good
<1>14. Booked(r, k, c)
  <2>1. x.state \in Ended => x.state \in Over
    BY DEF Ended, Over
  <2> QED
    BY <1>5, <1>7, <2>1, BookedOver DEF x, y
<1> QED
  BY <1>2, <1>13, <1>14, OneCall DEF y

\* The user ends a call.
LEMMA TerminateKeeps ==
    ASSUME Sound(core), NEW c \in Calls, Terminate(c)
    PROVE  Sound(core')
<1> DEFINE x == core.call[c]
<1>1. /\ core \in Core /\ Phase(x) /\ Turns(x) /\ Silence(x)
      /\ x.state \notin Over \cup {"Idle"}
      /\ x.state = "OutgoingInit" => x.op = "new"
  BY PhaseOf DEF Terminate
<1>2. core' = terminate(core, c) /\ "End" \in Ended
  BY DEF Terminate, Ended
<1>3. x.state \notin Ended /\ x.state # "Released"
  BY <1>1 DEF Over, Ended
<1>4. CASE x.state = "OutgoingInit"
  <2> DEFINE h == PutOp(core, c, "gone")
  <2>1. /\ Only(h, core, c) /\ h.call[c].op = "gone" /\ Same(h.call[c], x, {"op"})
        /\ h.current = core.current /\ h.list = core.list /\ h \in Core
    BY <1>1, OpPut DEF Only
  <2>2. core' = set_state(stop_media_streams(h, c), c, "End")
    BY <1>2, <1>4 DEF terminate, terminate_call, PutOp
  <2> HIDE DEF h
  <2>3. Finished(core', h, c, "End")
    BY <1>2, <2>1, <2>2, StopAndEnd
  <2>4. /\ Same(h.call[c], x, {"op", "mine", "local", "pending"})
        /\ h.call[c].mine = x.mine /\ h.call[c].local \in {"sendonly", "sendrecv"}
        /\ h.call[c].pending = x.pending
    BY <1>1, <2>1 DEF Same, Fields, Silence
  <2> QED
    BY <1>2, <1>3, <2>1, <2>3, <2>4, FinishedKeeps
<1>5. CASE x.state # "OutgoingInit"
  <2>1. GivenUp(core', core, c, "End")
    BY <1>1, <1>2, <1>5, GiveUp DEF terminate, terminate_call
  <2>2. Only(core, core, c) /\ Same(x, x, {"state", "prev", "mine", "ack", "op"})
    BY <1>1 DEF Only, Same
  <2>3. x.op # "new"
    BY <1>1, <1>3, <1>5 DEF Phase, Ended
  <2> QED
    BY <1>2, <1>3, <2>1, <2>2, <2>3, GivenUpKeeps
<1> QED
  BY <1>4, <1>5

\* The peer ends it, or answers our BYE.
LEMMA TerminatedKeeps ==
    ASSUME Sound(core), NEW c \in Calls, Terminated(c)
    PROVE  Sound(core')
<1> DEFINE x == core.call[c]
           h == PutOp(core, c, "dead")
<1>1. /\ core \in Core /\ Phase(x) /\ Turns(x) /\ Silence(x) /\ Plain(x) /\ Due(x)
      /\ x.op \in {"offered", "confirmed"} /\ core' = call_terminated(h, c)
  BY PhaseOf DEF Terminated, PutOp
<1>2. /\ Only(h, core, c) /\ h.call[c].op = "dead" /\ Same(h.call[c], x, {"op"})
      /\ h.current = core.current /\ h.list = core.list /\ h \in Core
  BY <1>1, OpPut DEF Only
<1> HIDE DEF h
<1>3. /\ Same(h.call[c], x, {"op", "mine", "local", "pending"})
      /\ h.call[c].mine = x.mine /\ h.call[c].local \in {"sendonly", "sendrecv"}
      /\ h.call[c].state = x.state /\ h.call[c].giving = x.giving
      /\ h.call[c].streams = x.streams /\ h.call[c].theirs = x.theirs
      /\ h.call[c].result = x.result
      /\ h.call[c].ack = x.ack /\ h.call[c].pending = x.pending
  BY <1>1, <1>2 DEF Same, Fields, Silence
<1>4. x.state # "Released" /\ "End" \in Ended
  BY <1>1 DEF Phase, Live, Ended
<1>5. CASE x.state \notin Ended
  <2>1. core' = set_state(stop_media_streams(h, c), c, "End")
    BY <1>1, <1>3, <1>5 DEF call_terminated, Ended
  <2>2. Finished(core', h, c, "End")
    BY <1>2, <1>4, <2>1, StopAndEnd
  <2> QED
    BY <1>2, <1>3, <1>4, <2>2, FinishedKeeps
<1>6. CASE x.state \in Ended
  <2> DEFINE y == h.call[c]
  <2>1. core' = h
    BY <1>1, <1>3, <1>6 DEF call_terminated, Ended
  <2>2. /\ y.state \in Over /\ y.state \notin Live /\ x.state \in Over /\ y.op = "dead"
        /\ y.state \notin {"Pausing", "Paused", "StreamsRunning", "PausedByRemote"}
    BY <1>2, <1>3, <1>6 DEF Ended, Over, Live
  <2>3. Good(y)
    <3> HIDE DEF x, y
    <3>1. /\ y.state = x.state /\ y.giving = x.giving /\ y.streams = x.streams
          /\ y.result = x.result /\ y.theirs = x.theirs /\ y.mine = x.mine
          /\ y.local \in {"sendonly", "sendrecv"}
          /\ y.ack = x.ack /\ y.pending = x.pending
      BY <1>3 DEF y
    <3>2. Phase(y)
      BY <1>6, <2>2, <3>1 DEF Phase
    <3>3. Turns(y)
      BY <1>1, <2>2, <3>1 DEF Turns
    <3>4. Silence(y)
      BY <1>1, <2>2, <3>1 DEF Silence
    <3>5. Held(y) /\ Plain(y)
      BY <1>1, <2>2, <3>1 DEF Held, Plain
    <3>6. Due(y)
      BY <1>1, <2>2, <3>1 DEF Due
    <3> QED
      BY <3>2, <3>3, <3>4, <3>5, <3>6 DEF Good
  <2>4. Booked(h, core, c)
    BY <1>2, <2>2, BookedOver
  <2> QED
    BY <1>2, <2>1, <2>3, <2>4, OneCall
<1> QED
  BY <1>5, <1>6

\* A call that is over is given back.
LEMMA GivenBackKeeps ==
    ASSUME NEW k, Sound(k), NEW c \in Calls, NEW h, h \in Core, Only(h, k, c),
           h.call[c].state \in Ended, h.call[c].theirs = k.call[c].theirs,
           h.call[c].mine = k.call[c].mine, h.call[c].local = k.call[c].local,
           h.call[c].ack = k.call[c].ack, h.call[c].pending = k.call[c].pending,
           ~setting.refuse /\ ~setting.bare /\ ~setting.collide =>
               h.call[c].streams = "none",
           h.call[c].streams = "card" => h.call[c].result \in {"sendrecv", "recvonly"},
           \/ k.call[c].state \in Over /\ h.list = k.list /\ h.current = k.current
           \/ /\ h.list = k.list \ {c}
              /\ h.current = IF k.current = c THEN None ELSE k.current,
           NEW r, r = set_state(h, c, "Released")
    PROVE  Sound(r)
<1> DEFINE x == k.call[c]
           y == r.call[c]
<1>1. Turns(x) /\ Silence(x) /\ Plain(x) /\ Due(x)
  BY PhaseOf
<1>2. "Released" \in States /\ "Released" \notin Ended
  BY DEF States, Ended
<1>3. StateSet(r, h, c, "Released")
  BY <1>2, SetState
<1>4. Only(r, k, c) /\ r.list = h.list /\ r.current = h.current
  BY <1>2, <1>3 DEF StateSet, Only
<1>5. y.state = "Released" /\ y.op = "gone"
  BY <1>2, <1>3 DEF StateSet, Ended
<1>6. /\ y.theirs = x.theirs /\ y.mine = x.mine /\ y.local = x.local
      /\ y.streams = h.call[c].streams /\ y.result = h.call[c].result
      /\ y.ack = x.ack /\ y.pending = x.pending
  BY <1>3 DEF StateSet, Same, Fields
<1>7. y.state \in Over /\ y.state \notin Live
  BY <1>5 DEF Over, Live
<1>8. Booked(r, k, c)
  BY <1>4, <1>7, BookedOver
<1>9. /\ ~setting.refuse /\ ~setting.bare /\ ~setting.collide => y.streams = "none"
      /\ y.streams = "card" => y.result \in {"sendrecv", "recvonly"}
  BY <1>6
<1> HIDE DEF x, y
<1>10. Phase(y)
  BY <1>5, <1>7 DEF Phase
<1>11. Turns(y)
  BY <1>1, <1>5, <1>6, <1>7 DEF Turns
<1>12. Silence(y)
  BY <1>1, <1>5, <1>6, <1>7, <1>9 DEF Silence
<1>13. Held(y)
  BY <1>5 DEF Held
<1>14. Plain(y)
  BY <1>1, <1>5, <1>6, <1>7 DEF Plain
<1>15. Due(y)
  BY <1>1, <1>5, <1>6 DEF Due
<1> QED
  BY <1>4, <1>8, <1>10, <1>11, <1>12, <1>13, <1>14, <1>15, OneCall DEF y, Good

\* The end of the operation of a call that is over.
LEMMA ReleasedKeeps ==
    ASSUME Sound(core), NEW c \in Calls, Released(c)
    PROVE  Sound(core')
<1> DEFINE x == core.call[c]
<1>1. core \in Core /\ Phase(x) /\ Silence(x) /\ x.op = "dead"
  BY PhaseOf DEF Released
<1>2. x.state \in Ended /\ x.state \in Over
  BY <1>1 DEF Phase, Ended, Over
<1>3. Only(core, core, c) /\ core' = set_state(core, c, "Released")
  BY <1>1 DEF Only, Released
<1>4. /\ ~setting.refuse /\ ~setting.bare /\ ~setting.collide => x.streams = "none"
      /\ x.streams = "card" => x.result \in {"sendrecv", "recvonly"}
  BY <1>1, <1>2 DEF Silence
<1> QED
  BY <1>1, <1>2, <1>3, <1>4, GivenBackKeeps

\* Our INVITE is refused.
LEMMA RefusedKeeps ==
    ASSUME Sound(core), NEW c \in Calls, Refused(c)
    PROVE  Sound(core')
<1> DEFINE x == core.call[c]
<1>1. core \in Core /\ Phase(x) /\ Turns(x) /\ Silence(x) /\ Plain(x) /\ Only(core, core, c)
  BY PhaseOf DEF Only
<1>2. PICK declined \in BOOLEAN :
        \/ /\ x.op = "inviting"
           /\ core' = set_state(IF x.giving THEN core ELSE call_failure(core, c, declined),
                                c, "Released")
        \/ /\ x.op = "early"
           /\ core' = call_failure([core EXCEPT !.call[c].op = "dead"], c, declined)
  BY DEF Refused
<1> DEFINE s == IF declined THEN "End" ELSE "Error"
<1>3. s \in Ended
  BY DEF Ended
<1>4. x.op \in {"inviting", "early"} => x.state # "Released"
  BY <1>1 DEF Phase, Calling, Ended
<1>5. CASE x.op = "inviting" /\ x.giving
  <2>1. core' = set_state(core, c, "Released")
    BY <1>2, <1>5
  <2>2. x.state \in Ended /\ x.state \in Over
    BY <1>1, <1>5 DEF Phase, Over, Calling, Ended
  <2>3. /\ ~setting.refuse /\ ~setting.bare /\ ~setting.collide => x.streams = "none"
        /\ x.streams = "card" => x.result \in {"sendrecv", "recvonly"}
    BY <1>1, <2>2 DEF Silence
  <2> QED
    BY <1>1, <2>1, <2>2, <2>3, GivenBackKeeps
<1>6. CASE x.op = "inviting" /\ ~x.giving
  <2> DEFINE h == set_state(stop_media_streams(core, c), c, s)
  <2>1. core' = set_state(h, c, "Released")
    BY <1>2, <1>6 DEF call_failure
  <2> HIDE DEF s
  <2>2. Finished(h, core, c, s)
    BY <1>1, <1>3, StopAndEnd
  <2> HIDE DEF h
  <2>3. x.state \notin Ended
    BY <1>1, <1>6 DEF Phase, Calling, Ended
  <2>4. /\ h \in Core /\ Only(h, core, c) /\ h.call[c].state \in Ended
        /\ h.list = core.list \ {c}
        /\ h.current = IF core.current = c THEN None ELSE core.current
        /\ h.call[c].streams = "none"
    BY <1>3, <2>2, <2>3 DEF Finished, Only
  <2>5. /\ h.call[c].theirs = x.theirs /\ h.call[c].mine = x.mine
        /\ h.call[c].local = x.local /\ h.call[c].ack = x.ack
        /\ h.call[c].pending = x.pending
    BY <2>2 DEF Finished, Same, Fields
  <2> QED
    BY <2>1, <2>4, <2>5, GivenBackKeeps
<1>7. CASE x.op = "early"
  <2> DEFINE h == PutOp(core, c, "dead")
  <2>1. /\ Only(h, core, c) /\ h.call[c].op = "dead" /\ Same(h.call[c], x, {"op"})
        /\ h.current = core.current /\ h.list = core.list /\ h \in Core
    BY <1>1, OpPut DEF Only
  <2>2. core' = set_state(stop_media_streams(h, c), c, s)
    BY <1>2, <1>7 DEF call_failure, PutOp
  <2> HIDE DEF h, s
  <2>3. Finished(core', h, c, s)
    BY <1>3, <2>1, <2>2, StopAndEnd
  <2>4. /\ Same(h.call[c], x, {"op", "mine", "local", "pending"})
        /\ h.call[c].mine = x.mine /\ h.call[c].local \in {"sendonly", "sendrecv"}
        /\ h.call[c].pending = x.pending
    BY <1>1, <2>1 DEF Same, Fields, Silence
  <2> QED
    BY <1>3, <1>4, <1>7, <2>1, <2>3, <2>4, FinishedKeeps
<1> QED
  BY <1>2, <1>5, <1>6, <1>7

\* A call that is up, with what it may wait for.
LEMMA UpIsGood ==
    ASSUME NEW y, y.op = "confirmed", y.giving = FALSE, y.state \in Live,
           y.state # "Connected" => y.prev \in Live,
           y.mine => y.theirs = None /\ y.state # "Connected",
           y.streams = "card" => y.result \in {"sendrecv", "recvonly"},
           y.local \in {"sendonly", "sendrecv"}, Held(y), Plain(y), Due(y)
    PROVE  Good(y)
<1>1. y.state \notin Over
  BY DEF Live, Over
<1>2. Phase(y)
  BY DEF Phase
<1>3. Turns(y)
  BY DEF Turns
<1>4. Silence(y)
  BY <1>1 DEF Silence
<1> QED
  BY <1>2, <1>3, <1>4 DEF Good

\* A call that stays in the list.
LEMMA BookedOn ==
    ASSUME NEW k, Sound(k), NEW c \in Calls, NEW r, c \in k.list, r.list = k.list,
           r.call[c].state \notin Over \cup {"Idle"},
           Regular /\ r.call[c].state \notin Still => r.current = c,
           \/ r.current = k.current
           \/ r.current = c /\ (Regular => \A d \in Calls : d # c => k.call[d].state \in Still)
    PROVE  Booked(r, k, c)
  BY DEF Booked

\* An INVITE of a peer.
LEMMA ReceivedKeeps ==
    ASSUME Sound(core), NEW c \in Calls, Received(c)
    PROVE  Sound(core')
<1> DEFINE n == New(c)
<1>1. PICK offer \in Offers : core' = call_received(n, c, offer)
  BY DEF Received
<1>2. Free(c)
  BY DEF Received
<1>3. /\ Sound(n) /\ n.call[c] = NewCall /\ c \notin n.list /\ n.current # c
  BY <1>2, NewKeeps
<1> DEFINE k1 == PutOp(n, c, "offered")
           k2 == PutTheirs(k1, c, offer)
           k3 == PutList(k2, k2.list \cup {c})
           u == IF k3.list = {c} THEN c ELSE k3.current
           k4 == PutCurrent(k3, u)
           r == set_state(k4, c, "IncomingReceived")
           y == r.call[c]
<1>4. core' = r
  BY <1>1 DEF call_received, PutOp, PutTheirs, PutList, PutCurrent
<1> HIDE DEF n
<1>5. n \in Core
  BY <1>3 DEF Sound
<1>6. /\ Only(k1, n, c) /\ k1.call[c].op = "offered" /\ Same(k1.call[c], n.call[c], {"op"})
      /\ k1.current = n.current /\ k1.list = n.list /\ k1 \in Core
  BY <1>5, OpPut DEF Only
<1> HIDE DEF k1
<1>7. /\ offer \in Directions \cup {None, "bare"}
      /\ Regular => offer \in {"sendrecv", "sendonly"}
      /\ ~setting.bare => offer # "bare"
  BY DEF Offers, Directions, Regular
<1>8. /\ Only(k2, k1, c) /\ k2.call[c].theirs = offer /\ Same(k2.call[c], k1.call[c], {"theirs"})
      /\ k2.current = k1.current /\ k2.list = k1.list /\ k2 \in Core
  BY <1>6, <1>7, TheirsPut DEF Only
<1> HIDE DEF k2
<1>9. k2.list \cup {c} \in SUBSET Calls
  BY <1>8, Typed
<1>10. /\ k3 \in Core /\ k3.call = k2.call /\ k3.current = n.current
       /\ k3.list = n.list \cup {c}
  BY <1>6, <1>8, <1>9, ListPut
<1> HIDE DEF k3
<1>11. u \in Calls \cup {None}
  BY <1>10, Typed
<1>12. u = IF k3.list = {c} THEN c ELSE n.current
  BY <1>10
<1> HIDE DEF u
<1>13. k4 \in Core /\ k4.call = k3.call /\ k4.current = u /\ k4.list = k3.list
  BY <1>10, <1>11, CurrentPut
<1> HIDE DEF k4
<1>14. /\ "IncomingReceived" \in States /\ "IncomingReceived" \notin Ended
       /\ "IncomingReceived" # "Released"
  BY DEF States, Ended
<1>15. StateSet(r, k4, c, "IncomingReceived")
  BY <1>13, <1>14, SetState
<1> HIDE DEF r
<1>16. /\ k4.call[c].state = "Idle" /\ k4.call[c].op = "offered" /\ k4.call[c].giving = FALSE
       /\ k4.call[c].mine = FALSE /\ k4.call[c].theirs = offer
       /\ k4.call[c].local = "sendrecv" /\ k4.call[c].streams = "none"
       /\ k4.call[c].ack = "none"
  BY <1>3, <1>6, <1>8, <1>10, <1>13 DEF Same, Fields, NewCall
<1>17. /\ y.giving = FALSE /\ y.mine = FALSE /\ y.theirs = offer /\ y.local = "sendrecv"
       /\ y.streams = "none" /\ y.ack = "none"
  BY <1>15, <1>16 DEF StateSet, Same, Fields
<1>18. /\ y.state = "IncomingReceived" /\ y.op = "offered"
       /\ r.current = u /\ r.list = n.list \cup {c}
  <2>1. k4.call[c].state \notin Ended
    BY <1>16 DEF Ended
  <2> QED
    BY <1>10, <1>13, <1>14, <1>15, <1>16, <2>1 DEF StateSet
<1>19. Only(r, n, c)
  BY <1>6, <1>8, <1>10, <1>13, <1>15 DEF StateSet, Only
<1> HIDE DEF y
<1>20. y.state \notin Over \cup {"Idle"} /\ y.state \in Still /\ y.state \notin Live
  BY <1>18 DEF Over, Still, Live
<1>21. Good(y)
  <2>1. Phase(y)
    BY <1>17, <1>18 DEF Phase
  <2>2. Turns(y)
    BY <1>17, <1>18, <1>20 DEF Turns
  <2>3. Silence(y)
    BY <1>17, <1>20 DEF Silence
  <2>4. Held(y) /\ Plain(y)
    BY <1>7, <1>17, <1>18 DEF Held, Plain
  <2>5. Due(y)
    BY <1>7, <1>17 DEF Due
  <2> QED
    BY <2>1, <2>2, <2>3, <2>4, <2>5 DEF Good
<1>22. Booked(r, n, c)
  <2>1. CASE k3.list = {c}
    <3>1. r.current = c
      BY <1>12, <1>18, <2>1
    <3>2. ASSUME NEW d \in Calls, d # c PROVE n.call[d].state \in Still
      <4>1. d \notin n.list
        BY <1>10, <2>1, <3>2
      <4>2. n.call[d].state \in Over \cup {"Idle"}
        BY <1>3, <4>1 DEF Sound, Book
      <4> QED
        BY <4>2 DEF Still
    <3> QED
      BY <1>18, <1>20, <3>1, <3>2 DEF Booked, y
  <2>2. CASE k3.list # {c}
    <3>1. r.current = n.current
      BY <1>12, <1>18, <2>2
    <3> QED
      BY <1>3, <1>18, <1>20, <3>1 DEF Booked, y
  <2> QED
    BY <2>1, <2>2
<1> QED
  BY <1>3, <1>4, <1>19, <1>21, <1>22, OneCall DEF y

\* A call that the user makes.
LEMMA InviteKeeps ==
    ASSUME Sound(core), NEW c \in Calls, Invite(c)
    PROVE  Sound(core')
<1> DEFINE n == New(c)
<1>1. PICK ok \in BOOLEAN : core' = invite(n, c, ok)
  BY DEF Invite, Oks
<1>2. Free(c) /\ Calm(c)
  BY DEF Invite
<1>3. /\ Sound(n) /\ Only(n, core, c) /\ n.call[c] = NewCall /\ c \notin n.list
      /\ n.current # c /\ n.current = core.current
  BY <1>2, NewKeeps
<1> HIDE DEF n
<1>4. n.current \in Calls \cup {None}
  BY <1>3, Typed DEF Sound
<1>5. Regular /\ n.current # None =>
          n.call[n.current].state \in {"StreamsRunning", "Paused", "PausedByRemote"}
  BY <1>2, <1>3, <1>4 DEF Only, Calm, Settled, Regular
<1> DEFINE k1 == preempt_sound_resources(n, ok)
<1>6. /\ Sound(k1) /\ k1.call[c] = n.call[c] /\ k1.list = n.list
      /\ Regular => \A d \in Calls : d # c => k1.call[d].state \in Still
  BY <1>3, <1>5, PreemptKeeps
<1>7. CASE ~can_we_add_call(k1)
  BY <1>1, <1>6, <1>7 DEF invite
<1>8. CASE can_we_add_call(k1)
  <2> DEFINE k2 == PutList(k1, k1.list \cup {c})
             k3 == PutCurrent(k2, c)
             r == set_state(k3, c, "OutgoingInit")
             y == r.call[c]
  <2>1. core' = r
    BY <1>1, <1>8 DEF invite, PutList, PutCurrent
  <2> HIDE DEF k1
  <2>2. k1 \in Core /\ k1.list \cup {c} \in SUBSET Calls
    BY <1>6, Typed DEF Sound
  <2>3. k2 \in Core /\ k2.call = k1.call /\ k2.list = k1.list \cup {c}
    BY <2>2, ListPut
  <2> HIDE DEF k2
  <2>4. k3 \in Core /\ k3.call = k2.call /\ k3.current = c /\ k3.list = k2.list
    BY <2>3, CurrentPut
  <2> HIDE DEF k3
  <2>5. /\ "OutgoingInit" \in States /\ "OutgoingInit" \notin Ended
        /\ "OutgoingInit" # "Released"
    BY DEF States, Ended
  <2>6. StateSet(r, k3, c, "OutgoingInit")
    BY <2>4, <2>5, SetState
  <2> HIDE DEF r
  <2>7. k3.call[c] = NewCall
    BY <1>3, <1>6, <2>3, <2>4
  <2>8. /\ y.giving = FALSE /\ y.mine = FALSE /\ y.theirs = None /\ y.local = "sendrecv"
        /\ y.streams = "none" /\ y.ack = "none"
    BY <2>6, <2>7 DEF StateSet, Same, Fields, NewCall
  <2>9. y.state = "OutgoingInit" /\ y.op = "new" /\ r.current = c /\ r.list = k1.list \cup {c}
    BY <2>3, <2>4, <2>5, <2>6, <2>7 DEF StateSet, NewCall, Ended
  <2>10. Only(r, k1, c)
    BY <2>3, <2>4, <2>6 DEF StateSet, Only
  <2> HIDE DEF y
  <2>11. y.state \notin Over \cup {"Idle"} /\ y.state \notin Live
    BY <2>9 DEF Over, Live
  <2>12. Good(y)
    <3>1. Phase(y)
      BY <2>8, <2>9 DEF Phase
    <3>2. Turns(y)
      BY <2>8, <2>9, <2>11 DEF Turns
    <3>3. Silence(y) /\ Held(y) /\ Plain(y)
      BY <2>8, <2>9, <2>11 DEF Silence, Held, Plain
    <3>4. Due(y)
      BY <2>8, CallsAssumption DEF Due
    <3> QED
      BY <3>1, <3>2, <3>3, <3>4 DEF Good
  <2>13. Booked(r, k1, c)
    BY <1>6, <2>9, <2>11 DEF Booked, y
  <2> QED
    BY <1>6, <2>1, <2>10, <2>12, <2>13, OneCall DEF y
<1> QED
  BY <1>7, <1>8

\* Its INVITE is sent, now or later, or cannot be.
LEMMA StartInviteKeeps ==
    ASSUME Sound(core), NEW c \in Calls, StartInvite(c)
    PROVE  Sound(core')
<1> DEFINE x == core.call[c]
           h1 == PutLocal(core, c, "sendrecv")
           h == PutPending(h1, c, TRUE)
<1>1. PICK ok \in BOOLEAN : core' = start_invite(core, c, ok)
  BY DEF StartInvite, Oks
<1>2. /\ core \in Core /\ Turns(x) /\ Due(x) /\ x.op = "new" /\ ~x.giving /\ x.state = "OutgoingInit"
      /\ c \in core.list <=> x.state \notin Over \cup {"Idle"}
      /\ Regular /\ x.state \notin Still => core.current = c
      /\ x.giving \in BOOLEAN
  BY PhaseOf, Typed DEF StartInvite
<1>3. "sendrecv" \in Directions /\ TRUE \in BOOLEAN
  BY DEF Directions
<1>4. /\ Only(h1, core, c) /\ h1.call[c].local = "sendrecv" /\ Same(h1.call[c], x, {"local"})
      /\ h1.current = core.current /\ h1.list = core.list /\ h1 \in Core
  BY <1>2, <1>3, LocalPut DEF Only
<1>5. start_invite(core, c, ok) =
        IF ok THEN set_state([[h EXCEPT !.call[c].op = "inviting"]
                                 EXCEPT !.call[c].streams = "ready"], c, "OutgoingProgress")
        ELSE set_state(stop_media_streams(h, c), c, "Error")
  BY DEF start_invite, PutLocal, PutPending
<1> HIDE DEF h1
<1>6. /\ Only(h, h1, c) /\ h.call[c].pending = TRUE /\ Same(h.call[c], h1.call[c], {"pending"})
      /\ h.current = core.current /\ h.list = core.list /\ h \in Core
  BY <1>3, <1>4, PendingPut, ZenonT(90) DEF Only
<1> HIDE DEF h
<1>7. Only(h, core, c)
  BY <1>4, <1>6 DEF Only
<1>8. Same(h.call[c], x, {"local", "pending"}) /\ h.call[c].local = "sendrecv"
  BY <1>4, <1>6 DEF Same, Fields
<1>9. h.call[c].op = "new" /\ ~h.call[c].mine /\ h.call[c].state = "OutgoingInit"
  BY <1>2, <1>8 DEF Same, Fields, Turns
<1>10. CASE ~ok
  <2>1. core' = set_state(stop_media_streams(h, c), c, "Error") /\ "Error" \in Ended
    BY <1>1, <1>5, <1>10 DEF Ended
  <2>2. Finished(core', h, c, "Error")
    BY <1>6, <2>1, StopAndEnd
  <2>3. Same(h.call[c], x, {"op", "mine", "local", "pending"})
    BY <1>8 DEF Same
  <2>4. x.state \notin Ended /\ x.state # "Released"
    BY <1>2 DEF Ended
  <2>5. h.call[c].local \in {"sendonly", "sendrecv"}
    BY <1>8
  <2> QED
    BY <1>2, <1>6, <1>7, <1>9, <2>1, <2>2, <2>3, <2>4, <2>5, FinishedKeeps
<1>11. CASE ok
  <2> DEFINE k1 == PutOp(h, c, "inviting")
             k2 == PutStreams(k1, c, "ready")
             r == set_state(k2, c, "OutgoingProgress")
             y == r.call[c]
  <2>1. core' = r
    BY <1>1, <1>5, <1>11 DEF PutOp, PutStreams
  <2>2. /\ Only(k1, h, c) /\ k1.call[c].op = "inviting" /\ Same(k1.call[c], h.call[c], {"op"})
        /\ k1.current = h.current /\ k1.list = h.list /\ k1 \in Core
    BY <1>6, OpPut DEF Only
  <2> HIDE DEF k1
  <2>3. /\ Only(k2, k1, c) /\ k2.call[c].streams = "ready"
        /\ Same(k2.call[c], k1.call[c], {"streams"})
        /\ k2.current = k1.current /\ k2.list = k1.list /\ k2 \in Core
    BY <2>2, StreamsPut DEF Only
  <2> HIDE DEF k2
  <2>4. /\ "OutgoingProgress" \in States /\ "OutgoingProgress" \notin Ended
        /\ "OutgoingProgress" # "Released"
    BY DEF States, Ended
  <2>5. StateSet(r, k2, c, "OutgoingProgress")
    BY <2>3, <2>4, SetState
  <2> HIDE DEF r
  <2>6. /\ k2.call[c].op = "inviting" /\ k2.call[c].state = "OutgoingInit"
        /\ k2.call[c].streams = "ready" /\ k2.call[c].giving = x.giving
        /\ k2.call[c].mine = h.call[c].mine /\ k2.call[c].theirs = x.theirs
        /\ k2.call[c].local = "sendrecv" /\ k2.call[c].ack = x.ack
    BY <1>8, <1>9, <2>2, <2>3 DEF Same, Fields
  <2>7. /\ y.giving = x.giving /\ y.mine = h.call[c].mine /\ y.theirs = x.theirs
        /\ y.local = "sendrecv" /\ y.streams = "ready" /\ y.ack = x.ack
    BY <2>5, <2>6 DEF StateSet, Same, Fields
  <2>8. /\ y.state = "OutgoingProgress" /\ y.op = "inviting"
        /\ r.current = core.current /\ r.list = core.list
    BY <1>6, <2>2, <2>3, <2>4, <2>5, <2>6 DEF StateSet, Ended
  <2>9. Only(r, core, c)
    BY <1>7, <2>2, <2>3, <2>5 DEF StateSet, Only
  <2>10. Booked(r, core, c)
    <3>1. y.state \notin Over \cup {"Idle"}
      BY <2>8 DEF Over
    <3>2. c \in core.list /\ x.state \notin Still
      BY <1>2 DEF Over, Still
    <3> QED
      BY <1>2, <2>8, <3>1, <3>2, BookedOn
  <2>11. x.theirs = None /\ x.ack = "none"
    BY <1>2 DEF Turns, Due
  <2> HIDE DEF x, y
  <2>12. y.state \notin Over /\ y.state \notin Live /\ y.state \in Calling
    BY <2>8 DEF Over, Live, Calling
  <2>13. Good(y)
    <3>1. Phase(y)
      BY <1>2, <2>7, <2>8, <2>12 DEF Phase
    <3>2. Turns(y)
      BY <1>9, <2>7, <2>8, <2>11, <2>12 DEF Turns
    <3>3. Silence(y) /\ Held(y) /\ Plain(y)
      BY <2>7, <2>8, <2>11, <2>12 DEF Silence, Held, Plain
    <3>4. Due(y)
      BY <2>7, <2>11, CallsAssumption DEF Due
    <3> QED
      BY <3>1, <3>2, <3>3, <3>4 DEF Good
  <2> QED
    BY <2>1, <2>9, <2>10, <2>13, OneCall DEF y
<1> QED
  BY <1>10, <1>11

\* What an offer of theirs becomes: a call that only sends gets nothing to
\* play, and one that does both sends alone when it is asked to.
LEMMA Incoming ==
    ASSUME NEW l \in Directions, NEW o \in Directions \cup {None, "bare"},
           NEW d, d = compute_dir_incoming(l, o)
    PROVE  /\ d \in Directions
           /\ l = "sendonly" => d \in {"sendonly", "inactive"}
           /\ l = "sendrecv" /\ o # "recvonly" => d # "sendonly"
<1>1. l \in {"sendrecv", "sendonly", "recvonly", "inactive"}
  BY DEF Directions
<1>2. CASE l = "sendrecv"
  BY <1>2 DEF compute_dir_incoming, Directions
<1>3. CASE l = "sendonly"
  BY <1>3 DEF compute_dir_incoming, Directions
<1>4. CASE l \in {"recvonly", "inactive"}
  BY <1>4 DEF compute_dir_incoming, Directions
<1> QED
  BY <1>1, <1>2, <1>3, <1>4

\* What an answer of theirs makes of our offer, likewise.
LEMMA Outgoing ==
    ASSUME NEW l \in Directions, NEW a \in Directions,
           NEW d, d = compute_dir_outgoing(l, a)
    PROVE  /\ d \in Directions
           /\ l = "sendonly" => d \in {"sendonly", "inactive"}
           /\ l = "sendrecv" /\ a \in {"sendrecv", "sendonly"} => d \in {"sendrecv", "recvonly"}
  BY DEF compute_dir_outgoing, Directions

\* What is left of the others when a user who is calm turns to a call.
LEMMA TurnedTo ==
    ASSUME Sound(core), NEW c \in Calls, Calm(c), NEW ok \in BOOLEAN, NEW r,
           \/ core.current = c /\ r = core
           \/ core.current # c /\ r = preempt_sound_resources(core, ok)
    PROVE  /\ Sound(r) /\ r.call[c] = core.call[c] /\ r.list = core.list
           /\ r.current \in {core.current, None}
           /\ Regular => \A d \in Calls : d # c => r.call[d].state \in Still
<1>1. CASE core.current = c /\ r = core
  BY <1>1, Others
<1>2. CASE core.current # c /\ r = preempt_sound_resources(core, ok)
  <2>1. core.current \in Calls \cup {None}
    BY Typed DEF Sound
  <2>2. Regular /\ core.current # None =>
            core.call[core.current].state \in {"StreamsRunning", "Paused", "PausedByRemote"}
    BY <1>2, <2>1 DEF Calm, Settled, Regular
  <2> QED
    BY <1>2, <2>2, PreemptKeeps
<1> QED
  BY <1>1, <1>2

\* A call that the user answers.
LEMMA AcceptKeeps ==
    ASSUME Sound(core), NEW c \in Calls, Accept(c)
    PROVE  Sound(core')
<1> DEFINE x == core.call[c]
<1>1. PICK ok \in BOOLEAN : core' = accept_call(core, c, ok)
  BY DEF Accept, Oks
<1>2. /\ Turns(x) /\ Silence(x) /\ Plain(x) /\ Due(x)
      /\ x.op = "offered" /\ ~x.giving /\ x.state = "IncomingReceived"
      /\ c \in core.list <=> x.state \notin Over \cup {"Idle"}
      /\ x.giving \in BOOLEAN /\ x.mine \in BOOLEAN /\ x.local \in Directions
      /\ x.theirs \in Directions \cup {None, "bare"}
  BY PhaseOf, Typed DEF Accept
<1> DEFINE k1 == IF core.current = c THEN core ELSE preempt_sound_resources(core, ok)
           k2 == sal_call_accept(k1, c)
           k3 == PutCurrent(k2, c)
           k4 == set_state(k3, c, "Connected")
           dir == Answer(k1, c)
           r == core'
           y == r.call[c]
<1>3. core' = IF x.theirs = "bare"
              THEN [[k4 EXCEPT !.call[c].pending = TRUE] EXCEPT !.call[c].streams = "ready"]
              ELSE set_state(update_streams(k4, c, dir), c, "StreamsRunning")
  BY <1>1 DEF accept_call, PutCurrent
<1>4. Calm(c)
  BY DEF Accept
<1>5. /\ Sound(k1) /\ k1.call[c] = x /\ k1.list = core.list
      /\ Regular => \A d \in Calls : d # c => k1.call[d].state \in Still
  BY <1>4, TurnedTo
<1> HIDE DEF k1
<1>6. k1 \in Core
  BY <1>5 DEF Sound
<1>7. Accepted(k2, k1, c) /\ k2 \in Core
  BY <1>6, SalAccept DEF Accepted, Only
<1> HIDE DEF k2
<1>8. k3 \in Core /\ k3.call = k2.call /\ k3.current = c /\ k3.list = k2.list
  BY <1>7, CurrentPut
<1> HIDE DEF k3
<1>9. /\ "Connected" \in States /\ "Connected" \notin Ended /\ "Connected" # "Released"
  BY DEF States, Ended
<1>10. StateSet(k4, k3, c, "Connected") /\ k4 \in Core
  <2>1. StateSet(k4, k3, c, "Connected")
    BY <1>8, <1>9, SetState
  <2> QED
    BY <2>1 DEF StateSet, Only
<1> HIDE DEF k4
<1>11. /\ k3.call[c].state = "IncomingReceived" /\ k3.call[c].op = "confirmed"
       /\ k3.call[c].theirs = None /\ k3.call[c].giving = x.giving
       /\ k3.call[c].mine = x.mine /\ k3.call[c].local = x.local
       /\ k3.call[c].streams = x.streams /\ k3.call[c].result = x.result
  BY <1>2, <1>5, <1>7, <1>8 DEF Accepted, Same, Fields
<1>12. /\ k4.call[c].theirs = None /\ k4.call[c].giving = x.giving
       /\ k4.call[c].mine = x.mine /\ k4.call[c].local = x.local
       /\ k4.call[c].streams = x.streams /\ k4.call[c].result = x.result
  BY <1>10, <1>11 DEF StateSet, Same, Fields
<1>13. /\ k4.call[c].state = "Connected" /\ k4.call[c].op = "confirmed"
       /\ k4.current = c /\ k4.list = core.list
  BY <1>5, <1>7, <1>8, <1>9, <1>10, <1>11 DEF StateSet, Accepted, Ended
<1>14. Only(k4, k1, c)
  BY <1>7, <1>8, <1>10 DEF StateSet, Accepted, Only
<1>15. c \in core.list
  BY <1>2 DEF Over
<1>16. x.mine = FALSE /\ x.giving = FALSE
  BY <1>2 DEF Turns
<1>17. ASSUME Only(r, k1, c), Good(y), y.state \notin Over \cup {"Idle"},
              r.current = c, r.list = core.list
       PROVE  Sound(r)
  <2>1. Booked(r, k1, c)
    BY <1>5, <1>15, <1>17, BookedOn
  <2> QED
    BY <1>5, <1>17, <2>1, OneCall
<1>18. CASE x.theirs = "bare"
  <2> DEFINE k5 == PutPending(k4, c, TRUE)
             k6 == PutStreams(k5, c, "ready")
  <2>1. r = k6
    BY <1>3, <1>18 DEF PutPending, PutStreams
  <2>2. /\ Only(k5, k4, c) /\ Same(k5.call[c], k4.call[c], {"pending"})
        /\ k5.current = k4.current /\ k5.list = k4.list /\ k5 \in Core
    BY <1>10, PendingPut, ZenonT(90) DEF Only
  <2> HIDE DEF k5
  <2>3. /\ Only(k6, k5, c) /\ Same(k6.call[c], k5.call[c], {"streams"})
        /\ k6.call[c].streams = "ready"
        /\ k6.current = k5.current /\ k6.list = k5.list
    BY <2>2, StreamsPut
  <2> HIDE DEF k6
  <2>4. Only(r, k1, c) /\ r.current = c /\ r.list = core.list
    BY <1>13, <1>14, <2>1, <2>2, <2>3 DEF Only
  <2>5. /\ y.state = "Connected" /\ y.op = "confirmed" /\ y.theirs = None
        /\ y.giving = FALSE /\ y.mine = FALSE /\ y.local = x.local
        /\ y.streams = "ready"
    BY <1>12, <1>13, <1>16, <2>1, <2>2, <2>3 DEF Same, Fields
  <2>6. ~Regular
    <3>1. "bare" \notin {None, "sendrecv", "sendonly"}
      BY CallsAssumption
    <3> QED
      BY <1>2, <1>18, <3>1 DEF Plain
  <2>7. x.local \in {"sendonly", "sendrecv"}
    BY <1>2 DEF Silence
  <2> HIDE DEF x, y, r
  <2>8. y.state \in Live /\ y.state \notin Over \cup {"Idle"}
    BY <2>5 DEF Live, Over
  <2>9. Held(y) /\ Plain(y) /\ Due(y)
    BY <1>2, <1>18, <2>5, <2>6 DEF Held, Plain, Due
  <2>10. Good(y)
    BY <2>5, <2>7, <2>8, <2>9, UpIsGood
  <2> QED
    BY <1>17, <2>4, <2>8, <2>10 DEF r
<1>19. CASE x.theirs # "bare"
  <2>1. dir = compute_dir_incoming(x.local, x.theirs)
    BY <1>5 DEF Answer
  <2> HIDE DEF dir
  <2>2. /\ dir \in Directions
        /\ x.local = "sendrecv" /\ x.theirs # "recvonly" => dir # "sendonly"
    BY <1>2, <2>1, Incoming
  <2>3. "StreamsRunning" \in Live \cup Ended /\ "StreamsRunning" \notin Ended
    BY DEF Live, Ended
  <2>4. r = set_state(update_streams(k4, c, dir), c, "StreamsRunning")
    BY <1>3, <1>19
  <2>5. Followed(r, k4, c, dir, "StreamsRunning")
    BY <1>10, <2>2, <2>3, <2>4, Follow
  <2>6. Only(r, k1, c) /\ r.current = c /\ r.list = core.list
    BY <1>13, <1>14, <2>5 DEF Followed, Only
  <2>7. /\ y.op = "confirmed" /\ y.theirs = None
        /\ y.giving = FALSE /\ y.mine = FALSE /\ y.local = x.local
    BY <1>12, <1>13, <1>16, <2>5 DEF Followed, Same, Fields
  <2>8. /\ y.state = "StreamsRunning" /\ y.prev = "Connected"
        /\ y.pending = FALSE /\ y.result = dir
        /\ y.streams = "card" => \/ dir \in {"sendrecv", "recvonly"}
                                 \/ x.streams = "card" /\ x.result = dir
    BY <1>12, <1>13, <2>5 DEF Followed, Ended
  <2> HIDE DEF x, y, r
  <2>9. /\ y.streams = "card" => y.result \in {"sendrecv", "recvonly"}
        /\ y.local \in {"sendonly", "sendrecv"}
    BY <1>2, <2>7, <2>8 DEF Silence
  <2>10. /\ y.state \in Live /\ y.state \notin Over \cup {"Idle"} /\ y.prev \in Live
    BY <2>8 DEF Live, Over
  <2>11. Regular => y.local = "sendrecv" /\ y.result # "sendonly"
    <3>1. x.state \notin {"Pausing", "Paused"} \cup Over
      BY <1>2 DEF Over
    <3>2. "recvonly" \notin {None, "sendrecv", "sendonly"}
      BY CallsAssumption DEF Directions
    <3> QED
      BY <1>2, <2>2, <2>7, <2>8, <3>1, <3>2 DEF Plain
  <2>12. Held(y) /\ Plain(y) /\ Due(y)
    BY <2>7, <2>8, <2>11, CallsAssumption DEF Held, Plain, Due
  <2>13. Good(y)
    BY <2>7, <2>9, <2>10, <2>12, UpIsGood
  <2> QED
    BY <1>17, <2>6, <2>10, <2>13 DEF r
<1> QED
  BY <1>18, <1>19

\* The user puts a call on hold.
LEMMA PauseKeeps ==
    ASSUME Sound(core), NEW c \in Calls, Pause(c)
    PROVE  Sound(core')
<1>1. PICK ok \in BOOLEAN : core' = pause_call(core, c, ok)
  BY DEF Pause, Oks
<1>2. CASE core.call[c].result = "sendonly"
  BY <1>1, <1>2 DEF pause_call
<1>3. CASE core.call[c].result # "sendonly"
  <2>1. Pausable(core, c) /\ (Regular => core.current = c)
    BY DEF Pause, Regular
  <2> QED
    BY <1>1, <1>3, <2>1, OnHoldKeeps
<1> QED
  BY <1>2, <1>3

\* The user resumes one.  In a polite world the re-INVITE can be sent.
LEMMA ResumeKeeps ==
    ASSUME Sound(core), NEW c \in Calls, Resume(c)
    PROVE  Sound(core')
<1> DEFINE x == core.call[c]
<1>1. PICK ok \in Oks : core' = resume_call(core, c, ok)
  BY DEF Resume
<1>2. /\ Turns(x) /\ Silence(x) /\ Held(x) /\ Plain(x) /\ Due(x)
      /\ x.state = "Paused"
      /\ x.state \in Live => x.op = "confirmed" /\ ~x.giving
      /\ c \in core.list <=> x.state \notin Over \cup {"Idle"}
  BY PhaseOf DEF Resume
<1>3. /\ x.op = "confirmed" /\ x.giving = FALSE /\ c \in core.list
      /\ ok \in BOOLEAN
  BY <1>2, Typed DEF Live, Over, Oks, Sound
<1>4. CASE sound_resources_locked(core)
  BY <1>1, <1>4 DEF resume_call
<1>5. CASE ~sound_resources_locked(core)
  <2> DEFINE p == preempt_sound_resources(core, ok)
             k1 == PutLocal(p, c, "sendrecv")
             k2 == sal_call_update(k1, c, ok)
             k3 == set_state(k2, c, "Resuming")
             k4 == PutCurrent(k3, c)
  <2>1. core' = IF ~CanUpdate(k1, c, ok) THEN k1 ELSE k4
    BY <1>1, <1>2, <1>5 DEF resume_call, PutLocal, PutCurrent
  <2>2. core.current = c => p = core
    BY <1>2, CallsAssumption DEF preempt_sound_resources, pause_call, Pausable
  <2>3. Calm(c)
    BY DEF Resume
  <2>4. /\ Sound(p) /\ p.call[c] = x /\ p.list = core.list
        /\ Regular => \A d \in Calls : d # c => p.call[d].state \in Still
    BY <1>3, <2>2, <2>3, TurnedTo
  <2> HIDE DEF p
  <2>5. p \in Core /\ "sendrecv" \in Directions
    BY <2>4 DEF Sound, Directions
  <2>6. /\ Only(k1, p, c) /\ k1.call[c].local = "sendrecv" /\ Same(k1.call[c], x, {"local"})
        /\ k1.current = p.current /\ k1.list = p.list /\ k1 \in Core
    BY <2>4, <2>5, LocalPut DEF Only
  <2> HIDE DEF k1
  <2>7. /\ k1.call[c].op = "confirmed" /\ k1.call[c].giving = FALSE
        /\ k1.call[c].mine = x.mine /\ k1.call[c].theirs = x.theirs
        /\ k1.call[c].state = "Paused" /\ k1.call[c].prev = x.prev
        /\ k1.call[c].streams = x.streams /\ k1.call[c].result = x.result
        /\ k1.call[c].pending = x.pending /\ k1.call[c].ack = x.ack
    BY <1>2, <1>3, <2>6 DEF Same, Fields
  <2>8. /\ x.streams = "card" => x.result \in {"sendrecv", "recvonly"}
        /\ x.prev \in Live /\ (x.mine => x.theirs = None)
    BY <1>2 DEF Turns, Silence, Live
  <2>9. CASE ~CanUpdate(k1, c, ok)
    <3> DEFINE y == k1.call[c]
    <3>1. core' = k1
      BY <2>1, <2>9
    <3>2. ~Polite
      <4>1. ASSUME Polite PROVE FALSE
        <5>1. ok = TRUE
          BY <4>1 DEF Polite, Oks
        <5>2. ~x.mine /\ x.theirs = None
          BY <1>2, <4>1 DEF Held
        <5> QED
          BY <2>7, <2>9, <5>1, <5>2 DEF CanUpdate
      <4> QED
        BY <4>1
    <3>3. y.state \in Live /\ y.state \notin Over \cup {"Idle"} /\ y.state \in Still
      BY <2>7 DEF Live, Over, Still
    <3>4. Booked(k1, p, c)
      BY <1>3, <2>4, <2>6, <3>3, BookedOn
    <3>5. ~Regular
      BY <3>2 DEF Regular, Polite
    <3>6. /\ y.op = "confirmed" /\ y.giving = FALSE /\ y.prev \in Live
          /\ y.mine => y.theirs = None /\ y.state # "Connected"
          /\ y.streams = "card" => y.result \in {"sendrecv", "recvonly"}
          /\ y.local \in {"sendonly", "sendrecv"}
          /\ y.theirs = x.theirs /\ y.ack = x.ack /\ y.pending = x.pending
      BY <2>6, <2>7, <2>8
    <3> HIDE DEF y
    <3>7. Held(y) /\ Plain(y) /\ Due(y)
      BY <1>2, <3>2, <3>5, <3>6 DEF Held, Plain, Due
    <3>8. Good(y)
      BY <3>3, <3>6, <3>7, UpIsGood
    <3> QED
      BY <2>4, <2>6, <3>1, <3>4, <3>8, OneCall DEF y
  <2>10. CASE CanUpdate(k1, c, ok)
    <3> DEFINE y == k4.call[c]
    <3>1. core' = k4
      BY <2>1, <2>10
    <3>2. Asked(k2, k1, c, ok)
      BY <1>3, <2>6, SalUpdate
    <3> HIDE DEF k2
    <3>3. k2 \in Core /\ Only(k2, p, c) /\ k2.list = core.list
      BY <2>4, <2>6, <3>2 DEF Asked, Only
    <3>4. "Resuming" \in States /\ "Resuming" \notin Ended /\ "Resuming" # "Released"
      BY DEF States, Ended
    <3>5. StateSet(k3, k2, c, "Resuming")
      BY <3>3, <3>4, SetState
    <3> HIDE DEF k3
    <3>6. k3 \in Core
      BY <3>5 DEF StateSet, Only
    <3>7. k4 \in Core /\ k4.call = k3.call /\ k4.current = c /\ k4.list = k3.list
      BY <3>6, CurrentPut
    <3> HIDE DEF k4
    <3>8. /\ k2.call[c].op = "confirmed" /\ k2.call[c].giving = FALSE
          /\ k2.call[c].theirs = x.theirs
          /\ k2.call[c].state = "Paused"
          /\ k2.call[c].streams = x.streams /\ k2.call[c].result = x.result
          /\ k2.call[c].pending = x.pending /\ k2.call[c].local = "sendrecv"
          /\ k2.call[c].ack = x.ack
      BY <2>6, <2>7, <3>2 DEF Asked, Same, Fields
    <3>9. /\ y.giving = FALSE /\ y.theirs = x.theirs
          /\ y.streams = x.streams /\ y.result = x.result
          /\ y.pending = x.pending /\ y.local = "sendrecv" /\ y.ack = x.ack
      BY <3>5, <3>7, <3>8 DEF StateSet, Same, Fields
    <3>10. /\ y.state = "Resuming" /\ y.prev = "Paused" /\ y.op = "confirmed"
           /\ k4.list = core.list
      BY <3>3, <3>4, <3>5, <3>7, <3>8 DEF StateSet, Ended
    <3>11. Only(k4, p, c)
      BY <3>3, <3>5, <3>7 DEF StateSet, Only
    <3>12. x.theirs = None
      BY <2>7, <2>10 DEF CanUpdate
    <3>13. y.state \in Live /\ y.state \notin Over \cup {"Idle"} /\ y.prev \in Live
      BY <3>10 DEF Live, Over
    <3>14. Booked(k4, p, c)
      BY <1>3, <2>4, <3>7, <3>10, <3>13, BookedOn
    <3> HIDE DEF x, y
    <3>15. Held(y) /\ Plain(y) /\ Due(y)
      BY <1>2, <1>3, <3>9, <3>10, <3>12 DEF Held, Plain, Due
    <3>16. Good(y)
      BY <2>8, <3>9, <3>10, <3>12, <3>13, <3>15, UpIsGood
    <3> QED
      BY <2>4, <3>1, <3>11, <3>14, <3>16, OneCall DEF y
  <2> QED
    BY <2>9, <2>10
<1> QED
  BY <1>4, <1>5

\* The user changes a call.
LEMMA UpdateKeeps ==
    ASSUME Sound(core), NEW c \in Calls, Update(c)
    PROVE  Sound(core')
<1> DEFINE x == core.call[c]
           k1 == set_state(core, c, "Updating")
           k2 == PutLocal(k1, c, "sendrecv")
<1>1. PICK ok \in BOOLEAN : core' = update_call(core, c, ok)
  BY DEF Update, Oks
<1> DEFINE q == sal_call_update(k2, c, ok)
           y == q.call[c]
<1>2. /\ core \in Core /\ Phase(x) /\ Turns(x) /\ Silence(x) /\ Plain(x) /\ Due(x)
      /\ c \in core.list <=> x.state \notin Over \cup {"Idle"}
      /\ Regular /\ x.state \notin Still => core.current = c
      /\ c \in core.list /\ x.op = "confirmed"
      /\ x.giving \in BOOLEAN
  BY PhaseOf, Typed DEF Update
<1>3. Regular => x.state = "StreamsRunning"
  BY DEF Update, Regular
<1>4. x.state \in Live /\ x.giving = FALSE /\ x.state \notin Ended
  BY <1>2 DEF Phase, Ended, Over
<1>5. core' = q
  BY <1>1 DEF update_call, PutLocal
<1>6. "Updating" \in States /\ "Updating" \notin Ended /\ "Updating" # "Released"
  BY DEF States, Ended
<1>7. StateSet(k1, core, c, "Updating")
  BY <1>2, <1>6, SetState
<1> HIDE DEF k1
<1>8. k1 \in Core /\ "sendrecv" \in Directions
  BY <1>7 DEF StateSet, Only, Directions
<1>9. /\ Only(k2, k1, c) /\ k2.call[c].local = "sendrecv"
      /\ Same(k2.call[c], k1.call[c], {"local"})
      /\ k2.current = k1.current /\ k2.list = k1.list /\ k2 \in Core
  BY <1>8, LocalPut DEF Only
<1> HIDE DEF k2
<1>10. Asked(q, k2, c, ok)
  BY <1>9, SalUpdate
<1> HIDE DEF q
<1>11. /\ k1.call[c].op = "confirmed" /\ k1.call[c].state = "Updating"
       /\ k1.call[c].prev = IF "Updating" = x.state THEN x.prev ELSE x.state
       /\ k1.current = core.current /\ k1.list = core.list
  BY <1>2, <1>4, <1>6, <1>7 DEF StateSet
<1>12. /\ k2.call[c].giving = FALSE /\ k2.call[c].mine = x.mine
       /\ k2.call[c].theirs = x.theirs /\ k2.call[c].streams = x.streams
       /\ k2.call[c].result = x.result /\ k2.call[c].pending = x.pending
       /\ k2.call[c].op = "confirmed" /\ k2.call[c].state = "Updating"
       /\ k2.call[c].prev = k1.call[c].prev /\ k2.call[c].ack = x.ack
  BY <1>4, <1>7, <1>9, <1>11 DEF StateSet, Same, Fields
<1>13. /\ y.giving = FALSE /\ y.theirs = x.theirs /\ y.streams = x.streams
       /\ y.result = x.result /\ y.pending = x.pending /\ y.op = "confirmed"
       /\ y.state = "Updating" /\ y.prev = k1.call[c].prev /\ y.local = "sendrecv"
       /\ y.ack = x.ack
  BY <1>9, <1>10, <1>12 DEF Asked, Same, Fields
<1>14. y.mine => y.theirs = None
  <2>1. y.mine => x.mine \/ x.theirs = None
    BY <1>10, <1>12 DEF Asked, CanUpdate
  <2> QED
    BY <1>2, <1>13, <2>1 DEF Turns
<1>15. y.prev \in Live
  BY <1>2, <1>4, <1>11, <1>13 DEF Turns
<1>16. Only(q, core, c) /\ q.current = core.current /\ q.list = core.list
  BY <1>7, <1>9, <1>10, <1>11 DEF StateSet, Asked, Only
<1>17. Booked(q, core, c)
  <2>1. y.state \notin Over \cup {"Idle"}
    BY <1>13 DEF Over
  <2>2. x.state = "StreamsRunning" => x.state \notin Still
    BY DEF Still, Over
  <2>3. Regular => core.current = c
    BY <1>2, <1>3, <2>2
  <2> QED
    BY <1>2, <1>16, <2>1, <2>3, BookedOn
<1> HIDE DEF x, y
<1>18. y.state \in Live
  BY <1>13 DEF Live
<1>19. Held(y) /\ Plain(y) /\ Due(y)
  BY <1>2, <1>4, <1>13 DEF Held, Plain, Due
<1>20. y.streams = "card" => y.result \in {"sendrecv", "recvonly"}
  BY <1>2, <1>13 DEF Silence
<1>21. Good(y)
  BY <1>13, <1>14, <1>15, <1>18, <1>19, <1>20, UpIsGood
<1> QED
  BY <1>5, <1>16, <1>17, <1>21, OneCall DEF y

\* linphone_core_accept_call_update.
LEMMA UpdateAccepted ==
    ASSUME NEW k, Sound(k), NEW c \in Calls, k.call[c].state = "UpdatedByRemote",
           NEW r, r = accept_call_update(k, c)
    PROVE  Sound(r)
<1> DEFINE x == k.call[c]
           y == r.call[c]
           k1 == PutLocal(k, c, "sendrecv")
           dir == Answer(k1, c)
<1>1. /\ k \in Core /\ Turns(x) /\ Silence(x) /\ Plain(x)
      /\ x.state = "UpdatedByRemote"
      /\ x.state \in Live => x.op = "confirmed" /\ ~x.giving
      /\ c \in k.list <=> x.state \notin Over \cup {"Idle"}
      /\ Regular /\ x.state \notin Still => k.current = c
      /\ x.giving \in BOOLEAN /\ x.theirs \in Directions \cup {None, "bare"}
  BY PhaseOf, Typed
<1>2. x.giving = FALSE /\ c \in k.list
  BY <1>1 DEF Live, Over
<1>3. r = set_state(update_streams(sal_call_accept(k1, c), c, dir), c, "StreamsRunning")
  BY <1>1 DEF accept_call_update, PutLocal
<1>4. "sendrecv" \in Directions
  BY DEF Directions
<1>5. /\ Only(k1, k, c) /\ k1.call[c].local = "sendrecv" /\ Same(k1.call[c], x, {"local"})
      /\ k1.current = k.current /\ k1.list = k.list /\ k1 \in Core
  BY <1>1, <1>4, LocalPut DEF Only
<1>6. dir = compute_dir_incoming("sendrecv", x.theirs)
  BY <1>5 DEF Answer, Same, Fields
<1> HIDE DEF k1, dir
<1>7. dir \in Directions /\ (x.theirs # "recvonly" => dir # "sendonly")
  BY <1>1, <1>4, <1>6, Incoming
<1>8. "StreamsRunning" \in Live \cup Ended /\ "StreamsRunning" \notin Ended
  BY DEF Live, Ended
<1>9. AnswerFollowed(r, k1, c, dir, "StreamsRunning")
  BY <1>3, <1>5, <1>7, <1>8, AnswerAndFollow
<1>10. Only(r, k, c) /\ r.current = k.current /\ r.list = k.list
  BY <1>5, <1>9 DEF AnswerFollowed, Only
<1>11. /\ k1.call[c].state = "UpdatedByRemote" /\ k1.call[c].streams = x.streams
       /\ k1.call[c].result = x.result /\ k1.call[c].giving = FALSE
       /\ k1.call[c].mine = x.mine
  BY <1>1, <1>2, <1>5 DEF Same, Fields
<1>12. y.giving = FALSE /\ y.mine = x.mine /\ y.local = "sendrecv"
  BY <1>5, <1>9, <1>11 DEF AnswerFollowed, Same, Fields
<1>13. /\ y.op = "confirmed" /\ y.theirs = None
       /\ y.state = "StreamsRunning" /\ y.prev = "UpdatedByRemote"
       /\ y.pending = FALSE /\ y.result = dir
       /\ y.streams = "card" => \/ dir \in {"sendrecv", "recvonly"}
                                \/ x.streams = "card" /\ x.result = dir
  BY <1>9, <1>11 DEF AnswerFollowed, Ended
<1>14. Booked(r, k, c)
  <2>1. y.state \notin Over \cup {"Idle"} /\ x.state \notin Still
    BY <1>1, <1>13 DEF Over, Still
  <2> QED
    BY <1>1, <1>2, <1>10, <2>1, BookedOn
<1> HIDE DEF x, y
<1>15. y.state \in Live /\ y.prev \in Live
  BY <1>13 DEF Live
<1>16. Held(y) /\ Plain(y) /\ Due(y)
  <2>1. Regular => dir # "sendonly"
    <3>1. "recvonly" \notin {None, "sendrecv", "sendonly"}
      BY CallsAssumption DEF Directions
    <3> QED
      BY <1>1, <1>7, <3>1 DEF Plain
  <2> QED
    BY <1>12, <1>13, <2>1, CallsAssumption DEF Held, Plain, Due
<1>17. y.streams = "card" => y.result \in {"sendrecv", "recvonly"}
  BY <1>1, <1>13 DEF Silence
<1>18. Good(y)
  BY <1>12, <1>13, <1>15, <1>16, <1>17, UpIsGood
<1> QED
  BY <1>10, <1>14, <1>18, OneCall DEF y

\* The user accepts a change that was deferred.
LEMMA AcceptUpdateKeeps ==
    ASSUME Sound(core), NEW c \in Calls, AcceptUpdate(c)
    PROVE  Sound(core')
  BY UpdateAccepted DEF AcceptUpdate

-----------------------------------------------------------------------------
(* The answers of the peers.                                               *)

\* What an answer makes of our offer in each kind of world.
LEMMA ResultsOf ==
    ASSUME NEW c \in Calls, core \in Core, NEW dir \in Results(c)
    PROVE  /\ dir \in Directions \cup {None}
           /\ dir = None => setting.refuse
           /\ core.call[c].local = "sendonly" => dir \in {None, "sendonly", "inactive"}
           /\ ~setting.mute /\ core.call[c].local = "sendrecv" =>
                  dir \in {None, "sendrecv", "recvonly"}
<1>1. core.call[c].local \in Directions
  BY Typed
<1>2. CASE dir \in {compute_dir_outgoing(core.call[c].local, d) : d \in Answers(c)}
  <2>1. PICK d \in Answers(c) : dir = compute_dir_outgoing(core.call[c].local, d)
    BY <1>2
  <2>2. d \in Directions
    BY DEF Answers, Directions
  <2>3. ~setting.mute /\ core.call[c].local = "sendrecv" => d \in {"sendrecv", "sendonly"}
    BY DEF Answers
  <2>4. dir \in Directions /\ None \notin Directions
    BY <1>1, <2>1, <2>2, Outgoing, CallsAssumption
  <2>5. core.call[c].local = "sendonly" => dir \in {"sendonly", "inactive"}
    BY <1>1, <2>1, <2>2, Outgoing
  <2>6. ~setting.mute /\ core.call[c].local = "sendrecv" => dir \in {"sendrecv", "recvonly"}
    BY <1>1, <2>1, <2>2, <2>3, Outgoing
  <2> QED
    BY <2>4, <2>5, <2>6
<1>3. CASE dir = None /\ setting.refuse
  BY <1>3
<1> QED
  BY <1>2, <1>3 DEF Results

\* A call that is being made, once there is an early dialog.
LEMMA CallingIsGood ==
    ASSUME NEW y, y.op = "early", y.giving = FALSE, y.state \in Calling,
           y.mine = FALSE, y.theirs = None, y.ack = "none",
           y.streams = "card" => y.result \in {"sendrecv", "recvonly"},
           y.local \in {"sendonly", "sendrecv"}, Regular => y.local = "sendrecv"
    PROVE  Good(y)
<1>1. /\ y.state \notin Over /\ y.state \notin Live
      /\ y.state \notin {"Pausing", "Paused", "StreamsRunning", "PausedByRemote"}
  BY DEF Calling, Over, Live
<1>2. Phase(y)
  BY DEF Phase
<1>3. Turns(y)
  BY <1>1 DEF Turns
<1>4. Silence(y) /\ Held(y) /\ Plain(y)
  BY <1>1 DEF Silence, Held, Plain
<1>5. Due(y)
  BY CallsAssumption DEF Due
<1> QED
  BY <1>2, <1>3, <1>4, <1>5 DEF Good

\* A provisional answer.
LEMMA RingingKeeps ==
    ASSUME Sound(core), NEW c \in Calls, Ringing(c)
    PROVE  Sound(core')
<1> DEFINE x == core.call[c]
           k == PutOp(core, c, "early")
           z == k.call[c]
<1>1. /\ core \in Core /\ Phase(x) /\ Turns(x) /\ Silence(x) /\ Held(x) /\ Plain(x) /\ Due(x)
      /\ x.op \in {"inviting", "early"} /\ x.giving \in BOOLEAN /\ x.mine \in BOOLEAN
      /\ c \in core.list <=> x.state \notin Over \cup {"Idle"}
      /\ core.current = c => c \in core.list
      /\ Regular /\ x.state \notin Still => core.current = c
  BY PhaseOf, Typed DEF Ringing, Inviting
<1>2. /\ x.giving => core' = k
      /\ ~x.giving => \/ core' = call_ringing(k, c)
                      \/ \E dir \in Results(c) \ {None} : core' = call_ringing_early(k, c, dir)
  BY DEF Ringing, PutOp
<1>3. /\ Only(k, core, c) /\ z.op = "early" /\ Same(z, x, {"op"})
      /\ k.current = core.current /\ k.list = core.list /\ k \in Core
  BY <1>1, OpPut DEF Only
<1> HIDE DEF k
<1>4. /\ z.state = x.state /\ z.giving = x.giving /\ z.mine = x.mine
      /\ z.theirs = x.theirs /\ z.streams = x.streams /\ z.result = x.result
      /\ z.local = x.local /\ z.prev = x.prev /\ z.ack = x.ack
  BY <1>3 DEF Same, Fields
<1>5. Booked(k, core, c)
  BY <1>1, <1>3, <1>4 DEF Booked
<1>6. x.theirs = None /\ x.mine = FALSE /\ x.ack = "none"
  BY <1>1 DEF Turns, Due
<1>7. /\ x.streams = "card" => x.result \in {"sendrecv", "recvonly"}
      /\ x.local \in {"sendonly", "sendrecv"}
  BY <1>1 DEF Silence
<1>8. CASE x.giving
  <2>1. x.state \in Ended /\ x.state \in Over /\ x.state \notin Live
    BY <1>1, <1>8 DEF Phase, Calling, Over, Ended, Live
  <2> HIDE DEF x, z
  <2>2. Phase(z)
    BY <1>3, <1>4, <1>8, <2>1 DEF Phase
  <2>3. Turns(z)
    BY <1>4, <1>6, <2>1 DEF Turns
  <2>4. Silence(z)
    BY <1>1, <1>4, <1>8 DEF Silence
  <2>5. Held(z)
    BY <1>1, <1>4 DEF Held
  <2>6. Plain(z)
    BY <1>1, <1>3, <1>4, <1>6 DEF Plain
  <2>7. Good(z)
    <3>1. Due(z)
      BY <1>4, <1>6, CallsAssumption DEF Due
    <3> QED
      BY <2>2, <2>3, <2>4, <2>5, <2>6, <3>1 DEF Good
  <2> QED
    BY <1>2, <1>3, <1>5, <1>8, <2>7, OneCall DEF x, z
<1>9. CASE ~x.giving
  <2>1. x.state \in Calling /\ x.giving = FALSE
    BY <1>1, <1>9 DEF Phase
  <2>2. /\ x.state \notin Over \cup {"Idle"} /\ x.state \notin Still /\ x.state \notin Ended
        /\ x.state \notin {"Pausing", "Paused"}
    BY <2>1 DEF Calling, Over, Still, Ended
  <2>3. Regular => x.local = "sendrecv" /\ core.current = c
    BY <1>1, <2>2 DEF Plain
  <2>4. Good(z)
    <3>1. /\ z.op = "early" /\ z.giving = FALSE /\ z.state \in Calling
          /\ z.mine = FALSE /\ z.theirs = None /\ z.ack = "none"
          /\ z.streams = "card" => z.result \in {"sendrecv", "recvonly"}
          /\ z.local \in {"sendonly", "sendrecv"} /\ (Regular => z.local = "sendrecv")
      BY <1>3, <1>4, <1>6, <1>7, <2>1, <2>3
    <3> HIDE DEF z
    <3> QED
      BY ONLY <3>1, CallingIsGood
  <2>5. ASSUME NEW r, Only(r, core, c), r.call[c].op = "early",
               r.call[c].state \in Calling,
               r.call[c].giving = FALSE, r.call[c].mine = x.mine,
               r.call[c].theirs = x.theirs, r.call[c].local = x.local,
               r.call[c].ack = x.ack,
               r.call[c].streams = "card" => r.call[c].result \in {"sendrecv", "recvonly"},
               r.current = core.current, r.list = core.list
        PROVE  Sound(r)
    <3> DEFINE y == r.call[c]
    <3>1. Good(y)
      <4>1. /\ y.op = "early" /\ y.giving = FALSE /\ y.state \in Calling
            /\ y.mine = FALSE /\ y.theirs = None /\ y.ack = "none"
            /\ y.streams = "card" => y.result \in {"sendrecv", "recvonly"}
            /\ y.local \in {"sendonly", "sendrecv"} /\ (Regular => y.local = "sendrecv")
        BY <1>6, <1>7, <2>3, <2>5
      <4> HIDE DEF y
      <4> QED
        BY ONLY <4>1, CallingIsGood
    <3>2. r.call[c].state \notin Over \cup {"Idle"}
      BY <2>5 DEF Calling, Over
    <3>3. Booked(r, core, c)
      BY <1>1, <2>2, <2>3, <2>5, <3>2, BookedOn
    <3> QED
      BY <2>5, <3>1, <3>3, OneCall
  <2>6. CASE core' = call_ringing(k, c)
    <3>1. /\ "OutgoingRinging" \in States /\ "OutgoingRinging" \notin Ended
          /\ "OutgoingRinging" # "Released" /\ "OutgoingRinging" \in Calling
      BY DEF States, Ended, Calling
    <3>2. StateSet(core', k, c, "OutgoingRinging")
      BY <1>3, <2>6, <3>1, SetState DEF call_ringing
    <3> DEFINE y == core'.call[c]
    <3>3. /\ y.giving = FALSE /\ y.mine = x.mine /\ y.theirs = x.theirs
          /\ y.local = x.local /\ y.streams = x.streams /\ y.result = x.result
          /\ y.ack = x.ack
      BY <1>4, <2>1, <3>2 DEF StateSet, Same, Fields
    <3>4. y.state = "OutgoingRinging" /\ y.op = "early" /\ core'.current = core.current
          /\ core'.list = core.list
      BY <1>3, <1>4, <2>2, <3>1, <3>2 DEF StateSet
    <3>5. Only(core', core, c)
      BY <1>3, <3>2 DEF StateSet, Only
    <3> QED
      BY <1>7, <2>5, <3>1, <3>3, <3>4, <3>5
  <2>7. ASSUME NEW dir \in Results(c), dir # None, core' = call_ringing_early(k, c, dir)
        PROVE  Sound(core')
    <3> DEFINE k1 == set_state(k, c, "OutgoingEarlyMedia")
               y == core'.call[c]
    <3>1. CASE Started(z.streams)
      <4>1. core' = k
        BY <2>7, <3>1 DEF call_ringing_early
      <4> QED
        BY <1>3, <1>5, <2>4, <4>1, OneCall
    <3>2. CASE ~Started(z.streams)
      <4>1. dir \in Directions \cup {None}
        BY <1>1, <2>7, ResultsOf
      <4>2. /\ "OutgoingEarlyMedia" \in States /\ "OutgoingEarlyMedia" \notin Ended
            /\ "OutgoingEarlyMedia" # "Released" /\ "OutgoingEarlyMedia" \in Calling
        BY DEF States, Ended, Calling
      <4>3. StateSet(k1, k, c, "OutgoingEarlyMedia")
        BY <1>3, <4>2, SetState
      <4>4. core' = update_streams(k1, c, dir)
        BY <2>7, <3>2 DEF call_ringing_early
      <4> HIDE DEF k1
      <4>5. k1 \in Core
        BY <4>3 DEF StateSet, Only
      <4>6. Streamed(core', k1, c, dir)
        BY <4>1, <4>4, <4>5, UpdateStreams
      <4>7. /\ k1.call[c].giving = FALSE /\ k1.call[c].mine = x.mine
            /\ k1.call[c].theirs = x.theirs /\ k1.call[c].local = x.local
            /\ k1.call[c].streams = x.streams /\ k1.call[c].result = x.result
            /\ k1.call[c].ack = x.ack
        BY <1>4, <2>1, <4>3 DEF StateSet, Same, Fields
      <4>8. /\ k1.call[c].state = "OutgoingEarlyMedia" /\ k1.call[c].op = "early"
            /\ k1.current = core.current /\ k1.list = core.list
        BY <1>3, <1>4, <2>2, <4>2, <4>3 DEF StateSet
      <4>9. /\ y.giving = FALSE /\ y.mine = x.mine /\ y.theirs = x.theirs
            /\ y.local = x.local /\ y.state = "OutgoingEarlyMedia" /\ y.op = "early"
            /\ y.ack = x.ack
        BY <4>6, <4>7, <4>8 DEF Streamed, Same, Fields
      <4>10. y.streams = "card" => y.result \in {"sendrecv", "recvonly"}
        BY <1>7, <4>6, <4>7 DEF Streamed
      <4>11. Only(core', core, c) /\ core'.current = core.current /\ core'.list = core.list
        BY <1>3, <4>3, <4>6, <4>8 DEF StateSet, Streamed, Only
      <4> QED
        BY <2>5, <4>2, <4>9, <4>10, <4>11
    <3> QED
      BY <3>1, <3>2
  <2> QED
    BY <1>2, <1>9, <2>6, <2>7
<1> QED
  BY <1>8, <1>9

\* The end of our INVITE or re-INVITE: call_accepted, of an operation that
\* has just been confirmed.
LEMMA AcceptedKeeps ==
    ASSUME Sound(core), NEW c \in Calls, NEW dir \in Results(c),
           NEW x, x = core.call[c], x.giving = FALSE, x.theirs = None,
           x.op # "new", x.state \in Calling \cup Live,
           x.op = "confirmed" \/ x.op \in {"inviting", "early"},
           x.state \notin Calling => x.prev \in Live,
           NEW h, Only(h, core, c), h.call[c].op = "confirmed", h.call[c].mine = FALSE,
           Same(h.call[c], x, {"op", "mine"}), h.list = core.list, h.current = core.current,
           NEW r, r = call_accepted(h, c, dir)
    PROVE  Sound(r)
<1>1. /\ core \in Core /\ Silence(x) /\ Held(x) /\ Plain(x)
      /\ c \in core.list <=> x.state \notin Over \cup {"Idle"}
      /\ Regular /\ x.state \notin Still => core.current = c
  BY PhaseOf
<1>2. /\ dir \in Directions \cup {None}
      /\ x.local = "sendonly" => dir \in {None, "sendonly", "inactive"}
      /\ ~setting.mute /\ x.local = "sendrecv" => dir \in {None, "sendrecv", "recvonly"}
  BY <1>1, ResultsOf
<1>3. x.state \notin Over \cup {"Idle"} /\ x.state \notin Ended /\ c \in core.list
  BY <1>1 DEF Calling, Live, Over, Ended
<1>4. /\ x.local \in {"sendonly", "sendrecv"}
      /\ x.streams = "card" => x.result \in {"sendrecv", "recvonly"}
  BY <1>1 DEF Silence
<1>5. Regular => ~setting.mute /\ Polite
  BY DEF Regular, Polite
<1>6. None \notin {"sendrecv", "recvonly", "sendonly", "inactive"}
  BY CallsAssumption DEF Directions
<1>7. Regular /\ dir \in {"sendrecv", "recvonly"} =>
          x.local = "sendrecv" /\ core.current = c
  <2> SUFFICES ASSUME Regular, dir \in {"sendrecv", "recvonly"}
               PROVE  x.local = "sendrecv" /\ core.current = c
    OBVIOUS
  <2>1. x.local = "sendrecv"
    BY <1>2, <1>4, <1>6
  <2>2. x.state \notin {"Pausing", "Paused"}
    BY <1>1, <1>5, <2>1 DEF Held
  <2>3. x.state \notin Still
    BY <1>3, <2>2 DEF Still, Calling, Live
  <2> QED
    BY <1>1, <2>1, <2>3
<1> DEFINE k1 == IF h.call[c].state \in Calling THEN set_state(h, c, "Connected") ELSE h
           z == k1.call[c]
           k2 == update_streams(k1, c, dir)
<1>8. /\ h.call[c].state = x.state /\ h.call[c].giving = FALSE
      /\ h.call[c].theirs = None /\ h.call[c].local = x.local
      /\ h.call[c].streams = x.streams /\ h.call[c].result = x.result
      /\ h.call[c].pending = x.pending /\ h.call[c].prev = x.prev /\ h \in Core
  BY DEF Same, Fields, Only
<1>9. /\ Only(k1, core, c) /\ k1 \in Core /\ k1.list = core.list /\ k1.current = core.current
      /\ Same(z, x, {"state", "prev", "mine", "op"})
      /\ z.op = "confirmed" /\ z.mine = FALSE
      /\ z.state \in Live /\ (z.state # "Connected" => z.prev \in Live)
      /\ z.state \notin Ended
  <2>1. CASE x.state \in Calling
    <3>1. /\ "Connected" \in States /\ "Connected" \notin Ended /\ "Connected" # "Released"
          /\ "Connected" \in Live
      BY DEF States, Ended, Live
    <3>2. k1 = set_state(h, c, "Connected")
      BY <1>8, <2>1
    <3> HIDE DEF k1
    <3>3. StateSet(k1, h, c, "Connected")
      BY <1>8, <3>1, <3>2, SetState
    <3>4. Only(k1, core, c) /\ k1 \in Core
      BY <3>3 DEF StateSet, Only
    <3>5. /\ k1.list = core.list /\ k1.current = core.current
          /\ z.op = "confirmed" /\ z.state = "Connected"
      BY <1>3, <1>8, <3>1, <3>3 DEF StateSet
    <3>6. Same(z, x, {"state", "prev", "mine", "op"}) /\ z.mine = FALSE
      BY <3>3 DEF StateSet, Same, Fields
    <3> QED
      BY <3>1, <3>4, <3>5, <3>6
  <2>2. CASE x.state \notin Calling
    <3>1. k1 = h
      BY <1>8, <2>2
    <3>2. Same(z, x, {"state", "prev", "mine", "op"})
      BY <3>1 DEF Same
    <3>3. z.state \in Live /\ z.prev \in Live /\ z.state \notin Ended
      BY <1>3, <1>8, <2>2, <3>1
    <3> QED
      BY <1>8, <3>1, <3>2, <3>3
  <2> QED
    BY <2>1, <2>2
<1>10. r = CASE dir = None -> abort_call(k1, c)
             [] has_dir(dir, "sendonly") -> set_state(k2, c, "Paused")
             [] dir = "recvonly" -> set_state(k2, c, "PausedByRemote")
             [] OTHER -> set_state([k2 EXCEPT !.current = c], c, "StreamsRunning")
  BY DEF call_accepted, Calling
<1> HIDE DEF k1
<1>11. /\ z.giving = FALSE /\ z.theirs = None /\ z.local = x.local
       /\ z.streams = x.streams /\ z.result = x.result
  BY <1>8, <1>9 DEF Same, Fields
<1>12. CASE dir = None
  <2>1. r = set_state(stop_media_streams(sal_call_terminate(k1, c), c), c, "Error")
    BY <1>6, <1>10, <1>12 DEF abort_call, has_dir
  <2>2. "Error" \in Ended
    BY DEF Ended
  <2>3. GivenUp(r, k1, c, "Error")
    BY <1>9, <2>1, <2>2, GiveUp
  <2>4. x.state # "Released"
    BY <1>3 DEF Over
  <2>5. Same(z, x, {"state", "prev", "mine", "ack", "op"}) /\ z.ack = x.ack
    BY <1>9 DEF Same, Fields
  <2> QED
    BY <1>3, <1>9, <2>2, <2>3, <2>4, <2>5, GivenUpKeeps
<1> DEFINE y == r.call[c]
\* Whatever is not given up ends like this.
<1>13. ASSUME Only(r, core, c), r.list = core.list, y.op = "confirmed", y.giving = FALSE,
              y.mine = FALSE, y.theirs = None, y.local = x.local, y.pending = FALSE,
              y.state \in Live \ {"Connected"}, y.prev \in Live,
              y.result = dir,
              y.streams = "card" => \/ dir \in {"sendrecv", "recvonly"}
                                    \/ x.streams = "card" /\ x.result = dir,
              \/ /\ y.state = "Paused" /\ r.current = core.current
                 /\ dir \in {"sendonly", "inactive"}
              \/ /\ y.state = "PausedByRemote" /\ r.current = core.current
                 /\ dir = "recvonly"
              \/ /\ y.state = "StreamsRunning" /\ r.current = c /\ dir = "sendrecv"
       PROVE  Sound(r)
  <2>1. y.streams = "card" => dir \in {"sendrecv", "recvonly"}
    BY <1>4, <1>13
  <2>2. Held(y)
    <3> SUFFICES ASSUME Polite, y.state \in {"Pausing", "Paused"}
                 PROVE  y.local = "sendonly" /\ y.streams # "card" /\ ~y.mine /\ y.theirs = None
      BY DEF Held
    <3>1. dir \in {"sendonly", "inactive"}
      BY <1>13
    <3>2. ~setting.mute
      BY DEF Polite
    <3> QED
      BY <1>2, <1>4, <1>6, <1>13, <2>1, <3>1, <3>2
  <2>3. Plain(y)
    BY <1>7, <1>13 DEF Plain
  <2>4. Good(y)
    <3>1. Due(y)
      BY <1>13, CallsAssumption DEF Due
    <3> HIDE DEF y
    <3> QED
      BY <1>4, <1>13, <2>1, <2>2, <2>3, <3>1, UpIsGood
  <2>5. y.state \notin Over \cup {"Idle"} /\ (y.state = "Paused" => y.state \in Still)
    BY <1>13 DEF Live, Over, Still
  <2>6. Regular /\ y.state \notin Still => r.current = c
    BY <1>7, <1>13, <2>5
  <2>7. r.current = c /\ dir = "sendrecv" =>
            (Regular => \A d \in Calls : d # c => core.call[d].state \in Still)
    BY <1>7, Others
  <2>8. \/ r.current = core.current
        \/ r.current = c /\ (Regular => \A d \in Calls : d # c => core.call[d].state \in Still)
    BY <1>13, <2>7
  <2>9. Booked(r, core, c)
    BY <1>3, <1>13, <2>5, <2>6, <2>8, BookedOn
  <2> QED
    BY <1>13, <2>4, <2>9, OneCall
<1>14. ASSUME NEW s \in {"Paused", "PausedByRemote"}, r = set_state(k2, c, s),
              s = "Paused" => dir \in {"sendonly", "inactive"},
              s = "PausedByRemote" => dir = "recvonly"
       PROVE  Sound(r)
  <2>1. s \in Live \cup Ended /\ s \notin Ended /\ s \in Live \ {"Connected"}
    BY DEF Live, Ended
  <2>2. Followed(r, k1, c, dir, s)
    BY <1>2, <1>9, <1>14, <2>1, Follow
  <2>3. /\ y.op = "confirmed" /\ y.giving = FALSE /\ y.mine = FALSE /\ y.theirs = None
        /\ y.local = x.local
    BY <1>9, <1>11, <2>2 DEF Followed, Same, Fields
  <2>4. /\ y.pending = FALSE /\ y.result = dir /\ y.state = s
        /\ y.prev = IF s = z.state THEN z.prev ELSE z.state
        /\ y.streams = "card" => \/ dir \in {"sendrecv", "recvonly"}
                                 \/ x.streams = "card" /\ x.result = dir
        /\ r.current = core.current /\ r.list = core.list
    BY <1>9, <1>11, <2>2 DEF Followed
  <2>5. y.prev \in Live
    BY <1>9, <2>1, <2>4
  <2>6. Only(r, core, c)
    BY <1>9, <2>2 DEF Followed, Only
  <2> HIDE DEF y
  <2> QED
    BY <1>13, <1>14, <2>1, <2>3, <2>4, <2>5, <2>6 DEF y
<1>15. CASE dir \in {"sendonly", "inactive"}
  <2>1. r = set_state(k2, c, "Paused")
    BY <1>6, <1>10, <1>15 DEF has_dir
  <2> QED
    BY <1>14, <1>15, <2>1
<1>16. CASE dir = "recvonly"
  <2>1. r = set_state(k2, c, "PausedByRemote")
    BY <1>6, <1>10, <1>16 DEF has_dir
  <2> QED
    BY <1>14, <1>16, <2>1
<1>17. CASE dir = "sendrecv"
  <2> DEFINE k3 == PutCurrent(k2, c)
  <2>1. r = set_state(k3, c, "StreamsRunning")
    BY <1>6, <1>10, <1>17 DEF has_dir, PutCurrent
  <2>2. Streamed(k2, k1, c, dir)
    BY <1>2, <1>9, UpdateStreams
  <2> HIDE DEF k2
  <2>3. k2 \in Core
    BY <2>2 DEF Streamed, Only
  <2>4. k3 \in Core /\ k3.call = k2.call /\ k3.current = c /\ k3.list = k2.list
    BY <2>3, CurrentPut
  <2> HIDE DEF k3
  <2>5. /\ "StreamsRunning" \in States /\ "StreamsRunning" \notin Ended
        /\ "StreamsRunning" # "Released" /\ "StreamsRunning" \in Live \ {"Connected"}
    BY DEF States, Ended, Live
  <2>6. StateSet(r, k3, c, "StreamsRunning")
    BY <2>1, <2>4, <2>5, SetState
  <2>7. /\ k3.call[c].op = "confirmed" /\ k3.call[c].giving = FALSE
        /\ k3.call[c].mine = FALSE /\ k3.call[c].theirs = None
        /\ k3.call[c].local = x.local /\ k3.call[c].state = z.state
        /\ k3.call[c].prev = z.prev
    BY <1>9, <1>11, <2>2, <2>4 DEF Streamed, Same, Fields
  <2>8. /\ k3.call[c].pending = FALSE /\ k3.call[c].result = dir
        /\ k3.call[c].streams = "card" => \/ dir \in {"sendrecv", "recvonly"}
                                          \/ x.streams = "card" /\ x.result = dir
    BY <1>11, <2>2, <2>4 DEF Streamed
  <2>9. /\ y.giving = FALSE /\ y.mine = FALSE /\ y.theirs = None /\ y.local = x.local
        /\ y.pending = FALSE /\ y.result = dir /\ y.streams = k3.call[c].streams
    BY <2>6, <2>7, <2>8 DEF StateSet, Same, Fields
  <2>10. /\ y.op = "confirmed" /\ y.state = "StreamsRunning"
         /\ y.prev = IF "StreamsRunning" = z.state THEN z.prev ELSE z.state
         /\ r.current = c /\ r.list = k3.list
    BY <1>9, <2>4, <2>5, <2>6, <2>7 DEF StateSet
  <2>11. y.prev \in Live
    BY <1>9, <2>10
  <2>12. Only(r, core, c)
    BY <1>9, <2>2, <2>4, <2>6 DEF StateSet, Streamed, Only
  <2>13. r.list = core.list
    BY <1>9, <2>2, <2>4, <2>10 DEF Streamed
  <2> HIDE DEF y
  <2> QED
    BY <1>13, <1>17, <2>5, <2>8, <2>9, <2>10, <2>11, <2>12, <2>13 DEF y
<1> QED
  BY <1>2, <1>12, <1>15, <1>16, <1>17 DEF Directions

\* A 2xx to our INVITE.
LEMMA AnsweredKeeps ==
    ASSUME Sound(core), NEW c \in Calls, Answered(c)
    PROVE  Sound(core')
<1> DEFINE x == core.call[c]
           h == PutOp(core, c, "confirmed")
<1>1. /\ core \in Core /\ Phase(x) /\ Turns(x) /\ Silence(x) /\ Held(x) /\ Plain(x) /\ Due(x)
      /\ x.op \in {"inviting", "early"} /\ x.giving \in BOOLEAN /\ x.mine \in BOOLEAN
      /\ c \in core.list <=> x.state \notin Over \cup {"Idle"}
      /\ core.current = c => c \in core.list
      /\ Regular /\ x.state \notin Still => core.current = c
  BY PhaseOf, Typed DEF Answered, Inviting
<1>2. /\ x.giving => core' = h
      /\ ~x.giving => \E dir \in Results(c) : core' = call_accepted(h, c, dir)
  BY DEF Answered, PutOp
<1>3. /\ Only(h, core, c) /\ h.call[c].op = "confirmed" /\ Same(h.call[c], x, {"op"})
      /\ h.current = core.current /\ h.list = core.list /\ h \in Core
  BY <1>1, OpPut DEF Only
<1> HIDE DEF h
<1> DEFINE z == h.call[c]
<1>4. /\ z.state = x.state /\ z.giving = x.giving /\ z.mine = x.mine
      /\ z.theirs = x.theirs /\ z.streams = x.streams /\ z.result = x.result
      /\ z.local = x.local /\ z.prev = x.prev /\ z.ack = x.ack
  BY <1>3 DEF Same, Fields
<1>5. x.theirs = None /\ x.mine = FALSE /\ x.ack = "none"
  BY <1>1 DEF Turns, Due
<1>6. CASE x.giving
  <2>1. x.state \in Ended /\ x.state \in Over /\ x.state \notin Live
    BY <1>1, <1>6 DEF Phase, Calling, Over, Ended, Live
  <2>2. Booked(h, core, c)
    BY <1>1, <1>3, <1>4 DEF Booked
  <2> HIDE DEF x, z
  <2>3. Phase(z)
    BY <1>3, <1>4, <1>6, <2>1 DEF Phase, z
  <2>4. Turns(z)
    BY <1>4, <1>5, <2>1 DEF Turns
  <2>5. Silence(z)
    BY <1>1, <1>4, <1>6 DEF Silence
  <2>6. Held(z)
    BY <1>1, <1>4 DEF Held
  <2>7. Plain(z)
    BY <1>1, <1>3, <1>4, <1>5, <1>6 DEF Plain, z
  <2>8. Good(z)
    <3>1. Due(z)
      BY <1>4, <1>5, CallsAssumption DEF Due
    <3> QED
      BY <2>3, <2>4, <2>5, <2>6, <2>7, <3>1 DEF Good
  <2> QED
    BY <1>2, <1>3, <1>6, <2>2, <2>8, OneCall DEF x, z
<1>7. CASE ~x.giving
  <2>1. x.state \in Calling /\ x.giving = FALSE
    BY <1>1, <1>7 DEF Phase
  <2>2. PICK dir \in Results(c) : core' = call_accepted(h, c, dir)
    BY <1>2, <1>7
  <2>3. Same(z, x, {"op", "mine"}) /\ z.mine = FALSE
    BY <1>3, <1>4, <1>5 DEF Same
  <2> QED
    BY <1>1, <1>3, <1>5, <2>1, <2>2, <2>3, AcceptedKeeps
<1> QED
  BY <1>6, <1>7

\* A 2xx to a re-INVITE of ours.
LEMMA ReansweredKeeps ==
    ASSUME Sound(core), NEW c \in Calls, Reanswered(c)
    PROVE  Sound(core')
<1> DEFINE x == core.call[c]
           h == PutMine(core, c, FALSE)
<1>1. /\ core \in Core /\ Turns(x) /\ x.op = "confirmed" /\ x.giving = FALSE
      /\ x.mine
  BY PhaseOf, Typed DEF Reanswered, Talking
<1>2. PICK dir \in Results(c) : core' = call_accepted(h, c, dir)
  BY DEF Reanswered, PutMine
<1>3. FALSE \in BOOLEAN
  OBVIOUS
<1>4. /\ Only(h, core, c) /\ h.call[c].mine = FALSE /\ Same(h.call[c], x, {"mine"})
      /\ h.current = core.current /\ h.list = core.list
  BY <1>1, <1>3, MinePut
<1> HIDE DEF h
<1>5. h.call[c].op = "confirmed" /\ Same(h.call[c], x, {"op", "mine"})
  BY <1>1, <1>4 DEF Same, Fields
<1>6. /\ x.theirs = None /\ x.state \in Calling \cup Live /\ x.prev \in Live
  BY <1>1 DEF Turns
<1> QED
  BY <1>1, <1>2, <1>4, <1>5, <1>6, AcceptedKeeps

\* A call that is over although its dialog is not: it was hung up, or a
\* re-INVITE was refused.
LEMMA OverIsGood ==
    ASSUME NEW y, y.op = "confirmed", y.state \in Ended, y.giving \/ setting.refuse,
           y.mine => y.giving /\ y.theirs = None, ~Regular,
           setting.refuse \/ setting.bare \/ setting.collide,
           y.streams = "card" => y.result \in {"sendrecv", "recvonly"},
           y.local \in {"sendonly", "sendrecv"}, Due(y)
    PROVE  Good(y)
<1>1. /\ y.state \notin {"Pausing", "Paused"} /\ y.state \notin Live
      /\ y.state \in Over
  BY DEF Ended, Live, Over
<1>2. Phase(y)
  BY <1>1 DEF Phase
<1>3. Turns(y)
  BY <1>1 DEF Turns
<1>4. Silence(y)
  BY DEF Silence
<1>5. Held(y) /\ Plain(y)
  BY <1>1 DEF Held, Plain
<1> QED
  BY <1>2, <1>3, <1>4, <1>5 DEF Good

\* What a call is whose operation is confirmed.
LEMMA ConfirmedIs ==
    ASSUME Sound(core), NEW c \in Calls, NEW x, x = core.call[c], x.op = "confirmed"
    PROVE  /\ core \in Core /\ Turns(x) /\ Silence(x) /\ Held(x) /\ Plain(x) /\ Due(x)
           /\ x.giving \in BOOLEAN
           /\ x.state \in Live \cup Ended
           /\ x.state \in Live => x.giving = FALSE
           /\ x.state \in Ended => x.giving \/ (setting.refuse /\ ~x.mine)
           /\ x.state \in Live \ {"Connected"} => x.prev \in Live
           /\ x.mine => x.theirs = None
           /\ x.streams = "card" => x.result \in {"sendrecv", "recvonly"}
           /\ x.local \in {"sendonly", "sendrecv"} /\ x.local \in Directions
           /\ c \in core.list <=> x.state \notin Over \cup {"Idle"}
           /\ core.current = c => c \in core.list
           /\ Regular /\ x.state \notin Still => core.current = c
<1>1. /\ core \in Core /\ Phase(x) /\ Turns(x) /\ Silence(x) /\ Held(x) /\ Plain(x)
      /\ Due(x) /\ x.giving \in BOOLEAN
      /\ c \in core.list <=> x.state \notin Over \cup {"Idle"}
      /\ core.current = c => c \in core.list
      /\ Regular /\ x.state \notin Still => core.current = c
      /\ x.local \in Directions
  BY PhaseOf, Typed
<1>2. x.state \in Live \cup Ended
  BY <1>1 DEF Phase
<1>3. x.state \in Live => x.giving = FALSE
  BY <1>1 DEF Phase, Live, Over
<1>4. x.state \in Ended => x.giving \/ setting.refuse
  BY <1>1 DEF Silence, Ended, Over
<1>5. x.state \in Ended => x.giving \/ ~x.mine
  <2>1. x.state \in Ended => x.state \notin Live
    BY DEF Ended, Live
  <2> QED
    BY <1>1, <2>1 DEF Turns
<1>6. /\ x.state \in Live \ {"Connected"} => x.prev \in Live
      /\ x.mine => x.theirs = None
      /\ x.streams = "card" => x.result \in {"sendrecv", "recvonly"}
      /\ x.local \in {"sendonly", "sendrecv"}
  BY <1>1 DEF Turns, Silence
<1> QED
  BY <1>1, <1>2, <1>3, <1>4, <1>5, <1>6

\* A re-INVITE of ours is refused, for now or for good.
LEMMA RerefusedKeeps ==
    ASSUME Sound(core), NEW c \in Calls, Rerefused(c)
    PROVE  Sound(core')
<1> DEFINE x == core.call[c]
           h == PutMine(core, c, FALSE)
<1>1. x.op = "confirmed" /\ ~x.giving /\ x.mine
  BY DEF Rerefused, Talking
<1>2. /\ core \in Core /\ Turns(x) /\ Silence(x) /\ Held(x) /\ Plain(x) /\ Due(x)
      /\ x.op = "confirmed" /\ x.giving = FALSE
      /\ x.state \in Live \cup Ended
      /\ x.state \in Ended => setting.refuse /\ ~x.mine
      /\ x.state \in Live \ {"Connected"} => x.prev \in Live
      /\ x.streams = "card" => x.result \in {"sendrecv", "recvonly"}
      /\ x.local \in {"sendonly", "sendrecv"}
      /\ c \in core.list <=> x.state \notin Over \cup {"Idle"}
  BY <1>1, ConfirmedIs
<1>3. \/ setting.collide /\ core' = call_failure_pending(h, c)
      \/ setting.refuse /\ \E declined \in BOOLEAN : core' = call_failure(h, c, declined)
  BY DEF Rerefused, PutMine
<1>4. FALSE \in BOOLEAN
  OBVIOUS
<1>5. /\ Only(h, core, c) /\ h.call[c].mine = FALSE /\ Same(h.call[c], x, {"mine"})
      /\ h.current = core.current /\ h.list = core.list /\ h \in Core
  BY <1>2, <1>4, MinePut DEF Only
<1> HIDE DEF h
<1>6. /\ x.theirs = None /\ x.state \in Live \ {"Connected"} /\ x.prev \in Live
  BY <1>1, <1>2 DEF Turns
<1>7. /\ h.call[c].op = "confirmed" /\ h.call[c].giving = FALSE
      /\ h.call[c].theirs = None /\ h.call[c].local = x.local
      /\ h.call[c].streams = x.streams /\ h.call[c].result = x.result
      /\ h.call[c].state = x.state /\ h.call[c].prev = x.prev
      /\ h.call[c].ack = x.ack /\ h.call[c].pending = x.pending
  BY <1>2, <1>5, <1>6 DEF Same, Fields
<1>8. CASE setting.collide /\ core' = call_failure_pending(h, c)
  <2> DEFINE y == core'.call[c]
             s == x.prev
  <2>1. core' = set_state(h, c, s)
    BY <1>7, <1>8 DEF call_failure_pending
  <2>2. s \in Live /\ s \in States /\ s \notin Ended /\ s # "Released"
    BY <1>6 DEF Live, States, Ended
  <2> HIDE DEF s
  <2>3. StateSet(core', h, c, s)
    BY <1>5, <2>1, <2>2, SetState
  <2>4. x.state \notin Ended /\ x.state \in Live
    BY <1>6 DEF Live, Ended
  <2>5. /\ y.giving = FALSE /\ y.mine = FALSE /\ y.theirs = None
        /\ y.local = x.local /\ y.streams = x.streams /\ y.result = x.result
        /\ y.ack = x.ack /\ y.pending = x.pending
    BY <1>5, <1>7, <2>3 DEF StateSet, Same, Fields
  <2>6. /\ y.op = "confirmed" /\ y.state = s
        /\ y.prev = IF s = x.state THEN x.prev ELSE x.state
        /\ core'.current = core.current /\ core'.list = core.list
    BY <1>5, <1>7, <2>2, <2>3, <2>4 DEF StateSet
  <2>7. y.prev \in Live /\ y.state \in Live
    BY <1>6, <2>2, <2>4, <2>6
  <2>8. Only(core', core, c)
    BY <1>5, <2>3 DEF StateSet, Only
  <2>9. ~Polite /\ ~Regular
    BY <1>8 DEF Polite, Regular
  <2>10. Booked(core', core, c)
    <3>1. y.state \notin Over \cup {"Idle"} /\ x.state \notin Over \cup {"Idle"}
      BY <2>4, <2>7 DEF Live, Over
    <3> QED
      BY <1>2, <2>6, <2>9, <3>1, BookedOn
  <2>11. y.local \in {"sendonly", "sendrecv"}
         /\ (y.streams = "card" => y.result \in {"sendrecv", "recvonly"})
    BY <1>2, <2>5
  <2> HIDE DEF y
  <2>12. Held(y) /\ Plain(y) /\ Due(y)
    BY <1>2, <1>6, <2>5, <2>6, <2>9 DEF Held, Plain, Due
  <2>13. Good(y)
    BY <2>5, <2>6, <2>7, <2>11, <2>12, UpIsGood
  <2> QED
    BY <2>8, <2>10, <2>13, OneCall DEF y
<1>9. ASSUME setting.refuse, NEW declined \in BOOLEAN, core' = call_failure(h, c, declined)
      PROVE  Sound(core')
  <2> DEFINE s == IF declined THEN "End" ELSE "Error"
  <2>1. s \in Ended
    BY DEF Ended
  <2>2. core' = set_state(stop_media_streams(h, c), c, s)
    BY <1>9 DEF call_failure
  <2> HIDE DEF s
  <2>3. Finished(core', h, c, s)
    BY <1>5, <2>1, <2>2, StopAndEnd
  <2>4. /\ Same(h.call[c], x, {"op", "mine", "local", "pending"})
        /\ h.call[c].local \in {"sendonly", "sendrecv"}
    BY <1>2, <1>5, <1>7 DEF Same
  <2>5. x.state # "Released"
    BY <1>6 DEF Live
  <2> QED
    BY <1>5, <1>7, <1>9, <2>1, <2>3, <2>4, <2>5, FinishedKeeps
<1> QED
  BY <1>3, <1>8, <1>9

\* The ACK, with the answer of the peer or without.
LEMMA AckKeeps ==
    ASSUME Sound(core), NEW c \in Calls, Ack(c)
    PROVE  Sound(core')
<1> DEFINE x == core.call[c]
           h == PutAck(core, c, "none")
           z == h.call[c]
<1>1. x.op = "confirmed" /\ x.ack # "none" /\ (x.pending => setting.bare)
  BY PhaseOf DEF Ack, Due
<1>2. /\ core \in Core /\ Turns(x) /\ Silence(x) /\ Held(x) /\ Plain(x) /\ Due(x)
      /\ x.giving \in BOOLEAN
      /\ x.state \in Live \cup Ended
      /\ x.state \in Live => x.giving = FALSE
      /\ x.state \in Ended => x.giving \/ (setting.refuse /\ ~x.mine)
      /\ x.mine => x.theirs = None
      /\ x.state \in Live \ {"Connected"} => x.prev \in Live
      /\ x.streams = "card" => x.result \in {"sendrecv", "recvonly"}
      /\ x.local \in {"sendonly", "sendrecv"}
      /\ c \in core.list <=> x.state \notin Over \cup {"Idle"}
      /\ core.current = c => c \in core.list
      /\ Regular /\ x.state \notin Still => core.current = c
  BY <1>1, ConfirmedIs
<1>3. PICK dir \in Results(c) \cup {x.result} : core' = call_ack(h, c, dir)
  <2>1. \/ core' = call_ack(h, c, x.result)
        \/ \E dir \in Results(c) : core' = call_ack(h, c, dir)
    BY DEF Ack, PutAck
  <2> QED
    BY <2>1
<1>4. dir \in Directions \cup {None}
  BY <1>2, ResultsOf, Typed
<1>5. /\ Only(h, core, c) /\ Same(z, x, {"ack"}) /\ z.ack = "none"
      /\ h.current = core.current /\ h.list = core.list /\ h \in Core
  BY <1>2, AckPut DEF Only
<1> HIDE DEF h
<1>6. /\ z.op = "confirmed" /\ z.giving = x.giving /\ z.mine = x.mine
      /\ z.theirs = x.theirs /\ z.local = x.local /\ z.streams = x.streams
      /\ z.result = x.result /\ z.state = x.state /\ z.prev = x.prev
      /\ z.pending = x.pending
  BY <1>1, <1>5 DEF Same, Fields
<1>7. CASE ~x.pending
  <2>1. core' = h
    BY <1>3, <1>6, <1>7 DEF call_ack
  <2>2. Good(x)
    BY DEF Sound
  <2>3. Good(z)
    <3> HIDE DEF x, z
    <3> QED
      BY <1>1, <1>5, <1>6, <2>2 DEF Good, Phase, Turns, Silence, Held, Plain, Due
  <2>4. Booked(h, core, c)
    BY <1>2, <1>5, <1>6, SMTT(60) DEF Booked
  <2> QED
    BY <1>5, <2>1, <2>3, <2>4, OneCall
<1>8. CASE x.pending /\ dir = None
  <2>1. core' = set_state(stop_media_streams(sal_call_terminate(h, c), c), c, "Error")
    BY <1>3, <1>6, <1>8 DEF call_ack, abort_call
  <2>2. "Error" \in Ended
    BY DEF Ended
  <2>3. GivenUp(core', h, c, "Error")
    BY <1>5, <2>1, <2>2, GiveUp
  <2>4. Same(z, x, {"state", "prev", "mine", "ack", "op"})
    BY <1>5 DEF Same
  <2>5. x.state # "Released" /\ x.op # "new"
    BY <1>1, <1>2 DEF Live, Ended
  <2> QED
    BY <1>1, <1>2, <1>5, <1>6, <2>2, <2>3, <2>4, <2>5, GivenUpKeeps
<1>9. CASE x.pending /\ dir # None
  <2> DEFINE y == core'.call[c]
  <2>1. core' = set_state(update_streams(h, c, dir), c, "StreamsRunning")
    BY <1>3, <1>6, <1>9 DEF call_ack
  <2>2. "StreamsRunning" \in Live \cup Ended /\ "StreamsRunning" \notin Ended
    BY DEF Live, Ended
  <2>3. Followed(core', h, c, dir, "StreamsRunning")
    BY <1>4, <1>5, <2>1, <2>2, Follow
  <2>4. setting.bare /\ ~Regular
    BY <1>1, <1>9 DEF Regular
  <2>5. /\ y.op = "confirmed" /\ y.giving = x.giving /\ y.mine = x.mine
        /\ y.theirs = x.theirs /\ y.local = x.local
    BY <1>6, <2>3 DEF Followed, Same, Fields
  <2>6. /\ y.result = dir
        /\ y.state = IF x.state \in Ended THEN x.state ELSE "StreamsRunning"
        /\ y.prev = IF "StreamsRunning" = x.state THEN x.prev ELSE x.state
        /\ y.streams = "card" => \/ dir \in {"sendrecv", "recvonly"}
                                 \/ x.streams = "card" /\ x.result = dir
        /\ core'.current = core.current /\ core'.list = core.list
    BY <1>5, <1>6, <2>3 DEF Followed
  <2>7. Only(core', core, c)
    BY <1>5, <2>3 DEF Followed, Only
  <2>8. y.state \in Over <=> x.state \in Over
    BY <1>2, <2>6 DEF Live, Ended, Over
  <2>9. y.state # "Idle" /\ x.state # "Idle"
    BY <1>2, <2>6 DEF Live, Ended
  <2>10. Booked(core', core, c)
    BY <1>2, <2>4, <2>6, <2>8, <2>9 DEF Booked
  <2>11. (y.streams = "card" => y.result \in {"sendrecv", "recvonly"}) /\ Due(y)
    BY <1>2, <2>4, <2>5, <2>6 DEF Due
  <2>12. Good(y)
    <3> HIDE DEF x, y
    <3>1. CASE x.state \in Ended
      <4>1. /\ y.state \in Ended /\ (y.giving \/ setting.refuse)
            /\ y.mine => y.giving /\ y.theirs = None
        BY <1>2, <2>5, <2>6, <3>1
      <4> QED
        BY <1>2, <2>4, <2>5, <2>11, <4>1, OverIsGood
    <3>2. CASE x.state \notin Ended
      <4>1. x.state \in Live /\ y.state = "StreamsRunning" /\ y.state \in Live
        BY <1>2, <2>6, <3>2 DEF Live
      <4>2. y.prev \in Live
        BY <1>2, <2>6, <4>1
      <4>3. y.mine => y.theirs = None
        BY <1>2, <2>5 DEF Turns
      <4>4. Held(y) /\ Plain(y)
        BY <2>4, <4>1 DEF Held, Plain
      <4> QED
        BY <1>2, <2>5, <2>11, <4>1, <4>2, <4>3, <4>4, UpIsGood
    <3> QED
      BY <3>1, <3>2
  <2> QED
    BY <2>7, <2>10, <2>12, OneCall
<1> QED
  BY <1>7, <1>8, <1>9

\* A re-INVITE of theirs: call_updating.
LEMMA UpdatingKeeps ==
    ASSUME Sound(core), NEW c \in Calls, Updating(c)
    PROVE  Sound(core')
<1> DEFINE x == core.call[c]
<1>1. /\ x.op = "confirmed" /\ x.mine \in BOOLEAN
      /\ \/ ~x.giving /\ ~x.mine /\ x.theirs = None
         \/ x.giving /\ setting.collide
  <2>1. x.mine \in BOOLEAN
    BY Typed DEF Sound
  <2> QED
    BY <2>1 DEF Updating
<1>2. /\ core \in Core /\ Turns(x) /\ Silence(x) /\ Held(x) /\ Plain(x) /\ Due(x)
      /\ x.state \in Live \cup Ended
      /\ x.state \in Live => x.giving = FALSE /\ x.mine = FALSE
      /\ x.state \in Ended => x.giving \/ (setting.refuse /\ ~x.mine)
      /\ x.state \in Ended => setting.refuse \/ setting.collide
      /\ x.state \in Live \ {"Connected"} => x.prev \in Live
      /\ x.streams = "card" => x.result \in {"sendrecv", "recvonly"}
      /\ x.local \in {"sendonly", "sendrecv"} /\ x.local \in Directions
      /\ c \in core.list <=> x.state \notin Over \cup {"Idle"}
      /\ core.current = c => c \in core.list
      /\ Regular /\ x.state \notin Still => core.current = c
  BY <1>1, ConfirmedIs
<1>3. PICK offer \in Offers, deferring \in BOOLEAN :
          core' = call_updating(core, c, offer, deferring)
  BY DEF Updating
<1>4. /\ offer \in Directions \cup {None, "bare"}
      /\ Regular => offer \in {"sendrecv", "sendonly"}
      /\ offer = "bare" => setting.bare
  BY CallsAssumption DEF Offers, Directions, Regular
<1> DEFINE k1 == PutTheirs(core, c, offer)
           z == k1.call[c]
           dir == Answer(k1, c)
           k2 == sal_call_accept(k1, c)
           r == core'
           y == r.call[c]
           paused == x.state = "PausedByRemote"
           running == x.state \in {"StreamsRunning", "Connected"}
           resumes == offer = "sendrecv" \/ has_dir(offer, "recvonly")
           pauses == has_dir(offer, "sendonly")
           accepted == IF z.theirs = "bare" THEN k2 ELSE update_streams(k2, c, dir)
<1>5. r = IF offer = "bare" THEN [accepted EXCEPT !.call[c].pending = TRUE]
          ELSE CASE paused /\ resumes -> set_state(accepted, c, "StreamsRunning")
                 [] (paused /\ ~resumes) \/ (running /\ pauses) ->
                        set_state(accepted, c, "PausedByRemote")
                 [] running /\ ~pauses -> call_updated_by_remote(k1, c, deferring)
                 [] OTHER -> accepted
  BY <1>3 DEF call_updating, call_accept_update, PutTheirs
<1>6. /\ Only(k1, core, c) /\ z.theirs = offer /\ Same(z, x, {"theirs"})
      /\ k1.current = core.current /\ k1.list = core.list /\ k1 \in Core
  BY <1>2, <1>4, TheirsPut DEF Only
<1>7. dir = compute_dir_incoming(x.local, offer)
  BY <1>6 DEF Answer, Same, Fields
<1> HIDE DEF k1, dir, resumes, pauses
<1>8. /\ dir \in Directions
      /\ x.local = "sendonly" => dir \in {"sendonly", "inactive"}
      /\ x.local = "sendrecv" /\ offer # "recvonly" => dir # "sendonly"
  BY <1>2, <1>4, <1>7, Incoming
<1>9. /\ z.op = "confirmed" /\ z.giving = x.giving /\ z.mine = x.mine
      /\ z.local = x.local /\ z.streams = x.streams
      /\ z.result = x.result /\ z.state = x.state /\ z.prev = x.prev
      /\ z.pending = x.pending /\ z.ack = x.ack
  BY <1>1, <1>6 DEF Same, Fields
<1>10. Regular => dir # "sendonly" \/ x.state \in {"Pausing", "Paused"}
  <2> SUFFICES ASSUME Regular, x.state \notin {"Pausing", "Paused"}
               PROVE  dir # "sendonly"
    OBVIOUS
  <2>1. x.state \notin Over
    BY <1>2 DEF Live, Ended, Over, Regular
  <2>2. x.local = "sendrecv"
    BY <1>2, <2>1 DEF Plain
  <2> QED
    BY <1>4, <1>8, <2>2
\* Whatever follows, it is the call of the list that it was.
<1>11. ASSUME Only(r, core, c), Good(y), r.current = core.current, r.list = core.list,
              y.state \in Over <=> x.state \in Over, y.state # "Idle",
              y.state \in Still \/ x.state \notin Still
       PROVE  Sound(r)
  <2>1. x.state # "Idle"
    BY <1>2 DEF Live, Ended
  <2>2. Booked(r, core, c)
    BY <1>2, <1>11, <2>1 DEF Booked
  <2> QED
    BY <1>11, <2>2, OneCall
<1>12. Accepted(k2, k1, c) /\ k2 \in Core
  <2>1. Accepted(k2, k1, c)
    BY <1>6, SalAccept
  <2> QED
    BY <2>1 DEF Accepted, Only
<1>13. CASE offer = "bare"
  <2>1. r = PutPending(k2, c, TRUE)
    BY <1>5, <1>6, <1>13 DEF PutPending
  <2> HIDE DEF k2, r
  <2>2. TRUE \in BOOLEAN
    OBVIOUS
  <2>3. /\ Only(r, k2, c) /\ Same(y, k2.call[c], {"pending"})
        /\ r.current = k2.current /\ r.list = k2.list
    BY <1>12, <2>1, <2>2, PendingPut, ZenonT(90)
  <2>4. Only(r, core, c) /\ r.current = core.current /\ r.list = core.list
    BY <1>6, <1>12, <2>3 DEF Accepted, Only
  <2>5. /\ y.op = "confirmed" /\ y.theirs = None
        /\ y.giving = x.giving /\ y.mine = x.mine
        /\ y.local = x.local /\ y.streams = x.streams /\ y.result = x.result
        /\ y.state = x.state /\ y.prev = x.prev
    BY <1>9, <1>12, <2>3 DEF Accepted, Same, Fields
  <2>6. ~Regular /\ setting.bare /\ Due(y)
    BY <1>4, <1>13, <2>5 DEF Regular, Due
  <2>7. Good(y)
    <3> HIDE DEF x, y
    <3>1. CASE x.state \in Ended
      <4>1. /\ y.state \in Ended /\ (y.giving \/ setting.refuse)
            /\ y.mine => y.giving
        BY <1>2, <2>5, <3>1
      <4> QED
        BY <1>2, <2>5, <2>6, <4>1, OverIsGood
    <3>2. CASE x.state \notin Ended
      <4>1. y.state \in Live /\ (y.state # "Connected" => y.prev \in Live)
        BY <1>2, <2>5, <3>2
      <4>2. Held(y) /\ Plain(y)
        BY <1>2, <2>5, <2>6 DEF Held, Plain
      <4> QED
        BY <1>2, <2>5, <2>6, <3>2, <4>1, <4>2, UpIsGood
    <3> QED
      BY <3>1, <3>2
  <2>8. y.state # "Idle" /\ (y.state \in Still \/ x.state \notin Still)
    BY <1>2, <2>5 DEF Live, Ended
  <2> QED
    BY <1>11, <2>4, <2>5, <2>7, <2>8 DEF r
<1>14. CASE offer # "bare" /\ running /\ ~pauses
  <2> DEFINE k3 == PutDefer(k1, c, deferring)
             k4 == set_state(k3, c, "UpdatedByRemote")
             w == k4.call[c]
  <2>1. r = IF deferring THEN k4 ELSE accept_call_update(k4, c)
    <3>1. r = call_updated_by_remote(k1, c, deferring)
      BY <1>5, <1>14
    <3> QED
      BY <3>1 DEF call_updated_by_remote, PutDefer
  <2>2. /\ Only(k3, k1, c) /\ Same(k3.call[c], z, {"defer"})
        /\ k3.current = k1.current /\ k3.list = k1.list /\ k3 \in Core
    BY <1>6, DeferPut DEF Only
  <2> HIDE DEF k3
  <2>3. /\ "UpdatedByRemote" \in States /\ "UpdatedByRemote" \notin Ended
        /\ "UpdatedByRemote" # "Released" /\ "UpdatedByRemote" \in Live
        /\ "UpdatedByRemote" \notin Over
    BY DEF States, Ended, Live, Over
  <2>4. StateSet(k4, k3, c, "UpdatedByRemote")
    BY <2>2, <2>3, SetState
  <2> HIDE DEF k4, r
  <2>5. /\ x.state \notin Over /\ x.state \notin Ended /\ x.state \notin Still
        /\ x.state # "UpdatedByRemote" /\ x.state \in Live
        /\ x.giving = FALSE /\ x.mine = FALSE
    BY <1>2, <1>14 DEF Over, Ended, Still, Live
  <2>6. /\ k3.call[c].op = "confirmed" /\ k3.call[c].giving = FALSE
        /\ k3.call[c].mine = FALSE /\ k3.call[c].theirs = offer
        /\ k3.call[c].local = x.local /\ k3.call[c].streams = x.streams
        /\ k3.call[c].result = x.result /\ k3.call[c].state = x.state
        /\ k3.call[c].pending = x.pending /\ k3.call[c].ack = x.ack
    BY <1>6, <1>9, <2>2, <2>5 DEF Same, Fields
  <2>7. /\ w.giving = FALSE /\ w.mine = FALSE /\ w.theirs = offer
        /\ w.local = x.local /\ w.streams = x.streams /\ w.result = x.result
        /\ w.pending = x.pending /\ w.ack = x.ack
    BY <2>4, <2>6 DEF StateSet, Same, Fields
  <2>8. /\ w.op = "confirmed" /\ w.state = "UpdatedByRemote" /\ w.prev = x.state
        /\ k4.current = core.current /\ k4.list = core.list
    BY <1>6, <2>2, <2>3, <2>4, <2>5, <2>6 DEF StateSet
  <2>9. Only(k4, core, c)
    BY <1>6, <2>2, <2>4 DEF StateSet, Only
  <2>10. Good(w)
    <3>1. x.state \notin {"Pausing", "Paused"} \cup Over
      BY <1>14, <2>5
    <3> HIDE DEF x, w
    <3>2. Held(w) /\ Plain(w)
      BY <1>1, <1>2, <1>4, <2>5, <2>7, <2>8, <3>1 DEF Held, Plain
    <3>3. Due(w)
      BY <1>2, <1>14, <2>7, <2>8 DEF Due
    <3> QED
      BY <1>2, <2>3, <2>5, <2>7, <2>8, <3>2, <3>3, UpIsGood
  <2>11. Booked(k4, core, c)
    BY <1>2, <2>3, <2>5, <2>8 DEF Booked, Still
  <2>12. Sound(k4)
    BY <2>9, <2>10, <2>11, OneCall
  <2>13. CASE deferring
    BY <2>1, <2>12, <2>13 DEF r
  <2>14. CASE ~deferring
    <3>1. core' = accept_call_update(k4, c)
      BY <2>1, <2>14 DEF r
    <3> QED
      BY <2>8, <2>12, <3>1, UpdateAccepted
  <2> QED
    BY <2>13, <2>14
\* Otherwise the offer is answered, and the streams follow.
<1>15. ASSUME Only(r, core, c), r.current = core.current, r.list = core.list,
              y.op = "confirmed", y.giving = x.giving, y.mine = x.mine, y.theirs = None,
              y.local = x.local, y.pending = FALSE, y.result = dir,
              y.streams = "card" => \/ dir \in {"sendrecv", "recvonly"}
                                    \/ x.streams = "card" /\ x.result = dir,
              \/ y.state = x.state /\ y.prev = x.prev
                 /\ ~paused /\ x.state # "StreamsRunning"
              \/ y.state \in {"StreamsRunning", "PausedByRemote"} /\ (paused \/ running)
                 /\ y.prev = IF y.state = x.state THEN x.prev ELSE x.state
       PROVE  Sound(r)
  <2>1. /\ y.streams = "card" => y.result \in {"sendrecv", "recvonly"}
        /\ Due(y)
    BY <1>2, <1>8, <1>15, CallsAssumption DEF Due
  <2>2. CASE x.state \in Ended
    <3>1. y.state = x.state
      BY <1>15, <2>2 DEF Ended
    <3>2. /\ y.state \in Ended /\ (y.giving \/ setting.refuse) /\ ~Regular
          /\ y.mine => y.giving
          /\ setting.refuse \/ setting.bare \/ setting.collide
      BY <1>2, <1>15, <2>2, <3>1 DEF Regular
    <3>3. Good(y)
      <4> HIDE DEF x, y
      <4> QED
        BY <1>2, <1>15, <2>1, <3>2, OverIsGood
    <3>4. y.state # "Idle" /\ (y.state \in Still \/ x.state \notin Still)
      BY <2>2, <3>1 DEF Ended
    <3> QED
      BY <1>11, <1>15, <3>1, <3>3, <3>4
  <2>3. CASE x.state \notin Ended
    <3>1. x.state \in Live /\ y.giving = FALSE /\ y.mine = FALSE
      BY <1>2, <1>15, <2>3
    <3>2. y.state \in Live /\ (y.state # "Connected" => y.prev \in Live)
      <4>1. CASE y.state = x.state /\ y.prev = x.prev
        BY <1>2, <3>1, <4>1
      <4>2. CASE y.state \in {"StreamsRunning", "PausedByRemote"}
                 /\ y.prev = IF y.state = x.state THEN x.prev ELSE x.state
        BY <1>2, <3>1, <4>2 DEF Live
      <4> QED
        BY <1>15, <4>1, <4>2
    <3>3. y.state \in {"Pausing", "Paused"} => x.state = y.state
      BY <1>15
    <3>4. Held(y)
      <4> SUFFICES ASSUME Polite, y.state \in {"Pausing", "Paused"}
                   PROVE  y.local = "sendonly" /\ y.streams # "card" /\ ~y.mine /\ y.theirs = None
        BY DEF Held
      <4>1. x.local = "sendonly" /\ x.streams # "card"
        BY <1>2, <3>3 DEF Held
      <4>2. dir \in {"sendonly", "inactive"}
        BY <1>8, <4>1
      <4> QED
        BY <1>15, <3>1, <4>1, <4>2
    <3>5. Plain(y)
      <4> SUFFICES ASSUME Regular
                   PROVE  /\ y.state \notin {"Pausing", "Paused"} \cup Over => y.local = "sendrecv"
                          /\ y.state \in {"StreamsRunning", "PausedByRemote"} =>
                                 y.result # "sendonly"
        BY <1>15 DEF Plain
      <4>1. x.state \notin Over
        BY <3>1 DEF Live, Over
      <4>2. y.state \notin {"Pausing", "Paused"} => x.state \notin {"Pausing", "Paused"}
        BY <1>15
      <4>3. y.state \notin {"Pausing", "Paused"} => y.local = "sendrecv"
        BY <1>2, <1>15, <4>1, <4>2 DEF Plain
      <4> QED
        BY <1>10, <1>15, <4>2, <4>3
    <3>6. Good(y)
      <4> HIDE DEF x, y
      <4> QED
        BY <1>2, <1>15, <2>1, <3>1, <3>2, <3>4, <3>5, UpIsGood
    <3>7. y.state \notin Over /\ x.state \notin Over /\ y.state # "Idle"
      BY <3>1, <3>2 DEF Live, Over
    <3>8. y.state \in Still \/ x.state \notin Still
      BY <1>15 DEF Still, Over
    <3> QED
      BY <1>11, <1>15, <3>6, <3>7, <3>8
  <2> QED
    BY <2>2, <2>3
<1>16. ASSUME NEW s \in {"StreamsRunning", "PausedByRemote"}, paused \/ running,
              r = set_state(update_streams(k2, c, dir), c, s)
       PROVE  Sound(r)
  <2>1. s \in Live \cup Ended /\ s \notin Ended
    BY DEF Live, Ended
  <2>2. AnswerFollowed(r, k1, c, dir, s)
    BY <1>6, <1>8, <1>16, <2>1, AnswerAndFollow
  <2>3. x.state \notin Ended
    BY <1>16 DEF Ended
  <2> HIDE DEF r
  <2>4. Only(r, core, c) /\ r.current = core.current /\ r.list = core.list
    BY <1>6, <2>2 DEF AnswerFollowed, Only
  <2>5. y.giving = x.giving /\ y.mine = x.mine /\ y.local = x.local
    BY <1>9, <2>2 DEF AnswerFollowed, Same, Fields
  <2>6. /\ y.op = "confirmed" /\ y.theirs = None
        /\ y.pending = FALSE /\ y.result = dir /\ y.state = s
        /\ y.prev = IF s = x.state THEN x.prev ELSE x.state
        /\ y.streams = "card" => \/ dir \in {"sendrecv", "recvonly"}
                                 \/ x.streams = "card" /\ x.result = dir
    BY <1>9, <2>2, <2>3 DEF AnswerFollowed
  <2> HIDE DEF y
  <2> QED
    BY <1>15, <1>16, <2>4, <2>5, <2>6 DEF r, y
<1>17. CASE offer # "bare" /\ ~(running /\ ~pauses)
  <2>1. r = CASE paused /\ resumes -> set_state(update_streams(k2, c, dir), c, "StreamsRunning")
              [] (paused /\ ~resumes) \/ (running /\ pauses) ->
                     set_state(update_streams(k2, c, dir), c, "PausedByRemote")
              [] running /\ ~pauses -> call_updated_by_remote(k1, c, deferring)
              [] OTHER -> update_streams(k2, c, dir)
    BY <1>5, <1>6, <1>17
  <2>2. paused => ~running
    OBVIOUS
  <2>3. CASE paused /\ resumes
    <3>1. r = set_state(update_streams(k2, c, dir), c, "StreamsRunning")
      BY <2>1, <2>2, <2>3
    <3> QED
      BY <1>16, <2>3, <3>1
  <2>4. CASE (paused /\ ~resumes) \/ (running /\ pauses)
    <3>1. r = set_state(update_streams(k2, c, dir), c, "PausedByRemote")
      BY <2>1, <2>2, <2>4
    <3> QED
      BY <1>16, <2>4, <3>1
  <2>5. CASE ~paused /\ ~running
    <3>1. r = update_streams(k2, c, dir)
      BY <2>1, <2>5
    <3> HIDE DEF r, k2
    <3>2. Streamed(r, k2, c, dir)
      BY <1>8, <1>12, <3>1, UpdateStreams
    <3>3. Only(r, core, c) /\ r.current = core.current /\ r.list = core.list
      BY <1>6, <1>12, <3>2 DEF Accepted, Streamed, Only
    <3>4. /\ y.op = "confirmed" /\ y.theirs = None
          /\ y.giving = x.giving /\ y.mine = x.mine
          /\ y.local = x.local /\ y.state = x.state /\ y.prev = x.prev
      BY <1>9, <1>12, <3>2 DEF Accepted, Streamed, Same, Fields
    <3>5. k2.call[c].streams = x.streams /\ k2.call[c].result = x.result
      BY <1>9, <1>12 DEF Accepted, Same, Fields
    <3>6. /\ y.pending = FALSE /\ y.result = dir
          /\ y.streams = "card" => \/ dir \in {"sendrecv", "recvonly"}
                                   \/ x.streams = "card" /\ x.result = dir
      BY <3>2, <3>5 DEF Streamed
    <3>7. x.state # "StreamsRunning"
      BY <2>5
    <3> HIDE DEF y
    <3> QED
      BY <1>15, <2>5, <3>3, <3>4, <3>6, <3>7 DEF r, y
  <2> QED
    BY <1>17, <2>3, <2>4, <2>5
<1> QED
  BY <1>13, <1>14, <1>17

-----------------------------------------------------------------------------
(* The invariant, and what follows from it.                                *)

\* The invariant holds at the start.
LEMMA InitInv == Init => Inv
<1> SUFFICES ASSUME Init PROVE Inv
  OBVIOUS
<1>1. /\ setting \in Settings /\ core.call = [c \in Calls |-> NewCall]
      /\ core.current = None /\ core.list = {}
  BY DEF Init
<1>2. core \in Core
  <2>1. NewCall \in Call
    BY DEF NewCall, Call, States, Directions
  <2> QED
    BY <2>1 DEF Init, Core
<1>3. \A c \in Calls : core.call[c] = NewCall /\ core.call[c].state = "Idle"
  BY <1>1 DEF NewCall
<1>4. \A c \in Calls : Good(core.call[c])
  BY <1>3, NewIsGood
<1>5. Book(core)
  BY <1>1, <1>3 DEF Book
<1>6. Front(core)
  BY <1>3 DEF Front, Still
<1> QED
  BY <1>1, <1>2, <1>4, <1>5, <1>6 DEF Inv, Sound

\* And it is kept by every step.
LEMMA NextInv == Inv /\ [Next]_vars => Inv'
<1> SUFFICES ASSUME Inv, [Next]_vars PROVE Inv'
  OBVIOUS
<1>1. Sound(core) /\ setting \in Settings
  BY DEF Inv
<1>2. Sound(core') /\ setting' = setting
  <2>1. CASE UNCHANGED vars
    BY <1>1, <2>1 DEF vars
  <2>2. CASE Next
    <3>1. PICK c \in Calls :
            \/ Invite(c) \/ StartInvite(c) \/ Accept(c) \/ Terminate(c)
            \/ Pause(c) \/ Resume(c) \/ Update(c) \/ AcceptUpdate(c)
            \/ Received(c) \/ Ringing(c) \/ Answered(c) \/ Refused(c)
            \/ Reanswered(c) \/ Rerefused(c) \/ Updating(c) \/ Ack(c)
            \/ Terminated(c) \/ Released(c)
      BY <2>2 DEF Next
    <3>2. setting' = setting
      BY <2>2 DEF Next
    <3>3. ASSUME Invite(c) \/ StartInvite(c) \/ Accept(c) \/ Terminate(c)
                 \/ Pause(c) \/ Resume(c) \/ Update(c) \/ AcceptUpdate(c)
          PROVE  Sound(core')
      BY <1>1, <3>3, InviteKeeps, StartInviteKeeps, AcceptKeeps, TerminateKeeps,
         PauseKeeps, ResumeKeeps, UpdateKeeps, AcceptUpdateKeeps
    <3>4. ASSUME Received(c) \/ Ringing(c) \/ Answered(c) \/ Refused(c)
                 \/ Reanswered(c) \/ Rerefused(c) \/ Updating(c) \/ Ack(c)
                 \/ Terminated(c) \/ Released(c)
          PROVE  Sound(core')
      BY <1>1, <3>4, ReceivedKeeps, RingingKeeps, AnsweredKeeps, RefusedKeeps,
         ReansweredKeeps, RerefusedKeeps, UpdatingKeeps, AckKeeps, TerminatedKeeps,
         ReleasedKeeps, SMTT(60)
    <3> QED
      BY <3>1, <3>2, <3>3, <3>4
  <2> QED
    BY <2>1, <2>2
<1>3. (\A c \in Calls : Good(core.call[c]))'
  <2> SUFFICES ASSUME NEW c \in Calls
               PROVE  Good(core.call[c])'
    OBVIOUS
  <2> DEFINE y == core'.call[c]
  <2>1. Good(y)
    BY <1>2 DEF Sound
  <2> QED
    BY <1>2, <2>1 DEF Good, Phase, Turns, Silence, Held, Plain, Due, Polite, Regular
<1>4. (core \in Core)' /\ Book(core)'
  BY <1>2 DEF Sound, Book, Core
<1>5. Front(core)'
  BY <1>2 DEF Sound, Front, Regular
<1> QED
  BY <1>1, <1>2, <1>3, <1>4, <1>5 DEF Inv, Sound

\* So it always holds.
LEMMA Kept == Spec => []Inv
  BY InitInv, NextInv, PTL DEF Spec

(* The types, and the book of the core: its list is that of the calls that   *)
(* have started and are not over, and the current call is one of them.       *)
THEOREM TypeCorrect == Spec => []TypeOK
<1>1. Inv => TypeOK
  <2> SUFFICES ASSUME Inv PROVE TypeOK
    OBVIOUS
  <2>1. setting \in Settings /\ core \in Core /\ Book(core)
    BY DEF Inv, Sound
  <2>2. core.list \in SUBSET Calls
    BY <2>1 DEF Core
  <2>3. core.list = {c \in Calls : core.call[c].state \notin Over \cup {"Idle"}}
    BY <2>1, <2>2 DEF Book
  <2> QED
    BY <2>1, <2>3 DEF TypeOK, Book, Core
<1> QED
  BY <1>1, Kept, PTL

(* A call that is over stays silent, and so does one that is held: neither   *)
(* a late ACK or answer nor an offer of the peer starts its streams again.   *)
(* For a call that is over this takes a peer that refuses no re-INVITE, makes *)
(* an offer with each of them, and sends none that crosses our BYE.          *)
THEOREM HeldStaysSilent == Spec => []StaysSilent
<1>1. Inv => StaysSilent
  <2> SUFFICES ASSUME Inv, NEW c \in Calls
               PROVE  /\ /\ ~setting.refuse /\ ~setting.bare /\ ~setting.collide
                         /\ core.call[c].state \in Over
                         => core.call[c].streams = "none"
                      /\ /\ ~setting.collide /\ ~setting.busy /\ ~setting.mute
                         /\ core.call[c].state \in {"Pausing", "Paused"}
                         => core.call[c].streams # "card"
    BY DEF StaysSilent
  <2>1. Silence(core.call[c]) /\ Held(core.call[c])
    BY DEF Inv, Sound, Good
  <2> QED
    BY <2>1 DEF Silence, Held, Polite
<1> QED
  BY <1>1, Kept, PTL

(* Two calls never have the sound card, however many there are: in a regular *)
(* life a call whose streams hold it is the current call.                    *)
THEOREM OneSoundCard == Spec => []SoundIsExclusive
<1>1. Inv => SoundIsExclusive
  <2> DEFINE S == {c \in Calls : core.call[c].streams = "card"}
  <2> SUFFICES ASSUME Inv, Regular PROVE Cardinality(S) <= 1
    BY DEF SoundIsExclusive
  <2>1. ASSUME NEW c \in S PROVE c = core.current
    <3> DEFINE x == core.call[c]
    <3>1. /\ Phase(x) /\ Silence(x) /\ Held(x) /\ Plain(x) /\ x.streams = "card"
          /\ x.state = "IncomingReceived" => x.op = "offered" /\ ~x.giving
          /\ x.state \notin Still => core.current = c
          /\ x.op \in {"new", "inviting", "early", "offered", "confirmed", "dead", "gone"}
      BY PhaseOf, Typed DEF Inv, Sound
    <3>2. x.state # "Idle" /\ x.state # "IncomingReceived"
      <4>1. x.op \notin {"new", "offered"}
        BY <3>1 DEF Plain
      <4> QED
        BY <3>1, <4>1 DEF Phase, Calling, Live, Ended, Over
    <3>3. x.state \notin {"Pausing", "Paused"}
      BY <3>1 DEF Held, Polite, Regular
    <3>4. x.state \notin Over
      BY <3>1 DEF Silence, Regular
    <3> QED
      BY <3>1, <3>2, <3>3, <3>4 DEF Still
  <2> HIDE DEF S
  <2>2. CASE S = {}
    <3>1. Cardinality(S) = 0
      BY <2>2, FS_EmptySet
    <3> QED
      BY <3>1
  <2>3. CASE S # {}
    <3>1. S = {core.current}
      BY <2>1, <2>3
    <3>2. Cardinality(S) = 1
      BY <3>1, FS_Singleton
    <3> QED
      BY <3>2
  <2> QED
    BY <2>2, <2>3
<1> QED
  BY <1>1, Kept, PTL
=============================================================================
