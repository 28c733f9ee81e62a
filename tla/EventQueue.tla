----------------------------- MODULE EventQueue -----------------------------
(* The ring buffer that carries the notifications of the media filters from  *)
(* the threads of the tickers to the main thread: eventqueue.c.  A writer is  *)
(* a ticker; the reader is the main thread in ms_event_queue_pump.  The lock  *)
(* of the queue protects freeroom only, and so each unlocked stretch of       *)
(* write_event and of read_event is a step of its own.  A cell of the buffer  *)
(* is the smallest unit of an event's length.                                 *)
EXTENDS Integers, Sequences, FiniteSets

CONSTANTS
  Size,       \* MS_EVENT_BUF_SIZE, in cells
  Kinds,      \* the kinds of events
  Lengths,    \* the length of each kind: its header and its argument
  Writers,    \* the tickers
  Settings    \* which kinds are posted, and by which tickers

ASSUME BufferAssumption ==
  /\ Size \in Nat \ {0}
  /\ Lengths \in [Kinds -> 1..Size]
  /\ Settings \subseteq [kinds : SUBSET Kinds, writers : SUBSET Writers]
  /\ IsFiniteSet(Writers)

VARIABLES
  setting,    \* the setting of this behaviour, a constant
  buffer,     \* what starts at each cell: an event, or Bytes that start none
  rptr, wptr, endptr, freeroom,
  writer,     \* where each ticker is in write_event
  reading,    \* what read_event has in hand: the event whose callback runs
  posted,     \* history: what was written and is neither delivered nor skipped
  gap,        \* history: the writing wrapped before the very end of the buffer
  raced       \* history: somebody wrote or skipped while another was at work

vars == <<setting, buffer, rptr, wptr, endptr, freeroom, writer, reading, posted, gap, raced>>

Bytes == "bytes"
None == "none"
MaxLength == CHOOSE n \in 1..Size : \A k \in Kinds : Lengths[k] <= n

Idle == [step |-> "idle"]
Placed(k, next) == [step |-> "placed", kind |-> k, next |-> next]
Stored(k) == [step |-> "stored", kind |-> k]

(* Types.  Room is taken twice when tickers race, and given back twice when a *)
(* callback skips the queue, but never for more than the event in hand.       *)
TypeOK ==
  /\ setting \in Settings
  /\ buffer \in [0..Size - 1 -> Kinds \cup {Bytes}]
  /\ rptr \in 0..Size - 1
  /\ wptr \in 0..Size
  /\ endptr \in 0..Size
  /\ writer \in [Writers -> {Idle} \cup {Stored(k) : k \in Kinds}
                           \cup {Placed(k, n) : k \in Kinds, n \in 1..Size}]
  /\ reading \in Kinds \cup {None}
  /\ gap \in BOOLEAN /\ raced \in BOOLEAN
  /\ posted \in Seq(Kinds)
  /\ freeroom \in -Cardinality(Writers) * MaxLength..Size + MaxLength
  /\ ~gap /\ ~raced => freeroom \in 0..Size

Init ==
  /\ setting \in Settings
  /\ buffer = [c \in 0..Size - 1 |-> Bytes]
  /\ rptr = 0 /\ wptr = 0 /\ endptr = Size /\ freeroom = Size
  /\ writer = [w \in Writers |-> Idle]
  /\ reading = None
  /\ posted = <<>> /\ gap = FALSE /\ raced = FALSE

InQueue(w) == writer[w] # Idle

------------------------------------------------------------------------------
(* Mutant: an event is written without asking for room.                       *)
HasRoom_always(k) == TRUE

(* write_event: the test of freeroom, without the lock, and the place of the  *)
(* event, at the start when it does not fit before lim.  An event for which   *)
(* there is no room is dropped.                                               *)
HasRoom(k) == freeroom >= Lengths[k]

Place(w, k) ==
  LET wrap == wptr + Lengths[k] > Size
      at == IF wrap THEN 0 ELSE wptr
  IN
  /\ w \in setting.writers /\ k \in setting.kinds
  /\ ~InQueue(w)
  /\ HasRoom(k)
  /\ endptr' = IF wrap THEN wptr ELSE endptr
  /\ wptr' = at
  /\ writer' = [writer EXCEPT ![w] = Placed(k, at + Lengths[k])]
  /\ gap' = (gap \/ (wrap /\ wptr < Size))
  /\ raced' = (raced \/ \E v \in Writers : InQueue(v))
  /\ UNCHANGED <<setting, buffer, rptr, freeroom, reading, posted>>

(* The event is copied to where wptr is now, and wptr moves to where it was   *)
(* going when the place was chosen.                                           *)
Store(w) ==
  /\ writer[w].step = "placed"
  /\ LET k == writer[w].kind IN
     /\ buffer' = [c \in 0..Size - 1 |->
          IF c = wptr THEN k
          ELSE IF c \in wptr..wptr + Lengths[k] - 1 THEN Bytes ELSE buffer[c]]
     /\ wptr' = writer[w].next
     /\ writer' = [writer EXCEPT ![w] = Stored(k)]
  /\ UNCHANGED <<setting, rptr, endptr, freeroom, reading, posted, gap, raced>>

(* Under the lock, the room is taken: the reader sees the event from here on. *)
Commit(w) ==
  /\ writer[w].step = "stored"
  /\ LET k == writer[w].kind IN
     /\ freeroom' = freeroom - Lengths[k]
     /\ posted' = IF gap \/ raced THEN <<>> ELSE Append(posted, k)
  /\ writer' = [writer EXCEPT ![w] = Idle]
  /\ UNCHANGED <<setting, buffer, rptr, wptr, endptr, reading, gap, raced>>

------------------------------------------------------------------------------
(* read_event reads the header at rptr and calls the filter that it names.    *)
(* What starts no event is taken for a header too: the program then follows a *)
(* pointer that is none, and this model has no step that goes on from there.  *)
Available == Size - freeroom > 0

Notify ==
  /\ reading = None /\ Available /\ buffer[rptr] \in Kinds
  /\ reading' = buffer[rptr]
  /\ UNCHANGED <<setting, buffer, rptr, wptr, endptr, freeroom, writer, posted, gap, raced>>

(* The callback has returned: rptr moves past the event, and its room is      *)
(* given back under the lock.                                                 *)
Advance ==
  /\ reading # None
  /\ LET next == rptr + Lengths[reading] IN
     /\ rptr' = IF next >= endptr THEN 0 ELSE next
     /\ freeroom' = freeroom + Lengths[reading]
  /\ reading' = None
  /\ posted' = IF posted = <<>> THEN posted ELSE Tail(posted)
  /\ UNCHANGED <<setting, buffer, wptr, endptr, writer, gap, raced>>

(* Mutant: the writing goes on where it was after the queue is emptied.       *)
Skip_half ==
  /\ rptr' = 0 /\ endptr' = Size /\ freeroom' = Size
  /\ posted' = <<>>
  /\ gap' = FALSE
  /\ raced' = (reading # None \/ \E w \in Writers : InQueue(w))
  /\ UNCHANGED <<setting, buffer, wptr, writer, reading>>

(* ms_event_queue_skip: the main thread empties the queue after it stopped    *)
(* the streams of a call, maybe from a callback of the queue, and maybe while *)
(* the ticker of another call writes.                                         *)
Skip ==
  /\ rptr' = 0 /\ wptr' = 0 /\ endptr' = Size /\ freeroom' = Size
  /\ posted' = <<>>
  /\ gap' = FALSE
  /\ raced' = (reading # None \/ \E w \in Writers : InQueue(w))
  /\ UNCHANGED <<setting, buffer, writer, reading>>

Next ==
  \/ \E w \in Writers :
       (\E k \in Kinds : Place(w, k)) \/ Store(w) \/ Commit(w)
  \/ Notify \/ Advance \/ Skip

Spec == Init /\ [][Next]_vars
------------------------------------------------------------------------------
(* The events are delivered in the order they were posted, each once, and     *)
(* none is written over before its callback has returned: as long as one      *)
(* ticker at a time writes, the writing wraps at the very end of the buffer   *)
(* and nobody skips what another has in hand, there is something to read      *)
(* exactly when something was posted, rptr is at the oldest event posted, and *)
(* what the callback was given is still there.                                *)
DeliveredInOrder ==
  ~gap /\ ~raced =>
    /\ Available <=> posted # <<>>
    /\ posted # <<>> => buffer[rptr] = Head(posted)
    /\ reading # None => posted # <<>> /\ reading = Head(posted)
=============================================================================
