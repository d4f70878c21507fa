------------------------------ MODULE EventBus ------------------------------
(***************************************************************************)
(* The fan-out hub of internal/bus: a circular buffer that retains the     *)
(* newest events for replay, and one buffered channel per subscriber.      *)
(* Every operation runs under Bus.mu and is one action.  An event is its   *)
(* ID: what it says is the publisher's business.                           *)
(***************************************************************************)
EXTENDS Integers, Sequences

CONSTANTS
  Subs,       (* subscriptions that may be open at once                    *)
  Capacity,   (* events retained for replay                                *)
  Buffer,     (* subscriberBuffer: live events a channel holds             *)
  MaxID       (* bound: events published in one life of the process        *)

ASSUME BusAssumption == Capacity \in Nat \ {0} /\ Buffer \in Nat /\ MaxID \in Nat

VARIABLES
  nextID,     (* ID of the newest event, 0 before the first                *)
  ring,       (* the circular buffer                                       *)
  head,       (* index of the oldest retained event                        *)
  count,      (* number of retained events                                 *)
  chan        (* chan[s]: the channel of subscription s                    *)

ringVars == <<ring, head, count>>
busVars  == <<nextID, ring, head, count, chan>>

(* `missed' records that an event found the channel full. *)
Channels == [open : BOOLEAN, room : Nat, queue : Seq(1 .. MaxID), missed : BOOLEAN]

Closed == [open |-> FALSE, room |-> 0, queue |-> << >>, missed |-> FALSE]

BusTypeOK ==
  /\ nextID \in 0 .. MaxID
  /\ ring \in [0 .. Capacity - 1 -> 0 .. MaxID]
  /\ head \in 0 .. Capacity - 1
  /\ count \in 0 .. Capacity
  /\ chan \in [Subs -> Channels]

(* A new Bus: the zero values of a fresh process. *)
Fresh == [nextID |-> 0, ring |-> [i \in 0 .. Capacity - 1 |-> 0],
          head |-> 0, count |-> 0, chan |-> [s \in Subs |-> Closed]]

BusInit ==
  /\ nextID = Fresh.nextID /\ ring = Fresh.ring /\ head = Fresh.head
  /\ count = Fresh.count /\ chan = Fresh.chan

Retained == [i \in 1 .. count |-> ring[(head + i - 1) % Capacity]]

(* The retained events above `from', oldest first: the loop of since. *)
NewerThan(from) ==
  LET out[i \in 0 .. count] ==
        IF i = 0 THEN << >>
        ELSE IF Retained[i] > from THEN Append(out[i - 1], Retained[i]) ELSE out[i - 1]
  IN  out[count]

(* Mutant of Since: a cursor one too high. *)
SinceNext(cursor) == NewerThan(IF cursor > nextID THEN 0 ELSE cursor + 1)

(* A cursor that this process cannot have issued replays everything. *)
Since(cursor) == NewerThan(IF cursor > nextID THEN 0 ELSE cursor)

(* Mutant of Retain: the oldest event stays the head. *)
RetainStuck(id) ==
  IF count < Capacity
  THEN /\ ring' = [ring EXCEPT ![(head + count) % Capacity] = id]
       /\ count' = count + 1
       /\ UNCHANGED head
  ELSE /\ ring' = [ring EXCEPT ![head] = id]
       /\ UNCHANGED <<head, count>>

Retain(id) ==
  IF count < Capacity
  THEN /\ ring' = [ring EXCEPT ![(head + count) % Capacity] = id]
       /\ count' = count + 1
       /\ UNCHANGED head
  ELSE /\ ring' = [ring EXCEPT ![head] = id]
       /\ head' = (head + 1) % Capacity
       /\ UNCHANGED count

(* The send that never waits. *)
Offered(c, id) ==
  IF ~c.open THEN c
  ELSE IF Len(c.queue) < c.room THEN [c EXCEPT !.queue = Append(@, id)]
  ELSE [c EXCEPT !.missed = TRUE]

Publish ==
  /\ nextID < MaxID
  /\ nextID' = nextID + 1
  /\ Retain(nextID + 1)
  /\ chan' = [s \in Subs |-> Offered(chan[s], nextID + 1)]

(* Backlog and registration in one hold of the lock. *)
Subscribe(s, cursor) ==
  /\ ~chan[s].open
  /\ chan' = [chan EXCEPT ![s] =
                [open |-> TRUE, room |-> Len(Since(cursor)) + Buffer,
                 queue |-> Since(cursor), missed |-> FALSE]]
  /\ UNCHANGED <<nextID, ringVars>>

Unsubscribe(s) ==
  /\ chan[s].open
  /\ chan' = [chan EXCEPT ![s] = Closed]
  /\ UNCHANGED <<nextID, ringVars>>

(* The receiving end of a subscription's channel. *)
Take(s) ==
  /\ chan[s].queue # << >>
  /\ chan' = [chan EXCEPT ![s].queue = Tail(@)]
  /\ UNCHANGED <<nextID, ringVars>>

BusNext ==
  \/ Publish
  \/ \E s \in Subs : \/ \E cursor \in 0 .. MaxID : Subscribe(s, cursor)
                     \/ Unsubscribe(s) \/ Take(s)

BusSpec == BusInit /\ [][BusNext]_busVars

(* What a replay returns is exactly the newest events, oldest first and without
   a hole, however often the circular buffer has wrapped. *)
ReplayIsTail ==
  /\ count = IF nextID < Capacity THEN nextID ELSE Capacity
  /\ \A i \in 1 .. count : Retained[i] = nextID - count + i
=============================================================================
