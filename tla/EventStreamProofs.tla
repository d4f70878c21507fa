-------------------------- MODULE EventStreamProofs -------------------------
(***************************************************************************)
(* For every capacity of the bus and buffer of its subscribers, any number *)
(* of lives of the console, of broken connections and of reconnects: the   *)
(* circular buffer replays the newest events (ReplayIsTail), the timeline  *)
(* belongs to one life of the console (OneLifetime), a quiet stream is up  *)
(* to date (QuietIsCurrent), and what is not on the timeline is counted as *)
(* lost (LossAccounted).                                                   *)
(*                                                                         *)
(* The invariants, each resting on the ones before it: RingOK; LifeOK, all *)
(* frames of a connection are of one life; CursorOK, what is asked for;    *)
(* WireOK and QueueOK, what a connection carries is new to the browser, in *)
(* order, and reaches the newest event; AccountOK.                         *)
(***************************************************************************)
EXTENDS EventStream, FiniteSetTheorems, SequenceTheorems, WellFoundedInduction, TLAPS

(* The ring: slot (head + k) holds the k-th oldest retained event. *)
RingOK ==
  /\ nextID \in Nat
  /\ ring \in [0 .. Capacity - 1 -> Int]
  /\ head \in 0 .. Capacity - 1
  /\ count \in 0 .. Capacity
  /\ count < Capacity => head = 0 /\ nextID = count
  /\ count <= nextID
  /\ \A k \in 0 .. count - 1 : ring[(head + k) % Capacity] = nextID - count + 1 + k

(* Around the buffer once. *)
LEMMA Wrap ==
  ASSUME NEW h \in 0 .. Capacity - 1, NEW k \in 0 .. Capacity
  PROVE  /\ (h + k) % Capacity = IF h + k < Capacity THEN h + k ELSE h + k - Capacity
         /\ (h + k) % Capacity \in 0 .. Capacity - 1
<1>1. Capacity \in Nat \ {0}
  BY BusAssumption
<1>2. CASE h + k < Capacity
  BY <1>1, <1>2
<1>3. CASE h + k >= Capacity
  BY <1>1, <1>3
<1> QED
  BY <1>1, <1>2, <1>3

(* Two retained events never share a slot. *)
LEMMA Distinct ==
  ASSUME NEW h \in 0 .. Capacity - 1, NEW j \in 0 .. Capacity, NEW k \in 0 .. Capacity,
         j < k, k - j < Capacity
  PROVE  (h + j) % Capacity # (h + k) % Capacity
<1>1. (h + j) % Capacity = IF h + j < Capacity THEN h + j ELSE h + j - Capacity
  BY Wrap
<1>2. (h + k) % Capacity = IF h + k < Capacity THEN h + k ELSE h + k - Capacity
  BY Wrap
<1>3. Capacity \in Nat \ {0}
  BY BusAssumption
<1> QED
  BY <1>1, <1>2, <1>3

LEMMA FreshRing == BusInit => RingOK
BY BusAssumption DEF BusInit, Fresh, RingOK

LEMMA RetainKeepsRing ==
  ASSUME RingOK, nextID' = nextID + 1, Retain(nextID + 1)
  PROVE  RingOK'
<1>1. /\ nextID \in Nat /\ ring \in [0 .. Capacity - 1 -> Int]
      /\ head \in 0 .. Capacity - 1 /\ count \in 0 .. Capacity /\ Capacity \in Nat \ {0}
      /\ count < Capacity => head = 0 /\ nextID = count
      /\ count <= nextID
      /\ \A k \in 0 .. count - 1 : ring[(head + k) % Capacity] = nextID - count + 1 + k
  BY BusAssumption DEF RingOK
<1>2. CASE count < Capacity
  <2>1. /\ ring' = [ring EXCEPT ![(head + count) % Capacity] = nextID + 1]
        /\ count' = count + 1 /\ head' = head /\ head = 0 /\ nextID = count
    BY <1>1, <1>2 DEF Retain
  <2>2. \A k \in 0 .. count' - 1 : ring'[(head' + k) % Capacity] = nextID' - count' + 1 + k
    <3> SUFFICES ASSUME NEW k \in 0 .. count' - 1
                 PROVE  ring'[(head' + k) % Capacity] = nextID' - count' + 1 + k
      OBVIOUS
    <3>0. /\ head \in 0 .. Capacity - 1 /\ count \in 0 .. Capacity /\ k \in 0 .. Capacity
          /\ k <= count
      BY <1>1, <1>2, <2>1
    <3>a. (head + count) % Capacity \in 0 .. Capacity - 1
      BY <3>0, Wrap
    <3>b. (head + k) % Capacity \in 0 .. Capacity - 1
      BY <3>0, Wrap
    <3>1. (head + count) % Capacity \in 0 .. Capacity - 1 /\ (head + k) % Capacity \in 0 .. Capacity - 1
      BY <3>a, <3>b
    <3>2. CASE k = count
      BY <3>1, <3>2, <2>1, <1>1
    <3>3. CASE k < count
      <4>1. (head + k) % Capacity # (head + count) % Capacity
        <5>1. k < count /\ count - k < Capacity
          BY <3>3, <3>0, <1>1, <1>2
        <5> QED
          BY <5>1, <3>0, Distinct
      <4>2. ring[(head + k) % Capacity] = nextID - count + 1 + k
        <5>1. k \in 0 .. count - 1
          BY <3>3, <3>0
        <5> QED
          BY <5>1, <1>1
      <4> QED
        BY <4>1, <4>2, <3>1, <2>1, <1>1
    <3> QED
      BY <3>2, <3>3, <2>1, <1>1
  <2>3. ring' \in [0 .. Capacity - 1 -> Int]
    BY <2>1, <1>1
  <2> QED
    BY <2>1, <2>2, <2>3, <1>1, <1>2 DEF RingOK
<1>3. CASE count = Capacity
  <2>1. /\ ring' = [ring EXCEPT ![head] = nextID + 1]
        /\ count' = count /\ head' = (head + 1) % Capacity
    BY <1>1, <1>3 DEF Retain
  <2>2. head' = IF head + 1 < Capacity THEN head + 1 ELSE 0
    <3>1. head \in 0 .. Capacity - 1 /\ 1 \in 0 .. Capacity
      BY <1>1
    <3>2. (head + 1) % Capacity = IF head + 1 < Capacity THEN head + 1 ELSE head + 1 - Capacity
      BY <3>1, Wrap
    <3> QED
      BY <3>1, <3>2, <2>1, <1>1
  <2>3. \A k \in 0 .. count' - 1 : ring'[(head' + k) % Capacity] = nextID' - count' + 1 + k
    <3> SUFFICES ASSUME NEW k \in 0 .. Capacity - 1
                 PROVE  ring'[(head' + k) % Capacity] = nextID' - Capacity + 1 + k
      BY <2>1, <1>3
    <3>1. head' \in 0 .. Capacity - 1
      BY <2>2, <1>1
    <3>2. (head' + k) % Capacity = IF head' + k < Capacity THEN head' + k ELSE head' + k - Capacity
      <4>1. k \in 0 .. Capacity
        BY <1>1
      <4> QED
        BY <3>1, <4>1, Wrap
    <3>3. (head + (k + 1)) % Capacity = IF head + (k + 1) < Capacity THEN head + (k + 1)
                                        ELSE head + (k + 1) - Capacity
      <4>1. head \in 0 .. Capacity - 1 /\ k + 1 \in 0 .. Capacity
        BY <1>1
      <4> QED
        BY <4>1, Wrap
    <3>4. (head' + k) % Capacity = (head + (k + 1)) % Capacity \/ k = Capacity - 1
      BY <3>2, <3>3, <2>2, <1>1
    <3>5. CASE k = Capacity - 1
      <4>1. (head' + k) % Capacity = head
        BY <3>2, <3>5, <2>2, <1>1
      <4> QED
        BY <4>1, <3>5, <2>1, <1>1
    <3>6. CASE k < Capacity - 1
      <4>1. (head' + k) % Capacity = (head + (k + 1)) % Capacity
        BY <3>4, <3>6, <1>1
      <4> DEFINE m == k + 1
      <4>a. m \in 0 .. count - 1 /\ m \in 0 .. Capacity /\ m > 0 /\ m < Capacity
        BY <3>6, <1>1, <1>3
      <4> HIDE DEF m
      <4>b. head \in 0 .. Capacity - 1 /\ m \in 0 .. Capacity
        BY <4>a, <1>1
      <4>c. (head + m) % Capacity = IF head + m < Capacity THEN head + m ELSE head + m - Capacity
        BY <4>b, Wrap
      <4>2. (head + m) % Capacity # head
        BY <4>a, <4>b, <4>c, <1>1
      <4>3. (head + m) % Capacity \in 0 .. Capacity - 1
        BY <4>b, Wrap
      <4>4. ring[(head + m) % Capacity] = nextID - Capacity + 1 + m
        BY <4>a, <1>1, <1>3
      <4> USE DEF m
      <4> QED
        BY <4>1, <4>2, <4>3, <4>4, <2>1, <1>1
    <3> QED
      BY <3>5, <3>6, <1>1
  <2>4. ring' \in [0 .. Capacity - 1 -> Int]
    BY <2>1, <1>1
  <2> QED
    BY <2>1, <2>2, <2>3, <2>4, <1>1, <1>3 DEF RingOK
<1> QED
  BY <1>1, <1>2, <1>3

LEMMA RingUnchanged == RingOK /\ UNCHANGED <<nextID, ringVars>> => RingOK'
BY DEF RingOK, ringVars

LEMMA RingIsTail == RingOK => ReplayIsTail
<1> SUFFICES ASSUME RingOK PROVE ReplayIsTail
  OBVIOUS
<1>1. /\ nextID \in Nat /\ head \in 0 .. Capacity - 1 /\ count \in 0 .. Capacity
      /\ count < Capacity => nextID = count
      /\ count <= nextID
      /\ \A k \in 0 .. count - 1 : ring[(head + k) % Capacity] = nextID - count + 1 + k
      /\ Capacity \in Nat \ {0}
  BY BusAssumption DEF RingOK
<1>2. ASSUME NEW i \in 1 .. count PROVE Retained[i] = nextID - count + i
  <2>1. Retained[i] = ring[(head + i - 1) % Capacity]
    BY DEF Retained
  <2>2. i - 1 \in 0 .. count - 1 /\ head + i - 1 = head + (i - 1)
    BY <1>1
  <2>3. ring[(head + (i - 1)) % Capacity] = nextID - count + 1 + (i - 1)
    BY <1>1, <2>2
  <2> QED
    BY <2>1, <2>2, <2>3, <1>1
<1> QED
  BY <1>1, <1>2 DEF ReplayIsTail

(* Every step of the stream leaves the ring alone, retains the next event or
   starts a new process. *)
LEMMA RingStep == RingOK /\ [Next]_vars => RingOK'
<1> SUFFICES ASSUME RingOK, [Next]_vars PROVE RingOK'
  OBVIOUS
<1>1. CASE PublishEvent
  BY <1>1, RetainKeepsRing DEF PublishEvent, Publish
<1>2. CASE Restart
  BY <1>2, BusAssumption DEF Restart, Fresh, RingOK
<1>3. CASE Handler
  BY <1>3, RingUnchanged DEF Handler, Greet, HandleEvents, Forward, Subscribe, Take, busVars, ringVars
<1>4. CASE Browser
  BY <1>4, RingUnchanged DEF Browser, Reconnect, EpochChanged, EpochKnown, GapReconnect,
                             BackoffEnds, Accept, busVars, ringVars
<1>5. CASE (\E s \in Subs : HandlerReturns(s)) \/ Break
  BY <1>5, RingUnchanged DEF HandlerReturns, Unsubscribe, Break, busVars, ringVars
<1>6. CASE UNCHANGED vars
  BY <1>6, RingUnchanged DEF vars, ringVars
<1> QED
  BY <1>1, <1>2, <1>3, <1>4, <1>5, <1>6 DEF Next

(* What a replay returns is the newest events without a hole, for every
   capacity and however often the buffer wraps or the console restarts. *)
THEOREM ReplayIsTailHolds == Spec => []ReplayIsTail
<1>1. Init => RingOK
  BY FreshRing DEF Init
<1> QED
  BY <1>1, RingStep, RingIsTail, PTL DEF Spec

(***************************************************************************)
(* One life of the console.                                                *)
(***************************************************************************)
IsSeq(w) == \E S : w \in Seq(S)

Attached == stage \in {"greeted", "streaming"}

(* All frames of a connection are of one life, the greeting comes first, and
   once the browser has read it `known' is that life; as long as the handler
   is there that life is the current one. *)
LifeOK ==
  /\ epoch \in Nat \ {0}
  /\ IsSeq(wire)
  /\ \A i \in 1 .. Len(wire) : /\ wire[i].epoch = wire[1].epoch /\ wire[i].epoch # 0
                               /\ i > 1 => wire[i].greeting = FALSE
  /\ wire # << >> => wire[1].greeting \in BOOLEAN
  /\ wire # << >> /\ wire[1].greeting = FALSE => known = wire[1].epoch
  /\ Attached /\ wire # << >> => wire[1].epoch = epoch
  /\ Attached /\ wire = << >> => known = epoch
  /\ known = 0 => timeline = {}
  /\ OneLifetime

LEMMA AppendSeq ==
  ASSUME NEW w, IsSeq(w), NEW x
  PROVE  /\ IsSeq(Append(w, x)) /\ Len(Append(w, x)) = Len(w) + 1 /\ Len(w) \in Nat
         /\ \A i \in 1 .. Len(w) : Append(w, x)[i] = w[i]
         /\ Append(w, x)[Len(w) + 1] = x /\ Append(w, x) # << >>
         /\ w = << >> <=> Len(w) = 0
<1>1. PICK S : w \in Seq(S)
  BY DEF IsSeq
<1> DEFINE T == S \cup {x}
<1>2. w \in Seq(T) /\ x \in T
  BY <1>1
<1> HIDE DEF T
<1> QED
  BY <1>2 DEF IsSeq

LEMMA TailSeq ==
  ASSUME NEW w, IsSeq(w), w # << >>
  PROVE  /\ IsSeq(Tail(w)) /\ Len(Tail(w)) = Len(w) - 1 /\ Len(w) \in Nat \ {0}
         /\ \A i \in 1 .. Len(w) - 1 : Tail(w)[i] = w[i + 1]
         /\ Head(w) = w[1] /\ Tail(w) # << >> => Len(w) > 1
BY DEF IsSeq

LEMMA PrefixSeq ==
  ASSUME NEW w, IsSeq(w), NEW n \in 0 .. Len(w)
  PROVE  /\ IsSeq(SubSeq(w, 1, n)) /\ Len(SubSeq(w, 1, n)) = n /\ Len(w) \in Nat
         /\ \A i \in 1 .. n : SubSeq(w, 1, n)[i] = w[i]
         /\ SubSeq(w, 1, n) # << >> => n > 0
         /\ w = << >> <=> Len(w) = 0
BY DEF IsSeq

LEMMA EmptyIsSeq == IsSeq(<< >>) /\ Len(<< >>) = 0
<1>1. << >> \in Seq({})
  OBVIOUS
<1> QED
  BY <1>1 DEF IsSeq

LEMMA LifeInit == Init => LifeOK
BY EmptyIsSeq DEF Init, LifeOK, Attached, OneLifetime

LEMMA BrokenKeepsLife ==
  ASSUME LifeOK, Broken, epoch' \in Nat \ {0}, UNCHANGED <<known, timeline>>
  PROVE  LifeOK'
<1>1. CASE Attached
  <2>1. PICK n \in 0 .. Len(wire) : wire' = SubSeq(wire, 1, n) /\ stage' = "broken"
    BY <1>1 DEF Broken, Attached
  <2>2. /\ IsSeq(wire') /\ Len(wire') = n
        /\ \A i \in 1 .. n : wire'[i] = wire[i]
        /\ wire' # << >> => n > 0
        /\ Len(wire) \in Nat /\ (wire = << >> <=> Len(wire) = 0)
    BY <2>1, PrefixSeq DEF LifeOK
  <2> QED
    BY <2>1, <2>2 DEF LifeOK, Attached, OneLifetime
<1>2. CASE ~Attached
  BY <1>2 DEF Broken, Attached, LifeOK, OneLifetime, IsSeq
<1> QED
  BY <1>1, <1>2

(* A connection's first frame alone on the wire. *)
LEMMA FirstFrame ==
  ASSUME IsSeq(wire'), wire' # << >>, \A i \in 1 .. Len(wire') : i = 1,
         wire'[1].epoch = epoch', epoch' \in Nat \ {0}, wire'[1].greeting \in BOOLEAN,
         wire'[1].greeting = FALSE => known' = epoch',
         known' = 0 => timeline' = {}, \A f \in timeline' : f.epoch = known'
  PROVE  LifeOK'
BY DEF LifeOK, OneLifetime

LEMMA LifeStep == LifeOK /\ [Next]_vars => LifeOK'
<1> SUFFICES ASSUME LifeOK, [Next]_vars PROVE LifeOK'
  OBVIOUS
<1>1. CASE PublishEvent \/ (\E s \in Subs : HandlerReturns(s)) \/ UNCHANGED vars
  BY <1>1 DEF PublishEvent, HandlerReturns, sourceVars, hookVars, vars, LifeOK, Attached,
              OneLifetime, IsSeq
<1>2. CASE Greet
  <2>1. wire' = << [epoch |-> epoch, greeting |-> TRUE, id |-> 0] >> /\ stage' = "greeted"
    BY <1>2 DEF Greet
  <2>2. IsSeq(wire') /\ Len(wire') = 1 /\ wire' # << >>
        /\ wire'[1] = [epoch |-> epoch, greeting |-> TRUE, id |-> 0]
    <3>1. wire' \in Seq({[epoch |-> epoch, greeting |-> TRUE, id |-> 0]})
      BY <2>1
    <3> QED
      BY <2>1, <3>1 DEF IsSeq
  <2>3. wire'[1].epoch = epoch /\ wire'[1].greeting = TRUE
    BY <2>2
  <2>4. /\ UNCHANGED <<epoch, known, timeline>> /\ epoch \in Nat \ {0}
        /\ known = 0 => timeline = {}
        /\ \A f \in timeline : f.epoch = known
    BY <1>2 DEF Greet, hookVars, LifeOK, OneLifetime
  <2>5. \A i \in 1 .. Len(wire') : i = 1
    BY <2>2
  <2> QED
    BY <2>1, <2>2, <2>3, <2>4, <2>5, FirstFrame
<1>3. CASE HandleEvents
  BY <1>3 DEF HandleEvents, hookVars, LifeOK, Attached, OneLifetime, IsSeq
<1>4. CASE Forward
  <2> DEFINE x == [epoch |-> epoch, greeting |-> FALSE, id |-> Head(chan[conn].queue)]
  <2>1. /\ wire' = Append(wire, x) /\ stage = "streaming"
        /\ UNCHANGED <<epoch, stage, known, timeline>>
    BY <1>4 DEF Forward, hookVars
  <2>2. x.epoch = epoch /\ x.greeting = FALSE
    OBVIOUS
  <2> HIDE DEF x
  <2>3. /\ IsSeq(wire') /\ Len(wire') = Len(wire) + 1 /\ Len(wire) \in Nat
        /\ \A i \in 1 .. Len(wire) : wire'[i] = wire[i]
        /\ wire'[Len(wire) + 1] = x /\ wire' # << >>
        /\ (wire = << >> <=> Len(wire) = 0)
    BY <2>1, AppendSeq DEF LifeOK
  <2>4. CASE wire = << >>
    <3>1. \A i \in 1 .. Len(wire') : i = 1
      BY <2>3, <2>4
    <3>2. wire'[1].epoch = epoch /\ wire'[1].greeting = FALSE /\ known = epoch
      BY <2>1, <2>2, <2>3, <2>4 DEF LifeOK, Attached
    <3>3. /\ epoch \in Nat \ {0} /\ (known = 0 => timeline = {})
          /\ \A f \in timeline : f.epoch = known
      BY DEF LifeOK, OneLifetime
    <3> QED
      BY <2>1, <2>3, <3>1, <3>2, <3>3, FirstFrame
  <2>5. CASE wire # << >>
    BY <2>1, <2>2, <2>3, <2>5 DEF LifeOK, Attached, OneLifetime
  <2> QED
    BY <2>4, <2>5
<1>5. CASE Break
  BY <1>5, BrokenKeepsLife DEF Break, hookVars, LifeOK
<1>6. CASE Restart
  <2>1. Broken /\ epoch' = epoch + 1 /\ UNCHANGED <<known, timeline>>
    BY <1>6 DEF Restart, hookVars
  <2>2. epoch' \in Nat \ {0}
    BY <2>1 DEF LifeOK
  <2> QED
    BY <2>1, <2>2, BrokenKeepsLife
<1>7. CASE Reconnect \/ BackoffEnds
  BY <1>7 DEF Reconnect, BackoffEnds, hookVars, LifeOK, Attached, OneLifetime, IsSeq
<1>8. CASE EpochChanged
  BY <1>8, EmptyIsSeq DEF EpochChanged, Open, LifeOK, Attached, OneLifetime
<1>9. CASE GapReconnect
  BY <1>9, EmptyIsSeq DEF GapReconnect, Open, LifeOK, Attached, OneLifetime
<1>10. CASE EpochKnown \/ Accept
  <2>1. wire # << >> /\ wire' = Tail(wire) /\ UNCHANGED <<epoch, stage>>
    BY <1>10 DEF EpochKnown, Accept, Arrive, Next1
  <2>2. /\ IsSeq(wire') /\ Len(wire') = Len(wire) - 1 /\ Len(wire) \in Nat \ {0}
        /\ \A i \in 1 .. Len(wire) - 1 : wire'[i] = wire[i + 1]
        /\ Frame = wire[1] /\ (wire' # << >> => Len(wire) > 1)
    BY <2>1, TailSeq DEF LifeOK, Frame
  <2>3. known' = wire[1].epoch /\ known' # 0
    BY <1>10, <2>1, <2>2 DEF EpochKnown, Accept, LifeOK
  <2>4. \A f \in timeline' : f.epoch = known'
    BY <1>10, <2>1, <2>2, <2>3 DEF EpochKnown, Accept, mergeEvents, LifeOK, OneLifetime
  <2>5. wire' # << >> => wire'[1] = wire[2] /\ wire[2].greeting = FALSE /\ wire[2].epoch = wire[1].epoch
    BY <2>2 DEF LifeOK
  <2>6. \A i \in 1 .. Len(wire') : /\ wire'[i].epoch = wire[1].epoch
                                  /\ wire'[i].greeting = FALSE
    BY <2>2 DEF LifeOK
  <2>7. /\ epoch \in Nat \ {0} /\ wire[1].epoch # 0
        /\ Attached => wire[1].epoch = epoch
    BY <2>1, <2>2 DEF LifeOK
  <2>8. Attached' <=> Attached
    BY <2>1 DEF Attached
  <2>9. known' # 0 /\ IsSeq(wire')
    BY <2>2, <2>3
  <2>10. wire' # << >> => wire'[1].greeting = FALSE /\ wire'[1].epoch = known'
    BY <2>3, <2>5
  <2>11. Attached' => known' = epoch'
    BY <2>1, <2>3, <2>7, <2>8
  <2>12. \A i \in 1 .. Len(wire') : wire'[i].epoch = known' /\ wire'[i].greeting = FALSE
    BY <2>3, <2>6
  <2>13. ASSUME NEW i \in 1 .. Len(wire')
         PROVE  /\ wire'[i].epoch = wire'[1].epoch /\ wire'[i].epoch # 0
                /\ wire'[i].greeting = FALSE
    <3>1. 1 \in 1 .. Len(wire')
      BY <2>2
    <3> QED
      BY <3>1, <2>9, <2>12
  <2>14. Attached' /\ wire' # << >> => wire'[1].epoch = epoch'
    BY <2>10, <2>11
  <2> QED
    BY <2>1, <2>4, <2>7, <2>9, <2>10, <2>11, <2>13, <2>14 DEF LifeOK, OneLifetime
<1> QED
  BY <1>1, <1>2, <1>3, <1>4, <1>5, <1>6, <1>7, <1>8, <1>9, <1>10 DEF Next, Handler, Browser

(* The timeline never mixes events of two lives of the console, for any number
   of restarts and broken connections. *)
THEOREM OneLifetimeHolds == Spec => []OneLifetime
<1>1. LifeOK => OneLifetime
  BY DEF LifeOK
<1> QED
  BY <1>1, LifeInit, LifeStep, PTL DEF Spec

(***************************************************************************)
(* What a replay is.  The library's induction theorems take a predicate;   *)
(* the least member of a set of naturals serves instead.                   *)
(***************************************************************************)
LEMMA LeastNat ==
  ASSUME NEW T, T \subseteq Nat, T # {}
  PROVE  \E m \in T : \A k \in T : m <= k
<1>1. \E m \in T : \A k \in T : ~(<<k, m>> \in OpToRel(<, Nat))
  BY NatLessThanWellFounded, WFMin, Zenon
<1>2. PICK m \in T : \A k \in T : ~(<<k, m>> \in OpToRel(<, Nat))
  BY <1>1
<1>3. ASSUME NEW k \in T PROVE m <= k
  <2>1. ~(<<k, m>> \in OpToRel(<, Nat))
    BY <1>2
  <2>2. ~(k < m)
    BY <2>1 DEF OpToRel
  <2>3. k \in Nat /\ m \in Nat
    OBVIOUS
  <2> QED
    BY <2>2, <2>3
<1> QED
  BY <1>3

(* The loop over the retained events, whose IDs are one apart, leaves out the
   first d of them. *)
LEMMA LoopCloses ==
  ASSUME NEW base \in Nat, count \in Nat, NEW from \in Nat, NEW d \in 0 .. count,
         \A i \in 1 .. count : Retained[i] = base + i /\ (Retained[i] > from <=> i > d)
  PROVE  NewerThan(from) = [j \in 1 .. count - d |-> (base + d) + j]
<1> DEFINE E(f) == [i \in 0 .. count |->
        IF i = 0 THEN << >>
        ELSE IF Retained[i] > from THEN Append(f[i - 1], Retained[i]) ELSE f[i - 1]]
<1> DEFINE f == CHOOSE x : x = E(x)
<1> DEFINE upto(i) == [j \in 1 .. i - d |-> (base + d) + j]
<1> DEFINE g == [i \in 0 .. count |-> IF i > d THEN upto(i) ELSE << >>]
<1>1. NewerThan(from) = f[count]
  BY Zenon DEF NewerThan
<1>2. ASSUME NEW i \in 1 .. count
      PROVE  g[i] = IF Retained[i] > from THEN Append(g[i - 1], Retained[i]) ELSE g[i - 1]
  <2>1. i - 1 \in 0 .. count /\ i \in 0 .. count /\ Retained[i] = base + i
    OBVIOUS
  <2>2. CASE i - 1 > d
    <3> DEFINE n == i - 1 - d
    <3> DEFINE b == base + d
    <3>1. n \in Nat /\ b \in Nat /\ i - d = n + 1 /\ Retained[i] = b + n + 1
      BY <2>1, <2>2
    <3>2. g[i - 1] = [j \in 1 .. n |-> b + j]
      BY <2>1, <2>2
    <3>3. g[i] = [j \in 1 .. i - d |-> b + j]
      BY <2>1, <2>2
    <3>4. Retained[i] > from
      BY <2>2, <2>1
    <3> HIDE DEF n, b, g
    <3>5. Append(g[i - 1], b + n + 1) = [j \in 1 .. n + 1 |-> b + j]
      BY <3>1, <3>2
    <3> QED
      BY <3>1, <3>3, <3>4, <3>5
  <2>3. CASE i = d + 1
    <3>1. g[i - 1] = << >> /\ g[i] = [j \in 1 .. 1 |-> (base + d) + j]
      BY <2>1, <2>3
    <3>2. Retained[i] > from /\ Retained[i] = (base + d) + 1
      BY <2>1, <2>3
    <3> HIDE DEF g
    <3> QED
      BY <3>1, <3>2
  <2>4. CASE i <= d
    BY <2>1, <2>4
  <2> QED
    BY <2>1, <2>2, <2>3, <2>4
<1>3. g = E(g)
  <2>1. g[0] = << >>
    OBVIOUS
  <2> HIDE DEF upto
  <2>2. ASSUME NEW i \in 0 .. count
        PROVE  g[i] = IF i = 0 THEN << >>
                      ELSE IF Retained[i] > from THEN Append(g[i - 1], Retained[i]) ELSE g[i - 1]
    <3>1. CASE i = 0
      BY <2>1, <3>1
    <3>2. CASE i # 0
      <4>1. i \in 1 .. count
        BY <3>2
      <4> HIDE DEF g
      <4> QED
        BY <1>2, <3>2, <4>1
    <3> QED
      BY <3>1, <3>2
  <2>3. g = [i \in 0 .. count |-> g[i]]
    BY Zenon
  <2> HIDE DEF g
  <2> QED
    BY <2>2, <2>3, Zenon
<1> HIDE DEF g
<1>4. f = E(f)
  BY <1>3, Zenon
<1> HIDE DEF f
<1>5. /\ f[0] = << >>
      /\ \A i \in 1 .. count :
           f[i] = IF Retained[i] > from THEN Append(f[i - 1], Retained[i]) ELSE f[i - 1]
  <2>1. \A i \in 0 .. count : f[i] = E(f)[i]
    <3> HIDE DEF E
    <3> QED
      BY <1>4, Zenon
  <2>2. 0 \in 0 .. count /\ \A i \in 1 .. count : i \in 0 .. count /\ i # 0
    OBVIOUS
  <2> QED
    BY <2>1, <2>2
<1>6. \A i \in 0 .. count : f[i] = g[i]
  <2> DEFINE T == {i \in 0 .. count : f[i] # g[i]}
  <2> SUFFICES ASSUME T # {} PROVE FALSE
    OBVIOUS
  <2>1. PICK m \in T : \A k \in T : m <= k
    <3>1. T \subseteq Nat
      OBVIOUS
    <3> HIDE DEF T
    <3> QED
      BY <3>1, LeastNat
  <2>2. m \in 0 .. count /\ f[m] # g[m] /\ f[0] = << >> /\ g[0] = << >>
    BY <1>5 DEF g
  <2>3. m \in 1 .. count /\ m - 1 \in 0 .. count /\ m - 1 \notin T
    BY <2>1, <2>2
  <2>4. f[m - 1] = g[m - 1]
    BY <2>3
  <2>5. f[m] = IF Retained[m] > from THEN Append(f[m - 1], Retained[m]) ELSE f[m - 1]
    BY <1>5, <2>3
  <2>6. g[m] = IF Retained[m] > from THEN Append(g[m - 1], Retained[m]) ELSE g[m - 1]
    BY <1>2, <2>3
  <2> QED
    BY <2>2, <2>4, <2>5, <2>6
<1>7. g[count] = [j \in 1 .. count - d |-> (base + d) + j]
  <2>1. CASE d < count
    BY <2>1 DEF g
  <2>2. CASE d = count
    BY <2>2 DEF g
  <2> QED
    BY <2>1, <2>2
<1> QED
  BY <1>1, <1>6, <1>7

(* A sequence of IDs, oldest first, after `from' and up to `to'; and one whose
   newest is `to'. *)
Ordered(q, from, to) ==
  /\ \A i \in 1 .. Len(q) : from < q[i] /\ q[i] <= to
  /\ \A i, j \in 1 .. Len(q) : i < j => q[i] < q[j]

Reaches(q, from, to) == to = IF q = << >> THEN from ELSE q[Len(q)]

LEMMA LoopTyped ==
  ASSUME RingOK, NEW from \in Nat, from <= nextID
  PROVE  /\ NewerThan(from) \in Seq(Nat)
         /\ Ordered(NewerThan(from), from, nextID)
         /\ Reaches(NewerThan(from), from, nextID)
<1> DEFINE base == nextID - count
<1> DEFINE d == IF from > base THEN from - base ELSE 0
<1>1. /\ nextID \in Nat /\ count \in Nat /\ count <= nextID
      /\ \A i \in 1 .. count : Retained[i] = base + i
      /\ count = 0 => nextID = 0
  BY RingIsTail, BusAssumption DEF ReplayIsTail, RingOK
<1>2. /\ base \in Nat /\ d \in 0 .. count /\ from <= base + d
      /\ \A i \in 1 .. count : Retained[i] > from <=> i > d
      /\ base + count = nextID
  BY <1>1
<1>3. d = count => from = nextID
  BY <1>1, <1>2
<1> HIDE DEF base, d
<1> DEFINE n == count - d
<1> DEFINE b == base + d
<1>4. NewerThan(from) = [j \in 1 .. n |-> b + j]
  <2>1. /\ base \in Nat /\ count \in Nat /\ d \in 0 .. count
        /\ \A i \in 1 .. count : Retained[i] = base + i /\ (Retained[i] > from <=> i > d)
    BY <1>1, <1>2
  <2> QED
    BY <2>1, LoopCloses, Zenon
<1>5. n \in Nat /\ b \in Nat /\ b + n = nextID /\ from <= b /\ (n = 0 => from = nextID)
  BY <1>1, <1>2, <1>3
<1> HIDE DEF n, b
<1> DEFINE q == [j \in 1 .. n |-> b + j]
<1>6. q \in Seq(Nat) /\ Len(q) = n /\ \A i \in 1 .. n : q[i] = b + i
  BY <1>5
<1>7. q = << >> => n = 0
  <2> HIDE DEF q
  <2>1. q = << >> => Len(q) = 0
    OBVIOUS
  <2> QED
    BY <1>6, <2>1
<1>8. n = 0 => q = << >>
  BY <1>5
<1> HIDE DEF q
<1>9. nextID = IF q = << >> THEN from ELSE q[Len(q)]
  BY <1>5, <1>6, <1>7, <1>8
<1>10. /\ \A i \in 1 .. Len(q) : from < q[i] /\ q[i] <= nextID
       /\ \A i, j \in 1 .. Len(q) : i < j => q[i] < q[j]
  BY <1>1, <1>5, <1>6
<1> QED
  BY <1>4, <1>6, <1>9, <1>10 DEF q, Ordered, Reaches

LEMMA OrderedWider ==
  ASSUME NEW q \in Seq(Nat), NEW a \in Nat, NEW b \in Nat, Ordered(q, a, b)
  PROVE  Ordered(q, a, b + 1)
<1>1. \A i \in 1 .. Len(q) : q[i] \in Nat
  OBVIOUS
<1> QED
  BY <1>1 DEF Ordered

LEMMA OrderedLower ==
  ASSUME NEW q \in Seq(Nat), NEW a \in Nat, NEW b \in Nat, Ordered(q, a, b)
  PROVE  Ordered(q, 0, b)
<1>1. \A i \in 1 .. Len(q) : q[i] \in Nat
  OBVIOUS
<1> QED
  BY <1>1 DEF Ordered

LEMMA OrderedAppend ==
  ASSUME NEW q \in Seq(Nat), NEW a \in Nat, NEW b \in Nat, a <= b, Ordered(q, a, b)
  PROVE  /\ Ordered(Append(q, b + 1), a, b + 1)
         /\ Reaches(Append(q, b + 1), a, b + 1)
<1> DEFINE r == Append(q, b + 1)
<1> DEFINE n == Len(q)
<1>1. n \in Nat /\ b + 1 \in Nat /\ \A i \in 1 .. n : q[i] \in Nat
  OBVIOUS
<1>2. /\ Len(r) = n + 1 /\ r[n + 1] = b + 1 /\ r # << >>
      /\ \A i \in 1 .. n : r[i] = q[i]
  BY AppendProperties
<1>4. /\ \A i \in 1 .. n : a < q[i] /\ q[i] <= b
      /\ \A i, j \in 1 .. n : i < j => q[i] < q[j]
  BY DEF Ordered
<1> HIDE DEF r, n
<1>5. ASSUME NEW i \in 1 .. Len(r) PROVE a < r[i] /\ r[i] <= b + 1
  <2>1. CASE i = n + 1
    BY <1>2, <2>1
  <2>2. CASE i # n + 1
    <3>1. i \in 1 .. n
      BY <1>1, <1>2, <2>2
    <3>2. r[i] = q[i] /\ q[i] \in Nat /\ a < q[i] /\ q[i] <= b
      BY <1>1, <1>2, <1>4, <3>1
    <3> QED
      BY <3>2
  <2> QED
    BY <2>1, <2>2
<1>6. ASSUME NEW i \in 1 .. Len(r), NEW j \in 1 .. Len(r), i < j PROVE r[i] < r[j]
  <2>1. i \in 1 .. n /\ (j \in 1 .. n \/ j = n + 1)
    BY <1>1, <1>2, <1>6
  <2>2. CASE j \in 1 .. n
    BY <1>2, <1>4, <1>6, <2>1, <2>2
  <2>3. CASE j = n + 1
    <3>1. r[i] \in Nat /\ r[i] <= b
      BY <1>1, <1>2, <1>4, <2>1
    <3> QED
      BY <1>2, <2>3, <3>1
  <2> QED
    BY <2>1, <2>2, <2>3
<1>7. Ordered(r, a, b + 1) /\ Reaches(r, a, b + 1)
  BY <1>1, <1>2, <1>5, <1>6 DEF Ordered, Reaches
<1> QED
  BY <1>7 DEF r

LEMMA OrderedTail ==
  ASSUME NEW q \in Seq(Nat), q # << >>, NEW a \in Nat, NEW b \in Nat, Ordered(q, a, b)
  PROVE  /\ Head(q) \in Nat /\ a < Head(q) /\ Head(q) <= b
         /\ Tail(q) \in Seq(Nat) /\ Ordered(Tail(q), Head(q), b)
         /\ Reaches(q, a, b) => Reaches(Tail(q), Head(q), b)
<1> DEFINE r == Tail(q)
<1> DEFINE n == Len(q)
<1>1. n \in Nat /\ n # 0 /\ \A i \in 1 .. n : q[i] \in Nat
  OBVIOUS
<1>2. Len(r) = n - 1 /\ r \in Seq(Nat) /\ Head(q) = q[1]
  OBVIOUS
<1>3. \A i \in 1 .. Len(r) : r[i] = q[i + 1]
  OBVIOUS
<1>4. r = << >> <=> n = 1
  <2> HIDE DEF r, n
  <2>1. r = << >> <=> Len(r) = 0
    BY <1>2, AppendSeq DEF IsSeq
  <2> QED
    BY <1>1, <1>2, <2>1
<1>6. 1 \in 1 .. n /\ \A i \in 1 .. Len(r) : i + 1 \in 1 .. n /\ 1 < i + 1 /\ i \in Nat
  <2> HIDE DEF r, n
  <2> QED
    BY <1>1, <1>2
<1>7. /\ \A i \in 1 .. n : a < q[i] /\ q[i] <= b
      /\ \A i, j \in 1 .. n : i < j => q[i] < q[j]
  BY DEF Ordered
<1> HIDE DEF r, n
<1>8. Ordered(r, q[1], b)
  <2>1. ASSUME NEW i \in 1 .. Len(r) PROVE q[1] < r[i] /\ r[i] <= b
    BY <1>3, <1>6, <1>7
  <2>2. ASSUME NEW i \in 1 .. Len(r), NEW j \in 1 .. Len(r), i < j PROVE r[i] < r[j]
    <3>1. i + 1 \in 1 .. n /\ j + 1 \in 1 .. n /\ i + 1 < j + 1
      BY <1>6, <2>2
    <3> QED
      BY <1>3, <1>7, <3>1
  <2> QED
    BY <2>1, <2>2 DEF Ordered
<1>5. ASSUME Reaches(q, a, b) PROVE Reaches(r, q[1], b)
  <2>0. b = q[n]
    BY <1>5 DEF Reaches, n
  <2>1. CASE n = 1
    BY <1>4, <2>0, <2>1 DEF Reaches
  <2>2. CASE n # 1
    <3>1. Len(r) \in 1 .. Len(r) /\ Len(r) + 1 = n
      BY <1>1, <1>2, <2>2
    <3>2. r[Len(r)] = q[n]
      BY <1>3, <3>1
    <3> QED
      BY <1>4, <2>0, <2>2, <3>2 DEF Reaches
  <2> QED
    BY <2>1, <2>2
<1> QED
  BY <1>1, <1>2, <1>5, <1>6, <1>7, <1>8 DEF r

(***************************************************************************)
(* What a connection has for the browser.                                  *)
(***************************************************************************)
(* The connection on the wire is not one of another life than the timeline. *)
Fit == wire # << >> => known \in {0, wire[1].epoch}

(* The newest event the browser has or will read from the wire. *)
Top == IF wire # << >> /\ ~wire[Len(wire)].greeting THEN wire[Len(wire)].id ELSE lastId

Chans == [open : BOOLEAN, room : Nat, queue : Seq(Nat), missed : BOOLEAN]

ChanOK == chan \in [Subs -> Chans]

(* Whatever the browser asks for, it asks for what comes after lastId; and a
   lastId of this life is an ID this life has given out. *)
CursorOK ==
  /\ lastId \in Nat /\ known \in Nat /\ known <= epoch
  /\ Cursor = lastId
  /\ known = 0 => lastId = 0
  /\ known = epoch => lastId <= nextID

(* What is on the wire is new to the browser, and in order. *)
WireOK ==
  /\ \A i \in 1 .. Len(wire) :
       /\ wire[i] \in [epoch : 1 .. epoch, greeting : BOOLEAN, id : Nat]
       /\ wire[i].greeting => wire[i].id = 0
       /\ wire[i].epoch = epoch => wire[i].id <= nextID
  /\ stage = "greeted" /\ wire # << >> => Len(wire) = 1 /\ wire[1].greeting
  /\ Fit => /\ \A i, j \in 1 .. Len(wire) : i < j => wire[i].id < wire[j].id
            /\ \A i \in 1 .. Len(wire) : ~wire[i].greeting => lastId < wire[i].id

(* What is in the channel comes after it, and reaches the newest event unless
   one found the channel full. *)
QueueOK ==
  stage = "streaming" =>
    /\ conn \in Subs /\ chan[conn].open /\ Ordered(chan[conn].queue, 0, nextID)
    /\ Fit => /\ Top <= nextID
              /\ Ordered(chan[conn].queue, Top, nextID)
              /\ ~chan[conn].missed => Reaches(chan[conn].queue, Top, nextID)

AccountOK ==
  /\ IsFiniteSet(timeline) /\ eventsLost \in Nat
  /\ \A f \in timeline : f.id \in 1 .. lastId
  /\ timeline = {} => lastId = 0 /\ eventsLost = 0
  /\ LossAccounted

LEMMA SinceTyped ==
  ASSUME RingOK, NEW cursor \in Nat
  PROVE  Since(cursor) \in Seq(Nat)
<1>1. nextID \in Nat
  BY DEF RingOK
<1> QED
  BY <1>1, LoopTyped DEF Since

LEMMA ChanStep == RingOK /\ LifeOK /\ CursorOK /\ ChanOK /\ [Next]_vars => ChanOK'
<1> SUFFICES ASSUME RingOK, LifeOK, CursorOK, ChanOK, [Next]_vars PROVE ChanOK'
  OBVIOUS
<1> USE DEF ChanOK, Chans
<1>1. CASE PublishEvent
  <2>1. ASSUME NEW s \in Subs PROVE Offered(chan[s], nextID + 1) \in Chans
    <3>1. chan[s] \in Chans /\ nextID + 1 \in Nat
      BY DEF RingOK
    <3>2. chan[s].queue \in Seq(Nat)
      BY <3>1
    <3>3. Append(chan[s].queue, nextID + 1) \in Seq(Nat)
      BY <3>1, <3>2
    <3> QED
      BY <3>1, <3>3 DEF Offered
  <2> QED
    BY <1>1, <2>1 DEF PublishEvent, Publish
<1>2. CASE HandleEvents
  <2>1. PICK s \in Subs : Subscribe(s, Cursor)
    BY <1>2 DEF HandleEvents
  <2>2. Cursor \in Nat
    BY DEF CursorOK
  <2>3. Since(Cursor) \in Seq(Nat)
    BY <2>2, SinceTyped
  <2>4. Len(Since(Cursor)) + Buffer \in Nat
    BY <2>3, BusAssumption
  <2> QED
    BY <2>1, <2>3, <2>4 DEF Subscribe
<1>3. CASE Forward
  <2>1. chan' = [chan EXCEPT ![conn].queue = Tail(@)] /\ chan[conn].queue # << >>
    BY <1>3 DEF Forward, Take
  <2>2. ASSUME conn \in Subs PROVE Tail(chan[conn].queue) \in Seq(Nat)
    BY <2>1, <2>2
  <2> QED
    BY <2>1, <2>2
<1>4. CASE \E s \in Subs : HandlerReturns(s)
  <2>1. Closed \in Chans
    BY DEF Closed
  <2> QED
    BY <1>4, <2>1 DEF HandlerReturns, Unsubscribe
<1>5. CASE Restart
  <2>1. Closed \in Chans
    BY DEF Closed
  <2> QED
    BY <1>5, <2>1 DEF Restart, Fresh
<1>6. CASE Greet \/ Browser \/ Break \/ UNCHANGED vars
  BY <1>6 DEF Greet, Browser, Break, Reconnect, EpochChanged, EpochKnown, GapReconnect,
              BackoffEnds, Accept, busVars, vars
<1> QED
  BY <1>1, <1>2, <1>3, <1>4, <1>5, <1>6 DEF Next, Handler

LEMMA CursorStep == RingOK /\ LifeOK /\ WireOK /\ CursorOK /\ [Next]_vars => CursorOK'
<1> SUFFICES ASSUME RingOK, LifeOK, WireOK, CursorOK, [Next]_vars PROVE CursorOK'
  OBVIOUS
<1> USE DEF CursorOK, Cursor
<1>0. epoch \in Nat \ {0} /\ nextID \in Nat
  BY DEF LifeOK, RingOK
<1>1. CASE PublishEvent
  BY <1>0, <1>1 DEF PublishEvent, Publish, sourceVars, hookVars
<1>2. CASE Handler \/ Break \/ (\E s \in Subs : HandlerReturns(s)) \/ UNCHANGED vars
  BY <1>2 DEF Handler, Greet, HandleEvents, Forward, Break, HandlerReturns, Subscribe, Take,
              Unsubscribe, busVars, sourceVars, hookVars, vars
<1>3. CASE Restart
  BY <1>0, <1>3 DEF Restart, hookVars
<1>4. CASE Reconnect \/ BackoffEnds
  BY <1>4 DEF Reconnect, BackoffEnds, busVars, hookVars
<1>5. CASE GapReconnect
  BY <1>5 DEF GapReconnect, Open, busVars
<1>6. CASE EpochChanged \/ EpochKnown \/ Accept
  <2>1. wire # << >> /\ Frame = wire[1] /\ 1 \in 1 .. Len(wire)
    <3>1. wire # << >>
      BY <1>6 DEF EpochChanged, EpochKnown, Accept, Arrive
    <3> QED
      BY <3>1, TailSeq DEF LifeOK, Frame
  <2>2. /\ Frame \in [epoch : 1 .. epoch, greeting : BOOLEAN, id : Nat]
        /\ Frame.epoch = epoch => Frame.id <= nextID
    BY <2>1 DEF WireOK
  <2>3. CASE EpochChanged
    BY <1>0, <2>2, <2>3 DEF EpochChanged, Open, busVars
  <2>4. CASE EpochKnown
    BY <1>0, <2>2, <2>4 DEF EpochKnown, busVars
  <2>5. CASE Accept
    <3>1. known = Frame.epoch /\ Fit
      BY <2>1, <2>2, <2>5 DEF Accept, LifeOK, Fit
    <3>2. lastId < Frame.id
      BY <2>1, <2>5, <3>1 DEF WireOK, Accept
    <3> QED
      BY <1>0, <2>2, <2>5, <3>1, <3>2 DEF Accept, busVars
  <2> QED
    BY <1>6, <2>3, <2>4, <2>5
<1> QED
  BY <1>1, <1>2, <1>3, <1>4, <1>5, <1>6 DEF Next, Browser

FlowInv == RingOK /\ LifeOK /\ ChanOK /\ CursorOK /\ WireOK /\ QueueOK

LEMMA WireSeq ==
  ASSUME LifeOK
  PROVE  /\ Len(wire) \in Nat /\ (wire = << >> <=> Len(wire) = 0)
         /\ wire # << >> => 1 \in 1 .. Len(wire)
<1>1. PICK S : wire \in Seq(S)
  BY DEF LifeOK, IsSeq
<1> QED
  BY <1>1

(* A connection that breaks. *)
LEMMA BrokenFlows ==
  ASSUME FlowInv, Broken, UNCHANGED <<known, lastId>>,
         \/ epoch' = epoch /\ nextID' = nextID
         \/ epoch' = epoch + 1
  PROVE  WireOK' /\ QueueOK'
<1> USE DEF FlowInv
<1>1. stage' \notin {"greeted", "streaming"}
  BY DEF Broken
<1>2. PICK n \in 0 .. Len(wire) :
        /\ Len(wire') = n /\ \A i \in 1 .. n : wire'[i] = wire[i]
        /\ wire' # << >> => n > 0
  <2>1. CASE stage \in {"greeted", "streaming"}
    <3>1. PICK n \in 0 .. Len(wire) : wire' = SubSeq(wire, 1, n)
      BY <2>1 DEF Broken
    <3> QED
      BY <3>1, PrefixSeq DEF LifeOK
  <2>2. CASE stage \notin {"greeted", "streaming"}
    BY <2>2, WireSeq DEF Broken
  <2> QED
    BY <2>1, <2>2
<1>3. Len(wire) \in Nat /\ \A i \in 1 .. n : i \in 1 .. Len(wire)
  BY WireSeq
<1>4. Fit' => Fit \/ n = 0
  <2>1. n # 0 => wire # << >> /\ wire' # << >> /\ wire'[1] = wire[1]
    <3>1. n # 0 => Len(wire) # 0 /\ Len(wire') # 0 /\ 1 \in 1 .. n
      BY <1>2, <1>3
    <3>2. wire' = << >> => Len(wire') = 0
      BY EmptyIsSeq
    <3> QED
      BY <1>2, <3>1, <3>2, WireSeq
  <2> QED
    BY <2>1 DEF Fit
<1>5. ASSUME NEW i \in 1 .. n
      PROVE  /\ wire'[i] \in [epoch : 1 .. epoch', greeting : BOOLEAN, id : Nat]
             /\ wire'[i].greeting => wire'[i].id = 0
             /\ wire'[i].epoch = epoch' => wire'[i].id <= nextID'
  <2>1. /\ wire[i] \in [epoch : 1 .. epoch, greeting : BOOLEAN, id : Nat]
        /\ wire[i].greeting => wire[i].id = 0
        /\ wire[i].epoch = epoch => wire[i].id <= nextID
    BY <1>3 DEF WireOK
  <2>2. wire'[i] = wire[i] /\ epoch \in Nat
    BY <1>2 DEF LifeOK
  <2> QED
    BY <2>1, <2>2
<1>6. Fit' => /\ \A i, j \in 1 .. n : i < j => wire'[i].id < wire'[j].id
              /\ \A i \in 1 .. n : ~wire'[i].greeting => lastId < wire'[i].id
  <2> SUFFICES ASSUME Fit', n # 0
               PROVE  /\ \A i, j \in 1 .. n : i < j => wire'[i].id < wire'[j].id
                      /\ \A i \in 1 .. n : ~wire'[i].greeting => lastId < wire'[i].id
    BY <1>3
  <2>1. /\ \A i, j \in 1 .. Len(wire) : i < j => wire[i].id < wire[j].id
        /\ \A i \in 1 .. Len(wire) : ~wire[i].greeting => lastId < wire[i].id
    BY <1>4 DEF WireOK
  <2> QED
    BY <1>2, <1>3, <2>1
<1> QED
  BY <1>1, <1>2, <1>5, <1>6 DEF WireOK, QueueOK

(* Nothing on the wire and no subscription. *)
LEMMA SilentFlows ==
  ASSUME wire' = << >>, stage' # "streaming"
  PROVE  WireOK' /\ QueueOK'
BY EmptyIsSeq DEF WireOK, QueueOK

(* The wire is as it was, and so is what the browser has. *)
LEMMA SameWireFlows ==
  ASSUME WireOK, LifeOK, UNCHANGED <<wire, epoch, known, lastId>>,
         nextID \in Nat, nextID' \in Nat, nextID <= nextID',
         stage' = "greeted" => stage = "greeted"
  PROVE  /\ WireOK' /\ (Fit' <=> Fit) /\ Top' = Top
<1>1. \A i \in 1 .. Len(wire) : wire[i].id \in Nat
  BY DEF WireOK
<1>2. (Fit' <=> Fit) /\ Top' = Top
  BY DEF Fit, Top
<1> QED
  BY <1>1, <1>2 DEF WireOK

LEMMA PublishFlows ==
  ASSUME FlowInv, PublishEvent
  PROVE  WireOK' /\ QueueOK'
<1> USE DEF FlowInv
<1>1. /\ nextID' = nextID + 1 /\ nextID \in Nat
      /\ chan' = [s \in Subs |-> Offered(chan[s], nextID + 1)]
      /\ UNCHANGED <<wire, epoch, known, lastId, stage, conn>>
  BY DEF PublishEvent, Publish, RingOK, sourceVars, hookVars
<1>2. WireOK' /\ (Fit' <=> Fit) /\ Top' = Top
  BY <1>1, SameWireFlows
<1>3. ASSUME stage = "streaming", Fit
      PROVE  /\ Top <= nextID'
             /\ Ordered(chan'[conn].queue, Top, nextID')
             /\ ~chan'[conn].missed => Reaches(chan'[conn].queue, Top, nextID')
  <2> DEFINE c == chan[conn]
  <2> DEFINE q == c.queue
  <2>1. /\ conn \in Subs /\ c \in Chans /\ c.open /\ q \in Seq(Nat)
        /\ Top <= nextID /\ Ordered(q, Top, nextID)
    BY <1>3 DEF QueueOK, ChanOK, Chans
  <2>2. Top \in Nat
    <3>1. wire # << >> => Len(wire) \in 1 .. Len(wire)
      BY WireSeq
    <3> QED
      BY <3>1 DEF Top, WireOK, CursorOK
  <2>3. chan'[conn] = Offered(c, nextID + 1)
    BY <1>1, <2>1
  <2>4. CASE Len(q) < c.room
    <3>1. Offered(c, nextID + 1) = [c EXCEPT !.queue = Append(@, nextID + 1)]
      BY <2>1, <2>4 DEF Offered
    <3>5. c = [open |-> c.open, room |-> c.room, queue |-> q, missed |-> c.missed]
      BY <2>1 DEF Chans
    <3>2. chan'[conn].queue = Append(q, nextID + 1)
      <4> HIDE DEF c
      <4> QED
        BY <2>3, <3>1, <3>5
    <3>3. /\ Ordered(Append(q, nextID + 1), Top, nextID + 1)
          /\ Reaches(Append(q, nextID + 1), Top, nextID + 1)
      <4> HIDE DEF c
      <4> QED
        BY <1>1, <2>1, <2>2, OrderedAppend
    <3>4. Top <= nextID + 1
      BY <1>1, <2>1, <2>2
    <3> QED
      BY <1>1, <3>2, <3>3, <3>4
  <2>5. CASE ~(Len(q) < c.room)
    <3>1. chan'[conn].queue = q /\ chan'[conn].missed
      BY <2>1, <2>3, <2>5 DEF Offered, Chans
    <3> QED
      BY <1>1, <2>1, <2>2, <3>1, OrderedWider
  <2> QED
    BY <2>4, <2>5
<1>4. ASSUME stage = "streaming"
      PROVE  /\ conn \in Subs /\ chan'[conn].open
             /\ Ordered(chan'[conn].queue, 0, nextID')
  <2> DEFINE c == chan[conn]
  <2>1. conn \in Subs /\ c \in Chans /\ c.queue \in Seq(Nat) /\ Ordered(c.queue, 0, nextID)
    BY <1>4 DEF QueueOK, ChanOK, Chans
  <2>2. chan'[conn] = Offered(c, nextID + 1) /\ chan'[conn].open
    BY <1>1, <1>4 DEF QueueOK, ChanOK, Offered
  <2>3. chan'[conn].queue \in {c.queue, Append(c.queue, nextID + 1)}
    <3>1. c = [open |-> c.open, room |-> c.room, queue |-> c.queue, missed |-> c.missed]
      BY <2>1 DEF Chans
    <3> HIDE DEF c
    <3> QED
      BY <2>2, <3>1 DEF Offered
  <2> HIDE DEF c
  <2>4. Ordered(c.queue, 0, nextID + 1) /\ Ordered(Append(c.queue, nextID + 1), 0, nextID + 1)
    BY <1>1, <2>1, OrderedWider, OrderedAppend
  <2> QED
    BY <1>1, <2>1, <2>2, <2>3, <2>4
<1> QED
  BY <1>1, <1>2, <1>3, <1>4 DEF QueueOK

LEMMA SubscribeFlows ==
  ASSUME FlowInv, HandleEvents
  PROVE  WireOK' /\ QueueOK'
<1> USE DEF FlowInv
<1>1. PICK s \in Subs : Subscribe(s, Cursor) /\ conn' = s
  BY DEF HandleEvents
<1>2. /\ UNCHANGED <<wire, epoch, known, lastId, nextID>> /\ stage = "greeted"
      /\ stage' = "streaming" /\ nextID \in Nat
  BY <1>1 DEF HandleEvents, Subscribe, hookVars, RingOK
<1>3. WireOK' /\ (Fit' <=> Fit) /\ Top' = Top
  BY <1>2, SameWireFlows
<1>4. Top = lastId
  BY <1>2 DEF Top, WireOK
<1>5. chan'[conn'].open /\ chan'[conn'].queue = Since(Cursor)
  BY <1>1 DEF Subscribe, ChanOK
<1>6. ASSUME Fit
      PROVE  Cursor = lastId /\ lastId <= nextID /\ lastId \in Nat /\ Since(Cursor) = NewerThan(lastId)
  <2>1. wire = << >> => known = epoch
    BY <1>2 DEF LifeOK, Attached
  <2>2. wire # << >> => known \in {0, epoch}
    BY <1>2, <1>6 DEF LifeOK, Attached, Fit
  <2>3. Cursor = lastId /\ lastId <= nextID /\ lastId \in Nat
    BY <1>2, <2>1, <2>2 DEF CursorOK
  <2> QED
    BY <1>2, <2>3 DEF Since
<1>7. Ordered(Since(Cursor), 0, nextID)
  <2>1. PICK from \in Nat : from <= nextID /\ Since(Cursor) = NewerThan(from)
    BY <1>2 DEF Since, CursorOK
  <2> QED
    BY <1>2, <2>1, LoopTyped, OrderedLower
<1>8. Fit' => /\ Top' <= nextID' /\ Ordered(chan'[conn'].queue, Top', nextID')
              /\ Reaches(chan'[conn'].queue, Top', nextID')
  <2> SUFFICES ASSUME Fit'
               PROVE  /\ Top' <= nextID' /\ Ordered(chan'[conn'].queue, Top', nextID')
                      /\ Reaches(chan'[conn'].queue, Top', nextID')
    OBVIOUS
  <2>1. /\ lastId <= nextID /\ lastId \in Nat
        /\ Ordered(Since(Cursor), lastId, nextID) /\ Reaches(Since(Cursor), lastId, nextID)
    BY <1>3, <1>6, LoopTyped
  <2>2. nextID' = nextID /\ Top' = lastId
    BY <1>2, <1>3, <1>4
  <2> QED
    BY <1>5, <2>1, <2>2
<1> QED
  BY <1>1, <1>2, <1>3, <1>5, <1>7, <1>8 DEF QueueOK

LEMMA ForwardFlows ==
  ASSUME FlowInv, Forward
  PROVE  WireOK' /\ QueueOK'
<1> USE DEF FlowInv
<1> DEFINE q == chan[conn].queue
<1> DEFINE x == [epoch |-> epoch, greeting |-> FALSE, id |-> Head(q)]
<1>1. /\ stage = "streaming" /\ conn \in Subs /\ q # << >> /\ wire' = Append(wire, x)
      /\ chan' = [chan EXCEPT ![conn].queue = Tail(@)]
      /\ UNCHANGED <<epoch, stage, conn, known, lastId, nextID>>
  BY DEF Forward, Take, hookVars, QueueOK
<1>2. /\ chan[conn] \in Chans /\ q \in Seq(Nat) /\ nextID \in Nat /\ epoch \in Nat \ {0}
      /\ lastId \in Nat
  BY <1>1 DEF ChanOK, Chans, RingOK, LifeOK, CursorOK
<1>3. /\ chan'[conn].queue = Tail(q) /\ chan'[conn].open = chan[conn].open
      /\ chan'[conn].missed = chan[conn].missed
  BY <1>1, <1>2 DEF ChanOK, Chans
<1>4. Head(q) \in Nat
  BY <1>1, <1>2
<1>5. x \in [epoch : 1 .. epoch, greeting : BOOLEAN, id : Nat] /\ ~x.greeting
  BY <1>2, <1>4
<1>6. x.epoch = epoch /\ x.id = Head(q)
  OBVIOUS
<1> HIDE DEF x
<1> DEFINE n == Len(wire)
<1>7. /\ n \in Nat /\ Len(wire') = n + 1 /\ wire' # << >> /\ wire'[n + 1] = x
      /\ \A i \in 1 .. n : wire'[i] = wire[i]
      /\ wire = << >> <=> n = 0
  BY <1>1, AppendSeq DEF LifeOK
<1>8. Top' = Head(q)
  BY <1>1, <1>5, <1>6, <1>7 DEF Top
<1>9. Fit' => Fit /\ known \in {0, epoch}
  <2>1. CASE wire = << >>
    BY <1>1, <1>6, <1>7, <2>1 DEF Fit
  <2>2. CASE wire # << >>
    <3>1. wire'[1] = wire[1] /\ wire[1].epoch = epoch
      BY <1>1, <1>7, <2>2 DEF LifeOK, Attached
    <3> QED
      BY <1>1, <1>7, <3>1 DEF Fit
  <2> QED
    BY <2>1, <2>2
<1>10. ASSUME Fit
       PROVE  /\ Top < Head(q) /\ Head(q) <= nextID /\ Ordered(Tail(q), Head(q), nextID)
              /\ ~chan[conn].missed => Reaches(Tail(q), Head(q), nextID)
              /\ Top \in Nat
  <2>1. Top \in Nat
    <3>1. wire # << >> => Len(wire) \in 1 .. Len(wire)
      BY WireSeq
    <3> QED
      BY <3>1 DEF Top, WireOK, CursorOK
  <2>2. Ordered(q, Top, nextID) /\ (~chan[conn].missed => Reaches(q, Top, nextID))
    BY <1>1, <1>10 DEF QueueOK
  <2> HIDE DEF q
  <2> QED
    BY <1>1, <1>2, <2>1, <2>2, OrderedTail
<1>12. Head(q) <= nextID /\ Ordered(Tail(q), 0, nextID)
  <2>1. Ordered(q, 0, nextID)
    BY <1>1 DEF QueueOK
  <2> HIDE DEF q
  <2>2. Tail(q) \in Seq(Nat) /\ Head(q) <= nextID /\ Ordered(Tail(q), Head(q), nextID)
    BY <1>1, <1>2, <2>1, OrderedTail
  <2> QED
    BY <1>2, <1>4, <2>2, OrderedLower
<1> HIDE DEF q
<1>11. QueueOK'
  <2>1. conn' \in Subs /\ chan'[conn'].open /\ Ordered(chan'[conn'].queue, 0, nextID')
    BY <1>1, <1>3, <1>12 DEF QueueOK
  <2>2. ASSUME Fit'
        PROVE  /\ Top' <= nextID' /\ Ordered(chan'[conn'].queue, Top', nextID')
               /\ ~chan'[conn'].missed => Reaches(chan'[conn'].queue, Top', nextID')
    <3>1. /\ Head(q) <= nextID /\ Ordered(Tail(q), Head(q), nextID)
          /\ ~chan[conn].missed => Reaches(Tail(q), Head(q), nextID)
      BY <1>9, <1>10, <2>2
    <3>2. nextID' = nextID /\ conn' = conn
      BY <1>1
    <3> QED
      BY <1>3, <1>8, <3>1, <3>2
  <2> QED
    BY <2>1, <2>2 DEF QueueOK
<1>13. \A i \in 1 .. Len(wire') :
         /\ wire'[i] \in [epoch : 1 .. epoch', greeting : BOOLEAN, id : Nat]
         /\ wire'[i].greeting => wire'[i].id = 0
         /\ wire'[i].epoch = epoch' => wire'[i].id <= nextID'
  <2> SUFFICES ASSUME NEW i \in 1 .. Len(wire')
               PROVE  /\ wire'[i] \in [epoch : 1 .. epoch', greeting : BOOLEAN, id : Nat]
                      /\ wire'[i].greeting => wire'[i].id = 0
                      /\ wire'[i].epoch = epoch' => wire'[i].id <= nextID'
    OBVIOUS
  <2>1. CASE i \in 1 .. n
    BY <1>1, <1>7, <2>1 DEF WireOK
  <2>2. CASE i = n + 1
    BY <1>1, <1>5, <1>6, <1>7, <1>12, <2>2
  <2> QED
    BY <1>7, <2>1, <2>2
<1>14. ASSUME Fit'
       PROVE  /\ \A i, j \in 1 .. Len(wire') : i < j => wire'[i].id < wire'[j].id
              /\ \A i \in 1 .. Len(wire') : ~wire'[i].greeting => lastId < wire'[i].id
  <2>0. /\ \A i, j \in 1 .. n : i < j => wire[i].id < wire[j].id
        /\ \A i \in 1 .. n : ~wire[i].greeting => lastId < wire[i].id
        /\ \A i \in 1 .. n : wire[i].id \in Nat /\ (wire[i].greeting => wire[i].id = 0)
    BY <1>9, <1>14 DEF WireOK
  <2>1. Top < Head(q) /\ Top \in Nat
    BY <1>9, <1>10, <1>14
  <2>2. lastId <= Top /\ \A i \in 1 .. n : wire[i].id <= Top
    <3>1. CASE n = 0
      BY <1>2, <1>7, <3>1 DEF Top
    <3>2. CASE n # 0
      <4>1. n \in 1 .. n /\ wire # << >>
        BY <1>7, <3>2
      <4>2. CASE ~wire[n].greeting
        <5>1. Top = wire[n].id /\ lastId < wire[n].id
          BY <2>0, <4>1, <4>2 DEF Top
        <5>2. ASSUME NEW i \in 1 .. n PROVE wire[i].id <= wire[n].id
          <6>1. i = n \/ i < n
            BY <1>7
          <6>2. wire[i].id \in Nat
            BY <2>0
          <6> HIDE DEF n
          <6> QED
            BY <2>0, <4>1, <6>1, <6>2
        <5> QED
          BY <1>2, <2>0, <4>1, <5>1, <5>2
      <4>3. CASE wire[n].greeting
        <5>1. Top = lastId /\ n = 1
          <6>1. n > 1 => wire[n].greeting = FALSE
            BY <4>1 DEF LifeOK
          <6>2. Top = lastId
            BY <4>3 DEF Top
          <6>3. ~(n > 1)
            BY <4>3, <6>1
          <6> HIDE DEF n
          <6> QED
            BY <1>7, <3>2, <6>2, <6>3
        <5>2. ASSUME NEW i \in 1 .. n PROVE wire[i].id <= Top
          <6>1. i = n
            BY <5>1
          <6>2. wire[i].id = 0
            BY <2>0, <4>3, <6>1
          <6> QED
            BY <1>2, <5>1, <6>2
        <5>3. lastId <= Top
          BY <1>2, <5>1
        <5> QED
          BY <5>2, <5>3
      <4> QED
        BY <4>2, <4>3
    <3> QED
      BY <3>1, <3>2
  <2>3. ASSUME NEW i \in 1 .. Len(wire'), ~wire'[i].greeting PROVE lastId < wire'[i].id
    <3>1. CASE i \in 1 .. n
      BY <1>7, <2>0, <2>3, <3>1
    <3>2. CASE i = n + 1
      BY <1>2, <1>4, <1>6, <1>7, <2>1, <2>2, <3>2
    <3> QED
      BY <1>7, <3>1, <3>2
  <2>4. ASSUME NEW i \in 1 .. Len(wire'), NEW j \in 1 .. Len(wire'), i < j
        PROVE  wire'[i].id < wire'[j].id
    <3>1. i \in 1 .. n /\ (j \in 1 .. n \/ j = n + 1)
      BY <1>7, <2>4
    <3>2. CASE j \in 1 .. n
      BY <1>7, <2>0, <2>4, <3>1, <3>2
    <3>3. CASE j = n + 1
      BY <1>4, <1>6, <1>7, <2>0, <2>1, <2>2, <3>1, <3>3
    <3> QED
      BY <3>1, <3>2, <3>3
  <2> QED
    BY <2>3, <2>4
<1> QED
  BY <1>1, <1>11, <1>13, <1>14 DEF WireOK

(* The browser takes a frame off the wire. *)
LEMMA TakenFlows ==
  ASSUME FlowInv, EpochKnown \/ Accept
  PROVE  WireOK' /\ QueueOK' /\ (Accept => lastId < Frame.id)
<1> USE DEF FlowInv
<1>1. wire # << >> /\ wire' = Tail(wire) /\ UNCHANGED <<epoch, stage, conn, chan, nextID>>
  BY DEF EpochKnown, Accept, Arrive, Next1, busVars
<1> DEFINE n == Len(wire)
<1>2. /\ n \in Nat \ {0} /\ Len(wire') = n - 1
      /\ \A i \in 1 .. n - 1 : wire'[i] = wire[i + 1]
      /\ Frame = wire[1] /\ (wire' # << >> => n > 1)
  BY <1>1, TailSeq DEF LifeOK, Frame
<1> HIDE DEF n
<1>3. 1 \in 1 .. n /\ \A i \in 1 .. n - 1 : i + 1 \in 1 .. n /\ i + 1 > 1 /\ i \in Nat
  BY <1>2
<1>4. wire' = << >> <=> n = 1
  <2>1. wire' = << >> => Len(wire') = 0
    BY EmptyIsSeq
  <2> QED
    BY <1>2, <2>1
<1>5. \A i \in 1 .. n - 1 : wire'[i] = wire[i + 1] /\ wire'[i].greeting = FALSE
                            /\ wire'[i].epoch = wire[1].epoch
  BY <1>2, <1>3 DEF LifeOK, n
<1>6. Fit /\ known' = wire[1].epoch
  <2>1. CASE EpochKnown
    BY <1>2, <2>1 DEF EpochKnown, Fit
  <2>2. CASE Accept
    <3>1. wire[1].greeting = FALSE
      BY <1>1, <1>2, <2>2 DEF Accept, LifeOK
    <3>2. known = wire[1].epoch /\ UNCHANGED known
      BY <1>1, <2>2, <3>1 DEF Accept, LifeOK
    <3> QED
      BY <3>2 DEF Fit
  <2> QED
    BY <2>1, <2>2
<1>7. /\ \A i, j \in 1 .. n : i < j => wire[i].id < wire[j].id
      /\ \A i \in 1 .. n : ~wire[i].greeting => lastId < wire[i].id
      /\ \A i \in 1 .. n : wire[i].id \in Nat
  BY <1>6 DEF WireOK, n
<1>8. /\ lastId' \in {lastId, wire[1].id}
      /\ Accept => lastId' = wire[1].id /\ ~wire[1].greeting /\ lastId < Frame.id
      /\ ~Accept => wire[1].greeting /\ lastId' = lastId
  <2>1. CASE EpochKnown
    BY <1>2, <2>1 DEF EpochKnown, Accept
  <2>2. CASE Accept
    <3>1. ~wire[1].greeting /\ lastId < wire[1].id
      BY <1>2, <1>3, <1>7, <2>2 DEF Accept
    <3> QED
      BY <1>2, <2>2, <3>1 DEF Accept
  <2> QED
    BY <2>1, <2>2
<1>9. Top' = Top
  <2>1. CASE n = 1
    BY <1>1, <1>4, <1>8, <2>1 DEF Top, n
  <2>2. CASE n # 1
    <3>1. /\ Len(wire') \in 1 .. n - 1 /\ Len(wire') + 1 = n /\ wire' # << >>
      BY <1>2, <1>4, <2>2
    <3>2. wire'[Len(wire')] = wire[n]
      BY <1>2, <3>1
    <3>3. ~wire[n].greeting
      BY <1>5, <3>1, <3>2
    <3> QED
      BY <1>1, <3>1, <3>2, <3>3 DEF Top, n
  <2> QED
    BY <2>1, <2>2
<1>10. QueueOK'
  BY <1>1, <1>6, <1>9 DEF QueueOK
<1>11. \A i \in 1 .. Len(wire') :
         /\ wire'[i] \in [epoch : 1 .. epoch', greeting : BOOLEAN, id : Nat]
         /\ wire'[i].greeting => wire'[i].id = 0
         /\ wire'[i].epoch = epoch' => wire'[i].id <= nextID'
  <2>1. \A i \in 1 .. n :
         /\ wire[i] \in [epoch : 1 .. epoch, greeting : BOOLEAN, id : Nat]
         /\ wire[i].greeting => wire[i].id = 0
         /\ wire[i].epoch = epoch => wire[i].id <= nextID
    BY DEF WireOK, n
  <2> QED
    BY <1>1, <1>2, <1>3, <2>1
<1>12. /\ \A i, j \in 1 .. n - 1 : i < j => wire'[i].id < wire'[j].id
       /\ \A i \in 1 .. n - 1 : ~wire'[i].greeting => lastId' < wire'[i].id
  <2>1. ASSUME NEW i \in 1 .. n - 1, NEW j \in 1 .. n - 1, i < j
        PROVE  wire'[i].id < wire'[j].id
    <3>1. i + 1 \in 1 .. n /\ j + 1 \in 1 .. n /\ i + 1 < j + 1
      BY <1>3, <2>1
    <3> QED
      BY <1>2, <1>7, <3>1
  <2>2. ASSUME NEW i \in 1 .. n - 1 PROVE lastId' < wire'[i].id
    <3>1. i + 1 \in 1 .. n /\ 1 < i + 1 /\ ~wire[i + 1].greeting
      BY <1>3, <1>5
    <3>2. wire[1].id < wire[i + 1].id /\ lastId < wire[i + 1].id
      BY <1>3, <1>7, <3>1
    <3> QED
      BY <1>2, <1>8, <3>2
  <2> QED
    BY <2>1, <2>2
<1>13. ~(stage' = "greeted" /\ wire' # << >>)
  BY <1>1, <1>2, <1>4 DEF WireOK, n
<1> QED
  BY <1>2, <1>8, <1>10, <1>11, <1>12, <1>13 DEF WireOK

LEMMA FlowStep == FlowInv /\ [Next]_vars => FlowInv'
<1> SUFFICES ASSUME FlowInv, [Next]_vars PROVE WireOK' /\ QueueOK'
  BY RingStep, LifeStep, ChanStep, CursorStep DEF FlowInv
<1> USE DEF FlowInv
<1>0. nextID \in Nat /\ epoch \in Nat \ {0}
  BY DEF RingOK, LifeOK
<1>1. CASE PublishEvent
  BY <1>1, PublishFlows
<1>2. CASE Greet
  <2> DEFINE x == [epoch |-> epoch, greeting |-> TRUE, id |-> 0]
  <2>1. wire' = << x >> /\ stage' = "greeted" /\ UNCHANGED <<epoch, nextID>>
    BY <1>2 DEF Greet, busVars
  <2>2. x \in [epoch : 1 .. epoch, greeting : BOOLEAN, id : Nat] /\ x.greeting /\ x.id = 0
    BY <1>0
  <2> HIDE DEF x
  <2>3. Len(wire') = 1 /\ wire'[1] = x /\ \A i \in 1 .. 1 : i = 1
    BY <2>1
  <2> QED
    BY <1>0, <2>1, <2>2, <2>3 DEF WireOK, QueueOK
<1>3. CASE HandleEvents
  BY <1>3, SubscribeFlows
<1>4. CASE Forward
  BY <1>4, ForwardFlows
<1>5. CASE EpochKnown \/ Accept
  BY <1>5, TakenFlows
<1>6. CASE EpochChanged \/ GapReconnect \/ Reconnect
  BY <1>6, SilentFlows DEF EpochChanged, GapReconnect, Open, Reconnect
<1>7. CASE BackoffEnds
  <2>1. /\ UNCHANGED <<wire, epoch, known, lastId, nextID>> /\ stage' = "connecting"
    BY <1>7 DEF BackoffEnds, busVars, hookVars
  <2> QED
    BY <1>0, <2>1, SameWireFlows DEF QueueOK
<1>8. CASE \E s \in Subs : HandlerReturns(s)
  <2>1. PICK s \in Subs : /\ s # conn /\ chan' = [chan EXCEPT ![s] = Closed]
                          /\ UNCHANGED <<wire, epoch, known, lastId, nextID, stage, conn>>
    BY <1>8 DEF HandlerReturns, Unsubscribe, sourceVars, hookVars
  <2>2. conn \in Subs => chan'[conn] = chan[conn]
    BY <2>1 DEF ChanOK
  <2>3. WireOK' /\ (Fit' <=> Fit) /\ Top' = Top
    BY <1>0, <2>1, SameWireFlows
  <2> QED
    BY <2>1, <2>2, <2>3 DEF QueueOK
<1>9. CASE Break
  BY <1>9, BrokenFlows DEF Break, busVars, hookVars
<1>10. CASE Restart
  BY <1>10, BrokenFlows DEF Restart, hookVars
<1>11. CASE UNCHANGED vars
  <2>1. UNCHANGED <<wire, epoch, known, lastId, nextID, stage, conn, chan>>
    BY <1>11 DEF vars
  <2> QED
    BY <2>1 DEF WireOK, QueueOK, Fit, Top
<1> QED
  BY <1>1, <1>2, <1>3, <1>4, <1>5, <1>6, <1>7, <1>8, <1>9, <1>10, <1>11
     DEF Next, Handler, Browser

LEMMA FlowInit == Init => FlowInv
<1> SUFFICES ASSUME Init PROVE FlowInv
  OBVIOUS
<1>1. RingOK /\ LifeOK
  BY FreshRing, LifeInit DEF Init
<1>2. ChanOK
  BY DEF Init, BusInit, Fresh, Closed, ChanOK, Chans
<1>3. CursorOK
  BY DEF Init, BusInit, Fresh, CursorOK, Cursor
<1>4. WireOK /\ QueueOK
  BY EmptyIsSeq DEF Init, WireOK, QueueOK
<1> QED
  BY <1>1, <1>2, <1>3, <1>4 DEF FlowInv

LEMMA FlowHolds == Spec => []FlowInv
BY FlowInit, FlowStep, PTL DEF Spec

(* A quiet stream on which no event found the channel full has delivered the
   newest one, for every capacity and buffer, any number of restarts, broken
   connections, gaps and reconnects: since's cursor rule, Subscribe's one hold
   of the lock and the browser's two cursors together lose nothing. *)
THEOREM QuietIsCurrentHolds == Spec => []QuietIsCurrent
<1>1. FlowInv => QuietIsCurrent
  <2> SUFFICES ASSUME FlowInv, stage = "streaming", wire = << >>,
                      chan[conn].queue = << >>, ~chan[conn].missed
               PROVE  lastId = nextID
    BY DEF QuietIsCurrent
  <2> QED
    BY DEF FlowInv, QueueOK, Fit, Top, Reaches
<1> QED
  BY <1>1, FlowHolds, PTL

AccountInv == FlowInv /\ AccountOK

LEMMA AccountStep == AccountInv /\ [Next]_vars => AccountInv'
<1> SUFFICES ASSUME AccountInv, [Next]_vars PROVE AccountOK'
  BY FlowStep DEF AccountInv
<1>0. FlowInv /\ AccountOK
  BY DEF AccountInv
<1>1. CASE UNCHANGED <<timeline, eventsLost, lastId>>
  BY <1>0, <1>1 DEF AccountOK, LossAccounted
<1>2. CASE EpochChanged
  BY <1>2, FS_EmptySet DEF EpochChanged, AccountOK, LossAccounted
<1>3. CASE Accept
  <2> DEFINE f == Frame
  <2>1. wire # << >> /\ f = wire[1] /\ 1 \in 1 .. Len(wire)
    <3>1. wire # << >>
      BY <1>3 DEF Accept, Arrive
    <3> QED
      BY <1>0, <3>1, TailSeq DEF FlowInv, LifeOK, Frame
  <2>2. f.id \in Nat /\ lastId \in Nat /\ lastId < f.id
    BY <1>0, <1>3, <2>1, TakenFlows DEF FlowInv, WireOK, CursorOK
  <2>3. /\ timeline' = mergeEvents(f) /\ lastId' = f.id
        /\ eventsLost' = eventsLost + Lost(f.id)
    BY <1>3, <2>2 DEF Accept
  <2> HIDE DEF f
  <2>4. f \notin timeline /\ timeline' = timeline \cup {f}
    BY <1>0, <2>2, <2>3 DEF AccountOK, mergeEvents
  <2>5. /\ IsFiniteSet(timeline) /\ Cardinality(timeline) \in Nat /\ eventsLost \in Nat
        /\ IsFiniteSet(timeline') /\ Cardinality(timeline') = Cardinality(timeline) + 1
    BY <1>0, <2>4, FS_AddElement, FS_CardinalityType DEF AccountOK
  <2>6. Lost(f.id) = IF lastId > 0 THEN f.id - lastId - 1 ELSE 0
    BY <2>2 DEF Lost, detectGap
  <2>7. eventsLost' \in Nat
    BY <2>2, <2>3, <2>5, <2>6
  <2>8. \A g \in timeline' : g.id \in 1 .. lastId'
    BY <1>0, <2>2, <2>3, <2>4 DEF AccountOK
  <2>9. ASSUME NEW g \in timeline', \A h \in timeline' : g.id <= h.id
        PROVE  eventsLost' + Cardinality(timeline') = lastId' - g.id + 1
    <3>1. CASE timeline = {}
      <4>1. g = f /\ lastId = 0 /\ eventsLost = 0 /\ Cardinality(timeline) = 0
        BY <1>0, <2>4, <3>1, FS_EmptySet DEF AccountOK
      <4> QED
        BY <2>2, <2>3, <2>5, <2>6, <4>1
    <3>2. CASE timeline # {}
      <4>1. PICK h \in timeline : TRUE
        BY <3>2
      <4>2. h.id \in 1 .. lastId /\ h.id < f.id /\ g.id <= h.id
        BY <1>0, <2>2, <2>4, <2>9, <4>1 DEF AccountOK
      <4>3. g \in timeline /\ g.id \in 1 .. lastId
        <5>1. g # f
          BY <2>2, <2>8, <4>2
        <5> QED
          BY <1>0, <2>4, <5>1 DEF AccountOK
      <4>4. eventsLost + Cardinality(timeline) = lastId - g.id + 1
        BY <1>0, <2>4, <2>9, <4>3 DEF AccountOK, LossAccounted
      <4> QED
        BY <2>2, <2>3, <2>5, <2>6, <4>2, <4>3, <4>4
    <3> QED
      BY <3>1, <3>2
  <2> QED
    BY <2>4, <2>5, <2>7, <2>8, <2>9 DEF AccountOK, LossAccounted
<1>4. UNCHANGED <<timeline, eventsLost, lastId>> \/ EpochChanged \/ Accept
  BY DEF Next, Handler, Browser, PublishEvent, Greet, HandleEvents, Forward, HandlerReturns,
         Break, Restart, Reconnect, EpochKnown, GapReconnect, BackoffEnds, hookVars, vars
<1> QED
  BY <1>1, <1>2, <1>3, <1>4

(* From its first event to its last, every ID is on the timeline or counted as
   lost: a frame is never delivered twice and never below lastId. *)
THEOREM LossAccountedHolds == Spec => []LossAccounted
<1>1. Init => AccountInv
  BY FlowInit, FS_EmptySet DEF Init, AccountInv, AccountOK, LossAccounted
<1>2. AccountInv => LossAccounted
  BY DEF AccountInv, AccountOK
<1> QED
  BY <1>1, <1>2, AccountStep, PTL DEF Spec
=============================================================================
