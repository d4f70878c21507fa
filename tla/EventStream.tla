---------------------------- MODULE EventStream -----------------------------
(***************************************************************************)
(* The timeline of one browser tab: the bus, the handler of GET            *)
(* /api/events (internal/api/events.go) and the SPA's useEvents hook       *)
(* (web/src/useEvents.ts), with connections that break and a console that  *)
(* restarts with its event IDs counting from 1 again.                      *)
(***************************************************************************)
EXTENDS EventBus, FiniteSets

CONSTANTS
  MaxAttempts,  (* MAX_GAP_RECONNECT_ATTEMPTS                              *)
  Wire,         (* frames a connection holds between handler and browser   *)
  MaxLives,     (* bound: lives of the console process                     *)
  MaxBreaks,    (* bound: connections broken by the network                *)
  NoSub

ASSUME StreamAssumption ==
  /\ MaxAttempts \in Nat /\ Wire \in Nat \ {0} /\ MaxLives \in Nat \ {0}
  /\ MaxBreaks \in Nat /\ NoSub \notin Subs

VARIABLES
  epoch,      (* Bus.epoch: which life of the process this is              *)
  stage,      (* what the current EventSource is doing, see Stages         *)
  conn,       (* its subscription, once the handler has subscribed         *)
  wire,       (* frames the handler has written and the browser not read   *)
  asked,      (* the ?since= it was opened with                            *)
  seen,       (* its Last-Event-ID, 0 before its first event               *)
  known,      (* epoch ref of the hook, 0 for null                         *)
  lastId,     (* lastId ref                                                *)
  attempts,   (* gapAttempts ref                                           *)
  timeline,   (* events state; the list is ordered by ID, so a set will do *)
  eventsLost, (* eventsLost state                                          *)
  breaks

sourceVars == <<stage, conn, wire, asked, seen>>
hookVars   == <<known, lastId, attempts, timeline, eventsLost>>
vars == <<nextID, ring, head, count, chan, epoch, stage, conn, wire, asked, seen,
          known, lastId, attempts, timeline, eventsLost, breaks>>

(* "connecting": the request is on its way.  "greeted": the handler has written
   the epoch frame and not yet subscribed.  "broken": the server's end is gone,
   what it wrote may still arrive.  "backoff": closed, a timer will reopen. *)
Stages == {"connecting", "greeted", "streaming", "broken", "backoff"}

(* A frame written in process life `epoch': the epoch frame, which has no ID,
   or an event. *)
Frames == [epoch : 1 .. MaxLives, greeting : BOOLEAN, id : 0 .. MaxID]

TypeOK ==
  /\ BusTypeOK
  /\ epoch \in 1 .. MaxLives /\ stage \in Stages /\ conn \in Subs \cup {NoSub}
  /\ wire \in Seq(Frames) /\ Len(wire) <= Wire
  /\ asked \in 0 .. MaxID /\ seen \in 0 .. MaxID /\ lastId \in 0 .. MaxID
  /\ known \in 0 .. MaxLives /\ attempts \in 0 .. MaxAttempts
  /\ timeline \subseteq Frames /\ eventsLost \in 0 .. MaxID
  /\ breaks \in 0 .. MaxBreaks

Init ==
  /\ BusInit /\ epoch = 1
  /\ stage = "connecting" /\ conn = NoSub /\ wire = << >> /\ asked = 0 /\ seen = 0
  /\ known = 0 /\ lastId = 0 /\ attempts = 0 /\ timeline = {} /\ eventsLost = 0
  /\ breaks = 0

(***************************************************************************)
(* The console: publishers, and handleEvents.                              *)
(***************************************************************************)
PublishEvent ==
  /\ Publish
  /\ UNCHANGED <<epoch, sourceVars, hookVars, breaks>>

(* The epoch travels ahead of any replay. *)
Greet ==
  /\ stage = "connecting"
  /\ stage' = "greeted"
  /\ wire' = << [epoch |-> epoch, greeting |-> TRUE, id |-> 0] >>
  /\ UNCHANGED <<busVars, epoch, conn, asked, seen, hookVars, breaks>>

(* lastEventID: the header, or else the query parameter. *)
Cursor == IF seen # 0 THEN seen ELSE asked

HandleEvents ==
  /\ stage = "greeted"
  /\ \E s \in Subs : Subscribe(s, Cursor) /\ conn' = s
  /\ stage' = "streaming"
  /\ UNCHANGED <<epoch, wire, asked, seen, hookVars, breaks>>

Forward ==
  /\ stage = "streaming" /\ Len(wire) < Wire
  /\ Take(conn)
  /\ wire' = Append(wire, [epoch |-> epoch, greeting |-> FALSE,
                           id |-> Head(chan[conn].queue)])
  /\ UNCHANGED <<epoch, stage, conn, asked, seen, hookVars, breaks>>

(* The handler of a connection the browser has left notices and unsubscribes. *)
HandlerReturns(s) ==
  /\ s # conn
  /\ Unsubscribe(s)
  /\ UNCHANGED <<epoch, sourceVars, hookVars, breaks>>

(* A connection breaks; what was on its way may be cut anywhere. *)
Broken ==
  /\ conn' = NoSub
  /\ IF stage \in {"greeted", "streaming"}
     THEN stage' = "broken" /\ \E n \in 0 .. Len(wire) : wire' = SubSeq(wire, 1, n)
     ELSE UNCHANGED <<stage, wire>>

Break ==
  /\ breaks < MaxBreaks /\ stage \in {"greeted", "streaming"}
  /\ breaks' = breaks + 1
  /\ Broken
  /\ UNCHANGED <<busVars, epoch, asked, seen, hookVars>>

Restart ==
  /\ epoch < MaxLives
  /\ epoch' = epoch + 1
  /\ nextID' = Fresh.nextID /\ ring' = Fresh.ring /\ head' = Fresh.head
  /\ count' = Fresh.count /\ chan' = Fresh.chan
  /\ Broken
  /\ UNCHANGED <<asked, seen, hookVars, breaks>>

(***************************************************************************)
(* useEvents.                                                              *)
(***************************************************************************)
(* EventSource's own retry: same URL, plus its Last-Event-ID. *)
Reconnect ==
  /\ stage = "broken" /\ wire = << >>
  /\ stage' = "connecting"
  /\ UNCHANGED <<busVars, epoch, conn, wire, asked, seen, hookVars, breaks>>

(* connect(): a new EventSource from `cursor'; frames of the old one are dead. *)
Open(to, cursor) ==
  /\ stage' = to
  /\ conn' = NoSub /\ wire' = << >> /\ asked' = cursor /\ seen' = 0

Frame  == Head(wire)
Arrive == wire # << >>
Next1  == wire' = Tail(wire)

(* Mutant of EpochChanged: the cursor is reset in place. *)
EpochChangedInPlace ==
  /\ Arrive /\ Frame.greeting /\ known \notin {0, Frame.epoch}
  /\ known' = Frame.epoch
  /\ Next1
  /\ UNCHANGED <<busVars, epoch, stage, conn, asked, seen, lastId, attempts,
                 timeline, eventsLost, breaks>>

(* Another process answers: forget everything and reconnect from zero. *)
EpochChanged ==
  /\ Arrive /\ Frame.greeting /\ known \notin {0, Frame.epoch}
  /\ known' = Frame.epoch
  /\ lastId' = 0 /\ attempts' = 0 /\ timeline' = {} /\ eventsLost' = 0
  /\ Open("connecting", 0)
  /\ UNCHANGED <<busVars, epoch, breaks>>

EpochKnown ==
  /\ Arrive /\ Frame.greeting /\ known \in {0, Frame.epoch}
  /\ known' = Frame.epoch
  /\ Next1
  /\ UNCHANGED <<busVars, epoch, stage, conn, asked, seen, lastId, attempts,
                 timeline, eventsLost, breaks>>

detectGap(id) == lastId > 0 /\ id > lastId + 1

Tolerated == attempts >= MaxAttempts

(* Mutant of GapReconnect: the attempt is not counted. *)
GapReconnectUncounted ==
  /\ Arrive /\ ~Frame.greeting /\ detectGap(Frame.id) /\ ~Tolerated
  /\ Open("backoff", lastId)
  /\ UNCHANGED <<busVars, epoch, hookVars, breaks>>

GapReconnect ==
  /\ Arrive /\ ~Frame.greeting /\ detectGap(Frame.id) /\ ~Tolerated
  /\ attempts' = attempts + 1
  /\ Open("backoff", lastId)
  /\ UNCHANGED <<busVars, epoch, known, lastId, timeline, eventsLost, breaks>>

BackoffEnds ==
  /\ stage = "backoff"
  /\ stage' = "connecting"
  /\ UNCHANGED <<busVars, epoch, conn, wire, asked, seen, hookVars, breaks>>

mergeEvents(f) == IF \E x \in timeline : x.id = f.id THEN timeline ELSE timeline \cup {f}

(* Mutant of Lost: read after lastId has moved on. *)
LostLate(id) == 0

Lost(id) == IF detectGap(id) THEN id - lastId - 1 ELSE 0

Accept ==
  /\ Arrive /\ ~Frame.greeting /\ (detectGap(Frame.id) => Tolerated)
  /\ eventsLost' = eventsLost + Lost(Frame.id)
  /\ attempts' = 0
  /\ lastId' = IF Frame.id > lastId THEN Frame.id ELSE lastId
  /\ timeline' = mergeEvents(Frame)
  /\ seen' = Frame.id
  /\ Next1
  /\ UNCHANGED <<busVars, epoch, stage, conn, asked, known, breaks>>

Handler == Greet \/ HandleEvents \/ Forward
Browser == Reconnect \/ EpochChanged \/ EpochKnown \/ GapReconnect \/ BackoffEnds \/ Accept

Next ==
  \/ PublishEvent \/ Handler \/ Browser
  \/ \E s \in Subs : HandlerReturns(s)
  \/ Break \/ Restart

Spec == Init /\ [][Next]_vars

(* The runtime schedules the handlers, the browser delivers frames, fires its
   timers and retries; nothing obliges a publisher to publish. *)
FairSpec ==
  /\ Spec
  /\ WF_vars(Handler) /\ WF_vars(Browser)
  /\ \A s \in Subs : WF_vars(HandlerReturns(s))

(***************************************************************************)
(* Properties.                                                             *)
(***************************************************************************)
(* The timeline never mixes events of two lives of the console, although their
   IDs overlap and the browser's cursor survives the restart. *)
OneLifetime == \A f \in timeline : f.epoch = known

(* The tab's own account is complete: from its first event to its last, every
   ID is on the timeline or counted as lost. *)
LossAccounted ==
  \A f \in timeline : (\A g \in timeline : f.id <= g.id) =>
    eventsLost + Cardinality(timeline) = lastId - f.id + 1

(* A quiet stream on which no event found the channel full has delivered the
   newest one: the seam between replay and live events loses nothing, and no
   stale cursor hides an event. *)
QuietIsCurrent ==
  stage = "streaming" /\ wire = << >> /\ chan[conn].queue = << >> /\ ~chan[conn].missed
    => lastId = nextID

(* However the replay buffer overflows, the tab does not reconnect for ever. *)
ReconnectsEnd == <>[](stage = "streaming")
=============================================================================
