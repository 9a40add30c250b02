-------------------------- MODULE CaptureCoordinator --------------------------
(***************************************************************************)
(* The client thread of the capture mod (fabric CaptureCoordinator and     *)
(* DirtyChunkTracker) over the queue it feeds.  A handler of a client      *)
(* event runs to its end before the next event, but the writer runs beside *)
(* it, so each claimed chunk is a step of its handler, and so is each      *)
(* offer to the queue.                                                     *)
(*                                                                         *)
(* A chunk's content is not modelled: `unseen` is the tick of its oldest   *)
(* change that no accepted snapshot shows and no counter reports as        *)
(* dropped.  The time a final flush may wait only decides how long it      *)
(* stays at an offer, so every wait ends in room or in a refusal.          *)
(***************************************************************************)
EXTENDS CaptureQueue, FiniteSets

CONSTANTS
  Chunk,          \* chunk coordinates, in their order
  Coalesce, MaxLatency,
  MaxSnapshots,   \* max_snapshots_per_tick
  MaxTick,        \* bound on the ticks of a session
  Clean           \* no dirty window, no unseen change

ASSUME ChunkAssumption == Chunk \subseteq Nat /\ IsFiniteSet(Chunk) /\ Job = Chunk

ASSUME TimingAssumption ==
  /\ Coalesce \in Nat \ {0} /\ MaxLatency \in Nat /\ Coalesce <= MaxLatency
  /\ MaxSnapshots \in Nat \ {0} /\ MaxTick \in Nat

Window == [first : 0..MaxTick, last : 0..MaxTick]

ASSUME CleanAssumption == Clean \notin Window \cup Nat

VARIABLES
  enabled,    \* the configuration names a contributor
  exhausted,  \* spoolExhausted: the writer found the spool full
  session,    \* a capture session is active
  tick,
  present,    \* chunks the client's level can hand out
  loaded,     \* chunks the tracker follows
  dirty,      \* their dirty windows
  handler,    \* the client event being handled
  leaving,    \* the chunk an unload handler will forget
  claims,     \* windows claimed and not dealt with
  offering,   \* the chunk whose snapshot is being offered
  \* History, read by properties only.
  unseen,
  retries,    \* claims of this session put back
  lost        \* accepted jobs the full spool refused

tracker == <<loaded, dirty>>
handling == <<handler, leaving, claims, offering>>
history == <<unseen, retries, lost>>
coordinatorVars == <<enabled, exhausted, session, tick, present, tracker, handling, history>>
vars == <<queueVars, coordinatorVars>>

Flushing == {"transition", "disconnect", "rejoin", "reload", "stop"}

TypeOK ==
  /\ QueueTypeOK
  /\ {enabled, exhausted, session} \subseteq BOOLEAN
  /\ tick \in 0..MaxTick
  /\ present \subseteq Chunk /\ loaded \subseteq Chunk
  /\ dirty \in [Chunk -> Window \cup {Clean}]
  /\ handler \in {"none", "tick", "unload"} \cup Flushing
  /\ leaving \in Chunk \cup {NoJob}
  /\ claims \in [Chunk -> Window \cup {Clean}]
  /\ offering \in Chunk \cup {NoJob}
  /\ unseen \in [Chunk -> (0..MaxTick) \cup {Clean}]
  /\ retries \in Nat /\ lost \in Nat

NoWindows == [c \in Chunk |-> Clean]

Init ==
  /\ QueueInit
  /\ enabled \in BOOLEAN /\ exhausted = FALSE
  /\ session = FALSE /\ tick = 0
  /\ present = {} /\ loaded = {}
  /\ dirty = NoWindows /\ claims = NoWindows
  /\ handler = "none" /\ leaving = NoJob /\ offering = NoJob
  /\ unseen = NoWindows /\ retries = 0 /\ lost = 0

-----------------------------------------------------------------------------
(* The dirty-chunk tracker.                                                 *)

Dirty == {c \in Chunk : dirty[c] # Clean}
InHand == {c \in Chunk : claims[c] # Clean}

Larger(m, n) == IF m < n THEN n ELSE m
Smaller(m, n) == IF m < n THEN m ELSE n

(* Faulty variant of the next operator: a window that starts again at every *)
(* change, so that a chunk that keeps changing is never due by its age:     *)
(* BoundedLatency.                                                          *)
Restarted(w, t) == [first |-> t, last |-> t]

Updated(w, t) ==
  IF w = Clean THEN [first |-> t, last |-> t] ELSE [w EXCEPT !.last = Larger(@, t)]

Merged(w, v) ==
  IF w = Clean THEN v
  ELSE [first |-> Smaller(w.first, v.first), last |-> Larger(w.last, v.last)]

Due(t) ==
  {c \in Dirty : t - dirty[c].last >= Coalesce \/ t - dirty[c].first >= MaxLatency}

(* The order in which a handler deals with windows: the oldest first, but a *)
(* flush goes by coordinate.                                                *)
Older(windows, c, d) ==
  \/ windows[c].first < windows[d].first
  \/ windows[c].first = windows[d].first /\ c < d

(* claimDue hands out the oldest due windows, as many as one tick may take. *)
MayClaim(S, t) ==
  /\ S \subseteq Due(t)
  /\ S = Due(t) \/ Cardinality(S) = MaxSnapshots
  /\ Cardinality(S) <= MaxSnapshots
  /\ \A c \in S, d \in Due(t) \ S : Older(dirty, c, d)

Claim(S) ==
  /\ claims' = [c \in Chunk |-> IF c \in S THEN dirty[c] ELSE Clean]
  /\ dirty' = [c \in Chunk |-> IF c \in S THEN Clean ELSE dirty[c]]

-----------------------------------------------------------------------------
(* Helpers of the handlers.                                                 *)

ClientIdle == handler = "none" /\ closing = "open"

Readable(c) == c \in present

(* The claim a handler turns to next.                                       *)
Turn(c) ==
  /\ handler # "none" /\ offering = NoJob
  /\ c \in InHand
  /\ \A d \in InHand \ {c} :
       IF handler = "tick" THEN Older(claims, c, d) ELSE c < d

Dealt(c) == claims' = [claims EXCEPT ![c] = Clean]
Seen(c) == unseen' = [unseen EXCEPT ![c] = Clean]

Mark(c) ==
  /\ dirty' = [dirty EXCEPT ![c] = Updated(@, tick)]
  /\ unseen' = [unseen EXCEPT ![c] = IF @ = Clean THEN tick ELSE @]

(* Faulty variant of the next operator: a claim refused during play is not  *)
(* put back: NothingForgotten.                                              *)
LeaveOut(c) ==
  IF handler = "tick"
  THEN retries' = retries + 1 /\ UNCHANGED <<dirty, unseen>>
  ELSE Seen(c) /\ UNCHANGED <<dirty, retries>>

(* A claim nothing came of is put back during play, if the tracker still    *)
(* follows the chunk, and counted as dropped coverage in a final flush.     *)
KeepOrDrop(c) ==
  IF handler = "tick"
  THEN /\ dirty' = IF c \in loaded
                   THEN [dirty EXCEPT ![c] = Merged(@, claims[c])] ELSE dirty
       /\ retries' = retries + 1
       /\ UNCHANGED unseen
  ELSE Seen(c) /\ UNCHANGED <<dirty, retries>>

(* Nothing of a session is left: dirtyChunks.clear().                       *)
Clear == loaded' = {} /\ dirty' = NoWindows

(* A handler that flushes claims every window at once.                      *)
Flush(event) ==
  /\ handler' = event
  /\ Claim(Dirty)
  /\ UNCHANGED <<leaving, offering>>

-----------------------------------------------------------------------------
(* Faulty variants of the actions below.                                    *)

(* A capture that does not look whether the spool is full: LostToFullSpool. *)
SnapshotAnyway(c) ==
  /\ Turn(c) /\ Readable(c)
  /\ offering' = c
  /\ UNCHANGED <<queueVars, enabled, exhausted, session, tick, present, tracker,
                 handler, leaving, claims, history>>

(* A final flush that waits for room without a deadline: ControlReturns.    *)
RefuseInPlay(c) ==
  /\ offering = c /\ ~Room
  /\ handler \notin Flushing
  /\ offering' = NoJob
  /\ Dealt(c) /\ KeepOrDrop(c)
  /\ UNCHANGED <<queueVars, enabled, exhausted, session, tick, present, loaded,
                 handler, leaving, lost>>

(* A reload that leaves the running session alone: RecordsWithConsent.      *)
ReloadLater(b) ==
  /\ ClientIdle
  /\ enabled' = b
  /\ UNCHANGED <<queueVars, exhausted, session, tick, present, tracker, handling, history>>

-----------------------------------------------------------------------------
(* Events of the client.                                                    *)

(* A join while a session is active ends that one first.  The code may      *)
(* refuse a connection for reasons of its own (single player, no address).  *)
StartSession ==
  /\ session' \in {FALSE, enabled /\ ~exhausted}
  /\ tick' = 0 /\ retries' = 0

(* The tick counter runs on, but the next session starts it again.          *)
EndSession == session' = FALSE /\ tick' = 0 /\ retries' = 0

Join ==
  /\ ClientIdle
  /\ IF session
     THEN Flush("rejoin") /\ UNCHANGED <<session, tick, loaded, retries>>
     ELSE /\ StartSession
          /\ IF session' THEN Clear ELSE UNCHANGED tracker
          /\ UNCHANGED handling
  /\ UNCHANGED <<queueVars, enabled, exhausted, present, unseen, lost>>

Disconnect ==
  /\ ClientIdle
  /\ IF session
     THEN Flush("disconnect") /\ UNCHANGED present
     ELSE present' = {} /\ UNCHANGED <<handling, dirty>>
  /\ UNCHANGED <<queueVars, enabled, exhausted, session, tick, loaded, history>>

(* Without a session onLevelChange returns; the chunks go as they do when   *)
(* the connection ends.                                                     *)
LevelChange ==
  /\ ClientIdle
  /\ session
  /\ Flush("transition")
  /\ UNCHANGED <<queueVars, enabled, exhausted, session, tick, present, loaded, history>>

Reload(b) ==
  /\ ClientIdle
  /\ enabled' = b
  /\ IF session /\ ~b THEN Flush("reload") ELSE UNCHANGED <<handling, dirty>>
  /\ UNCHANGED <<queueVars, exhausted, session, tick, present, loaded, history>>

Stopping ==
  /\ ClientIdle
  /\ IF session
     THEN Flush("stop") /\ UNCHANGED queueVars
     ELSE CloseBegin /\ UNCHANGED <<handling, dirty>>
  /\ UNCHANGED <<enabled, exhausted, session, tick, present, loaded, history>>

(* A chunk arrives, or arrives again: the load event and, at the tail of    *)
(* the packet handler, markDirty of the same tick.                          *)
ChunkLoad(c) ==
  /\ ClientIdle
  /\ present' = present \cup {c}
  /\ IF session
     THEN loaded' = loaded \cup {c} /\ Mark(c)
     ELSE UNCHANGED <<tracker, unseen>>
  /\ UNCHANGED <<queueVars, enabled, exhausted, session, tick, handling, retries, lost>>

(* A block, block-entity or biome update was applied to the chunk.  The     *)
(* tracker ignores a chunk that was there before the session began.         *)
ChunkChange(c) ==
  /\ ClientIdle
  /\ session /\ c \in present \cap loaded
  /\ Mark(c)
  /\ UNCHANGED <<queueVars, enabled, exhausted, session, tick, present, loaded,
                 handling, retries, lost>>

ChunkUnload(c) ==
  /\ ClientIdle
  /\ c \in present
  /\ IF session /\ c \in Dirty
     THEN /\ handler' = "unload" /\ leaving' = c
          /\ Claim({c})
          /\ UNCHANGED <<present, loaded, offering>>
     ELSE /\ present' = present \ {c}
          /\ loaded' = IF session THEN loaded \ {c} ELSE loaded
          /\ UNCHANGED <<dirty, handling>>
  /\ UNCHANGED <<queueVars, enabled, exhausted, session, tick, history>>

(* The level drops a chunk without an unload event: its state can no longer *)
(* be read.                                                                 *)
ChunkVanish(c) ==
  /\ ClientIdle
  /\ c \in present
  /\ present' = present \ {c}
  /\ Seen(c)
  /\ UNCHANGED <<queueVars, enabled, exhausted, session, tick, tracker, handling,
                 retries, lost>>

(* The end of a tick.  Outside a session it only counts, and a join starts  *)
(* the count again.                                                         *)
EndTick(S) ==
  /\ ClientIdle
  /\ session /\ tick < MaxTick
  /\ tick' = tick + 1
  /\ MayClaim(S, tick + 1)
  /\ Claim(S)
  /\ handler' = IF S = {} THEN "none" ELSE "tick"
  /\ UNCHANGED <<queueVars, enabled, exhausted, session, present, loaded, leaving,
                 offering, history>>

-----------------------------------------------------------------------------
(* capture: a claimed chunk is read, snapshotted and offered.               *)

(* The level cannot hand the chunk out: a tick forgets it, a flush counts   *)
(* it as dropped.                                                           *)
Unreadable(c) ==
  /\ Turn(c) /\ ~Readable(c)
  /\ Dealt(c)
  /\ IF handler = "tick"
     THEN loaded' = loaded \ {c} /\ dirty' = [dirty EXCEPT ![c] = Clean] /\ UNCHANGED unseen
     ELSE Seen(c) /\ UNCHANGED tracker
  /\ UNCHANGED <<queueVars, enabled, exhausted, session, tick, present,
                 handler, leaving, offering, retries, lost>>

(* Dropped coverage, never put back.                                        *)
SpoolIsFull(c) ==
  /\ Turn(c) /\ Readable(c)
  /\ exhausted
  /\ Dealt(c) /\ Seen(c)
  /\ UNCHANGED <<queueVars, enabled, exhausted, session, tick, present, tracker,
                 handler, leaving, offering, retries, lost>>

SnapshotFails(c) ==
  /\ Turn(c) /\ Readable(c)
  /\ ~exhausted
  /\ Dealt(c) /\ KeepOrDrop(c)
  /\ UNCHANGED <<queueVars, enabled, exhausted, session, tick, present, loaded,
                 handler, leaving, offering, lost>>

Snapshot(c) ==
  /\ Turn(c) /\ Readable(c)
  /\ ~exhausted
  /\ offering' = c
  /\ UNCHANGED <<queueVars, enabled, exhausted, session, tick, present, tracker,
                 handler, leaving, claims, history>>

Enqueue(c) ==
  /\ offering = c
  /\ Accept(c)
  /\ offering' = NoJob
  /\ Dealt(c) /\ Seen(c)
  /\ UNCHANGED <<enabled, exhausted, session, tick, present, tracker, handler, leaving,
                 retries, lost>>

(* The queue is full; during a final flush, still full when the budget of   *)
(* the flush is spent.                                                      *)
Refuse(c) ==
  /\ offering = c /\ ~Room
  /\ offering' = NoJob
  /\ Dealt(c) /\ KeepOrDrop(c)
  /\ UNCHANGED <<queueVars, enabled, exhausted, session, tick, present, loaded,
                 handler, leaving, lost>>

(* What is left of a handler once every claim is dealt with.                *)
Return ==
  /\ handler # "none" /\ InHand = {}
  /\ handler' = "none" /\ leaving' = NoJob
  /\ CASE handler = "tick" ->
            UNCHANGED <<queueVars, session, tick, present, tracker, retries>>
       [] handler = "unload" ->
            /\ present' = present \ {leaving} /\ loaded' = loaded \ {leaving}
            /\ dirty' = [dirty EXCEPT ![leaving] = Clean]
            /\ UNCHANGED <<queueVars, session, tick, retries>>
       [] handler = "transition" ->
            Clear /\ present' = {} /\ UNCHANGED <<queueVars, session, tick, retries>>
       [] handler = "rejoin" ->
            Clear /\ present' = {} /\ StartSession /\ UNCHANGED queueVars
       [] handler = "disconnect" ->
            Clear /\ present' = {} /\ EndSession /\ UNCHANGED queueVars
       [] handler = "reload" ->
            Clear /\ EndSession /\ UNCHANGED <<queueVars, present>>
       [] handler = "stop" ->
            Clear /\ EndSession /\ CloseBegin /\ UNCHANGED present
  /\ UNCHANGED <<enabled, exhausted, claims, offering, unseen, lost>>

(* The failure handler runs on the writer thread.                           *)
SinkReturns(outcome) ==
  /\ Sink(outcome)
  /\ exhausted' = (exhausted \/ outcome = "full")
  /\ lost' = IF outcome = "full" THEN lost + 1 ELSE lost
  /\ UNCHANGED <<enabled, session, tick, present, tracker, handling, unseen, retries>>

-----------------------------------------------------------------------------
Event ==
  \/ Join \/ Disconnect \/ LevelChange \/ Stopping
  \/ \E b \in BOOLEAN : Reload(b)
  \/ \E c \in Chunk : ChunkLoad(c) \/ ChunkChange(c) \/ ChunkUnload(c) \/ ChunkVanish(c)
  \/ \E S \in SUBSET Chunk : EndTick(S)

Handle ==
  \/ \E c \in Chunk : \/ Unreadable(c) \/ SpoolIsFull(c) \/ SnapshotFails(c)
                      \/ Snapshot(c) \/ Enqueue(c) \/ Refuse(c)
  \/ Return
  \/ Closing /\ UNCHANGED coordinatorVars

WriterStep ==
  \/ Writing /\ UNCHANGED coordinatorVars
  \/ \E outcome \in Outcome : SinkReturns(outcome)

Next == Event \/ Handle \/ WriterStep

Spec == Init /\ [][Next]_vars

(* The client thread gets on with what it is doing.  Nothing is asked of    *)
(* the writer, which may be stuck in the file system.                       *)
FairSpec == Spec /\ WF_vars(Handle)

-----------------------------------------------------------------------------
(* Properties.                                                              *)

Unseen == {c \in Chunk : unseen[c] # Clean}

(* Every change a session observed is still to be captured, in the hands of *)
(* the handler that is capturing it, shown by an accepted snapshot, or      *)
(* counted as dropped: a refusal, a failure, a full spool, a dimension      *)
(* change or the end of the session forgets none.                           *)
NothingForgotten == Unseen \subseteq Dirty \cup InHand

(* A chunk that keeps changing is still captured: no change stays unseen    *)
(* longer than the latency bound, the ticks it takes to claim the chunks    *)
(* before it, and a tick for each claim that was put back: a chunk whose    *)
(* snapshot fails is the oldest again at the next tick, and takes a tick    *)
(* of the others' time, or of its own however many snapshots a tick may     *)
(* take (adapters/fabric/README.md:67).                                     *)
BoundedLatency ==
  session /\ handler = "none" => \A c \in Unseen :
    tick - unseen[c] < MaxLatency + retries + (Cardinality(Chunk) - 1) \div MaxSnapshots

(* Once the spool is found full capture stops: the jobs that still fail on  *)
(* it are the one that found it full, those queued behind it and the one    *)
(* whose handler had looked just before, however long the session lasts.    *)
LostToFullSpool == lost <= Capacity + 2

(* No session goes on recording after the contributor was blanked: outside  *)
(* the flush that ends it a session is active only with consent.            *)
RecordsWithConsent == session /\ handler # "reload" => enabled

(* The game thread gets control back from every handler and from the close  *)
(* at shutdown, although a flush waits for a writer that may never move.    *)
ControlReturns ==
  (handler # "none" \/ closing # "open") ~> (handler = "none" /\ closing \in {"open", "closed"})

(* If the writer runs on, then once the queue is closed it writes or fails  *)
(* everything that was accepted and ends, although it is interrupted at     *)
(* whatever it is doing then.                                               *)
WriterEmptiesQueue ==
  WF_vars(WriterStep) => (closing = "joining" ~> writer = "dead" /\ queue = <<>>)

=============================================================================
