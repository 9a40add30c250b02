----------------------------- MODULE CaptureProofs -----------------------------
(***************************************************************************)
(* What holds of the capture mod for any number of chunks, any queue and   *)
(* any limits, however the writer, the client and its events interleave.   *)
(***************************************************************************)
EXTENDS CaptureCoordinator, Integers, FiniteSetTheorems, SequenceTheorems, TLAPS

(* TypeOK, a part at a time: the flags,                                     *)
Flags ==
  /\ accepting \in BOOLEAN /\ running \in BOOLEAN /\ active \in BOOLEAN
  /\ interrupted \in BOOLEAN /\ drained \in BOOLEAN

(* where the two threads are,                                               *)
Places ==
  /\ writer \in {"check", "poll", "polled", "sink", "settle", "dead"}
  /\ hand \in Job \cup {NoJob}
  /\ closing \in {"open", "waiting", "stopping", "interrupting", "joining", "closed"}

(* the queue,                                                               *)
QueueInv == queue \in Seq(Job) /\ Len(queue) <= Capacity

(* the chunks,                                                              *)
Chunks == present \in SUBSET Chunk /\ loaded \in SUBSET Chunk

(* the counts,                                                              *)
Numbers == tick \in 0..MaxTick /\ retries \in Nat /\ lost \in Nat

(* the handlers,                                                            *)
Handlers ==
  /\ enabled \in BOOLEAN /\ exhausted \in BOOLEAN /\ session \in BOOLEAN
  /\ handler \in {"none", "tick", "unload"} \cup Flushing
  /\ leaving \in Chunk \cup {NoJob} /\ offering \in Chunk \cup {NoJob}

(* and what is kept of each chunk.                                          *)
Windows ==
  /\ dirty \in [Chunk -> Window \cup {Clean}]
  /\ claims \in [Chunk -> Window \cup {Clean}]
  /\ unseen \in [Chunk -> (0..MaxTick) \cup {Clean}]

(* Type correctness in parts.                                               *)
TypeInv == Flags /\ Places /\ QueueInv /\ Chunks /\ Numbers /\ Handlers /\ Windows

(* DrainedMeansHandled, with what keeps it: a queue that began to close     *)
(* accepts nothing, and a writer that is not at a job has none in hand.     *)
DrainInv ==
  /\ closing # "open" => ~accepting
  /\ writer \in {"check", "poll", "dead"} => hand = NoJob
  /\ DrainedMeansHandled

(* What is claimed is in the hands of a handler, of a session, and not      *)
(* dirty as well; a flush has claimed everything, and an unload its chunk.  *)
HandlerInv ==
  /\ handler = "none" => InHand = {} /\ offering = NoJob
  /\ handler # "none" => session
  /\ handler \in Flushing => Dirty = {}
  /\ handler = "unload" => leaving \in Chunk \ Dirty
  /\ offering # NoJob => offering \in InHand
  /\ Dirty \cap InHand = {}

(* NothingForgotten, with what keeps it: an unseen change is of a chunk the *)
(* level can hand out and the tracker follows, and no window outlives its   *)
(* session.                                                                 *)
SeenInv ==
  /\ NothingForgotten
  /\ Unseen \subseteq present \cap loaded
  /\ ~session => Dirty = {}

(* LostToFullSpool, for what is lost already and what may still be: the     *)
(* queue, the job at the writer and the offer being made.                   *)
FullInv ==
  /\ ~exhausted => lost = 0
  /\ lost + Len(queue) + (IF offering = NoJob THEN 0 ELSE 1)
          + (IF writer \in {"polled", "sink"} THEN 1 ELSE 0) <= Capacity + 2

(* The chunks whose window the next tick claims before one that began at    *)
(* first.                                                                   *)
Behind(first, c) ==
  {d \in Dirty : dirty[d].first < first \/ (dirty[d].first = first /\ d < c)}

(* The turns that passed since a window was due by its age,                 *)
Waited(first) == (tick - first - MaxLatency) * MaxSnapshots
(* and the turns others may take before it, counting MaxSnapshots for each  *)
(* claim put back.                                                          *)
Budget == Cardinality(Chunk) - 1 + retries * MaxSnapshots

(* A window is as old as its oldest unseen change.                          *)
OldInv ==
  /\ \A c \in Dirty : dirty[c].first <= tick
  /\ \A c \in InHand : claims[c].first <= tick
  /\ \A c \in Unseen : /\ c \in Dirty => dirty[c].first <= unseen[c]
                       /\ c \in InHand => claims[c].first <= unseen[c]

(* A window that is due by its age had other chunks claimed at each tick    *)
(* since, so the turns that passed and the chunks still before it fit the   *)
(* budget;                                                                  *)
Waiting(first, c) ==
  tick - first >= MaxLatency =>
    Waited(first) + MaxSnapshots + Cardinality(Behind(first, c)) <= Budget
(* one that is claimed at last has this tick's turn to itself.              *)
Claimed(first, c) ==
  tick - first >= MaxLatency =>
    Waited(first) + Cardinality(Behind(first, c)) <= Budget

(* So for every window, dirty or in the hands of a tick.                    *)
LatencyInv ==
  /\ \A c \in Dirty : Waiting(dirty[c].first, c)
  /\ handler = "tick" => \A c \in InHand : Claimed(claims[c].first, c)

(* The events that may flush.                                               *)
Flushes ==
  \/ Join \/ Disconnect \/ LevelChange \/ Stopping
  \/ \E b \in BOOLEAN : Reload(b)

-----------------------------------------------------------------------------
(* Absent values are no windows, ticks or chunks.                           *)
LEMMA Apart ==
  /\ Clean \notin Window /\ \A n \in 0..MaxTick : n # Clean
  /\ NoJob \notin Chunk
BY CleanAssumption, JobAssumption, ChunkAssumption

(* Claiming moves windows.                                                  *)
LEMMA ClaimBecomes ==
  ASSUME TypeInv, NEW S \in SUBSET Chunk, Claim(S)
  PROVE  /\ dirty' \in [Chunk -> Window \cup {Clean}]
         /\ claims' \in [Chunk -> Window \cup {Clean}]
         /\ \A c \in S : claims'[c] = dirty[c] /\ dirty'[c] = Clean
         /\ \A c \in Chunk \ S : claims'[c] = Clean /\ dirty'[c] = dirty[c]
BY DEF TypeInv, Windows, Claim

(* A change starts a window or prolongs it.                                 *)
LEMMA MarkBecomes ==
  ASSUME TypeInv, NEW c \in Chunk, Mark(c)
  PROVE  /\ dirty' \in [Chunk -> Window \cup {Clean}]
         /\ unseen' \in [Chunk -> (0..MaxTick) \cup {Clean}]
         /\ dirty'[c] \in Window
         /\ dirty'[c].first = IF dirty[c] = Clean THEN tick ELSE dirty[c].first
         /\ unseen'[c] = IF unseen[c] = Clean THEN tick ELSE unseen[c]
         /\ \A d \in Chunk \ {c} : dirty'[d] = dirty[d] /\ unseen'[d] = unseen[d]
<1>1. /\ dirty \in [Chunk -> Window \cup {Clean}] /\ tick \in 0..MaxTick
      /\ unseen \in [Chunk -> (0..MaxTick) \cup {Clean}]
  BY DEF TypeInv, Windows, Numbers
<1>2. /\ Updated(dirty[c], tick) \in Window
      /\ Updated(dirty[c], tick).first = IF dirty[c] = Clean THEN tick ELSE dirty[c].first
  <2>1. CASE dirty[c] = Clean
    BY <1>1, <2>1 DEF Updated, Window
  <2>2. CASE dirty[c] # Clean
    <3>1. dirty[c] \in Window /\ Larger(dirty[c].last, tick) \in 0..MaxTick
      BY <1>1, <2>2 DEF Window, Larger
    <3>2. Updated(dirty[c], tick) = [dirty[c] EXCEPT !.last = Larger(dirty[c].last, tick)]
      BY <2>2 DEF Updated
    <3> QED BY <2>2, <3>1, <3>2 DEF Window
  <2> QED BY <2>1, <2>2
<1>3. dirty' = [dirty EXCEPT ![c] = Updated(dirty[c], tick)]
  BY DEF Mark
<1>4. unseen' = [unseen EXCEPT ![c] = IF unseen[c] = Clean THEN tick ELSE unseen[c]]
  BY DEF Mark
<1> QED BY <1>1, <1>2, <1>3, <1>4

(* What is seen has no unseen change,                                       *)
LEMMA SeenBecomes ==
  ASSUME TypeInv, NEW c \in Chunk, Seen(c)
  PROVE  /\ unseen' \in [Chunk -> (0..MaxTick) \cup {Clean}]
         /\ unseen'[c] = Clean /\ \A d \in Chunk \ {c} : unseen'[d] = unseen[d]
BY DEF TypeInv, Windows, Seen

(* and what is dealt with is claimed no more.                               *)
LEMMA DealtBecomes ==
  ASSUME TypeInv, NEW c \in Chunk, Dealt(c)
  PROVE  /\ claims' \in [Chunk -> Window \cup {Clean}]
         /\ claims'[c] = Clean /\ \A d \in Chunk \ {c} : claims'[d] = claims[d]
BY DEF TypeInv, Windows, Dealt

(* A claim nothing came of goes back as it was, or counts as dropped.       *)
LEMMA KeepOrDropBecomes ==
  ASSUME TypeInv, HandlerInv, NEW c \in InHand, KeepOrDrop(c)
  PROVE  /\ dirty' \in [Chunk -> Window \cup {Clean}]
         /\ unseen' \in [Chunk -> (0..MaxTick) \cup {Clean}] /\ retries' \in Nat
         /\ \A d \in Chunk \ {c} : dirty'[d] = dirty[d] /\ unseen'[d] = unseen[d]
         /\ handler = "tick" => /\ unseen' = unseen /\ retries' = retries + 1
                                /\ dirty'[c] = IF c \in loaded THEN claims[c] ELSE Clean
         /\ handler # "tick" => dirty' = dirty /\ retries' = retries /\ unseen'[c] = Clean
<1>1. /\ c \in Chunk /\ claims[c] \in Window \cup {Clean} /\ dirty[c] = Clean
      /\ dirty \in [Chunk -> Window \cup {Clean}] /\ retries \in Nat
      /\ unseen \in [Chunk -> (0..MaxTick) \cup {Clean}]
  BY DEF TypeInv, Windows, Numbers, HandlerInv, InHand, Dirty
<1>2. CASE handler = "tick"
  <2>1. Merged(dirty[c], claims[c]) = claims[c]
    BY <1>1 DEF Merged
  <2>2. dirty' = IF c \in loaded THEN [dirty EXCEPT ![c] = claims[c]] ELSE dirty
    BY <1>2, <2>1 DEF KeepOrDrop
  <2>3. UNCHANGED unseen /\ retries' = retries + 1
    BY <1>2 DEF KeepOrDrop
  <2> QED BY <1>1, <1>2, <2>2, <2>3
<1>3. CASE handler # "tick"
  <2>1. Seen(c) /\ UNCHANGED <<dirty, retries>>
    BY <1>3 DEF KeepOrDrop
  <2> QED BY <1>1, <1>3, <2>1, SeenBecomes
<1> QED BY <1>2, <1>3

(* What a handler leaves behind when it returns.                            *)
LEMMA ReturnBecomes ==
  ASSUME TypeInv, HandlerInv, Return
  PROVE  /\ InHand = {} /\ handler # "none" /\ offering = NoJob
         /\ handler' = "none" /\ leaving' = NoJob
         /\ UNCHANGED <<queue, running, active, interrupted, writer, hand, drained>>
         /\ UNCHANGED <<enabled, exhausted, claims, offering, unseen, lost>>
         /\ handler = "tick" =>
              UNCHANGED <<accepting, closing, session, tick, present, loaded, dirty, retries>>
         /\ handler = "unload" =>
              /\ UNCHANGED <<accepting, closing, session, tick, retries, dirty>>
              /\ leaving \in Chunk /\ present' = present \ {leaving}
              /\ loaded' = loaded \ {leaving}
         /\ handler \in Flushing =>
              /\ dirty' = NoWindows /\ loaded' = {} /\ present' \in {present, {}}
              /\ session' \in {session, FALSE, enabled /\ ~exhausted}
              /\ \/ UNCHANGED <<tick, retries>>
                 \/ tick' = 0 /\ retries' = 0
              /\ handler = "reload" => session' = FALSE
              /\ \/ UNCHANGED <<accepting, closing>>
                 \/ accepting' = FALSE /\ closing' = "waiting" /\ closing = "open"
<1> USE DEF queueVars, shared, closeVars, tracker
<1>1. /\ InHand = {} /\ handler # "none" /\ offering = NoJob
      /\ handler' = "none" /\ leaving' = NoJob
      /\ UNCHANGED <<enabled, exhausted, claims, offering, unseen, lost>>
  BY DEF Return, HandlerInv
<1>2. CASE handler = "tick"
  BY <1>1, <1>2 DEF Return, Flushing
<1>3. CASE handler = "unload"
  <2>1. /\ dirty \in [Chunk -> Window \cup {Clean}]
        /\ leaving \in Chunk
        /\ dirty[leaving] = Clean
    BY <1>3 DEF HandlerInv, TypeInv, Windows, Dirty
  <2>2. dirty' = [dirty EXCEPT ![leaving] = Clean]
    BY <1>3 DEF Return
  <2>3. dirty' = dirty
    BY <2>1, <2>2
  <2> QED BY <1>1, <1>3, <2>1, <2>3 DEF Return, Flushing
<1>4. CASE handler = "transition"
  BY <1>1, <1>4 DEF Return, Flushing, Clear
<1>5. CASE handler = "rejoin"
  BY <1>1, <1>5 DEF Return, Flushing, Clear, StartSession
<1>6. CASE handler = "disconnect"
  BY <1>1, <1>6 DEF Return, Flushing, Clear, EndSession
<1>7. CASE handler = "reload"
  BY <1>1, <1>7 DEF Return, Flushing, Clear, EndSession
<1>8. CASE handler = "stop"
  BY <1>1, <1>8 DEF Return, Flushing, Clear, EndSession, CloseBegin
<1> QED
  BY <1>1, <1>2, <1>3, <1>4, <1>5, <1>6, <1>7, <1>8 DEF TypeInv, Handlers, Flushing

(* What they do: flush a session, leave it alone, or find none.             *)
LEMMA FlushesBecome ==
  ASSUME TypeInv, HandlerInv, Flushes
  PROVE  /\ handler = "none" /\ InHand = {} /\ offering = NoJob /\ Dirty \in SUBSET Chunk
         /\ handler' \in {"none"} \cup Flushing
         /\ UNCHANGED <<unseen, offering, leaving, exhausted, lost, queue, writer>>
         /\ \/ /\ session /\ Claim(Dirty) /\ handler' \in Flushing
               /\ UNCHANGED <<session, tick, retries, present, loaded>>
            \/ /\ handler' = "none"
               /\ UNCHANGED <<dirty, claims, session, tick, retries, present, loaded>>
            \/ /\ ~session /\ handler' = "none"
               /\ UNCHANGED claims /\ dirty' \in {dirty, NoWindows}
<1> USE DEF queueVars, shared, closeVars, tracker, handling, history, Flush, Flushing
<1>1. ClientIdle
  BY DEF Flushes, Join, Disconnect, LevelChange, Stopping, Reload
<1>2. handler = "none" /\ InHand = {} /\ offering = NoJob /\ Dirty \in SUBSET Chunk
  BY <1>1 DEF ClientIdle, HandlerInv, Dirty
<1>3. CASE Join
  BY <1>2, <1>3 DEF Join, Clear
<1>4. CASE Disconnect \/ LevelChange \/ Stopping \/ \E b \in BOOLEAN : Reload(b)
  BY <1>2, <1>4 DEF Disconnect, LevelChange, Stopping, Reload, CloseBegin
<1> QED BY <1>3, <1>4 DEF Flushes

-----------------------------------------------------------------------------
(* Every step keeps the types.                                              *)
LEMMA TypePreserved == TypeInv /\ HandlerInv /\ [Next]_vars => TypeInv'
  <2> SUFFICES ASSUME TypeInv, HandlerInv, [Next]_vars PROVE TypeInv'
    OBVIOUS
  <2> USE DEF queueVars, shared, closeVars, coordinatorVars, tracker, handling, history
  <2>all. Dirty \in SUBSET Chunk
    BY DEF Dirty
  <2>none. NoWindows \in [Chunk -> Window \cup {Clean}] /\ 0 \in 0..MaxTick
    BY TimingAssumption DEF NoWindows
  <2>1. CASE Event
    <3>1. CASE Join
      <4>1. /\ dirty' \in [Chunk -> Window \cup {Clean}]
            /\ claims' \in [Chunk -> Window \cup {Clean}]
            /\ UNCHANGED unseen
        <5>1. CASE Claim(Dirty)
          BY <3>1, <5>1, <2>all, ClaimBecomes DEF Join
        <5>2. CASE ~Claim(Dirty)
          BY <3>1, <5>2, <2>none DEF Join, Flush, Clear, TypeInv, Windows
        <5> QED BY <5>1, <5>2
      <4>10. Flags' /\ Places'
        BY <3>1, <4>1, <2>none
        DEF Join, Flush, Flushing, Clear, StartSession, CloseBegin, TypeInv,
           Flags, Places
      <4>11. QueueInv' /\ Chunks'
        BY <3>1, <4>1, <2>none
        DEF Join, Flush, Flushing, Clear, StartSession, CloseBegin, TypeInv,
           QueueInv, Chunks
      <4>12. Windows'
        BY <3>1, <4>1, <2>none
        DEF Join, Flush, Flushing, Clear, StartSession, CloseBegin, TypeInv, Windows
      <4>13. Numbers'
        <5>1. /\ lost' = lost
              /\ (tick' = tick /\ retries' = retries) \/ (tick' = 0 /\ retries' = 0)
          BY <3>1, <4>1 DEF Join, Flush, StartSession, Flushing
        <5>2. tick \in 0..MaxTick /\ retries \in Nat /\ lost \in Nat /\ 0 \in 0..MaxTick
          BY <2>none DEF TypeInv, Numbers
        <5> QED BY <5>1, <5>2 DEF Numbers
      <4>14. Handlers'
        <5>1. /\ enabled' \in BOOLEAN
              /\ exhausted' \in BOOLEAN
              /\ leaving' \in Chunk \cup {NoJob}
              /\ offering' \in Chunk \cup {NoJob}
          BY <3>1 DEF Join, Flush, TypeInv, Handlers
        <5>2. handler' \in {"none", "tick", "unload"} \cup Flushing
          BY <3>1 DEF Join, Flush, Flushing, TypeInv, Handlers, handling
        <5>3. enabled \in BOOLEAN /\ exhausted \in BOOLEAN /\ session \in BOOLEAN
          BY DEF TypeInv, Handlers
        <5>4. session' = session \/ session' = FALSE \/ session' = (enabled /\ ~exhausted)
          BY <3>1 DEF Join, StartSession
        <5>5. session' \in BOOLEAN
          BY <5>3, <5>4, Zenon
        <5> QED BY <5>1, <5>2, <5>5 DEF Handlers
      <4> QED BY <4>10, <4>11, <4>12, <4>13, <4>14 DEF TypeInv
    <3>2. CASE Disconnect
      <4>1. /\ dirty' \in [Chunk -> Window \cup {Clean}]
            /\ claims' \in [Chunk -> Window \cup {Clean}]
            /\ UNCHANGED unseen
        <5>1. CASE Claim(Dirty)
          BY <3>2, <5>1, <2>all, ClaimBecomes DEF Disconnect
        <5>2. CASE ~Claim(Dirty)
          BY <3>2, <5>2, <2>none DEF Disconnect, Flush, Clear, TypeInv, Windows
        <5> QED BY <5>1, <5>2
      <4>10. Flags' /\ Places'
        BY <3>2, <4>1, <2>none
        DEF Disconnect, Flush, Flushing, Clear, StartSession, CloseBegin, TypeInv,
           Flags, Places
      <4>11. QueueInv' /\ Chunks'
        BY <3>2, <4>1, <2>none
        DEF Disconnect, Flush, Flushing, Clear, StartSession, CloseBegin, TypeInv,
           QueueInv, Chunks
      <4>12. Numbers' /\ Handlers' /\ Windows'
        BY <3>2, <4>1, <2>none, TimingAssumption
        DEF Disconnect, Flush, Flushing, Clear, StartSession, CloseBegin, TypeInv,
           Numbers, Handlers, Windows
      <4> QED BY <4>10, <4>11, <4>12 DEF TypeInv
    <3>3. CASE LevelChange
      <4>1. /\ dirty' \in [Chunk -> Window \cup {Clean}]
            /\ claims' \in [Chunk -> Window \cup {Clean}]
            /\ UNCHANGED unseen
        <5>1. CASE Claim(Dirty)
          BY <3>3, <5>1, <2>all, ClaimBecomes DEF LevelChange
        <5>2. CASE ~Claim(Dirty)
          BY <3>3, <5>2, <2>none DEF LevelChange, Flush, Clear, TypeInv, Windows
        <5> QED BY <5>1, <5>2
      <4>10. Flags' /\ Places'
        BY <3>3, <4>1, <2>none
        DEF LevelChange, Flush, Flushing, Clear, StartSession, CloseBegin, TypeInv,
           Flags, Places
      <4>11. QueueInv' /\ Chunks'
        BY <3>3, <4>1, <2>none
        DEF LevelChange, Flush, Flushing, Clear, StartSession, CloseBegin, TypeInv,
           QueueInv, Chunks
      <4>12. Numbers' /\ Handlers' /\ Windows'
        BY <3>3, <4>1, <2>none, TimingAssumption
        DEF LevelChange, Flush, Flushing, Clear, StartSession, CloseBegin, TypeInv,
           Numbers, Handlers, Windows
      <4> QED BY <4>10, <4>11, <4>12 DEF TypeInv
    <3>4. CASE Stopping
      <4>1. /\ dirty' \in [Chunk -> Window \cup {Clean}]
            /\ claims' \in [Chunk -> Window \cup {Clean}]
            /\ UNCHANGED unseen
        <5>1. CASE Claim(Dirty)
          BY <3>4, <5>1, <2>all, ClaimBecomes DEF Stopping
        <5>2. CASE ~Claim(Dirty)
          BY <3>4, <5>2, <2>none DEF Stopping, Flush, Clear, TypeInv, Windows
        <5> QED BY <5>1, <5>2
      <4>10. Flags' /\ Places'
        BY <3>4, <4>1, <2>none
        DEF Stopping, Flush, Flushing, Clear, StartSession, CloseBegin, TypeInv,
           Flags, Places
      <4>11. QueueInv' /\ Chunks'
        BY <3>4, <4>1, <2>none
        DEF Stopping, Flush, Flushing, Clear, StartSession, CloseBegin, TypeInv,
           QueueInv, Chunks
      <4>12. Numbers' /\ Handlers' /\ Windows'
        BY <3>4, <4>1, <2>none, TimingAssumption
        DEF Stopping, Flush, Flushing, Clear, StartSession, CloseBegin, TypeInv,
           Numbers, Handlers, Windows
      <4> QED BY <4>10, <4>11, <4>12 DEF TypeInv
    <3>5. ASSUME NEW b \in BOOLEAN, Reload(b) PROVE TypeInv'
      <4>1. /\ dirty' \in [Chunk -> Window \cup {Clean}]
            /\ claims' \in [Chunk -> Window \cup {Clean}]
            /\ UNCHANGED unseen
        <5>1. CASE Claim(Dirty)
          BY <3>5, <5>1, <2>all, ClaimBecomes DEF Reload
        <5>2. CASE ~Claim(Dirty)
          BY <3>5, <5>2, <2>none DEF Reload, Flush, Clear, TypeInv, Windows
        <5> QED BY <5>1, <5>2
      <4>10. Flags' /\ Places'
        BY <3>5, <4>1, <2>none
        DEF Reload, Flush, Flushing, Clear, StartSession, CloseBegin, TypeInv,
           Flags, Places
      <4>11. QueueInv' /\ Chunks'
        BY <3>5, <4>1, <2>none
        DEF Reload, Flush, Flushing, Clear, StartSession, CloseBegin, TypeInv,
           QueueInv, Chunks
      <4>12. Numbers' /\ Handlers' /\ Windows'
        BY <3>5, <4>1, <2>none, TimingAssumption
        DEF Reload, Flush, Flushing, Clear, StartSession, CloseBegin, TypeInv, Numbers,
           Handlers, Windows
      <4> QED BY <4>10, <4>11, <4>12 DEF TypeInv
    <3>6. ASSUME NEW c \in Chunk, ChunkLoad(c) PROVE TypeInv'
      BY <3>6, MarkBecomes
      DEF ChunkLoad, TypeInv, Flags, Places, QueueInv, Chunks, Numbers, Handlers,
         Windows
    <3>7. ASSUME NEW c \in Chunk, ChunkChange(c) PROVE TypeInv'
      BY <3>7, MarkBecomes
      DEF ChunkChange, TypeInv, Flags, Places, QueueInv, Chunks, Numbers, Handlers,
         Windows
    <3>8. ASSUME NEW c \in Chunk, ChunkUnload(c) PROVE TypeInv'
      BY <3>8, ClaimBecomes
      DEF ChunkUnload, Dirty, TypeInv, Flags, Places, QueueInv, Chunks, Numbers,
         Handlers, Windows
    <3>9. ASSUME NEW c \in Chunk, ChunkVanish(c) PROVE TypeInv'
      BY <3>9, SeenBecomes
      DEF ChunkVanish, TypeInv, Flags, Places, QueueInv, Chunks, Numbers, Handlers,
         Windows
    <3>10. ASSUME NEW S \in SUBSET Chunk, EndTick(S) PROVE TypeInv'
      <4>1. S \in SUBSET Chunk /\ Claim(S)
        BY <3>10 DEF EndTick
      <4>10. Flags' /\ Places'
        BY <3>10, <4>1, ClaimBecomes DEF EndTick, TypeInv,
           Flags, Places
      <4>11. QueueInv' /\ Chunks'
        BY <3>10, <4>1, ClaimBecomes DEF EndTick, TypeInv,
           QueueInv, Chunks
      <4>12. Numbers' /\ Handlers' /\ Windows'
        BY <3>10, <4>1, ClaimBecomes, TimingAssumption
        DEF EndTick, TypeInv, Numbers, Handlers, Windows
      <4> QED BY <4>10, <4>11, <4>12 DEF TypeInv
    <3> QED BY <2>1, <3>1, <3>2, <3>3, <3>4, <3>5, <3>6, <3>7, <3>8, <3>9, <3>10 DEF Event
  <2>2. CASE Handle
    <3>1. ASSUME NEW c \in Chunk, Unreadable(c) PROVE TypeInv'
      BY <3>1, SeenBecomes, DealtBecomes
      DEF Unreadable, TypeInv, Flags, Places, QueueInv, Chunks, Numbers, Handlers,
         Windows
    <3>2. ASSUME NEW c \in Chunk, SpoolIsFull(c) PROVE TypeInv'
      BY <3>2, SeenBecomes, DealtBecomes
      DEF SpoolIsFull, TypeInv, Flags, Places, QueueInv, Chunks, Numbers, Handlers,
         Windows
    <3>3. ASSUME NEW c \in Chunk, SnapshotFails(c) PROVE TypeInv'
      <4>1. c \in InHand
        BY <3>3, Apart DEF SnapshotFails, Turn, HandlerInv
      <4> QED
        BY <3>3, <4>1, KeepOrDropBecomes, DealtBecomes
        DEF SnapshotFails, TypeInv, Flags, Places, QueueInv, Chunks, Numbers, Handlers,
            Windows
    <3>4. ASSUME NEW c \in Chunk, Snapshot(c) PROVE TypeInv'
      BY <3>4
      DEF Snapshot, TypeInv, Flags, Places, QueueInv, Chunks, Numbers, Handlers, Windows
    <3>5. ASSUME NEW c \in Chunk, Enqueue(c) PROVE TypeInv'
      <4>1. queue' \in Seq(Job) /\ Len(queue') = Len(queue) + 1
        BY <3>5, ChunkAssumption DEF Enqueue, Accept, TypeInv, QueueInv
      <4>2. Len(queue) < Capacity /\ Len(queue) \in Nat
        BY <3>5 DEF Enqueue, Accept, Room, TypeInv, QueueInv
      <4> QED
        BY <3>5, <4>1, <4>2, CapacityAssumption, SeenBecomes, DealtBecomes
        DEF Enqueue, Accept, TypeInv, Flags, Places, QueueInv, Chunks, Numbers,
            Handlers, Windows
    <3>6. ASSUME NEW c \in Chunk, Refuse(c) PROVE TypeInv'
      <4>1. c \in InHand
        BY <3>6, Apart DEF Refuse, Turn, HandlerInv
      <4> QED
        BY <3>6, <4>1, KeepOrDropBecomes, DealtBecomes
        DEF Refuse, TypeInv, Flags, Places, QueueInv, Chunks, Numbers, Handlers, Windows
    <3>7. CASE Return
      <4>1. handler \in {"tick", "unload"} \cup Flushing
        BY <3>7, ReturnBecomes DEF TypeInv, Handlers
      <4>11. Places' /\ QueueInv' /\ Chunks'
        BY <3>7, <4>1, <2>none, ReturnBecomes DEF TypeInv, Places, QueueInv, Chunks
      <4>12. Windows'
        BY <3>7, <4>1, <2>none, ReturnBecomes DEF TypeInv, Windows
      <4>13. Flags'
        BY <3>7, <4>1, ReturnBecomes DEF Flags, TypeInv
      <4>14. Numbers'
        <5>1. /\ lost' = lost
              /\ (tick' = tick /\ retries' = retries) \/ (tick' = 0 /\ retries' = 0)
          BY <3>7, <4>1, ReturnBecomes DEF Flushing
        <5>2. tick \in 0..MaxTick /\ retries \in Nat /\ lost \in Nat /\ 0 \in 0..MaxTick
          BY <2>none DEF TypeInv, Numbers
        <5> QED BY <5>1, <5>2 DEF Numbers
      <4>15. Handlers'
        <5>1. /\ enabled' \in BOOLEAN
              /\ exhausted' \in BOOLEAN
              /\ leaving' \in Chunk \cup {NoJob}
              /\ offering' \in Chunk \cup {NoJob}
          BY <3>7, ReturnBecomes DEF TypeInv, Handlers
        <5>2. handler' \in {"none", "tick", "unload"} \cup Flushing
          BY <3>7, ReturnBecomes DEF Flushing, TypeInv, Handlers, handling
        <5>3. enabled \in BOOLEAN /\ exhausted \in BOOLEAN /\ session \in BOOLEAN
          BY DEF TypeInv, Handlers
        <5>4. session' = session \/ session' = FALSE \/ session' = (enabled /\ ~exhausted)
          BY <3>7, <4>1, ReturnBecomes
        <5>5. session' \in BOOLEAN
          BY <5>3, <5>4, Zenon
        <5> QED BY <5>1, <5>2, <5>5 DEF Handlers
      <4> QED BY <4>11, <4>12, <4>13, <4>14, <4>15 DEF TypeInv
    <3>8. CASE Closing /\ UNCHANGED coordinatorVars
      <4>1. closing' \in {"stopping", "interrupting", "joining", "closed"}
        BY <3>8 DEF Closing, CloseWaited, CloseStop, CloseInterrupt, CloseReturn
      <4>2. drained' \in BOOLEAN
        <5>1. drained' = drained \/ drained' = (queue = <<>> /\ ~active /\ writer = "dead")
          BY <3>8
          DEF Closing, CloseWaited, CloseStop, CloseInterrupt, CloseReturn, closeVars
        <5>2. drained \in BOOLEAN
          BY DEF TypeInv, Flags
        <5> QED BY <5>1, <5>2, Zenon
      <4>10. Flags' /\ Places'
        BY <3>8, <4>1, <4>2
        DEF Closing, CloseWaited, CloseStop, CloseInterrupt, CloseReturn, TypeInv,
           Flags, Places
      <4>11. QueueInv' /\ Chunks'
        BY <3>8, <4>1, <4>2
        DEF Closing, CloseWaited, CloseStop, CloseInterrupt, CloseReturn, TypeInv,
           QueueInv, Chunks
      <4>12. Numbers' /\ Handlers' /\ Windows'
        BY <3>8, <4>1, <4>2, TimingAssumption
        DEF Closing, CloseWaited, CloseStop, CloseInterrupt, CloseReturn, TypeInv,
           Numbers, Handlers, Windows
      <4> QED BY <4>10, <4>11, <4>12 DEF TypeInv
    <3> QED BY <2>2, <3>1, <3>2, <3>3, <3>4, <3>5, <3>6, <3>7, <3>8 DEF Handle
  <2>3. CASE WriterStep
    <3>1. CASE Writing /\ UNCHANGED coordinatorVars
      <4>1. CASE Poll
        <5>1. queue' \in Seq(Job) /\ Len(queue') = Len(queue) - 1 /\ hand' \in Job
          BY <4>1, HeadTailProperties DEF Poll, TypeInv, QueueInv
        <5>2. Len(queue) \in Nat
          BY DEF TypeInv, QueueInv
        <5> QED
          BY <3>1, <4>1, <5>1, <5>2, CapacityAssumption
          DEF Poll, TypeInv, Flags, Places, QueueInv, Chunks, Numbers, Handlers, Windows
      <4>2. CASE ~Poll
        <5>11. Flags' /\ Places' /\ QueueInv' /\ Chunks'
          BY <3>1, <4>2
          DEF Writing, Check, PollTimeout, PollInterrupted, Activate, Settle, TypeInv,
             Flags, Places, QueueInv, Chunks
        <5>12. Numbers' /\ Handlers' /\ Windows'
          BY <3>1, <4>2, TimingAssumption
          DEF Writing, Check, PollTimeout, PollInterrupted, Activate, Settle, TypeInv,
             Numbers, Handlers, Windows
        <5> QED BY <5>11, <5>12 DEF TypeInv
      <4> QED BY <4>1, <4>2
    <3>2. ASSUME NEW outcome \in Outcome, SinkReturns(outcome) PROVE TypeInv'
      BY <3>2
      DEF SinkReturns, Sink, TypeInv, Flags, Places, QueueInv, Chunks, Numbers,
         Handlers, Windows
    <3> QED BY <2>3, <3>1, <3>2 DEF WriterStep
  <2>4. CASE UNCHANGED vars
    BY <2>4 DEF vars, TypeInv, Flags, Places, QueueInv, Chunks, Numbers, Handlers, Windows
  <2> QED BY <2>1, <2>2, <2>3, <2>4 DEF Next

(* Every handler claims when nothing is claimed, and returns when nothing   *)
(* is.                                                                      *)
LEMMA HandlerPreserved == TypeInv /\ HandlerInv /\ [Next]_vars => HandlerInv'
  <2> SUFFICES ASSUME TypeInv, HandlerInv, [Next]_vars PROVE HandlerInv'
    OBVIOUS
  <2> USE DEF queueVars, shared, closeVars, coordinatorVars, tracker, handling, history
  <2>all. Dirty \in SUBSET Chunk
    BY DEF Dirty
  <2>idle. ClientIdle => handler = "none" /\ InHand = {} /\ offering = NoJob
    BY DEF HandlerInv, ClientIdle
  <2>same. UNCHANGED <<tracker, handling, session>> => HandlerInv'
    BY DEF HandlerInv, Dirty, InHand, tracker, handling
  <2>1. CASE Event
    <3>1. CASE Flushes
      BY <3>1, FlushesBecome, ClaimBecomes
      DEF HandlerInv, Dirty, InHand, Flushing, NoWindows
    <3>2. ASSUME NEW c \in Chunk, ChunkLoad(c) PROVE HandlerInv'
      <4>1. UNCHANGED <<handler, claims, offering, session, leaving>> /\ handler = "none"
        BY <3>2 DEF ChunkLoad, ClientIdle
      <4> QED BY <4>1, <2>idle DEF HandlerInv, InHand, Flushing
    <3>3. ASSUME NEW c \in Chunk, ChunkChange(c) PROVE HandlerInv'
      <4>1. UNCHANGED <<handler, claims, offering, session, leaving>> /\ handler = "none"
        BY <3>3 DEF ChunkChange, ClientIdle
      <4> QED BY <4>1, <2>idle DEF HandlerInv, InHand, Flushing
    <3>4. ASSUME NEW c \in Chunk, ChunkUnload(c) PROVE HandlerInv'
      <4>1. CASE session /\ c \in Dirty
        BY <3>4, <4>1, <2>idle, ClaimBecomes
        DEF ChunkUnload, HandlerInv, Dirty, InHand, Flushing
      <4>2. CASE ~(session /\ c \in Dirty)
        BY <3>4, <4>2, <2>idle DEF ChunkUnload, HandlerInv, Dirty, InHand, Flushing
      <4> QED BY <4>1, <4>2
    <3>5. ASSUME NEW S \in SUBSET Chunk, EndTick(S) PROVE HandlerInv'
      <4>1. /\ S \in SUBSET Chunk
            /\ Claim(S)
            /\ session
            /\ UNCHANGED session
            /\ offering = NoJob
            /\ offering' = NoJob
        BY <3>5, <2>idle DEF EndTick, handling
      <4>2. handler' = IF S = {} THEN "none" ELSE "tick"
        BY <3>5 DEF EndTick
      <4> QED BY <4>1, <4>2, ClaimBecomes DEF HandlerInv, Dirty, InHand, Flushing
    <3> QED BY <2>1, <2>same, <3>1, <3>2, <3>3, <3>4, <3>5 DEF Event, Flushes, ChunkVanish
  <2>2. CASE Handle
    <3>1. ASSUME NEW c \in Chunk, Unreadable(c) PROVE HandlerInv'
      BY <3>1, DealtBecomes
      DEF Unreadable, Turn, HandlerInv, Dirty, InHand, Flushing, TypeInv, Windows
    <3>2. ASSUME NEW c \in Chunk, SpoolIsFull(c) PROVE HandlerInv'
      BY <3>2, DealtBecomes DEF SpoolIsFull, Turn, HandlerInv, Dirty, InHand, Flushing
    <3>3. ASSUME NEW c \in Chunk, SnapshotFails(c) PROVE HandlerInv'
      <4>1. c \in InHand
        BY <3>3, Apart DEF SnapshotFails, Turn, HandlerInv
      <4>2. /\ UNCHANGED <<session, handler, leaving>>
            /\ offering' = NoJob
            /\ Dealt(c)
            /\ KeepOrDrop(c)
        BY <3>3 DEF SnapshotFails, Turn
      <4>3. /\ claims'[c] = Clean
            /\ handler # "tick" => UNCHANGED dirty
            /\ \A d \in Chunk \ {c} : claims'[d] = claims[d] /\ dirty'[d] = dirty[d]
        BY <4>1, <4>2, DealtBecomes, KeepOrDropBecomes DEF InHand
      <4> QED BY <4>1, <4>2, <4>3 DEF HandlerInv, Dirty, InHand, Flushing
    <3>4. ASSUME NEW c \in Chunk, Snapshot(c) PROVE HandlerInv'
      BY <3>4 DEF Snapshot, Turn, HandlerInv, Dirty, InHand, Flushing
    <3>5. ASSUME NEW c \in Chunk, Enqueue(c) PROVE HandlerInv'
      BY <3>5, DealtBecomes DEF Enqueue, HandlerInv, Dirty, InHand, Flushing
    <3>6. ASSUME NEW c \in Chunk, Refuse(c) PROVE HandlerInv'
      <4>1. c \in InHand
        BY <3>6, Apart DEF Refuse, Turn, HandlerInv
      <4>2. /\ UNCHANGED <<session, handler, leaving>>
            /\ offering' = NoJob
            /\ Dealt(c)
            /\ KeepOrDrop(c)
        BY <3>6 DEF Refuse, Turn
      <4>3. /\ claims'[c] = Clean
            /\ handler # "tick" => UNCHANGED dirty
            /\ \A d \in Chunk \ {c} : claims'[d] = claims[d] /\ dirty'[d] = dirty[d]
        BY <4>1, <4>2, DealtBecomes, KeepOrDropBecomes DEF InHand
      <4> QED BY <4>1, <4>2, <4>3 DEF HandlerInv, Dirty, InHand, Flushing
    <3>7. CASE Return
      <4>1. handler' = "none" /\ offering' = NoJob /\ InHand' = {}
        BY <3>7, ReturnBecomes DEF InHand
      <4> QED BY <4>1 DEF HandlerInv, Flushing
    <3> QED
      BY <2>2, <2>same, <3>1, <3>2, <3>3, <3>4, <3>5, <3>6, <3>7
      DEF Handle, Closing, CloseWaited, CloseStop, CloseInterrupt, CloseReturn
  <2>3. CASE WriterStep
    BY <2>3, <2>same
    DEF WriterStep, Writing, Check, Poll, PollTimeout, PollInterrupted, Activate,
       Settle, SinkReturns, Sink
  <2>4. CASE UNCHANGED vars
    BY <2>4, <2>same DEF vars
  <2> QED BY <2>1, <2>2, <2>3, <2>4 DEF Next

(* Type correctness, and whose the claims are.                              *)
THEOREM TypeCorrect == Spec => [](TypeInv /\ HandlerInv)
<1>1. Init => TypeInv /\ HandlerInv
  <2> SUFFICES ASSUME Init PROVE TypeInv /\ HandlerInv
    OBVIOUS
  <2>1. /\ NoWindows \in [Chunk -> {Clean}]
        /\ 0 \in 0..MaxTick
        /\ <<>> \in Seq(Job)
        /\ Len(<<>>) = 0
    BY TimingAssumption DEF NoWindows
  <2>2. TypeInv
    <3>1. Flags /\ Places /\ Chunks
      BY DEF Init, QueueInit, Flags, Places, Chunks
    <3>4. QueueInv
      BY <2>1, CapacityAssumption DEF Init, QueueInit, QueueInv
    <3>2. Numbers /\ Handlers
      BY <2>1 DEF Init, Numbers, Handlers
    <3>3. Windows
      BY <2>1 DEF Init, Windows
    <3> QED BY <3>1, <3>2, <3>3, <3>4 DEF TypeInv
  <2>3. HandlerInv
    BY <2>1 DEF Init, HandlerInv, InHand, Dirty, Flushing
  <2> QED BY <2>2, <2>3
<1>2. TypeInv /\ HandlerInv /\ [Next]_vars => TypeInv' /\ HandlerInv'
  BY TypePreserved, HandlerPreserved
<1> QED BY <1>1, <1>2, PTL DEF Spec

(* Type correctness.                                                        *)
THEOREM TypeOKCorrect == Spec => []TypeOK
<1>1. TypeInv => TypeOK
  <2> SUFFICES ASSUME TypeInv PROVE TypeOK
    OBVIOUS
  <2>1. QueueTypeOK
    BY DEF TypeInv, Flags, Places, QueueInv, QueueTypeOK
  <2>2. {enabled, exhausted, session} \subseteq BOOLEAN
    BY DEF TypeInv, Handlers
  <2> QED
    BY <2>1, <2>2 DEF TypeInv, Chunks, Numbers, Handlers, Windows, TypeOK
<1> QED BY <1>1, TypeCorrect, PTL

-----------------------------------------------------------------------------
(* Between the end of the wait and the join the writer may take a job off   *)
(* the queue; only a writer that has ended has none.                        *)
THEOREM DrainCorrect == Spec => []DrainInv
<1>1. Init => DrainInv
  BY DEF Init, QueueInit, NoWindows, DrainInv, DrainedMeansHandled
<1>2. TypeInv /\ HandlerInv /\ DrainInv /\ [Next]_vars => DrainInv'
  <2> SUFFICES ASSUME TypeInv, HandlerInv, DrainInv, [Next]_vars PROVE DrainInv'
    OBVIOUS
  <2> USE DEF queueVars, shared, closeVars, coordinatorVars, tracker, handling, history
  <2>handler. handler \in {"none", "tick", "unload"} \cup Flushing
    BY DEF TypeInv, Handlers
  <2>same. UNCHANGED <<queue, accepting, writer, hand, closeVars>> => DrainInv'
    BY DEF DrainInv, DrainedMeansHandled, closeVars
  <2>1. CASE Event
    <3>1. CASE Stopping
      BY <3>1
      DEF Stopping, CloseBegin, queueVars, shared, closeVars, DrainInv,
         DrainedMeansHandled
    <3> QED
      BY <2>1, <2>same, <3>1
      DEF Event, Join, Disconnect, LevelChange, Reload, ChunkLoad, ChunkChange,
          ChunkUnload, ChunkVanish, EndTick
  <2>2. CASE Handle
    <3>1. ASSUME NEW c \in Chunk, Enqueue(c) PROVE DrainInv'
      BY <3>1 DEF Enqueue, Accept, Room, closeVars, shared, DrainInv, DrainedMeansHandled
    <3>2. CASE Return
      <4>1. /\ UNCHANGED <<queue, hand, writer, drained>>
            /\ \/ UNCHANGED <<accepting, closing>>
               \/ accepting' = FALSE /\ closing' = "waiting"
        BY <3>2, <2>handler, ReturnBecomes DEF Flushing
      <4> QED BY <4>1 DEF DrainInv, DrainedMeansHandled
    <3>3. CASE Closing /\ UNCHANGED coordinatorVars
      <4>1. closing # "open" /\ UNCHANGED <<queue, accepting, writer, hand>>
        BY <3>3 DEF Closing, CloseWaited, CloseStop, CloseInterrupt, CloseReturn, shared
      <4>2. CASE CloseReturn
        <5>1. drained' = (queue = <<>> /\ ~active /\ writer = "dead")
          BY <4>2 DEF CloseReturn
        <5>2. drained' => queue = <<>> /\ writer = "dead"
          BY <5>1, Zenon
        <5> QED BY <4>1, <5>2 DEF DrainInv, DrainedMeansHandled
      <4>3. CASE ~CloseReturn
        <5>1. closing' # "closed"
          BY <3>3, <4>3 DEF Closing, CloseWaited, CloseStop, CloseInterrupt, CloseReturn
        <5> QED BY <4>1, <5>1 DEF DrainInv, DrainedMeansHandled
      <4> QED BY <4>2, <4>3
    <3> QED
      BY <2>2, <2>same, <3>1, <3>2, <3>3
      DEF Handle, Unreadable, SpoolIsFull, SnapshotFails, Snapshot, Refuse
  <2>3. CASE WriterStep
    <3>1. CASE Writing /\ UNCHANGED coordinatorVars
      BY <3>1
      DEF Writing, Check, Poll, PollTimeout, PollInterrupted, Activate, Settle,
         coordinatorVars, shared, closeVars, DrainInv, DrainedMeansHandled
    <3>2. ASSUME NEW outcome \in Outcome, SinkReturns(outcome) PROVE DrainInv'
      BY <3>2 DEF SinkReturns, Sink, shared, closeVars, DrainInv, DrainedMeansHandled
    <3> QED BY <2>3, <2>same, <3>1, <3>2 DEF WriterStep
  <2>4. CASE UNCHANGED vars
    BY <2>4, <2>same DEF vars
  <2> QED BY <2>1, <2>2, <2>3, <2>4 DEF Next
<1> QED BY <1>1, <1>2, TypeCorrect, PTL DEF Spec

(* A close that returns true leaves nothing behind (DrainedMeansHandled).   *)
THEOREM DrainedMeansHandledCorrect == Spec => []DrainedMeansHandled
BY DrainCorrect, PTL DEF DrainInv

(* A refusal, a failure, an unload or the end of a session forgets no       *)
(* change.                                                                  *)
THEOREM SeenCorrect == Spec => []SeenInv
<1>1. Init => SeenInv
  BY DEF Init, QueueInit, NoWindows, SeenInv, NothingForgotten, Unseen, Dirty, InHand
<1>2. TypeInv /\ HandlerInv /\ SeenInv /\ [Next]_vars => SeenInv'
  <2> SUFFICES ASSUME TypeInv, HandlerInv, SeenInv, [Next]_vars PROVE SeenInv'
    OBVIOUS
  <2> USE DEF queueVars, shared, closeVars, coordinatorVars, tracker, handling, history
  <2>all. Dirty \in SUBSET Chunk
    BY DEF Dirty
  <2>idle. ClientIdle => InHand = {}
    BY DEF HandlerInv, ClientIdle
  <2>handler. handler \in {"none", "tick", "unload"} \cup Flushing
    BY DEF TypeInv, Handlers
  <2>same. UNCHANGED <<dirty, claims, session, present, loaded, unseen>> => SeenInv'
    BY DEF SeenInv, NothingForgotten, Unseen, Dirty, InHand
  <2>1. CASE Event
    <3>1. CASE Flushes
      <4>1. CASE session
        BY <3>1, <4>1, <2>same, FlushesBecome, ClaimBecomes
        DEF SeenInv, NothingForgotten, Unseen, Dirty, InHand
      <4>2. CASE ~session
        <5>1. /\ Dirty = {}
              /\ InHand = {}
              /\ Unseen = {}
              /\ UNCHANGED <<claims, unseen>>
              /\ dirty' \in {dirty, NoWindows}
          BY <3>1, <4>2, FlushesBecome DEF SeenInv, NothingForgotten, Unseen
        <5> QED BY <5>1 DEF SeenInv, NothingForgotten, Unseen, Dirty, InHand, NoWindows
      <4> QED BY <4>1, <4>2
    <3>2. ASSUME NEW c \in Chunk, ChunkLoad(c) PROVE SeenInv'
      <4>1. CASE session
        <5>1. /\ Mark(c)
              /\ UNCHANGED <<claims, session>>
              /\ present' = present \cup {c}
              /\ loaded' = loaded \cup {c}
          BY <3>2, <4>1 DEF ChunkLoad, handling
        <5> QED
          BY <4>1, <5>1, MarkBecomes, Apart
          DEF SeenInv, NothingForgotten, Unseen, Dirty, InHand
      <4>2. CASE ~session
        BY <3>2, <4>2, <2>idle
        DEF ChunkLoad, SeenInv, NothingForgotten, Unseen, Dirty, InHand
      <4> QED BY <4>1, <4>2
    <3>3. ASSUME NEW c \in Chunk, ChunkChange(c) PROVE SeenInv'
      <4>1. /\ Mark(c)
            /\ session
            /\ c \in present \cap loaded
            /\ UNCHANGED <<claims, session, present, loaded>>
        BY <3>3 DEF ChunkChange, handling
      <4> QED BY <4>1, MarkBecomes, Apart DEF SeenInv, NothingForgotten, Unseen, Dirty, InHand
    <3>4. ASSUME NEW c \in Chunk, ChunkUnload(c) PROVE SeenInv'
      <4>1. CASE session /\ c \in Dirty
        <5>1. Claim({c}) /\ UNCHANGED <<session, present, loaded, unseen>>
          BY <3>4, <4>1 DEF ChunkUnload, history
        <5>2. InHand = {}
          BY <3>4, <2>idle DEF ChunkUnload
        <5> QED
          BY <4>1, <5>1, <5>2, ClaimBecomes
          DEF SeenInv, NothingForgotten, Unseen, Dirty, InHand
      <4>2. CASE ~(session /\ c \in Dirty)
        <5>1. c \notin Unseen /\ InHand = {}
          BY <3>4, <4>2, <2>idle DEF ChunkUnload, SeenInv, NothingForgotten, Unseen
        <5>2. /\ UNCHANGED <<dirty, claims, unseen, session>> /\ present' = present \ {c}
            /\ loaded' \in {loaded, loaded \ {c}}
          BY <3>4, <4>2 DEF ChunkUnload, handling, history
        <5> QED BY <5>1, <5>2 DEF SeenInv, NothingForgotten, Unseen, Dirty, InHand
      <4> QED BY <4>1, <4>2
    <3>5. ASSUME NEW c \in Chunk, ChunkVanish(c) PROVE SeenInv'
      <4>1. /\ Seen(c)
            /\ UNCHANGED <<dirty, claims, session, loaded>>
            /\ present' = present \ {c}
        BY <3>5 DEF ChunkVanish, tracker, handling
      <4> QED BY <4>1, SeenBecomes DEF SeenInv, NothingForgotten, Unseen, Dirty, InHand
    <3>6. ASSUME NEW S \in SUBSET Chunk, EndTick(S) PROVE SeenInv'
      <4>1. /\ S \in SUBSET Chunk
            /\ Claim(S)
            /\ session
            /\ UNCHANGED <<session, present, loaded, unseen>>
        BY <3>6 DEF EndTick, history
      <4>2. InHand = {}
        BY <3>6, <2>idle DEF EndTick
      <4> QED BY <4>1, <4>2, ClaimBecomes DEF SeenInv, NothingForgotten, Unseen, Dirty, InHand
    <3> QED BY <2>1, <2>same, <3>1, <3>2, <3>3, <3>4, <3>5, <3>6 DEF Event, Flushes
  <2>2. CASE Handle
    <3>1. ASSUME NEW c \in Chunk, Unreadable(c) PROVE SeenInv'
      <4>1. CASE handler = "tick"
        <5>1. /\ Dealt(c)
              /\ loaded' = loaded \ {c}
              /\ dirty' = [dirty EXCEPT ![c] = Clean]
              /\ UNCHANGED <<unseen, present, session>>
              /\ c \notin present
          BY <3>1, <4>1 DEF Unreadable, Readable
        <5>2. dirty'[c] = Clean /\ \A d \in Chunk \ {c} : dirty'[d] = dirty[d]
          BY <5>1 DEF TypeInv, Windows
        <5> QED
          BY <5>1, <5>2, DealtBecomes
          DEF SeenInv, NothingForgotten, Unseen, Dirty, InHand
      <4>2. CASE handler # "tick"
        <5>1. Dealt(c) /\ Seen(c) /\ UNCHANGED <<dirty, loaded, present, session>>
          BY <3>1, <4>2 DEF Unreadable, tracker
        <5> QED
          BY <5>1, DealtBecomes, SeenBecomes
          DEF SeenInv, NothingForgotten, Unseen, Dirty, InHand
      <4> QED BY <4>1, <4>2
    <3>2. ASSUME NEW c \in Chunk, SpoolIsFull(c) PROVE SeenInv'
      <4>1. Dealt(c) /\ Seen(c) /\ UNCHANGED <<dirty, loaded, present, session>>
        BY <3>2 DEF SpoolIsFull, tracker
      <4> QED
        BY <4>1, DealtBecomes, SeenBecomes
        DEF SeenInv, NothingForgotten, Unseen, Dirty, InHand
    <3>3. ASSUME NEW c \in Chunk, SnapshotFails(c) PROVE SeenInv'
      <4>1. c \in InHand
        BY <3>3, Apart DEF SnapshotFails, Turn, HandlerInv
      <4>2. /\ UNCHANGED <<session, present, loaded>>
            /\ Dealt(c)
            /\ KeepOrDrop(c)
            /\ handler # "none"
        BY <3>3, <4>1 DEF SnapshotFails, Turn, HandlerInv
      <4>3. session
        BY <4>2 DEF HandlerInv
      <4>4. claims[c] # Clean
        BY <4>1 DEF InHand
      <4>5. CASE handler = "tick"
        BY <4>1, <4>2, <4>3, <4>4, <4>5, DealtBecomes, KeepOrDropBecomes
        DEF SeenInv, NothingForgotten, Unseen, Dirty, InHand
      <4>6. CASE handler # "tick"
        BY <4>1, <4>2, <4>3, <4>6, DealtBecomes, KeepOrDropBecomes
        DEF SeenInv, NothingForgotten, Unseen, Dirty, InHand
      <4> QED BY <4>5, <4>6
    <3>4. ASSUME NEW c \in Chunk, Enqueue(c) PROVE SeenInv'
      <4>1. Dealt(c) /\ Seen(c) /\ UNCHANGED <<dirty, loaded, present, session>>
        BY <3>4 DEF Enqueue, tracker
      <4> QED
        BY <4>1, DealtBecomes, SeenBecomes
        DEF SeenInv, NothingForgotten, Unseen, Dirty, InHand
    <3>5. ASSUME NEW c \in Chunk, Refuse(c) PROVE SeenInv'
      <4>1. c \in InHand
        BY <3>5, Apart DEF Refuse, Turn, HandlerInv
      <4>2. /\ UNCHANGED <<session, present, loaded>>
            /\ Dealt(c)
            /\ KeepOrDrop(c)
            /\ handler # "none"
        BY <3>5, <4>1 DEF Refuse, Turn, HandlerInv
      <4>3. session
        BY <4>2 DEF HandlerInv
      <4>4. claims[c] # Clean
        BY <4>1 DEF InHand
      <4>5. CASE handler = "tick"
        BY <4>1, <4>2, <4>3, <4>4, <4>5, DealtBecomes, KeepOrDropBecomes
        DEF SeenInv, NothingForgotten, Unseen, Dirty, InHand
      <4>6. CASE handler # "tick"
        BY <4>1, <4>2, <4>3, <4>6, DealtBecomes, KeepOrDropBecomes
        DEF SeenInv, NothingForgotten, Unseen, Dirty, InHand
      <4> QED BY <4>5, <4>6
    <3>6. CASE Return
      <4>1. InHand = {} /\ UNCHANGED <<claims, unseen>>
        BY <3>6, ReturnBecomes
      <4>2. CASE handler = "tick"
        <5>1. UNCHANGED <<session, present, loaded, dirty>>
          BY <3>6, <4>2, ReturnBecomes
        <5> QED BY <4>1, <5>1, <2>same
      <4>3. CASE handler = "unload"
        <5>1. /\ UNCHANGED <<session, dirty>> /\ present' = present \ {leaving}
              /\ loaded' = loaded \ {leaving} /\ leaving \notin Dirty
          BY <3>6, <4>3, ReturnBecomes DEF HandlerInv
        <5> QED BY <4>1, <5>1 DEF SeenInv, NothingForgotten, Unseen, Dirty, InHand
      <4>4. CASE handler \in Flushing
        <5>1. dirty' = NoWindows /\ Dirty = {}
          BY <3>6, <4>4, ReturnBecomes DEF HandlerInv
        <5> QED BY <4>1, <5>1 DEF SeenInv, NothingForgotten, Unseen, Dirty, InHand, NoWindows
      <4> QED BY <3>6, <2>handler, <4>2, <4>3, <4>4, ReturnBecomes
    <3> QED
      BY <2>2, <2>same, <3>1, <3>2, <3>3, <3>4, <3>5, <3>6
      DEF Handle, Snapshot, Closing, CloseWaited, CloseStop, CloseInterrupt, CloseReturn
  <2>3. CASE WriterStep
    BY <2>3, <2>same
    DEF WriterStep, Writing, Check, Poll, PollTimeout, PollInterrupted, Activate,
       Settle, SinkReturns, Sink
  <2>4. CASE UNCHANGED vars
    BY <2>4, <2>same DEF vars
  <2> QED BY <2>1, <2>2, <2>3, <2>4 DEF Next
<1> QED BY <1>1, <1>2, TypeCorrect, PTL DEF Spec

(* Every observed change is dirty, in hand, captured or counted as dropped  *)
(* (NothingForgotten).                                                      *)
THEOREM NothingForgottenCorrect == Spec => []NothingForgotten
BY SeenCorrect, PTL DEF SeenInv

(* A session is active with consent only, but for the flush that ends it    *)
(* (RecordsWithConsent).                                                    *)
THEOREM RecordsWithConsentCorrect == Spec => []RecordsWithConsent
<1>1. Init => RecordsWithConsent
  BY DEF Init, QueueInit, NoWindows, RecordsWithConsent
<1>2. TypeInv /\ HandlerInv /\ RecordsWithConsent /\ [Next]_vars => RecordsWithConsent'
  <2> SUFFICES ASSUME TypeInv, HandlerInv, RecordsWithConsent, [Next]_vars
               PROVE  RecordsWithConsent'
    OBVIOUS
  <2> USE DEF queueVars, shared, closeVars, coordinatorVars, tracker, handling, history
  <2>handler. handler \in {"none", "tick", "unload"} \cup Flushing
    BY DEF TypeInv, Handlers
  <2>same. UNCHANGED <<session, handler, enabled>> => RecordsWithConsent'
    BY DEF RecordsWithConsent
  <2>1. CASE Event
    <3>1. CASE Join
      BY <3>1 DEF Join, ClientIdle, StartSession, Flush, RecordsWithConsent
    <3>2. CASE Disconnect
      BY <3>2 DEF Disconnect, ClientIdle, StartSession, Flush, RecordsWithConsent
    <3>3. CASE LevelChange
      BY <3>3 DEF LevelChange, ClientIdle, StartSession, Flush, RecordsWithConsent
    <3>4. CASE Stopping
      BY <3>4 DEF Stopping, ClientIdle, StartSession, Flush, RecordsWithConsent
    <3>5. ASSUME NEW b \in BOOLEAN, Reload(b) PROVE RecordsWithConsent'
      BY <3>5 DEF Reload, ClientIdle, StartSession, Flush, RecordsWithConsent
    <3>6. ASSUME NEW c \in Chunk, ChunkUnload(c) PROVE RecordsWithConsent'
      BY <3>6 DEF ChunkUnload, ClientIdle, StartSession, Flush, RecordsWithConsent
    <3>7. ASSUME NEW S \in SUBSET Chunk, EndTick(S) PROVE RecordsWithConsent'
      BY <3>7 DEF EndTick, ClientIdle, StartSession, Flush, RecordsWithConsent
    <3> QED
      BY <2>1, <2>same, <3>1, <3>2, <3>3, <3>4, <3>5, <3>6, <3>7
      DEF Event, ChunkLoad, ChunkChange, ChunkVanish
  <2>2. CASE Handle
    <3>1. CASE Return
      <4>1. /\ session' \in {session, FALSE, enabled /\ ~exhausted} /\ UNCHANGED enabled
            /\ handler = "reload" => session' = FALSE
        BY <3>1, <2>handler, ReturnBecomes DEF Flushing
      <4> QED BY <4>1 DEF RecordsWithConsent
    <3> QED
      BY <2>2, <2>same, <3>1
      DEF Handle, Unreadable, SpoolIsFull, SnapshotFails, Snapshot, Enqueue, Refuse,
          Closing, CloseWaited, CloseStop, CloseInterrupt, CloseReturn
  <2>3. CASE WriterStep
    BY <2>3, <2>same
    DEF WriterStep, Writing, Check, Poll, PollTimeout, PollInterrupted, Activate,
       Settle, SinkReturns, Sink
  <2>4. CASE UNCHANGED vars
    BY <2>4, <2>same DEF vars
  <2> QED BY <2>1, <2>2, <2>3, <2>4 DEF Next
<1> QED BY <1>1, <1>2, TypeCorrect, PTL DEF Spec

(* A snapshot is only offered of a spool that was not full when its handler *)
(* looked.                                                                  *)
THEOREM FullCorrect == Spec => []FullInv
<1>1. Init => FullInv
  BY CapacityAssumption DEF Init, QueueInit, NoWindows, FullInv
<1>2. TypeInv /\ HandlerInv /\ FullInv /\ [Next]_vars => FullInv'
  <2> SUFFICES ASSUME TypeInv, HandlerInv, FullInv, [Next]_vars PROVE FullInv'
    OBVIOUS
  <2> USE DEF queueVars, shared, closeVars, coordinatorVars, tracker, handling, history
  <2>num. Len(queue) \in Nat /\ lost \in Nat /\ Capacity \in Nat
    BY CapacityAssumption DEF TypeInv, QueueInv, Numbers
  <2>same. UNCHANGED <<offering, exhausted, lost, queue, writer>> => FullInv'
    BY DEF FullInv
  <2>1. CASE Event
    <3>1. CASE Flushes
      BY <3>1, <2>same, FlushesBecome
    <3>2. ASSUME NEW c \in Chunk, ChunkLoad(c) PROVE FullInv'
      <4>1. UNCHANGED <<offering, exhausted, lost, queue, writer>>
        BY <3>2 DEF ChunkLoad, Flush, CloseBegin
      <4> QED BY <4>1, <2>same
    <3>3. ASSUME NEW c \in Chunk, ChunkChange(c) PROVE FullInv'
      <4>1. UNCHANGED <<offering, exhausted, lost, queue, writer>>
        BY <3>3 DEF ChunkChange, Flush, CloseBegin
      <4> QED BY <4>1, <2>same
    <3>4. ASSUME NEW c \in Chunk, ChunkUnload(c) PROVE FullInv'
      <4>1. UNCHANGED <<offering, exhausted, lost, queue, writer>>
        BY <3>4 DEF ChunkUnload, Flush, CloseBegin
      <4> QED BY <4>1, <2>same
    <3>5. ASSUME NEW c \in Chunk, ChunkVanish(c) PROVE FullInv'
      <4>1. UNCHANGED <<offering, exhausted, lost, queue, writer>>
        BY <3>5 DEF ChunkVanish, Flush, CloseBegin
      <4> QED BY <4>1, <2>same
    <3>6. ASSUME NEW S \in SUBSET Chunk, EndTick(S) PROVE FullInv'
      <4>1. UNCHANGED <<offering, exhausted, lost, queue, writer>>
        BY <3>6 DEF EndTick, Flush, CloseBegin
      <4> QED BY <4>1, <2>same
    <3> QED BY <2>1, <2>same, <3>1, <3>2, <3>3, <3>4, <3>5, <3>6 DEF Event, Flushes
  <2>2. CASE Handle
    <3>1. ASSUME NEW c \in Chunk, SnapshotFails(c) PROVE FullInv'
      <4>1. offering' = NoJob /\ UNCHANGED <<exhausted, lost, queue, writer>>
        BY <3>1 DEF SnapshotFails, Turn, queueVars
      <4> QED BY <4>1, <2>num DEF FullInv
    <3>2. ASSUME NEW c \in Chunk, Snapshot(c) PROVE FullInv'
      <4>1. ~exhausted /\ lost = 0 /\ UNCHANGED <<exhausted, lost, queue, writer>>
        BY <3>2 DEF Snapshot, queueVars, history, FullInv
      <4>2. Len(queue) \in Nat /\ Len(queue) <= Capacity /\ Capacity \in Nat
        BY CapacityAssumption DEF TypeInv, QueueInv
      <4>3. lost' + Len(queue') + (IF offering' = NoJob THEN 0 ELSE 1)
              + (IF writer' \in {"polled", "sink"} THEN 1 ELSE 0) <= Capacity + 2
        <5>1. lost' = 0 /\ Len(queue') = Len(queue)
          BY <4>1
        <5>2. \A m, n \in {0, 1} : 0 + Len(queue) + m + n <= Capacity + 2
          BY <4>2
        <5>3. /\ (IF offering' = NoJob THEN 0 ELSE 1) \in {0, 1}
            /\ (IF writer' \in {"polled", "sink"} THEN 1 ELSE 0) \in {0, 1}
          OBVIOUS
        <5> QED BY <5>1, <5>2, <5>3
      <4> QED BY <4>1, <4>3 DEF FullInv
    <3>3. ASSUME NEW c \in Chunk, Enqueue(c) PROVE FullInv'
      <4>1. /\ offering = c /\ offering' = NoJob /\ UNCHANGED <<exhausted, lost, writer>>
            /\ queue' = Append(queue, c)
        BY <3>3 DEF Enqueue, Accept
      <4>2. Len(queue') = Len(queue) + 1 /\ Len(queue) \in Nat
        BY <4>1, ChunkAssumption DEF TypeInv, QueueInv
      <4>3. offering # NoJob
        BY <4>1, Apart
      <4> QED BY <4>1, <4>2, <4>3, <2>num DEF FullInv
    <3>4. ASSUME NEW c \in Chunk, Refuse(c) PROVE FullInv'
      <4>1. offering' = NoJob /\ UNCHANGED <<exhausted, lost, queue, writer>>
        BY <3>4 DEF Refuse, Turn, queueVars
      <4> QED BY <4>1, <2>num DEF FullInv
    <3>5. CASE Return
      <4>1. UNCHANGED <<offering, exhausted, lost, queue, writer>>
        BY <3>5, ReturnBecomes
      <4> QED BY <4>1, <2>same
    <3> QED
      BY <2>2, <2>same, <3>1, <3>2, <3>3, <3>4, <3>5
      DEF Handle, Unreadable, SpoolIsFull, Closing, CloseWaited, CloseStop,
          CloseInterrupt, CloseReturn
  <2>3. CASE WriterStep
    <3>1. CASE Writing /\ UNCHANGED coordinatorVars
      <4>1. UNCHANGED <<offering, exhausted, lost>>
        BY <3>1 DEF coordinatorVars, handling, history
      <4>2. CASE Poll
        <5>1. Len(queue') = Len(queue) - 1
          BY <4>2, HeadTailProperties DEF Poll, TypeInv, QueueInv
        <5> QED BY <4>1, <4>2, <5>1, <2>num DEF Poll, FullInv
      <4>3. CASE ~Poll
        <5>1. /\ UNCHANGED queue
              /\ writer' \in {"polled", "sink"} => writer \in {"polled", "sink"}
          BY <3>1, <4>3 DEF Writing, Check, PollTimeout, PollInterrupted, Activate, Settle
        <5> QED BY <4>1, <5>1, <2>num DEF FullInv
      <4> QED BY <4>2, <4>3
    <3>2. ASSUME NEW outcome \in Outcome, SinkReturns(outcome) PROVE FullInv'
      <4>1. UNCHANGED <<offering, queue>> /\ writer = "sink" /\ writer' = "settle"
        BY <3>2 DEF SinkReturns, Sink, handling
      <4>2. \/ UNCHANGED <<exhausted, lost>>
            \/ exhausted' = TRUE /\ lost' = lost + 1
        BY <3>2 DEF SinkReturns, Sink, TypeInv, Handlers
      <4> QED BY <4>1, <4>2, <2>num DEF FullInv
    <3> QED BY <2>3, <2>same, <3>1, <3>2 DEF WriterStep
  <2>4. CASE UNCHANGED vars
    BY <2>4, <2>same DEF vars
  <2> QED BY <2>1, <2>2, <2>3, <2>4 DEF Next
<1> QED BY <1>1, <1>2, TypeCorrect, PTL DEF Spec

(* Once the spool is full, no more jobs fail on it than were under way      *)
(* (LostToFullSpool).                                                       *)
THEOREM LostToFullSpoolCorrect == Spec => []LostToFullSpool
<1>1. TypeInv /\ FullInv => LostToFullSpool
  BY CapacityAssumption DEF FullInv, LostToFullSpool, TypeInv, QueueInv, Numbers
<1> QED BY <1>1, TypeCorrect, FullCorrect, PTL

-----------------------------------------------------------------------------
(* Multiplication: of natural numbers,                                      *)
LEMMA Products ==
  ASSUME NEW m \in Nat, NEW n \in Nat
  PROVE  m * n \in Nat
OBVIOUS

(* a common factor cancels,                                                 *)
LEMMA Factor ==
  ASSUME NEW x \in Int, NEW y \in Int, NEW n \in Nat \ {0}, x * n < y * n
  PROVE  x < y
<1>1. SUFFICES ASSUME y <= x PROVE FALSE
  OBVIOUS
<1>2. (x - y) * n >= 0
  BY <1>1, Products
<1>3. x * n = y * n + (x - y) * n
  OBVIOUS
<1> QED BY <1>2, <1>3

(* and one more time.                                                       *)
LEMMA OneMore ==
  ASSUME NEW a \in Int, NEW n \in Nat
  PROVE  (a + 1) * n = a * n + n /\ a * n \in Int
OBVIOUS

(* The chunks before a window can be counted,                               *)
LEMMA BehindCount ==
  ASSUME NEW f, NEW c
  PROVE  /\ IsFiniteSet(Behind(f, c)) /\ Cardinality(Behind(f, c)) \in Nat
         /\ IsFiniteSet(Behind(f, c)') /\ Cardinality(Behind(f, c)') \in Nat
<1>1. Behind(f, c) \subseteq Chunk /\ Behind(f, c)' \subseteq Chunk
  BY DEF Behind, Dirty
<1> QED BY <1>1, ChunkAssumption, FS_Subset, FS_CardinalityType

(* and its own is not one of them.                                          *)
LEMMA BehindFewer ==
  ASSUME NEW c \in Chunk, NEW f \in Nat, c \notin Dirty \/ dirty[c].first = f
  PROVE  Cardinality(Behind(f, c)) <= Cardinality(Chunk) - 1
<1>1. Behind(f, c) \subseteq Chunk \ {c}
  BY ChunkAssumption DEF Behind, Dirty
<1>2. IsFiniteSet(Chunk \ {c}) /\ Cardinality(Chunk \ {c}) = Cardinality(Chunk) - 1
  BY ChunkAssumption, FS_RemoveElement
<1> QED BY <1>1, <1>2, FS_Subset
(* A window begins with the change that made it dirty, and keeps its        *)
(* beginning while it is prolonged, claimed and put back.                   *)
THEOREM OldCorrect == Spec => []OldInv
<1>1. Init => OldInv
  BY DEF Init, QueueInit, NoWindows, OldInv, Unseen, Dirty, InHand
<1>2. TypeInv /\ HandlerInv /\ SeenInv /\ OldInv /\ [Next]_vars => OldInv'
  <2> SUFFICES ASSUME TypeInv, HandlerInv, SeenInv, OldInv, [Next]_vars PROVE OldInv'
    OBVIOUS
  <2> USE DEF queueVars, shared, closeVars, coordinatorVars, tracker, handling, history
  <2>all. Dirty \in SUBSET Chunk
    BY DEF Dirty
  <2>idle. ClientIdle => InHand = {}
    BY DEF HandlerInv, ClientIdle
  <2>handler. handler \in {"none", "tick", "unload"} \cup Flushing
    BY DEF TypeInv, Handlers
  <2>tick. tick \in Nat /\ tick <= tick
    BY TimingAssumption DEF TypeInv, Numbers
  <2>same. UNCHANGED <<dirty, claims, tick, unseen>> => OldInv'
    BY DEF OldInv, Unseen, Dirty, InHand
  <2>1. CASE Event
    <3>1. CASE Flushes
      <4>1. CASE session
        <5>1. CASE Claim(Dirty) /\ UNCHANGED <<tick, unseen>> /\ InHand = {}
          BY <5>1, <2>all, ClaimBecomes DEF OldInv, Unseen, Dirty, InHand
        <5> QED BY <3>1, <4>1, <5>1, <2>same, FlushesBecome
      <4>2. CASE ~session
        <5>1. /\ Dirty = {}
              /\ InHand = {}
              /\ Unseen = {}
              /\ UNCHANGED <<claims, unseen>>
              /\ dirty' \in {dirty, NoWindows}
          BY <3>1, <4>2, FlushesBecome DEF SeenInv, NothingForgotten
        <5> QED BY <5>1 DEF OldInv, Unseen, Dirty, InHand, NoWindows
      <4> QED BY <4>1, <4>2
    <3>2. ASSUME NEW c \in Chunk, ChunkLoad(c) PROVE OldInv'
      <4>1. ASSUME Mark(c), UNCHANGED <<tick, claims>>, InHand = {} PROVE OldInv'
        <5>1. Mark(c) /\ UNCHANGED <<tick, claims>> /\ InHand = {}
          BY <4>1
        <5>2. \A d \in Dirty' : dirty'[d].first <= tick
          BY <5>1, <2>tick, MarkBecomes DEF OldInv, Dirty
        <5>3. \A d \in Unseen' : d \in Dirty' => dirty'[d].first <= unseen'[d]
          <6>1. CASE unseen[c] = Clean
            BY <5>1, <5>2, <6>1, MarkBecomes DEF OldInv, Unseen, Dirty
          <6>2. CASE unseen[c] # Clean
            <7>1. c \in Dirty
              BY <5>1, <6>2 DEF SeenInv, NothingForgotten, Unseen
            <7> QED BY <5>1, <6>2, <7>1, MarkBecomes DEF OldInv, Unseen, Dirty
          <6> QED BY <6>1, <6>2
        <5> QED BY <5>1, <5>2, <5>3 DEF OldInv, InHand
      <4>2. CASE session
        BY <3>2, <4>1, <4>2, <2>idle DEF ChunkLoad, handling
      <4>3. CASE ~session
        BY <3>2, <4>3, <2>same DEF ChunkLoad, tracker, handling
      <4> QED BY <4>2, <4>3
    <3>3. ASSUME NEW c \in Chunk, ChunkChange(c) PROVE OldInv'
      <4>1. ASSUME Mark(c), UNCHANGED <<tick, claims>>, InHand = {} PROVE OldInv'
        <5>1. Mark(c) /\ UNCHANGED <<tick, claims>> /\ InHand = {}
          BY <4>1
        <5>2. \A d \in Dirty' : dirty'[d].first <= tick
          BY <5>1, <2>tick, MarkBecomes DEF OldInv, Dirty
        <5>3. \A d \in Unseen' : d \in Dirty' => dirty'[d].first <= unseen'[d]
          <6>1. CASE unseen[c] = Clean
            BY <5>1, <5>2, <6>1, MarkBecomes DEF OldInv, Unseen, Dirty
          <6>2. CASE unseen[c] # Clean
            <7>1. c \in Dirty
              BY <5>1, <6>2 DEF SeenInv, NothingForgotten, Unseen
            <7> QED BY <5>1, <6>2, <7>1, MarkBecomes DEF OldInv, Unseen, Dirty
          <6> QED BY <6>1, <6>2
        <5> QED BY <5>1, <5>2, <5>3 DEF OldInv, InHand
      <4> QED BY <3>3, <4>1, <2>idle DEF ChunkChange, handling
    <3>4. ASSUME NEW c \in Chunk, ChunkUnload(c) PROVE OldInv'
      <4>1. CASE session /\ c \in Dirty
        <5>1. Claim({c}) /\ UNCHANGED <<tick, unseen>>
          BY <3>4, <4>1 DEF ChunkUnload, history
        <5>2. InHand = {}
          BY <3>4, <2>idle DEF ChunkUnload
        <5> QED BY <4>1, <5>1, <5>2, ClaimBecomes DEF OldInv, Unseen, Dirty, InHand
      <4>2. CASE ~(session /\ c \in Dirty)
        BY <3>4, <4>2, <2>same DEF ChunkUnload, handling, history
      <4> QED BY <4>1, <4>2
    <3>5. ASSUME NEW c \in Chunk, ChunkVanish(c) PROVE OldInv'
      <4>1. Seen(c) /\ UNCHANGED <<dirty, claims, tick>>
        BY <3>5 DEF ChunkVanish, tracker, handling
      <4> QED BY <4>1, SeenBecomes DEF OldInv, Unseen, Dirty, InHand
    <3>6. ASSUME NEW S \in SUBSET Chunk, EndTick(S) PROVE OldInv'
      <4>1. S \in SUBSET Chunk /\ Claim(S) /\ tick' = tick + 1 /\ UNCHANGED unseen
        BY <3>6 DEF EndTick, history
      <4>2. InHand = {}
        BY <3>6, <2>idle DEF EndTick
      <4>3. \A m \in Nat : m <= tick => m <= tick'
        BY <4>1, <2>tick
      <4>4. \A c \in Dirty : dirty[c].first \in Nat
        BY TimingAssumption DEF Dirty, TypeInv, Windows, Window
      <4> QED BY <4>1, <4>2, <4>3, <4>4, ClaimBecomes DEF OldInv, Unseen, Dirty, InHand
    <3> QED BY <2>1, <2>same, <3>1, <3>2, <3>3, <3>4, <3>5, <3>6 DEF Event, Flushes
  <2>2. CASE Handle
    <3>1. ASSUME NEW c \in Chunk, Unreadable(c) PROVE OldInv'
      <4>1. c \in InHand /\ dirty[c] = Clean
        BY <3>1 DEF Unreadable, Turn, HandlerInv, Dirty, InHand
      <4>2. UNCHANGED <<dirty, tick>> /\ Dealt(c) /\ (UNCHANGED unseen \/ Seen(c))
        <5>1. [dirty EXCEPT ![c] = Clean] = dirty
          BY <4>1 DEF TypeInv, Windows
        <5> QED BY <3>1, <5>1 DEF Unreadable, tracker
      <4> QED BY <4>1, <4>2, DealtBecomes, SeenBecomes DEF OldInv, Unseen, Dirty, InHand
    <3>2. ASSUME NEW c \in Chunk, SpoolIsFull(c) PROVE OldInv'
      <4>1. Dealt(c) /\ Seen(c) /\ UNCHANGED <<dirty, tick>>
        BY <3>2 DEF SpoolIsFull, tracker
      <4> QED BY <4>1, DealtBecomes, SeenBecomes DEF OldInv, Unseen, Dirty, InHand
    <3>3. ASSUME NEW c \in Chunk, SnapshotFails(c) PROVE OldInv'
      <4>1. c \in InHand
        BY <3>3, Apart DEF SnapshotFails, Turn, HandlerInv
      <4>2. UNCHANGED tick /\ Dealt(c) /\ KeepOrDrop(c)
        BY <3>3 DEF SnapshotFails, Turn
      <4>3. CASE handler = "tick"
        BY <4>1, <4>2, <4>3, DealtBecomes, KeepOrDropBecomes
        DEF OldInv, Unseen, Dirty, InHand
      <4>4. CASE handler # "tick"
        BY <4>1, <4>2, <4>4, DealtBecomes, KeepOrDropBecomes
        DEF OldInv, Unseen, Dirty, InHand
      <4> QED BY <4>3, <4>4
    <3>4. ASSUME NEW c \in Chunk, Enqueue(c) PROVE OldInv'
      <4>1. Dealt(c) /\ Seen(c) /\ UNCHANGED <<dirty, tick>>
        BY <3>4 DEF Enqueue, tracker
      <4> QED BY <4>1, DealtBecomes, SeenBecomes DEF OldInv, Unseen, Dirty, InHand
    <3>5. ASSUME NEW c \in Chunk, Refuse(c) PROVE OldInv'
      <4>1. c \in InHand
        BY <3>5, Apart DEF Refuse, Turn, HandlerInv
      <4>2. UNCHANGED tick /\ Dealt(c) /\ KeepOrDrop(c)
        BY <3>5 DEF Refuse, Turn
      <4>3. CASE handler = "tick"
        BY <4>1, <4>2, <4>3, DealtBecomes, KeepOrDropBecomes
        DEF OldInv, Unseen, Dirty, InHand
      <4>4. CASE handler # "tick"
        BY <4>1, <4>2, <4>4, DealtBecomes, KeepOrDropBecomes
        DEF OldInv, Unseen, Dirty, InHand
      <4> QED BY <4>3, <4>4
    <3>6. CASE Return
      <4>1. InHand = {} /\ UNCHANGED <<claims, unseen>>
        BY <3>6, ReturnBecomes
      <4>2. CASE handler \in {"tick", "unload"}
        <5>1. UNCHANGED <<tick, dirty>>
          BY <3>6, <4>2, ReturnBecomes
        <5> QED BY <4>1, <5>1, <2>same
      <4>3. CASE handler \in Flushing
        <5>1. dirty' = NoWindows
          BY <3>6, <4>3, ReturnBecomes
        <5> QED BY <4>1, <5>1 DEF OldInv, Unseen, Dirty, InHand, NoWindows
      <4> QED BY <3>6, <2>handler, <4>2, <4>3, ReturnBecomes
    <3> QED
      BY <2>2, <2>same, <3>1, <3>2, <3>3, <3>4, <3>5, <3>6
      DEF Handle, Snapshot, Closing, CloseWaited, CloseStop, CloseInterrupt, CloseReturn
  <2>3. CASE WriterStep
    BY <2>3, <2>same
    DEF WriterStep, Writing, Check, Poll, PollTimeout, PollInterrupted, Activate,
       Settle, SinkReturns, Sink
  <2>4. CASE UNCHANGED vars
    BY <2>4, <2>same DEF vars
  <2> QED BY <2>1, <2>2, <2>3, <2>4 DEF Next
<1> QED BY <1>1, <1>2, TypeCorrect, SeenCorrect, PTL DEF Spec

(* The numbers in what follows.                                             *)
LEMMA WindowsTyped ==
  ASSUME TypeInv
  PROVE  /\ tick \in Nat /\ retries \in Nat
         /\ MaxLatency \in Nat \ {0} /\ MaxSnapshots \in Nat \ {0}
         /\ \A c \in Dirty : c \in Chunk /\ dirty[c] \in Window /\ dirty[c].first \in Nat
         /\ \A c \in InHand : c \in Chunk /\ claims[c] \in Window /\ claims[c].first \in Nat
BY TimingAssumption DEF TypeInv, Numbers, Windows, Dirty, InHand, Window

(* The turns and the budget are numbers.                                    *)
LEMMA CountsAreIntegers ==
  ASSUME TypeInv, TypeInv', NEW f \in Nat
  PROVE  /\ Waited(f) \in Int /\ Waited(f)' \in Int
         /\ Budget \in Int /\ Budget' \in Int /\ Cardinality(Chunk) \in Nat
<1>1. /\ tick \in Nat /\ tick' \in Nat /\ retries \in Nat /\ retries' \in Nat
      /\ MaxLatency \in Nat /\ MaxSnapshots \in Nat
  BY TimingAssumption DEF TypeInv, Numbers
<1>2. Cardinality(Chunk) \in Nat
  BY ChunkAssumption, FS_CardinalityType
<1>3. /\ (tick - f - MaxLatency) * MaxSnapshots \in Int
      /\ (tick' - f - MaxLatency) * MaxSnapshots \in Int
  BY <1>1
<1>4. retries * MaxSnapshots \in Int /\ retries' * MaxSnapshots \in Int
  BY <1>1
<1> QED BY <1>2, <1>3, <1>4 DEF Waited, Budget

(* Windows that end or stay keep the bound,                                 *)
LEMMA Fewer ==
  ASSUME TypeInv, TypeInv', LatencyInv, UNCHANGED <<tick, retries>>,
         \A c \in Chunk : dirty'[c] \in {dirty[c], Clean},
         handler' = "tick" =>
           handler = "tick" /\ \A c \in Chunk : claims'[c] \in {claims[c], Clean}
  PROVE  LatencyInv'
<1>1. \A f, c : Behind(f, c)' \subseteq Behind(f, c)
  BY DEF Behind, Dirty
<1>2. \A f, c : /\ Cardinality(Behind(f, c)') <= Cardinality(Behind(f, c))
                /\ Cardinality(Behind(f, c)') \in Nat /\ Cardinality(Behind(f, c)) \in Nat
  BY <1>1, BehindCount, FS_Subset
<1>3. /\ \A f \in Nat : Waited(f)' = Waited(f) /\ Waited(f) \in Int
      /\ Budget' = Budget /\ Budget \in Int
  BY CountsAreIntegers DEF Waited, Budget
<1>4. ASSUME NEW f \in Nat, NEW c
      PROVE  (Waiting(f, c) => Waiting(f, c)') /\ (Claimed(f, c) => Claimed(f, c)')
  BY <1>2, <1>3, WindowsTyped DEF Waiting, Claimed
<1>5. /\ \A c \in Dirty' : c \in Dirty /\ dirty'[c] = dirty[c]
      /\ handler' = "tick" => /\ handler = "tick"
                            /\ \A c \in InHand' : c \in InHand /\ claims'[c] = claims[c]
  BY DEF Dirty, InHand
<1> QED BY <1>4, <1>5, WindowsTyped DEF LatencyInv

(* and so do those that begin or are prolonged: none of them is before one  *)
(* that is due,                                                             *)
LEMMA Marked ==
  ASSUME TypeInv, TypeInv', LatencyInv, OldInv, NEW c \in Chunk, Mark(c),
         UNCHANGED <<tick, retries>>, handler' # "tick"
  PROVE  LatencyInv'
<1>1. /\ \A d \in Chunk \ {c} : dirty'[d] = dirty[d]
      /\ dirty'[c] # Clean
      /\ dirty'[c].first = IF dirty[c] = Clean THEN tick ELSE dirty[c].first
  BY MarkBecomes, Apart
<1>2. ASSUME NEW f \in Nat, tick - f >= MaxLatency, NEW d PROVE Behind(f, d)' = Behind(f, d)
  <2>1. tick \in Nat /\ ~(tick < f) /\ tick # f
    BY <1>2, WindowsTyped
  <2> QED BY <1>1, <2>1 DEF Behind, Dirty
<1>3. \A f \in Nat : Waited(f)' = Waited(f) /\ Budget' = Budget
  BY DEF Waited, Budget
<1>4. ASSUME NEW f \in Nat, NEW d, Waiting(f, d) PROVE Waiting(f, d)'
  BY <1>2, <1>3, <1>4 DEF Waiting
<1>5. ASSUME NEW d \in Dirty' PROVE Waiting(dirty[d].first, d)'
  <2>1. CASE d \in Dirty
    <3>1. dirty'[d].first = dirty[d].first /\ dirty[d].first \in Nat
      BY <1>1, <2>1, WindowsTyped DEF Dirty
    <3>2. \A f \in Nat : f = dirty[d].first => Waiting(f, d)'
      BY <1>4, <2>1 DEF LatencyInv
    <3> QED BY <3>1, <3>2
  <2>2. CASE d \notin Dirty
    <3>1. dirty'[d].first = tick
      BY <1>1, <1>5, <2>2 DEF Dirty
    <3>2. ~(tick' - dirty'[d].first >= MaxLatency)
      BY <3>1, WindowsTyped
    <3> QED BY <3>2 DEF Waiting
  <2> QED BY <2>1, <2>2
<1> QED BY <1>5 DEF LatencyInv

(* and so do those put back: each adds one chunk before the others, and its *)
(* own turn.                                                                *)
LEMMA PutBack ==
  ASSUME TypeInv, TypeInv', HandlerInv, LatencyInv, NEW c \in InHand, handler = "tick",
         KeepOrDrop(c), Dealt(c), UNCHANGED tick
  PROVE  LatencyInv'
<1>1. /\ dirty'[c] = IF c \in loaded THEN claims[c] ELSE Clean
      /\ dirty[c] = Clean /\ retries' = retries + 1
      /\ \A d \in Chunk \ {c} : dirty'[d] = dirty[d]
      /\ claims'[c] = Clean /\ \A d \in Chunk \ {c} : claims'[d] = claims[d]
  BY KeepOrDropBecomes, DealtBecomes DEF HandlerInv, Dirty, InHand
<1>2. \A f, d : /\ Behind(f, d)' \subseteq Behind(f, d) \cup {c}
                /\ (f = claims[c].first /\ d = c) => Behind(f, d)' \subseteq Behind(f, d)
  <2>1. \A e \in Dirty' : e # c => e \in Dirty /\ dirty'[e] = dirty[e]
    BY <1>1 DEF Dirty
  <2>2. c \in Dirty' => dirty'[c] = claims[c]
    BY <1>1 DEF Dirty
  <2>3. c \in Nat /\ claims[c].first \in Nat
    BY ChunkAssumption, WindowsTyped
  <2> QED BY <2>1, <2>2, <2>3 DEF Behind
<1>3. ASSUME NEW f, NEW d
      PROVE  /\ Cardinality(Behind(f, d)') <= Cardinality(Behind(f, d)) + 1
             /\ (f = claims[c].first /\ d = c) =>
                  Cardinality(Behind(f, d)') <= Cardinality(Behind(f, d))
             /\ Cardinality(Behind(f, d)') \in Nat /\ Cardinality(Behind(f, d)) \in Nat
  <2>1. /\ IsFiniteSet(Behind(f, d))
        /\ Cardinality(Behind(f, d)) \in Nat
        /\ Cardinality(Behind(f, d)') \in Nat
    BY BehindCount
  <2>2. /\ IsFiniteSet(Behind(f, d) \cup {c})
        /\ Cardinality(Behind(f, d) \cup {c}) <= Cardinality(Behind(f, d)) + 1
    BY <2>1, FS_AddElement
  <2>3. /\ Cardinality(Behind(f, d)') <= Cardinality(Behind(f, d) \cup {c})
        /\ Cardinality(Behind(f, d) \cup {c}) \in Nat
    BY <1>2, <2>2, FS_Subset, FS_CardinalityType
  <2>4. (f = claims[c].first /\ d = c) =>
          Cardinality(Behind(f, d)') <= Cardinality(Behind(f, d))
    BY <1>2, <2>1, FS_Subset
  <2> QED BY <2>1, <2>2, <2>3, <2>4
<1>4. \A f \in Nat : /\ Waited(f)' = Waited(f) /\ Waited(f) \in Int
                     /\ Budget' = Budget + MaxSnapshots /\ Budget \in Int
  <2>1. Budget' = Budget + MaxSnapshots
    <3>1. /\ (retries + 1) * MaxSnapshots = retries * MaxSnapshots + MaxSnapshots
          /\ retries * MaxSnapshots \in Int
      BY OneMore, WindowsTyped
    <3>2. Cardinality(Chunk) \in Nat
      BY ChunkAssumption, FS_CardinalityType
    <3> QED BY <1>1, <3>1, <3>2, WindowsTyped DEF Budget
  <2> QED BY <2>1, CountsAreIntegers DEF Waited
<1>5. ASSUME NEW f \in Nat, NEW d
      PROVE  /\ Waiting(f, d) => Waiting(f, d)'
             /\ Claimed(f, d) => Claimed(f, d)'
             /\ (f = claims[c].first /\ d = c /\ Claimed(f, d)) => Waiting(f, d)'
  <2>1. MaxSnapshots \in Nat \ {0} /\ tick' = tick
    BY WindowsTyped
  <2> QED BY <1>3, <1>4, <2>1 DEF Waiting, Claimed
<1>6. ASSUME NEW d \in Dirty' PROVE Waiting(dirty[d].first, d)'
  <2>1. CASE d = c
    <3>1. dirty'[d] = claims[c] /\ claims[c].first \in Nat
      BY <1>1, <1>6, <2>1, WindowsTyped DEF Dirty
    <3>2. \A f \in Nat : f = claims[c].first => Waiting(f, d)'
      BY <1>5, <2>1 DEF LatencyInv
    <3> QED BY <3>1, <3>2
  <2>2. CASE d # c
    <3>1. d \in Dirty /\ dirty'[d] = dirty[d] /\ dirty[d].first \in Nat
      BY <1>1, <1>6, <2>2, WindowsTyped DEF Dirty
    <3>2. \A f \in Nat : f = dirty[d].first => Waiting(f, d)'
      BY <1>5, <3>1 DEF LatencyInv
    <3> QED BY <3>1, <3>2
  <2> QED BY <2>1, <2>2
<1>7. ASSUME NEW d \in InHand' PROVE Claimed(claims[d].first, d)'
  <2>1. d \in InHand /\ claims'[d] = claims[d] /\ claims[d].first \in Nat
    BY <1>1, <1>7, WindowsTyped DEF InHand
  <2>2. \A f \in Nat : f = claims[d].first => Claimed(f, d)'
    BY <1>5, <2>1 DEF LatencyInv
  <2> QED BY <2>1, <2>2
<1> QED BY <1>6, <1>7 DEF LatencyInv

(* A tick that leaves a due window claims MaxSnapshots of those before it.  *)
LEMMA TickPasses ==
  ASSUME TypeInv, TypeInv', HandlerInv, LatencyInv, NEW S \in SUBSET Chunk, EndTick(S)
  PROVE  LatencyInv'
<1>1. Claim(S) /\ MayClaim(S, tick + 1) /\ tick' = tick + 1 /\ retries' = retries
  BY DEF EndTick, history
<1>2. /\ S \subseteq Dirty
      /\ \A c \in S : claims'[c] = dirty[c] /\ dirty'[c] = Clean
      /\ \A c \in Chunk \ S : claims'[c] = Clean /\ dirty'[c] = dirty[c]
  BY <1>1, ClaimBecomes DEF MayClaim, Due
<1>3. \A f, c : Behind(f, c)' = Behind(f, c) \ S
  BY <1>2 DEF Behind, Dirty
<1>4. \A f, c : /\ Cardinality(Behind(f, c)') <= Cardinality(Behind(f, c))
                /\ Cardinality(Behind(f, c)') \in Nat /\ Cardinality(Behind(f, c)) \in Nat
  BY <1>3, BehindCount, FS_Subset
<1>5. \A f \in Nat : /\ Waited(f)' = Waited(f) + MaxSnapshots /\ Waited(f) \in Int
                     /\ tick - f < MaxLatency /\ tick' - f >= MaxLatency => Waited(f)' = 0
  <2> TAKE f \in Nat
  <2>1. /\ tick - f - MaxLatency \in Int
        /\ tick' - f - MaxLatency = (tick - f - MaxLatency) + 1
    BY <1>1, WindowsTyped
  <2>2. Waited(f)' = Waited(f) + MaxSnapshots /\ Waited(f) \in Int
    BY <2>1, OneMore, WindowsTyped DEF Waited
  <2>3. ASSUME tick - f < MaxLatency, tick' - f >= MaxLatency PROVE Waited(f)' = 0
    <3>1. tick' - f - MaxLatency = 0
      BY <1>1, <2>3, WindowsTyped
    <3> QED BY <3>1, WindowsTyped DEF Waited
  <2> QED BY <2>2, <2>3
<1>6. Budget' = Budget /\ Budget \in Int /\ Cardinality(Chunk) - 1 <= Budget
  <2>1. retries * MaxSnapshots \in Nat
    BY Products, WindowsTyped
  <2>2. Cardinality(Chunk) \in Nat
    BY ChunkAssumption, FS_CardinalityType
  <2> QED BY <1>1, <2>1, <2>2 DEF Budget
<1>7. ASSUME NEW c \in Dirty
      PROVE  Cardinality(Behind(dirty[c].first, c)) <= Cardinality(Chunk) - 1
  BY BehindFewer, WindowsTyped
<1>8. ASSUME NEW c \in Dirty' PROVE Waiting(dirty[c].first, c)'
  <2>1. c \in Dirty /\ c \notin S /\ dirty'[c] = dirty[c]
    BY <1>2, <1>8 DEF Dirty
  <2>2. PICK f \in Nat : f = dirty[c].first
    BY <2>1, WindowsTyped
  <2>3. SUFFICES ASSUME tick' - f >= MaxLatency
                 PROVE  Waited(f)' + MaxSnapshots + Cardinality(Behind(f, c)') <= Budget'
    BY <2>1, <2>2 DEF Waiting
  <2>4. c \in Due(tick + 1)
    BY <1>1, <2>1, <2>2, <2>3 DEF Due
  <2>5. Cardinality(S) = MaxSnapshots /\ \A d \in S : Older(dirty, d, c)
    BY <1>1, <2>1, <2>4 DEF MayClaim
  <2>6. S \subseteq Behind(f, c)
    BY <1>2, <2>2, <2>5 DEF Older, Behind
  <2>7. Cardinality(Behind(f, c)') = Cardinality(Behind(f, c)) - MaxSnapshots
    <3>1. Behind(f, c) \cap S = S
      BY <2>6
    <3>2. IsFiniteSet(Behind(f, c))
      BY BehindCount
    <3>3. Cardinality(Behind(f, c) \ S) = Cardinality(Behind(f, c)) - Cardinality(S)
      BY <3>1, <3>2, FS_Difference
    <3> QED BY <1>3, <2>5, <3>3
  <2>8. CASE tick - f >= MaxLatency
    <3>1. Waited(f) + MaxSnapshots + Cardinality(Behind(f, c)) <= Budget
      BY <2>1, <2>2, <2>8 DEF LatencyInv, Waiting
    <3> QED BY <1>4, <1>5, <1>6, <2>7, <3>1, WindowsTyped
  <2>9. CASE ~(tick - f >= MaxLatency)
    <3>1. Waited(f)' = 0
      BY <1>5, <2>3, <2>9, WindowsTyped
    <3>2. Cardinality(Behind(f, c)) <= Cardinality(Chunk) - 1 /\ Cardinality(Chunk) \in Nat
      BY <1>7, <2>1, <2>2, ChunkAssumption, FS_CardinalityType
    <3> QED BY <1>4, <1>6, <2>7, <3>1, <3>2, WindowsTyped
  <2> QED BY <2>8, <2>9
<1>9. ASSUME NEW c \in InHand' PROVE Claimed(claims[c].first, c)'
  <2>1. c \in S /\ c \in Dirty /\ claims'[c] = dirty[c]
    BY <1>2, <1>9 DEF InHand
  <2>2. PICK f \in Nat : f = dirty[c].first
    BY <2>1, WindowsTyped
  <2>3. SUFFICES ASSUME tick' - f >= MaxLatency
                 PROVE  Waited(f)' + Cardinality(Behind(f, c)') <= Budget'
    BY <2>1, <2>2 DEF Claimed
  <2>4. CASE tick - f >= MaxLatency
    <3>1. Waited(f) + MaxSnapshots + Cardinality(Behind(f, c)) <= Budget
      BY <2>1, <2>2, <2>4 DEF LatencyInv, Waiting
    <3> QED BY <1>4, <1>5, <1>6, <3>1, WindowsTyped
  <2>5. CASE ~(tick - f >= MaxLatency)
    <3>1. Waited(f)' = 0
      BY <1>5, <2>3, <2>5, WindowsTyped
    <3>2. Cardinality(Behind(f, c)) <= Cardinality(Chunk) - 1 /\ Cardinality(Chunk) \in Nat
      BY <1>7, <2>1, <2>2, ChunkAssumption, FS_CardinalityType
    <3> QED BY <1>4, <1>6, <3>1, <3>2
  <2> QED BY <2>4, <2>5
<1> QED BY <1>8, <1>9 DEF LatencyInv

(* The bound holds at every step.                                           *)
THEOREM LatencyCorrect == Spec => []LatencyInv
<1>1. Init => LatencyInv
  BY DEF Init, QueueInit, NoWindows, LatencyInv, Dirty
<1>2. TypeInv /\ HandlerInv /\ SeenInv /\ OldInv /\ LatencyInv /\ [Next]_vars => LatencyInv'
  <2> SUFFICES ASSUME TypeInv, HandlerInv, SeenInv, OldInv, LatencyInv, [Next]_vars
               PROVE  LatencyInv'
    OBVIOUS
  <2> USE DEF queueVars, shared, closeVars, coordinatorVars, tracker, handling, history
  <2>all. Dirty \in SUBSET Chunk
    BY DEF Dirty
  <2>typed. TypeInv'
    BY TypePreserved
  <2>handler. handler \in {"none", "tick", "unload"} \cup Flushing
    BY DEF TypeInv, Handlers
  <2>less. ASSUME UNCHANGED <<tick, retries, dirty>>,
                  \/ handler' # "tick"
                  \/ UNCHANGED handler /\ \A c \in Chunk : claims'[c] \in {claims[c], Clean}
           PROVE  LatencyInv'
    BY <2>less, <2>typed, Fewer
  <2>same. UNCHANGED <<dirty, claims, tick, retries, handler>> => LatencyInv'
    BY <2>less
  <2>1. CASE Event
    <3>1. CASE Flushes
      <4>1. handler' # "tick" /\ (Dirty' = {} \/ UNCHANGED <<tick, retries, dirty>>)
        BY <3>1, FlushesBecome, ClaimBecomes DEF Flushing, SeenInv, Dirty, NoWindows
      <4>2. CASE Dirty' = {}
        BY <4>1, <4>2 DEF LatencyInv
      <4> QED BY <4>1, <4>2, <2>less
    <3>2. ASSUME NEW c \in Chunk, ChunkLoad(c) PROVE LatencyInv'
      <4>1. UNCHANGED <<tick, retries>> /\ handler' # "tick"
        BY <3>2 DEF ChunkLoad, ClientIdle, handling
      <4>2. CASE session
        <5>1. Mark(c)
          BY <3>2, <4>2 DEF ChunkLoad
        <5> QED BY <4>1, <5>1, <2>typed, Marked
      <4>3. CASE ~session
        BY <3>2, <4>1, <4>3, <2>less DEF ChunkLoad, tracker
      <4> QED BY <4>2, <4>3
    <3>3. ASSUME NEW c \in Chunk, ChunkChange(c) PROVE LatencyInv'
      <4>1. UNCHANGED <<tick, retries>> /\ handler' # "tick" /\ Mark(c)
        BY <3>3 DEF ChunkChange, ClientIdle, handling
      <4> QED BY <4>1, <2>typed, Marked
    <3>4. ASSUME NEW c \in Chunk, ChunkUnload(c) PROVE LatencyInv'
      <4>1. handler' # "tick" /\ UNCHANGED <<tick, retries>> /\ (Claim({c}) \/ UNCHANGED dirty)
        BY <3>4 DEF ChunkUnload, ClientIdle, handling, history
      <4>2. CASE Claim({c})
        <5>1. \A d \in Chunk : dirty'[d] \in {dirty[d], Clean}
          BY <4>2, ClaimBecomes
        <5> QED BY <4>1, <5>1, <2>typed, Fewer
      <4> QED BY <4>1, <4>2, <2>less
    <3>5. ASSUME NEW S \in SUBSET Chunk, EndTick(S) PROVE LatencyInv'
      BY <3>5, <2>typed, TickPasses
    <3> QED BY <2>1, <2>same, <3>1, <3>2, <3>3, <3>4, <3>5 DEF Event, Flushes, ChunkVanish
  <2>2. CASE Handle
    <3>1. ASSUME NEW c \in Chunk, Unreadable(c) PROVE LatencyInv'
      <4>1. c \in InHand /\ dirty[c] = Clean
        BY <3>1 DEF Unreadable, Turn, HandlerInv, Dirty, InHand
      <4>2. UNCHANGED <<dirty, tick, retries, handler>> /\ Dealt(c)
        <5>1. [dirty EXCEPT ![c] = Clean] = dirty
          BY <4>1 DEF TypeInv, Windows
        <5> QED BY <3>1, <5>1 DEF Unreadable, tracker
      <4> QED BY <4>2, <2>less, DealtBecomes
    <3>2. ASSUME NEW c \in Chunk, SpoolIsFull(c) PROVE LatencyInv'
      <4>1. Dealt(c) /\ UNCHANGED <<dirty, tick, retries, handler>>
        BY <3>2 DEF SpoolIsFull, tracker
      <4> QED BY <4>1, DealtBecomes, <2>less
    <3>3. ASSUME NEW c \in Chunk, SnapshotFails(c) PROVE LatencyInv'
      <4>1. c \in InHand
        BY <3>3, Apart DEF SnapshotFails, Turn, HandlerInv
      <4>2. UNCHANGED <<tick, handler>> /\ Dealt(c) /\ KeepOrDrop(c)
        BY <3>3 DEF SnapshotFails, Turn
      <4>3. CASE handler = "tick"
        BY <4>1, <4>2, <4>3, <2>typed, PutBack
      <4>4. CASE handler # "tick"
        <5>1. UNCHANGED <<dirty, retries>>
          BY <4>1, <4>2, <4>4, KeepOrDropBecomes
        <5> QED BY <4>2, <4>4, <5>1, <2>less
      <4> QED BY <4>3, <4>4
    <3>4. ASSUME NEW c \in Chunk, Enqueue(c) PROVE LatencyInv'
      <4>1. Dealt(c) /\ UNCHANGED <<dirty, tick, retries, handler>>
        BY <3>4 DEF Enqueue, tracker
      <4> QED BY <4>1, DealtBecomes, <2>less
    <3>5. ASSUME NEW c \in Chunk, Refuse(c) PROVE LatencyInv'
      <4>1. c \in InHand
        BY <3>5, Apart DEF Refuse, Turn, HandlerInv
      <4>2. UNCHANGED <<tick, handler>> /\ Dealt(c) /\ KeepOrDrop(c)
        BY <3>5 DEF Refuse, Turn
      <4>3. CASE handler = "tick"
        BY <4>1, <4>2, <4>3, <2>typed, PutBack
      <4>4. CASE handler # "tick"
        <5>1. UNCHANGED <<dirty, retries>>
          BY <4>1, <4>2, <4>4, KeepOrDropBecomes
        <5> QED BY <4>2, <4>4, <5>1, <2>less
      <4> QED BY <4>3, <4>4
    <3>6. CASE Return
      <4>1. handler' # "tick"
        BY <3>6, ReturnBecomes
      <4>2. CASE handler \in {"tick", "unload"}
        <5>1. UNCHANGED <<tick, dirty, retries>>
          BY <3>6, <4>2, ReturnBecomes
        <5> QED BY <4>1, <5>1, <2>less
      <4>3. CASE handler \in Flushing
        <5>1. dirty' = NoWindows
          BY <3>6, <4>3, ReturnBecomes
        <5>2. Dirty' = {}
          BY <5>1 DEF Dirty, NoWindows
        <5> QED BY <4>1, <5>2 DEF LatencyInv
      <4> QED BY <3>6, <2>handler, <4>2, <4>3, ReturnBecomes
    <3> QED
      BY <2>2, <2>same, <3>1, <3>2, <3>3, <3>4, <3>5, <3>6
      DEF Handle, Snapshot, Closing, CloseWaited, CloseStop, CloseInterrupt, CloseReturn
  <2>3. CASE WriterStep
    BY <2>3, <2>same
    DEF WriterStep, Writing, Check, Poll, PollTimeout, PollInterrupted, Activate,
       Settle, SinkReturns, Sink
  <2>4. CASE UNCHANGED vars
    BY <2>4, <2>same DEF vars
  <2> QED BY <2>1, <2>2, <2>3, <2>4 DEF Next
<1> QED BY <1>1, <1>2, TypeCorrect, SeenCorrect, OldCorrect, PTL DEF Spec

(* However the snapshots fail and the queue refuses, a change is unseen no  *)
(* longer than BoundedLatency says.                                         *)
THEOREM BoundedLatencyCorrect == Spec => []BoundedLatency
<1>1. TypeInv /\ HandlerInv /\ SeenInv /\ OldInv /\ LatencyInv => BoundedLatency
  <2> SUFFICES ASSUME TypeInv, HandlerInv, SeenInv, OldInv, LatencyInv, handler = "none",
                      NEW c \in Unseen
               PROVE  tick - unseen[c] <
                         MaxLatency + retries + (Cardinality(Chunk) - 1) \div MaxSnapshots
    BY DEF BoundedLatency
  <2> DEFINE others == Cardinality(Chunk) - 1
             turns == others \div MaxSnapshots
  <2>1. c \in Dirty /\ dirty[c].first <= unseen[c]
    BY DEF HandlerInv, SeenInv, NothingForgotten, OldInv
  <2>2. PICK f \in Nat : f = dirty[c].first
    BY <2>1, WindowsTyped
  <2>3. unseen[c] \in Nat
    BY Apart, TimingAssumption DEF TypeInv, Windows, Unseen
  <2>4. others \in Nat
    <3>1. Cardinality(Chunk) \in Nat /\ Cardinality(Chunk) # 0
      BY <2>1, ChunkAssumption, FS_CardinalityType, FS_EmptySet, WindowsTyped
    <3> QED BY <3>1
  <2>5. turns \in Nat /\ others < (turns + 1) * MaxSnapshots
    BY <2>4, WindowsTyped
  <2>6. SUFFICES tick - f < MaxLatency + retries + turns
    BY <2>1, <2>2, <2>3, <2>5, WindowsTyped
  <2>7. CASE tick - f < MaxLatency
    BY <2>5, <2>7, WindowsTyped
  <2>8. CASE ~(tick - f < MaxLatency)
    <3> DEFINE late == tick - f - MaxLatency
               count == Cardinality(Behind(f, c))
    <3>1. late \in Nat /\ tick - f >= MaxLatency
      BY <2>8, WindowsTyped
    <3>2. late * MaxSnapshots + MaxSnapshots + count <= others + retries * MaxSnapshots
      BY <2>1, <2>2, <3>1 DEF LatencyInv, Waiting, Waited, Budget
    <3>3. /\ (late + 1) * MaxSnapshots = late * MaxSnapshots + MaxSnapshots
          /\ late * MaxSnapshots \in Int /\ retries * MaxSnapshots \in Int
          /\ (turns + 1 + retries) * MaxSnapshots = (turns + 1) * MaxSnapshots + retries * MaxSnapshots
          /\ (turns + 1) * MaxSnapshots \in Int
      BY <2>5, <3>1, OneMore, WindowsTyped
    <3>4. count \in Nat
      BY BehindCount
    <3>5. (late + 1) * MaxSnapshots < (turns + 1 + retries) * MaxSnapshots
      <4> HIDE DEF late, count, turns, others
      <4> QED BY <2>4, <2>5, <3>2, <3>3, <3>4, WindowsTyped
    <3>6. late + 1 < turns + 1 + retries
      <4>1. late + 1 \in Int /\ turns + 1 + retries \in Int /\ MaxSnapshots \in Nat \ {0}
        BY <2>5, <3>1, WindowsTyped
      <4> HIDE DEF late, turns
      <4> QED BY <3>5, <4>1, Factor
    <3> QED BY <2>5, <3>1, <3>6, WindowsTyped
  <2> QED BY <2>5, <2>7, <2>8, WindowsTyped
<1> QED BY <1>1, TypeCorrect, SeenCorrect, OldCorrect, LatencyCorrect, PTL

=============================================================================
