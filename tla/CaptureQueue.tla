----------------------------- MODULE CaptureQueue -----------------------------
(***************************************************************************)
(* The bounded queue between the client thread and the thread that writes  *)
(* captures to the spool (fabric BoundedCaptureQueue).  The client thread  *)
(* offers and closes, the writer polls, hands the job to the sink and      *)
(* settles; each access to shared state is one step.  A job is the chunk   *)
(* it is a snapshot of.                                                    *)
(***************************************************************************)
EXTENDS Naturals, Sequences

CONSTANTS
  Job,
  NoJob,      \* the writer has no job in hand
  Capacity    \* of the queue

ASSUME CapacityAssumption == Capacity \in Nat \ {0}
ASSUME JobAssumption == NoJob \notin Job

VARIABLES
  queue,
  accepting, running, active,  \* the flags the two threads share
  interrupted,                 \* the writer's interrupt flag
  writer,                      \* where the writer is in runWorker
  hand,                        \* the job it has polled
  closing,                     \* where the client thread is in closeGracefully
  drained                      \* what it returned

shared == <<accepting, running, active, interrupted>>
closeVars == <<closing, drained>>
queueVars == <<queue, shared, writer, hand, closeVars>>

Outcome == {"written", "failed", "full", "interrupted"}

QueueTypeOK ==
  /\ queue \in Seq(Job) /\ Len(queue) <= Capacity
  /\ {accepting, running, active, interrupted} \subseteq BOOLEAN
  /\ writer \in {"check", "poll", "polled", "sink", "settle", "dead"}
  /\ hand \in Job \cup {NoJob}
  /\ closing \in {"open", "waiting", "stopping", "interrupting", "joining", "closed"}
  /\ drained \in BOOLEAN

QueueInit ==
  /\ queue = <<>>
  /\ accepting = TRUE /\ running = TRUE /\ active = FALSE /\ interrupted = FALSE
  /\ writer = "check"
  /\ hand = NoJob
  /\ closing = "open"
  /\ drained = FALSE

-----------------------------------------------------------------------------
(* Faulty variants: each is the action it is named after with the mistake    *)
(* its comment names, and breaks the property named there.                  *)

(* A queue that does not refuse: TypeOK.                                    *)
AlwaysRoom == accepting

(* A close that does not look whether the writer is still alive:            *)
(* DrainedMeansHandled.                                                     *)
CloseReturnEarly ==
  /\ closing = "joining"
  /\ closing' = "closed"
  /\ drained' = (queue = <<>> /\ ~active)
  /\ UNCHANGED <<queue, shared, writer, hand>>

(* A close that interrupts the writer without telling it to stop:           *)
(* WriterEmptiesQueue.                                                      *)
CloseStopForgotten ==
  /\ closing = "stopping"
  /\ closing' = "interrupting"
  /\ UNCHANGED <<queue, shared, writer, hand, drained>>

-----------------------------------------------------------------------------
(* The client thread.                                                       *)

Room == accepting /\ Len(queue) < Capacity

Accept(j) ==
  /\ Room
  /\ queue' = Append(queue, j)
  /\ UNCHANGED <<shared, writer, hand, closeVars>>

CloseBegin ==
  /\ closing = "open"
  /\ accepting' = FALSE
  /\ closing' = "waiting"
  /\ UNCHANGED <<queue, running, active, interrupted, writer, hand, drained>>

(* It waits for an empty queue and an idle writer until its deadline, which *)
(* may come at once.                                                        *)
CloseWaited ==
  /\ closing = "waiting"
  /\ closing' = "stopping"
  /\ UNCHANGED <<queue, shared, writer, hand, drained>>

CloseStop ==
  /\ closing = "stopping"
  /\ running' = FALSE
  /\ closing' = "interrupting"
  /\ UNCHANGED <<queue, accepting, active, interrupted, writer, hand, drained>>

CloseInterrupt ==
  /\ closing = "interrupting"
  /\ interrupted' = TRUE
  /\ closing' = "joining"
  /\ UNCHANGED <<queue, accepting, running, active, writer, hand, drained>>

(* The join ends when the writer does, or after what is left of the         *)
(* deadline but no less than a millisecond.                                 *)
CloseReturn ==
  /\ closing = "joining"
  /\ closing' = "closed"
  /\ drained' = (queue = <<>> /\ ~active /\ writer = "dead")
  /\ UNCHANGED <<queue, shared, writer, hand>>

Closing ==
  \/ CloseWaited \/ CloseStop \/ CloseInterrupt \/ CloseReturn

-----------------------------------------------------------------------------
(* The writer thread.                                                       *)

Check ==
  /\ writer = "check"
  /\ writer' = IF running \/ queue # <<>> THEN "poll" ELSE "dead"
  /\ UNCHANGED <<queue, shared, hand, closeVars>>

(* The job is off the queue, and `active` is not yet set.                   *)
Poll ==
  /\ writer = "poll" /\ ~interrupted
  /\ queue # <<>>
  /\ hand' = Head(queue)
  /\ queue' = Tail(queue)
  /\ writer' = "polled"
  /\ UNCHANGED <<shared, closeVars>>

PollTimeout ==
  /\ writer = "poll" /\ ~interrupted
  /\ queue = <<>>
  /\ writer' = "check"
  /\ UNCHANGED <<queue, shared, hand, closeVars>>

(* poll throws whenever the flag is set, and clears it.                     *)
PollInterrupted ==
  /\ writer = "poll" /\ interrupted
  /\ interrupted' = running
  /\ writer' = IF running THEN "dead" ELSE "check"
  /\ UNCHANGED <<queue, accepting, running, active, hand, closeVars>>

Activate ==
  /\ writer = "polled"
  /\ active' = TRUE
  /\ writer' = "sink"
  /\ UNCHANGED <<queue, accepting, running, interrupted, hand, closeVars>>

(* The sink returns or throws.  With the interrupt flag set its file        *)
(* channel throws, and leaves the flag set, unless it was past its last     *)
(* interruptible operation.                                                 *)
Sink(outcome) ==
  /\ writer = "sink"
  /\ outcome = "interrupted" => interrupted
  /\ writer' = "settle"
  /\ UNCHANGED <<queue, shared, hand, closeVars>>

Settle ==
  /\ writer = "settle"
  /\ active' = FALSE
  /\ hand' = NoJob
  /\ writer' = "check"
  /\ UNCHANGED <<queue, accepting, running, interrupted, closeVars>>

(* The writer's steps in which nothing outside the queue takes part.        *)
Writing == Check \/ Poll \/ PollTimeout \/ PollInterrupted \/ Activate \/ Settle

-----------------------------------------------------------------------------
(* When closeGracefully returns true nothing it accepted is left behind:    *)
(* the queue is empty and the writer has settled every job it polled, also  *)
(* the one it may just have taken off the queue when the wait ended.        *)
DrainedMeansHandled ==
  closing = "closed" /\ drained => queue = <<>> /\ hand = NoJob /\ writer = "dead"

=============================================================================
