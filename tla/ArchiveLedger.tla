---------------------------- MODULE ArchiveLedger ----------------------------
(***************************************************************************)
(* What the archive promises a caller: a set of held observations that an  *)
(* import adds to and a purge removes from, each at one instant between    *)
(* its call and its return.  A call whose process dies takes effect once   *)
(* or not at all, and nothing is held or dropped that nobody asked for.    *)
(***************************************************************************)
CONSTANTS Proc, Obs, NoCall

VARIABLES
  held,    \* observations the archive holds
  call,    \* the call each process has made and not returned from
  acked    \* held observations whose import reported success

vars == <<held, call, acked>>

Calls == [kind : {"add", "remove"}, ids : SUBSET Obs, effective : BOOLEAN]

TypeOK ==
  /\ held \subseteq Obs
  /\ call \in [Proc -> Calls \cup {NoCall}]
  /\ acked \subseteq Obs

Init ==
  /\ held = {} /\ acked = {}
  /\ call = [p \in Proc |-> NoCall]

Ask(p, kind, S) ==
  /\ call[p] = NoCall
  /\ call' = [call EXCEPT ![p] = [kind |-> kind, ids |-> S, effective |-> FALSE]]
  /\ UNCHANGED <<held, acked>>

Pending(p, kind) == call[p] # NoCall /\ call[p].kind = kind /\ ~call[p].effective

Add(p) ==
  /\ Pending(p, "add")
  /\ held' = held \cup call[p].ids
  /\ call' = [call EXCEPT ![p].effective = TRUE]
  /\ UNCHANGED acked

Remove(p) ==
  /\ Pending(p, "remove")
  /\ held' = held \ call[p].ids
  /\ acked' = acked \ call[p].ids
  /\ call' = [call EXCEPT ![p].effective = TRUE]

(* A successful return: only of a call that took effect.                    *)
Return(p) ==
  /\ call[p] # NoCall /\ call[p].effective
  /\ acked' = IF call[p].kind = "add" THEN acked \cup (call[p].ids \cap held)
              ELSE acked
  /\ call' = [call EXCEPT ![p] = NoCall]
  /\ UNCHANGED held

(* A failed call or a process that died, before or after the effect.        *)
Abandon(p) ==
  /\ call[p] # NoCall
  /\ call' = [call EXCEPT ![p] = NoCall]
  /\ UNCHANGED <<held, acked>>

Next ==
  \E p \in Proc :
    \/ \E kind \in {"add", "remove"}, S \in SUBSET Obs : Ask(p, kind, S)
    \/ Add(p) \/ Remove(p) \/ Return(p) \/ Abandon(p)

Spec == Init /\ [][Next]_vars

=============================================================================
