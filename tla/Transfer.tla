------------------------------- MODULE Transfer -------------------------------
(***************************************************************************)
(* The exchange between archives.  A site hands its peer a fingerprint and *)
(* a manifest; the peer's send works out from them what to put in a bundle *)
(* directory; the directory is handed back and received.  Nothing orders   *)
(* these commands, the captures and purges of either site, or the deaths   *)
(* of the commands; a send reads its archive under several separate locks. *)
(*                                                                         *)
(* An archive is what its lock makes of it (module Archive): an import, the *)
(* addition of a record or a purge is one step.  A receive holds the lock   *)
(* only for each addition, so a purge can come between it and the look at   *)
(* the record's objects.  Two records of one chunk differ in their identity,*)
(* and a digest over identities is the set of them.                         *)
(***************************************************************************)
EXTENDS Naturals, FiniteSets

CONSTANTS
  Site,
  Server,
  World,           \* pairs of a server and a dimension
  ServerOf,        \* the server of each
  Chunk, WorldOf,
  Obs, ChunkOf,
  Object, Refs,    \* the objects each observation references
  Captured,        \* the observations each site's own spool brings
  Scope,           \* the observations redactions are declared of, at each site
  Purgers,         \* sites where they are purged
  Signable,        \* the observations each site has a key for
  Mortal,          \* sites whose commands may die
  MaxSends,        \* sends each site begins
  NoFile, Idle

ASSUME TransferAssumption ==
  /\ ServerOf \in [World -> Server]
  /\ WorldOf \in [Chunk -> World]
  /\ ChunkOf \in [Obs -> Chunk]
  /\ Refs \in [Obs -> SUBSET Object]
  /\ Captured \in [Site -> SUBSET Obs]
  /\ Scope \in [Site -> SUBSET Obs]
  /\ Signable \in [Site -> SUBSET Obs]
  /\ Purgers \subseteq Site /\ Mortal \subseteq Site
  /\ Obs \cap Object = {} /\ MaxSends \in [Site -> Nat]

File == Obs \cup Object

VARIABLES
  \* Each site's archive.
  known,         \* worlds with an index directory, which a purge leaves
  held,          \* records it lists
  stored,        \* objects in its store
  withdrawn,     \* observations a declared redaction matches
  signed,        \* observations it has a signature of
  \* What it has handed to its peers, and the directory it sends from.
  fingerprint, manifest, bundle,
  \* The commands running at it.
  send, receive,
  sends,         \* how many it began
  \* History: records it has purged.
  purged

archive == <<known, held, stored, withdrawn, signed, purged>>
handed == <<fingerprint, manifest>>
sending == <<send, sends, bundle>>
vars == <<archive, handed, sending, receive>>

Manifests == [worlds : SUBSET World, records : SUBSET Obs]

(* had, owe: history; what the sender held when the send began, and what of *)
(* it was neither withdrawn nor purged before it ended.                     *)
Bundles == [to : Site, files : SUBSET File, list : SUBSET File,
            signed : SUBSET Obs, had : SUBSET Obs, owe : SUBSET Obs]

(* gone, banned: history; what was withdrawn or purged at some time of the  *)
(* send, and what was withdrawn throughout it.                              *)
Sends == [at : {"list", "walk", "select", "write"}, to : Site,
          offer : SUBSET Object,
          theirs : Manifests \cup {NoFile},
          servers : SUBSET Server, walk : SUBSET World,
          seen : SUBSET Obs, hidden : SUBSET Obs,
          list : SUBSET File, todo : SUBSET File, signed : SUBSET Obs,
          had : SUBSET Obs, gone : SUBSET Obs, banned : SUBSET Obs]

Objects(S) == UNION {Refs[o] : o \in S}
Worlds(S) == {WorldOf[ChunkOf[o]] : o \in S}

(* What a record lacks, a purge at its own site took away.                  *)
TypeOK ==
  /\ known \in [Site -> SUBSET World]
  /\ held \in [Site -> SUBSET Obs]
  /\ stored \in [Site -> SUBSET Object]
  /\ withdrawn \in [Site -> SUBSET Obs]
  /\ signed \in [Site -> SUBSET Obs]
  /\ purged \in [Site -> SUBSET Obs]
  /\ fingerprint \in [Site -> (SUBSET Object) \cup {NoFile}]
  /\ manifest \in [Site -> Manifests \cup {NoFile}]
  /\ \A s \in Site : sends[s] \in 0..MaxSends[s]
  /\ \A s \in Site :
       /\ Objects(held[s]) \subseteq stored[s] \cup Objects(purged[s])
       /\ Worlds(held[s]) \subseteq known[s]
       /\ bundle[s].list = NoFile \/ bundle[s] \in Bundles
       /\ send[s] = Idle
            \/ (send[s] \in Sends /\ send[s].todo \subseteq send[s].list)
       /\ receive[s] = Idle
            \/ /\ receive[s].bundle \in Bundles
               /\ receive[s].todo \subseteq receive[s].bundle.list
               /\ receive[s].resolved \subseteq Obs

NoBundle(s) == [to |-> s, files |-> {}, list |-> NoFile, signed |-> {},
                had |-> {}, owe |-> {}]

Init ==
  /\ known = [s \in Site |-> {}] /\ held = [s \in Site |-> {}]
  /\ stored = [s \in Site |-> {}] /\ withdrawn = [s \in Site |-> {}]
  /\ signed = [s \in Site |-> {}] /\ purged = [s \in Site |-> {}]
  /\ fingerprint = [s \in Site |-> NoFile] /\ manifest = [s \in Site |-> NoFile]
  /\ bundle = [s \in Site |-> NoBundle(s)]
  /\ send = [s \in Site |-> Idle] /\ sends = [s \in Site |-> 0]
  /\ receive = [s \in Site |-> Idle]

-----------------------------------------------------------------------------
Fingerprint(s) == Objects(held[s])
Manifest(s) == [worlds |-> known[s], records |-> held[s]]

(* Faulty variant of the next: read from the wrong side.                    *)
NegotiateWant(local, remote) == remote \ local

Negotiate(local, remote) == local \ remote

RecordsOf(c, records) == {o \in records : ChunkOf[o] = c}

(* Where two manifests disagree: worlds only one of them has, and of the    *)
(* others the chunks only one side holds records of and those of which the  *)
(* sides hold different ones.                                               *)
Compare(mine, theirs) ==
  LET Seen(records) == {ChunkOf[o] : o \in records}
      Shared(c) == WorldOf[c] \in mine.worlds \cap theirs.worlds
      differ == {c \in Chunk : /\ Shared(c)
                               /\ RecordsOf(c, mine.records) # RecordsOf(c, theirs.records)}
  IN [localWorlds |-> mine.worlds \ theirs.worlds,
      remoteWorlds |-> theirs.worlds \ mine.worlds,
      local |-> differ \ Seen(theirs.records),
      remote |-> differ \ Seen(mine.records),
      both |-> differ \cap Seen(mine.records) \cap Seen(theirs.records)]

(* What manifest --compare says has to move.                                *)
SendNeeded(d) == d.localWorlds # {} \/ d.local # {} \/ d.both # {}
ReceiveNeeded(d) == d.remoteWorlds # {} \/ d.remote # {} \/ d.both # {}
Settled(d) == ~SendNeeded(d) /\ ~ReceiveNeeded(d)

(* What fingerprint --compare says of two archives: of the chunks both hold *)
(* records of, the states each has of them and the other has not.  It       *)
(* refuses to say anything when there is none.                              *)
States(records) == {[chunk |-> ChunkOf[o], components |-> Refs[o]] : o \in records}

CompareFingerprints(local, remote) ==
  LET Seen(states) == {state.chunk : state \in states}
      shared == Seen(local) \cap Seen(remote)
      Ahead(a, b) == {c \in shared : \E state \in a \ b : state.chunk = c}
      mine   == Ahead(local, remote)
      theirs == Ahead(remote, local)
  IN [shared |-> shared,
      coverage |-> (Seen(local) \cup Seen(remote)) \ shared,
      states |-> (mine \cup theirs) \ (mine \cap theirs),
      content |-> mine \cap theirs]

FingerprintReport(local, remote) ==
  LET c == CompareFingerprints(local, remote)
  IN IF c.shared = {} THEN "shows nothing"
     ELSE IF c.content = {} THEN "identical" ELSE "disagree"

(* A world only one side knows has a difference that names no chunk, and    *)
(* without chunks nothing is left out.                                      *)
ChunksTheyDisagreeAbout(mine, theirs) ==
  IF theirs = NoFile THEN Chunk
  ELSE LET d == Compare(mine, theirs)
       IN IF d.localWorlds \cup d.remoteWorlds # {} THEN Chunk
          ELSE d.local \cup d.remote \cup d.both

(* Faulty variant of the next: only records that bring a missing object.    *)
SelectedByObject(s) ==
  {o \in send[s].seen \ send[s].hidden : Refs[o] \cap send[s].offer # {}}

Selected(s) ==
  {o \in send[s].seen \ send[s].hidden :
     ChunkOf[o] \in ChunksTheyDisagreeAbout(Manifest(s), send[s].theirs)}

Running(s, at) == send[s] # Idle /\ send[s].at = at
Records(files) == files \cap Obs

Hold(s, o) ==
  /\ held' = [held EXCEPT ![s] = @ \cup {o}]
  /\ known' = [known EXCEPT ![s] = @ \cup {WorldOf[ChunkOf[o]]}]

(* A receive that begins; it looks at one record at a time.                 *)
Received(b) == [bundle |-> b, todo |-> b.list, resolved |-> {}]

(* What a redaction or a purge means to a send in progress.                 *)
NoteGone(s, S) ==
  send' = IF send[s] = Idle THEN send ELSE [send EXCEPT ![s].gone = @ \cup S]
NoteFreed(s, o) ==
  send' = IF send[s] = Idle THEN send ELSE [send EXCEPT ![s].banned = @ \ {o}]

-----------------------------------------------------------------------------
(* Faulty variants of what follows.                                         *)

(* The offer not narrowed to what the records need: WithheldStaysHome.      *)
OfferEverything(s) ==
  /\ Running(s, "select")
  /\ send[s].offer # {} \/ Selected(s) # {}
  /\ LET list == Selected(s) \cup send[s].offer
     IN send' = [send EXCEPT ![s].at = "write", ![s].list = list, ![s].todo = list]
  /\ UNCHANGED <<archive, handed, sends, bundle, receive>>

(* Signatures stored before the records they sign: SignedHasRecord.         *)
SignaturesFirst(s, t) ==
  /\ receive[s] = Idle
  /\ send[t] = Idle /\ bundle[t].list # NoFile /\ bundle[t].to = s
  /\ receive' = [receive EXCEPT ![s] = Received(bundle[t])]
  /\ signed' = [signed EXCEPT ![s] = @ \cup bundle[t].signed]
  /\ UNCHANGED <<known, held, stored, withdrawn, purged, handed, sending>>

-----------------------------------------------------------------------------
(* What changes an archive beside the exchange.                             *)

(* A capture imported from the site's spool.  Once purged it is not offered *)
(* again: that bounds the model.                                            *)
Import(s, o) ==
  /\ o \in Captured[s] \ (held[s] \cup purged[s])
  /\ Hold(s, o)
  /\ stored' = [stored EXCEPT ![s] = @ \cup Refs[o]]
  /\ UNCHANGED <<withdrawn, signed, purged, handed, sending, receive>>

Declare(s, o) ==
  /\ o \in Scope[s] \ withdrawn[s]
  /\ withdrawn' = [withdrawn EXCEPT ![s] = @ \cup {o}]
  /\ NoteGone(s, {o})
  /\ UNCHANGED <<known, held, stored, signed, purged, handed, sends, bundle, receive>>

Withdraw(s, o) ==
  /\ o \in withdrawn[s]
  /\ withdrawn' = [withdrawn EXCEPT ![s] = @ \ {o}]
  /\ NoteFreed(s, o)
  /\ UNCHANGED <<known, held, stored, signed, purged, handed, sends, bundle, receive>>

Purge(s) ==
  /\ s \in Purgers
  /\ LET doomed == held[s] \cap withdrawn[s]
         kept   == held[s] \ doomed
     IN /\ doomed # {}
        /\ held' = [held EXCEPT ![s] = kept]
        /\ stored' = [stored EXCEPT ![s] = @ \ (Objects(doomed) \ Objects(kept))]
        /\ purged' = [purged EXCEPT ![s] = @ \cup doomed]
        /\ NoteGone(s, doomed)
  /\ UNCHANGED <<known, withdrawn, signed, handed, sends, bundle, receive>>

Sign(s, o) ==
  /\ o \in (held[s] \cap Signable[s]) \ signed[s]
  /\ signed' = [signed EXCEPT ![s] = @ \cup {o}]
  /\ UNCHANGED <<known, held, stored, withdrawn, purged, handed, sending, receive>>

(* Files for a peer: of everything, whatever is withdrawn.  Written while a *)
(* peer may still begin a send, which bounds the model.                     *)
Asked(s) == \E t \in Site \ {s} : sends[t] < MaxSends[t]

WriteFingerprint(s) ==
  /\ Asked(s)
  /\ fingerprint' = [fingerprint EXCEPT ![s] = Fingerprint(s)]
  /\ UNCHANGED <<archive, manifest, sending, receive>>

WriteManifest(s) ==
  /\ Asked(s)
  /\ manifest' = [manifest EXCEPT ![s] = Manifest(s)]
  /\ UNCHANGED <<archive, fingerprint, sending, receive>>

-----------------------------------------------------------------------------
(* Send: the fingerprint under one lock, the servers, each server's          *)
(* dimensions and each world under others, then the redactions, and the     *)
(* manifest under one more.                                                 *)
SendBegin(s, t) ==
  /\ s # t /\ send[s] = Idle /\ sends[s] < MaxSends[s]
  /\ fingerprint[t] # NoFile
  /\ \E theirs \in {NoFile, manifest[t]} :
       send' = [send EXCEPT ![s] =
         [at |-> "list", to |-> t, offer |-> Negotiate(Fingerprint(s), fingerprint[t]),
          theirs |-> theirs, servers |-> {}, walk |-> {}, seen |-> {}, hidden |-> {},
          list |-> {}, todo |-> {}, signed |-> {},
          had |-> held[s], gone |-> withdrawn[s], banned |-> withdrawn[s]]]
  /\ sends' = [sends EXCEPT ![s] = @ + 1]
  /\ UNCHANGED <<archive, handed, bundle, receive>>

SendList(s) ==
  /\ Running(s, "list")
  /\ send' = [send EXCEPT ![s].at = "walk", ![s].servers = {ServerOf[w] : w \in known[s]}]
  /\ UNCHANGED <<archive, handed, sends, bundle, receive>>

SendDimensions(s, v) ==
  /\ Running(s, "walk") /\ send[s].walk = {} /\ v \in send[s].servers
  /\ send' = [send EXCEPT ![s].servers = @ \ {v},
                          ![s].walk = {w \in known[s] : ServerOf[w] = v}]
  /\ UNCHANGED <<archive, handed, sends, bundle, receive>>

SendWalk(s, w) ==
  /\ Running(s, "walk") /\ w \in send[s].walk
  /\ send' = [send EXCEPT
       ![s].walk = @ \ {w},
       ![s].seen = @ \cup {o \in held[s] : WorldOf[ChunkOf[o]] = w}]
  /\ UNCHANGED <<archive, handed, sends, bundle, receive>>

Walked(s) == Running(s, "walk") /\ send[s].servers = {} /\ send[s].walk = {}

SendWithhold(s) ==
  /\ Walked(s) /\ send[s].seen # {}
  /\ send' = [send EXCEPT ![s].at = "select", ![s].hidden = withdrawn[s]]
  /\ UNCHANGED <<archive, handed, sends, bundle, receive>>

(* "that mirror already holds everything this archive has", said too of a   *)
(* bundle that was written and turned out empty (SendReturn).               *)
SendNothing(s) ==
  /\ Running(s, "select")
  /\ send[s].offer = {} /\ Selected(s) = {}
  /\ send' = [send EXCEPT ![s] = Idle]
  /\ UNCHANGED <<archive, handed, sends, bundle, receive>>

SendSelect(s) ==
  /\ Running(s, "select")
  /\ send[s].offer # {} \/ Selected(s) # {}
  /\ LET list == Selected(s) \cup (send[s].offer \cap Objects(Selected(s)))
     IN send' = [send EXCEPT ![s].at = "write", ![s].list = list, ![s].todo = list]
  /\ UNCHANGED <<archive, handed, sends, bundle, receive>>

(* Into the directory named on the command line, whatever it holds already. *)
WriteRecord(s, o) ==
  /\ Running(s, "write") /\ o \in Records(send[s].todo)
  /\ bundle' = [bundle EXCEPT ![s].files = @ \cup {o}]
  /\ send' = [send EXCEPT ![s].todo = @ \ {o},
                          ![s].signed = @ \cup ({o} \cap signed[s])]
  /\ UNCHANGED <<archive, handed, sends, receive>>

CopyObject(s, x) ==
  /\ Running(s, "write") /\ Records(send[s].todo) = {}
  /\ x \in send[s].todo \cap stored[s]
  /\ bundle' = [bundle EXCEPT ![s].files = @ \cup {x}]
  /\ send' = [send EXCEPT ![s].todo = @ \ {x}]
  /\ UNCHANGED <<archive, handed, sends, receive>>

SendReturn(s) ==
  /\ Running(s, "write") /\ send[s].todo = {}
  /\ bundle' = [bundle EXCEPT ![s] =
       [to |-> send[s].to, files |-> @.files, list |-> send[s].list,
        signed |-> send[s].signed,
        had |-> send[s].had, owe |-> send[s].had \ send[s].gone]]
  /\ send' = [send EXCEPT ![s] = Idle]
  /\ UNCHANGED <<archive, handed, sends, receive>>

(* An archive with nothing to send, or an object purged before its turn.    *)
SendFails(s) ==
  /\ \/ Walked(s) /\ send[s].seen = {}
     \/ /\ Running(s, "write") /\ Records(send[s].todo) = {}
        /\ ~(send[s].todo \subseteq stored[s])
  /\ send' = [send EXCEPT ![s] = Idle]
  /\ UNCHANGED <<archive, handed, sends, bundle, receive>>

(* Killed, or failing on the disk: the file being written, the list         *)
(* included, is torn.                                                       *)
SendDies(s) ==
  /\ s \in Mortal /\ send[s] # Idle
  /\ \/ UNCHANGED bundle
     \/ \E f \in send[s].todo : bundle' = [bundle EXCEPT ![s].files = @ \ {f}]
     \/ /\ Running(s, "write") /\ send[s].todo = {}
        /\ bundle' = [bundle EXCEPT ![s].list = NoFile]
  /\ send' = [send EXCEPT ![s] = Idle]
  /\ UNCHANGED <<archive, handed, sends, receive>>

-----------------------------------------------------------------------------
(* Receive: of a copy of the directory, handed over after a send returned,  *)
(* once or again.  Objects come first, then records, then signatures.       *)
ReceiveBegin(s, t) ==
  /\ receive[s] = Idle
  /\ send[t] = Idle /\ bundle[t].list # NoFile /\ bundle[t].to = s
  /\ receive' = [receive EXCEPT ![s] = Received(bundle[t])]
  /\ UNCHANGED <<archive, handed, sending>>

TakeObject(s, x) ==
  /\ receive[s] # Idle
  /\ x \in receive[s].todo \cap receive[s].bundle.files \cap Object
  /\ stored' = [stored EXCEPT ![s] = @ \cup {x}]
  /\ receive' = [receive EXCEPT ![s].todo = @ \ {x}]
  /\ UNCHANGED <<known, held, withdrawn, signed, purged, handed, sending>>

(* A record's components are looked for, and it is added under the lock.    *)
ResolveRecord(s, o) ==
  /\ receive[s] # Idle /\ receive[s].todo \cap Object = {} /\ receive[s].resolved = {}
  /\ o \in Records(receive[s].todo) \cap receive[s].bundle.files
  /\ Refs[o] \subseteq stored[s]
  /\ receive' = [receive EXCEPT ![s].resolved = {o}]
  /\ UNCHANGED <<archive, handed, sending>>

TakeRecord(s, o) ==
  /\ receive[s] # Idle /\ o \in receive[s].resolved
  /\ Hold(s, o)
  /\ receive' = [receive EXCEPT ![s].todo = @ \ {o}, ![s].resolved = {}]
  /\ UNCHANGED <<stored, withdrawn, signed, purged, handed, sending>>

ReceiveReturn(s) ==
  /\ receive[s] # Idle /\ receive[s].todo = {}
  /\ signed' = [signed EXCEPT ![s] = @ \cup receive[s].bundle.signed]
  /\ receive' = [receive EXCEPT ![s] = Idle]
  /\ UNCHANGED <<known, held, stored, withdrawn, purged, handed, sending>>

(* A file that is listed and absent or torn, or a component this archive    *)
(* cannot resolve.                                                          *)
Unresolved(s) ==
  IF receive[s] = Idle \/ receive[s].todo \cap Object # {} \/ receive[s].resolved # {} THEN {}
  ELSE {o \in Records(receive[s].todo) : ~(Refs[o] \subseteq stored[s])}

Refuse(s) ==
  /\ receive[s] # Idle /\ receive[s].resolved = {}
  /\ ~(receive[s].todo \subseteq receive[s].bundle.files) \/ Unresolved(s) # {}
  /\ receive' = [receive EXCEPT ![s] = Idle]
  /\ UNCHANGED <<archive, handed, sending>>

ReceiveDies(s) ==
  /\ s \in Mortal /\ receive[s] # Idle
  /\ \E S \in SUBSET receive[s].bundle.signed :
       /\ S # {} => receive[s].todo = {}
       /\ signed' = [signed EXCEPT ![s] = @ \cup S]
  /\ receive' = [receive EXCEPT ![s] = Idle]
  /\ UNCHANGED <<known, held, stored, withdrawn, purged, handed, sending>>

-----------------------------------------------------------------------------
Local(s) ==
  \/ \E o \in Obs : Import(s, o) \/ Declare(s, o) \/ Withdraw(s, o) \/ Sign(s, o)
  \/ Purge(s) \/ WriteFingerprint(s) \/ WriteManifest(s)

Sending(s) ==
  \/ \E t \in Site : SendBegin(s, t)
  \/ SendList(s) \/ \E v \in Server : SendDimensions(s, v)
  \/ \E w \in World : SendWalk(s, w)
  \/ SendWithhold(s) \/ SendNothing(s) \/ SendSelect(s)
  \/ \E o \in Obs : WriteRecord(s, o)
  \/ \E x \in Object : CopyObject(s, x)
  \/ SendReturn(s) \/ SendFails(s) \/ SendDies(s)

Receiving(s) ==
  \/ \E t \in Site : ReceiveBegin(s, t)
  \/ \E x \in Object : TakeObject(s, x)
  \/ \E o \in Obs : ResolveRecord(s, o) \/ TakeRecord(s, o)
  \/ ReceiveReturn(s) \/ Refuse(s) \/ ReceiveDies(s)

Next == \E s \in Site : Local(s) \/ Sending(s) \/ Receiving(s)

Spec == Init /\ [][Next]_vars

-----------------------------------------------------------------------------
(* Consent: a bundle names no record that was withdrawn all through its     *)
(* send, and no object but those the records it names need, so a withheld   *)
(* record's own bytes stay too (Send, "Withdrawn observations do not leave").*)
WithheldStaysHome ==
  [][\A s \in Site : SendReturn(s) =>
       LET list == bundle'[s].list
       IN /\ list \cap send[s].banned = {}
          /\ list \cap Object \subseteq Objects(Records(list))]_vars

(* A receive that succeeds, or a send that says the peer already holds      *)
(* everything, leaves the peer with every record the sender held all        *)
(* through the send and did not withdraw, unless the peer itself purged it, *)
(* however old the fingerprint and the manifest were.  If neither side went *)
(* on to hold or to withdraw anything else, comparing the two then shows    *)
(* nothing the sender alone has, and calls the peer's archive the same      *)
(* exactly when the peer has nothing to send back (Send, Receive,           *)
(* reportComparison, reportFingerprintComparison).                          *)
Delivers ==
  [][\A s \in Site :
       /\ ReceiveReturn(s) =>
            receive[s].bundle.owe \subseteq held'[s] \cup purged'[s]
       /\ ReceiveReturn(s) => \A t \in Site \ {s} :
            held[t] \subseteq receive[s].bundle.owe \ purged[s] =>
              LET d == Compare(Manifest(t), Manifest(s)')
              IN /\ d.local = {}
                 /\ held[t] # {} =>
                      FingerprintReport(States(held[t]), States(held'[s])) = "identical"
                 /\ known[t] = known[s] =>
                      (Settled(d) <=> held'[s] = held[t])
       /\ SendNothing(s) \/ (SendReturn(s) /\ send[s].list = {}) =>
            LET t == send[s].to
            IN send[s].had \ send[s].gone \subseteq held[t] \cup purged[t]]_vars

(* A receiver that cannot resolve a record's component has purged it since  *)
(* its fingerprint, or is given a record that reached the sender in the     *)
(* middle of the send (Receive, CAS.Verify).                                *)
RefusedForCause ==
  \A s \in Site : \A o \in Unresolved(s) :
    \/ o \notin receive[s].bundle.had
    \/ Refs[o] \ stored[s] \subseteq Objects(purged[s])

(* A signature is only ever stored of a record the archive accepted         *)
(* (Receive, "Signatures last").                                            *)
SignedHasRecord == \A s \in Site : signed[s] \subseteq held[s] \cup purged[s]

=============================================================================
