---------------------------- MODULE TransferProofs ----------------------------
(***************************************************************************)
(* What holds of the exchange for every number of sites, records and       *)
(* objects, whatever each captures, withdraws, purges and signs, and       *)
(* however often its commands die.                                         *)
(***************************************************************************)
EXTENDS Transfer, TLAPS

(* Everything a bundle directory may be: like a bundle, but its list may be *)
(* torn.                                                                    *)
Directories == [to : Site, files : SUBSET File, list : (SUBSET File) \cup {NoFile},
                signed : SUBSET Obs, had : SUBSET Obs, owe : SUBSET Obs]
(* A receive in progress: the copy it was given, the listed files it has    *)
(* not taken, and the record whose components it has looked for.            *)
Receives == [bundle : Directories, todo : SUBSET File, resolved : SUBSET Obs]

(* The archives.                                                            *)
ArchiveTyped ==
  /\ known \in [Site -> SUBSET World] /\ held \in [Site -> SUBSET Obs]
  /\ stored \in [Site -> SUBSET Object] /\ withdrawn \in [Site -> SUBSET Obs]
  /\ signed \in [Site -> SUBSET Obs] /\ purged \in [Site -> SUBSET Obs]

(* What has been handed to peers.                                           *)
HandedTyped ==
  /\ fingerprint \in [Site -> (SUBSET Object) \cup {NoFile}]
  /\ manifest \in [Site -> Manifests \cup {NoFile}]

(* The sends: a command writes files of its list only.                      *)
SendTyped ==
  /\ send \in [Site -> Sends \cup {Idle}]
  /\ \A s \in Site : send[s] # Idle => send[s].todo \subseteq send[s].list

(* The directories.                                                         *)
BundleTyped ==
  /\ bundle \in [Site -> Directories]
  /\ sends \in [Site -> Nat] /\ \A s \in Site : sends[s] <= MaxSends[s]

(* The receives: only a directory whose list was written whole is read.     *)
ReceiveTyped ==
  /\ receive \in [Site -> Receives \cup {Idle}]
  /\ \A s \in Site : receive[s] # Idle =>
       /\ receive[s].bundle.list # NoFile
       /\ receive[s].todo \subseteq receive[s].bundle.list

(* TypeOK in parts, and of the directories whose list is torn as well.      *)
TypeInv == ArchiveTyped /\ HandedTyped /\ SendTyped /\ BundleTyped /\ ReceiveTyped

(* Records a site holds or has purged, and                                  *)
Got(t) == held[t] \cup purged[t]
(* objects it has, or had for a record it purged: neither ever shrinks.     *)
Kept(t) == stored[t] \cup Objects(purged[t])

(* A record held has its world's index, and what it lacks of its objects a  *)
(* purge at its site took; so has one a receive has looked at and not yet   *)
(* added.                                                                   *)
ArchiveInv ==
  \A s \in Site :
    /\ \A o \in held[s] : Refs[o] \subseteq Kept(s) /\ WorldOf[ChunkOf[o]] \in known[s]
    /\ receive[s] # Idle => \A o \in receive[s].resolved : Refs[o] \subseteq Kept(s)

(* What a site told its peers it has, it has had.                           *)
HandedInv ==
  \A s \in Site :
    /\ fingerprint[s] # NoFile => fingerprint[s] \subseteq Kept(s)
    /\ manifest[s] # NoFile => manifest[s].records \subseteq Got(s)

(* A list meant for site t: it signs only records it names, names every     *)
(* record owed that t has not had, and names the objects of the records the *)
(* sender began with, save those t has had.                                 *)
Whole(list, owe, had, sigs, t) ==
  /\ sigs \subseteq Records(list)
  /\ owe \subseteq list \cup Got(t)
  /\ \A o \in Records(list) \cap had : Refs[o] \subseteq list \cup Kept(t)

(* WithheldStaysHome, at every point of a send: what was withdrawn from its *)
(* beginning is among what it hides, and no object is listed but for a      *)
(* record.                                                                  *)
ConsentInv ==
  \A s \in Site : send[s] # Idle =>
    /\ send[s].at \in {"list", "walk"} => send[s].banned \subseteq withdrawn[s]
    /\ send[s].at \in {"select", "write"} => send[s].banned \subseteq send[s].hidden
    /\ send[s].at = "write" =>
         /\ send[s].list \cap send[s].hidden = {}
         /\ send[s].list \cap Object \subseteq Objects(Records(send[s].list))

(* What a send owes its peer is seen before the walk ends, selected unless  *)
(* the peer has had it, and listed; the offer holds the objects the peer    *)
(* has not had.                                                             *)
OweInv ==
  \A s \in Site : send[s] # Idle =>
    /\ send[s].had \ send[s].gone \subseteq held[s] /\ withdrawn[s] \subseteq send[s].gone
    /\ send[s].theirs # NoFile => send[s].theirs.records \subseteq Got(send[s].to)
    /\ Objects(send[s].had) \subseteq send[s].offer \cup Kept(send[s].to)
    /\ send[s].at = "walk" =>
         \A o \in send[s].had \ send[s].gone :
           \/ o \in send[s].seen \/ WorldOf[ChunkOf[o]] \in send[s].walk
           \/ ServerOf[WorldOf[ChunkOf[o]]] \in send[s].servers
    /\ send[s].at = "select" =>
         send[s].had \ send[s].gone \subseteq send[s].seen \ send[s].hidden
    /\ send[s].at = "write" =>
         Whole(send[s].list, send[s].had \ send[s].gone, send[s].had, send[s].signed, send[s].to)
    /\ send[s].at # "write" => send[s].signed = {}

(* A directory keeps what its send owed, and a receive has taken what it    *)
(* has ticked off.                                                          *)
BundleInv ==
  \A s \in Site :
    /\ bundle[s].list # NoFile =>
         Whole(bundle[s].list, bundle[s].owe, bundle[s].had, bundle[s].signed, bundle[s].to)
    /\ receive[s] # Idle =>
         /\ Whole(receive[s].bundle.list, receive[s].bundle.owe, receive[s].bundle.had,
                  receive[s].bundle.signed, s)
         /\ Records(receive[s].bundle.list) \ receive[s].todo \subseteq Got(s)
         /\ (receive[s].bundle.list \cap Object) \ receive[s].todo \subseteq Kept(s)

-----------------------------------------------------------------------------
(* What records reference are objects and worlds,                           *)
LEMMA ObjectsTyped ==
  ASSUME NEW S \in SUBSET Obs
  PROVE  /\ Objects(S) \in SUBSET Object /\ Worlds(S) \in SUBSET World
BY TransferAssumption DEF Objects, Worlds

(* each for a record.                                                       *)
LEMMA ObjectsOf ==
  ASSUME NEW S
  PROVE  /\ \A x : x \in Objects(S) <=> \E o \in S : x \in Refs[o]
         /\ \A w : w \in Worlds(S) <=> \E o \in S : w = WorldOf[ChunkOf[o]]
BY DEF Objects, Worlds

(* What SendSelect lists: the records, and the offered objects they need.   *)
ToSend(s) == Selected(s) \cup (send[s].offer \cap Objects(Selected(s)))

(* What the step of a send leaves its command with.                         *)
Becomes(s, at, servers, walk, seen, hidden, list, todo, sigs, gone, banned) ==
  /\ send' \in [Site -> Sends \cup {Idle}]
  /\ send'[s] \in Sends
  /\ send'[s].to = send[s].to /\ send'[s].offer = send[s].offer
  /\ send'[s].theirs = send[s].theirs /\ send'[s].had = send[s].had
  /\ send'[s].at = at /\ send'[s].servers = servers /\ send'[s].walk = walk /\ send'[s].seen = seen
  /\ send'[s].hidden = hidden /\ send'[s].list = list /\ send'[s].todo = todo
  /\ send'[s].signed = sigs /\ send'[s].gone = gone /\ send'[s].banned = banned
  /\ \A t \in Site \ {s} : send'[t] = send[t]

(* It lists files.                                                          *)
LEMMA ToSendTyped ==
  ASSUME TypeInv, NEW s \in Site, send[s] # Idle
  PROVE  ToSend(s) \in SUBSET File /\ Selected(s) \in SUBSET Obs
BY DEF TypeInv, SendTyped, Sends, ToSend, Selected, File

(* The servers of the worlds a site knows.                                  *)
Serving(s) == {ServerOf[w] : w \in known[s]}

(* SendList fixes the servers to walk,                                      *)
LEMMA SendListBecomes ==
  ASSUME TypeInv, NEW s \in Site, SendList(s)
  PROVE  Becomes(s, "walk", Serving(s), send[s].walk, send[s].seen, send[s].hidden,
                  send[s].list, send[s].todo, send[s].signed, send[s].gone, send[s].banned)
<1> DEFINE d == [send[s] EXCEPT !.at = "walk", !.servers = Serving(s)]
<1>1. send[s] \in Sends /\ send[s] # Idle
  BY DEF SendList, Running, TypeInv, SendTyped
<1>2. send' = [send EXCEPT ![s] = d]
  BY DEF SendList, Serving
<1>3. Serving(s) \in SUBSET Server
  BY TransferAssumption DEF TypeInv, ArchiveTyped, Serving
<1>4. d \in Sends
  BY <1>1, <1>3 DEF Sends
<1> QED BY <1>1, <1>2, <1>4 DEF Becomes, Sends, TypeInv, SendTyped

(* and SendDimensions the worlds of one of them.                            *)
LEMMA SendDimensionsBecomes ==
  ASSUME TypeInv, NEW s \in Site, NEW v \in Server, SendDimensions(s, v)
  PROVE  Becomes(s, send[s].at, send[s].servers \ {v}, {w \in known[s] : ServerOf[w] = v},
                  send[s].seen, send[s].hidden, send[s].list, send[s].todo, send[s].signed,
                  send[s].gone, send[s].banned)
<1> DEFINE d == [send[s] EXCEPT !.servers = send[s].servers \ {v},
                            !.walk = {w \in known[s] : ServerOf[w] = v}]
<1>1. send[s] \in Sends /\ send[s] # Idle
  BY DEF SendDimensions, Running, TypeInv, SendTyped
<1>2. send' = [send EXCEPT ![s] = d]
  BY DEF SendDimensions
<1>3. d \in Sends
  BY <1>1 DEF TypeInv, ArchiveTyped, Sends
<1> QED BY <1>1, <1>2, <1>3 DEF Becomes, Sends, TypeInv, SendTyped

(* SendWalk sees the records of one world.                                  *)
LEMMA SendWalkBecomes ==
  ASSUME TypeInv, NEW s \in Site, NEW w \in World, SendWalk(s, w)
  PROVE  Becomes(s, send[s].at, send[s].servers, send[s].walk \ {w},
                  send[s].seen \cup {o \in held[s] : WorldOf[ChunkOf[o]] = w}, send[s].hidden,
                  send[s].list, send[s].todo, send[s].signed, send[s].gone, send[s].banned)
<1> DEFINE d == [send[s] EXCEPT !.walk = send[s].walk \ {w},
                            !.seen = send[s].seen \cup {o \in held[s] : WorldOf[ChunkOf[o]] = w}]
<1>1. send[s] \in Sends /\ send[s] # Idle
  BY DEF SendWalk, Running, TypeInv, SendTyped
<1>2. send' = [send EXCEPT ![s] = d]
  BY DEF SendWalk
<1>3. d \in Sends
  BY <1>1 DEF TypeInv, ArchiveTyped, Sends
<1> QED BY <1>1, <1>2, <1>3 DEF Becomes, Sends, TypeInv, SendTyped

(* SendWithhold hides what is withdrawn then.                               *)
LEMMA SendWithholdBecomes ==
  ASSUME TypeInv, NEW s \in Site, SendWithhold(s)
  PROVE  Becomes(s, "select", send[s].servers, send[s].walk, send[s].seen, withdrawn[s],
                  send[s].list, send[s].todo, send[s].signed, send[s].gone, send[s].banned)
<1> DEFINE d == [send[s] EXCEPT !.at = "select", !.hidden = withdrawn[s]]
<1>1. send[s] \in Sends /\ send[s] # Idle
  BY DEF SendWithhold, Walked, Running, TypeInv, SendTyped
<1>2. send' = [send EXCEPT ![s] = d]
  BY DEF SendWithhold, Walked
<1>3. d \in Sends
  BY <1>1 DEF TypeInv, ArchiveTyped, Sends
<1> QED BY <1>1, <1>2, <1>3 DEF Becomes, Sends, TypeInv, SendTyped

(* SendSelect makes the list.                                               *)
LEMMA SendSelectBecomes ==
  ASSUME TypeInv, NEW s \in Site, SendSelect(s)
  PROVE  Becomes(s, "write", send[s].servers, send[s].walk, send[s].seen, send[s].hidden,
                  ToSend(s), ToSend(s), send[s].signed, send[s].gone, send[s].banned)
<1> DEFINE d == [send[s] EXCEPT !.at = "write", !.list = ToSend(s), !.todo = ToSend(s)]
<1>1. send[s] \in Sends /\ send[s] # Idle
  BY DEF SendSelect, Running, TypeInv, SendTyped
<1>2. send' = [send EXCEPT ![s] = d]
  BY DEF SendSelect, ToSend
<1>3. d \in Sends
  BY <1>1, ToSendTyped DEF Sends
<1> QED BY <1>1, <1>2, <1>3 DEF Becomes, Sends, TypeInv, SendTyped

(* WriteRecord ticks off a record, with its signature.                      *)
LEMMA WriteRecordBecomes ==
  ASSUME TypeInv, NEW s \in Site, NEW o \in Obs, WriteRecord(s, o)
  PROVE  Becomes(s, send[s].at, send[s].servers, send[s].walk, send[s].seen, send[s].hidden,
                  send[s].list, send[s].todo \ {o}, send[s].signed \cup ({o} \cap signed[s]),
                  send[s].gone, send[s].banned)
<1> DEFINE d == [send[s] EXCEPT !.todo = send[s].todo \ {o},
                            !.signed = send[s].signed \cup ({o} \cap signed[s])]
<1>1. send[s] \in Sends /\ send[s] # Idle
  BY DEF WriteRecord, Running, TypeInv, SendTyped
<1>2. send' = [send EXCEPT ![s] = d]
  BY DEF WriteRecord
<1>3. d \in Sends
  BY <1>1 DEF TypeInv, ArchiveTyped, Sends
<1> QED BY <1>1, <1>2, <1>3 DEF Becomes, Sends, TypeInv, SendTyped

(* CopyObject ticks off an object.                                          *)
LEMMA CopyObjectBecomes ==
  ASSUME TypeInv, NEW s \in Site, NEW x \in Object, CopyObject(s, x)
  PROVE  Becomes(s, send[s].at, send[s].servers, send[s].walk, send[s].seen, send[s].hidden,
                  send[s].list, send[s].todo \ {x}, send[s].signed, send[s].gone, send[s].banned)
<1> DEFINE d == [send[s] EXCEPT !.todo = send[s].todo \ {x}]
<1>1. send[s] \in Sends /\ send[s] # Idle
  BY DEF CopyObject, Running, TypeInv, SendTyped
<1>2. send' = [send EXCEPT ![s] = d]
  BY DEF CopyObject
<1>3. d \in Sends
  BY <1>1 DEF TypeInv, ArchiveTyped, Sends
<1> QED BY <1>1, <1>2, <1>3 DEF Becomes, Sends, TypeInv, SendTyped

(* A redaction or a purge adds to what is gone,                             *)
LEMMA NoteGoneBecomes ==
  ASSUME TypeInv, NEW s \in Site, NEW S \in SUBSET Obs, NoteGone(s, S), send[s] # Idle
  PROVE  Becomes(s, send[s].at, send[s].servers, send[s].walk, send[s].seen, send[s].hidden,
                  send[s].list, send[s].todo, send[s].signed, send[s].gone \cup S, send[s].banned)
<1> DEFINE d == [send[s] EXCEPT !.gone = send[s].gone \cup S]
<1>1. send[s] \in Sends
  BY DEF TypeInv, SendTyped
<1>2. send' = [send EXCEPT ![s] = d]
  BY DEF NoteGone
<1>3. d \in Sends
  BY <1>1 DEF Sends
<1> QED BY <1>1, <1>2, <1>3 DEF Becomes, Sends, TypeInv, SendTyped

(* and an end of a redaction takes from what is banned.                     *)
LEMMA NoteFreedBecomes ==
  ASSUME TypeInv, NEW s \in Site, NEW o, NoteFreed(s, o), send[s] # Idle
  PROVE  Becomes(s, send[s].at, send[s].servers, send[s].walk, send[s].seen, send[s].hidden,
                  send[s].list, send[s].todo, send[s].signed, send[s].gone, send[s].banned \ {o})
<1> DEFINE d == [send[s] EXCEPT !.banned = send[s].banned \ {o}]
<1>1. send[s] \in Sends
  BY DEF TypeInv, SendTyped
<1>2. send' = [send EXCEPT ![s] = d]
  BY DEF NoteFreed
<1>3. d \in Sends
  BY <1>1 DEF Sends
<1> QED BY <1>1, <1>2, <1>3 DEF Becomes, Sends, TypeInv, SendTyped

(* A step on the files of a directory leaves the rest of it.                *)
LEMMA FilesBecome ==
  ASSUME TypeInv, NEW s \in Site, NEW G \in SUBSET File,
         bundle' = [bundle EXCEPT ![s].files = G]
  PROVE  /\ bundle' \in [Site -> Directories]
         /\ \A t \in Site : /\ bundle'[t].list = bundle[t].list
                            /\ bundle'[t].to = bundle[t].to
                            /\ bundle'[t].signed = bundle[t].signed
                            /\ bundle'[t].had = bundle[t].had
                            /\ bundle'[t].owe = bundle[t].owe
<1> DEFINE d == [bundle[s] EXCEPT !.files = G]
<1>0. bundle[s] \in Directories
  BY DEF TypeInv, BundleTyped
<1>1. d \in Directories
  BY <1>0 DEF Directories
<1>2. bundle' = [bundle EXCEPT ![s] = d]
  OBVIOUS
<1>3. bundle \in [Site -> Directories]
  BY DEF TypeInv, BundleTyped
<1> QED BY <1>0, <1>1, <1>2, <1>3 DEF Directories

(* So does one that tears its list.                                         *)
LEMMA ListTorn ==
  ASSUME TypeInv, NEW s \in Site, bundle' = [bundle EXCEPT ![s].list = NoFile]
  PROVE  /\ bundle' \in [Site -> Directories] /\ bundle'[s].list = NoFile
         /\ \A t \in Site \ {s} : bundle'[t] = bundle[t]
<1> DEFINE d == [bundle[s] EXCEPT !.list = NoFile]
<1>0. bundle[s] \in Directories
  BY DEF TypeInv, BundleTyped
<1>1. d \in Directories
  BY <1>0 DEF Directories
<1>2. bundle' = [bundle EXCEPT ![s] = d]
  OBVIOUS
<1>3. bundle \in [Site -> Directories]
  BY DEF TypeInv, BundleTyped
<1> QED BY <1>0, <1>1, <1>2, <1>3 DEF Directories

(* What a step of a receive leaves its command with.                        *)
Takes(s, todo, resolved) ==
  /\ receive[s] # Idle
  /\ receive' \in [Site -> Receives \cup {Idle}]
  /\ receive'[s] \in Receives /\ receive'[s].bundle = receive[s].bundle
  /\ receive'[s].todo = todo /\ receive'[s].resolved = resolved
  /\ \A t \in Site \ {s} : receive'[t] = receive[t]

(* TakeObject ticks off an object.                                          *)
LEMMA TakeObjectBecomes ==
  ASSUME TypeInv, NEW s \in Site, NEW x \in Object, TakeObject(s, x)
  PROVE  Takes(s, receive[s].todo \ {x}, receive[s].resolved)
<1> DEFINE d == [receive[s] EXCEPT !.todo = receive[s].todo \ {x}]
<1>1. receive[s] \in Receives /\ receive[s] # Idle
  BY DEF TakeObject, TypeInv, ReceiveTyped
<1>2. receive' = [receive EXCEPT ![s] = d]
  BY DEF TakeObject
<1>3. d \in Receives
  BY <1>1 DEF Receives
<1> QED BY <1>1, <1>2, <1>3 DEF Takes, Receives, TypeInv, ReceiveTyped

(* ResolveRecord settles on a record,                                       *)
LEMMA ResolveRecordBecomes ==
  ASSUME TypeInv, NEW s \in Site, NEW o \in Obs, ResolveRecord(s, o)
  PROVE  Takes(s, receive[s].todo, {o})
<1> DEFINE d == [receive[s] EXCEPT !.resolved = {o}]
<1>1. receive[s] \in Receives /\ receive[s] # Idle
  BY DEF ResolveRecord, TypeInv, ReceiveTyped
<1>2. receive' = [receive EXCEPT ![s] = d]
  BY DEF ResolveRecord
<1>3. d \in Receives
  BY <1>1 DEF Receives
<1> QED BY <1>1, <1>2, <1>3 DEF Takes, Receives, TypeInv, ReceiveTyped

(* and TakeRecord ticks it off.                                             *)
LEMMA TakeRecordBecomes ==
  ASSUME TypeInv, NEW s \in Site, NEW o \in Obs, TakeRecord(s, o)
  PROVE  Takes(s, receive[s].todo \ {o}, {})
<1> DEFINE d == [receive[s] EXCEPT !.todo = receive[s].todo \ {o}, !.resolved = {}]
<1>1. receive[s] \in Receives /\ receive[s] # Idle
  BY DEF TakeRecord, TypeInv, ReceiveTyped
<1>2. receive' = [receive EXCEPT ![s] = d]
  BY DEF TakeRecord
<1>3. d \in Receives
  BY <1>1 DEF Receives
<1> QED BY <1>1, <1>2, <1>3 DEF Takes, Receives, TypeInv, ReceiveTyped

(* What a receive in progress reads.                                        *)
LEMMA ReceiveFields ==
  ASSUME TypeInv, NEW s \in Site, receive[s] # Idle
  PROVE  /\ receive[s] \in Receives /\ receive[s].bundle \in Directories
         /\ receive[s].todo \in SUBSET File /\ receive[s].bundle.signed \in SUBSET Obs
         /\ receive[s].bundle.list \in SUBSET File
         /\ receive[s].todo \subseteq receive[s].bundle.list
<1>1. /\ receive[s] \in Receives /\ receive[s].bundle.list # NoFile
      /\ receive[s].todo \subseteq receive[s].bundle.list
  BY DEF TypeInv, ReceiveTyped
<1>2. receive[s].bundle \in Directories /\ receive[s].todo \in SUBSET File
  BY <1>1 DEF Receives
<1> QED BY <1>1, <1>2 DEF Directories

(* Type correctness, in parts.                                              *)
THEOREM TypeCorrect == Spec => []TypeInv
<1> USE TransferAssumption
<1>1. Init => TypeInv
  <2>1. ASSUME NEW s \in Site PROVE NoBundle(s) \in Directories /\ NoBundle(s).list = NoFile
    BY DEF NoBundle, Directories
  <2>2. Init => bundle \in [Site -> Directories]
    BY <2>1 DEF Init
  <2> QED
    BY <2>2
    DEF Init, TypeInv, ArchiveTyped, HandedTyped, SendTyped, BundleTyped, ReceiveTyped
<1>2. TypeInv /\ [Next]_vars => TypeInv'
  <2> SUFFICES ASSUME TypeInv, [Next]_vars PROVE TypeInv'
    OBVIOUS
  <2> USE DEF archive, handed, sending
  <2>0. CASE UNCHANGED vars
    BY <2>0
    DEF vars, TypeInv, ArchiveTyped, HandedTyped, SendTyped, BundleTyped, ReceiveTyped
  <2>1. ASSUME NEW s \in Site, Local(s) PROVE TypeInv'
    <3>1. ASSUME NEW o \in Obs, Import(s, o) PROVE TypeInv'
      BY <3>1
      DEF Import, TypeInv, ArchiveTyped, HandedTyped, SendTyped, BundleTyped,
         ReceiveTyped, Hold
    <3>2. ASSUME NEW o \in Obs, Declare(s, o) PROVE TypeInv'
      <4>1. SendTyped'
        <5>1. CASE send[s] = Idle
          BY <3>2, <5>1 DEF Declare, NoteGone, TypeInv, SendTyped
        <5>2. CASE send[s] # Idle
          <6>1. NoteGone(s, {o})
            BY <3>2 DEF Declare
          <6>2. {o} \in SUBSET Obs
            BY DEF TypeInv, ArchiveTyped
          <6> QED BY <5>2, <6>1, <6>2, NoteGoneBecomes DEF TypeInv, SendTyped, Becomes
        <5> QED BY <5>1, <5>2
      <4> QED
        BY <3>2, <4>1, ObjectsTyped
        DEF Declare, TypeInv, ArchiveTyped, HandedTyped, BundleTyped, ReceiveTyped
    <3>3. ASSUME NEW o \in Obs, Withdraw(s, o) PROVE TypeInv'
      <4>1. SendTyped'
        <5>1. CASE send[s] = Idle
          BY <3>3, <5>1 DEF Withdraw, NoteFreed, TypeInv, SendTyped
        <5>2. CASE send[s] # Idle
          <6>1. NoteFreed(s, o)
            BY <3>3 DEF Withdraw
          <6>2. TRUE
            OBVIOUS
          <6> QED BY <5>2, <6>1, <6>2, NoteFreedBecomes DEF TypeInv, SendTyped, Becomes
        <5> QED BY <5>1, <5>2
      <4> QED
        BY <3>3, <4>1, ObjectsTyped
        DEF Withdraw, TypeInv, ArchiveTyped, HandedTyped, BundleTyped, ReceiveTyped
    <3>4. ASSUME NEW o \in Obs, Sign(s, o) PROVE TypeInv'
      BY <3>4
      DEF Sign, TypeInv, ArchiveTyped, HandedTyped, SendTyped, BundleTyped, ReceiveTyped
    <3>5. CASE Purge(s)
      <4>1. SendTyped'
        <5>1. CASE send[s] = Idle
          BY <3>5, <5>1 DEF Purge, NoteGone, TypeInv, SendTyped
        <5>2. CASE send[s] # Idle
          <6>1. NoteGone(s, held[s] \cap withdrawn[s])
            BY <3>5 DEF Purge
          <6>2. held[s] \cap withdrawn[s] \in SUBSET Obs
            BY DEF TypeInv, ArchiveTyped
          <6> QED BY <5>2, <6>1, <6>2, NoteGoneBecomes DEF TypeInv, SendTyped, Becomes
        <5> QED BY <5>1, <5>2
      <4> QED
        BY <3>5, <4>1, ObjectsTyped
        DEF Purge, TypeInv, ArchiveTyped, HandedTyped, BundleTyped, ReceiveTyped
    <3>6. CASE WriteFingerprint(s)
      BY <3>6, ObjectsTyped
      DEF WriteFingerprint, TypeInv, ArchiveTyped, HandedTyped, SendTyped, BundleTyped,
         ReceiveTyped, Fingerprint
    <3>7. CASE WriteManifest(s)
      BY <3>7
      DEF WriteManifest, TypeInv, ArchiveTyped, HandedTyped, SendTyped, BundleTyped,
         ReceiveTyped, Manifest, Manifests
    <3> QED BY <2>1, <3>1, <3>2, <3>3, <3>4, <3>5, <3>6, <3>7 DEF Local
  <2>2. ASSUME NEW s \in Site, Sending(s) PROVE TypeInv'
    <3>1. ASSUME NEW t \in Site, SendBegin(s, t) PROVE TypeInv'
      <4>1. PICK theirs \in {NoFile, manifest[t]} :
             send' = [send EXCEPT ![s] =
               [at |-> "list", to |-> t, offer |-> Negotiate(Fingerprint(s), fingerprint[t]),
                theirs |-> theirs, servers |-> {}, walk |-> {}, seen |-> {}, hidden |-> {},
                list |-> {}, todo |-> {}, signed |-> {},
                had |-> held[s], gone |-> withdrawn[s], banned |-> withdrawn[s]]]
        BY <3>1 DEF SendBegin
      <4>2. /\ theirs \in Manifests \cup {NoFile}
            /\ Negotiate(Fingerprint(s), fingerprint[t]) \in SUBSET Object
        BY ObjectsTyped DEF TypeInv, ArchiveTyped, HandedTyped, Negotiate, Fingerprint
      <4>3. SendTyped'
        BY <4>1, <4>2 DEF TypeInv, ArchiveTyped, SendTyped, Sends
      <4> QED
        BY <3>1, <4>3
        DEF SendBegin, TypeInv, ArchiveTyped, HandedTyped, BundleTyped, ReceiveTyped
    <3>2. CASE SendList(s)
      <4>1. SendTyped'
        <5>1. SendTyped
          BY DEF TypeInv
        <5>2. send[s].todo \subseteq send[s].list
          BY <3>2, <5>1 DEF SendList, Running, SendTyped
        <5> QED BY <3>2, <5>1, <5>2, SendListBecomes DEF SendTyped, Becomes
      <4> QED
        BY <3>2, <4>1
        DEF SendList, TypeInv, ArchiveTyped, HandedTyped, BundleTyped, ReceiveTyped
    <3>12. ASSUME NEW v \in Server, SendDimensions(s, v) PROVE TypeInv'
      <4>1. SendTyped'
        <5>1. SendTyped
          BY DEF TypeInv
        <5>2. send[s].todo \subseteq send[s].list
          BY <3>12, <5>1 DEF SendDimensions, Running, SendTyped
        <5> QED BY <3>12, <5>1, <5>2, SendDimensionsBecomes DEF SendTyped, Becomes
      <4> QED
        BY <3>12, <4>1
        DEF SendDimensions, TypeInv, ArchiveTyped, HandedTyped, BundleTyped, ReceiveTyped
    <3>3. ASSUME NEW w \in World, SendWalk(s, w) PROVE TypeInv'
      <4>1. SendTyped'
        <5>1. SendTyped
          BY DEF TypeInv
        <5>2. send[s].todo \subseteq send[s].list
          BY <3>3, <5>1 DEF SendWalk, Running, SendTyped
        <5> QED BY <3>3, <5>1, <5>2, SendWalkBecomes DEF SendTyped, Becomes
      <4> QED
        BY <3>3, <4>1
        DEF SendWalk, TypeInv, ArchiveTyped, HandedTyped, BundleTyped, ReceiveTyped
    <3>4. CASE SendWithhold(s)
      <4>1. SendTyped'
        <5>1. SendTyped
          BY DEF TypeInv
        <5>2. send[s].todo \subseteq send[s].list
          BY <3>4, <5>1 DEF SendWithhold, Walked, Running, SendTyped
        <5> QED BY <3>4, <5>1, <5>2, SendWithholdBecomes DEF SendTyped, Becomes
      <4> QED
        BY <3>4, <4>1
        DEF SendWithhold, TypeInv, ArchiveTyped, HandedTyped, BundleTyped, ReceiveTyped
    <3>5. CASE SendNothing(s)
      BY <3>5
      DEF SendNothing, TypeInv, ArchiveTyped, HandedTyped, SendTyped, BundleTyped,
         ReceiveTyped
    <3>6. CASE SendSelect(s)
      <4>1. SendTyped'
        <5>1. SendTyped
          BY DEF TypeInv
        <5>2. send[s].todo \subseteq send[s].list
          BY <3>6, <5>1 DEF SendSelect, Running, SendTyped
        <5> QED BY <3>6, <5>1, <5>2, SendSelectBecomes DEF SendTyped, Becomes
      <4> QED
        BY <3>6, <4>1
        DEF SendSelect, TypeInv, ArchiveTyped, HandedTyped, BundleTyped, ReceiveTyped
    <3>7. ASSUME NEW o \in Obs, WriteRecord(s, o) PROVE TypeInv'
      <4>1. SendTyped'
        <5>1. SendTyped
          BY DEF TypeInv
        <5>2. send[s].todo \subseteq send[s].list
          BY <3>7, <5>1 DEF WriteRecord, Running, SendTyped
        <5> QED BY <3>7, <5>1, <5>2, WriteRecordBecomes DEF SendTyped, Becomes
      <4>2. bundle' \in [Site -> Directories]
        <5>1. bundle[s] \in Directories
          BY DEF TypeInv, BundleTyped
        <5>2. bundle[s].files \cup {o} \in SUBSET File
          BY <5>1 DEF Directories, File
        <5>3. bundle' = [bundle EXCEPT ![s].files = bundle[s].files \cup {o}]
          BY <3>7 DEF WriteRecord
        <5> QED BY <5>2, <5>3, FilesBecome
      <4> QED
        BY <3>7, <4>1, <4>2
        DEF WriteRecord, TypeInv, ArchiveTyped, HandedTyped, BundleTyped, ReceiveTyped
    <3>8. ASSUME NEW x \in Object, CopyObject(s, x) PROVE TypeInv'
      <4>1. SendTyped'
        <5>1. SendTyped
          BY DEF TypeInv
        <5>2. send[s].todo \subseteq send[s].list
          BY <3>8, <5>1 DEF CopyObject, Running, SendTyped
        <5> QED BY <3>8, <5>1, <5>2, CopyObjectBecomes DEF SendTyped, Becomes
      <4>2. bundle' \in [Site -> Directories]
        <5>1. bundle[s] \in Directories
          BY DEF TypeInv, BundleTyped
        <5>2. bundle[s].files \cup {x} \in SUBSET File
          BY <5>1 DEF Directories, File
        <5>3. bundle' = [bundle EXCEPT ![s].files = bundle[s].files \cup {x}]
          BY <3>8 DEF CopyObject
        <5> QED BY <5>2, <5>3, FilesBecome
      <4> QED
        BY <3>8, <4>1, <4>2
        DEF CopyObject, TypeInv, ArchiveTyped, HandedTyped, BundleTyped, ReceiveTyped
    <3>9. CASE SendReturn(s)
      <4>1. send[s] \in Sends /\ bundle[s] \in Directories
        BY <3>9 DEF SendReturn, Running, TypeInv, SendTyped, BundleTyped
      <4>2. [to |-> send[s].to, files |-> bundle[s].files, list |-> send[s].list,
             signed |-> send[s].signed,
             had |-> send[s].had, owe |-> send[s].had \ send[s].gone] \in Directories
        BY <4>1 DEF Sends, Directories
      <4>3. bundle' \in [Site -> Directories]
        BY <3>9, <4>2 DEF SendReturn, TypeInv, BundleTyped
      <4>4. SendTyped'
        BY <3>9 DEF SendReturn, TypeInv, SendTyped
      <4> QED
        BY <3>9, <4>3, <4>4
        DEF SendReturn, TypeInv, ArchiveTyped, HandedTyped, BundleTyped, ReceiveTyped
    <3>10. CASE SendFails(s)
      BY <3>10
      DEF SendFails, TypeInv, ArchiveTyped, HandedTyped, SendTyped, BundleTyped,
         ReceiveTyped
    <3>11. CASE SendDies(s)
      <4>1. bundle' \in [Site -> Directories]
        <5>1. ASSUME NEW f PROVE bundle[s].files \ {f} \in SUBSET File
          BY DEF TypeInv, BundleTyped, Directories
        <5>2. CASE UNCHANGED bundle
          BY <5>2 DEF TypeInv, BundleTyped
        <5>3. ASSUME NEW f, bundle' = [bundle EXCEPT ![s].files = @ \ {f}]
              PROVE  bundle' \in [Site -> Directories]
          <6>1. bundle' = [bundle EXCEPT ![s].files = bundle[s].files \ {f}]
            BY <5>3
          <6>2. bundle[s].files \ {f} \in SUBSET File
            BY <5>1
          <6> QED BY <6>1, <6>2, FilesBecome
        <5> QED BY <3>11, <5>2, <5>3, ListTorn DEF SendDies
      <4> QED
        BY <3>11, <4>1
        DEF SendDies, TypeInv, ArchiveTyped, HandedTyped, BundleTyped, ReceiveTyped,
            SendTyped
    <3> QED
      BY <2>2, <3>1, <3>2, <3>3, <3>4, <3>5, <3>6, <3>7, <3>8, <3>9, <3>10, <3>11, <3>12
      DEF Sending
  <2>3. ASSUME NEW s \in Site, Receiving(s) PROVE TypeInv'
    <3>1. ASSUME NEW t \in Site, ReceiveBegin(s, t) PROVE TypeInv'
      <4> DEFINE r == Received(bundle[t])
      <4>1. /\ r \in Receives
            /\ r.bundle = bundle[t]
            /\ r.todo = bundle[t].list
            /\ bundle[t].list # NoFile
        <5>1. bundle[t] \in Directories /\ bundle[t].list # NoFile
          BY <3>1 DEF ReceiveBegin, TypeInv, BundleTyped
        <5> QED BY <5>1 DEF Receives, Directories, Received
      <4>2. receive' = [receive EXCEPT ![s] = r]
        BY <3>1 DEF ReceiveBegin
      <4> HIDE DEF r
      <4> QED
        BY <3>1, <4>1, <4>2
        DEF ReceiveBegin, TypeInv, ArchiveTyped, HandedTyped, BundleTyped, ReceiveTyped,
            SendTyped
    <3>2. ASSUME NEW x \in Object, TakeObject(s, x) PROVE TypeInv'
      <4>1. ReceiveTyped'
        BY <3>2, TakeObjectBecomes DEF TypeInv, ReceiveTyped, Takes
      <4> QED
        BY <3>2, <4>1
        DEF TakeObject, TypeInv, ArchiveTyped, HandedTyped, SendTyped, BundleTyped
    <3>3. ASSUME NEW o \in Obs, TakeRecord(s, o) PROVE TypeInv'
      <4>1. ReceiveTyped'
        BY <3>3, TakeRecordBecomes DEF TypeInv, ReceiveTyped, Takes
      <4> QED
        BY <3>3, <4>1
        DEF TakeRecord, TypeInv, ArchiveTyped, HandedTyped, SendTyped, BundleTyped, Hold
    <3>7. ASSUME NEW o \in Obs, ResolveRecord(s, o) PROVE TypeInv'
      <4>1. ReceiveTyped'
        BY <3>7, ResolveRecordBecomes DEF TypeInv, ReceiveTyped, Takes
      <4> QED
        BY <3>7, <4>1
        DEF ResolveRecord, TypeInv, ArchiveTyped, HandedTyped, SendTyped, BundleTyped
    <3>4. CASE ReceiveReturn(s)
      <4>1. signed' \in [Site -> SUBSET Obs]
        BY <3>4, ReceiveFields DEF ReceiveReturn, TypeInv, ArchiveTyped
      <4> QED
        BY <3>4, <4>1
        DEF ReceiveReturn, TypeInv, ArchiveTyped, HandedTyped, BundleTyped,
            ReceiveTyped, SendTyped
    <3>5. CASE Refuse(s)
      BY <3>5
      DEF Refuse, TypeInv, ArchiveTyped, HandedTyped, SendTyped, BundleTyped,
         ReceiveTyped
    <3>6. CASE ReceiveDies(s)
      <4>1. signed' \in [Site -> SUBSET Obs]
        BY <3>6, ReceiveFields DEF ReceiveDies, TypeInv, ArchiveTyped
      <4> QED
        BY <3>6, <4>1
        DEF ReceiveDies, TypeInv, ArchiveTyped, HandedTyped, BundleTyped, ReceiveTyped,
            SendTyped
    <3> QED BY <2>3, <3>1, <3>2, <3>3, <3>4, <3>5, <3>6, <3>7 DEF Receiving
  <2> QED BY <2>0, <2>1, <2>2, <2>3 DEF Next
<1> QED BY <1>1, <1>2, PTL DEF Spec

-----------------------------------------------------------------------------
(* A purge is noted as one, so what a site has had only grows.              *)
LEMMA Grows ==
  ASSUME TypeInv, [Next]_vars, NEW t \in Site
  PROVE  Got(t) \subseteq Got(t)' /\ Kept(t) \subseteq Kept(t)'
<1> DEFINE G == Got(t) \subseteq Got(t)' /\ Kept(t) \subseteq Kept(t)'
<1>1. CASE UNCHANGED archive
  BY <1>1 DEF archive, Got, Kept, Objects
<1>2. ASSUME NEW s \in Site, Purge(s) PROVE G
  BY <1>2, ObjectsOf DEF Purge, Got, Kept, TypeInv, ArchiveTyped
<1>3. ASSUME NEW s \in Site, NEW o \in Obs,
             Import(s, o) \/ Declare(s, o) \/ Withdraw(s, o) \/ Sign(s, o) \/ TakeRecord(s, o)
      PROVE  G
  BY <1>3
  DEF Import, Declare, Withdraw, Sign, TakeRecord, Hold, Got, Kept, TypeInv,
     ArchiveTyped
<1>4. ASSUME NEW s \in Site,
             (\E x \in Object : TakeObject(s, x)) \/ ReceiveReturn(s) \/ ReceiveDies(s)
      PROVE  G
  BY <1>4 DEF TakeObject, ReceiveReturn, ReceiveDies, Got, Kept, TypeInv, ArchiveTyped
<1>5. CASE UNCHANGED vars
  BY <1>1, <1>5 DEF vars, archive
<1>6. ASSUME NEW s \in Site, Local(s) PROVE G
  BY <1>1, <1>2, <1>3, <1>6 DEF Local, WriteFingerprint, WriteManifest
<1>7. ASSUME NEW s \in Site, Sending(s) PROVE G
  BY <1>1, <1>7
  DEF Sending, SendBegin, SendList, SendDimensions, SendWalk, SendWithhold, SendNothing,
     SendSelect, WriteRecord, CopyObject, SendReturn, SendFails, SendDies
<1>8. ASSUME NEW s \in Site, Receiving(s) PROVE G
  BY <1>1, <1>3, <1>4, <1>8 DEF Receiving, ReceiveBegin, ResolveRecord, Refuse
<1> QED BY <1>5, <1>6, <1>7, <1>8 DEF Next

(* Only a purge takes from an archive what its records need, were it between *)
(* a receive's look at a record and the record's addition.                  *)
THEOREM ArchiveCorrect == Spec => []ArchiveInv
<1> USE TransferAssumption DEF ArchiveInv
<1>1. Init => ArchiveInv
  BY DEF Init
<1>2. TypeInv /\ ArchiveInv /\ [Next]_vars => ArchiveInv'
  <2> SUFFICES ASSUME TypeInv, ArchiveInv, [Next]_vars PROVE ArchiveInv'
    OBVIOUS
  <2>typed. /\ held \in [Site -> SUBSET Obs] /\ known \in [Site -> SUBSET World]
            /\ stored \in [Site -> SUBSET Object]
            /\ receive \in [Site -> Receives \cup {Idle}]
    BY DEF TypeInv, ArchiveTyped, ReceiveTyped
  <2>grows. \A t \in Site : Kept(t) \subseteq Kept(t)'
    BY Grows
  <2>less. ASSUME \A t \in Site : /\ held'[t] \subseteq held[t] /\ known[t] \subseteq known'[t]
                                  /\ \/ receive'[t] = receive[t] \/ receive'[t] = Idle
                                     \/ /\ receive[t] # Idle
                                        /\ receive'[t].resolved \subseteq receive[t].resolved
           PROVE  ArchiveInv'
    BY <2>less, <2>grows
  <2>more. ASSUME NEW s \in Site, NEW o \in Obs, Hold(s, o), Refs[o] \subseteq Kept(s)',
                  \A t \in Site : \/ receive'[t] = receive[t] \/ receive'[t] = Idle
                                  \/ /\ receive[t] # Idle
                                     /\ receive'[t].resolved \subseteq receive[t].resolved
           PROVE  ArchiveInv'
    <3>1. \A t \in Site : /\ t # s => held'[t] = held[t] /\ known'[t] = known[t]
                          /\ t = s => /\ held'[t] = held[t] \cup {o}
                                      /\ known'[t] = known[t] \cup {WorldOf[ChunkOf[o]]}
      BY <2>more, <2>typed DEF Hold
    <3>2. \A t \in Site : \A r \in held'[t] :
            Refs[r] \subseteq Kept(t)' /\ WorldOf[ChunkOf[r]] \in known'[t]
      BY <2>more, <2>grows, <3>1
    <3> QED BY <2>more, <2>grows, <3>2
  <2>same. UNCHANGED <<archive, receive>> => ArchiveInv'
    BY <2>less DEF archive
  <2>1. ASSUME NEW s \in Site, Local(s) PROVE ArchiveInv'
    <3>1. ASSUME NEW o \in Obs, Import(s, o) PROVE ArchiveInv'
      <4>1. Hold(s, o) /\ Refs[o] \subseteq Kept(s)' /\ UNCHANGED receive
        BY <3>1, <2>typed DEF Import, Kept
      <4> QED BY <4>1, <2>more
    <3>2. ASSUME NEW o \in Obs, Declare(s, o) \/ Withdraw(s, o) \/ Sign(s, o)
          PROVE  ArchiveInv'
      BY <3>2, <2>less DEF Declare, Withdraw, Sign
    <3>3. CASE Purge(s)
      <4>1. \A t \in Site : held'[t] \subseteq held[t] /\ known'[t] = known[t]
        BY <3>3, <2>typed DEF Purge
      <4> QED BY <3>3, <4>1, <2>less DEF Purge
    <3> QED BY <2>1, <2>same, <3>1, <3>2, <3>3 DEF Local, WriteFingerprint, WriteManifest
  <2>2. ASSUME NEW s \in Site, Sending(s) PROVE ArchiveInv'
    BY <2>2, <2>same
    DEF Sending, SendBegin, SendList, SendDimensions, SendWalk, SendWithhold, SendNothing,
        SendSelect, WriteRecord, CopyObject, SendReturn, SendFails, SendDies
  <2>3. ASSUME NEW s \in Site, Receiving(s) PROVE ArchiveInv'
    <3>1. ASSUME NEW t \in Site, ReceiveBegin(s, t) PROVE ArchiveInv'
      <4>1. /\ receive'[s].resolved = {}
            /\ \A r \in Site \ {s} : receive'[r] = receive[r]
        BY <3>1, <2>typed DEF ReceiveBegin, Received
      <4>2. UNCHANGED <<held, known>>
        BY <3>1 DEF ReceiveBegin, archive
      <4> QED BY <4>1, <4>2, <2>grows
    <3>2. ASSUME NEW x \in Object, TakeObject(s, x) PROVE ArchiveInv'
      BY <3>2, <2>less, TakeObjectBecomes DEF TakeObject, Takes
    <3>3. ASSUME NEW o \in Obs, ResolveRecord(s, o) PROVE ArchiveInv'
      <4>1. Refs[o] \subseteq Kept(s)' /\ UNCHANGED <<held, known>>
        BY <3>3, <2>grows DEF ResolveRecord, Kept, archive
      <4> QED BY <3>3, <4>1, <2>grows, ResolveRecordBecomes DEF Takes
    <3>4. ASSUME NEW o \in Obs, TakeRecord(s, o) PROVE ArchiveInv'
      <4>1. Hold(s, o) /\ Refs[o] \subseteq Kept(s)'
        BY <3>4, <2>grows DEF TakeRecord
      <4>2. \A t \in Site : \/ receive'[t] = receive[t]
                            \/ receive[t] # Idle /\ receive'[t].resolved = {}
        BY <3>4, TakeRecordBecomes DEF Takes
      <4> QED BY <4>1, <4>2, <2>more
    <3>5. ASSUME ReceiveReturn(s) \/ Refuse(s) \/ ReceiveDies(s) PROVE ArchiveInv'
      <4>1. UNCHANGED <<held, known>> /\ receive' = [receive EXCEPT ![s] = Idle]
        BY <3>5 DEF ReceiveReturn, Refuse, ReceiveDies, archive
      <4> QED BY <4>1, <2>typed, <2>less
    <3> QED BY <2>3, <3>1, <3>2, <3>3, <3>4, <3>5 DEF Receiving
  <2>4. CASE UNCHANGED vars
    BY <2>4, <2>same DEF vars
  <2> QED BY <2>1, <2>2, <2>3, <2>4 DEF Next
<1> QED BY <1>1, <1>2, TypeCorrect, PTL DEF Spec

(* Fingerprints and manifests go stale, and stay true of what their site    *)
(* has had.                                                                 *)
THEOREM HandedCorrect == Spec => []HandedInv
<1> USE DEF HandedInv
<1>1. Init => HandedInv
  BY DEF Init
<1>2. TypeInv /\ ArchiveInv /\ HandedInv /\ [Next]_vars => HandedInv'
  <2> SUFFICES ASSUME TypeInv, ArchiveInv, HandedInv, [Next]_vars PROVE HandedInv'
    OBVIOUS
  <2>grows. \A t \in Site : Got(t) \subseteq Got(t)' /\ Kept(t) \subseteq Kept(t)'
    BY Grows
  <2>same. UNCHANGED handed => HandedInv'
    BY <2>grows DEF handed
  <2>typed. /\ fingerprint \in [Site -> (SUBSET Object) \cup {NoFile}]
            /\ manifest \in [Site -> Manifests \cup {NoFile}]
    BY DEF TypeInv, HandedTyped
  <2>1. ASSUME NEW s \in Site, WriteFingerprint(s) PROVE HandedInv'
    <3>1. Fingerprint(s) \subseteq Kept(s)
      BY ObjectsOf DEF Fingerprint, Kept, ArchiveInv
    <3> QED BY <2>1, <2>grows, <2>typed, <3>1 DEF WriteFingerprint
  <2>2. ASSUME NEW s \in Site, WriteManifest(s) PROVE HandedInv'
    <3>1. Manifest(s).records \subseteq Got(s)
      BY DEF Manifest, Got
    <3> QED BY <2>2, <2>grows, <2>typed, <3>1 DEF WriteManifest
  <2>3. ASSUME NEW s \in Site, Local(s) PROVE HandedInv'
    BY <2>same, <2>1, <2>2, <2>3 DEF Local, Import, Declare, Withdraw, Sign, Purge
  <2>4. ASSUME NEW s \in Site, Sending(s) PROVE HandedInv'
    BY <2>same, <2>4
    DEF Sending, SendBegin, SendList, SendDimensions, SendWalk, SendWithhold, SendNothing,
        SendSelect, WriteRecord, CopyObject, SendReturn, SendFails, SendDies
  <2>5. ASSUME NEW s \in Site, Receiving(s) PROVE HandedInv'
    BY <2>same, <2>5
    DEF Receiving, ReceiveBegin, TakeObject, ResolveRecord, TakeRecord, ReceiveReturn, Refuse,
        ReceiveDies
  <2>6. CASE UNCHANGED vars
    BY <2>same, <2>6 DEF vars, handed
  <2> QED BY <2>3, <2>4, <2>5, <2>6 DEF Next
<1> QED BY <1>1, <1>2, TypeCorrect, ArchiveCorrect, PTL DEF Spec

(* The records listed are those selected, the objects theirs, and nothing   *)
(* hidden is listed.                                                        *)
LEMMA ToSendSplit ==
  ASSUME TypeInv, NEW s \in Site, send[s] # Idle
  PROVE  /\ Records(ToSend(s)) = Selected(s)
         /\ ToSend(s) \cap Object \subseteq Objects(Selected(s))
         /\ ToSend(s) \cap send[s].hidden = {}
         /\ \A o \in Selected(s) : Refs[o] \cap send[s].offer \subseteq ToSend(s)
<1>1. /\ send[s].hidden \subseteq Obs
      /\ send[s].seen \subseteq Obs
      /\ send[s].offer \subseteq Object
  BY DEF TypeInv, SendTyped, Sends
<1>2. Selected(s) \subseteq send[s].seen \ send[s].hidden
  BY DEF Selected
<1> QED BY <1>1, <1>2, ObjectsOf, TransferAssumption DEF Records, ToSend

(* Redactions declared during a send are not its concern, and one that ends *)
(* frees its observation for it.                                            *)
THEOREM ConsentCorrect == Spec => []ConsentInv
<1> USE DEF ConsentInv
<1>1. Init => ConsentInv
  BY DEF Init
<1>2. TypeInv /\ ConsentInv /\ [Next]_vars => ConsentInv'
  <2> SUFFICES ASSUME TypeInv, ConsentInv, [Next]_vars PROVE ConsentInv'
    OBVIOUS
  <2>typed. send \in [Site -> Sends \cup {Idle}] /\ withdrawn \in [Site -> SUBSET Obs]
    BY DEF TypeInv, SendTyped, ArchiveTyped
  <2>same. UNCHANGED <<send, withdrawn>> => ConsentInv'
    OBVIOUS
  <2>1. ASSUME NEW s \in Site, Local(s) PROVE ConsentInv'
    <3>1. ASSUME NEW o \in Obs, Declare(s, o) PROVE ConsentInv'
      <4>1. CASE send[s] = Idle
        BY <3>1, <4>1 DEF Declare, NoteGone, TypeInv, ArchiveTyped
      <4>2. CASE send[s] # Idle
        <5>1. NoteGone(s, {o})
          BY <3>1 DEF Declare
        <5>2. {o} \in SUBSET Obs
          BY DEF TypeInv, ArchiveTyped
        <5> QED
          BY <3>1, <4>2, <5>1, <5>2, NoteGoneBecomes
          DEF Declare, Becomes, TypeInv, ArchiveTyped
      <4> QED BY <4>1, <4>2
    <3>2. ASSUME NEW o \in Obs, Withdraw(s, o) PROVE ConsentInv'
      <4>1. CASE send[s] = Idle
        BY <3>2, <4>1 DEF Withdraw, NoteFreed, TypeInv, ArchiveTyped
      <4>2. CASE send[s] # Idle
        <5>1. NoteFreed(s, o)
          BY <3>2 DEF Withdraw
        <5>2. o \in Obs
          OBVIOUS
        <5> QED
          BY <3>2, <4>2, <5>1, <5>2, NoteFreedBecomes
          DEF Withdraw, Becomes, TypeInv, ArchiveTyped
      <4> QED BY <4>1, <4>2
    <3>3. CASE Purge(s)
      <4>1. CASE send[s] = Idle
        BY <3>3, <4>1 DEF Purge, NoteGone, TypeInv, ArchiveTyped
      <4>2. CASE send[s] # Idle
        <5>1. NoteGone(s, held[s] \cap withdrawn[s])
          BY <3>3 DEF Purge
        <5>2. held[s] \cap withdrawn[s] \in SUBSET Obs
          BY DEF TypeInv, ArchiveTyped
        <5> QED
          BY <3>3, <4>2, <5>1, <5>2, NoteGoneBecomes
          DEF Purge, Becomes, TypeInv, ArchiveTyped
      <4> QED BY <4>1, <4>2
    <3> QED BY <2>1, <2>same, <3>1, <3>2, <3>3
        DEF Local, Import, Sign, WriteFingerprint, WriteManifest, sending, archive, handed
  <2>2. ASSUME NEW s \in Site, Sending(s) PROVE ConsentInv'
    <3>1. ASSUME NEW t \in Site, SendBegin(s, t) PROVE ConsentInv'
      BY <3>1, <2>typed DEF SendBegin, Sends, archive
    <3>2. CASE SendList(s)
      <4>1. send[s] # Idle /\ send[s].at = "list" /\ UNCHANGED withdrawn
        BY <3>2 DEF SendList, Running, archive
      <4> QED BY <3>2, <4>1, <2>typed, SendListBecomes DEF Becomes
    <3>12. ASSUME NEW v \in Server, SendDimensions(s, v) PROVE ConsentInv'
      <4>1. send[s] # Idle /\ send[s].at = "walk" /\ UNCHANGED withdrawn
        BY <3>12 DEF SendDimensions, Running, archive
      <4> QED BY <3>12, <4>1, <2>typed, SendDimensionsBecomes DEF Becomes
    <3>3. ASSUME NEW w \in World, SendWalk(s, w) PROVE ConsentInv'
      <4>1. send[s] # Idle /\ send[s].at = "walk" /\ UNCHANGED withdrawn
        BY <3>3 DEF SendWalk, Running, archive
      <4> QED BY <3>3, <4>1, <2>typed, SendWalkBecomes DEF Becomes
    <3>4. CASE SendWithhold(s)
      <4>1. send[s] # Idle /\ send[s].at = "walk" /\ UNCHANGED withdrawn
        BY <3>4 DEF SendWithhold, Walked, Running, archive
      <4> QED BY <3>4, <4>1, <2>typed, SendWithholdBecomes DEF Becomes
    <3>5. CASE SendNothing(s)
      BY <3>5, <2>typed DEF SendNothing, archive
    <3>6. CASE SendSelect(s)
      <4>1. send[s] # Idle /\ send[s].at = "select" /\ UNCHANGED withdrawn
        BY <3>6 DEF SendSelect, Running, archive
      <4> QED BY <3>6, <4>1, SendSelectBecomes, ToSendSplit DEF Becomes
    <3>7. ASSUME NEW o \in Obs, WriteRecord(s, o) PROVE ConsentInv'
      <4>1. send[s] # Idle /\ send[s].at = "write" /\ UNCHANGED withdrawn
        BY <3>7 DEF WriteRecord, Running, archive
      <4> QED BY <3>7, <4>1, <2>typed, WriteRecordBecomes DEF Becomes
    <3>8. ASSUME NEW x \in Object, CopyObject(s, x) PROVE ConsentInv'
      <4>1. send[s] # Idle /\ send[s].at = "write" /\ UNCHANGED withdrawn
        BY <3>8 DEF CopyObject, Running, archive
      <4> QED BY <3>8, <4>1, <2>typed, CopyObjectBecomes DEF Becomes
    <3>9. CASE SendReturn(s)
      BY <3>9, <2>typed DEF SendReturn, archive
    <3>10. CASE SendFails(s)
      BY <3>10, <2>typed DEF SendFails, archive
    <3>11. CASE SendDies(s)
      BY <3>11, <2>typed DEF SendDies, archive
    <3> QED
      BY <2>2, <2>same, <3>1, <3>2, <3>3, <3>4, <3>5, <3>6, <3>7, <3>8, <3>9, <3>10,
         <3>11, <3>12
        DEF Sending, sending, archive, handed
  <2>3. ASSUME NEW s \in Site, Receiving(s) PROVE ConsentInv'
    BY <2>3, <2>same
    DEF Receiving, ReceiveBegin, TakeObject, ResolveRecord, TakeRecord, ReceiveReturn, Refuse,
       ReceiveDies, sending, archive, handed
  <2>4. CASE UNCHANGED vars
    BY <2>4, <2>same DEF vars, sending, archive, handed
  <2> QED BY <2>1, <2>2, <2>3, <2>4 DEF Next
<1> QED BY <1>1, <1>2, TypeCorrect, PTL DEF Spec

(* A bundle names nothing withdrawn all through its send, and no object but *)
(* for a record it names (WithheldStaysHome).                               *)
THEOREM WithheldStaysHomeCorrect == Spec => WithheldStaysHome
<1> DEFINE Home ==
      \A s \in Site : SendReturn(s) =>
        LET list == bundle'[s].list
        IN /\ list \cap send[s].banned = {}
           /\ list \cap Object \subseteq Objects(Records(list))
<1>1. TypeInv /\ ConsentInv /\ [Next]_vars => [Home]_vars
  <2> SUFFICES ASSUME TypeInv, ConsentInv, NEW s \in Site, SendReturn(s)
               PROVE  /\ bundle'[s].list \cap send[s].banned = {}
                      /\ bundle'[s].list \cap Object \subseteq Objects(Records(bundle'[s].list))
    OBVIOUS
  <2>1. bundle'[s].list = send[s].list /\ send[s] # Idle /\ send[s].at = "write"
    BY DEF SendReturn, Running, TypeInv, BundleTyped
  <2> QED BY <2>1 DEF ConsentInv
<1> QED BY <1>1, TypeCorrect, ConsentCorrect, PTL DEF Spec, WithheldStaysHome

-----------------------------------------------------------------------------
(* What a send owes and does not select, the peer has had: the chunk is in  *)
(* a world both know, and both manifests have the same records of it.       *)
LEMMA NotSelected ==
  ASSUME TypeInv, ArchiveInv, OweInv, NEW s \in Site, send[s] # Idle, send[s].at = "select"
  PROVE  send[s].had \ send[s].gone \subseteq Selected(s) \cup Got(send[s].to)
<1> SUFFICES ASSUME NEW o \in send[s].had \ send[s].gone, o \notin Selected(s)
             PROVE  o \in Got(send[s].to)
  OBVIOUS
<1> DEFINE theirs == send[s].theirs
           c == ChunkOf[o]
<1>1. o \in held[s] /\ o \in Obs /\ o \in send[s].seen \ send[s].hidden
  BY DEF OweInv, TypeInv, ArchiveTyped
<1>2. c \in Chunk /\ WorldOf[c] \in known[s]
  BY <1>1, TransferAssumption DEF ArchiveInv
<1>3. c \notin ChunksTheyDisagreeAbout(Manifest(s), theirs)
  BY <1>1 DEF Selected
<1>4. theirs # NoFile
  BY <1>2, <1>3 DEF ChunksTheyDisagreeAbout
<1> DEFINE e == Compare(Manifest(s), theirs)
           differ == {k \in Chunk : /\ WorldOf[k] \in Manifest(s).worlds \cap theirs.worlds
                                    /\ RecordsOf(k, Manifest(s).records) # RecordsOf(k, theirs.records)}
<1>5. /\ e.localWorlds = Manifest(s).worlds \ theirs.worlds
      /\ e.local \cup e.remote \cup e.both = differ
  <2>1. /\ e.local = differ \ {ChunkOf[r] : r \in theirs.records}
        /\ e.remote = differ \ {ChunkOf[r] : r \in Manifest(s).records}
        /\ e.both = differ \cap {ChunkOf[r] : r \in Manifest(s).records}
                           \cap {ChunkOf[r] : r \in theirs.records}
        /\ e.localWorlds = Manifest(s).worlds \ theirs.worlds
    BY DEF Compare
  <2>2. differ \subseteq {ChunkOf[r] : r \in Manifest(s).records}
                       \cup {ChunkOf[r] : r \in theirs.records}
    BY DEF RecordsOf
  <2> HIDE DEF differ, e
  <2> QED BY <2>1, <2>2
<1>6. e.localWorlds = {} /\ c \notin e.local \cup e.remote \cup e.both
  BY <1>2, <1>3, <1>4 DEF ChunksTheyDisagreeAbout
<1>7. RecordsOf(c, held[s]) = RecordsOf(c, theirs.records)
  BY <1>2, <1>5, <1>6 DEF Manifest
<1>8. o \in theirs.records
  BY <1>1, <1>7 DEF RecordsOf
<1> QED BY <1>4, <1>8 DEF OweInv

(* So what is selected is whole.                                            *)
LEMMA SelectedWhole ==
  ASSUME TypeInv, ArchiveInv, OweInv, NEW s \in Site, send[s] # Idle, send[s].at = "select"
  PROVE  Whole(ToSend(s), send[s].had \ send[s].gone, send[s].had, send[s].signed, send[s].to)
<1>1. Selected(s) \subseteq ToSend(s)
  BY DEF ToSend
<1>2. /\ send[s].signed = {}
      /\ Objects(send[s].had) \subseteq send[s].offer \cup Kept(send[s].to)
  BY DEF OweInv
<1> QED BY <1>1, <1>2, NotSelected, ToSendSplit, ObjectsOf DEF Whole

(* The walk, the redactions and the manifest are read at different times,   *)
(* and nothing the send owes is lost between them.                          *)
THEOREM OweCorrect == Spec => []OweInv
<1> USE DEF OweInv
<1>1. Init => OweInv
  BY DEF Init
<1>2. TypeInv /\ ArchiveInv /\ HandedInv /\ OweInv /\ [Next]_vars => OweInv'
  <2> SUFFICES ASSUME TypeInv, ArchiveInv, HandedInv, OweInv, [Next]_vars PROVE OweInv'
    OBVIOUS
  <2>typed. /\ send \in [Site -> Sends \cup {Idle}] /\ withdrawn \in [Site -> SUBSET Obs]
            /\ held \in [Site -> SUBSET Obs] /\ known \in [Site -> SUBSET World]
    BY DEF TypeInv, SendTyped, ArchiveTyped
  <2>to. \A s \in Site : send[s] # Idle => send[s].to \in Site
    BY <2>typed DEF Sends
  <2>grows. \A t \in Site : Got(t) \subseteq Got(t)' /\ Kept(t) \subseteq Kept(t)'
    BY Grows
  <2>whole. ASSUME NEW list, NEW owe, NEW had, NEW sigs, NEW t \in Site,
                   Whole(list, owe, had, sigs, t)
            PROVE  Whole(list, owe, had, sigs, t)'
    BY <2>whole, <2>grows DEF Whole
  <2>more. ASSUME UNCHANGED <<send, withdrawn>>, \A s \in Site : held[s] \subseteq held'[s]
           PROVE  OweInv'
    BY <2>more, <2>to, <2>grows DEF Whole
  <2>same. UNCHANGED <<send, withdrawn, held>> => OweInv'
    BY <2>more
  <2>1. ASSUME NEW s \in Site, Local(s) PROVE OweInv'
    <3>1. ASSUME NEW o \in Obs, Import(s, o) PROVE OweInv'
      <4>1. \A t \in Site : held[t] \subseteq held'[t]
        BY <3>1, <2>typed DEF Import, Hold
      <4>2. UNCHANGED <<send, withdrawn>>
        BY <3>1 DEF Import, sending
      <4> QED BY <4>1, <4>2, <2>more
    <3>2. ASSUME NEW o \in Obs, Declare(s, o) PROVE OweInv'
      <4>1. CASE send[s] = Idle
        BY <3>2, <4>1, <2>to, <2>grows, <2>typed DEF Declare, NoteGone, Whole
      <4>2. CASE send[s] # Idle
        <5>1. NoteGone(s, {o})
          BY <3>2 DEF Declare
        <5>2. {o} \in SUBSET Obs
          BY <2>typed
        <5> QED
          BY <3>2, <4>2, <5>1, <5>2, <2>to, <2>grows, <2>typed, NoteGoneBecomes
          DEF Declare, Becomes, Whole
      <4> QED BY <4>1, <4>2
    <3>3. ASSUME NEW o \in Obs, Withdraw(s, o) PROVE OweInv'
      <4>1. CASE send[s] = Idle
        BY <3>3, <4>1, <2>to, <2>grows, <2>typed DEF Withdraw, NoteFreed, Whole
      <4>2. CASE send[s] # Idle
        <5>1. NoteFreed(s, o)
          BY <3>3 DEF Withdraw
        <5>2. o \in Obs
          OBVIOUS
        <5> QED
          BY <3>3, <4>2, <5>1, <5>2, <2>to, <2>grows, <2>typed, NoteFreedBecomes
          DEF Withdraw, Becomes, Whole
      <4> QED BY <4>1, <4>2
    <3>4. CASE Purge(s)
      <4>1. CASE send[s] = Idle
        BY <3>4, <4>1, <2>to, <2>grows, <2>typed DEF Purge, NoteGone, Whole
      <4>2. CASE send[s] # Idle
        <5>1. NoteGone(s, held[s] \cap withdrawn[s])
          BY <3>4 DEF Purge
        <5>2. held[s] \cap withdrawn[s] \in SUBSET Obs
          BY <2>typed
        <5> QED
          BY <3>4, <4>2, <5>1, <5>2, <2>to, <2>grows, <2>typed, NoteGoneBecomes
          DEF Purge, Becomes, Whole
      <4> QED BY <4>1, <4>2
    <3> QED BY <2>1, <2>same, <3>1, <3>2, <3>3, <3>4
        DEF Local, Sign, WriteFingerprint, WriteManifest, sending, archive, handed
  <2>2. ASSUME NEW s \in Site, Sending(s) PROVE OweInv'
    <3>1. ASSUME NEW t \in Site, SendBegin(s, t) PROVE OweInv'
      <4>1. PICK theirs \in {NoFile, manifest[t]} :
             send' = [send EXCEPT ![s] =
               [at |-> "list", to |-> t, offer |-> Negotiate(Fingerprint(s), fingerprint[t]),
                theirs |-> theirs, servers |-> {}, walk |-> {}, seen |-> {}, hidden |-> {},
                list |-> {}, todo |-> {}, signed |-> {},
                had |-> held[s], gone |-> withdrawn[s], banned |-> withdrawn[s]]]
        BY <3>1 DEF SendBegin
      <4> DEFINE d == send'[s]
      <4>2. /\ d.at = "list" /\ d.to = t /\ d.offer = Objects(held[s]) \ fingerprint[t]
            /\ d.theirs = theirs /\ d.had = held[s] /\ d.gone = withdrawn[s] /\ d.signed = {}
            /\ \A r \in Site \ {s} : send'[r] = send[r]
        BY <4>1, <2>typed DEF Negotiate, Fingerprint
      <4>3. UNCHANGED archive /\ fingerprint[t] # NoFile
        BY <3>1 DEF SendBegin
      <4>4. /\ fingerprint[t] \subseteq Kept(t)
            /\ (manifest[t] # NoFile => manifest[t].records \subseteq Got(t))
        BY <4>3 DEF HandedInv
      <4>5. UNCHANGED <<held, withdrawn>>
        BY <4>3 DEF archive
      <4> HIDE DEF d
      <4>6. /\ Objects(d.had) \subseteq d.offer \cup Kept(t)'
            /\ (d.theirs # NoFile => d.theirs.records \subseteq Got(t)')
        BY <4>2, <4>4, <2>grows
      <4> QED BY <4>2, <4>5, <4>6, <2>to, <2>grows DEF Whole, d
    <3>2. CASE SendList(s)
      <4>1. send[s] # Idle /\ send[s].at = "list" /\ UNCHANGED <<withdrawn, held, known>>
        BY <3>2 DEF SendList, Running, archive
      <4>2. \A o \in held[s] : WorldOf[ChunkOf[o]] \in known[s]
        BY DEF ArchiveInv
      <4>3. \A o \in held[s] : ServerOf[WorldOf[ChunkOf[o]]] \in Serving(s)
        BY <4>2 DEF Serving
      <4> QED BY <3>2, <4>1, <2>to, <2>grows, SendListBecomes, <4>3 DEF Becomes, Whole
    <3>12. ASSUME NEW v \in Server, SendDimensions(s, v) PROVE OweInv'
      <4>1. send[s] # Idle /\ send[s].at = "walk" /\ UNCHANGED <<withdrawn, held, known>>
        BY <3>12 DEF SendDimensions, Running, archive
      <4>2. send[s].walk = {}
        BY <3>12 DEF SendDimensions
      <4>3. \A o \in send[s].had \ send[s].gone : WorldOf[ChunkOf[o]] \in known[s]
        BY <4>1 DEF ArchiveInv
      <4> QED
        BY <3>12, <4>1, <2>to, <2>grows, SendDimensionsBecomes, <4>2, <4>3 DEF Becomes, Whole
    <3>3. ASSUME NEW w \in World, SendWalk(s, w) PROVE OweInv'
      <4>1. send[s] # Idle /\ send[s].at = "walk" /\ UNCHANGED <<withdrawn, held, known>>
        BY <3>3 DEF SendWalk, Running, archive
      <4> QED BY <3>3, <4>1, <2>to, <2>grows, SendWalkBecomes DEF Becomes, Whole
    <3>4. CASE SendWithhold(s)
      <4>1. send[s] # Idle /\ send[s].at = "walk" /\ UNCHANGED <<withdrawn, held, known>>
        BY <3>4 DEF SendWithhold, Walked, Running, archive
      <4>2. send[s].walk = {} /\ send[s].servers = {}
        BY <3>4 DEF SendWithhold, Walked
      <4> QED BY <3>4, <4>1, <2>to, <2>grows, SendWithholdBecomes, <4>2 DEF Becomes, Whole
    <3>5. CASE SendNothing(s)
      <4>1. /\ UNCHANGED <<withdrawn, held>>
            /\ send'[s] = Idle
            /\ \A t \in Site \ {s} : send'[t] = send[t]
        BY <3>5, <2>typed DEF SendNothing, archive
      <4> QED BY <4>1, <2>to, <2>grows DEF Whole
    <3>6. CASE SendSelect(s)
      <4>1. send[s] # Idle /\ send[s].at = "select" /\ UNCHANGED <<withdrawn, held, known>>
        BY <3>6 DEF SendSelect, Running, archive
      <4>2. Whole(ToSend(s), send[s].had \ send[s].gone, send[s].had, send[s].signed, send[s].to)
        BY <4>1, SelectedWhole
      <4> QED BY <3>6, <4>1, <2>to, <2>grows, SendSelectBecomes, <4>2 DEF Becomes, Whole
    <3>7. ASSUME NEW o \in Obs, WriteRecord(s, o) PROVE OweInv'
      <4>1. send[s] # Idle /\ send[s].at = "write" /\ UNCHANGED <<withdrawn, held, known>>
        BY <3>7 DEF WriteRecord, Running, archive
      <4>2. o \in Records(send[s].list)
        BY <3>7, <4>1 DEF WriteRecord, Records, TypeInv, SendTyped
      <4> QED BY <3>7, <4>1, <2>to, <2>grows, WriteRecordBecomes, <4>2 DEF Becomes, Whole
    <3>8. ASSUME NEW x \in Object, CopyObject(s, x) PROVE OweInv'
      <4>1. send[s] # Idle /\ send[s].at = "write" /\ UNCHANGED <<withdrawn, held, known>>
        BY <3>8 DEF CopyObject, Running, archive
      <4> QED BY <3>8, <4>1, <2>to, <2>grows, CopyObjectBecomes DEF Becomes, Whole
    <3>9. CASE SendReturn(s)
      <4>1. /\ UNCHANGED <<withdrawn, held>>
            /\ send'[s] = Idle
            /\ \A t \in Site \ {s} : send'[t] = send[t]
        BY <3>9, <2>typed DEF SendReturn, archive
      <4> QED BY <4>1, <2>to, <2>grows DEF Whole
    <3>10. CASE SendFails(s)
      <4>1. /\ UNCHANGED <<withdrawn, held>>
            /\ send'[s] = Idle
            /\ \A t \in Site \ {s} : send'[t] = send[t]
        BY <3>10, <2>typed DEF SendFails, archive
      <4> QED BY <4>1, <2>to, <2>grows DEF Whole
    <3>11. CASE SendDies(s)
      <4>1. /\ UNCHANGED <<withdrawn, held>>
            /\ send'[s] = Idle
            /\ \A t \in Site \ {s} : send'[t] = send[t]
        BY <3>11, <2>typed DEF SendDies, archive
      <4> QED BY <4>1, <2>to, <2>grows DEF Whole
    <3> QED
      BY <2>2, <2>same, <3>1, <3>2, <3>3, <3>4, <3>5, <3>6, <3>7, <3>8, <3>9, <3>10,
         <3>11, <3>12
        DEF Sending, sending, archive, handed
  <2>3. ASSUME NEW s \in Site, Receiving(s) PROVE OweInv'
    <3>1. ASSUME NEW o \in Obs, TakeRecord(s, o) PROVE OweInv'
      <4>1. \A t \in Site : held[t] \subseteq held'[t]
        BY <3>1, <2>typed DEF TakeRecord, Hold
      <4>2. UNCHANGED <<send, withdrawn>>
        BY <3>1 DEF TakeRecord, sending
      <4> QED BY <4>1, <4>2, <2>more
    <3> QED BY <2>3, <2>same, <3>1
        DEF Receiving, ReceiveBegin, TakeObject, ResolveRecord, ReceiveReturn, Refuse, ReceiveDies,
            sending, archive, handed
  <2>4. CASE UNCHANGED vars
    BY <2>4, <2>same DEF vars, sending, archive, handed
  <2> QED BY <2>1, <2>2, <2>3, <2>4 DEF Next
<1> QED BY <1>1, <1>2, TypeCorrect, ArchiveCorrect, HandedCorrect, PTL DEF Spec

-----------------------------------------------------------------------------
(* A directory keeps the promise of the send that listed it through later   *)
(* sends, deaths and torn files, and a receive that of its copy.            *)
THEOREM BundleCorrect == Spec => []BundleInv
<1> USE DEF BundleInv
<1>1. Init => BundleInv
  BY DEF Init, NoBundle
<1>2. TypeInv /\ OweInv /\ BundleInv /\ [Next]_vars => BundleInv'
  <2> SUFFICES ASSUME TypeInv, OweInv, BundleInv, [Next]_vars PROVE BundleInv'
    OBVIOUS
  <2>typed. /\ bundle \in [Site -> Directories] /\ send \in [Site -> Sends \cup {Idle}]
            /\ receive \in [Site -> Receives \cup {Idle}]
    BY DEF TypeInv, SendTyped, BundleTyped, ReceiveTyped
  <2>to. \A s \in Site : bundle[s].to \in Site
    BY <2>typed DEF Directories
  <2>grows. \A t \in Site : Got(t) \subseteq Got(t)' /\ Kept(t) \subseteq Kept(t)'
    BY Grows
  <2>whole. \A list, owe, had, sigs : \A t \in Site :
              Whole(list, owe, had, sigs, t) => Whole(list, owe, had, sigs, t)'
    BY <2>grows DEF Whole
  <2>dir. ASSUME UNCHANGED receive,
                 \A s \in Site : /\ bundle'[s].list = bundle[s].list
                                 /\ bundle'[s].to = bundle[s].to
                                 /\ bundle'[s].signed = bundle[s].signed
                                 /\ bundle'[s].had = bundle[s].had
                                 /\ bundle'[s].owe = bundle[s].owe
          PROVE  BundleInv'
    BY <2>dir, <2>to, <2>grows, <2>whole
  <2>same. UNCHANGED <<bundle, receive>> => BundleInv'
    BY <2>dir
  <2>1. ASSUME NEW s \in Site, Local(s) PROVE BundleInv'
    BY <2>1, <2>same
    DEF Local, Import, Declare, Withdraw, Sign, Purge, WriteFingerprint, WriteManifest,
       sending
  <2>2. ASSUME NEW s \in Site, Sending(s) PROVE BundleInv'
    <3>1. ASSUME NEW o \in Obs, WriteRecord(s, o) PROVE BundleInv'
      <4>1. bundle[s].files \cup {o} \in SUBSET File
        BY <2>typed DEF Directories, File
      <4>2. /\ bundle' = [bundle EXCEPT ![s].files = bundle[s].files \cup {o}]
            /\ UNCHANGED receive
        BY <3>1 DEF WriteRecord
      <4> QED BY <4>1, <4>2, FilesBecome, <2>dir
    <3>2. ASSUME NEW x \in Object, CopyObject(s, x) PROVE BundleInv'
      <4>1. bundle[s].files \cup {x} \in SUBSET File
        BY <2>typed DEF Directories, File
      <4>2. /\ bundle' = [bundle EXCEPT ![s].files = bundle[s].files \cup {x}]
            /\ UNCHANGED receive
        BY <3>2 DEF CopyObject
      <4> QED BY <4>1, <4>2, FilesBecome, <2>dir
    <3>3. CASE SendReturn(s)
      <4>1. send[s] # Idle /\ send[s].at = "write" /\ UNCHANGED <<archive, receive>>
        BY <3>3 DEF SendReturn, Running
      <4>2. /\ bundle'[s].to = send[s].to /\ bundle'[s].list = send[s].list
            /\ bundle'[s].signed = send[s].signed /\ bundle'[s].had = send[s].had
            /\ bundle'[s].owe = send[s].had \ send[s].gone
            /\ \A t \in Site \ {s} : bundle'[t] = bundle[t]
        BY <3>3, <2>typed DEF SendReturn
      <4>3. send[s].to \in Site
        BY <4>1, <2>typed DEF Sends
      <4>4. Whole(send[s].list, send[s].had \ send[s].gone, send[s].had, send[s].signed, send[s].to)
        BY <4>1 DEF OweInv
      <4>5. \A list, owe, had, sigs, t :
             /\ list = send[s].list /\ owe = send[s].had \ send[s].gone /\ had = send[s].had
             /\ sigs = send[s].signed /\ t = send[s].to
             => Whole(list, owe, had, sigs, t)'
        BY <4>3, <4>4, <2>whole
      <4> QED BY <4>1, <4>2, <4>3, <4>5, <2>to, <2>grows, <2>whole
    <3>4. CASE SendDies(s)
      <4>1. UNCHANGED receive
        BY <3>4 DEF SendDies
      <4>2. ASSUME NEW f, bundle' = [bundle EXCEPT ![s].files = @ \ {f}] PROVE BundleInv'
        <5>1. bundle' = [bundle EXCEPT ![s].files = bundle[s].files \ {f}]
          BY <4>2
        <5>2. bundle[s].files \ {f} \in SUBSET File
          BY <2>typed DEF Directories
        <5> QED BY <4>1, <5>1, <5>2, FilesBecome, <2>dir
      <4>3. CASE bundle' = [bundle EXCEPT ![s].list = NoFile]
        BY <4>1, <4>3, ListTorn, <2>to, <2>grows, <2>whole
      <4> QED BY <3>4, <4>1, <4>2, <4>3, <2>same DEF SendDies
    <3> QED BY <2>2, <2>same, <3>1, <3>2, <3>3, <3>4
        DEF Sending, SendBegin, SendList, SendDimensions, SendWalk, SendWithhold, SendNothing,
            SendSelect, SendFails, sending
  <2>3. ASSUME NEW s \in Site, Receiving(s) PROVE BundleInv'
    <3>1. ASSUME NEW t \in Site, ReceiveBegin(s, t) PROVE BundleInv'
      <4>1. receive' = [receive EXCEPT ![s] = Received(bundle[t])]
        BY <3>1 DEF ReceiveBegin
      <4>2. bundle[t].list # NoFile /\ bundle[t].to = s /\ UNCHANGED bundle
        BY <3>1 DEF ReceiveBegin, sending
      <4>3. /\ receive'[s].bundle = bundle[t]
            /\ receive'[s].todo = bundle[t].list
            /\ \A r \in Site \ {s} : receive'[r] = receive[r]
        BY <4>1, <2>typed DEF Received
      <4> QED BY <4>2, <4>3, <2>to, <2>grows, <2>whole DEF Records
    <3>2. ASSUME NEW x \in Object, TakeObject(s, x) PROVE BundleInv'
      <4>1. UNCHANGED bundle
        BY <3>2 DEF TakeObject, sending
      <4>2. x \in Kept(s)' /\ x \notin Obs
        BY <3>2, TransferAssumption DEF TakeObject, Kept, TypeInv, ArchiveTyped
      <4> QED
        BY <3>2, <4>1, <4>2, <2>to, <2>grows, <2>whole, TakeObjectBecomes DEF Takes, Records
    <3>3. ASSUME NEW o \in Obs, TakeRecord(s, o) PROVE BundleInv'
      <4>1. UNCHANGED bundle
        BY <3>3 DEF TakeRecord, sending
      <4>2. o \in Got(s)' /\ o \notin Object
        BY <3>3, TransferAssumption DEF TakeRecord, Hold, Got, TypeInv, ArchiveTyped
      <4> QED
        BY <3>3, <4>1, <4>2, <2>to, <2>grows, <2>whole, TakeRecordBecomes DEF Takes, Records
    <3>7. ASSUME NEW o \in Obs, ResolveRecord(s, o) PROVE BundleInv'
      <4>1. UNCHANGED bundle
        BY <3>7 DEF ResolveRecord, sending
      <4> QED BY <3>7, <4>1, <2>to, <2>grows, <2>whole, ResolveRecordBecomes DEF Takes
    <3>4. CASE ReceiveReturn(s)
      <4>1. /\ UNCHANGED bundle
            /\ receive'[s] = Idle
            /\ \A t \in Site \ {s} : receive'[t] = receive[t]
        BY <3>4, <2>typed DEF ReceiveReturn, sending
      <4> QED BY <4>1, <2>to, <2>grows, <2>whole
    <3>5. CASE Refuse(s)
      <4>1. /\ UNCHANGED bundle
            /\ receive'[s] = Idle
            /\ \A t \in Site \ {s} : receive'[t] = receive[t]
        BY <3>5, <2>typed DEF Refuse, sending
      <4> QED BY <4>1, <2>to, <2>grows, <2>whole
    <3>6. CASE ReceiveDies(s)
      <4>1. /\ UNCHANGED bundle
            /\ receive'[s] = Idle
            /\ \A t \in Site \ {s} : receive'[t] = receive[t]
        BY <3>6, <2>typed DEF ReceiveDies, sending
      <4> QED BY <4>1, <2>to, <2>grows, <2>whole
    <3> QED BY <2>3, <2>same, <3>1, <3>2, <3>3, <3>4, <3>5, <3>6, <3>7
        DEF Receiving, sending
  <2>4. CASE UNCHANGED vars
    BY <2>4, <2>same DEF vars, sending
  <2> QED BY <2>1, <2>2, <2>3, <2>4 DEF Next
<1> QED BY <1>1, <1>2, TypeCorrect, OweCorrect, PTL DEF Spec

(* A receive with nothing left to take signs only records its site has had. *)
LEMMA ReceivedSigned ==
  ASSUME BundleInv, NEW s \in Site, receive[s] # Idle, receive[s].todo = {}
  PROVE  receive[s].bundle.signed \subseteq Got(s)
BY DEF BundleInv, Whole

(* Signatures are of records the archive accepted (SignedHasRecord).        *)
THEOREM SignedHasRecordCorrect == Spec => []SignedHasRecord
<1> USE DEF SignedHasRecord
<1>1. Init => SignedHasRecord
  BY DEF Init
<1>2. TypeInv /\ BundleInv /\ SignedHasRecord /\ [Next]_vars => SignedHasRecord'
  <2> SUFFICES ASSUME TypeInv, BundleInv, SignedHasRecord, [Next]_vars PROVE SignedHasRecord'
    OBVIOUS
  <2>typed. signed \in [Site -> SUBSET Obs]
    BY DEF TypeInv, ArchiveTyped
  <2>grows. \A t \in Site : held[t] \cup purged[t] \subseteq held'[t] \cup purged'[t]
    BY Grows DEF Got
  <2>same. UNCHANGED signed => SignedHasRecord'
    BY <2>grows
  <2>1. ASSUME NEW s \in Site, Local(s) PROVE SignedHasRecord'
    <3>1. ASSUME NEW o \in Obs, Sign(s, o) PROVE SignedHasRecord'
      BY <3>1, <2>grows, <2>typed DEF Sign
    <3> QED BY <2>1, <2>same, <3>1
        DEF Local, Import, Declare, Withdraw, Purge, WriteFingerprint, WriteManifest,
            sending, archive
  <2>2. ASSUME NEW s \in Site, Sending(s) PROVE SignedHasRecord'
    BY <2>2, <2>same
    DEF Sending, SendBegin, SendList, SendDimensions, SendWalk, SendWithhold, SendNothing,
       SendSelect, WriteRecord, CopyObject, SendReturn, SendFails, SendDies, sending, archive
  <2>3. ASSUME NEW s \in Site, Receiving(s) PROVE SignedHasRecord'
    <3>1. CASE ReceiveReturn(s)
      BY <3>1, <2>grows, <2>typed, ReceivedSigned DEF ReceiveReturn, Got
    <3>2. CASE ReceiveDies(s)
      <4>1. PICK S \in SUBSET receive[s].bundle.signed :
             /\ S # {} => receive[s].todo = {}
             /\ signed' = [signed EXCEPT ![s] = @ \cup S]
        BY <3>2 DEF ReceiveDies
      <4>2. S \subseteq Got(s)
        BY <3>2, <4>1, ReceivedSigned DEF ReceiveDies
      <4> QED BY <4>1, <4>2, <2>grows, <2>typed DEF Got
    <3> QED BY <2>3, <2>same, <3>1, <3>2
        DEF Receiving, ReceiveBegin, TakeObject, ResolveRecord, TakeRecord, Refuse, sending, archive
  <2>4. CASE UNCHANGED vars
    BY <2>4, <2>same DEF vars, sending, archive
  <2> QED BY <2>1, <2>2, <2>3, <2>4 DEF Next
<1> QED BY <1>1, <1>2, TypeCorrect, BundleCorrect, PTL DEF Spec

(* A record cannot be resolved because its site purged the object, or       *)
(* because the sender got it after its send began (RefusedForCause).        *)
THEOREM RefusedForCauseCorrect == Spec => []RefusedForCause
<1>1. TypeInv /\ BundleInv => RefusedForCause
  <2> SUFFICES ASSUME TypeInv, BundleInv, NEW s \in Site, NEW o \in Unresolved(s),
                      o \in receive[s].bundle.had, NEW x \in Refs[o] \ stored[s]
               PROVE  x \in Objects(purged[s])
    BY DEF RefusedForCause
  <2>1. /\ receive[s] # Idle
        /\ receive[s].todo \cap Object = {}
        /\ o \in Records(receive[s].todo)
    BY DEF Unresolved
  <2>2. receive[s].todo \subseteq receive[s].bundle.list
    BY <2>1, ReceiveFields
  <2>3. x \in receive[s].bundle.list \cup Kept(s)
    BY <2>1, <2>2 DEF BundleInv, Whole, Records
  <2>4. x \in Object
    BY <2>1, TransferAssumption DEF Records
  <2>5. x \in Kept(s)
    BY <2>1, <2>3, <2>4 DEF BundleInv
  <2> QED BY <2>5 DEF Kept
<1> QED BY <1>1, TypeCorrect, BundleCorrect, PTL

-----------------------------------------------------------------------------
(* The chunks two manifests disagree about, in worlds both know.            *)
Differ(mine, theirs) ==
  {c \in Chunk : /\ WorldOf[c] \in mine.worlds \cap theirs.worlds
                 /\ RecordsOf(c, mine.records) # RecordsOf(c, theirs.records)}

(* Compare names each of them once, as the one side's, the other's or       *)
(* both's.                                                                  *)
LEMMA CompareSplits ==
  ASSUME NEW mine, NEW theirs
  PROVE  LET d == Compare(mine, theirs)
         IN /\ d.localWorlds = mine.worlds \ theirs.worlds
            /\ d.remoteWorlds = theirs.worlds \ mine.worlds
            /\ d.local \cup d.remote \cup d.both = Differ(mine, theirs)
            /\ \A o \in theirs.records : ChunkOf[o] \notin d.local
<1> DEFINE d == Compare(mine, theirs)
           Seen(records) == {ChunkOf[r] : r \in records}
           differ == Differ(mine, theirs)
<1>1. /\ d.localWorlds = mine.worlds \ theirs.worlds
      /\ d.remoteWorlds = theirs.worlds \ mine.worlds
      /\ d.local = differ \ Seen(theirs.records)
      /\ d.remote = differ \ Seen(mine.records)
      /\ d.both = differ \cap Seen(mine.records) \cap Seen(theirs.records)
  BY DEF Compare, Differ
<1>2. differ \subseteq Seen(mine.records) \cup Seen(theirs.records)
  BY DEF RecordsOf, Differ
<1>3. \A o \in theirs.records : ChunkOf[o] \in Seen(theirs.records)
  OBVIOUS
<1> HIDE DEF d, differ, Seen
<1>4. /\ d.local \cup d.remote \cup d.both = differ
      /\ \A o \in theirs.records : ChunkOf[o] \notin d.local
  BY <1>1, <1>2, <1>3
<1> QED BY <1>1, <1>4 DEF d, differ

(* A side whose records are a part of the other's has nothing the other     *)
(* lacks.                                                                   *)
LEMMA NothingOfItsOwn ==
  ASSUME NEW mine, NEW theirs, mine.records \subseteq theirs.records
  PROVE  Compare(mine, theirs).local = {}
<1> SUFFICES ASSUME NEW c \in Compare(mine, theirs).local PROVE FALSE
  OBVIOUS
<1>1. c \in Differ(mine, theirs) /\ \A o \in theirs.records : ChunkOf[o] # c
  BY CompareSplits
<1>2. RecordsOf(c, mine.records) = {} /\ RecordsOf(c, theirs.records) = {}
  BY <1>1 DEF RecordsOf
<1> QED BY <1>1, <1>2 DEF Differ

(* Such sides with the same worlds are settled exactly when they hold the   *)
(* same records.                                                            *)
LEMMA SettledMeansSame ==
  ASSUME NEW mine, NEW theirs, mine.worlds = theirs.worlds,
         mine.records \subseteq theirs.records, theirs.records \subseteq Obs,
         \A o \in theirs.records : WorldOf[ChunkOf[o]] \in theirs.worlds
  PROVE  Settled(Compare(mine, theirs)) <=> theirs.records = mine.records
<1> DEFINE d == Compare(mine, theirs)
<1>1. /\ d.localWorlds = {}
      /\ d.remoteWorlds = {}
      /\ d.local \cup d.remote \cup d.both = Differ(mine, theirs)
  BY CompareSplits
<1>2. Settled(d) <=> Differ(mine, theirs) = {}
  <2> HIDE DEF d
  <2> QED BY <1>1 DEF Settled, SendNeeded, ReceiveNeeded
<1>3. ASSUME theirs.records = mine.records PROVE Differ(mine, theirs) = {}
  BY <1>3 DEF Differ
<1>4. ASSUME Differ(mine, theirs) = {}, NEW o \in theirs.records PROVE o \in mine.records
  <2>1. ChunkOf[o] \in Chunk /\ WorldOf[ChunkOf[o]] \in mine.worlds \cap theirs.worlds
    BY TransferAssumption
  <2>2. RecordsOf(ChunkOf[o], mine.records) = RecordsOf(ChunkOf[o], theirs.records)
    BY <1>4, <2>1 DEF Differ
  <2> QED BY <2>2 DEF RecordsOf
<1> QED BY <1>2, <1>3, <1>4

(* And their fingerprints agree, on every chunk both have.                  *)
LEMMA FingerprintsAgree ==
  ASSUME NEW mine, NEW theirs, mine \subseteq theirs, mine # {}
  PROVE  FingerprintReport(States(mine), States(theirs)) = "identical"
<1> DEFINE L == States(mine)
           R == States(theirs)
           Seen(states) == {state.chunk : state \in states}
           shared == Seen(L) \cap Seen(R)
           Ahead(a, b) == {k \in shared : \E state \in a \ b : state.chunk = k}
           c == CompareFingerprints(L, R)
<1>1. L \subseteq R /\ L # {}
  BY DEF States
<1> HIDE DEF L, R
<1>2. shared # {} /\ Ahead(L, R) = {}
  BY <1>1
<1>3. c.shared = shared /\ c.content = Ahead(L, R) \cap Ahead(R, L)
  BY DEF CompareFingerprints
<1>4. c.shared # {} /\ c.content = {}
  BY <1>2, <1>3
<1> QED BY <1>4 DEF FingerprintReport, L, R

(* A receive with nothing left to take has everything the send owed.        *)
LEMMA ReceivedOwed ==
  ASSUME TypeInv, BundleInv, NEW s \in Site, receive[s] # Idle, receive[s].todo = {}
  PROVE  receive[s].bundle.owe \subseteq held[s] \cup purged[s]
<1>1. receive[s].bundle.owe \subseteq Obs
  BY ReceiveFields DEF Directories
<1>2. receive[s].bundle.owe \subseteq receive[s].bundle.list \cup Got(s)
  BY DEF BundleInv, Whole
<1>3. Records(receive[s].bundle.list) \subseteq Got(s)
  BY DEF BundleInv
<1> QED BY <1>1, <1>2, <1>3 DEF Records, Got

(* A receive or a send that reports success has delivered what it owed, and *)
(* comparing the two sites then tells the truth (Delivers).                 *)
THEOREM DeliversCorrect == Spec => Delivers
<1> DEFINE Owed(s) ==
             ReceiveReturn(s) => receive[s].bundle.owe \subseteq held'[s] \cup purged'[s]
           Compared(s) ==
             ReceiveReturn(s) => \A t \in Site \ {s} :
               held[t] \subseteq receive[s].bundle.owe \ purged[s] =>
                 LET d == Compare(Manifest(t), Manifest(s)')
                 IN /\ d.local = {}
                    /\ held[t] # {} =>
                         FingerprintReport(States(held[t]), States(held'[s])) = "identical"
                    /\ known[t] = known[s] => (Settled(d) <=> held'[s] = held[t])
           Nothing(s) ==
             SendNothing(s) \/ (SendReturn(s) /\ send[s].list = {}) =>
               LET t == send[s].to
               IN send[s].had \ send[s].gone \subseteq held[t] \cup purged[t]
           Delivered ==
       \A s \in Site :
       /\ ReceiveReturn(s) =>
            receive[s].bundle.owe \subseteq held'[s] \cup purged'[s]
       /\ ReceiveReturn(s) => \A t \in Site \ {s} :
            held[t] \subseteq receive[s].bundle.owe \ purged[s] =>
              LET d == Compare(Manifest(t), Manifest(s)')
              IN /\ d.local = {}
                 /\ held[t] # {} =>
                      FingerprintReport(States(held[t]), States(held'[s])) = "identical"
                 /\ known[t] = known[s] =>
                      (Settled(d) <=> held'[s] = held[t])
       /\ SendNothing(s) \/ (SendReturn(s) /\ send[s].list = {}) =>
            LET t == send[s].to
            IN send[s].had \ send[s].gone \subseteq held[t] \cup purged[t]
<1>1. TypeInv /\ ArchiveInv /\ OweInv /\ BundleInv
      => \A s \in Site : Owed(s) /\ Compared(s) /\ Nothing(s)
  <2> SUFFICES ASSUME TypeInv, ArchiveInv, OweInv, BundleInv, NEW s \in Site
               PROVE  Owed(s) /\ Compared(s) /\ Nothing(s)
    OBVIOUS
  <2>1. Owed(s)
    BY ReceivedOwed DEF ReceiveReturn
  <2>2. Compared(s)
    <3> SUFFICES ASSUME ReceiveReturn(s), NEW t \in Site \ {s},
                        held[t] \subseteq receive[s].bundle.owe \ purged[s]
                 PROVE  LET d == Compare(Manifest(t), Manifest(s)')
                        IN /\ d.local = {}
                           /\ held[t] # {} =>
                                FingerprintReport(States(held[t]), States(held'[s])) = "identical"
                           /\ known[t] = known[s] => (Settled(d) <=> held'[s] = held[t])
      OBVIOUS
    <3>1. UNCHANGED <<known, held, purged>> /\ receive[s] # Idle /\ receive[s].todo = {}
      BY DEF ReceiveReturn
    <3>2. held[t] \subseteq held[s]
      BY <3>1, ReceivedOwed
    <3>3. Manifest(s)' = Manifest(s) /\ held'[s] = held[s]
      BY <3>1 DEF Manifest
    <3>4. /\ Manifest(t).records = held[t] /\ Manifest(s).records = held[s]
          /\ Manifest(t).worlds = known[t] /\ Manifest(s).worlds = known[s]
      BY DEF Manifest
    <3>5. Compare(Manifest(t), Manifest(s)).local = {}
      BY <3>2, <3>4, NothingOfItsOwn
    <3>6. ASSUME known[t] = known[s]
          PROVE  Settled(Compare(Manifest(t), Manifest(s))) <=> held[s] = held[t]
      <4>1. held[s] \subseteq Obs /\ \A o \in held[s] : WorldOf[ChunkOf[o]] \in known[s]
        BY DEF TypeInv, ArchiveTyped, ArchiveInv
      <4> QED BY <3>2, <3>4, <3>6, <4>1, SettledMeansSame
    <3> QED BY <3>2, <3>3, <3>5, <3>6, FingerprintsAgree
  <2>3. Nothing(s)
    <3>1. CASE SendNothing(s)
      BY <3>1, NotSelected DEF SendNothing, Running, Got
    <3>2. CASE SendReturn(s) /\ send[s].list = {}
      BY <3>2 DEF SendReturn, Running, OweInv, Whole, Got
    <3> QED BY <3>1, <3>2
  <2> QED BY <2>1, <2>2, <2>3
<1>2. TypeInv /\ ArchiveInv /\ OweInv /\ BundleInv /\ [Next]_vars => [Delivered]_vars
  BY <1>1
<1> QED
  BY <1>2, TypeCorrect, ArchiveCorrect, OweCorrect, BundleCorrect, PTL
  DEF Spec, Delivers

(* Type correctness, and what a record a site lists lacks of its objects, a *)
(* purge at that site took away.                                            *)
THEOREM TypeOKCorrect == Spec => []TypeOK
<1>1. TypeInv /\ ArchiveInv => TypeOK
  <2> SUFFICES ASSUME TypeInv, ArchiveInv PROVE TypeOK
    OBVIOUS
  <2> DEFINE EachSite(s) ==
         /\ Objects(held[s]) \subseteq stored[s] \cup Objects(purged[s])
         /\ Worlds(held[s]) \subseteq known[s]
         /\ bundle[s].list = NoFile \/ bundle[s] \in Bundles
         /\ send[s] = Idle \/ (send[s] \in Sends /\ send[s].todo \subseteq send[s].list)
         /\ receive[s] = Idle
              \/ /\ receive[s].bundle \in Bundles
                 /\ receive[s].todo \subseteq receive[s].bundle.list
                 /\ receive[s].resolved \subseteq Obs
  <2>1. \A d \in Directories : d.list # NoFile => d \in Bundles
    BY DEF Directories, Bundles
  <2>2. ASSUME NEW s \in Site PROVE EachSite(s)
    <3>1. /\ Objects(held[s]) \subseteq stored[s] \cup Objects(purged[s])
          /\ Worlds(held[s]) \subseteq known[s]
      BY ObjectsOf DEF ArchiveInv, Kept
    <3>2. bundle[s].list = NoFile \/ bundle[s] \in Bundles
      BY <2>1 DEF TypeInv, BundleTyped
    <3>3. send[s] = Idle \/ (send[s] \in Sends /\ send[s].todo \subseteq send[s].list)
      BY DEF TypeInv, SendTyped
    <3>4. receive[s] = Idle \/ /\ receive[s].bundle \in Bundles
                               /\ receive[s].todo \subseteq receive[s].bundle.list
                               /\ receive[s].resolved \subseteq Obs
      BY <2>1 DEF TypeInv, ReceiveTyped, Receives
    <3> QED BY <3>1, <3>2, <3>3, <3>4
  <2>3. \A s \in Site : sends[s] \in 0..MaxSends[s]
    BY TransferAssumption DEF TypeInv, BundleTyped
  <2> QED BY <2>2, <2>3 DEF TypeOK, TypeInv, ArchiveTyped, HandedTyped
<1> QED BY <1>1, TypeCorrect, ArchiveCorrect, PTL

=============================================================================
