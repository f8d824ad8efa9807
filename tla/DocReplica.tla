----------------------------- MODULE DocReplica -----------------------------
(***************************************************************************)
(* How one client follows one document: the receive half of the engine's   *)
(* DocState (src/sync/engine.rs), the event and command channels between   *)
(* the engine and the UI replica, and the relay that stores the document's *)
(* log.                                                                    *)
(*                                                                         *)
(* The relay numbers the frames of a document 1, 2, 3, ...; a frame is     *)
(* represented by its number.  The engine keeps a contiguous frontier      *)
(* (haveSeq), the numbers seen beyond it (ahead) and the frames it cannot  *)
(* open yet (deferred); it holds no document, so it hands plaintext to the *)
(* UI as events and asks the UI for the full state when a snapshot is due. *)
(* A snapshot lets the relay delete the log below it, so a snapshot that   *)
(* claims more than it holds loses content for every client.               *)
(***************************************************************************)
EXTENDS Integers, Sequences, FiniteSets, FiniteSetsExt

CONSTANTS
    DeferCap,   \* MAX_DEFERRED_FRAMES: frames parked for one document
    DigestCap,  \* MAX_TRACKED_FRAME_DIGESTS: frames remembered for one document
    Threshold,  \* config.snapshot_threshold: updates between two snapshots
    EventCap,   \* capacity of the broadcast channel from the engine to the UI
    MaxSeq,     \* bound: frames the relay ever stores
    MaxUplink,  \* bound: client messages in flight before a timer or command waits
    MaxDown,    \* bound: relay messages in flight before the relay waits
    MaxCmds,    \* bound: UI commands in flight before the UI waits
    MaxDrops,   \* bound: lost connections and restarts
    Hiding,     \* bound: what the engine may lack for another client's frame
    HiddenSnaps \* bound: whether it may lack the key of another client's snapshot

ASSUME CapsAssumption ==
    /\ DeferCap \in Nat \ {0}
    /\ DigestCap \in Nat \ {0}
    /\ Threshold \in Nat \ {0}
    /\ EventCap \in Nat \ {0}
ASSUME BoundsAssumption ==
    /\ MaxSeq \in Nat
    /\ MaxUplink \in Nat
    /\ MaxDown \in Nat
    /\ MaxCmds \in Nat
    /\ MaxDrops \in Nat
    /\ HiddenSnaps \in BOOLEAN
ASSUME HidingAssumption == Hiding \subseteq SUBSET {"author", "epoch", "key"}

Seqs == 1..MaxSeq
NoSeq == 0

\* What opening a frame takes: its author in the membership log, its epoch in that log,
\* the key of that epoch in an envelope.  The two answers a client can fetch supply them.
Gaps == {"author", "epoch", "key"}
Answers == {"Membership", "Envelopes"}
Supplies(answer) == IF answer = "Membership" THEN {"author", "epoch"} ELSE {"key"}

VARIABLES
    (* the relay *)
    head,        \* newest sequence number stored
    snap,        \* the stored snapshot: what it claims to cover and what it holds
    subscribed,  \* this connection has subscribed, so new frames fan out to it
    fanout,      \* frames stored but not yet put on this connection
    (* the connection *)
    connected,
    uplink,      \* client messages on their way to the relay
    down,        \* relay messages on their way to the client
    drops,       \* connections lost so far, a bound
    (* the space's keys and membership log *)
    missing,     \* what the engine lacks to open each frame
    opaqueSnap,  \* snapshots whose key it lacks, by the number they cover
    fetching,    \* membership_inflight and envelopes_inflight
    (* DocState *)
    haveSeq, ahead, deferred, digests, unverifiable, lostFrames, live,
    snapCovers, requested, asked,
    resub,       \* resubscribe_at is set
    unacked,     \* own frames stored by the relay, still in the outbox
    (* channels and the UI *)
    events,      \* engine to UI
    lagged,      \* the event channel overflowed; the UI is told before its next event
    cmds,        \* UI to engine
    replica,     \* frames whose content the UI's document holds
    (* history, read by the properties only *)
    everLagged,  \* the event channel has overflowed at some time
    snapRefused, \* the last snapshot offered could not be opened
    subRefused,  \* the last Subscribe that the relay took was answered with Internal
    shortened    \* a snapshot that lacks some of what it covers has been stored

relayVars == <<head, snap, subscribed, fanout>>
linkVars == <<connected, uplink, down, drops>>
keyVars == <<missing, opaqueSnap, fetching>>
recvVars == <<haveSeq, ahead, deferred, digests, unverifiable, lostFrames, live>>
snapVars == <<snapCovers, requested, asked>>
chanVars == <<events, lagged, cmds, everLagged>>
histVars == <<snapRefused, subRefused, shortened>>
vars == <<relayVars, linkVars, keyVars, recvVars, snapVars, resub, unacked,
          chanVars, replica, histVars>>

Message(type, covers, content) ==
    [type |-> type, covers |-> covers, content |-> content]
Messages(types) == [type : types, covers : 0..MaxSeq, content : SUBSET Seqs]

Subscribe(have) == Message("Subscribe", have, {})
DocBytes(content) == Message("DocBytes", 0, content)
SnapshotNeeded(covers) == Message("SnapshotNeeded", covers, {})

UpMessages == Messages({"Subscribe", "PutSnapshot"} \cup Answers)
DownMessages == Messages({"Frames", "Snapshot", "NoSnapshot", "SubscribedOk", "Internal",
                          "RequestSnapshot", "EpochBump"} \cup Answers)
EventMessages == Messages({"DocBytes", "SnapshotNeeded"})
CmdMessages == Messages({"ProvideSnapshot", "Resync"})

RelayType ==
    /\ head \in 0..MaxSeq
    /\ snap \in [covers : 0..MaxSeq, content : SUBSET Seqs]
    /\ subscribed \in BOOLEAN
    /\ fanout \subseteq Seqs
LinkType ==
    /\ connected \in BOOLEAN
    /\ uplink \in Seq(UpMessages)
    /\ down \in Seq(DownMessages)
    /\ drops \in Nat
KeysType ==
    /\ missing \in [Seqs -> SUBSET Gaps]
    /\ opaqueSnap \subseteq Seqs
    /\ fetching \subseteq Answers
RecvType ==
    /\ haveSeq \in 0..MaxSeq
    /\ ahead \subseteq Seqs
    /\ deferred \in [Seqs -> Nat]
    /\ digests \subseteq Seqs
    /\ unverifiable \in BOOLEAN
    /\ lostFrames \in BOOLEAN
    /\ live \in BOOLEAN
    /\ resub \in BOOLEAN
    /\ unacked \subseteq Seqs
SnapType ==
    /\ snapCovers \in 0..MaxSeq
    /\ requested \in 0..MaxSeq
    /\ asked \in 0..MaxSeq
ChanType ==
    /\ events \in Seq(EventMessages)
    /\ lagged \in BOOLEAN
    /\ cmds \in Seq(CmdMessages)
    /\ everLagged \in BOOLEAN
UiType ==
    /\ replica \subseteq Seqs
    /\ snapRefused \in BOOLEAN
    /\ subRefused \in BOOLEAN
    /\ shortened \in BOOLEAN
TypeOK == RelayType /\ LinkType /\ KeysType /\ RecvType /\ SnapType /\ ChanType /\ UiType

\* The space has been joined, so its log and its keys are loaded, and the document opened.
Init ==
    /\ head = 0
    /\ snap = [covers |-> 0, content |-> {}]
    /\ subscribed = FALSE
    /\ fanout = {}
    /\ connected = TRUE
    /\ uplink = <<Subscribe(0)>>
    /\ down = <<>>
    /\ drops = 0
    /\ missing = [s \in Seqs |-> {}]
    /\ opaqueSnap = {}
    /\ fetching = {}
    /\ haveSeq = 0
    /\ ahead = {}
    /\ deferred = [s \in Seqs |-> 0]
    /\ digests = {}
    /\ unverifiable = FALSE
    /\ lostFrames = FALSE
    /\ live = FALSE
    /\ snapCovers = 0
    /\ requested = NoSeq
    /\ asked = NoSeq
    /\ resub = FALSE
    /\ unacked = {}
    /\ events = <<>>
    /\ lagged = FALSE
    /\ cmds = <<>>
    /\ replica = {}
    /\ everLagged = FALSE
    /\ snapRefused = FALSE
    /\ subRefused = FALSE
    /\ shortened = FALSE

-----------------------------------------------------------------------------
(* Helpers of the engine's handlers. *)

\* The n lowest members of S: what a queue with n free places takes of S in order.
FirstN(S, n) == {s \in S : Cardinality({t \in S : t < s}) < n}

Larger(a, b) == IF a > b THEN a ELSE b
Smaller(a, b) == IF a < b THEN a ELSE b

\* Length of the deferred queue; a resubscribe can park one frame several times.
Parked == Cardinality(UNION {{s} \X (1..deferred[s]) : s \in Seqs})
IsParked(s) == deferred[s] > 0

\* A full channel drops its oldest events and remembers that it did.
Emit(evs) ==
    LET all == events \o evs
    IN  IF Len(all) <= EventCap
        THEN events' = all /\ UNCHANGED <<lagged, everLagged>>
        ELSE /\ events' = SubSeq(all, Len(all) - EventCap + 1, Len(all))
             /\ lagged' = TRUE
             /\ everLagged' = TRUE

Seen(s) == s <= haveSeq \/ s \in ahead

\* mutant: a frontier that jumps to the newest number whatever is missing below it
NoteSeqsJumps(S) ==
    /\ haveSeq' = Max(S \cup {haveSeq})
    /\ ahead' = {s \in ahead : s > haveSeq'}

\* mutant: an off-by-one in the run of consecutive numbers
NoteSeqsOffByOne(S) ==
    \E n \in haveSeq..MaxSeq :
        /\ (haveSeq + 1)..n \subseteq ahead \cup S
        /\ n + 1 \notin ahead \cup S
        /\ haveSeq' = IF n > haveSeq THEN n + 1 ELSE n
        /\ ahead' = {s \in ahead \cup S : s > n}

\* note_seq for every number in S: the frontier runs on while the next number is there.
NoteSeqs(S) ==
    LET fresh == {s \in S : s > haveSeq}
    IN  \/ fresh = {} /\ UNCHANGED <<haveSeq, ahead>>
        \/ /\ fresh # {}
           /\ \E n \in haveSeq..MaxSeq :
                /\ (haveSeq + 1)..n \subseteq ahead \cup fresh
                /\ n + 1 \notin ahead \cup fresh
                /\ haveSeq' = n
                /\ ahead' = {s \in ahead \cup fresh : s > n}

\* Frames are remembered by digest until the budget runs out; past it the document
\* may no longer vouch for what it covers.
Incorporate(S) ==
    LET new == S \ digests
        kept == FirstN(new, DigestCap - Cardinality(digests))
    IN  /\ NoteSeqs(S)
        /\ digests' = digests \cup kept
        /\ unverifiable' = (unverifiable \/ kept # new)

\* mutant: a full queue refuses the frame but schedules no resubscription
DeferFramesForgets(S) ==
    LET kept == FirstN(S, DeferCap - Parked)
    IN  /\ deferred' = [s \in Seqs |-> IF s \in kept THEN deferred[s] + 1 ELSE deferred[s]]
        /\ lostFrames' = (lostFrames \/ kept # S)
        /\ resub' = resub

\* Frames that cannot be opened are parked, the newest refused when the queue is full.
DeferFrames(S) ==
    LET kept == FirstN(S, DeferCap - Parked)
    IN  /\ deferred' = [s \in Seqs |-> IF s \in kept THEN deferred[s] + 1 ELSE deferred[s]]
        /\ lostFrames' = (lostFrames \/ kept # S)
        /\ resub' = (resub \/ kept # S)

\* A snapshot is due when the relay asked for one the frontier has reached, or when
\* the log has grown by Threshold, unless this replica knows of a gap in it.
SnapshotDue(have, req) ==
    /\ (req # NoSeq /\ have >= req) \/ (have - snapCovers >= Threshold /\ live)
    /\ have > asked
    /\ have > 0

\* mutant: the request for a snapshot overtakes the bytes it is to cover
AfterSeqAdvanceAsksFirst(evs, req) ==
    LET due == SnapshotDue(haveSeq', req) /\ ~lostFrames' /\ ~unverifiable'
    IN  /\ asked' = IF due THEN haveSeq' ELSE asked
        /\ Emit(IF due THEN <<SnapshotNeeded(haveSeq')>> \o evs ELSE evs)

AfterSeqAdvance(evs, req) ==
    LET due == /\ SnapshotDue(haveSeq', req)
               /\ ~lostFrames'
               /\ ~unverifiable'
    IN  /\ asked' = IF due THEN haveSeq' ELSE asked
        /\ Emit(IF due THEN Append(evs, SnapshotNeeded(haveSeq')) ELSE evs)

BytesOf(S) == IF S = {} THEN <<>> ELSE <<DocBytes(S)>>

-----------------------------------------------------------------------------
(* The relay: outside this repository, modelled from what the engine relies on.   *)
(* It serves one connection's requests in order and answers a Subscribe with the  *)
(* snapshot, the log above it and SubscribedOk.                                   *)

\* Another client's frame is stored.  The relay announces a rotation to the clients that
\* are connected before it fans out what is sealed under the new epoch.
StoreOther(gaps) ==
    /\ head < MaxSeq
    /\ head' = head + 1
    /\ fanout' = IF subscribed THEN fanout \cup {head + 1} ELSE fanout
    /\ missing' = [missing EXCEPT ![head + 1] = gaps]
    /\ IF connected /\ "epoch" \in gaps
       THEN Len(down) < MaxDown /\ down' = Append(down, Message("EpochBump", 0, {}))
       ELSE UNCHANGED down
    /\ UNCHANGED <<snap, subscribed, connected, uplink, drops, opaqueSnap, fetching, recvVars,
                   snapVars, resub, unacked, chanVars, replica, histVars>>

\* A frame this client pushed is stored: its content is in the UI's document already,
\* and its outbox entry waits for the Ack.
StoreOwn ==
    /\ connected
    /\ head < MaxSeq
    /\ head' = head + 1
    /\ unacked' = unacked \cup {head + 1}
    /\ replica' = replica \cup {head + 1}
    /\ UNCHANGED <<snap, subscribed, fanout, linkVars, keyVars, recvVars, snapVars, resub,
                   chanVars, histVars>>

\* Concurrent pushes fan out in any order.
FanOut(s) ==
    /\ s \in fanout
    /\ Len(down) < MaxDown
    /\ fanout' = fanout \ {s}
    /\ down' = Append(down, Message("Frames", 0, {s}))
    /\ UNCHANGED <<head, snap, subscribed, connected, uplink, drops, keyVars, recvVars,
                   snapVars, resub, unacked, chanVars, replica, histVars>>

\* Another client, which holds everything it covers, stores a snapshot.
OtherSnapshot(covers, hidden) ==
    /\ covers > snap.covers
    /\ covers <= head
    /\ snap' = [covers |-> covers, content |-> 1..covers]
    /\ opaqueSnap' = IF hidden THEN opaqueSnap \cup {covers} ELSE opaqueSnap
    /\ UNCHANGED <<head, subscribed, fanout, linkVars, missing, fetching, recvVars, snapVars,
                   resub, unacked, chanVars, replica, histVars>>

AskForSnapshot ==
    /\ subscribed
    /\ head > snap.covers
    /\ Len(down) < MaxDown
    /\ ~\E i \in DOMAIN down : down[i].type = "RequestSnapshot"
    /\ requested # head
    /\ down' = Append(down, Message("RequestSnapshot", head, {}))
    /\ UNCHANGED <<relayVars, connected, uplink, drops, keyVars, recvVars, snapVars, resub,
                   unacked, chanVars, replica, histVars>>

\* The log at or below the snapshot is gone: a subscriber behind it gets the snapshot.
Replay(have) ==
    LET from == Larger(have, snap.covers)
    IN  << IF snap.covers > have
           THEN Message("Snapshot", snap.covers, snap.content)
           ELSE Message("NoSnapshot", snap.covers, {}),
           Message("Frames", 0, (from + 1)..head),
           Message("SubscribedOk", 0, {}) >>

RelayTake(type) ==
    /\ uplink # <<>>
    /\ Head(uplink).type = type
    /\ Len(down) < MaxDown
    /\ uplink' = Tail(uplink)

ServeSubscribe ==
    /\ RelayTake("Subscribe")
    /\ subscribed' = TRUE
    /\ down' = down \o Replay(Head(uplink).covers)
    /\ subRefused' = FALSE
    /\ UNCHANGED <<head, snap, fanout, connected, drops, keyVars, recvVars, snapVars, resub,
                   unacked, chanVars, replica, snapRefused, shortened>>

\* A storage error: the relay reports it and leaves the connection up.
FailSubscribe ==
    /\ RelayTake("Subscribe")
    /\ drops < MaxDrops
    /\ drops' = drops + 1
    /\ down' = Append(down, Message("Internal", 0, {}))
    /\ subRefused' = TRUE
    /\ UNCHANGED <<relayVars, connected, keyVars, recvVars, snapVars, resub, unacked, chanVars,
                   replica, snapRefused, shortened>>

ServeSnapshot ==
    /\ RelayTake("PutSnapshot")
    /\ LET put == Head(uplink)
       IN  /\ snap' = IF put.covers > snap.covers
                      THEN [covers |-> put.covers, content |-> put.content]
                      ELSE snap
           /\ shortened' = (shortened \/ ~(1..put.covers \subseteq put.content))
    /\ UNCHANGED <<head, subscribed, fanout, connected, down, drops, keyVars, recvVars,
                   snapVars, resub, unacked, chanVars, replica, snapRefused, subRefused>>

\* The answer helps with the frames stored so far, not with what is stored after it.
ServeFetch(answer) ==
    /\ RelayTake(answer)
    /\ down' = Append(down, Message(answer, 0, 1..head))
    /\ UNCHANGED <<relayVars, connected, drops, keyVars, recvVars, snapVars, resub, unacked,
                   chanVars, replica, histVars>>

-----------------------------------------------------------------------------
(* The connection. *)

Disconnect ==
    /\ connected
    /\ drops < MaxDrops
    /\ drops' = drops + 1
    /\ connected' = FALSE
    /\ live' = FALSE
    /\ uplink' = <<>>
    /\ down' = <<>>
    /\ subscribed' = FALSE
    /\ fanout' = {}
    /\ UNCHANGED <<head, snap, keyVars, haveSeq, ahead, deferred, digests, unverifiable,
                   lostFrames, snapVars, resub, unacked, chanVars, replica, histVars>>

\* on_connected: resubscribe from the frontier; the outbox is sent again too, and the
\* relay acknowledges what it already stored.
Connect ==
    /\ ~connected
    /\ connected' = TRUE
    /\ uplink' = <<Subscribe(haveSeq)>>
    /\ UNCHANGED <<relayVars, down, drops, keyVars, recvVars, snapVars, resub, unacked,
                   chanVars, replica, histVars>>

\* The process ends and starts again: the engine's state and both channels are gone,
\* and the notes database may lack content that was not saved yet.  Once connected it
\* joins the space again, which loads the log and the keys, and opens the document at 0.
Restart ==
    /\ drops < MaxDrops
    /\ drops' = drops + 1
    /\ connected' = TRUE
    /\ uplink' = <<Subscribe(0)>>
    /\ down' = <<>>
    /\ subscribed' = FALSE
    /\ fanout' = {}
    /\ missing' = [s \in Seqs |-> {}]
    /\ opaqueSnap' = {}
    /\ fetching' = {}
    /\ haveSeq' = 0
    /\ ahead' = {}
    /\ deferred' = [s \in Seqs |-> 0]
    /\ digests' = {}
    /\ unverifiable' = FALSE
    /\ lostFrames' = FALSE
    /\ live' = FALSE
    /\ snapCovers' = 0
    /\ requested' = NoSeq
    /\ asked' = NoSeq
    /\ resub' = FALSE
    /\ unacked' = {}
    /\ events' = <<>>
    /\ lagged' = FALSE
    /\ cmds' = <<>>
    /\ \E saved \in SUBSET replica : replica' = saved
    /\ snapRefused' = FALSE
    /\ subRefused' = FALSE
    /\ UNCHANGED <<head, snap, everLagged, shortened>>

\* retry_failed_subscriptions, once the delay after the failure is over.
RetrySubscription ==
    /\ connected
    /\ resub
    /\ Len(uplink) < MaxUplink
    /\ resub' = FALSE
    /\ uplink' = IF ~live \/ lostFrames THEN Append(uplink, Subscribe(haveSeq)) ELSE uplink
    /\ UNCHANGED <<relayVars, connected, down, drops, keyVars, recvVars, snapVars, unacked,
                   chanVars, replica, histVars>>

-----------------------------------------------------------------------------
(* handle_ws: one message from the relay. *)

Receive(type) ==
    /\ connected
    /\ down # <<>>
    /\ Head(down).type = type
    /\ down' = Tail(down)

\* mutant: an unknown author does not refresh the membership log
AnswerForKeysOnly(gaps) == "Envelopes"

\* An author the log does not authorise is looked for first; a key the engine does not
\* hold is asked for as a key, also when it is the log that does not know the epoch.
AnswerFor(gaps) == IF "author" \in gaps THEN "Membership" ELSE "Envelopes"
Opaque == {s \in Seqs : missing[s] # {}}

\* A fetch is sent only when none of its kind is in flight, envelopes first.
Request(answers) ==
    LET Fetch(answer) == IF answer \in answers \ fetching
                         THEN <<Message(answer, 0, {})>> ELSE <<>>
    IN  /\ fetching' = fetching \cup answers
        /\ uplink' = uplink \o Fetch("Envelopes") \o Fetch("Membership")

\* Broadcast and Backlog: apply_frame for every frame, then after_seq_advance.
RecvFrames ==
    /\ Receive("Frames")
    /\ LET new == {s \in Head(down).content : ~Seen(s)}
       IN  /\ Incorporate(new \ Opaque)
           /\ DeferFrames(new \cap Opaque)
           /\ Request({AnswerFor(missing[s]) : s \in new \cap Opaque})
           /\ AfterSeqAdvance(BytesOf(new \ Opaque), requested)
    /\ UNCHANGED <<relayVars, connected, drops, missing, opaqueSnap, live, snapCovers, requested,
                   unacked, cmds, replica, histVars>>

RecvAck(s) ==
    /\ connected
    /\ s \in unacked
    /\ unacked' = unacked \ {s}
    /\ NoteSeqs({s})
    /\ UNCHANGED lostFrames
    /\ UNCHANGED unverifiable
    /\ AfterSeqAdvance(<<>>, requested)
    /\ UNCHANGED <<relayVars, linkVars, keyVars, deferred, digests, live, snapCovers, requested,
                   resub, cmds, replica, histVars>>

RecvRequestSnapshot ==
    /\ Receive("RequestSnapshot")
    /\ requested' = Head(down).covers
    /\ UNCHANGED recvVars
    /\ AfterSeqAdvance(<<>>, Head(down).covers)
    /\ UNCHANGED <<relayVars, connected, uplink, drops, keyVars, snapCovers, resub, unacked, cmds,
                   replica, histVars>>

\* A snapshot moves the frontier to what its author signed for.
RecvSnapshot ==
    /\ Receive("Snapshot")
    /\ Head(down).covers \notin opaqueSnap
    /\ LET covers == Head(down).covers
       IN  /\ snapCovers' = Larger(snapCovers, covers)
           /\ haveSeq' = Larger(haveSeq, covers)
           /\ ahead' = IF covers > haveSeq THEN {s \in ahead : s > covers} ELSE ahead
           /\ Emit(<<DocBytes(Head(down).content)>>)
    /\ snapRefused' = FALSE
    /\ UNCHANGED <<relayVars, connected, uplink, drops, keyVars, deferred, digests, unverifiable,
                   lostFrames, live, requested, asked, resub, unacked, cmds, replica, subRefused,
                   shortened>>

\* There is no queue for a snapshot that cannot be opened: it is dropped, the keys are
\* fetched, and the next Subscribe is to bring it again.
RefuseSnapshot ==
    /\ Receive("Snapshot")
    /\ Head(down).covers \in opaqueSnap
    /\ Request({"Envelopes"})
    /\ snapRefused' = TRUE
    /\ UNCHANGED <<relayVars, connected, drops, missing, opaqueSnap, recvVars, snapVars, resub,
                   unacked, chanVars, replica, subRefused,
                   shortened>>

RecvNoSnapshot ==
    /\ Receive("NoSnapshot")
    /\ snapCovers' = Larger(snapCovers, Smaller(Head(down).covers, haveSeq))
    /\ snapRefused' = FALSE
    /\ UNCHANGED <<relayVars, connected, uplink, drops, keyVars, recvVars, requested, asked,
                   resub, unacked, chanVars, replica, subRefused,
                   shortened>>

RecvSubscribedOk ==
    /\ Receive("SubscribedOk")
    /\ live' = TRUE
    /\ lostFrames' = (lostFrames /\ \E s \in Seqs : IsParked(s))
    /\ UNCHANGED <<relayVars, connected, uplink, drops, keyVars, haveSeq, ahead, deferred,
                   digests, unverifiable, snapVars, resub, unacked, chanVars, replica,
                   histVars>>

\* mutant: a request the relay could not serve is not asked again
RecvInternalIgnored ==
    /\ Receive("Internal")
    /\ UNCHANGED <<relayVars, connected, uplink, drops, keyVars, recvVars, snapVars, resub,
                   unacked, chanVars, replica, histVars>>

RecvInternal ==
    /\ Receive("Internal")
    /\ resub' = TRUE
    /\ UNCHANGED <<relayVars, connected, uplink, drops, keyVars, recvVars, snapVars, unacked,
                   chanVars, replica, histVars>>

\* handle_membership and handle_envelopes: every parked frame is retried.  The retry
\* retires the numbers that parking left open, and parks again what is still not usable,
\* without asking for what it lacks.
RecvAnswer(answer) ==
    /\ Receive(answer)
    /\ fetching' = fetching \ {answer}
    /\ missing' = [s \in Seqs |-> IF s \in Head(down).content
                                  THEN missing[s] \ Supplies(answer) ELSE missing[s]]
    /\ opaqueSnap' = IF answer = "Envelopes" THEN opaqueSnap \ Head(down).content
                     ELSE opaqueSnap
    /\ LET opened == {s \in Seqs : IsParked(s) /\ missing'[s] = {}}
       IN  /\ Incorporate(opened)
           /\ deferred' = [s \in Seqs |-> IF s \in opened THEN 0 ELSE deferred[s]]
           /\ Emit(BytesOf(opened))
    /\ UNCHANGED <<relayVars, connected, uplink, drops, lostFrames, live, snapVars, resub,
                   unacked, cmds, replica, histVars>>

\* A rotation: both are fetched whatever was in flight; only the envelopes are marked.
RecvEpochBump ==
    /\ Receive("EpochBump")
    /\ fetching' = {"Envelopes"}
    /\ uplink' = uplink \o <<Message("Envelopes", 0, {}), Message("Membership", 0, {})>>
    /\ UNCHANGED <<relayVars, connected, drops, missing, opaqueSnap, recvVars, snapVars, resub,
                   unacked, chanVars, replica, histVars>>

-----------------------------------------------------------------------------
(* handle_cmd: the two commands about a document's coverage. *)

TakeCmd(type) ==
    /\ cmds # <<>>
    /\ Head(cmds).type = type
    /\ Len(uplink) < MaxUplink
    /\ cmds' = Tail(cmds)

\* seal_and_put_snapshot: the bookkeeping comes first; the snapshot itself goes out only
\* with a key for the current epoch and a connection.
ProvideSnapshot(sealable) ==
    /\ TakeCmd("ProvideSnapshot")
    /\ requested' = NoSeq
    /\ asked' = NoSeq
    /\ snapCovers' = Larger(snapCovers, Head(cmds).covers)
    /\ uplink' = IF sealable /\ connected
                 THEN Append(uplink, Message("PutSnapshot", Head(cmds).covers,
                                             Head(cmds).content))
                 ELSE uplink
    /\ UNCHANGED <<relayVars, connected, down, drops, keyVars, recvVars, resub, unacked, events,
                   lagged, everLagged, replica, histVars>>

Resync ==
    /\ TakeCmd("Resync")
    /\ haveSeq' = 0
    /\ ahead' = {}
    /\ uplink' = IF connected THEN Append(uplink, Subscribe(0)) ELSE uplink
    /\ UNCHANGED <<relayVars, connected, down, drops, keyVars, deferred, digests, unverifiable,
                   lostFrames, live, snapVars, resub, unacked, events, lagged, everLagged,
                   replica, histVars>>

-----------------------------------------------------------------------------
(* The UI's pump: events in order, a gap in the stream first. *)

UiBytes ==
    /\ ~lagged
    /\ events # <<>>
    /\ Head(events).type = "DocBytes"
    /\ events' = Tail(events)
    /\ replica' = replica \cup Head(events).content
    /\ UNCHANGED <<relayVars, linkVars, keyVars, recvVars, snapVars, resub, unacked, lagged,
                   cmds, everLagged, histVars>>

\* SnapshotNeeded is answered with the full state as it is now.
UiSnapshotNeeded ==
    /\ ~lagged
    /\ events # <<>>
    /\ Head(events).type = "SnapshotNeeded"
    /\ Len(cmds) < MaxCmds
    /\ events' = Tail(events)
    /\ cmds' = Append(cmds, Message("ProvideSnapshot", Head(events).covers, replica))
    /\ UNCHANGED <<relayVars, linkVars, keyVars, recvVars, snapVars, resub, unacked, lagged,
                   replica, everLagged, histVars>>

UiLagged ==
    /\ lagged
    /\ Len(cmds) < MaxCmds
    /\ lagged' = FALSE
    /\ cmds' = Append(cmds, Message("Resync", 0, {}))
    /\ UNCHANGED <<relayVars, linkVars, keyVars, recvVars, snapVars, resub, unacked, events,
                   replica, everLagged, histVars>>

-----------------------------------------------------------------------------
Relay ==
    \/ \E gaps \in Hiding \cup {{}} : StoreOther(gaps)
    \/ StoreOwn
    \/ \E s \in Seqs : FanOut(s)
    \/ \E covers \in Seqs, hidden \in {FALSE, HiddenSnaps} : OtherSnapshot(covers, hidden)
    \/ AskForSnapshot
    \/ ServeSubscribe
    \/ FailSubscribe
    \/ ServeSnapshot
    \/ \E answer \in Answers : ServeFetch(answer)

Recv ==
    \/ RecvFrames
    \/ RecvRequestSnapshot
    \/ RecvSnapshot
    \/ RefuseSnapshot
    \/ RecvNoSnapshot
    \/ RecvSubscribedOk
    \/ RecvInternal
    \/ \E answer \in Answers : RecvAnswer(answer)
    \/ RecvEpochBump

HandleCmd ==
    \/ \E sealable \in BOOLEAN : ProvideSnapshot(sealable)
    \/ Resync

Ui == UiBytes \/ UiSnapshotNeeded \/ UiLagged

Next ==
    \/ Relay
    \/ Connect
    \/ RetrySubscription
    \/ Recv
    \/ \E s \in Seqs : RecvAck(s)
    \/ HandleCmd
    \/ Ui
    \/ Disconnect
    \/ Restart

Spec == Init /\ [][Next]_vars

\* The relay answers; the engine's loop takes its socket, its commands and its tick in turn;
\* the UI pumps.  Nothing is assumed of new frames, snapshots, failures or lost connections.
Fairness ==
    /\ \A s \in Seqs : WF_vars(FanOut(s)) /\ WF_vars(RecvAck(s))
    /\ WF_vars(ServeSubscribe)
    /\ WF_vars(ServeSnapshot)
    /\ \A answer \in Answers : WF_vars(ServeFetch(answer))
    /\ WF_vars(Connect)
    /\ WF_vars(RetrySubscription)
    /\ WF_vars(Recv)
    /\ WF_vars(HandleCmd)
    /\ WF_vars(Ui)

FairSpec == Spec /\ Fairness

-----------------------------------------------------------------------------
(* Properties. *)

Bytes(event) == IF event.type = "DocBytes" THEN event.content ELSE {}
Sent(q) == {s \in Seqs : \E i \in DOMAIN q : s \in Bytes(q[i])}
SentBefore(q, i) == {s \in Seqs : \E j \in DOMAIN q : j < i /\ s \in Bytes(q[j])}

\* The frontier and the numbers ahead of it stand for content: unless the event stream
\* has overflowed, everything they count is in the UI's document or in an event on its
\* way there, so resubscribing from haveSeq misses nothing (DocState::have_seq).
Backed == \A s \in Seqs : Seen(s) => s \in replica \cup Sent(events)
FrontierBacked == ~everLagged => Backed

\* The stored snapshot holds everything it claims to cover, so the log the relay deleted
\* below it is still there for a client that joins later (seal_and_put_snapshot).
SnapHeld == 1..snap.covers \subseteq snap.content
SnapshotComplete == ~everLagged => SnapHeld

\* Why the two hold: whatever is on its way from the frontier to the stored snapshot
\* carries what it claims.  A request for a snapshot is answered after the events before
\* it, so it may count on them.
AsksBacked(q, held) ==
    \A i \in DOMAIN q : q[i].type = "SnapshotNeeded" =>
        1..q[i].covers \subseteq held \cup SentBefore(q, i)
Complete(q, type) ==
    \A i \in DOMAIN q : q[i].type = type => 1..q[i].covers \subseteq q[i].content
CoverageChain ==
    /\ Backed
    /\ AsksBacked(events, replica)
    /\ Complete(cmds, "ProvideSnapshot")
    /\ Complete(uplink, "PutSnapshot")
    /\ Complete(down, "Snapshot")
    /\ SnapHeld
    /\ unacked \subseteq replica
CoverageInv == ~everLagged => CoverageChain

\* Nothing is on its way between the relay, the engine and the UI.
Quiet ==
    /\ connected /\ live /\ ~resub
    /\ uplink = <<>> /\ down = <<>> /\ fanout = {} /\ unacked = {}
    /\ events = <<>> /\ ~lagged /\ cmds = <<>>

\* A quiet, live document is complete: once nothing is in transit the UI holds every frame
\* that is not parked, except what a refused snapshot stood for, what an incomplete one
\* lost, and what a refused Resync was to bring (retry_failed_subscriptions skips a live
\* document).  Lost events, replays, restarts and out-of-order fan-out leave no silent hole.
QuietMeansComplete ==
    Quiet /\ ~snapRefused /\ ~subRefused /\ ~shortened
        => \A s \in 1..head : s \in replica \/ IsParked(s)

\* What the retry of refused requests promises: "whatever the relay could not serve, ask
\* for it again shortly" (handle_ws, on Internal).  A refused replay leaves no hole, then.
RefusedIsAskedAgain ==
    Quiet /\ ~snapRefused /\ ~shortened
        => \A s \in 1..head : s \in replica \/ IsParked(s)

\* A parked frame is opened in the end, if no fetch stays in flight for ever
\* (DocState::deferred: retried once the envelopes arrive, or the log is refreshed).
ParkedFramesOpen ==
    []<>(fetching = {}) => \A s \in Seqs : IsParked(s) ~> ~IsParked(s)

\* If moreover the connection ends up with a snapshot it can open, the UI catches up with
\* the relay.
CatchesUp ==
    []<>(fetching = {}) /\ <>[]~snapRefused => <>[](1..head \subseteq replica)

\* What seal_and_put_snapshot relies on, without the hypothesis that no event was lost:
\* "by the time the UI answered, it had applied every DocBytes <= covers_seq, so `state`
\* covers them".  A snapshot then never claims more than it holds.
CoverageIsHeld == SnapHeld
=============================================================================
