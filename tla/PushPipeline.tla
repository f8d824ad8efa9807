---------------------------- MODULE PushPipeline ----------------------------
(***************************************************************************)
(* How the edits of one note reach the relay: the note and its needs_push  *)
(* flag (src/note.rs), the bridge that runs in the UI (src/sync/app.rs),   *)
(* the engine's debounce buffer, outbox and busy flag                      *)
(* (src/sync/engine.rs), and the relay, which stores a frame once per      *)
(* client tag.                                                             *)
(*                                                                         *)
(* The engine keeps everything in memory.  What survives a crash is the    *)
(* notes database: the content and needs_push, which says that the relay   *)
(* may lack some of it.  The flag is set by every local edit, makes the    *)
(* bridge ship the whole note when a subscription has caught up, and is    *)
(* cleared when the engine reports that the document is idle.              *)
(*                                                                         *)
(* An edit is a number; an update and the content of a note are sets of    *)
(* edits.  Commands and events travel asynchronously between the UI and    *)
(* the engine, which run on different threads.                             *)
(***************************************************************************)
EXTENDS Integers, Sequences, FiniteSets

CONSTANTS
    MaxEdits,    \* bound: edits the user makes
    MaxFaults,   \* bound: connections lost and subscriptions not served
    MaxSessions, \* bound: engines stopped or crashed
    MaxFails     \* bound: subscriptions not served

ASSUME PipelineAssumption ==
    /\ MaxEdits \in Nat
    /\ MaxFaults \in Nat
    /\ MaxSessions \in Nat
    /\ MaxFails \in Nat

Edits == 1..MaxEdits

VARIABLES
    (* the user and the notes database *)
    made,       \* edits made so far
    note,       \* edits the note holds
    needsPush,  \* the relay may lack some of them
    saved,      \* what is on disk: [note, needsPush]
    (* the bridge: AppSync and its DocSync *)
    joining,    \* the space is in AppSync::joining
    joinResult, \* outcome of the join, on its way to the UI
    mapped,     \* the document is registered and its observer forwards edits
    uiLive,     \* DocSync::live
    engineIdle, \* DocSync::engine_idle
    settled,    \* local_edit_clock = delivered_edit_clock
    (* channels *)
    submitted,  \* requests handed to the bridge thread, which sends them as commands
    cmds,       \* UI to engine
    events,     \* engine to UI
    (* the engine *)
    connected,
    joined,     \* the space's log and keys are loaded
    waiter,     \* a join waits for the relay's answer
    opened,     \* the document is registered
    live,       \* DocState::live
    pending,    \* updates in the debounce buffer
    busy,       \* DocState::busy
    outbox,     \* frames pushed and not acknowledged
    nextTag,
    resub,      \* resubscribe_at is set
    (* the connection and the relay *)
    up, down,
    stored,     \* edits in the relay's log
    tags,       \* client tags whose frame is stored
    (* bounds and history *)
    drops, sessions, fails,
    accepted,   \* edits this engine has taken into its buffer
    abandoned   \* an engine ended while an edit it had was neither stored nor flagged

uiVars == <<made, note, needsPush, saved>>
bridgeVars == <<joining, joinResult, mapped, uiLive, engineIdle, settled, submitted>>
spaceVars == <<joined, waiter>>
docVars == <<opened, live, pending, busy, outbox, nextTag, resub>>
linkVars == <<connected, up, down>>
relayVars == <<stored, tags>>
boundVars == <<drops, sessions, fails>>
histVars == <<accepted, abandoned>>
vars == <<uiVars, bridgeVars, cmds, events, spaceVars, docVars, linkVars, relayVars,
          boundVars, histVars>>

Tags == 1..nextTag - 1
Frames == [tag : Nat, edits : SUBSET Edits]
Message(type, tag, edits) == [type |-> type, tag |-> tag, edits |-> edits]
Messages(types) == [type : types, tag : Nat, edits : SUBSET Edits]
Plain(type) == Message(type, 0, {})
Push(frame) == Message("PushUpdate", frame.tag, frame.edits)

NoteType ==
    /\ made \in 0..MaxEdits
    /\ note \subseteq 1..made
    /\ needsPush \in BOOLEAN
    /\ saved \in [note : SUBSET (1..made), needsPush : BOOLEAN]

BridgeType ==
    /\ joinResult \in {"none", "ok", "failed"}
    /\ joining \in BOOLEAN /\ mapped \in BOOLEAN /\ uiLive \in BOOLEAN
    /\ engineIdle \in BOOLEAN /\ settled \in BOOLEAN
    /\ submitted \subseteq {"JoinSpace", "OpenDocs"}

CmdMessages == Messages({"JoinSpace", "OpenDocs", "QueueUpdate"})
EventMessages == Messages({"Connected", "Disconnected", "DocSynced", "DocBusy", "DocIdle"})
UpMessages == Messages({"Join", "Subscribe", "PushUpdate"})
DownMessages == Messages({"Join", "SubscribedOk", "Internal", "Ack"})

ChannelType ==
    /\ cmds \in Seq(CmdMessages)
    /\ events \in Seq(EventMessages)
    /\ up \in Seq(UpMessages)
    /\ down \in Seq(DownMessages)

EngineType ==
    /\ connected \in BOOLEAN /\ joined \in BOOLEAN /\ waiter \in BOOLEAN
    /\ opened \in BOOLEAN /\ live \in BOOLEAN /\ busy \in BOOLEAN /\ resub \in BOOLEAN
    /\ pending \subseteq SUBSET Edits
    /\ outbox \subseteq Frames
    /\ nextTag \in Nat \ {0}

RelayType ==
    /\ stored \subseteq Edits
    /\ tags \subseteq Tags

BoundType ==
    /\ drops \in 0..MaxFaults
    /\ sessions \in 0..MaxSessions
    /\ fails \in 0..MaxFails
    /\ accepted \subseteq Edits
    /\ abandoned \in BOOLEAN

TypeOK == NoteType /\ BridgeType /\ ChannelType /\ EngineType /\ RelayType /\ BoundType

\* A note that was mapped to a remote document in an earlier run and holds nothing yet;
\* AppSync has just been started, and adopts the space at once (connect_sync).
Init ==
    /\ made = 0
    /\ note = {}
    /\ needsPush = FALSE
    /\ saved = [note |-> {}, needsPush |-> FALSE]
    /\ joining = TRUE
    /\ joinResult = "none"
    /\ mapped = FALSE
    /\ uiLive = FALSE
    /\ engineIdle = FALSE
    /\ settled = FALSE
    /\ submitted = {"JoinSpace"}
    /\ cmds = <<>>
    /\ events = <<>>
    /\ connected = FALSE
    /\ joined = FALSE
    /\ waiter = FALSE
    /\ opened = FALSE
    /\ live = FALSE
    /\ pending = {}
    /\ busy = FALSE
    /\ outbox = {}
    /\ nextTag = 1
    /\ resub = FALSE
    /\ up = <<>>
    /\ down = <<>>
    /\ stored = {}
    /\ tags = {}
    /\ drops = 0
    /\ sessions = 0
    /\ fails = 0
    /\ accepted = {}
    /\ abandoned = FALSE

Command(type, edits) == cmds' = Append(cmds, Message(type, 0, edits))
Tell(type, edits) == events' = Append(events, Message(type, 0, edits))
\* send: nothing goes out without a connection.
Send(msgs) == up' = IF connected THEN up \o msgs ELSE up

-----------------------------------------------------------------------------
(* The user, the notes database and the life of an engine. *)

\* A local edit: the observer forwards it, then the note is marked dirty.
Edit ==
    /\ made < MaxEdits
    /\ made' = made + 1
    /\ note' = note \cup {made + 1}
    /\ needsPush' = TRUE
    /\ settled' = (settled /\ ~mapped)
    /\ IF mapped THEN Command("QueueUpdate", {made + 1}) ELSE UNCHANGED cmds
    /\ UNCHANGED <<saved, joining, joinResult, mapped, uiLive, engineIdle, submitted, events,
                   spaceVars, docVars, linkVars, relayVars, boundVars, histVars>>

\* Autosave: content and flag are written together.
Save ==
    /\ saved # [note |-> note, needsPush |-> needsPush]
    /\ saved' = [note |-> note, needsPush |-> needsPush]
    /\ UNCHANGED <<made, note, needsPush, bridgeVars, cmds, events, spaceVars, docVars,
                   linkVars, relayVars, boundVars, histVars>>

\* mutant: every engine numbers its frames from the start again
TagBaseRestarts == 1

\* Engine::new: the tag base is random, so no earlier engine has used it.
TagBase == nextTag

\* The engine, the bridge and what they had in memory are gone; a new AppSync starts and
\* adopts the space.
ReplaceEngine ==
    /\ sessions < MaxSessions
    /\ sessions' = sessions + 1
    /\ joining' = TRUE /\ joinResult' = "none" /\ mapped' = FALSE
    /\ uiLive' = FALSE /\ engineIdle' = FALSE /\ settled' = FALSE
    /\ submitted' = {"JoinSpace"}
    /\ cmds' = <<>> /\ events' = <<>>
    /\ connected' = FALSE /\ joined' = FALSE /\ waiter' = FALSE
    /\ opened' = FALSE /\ live' = FALSE /\ pending' = {} /\ busy' = FALSE
    /\ outbox' = {} /\ resub' = FALSE /\ nextTag' = TagBase
    /\ up' = <<>> /\ down' = <<>>
    /\ accepted' = {}
    /\ UNCHANGED <<made, saved, relayVars, drops, fails>>

\* The user stops synchronizing and connects again; the notes stay open.  The old engine
\* takes the updates it was sent, flushes, and closes the connection if it has one.
Reconnect ==
    /\ \A i \in DOMAIN cmds : cmds[i].type # "QueueUpdate"
    /\ pending = {}
    /\ \A i \in DOMAIN up : up[i].type # "PushUpdate"
    /\ ReplaceEngine
    /\ abandoned' = (abandoned \/ (~needsPush /\ ~(note \subseteq stored)))
    /\ UNCHANGED <<note, needsPush>>

\* The process dies: the note is what the database has.
Crash ==
    /\ ReplaceEngine
    /\ note' = saved.note
    /\ needsPush' = saved.needsPush
    /\ abandoned' = (abandoned \/ (~saved.needsPush /\ ~(saved.note \subseteq stored)))

-----------------------------------------------------------------------------
(* The bridge: handle_event for one event, and reconcile.  The forwarder moves events to *)
(* the UI one at a time, so reconcile may run between any two of them.                   *)

Event(type) ==
    /\ events # <<>>
    /\ Head(events).type = type
    /\ events' = Tail(events)

\* adopt: fetch_space does nothing while the space is being joined.
UiConnected ==
    /\ Event("Connected")
    /\ joining' = TRUE
    /\ submitted' = IF joining THEN submitted ELSE submitted \cup {"JoinSpace"}
    /\ UNCHANGED <<uiVars, joinResult, mapped, uiLive, engineIdle, settled, cmds, spaceVars,
                   docVars, linkVars, relayVars, boundVars, histVars>>

UiDisconnected ==
    /\ Event("Disconnected")
    /\ uiLive' = FALSE
    /\ engineIdle' = FALSE
    /\ UNCHANGED <<uiVars, joining, joinResult, mapped, settled, submitted, cmds, spaceVars,
                   docVars, linkVars, relayVars, boundVars, histVars>>

\* SpaceJoined: the document is opened and the note's observer attached, once per engine.
\* Edits may overtake the request to open it, which goes through the bridge thread.
UiJoined ==
    /\ joinResult # "none"
    /\ joinResult' = "none"
    /\ joining' = FALSE
    /\ IF joinResult = "ok"
       THEN /\ submitted' = submitted \cup {"OpenDocs"}
            /\ mapped' = TRUE
            /\ settled' = (settled \/ ~mapped)
       ELSE UNCHANGED <<submitted, mapped, settled>>
    /\ UNCHANGED <<uiVars, uiLive, engineIdle, cmds, events, spaceVars, docVars, linkVars,
                   relayVars, boundVars, histVars>>

\* submit: the bridge thread runs what it was handed.
Submit(request) ==
    /\ request \in submitted
    /\ submitted' = submitted \ {request}
    /\ Command(request, {})
    /\ UNCHANGED <<uiVars, joining, joinResult, mapped, uiLive, engineIdle, settled, events,
                   spaceVars, docVars, linkVars, relayVars, boundVars, histVars>>

\* mutant: what was made while offline is not shipped when the subscription has caught up
UiSyncedNoReship ==
    /\ Event("DocSynced")
    /\ uiLive' = TRUE
    /\ note' = note \cup Head(events).edits
    /\ UNCHANGED <<made, needsPush, saved, joining, joinResult, mapped, engineIdle, settled,
                   submitted, cmds, spaceVars, docVars, linkVars, relayVars, boundVars, histVars>>

\* The replay, then DocSynced: a flagged note is shipped whole.
UiSynced ==
    /\ Event("DocSynced")
    /\ uiLive' = TRUE
    /\ note' = note \cup Head(events).edits
    /\ IF needsPush THEN Command("QueueUpdate", note') ELSE UNCHANGED cmds
    /\ UNCHANGED <<made, needsPush, saved, joining, joinResult, mapped, engineIdle, settled,
                   submitted, spaceVars, docVars, linkVars, relayVars, boundVars, histVars>>

UiIdle ==
    /\ Event("DocIdle")
    /\ engineIdle' = TRUE
    /\ settled' = TRUE
    /\ UNCHANGED <<uiVars, joining, joinResult, mapped, uiLive, submitted, cmds, spaceVars,
                   docVars, linkVars, relayVars, boundVars, histVars>>

UiBusy ==
    /\ Event("DocBusy")
    /\ engineIdle' = FALSE
    /\ UNCHANGED <<uiVars, joining, joinResult, mapped, uiLive, settled, submitted, cmds,
                   spaceVars, docVars, linkVars, relayVars, boundVars, histVars>>

Reconcile ==
    /\ mapped
    /\ engineIdle
    /\ settled
    /\ needsPush
    /\ needsPush' = FALSE
    /\ UNCHANGED <<made, note, saved, bridgeVars, cmds, events, spaceVars, docVars, linkVars,
                   relayVars, boundVars, histVars>>

-----------------------------------------------------------------------------
(* The engine: connection, commands, ticks and messages. *)

\* The frames of the outbox in the order of their tags (a BTreeMap): there is one such
\* sequence, because no two frames of the outbox have the same tag.
InOrder ==
    {frames \in [1..Cardinality(outbox) -> outbox] :
        \A i, j \in DOMAIN frames : i < j => frames[i].tag < frames[j].tag}
Pushes(frames) == [i \in DOMAIN frames |-> Push(frames[i])]

\* mutant: a reconnect subscribes but does not push the outbox again
ConnectNoResend ==
    /\ ~connected
    /\ connected' = TRUE
    /\ Tell("Connected", {})
    /\ up' = IF opened THEN <<Plain("Subscribe")>> ELSE <<>>
    /\ UNCHANGED <<uiVars, bridgeVars, cmds, spaceVars, docVars, down, relayVars, boundVars,
                   histVars>>

\* on_connected: subscribe to what is registered, then push the outbox again.
Connect ==
    /\ ~connected
    /\ connected' = TRUE
    /\ Tell("Connected", {})
    /\ \E frames \in InOrder :
          up' = (IF opened THEN <<Plain("Subscribe")>> ELSE <<>>) \o Pushes(frames)
    /\ UNCHANGED <<uiVars, bridgeVars, cmds, spaceVars, docVars, down, relayVars, boundVars,
                   histVars>>

\* A join that waits is neither failed nor asked again.
Disconnect ==
    /\ connected
    /\ drops + fails < MaxFaults
    /\ drops' = drops + 1
    /\ connected' = FALSE
    /\ up' = <<>>
    /\ down' = <<>>
    /\ live' = FALSE
    /\ Tell("Disconnected", {})
    /\ UNCHANGED <<uiVars, bridgeVars, cmds, spaceVars, opened, pending, busy, outbox, nextTag,
                   resub, relayVars, sessions, fails, histVars>>

TakeCmd(type) ==
    /\ cmds # <<>>
    /\ Head(cmds).type = type
    /\ cmds' = Tail(cmds)

\* JoinSpace: answered at once if the space is known or the relay cannot be asked.
JoinSpace ==
    /\ TakeCmd("JoinSpace")
    /\ joinResult' = IF joined THEN "ok" ELSE IF connected THEN joinResult ELSE "failed"
    /\ waiter' = (waiter \/ (~joined /\ connected))
    /\ IF joined THEN UNCHANGED up ELSE Send(<<Plain("Join")>>)
    /\ UNCHANGED <<uiVars, joining, mapped, uiLive, engineIdle, settled, submitted, events, joined,
                   docVars, connected, down, relayVars, boundVars, histVars>>

\* open_docs: a document that is open already is not subscribed again.
OpenDocs ==
    /\ TakeCmd("OpenDocs")
    /\ opened' = (opened \/ joined)
    /\ IF joined /\ ~opened THEN Send(<<Plain("Subscribe")>>) ELSE UNCHANGED up
    /\ UNCHANGED <<uiVars, bridgeVars, events, spaceVars, live, pending, busy, outbox, nextTag,
                   resub, connected, down, relayVars, boundVars, histVars>>

\* An update for a document that is not registered is dropped.
QueueUpdate ==
    /\ TakeCmd("QueueUpdate")
    /\ IF opened
       THEN /\ pending' = pending \cup {Head(cmds).edits}
            /\ accepted' = accepted \cup Head(cmds).edits
            /\ busy' = TRUE
            /\ IF busy THEN UNCHANGED events ELSE Tell("DocBusy", {})
       ELSE UNCHANGED <<pending, accepted, busy, events>>
    /\ UNCHANGED <<uiVars, bridgeVars, spaceVars, opened, live, outbox, nextTag, resub, linkVars,
                   relayVars, boundVars, abandoned>>

\* flush_doc, once the debounce delay is over: the buffer becomes one frame, which stays in
\* the outbox whether or not it could be sent.
FlushDoc ==
    /\ pending # {}
    /\ LET frame == [tag |-> nextTag, edits |-> UNION pending]
       IN  /\ outbox' = outbox \cup {frame}
           /\ Send(<<Push(frame)>>)
    /\ pending' = {}
    /\ nextTag' = nextTag + 1
    /\ UNCHANGED <<uiVars, bridgeVars, cmds, events, spaceVars, opened, live, busy, resub,
                   connected, down, relayVars, boundVars, histVars>>

RetrySubscription ==
    /\ connected
    /\ resub
    /\ resub' = FALSE
    /\ IF opened /\ ~live THEN Send(<<Plain("Subscribe")>>) ELSE UNCHANGED up
    /\ UNCHANGED <<uiVars, bridgeVars, cmds, events, spaceVars, opened, live, pending, busy,
                   outbox, nextTag, connected, down, relayVars, boundVars, histVars>>

Receive(type) ==
    /\ down # <<>>
    /\ Head(down).type = type
    /\ down' = Tail(down)

\* handle_membership and handle_envelopes, then finish_join.
RecvJoin ==
    /\ Receive("Join")
    /\ joined' = TRUE
    /\ waiter' = FALSE
    /\ joinResult' = IF waiter THEN "ok" ELSE joinResult
    /\ UNCHANGED <<uiVars, joining, mapped, uiLive, engineIdle, settled, submitted, cmds, events,
                   docVars, connected, up, relayVars, boundVars, histVars>>

RecvSubscribedOk ==
    /\ Receive("SubscribedOk")
    /\ live' = TRUE
    /\ Tell("DocSynced", Head(down).edits)
    /\ UNCHANGED <<uiVars, bridgeVars, cmds, spaceVars, opened, pending, busy, outbox, nextTag,
                   resub, connected, up, relayVars, boundVars, histVars>>

RecvInternal ==
    /\ Receive("Internal")
    /\ resub' = TRUE
    /\ UNCHANGED <<uiVars, bridgeVars, cmds, events, spaceVars, opened, live, pending, busy,
                   outbox, nextTag, connected, up, relayVars, boundVars, histVars>>

\* mutant: idle as soon as the buffer is empty, whatever is still unacknowledged
IdleNowBufferOnly(frames) == busy /\ pending = {}

\* check_idle: the document is idle when nothing is buffered and nothing unacknowledged.
IdleNow(frames) == busy /\ pending = {} /\ frames = {}

\* An Ack for a tag that is not in the outbox is ignored.
RecvAck ==
    /\ Receive("Ack")
    /\ LET left == {f \in outbox : f.tag # Head(down).tag}
       IN  /\ outbox' = left
           /\ IF left # outbox /\ IdleNow(left)
              THEN busy' = FALSE /\ Tell("DocIdle", {})
              ELSE UNCHANGED <<busy, events>>
    /\ UNCHANGED <<uiVars, bridgeVars, cmds, spaceVars, opened, live, pending, nextTag, resub,
                   connected, up, relayVars, boundVars, histVars>>

-----------------------------------------------------------------------------
(* The relay: outside this repository.  It serves a connection's requests in order and   *)
(* acknowledges a tag it has seen before without storing the frame again.                *)

Serve(type, reply) ==
    /\ up # <<>>
    /\ Head(up).type = type
    /\ up' = Tail(up)
    /\ down' = Append(down, reply)
    /\ UNCHANGED <<uiVars, bridgeVars, cmds, events, spaceVars, docVars, connected, drops,
                   sessions, histVars>>

ServeJoin == Serve("Join", Plain("Join")) /\ UNCHANGED <<relayVars, fails>>

ServeSubscribe ==
    /\ Serve("Subscribe", Message("SubscribedOk", 0, stored))
    /\ UNCHANGED <<relayVars, fails>>

FailSubscribe ==
    /\ fails < MaxFails
    /\ drops + fails < MaxFaults
    /\ fails' = fails + 1
    /\ Serve("Subscribe", Plain("Internal"))
    /\ UNCHANGED relayVars

ServePush ==
    /\ Serve("PushUpdate", Message("Ack", Head(up).tag, {}))
    /\ stored' = IF Head(up).tag \in tags THEN stored ELSE stored \cup Head(up).edits
    /\ tags' = tags \cup {Head(up).tag}
    /\ UNCHANGED fails

-----------------------------------------------------------------------------
Bridge == UiConnected \/ UiDisconnected \/ UiSynced \/ UiIdle \/ UiBusy

HandleCmd == JoinSpace \/ OpenDocs \/ QueueUpdate

HandleWs == RecvJoin \/ RecvSubscribedOk \/ RecvInternal \/ RecvAck

Relay == ServeJoin \/ ServeSubscribe \/ ServePush

Next ==
    \/ Edit
    \/ Save
    \/ Bridge
    \/ UiJoined
    \/ \E request \in submitted : Submit(request)
    \/ Reconcile
    \/ Connect
    \/ HandleCmd
    \/ FlushDoc
    \/ RetrySubscription
    \/ HandleWs
    \/ Relay
    \/ FailSubscribe
    \/ Disconnect
    \/ Reconnect
    \/ Crash

Spec == Init /\ [][Next]_vars

\* The UI pumps its events, the engine's loop takes its commands, its socket and its tick
\* in turn, and the relay answers.  Nothing is assumed of the user, the failures, or the
\* autosave.
Fairness ==
    /\ WF_vars(Bridge)
    /\ WF_vars(UiJoined)
    /\ \A request \in {"JoinSpace", "OpenDocs"} : WF_vars(Submit(request))
    /\ WF_vars(Reconcile)
    /\ WF_vars(Connect)
    /\ WF_vars(HandleCmd)
    /\ WF_vars(FlushDoc)
    /\ WF_vars(RetrySubscription)
    /\ WF_vars(HandleWs)
    /\ WF_vars(Relay)

FairSpec == Spec /\ Fairness

-----------------------------------------------------------------------------
(* Properties. *)

Queued == UNION {cmds[i].edits : i \in DOMAIN cmds}
\* What the engine has taken and no Ack has come for.
Owed == (UNION pending) \cup (UNION {f.edits : f \in outbox})
InFlight == Queued \cup Owed

\* What DocIdle means to the UI: once the engine has reported idle and no report of the
\* contrary is on its way, everything the engine ever took is in the relay's log, through
\* lost connections, resent frames and lost Acks.
IdleMeansStored ==
    /\ engineIdle
    /\ \A i \in DOMAIN events : events[i].type # "DocBusy"
    => accepted \subseteq stored

\* No edit is forgotten: each is stored, on its way to the relay, or the flag is set that
\* has the whole note shipped again.  The hypotheses leave out the engines that ended
\* after the flag had been cleared too early, before the edits were delivered, and the
\* refused subscriptions.
Kept == needsPush \/ note \subseteq stored \cup InFlight
NothingForgotten == ~abandoned /\ fails = 0 => Kept

\* The buffer, the frames and the acknowledgements together deliver edits: what the relay
\* gains is owed to it, an Ack writes off only what is in the log, and the engine is idle
\* exactly when nothing is owed, across lost connections, resent frames and new engines.
Promise == INSTANCE EditDelivery WITH
    held <- note,
    owed <- Owed,
    log <- stored,
    ended <- sessions
DeliveryImplemented == Promise!Spec

\* Every edit reaches the relay in the end and the note turns green, whatever connections
\* were lost, provided that the last engine joins the space and nothing was abandoned.
Delivered ==
    <>[]mapped /\ []~abandoned => <>[](note \subseteq stored /\ ~needsPush)

\* src/sync/app.rs: "the per-note needs_push flag reships full state (idempotent) after
\* crashes/offline restarts; DocIdle clears it".
UndeliveredIsFlagged == Kept
=============================================================================
