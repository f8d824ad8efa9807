------------------------- MODULE PushPipelineProofs -------------------------
(***************************************************************************)
(* Proofs about PushPipeline for every value of its constants: the types,  *)
(* what DocIdle means, that no edit is forgotten, and that the pipeline    *)
(* implements EditDelivery.                                                *)
(***************************************************************************)
EXTENDS PushPipeline, FiniteSetTheorems, SequenceTheorems, TLAPS

-----------------------------------------------------------------------------
(* The books: what frames, buffers and messages say of each other. *)

\* Messages that say nothing false: an update carries edits of the note, an event edits
\* of the log; a push is in the outbox or was stored before, what is acknowledged is stored.
HeldCmds == {m \in CmdMessages : /\ m.edits \subseteq note
                                 /\ m.edits = {} <=> m.type # "QueueUpdate"}
StoredEvents == {m \in EventMessages : m.edits \subseteq stored}
OwedPushes == {m \in UpMessages :
    m.type = "PushUpdate" =>
        m.tag \in tags \/ \E f \in outbox : m.tag = f.tag /\ m.edits = f.edits}
StoredReplies == {m \in DownMessages :
    m.edits \subseteq stored /\ (m.type = "Ack" => m.tag \in tags)}

ChannelsTrue ==
    /\ cmds \in Seq(HeldCmds)
    /\ events \in Seq(StoredEvents)
    /\ up \in Seq(OwedPushes)
    /\ down \in Seq(StoredReplies)

Written == 1..made

\* The disk lags behind the note, and a flag says that there is something to push.
NoteTrue ==
    /\ stored \subseteq Written
    /\ saved.note \subseteq note
    /\ needsPush => note # {}
    /\ saved.needsPush => saved.note # {}

\* A frame has a number of its own, and when the relay knows the number it has its edits.
FramesTrue ==
    /\ IsFiniteSet(outbox)
    /\ \A f \in outbox :
          /\ f.tag \in Tags
          /\ f.edits \subseteq Written
          /\ f.edits # {}
          /\ f.tag \in tags => f.edits \subseteq stored
    /\ \A f, g \in outbox : f.tag = g.tag => f = g

\* The document is busy exactly while something is owed, and what was accepted is owed
\* or stored.
BufferTrue ==
    /\ pending \subseteq (SUBSET Written) \ {{}}
    /\ busy <=> pending # {} \/ outbox # {}
    /\ accepted \subseteq stored \cup Owed

Books == NoteTrue /\ FramesTrue /\ BufferTrue /\ ChannelsTrue

-----------------------------------------------------------------------------
(* Channels. *)

\* What one step may do to a channel whose messages are then in M.
Moves(q, r, M) ==
    \/ r = q
    \/ r = <<>>
    \/ q # <<>> /\ r = Tail(q)
    \/ \E m \in M : r = Append(q, m)

\* A channel of true messages stays one.
LEMMA MovesTrue ==
    ASSUME NEW S, NEW M, S \subseteq M, NEW q \in Seq(S), NEW r, Moves(q, r, M)
    PROVE  r \in Seq(M)
<1>1. q \in Seq(M)
  OBVIOUS
<1>2. q # <<>> => Tail(q) \in Seq(M)
  BY <1>1, HeadTailProperties
<1>3. \A m \in M : Append(q, m) \in Seq(M)
  BY <1>1
<1>4. <<>> \in Seq(M)
  BY EmptySeq
<1>5. QED
  BY <1>1, <1>2, <1>3, <1>4, Zenon DEF Moves

\* What is taken from a channel is one of its messages.
LEMMA HeadTrue ==
    ASSUME NEW S, NEW q \in Seq(S), q # <<>>
    PROVE  Head(q) \in S /\ Tail(q) \in Seq(S)
BY HeadTailProperties

\* A message is true for ever: notes and the log lose nothing within a session, tags stay
\* known, and a frame leaves the outbox only when its tag is known.
LEMMA TruthLasts ==
    ASSUME note \subseteq note', stored \subseteq stored', tags \subseteq tags',
           \A f \in outbox : f \in outbox' \/ f.tag \in tags'
    PROVE  /\ HeldCmds \subseteq HeldCmds'
           /\ StoredEvents \subseteq StoredEvents'
           /\ OwedPushes \subseteq OwedPushes'
           /\ StoredReplies \subseteq StoredReplies'
<1>1. HeldCmds \subseteq HeldCmds'
  BY DEF HeldCmds
<1>2. StoredEvents \subseteq StoredEvents'
  BY DEF StoredEvents
<1>3. OwedPushes \subseteq OwedPushes'
  BY DEF OwedPushes
<1>4. StoredReplies \subseteq StoredReplies'
  BY DEF StoredReplies
<1>5. QED
  BY <1>1, <1>2, <1>3, <1>4

\* What every step but the end of an engine does to the state the messages speak of, and
\* to the channels.
Grows ==
    /\ note \subseteq note' /\ stored \subseteq stored' /\ tags \subseteq tags'
    /\ \A f \in outbox : f \in outbox' \/ f.tag \in tags'
ChannelsMove ==
    /\ Moves(cmds, cmds', HeldCmds') /\ Moves(events, events', StoredEvents')
    /\ Moves(up, up', OwedPushes') /\ Moves(down, down', StoredReplies')

\* A step that moves the channels by true messages keeps them true.
LEMMA ChannelsStep ==
    ASSUME ChannelsTrue, Grows, ChannelsMove
    PROVE  ChannelsTrue'
<1>1. /\ HeldCmds \subseteq HeldCmds'
      /\ StoredEvents \subseteq StoredEvents'
      /\ OwedPushes \subseteq OwedPushes'
      /\ StoredReplies \subseteq StoredReplies'
  BY TruthLasts DEF Grows
<1>2. QED
  BY <1>1, MovesTrue DEF ChannelsTrue, ChannelsMove

\* True messages are messages.
LEMMA ChannelsTyped ==
    ASSUME ChannelsTrue'
    PROVE  ChannelType'
<1>1. /\ HeldCmds' \subseteq CmdMessages
      /\ StoredEvents' \subseteq EventMessages
      /\ OwedPushes' \subseteq UpMessages
      /\ StoredReplies' \subseteq DownMessages
  BY DEF HeldCmds, StoredEvents, OwedPushes, StoredReplies
<1>2. CmdMessages' = CmdMessages /\ EventMessages' = EventMessages
      /\ UpMessages' = UpMessages /\ DownMessages' = DownMessages
  BY DEF CmdMessages, EventMessages, UpMessages, DownMessages, Messages, Edits
<1>3. QED
  BY <1>1, <1>2, MovesTrue DEF ChannelsTrue, ChannelType, Moves

\* Messages without edits are true.
LEMMA PlainTrue ==
    /\ \A type \in {"JoinSpace", "OpenDocs"} : Message(type, 0, {}) \in HeldCmds'
    /\ \A type \in {"Connected", "Disconnected", "DocSynced", "DocBusy", "DocIdle"} :
          Message(type, 0, {}) \in StoredEvents'
    /\ \A type \in {"Join", "Subscribe"} : Plain(type) \in OwedPushes'
    /\ \A type \in {"Join", "Internal"} : Plain(type) \in StoredReplies'
BY DEF HeldCmds, StoredEvents, OwedPushes, StoredReplies, Message, Messages, Plain,
       CmdMessages, EventMessages, UpMessages, DownMessages

-----------------------------------------------------------------------------
(* The books are kept. *)

\* Each part of the state keeps its shape while its variables do.
LEMMA Untouched ==
    ASSUME TypeOK, Books
    PROVE  /\ UNCHANGED uiVars => NoteType'
           /\ UNCHANGED bridgeVars => BridgeType'
           /\ UNCHANGED <<spaceVars, docVars, connected>> => EngineType'
           /\ UNCHANGED <<relayVars, nextTag>> => RelayType'
           /\ UNCHANGED <<boundVars, histVars>> => BoundType'
           /\ UNCHANGED <<uiVars, stored>> => NoteTrue'
           /\ UNCHANGED <<outbox, made, relayVars, nextTag>> => FramesTrue'
           /\ UNCHANGED <<pending, made, busy, outbox, accepted, stored>> => BufferTrue'
<1>1. UNCHANGED uiVars => NoteType'
  BY Zenon DEF TypeOK, uiVars, NoteType
<1>2. UNCHANGED bridgeVars => BridgeType'
  BY Zenon DEF TypeOK, bridgeVars, BridgeType
<1>3. UNCHANGED <<spaceVars, docVars, connected>> => EngineType'
  BY Zenon DEF TypeOK, spaceVars, docVars, EngineType
<1>4. UNCHANGED <<relayVars, nextTag>> => RelayType'
  BY Zenon DEF TypeOK, relayVars, RelayType, Tags
<1>5. UNCHANGED <<boundVars, histVars>> => BoundType'
  BY Zenon DEF TypeOK, boundVars, histVars, BoundType
<1>6. UNCHANGED <<uiVars, stored>> => NoteTrue'
  BY DEF Books, uiVars, NoteTrue, Written
<1>7. UNCHANGED <<outbox, made, relayVars, nextTag>> => FramesTrue'
  BY Zenon DEF Books, relayVars, FramesTrue, Tags, Written
<1>8. UNCHANGED <<pending, made, busy, outbox, accepted, stored>> => BufferTrue'
  <2>1. UNCHANGED <<pending, outbox>> => Owed' = Owed
    BY DEF Owed
  <2>2. QED
    BY <2>1 DEF Books, BufferTrue, TypeOK, EngineType, Written
<1>9. QED
  BY <1>1, <1>2, <1>3, <1>4, <1>5, <1>6, <1>7, <1>8

\* The inductive invariant of TypesCorrect.
Sound == TypeOK /\ Books

\* The bridge's own steps change none of what the books are about, or only read an event.
LEMMA BooksBridge ==
    ASSUME Sound, Bridge \/ UiJoined \/ Reconcile \/ Save \/ Edit
                  \/ \E request \in submitted : Submit(request)
    PROVE  Sound'
<1> USE DEF uiVars, bridgeVars, spaceVars, docVars, linkVars, relayVars, boundVars, histVars
<1>1. ASSUME UiConnected PROVE Sound'
  <2>1. /\ NoteType' /\ EngineType' /\ RelayType' /\ BoundType'
        /\ NoteTrue' /\ FramesTrue' /\ BufferTrue'
    BY <1>1, Untouched DEF Sound, UiConnected
  <2>2. BridgeType'
    BY <1>1 DEF Sound, TypeOK, UiConnected, BridgeType
  <2>3. Grows /\ ChannelsMove
    BY <1>1 DEF UiConnected, Event, Moves, Grows, ChannelsMove
  <2>4. QED
    BY <2>1, <2>2, <2>3, ChannelsStep, ChannelsTyped DEF Sound, TypeOK, Books
<1>2. ASSUME Edit PROVE Sound'
  <2> USE <1>2 DEF Edit
  <2>1. EngineType' /\ RelayType' /\ BoundType'
    BY Untouched DEF Sound
  <2>2. /\ Written \subseteq Written' /\ made + 1 \in Written' /\ Written' \subseteq Edits
        /\ made' \in 0..MaxEdits
    BY PipelineAssumption DEF Sound, TypeOK, NoteType, Written, Edits
  <2>3. NoteType'
    BY <2>2 DEF Sound, TypeOK, NoteType, Written
  <2>4. BridgeType'
    BY DEF Sound, TypeOK, BridgeType
  <2>5. NoteTrue'
    BY <2>2 DEF Sound, Books, NoteTrue
  <2>6. FramesTrue'
    BY <2>2 DEF Sound, Books, FramesTrue, Tags
  <2>7. BufferTrue'
    BY <2>2 DEF Sound, TypeOK, EngineType, Books, BufferTrue, Owed
  <2>8. Message("QueueUpdate", 0, {made + 1}) \in HeldCmds'
    BY <2>2 DEF Message, HeldCmds, CmdMessages, Messages
  <2>9. Grows /\ ChannelsMove
    BY <2>8 DEF Command, Moves, Grows, ChannelsMove
  <2>10. QED
    BY <2>1, <2>3, <2>4, <2>5, <2>6, <2>7, <2>9, ChannelsStep, ChannelsTyped
       DEF Sound, TypeOK, Books
<1>3. ASSUME UiSynced PROVE Sound'
  <2> USE <1>3 DEF UiSynced
  <2>1. EngineType' /\ RelayType' /\ BoundType' /\ FramesTrue' /\ BufferTrue'
    BY Untouched DEF Sound
  <2>2. Head(events) \in StoredEvents
    BY HeadTrue DEF Event, Sound, Books, ChannelsTrue
  <2>3. Head(events).edits \subseteq Written
    BY <2>2 DEF Sound, Books, NoteTrue, StoredEvents
  <2>4. NoteType'
    BY <2>3 DEF Sound, TypeOK, NoteType, Written
  <2>5. BridgeType'
    BY DEF Sound, TypeOK, BridgeType
  <2>6. NoteTrue'
    BY DEF Sound, Books, NoteTrue, Written
  <2>7. needsPush => Message("QueueUpdate", 0, note') \in HeldCmds'
    <3>1. needsPush => note' # {}
      BY DEF Sound, Books, NoteTrue
    <3>2. note' \subseteq Edits
      <4>1. note' \subseteq Written /\ made \in 0..MaxEdits
        BY <2>3 DEF Sound, TypeOK, NoteType, Written
      <4>2. QED
        BY <4>1, PipelineAssumption DEF Written, Edits
    <3>3. QED
      BY <3>1, <3>2 DEF Message, HeldCmds, CmdMessages, Messages
  <2>8. Grows /\ ChannelsMove
    BY <2>7 DEF Event, Command, Moves, Grows, ChannelsMove
  <2>9. QED
    BY <2>1, <2>4, <2>5, <2>6, <2>8, ChannelsStep, ChannelsTyped DEF Sound, TypeOK, Books
<1>4. ASSUME UiJoined PROVE Sound'
  <2> USE <1>4 DEF UiJoined
  <2>1. /\ NoteType' /\ EngineType' /\ RelayType' /\ BoundType'
        /\ NoteTrue' /\ FramesTrue' /\ BufferTrue'
    BY Untouched DEF Sound
  <2>2. BridgeType'
    BY DEF Sound, TypeOK, BridgeType
  <2>3. Grows /\ ChannelsMove
    BY DEF Moves, Grows, ChannelsMove
  <2>4. QED
    BY <2>1, <2>2, <2>3, ChannelsStep, ChannelsTyped DEF Sound, TypeOK, Books
<1>5. ASSUME NEW request \in submitted, Submit(request) PROVE Sound'
  <2> USE <1>5 DEF Submit
  <2>1. /\ NoteType' /\ EngineType' /\ RelayType' /\ BoundType'
        /\ NoteTrue' /\ FramesTrue' /\ BufferTrue'
    BY Untouched DEF Sound
  <2>2. BridgeType'
    BY DEF Sound, TypeOK, BridgeType
  <2>3. Grows /\ ChannelsMove
    BY PlainTrue DEF Sound, TypeOK, BridgeType, Command, Moves, Grows, ChannelsMove
  <2>4. QED
    BY <2>1, <2>2, <2>3, ChannelsStep, ChannelsTyped DEF Sound, TypeOK, Books
<1>6. ASSUME Save PROVE Sound'
  <2> USE <1>6 DEF Save
  <2>1. /\ BridgeType' /\ EngineType' /\ RelayType' /\ BoundType'
        /\ FramesTrue' /\ BufferTrue'
    BY Untouched DEF Sound
  <2>2. NoteType'
    BY DEF Sound, TypeOK, NoteType
  <2>3. NoteTrue'
    BY DEF Sound, Books, NoteTrue, Written
  <2>4. Grows /\ ChannelsMove
    BY DEF Moves, Grows, ChannelsMove
  <2>5. QED
    BY <2>1, <2>2, <2>3, <2>4, ChannelsStep, ChannelsTyped DEF Sound, TypeOK, Books
<1>7. ASSUME Reconcile PROVE Sound'
  <2> USE <1>7 DEF Reconcile
  <2>1. /\ BridgeType' /\ EngineType' /\ RelayType' /\ BoundType'
        /\ FramesTrue' /\ BufferTrue'
    BY Untouched DEF Sound
  <2>2. NoteType'
    BY DEF Sound, TypeOK, NoteType
  <2>3. NoteTrue'
    BY DEF Sound, Books, NoteTrue, Written
  <2>4. Grows /\ ChannelsMove
    BY DEF Moves, Grows, ChannelsMove
  <2>5. QED
    BY <2>1, <2>2, <2>3, <2>4, ChannelsStep, ChannelsTyped DEF Sound, TypeOK, Books
<1>8. ASSUME UiDisconnected \/ UiIdle \/ UiBusy PROVE Sound'
  <2> USE <1>8 DEF UiDisconnected, UiIdle, UiBusy
  <2>1. /\ NoteType' /\ EngineType' /\ RelayType' /\ BoundType'
        /\ NoteTrue' /\ FramesTrue' /\ BufferTrue'
    BY Untouched DEF Sound
  <2>2. BridgeType'
    BY DEF Sound, TypeOK, BridgeType
  <2>3. Grows /\ ChannelsMove
    BY DEF Event, Moves, Grows, ChannelsMove
  <2>4. QED
    BY <2>1, <2>2, <2>3, ChannelsStep, ChannelsTyped DEF Sound, TypeOK, Books
<1>9. QED
  BY <1>1, <1>2, <1>3, <1>4, <1>5, <1>6, <1>7, <1>8 DEF Bridge

\* The engine's steps within a connection.
LEMMA BooksEngine ==
    ASSUME Sound, HandleCmd \/ FlushDoc \/ RetrySubscription \/ HandleWs
    PROVE  Sound'
<1> USE DEF uiVars, bridgeVars, spaceVars, docVars, linkVars, relayVars, boundVars, histVars
<1>1. ASSUME JoinSpace PROVE Sound'
  <2> USE <1>1 DEF JoinSpace
  <2>1. NoteType' /\ RelayType' /\ BoundType' /\ NoteTrue' /\ FramesTrue' /\ BufferTrue'
    BY Untouched DEF Sound
  <2>2. BridgeType' /\ EngineType'
    BY DEF Sound, TypeOK, BridgeType, EngineType
  <2>3. Moves(up, up', OwedPushes')
    BY PlainTrue DEF Send, Moves
  <2>4. Grows /\ ChannelsMove
    BY <2>3 DEF TakeCmd, Moves, Grows, ChannelsMove
  <2>5. QED
    BY <2>1, <2>2, <2>4, ChannelsStep, ChannelsTyped DEF Sound, TypeOK, Books
<1>2. ASSUME OpenDocs PROVE Sound'
  <2> USE <1>2 DEF OpenDocs
  <2>1. /\ NoteType' /\ BridgeType' /\ RelayType' /\ BoundType'
        /\ NoteTrue' /\ FramesTrue' /\ BufferTrue'
    BY Untouched DEF Sound
  <2>2. EngineType'
    BY DEF Sound, TypeOK, EngineType
  <2>3. Moves(up, up', OwedPushes')
    BY PlainTrue DEF Send, Moves
  <2>4. Grows /\ ChannelsMove
    BY <2>3 DEF TakeCmd, Moves, Grows, ChannelsMove
  <2>5. QED
    BY <2>1, <2>2, <2>4, ChannelsStep, ChannelsTyped DEF Sound, TypeOK, Books
<1>3. ASSUME QueueUpdate PROVE Sound'
  <2> USE <1>3 DEF QueueUpdate
  <2>1. NoteType' /\ BridgeType' /\ RelayType' /\ NoteTrue' /\ FramesTrue'
    BY Untouched DEF Sound
  <2>2. /\ Head(cmds) \in HeldCmds /\ Head(cmds).edits # {}
        /\ Head(cmds).edits \subseteq Written
    <3>1. Head(cmds) \in HeldCmds /\ Head(cmds).type = "QueueUpdate"
      BY HeadTrue DEF TakeCmd, Sound, Books, ChannelsTrue
    <3>2. note \subseteq Written
      BY DEF Sound, TypeOK, NoteType, Written
    <3>3. QED
      BY <3>1, <3>2 DEF HeldCmds
  <2>3. EngineType' /\ BoundType'
    BY <2>2 DEF Sound, TypeOK, EngineType, BoundType, HeldCmds, CmdMessages, Messages
  <2>4. Owed' = IF opened THEN Owed \cup Head(cmds).edits ELSE Owed
    BY DEF Owed
  <2>5. BufferTrue'
    <3>1. Written' = Written
      BY DEF Written
    <3>2. /\ pending \subseteq (SUBSET Written) \ {{}} /\ accepted \subseteq stored \cup Owed
          /\ busy <=> pending # {} \/ outbox # {}
      BY DEF Sound, Books, BufferTrue
    <3>3. pending' \subseteq (SUBSET Written) \ {{}} /\ accepted' \subseteq stored' \cup Owed'
      BY <2>2, <2>4, <3>2
    <3>4. busy' <=> pending' # {} \/ outbox' # {}
      BY <3>2
    <3>5. QED
      BY <3>1, <3>3, <3>4 DEF BufferTrue
  <2>6. Grows /\ ChannelsMove
    BY PlainTrue DEF TakeCmd, Tell, Moves, Grows, ChannelsMove
  <2>7. QED
    BY <2>1, <2>3, <2>5, <2>6, ChannelsStep, ChannelsTyped DEF Sound, TypeOK, Books
<1>4. ASSUME FlushDoc PROVE Sound'
  <2> USE <1>4 DEF FlushDoc
  <2> DEFINE frame == [tag |-> nextTag, edits |-> UNION pending]
  <2>1. NoteType' /\ BridgeType' /\ BoundType' /\ NoteTrue'
    BY Untouched DEF Sound
  <2>2. /\ frame \in Frames /\ frame.edits # {} /\ frame.edits \subseteq Written
        /\ frame.tag \in Tags' /\ frame.tag \notin Tags /\ Tags \subseteq Tags'
        /\ nextTag' \in Nat \ {0}
    BY DEF Sound, TypeOK, EngineType, Books, BufferTrue, Frames, Tags
  <2>3. EngineType' /\ RelayType'
    BY <2>2 DEF Sound, TypeOK, EngineType, RelayType
  <2>4. FramesTrue'
    <3>1. IsFiniteSet(outbox')
      BY FS_AddElement DEF Sound, Books, FramesTrue
    <3>2. QED
      BY <2>2, <3>1 DEF Sound, TypeOK, RelayType, Books, FramesTrue, Written
  <2>5. Owed' = Owed
    BY DEF Owed
  <2>6. BufferTrue'
    BY <2>5 DEF Sound, TypeOK, EngineType, Books, BufferTrue, Written
  <2>7. Push(frame) \in OwedPushes'
    BY <2>2 DEF Push, Message, OwedPushes, UpMessages, Messages, Frames
  <2>8. Moves(up, up', OwedPushes')
    BY <2>7 DEF Send, Moves
  <2>9. Grows /\ ChannelsMove
    BY <2>8 DEF Moves, Grows, ChannelsMove
  <2>10. QED
    BY <2>1, <2>3, <2>4, <2>6, <2>9, ChannelsStep, ChannelsTyped DEF Sound, TypeOK, Books
<1>5. ASSUME RetrySubscription PROVE Sound'
  <2> USE <1>5 DEF RetrySubscription
  <2>1. /\ NoteType' /\ BridgeType' /\ RelayType' /\ BoundType'
        /\ NoteTrue' /\ FramesTrue' /\ BufferTrue'
    BY Untouched DEF Sound
  <2>2. EngineType'
    BY DEF Sound, TypeOK, EngineType
  <2>3. Moves(up, up', OwedPushes')
    BY PlainTrue DEF Send, Moves
  <2>4. Grows /\ ChannelsMove
    BY <2>3 DEF Moves, Grows, ChannelsMove
  <2>5. QED
    BY <2>1, <2>2, <2>4, ChannelsStep, ChannelsTyped DEF Sound, TypeOK, Books
<1>6. ASSUME RecvJoin PROVE Sound'
  <2> USE <1>6 DEF RecvJoin
  <2>1. NoteType' /\ RelayType' /\ BoundType' /\ NoteTrue' /\ FramesTrue' /\ BufferTrue'
    BY Untouched DEF Sound
  <2>2. BridgeType' /\ EngineType'
    BY DEF Sound, TypeOK, BridgeType, EngineType
  <2>3. Grows /\ ChannelsMove
    BY DEF Receive, Moves, Grows, ChannelsMove
  <2>4. QED
    BY <2>1, <2>2, <2>3, ChannelsStep, ChannelsTyped DEF Sound, TypeOK, Books
<1>7. ASSUME RecvSubscribedOk PROVE Sound'
  <2> USE <1>7 DEF RecvSubscribedOk
  <2>1. /\ NoteType' /\ BridgeType' /\ RelayType' /\ BoundType'
        /\ NoteTrue' /\ FramesTrue' /\ BufferTrue'
    BY Untouched DEF Sound
  <2>2. EngineType'
    BY DEF Sound, TypeOK, EngineType
  <2>3. Head(down) \in StoredReplies
    BY HeadTrue DEF Receive, Sound, Books, ChannelsTrue
  <2>4. Message("DocSynced", 0, Head(down).edits) \in StoredEvents'
    BY <2>3 DEF Message, StoredReplies, DownMessages, StoredEvents, EventMessages, Messages
  <2>5. Grows /\ ChannelsMove
    BY <2>4 DEF Receive, Tell, Moves, Grows, ChannelsMove
  <2>6. QED
    BY <2>1, <2>2, <2>5, ChannelsStep, ChannelsTyped DEF Sound, TypeOK, Books
<1>8. ASSUME RecvInternal PROVE Sound'
  <2> USE <1>8 DEF RecvInternal
  <2>1. /\ NoteType' /\ BridgeType' /\ RelayType' /\ BoundType'
        /\ NoteTrue' /\ FramesTrue' /\ BufferTrue'
    BY Untouched DEF Sound
  <2>2. EngineType'
    BY DEF Sound, TypeOK, EngineType
  <2>3. Grows /\ ChannelsMove
    BY DEF Receive, Moves, Grows, ChannelsMove
  <2>4. QED
    BY <2>1, <2>2, <2>3, ChannelsStep, ChannelsTyped DEF Sound, TypeOK, Books
<1>9. ASSUME RecvAck PROVE Sound'
  <2> USE <1>9 DEF RecvAck
  <2>1. NoteType' /\ BridgeType' /\ RelayType' /\ BoundType' /\ NoteTrue'
    BY Untouched DEF Sound
  <2>2. Head(down) \in StoredReplies /\ Head(down).tag \in tags
    BY HeadTrue DEF Receive, Sound, Books, ChannelsTrue, StoredReplies
  <2>3. outbox' \subseteq outbox /\ \A f \in outbox \ outbox' : f.tag \in tags
    BY <2>2
  <2>4. EngineType'
    BY <2>3 DEF Sound, TypeOK, EngineType
  <2>5. FramesTrue'
    <3>1. IsFiniteSet(outbox')
      BY <2>3, FS_Subset DEF Sound, Books, FramesTrue
    <3>2. QED
      BY <2>3, <3>1 DEF Sound, Books, FramesTrue, Written, Tags
  <2>6. Owed \subseteq Owed' \cup stored
    BY <2>3 DEF Sound, Books, FramesTrue, Owed
  <2>7. busy' <=> pending' # {} \/ outbox' # {}
    BY <2>3 DEF Sound, TypeOK, EngineType, Books, BufferTrue, IdleNow
  <2>8. BufferTrue'
    BY <2>6, <2>7 DEF Sound, Books, BufferTrue, Written
  <2>9. Grows /\ ChannelsMove
    BY <2>3, PlainTrue DEF Receive, Tell, Moves, Grows, ChannelsMove
  <2>10. QED
    BY <2>1, <2>4, <2>5, <2>8, <2>9, ChannelsStep, ChannelsTyped DEF Sound, TypeOK, Books
<1>10. QED
  BY <1>1, <1>2, <1>3, <1>4, <1>5, <1>6, <1>7, <1>8, <1>9 DEF HandleCmd, HandleWs

\* The relay's answers, and connections that come and go.
LEMMA BooksLink ==
    ASSUME Sound, Relay \/ FailSubscribe \/ Connect \/ Disconnect
    PROVE  Sound'
<1> USE DEF uiVars, bridgeVars, spaceVars, docVars, linkVars, relayVars, boundVars, histVars
<1>1. ASSUME ServeJoin PROVE Sound'
  <2> USE <1>1 DEF ServeJoin, Serve
  <2>1. /\ NoteType' /\ BridgeType' /\ EngineType' /\ RelayType' /\ BoundType'
        /\ NoteTrue' /\ FramesTrue' /\ BufferTrue'
    BY Untouched DEF Sound
  <2>2. Grows /\ ChannelsMove
    BY PlainTrue DEF Moves, Grows, ChannelsMove
  <2>3. QED
    BY <2>1, <2>2, ChannelsStep, ChannelsTyped DEF Sound, TypeOK, Books
<1>2. ASSUME ServeSubscribe PROVE Sound'
  <2> USE <1>2 DEF ServeSubscribe, Serve
  <2>1. /\ NoteType' /\ BridgeType' /\ EngineType' /\ RelayType' /\ BoundType'
        /\ NoteTrue' /\ FramesTrue' /\ BufferTrue'
    BY Untouched DEF Sound
  <2>2. stored \subseteq Edits
    BY DEF Sound, TypeOK, RelayType
  <2>3. Message("SubscribedOk", 0, stored) \in StoredReplies'
    BY <2>2 DEF Message, StoredReplies, DownMessages, Messages
  <2>4. Grows /\ ChannelsMove
    BY <2>3 DEF Moves, Grows, ChannelsMove
  <2>5. QED
    BY <2>1, <2>4, ChannelsStep, ChannelsTyped DEF Sound, TypeOK, Books
<1>3. ASSUME FailSubscribe PROVE Sound'
  <2> USE <1>3 DEF FailSubscribe, Serve
  <2>1. /\ NoteType' /\ BridgeType' /\ EngineType' /\ RelayType'
        /\ NoteTrue' /\ FramesTrue' /\ BufferTrue'
    BY Untouched DEF Sound
  <2>2. BoundType'
    BY PipelineAssumption DEF Sound, TypeOK, BoundType
  <2>3. Grows /\ ChannelsMove
    BY PlainTrue DEF Moves, Grows, ChannelsMove
  <2>4. QED
    BY <2>1, <2>2, <2>3, ChannelsStep, ChannelsTyped DEF Sound, TypeOK, Books
<1>4. ASSUME ServePush PROVE Sound'
  <2> USE <1>4 DEF ServePush, Serve
  <2> DEFINE push == Head(up)
  <2>1. NoteType' /\ BridgeType' /\ EngineType' /\ BoundType'
    BY Untouched DEF Sound
  <2>2. /\ push.tag \in Nat /\ push.edits \subseteq Edits
        /\ push.tag \in tags \/ \E f \in outbox : push.tag = f.tag /\ push.edits = f.edits
    <3>1. push \in OwedPushes
      BY HeadTrue DEF Sound, Books, ChannelsTrue
    <3>2. QED
      BY <3>1 DEF OwedPushes, UpMessages, Messages
  <2>3. push.tag \in Tags /\ (push.tag \notin tags => push.edits \subseteq Written)
    BY <2>2 DEF Sound, TypeOK, RelayType, Books, FramesTrue
  <2>4. stored \subseteq stored' /\ stored' \subseteq Edits /\ stored' \subseteq Written
    BY <2>2, <2>3 DEF Sound, TypeOK, RelayType, Books, NoteTrue
  <2>5. RelayType'
    BY <2>3, <2>4 DEF Sound, TypeOK, RelayType, Tags
  <2>6. NoteTrue'
    BY <2>4 DEF Sound, Books, NoteTrue, Written
  <2>7. FramesTrue'
    <3>1. \A f \in outbox : f.tag \in tags' => f.edits \subseteq stored'
      BY <2>2, <2>4 DEF Sound, Books, FramesTrue
    <3>2. QED
      BY <3>1 DEF Sound, Books, FramesTrue, Written, Tags
  <2>8. BufferTrue'
    BY <2>4 DEF Sound, TypeOK, EngineType, Books, BufferTrue, Written, Owed
  <2>9. Message("Ack", push.tag, {}) \in StoredReplies'
    BY <2>2 DEF Message, StoredReplies, DownMessages, Messages
  <2>10. Grows /\ ChannelsMove
    BY <2>4, <2>9 DEF Moves, Grows, ChannelsMove
  <2>11. QED
    BY <2>1, <2>5, <2>6, <2>7, <2>8, <2>10, ChannelsStep, ChannelsTyped
       DEF Sound, TypeOK, Books
<1>5. ASSUME Connect PROVE Sound'
  <2> USE <1>5 DEF Connect
  <2>1. /\ NoteType' /\ BridgeType' /\ RelayType' /\ BoundType'
        /\ NoteTrue' /\ FramesTrue' /\ BufferTrue'
    BY Untouched DEF Sound
  <2>2. EngineType'
    BY DEF Sound, TypeOK, EngineType
  <2>3. Cardinality(outbox) \in Nat
    BY FS_CardinalityType DEF Sound, Books, FramesTrue
  <2>4. \A f \in outbox : Push(f) \in OwedPushes'
    BY DEF Sound, TypeOK, EngineType, Frames, Push, Message, OwedPushes, UpMessages, Messages
  <2>5. \A frames \in InOrder : Pushes(frames) \in Seq(OwedPushes')
    BY <2>3, <2>4 DEF InOrder, Pushes
  <2>6. (IF opened THEN <<Plain("Subscribe")>> ELSE <<>>) \in Seq(OwedPushes')
    BY PlainTrue
  <2>7. up' \in Seq(OwedPushes')
    BY <2>5, <2>6, ConcatProperties
  <2>8. /\ cmds' \in Seq(HeldCmds') /\ events' \in Seq(StoredEvents')
        /\ down' \in Seq(StoredReplies')
    <3>1. Moves(cmds, cmds', HeldCmds') /\ Moves(down, down', StoredReplies')
      BY DEF Moves
    <3>2. Moves(events, events', StoredEvents')
      BY PlainTrue DEF Tell, Moves
    <3>3. /\ HeldCmds \subseteq HeldCmds' /\ StoredEvents \subseteq StoredEvents'
          /\ StoredReplies \subseteq StoredReplies'
      BY TruthLasts
    <3>4. QED
      BY <3>1, <3>2, <3>3, MovesTrue DEF Sound, Books, ChannelsTrue
  <2>9. QED
    BY <2>1, <2>2, <2>7, <2>8, ChannelsTyped DEF Sound, TypeOK, Books, ChannelsTrue
<1>6. ASSUME Disconnect PROVE Sound'
  <2> USE <1>6 DEF Disconnect
  <2>1. /\ NoteType' /\ BridgeType' /\ RelayType'
        /\ NoteTrue' /\ FramesTrue' /\ BufferTrue'
    BY Untouched DEF Sound
  <2>2. EngineType'
    BY DEF Sound, TypeOK, EngineType
  <2>3. BoundType'
    BY PipelineAssumption DEF Sound, TypeOK, BoundType
  <2>4. Grows /\ ChannelsMove
    BY PlainTrue DEF Tell, Moves, Grows, ChannelsMove
  <2>5. QED
    BY <2>1, <2>2, <2>3, <2>4, ChannelsStep, ChannelsTyped DEF Sound, TypeOK, Books
<1>7. QED
  BY <1>1, <1>2, <1>3, <1>4, <1>5, <1>6 DEF Relay

\* An engine that ends takes its frames and every message with it.
LEMMA BooksEnds ==
    ASSUME Sound, Reconnect \/ Crash
    PROVE  Sound'
<1> USE DEF uiVars, bridgeVars, spaceVars, docVars, linkVars, relayVars, boundVars, histVars,
            ReplaceEngine
<1>1. BridgeType' /\ EngineType'
  BY DEF Sound, TypeOK, EngineType, BridgeType, Reconnect, Crash, TagBase
<1>2. NoteType' /\ NoteTrue'
  <2>1. CASE Reconnect
    BY <2>1, Untouched DEF Sound, Reconnect
  <2>2. CASE Crash
    <3>1. NoteType'
      BY <2>2 DEF Sound, TypeOK, NoteType, Crash
    <3>2. NoteTrue'
      BY <2>2 DEF Sound, TypeOK, NoteType, Books, NoteTrue, Written, Crash
    <3>3. QED
      BY <3>1, <3>2
  <2>3. QED
    BY <2>1, <2>2
<1>3. RelayType'
  BY Untouched DEF Sound, Reconnect, Crash, TagBase
<1>4. BoundType'
  <2>1. /\ drops' \in 0..MaxFaults /\ fails' \in 0..MaxFails
        /\ accepted' \subseteq Edits
    BY DEF Sound, TypeOK, BoundType, Reconnect, Crash
  <2>2. sessions' \in 0..MaxSessions
    BY PipelineAssumption DEF Sound, TypeOK, BoundType, Reconnect, Crash
  <2>3. abandoned' \in BOOLEAN
    BY DEF Sound, TypeOK, BoundType, NoteType, Reconnect, Crash
  <2>4. QED
    BY <2>1, <2>2, <2>3 DEF BoundType
<1>5. outbox' = {} /\ pending' = {} /\ busy' = FALSE /\ accepted' = {}
  BY DEF Reconnect, Crash
<1>6. FramesTrue' /\ BufferTrue'
  BY <1>5, FS_EmptySet DEF FramesTrue, BufferTrue
<1>7. ChannelsTrue'
  BY EmptySeq DEF ChannelsTrue, Reconnect, Crash
<1>8. QED
  BY <1>1, <1>2, <1>3, <1>4, <1>6, <1>7, ChannelsTyped DEF Sound, TypeOK, Books

\* Sound is inductive: no step of the pipeline makes the books false.
LEMMA BooksStep ==
    ASSUME Sound, [Next]_vars
    PROVE  Sound'
<1>1. CASE Next
  BY <1>1, BooksBridge, BooksEngine, BooksLink, BooksEnds DEF Next
<1>2. CASE UNCHANGED vars
  <2>1. UNCHANGED <<uiVars, bridgeVars, cmds, events, spaceVars, docVars, linkVars, relayVars,
                    boundVars, histVars>>
    BY <1>2 DEF vars
  <2>2. /\ NoteType' /\ BridgeType' /\ EngineType' /\ RelayType' /\ BoundType'
        /\ NoteTrue' /\ FramesTrue' /\ BufferTrue'
    BY <2>1, Untouched DEF Sound, uiVars, docVars, linkVars, relayVars, histVars
  <2>3. Grows /\ ChannelsMove
    BY <2>1 DEF Grows, ChannelsMove, Moves, uiVars, docVars, linkVars, relayVars
  <2>4. QED
    BY <2>2, <2>3, ChannelsStep, ChannelsTyped DEF Sound, TypeOK, Books
<1>3. QED
  BY <1>1, <1>2

\* An engine that starts with nothing has true books.
LEMMA BooksInit ==
    ASSUME Init
    PROVE  Sound
<1>1. NoteType
  <2>1. made \in 0..MaxEdits
    BY PipelineAssumption DEF Init
  <2>2. note \subseteq 1..made /\ needsPush \in BOOLEAN
    BY DEF Init
  <2>3. saved \in [note : SUBSET (1..made), needsPush : BOOLEAN]
    BY DEF Init
  <2>4. QED
    BY <2>1, <2>2, <2>3 DEF NoteType
<1>2. BridgeType /\ ChannelType /\ ChannelsTrue
  BY EmptySeq DEF Init, BridgeType, ChannelType, ChannelsTrue
<1>3. EngineType
  <2>1. pending \subseteq SUBSET Edits /\ outbox \subseteq Frames
    BY DEF Init
  <2>2. nextTag \in Nat \ {0}
    BY DEF Init
  <2>3. QED
    BY <2>1, <2>2 DEF Init, EngineType
<1>4. RelayType /\ BoundType
  <2>1. stored \subseteq Edits /\ tags \subseteq Tags /\ accepted \subseteq Edits
    BY DEF Init
  <2>2. drops \in 0..MaxFaults /\ sessions \in 0..MaxSessions /\ fails \in 0..MaxFails
    BY PipelineAssumption DEF Init
  <2>3. QED
    BY <2>1, <2>2 DEF Init, RelayType, BoundType
<1>5. NoteTrue /\ FramesTrue /\ BufferTrue
  BY FS_EmptySet DEF Init, NoteTrue, FramesTrue, BufferTrue
<1>6. QED
  BY <1>1, <1>2, <1>3, <1>4, <1>5 DEF Sound, TypeOK, Books

\* Every variable keeps its type, whatever the bounds are.
THEOREM TypesCorrect == Spec => []TypeOK
<1>1. Init => Sound
  BY BooksInit
<1>2. Sound /\ [Next]_vars => Sound'
  BY BooksStep
<1>3. Sound => TypeOK
  BY DEF Sound
<1>4. QED
  BY <1>1, <1>2, <1>3, PTL DEF Spec

-----------------------------------------------------------------------------
(* The pipeline implements EditDelivery. *)

\* EditDelivery sees the note, the debt, the log, the busy flag and the engines that ended.
LEMMA SeenStays ==
    ASSUME UNCHANGED <<note, pending, outbox, stored, busy, sessions>>
    PROVE  UNCHANGED Promise!vars
<1>1. Owed' = Owed
  BY DEF Owed
<1>2. QED
  BY <1>1 DEF Promise!vars

\* Every step is a step of EditDelivery, or one it does not see.
LEMMA PromiseStep ==
    ASSUME Sound, [Next]_vars
    PROVE  [Promise!Next]_(Promise!vars)
<1> USE DEF uiVars, bridgeVars, spaceVars, docVars, linkVars, relayVars, boundVars, histVars
<1>1. ASSUME Edit PROVE Promise!Write
  <2>1. made + 1 \in Edits
    BY <1>1, PipelineAssumption DEF Edit, Sound, TypeOK, NoteType, Edits
  <2>2. Owed' = Owed
    BY <1>1 DEF Edit, Owed
  <2>3. QED
    BY <1>1, <2>1, <2>2 DEF Edit, Promise!Write
<1>2. ASSUME UiSynced PROVE Promise!Learn
  <2>1. Head(events).edits \subseteq stored
    BY <1>2, HeadTrue DEF UiSynced, Event, Sound, Books, ChannelsTrue, StoredEvents
  <2>2. Owed' = Owed
    BY <1>2 DEF UiSynced, Owed
  <2>3. QED
    BY <1>2, <2>1, <2>2 DEF UiSynced, Promise!Learn
<1>3. ASSUME QueueUpdate, opened PROVE Promise!Take
  <2>1. Head(cmds) \in HeldCmds /\ Head(cmds).type = "QueueUpdate"
    BY <1>3, HeadTrue DEF QueueUpdate, TakeCmd, Sound, Books, ChannelsTrue
  <2>2. Head(cmds).edits \in (SUBSET note) \ {{}}
    BY <2>1 DEF HeldCmds
  <2>3. Owed' = Owed \cup Head(cmds).edits
    BY <1>3 DEF QueueUpdate, Owed
  <2>4. QED
    BY <1>3, <2>2, <2>3 DEF QueueUpdate, Promise!Take
<1>4. ASSUME QueueUpdate, ~opened PROVE UNCHANGED Promise!vars
  BY <1>4, SeenStays DEF QueueUpdate
<1>5. ASSUME FlushDoc PROVE UNCHANGED Promise!vars
  <2>1. Owed' = Owed
    BY <1>5 DEF FlushDoc, Owed
  <2>2. QED
    BY <1>5, <2>1 DEF FlushDoc, Promise!vars
<1>6. ASSUME RecvAck PROVE Promise!WriteOff
  <2>1. Head(down).tag \in tags
    BY <1>6, HeadTrue DEF RecvAck, Receive, Sound, Books, ChannelsTrue, StoredReplies
  <2>2. /\ outbox' \subseteq outbox /\ pending' = pending
        /\ \A f \in outbox \ outbox' : f.tag \in tags
    BY <1>6, <2>1 DEF RecvAck
  <2>3. Owed' \subseteq Owed /\ Owed \ Owed' \subseteq stored
    BY <2>2 DEF Sound, Books, FramesTrue, Owed
  <2>4. Owed' = {} <=> pending' = {} /\ outbox' = {}
    BY <2>2 DEF Sound, Books, FramesTrue, BufferTrue, Owed
  <2>5. busy' = (Owed' # {})
    BY <1>6, <2>2, <2>4 DEF RecvAck, IdleNow, Sound, TypeOK, EngineType, Books, BufferTrue
  <2>6. UNCHANGED <<note, stored, sessions>>
    BY <1>6 DEF RecvAck
  <2>7. Owed' = Owed \ (Owed \ Owed')
    BY <2>3
  <2>8. QED
    BY <2>3, <2>5, <2>6, <2>7 DEF Promise!WriteOff
<1>7. ASSUME ServePush PROVE Promise!Pay \/ UNCHANGED Promise!vars
  <2>1. Head(up).tag \in tags \/ Head(up).edits \subseteq Owed
    BY <1>7, HeadTrue DEF ServePush, Serve, Sound, Books, ChannelsTrue, OwedPushes, Owed
  <2>2. Owed' = Owed
    BY <1>7 DEF ServePush, Serve, Owed
  <2>3. CASE Head(up).tag \in tags
    BY <1>7, <2>3, SeenStays DEF ServePush, Serve
  <2>4. CASE Head(up).tag \notin tags
    BY <1>7, <2>1, <2>2, <2>4 DEF ServePush, Serve, Promise!Pay
  <2>5. QED
    BY <2>3, <2>4
<1>8. ASSUME Reconnect \/ Crash PROVE Promise!End
  <2>1. Owed' = {}
    BY <1>8 DEF Reconnect, Crash, ReplaceEngine, Owed
  <2>2. note' \in SUBSET note
    BY <1>8 DEF Reconnect, Crash, Sound, Books, NoteTrue
  <2>3. QED
    BY <1>8, <2>1, <2>2 DEF Reconnect, Crash, ReplaceEngine, Promise!End
<1>9. ASSUME \/ Save \/ UiConnected \/ UiDisconnected \/ UiIdle \/ UiBusy \/ UiJoined
             \/ Reconcile \/ \E request \in submitted : Submit(request)
      PROVE  UNCHANGED Promise!vars
  BY <1>9, SeenStays
     DEF Save, UiConnected, UiDisconnected, UiIdle, UiBusy, UiJoined, Reconcile, Submit
<1>10. ASSUME \/ Connect \/ Disconnect \/ JoinSpace \/ OpenDocs \/ RetrySubscription
              \/ RecvJoin \/ RecvSubscribedOk \/ RecvInternal
              \/ ServeJoin \/ ServeSubscribe \/ FailSubscribe
       PROVE  UNCHANGED Promise!vars
  BY <1>10, SeenStays
     DEF Connect, Disconnect, JoinSpace, OpenDocs, RetrySubscription, RecvJoin,
         RecvSubscribedOk, RecvInternal, ServeJoin, ServeSubscribe, FailSubscribe, Serve
<1>11. ASSUME UNCHANGED vars PROVE UNCHANGED Promise!vars
  BY <1>11, SeenStays DEF vars
<1>12. QED
  BY <1>1, <1>2, <1>3, <1>4, <1>5, <1>6, <1>7, <1>8, <1>9, <1>10, <1>11
     DEF Next, Bridge, HandleCmd, HandleWs, Relay, Promise!Next

\* The buffer, the outbox, resending and acknowledging implement the promise of EditDelivery.
THEOREM Implements == Spec => DeliveryImplemented
<1>1. Init => Promise!Init
  BY DEF Init, Promise!Init, Owed
<1>2. Init => Sound
  BY BooksInit
<1>3. Sound /\ [Next]_vars => Sound' /\ [Promise!Next]_(Promise!vars)
  BY BooksStep, PromiseStep
<1>4. QED
  BY <1>1, <1>2, <1>3, PTL DEF Spec, DeliveryImplemented, Promise!Spec

-----------------------------------------------------------------------------
(* Order in a channel. *)

Has(q, type) == \E i \in DOMAIN q : q[i].type = type
\* Behind every message of type a comes one of type b.
Follows(q, a, b) ==
    \A i \in DOMAIN q : q[i].type = a => \E j \in DOMAIN q : i < j /\ q[j].type = b
\* Before every message of type b comes one of type a.
Precedes(q, a, b) ==
    \A i \in DOMAIN q : q[i].type = b => \E j \in DOMAIN q : j < i /\ q[j].type = a

\* What taking the first message of a channel does to the order.
LEMMA TailOrder ==
    ASSUME NEW S, NEW q \in Seq(S), q # <<>>, NEW a, NEW b
    PROVE  /\ Has(q, b) /\ Head(q).type # b => Has(Tail(q), b)
           /\ Has(Tail(q), b) => Has(q, b)
           /\ Follows(q, a, b) => Follows(Tail(q), a, b)
           /\ Follows(q, a, b) /\ Head(q).type = a => Has(Tail(q), b)
           /\ Precedes(q, a, b) => Head(q).type # b
           /\ Precedes(q, a, b) /\ Head(q).type # a => Precedes(Tail(q), a, b)
<1>1. /\ Len(q) \in Nat \ {0} /\ DOMAIN q = 1..Len(q) /\ Head(q) = q[1]
      /\ DOMAIN Tail(q) = 1..(Len(q) - 1)
      /\ \A i \in 1..(Len(q) - 1) : Tail(q)[i] = q[i + 1]
  OBVIOUS
<1>2. ASSUME NEW j \in DOMAIN q, j # 1 PROVE j - 1 \in DOMAIN Tail(q) /\ Tail(q)[j - 1] = q[j]
  <2>1. j \in 1..Len(q) /\ j - 1 \in 1..(Len(q) - 1) /\ (j - 1) + 1 = j
    BY <1>1, <1>2
  <2>2. QED
    BY <1>1, <2>1
<1>3. Has(q, b) /\ Head(q).type # b => Has(Tail(q), b)
  BY <1>1, <1>2 DEF Has
<1>4. Has(Tail(q), b) => Has(q, b)
  BY <1>1 DEF Has
<1>5. ASSUME Follows(q, a, b), NEW i \in DOMAIN Tail(q), Tail(q)[i].type = a
      PROVE  \E j \in DOMAIN Tail(q) : i < j /\ Tail(q)[j].type = b
  <2>1. i + 1 \in DOMAIN q /\ q[i + 1].type = a
    BY <1>1, <1>5
  <2>2. PICK j \in DOMAIN q : i + 1 < j /\ q[j].type = b
    BY <1>5, <2>1 DEF Follows
  <2>3. j - 1 \in DOMAIN Tail(q) /\ i < j - 1 /\ Tail(q)[j - 1].type = b
    BY <1>1, <1>2, <2>2
  <2>4. QED
    BY <2>3
<1>6. ASSUME Follows(q, a, b), Head(q).type = a PROVE Has(Tail(q), b)
  <2>1. PICK j \in DOMAIN q : 1 < j /\ q[j].type = b
    BY <1>1, <1>6 DEF Follows
  <2>2. j \in DOMAIN q /\ j # 1
    BY <1>1, <2>1
  <2>3. j - 1 \in DOMAIN Tail(q) /\ Tail(q)[j - 1].type = b
    BY <1>2, <2>1, <2>2
  <2>4. QED
    BY <2>3 DEF Has
<1>7. Precedes(q, a, b) => Head(q).type # b
  BY <1>1 DEF Precedes
<1>8. ASSUME Precedes(q, a, b), Head(q).type # a, NEW i \in DOMAIN Tail(q), Tail(q)[i].type = b
      PROVE  \E j \in DOMAIN Tail(q) : j < i /\ Tail(q)[j].type = a
  <2>1. i + 1 \in DOMAIN q /\ q[i + 1].type = b
    BY <1>1, <1>8
  <2>2. PICK j \in DOMAIN q : j < i + 1 /\ q[j].type = a
    BY <1>8, <2>1 DEF Precedes
  <2>3. j - 1 \in DOMAIN Tail(q) /\ j - 1 < i /\ Tail(q)[j - 1].type = a
    BY <1>1, <1>2, <1>8, <2>2
  <2>4. QED
    BY <2>3
<1>9. QED
  BY <1>3, <1>4, <1>5, <1>6, <1>7, <1>8 DEF Follows, Precedes

\* The first message of a channel is in it.
LEMMA HeadHas ==
    ASSUME NEW S, NEW q \in Seq(S), q # <<>>
    PROVE  Has(q, Head(q).type)
<1>1. 1 \in DOMAIN q /\ Head(q) = q[1]
  OBVIOUS
<1>2. QED
  BY <1>1 DEF Has

\* What a new message does to it.
LEMMA AppendOrder ==
    ASSUME NEW S, NEW q \in Seq(S), NEW m, NEW a, NEW b
    PROVE  /\ Has(Append(q, m), b) <=> Has(q, b) \/ m.type = b
           /\ Follows(q, a, b) /\ m.type # a => Follows(Append(q, m), a, b)
           /\ m.type = b /\ a # b => Follows(Append(q, m), a, b)
           /\ Precedes(q, a, b) /\ (m.type = b => Has(q, a)) => Precedes(Append(q, m), a, b)
<1>1. /\ Len(q) \in Nat /\ DOMAIN q = 1..Len(q)
      /\ DOMAIN Append(q, m) = 1..(Len(q) + 1)
      /\ Append(q, m)[Len(q) + 1] = m
      /\ \A i \in 1..Len(q) : Append(q, m)[i] = q[i]
  OBVIOUS
<1>2. Has(Append(q, m), b) <=> Has(q, b) \/ m.type = b
  BY <1>1 DEF Has
<1>3. Follows(q, a, b) /\ m.type # a => Follows(Append(q, m), a, b)
  BY <1>1 DEF Follows
<1>4. m.type = b /\ a # b => Follows(Append(q, m), a, b)
  BY <1>1 DEF Follows
<1>5. Precedes(q, a, b) /\ (m.type = b => Has(q, a)) => Precedes(Append(q, m), a, b)
  BY <1>1 DEF Precedes, Has
<1>6. QED
  BY <1>2, <1>3, <1>4, <1>5

-----------------------------------------------------------------------------
(* Reports: what the UI has been told of the document, and will be. *)

\* While the engine owes something, a DocBusy is behind every DocIdle, on its way or known.
Reported ==
    busy => /\ engineIdle => Has(events, "DocBusy")
            /\ Follows(events, "DocIdle", "DocBusy")

\* A DocBusy is told before anything is owed, and no DocIdle overtakes it.
LEMMA ReportedStep ==
    ASSUME Sound, Reported, [Next]_vars
    PROVE  Reported'
<1> USE DEF uiVars, bridgeVars, spaceVars, docVars, linkVars, relayVars, boundVars, histVars
<1>1. events \in Seq(StoredEvents)
  BY DEF Sound, Books, ChannelsTrue
<1>2. ASSUME busy' => busy, engineIdle' => engineIdle,
             \/ events' = events
             \/ \E m : m.type # "DocIdle" /\ events' = Append(events, m)
      PROVE  Reported'
  <2>1. CASE events' = events
    BY <1>2, <2>1 DEF Reported
  <2>2. ASSUME NEW m, m.type # "DocIdle", events' = Append(events, m) PROVE Reported'
    <3>1. /\ Has(events, "DocBusy") => Has(events', "DocBusy")
          /\ Follows(events, "DocIdle", "DocBusy") => Follows(events', "DocIdle", "DocBusy")
      BY <1>1, <2>2, AppendOrder
    <3>2. QED
      BY <1>2, <3>1 DEF Reported
  <2>3. QED
    BY <1>2, <2>1, <2>2
<1>3. ASSUME NEW type \in {"Connected", "Disconnected", "DocSynced"}, Event(type),
             busy' = busy, engineIdle' => engineIdle
      PROVE  Reported'
  BY <1>1, <1>3, TailOrder DEF Event, Reported
<1>4. ASSUME UiIdle PROVE Reported'
  BY <1>1, <1>4, TailOrder DEF UiIdle, Event, Reported
<1>5. ASSUME UiBusy PROVE Reported'
  BY <1>1, <1>5, TailOrder DEF UiBusy, Event, Reported
<1>6. ASSUME QueueUpdate PROVE Reported'
  <2>1. CASE opened /\ ~busy
    <3>1. events' = Append(events, Message("DocBusy", 0, {}))
      BY <1>6, <2>1 DEF QueueUpdate, Tell
    <3>2. Has(events', "DocBusy") /\ Follows(events', "DocIdle", "DocBusy")
      BY <1>1, <3>1, AppendOrder DEF Message
    <3>3. QED
      BY <3>2 DEF Reported
  <2>2. CASE ~opened \/ busy
    BY <1>2, <1>6, <2>2 DEF QueueUpdate
  <2>3. QED
    BY <2>1, <2>2
<1>7. ASSUME RecvAck PROVE Reported'
  BY <1>2, <1>7 DEF RecvAck, IdleNow, Reported
<1>8. ASSUME Reconnect \/ Crash PROVE Reported'
  BY <1>8 DEF Reconnect, Crash, ReplaceEngine, Reported
<1>9. ASSUME Connect \/ Disconnect \/ RecvSubscribedOk PROVE Reported'
  BY <1>2, <1>9 DEF Connect, Disconnect, RecvSubscribedOk, Tell, Message
<1>10. ASSUME UiConnected \/ UiDisconnected \/ UiSynced PROVE Reported'
  BY <1>3, <1>10 DEF UiConnected, UiDisconnected, UiSynced
<1>11. ASSUME \/ Edit \/ Save \/ UiJoined \/ Reconcile
              \/ \E request \in submitted : Submit(request)
              \/ JoinSpace \/ OpenDocs \/ FlushDoc \/ RetrySubscription
              \/ RecvJoin \/ RecvInternal
              \/ ServeJoin \/ ServeSubscribe \/ ServePush \/ FailSubscribe
              \/ UNCHANGED vars
       PROVE  Reported'
  <2>1. UNCHANGED <<busy, engineIdle, events>>
    BY <1>11
       DEF Edit, Save, UiJoined, Reconcile, Submit, JoinSpace, OpenDocs, FlushDoc,
           RetrySubscription, RecvJoin, RecvInternal, ServeJoin, ServeSubscribe, ServePush,
           FailSubscribe, Serve, vars
  <2>2. QED
    BY <1>2, <2>1
<1>12. QED
  BY <1>4, <1>5, <1>6, <1>7, <1>8, <1>9, <1>10, <1>11
     DEF Next, Bridge, HandleCmd, HandleWs, Relay

\* The DocIdle that clears needs_push tells the truth: when the UI knows of no work of the
\* engine, the relay has everything the engine was given.
THEOREM IdleIsStored == Spec => []IdleMeansStored
<1>1. Init => Sound /\ Reported
  BY BooksInit DEF Init, Reported
<1>2. Sound /\ Reported /\ [Next]_vars => Sound' /\ Reported'
  BY BooksStep, ReportedStep
<1>3. Sound /\ Reported => IdleMeansStored
  <2>1. SUFFICES ASSUME Sound, Reported, engineIdle,
                        \A i \in DOMAIN events : events[i].type # "DocBusy"
                 PROVE  accepted \subseteq stored
    BY DEF IdleMeansStored
  <2>2. ~busy
    BY <2>1 DEF Reported, Has
  <2>3. Owed = {}
    BY <2>1, <2>2 DEF Sound, Books, BufferTrue, Owed
  <2>4. QED
    BY <2>1, <2>3 DEF Sound, Books, BufferTrue
<1>4. QED
  BY <1>1, <1>2, <1>3, PTL DEF Spec

-----------------------------------------------------------------------------
(* Shipping: what is not in the log nor on its way is flagged until the reship. *)

\* Before the document is open nothing is pushed and no report comes.
Unopened ==
    ~opened => /\ pending = {} /\ outbox = {} /\ ~engineIdle
               /\ ~Has(up, "PushUpdate") /\ ~Has(down, "Ack") /\ ~Has(events, "DocIdle")

\* Whoever asks to open the document has attached the observer of the note.
Observed == opened \/ Has(cmds, "OpenDocs") \/ "OpenDocs" \in submitted => mapped

Shipped == note \subseteq stored \cup InFlight

\* The note is flagged, and the replay of a subscription reaches the UI, and has it ship
\* the note, before any report that the document is idle.
Resubscribing ==
    /\ needsPush
    /\ ~engineIdle
    /\ Precedes(events, "DocSynced", "DocIdle")
    /\ \/ Has(events, "DocSynced")
       \/ /\ Precedes(down, "SubscribedOk", "Ack")
          /\ \/ Has(down, "SubscribedOk")
             \/ /\ Precedes(up, "Subscribe", "PushUpdate")
                /\ connected => Has(up, "Subscribe")

Shipping ==
    ~abandoned /\ fails = 0 =>
        /\ ~opened => needsPush \/ note \subseteq stored
        /\ opened => Shipped \/ Resubscribing

Delivery == Unopened /\ Observed /\ Shipping

\* A connection starts with the subscription, if the document is open, and then pushes the
\* outbox again.
LEMMA ConnectOrder ==
    ASSUME Sound, Connect
    PROVE  /\ ~opened /\ outbox = {} => up' = <<>>
           /\ opened => Has(up', "Subscribe") /\ Precedes(up', "Subscribe", "PushUpdate")
<1>1. PICK frames \in InOrder :
          up' = (IF opened THEN <<Plain("Subscribe")>> ELSE <<>>) \o Pushes(frames)
  BY DEF Connect
<1>2. Cardinality(outbox) \in Nat
  BY FS_CardinalityType DEF Sound, Books, FramesTrue
<1>3. /\ Pushes(frames) \in Seq({Push(f) : f \in outbox})
      /\ Len(Pushes(frames)) = Cardinality(outbox)
  BY <1>2 DEF InOrder, Pushes
<1>4. ~opened /\ outbox = {} => up' = <<>>
  BY <1>1, <1>3, FS_EmptySet
<1>5. ASSUME opened
      PROVE  Has(up', "Subscribe") /\ Precedes(up', "Subscribe", "PushUpdate")
  <2>1. /\ up' = <<Plain("Subscribe")>> \o Pushes(frames)
        /\ DOMAIN up' = 1..(1 + Cardinality(outbox)) /\ up'[1] = Plain("Subscribe")
    BY <1>1, <1>2, <1>3, <1>5
  <2>2. 1 \in DOMAIN up' /\ up'[1].type = "Subscribe" /\ up'[1].type # "PushUpdate"
    BY <1>2, <2>1 DEF Plain, Message
  <2>3. \A k \in DOMAIN up' : k = 1 \/ 1 < k
    BY <1>2, <2>1
  <2>4. QED
    BY <2>2, <2>3 DEF Has, Precedes
<1>6. QED
  BY <1>4, <1>5

\* Only an open document has frames, acknowledgements and reports.
LEMMA UnopenedStep ==
    ASSUME Sound, Unopened, [Next]_vars
    PROVE  Unopened'
<1> USE DEF uiVars, bridgeVars, spaceVars, docVars, linkVars, relayVars, boundVars, histVars
<1>0. /\ up \in Seq(OwedPushes) /\ down \in Seq(StoredReplies) /\ events \in Seq(StoredEvents)
  BY DEF Sound, Books, ChannelsTrue
<1> DEFINE Silent(q, r, b) == ~Has(q, b) => ~Has(r, b)
<1>1. ASSUME NEW S, NEW q \in Seq(S), NEW r, NEW b,
             \/ r = q
             \/ r = <<>>
             \/ q # <<>> /\ r = Tail(q)
             \/ \E m : m.type # b /\ r = Append(q, m)
      PROVE  Silent(q, r, b)
  <2>1. ~Has(<<>>, b)
    BY DEF Has
  <2>2. q # <<>> => Silent(q, Tail(q), b)
    BY TailOrder
  <2>3. \A m : m.type # b => Silent(q, Append(q, m), b)
    BY AppendOrder
  <2>4. QED
    BY <1>1, <2>1, <2>2, <2>3
<1>2. ASSUME opened' \/ /\ ~opened
                        /\ UNCHANGED <<pending, outbox>> /\ (engineIdle' => engineIdle)
                        /\ Silent(up, up', "PushUpdate") /\ Silent(down, down', "Ack")
                        /\ Silent(events, events', "DocIdle")
      PROVE  Unopened'
  BY <1>2 DEF Unopened
<1>3. ASSUME \/ Edit \/ Save \/ UiJoined \/ Reconcile
             \/ \E request \in submitted : Submit(request)
      PROVE  Unopened'
  BY <1>2, <1>3 DEF Edit, Save, UiJoined, Reconcile, Submit, Unopened
<1>4. ASSUME Bridge PROVE Unopened'
  <2>1. CASE UiIdle
    <3>1. Has(events, "DocIdle")
      BY <1>0, <2>1, HeadHas DEF UiIdle, Event
    <3>2. QED
      BY <2>1, <3>1 DEF UiIdle, Unopened
  <2>2. CASE UiConnected \/ UiDisconnected \/ UiSynced \/ UiBusy
    <3>1. /\ UNCHANGED <<opened, pending, outbox, up, down>> /\ (engineIdle' => engineIdle)
          /\ events # <<>> /\ events' = Tail(events)
      BY <2>2 DEF UiConnected, UiDisconnected, UiSynced, UiBusy, Event
    <3>2. Silent(events, events', "DocIdle")
      BY <1>0, <1>1, <3>1
    <3>3. QED
      BY <1>2, <3>1, <3>2 DEF Unopened
  <2>3. QED
    BY <1>4, <2>1, <2>2 DEF Bridge
<1>5. ASSUME HandleCmd PROVE Unopened'
  <2>1. CASE JoinSpace
    <3>1. UNCHANGED up \/ up' = Append(up, Plain("Join"))
      BY <1>0, <2>1 DEF JoinSpace, Send
    <3>2. Silent(up, up', "PushUpdate")
      BY <1>0, <1>1, <3>1 DEF Plain, Message
    <3>3. QED
      BY <2>1, <3>2 DEF JoinSpace, Unopened
  <2>2. CASE OpenDocs
    BY <2>2 DEF OpenDocs, Unopened
  <2>3. CASE QueueUpdate
    BY <2>3 DEF QueueUpdate, Unopened
  <2>4. QED
    BY <1>5, <2>1, <2>2, <2>3 DEF HandleCmd
<1>6. ASSUME FlushDoc PROVE Unopened'
  BY <1>6 DEF FlushDoc, Unopened
<1>7. ASSUME RetrySubscription PROVE Unopened'
  BY <1>2, <1>7 DEF RetrySubscription
<1>8. ASSUME HandleWs PROVE Unopened'
  <2>1. CASE RecvAck
    <3>1. Has(down, "Ack")
      BY <1>0, <2>1, HeadHas DEF RecvAck, Receive
    <3>2. QED
      BY <1>2, <2>1, <3>1 DEF RecvAck, Unopened
  <2>2. CASE RecvJoin \/ RecvInternal \/ RecvSubscribedOk
    <3>1. /\ UNCHANGED <<opened, pending, outbox, engineIdle, up>>
          /\ down # <<>> /\ down' = Tail(down)
          /\ UNCHANGED events \/ \E m : m.type # "DocIdle" /\ events' = Append(events, m)
      BY <2>2 DEF RecvJoin, RecvInternal, RecvSubscribedOk, Receive, Tell, Message
    <3>2. Silent(down, down', "Ack") /\ Silent(events, events', "DocIdle")
      BY <1>0, <1>1, <3>1
    <3>3. QED
      BY <1>2, <3>1, <3>2 DEF Unopened
  <2>3. QED
    BY <1>8, <2>1, <2>2 DEF HandleWs
<1>9. ASSUME Relay \/ FailSubscribe PROVE Unopened'
  <2>1. CASE ServePush
    <3>1. Has(up, "PushUpdate")
      BY <1>0, <2>1, HeadHas DEF ServePush, Serve
    <3>2. QED
      BY <1>2, <2>1, <3>1 DEF ServePush, Serve, Unopened
  <2>2. CASE ServeJoin \/ ServeSubscribe \/ FailSubscribe
    <3>1. /\ UNCHANGED <<opened, pending, outbox, engineIdle, events>>
          /\ up # <<>> /\ up' = Tail(up)
          /\ \E m : m.type # "Ack" /\ down' = Append(down, m)
      BY <2>2 DEF ServeJoin, ServeSubscribe, FailSubscribe, Serve, Plain, Message
    <3>2. Silent(up, up', "PushUpdate") /\ Silent(down, down', "Ack")
      BY <1>0, <1>1, <3>1
    <3>3. QED
      BY <1>2, <3>1, <3>2 DEF Unopened
  <2>3. QED
    BY <1>9, <2>1, <2>2 DEF Relay
<1>10. ASSUME Connect \/ Disconnect PROVE Unopened'
  <2>1. /\ UNCHANGED <<opened, pending, outbox>> /\ (engineIdle' => engineIdle)
        /\ \E m : m.type # "DocIdle" /\ events' = Append(events, m)
    BY <1>10 DEF Connect, Disconnect, Tell, Message
  <2>2. Silent(events, events', "DocIdle")
    BY <1>0, <1>1, <2>1
  <2>3. Silent(down, down', "Ack")
    BY <1>10 DEF Connect, Disconnect, Has
  <2>4. ~opened /\ outbox = {} => ~Has(up', "PushUpdate")
    BY <1>10, ConnectOrder DEF Disconnect, Has
  <2>5. QED
    BY <2>1, <2>2, <2>3, <2>4 DEF Unopened
<1>11. ASSUME Reconnect \/ Crash PROVE Unopened'
  BY <1>11 DEF Reconnect, Crash, ReplaceEngine, Unopened, Has
<1>12. ASSUME UNCHANGED vars PROVE Unopened'
  BY <1>12 DEF vars, Unopened
<1>13. QED
  BY <1>3, <1>4, <1>5, <1>6, <1>7, <1>8, <1>9, <1>10, <1>11, <1>12 DEF Next

\* The request to open the document is made when the observer is attached.
LEMMA ObservedStep ==
    ASSUME Sound, Observed, [Next]_vars
    PROVE  Observed'
<1> USE DEF uiVars, bridgeVars, spaceVars, docVars, linkVars, relayVars, boundVars, histVars
<1>0. cmds \in Seq(HeldCmds)
  BY DEF Sound, Books, ChannelsTrue
<1>1. ASSUME mapped' = mapped, opened' = opened,
             submitted' \subseteq submitted \cup {"JoinSpace"},
             \/ cmds' = cmds
             \/ cmds # <<>> /\ cmds' = Tail(cmds)
             \/ \E m : /\ m.type = "OpenDocs" => "OpenDocs" \in submitted
                       /\ cmds' = Append(cmds, m)
      PROVE  Observed'
  <2>1. Has(cmds', "OpenDocs") => Has(cmds, "OpenDocs") \/ "OpenDocs" \in submitted
    <3>1. cmds # <<>> /\ Has(Tail(cmds), "OpenDocs") => Has(cmds, "OpenDocs")
      BY <1>0, TailOrder
    <3>2. \A m : Has(Append(cmds, m), "OpenDocs")
                    => Has(cmds, "OpenDocs") \/ m.type = "OpenDocs"
      BY <1>0, AppendOrder
    <3>3. QED
      BY <1>1, <3>1, <3>2
  <2>2. QED
    BY <1>1, <2>1 DEF Observed
<1>2. ASSUME Edit \/ UiSynced PROVE Observed'
  BY <1>1, <1>2 DEF Edit, UiSynced, Command, Message
<1>3. ASSUME NEW request \in submitted, Submit(request) PROVE Observed'
  BY <1>1, <1>3 DEF Submit, Command, Message
<1>4. ASSUME UiJoined PROVE Observed'
  BY <1>4 DEF UiJoined, Observed
<1>5. ASSUME OpenDocs PROVE Observed'
  <2>1. Has(cmds, "OpenDocs") /\ (Has(cmds', "OpenDocs") => Has(cmds, "OpenDocs"))
    BY <1>0, <1>5, HeadHas, TailOrder DEF OpenDocs, TakeCmd
  <2>2. QED
    BY <1>5, <2>1 DEF OpenDocs, Observed
<1>6. ASSUME JoinSpace \/ QueueUpdate PROVE Observed'
  BY <1>1, <1>6 DEF JoinSpace, QueueUpdate, TakeCmd
<1>7. ASSUME Reconnect \/ Crash PROVE Observed'
  BY <1>7 DEF Reconnect, Crash, ReplaceEngine, Observed, Has
<1>8. ASSUME \/ Save \/ UiConnected \/ UiDisconnected \/ UiIdle \/ UiBusy \/ Reconcile
             \/ Connect \/ Disconnect \/ FlushDoc \/ RetrySubscription \/ HandleWs \/ Relay
             \/ FailSubscribe \/ UNCHANGED vars
      PROVE  Observed'
  <2>1. UNCHANGED <<mapped, opened, cmds>> /\ submitted' \subseteq submitted \cup {"JoinSpace"}
    BY <1>8
       DEF Save, UiConnected, UiDisconnected, UiIdle, UiBusy, Reconcile, Connect, Disconnect,
           FlushDoc, RetrySubscription, HandleWs, RecvJoin, RecvSubscribedOk, RecvInternal,
           RecvAck, Relay, ServeJoin, ServeSubscribe, ServePush, FailSubscribe, Serve, vars
  <2>2. QED
    BY <1>1, <2>1
<1>9. QED
  BY <1>2, <1>3, <1>4, <1>5, <1>6, <1>7, <1>8 DEF Next, Bridge, HandleCmd

\* The edits in the command channel are those of its messages.
LEMMA QueuedMoves ==
    ASSUME cmds \in Seq(HeldCmds)
    PROVE  /\ cmds # <<>> /\ cmds' = Tail(cmds)
                 => Queued \subseteq Queued' \cup Head(cmds).edits
           /\ \A m : cmds' = Append(cmds, m) => Queued \cup m.edits \subseteq Queued'
           /\ cmds' = cmds => Queued' = Queued
<1>1. ASSUME cmds # <<>>, cmds' = Tail(cmds), NEW i \in DOMAIN cmds
      PROVE  cmds[i].edits \subseteq Queued' \cup Head(cmds).edits
  <2>1. /\ Len(cmds) \in Nat \ {0} /\ DOMAIN cmds = 1..Len(cmds) /\ Head(cmds) = cmds[1]
        /\ DOMAIN cmds' = 1..(Len(cmds) - 1)
        /\ \A j \in 1..(Len(cmds) - 1) : cmds'[j] = cmds[j + 1]
    BY <1>1
  <2>2. CASE i = 1
    BY <2>1, <2>2
  <2>3. CASE i # 1
    <3>1. i - 1 \in DOMAIN cmds' /\ cmds'[i - 1] = cmds[i]
      <4>1. i \in 1..Len(cmds) /\ i - 1 \in 1..(Len(cmds) - 1) /\ (i - 1) + 1 = i
        BY <1>1, <2>1, <2>3
      <4>2. QED
        BY <2>1, <4>1
    <3>2. QED
      BY <3>1 DEF Queued
  <2>4. QED
    BY <2>2, <2>3
<1>2. ASSUME NEW m, cmds' = Append(cmds, m)
      PROVE  Queued \cup m.edits \subseteq Queued'
  <2>1. /\ Len(cmds) \in Nat /\ DOMAIN cmds = 1..Len(cmds)
        /\ DOMAIN cmds' = 1..(Len(cmds) + 1) /\ cmds'[Len(cmds) + 1] = m
        /\ \A i \in 1..Len(cmds) : cmds'[i] = cmds[i]
    BY <1>2
  <2>2. /\ Len(cmds) + 1 \in DOMAIN cmds'
        /\ \A i \in DOMAIN cmds : i \in DOMAIN cmds' /\ cmds'[i] = cmds[i]
    BY <2>1
  <2>3. QED
    BY <2>1, <2>2 DEF Queued
<1>3. cmds' = cmds => Queued' = Queued
  BY DEF Queued
<1>4. QED
  BY <1>1, <1>2, <1>3 DEF Queued

\* What is shipped stays shipped while edits only move on.
LEMMA ShippedStays ==
    ASSUME Shipped, note' \subseteq note \cup stored', stored \subseteq stored',
           Queued \subseteq Queued' \cup Owed', Owed \subseteq Owed' \cup stored'
    PROVE  Shipped'
BY DEF Shipped, InFlight

\* A channel keeps the order that a resubscription needs.
Keeps(q, r, a, b) == /\ Has(q, a) => Has(r, a)
                     /\ Precedes(q, a, b) => Precedes(r, a, b)

\* What taking a message or sending one does to that order.
LEMMA KeepsMoves ==
    ASSUME NEW S, NEW q \in Seq(S), NEW r, NEW a, NEW b,
           \/ r = q
           \/ q # <<>> /\ Head(q).type # a /\ r = Tail(q)
           \/ \E m : m.type # b /\ r = Append(q, m)
    PROVE  Keeps(q, r, a, b)
<1>1. q # <<>> /\ Head(q).type # a => Keeps(q, Tail(q), a, b)
  BY TailOrder DEF Keeps
<1>2. \A m : m.type # b => Keeps(q, Append(q, m), a, b)
  BY AppendOrder DEF Keeps
<1>3. QED
  BY <1>1, <1>2 DEF Keeps

\* A step that keeps the flag and the order of the three channels keeps a resubscription.
LEMMA ResubscribingStays ==
    ASSUME Resubscribing, needsPush' = needsPush, engineIdle' => engineIdle,
           connected' => connected,
           Keeps(events, events', "DocSynced", "DocIdle"),
           Keeps(down, down', "SubscribedOk", "Ack"),
           Keeps(up, up', "Subscribe", "PushUpdate")
    PROVE  Resubscribing'
BY DEF Resubscribing, Keeps

\* From opening the document to its reship, the flag, the reply and the reship relieve each
\* other without a gap.
LEMMA ShippingStep ==
    ASSUME Sound, Delivery, [Next]_vars
    PROVE  Shipping'
<1> USE DEF uiVars, bridgeVars, spaceVars, docVars, linkVars, relayVars, boundVars, histVars
<1>0. /\ up \in Seq(OwedPushes) /\ down \in Seq(StoredReplies)
      /\ events \in Seq(StoredEvents) /\ cmds \in Seq(HeldCmds)
  BY DEF Sound, Books, ChannelsTrue
<1>1. ASSUME opened' = opened, abandoned' = abandoned, fails' = fails,
             ~opened /\ (needsPush \/ note \subseteq stored)
                => needsPush' \/ note' \subseteq stored',
             opened /\ (Shipped \/ Resubscribing) => Shipped' \/ Resubscribing'
      PROVE  Shipping'
  BY <1>1 DEF Delivery, Shipping
\* A step after which the note, the flag and the edits are where they were.
<1>2. ASSUME UNCHANGED <<opened, abandoned, fails, note, needsPush, stored, pending, outbox>>,
             engineIdle' => engineIdle, connected' => connected,
             Queued \subseteq Queued',
             Keeps(events, events', "DocSynced", "DocIdle"),
             Keeps(down, down', "SubscribedOk", "Ack"),
             Keeps(up, up', "Subscribe", "PushUpdate")
      PROVE  Shipping'
  <2>1. Owed' = Owed
    BY <1>2 DEF Owed
  <2>2. Shipped => Shipped'
    BY <1>2, <2>1, ShippedStays
  <2>3. Resubscribing => Resubscribing'
    BY <1>2, ResubscribingStays
  <2>4. QED
    BY <1>1, <1>2, <2>2, <2>3
<1>3. ASSUME Edit PROVE Shipping'
  <2>1. opened => /\ Message("QueueUpdate", 0, {made + 1}).edits \subseteq Queued'
                  /\ Queued \subseteq Queued'
    <3>1. opened => cmds' = Append(cmds, Message("QueueUpdate", 0, {made + 1}))
      BY <1>3 DEF Edit, Command, Delivery, Observed
    <3>2. QED
      BY <1>0, <3>1, QueuedMoves
  <2>2. Owed' = Owed
    BY <1>3 DEF Edit, Owed
  <2>3. opened /\ Shipped => Shipped'
    BY <1>3, <2>1, <2>2 DEF Edit, Shipped, InFlight, Message
  <2>4. Resubscribing => Resubscribing'
    BY <1>3 DEF Edit, Resubscribing
  <2>5. QED
    BY <1>1, <1>3, <2>3, <2>4 DEF Edit
<1>4. ASSUME UiSynced PROVE Shipping'
  <2>1. Head(events).edits \subseteq stored
    BY <1>0, <1>4, HeadTrue DEF UiSynced, Event, StoredEvents
  <2>2. Owed' = Owed
    BY <1>4 DEF UiSynced, Owed
  <2>3. needsPush => Shipped'
    <3>1. needsPush => note' \subseteq Queued'
      BY <1>0, <1>4, QueuedMoves DEF UiSynced, Command, Message
    <3>2. QED
      BY <3>1 DEF Shipped, InFlight
  <2>4. ~needsPush /\ Shipped => Shipped'
    <3>1. ~needsPush => cmds' = cmds
      BY <1>4 DEF UiSynced
    <3>2. QED
      BY <1>0, <1>4, <2>1, <2>2, <3>1, QueuedMoves, ShippedStays DEF UiSynced
  <2>5. QED
    BY <1>1, <1>4, <2>1, <2>3, <2>4 DEF UiSynced, Resubscribing
<1>5. ASSUME UiIdle PROVE Shipping'
  <2>1. Head(events).type = "DocIdle" /\ events # <<>>
    BY <1>5 DEF UiIdle, Event
  <2>2. ~Resubscribing /\ opened
    BY <1>0, <2>1, TailOrder, HeadHas DEF Resubscribing, Delivery, Unopened
  <2>3. Shipped => Shipped'
    BY <1>5 DEF UiIdle, Shipped, InFlight, Queued, Owed
  <2>4. QED
    BY <1>1, <1>5, <2>2, <2>3 DEF UiIdle
<1>6. ASSUME Reconcile PROVE Shipping'
  <2>1. ~Resubscribing /\ opened
    BY <1>6 DEF Reconcile, Resubscribing, Delivery, Unopened
  <2>2. Shipped => Shipped'
    BY <1>6 DEF Reconcile, Shipped, InFlight, Queued, Owed
  <2>3. QED
    BY <1>1, <1>6, <2>1, <2>2 DEF Reconcile
<1>7. ASSUME Save \/ UiJoined \/ \E request \in submitted : Submit(request) PROVE Shipping'
  <2>1. /\ UNCHANGED <<opened, abandoned, fails, note, needsPush, stored, pending, outbox,
                       engineIdle, connected, events, up, down>>
        /\ UNCHANGED cmds \/ \E m : cmds' = Append(cmds, m)
    BY <1>7 DEF Save, UiJoined, Submit, Command
  <2>2. Queued \subseteq Queued'
    BY <1>0, <2>1, QueuedMoves
  <2>3. QED
    BY <1>2, <2>1, <2>2 DEF Keeps
<1>8. ASSUME UiConnected \/ UiDisconnected \/ UiBusy PROVE Shipping'
  <2>1. /\ UNCHANGED <<opened, abandoned, fails, note, needsPush, stored, pending, outbox,
                       connected, cmds, up, down>>
        /\ engineIdle' => engineIdle
        /\ events # <<>> /\ Head(events).type # "DocSynced" /\ events' = Tail(events)
    BY <1>8 DEF UiConnected, UiDisconnected, UiBusy, Event
  <2>2. Keeps(events, events', "DocSynced", "DocIdle")
    BY <1>0, <2>1, KeepsMoves
  <2>3. QED
    BY <1>2, <2>1, <2>2 DEF Keeps, Queued
<1>9. ASSUME JoinSpace PROVE Shipping'
  <2>1. Head(cmds).edits = {}
    BY <1>0, <1>9, HeadTrue DEF JoinSpace, TakeCmd, HeldCmds
  <2>2. Queued \subseteq Queued'
    BY <1>0, <1>9, <2>1, QueuedMoves DEF JoinSpace, TakeCmd
  <2>3. UNCHANGED up \/ up' = Append(up, Plain("Join"))
    BY <1>0, <1>9 DEF JoinSpace, Send
  <2>4. Keeps(up, up', "Subscribe", "PushUpdate")
    BY <1>0, <2>3, KeepsMoves DEF Plain, Message
  <2>5. QED
    BY <1>2, <1>9, <2>2, <2>4 DEF JoinSpace, Keeps
<1>10. ASSUME OpenDocs PROVE Shipping'
  <2>1. Head(cmds).edits = {}
    BY <1>0, <1>10, HeadTrue DEF OpenDocs, TakeCmd, HeldCmds
  <2>2. Queued \subseteq Queued'
    BY <1>0, <1>10, <2>1, QueuedMoves DEF OpenDocs, TakeCmd
  <2>3. CASE ~joined \/ opened
    <3>1. UNCHANGED <<opened, up>>
      BY <1>10, <2>3 DEF OpenDocs, Sound, TypeOK, EngineType
    <3>2. QED
      BY <1>2, <1>10, <2>2, <3>1 DEF OpenDocs, Keeps
  \* The document opens: it is in the log, or flagged, and then it is subscribed to before
  \* anything is pushed or reported.
  <2>4. CASE joined /\ ~opened
    <3>1. note \subseteq stored => Shipped'
      BY <1>10 DEF OpenDocs, Shipped
    <3>2. connected => Has(up', "Subscribe")
      <4>1. connected => up' = Append(up, Plain("Subscribe"))
        BY <1>0, <1>10, <2>4 DEF OpenDocs, Send
      <4>2. Has(Append(up, Plain("Subscribe")), "Subscribe")
        BY <1>0, AppendOrder DEF Plain, Message
      <4>3. QED
        BY <4>1, <4>2
    <3>3. Precedes(up', "Subscribe", "PushUpdate")
      <4>1. Precedes(up, "Subscribe", "PushUpdate")
        BY <2>4 DEF Delivery, Unopened, Has, Precedes
      <4>2. up' = up \/ up' = Append(up, Plain("Subscribe"))
        BY <1>0, <1>10, <2>4 DEF OpenDocs, Send
      <4>3. Keeps(up, up', "Subscribe", "PushUpdate")
        BY <1>0, <4>2, KeepsMoves DEF Plain, Message
      <4>4. QED
        BY <4>1, <4>3 DEF Keeps
    <3>4. needsPush => Resubscribing'
      BY <1>10, <2>4, <3>2, <3>3 DEF OpenDocs, Resubscribing, Delivery, Unopened, Has, Precedes
    <3>5. QED
      BY <1>10, <2>4, <3>1, <3>4 DEF OpenDocs, Delivery, Shipping
  <2>5. QED
    BY <2>3, <2>4
<1>11. ASSUME QueueUpdate PROVE Shipping'
  <2>1. Queued \subseteq Queued' \cup Head(cmds).edits
    BY <1>0, <1>11, QueuedMoves DEF QueueUpdate, TakeCmd
  <2>2. opened => Owed' = Owed \cup Head(cmds).edits
    BY <1>11 DEF QueueUpdate, Owed
  <2>3. opened /\ Shipped => Shipped'
    BY <1>11, <2>1, <2>2, ShippedStays DEF QueueUpdate
  <2>4. UNCHANGED events \/ events' = Append(events, Message("DocBusy", 0, {}))
    BY <1>11 DEF QueueUpdate, Tell
  <2>5. Keeps(events, events', "DocSynced", "DocIdle")
    BY <1>0, <2>4, KeepsMoves DEF Message
  <2>6. Resubscribing => Resubscribing'
    BY <1>11, <2>5, ResubscribingStays DEF QueueUpdate, Keeps
  <2>7. QED
    BY <1>1, <1>11, <2>3, <2>6 DEF QueueUpdate
<1>12. ASSUME FlushDoc PROVE Shipping'
  <2> DEFINE push == Push([tag |-> nextTag, edits |-> UNION pending])
  <2>1. Shipped => Shipped'
    <3>1. Owed' = Owed /\ Queued' = Queued
      BY <1>12 DEF FlushDoc, Owed, Queued
    <3>2. QED
      BY <1>12, <3>1 DEF FlushDoc, Shipped, InFlight
  <2>2. up' = IF connected THEN Append(up, push) ELSE up
    <3>1. up \o <<push>> = Append(up, push)
      BY <1>0
    <3>2. QED
      BY <1>12, <3>1 DEF FlushDoc, Send
  <2>3. /\ Has(up, "Subscribe") => Has(up', "Subscribe")
        /\ Has(up, "Subscribe") /\ Precedes(up, "Subscribe", "PushUpdate")
              => Precedes(up', "Subscribe", "PushUpdate")
    BY <1>0, <2>2, AppendOrder
  <2>4. Resubscribing => Resubscribing'
    BY <1>12, <2>2, <2>3 DEF FlushDoc, Resubscribing
  <2>5. QED
    BY <1>1, <1>12, <2>1, <2>4 DEF FlushDoc
<1>13. ASSUME RetrySubscription PROVE Shipping'
  <2>1. UNCHANGED up \/ up' = Append(up, Plain("Subscribe"))
    BY <1>0, <1>13 DEF RetrySubscription, Send
  <2>2. Keeps(up, up', "Subscribe", "PushUpdate")
    BY <1>0, <2>1, KeepsMoves DEF Plain, Message
  <2>3. QED
    BY <1>2, <1>13, <2>2 DEF RetrySubscription, Keeps, Queued
<1>14. ASSUME RecvJoin \/ RecvInternal PROVE Shipping'
  <2>1. down # <<>> /\ Head(down).type # "SubscribedOk" /\ down' = Tail(down)
    BY <1>14 DEF RecvJoin, RecvInternal, Receive
  <2>2. Keeps(down, down', "SubscribedOk", "Ack")
    BY <1>0, <2>1, KeepsMoves
  <2>3. QED
    BY <1>2, <1>14, <2>2 DEF RecvJoin, RecvInternal, Keeps, Queued
<1>15. ASSUME RecvSubscribedOk PROVE Shipping'
  <2>1. /\ Has(events', "DocSynced")
        /\ Precedes(events, "DocSynced", "DocIdle")
              => Precedes(events', "DocSynced", "DocIdle")
    BY <1>0, <1>15, AppendOrder DEF RecvSubscribedOk, Tell, Message
  <2>2. Resubscribing => Resubscribing'
    BY <1>15, <2>1 DEF RecvSubscribedOk, Resubscribing
  <2>3. Shipped => Shipped'
    BY <1>15 DEF RecvSubscribedOk, Shipped, InFlight, Queued, Owed
  <2>4. QED
    BY <1>1, <1>15, <2>2, <2>3 DEF RecvSubscribedOk
<1>16. ASSUME RecvAck PROVE Shipping'
  <2>1. Head(down).tag \in tags
    BY <1>0, <1>16, HeadTrue DEF RecvAck, Receive, StoredReplies
  <2>2. Owed \subseteq Owed' \cup stored
    BY <1>16, <2>1 DEF RecvAck, Sound, Books, FramesTrue, Owed
  <2>3. Shipped => Shipped'
    BY <1>16, <2>2, ShippedStays DEF RecvAck, Queued
  <2>4. down # <<>> /\ Head(down).type = "Ack"
    BY <1>16 DEF RecvAck, Receive
  <2>5. Resubscribing => Has(events, "DocSynced")
    BY <1>0, <2>4, TailOrder DEF Resubscribing
  <2>6. UNCHANGED events \/ events' = Append(events, Message("DocIdle", 0, {}))
    BY <1>16 DEF RecvAck, Tell
  <2>7. Has(events, "DocSynced")
           => /\ Has(events', "DocSynced")
              /\ Precedes(events, "DocSynced", "DocIdle")
                    => Precedes(events', "DocSynced", "DocIdle")
    <3>1. \A m : /\ Has(events, "DocSynced") => Has(Append(events, m), "DocSynced")
                 /\ Precedes(events, "DocSynced", "DocIdle") /\ Has(events, "DocSynced")
                       => Precedes(Append(events, m), "DocSynced", "DocIdle")
      BY <1>0, AppendOrder
    <3>2. QED
      BY <2>6, <3>1
  <2>8. Resubscribing => Resubscribing'
    BY <1>16, <2>5, <2>7 DEF RecvAck, Resubscribing
  <2>9. QED
    BY <1>1, <1>16, <2>3, <2>8 DEF RecvAck
<1>17. ASSUME ServeJoin PROVE Shipping'
  <2>1. /\ up # <<>> /\ Head(up).type # "Subscribe" /\ up' = Tail(up)
        /\ down' = Append(down, Plain("Join"))
    BY <1>17 DEF ServeJoin, Serve
  <2>2. Keeps(up, up', "Subscribe", "PushUpdate") /\ Keeps(down, down', "SubscribedOk", "Ack")
    BY <1>0, <2>1, KeepsMoves DEF Plain, Message
  <2>3. QED
    BY <1>2, <1>17, <2>2 DEF ServeJoin, Serve, Keeps, Queued
<1>18. ASSUME ServeSubscribe PROVE Shipping'
  <2>1. /\ Has(down', "SubscribedOk")
        /\ Precedes(down, "SubscribedOk", "Ack") => Precedes(down', "SubscribedOk", "Ack")
    BY <1>0, <1>18, AppendOrder DEF ServeSubscribe, Serve, Message
  <2>2. Resubscribing => Resubscribing'
    BY <1>18, <2>1 DEF ServeSubscribe, Serve, Resubscribing
  <2>3. Shipped => Shipped'
    BY <1>18 DEF ServeSubscribe, Serve, Shipped, InFlight, Queued, Owed
  <2>4. QED
    BY <1>1, <1>18, <2>2, <2>3 DEF ServeSubscribe, Serve
<1>19. ASSUME ServePush PROVE Shipping'
  <2>1. stored \subseteq stored' /\ Owed' = Owed /\ Queued' = Queued
    BY <1>19 DEF ServePush, Serve, Owed, Queued
  <2>2. Shipped => Shipped'
    BY <1>19, <2>1, ShippedStays DEF ServePush, Serve
  <2>3. up # <<>> /\ Head(up).type = "PushUpdate"
    BY <1>19 DEF ServePush, Serve
  <2>4. ~Precedes(up, "Subscribe", "PushUpdate")
    BY <1>0, <2>3, TailOrder
  <2>5. Has(down, "SubscribedOk")
           => /\ Has(down', "SubscribedOk")
              /\ Precedes(down, "SubscribedOk", "Ack")
                    => Precedes(down', "SubscribedOk", "Ack")
    BY <1>0, <1>19, AppendOrder DEF ServePush, Serve
  <2>6. Resubscribing => Resubscribing'
    BY <1>19, <2>4, <2>5 DEF ServePush, Serve, Resubscribing
  <2>7. QED
    BY <1>1, <1>19, <2>1, <2>2, <2>6 DEF ServePush, Serve
<1>20. ASSUME Connect PROVE Shipping'
  <2>1. events' = Append(events, Message("Connected", 0, {}))
    BY <1>20 DEF Connect, Tell
  <2>2. Keeps(events, events', "DocSynced", "DocIdle")
    BY <1>0, <2>1, KeepsMoves DEF Message
  <2>3. opened /\ Resubscribing => Resubscribing'
    BY <1>20, <2>2, ConnectOrder DEF Connect, Resubscribing, Keeps
  <2>4. Shipped => Shipped'
    BY <1>20 DEF Connect, Shipped, InFlight, Queued, Owed
  <2>5. QED
    BY <1>1, <1>20, <2>3, <2>4 DEF Connect
<1>21. ASSUME Disconnect PROVE Shipping'
  <2>1. events' = Append(events, Message("Disconnected", 0, {}))
    BY <1>21 DEF Disconnect, Tell
  <2>2. Keeps(events, events', "DocSynced", "DocIdle")
    BY <1>0, <2>1, KeepsMoves DEF Message
  <2>3. Resubscribing => Resubscribing'
    BY <1>21, <2>2 DEF Disconnect, Resubscribing, Keeps, Precedes
  <2>4. Shipped => Shipped'
    BY <1>21 DEF Disconnect, Shipped, InFlight, Queued, Owed
  <2>5. QED
    BY <1>1, <1>21, <2>3, <2>4 DEF Disconnect
<1>22. ASSUME FailSubscribe PROVE Shipping'
  BY <1>22 DEF FailSubscribe, Shipping, Sound, TypeOK, BoundType
<1>23. ASSUME Reconnect \/ Crash PROVE Shipping'
  <2>1. ~opened' /\ stored' = stored
    BY <1>23 DEF Reconnect, Crash, ReplaceEngine
  <2>2. ~abandoned' => needsPush' \/ note' \subseteq stored
    <3>1. CASE Reconnect
      BY <3>1 DEF Reconnect, Sound, TypeOK, NoteType
    <3>2. CASE Crash
      BY <3>2 DEF Crash, Sound, TypeOK, NoteType
    <3>3. QED
      BY <1>23, <3>1, <3>2
  <2>3. QED
    BY <2>1, <2>2 DEF Shipping
<1>24. ASSUME UNCHANGED vars PROVE Shipping'
  BY <1>2, <1>24 DEF vars, Keeps, Queued
<1>25. QED
  BY <1>3, <1>4, <1>5, <1>6, <1>7, <1>8, <1>9, <1>10, <1>11, <1>12, <1>13, <1>14, <1>15, <1>16,
     <1>17, <1>18, <1>19, <1>20, <1>21, <1>22, <1>23, <1>24
     DEF Next, Bridge, HandleCmd, HandleWs, Relay

\* No edit is forgotten: it is in the log, on its way, or flagged, as long as no engine ended
\* with the flag cleared too early and no subscription was refused.
THEOREM NothingIsForgotten == Spec => []NothingForgotten
<1>1. Init => Sound /\ Delivery
  <2>1. Init => Unopened /\ Observed /\ Shipping
    BY DEF Init, Unopened, Observed, Shipping, Has
  <2>2. QED
    BY <2>1, BooksInit DEF Delivery
<1>2. Sound /\ Delivery /\ [Next]_vars => Sound' /\ Delivery'
  BY BooksStep, UnopenedStep, ObservedStep, ShippingStep DEF Delivery
<1>3. Delivery => NothingForgotten
  BY DEF Delivery, Shipping, Shipped, Resubscribing, NothingForgotten, Kept
<1>4. QED
  BY <1>1, <1>2, <1>3, PTL DEF Spec
=============================================================================
