-------------------------- MODULE DocReplicaProofs --------------------------
(***************************************************************************)
(* Proofs about DocReplica for every value of its constants: the types are *)
(* preserved, and, as long as the event channel has not overflowed, the    *)
(* frontier stands for content and no snapshot claims more than it holds.  *)
(*                                                                         *)
(* The second half is about the time after an overflow, too: a document    *)
(* with nothing in transit is complete, with events lost, replays, frames  *)
(* out of order, lost connections and restarts allowed.  Its invariant is  *)
(* about each stored frame and each replay on its way: what the replay     *)
(* does not bring is with the UI, parked, on its way, or asked for again   *)
(* (Settled).  When the last replay has been taken and nothing is left in  *)
(* transit, held or parked is all that remains.                            *)
(***************************************************************************)
EXTENDS DocReplica, SequenceTheorems, FiniteSetTheorems, WellFoundedInduction, TLAPS

-----------------------------------------------------------------------------
(* Types. *)

\* A message is of its channel's type when its three parts are.
LEMMA MessageType ==
    ASSUME NEW types, NEW type \in types, NEW covers \in 0..MaxSeq,
           NEW content \in SUBSET Seqs
    PROVE  Message(type, covers, content) \in Messages(types)
BY DEF Message, Messages

\* The two parts a message without a claim or without content has.
LEMMA NothingType == 0 \in 0..MaxSeq /\ {} \in SUBSET Seqs
BY BoundsAssumption

\* A message the engine sends.
LEMMA UpType ==
    ASSUME NEW type \in {"Subscribe", "PutSnapshot"} \cup Answers,
           NEW covers \in 0..MaxSeq, NEW content \in SUBSET Seqs
    PROVE  Message(type, covers, content) \in UpMessages
BY MessageType DEF UpMessages

\* A message the relay sends.
LEMMA DownType ==
    ASSUME NEW type \in {"Frames", "Snapshot", "NoSnapshot", "SubscribedOk", "Internal",
                         "RequestSnapshot", "EpochBump"} \cup Answers,
           NEW covers \in 0..MaxSeq, NEW content \in SUBSET Seqs
    PROVE  Message(type, covers, content) \in DownMessages
BY MessageType DEF DownMessages

\* An event the engine emits.
LEMMA EventType ==
    ASSUME NEW type \in {"DocBytes", "SnapshotNeeded"},
           NEW covers \in 0..MaxSeq, NEW content \in SUBSET Seqs
    PROVE  Message(type, covers, content) \in EventMessages
BY MessageType DEF EventMessages

\* A command the UI sends.
LEMMA CmdType ==
    ASSUME NEW type \in {"ProvideSnapshot", "Resync"},
           NEW covers \in 0..MaxSeq, NEW content \in SUBSET Seqs
    PROVE  Message(type, covers, content) \in CmdMessages
BY MessageType DEF CmdMessages

\* note_seq keeps the frontier and the numbers ahead of it in range, and counts only what
\* was counted before or is in S.
LEMMA NoteSeqsCounts ==
    ASSUME RecvType, NEW S \in SUBSET Seqs, NoteSeqs(S)
    PROVE  /\ haveSeq' \in 0..MaxSeq
           /\ ahead' \subseteq Seqs
           /\ \A s \in Seqs : Seen(s)' => Seen(s) \/ s \in S
<1> DEFINE fresh == {s \in S : s > haveSeq}
<1>1. MaxSeq \in Nat /\ haveSeq \in 0..MaxSeq /\ ahead \subseteq Seqs
  BY BoundsAssumption DEF RecvType
<1>2. CASE fresh = {}
  BY <1>1, <1>2 DEF NoteSeqs, Seen
<1>3. CASE fresh # {}
  <2>1. PICK n \in haveSeq..MaxSeq :
          /\ (haveSeq + 1)..n \subseteq ahead \cup fresh
          /\ haveSeq' = n
          /\ ahead' = {s \in ahead \cup fresh : s > n}
    BY <1>3 DEF NoteSeqs
  <2>2. haveSeq' \in 0..MaxSeq /\ ahead' \subseteq Seqs
    BY <1>1, <2>1
  <2>3. ASSUME NEW s \in Seqs, Seen(s)'
        PROVE  Seen(s) \/ s \in S
    <3>1. CASE s <= haveSeq
      BY <3>1 DEF Seen
    <3>2. CASE s > haveSeq /\ s <= n
      <4>1. s \in (haveSeq + 1)..n
        BY <1>1, <2>1, <3>2 DEF Seqs
      <4>2. QED
        BY <2>1, <4>1 DEF Seen
    <3>3. CASE s > n
      <4>1. s \in ahead'
        BY <1>1, <2>1, <2>3, <3>3 DEF Seen, Seqs
      <4>2. QED
        BY <2>1, <4>1 DEF Seen
    <3>4. QED
      BY <1>1, <2>1, <3>1, <3>2, <3>3 DEF Seqs
  <2>4. QED
    BY <2>2, <2>3
<1>4. QED
  BY <1>2, <1>3

\* incorporate keeps the types of what it writes.
LEMMA IncorporateType ==
    ASSUME RecvType, NEW S \in SUBSET Seqs, Incorporate(S)
    PROVE  /\ haveSeq' \in 0..MaxSeq
           /\ ahead' \subseteq Seqs
           /\ digests' \subseteq Seqs
           /\ unverifiable' \in BOOLEAN
<1>1. NoteSeqs(S)
  BY DEF Incorporate
<1>2. digests' \subseteq Seqs /\ unverifiable' \in BOOLEAN
  BY DEF Incorporate, FirstN, RecvType
<1>3. QED
  BY <1>1, <1>2, NoteSeqsCounts

\* defer_frame keeps the types of what it writes.
LEMMA DeferFramesType ==
    ASSUME RecvType, NEW S \in SUBSET Seqs, DeferFrames(S)
    PROVE  /\ deferred' \in [Seqs -> Nat]
           /\ lostFrames' \in BOOLEAN
           /\ resub' \in BOOLEAN
<1> DEFINE kept == FirstN(S, DeferCap - Parked)
<1> HIDE DEF kept
<1>1. QED
  BY DEF DeferFrames, RecvType, kept

\* The channel keeps its type whether or not it drops its oldest events.
LEMMA EmitType ==
    ASSUME ChanType, NEW evs \in Seq(EventMessages), Emit(evs)
    PROVE  /\ events' \in Seq(EventMessages)
           /\ lagged' \in BOOLEAN
           /\ everLagged' \in BOOLEAN
<1> DEFINE all == events \o evs
<1>1. all \in Seq(EventMessages)
  BY DEF ChanType
<1>2. CASE Len(all) <= EventCap
  BY <1>1, <1>2 DEF Emit, ChanType
<1>3. CASE ~(Len(all) <= EventCap)
  <2>1. EventCap \in Nat \ {0} /\ Len(all) \in Nat
    BY <1>1, CapsAssumption, LenProperties
  <2>2. \A i \in (Len(all) - EventCap + 1)..Len(all) : all[i] \in EventMessages
    BY <1>1, <1>3, <2>1, ElementOfSeq
  <2>3. SubSeq(all, Len(all) - EventCap + 1, Len(all)) \in Seq(EventMessages)
    <3> HIDE DEF all
    <3> QED BY <2>1, <2>2, SubSeqProperties
  <2>4. QED
    BY <1>3, <2>3 DEF Emit
<1>4. QED
  BY <1>2, <1>3

\* What the handlers hand to the channel is of the channel's type.
LEMMA BytesOfType ==
    ASSUME NEW S \in SUBSET Seqs
    PROVE  BytesOf(S) \in Seq(EventMessages)
<1>1. DocBytes(S) \in EventMessages
  BY NothingType, EventType, BoundsAssumption DEF DocBytes
<1>2. QED
  BY <1>1 DEF BytesOf

\* after_seq_advance keeps the types of what it writes.
LEMMA AfterSeqAdvanceType ==
    ASSUME ChanType, SnapType, NEW evs \in Seq(EventMessages), NEW req,
           haveSeq' \in 0..MaxSeq, AfterSeqAdvance(evs, req)
    PROVE  /\ asked' \in 0..MaxSeq
           /\ events' \in Seq(EventMessages)
           /\ lagged' \in BOOLEAN
           /\ everLagged' \in BOOLEAN
<1>1. asked' \in 0..MaxSeq
  BY DEF AfterSeqAdvance, SnapType
<1>2. SnapshotNeeded(haveSeq') \in EventMessages
  BY NothingType, EventType DEF SnapshotNeeded
<1>3. Append(evs, SnapshotNeeded(haveSeq')) \in Seq(EventMessages)
  BY <1>2
<1>4. Emit(evs) \/ Emit(Append(evs, SnapshotNeeded(haveSeq')))
  BY DEF AfterSeqAdvance
<1>5. QED
  BY <1>1, <1>3, <1>4, EmitType

\* A fetch is a client message.
LEMMA RequestType ==
    ASSUME KeysType, LinkType, NEW answers \in SUBSET Answers, Request(answers)
    PROVE  fetching' \subseteq Answers /\ uplink' \in Seq(UpMessages)
<1>1. \A answer \in Answers : Message(answer, 0, {}) \in UpMessages
  BY NothingType, UpType, BoundsAssumption
<1>2. "Envelopes" \in Answers /\ "Membership" \in Answers
  BY DEF Answers
<1>3. QED
  BY <1>1, <1>2 DEF Request, KeysType, LinkType

\* The relay's answer to a Subscribe is of the link's type.
LEMMA ReplayType ==
    ASSUME RelayType, NEW have \in 0..MaxSeq
    PROVE  Replay(have) \in Seq(DownMessages)
<1> DEFINE from == Larger(have, snap.covers)
           info == IF snap.covers > have
                   THEN Message("Snapshot", snap.covers, snap.content)
                   ELSE Message("NoSnapshot", snap.covers, {})
           log == Message("Frames", 0, (from + 1)..head)
           ok == Message("SubscribedOk", 0, {})
<1>1. MaxSeq \in Nat /\ snap.covers \in 0..MaxSeq /\ snap.content \in SUBSET Seqs
      /\ head \in 0..MaxSeq /\ from \in 0..MaxSeq
  BY BoundsAssumption DEF RelayType, Larger
<1>2. (from + 1)..head \in SUBSET Seqs
  BY <1>1 DEF Seqs
<1>3. info \in DownMessages
  <2>1. Message("Snapshot", snap.covers, snap.content) \in DownMessages
    BY <1>1, NothingType, DownType
  <2>2. Message("NoSnapshot", snap.covers, {}) \in DownMessages
    <3>1. snap.covers \in 0..MaxSeq /\ {} \in SUBSET Seqs
      BY <1>1
    <3>2. QED
      BY <3>1, NothingType, DownType
  <2>3. QED
    BY <2>1, <2>2
<1>4. log \in DownMessages /\ ok \in DownMessages
  <2>1. log \in DownMessages
    <3>1. 0 \in 0..MaxSeq
      BY <1>1
    <3>2. QED
      BY <1>2, <3>1, NothingType, DownType
  <2>2. ok \in DownMessages
    <3>1. 0 \in 0..MaxSeq /\ {} \in SUBSET Seqs
      BY <1>1
    <3>2. QED
      BY <3>1, NothingType, DownType
  <2>3. QED
    BY <2>1, <2>2
<1>5. Replay(have) = <<info, log, ok>>
  BY DEF Replay
<1>6. QED
  BY <1>3, <1>4, <1>5

\* The head of each channel, and what is left of it.
LEMMA HeadType ==
    ASSUME NEW M, NEW q \in Seq(M), q # <<>>
    PROVE  Head(q) \in M /\ Tail(q) \in Seq(M)
BY HeadTailProperties

LEMMA MessageParts ==
    ASSUME NEW types, NEW m \in Messages(types)
    PROVE  m.type \in types /\ m.covers \in 0..MaxSeq /\ m.content \in SUBSET Seqs
BY DEF Messages

\* A message the engine takes leaves the rest of the link, whose type is unchanged.
LEMMA ReceiveType ==
    ASSUME LinkType, NEW type, Receive(type)
    PROVE  /\ down' \in Seq(DownMessages)
           /\ Head(down).covers \in 0..MaxSeq
           /\ Head(down).content \in SUBSET Seqs
BY HeadType, MessageParts DEF LinkType, Receive, DownMessages

LEMMA RelayTakeType ==
    ASSUME LinkType, NEW type, RelayTake(type)
    PROVE  /\ uplink' \in Seq(UpMessages)
           /\ Head(uplink).covers \in 0..MaxSeq
           /\ Head(uplink).content \in SUBSET Seqs
BY HeadType, MessageParts DEF LinkType, RelayTake, UpMessages

LEMMA TakeCmdType ==
    ASSUME ChanType, NEW type, TakeCmd(type)
    PROVE  /\ cmds' \in Seq(CmdMessages)
           /\ Head(cmds).covers \in 0..MaxSeq
           /\ Head(cmds).content \in SUBSET Seqs
BY HeadType, MessageParts DEF ChanType, TakeCmd, CmdMessages

\* Every step of the relay, the engine, the UI or the environment keeps the types.
LEMMA TypeStep ==
    ASSUME TypeOK, [Next]_vars
    PROVE  TypeOK'
<1>1. ASSUME NEW gaps \in Hiding \cup {{}}, StoreOther(gaps)
      PROVE  TypeOK'
  <2>1. Message("EpochBump", 0, {}) \in DownMessages
    BY BoundsAssumption, NothingType, DownType
  <2>2. gaps \in SUBSET Gaps
    BY HidingAssumption DEF Gaps
  <2>3. down' \in Seq(DownMessages)
    <3>1. down' = down \/ down' = Append(down, Message("EpochBump", 0, {}))
      BY <1>1 DEF StoreOther
    <3>2. down \in Seq(DownMessages)
      BY DEF TypeOK, LinkType
    <3>3. QED
      BY <2>1, <3>1, <3>2
  <2>4. missing' \in [Seqs -> SUBSET Gaps]
    BY <1>1, <2>2 DEF StoreOther, TypeOK, KeysType
  <2>5. head' \in 0..MaxSeq /\ fanout' \subseteq Seqs
    BY <1>1, BoundsAssumption DEF StoreOther, Seqs, TypeOK, RelayType
  <2>6. QED
    BY <1>1, <2>3, <2>4, <2>5
    DEF StoreOther,
         TypeOK, RelayType, LinkType, KeysType, RecvType, SnapType, ChanType, UiType,
         relayVars, linkVars, keyVars, recvVars, snapVars, chanVars, histVars
<1>2. ASSUME StoreOwn
      PROVE  TypeOK'
  BY <1>2, BoundsAssumption
    DEF StoreOwn, Seqs,
         TypeOK, RelayType, LinkType, KeysType, RecvType, SnapType, ChanType, UiType,
         relayVars, linkVars, keyVars, recvVars, snapVars, chanVars, histVars
<1>3. ASSUME NEW s \in Seqs, FanOut(s)
      PROVE  TypeOK'
  <2>1. Message("Frames", 0, {s}) \in DownMessages
    BY BoundsAssumption, NothingType, DownType
  <2>2. QED
    BY <1>3, <2>1
    DEF FanOut,
         TypeOK, RelayType, LinkType, KeysType, RecvType, SnapType, ChanType, UiType,
         relayVars, linkVars, keyVars, recvVars, snapVars, chanVars, histVars
<1>4. ASSUME NEW covers \in Seqs, NEW hidden \in {FALSE, HiddenSnaps}, OtherSnapshot(covers, hidden)
      PROVE  TypeOK'
  <2>1. covers \in 0..MaxSeq /\ 1..covers \in SUBSET Seqs
    BY BoundsAssumption DEF Seqs
  <2>2. snap' \in [covers : 0..MaxSeq, content : SUBSET Seqs]
    BY <1>4, <2>1 DEF OtherSnapshot
  <2>3. opaqueSnap' \subseteq Seqs
    BY <1>4 DEF OtherSnapshot, TypeOK, KeysType
  <2>4. QED
    BY <1>4, <2>2, <2>3
    DEF OtherSnapshot,
         TypeOK, RelayType, LinkType, KeysType, RecvType, SnapType, ChanType, UiType,
         relayVars, linkVars, keyVars, recvVars, snapVars, chanVars, histVars
<1>5. ASSUME AskForSnapshot
      PROVE  TypeOK'
  <2>1. Message("RequestSnapshot", head, {}) \in DownMessages
    BY NothingType, DownType DEF TypeOK, RelayType
  <2>2. QED
    BY <1>5, <2>1
    DEF AskForSnapshot,
         TypeOK, RelayType, LinkType, KeysType, RecvType, SnapType, ChanType, UiType,
         relayVars, linkVars, keyVars, recvVars, snapVars, chanVars, histVars
<1>6. ASSUME ServeSubscribe
      PROVE  TypeOK'
  <2>1. uplink' \in Seq(UpMessages) /\ Head(uplink).covers \in 0..MaxSeq
    BY <1>6, RelayTakeType DEF ServeSubscribe, TypeOK
  <2>2. Replay(Head(uplink).covers) \in Seq(DownMessages)
    BY <2>1, ReplayType DEF TypeOK
  <2>3. down' \in Seq(DownMessages)
    BY <1>6, <2>2 DEF ServeSubscribe, TypeOK, LinkType
  <2>4. subscribed' \in BOOLEAN /\ subRefused' \in BOOLEAN
    BY <1>6 DEF ServeSubscribe
  <2>5. QED
    BY <1>6, <2>1, <2>3, <2>4
    DEF ServeSubscribe,
         TypeOK, RelayType, LinkType, KeysType, RecvType, SnapType, ChanType, UiType,
         relayVars, linkVars, keyVars, recvVars, snapVars, chanVars, histVars
<1>7. ASSUME FailSubscribe
      PROVE  TypeOK'
  <2>1. uplink' \in Seq(UpMessages)
    BY <1>7, RelayTakeType DEF FailSubscribe, TypeOK
  <2>2. Message("Internal", 0, {}) \in DownMessages
    BY BoundsAssumption, NothingType, DownType
  <2>3. QED
    BY <1>7, <2>1, <2>2, BoundsAssumption
    DEF FailSubscribe,
         TypeOK, RelayType, LinkType, KeysType, RecvType, SnapType, ChanType, UiType,
         relayVars, linkVars, keyVars, recvVars, snapVars, chanVars, histVars
<1>8. ASSUME ServeSnapshot
      PROVE  TypeOK'
  <2>1. /\ uplink' \in Seq(UpMessages)
        /\ Head(uplink).covers \in 0..MaxSeq
        /\ Head(uplink).content \in SUBSET Seqs
    BY <1>8, RelayTakeType DEF ServeSnapshot, TypeOK
  <2>2. QED
    BY <1>8, <2>1
    DEF ServeSnapshot,
         TypeOK, RelayType, LinkType, KeysType, RecvType, SnapType, ChanType, UiType,
         relayVars, linkVars, keyVars, recvVars, snapVars, chanVars, histVars
<1>9. ASSUME NEW answer \in Answers, ServeFetch(answer)
      PROVE  TypeOK'
  <2>1. uplink' \in Seq(UpMessages)
    BY <1>9, RelayTakeType DEF ServeFetch, TypeOK
  <2>2. 1..head \in SUBSET Seqs
    BY BoundsAssumption DEF TypeOK, RelayType, Seqs
  <2>3. Message(answer, 0, 1..head) \in DownMessages
    <3>1. 0 \in 0..MaxSeq
      BY BoundsAssumption
    <3>2. QED
      BY <1>9, <2>2, <3>1, NothingType, DownType
  <2>4. QED
    BY <1>9, <2>1, <2>3
    DEF ServeFetch,
         TypeOK, RelayType, LinkType, KeysType, RecvType, SnapType, ChanType, UiType,
         relayVars, linkVars, keyVars, recvVars, snapVars, chanVars, histVars
<1>10. ASSUME Connect
      PROVE  TypeOK'
  <2>1. Subscribe(haveSeq) \in UpMessages
    BY NothingType, UpType DEF Subscribe, TypeOK, RecvType
  <2>2. QED
    BY <1>10, <2>1
    DEF Connect,
         TypeOK, RelayType, LinkType, KeysType, RecvType, SnapType, ChanType, UiType,
         relayVars, linkVars, keyVars, recvVars, snapVars, chanVars, histVars
<1>11. ASSUME RetrySubscription
      PROVE  TypeOK'
  <2>1. Subscribe(haveSeq) \in UpMessages
    BY NothingType, UpType DEF Subscribe, TypeOK, RecvType
  <2>2. uplink' \in Seq(UpMessages)
    BY <1>11, <2>1 DEF RetrySubscription, TypeOK, LinkType
  <2>3. QED
    BY <1>11, <2>2
    DEF RetrySubscription,
         TypeOK, RelayType, LinkType, KeysType, RecvType, SnapType, ChanType, UiType,
         relayVars, linkVars, keyVars, recvVars, snapVars, chanVars, histVars
<1>12. ASSUME RecvFrames
      PROVE  TypeOK'
  <2> DEFINE new == {s \in Head(down).content : ~Seen(s)}
  <2>1. /\ down' \in Seq(DownMessages)
        /\ new \ Opaque \in SUBSET Seqs
        /\ new \cap Opaque \in SUBSET Seqs
    BY <1>12, ReceiveType DEF RecvFrames, TypeOK
  <2>2. /\ Incorporate(new \ Opaque)
        /\ DeferFrames(new \cap Opaque)
        /\ Request({AnswerFor(missing[s]) : s \in new \cap Opaque})
        /\ AfterSeqAdvance(BytesOf(new \ Opaque), requested)
    BY <1>12 DEF RecvFrames
  <2>3. {AnswerFor(missing[s]) : s \in new \cap Opaque} \in SUBSET Answers
    BY DEF AnswerFor, Answers
  <2> HIDE DEF new
  <2>4. /\ haveSeq' \in 0..MaxSeq
        /\ ahead' \subseteq Seqs
        /\ digests' \subseteq Seqs
        /\ unverifiable' \in BOOLEAN
    BY <2>1, <2>2, IncorporateType DEF TypeOK
  <2>5. /\ deferred' \in [Seqs -> Nat]
        /\ lostFrames' \in BOOLEAN
        /\ resub' \in BOOLEAN
    BY <2>1, <2>2, DeferFramesType DEF TypeOK
  <2>6. fetching' \subseteq Answers /\ uplink' \in Seq(UpMessages)
    BY <2>2, <2>3, RequestType DEF TypeOK
  <2>7. /\ asked' \in 0..MaxSeq
        /\ events' \in Seq(EventMessages)
        /\ lagged' \in BOOLEAN
        /\ everLagged' \in BOOLEAN
    BY <2>1, <2>2, <2>4, BytesOfType, AfterSeqAdvanceType DEF TypeOK
  <2>8. UNCHANGED <<relayVars, connected, drops, missing, opaqueSnap, live, snapCovers,
                   requested, unacked, cmds, replica, histVars>>
    BY <1>12 DEF RecvFrames
  <2>9. QED
    BY <2>1, <2>4, <2>5, <2>6, <2>7, <2>8
    DEF TypeOK, RelayType, LinkType, KeysType, RecvType, SnapType, ChanType, UiType,
         relayVars, linkVars, keyVars, recvVars, snapVars, chanVars, histVars
<1>13. ASSUME NEW s \in Seqs, RecvAck(s)
      PROVE  TypeOK'
  <2>1. haveSeq' \in 0..MaxSeq /\ ahead' \subseteq Seqs
    BY <1>13, NoteSeqsCounts DEF RecvAck, TypeOK
  <2>2. <<>> \in Seq(EventMessages)
    OBVIOUS
  <2>3. /\ asked' \in 0..MaxSeq
        /\ events' \in Seq(EventMessages)
        /\ lagged' \in BOOLEAN
        /\ everLagged' \in BOOLEAN
    BY <1>13, <2>1, <2>2, AfterSeqAdvanceType DEF RecvAck, TypeOK
  <2>4. QED
    BY <1>13, <2>1, <2>3
    DEF RecvAck,
         TypeOK, RelayType, LinkType, KeysType, RecvType, SnapType, ChanType, UiType,
         relayVars, linkVars, keyVars, recvVars, snapVars, chanVars, histVars
<1>14. ASSUME RecvRequestSnapshot
      PROVE  TypeOK'
  <2>1. down' \in Seq(DownMessages) /\ Head(down).covers \in 0..MaxSeq
    BY <1>14, ReceiveType DEF RecvRequestSnapshot, TypeOK
  <2>2. haveSeq' \in 0..MaxSeq
    BY <1>14 DEF RecvRequestSnapshot, recvVars, TypeOK, RecvType
  <2>3. <<>> \in Seq(EventMessages)
    OBVIOUS
  <2>4. /\ asked' \in 0..MaxSeq
        /\ events' \in Seq(EventMessages)
        /\ lagged' \in BOOLEAN
        /\ everLagged' \in BOOLEAN
    BY <1>14, <2>2, <2>3, AfterSeqAdvanceType DEF RecvRequestSnapshot, TypeOK
  <2>5. QED
    BY <1>14, <2>1, <2>4
    DEF RecvRequestSnapshot,
         TypeOK, RelayType, LinkType, KeysType, RecvType, SnapType, ChanType, UiType,
         relayVars, linkVars, keyVars, recvVars, snapVars, chanVars, histVars
<1>15. ASSUME RecvSnapshot
      PROVE  TypeOK'
  <2>1. /\ down' \in Seq(DownMessages)
        /\ Head(down).covers \in 0..MaxSeq
        /\ Head(down).content \in SUBSET Seqs
    BY <1>15, ReceiveType DEF RecvSnapshot, TypeOK
  <2>2. <<DocBytes(Head(down).content)>> \in Seq(EventMessages)
    <3>1. 0 \in 0..MaxSeq
      BY BoundsAssumption
    <3>2. DocBytes(Head(down).content) \in EventMessages
      BY <2>1, <3>1, NothingType, EventType DEF DocBytes
    <3>3. QED
      BY <3>2
  <2>3. /\ events' \in Seq(EventMessages)
        /\ lagged' \in BOOLEAN
        /\ everLagged' \in BOOLEAN
    BY <1>15, <2>2, EmitType DEF RecvSnapshot, TypeOK
  <2>4. QED
    BY <1>15, <2>1, <2>3
    DEF RecvSnapshot, Larger,
         TypeOK, RelayType, LinkType, KeysType, RecvType, SnapType, ChanType, UiType,
         relayVars, linkVars, keyVars, recvVars, snapVars, chanVars, histVars
<1>16. ASSUME RefuseSnapshot
      PROVE  TypeOK'
  <2>1. down' \in Seq(DownMessages)
    BY <1>16, ReceiveType DEF RefuseSnapshot, TypeOK
  <2>2. fetching' \subseteq Answers /\ uplink' \in Seq(UpMessages)
    BY <1>16, RequestType DEF RefuseSnapshot, Answers, TypeOK
  <2>3. QED
    BY <1>16, <2>1, <2>2
    DEF RefuseSnapshot,
         TypeOK, RelayType, LinkType, KeysType, RecvType, SnapType, ChanType, UiType,
         relayVars, linkVars, keyVars, recvVars, snapVars, chanVars, histVars
<1>17. ASSUME RecvNoSnapshot
      PROVE  TypeOK'
  <2>1. down' \in Seq(DownMessages) /\ Head(down).covers \in 0..MaxSeq
    BY <1>17, ReceiveType DEF RecvNoSnapshot, TypeOK
  <2>2. QED
    BY <1>17, <2>1
    DEF RecvNoSnapshot, Larger, Smaller,
         TypeOK, RelayType, LinkType, KeysType, RecvType, SnapType, ChanType, UiType,
         relayVars, linkVars, keyVars, recvVars, snapVars, chanVars, histVars
<1>18. ASSUME RecvSubscribedOk
      PROVE  TypeOK'
  <2>1. down' \in Seq(DownMessages)
    BY <1>18, ReceiveType DEF RecvSubscribedOk, TypeOK
  <2>2. QED
    BY <1>18, <2>1
    DEF RecvSubscribedOk,
         TypeOK, RelayType, LinkType, KeysType, RecvType, SnapType, ChanType, UiType,
         relayVars, linkVars, keyVars, recvVars, snapVars, chanVars, histVars
<1>19. ASSUME RecvInternal
      PROVE  TypeOK'
  <2>1. down' \in Seq(DownMessages)
    BY <1>19, ReceiveType DEF RecvInternal, TypeOK
  <2>2. QED
    BY <1>19, <2>1
    DEF RecvInternal,
         TypeOK, RelayType, LinkType, KeysType, RecvType, SnapType, ChanType, UiType,
         relayVars, linkVars, keyVars, recvVars, snapVars, chanVars, histVars
<1>20. ASSUME NEW answer \in Answers, RecvAnswer(answer)
      PROVE  TypeOK'
  <2> DEFINE opened == {s \in Seqs : IsParked(s) /\ missing'[s] = {}}
  <2>1. down' \in Seq(DownMessages)
    BY <1>20, ReceiveType DEF RecvAnswer, TypeOK
  <2>2. /\ Incorporate(opened)
        /\ deferred' = [s \in Seqs |-> IF s \in opened THEN 0 ELSE deferred[s]]
        /\ Emit(BytesOf(opened))
    BY <1>20 DEF RecvAnswer
  <2>3. opened \in SUBSET Seqs
    OBVIOUS
  <2> HIDE DEF opened
  <2>4. /\ haveSeq' \in 0..MaxSeq
        /\ ahead' \subseteq Seqs
        /\ digests' \subseteq Seqs
        /\ unverifiable' \in BOOLEAN
    BY <2>2, <2>3, IncorporateType DEF TypeOK
  <2>5. deferred' \in [Seqs -> Nat]
    BY <2>2 DEF TypeOK, RecvType
  <2>6. /\ events' \in Seq(EventMessages)
        /\ lagged' \in BOOLEAN
        /\ everLagged' \in BOOLEAN
    BY <2>2, <2>3, BytesOfType, EmitType DEF TypeOK
  <2>7. KeysType'
    BY <1>20 DEF RecvAnswer, TypeOK, KeysType
  <2>8. UNCHANGED <<relayVars, connected, uplink, drops, lostFrames, live, snapVars, resub,
                   unacked, cmds, replica, histVars>>
    BY <1>20 DEF RecvAnswer
  <2>9. QED
    BY <2>1, <2>4, <2>5, <2>6, <2>7, <2>8
    DEF TypeOK, RelayType, LinkType, KeysType, RecvType, SnapType, ChanType, UiType,
         relayVars, linkVars, keyVars, recvVars, snapVars, chanVars, histVars
<1>21. ASSUME RecvEpochBump
      PROVE  TypeOK'
  <2>1. down' \in Seq(DownMessages)
    BY <1>21, ReceiveType DEF RecvEpochBump, TypeOK
  <2>2. \A answer \in Answers : Message(answer, 0, {}) \in UpMessages
    BY NothingType, UpType, BoundsAssumption
  <2>3. <<Message("Envelopes", 0, {}), Message("Membership", 0, {})>> \in Seq(UpMessages)
    BY <2>2 DEF Answers
  <2>4. QED
    BY <1>21, <2>1, <2>3
    DEF RecvEpochBump, Answers,
         TypeOK, RelayType, LinkType, KeysType, RecvType, SnapType, ChanType, UiType,
         relayVars, linkVars, keyVars, recvVars, snapVars, chanVars, histVars
<1>22. ASSUME NEW sealable \in BOOLEAN, ProvideSnapshot(sealable)
      PROVE  TypeOK'
  <2>1. /\ cmds' \in Seq(CmdMessages)
        /\ Head(cmds).covers \in 0..MaxSeq
        /\ Head(cmds).content \in SUBSET Seqs
    BY <1>22, TakeCmdType DEF ProvideSnapshot, TypeOK
  <2>2. Message("PutSnapshot", Head(cmds).covers, Head(cmds).content) \in UpMessages
    BY <2>1, NothingType, UpType
  <2>3. QED
    BY <1>22, <2>1, <2>2, BoundsAssumption
    DEF ProvideSnapshot, Larger, NoSeq,
         TypeOK, RelayType, LinkType, KeysType, RecvType, SnapType, ChanType, UiType,
         relayVars, linkVars, keyVars, recvVars, snapVars, chanVars, histVars
<1>23. ASSUME Resync
      PROVE  TypeOK'
  <2>1. cmds' \in Seq(CmdMessages)
    BY <1>23, TakeCmdType DEF Resync, TypeOK
  <2>2. Subscribe(0) \in UpMessages
    BY BoundsAssumption, NothingType, UpType DEF Subscribe
  <2>3. QED
    BY <1>23, <2>1, <2>2, BoundsAssumption
    DEF Resync,
         TypeOK, RelayType, LinkType, KeysType, RecvType, SnapType, ChanType, UiType,
         relayVars, linkVars, keyVars, recvVars, snapVars, chanVars, histVars
<1>24. ASSUME UiBytes
      PROVE  TypeOK'
  <2>1. events' \in Seq(EventMessages) /\ Head(events).content \in SUBSET Seqs
    BY <1>24, HeadType, MessageParts DEF UiBytes, TypeOK, ChanType, EventMessages
  <2>2. QED
    BY <1>24, <2>1
    DEF UiBytes,
         TypeOK, RelayType, LinkType, KeysType, RecvType, SnapType, ChanType, UiType,
         relayVars, linkVars, keyVars, recvVars, snapVars, chanVars, histVars
<1>25. ASSUME UiSnapshotNeeded
      PROVE  TypeOK'
  <2>1. events' \in Seq(EventMessages) /\ Head(events).covers \in 0..MaxSeq
    BY <1>25, HeadType, MessageParts DEF UiSnapshotNeeded, TypeOK, ChanType, EventMessages
  <2>2. Message("ProvideSnapshot", Head(events).covers, replica) \in CmdMessages
    BY <2>1, NothingType, CmdType DEF TypeOK, UiType
  <2>3. cmds' \in Seq(CmdMessages)
    BY <1>25, <2>2 DEF UiSnapshotNeeded, TypeOK, ChanType
  <2>4. QED
    BY <1>25, <2>1, <2>3
    DEF UiSnapshotNeeded,
         TypeOK, RelayType, LinkType, KeysType, RecvType, SnapType, ChanType, UiType,
         relayVars, linkVars, keyVars, recvVars, snapVars, chanVars, histVars
<1>26. ASSUME UiLagged
      PROVE  TypeOK'
  <2>1. Message("Resync", 0, {}) \in CmdMessages
    BY BoundsAssumption, NothingType, CmdType
  <2>2. cmds' \in Seq(CmdMessages)
    BY <1>26, <2>1 DEF UiLagged, TypeOK, ChanType
  <2>3. QED
    BY <1>26, <2>2
    DEF UiLagged,
         TypeOK, RelayType, LinkType, KeysType, RecvType, SnapType, ChanType, UiType,
         relayVars, linkVars, keyVars, recvVars, snapVars, chanVars, histVars
<1>27. ASSUME Disconnect
      PROVE  TypeOK'
  <2>1. uplink' \in Seq(UpMessages) /\ down' \in Seq(DownMessages)
    BY <1>27 DEF Disconnect
  <2>2. drops' \in Nat
    BY <1>27 DEF Disconnect, TypeOK, LinkType
  <2>3. QED
    BY <1>27, <2>1, <2>2
    DEF Disconnect,
         TypeOK, RelayType, LinkType, KeysType, RecvType, SnapType, ChanType, UiType,
         relayVars, linkVars, keyVars, recvVars, snapVars, chanVars, histVars
<1>28. ASSUME Restart
      PROVE  TypeOK'
  <2>1. Subscribe(0) \in UpMessages
    BY BoundsAssumption, NothingType, UpType DEF Subscribe
  <2>2. uplink' \in Seq(UpMessages) /\ down' \in Seq(DownMessages)
    BY <1>28, <2>1 DEF Restart
  <2>3. events' \in Seq(EventMessages) /\ cmds' \in Seq(CmdMessages)
    BY <1>28 DEF Restart
  <2>4. RecvType'
    <3>1. deferred' \in [Seqs -> Nat]
      BY <1>28 DEF Restart
    <3>2. haveSeq' \in 0..MaxSeq
      BY <1>28, BoundsAssumption DEF Restart
    <3>3. QED
      BY <1>28, <3>1, <3>2 DEF Restart, RecvType
  <2>5. SnapType' /\ KeysType' /\ drops' \in Nat
    BY <1>28, BoundsAssumption DEF Restart, NoSeq, SnapType, KeysType, TypeOK, LinkType
  <2>6. replica' \subseteq Seqs
    BY <1>28 DEF Restart, TypeOK, UiType
  <2>7. QED
    BY <1>28, <2>2, <2>3, <2>4, <2>5, <2>6
    DEF Restart,
         TypeOK, RelayType, LinkType, KeysType, RecvType, SnapType, ChanType, UiType,
         relayVars, linkVars, keyVars, recvVars, snapVars, chanVars, histVars
<1>29. ASSUME UNCHANGED vars
      PROVE  TypeOK'
  BY <1>29
    DEF vars,
         TypeOK, RelayType, LinkType, KeysType, RecvType, SnapType, ChanType, UiType,
         relayVars, linkVars, keyVars, recvVars, snapVars, chanVars, histVars
<1>30. QED
  BY <1>1, <1>2, <1>3, <1>4, <1>5, <1>6, <1>7, <1>8, <1>9, <1>10, <1>11, <1>12, <1>13, <1>14, <1>15, <1>16, <1>17, <1>18, <1>19, <1>20, <1>21, <1>22, <1>23, <1>24, <1>25, <1>26, <1>27, <1>28, <1>29
  DEF Next, Relay, Recv, HandleCmd, Ui

\* Type correctness: every variable keeps its type, whatever the caps and the bounds.
THEOREM TypeCorrect == Spec => []TypeOK
<1>1. Init => TypeOK
  <2>1. Subscribe(0) \in UpMessages
    BY BoundsAssumption, NothingType, UpType DEF Subscribe
  <2>2. Init => LinkType
    BY <2>1 DEF Init, LinkType
  <2>3. Init => RelayType
    <3>1. 0 \in 0..MaxSeq
      BY BoundsAssumption
    <3>2. [covers |-> 0, content |-> {}] \in [covers : 0..MaxSeq, content : SUBSET Seqs]
      BY <3>1
    <3>3. QED
      BY <3>1, <3>2 DEF Init, RelayType
  <2>4. Init => RecvType
    <3>1. [s \in Seqs |-> 0] \in [Seqs -> Nat]
      OBVIOUS
    <3>2. 0 \in 0..MaxSeq
      BY BoundsAssumption
    <3>3. QED
      BY <3>1, <3>2 DEF Init, RecvType
  <2>5. Init => KeysType /\ SnapType
    BY BoundsAssumption DEF Init, NoSeq, KeysType, SnapType
  <2>6. Init => ChanType /\ UiType
    <3>1. <<>> \in Seq(EventMessages) /\ <<>> \in Seq(CmdMessages)
      BY EmptySeq
    <3>2. QED
      BY <3>1 DEF Init, ChanType, UiType
  <2>7. QED
    BY <2>2, <2>3, <2>4, <2>5, <2>6 DEF TypeOK
<1>2. TypeOK /\ [Next]_vars => TypeOK'
  BY TypeStep
<1>3. QED
  BY <1>1, <1>2, PTL DEF Spec

-----------------------------------------------------------------------------
(* Queues: what is appended and what is taken off. *)

\* Every message of Append(q, m) is one of q at the same place, or m at the end.
LEMMA AppendPlaces ==
    ASSUME NEW M, NEW q \in Seq(M), NEW m \in M
    PROVE  /\ Append(q, m) \in Seq(M)
           /\ DOMAIN q = 1..Len(q)
           /\ Len(q) \in Nat
           /\ DOMAIN Append(q, m) = 1..(Len(q) + 1)
           /\ \A i \in 1..Len(q) : Append(q, m)[i] = q[i]
           /\ Append(q, m)[Len(q) + 1] = m
OBVIOUS

LEMMA TailPlaces ==
    ASSUME NEW M, NEW q \in Seq(M), q # <<>>
    PROVE  /\ Tail(q) \in Seq(M)
           /\ DOMAIN q = 1..Len(q)
           /\ Len(q) \in Nat \ {0}
           /\ DOMAIN Tail(q) = 1..(Len(q) - 1)
           /\ \A i \in 1..(Len(q) - 1) : Tail(q)[i] = q[i + 1]
           /\ Head(q) = q[1]
OBVIOUS

\* A queue of complete messages stays so when a complete one is appended.
LEMMA CompleteAppend ==
    ASSUME NEW M, NEW q \in Seq(M), NEW m \in M, NEW type,
           Complete(q, type),
           m.type = type => 1..m.covers \subseteq m.content
    PROVE  Complete(Append(q, m), type)
BY AppendPlaces DEF Complete

LEMMA CompleteTail ==
    ASSUME NEW M, NEW q \in Seq(M), q # <<>>, NEW type, Complete(q, type)
    PROVE  /\ Complete(Tail(q), type)
           /\ Head(q).type = type => 1..Head(q).covers \subseteq Head(q).content
<1>1. Complete(Tail(q), type)
  BY TailPlaces DEF Complete
<1>2. 1 \in DOMAIN q /\ Head(q) = q[1]
  BY TailPlaces
<1>3. QED
  BY <1>1, <1>2 DEF Complete

LEMMA CompleteConcat ==
    ASSUME NEW M, NEW q \in Seq(M), NEW r \in Seq(M), NEW type,
           Complete(q, type), Complete(r, type)
    PROVE  Complete(q \o r, type)
BY DEF Complete

LEMMA CompleteEmpty ==
    ASSUME NEW type
    PROVE  Complete(<<>>, type)
BY DEF Complete

\* What an appended event adds to what has been sent.
LEMMA SentAppend ==
    ASSUME NEW q \in Seq(EventMessages), NEW m \in EventMessages
    PROVE  Sent(Append(q, m)) = Sent(q) \cup Bytes(m)
<1>1. Bytes(m) \subseteq Seqs
  BY MessageParts DEF EventMessages, Bytes
<1>2. QED
  BY <1>1, AppendPlaces DEF Sent

LEMMA SentTail ==
    ASSUME NEW q \in Seq(EventMessages), q # <<>>
    PROVE  Sent(q) \subseteq Sent(Tail(q)) \cup Bytes(Head(q))
<1> SUFFICES ASSUME NEW s \in Sent(q)
             PROVE  s \in Sent(Tail(q)) \/ s \in Bytes(Head(q))
  OBVIOUS
<1>1. PICK i \in DOMAIN q : s \in Bytes(q[i])
  BY DEF Sent
<1>2. CASE i = 1
  BY <1>1, <1>2, TailPlaces
<1>3. CASE i # 1
  <2>1. i - 1 \in DOMAIN Tail(q) /\ Tail(q)[i - 1] = q[i]
    BY <1>3, TailPlaces
  <2>2. QED
    BY <1>1, <2>1 DEF Sent
<1>4. QED
  BY <1>2, <1>3

\* An event appended to the channel leaves the requests in it backed; a request for a
\* snapshot is backed when all it covers is held or was sent.
LEMMA AsksAppend ==
    ASSUME NEW q \in Seq(EventMessages), NEW m \in EventMessages, NEW held,
           AsksBacked(q, held),
           m.type = "SnapshotNeeded" => 1..m.covers \subseteq held \cup Sent(q)
    PROVE  AsksBacked(Append(q, m), held)
<1> SUFFICES ASSUME NEW i \in DOMAIN Append(q, m), Append(q, m)[i].type = "SnapshotNeeded",
                    NEW s \in 1..Append(q, m)[i].covers
             PROVE  s \in held \cup SentBefore(Append(q, m), i)
  BY DEF AsksBacked
<1>1. CASE i <= Len(q)
  <2>1. i \in DOMAIN q /\ q[i] = Append(q, m)[i]
    BY <1>1, AppendPlaces
  <2>2. s \in held \cup SentBefore(q, i)
    BY <2>1 DEF AsksBacked
  <2>3. SentBefore(q, i) \subseteq SentBefore(Append(q, m), i)
    BY AppendPlaces DEF SentBefore
  <2>4. QED
    BY <2>2, <2>3
<1>2. CASE ~(i <= Len(q))
  <2>1. i = Len(q) + 1 /\ Append(q, m)[i] = m
    BY <1>2, AppendPlaces
  <2>2. s \in held \cup Sent(q)
    BY <2>1
  <2>3. Sent(q) \subseteq SentBefore(Append(q, m), i)
    BY <2>1, AppendPlaces DEF Sent, SentBefore
  <2>4. QED
    BY <2>2, <2>3
<1>3. QED
  BY <1>1, <1>2

\* When the UI takes an event and holds its content, the requests behind it stay backed,
\* and a request that is the event taken is backed by what the UI holds already.
LEMMA AsksTail ==
    ASSUME NEW q \in Seq(EventMessages), q # <<>>, NEW held, AsksBacked(q, held)
    PROVE  /\ AsksBacked(Tail(q), held \cup Bytes(Head(q)))
           /\ Head(q).type = "SnapshotNeeded" => 1..Head(q).covers \subseteq held
<1>1. ASSUME NEW i \in DOMAIN Tail(q), Tail(q)[i].type = "SnapshotNeeded",
             NEW s \in 1..Tail(q)[i].covers
      PROVE  s \in (held \cup Bytes(Head(q))) \cup SentBefore(Tail(q), i)
  <2>1. i + 1 \in DOMAIN q /\ q[i + 1] = Tail(q)[i] /\ i \in Nat
    BY TailPlaces
  <2>2. s \in held \cup SentBefore(q, i + 1)
    BY <1>1, <2>1 DEF AsksBacked
  <2>3. CASE s \in held
    BY <2>3
  <2>4. CASE s \in SentBefore(q, i + 1)
    <3>1. PICK j \in DOMAIN q : j < i + 1 /\ s \in Bytes(q[j])
      BY <2>4 DEF SentBefore
    <3>2. CASE j = 1
      BY <3>1, <3>2, TailPlaces
    <3>3. CASE j # 1
      <4>1. j - 1 \in DOMAIN Tail(q) /\ j - 1 < i /\ Tail(q)[j - 1] = q[j]
        BY <2>1, <3>1, <3>3, TailPlaces
      <4>2. s \in Seqs
        BY <2>4 DEF SentBefore
      <4>3. QED
        BY <3>1, <4>1, <4>2 DEF SentBefore
    <3>4. QED
      BY <3>2, <3>3
  <2>5. QED
    BY <2>2, <2>3, <2>4
<1>2. ASSUME Head(q).type = "SnapshotNeeded"
      PROVE  1..Head(q).covers \subseteq held
  <2>1. 1 \in DOMAIN q /\ Head(q) = q[1]
    BY TailPlaces
  <2>2. SentBefore(q, 1) = {}
    BY TailPlaces DEF SentBefore
  <2>3. QED
    BY <1>2, <2>1, <2>2 DEF AsksBacked
<1>3. QED
  BY <1>1, <1>2 DEF AsksBacked

\* A replica that grows keeps the requests backed.
LEMMA AsksGrow ==
    ASSUME NEW q, NEW held, NEW more, AsksBacked(q, held), held \subseteq more
    PROVE  AsksBacked(q, more)
BY DEF AsksBacked

-----------------------------------------------------------------------------
(* The handlers' helpers, as long as the channel has not overflowed. *)

\* A channel that does not overflow takes the events at its end.
LEMMA EmitAppends ==
    ASSUME ChanType, NEW evs, Emit(evs), ~everLagged'
    PROVE  events' = events \o evs /\ ~everLagged
BY DEF Emit

\* A batch of bytes in the channel: what was backed stays so, and its content is sent.
LEMMA BytesSent ==
    ASSUME NEW q \in Seq(EventMessages), NEW S \in SUBSET Seqs, NEW held,
           AsksBacked(q, held)
    PROVE  /\ q \o BytesOf(S) \in Seq(EventMessages)
           /\ AsksBacked(q \o BytesOf(S), held)
           /\ Sent(q \o BytesOf(S)) = Sent(q) \cup S
<1>1. CASE S = {}
  <2>1. q \o BytesOf(S) = q
    BY <1>1, ConcatEmptySeq DEF BytesOf
  <2>2. QED
    BY <1>1, <2>1
<1>2. CASE S # {}
  <2>1. DocBytes(S) \in EventMessages /\ Bytes(DocBytes(S)) = S
        /\ DocBytes(S).type # "SnapshotNeeded"
    <3>1. 0 \in 0..MaxSeq
      BY BoundsAssumption
    <3>2. DocBytes(S) \in EventMessages
      BY <3>1, NothingType, EventType DEF DocBytes
    <3>3. QED
      BY <3>2 DEF DocBytes, Message, Bytes
  <2>2. q \o BytesOf(S) = Append(q, DocBytes(S))
    BY <1>2, <2>1 DEF BytesOf
  <2>3. Append(q, DocBytes(S)) \in Seq(EventMessages)
    BY <2>1, AppendPlaces
  <2>4. QED
    BY <2>1, <2>2, <2>3, AsksAppend, SentAppend
<1>3. QED
  BY <1>1, <1>2

\* after_seq_advance asks only for a snapshot of what is held or sent by then.
LEMMA AfterSeqAdvanceBacks ==
    ASSUME ChanType, NEW S \in SUBSET Seqs, NEW req, haveSeq' \in 0..MaxSeq,
           AfterSeqAdvance(BytesOf(S), req), ~everLagged',
           AsksBacked(events, replica),
           1..haveSeq' \subseteq replica \cup Sent(events) \cup S
    PROVE  AsksBacked(events', replica) /\ Sent(events) \cup S \subseteq Sent(events')
<1> DEFINE sent == events \o BytesOf(S)
           ask == SnapshotNeeded(haveSeq')
<1>1. events \in Seq(EventMessages) /\ BytesOf(S) \in Seq(EventMessages)
  BY BytesOfType DEF ChanType
<1>2. sent \in Seq(EventMessages) /\ AsksBacked(sent, replica) /\ Sent(sent) = Sent(events) \cup S
  BY <1>1, BytesSent
<1>3. ask \in EventMessages /\ ask.covers = haveSeq' /\ Bytes(ask) = {}
  <2>1. ask \in EventMessages
    BY NothingType, EventType DEF SnapshotNeeded
  <2>2. QED
    BY <2>1 DEF SnapshotNeeded, Message, Bytes
<1>4. events' = sent \/ events' = Append(sent, ask)
  <2>1. Emit(BytesOf(S)) \/ Emit(Append(BytesOf(S), ask))
    BY DEF AfterSeqAdvance
  <2>2. CASE Emit(BytesOf(S))
    BY <2>2, EmitAppends
  <2>3. CASE Emit(Append(BytesOf(S), ask))
    <3>1. events' = events \o Append(BytesOf(S), ask)
      BY <2>3, EmitAppends
    <3>2. events \o Append(BytesOf(S), ask) = Append(sent, ask)
      BY <1>1, <1>3
    <3>3. QED
      BY <3>1, <3>2
  <2>4. QED
    BY <2>1, <2>2, <2>3
<1> HIDE DEF sent, ask
<1>5. CASE events' = sent
  BY <1>2, <1>5
<1>6. CASE events' = Append(sent, ask)
  <2>1. AsksBacked(Append(sent, ask), replica)
    BY <1>2, <1>3, AsksAppend
  <2>2. Sent(Append(sent, ask)) = Sent(sent) \cup {}
    BY <1>2, <1>3, SentAppend
  <2>3. QED
    BY <1>2, <1>6, <2>1, <2>2
<1>7. QED
  BY <1>4, <1>5, <1>6

\* Frames that are noted and handed on keep the frontier backed.
LEMMA NotedIsBacked ==
    ASSUME RecvType, Backed, NEW S \in SUBSET Seqs, NoteSeqs(S)
    PROVE  /\ \A s \in Seqs : Seen(s)' => s \in replica \cup Sent(events) \cup S
           /\ 1..haveSeq' \subseteq replica \cup Sent(events) \cup S
<1>1. \A s \in Seqs : Seen(s)' => s \in replica \cup Sent(events) \cup S
  BY NoteSeqsCounts DEF Backed
<1>2. haveSeq' \in 0..MaxSeq
  BY NoteSeqsCounts
<1>3. ASSUME NEW s \in 1..haveSeq'
      PROVE  s \in replica \cup Sent(events) \cup S
  <2>1. s \in Seqs /\ s <= haveSeq'
    BY <1>2, <1>3, BoundsAssumption DEF Seqs
  <2>2. Seen(s)'
    BY <2>1 DEF Seen
  <2>3. QED
    BY <1>1, <2>1, <2>2
<1>4. QED
  BY <1>1, <1>3

\* A queue followed by one message or by none.
LEMMA ConcatOption ==
    ASSUME NEW M, NEW q \in Seq(M), NEW m \in M, NEW e, e = <<>> \/ e = <<m>>
    PROVE  q \o e \in Seq(M) /\ (q \o e = q \/ q \o e = Append(q, m))
<1>1. CASE e = <<>>
  <2>1. q \o <<>> = q
    BY ConcatEmptySeq
  <2>2. QED
    BY <1>1, <2>1
<1>2. CASE e = <<m>>
  <2>1. q \o <<m>> = Append(q, m)
    OBVIOUS
  <2>2. QED
    BY <1>2, <2>1
<1>3. QED
  BY <1>1, <1>2

\* Fetches are not snapshots.
LEMMA RequestComplete ==
    ASSUME LinkType, NEW answers, Request(answers), Complete(uplink, "PutSnapshot")
    PROVE  Complete(uplink', "PutSnapshot")
<1> DEFINE env == Message("Envelopes", 0, {})
           mem == Message("Membership", 0, {})
<1>1. env \in UpMessages /\ mem \in UpMessages
  BY NothingType, UpType, BoundsAssumption DEF Answers
<1>2. env.type # "PutSnapshot" /\ mem.type # "PutSnapshot"
  BY DEF Message
<1>3. \/ uplink' = uplink
      \/ uplink' = Append(uplink, env)
      \/ uplink' = Append(uplink, mem)
      \/ uplink' = Append(Append(uplink, env), mem)
  <2> DEFINE e == IF "Envelopes" \in answers \ fetching THEN <<env>> ELSE <<>>
             m == IF "Membership" \in answers \ fetching THEN <<mem>> ELSE <<>>
  <2>1. uplink' = (uplink \o e) \o m
    BY DEF Request
  <2>2. uplink \in Seq(UpMessages)
    BY DEF LinkType
  <2> HIDE DEF env, mem
  <2>3. (e = <<>> \/ e = <<env>>) /\ (m = <<>> \/ m = <<mem>>)
    OBVIOUS
  <2> HIDE DEF e, m
  <2>4. /\ uplink \o e = uplink \/ uplink \o e = Append(uplink, env)
        /\ uplink \o e \in Seq(UpMessages)
    BY <1>1, <2>2, <2>3, ConcatOption
  <2>5. (uplink \o e) \o m = uplink \o e \/ (uplink \o e) \o m = Append(uplink \o e, mem)
    BY <1>1, <2>3, <2>4, ConcatOption
  <2>6. QED
    BY <2>1, <2>4, <2>5
<1> HIDE DEF env, mem
<1>4. uplink \in Seq(UpMessages)
  BY DEF LinkType
<1>5. Append(uplink, env) \in Seq(UpMessages) /\ Complete(Append(uplink, env), "PutSnapshot")
  BY <1>1, <1>2, <1>4, AppendPlaces, CompleteAppend
<1>6. Complete(Append(uplink, mem), "PutSnapshot")
  BY <1>1, <1>2, <1>4, CompleteAppend
<1>7. Complete(Append(Append(uplink, env), mem), "PutSnapshot")
  BY <1>1, <1>2, <1>5, CompleteAppend
<1>8. QED
  BY <1>3, <1>5, <1>6, <1>7

-----------------------------------------------------------------------------
(* The chain from the frontier to the stored snapshot. *)

\* An overflow is never forgotten.
LEMMA LaggedStays ==
    ASSUME TypeOK, [Next]_vars, ~everLagged'
    PROVE  ~everLagged
<1>1. \A evs : Emit(evs) => (everLagged => everLagged')
  BY DEF Emit
<1>2. \A evs, req : AfterSeqAdvance(evs, req) => (everLagged => everLagged')
  BY <1>1 DEF AfterSeqAdvance
<1>3. CASE RecvFrames \/ RecvRequestSnapshot \/ \E s \in Seqs : RecvAck(s)
  BY <1>2, <1>3 DEF RecvFrames, RecvRequestSnapshot, RecvAck
<1>4. CASE RecvSnapshot \/ \E answer \in Answers : RecvAnswer(answer)
  BY <1>1, <1>4 DEF RecvSnapshot, RecvAnswer
<1>5. CASE Relay
  BY <1>5 DEF Relay, StoreOther, StoreOwn, FanOut, OtherSnapshot, AskForSnapshot,
      ServeSubscribe, FailSubscribe, ServeSnapshot, ServeFetch, chanVars
<1>6. CASE Connect \/ RetrySubscription \/ Disconnect \/ Restart \/ HandleCmd \/ Ui
  BY <1>6 DEF Connect, RetrySubscription, Disconnect, Restart, HandleCmd, Ui,
      ProvideSnapshot, Resync, UiBytes, UiSnapshotNeeded, UiLagged, chanVars
<1>7. CASE RefuseSnapshot \/ RecvNoSnapshot \/ RecvSubscribedOk \/ RecvInternal \/ RecvEpochBump
  BY <1>7 DEF RefuseSnapshot, RecvNoSnapshot, RecvSubscribedOk, RecvInternal, RecvEpochBump,
      chanVars
<1>8. CASE UNCHANGED vars
  BY <1>8 DEF vars, chanVars
<1>9. QED
  BY <1>3, <1>4, <1>5, <1>6, <1>7, <1>8 DEF Next, Recv

\* A message that is no snapshot leaves the relay's answers complete.
LEMMA DownAppend ==
    ASSUME LinkType, Complete(down, "Snapshot"), NEW type, NEW covers, NEW content,
           Message(type, covers, content) \in DownMessages,
           type # "Snapshot"
    PROVE  Complete(Append(down, Message(type, covers, content)), "Snapshot")
<1>1. Message(type, covers, content).type # "Snapshot"
  BY DEF Message
<1>2. QED
  BY <1>1, CompleteAppend DEF LinkType

LEMMA UpAppend ==
    ASSUME LinkType, Complete(uplink, "PutSnapshot"), NEW have \in 0..MaxSeq
    PROVE  Complete(Append(uplink, Subscribe(have)), "PutSnapshot")
<1>1. Subscribe(have) \in UpMessages
  BY NothingType, UpType DEF Subscribe
<1>2. Subscribe(have).type # "PutSnapshot"
  BY DEF Subscribe, Message
<1>3. QED
  BY <1>1, <1>2, CompleteAppend DEF LinkType

\* What a step does not touch keeps its part of the chain.
LEMMA FrontierKept ==
    ASSUME Backed, UNCHANGED <<haveSeq, ahead>>, replica \subseteq replica',
           Sent(events) \subseteq replica' \cup Sent(events')
    PROVE  Backed'
BY DEF Backed, Seen

LEMMA QueuesKept ==
    ASSUME CoverageChain
    PROVE  /\ UNCHANGED <<haveSeq, ahead, replica, events>> => Backed'
           /\ UNCHANGED <<replica, events>> => AsksBacked(events, replica)'
           /\ UNCHANGED cmds => Complete(cmds, "ProvideSnapshot")'
           /\ UNCHANGED uplink => Complete(uplink, "PutSnapshot")'
           /\ UNCHANGED down => Complete(down, "Snapshot")'
           /\ UNCHANGED snap => SnapHeld'
           /\ UNCHANGED <<unacked, replica>> => (unacked \subseteq replica)'
BY DEF CoverageChain, Backed, Seen, SnapHeld

LEMMA OneSubscribe ==
    ASSUME NEW have
    PROVE  Complete(<<Subscribe(have)>>, "PutSnapshot")
BY DEF Complete, Subscribe, Message

\* The replay offers the stored snapshot, which is complete.
LEMMA ReplayComplete ==
    ASSUME RelayType, LinkType, SnapHeld, Complete(down, "Snapshot"), NEW have \in 0..MaxSeq
    PROVE  Complete(down \o Replay(have), "Snapshot")
<1>1. Replay(have) \in Seq(DownMessages) /\ down \in Seq(DownMessages)
  BY ReplayType DEF LinkType
<1>2. Complete(Replay(have), "Snapshot")
  BY DEF Complete, Replay, Message, SnapHeld
<1>3. QED
  BY <1>1, <1>2, CompleteConcat

\* Everything up to the frontier is backed.
LEMMA FrontierHeld ==
    ASSUME RecvType, Backed
    PROVE  1..haveSeq \subseteq replica \cup Sent(events)
BY BoundsAssumption DEF RecvType, Backed, Seen, Seqs

\* Every step keeps the chain, unless the channel overflows.
LEMMA CoverageStep ==
    ASSUME TypeOK, CoverageInv, [Next]_vars
    PROVE  CoverageInv'
<1> SUFFICES ASSUME ~everLagged'
             PROVE  CoverageChain'
  BY DEF CoverageInv
<1>0. CoverageChain
  BY LaggedStays DEF CoverageInv
<1> USE <1>0
<1>1. ASSUME NEW gaps \in Hiding \cup {{}}, StoreOther(gaps)
      PROVE  CoverageChain'
  <2>1. Message("EpochBump", 0, {}) \in DownMessages
    BY BoundsAssumption, NothingType, DownType
  <2>2. Complete(down', "Snapshot")
    BY <1>1, <2>1, DownAppend DEF StoreOther, TypeOK, CoverageChain
  <2>3. QED
    BY <1>1, <2>2, QueuesKept
    DEF StoreOther, CoverageChain,
        relayVars, linkVars, keyVars, recvVars, snapVars, chanVars, histVars
<1>2. ASSUME StoreOwn
      PROVE  CoverageChain'
  <2>1. replica \subseteq replica' /\ unacked' \subseteq replica' /\ events' = events
    BY <1>2 DEF StoreOwn, CoverageChain, chanVars
  <2>2. Backed'
    BY <1>2, <2>1, FrontierKept DEF StoreOwn, CoverageChain, recvVars
  <2>3. AsksBacked(events', replica')
    BY <2>1, AsksGrow DEF CoverageChain
  <2>4. QED
    BY <1>2, <2>1, <2>2, <2>3, QueuesKept
    DEF StoreOwn, CoverageChain,
        relayVars, linkVars, keyVars, recvVars, snapVars, chanVars, histVars
<1>3. ASSUME NEW s \in Seqs, FanOut(s)
      PROVE  CoverageChain'
  <2>1. Message("Frames", 0, {s}) \in DownMessages
    BY BoundsAssumption, NothingType, DownType
  <2>2. Complete(down', "Snapshot")
    BY <1>3, <2>1, DownAppend DEF FanOut, TypeOK, CoverageChain
  <2>3. QED
    BY <1>3, <2>2, QueuesKept
    DEF FanOut, CoverageChain,
        relayVars, linkVars, keyVars, recvVars, snapVars, chanVars, histVars
<1>4. ASSUME NEW covers \in Seqs, NEW hidden \in {FALSE, HiddenSnaps}, OtherSnapshot(covers, hidden)
      PROVE  CoverageChain'
  <2>1. SnapHeld'
    BY <1>4 DEF OtherSnapshot, SnapHeld
  <2>2. QED
    BY <1>4, <2>1, QueuesKept
    DEF OtherSnapshot, CoverageChain,
        relayVars, linkVars, keyVars, recvVars, snapVars, chanVars, histVars
<1>5. ASSUME AskForSnapshot
      PROVE  CoverageChain'
  <2>1. Message("RequestSnapshot", head, {}) \in DownMessages
    BY NothingType, DownType DEF TypeOK, RelayType
  <2>2. Complete(down', "Snapshot")
    BY <1>5, <2>1, DownAppend DEF AskForSnapshot, TypeOK, CoverageChain
  <2>3. QED
    BY <1>5, <2>2, QueuesKept
    DEF AskForSnapshot, CoverageChain,
        relayVars, linkVars, keyVars, recvVars, snapVars, chanVars, histVars
<1>6. ASSUME ServeSubscribe
      PROVE  CoverageChain'
  <2>1. Complete(uplink', "PutSnapshot")
    BY <1>6, CompleteTail DEF ServeSubscribe, RelayTake, TypeOK, LinkType, CoverageChain
  <2>2. Complete(down', "Snapshot")
    <3>1. Head(uplink).covers \in 0..MaxSeq /\ down' = down \o Replay(Head(uplink).covers)
      BY <1>6, RelayTakeType DEF ServeSubscribe, TypeOK
    <3>2. QED
      BY <3>1, ReplayComplete DEF TypeOK, CoverageChain
  <2>3. QED
    BY <1>6, <2>1, <2>2, QueuesKept
    DEF ServeSubscribe, CoverageChain,
        relayVars, linkVars, keyVars, recvVars, snapVars, chanVars, histVars
<1>7. ASSUME FailSubscribe
      PROVE  CoverageChain'
  <2>1. Complete(uplink', "PutSnapshot")
    BY <1>7, CompleteTail DEF FailSubscribe, RelayTake, TypeOK, LinkType, CoverageChain
  <2>2. Message("Internal", 0, {}) \in DownMessages
    BY BoundsAssumption, NothingType, DownType
  <2>3. Complete(down', "Snapshot")
    BY <1>7, <2>2, DownAppend DEF FailSubscribe, TypeOK, CoverageChain
  <2>4. QED
    BY <1>7, <2>1, <2>3, QueuesKept
    DEF FailSubscribe, CoverageChain,
        relayVars, linkVars, keyVars, recvVars, snapVars, chanVars, histVars
<1>8. ASSUME ServeSnapshot
      PROVE  CoverageChain'
  <2>1. Complete(uplink', "PutSnapshot")
    BY <1>8, CompleteTail DEF ServeSnapshot, RelayTake, TypeOK, LinkType, CoverageChain
  <2>2. 1..Head(uplink).covers \subseteq Head(uplink).content
    BY <1>8, CompleteTail DEF ServeSnapshot, RelayTake, TypeOK, LinkType, CoverageChain
  <2>3. SnapHeld'
    BY <1>8, <2>2 DEF ServeSnapshot, SnapHeld, CoverageChain
  <2>4. QED
    BY <1>8, <2>1, <2>3, QueuesKept
    DEF ServeSnapshot, CoverageChain,
        relayVars, linkVars, keyVars, recvVars, snapVars, chanVars, histVars
<1>9. ASSUME NEW answer \in Answers, ServeFetch(answer)
      PROVE  CoverageChain'
  <2>1. Complete(uplink', "PutSnapshot")
    BY <1>9, CompleteTail DEF ServeFetch, RelayTake, TypeOK, LinkType, CoverageChain
  <2>2. 0 \in 0..MaxSeq /\ 1..head \in SUBSET Seqs
    BY BoundsAssumption DEF TypeOK, RelayType, Seqs
  <2>3. Message(answer, 0, 1..head) \in DownMessages
    BY <1>9, <2>2, NothingType, DownType
  <2>4. Complete(down', "Snapshot")
    BY <1>9, <2>3, DownAppend DEF ServeFetch, Answers, TypeOK, CoverageChain
  <2>5. QED
    BY <1>9, <2>1, <2>4, QueuesKept
    DEF ServeFetch, CoverageChain,
        relayVars, linkVars, keyVars, recvVars, snapVars, chanVars, histVars
<1>10. ASSUME Connect
      PROVE  CoverageChain'
  <2>1. Complete(uplink', "PutSnapshot")
    BY <1>10, OneSubscribe DEF Connect, TypeOK, RecvType
  <2>2. QED
    BY <1>10, <2>1, QueuesKept
    DEF Connect, CoverageChain,
        relayVars, linkVars, keyVars, recvVars, snapVars, chanVars, histVars
<1>11. ASSUME RetrySubscription
      PROVE  CoverageChain'
  <2>1. Complete(uplink', "PutSnapshot")
    BY <1>11, UpAppend DEF RetrySubscription, TypeOK, RecvType, CoverageChain
  <2>2. QED
    BY <1>11, <2>1, QueuesKept
    DEF RetrySubscription, CoverageChain,
        relayVars, linkVars, keyVars, recvVars, snapVars, chanVars, histVars
<1>12. ASSUME RecvFrames
      PROVE  CoverageChain'
  <2> DEFINE S == {s \in Head(down).content : ~Seen(s)} \ Opaque
  <2>1. /\ S \in SUBSET Seqs
        /\ NoteSeqs(S)
        /\ AfterSeqAdvance(BytesOf(S), requested)
    BY <1>12, ReceiveType DEF RecvFrames, Incorporate, TypeOK
  <2> HIDE DEF S
  <2>2. /\ haveSeq' \in 0..MaxSeq
        /\ \A s \in Seqs : Seen(s)' => s \in replica \cup Sent(events) \cup S
        /\ 1..haveSeq' \subseteq replica \cup Sent(events) \cup S
    BY <2>1, NoteSeqsCounts, NotedIsBacked DEF TypeOK, CoverageChain
  <2>3. AsksBacked(events', replica) /\ Sent(events) \cup S \subseteq Sent(events')
    BY <2>1, <2>2, AfterSeqAdvanceBacks DEF TypeOK, CoverageChain
  <2>4. UNCHANGED <<replica, cmds, snap, unacked>>
    BY <1>12 DEF RecvFrames, relayVars
  <2>5. Backed' /\ AsksBacked(events', replica')
    BY <2>2, <2>3, <2>4 DEF Backed
  <2>6. Complete(down', "Snapshot")
    BY <1>12, CompleteTail DEF RecvFrames, Receive, TypeOK, LinkType, CoverageChain
  <2>7. Complete(uplink', "PutSnapshot")
    BY <1>12, RequestComplete DEF RecvFrames, TypeOK, CoverageChain
  <2>8. QED
    BY <2>4, <2>5, <2>6, <2>7, QueuesKept DEF CoverageChain
<1>13. ASSUME NEW s \in Seqs, RecvAck(s)
      PROVE  CoverageChain'
  <2>1. NoteSeqs({s}) /\ AfterSeqAdvance(BytesOf({}), requested)
    BY <1>13 DEF RecvAck, BytesOf
  <2>2. /\ haveSeq' \in 0..MaxSeq
        /\ \A x \in Seqs : Seen(x)' => x \in replica \cup Sent(events) \cup {s}
        /\ 1..haveSeq' \subseteq replica \cup Sent(events) \cup {s}
    BY <2>1, NoteSeqsCounts, NotedIsBacked DEF TypeOK, CoverageChain
  <2>3. s \in replica
    BY <1>13 DEF RecvAck, CoverageChain
  <2>4. AsksBacked(events', replica) /\ Sent(events) \cup {} \subseteq Sent(events')
    BY <2>1, <2>2, <2>3, AfterSeqAdvanceBacks DEF TypeOK, CoverageChain
  <2>5. UNCHANGED <<replica, cmds, snap, uplink, down>> /\ unacked' \subseteq unacked
    BY <1>13 DEF RecvAck, relayVars, linkVars
  <2>6. Backed' /\ AsksBacked(events', replica')
    BY <2>2, <2>3, <2>4, <2>5 DEF Backed
  <2>7. QED
    BY <2>5, <2>6, QueuesKept DEF CoverageChain
<1>14. ASSUME RecvRequestSnapshot
      PROVE  CoverageChain'
  <2>1. Complete(down', "Snapshot")
    BY <1>14, CompleteTail DEF RecvRequestSnapshot, Receive, TypeOK, LinkType, CoverageChain
  <2>2. UNCHANGED <<haveSeq, ahead, replica, cmds, snap, uplink, unacked>>
    BY <1>14 DEF RecvRequestSnapshot, relayVars, recvVars
  <2>3. haveSeq' \in 0..MaxSeq
    BY <2>2 DEF TypeOK, RecvType
  <2>4. AfterSeqAdvance(BytesOf({}), Head(down).covers)
    BY <1>14 DEF RecvRequestSnapshot, BytesOf
  <2>5. 1..haveSeq' \subseteq replica \cup Sent(events) \cup {}
    BY <2>2, FrontierHeld DEF TypeOK, CoverageChain
  <2>6. AsksBacked(events', replica) /\ Sent(events) \cup {} \subseteq Sent(events')
    BY <2>3, <2>4, <2>5, AfterSeqAdvanceBacks DEF TypeOK, CoverageChain
  <2>7. Backed' /\ AsksBacked(events', replica')
    BY <2>2, <2>6, FrontierKept DEF CoverageChain
  <2>8. QED
    BY <2>1, <2>2, <2>7, QueuesKept DEF CoverageChain
<1>15. ASSUME RecvSnapshot
      PROVE  CoverageChain'
  <2> DEFINE covers == Head(down).covers
             content == Head(down).content
  <2>1. Complete(down', "Snapshot") /\ 1..covers \subseteq content
    BY <1>15, CompleteTail DEF RecvSnapshot, Receive, TypeOK, LinkType, CoverageChain
  <2>2. covers \in 0..MaxSeq /\ content \in SUBSET Seqs
    BY <1>15, ReceiveType DEF RecvSnapshot, TypeOK
  <2>3. DocBytes(content) \in EventMessages /\ Bytes(DocBytes(content)) = content
        /\ DocBytes(content).type # "SnapshotNeeded"
    <3>1. 0 \in 0..MaxSeq
      BY BoundsAssumption
    <3>2. DocBytes(content) \in EventMessages
      BY <2>2, <3>1, NothingType, EventType DEF DocBytes
    <3>3. QED
      BY <3>2 DEF DocBytes, Message, Bytes
  <2>4. /\ haveSeq' = Larger(haveSeq, covers)
        /\ ahead' \subseteq ahead
        /\ Emit(<<DocBytes(content)>>)
        /\ UNCHANGED <<replica, cmds, snap, uplink, unacked>>
    BY <1>15 DEF RecvSnapshot, relayVars
  <2> HIDE DEF covers, content
  <2>5. events' = Append(events, DocBytes(content))
    <3>1. events' = events \o <<DocBytes(content)>>
      BY <2>4, EmitAppends DEF TypeOK
    <3>2. QED
      BY <2>3, <3>1 DEF TypeOK, ChanType
  <2>6. Sent(events') = Sent(events) \cup content
    BY <2>3, <2>5, SentAppend DEF TypeOK, ChanType
  <2>7. AsksBacked(events', replica')
    BY <2>3, <2>4, <2>5, AsksAppend DEF TypeOK, ChanType, CoverageChain
  <2>8. ASSUME NEW s \in Seqs, Seen(s)'
        PROVE  s \in replica' \cup Sent(events')
    <3>1. CASE Seen(s)
      BY <2>4, <2>6, <3>1 DEF Backed, CoverageChain
    <3>2. CASE ~Seen(s)
      <4>1. s <= covers
        BY <2>2, <2>4, <2>8, <3>2 DEF Seen, Larger, TypeOK, RecvType, Seqs
      <4>2. s \in 1..covers
        BY <2>2, <4>1 DEF Seqs
      <4>3. QED
        BY <2>1, <2>6, <4>2
    <3>3. QED
      BY <3>1, <3>2
  <2>9. QED
    BY <2>1, <2>4, <2>7, <2>8, QueuesKept DEF CoverageChain, Backed
<1>16. ASSUME RefuseSnapshot
      PROVE  CoverageChain'
  <2>1. Complete(down', "Snapshot")
    BY <1>16, CompleteTail DEF RefuseSnapshot, Receive, TypeOK, LinkType, CoverageChain
  <2>2. Complete(uplink', "PutSnapshot")
    BY <1>16, RequestComplete DEF RefuseSnapshot, TypeOK, CoverageChain
  <2>3. QED
    BY <1>16, <2>1, <2>2, QueuesKept
    DEF RefuseSnapshot, CoverageChain,
        relayVars, linkVars, keyVars, recvVars, snapVars, chanVars, histVars
<1>17. ASSUME RecvNoSnapshot
      PROVE  CoverageChain'
  <2>1. Complete(down', "Snapshot")
    BY <1>17, CompleteTail DEF RecvNoSnapshot, Receive, TypeOK, LinkType, CoverageChain
  <2>2. QED
    BY <1>17, <2>1, QueuesKept
    DEF RecvNoSnapshot, CoverageChain,
        relayVars, linkVars, keyVars, recvVars, snapVars, chanVars, histVars
<1>18. ASSUME RecvSubscribedOk
      PROVE  CoverageChain'
  <2>1. Complete(down', "Snapshot")
    BY <1>18, CompleteTail DEF RecvSubscribedOk, Receive, TypeOK, LinkType, CoverageChain
  <2>2. QED
    BY <1>18, <2>1, QueuesKept
    DEF RecvSubscribedOk, CoverageChain,
        relayVars, linkVars, keyVars, recvVars, snapVars, chanVars, histVars
<1>19. ASSUME RecvInternal
      PROVE  CoverageChain'
  <2>1. Complete(down', "Snapshot")
    BY <1>19, CompleteTail DEF RecvInternal, Receive, TypeOK, LinkType, CoverageChain
  <2>2. QED
    BY <1>19, <2>1, QueuesKept
    DEF RecvInternal, CoverageChain,
        relayVars, linkVars, keyVars, recvVars, snapVars, chanVars, histVars
<1>20. ASSUME NEW answer \in Answers, RecvAnswer(answer)
      PROVE  CoverageChain'
  <2> DEFINE S == {s \in Seqs : IsParked(s) /\ missing'[s] = {}}
  <2>1. S \in SUBSET Seqs /\ NoteSeqs(S) /\ Emit(BytesOf(S))
    BY <1>20 DEF RecvAnswer, Incorporate
  <2> HIDE DEF S
  <2>2. \A s \in Seqs : Seen(s)' => s \in replica \cup Sent(events) \cup S
    BY <2>1, NotedIsBacked DEF TypeOK, CoverageChain
  <2>3. events' = events \o BytesOf(S)
    BY <2>1, EmitAppends DEF TypeOK
  <2>4. AsksBacked(events', replica) /\ Sent(events') = Sent(events) \cup S
    BY <2>1, <2>3, BytesSent DEF TypeOK, ChanType, CoverageChain
  <2>5. UNCHANGED <<replica, cmds, snap, uplink, unacked>>
    BY <1>20 DEF RecvAnswer, relayVars
  <2>6. Complete(down', "Snapshot")
    BY <1>20, CompleteTail DEF RecvAnswer, Receive, TypeOK, LinkType, CoverageChain
  <2>7. Backed' /\ AsksBacked(events', replica')
    BY <2>2, <2>4, <2>5 DEF Backed
  <2>8. QED
    BY <2>5, <2>6, <2>7, QueuesKept DEF CoverageChain
<1>21. ASSUME RecvEpochBump
      PROVE  CoverageChain'
  <2>1. Complete(down', "Snapshot")
    BY <1>21, CompleteTail DEF RecvEpochBump, Receive, TypeOK, LinkType, CoverageChain
  <2> DEFINE env == Message("Envelopes", 0, {})
             mem == Message("Membership", 0, {})
  <2>2. env \in UpMessages /\ mem \in UpMessages
    BY NothingType, UpType, BoundsAssumption DEF Answers
  <2>3. env.type # "PutSnapshot" /\ mem.type # "PutSnapshot"
    BY DEF Message
  <2>4. uplink' = uplink \o <<env, mem>>
    BY <1>21 DEF RecvEpochBump
  <2> HIDE DEF env, mem
  <2>5. uplink' = Append(Append(uplink, env), mem)
    BY <2>2, <2>4 DEF TypeOK, LinkType
  <2>6. Append(uplink, env) \in Seq(UpMessages) /\ Complete(Append(uplink, env), "PutSnapshot")
    BY <2>2, <2>3, AppendPlaces, CompleteAppend DEF TypeOK, LinkType, CoverageChain
  <2>7. Complete(uplink', "PutSnapshot")
    BY <2>2, <2>3, <2>5, <2>6, CompleteAppend
  <2>8. QED
    BY <1>21, <2>1, <2>7, QueuesKept
    DEF RecvEpochBump, CoverageChain,
        relayVars, linkVars, keyVars, recvVars, snapVars, chanVars, histVars
<1>22. ASSUME NEW sealable \in BOOLEAN, ProvideSnapshot(sealable)
      PROVE  CoverageChain'
  <2> DEFINE put == Message("PutSnapshot", Head(cmds).covers, Head(cmds).content)
  <2>1. /\ Complete(cmds', "ProvideSnapshot")
        /\ 1..Head(cmds).covers \subseteq Head(cmds).content
    BY <1>22, CompleteTail DEF ProvideSnapshot, TakeCmd, TypeOK, ChanType, CoverageChain
  <2>2. put \in UpMessages
    BY <1>22, TakeCmdType, NothingType, UpType DEF ProvideSnapshot, TypeOK
  <2>3. 1..put.covers \subseteq put.content
    BY <2>1 DEF Message
  <2>4. uplink' = uplink \/ uplink' = Append(uplink, put)
    BY <1>22 DEF ProvideSnapshot
  <2> HIDE DEF put
  <2>5. Complete(uplink', "PutSnapshot")
    BY <2>2, <2>3, <2>4, CompleteAppend DEF TypeOK, LinkType, CoverageChain
  <2>6. QED
    BY <1>22, <2>1, <2>5, QueuesKept
    DEF ProvideSnapshot, CoverageChain,
        relayVars, linkVars, keyVars, recvVars, snapVars, chanVars, histVars
<1>23. ASSUME Resync
      PROVE  CoverageChain'
  <2>1. Complete(cmds', "ProvideSnapshot")
    BY <1>23, CompleteTail DEF Resync, TakeCmd, TypeOK, ChanType, CoverageChain
  <2>2. 0 \in 0..MaxSeq
    BY BoundsAssumption
  <2>3. Complete(uplink', "PutSnapshot")
    BY <1>23, <2>2, UpAppend DEF Resync, TypeOK, CoverageChain
  <2>4. Backed'
    BY <1>23 DEF Resync, Backed, Seen, Seqs
  <2>5. QED
    BY <1>23, <2>1, <2>3, <2>4, QueuesKept
    DEF Resync, CoverageChain,
        relayVars, linkVars, keyVars, recvVars, snapVars, chanVars, histVars
<1>24. ASSUME UiBytes
      PROVE  CoverageChain'
  <2>1. /\ events' = Tail(events) /\ events # <<>>
        /\ replica' = replica \cup Bytes(Head(events))
        /\ UNCHANGED <<haveSeq, ahead>>
    BY <1>24 DEF UiBytes, Bytes, recvVars
  <2>2. Sent(events) \subseteq replica' \cup Sent(events')
    BY <2>1, SentTail DEF TypeOK, ChanType, Bytes
  <2>3. Backed'
    BY <2>1, <2>2, FrontierKept DEF CoverageChain
  <2>4. AsksBacked(events', replica')
    BY <2>1, AsksTail DEF TypeOK, ChanType, CoverageChain
  <2>5. unacked' \subseteq replica'
    BY <1>24, <2>1 DEF UiBytes, CoverageChain
  <2>6. QED
    BY <1>24, <2>3, <2>4, <2>5, QueuesKept
    DEF UiBytes, CoverageChain,
        relayVars, linkVars, keyVars, recvVars, snapVars, chanVars, histVars
<1>25. ASSUME UiSnapshotNeeded
      PROVE  CoverageChain'
  <2> DEFINE answer == Message("ProvideSnapshot", Head(events).covers, replica)
  <2>1. /\ events' = Tail(events) /\ events # <<>>
        /\ Head(events).type = "SnapshotNeeded"
        /\ cmds' = Append(cmds, answer)
        /\ UNCHANGED <<haveSeq, ahead, replica>>
    BY <1>25 DEF UiSnapshotNeeded, recvVars
  <2>2. Bytes(Head(events)) = {}
    BY <2>1 DEF Bytes
  <2>3. AsksBacked(events', replica) /\ 1..Head(events).covers \subseteq replica
    BY <2>1, <2>2, AsksTail DEF TypeOK, ChanType, CoverageChain
  <2>4. Backed'
    BY <2>1, <2>2, SentTail, FrontierKept DEF TypeOK, ChanType, CoverageChain
  <2>5. answer \in CmdMessages
    BY <2>1, HeadType, MessageParts, NothingType, CmdType
    DEF TypeOK, ChanType, UiType, EventMessages
  <2>6. 1..answer.covers \subseteq answer.content
    BY <2>3 DEF Message
  <2> HIDE DEF answer
  <2>7. Complete(cmds', "ProvideSnapshot")
    BY <2>1, <2>5, <2>6, CompleteAppend DEF TypeOK, ChanType, CoverageChain
  <2>8. QED
    BY <1>25, <2>1, <2>3, <2>4, <2>7, QueuesKept
    DEF UiSnapshotNeeded, CoverageChain,
        relayVars, linkVars, keyVars, recvVars, snapVars, chanVars, histVars
<1>26. ASSUME UiLagged
      PROVE  CoverageChain'
  <2>1. Message("Resync", 0, {}) \in CmdMessages /\ Message("Resync", 0, {}).type # "ProvideSnapshot"
    <3>1. Message("Resync", 0, {}) \in CmdMessages
      BY BoundsAssumption, NothingType, CmdType
    <3>2. QED
      BY <3>1 DEF Message
  <2>2. Complete(cmds', "ProvideSnapshot")
    BY <1>26, <2>1, CompleteAppend DEF UiLagged, TypeOK, ChanType, CoverageChain
  <2>3. QED
    BY <1>26, <2>2, QueuesKept
    DEF UiLagged, CoverageChain,
        relayVars, linkVars, keyVars, recvVars, snapVars, chanVars, histVars
<1>27. ASSUME Disconnect
      PROVE  CoverageChain'
  <2>1. Complete(uplink', "PutSnapshot") /\ Complete(down', "Snapshot")
    BY <1>27, CompleteEmpty DEF Disconnect
  <2>2. SnapHeld'
    BY <1>27 DEF Disconnect, SnapHeld, CoverageChain
  <2>3. UNCHANGED <<haveSeq, ahead, replica, events, cmds, unacked>>
    BY <1>27 DEF Disconnect, chanVars
  <2>4. QED
    BY <2>1, <2>2, <2>3, QueuesKept DEF CoverageChain
<1>28. ASSUME Restart
      PROVE  CoverageChain'
  <2>1. Complete(uplink', "PutSnapshot")
    BY <1>28, OneSubscribe, BoundsAssumption DEF Restart
  <2>2. Complete(down', "Snapshot") /\ Complete(cmds', "ProvideSnapshot")
    BY <1>28, CompleteEmpty DEF Restart
  <2>3. Backed' /\ SnapHeld' /\ unacked' \subseteq replica'
    BY <1>28 DEF Restart, Backed, Seen, Seqs, SnapHeld, CoverageChain
  <2>4. AsksBacked(events', replica')
    BY <1>28 DEF Restart, AsksBacked
  <2>5. QED
    BY <2>1, <2>2, <2>3, <2>4 DEF CoverageChain
<1>29. ASSUME UNCHANGED vars
      PROVE  CoverageChain'
  BY <1>29, QueuesKept DEF CoverageChain, vars,
      relayVars, linkVars, keyVars, recvVars, snapVars, chanVars, histVars
<1>30. QED
  BY <1>1, <1>2, <1>3, <1>4, <1>5, <1>6, <1>7, <1>8, <1>9, <1>10, <1>11, <1>12, <1>13, <1>14, <1>15,
     <1>16, <1>17, <1>18, <1>19, <1>20, <1>21, <1>22, <1>23, <1>24, <1>25, <1>26, <1>27, <1>28, <1>29
  DEF Next, Relay, Recv, HandleCmd, Ui

\* The chain holds in every reachable state.
THEOREM CoverageHolds == Spec => []CoverageInv
<1>1. Init => CoverageInv
  <2>1. SUFFICES ASSUME Init
                 PROVE  CoverageChain
    BY DEF CoverageInv
  <2>2. Complete(uplink, "PutSnapshot")
    BY <2>1, OneSubscribe DEF Init
  <2>3. Complete(down, "Snapshot") /\ Complete(cmds, "ProvideSnapshot")
    BY <2>1, CompleteEmpty DEF Init
  <2>4. Backed /\ SnapHeld /\ unacked \subseteq replica
    BY <2>1 DEF Init, Backed, Seen, Seqs, SnapHeld
  <2>5. AsksBacked(events, replica)
    BY <2>1 DEF Init, AsksBacked
  <2>6. QED
    BY <2>2, <2>3, <2>4, <2>5 DEF CoverageChain
<1>2. TypeOK /\ CoverageInv /\ [Next]_vars => CoverageInv'
  BY CoverageStep
<1>3. QED
  BY <1>1, <1>2, TypeCorrect, PTL DEF Spec

\* As long as no event is lost, everything the frontier counts is in the UI's document or
\* on its way there.
THEOREM FrontierIsBacked == Spec => []FrontierBacked
<1>1. CoverageInv => FrontierBacked
  BY DEF CoverageInv, CoverageChain, FrontierBacked
<1>2. QED
  BY <1>1, CoverageHolds, PTL

\* As long as no event is lost, the stored snapshot holds everything it covers: no client
\* makes the relay delete what nobody can restore.
THEOREM SnapshotIsComplete == Spec => []SnapshotComplete
<1>1. CoverageInv => SnapshotComplete
  BY DEF CoverageInv, CoverageChain, SnapshotComplete
<1>2. QED
  BY <1>1, CoverageHolds, PTL

-----------------------------------------------------------------------------
(* The invariant of delivery. *)

\* The UI is to ask, or has asked, for everything again.
ResyncDue == lagged \/ \E i \in DOMAIN cmds : cmds[i].type = "Resync"

\* A Subscribe behind place i of the uplink asks for s.
AskedBehind(i, s) ==
    \E j \in DOMAIN uplink : j > i /\ uplink[j].type = "Subscribe" /\ uplink[j].covers < s

\* A message of this type at place i of the downlink, or behind it, brings s.
Brought(type, i, s) ==
    \E j \in DOMAIN down : j >= i /\ down[j].type = type /\ s \in down[j].content

\* The UI holds s, is to be given it, or is to ask for everything again.
Given(s) == s \in replica \cup Sent(events) \/ ResyncDue

\* Whatever the replay that ends at place i of the downlink (0: no replay is on its way)
\* has not brought is parked, on its way, asked for, or was refused and is asked for.
Settled(s, i) ==
    \/ Given(s)
    \/ IsParked(s)
    \/ s \in fanout
    \/ Brought("Frames", i - 1, s)
    \/ Brought("Snapshot", i - 2, s)
    \/ AskedBehind(0, s)
    \/ i <= 2 /\ snapRefused
    \/ /\ i <= 1 /\ lostFrames /\ resub
       /\ i = 1 => \E p \in Seqs : IsParked(p)

NoReplay == \A i \in DOMAIN down : down[i].type # "SubscribedOk"
ReplayEnd(i) == IF i = 0 THEN NoReplay ELSE i \in DOMAIN down /\ down[i].type = "SubscribedOk"

LinkShape ==
    /\ ~connected => uplink = <<>> /\ down = <<>> /\ fanout = {} /\ ~subscribed
    /\ live \/ ~NoReplay => subscribed
ReplaysWhole ==
    \A i \in DOMAIN down : down[i].type \in {"Snapshot", "NoSnapshot"} =>
        /\ i + 2 \in DOMAIN down
        /\ down[i + 1].type = "Frames"
        /\ down[i + 2].type = "SubscribedOk"
AsksHeld ==
    \A i \in DOMAIN uplink : uplink[i].type = "Subscribe" =>
        \A s \in 1..uplink[i].covers : Given(s) \/ AskedBehind(i, s)
AllSettled ==
    subscribed /\ ~subRefused =>
        \A i \in 0..Len(down) : ReplayEnd(i) => \A s \in 1..head : Settled(s, i)
FrontierGiven == \A s \in Seqs : Seen(s) => Given(s)
Content ==
    /\ SnapHeld
    /\ Complete(down, "Snapshot")
    /\ FrontierGiven
    /\ AsksHeld
    /\ AllSettled
DeliveryInv ==
    /\ LinkShape
    /\ ReplaysWhole
    /\ unacked \subseteq replica
    /\ ~shortened => Content

-----------------------------------------------------------------------------
(* Queues by their places. *)

\* r is q with something behind it.
Grown(q, r) == Len(q) <= Len(r) /\ \A i \in 1..Len(q) : r[i] = q[i]

LEMMA AppendGrown ==
    ASSUME NEW M, NEW q \in Seq(M), NEW m \in M
    PROVE  /\ Append(q, m) \in Seq(M)
           /\ Grown(q, Append(q, m))
           /\ Len(Append(q, m)) = Len(q) + 1
           /\ Append(q, m)[Len(q) + 1] = m
BY AppendPlaces DEF Grown

LEMMA ConcatGrown ==
    ASSUME NEW M, NEW q \in Seq(M), NEW e \in Seq(M)
    PROVE  /\ q \o e \in Seq(M)
           /\ Grown(q, q \o e)
           /\ Len(q \o e) = Len(q) + Len(e)
           /\ \A i \in 1..Len(e) : (q \o e)[Len(q) + i] = e[i]
BY DEF Grown

LEMMA SameGrown ==
    ASSUME NEW M, NEW q \in Seq(M)
    PROVE  Grown(q, q)
BY DEF Grown

LEMMA Places ==
    ASSUME NEW M, NEW q \in Seq(M)
    PROVE  /\ Len(q) \in Nat
           /\ DOMAIN q = 1..Len(q)
           /\ \A i \in 1..Len(q) : q[i] \in M
OBVIOUS

\* What is Given to the UI stays so.
GivenGrows == \A s \in Seqs : Given(s) => Given(s)'

LEMMA AskedGrows ==
    ASSUME LinkType, LinkType', Grown(uplink, uplink'), NEW i, NEW s, AskedBehind(i, s)
    PROVE  AskedBehind(i, s)'
<1>1. /\ DOMAIN uplink = 1..Len(uplink) /\ DOMAIN uplink' = 1..Len(uplink')
      /\ Len(uplink) \in Nat /\ Len(uplink') \in Nat
  BY Places DEF LinkType
<1>2. PICK j \in DOMAIN uplink : j > i /\ uplink[j].type = "Subscribe" /\ uplink[j].covers < s
  BY DEF AskedBehind
<1>3. j \in DOMAIN uplink' /\ uplink'[j] = uplink[j]
  BY <1>1, <1>2 DEF Grown
<1>4. QED
  BY <1>2, <1>3 DEF AskedBehind

\* New messages on the uplink: a Subscribe among them asks from a frontier that is given.
LEMMA AsksGrowUp ==
    ASSUME LinkType, LinkType', AsksHeld, GivenGrows, Grown(uplink, uplink'),
           \A i \in 1..Len(uplink') : i > Len(uplink) /\ uplink'[i].type = "Subscribe" =>
              \A s \in 1..uplink'[i].covers : Given(s)'
    PROVE  AsksHeld'
<1>1. /\ DOMAIN uplink = 1..Len(uplink) /\ DOMAIN uplink' = 1..Len(uplink')
      /\ Len(uplink) \in Nat /\ Len(uplink') \in Nat
  BY Places DEF LinkType
<1> SUFFICES ASSUME NEW i \in 1..Len(uplink'), uplink'[i].type = "Subscribe",
                    NEW s \in 1..uplink'[i].covers
             PROVE  Given(s)' \/ AskedBehind(i, s)'
  BY <1>1 DEF AsksHeld
<1>2. CASE i > Len(uplink)
  BY <1>2
<1>3. CASE ~(i > Len(uplink))
  <2>1. i \in DOMAIN uplink /\ uplink'[i] = uplink[i]
    BY <1>1, <1>3 DEF Grown
  <2>2. Given(s) \/ AskedBehind(i, s)
    BY <2>1 DEF AsksHeld
  <2>3. s \in Seqs
    <3>1. uplink[i].covers \in 0..MaxSeq
      <4>1. uplink[i] \in UpMessages
        BY <1>1, <2>1, Places DEF LinkType
      <4>2. QED
        BY <4>1, MessageParts DEF UpMessages
    <3>2. QED
      BY <2>1, <3>1, BoundsAssumption DEF Seqs
  <2>4. CASE Given(s)
    BY <2>3, <2>4 DEF GivenGrows
  <2>5. CASE AskedBehind(i, s)
    BY <2>5, AskedGrows
  <2>6. QED
    BY <2>2, <2>4, <2>5
<1>4. QED
  BY <1>2, <1>3

\* The relay has taken the first message of the uplink.
LEMMA AskedTaken ==
    ASSUME LinkType, LinkType', uplink # <<>>, uplink' = Tail(uplink), NEW i \in Nat, NEW s
    PROVE  /\ AskedBehind(i + 1, s) => AskedBehind(i, s)'
           /\ AskedBehind(0, s) =>
                 \/ AskedBehind(0, s)'
                 \/ Head(uplink).type = "Subscribe" /\ Head(uplink).covers < s
<1>1. /\ DOMAIN uplink = 1..Len(uplink) /\ Len(uplink) \in Nat \ {0}
      /\ DOMAIN uplink' = 1..(Len(uplink) - 1)
      /\ \A j \in 1..(Len(uplink) - 1) : uplink'[j] = uplink[j + 1]
      /\ Head(uplink) = uplink[1]
  BY TailPlaces DEF LinkType
<1>2. ASSUME NEW k \in Nat, NEW j \in DOMAIN uplink, j > k + 1,
             uplink[j].type = "Subscribe", uplink[j].covers < s
      PROVE  AskedBehind(k, s)'
  <2>1. j - 1 \in DOMAIN uplink' /\ uplink'[j - 1] = uplink[j] /\ j - 1 > k
    BY <1>1, <1>2
  <2>2. QED
    BY <1>2, <2>1 DEF AskedBehind
<1>3. AskedBehind(i + 1, s) => AskedBehind(i, s)'
  <2> SUFFICES ASSUME AskedBehind(i + 1, s) PROVE AskedBehind(i, s)'
    OBVIOUS
  <2>1. PICK j \in DOMAIN uplink : j > i + 1 /\ uplink[j].type = "Subscribe"
                                   /\ uplink[j].covers < s
    BY DEF AskedBehind
  <2>2. QED
    BY <1>2, <2>1
<1>4. ASSUME AskedBehind(0, s)
      PROVE  \/ AskedBehind(0, s)'
             \/ Head(uplink).type = "Subscribe" /\ Head(uplink).covers < s
  <2>1. PICK j \in DOMAIN uplink : uplink[j].type = "Subscribe" /\ uplink[j].covers < s
    BY <1>4 DEF AskedBehind
  <2>2. CASE j = 1
    BY <1>1, <2>1, <2>2
  <2>3. CASE j # 1
    <3>1. j > 0 + 1
      BY <1>1, <2>3
    <3>2. QED
      BY <1>2, <2>1, <3>1
  <2>4. QED
    BY <2>2, <2>3
<1>5. QED
  BY <1>3, <1>4

LEMMA AsksTaken ==
    ASSUME LinkType, LinkType', AsksHeld, GivenGrows, uplink # <<>>, uplink' = Tail(uplink)
    PROVE  AsksHeld'
<1>1. /\ DOMAIN uplink = 1..Len(uplink) /\ Len(uplink) \in Nat \ {0}
      /\ DOMAIN uplink' = 1..(Len(uplink) - 1)
      /\ \A j \in 1..(Len(uplink) - 1) : uplink'[j] = uplink[j + 1]
  BY TailPlaces DEF LinkType
<1> SUFFICES ASSUME NEW i \in 1..(Len(uplink) - 1), uplink'[i].type = "Subscribe",
                    NEW s \in 1..uplink'[i].covers
             PROVE  Given(s)' \/ AskedBehind(i, s)'
  BY <1>1 DEF AsksHeld
<1>2. i + 1 \in DOMAIN uplink /\ uplink'[i] = uplink[i + 1]
  BY <1>1
<1>3. Given(s) \/ AskedBehind(i + 1, s)
  BY <1>2 DEF AsksHeld
<1>4. s \in Seqs
  <2>1. uplink[i + 1] \in UpMessages
    BY <1>1, <1>2, Places DEF LinkType
  <2>2. uplink[i + 1].covers \in 0..MaxSeq
    BY <2>1, MessageParts DEF UpMessages
  <2>3. QED
    BY <1>2, <2>2, BoundsAssumption DEF Seqs
<1>5. CASE Given(s)
  BY <1>4, <1>5 DEF GivenGrows
<1>6. CASE AskedBehind(i + 1, s)
  <2>1. i \in Nat
    OBVIOUS
  <2>2. QED
    BY <1>6, <2>1, AskedTaken
<1>7. QED
  BY <1>3, <1>5, <1>6

-----------------------------------------------------------------------------
(* The downlink. *)

ReplayTypes == {"Snapshot", "NoSnapshot", "SubscribedOk"}

\* Messages that belong to no replay come in behind the others.
LEMMA DownGrows ==
    ASSUME LinkType, LinkType', Grown(down, down'),
           \A i \in 1..Len(down') : i > Len(down) => down'[i].type \notin ReplayTypes
    PROVE  /\ ReplaysWhole => ReplaysWhole'
           /\ NoReplay <=> NoReplay'
           /\ \A i \in 0..Len(down') : ReplayEnd(i)' => i \in 0..Len(down) /\ ReplayEnd(i)
           /\ \A type, i, s : Brought(type, i, s) => Brought(type, i, s)'
<1>1. /\ DOMAIN down = 1..Len(down) /\ DOMAIN down' = 1..Len(down')
      /\ Len(down) \in Nat /\ Len(down') \in Nat
  BY Places DEF LinkType
<1>2. \A i \in DOMAIN down : i \in DOMAIN down' /\ down'[i] = down[i]
  BY <1>1 DEF Grown
<1>3. \A i \in DOMAIN down' : down'[i].type \in ReplayTypes => i \in DOMAIN down /\ down'[i] = down[i]
  BY <1>1, <1>2
<1>4. ASSUME ReplaysWhole
      PROVE  ReplaysWhole'
  <2> SUFFICES ASSUME NEW i \in DOMAIN down', down'[i].type \in {"Snapshot", "NoSnapshot"}
               PROVE  /\ i + 2 \in DOMAIN down'
                      /\ down'[i + 1].type = "Frames"
                      /\ down'[i + 2].type = "SubscribedOk"
    BY DEF ReplaysWhole
  <2>1. i \in DOMAIN down /\ down'[i] = down[i]
    BY <1>3 DEF ReplayTypes
  <2>2. /\ i + 2 \in DOMAIN down
        /\ down[i + 1].type = "Frames"
        /\ down[i + 2].type = "SubscribedOk"
    BY <1>4, <2>1 DEF ReplaysWhole
  <2>3. i + 1 \in DOMAIN down
    BY <1>1, <2>1, <2>2
  <2>4. QED
    BY <1>2, <2>2, <2>3
<1>5. NoReplay <=> NoReplay'
  BY <1>2, <1>3 DEF NoReplay, ReplayTypes
<1>6. ASSUME NEW i \in 0..Len(down'), ReplayEnd(i)'
      PROVE  i \in 0..Len(down) /\ ReplayEnd(i)
  <2>1. CASE i = 0
    BY <1>1, <1>5, <1>6, <2>1 DEF ReplayEnd
  <2>2. CASE i # 0
    BY <1>1, <1>3, <1>6, <2>2 DEF ReplayEnd, ReplayTypes
  <2>3. QED
    BY <2>1, <2>2
<1>7. ASSUME NEW type, NEW i, NEW s, Brought(type, i, s)
      PROVE  Brought(type, i, s)'
  BY <1>2, <1>7 DEF Brought
<1>8. QED
  BY <1>4, <1>5, <1>6, <1>7

\* The engine has taken the first message of the downlink: places move up by one, and the
\* replay that ended there is over.
Moved(i) == IF i # 0 THEN i + 1 ELSE IF Head(down).type = "SubscribedOk" THEN 1 ELSE 0

LEMMA DownTaken ==
    ASSUME LinkType, LinkType', ReplaysWhole, down # <<>>, down' = Tail(down)
    PROVE  /\ ReplaysWhole'
           /\ NoReplay => NoReplay'
           /\ \A i \in 0..Len(down') : ReplayEnd(i)' =>
                 Moved(i) \in 0..Len(down) /\ ReplayEnd(Moved(i))
           /\ \A type, s : \A i \in Int, k \in Int :
                 Brought(type, i, s) /\ (k < i \/ k <= 1) =>
                    \/ Brought(type, k, s)'
                    \/ i <= 1 /\ Head(down).type = type /\ s \in Head(down).content
<1>1. /\ DOMAIN down = 1..Len(down) /\ Len(down) \in Nat \ {0}
      /\ DOMAIN down' = 1..(Len(down) - 1)
      /\ Len(down') \in Nat /\ DOMAIN down' = 1..Len(down')
      /\ \A j \in 1..(Len(down) - 1) : down'[j] = down[j + 1]
      /\ Head(down) = down[1]
  BY TailPlaces, Places DEF LinkType
<1>2. Len(down') = Len(down) - 1
  BY <1>1
<1>3. ReplaysWhole'
  <2> SUFFICES ASSUME NEW i \in DOMAIN down', down'[i].type \in {"Snapshot", "NoSnapshot"}
               PROVE  /\ i + 2 \in DOMAIN down'
                      /\ down'[i + 1].type = "Frames"
                      /\ down'[i + 2].type = "SubscribedOk"
    BY DEF ReplaysWhole
  <2>1. i + 1 \in DOMAIN down /\ down'[i] = down[i + 1]
    BY <1>1
  <2>2. /\ (i + 1) + 2 \in DOMAIN down
        /\ down[(i + 1) + 1].type = "Frames"
        /\ down[(i + 1) + 2].type = "SubscribedOk"
    BY <2>1 DEF ReplaysWhole
  <2>3. i + 2 \in DOMAIN down' /\ i + 1 \in DOMAIN down'
    BY <1>1, <2>1, <2>2
  <2>4. down'[i + 1] = down[(i + 1) + 1] /\ down'[i + 2] = down[(i + 1) + 2]
    BY <1>1, <2>3
  <2>5. QED
    BY <2>2, <2>3, <2>4
<1>4. NoReplay => NoReplay'
  BY <1>1 DEF NoReplay
<1>5. ASSUME NEW i \in 0..Len(down'), ReplayEnd(i)'
      PROVE  Moved(i) \in 0..Len(down) /\ ReplayEnd(Moved(i))
  <2>1. CASE i # 0
    <3>1. i \in DOMAIN down' /\ down'[i].type = "SubscribedOk"
      BY <1>5, <2>1 DEF ReplayEnd
    <3>2. i + 1 \in DOMAIN down /\ down[i + 1].type = "SubscribedOk" /\ i + 1 # 0
      BY <1>1, <3>1
    <3>3. QED
      BY <1>1, <2>1, <3>2 DEF ReplayEnd, Moved
  <2>2. CASE i = 0 /\ Head(down).type = "SubscribedOk"
    BY <1>1, <2>2 DEF ReplayEnd, Moved
  <2>3. CASE i = 0 /\ Head(down).type # "SubscribedOk"
    <3>1. NoReplay'
      BY <1>5, <2>3 DEF ReplayEnd
    <3>2. ASSUME NEW j \in DOMAIN down
          PROVE  down[j].type # "SubscribedOk"
      <4>1. CASE j = 1
        BY <1>1, <2>3, <4>1
      <4>2. CASE j # 1
        <5>1. j - 1 \in DOMAIN down' /\ down'[j - 1] = down[j]
          BY <1>1, <4>2
        <5>2. QED
          BY <3>1, <5>1 DEF NoReplay
      <4>3. QED
        BY <4>1, <4>2
    <3>3. QED
      BY <1>1, <2>3, <3>2 DEF ReplayEnd, Moved, NoReplay
  <2>4. QED
    BY <2>1, <2>2, <2>3
<1>6. ASSUME NEW type, NEW s, NEW i \in Int, NEW k \in Int, Brought(type, i, s), k < i \/ k <= 1
      PROVE  \/ Brought(type, k, s)'
             \/ i <= 1 /\ Head(down).type = type /\ s \in Head(down).content
  <2>1. PICK j \in DOMAIN down : j >= i /\ down[j].type = type /\ s \in down[j].content
    BY <1>6 DEF Brought
  <2>2. CASE j = 1
    BY <1>1, <2>1, <2>2
  <2>3. CASE j # 1
    <3>1. j - 1 \in DOMAIN down' /\ down'[j - 1] = down[j] /\ j - 1 >= k
      BY <1>1, <1>6, <2>1, <2>3
    <3>2. QED
      BY <2>1, <3>1 DEF Brought
  <2>4. QED
    BY <2>2, <2>3
<1>7. QED
  BY <1>3, <1>4, <1>5, <1>6

-----------------------------------------------------------------------------
(* What the UI is given. *)

LEMMA SentGrows ==
    ASSUME NEW q \in Seq(EventMessages), NEW e \in Seq(EventMessages)
    PROVE  Sent(q) \subseteq Sent(q \o e) /\ Sent(e) \subseteq Sent(q \o e)
<1>1. /\ DOMAIN q = 1..Len(q) /\ DOMAIN e = 1..Len(e) /\ DOMAIN (q \o e) = 1..(Len(q) + Len(e))
      /\ Len(q) \in Nat /\ Len(e) \in Nat
      /\ \A i \in 1..Len(q) : (q \o e)[i] = q[i]
      /\ \A i \in 1..Len(e) : (q \o e)[Len(q) + i] = e[i]
  OBVIOUS
<1>2. ASSUME NEW s \in Sent(q)
      PROVE  s \in Sent(q \o e)
  <2>1. PICK i \in DOMAIN q : s \in Bytes(q[i])
    BY DEF Sent
  <2>2. s \in Seqs
    BY DEF Sent
  <2>3. i \in DOMAIN (q \o e) /\ (q \o e)[i] = q[i]
    BY <1>1
  <2>4. QED
    BY <2>1, <2>2, <2>3 DEF Sent
<1>3. ASSUME NEW s \in Sent(e)
      PROVE  s \in Sent(q \o e)
  <2>1. PICK i \in DOMAIN e : s \in Bytes(e[i])
    BY DEF Sent
  <2>2. s \in Seqs
    BY DEF Sent
  <2>3. Len(q) + i \in DOMAIN (q \o e) /\ (q \o e)[Len(q) + i] = e[i]
    BY <1>1
  <2>4. QED
    BY <2>1, <2>2, <2>3 DEF Sent
<1>4. QED
  BY <1>2, <1>3

\* Whether or not the channel overflows, what was given stays so and the events are given.
LEMMA EmitGives ==
    ASSUME ChanType, NEW evs \in Seq(EventMessages), Emit(evs), UNCHANGED <<replica, cmds>>
    PROVE  GivenGrows /\ \A s \in Sent(evs) : Given(s)'
<1>1. CASE lagged'
  BY <1>1 DEF GivenGrows, Given, ResyncDue
<1>2. CASE ~lagged'
  <2>1. events' = events \o evs /\ lagged' = lagged
    BY <1>2 DEF Emit
  <2>2. Sent(events) \subseteq Sent(events') /\ Sent(evs) \subseteq Sent(events')
    BY <2>1, SentGrows DEF ChanType
  <2>3. QED
    BY <2>1, <2>2 DEF GivenGrows, Given, ResyncDue
<1>3. QED
  BY <1>1, <1>2

LEMMA BytesOfGives ==
    ASSUME NEW S \in SUBSET Seqs
    PROVE  S \subseteq Sent(BytesOf(S))
<1>1. CASE S = {}
  BY <1>1
<1>2. CASE S # {}
  <2>1. BytesOf(S) = <<DocBytes(S)>> /\ Bytes(DocBytes(S)) = S
    BY <1>2 DEF BytesOf, Bytes, DocBytes, Message
  <2>2. DOMAIN <<DocBytes(S)>> = {1} /\ <<DocBytes(S)>>[1] = DocBytes(S)
    OBVIOUS
  <2>3. QED
    BY <2>1, <2>2 DEF Sent
<1>3. QED
  BY <1>1, <1>2

LEMMA AdvanceGives ==
    ASSUME ChanType, NEW S \in SUBSET Seqs, NEW req, haveSeq' \in 0..MaxSeq,
           AfterSeqAdvance(BytesOf(S), req), UNCHANGED <<replica, cmds>>
    PROVE  GivenGrows /\ \A s \in S : Given(s)'
<1> DEFINE ask == SnapshotNeeded(haveSeq')
<1>1. ask \in EventMessages
  BY NothingType, EventType DEF SnapshotNeeded
<1>2. Emit(BytesOf(S)) \/ Emit(Append(BytesOf(S), ask))
  BY DEF AfterSeqAdvance
<1> HIDE DEF ask
<1>3. BytesOf(S) \in Seq(EventMessages) /\ S \subseteq Sent(BytesOf(S))
  BY BytesOfType, BytesOfGives
<1>4. Append(BytesOf(S), ask) \in Seq(EventMessages)
      /\ Sent(Append(BytesOf(S), ask)) = Sent(BytesOf(S)) \cup Bytes(ask)
  BY <1>1, <1>3, SentAppend, AppendPlaces
<1>5. CASE Emit(BytesOf(S))
  BY <1>3, <1>5, EmitGives
<1>6. CASE Emit(Append(BytesOf(S), ask))
  BY <1>3, <1>4, <1>6, EmitGives
<1>7. QED
  BY <1>2, <1>5, <1>6

\* The frontier only counts what is given.
LEMMA FrontierStays ==
    ASSUME FrontierGiven, GivenGrows, UNCHANGED <<haveSeq, ahead>>
    PROVE  FrontierGiven'
BY DEF FrontierGiven, GivenGrows, Seen

LEMMA FrontierNotes ==
    ASSUME RecvType, FrontierGiven, GivenGrows, NEW S \in SUBSET Seqs, NoteSeqs(S),
           \A s \in S : Given(s)'
    PROVE  FrontierGiven'
<1>1. \A s \in Seqs : Seen(s)' => Seen(s) \/ s \in S
  BY NoteSeqsCounts
<1>2. QED
  BY <1>1 DEF FrontierGiven, GivenGrows

\* A step that leaves the UI's side alone.
LEMMA GivenKept ==
    ASSUME UNCHANGED <<replica, events, lagged, cmds>>
    PROVE  GivenGrows
BY DEF GivenGrows, Given, ResyncDue

-----------------------------------------------------------------------------
(* The deferred queue. *)

LEMMA LeastNat ==
    ASSUME NEW T \in SUBSET Nat, T # {}
    PROVE  \E n \in T : \A m \in T : n <= m
<1> DEFINE R == OpToRel(<, Nat)
<1>1. IsWellFoundedOn(R, Nat)
  BY NatLessThanWellFounded
<1>2. PICK n \in T : \A m \in T : ~(<<m, n>> \in R)
  <2> HIDE DEF R
  <2>1. QED
    BY <1>1, WFMin
<1>3. \A m \in T : ~(m < n)
  BY <1>2 DEF OpToRel
<1>4. QED
  BY <1>3

\* A queue with a free place takes the lowest of the frames.
LEMMA FirstIsTaken ==
    ASSUME NEW S \in SUBSET Seqs, S # {}, NEW n \in Int, n > 0
    PROVE  FirstN(S, n) # {}
<1>1. PICK s \in S : \A t \in S : s <= t
  BY LeastNat DEF Seqs
<1>2. {t \in S : t < s} = {}
  <2>1. \A t \in S : ~(t < s)
    BY <1>1 DEF Seqs
  <2>2. QED
    BY <2>1
<1>3. Cardinality({t \in S : t < s}) = 0
  BY <1>2, FS_EmptySet
<1>4. s \in FirstN(S, n)
  BY <1>3 DEF FirstN
<1>5. QED
  BY <1>4

LEMMA NoneParked ==
    ASSUME RecvType, \A p \in Seqs : ~IsParked(p)
    PROVE  Parked = 0
<1>1. \A s \in Seqs : {s} \X (1..deferred[s]) = {}
  <2> SUFFICES ASSUME NEW s \in Seqs PROVE {s} \X (1..deferred[s]) = {}
    OBVIOUS
  <2>1. deferred[s] \in Nat /\ ~(deferred[s] > 0)
    BY DEF RecvType, IsParked
  <2>2. 1..deferred[s] = {}
    BY <2>1
  <2>3. QED
    BY <2>2
<1>2. UNION {{s} \X (1..deferred[s]) : s \in Seqs} = {}
  BY <1>1
<1>3. Parked = Cardinality({})
  BY <1>2 DEF Parked
<1>4. QED
  BY <1>3, FS_EmptySet

\* A frame that cannot be opened is parked, or it was refused by a queue that is not
\* empty, and the document is to be asked for again.
LEMMA DeferFramesSettles ==
    ASSUME RecvType, NEW S \in SUBSET Seqs, DeferFrames(S)
    PROVE  /\ \A s \in Seqs : IsParked(s) => IsParked(s)'
           /\ \A s \in S : IsParked(s)' \/ (lostFrames' /\ resub' /\ \E p \in Seqs : IsParked(p)')
           /\ (lostFrames /\ resub) => (lostFrames' /\ resub')
<1> DEFINE kept == FirstN(S, DeferCap - Parked)
<1>1. kept \subseteq S
  BY DEF FirstN
<1>2. /\ deferred' = [s \in Seqs |-> IF s \in kept THEN deferred[s] + 1 ELSE deferred[s]]
      /\ lostFrames' = (lostFrames \/ kept # S)
      /\ resub' = (resub \/ kept # S)
  BY DEF DeferFrames
<1>3. (\A p \in Seqs : ~IsParked(p)) /\ S # {} => kept # {}
  <2> SUFFICES ASSUME \A p \in Seqs : ~IsParked(p), S # {} PROVE kept # {}
    OBVIOUS
  <2>1. Parked = 0
    BY NoneParked
  <2>2. DeferCap - Parked \in Int /\ DeferCap - Parked > 0
    BY <2>1, CapsAssumption
  <2>3. QED
    BY <2>2, FirstIsTaken
<1> HIDE DEF kept
<1>4. \A s \in Seqs : deferred[s] \in Nat /\ (IsParked(s) <=> deferred[s] > 0)
  BY DEF RecvType, IsParked
<1>5. \A s \in Seqs : IsParked(s)' <=> (IF s \in kept THEN deferred[s] + 1 ELSE deferred[s]) > 0
  BY <1>2 DEF IsParked
<1>6. \A s \in Seqs : (IsParked(s) \/ s \in kept) => IsParked(s)'
  BY <1>4, <1>5
<1>7. ASSUME NEW s \in S, ~IsParked(s)'
      PROVE  (lostFrames' /\ resub' /\ \E p \in Seqs : IsParked(p)')
  <2>1. s \notin kept
    BY <1>6, <1>7
  <2>2. lostFrames' /\ resub'
    BY <1>2, <2>1
  <2>3. \E p \in Seqs : IsParked(p)'
    BY <1>1, <1>3, <1>6, <1>7
  <2>4. QED
    BY <2>2, <2>3
<1>8. (lostFrames /\ resub) => (lostFrames' /\ resub')
  BY <1>2
<1>9. QED
  BY <1>6, <1>7, <1>8

-----------------------------------------------------------------------------
(* What is settled stays so. *)

\* A step of the relay, the UI or a command: the downlink only grows, the deferred queue
\* stays, and a wish to be given everything again may become a Subscribe.
LEMMA SettledKept ==
    ASSUME LinkType, LinkType', NEW s \in Seqs, NEW i, Settled(s, i),
           Given(s) => Given(s)' \/ AskedBehind(0, s)',
           s \in fanout => s \in fanout' \/ Brought("Frames", i - 1, s)',
           \A type, k : Brought(type, k, s) => Brought(type, k, s)',
           AskedBehind(0, s) => AskedBehind(0, s)',
           (lostFrames /\ resub) => (lostFrames' /\ resub') \/ Given(s)' \/ AskedBehind(0, s)',
           UNCHANGED <<deferred, snapRefused>>
    PROVE  Settled(s, i)'
<1>1. \A p : IsParked(p)' <=> IsParked(p)
  BY DEF IsParked
<1>2. QED
  BY <1>1 DEF Settled

\* Growth of the downlink, for all frames.
LEMMA SettledGrows ==
    ASSUME TypeOK, TypeOK', AllSettled, GivenGrows, Grown(down, down'), Grown(uplink, uplink'),
           \A i \in 1..Len(down') : i > Len(down) => down'[i].type \notin ReplayTypes,
           UNCHANGED <<head, subscribed, fanout, deferred, snapRefused, subRefused>>,
           lostFrames => lostFrames', resub => resub'
    PROVE  AllSettled'
<1> SUFFICES ASSUME subscribed', ~subRefused', NEW i \in 0..Len(down'), ReplayEnd(i)',
                    NEW s \in 1..head'
             PROVE  Settled(s, i)'
  BY DEF AllSettled
<1>1. i \in 0..Len(down) /\ ReplayEnd(i)
  BY DownGrows DEF TypeOK
<1>2. Settled(s, i)
  BY <1>1 DEF AllSettled
<1>3. s \in Seqs
  BY BoundsAssumption DEF Seqs, TypeOK, RelayType
<1>4. \A type, k : Brought(type, k, s) => Brought(type, k, s)'
  BY DownGrows DEF TypeOK
<1>5. AskedBehind(0, s) => AskedBehind(0, s)'
  BY AskedGrows DEF TypeOK
<1>6. Given(s) => Given(s)'
  BY <1>3 DEF GivenGrows
<1>7. QED
  BY <1>2, <1>3, <1>4, <1>5, <1>6, SettledKept DEF TypeOK

\* A step that takes the first message of the downlink.  What that message brings, and the
\* frames that are parked, are given, stay parked, or are refused and asked for.
TakenSettles(s, i) ==
    \/ Given(s)'
    \/ IsParked(s)'
    \/ lostFrames' /\ resub' /\ i <= 1 /\ \E p \in Seqs : IsParked(p)'

LEMMA SettledTaken ==
    ASSUME TypeOK, TypeOK', LinkShape, ReplaysWhole, AllSettled, GivenGrows,
           down # <<>>, down' = Tail(down), Grown(uplink, uplink'),
           UNCHANGED <<head, subscribed, fanout, subRefused>>,
           \A s \in Seqs : IsParked(s) => Given(s)' \/ IsParked(s)',
           \A s \in Seqs : \A i \in Nat :
              /\ Head(down).type = "Frames"
              /\ s \in Head(down).content
              /\ i <= 1
              => TakenSettles(s, i),
           \A s \in Head(down).content : Head(down).type = "Snapshot" =>
              Given(s)' \/ snapRefused',
           snapRefused /\ ~snapRefused' => Head(down).type \in {"Snapshot", "NoSnapshot"},
           lostFrames /\ resub /\ (Head(down).type = "SubscribedOk" => \E p \in Seqs : IsParked(p))
              => lostFrames' /\ resub'
    PROVE  AllSettled'
<1> SUFFICES ASSUME subscribed', ~subRefused', NEW k \in 0..Len(down'), ReplayEnd(k)',
                    NEW s \in 1..head'
             PROVE  Settled(s, k)'
  BY DEF AllSettled
<1> DEFINE i == Moved(k)
<1>0. /\ DOMAIN down = 1..Len(down) /\ Len(down) \in Nat \ {0}
      /\ Head(down) = down[1]
      /\ Len(down') \in Nat
  BY TailPlaces, Places DEF TypeOK, LinkType
<1>1. i \in 0..Len(down) /\ ReplayEnd(i)
  BY DownTaken DEF TypeOK
<1>2. Settled(s, i)
  BY <1>1 DEF AllSettled
<1>3. s \in Seqs
  BY BoundsAssumption DEF Seqs, TypeOK, RelayType
<1>4. k \in Int /\ i \in Int /\ (k < i \/ k = 0) /\ (k # 0 => i = k + 1)
  BY <1>0, <1>1 DEF Moved
<1>5. i = 1 => k = 0 /\ Head(down).type = "SubscribedOk"
  BY <1>0, <1>4 DEF Moved
<1>6. \A type : \A a \in Int, b \in Int : Brought(type, a, s) /\ (b < a \/ b <= 1) =>
         \/ Brought(type, b, s)'
         \/ a <= 1 /\ Head(down).type = type /\ s \in Head(down).content
  BY DownTaken DEF TypeOK
<1>7. Given(s) => Given(s)'
  BY <1>3 DEF GivenGrows
<1>8. CASE Given(s)
  BY <1>7, <1>8 DEF Settled
<1>9. CASE IsParked(s)
  <2>1. Given(s)' \/ IsParked(s)'
    BY <1>3, <1>9
  <2>2. QED
    BY <2>1 DEF Settled
<1>10. CASE s \in fanout
  BY <1>10 DEF Settled
<1>11. CASE Brought("Frames", i - 1, s)
  <2>1. Brought("Frames", k - 1, s)' \/
        (i - 1 <= 1 /\ Head(down).type = "Frames" /\ s \in Head(down).content)
    <3>1. i - 1 \in Int /\ k - 1 \in Int /\ (k - 1 < i - 1 \/ k - 1 <= 1)
      BY <1>4
    <3>2. QED
      BY <1>6, <1>11, <3>1
  <2>2. CASE Brought("Frames", k - 1, s)'
    BY <2>2 DEF Settled
  <2>3. CASE i - 1 <= 1 /\ Head(down).type = "Frames" /\ s \in Head(down).content
    <3>1. k \in Nat /\ k <= 1
      BY <1>0, <1>4, <2>3
    <3>2. TakenSettles(s, k)
      BY <1>3, <2>3, <3>1
    <3>3. QED
      BY <3>2 DEF TakenSettles, Settled
  <2>4. QED
    BY <2>1, <2>2, <2>3
<1>12. CASE Brought("Snapshot", i - 2, s)
  <2>1. Brought("Snapshot", k - 2, s)' \/
        (i - 2 <= 1 /\ Head(down).type = "Snapshot" /\ s \in Head(down).content)
    <3>1. i - 2 \in Int /\ k - 2 \in Int /\ (k - 2 < i - 2 \/ k - 2 <= 1)
      BY <1>4
    <3>2. QED
      BY <1>6, <1>12, <3>1
  <2>2. CASE Brought("Snapshot", k - 2, s)'
    BY <2>2 DEF Settled
  <2>3. CASE i - 2 <= 1 /\ Head(down).type = "Snapshot" /\ s \in Head(down).content
    <3>1. k <= 2
      BY <1>4, <2>3
    <3>2. Given(s)' \/ snapRefused'
      BY <2>3
    <3>3. QED
      BY <3>1, <3>2 DEF Settled
  <2>4. QED
    BY <2>1, <2>2, <2>3
<1>13. CASE AskedBehind(0, s)
  <2>1. AskedBehind(0, s)'
    BY <1>13, AskedGrows DEF TypeOK
  <2>2. QED
    BY <2>1 DEF Settled
<1>14. CASE i <= 2 /\ snapRefused
  <2>1. k <= 2
    BY <1>4, <1>14
  <2>2. CASE snapRefused'
    BY <2>1, <2>2 DEF Settled
  <2>3. CASE ~snapRefused'
    <3>1. down[1].type \in {"Snapshot", "NoSnapshot"} /\ 1 \in DOMAIN down
      BY <1>0, <1>14, <2>3
    <3>2. /\ 1 + 2 \in DOMAIN down
          /\ down[1 + 1].type = "Frames"
          /\ down[1 + 2].type = "SubscribedOk"
      BY <3>1 DEF ReplaysWhole
    <3>3. i \in {1, 2} \/ i = 0
      BY <1>1, <1>14
    <3>4. i # 0
      BY <1>1, <3>2 DEF ReplayEnd, NoReplay
    <3>5. down[i].type = "SubscribedOk"
      BY <1>1, <3>4 DEF ReplayEnd
    <3>6. QED
      BY <3>1, <3>2, <3>3, <3>4, <3>5
  <2>4. QED
    BY <2>2, <2>3
<1>15. CASE i <= 1 /\ lostFrames /\ resub /\ (i = 1 => \E p \in Seqs : IsParked(p))
  <2>1. k = 0
    BY <1>0, <1>1, <1>4, <1>5, <1>15
  <2>2. Head(down).type = "SubscribedOk" => i = 1
    BY <2>1 DEF Moved
  <2>3. lostFrames' /\ resub'
    BY <1>15, <2>2
  <2>4. QED
    BY <2>1, <2>3 DEF Settled
<1>16. QED
  BY <1>2, <1>8, <1>9, <1>10, <1>11, <1>12, <1>13, <1>14, <1>15 DEF Settled

-----------------------------------------------------------------------------
(* The steps. *)

LEMMA CompleteGrows ==
    ASSUME LinkType, LinkType', Complete(down, "Snapshot"), Grown(down, down'),
           \A i \in 1..Len(down') : i > Len(down) => down'[i].type # "Snapshot"
    PROVE  Complete(down', "Snapshot")
<1>1. /\ DOMAIN down = 1..Len(down) /\ DOMAIN down' = 1..Len(down')
      /\ Len(down) \in Nat /\ Len(down') \in Nat
  BY Places DEF LinkType
<1>2. \A i \in DOMAIN down' : i > Len(down) \/ (i \in DOMAIN down /\ down'[i] = down[i])
  BY <1>1 DEF Grown
<1>3. QED
  BY <1>1, <1>2 DEF Complete

\* Both directions of the connection get longer or stay; nothing is stored.
LEMMA GrowsKeeps ==
    ASSUME TypeOK, TypeOK', DeliveryInv, GivenGrows,
           Grown(down, down'), Grown(uplink, uplink'),
           \A i \in 1..Len(down') : i > Len(down) => down'[i].type \notin ReplayTypes,
           \A i \in 1..Len(uplink') : i > Len(uplink) /\ uplink'[i].type = "Subscribe" =>
              \A s \in 1..uplink'[i].covers : Given(s)' \/ shortened',
           connected \/ UNCHANGED <<uplink, down>>,
           UNCHANGED <<head, subscribed, fanout, connected, live, deferred, snapRefused,
                       subRefused, shortened>>,
           lostFrames => lostFrames', resub => resub',
           unacked' \subseteq replica',
           SnapHeld => SnapHeld',
           FrontierGiven => FrontierGiven'
    PROVE  DeliveryInv'
<1>1. LinkType /\ LinkType'
  BY DEF TypeOK
<1>2. /\ ReplaysWhole => ReplaysWhole'
      /\ NoReplay <=> NoReplay'
  BY <1>1, DownGrows
<1>3. LinkShape'
  BY <1>2 DEF DeliveryInv, LinkShape
<1>4. ASSUME ~shortened'
      PROVE  Content'
  <2>1. Content
    BY <1>4 DEF DeliveryInv
  <2>2. AllSettled'
    <3>1. AllSettled
      BY <2>1 DEF Content
    <3>2. QED
      BY <3>1, SettledGrows
  <2>3. AsksHeld'
    <3>1. \A i \in 1..Len(uplink') : i > Len(uplink) /\ uplink'[i].type = "Subscribe" =>
              \A s \in 1..uplink'[i].covers : Given(s)'
      BY <1>4
    <3>2. AsksHeld
      BY <2>1 DEF Content
    <3>3. QED
      BY <1>1, <3>1, <3>2, AsksGrowUp
  <2>4. Complete(down', "Snapshot")
    <3>1. \A i \in 1..Len(down') : i > Len(down) => down'[i].type # "Snapshot"
      BY DEF ReplayTypes
    <3>2. QED
      BY <1>1, <2>1, <3>1, CompleteGrows DEF Content
  <2>5. QED
    BY <2>1, <2>2, <2>3, <2>4 DEF Content
<1>5. QED
  BY <1>2, <1>3, <1>4 DEF DeliveryInv

LEMMA DownTypes ==
    ASSUME NEW type \in {"Frames", "Internal", "RequestSnapshot", "EpochBump"} \cup Answers
    PROVE  type \notin ReplayTypes
BY DEF ReplayTypes, Answers

\* One message is appended to the downlink, or none.
LEMMA OneDown ==
    ASSUME LinkType, NEW type, NEW covers, NEW content,
           Message(type, covers, content) \in DownMessages, type \notin ReplayTypes,
           down' = down \/ down' = Append(down, Message(type, covers, content))
    PROVE  /\ Grown(down, down')
           /\ \A i \in 1..Len(down') : i > Len(down) => down'[i].type \notin ReplayTypes
<1> DEFINE m == Message(type, covers, content)
<1>1. m.type = type /\ m \in DownMessages
  BY DEF Message
<1> HIDE DEF m
<1>2. Len(down) \in Nat /\ down \in Seq(DownMessages)
  BY Places DEF LinkType
<1>3. CASE down' = down
  BY <1>2, <1>3, SameGrown
<1>4. CASE down' = Append(down, m)
  <2>1. Grown(down, down') /\ Len(down') = Len(down) + 1 /\ down'[Len(down) + 1] = m
    BY <1>1, <1>2, <1>4, AppendGrown
  <2>2. \A i \in 1..Len(down') : i > Len(down) => i = Len(down) + 1
    BY <1>2, <2>1
  <2>3. QED
    BY <1>1, <2>1, <2>2
<1>5. QED
  BY <1>3, <1>4 DEF m

\* One message is appended to the uplink, or none.
LEMMA OneUp ==
    ASSUME LinkType, NEW m \in UpMessages, uplink' = uplink \/ uplink' = Append(uplink, m)
    PROVE  /\ Grown(uplink, uplink')
           /\ \A i \in 1..Len(uplink') : i > Len(uplink) => uplink'[i] = m
<1>1. Len(uplink) \in Nat /\ uplink \in Seq(UpMessages)
  BY Places DEF LinkType
<1>2. CASE uplink' = uplink
  BY <1>1, <1>2, SameGrown
<1>3. CASE uplink' = Append(uplink, m)
  <2>1. Grown(uplink, uplink') /\ Len(uplink') = Len(uplink) + 1 /\ uplink'[Len(uplink) + 1] = m
    BY <1>1, <1>3, AppendGrown
  <2>2. \A i \in 1..Len(uplink') : i > Len(uplink) => i = Len(uplink) + 1
    BY <1>1, <2>1
  <2>3. QED
    BY <2>1, <2>2
<1>4. QED
  BY <1>2, <1>3

LEMMA SameLink ==
    ASSUME LinkType
    PROVE  /\ UNCHANGED down =>
                 /\ Grown(down, down')
                 /\ \A i \in 1..Len(down') : i > Len(down) => down'[i].type \notin ReplayTypes
           /\ UNCHANGED uplink =>
                 /\ Grown(uplink, uplink')
                 /\ ~\E i \in 1..Len(uplink') : i > Len(uplink)
<1>1. /\ Len(uplink) \in Nat /\ uplink \in Seq(UpMessages)
      /\ Len(down) \in Nat /\ down \in Seq(DownMessages)
  BY Places DEF LinkType
<1>2. Grown(uplink, uplink) /\ Grown(down, down)
  BY <1>1, SameGrown
<1>3. QED
  BY <1>1, <1>2

LEMMA SubscribeIs ==
    ASSUME NEW have \in 0..MaxSeq
    PROVE  /\ Subscribe(have) \in UpMessages
           /\ Subscribe(have).type = "Subscribe"
           /\ Subscribe(have).covers = have
BY NothingType, UpType DEF Subscribe, Message

\* Up to the frontier, everything is given.
LEMMA BelowFrontier ==
    ASSUME TypeOK, FrontierGiven
    PROVE  \A s \in 1..haveSeq : Given(s)
<1> SUFFICES ASSUME NEW s \in 1..haveSeq PROVE Given(s)
  OBVIOUS
<1>1. s \in Seqs /\ Seen(s)
  BY BoundsAssumption DEF TypeOK, RecvType, Seqs, Seen
<1>2. QED
  BY <1>1 DEF FrontierGiven

LEMMA UnackedHeld ==
    ASSUME DeliveryInv, UNCHANGED <<unacked, replica>>
    PROVE  unacked' \subseteq replica'
BY DEF DeliveryInv

LEMMA AskForSnapshotDelivers ==
    ASSUME TypeOK, TypeOK', DeliveryInv, AskForSnapshot
    PROVE  DeliveryInv'
<1>1. GivenGrows
  BY GivenKept DEF AskForSnapshot, chanVars
<1>2. Message("RequestSnapshot", head, {}) \in DownMessages
  BY NothingType, DownType DEF TypeOK, RelayType
<1>3. /\ Grown(down, down')
      /\ \A i \in 1..Len(down') : i > Len(down) => down'[i].type \notin ReplayTypes
  BY <1>2, DownTypes, OneDown DEF AskForSnapshot, TypeOK
<1>4. Grown(uplink, uplink') /\ ~\E i \in 1..Len(uplink') : i > Len(uplink)
  BY SameLink DEF AskForSnapshot, TypeOK
<1>5. FrontierGiven => FrontierGiven'
  BY <1>1, FrontierStays DEF AskForSnapshot, recvVars
<1>6. SnapHeld => SnapHeld'
  BY DEF AskForSnapshot, SnapHeld, relayVars
<1>7. connected
  BY DEF DeliveryInv, LinkShape, AskForSnapshot
<1>8. unacked' \subseteq replica'
  BY UnackedHeld DEF AskForSnapshot
<1>9. QED
  BY <1>1, <1>3, <1>4, <1>5, <1>6, <1>7, <1>8, GrowsKeeps
    DEF AskForSnapshot, relayVars, recvVars, histVars

LEMMA OtherSnapshotDelivers ==
    ASSUME TypeOK, TypeOK', DeliveryInv, NEW covers \in Seqs, NEW hidden, OtherSnapshot(covers, hidden)
    PROVE  DeliveryInv'
<1>1. GivenGrows
  BY GivenKept DEF OtherSnapshot, chanVars
<1>2. UNCHANGED <<uplink, down>>
  BY DEF OtherSnapshot, linkVars
<1>3. /\ Grown(down, down')
      /\ \A i \in 1..Len(down') : i > Len(down) => down'[i].type \notin ReplayTypes
  BY <1>2, SameLink DEF TypeOK
<1>4. Grown(uplink, uplink') /\ ~\E i \in 1..Len(uplink') : i > Len(uplink)
  BY <1>2, SameLink DEF TypeOK
<1>5. FrontierGiven => FrontierGiven'
  BY <1>1, FrontierStays DEF OtherSnapshot, recvVars
<1>6. SnapHeld'
  BY DEF OtherSnapshot, SnapHeld
<1>8. unacked' \subseteq replica'
  BY UnackedHeld DEF OtherSnapshot
<1>9. QED
  BY <1>1, <1>2, <1>3, <1>4, <1>5, <1>6, <1>8, GrowsKeeps
    DEF OtherSnapshot, linkVars, recvVars, histVars

LEMMA RetrySubscriptionDelivers ==
    ASSUME TypeOK, TypeOK', DeliveryInv, RetrySubscription
    PROVE  DeliveryInv'
<1> DEFINE m == Subscribe(haveSeq)
<1>1. GivenGrows
  BY GivenKept DEF RetrySubscription, chanVars
<1>2. m \in UpMessages /\ m.type = "Subscribe" /\ m.covers = haveSeq
  BY SubscribeIs DEF TypeOK, RecvType
<1>3. uplink' = uplink \/ uplink' = Append(uplink, m)
  BY DEF RetrySubscription
<1> HIDE DEF m
<1>4. Grown(uplink, uplink') /\ \A i \in 1..Len(uplink') : i > Len(uplink) => uplink'[i] = m
  BY <1>2, <1>3, OneUp DEF TypeOK
<1>5. /\ Grown(down, down')
      /\ \A i \in 1..Len(down') : i > Len(down) => down'[i].type \notin ReplayTypes
  BY SameLink DEF RetrySubscription, TypeOK
<1>6. FrontierGiven => FrontierGiven'
  BY <1>1, FrontierStays DEF RetrySubscription, recvVars
<1>7. LinkShape' /\ ReplaysWhole' /\ unacked' \subseteq replica'
  BY DEF RetrySubscription, DeliveryInv, LinkShape, ReplaysWhole, NoReplay, relayVars, recvVars
<1>8. ASSUME ~shortened'
      PROVE  Content'
  <2>1. Content
    BY <1>8 DEF DeliveryInv, RetrySubscription, histVars
  <2>2. \A s \in 1..haveSeq : Given(s)'
    <3>1. \A s \in 1..haveSeq : Given(s) /\ s \in Seqs
      BY <2>1, BelowFrontier, BoundsAssumption DEF Content, TypeOK, RecvType, Seqs
    <3>2. QED
      BY <1>1, <3>1 DEF GivenGrows
  <2>3. AsksHeld'
    <3>1. \A i \in 1..Len(uplink') : i > Len(uplink) /\ uplink'[i].type = "Subscribe" =>
              \A s \in 1..uplink'[i].covers : Given(s)'
      BY <1>2, <1>4, <2>2
    <3>2. QED
      BY <1>1, <1>4, <2>1, <3>1, AsksGrowUp DEF Content, TypeOK
  <2>4. ASSUME lostFrames, resub
        PROVE  uplink' = Append(uplink, m)
    BY <2>4 DEF RetrySubscription, m
  <2>5. ASSUME NEW s \in Seqs, lostFrames, resub
        PROVE  Given(s)' \/ AskedBehind(0, s)'
    <3>1. CASE s <= haveSeq
      <4>1. s \in 1..haveSeq
        BY <3>1 DEF Seqs, TypeOK, RecvType
      <4>2. QED
        BY <2>2, <4>1
    <3>2. CASE ~(s <= haveSeq)
      <4>1. Len(uplink) + 1 \in DOMAIN uplink' /\ uplink'[Len(uplink) + 1] = m
            /\ Len(uplink) + 1 > 0
        BY <1>2, <2>4, <2>5, AppendPlaces DEF TypeOK, LinkType
      <4>2. haveSeq < s
        BY <3>2 DEF Seqs, TypeOK, RecvType
      <4>3. QED
        BY <1>2, <4>1, <4>2 DEF AskedBehind
    <3>3. QED
      BY <3>1, <3>2
  <2>6. AllSettled'
    <3> SUFFICES ASSUME subscribed', ~subRefused', NEW i \in 0..Len(down'), ReplayEnd(i)',
                        NEW s \in 1..head'
                 PROVE  Settled(s, i)'
      BY DEF AllSettled
    <3>1. UNCHANGED <<subscribed, subRefused, down, head, fanout, deferred, snapRefused>>
      BY DEF RetrySubscription, relayVars, recvVars, histVars
    <3>2. Settled(s, i)
      BY <2>1, <3>1 DEF Content, AllSettled, ReplayEnd, NoReplay
    <3>3. s \in Seqs
      BY <3>1, BoundsAssumption DEF Seqs, TypeOK, RelayType
    <3>4. AskedBehind(0, s) => AskedBehind(0, s)'
      BY <1>4, AskedGrows DEF TypeOK
    <3>5. \A type, k : Brought(type, k, s) => Brought(type, k, s)'
      BY <3>1 DEF Brought
    <3>6. Given(s) => Given(s)'
      BY <1>1, <3>3 DEF GivenGrows
    <3>7. lostFrames /\ resub => Given(s)' \/ AskedBehind(0, s)'
      BY <2>5, <3>3
    <3>8. QED
      BY <3>1, <3>2, <3>3, <3>4, <3>5, <3>6, <3>7, SettledKept DEF TypeOK
  <2>7. SnapHeld' /\ Complete(down', "Snapshot")
    BY <2>1 DEF Content, RetrySubscription, SnapHeld, relayVars
  <2>8. QED
    BY <1>6, <2>1, <2>3, <2>6, <2>7 DEF Content
<1>9. QED
  BY <1>7, <1>8 DEF DeliveryInv

LEMMA RecvAckDelivers ==
    ASSUME TypeOK, TypeOK', DeliveryInv, NEW s \in Seqs, RecvAck(s)
    PROVE  DeliveryInv'
<1>1. NoteSeqs({s}) /\ {s} \in SUBSET Seqs /\ AfterSeqAdvance(<<>>, requested) /\ s \in unacked
  BY DEF RecvAck
<1>2. AfterSeqAdvance(BytesOf({}), requested) /\ {} \in SUBSET Seqs
  BY <1>1 DEF BytesOf
<1>3. haveSeq' \in 0..MaxSeq
  BY DEF TypeOK, RecvType
<1>4. UNCHANGED <<replica, cmds>>
  BY DEF RecvAck
<1>5. GivenGrows
  BY <1>2, <1>3, <1>4, AdvanceGives DEF TypeOK
<1>6. Given(s)'
  BY <1>1, <1>4 DEF DeliveryInv, Given
<1>7. FrontierGiven => FrontierGiven'
  BY <1>1, <1>5, <1>6, FrontierNotes DEF TypeOK
<1>8. UNCHANGED <<uplink, down>>
  BY DEF RecvAck, linkVars
<1>9. /\ Grown(down, down')
      /\ \A i \in 1..Len(down') : i > Len(down) => down'[i].type \notin ReplayTypes
  BY <1>8, SameLink DEF TypeOK
<1>10. Grown(uplink, uplink') /\ ~\E i \in 1..Len(uplink') : i > Len(uplink)
  BY <1>8, SameLink DEF TypeOK
<1>11. unacked' \subseteq replica'
  BY DEF RecvAck, DeliveryInv
<1>12. UNCHANGED snap
  BY DEF RecvAck, relayVars
<1>13. SnapHeld => SnapHeld'
  BY <1>12 DEF SnapHeld
<1>14. UNCHANGED <<head, subscribed, fanout, connected, live, deferred, snapRefused,
                   subRefused, shortened, lostFrames, resub>>
  BY DEF RecvAck, relayVars, linkVars, histVars
<1>15. QED
  BY <1>5, <1>7, <1>8, <1>9, <1>10, <1>11, <1>13, <1>14, GrowsKeeps

LEMMA ProvideSnapshotDelivers ==
    ASSUME TypeOK, TypeOK', DeliveryInv, NEW sealable, ProvideSnapshot(sealable)
    PROVE  DeliveryInv'
<1> DEFINE m == Message("PutSnapshot", Head(cmds).covers, Head(cmds).content)
<1>1. cmds' = Tail(cmds) /\ cmds # <<>> /\ Head(cmds).type = "ProvideSnapshot"
  BY DEF ProvideSnapshot, TakeCmd
<1>2. ResyncDue => ResyncDue'
  <2>1. /\ DOMAIN cmds = 1..Len(cmds) /\ Len(cmds) \in Nat \ {0} /\ Head(cmds) = cmds[1]
        /\ DOMAIN cmds' = 1..(Len(cmds) - 1)
        /\ \A j \in 1..(Len(cmds) - 1) : cmds'[j] = cmds[j + 1]
    BY <1>1, TailPlaces DEF TypeOK, ChanType
  <2>2. lagged' = lagged
    BY DEF ProvideSnapshot
  <2>3. ASSUME NEW i \in DOMAIN cmds, cmds[i].type = "Resync"
        PROVE  \E j \in DOMAIN cmds' : cmds'[j].type = "Resync"
    <3>1. i # 1
      BY <1>1, <2>1, <2>3
    <3>2. i - 1 \in DOMAIN cmds' /\ cmds'[i - 1] = cmds[i]
      BY <2>1, <3>1
    <3>3. QED
      BY <2>3, <3>2
  <2>4. QED
    BY <2>2, <2>3 DEF ResyncDue
<1>3. GivenGrows
  BY <1>2 DEF GivenGrows, Given, ProvideSnapshot
<1>4. m \in UpMessages /\ m.type = "PutSnapshot"
  <2>1. Head(cmds).covers \in 0..MaxSeq /\ Head(cmds).content \in SUBSET Seqs
    BY TakeCmdType DEF ProvideSnapshot, TypeOK
  <2>2. QED
    BY <2>1, NothingType, UpType DEF Message
<1>5. uplink' = uplink \/ (connected /\ uplink' = Append(uplink, m))
  BY DEF ProvideSnapshot
<1> HIDE DEF m
<1>6. Grown(uplink, uplink') /\ \A i \in 1..Len(uplink') : i > Len(uplink) => uplink'[i] = m
  BY <1>4, <1>5, OneUp DEF TypeOK
<1>7. UNCHANGED down
  BY DEF ProvideSnapshot
<1>8. /\ Grown(down, down')
      /\ \A i \in 1..Len(down') : i > Len(down) => down'[i].type \notin ReplayTypes
  BY <1>7, SameLink DEF TypeOK
<1>9. FrontierGiven => FrontierGiven'
  BY <1>3, FrontierStays DEF ProvideSnapshot, recvVars
<1>10. unacked' \subseteq replica'
  BY UnackedHeld DEF ProvideSnapshot
<1>11. UNCHANGED <<head, snap, subscribed, fanout, connected, live, deferred, snapRefused,
                   subRefused, shortened, lostFrames, resub>>
  BY DEF ProvideSnapshot, relayVars, recvVars, histVars
<1>12. SnapHeld => SnapHeld'
  BY <1>11 DEF SnapHeld
<1>13. \A i \in 1..Len(uplink') : i > Len(uplink) => uplink'[i].type # "Subscribe"
  BY <1>4, <1>6
<1>14. QED
  BY <1>3, <1>5, <1>6, <1>7, <1>8, <1>9, <1>10, <1>11, <1>12, <1>13, GrowsKeeps

\* The UI takes an event, or learns that some are lost.
LEMMA UiDelivers ==
    ASSUME TypeOK, TypeOK', DeliveryInv, GivenGrows, replica \subseteq replica',
           UNCHANGED <<relayVars, linkVars, keyVars, recvVars, snapVars, resub, unacked, histVars>>
    PROVE  DeliveryInv'
<1>1. UNCHANGED <<uplink, down>>
  BY DEF linkVars
<1>2. /\ Grown(down, down')
      /\ \A i \in 1..Len(down') : i > Len(down) => down'[i].type \notin ReplayTypes
  BY <1>1, SameLink DEF TypeOK
<1>3. Grown(uplink, uplink') /\ ~\E i \in 1..Len(uplink') : i > Len(uplink)
  BY <1>1, SameLink DEF TypeOK
<1>4. FrontierGiven => FrontierGiven'
  BY FrontierStays DEF recvVars
<1>5. unacked' \subseteq replica'
  BY DEF DeliveryInv
<1>6. UNCHANGED <<head, snap, subscribed, fanout, connected, live, deferred, snapRefused,
                   subRefused, shortened, lostFrames, resub>>
  BY DEF relayVars, linkVars, recvVars, histVars
<1>7. SnapHeld => SnapHeld'
  BY <1>6 DEF SnapHeld
<1>8. QED
  BY <1>1, <1>2, <1>3, <1>4, <1>5, <1>6, <1>7, GrowsKeeps

LEMMA UiBytesDelivers ==
    ASSUME TypeOK, TypeOK', DeliveryInv, UiBytes
    PROVE  DeliveryInv'
<1>1. events \in Seq(EventMessages) /\ events # <<>> /\ events' = Tail(events)
      /\ replica' = replica \cup Head(events).content /\ Head(events).type = "DocBytes"
  BY DEF UiBytes, TypeOK, ChanType
<1>2. Sent(events) \subseteq Sent(events') \cup Head(events).content
  BY <1>1, SentTail DEF Bytes
<1>3. GivenGrows
  BY <1>1, <1>2 DEF UiBytes, GivenGrows, Given, ResyncDue
<1>4. QED
  BY <1>1, <1>3, UiDelivers DEF UiBytes

LEMMA UiSnapshotNeededDelivers ==
    ASSUME TypeOK, TypeOK', DeliveryInv, UiSnapshotNeeded
    PROVE  DeliveryInv'
<1> DEFINE m == Message("ProvideSnapshot", Head(events).covers, replica)
<1>1. events \in Seq(EventMessages) /\ events # <<>> /\ events' = Tail(events)
      /\ Head(events).type = "SnapshotNeeded" /\ replica' = replica /\ lagged' = lagged
  BY DEF UiSnapshotNeeded, TypeOK, ChanType
<1>2. Sent(events) \subseteq Sent(events')
  BY <1>1, SentTail DEF Bytes
<1>3. ResyncDue => ResyncDue'
  <2>1. m \in CmdMessages
    <3>1. Head(events).covers \in 0..MaxSeq
      BY <1>1, HeadType, MessageParts DEF EventMessages
    <3>2. QED
      BY <3>1, NothingType, CmdType DEF TypeOK, UiType
  <2>2. cmds' = Append(cmds, m) /\ cmds \in Seq(CmdMessages)
    BY DEF UiSnapshotNeeded, TypeOK, ChanType
  <2> HIDE DEF m
  <2>3. \A i \in DOMAIN cmds : i \in DOMAIN cmds' /\ cmds'[i] = cmds[i]
    BY <2>1, <2>2, AppendPlaces
  <2>4. QED
    BY <1>1, <2>3 DEF ResyncDue
<1>4. GivenGrows
  BY <1>1, <1>2, <1>3 DEF GivenGrows, Given
<1>5. QED
  BY <1>1, <1>4, UiDelivers DEF UiSnapshotNeeded

LEMMA UiLaggedDelivers ==
    ASSUME TypeOK, TypeOK', DeliveryInv, UiLagged
    PROVE  DeliveryInv'
<1> DEFINE m == Message("Resync", 0, {})
<1>1. m \in CmdMessages /\ m.type = "Resync"
  BY BoundsAssumption, NothingType, CmdType DEF Message
<1>2. cmds' = Append(cmds, m) /\ cmds \in Seq(CmdMessages)
  BY DEF UiLagged, TypeOK, ChanType
<1> HIDE DEF m
<1>3. Len(cmds) + 1 \in DOMAIN cmds' /\ cmds'[Len(cmds) + 1] = m
  BY <1>1, <1>2, AppendPlaces
<1>4. ResyncDue'
  BY <1>1, <1>3 DEF ResyncDue
<1>5. GivenGrows
  BY <1>4 DEF GivenGrows, Given
<1>6. QED
  BY <1>5, UiDelivers DEF UiLagged

LEMMA StutterDelivers ==
    ASSUME TypeOK, TypeOK', DeliveryInv, UNCHANGED vars
    PROVE  DeliveryInv'
<1>1. GivenGrows
  BY GivenKept DEF vars, chanVars
<1>2. QED
  BY <1>1, UiDelivers DEF vars

\* The relay stores a frame or sends one of those that wait: what was settled stays so.
LEMMA RelaySettles ==
    ASSUME TypeOK, TypeOK', AllSettled, Grown(down, down'), UNCHANGED uplink,
           \A i \in 1..Len(down') : i > Len(down) => down'[i].type \notin ReplayTypes,
           UNCHANGED <<subscribed, deferred, snapRefused, subRefused, lostFrames, resub>>,
           GivenGrows,
           \A s \in fanout : \A i \in 0..Len(down) : s \in fanout' \/ Brought("Frames", i - 1, s)',
           \A s \in 1..head' : s \in 1..head \/ s \in fanout' \/ Given(s)' \/ ~subscribed
    PROVE  AllSettled'
<1> SUFFICES ASSUME subscribed', ~subRefused', NEW i \in 0..Len(down'), ReplayEnd(i)',
                    NEW s \in 1..head'
             PROVE  Settled(s, i)'
  BY DEF AllSettled
<1>1. i \in 0..Len(down) /\ ReplayEnd(i)
  BY DownGrows DEF TypeOK
<1>2. CASE s \in 1..head
  <2>1. Settled(s, i)
    BY <1>1, <1>2 DEF AllSettled
  <2>2. s \in Seqs
    BY <1>2, BoundsAssumption DEF Seqs, TypeOK, RelayType
  <2>3. \A type, k : Brought(type, k, s) => Brought(type, k, s)'
    BY DownGrows DEF TypeOK
  <2>4. AskedBehind(0, s) => AskedBehind(0, s)'
    BY DEF AskedBehind
  <2>5. Given(s) => Given(s)'
    BY <2>2 DEF GivenGrows
  <2>6. s \in fanout => s \in fanout' \/ Brought("Frames", i - 1, s)'
    BY <1>1
  <2>7. QED
    BY <2>1, <2>2, <2>3, <2>4, <2>5, <2>6, SettledKept DEF TypeOK
<1>3. CASE s \notin 1..head
  BY <1>3 DEF Settled
<1>4. QED
  BY <1>2, <1>3

LEMMA StoreOtherDelivers ==
    ASSUME TypeOK, TypeOK', DeliveryInv, NEW gaps, StoreOther(gaps)
    PROVE  DeliveryInv'
<1>1. GivenGrows
  BY GivenKept DEF StoreOther, chanVars
<1>2. Message("EpochBump", 0, {}) \in DownMessages
  BY BoundsAssumption, NothingType, DownType
<1>3. down' = down \/ (connected /\ down' = Append(down, Message("EpochBump", 0, {})))
  BY DEF StoreOther
<1>4. /\ Grown(down, down')
      /\ \A i \in 1..Len(down') : i > Len(down) => down'[i].type \notin ReplayTypes
  BY <1>2, <1>3, DownTypes, OneDown DEF TypeOK
<1>5. UNCHANGED <<snap, subscribed, connected, uplink, live, deferred, snapRefused, subRefused,
                  lostFrames, resub, haveSeq, ahead, shortened, unacked, replica>>
  BY DEF StoreOther, recvVars, histVars
<1>6. /\ head' = head + 1 /\ head \in Nat
      /\ fanout' = IF subscribed THEN fanout \cup {head + 1} ELSE fanout
  BY BoundsAssumption DEF StoreOther, TypeOK, RelayType
<1>7. (ReplaysWhole => ReplaysWhole') /\ (NoReplay <=> NoReplay')
  BY <1>4, DownGrows DEF TypeOK
<1>8. LinkShape' /\ ReplaysWhole' /\ unacked' \subseteq replica'
  BY <1>3, <1>5, <1>6, <1>7 DEF DeliveryInv, LinkShape
<1>9. ASSUME ~shortened'
      PROVE  Content'
  <2>1. Content
    BY <1>5, <1>9 DEF DeliveryInv
  <2>2. AllSettled'
    <3>1. \A s \in 1..head' : s \in 1..head \/ s \in fanout' \/ ~subscribed
      BY <1>6
    <3>2. QED
      BY <1>1, <1>4, <1>5, <1>6, <2>1, <3>1, RelaySettles DEF Content
  <2>3. AsksHeld'
    <3>1. Grown(uplink, uplink') /\ ~\E i \in 1..Len(uplink') : i > Len(uplink)
      BY <1>5, SameLink DEF TypeOK
    <3>2. QED
      BY <1>1, <2>1, <3>1, AsksGrowUp DEF Content, TypeOK
  <2>4. Complete(down', "Snapshot")
    <3>1. \A i \in 1..Len(down') : i > Len(down) => down'[i].type # "Snapshot"
      BY <1>4 DEF ReplayTypes
    <3>2. QED
      BY <1>4, <2>1, <3>1, CompleteGrows DEF Content, TypeOK
  <2>5. FrontierGiven' /\ SnapHeld'
    BY <1>1, <1>5, <2>1, FrontierStays DEF Content, SnapHeld
  <2>6. QED
    BY <2>2, <2>3, <2>4, <2>5 DEF Content
<1>10. QED
  BY <1>8, <1>9 DEF DeliveryInv

LEMMA StoreOwnDelivers ==
    ASSUME TypeOK, TypeOK', DeliveryInv, StoreOwn
    PROVE  DeliveryInv'
<1>1. UNCHANGED <<snap, subscribed, fanout, connected, uplink, down, live, deferred, snapRefused,
                  subRefused, lostFrames, resub, haveSeq, ahead, shortened, events, lagged, cmds>>
  BY DEF StoreOwn, linkVars, recvVars, histVars, chanVars
<1>2. GivenGrows
  BY <1>1 DEF StoreOwn, GivenGrows, Given, ResyncDue
<1>3. /\ Grown(down, down')
      /\ \A i \in 1..Len(down') : i > Len(down) => down'[i].type \notin ReplayTypes
  BY <1>1, SameLink DEF TypeOK
<1>4. head' = head + 1 /\ head \in Nat /\ replica' = replica \cup {head + 1}
      /\ unacked' = unacked \cup {head + 1}
  BY BoundsAssumption DEF StoreOwn, TypeOK, RelayType
<1>5. LinkShape' /\ ReplaysWhole' /\ unacked' \subseteq replica'
  BY <1>1, <1>4 DEF DeliveryInv, LinkShape, ReplaysWhole, NoReplay
<1>6. ASSUME ~shortened'
      PROVE  Content'
  <2>1. Content
    BY <1>1, <1>6 DEF DeliveryInv
  <2>2. AllSettled'
    <3>1. \A s \in 1..head' : s \in 1..head \/ Given(s)'
      BY <1>4 DEF Given
    <3>2. QED
      BY <1>1, <1>2, <1>3, <2>1, <3>1, RelaySettles DEF Content
  <2>3. AsksHeld'
    <3>1. Grown(uplink, uplink') /\ ~\E i \in 1..Len(uplink') : i > Len(uplink)
      BY <1>1, SameLink DEF TypeOK
    <3>2. QED
      BY <1>2, <2>1, <3>1, AsksGrowUp DEF Content, TypeOK
  <2>4. Complete(down', "Snapshot") /\ FrontierGiven' /\ SnapHeld'
    BY <1>1, <1>2, <2>1, FrontierStays DEF Content, SnapHeld
  <2>5. QED
    BY <2>2, <2>3, <2>4 DEF Content
<1>7. QED
  BY <1>5, <1>6 DEF DeliveryInv

LEMMA FanOutDelivers ==
    ASSUME TypeOK, TypeOK', DeliveryInv, NEW f \in Seqs, FanOut(f)
    PROVE  DeliveryInv'
<1> DEFINE m == Message("Frames", 0, {f})
<1>1. UNCHANGED <<head, snap, subscribed, connected, uplink, live, deferred, snapRefused, subRefused,
                  lostFrames, resub, haveSeq, ahead, shortened, unacked, replica>>
      /\ fanout' = fanout \ {f} /\ f \in fanout /\ down' = Append(down, m)
  BY DEF FanOut, recvVars, histVars
<1>2. GivenGrows
  BY GivenKept DEF FanOut, chanVars
<1>3. Message("Frames", 0, {f}) \in DownMessages
  BY BoundsAssumption, NothingType, DownType
<1>4. /\ Grown(down, down')
      /\ \A i \in 1..Len(down') : i > Len(down) => down'[i].type \notin ReplayTypes
  BY <1>1, <1>3, DownTypes, OneDown DEF TypeOK
<1>5. connected
  BY <1>1 DEF DeliveryInv, LinkShape
<1>6. (ReplaysWhole => ReplaysWhole') /\ (NoReplay <=> NoReplay')
  BY <1>4, DownGrows DEF TypeOK
<1>7. LinkShape' /\ ReplaysWhole' /\ unacked' \subseteq replica'
  BY <1>1, <1>5, <1>6 DEF DeliveryInv, LinkShape
<1>8. \A s \in fanout : \A i \in 0..Len(down) : s \in fanout' \/ Brought("Frames", i - 1, s)'
  <2> SUFFICES ASSUME NEW i \in 0..Len(down) PROVE Brought("Frames", i - 1, f)'
    BY <1>1
  <2>1. m \in DownMessages /\ m.type = "Frames" /\ f \in m.content
    BY <1>3 DEF Message
  <2> HIDE DEF m
  <2>2. Len(down) + 1 \in DOMAIN down' /\ down'[Len(down) + 1] = m /\ Len(down) \in Nat
    BY <1>1, <2>1, AppendPlaces DEF TypeOK, LinkType
  <2>3. Len(down) + 1 >= i - 1
    BY <2>2
  <2>4. QED
    BY <2>1, <2>2, <2>3 DEF Brought
<1>9. ASSUME ~shortened'
      PROVE  Content'
  <2>1. Content
    BY <1>1, <1>9 DEF DeliveryInv
  <2>2. AllSettled'
    BY <1>1, <1>2, <1>4, <1>8, <2>1, RelaySettles DEF Content
  <2>3. AsksHeld'
    <3>1. Grown(uplink, uplink') /\ ~\E i \in 1..Len(uplink') : i > Len(uplink)
      BY <1>1, SameLink DEF TypeOK
    <3>2. QED
      BY <1>2, <2>1, <3>1, AsksGrowUp DEF Content, TypeOK
  <2>4. Complete(down', "Snapshot")
    <3>1. \A i \in 1..Len(down') : i > Len(down) => down'[i].type # "Snapshot"
      BY <1>4 DEF ReplayTypes
    <3>2. QED
      BY <1>4, <2>1, <3>1, CompleteGrows DEF Content, TypeOK
  <2>5. FrontierGiven' /\ SnapHeld'
    BY <1>1, <1>2, <2>1, FrontierStays DEF Content, SnapHeld
  <2>6. QED
    BY <2>2, <2>3, <2>4, <2>5 DEF Content
<1>10. QED
  BY <1>7, <1>9 DEF DeliveryInv

\* The relay takes a message that is no Subscribe, and may answer it.
LEMMA RelayTakesDelivers ==
    ASSUME TypeOK, TypeOK', DeliveryInv, uplink # <<>>, Head(uplink).type # "Subscribe",
           uplink' = Tail(uplink), Grown(down, down'),
           \A i \in 1..Len(down') : i > Len(down) => down'[i].type \notin ReplayTypes,
           UNCHANGED <<head, subscribed, fanout, connected, live, deferred, snapRefused, subRefused,
                       lostFrames, resub, haveSeq, ahead, unacked, replica, events, lagged, cmds>>,
           shortened => shortened',
           SnapHeld => SnapHeld' \/ shortened'
    PROVE  DeliveryInv'
<1>1. GivenGrows
  BY GivenKept
<1>2. connected
  BY DEF DeliveryInv, LinkShape
<1>3. (ReplaysWhole => ReplaysWhole') /\ (NoReplay <=> NoReplay')
  BY DownGrows DEF TypeOK
<1>4. LinkShape' /\ ReplaysWhole' /\ unacked' \subseteq replica'
  BY <1>2, <1>3 DEF DeliveryInv, LinkShape
<1>5. ASSUME ~shortened'
      PROVE  Content'
  <2>1. Content
    BY <1>5 DEF DeliveryInv
  <2>2. AllSettled'
    <3> SUFFICES ASSUME subscribed', ~subRefused', NEW i \in 0..Len(down'), ReplayEnd(i)',
                        NEW s \in 1..head'
                 PROVE  Settled(s, i)'
      BY DEF AllSettled
    <3>1. i \in 0..Len(down) /\ ReplayEnd(i)
      BY DownGrows DEF TypeOK
    <3>2. Settled(s, i)
      BY <2>1, <3>1 DEF Content, AllSettled
    <3>3. s \in Seqs
      BY BoundsAssumption DEF Seqs, TypeOK, RelayType
    <3>4. \A type, k : Brought(type, k, s) => Brought(type, k, s)'
      BY DownGrows DEF TypeOK
    <3>5. AskedBehind(0, s) => AskedBehind(0, s)'
      <4>1. 0 \in Nat
        OBVIOUS
      <4>2. QED
        BY <4>1, AskedTaken DEF TypeOK
    <3>6. Given(s) => Given(s)'
      BY <1>1, <3>3 DEF GivenGrows
    <3>7. QED
      BY <3>2, <3>3, <3>4, <3>5, <3>6, SettledKept DEF TypeOK
  <2>3. AsksHeld'
    BY <1>1, <2>1, AsksTaken DEF Content, TypeOK
  <2>4. Complete(down', "Snapshot")
    <3>1. \A i \in 1..Len(down') : i > Len(down) => down'[i].type # "Snapshot"
      BY DEF ReplayTypes
    <3>2. QED
      BY <2>1, <3>1, CompleteGrows DEF Content, TypeOK
  <2>5. FrontierGiven' /\ SnapHeld'
    BY <1>1, <1>5, <2>1, FrontierStays DEF Content
  <2>6. QED
    BY <2>2, <2>3, <2>4, <2>5 DEF Content
<1>6. QED
  BY <1>4, <1>5 DEF DeliveryInv

LEMMA ServeSnapshotDelivers ==
    ASSUME TypeOK, TypeOK', DeliveryInv, ServeSnapshot
    PROVE  DeliveryInv'
<1>1. uplink # <<>> /\ Head(uplink).type # "Subscribe" /\ uplink' = Tail(uplink)
  BY DEF ServeSnapshot, RelayTake
<1>2. UNCHANGED <<down, head, subscribed, fanout, connected, live, deferred, snapRefused, subRefused,
                  lostFrames, resub, haveSeq, ahead, unacked, replica, events, lagged, cmds>>
  BY DEF ServeSnapshot, recvVars, chanVars
<1>3. /\ Grown(down, down')
      /\ \A i \in 1..Len(down') : i > Len(down) => down'[i].type \notin ReplayTypes
  BY <1>2, SameLink DEF TypeOK
<1>4. shortened => shortened'
  BY DEF ServeSnapshot
<1>5. SnapHeld => SnapHeld' \/ shortened'
  BY DEF ServeSnapshot, SnapHeld
<1>6. QED
  BY <1>1, <1>2, <1>3, <1>4, <1>5, RelayTakesDelivers

LEMMA ServeFetchDelivers ==
    ASSUME TypeOK, TypeOK', DeliveryInv, NEW answer \in Answers, ServeFetch(answer)
    PROVE  DeliveryInv'
<1>1. uplink # <<>> /\ Head(uplink).type # "Subscribe" /\ uplink' = Tail(uplink)
  BY DEF ServeFetch, RelayTake, Answers
<1>2. UNCHANGED <<snap, head, subscribed, fanout, connected, live, deferred, snapRefused, subRefused,
                  lostFrames, resub, haveSeq, ahead, unacked, replica, events, lagged, cmds, shortened>>
  BY DEF ServeFetch, recvVars, chanVars, relayVars, histVars
<1>3. Message(answer, 0, 1..head) \in DownMessages
  <2>1. 1..head \in SUBSET Seqs
    BY BoundsAssumption DEF Seqs, TypeOK, RelayType
  <2>2. 0 \in 0..MaxSeq
    BY BoundsAssumption
  <2>3. QED
    BY <2>1, <2>2, DownType
<1>4. /\ Grown(down, down')
      /\ \A i \in 1..Len(down') : i > Len(down) => down'[i].type \notin ReplayTypes
  BY <1>3, DownTypes, OneDown DEF TypeOK, ServeFetch
<1>5. SnapHeld => SnapHeld'
  BY <1>2 DEF SnapHeld
<1>6. QED
  BY <1>1, <1>2, <1>4, <1>5, RelayTakesDelivers

LEMMA FailSubscribeDelivers ==
    ASSUME TypeOK, TypeOK', DeliveryInv, FailSubscribe
    PROVE  DeliveryInv'
<1>1. uplink # <<>> /\ uplink' = Tail(uplink)
  BY DEF FailSubscribe, RelayTake
<1>2. UNCHANGED <<snap, head, subscribed, fanout, connected, live, deferred, snapRefused,
                  lostFrames, resub, haveSeq, ahead, unacked, replica, events, lagged, cmds, shortened>>
      /\ subRefused'
  BY DEF FailSubscribe, recvVars, chanVars, relayVars
<1>3. GivenGrows
  BY <1>2, GivenKept
<1>4. Message("Internal", 0, {}) \in DownMessages
  BY BoundsAssumption, NothingType, DownType
<1>5. /\ Grown(down, down')
      /\ \A i \in 1..Len(down') : i > Len(down) => down'[i].type \notin ReplayTypes
  BY <1>4, DownTypes, OneDown DEF TypeOK, FailSubscribe
<1>6. connected
  BY <1>1 DEF DeliveryInv, LinkShape
<1>7. (ReplaysWhole => ReplaysWhole') /\ (NoReplay <=> NoReplay')
  BY <1>5, DownGrows DEF TypeOK
<1>8. LinkShape' /\ ReplaysWhole' /\ unacked' \subseteq replica'
  BY <1>2, <1>6, <1>7 DEF DeliveryInv, LinkShape
<1>9. ASSUME ~shortened'
      PROVE  Content'
  <2>1. Content
    BY <1>2, <1>9 DEF DeliveryInv
  <2>2. AllSettled'
    BY <1>2 DEF AllSettled
  <2>3. AsksHeld'
    BY <1>1, <1>3, <2>1, AsksTaken DEF Content, TypeOK
  <2>4. Complete(down', "Snapshot")
    <3>1. \A i \in 1..Len(down') : i > Len(down) => down'[i].type # "Snapshot"
      BY <1>5 DEF ReplayTypes
    <3>2. QED
      BY <1>5, <2>1, <3>1, CompleteGrows DEF Content, TypeOK
  <2>5. FrontierGiven' /\ SnapHeld'
    BY <1>2, <1>3, <2>1, FrontierStays DEF Content, SnapHeld
  <2>6. QED
    BY <2>2, <2>3, <2>4, <2>5 DEF Content
<1>10. QED
  BY <1>8, <1>9 DEF DeliveryInv

LEMMA ThreePlaces ==
    ASSUME NEW a, NEW b, NEW c
    PROVE  Len(<<a, b, c>>) = 3 /\ <<a, b, c>>[1] = a /\ <<a, b, c>>[2] = b /\ <<a, b, c>>[3] = c
OBVIOUS

\* A Subscribe is answered with all that it asks for.
LEMMA ServeSubscribeDelivers ==
    ASSUME TypeOK, TypeOK', DeliveryInv, ServeSubscribe
    PROVE  DeliveryInv'
<1> DEFINE have == Head(uplink).covers
           from == Larger(have, snap.covers)
           info == IF snap.covers > have
                   THEN Message("Snapshot", snap.covers, snap.content)
                   ELSE Message("NoSnapshot", snap.covers, {})
           log == Message("Frames", 0, (from + 1)..head)
           ok == Message("SubscribedOk", 0, {})
           n == Len(down)
<1>1. uplink # <<>> /\ uplink' = Tail(uplink) /\ Head(uplink).type = "Subscribe"
  BY DEF ServeSubscribe, RelayTake
<1>2. UNCHANGED <<snap, head, fanout, connected, live, deferred, snapRefused,
                  lostFrames, resub, haveSeq, ahead, unacked, replica, events, lagged, cmds, shortened>>
      /\ subscribed' = TRUE
  BY DEF ServeSubscribe, recvVars, chanVars
<1>3. GivenGrows
  BY <1>2, GivenKept
<1>4. /\ MaxSeq \in Nat /\ have \in 0..MaxSeq /\ head \in 0..MaxSeq /\ snap.covers \in 0..MaxSeq
      /\ from \in 0..MaxSeq
      /\ 1..have \subseteq Seqs
      /\ n \in Nat
  <2>1. have \in 0..MaxSeq
    BY RelayTakeType DEF ServeSubscribe, TypeOK
  <2>2. MaxSeq \in Nat /\ head \in 0..MaxSeq /\ snap.covers \in 0..MaxSeq
    BY BoundsAssumption DEF TypeOK, RelayType
  <2>3. n \in Nat
    BY Places DEF TypeOK, LinkType
  <2>4. QED
    BY <2>1, <2>2, <2>3 DEF Larger, Seqs
<1>5. /\ info.type \in {"Snapshot", "NoSnapshot"}
      /\ info.type = "Snapshot" => info.covers = snap.covers /\ info.content = snap.content
      /\ snap.covers > have => info.type = "Snapshot"
      /\ log.type = "Frames" /\ log.content = (from + 1)..head /\ ok.type = "SubscribedOk"
  BY DEF Message
<1>6. /\ Len(down') = n + 3 /\ DOMAIN down' = 1..(n + 3) /\ DOMAIN down = 1..n
      /\ \A i \in 1..n : down'[i] = down[i]
      /\ down'[n + 1] = info /\ down'[n + 2] = log /\ down'[n + 3] = ok
  <2>1. Replay(have) = <<info, log, ok>> /\ Replay(have) \in Seq(DownMessages)
    BY <1>4, ReplayType DEF Replay, TypeOK
  <2>2. down' = down \o Replay(have) /\ down \in Seq(DownMessages) /\ down' \in Seq(DownMessages)
    BY DEF ServeSubscribe, TypeOK, LinkType
  <2> HIDE DEF info, log, ok, have, from
  <2> DEFINE r == Replay(have)
  <2>3. /\ r \in Seq(DownMessages) /\ Len(r) = 3 /\ r[1] = info /\ r[2] = log /\ r[3] = ok
        /\ down' = down \o r
    BY <2>1, <2>2, ThreePlaces
  <2> HIDE DEF r
  <2>4. /\ Grown(down, down \o r) /\ Len(down \o r) = Len(down) + Len(r)
        /\ \A i \in 1..Len(r) : (down \o r)[Len(down) + i] = r[i]
    <3>1. down \in Seq(DownMessages) /\ r \in Seq(DownMessages)
      BY <2>2, <2>3
    <3> HIDE DEF n
    <3>2. QED
      BY <3>1, ConcatGrown
  <2>5. DOMAIN down' = 1..Len(down') /\ DOMAIN down = 1..n
    BY <2>2, Places
  <2>6. Grown(down, down') /\ Len(down') = n + 3 /\ \A i \in 1..3 : down'[n + i] = r[i]
    BY <2>3, <2>4
  <2>7. QED
    BY <2>3, <2>5, <2>6 DEF Grown
<1> HIDE DEF info, log, ok, n
<1>7. connected
  BY <1>1 DEF DeliveryInv, LinkShape
<1>8. LinkShape' /\ unacked' \subseteq replica'
  BY <1>2, <1>7 DEF DeliveryInv, LinkShape
<1>9. ReplaysWhole'
  <2> SUFFICES ASSUME NEW i \in 1..(n + 3), down'[i].type \in {"Snapshot", "NoSnapshot"}
               PROVE  /\ i + 2 \in 1..(n + 3)
                      /\ down'[i + 1].type = "Frames"
                      /\ down'[i + 2].type = "SubscribedOk"
    BY <1>6 DEF ReplaysWhole
  <2>1. CASE i \in 1..n
    <3>1. /\ i + 2 \in 1..n
          /\ down[i + 1].type = "Frames"
          /\ down[i + 2].type = "SubscribedOk"
      BY <1>6, <2>1 DEF DeliveryInv, ReplaysWhole
    <3>2. i + 1 \in 1..n
      BY <1>4, <3>1
    <3>3. QED
      BY <1>4, <1>6, <3>1, <3>2
  <2>2. CASE i = n + 1
    BY <1>4, <1>5, <1>6, <2>2
  <2>3. i # n + 2 /\ i # n + 3
    BY <1>5, <1>6
  <2>4. QED
    BY <1>4, <2>1, <2>2, <2>3
<1>10. ASSUME ~shortened'
       PROVE  Content'
  <2>1. Content
    BY <1>2, <1>10 DEF DeliveryInv
  <2>2. AsksHeld'
    BY <1>1, <1>3, <2>1, AsksTaken DEF Content, TypeOK
  <2>3. SnapHeld' /\ FrontierGiven'
    BY <1>2, <1>3, <2>1, FrontierStays DEF Content, SnapHeld
  <2>4. Complete(down', "Snapshot")
    <3> SUFFICES ASSUME NEW i \in 1..(n + 3), down'[i].type = "Snapshot"
                 PROVE  1..down'[i].covers \subseteq down'[i].content
      BY <1>6 DEF Complete
    <3>1. CASE i \in 1..n
      BY <1>6, <2>1, <3>1 DEF Content, Complete
    <3>2. CASE i = n + 1
      BY <1>5, <1>6, <2>1, <3>2 DEF Content, SnapHeld
    <3>3. i # n + 2 /\ i # n + 3
      BY <1>5, <1>6
    <3>4. QED
      BY <1>4, <3>1, <3>2, <3>3
  <2>5. AllSettled'
    <3> SUFFICES ASSUME NEW i \in 0..(n + 3), ReplayEnd(i)', NEW s \in 1..head
                 PROVE  Settled(s, i)'
      BY <1>2, <1>6 DEF AllSettled
    <3>1. s \in Seqs /\ s \in Nat
      BY <1>4 DEF Seqs
    <3>2. CASE s <= have
      <4>1. 1 \in DOMAIN uplink /\ uplink[1] = Head(uplink)
        BY <1>1, TailPlaces DEF TypeOK, LinkType
      <4>2. s \in 1..have
        BY <1>4, <3>1, <3>2
      <4>3. Given(s) \/ AskedBehind(1, s)
        BY <1>1, <2>1, <4>1, <4>2 DEF Content, AsksHeld
      <4>4. AskedBehind(1, s) => AskedBehind(0, s)'
        <5>1. 0 \in Nat /\ 0 + 1 = 1
          OBVIOUS
        <5>2. AskedBehind(0 + 1, s) => AskedBehind(0, s)'
          BY <1>1, <5>1, AskedTaken DEF TypeOK
        <5>3. QED
          BY <5>1, <5>2
      <4>5. Given(s)' \/ AskedBehind(0, s)'
        BY <1>3, <3>1, <4>3, <4>4 DEF GivenGrows
      <4>6. QED
        BY <4>5 DEF Settled
    <3>3. CASE s > have /\ s <= snap.covers
      <4>1. info.type = "Snapshot" /\ s \in info.content
        <5>1. snap.covers > have /\ s \in 1..snap.covers
          BY <1>4, <3>1, <3>3
        <5>2. s \in snap.content
          BY <2>1, <5>1 DEF Content, SnapHeld
        <5>3. QED
          BY <1>5, <5>1, <5>2
      <4>2. n + 1 \in DOMAIN down' /\ n + 1 >= i - 2
        BY <1>4, <1>6
      <4>3. Brought("Snapshot", i - 2, s)'
        BY <1>6, <4>1, <4>2 DEF Brought
      <4>4. QED
        BY <4>3 DEF Settled
    <3>4. CASE s > have /\ s > snap.covers
      <4>1. s \in log.content
        BY <1>4, <1>5, <3>1, <3>4 DEF Larger
      <4>2. n + 2 \in DOMAIN down' /\ n + 2 >= i - 1
        BY <1>4, <1>6
      <4>3. Brought("Frames", i - 1, s)'
        BY <1>5, <1>6, <4>1, <4>2 DEF Brought
      <4>4. QED
        BY <4>3 DEF Settled
    <3>5. QED
      BY <1>4, <3>1, <3>2, <3>3, <3>4
  <2>6. QED
    BY <2>2, <2>3, <2>4, <2>5 DEF Content
<1>11. QED
  BY <1>8, <1>9, <1>10 DEF DeliveryInv

LEMMA DisconnectDelivers ==
    ASSUME TypeOK, TypeOK', DeliveryInv, Disconnect
    PROVE  DeliveryInv'
<1>1. /\ UNCHANGED <<snap, haveSeq, ahead, unacked, replica, events, lagged, cmds, shortened>>
      /\ connected' = FALSE /\ live' = FALSE /\ subscribed' = FALSE
      /\ uplink' = <<>> /\ down' = <<>> /\ fanout' = {}
  BY DEF Disconnect, chanVars, histVars
<1>2. GivenGrows
  BY <1>1, GivenKept
<1>3. DOMAIN down' = {} /\ DOMAIN uplink' = {}
  BY <1>1
<1>4. LinkShape' /\ ReplaysWhole' /\ unacked' \subseteq replica'
  BY <1>1, <1>3 DEF DeliveryInv, LinkShape, ReplaysWhole, NoReplay
<1>5. AllSettled' /\ AsksHeld' /\ Complete(down', "Snapshot")
  BY <1>1, <1>3 DEF AllSettled, AsksHeld, Complete
<1>6. Content => FrontierGiven' /\ SnapHeld'
  BY <1>1, <1>2, FrontierStays DEF Content, SnapHeld
<1>7. QED
  BY <1>1, <1>4, <1>5, <1>6 DEF DeliveryInv, Content

LEMMA OnePlace ==
    ASSUME NEW a
    PROVE  DOMAIN <<a>> = {1} /\ <<a>>[1] = a
OBVIOUS

LEMMA ConnectDelivers ==
    ASSUME TypeOK, TypeOK', DeliveryInv, Connect
    PROVE  DeliveryInv'
<1>1. /\ UNCHANGED <<snap, haveSeq, ahead, unacked, replica, events, lagged, cmds, shortened,
                     live, subscribed, down>>
      /\ connected' = TRUE /\ uplink' = <<Subscribe(haveSeq)>> /\ ~connected
  BY DEF Connect, chanVars, histVars, relayVars, recvVars
<1>2. GivenGrows
  BY <1>1, GivenKept
<1>3. ~subscribed'
  BY <1>1 DEF DeliveryInv, LinkShape
<1>4. LinkShape' /\ ReplaysWhole' /\ unacked' \subseteq replica'
  BY <1>1 DEF DeliveryInv, LinkShape, ReplaysWhole, NoReplay
<1>5. AllSettled'
  BY <1>3 DEF AllSettled
<1>6. ASSUME Content
      PROVE  AsksHeld'
  <2>1. \A s \in 1..haveSeq : Given(s)'
    <3>1. \A s \in 1..haveSeq : Given(s) /\ s \in Seqs
      BY <1>6, BelowFrontier, BoundsAssumption DEF Content, TypeOK, RecvType, Seqs
    <3>2. QED
      BY <1>2, <3>1 DEF GivenGrows
  <2>2. Subscribe(haveSeq).covers = haveSeq
    BY SubscribeIs DEF TypeOK, RecvType
  <2>3. DOMAIN uplink' = {1} /\ uplink'[1] = Subscribe(haveSeq)
    BY <1>1, OnePlace
  <2>4. QED
    BY <2>1, <2>2, <2>3 DEF AsksHeld
<1>7. Content => FrontierGiven' /\ SnapHeld' /\ Complete(down', "Snapshot")
  BY <1>1, <1>2, FrontierStays DEF Content, SnapHeld
<1>8. QED
  BY <1>1, <1>4, <1>5, <1>6, <1>7 DEF DeliveryInv, Content

LEMMA RestartDelivers ==
    ASSUME TypeOK, TypeOK', DeliveryInv, Restart
    PROVE  DeliveryInv'
<1>1. /\ UNCHANGED <<snap, shortened>>
      /\ connected' = TRUE /\ live' = FALSE /\ subscribed' = FALSE /\ unacked' = {}
      /\ uplink' = <<Subscribe(0)>> /\ down' = <<>> /\ haveSeq' = 0 /\ ahead' = {}
  BY DEF Restart
<1>2. DOMAIN down' = {}
  BY <1>1
<1>3. LinkShape' /\ ReplaysWhole' /\ unacked' \subseteq replica'
  BY <1>1, <1>2 DEF DeliveryInv, LinkShape, ReplaysWhole, NoReplay
<1>4. AllSettled' /\ Complete(down', "Snapshot")
  BY <1>1, <1>2 DEF AllSettled, Complete
<1>5. AsksHeld'
  <2>1. Subscribe(0).covers = 0
    BY SubscribeIs, BoundsAssumption
  <2>2. DOMAIN uplink' = {1} /\ uplink'[1] = Subscribe(0)
    BY <1>1, OnePlace
  <2>3. 1..0 = {}
    OBVIOUS
  <2>4. QED
    BY <2>1, <2>2, <2>3 DEF AsksHeld
<1>6. FrontierGiven'
  BY <1>1 DEF FrontierGiven, Seen, Seqs
<1>7. Content => SnapHeld'
  BY <1>1 DEF Content, SnapHeld
<1>8. QED
  BY <1>1, <1>3, <1>4, <1>5, <1>6, <1>7 DEF DeliveryInv, Content

\* The engine turns the wish to be given everything again into a Subscribe from 0.
LEMMA ResyncDelivers ==
    ASSUME TypeOK, TypeOK', DeliveryInv, Resync
    PROVE  DeliveryInv'
<1> DEFINE m == Subscribe(0)
<1>1. /\ UNCHANGED <<snap, head, shortened, connected, live, subscribed, unacked, down, fanout,
                     replica, events, lagged, deferred, lostFrames, resub, snapRefused, subRefused>>
      /\ haveSeq' = 0 /\ ahead' = {}
      /\ uplink' = IF connected THEN Append(uplink, m) ELSE uplink
  BY DEF Resync, relayVars, histVars
<1>2. m \in UpMessages /\ m.type = "Subscribe" /\ m.covers = 0
  BY SubscribeIs, BoundsAssumption
<1> HIDE DEF m
<1>3. Grown(uplink, uplink') /\ \A i \in 1..Len(uplink') : i > Len(uplink) => uplink'[i] = m
  BY <1>1, <1>2, OneUp DEF TypeOK
<1>4. /\ Len(uplink) \in Nat /\ DOMAIN uplink = 1..Len(uplink) /\ DOMAIN uplink' = 1..Len(uplink')
  BY Places DEF TypeOK, LinkType
<1>5. ASSUME connected, NEW s \in Seqs, NEW i \in 0..Len(uplink)
      PROVE  AskedBehind(i, s)'
  <2>1. Len(uplink) + 1 \in DOMAIN uplink' /\ uplink'[Len(uplink) + 1] = m
    BY <1>1, <1>2, <1>5, AppendPlaces DEF TypeOK, LinkType
  <2>2. Len(uplink) + 1 > i /\ 0 < s
    BY <1>4 DEF Seqs
  <2>3. QED
    BY <1>2, <2>1, <2>2 DEF AskedBehind
<1>6. LinkShape' /\ ReplaysWhole' /\ unacked' \subseteq replica'
  BY <1>1 DEF DeliveryInv, LinkShape, ReplaysWhole, NoReplay
<1>7. ASSUME ~shortened'
      PROVE  Content'
  <2>1. Content
    BY <1>1, <1>7 DEF DeliveryInv
  <2>2. SnapHeld' /\ Complete(down', "Snapshot")
    BY <1>1, <2>1 DEF Content, SnapHeld
  <2>3. FrontierGiven'
    BY <1>1 DEF FrontierGiven, Seen, Seqs
  <2>4. AsksHeld'
    <3> SUFFICES ASSUME NEW i \in DOMAIN uplink', uplink'[i].type = "Subscribe",
                        NEW s \in 1..uplink'[i].covers
                 PROVE  Given(s)' \/ AskedBehind(i, s)'
      BY DEF AsksHeld
    <3>1. i <= Len(uplink)
      BY <1>2, <1>3, <1>4
    <3>2. i \in 0..Len(uplink) /\ i \in DOMAIN uplink
      BY <1>4, <3>1
    <3>3. connected
      <4>1. uplink # <<>>
        BY <3>2
      <4>2. QED
        BY <4>1 DEF DeliveryInv, LinkShape
    <3>4. s \in Seqs
      <4>1. uplink'[i] \in UpMessages
        BY Places DEF TypeOK, LinkType
      <4>2. uplink'[i].covers \in 0..MaxSeq
        BY <4>1, MessageParts DEF UpMessages
      <4>3. QED
        BY <4>2, BoundsAssumption DEF Seqs
    <3>5. QED
      BY <1>5, <3>2, <3>3, <3>4
  <2>5. AllSettled'
    <3> SUFFICES ASSUME subscribed', NEW i, NEW s \in 1..head'
                 PROVE  Settled(s, i)'
      BY DEF AllSettled
    <3>1. connected
      BY <1>1 DEF DeliveryInv, LinkShape
    <3>2. s \in Seqs
      BY BoundsAssumption DEF Seqs, TypeOK, RelayType
    <3>3. 0 \in 0..Len(uplink)
      BY <1>4
    <3>4. AskedBehind(0, s)'
      BY <1>5, <3>1, <3>2, <3>3
    <3>5. QED
      BY <3>4 DEF Settled
  <2>6. QED
    BY <2>2, <2>3, <2>4, <2>5 DEF Content
<1>8. QED
  BY <1>6, <1>7 DEF DeliveryInv

\* The engine takes a message.  What is left to show of each handler: what it parks and
\* gives stays so, the frontier counts only what is given, and the message is settled.
LEMMA TakenDelivers ==
    ASSUME TypeOK, TypeOK', DeliveryInv, GivenGrows, NEW type, Receive(type),
           Grown(uplink, uplink'),
           \A i \in 1..Len(uplink') : i > Len(uplink) => uplink'[i].type # "Subscribe",
           UNCHANGED <<head, snap, subscribed, fanout, connected, unacked, replica, subRefused,
                       shortened>>,
           live' => live \/ type = "SubscribedOk",
           \A s \in Seqs : IsParked(s) => Given(s)' \/ IsParked(s)',
           Content => FrontierGiven',
           Content /\ type = "Frames" => \A s \in Head(down).content :
              Given(s)' \/ IsParked(s)' \/ (lostFrames' /\ resub' /\ \E p \in Seqs : IsParked(p)'),
           type = "Snapshot" => \A s \in Head(down).content : Given(s)' \/ snapRefused',
           snapRefused /\ ~snapRefused' => type \in {"Snapshot", "NoSnapshot"},
           lostFrames /\ resub /\ (type = "SubscribedOk" => \E p \in Seqs : IsParked(p))
              => lostFrames' /\ resub'
    PROVE  DeliveryInv'
<1>1. down # <<>> /\ down' = Tail(down) /\ Head(down).type = type /\ connected
  BY DEF Receive
<1>2. LinkType /\ LinkType' /\ ReplaysWhole /\ LinkShape
  BY DEF TypeOK, DeliveryInv
<1>3. ReplaysWhole' /\ (NoReplay => NoReplay')
  BY <1>1, <1>2, DownTaken
<1>4. type = "SubscribedOk" => ~NoReplay
  <2>1. 1 \in DOMAIN down /\ Head(down) = down[1]
    BY <1>1, <1>2, TailPlaces DEF LinkType
  <2>2. QED
    BY <1>1, <2>1 DEF NoReplay
<1>5. LinkShape'
  BY <1>1, <1>2, <1>3, <1>4 DEF LinkShape
<1>6. ASSUME ~shortened'
      PROVE  Content'
  <2>1. Content
    BY <1>6 DEF DeliveryInv
  <2>2. SnapHeld'
    BY <2>1 DEF Content, SnapHeld
  <2>3. Complete(down', "Snapshot")
    BY <1>1, <1>2, <2>1, CompleteTail DEF LinkType, Content
  <2>4. AsksHeld'
    BY <1>2, <2>1, AsksGrowUp DEF Content
  <2>5. AllSettled'
    <3>1. \A s \in Seqs : \A i \in Nat :
             Head(down).type = "Frames" /\ s \in Head(down).content /\ i <= 1
                => TakenSettles(s, i)
      BY <1>1, <2>1 DEF TakenSettles
    <3>2. \A s \in Head(down).content : Head(down).type = "Snapshot" => Given(s)' \/ snapRefused'
      BY <1>1
    <3>3. snapRefused /\ ~snapRefused' => Head(down).type \in {"Snapshot", "NoSnapshot"}
      BY <1>1
    <3>4. lostFrames /\ resub /\ (Head(down).type = "SubscribedOk" => \E p \in Seqs : IsParked(p))
             => lostFrames' /\ resub'
      BY <1>1
    <3>5. AllSettled
      BY <2>1 DEF Content
    <3>6. QED
      BY <1>1, <1>2, <3>1, <3>2, <3>3, <3>4, <3>5, SettledTaken
  <2>6. QED
    BY <2>1, <2>2, <2>3, <2>4, <2>5 DEF Content
<1>7. unacked' \subseteq replica'
  BY DEF DeliveryInv
<1>8. QED
  BY <1>3, <1>5, <1>6, <1>7 DEF DeliveryInv

LEMMA ParkedKept ==
    ASSUME UNCHANGED deferred
    PROVE  \A s \in Seqs : IsParked(s) <=> IsParked(s)'
BY DEF IsParked

\* A queue followed by one message or by none has grown by no Subscribe.
LEMMA OptionGrown ==
    ASSUME NEW q \in Seq(UpMessages), NEW m \in UpMessages, NEW r, r = q \/ r = Append(q, m)
    PROVE  /\ r \in Seq(UpMessages) /\ Grown(q, r)
           /\ \A i \in 1..Len(r) : i > Len(q) => r[i] = m
<1>1. CASE r = q
  BY <1>1, Places, SameGrown
<1>2. CASE r = Append(q, m)
  <2>1. Grown(q, r) /\ Len(r) = Len(q) + 1 /\ r[Len(q) + 1] = m /\ r \in Seq(UpMessages)
    BY <1>2, AppendGrown
  <2>2. Len(q) \in Nat
    BY Places
  <2>3. \A i \in 1..Len(r) : i > Len(q) => i = Len(q) + 1
    BY <2>1, <2>2
  <2>4. QED
    BY <2>1, <2>3
<1>3. QED
  BY <1>1, <1>2

LEMMA GrownTwice ==
    ASSUME NEW q \in Seq(UpMessages), NEW r \in Seq(UpMessages), NEW t \in Seq(UpMessages),
           Grown(q, r), Grown(r, t)
    PROVE  Grown(q, t) /\ \A i \in 1..Len(t) : i > Len(q) /\ ~(i > Len(r)) =>
                             i \in 1..Len(r) /\ t[i] = r[i]
<1>1. Len(q) \in Nat /\ Len(r) \in Nat /\ Len(t) \in Nat
  BY Places
<1>2. QED
  BY <1>1 DEF Grown

\* A fetch asks for no replay.
LEMMA FetchTypes ==
    /\ Message("Envelopes", 0, {}) \in UpMessages
    /\ Message("Envelopes", 0, {}).type # "Subscribe"
    /\ Message("Membership", 0, {}) \in UpMessages
    /\ Message("Membership", 0, {}).type # "Subscribe"
<1>1. Message("Envelopes", 0, {}) \in UpMessages /\ Message("Membership", 0, {}) \in UpMessages
  BY NothingType, UpType, BoundsAssumption DEF Answers
<1>2. Message("Envelopes", 0, {}).type = "Envelopes" /\ Message("Membership", 0, {}).type = "Membership"
  BY DEF Message
<1>3. QED
  BY <1>1, <1>2

LEMMA FetchesGrow ==
    ASSUME LinkType, NEW env \in UpMessages, NEW mem \in UpMessages,
           env.type # "Subscribe", mem.type # "Subscribe",
           NEW e, NEW m, e = <<>> \/ e = <<env>>, m = <<>> \/ m = <<mem>>,
           uplink' = (uplink \o e) \o m
    PROVE  /\ Grown(uplink, uplink')
           /\ \A i \in 1..Len(uplink') : i > Len(uplink) => uplink'[i].type # "Subscribe"
<1> DEFINE mid == uplink \o e
<1>1. uplink \in Seq(UpMessages) /\ uplink' = mid \o m
  BY DEF LinkType
<1>2. mid = uplink \/ mid = Append(uplink, env)
  BY <1>1, ConcatOption
<1> HIDE DEF mid
<1>3. /\ mid \in Seq(UpMessages) /\ Grown(uplink, mid)
      /\ \A i \in 1..Len(mid) : i > Len(uplink) => mid[i] = env
  BY <1>1, <1>2, OptionGrown
<1>4. uplink' = mid \/ uplink' = Append(mid, mem)
  BY <1>1, <1>3, ConcatOption
<1>5. /\ uplink' \in Seq(UpMessages) /\ Grown(mid, uplink')
      /\ \A i \in 1..Len(uplink') : i > Len(mid) => uplink'[i] = mem
  BY <1>3, <1>4, OptionGrown
<1>6. /\ Grown(uplink, uplink')
      /\ \A i \in 1..Len(uplink') : i > Len(uplink) /\ ~(i > Len(mid)) =>
            i \in 1..Len(mid) /\ uplink'[i] = mid[i]
  BY <1>1, <1>3, <1>5, GrownTwice
<1>7. QED
  BY <1>3, <1>5, <1>6

LEMMA RequestGrows ==
    ASSUME LinkType, NEW answers, Request(answers)
    PROVE  /\ Grown(uplink, uplink')
           /\ \A i \in 1..Len(uplink') : i > Len(uplink) => uplink'[i].type # "Subscribe"
<1> DEFINE env == Message("Envelopes", 0, {})
           mem == Message("Membership", 0, {})
           e == IF "Envelopes" \in answers \ fetching THEN <<env>> ELSE <<>>
           m == IF "Membership" \in answers \ fetching THEN <<mem>> ELSE <<>>
<1>1. uplink' = (uplink \o e) \o m
  BY DEF Request
<1>2. env \in UpMessages /\ mem \in UpMessages /\ env.type # "Subscribe" /\ mem.type # "Subscribe"
  BY FetchTypes
<1> HIDE DEF env, mem
<1>3. (e = <<>> \/ e = <<env>>) /\ (m = <<>> \/ m = <<mem>>)
  OBVIOUS
<1> HIDE DEF e, m
<1>4. QED
  BY <1>1, <1>2, <1>3, FetchesGrow

LEMMA SameUplink ==
    ASSUME LinkType, UNCHANGED uplink
    PROVE  /\ Grown(uplink, uplink')
           /\ \A i \in 1..Len(uplink') : i > Len(uplink) => uplink'[i].type # "Subscribe"
BY SameLink

LEMMA RecvFramesDelivers ==
    ASSUME TypeOK, TypeOK', DeliveryInv, RecvFrames
    PROVE  DeliveryInv'
<1> DEFINE new == {s \in Head(down).content : ~Seen(s)}
           clear == new \ Opaque
           sealed == new \cap Opaque
           answers == {AnswerFor(missing[s]) : s \in new \cap Opaque}
<1>1. /\ Receive("Frames") /\ NoteSeqs(clear) /\ DeferFrames(sealed) /\ Request(answers)
      /\ AfterSeqAdvance(BytesOf(clear), requested)
      /\ UNCHANGED <<head, snap, subscribed, fanout, connected, live, unacked, cmds, replica,
                     snapRefused, subRefused, shortened>>
  BY DEF RecvFrames, Incorporate, relayVars, histVars
<1>2. Head(down).content \in SUBSET Seqs
  BY <1>1, ReceiveType DEF TypeOK
<1>3. clear \in SUBSET Seqs /\ sealed \in SUBSET Seqs
  BY <1>2
<1>4. \A s \in Head(down).content : s \in Seqs /\ (Seen(s) \/ s \in clear \/ s \in sealed)
  BY <1>2
<1> HIDE DEF new, clear, sealed, answers
<1>5. haveSeq' \in 0..MaxSeq
  BY DEF TypeOK, RecvType
<1>6. GivenGrows /\ \A s \in clear : Given(s)'
  BY <1>1, <1>3, <1>5, AdvanceGives DEF TypeOK
<1>7. /\ \A s \in Seqs : IsParked(s) => IsParked(s)'
      /\ \A s \in sealed :
            IsParked(s)' \/ (lostFrames' /\ resub' /\ \E p \in Seqs : IsParked(p)')
      /\ (lostFrames /\ resub) => (lostFrames' /\ resub')
  BY <1>1, <1>3, DeferFramesSettles DEF TypeOK
<1>8. /\ Grown(uplink, uplink')
      /\ \A i \in 1..Len(uplink') : i > Len(uplink) => uplink'[i].type # "Subscribe"
  BY <1>1, RequestGrows DEF TypeOK
<1>9. Content => FrontierGiven'
  BY <1>1, <1>3, <1>6, FrontierNotes DEF TypeOK, Content
<1>10. ASSUME Content, NEW s \in Head(down).content
       PROVE  Given(s)' \/ IsParked(s)' \/ (lostFrames' /\ resub' /\ \E p \in Seqs : IsParked(p)')
  <2>1. CASE Seen(s)
    <3>1. Given(s) /\ s \in Seqs
      BY <1>4, <1>10, <2>1 DEF Content, FrontierGiven
    <3>2. QED
      BY <1>6, <3>1 DEF GivenGrows
  <2>2. QED
    BY <1>4, <1>6, <1>7, <2>1
<1>11. QED
  BY <1>1, <1>6, <1>7, <1>8, <1>9, <1>10, TakenDelivers

LEMMA RecvRequestSnapshotDelivers ==
    ASSUME TypeOK, TypeOK', DeliveryInv, RecvRequestSnapshot
    PROVE  DeliveryInv'
<1>1. /\ Receive("RequestSnapshot")
      /\ AfterSeqAdvance(<<>>, Head(down).covers)
      /\ UNCHANGED <<head, snap, subscribed, fanout, connected, uplink, live, unacked, cmds, replica,
                     snapRefused, subRefused, shortened, haveSeq, ahead, deferred, lostFrames, resub>>
  BY DEF RecvRequestSnapshot, relayVars, recvVars, histVars
<1>2. AfterSeqAdvance(BytesOf({}), Head(down).covers) /\ {} \in SUBSET Seqs
  BY <1>1 DEF BytesOf
<1>3. haveSeq' \in 0..MaxSeq
  BY DEF TypeOK, RecvType
<1>4. GivenGrows
  BY <1>1, <1>2, <1>3, AdvanceGives DEF TypeOK
<1>5. /\ Grown(uplink, uplink')
      /\ \A i \in 1..Len(uplink') : i > Len(uplink) => uplink'[i].type # "Subscribe"
  BY <1>1, SameUplink DEF TypeOK
<1>6. Content => FrontierGiven'
  BY <1>1, <1>4, FrontierStays DEF Content
<1>7. \A s \in Seqs : IsParked(s) => IsParked(s)'
  BY <1>1, ParkedKept
<1>8. QED
  BY <1>1, <1>4, <1>5, <1>6, <1>7, TakenDelivers

\* The snapshot the relay sends holds all that the frontier moves over.
LEMMA RecvSnapshotDelivers ==
    ASSUME TypeOK, TypeOK', DeliveryInv, RecvSnapshot
    PROVE  DeliveryInv'
<1> DEFINE covers == Head(down).covers
           content == Head(down).content
<1>1. /\ Receive("Snapshot") /\ Emit(<<DocBytes(content)>>)
      /\ haveSeq' = Larger(haveSeq, covers) /\ ahead' \subseteq ahead
      /\ UNCHANGED <<head, snap, subscribed, fanout, connected, uplink, live, unacked, cmds, replica,
                     subRefused, shortened, deferred, lostFrames, resub>>
  BY DEF RecvSnapshot, relayVars
<1>2. content \in SUBSET Seqs /\ covers \in 0..MaxSeq
  BY <1>1, ReceiveType DEF TypeOK
<1>3. <<DocBytes(content)>> \in Seq(EventMessages) /\ content \subseteq Sent(<<DocBytes(content)>>)
  <2>1. DocBytes(content) \in EventMessages /\ Bytes(DocBytes(content)) = content
    <3>1. DocBytes(content) \in EventMessages
      BY <1>2, NothingType, EventType DEF DocBytes
    <3>2. QED
      BY <3>1 DEF DocBytes, Message, Bytes
  <2> HIDE DEF content
  <2>2. DOMAIN <<DocBytes(content)>> = {1} /\ <<DocBytes(content)>>[1] = DocBytes(content)
    OBVIOUS
  <2>3. QED
    BY <1>2, <2>1, <2>2 DEF Sent
<1>4. Content => 1..covers \subseteq content
  BY <1>1, CompleteTail DEF Content, Receive, TypeOK, LinkType
<1> HIDE DEF covers, content
<1>5. GivenGrows /\ \A s \in content : Given(s)'
  BY <1>1, <1>3, EmitGives DEF TypeOK
<1>6. /\ Grown(uplink, uplink')
      /\ \A i \in 1..Len(uplink') : i > Len(uplink) => uplink'[i].type # "Subscribe"
  BY <1>1, SameUplink DEF TypeOK
<1>7. ASSUME Content, NEW s \in Seqs, Seen(s)'
      PROVE  Given(s)'
  <2>1. CASE Seen(s)
    BY <1>5, <1>7, <2>1 DEF Content, FrontierGiven, GivenGrows
  <2>2. CASE ~Seen(s)
    <3>1. s \in 1..covers
      BY <1>1, <1>2, <1>7, <2>2 DEF Seen, Larger, TypeOK, RecvType, Seqs
    <3>2. QED
      BY <1>4, <1>5, <1>7, <3>1
  <2>3. QED
    BY <2>1, <2>2
<1>8. Content => FrontierGiven'
  BY <1>7 DEF FrontierGiven
<1>9. \A s \in Seqs : IsParked(s) => IsParked(s)'
  BY <1>1, ParkedKept
<1>10. \A s \in Head(down).content : Given(s)'
  BY <1>5 DEF content
<1>11. QED
  BY <1>1, <1>5, <1>6, <1>8, <1>9, <1>10, TakenDelivers

LEMMA RefuseSnapshotDelivers ==
    ASSUME TypeOK, TypeOK', DeliveryInv, RefuseSnapshot
    PROVE  DeliveryInv'
<1>1. /\ Receive("Snapshot") /\ Request({"Envelopes"}) /\ snapRefused'
      /\ UNCHANGED <<head, snap, subscribed, fanout, connected, live, unacked, cmds, replica, events,
                     lagged, subRefused, shortened, haveSeq, ahead, deferred, lostFrames, resub>>
  BY DEF RefuseSnapshot, relayVars, recvVars, chanVars
<1>2. GivenGrows
  BY <1>1, GivenKept
<1>3. /\ Grown(uplink, uplink')
      /\ \A i \in 1..Len(uplink') : i > Len(uplink) => uplink'[i].type # "Subscribe"
  BY <1>1, RequestGrows DEF TypeOK
<1>4. Content => FrontierGiven'
  BY <1>1, <1>2, FrontierStays DEF Content
<1>5. \A s \in Seqs : IsParked(s) => IsParked(s)'
  BY <1>1, ParkedKept
<1>6. QED
  BY <1>1, <1>2, <1>3, <1>4, <1>5, TakenDelivers

\* Messages that neither bring content nor ask for a replay.
LEMMA PlainDelivers ==
    ASSUME TypeOK, TypeOK', DeliveryInv, NEW type \in {"NoSnapshot", "SubscribedOk", "Internal", "EpochBump"},
           Receive(type),
           Grown(uplink, uplink'),
           \A i \in 1..Len(uplink') : i > Len(uplink) => uplink'[i].type # "Subscribe",
           UNCHANGED <<head, snap, subscribed, fanout, connected, unacked, cmds, replica, events,
                       lagged, subRefused, shortened, haveSeq, ahead, deferred>>,
           live' => live \/ type = "SubscribedOk",
           snapRefused /\ ~snapRefused' => type = "NoSnapshot",
           lostFrames /\ resub /\ (type = "SubscribedOk" => \E p \in Seqs : IsParked(p))
              => lostFrames' /\ resub'
    PROVE  DeliveryInv'
<1>1. GivenGrows
  BY GivenKept
<1>2. Content => FrontierGiven'
  BY <1>1, FrontierStays DEF Content
<1>3. \A s \in Seqs : IsParked(s) => IsParked(s)'
  BY ParkedKept
<1>4. type # "Frames" /\ type # "Snapshot"
  OBVIOUS
<1>5. QED
  BY <1>1, <1>2, <1>3, <1>4, TakenDelivers

LEMMA RecvNoSnapshotDelivers ==
    ASSUME TypeOK, TypeOK', DeliveryInv, RecvNoSnapshot
    PROVE  DeliveryInv'
<1>1. /\ Receive("NoSnapshot")
      /\ UNCHANGED <<head, snap, subscribed, fanout, connected, uplink, unacked, cmds, replica, events,
                     lagged, subRefused, shortened, haveSeq, ahead, deferred, live, lostFrames, resub>>
  BY DEF RecvNoSnapshot, relayVars, recvVars, chanVars
<1>2. /\ Grown(uplink, uplink')
      /\ \A i \in 1..Len(uplink') : i > Len(uplink) => uplink'[i].type # "Subscribe"
  BY <1>1, SameUplink DEF TypeOK
<1>3. QED
  BY <1>1, <1>2, PlainDelivers

\* The document is live; a request to ask again stays in force while frames are parked.
LEMMA RecvSubscribedOkDelivers ==
    ASSUME TypeOK, TypeOK', DeliveryInv, RecvSubscribedOk
    PROVE  DeliveryInv'
<1>1. /\ Receive("SubscribedOk")
      /\ lostFrames' = (lostFrames /\ \E s \in Seqs : IsParked(s))
      /\ UNCHANGED <<head, snap, subscribed, fanout, connected, uplink, unacked, cmds, replica, events,
                     lagged, snapRefused, subRefused, shortened, haveSeq, ahead, deferred, resub>>
  BY DEF RecvSubscribedOk, relayVars, chanVars, histVars
<1>2. /\ Grown(uplink, uplink')
      /\ \A i \in 1..Len(uplink') : i > Len(uplink) => uplink'[i].type # "Subscribe"
  BY <1>1, SameUplink DEF TypeOK
<1>3. QED
  BY <1>1, <1>2, PlainDelivers

LEMMA RecvInternalDelivers ==
    ASSUME TypeOK, TypeOK', DeliveryInv, RecvInternal
    PROVE  DeliveryInv'
<1>1. /\ Receive("Internal") /\ resub'
      /\ UNCHANGED <<head, snap, subscribed, fanout, connected, uplink, unacked, cmds, replica, events,
                     lagged, snapRefused, subRefused, shortened, haveSeq, ahead, deferred, live,
                     lostFrames>>
  BY DEF RecvInternal, relayVars, recvVars, chanVars, histVars
<1>2. /\ Grown(uplink, uplink')
      /\ \A i \in 1..Len(uplink') : i > Len(uplink) => uplink'[i].type # "Subscribe"
  BY <1>1, SameUplink DEF TypeOK
<1>3. QED
  BY <1>1, <1>2, PlainDelivers

LEMMA RecvEpochBumpDelivers ==
    ASSUME TypeOK, TypeOK', DeliveryInv, RecvEpochBump
    PROVE  DeliveryInv'
<1>1. /\ Receive("EpochBump")
      /\ UNCHANGED <<head, snap, subscribed, fanout, connected, unacked, cmds, replica, events,
                     lagged, snapRefused, subRefused, shortened, haveSeq, ahead, deferred, live,
                     lostFrames, resub>>
  BY DEF RecvEpochBump, relayVars, recvVars, chanVars, histVars
<1> DEFINE env == Message("Envelopes", 0, {})
           mem == Message("Membership", 0, {})
<1>2. uplink' = uplink \o <<env, mem>>
  BY DEF RecvEpochBump
<1>3. env \in UpMessages /\ mem \in UpMessages /\ env.type # "Subscribe" /\ mem.type # "Subscribe"
  BY FetchTypes
<1> HIDE DEF env, mem
<1>4. uplink' = (uplink \o <<env>>) \o <<mem>>
  <2>1. uplink \in Seq(UpMessages)
    BY DEF TypeOK, LinkType
  <2>2. uplink \o <<env, mem>> = Append(Append(uplink, env), mem)
    BY <1>3, <2>1
  <2>3. uplink \o <<env>> = Append(uplink, env) /\ Append(uplink, env) \in Seq(UpMessages)
    BY <1>3, <2>1
  <2>4. Append(uplink, env) \o <<mem>> = Append(Append(uplink, env), mem)
    BY <1>3, <2>3
  <2>5. QED
    BY <1>2, <2>2, <2>3, <2>4
<1>5. /\ Grown(uplink, uplink')
      /\ \A i \in 1..Len(uplink') : i > Len(uplink) => uplink'[i].type # "Subscribe"
  BY <1>3, <1>4, FetchesGrow DEF TypeOK
<1>6. QED
  BY <1>1, <1>5, PlainDelivers

\* What an answer opens is given to the UI; the rest stays parked.
LEMMA RecvAnswerDelivers ==
    ASSUME TypeOK, TypeOK', DeliveryInv, NEW answer \in Answers, RecvAnswer(answer)
    PROVE  DeliveryInv'
<1> DEFINE opened == {s \in Seqs : IsParked(s) /\ missing'[s] = {}}
<1>1. /\ Receive(answer) /\ NoteSeqs(opened) /\ Emit(BytesOf(opened)) /\ opened \in SUBSET Seqs
      /\ deferred' = [s \in Seqs |-> IF s \in opened THEN 0 ELSE deferred[s]]
      /\ UNCHANGED <<head, snap, subscribed, fanout, connected, uplink, live, unacked, cmds, replica,
                     snapRefused, subRefused, shortened, lostFrames, resub>>
  BY DEF RecvAnswer, Incorporate, relayVars, histVars
<1> HIDE DEF opened
<1>2. BytesOf(opened) \in Seq(EventMessages) /\ opened \subseteq Sent(BytesOf(opened))
  BY <1>1, BytesOfType, BytesOfGives
<1>3. GivenGrows /\ \A s \in opened : Given(s)'
  BY <1>1, <1>2, EmitGives DEF TypeOK
<1>4. /\ Grown(uplink, uplink')
      /\ \A i \in 1..Len(uplink') : i > Len(uplink) => uplink'[i].type # "Subscribe"
  BY <1>1, SameUplink DEF TypeOK
<1>5. Content => FrontierGiven'
  BY <1>1, <1>3, FrontierNotes DEF TypeOK, Content
<1>6. \A s \in Seqs : IsParked(s) => Given(s)' \/ IsParked(s)'
  BY <1>1, <1>3 DEF IsParked
<1>7. answer \in {"Membership", "Envelopes"}
  BY DEF Answers
<1>8. QED
  BY <1>1, <1>3, <1>4, <1>5, <1>6, <1>7, TakenDelivers

\* Every step keeps the invariant.
LEMMA DeliveryStep ==
    ASSUME TypeOK, TypeOK', DeliveryInv, [Next]_vars
    PROVE  DeliveryInv'
<1>1. CASE Relay
  BY <1>1, StoreOtherDelivers, StoreOwnDelivers, FanOutDelivers, OtherSnapshotDelivers,
     AskForSnapshotDelivers, ServeSubscribeDelivers, FailSubscribeDelivers, ServeSnapshotDelivers,
     ServeFetchDelivers DEF Relay
<1>2. CASE Recv
  BY <1>2, RecvFramesDelivers, RecvRequestSnapshotDelivers, RecvSnapshotDelivers,
     RefuseSnapshotDelivers, RecvNoSnapshotDelivers, RecvSubscribedOkDelivers, RecvInternalDelivers,
     RecvAnswerDelivers, RecvEpochBumpDelivers DEF Recv
<1>3. CASE HandleCmd
  BY <1>3, ProvideSnapshotDelivers, ResyncDelivers DEF HandleCmd
<1>4. CASE Ui
  BY <1>4, UiBytesDelivers, UiSnapshotNeededDelivers, UiLaggedDelivers DEF Ui
<1>5. CASE Connect \/ RetrySubscription \/ Disconnect \/ Restart
  BY <1>5, ConnectDelivers, RetrySubscriptionDelivers, DisconnectDelivers, RestartDelivers
<1>6. CASE \E s \in Seqs : RecvAck(s)
  BY <1>6, RecvAckDelivers
<1>7. CASE UNCHANGED vars
  BY <1>7, StutterDelivers
<1>8. QED
  BY <1>1, <1>2, <1>3, <1>4, <1>5, <1>6, <1>7 DEF Next

\* Before the first Subscribe is served, nothing is promised and nothing is counted.
LEMMA DeliveryStart ==
    ASSUME Init
    PROVE  DeliveryInv
<1>1. /\ connected /\ down = <<>> /\ ~subscribed /\ ~live /\ unacked = {} /\ replica = {}
      /\ haveSeq = 0 /\ ahead = {} /\ snap.covers = 0 /\ uplink = <<Subscribe(0)>>
  BY DEF Init
<1>2. DOMAIN down = {}
  BY <1>1
<1>3. LinkShape /\ ReplaysWhole /\ Complete(down, "Snapshot")
  BY <1>1, <1>2 DEF LinkShape, NoReplay, ReplaysWhole, Complete
<1>4. AsksHeld
  <2>1. 0 \in 0..MaxSeq
    BY NothingType
  <2>2. Subscribe(0).covers = 0
    BY <2>1, SubscribeIs
  <2>3. \A i \in DOMAIN uplink : uplink[i] = Subscribe(0)
    BY <1>1
  <2>4. \A i \in DOMAIN uplink : 1..uplink[i].covers = {}
    BY <2>2, <2>3
  <2>5. QED
    BY <2>4 DEF AsksHeld
<1>5. SnapHeld /\ FrontierGiven /\ AllSettled
  BY <1>1 DEF SnapHeld, FrontierGiven, Seen, Seqs, AllSettled
<1>6. QED
  BY <1>1, <1>3, <1>4, <1>5 DEF DeliveryInv, Content

\* The invariant of the delivery chain holds in every reachable state.
THEOREM DeliveryHolds == Spec => []DeliveryInv
<1>1. Init => DeliveryInv
  BY DeliveryStart
<1>2. TypeOK /\ TypeOK' /\ DeliveryInv /\ [Next]_vars => DeliveryInv'
  BY DeliveryStep
<1>3. QED
  BY <1>1, <1>2, TypeCorrect, PTL DEF Spec

\* A quiet, live document is complete: nothing is in transit, so what the last replay left
\* open is parked, or was refused and is asked for, which a quiet document is not.
LEMMA QuietSettled ==
    ASSUME TypeOK, DeliveryInv, Quiet, ~snapRefused, ~subRefused, ~shortened, NEW s \in 1..head
    PROVE  s \in replica \/ IsParked(s)
<1>1. /\ live /\ ~resub /\ ~lagged /\ fanout = {}
      /\ DOMAIN uplink = {} /\ DOMAIN down = {} /\ DOMAIN events = {} /\ DOMAIN cmds = {}
  BY DEF Quiet
<1>2. subscribed
  BY <1>1 DEF DeliveryInv, LinkShape
<1>3. 0 \in 0..Len(down) /\ ReplayEnd(0)
  <2>1. Len(down) = 0
    BY DEF Quiet
  <2>2. ReplayEnd(0)
    BY <1>1 DEF ReplayEnd, NoReplay
  <2>3. QED
    BY <2>1, <2>2
<1>4. Settled(s, 0)
  BY <1>2, <1>3 DEF DeliveryInv, Content, AllSettled
<1>5. ~ResyncDue /\ Sent(events) = {}
  BY <1>1 DEF ResyncDue, Sent
<1>6. ~AskedBehind(0, s)
  BY <1>1 DEF AskedBehind
<1>7. ~Brought("Frames", 0 - 1, s) /\ ~Brought("Snapshot", 0 - 2, s)
  BY <1>1 DEF Brought
<1>8. QED
  BY <1>1, <1>4, <1>5, <1>6, <1>7 DEF Settled, Given

\* Once nothing is in transit, the UI holds every stored frame that is not parked, whatever
\* was lost, replayed or reordered on the way, with the exceptions the property names.
THEOREM QuietIsComplete == Spec => []QuietMeansComplete
<1>1. TypeOK /\ DeliveryInv => QuietMeansComplete
  BY QuietSettled DEF QuietMeansComplete
<1>2. QED
  BY <1>1, TypeCorrect, DeliveryHolds, PTL
=============================================================================
