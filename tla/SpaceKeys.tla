----------------------------- MODULE SpaceKeys ------------------------------
(***************************************************************************)
(* The membership and the keys of one shared space: the SpaceState of the  *)
(* engines (src/sync/engine.rs) of all its members, and the relay between  *)
(* them.                                                                   *)
(*                                                                         *)
(* A space has a signed log of membership changes.  Every removal starts a *)
(* new epoch with a new key, which its owner wraps for the members that    *)
(* stay and commits to in the log.  An engine applies its own changes to   *)
(* its copy of the log before the relay has them, seals edits under the    *)
(* key of the epoch its log is in, and accepts a key from the relay only   *)
(* when its log commits to it.  The log and the envelopes are fetched      *)
(* separately, on a join, on the relay's announcement of an epoch, and     *)
(* when a frame arrives that cannot be opened.                             *)
(***************************************************************************)
EXTENDS Integers, Sequences, FiniteSets, FiniteSetsExt, SequencesExt

CONSTANTS
    Client,      \* installations, each with its own identity
    Creator,     \* the one that created the space
    Running,     \* bound: the installations that run; the others are only invited or removed
    GivenRoles,  \* roles an owner may give
    MaxParked,   \* MAX_PARKED_ENVELOPES
    MaxAhead,    \* MAX_ENVELOPES_AHEAD
    MaxOps,      \* bound: changes of the membership after the creation
    MaxFrames,   \* bound: frames sealed
    MaxFaults,   \* bound: lost connections, restarts, and outdated copies of the log served
    MaxTraffic   \* bound: messages of one connection before the user or the relay waits

ASSUME ClientAssumption == IsFiniteSet(Client) /\ Running \subseteq Client /\ Creator \in Running
ASSUME CapsAssumption == MaxParked \in Nat /\ MaxAhead \in Nat
ASSUME BoundsAssumption ==
    /\ MaxOps \in Nat
    /\ MaxFrames \in Nat
    /\ MaxFaults \in Nat
    /\ MaxTraffic \in Nat
ASSUME RolesAssumption == GivenRoles \subseteq {"Owner", "Writer", "Reader"}

Answers == {"Membership", "Envelopes"}
NoJoin == {"none"}
Roles == {"Owner", "Writer", "Reader", "None"}
Writing == {"Owner", "Writer"}
Epochs == 0..MaxOps
Keys == 1..(MaxOps + 1)
NoKey == 0

\* A change gives `who` a role; the creation and every removal also start an epoch.
Op == [seq : Nat, by : Client, who : Client, role : Roles,
       epoch : Epochs, key : Keys \cup {NoKey}]
Envelope == [epoch : Epochs, key : Keys]
Row == [to : Client, epoch : Epochs, key : Keys]
Frame == [by : Client, n : 1..MaxFrames, epoch : Epochs, key : Keys]

VARIABLES
    (* the relay *)
    relayLog,    \* membership changes accepted
    rows,        \* envelopes stored
    frames,      \* frames stored
    (* one connection per client *)
    connected, up, down,
    offered,     \* frames sent down this connection
    (* SpaceState *)
    log,         \* MembershipState, as the changes it results from
    served,      \* confirmed_ops, confirmed_digest
    keys,
    parked,      \* parked_envelopes
    (* the rest of the engine *)
    fetching,    \* membership_inflight, envelopes_inflight
    join,        \* JoinProgress: what has arrived; NoJoin without a join
    pending,     \* an edit waits in the buffer of the document
    outbox,
    waiting,     \* frames parked by the document
    opened,      \* frames handed to the UI
    (* bounds and history *)
    keysMade, sealed, faults, stale,
    refused      \* the relay has refused a change

relayVars == <<relayLog, rows, frames>>
linkVars == <<connected, up, down, offered>>
spaceVars == <<log, served, keys, parked>>
docVars == <<pending, outbox, waiting, opened>>
boundVars == <<keysMade, sealed, faults, stale, refused>>
vars == <<relayVars, linkVars, spaceVars, fetching, join, docVars, boundVars>>

Fetch(answer) == [type |-> answer]
UpMessages ==
    [type : Answers]
    \cup [type : {"Change"}, op : Op, rows : SUBSET Row]
    \cup [type : {"PushUpdate"}, frame : Frame]
DownMessages ==
    [type : {"EpochBump", "NotMember"}]
    \cup [type : {"Membership"}, ops : Seq(Op)]
    \cup [type : {"Envelopes"}, envelopes : Seq(Envelope)]
    \cup [type : {"Frame"}, frame : Frame]

KeyRing == UNION {[E -> Keys] : E \in SUBSET Epochs}

TypeOK ==
    /\ relayLog \in Seq(Op) /\ rows \subseteq Row /\ frames \subseteq Frame
    /\ connected \in [Client -> BOOLEAN]
    /\ up \in [Client -> Seq(UpMessages)] /\ down \in [Client -> Seq(DownMessages)]
    /\ log \in [Client -> Seq(Op)] /\ served \in [Client -> Seq(Op)]
    /\ keys \in [Client -> KeyRing]
    /\ parked \in [Client -> Seq(Envelope)]
    /\ join \in [Client -> (SUBSET Answers) \cup {NoJoin}]
    /\ fetching \in [Client -> SUBSET Answers]
    /\ pending \in [Client -> BOOLEAN]
    /\ \A sent \in {outbox, waiting, opened, offered} : sent \in [Client -> SUBSET Frame]
    /\ keysMade \in Keys /\ sealed \in 0..MaxFrames
    /\ faults \in 0..MaxFaults /\ stale \in 0..MaxFaults /\ refused \in BOOLEAN

-----------------------------------------------------------------------------
(* MembershipState, as a function of the log: enkr-proto, outside this repository. *)

Role(l, m) ==
    LET I == {i \in DOMAIN l : l[i].who = m}
    IN  IF I = {} THEN "None" ELSE l[Max(I)].role
Members(l) == {m \in Client : Role(l, m) # "None"}
CanWrite(l, m) == Role(l, m) \in Writing

\* What a writer wrote stays readable when it is demoted or removed.
CanAuthorContent(l, m) == \E i \in DOMAIN l : l[i].who = m /\ l[i].role \in Writing

Epoch(l) == Cardinality({i \in DOMAIN l : l[i].role = "None"})
Commitment(l, e) == (CHOOSE o \in Range(l) : o.epoch = e /\ o.key # NoKey).key

\* apply: signed by an owner, next in sequence, and a removal starts the next epoch.
Applies(l, op) ==
    /\ Role(l, op.by) = "Owner"
    /\ op.seq = Len(l)
    /\ op.role = "None" => op.epoch = Epoch(l) + 1

NoKeys == [e \in {} |-> NoKey]
Create == [seq |-> 0, by |-> Creator, who |-> Creator, role |-> "Owner", epoch |-> 0, key |-> 1]
Joined(c) == DOMAIN keys[c] # {} /\ log[c] # <<>>

\* create_space has reached the relay; nobody else has joined.
Init ==
    /\ relayLog = <<Create>>
    /\ rows = {[to |-> Creator, epoch |-> 0, key |-> 1]}
    /\ frames = {}
    /\ connected = [c \in Client |-> c \in Running]
    /\ up = [c \in Client |-> <<>>]
    /\ down = [c \in Client |-> <<>>]
    /\ offered = [c \in Client |-> {}]
    /\ log = [c \in Client |-> IF c = Creator THEN <<Create>> ELSE <<>>]
    /\ served = [c \in Client |-> <<>>]
    /\ keys = [c \in Client |-> IF c = Creator THEN [e \in {0} |-> 1] ELSE NoKeys]
    /\ parked = [c \in Client |-> <<>>]
    /\ fetching = [c \in Client |-> {}]
    /\ join = [c \in Client |-> NoJoin]
    /\ pending = [c \in Client |-> FALSE]
    /\ outbox = [c \in Client |-> {}]
    /\ waiting = [c \in Client |-> {}]
    /\ opened = [c \in Client |-> {}]
    /\ keysMade = 1
    /\ sealed = 0
    /\ faults = 0
    /\ stale = 0
    /\ refused = FALSE

-----------------------------------------------------------------------------
(* Helpers of the engine's handlers. *)

Traffic(c) == Len(up[c]) + Len(down[c])
Send(c, msgs) == up' = [up EXCEPT ![c] = @ \o msgs]
Take(c) == down' = [down EXCEPT ![c] = Tail(@)]
Arrives(c, type) == connected[c] /\ down[c] # <<>> /\ Head(down[c]).type = type

\* mutant: the epoch of the log the relay has served
SealingEpochsServed(c) == {e \in DOMAIN keys[c] : e = Epoch(served[c])}

\* sealing_key: the key of exactly the epoch the log is in, or none.
SealingEpochs(c) == {e \in DOMAIN keys[c] : e = Epoch(log[c])}

\* flush_doc can seal.
CanSeal(c) == SealingEpochs(c) # {}

\* absorb_parked_envelopes: a key is taken for an epoch the log has reached, when the
\* log commits to it and none is held yet.
Absorbed(c, l, held) ==
    LET good == {i \in DOMAIN held :
                    /\ held[i].epoch <= Epoch(l)
                    /\ held[i].key = Commitment(l, held[i].epoch)}
        new == {held[i].epoch : i \in good} \ DOMAIN keys[c]
    IN  IF l = <<>> THEN keys[c]
        ELSE [e \in DOMAIN keys[c] \cup new |->
                IF e \in new THEN Commitment(l, e) ELSE keys[c][e]]

\* The elements of s at the indices I, in their order.
InOrder(s, I) ==
    [n \in 1..Cardinality(I) |-> s[CHOOSE i \in I : Cardinality({j \in I : j <= i}) = n]]

\* mutant: an envelope ahead of the log is dropped
StillParkedNone(l, held) == IF l = <<>> THEN held ELSE <<>>

\* What stays parked: envelopes a little ahead of the log.
StillParked(l, held) ==
    LET ahead == {i \in DOMAIN held : held[i].epoch \in Epoch(l) + 1..Epoch(l) + MaxAhead}
    IN  IF l = <<>> THEN held ELSE InOrder(held, ahead)

\* What an engine with log l and keys k lacks to open frame f.
Lacks(c, l, k, f) ==
    IF f.by # c /\ ~CanAuthorContent(l, f.by) THEN {"Membership"}
    ELSE IF f.epoch \notin DOMAIN k THEN {"Envelopes"}
    ELSE {}
Opens(k, S) == {f \in S : k[f.epoch] = f.key}

\* With a longer log or more envelopes: absorb, then retry_deferred_frames.
Learn(c, l, held) ==
    LET k == Absorbed(c, l, held)
        ready == {f \in waiting[c] : Lacks(c, l, k, f) = {}}
    IN  /\ log' = [log EXCEPT ![c] = l]
        /\ keys' = [keys EXCEPT ![c] = k]
        /\ parked' = [parked EXCEPT ![c] = StillParked(l, held)]
        /\ waiting' = [waiting EXCEPT ![c] = @ \ ready]
        /\ opened' = [opened EXCEPT ![c] = @ \cup Opens(k, ready)]

\* mutant: an answer nobody joins for starts a join
FinishJoinAlways(c, answer) ==
    LET got == join[c] \cup {answer}
    IN  join' = [join EXCEPT ![c] = IF got = Answers THEN NoJoin ELSE got]

\* finish_join: the join ends when both answers are there.
FinishJoin(c, answer) ==
    LET got == join[c] \cup {answer}
    IN  join' = [join EXCEPT ![c] = IF @ = NoJoin \/ got = Answers THEN NoJoin ELSE got]

\* request_envelopes, request_membership: unless one is in flight.
Request(c, answer) ==
    /\ fetching' = [fetching EXCEPT ![c] = @ \cup {answer}]
    /\ IF answer \in fetching[c] \/ ~connected[c] THEN UNCHANGED up
       ELSE Send(c, <<Fetch(answer)>>)

-----------------------------------------------------------------------------
(* Commands. *)

\* The user picks a space that the relay has listed, which it does for members; one that is
\* joined already is not fetched again.
JoinSpace(c) ==
    /\ connected[c]
    /\ ~Joined(c)
    /\ \E i \in DOMAIN relayLog : relayLog[i].who = c
    /\ join[c] = NoJoin
    /\ Traffic(c) < MaxTraffic
    /\ join' = [join EXCEPT ![c] = {}]
    /\ Send(c, <<Fetch("Membership"), Fetch("Envelopes")>>)
    /\ UNCHANGED <<relayVars, connected, down, offered, spaceVars, fetching, docVars, boundVars>>

\* add_member and set_member_role: every key held is wrapped for the member, and the
\* change is applied before the relay has it.
AddMember(c, m, role) ==
    LET op == [seq |-> Len(log[c]), by |-> c, who |-> m, role |-> role,
               epoch |-> 0, key |-> NoKey]
    IN  /\ connected[c]
        /\ m # c
        /\ role # Role(log[c], m)
        /\ Applies(log[c], op)
        /\ Len(log[c]) <= MaxOps
        /\ log' = [log EXCEPT ![c] = Append(@, op)]
        /\ Send(c, <<[type |-> "Change", op |-> op,
                      rows |-> {[to |-> m, epoch |-> e, key |-> keys[c][e]] :
                                   e \in DOMAIN keys[c]}]>>)
        /\ UNCHANGED <<relayVars, connected, down, offered, served, keys, parked, fetching, join,
                       docVars, boundVars>>

\* mutant: the key is wrapped before the removal is applied
StayingBefore(l, op) == Members(l)

\* Those the new key is wrapped for: active_members after the removal.
Staying(l, op) == Members(Append(l, op))

\* remove_member: the epoch after the log's, with a fresh key for those who stay.
RemoveMember(c, m) ==
    LET new == Epoch(log[c]) + 1
        op == [seq |-> Len(log[c]), by |-> c, who |-> m, role |-> "None",
               epoch |-> new, key |-> keysMade + 1]
    IN  /\ connected[c]
        /\ m # c
        /\ m \in Members(log[c])
        /\ Applies(log[c], op)
        /\ Len(log[c]) <= MaxOps
        /\ keysMade <= MaxOps
        /\ keysMade' = keysMade + 1
        /\ log' = [log EXCEPT ![c] = Append(@, op)]
        /\ keys' = [keys EXCEPT ![c] = [e \in DOMAIN @ \cup {new} |->
                                           IF e = new THEN op.key ELSE @[e]]]
        /\ Send(c, <<[type |-> "Change", op |-> op,
                      rows |-> {[to |-> n, epoch |-> new, key |-> op.key] :
                                   n \in Staying(log[c], op)}]>>)
        /\ UNCHANGED <<relayVars, connected, down, offered, served, parked, fetching, join,
                       docVars, sealed, faults, stale, refused>>

\* QueueUpdate.
Edit(c) ==
    /\ Joined(c)
    /\ ~pending[c]
    /\ sealed + Cardinality({d \in Client : pending[d]}) < MaxFrames
    /\ pending' = [pending EXCEPT ![c] = TRUE]
    /\ UNCHANGED <<relayVars, linkVars, spaceVars, fetching, join, outbox, waiting, opened,
                   boundVars>>

\* flush_doc: without the right to write the edit is dropped; without the key of the
\* epoch it is kept and the key asked for.
FlushDrops(c) ==
    /\ pending[c]
    /\ ~CanWrite(log[c], c)
    /\ pending' = [pending EXCEPT ![c] = FALSE]
    /\ UNCHANGED <<relayVars, linkVars, spaceVars, fetching, join, outbox, waiting, opened,
                   boundVars>>
FlushStalls(c) ==
    /\ pending[c]
    /\ CanWrite(log[c], c)
    /\ ~CanSeal(c)
    /\ Traffic(c) < MaxTraffic
    /\ Request(c, "Envelopes")
    /\ UNCHANGED <<relayVars, connected, down, offered, spaceVars, join, docVars, boundVars>>
FlushSeals(c) ==
    LET e == Max(SealingEpochs(c))
        f == [by |-> c, n |-> sealed + 1, epoch |-> e, key |-> keys[c][e]]
    IN  /\ pending[c]
        /\ CanWrite(log[c], c)
        /\ CanSeal(c)
        /\ sealed' = sealed + 1
        /\ pending' = [pending EXCEPT ![c] = FALSE]
        /\ outbox' = [outbox EXCEPT ![c] = @ \cup {f}]
        /\ opened' = [opened EXCEPT ![c] = @ \cup {f}]
        /\ IF connected[c] THEN Send(c, <<[type |-> "PushUpdate", frame |-> f]>>)
           ELSE UNCHANGED up
        /\ UNCHANGED <<relayVars, connected, down, offered, spaceVars, fetching, join, waiting,
                       keysMade, faults, stale, refused>>

-----------------------------------------------------------------------------
(* The relay: outside this repository.  It takes the requests of a connection in order. *)

RelayTake(c, type) ==
    /\ up[c] # <<>>
    /\ Head(up[c]).type = type
    /\ up' = [up EXCEPT ![c] = Tail(@)]
Answer(c, msg) == down' = [down EXCEPT ![c] = Append(@, msg)]
NotMember(c) == Answer(c, [type |-> "NotMember"])
IsMember(c) == c \in Members(relayLog)
EngineUnchanged == UNCHANGED <<spaceVars, fetching, join, pending, waiting, opened>>

\* A removal is announced to everyone connected, the removed one and its owner included.
AcceptChange(c) ==
    /\ RelayTake(c, "Change")
    /\ LET req == Head(up[c])
           told == IF req.op.role = "None" THEN {m \in Members(relayLog) : connected[m]} ELSE {}
       IN  /\ Applies(relayLog, req.op)
           /\ relayLog' = Append(relayLog, req.op)
           /\ rows' = rows \cup req.rows
           /\ down' = [m \in Client |->
                         IF m \in told THEN Append(down[m], [type |-> "EpochBump"]) ELSE down[m]]
    /\ EngineUnchanged
    /\ UNCHANGED <<frames, connected, offered, outbox, boundVars>>

\* A sequence number already used, or no right to change the membership.
RefuseChange(c) ==
    /\ RelayTake(c, "Change")
    /\ ~Applies(relayLog, Head(up[c]).op)
    /\ refused' = TRUE
    /\ IF IsMember(c) THEN UNCHANGED down ELSE NotMember(c)
    /\ EngineUnchanged
    /\ UNCHANGED <<relayVars, connected, offered, outbox, keysMade, sealed, faults, stale>>

\* The whole log, or an outdated copy of it.
ServeMembership(c) ==
    /\ RelayTake(c, "Membership")
    /\ \E n \in 1..Len(relayLog) :
        /\ n < Len(relayLog) => IsMember(c) /\ faults + stale < MaxFaults
        /\ stale' = IF n < Len(relayLog) THEN stale + 1 ELSE stale
        /\ IF IsMember(c) THEN Answer(c, [type |-> "Membership", ops |-> SubSeq(relayLog, 1, n)])
           ELSE NotMember(c)
    /\ EngineUnchanged
    /\ UNCHANGED <<relayVars, connected, offered, outbox, keysMade, sealed, faults, refused>>

\* The envelopes of the client, by epoch.
ServeEnvelopes(c) ==
    /\ RelayTake(c, "Envelopes")
    /\ IF IsMember(c)
       THEN \E mine \in SetToSeqs({[epoch |-> r.epoch, key |-> r.key] :
                                      r \in {x \in rows : x.to = c}}) :
               /\ \A i, j \in DOMAIN mine : i < j => mine[i].epoch <= mine[j].epoch
               /\ Answer(c, [type |-> "Envelopes", envelopes |-> mine])
       ELSE NotMember(c)
    /\ EngineUnchanged
    /\ UNCHANGED <<relayVars, connected, offered, outbox, boundVars>>

\* The Ack, which takes the frame out of the outbox, is merged into the storing.
StoreFrame(c) ==
    /\ RelayTake(c, "PushUpdate")
    /\ LET f == Head(up[c]).frame
       IN  IF CanWrite(relayLog, c)
           THEN /\ frames' = frames \cup {f}
                /\ outbox' = [outbox EXCEPT ![c] = @ \ {f}]
                /\ UNCHANGED down
           ELSE /\ UNCHANGED <<frames, outbox>>
                /\ IF IsMember(c) THEN UNCHANGED down ELSE NotMember(c)
    /\ EngineUnchanged
    /\ UNCHANGED <<relayLog, rows, connected, offered, boundVars>>

\* Broadcast or Backlog; a member removed since it subscribed still gets the ciphertext.
ServeFrame(c, f) ==
    /\ connected[c]
    /\ Joined(c)
    /\ f \in frames \ offered[c]
    /\ Traffic(c) < MaxTraffic
    /\ offered' = [offered EXCEPT ![c] = @ \cup {f}]
    /\ Answer(c, [type |-> "Frame", frame |-> f])
    /\ EngineUnchanged
    /\ UNCHANGED <<relayVars, connected, up, outbox, boundVars>>

-----------------------------------------------------------------------------
(* handle_ws: one message from the relay. *)

\* apply_frame.
RecvFrame(c) ==
    LET f == Head(down[c]).frame
        lacking == Lacks(c, log[c], keys[c], f)
    IN  /\ Arrives(c, "Frame")
        /\ Take(c)
        /\ IF f \in opened[c] THEN UNCHANGED <<up, fetching, waiting, opened>>
           ELSE IF lacking = {}
           THEN /\ opened' = [opened EXCEPT ![c] = @ \cup Opens(keys[c], {f})]
                /\ UNCHANGED <<up, fetching, waiting>>
           ELSE /\ waiting' = [waiting EXCEPT ![c] = @ \cup {f}]
                /\ \A a \in lacking : Request(c, a)
                /\ UNCHANGED opened
        /\ UNCHANGED <<relayVars, connected, offered, spaceVars, join, pending, outbox, boundVars>>

\* handle_envelopes: no more are parked than there is room for.
RecvEnvelopes(c) ==
    /\ Arrives(c, "Envelopes")
    /\ Take(c)
    /\ LET came == Head(down[c]).envelopes
           room == IF Len(parked[c]) < MaxParked THEN MaxParked - Len(parked[c]) ELSE 0
           taken == SubSeq(came, 1, Min({room, Len(came)}))
       IN  Learn(c, log[c], parked[c] \o taken)
    /\ fetching' = [fetching EXCEPT ![c] = @ \ {"Envelopes"}]
    /\ FinishJoin(c, "Envelopes")
    /\ UNCHANGED <<relayVars, connected, up, offered, served, pending, outbox, boundVars>>

\* mutant: the log served replaces the engine's, however short it is
NewerServed(l, ops) == ops
\* mutant: compared by epoch, not by length
NewerByEpoch(l, ops) == IF Epoch(ops) >= Epoch(l) THEN ops ELSE l

\* A served log replaces one that is not longer.
Newer(l, ops) == IF Len(ops) >= Len(l) THEN ops ELSE l

\* handle_membership: the log served must extend what was served before.
RecvMembership(c) ==
    LET ops == Head(down[c]).ops
    IN  /\ Arrives(c, "Membership")
        /\ IsPrefix(served[c], ops)
        /\ Take(c)
        /\ served' = [served EXCEPT ![c] = ops]
        /\ Learn(c, Newer(log[c], ops), parked[c])
        /\ fetching' = [fetching EXCEPT ![c] = @ \ {"Membership"}]
        /\ FinishJoin(c, "Membership")
        /\ UNCHANGED <<relayVars, connected, up, offered, pending, outbox, boundVars>>

\* reject_membership: nothing is learnt, and the join fails.
RejectMembership(c) ==
    /\ Arrives(c, "Membership")
    /\ ~IsPrefix(served[c], Head(down[c]).ops)
    /\ Take(c)
    /\ fetching' = [fetching EXCEPT ![c] = @ \ {"Membership"}]
    /\ join' = [join EXCEPT ![c] = NoJoin]
    /\ UNCHANGED <<relayVars, connected, up, offered, spaceVars, docVars, boundVars>>

\* EpochBump: both are fetched again, whatever is in flight.
RecvEpochBump(c) ==
    /\ Arrives(c, "EpochBump")
    /\ Take(c)
    /\ fetching' = [fetching EXCEPT ![c] = {"Envelopes"}]
    /\ Send(c, <<Fetch("Envelopes"), Fetch("Membership")>>)
    /\ UNCHANGED <<relayVars, connected, offered, spaceVars, join, docVars, boundVars>>

\* Error NotMember: it does not say what it answers, so a pending join takes it.
RecvNotMember(c) ==
    /\ Arrives(c, "NotMember")
    /\ Take(c)
    /\ join' = [join EXCEPT ![c] = NoJoin]
    /\ fetching' = [fetching EXCEPT ![c] = IF join[c] = NoJoin THEN @ ELSE {}]
    /\ UNCHANGED <<relayVars, connected, up, offered, spaceVars, docVars, boundVars>>

-----------------------------------------------------------------------------
(* Failures. *)

\* disconnect leaves the joins and the fetches in flight as they are.
Disconnect(c) ==
    /\ connected[c]
    /\ faults + stale < MaxFaults
    /\ faults' = faults + 1
    /\ connected' = [connected EXCEPT ![c] = FALSE]
    /\ up' = [up EXCEPT ![c] = <<>>]
    /\ down' = [down EXCEPT ![c] = <<>>]
    /\ offered' = [offered EXCEPT ![c] = {}]
    /\ UNCHANGED <<relayVars, spaceVars, fetching, join, docVars, keysMade, sealed, stale, refused>>

\* on_connected sends the outbox again and subscribes, which has the frames served again.
Connect(c) ==
    /\ ~connected[c]
    /\ connected' = [connected EXCEPT ![c] = TRUE]
    /\ Send(c, SetToSeq({[type |-> "PushUpdate", frame |-> f] : f \in outbox[c]}))
    /\ UNCHANGED <<relayVars, down, offered, spaceVars, fetching, join, docVars, boundVars>>

\* A new engine, which knows nothing of the space.
Restart(c) ==
    /\ faults + stale < MaxFaults
    /\ faults' = faults + 1
    /\ connected' = [connected EXCEPT ![c] = TRUE]
    /\ up' = [up EXCEPT ![c] = <<>>]
    /\ down' = [down EXCEPT ![c] = <<>>]
    /\ offered' = [offered EXCEPT ![c] = {}]
    /\ log' = [log EXCEPT ![c] = <<>>]
    /\ served' = [served EXCEPT ![c] = <<>>]
    /\ keys' = [keys EXCEPT ![c] = NoKeys]
    /\ parked' = [parked EXCEPT ![c] = <<>>]
    /\ fetching' = [fetching EXCEPT ![c] = {}]
    /\ join' = [join EXCEPT ![c] = NoJoin]
    /\ pending' = [pending EXCEPT ![c] = FALSE]
    /\ outbox' = [outbox EXCEPT ![c] = {}]
    /\ waiting' = [waiting EXCEPT ![c] = {}]
    /\ opened' = [opened EXCEPT ![c] = {}]
    /\ UNCHANGED <<relayVars, keysMade, sealed, stale, refused>>

-----------------------------------------------------------------------------
HandleCmd(c) ==
    \/ JoinSpace(c)
    \/ \E m \in Client, role \in GivenRoles : AddMember(c, m, role)
    \/ \E m \in Client : RemoveMember(c, m)
    \/ Edit(c)
Flush(c) == FlushDrops(c) \/ FlushStalls(c) \/ FlushSeals(c)
Relay(c) ==
    \/ AcceptChange(c)
    \/ RefuseChange(c)
    \/ ServeMembership(c)
    \/ ServeEnvelopes(c)
    \/ StoreFrame(c)
    \/ \E f \in frames : ServeFrame(c, f)
Recv(c) ==
    \/ RecvFrame(c)
    \/ RecvEnvelopes(c)
    \/ RecvMembership(c)
    \/ RejectMembership(c)
    \/ RecvEpochBump(c)
    \/ RecvNotMember(c)
Next == \E c \in Running :
    HandleCmd(c) \/ Flush(c) \/ Relay(c) \/ Recv(c) \/ Disconnect(c) \/ Connect(c) \/ Restart(c)

Spec == Init /\ [][Next]_vars

-----------------------------------------------------------------------------
(* Properties. *)

SoleOwner == \A i \in DOMAIN relayLog : relayLog[i].role = "Owner" => relayLog[i].who = Creator

\* Since engines that restart trust the first log they are served, an outdated copy counts
\* only while no process and no connection was lost: tests/resilience.rs has such an owner
\* as exposed.
Informed == SoleOwner /\ (faults = 0 \/ stale = 0)

\* What m holds or the relay could hand it: a key once wrapped for m is out.
KeysOf(m) == Range(keys[m]) \cup {r.key : r \in {x \in rows : x.to = m}}

\* With one owner, a key the log commits to is out only to those who were members at or after
\* the change that made it: remove_member wraps it for those who stay, add_member for the
\* invited, also when a connection or a process was lost in between.
HoldersWereMembers ==
    Informed => \A m \in Client, i \in DOMAIN relayLog :
        relayLog[i].key # NoKey /\ relayLog[i].key \in KeysOf(m)
        => \E j \in i..Len(relayLog) : m \in Members(SubSeq(relayLog, 1, j))

Removed(l, m) == m \notin Members(l) /\ \E i \in DOMAIN l : l[i].who = m
AdmittedSince(l, m) ==
    \E i \in Len(l) + 1..Len(relayLog) : relayLog[i].who = m /\ relayLog[i].role # "None"

\* With one owner, nothing is sealed under a key that is out to someone whom the author's log
\* shows as removed and who has not been admitted since: an engine that lacks the key of a
\* rotation its log knows of writes nothing.
SealedForMembers ==
    [][Informed => \A c, m \in Client : \A f \in outbox'[c] \ outbox[c] :
        f.key \in KeysOf(m) /\ Removed(log[c], m) => AdmittedSince(log[c], m)]_vars

\* With one owner and no connection lost every change the owner made lands: the log an
\* engine keeps is never behind its own changes, whatever answers are on their way.
ChangesLand == SoleOwner /\ faults = 0 => ~refused

\* With one owner the log an engine holds only grows while the engine lives: neither a late
\* answer nor an outdated copy of the log brings a removed member back.
LogsOnlyGrow ==
    [][Informed' => \A c \in Client : IsPrefix(log[c], log'[c]) \/ log'[c] = <<>>]_vars

\* A member that has joined, with nothing on its way in either direction.
Quiet(c) ==
    /\ connected[c]
    /\ Traffic(c) = 0
    /\ join[c] = NoJoin
    /\ Joined(c)
    /\ IsMember(c)
    /\ \A i \in DOMAIN relayLog : relayLog[i].who = c => relayLog[i].role # "None"

\* It can write under the epoch the relay is in, and every frame it was sent is open.
Current(c) ==
    /\ Epoch(log[c]) = Epoch(relayLog)
    /\ CanSeal(c)
    /\ waiting[c] = {}
QuietMeansCurrent ==
    SoleOwner /\ faults = 0 /\ stale = 0 => \A c \in Client : Quiet(c) => Current(c)
=============================================================================
