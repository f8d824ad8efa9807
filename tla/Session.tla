------------------------------ MODULE Session ------------------------------
(***************************************************************************)
(* One installation and its relay connection (src/sync/engine.rs, mod.rs,  *)
(* thread.rs, src/app/state.rs): the user connects, disconnects and quits, *)
(* every connect makes a new engine on a thread of its own, the engine     *)
(* connects, gives up, notices that the link went silent, and answers the  *)
(* requests of the bridge: joins, lists and creations of spaces, uploads   *)
(* and downloads of blobs.  A space goes when the user deletes its mirror, *)
(* when its owner destroys it and when the relay refuses its creation.     *)
(*                                                                         *)
(* Time is left out: a timer (reconnect, heartbeat, liveness, handshake)   *)
(* may run out at any moment at which it is armed.  Documents are in       *)
(* DocReplica and PushPipeline, what a join fetches is in SpaceKeys.       *)
(***************************************************************************)
EXTENDS Naturals, FiniteSets, SequencesExt

CONSTANTS
    Spaces,      \* spaces of the relay
    Plans,       \* bound: which requests are made, and the most asks and faults
    MaxEvents    \* bound: events that wait when an attempt to connect begins

AllCalls == {<<"list">>} \cup ({"create", "join", "get", "put"} \X Spaces)

Plan == [wants : SUBSET AllCalls, asks : Nat, faults : Nat]
Calls == UNION {p.wants : p \in Plans}

ASSUME SpacesAssumption == IsFiniteSet(Spaces)
ASSUME PlansAssumption == Plans # {} /\ \A p \in Plans : p \in Plan
ASSUME EventsAssumption == MaxEvents \in Nat \ {0}

VARIABLES
    \* the user interface: AppState and its AppSync
    phase,       \* "running", "leaving" (blocked in shutdown), "gone"
    plan,        \* the plan of this behaviour
    asks,        \* requests the user still makes, the bridge's own not counted
    shown,       \* AppSync: connected, dead (rejected or incompatible), rejected_spaces
    bound,       \* the spaces of the notes database bound to this relay
    \* AppState::sync: the engine, its link, the requests of its bridge
    eng,
    \* the relay
    member,      \* of each space: an identifier nobody drew yet, or that a client drew,
                 \* or a space this identity is not in, is in, or that was destroyed
    faults       \* links, answers and spaces still to be lost

vars == <<phase, shown, bound, plan, asks, eng, member, faults>>
ui == <<phase, shown, bound, plan, asks>>

Results == {"ok", "disconnected", "refused", "gone"}
Requests == (AllCalls \ ({"join"} \X Spaces)) \cup ({"log", "keys"} \X Spaces)
Down == {<<"list">>, <<"quota">>, <<"internal">>} \cup
        ({"log", "keys", "get", "put", "named", "refused", "account", "deleted"} \X Spaces)
Fatal == {<<"rejected">>, <<"incompatible">>}
LinkEvents == {<<"connected">>, <<"disconnected">>, <<"failed">>} \cup Fatal
SpaceEvents == {"SpaceDeleted", "SpaceRejected"} \X Spaces
Events == LinkEvents \cup SpaceEvents
EngineType ==
    [stage : {"none", "loop", "attempt", "closing", "done"},
     gaveUp : {"no", "rejected", "incompatible"},
     link : {"none", "up", "silent", "broken"},     \* sink and stream, and how they fare
     probing : BOOLEAN,                             \* ping_sent_at is set
     up : Seq(Requests), down : Seq(Down),
     cmds : Seq(AllCalls \cup ({"forget"} \X Spaces) \cup {<<"shutdown">>}),
     calls : [Calls -> {"none", "asked"} \cup Results],
     waits : SUBSET AllCalls,                       \* pending_space_lists, _puts, _gets
     joins : [Spaces -> SUBSET {"waiter", "log", "keys"}],   \* JoinProgress; {}: no entry
     logs : SUBSET Spaces, keys : SUBSET Spaces,    \* what self.spaces holds
     rejected : SUBSET Spaces,                      \* rejected_spaces
     events : Seq(Events),
     listens : BOOLEAN,                             \* the bridge has subscribed to the events
     missed : BOOLEAN,                              \* history: an event came before that
     orphans : SUBSET AllCalls,                     \* history: the answer can no longer come
     forgot : SUBSET AllCalls]                      \* history: the space was forgotten since
                                                    \* the engine read the command

TypeOK ==
    /\ phase \in {"running", "leaving", "gone"}
    /\ plan \in Plans /\ asks \in 0..plan.asks /\ faults \in 0..plan.faults
    /\ shown \in [connected : BOOLEAN, dead : BOOLEAN, refused : SUBSET Spaces]
    /\ bound \subseteq Spaces
    /\ member \in [Spaces -> {"unused", "drawn", "out", "in", "destroyed"}]
    /\ eng \in EngineType
    /\ eng.gaveUp # "no" => eng.link = "none"

Joinable == {s \in Spaces : <<"join", s>> \in plan.wants}
Creatable == {s \in Spaces : <<"create", s>> \in plan.wants}
Named == {s \in Spaces : plan.wants \cap ({"join", "get", "put"} \X {s}) # {}}
Idle == [c \in Calls |-> "none"]
NotYet == [connected |-> FALSE, dead |-> FALSE, refused |-> {}]
NoEngine == [stage |-> "none", gaveUp |-> "no", link |-> "none", probing |-> FALSE,
        up |-> <<>>, down |-> <<>>, cmds |-> <<>>, calls |-> Idle, waits |-> {},
        joins |-> [s \in Spaces |-> {}], logs |-> {}, keys |-> {}, rejected |-> {},
        events |-> <<>>, listens |-> FALSE, missed |-> FALSE, orphans |-> {}, forgot |-> {}]

Holds(seq, x) == \E i \in 1..Len(seq) : seq[i] = x
Joining(g) == {<<"join", s>> : s \in {t \in Spaces : g.joins[t] # {}}}

-----------------------------------------------------------------------------
(* What the handlers of the engine are made of: each takes an engine and    *)
(* gives back what it becomes.                                              *)

(* A oneshot reply: a cancelled request has nobody waiting for it. *)
Reply(g, C, r) ==
    [g EXCEPT !.calls = [c \in Calls |-> IF c \in C /\ @[c] = "asked" THEN r ELSE @[c]],
              !.waits = @ \ C, !.orphans = @ \ C]

(* Events reach only a receiver that has subscribed. *)
Emit(g, event) ==
    IF g.listens THEN [g EXCEPT !.events = Append(@, event)] ELSE [g EXCEPT !.missed = TRUE]

(* mutant: disconnect forgets to fail what waits for an answer *)
LeftWaiting(g) ==
    LET h == IF g.link = "none" THEN g ELSE Emit(g, <<"disconnected">>)
    IN  [h EXCEPT !.link = "none", !.up = <<>>, !.down = <<>>,
                  !.orphans = @ \cup Joining(h)]
(* mutant: the event of a lost connection is forgotten *)
Silently(g) ==
    [Reply(g, g.waits, "disconnected")
        EXCEPT !.link = "none", !.up = <<>>, !.down = <<>>, !.orphans = @ \cup Joining(g)]
(* The joins keep waiting, for answers that went with the connection. *)
Disconnected(g) ==
    LET h == IF g.link = "none" THEN g ELSE Emit(g, <<"disconnected">>)
    IN  [Reply(h, h.waits, "disconnected")
            EXCEPT !.link = "none", !.up = <<>>, !.down = <<>>, !.orphans = @ \cup Joining(h)]

Connected(g) == g.link # "none"

(* A silent link takes what is written; writing to a broken one fails. *)
Writable(g) == g.link \in {"up", "silent"}
Send(g, m) ==
    CASE Writable(g)       -> [g EXCEPT !.up = Append(@, m)]
      [] g.link = "broken" -> Disconnected(g)
      [] OTHER             -> g

(* mutant: a space is joined once its keys are there *)
KeysSuffice(g, s) == s \in g.keys
Known(g, s) == s \in g.keys /\ s \in g.logs

JoinSpace(g, s) ==
    IF Known(g, s) THEN Reply(g, {<<"join", s>>}, "ok")
    ELSE IF ~Connected(g) THEN Reply(g, {<<"join", s>>}, "disconnected")
    ELSE Send(Send([g EXCEPT !.joins[s] = @ \cup {"waiter"}], <<"log", s>>), <<"keys", s>>)

ListSpaces(g) ==
    IF ~Connected(g) THEN Reply(g, {<<"list">>}, "disconnected")
    ELSE Send([g EXCEPT !.waits = @ \cup {<<"list">>}], <<"list">>)

(* The waiter is kept only if the request was written; an upload has one    *)
(* waiter per blob, which a second upload of that blob displaces.           *)
Transfer(g, c) ==
    LET h == Send(IF c[1] = "put" /\ Writable(g) /\ c \in g.waits
                  THEN Reply(g, {c}, "gone") ELSE g, c)
    IN  IF Writable(g) THEN [h EXCEPT !.waits = @ \cup {c}] ELSE Reply(h, {c}, "disconnected")

PutBlob(g, c) ==
    IF c[2] \in g.keys \cup g.logs THEN Transfer(g, c) ELSE Reply(g, {c}, "refused")

(* The keys and the log are there before the relay has heard of the space.   *)
CreateSpace(g, s) ==
    IF ~Connected(g) THEN Reply(g, {<<"create", s>>}, "disconnected")
    ELSE Reply(Send([g EXCEPT !.logs = @ \cup {s}, !.keys = @ \cup {s}], <<"create", s>>),
               {<<"create", s>>}, IF Writable(g) THEN "ok" ELSE "disconnected")

(* forget_space_state: the waiters of the space are dropped, not answered.   *)
WaitersOf(g, s) ==
    (g.waits \cap ({"get", "put"} \X {s})) \cup (Joining(g) \cap {<<"join", s>>})
Forgotten(g, s) ==
    [Reply(g, WaitersOf(g, s), "gone")
        EXCEPT !.logs = @ \ {s}, !.keys = @ \ {s}, !.joins[s] = {},
               !.forgot = @ \cup ({"join", "get", "put"} \X {s})]

HandleCmd(g, c) ==
    CASE c[1] = "join"   -> JoinSpace(g, c[2])
      [] c[1] = "list"   -> ListSpaces(g)
      [] c[1] = "create" -> CreateSpace(g, c[2])
      [] c[1] = "get"    -> Transfer(g, c)
      [] c[1] = "put"    -> PutBlob(g, c)
      [] c[1] = "forget" -> Forgotten(g, c[2])

FinishJoin(g, s, part) ==
    CASE g.joins[s] = {} -> g
      [] g.joins[s] \cup {part} = {"waiter", "log", "keys"} ->
            [Reply(g, {<<"join", s>>}, "ok") EXCEPT !.joins[s] = {}]
      [] OTHER -> [g EXCEPT !.joins[s] = @ \cup {part}]

(* NotMember and UnknownSpace do not say which request they are about.       *)
FailJoins(g) ==
    [Reply(g, Joining(g), "refused") EXCEPT !.joins = [s \in Spaces |-> {}]]

(* What a refused space still causes is not reported, and fails nothing.     *)
Fallout(g, s) == [g EXCEPT !.orphans = @ \cup (Joining(g) \cap {<<"join", s>>})]

Uploads(g) == {c \in g.waits : c[1] = "put"}
HandleMsg(g, m) ==
    CASE m[1] = "log"   -> FinishJoin([g EXCEPT !.logs = @ \cup {m[2]}], m[2], "log")
      [] m[1] = "keys"  -> FinishJoin([g EXCEPT !.keys = @ \cup {m[2]}], m[2], "keys")
      [] m[1] \in {"list", "get", "put"} -> Reply(g, g.waits \cap {m}, "ok")
      [] m[1] = "named" -> Reply(g, g.waits \cap {<<"put", m[2]>>}, "refused")
      [] m[1] = "quota" -> Reply(g, Uploads(g), "refused")
      [] m[1] = "refused" -> IF m[2] \in g.rejected THEN Fallout(g, m[2]) ELSE FailJoins(g)
      [] m[1] = "deleted" -> Emit(Forgotten(g, m[2]), <<"SpaceDeleted", m[2]>>)
      [] m[1] = "account" ->
            Emit([Forgotten(g, m[2]) EXCEPT !.rejected = @ \cup {m[2]}],
                 <<"SpaceRejected", m[2]>>)
      [] m[1] = "internal" -> g
(* Whatever came in proves that the relay is alive. *)
HandleWs(g) == HandleMsg([g EXCEPT !.probing = FALSE, !.down = Tail(@)], Head(g.down))

-----------------------------------------------------------------------------
(* The engine: Engine::run picks a command, a message or the tick.          *)

Becomes(g) == eng' = g
Loops == phase # "gone" /\ eng.stage = "loop"

(* mutant: commands wait in the channel until there is a connection *)
ReadsConnected(g) == g.cmds # <<>> /\ Connected(g)
Reads(g) == g.cmds # <<>>
Command ==
    /\ Loops /\ Reads(eng)
    /\ LET h == [eng EXCEPT !.cmds = Tail(@), !.forgot = @ \ {Head(eng.cmds)}] IN
       Becomes(IF Head(eng.cmds) = <<"shutdown">> THEN [h EXCEPT !.stage = "closing"]
                  ELSE HandleCmd(h, Head(eng.cmds)))
    /\ UNCHANGED <<ui, member, faults>>

Message ==
    /\ Loops /\ eng.link # "none" /\ eng.down # <<>>
    /\ Becomes(HandleWs(eng))
    /\ UNCHANGED <<ui, member, faults>>

(* The stream ends or fails; what came before may or may not be read first. *)
LostWs ==
    /\ Loops /\ eng.link = "broken"
    /\ Becomes(Disconnected(eng))
    /\ UNCHANGED <<ui, member, faults>>

(* mutant: only a refused identity stops the attempts *)
KeepsTrying(g) == g.gaveUp # "rejected"
MayTry(g) == g.gaveUp = "no"
TryConnect ==
    /\ Loops /\ ~Connected(eng) /\ MayTry(eng)
    /\ Len(eng.events) < MaxEvents
    /\ Becomes([eng EXCEPT !.stage = "attempt"])
    /\ UNCHANGED <<ui, member, faults>>

Attempts == phase # "gone" /\ eng.stage = "attempt"
Handshake ==
    /\ Attempts
    /\ \/ Becomes([Emit(eng, <<"connected">>)
                        EXCEPT !.stage = "loop", !.link = "up", !.probing = FALSE])
       \/ Becomes([Emit(eng, <<"failed">>) EXCEPT !.stage = "loop"])
       \/ \E why \in Fatal :
            Becomes([Emit(eng, why) EXCEPT !.stage = "loop", !.gaveUp = why[1]])
    /\ UNCHANGED <<ui, member, faults>>

(* mutant: a probe that nobody answers is sent again and again *)
ProbeAgain(g) == g
Probed(g) == IF Writable(g) THEN [g EXCEPT !.probing = TRUE] ELSE Disconnected(g)
Probe ==
    /\ Loops /\ Connected(eng) /\ ~eng.probing
    /\ Becomes(Probed(eng))
    /\ UNCHANGED <<ui, member, faults>>

(* A Pong, from the relay to the loop, is one step. *)
Pong ==
    /\ Loops /\ eng.link = "up" /\ eng.probing
    /\ Becomes([eng EXCEPT !.probing = FALSE])
    /\ UNCHANGED <<ui, member, faults>>

LivenessTimeout ==
    /\ Loops /\ Connected(eng) /\ eng.probing
    /\ Becomes(Disconnected(eng))
    /\ UNCHANGED <<ui, member, faults>>

(* close_ws after the loop; the engine is dropped with all it holds. *)
Stop ==
    /\ phase # "gone" /\ eng.stage = "closing"
    /\ Becomes([NoEngine EXCEPT !.stage = "done"])
    /\ UNCHANGED <<ui, member, faults>>

-----------------------------------------------------------------------------
(* The network and the relay.                                               *)

Serves(s) == member[s] = "in"
Answers(m) ==
    CASE m[1] = "create" -> {}
      [] m[1] = "list" -> {m}
      [] m[1] \in {"log", "keys", "get"} -> IF Serves(m[2]) THEN {m} ELSE {<<"refused", m[2]>>}
      [] m[1] = "put" -> IF Serves(m[2]) THEN {m, <<"named", m[2]>>, <<"quota">>}
                         ELSE {<<"refused", m[2]>>}

CallOf(m) == IF m[1] \in {"log", "keys"} THEN <<"join", m[2]>> ELSE m

(* A refusal says nothing to those who wait for a blob. *)
Unanswered(m, a) == IF a[1] = "refused" /\ m[1] \in {"get", "put"} THEN {m} ELSE {}

Answering == phase # "gone" /\ eng.link = "up" /\ eng.up # <<>>
RelayAnswers ==
    /\ Answering
    /\ LET m == Head(eng.up) IN \E a \in Answers(m) :
        Becomes([eng EXCEPT !.up = Tail(@), !.down = Append(@, a),
                            !.orphans = @ \cup Unanswered(m, a)])
    /\ UNCHANGED <<ui, member, faults>>

(* A space needs an account, or not; that it was created is no news here. *)
RelayCreates ==
    /\ Answering /\ Head(eng.up)[1] = "create"
    /\ LET s == Head(eng.up)[2] IN
        \/ /\ Becomes([eng EXCEPT !.up = Tail(@)])
           /\ member' = [member EXCEPT ![s] = "in"]
        \/ /\ Becomes([eng EXCEPT !.up = Tail(@), !.down = Append(@, <<"account", s>>)])
           /\ UNCHANGED member
    /\ UNCHANGED <<ui, faults>>

(* An Internal error names neither the request nor what it was about. *)
RelayFails ==
    /\ Answering /\ faults > 0
    /\ Becomes([eng EXCEPT !.up = Tail(@), !.down = Append(@, <<"internal">>),
                                 !.orphans = @ \cup {CallOf(Head(eng.up))}])
    /\ faults' = faults - 1
    /\ UNCHANGED <<ui, member>>

LinkFails ==
    /\ phase # "gone" /\ eng.link = "up" /\ faults > 0
    /\ \E how \in {"silent", "broken"} : Becomes([eng EXCEPT !.link = how])
    /\ faults' = faults - 1
    /\ UNCHANGED <<ui, member>>

(* The owner destroys the space; who is connected is told. *)
SpaceDeleted(s) ==
    /\ phase # "gone" /\ Serves(s) /\ faults > 0
    /\ member' = [member EXCEPT ![s] = "destroyed"] /\ faults' = faults - 1
    /\ eng' = IF eng.link = "up" THEN [eng EXCEPT !.down = Append(@, <<"deleted", s>>)] ELSE eng
    /\ UNCHANGED ui

Invited(s) ==
    /\ phase # "gone" /\ member[s] = "out"
    /\ member' = [member EXCEPT ![s] = "in"]
    /\ UNCHANGED <<ui, eng, faults>>

-----------------------------------------------------------------------------
(* The user interface: what the user does, and pump.                        *)

Issued(g, new) ==
    [g EXCEPT !.calls = [c \in Calls |-> IF c \in new THEN "asked" ELSE @[c]],
              !.cmds = @ \o SetToSeq(new)]
(* mutant: what is under way is asked for again *)
AskedTwice(g, C) == Issued(g, C \cap plan.wants)
(* joining and pushing_blobs: one request of a kind at a time. *)
Asked(g, C) == Issued(g, {c \in C \cap plan.wants : g.calls[c] = "none"})

(* adopt: join every space that is bound to this relay. *)
Adopted(g) == Asked(g, {"join"} \X bound)

(* Dropping the AppSync cancels its requests and asks the engine to stop.    *)
(* It has channels of its own, so nothing it does after that is seen here:   *)
(* the model goes on with the engine that replaces it.                       *)
Exists == eng.stage # "none"
Start ==
    /\ eng' = Adopted([NoEngine EXCEPT !.stage = "loop"])
    /\ shown' = NotYet
    /\ UNCHANGED <<phase, bound, plan, asks, member, faults>>

SyncIsDead == shown.dead /\ ~shown.connected

(* connect_sync; does nothing while an engine exists that is not dead. *)
Connect == phase = "running" /\ (~Exists \/ SyncIsDead) /\ Start
(* reconnect_sync *)
Reconnect == phase = "running" /\ Exists /\ Start
(* disconnect_sync, select_server *)
Disconnect ==
    /\ phase = "running" /\ Exists
    /\ eng' = NoEngine /\ shown' = NotYet
    /\ UNCHANGED <<phase, bound, plan, asks, member, faults>>

(* What the user asks for; uploads are asked for by every pump again, until  *)
(* one of them succeeds.                                                     *)
Asks(c) ==
    /\ phase = "running" /\ Exists /\ Asked(eng, {c}) # eng
    /\ Becomes(Asked(eng, {c}))
    /\ UNCHANGED <<phase, shown, bound, plan, faults>>
Ask(c) ==
    c[1] \notin {"put", "create"} /\ asks > 0 /\ asks' = asks - 1 /\ Asks(c) /\ UNCHANGED member
Reship(c) == c[1] = "put" /\ Asks(c) /\ UNCHANGED <<asks, member>>

(* push_space: every creation draws an identifier of its own. *)
Create(s) ==
    /\ member[s] = "unused" /\ member' = [member EXCEPT ![s] = "drawn"]
    /\ asks > 0 /\ asks' = asks - 1 /\ Asks(<<"create", s>>)

(* The user deletes the mirror of a space (state.rs, AppSync::space_deleted). *)
Forget(s) ==
    /\ phase = "running" /\ s \in bound /\ bound' = bound \ {s}
    /\ asks > 0 /\ asks' = asks - 1
    /\ eng' = IF Exists THEN [eng EXCEPT !.cmds = Append(@, <<"forget", s>>)] ELSE eng
    /\ UNCHANGED <<phase, shown, plan, member, faults>>

(* forward_engine_events starts on the bridge thread, after the engine. *)
Listen ==
    /\ phase = "running" /\ Exists /\ ~eng.listens
    /\ Becomes([eng EXCEPT !.listens = TRUE])
    /\ UNCHANGED <<ui, member, faults>>

HandleEvent ==
    /\ phase = "running" /\ Exists /\ eng.events # <<>>
    /\ LET event == Head(eng.events)
           g == [eng EXCEPT !.events = Tail(@)]
       IN  \/ /\ event \in LinkEvents
              /\ shown' = [shown EXCEPT !.connected = (event = <<"connected">>),
                                        !.dead = @ \/ event \in Fatal]
              /\ Becomes(IF event = <<"connected">> THEN Adopted(g) ELSE g)
              /\ UNCHANGED bound
           \/ /\ event \in SpaceEvents
              /\ shown' = IF event[1] = "SpaceRejected"
                          THEN [shown EXCEPT !.refused = @ \cup {event[2]}] ELSE shown
              /\ bound' = bound \ {event[2]}
              /\ Becomes(g)
    /\ UNCHANGED <<phase, plan, asks, member, faults>>

(* What is joined or created is bound, unless its refusal was handled first. *)
Binds(c) == \/ c[1] = "join"
            \/ c[1] = "create" /\ c[2] \notin shown.refused
(* The result of a request comes from its own task, in no order with events. *)
HandleResult(c) ==
    /\ phase = "running" /\ Exists /\ eng.calls[c] \in Results
    /\ bound' = IF Binds(c) /\ eng.calls[c] = "ok" THEN bound \cup {c[2]} ELSE bound
    /\ Becomes([eng EXCEPT !.calls[c] = "none"])
    /\ UNCHANGED <<phase, shown, plan, asks, member, faults>>

(* AppState::shutdown takes the AppSync and waits for its engine. *)
Leave ==
    /\ phase = "running" /\ phase' = "leaving"
    /\ eng' = IF Exists
              THEN [eng EXCEPT !.cmds = Append(@, <<"shutdown">>), !.calls = Idle,
                               !.events = <<>>, !.listens = FALSE]
              ELSE eng
    /\ UNCHANGED <<shown, bound, plan, asks, member, faults>>

(* The process ends when the engine has stopped, or JOIN_TIMEOUT after the   *)
(* request, wherever the engine is then; in a browser it does not wait.      *)
Exit ==
    /\ phase = "leaving" /\ phase' = "gone"
    /\ eng' = NoEngine
    /\ UNCHANGED <<shown, bound, plan, asks, member, faults>>

-----------------------------------------------------------------------------
Init ==
    /\ phase = "running" /\ shown = NotYet
    /\ plan \in Plans /\ asks = plan.asks /\ faults = plan.faults
    /\ bound \in SUBSET (Joinable \ Creatable)
    /\ member \in [Spaces -> {"unused", "out", "in"}]
    /\ \A s \in Spaces : member[s] = "unused" <=> s \notin Named \ Creatable
    /\ eng = NoEngine

EngineSteps ==
    \/ Command \/ Message \/ LostWs \/ TryConnect \/ Handshake
    \/ Probe \/ Pong \/ LivenessTimeout \/ Stop
RelaySteps ==
    \/ RelayAnswers \/ RelayCreates \/ RelayFails \/ LinkFails
    \/ \E s \in Spaces : Invited(s) \/ SpaceDeleted(s)
UserSteps ==
    \/ Connect \/ Reconnect \/ Disconnect \/ Leave \/ Exit
    \/ \E c \in plan.wants : Ask(c)
    \/ \E s \in Spaces : Create(s) \/ Forget(s)
PumpSteps == Listen \/ HandleEvent \/ \E c \in plan.wants : HandleResult(c) \/ Reship(c)
Next == EngineSteps \/ RelaySteps \/ UserSteps \/ PumpSteps

Spec == Init /\ [][Next]_vars

(* tokio::select! picks at random among what is ready, so a command is read  *)
(* at some time although attempts to connect keep interrupting the loop;     *)
(* timers run out, the relay answers on a link that is up, pump runs.        *)
FairSpec ==
    /\ Spec
    /\ SF_vars(Command) /\ WF_vars(Message) /\ WF_vars(LostWs) /\ WF_vars(Handshake)
    /\ WF_vars(Probe) /\ WF_vars(LivenessTimeout) /\ WF_vars(Stop)
    /\ WF_vars(RelayAnswers) /\ WF_vars(RelayCreates) /\ WF_vars(Exit)
    /\ WF_vars(Listen) /\ WF_vars(HandleEvent)

-----------------------------------------------------------------------------
(* What must hold.                                                          *)

OnTheWay(c) ==
    \/ Holds(eng.up, c) \/ Holds(eng.down, c)
    \/ c[1] = "put" /\ (Holds(eng.down, <<"named", c[2]>>) \/ Holds(eng.down, <<"quota">>))
OnTheWayTo(s, part) ==
    part \in eng.joins[s] \/ Holds(eng.up, <<part, s>>) \/ Holds(eng.down, <<part, s>>)
        \/ Holds(eng.down, <<"refused", s>>)

(* Nobody waits in the engine for an answer that cannot come: a waiter's     *)
(* request or its answer is on the way over the present connection.  Known   *)
(* exceptions, the orphans: requests the relay answered with an Internal     *)
(* error, joins that outlived their connection, blobs the relay refused      *)
(* because of their space, and joins of a space whose creation was refused   *)
(* (engine.rs disconnect, handle_msg, forget_space_state).                   *)
WaitersAreServed ==
    Exists =>
        /\ \A c \in eng.waits \ eng.orphans : Connected(eng) /\ OnTheWay(c)
        /\ \A s \in Spaces : <<"join", s>> \in Joining(eng) \ eng.orphans =>
            \A part \in {"log", "keys"} : OnTheWayTo(s, part)

(* Once the events are handled the user is told the truth: connected as the  *)
(* engine is, and dead exactly when the engine has given up, so that Connect *)
(* replaces it (app.rs handle_sync_event, state.rs connect_sync).  An event  *)
(* from before the bridge subscribed is lost and excepted.                   *)
DrainedUiAgrees ==
    (phase = "running" /\ eng.listens /\ ~eng.missed /\ eng.events = <<>>) =>
        /\ shown.connected = Connected(eng)
        /\ (eng.gaveUp # "no") = SyncIsDead

(* A join that succeeded has loaded both the log and the keys, also when the *)
(* answers of several attempts are mixed, unless the space was forgotten     *)
(* between (engine.rs JoinSpace, finish_join, forget_space_state).           *)
JoinOkMeansLoaded ==
    \A s \in Spaces :
        (<<"join", s>> \in Calls \ eng.forgot /\ eng.calls[<<"join", s>>] = "ok") =>
            s \in eng.logs \cap eng.keys

(* While its engine runs a waiter is dropped without an answer only because  *)
(* the space it asked about was forgotten: nothing else displaces one, above *)
(* all not a second upload of its blob (mod.rs request, engine.rs put_blob,  *)
(* forget_space_state).                                                      *)
NobodyIsDropped == \A c \in Calls : eng.calls[c] = "gone" => c \in eng.forgot

(* Every request ends, with an answer or an error, through lost connections  *)
(* and attempts that fail, once the user keeps to one engine; the exceptions *)
(* are those of WaitersAreServed (mod.rs request).  A creation waits for     *)
(* nobody.                                                                   *)
OneEngineAtLast == <>[][~(Connect \/ Reconnect \/ Disconnect)]_vars
CallsEnd ==
    OneEngineAtLast => \A c \in {d \in Calls : d[1] # "create"} :
        eng.calls[c] = "asked" ~> (eng.calls[c] # "asked" \/ c \in eng.orphans)

(* A link that went silent does not stay connected for ever: the probe that  *)
(* is not answered ends it (engine.rs check_liveness), or the process does   *)
(* (thread.rs join).                                                         *)
SilenceIsNoticed == eng.link = "silent" ~> (eng.link # "silent" \/ phase = "gone")
=============================================================================
